------------------------------ MODULE PageFetch ------------------------------
(***************************************************************************)
(* PwExtractor.fetchSolution (internal/extractors/pwextractor), with what  *)
(* it shares with other calls: the DNS cache of its worker process, the    *)
(* sessions of the FlareSolverr service, and the cookie store.             *)
(*                                                                         *)
(* A worker makes one call after the other.  Waiting for a slot of the     *)
(* domain (see DomainLimiter) is a step that takes any time.  The address  *)
(* a host resolves to is "public", "denied" (private, loopback, the proxy, *)
(* ...) or "empty" (resolved to nothing).  Cookies are named by the client *)
(* whose header began them and numbered in the order the sites issued      *)
(* them; a client's own header is number 0.                                *)
(***************************************************************************)
EXTENDS Naturals, FiniteSets

CONSTANTS
    Fetch,    \* calls of fetchSolution
    Worker,   \* worker processes
    WorkerOf, \* the worker that makes each call
    Host,     \* host names and addresses
    Literal,  \* those that are addresses
    HostOf,   \* the host of each call's URL
    Url,
    UrlOf,    \* the URL of each call's task
    Client,   \* Cookie headers; each is some client's own
    ClientOf, \* the header of each call's task
    Printed,  \* lists of cookies as they are printed for the store's key
    PrintOf,  \* the print of each header's cookies; headers may share one
    NoClient, \* a task without a Cookie header
    NoCookies,\* no cookies, or an entry that is absent
    ProxyAuth \* is there a proxy with a password?

ASSUME FetchAssumption ==
    /\ WorkerOf \in [Fetch -> Worker]
    /\ Literal \subseteq Host
    /\ HostOf \in [Fetch -> Host]
    /\ UrlOf \in [Fetch -> Url]
    /\ NoClient \notin Client
    /\ ClientOf \in [Fetch -> Client \cup {NoClient}]
    /\ PrintOf \in [Client -> Printed]
    /\ ProxyAuth \in BOOLEAN
    /\ NoCookies \notin [client : Client, n : Nat]

VARIABLES
    pc,        \* where each call is
    host,      \* the host it is checking
    solved,    \* has FlareSolverr answered it?
    named,     \* does the answer name the URL of the page?
    dns,       \* per worker: the DNS cache
    session,   \* the session a call has to destroy
    live,      \* FlareSolverr: sessions there are, by the call that made them
    sent,      \* the cookies a call sends
    got,       \* the cookies its answer has
    store,     \* the cookie store
    issued,    \* number of cookies issued so far
    allowed,   \* history: hosts each call found allowed
    final,     \* history: the host of the page each call got
    base,      \* history: what was in the store when a call read it
    orphan     \* history: those that no call is going to destroy: it never
               \* heard of the session, failed to destroy it, or died

checkVars   == <<host, solved, named, dns, allowed, final>>
sessionVars == <<session, live, orphan>>
cookieVars  == <<sent, got, store, issued, base>>
vars == <<pc, checkVars, sessionVars, cookieVars>>

Address   == {"public", "denied", "empty"}
Cookies   == [client : Client, n : Nat]
StoreKeys == Url \X Printed

Places == {"idle", "limit", "check", "cached", "lookup", "cookies", "session",
           "request", "update", "leave", "fail", "parse", "done"}

TypeOK ==
    /\ pc \in [Fetch -> Places]
    /\ host \in [Fetch -> Host]
    /\ solved \in [Fetch -> BOOLEAN]
    /\ named \in [Fetch -> BOOLEAN]
    /\ dns \in [Worker -> [Host -> Address \cup {"absent"}]]
    /\ session \in [Fetch -> BOOLEAN]
    /\ live \subseteq Fetch
    /\ sent \in [Fetch -> Cookies \cup {NoCookies}]
    /\ got \in [Fetch -> Cookies \cup {NoCookies}]
    /\ store \in [StoreKeys -> Cookies \cup {NoCookies}]
    /\ issued \in Nat
    /\ allowed \in [Fetch -> SUBSET Host]
    /\ final \in [Fetch -> Host]
    /\ base \in [Fetch -> Cookies \cup {NoCookies}]
    /\ orphan \subseteq live

Init ==
    /\ pc = [f \in Fetch |-> "idle"]
    /\ host = HostOf
    /\ solved = [f \in Fetch |-> FALSE]
    /\ named = [f \in Fetch |-> FALSE]
    /\ dns = [w \in Worker |-> [h \in Host |-> "absent"]]
    /\ session = [f \in Fetch |-> FALSE]
    /\ live = {}
    /\ sent = [f \in Fetch |-> NoCookies]
    /\ got = [f \in Fetch |-> NoCookies]
    /\ store = [k \in StoreKeys |-> NoCookies]
    /\ issued = 0
    /\ allowed = [f \in Fetch |-> {}]
    /\ final = HostOf
    /\ base = [f \in Fetch |-> NoCookies]
    /\ orphan = {}

Goto(f, p) == pc' = [pc EXCEPT ![f] = p]

\* The call returns an error or panics: its deferred calls are still to come.
Fail(f) == Goto(f, "fail")

-----------------------------------------------------------------------------
(* The host is parsed, waited for, and checked *)

\* parseBaseDomain: an error for a bad URL, a panic for a host without a dot.
Start(f) ==
    /\ pc[f] = "idle"
    /\ \A g \in Fetch : WorkerOf[g] = WorkerOf[f] => pc[g] \in {"idle", "done"}
    /\ Goto(f, "limit") \/ Fail(f)
    /\ UNCHANGED <<checkVars, sessionVars, cookieVars>>

\* The domain's limiter: a wait that is slept through, or an error.
Limit(f) ==
    /\ pc[f] = "limit"
    /\ Goto(f, "check") \/ Fail(f)
    /\ UNCHANGED <<checkVars, sessionVars, cookieVars>>

\* allowHost, given what getIPs found.
Verdict(f, a) ==
    IF a = "public"
    THEN /\ Goto(f, IF solved[f] THEN "update" ELSE "cookies")
         /\ allowed' = [allowed EXCEPT ![f] = @ \cup {host[f]}]
    ELSE Fail(f) /\ UNCHANGED allowed

\* getIPs: an address stands for itself; for a name, is it in the cache?
Check(f) ==
    LET cached == dns[WorkerOf[f]][host[f]] # "absent"
    IN  /\ pc[f] = "check"
        /\ IF host[f] \in Literal
           THEN \E a \in {"public", "denied"} : Verdict(f, a)
           ELSE /\ Goto(f, IF cached THEN "cached" ELSE "lookup")
                /\ UNCHANGED allowed
        /\ UNCHANGED <<host, solved, named, dns, final, sessionVars, cookieVars>>

\* dnsCache.Get of an entry that Has found: expired since, it is nil, and
\* Value() of it panics.
Cached(f) ==
    LET a == dns[WorkerOf[f]][host[f]]
    IN  /\ pc[f] = "cached"
        /\ Verdict(f, a)
        /\ UNCHANGED <<host, solved, named, dns, final, sessionVars, cookieVars>>

\* Mutant of Lookup: a lookup that fails is cached too.
LookupCachesErrors(f) ==
    /\ pc[f] = "lookup"
    /\ \E a \in Address \cup {"error"} :
          /\ dns' = [dns EXCEPT ![WorkerOf[f]][host[f]] = a]
          /\ Verdict(f, a)
    /\ UNCHANGED <<host, solved, named, final, sessionVars, cookieVars>>

Lookup(f) ==
    /\ pc[f] = "lookup"
    /\ \/ \E a \in Address :
            /\ dns' = [dns EXCEPT ![WorkerOf[f]][host[f]] = a]
            /\ Verdict(f, a)
       \/ Fail(f) /\ UNCHANGED <<dns, allowed>>
    /\ UNCHANGED <<host, solved, named, final, sessionVars, cookieVars>>

\* An entry is a minute old.
Expire(w, h) ==
    /\ dns[w][h] # "absent"
    /\ dns' = [dns EXCEPT ![w][h] = "absent"]
    /\ UNCHANGED <<pc, host, solved, named, allowed, final, sessionVars,
                   cookieVars>>

-----------------------------------------------------------------------------
(* Cookies, session, request *)

\* Mutant of StoreKey: the header does not count.
StoreKeyOfUrl(f) == <<UrlOf[f], CHOOSE p \in Printed : TRUE>>

\* The cookies of a task are kept under its URL and a hash of the cookies it
\* came with as they are printed, which need not tell them apart.
StoreKey(f) == <<UrlOf[f], PrintOf[ClientOf[f]]>>

\* extractCookies: what is stored for this header, or else the header's own.
\* An error is logged, and the call goes on without cookies.
ExtractCookies(f) ==
    /\ pc[f] = "cookies"
    /\ IF ClientOf[f] = NoClient
       THEN UNCHANGED <<sent, base>>
       ELSE \/ /\ sent' = [sent EXCEPT ![f] =
                             IF store[StoreKey(f)] = NoCookies
                             THEN [client |-> ClientOf[f], n |-> 0]
                             ELSE store[StoreKey(f)]]
               /\ base' = [base EXCEPT ![f] = store[StoreKey(f)]]
            \/ UNCHANGED <<sent, base>>
    /\ Goto(f, IF ProxyAuth THEN "session" ELSE "request")
    /\ UNCHANGED <<checkVars, sessionVars, got, store, issued>>

\* createSession: without an answer there may be a session all the same.
CreateSession(f) ==
    /\ pc[f] = "session"
    /\ \/ /\ live' = live \cup {f}
          /\ session' = [session EXCEPT ![f] = TRUE]
          /\ Goto(f, "request")
          /\ UNCHANGED orphan
       \/ /\ live' = live \cup {f}
          /\ orphan' = orphan \cup {f}
          /\ Fail(f)
          /\ UNCHANGED session
       \/ /\ Fail(f)
          /\ UNCHANGED sessionVars
    /\ UNCHANGED <<checkVars, cookieVars>>

\* Mutant of Request: the host of the page is not checked.
RequestUnchecked(f) ==
    /\ pc[f] = "request"
    /\ \/ /\ final' \in {[final EXCEPT ![f] = h] : h \in Host}
          /\ named' \in {[named EXCEPT ![f] = b] : b \in BOOLEAN}
          /\ Goto(f, "update")
          /\ solved' = [solved EXCEPT ![f] = TRUE]
       \/ /\ Fail(f)
          /\ UNCHANGED <<final, named, solved>>
    /\ UNCHANGED <<host, dns, allowed, sessionVars, cookieVars>>

\* The page may be from any host after a redirect.  That one is checked too if
\* the answer names it, and else nothing is.  The site may have issued cookies,
\* of the client whose cookies came with the request.
Request(f) ==
    /\ pc[f] = "request"
    /\ \/ /\ \E h \in Host :
                /\ final' = [final EXCEPT ![f] = h]
                /\ \/ /\ host' = [host EXCEPT ![f] = h]
                      /\ named' = [named EXCEPT ![f] = TRUE]
                      /\ Goto(f, "check")
                   \/ Goto(f, "update") /\ UNCHANGED <<host, named>>
          /\ solved' = [solved EXCEPT ![f] = TRUE]
          /\ \/ /\ sent[f] # NoCookies
                /\ issued' = issued + 1
                /\ got' = [got EXCEPT ![f] =
                             [client |-> sent[f].client, n |-> issued + 1]]
             \/ UNCHANGED <<got, issued>>
       \/ /\ Fail(f)
          /\ UNCHANGED <<host, final, named, solved, got, issued>>
    /\ UNCHANGED <<dns, allowed, sessionVars, sent, store, base>>

\* Mutant of UpdateCookies: an answer without cookies puts the header's back.
UpdateOrRestore(f) ==
    /\ pc[f] = "update"
    /\ \/ /\ sent[f] # NoCookies
          /\ store' = [store EXCEPT ![StoreKey(f)] =
                         IF got[f] # NoCookies THEN got[f]
                         ELSE [client |-> ClientOf[f], n |-> 0]]
       \/ UNCHANGED store
    /\ Goto(f, "leave")
    /\ UNCHANGED <<checkVars, sessionVars, sent, got, issued, base>>

\* UpdateCookies under the old header; none, or an error, change nothing.
UpdateCookies(f) ==
    /\ pc[f] = "update"
    /\ \/ /\ sent[f] # NoCookies /\ got[f] # NoCookies
          /\ store' = [store EXCEPT ![StoreKey(f)] = got[f]]
       \/ UNCHANGED store
    /\ Goto(f, "leave")
    /\ UNCHANGED <<checkVars, sessionVars, sent, got, issued, base>>

\* The call has returned: its local variables are gone.
Forget(f) ==
    /\ pc' = [pc EXCEPT ![f] = "done"]
    /\ host' = [host EXCEPT ![f] = HostOf[f]]
    /\ final' = [final EXCEPT ![f] = HostOf[f]]
    /\ solved' = [solved EXCEPT ![f] = FALSE]
    /\ named' = [named EXCEPT ![f] = FALSE]
    /\ allowed' = [allowed EXCEPT ![f] = {}]
    /\ sent' = [sent EXCEPT ![f] = NoCookies]
    /\ got' = [got EXCEPT ![f] = NoCookies]
    /\ base' = [base EXCEPT ![f] = NoCookies]

\* Mutant of Leave: destroySession is called at the end, but not deferred.
LeaveIfSolved(f) ==
    /\ pc[f] \in {"leave", "fail"}
    /\ IF session[f] /\ pc[f] = "leave"
       THEN \/ live' = live \ {f} /\ UNCHANGED orphan
            \/ orphan' = orphan \cup {f} /\ UNCHANGED live
       ELSE UNCHANGED <<live, orphan>>
    /\ session' = [session EXCEPT ![f] = FALSE]
    /\ IF pc[f] = "leave"
       THEN Goto(f, "parse") /\ UNCHANGED <<checkVars, cookieVars>>
       ELSE Forget(f) /\ UNCHANGED <<dns, store, issued>>

\* The deferred destroySession; if it fails, that is logged.
Leave(f) ==
    /\ pc[f] \in {"leave", "fail"}
    /\ IF session[f]
       THEN \/ live' = live \ {f} /\ UNCHANGED orphan
            \/ orphan' = orphan \cup {f} /\ UNCHANGED live
       ELSE UNCHANGED <<live, orphan>>
    /\ session' = [session EXCEPT ![f] = FALSE]
    /\ IF pc[f] = "leave"
       THEN Goto(f, "parse") /\ UNCHANGED <<checkVars, cookieVars>>
       ELSE Forget(f) /\ UNCHANGED <<dns, store, issued>>

\* Extract and Screenshot parse the page or decode the picture, and return.
Parse(f) ==
    /\ pc[f] = "parse"
    /\ Forget(f)
    /\ UNCHANGED <<dns, store, issued, sessionVars>>

\* The worker dies during a call, and its cache with it.
Crash(f) ==
    /\ pc[f] \notin {"idle", "done"}
    /\ Forget(f)
    /\ dns' = [dns EXCEPT ![WorkerOf[f]] = [h \in Host |-> "absent"]]
    /\ session' = [session EXCEPT ![f] = FALSE]
    /\ orphan' = orphan \cup ({f} \cap live)
    /\ UNCHANGED <<live, store, issued>>

FetchSolution(f) ==
    \/ Start(f) \/ Limit(f) \/ Check(f) \/ Cached(f) \/ Lookup(f)
    \/ ExtractCookies(f) \/ CreateSession(f) \/ Request(f) \/ UpdateCookies(f)
    \/ Leave(f) \/ Parse(f)

Next ==
    \/ \E f \in Fetch : FetchSolution(f) \/ Crash(f)
    \/ \E w \in Worker, h \in Host : Expire(w, h)

Spec == Init /\ [][Next]_vars

-----------------------------------------------------------------------------
(* Properties *)

\* Whatever way a call ends, its session is destroyed: one that outlives its
\* call is one the worker never heard of, could not destroy, or left behind
\* when it died.
SessionsAreClosed ==
    \A f \in live \ orphan :
       pc[f] \in {"request", "check", "cached", "lookup", "update", "leave", "fail"}

\* A page is parsed only if the host it was asked from and, where the answer
\* names it, the one it is from were both found allowed by this call.  From an
\* answer that names none the page may be any host's: nothing checks it.
OnlyAllowedHosts ==
    \A f \in Fetch : pc[f] \in {"update", "leave", "parse"} =>
       /\ HostOf[f] \in allowed[f]
       /\ named[f] => final[f] \in allowed[f]

\* What is sent with a task was its own client's, or what the site issued to
\* one whose cookies print the same.  Not even they get each other's headers:
\* only what a site issued is ever stored.
CookiesStayApart ==
    \A f \in Fetch : sent[f] # NoCookies =>
       /\ PrintOf[sent[f].client] = PrintOf[ClientOf[f]]
       /\ sent[f].n = 0 => sent[f].client = ClientOf[f]

Older(k) == store[k] # NoCookies /\ store'[k].n < store[k].n

\* The cookies of an entry are replaced by older ones only where two calls with
\* that entry overlap: the one that stores them read the store before the other
\* one wrote it.
OlderOnlyByOverlap ==
    [][\A f \in Fetch :
         UpdateCookies(f) /\ Older(StoreKey(f)) => base[f] # store[StoreKey(f)]]_vars
=============================================================================
