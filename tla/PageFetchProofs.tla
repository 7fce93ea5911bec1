--------------------------- MODULE PageFetchProofs ---------------------------
(***************************************************************************)
(* Proofs about PageFetch, for any calls, workers, hosts, URLs and clients.*)
(***************************************************************************)
EXTENDS PageFetch, TLAPS

Holding == {"request", "check", "cached", "lookup", "update", "leave", "fail"}

\* A call before its request: that it was answered tells the second check of a
\* host from the first one.
Before(f) ==
    \/ pc[f] \in {"idle", "limit", "cookies", "session"}
    \/ pc[f] \in {"check", "cached", "lookup"} /\ ~solved[f]

SessionInv(f) ==
    /\ session[f] => f \in live \ orphan /\ pc[f] \in Holding
    /\ f \in live \ orphan => session[f]
    /\ Before(f) => f \notin live
    /\ pc[f] \in {"idle", "limit", "cookies", "session", "request"} => ~solved[f]

AllowedInv(f) ==
    /\ pc[f] \in {"cookies", "session", "request"} \/ solved[f] => HostOf[f] \in allowed[f]
    /\ ~solved[f] => host[f] = HostOf[f] /\ final[f] = HostOf[f] /\ ~named[f]
    /\ pc[f] \in {"check", "cached", "lookup"} => host[f] = final[f]
    /\ pc[f] \in {"update", "leave", "parse"} =>
          HostOf[f] \in allowed[f] /\ (named[f] => final[f] \in allowed[f])

\* Whose cookies a call has, and that those it got are newer than those that
\* were stored when it began.
CookieInv(f) ==
    /\ sent[f] # NoCookies =>
          /\ ClientOf[f] \in Client /\ PrintOf[sent[f].client] = PrintOf[ClientOf[f]]
          /\ sent[f].n = 0 => sent[f].client = ClientOf[f]
    /\ got[f] # NoCookies =>
          PrintOf[got[f].client] = PrintOf[ClientOf[f]] /\ got[f].n \in 1 .. issued
    /\ base[f] # NoCookies => base[f].n <= issued
    /\ base[f] # NoCookies /\ got[f] # NoCookies => base[f].n < got[f].n
    /\ Before(f) => got[f] = NoCookies
    /\ pc[f] = "request" => got[f] = NoCookies

StoreInv ==
    \A u \in Url, p \in Printed :
       store[<<u, p>>] # NoCookies =>
         PrintOf[store[<<u, p>>].client] = p /\ store[<<u, p>>].n \in 1 .. issued

IInv ==
    /\ TypeOK
    /\ \A f \in Fetch : SessionInv(f) /\ AllowedInv(f) /\ CookieInv(f)
    /\ StoreInv

\* The places of a call, and the parts of its state each invariant is about,
\* change only for the call that takes the step.
LEMMA OnlyOwnStep ==
    ASSUME TypeOK, NEW f \in Fetch, FetchSolution(f) \/ Crash(f),
           NEW g \in Fetch, g # f
    PROVE  /\ pc'[g] = pc[g] /\ session'[g] = session[g]
           /\ sent'[g] = sent[g] /\ got'[g] = got[g] /\ base'[g] = base[g]
           /\ host'[g] = host[g] /\ final'[g] = final[g]
           /\ allowed'[g] = allowed[g] /\ solved'[g] = solved[g]
           /\ named'[g] = named[g]
<1> USE DEF TypeOK, Goto, Fail, Forget, Verdict, checkVars, sessionVars, cookieVars
<1>1. CASE Start(f)
    BY <1>1 DEF Start
<1>2. CASE Limit(f)
    BY <1>2 DEF Limit
<1>3. CASE Check(f)
    BY <1>3 DEF Check
<1>4. CASE Cached(f)
    BY <1>4 DEF Cached
<1>5. CASE Lookup(f)
    BY <1>5 DEF Lookup
<1>6. CASE ExtractCookies(f)
    BY <1>6 DEF ExtractCookies
<1>7. CASE CreateSession(f)
    BY <1>7 DEF CreateSession
<1>8. CASE Request(f)
    BY <1>8 DEF Request
<1>9. CASE UpdateCookies(f)
    BY <1>9 DEF UpdateCookies
<1>10. CASE Leave(f)
    BY <1>10 DEF Leave
<1>11. CASE Parse(f)
    BY <1>11 DEF Parse
<1>12. CASE Crash(f)
    BY <1>12 DEF Crash
<1> QED
    BY <1>1, <1>2, <1>3, <1>4, <1>5, <1>6, <1>7, <1>8, <1>9, <1>10, <1>11, <1>12
    DEF FetchSolution

LEMMA OthersSessions ==
    ASSUME NEW f \in Fetch, FetchSolution(f) \/ Crash(f)
    PROVE  \A g \in Fetch \ {f} : (g \in live' <=> g \in live)
                                 /\ (g \in orphan' <=> g \in orphan)
<1> USE DEF sessionVars
<1>1. CASE Start(f)
    BY <1>1 DEF Start
<1>2. CASE Limit(f)
    BY <1>2 DEF Limit
<1>3. CASE Check(f)
    BY <1>3 DEF Check
<1>4. CASE Cached(f)
    BY <1>4 DEF Cached
<1>5. CASE Lookup(f)
    BY <1>5 DEF Lookup
<1>6. CASE ExtractCookies(f)
    BY <1>6 DEF ExtractCookies
<1>7. CASE CreateSession(f)
    BY <1>7 DEF CreateSession
<1>8. CASE Request(f)
    BY <1>8 DEF Request
<1>9. CASE UpdateCookies(f)
    BY <1>9 DEF UpdateCookies
<1>10. CASE Leave(f)
    BY <1>10 DEF Leave
<1>11. CASE Parse(f)
    BY <1>11 DEF Parse
<1>12. CASE Crash(f)
    BY <1>12 DEF Crash
<1> QED
    BY <1>1, <1>2, <1>3, <1>4, <1>5, <1>6,
       <1>7, <1>8, <1>9, <1>10, <1>11, <1>12 DEF FetchSolution

\* What an answer means for the host check: the page is from some host, which is
\* checked next if the answer names it.
Answered(f, h) ==
    /\ final' = [final EXCEPT ![f] = h]
    /\ \/ /\ host' = [host EXCEPT ![f] = h]
          /\ named' = [named EXCEPT ![f] = TRUE]
          /\ pc' = [pc EXCEPT ![f] = "check"]
       \/ /\ pc' = [pc EXCEPT ![f] = "update"]
          /\ host' = host /\ named' = named

LEMMA Requested ==
    ASSUME NEW f \in Fetch, Request(f)
    PROVE  /\ pc[f] = "request" /\ allowed' = allowed
           /\ \/ /\ solved' = [solved EXCEPT ![f] = TRUE]
                 /\ \E h \in Host : Answered(f, h)
              \/ /\ host' = host /\ final' = final
                 /\ named' = named /\ solved' = solved
                 /\ pc' = [pc EXCEPT ![f] = "fail"]
BY Zenon DEF Request, Answered, Goto, Fail

-----------------------------------------------------------------------------
(* Types *)

PcTypes == pc \in [Fetch -> Places]

HostTypes ==
    /\ host \in [Fetch -> Host]
    /\ solved \in [Fetch -> BOOLEAN]
    /\ named \in [Fetch -> BOOLEAN]
    /\ allowed \in [Fetch -> SUBSET Host]
    /\ final \in [Fetch -> Host]

DnsTypes == dns \in [Worker -> [Host -> Address \cup {"absent"}]]

SessionTypes ==
    /\ session \in [Fetch -> BOOLEAN]
    /\ live \subseteq Fetch
    /\ orphan \subseteq live

CookieTypes ==
    /\ sent \in [Fetch -> Cookies \cup {NoCookies}]
    /\ got \in [Fetch -> Cookies \cup {NoCookies}]
    /\ store \in [StoreKeys -> Cookies \cup {NoCookies}]
    /\ issued \in Nat
    /\ base \in [Fetch -> Cookies \cup {NoCookies}]

LEMMA TypeParts ==
    TypeOK <=> PcTypes /\ HostTypes /\ DnsTypes /\ SessionTypes /\ CookieTypes
BY DEF TypeOK, PcTypes, HostTypes, DnsTypes, SessionTypes, CookieTypes

LEMMA PcStep ==
    ASSUME IInv, NEW f \in Fetch, FetchSolution(f) \/ Crash(f)
    PROVE  PcTypes'
<1> USE FetchAssumption
<1> USE DEF IInv, PcTypes, Places, Goto, Fail, Forget, Verdict
<1>0. PcTypes
    BY TypeParts
<1>1. CASE Start(f)
    BY <1>0, <1>1 DEF Start
<1>2. CASE Limit(f)
    BY <1>0, <1>2 DEF Limit
<1>3. CASE Check(f)
    BY <1>0, <1>3 DEF Check
<1>4. CASE Cached(f)
    BY <1>0, <1>4 DEF Cached
<1>5. CASE Lookup(f)
    BY <1>0, <1>5 DEF Lookup
<1>6. CASE ExtractCookies(f)
    BY <1>0, <1>6 DEF ExtractCookies
<1>7. CASE CreateSession(f)
    BY <1>0, <1>7 DEF CreateSession
<1>8. CASE Request(f)
    BY <1>0, <1>8 DEF Request
<1>9. CASE UpdateCookies(f)
    BY <1>0, <1>9 DEF UpdateCookies
<1>10. CASE Leave(f)
    BY <1>0, <1>10 DEF Leave
<1>11. CASE Parse(f)
    BY <1>0, <1>11 DEF Parse
<1>12. CASE Crash(f)
    BY <1>0, <1>12 DEF Crash
<1> QED
    BY <1>1, <1>2, <1>3, <1>4, <1>5, <1>6, <1>7, <1>8, <1>9, <1>10, <1>11, <1>12
    DEF FetchSolution

LEMMA HostStep ==
    ASSUME IInv, NEW f \in Fetch, FetchSolution(f) \/ Crash(f)
    PROVE  HostTypes'
<1> USE FetchAssumption
<1> USE DEF IInv, HostTypes, Goto, Fail, Forget, Verdict, checkVars
<1>0. HostTypes
    BY TypeParts
<1>1. CASE Start(f)
    BY <1>0, <1>1 DEF Start
<1>2. CASE Limit(f)
    BY <1>0, <1>2 DEF Limit
<1>3. CASE Check(f)
    BY <1>0, <1>3 DEF Check
<1>4. CASE Cached(f)
    BY <1>0, <1>4 DEF Cached
<1>5. CASE Lookup(f)
    BY <1>0, <1>5 DEF Lookup
<1>6. CASE ExtractCookies(f)
    BY <1>0, <1>6 DEF ExtractCookies
<1>7. CASE CreateSession(f)
    BY <1>0, <1>7 DEF CreateSession
<1>8. CASE Request(f)
  <2>1. CASE solved' = [solved EXCEPT ![f] = TRUE] /\ \E h \in Host : Answered(f, h)
    <3>1. PICK h \in Host : Answered(f, h)
        BY <2>1
    <3>2. final' \in [Fetch -> Host] /\ host' \in [Fetch -> Host]
        BY <1>0, <3>1 DEF Answered
    <3>3. named' \in [Fetch -> BOOLEAN] /\ solved' \in [Fetch -> BOOLEAN]
        BY <1>0, <2>1, <3>1 DEF Answered
    <3> QED
        BY <1>0, <1>8, <3>2, <3>3, Requested
  <2> QED
      BY <1>0, <1>8, <2>1, Requested
<1>9. CASE UpdateCookies(f)
    BY <1>0, <1>9 DEF UpdateCookies
<1>10. CASE Leave(f)
    BY <1>0, <1>10 DEF Leave
<1>11. CASE Parse(f)
    BY <1>0, <1>11 DEF Parse
<1>12. CASE Crash(f)
    BY <1>0, <1>12 DEF Crash
<1> QED
    BY <1>1, <1>2, <1>3, <1>4, <1>5, <1>6, <1>7, <1>8, <1>9, <1>10, <1>11, <1>12
    DEF FetchSolution

LEMMA DnsStep ==
    ASSUME IInv, NEW f \in Fetch, FetchSolution(f) \/ Crash(f)
    PROVE  DnsTypes'
<1> USE FetchAssumption
<1> USE DEF IInv, DnsTypes, Address, checkVars
<1>0. DnsTypes
    BY TypeParts
<1>1. CASE Start(f)
    BY <1>0, <1>1 DEF Start
<1>2. CASE Limit(f)
    BY <1>0, <1>2 DEF Limit
<1>3. CASE Check(f)
    BY <1>0, <1>3 DEF Check
<1>4. CASE Cached(f)
    BY <1>0, <1>4 DEF Cached
<1>5. CASE Lookup(f)
    BY <1>0, <1>5 DEF Lookup
<1>6. CASE ExtractCookies(f)
    BY <1>0, <1>6 DEF ExtractCookies
<1>7. CASE CreateSession(f)
    BY <1>0, <1>7 DEF CreateSession
<1>8. CASE Request(f)
    BY <1>0, <1>8 DEF Request
<1>9. CASE UpdateCookies(f)
    BY <1>0, <1>9 DEF UpdateCookies
<1>10. CASE Leave(f)
    BY <1>0, <1>10 DEF Leave
<1>11. CASE Parse(f)
    BY <1>0, <1>11 DEF Parse
<1>12. CASE Crash(f)
    BY <1>0, <1>12 DEF Crash
<1> QED
    BY <1>1, <1>2, <1>3, <1>4, <1>5, <1>6, <1>7, <1>8, <1>9, <1>10, <1>11, <1>12
    DEF FetchSolution

LEMMA SessionStep ==
    ASSUME IInv, NEW f \in Fetch, FetchSolution(f) \/ Crash(f)
    PROVE  SessionTypes'
<1> USE FetchAssumption
<1> USE DEF IInv, SessionTypes, sessionVars
<1>0. SessionTypes /\ SessionInv(f)
    BY TypeParts
<1>1. CASE Start(f)
    BY <1>0, <1>1 DEF Start, SessionInv
<1>2. CASE Limit(f)
    BY <1>0, <1>2 DEF Limit, SessionInv
<1>3. CASE Check(f)
    BY <1>0, <1>3 DEF Check, SessionInv
<1>4. CASE Cached(f)
    BY <1>0, <1>4 DEF Cached, SessionInv
<1>5. CASE Lookup(f)
    BY <1>0, <1>5 DEF Lookup, SessionInv
<1>6. CASE ExtractCookies(f)
    BY <1>0, <1>6 DEF ExtractCookies, SessionInv
<1>7. CASE CreateSession(f)
    BY <1>0, <1>7 DEF CreateSession, SessionInv
<1>8. CASE Request(f)
    BY <1>0, <1>8 DEF Request, SessionInv
<1>9. CASE UpdateCookies(f)
    BY <1>0, <1>9 DEF UpdateCookies, SessionInv
<1>10. CASE Leave(f)
    BY <1>0, <1>10 DEF Leave, SessionInv
<1>11. CASE Parse(f)
    BY <1>0, <1>11 DEF Parse, SessionInv
<1>12. CASE Crash(f)
    BY <1>0, <1>12 DEF Crash, SessionInv
<1> QED
    BY <1>1, <1>2, <1>3, <1>4, <1>5, <1>6, <1>7, <1>8, <1>9, <1>10, <1>11, <1>12
    DEF FetchSolution

LEMMA CookieStep ==
    ASSUME IInv, NEW f \in Fetch, FetchSolution(f) \/ Crash(f)
    PROVE  CookieTypes'
<1> USE FetchAssumption
<1> USE DEF IInv, CookieTypes, cookieVars, Forget
<1>0. CookieTypes
    BY TypeParts
<1>1. CASE Start(f)
    BY <1>0, <1>1 DEF Start
<1>2. CASE Limit(f)
    BY <1>0, <1>2 DEF Limit
<1>3. CASE Check(f)
    BY <1>0, <1>3 DEF Check
<1>4. CASE Cached(f)
    BY <1>0, <1>4 DEF Cached
<1>5. CASE Lookup(f)
    BY <1>0, <1>5 DEF Lookup
<1>6. CASE ExtractCookies(f)
  <2>1. UNCHANGED <<got, store, issued>>
      BY <1>6 DEF ExtractCookies
  <2>2. CASE UNCHANGED <<sent, base>>
      BY <1>0, <2>1, <2>2
  <2>3. CASE ~UNCHANGED <<sent, base>>
    <3> DEFINE read  == store[StoreKey(f)]
               cooks == IF read = NoCookies THEN [client |-> ClientOf[f], n |-> 0]
                        ELSE read
    <3>1. ClientOf[f] \in Client /\ StoreKey(f) \in StoreKeys
        BY <1>6, <2>3 DEF ExtractCookies, StoreKey, StoreKeys
    <3>2. /\ read \in Cookies \cup {NoCookies}
          /\ cooks \in Cookies \cup {NoCookies}
        BY <1>0, <3>1 DEF Cookies
    <3>3. sent' = [sent EXCEPT ![f] = cooks] /\ base' = [base EXCEPT ![f] = read]
        BY <1>6, <2>3 DEF ExtractCookies
    <3> HIDE DEF read, cooks
    <3> QED
        BY <1>0, <2>1, <3>2, <3>3
  <2> QED
      BY <2>2, <2>3
<1>7. CASE CreateSession(f)
    BY <1>0, <1>7 DEF CreateSession
<1>8. CASE Request(f)
  <2> DEFINE new == [client |-> sent[f].client, n |-> issued + 1]
  <2>1. \/ UNCHANGED <<got, issued>>
        \/ /\ sent[f] # NoCookies /\ issued' = issued + 1
           /\ got' = [got EXCEPT ![f] = new]
      BY <1>8 DEF Request
  <2>2. sent[f] # NoCookies => new \in Cookies
      BY <1>0 DEF Cookies
  <2>3. UNCHANGED <<sent, store, base>>
      BY <1>8 DEF Request
  <2> HIDE DEF new
  <2> QED
      BY <1>0, <2>1, <2>2, <2>3
<1>9. CASE UpdateCookies(f)
    BY <1>0, <1>9 DEF UpdateCookies
<1>10. CASE Leave(f)
    BY <1>0, <1>10 DEF Leave
<1>11. CASE Parse(f)
    BY <1>0, <1>11 DEF Parse
<1>12. CASE Crash(f)
    BY <1>0, <1>12 DEF Crash
<1> QED
    BY <1>1, <1>2, <1>3, <1>4, <1>5, <1>6, <1>7, <1>8, <1>9, <1>10, <1>11, <1>12
    DEF FetchSolution

LEMMA TypeHandle ==
    ASSUME IInv, NEW f \in Fetch, FetchSolution(f) \/ Crash(f)
    PROVE  TypeOK'
BY PcStep, HostStep, DnsStep, SessionStep, CookieStep
DEF TypeOK, PcTypes, HostTypes, DnsTypes, SessionTypes, CookieTypes

-----------------------------------------------------------------------------
(* Sessions *)

LEMMA SessionHandle ==
    ASSUME IInv, NEW f \in Fetch, FetchSolution(f) \/ Crash(f)
    PROVE  \A g \in Fetch : SessionInv(g)'
<1>1. ASSUME NEW g \in Fetch, g # f PROVE SessionInv(g)'
    BY <1>1, OnlyOwnStep, OthersSessions DEF IInv, SessionInv, Before, Holding
<1>2. SessionInv(f)'
  <2> USE DEF TypeOK, Goto, Fail, Forget, Verdict, checkVars, sessionVars, SessionInv,
          Before, Holding
  <2>0. TypeOK /\ SessionInv(f)
      BY DEF IInv
  <2>1. CASE Start(f)
      BY <2>0, <2>1 DEF Start
  <2>2. CASE Limit(f)
      BY <2>0, <2>2 DEF Limit
  <2>3. CASE Check(f)
      BY <2>0, <2>3 DEF Check
  <2>4. CASE Cached(f)
      BY <2>0, <2>4 DEF Cached
  <2>5. CASE Lookup(f)
      BY <2>0, <2>5 DEF Lookup
  <2>6. CASE ExtractCookies(f)
      BY <2>0, <2>6 DEF ExtractCookies
  <2>7. CASE CreateSession(f)
      BY <2>0, <2>7 DEF CreateSession
  <2>8. CASE Request(f)
      BY <2>0, <2>8 DEF Request
  <2>9. CASE UpdateCookies(f)
      BY <2>0, <2>9 DEF UpdateCookies
  <2>10. CASE Leave(f)
      BY <2>0, <2>10 DEF Leave
  <2>11. CASE Parse(f)
      BY <2>0, <2>11 DEF Parse
  <2>12. CASE Crash(f)
      BY <2>0, <2>12 DEF Crash
  <2> QED
      BY <2>1, <2>2, <2>3, <2>4, <2>5, <2>6, <2>7, <2>8, <2>9, <2>10, <2>11, <2>12
      DEF FetchSolution
<1> QED
    BY <1>1, <1>2

-----------------------------------------------------------------------------
(* Hosts *)

LEMMA AllowedHandle ==
    ASSUME IInv, NEW f \in Fetch, FetchSolution(f) \/ Crash(f)
    PROVE  \A g \in Fetch : AllowedInv(g)'
<1>1. ASSUME NEW g \in Fetch, g # f PROVE AllowedInv(g)'
    BY <1>1, OnlyOwnStep DEF IInv, AllowedInv
<1>2. AllowedInv(f)'
  <2> USE DEF TypeOK, Goto, Fail, Forget, Verdict, checkVars, SessionInv, AllowedInv
  <2>0. TypeOK /\ SessionInv(f) /\ AllowedInv(f)
      BY DEF IInv
  <2>1. CASE Start(f)
      BY <2>0, <2>1 DEF Start
  <2>2. CASE Limit(f)
      BY <2>0, <2>2 DEF Limit
  <2>3. CASE Check(f)
      BY <2>0, <2>3 DEF Check
  <2>4. CASE Cached(f)
      BY <2>0, <2>4 DEF Cached
  <2>5. CASE Lookup(f)
    <3>1. /\ pc[f] = "lookup" /\ host' = host /\ solved' = solved /\ final' = final
          /\ named' = named
          /\ \/ pc' = [pc EXCEPT ![f] = "fail"] /\ allowed' = allowed
             \/ /\ pc' = [pc EXCEPT ![f] = IF solved[f] THEN "update" ELSE "cookies"]
                /\ allowed' = [allowed EXCEPT ![f] = allowed[f] \cup {host[f]}]
        BY <2>5 DEF Lookup
    <3> QED
        BY <2>0, <3>1
  <2>6. CASE ExtractCookies(f)
      BY <2>0, <2>6 DEF ExtractCookies
  <2>7. CASE CreateSession(f)
      BY <2>0, <2>7 DEF CreateSession
  <2>8. CASE Request(f)
    <3>1. CASE solved' = [solved EXCEPT ![f] = TRUE] /\ \E h \in Host : Answered(f, h)
      <4>1. PICK h \in Host : Answered(f, h)
          BY <3>1
      <4>2. /\ solved'[f] /\ final'[f] = h /\ allowed' = allowed
            /\ \/ pc'[f] = "check" /\ host'[f] = h
               \/ pc'[f] = "update" /\ named'[f] = named[f]
          BY <2>0, <2>8, <3>1, <4>1, Requested DEF Answered
      <4>3. HostOf[f] \in allowed[f] /\ ~named[f]
          BY <2>0, <2>8, Requested
      <4> QED
          BY <4>2, <4>3
    <3> QED
        BY <2>0, <2>8, <3>1, Requested
  <2>9. CASE UpdateCookies(f)
      BY <2>0, <2>9 DEF UpdateCookies
  <2>10. CASE Leave(f)
      BY <2>0, <2>10 DEF Leave
  <2>11. CASE Parse(f)
      BY <2>0, <2>11 DEF Parse
  <2>12. CASE Crash(f)
      BY <2>0, <2>12 DEF Crash
  <2> QED
      BY <2>1, <2>2, <2>3, <2>4, <2>5, <2>6, <2>7, <2>8, <2>9, <2>10, <2>11, <2>12
      DEF FetchSolution
<1> QED
    BY <1>1, <1>2

-----------------------------------------------------------------------------
(* Cookies *)

\* What is stored for a call can be read by it.
LEMMA StoredForCall ==
    ASSUME IInv, NEW f \in Fetch, ClientOf[f] \in Client,
           store[StoreKey(f)] # NoCookies
    PROVE  /\ PrintOf[store[StoreKey(f)].client] = PrintOf[ClientOf[f]]
           /\ store[StoreKey(f)].n \in 1 .. issued
BY FetchAssumption DEF IInv, StoreInv, StoreKey

LEMMA ClientOrNone ==
    ASSUME NEW f \in Fetch, ClientOf[f] # NoClient
    PROVE  ClientOf[f] \in Client
BY FetchAssumption

LEMMA CookieHandle ==
    ASSUME IInv, NEW f \in Fetch, FetchSolution(f) \/ Crash(f)
    PROVE  \A g \in Fetch : CookieInv(g)'
<1> USE DEF IInv, TypeOK
<1>1. issued' \in Nat /\ issued <= issued'
    BY DEF FetchSolution, Start, Limit, Check, Cached, Lookup, ExtractCookies,
       CreateSession, Request, UpdateCookies, Leave, Parse, Crash, Forget, cookieVars
<1>2. ASSUME NEW g \in Fetch, g # f PROVE CookieInv(g)'
  <2>1. CookieInv(g) /\ Before(g)' = Before(g)
      BY <1>2, OnlyOwnStep DEF Before
  <2>2. /\ base[g] # NoCookies => base[g].n \in Nat
        /\ got[g] # NoCookies => got[g].n \in Nat
      BY DEF Cookies
  <2>3. /\ sent'[g] = sent[g] /\ got'[g] = got[g] /\ base'[g] = base[g]
        /\ pc'[g] = pc[g]
      BY <1>2, OnlyOwnStep
  <2> QED
      BY <1>1, <2>1, <2>2, <2>3 DEF CookieInv
<1>3. CookieInv(f)'
  <2> USE DEF Goto, Fail, Forget, Verdict, cookieVars, checkVars, SessionInv,
          CookieInv, Before
  <2>0. SessionInv(f) /\ CookieInv(f)
      OBVIOUS
  <2>1. CASE Start(f)
      BY <2>0, <2>1 DEF Start
  <2>2. CASE Limit(f)
      BY <2>0, <2>2 DEF Limit
  <2>3. CASE Check(f)
      BY <2>0, <2>3 DEF Check
  <2>4. CASE Cached(f)
      BY <2>0, <2>4 DEF Cached
  <2>5. CASE Lookup(f)
    <3>1. /\ pc[f] = "lookup" /\ UNCHANGED <<sent, got, base, issued, solved>>
          /\ \/ pc' = [pc EXCEPT ![f] = "fail"]
             \/ pc' = [pc EXCEPT ![f] = IF solved[f] THEN "update" ELSE "cookies"]
        BY <2>5, Zenon DEF Lookup
    <3> QED
        BY <2>0, <3>1
  <2>6. CASE ExtractCookies(f)
    <3>1. /\ got' = got /\ issued' = issued /\ got[f] = NoCookies
        BY <2>0, <2>6 DEF ExtractCookies
    <3>2. CASE sent' = sent /\ base' = base
        BY <2>0, <3>1, <3>2
    <3>3. CASE ~(sent' = sent /\ base' = base)
      <4>1. /\ ClientOf[f] \in Client
            /\ base'[f] = store[StoreKey(f)]
            /\ sent'[f] = IF store[StoreKey(f)] = NoCookies
                          THEN [client |-> ClientOf[f], n |-> 0]
                          ELSE store[StoreKey(f)]
        <5> DEFINE read  == store[StoreKey(f)]
                   cooks == IF read = NoCookies
                            THEN [client |-> ClientOf[f], n |-> 0] ELSE read
        <5>1. /\ ClientOf[f] # NoClient
              /\ sent' = [sent EXCEPT ![f] = cooks]
              /\ base' = [base EXCEPT ![f] = read]
            BY <2>6, <3>3 DEF ExtractCookies
        <5>2. ClientOf[f] \in Client
            BY <5>1, ClientOrNone
        <5> HIDE DEF read, cooks
        <5>3. base'[f] = read /\ sent'[f] = cooks
            BY <5>1
        <5> QED
            BY <5>2, <5>3 DEF read, cooks
      <4>2. /\ PrintOf[sent'[f].client] = PrintOf[ClientOf[f]]
            /\ sent'[f].n = 0 => sent'[f].client = ClientOf[f]
          BY <4>1, StoredForCall
      <4>3. base'[f] # NoCookies => base'[f].n <= issued
          BY <4>1, StoredForCall
      <4> QED
          BY <3>1, <4>1, <4>2, <4>3
    <3> QED
        BY <3>2, <3>3
  <2>7. CASE CreateSession(f)
      BY <2>0, <2>7 DEF CreateSession
  <2>8. CASE Request(f)
    <3>1. /\ pc[f] = "request" /\ ~solved[f] /\ got[f] = NoCookies
          /\ sent' = sent /\ base' = base
        BY <2>0, <2>8 DEF Request
    <3>2. (pc'[f] \in {"check", "update"} /\ solved'[f]) \/ pc'[f] = "fail"
        BY <2>8 DEF Request
    <3>3. CASE got' = got /\ issued' = issued
        BY <2>0, <3>1, <3>2, <3>3
    <3>4. CASE ~(got' = got /\ issued' = issued)
      <4>1. /\ sent[f] # NoCookies /\ issued' = issued + 1
            /\ got'[f] = [client |-> sent[f].client, n |-> issued + 1]
          BY <2>8, <3>4 DEF Request
      <4>2. base[f] # NoCookies => base[f].n \in Nat /\ base[f].n <= issued
          BY <2>0 DEF Cookies
      <4> QED
          BY <2>0, <3>1, <3>2, <4>1, <4>2
    <3> QED
        BY <3>3, <3>4
  <2>9. CASE UpdateCookies(f)
      BY <2>0, <2>9 DEF UpdateCookies
  <2>10. CASE Leave(f)
      BY <2>0, <2>10 DEF Leave
  <2>11. CASE Parse(f)
      BY <2>0, <2>11 DEF Parse
  <2>12. CASE Crash(f)
      BY <2>0, <2>12 DEF Crash
  <2> QED
      BY <2>1, <2>2, <2>3, <2>4, <2>5, <2>6, <2>7, <2>8, <2>9, <2>10, <2>11, <2>12
      DEF FetchSolution
<1> QED
    BY <1>2, <1>3

LEMMA StoreHandle ==
    ASSUME IInv, NEW f \in Fetch, FetchSolution(f) \/ Crash(f)
    PROVE  StoreInv'
<1> USE DEF IInv, TypeOK
<1>1. issued' \in Nat /\ issued <= issued'
    BY DEF FetchSolution, Start, Limit, Check, Cached, Lookup, ExtractCookies,
       CreateSession, Request, UpdateCookies, Leave, Parse, Crash, Forget, cookieVars
<1> SUFFICES ASSUME NEW u \in Url, NEW p \in Printed,
                    store'[<<u, p>>] # NoCookies
             PROVE  PrintOf[store'[<<u, p>>].client] = p /\ store'[<<u, p>>].n \in 1 .. issued'
    BY DEF StoreInv
<1>2. <<u, p>> \in StoreKeys
    BY DEF StoreKeys
<1>3. CASE store'[<<u, p>>] = store[<<u, p>>]
  <2>1. store[<<u, p>>].n \in Nat
      BY <1>2, <1>3 DEF Cookies
  <2> QED
      BY <1>1, <1>3, <2>1 DEF StoreInv
<1>4. CASE store'[<<u, p>>] # store[<<u, p>>]
  <2>1. UpdateCookies(f)
      BY <1>4 DEF FetchSolution, Start, Limit, Check, Cached, Lookup, ExtractCookies,
         CreateSession, Request, Leave, Parse, Crash, Forget, cookieVars
  <2>2. /\ got[f] # NoCookies /\ issued' = issued
        /\ store' = [store EXCEPT ![StoreKey(f)] = got[f]]
      BY <1>4, <2>1 DEF UpdateCookies
  <2>3. StoreKey(f) = <<u, p>> /\ store'[<<u, p>>] = got[f]
      BY <1>2, <1>4, <2>2
  <2>4. PrintOf[ClientOf[f]] = p
      BY <2>3 DEF StoreKey
  <2> QED
      BY <2>2, <2>3, <2>4 DEF CookieInv
<1> QED
    BY <1>3, <1>4

-----------------------------------------------------------------------------
(* The invariant, and the theorems *)

LEMMA Inductive == IInv /\ [Next]_vars => IInv'
<1> SUFFICES ASSUME IInv, [Next]_vars PROVE IInv'
    OBVIOUS
<1>1. ASSUME NEW f \in Fetch, FetchSolution(f) \/ Crash(f) PROVE IInv'
    BY <1>1, TypeHandle, SessionHandle, AllowedHandle, CookieHandle, StoreHandle
    DEF IInv
<1>2. ASSUME NEW w \in Worker, NEW h \in Host, Expire(w, h) PROVE IInv'
  <2>1. dns' \in [Worker -> [Host -> Address \cup {"absent"}]]
      BY <1>2 DEF Expire, IInv, TypeOK
  <2> QED
      BY <1>2, <2>1
      DEF Expire, IInv, TypeOK, SessionInv, AllowedInv, CookieInv, StoreInv, Before,
          sessionVars, cookieVars
<1>3. CASE UNCHANGED vars
    BY <1>3 DEF vars, checkVars, sessionVars, cookieVars, IInv, TypeOK, SessionInv,
       AllowedInv, CookieInv, StoreInv, Before
<1> QED
    BY <1>1, <1>2, <1>3 DEF Next

LEMMA Initially == Init => IInv
<1> SUFFICES ASSUME Init PROVE IInv
    OBVIOUS
<1>1. TypeOK
    BY FetchAssumption DEF Init, TypeOK, Places
<1>2. ASSUME NEW f \in Fetch PROVE SessionInv(f) /\ AllowedInv(f) /\ CookieInv(f)
    BY DEF Init, SessionInv, AllowedInv, CookieInv, Before
<1>3. StoreInv
    BY DEF Init, StoreInv, StoreKeys
<1> QED
    BY <1>1, <1>2, <1>3 DEF IInv

LEMMA Always == Spec => []IInv
BY Initially, Inductive, PTL DEF Spec

\* Every variable of the calls and of what they share keeps its type.
THEOREM TypeCorrect == Spec => []TypeOK
<1>1. IInv => TypeOK
    BY DEF IInv
<1> QED
    BY <1>1, Always, PTL

\* However a call ends, its session is destroyed if its worker could do it.
THEOREM SessionsClosed == Spec => []SessionsAreClosed
<1>1. IInv => SessionsAreClosed
    BY DEF IInv, TypeOK, SessionInv, SessionsAreClosed, Holding
<1> QED
    BY <1>1, Always, PTL

\* A page is parsed only if the host it was asked from was found allowed, and
\* the one it is from too, unless the answer does not name it.
THEOREM HostsAllowed == Spec => []OnlyAllowedHosts
<1>1. IInv => OnlyAllowedHosts
    BY DEF IInv, AllowedInv, OnlyAllowedHosts
<1> QED
    BY <1>1, Always, PTL

\* What is sent with a task is its client's own header, or what a site issued to
\* him or to one whose cookies print the same.
THEOREM CookiesApart == Spec => []CookiesStayApart
<1>1. IInv => CookiesStayApart
    BY DEF IInv, CookieInv, CookiesStayApart
<1> QED
    BY <1>1, Always, PTL

\* Stored cookies are replaced by older ones only where two calls overlap.
THEOREM CookiesNewer == Spec => OlderOnlyByOverlap
<1>1. IInv => \A f \in Fetch :
                 UpdateCookies(f) /\ Older(StoreKey(f)) => base[f] # store[StoreKey(f)]
  <2> SUFFICES ASSUME IInv, NEW f \in Fetch, UpdateCookies(f), Older(StoreKey(f)),
                      base[f] = store[StoreKey(f)]
               PROVE  FALSE
      OBVIOUS
  <2>1. base[f] # NoCookies /\ store'[StoreKey(f)].n < base[f].n
      BY DEF Older
  <2>2. base[f].n \in Nat
      BY <2>1 DEF IInv, TypeOK, Cookies
  <2>3. CASE store' = store
      BY <2>1, <2>2, <2>3
  <2>4. CASE store' # store
    <3>1. /\ sent[f] # NoCookies /\ got[f] # NoCookies
          /\ store' = [store EXCEPT ![StoreKey(f)] = got[f]]
        BY <2>4 DEF UpdateCookies
    <3>2. StoreKey(f) \in StoreKeys
        BY <3>1, FetchAssumption DEF IInv, CookieInv, StoreKey, StoreKeys
    <3>3. got[f].n < base[f].n
        BY <2>1, <3>1, <3>2 DEF IInv, TypeOK
    <3>4. base[f].n < got[f].n /\ got[f].n \in Nat
        BY <2>1, <3>1 DEF IInv, TypeOK, CookieInv, Cookies
    <3> QED
        BY <2>2, <3>3, <3>4
  <2> QED
      BY <2>3, <2>4
<1> QED
    BY <1>1, Always, PTL DEF OlderOnlyByOverlap
=============================================================================
