---------------------------- MODULE RenderService ----------------------------
(***************************************************************************)
(* Handler.handleRender and handlePageScreenshot (internal/api/http): what *)
(* a client's request gets, composed of the two services they call, each   *)
(* taken at its promise: the result cache with its work queue (WorkQueue)  *)
(* and the rate limit (TokenBucket).                                       *)
(*                                                                         *)
(* A feed request is answered from the cache while the stored result is    *)
(* not older than the lifetime the request names; otherwise, and for every *)
(* screenshot, it spends a token and waits for a new result.               *)
(***************************************************************************)
EXTENDS Naturals, Sequences, FiniteSets

CONSTANTS
    Req,        \* requests
    Key,        \* cache keys
    KeyOf,      \* the key of each request's task
    Ip, IpOf,   \* client addresses, and the one each request comes from
    Screenshot, \* the requests for a screenshot; the others ask for a feed
    Lifetime,   \* cacheLifetime of each request, clamped
    MaxLifetime,
    Every, Burst,
    MaxTime,    \* bound on the clock
    MaxVersion  \* bound on the results stored under a key

ASSUME ServiceAssumption ==
    /\ KeyOf \in [Req -> Key]
    /\ IpOf \in [Req -> Ip]
    /\ Screenshot \subseteq Req
    /\ MaxLifetime \in Nat
    /\ Lifetime \in [Req -> 0..MaxLifetime]
    /\ Every \in Nat \ {0}
    /\ Burst \in Nat
    /\ MaxTime \in Nat
    /\ MaxVersion \in Nat

VARIABLES
    status, version, base, answer, \* WorkQueue
    bucket, now, taken, denied,    \* TokenBucket
    pc,       \* where each request is in its handler
    got,      \* version of the result a handler holds; 0 is none
    code,     \* the HTTP status sent; 0 is none yet
    storedAt, \* when each version of each key was stored
    asked,    \* history: when each request came
    known     \* history: the version of its key at that time

queueVars  == <<status, version, base, answer>>
bucketVars == <<bucket, now, taken, denied>>
localVars  == <<pc, got, code>>
history    == <<asked, known>>
vars == <<queueVars, bucketVars, localVars, storedAt, history>>

WQ == INSTANCE WorkQueue
TB == INSTANCE TokenBucket

Places == {"ask", "get", "decide", "limit", "enqueue", "queued", "reply", "done"}
Codes  == {0, 200, 400, 429, 500}

TypeOK ==
    /\ status \in [Req -> {"idle", "waiting", "done"}]
    /\ version \in [Key -> Nat]
    /\ base \in [Req -> Nat]
    /\ answer \in [Req -> Nat]
    /\ bucket \in [Ip -> Nat]
    /\ now \in Nat
    /\ taken \in [Ip -> Nat]
    /\ denied \in [Ip -> Nat]
    /\ pc \in [Req -> Places]
    /\ got \in [Req -> Nat]
    /\ code \in [Req -> Codes]
    /\ storedAt \in [Key -> Seq(Nat)]
    /\ \A k \in Key : Len(storedAt[k]) = version[k]
    /\ asked \in [Req -> Nat]
    /\ known \in [Req -> Nat]

Init ==
    /\ WQ!Init
    /\ TB!Init
    /\ pc = [r \in Req |-> "ask"]
    /\ got = [r \in Req |-> 0]
    /\ code = [r \in Req |-> 0]
    /\ storedAt = [k \in Key |-> <<>>]
    /\ asked = [r \in Req |-> 0]
    /\ known = [r \in Req |-> 0]

\* The handler sends status c and is done.
Send(r, c) ==
    /\ pc' = [pc EXCEPT ![r] = "done"]
    /\ code' = [code EXCEPT ![r] = c]

Goto(r, p) ==
    /\ pc' = [pc EXCEPT ![r] = p]
    /\ UNCHANGED code

-----------------------------------------------------------------------------
\* Mutant of Ask: a screenshot may come from the cache too.
AskCached(r) ==
    /\ pc[r] = "ask"
    /\ asked' = [asked EXCEPT ![r] = now]
    /\ known' = [known EXCEPT ![r] = version[KeyOf[r]]]
    /\ Send(r, 400) \/ Goto(r, "get")
    /\ UNCHANGED <<queueVars, bucketVars, got, storedAt>>

\* The request is decoded: what cannot be is a 400.  Only a feed may come from
\* the cache.
Ask(r) ==
    /\ pc[r] = "ask"
    /\ asked' = [asked EXCEPT ![r] = now]
    /\ known' = [known EXCEPT ![r] = version[KeyOf[r]]]
    /\ \/ Send(r, 400)
       \/ Goto(r, IF r \in Screenshot THEN "limit" ELSE "get")
    /\ UNCHANGED <<queueVars, bucketVars, got, storedAt>>

\* cache.Get: the stored result, none, or an error.
Get(r) ==
    /\ pc[r] = "get"
    /\ \/ /\ got' = [got EXCEPT ![r] = version[KeyOf[r]]]
          /\ Goto(r, "decide")
       \/ /\ Send(r, 500)
          /\ UNCHANGED got
    /\ UNCHANGED <<queueVars, bucketVars, storedAt, history>>

\* Mutant of TooOld: off by one.
TooOldByMore(r) == now > storedAt[KeyOf[r]][got[r]] + Lifetime[r] + 1

\* time.Since(cachedTS) > cacheLifetime, some time after Get.
TooOld(r) == now > storedAt[KeyOf[r]][got[r]] + Lifetime[r]

Decide(r) ==
    /\ pc[r] = "decide"
    /\ Goto(r, IF got[r] = 0 \/ TooOld(r) THEN "limit" ELSE "reply")
    /\ UNCHANGED <<queueVars, bucketVars, got, storedAt, history>>

\* Mutant of CheckRateLimit: the verdict is inverted.
CheckInverted(r) ==
    /\ pc[r] = "limit"
    /\ \/ TB!Deny(IpOf[r]) /\ Goto(r, "enqueue")
       \/ TB!Take(IpOf[r]) /\ Send(r, 429)
    /\ UNCHANGED <<queueVars, got, storedAt, history>>

CheckRateLimit(r) ==
    /\ pc[r] = "limit"
    /\ \/ TB!Take(IpOf[r]) /\ Goto(r, "enqueue")
       \/ TB!Deny(IpOf[r]) /\ Send(r, 429)
    /\ UNCHANGED <<queueVars, got, storedAt, history>>

Enqueue(r) ==
    /\ pc[r] = "enqueue"
    /\ WQ!Call(r)
    /\ Goto(r, "queued")
    /\ UNCHANGED <<bucketVars, got, storedAt, history>>

\* Enqueue returns a value, or an error: a 500.
Returned(r) ==
    /\ pc[r] = "queued"
    /\ WQ!Return(r)
    /\ got' = [got EXCEPT ![r] = answer'[r]]
    /\ Goto(r, "reply")
    /\ UNCHANGED <<bucketVars, storedAt, history>>

Failed(r) ==
    /\ pc[r] = "queued"
    /\ WQ!Fail({r})
    /\ Send(r, 500)
    /\ UNCHANGED <<bucketVars, got, storedAt, history>>

\* The result is unmarshalled and sent as a feed or an image; a 500 if it
\* cannot be, as when no item of the feed has a valid link.
Reply(r) ==
    /\ pc[r] = "reply"
    /\ Send(r, 200) \/ Send(r, 500)
    /\ UNCHANGED <<queueVars, bucketVars, got, storedAt, history>>

\* Mutant of NewResult: the value is stored without its time.
NewResultUntimed(k) ==
    /\ version[k] < MaxVersion
    /\ WQ!NewResult(k)
    /\ UNCHANGED <<storedAt, bucketVars, localVars, history>>

\* A worker stores a result under a key, for whoever asked for it.
NewResult(k) ==
    /\ version[k] < MaxVersion
    /\ WQ!NewResult(k)
    /\ storedAt' = [storedAt EXCEPT ![k] = Append(@, now)]
    /\ UNCHANGED <<bucketVars, localVars, history>>

Tick ==
    /\ TB!Tick
    /\ UNCHANGED <<queueVars, localVars, storedAt, history>>

Handle(r) ==
    \/ Ask(r) \/ Get(r) \/ Decide(r) \/ CheckRateLimit(r)
    \/ Enqueue(r) \/ Returned(r) \/ Failed(r) \/ Reply(r)

Next ==
    \/ \E r \in Req : Handle(r)
    \/ \E k \in Key : NewResult(k)
    \/ Tick

Spec == Init /\ [][Next]_vars

-----------------------------------------------------------------------------
(* Properties *)

\* Whether it came from the cache or from the queue, a feed that is sent was
\* stored no longer than its lifetime before it was asked for.
FeedIsFresh ==
    \A r \in Req \ Screenshot :
       code[r] = 200 => asked[r] <= storedAt[KeyOf[r]][got[r]] + Lifetime[r]

\* A screenshot is never an old one, though it is stored in the same cache.
ScreenshotIsNew ==
    \A r \in Screenshot : code[r] = 200 => got[r] > known[r]

\* The requests of an address that came to Enqueue.
Queued(i) == {r \in Req : IpOf[r] = i /\ (pc[r] = "enqueue" \/ status[r] # "idle")}

\* "for task rate limiter (don't apply to cache)" (config.go:26): every token
\* an address spends is for a request that goes on to Enqueue, and a request
\* answered from the cache costs none.
TokensAreForWork == \A i \in Ip : taken[i] = Cardinality(Queued(i))

\* The work an address gives the workers stays within its burst and its rate.
WorkIsBounded ==
    \A i \in Ip : Cardinality(Queued(i)) * Every <= Burst * Every + now
=============================================================================
