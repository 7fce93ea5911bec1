------------------------- MODULE RenderServiceProofs -------------------------
(***************************************************************************)
(* Proofs about RenderService, for any requests, keys, addresses,          *)
(* lifetimes, rate and burst, and for clocks and caches of any bound.      *)
(***************************************************************************)
EXTENDS RenderService, FiniteSetTheorems, SequenceTheorems, TLAPS

LEMMA Logged ==
    ASSUME NEW s \in Seq(Nat), NEW e \in Nat
    PROVE  /\ Append(s, e) \in Seq(Nat)
           /\ Len(Append(s, e)) = Len(s) + 1
           /\ \A i \in 1..Len(s) : Append(s, e)[i] = s[i]
           /\ Append(s, e)[Len(s) + 1] = e
           /\ \A i \in 1..Len(Append(s, e)) : i \in 1..Len(s) \/ i = Len(s) + 1
<1>1. /\ Append(s, e) \in Seq(Nat)
      /\ Len(Append(s, e)) = Len(s) + 1
      /\ \A i \in 1..Len(s) : Append(s, e)[i] = s[i]
      /\ Append(s, e)[Len(s) + 1] = e
    BY AppendProperties
<1>2. Len(s) \in Nat
    BY LenProperties
<1> QED
    BY <1>1, <1>2

-----------------------------------------------------------------------------
(* Types *)

LEMMA TypeInit == Init => TypeOK
BY ServiceAssumption, EmptySeq
DEF Init, WQ!Init, TB!Init, TB!Full, TypeOK, Places, Codes

LocalTypes == pc \in [Req -> Places] /\ code \in [Req -> Codes]

\* The two ways a step of a handler ends.
LEMMA Moves ==
    ASSUME LocalTypes, NEW r \in Req
    PROVE  /\ \A c \in Codes : Send(r, c) => LocalTypes'
           /\ \A p \in Places : Goto(r, p) => LocalTypes'
BY DEF LocalTypes, Places, Send, Goto

LEMMA TypeHandle ==
    ASSUME TypeOK, NEW r \in Req, Handle(r)
    PROVE  TypeOK'
<1> USE ServiceAssumption DEF queueVars, bucketVars, history
<1>1. LocalTypes'
  <2>1. \/ \E c \in Codes : Send(r, c)
        \/ \E p \in Places : Goto(r, p)
    <3>1. {200, 400, 429, 500} \subseteq Codes
        BY DEF Codes
    <3>2. {"limit", "get", "decide", "reply", "enqueue", "queued"} \subseteq Places
        BY DEF Places
    <3> QED
        BY <3>1, <3>2 DEF Handle, Ask, Get, Decide, CheckRateLimit, Enqueue,
           Returned, Failed, Reply
  <2>2. LocalTypes
      BY DEF TypeOK, LocalTypes, Places, Codes
  <2> QED
      BY <2>1, <2>2, Moves
<1> DEFINE Rest == /\ status' \in [Req -> {"idle", "waiting", "done"}]
                   /\ version' \in [Key -> Nat]
                   /\ base' \in [Req -> Nat]
                   /\ answer' \in [Req -> Nat]
                   /\ bucket' \in [Ip -> Nat]
                   /\ now' \in Nat
                   /\ taken' \in [Ip -> Nat]
                   /\ denied' \in [Ip -> Nat]
                   /\ got' \in [Req -> Nat]
                   /\ storedAt' \in [Key -> Seq(Nat)]
                   /\ \A k \in Key : Len(storedAt'[k]) = version'[k]
                   /\ asked' \in [Req -> Nat]
                   /\ known' \in [Req -> Nat]
<1>2. Rest
  <2> USE DEF TypeOK
  <2>1. CASE Ask(r)
      BY <2>1 DEF Ask
  <2>2. CASE Get(r)
      BY <2>2 DEF Get
  <2>3. CASE Decide(r)
      BY <2>3 DEF Decide
  <2>4. CASE CheckRateLimit(r)
    <3>1. UNCHANGED <<status, version, base, answer, got, storedAt, asked, known>>
        BY <2>4 DEF CheckRateLimit
    <3>2. IpOf[r] \in Ip /\ Every \in Nat
        OBVIOUS
    <3>3. /\ bucket' \in [Ip -> Nat] /\ now' \in Nat
          /\ taken' \in [Ip -> Nat] /\ denied' \in [Ip -> Nat]
      <4>1. CASE TB!Take(IpOf[r])
        <5> DEFINE b == bucket[IpOf[r]] - Every
                   n == taken[IpOf[r]] + 1
        <5>1. b \in Nat /\ n \in Nat
            BY <3>2, <4>1 DEF TB!Take
        <5>2. /\ bucket' = [bucket EXCEPT ![IpOf[r]] = b]
              /\ taken' = [taken EXCEPT ![IpOf[r]] = n]
              /\ UNCHANGED <<now, denied>>
            BY <4>1 DEF TB!Take
        <5> HIDE DEF b, n
        <5> QED
            BY <3>2, <5>1, <5>2
      <4>2. CASE TB!Deny(IpOf[r])
          BY <3>2, <4>2 DEF TB!Deny
      <4> QED
          BY <2>4, <4>1, <4>2 DEF CheckRateLimit
    <3> QED
        BY <3>1, <3>3
  <2>5. CASE Enqueue(r)
      BY <2>5 DEF Enqueue, WQ!Call
  <2>6. CASE Returned(r)
    <3>1. answer' \in [Req -> Nat]
        BY <2>6 DEF Returned, WQ!Return
    <3> QED
        BY <2>6, <3>1 DEF Returned, WQ!Return
  <2>7. CASE Failed(r)
      BY <2>7 DEF Failed, WQ!Fail
  <2>8. CASE Reply(r)
      BY <2>8 DEF Reply
  <2> QED
      BY <2>1, <2>2, <2>3, <2>4, <2>5, <2>6, <2>7, <2>8 DEF Handle
<1> QED
    BY <1>1, <1>2 DEF TypeOK, LocalTypes, Places, Codes

LEMMA TypeStep == TypeOK /\ [Next]_vars => TypeOK'
<1> SUFFICES ASSUME TypeOK, [Next]_vars PROVE TypeOK'
    OBVIOUS
<1>1. ASSUME NEW k \in Key, NewResult(k) PROVE TypeOK'
  <2>1. /\ storedAt' = [storedAt EXCEPT ![k] = Append(storedAt[k], now)]
        /\ version' = [version EXCEPT ![k] = version[k] + 1]
        /\ UNCHANGED <<status, base, answer, bucketVars, localVars, history>>
      BY <1>1 DEF NewResult, WQ!NewResult
  <2>2. /\ Append(storedAt[k], now) \in Seq(Nat)
        /\ Len(Append(storedAt[k], now)) = version[k] + 1
      BY Logged DEF TypeOK
  <2> QED
      BY <2>1, <2>2 DEF TypeOK, bucketVars, localVars, history
<1>2. CASE Tick
    BY <1>2, ServiceAssumption
    DEF Tick, TB!Tick, TB!Full, TypeOK, queueVars, localVars, history
<1>3. CASE UNCHANGED vars
    BY <1>3 DEF vars, queueVars, bucketVars, localVars, history, TypeOK
<1> QED
    BY <1>1, <1>2, <1>3, TypeHandle DEF Next

\* Every variable of the handlers and of the services they use keeps its type.
THEOREM TypeCorrect == Spec => []TypeOK
BY TypeInit, TypeStep, PTL DEF Spec

-----------------------------------------------------------------------------
(* Freshness *)

\* The result a request holds may be sent.
Sendable(r) ==
    /\ got[r] \in 1..version[KeyOf[r]]
    /\ r \notin Screenshot => asked[r] <= storedAt[KeyOf[r]][got[r]] + Lifetime[r]
    /\ r \in Screenshot => got[r] > known[r]

\* What came into the cache since a request came.
SinceAsked(r) ==
    /\ asked[r] <= now
    /\ known[r] <= version[KeyOf[r]]
    /\ \A i \in 1..version[KeyOf[r]] :
          i > known[r] => asked[r] <= storedAt[KeyOf[r]][i]

FreshInv(r) ==
    /\ pc[r] # "ask" => SinceAsked(r)
    /\ pc[r] \in {"ask", "get", "decide", "limit", "enqueue"} => status[r] = "idle"
    /\ pc[r] = "queued" => status[r] = "waiting" /\ known[r] <= base[r]
    /\ pc[r] \in {"get", "decide"} => r \notin Screenshot
    /\ pc[r] = "decide" => got[r] <= version[KeyOf[r]]
    /\ pc[r] = "reply" => Sendable(r)
    /\ code[r] = 200 => Sendable(r) /\ pc[r] = "done"

Fresh == \A r \in Req : FreshInv(r)

\* A step that changes nothing a request depends on.
LEMMA FreshFrame ==
    ASSUME NEW q \in Req, FreshInv(q),
           pc'[q] = pc[q], code'[q] = code[q], got'[q] = got[q],
           status'[q] = status[q], base'[q] = base[q], asked'[q] = asked[q],
           known'[q] = known[q], UNCHANGED <<version, storedAt, now>>
    PROVE  FreshInv(q)'
BY DEF FreshInv, SinceAsked, Sendable

LEMMA FreshHandle ==
    ASSUME TypeOK, Fresh, NEW r \in Req, Handle(r)
    PROVE  Fresh'
<1>1. UNCHANGED <<version, storedAt, now>>
    BY DEF Handle, Ask, Get, Decide, CheckRateLimit, Enqueue, Returned, Failed,
       Reply, queueVars, bucketVars, TB!Take, TB!Deny, WQ!Call, WQ!Return,
       WQ!Fail
<1>2. ASSUME NEW q \in Req, q # r PROVE FreshInv(q)'
  <2>1. /\ pc'[q] = pc[q] /\ code'[q] = code[q]
      BY <1>2 DEF TypeOK, Handle, Ask, Get, Decide, CheckRateLimit, Enqueue,
         Returned, Failed, Reply, Send, Goto
  <2>2. /\ got'[q] = got[q] /\ asked'[q] = asked[q] /\ known'[q] = known[q]
      BY <1>2 DEF TypeOK, Handle, Ask, Get, Decide, CheckRateLimit, Enqueue,
         Returned, Failed, Reply, history
  <2>3. /\ status'[q] = status[q] /\ base'[q] = base[q]
      BY <1>2 DEF TypeOK, Handle, Ask, Get, Decide, CheckRateLimit, Enqueue,
         Returned, Failed, Reply, queueVars, WQ!Call, WQ!Return, WQ!Fail
  <2> QED
      BY <1>1, <2>1, <2>2, <2>3, FreshFrame DEF Fresh
<1>3. KeyOf[r] \in Key /\ Lifetime[r] \in Nat
    BY ServiceAssumption
<1>4. FreshInv(r)
    BY DEF Fresh
<1>5. FreshInv(r)'
  <2> USE DEF TypeOK
  <2>1. CASE Ask(r)
    <3>1. /\ asked'[r] = now /\ known'[r] = version[KeyOf[r]]
          /\ pc'[r] \in {"done", "limit", "get"} /\ status' = status
          /\ pc'[r] = "get" => r \notin Screenshot
          /\ code'[r] # 200
        BY <1>4, <2>1 DEF Ask, Send, Goto, queueVars, FreshInv
    <3>2. SinceAsked(r)'
        BY <1>1, <1>3, <3>1 DEF SinceAsked
    <3> QED
        BY <1>4, <2>1, <3>1, <3>2 DEF FreshInv, Ask
  <2>2. CASE Get(r)
    <3>1. /\ pc[r] = "get" /\ pc'[r] \in {"decide", "done"}
          /\ pc'[r] = "decide" => got'[r] = version[KeyOf[r]]
          /\ code'[r] # 200
          /\ status' = status /\ asked' = asked /\ known' = known
        BY <1>4, <2>2 DEF Get, Send, Goto, queueVars, history, FreshInv
    <3>2. SinceAsked(r)'
        BY <1>1, <1>4, <3>1 DEF SinceAsked, FreshInv
    <3> QED
        BY <1>1, <1>3, <1>4, <3>1, <3>2 DEF FreshInv
  <2>3. CASE Decide(r)
    <3>1. /\ pc[r] = "decide" /\ code'[r] # 200 /\ r \notin Screenshot
          /\ pc'[r] \in {"limit", "reply"} /\ status' = status
          /\ asked' = asked /\ known' = known /\ got' = got
        BY <1>4, <2>3 DEF Decide, Goto, queueVars, history, FreshInv
    <3>2. SinceAsked(r) /\ got[r] <= version[KeyOf[r]]
        BY <1>4, <3>1 DEF FreshInv
    <3>3. pc'[r] = "reply" => Sendable(r)
      <4> SUFFICES ASSUME pc'[r] = "reply" PROVE Sendable(r)
          OBVIOUS
      <4>1. got[r] # 0 /\ ~(now > storedAt[KeyOf[r]][got[r]] + Lifetime[r])
          BY <2>3 DEF Decide, Goto, TooOld
      <4>2. got[r] \in 1..version[KeyOf[r]]
          BY <1>3, <3>2, <4>1
      <4>3. storedAt[KeyOf[r]][got[r]] \in Nat
          BY <1>3, <4>2, ElementOfSeq
      <4>4. asked[r] <= storedAt[KeyOf[r]][got[r]] + Lifetime[r]
          BY <1>3, <3>2, <4>1, <4>3 DEF SinceAsked
      <4> QED
          BY <3>1, <4>2, <4>4 DEF Sendable
    <3> QED
        BY <1>1, <1>4, <3>1, <3>2, <3>3 DEF FreshInv, SinceAsked, Sendable
  <2>4. CASE CheckRateLimit(r)
    <3>1. /\ pc[r] = "limit" /\ pc'[r] \in {"enqueue", "done"}
          /\ code'[r] # 200 /\ status' = status /\ asked' = asked
          /\ known' = known
        BY <1>4, <2>4 DEF CheckRateLimit, Send, Goto, queueVars, history, FreshInv
    <3> QED
        BY <1>1, <1>4, <3>1 DEF FreshInv, SinceAsked
  <2>5. CASE Enqueue(r)
    <3>1. /\ pc[r] = "enqueue" /\ pc'[r] = "queued" /\ code'[r] # 200
          /\ status'[r] = "waiting" /\ base'[r] = version[KeyOf[r]]
          /\ asked' = asked /\ known' = known
        BY <1>4, <2>5 DEF Enqueue, Goto, WQ!Call, history, FreshInv
    <3> QED
        BY <1>1, <1>3, <1>4, <3>1 DEF FreshInv, SinceAsked
  <2>6. CASE Returned(r)
    <3>1. /\ pc[r] = "queued" /\ pc'[r] = "reply" /\ code'[r] # 200
          /\ asked' = asked /\ known' = known
        BY <1>4, <2>6 DEF Returned, Goto, history, FreshInv
    <3>2. PICK v \in (base[r] + 1)..version[KeyOf[r]] :
             answer' = [answer EXCEPT ![r] = v]
        BY <2>6 DEF Returned, WQ!Return
    <3>3. got'[r] = v
        BY <2>6, <3>2 DEF Returned
    <3>4. known[r] <= base[r] /\ SinceAsked(r)
        BY <1>4, <3>1 DEF FreshInv
    <3>5. v \in 1..version[KeyOf[r]] /\ v > known[r]
        BY <1>3, <3>2, <3>4
    <3>6. storedAt[KeyOf[r]][v] \in Nat /\ asked[r] <= storedAt[KeyOf[r]][v]
        BY <1>3, <3>4, <3>5, ElementOfSeq DEF SinceAsked
    <3>7. asked[r] <= storedAt[KeyOf[r]][v] + Lifetime[r]
        BY <1>3, <3>6
    <3>8. Sendable(r)'
        BY <1>1, <3>1, <3>3, <3>5, <3>7 DEF Sendable
    <3> QED
        BY <1>1, <3>1, <3>4, <3>8 DEF FreshInv, SinceAsked
  <2>7. CASE Failed(r)
    <3>1. /\ pc[r] = "queued" /\ pc'[r] = "done" /\ code'[r] = 500
          /\ asked' = asked /\ known' = known
        BY <2>7 DEF Failed, Send, history
    <3> QED
        BY <1>1, <1>4, <3>1 DEF FreshInv, SinceAsked
  <2>8. CASE Reply(r)
    <3>1. /\ pc[r] = "reply" /\ pc'[r] = "done"
          /\ got' = got /\ asked' = asked /\ known' = known
        BY <2>8 DEF Reply, Send, history
    <3> QED
        BY <1>1, <1>4, <3>1 DEF FreshInv, SinceAsked, Sendable
  <2> QED
      BY <2>1, <2>2, <2>3, <2>4, <2>5, <2>6, <2>7, <2>8 DEF Handle
<1> QED
    BY <1>2, <1>5 DEF Fresh

LEMMA FreshStep == TypeOK /\ Fresh /\ [Next]_vars => Fresh'
<1> SUFFICES ASSUME TypeOK, Fresh, [Next]_vars PROVE Fresh'
    OBVIOUS
<1>1. ASSUME NEW k \in Key, NewResult(k) PROVE Fresh'
  <2> SUFFICES ASSUME NEW r \in Req PROVE FreshInv(r)'
      BY DEF Fresh
  <2>1. /\ storedAt' = [storedAt EXCEPT ![k] = Append(storedAt[k], now)]
        /\ version' = [version EXCEPT ![k] = version[k] + 1]
        /\ UNCHANGED <<status, base, now, pc, got, code, asked, known>>
      BY <1>1 DEF NewResult, WQ!NewResult, bucketVars, localVars, history
  <2>2. FreshInv(r) /\ KeyOf[r] \in Key
      BY ServiceAssumption DEF Fresh
  <2>3. /\ version[KeyOf[r]] \in Nat /\ version'[KeyOf[r]] \in Nat
        /\ version[KeyOf[r]] <= version'[KeyOf[r]]
        /\ \A i \in 1..version[KeyOf[r]] :
              storedAt'[KeyOf[r]][i] = storedAt[KeyOf[r]][i]
        /\ \A i \in 1..version'[KeyOf[r]] :
              i \in 1..version[KeyOf[r]] \/ storedAt'[KeyOf[r]][i] = now
    <3>1. CASE KeyOf[r] = k
        BY <2>1, <2>2, <3>1, Logged DEF TypeOK
    <3>2. CASE KeyOf[r] # k
        BY <2>1, <2>2, <3>2 DEF TypeOK
    <3> QED
        BY <3>1, <3>2
  <2>4. SinceAsked(r) => SinceAsked(r)'
      BY <2>1, <2>2, <2>3 DEF SinceAsked, TypeOK
  <2>5. Sendable(r) => Sendable(r)'
      BY <2>1, <2>2, <2>3 DEF Sendable, TypeOK
  <2> QED
      BY <2>1, <2>2, <2>3, <2>4, <2>5 DEF FreshInv, TypeOK
<1>2. CASE Tick
  <2>1. /\ now' = now + 1 /\ now \in Nat
        /\ UNCHANGED <<status, version, base, pc, got, code, storedAt, asked, known>>
      BY <1>2 DEF Tick, TB!Tick, queueVars, localVars, history, TypeOK
  <2>2. \A r \in Req : asked[r] <= now => asked[r] <= now'
      BY <2>1 DEF TypeOK
  <2> QED
      BY <2>1, <2>2 DEF Fresh, FreshInv, SinceAsked, Sendable
<1>3. CASE UNCHANGED vars
    BY <1>3
    DEF vars, queueVars, bucketVars, localVars, history, Fresh, FreshInv,
        SinceAsked, Sendable
<1> QED
    BY <1>1, <1>2, <1>3, FreshHandle DEF Next

LEMMA FreshInit == Init => Fresh
BY DEF Init, WQ!Init, Fresh, FreshInv

LEMMA FreshAlways == Spec => []Fresh
BY TypeCorrect, FreshInit, FreshStep, PTL DEF Spec

\* A feed sent was stored at most its lifetime before it was asked for.
THEOREM FeedsAreFresh == Spec => []FeedIsFresh
<1>1. Fresh => FeedIsFresh
    BY DEF Fresh, FreshInv, Sendable, FeedIsFresh
<1> QED
    BY <1>1, FreshAlways, PTL

\* A screenshot sent was stored after it was asked for.
THEOREM ScreenshotsAreNew == Spec => []ScreenshotIsNew
<1>1. Fresh => ScreenshotIsNew
    BY ServiceAssumption DEF Fresh, FreshInv, Sendable, ScreenshotIsNew
<1> QED
    BY <1>1, FreshAlways, PTL

-----------------------------------------------------------------------------
(* Tokens *)

\* The tokens an address spent are its requests that came to Enqueue, and they
\* came from its burst or from the time that passed.
Account(i) ==
    /\ IsFiniteSet(Queued(i))
    /\ taken[i] = Cardinality(Queued(i))
    /\ taken[i] * Every + bucket[i] <= Burst * Every + now

Accounts == \A i \in Ip : Account(i)

LEMMA AccountsInit == Init => Accounts
<1> SUFFICES ASSUME Init, NEW i \in Ip PROVE Account(i)
    BY DEF Accounts
<1>1. Queued(i) = {}
    BY DEF Init, WQ!Init, Queued
<1>2. taken[i] = 0 /\ bucket[i] = Burst * Every /\ now = 0
    BY DEF Init, TB!Init, TB!Full
<1>3. Burst * Every \in Nat /\ Every \in Nat
    BY ServiceAssumption
<1> QED
    BY <1>1, <1>2, <1>3, FS_EmptySet DEF Account

\* One token more, and its request.
LEMMA OneTokenMore ==
    ASSUME NEW n \in Nat, NEW b \in Nat, NEW e \in Nat, NEW t \in Nat,
           n * e + b <= t, b >= e
    PROVE  (n + 1) * e + (b - e) <= t
<1>1. (n + 1) * e = n * e + e
    OBVIOUS
<1>2. n * e \in Nat
    OBVIOUS
<1> QED
    BY <1>1, <1>2

LEMMA Amounts ==
    ASSUME TypeOK, NEW i \in Ip
    PROVE  /\ taken[i] \in Nat /\ bucket[i] \in Nat
           /\ taken[i] * Every \in Nat
           /\ Burst * Every + now \in Nat
<1>1. taken[i] \in Nat /\ bucket[i] \in Nat /\ now \in Nat
    BY DEF TypeOK
<1>2. Every \in Nat /\ Burst \in Nat
    BY ServiceAssumption
<1> QED
    BY <1>1, <1>2

\* Only a request that takes a token joins those that came to Enqueue.
LEMMA OthersKeepQueued ==
    ASSUME TypeOK, Fresh, NEW r \in Req, Handle(r), ~CheckRateLimit(r)
    PROVE  /\ UNCHANGED <<bucket, now, taken>>
           /\ \A i \in Ip : Queued(i)' = Queued(i)
<1> USE DEF TypeOK, Send, Goto, queueVars
<1>1. UNCHANGED <<bucket, now, taken>>
    BY DEF Handle, Ask, Get, Decide, Enqueue, Returned, Failed, Reply, bucketVars
<1> DEFINE In(q)  == pc[q] = "enqueue" \/ status[q] # "idle"
           Now(q) == pc'[q] = "enqueue" \/ status'[q] # "idle"
<1>2. FreshInv(r)
    BY DEF Fresh
<1>3. Now(r) <=> In(r)
  <2>1. CASE Ask(r)
      BY <1>2, <2>1 DEF Ask, FreshInv
  <2>2. CASE Get(r)
      BY <1>2, <2>2 DEF Get, FreshInv
  <2>3. CASE Decide(r)
      BY <1>2, <2>3 DEF Decide, FreshInv
  <2>4. CASE Enqueue(r)
      BY <2>4 DEF Enqueue, WQ!Call
  <2>5. CASE Returned(r)
      BY <2>5 DEF Returned, WQ!Return
  <2>6. CASE Failed(r)
      BY <2>6 DEF Failed, WQ!Fail
  <2>7. CASE Reply(r)
      BY <2>7 DEF Reply
  <2> QED
      BY <2>1, <2>2, <2>3, <2>4, <2>5, <2>6, <2>7 DEF Handle
<1>4. ASSUME NEW q \in Req, q # r PROVE Now(q) <=> In(q)
  <2>1. pc'[q] = pc[q]
      BY <1>4 DEF Handle, Ask, Get, Decide, Enqueue, Returned, Failed, Reply
  <2>2. status'[q] = status[q]
      BY <1>4 DEF Handle, Ask, Get, Decide, Enqueue, Returned, Failed, Reply,
         WQ!Call, WQ!Return, WQ!Fail
  <2> QED
      BY <2>1, <2>2
<1>5. \A q \in Req : Now(q) <=> In(q)
    BY <1>3, <1>4
<1> QED
    BY <1>1, <1>5 DEF Queued

LEMMA AccountsHandle ==
    ASSUME TypeOK, Fresh, Accounts, NEW r \in Req, Handle(r)
    PROVE  Accounts'
<1>1. CASE ~CheckRateLimit(r)
    BY <1>1, OthersKeepQueued DEF Accounts, Account
<1>2. CASE CheckRateLimit(r)
  <2>1. /\ pc[r] = "limit" /\ status[r] = "idle" /\ status' = status
        /\ IpOf[r] \in Ip /\ Every \in Nat
      BY <1>2, ServiceAssumption DEF CheckRateLimit, queueVars, Fresh, FreshInv
  <2>2. CASE TB!Deny(IpOf[r]) /\ Send(r, 429)
    <3>1. \A q \in Req : pc'[q] = "enqueue" <=> pc[q] = "enqueue"
        BY <2>1, <2>2 DEF Send, TypeOK
    <3>2. \A i \in Ip : Queued(i)' = Queued(i)
        BY <2>1, <3>1 DEF Queued
    <3> QED
        BY <2>2, <3>2 DEF TB!Deny, Accounts, Account
  <2>3. CASE TB!Take(IpOf[r]) /\ Goto(r, "enqueue")
    <3> SUFFICES ASSUME NEW i \in Ip PROVE Account(i)'
        BY DEF Accounts
    <3>1. Account(i)
        BY DEF Accounts
    <3>2. CASE i # IpOf[r]
      <4>1. Queued(i)' = Queued(i)
          BY <2>1, <2>3, <3>2 DEF Queued, Goto, TypeOK
      <4>2. taken'[i] = taken[i] /\ bucket'[i] = bucket[i] /\ now' = now
          BY <2>3, <3>2 DEF TB!Take, TypeOK
      <4> QED
          BY <3>1, <4>1, <4>2 DEF Account
    <3>3. CASE i = IpOf[r]
      <4>1. Queued(i)' = Queued(i) \cup {r} /\ r \notin Queued(i)
          BY <2>1, <2>3, <3>3 DEF Queued, Goto, TypeOK
      <4>2. /\ bucket[i] >= Every /\ now' = now
            /\ taken'[i] = taken[i] + 1 /\ bucket'[i] = bucket[i] - Every
          BY <2>3, <3>3 DEF TB!Take, TypeOK
      <4>3. IsFiniteSet(Queued(i)') /\ taken'[i] = Cardinality(Queued(i)')
          BY <3>1, <4>1, <4>2, FS_AddElement DEF Account
      <4>4. /\ taken[i] \in Nat /\ bucket[i] \in Nat
            /\ Burst * Every + now \in Nat
            /\ taken[i] * Every + bucket[i] <= Burst * Every + now
          BY <3>1, Amounts DEF Account
      <4>5. taken'[i] * Every + bucket'[i] <= Burst * Every + now'
          BY <2>1, <4>2, <4>4, OneTokenMore
      <4> QED
          BY <4>3, <4>5 DEF Account
    <3> QED
        BY <3>2, <3>3
  <2> QED
      BY <1>2, <2>2, <2>3 DEF CheckRateLimit
<1> QED
    BY <1>1, <1>2

LEMMA AccountsStep == TypeOK /\ Fresh /\ Accounts /\ [Next]_vars => Accounts'
<1> SUFFICES ASSUME TypeOK, Fresh, Accounts, [Next]_vars PROVE Accounts'
    OBVIOUS
<1>1. ASSUME NEW k \in Key, NewResult(k) PROVE Accounts'
    BY <1>1 DEF NewResult, WQ!NewResult, bucketVars, localVars, Accounts, Account,
       Queued
<1>2. CASE Tick
  <2> SUFFICES ASSUME NEW i \in Ip PROVE Account(i)'
      BY DEF Accounts
  <2>1. Account(i) /\ Queued(i)' = Queued(i) /\ taken' = taken /\ now' = now + 1
      BY <1>2 DEF Tick, TB!Tick, queueVars, localVars, Queued, Accounts
  <2>2. bucket'[i] \in Nat /\ bucket'[i] <= bucket[i] + 1
    <3>1. bucket[i] \in Nat /\ Burst * Every \in Nat
        BY ServiceAssumption DEF TypeOK
    <3> QED
        BY <1>2, <3>1 DEF Tick, TB!Tick, TB!Full
  <2>3. taken[i] * Every \in Nat /\ bucket[i] \in Nat /\ Burst * Every + now \in Nat
      BY Amounts
  <2>4. Burst * Every + (now + 1) = (Burst * Every + now) + 1
      BY ServiceAssumption DEF TypeOK
  <2> QED
      BY <2>1, <2>2, <2>3, <2>4 DEF Account
<1>3. CASE UNCHANGED vars
    BY <1>3 DEF vars, queueVars, bucketVars, localVars, Accounts, Account, Queued
<1> QED
    BY <1>1, <1>2, <1>3, AccountsHandle DEF Next

LEMMA AccountsAlways == Spec => []Accounts
BY TypeCorrect, FreshAlways, AccountsInit, AccountsStep, PTL DEF Spec

\* Every token an address spends is for a request that goes on to Enqueue.
THEOREM TokensBuyWork == Spec => []TokensAreForWork
<1>1. Accounts => TokensAreForWork
    BY DEF Accounts, Account, TokensAreForWork
<1> QED
    BY <1>1, AccountsAlways, PTL

\* The work an address gives the workers stays within its burst and its rate.
THEOREM WorkBound == Spec => []WorkIsBounded
<1>1. TypeOK /\ Accounts => WorkIsBounded
  <2> SUFFICES ASSUME TypeOK, Accounts, NEW i \in Ip
               PROVE  Cardinality(Queued(i)) * Every <= Burst * Every + now
      BY DEF WorkIsBounded
  <2>1. /\ taken[i] = Cardinality(Queued(i))
        /\ taken[i] * Every + bucket[i] <= Burst * Every + now
      BY DEF Accounts, Account
  <2>2. bucket[i] \in Nat /\ taken[i] * Every \in Nat /\ Burst * Every + now \in Nat
      BY Amounts
  <2>3. taken[i] * Every <= Burst * Every + now
      BY <2>1, <2>2
  <2> QED
      BY <2>1, <2>3
<1> QED
    BY <1>1, TypeCorrect, AccountsAlways, PTL
=============================================================================
