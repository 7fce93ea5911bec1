------------------------ MODULE CheckRateLimitProofs ------------------------
(***************************************************************************)
(* Proofs about CheckRateLimit, for any calls, addresses, rate and burst,  *)
(* and for a clock that runs to any bound.                                 *)
(***************************************************************************)
EXTENDS CheckRateLimit, TLAPS

\* The arithmetic of tokens and fractions.
LEMMA OneMore ==
    ASSUME NEW n \in Nat, NEW e \in Nat
    PROVE  (n + 1) * e = n * e + e /\ n * e \in Nat
OBVIOUS

LEMMA LessThanOne ==
    ASSUME NEW m \in Nat, NEW n \in Nat, NEW e \in Nat \ {0}, m * e - n * e < e
    PROVE  n >= m
<1> SUFFICES ASSUME n < m PROVE FALSE
    OBVIOUS
<1>1. m - n >= 1 /\ m - n \in Nat
    OBVIOUS
<1>2. (m - n) * e >= e
    BY <1>1
<1>3. (m - n) * e = m * e - n * e
    OBVIOUS
<1> QED
    BY <1>2, <1>3

-----------------------------------------------------------------------------
\* A call past the lookups has the limiter its address has in the map.
UsesTheMap ==
    \A c \in Call : pc[c] = "allow" =>
       lim[c] = limits[IpOf[c]] /\ lim[c] # NoCall

\* Limiters are not shared between addresses.
OwnLimiter == \A i \in Ip : limits[i] # NoCall => IpOf[limits[i]] = i

\* What an address was let through is what its limiter has spent.
Ledger ==
    \A i \in Ip :
       IF limits[i] = NoCall
       THEN admitted[i] = 0 /\ refused[i] = 0
       ELSE /\ Full <= credit[limits[i]] + admitted[i] * Every
            /\ credit[limits[i]] + admitted[i] * Every <= Full + now

IInv ==
    /\ TypeOK
    /\ UsesTheMap
    /\ OwnLimiter
    /\ Ledger
    /\ RefusedAfterBurst

LEMMA FullIsNat == Full \in Nat
BY RateAssumption DEF Full

LEMMA IInvInit == Init => IInv
BY RateAssumption, FullIsNat
DEF Init, IInv, TypeOK, UsesTheMap, OwnLimiter, Ledger, RefusedAfterBurst

LEMMA IInvAllow ==
    ASSUME IInv, NEW c \in Call, Allow(c)
    PROVE  IInv'
<1> DEFINE i == IpOf[c]
           l == lim[c]
<1>1. i \in Ip /\ l \in Call /\ l = limits[i] /\ limits[i] # NoCall
    BY RateAssumption DEF Allow, HasToken, IInv, TypeOK, UsesTheMap
<1>2. /\ credit[l] \in 0..Full /\ admitted[i] \in Nat /\ refused[i] \in Nat
      /\ Full \in Nat /\ now \in Nat /\ Every \in Nat \ {0} /\ Burst \in Nat
    BY <1>1, RateAssumption, FullIsNat DEF IInv, TypeOK
<1>3. /\ Full <= credit[l] + admitted[i] * Every
      /\ credit[l] + admitted[i] * Every <= Full + now
    BY <1>1 DEF IInv, Ledger
<1>4. /\ pc' = [pc EXCEPT ![c] = "done"]
      /\ readers' = readers /\ writer' = writer /\ limits' = limits
      /\ lim' = lim /\ now' = now
    BY DEF Allow, HasToken, lockVars
<1>5. \A j \in Ip : j # i /\ limits[j] # NoCall => limits[j] # l
    BY <1>1 DEF IInv, OwnLimiter
<1>6. UsesTheMap' /\ OwnLimiter'
    BY <1>4 DEF IInv, TypeOK, UsesTheMap, OwnLimiter
<1>7. CASE credit[l] >= Every
  <2>1. /\ credit' = [credit EXCEPT ![l] = credit[l] - Every]
        /\ admitted' = [admitted EXCEPT ![i] = admitted[i] + 1]
        /\ refused' = refused
      BY <1>7 DEF Allow, HasToken
  <2>2. /\ credit'[l] = credit[l] - Every /\ admitted'[i] = admitted[i] + 1
        /\ \A j \in Ip : j # i => admitted'[j] = admitted[j]
        /\ \A d \in Call : d # l => credit'[d] = credit[d]
      BY <1>1, <2>1 DEF IInv, TypeOK
  <2>3. TypeOK'
      BY <1>1, <1>2, <1>4, <1>7, <2>1 DEF IInv, TypeOK, Full
  <2>4. admitted'[i] * Every = admitted[i] * Every + Every
      BY <1>2, <2>2, OneMore
  <2>5. /\ Full <= credit'[l] + admitted'[i] * Every
        /\ credit'[l] + admitted'[i] * Every <= Full + now
    <3>1. admitted[i] * Every \in Nat
        BY <1>2, OneMore
    <3> QED
        BY <1>2, <1>3, <2>2, <2>4, <3>1
  <2>6. Ledger'
    <3> SUFFICES ASSUME NEW j \in Ip
                 PROVE  IF limits[j] = NoCall
                        THEN admitted'[j] = 0 /\ refused'[j] = 0
                        ELSE /\ Full <= credit'[limits[j]] + admitted'[j] * Every
                             /\ credit'[limits[j]] + admitted'[j] * Every <= Full + now
        BY <1>4 DEF Ledger, Full
    <3>1. CASE j = i
        BY <1>1, <2>5, <3>1
    <3>2. CASE j # i
      <4>1. limits[j] # NoCall => limits[j] \in Call /\ limits[j] # l
          BY <1>5, <3>2 DEF IInv, TypeOK
      <4> QED
          BY <2>1, <2>2, <3>2, <4>1 DEF IInv, Ledger
    <3> QED
        BY <3>1, <3>2
  <2>7. RefusedAfterBurst'
      BY <1>2, <2>1, <2>2 DEF IInv, RefusedAfterBurst, TypeOK
  <2> QED
      BY <1>6, <2>3, <2>6, <2>7 DEF IInv
<1>8. CASE ~(credit[l] >= Every)
  <2>1. /\ credit' = credit /\ admitted' = admitted
        /\ refused' = [refused EXCEPT ![i] = refused[i] + 1]
      BY <1>8 DEF Allow, HasToken
  <2>2. TypeOK'
      BY <1>1, <1>2, <1>4, <2>1 DEF IInv, TypeOK, Full
  <2>3. admitted[i] >= Burst
    <3>1. admitted[i] * Every \in Nat /\ Burst * Every \in Nat
        BY <1>2, OneMore
    <3>2. Burst * Every - admitted[i] * Every < Every
        BY <1>2, <1>3, <1>8, <3>1 DEF Full
    <3> QED
        BY <1>2, <3>2, LessThanOne
  <2>4. Ledger'
      BY <1>1, <1>4, <2>1 DEF IInv, Ledger, TypeOK, Full
  <2>5. RefusedAfterBurst'
      BY <1>1, <2>1, <2>3 DEF IInv, RefusedAfterBurst, TypeOK
  <2> QED
      BY <1>6, <2>2, <2>4, <2>5 DEF IInv
<1> QED
    BY <1>7, <1>8

LEMMA IInvCreate ==
    ASSUME IInv, NEW c \in Call, Create(c)
    PROVE  IInv'
<1>1. /\ IpOf[c] \in Ip /\ c # NoCall /\ Full \in Nat /\ now \in Nat
      /\ Every \in Nat
    BY RateAssumption, FullIsNat DEF IInv, TypeOK
<1>2. /\ pc' = [pc EXCEPT ![c] = "allow"]
      /\ readers' = readers /\ now' = now
      /\ admitted' = admitted /\ refused' = refused /\ writer' = NoCall
    BY DEF Create
<1>3. CASE limits[IpOf[c]] = NoCall
  <2>1. /\ lim' = [lim EXCEPT ![c] = c]
        /\ limits' = [limits EXCEPT ![IpOf[c]] = c]
        /\ credit' = [credit EXCEPT ![c] = Full]
      BY <1>3 DEF Create
  <2>2. TypeOK'
      BY <1>1, <1>2, <2>1 DEF IInv, TypeOK, Full
  <2>3. UsesTheMap'
      BY <1>1, <1>2, <1>3, <2>1 DEF IInv, TypeOK, UsesTheMap
  <2>4. OwnLimiter'
      BY <1>1, <2>1 DEF IInv, TypeOK, OwnLimiter
  <2>5. Ledger'
    <3> SUFFICES ASSUME NEW j \in Ip
                 PROVE  IF limits'[j] = NoCall
                        THEN admitted[j] = 0 /\ refused[j] = 0
                        ELSE /\ Full <= credit'[limits'[j]] + admitted[j] * Every
                             /\ credit'[limits'[j]] + admitted[j] * Every <= Full + now
        BY <1>2 DEF Ledger, Full
    <3>1. CASE j = IpOf[c]
      <4>1. limits'[j] = c /\ credit'[c] = Full /\ admitted[j] = 0
          BY <1>3, <2>1, <3>1 DEF IInv, TypeOK, Ledger
      <4> QED
          BY <1>1, <4>1
    <3>2. CASE j # IpOf[c]
      <4>1. limits'[j] = limits[j] /\ (limits[j] # NoCall => limits[j] # c)
          BY <2>1, <3>2 DEF IInv, TypeOK, OwnLimiter
      <4>2. limits[j] # NoCall => credit'[limits[j]] = credit[limits[j]]
          BY <2>1, <4>1 DEF IInv, TypeOK
      <4> QED
          BY <4>1, <4>2 DEF IInv, Ledger
    <3> QED
        BY <3>1, <3>2
  <2>6. RefusedAfterBurst'
      BY <1>2 DEF IInv, RefusedAfterBurst
  <2> QED
      BY <2>2, <2>3, <2>4, <2>5, <2>6 DEF IInv
<1>4. CASE limits[IpOf[c]] # NoCall
  <2>1. /\ lim' = [lim EXCEPT ![c] = limits[IpOf[c]]]
        /\ limits' = limits /\ credit' = credit
      BY <1>4 DEF Create
  <2>2. TypeOK'
      BY <1>1, <1>2, <2>1 DEF IInv, TypeOK, Full
  <2>3. UsesTheMap' /\ OwnLimiter'
      BY <1>2, <1>4, <2>1 DEF IInv, TypeOK, UsesTheMap, OwnLimiter
  <2>4. Ledger' /\ RefusedAfterBurst'
      BY <1>2, <2>1 DEF IInv, Ledger, RefusedAfterBurst, Full
  <2> QED
      BY <2>2, <2>3, <2>4 DEF IInv
<1> QED
    BY <1>3, <1>4

LEMMA IInvTick ==
    ASSUME IInv, Tick
    PROVE  IInv'
<1>1. /\ Full \in Nat /\ now \in Nat /\ now' = now + 1 /\ Every \in Nat
      /\ credit' = [c \in Call |-> IF credit[c] < Full THEN credit[c] + 1 ELSE Full]
    BY RateAssumption, FullIsNat DEF IInv, TypeOK, Tick
<1>2. /\ UNCHANGED <<pc, readers, writer, limits, lim, admitted, refused>>
    BY DEF Tick, lockVars
<1>3. \A c \in Call : /\ credit[c] \in 0..Full /\ credit'[c] \in 0..Full
                      /\ credit[c] <= credit'[c] /\ credit'[c] <= credit[c] + 1
    BY <1>1 DEF IInv, TypeOK
<1>4. TypeOK'
    BY <1>1, <1>2, <1>3 DEF IInv, TypeOK, Full
<1>5. Ledger'
  <2> SUFFICES ASSUME NEW j \in Ip, limits[j] # NoCall
               PROVE  /\ Full <= credit'[limits[j]] + admitted[j] * Every
                      /\ credit'[limits[j]] + admitted[j] * Every <= Full + (now + 1)
      BY <1>1, <1>2 DEF IInv, Ledger, Full
  <2>1. limits[j] \in Call /\ admitted[j] \in Nat
      BY DEF IInv, TypeOK
  <2>2. admitted[j] * Every \in Nat
      BY <1>1, <2>1, OneMore
  <2>3. /\ Full <= credit[limits[j]] + admitted[j] * Every
        /\ credit[limits[j]] + admitted[j] * Every <= Full + now
      BY DEF IInv, Ledger
  <2> QED
      BY <1>1, <1>3, <2>1, <2>2, <2>3
<1>6. UsesTheMap' /\ OwnLimiter' /\ RefusedAfterBurst'
    BY <1>2 DEF IInv, UsesTheMap, OwnLimiter, RefusedAfterBurst
<1> QED
    BY <1>4, <1>5, <1>6 DEF IInv

LEMMA IInvStep == IInv /\ [Next]_vars => IInv'
<1> SUFFICES ASSUME IInv, [Next]_vars PROVE IInv'
    OBVIOUS
<1> USE RateAssumption
        DEF IInv, TypeOK, UsesTheMap, OwnLimiter, Ledger, RefusedAfterBurst, Full
<1>1. ASSUME NEW c \in Call, RLock(c) PROVE IInv'
    BY <1>1 DEF RLock
<1>2. ASSUME NEW c \in Call, Lookup(c) PROVE IInv'
    BY <1>2 DEF Lookup
<1>3. ASSUME NEW c \in Call, Lock(c) PROVE IInv'
    BY <1>3 DEF Lock
<1>4. CASE UNCHANGED vars
    BY <1>4 DEF vars, lockVars
<1> QED
    BY <1>1, <1>2, <1>3, <1>4, IInvCreate, IInvAllow, IInvTick
    DEF Next, CheckRateLimit

LEMMA IInvAlways == Spec => []IInv
BY IInvInit, IInvStep, PTL DEF Spec

\* The types of the variables: among them, that no limiter's credit goes below
\* nothing or above a full burst, and that a call which is about to make a
\* limiter holds the lock.
THEOREM TypeCorrect == Spec => []TypeOK
<1>1. IInv => TypeOK
    BY DEF IInv
<1> QED
    BY <1>1, IInvAlways, PTL

\* An address is let through at most its burst and a token per Every, however
\* its first calls race: its calls all use the one limiter in the map.
THEOREM RateBound == Spec => []RateIsBounded
<1>1. IInv => RateIsBounded
  <2> SUFFICES ASSUME IInv, NEW i \in Ip PROVE admitted[i] * Every <= Full + now
      BY DEF RateIsBounded
  <2>1. /\ Full \in Nat /\ now \in Nat /\ admitted[i] \in Nat /\ Every \in Nat
        /\ admitted[i] * Every \in Nat
      BY RateAssumption, FullIsNat, OneMore DEF IInv, TypeOK
  <2>2. CASE limits[i] = NoCall
    <3>1. admitted[i] = 0
        BY <2>2 DEF IInv, Ledger
    <3> QED
        BY <2>1, <3>1
  <2>3. CASE limits[i] # NoCall
    <3>1. credit[limits[i]] \in Nat
        BY <2>3 DEF IInv, TypeOK
    <3>2. credit[limits[i]] + admitted[i] * Every <= Full + now
        BY <2>3 DEF IInv, Ledger
    <3> QED
        BY <2>1, <3>1, <3>2
  <2> QED
      BY <2>2, <2>3
<1> QED
    BY <1>1, IInvAlways, PTL

\* A refused address has spent its own burst: addresses share no limiter.
THEOREM RefusalIsEarned == Spec => []RefusedAfterBurst
<1>1. IInv => RefusedAfterBurst
    BY DEF IInv
<1> QED
    BY <1>1, IInvAlways, PTL

-----------------------------------------------------------------------------
\* Who holds the lock.
LockInv ==
    /\ \A c \in Call : pc[c] = "read" <=> c \in readers
    /\ \A c \in Call : pc[c] = "write" <=> writer = c
    /\ writer # NoCall => readers = {}

LEMMA LockStep == TypeOK /\ LockInv /\ [Next]_vars => LockInv'
<1> SUFFICES ASSUME TypeOK, LockInv, [Next]_vars PROVE LockInv'
    OBVIOUS
<1> USE RateAssumption DEF TypeOK, LockInv
<1>1. ASSUME NEW c \in Call, RLock(c) PROVE LockInv'
    BY <1>1 DEF RLock
<1>2. ASSUME NEW c \in Call, Lookup(c) PROVE LockInv'
    BY <1>2 DEF Lookup
<1>3. ASSUME NEW c \in Call, Lock(c) PROVE LockInv'
    BY <1>3 DEF Lock
<1>4. ASSUME NEW c \in Call, Create(c) PROVE LockInv'
    BY <1>4 DEF Create
<1>5. ASSUME NEW c \in Call, Allow(c) PROVE LockInv'
    BY <1>5 DEF Allow, HasToken, lockVars
<1>6. CASE Tick \/ UNCHANGED vars
    BY <1>6 DEF Tick, vars, lockVars
<1> QED
    BY <1>1, <1>2, <1>3, <1>4, <1>5, <1>6 DEF Next, CheckRateLimit

\* Nobody reads or writes the map of limiters while a call writes it.
THEOREM MapRaceFree == Spec => []MapIsNotRaced
<1>1. Init => LockInv
    BY RateAssumption DEF Init, LockInv
<1>2. IInv => TypeOK
    BY DEF IInv
<1>3. TypeOK /\ LockInv => MapIsNotRaced
    BY RateAssumption DEF LockInv, MapIsNotRaced, TypeOK
<1> QED
    BY <1>1, <1>2, <1>3, LockStep, IInvAlways, PTL DEF Spec

-----------------------------------------------------------------------------
(* The promise of the token bucket *)

LEMMA RefinesStep == IInv /\ [Next]_vars => [TB!Next]_(TB!vars)
<1> SUFFICES ASSUME IInv, [Next]_vars PROVE [TB!Next]_(TB!vars)
    OBVIOUS
<1> DEFINE bkt == [i \in Ip |-> IF limits[i] = NoCall THEN Full
                                ELSE credit[limits[i]]]
<1> USE RateAssumption, FullIsNat DEF TB!Full
<1>1. ASSUME NEW c \in Call, Create(c) PROVE [TB!Next]_(TB!vars)
  <2>1. UNCHANGED <<now, admitted, refused>>
      BY <1>1 DEF Create
  <2>2. ASSUME NEW i \in Ip
        PROVE  IF limits'[i] = NoCall THEN Full' = bkt[i]
               ELSE credit'[limits'[i]] = bkt[i]
    <3>1. CASE limits[IpOf[c]] = NoCall /\ i = IpOf[c]
        BY <1>1, <3>1 DEF Create, IInv, TypeOK
    <3>2. CASE limits[IpOf[c]] = NoCall /\ i # IpOf[c]
      <4>1. limits'[i] = limits[i] /\ (limits[i] # NoCall => limits[i] # c)
          BY <1>1, <3>2 DEF Create, IInv, TypeOK, OwnLimiter
      <4> QED
          BY <1>1, <3>2, <4>1 DEF Create, IInv, TypeOK, Full
    <3>3. CASE limits[IpOf[c]] # NoCall
        BY <1>1, <3>3 DEF Create, Full
    <3> QED
        BY <3>1, <3>2, <3>3
  <2>3. bkt' = bkt
      BY <2>2 DEF Full
  <2> QED
      BY <2>1, <2>3 DEF TB!vars
<1>2. ASSUME NEW c \in Call, Allow(c) PROVE [TB!Next]_(TB!vars)
  <2> DEFINE i == IpOf[c]
             l == lim[c]
  <2>1. /\ i \in Ip /\ l \in Call /\ l = limits[i] /\ limits[i] # NoCall
        /\ bkt[i] = credit[l]
      BY <1>2 DEF Allow, HasToken, IInv, TypeOK, UsesTheMap
  <2>2. limits' = limits /\ now' = now
      BY <1>2 DEF Allow, HasToken
  <2>3. CASE credit[l] >= Every
    <3>1. bkt' = [bkt EXCEPT ![i] = bkt[i] - Every]
      <4> SUFFICES ASSUME NEW j \in Ip
                   PROVE  (IF limits[j] = NoCall THEN Full ELSE credit'[limits[j]])
                          = IF j = i THEN bkt[i] - Every ELSE bkt[j]
          BY <2>1, <2>2 DEF Full
      <4>1. limits[j] # NoCall /\ j # i => limits[j] # l /\ limits[j] \in Call
          BY <2>1 DEF IInv, TypeOK, OwnLimiter
      <4>2. credit' = [credit EXCEPT ![l] = credit[l] - Every]
          BY <1>2, <2>3 DEF Allow, HasToken
      <4> QED
          BY <2>1, <4>1, <4>2 DEF IInv, TypeOK
    <3>2. TB!Take(i)
        BY <1>2, <2>1, <2>2, <2>3, <3>1 DEF Allow, HasToken, TB!Take
    <3> QED
        BY <2>1, <3>2 DEF TB!Next
  <2>4. CASE ~(credit[l] >= Every)
    <3>1. bkt' = bkt /\ admitted' = admitted
        BY <1>2, <2>2, <2>4 DEF Allow, HasToken, Full
    <3>2. credit[l] < Every
        BY <2>1, <2>4 DEF IInv, TypeOK
    <3>3. TB!Deny(i)
        BY <1>2, <2>1, <2>2, <2>4, <3>1, <3>2 DEF Allow, HasToken, TB!Deny
    <3> QED
        BY <2>1, <3>3 DEF TB!Next
  <2> QED
      BY <2>3, <2>4
<1>3. ASSUME Tick PROVE [TB!Next]_(TB!vars)
  <2>1. /\ now < MaxTime /\ now' = now + 1
        /\ limits' = limits /\ admitted' = admitted /\ refused' = refused
        /\ credit' = [c \in Call |-> IF credit[c] < Full THEN credit[c] + 1 ELSE Full]
      BY <1>3 DEF Tick
  <2>2. bkt' = [i \in Ip |-> IF bkt[i] < Full THEN bkt[i] + 1 ELSE Full]
    <3> SUFFICES ASSUME NEW i \in Ip
                 PROVE  (IF limits[i] = NoCall THEN Full ELSE credit'[limits[i]])
                        = IF bkt[i] < Full THEN bkt[i] + 1 ELSE Full
        BY <2>1 DEF Full
    <3> QED
        BY <2>1 DEF IInv, TypeOK
  <2>3. TB!Tick
      BY <2>1, <2>2 DEF TB!Tick, Full
  <2> QED
      BY <2>3 DEF TB!Next
<1>4. ASSUME UNCHANGED <<limits, credit, now, admitted, refused>>
      PROVE  [TB!Next]_(TB!vars)
    BY <1>4 DEF TB!vars, Full
<1>5. ASSUME NEW c \in Call, RLock(c) \/ Lookup(c) \/ Lock(c)
      PROVE  UNCHANGED <<limits, credit, now, admitted, refused>>
    BY <1>5 DEF RLock, Lookup, Lock
<1>6. CASE UNCHANGED vars
    BY <1>4, <1>6 DEF vars
<1> QED
    BY <1>1, <1>2, <1>3, <1>4, <1>5, <1>6 DEF Next, CheckRateLimit

\* Racing calls, the map and its locks implement one token bucket per address.
THEOREM ImplementsTokenBucket == Spec => RefinesTokenBucket
<1>1. Init => TB!Init
    BY DEF Init, TB!Init, TB!Full, Full
<1> QED
    BY <1>1, RefinesStep, IInvAlways, PTL DEF Spec, RefinesTokenBucket, TB!Spec
=============================================================================
