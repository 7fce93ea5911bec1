------------------------ MODULE DomainLimiterProofs ------------------------
(***************************************************************************)
(* Proofs about DomainLimiter, for every rate, every capacity and any      *)
(* number of calls.                                                        *)
(***************************************************************************)
EXTENDS DomainLimiter, FiniteSetTheorems, TLAPS

-----------------------------------------------------------------------------
(* Types *)

LEMMA AppendFacts ==
    ASSUME NEW S, NEW s \in Seq(S), NEW e, e \in S, NEW q, q = Append(s, e)
    PROVE  /\ Len(q) = Len(s) + 1
           /\ \A i \in 1 .. Len(s) : q[i] = s[i] /\ s[i] \in S
           /\ q[Len(s) + 1] = e
OBVIOUS

LEMMA Member ==
    ASSUME NEW S, NEW s \in Seq(S), NEW i \in 1 .. Len(s)
    PROVE  s[i] \in S
OBVIOUS

\* Some of the first n numbers are finitely many.
LEMMA SomeAreFinite ==
    ASSUME NEW n \in Nat, NEW S \in SUBSET (1 .. n)
    PROVE  IsFiniteSet(S) /\ Cardinality(S) \in Nat
<1>1. IsFiniteSet(1 .. n)
    BY FS_Interval
<1>2. IsFiniteSet(S)
    BY <1>1, FS_Subset
<1> QED
    BY <1>2, FS_CardinalityType

\* A slot is given only where it is now or behind the last one.
LEMMA SlotIsTime == TypeOK => NextSlot \in Nat /\ NextSlot >= now
BY LimiterAssumption DEF TypeOK, NextSlot

LEMMA TypeStart == Init => TypeOK
BY LimiterAssumption DEF Init, TypeOK

LEMMA TypeStep == TypeOK /\ [Next]_vars => TypeOK'
<1> SUFFICES ASSUME TypeOK, [Next]_vars PROVE TypeOK'
    OBVIOUS
<1> USE LimiterAssumption
<1>1. CASE Limit
    <2>1. NextSlot \in Nat
        BY SlotIsTime
    <2>2. [slot |-> NextSlot, at |-> now] \in [slot : Nat, at : Nat]
        BY <2>1 DEF TypeOK
    <2>3. granted' \in Seq([slot : Nat, at : Nat])
        BY <1>1, <2>2 DEF Limit, TypeOK
    <2>4. now + Ttl \in Nat
        BY DEF TypeOK, Ttl
    <2> QED
        BY <1>1, <2>1, <2>3, <2>4 DEF Limit, TypeOK
<1>2. CASE LimitReached
    BY <1>2 DEF LimitReached, TypeOK
<1>3. CASE Tick
    BY <1>3 DEF Tick, TypeOK
<1>4. CASE UNCHANGED vars
    BY <1>4 DEF vars, TypeOK
<1> QED
    BY <1>1, <1>2, <1>3, <1>4 DEF Next

\* The limiter's state, the clock and the record of calls keep their types.
THEOREM TypeCorrect == Spec => []TypeOK
BY TypeStart, TypeStep, PTL DEF Spec

-----------------------------------------------------------------------------
(* Slots that are apart, and waits *)

\* What was given away last is what Redis remembers, and for how long.
Remembers ==
    granted # <<>> =>
        /\ last = granted[Len(granted)].slot
        /\ expires = granted[Len(granted)].at + Capacity * Rate

\* No slot was given before it was asked for, or after the clock.
Past == \A i \in 1 .. Len(granted) : granted[i].at <= now

SlotInv == TypeOK /\ Remembers /\ Past /\ SpacedWhileKept

LEMMA SlotStart == Init => SlotInv
BY TypeStart DEF Init, SlotInv, Remembers, Past, SpacedWhileKept

LEMMA SlotStep == SlotInv /\ [Next]_vars => SlotInv'
<1> SUFFICES ASSUME SlotInv, [Next]_vars PROVE SlotInv'
    OBVIOUS
<1> USE LimiterAssumption
<1>1. TypeOK /\ TypeOK'
    BY TypeStep DEF SlotInv
<1>2. CASE Limit
    <2> DEFINE n == Len(granted)
    <2>1. /\ granted \in Seq([slot : Nat, at : Nat]) /\ n \in Nat
          /\ granted' = Append(granted, [slot |-> NextSlot, at |-> now])
        BY <1>1, <1>2 DEF TypeOK, Limit
    <2>2. /\ Len(granted') = n + 1
          /\ \A i \in 1 .. n : granted'[i] = granted[i] /\ granted[i] \in [slot : Nat, at : Nat]
          /\ granted'[n + 1] = [slot |-> NextSlot, at |-> now]
        <3> DEFINE S == [slot : Nat, at : Nat]
                   e == [slot |-> NextSlot, at |-> now]
        <3>1. e \in S
            BY <1>1, SlotIsTime DEF TypeOK
        <3>2. granted \in Seq(S) /\ granted' = Append(granted, e)
            BY <2>1
        <3> HIDE DEF S, e
        <3>3. /\ Len(granted') = Len(granted) + 1
              /\ \A i \in 1 .. Len(granted) : granted'[i] = granted[i] /\ granted[i] \in S
              /\ granted'[Len(granted) + 1] = e
            BY <3>1, <3>2, AppendFacts
        <3> QED
            BY <3>3 DEF S, e
    <2>3. Remembers'
        <3>1. last' = NextSlot /\ expires' = now + Capacity * Rate
            BY <1>2 DEF Limit, Ttl
        <3> QED
            BY <2>2, <3>1 DEF Remembers
    <2>4. Past'
        BY <1>1, <1>2, <2>2 DEF Limit, Past, SlotInv, TypeOK
    <2>5. ASSUME n >= 1
          PROVE  NextSlot >= granted[n].slot + Rate \/ now >= granted[n].at + Capacity * Rate
        <3>1. last = granted[n].slot /\ expires = granted[n].at + Capacity * Rate
            BY <2>1, <2>5 DEF SlotInv, Remembers
        <3>2. now \in Nat /\ last \in Nat /\ expires \in Nat
            BY <1>1 DEF TypeOK
        <3> QED
            BY <3>1, <3>2 DEF NextSlot
    <2>6. SpacedWhileKept'
        <3> SUFFICES ASSUME NEW i \in 2 .. (n + 1)
                     PROVE  \/ granted'[i].slot >= granted'[i - 1].slot + Rate
                            \/ granted'[i].at >= granted'[i - 1].at + Capacity * Rate
            BY <2>2 DEF SpacedWhileKept
        <3>1. CASE i <= n
            BY <2>1, <2>2, <3>1 DEF SlotInv, SpacedWhileKept
        <3>2. CASE i = n + 1
            BY <2>1, <2>2, <2>5, <3>2
        <3> QED
            BY <2>1, <3>1, <3>2
    <2> QED
        BY <1>1, <2>3, <2>4, <2>6 DEF SlotInv
<1>3. CASE LimitReached
    BY <1>1, <1>3 DEF LimitReached, SlotInv, Remembers, Past, SpacedWhileKept
<1>4. CASE Tick
    <2>1. UNCHANGED <<last, expires, granted>> /\ now' = now + 1 /\ now \in Nat
        BY <1>1, <1>4 DEF Tick, TypeOK
    <2>2. Past'
        <3> SUFFICES ASSUME NEW i \in 1 .. Len(granted) PROVE granted[i].at <= now + 1
            BY <2>1 DEF Past
        <3>1. granted[i] \in [slot : Nat, at : Nat]
            <4>1. granted \in Seq([slot : Nat, at : Nat])
                BY <1>1 DEF TypeOK
            <4> QED
                BY <4>1, Member, Zenon
        <3>2. granted[i].at <= now /\ granted[i].at \in Nat
            BY <3>1 DEF SlotInv, Past
        <3> QED
            BY <2>1, <3>2
    <2> QED
        BY <1>1, <2>1, <2>2 DEF SlotInv, Remembers, SpacedWhileKept
<1>5. CASE UNCHANGED vars
    BY <1>1, <1>5 DEF vars, SlotInv, Remembers, Past, SpacedWhileKept
<1> QED
    BY <1>2, <1>3, <1>4, <1>5 DEF Next

\* As long as Redis keeps its state, the requests to a domain are a rate apart,
\* of whichever workers they are.
THEOREM SlotsAreSpaced == Spec => []SpacedWhileKept
<1>1. SlotInv => SpacedWhileKept
    BY DEF SlotInv
<1> QED
    BY <1>1, SlotStart, SlotStep, PTL DEF Spec

-----------------------------------------------------------------------------
(* Refusals *)

\* The slots that are still ahead at time t.
Ahead(t) == {i \in 1 .. Len(granted) : granted[i].slot > t}

\* Up to the last slot there is at most a rate for each that is ahead: slots
\* are given one behind the other, or at once.
Covered == \A t \in Nat : t >= now => last <= t + Cardinality(Ahead(t)) * Rate

RefusedInv == SlotInv /\ Covered /\ RefusedWhenFull

LEMMA AheadIsFinite ==
    ASSUME TypeOK, NEW t \in Nat
    PROVE  IsFiniteSet(Ahead(t)) /\ Cardinality(Ahead(t)) \in Nat
<1>1. Len(granted) \in Nat /\ Ahead(t) \in SUBSET (1 .. Len(granted))
    BY DEF TypeOK, Ahead
<1> QED
    BY <1>1, SomeAreFinite

LEMMA AheadGrows ==
    ASSUME TypeOK, Limit, NEW t \in Nat
    PROVE  Ahead(t)' = IF NextSlot > t THEN Ahead(t) \cup {Len(granted) + 1} ELSE Ahead(t)
<1> DEFINE n == Len(granted)
<1>1. /\ granted \in Seq([slot : Nat, at : Nat]) /\ n \in Nat
      /\ granted' = Append(granted, [slot |-> NextSlot, at |-> now])
    BY DEF TypeOK, Limit
<1>2. /\ Len(granted') = n + 1
      /\ \A i \in 1 .. n : granted'[i] = granted[i]
      /\ granted'[n + 1].slot = NextSlot
    BY <1>1
<1>3. 1 .. (n + 1) = (1 .. n) \cup {n + 1}
    BY <1>1
<1>4. Ahead(t)' = {i \in 1 .. (n + 1) : granted'[i].slot > t}
    BY <1>2 DEF Ahead
<1> QED
    BY <1>2, <1>3, <1>4 DEF Ahead

\* One more slot ahead makes room for one more rate.
LEMMA OneMore ==
    ASSUME NEW k \in Nat, NEW a \in Nat, NEW t \in Nat, a <= t + k * Rate
    PROVE  a + Rate <= t + (k + 1) * Rate
<1>1. (k + 1) * Rate = k * Rate + Rate
    BY LimiterAssumption
<1>2. k * Rate \in Nat
    BY LimiterAssumption
<1> QED
    BY <1>1, <1>2, LimiterAssumption

LEMMA CoveredStep == SlotInv /\ Covered /\ [Next]_vars => Covered'
<1> SUFFICES ASSUME SlotInv, Covered, [Next]_vars, NEW t \in Nat, t >= now'
             PROVE  last' <= t + Cardinality(Ahead(t)') * Rate
    BY DEF Covered, Ahead
<1> USE LimiterAssumption
<1>1. TypeOK /\ now \in Nat /\ last \in Nat
    BY DEF SlotInv, TypeOK
<1>2. IsFiniteSet(Ahead(t)) /\ Cardinality(Ahead(t)) \in Nat
    BY <1>1, AheadIsFinite
<1>3. CASE Limit
    <2>1. t >= now /\ last' = NextSlot /\ NextSlot \in Nat
        BY <1>1, <1>3, SlotIsTime DEF Limit
    <2>2. last <= t + Cardinality(Ahead(t)) * Rate
        BY <2>1 DEF Covered
    <2>3. CASE NextSlot > t
        <3>1. NextSlot = last + Rate
            BY <1>1, <2>1, <2>3 DEF NextSlot
        <3>2. Len(granted) \in Nat
            BY <1>1 DEF TypeOK
        <3>3. Len(granted) + 1 \notin Ahead(t)
            BY <3>2 DEF Ahead
        <3>4. Cardinality(Ahead(t)') = Cardinality(Ahead(t)) + 1
            BY <1>1, <1>2, <1>3, <2>3, <3>3, AheadGrows, FS_AddElement
        <3> QED
            BY <1>1, <1>2, <2>1, <2>2, <3>1, <3>4, OneMore
    <2>4. CASE ~(NextSlot > t)
        <3>1. Cardinality(Ahead(t)') = Cardinality(Ahead(t))
            BY <1>1, <1>3, <2>4, AheadGrows
        <3>2. Cardinality(Ahead(t)) * Rate \in Nat
            BY <1>2
        <3> QED
            BY <2>1, <2>4, <3>1, <3>2
    <2> QED
        BY <2>3, <2>4
<1>4. CASE LimitReached \/ Tick \/ UNCHANGED vars
    <2>1. last' = last /\ granted' = granted /\ now' >= now /\ now' \in Nat
        BY <1>1, <1>4 DEF LimitReached, Tick, vars
    <2>2. Ahead(t)' = Ahead(t)
        BY <2>1 DEF Ahead
    <2>3. t >= now
        BY <1>1, <2>1
    <2>4. last <= t + Cardinality(Ahead(t)) * Rate
        BY <2>3 DEF Covered
    <2> QED
        BY <2>1, <2>2, <2>4
<1> QED
    BY <1>3, <1>4 DEF Next

\* A whole number of slots fits into the time that they take.
LEMMA FullHouse ==
    ASSUME NEW k \in Nat, NEW a \in Nat, NEW t \in Nat, NEW next \in Nat,
           a <= t + k * Rate, next = a + Rate, (next - t) \div Rate > Capacity
    PROVE  k >= Capacity
<1> USE LimiterAssumption
<1> DEFINE d == (next - t) \div Rate
<1>1. d \in Int /\ k * Rate \in Nat /\ Rate \in Nat \ {0} /\ Capacity \in Nat
    OBVIOUS
<1>2. d * Rate <= next - t
    OBVIOUS
<1>3. next - t <= k * Rate + Rate
    BY <1>1
<1>4. k * Rate + Rate = (k + 1) * Rate
    OBVIOUS
<1> HIDE DEF d
<1>5. d * Rate <= (k + 1) * Rate
    BY <1>1, <1>2, <1>3, <1>4
<1>6. d <= k + 1
    BY <1>1, <1>5
<1>7. d > Capacity
    BY DEF d
<1> QED
    BY <1>1, <1>6, <1>7

\* The slots that were given by time t and are ahead at it.
GivenBy(t) == {i \in 1 .. Len(granted) : granted[i].at <= t /\ granted[i].slot > t}

LEMMA RefusedStep == RefusedInv /\ [Next]_vars => RefusedInv'
<1> SUFFICES ASSUME RefusedInv, [Next]_vars PROVE RefusedInv'
    OBVIOUS
<1> USE LimiterAssumption
<1>1. SlotInv /\ TypeOK /\ SlotInv' /\ TypeOK' /\ Covered'
    BY SlotStep, CoveredStep DEF RefusedInv, SlotInv
<1>2. \A t \in refused : t \in Nat /\ Cardinality(GivenBy(t)) >= Capacity
    BY <1>1 DEF RefusedInv, RefusedWhenFull, GivenBy, TypeOK
<1>3. SUFFICES ASSUME NEW t \in refused'
               PROVE  Cardinality(GivenBy(t)') >= Capacity
    BY <1>1 DEF RefusedInv, RefusedWhenFull, GivenBy
<1>4. CASE Limit
    <2>1. t \in refused
        BY <1>4 DEF Limit
    <2>2. /\ granted \in Seq([slot : Nat, at : Nat]) /\ Len(granted) \in Nat
          /\ granted' = Append(granted, [slot |-> NextSlot, at |-> now])
        BY <1>1, <1>4 DEF TypeOK, Limit
    <2>3. /\ Len(granted') = Len(granted) + 1
          /\ \A i \in 1 .. Len(granted) : granted'[i] = granted[i]
        BY <2>2
    <2>4. GivenBy(t) \subseteq GivenBy(t)'
        BY <2>2, <2>3 DEF GivenBy
    <2>5. IsFiniteSet(GivenBy(t)') /\ Cardinality(GivenBy(t)') \in Nat
        <3>1. Len(granted') \in Nat /\ GivenBy(t)' \in SUBSET (1 .. Len(granted'))
            BY <2>2, <2>3 DEF GivenBy
        <3> QED
            BY <3>1, SomeAreFinite
    <2>6. Cardinality(GivenBy(t)) \in Nat
        <3>1. GivenBy(t) \in SUBSET (1 .. Len(granted))
            BY DEF GivenBy
        <3> QED
            BY <2>2, <3>1, SomeAreFinite
    <2>7. Cardinality(GivenBy(t)) <= Cardinality(GivenBy(t)')
        BY <2>4, <2>5, FS_Subset
    <2> QED
        BY <1>2, <2>1, <2>5, <2>6, <2>7
<1>5. CASE LimitReached
    <2>1. GivenBy(t)' = GivenBy(t)
        BY <1>5 DEF LimitReached, GivenBy
    <2>2. CASE t \in refused
        BY <1>2, <2>1, <2>2
    <2>3. CASE t = now
        <3>1. now \in Nat /\ last \in Nat /\ expires \in Nat
            BY <1>1 DEF TypeOK
        <3>2. GivenBy(now) = Ahead(now)
            BY <1>1 DEF SlotInv, Past, GivenBy, Ahead
        <3>3. Cardinality(Ahead(now)) \in Nat
            BY <1>1, <3>1, AheadIsFinite
        <3>4. last <= now + Cardinality(Ahead(now)) * Rate
            BY <3>1 DEF RefusedInv, Covered
        <3>5. NextSlot # now
            <4>1. (now - now) \div Rate = 0
                BY <3>1
            <4> QED
                BY <1>5, <4>1 DEF LimitReached, TooLong
        <3>6. NextSlot = last + Rate
            BY <3>5 DEF NextSlot
        <3>7. (NextSlot - now) \div Rate > Capacity
            BY <1>5 DEF LimitReached, TooLong
        <3>8. Cardinality(Ahead(now)) >= Capacity
            BY <1>1, <3>1, <3>3, <3>4, <3>6, <3>7, SlotIsTime, FullHouse
        <3> QED
            BY <2>1, <2>3, <3>2, <3>8
    <2> QED
        BY <1>5, <2>2, <2>3 DEF LimitReached
<1>6. CASE Tick \/ UNCHANGED vars
    <2>1. t \in refused /\ GivenBy(t)' = GivenBy(t)
        BY <1>6 DEF Tick, vars, GivenBy
    <2> QED
        BY <1>2, <2>1
<1> QED
    BY <1>4, <1>5, <1>6 DEF Next

LEMMA RefusedStart == Init => RefusedInv
<1> SUFFICES ASSUME Init PROVE RefusedInv
    OBVIOUS
<1>1. SlotInv /\ TypeOK
    BY SlotStart, TypeStart
<1>2. RefusedWhenFull
    BY DEF Init, RefusedWhenFull
<1>3. Covered
    <2> SUFFICES ASSUME NEW t \in Nat PROVE 0 <= t + Cardinality(Ahead(t)) * Rate
        BY DEF Init, Covered
    <2>1. Cardinality(Ahead(t)) \in Nat
        BY <1>1, AheadIsFinite
    <2> QED
        BY <2>1, LimiterAssumption
<1> QED
    BY <1>1, <1>2, <1>3 DEF RefusedInv

\* A request is refused only while the whole bucket is ahead of it, also when
\* the bucket was forgotten and begun again in between.
THEOREM RefusalsAreEarned == Spec => []RefusedWhenFull
<1>1. RefusedInv => RefusedWhenFull
    BY DEF RefusedInv
<1> QED
    BY <1>1, RefusedStart, RefusedStep, PTL DEF Spec
=============================================================================
