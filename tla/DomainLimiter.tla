---------------------------- MODULE DomainLimiter ----------------------------
(***************************************************************************)
(* redisleaky.Limiter.Limit (internal/limiter): how long a worker must     *)
(* wait before its next request to a domain.                               *)
(*                                                                         *)
(* All workers share one leaky bucket per domain.  Its state, the last     *)
(* slot given away, is kept in Redis and forgotten capacity * rate after   *)
(* it was last written.  A call reads and writes it under a Redis lock, so *)
(* a call is one step here; calls of different workers, and time, come in  *)
(* between in any order.  One domain is modelled: each has its own bucket. *)
(***************************************************************************)
EXTENDS Integers, Sequences, FiniteSets

CONSTANTS
    Rate,     \* units of time between two slots
    Capacity, \* slots that may be waited for
    MaxTime,  \* bound on the clock
    MaxCalls  \* bound on the number of calls

ASSUME LimiterAssumption ==
    /\ Rate \in Nat \ {0}
    /\ Capacity \in Nat \ {0}
    /\ MaxTime \in Nat
    /\ MaxCalls \in Nat

VARIABLES
    last,    \* Redis: the last slot given away
    expires, \* Redis: when it is forgotten
    now,     \* the clock
    calls,   \* calls so far
    granted, \* history: the slots given away, and when
    refused  \* history: for each refused call, when it was refused

vars == <<last, expires, now, calls, granted, refused>>

TypeOK ==
    /\ last \in Nat
    /\ expires \in Nat
    /\ now \in Nat
    /\ calls \in 0..MaxCalls
    /\ granted \in Seq([slot : Nat, at : Nat])
    /\ refused \subseteq Nat

Init ==
    /\ last = 0
    /\ expires = 0
    /\ now = 0
    /\ calls = 0
    /\ granted = <<>>
    /\ refused = {}

\* Mutant of Ttl: the state is kept for one slot.
TtlOfOneSlot == Rate

\* How long the state is kept.
Ttl == Capacity * Rate

\* Behind the last slot if that is still to come, else at once, or as soon as
\* a slot's distance from the last one is over.  Without a state, at once.
NextSlot ==
    IF now >= expires \/ now - last >= Rate THEN now ELSE last + Rate

\* Mutant of TooLong: one slot too few.
TooLongEarly(slot) == (slot - now) \div Rate >= Capacity

TooLong(slot) == (slot - now) \div Rate > Capacity

Limit ==
    /\ calls < MaxCalls
    /\ calls' = calls + 1
    /\ ~TooLong(NextSlot)
    /\ last' = NextSlot
    /\ expires' = now + Ttl
    /\ granted' = Append(granted, [slot |-> NextSlot, at |-> now])
    /\ UNCHANGED <<now, refused>>

\* ErrLimitReached; nothing is recorded.
LimitReached ==
    /\ calls < MaxCalls
    /\ calls' = calls + 1
    /\ TooLong(NextSlot)
    /\ refused' = refused \cup {now}
    /\ UNCHANGED <<last, expires, now, granted>>

Tick ==
    /\ now < MaxTime
    /\ now' = now + 1
    /\ UNCHANGED <<last, expires, calls, granted, refused>>

Next == Limit \/ LimitReached \/ Tick

Spec == Init /\ [][Next]_vars

-----------------------------------------------------------------------------
(* Properties *)

\* Slots given away one after the other are Rate apart, unless so much time
\* passed between the two calls that the first one was forgotten.
SpacedWhileKept ==
    \A i \in 2..Len(granted) :
       \/ granted[i].slot >= granted[i - 1].slot + Rate
       \/ granted[i].at >= granted[i - 1].at + Capacity * Rate

\* A call is refused only while at least Capacity slots given away before are
\* still ahead of it.
RefusedWhenFull ==
    \A t \in refused :
       Cardinality({i \in 1..Len(granted) :
                      granted[i].at <= t /\ granted[i].slot > t}) >= Capacity

\* "Request to domain limited to 1 per PerDomainRateLimitEvery seconds"
\* (config.go:32).
OnePerRate ==
    \A i \in 2..Len(granted) :
       granted[i].slot >= granted[i - 1].slot + Rate
=============================================================================
