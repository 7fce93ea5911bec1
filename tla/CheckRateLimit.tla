---------------------------- MODULE CheckRateLimit ----------------------------
(***************************************************************************)
(* Handler.checkRateLimit (internal/api/http): a token bucket for every    *)
(* client address, kept in a map behind a read-write lock and made when an *)
(* address is first seen.                                                  *)
(*                                                                         *)
(* The calls run concurrently.  The map is looked up under the read lock;  *)
(* on a miss it is looked up again under the write lock before a limiter   *)
(* is made.  A limiter (rate.Limiter) is named by the call that made it.   *)
(* Its tokens are counted in fractions: one token is Every fractions, and  *)
(* a bucket gains one fraction per unit of time, until it is full.         *)
(***************************************************************************)
EXTENDS Integers, FiniteSets

CONSTANTS
    Call,    \* calls of checkRateLimit
    Ip,      \* client addresses
    IpOf,    \* the address each call comes from
    NoCall,  \* a map entry that is absent, a lock that is free
    Every,   \* units of time that make a token
    Burst,   \* tokens in a full bucket
    MaxTime  \* bound on the clock

ASSUME RateAssumption ==
    /\ IpOf \in [Call -> Ip]
    /\ NoCall \notin Call
    /\ Every \in Nat \ {0}
    /\ Burst \in Nat
    /\ MaxTime \in Nat

VARIABLES
    pc,       \* where each call is
    readers,  \* holders of the read lock
    writer,   \* holder of the write lock
    limits,   \* the map: the limiter of each address
    lim,      \* the local variable limiter of each call
    credit,   \* fractions of tokens in each limiter
    now,      \* the clock
    admitted, \* history: calls of each address that were allowed
    refused   \* history: calls of each address that were not

lockVars == <<readers, writer>>
vars == <<pc, lockVars, limits, lim, credit, now, admitted, refused>>

Full == Burst * Every

TypeOK ==
    /\ pc \in [Call -> {"start", "read", "miss", "write", "allow", "done"}]
    /\ readers \subseteq Call
    /\ writer \in Call \cup {NoCall}
    /\ limits \in [Ip -> Call \cup {NoCall}]
    /\ lim \in [Call -> Call \cup {NoCall}]
    /\ credit \in [Call -> 0..Full]
    /\ now \in Nat
    /\ admitted \in [Ip -> Nat]
    /\ refused \in [Ip -> Nat]

Init ==
    /\ pc = [c \in Call |-> "start"]
    /\ readers = {}
    /\ writer = NoCall
    /\ limits = [i \in Ip |-> NoCall]
    /\ lim = [c \in Call |-> NoCall]
    /\ credit = [c \in Call |-> Full]
    /\ now = 0
    /\ admitted = [i \in Ip |-> 0]
    /\ refused = [i \in Ip |-> 0]

RLock(c) ==
    /\ pc[c] = "start"
    /\ writer = NoCall
    /\ readers' = readers \cup {c}
    /\ pc' = [pc EXCEPT ![c] = "read"]
    /\ UNCHANGED <<writer, limits, lim, credit, now, admitted, refused>>

\* The lookup under the read lock, and RUnlock.
Lookup(c) ==
    /\ pc[c] = "read"
    /\ readers' = readers \ {c}
    /\ lim' = [lim EXCEPT ![c] = limits[IpOf[c]]]
    /\ pc' = [pc EXCEPT ![c] = IF limits[IpOf[c]] = NoCall
                               THEN "miss" ELSE "allow"]
    /\ UNCHANGED <<writer, limits, credit, now, admitted, refused>>

\* Mutant of Lock: a read lock is not waited for.
LockAmongReaders(c) ==
    /\ pc[c] = "miss"
    /\ writer = NoCall
    /\ writer' = c
    /\ pc' = [pc EXCEPT ![c] = "write"]
    /\ UNCHANGED <<readers, limits, lim, credit, now, admitted, refused>>

Lock(c) ==
    /\ pc[c] = "miss"
    /\ writer = NoCall /\ readers = {}
    /\ writer' = c
    /\ pc' = [pc EXCEPT ![c] = "write"]
    /\ UNCHANGED <<readers, limits, lim, credit, now, admitted, refused>>

\* Mutant of Create: no second lookup.
CreateUnchecked(c) ==
    /\ pc[c] = "write"
    /\ lim' = [lim EXCEPT ![c] = c]
    /\ limits' = [limits EXCEPT ![IpOf[c]] = c]
    /\ credit' = [credit EXCEPT ![c] = Full]
    /\ writer' = NoCall
    /\ pc' = [pc EXCEPT ![c] = "allow"]
    /\ UNCHANGED <<readers, now, admitted, refused>>

\* Mutant of Create: no Unlock where the second lookup finds a limiter.
CreateKeepsLock(c) ==
    /\ pc[c] = "write"
    /\ IF limits[IpOf[c]] = NoCall
       THEN /\ lim' = [lim EXCEPT ![c] = c]
            /\ limits' = [limits EXCEPT ![IpOf[c]] = c]
            /\ credit' = [credit EXCEPT ![c] = Full]
            /\ writer' = NoCall
       ELSE /\ lim' = [lim EXCEPT ![c] = limits[IpOf[c]]]
            /\ UNCHANGED <<limits, credit, writer>>
    /\ pc' = [pc EXCEPT ![c] = "allow"]
    /\ UNCHANGED <<readers, now, admitted, refused>>

\* The second lookup, a full limiter if there is still none, and Unlock.
Create(c) ==
    /\ pc[c] = "write"
    /\ IF limits[IpOf[c]] = NoCall
       THEN /\ lim' = [lim EXCEPT ![c] = c]
            /\ limits' = [limits EXCEPT ![IpOf[c]] = c]
            /\ credit' = [credit EXCEPT ![c] = Full]
       ELSE /\ lim' = [lim EXCEPT ![c] = limits[IpOf[c]]]
            /\ UNCHANGED <<limits, credit>>
    /\ writer' = NoCall
    /\ pc' = [pc EXCEPT ![c] = "allow"]
    /\ UNCHANGED <<readers, now, admitted, refused>>

\* Mutant of HasToken: a part of one is enough.
HasPartOfToken(c) == credit[lim[c]] > 0

HasToken(c) == credit[lim[c]] >= Every

\* limiter.Allow, outside the lock: atomic, under the limiter's own mutex.
Allow(c) ==
    /\ pc[c] = "allow"
    /\ IF HasToken(c)
       THEN /\ credit' = [credit EXCEPT ![lim[c]] = @ - Every]
            /\ admitted' = [admitted EXCEPT ![IpOf[c]] = @ + 1]
            /\ UNCHANGED refused
       ELSE /\ refused' = [refused EXCEPT ![IpOf[c]] = @ + 1]
            /\ UNCHANGED <<credit, admitted>>
    /\ pc' = [pc EXCEPT ![c] = "done"]
    /\ UNCHANGED <<lockVars, limits, lim, now>>

Tick ==
    /\ now < MaxTime
    /\ now' = now + 1
    /\ credit' = [c \in Call |-> IF credit[c] < Full THEN credit[c] + 1 ELSE Full]
    /\ UNCHANGED <<pc, lockVars, limits, lim, admitted, refused>>

CheckRateLimit(c) == RLock(c) \/ Lookup(c) \/ Lock(c) \/ Create(c) \/ Allow(c)

Next == Tick \/ \E c \in Call : CheckRateLimit(c)

Spec == Init /\ [][Next]_vars

\* The scheduler runs every call, and Go's RWMutex starves nobody.
Fairness == \A c \in Call : WF_vars(CheckRateLimit(c)) /\ SF_vars(RLock(c) \/ Lock(c))

FairSpec == Spec /\ Fairness

-----------------------------------------------------------------------------
(* Properties *)

\* However many calls of an address race to make its limiter, the address is
\* let through no more than its burst and a token per Every since the start.
RateIsBounded ==
    \A i \in Ip : admitted[i] * Every <= Full + now

\* An address is refused only after it has spent a burst of its own: what
\* other addresses ask for never counts against it.
RefusedAfterBurst ==
    \A i \in Ip : refused[i] > 0 => admitted[i] >= Burst

\* The map is written by one call at a time, and read by none meanwhile.
MapIsNotRaced ==
    \A c, d \in Call :
       c # d /\ pc[c] = "write" => pc[d] \notin {"read", "write"}

\* The calls of an address see one bucket, whichever of them made it, and
\* whether it is in the map yet or not.
TB == INSTANCE TokenBucket WITH
        bucket <- [i \in Ip |-> IF limits[i] = NoCall THEN Full
                                ELSE credit[limits[i]]],
        taken <- admitted,
        denied <- refused

RefinesTokenBucket == TB!Spec

\* Every call comes to a verdict: no call waits for a lock for ever.
EveryCallDecides == \A c \in Call : <>(pc[c] = "done")
=============================================================================
