----------------------------- MODULE TokenBucket -----------------------------
(***************************************************************************)
(* What checkRateLimit promises (config.go: TaskRateLimitEvery and         *)
(* TaskRateLimitBurst): every client address has a bucket of Burst tokens  *)
(* that gains one every Every units of time, and a call that finds a token *)
(* takes it.  Buckets are filled and emptied in fractions, Every to one    *)
(* token.  How buckets are found and shared by calls is not visible here.  *)
(***************************************************************************)
EXTENDS Naturals

CONSTANTS
    Ip,     \* client addresses
    Every,  \* units of time that make a token
    Burst,  \* tokens in a full bucket
    MaxTime \* bound on the clock

VARIABLES
    bucket, \* fractions of tokens in the bucket of each address
    now,    \* the clock
    taken,  \* calls of each address that were let through
    denied  \* calls of each address that were not

vars == <<bucket, now, taken, denied>>

Full == Burst * Every

Init ==
    /\ bucket = [i \in Ip |-> Full]
    /\ now = 0
    /\ taken = [i \in Ip |-> 0]
    /\ denied = [i \in Ip |-> 0]

Take(i) ==
    /\ bucket[i] >= Every
    /\ bucket' = [bucket EXCEPT ![i] = @ - Every]
    /\ taken' = [taken EXCEPT ![i] = @ + 1]
    /\ UNCHANGED <<now, denied>>

Deny(i) ==
    /\ bucket[i] < Every
    /\ denied' = [denied EXCEPT ![i] = @ + 1]
    /\ UNCHANGED <<bucket, now, taken>>

Tick ==
    /\ now < MaxTime
    /\ now' = now + 1
    /\ bucket' = [i \in Ip |-> IF bucket[i] < Full THEN bucket[i] + 1 ELSE Full]
    /\ UNCHANGED <<taken, denied>>

Next == Tick \/ \E i \in Ip : Take(i) \/ Deny(i)

Spec == Init /\ [][Next]_vars
=============================================================================
