------------------------------ MODULE WorkQueue ------------------------------
(***************************************************************************)
(* What handler.Handler relies on when it calls WorkQueue.Enqueue          *)
(* (internal/adapters): the call returns either an error or a value stored *)
(* under the task's key after the call began.  The streams, watchers and   *)
(* workers that do it are not visible here.                                *)
(***************************************************************************)
EXTENDS Naturals

CONSTANTS
    Req,   \* calls of Enqueue
    Key,   \* cache keys
    KeyOf  \* the key of each call's task

VARIABLES
    status,  \* of each call: idle, waiting or done
    version, \* number of values stored under each key so far
    base,    \* version of its key when a call began
    answer   \* version a call returned; 0 is none, or an error

vars == <<status, version, base, answer>>

Init ==
    /\ status = [r \in Req |-> "idle"]
    /\ version = [k \in Key |-> 0]
    /\ base = [r \in Req |-> 0]
    /\ answer = [r \in Req |-> 0]

Call(r) ==
    /\ status[r] = "idle"
    /\ status' = [status EXCEPT ![r] = "waiting"]
    /\ base' = [base EXCEPT ![r] = version[KeyOf[r]]]
    /\ UNCHANGED <<version, answer>>

\* Somebody's task for the key has a result.
NewResult(k) ==
    /\ version' = [version EXCEPT ![k] = @ + 1]
    /\ UNCHANGED <<status, base, answer>>

Return(r) ==
    /\ status[r] = "waiting"
    /\ \E v \in (base[r] + 1)..version[KeyOf[r]] :
         answer' = [answer EXCEPT ![r] = v]
    /\ status' = [status EXCEPT ![r] = "done"]
    /\ UNCHANGED <<version, base>>

\* Calls fail, several at once when their webserver dies.
Fail(F) ==
    /\ F # {}
    /\ \A r \in F : status[r] = "waiting"
    /\ status' = [r \in Req |-> IF r \in F THEN "done" ELSE status[r]]
    /\ UNCHANGED <<version, base, answer>>

Next ==
    \/ \E r \in Req : Call(r) \/ Return(r)
    \/ \E k \in Key : NewResult(k)
    \/ \E F \in SUBSET Req : Fail(F)

Spec == Init /\ [][Next]_vars
=============================================================================
