----------------------------- MODULE NatsAdapter -----------------------------
(***************************************************************************)
(* internal/adapters/natsadapter: how a webserver hands a render task to   *)
(* the workers and how the result comes back.                              *)
(*                                                                         *)
(* A request (one call of Enqueue) marks its key as running on its         *)
(* webserver, watches the key in the result cache (a NATS key-value        *)
(* bucket), skips what the watch replays, publishes the task to a work     *)
(* queue stream unless the key was already marked, and returns the next    *)
(* value the watch delivers.  A worker (ConsumeQueue) takes messages from  *)
(* the stream, runs the task, acknowledges the message and only then puts  *)
(* the result into the bucket.                                             *)
(*                                                                         *)
(* A task is named by the request that published it: a request publishes   *)
(* at most once.  A result is named by the revision of its key, so 0 is    *)
(* "no value"; what is in the page is not modelled.                        *)
(***************************************************************************)
EXTENDS Naturals, Sequences

CONSTANTS
    Req,          \* calls of Enqueue
    Server,       \* webserver processes
    Key,          \* cache keys
    Worker,       \* worker processes
    NoTask,       \* a worker that holds no message
    SrvOf,        \* the webserver that serves a request
    KeyOf,        \* the cache key of a request's task
    Faults,       \* what may go wrong in this instance
    Prefetch,     \* bound on the messages a worker's client buffers
    MaxRedeliver  \* bound on how often one message is delivered again

FaultKind == {"watch", "publish", "timeout", "server", "redeliver",
              "task", "panic", "ack", "put", "worker"}

ASSUME ConstantsAssumption ==
    /\ NoTask \notin Req
    /\ SrvOf \in [Req -> Server]
    /\ KeyOf \in [Req -> Key]
    /\ Faults \subseteq FaultKind
    /\ Prefetch \in Nat \ {0}
    /\ MaxRedeliver \in Nat

VARIABLES
    \* the webservers
    pc,          \* where each request is in Enqueue
    running,     \* per webserver: the keys marked as running
    joined,      \* alreadyRunning of each request
    enqueued,    \* taskEnqueued of each request
    chan,        \* what each request's watcher still has to deliver
    ans,         \* the revision a request returns; 0 is none, or an error
    \* NATS: the result bucket and the task stream
    kv,          \* revision of the value stored under each key
    stream,      \* the tasks whose message is in the stream
    avail,       \* those that may be delivered now
    redelivered, \* how often each message was made available again
    \* the workers
    wpc,         \* where each worker is in the consumer callback
    cur,         \* the task its callback is working on
    inbox,       \* messages delivered to it, callback not started
    \* history, for the properties only
    since,       \* revision of a request's key when it entered Enqueue
    sent,        \* the tasks whose message ever reached the stream
    ran,         \* the tasks taskFunc has ended for, at least once
    stored       \* the last revision a task's result was stored as

webVars    == <<pc, running, joined, enqueued, chan, ans>>
streamVars == <<stream, avail, redelivered>>
workerVars == <<wpc, cur, inbox>>
taskVars   == <<sent, ran, stored>>
vars == <<webVars, kv, streamVars, workerVars, since, taskVars>>

Nil == 0  \* the nil update: the watch has replayed what was stored

\* Requests whose watcher is open: between Watch and the deferred Stop.
Watching(r) == pc[r] \in {"select", "publish"}

TypeOK ==
    /\ pc \in [Req -> {"idle", "watch", "select", "publish", "leave", "done"}]
    /\ running \in [Server -> SUBSET Key]
    /\ joined \in [Req -> BOOLEAN]
    /\ enqueued \in [Req -> BOOLEAN]
    /\ chan \in [Req -> Seq(Nat)]
    /\ ans \in [Req -> Nat]
    /\ kv \in [Key -> Nat]
    /\ stream \subseteq Req
    /\ avail \subseteq stream
    /\ redelivered \in [Req -> 0..MaxRedeliver]
    /\ wpc \in [Worker -> {"idle", "run", "ackOk", "ackErr", "put", "down"}]
    /\ cur \in [Worker -> Req \cup {NoTask}]
    /\ \A w \in Worker : cur[w] = NoTask <=> wpc[w] \in {"idle", "down"}
    /\ inbox \in [Worker -> Seq(Req)]
    /\ \A w \in Worker : Len(inbox[w]) <= Prefetch
    /\ since \in [Req -> Nat]
    /\ sent \subseteq Req
    /\ ran \subseteq Req
    /\ stored \in [Req -> Nat]

Init ==
    /\ pc = [r \in Req |-> "idle"]
    /\ running = [s \in Server |-> {}]
    /\ joined = [r \in Req |-> FALSE]
    /\ enqueued = [r \in Req |-> FALSE]
    /\ chan = [r \in Req |-> <<>>]
    /\ ans = [r \in Req |-> 0]
    /\ kv = [k \in Key |-> 0]
    /\ stream = {}
    /\ avail = {}
    /\ redelivered = [r \in Req |-> 0]
    /\ wpc = [w \in Worker |-> "idle"]
    /\ cur = [w \in Worker |-> NoTask]
    /\ inbox = [w \in Worker |-> <<>>]
    /\ since = [r \in Req |-> 0]
    /\ sent = {}
    /\ ran = {}
    /\ stored = [r \in Req |-> 0]

-----------------------------------------------------------------------------
(* Enqueue *)

\* The first critical section: is the key marked already?  Mark it anyway.
Enter(r) ==
    /\ pc[r] = "idle"
    /\ pc' = [pc EXCEPT ![r] = "watch"]
    /\ joined' = [joined EXCEPT ![r] = KeyOf[r] \in running[SrvOf[r]]]
    /\ running' = [running EXCEPT ![SrvOf[r]] = @ \cup {KeyOf[r]}]
    /\ since' = [since EXCEPT ![r] = kv[KeyOf[r]]]
    /\ UNCHANGED <<enqueued, chan, ans, kv, streamVars, workerVars, taskVars>>

\* kv.Watch succeeds: the watcher replays the stored value, then a nil.
Watch(r) ==
    /\ pc[r] = "watch"
    /\ pc' = [pc EXCEPT ![r] = "select"]
    /\ chan' = [chan EXCEPT ![r] = IF kv[KeyOf[r]] = 0
                                   THEN <<Nil>>
                                   ELSE <<kv[KeyOf[r]], Nil>>]
    /\ UNCHANGED <<running, joined, enqueued, ans, kv, streamVars, workerVars,
                   since, taskVars>>

WatchFail(r) ==
    /\ "watch" \in Faults
    /\ pc[r] = "watch"
    /\ pc' = [pc EXCEPT ![r] = "leave"]
    /\ UNCHANGED <<running, joined, enqueued, chan, ans, kv, streamVars,
                   workerVars, since, taskVars>>

\* select takes an update that is a value, before the nil: an old value.
SkipOld(r) ==
    /\ pc[r] = "select" /\ chan[r] # <<>>
    /\ Head(chan[r]) # Nil
    /\ ~enqueued[r]
    /\ chan' = [chan EXCEPT ![r] = Tail(@)]
    /\ UNCHANGED <<pc, running, joined, enqueued, ans, kv, streamVars,
                   workerVars, since, taskVars>>

\* Mutant of TakeNil: only a call that joins remembers that the nil came.
TakeNilForgets(r) ==
    /\ pc[r] = "select" /\ chan[r] # <<>>
    /\ Head(chan[r]) = Nil
    /\ chan' = [chan EXCEPT ![r] = Tail(@)]
    /\ enqueued' = [enqueued EXCEPT ![r] = joined[r]]
    /\ pc' = [pc EXCEPT ![r] = IF joined[r] THEN "select" ELSE "publish"]
    /\ UNCHANGED <<running, joined, ans, kv, streamVars, workerVars,
                   since, taskVars>>

\* select takes the nil: go on to publish, unless the key was marked.
TakeNil(r) ==
    /\ pc[r] = "select" /\ chan[r] # <<>>
    /\ Head(chan[r]) = Nil
    /\ chan' = [chan EXCEPT ![r] = Tail(@)]
    /\ enqueued' = [enqueued EXCEPT ![r] = TRUE]
    /\ pc' = [pc EXCEPT ![r] = IF joined[r] THEN "select" ELSE "publish"]
    /\ UNCHANGED <<running, joined, ans, kv, streamVars, workerVars,
                   since, taskVars>>

\* Mutant of TakeResult: the replayed value is returned too.
TakeAnyValue(r) ==
    /\ pc[r] = "select" /\ chan[r] # <<>>
    /\ Head(chan[r]) # Nil
    /\ chan' = [chan EXCEPT ![r] = Tail(@)]
    /\ ans' = [ans EXCEPT ![r] = Head(chan[r])]
    /\ pc' = [pc EXCEPT ![r] = "leave"]
    /\ UNCHANGED <<running, joined, enqueued, kv, streamVars, workerVars,
                   since, taskVars>>

\* select takes an update that is a value, after the nil: the result.
TakeResult(r) ==
    /\ pc[r] = "select" /\ chan[r] # <<>>
    /\ Head(chan[r]) # Nil
    /\ enqueued[r]
    /\ chan' = [chan EXCEPT ![r] = Tail(@)]
    /\ ans' = [ans EXCEPT ![r] = Head(chan[r])]
    /\ pc' = [pc EXCEPT ![r] = "leave"]
    /\ UNCHANGED <<running, joined, enqueued, kv, streamVars, workerVars,
                   since, taskVars>>

\* Mutant of CtxDone: a call that joined waits without its context.
CtxDoneOfPublisher(r) ==
    /\ "timeout" \in Faults
    /\ pc[r] = "select" /\ ~joined[r]
    /\ pc' = [pc EXCEPT ![r] = "leave"]
    /\ UNCHANGED <<running, joined, enqueued, chan, ans, kv, streamVars,
                   workerVars, since, taskVars>>

\* select takes ctx.Done: the request's minute is over.
CtxDone(r) ==
    /\ "timeout" \in Faults
    /\ pc[r] = "select"
    /\ pc' = [pc EXCEPT ![r] = "leave"]
    /\ UNCHANGED <<running, joined, enqueued, chan, ans, kv, streamVars,
                   workerVars, since, taskVars>>

AddToStream(r) ==
    /\ stream' = stream \cup {r}
    /\ avail' = avail \cup {r}
    /\ sent' = sent \cup {r}

Publish(r) ==
    /\ pc[r] = "publish"
    /\ AddToStream(r)
    /\ pc' = [pc EXCEPT ![r] = "select"]
    /\ UNCHANGED <<running, joined, enqueued, chan, ans, kv, redelivered,
                   workerVars, since, ran, stored>>

\* Publish returns an error: the message was not stored, or it was and the
\* server's acknowledgement did not arrive.
PublishFail(r) ==
    /\ "publish" \in Faults
    /\ pc[r] = "publish"
    /\ AddToStream(r) \/ UNCHANGED <<stream, avail, sent>>
    /\ pc' = [pc EXCEPT ![r] = "leave"]
    /\ UNCHANGED <<running, joined, enqueued, chan, ans, kv, redelivered,
                   workerVars, since, ran, stored>>

\* Mutant of Leave: a call that fails does not remove the mark.
LeaveMarkOnError(r) ==
    /\ pc[r] = "leave"
    /\ pc' = [pc EXCEPT ![r] = "done"]
    /\ chan' = [chan EXCEPT ![r] = <<>>]
    /\ joined' = [joined EXCEPT ![r] = FALSE]
    /\ enqueued' = [enqueued EXCEPT ![r] = FALSE]
    /\ running' = IF ans[r] = 0 THEN running
                  ELSE [running EXCEPT ![SrvOf[r]] = @ \ {KeyOf[r]}]
    /\ UNCHANGED <<ans, kv, streamVars, workerVars,
                   since, taskVars>>

\* The deferred calls: stop the watcher, remove the mark; Enqueue returns and
\* its local variables are gone.
Leave(r) ==
    /\ pc[r] = "leave"
    /\ pc' = [pc EXCEPT ![r] = "done"]
    /\ chan' = [chan EXCEPT ![r] = <<>>]
    /\ joined' = [joined EXCEPT ![r] = FALSE]
    /\ enqueued' = [enqueued EXCEPT ![r] = FALSE]
    /\ running' = [running EXCEPT ![SrvOf[r]] = @ \ {KeyOf[r]}]
    /\ UNCHANGED <<ans, kv, streamVars, workerVars,
                   since, taskVars>>

\* A webserver dies and is started again: its requests fail, and the marks,
\* kept in memory, are gone.  What it published stays in the stream.
ServerCrash(s) ==
    LET lost == {r \in Req : SrvOf[r] = s /\ pc[r] \notin {"idle", "done"}}
    IN  /\ "server" \in Faults
        /\ lost # {}
        /\ pc' = [r \in Req |-> IF r \in lost THEN "done" ELSE pc[r]]
        /\ ans' = [r \in Req |-> IF r \in lost THEN 0 ELSE ans[r]]
        /\ chan' = [r \in Req |-> IF r \in lost THEN <<>> ELSE chan[r]]
        /\ joined' = [r \in Req |-> joined[r] /\ r \notin lost]
        /\ enqueued' = [r \in Req |-> enqueued[r] /\ r \notin lost]
        /\ running' = [running EXCEPT ![s] = {}]
        /\ UNCHANGED <<kv, streamVars, workerVars,
                       since, taskVars>>

-----------------------------------------------------------------------------
(* The stream, and ConsumeQueue *)

\* Mutant of Deliver: a consumer without explicit acknowledgement.
DeliverAcked(w, t) ==
    /\ wpc[w] # "down"
    /\ t \in avail
    /\ Len(inbox[w]) < Prefetch
    /\ avail' = avail \ {t}
    /\ stream' = stream \ {t}
    /\ inbox' = [inbox EXCEPT ![w] = Append(@, t)]
    /\ UNCHANGED <<webVars, kv, redelivered, wpc, cur, since, taskVars>>

\* The consumer's client fetches a message into its local buffer.
Deliver(w, t) ==
    /\ wpc[w] # "down"
    /\ t \in avail
    /\ Len(inbox[w]) < Prefetch
    /\ avail' = avail \ {t}
    /\ inbox' = [inbox EXCEPT ![w] = Append(@, t)]
    /\ UNCHANGED <<webVars, kv, stream, redelivered, wpc, cur, since,
                   taskVars>>

\* No acknowledgement within the consumer's default AckWait, whether the
\* message waits in a buffer, is being worked on, or its worker is dead.
AckWaitOver(t) ==
    /\ "redeliver" \in Faults
    /\ t \in stream \ avail
    /\ redelivered[t] < MaxRedeliver
    /\ redelivered' = [redelivered EXCEPT ![t] = @ + 1]
    /\ avail' = avail \cup {t}
    /\ UNCHANGED <<webVars, kv, stream, workerVars, since, taskVars>>

\* The callback starts: callbacks of one worker run one after the other.
Start(w) ==
    /\ wpc[w] = "idle"
    /\ inbox[w] # <<>>
    /\ wpc' = [wpc EXCEPT ![w] = "run"]
    /\ cur' = [cur EXCEPT ![w] = Head(inbox[w])]
    /\ inbox' = [inbox EXCEPT ![w] = Tail(@)]
    /\ UNCHANGED <<webVars, kv, streamVars, since, taskVars>>

\* taskFunc returns, with a result or with an error.
TaskReturns(w) ==
    /\ wpc[w] = "run"
    /\ \/ wpc' = [wpc EXCEPT ![w] = "ackOk"]
       \/ "task" \in Faults /\ wpc' = [wpc EXCEPT ![w] = "ackErr"]
    /\ ran' = ran \cup {cur[w]}
    /\ UNCHANGED <<webVars, kv, streamVars, cur, inbox, since, sent,
                   stored>>

\* An acknowledgement, or a Term, that NATS may or may not have got.
Remove(t, lossy) ==
    \/ stream' = stream \ {t} /\ avail' = avail \ {t}
    \/ lossy /\ UNCHANGED <<stream, avail>>

\* Mutant of TaskPanics: the callback recovers and keeps its task.
PanicKeepsTask(w) ==
    /\ "panic" \in Faults
    /\ wpc[w] = "run"
    /\ Remove(cur[w], "ack" \in Faults)
    /\ ran' = ran \cup {cur[w]}
    /\ wpc' = [wpc EXCEPT ![w] = "idle"]
    /\ UNCHANGED <<webVars, kv, redelivered, cur, inbox, since, sent, stored>>

\* taskFunc panics: the callback recovers and terminates the message.
TaskPanics(w) ==
    /\ "panic" \in Faults
    /\ wpc[w] = "run"
    /\ Remove(cur[w], "ack" \in Faults)
    /\ ran' = ran \cup {cur[w]}
    /\ wpc' = [wpc EXCEPT ![w] = "idle"]
    /\ cur' = [cur EXCEPT ![w] = NoTask]
    /\ UNCHANGED <<webVars, kv, redelivered, inbox, since, sent, stored>>

\* Mutant of DoubleAck: the check of the task's error is inverted.
AckInverted(w) ==
    /\ wpc[w] \in {"ackOk", "ackErr"}
    /\ Remove(cur[w], "ack" \in Faults)
    /\ IF wpc[w] = "ackErr"
       THEN /\ wpc' = [wpc EXCEPT ![w] = "put"]
            /\ UNCHANGED cur
       ELSE /\ wpc' = [wpc EXCEPT ![w] = "idle"]
            /\ cur' = [cur EXCEPT ![w] = NoTask]
    /\ UNCHANGED <<webVars, kv, redelivered, inbox, since, taskVars>>

\* DoubleAck: its error is only logged.  A failed task ends here.
DoubleAck(w) ==
    /\ wpc[w] \in {"ackOk", "ackErr"}
    /\ Remove(cur[w], "ack" \in Faults)
    /\ IF wpc[w] = "ackOk"
       THEN /\ wpc' = [wpc EXCEPT ![w] = "put"]
            /\ UNCHANGED cur
       ELSE /\ wpc' = [wpc EXCEPT ![w] = "idle"]
            /\ cur' = [cur EXCEPT ![w] = NoTask]
    /\ UNCHANGED <<webVars, kv, redelivered, inbox, since, taskVars>>

\* Watchers that have not been given the stored value and the nil yet.
Replaying(r) == pc[r] = "select" /\ Len(chan[r]) = 2 /\ chan[r][2] = Nil

\* kv.Put of the result.  A watcher of the key delivers it after everything
\* it already has to deliver; but the bucket keeps only the newest value, so a
\* watcher that is still replaying may replay this one instead of the old one.
Put(w) ==
    LET k == KeyOf[cur[w]]
        v == kv[k] + 1
    IN  /\ wpc[w] = "put"
        /\ kv' = [kv EXCEPT ![k] = v]
        /\ \E early \in SUBSET {r \in Req : KeyOf[r] = k /\ Replaying(r)} :
             chan' = [r \in Req |->
                        IF r \in early THEN <<v, Nil>>
                        ELSE IF KeyOf[r] = k /\ Watching(r)
                             THEN Append(chan[r], v)
                             ELSE chan[r]]
        /\ stored' = [stored EXCEPT ![cur[w]] = v]
        /\ wpc' = [wpc EXCEPT ![w] = "idle"]
        /\ cur' = [cur EXCEPT ![w] = NoTask]
        /\ UNCHANGED <<pc, running, joined, enqueued, ans, streamVars, inbox,
                       since, sent, ran>>

\* kv.Put fails: logged, and the result of an acknowledged task is gone.
PutFail(w) ==
    /\ "put" \in Faults
    /\ wpc[w] = "put"
    /\ wpc' = [wpc EXCEPT ![w] = "idle"]
    /\ cur' = [cur EXCEPT ![w] = NoTask]
    /\ UNCHANGED <<webVars, kv, streamVars, inbox, since, taskVars>>

\* A worker dies, or is interrupted: ConsumeQueue returns without waiting for
\* the callback and the process ends.  Buffered messages are not acknowledged.
WorkerExit(w) ==
    /\ "worker" \in Faults
    /\ wpc[w] # "down"
    /\ wpc' = [wpc EXCEPT ![w] = "down"]
    /\ cur' = [cur EXCEPT ![w] = NoTask]
    /\ inbox' = [inbox EXCEPT ![w] = <<>>]
    /\ UNCHANGED <<webVars, kv, streamVars, since, taskVars>>

\* It is started again and consumes through the same durable consumer.
WorkerStart(w) ==
    /\ wpc[w] = "down"
    /\ wpc' = [wpc EXCEPT ![w] = "idle"]
    /\ UNCHANGED <<webVars, kv, streamVars, cur, inbox, since, taskVars>>

-----------------------------------------------------------------------------
Receive(r) == SkipOld(r) \/ TakeNil(r) \/ TakeResult(r)

Enqueue(r) ==
    \/ Enter(r) \/ Watch(r) \/ WatchFail(r) \/ Receive(r) \/ CtxDone(r)
    \/ Publish(r) \/ PublishFail(r) \/ Leave(r)

Callback(w) ==
    \/ Start(w) \/ TaskReturns(w) \/ TaskPanics(w) \/ DoubleAck(w)
    \/ Put(w) \/ PutFail(w)

Next ==
    \/ \E r \in Req : Enqueue(r) \/ AckWaitOver(r)
    \/ \E s \in Server : ServerCrash(s)
    \/ \E w \in Worker :
         Callback(w) \/ WorkerExit(w) \/ WorkerStart(w)
         \/ \E t \in Req : Deliver(w, t)

Spec == Init /\ [][Next]_vars

\* What the processes go on doing: a request that has entered Enqueue runs on,
\* its context ends, a live worker runs its callbacks, and NATS delivers to a
\* worker that has room.  Nobody has to call Enqueue, to fail or to restart.
Fairness ==
    /\ \A r \in Req :
         /\ WF_vars(Watch(r) \/ WatchFail(r))
         /\ WF_vars(Receive(r))
         /\ WF_vars(CtxDone(r))
         /\ WF_vars(Publish(r) \/ PublishFail(r))
         /\ WF_vars(Leave(r))
         /\ WF_vars(\E w \in Worker : Deliver(w, r))
    /\ \A w \in Worker : WF_vars(Callback(w))

FairSpec == Spec /\ Fairness

-----------------------------------------------------------------------------
(* Properties *)

\* A value Enqueue returns was stored after the call began: handleRender asks
\* for it because what the cache held then was missing or too old.
AnswerIsNew ==
    \A r \in Req : ans[r] # 0 => since[r] < ans[r] /\ ans[r] <= kv[KeyOf[r]]

\* A request that still waits when the result of the task it published has
\* been stored has that result coming: its watcher delivers it after the nil,
\* so it is not skipped.  The order watch, nil, publish is there for this.
OwnResultArrives ==
    \A r \in Req :
       pc[r] = "select" /\ stored[r] # 0 =>
         enqueued[r] /\ \E i \in 1..Len(chan[r]) : chan[r][i] = stored[r]

\* A mark is never left behind by the calls that made it: while a key is
\* marked on a webserver, a call for it is under way there.  With a mark left
\* behind, every later request would join a task that nobody publishes.
MarkIsHeld ==
    \A s \in Server : \A k \in running[s] :
       \E r \in Req : /\ SrvOf[r] = s /\ KeyOf[r] = k
                      /\ pc[r] \notin {"idle", "done"}

\* A message leaves the stream only when its task has been run to an end,
\* whatever workers and acknowledgements did in between.
NoTaskVanishes == \A t \in sent : t \in stream \/ t \in ran

\* Every call of Enqueue returns.
EveryCallReturns == \A r \in Req : pc[r] # "idle" ~> pc[r] = "done"

\* Where nothing fails and no context ends, the request that publishes a task
\* is answered with a value.
PublisherIsAnswered ==
    \A r \in Req : pc[r] = "publish" ~> pc[r] = "done" /\ ans[r] # 0

\* Enqueue keeps the promise of adapters.WorkQueue: see WorkQueue.
Status(r) == IF pc[r] \in {"idle", "done"} THEN pc[r] ELSE "waiting"

WQ == INSTANCE WorkQueue WITH
        status <- [r \in Req |-> Status(r)],
        version <- kv,
        base <- since,
        answer <- [r \in Req |-> IF pc[r] = "done" THEN ans[r] ELSE 0]

\* Whatever fails on either side, a call ends in an error or in a value stored
\* since it began, the answer of an ended call stays, and nothing but a stored
\* result moves the cache on.
RefinesWorkQueue == WQ!Spec

\* "prevent resubmitting already running task" (natsadapter.go:62): while a
\* task for a key waits in the stream or is being run, the webserver that
\* published it publishes no other one for that key.
NoResubmit ==
    \A r, q \in sent \cap stream :
       r # q => SrvOf[r] # SrvOf[q] \/ KeyOf[r] # KeyOf[q]

\* "old value from cache, skipping" (natsadapter.go:85): the value a request
\* skips was in the cache before the request came.
SkippedIsOld ==
    [][\A r \in Req : SkipOld(r) => Head(chan[r]) <= since[r]]_vars
=============================================================================
