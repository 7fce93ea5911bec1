-------------------------- MODULE NatsAdapterProofs --------------------------
(***************************************************************************)
(* Proofs about NatsAdapter, for any number of requests, webservers, keys  *)
(* and workers, and for every choice of faults.                            *)
(***************************************************************************)
EXTENDS NatsAdapter, SequenceTheorems, TLAPS

-----------------------------------------------------------------------------
(* What the consumer's client buffers. *)

LEMMA BufferAppend ==
    ASSUME NEW S, NEW s \in Seq(S), NEW e \in S
    PROVE  /\ Append(s, e) \in Seq(S)
           /\ Len(Append(s, e)) = Len(s) + 1
           /\ \A i \in 1..Len(s) : Append(s, e)[i] = s[i]
           /\ Append(s, e)[Len(s) + 1] = e
BY AppendProperties

LEMMA BufferTail ==
    ASSUME NEW S, NEW s \in Seq(S), s # <<>>
    PROVE  /\ Head(s) \in S
           /\ Head(s) = s[1]
           /\ Len(s) \in Nat \ {0}
           /\ Tail(s) \in Seq(S)
           /\ Len(Tail(s)) = Len(s) - 1
           /\ \A i \in 1..Len(Tail(s)) : Tail(s)[i] = s[i + 1]
BY HeadTailProperties, EmptySeq

LEMMA BufferShift ==
    ASSUME NEW S, NEW s \in Seq(S), s # <<>>
    PROVE  /\ \A i \in 1..Len(Tail(s)) :
                /\ i + 1 \in 1..Len(s) /\ i + 1 > 1
                /\ Tail(s)[i] = s[i + 1]
           /\ \A i \in 1..Len(s) : i # 1 =>
                /\ i - 1 \in 1..Len(Tail(s))
                /\ Tail(s)[i - 1] = s[i]
<1>1. /\ Len(s) \in Nat \ {0} /\ Len(Tail(s)) = Len(s) - 1
      /\ \A i \in 1..Len(Tail(s)) : Tail(s)[i] = s[i + 1]
    BY BufferTail
<1>2. \A i \in 1..Len(s) : i # 1 =>
         i - 1 \in 1..Len(Tail(s)) /\ (i - 1) + 1 = i
    BY <1>1
<1>3. \A i \in 1..Len(Tail(s)) : i + 1 \in 1..Len(s) /\ i + 1 > 1
    BY <1>1
<1> QED
    BY <1>1, <1>2, <1>3

-----------------------------------------------------------------------------
(* Types *)

LEMMA TypeInit == Init => TypeOK
<1> SUFFICES ASSUME Init PROVE TypeOK
    OBVIOUS
<1>1. /\ \A r \in Req : chan[r] \in Seq(Nat)
      /\ \A w \in Worker : inbox[w] \in Seq(Req) /\ Len(inbox[w]) = 0
    BY EmptySeq DEF Init
<1> QED
    BY <1>1, ConstantsAssumption DEF Init, TypeOK

LEMMA TypeEnqueue ==
    ASSUME TypeOK, NEW r \in Req, Enqueue(r)
    PROVE  TypeOK'
<1> USE ConstantsAssumption DEF TypeOK, workerVars, streamVars, taskVars
<1>1. CASE Enter(r)
    BY <1>1 DEF Enter
<1>2. CASE Watch(r)
  <2>1. <<Nil>> \in Seq(Nat) /\ <<kv[KeyOf[r]], Nil>> \in Seq(Nat)
      BY DEF Nil
  <2> QED
      BY <1>2, <2>1 DEF Watch
<1>3. CASE WatchFail(r)
    BY <1>3 DEF WatchFail
<1>4. CASE Receive(r)
  <2>1. chan[r] # <<>> /\ chan[r] \in Seq(Nat)
      BY <1>4 DEF Receive, SkipOld, TakeNil, TakeResult
  <2>2. Tail(chan[r]) \in Seq(Nat) /\ Head(chan[r]) \in Nat
      BY <2>1, BufferTail
  <2>3. CASE SkipOld(r)
      BY <2>2, <2>3 DEF SkipOld
  <2>4. CASE TakeNil(r)
      BY <2>2, <2>4 DEF TakeNil
  <2>5. CASE TakeResult(r)
      BY <2>2, <2>5 DEF TakeResult
  <2> QED
      BY <1>4, <2>3, <2>4, <2>5 DEF Receive
<1>5. CASE CtxDone(r)
    BY <1>5 DEF CtxDone
<1>6. CASE Publish(r)
    BY <1>6 DEF Publish, AddToStream
<1>7. CASE PublishFail(r)
    BY <1>7 DEF PublishFail, AddToStream
<1>8. CASE Leave(r)
  <2>1. <<>> \in Seq(Nat)
      BY EmptySeq
  <2> QED
      BY <1>8, <2>1 DEF Leave
<1> QED
    BY <1>1, <1>2, <1>3, <1>4, <1>5, <1>6, <1>7, <1>8 DEF Enqueue

LEMMA TypeCrash ==
    ASSUME TypeOK, NEW s \in Server, ServerCrash(s)
    PROVE  TypeOK'
<1>1. <<>> \in Seq(Nat)
    BY EmptySeq
<1> QED
    BY <1>1 DEF ServerCrash, TypeOK, workerVars, streamVars, taskVars

LEMMA TypeDeliver ==
    ASSUME TypeOK, NEW w \in Worker, NEW t \in Req, Deliver(w, t)
    PROVE  TypeOK'
<1>1. /\ Append(inbox[w], t) \in Seq(Req)
      /\ Len(Append(inbox[w], t)) = Len(inbox[w]) + 1
      /\ Len(inbox[w]) \in Nat
    BY BufferAppend, LenProperties DEF TypeOK
<1>2. Len(Append(inbox[w], t)) <= Prefetch
    BY <1>1, ConstantsAssumption DEF Deliver
<1> QED
    BY <1>1, <1>2 DEF Deliver, TypeOK, webVars, taskVars

LEMMA TypeWorker ==
    ASSUME TypeOK, NEW w \in Worker,
           Callback(w) \/ WorkerExit(w) \/ WorkerStart(w)
    PROVE  TypeOK'
<1> USE ConstantsAssumption DEF TypeOK, webVars, streamVars, taskVars
<1>1. CASE Start(w)
  <2>1. inbox[w] # <<>> /\ inbox[w] \in Seq(Req)
      BY <1>1 DEF Start
  <2>2. /\ Tail(inbox[w]) \in Seq(Req)
        /\ Head(inbox[w]) \in Req
        /\ Len(Tail(inbox[w])) = Len(inbox[w]) - 1
        /\ Len(inbox[w]) \in Nat
      BY <2>1, BufferTail
  <2>3. Len(Tail(inbox[w])) <= Prefetch
      BY <2>2
  <2> QED
      BY <1>1, <2>2, <2>3 DEF Start
<1>2. CASE TaskReturns(w)
    BY <1>2 DEF TaskReturns
<1>3. CASE TaskPanics(w)
    BY <1>3 DEF TaskPanics, Remove
<1>4. CASE DoubleAck(w)
    BY <1>4 DEF DoubleAck, Remove
<1>5. CASE Put(w)
  <2> DEFINE v == kv[KeyOf[cur[w]]] + 1
  <2>0. wpc[w] = "put"
      BY <1>5 DEF Put
  <2>1. cur[w] \in Req
      BY <2>0
  <2>2. v \in Nat
    <3>1. KeyOf[cur[w]] \in Key
        BY <2>1
    <3> QED
        BY <3>1
  <2>3. \A r \in Req : /\ Append(chan[r], v) \in Seq(Nat)
                       /\ <<v, Nil>> \in Seq(Nat)
      BY <2>2, BufferAppend DEF Nil
  <2>4. chan' \in [Req -> Seq(Nat)]
      BY <1>5, <2>3 DEF Put
  <2> QED
      BY <1>5, <2>1, <2>2, <2>4 DEF Put
<1>6. CASE PutFail(w)
    BY <1>6 DEF PutFail
<1>7. CASE WorkerExit(w)
  <2>1. <<>> \in Seq(Req) /\ Len(<<>>) = 0
      BY EmptySeq
  <2> QED
      BY <1>7, <2>1 DEF WorkerExit
<1>8. CASE WorkerStart(w)
    BY <1>8 DEF WorkerStart
<1> QED
    BY <1>1, <1>2, <1>3, <1>4, <1>5, <1>6, <1>7, <1>8 DEF Callback

LEMMA TypeStep == TypeOK /\ [Next]_vars => TypeOK'
<1> SUFFICES ASSUME TypeOK, [Next]_vars PROVE TypeOK'
    OBVIOUS
<1>1. ASSUME NEW r \in Req, AckWaitOver(r) PROVE TypeOK'
    BY <1>1, ConstantsAssumption
       DEF AckWaitOver, TypeOK, webVars, workerVars, taskVars
<1>2. CASE UNCHANGED vars
    BY <1>2 DEF vars, webVars, streamVars, workerVars, taskVars, TypeOK
<1> QED
    BY <1>1, <1>2, TypeEnqueue, TypeCrash, TypeDeliver, TypeWorker DEF Next

\* Every variable of the adapter, its streams and its workers keeps its type.
THEOREM TypeCorrect == Spec => []TypeOK
BY TypeInit, TypeStep, PTL DEF Spec

-----------------------------------------------------------------------------
(* Marks *)

Active(r) == pc[r] \notin {"idle", "done"}

LEMMA MarkStep == TypeOK /\ MarkIsHeld /\ [Next]_vars => MarkIsHeld'
<1> SUFFICES ASSUME TypeOK, MarkIsHeld, [Next]_vars PROVE MarkIsHeld'
    OBVIOUS
<1>1. ASSUME running' = running, \A r \in Req : Active(r) => Active(r)'
      PROVE  MarkIsHeld'
    BY <1>1 DEF MarkIsHeld, Active
<1>2. ASSUME NEW r \in Req, Enter(r) PROVE MarkIsHeld'
  <2> SUFFICES ASSUME NEW s \in Server, NEW k \in running'[s]
               PROVE  \E q \in Req : SrvOf[q] = s /\ KeyOf[q] = k /\ Active(q)'
      BY DEF MarkIsHeld, Active
  <2>1. \A q \in Req : Active(q) => Active(q)'
      BY <1>2 DEF Enter, Active, TypeOK
  <2>2. CASE k \in running[s]
      BY <2>1, <2>2 DEF MarkIsHeld, Active
  <2>3. CASE k \notin running[s]
    <3>1. s = SrvOf[r] /\ k = KeyOf[r]
        BY <1>2, <2>3 DEF Enter, TypeOK
    <3>2. Active(r)'
        BY <1>2 DEF Enter, Active, TypeOK
    <3> QED
        BY <3>1, <3>2
  <2> QED
      BY <2>2, <2>3
<1>3. ASSUME NEW r \in Req, Watch(r) \/ WatchFail(r) \/ Receive(r) \/ CtxDone(r)
      PROVE  MarkIsHeld'
    BY <1>1, <1>3 DEF Watch, WatchFail, Receive, SkipOld, TakeNil, TakeResult,
                      CtxDone, Active, TypeOK
<1>4. ASSUME NEW r \in Req, Publish(r) \/ PublishFail(r) PROVE MarkIsHeld'
    BY <1>1, <1>4 DEF Publish, PublishFail, Active, TypeOK
<1>5. ASSUME NEW r \in Req, Leave(r) PROVE MarkIsHeld'
  <2> SUFFICES ASSUME NEW s \in Server, NEW k \in running'[s]
               PROVE  \E q \in Req : SrvOf[q] = s /\ KeyOf[q] = k /\ Active(q)'
      BY DEF MarkIsHeld, Active
  <2>1. k \in running[s] /\ ~(SrvOf[r] = s /\ KeyOf[r] = k)
      BY <1>5 DEF Leave, TypeOK
  <2>2. PICK q \in Req : SrvOf[q] = s /\ KeyOf[q] = k /\ Active(q)
      BY <2>1 DEF MarkIsHeld, Active
  <2>3. Active(q)'
      BY <1>5, <2>1, <2>2 DEF Leave, Active, TypeOK
  <2> QED
      BY <2>2, <2>3
<1>6. ASSUME NEW c \in Server, ServerCrash(c) PROVE MarkIsHeld'
  <2> SUFFICES ASSUME NEW s \in Server, NEW k \in running'[s]
               PROVE  \E q \in Req : SrvOf[q] = s /\ KeyOf[q] = k /\ Active(q)'
      BY DEF MarkIsHeld, Active
  <2>1. k \in running[s] /\ s # c
      BY <1>6 DEF ServerCrash, TypeOK
  <2>2. PICK q \in Req : SrvOf[q] = s /\ KeyOf[q] = k /\ Active(q)
      BY <2>1 DEF MarkIsHeld, Active
  <2>3. Active(q)'
      BY <1>6, <2>1, <2>2 DEF ServerCrash, Active
  <2> QED
      BY <2>2, <2>3
<1>7. ASSUME UNCHANGED <<pc, running>> PROVE MarkIsHeld'
    BY <1>7 DEF MarkIsHeld
<1>8. ASSUME NEW w \in Worker, Callback(w) PROVE UNCHANGED <<pc, running>>
    BY <1>8 DEF Callback, Start, TaskReturns, TaskPanics, DoubleAck, Put,
                PutFail, webVars
<1>9. ASSUME NEW w \in Worker, NEW t \in Req, Deliver(w, t)
      PROVE  UNCHANGED <<pc, running>>
    BY <1>9 DEF Deliver, webVars
<1>10. ASSUME NEW w \in Worker, WorkerExit(w) \/ WorkerStart(w)
       PROVE  UNCHANGED <<pc, running>>
    BY <1>10 DEF WorkerExit, WorkerStart, webVars
<1>11. ASSUME NEW t \in Req, AckWaitOver(t) PROVE UNCHANGED <<pc, running>>
    BY <1>11 DEF AckWaitOver, webVars
<1>12. CASE UNCHANGED vars
    BY <1>7, <1>12 DEF vars, webVars
<1> QED
    BY <1>2, <1>3, <1>4, <1>5, <1>6, <1>7, <1>8, <1>9, <1>10, <1>11, <1>12
    DEF Next, Enqueue

\* A key stays marked on a webserver only while a call for it runs there, so
\* the deferred delete is never missed, whatever makes a call end.
THEOREM MarksAreHeld == Spec => []MarkIsHeld
<1>1. Init => MarkIsHeld
    BY DEF Init, MarkIsHeld
<1> QED
    BY <1>1, TypeCorrect, MarkStep, PTL DEF Spec

-----------------------------------------------------------------------------
(* Tasks *)

\* What the workers hold came out of the stream, and was run before it is
\* acknowledged.
TasksKnown ==
    /\ stream \subseteq sent
    /\ \A w \in Worker :
         /\ \A i \in 1..Len(inbox[w]) : inbox[w][i] \in sent
         /\ cur[w] # NoTask => cur[w] \in sent
         /\ wpc[w] \in {"ackOk", "ackErr", "put"} => cur[w] \in ran

TaskInv == TasksKnown /\ NoTaskVanishes

LEMMA TaskStep == TypeOK /\ TaskInv /\ [Next]_vars => TaskInv'
<1> SUFFICES ASSUME TypeOK, TaskInv, [Next]_vars PROVE TaskInv'
    OBVIOUS
<1> USE ConstantsAssumption DEF TypeOK, TaskInv, TasksKnown, NoTaskVanishes
<1>1. ASSUME UNCHANGED <<stream, workerVars, taskVars>> PROVE TaskInv'
    BY <1>1 DEF workerVars, taskVars
<1>2. ASSUME NEW r \in Req, Enqueue(r) PROVE TaskInv'
  <2>1. CASE Publish(r)
      BY <2>1 DEF Publish, AddToStream, workerVars
  <2>2. CASE PublishFail(r)
      BY <2>2 DEF PublishFail, AddToStream, workerVars
  <2>3. CASE ~Publish(r) /\ ~PublishFail(r)
    <3>1. UNCHANGED <<stream, workerVars, taskVars>>
        BY <1>2, <2>3 DEF Enqueue, Enter, Watch, WatchFail, Receive, SkipOld,
           TakeNil, TakeResult, CtxDone, Leave, streamVars
    <3> QED
        BY <1>1, <3>1
  <2> QED
      BY <2>1, <2>2, <2>3
<1>3. ASSUME NEW s \in Server, ServerCrash(s) PROVE TaskInv'
    BY <1>1, <1>3 DEF ServerCrash, streamVars
<1>4. ASSUME NEW t \in Req, AckWaitOver(t) PROVE TaskInv'
    BY <1>1, <1>4 DEF AckWaitOver
<1>5. ASSUME NEW w \in Worker, NEW t \in Req, Deliver(w, t) PROVE TaskInv'
  <2>1. /\ Len(inbox[w]) \in Nat
        /\ Len(Append(inbox[w], t)) = Len(inbox[w]) + 1
        /\ \A i \in 1..Len(inbox[w]) : Append(inbox[w], t)[i] = inbox[w][i]
        /\ Append(inbox[w], t)[Len(inbox[w]) + 1] = t
      BY BufferAppend, LenProperties
  <2>2. t \in sent
      BY <1>5 DEF Deliver
  <2>3. \A i \in 1..Len(inbox'[w]) : inbox'[w][i] \in sent
      BY <1>5, <2>1, <2>2 DEF Deliver
  <2> QED
      BY <1>5, <2>3 DEF Deliver, taskVars
<1>6. ASSUME NEW w \in Worker, Start(w) PROVE TaskInv'
  <2>1. /\ Head(inbox[w]) = inbox[w][1]
        /\ Len(inbox[w]) \in Nat \ {0}
        /\ Len(Tail(inbox[w])) = Len(inbox[w]) - 1
        /\ \A i \in 1..Len(Tail(inbox[w])) : Tail(inbox[w])[i] = inbox[w][i + 1]
      BY <1>6, BufferTail DEF Start
  <2>2. inbox'[w] = Tail(inbox[w]) /\ cur'[w] = inbox[w][1]
      BY <1>6, <2>1 DEF Start
  <2>3. \A i \in 1..Len(inbox[w]) : inbox[w][i] \in sent
      OBVIOUS
  <2>4. cur'[w] \in sent
      BY <2>1, <2>2, <2>3
  <2>5. \A i \in 1..Len(inbox'[w]) : inbox'[w][i] \in sent
    <3> SUFFICES ASSUME NEW i \in 1..(Len(inbox[w]) - 1)
                 PROVE  Tail(inbox[w])[i] \in sent
        BY <2>1, <2>2
    <3>1. i + 1 \in 1..Len(inbox[w]) /\ Tail(inbox[w])[i] = inbox[w][i + 1]
        BY <2>1
    <3> QED
        BY <2>3, <3>1
  <2> QED
      BY <1>6, <2>4, <2>5 DEF Start, streamVars, taskVars
<1>7. ASSUME NEW w \in Worker, TaskReturns(w) PROVE TaskInv'
    BY <1>7 DEF TaskReturns, streamVars
<1>8. ASSUME NEW w \in Worker, TaskPanics(w) PROVE TaskInv'
    BY <1>8 DEF TaskPanics, Remove
<1>9. ASSUME NEW w \in Worker, DoubleAck(w) PROVE TaskInv'
    BY <1>9 DEF DoubleAck, Remove, taskVars
<1>10. ASSUME NEW w \in Worker, Put(w) \/ PutFail(w) PROVE TaskInv'
    BY <1>10 DEF Put, PutFail, streamVars, taskVars
<1>11. ASSUME NEW w \in Worker, WorkerExit(w) PROVE TaskInv'
  <2>1. Len(inbox'[w]) = 0
      BY <1>11, EmptySeq DEF WorkerExit
  <2> QED
      BY <1>11, <2>1 DEF WorkerExit, streamVars, taskVars
<1>12. ASSUME NEW w \in Worker, WorkerStart(w) PROVE TaskInv'
    BY <1>12 DEF WorkerStart, streamVars, taskVars
<1>13. CASE UNCHANGED vars
    BY <1>1, <1>13 DEF vars, streamVars
<1> QED
    BY <1>2, <1>3, <1>4, <1>5, <1>6, <1>7, <1>8, <1>9, <1>10, <1>11, <1>12,
       <1>13
    DEF Next, Callback

LEMMA TaskInit == Init => TaskInv
BY EmptySeq DEF Init, TaskInv, TasksKnown, NoTaskVanishes

\* A message that reached the stream stays there until its task was run to an
\* end: a worker that dies, a lost acknowledgement or a redelivery loses none.
THEOREM TasksDoNotVanish == Spec => []NoTaskVanishes
<1>1. TaskInv => NoTaskVanishes
    BY DEF TaskInv
<1> QED
    BY <1>1, TypeCorrect, TaskInit, TaskStep, PTL DEF Spec

-----------------------------------------------------------------------------
(* Answers *)

\* The nil is still to come, and everything behind it is a new result.
NilAhead(r) ==
    \E m \in 1..Len(chan[r]) :
       /\ chan[r][m] = Nil
       /\ \A i \in 1..Len(chan[r]) : i # m => chan[r][i] # Nil
       /\ \A i \in 1..Len(chan[r]) : i > m => chan[r][i] > since[r]

\* What a watcher has left to deliver, before and after its nil was taken.
WatchOrder(r) ==
    /\ pc[r] \in {"idle", "watch"} => ~enqueued[r] /\ ans[r] = 0
    /\ pc[r] = "publish" => enqueued[r]
    /\ pc[r] = "select" /\ ~enqueued[r] => NilAhead(r)
    /\ enqueued[r] => \A i \in 1..Len(chan[r]) : chan[r][i] > since[r]
    /\ \A i \in 1..Len(chan[r]) : chan[r][i] <= kv[KeyOf[r]]
    /\ since[r] <= kv[KeyOf[r]]
    /\ ans[r] # 0 => since[r] < ans[r] /\ ans[r] <= kv[KeyOf[r]]

AnswerInv == \A r \in Req : WatchOrder(r)

\* A step that does not touch a request or the bucket keeps its order.
LEMMA WatchOrderFrame ==
    ASSUME NEW q \in Req, WatchOrder(q), kv' = kv,
           pc'[q] = pc[q], enqueued'[q] = enqueued[q], chan'[q] = chan[q],
           ans'[q] = ans[q], since'[q] = since[q]
    PROVE  WatchOrder(q)'
BY DEF WatchOrder, NilAhead

LEMMA WatchOrderEnqueue ==
    ASSUME TypeOK, AnswerInv, NEW r \in Req, Enqueue(r)
    PROVE  AnswerInv'
<1> USE ConstantsAssumption DEF TypeOK, Nil
<1>1. WatchOrder(r)'
  <2>1. CASE Enter(r)
    <3>1. /\ pc'[r] = "watch" /\ enqueued'[r] = enqueued[r]
          /\ chan' = chan /\ ans' = ans /\ kv' = kv
          /\ since'[r] = kv[KeyOf[r]] /\ kv[KeyOf[r]] \in Nat
        BY <2>1 DEF Enter
    <3>2. ~enqueued[r] /\ ans[r] = 0
        BY <2>1 DEF Enter, AnswerInv, WatchOrder
    <3> QED
        BY <3>1, <3>2 DEF AnswerInv, WatchOrder
  <2>2. CASE Watch(r)
    <3>1. ~enqueued[r] /\ ~enqueued'[r] /\ pc'[r] = "select"
        BY <2>2 DEF Watch, AnswerInv, WatchOrder
    <3>2. CASE kv[KeyOf[r]] = 0
      <4>1. chan'[r] = <<0>>
          BY <2>2, <3>2 DEF Watch
      <4>2. NilAhead(r)'
          BY <4>1 DEF NilAhead
      <4> QED
          BY <2>2, <3>1, <3>2, <4>1, <4>2 DEF Watch, AnswerInv, WatchOrder
    <3>3. CASE kv[KeyOf[r]] # 0
      <4>1. chan'[r] = <<kv[KeyOf[r]], 0>>
          BY <2>2, <3>3 DEF Watch
      <4>2. /\ Len(chan'[r]) = 2 /\ 2 \in 1..Len(chan'[r])
            /\ chan'[r][1] # 0 /\ chan'[r][2] = 0
          BY <3>3, <4>1
      <4>3. NilAhead(r)'
          BY <4>2 DEF NilAhead
      <4> QED
          BY <2>2, <3>1, <3>3, <4>1, <4>3 DEF Watch, AnswerInv, WatchOrder
    <3> QED
        BY <3>2, <3>3
  <2>3. CASE WatchFail(r) \/ CtxDone(r) \/ Publish(r) \/ PublishFail(r)
      BY <2>3 DEF WatchFail, CtxDone, Publish, PublishFail, workerVars,
                  AnswerInv, WatchOrder
  <2>4. CASE Receive(r)
    <3>1. /\ chan[r] # <<>> /\ pc[r] = "select"
          /\ chan'[r] = Tail(chan[r])
          /\ since' = since /\ kv' = kv
        BY <2>4 DEF Receive, SkipOld, TakeNil, TakeResult
    <3>2. /\ Head(chan[r]) = chan[r][1] /\ Head(chan[r]) \in Nat
          /\ Len(chan[r]) \in Nat \ {0}
          /\ Len(chan'[r]) = Len(chan[r]) - 1
          /\ \A i \in 1..Len(chan'[r]) : chan'[r][i] = chan[r][i + 1]
        BY <3>1, BufferTail
    <3>3. /\ \A i \in 1..Len(chan'[r]) :
                /\ i + 1 \in 1..Len(chan[r]) /\ i + 1 > 1
                /\ chan'[r][i] = chan[r][i + 1]
          /\ \A i \in 1..Len(chan[r]) : i # 1 =>
                /\ i - 1 \in 1..Len(chan'[r])
                /\ chan'[r][i - 1] = chan[r][i]
        BY <3>1, BufferShift
    <3>4. \A i \in 1..Len(chan'[r]) : chan'[r][i] <= kv[KeyOf[r]]
        BY <3>2 DEF AnswerInv, WatchOrder
    <3>5. CASE SkipOld(r)
      <4>1. PICK m \in 1..Len(chan[r]) :
               /\ chan[r][m] = 0
               /\ \A i \in 1..Len(chan[r]) : i # m => chan[r][i] # 0
               /\ \A i \in 1..Len(chan[r]) : i > m => chan[r][i] > since[r]
          BY <3>5 DEF SkipOld, AnswerInv, WatchOrder, NilAhead
      <4>2. m - 1 \in 1..Len(chan'[r])
          BY <3>2, <3>5, <4>1 DEF SkipOld
      <4>3. /\ chan'[r][m - 1] = 0
            /\ \A i \in 1..Len(chan'[r]) : i # m - 1 => chan'[r][i] # 0
            /\ \A i \in 1..Len(chan'[r]) : i > m - 1 => chan'[r][i] > since'[r]
        <5>1. chan'[r][m - 1] = chan[r][m]
            BY <3>2, <3>3, <3>5, <4>1 DEF SkipOld
        <5>2. ASSUME NEW i \in 1..Len(chan'[r]), i # m - 1
              PROVE  chan'[r][i] # 0
          <6>1. i + 1 # m
              BY <5>2
          <6>2. i + 1 \in 1..Len(chan[r]) /\ chan'[r][i] = chan[r][i + 1]
              BY <3>3
          <6> QED
              BY <4>1, <6>1, <6>2
        <5>3. ASSUME NEW i \in 1..Len(chan'[r]), i > m - 1
              PROVE  chan'[r][i] > since'[r]
          <6>1. i + 1 > m
              BY <5>3
          <6> QED
              BY <3>1, <3>3, <4>1, <6>1
        <5> QED
            BY <4>1, <5>1, <5>2, <5>3
      <4>4. NilAhead(r)'
          BY <4>2, <4>3 DEF NilAhead
      <4> QED
          BY <3>1, <3>4, <3>5, <4>4 DEF SkipOld, AnswerInv, WatchOrder
    <3>6. CASE TakeNil(r)
      <4>1. chan[r][1] = 0 /\ 1 \in 1..Len(chan[r]) /\ since[r] \in Nat
          BY <3>2, <3>6 DEF TakeNil
      <4>2. \A i \in 1..Len(chan[r]) : i > 1 => chan[r][i] > since[r]
        <5>1. ~enqueued[r]
            BY <4>1 DEF AnswerInv, WatchOrder
        <5>2. NilAhead(r)
            BY <3>1, <5>1 DEF AnswerInv, WatchOrder
        <5>3. PICK m \in 1..Len(chan[r]) :
                 /\ \A i \in 1..Len(chan[r]) : i # m => chan[r][i] # 0
                 /\ \A i \in 1..Len(chan[r]) : i > m => chan[r][i] > since[r]
            BY <5>2 DEF NilAhead
        <5> QED
            BY <4>1, <5>3
      <4>3. \A i \in 1..Len(chan'[r]) : chan'[r][i] > since'[r]
          BY <3>1, <3>3, <4>2
      <4> QED
          BY <3>1, <3>4, <3>6, <4>3 DEF TakeNil, AnswerInv, WatchOrder
    <3>7. CASE TakeResult(r)
      <4>1. Head(chan[r]) > since[r] /\ Head(chan[r]) <= kv[KeyOf[r]]
          BY <3>2, <3>7 DEF TakeResult, AnswerInv, WatchOrder
      <4>2. \A i \in 1..Len(chan'[r]) : chan'[r][i] > since'[r]
          BY <3>1, <3>2, <3>7 DEF TakeResult, AnswerInv, WatchOrder
      <4> QED
          BY <3>1, <3>4, <3>7, <4>1, <4>2 DEF TakeResult, AnswerInv, WatchOrder
    <3> QED
        BY <2>4, <3>5, <3>6, <3>7 DEF Receive
  <2>5. CASE Leave(r)
    <3>1. chan'[r] = <<>> /\ Len(chan'[r]) = 0
        BY <2>5, EmptySeq DEF Leave
    <3> QED
        BY <2>5, <3>1 DEF Leave, AnswerInv, WatchOrder
  <2> QED
      BY <2>1, <2>2, <2>3, <2>4, <2>5 DEF Enqueue
<1>2. ASSUME NEW q \in Req, q # r PROVE WatchOrder(q)'
  <2>1. /\ kv' = kv
        /\ pc'[q] = pc[q] /\ enqueued'[q] = enqueued[q]
        /\ chan'[q] = chan[q] /\ ans'[q] = ans[q] /\ since'[q] = since[q]
      BY <1>2 DEF Enqueue, Enter, Watch, WatchFail, Receive, SkipOld, TakeNil,
                  TakeResult, CtxDone, Publish, PublishFail, Leave
  <2> QED
      BY <2>1, WatchOrderFrame DEF AnswerInv
<1> QED
    BY <1>1, <1>2 DEF AnswerInv

LEMMA WatchOrderCrash ==
    ASSUME TypeOK, AnswerInv, NEW s \in Server, ServerCrash(s)
    PROVE  AnswerInv'
<1> SUFFICES ASSUME NEW q \in Req PROVE WatchOrder(q)'
    BY DEF AnswerInv
<1>1. CASE SrvOf[q] = s /\ pc[q] \notin {"idle", "done"}
  <2>1. /\ pc'[q] = "done" /\ ans'[q] = 0 /\ chan'[q] = <<>>
        /\ enqueued'[q] = FALSE /\ since' = since /\ kv' = kv
      BY <1>1 DEF ServerCrash, TypeOK
  <2>2. Len(chan'[q]) = 0
      BY <2>1, EmptySeq
  <2> QED
      BY <2>1, <2>2 DEF AnswerInv, WatchOrder
<1>2. CASE ~(SrvOf[q] = s /\ pc[q] \notin {"idle", "done"})
    BY <1>2, WatchOrderFrame DEF ServerCrash, TypeOK, AnswerInv
<1> QED
    BY <1>1, <1>2

LEMMA WatchOrderPut ==
    ASSUME TypeOK, AnswerInv, NEW w \in Worker, Put(w)
    PROVE  AnswerInv'
<1> DEFINE k == KeyOf[cur[w]]
           v == kv[k] + 1
<1>1. wpc[w] = "put"
    BY DEF Put
<1>2. cur[w] \in Req /\ k \in Key /\ v \in Nat /\ v # 0
  <2>1. cur[w] \in Req
      BY <1>1, ConstantsAssumption DEF TypeOK
  <2>2. k \in Key
      BY <2>1, ConstantsAssumption
  <2> QED
      BY <2>1, <2>2 DEF TypeOK
<1>3. PICK early \in SUBSET {r \in Req : KeyOf[r] = k /\ Replaying(r)} :
         chan' = [r \in Req |->
                    IF r \in early THEN <<v, Nil>>
                    ELSE IF KeyOf[r] = k /\ Watching(r)
                         THEN Append(chan[r], v)
                         ELSE chan[r]]
    BY DEF Put
<1>4. /\ pc' = pc /\ enqueued' = enqueued /\ ans' = ans /\ since' = since
      /\ kv' = [kv EXCEPT ![k] = v]
    BY DEF Put
<1> HIDE DEF k, v
<1> SUFFICES ASSUME NEW q \in Req PROVE WatchOrder(q)'
    BY DEF AnswerInv
<1>5. kv'[KeyOf[q]] >= kv[KeyOf[q]] /\ (KeyOf[q] = k => kv'[KeyOf[q]] = v)
  <2>1. KeyOf[q] \in Key
      BY ConstantsAssumption
  <2> QED
      BY <1>2, <1>4, <2>1 DEF TypeOK, v
<1>6. since[q] < v \/ KeyOf[q] # k
  <2>1. KeyOf[q] \in Key /\ since[q] <= kv[KeyOf[q]]
      BY ConstantsAssumption DEF AnswerInv, WatchOrder
  <2> QED
      BY <2>1 DEF TypeOK, v
<1>7. /\ since[q] \in Nat /\ ans[q] \in Nat
      /\ kv[KeyOf[q]] \in Nat /\ kv'[KeyOf[q]] \in Nat
      /\ chan[q] \in Seq(Nat)
  <2>1. KeyOf[q] \in Key
      BY ConstantsAssumption
  <2> QED
      BY <1>2, <1>4, <2>1 DEF TypeOK
<1>8. CASE q \in early
  <2>1. chan'[q] = <<v, 0>> /\ KeyOf[q] = k
      BY <1>3, <1>8 DEF Nil
  <2>2. ~enqueued[q] /\ pc[q] = "select"
    <3>1. pc[q] = "select" /\ Len(chan[q]) = 2 /\ chan[q][2] = 0
        BY <1>3, <1>8 DEF Replaying, Nil
    <3> QED
        BY <1>7, <3>1 DEF AnswerInv, WatchOrder
  <2>3. NilAhead(q)'
      BY <1>2, <2>1 DEF NilAhead, Nil
  <2> QED
      BY <1>2, <1>4, <1>5, <1>7, <2>1, <2>2, <2>3 DEF AnswerInv, WatchOrder
<1>9. CASE q \notin early /\ KeyOf[q] = k /\ Watching(q)
  <2>1. chan'[q] = Append(chan[q], v)
      BY <1>3, <1>9
  <2>2. /\ Len(chan[q]) \in Nat
        /\ Len(chan'[q]) = Len(chan[q]) + 1
        /\ \A i \in 1..Len(chan[q]) : chan'[q][i] = chan[q][i]
        /\ chan'[q][Len(chan[q]) + 1] = v
      BY <1>2, <1>7, <2>1, BufferAppend, LenProperties
  <2>3. \A i \in 1..Len(chan'[q]) :
           i \in 1..Len(chan[q]) \/ i = Len(chan[q]) + 1
      BY <2>2
  <2>4. pc[q] = "select" /\ ~enqueued[q] => NilAhead(q)'
    <3> SUFFICES ASSUME pc[q] = "select", ~enqueued[q] PROVE NilAhead(q)'
        OBVIOUS
    <3>1. PICK m \in 1..Len(chan[q]) :
             /\ chan[q][m] = 0
             /\ \A i \in 1..Len(chan[q]) : i # m => chan[q][i] # 0
             /\ \A i \in 1..Len(chan[q]) : i > m => chan[q][i] > since[q]
        BY DEF AnswerInv, WatchOrder, NilAhead, Nil
    <3>3. m \in 1..Len(chan'[q]) /\ chan'[q][m] = 0
        BY <2>2, <3>1
    <3>4. \A i \in 1..Len(chan'[q]) : i # m => chan'[q][i] # 0
        BY <1>2, <2>2, <2>3, <3>1
    <3>5. \A i \in 1..Len(chan'[q]) : i > m => chan'[q][i] > since'[q]
        BY <1>2, <1>4, <1>6, <1>7, <1>9, <2>2, <2>3, <3>1
    <3> QED
        BY <3>3, <3>4, <3>5 DEF NilAhead, Nil
  <2>5. enqueued[q] => \A i \in 1..Len(chan'[q]) : chan'[q][i] > since[q]
    <3>1. enqueued[q] => \A i \in 1..Len(chan[q]) : chan[q][i] > since[q]
        BY DEF AnswerInv, WatchOrder
    <3>2. v > since[q]
        BY <1>2, <1>6, <1>7, <1>9
    <3> QED
        BY <2>2, <2>3, <3>1, <3>2
  <2>6. \A i \in 1..Len(chan'[q]) : chan'[q][i] <= kv'[KeyOf[q]]
    <3>1. \A i \in 1..Len(chan[q]) : chan[q][i] <= kv[KeyOf[q]] /\ chan[q][i] \in Nat
        BY <1>7, ElementOfSeq DEF AnswerInv, WatchOrder
    <3>2. v <= kv'[KeyOf[q]] /\ kv[KeyOf[q]] <= kv'[KeyOf[q]]
        BY <1>2, <1>5, <1>7, <1>9
    <3>3. \A i \in 1..Len(chan[q]) : chan'[q][i] <= kv'[KeyOf[q]]
        BY <1>7, <2>2, <3>1, <3>2
    <3> QED
        BY <2>2, <2>3, <3>2, <3>3
  <2> QED
      BY <1>4, <1>5, <1>7, <2>4, <2>5, <2>6 DEF AnswerInv, WatchOrder
<1>10. CASE q \notin early /\ ~(KeyOf[q] = k /\ Watching(q))
  <2>1. chan'[q] = chan[q]
      BY <1>3, <1>10
  <2>2. \A i \in 1..Len(chan[q]) : chan[q][i] <= kv'[KeyOf[q]]
    <3>1. \A i \in 1..Len(chan[q]) : chan[q][i] <= kv[KeyOf[q]] /\ chan[q][i] \in Nat
        BY <1>7, ElementOfSeq DEF AnswerInv, WatchOrder
    <3> QED
        BY <1>5, <1>7, <3>1
  <2>3. pc[q] = "select" /\ ~enqueued[q] => NilAhead(q)'
      BY <1>4, <2>1 DEF AnswerInv, WatchOrder, NilAhead
  <2> QED
      BY <1>4, <1>5, <1>7, <2>1, <2>2, <2>3 DEF AnswerInv, WatchOrder
<1> QED
    BY <1>8, <1>9, <1>10

LEMMA AnswerStep == TypeOK /\ AnswerInv /\ [Next]_vars => AnswerInv'
<1> SUFFICES ASSUME TypeOK, AnswerInv, [Next]_vars PROVE AnswerInv'
    OBVIOUS
<1>1. ASSUME UNCHANGED <<webVars, kv, since>> PROVE AnswerInv'
    BY <1>1, WatchOrderFrame DEF webVars, AnswerInv
<1>2. ASSUME NEW w \in Worker, Callback(w), ~Put(w) PROVE AnswerInv'
    BY <1>1, <1>2 DEF Callback, Start, TaskReturns, TaskPanics, DoubleAck,
                      PutFail
<1>3. ASSUME NEW w \in Worker, NEW t \in Req, Deliver(w, t) PROVE AnswerInv'
    BY <1>1, <1>3 DEF Deliver
<1>4. ASSUME NEW w \in Worker, WorkerExit(w) \/ WorkerStart(w) PROVE AnswerInv'
    BY <1>1, <1>4 DEF WorkerExit, WorkerStart
<1>5. ASSUME NEW t \in Req, AckWaitOver(t) PROVE AnswerInv'
    BY <1>1, <1>5 DEF AckWaitOver
<1>6. CASE UNCHANGED vars
    BY <1>1, <1>6 DEF vars
<1> QED
    BY <1>2, <1>3, <1>4, <1>5, <1>6, WatchOrderEnqueue, WatchOrderCrash,
       WatchOrderPut
    DEF Next

LEMMA AnswerInit == Init => AnswerInv
<1> SUFFICES ASSUME Init, NEW r \in Req PROVE WatchOrder(r)
    BY DEF AnswerInv
<1>1. Len(chan[r]) = 0 /\ KeyOf[r] \in Key
    BY EmptySeq, ConstantsAssumption DEF Init
<1> QED
    BY <1>1 DEF Init, WatchOrder

\* A value returned by Enqueue was stored under its key after the call began:
\* the replayed values are behind the nil's back, and only what the watcher
\* delivers after the nil is returned.
THEOREM AnswersAreNew == Spec => []AnswerIsNew
<1>1. AnswerInv => AnswerIsNew
    BY DEF AnswerInv, WatchOrder, AnswerIsNew
<1> QED
    BY <1>1, TypeCorrect, AnswerInit, AnswerStep, PTL DEF Spec

-----------------------------------------------------------------------------
(* The result of one's own task *)

\* A request whose task has reached the stream has taken its nil.
PublisherIsPastNil ==
    \A r \in sent : /\ pc[r] \in {"select", "leave", "done"}
                    /\ pc[r] = "select" => enqueued[r]

OwnInv ==
    /\ PublisherIsPastNil
    /\ \A r \in Req : stored[r] # 0 => r \in sent
    /\ OwnResultArrives

\* A watcher that has taken its nil is not replaying.
LEMMA PastNil ==
    ASSUME TypeOK, AnswerInv, NEW r \in Req, enqueued[r]
    PROVE  \A i \in 1..Len(chan[r]) : chan[r][i] # Nil
<1>1. \A i \in 1..Len(chan[r]) : chan[r][i] > since[r] /\ chan[r][i] \in Nat
    BY ElementOfSeq DEF AnswerInv, WatchOrder, TypeOK
<1>2. since[r] \in Nat
    BY DEF TypeOK
<1> QED
    BY <1>1, <1>2 DEF Nil

LEMMA OwnEnqueue ==
    ASSUME TypeOK, AnswerInv, OwnInv, NEW r \in Req, Enqueue(r)
    PROVE  OwnInv'
<1>1. stored' = stored /\ sent \subseteq sent' /\ sent' \subseteq sent \cup {r}
    BY DEF Enqueue, Enter, Watch, WatchFail, Receive, SkipOld, TakeNil,
           TakeResult, CtxDone, Publish, PublishFail, AddToStream, Leave, taskVars
<1>2. ASSUME NEW q \in Req, q # r
      PROVE  pc'[q] = pc[q] /\ enqueued'[q] = enqueued[q] /\ chan'[q] = chan[q]
    BY <1>2 DEF TypeOK, Enqueue, Enter, Watch, WatchFail, Receive, SkipOld,
       TakeNil, TakeResult, CtxDone, Publish, PublishFail, Leave
<1>3. r \in sent' => /\ pc'[r] \in {"select", "leave", "done"}
                     /\ pc'[r] = "select" => enqueued'[r]
  <2>1. CASE r \in sent
    <3>1. pc[r] \in {"select", "leave"} /\ (pc[r] = "select" => enqueued[r])
        BY <2>1 DEF OwnInv, PublisherIsPastNil, Enqueue, Enter, Watch,
           WatchFail, Receive, SkipOld, TakeNil, TakeResult, CtxDone, Publish,
           PublishFail, Leave
    <3>2. ~TakeNil(r)
      <4> SUFFICES ASSUME TakeNil(r) PROVE FALSE
          OBVIOUS
      <4>1. /\ chan[r] # <<>> /\ Head(chan[r]) = Nil /\ enqueued[r]
            /\ chan[r] \in Seq(Nat)
          BY <3>1 DEF TakeNil, TypeOK
      <4>2. chan[r][1] = Nil /\ 1 \in 1..Len(chan[r])
          BY <4>1, BufferTail
      <4> QED
          BY <4>1, <4>2, PastNil
    <3> QED
        BY <3>1, <3>2 DEF TypeOK, Enqueue, Enter, Watch, WatchFail, Receive,
           SkipOld, TakeResult, CtxDone, Publish, PublishFail, Leave
  <2>2. CASE r \in sent' /\ r \notin sent
    <3>1. Publish(r) \/ PublishFail(r)
        BY <2>2 DEF Enqueue, Enter, Watch, WatchFail, Receive, SkipOld,
           TakeNil, TakeResult, CtxDone, Leave, taskVars
    <3> QED
        BY <3>1 DEF Publish, PublishFail, TypeOK, AnswerInv, WatchOrder
  <2> QED
      BY <2>1, <2>2
<1>4. stored'[r] # 0 /\ pc'[r] = "select" =>
        enqueued'[r] /\ \E i \in 1..Len(chan'[r]) : chan'[r][i] = stored'[r]
  <2> SUFFICES ASSUME stored[r] # 0, pc'[r] = "select" PROVE FALSE
      BY <1>1
  <2>1. r \in sent /\ pc[r] \in {"select", "leave", "done"}
        /\ (pc[r] = "select" => enqueued[r])
      BY DEF OwnInv, PublisherIsPastNil
  <2>2. TakeNil(r)
      BY <2>1 DEF TypeOK, Enqueue, Enter, Watch, WatchFail, Receive, SkipOld,
         TakeResult, CtxDone, Publish, PublishFail, Leave
  <2>3. /\ chan[r] # <<>> /\ Head(chan[r]) = Nil /\ enqueued[r]
        /\ chan[r] \in Seq(Nat)
      BY <2>1, <2>2 DEF TakeNil, TypeOK
  <2>4. chan[r][1] = Nil /\ 1 \in 1..Len(chan[r])
      BY <2>3, BufferTail
  <2> QED
      BY <2>3, <2>4, PastNil
<1>5. PublisherIsPastNil'
    BY <1>1, <1>2, <1>3 DEF OwnInv, PublisherIsPastNil, TypeOK
<1>6. \A q \in Req : stored'[q] # 0 => q \in sent'
    BY <1>1 DEF OwnInv
<1>7. OwnResultArrives'
    BY <1>1, <1>2, <1>4 DEF OwnInv, OwnResultArrives
<1> QED
    BY <1>5, <1>6, <1>7 DEF OwnInv

LEMMA OwnPut ==
    ASSUME TypeOK, TaskInv, AnswerInv, OwnInv, NEW w \in Worker, Put(w)
    PROVE  OwnInv'
<1> DEFINE c == cur[w]
           k == KeyOf[c]
           v == kv[k] + 1
<1>1. c \in Req /\ c \in sent /\ v \in Nat
  <2>1. wpc[w] = "put"
      BY DEF Put
  <2>2. c \in Req /\ c \in sent
      BY <2>1, ConstantsAssumption DEF TypeOK, TaskInv, TasksKnown
  <2>3. k \in Key
      BY <2>2, ConstantsAssumption
  <2> QED
      BY <2>2, <2>3 DEF TypeOK
<1>2. PICK early \in SUBSET {r \in Req : KeyOf[r] = k /\ Replaying(r)} :
         chan' = [r \in Req |->
                    IF r \in early THEN <<v, Nil>>
                    ELSE IF KeyOf[r] = k /\ Watching(r)
                         THEN Append(chan[r], v)
                         ELSE chan[r]]
    BY DEF Put
<1>3. /\ pc' = pc /\ enqueued' = enqueued /\ sent' = sent
      /\ stored' = [stored EXCEPT ![c] = v]
    BY DEF Put
<1> HIDE DEF c, k, v
<1>4. ASSUME NEW q \in Req, stored'[q] # 0, pc[q] = "select"
      PROVE  enqueued[q] /\ \E i \in 1..Len(chan'[q]) : chan'[q][i] = stored'[q]
  <2>1. q \in sent /\ enqueued[q]
      BY <1>1, <1>3, <1>4 DEF OwnInv, PublisherIsPastNil, TypeOK
  <2>2. q \notin early
    <3>1. Len(chan[q]) = 2 => chan[q][2] # Nil
        BY <2>1, PastNil
    <3> QED
        BY <1>2, <3>1 DEF Replaying
  <2>3. chan[q] \in Seq(Nat) /\ Len(chan[q]) \in Nat
      BY LenProperties DEF TypeOK
  <2>4. CASE KeyOf[q] = k
    <3>1. chan'[q] = Append(chan[q], v)
        BY <1>2, <1>4, <2>2, <2>4 DEF Watching
    <3>2. /\ Len(chan'[q]) = Len(chan[q]) + 1
          /\ \A i \in 1..Len(chan[q]) : chan'[q][i] = chan[q][i]
          /\ chan'[q][Len(chan[q]) + 1] = v
        BY <1>1, <2>3, <3>1, BufferAppend
    <3>3. CASE q = c
      <4>1. Len(chan[q]) + 1 \in 1..Len(chan'[q]) /\ stored'[q] = v
          BY <1>3, <2>3, <3>2, <3>3 DEF TypeOK
      <4> QED
          BY <2>1, <3>2, <4>1
    <3>4. CASE q # c
      <4>1. stored'[q] = stored[q]
          BY <1>3, <3>4 DEF TypeOK
      <4>2. PICK i \in 1..Len(chan[q]) : chan[q][i] = stored[q]
          BY <1>4, <4>1 DEF OwnInv, OwnResultArrives
      <4>3. i \in 1..Len(chan'[q])
          BY <2>3, <3>2
      <4> QED
          BY <2>1, <3>2, <4>1, <4>2, <4>3
    <3> QED
        BY <3>3, <3>4
  <2>5. CASE KeyOf[q] # k
    <3>1. q # c /\ chan'[q] = chan[q]
        BY <1>2, <2>2, <2>5 DEF k
    <3>2. stored'[q] = stored[q]
        BY <1>3, <3>1 DEF TypeOK
    <3> QED
        BY <1>4, <2>1, <3>1, <3>2 DEF OwnInv, OwnResultArrives
  <2> QED
      BY <2>4, <2>5
<1>5. PublisherIsPastNil'
    BY <1>3 DEF OwnInv, PublisherIsPastNil
<1>6. \A q \in Req : stored'[q] # 0 => q \in sent'
    BY <1>1, <1>3 DEF OwnInv, TypeOK
<1>7. OwnResultArrives'
    BY <1>3, <1>4 DEF OwnResultArrives
<1> QED
    BY <1>5, <1>6, <1>7 DEF OwnInv

LEMMA OwnStep ==
    TypeOK /\ TaskInv /\ AnswerInv /\ OwnInv /\ [Next]_vars => OwnInv'
<1> SUFFICES ASSUME TypeOK, TaskInv, AnswerInv, OwnInv, [Next]_vars
             PROVE  OwnInv'
    OBVIOUS
<1>1. ASSUME UNCHANGED <<pc, enqueued, chan, sent, stored>> PROVE OwnInv'
    BY <1>1 DEF OwnInv, PublisherIsPastNil, OwnResultArrives
<1>2. ASSUME NEW s \in Server, ServerCrash(s) PROVE OwnInv'
  <2>1. sent' = sent /\ stored' = stored
      BY <1>2 DEF ServerCrash, taskVars
  <2>2. \A r \in Req : \/ pc'[r] = "done"
                       \/ /\ pc'[r] = pc[r] /\ chan'[r] = chan[r]
                          /\ enqueued'[r] = enqueued[r]
      BY <1>2 DEF ServerCrash, TypeOK
  <2>3. PublisherIsPastNil'
      BY <2>1, <2>2 DEF OwnInv, PublisherIsPastNil, TypeOK
  <2>4. OwnResultArrives'
    <3> SUFFICES ASSUME NEW r \in Req, pc'[r] = "select", stored'[r] # 0
                 PROVE  enqueued'[r] /\ \E i \in 1..Len(chan'[r]) :
                                         chan'[r][i] = stored'[r]
        BY DEF OwnResultArrives
    <3>1. pc'[r] = pc[r] /\ chan'[r] = chan[r] /\ enqueued'[r] = enqueued[r]
        BY <2>2
    <3> QED
        BY <2>1, <3>1 DEF OwnInv, OwnResultArrives
  <2> QED
      BY <2>1, <2>3, <2>4 DEF OwnInv
<1>3. ASSUME NEW w \in Worker, Callback(w), ~Put(w) PROVE OwnInv'
    BY <1>1, <1>3 DEF Callback, Start, TaskReturns, TaskPanics, DoubleAck,
                      PutFail, webVars, taskVars
<1>4. ASSUME NEW w \in Worker, NEW t \in Req, Deliver(w, t) PROVE OwnInv'
    BY <1>1, <1>4 DEF Deliver, webVars, taskVars
<1>5. ASSUME NEW w \in Worker, WorkerExit(w) \/ WorkerStart(w) PROVE OwnInv'
    BY <1>1, <1>5 DEF WorkerExit, WorkerStart, webVars, taskVars
<1>6. ASSUME NEW t \in Req, AckWaitOver(t) PROVE OwnInv'
    BY <1>1, <1>6 DEF AckWaitOver, webVars, taskVars
<1>7. CASE UNCHANGED vars
    BY <1>1, <1>7 DEF vars, webVars, taskVars
<1> QED
    BY <1>2, <1>3, <1>4, <1>5, <1>6, <1>7, OwnEnqueue, OwnPut DEF Next

\* A request that publishes watches the key already and has taken the nil, so
\* the result of its task cannot slip by: while it waits, that is in its channel.
THEOREM OwnResultsArrive == Spec => []OwnResultArrives
<1>1. Init => OwnInv
    BY DEF Init, OwnInv, PublisherIsPastNil, OwnResultArrives
<1>2. OwnInv => OwnResultArrives
    BY DEF OwnInv
<1> QED
    BY <1>1, <1>2, TypeCorrect, TaskInit, TaskStep, AnswerInit, AnswerStep,
       OwnStep, PTL DEF Spec

-----------------------------------------------------------------------------
(* The promise of adapters.WorkQueue *)

LEMMA RefinesInit == Init => WQ!Init
BY DEF Init, WQ!Init, Status

LEMMA RefinesEnqueue ==
    ASSUME TypeOK, AnswerInv, NEW r \in Req, Enqueue(r)
    PROVE  [WQ!Next]_(WQ!vars)
<1>1. CASE Enter(r)
  <2>1. WQ!Call(r)
    <3>1. pc[r] = "idle" /\ pc' = [pc EXCEPT ![r] = "watch"]
        BY <1>1 DEF Enter
    <3>2. [q \in Req |-> Status(q)'] = [[q \in Req |-> Status(q)] EXCEPT ![r] = "waiting"]
        BY <3>1 DEF Status, TypeOK
    <3>3. [q \in Req |-> IF pc'[q] = "done" THEN ans'[q] ELSE 0]
          = [q \in Req |-> IF pc[q] = "done" THEN ans[q] ELSE 0]
        BY <1>1, <3>1 DEF Enter, TypeOK
    <3> QED
        BY <1>1, <3>1, <3>2, <3>3 DEF Enter, WQ!Call, Status
  <2> QED
      BY <2>1 DEF WQ!Next
<1>2. CASE Leave(r)
  <2>1. /\ pc[r] = "leave" /\ pc' = [pc EXCEPT ![r] = "done"]
        /\ ans' = ans /\ kv' = kv /\ since' = since
      BY <1>2 DEF Leave
  <2>2. [q \in Req |-> Status(q)'] = [[q \in Req |-> Status(q)] EXCEPT ![r] = "done"]
      BY <2>1 DEF Status, TypeOK
  <2>3. CASE ans[r] = 0
    <3>1. WQ!Fail({r})
      <4>1. [q \in Req |-> Status(q)']
            = [q \in Req |-> IF q \in {r} THEN "done"
                             ELSE [p \in Req |-> Status(p)][q]]
          BY <2>2
      <4>2. [q \in Req |-> IF pc'[q] = "done" THEN ans'[q] ELSE 0]
            = [q \in Req |-> IF pc[q] = "done" THEN ans[q] ELSE 0]
          BY <2>1, <2>3 DEF TypeOK
      <4>3. [p \in Req |-> Status(p)][r] = "waiting"
          BY <2>1 DEF Status
      <4> QED
          BY <2>1, <4>1, <4>2, <4>3 DEF WQ!Fail
    <3> QED
        BY <3>1 DEF WQ!Next
  <2>4. CASE ans[r] # 0
    <3>1. WQ!Return(r)
      <4>1. ans[r] \in (since[r] + 1)..kv[KeyOf[r]]
        <5>1. KeyOf[r] \in Key
            BY ConstantsAssumption
        <5> QED
            BY <2>4, <5>1 DEF AnswerInv, WatchOrder, TypeOK
      <4>2. [q \in Req |-> IF pc'[q] = "done" THEN ans'[q] ELSE 0]
            = [[q \in Req |-> IF pc[q] = "done" THEN ans[q] ELSE 0]
                  EXCEPT ![r] = ans[r]]
          BY <2>1 DEF TypeOK
      <4>3. [p \in Req |-> Status(p)][r] = "waiting"
          BY <2>1 DEF Status
      <4> QED
          BY <2>1, <2>2, <4>1, <4>2, <4>3 DEF WQ!Return
    <3> QED
        BY <3>1 DEF WQ!Next
  <2> QED
      BY <2>3, <2>4
<1>3. CASE ~Enter(r) /\ ~Leave(r)
  <2>1. /\ kv' = kv /\ since' = since
        /\ pc[r] \notin {"idle", "done"} /\ pc'[r] \notin {"idle", "done"}
        /\ \A q \in Req : q # r => pc'[q] = pc[q] /\ ans'[q] = ans[q]
      BY <1>3 DEF TypeOK, Enqueue, Watch, WatchFail, Receive, SkipOld, TakeNil,
         TakeResult, CtxDone, Publish, PublishFail
  <2>2. [q \in Req |-> Status(q)'] = [q \in Req |-> Status(q)]
      BY <2>1 DEF Status
  <2>3. [q \in Req |-> IF pc'[q] = "done" THEN ans'[q] ELSE 0]
        = [q \in Req |-> IF pc[q] = "done" THEN ans[q] ELSE 0]
      BY <2>1
  <2> QED
      BY <2>1, <2>2, <2>3 DEF WQ!vars
<1> QED
    BY <1>1, <1>2, <1>3

LEMMA RefinesStep ==
    TypeOK /\ AnswerInv /\ [Next]_vars => [WQ!Next]_(WQ!vars)
<1> SUFFICES ASSUME TypeOK, AnswerInv, [Next]_vars
             PROVE  [WQ!Next]_(WQ!vars)
    OBVIOUS
<1>1. ASSUME UNCHANGED <<webVars, kv, since>> PROVE [WQ!Next]_(WQ!vars)
    BY <1>1 DEF webVars, WQ!vars, Status
<1>2. ASSUME NEW s \in Server, ServerCrash(s) PROVE [WQ!Next]_(WQ!vars)
  <2> DEFINE lost == {r \in Req : SrvOf[r] = s /\ pc[r] \notin {"idle", "done"}}
  <2>1. /\ lost # {} /\ kv' = kv /\ since' = since
        /\ pc' = [r \in Req |-> IF r \in lost THEN "done" ELSE pc[r]]
        /\ ans' = [r \in Req |-> IF r \in lost THEN 0 ELSE ans[r]]
      BY <1>2 DEF ServerCrash
  <2>2. [q \in Req |-> Status(q)']
        = [q \in Req |-> IF q \in lost THEN "done" ELSE [p \in Req |-> Status(p)][q]]
      BY <2>1 DEF Status
  <2>3. [q \in Req |-> IF pc'[q] = "done" THEN ans'[q] ELSE 0]
        = [q \in Req |-> IF pc[q] = "done" THEN ans[q] ELSE 0]
      BY <2>1
  <2>4. \A q \in lost : [p \in Req |-> Status(p)][q] = "waiting"
      BY DEF Status
  <2>5. WQ!Fail(lost)
      BY <2>1, <2>2, <2>3, <2>4 DEF WQ!Fail
  <2>6. lost \in SUBSET Req
      OBVIOUS
  <2> QED
      BY <2>5, <2>6 DEF WQ!Next
<1>3. ASSUME NEW w \in Worker, Put(w) PROVE [WQ!Next]_(WQ!vars)
  <2>1. wpc[w] = "put"
      BY <1>3 DEF Put
  <2>2. cur[w] \in Req
      BY <2>1, ConstantsAssumption DEF TypeOK
  <2>3. KeyOf[cur[w]] \in Key
      BY <2>2, ConstantsAssumption
  <2>4. WQ!NewResult(KeyOf[cur[w]])
    <3>1. /\ pc' = pc /\ ans' = ans /\ since' = since
          /\ kv' = [kv EXCEPT ![KeyOf[cur[w]]] = kv[KeyOf[cur[w]]] + 1]
        BY <1>3 DEF Put
    <3> QED
        BY <3>1 DEF WQ!NewResult, Status
  <2> QED
      BY <2>3, <2>4 DEF WQ!Next
<1>4. ASSUME NEW w \in Worker, Callback(w), ~Put(w) PROVE [WQ!Next]_(WQ!vars)
    BY <1>1, <1>4 DEF Callback, Start, TaskReturns, TaskPanics, DoubleAck,
                      PutFail
<1>5. ASSUME NEW w \in Worker, NEW t \in Req, Deliver(w, t)
      PROVE  [WQ!Next]_(WQ!vars)
    BY <1>1, <1>5 DEF Deliver
<1>6. ASSUME NEW w \in Worker, WorkerExit(w) \/ WorkerStart(w)
      PROVE  [WQ!Next]_(WQ!vars)
    BY <1>1, <1>6 DEF WorkerExit, WorkerStart
<1>7. ASSUME NEW t \in Req, AckWaitOver(t) PROVE [WQ!Next]_(WQ!vars)
    BY <1>1, <1>7 DEF AckWaitOver
<1>8. CASE UNCHANGED vars
    BY <1>1, <1>8 DEF vars
<1> QED
    BY <1>2, <1>3, <1>4, <1>5, <1>6, <1>7, <1>8, RefinesEnqueue DEF Next

\* Enqueue over streams, watchers and workers, with every fault, is an
\* implementation of WorkQueue: an error, or a value newer than the call.
THEOREM ImplementsWorkQueue == Spec => RefinesWorkQueue
BY RefinesInit, RefinesStep, TypeCorrect, AnswerInit, AnswerStep, PTL
DEF Spec, RefinesWorkQueue, WQ!Spec
=============================================================================
