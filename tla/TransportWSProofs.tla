------------------------- MODULE TransportWSProofs -------------------------
(***************************************************************************)
(* Theorems about TransportWS, for any ids and any number of operations on *)
(* a connection: the invariants and the action property its run checks.    *)
(***************************************************************************)
EXTENDS TransportWS, TLAPS

\* What is filed under an id answers that id, and was not reaped.
FiledIsOwn ==
  \A i \in Ids : operations[i] # NoTask =>
    idOf[operations[i]] = i /\ pc[operations[i]] \notin {"absent", "reaped"}

\* A task that was created answers an id; until it is reaped the loop can find
\* it: it is filed, or it is the one whose end the loop waits for.
NotLost ==
  \A t \in Tasks : pc[t] # "absent" =>
    /\ idOf[t] \in Ids
    /\ pc[t] # "reaped" => operations[idOf[t]] = t \/ stopping = t

\* The id of the task that is being stopped stays free until the loop goes on.
StoppingIsUnfiled ==
  IF loop = "stopping"
  THEN /\ stopping \in Tasks
       /\ pc[stopping] \in {"closing", "done", "reaped"}
       /\ operations[idOf[stopping]] = NoTask
  ELSE stopping = NoTask

\* Only a task that can still close it has an open stream.
OpenIsOwned == \A t \in Tasks : pc[t] \in {"absent", "done", "reaped"} => ~IsOpen(t)

\* A task is over for its client exactly when only its finally is left to run.
OverForClient ==
  \A t \in Tasks : verdict[t] # "none" <=> pc[t] \in {"closing", "done", "reaped"}

\* Once the connection is closed its tasks are over.
ClosedIsOver == loop = "closed" => \A t \in Tasks : pc[t] \notin Live

IInv ==
  /\ TypeOK /\ FiledIsOwn /\ NotLost /\ StoppingIsUnfiled /\ OpenIsOwned
  /\ OverForClient /\ ClosedIsOver
-----------------------------------------------------------------------------
LEMMA NoTaskIsNone == NoTask \notin Tasks
BY TransportAssumption DEF Tasks

LEMMA InitIInv == Init => IInv
<1> SUFFICES ASSUME Init PROVE IInv
  OBVIOUS
<1>1. TypeOK
  BY DEF Init, TypeOK
<1>2. FiledIsOwn /\ NotLost /\ StoppingIsUnfiled
  BY DEF Init, FiledIsOwn, NotLost, StoppingIsUnfiled
<1>3. OpenIsOwned /\ OverForClient /\ ClosedIsOver
  BY DEF Init, OpenIsOwned, OverForClient, ClosedIsOver, IsOpen
<1> QED BY <1>1, <1>2, <1>3 DEF IInv

-----------------------------------------------------------------------------
\* The receive loop.

\* Where cancellation leaves the tasks: only the finally of those that ran is
\* left, and the client is told nothing more of them.
LEMMA CancelledTasks ==
  ASSUME IInv, NEW S \in SUBSET Tasks, NEW why \in {"stopped", "dropped"}, CancelTasks(S, why)
  PROVE  /\ pc' \in [Tasks -> {"absent", "starting", "streaming", "sending", "draining",
                               "closing", "done", "reaped"}]
         /\ outbox' \in [Tasks -> {"none", "next", "complete", "result", "report"}]
         /\ verdict' \in [Tasks -> {"none", "answered", "stopped", "dropped", "aborted",
                                    "unsent"}]
         /\ OpenIsOwned' /\ OverForClient'
         /\ \A t \in Tasks : /\ pc'[t] = "absent" <=> pc[t] = "absent"
                             /\ pc'[t] = "reaped" <=> pc[t] = "reaped"
                             /\ pc[t] \notin Live => pc'[t] = pc[t]
         /\ \A t \in S : pc[t] \notin {"absent", "reaped"} => pc'[t] \in {"closing", "done"}
<1> USE DEF IInv, TypeOK, CancelTasks, Live, Unwound
<1>1. /\ pc' \in [Tasks -> {"absent", "starting", "streaming", "sending", "draining",
                            "closing", "done", "reaped"}]
      /\ outbox' \in [Tasks -> {"none", "next", "complete", "result", "report"}]
      /\ verdict' \in [Tasks -> {"none", "answered", "stopped", "dropped", "aborted",
                                 "unsent"}]
  OBVIOUS
<1>2. OpenIsOwned'
  BY DEF OpenIsOwned, IsOpen
<1>3. OverForClient'
  BY DEF OverForClient
<1> QED BY <1>1, <1>2, <1>3

\* Messages that are answered at once touch no task.
LEMMA ReplyIInv ==
  ASSUME IInv, ReceiveInit \/ ReceiveAnswered \/ ReplySent
  PROVE  IInv'
<1>1. /\ loop' \in {"receiving", "replying"} /\ loop \in {"receiving", "replying"}
      /\ reply' \in {"none", "ack", "pong", "error"}
      /\ acknowledged' \in BOOLEAN /\ ackSent' \in BOOLEAN
      /\ UNCHANGED <<stopping, operations, taskVars>>
  BY DEF IInv, TypeOK, ReceiveInit, ReceiveAnswered, ReplySent, Reply
<1>2. TypeOK'
  BY <1>1 DEF IInv, TypeOK, taskVars
<1>3. FiledIsOwn' /\ NotLost' /\ StoppingIsUnfiled'
  BY <1>1 DEF IInv, FiledIsOwn, NotLost, StoppingIsUnfiled, taskVars
<1>4. OpenIsOwned' /\ OverForClient' /\ ClosedIsOver'
  BY <1>1 DEF IInv, OpenIsOwned, OverForClient, ClosedIsOver, IsOpen, taskVars
<1> QED BY <1>2, <1>3, <1>4 DEF IInv

LEMMA SubscribeIInv ==
  ASSUME IInv, NEW i \in Ids, NEW t \in Tasks, Subscribe(i, t)
  PROVE  IInv'
<1> USE NoTaskIsNone DEF IInv, TypeOK, Subscribe, Unused
<1>1. TypeOK'
  OBVIOUS
<1>2. FiledIsOwn'
  BY DEF FiledIsOwn
<1>3. NotLost'
  BY DEF NotLost, StoppingIsUnfiled
<1>4. StoppingIsUnfiled'
  BY DEF StoppingIsUnfiled
<1>5. OpenIsOwned'
  BY DEF OpenIsOwned, IsOpen
<1>6. OverForClient' /\ ClosedIsOver'
  BY DEF OverForClient, ClosedIsOver
<1> QED BY <1>1, <1>2, <1>3, <1>4, <1>5, <1>6

LEMMA ReceiveCompleteIInv ==
  ASSUME IInv, NEW i \in Ids, ReceiveComplete(i)
  PROVE  IInv'
<1> DEFINE u == operations[i]
<1>1. /\ u \in Tasks /\ idOf[u] = i /\ pc[u] \notin {"absent", "reaped"}
      /\ loop = "receiving" /\ stopping = NoTask
  BY DEF IInv, TypeOK, FiledIsOwn, ReceiveComplete, StoppingIsUnfiled
<1>2. /\ operations' = [operations EXCEPT ![i] = NoTask]
      /\ stopping' = u /\ loop' = "stopping"
      /\ CancelTasks({u}, "stopped")
      /\ UNCHANGED <<reply, acknowledged, ackSent, idOf, source>>
  BY DEF ReceiveComplete, CancelTasks
<1> HIDE DEF u
<1>3. TypeOK' /\ OpenIsOwned' /\ OverForClient'
  BY <1>1, <1>2, CancelledTasks DEF IInv, TypeOK
<1>4. \A t \in Tasks : /\ pc'[t] = "absent" <=> pc[t] = "absent"
                       /\ pc'[t] = "reaped" <=> pc[t] = "reaped"
  BY <1>1, <1>2, CancelledTasks
<1>5. pc'[u] \in {"closing", "done"}
  BY <1>1, <1>2, CancelledTasks
<1>6. FiledIsOwn'
  BY <1>1, <1>2, <1>4, NoTaskIsNone DEF IInv, TypeOK, FiledIsOwn
<1>7. NotLost'
  BY <1>1, <1>2, <1>4, NoTaskIsNone DEF IInv, TypeOK, NotLost, u
<1>8. StoppingIsUnfiled' /\ ClosedIsOver'
  BY <1>1, <1>2, <1>5 DEF IInv, TypeOK, StoppingIsUnfiled, ClosedIsOver
<1> QED BY <1>3, <1>6, <1>7, <1>8 DEF IInv

LEMMA StoppedIInv ==
  ASSUME IInv, Stopped
  PROVE  IInv'
<1> USE NoTaskIsNone DEF IInv, TypeOK, Stopped, taskVars
<1>1. TypeOK' /\ FiledIsOwn'
  BY DEF FiledIsOwn
<1>2. NotLost' /\ StoppingIsUnfiled'
  BY DEF NotLost, StoppingIsUnfiled
<1>3. OpenIsOwned' /\ OverForClient' /\ ClosedIsOver'
  BY DEF OpenIsOwned, OverForClient, ClosedIsOver, IsOpen
<1> QED BY <1>1, <1>2, <1>3

LEMMA LeaveLoopIInv ==
  ASSUME IInv, LeaveLoop
  PROVE  IInv'
<1> DEFINE S == {operations[i] : i \in Ids} \ {NoTask}
<1>1. /\ S \in SUBSET Tasks
      /\ loop' = "closing" /\ reply' = "none" /\ stopping' = NoTask
      /\ CancelTasks(S, "dropped")
      /\ UNCHANGED <<acknowledged, ackSent, operations, idOf, source>>
  BY DEF IInv, TypeOK, LeaveLoop, CancelTasks
<1>2. \A t \in Tasks : stopping = t => pc[t] = "reaped"
  BY NoTaskIsNone DEF IInv, LeaveLoop, StoppingIsUnfiled
<1> HIDE DEF S
<1>3. TypeOK' /\ OpenIsOwned' /\ OverForClient'
  BY <1>1, CancelledTasks DEF IInv, TypeOK
<1>4. \A t \in Tasks : /\ pc'[t] = "absent" <=> pc[t] = "absent"
                       /\ pc'[t] = "reaped" <=> pc[t] = "reaped"
  BY <1>1, CancelledTasks
<1>5. FiledIsOwn'
  BY <1>1, <1>4, NoTaskIsNone DEF IInv, TypeOK, FiledIsOwn
<1>6. NotLost'
  BY <1>1, <1>2, <1>4 DEF IInv, NotLost
<1>7. StoppingIsUnfiled' /\ ClosedIsOver'
  BY <1>1 DEF StoppingIsUnfiled, ClosedIsOver
<1> QED BY <1>3, <1>5, <1>6, <1>7 DEF IInv

\* The last gather waits for every filed task, and no other is alive.
LEMMA CloseConnectionIInv ==
  ASSUME IInv, CloseConnection
  PROVE  IInv'
<1> USE NoTaskIsNone DEF IInv, TypeOK, CloseConnection, taskVars
<1>1. TypeOK' /\ FiledIsOwn' /\ NotLost'
  BY DEF FiledIsOwn, NotLost
<1>2. StoppingIsUnfiled' /\ OpenIsOwned' /\ OverForClient'
  BY DEF StoppingIsUnfiled, OpenIsOwned, OverForClient, IsOpen
<1>3. ASSUME NEW t \in Tasks, pc[t] \in Live PROVE FALSE
  <2>1. idOf[t] \in Ids /\ operations[idOf[t]] = t
    BY <1>3 DEF NotLost, StoppingIsUnfiled, Live
  <2>2. pc[t] = "done"
    BY <2>1
  <2> QED BY <1>3, <2>2 DEF Live
<1>4. ClosedIsOver'
  BY <1>3 DEF ClosedIsOver
<1> QED BY <1>1, <1>2, <1>4

-----------------------------------------------------------------------------
\* The operation tasks.

\* A step of t alone, from where it is alive: its id stays, and it goes to p.
Moves(t, p) ==
  /\ UNCHANGED <<loopVars, idOf>>
  /\ pc[t] \in Live /\ p \in Live \cup {"done"} /\ (pc[t] = "closing" => p = "done")
  /\ pc' = [pc EXCEPT ![t] = p]
  /\ \A u \in Tasks \ {t} : verdict'[u] = verdict[u] /\ source'[u] = source[u]
  /\ p = "done" => ~IsOpen(t)'
  /\ verdict'[t] # "none" <=> p \in {"closing", "done"}

LEMMA MovesIInv ==
  ASSUME IInv, NEW t \in Tasks, NEW p, Moves(t, p),
         outbox' \in [Tasks -> {"none", "next", "complete", "result", "report"}],
         source' \in [Tasks -> {"none", "open", "failed", "closed"}],
         verdict' \in [Tasks -> {"none", "answered", "stopped", "dropped", "aborted", "unsent"}]
  PROVE  IInv'
<1> USE DEF IInv, TypeOK, loopVars, Live, Moves
<1>1. TypeOK'
  OBVIOUS
<1>2. FiledIsOwn' /\ NotLost'
  BY NoTaskIsNone DEF FiledIsOwn, NotLost
<1>3. StoppingIsUnfiled'
  BY NoTaskIsNone DEF StoppingIsUnfiled
<1>4. OpenIsOwned' /\ OverForClient'
  BY DEF OpenIsOwned, OverForClient, IsOpen
<1>5. ClosedIsOver'
  BY DEF ClosedIsOver
<1> QED BY <1>1, <1>2, <1>3, <1>4, <1>5

\* Whatever a task does before its done callback.
LEMMA RunIInv ==
  ASSUME IInv, NEW t \in Tasks,
         \/ Start(t) \/ Event(t) \/ SourceEnds(t) \/ EventAborts(t)
         \/ Drained(t) \/ Sent(t) \/ SendFails(t) \/ Close(t)
  PROVE  IInv'
<1> DEFINE
      Typed == /\ outbox' \in [Tasks -> {"none", "next", "complete", "result", "report"}]
               /\ source' \in [Tasks -> {"none", "open", "failed", "closed"}]
               /\ verdict' \in [Tasks -> {"none", "answered", "stopped", "dropped",
                                          "aborted", "unsent"}]
      Moved == \E p \in Live \cup {"done"} : Moves(t, p)
<1>0. Typed /\ Moved => IInv'
  BY MovesIInv
<1> USE DEF IInv, TypeOK, OverForClient, Moves, Goto, ToSend, Finally, Unwound, Conclude,
            Live, IsOpen
<1>1. CASE Start(t)
  <2>1. pc[t] = "starting" /\ verdict[t] = "none" /\ UNCHANGED <<loopVars, idOf>>
    BY <1>1 DEF Start
  <2>2. CASE /\ Goto(t, "streaming") /\ source' = [source EXCEPT ![t] = "open"]
             /\ UNCHANGED <<outbox, verdict>>
    <3>1. Typed
      BY <2>2
    <3>2. Moves(t, "streaming")
      BY <2>1, <2>2
    <3> QED BY <3>1, <3>2, <1>0
  <2>3. CASE \E m \in {"result", "report"} : ToSend(t, m) /\ UNCHANGED <<source, verdict>>
    <3>1. Typed
      BY <2>3
    <3>2. Moves(t, "sending")
      BY <2>1, <2>3
    <3> QED BY <3>1, <3>2, <1>0
  <2>4. CASE Finally(t) /\ Conclude(t, "aborted") /\ UNCHANGED <<source, outbox>>
    <3>1. Typed
      BY <2>4
    <3>2. Moves(t, Unwound(t))
      BY <2>1, <2>4
    <3> QED BY <3>1, <3>2, <1>0
  <2> QED BY <1>1, <2>2, <2>3, <2>4 DEF Start
<1>2. CASE Event(t)
  <2>1. Typed
    BY <1>2 DEF Event
  <2>2. Moves(t, "sending")
    BY <1>2 DEF Event
  <2> QED BY <2>1, <2>2, <1>0
<1>3. CASE SourceEnds(t)
  <2>1. Typed
    BY <1>3 DEF SourceEnds
  <2>2. Moves(t, "draining")
    BY <1>3 DEF SourceEnds
  <2> QED BY <2>1, <2>2, <1>0
<1>4. CASE EventAborts(t)
  <2>1. Typed
    BY <1>4 DEF EventAborts
  <2>2. Moves(t, "closing")
    BY <1>4 DEF EventAborts
  <2> QED BY <2>1, <2>2, <1>0
<1>5. CASE Drained(t)
  <2>1. Typed
    BY <1>5 DEF Drained
  <2>2. Moves(t, "sending")
    BY <1>5 DEF Drained
  <2> QED BY <2>1, <2>2, <1>0
<1>6. CASE Sent(t)
  <2>1. Typed
    BY <1>6 DEF Sent
  <2>2. CASE outbox[t] = "next"
    <3>1. Moves(t, IF source[t] = "failed" THEN "draining" ELSE "streaming")
      BY <1>6, <2>2 DEF Sent
    <3> QED BY <2>1, <3>1, <1>0
  <2>3. CASE outbox[t] # "next"
    <3>1. Moves(t, Unwound(t))
      BY <1>6, <2>3 DEF Sent
    <3> QED BY <2>1, <3>1, <1>0
  <2> QED BY <2>2, <2>3
<1>7. CASE SendFails(t)
  <2>1. Typed
    BY <1>7 DEF SendFails
  <2>2. CASE outbox[t] # "report"
    <3>1. Moves(t, "sending")
      BY <1>7, <2>2 DEF SendFails
    <3> QED BY <2>1, <3>1, <1>0
  <2>3. CASE outbox[t] = "report"
    <3>1. Moves(t, Unwound(t))
      BY <1>7, <2>3 DEF SendFails
    <3> QED BY <2>1, <3>1, <1>0
  <2> QED BY <2>2, <2>3
<1>8. CASE Close(t)
  <2>1. Typed
    BY <1>8 DEF Close
  <2>2. Moves(t, "done")
    BY <1>8 DEF Close
  <2> QED BY <2>1, <2>2, <1>0
<1> QED BY <1>1, <1>2, <1>3, <1>4, <1>5, <1>6, <1>7, <1>8

\* The done callback of a task unfiles no other: its id is its own, or, while
\* the loop waits for it, nobody's.
LEMMA ReapIInv ==
  ASSUME IInv, NEW t \in Tasks, Reap(t)
  PROVE  IInv'
<1> USE NoTaskIsNone DEF IInv, TypeOK, Reap, Goto
<1>1. TypeOK'
  OBVIOUS
<1>2. idOf[t] \in Ids /\ operations[idOf[t]] \in {t, NoTask}
  BY DEF NotLost, StoppingIsUnfiled
<1>3. FiledIsOwn'
  BY <1>2 DEF FiledIsOwn
<1>4. NotLost'
  BY <1>2 DEF NotLost
<1>5. StoppingIsUnfiled'
  BY <1>2 DEF StoppingIsUnfiled, NotLost
<1>6. OpenIsOwned' /\ OverForClient' /\ ClosedIsOver'
  BY DEF OpenIsOwned, OverForClient, ClosedIsOver, IsOpen, Live
<1> QED BY <1>1, <1>3, <1>4, <1>5, <1>6

-----------------------------------------------------------------------------
LEMMA NextIInv == IInv /\ [Next]_vars => IInv'
<1> SUFFICES ASSUME IInv, [Next]_vars PROVE IInv'
  OBVIOUS
<1>1. CASE ReceiveInit \/ ReceiveAnswered \/ ReplySent
  BY <1>1, ReplyIInv
<1>2. CASE \E i \in Ids, t \in Tasks : Subscribe(i, t)
  BY <1>2, SubscribeIInv
<1>3. CASE \E i \in Ids : ReceiveComplete(i)
  BY <1>3, ReceiveCompleteIInv
<1>4. CASE Stopped \/ LeaveLoop \/ CloseConnection
  BY <1>4, StoppedIInv, LeaveLoopIInv, CloseConnectionIInv
<1>5. CASE \E t \in Tasks : RunOperation(t)
  BY <1>5, RunIInv, ReapIInv DEF RunOperation
<1>6. CASE UNCHANGED vars
  <2> USE <1>6 DEF IInv, vars, loopVars, taskVars
  <2>1. TypeOK' /\ FiledIsOwn' /\ NotLost' /\ StoppingIsUnfiled'
    BY DEF TypeOK, FiledIsOwn, NotLost, StoppingIsUnfiled
  <2>2. OpenIsOwned' /\ OverForClient' /\ ClosedIsOver'
    BY DEF OpenIsOwned, OverForClient, ClosedIsOver, IsOpen
  <2> QED BY <2>1, <2>2
<1> QED BY <1>1, <1>2, <1>3, <1>4, <1>5, <1>6 DEF Next

LEMMA Invariance == Spec => []IInv
BY InitIInv, NextIInv, PTL DEF Spec

\* The handler's state is always well-formed: what is filed is a task, and
\* every task is at one of the awaits of _run_operation.
THEOREM TypeCorrect == Spec => []TypeOK
<1>1. IInv => TypeOK
  BY DEF IInv
<1> QED BY <1>1, Invariance, PTL

\* When handle() has returned, no operation of the connection runs and no
\* source stream is open, whatever was going on when the loop was left.
THEOREM NothingLeft == Spec => []NothingLeftAtClose
<1>1. IInv => NothingLeftAtClose
  BY DEF IInv, TypeOK, NothingLeftAtClose, ClosedIsOver, OpenIsOwned, Live
<1> QED BY <1>1, Invariance, PTL

\* No operation ends without its client having been told, having stopped it or
\* having gone, but for an abort from within and a last message not sent.
THEOREM EndsAreExplained == Spec => []NoSilentEnd
<1>1. IInv => NoSilentEnd
  BY DEF IInv, NoSilentEnd, OverForClient
<1> QED BY <1>1, Invariance, PTL

\* No message of an operation goes out once it is over for the client.
THEOREM Silence == Spec => SilentAfterVerdict
<1>1. IInv => \A t \in Tasks : Sent(t) => verdict[t] = "none"
  BY DEF IInv, OverForClient, Sent
<1>2. IInv /\ [Next]_vars => [\A t \in Tasks : Sent(t) => verdict[t] = "none"]_vars
  BY <1>1
<1> QED BY <1>2, Invariance, PTL DEF Spec, SilentAfterVerdict
=============================================================================
