---------------------------- MODULE TransportWS ----------------------------
(***************************************************************************)
(* fastql/integrations/websocket.py: one graphql-transport-ws connection.  *)
(*                                                                         *)
(* The receive loop of handle() and one task per accepted operation        *)
(* interleave at their awaits.  A subscription source is the stream of     *)
(* execute.py's _map_source_to_response: it yields, ends, fails, or is     *)
(* closed by aclose().  Messages are modelled by their type.               *)
(*                                                                         *)
(* Operators named Bug... are plausible mistakes in the definition below   *)
(* them; no specification uses them (see PROJECT.json, "mutants").         *)
(***************************************************************************)
EXTENDS Naturals

CONSTANTS
  Ids,      \* operation ids the client uses
  MaxTasks, \* bound: operations accepted on the connection
  NoTask    \* no operation task

ASSUME TransportAssumption == MaxTasks \in Nat /\ NoTask \notin 1..MaxTasks

VARIABLES
  loop,          \* where handle() is: receiving, replying, stopping, closing or closed
  reply,         \* the message handle() is sending while it is replying
  stopping,      \* the task a client's complete waits for, or NoTask
  acknowledged,  \* whether connection_init was seen
  ackSent,       \* history: connection_ack was delivered
  operations,    \* id -> task, or NoTask
  pc,            \* where _run_operation of each task is
  idOf,          \* the id each task answers
  outbox,        \* the message each task is sending
  source,        \* the source stream of each task: none, open, failed or closed
  verdict        \* history: what ended each task, as far as the client is concerned

loopVars == <<loop, reply, stopping, acknowledged, ackSent, operations>>
taskVars == <<pc, idOf, outbox, source, verdict>>
vars == <<loopVars, taskVars>>

Tasks == 1..MaxTasks
Live == {"starting", "streaming", "sending", "draining", "closing"}
IsOpen(t) == source[t] \in {"open", "failed"}

TypeOK ==
  /\ loop \in {"receiving", "replying", "stopping", "closing", "closed"}
  /\ reply \in {"none", "ack", "pong", "error"}
  /\ stopping \in Tasks \cup {NoTask}
  /\ acknowledged \in BOOLEAN /\ ackSent \in BOOLEAN
  /\ operations \in [Ids -> Tasks \cup {NoTask}]
  /\ pc \in [Tasks -> {"absent", "starting", "streaming", "sending", "draining",
                       "closing", "done", "reaped"}]
  /\ idOf \in [Tasks -> Ids \cup {NoTask}]
  /\ outbox \in [Tasks -> {"none", "next", "complete", "result", "report"}]
  /\ source \in [Tasks -> {"none", "open", "failed", "closed"}]
  /\ verdict \in [Tasks -> {"none", "answered", "stopped", "dropped", "aborted", "unsent"}]

Init ==
  /\ loop = "receiving" /\ reply = "none" /\ stopping = NoTask
  /\ acknowledged = FALSE /\ ackSent = FALSE
  /\ operations = [i \in Ids |-> NoTask]
  /\ pc = [t \in Tasks |-> "absent"]
  /\ idOf = [t \in Tasks |-> NoTask]
  /\ outbox = [t \in Tasks |-> "none"]
  /\ source = [t \in Tasks |-> "none"]
  /\ verdict = [t \in Tasks |-> "none"]

-----------------------------------------------------------------------------
(* The receive loop.                                                       *)

\* await send_message(m)
Reply(m) == loop' = "replying" /\ reply' = m

\* connection_init: the first is acknowledged, any other is an error.
ReceiveInit ==
  /\ loop = "receiving"
  /\ Reply(IF acknowledged THEN "error" ELSE "ack")
  /\ acknowledged' = TRUE
  /\ UNCHANGED <<stopping, ackSent, operations, taskVars>>

\* Messages that are only answered: ping; an unknown type; a subscribe that is
\* too early, malformed, or whose id is in use.  A pong is not even answered.
ReceiveAnswered ==
  /\ loop = "receiving"
  /\ \E m \in {"pong", "error"} : Reply(m)
  /\ UNCHANGED <<stopping, acknowledged, ackSent, operations, taskVars>>

\* operation_id in operations
Unused(i) == operations[i] = NoTask

\* subscribe that is accepted: a task is created and filed under its id.
Subscribe(i, t) ==
  /\ loop = "receiving" /\ acknowledged
  /\ Unused(i)
  /\ pc[t] = "absent" /\ \A u \in Tasks : u < t => pc[u] # "absent"
  /\ operations' = [operations EXCEPT ![i] = t]
  /\ pc' = [pc EXCEPT ![t] = "starting"]
  /\ idOf' = [idOf EXCEPT ![t] = i]
  /\ UNCHANGED <<loop, reply, stopping, acknowledged, ackSent, outbox, source, verdict>>

\* Where a task that unwinds goes: its finally closes a stream that is open.
BugNoAclose(t) == "done"
Unwound(t) == IF IsOpen(t) THEN "closing" ELSE "done"

\* task.cancel() of the tasks in S: CancelledError at the await each is at, so
\* that only the finally that closes the stream is left to run.
BugNotCancelled(S, why) ==
  /\ verdict' = [t \in Tasks |->
       IF t \in S /\ pc[t] \in Live /\ verdict[t] = "none" THEN why ELSE verdict[t]]
  /\ UNCHANGED <<pc, idOf, outbox, source>>
CancelTasks(S, why) ==
  /\ pc' = [t \in Tasks |-> IF t \in S /\ pc[t] \in Live THEN Unwound(t) ELSE pc[t]]
  /\ verdict' = [t \in Tasks |->
       IF t \in S /\ pc[t] \in Live /\ verdict[t] = "none" THEN why ELSE verdict[t]]
  /\ outbox' = [t \in Tasks |-> IF t \in S THEN "none" ELSE outbox[t]]
  /\ UNCHANGED <<idOf, source>>

\* complete of an active id: unfiled, cancelled and waited for.  Of any other
\* id it is ignored.
ReceiveComplete(i) ==
  /\ loop = "receiving" /\ operations[i] # NoTask
  /\ operations' = [operations EXCEPT ![i] = NoTask]
  /\ stopping' = operations[i]
  /\ loop' = "stopping"
  /\ CancelTasks({operations[i]}, "stopped")
  /\ UNCHANGED <<reply, acknowledged, ackSent>>

\* The gather over the stopped task returns, after the task's done callback.
Stopped ==
  /\ loop = "stopping" /\ pc[stopping] = "reaped"
  /\ loop' = "receiving" /\ stopping' = NoTask
  /\ UNCHANGED <<reply, acknowledged, ackSent, operations, taskVars>>

\* The adapter's send of a reply returns.
ReplySent ==
  /\ loop = "replying"
  /\ loop' = "receiving" /\ reply' = "none"
  /\ ackSent' = (ackSent \/ reply = "ack")
  /\ UNCHANGED <<stopping, acknowledged, operations, taskVars>>

\* The finally of handle(): receive returned None, receive or send raised, or
\* the server cancelled the handler (its gather still waits for a task that is
\* being stopped).  Every filed task is cancelled.
LeaveLoop ==
  /\ \/ loop \in {"receiving", "replying"}
     \/ loop = "stopping" /\ pc[stopping] = "reaped"
  /\ loop' = "closing" /\ reply' = "none" /\ stopping' = NoTask
  /\ CancelTasks({operations[i] : i \in Ids} \ {NoTask}, "dropped")
  /\ UNCHANGED <<acknowledged, ackSent, operations>>

\* The last gather: the filed tasks are over.
CloseConnection ==
  /\ loop = "closing"
  /\ \A i \in Ids : operations[i] # NoTask => pc[operations[i]] = "done"
  /\ loop' = "closed"
  /\ UNCHANGED <<reply, stopping, acknowledged, ackSent, operations, taskVars>>

-----------------------------------------------------------------------------
(* The operation tasks.                                                    *)

Goto(t, l) == pc' = [pc EXCEPT ![t] = l]
Conclude(t, why) == verdict' = [verdict EXCEPT ![t] = why]
ToSend(t, m) == Goto(t, "sending") /\ outbox' = [outbox EXCEPT ![t] = m]
Finally(t) == Goto(t, Unwound(t))

\* execution_values and subscribe(): a stream, an ExecutionResult with errors,
\* an exception, or a CancelledError of something they awaited.
Start(t) ==
  /\ pc[t] = "starting"
  /\ \/ Goto(t, "streaming") /\ source' = [source EXCEPT ![t] = "open"]
        /\ UNCHANGED <<outbox, verdict>>
     \/ \E m \in {"result", "report"} : ToSend(t, m) /\ UNCHANGED <<source, verdict>>
     \/ Finally(t) /\ Conclude(t, "aborted") /\ UNCHANGED <<source, outbox>>
  /\ UNCHANGED <<loopVars, idOf>>

\* The source yields an event, or fails, which is reported as one last event.
Event(t) ==
  /\ pc[t] = "streaming"
  /\ ToSend(t, "next")
  /\ \E s \in {"open", "failed"} : source' = [source EXCEPT ![t] = s]
  /\ UNCHANGED <<loopVars, idOf, verdict>>

\* The source ends; the stream's own finally closes it.
BugNoComplete(t) ==
  /\ pc[t] = "streaming"
  /\ Goto(t, "closing")
  /\ UNCHANGED <<loopVars, idOf, outbox, source, verdict>>
SourceEnds(t) ==
  /\ pc[t] = "streaming"
  /\ Goto(t, "draining")
  /\ UNCHANGED <<loopVars, idOf, outbox, source, verdict>>

\* Executing an event raised CancelledError, which no handler reports: the
\* task unwinds as if it had been cancelled.
EventAborts(t) ==
  /\ pc[t] = "streaming"
  /\ Goto(t, "closing")
  /\ Conclude(t, "aborted")
  /\ UNCHANGED <<loopVars, idOf, outbox, source>>

\* aclose() of a source that ended or failed returns, or raises.
Drained(t) ==
  /\ pc[t] = "draining"
  /\ \E m \in {"complete", "report"} : ToSend(t, m)
  /\ source' = [source EXCEPT ![t] = "closed"]
  /\ UNCHANGED <<loopVars, idOf, verdict>>

\* send() of the task's message returns.
Sent(t) ==
  /\ pc[t] = "sending"
  /\ outbox' = [outbox EXCEPT ![t] = "none"]
  /\ IF outbox[t] = "next"
     THEN /\ Goto(t, IF source[t] = "failed" THEN "draining" ELSE "streaming")
          /\ UNCHANGED verdict
     ELSE Finally(t) /\ Conclude(t, "answered")
  /\ UNCHANGED <<loopVars, idOf, source>>

\* send() raises: the error is reported instead, once.
SendFails(t) ==
  /\ pc[t] = "sending"
  /\ IF outbox[t] # "report"
     THEN ToSend(t, "report") /\ UNCHANGED verdict
     ELSE /\ Finally(t) /\ Conclude(t, "unsent")
          /\ outbox' = [outbox EXCEPT ![t] = "none"]
  /\ UNCHANGED <<loopVars, idOf, source>>

\* aclose() of a stream that was left early returns.
Close(t) ==
  /\ pc[t] = "closing"
  /\ Goto(t, "done")
  /\ source' = [source EXCEPT ![t] = "closed"]
  /\ UNCHANGED <<loopVars, idOf, outbox, verdict>>

\* The done callback: whatever is filed under the task's id is removed.
Reap(t) ==
  /\ pc[t] = "done"
  /\ Goto(t, "reaped")
  /\ operations' = [operations EXCEPT ![idOf[t]] = NoTask]
  /\ UNCHANGED <<loop, reply, stopping, acknowledged, ackSent, idOf, outbox, source, verdict>>

RunOperation(t) ==
  \/ Start(t) \/ Event(t) \/ SourceEnds(t) \/ EventAborts(t)
  \/ Drained(t) \/ Sent(t) \/ SendFails(t) \/ Close(t) \/ Reap(t)

Next ==
  \/ ReceiveInit \/ ReceiveAnswered
  \/ \E i \in Ids, t \in Tasks : Subscribe(i, t)
  \/ \E i \in Ids : ReceiveComplete(i)
  \/ Stopped \/ ReplySent \/ LeaveLoop \/ CloseConnection
  \/ \E t \in Tasks : RunOperation(t)

Spec == Init /\ [][Next]_vars

\* The event loop resumes a handler or a task whose await is over, and aclose()
\* and send() end.  Nothing makes a source yield or a client write.
Fairness ==
  /\ WF_vars(Stopped) /\ WF_vars(CloseConnection)
  /\ \A t \in Tasks :
       WF_vars(Drained(t)) /\ WF_vars(Sent(t) \/ SendFails(t)) /\ WF_vars(Close(t)) /\ WF_vars(Reap(t))

FairSpec == Spec /\ Fairness

-----------------------------------------------------------------------------

\* "aclose() is guaranteed on disconnect or cancellation": when handle() is
\* left, no operation runs and no source is open.
NothingLeftAtClose ==
  loop = "closed" => \A t \in Tasks : pc[t] \notin Live /\ ~IsOpen(t)

\* A client hears nothing of an operation once it is over for the client:
\* completed by it, answered by a terminal message, or dropped.
SilentAfterVerdict == [][\A t \in Tasks : Sent(t) => verdict[t] = "none"]_vars

\* No operation ends silently: its client got a terminal message, stopped it or
\* went away, or the task was aborted by a CancelledError from within or could
\* not send its last message.
NoSilentEnd == \A t \in Tasks : pc[t] \in {"done", "reaped"} => verdict[t] # "none"

\* Stopping an operation, and closing the connection, do not block forever.
LoopGoesOn ==
  /\ loop = "stopping" ~> loop # "stopping"
  /\ loop = "closing" ~> loop = "closed"

=============================================================================
