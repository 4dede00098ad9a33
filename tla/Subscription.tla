---------------------------- MODULE Subscription ----------------------------
(***************************************************************************)
(* fastql/execution/execute.py: _map_source_to_response, the generator that*)
(* subscribe() returns.  It asks the source for an event, executes the     *)
(* selections for it (Executor says how) and yields the result; whatever   *)
(* ends it, its finally closes the source.                                 *)
(***************************************************************************)
EXTENDS Naturals

CONSTANT MaxEvents \* bound: events of the source

VARIABLES
  sub,     \* where the generator is
  source,  \* the iterator of the resolver: open, or closed by aclose()
  results, \* results yielded so far
  failing  \* an exception is on its way out of the generator

subscriptionVars == <<sub, source, results, failing>>

SubscriptionInit == sub = "new" /\ source = "open" /\ results = 0 /\ failing = FALSE

\* The consumer asks: the source is asked in turn, or the loop is left after a
\* source that failed.
AskSource ==
  /\ sub \in {"new", "yielded", "failed"}
  /\ sub' = IF sub = "failed" THEN "closing" ELSE "asking"
  /\ UNCHANGED <<source, results, failing>>

\* StopAsyncIteration leaves the loop; an exception is yielded as a result first.
SourceYields ==
  /\ sub = "asking" /\ source = "open" /\ results < MaxEvents
  /\ sub' = "executing" /\ UNCHANGED <<source, results, failing>>
SourceEnds ==
  /\ sub = "asking"
  /\ sub' = "closing" /\ UNCHANGED <<source, results, failing>>
SourceFails ==
  /\ sub = "asking" /\ results < MaxEvents
  /\ sub' = "failed" /\ results' = results + 1 /\ UNCHANGED <<source, failing>>

\* _execute_subscription_event: a result, or an exception that is no Exception
\* of a field (a CancelledError), which goes through the finally.
ExecuteEvent ==
  /\ sub = "executing"
  /\ \/ sub' = "yielded" /\ results' = results + 1 /\ UNCHANGED <<source, failing>>
     \/ sub' = "closing" /\ failing' = TRUE /\ UNCHANGED <<source, results>>

\* finally: aclose() ends, well or not.
CloseSource ==
  /\ sub = "closing"
  /\ source' = "closed"
  /\ \E raises \in BOOLEAN : sub' = IF failing \/ raises THEN "raised" ELSE "ended"
  /\ UNCHANGED <<results, failing>>

\* aclose() on the generator, or a cancellation while the consumer waits for it.
\* A generator that was never asked has no finally to run yet.
CloseSubscription ==
  /\ sub \in {"new", "asking", "executing", "yielded", "failed"}
  /\ IF sub = "new"
     THEN sub' = "ended" /\ UNCHANGED failing
     ELSE sub' = "closing" /\ failing' = TRUE
  /\ UNCHANGED <<source, results>>

SubscriptionWorks == SourceYields \/ SourceEnds \/ SourceFails \/ ExecuteEvent \/ CloseSource
=============================================================================
