------------------------------ MODULE JobStream ------------------------------
(***************************************************************************)
(* What incremental delivery promises (execute_incremental): pieces of work*)
(* are found, each is delivered in one payload of its own, and hasNext     *)
(* tells whether any other is left at the time.  It knows no queue and no  *)
(* fragment or list.                                                       *)
(***************************************************************************)
CONSTANTS Jobs, First

VARIABLES
  pending,    \* found and not delivered
  delivered,  \* delivered in a payload
  hasNext,    \* the hasNext of the latest payload
  open        \* the stream has not ended

streamVars == <<pending, delivered, hasNext, open>>

Init == pending = {First} /\ delivered = {} /\ hasNext = TRUE /\ open = TRUE

\* Work is found, by other work or by a coroutine nobody waits for any more.
Find(found) ==
  /\ found # {} /\ found \cap (pending \cup delivered) = {}
  /\ pending' = pending \cup found
  /\ UNCHANGED <<delivered, hasNext, open>>

Deliver(job) ==
  /\ open /\ job \in pending
  /\ pending' = pending \ {job}
  /\ delivered' = delivered \cup {job}
  /\ hasNext' = (pending' # {})
  /\ UNCHANGED open

\* The stream ends by itself when nothing is left.
End == open = TRUE /\ pending = {} /\ open' = FALSE /\ UNCHANGED <<pending, delivered, hasNext>>

\* The consumer closes it, or an exception does.
Abort == open = TRUE /\ open' = FALSE /\ UNCHANGED <<pending, delivered, hasNext>>

Next ==
  \/ \E found \in SUBSET Jobs : Find(found)
  \/ \E job \in Jobs : Deliver(job)
  \/ End
  \/ Abort

Spec == Init /\ [][Next]_streamVars
=============================================================================
