------------------------------ MODULE Executor ------------------------------
(***************************************************************************)
(* fastql/execution/execute.py: one _Executor completing a tree of response*)
(* positions concurrently.                                                 *)
(*                                                                         *)
(* A node is a response position: the root object, a field of an object or *)
(* an item of a list.  Each runs as a coroutine that the enclosing gather  *)
(* joins; what it hands to its parent is its out: a value, null, the       *)
(* _NullBubble signal, or an exception that was not turned into a field    *)
(* error.  A subscription runs the tree once per source event on the same  *)
(* executor; queries and mutations have a single event.                    *)
(*                                                                         *)
(* Operators named Bug... are plausible mistakes in the definition below   *)
(* them; no specification uses them (see PROJECT.json, "mutants").         *)
(***************************************************************************)
EXTENDS Naturals, Sequences

CONSTANTS
  Nodes,       \* the positions of the operation
  Root,        \* the root object
  Parent,      \* Parent[n]: the position n is a field or an item of
  Shape,       \* Shape[n]: "object", "list" or "leaf"
  RootFields,  \* the root's fields in document order
  TypeRef,     \* TypeRef[n]: the declared type reference n is completed with
  BlankLeaves, \* leaves whose scalar serialises some value to None
  Operations,  \* the choices of operation type and of NonNull type references
  MaxEvents    \* bound: events of a subscription

\* The way up from any position ends at the root; the response keys of an object,
\* which CollectFields groups by, are distinct.
ASSUME TreeAssumption ==
  /\ Root \in Nodes /\ Parent \in [Nodes \ {Root} -> Nodes]
  /\ \A S \in SUBSET (Nodes \ {Root}) : S # {} => \E n \in S : Parent[n] \notin S
  /\ Shape \in [Nodes -> {"object", "list", "leaf"}] /\ Shape[Root] = "object"
  /\ BlankLeaves \subseteq {n \in Nodes : Shape[n] = "leaf"}
  /\ RootFields \in Seq(Nodes) /\ RootFields # <<>>
  /\ \A i, j \in DOMAIN RootFields : RootFields[i] = RootFields[j] => i = j
  /\ {RootFields[i] : i \in DOMAIN RootFields} = {n \in Nodes \ {Root} : Parent[n] = Root}
  /\ Operations \subseteq [mode : {"query", "mutation", "subscription"},
                          nonNull : SUBSET {TypeRef[n] : n \in Nodes \ {Root}}]
  /\ MaxEvents \in Nat \ {0}

VARIABLES
  mode,      \* operation.operation
  nonNull,   \* the type references that are NonNull
  event,     \* the event being executed
  pc,        \* pc[e][n]: where the coroutine of n in event e is
  out,       \* out[e][n]: what it handed to its parent
  void,      \* void[e]: history, the positions whose own value turned out null
  errors,    \* self.errors: how often each position of each event recorded one
  response   \* response[e]: whether event e ended in a result, and its errors

vars == <<mode, nonNull, event, pc, out, void, errors, response>>

Events == 1..MaxEvents
NoResponse == [kind |-> "none", errors |-> {}]
Outs == {"none", "value", "null", "bubble", "exception", "cancelled"}
Escapes == {"exception", "cancelled"}

Kids(n) == {k \in Nodes \ {Root} : Parent[k] = n}
IsField(n) == n # Root /\ Shape[Parent[n]] = "object"
IsNonNull(n) == n # Root /\ TypeRef[n] \in nonNull
Above[n \in Nodes] == IF n = Root THEN {} ELSE {Parent[n]} \cup Above[Parent[n]]
Within(n) == {d \in Nodes : d = n \/ n \in Above[d]}

Serial == mode = "mutation"

\* A subscription selects one root field, whose value is the event's payload.
RootKids == IF mode = "subscription" THEN {RootFields[1]} ELSE Kids(Root)
KidsToJoin(n) == IF n = Root THEN RootKids ELSE Kids(n)

TypeOK ==
  /\ [mode |-> mode, nonNull |-> nonNull] \in Operations
  /\ event \in Events
  /\ pc \in [Events -> [Nodes -> {"idle", "running", "joining", "done"}]]
  /\ out \in [Events -> [Nodes -> Outs]]
  /\ void \in [Events -> SUBSET Nodes]
  /\ errors \in [Events \X Nodes -> Nat]
  /\ response \in [Events -> [kind : {"none", "raised", "result"}, errors : SUBSET (Events \X Nodes)]]

NoErrors == [en \in Events \X Nodes |-> 0]

-----------------------------------------------------------------------------
\* The coroutines an event starts with: the root waits for the gather of its
\* fields, or for the first one when they are executed serially.
BugParallelMutation == RootKids
FirstFields == IF Serial THEN {RootFields[1]} ELSE RootKids
StartedTree ==
  [n \in Nodes |-> IF n = Root THEN "joining"
                   ELSE IF n \in FirstFields THEN "running" ELSE "idle"]

Init ==
  /\ \E op \in Operations : mode = op.mode /\ nonNull = op.nonNull
  /\ event = 1
  /\ pc = [e \in Events |-> IF e = 1 THEN StartedTree ELSE [n \in Nodes |-> "idle"]]
  /\ out = [e \in Events |-> [n \in Nodes |-> "none"]]
  /\ void = [e \in Events |-> {}]
  /\ errors = NoErrors
  /\ response = [e \in Events |-> NoResponse]

\* _record
Record(e, n) == errors' = [errors EXCEPT ![<<e, n>>] = @ + 1]

\* The coroutine of n is over and hands o to its parent.
Finish(e, n, o) ==
  /\ pc' = [pc EXCEPT ![e][n] = "done"]
  /\ out' = [out EXCEPT ![e][n] = o]

\* The NonNull wrapper of _complete_value and _null_or_bubble: null at a
\* non-null position becomes the bubble.
BugIgnoresNonNull(n) == "null"
NullOrBubble(n) == IF IsNonNull(n) THEN "bubble" ELSE "null"

\* The value of n itself is null: its resolver or the data says so.  Only the
\* NonNull wrapper records an error for that.
BugSilentNull(e, n) ==
  /\ Finish(e, n, NullOrBubble(n))
  /\ void' = [void EXCEPT ![e] = @ \cup {n}]
  /\ UNCHANGED errors
CompleteNull(e, n) ==
  /\ Finish(e, n, NullOrBubble(n))
  /\ void' = [void EXCEPT ![e] = @ \cup {n}]
  /\ IF IsNonNull(n) THEN Record(e, n) ELSE UNCHANGED errors

\* n fails with a recorded error and becomes null: a GraphQLError or an
\* exception that _execute_field catches, a leaf that does not serialise, a
\* value that is no list, an abstract type that does not resolve.
CompleteFailed(e, n) ==
  /\ Finish(e, n, NullOrBubble(n))
  /\ void' = [void EXCEPT ![e] = @ \cup {n}]
  /\ Record(e, n)

\* serialize() of the leaf's scalar turns the value into None.  The wrapper
\* takes the resolved value, which is not None, for a sign of a known error.
CompleteBlank(e, n) ==
  /\ n \in BlankLeaves
  /\ Finish(e, n, NullOrBubble(n))
  /\ void' = [void EXCEPT ![e] = @ \cup {n}]
  /\ UNCHANGED errors

\* An exception reaches the coroutine of n.  A field catches an Exception; a
\* CancelledError is none, and an item's coroutine catches only the bubble.
CompleteRaised(e, n, exc) ==
  IF IsField(n) /\ exc = "exception"
  THEN CompleteFailed(e, n)
  ELSE Finish(e, n, exc) /\ UNCHANGED <<void, errors>>

\* The value of n is there and sound; an object or a list starts its children.
CompleteValue(e, n) ==
  /\ IF Kids(n) = {}
     THEN Finish(e, n, "value")
     ELSE /\ pc' = [pc EXCEPT ![e] = [m \in Nodes |->
                      IF m = n THEN "joining"
                      ELSE IF m \in Kids(n) THEN "running" ELSE @[m]]]
          /\ UNCHANGED out
  /\ UNCHANGED <<void, errors>>

\* coerce_argument_values raised something else than a GraphQLError, outside
\* the try of _execute_field.  A subscription event coerces no arguments at the root.
ArgumentsRaise(e, n) ==
  /\ IsField(n) /\ ~(mode = "subscription" /\ Parent[n] = Root)
  /\ Finish(e, n, "exception")
  /\ UNCHANGED <<void, errors>>

\* The resolver of a field, or the completion of an item, gets its result.
Resolve(e, n) ==
  /\ pc[e][n] = "running"
  /\ \/ CompleteValue(e, n)
     \/ CompleteNull(e, n)
     \/ CompleteFailed(e, n)
     \/ CompleteBlank(e, n)
     \/ \E exc \in Escapes : CompleteRaised(e, n, exc)
     \/ ArgumentsRaise(e, n)
  /\ UNCHANGED <<mode, nonNull, event, response>>

-----------------------------------------------------------------------------
KidOuts(e, n) == {out[e][k] : k \in KidsToJoin(n)}
BugWaitsForValues(e, n) == \A k \in KidsToJoin(n) : out[e][k] = "value"
AllDone(e, n) == \A k \in KidsToJoin(n) : pc[e][k] = "done"

\* The bubble of a field stops at its object, whose NonNull wrapper sends it on
\* without another error.
BugBubbleReported(e, n) ==
  /\ Finish(e, n, NullOrBubble(n))
  /\ IF IsNonNull(n) THEN Record(e, n) ELSE UNCHANGED errors
  /\ UNCHANGED void
AbsorbBubble(e, n) == Finish(e, n, NullOrBubble(n)) /\ UNCHANGED <<void, errors>>

\* _execute_fields below the root: gather(return_exceptions=True) waits for
\* every field; an exception goes on, a bubble makes the object null.
JoinObject(e, n) ==
  /\ n # Root /\ Shape[n] = "object"
  /\ pc[e][n] = "joining"
  /\ AllDone(e, n)
  /\ \/ \E exc \in Escapes \cap KidOuts(e, n) : CompleteRaised(e, n, exc)
     \/ /\ Escapes \cap KidOuts(e, n) = {}
        /\ IF "bubble" \in KidOuts(e, n)
           THEN AbsorbBubble(e, n)
           ELSE Finish(e, n, "value") /\ UNCHANGED <<void, errors>>
  /\ UNCHANGED <<mode, nonNull, event, response>>

\* _complete_list when every item is done: a bubble among them is raised
\* again, past the list's own type, NonNull or not.
JoinList(e, n) ==
  /\ Shape[n] = "list"
  /\ pc[e][n] = "joining"
  /\ AllDone(e, n)
  /\ Escapes \cap KidOuts(e, n) = {}
  /\ Finish(e, n, IF "bubble" \in KidOuts(e, n) THEN "bubble" ELSE "value")
  /\ UNCHANGED <<mode, nonNull, event, void, errors, response>>

\* The gather of _complete_list passes the first exception on; items that await
\* fields of their own by then keep running with nobody waiting for them.  (An
\* item itself awaits nothing: all have had their turn before the gather wakes.)
ListRaises(e, n) ==
  /\ Shape[n] = "list"
  /\ pc[e][n] = "joining"
  /\ \A k \in Kids(n) : pc[e][k] # "running"
  /\ \E exc \in Escapes \cap KidOuts(e, n) : CompleteRaised(e, n, exc)
  /\ UNCHANGED <<mode, nonNull, event, response>>

-----------------------------------------------------------------------------
\* ExecutionResult of the current event: data and the errors recorded so far.
Respond(o) ==
  /\ Finish(event, Root, o)
  /\ response' = [response EXCEPT ![event] =
       IF o \in Escapes THEN [kind |-> "raised", errors |-> {}]
       ELSE [kind |-> "result", errors |-> {en \in Events \X Nodes : errors[en] > 0}]]
  /\ UNCHANGED <<mode, nonNull, event, void, errors>>

\* execute_operation of a query: every root field is awaited.
JoinQuery ==
  /\ mode = "query"
  /\ pc[1][Root] = "joining" /\ AllDone(1, Root)
  /\ \/ \E exc \in Escapes \cap KidOuts(1, Root) : Respond(exc)
     \/ /\ Escapes \cap KidOuts(1, Root) = {}
        /\ Respond(IF "bubble" \in KidOuts(1, Root) THEN "null" ELSE "value")

\* execute_operation of a mutation: field i is over; a bubble or an exception
\* leaves the loop, else the next field starts.
SerialStep(i) ==
  LET o == out[1][RootFields[i]] IN
  /\ Serial
  /\ pc[1][Root] = "joining"
  /\ pc[1][RootFields[i]] = "done"
  /\ i < Len(RootFields) => pc[1][RootFields[i + 1]] = "idle"
  /\ \/ o \in Escapes /\ Respond(o)
     \/ o = "bubble" /\ Respond("null")
     \/ o \in {"value", "null"} /\ i = Len(RootFields) /\ Respond("value")
     \/ /\ o \in {"value", "null"} /\ i < Len(RootFields)
        /\ pc' = [pc EXCEPT ![1][RootFields[i + 1]] = "running"]
        /\ UNCHANGED <<mode, nonNull, event, out, void, errors, response>>

\* _execute_subscription_event: a bubble leaves the root field null.
JoinEvent ==
  LET o == out[event][RootFields[1]] IN
  /\ mode = "subscription"
  /\ pc[event][Root] = "joining" /\ AllDone(event, Root)
  /\ Respond(IF o = "cancelled" THEN o ELSE "value")

\* self.errors = []
BugKeepsErrors == UNCHANGED errors
ResetErrors == errors' = NoErrors

\* The source yields another event, executed with a fresh self.errors.
NextEvent ==
  /\ mode = "subscription" /\ event < MaxEvents
  /\ response[event].kind = "result"
  /\ event' = event + 1
  /\ ResetErrors
  /\ pc' = [pc EXCEPT ![event + 1] = StartedTree]
  /\ UNCHANGED <<mode, nonNull, out, void, response>>

Complete(e, n) == Resolve(e, n) \/ JoinObject(e, n) \/ JoinList(e, n) \/ ListRaises(e, n)

Next ==
  \/ \E e \in Events, n \in Nodes : Complete(e, n)
  \/ JoinQuery
  \/ \E i \in DOMAIN RootFields : SerialStep(i)
  \/ JoinEvent
  \/ NextEvent

Spec == Init /\ [][Next]_vars

\* Resolvers end, and the event loop does not idle while a coroutine can go on.
FairSpec == Spec /\ WF_vars(Next)

-----------------------------------------------------------------------------
Responded(e) == response[e].kind = "result"
IsNull(e, n) == out[e][n] \in {"null", "bubble"}

\* n shows in the data of the response: nothing above it is null or failed.
Visible(e, n) == pc[e][n] = "done" /\ \A m \in Above[n] : out[e][m] = "value"

\* The null rule of the GraphQL specification, told without any propagation:
\* n is null when something at or below it is void and every position on the
\* way up from there to n, n excluded, is non-null.
NullByRule(e, n) ==
  \E d \in void[e] \cap Within(n) :
    \A m \in ({d} \cup Above[d]) \ ({n} \cup Above[n]) : IsNonNull(m)

\* Null propagates to the nearest nullable parent and no further: the data of a
\* response has a null exactly where the rule puts one, whatever the order in
\* which siblings end.  The root field of an event is never part of a null root.
NullsPropagate ==
  \A e \in Events : Responded(e) =>
    \A n \in Nodes : Visible(e, n) /\ (mode = "subscription" => n # Root) =>
      (IsNull(e, n) <=> NullByRule(e, n))

\* A fault is reported once, where it happened, and not again by each position
\* that its null passes on the way up.
OneErrorPerFault ==
  \A e \in Events, n \in Nodes :
    errors[<<e, n>>] <= 1 /\ (errors[<<e, n>>] = 1 => n \in void[e])

\* A coroutine that nobody awaits any more: a list above it has already passed
\* on the exception of one of its items.
Orphan(e, n) ==
  \E l \in Above[n] : /\ Shape[l] = "list" /\ pc[e][l] = "done"
                      /\ Escapes \cap KidOuts(e, l) # {}
Unfinished(e, n) == pc[e][n] \in {"running", "joining"}

\* A null was refused at the non-null position n, which its parent waited for.
Bubbled(e, n) == out[e][n] = "bubble" /\ ~Orphan(e, n)

\* No null without a cause the client can read: when a non-null position of a
\* response came out null, an error was recorded at or below it, unless a
\* scalar turned the value of a leaf into None.
NullsAreExplained ==
  \A e \in Events : Responded(e) =>
    \A n \in Nodes : Bubbled(e, n) =>
      \E d \in Within(n) : <<e, d>> \in response[e].errors \/ d \in BlankLeaves \cap void[e]

\* Mutation fields do not overlap, orphaned list items excepted: when a root
\* field runs, the coroutines of the earlier ones are over.
MutationsAreSerial ==
  Serial => \A i, j \in DOMAIN RootFields : \A n \in Within(RootFields[i]) :
    i < j /\ pc[1][RootFields[j]] # "idle" /\ Unfinished(1, n) => Orphan(1, n)

\* An error of one event shows in the result of another only when it comes
\* from an orphaned list item of the earlier event.
LeaksAreOrphans ==
  \A e \in Events : Responded(e) =>
    \A en \in response[e].errors : en[1] = e \/ Orphan(en[1], en[2])

\* Every operation is answered, by a result or by an exception of execute():
\* no event waits forever for a coroutine.
EveryEventAnswered ==
  []<>(\A e \in Events : pc[e][Root] = "joining" => response[e] # NoResponse)
=============================================================================
