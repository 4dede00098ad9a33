----------------------------- MODULE Incremental -----------------------------
(***************************************************************************)
(* fastql/execution/execute.py: run_incremental, the generator behind      *)
(* @defer and @stream.                                                     *)
(*                                                                         *)
(* The generator executes one unit of work at a time (the operation, then  *)
(* a deferred fragment or one item of a streamed list) and yields a payload*)
(* for it.  While a unit runs, the coroutines of its positions register the*)
(* fragments and lists they find.  Only the positions that can register    *)
(* something are told apart; Executor says how the others complete.  What  *)
(* Executor calls an orphan, a coroutine below a list item that the gather *)
(* of _complete_list left behind, is loose here: it goes on while later    *)
(* units run, and after the generator has ended.                           *)
(*                                                                         *)
(* Operators named Bug... are plausible mistakes in the definition below   *)
(* them; no specification uses them (see PROJECT.json, "mutants").         *)
(***************************************************************************)
EXTENDS Integers, Sequences, FiniteSets

CONSTANTS
  Positions,   \* positions at which work is found: objects and streamed lists
  Abandonable, \* those below an item of a plain list
  Streams,     \* those that are lists with @stream
  Length,      \* Length[s]: the items of the streamed list s
  Fragments,   \* the fragments with @defer, each at the object it is deferred in
  Under,       \* Under[p]: the position or unit of work whose value starts p
  Deferrals,   \* Deferrals[x]: the fragments deferred in the selections of x
  InitialCounts \* the values of initialCount

Data == [kind |-> "data"]
Defer(d) == [kind |-> "defer", fragment |-> d]
Item(s, i) == [kind |-> "item", list |-> s, number |-> i]
Jobs == {Data} \cup {Defer(d) : d \in Fragments}
        \cup UNION {{Item(s, i) : i \in 1..Length[s]} : s \in Streams}

\* Positions are no units of work; a _DeferJob is one fragment at one path.
ASSUME IncrementalAssumption ==
  /\ Positions \cap Jobs = {}
  /\ Abandonable \subseteq Positions /\ Streams \subseteq Positions
  /\ Length \in [Streams -> Nat]
  /\ Under \in [Positions -> Positions \cup Jobs]
  /\ Deferrals \in [Positions \cup Jobs -> Seq(Fragments)]
  /\ \A x, y \in Positions \cup Jobs : \A i \in DOMAIN Deferrals[x], j \in DOMAIN Deferrals[y] :
       Deferrals[x][i] = Deferrals[y][j] => x = y /\ i = j
  /\ InitialCounts \subseteq Int

VARIABLES
  initialCount, \* the argument of @stream, for every list
  deferred,     \* self.deferred
  streamed,     \* self.streamed: each list with its remaining items and next_index
  errors,       \* self.errors: the units that recorded one
  gen,          \* where the generator is
  unit,         \* the unit of work it executes
  running,      \* the positions of that unit whose coroutines go on
  loose,        \* the coroutines left behind, with the unit they belong to
  sent          \* the payloads yielded so far

jobVars == <<deferred, streamed>>
workVars == <<errors, unit, running, loose>>
incrementalVars == <<initialCount, jobVars, workVars, gen, sent>>

Kids(x) == {p \in Positions : Under[p] = x}
Most(a, b) == IF a < b THEN b ELSE a

IncrementalInit ==
  /\ initialCount \in InitialCounts
  /\ deferred = <<>> /\ streamed = <<>>
  /\ errors = {} /\ unit = Data /\ running = {} /\ loose = {}
  /\ gen = "new"
  /\ sent = <<>>

-----------------------------------------------------------------------------
\* Finding work.

\* @defer: the fragments of a selection set become jobs at the end of the list.
WithDeferred(fragments, queue) ==
  queue \o [i \in DOMAIN fragments |-> Defer(fragments[i])]

\* _stream_arguments and the head of _complete_list: the first initialCount
\* items are completed at once, the rest is streamed.
Immediate(s) == {i \in 1..Length[s] : i <= Most(0, initialCount)}
BugNextIndex(s) ==
  [list |-> s, next |-> 0,
   items |-> [i \in 1..(Length[s] - Most(0, initialCount)) |-> i + Most(0, initialCount)]]
StreamJob(s) ==
  [list |-> s, next |-> Most(0, initialCount),
   items |-> [i \in 1..(Length[s] - Most(0, initialCount)) |-> i + Most(0, initialCount)]]
WithStream(p, queue) ==
  IF p \in Streams /\ Length[p] > Most(0, initialCount) THEN Append(queue, StreamJob(p)) ELSE queue

\* The positions that start when p has its value.
Started(p) ==
  Kids(p) \cup (IF p \in Streams THEN UNION {Kids(Item(p, i)) : i \in Immediate(p)} ELSE {})

Register(p) ==
  /\ deferred' = WithDeferred(Deferrals[p], deferred)
  /\ streamed' = WithStream(p, streamed)

\* The coroutine of p gets its value, or ends in a null.  The errors a unit records
\* on its own are taken together in YieldPayload, which records one for each unit.
CompletePosition(p) ==
  /\ gen = "running" /\ p \in running
  /\ \/ /\ Register(p)
        /\ running' = (running \ {p}) \cup Started(p)
     \/ running' = running \ {p} /\ UNCHANGED jobVars
  /\ UNCHANGED <<initialCount, errors, unit, loose, gen, sent>>

\* An item of a plain list raises: the field of the list records the exception
\* and goes on, the coroutines below its other items run for nobody.
LeaveBehind(left) ==
  /\ gen = "running"
  /\ left # {} /\ left \subseteq running \cap Abandonable
  /\ running' = running \ left
  /\ loose' = loose \cup {[position |-> p, home |-> unit] : p \in left}
  /\ errors' = errors \cup {unit}
  /\ UNCHANGED <<initialCount, jobVars, unit, gen, sent>>

\* Such a coroutine goes on: it registers into the queues and records into
\* self.errors as they are by then.
CompleteLoose(c) ==
  /\ c \in loose
  /\ \/ /\ Register(c.position)
        /\ loose' = (loose \ {c}) \cup {[position |-> p, home |-> c.home] : p \in Started(c.position)}
        /\ UNCHANGED errors
     \/ /\ loose' = loose \ {c}
        /\ errors' \in {errors, errors \cup {c.home}}
        /\ UNCHANGED jobVars
  /\ UNCHANGED <<initialCount, unit, running, gen, sent>>

-----------------------------------------------------------------------------
\* The generator.

Resume(u) == gen' = "running" /\ unit' = u /\ running' = Kids(u)

\* execute_operation: the fragments deferred at the root come first.
StartData ==
  /\ gen = "new"
  /\ Resume(Data)
  /\ errors' = {}
  /\ deferred' = WithDeferred(Deferrals[Data], deferred)
  /\ UNCHANGED <<initialCount, streamed, loose, sent>>

\* self.errors = []
BugSharedErrors == errors
FreshErrors == {}

\* _resolve_deferred: the job at the head is popped, fragments nested in it are
\* registered before its own fields run.
StartDeferred ==
  /\ gen = "yielded" /\ deferred # <<>>
  /\ Resume(Head(deferred))
  /\ errors' = FreshErrors
  /\ deferred' = WithDeferred(Deferrals[Head(deferred)], Tail(deferred))
  /\ UNCHANGED <<initialCount, streamed, loose, sent>>

\* _resolve_stream_item: an item of the first list is popped; the list stays at
\* the head of the queue while the item is completed.
StartItem ==
  /\ gen = "yielded" /\ deferred = <<>> /\ streamed # <<>>
  /\ Resume(Item(streamed[1].list, Head(streamed[1].items)))
  /\ errors' = FreshErrors
  /\ streamed' = [streamed EXCEPT ![1].items = Tail(@)]
  /\ UNCHANGED <<initialCount, deferred, loose, sent>>

\* bool(self.deferred or self.streamed)
BugForgetsStreams(d, s) == d # <<>>
More(d, s) == d # <<>> \/ s # <<>>

\* job.next_index += 1; if not job.items: self.streamed.pop(0)
BugDropsRest == Tail(streamed)
Advanced ==
  IF streamed[1].items = <<>> THEN Tail(streamed)
  ELSE [streamed EXCEPT ![1].next = @ + 1]

\* Every coroutine of the unit is over: its payload is yielded, with data or
\* items, or null where a bubble reached the top.
YieldPayload ==
  /\ gen = "running" /\ running = {}
  /\ errors' = errors \cup {unit}
  /\ streamed' = IF unit.kind = "item" THEN Advanced ELSE streamed
  /\ sent' = Append(sent,
       [job |-> unit, at |-> IF unit.kind = "item" THEN streamed[1].next ELSE 0,
        errors |-> errors', hasNext |-> More(deferred, streamed'), abandoned |-> loose # {}])
  /\ gen' = "yielded"
  /\ UNCHANGED <<initialCount, deferred, unit, running, loose>>

\* An exception that no field turned into an error ends the generator.
UnitRaises ==
  /\ gen = "running" /\ running = {}
  /\ gen' = "raised"
  /\ UNCHANGED <<initialCount, jobVars, workVars, sent>>

\* Nothing is left when the consumer asks again.
EndStream ==
  /\ gen = "yielded" /\ deferred = <<>> /\ streamed = <<>>
  /\ gen' = "ended"
  /\ UNCHANGED <<initialCount, jobVars, workVars, sent>>

Pull == StartData \/ StartDeferred \/ StartItem \/ EndStream

Execute ==
  \/ \E p \in Positions : CompletePosition(p)
  \/ \E left \in SUBSET Abandonable : LeaveBehind(left)
  \/ YieldPayload
  \/ UnitRaises

ExecuteLoose == \E c \in loose : CompleteLoose(c)

\* aclose() or a cancellation from the consumer.
CloseGenerator ==
  /\ gen \in {"new", "yielded", "running"}
  /\ gen' = "closed"
  /\ running' = {}
  /\ UNCHANGED <<initialCount, jobVars, errors, unit, loose, sent>>
=============================================================================
