----------------------------- MODULE Injection -----------------------------
(***************************************************************************)
(* fastql/execution/execute.py: what the fields of one operation share.    *)
(*                                                                         *)
(* _dependency_value keeps the value of each provider, _root_instance the  *)
(* instance of a root container; both put a task into their dict first and *)
(* what it returned later.  A thing is a dependency or the container; its  *)
(* task, the container's own injection and the fields are coroutines that  *)
(* interleave at their awaits.                                             *)
(*                                                                         *)
(* Operators named Bug... are plausible mistakes in the definition below   *)
(* them; no specification uses them (see PROJECT.json, "mutants").         *)
(***************************************************************************)
EXTENDS Naturals, Sequences

CONSTANTS
  Fields,    \* the fields that are executed concurrently
  Deps,      \* the registered dependency types
  Box,       \* the root container
  Plan,      \* Plan[c]: the things the field or container c is given, in order
  Async,     \* the dependencies whose provider returns an awaitable
  Explicit,  \* the things that fail, when they fail, with a GraphQLError
  Timed,     \* the fields an extension wraps with a timeout
  NoField

Things == Deps \cup {Box}
Injected == Fields \cup {Box}

ASSUME InjectionAssumption ==
  /\ Box \notin Deps \cup Fields /\ Fields \cap Deps = {} /\ NoField \notin Fields
  /\ Plan \in [Injected -> Seq(Things)]
  /\ \A i \in DOMAIN Plan[Box] : Plan[Box][i] # Box
  /\ Async \subseteq Deps /\ Explicit \subseteq Things /\ Timed \subseteq Fields

VARIABLES
  memo,      \* dependency_values, root_instances: "missing", "task" or "value"
  life,      \* the state of each field's and each thing's coroutine
  calls,     \* how often each provider or the container class was called
  supplied,  \* how many parameters of a field or the container are supplied
  waiting,   \* whether it is suspended in an await of the next one, and if so of
             \* a task it started itself or of one it found in the dict
  cause,     \* the thing whose exception ended a coroutine, or its own
  pathOf,    \* error.path of the GraphQLError a thing failed with
  recorded,  \* the path under which the error of each field was recorded
  given,     \* history: the things, with the number of the call, it was given
  timeouts   \* history: the fields that timed out

injectionVars == <<memo, life, calls, supplied, waiting, cause, pathOf, recorded, given, timeouts>>

InjectionTypeOK ==
  /\ memo \in [Things -> {"missing", "task", "value"}]
  /\ life \in [Fields \cup Things -> {"idle", "running", "value", "failed", "cancelled"}]
  /\ calls \in [Things -> Nat]
  /\ supplied \in [Injected -> Nat]
  /\ waiting \in [Injected -> {"no", "started", "found"}]
  /\ cause \in [Fields \cup Things -> Fields \cup Things]
  /\ \A t \in Things : cause[t] \in Things
  /\ pathOf \in [Things -> Fields \cup {NoField}]
  /\ recorded \in [Fields -> Fields \cup {NoField}]
  /\ given \in [Injected -> SUBSET (Things \X Nat)]
  /\ timeouts \subseteq Fields

InjectionInit ==
  /\ memo = [t \in Things |-> "missing"]
  /\ life = [x \in Fields \cup Things |-> IF x \in Fields THEN "running" ELSE "idle"]
  /\ calls = [t \in Things |-> 0]
  /\ supplied = [c \in Injected |-> 0]
  /\ waiting = [c \in Injected |-> "no"]
  /\ cause = [x \in Fields \cup Things |-> x]
  /\ pathOf = [t \in Things |-> NoField]
  /\ recorded = [f \in Fields |-> NoField]
  /\ given = [c \in Injected |-> {}]
  /\ timeouts = {}

-----------------------------------------------------------------------------
\* c has got to the parameter that t supplies.
Wants(c, t) ==
  /\ life[c] = "running"
  /\ supplied[c] < Len(Plan[c]) /\ Plan[c][supplied[c] + 1] = t

BugValueNotKept(c, t, n) ==
  /\ supplied' = [supplied EXCEPT ![c] = @ + 1]
  /\ waiting' = [waiting EXCEPT ![c] = "no"]
  /\ given' = [given EXCEPT ![c] = @ \cup {<<t, n>>}]
  /\ UNCHANGED memo

\* The parameter is supplied with what the n-th call produced, and the dict
\* remembers it; only the field that started the container's task stores it.
Supply(c, t, n) ==
  /\ memo' = [memo EXCEPT ![t] = IF t = Box /\ waiting[c] # "started" THEN @ ELSE "value"]
  /\ supplied' = [supplied EXCEPT ![c] = @ + 1]
  /\ waiting' = [waiting EXCEPT ![c] = "no"]
  /\ given' = [given EXCEPT ![c] = @ \cup {<<t, n>>}]

\* _record keeps a path that the error already has.
BugSharedPath(f, t) == IF t \in Things /\ pathOf[t] # NoField THEN pathOf[t] ELSE f
PathFor(f, t) == IF t \in Explicit /\ pathOf[t] # NoField THEN pathOf[t] ELSE f

\* c ends with the exception of t, which may be its own (t = c).  A field records
\* an Exception and becomes null; CancelledError is none and is not recorded.
Fail(c, how, t) ==
  /\ life' = [life EXCEPT ![c] = how]
  /\ cause' = [cause EXCEPT ![c] = t]
  /\ waiting' = [waiting EXCEPT ![c] = "no"]
  /\ IF c \in Fields /\ how = "failed"
     THEN /\ recorded' = [recorded EXCEPT ![c] = PathFor(c, t)]
          /\ pathOf' = [x \in Things |-> IF x = t THEN PathFor(c, t) ELSE pathOf[x]]
     ELSE UNCHANGED <<recorded, pathOf>>

Called(t) == calls' = [calls EXCEPT ![t] = @ + 1]

\* A provider that is no coroutine: its value is stored, its exception is not.
CallSync(c, d) ==
  /\ d \in Deps \ Async /\ Wants(c, d) /\ memo[d] = "missing"
  /\ Called(d)
  /\ \/ Supply(c, d, calls[d] + 1) /\ UNCHANGED <<life, cause, pathOf, recorded>>
     \/ Fail(c, "failed", c) /\ UNCHANGED <<memo, supplied, given>>
  /\ UNCHANGED timeouts

\* ensure_future of a provider's awaitable; create_task of the container.
BugStoredLater(t) == UNCHANGED memo
Remember(t) == memo' = [memo EXCEPT ![t] = "task"]

StartTask(c, t) ==
  /\ t \in Async \cup {Box} /\ Wants(c, t) /\ memo[t] = "missing"
  /\ Called(t)
  /\ Remember(t)
  /\ life' = [life EXCEPT ![t] = "running"]
  /\ waiting' = [waiting EXCEPT ![c] = "started"]
  /\ UNCHANGED <<supplied, cause, pathOf, recorded, given, timeouts>>

\* Somebody else's task: await it.
JoinTask(c, t) ==
  /\ Wants(c, t) /\ waiting[c] = "no" /\ memo[t] = "task" /\ life[t] = "running"
  /\ waiting' = [waiting EXCEPT ![c] = "found"]
  /\ UNCHANGED <<memo, life, calls, supplied, cause, pathOf, recorded, given, timeouts>>

\* The value is in the dict.
TakeValue(c, t) ==
  /\ Wants(c, t) /\ waiting[c] = "no" /\ memo[t] = "value"
  /\ Supply(c, t, calls[t])
  /\ UNCHANGED <<life, calls, cause, pathOf, recorded, timeouts>>

\* The awaited task is over (an await of a finished task does not suspend).
BugOnlyValues(t) == life[t] = "value"
Over(t) == life[t] \in {"value", "failed", "cancelled"}
BugAlwaysCancelled(t) == "cancelled"
RaisedBy(t) == life[t]

EndAwait(c, t) ==
  /\ Wants(c, t) /\ (waiting[c] # "no" \/ memo[t] = "task")
  /\ Over(t)
  /\ \/ life[t] = "value" /\ Supply(c, t, calls[t]) /\ UNCHANGED <<life, cause, pathOf, recorded>>
     \/ /\ life[t] # "value"
        /\ Fail(c, RaisedBy(t), cause[t])
        /\ UNCHANGED <<memo, supplied, given>>
  /\ UNCHANGED <<calls, timeouts>>

\* An asynchronous provider ends.
ProviderEnds(d) ==
  /\ d \in Async /\ life[d] = "running"
  /\ \E how \in {"value", "failed"} : life' = [life EXCEPT ![d] = how]
  /\ UNCHANGED <<memo, calls, supplied, waiting, cause, pathOf, recorded, given, timeouts>>

\* Every parameter is supplied: the resolver runs, or the container is made.
Use(c) ==
  /\ life[c] = "running" /\ supplied[c] = Len(Plan[c])
  /\ \/ /\ life' = [life EXCEPT ![c] = "value"]
        /\ UNCHANGED <<cause, pathOf, recorded, waiting>>
     \/ Fail(c, "failed", c)
  /\ UNCHANGED <<memo, calls, supplied, given, timeouts>>

\* The tasks task.cancel() reaches through the await of t: the innermost one.
Awaited(t) ==
  IF t = Box /\ waiting[Box] # "no"
     /\ \E d \in Deps : Wants(Box, d) /\ life[d] = "running"
  THEN {d \in Deps : Wants(Box, d)} ELSE {t}

\* The timeout around f expires while f waits for t: f fails with TimeoutError,
\* and CancelledError goes into the task that everyone waits for.
TimeOut(f, t) ==
  /\ f \in Timed /\ Wants(f, t) /\ waiting[f] # "no"
  /\ life' = [x \in Fields \cup Things |->
       IF x = f THEN "failed"
       ELSE IF x \in Awaited(t) /\ life[x] = "running" THEN "cancelled" ELSE life[x]]
  /\ waiting' = [waiting EXCEPT ![f] = "no"]
  /\ recorded' = [recorded EXCEPT ![f] = f]
  /\ timeouts' = timeouts \cup {f}
  /\ UNCHANGED <<memo, calls, supplied, cause, pathOf, given>>

Step(c) ==
  \/ \E t \in Things :
       CallSync(c, t) \/ StartTask(c, t) \/ JoinTask(c, t) \/ TakeValue(c, t) \/ EndAwait(c, t)
  \/ Use(c)

InjectionNext ==
  \/ \E c \in Injected : Step(c)
  \/ \E d \in Deps : ProviderEnds(d)
  \/ \E f \in Fields, t \in Things : TimeOut(f, t)

InjectionSpec == InjectionInit /\ [][InjectionNext]_injectionVars

\* The event loop runs every coroutine that can go on, and providers end.
InjectionFairness ==
  /\ \A c \in Injected : WF_injectionVars(Step(c))
  /\ \A d \in Deps : WF_injectionVars(ProviderEnds(d))

InjectionFairSpec == InjectionSpec /\ InjectionFairness

-----------------------------------------------------------------------------
\* An asynchronous provider and the container class are called once for an
\* operation, however many fields want them and however they end.
MadeOnce == \A t \in Async \cup {Box} : calls[t] <= 1

\* "both resolvers receive the same produced value": everyone who is given a
\* thing is given what the same call produced.
SameValue ==
  \A c, e \in Injected : \A p \in given[c], q \in given[e] : p[1] = q[1] => p = q

\* The tasks c has to await, itself or through the container.
NeedsOf(c) ==
  LET own(x) == {Plan[x][i] : i \in DOMAIN Plan[x]}
  IN (own(c) \cup (IF Box \in own(c) THEN own(Box) ELSE {})) \cap (Async \cup {Box})

\* CancelledError reaches a field, and through it the caller of execute(), only
\* from the timeout of a field with which it shares a task.
AbortsAreShared ==
  \A f \in Fields : life[f] = "cancelled" =>
    \E g \in timeouts : NeedsOf(f) \cap NeedsOf(g) # {}

\* A field that fails has an error, and no other field has: under its own path,
\* or the path of a field that failed with the same GraphQLError before.
FailuresAreRecorded ==
  \A f \in Fields :
    /\ life[f] = "failed" <=> recorded[f] # NoField
    /\ recorded[f] \notin {f, NoField} =>
         cause[recorded[f]] = cause[f] /\ cause[f] \in Explicit /\ life[recorded[f]] = "failed"

\* Every field ends, whatever happens to the things it waits for.
EveryFieldEnds == \A f \in Fields : <>(life[f] # "running")

=============================================================================
