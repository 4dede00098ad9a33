------------------------------ MODULE Pipeline ------------------------------
(***************************************************************************)
(* fastql/execution/execute.py: execute() with the schema extensions of    *)
(* fastql/extensions.py around its phases, and the two entry points that   *)
(* run no phases, subscribe() and execute_incremental().                   *)
(*                                                                         *)
(* A call is one call of an entry point.  A hook of an extension is, for   *)
(* each call, free to be absent or over at once (no token), a generator    *)
(* that is resumed after the phase (a token), or to raise; each may await, *)
(* so that the calls of concurrent requests interleave between hooks.      *)
(* What the phases do to the document is decided by its record.            *)
(*                                                                         *)
(* Operators named Bug... are plausible mistakes in the definition below   *)
(* them; no specification uses them (see PROJECT.json, "mutants").         *)
(***************************************************************************)
EXTENDS Naturals, Sequences

CONSTANTS
  Calls,      \* calls of the entry points
  Extensions, \* the schema's extensions in registration order
  Shared      \* those registered as instances; the others are classes

ASSUME PipelineAssumption ==
  /\ Extensions \in Seq({Extensions[i] : i \in DOMAIN Extensions})
  /\ Shared \subseteq {Extensions[i] : i \in DOMAIN Extensions}
  /\ "schema" \notin Calls  \* the owner of a shared instance, see Instance

VARIABLES
  entry,     \* entry[c]: "execute", "subscribe" or "incremental"
  payload,   \* payload[c]: the document and operationName of the call
  at,        \* at[c]: the phase and the step of the call
  entered,   \* entered[c]: hooks of the phase that were called
  tokens,    \* tokens[c][p]: the generators to resume after the phase p
  raised,    \* raised[c]: an exception is on its way out
  result,    \* result[c]: the ExecutionResult so far
  bound,     \* bound[x]: the call whose execution_context the instance x has
  abandoned, \* abandoned[c]: history, hooks that entered and are never resumed
  mixed      \* mixed[c]: history, extensions whose hook saw another call's context

pipelineVars == <<entry, payload, at, entered, tokens, raised, result, bound, abandoned, mixed>>
keptOfCall == <<entry, payload>>

Phases == {"on_operation", "on_parse", "on_validate", "on_execute"}
At(p, s) == [phase |-> p, step |-> s]
Idle == At("none", "idle")
Done == At("none", "done")

\* instantiate_extensions: a class is instantiated by each call of execute().
BugOneInstance(x, c) == <<x, "schema">>
Instance(x, c) == IF x \in Shared THEN <<x, "schema">> ELSE <<x, c>>
Instances == {Extensions[i] : i \in DOMAIN Extensions} \X (Calls \cup {"schema"})

NoTokens == [p \in Phases |-> <<>>]

PipelineInit ==
  /\ at = [c \in Calls |-> Idle]
  /\ entry = [c \in Calls |-> "none"]
  /\ payload = [c \in Calls |-> [document |-> <<>>]]
  /\ entered = [c \in Calls |-> 0]
  /\ tokens = [c \in Calls |-> NoTokens]
  /\ raised = [c \in Calls |-> FALSE]
  /\ result = [c \in Calls |-> "none"]
  /\ bound = [x \in Instances |-> "none"]
  /\ abandoned = [c \in Calls |-> {}]
  /\ mixed = [c \in Calls |-> {}]

-----------------------------------------------------------------------------
\* _get_operation: the operation the name selects, the only one without a name.
\* A payload is [document, name]; a document has its operations in order, each
\* with a name (or "") and a type.
SelectedOperation(pay) ==
  LET ops == pay.document.operations
      hits == {i \in DOMAIN ops : ops[i].name = pay.name /\ pay.name # ""}
  IN IF pay.name = "null"
     THEN IF Len(ops) = 1 THEN ops[1].type ELSE "none"
     ELSE IF hits = {} THEN "none"
     ELSE ops[CHOOSE i \in hits : \A j \in hits : i <= j].type

\* execute(): the extensions are bound to the call before the first hook.
StartCall(c, kind, pay) ==
  /\ at[c] \in {Idle, Done}
  /\ entry' = [entry EXCEPT ![c] = kind]
  /\ payload' = [payload EXCEPT ![c] = pay]
  /\ at' = [at EXCEPT ![c] = IF kind = "execute" THEN At("on_operation", "enter") ELSE At("none", "prelude")]
  /\ entered' = [entered EXCEPT ![c] = 0]
  /\ raised' = [raised EXCEPT ![c] = FALSE]
  /\ result' = [result EXCEPT ![c] = "none"]
  /\ bound' = IF kind # "execute" THEN bound ELSE
       [x \in Instances |-> IF \E i \in DOMAIN Extensions : x = Instance(Extensions[i], c) THEN c ELSE bound[x]]
  /\ UNCHANGED <<tokens, abandoned, mixed>>

\* Where the call goes when the phase p is over.
LeaveOperation == At("on_operation", "leave")
BugLeavesAgain(c, p, exc, res) ==
  IF p = "on_operation" /\ ~exc THEN At("none", "collect")
  ELSE IF exc \/ res = "refused" THEN LeaveOperation
  ELSE IF p = "on_parse" THEN At("none", "select")
  ELSE IF p = "on_validate" THEN At("none", "checked")
  ELSE LeaveOperation
After(c, p, exc, res) ==
  IF p = "on_operation" THEN IF exc THEN Done ELSE At("none", "collect")
  ELSE IF exc \/ res = "refused" THEN LeaveOperation
  ELSE IF p = "on_parse" THEN At("none", "select")
  ELSE IF p = "on_validate" THEN At("none", "checked")
  ELSE LeaveOperation

Touch(c, x) ==
  mixed' = IF bound[Instance(x, c)] = c THEN mixed ELSE [mixed EXCEPT ![c] = @ \cup {x}]

\* The loop of phase() before its try: the next extension's hook is called.  If it
\* raises, those that entered before it in this phase are never resumed.
EnterHook(c) ==
  LET p == at[c].phase  x == Extensions[entered[c] + 1] IN
  /\ at[c].step = "enter" /\ entered[c] < Len(Extensions)
  /\ Touch(c, x)
  /\ \/ /\ entered' = [entered EXCEPT ![c] = @ + 1]
        /\ \/ UNCHANGED tokens
           \/ tokens' = [tokens EXCEPT ![c][p] = Append(@, x)]
        /\ UNCHANGED <<at, raised, abandoned>>
     \/ /\ raised' = [raised EXCEPT ![c] = TRUE]
        /\ abandoned' = [abandoned EXCEPT ![c] = @ \cup {<<p, tokens[c][p][i]>> : i \in DOMAIN tokens[c][p]}]
        /\ tokens' = [tokens EXCEPT ![c][p] = <<>>]
        /\ at' = [at EXCEPT ![c] = After(c, p, TRUE, "none")]
        /\ UNCHANGED entered
  /\ UNCHANGED <<keptOfCall, result, bound>>

EnterOver(c) ==
  /\ at[c].step = "enter" /\ entered[c] = Len(Extensions)
  /\ at' = [at EXCEPT ![c].step = "body"]
  /\ entered' = [entered EXCEPT ![c] = 0]
  /\ UNCHANGED <<keptOfCall, tokens, raised, result, bound, abandoned, mixed>>

\* The finally of phase(): the generators are resumed from the last to the first;
\* one that raises ends the loop and replaces what was on its way.
BugForward(ts) == [hook |-> Head(ts), left |-> Tail(ts)]
Resume(ts) == [hook |-> ts[Len(ts)], left |-> SubSeq(ts, 1, Len(ts) - 1)]
LeaveHook(c) ==
  LET p == at[c].phase
      x == Resume(tokens[c][p]).hook
      rest == Resume(tokens[c][p]).left IN
  /\ at[c].step = "leave" /\ tokens[c][p] # <<>>
  /\ Touch(c, x)
  /\ \/ /\ tokens' = [tokens EXCEPT ![c][p] = rest]
        /\ UNCHANGED <<at, raised, abandoned>>
     \/ /\ raised' = [raised EXCEPT ![c] = TRUE]
        /\ abandoned' = [abandoned EXCEPT ![c] = @ \cup {<<p, rest[i]>> : i \in DOMAIN rest}]
        /\ tokens' = [tokens EXCEPT ![c][p] = <<>>]
        /\ at' = [at EXCEPT ![c] = After(c, p, TRUE, result[c])]
  /\ UNCHANGED <<keptOfCall, entered, result, bound>>

LeaveOver(c) ==
  LET p == at[c].phase IN
  /\ at[c].step = "leave" /\ tokens[c][p] = <<>>
  /\ at' = [at EXCEPT ![c] = After(c, p, raised[c], result[c])]
  /\ UNCHANGED <<keptOfCall, entered, tokens, raised, result, bound, abandoned, mixed>>

-----------------------------------------------------------------------------
\* A step of _run_pipeline that settles res, or raises, or goes on to next.
Step(c, res, exc, next) ==
  /\ at' = [at EXCEPT ![c] = next]
  /\ result' = [result EXCEPT ![c] = res]
  /\ raised' = [raised EXCEPT ![c] = exc]
  /\ UNCHANGED <<keptOfCall, entered, tokens, bound, abandoned, mixed>>

Refusal(ok) == IF ok THEN "none" ELSE "refused"

\* The body of a phase.
RunBody(c) ==
  LET p == at[c].phase  d == payload[c].document  leave == At(p, "leave") IN
  /\ at[c].step = "body"
  /\ CASE p = "on_operation" -> Step(c, "none", FALSE, At("on_parse", "enter"))
       [] p = "on_parse"     -> Step(c, Refusal(d.parses), FALSE, leave)
       [] p = "on_validate"  -> Step(c, "none", FALSE, leave)
       [] p = "on_execute"   -> \E exc \in BOOLEAN : Step(c, IF exc THEN "none" ELSE "result", exc, leave)

\* _get_operation, between on_parse and on_validate.
Select(c) ==
  LET ok == SelectedOperation(payload[c]) # "none" IN
  /\ at[c] = At("none", "select")
  /\ Step(c, Refusal(ok), FALSE, IF ok THEN At("on_validate", "enter") ELSE LeaveOperation)

\* The errors of validate() and the variables, between on_validate and on_execute:
\* coerce_variable_values refuses them with a GraphQLError, or a scalar raises.
Check(c) ==
  LET d == payload[c].document IN
  /\ at[c] = At("none", "checked")
  /\ \/ d.valid /\ Step(c, "none", FALSE, At("on_execute", "enter"))
     \/ Step(c, "refused", FALSE, LeaveOperation)
     \/ d.valid /\ Step(c, "none", TRUE, LeaveOperation)

\* collect_results: get_results of one extension after the other may raise.
Collect(c) ==
  /\ at[c] = At("none", "collect")
  /\ \E exc \in BOOLEAN : Step(c, IF exc THEN "none" ELSE result[c], exc, Done)

\* subscribe() and execute_incremental(): the same checks without phases.  The
\* first refuses other operations, the second any that is not to be streamed by
\* its one payload; an exception of a scalar or of the root resolver's arguments
\* leaves both.
Prelude(c) ==
  LET d == payload[c].document  op == SelectedOperation(payload[c])
      sound == d.parses /\ op # "none" /\ d.valid /\ (entry[c] = "subscribe" => op = "subscription") IN
  /\ at[c] = At("none", "prelude")
  /\ \/ sound /\ Step(c, "stream", FALSE, Done)
     \/ Step(c, "refused", FALSE, Done)
     \/ sound /\ Step(c, "none", TRUE, Done)

Proceed(c) ==
  \/ EnterHook(c) \/ EnterOver(c) \/ LeaveHook(c) \/ LeaveOver(c)
  \/ RunBody(c) \/ Select(c) \/ Check(c) \/ Collect(c) \/ Prelude(c)

\* The executor runs the operation of c.
Executes(c) == at[c] = At("on_execute", "body") \/ (at[c] = At("none", "prelude") /\ at'[c] = Done /\ result'[c] = "stream")
=============================================================================
