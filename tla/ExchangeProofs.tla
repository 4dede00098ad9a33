--------------------------- MODULE ExchangeProofs ---------------------------
(***************************************************************************)
(* Theorems about Exchange, for any requests, any number of them at a time *)
(* and any extensions: the safety properties of its run.                   *)
(***************************************************************************)
EXTENDS Exchange, SequenceTheorems, TLAPS

-----------------------------------------------------------------------------
(* The pipeline of a call.                                                 *)

Hooks == {Extensions[i] : i \in DOMAIN Extensions}
OwnHooks == Hooks \ Shared  \* of extensions registered as classes

Collecting == At("none", "collect")
Preluding == At("none", "prelude")
Ats == {At(p, s) : p \in Phases, s \in {"enter", "body", "leave"}}
       \cup {At("none", s) : s \in {"idle", "done", "select", "checked", "collect", "prelude"}}

\* Outside of on_operation.
Calm == {Idle, Done, Collecting, Preluding}

\* The executor has had its turn.
AfterRun == {At("on_execute", "leave"), LeaveOperation, Collecting, Done}

PipeInv(c) ==
  /\ at[c] \in Ats
  /\ entered[c] \in 0..Len(Extensions)
  /\ tokens[c] \in [Phases -> Seq(Hooks)]
  /\ raised[c] \in BOOLEAN
  /\ \A p \in Phases : tokens[c][p] # <<>> =>
       at[c].phase = p \/ (p = "on_operation" /\ at[c] \notin Calm)
  /\ abandoned[c] # {} => raised[c] /\ at[c] \in {LeaveOperation, Done}
  /\ at[c] = Collecting => ~raised[c]
  /\ at[c] = Preluding => entry[c] # "execute"
  /\ at[c] \notin {Idle, Done, Preluding} => entry[c] = "execute"
  /\ entry[c] = "execute" => \A x \in OwnHooks : bound[<<x, c>>] = c
  /\ mixed[c] \subseteq Shared

PipeDomains ==
  /\ DOMAIN at = Calls /\ DOMAIN entry = Calls /\ DOMAIN payload = Calls /\ DOMAIN entered = Calls
  /\ DOMAIN tokens = Calls /\ DOMAIN raised = Calls /\ DOMAIN result = Calls
  /\ DOMAIN bound = Instances /\ DOMAIN abandoned = Calls /\ DOMAIN mixed = Calls

\* Nothing of the call d changes.
PipeSame(d) ==
  /\ at'[d] = at[d] /\ entry'[d] = entry[d] /\ payload'[d] = payload[d] /\ entered'[d] = entered[d]
  /\ tokens'[d] = tokens[d] /\ raised'[d] = raised[d] /\ result'[d] = result[d]
  /\ abandoned'[d] = abandoned[d] /\ mixed'[d] = mixed[d]
  /\ \A x \in OwnHooks : bound'[<<x, d>>] = bound[<<x, d>>]

\* What HooksAreResumed asks of one call.
HookStep(c) ==
  /\ \A p \in Phases : Suspended(c, p)' # Suspended(c, p) =>
       /\ IsPrefix(Suspended(c, p), Suspended(c, p)') \/ IsPrefix(Suspended(c, p)', Suspended(c, p))
       /\ p = "on_operation" => \A inner \in Phases \ {p} : Suspended(c, inner) = <<>>
  /\ at'[c] = Done => tokens'[c] = NoTokens
  /\ at'[c] = Done /\ abandoned'[c] # {} => raised'[c]

\* A step of the call c between its start and its end, and what it does to its result.
Advances(c) ==
  /\ PipeDomains' /\ (\A d \in Calls \ {c} : PipeSame(d))
  /\ PipeInv(c)' /\ HookStep(c)
  /\ entry'[c] = entry[c] /\ payload'[c] = payload[c]
  /\ at[c] \notin {Idle, Done} /\ at'[c] # Idle
  /\ Executes(c) => /\ at[c] \notin AfterRun /\ at'[c] \in AfterRun
                    /\ entry[c] = "execute" /\ ~raised'[c] => result'[c] = "result"
  /\ at[c] \in AfterRun => /\ at'[c] \in AfterRun
                           /\ ~raised'[c] => ~raised[c] /\ result'[c] = result[c]
  /\ at[c] \notin AfterRun /\ ~Executes(c) /\ at'[c] \in AfterRun /\ ~raised'[c] => result'[c] # "result"

LEMMA AtIs ==
  \A p, s, q, t : At(p, s).phase = p /\ At(p, s).step = s /\ (At(p, s) = At(q, t) <=> p = q /\ s = t)
BY DEF At

LEMMA AtsAre ==
  ASSUME NEW a \in Ats
  PROVE  /\ a = At(a.phase, a.step)
         /\ a.step \in {"enter", "body", "leave"} => a.phase \in Phases
         /\ a.step \notin {"enter", "body", "leave"} => a.phase = "none"
BY DEF Ats, At

LEMMA PhasesAre == "none" \notin Phases /\ "on_operation" \in Phases
BY DEF Phases

\* Between its phases a call has no hook suspended.
LEMMA CalmIsEmpty ==
  ASSUME NEW c \in Calls, PipeInv(c), at[c] \in Calm
  PROVE  tokens[c] = NoTokens
<1>1. at[c].phase = "none"
  BY AtIs DEF Calm, Idle, Done, Collecting, Preluding
<1>2. \A p \in Phases : tokens[c][p] = <<>>
  BY <1>1, PhasesAre DEF PipeInv
<1> QED BY <1>2 DEF PipeInv, NoTokens

\* A step of _run_pipeline.
LEMMA StepAdvances ==
  ASSUME PipeDomains, NEW c \in Calls, PipeInv(c),
         NEW res, NEW exc \in BOOLEAN, NEW next \in Ats \ {Idle, Preluding}, Step(c, res, exc, next),
         at[c] \notin {Idle, Done, LeaveOperation},
         \A p \in Phases : tokens[c][p] # <<>> => next.phase = p \/ (p = "on_operation" /\ next \notin Calm),
         next = Collecting => ~exc, next = Done \/ entry[c] = "execute",
         Executes(c) => next \in AfterRun /\ at[c] \notin AfterRun /\ (entry[c] = "execute" /\ ~exc => res = "result"),
         at[c] \in AfterRun => next \in AfterRun /\ (~exc => ~raised[c] /\ res = result[c]),
         at[c] \notin AfterRun /\ ~Executes(c) /\ next \in AfterRun /\ ~exc => res # "result"
  PROVE  Advances(c)
<1>1. /\ at' = [at EXCEPT ![c] = next] /\ result' = [result EXCEPT ![c] = res] /\ raised' = [raised EXCEPT ![c] = exc]
      /\ entry' = entry /\ payload' = payload /\ entered' = entered /\ tokens' = tokens /\ bound' = bound
      /\ abandoned' = abandoned /\ mixed' = mixed
  BY DEF Step, keptOfCall
<1>2. PipeDomains'
  BY <1>1 DEF PipeDomains
<1>3. \A d \in Calls \ {c} : PipeSame(d)
  BY <1>1 DEF PipeDomains, PipeSame
<1>4. at'[c] = next /\ result'[c] = res /\ raised'[c] = exc
  BY <1>1 DEF PipeDomains
<1>5. abandoned[c] = {}
  BY DEF PipeInv
<1>6. PipeInv(c)'
  BY <1>1, <1>4, <1>5 DEF PipeInv
<1>7. next = Done => tokens[c] = NoTokens
  <2>1. ASSUME next = Done PROVE \A p \in Phases : tokens[c][p] = <<>>
    BY <2>1, PhasesAre, AtIs DEF Calm, Done
  <2> QED BY <2>1 DEF PipeInv, NoTokens
<1>8. HookStep(c)
  BY <1>1, <1>4, <1>5, <1>7 DEF HookStep, Suspended
<1> QED BY <1>1, <1>2, <1>3, <1>4, <1>6, <1>8 DEF Advances

\* Where a call is, told apart.
LEMMA PlacesDiffer ==
  /\ \A p \in Phases : /\ At(p, "enter") \in Ats \ (Calm \cup AfterRun)
                       /\ At(p, "body") \in Ats \ (Calm \cup AfterRun)
                       /\ At(p, "leave") \in Ats \ Calm
                       /\ At(p, "leave") \in AfterRun <=> p \in {"on_execute", "on_operation"}
  /\ \A s \in {"select", "checked"} : At("none", s) \in Ats \ (Calm \cup AfterRun)
  /\ Calm \subseteq Ats /\ AfterRun \subseteq Ats /\ Preluding \notin AfterRun /\ Idle \notin AfterRun
  /\ Done # Idle /\ Done # Collecting /\ Done # Preluding /\ Idle # Collecting /\ Idle # Preluding
  /\ Collecting # Preluding /\ LeaveOperation \notin Calm /\ LeaveOperation \in Ats
<1>1. "none" \notin Phases /\ Phases = {"on_operation", "on_parse", "on_validate", "on_execute"}
  BY DEF Phases
<1>2. /\ Done = At("none", "done") /\ Idle = At("none", "idle") /\ Collecting = At("none", "collect")
      /\ Preluding = At("none", "prelude") /\ LeaveOperation = At("on_operation", "leave")
  BY DEF Done, Idle, Collecting, Preluding, LeaveOperation
<1>3. \A p \in Phases : \A s \in {"enter", "body", "leave"} : At(p, s) \in Ats /\ At(p, s) \notin Calm
  BY <1>1, <1>2, AtIs DEF Ats, Calm
<1>4. \A p \in Phases : At(p, "enter") \notin AfterRun /\ At(p, "body") \notin AfterRun
  BY <1>1, <1>2, AtIs DEF AfterRun
<1>5. \A p \in Phases : At(p, "leave") \in AfterRun <=> p \in {"on_execute", "on_operation"}
  BY <1>1, <1>2, AtIs DEF AfterRun
<1>6. \A s \in {"select", "checked"} : At("none", s) \in Ats \ (Calm \cup AfterRun)
  <2>1. \A s \in {"select", "checked"} : At("none", s) \in Ats
    BY DEF Ats
  <2>2. \A s \in {"select", "checked"} : At("none", s) \notin Calm
    BY <1>2, AtIs DEF Calm
  <2>3. \A s \in {"select", "checked"} : At("none", s) \notin AfterRun
    BY <1>2, AtIs DEF AfterRun
  <2> QED BY <2>1, <2>2, <2>3
<1>7. Calm \subseteq Ats /\ AfterRun \subseteq Ats
  BY <1>1, <1>2 DEF Ats, Calm, AfterRun
<1>8. Preluding \notin AfterRun /\ Idle \notin AfterRun
  BY <1>1, <1>2, AtIs DEF AfterRun
<1>9. /\ Done # Idle /\ Done # Collecting /\ Done # Preluding /\ Idle # Collecting /\ Idle # Preluding
      /\ Collecting # Preluding
  BY <1>2, AtIs
<1> QED BY <1>1, <1>2, <1>3, <1>4, <1>5, <1>6, <1>7, <1>8, <1>9

LEMMA SettlingAdvances ==
  ASSUME PipeDomains, NEW c \in Calls, PipeInv(c),
         RunBody(c) \/ Select(c) \/ Check(c) \/ Collect(c) \/ Prelude(c)
  PROVE  Advances(c)
<1> DEFINE a == at[c]
<1>0. /\ Phases = {"on_operation", "on_parse", "on_validate", "on_execute"}
      /\ LeaveOperation = At("on_operation", "leave") /\ Done = At("none", "done")
  BY DEF Phases, LeaveOperation, Done
<1>1. ASSUME NEW res, NEW exc, NEW next, Step(c, res, exc, next) PROVE at'[c] = next /\ result'[c] = res
  BY <1>1 DEF Step, PipeDomains
<1>2. ASSUME RunBody(c) PROVE Advances(c)
  <2> DEFINE p == a.phase
  <2>1. a.step = "body" /\ a = At(p, "body") /\ p \in Phases
    BY <1>2, AtsAre DEF RunBody, PipeInv
  <2>2. a \in Ats \ (Calm \cup AfterRun) /\ a # Preluding /\ entry[c] = "execute"
    BY <2>1, PlacesDiffer DEF Calm, PipeInv
  <2>3. Executes(c) <=> p = "on_execute"
    BY <2>1, <2>2, AtIs DEF Executes, Preluding
  <2>4. \A q \in Phases : tokens[c][q] # <<>> => p = q \/ q = "on_operation"
    BY DEF PipeInv
  <2>5. a \notin {Idle, Done, LeaveOperation}
    BY <2>2 DEF Calm, AfterRun
  <2> HIDE DEF a, p
  <2>6. CASE p = "on_operation"
    <3> DEFINE next == At("on_parse", "enter")
    <3>1. next \in Ats \ (Calm \cup AfterRun) /\ next.phase = "on_parse"
      BY <1>0, PlacesDiffer, AtIs
    <3>2. Step(c, "none", FALSE, next)
      BY <1>2, <2>6 DEF RunBody, a, p
    <3>3. ~Executes(c)
      BY <2>3, <2>6
    <3> HIDE DEF next
    <3> QED BY <2>2, <2>4, <2>5, <2>6, <3>1, <3>2, <3>3, StepAdvances DEF Calm, a
  <2>7. CASE p = "on_parse" \/ p = "on_validate"
    <3> DEFINE next == At(p, "leave")
    <3>1. next \in Ats \ (Calm \cup AfterRun) /\ next.phase = p
      BY <1>0, <2>7, PlacesDiffer, AtIs
    <3>2. PICK res : Step(c, res, FALSE, next)
      BY <1>2, <2>7 DEF RunBody, a, p
    <3>3. ~Executes(c)
      BY <2>3, <2>7
    <3> HIDE DEF next
    <3> QED BY <2>2, <2>4, <2>5, <3>1, <3>2, <3>3, StepAdvances DEF Calm, a
  <2>8. CASE p = "on_execute"
    <3> DEFINE next == At(p, "leave")
    <3>1. next \in Ats \ Calm /\ next \in AfterRun /\ next.phase = p
      BY <1>0, <2>8, PlacesDiffer, AtIs
    <3>2. PICK exc \in BOOLEAN : Step(c, IF exc THEN "none" ELSE "result", exc, next)
      BY <1>2, <2>8 DEF RunBody, a, p
    <3>3. Executes(c)
      BY <2>3, <2>8
    <3> HIDE DEF next
    <3> QED BY <2>2, <2>4, <2>5, <3>1, <3>2, <3>3, StepAdvances DEF Calm, a
  <2> QED BY <1>0, <2>1, <2>6, <2>7, <2>8
<1>3. ASSUME NEW s \in {"select", "checked"}, a = At("none", s)
      PROVE  /\ a \in Ats \ (Calm \cup AfterRun) /\ a \notin {Idle, Done, LeaveOperation} /\ ~Executes(c)
             /\ entry[c] = "execute" /\ \A q \in Phases : tokens[c][q] # <<>> => q = "on_operation"
  <2>1. a \in Ats \ (Calm \cup AfterRun)
    BY <1>3, PlacesDiffer
  <2>2. a.phase = "none" /\ a # At("on_execute", "body") /\ a # Preluding
    BY <1>0, <1>3, AtIs DEF Preluding
  <2>3. a \notin {Idle, Done, LeaveOperation}
    BY <2>1 DEF Calm, AfterRun
  <2> QED BY <2>1, <2>2, <2>3, PhasesAre DEF Executes, PipeInv, Preluding
<1>4. /\ LeaveOperation \in Ats \ Calm /\ LeaveOperation \in AfterRun /\ LeaveOperation.phase = "on_operation"
      /\ LeaveOperation # Done /\ LeaveOperation # Collecting
  BY <1>0, PlacesDiffer, AtIs DEF AfterRun, Calm
<1>5. \A q \in {"on_validate", "on_execute"} : At(q, "enter") \in Ats \ (Calm \cup AfterRun)
  BY <1>0, PlacesDiffer
<1>6. ASSUME Select(c) PROVE Advances(c)
  <2>1. a = At("none", "select")
    BY <1>6 DEF Select
  <2>2. \/ Step(c, "refused", FALSE, LeaveOperation) \/ Step(c, "none", FALSE, At("on_validate", "enter"))
    BY <1>6 DEF Select, Refusal
  <2> QED BY <1>3, <1>4, <1>5, <2>1, <2>2, StepAdvances DEF Calm
<1>7. ASSUME Check(c) PROVE Advances(c)
  <2>1. a = At("none", "checked")
    BY <1>7 DEF Check
  <2>2. \/ Step(c, "none", FALSE, At("on_execute", "enter"))
        \/ Step(c, "refused", FALSE, LeaveOperation) \/ Step(c, "none", TRUE, LeaveOperation)
    BY <1>7 DEF Check
  <2> QED BY <1>3, <1>4, <1>5, <2>1, <2>2, StepAdvances DEF Calm
<1>8. ASSUME Collect(c) PROVE Advances(c)
  <2>1. a = Collecting
    BY <1>8 DEF Collect, Collecting
  <2>2. PICK exc \in BOOLEAN : Step(c, IF exc THEN "none" ELSE result[c], exc, Done)
    BY <1>8 DEF Collect
  <2>3. a \in Calm /\ a \in AfterRun /\ a \notin {Idle, Done, LeaveOperation} /\ Done \in Ats \ {Idle, Preluding}
        /\ Done \in AfterRun /\ Done # Collecting
    BY <2>1, PlacesDiffer DEF Calm, AfterRun
  <2>4. \A q \in Phases : tokens[c][q] = <<>>
    BY <2>3, CalmIsEmpty DEF NoTokens
  <2>5. ~Executes(c) /\ ~raised[c] /\ a # Preluding
    BY <2>1, AtIs DEF Executes, Collecting, Preluding, PipeInv
  <2> QED BY <2>2, <2>3, <2>4, <2>5, StepAdvances
<1>9. ASSUME Prelude(c) PROVE Advances(c)
  <2>1. a = Preluding
    BY <1>9 DEF Prelude, Preluding
  <2>2. \/ Step(c, "stream", FALSE, Done) \/ Step(c, "refused", FALSE, Done) \/ Step(c, "none", TRUE, Done)
    BY <1>9 DEF Prelude
  <2>3. a \in Calm /\ a \notin AfterRun /\ a \notin {Idle, Done, LeaveOperation} /\ Done \in Ats \ {Idle, Preluding}
        /\ Done \in AfterRun /\ Done # Collecting
    BY <2>1, PlacesDiffer DEF Calm, AfterRun
  <2>4. \A q \in Phases : tokens[c][q] = <<>>
    BY <2>3, CalmIsEmpty DEF NoTokens
  <2>5. entry[c] # "execute"
    BY <2>1 DEF PipeInv
  <2> QED BY <2>2, <2>3, <2>4, <2>5, StepAdvances
<1> QED BY <1>2, <1>6, <1>7, <1>8, <1>9

\* Where a phase that is over leads.
LEMMA AfterIs ==
  ASSUME NEW c \in Calls, NEW p \in Phases, NEW exc \in BOOLEAN, NEW res
  PROVE  LET next == After(c, p, exc, res) IN
         /\ next \in Ats \ {Idle, Preluding}
         /\ exc => next = IF p = "on_operation" THEN Done ELSE LeaveOperation
         /\ p = "on_operation" => next \in {Done, Collecting}
         /\ p # "on_operation" => next \notin Calm
         /\ p \in {"on_execute", "on_operation"} => next \in AfterRun
         /\ p \notin {"on_execute", "on_operation"} /\ next \in AfterRun => exc \/ res = "refused"
         /\ next = Collecting => ~exc
<1>1. Phases = {"on_operation", "on_parse", "on_validate", "on_execute"}
  BY DEF Phases
<1>2. \A s \in {"select", "checked"} : At("none", s) \in Ats \ (Calm \cup AfterRun)
  BY PlacesDiffer
<1>3. /\ LeaveOperation \in Ats \ Calm /\ LeaveOperation \in AfterRun
      /\ Done \in Ats \ {Idle, Preluding, Collecting} /\ Collecting \in Ats \ {Idle, Preluding, Done}
      /\ Done \in AfterRun /\ Collecting \in AfterRun
      /\ Idle \in Calm /\ Preluding \in Calm
  BY PlacesDiffer DEF AfterRun, Calm
<1>4. CASE p = "on_operation"
  BY <1>3, <1>4 DEF After, Collecting
<1>5. CASE p # "on_operation" /\ (exc \/ res = "refused")
  BY <1>3, <1>5 DEF After, Calm
<1>6. CASE p = "on_parse" /\ ~exc /\ res # "refused"
  BY <1>2, <1>3, <1>6 DEF After, Calm, AfterRun
<1>7. CASE p = "on_validate" /\ ~exc /\ res # "refused"
  BY <1>2, <1>3, <1>7 DEF After, Calm, AfterRun
<1>8. CASE p = "on_execute" /\ ~exc /\ res # "refused"
  BY <1>3, <1>8 DEF After, Calm
<1> QED BY <1>1, <1>4, <1>5, <1>6, <1>7, <1>8

\* A hook is called or resumed, or the loop over the hooks is over: the call stays in
\* the phase, goes on to its body, or leaves it with no hook suspended.
LEMMA HookAdvances ==
  ASSUME PipeDomains, NEW c \in Calls, PipeInv(c), NEW p \in Phases,
         NEW s \in {"enter", "leave"}, at[c] = At(p, s),
         PipeDomains', \A d \in Calls \ {c} : PipeSame(d),
         entry' = entry, payload' = payload, bound' = bound, result' = result,
         tokens'[c] \in [Phases -> Seq(Hooks)], \A q \in Phases \ {p} : tokens'[c][q] = tokens[c][q],
         IsPrefix(tokens[c][p], tokens'[c][p]) \/ IsPrefix(tokens'[c][p], tokens[c][p]),
         entered'[c] \in 0..Len(Extensions), raised'[c] \in BOOLEAN, mixed'[c] \subseteq Shared,
         NEW res,
         \/ /\ at'[c] = at[c] \/ (s = "enter" /\ at'[c] = At(p, "body"))
            /\ raised'[c] = raised[c] /\ abandoned'[c] = abandoned[c]
         \/ /\ tokens'[c][p] = <<>> /\ at'[c] = After(c, p, raised'[c], res)
            /\ raised'[c] \/ (s = "leave" /\ ~raised[c] /\ abandoned'[c] = abandoned[c] /\ res = result[c])
  PROVE  Advances(c)
<1> DEFINE next == at'[c]
<1>0. at[c] \notin Calm /\ at[c].phase = p /\ ~Executes(c) /\ (at[c] \in AfterRun => p \in {"on_execute", "on_operation"})
  <2>1. at[c] # At("on_execute", "body") /\ at[c].phase = p
    BY AtIs
  <2>2. at[c] \notin Calm /\ (at[c] \in AfterRun => p \in {"on_execute", "on_operation"})
    BY PlacesDiffer
  <2> QED BY <2>1, <2>2 DEF Calm, Executes, Preluding
<1>1. /\ entry[c] = "execute" /\ \A q \in Phases : tokens[c][q] # <<>> => q = p \/ q = "on_operation"
  BY <1>0 DEF PipeInv, Calm
<1>2. CASE /\ next = at[c] \/ (s = "enter" /\ next = At(p, "body"))
           /\ raised'[c] = raised[c] /\ abandoned'[c] = abandoned[c]
  <2>1. next \in Ats /\ next \notin Calm /\ next.phase = p
    BY <1>0, <1>2, PlacesDiffer, AtIs DEF PipeInv
  <2>2. abandoned[c] # {} => next \in {LeaveOperation, Done}
    <3>1. s = "enter" => abandoned[c] = {}
      BY <1>0, PlacesDiffer DEF PipeInv, AfterRun
    <3> QED BY <1>2, <3>1 DEF PipeInv
  <2>3. PipeInv(c)'
    BY <1>0, <1>1, <1>2, <2>1, <2>2 DEF PipeInv, Calm
  <2>4. at[c] \in AfterRun => next = at[c]
    BY <1>2, PlacesDiffer
  <2>5. at[c] \notin AfterRun => next \notin AfterRun
    BY <1>2, PlacesDiffer
  <2>6. HookStep(c)
    BY <1>0, <1>2, <2>1, <2>3 DEF HookStep, Suspended, PipeInv, Calm
  <2> QED BY <1>0, <1>2, <2>1, <2>3, <2>4, <2>5, <2>6 DEF Advances, Calm
<1>3. CASE /\ tokens'[c][p] = <<>> /\ next = After(c, p, raised'[c], res)
           /\ raised'[c] \/ (s = "leave" /\ ~raised[c] /\ abandoned'[c] = abandoned[c] /\ res = result[c])
  <2>1. /\ next \in Ats \ {Idle, Preluding}
        /\ raised'[c] => next \in {Done, LeaveOperation}
        /\ p = "on_operation" => next \in {Done, Collecting}
        /\ p # "on_operation" => next \notin Calm
        /\ p \in {"on_execute", "on_operation"} => next \in AfterRun
        /\ p \notin {"on_execute", "on_operation"} /\ next \in AfterRun => raised'[c] \/ res = "refused"
        /\ next = Collecting => ~raised'[c]
    BY <1>3, AfterIs
  <2>2. \A q \in Phases : tokens'[c][q] # <<>> => q = "on_operation" /\ next \notin Calm
    BY <1>1, <1>3, <2>1
  <2>3. abandoned'[c] # {} => raised'[c] /\ next \in {LeaveOperation, Done}
    BY <1>3, <2>1 DEF PipeInv
  <2>4. PipeInv(c)'
    BY <1>1, <2>1, <2>2, <2>3 DEF PipeInv
  <2>5. next = Done => tokens'[c] = NoTokens
    BY <2>2 DEF Calm, NoTokens
  <2>6. HookStep(c)
    BY <1>0, <2>3, <2>5 DEF HookStep, Suspended, PipeInv, Calm
  <2>7. at[c] \in AfterRun => next \in AfterRun /\ (~raised'[c] => ~raised[c] /\ result'[c] = result[c])
    BY <1>0, <1>3, <2>1
  <2>8. at[c] \notin AfterRun /\ next \in AfterRun /\ ~raised'[c] => result'[c] # "result"
    <3>1. s = "leave" /\ at[c] \notin AfterRun => p \notin {"on_execute", "on_operation"}
      BY PlacesDiffer
    <3> QED BY <1>3, <2>1, <3>1
  <2> QED BY <1>0, <1>3, <2>1, <2>4, <2>6, <2>7, <2>8 DEF Advances, Calm
<1> QED BY <1>2, <1>3

\* What a hook does to the hooks suspended in its phase.
LEMMA SameIsPrefix == ASSUME NEW T \in Seq(Hooks) PROVE IsPrefix(T, T)
BY DEF IsPrefix

LEMMA EmptyIsPrefix == ASSUME NEW T \in Seq(Hooks) PROVE <<>> \in Seq(Hooks) /\ IsPrefix(<<>>, T)
BY DEF IsPrefix

LEMMA AppendIs ==
  ASSUME NEW T \in Seq(Hooks), NEW x \in Hooks
  PROVE  Append(T, x) \in Seq(Hooks) /\ IsPrefix(T, Append(T, x))
BY DEF IsPrefix

LEMMA ResumeIs ==
  ASSUME NEW T \in Seq(Hooks), T # <<>>
  PROVE  Resume(T).hook \in Hooks /\ Resume(T).left \in Seq(Hooks) /\ IsPrefix(Resume(T).left, T)
<1> DEFINE n == Len(T)  front == SubSeq(T, 1, n - 1)
<1>1. n \in Nat \ {0} /\ T[n] \in Hooks
  OBVIOUS
<1>2. Resume(T).hook = T[n] /\ Resume(T).left = front
  BY DEF Resume
<1>3. front \in Seq(Hooks)
  BY <1>1
<1>4. Len(front) = n - 1
  <2>1. \A i \in 1..n - 1 : T[i] \in Hooks
    BY <1>1
  <2> HIDE DEF n
  <2>2. n - 1 \in Int /\ n - 1 = IF 1 <= n - 1 THEN (n - 1) - 1 + 1 ELSE 0
    BY <1>1
  <2> QED BY <2>1, <2>2, SubSeqProperties
<1>5. SubSeq(front, 1, n - 1) = front
  BY <1>1, <1>3, <1>4
<1>6. IsPrefix(front, T)
  BY <1>1, <1>3, <1>4, <1>5 DEF IsPrefix
<1> HIDE DEF front
<1> QED BY <1>1, <1>2, <1>3, <1>6

\* A hook of an extension that is a class sees its own call.
LEMMA TouchIsOwn ==
  ASSUME PipeDomains, NEW c \in Calls, PipeInv(c), entry[c] = "execute", NEW x \in Hooks, Touch(c, x)
  PROVE  /\ DOMAIN mixed' = Calls /\ mixed'[c] \subseteq Shared
         /\ \A d \in Calls \ {c} : mixed'[d] = mixed[d]
<1>1. CASE x \in Shared
  BY <1>1 DEF Touch, PipeDomains, PipeInv
<1>2. CASE x \notin Shared
  <2>1. bound[Instance(x, c)] = c
    BY <1>2 DEF Instance, PipeInv, OwnHooks
  <2> QED BY <2>1 DEF Touch, PipeDomains, PipeInv
<1> QED BY <1>1, <1>2

LEMMA ProceedAdvances ==
  ASSUME PipeDomains, NEW c \in Calls, PipeInv(c), Proceed(c)
  PROVE  Advances(c)
<1> DEFINE p == at[c].phase
<1>1. /\ at[c] \in Ats /\ tokens[c] \in [Phases -> Seq(Hooks)] /\ raised[c] \in BOOLEAN
      /\ mixed[c] \subseteq Shared /\ entered[c] \in 0..Len(Extensions)
  BY DEF PipeInv
<1>2. ASSUME NEW s \in {"enter", "leave"}, at[c].step = s
      PROVE  at[c] = At(p, s) /\ p \in Phases /\ entry[c] = "execute"
  <2>1. at[c] = At(p, s) /\ p \in Phases
    BY <1>1, <1>2, AtsAre
  <2> HIDE DEF p
  <2>2. at[c] \notin Calm
    BY <2>1, PlacesDiffer
  <2> QED BY <2>1, <2>2 DEF PipeInv, Calm
<1>3. \A i \in 1..Len(Extensions) : Extensions[i] \in Hooks
  BY PipelineAssumption DEF PipelineAssumption, Hooks
<1>4. ASSUME EnterHook(c) PROVE Advances(c)
  <2> DEFINE x == Extensions[entered[c] + 1]
  <2>1. at[c] = At(p, "enter") /\ p \in Phases /\ entry[c] = "execute"
    BY <1>2, <1>4 DEF EnterHook
  <2>2. /\ entered[c] < Len(Extensions) /\ Touch(c, x)
        /\ entry' = entry /\ payload' = payload /\ bound' = bound /\ result' = result
        /\ \/ /\ entered' = [entered EXCEPT ![c] = @ + 1]
              /\ tokens' = tokens \/ tokens' = [tokens EXCEPT ![c][p] = Append(@, x)]
              /\ at' = at /\ raised' = raised /\ abandoned' = abandoned
           \/ /\ raised' = [raised EXCEPT ![c] = TRUE] /\ entered' = entered
              /\ abandoned' = [abandoned EXCEPT ![c] = @ \cup {<<p, tokens[c][p][i]>> : i \in DOMAIN tokens[c][p]}]
              /\ tokens' = [tokens EXCEPT ![c][p] = <<>>]
              /\ at' = [at EXCEPT ![c] = After(c, p, TRUE, "none")]
    BY <1>4 DEF EnterHook, keptOfCall
  <2>3. Len(Extensions) \in Nat
    BY PipelineAssumption DEF PipelineAssumption
  <2>4. x \in Hooks
    BY <1>1, <1>3, <2>2, <2>3
  <2> HIDE DEF p, x
  <2>5. DOMAIN mixed' = Calls /\ mixed'[c] \subseteq Shared /\ \A d \in Calls \ {c} : mixed'[d] = mixed[d]
    BY <2>1, <2>2, <2>4, TouchIsOwn
  <2>6. CASE /\ entered' = [entered EXCEPT ![c] = @ + 1]
             /\ tokens' = tokens \/ tokens' = [tokens EXCEPT ![c][p] = Append(@, x)]
             /\ at' = at /\ raised' = raised /\ abandoned' = abandoned
    <3>1. PipeDomains' /\ entered'[c] \in 0..Len(Extensions)
      BY <1>1, <2>2, <2>3, <2>5, <2>6 DEF PipeDomains
    <3>2. \A d \in Calls \ {c} : PipeSame(d)
      BY <2>2, <2>5, <2>6 DEF PipeDomains, PipeSame
    <3>3. /\ tokens'[c] \in [Phases -> Seq(Hooks)] /\ IsPrefix(tokens[c][p], tokens'[c][p])
          /\ \A q \in Phases \ {p} : tokens'[c][q] = tokens[c][q]
      <4>1. CASE tokens' = tokens
        BY <1>1, <2>1, <4>1, SameIsPrefix
      <4>2. CASE tokens' = [tokens EXCEPT ![c][p] = Append(@, x)]
        <5>1. tokens'[c] = [tokens[c] EXCEPT ![p] = Append(tokens[c][p], x)]
          BY <4>2 DEF PipeDomains
        <5>2. Append(tokens[c][p], x) \in Seq(Hooks) /\ IsPrefix(tokens[c][p], Append(tokens[c][p], x))
          BY <1>1, <2>1, <2>4, AppendIs
        <5> QED BY <1>1, <2>1, <5>1, <5>2
      <4> QED BY <2>6, <4>1, <4>2
    <3> QED BY <1>1, <2>1, <2>2, <2>5, <2>6, <3>1, <3>2, <3>3, HookAdvances
  <2>7. CASE /\ raised' = [raised EXCEPT ![c] = TRUE] /\ entered' = entered
             /\ abandoned' = [abandoned EXCEPT ![c] = @ \cup {<<p, tokens[c][p][i]>> : i \in DOMAIN tokens[c][p]}]
             /\ tokens' = [tokens EXCEPT ![c][p] = <<>>]
             /\ at' = [at EXCEPT ![c] = After(c, p, TRUE, "none")]
    <3>1. PipeDomains' /\ raised'[c] = TRUE /\ at'[c] = After(c, p, raised'[c], "none")
      BY <2>2, <2>5, <2>7 DEF PipeDomains
    <3>2. \A d \in Calls \ {c} : PipeSame(d)
      BY <2>2, <2>5, <2>7 DEF PipeDomains, PipeSame
    <3>3. tokens'[c] = [tokens[c] EXCEPT ![p] = <<>>]
      BY <2>7 DEF PipeDomains
    <3>4. /\ tokens'[c] \in [Phases -> Seq(Hooks)] /\ IsPrefix(tokens'[c][p], tokens[c][p]) /\ tokens'[c][p] = <<>>
          /\ \A q \in Phases \ {p} : tokens'[c][q] = tokens[c][q]
      BY <1>1, <2>1, <3>3, EmptyIsPrefix
    <3>5. entered'[c] \in 0..Len(Extensions) /\ raised'[c] \in BOOLEAN
      BY <1>1, <2>7, <3>1
    <3> QED BY <2>1, <2>2, <2>5, <3>1, <3>2, <3>4, <3>5, HookAdvances
  <2> QED BY <2>2, <2>6, <2>7
<1>5. ASSUME LeaveHook(c) PROVE Advances(c)
  <2> DEFINE x == Resume(tokens[c][p]).hook  rest == Resume(tokens[c][p]).left
  <2>1. at[c] = At(p, "leave") /\ p \in Phases /\ entry[c] = "execute"
    BY <1>2, <1>5 DEF LeaveHook
  <2>2. /\ tokens[c][p] # <<>> /\ Touch(c, x)
        /\ entry' = entry /\ payload' = payload /\ bound' = bound /\ result' = result /\ entered' = entered
        /\ \/ /\ tokens' = [tokens EXCEPT ![c][p] = rest]
              /\ at' = at /\ raised' = raised /\ abandoned' = abandoned
           \/ /\ raised' = [raised EXCEPT ![c] = TRUE]
              /\ abandoned' = [abandoned EXCEPT ![c] = @ \cup {<<p, rest[i]>> : i \in DOMAIN rest}]
              /\ tokens' = [tokens EXCEPT ![c][p] = <<>>]
              /\ at' = [at EXCEPT ![c] = After(c, p, TRUE, result[c])]
    BY <1>5 DEF LeaveHook, keptOfCall
  <2>3. x \in Hooks /\ rest \in Seq(Hooks) /\ IsPrefix(rest, tokens[c][p])
    BY <1>1, <2>1, <2>2, ResumeIs
  <2> HIDE DEF p, x, rest
  <2>4. DOMAIN mixed' = Calls /\ mixed'[c] \subseteq Shared /\ \A d \in Calls \ {c} : mixed'[d] = mixed[d]
    BY <2>1, <2>2, <2>3, TouchIsOwn
  <2>5. CASE /\ tokens' = [tokens EXCEPT ![c][p] = rest]
             /\ at' = at /\ raised' = raised /\ abandoned' = abandoned
    <3>1. PipeDomains'
      BY <2>2, <2>4, <2>5 DEF PipeDomains
    <3>2. \A d \in Calls \ {c} : PipeSame(d)
      BY <2>2, <2>4, <2>5 DEF PipeDomains, PipeSame
    <3>3. tokens'[c] = [tokens[c] EXCEPT ![p] = rest]
      BY <2>5 DEF PipeDomains
    <3>4. tokens'[c] \in [Phases -> Seq(Hooks)] /\ IsPrefix(tokens'[c][p], tokens[c][p])
      BY <1>1, <2>1, <2>3, <3>3
    <3> QED BY <1>1, <2>1, <2>2, <2>4, <2>5, <3>1, <3>2, <3>3, <3>4, HookAdvances
  <2>6. CASE /\ raised' = [raised EXCEPT ![c] = TRUE]
             /\ abandoned' = [abandoned EXCEPT ![c] = @ \cup {<<p, rest[i]>> : i \in DOMAIN rest}]
             /\ tokens' = [tokens EXCEPT ![c][p] = <<>>]
             /\ at' = [at EXCEPT ![c] = After(c, p, TRUE, result[c])]
    <3>1. PipeDomains' /\ raised'[c] = TRUE /\ at'[c] = After(c, p, raised'[c], result[c])
      BY <2>2, <2>4, <2>6 DEF PipeDomains
    <3>2. \A d \in Calls \ {c} : PipeSame(d)
      BY <2>2, <2>4, <2>6 DEF PipeDomains, PipeSame
    <3>3. tokens'[c] = [tokens[c] EXCEPT ![p] = <<>>]
      BY <2>6 DEF PipeDomains
    <3>4. /\ tokens'[c] \in [Phases -> Seq(Hooks)] /\ IsPrefix(tokens'[c][p], tokens[c][p]) /\ tokens'[c][p] = <<>>
          /\ \A q \in Phases \ {p} : tokens'[c][q] = tokens[c][q]
      BY <1>1, <2>1, <3>3, EmptyIsPrefix
    <3>5. entered'[c] \in 0..Len(Extensions) /\ raised'[c] \in BOOLEAN
      BY <1>1, <2>2, <3>1
    <3> QED BY <2>1, <2>2, <2>4, <3>1, <3>2, <3>4, <3>5, HookAdvances
  <2> QED BY <2>2, <2>5, <2>6
<1>6. ASSUME EnterOver(c) PROVE Advances(c)
  <2>1. at[c] = At(p, "enter") /\ p \in Phases
    BY <1>2, <1>6 DEF EnterOver
  <2>2. /\ at' = [at EXCEPT ![c].step = "body"] /\ entered' = [entered EXCEPT ![c] = 0]
        /\ entry' = entry /\ payload' = payload /\ bound' = bound /\ result' = result
        /\ tokens' = tokens /\ raised' = raised /\ abandoned' = abandoned /\ mixed' = mixed
    BY <1>6 DEF EnterOver, keptOfCall
  <2> HIDE DEF p
  <2>3. at'[c] = At(p, "body")
    BY <2>1, <2>2 DEF At, PipeDomains
  <2>4. PipeDomains' /\ entered'[c] \in 0..Len(Extensions)
    BY <1>1, <2>2 DEF PipeDomains
  <2>5. \A d \in Calls \ {c} : PipeSame(d)
    BY <2>2 DEF PipeDomains, PipeSame
  <2>6. IsPrefix(tokens[c][p], tokens[c][p])
    BY <1>1, <2>1, SameIsPrefix
  <2> QED BY <1>1, <2>1, <2>2, <2>3, <2>4, <2>5, <2>6, HookAdvances
<1>7. ASSUME LeaveOver(c) PROVE Advances(c)
  <2>1. at[c] = At(p, "leave") /\ p \in Phases
    BY <1>2, <1>7 DEF LeaveOver
  <2>2. /\ at' = [at EXCEPT ![c] = After(c, p, raised[c], result[c])] /\ tokens[c][p] = <<>> /\ entered' = entered
        /\ entry' = entry /\ payload' = payload /\ bound' = bound /\ result' = result
        /\ tokens' = tokens /\ raised' = raised /\ abandoned' = abandoned /\ mixed' = mixed
    BY <1>7 DEF LeaveOver, keptOfCall
  <2> HIDE DEF p
  <2>3. PipeDomains' /\ at'[c] = After(c, p, raised'[c], result[c])
    BY <2>2 DEF PipeDomains
  <2>4. \A d \in Calls \ {c} : PipeSame(d)
    BY <2>2 DEF PipeDomains, PipeSame
  <2>5. IsPrefix(tokens[c][p], tokens[c][p])
    BY <1>1, <2>1, SameIsPrefix
  <2> QED BY <1>1, <2>1, <2>2, <2>3, <2>4, <2>5, HookAdvances
<1> QED BY <1>4, <1>5, <1>6, <1>7, SettlingAdvances DEF Proceed

-----------------------------------------------------------------------------
(* A request.                                                              *)

IsSeq(s) == s \in Seq({s[i] : i \in DOMAIN s})
Run == Reply(0, "run")

\* The operation at this place of the request has run.
RanAt(r, n) == \E i \in RunsOf(r) : executed[i].position = n
Operation(r) == Len(answers[r]) + 1

\* Where the request is: what it was found to be, and how far it is.
StageInv(r) ==
  /\ stage[r] \in {"new", "values", "running", "introspecting", "answered"}
  /\ IsSeq(answers[r]) /\ IsSeq(request[r].payloads)
  /\ stage[r] \in {"new", "values"} <=> stage[r] # "answered" /\ at[r] = Idle
  /\ stage[r] # "answered" /\ (at[r] = Idle \/ ~request[r].batch) => answers[r] = <<>>
  /\ stage[r] \in {"values", "running"} => Decide(request[r]) = Run
  /\ stage[r] = "introspecting" => request[r].route = "introspection" /\ answers[r] = <<>>
  /\ stage[r] = "running" /\ request[r].batch =>
       entry[r] = "execute" /\ Operation(r) <= Len(request[r].payloads)
  /\ Answered(r) /\ response[r].status \in 400..499 => at[r] = Idle
  /\ Answered(r) /\ response[r].body = "list" =>
       request[r].batch /\ Len(answers[r]) = Len(request[r].payloads)

\* The operation that is running is the one of its place, and of a kind the method allows.
PayloadInv(r) ==
  /\ at[r] \notin {Idle, Done} /\ request[r].route = "main" /\ request[r].payloads # <<>> =>
       payload[r] = request[r].payloads[Operation(r)]
  /\ request[r].method # "POST" /\ at[r] # Idle =>
       \/ SelectedOperation(payload[r]) = "query"
       \/ SelectedOperation(payload[r]) = "subscription" /\ entry[r] = "subscribe"

\* What the request has run is what it answered, in order, and maybe one more.
RunsInv(r) ==
  /\ at[r] = Idle => RunsOf(r) = {}
  /\ \A i \in RunsOf(r) :
       /\ executed[i].position \in 1..Operation(r)
       /\ executed[i].position = Operation(r) => at[r] \in AfterRun
       /\ request[r].route = "main" /\ request[r].payloads # <<>> =>
            executed[i].type = SelectedOperation(request[r].payloads[executed[i].position])
       /\ request[r].method # "POST" =>
            executed[i].type = "query" \/ (executed[i].type = "subscription" /\ entry[r] = "subscribe")
  /\ \A i, j \in RunsOf(r) : i < j => executed[i].position < executed[j].position
  /\ stage[r] # "answered" /\ entry[r] = "execute" /\ at[r] \in AfterRun /\ ~raised[r] =>
       (result[r] = "result" <=> RanAt(r, Operation(r)))
  /\ request[r].batch => \A n \in DOMAIN answers[r] : answers[r][n] = "result" <=> RanAt(r, n)

RequestDomains ==
  /\ DOMAIN stage = Calls /\ DOMAIN answers = Calls /\ DOMAIN response = Calls
  /\ IsSeq(executed)

RequestInv(r) == PipeInv(r) /\ StageInv(r) /\ PayloadInv(r) /\ RunsInv(r)
ExchangeInv == PipeDomains /\ RequestDomains /\ \A r \in Calls : RequestInv(r)

\* What a step of the request r leaves of the invariant.
Keeps(r) ==
  /\ RequestInv(r)' /\ HookStep(r) /\ PipeDomains' /\ RequestDomains'
  /\ \A d \in Calls \ {r} :
       PipeSame(d) /\ stage'[d] = stage[d] /\ answers'[d] = answers[d] /\ response'[d] = response[d]

LEMMA SeqGrows ==
  ASSUME NEW s, IsSeq(s), NEW x
  PROVE  /\ Len(s) \in Nat /\ DOMAIN s = 1..Len(s) /\ IsSeq(Append(s, x))
         /\ Len(Append(s, x)) = Len(s) + 1 /\ DOMAIN Append(s, x) = 1..Len(s) + 1
         /\ Append(s, x)[Len(s) + 1] = x /\ \A i \in 1..Len(s) : Append(s, x)[i] = s[i]
<1> DEFINE S == {s[i] : i \in DOMAIN s}  t == Append(s, x)
<1>1. s \in Seq(S)
  BY DEF IsSeq
<1>2. Len(s) \in Nat /\ DOMAIN s = 1..Len(s) /\ s \in Seq(S \cup {x})
  BY <1>1
<1> HIDE DEF S
<1>3. /\ t \in Seq(S \cup {x}) /\ Len(t) = Len(s) + 1 /\ DOMAIN t = 1..Len(s) + 1
      /\ t[Len(s) + 1] = x /\ \A i \in 1..Len(s) : t[i] = s[i]
  BY <1>2
<1> HIDE DEF t
<1>4. t \in Seq({t[i] : i \in DOMAIN t})
  BY <1>2, <1>3
<1> QED BY <1>2, <1>3, <1>4 DEF IsSeq, t

\* A call that starts has nothing left of the one before it.
LEMMA StartIsFresh ==
  ASSUME PipeDomains, NEW c \in Calls, PipeInv(c), NEW kind \in {"execute", "subscribe", "incremental"},
         NEW pay, StartCall(c, kind, pay), raised[c] => at[c] # Done
  PROVE  /\ PipeDomains' /\ (\A d \in Calls \ {c} : PipeSame(d))
         /\ PipeInv(c)' /\ HookStep(c)
         /\ entry'[c] = kind /\ payload'[c] = pay
         /\ at'[c] \notin AfterRun /\ at'[c] \notin {Idle, Done}
         /\ ~Executes(c)
<1> DEFINE next == IF kind = "execute" THEN At("on_operation", "enter") ELSE Preluding
           own == {Instance(Extensions[i], c) : i \in DOMAIN Extensions}
<1>1. /\ at[c] \in {Idle, Done} /\ at' = [at EXCEPT ![c] = next]
      /\ entry' = [entry EXCEPT ![c] = kind] /\ payload' = [payload EXCEPT ![c] = pay]
      /\ entered' = [entered EXCEPT ![c] = 0] /\ raised' = [raised EXCEPT ![c] = FALSE]
      /\ result' = [result EXCEPT ![c] = "none"]
      /\ tokens' = tokens /\ abandoned' = abandoned /\ mixed' = mixed
  BY DEF StartCall, Preluding
<1>2. bound' = IF kind # "execute" THEN bound ELSE [x \in Instances |-> IF x \in own THEN c ELSE bound[x]]
  BY DEF StartCall
<1> HIDE DEF next
<1>3. next \in Ats \ AfterRun /\ next \notin {Idle, Done, Collecting} /\ (kind = "execute" <=> next # Preluding)
      /\ (kind = "execute" => next \notin Calm)
  BY PlacesDiffer, PhasesAre DEF next, Calm
<1>4. \A x \in OwnHooks, d \in Calls : <<x, d>> \in Instances /\ (<<x, d>> \in own <=> d = c)
  <2> SUFFICES ASSUME NEW x \in OwnHooks, NEW d \in Calls
               PROVE  <<x, d>> \in Instances /\ (<<x, d>> \in own <=> d = c)
    OBVIOUS
  <2>1. d # "schema" /\ c # "schema" /\ x \notin Shared
    BY PipelineAssumption DEF PipelineAssumption, OwnHooks
  <2>2. PICK i \in DOMAIN Extensions : x = Extensions[i]
    BY DEF OwnHooks, Hooks
  <2>3. Instance(Extensions[i], c) = <<x, c>>
    BY <2>1, <2>2 DEF Instance
  <2>4. ASSUME <<x, d>> \in own PROVE d = c
    BY <2>1, <2>4 DEF Instance
  <2> QED BY <2>2, <2>3, <2>4 DEF Instances
<1> HIDE DEF own
<1>5. \A x \in OwnHooks, d \in Calls : bound'[<<x, d>>] = IF kind = "execute" /\ d = c THEN c ELSE bound[<<x, d>>]
  BY <1>2, <1>4
<1>6. PipeDomains'
  BY <1>1, <1>2 DEF PipeDomains
<1>7. \A d \in Calls \ {c} : PipeSame(d)
  BY <1>1, <1>5 DEF PipeDomains, PipeSame
<1>8. /\ at'[c] = next /\ entry'[c] = kind /\ payload'[c] = pay /\ entered'[c] = 0 /\ raised'[c] = FALSE
      /\ tokens'[c] = tokens[c] /\ abandoned'[c] = abandoned[c] /\ mixed'[c] = mixed[c]
  BY <1>1 DEF PipeDomains
<1>9. abandoned[c] = {} /\ tokens[c] = NoTokens
  BY <1>1, CalmIsEmpty, PlacesDiffer DEF PipeInv, Calm
<1>10. PipeInv(c)'
  <2>1. Len(Extensions) \in Nat
    BY PipelineAssumption DEF PipelineAssumption
  <2>2. \A p \in Phases : tokens[c][p] = <<>>
    BY <1>9 DEF NoTokens
  <2>3. /\ at'[c] \in Ats /\ entered'[c] \in 0..Len(Extensions) /\ tokens'[c] \in [Phases -> Seq(Hooks)]
        /\ raised'[c] \in BOOLEAN /\ mixed'[c] \subseteq Shared
    <3>1. tokens[c] \in [Phases -> Seq(Hooks)] /\ mixed[c] \subseteq Shared
      BY DEF PipeInv
    <3>2. 0 \in 0..Len(Extensions)
      BY <2>1
    <3> QED BY <1>3, <1>8, <3>1, <3>2
  <2>4. entry'[c] = "execute" => \A x \in OwnHooks : bound'[<<x, c>>] = c
    BY <1>5, <1>8
  <2>5. /\ \A p \in Phases : tokens'[c][p] = <<>>
        /\ abandoned'[c] = {} /\ at'[c] # Collecting
        /\ at'[c] = Preluding => entry'[c] # "execute"
        /\ at'[c] \notin {Idle, Done, Preluding} => entry'[c] = "execute"
    BY <1>3, <1>8, <1>9, <2>2
  <2> QED BY <2>3, <2>4, <2>5 DEF PipeInv
<1>11. HookStep(c)
  BY <1>3, <1>8, <1>9 DEF HookStep, Suspended
<1>12. ~Executes(c)
  BY <1>1, PlacesDiffer DEF Executes, Calm, Phases, Preluding
<1> QED BY <1>3, <1>6, <1>7, <1>8, <1>10, <1>11, <1>12

\* The handler and the pipeline select the same operation.
LEMMA SameOperation ==
  ASSUME NEW pay, NEW t \in {"query", "subscription"}, OperationType(pay) = t
  PROVE  SelectedOperation(pay) = t
BY DEF OperationType, SelectedOperation

\* A request whose operation is run, and one that is refused.
LEMMA DecideIs ==
  ASSUME NEW q
  PROVE  /\ Decide(q).status = 0 => Decide(q) = Run \/ (Decide(q).body = "introspect" /\ q.route = "introspection")
         /\ Decide(q).body # "list"
         /\ Decide(q) = Run =>
              /\ q.route = "main"
              /\ q.batch => q.method = "POST" /\ q.payloads # <<>>
              /\ q.method # "POST" => OperationType(First(q)) = "query" \/ StreamedSubscription(q)
<1>1. \A n, b : /\ Reply(n, b).status = n /\ Reply(n, b).body = b
                /\ Error(n) = Reply(n, "error") /\ Error(n).status = n /\ Error(n).body = "error"
                /\ (Reply(n, b) = Run <=> n = 0 /\ b = "run")
  BY DEF Reply, Error, Run
<1>2. BodyRules(q) \in {Error(415), Error(400), Reply(0, "ok")}
  BY DEF BodyRules
<1>3. /\ BatchRules(q) \in {Error(405), Error(400), Run}
      /\ BatchRules(q) = Run => q.method = "POST" /\ q.payloads # <<>>
  BY <1>1 DEF BatchRules, Run
<1>4. /\ SingleRules(q) \in {Error(405), Run}
      /\ SingleRules(q) = Run =>
           (q.method = "GET" => OperationType(First(q)) = "query" \/ StreamedSubscription(q))
  BY <1>1 DEF SingleRules, Run
<1>5. /\ GraphQLRules(q) \in {Error(405), Error(415), Error(400), Run}
      /\ GraphQLRules(q) = Run =>
           /\ q.method \in {"GET", "POST"}
           /\ IF q.batch THEN BatchRules(q) = Run ELSE SingleRules(q) = Run
  BY <1>1, <1>2, <1>3, <1>4 DEF GraphQLRules
<1> DEFINE D == Decide(q)
<1>6. \/ D \in {Error(404), Reply(204, "empty"), Error(405), Reply(200, "sdl"), Reply(200, "page")}
      \/ D = Reply(0, "introspect") /\ q.route = "introspection"
      \/ D = GraphQLRules(q) /\ q.route = "main"
  BY DEF Decide, Routes
<1> HIDE DEF D
<1>7. CASE D \in {Error(404), Reply(204, "empty"), Error(405), Reply(200, "sdl"), Reply(200, "page")}
  BY <1>1, <1>7 DEF D
<1>8. CASE D = Reply(0, "introspect") /\ q.route = "introspection"
  BY <1>1, <1>8 DEF D
<1>9. CASE D = GraphQLRules(q) /\ q.route = "main"
  BY <1>1, <1>3, <1>4, <1>5, <1>9 DEF D
<1> QED BY <1>6, <1>7, <1>8, <1>9

\* The history grows by the operation that runs.
LEMMA RunsGrow ==
  ASSUME IsSeq(executed), NEW r, Runs(r)
  PROVE  /\ IsSeq(executed)' /\ (\A i \in DOMAIN executed : executed'[i] = executed[i])
         /\ \A d : d # r => RunsOf(d)' = RunsOf(d)
         /\ ~Executes(r) => executed' = executed
         /\ Executes(r) => \E k :
              /\ k \notin DOMAIN executed /\ \A i \in DOMAIN executed : i < k /\ ~(k < i)
              /\ RunsOf(r)' = RunsOf(r) \cup {k} /\ ~(k < k)
              /\ executed'[k].position = Operation(r) /\ executed'[k].type = SelectedOperation(payload[r])
<1>1. CASE ~Executes(r)
  BY <1>1 DEF Runs, RunsOf
<1>2. CASE Executes(r)
  <2> DEFINE k == Len(executed) + 1
             e == [request |-> r, position |-> Operation(r), type |-> SelectedOperation(payload[r])]
  <2>1. executed' = Append(executed, e)
    BY <1>2 DEF Runs, Operation
  <2> HIDE DEF e
  <2>2. /\ IsSeq(executed') /\ Len(executed) \in Nat /\ DOMAIN executed = 1..Len(executed)
        /\ DOMAIN executed' = 1..k /\ executed'[k] = e /\ \A i \in DOMAIN executed : executed'[i] = executed[i]
    BY <2>1, SeqGrows
  <2>3. DOMAIN executed' = DOMAIN executed \cup {k} /\ k \notin DOMAIN executed
        /\ (\A i \in DOMAIN executed : i < k /\ ~(k < i)) /\ ~(k < k)
    BY <2>2
  <2> HIDE DEF k
  <2>4. \A d : RunsOf(d)' = RunsOf(d) \cup {i \in {k} : e.request = d}
    BY <2>2, <2>3 DEF RunsOf
  <2>5. e.request = r /\ e.position = Operation(r) /\ e.type = SelectedOperation(payload[r])
    BY DEF e
  <2> QED BY <1>2, <2>2, <2>3, <2>4, <2>5
<1> QED BY <1>1, <1>2

\* A call of which nothing changes.
LEMMA CallKeeps ==
  ASSUME NEW r \in Calls, PipeInv(r), PipeSame(r)
  PROVE  PipeInv(r)' /\ HookStep(r)
<1>1. PipeInv(r)'
  BY DEF PipeInv, PipeSame
<1>2. HookStep(r)
  <2>1. at[r] = Done => tokens[r] = NoTokens
    BY CalmIsEmpty DEF Calm
  <2>2. at[r] = Done /\ abandoned[r] # {} => raised[r]
    BY DEF PipeInv
  <2> QED BY <2>1, <2>2 DEF HookStep, Suspended, PipeSame
<1> QED BY <1>1, <1>2

\* A request that runs nothing and answers nothing keeps what it has run.
LEMMA RunsKeep ==
  ASSUME NEW r \in Calls, PayloadInv(r), RunsInv(r), PipeSame(r), request' = request,
         answers'[r] = answers[r], stage'[r] # "answered" => stage[r] # "answered",
         \A i \in DOMAIN executed : executed'[i] = executed[i], RunsOf(r)' = RunsOf(r)
  PROVE  PayloadInv(r)' /\ RunsInv(r)'
<1>1. \A i \in RunsOf(r) : executed'[i] = executed[i]
  BY DEF RunsOf
<1>2. \A n : RanAt(r, n)' <=> RanAt(r, n)
  BY <1>1 DEF RanAt
<1>3. PayloadInv(r)'
  BY DEF PayloadInv, PipeSame, Operation
<1>4. RunsInv(r)'
  <2>1. Operation(r)' = Operation(r) /\ at'[r] = at[r] /\ entry'[r] = entry[r] /\ raised'[r] = raised[r]
        /\ result'[r] = result[r]
    BY DEF Operation, PipeSame
  <2>2. /\ at'[r] = Idle => RunsOf(r)' = {}
        /\ \A i \in RunsOf(r)' :
             /\ executed'[i].position \in 1..Operation(r)'
             /\ executed'[i].position = Operation(r)' => at'[r] \in AfterRun
             /\ request'[r].route = "main" /\ request'[r].payloads # <<>> =>
                  executed'[i].type = SelectedOperation(request'[r].payloads[executed'[i].position])
             /\ request'[r].method # "POST" =>
                  executed'[i].type = "query" \/ (executed'[i].type = "subscription" /\ entry'[r] = "subscribe")
        /\ \A i, j \in RunsOf(r)' : i < j => executed'[i].position < executed'[j].position
    BY <1>1, <2>1 DEF RunsInv
  <2>3. stage'[r] # "answered" /\ entry'[r] = "execute" /\ at'[r] \in AfterRun /\ ~raised'[r] =>
          (result'[r] = "result" <=> RanAt(r, Operation(r)))
    BY <2>1 DEF RunsInv
  <2>4. request'[r].batch => \A n \in DOMAIN answers'[r] : answers'[r][n] = "result" <=> RanAt(r, n)
    BY DEF RunsInv
  <2>5. \A n : (\E i \in RunsOf(r)' : executed'[i].position = n) <=> RanAt(r, n)
    BY <1>1 DEF RanAt
  <2>6. (\E i \in RunsOf(r)' : executed'[i].position = Operation(r)') <=> RanAt(r, Operation(r))
    BY <2>1, <2>5
  <2>7. stage'[r] # "answered" /\ entry'[r] = "execute" /\ at'[r] \in AfterRun /\ ~raised'[r] =>
          (result'[r] = "result" <=> RanAt(r, Operation(r))')
    BY <2>3, <2>6 DEF RanAt
  <2>8. request'[r].batch => \A n \in DOMAIN answers'[r] : answers'[r][n] = "result" <=> RanAt(r, n)'
    BY <1>2, <2>4
  <2> QED BY <2>2, <2>7, <2>8 DEF RunsInv
<1> QED BY <1>3, <1>4

\* A request that takes no part in the step.
LEMMA OthersKeep ==
  ASSUME NEW r \in Calls, RequestInv(r), PipeSame(r), request' = request,
         stage'[r] = stage[r], answers'[r] = answers[r], response'[r] = response[r],
         \A i \in DOMAIN executed : executed'[i] = executed[i], RunsOf(r)' = RunsOf(r)
  PROVE  RequestInv(r)' /\ HookStep(r)
<1>1. PipeInv(r)' /\ HookStep(r)
  BY CallKeeps DEF RequestInv
<1>2. PayloadInv(r)' /\ RunsInv(r)'
  BY RunsKeep DEF RequestInv
<1>3. StageInv(r)'
  BY DEF RequestInv, StageInv, PipeSame, Operation, Answered
<1> QED BY <1>1, <1>2, <1>3 DEF RequestInv

\* The request is answered; its call and what it has run stay as they are.
LEMMA AnswerKeeps ==
  ASSUME NEW r \in Calls, RequestInv(r), PipeDomains, RequestDomains,
         UNCHANGED pipelineVars, request' = request, answers' = answers, executed' = executed,
         NEW reply, Answer(r, reply), reply.status \in 400..499 => at[r] = Idle, reply.body # "list"
  PROVE  Keeps(r)
<1>1. PipeDomains' /\ \A d \in Calls : PipeSame(d)
  BY DEF pipelineVars, PipeSame, PipeDomains
<1>2. /\ stage'[r] = "answered" /\ response'[r] = reply /\ RequestDomains' /\ answers'[r] = answers[r]
      /\ \A d \in Calls \ {r} : stage'[d] = stage[d] /\ answers'[d] = answers[d] /\ response'[d] = response[d]
  BY DEF Answer, RequestDomains
<1>3. PipeInv(r)' /\ HookStep(r)
  BY <1>1, CallKeeps DEF RequestInv
<1>4. PayloadInv(r)' /\ RunsInv(r)'
  BY <1>1, <1>2, RunsKeep DEF RequestInv, RunsOf
<1>5. StageInv(r)'
  BY <1>1, <1>2 DEF RequestInv, StageInv, PipeSame, Answered
<1> QED BY <1>1, <1>2, <1>3, <1>4, <1>5 DEF RequestInv, Keeps

\* The call of a request goes on.
LEMMA WorkKeeps ==
  ASSUME NEW r \in Calls, RequestInv(r), PipeDomains, RequestDomains,
         Proceed(r), UNCHANGED handlerVars, Runs(r)
  PROVE  Keeps(r)
<1>1. Advances(r)
  BY ProceedAdvances DEF RequestInv
<1>2. request' = request /\ stage' = stage /\ answers' = answers /\ response' = response
  BY DEF handlerVars
<1>3. RequestDomains' /\ \A i \in DOMAIN executed : executed'[i] = executed[i]
  BY <1>2, RunsGrow DEF RequestDomains
<1>4. /\ PipeInv(r)' /\ HookStep(r) /\ PipeDomains' /\ \A d \in Calls \ {r} : PipeSame(d)
      /\ entry'[r] = entry[r] /\ payload'[r] = payload[r] /\ at[r] \notin {Idle, Done} /\ at'[r] # Idle
  BY <1>1 DEF Advances
<1>5. Operation(r)' = Operation(r) /\ Len(answers[r]) \in Nat /\ DOMAIN answers[r] = 1..Len(answers[r])
  BY <1>2, SeqGrows DEF Operation, RequestInv, StageInv
<1>6. StageInv(r)'
  BY <1>2, <1>4, <1>5 DEF RequestInv, StageInv, Answered
<1>7. PayloadInv(r)'
  BY <1>2, <1>4, <1>5 DEF RequestInv, PayloadInv
<1>8. RunsInv(r)'
  <2>0. RunsInv(r) /\ PayloadInv(r)
    BY DEF RequestInv
  <2>1. \A i \in RunsOf(r) : executed'[i] = executed[i] /\ i \in DOMAIN executed
    BY <1>3 DEF RunsOf
  <2>2. CASE ~Executes(r)
    <3>1. executed' = executed
      BY <2>2, RunsGrow DEF RequestDomains
    <3>2. /\ at[r] \in AfterRun => at'[r] \in AfterRun /\ (~raised'[r] => ~raised[r] /\ result'[r] = result[r])
          /\ at[r] \notin AfterRun /\ at'[r] \in AfterRun /\ ~raised'[r] => result'[r] # "result"
      BY <1>1, <2>2 DEF Advances
    <3>3. at[r] \notin AfterRun => ~RanAt(r, Operation(r))
      BY <2>0 DEF RunsInv, RanAt
    <3>4. \A n : RanAt(r, n)' <=> RanAt(r, n)
      BY <3>1 DEF RanAt, RunsOf
    <3>5. RanAt(r, Operation(r))' <=> RanAt(r, Operation(r))
      BY <1>5, <3>1 DEF RanAt, RunsOf
    <3>6. stage'[r] # "answered" /\ entry'[r] = "execute" /\ at'[r] \in AfterRun /\ ~raised'[r] =>
            (result'[r] = "result" <=> RanAt(r, Operation(r))')
      BY <1>2, <1>4, <2>0, <3>2, <3>3, <3>5 DEF RunsInv
    <3>7. request'[r].batch => \A n \in DOMAIN answers'[r] : answers'[r][n] = "result" <=> RanAt(r, n)'
      BY <1>2, <2>0, <3>4 DEF RunsInv
    <3>8. RunsOf(r)' = RunsOf(r)
      BY <3>1 DEF RunsOf
    <3>9. \A i \in RunsOf(r)' :
            /\ executed'[i].position \in 1..Operation(r)'
            /\ executed'[i].position = Operation(r)' => at'[r] \in AfterRun
            /\ request'[r].route = "main" /\ request'[r].payloads # <<>> =>
                 executed'[i].type = SelectedOperation(request'[r].payloads[executed'[i].position])
            /\ request'[r].method # "POST" =>
                 executed'[i].type = "query" \/ (executed'[i].type = "subscription" /\ entry'[r] = "subscribe")
      BY <1>2, <1>4, <1>5, <2>0, <3>1, <3>2, <3>8 DEF RunsInv
    <3> QED BY <1>4, <2>0, <3>1, <3>6, <3>7, <3>8, <3>9 DEF RunsInv
  <2>3. CASE Executes(r)
    <3>1. PICK k : /\ k \notin DOMAIN executed /\ \A i \in DOMAIN executed : i < k /\ ~(k < i)
                   /\ RunsOf(r)' = RunsOf(r) \cup {k} /\ ~(k < k)
                   /\ executed'[k].position = Operation(r)
                   /\ executed'[k].type = SelectedOperation(payload[r])
      BY <2>3, RunsGrow DEF RequestDomains
    <3>2. at[r] \notin AfterRun /\ at'[r] \in AfterRun /\ (entry[r] = "execute" /\ ~raised'[r] => result'[r] = "result")
      BY <1>1, <2>3 DEF Advances
    <3>3. \A i \in RunsOf(r) : /\ executed[i].position \in 1..Len(answers[r])
                               /\ executed[i].position < Operation(r)
      <4>1. \A i \in RunsOf(r) : executed[i].position \in 1..Operation(r) /\ executed[i].position # Operation(r)
        BY <2>0, <3>2 DEF RunsInv
      <4> QED BY <1>5, <4>1 DEF Operation
    <3>4. RanAt(r, Operation(r))'
      BY <1>5, <3>1 DEF RanAt
    <3>5. \A n \in DOMAIN answers[r] : RanAt(r, n)' <=> RanAt(r, n)
      <4>1. Operation(r) \notin DOMAIN answers[r]
        BY <1>5 DEF Operation
      <4> QED BY <2>1, <3>1, <4>1 DEF RanAt
    <3>6. Operation(r) \in 1..Operation(r)
      BY <1>5 DEF Operation
    <3>7. \A i \in RunsOf(r)' :
            /\ executed'[i].position \in 1..Operation(r)
            /\ request[r].route = "main" /\ request[r].payloads # <<>> =>
                 executed'[i].type = SelectedOperation(request[r].payloads[executed'[i].position])
            /\ request[r].method # "POST" =>
                 executed'[i].type = "query" \/ (executed'[i].type = "subscription" /\ entry[r] = "subscribe")
      BY <1>4, <2>0, <2>1, <3>1, <3>6 DEF RunsInv, PayloadInv
    <3>8. \A i, j \in RunsOf(r)' : i < j => executed'[i].position < executed'[j].position
      BY <2>0, <2>1, <3>1, <3>3 DEF RunsInv
    <3>9. request'[r].batch => \A n \in DOMAIN answers'[r] : answers'[r][n] = "result" <=> RanAt(r, n)'
      BY <1>2, <2>0, <3>5 DEF RunsInv
    <3> QED BY <1>2, <1>4, <1>5, <3>2, <3>4, <3>7, <3>8, <3>9 DEF RunsInv
  <2> QED BY <2>2, <2>3
<1> QED BY <1>2, <1>3, <1>4, <1>6, <1>7, <1>8 DEF RequestInv, Keeps

\* Outside of Proceed nothing is executed.
LEMMA NothingRuns ==
  ASSUME NEW r \in Calls, RequestDomains, at[r] \in {Idle, Done}, Runs(r)
  PROVE  executed' = executed
<1>1. ~Executes(r)
  BY PlacesDiffer DEF Executes, Calm, Phases, Preluding
<1> QED BY <1>1, RunsGrow DEF RequestDomains

\* The first call of a request.
LEMMA FirstCallKeeps ==
  ASSUME NEW r \in Calls, RequestInv(r), PipeDomains, stage[r] # "answered", at[r] = Idle,
         request' = request, answers' = answers, executed' = executed,
         NEW kind \in {"execute", "subscribe", "incremental"}, NEW pay, StartCall(r, kind, pay),
         request[r].route = "main" /\ request[r].payloads # <<>> => pay = request[r].payloads[1],
         request[r].method # "POST" =>
           \/ SelectedOperation(pay) = "query"
           \/ SelectedOperation(pay) = "subscription" /\ kind = "subscribe"
  PROVE  PayloadInv(r)' /\ RunsInv(r)'
<1>1. entry'[r] = kind /\ payload'[r] = pay /\ at'[r] \notin AfterRun /\ at'[r] \notin {Idle, Done}
  <2>1. at[r] # Done
    BY PlacesDiffer
  <2> QED BY <2>1, StartIsFresh DEF RequestInv
<1>2. answers[r] = <<>> /\ RunsOf(r) = {}
  BY DEF RequestInv, StageInv, RunsInv
<1>3. Operation(r)' = 1 /\ RunsOf(r)' = {} /\ DOMAIN answers'[r] = {}
  BY <1>2 DEF Operation, RunsOf
<1> QED BY <1>1, <1>3 DEF PayloadInv, RunsInv

\* The result of a call is added to the answers of the request.
LEMMA ResultKeeps ==
  ASSUME NEW r \in Calls, RequestInv(r), stage[r] = "running", at[r] = Done, ~raised[r],
         request' = request, executed' = executed, answers'[r] = Append(answers[r], result[r]),
         at'[r] # Idle, stage'[r] = "answered" \/ at'[r] \notin AfterRun,
         request[r].method # "POST" => entry'[r] = entry[r]
  PROVE  /\ RunsInv(r)' /\ IsSeq(answers'[r]) /\ Operation(r)' = Operation(r) + 1
         /\ Operation(r) \in Nat \ {0} /\ Len(answers'[r]) = Operation(r)
<1>1. IsSeq(answers[r]) /\ RunsInv(r) /\ (request[r].batch => entry[r] = "execute")
  BY DEF RequestInv, StageInv
<1> DEFINE n == Len(answers[r])
<1>2. /\ n \in Nat /\ DOMAIN answers[r] = 1..n /\ IsSeq(answers'[r]) /\ Len(answers'[r]) = n + 1
      /\ DOMAIN answers'[r] = 1..n + 1 /\ answers'[r][n + 1] = result[r]
      /\ \A i \in 1..n : answers'[r][i] = answers[r][i]
  BY <1>1, SeqGrows
<1>3. Operation(r) = n + 1 /\ Operation(r)' = n + 2
  BY <1>2 DEF Operation
<1> HIDE DEF n
<1>4. DOMAIN answers'[r] = DOMAIN answers[r] \cup {Operation(r)}
      /\ answers'[r][Operation(r)] = result[r] /\ \A i \in DOMAIN answers[r] : answers'[r][i] = answers[r][i]
  BY <1>2, <1>3
<1>5. RunsOf(r)' = RunsOf(r)
  BY DEF RunsOf
<1>6. \A m : RanAt(r, m)' <=> RanAt(r, m)
  BY <1>5 DEF RanAt
<1>7. Done \in AfterRun
  BY DEF AfterRun
<1>8. request'[r].batch => \A m \in DOMAIN answers'[r] : answers'[r][m] = "result" <=> RanAt(r, m)'
  BY <1>1, <1>4, <1>6, <1>7 DEF RunsInv
<1>9. \A i \in RunsOf(r) : executed[i].position \in 1..n + 2 /\ executed[i].position # n + 2
  BY <1>1, <1>2, <1>3 DEF RunsInv
<1>10. /\ \A i \in RunsOf(r)' :
            /\ executed'[i].position \in 1..Operation(r)'
            /\ executed'[i].position = Operation(r)' => at'[r] \in AfterRun
            /\ request'[r].route = "main" /\ request'[r].payloads # <<>> =>
                 executed'[i].type = SelectedOperation(request'[r].payloads[executed'[i].position])
            /\ request'[r].method # "POST" =>
                 executed'[i].type = "query" \/ (executed'[i].type = "subscription" /\ entry'[r] = "subscribe")
       /\ \A i, j \in RunsOf(r)' : i < j => executed'[i].position < executed'[j].position
  BY <1>1, <1>3, <1>5, <1>9 DEF RunsInv
<1>11. RunsInv(r)'
  BY <1>8, <1>10 DEF RunsInv
<1> QED BY <1>2, <1>3, <1>11

LEMMA HandleKeeps ==
  ASSUME NEW r \in Calls, RequestInv(r), PipeDomains, RequestDomains, Handle(r), Runs(r)
  PROVE  Keeps(r)
<1> DEFINE reply == Decide(request[r])
<1>1. stage[r] = "new" /\ request' = request /\ answers' = answers
  BY DEF Handle
<1>2. at[r] = Idle /\ answers[r] = <<>>
  BY <1>1 DEF RequestInv, StageInv
<1>3. executed' = executed
  BY <1>2, NothingRuns
<1>4. /\ reply.status = 0 => reply = Run \/ (reply.body = "introspect" /\ request[r].route = "introspection")
      /\ reply.body # "list"
  BY DecideIs
<1>5. Run.body # "introspect" /\ Run.status = 0
  BY DEF Run, Reply
<1>6. CASE reply.status # 0
  <2>1. Answer(r, reply) /\ UNCHANGED pipelineVars
    BY <1>6 DEF Handle
  <2> HIDE DEF reply
  <2> QED BY <1>1, <1>2, <1>3, <1>4, <2>1, AnswerKeeps
<1>7. CASE reply.status = 0 /\ reply.body = "introspect"
  <2> DEFINE pay == [document |-> Config.introspectionDocument, name |-> "null"]
  <2>1. /\ stage' = [stage EXCEPT ![r] = "introspecting"] /\ StartCall(r, "execute", pay)
        /\ response' = response
    BY <1>7 DEF Handle
  <2>2. request[r].route = "introspection" /\ SelectedOperation(pay) = "query"
    BY <1>4, <1>5, <1>7, HandlerAssumption DEF HandlerAssumption
  <2> HIDE DEF pay, reply
  <2>3. /\ PipeDomains' /\ (\A d \in Calls \ {r} : PipeSame(d)) /\ PipeInv(r)' /\ HookStep(r)
        /\ at'[r] \notin {Idle, Done}
    BY <1>2, <2>1, StartIsFresh, PlacesDiffer DEF RequestInv
  <2>4. PayloadInv(r)' /\ RunsInv(r)'
    BY <1>1, <1>2, <1>3, <2>1, <2>2, FirstCallKeeps
  <2>5. RequestDomains' /\ \A d \in Calls : stage'[d] = IF d = r THEN "introspecting" ELSE stage[d]
    BY <1>1, <1>3, <2>1 DEF RequestDomains
  <2>6. StageInv(r)'
    BY <1>1, <1>2, <2>2, <2>3, <2>5 DEF RequestInv, StageInv, Answered
  <2> QED BY <1>1, <2>1, <2>3, <2>4, <2>5, <2>6 DEF Keeps, RequestInv
<1>8. CASE reply = Run
  <2>1. stage' = [stage EXCEPT ![r] = "values"] /\ UNCHANGED pipelineVars /\ response' = response
    BY <1>5, <1>8 DEF Handle
  <2>2. PipeDomains' /\ \A d \in Calls : PipeSame(d)
    BY <2>1 DEF pipelineVars, PipeSame, PipeDomains
  <2>3. PipeInv(r)' /\ HookStep(r)
    BY <2>2, CallKeeps DEF RequestInv
  <2>4. RequestDomains' /\ \A d \in Calls : stage'[d] = IF d = r THEN "values" ELSE stage[d]
    BY <1>1, <1>3, <2>1 DEF RequestDomains
  <2>5. PayloadInv(r)' /\ RunsInv(r)'
    BY <1>1, <1>3, <2>2, <2>4, RunsKeep DEF RequestInv, RunsOf
  <2>6. StageInv(r)'
    BY <1>1, <1>2, <1>8, <2>2, <2>4 DEF RequestInv, StageInv, Answered, PipeSame
  <2> QED BY <1>1, <2>1, <2>2, <2>3, <2>4, <2>5, <2>6 DEF Keeps, RequestInv
<1> QED BY <1>4, <1>6, <1>7, <1>8

LEMMA MakeValuesKeeps ==
  ASSUME NEW r \in Calls, RequestInv(r), PipeDomains, RequestDomains, MakeValues(r), Runs(r)
  PROVE  Keeps(r)
<1> DEFINE q == request[r]  first == First(q)
<1>1. stage[r] = "values" /\ request' = request /\ answers' = answers
  BY DEF MakeValues
<1>2. at[r] = Idle /\ answers[r] = <<>> /\ Decide(q) = Run /\ IsSeq(q.payloads)
  BY <1>1 DEF RequestInv, StageInv
<1>3. executed' = executed
  BY <1>2, NothingRuns
<1>4. /\ q.batch => q.method = "POST" /\ q.payloads # <<>>
      /\ q.method # "POST" => OperationType(first) = "query" \/ StreamedSubscription(q)
  BY <1>2, DecideIs
<1>5. CASE Answer(r, Error(500)) /\ UNCHANGED pipelineVars
  <2>1. Error(500).status \notin 400..499 /\ Error(500).body # "list"
    BY DEF Error, Reply
  <2> QED BY <1>1, <1>3, <1>5, <2>1, AnswerKeeps
<1>6. ASSUME NEW kind \in {"execute", "subscribe", "incremental"}, StartCall(r, kind, first),
             q.method # "POST" => SelectedOperation(first) = "query"
                                  \/ (SelectedOperation(first) = "subscription" /\ kind = "subscribe"),
             q.batch => kind = "execute",
             \/ Answer(r, Reply(200, "stream"))
             \/ stage' = [stage EXCEPT ![r] = "running"] /\ response' = response
      PROVE  Keeps(r)
  <2>1. /\ PipeDomains' /\ (\A d \in Calls \ {r} : PipeSame(d)) /\ PipeInv(r)' /\ HookStep(r)
        /\ at'[r] \notin {Idle, Done} /\ entry'[r] = kind
    BY <1>2, <1>6, StartIsFresh, PlacesDiffer DEF RequestInv
  <2>2. q.payloads # <<>> => first = q.payloads[1]
    BY DEF First
  <2> HIDE DEF first
  <2>3. PayloadInv(r)' /\ RunsInv(r)'
    BY <1>1, <1>2, <1>3, <1>6, <2>2, FirstCallKeeps
  <2>4. Reply(200, "stream").status = 200 /\ Reply(200, "stream").body = "stream"
    BY DEF Reply
  <2>5. /\ RequestDomains' /\ \A d \in Calls \ {r} : stage'[d] = stage[d] /\ response'[d] = response[d]
        /\ \/ stage'[r] = "answered" /\ response'[r].status = 200 /\ response'[r].body = "stream"
           \/ stage'[r] = "running"
    BY <1>1, <1>3, <1>6, <2>4 DEF RequestDomains, Answer
  <2>6. q.batch => Operation(r)' <= Len(q.payloads)
    <3>1. ASSUME q.batch PROVE Len(q.payloads) \in Nat \ {0}
      <4>1. q.payloads # <<>> /\ IsSeq(q.payloads)
        BY <1>2, <1>4, <3>1
      <4> HIDE DEF q
      <4> QED BY <4>1 DEF IsSeq
    <3>2. Operation(r)' = 1
      BY <1>1, <1>2 DEF Operation
    <3> HIDE DEF q
    <3> QED BY <3>1, <3>2
  <2>7. StageInv(r)'
    <3>1. 200 \notin 400..499
      OBVIOUS
    <3> QED BY <1>1, <1>2, <1>6, <2>1, <2>5, <2>6, <3>1 DEF RequestInv, StageInv, Answered
  <2> QED BY <1>1, <2>1, <2>3, <2>5, <2>7 DEF Keeps, RequestInv
<1>7. CASE /\ ~q.batch /\ StreamedQuery(q) /\ StartCall(r, "incremental", first)
           /\ Answer(r, Reply(200, "stream"))
  <2>1. SelectedOperation(first) = "query"
    BY <1>7, SameOperation DEF StreamedQuery
  <2> QED BY <1>6, <1>7, <2>1
<1>8. CASE /\ StartCall(r, IF ~q.batch /\ StreamedSubscription(q) THEN "subscribe" ELSE "execute", first)
           /\ stage' = [stage EXCEPT ![r] = "running"] /\ response' = response
  <2>1. CASE ~q.batch /\ StreamedSubscription(q)
    <3>1. SelectedOperation(first) = "subscription"
      BY <2>1, SameOperation DEF StreamedSubscription
    <3> QED BY <1>6, <1>8, <2>1, <3>1
  <2>2. CASE ~(~q.batch /\ StreamedSubscription(q))
    <3>1. q.method # "POST" => SelectedOperation(first) = "query"
      BY <1>4, <2>2, SameOperation
    <3> QED BY <1>6, <1>8, <2>2, <3>1
  <2> QED BY <2>1, <2>2
<1> QED BY <1>5, <1>7, <1>8 DEF MakeValues

LEMMA CallOverKeeps ==
  ASSUME NEW r \in Calls, RequestInv(r), PipeDomains, RequestDomains, CallOver(r), Runs(r)
  PROVE  Keeps(r)
<1> DEFINE q == request[r]  n == NextOperation(r)
<1>1. stage[r] = "running" /\ at[r] = Done /\ request' = request
  BY DEF CallOver
<1>2. executed' = executed
  BY <1>1, NothingRuns
<1>3. at[r] # Idle /\ Decide(q) = Run /\ IsSeq(q.payloads)
  BY <1>1, PlacesDiffer DEF RequestInv, StageInv
<1>4. CASE CallRaised(r)
  <2>1. Error(500).status \notin 400..499 /\ Error(500).body # "list"
    BY DEF Error, Reply
  <2> QED BY <1>1, <1>2, <1>4, <2>1, AnswerKeeps DEF CallRaised
<1>5. ASSUME ~raised[r], answers' = [answers EXCEPT ![r] = Append(@, result[r])]
      PROVE  /\ answers'[r] = Append(answers[r], result[r])
             /\ \A d \in Calls \ {r} : answers'[d] = answers[d]
             /\ DOMAIN answers' = Calls
  BY <1>5 DEF RequestDomains
<1>6. CASE /\ ~raised[r] /\ answers' = [answers EXCEPT ![r] = Append(@, result[r])]
           /\ q.batch /\ n <= Len(q.payloads)
           /\ StartCall(r, "execute", q.payloads[n]) /\ stage' = stage /\ response' = response
  <2> DEFINE pay == q.payloads[n]
  <2>1. q.method = "POST"
    BY <1>3, <1>6, DecideIs
  <2> HIDE DEF pay, n
  <2>2. /\ PipeDomains' /\ (\A d \in Calls \ {r} : PipeSame(d)) /\ PipeInv(r)' /\ HookStep(r)
        /\ at'[r] \notin {Idle, Done} /\ at'[r] \notin AfterRun /\ entry'[r] = "execute" /\ payload'[r] = pay
    BY <1>6, StartIsFresh DEF RequestInv, pay
  <2>3. /\ RunsInv(r)' /\ IsSeq(answers'[r]) /\ Operation(r)' = Operation(r) + 1
        /\ Operation(r) \in Nat \ {0}
    BY <1>1, <1>2, <1>5, <1>6, <2>1, <2>2, ResultKeeps
  <2>4. Operation(r)' = n
    <3>1. Len(answers[r]) \in Nat
      BY SeqGrows DEF RequestInv, StageInv
    <3> QED BY <2>3, <3>1 DEF Operation, NextOperation, n
  <2>5. PayloadInv(r)'
    BY <1>1, <2>1, <2>2, <2>4 DEF PayloadInv, pay
  <2>6. StageInv(r)'
    BY <1>1, <1>3, <1>6, <2>2, <2>3, <2>4 DEF RequestInv, StageInv, Answered
  <2>7. RequestDomains'
    BY <1>2, <1>5, <1>6 DEF RequestDomains
  <2> QED BY <1>5, <1>6, <2>2, <2>3, <2>5, <2>6, <2>7 DEF Keeps, RequestInv
<1>7. CASE /\ ~raised[r] /\ answers' = [answers EXCEPT ![r] = Append(@, result[r])]
           /\ ~(q.batch /\ n <= Len(q.payloads)) /\ UNCHANGED pipelineVars
           /\ Answer(r, Reply(200, IF StreamAccepted(q) /\ entry[r] = "subscribe" THEN "stream"
                                   ELSE IF q.batch THEN "list" ELSE "result"))
  <2>1. PipeDomains' /\ \A d \in Calls : PipeSame(d)
    BY <1>7 DEF pipelineVars, PipeSame, PipeDomains
  <2>2. PipeInv(r)' /\ HookStep(r)
    BY <2>1, CallKeeps DEF RequestInv
  <2>3. /\ RequestDomains' /\ \A d \in Calls \ {r} : stage'[d] = stage[d] /\ response'[d] = response[d]
        /\ stage'[r] = "answered" /\ response'[r].status = 200
        /\ response'[r].body = "list" => q.batch
    BY <1>2, <1>5, <1>7 DEF RequestDomains, Answer, Reply
  <2>4. at'[r] = Done /\ entry'[r] = entry[r] /\ payload'[r] = payload[r]
    BY <1>1, <2>1 DEF PipeSame
  <2>5. /\ RunsInv(r)' /\ IsSeq(answers'[r]) /\ Operation(r) \in Nat \ {0}
        /\ Len(answers'[r]) = Operation(r)
    BY <1>1, <1>2, <1>3, <1>5, <1>7, <2>3, <2>4, ResultKeeps
  <2>6. q.batch => Len(answers'[r]) = Len(q.payloads)
    <3> SUFFICES ASSUME q.batch PROVE Len(answers'[r]) = Len(q.payloads)
      OBVIOUS
    <3>1. Operation(r) <= Len(q.payloads)
      BY <1>1 DEF RequestInv, StageInv
    <3>2. n = Operation(r) + 1 /\ ~(n <= Len(q.payloads))
      <4>1. Len(answers[r]) \in Nat
        BY SeqGrows DEF RequestInv, StageInv
      <4> QED BY <1>7, <4>1 DEF Operation, NextOperation
    <3>3. Len(q.payloads) \in Nat
      BY <1>3, SeqGrows
    <3> HIDE DEF n, q
    <3> QED BY <2>5, <3>1, <3>2, <3>3
  <2>7. PayloadInv(r)'
    BY <1>1, <1>3, <2>4 DEF RequestInv, PayloadInv
  <2>8. StageInv(r)'
    <3>1. 200 \notin 400..499 /\ "answered" \notin {"new", "values"}
      OBVIOUS
    <3> QED BY <1>1, <1>3, <2>3, <2>4, <2>5, <2>6, <3>1 DEF RequestInv, StageInv, Answered
  <2> QED BY <1>5, <1>7, <2>1, <2>2, <2>3, <2>5, <2>7, <2>8 DEF Keeps, RequestInv
<1> QED BY <1>4, <1>6, <1>7 DEF CallOver

LEMMA IntrospectionOverKeeps ==
  ASSUME NEW r \in Calls, RequestInv(r), PipeDomains, RequestDomains, IntrospectionOver(r), Runs(r)
  PROVE  Keeps(r)
<1> DEFINE reply == IF raised[r] THEN Reply(0, "raised") ELSE Reply(200, "result")
<1>1. /\ at[r] = Done /\ Answer(r, reply) /\ UNCHANGED pipelineVars
      /\ request' = request /\ answers' = answers
  BY DEF IntrospectionOver
<1>2. executed' = executed
  BY <1>1, NothingRuns
<1>3. reply.status \notin 400..499 /\ reply.body # "list"
  BY DEF Reply
<1> HIDE DEF reply
<1> QED BY <1>1, <1>2, <1>3, AnswerKeeps

LEMMA StepKeeps ==
  ASSUME NEW r \in Calls, RequestInv(r), PipeDomains, RequestDomains, Handshake(r) \/ Route(r) \/ Serve(r)
  PROVE  /\ Keeps(r) /\ request' = request
         /\ \A d \in Calls \ {r} : RunsOf(d)' = RunsOf(d)
         /\ \A i \in DOMAIN executed : executed'[i] = executed[i]
<1>1. ASSUME NEW reply, stage[r] = "new", Answer(r, reply), reply.body # "list",
             UNCHANGED <<pipelineVars, request, answers, via, executed>>
      PROVE  /\ Keeps(r) /\ request' = request
             /\ \A d \in Calls \ {r} : RunsOf(d)' = RunsOf(d)
             /\ \A i \in DOMAIN executed : executed'[i] = executed[i]
  <2>1. at[r] = Idle
    BY <1>1 DEF RequestInv, StageInv
  <2> QED BY <1>1, <2>1, AnswerKeeps DEF RunsOf
<1>2. CASE Handshake(r)
  <2>1. HandshakeReply(via[r], request[r]).body # "list"
    BY DEF HandshakeReply, Reply
  <2> QED BY <1>1, <1>2, <2>1 DEF Handshake
<1>3. CASE Route(r)
  <2>1. RouterReply(request[r]).body # "list"
    BY DEF RouterReply, Reply
  <2> QED BY <1>1, <1>3, <2>1 DEF Route
<1>4. CASE Serve(r)
  <2>1. HandlerStep(r) /\ Runs(r)
    BY <1>4 DEF Serve
  <2>2. Keeps(r) /\ request' = request
    <3>1. CASE Handle(r)
      BY <2>1, <3>1, HandleKeeps DEF Handle
    <3>2. CASE MakeValues(r)
      BY <2>1, <3>2, MakeValuesKeeps DEF MakeValues
    <3>3. CASE CallOver(r)
      BY <2>1, <3>3, CallOverKeeps DEF CallOver
    <3>4. CASE IntrospectionOver(r)
      BY <2>1, <3>4, IntrospectionOverKeeps DEF IntrospectionOver
    <3>5. CASE Work(r)
      BY <2>1, <3>5, WorkKeeps DEF Work, handlerVars
    <3> QED BY <2>1, <3>1, <3>2, <3>3, <3>4, <3>5 DEF HandlerStep
  <2> QED BY <2>1, <2>2, RunsGrow DEF RequestDomains
<1> QED BY <1>2, <1>3, <1>4

LEMMA InvariantKept ==
  ASSUME ExchangeInv, [Next]_vars
  PROVE  ExchangeInv' /\ \A r \in Calls : HookStep(r)
<1>1. CASE UNCHANGED vars
  <2>1. /\ UNCHANGED pipelineVars /\ request' = request /\ stage' = stage /\ answers' = answers
        /\ response' = response /\ executed' = executed
    BY <1>1 DEF vars, handlerVars
  <2>2. PipeDomains' /\ RequestDomains' /\ \A r \in Calls : PipeSame(r)
    BY <2>1 DEF ExchangeInv, PipeDomains, RequestDomains, PipeSame, pipelineVars
  <2>3. \A r \in Calls : RequestInv(r)' /\ HookStep(r)
    BY <2>1, <2>2, OthersKeep DEF ExchangeInv, RunsOf
  <2> QED BY <2>2, <2>3 DEF ExchangeInv
<1>2. CASE Next
  <2>1. PICK r \in Calls : Handshake(r) \/ Route(r) \/ Serve(r)
    BY <1>2 DEF Next
  <2>2. /\ Keeps(r) /\ request' = request
        /\ \A d \in Calls \ {r} : RunsOf(d)' = RunsOf(d)
        /\ \A i \in DOMAIN executed : executed'[i] = executed[i]
    BY <2>1, StepKeeps DEF ExchangeInv
  <2>3. ASSUME NEW d \in Calls \ {r} PROVE RequestInv(d)' /\ HookStep(d)
    <3>1. PipeSame(d) /\ stage'[d] = stage[d] /\ answers'[d] = answers[d] /\ response'[d] = response[d]
      BY <2>2 DEF Keeps
    <3> QED BY <2>2, <3>1, OthersKeep DEF ExchangeInv
  <2>4. RequestInv(r)' /\ HookStep(r) /\ PipeDomains' /\ RequestDomains'
    BY <2>2 DEF Keeps
  <2> QED BY <2>3, <2>4 DEF ExchangeInv
<1> QED BY <1>1, <1>2

LEMMA InvariantHolds ==
  ASSUME Init
  PROVE  ExchangeInv
<1>1. /\ at = [c \in Calls |-> Idle] /\ entry = [c \in Calls |-> "none"]
      /\ payload = [c \in Calls |-> [document |-> <<>>]] /\ entered = [c \in Calls |-> 0]
      /\ tokens = [c \in Calls |-> NoTokens] /\ raised = [c \in Calls |-> FALSE]
      /\ result = [c \in Calls |-> "none"] /\ bound = [x \in Instances |-> "none"]
      /\ abandoned = [c \in Calls |-> {}] /\ mixed = [c \in Calls |-> {}]
      /\ stage = [r \in Calls |-> "new"] /\ answers = [r \in Calls |-> <<>>]
      /\ response = [r \in Calls |-> NoResponse] /\ executed = <<>>
  BY DEF Init, HandlerInit, PipelineInit
<1>2. PipeDomains
  BY <1>1 DEF PipeDomains
<1>3. IsSeq(<<>>)
  BY DEF IsSeq
<1>4. RequestDomains
  BY <1>1, <1>3 DEF RequestDomains
<1>5. ASSUME NEW r \in Calls PROVE IsSeq(request[r].payloads)
  <2>1. PICK traffic \in Traffic : request[r] = Normalised(traffic[r].via, traffic[r].request)
    BY DEF Init
  <2> DEFINE q == traffic[r].request
  <2>2. "payloads" \in DOMAIN q /\ IsSeq(q.payloads)
    BY TrafficAssumption DEF TrafficAssumption, IsSeq
  <2> HIDE DEF q
  <2>3. Normalised(traffic[r].via, q).payloads = q.payloads
    BY <2>2 DEF Normalised
  <2> QED BY <2>1, <2>2, <2>3 DEF q
<1>6. ASSUME NEW r \in Calls PROVE RequestInv(r)
  <2>1. /\ at[r] = Idle /\ entry[r] = "none" /\ entered[r] = 0 /\ tokens[r] = NoTokens
        /\ raised[r] = FALSE /\ abandoned[r] = {} /\ mixed[r] = {} /\ stage[r] = "new" /\ answers[r] = <<>>
    BY <1>1
  <2>2. /\ Idle \in Ats /\ Idle \in Calm /\ Idle \notin AfterRun /\ Idle # Collecting /\ Idle # Preluding
        /\ Idle # Done
    BY PlacesDiffer DEF Calm
  <2>3. PipeInv(r)
    <3>1. Len(Extensions) \in Nat
      BY PipelineAssumption DEF PipelineAssumption
    <3>2. NoTokens \in [Phases -> Seq(Hooks)] /\ \A p \in Phases : NoTokens[p] = <<>>
      BY DEF NoTokens
    <3>3. 0 \in 0..Len(Extensions)
      BY <3>1
    <3> QED BY <2>1, <2>2, <3>2, <3>3 DEF PipeInv
  <2>4. StageInv(r)
    BY <1>3, <1>5, <2>1 DEF StageInv, Answered
  <2>5. RunsOf(r) = {}
    BY <1>1 DEF RunsOf
  <2>6. PayloadInv(r) /\ RunsInv(r)
    BY <2>1, <2>2, <2>5 DEF PayloadInv, RunsInv
  <2> QED BY <2>3, <2>4, <2>6 DEF RequestInv
<1> QED BY <1>2, <1>4, <1>6 DEF ExchangeInv

-----------------------------------------------------------------------------
(* What follows of the invariant.                                          *)

\* In every reachable state each request is where its stage says, runs the operation
\* of its place, and has run what it answered.
THEOREM ExchangeInvariant == Spec => []ExchangeInv
<1>1. ExchangeInv /\ [Next]_vars => ExchangeInv'
  BY InvariantKept
<1> QED BY <1>1, InvariantHolds, PTL DEF Spec

\* Whatever documents arrive, with whatever operationName: a request that is no POST
\* executes queries, or the subscription that is streamed to it; the handler's look at
\* the document and the operation the pipeline selects later agree.
THEOREM GetsAreSafe == Spec => []GetIsSafe
<1>1. ExchangeInv => GetIsSafe
  BY DEF ExchangeInv, RequestInv, RunsInv, GetIsSafe
<1> QED BY <1>1, ExchangeInvariant, PTL

\* A request refused with a client error ran nothing; the operations of a batch run one
\* after the other, each at most once and each the one of its place; a batch that is
\* answered has one entry for each of them, a result exactly where it ran to its end.
THEOREM BatchesAreWhole == Spec => []BatchIsWhole
<1>1. ASSUME ExchangeInv, NEW r \in Calls
      PROVE  /\ Answered(r) /\ response[r].status \in 400..499 => RunsOf(r) = {}
             /\ \A i, j \in RunsOf(r) : i < j => executed[i].position < executed[j].position
             /\ request[r].route = "main" /\ request[r].payloads # <<>> => \A i \in RunsOf(r) :
                  executed[i].type = SelectedOperation(request[r].payloads[executed[i].position])
             /\ Answered(r) /\ response[r].body = "list" =>
                  /\ Len(answers[r]) = Len(request[r].payloads)
                  /\ \A n \in DOMAIN answers[r] : answers[r][n] = "result" <=> RanAt(r, n)
  <2>1. StageInv(r) /\ RunsInv(r)
    BY <1>1 DEF ExchangeInv, RequestInv
  <2> QED BY <2>1 DEF StageInv, RunsInv
<1>2. ExchangeInv => BatchIsWhole
  BY <1>1 DEF BatchIsWhole, RanAt
<1> QED BY <1>2, ExchangeInvariant, PTL

\* However the calls of concurrent requests interleave between their hooks, an extension
\* registered as a class sees its own call in every hook.
THEOREM ContextsAreOwn == Spec => []ContextIsOwn
<1>1. ExchangeInv => ContextIsOwn
  BY DEF ExchangeInv, RequestInv, PipeInv, ContextIsOwn
<1> QED BY <1>1, ExchangeInvariant, PTL

\* Every step of every call resumes the hooks of a phase from the last to the first, those
\* of on_operation only when the phases within it are over, and leaves none suspended at
\* the end of the call unless an exception ended it.
THEOREM HooksAreAllResumed == Spec => HooksAreResumed
<1>1. ASSUME ExchangeInv, [Next]_vars
      PROVE  \A r \in Calls :
               /\ \A p \in Phases : Suspended(r, p)' # Suspended(r, p) =>
                    /\ IsPrefix(Suspended(r, p), Suspended(r, p)') \/ IsPrefix(Suspended(r, p)', Suspended(r, p))
                    /\ p = "on_operation" => \A inner \in Phases \ {p} : Suspended(r, inner) = <<>>
               /\ at'[r] = Done => tokens'[r] = NoTokens
               /\ at'[r] = Done /\ abandoned'[r] # {} => raised'[r]
  BY <1>1, InvariantKept DEF HookStep
<1> QED BY <1>1, ExchangeInvariant, PTL DEF Spec, HooksAreResumed
=============================================================================
