---------------------------- MODULE ExecutorProofs ----------------------------
(***************************************************************************)
(* Theorems about Executor, for any tree of positions, any types and any   *)
(* operation: type correctness and the invariants its runs check.          *)
(***************************************************************************)
EXTENDS Executor, TLAPS

-----------------------------------------------------------------------------
(* The tree of positions.                                                  *)

\* The positions above n, without recursion: what every set holds that holds the
\* parent of n and is closed under parents.
Closed(S) == \A m \in S : m # Root => Parent[m] \in S
Ancestors(n) ==
  {a \in Nodes : n # Root /\ \A S \in SUBSET Nodes : Closed(S) /\ Parent[n] \in S => a \in S}

LEMMA ParentIsNode == ASSUME NEW n \in Nodes, n # Root PROVE Parent[n] \in Nodes
BY TreeAssumption

LEMMA AncestorsGoUp ==
  ASSUME NEW n \in Nodes, n # Root
  PROVE  Ancestors(n) = {Parent[n]} \cup Ancestors(Parent[n])
<1> DEFINE p == Parent[n]
<1>1. p \in Nodes
  BY ParentIsNode
<1>2. ASSUME NEW a \in Ancestors(n), a # p PROVE a \in Ancestors(p)
  <2>1. CASE p = Root
    <3>1. Closed({Root}) /\ {Root} \in SUBSET Nodes
      BY TreeAssumption DEF Closed
    <3> QED BY <2>1, <3>1, <1>2 DEF Ancestors
  <2>2. ASSUME p # Root, NEW S \in SUBSET Nodes, Closed(S), Parent[p] \in S PROVE a \in S
    <3>1. Closed(S \cup {p})
      BY <2>2 DEF Closed
    <3> QED BY <3>1, <2>2, <1>1, <1>2 DEF Ancestors
  <2> QED BY <2>1, <2>2, <1>2 DEF Ancestors
<1>3. p \in Ancestors(n)
  BY <1>1 DEF Ancestors
<1>4. ASSUME NEW a \in Ancestors(p) PROVE a \in Ancestors(n)
  BY <1>4 DEF Ancestors, Closed
<1> QED BY <1>2, <1>3, <1>4

LEMMA AboveIs ==
  ASSUME NEW n \in Nodes
  PROVE  Above[n] = IF n = Root THEN {} ELSE {Parent[n]} \cup Above[Parent[n]]
<1> DEFINE F(f) == [m \in Nodes |-> IF m = Root THEN {} ELSE {Parent[m]} \cup f[Parent[m]]]
           g == [m \in Nodes |-> Ancestors(m)]
<1>1. \A m \in Nodes : Ancestors(m) = IF m = Root THEN {} ELSE {Parent[m]} \cup g[Parent[m]]
  BY AncestorsGoUp, ParentIsNode DEF Ancestors
<1>2. g = F(g)
  BY <1>1
<1>3. \E f : f = F(f)
  BY <1>2
<1>4. Above = CHOOSE f : f = F(f)
  BY DEF Above
<1> HIDE DEF F
<1>5. Above = F(Above)
  BY <1>3, <1>4
<1> QED BY <1>5 DEF F

LEMMA AboveRoot == Above[Root] = {}
BY AboveIs, TreeAssumption

LEMMA AboveKid == ASSUME NEW n \in Nodes, n # Root PROVE Above[n] = {Parent[n]} \cup Above[Parent[n]]
BY AboveIs

LEMMA AboveAreNodes == \A n \in Nodes : Above[n] \subseteq Nodes
<1> DEFINE S == {n \in Nodes \ {Root} : ~(Above[n] \subseteq Nodes)}
<1>1. ASSUME S # {} PROVE FALSE
  <2>1. PICK n \in S : Parent[n] \notin S
    BY <1>1, TreeAssumption
  <2>2. Above[Parent[n]] \subseteq Nodes
    BY <2>1, ParentIsNode, AboveRoot
  <2> QED BY <2>1, <2>2, AboveKid, ParentIsNode
<1> QED BY <1>1, AboveRoot

LEMMA AboveGoesOn == \A n \in Nodes : \A m \in Above[n] : Above[m] \subseteq Above[n]
<1> DEFINE S == {n \in Nodes \ {Root} : \E m \in Above[n] : ~(Above[m] \subseteq Above[n])}
<1>1. ASSUME S # {} PROVE FALSE
  <2>1. PICK n \in S : Parent[n] \notin S
    BY <1>1, TreeAssumption
  <2>2. \A m \in Above[Parent[n]] : Above[m] \subseteq Above[Parent[n]]
    BY <2>1, ParentIsNode, AboveRoot
  <2>3. Above[n] = {Parent[n]} \cup Above[Parent[n]]
    BY <2>1, AboveKid
  <2> QED BY <2>1, <2>2, <2>3
<1> QED BY <1>1, AboveRoot

LEMMA RootIsAbove == \A n \in Nodes \ {Root} : Root \in Above[n]
<1> DEFINE S == {n \in Nodes \ {Root} : Root \notin Above[n]}
<1>1. ASSUME S # {} PROVE FALSE
  <2>1. PICK n \in S : Parent[n] \notin S
    BY <1>1, TreeAssumption
  <2>2. Above[n] = {Parent[n]} \cup Above[Parent[n]]
    BY <2>1, AboveKid
  <2> QED BY <2>1, <2>2, ParentIsNode
<1> QED BY <1>1

LEMMA KidsAre ==
  ASSUME NEW n \in Nodes
  PROVE  /\ Kids(n) \subseteq Nodes \ {Root}
         /\ \A k \in Kids(n) : Parent[k] = n /\ n \in Above[k] /\ Above[k] = {n} \cup Above[n]
BY AboveKid DEF Kids

\* What is within a kid of n is within n.
LEMMA WithinKid ==
  ASSUME NEW n \in Nodes, NEW k \in Kids(n)
  PROVE  Within(k) \subseteq Within(n)
<1>1. k \in Nodes /\ n \in Above[k]
  BY KidsAre
<1>2. ASSUME NEW d \in Within(k) PROVE d \in Within(n)
  BY <1>1, <1>2, AboveGoesOn DEF Within
<1> QED BY <1>2

LEMMA RootFieldsAre ==
  /\ Kids(Root) = {RootFields[i] : i \in DOMAIN RootFields}
  /\ RootFields[1] \in Kids(Root) /\ 1 \in DOMAIN RootFields
  /\ DOMAIN RootFields = 1..Len(RootFields) /\ Len(RootFields) \in Nat \ {0}
  /\ \A i, j \in DOMAIN RootFields : RootFields[i] = RootFields[j] => i = j
<1>1. RootFields \in Seq(Nodes) /\ RootFields # <<>>
  BY TreeAssumption
<1>2. DOMAIN RootFields = 1..Len(RootFields) /\ Len(RootFields) \in Nat \ {0}
  BY <1>1
<1>3. Kids(Root) = {RootFields[i] : i \in DOMAIN RootFields}
  BY TreeAssumption DEF Kids
<1> QED BY <1>2, <1>3, TreeAssumption

-----------------------------------------------------------------------------
(* The inductive invariant.                                                *)

\* An event that has not come yet has left no trace.
NothingBefore ==
  \A e \in Events, n \in Nodes : e > event =>
    pc[e][n] = "idle" /\ n \notin void[e] /\ response[e] = NoResponse

OutsOfDone == \A e \in Events, n \in Nodes : out[e][n] = "none" <=> pc[e][n] # "done"

\* The root waits until the event is answered; the next event comes after a result.
RootAnswers ==
  \A e \in Events :
    /\ pc[e][Root] # "running"
    /\ pc[e][Root] = "done" <=> response[e].kind # "none"
    /\ e < event => Responded(e)
    /\ Responded(e) => /\ out[e][Root] \notin Escapes
                       /\ mode = "subscription" => out[e][RootFields[1]] # "cancelled"

ParentsFirst ==
  \A e \in Events, n \in Nodes \ {Root} :
    pc[e][n] # "idle" => pc[e][Parent[n]] \in {"joining", "done"}

\* A position that is over left no child at work, or it is a list that passed an
\* exception on.
PassedOn(e, n) == Shape[n] = "list" /\ Escapes \cap KidOuts(e, n) # {}
KidsAreOver ==
  \A e \in Events, n \in Nodes :
    pc[e][n] = "done" => PassedOn(e, n) \/ \A k \in Kids(n) : ~Unfinished(e, k)

\* The fields of a mutation take turns; a subscription has one root field, which
\* turns an exception into an error.
FieldsTakeTurns ==
  /\ mode # "subscription" => event = 1
  /\ Serial => \A i, j \in DOMAIN RootFields :
       i < j /\ pc[1][RootFields[j]] # "idle" =>
         pc[1][RootFields[i]] = "done" /\ out[1][RootFields[i]] \in {"value", "null"}
  /\ mode = "subscription" => \A e \in Events : \A k \in Kids(Root) :
       /\ k # RootFields[1] => pc[e][k] = "idle"
       /\ out[e][k] # "exception"

VoidsAreNull == \A e \in Events : \A n \in void[e] : IsNull(e, n)

\* A position with a value has no child that failed.
ValuesAreSound ==
  \A e \in Events, n \in Nodes :
    out[e][n] = "value" /\ (mode = "subscription" => n # Root) =>
      \A k \in Kids(n) : out[e][k] \in {"value", "null"}

\* The errors at hand are those of the event, and of coroutines left behind by others.
ErrorsOfNow ==
  \A e \in Events, n \in Nodes : errors[<<e, n>>] > 0 => e = event \/ Orphan(e, n)

BubblesAreTold ==
  \A n \in Nodes : out[event][n] = "bubble" =>
    \E d \in Within(n) : errors[<<event, d>>] > 0 \/ d \in BlankLeaves \cap void[event]

ExecInv ==
  /\ TypeOK /\ NothingBefore /\ OutsOfDone /\ RootAnswers /\ ParentsFirst /\ KidsAreOver
  /\ FieldsTakeTurns /\ VoidsAreNull /\ ValuesAreSound /\ ErrorsOfNow /\ BubblesAreTold
  /\ OneErrorPerFault /\ LeaksAreOrphans /\ NullsAreExplained

\* With lists of non-null items that are non-null themselves, a bubble comes out of
\* a non-null position and a null of a nullable one, and both where the rule says.
StrictLists ==
  \A op \in Operations : \A n \in Nodes \ {Root} :
    Shape[Parent[n]] = "list" /\ TypeRef[n] \in op.nonNull => TypeRef[Parent[n]] \in op.nonNull
NullsAreTyped ==
  \A e \in Events, n \in Nodes :
    /\ out[e][n] = "null" => ~IsNonNull(n)
    /\ out[e][n] = "bubble" => IsNonNull(n)
NullsAreByRule == \A e \in Events, n \in Nodes : IsNull(e, n) => NullByRule(e, n)

-----------------------------------------------------------------------------
(* What every step of a coroutine does.                                    *)

LEMMA FinishIs ==
  ASSUME TypeOK, NEW e \in Events, NEW n \in Nodes, NEW o \in Outs, Finish(e, n, o)
  PROVE  /\ pc' \in [Events -> [Nodes -> {"idle", "running", "joining", "done"}]]
         /\ out' \in [Events -> [Nodes -> Outs]]
         /\ \A f \in Events, m \in Nodes :
              /\ pc'[f][m] = IF f = e /\ m = n THEN "done" ELSE pc[f][m]
              /\ out'[f][m] = IF f = e /\ m = n THEN o ELSE out[f][m]
<1>1. /\ pc \in [Events -> [Nodes -> {"idle", "running", "joining", "done"}]]
      /\ out \in [Events -> [Nodes -> Outs]]
  BY DEF TypeOK
<1>2. /\ pc' = [pc EXCEPT ![e][n] = "done"]
      /\ out' = [out EXCEPT ![e][n] = o]
  BY DEF Finish
<1> QED BY <1>1, <1>2

\* What the coroutines of other positions do not undo: who is done stays done, with
\* the same out.
Keeps ==
  /\ mode' = mode
  /\ \A e \in Events, m \in Nodes :
       /\ pc[e][m] = "done" => pc'[e][m] = "done"
       /\ out[e][m] # "none" => out'[e][m] = out[e][m]

LEMMA KidsToJoinAre ==
  ASSUME NEW n \in Nodes
  PROVE  KidsToJoin(n) \subseteq Kids(n) /\ (n # Root => KidsToJoin(n) = Kids(n))
BY RootFieldsAre DEF KidsToJoin, RootKids

\* A list that passed an exception on has done so for good, and orphans stay orphans.
LEMMA PassedOnStays ==
  ASSUME Keeps
  PROVE  \A e \in Events, l \in Nodes : PassedOn(e, l) => PassedOn(e, l)'
<1> SUFFICES ASSUME NEW e \in Events, NEW l \in Nodes, PassedOn(e, l) PROVE PassedOn(e, l)'
  OBVIOUS
<1>1. l # Root
  BY TreeAssumption DEF PassedOn
<1>2. PICK k \in Kids(l) : out[e][k] \in Escapes
  BY <1>1, KidsToJoinAre DEF KidOuts, PassedOn
<1>3. k \in Nodes
  BY <1>2, KidsAre
<1>4. out'[e][k] \in Escapes
  BY <1>2, <1>3 DEF Keeps, Escapes
<1>5. KidsToJoin(l)' = Kids(l)
  BY <1>1 DEF KidsToJoin, RootKids
<1>6. (Escapes \cap KidOuts(e, l))' # {}
  BY <1>2, <1>4, <1>5 DEF KidOuts
<1> QED BY <1>6 DEF PassedOn

LEMMA OrphansStay ==
  ASSUME Keeps
  PROVE  \A e \in Events, n \in Nodes : Orphan(e, n) => Orphan(e, n)'
<1> SUFFICES ASSUME NEW e \in Events, NEW n \in Nodes, Orphan(e, n) PROVE Orphan(e, n)'
  OBVIOUS
<1>1. PICK l \in Above[n] : pc[e][l] = "done" /\ PassedOn(e, l)
  BY DEF Orphan, PassedOn
<1>2. l \in Nodes
  BY <1>1, AboveAreNodes
<1>3. pc'[e][l] = "done" /\ PassedOn(e, l)'
  BY <1>1, <1>2, PassedOnStays DEF Keeps
<1> QED BY <1>1, <1>3 DEF Orphan, PassedOn

\* A coroutine at work below a position that is over has nobody waiting for it.
LEMMA UnfinishedBelowDone ==
  ASSUME ParentsFirst, KidsAreOver, NEW e \in Events, NEW m \in Nodes, pc[e][m] = "done"
  PROVE  \A n \in Nodes : m \in Above[n] /\ Unfinished(e, n) => Orphan(e, n)
<1> DEFINE S == {n \in Nodes \ {Root} : m \in Above[n] /\ Unfinished(e, n) /\ ~Orphan(e, n)}
<1>1. ASSUME S # {} PROVE FALSE
  <2>1. PICK n \in S : Parent[n] \notin S
    BY <1>1, TreeAssumption
  <2> DEFINE p == Parent[n]
  <2>2. /\ p \in Nodes /\ n \in Kids(p) /\ Above[n] = {p} \cup Above[p]
        /\ pc[e][p] \in {"joining", "done"}
    BY <2>1, ParentIsNode, AboveKid DEF Kids, ParentsFirst, Unfinished
  <2>3. ~PassedOn(e, p) \/ pc[e][p] # "done"
    BY <2>1, <2>2 DEF PassedOn, Orphan
  <2>4. pc[e][p] = "joining"
    BY <2>1, <2>2, <2>3 DEF KidsAreOver
  <2>5. m \in Above[p] /\ p # Root
    BY <2>1, <2>2, <2>4, AboveRoot
  <2>6. Orphan(e, p)
    BY <2>1, <2>2, <2>4, <2>5 DEF Unfinished
  <2> QED BY <2>1, <2>2, <2>6 DEF Orphan
<1>2. ASSUME NEW n \in Nodes, m \in Above[n] PROVE n # Root
  BY <1>2, AboveRoot
<1> QED BY <1>1, <1>2

\* The coroutine of n is over, with the out o, and the reasons it may have had.
Ends(e, n, o) ==
  /\ n # Root /\ Unfinished(e, n) /\ o \in Outs \ {"none"}
  /\ Finish(e, n, o)
  /\ UNCHANGED <<mode, nonNull, event, response>>
  /\ PassedOn(e, n) \/ \A k \in Kids(n) : ~Unfinished(e, k)
  /\ o = "value" => \A k \in Kids(n) : out[e][k] \in {"value", "null"}
  /\ o \in {"null", "bubble"} => o = NullOrBubble(n) \/ (Shape[n] = "list" /\ o = "bubble")
  /\ \/ /\ UNCHANGED <<void, errors>>
        /\ o \in {"null", "bubble"} => \E k \in Kids(n) : out[e][k] = "bubble"
     \/ /\ o = NullOrBubble(n)
        /\ void' = [void EXCEPT ![e] = @ \cup {n}]
        /\ Record(e, n) \/ (UNCHANGED errors /\ (IsNonNull(n) => n \in BlankLeaves))
  /\ mode = "subscription" /\ Parent[n] = Root => o # "exception"

\* The value of n is there and its children start.
Opens(e, n) ==
  /\ n # Root /\ pc[e][n] = "running"
  /\ pc' = [pc EXCEPT ![e] = [m \in Nodes |->
                      IF m = n THEN "joining" ELSE IF m \in Kids(n) THEN "running" ELSE @[m]]]
  /\ UNCHANGED <<mode, nonNull, event, out, void, errors, response>>

LEMMA OutsAre ==
  ASSUME TypeOK
  PROVE  /\ \A e \in Events, n \in Nodes : out[e][n] \in Outs
         /\ \A e \in Events, n \in Nodes : pc[e][n] \in {"idle", "running", "joining", "done"}
BY DEF TypeOK

LEMMA NullOrBubbleIs ==
  \A n \in Nodes : /\ NullOrBubble(n) \in {"null", "bubble"}
                   /\ IsNonNull(n) <=> NullOrBubble(n) = "bubble"
BY DEF NullOrBubble

LEMMA ResolveIs ==
  ASSUME ExecInv, NEW e \in Events, NEW n \in Nodes, Resolve(e, n)
  PROVE  Opens(e, n) \/ \E o \in Outs : Ends(e, n, o)
<1>1. pc[e][n] = "running" /\ Unfinished(e, n) /\ n # Root
  BY DEF ExecInv, RootAnswers, Resolve, Unfinished
<1>2. \A k \in Kids(n) : ~Unfinished(e, k)
  BY <1>1, KidsAre DEF ExecInv, ParentsFirst, Unfinished
<1>3. UNCHANGED <<mode, nonNull, event, response>>
  BY DEF Resolve
<1>4. NullOrBubble(n) \in Outs \ {"none"} /\ NullOrBubble(n) \notin {"value", "exception"}
  BY NullOrBubbleIs DEF Outs
<1>5. CASE CompleteValue(e, n)
  <2>1. CASE Kids(n) = {}
    BY <1>1, <1>2, <1>3, <1>5, <2>1 DEF CompleteValue, Ends, Outs
  <2>2. CASE Kids(n) # {}
    BY <1>1, <1>3, <1>5, <2>2 DEF CompleteValue, Opens
  <2> QED BY <2>1, <2>2
<1>6. CASE CompleteNull(e, n)
  <2>1. Ends(e, n, NullOrBubble(n))
    BY <1>1, <1>2, <1>3, <1>4, <1>6 DEF CompleteNull, Ends
  <2> QED BY <2>1, <1>4
<1>7. CASE CompleteFailed(e, n)
  <2>1. Ends(e, n, NullOrBubble(n))
    BY <1>1, <1>2, <1>3, <1>4, <1>7 DEF CompleteFailed, Ends
  <2> QED BY <2>1, <1>4
<1>8. CASE CompleteBlank(e, n)
  <2>1. Ends(e, n, NullOrBubble(n))
    BY <1>1, <1>2, <1>3, <1>4, <1>8 DEF CompleteBlank, Ends
  <2> QED BY <2>1, <1>4
<1>9. ASSUME NEW exc \in Escapes, CompleteRaised(e, n, exc) PROVE \E o \in Outs : Ends(e, n, o)
  <2>1. CASE IsField(n) /\ exc = "exception"
    <3>1. Ends(e, n, NullOrBubble(n))
      BY <1>1, <1>2, <1>3, <1>4, <1>9, <2>1 DEF CompleteRaised, CompleteFailed, Ends
    <3> QED BY <3>1, <1>4
  <2>2. CASE ~(IsField(n) /\ exc = "exception")
    <3>1. exc \in Outs \ {"none", "null", "bubble", "value"}
      BY DEF Escapes, Outs
    <3>2. Parent[n] = Root => exc # "exception"
      BY <1>1, <2>2, TreeAssumption DEF IsField
    <3>3. Ends(e, n, exc)
      BY <1>1, <1>2, <1>3, <1>9, <2>2, <3>1, <3>2 DEF CompleteRaised, Ends
    <3> QED BY <3>1, <3>3
  <2> QED BY <2>1, <2>2
<1>10. CASE ArgumentsRaise(e, n)
  <2>1. Ends(e, n, "exception")
    BY <1>1, <1>2, <1>3, <1>10 DEF ArgumentsRaise, Ends, Outs
  <2> QED BY <2>1 DEF Outs
<1> QED BY <1>5, <1>6, <1>7, <1>8, <1>9, <1>10 DEF Resolve

\* An exception that one of its children hands to n.
LEMMA RaisedIs ==
  ASSUME ExecInv, NEW e \in Events, NEW n \in Nodes \ {Root}, pc[e][n] = "joining",
         PassedOn(e, n) \/ \A k \in Kids(n) : ~Unfinished(e, k),
         UNCHANGED <<mode, nonNull, event, response>>,
         NEW exc \in Escapes, CompleteRaised(e, n, exc)
  PROVE  \E o \in Outs : Ends(e, n, o)
<1>1. Unfinished(e, n)
  BY DEF Unfinished
<1>2. NullOrBubble(n) \in Outs \ {"none"} /\ NullOrBubble(n) \notin {"value", "exception"}
  BY NullOrBubbleIs DEF Outs
<1>3. CASE IsField(n) /\ exc = "exception"
  <2>1. Ends(e, n, NullOrBubble(n))
    BY <1>1, <1>2, <1>3 DEF CompleteRaised, CompleteFailed, Ends
  <2> QED BY <2>1, <1>2
<1>4. CASE ~(IsField(n) /\ exc = "exception")
  <2>1. exc \in Outs \ {"none", "null", "bubble", "value"}
    BY DEF Escapes, Outs
  <2>2. Parent[n] = Root => exc # "exception"
    BY <1>4, TreeAssumption DEF IsField
  <2>3. Ends(e, n, exc)
    BY <1>1, <1>4, <2>1, <2>2 DEF CompleteRaised, Ends
  <2> QED BY <2>1, <2>3
<1> QED BY <1>3, <1>4

LEMMA CompleteIs ==
  ASSUME ExecInv, NEW e \in Events, NEW n \in Nodes, Complete(e, n)
  PROVE  Opens(e, n) \/ \E o \in Outs : Ends(e, n, o)
<1>1. CASE Resolve(e, n)
  BY <1>1, ResolveIs
<1>2. ASSUME AllDone(e, n), n # Root
      PROVE  \A k \in Kids(n) : ~Unfinished(e, k) /\ out[e][k] \in Outs \ {"none"} /\ out[e][k] \in KidOuts(e, n)
  <2>1. KidsToJoin(n) = Kids(n) /\ Kids(n) \subseteq Nodes
    BY <1>2, KidsToJoinAre, KidsAre
  <2>2. \A k \in Kids(n) : pc[e][k] = "done" /\ out[e][k] \in KidOuts(e, n)
    BY <1>2, <2>1 DEF AllDone, KidOuts
  <2> QED BY <2>1, <2>2, OutsAre DEF ExecInv, OutsOfDone, Unfinished
<1>3. n # Root => KidsToJoin(n) = Kids(n)
  BY KidsToJoinAre
<1>4. NullOrBubble(n) \in Outs \ {"none"} /\ NullOrBubble(n) \notin {"value", "exception"}
  BY NullOrBubbleIs DEF Outs
<1>5. CASE JoinObject(e, n)
  <2>1. n # Root /\ pc[e][n] = "joining" /\ AllDone(e, n) /\ UNCHANGED <<mode, nonNull, event, response>>
    BY <1>5 DEF JoinObject
  <2>2. ASSUME NEW exc \in Escapes \cap KidOuts(e, n), CompleteRaised(e, n, exc)
        PROVE  \E o \in Outs : Ends(e, n, o)
    BY <1>2, <2>1, <2>2, RaisedIs
  <2>3. ASSUME Escapes \cap KidOuts(e, n) = {}, "bubble" \in KidOuts(e, n), AbsorbBubble(e, n)
        PROVE  Ends(e, n, NullOrBubble(n))
    <3>1. \E k \in Kids(n) : out[e][k] = "bubble"
      BY <2>1, <2>3, <1>3 DEF KidOuts
    <3> QED BY <1>2, <1>4, <2>1, <2>3, <3>1 DEF AbsorbBubble, Ends, Unfinished
  <2>4. ASSUME Escapes \cap KidOuts(e, n) = {}, "bubble" \notin KidOuts(e, n),
               Finish(e, n, "value"), UNCHANGED <<void, errors>>
        PROVE  Ends(e, n, "value")
    <3>1. \A k \in Kids(n) : out[e][k] \in {"value", "null"}
      BY <1>2, <2>1, <2>4 DEF Outs, Escapes
    <3> QED BY <1>2, <2>1, <2>4, <3>1 DEF Ends, Unfinished, Outs
  <2> QED BY <1>4, <1>5, <2>2, <2>3, <2>4 DEF JoinObject, Outs
<1>6. CASE JoinList(e, n)
  <2>1. /\ n # Root /\ pc[e][n] = "joining" /\ AllDone(e, n) /\ Shape[n] = "list"
        /\ UNCHANGED <<mode, nonNull, event, void, errors, response>>
        /\ Escapes \cap KidOuts(e, n) = {}
    BY <1>6, TreeAssumption DEF JoinList
  <2>2. CASE "bubble" \in KidOuts(e, n)
    <3>1. \E k \in Kids(n) : out[e][k] = "bubble"
      BY <2>1, <2>2, <1>3 DEF KidOuts
    <3>2. Ends(e, n, "bubble")
      BY <1>2, <1>6, <2>1, <2>2, <3>1 DEF JoinList, Ends, Unfinished, Outs
    <3> QED BY <3>2 DEF Outs
  <2>3. CASE "bubble" \notin KidOuts(e, n)
    <3>1. \A k \in Kids(n) : out[e][k] \in {"value", "null"}
      BY <1>2, <2>1, <2>3 DEF Outs, Escapes
    <3>2. Ends(e, n, "value")
      BY <1>2, <1>6, <2>1, <2>3, <3>1 DEF JoinList, Ends, Unfinished, Outs
    <3> QED BY <3>2 DEF Outs
  <2> QED BY <2>2, <2>3
<1>7. CASE ListRaises(e, n)
  <2>1. /\ n # Root /\ pc[e][n] = "joining" /\ UNCHANGED <<mode, nonNull, event, response>>
    BY <1>7, TreeAssumption DEF ListRaises
  <2>2. PICK exc \in Escapes \cap KidOuts(e, n) : CompleteRaised(e, n, exc)
    BY <1>7 DEF ListRaises
  <2>3. PassedOn(e, n)
    BY <1>7, <2>2 DEF PassedOn, ListRaises
  <2> QED BY <2>1, <2>2, <2>3, RaisedIs
<1> QED BY <1>1, <1>5, <1>6, <1>7 DEF Complete

\* Its effect, position by position.
Ended(e, n, o) ==
  /\ \A f \in Events, m \in Nodes : pc'[f][m] = IF f = e /\ m = n THEN "done" ELSE pc[f][m]
  /\ \A f \in Events, m \in Nodes : out'[f][m] = IF f = e /\ m = n THEN o ELSE out[f][m]
  /\ \A f \in Events : void[f] \subseteq void'[f]
  /\ \A f \in Events : \A m \in void'[f] : m \in void[f] \/ (f = e /\ m = n /\ o = NullOrBubble(n))
  /\ \A f \in Events, m \in Nodes : f # e \/ m # n => errors'[<<f, m>>] = errors[<<f, m>>]
  /\ errors' = errors \/ (errors'[<<e, n>>] = errors[<<e, n>>] + 1 /\ n \in void'[e])
  /\ o = "bubble" => \/ \E k \in Kids(n) : out[e][k] = "bubble"
                     \/ errors'[<<e, n>>] > 0
                     \/ n \in BlankLeaves \cap void'[e]

LEMMA EndsIs ==
  ASSUME TypeOK, NEW e \in Events, NEW n \in Nodes, NEW o \in Outs, Ends(e, n, o)
  PROVE  TypeOK' /\ Ended(e, n, o)
<1> DEFINE Told == \/ \E k \in Kids(n) : out[e][k] = "bubble"
                   \/ errors'[<<e, n>>] > 0
                   \/ n \in BlankLeaves \cap void'[e]
<1>1. /\ pc' \in [Events -> [Nodes -> {"idle", "running", "joining", "done"}]]
      /\ out' \in [Events -> [Nodes -> Outs]]
  BY FinishIs DEF Ends
<1>p. \A f \in Events, m \in Nodes : pc'[f][m] = IF f = e /\ m = n THEN "done" ELSE pc[f][m]
  BY FinishIs DEF Ends
<1>o. \A f \in Events, m \in Nodes : out'[f][m] = IF f = e /\ m = n THEN o ELSE out[f][m]
  BY FinishIs DEF Ends
<1>2. void \in [Events -> SUBSET Nodes] /\ errors \in [Events \X Nodes -> Nat]
  BY DEF TypeOK
<1>3. CASE UNCHANGED <<void, errors>> /\ (o \in {"null", "bubble"} => \E k \in Kids(n) : out[e][k] = "bubble")
  <2>1. TypeOK'
    BY <1>1, <1>3 DEF TypeOK, Ends
  <2>2. \A f \in Events : void[f] \subseteq void'[f] /\ void'[f] \subseteq void[f]
    BY <1>3
  <2>3. errors' = errors
    BY <1>3
  <2> QED BY <1>p, <1>o, <1>3, <2>1, <2>2, <2>3 DEF Ended
<1>4. CASE /\ o = NullOrBubble(n)
           /\ void' = [void EXCEPT ![e] = @ \cup {n}]
           /\ Record(e, n) \/ (UNCHANGED errors /\ (IsNonNull(n) => n \in BlankLeaves))
  <2>1. /\ void' \in [Events -> SUBSET Nodes] /\ n \in void'[e]
        /\ \A f \in Events : void[f] \subseteq void'[f]
        /\ \A f \in Events : \A m \in void'[f] : m \in void[f] \/ (f = e /\ m = n)
    BY <1>2, <1>4
  <2>2. CASE Record(e, n)
    <3>1. /\ errors' \in [Events \X Nodes -> Nat]
          /\ errors'[<<e, n>>] = errors[<<e, n>>] + 1
          /\ \A f \in Events, m \in Nodes : f # e \/ m # n => errors'[<<f, m>>] = errors[<<f, m>>]
      BY <1>2, <2>2 DEF Record
    <3>2. TypeOK'
      BY <1>1, <2>1, <3>1 DEF TypeOK, Ends
    <3>3. errors'[<<e, n>>] > 0
      BY <1>2, <3>1
    <3>4. Told
      BY <3>3
    <3> HIDE DEF Told
    <3>5. \A f \in Events : \A m \in void'[f] : m \in void[f] \/ (f = e /\ m = n /\ o = NullOrBubble(n))
      BY <1>4, <2>1
    <3> QED BY <1>p, <1>o, <2>1, <3>1, <3>2, <3>4, <3>5 DEF Told, Ended
  <2>3. CASE UNCHANGED errors /\ (IsNonNull(n) => n \in BlankLeaves)
    <3>1. TypeOK'
      BY <1>1, <2>1, <2>3 DEF TypeOK, Ends
    <3>2. o = "bubble" => Told
      BY <1>4, <2>1, <2>3, NullOrBubbleIs
    <3> HIDE DEF Told
    <3>5. \A f \in Events : \A m \in void'[f] : m \in void[f] \/ (f = e /\ m = n /\ o = NullOrBubble(n))
      BY <1>4, <2>1
    <3>6. errors' = errors
      BY <2>3
    <3> QED BY <1>p, <1>o, <2>1, <3>1, <3>2, <3>5, <3>6 DEF Told, Ended
  <2> QED BY <1>4, <2>2, <2>3
<1> QED BY <1>3, <1>4 DEF Ends

\* Below an answered root only orphans are at work.
LEMMA LateIsOrphan ==
  ASSUME ExecInv, NEW e \in Events, Responded(e) \/ e < event, NEW n \in Nodes, Unfinished(e, n)
  PROVE  Orphan(e, n)
<1>1. pc[e][Root] = "done" /\ Root \in Nodes
  BY TreeAssumption DEF ExecInv, RootAnswers, Responded
<1>2. n # Root
  BY <1>1 DEF Unfinished
<1> QED BY <1>1, <1>2, RootIsAbove, UnfinishedBelowDone DEF ExecInv

LEMMA EndsKeeps ==
  ASSUME ExecInv, NEW e \in Events, NEW n \in Nodes, NEW o \in Outs, Ends(e, n, o)
  PROVE  ExecInv'
<1>t. TypeOK
  BY DEF ExecInv
<1>1. TypeOK' /\ Ended(e, n, o)
  BY <1>t, EndsIs
<1>p. \A f \in Events, m \in Nodes : pc'[f][m] = IF f = e /\ m = n THEN "done" ELSE pc[f][m]
  BY <1>1 DEF Ended
<1>o. \A f \in Events, m \in Nodes : out'[f][m] = IF f = e /\ m = n THEN o ELSE out[f][m]
  BY <1>1 DEF Ended
<1>v. \A f \in Events : void[f] \subseteq void'[f]
  BY <1>1 DEF Ended
<1>w. \A f \in Events : \A m \in void'[f] : m \in void[f] \/ (f = e /\ m = n /\ o = NullOrBubble(n))
  BY <1>1 DEF Ended
<1>e. \A f \in Events, m \in Nodes : f # e \/ m # n => errors'[<<f, m>>] = errors[<<f, m>>]
  BY <1>1 DEF Ended
<1>r. errors' = errors \/ (errors'[<<e, n>>] = errors[<<e, n>>] + 1 /\ n \in void'[e])
  BY <1>1 DEF Ended
<1>b. o = "bubble" => \/ \E k \in Kids(n) : out[e][k] = "bubble"
                      \/ errors'[<<e, n>>] > 0
                      \/ n \in BlankLeaves \cap void'[e]
  BY <1>1 DEF Ended
<1>2. /\ n # Root /\ Unfinished(e, n) /\ o # "none"
      /\ mode' = mode /\ nonNull' = nonNull /\ event' = event /\ response' = response
      /\ PassedOn(e, n) \/ \A k \in Kids(n) : ~Unfinished(e, k)
      /\ o = "value" => \A k \in Kids(n) : out[e][k] \in {"value", "null"}
      /\ mode = "subscription" /\ Parent[n] = Root => o # "exception"
  BY DEF Ends
<1>3. pc[e][n] \in {"running", "joining"} /\ out[e][n] = "none" /\ n \notin void[e]
  BY <1>2, OutsAre DEF ExecInv, OutsOfDone, Unfinished, VoidsAreNull, IsNull
<1>0. \A f \in Events, m \in Nodes : errors[<<f, m>>] \in Nat /\ errors'[<<f, m>>] \in Nat
  BY <1>t, <1>1 DEF TypeOK
<1>4. Keeps
  BY <1>p, <1>o, <1>2, <1>3 DEF Keeps
<1>5. \A f \in Events, m \in Nodes : Orphan(f, m) => Orphan(f, m)'
  BY <1>4, OrphansStay
<1>7l. (Responded(e) \/ e # event) => Orphan(e, n)
  <2>1. e \in Nat /\ event \in Nat /\ ~(e > event)
    BY <1>3 DEF ExecInv, NothingBefore, TypeOK, Events
  <2> QED BY <1>2, <2>1, LateIsOrphan
<1>6. NothingBefore'
  BY <1>p, <1>w, <1>2, <1>3 DEF ExecInv, NothingBefore
<1>7. OutsOfDone'
  BY <1>p, <1>o, <1>2, <1>3 DEF ExecInv, OutsOfDone
<1>8. RootAnswers'
  <2>1. Root \in Nodes /\ RootFields[1] \in Nodes
    BY TreeAssumption, RootFieldsAre, KidsAre
  <2>2. \A f \in Events : pc'[f][Root] = pc[f][Root] /\ out'[f][Root] = out[f][Root]
    BY <1>p, <1>o, <1>2, <2>1
  <2>3. ASSUME NEW f \in Events, Responded(f), mode = "subscription"
        PROVE  out'[f][RootFields[1]] = out[f][RootFields[1]]
    <3>1. pc[f][Root] = "done" /\ ~PassedOn(f, Root)
      BY <2>3, TreeAssumption DEF ExecInv, RootAnswers, Responded, PassedOn
    <3>2. ~Unfinished(f, RootFields[1])
      BY <2>1, <3>1, RootFieldsAre DEF ExecInv, KidsAreOver
    <3> QED BY <1>o, <1>2, <2>1, <3>2
  <2> QED BY <1>2, <2>2, <2>3 DEF ExecInv, RootAnswers, Responded
<1>9. ParentsFirst'
  BY <1>p, <1>2, <1>3, ParentIsNode DEF ExecInv, ParentsFirst
<1>10. KidsAreOver'
  <2>1. \A f \in Events, m \in Nodes : PassedOn(f, m) => PassedOn(f, m)'
    BY <1>4, PassedOnStays
  <2>2. \A f \in Events, m \in Nodes : ~Unfinished(f, m) => ~Unfinished(f, m)'
    BY <1>p DEF Unfinished
  <2>3. ASSUME NEW f \in Events, NEW m \in Nodes, pc'[f][m] = "done"
        PROVE  PassedOn(f, m)' \/ \A k \in Kids(m) : ~Unfinished(f, k)'
    <3>1. CASE f = e /\ m = n
      BY <1>2, <2>1, <2>2, <3>1, KidsAre
    <3>2. CASE ~(f = e /\ m = n)
      <4>1. pc[f][m] = "done"
        BY <1>p, <2>3, <3>2
      <4> QED BY <4>1, <2>1, <2>2, KidsAre DEF ExecInv, KidsAreOver
    <3> QED BY <3>1, <3>2
  <2> QED BY <2>3 DEF KidsAreOver
<1>11. FieldsTakeTurns'
  <2>1. Kids(Root) \subseteq Nodes /\ \A i \in DOMAIN RootFields : RootFields[i] \in Nodes
    BY RootFieldsAre, KidsAre, TreeAssumption
  <2>2. 1 \in Events
    BY TreeAssumption DEF Events
  <2>3. ASSUME Serial, NEW i \in DOMAIN RootFields, NEW j \in DOMAIN RootFields,
               i < j, pc'[1][RootFields[j]] # "idle"
        PROVE  pc'[1][RootFields[i]] = "done" /\ out'[1][RootFields[i]] \in {"value", "null"}
    <3>1. pc[1][RootFields[j]] # "idle"
      BY <1>p, <1>3, <2>1, <2>2, <2>3
    <3>2. pc[1][RootFields[i]] = "done" /\ out[1][RootFields[i]] \in {"value", "null"}
      BY <2>3, <3>1 DEF ExecInv, FieldsTakeTurns
    <3> QED BY <1>p, <1>o, <1>3, <2>1, <2>2, <3>2
  <2>4. ASSUME mode = "subscription", NEW f \in Events, NEW k \in Kids(Root)
        PROVE  (k # RootFields[1] => pc'[f][k] = "idle") /\ out'[f][k] # "exception"
    <3>1. /\ k # RootFields[1] => pc[f][k] = "idle"
          /\ out[f][k] # "exception" /\ k \in Nodes /\ Parent[k] = Root
      BY <2>1, <2>4 DEF ExecInv, FieldsTakeTurns, Kids
    <3>2. pc'[f][k] = IF f = e /\ k = n THEN "done" ELSE pc[f][k]
      BY <1>p, <3>1
    <3>3. out'[f][k] = IF f = e /\ k = n THEN o ELSE out[f][k]
      BY <1>o, <3>1
    <3> QED BY <1>2, <1>3, <2>4, <3>1, <3>2, <3>3
  <2>5. mode # "subscription" => event = 1
    BY DEF ExecInv, FieldsTakeTurns
  <2> QED BY <1>2, <2>3, <2>4, <2>5 DEF FieldsTakeTurns, Serial
<1>12. VoidsAreNull'
  BY <1>o, <1>w, <1>2, <1>3, NullOrBubbleIs DEF ExecInv, VoidsAreNull, IsNull, TypeOK
<1>13. ValuesAreSound'
  BY <1>o, <1>2, <1>3, KidsAre DEF ExecInv, ValuesAreSound
<1>14. OneErrorPerFault'
  <2>1. ASSUME NEW f \in Events, NEW m \in Nodes, f # e \/ m # n \/ errors' = errors
        PROVE  errors'[<<f, m>>] = errors[<<f, m>>]
    BY <1>e, <2>1
  <2>2. errors[<<e, n>>] = 0
    BY <1>3, <1>0 DEF ExecInv, OneErrorPerFault
  <2>3. ASSUME NEW f \in Events, NEW m \in Nodes
        PROVE  errors'[<<f, m>>] <= 1 /\ (errors'[<<f, m>>] = 1 => m \in void'[f])
    <3>1. CASE errors'[<<f, m>>] = errors[<<f, m>>]
      BY <1>v, <3>1 DEF ExecInv, OneErrorPerFault
    <3>2. CASE errors'[<<f, m>>] # errors[<<f, m>>]
      BY <1>r, <2>1, <2>2, <3>2
    <3> QED BY <3>1, <3>2
  <2> QED BY <2>3 DEF OneErrorPerFault
<1>15. ErrorsOfNow'
  <2>1. ASSUME NEW f \in Events, NEW m \in Nodes, errors'[<<f, m>>] > 0, f # event
        PROVE  Orphan(f, m)'
    <3>1. CASE errors[<<f, m>>] > 0
      BY <1>5, <2>1, <3>1 DEF ExecInv, ErrorsOfNow
    <3>2. CASE f = e /\ m = n
      BY <1>2, <1>5, <1>7l, <2>1, <3>2
    <3> QED BY <1>e, <2>1, <3>1, <3>2
  <2> QED BY <1>2, <2>1 DEF ErrorsOfNow
<1>16. BubblesAreTold'
  <2>1. ASSUME NEW d \in Nodes, errors[<<event, d>>] > 0 PROVE errors'[<<event, d>>] > 0
    <3>1. event \in Events
      BY <1>t DEF TypeOK
    <3>2. CASE event = e /\ d = n /\ errors'[<<e, n>>] = errors[<<e, n>>] + 1
      BY <1>0, <2>1, <3>2
    <3>3. CASE errors'[<<event, d>>] = errors[<<event, d>>]
      BY <2>1, <3>3
    <3> QED BY <1>e, <1>r, <3>1, <3>2, <3>3
  <2>2. ASSUME NEW m \in Nodes,
               \E d \in Within(m) : errors[<<event, d>>] > 0 \/ d \in BlankLeaves \cap void[event]
        PROVE  \E d \in Within(m) : errors'[<<event, d>>] > 0 \/ d \in BlankLeaves \cap void'[event]
    BY <1>v, <1>t, <2>1, <2>2 DEF Within, TypeOK
  <2>3. ASSUME NEW m \in Nodes, out'[event][m] = "bubble"
        PROVE  \E d \in Within(m) : errors'[<<event, d>>] > 0 \/ d \in BlankLeaves \cap void'[event]
    <3>1. CASE ~(event = e /\ m = n)
      <4>1. out[event][m] = "bubble"
        BY <1>o, <1>t, <2>3, <3>1 DEF TypeOK
      <4> QED BY <4>1, <2>2 DEF ExecInv, BubblesAreTold
    <3>2. CASE event = e /\ m = n
      <4>1. o = "bubble"
        BY <1>o, <2>3, <3>2
      <4>2. ASSUME NEW k \in Kids(n), out[e][k] = "bubble"
            PROVE \E d \in Within(n) : errors'[<<e, d>>] > 0 \/ d \in BlankLeaves \cap void'[e]
        <5>1. k \in Nodes /\ Within(k) \subseteq Within(n)
          BY WithinKid, KidsAre
        <5>2. \E d \in Within(k) : errors[<<e, d>>] > 0 \/ d \in BlankLeaves \cap void[e]
          BY <5>1, <4>2, <3>2 DEF ExecInv, BubblesAreTold
        <5>3. \E d \in Within(k) : errors'[<<e, d>>] > 0 \/ d \in BlankLeaves \cap void'[e]
          BY <5>1, <5>2, <2>2, <3>2
        <5> QED BY <5>1, <5>3
      <4>3. n \in Within(n)
        BY DEF Within
      <4> QED BY <1>b, <3>2, <4>1, <4>2, <4>3
    <3> QED BY <3>1, <3>2
  <2> QED BY <1>2, <2>3 DEF BubblesAreTold
<1>17. LeaksAreOrphans'
  <2>1. \A f \in Events : response[f].errors \subseteq Events \X Nodes
    BY <1>t DEF TypeOK
  <2>2. ASSUME NEW f \in Events, Responded(f), NEW en \in response[f].errors, en[1] # f
        PROVE  Orphan(en[1], en[2])'
    <3>1. en[1] \in Events /\ en[2] \in Nodes
      BY <2>1, <2>2
    <3>2. Orphan(en[1], en[2])
      BY <2>2 DEF ExecInv, LeaksAreOrphans
    <3> QED BY <1>5, <3>1, <3>2
  <2> QED BY <1>2, <2>2 DEF LeaksAreOrphans, Responded
<1>18. NullsAreExplained'
  <2>1. ASSUME NEW f \in Events, Responded(f), NEW m \in Nodes, Bubbled(f, m)'
        PROVE  \E d \in Within(m) : <<f, d>> \in response[f].errors \/ d \in BlankLeaves \cap void'[f]
    <3>1. ~Orphan(f, m) /\ out'[f][m] = "bubble"
      BY <1>5, <2>1 DEF Bubbled
    <3>2. ~(f = e /\ m = n)
      BY <1>7l, <2>1, <3>1
    <3>3. Bubbled(f, m)
      BY <1>o, <3>1, <3>2 DEF Bubbled
    <3>4. \E d \in Within(m) : <<f, d>> \in response[f].errors \/ d \in BlankLeaves \cap void[f]
      BY <2>1, <3>3 DEF ExecInv, NullsAreExplained
    <3> QED BY <1>v, <3>4
  <2> QED BY <1>2, <2>1 DEF NullsAreExplained, Responded
<1> QED BY <1>1, <1>6, <1>7, <1>8, <1>9, <1>10, <1>11, <1>12, <1>13, <1>14, <1>15, <1>16, <1>17, <1>18
        DEF ExecInv

\* A step that ends no coroutine leaves what is said of outs and errors true.
LEMMA QuietKeeps ==
  ASSUME ExecInv, Keeps, UNCHANGED <<mode, nonNull, event, out, void, errors, response>>
  PROVE  /\ VoidsAreNull' /\ ValuesAreSound' /\ ErrorsOfNow' /\ BubblesAreTold'
         /\ OneErrorPerFault' /\ LeaksAreOrphans' /\ NullsAreExplained'
         /\ \A f \in Events, m \in Nodes : PassedOn(f, m) => PassedOn(f, m)'
<1>1. \A f \in Events, m \in Nodes : Orphan(f, m) => Orphan(f, m)'
  BY OrphansStay
<1>2. /\ mode' = mode /\ nonNull' = nonNull /\ event' = event /\ response' = response
      /\ out' = out /\ void' = void /\ errors' = errors
  OBVIOUS
<1>3. VoidsAreNull' /\ ValuesAreSound' /\ BubblesAreTold' /\ OneErrorPerFault'
  BY <1>2 DEF ExecInv, VoidsAreNull, ValuesAreSound, BubblesAreTold, OneErrorPerFault, IsNull
<1>4. ErrorsOfNow'
  BY <1>1, <1>2 DEF ExecInv, ErrorsOfNow
<1>5. \A f \in Events : response[f].errors \subseteq Events \X Nodes
  BY DEF ExecInv, TypeOK
<1>6. LeaksAreOrphans'
  <2>1. ASSUME NEW f \in Events, Responded(f), NEW en \in response[f].errors, en[1] # f
        PROVE  Orphan(en[1], en[2])'
    <3>1. en[1] \in Events /\ en[2] \in Nodes /\ Orphan(en[1], en[2])
      BY <1>5, <2>1 DEF ExecInv, LeaksAreOrphans
    <3> QED BY <1>1, <3>1
  <2> QED BY <1>2, <2>1 DEF LeaksAreOrphans, Responded
<1>7. NullsAreExplained'
  <2>1. ASSUME NEW f \in Events, NEW m \in Nodes, Bubbled(f, m)' PROVE Bubbled(f, m)
    BY <1>1, <1>2, <2>1 DEF Bubbled
  <2> QED BY <1>2, <2>1 DEF ExecInv, NullsAreExplained, Responded
<1> QED BY <1>3, <1>4, <1>6, <1>7, PassedOnStays

LEMMA OpensKeeps ==
  ASSUME ExecInv, NEW e \in Events, NEW n \in Nodes, Opens(e, n)
  PROVE  ExecInv'
<1>1. /\ pc[e][n] = "running" /\ n # Root /\ UNCHANGED <<mode, nonNull, event, out, void, errors, response>>
      /\ pc' = [pc EXCEPT ![e] = [m \in Nodes |->
                      IF m = n THEN "joining" ELSE IF m \in Kids(n) THEN "running" ELSE @[m]]]
  BY DEF Opens
<1>2. pc \in [Events -> [Nodes -> {"idle", "running", "joining", "done"}]]
  BY DEF ExecInv, TypeOK
<1>3. pc' \in [Events -> [Nodes -> {"idle", "running", "joining", "done"}]]
  BY <1>1, <1>2
<1>p. \A f \in Events, m \in Nodes :
        pc'[f][m] = IF f = e /\ m = n THEN "joining"
                    ELSE IF f = e /\ m \in Kids(n) THEN "running" ELSE pc[f][m]
  BY <1>1, <1>2
<1>4. \A k \in Kids(n) : k \in Nodes \ {Root} /\ Parent[k] = n /\ pc[e][k] = "idle"
  BY <1>1, KidsAre DEF ExecInv, ParentsFirst
<1>5. \A f \in Events, m \in Nodes : pc'[f][m] = "done" <=> pc[f][m] = "done"
  BY <1>1, <1>4, <1>p
<1>6. Keeps
  BY <1>1, <1>5 DEF Keeps
<1>7. TypeOK'
  BY <1>1, <1>3 DEF ExecInv, TypeOK
<1>8. NothingBefore'
  BY <1>1, <1>4, <1>p DEF ExecInv, NothingBefore
<1>9. OutsOfDone'
  BY <1>1, <1>5 DEF ExecInv, OutsOfDone
<1>10. RootAnswers'
  <2>1. Root \in Nodes /\ \A f \in Events : pc'[f][Root] = pc[f][Root]
    BY <1>1, <1>4, <1>p, TreeAssumption
  <2> QED BY <1>1, <2>1 DEF ExecInv, RootAnswers, Responded
<1>11. ParentsFirst'
  <2>1. ASSUME NEW f \in Events, NEW m \in Nodes \ {Root}, pc'[f][m] # "idle"
        PROVE  pc'[f][Parent[m]] \in {"joining", "done"}
    <3>1. Parent[m] \in Nodes
      BY ParentIsNode
    <3>2. CASE f = e /\ m \in Kids(n)
      BY <1>4, <1>p, <3>2
    <3>3. CASE ~(f = e /\ m \in Kids(n))
      <4>1. pc[f][m] # "idle"
        BY <1>1, <1>p, <2>1, <3>3
      <4>2. pc[f][Parent[m]] \in {"joining", "done"}
        BY <4>1 DEF ExecInv, ParentsFirst
      <4> QED BY <1>1, <1>4, <1>p, <3>1, <4>2
    <3> QED BY <3>2, <3>3
  <2> QED BY <2>1 DEF ParentsFirst
<1>12. KidsAreOver'
  <2>1. ASSUME NEW f \in Events, NEW m \in Nodes, pc'[f][m] = "done", ~PassedOn(f, m), NEW k \in Kids(m)
        PROVE  ~Unfinished(f, k)'
    <3>1. pc[f][m] = "done" /\ k \in Nodes /\ Parent[k] = m
      BY <1>5, <2>1, KidsAre
    <3>0. ~Unfinished(f, k) /\ (f = e => k # n)
      BY <1>1, <2>1, <3>1 DEF ExecInv, KidsAreOver, Unfinished
    <3>2. ~(f = e /\ k \in Kids(n))
      BY <1>1, <1>4, <3>1
    <3>3. pc'[f][k] = pc[f][k]
      BY <1>p, <3>0, <3>1, <3>2
    <3> QED BY <3>0, <3>3 DEF Unfinished
  <2>2. \A f \in Events, m \in Nodes : PassedOn(f, m) => PassedOn(f, m)'
    BY <1>6, PassedOnStays
  <2> QED BY <2>1, <2>2 DEF KidsAreOver
<1>13. FieldsTakeTurns'
  <2>1. ASSUME NEW f \in Events, NEW k \in Kids(Root) PROVE pc'[f][k] = "idle" <=> pc[f][k] = "idle"
    <3>1. k \in Nodes /\ Parent[k] = Root /\ k \notin Kids(n)
      BY <1>1, <1>4, KidsAre, TreeAssumption
    <3> QED BY <1>1, <1>p, <3>1
  <2>2. \A i \in DOMAIN RootFields : RootFields[i] \in Kids(Root) /\ RootFields[i] \in Nodes
    BY RootFieldsAre, KidsAre, TreeAssumption
  <2>3. 1 \in Events
    BY TreeAssumption DEF Events
  <2> QED BY <1>1, <1>5, <2>1, <2>2, <2>3 DEF ExecInv, FieldsTakeTurns, Serial
<1> QED BY <1>1, <1>6, <1>7, <1>8, <1>9, <1>10, <1>11, <1>12, <1>13, QuietKeeps DEF ExecInv

\* The next field of a mutation starts.
StartsNext(i) ==
  /\ Serial /\ i < Len(RootFields)
  /\ pc[1][Root] = "joining" /\ pc[1][RootFields[i]] = "done" /\ pc[1][RootFields[i + 1]] = "idle"
  /\ out[1][RootFields[i]] \in {"value", "null"}
  /\ pc' = [pc EXCEPT ![1][RootFields[i + 1]] = "running"]
  /\ UNCHANGED <<mode, nonNull, event, out, void, errors, response>>

LEMMA RootFieldsAreNodes ==
  /\ \A i \in DOMAIN RootFields : RootFields[i] \in Kids(Root) /\ RootFields[i] \in Nodes \ {Root}
                                  /\ Parent[RootFields[i]] = Root
  /\ 1 \in Events
<1>1. Root \in Nodes /\ MaxEvents \in Nat \ {0}
  BY TreeAssumption
<1> QED BY <1>1, RootFieldsAre, KidsAre DEF Events

LEMMA StartsNextKeeps ==
  ASSUME ExecInv, NEW i \in DOMAIN RootFields, StartsNext(i)
  PROVE  ExecInv'
<1> DEFINE j == i + 1
           r == RootFields[j]
<1>1. i \in Nat /\ j \in DOMAIN RootFields /\ 1 \in Events /\ Root \in Nodes
      /\ r \in Nodes \ {Root} /\ r \in Kids(Root) /\ Parent[r] = Root
  <2>1. i \in 1..Len(RootFields) /\ Len(RootFields) \in Nat
    BY RootFieldsAre
  <2>2. j \in DOMAIN RootFields
    BY <2>1, RootFieldsAre DEF StartsNext
  <2> QED BY <2>1, <2>2, RootFieldsAreNodes, TreeAssumption
<1>2. /\ Serial /\ pc[1][Root] = "joining" /\ pc[1][RootFields[i]] = "done" /\ pc[1][r] = "idle"
      /\ UNCHANGED <<mode, nonNull, event, out, void, errors, response>>
      /\ out[1][RootFields[i]] \in {"value", "null"}
      /\ pc' = [pc EXCEPT ![1][r] = "running"]
  BY DEF StartsNext
<1>3. pc \in [Events -> [Nodes -> {"idle", "running", "joining", "done"}]]
  BY DEF ExecInv, TypeOK
<1> HIDE DEF r, j
<1>4. pc' \in [Events -> [Nodes -> {"idle", "running", "joining", "done"}]]
  BY <1>1, <1>2, <1>3
<1>p. \A f \in Events, m \in Nodes : pc'[f][m] = IF f = 1 /\ m = r THEN "running" ELSE pc[f][m]
  BY <1>1, <1>2, <1>3
<1>5. \A f \in Events, m \in Nodes : pc'[f][m] = "done" <=> pc[f][m] = "done"
  BY <1>1, <1>2, <1>p
<1>6. Keeps
  BY <1>2, <1>5 DEF Keeps
<1>7. TypeOK'
  BY <1>2, <1>4 DEF ExecInv, TypeOK
<1>8. NothingBefore'
  <2>1. event = 1
    BY <1>2 DEF ExecInv, FieldsTakeTurns, Serial
  <2> QED BY <1>2, <1>p, <2>1 DEF ExecInv, NothingBefore
<1>9. OutsOfDone'
  BY <1>2, <1>5 DEF ExecInv, OutsOfDone
<1>10. RootAnswers'
  <2>1. \A f \in Events : pc'[f][Root] = pc[f][Root]
    BY <1>1, <1>p
  <2> QED BY <1>2, <2>1 DEF ExecInv, RootAnswers, Responded
<1>11. ParentsFirst'
  <2>1. ASSUME NEW f \in Events, NEW m \in Nodes \ {Root}, pc'[f][m] # "idle"
        PROVE  pc'[f][Parent[m]] \in {"joining", "done"}
    <3>1. Parent[m] \in Nodes
      BY ParentIsNode
    <3>2. CASE f = 1 /\ m = r
      BY <1>1, <1>2, <1>p, <3>2
    <3>3. CASE ~(f = 1 /\ m = r)
      <4>1. pc[f][m] # "idle"
        BY <1>p, <2>1, <3>3
      <4>2. pc[f][Parent[m]] \in {"joining", "done"}
        BY <4>1 DEF ExecInv, ParentsFirst
      <4> QED BY <1>2, <1>p, <3>1, <4>2
    <3> QED BY <3>2, <3>3
  <2> QED BY <2>1 DEF ParentsFirst
<1>12. KidsAreOver'
  <2>1. ASSUME NEW f \in Events, NEW m \in Nodes, pc'[f][m] = "done", ~PassedOn(f, m), NEW k \in Kids(m)
        PROVE  ~Unfinished(f, k)'
    <3>1. pc[f][m] = "done" /\ k \in Nodes /\ Parent[k] = m
      BY <1>5, <2>1, KidsAre
    <3>2. ~Unfinished(f, k)
      BY <2>1, <3>1 DEF ExecInv, KidsAreOver
    <3>3. ~(f = 1 /\ k = r)
      BY <1>1, <1>2, <3>1
    <3>4. pc'[f][k] = pc[f][k]
      BY <1>p, <3>1, <3>3
    <3> QED BY <3>2, <3>4 DEF Unfinished
  <2>2. \A f \in Events, m \in Nodes : PassedOn(f, m) => PassedOn(f, m)'
    BY <1>6, PassedOnStays
  <2> QED BY <2>1, <2>2 DEF KidsAreOver
<1>13. FieldsTakeTurns'
  <2>1. ASSUME NEW g \in DOMAIN RootFields, NEW h \in DOMAIN RootFields, g < h,
               pc'[1][RootFields[h]] # "idle"
        PROVE  pc'[1][RootFields[g]] = "done" /\ out'[1][RootFields[g]] \in {"value", "null"}
    <3>1. RootFields[g] \in Nodes /\ RootFields[h] \in Nodes /\ g \in Nat /\ h \in Nat
      BY RootFieldsAre, RootFieldsAreNodes
    <3>2. CASE h = j
      <4>1. g = i \/ g < i
        BY <1>1, <2>1, <3>1, <3>2 DEF j
      <4>2. pc[1][RootFields[g]] = "done" /\ out[1][RootFields[g]] \in {"value", "null"}
        BY <1>2, <4>1 DEF ExecInv, FieldsTakeTurns
      <4> QED BY <1>1, <1>2, <1>5, <3>1, <4>2
    <3>3. CASE h # j
      <4>1. RootFields[h] # r
        BY <1>1, <3>3, RootFieldsAre DEF r
      <4>2. pc[1][RootFields[h]] # "idle"
        BY <1>1, <1>p, <2>1, <3>1, <4>1
      <4>3. pc[1][RootFields[g]] = "done" /\ out[1][RootFields[g]] \in {"value", "null"}
        BY <1>2, <2>1, <4>2 DEF ExecInv, FieldsTakeTurns
      <4> QED BY <1>1, <1>2, <1>5, <3>1, <4>3
    <3> QED BY <3>2, <3>3
  <2>2. mode' # "subscription" /\ event' = 1
    BY <1>2 DEF ExecInv, FieldsTakeTurns, Serial
  <2> QED BY <2>1, <2>2 DEF FieldsTakeTurns
<1> QED BY <1>2, <1>6, <1>7, <1>8, <1>9, <1>10, <1>11, <1>12, <1>13, QuietKeeps DEF ExecInv

\* The current event is answered: its root's fields are over, and a root with a
\* value has fields that allow it.
Answers(o) ==
  /\ pc[event][Root] = "joining"
  /\ o \in {"value", "null"} \cup Escapes
  /\ \A k \in Kids(Root) : ~Unfinished(event, k)
  /\ o = "value" /\ mode # "subscription" => \A k \in Kids(Root) : out[event][k] \in {"value", "null"}
  /\ o = "null" => \E k \in Kids(Root) : out[event][k] = "bubble"
  /\ mode = "subscription" /\ o \notin Escapes => out[event][RootFields[1]] # "cancelled"
  /\ Respond(o)

LEMMA AnswersKeep ==
  ASSUME ExecInv, NEW o \in {"value", "null"} \cup Escapes, Answers(o)
  PROVE  ExecInv'
<1>t. TypeOK /\ event \in Events /\ Root \in Nodes /\ o \in Outs \ {"none", "bubble"}
  BY TreeAssumption DEF ExecInv, TypeOK, Outs, Escapes
<1>1. /\ Finish(event, Root, o) /\ mode' = mode /\ nonNull' = nonNull /\ event' = event
      /\ void' = void /\ errors' = errors
      /\ pc[event][Root] = "joining"
      /\ \A k \in Kids(Root) : ~Unfinished(event, k)
      /\ o = "value" /\ mode # "subscription" => \A k \in Kids(Root) : out[event][k] \in {"value", "null"}
      /\ mode = "subscription" /\ o \notin Escapes => out[event][RootFields[1]] # "cancelled"
  BY DEF Answers, Respond
<1> DEFINE told == {en \in Events \X Nodes : errors[en] > 0}
           answer == IF o \in Escapes THEN [kind |-> "raised", errors |-> {}]
                     ELSE [kind |-> "result", errors |-> told]
<1>2. response' = [response EXCEPT ![event] = answer]
  BY DEF Answers, Respond
<1>3. /\ answer \in [kind : {"none", "raised", "result"}, errors : SUBSET (Events \X Nodes)]
      /\ answer.kind # "none" /\ (answer.kind = "result" <=> o \notin Escapes)
      /\ answer.errors \subseteq told
      /\ answer.kind = "result" => answer.errors = told
  OBVIOUS
<1> HIDE DEF answer
<1>4. response \in [Events -> [kind : {"none", "raised", "result"}, errors : SUBSET (Events \X Nodes)]]
  BY <1>t DEF TypeOK
<1>r. \A f \in Events : response'[f] = IF f = event THEN answer ELSE response[f]
  BY <1>2, <1>4
<1>s. \A f \in Events : Responded(f)' => IF f = event THEN o \notin Escapes ELSE Responded(f)
  BY <1>r, <1>3 DEF Responded
<1>5. response' \in [Events -> [kind : {"none", "raised", "result"}, errors : SUBSET (Events \X Nodes)]]
  BY <1>2, <1>3, <1>4
<1>6. /\ pc' \in [Events -> [Nodes -> {"idle", "running", "joining", "done"}]]
      /\ out' \in [Events -> [Nodes -> Outs]]
  BY <1>t, <1>1, FinishIs
<1>p. \A f \in Events, m \in Nodes : pc'[f][m] = IF f = event /\ m = Root THEN "done" ELSE pc[f][m]
  BY <1>t, <1>1, FinishIs
<1>o. \A f \in Events, m \in Nodes : out'[f][m] = IF f = event /\ m = Root THEN o ELSE out[f][m]
  BY <1>t, <1>1, FinishIs
<1>7. out[event][Root] = "none" /\ Root \notin void[event]
  BY <1>t, <1>1 DEF ExecInv, OutsOfDone, VoidsAreNull, IsNull
<1>8. Keeps
  BY <1>p, <1>o, <1>1, <1>7 DEF Keeps
<1>9. \A f \in Events, m \in Nodes : Orphan(f, m) => Orphan(f, m)'
  BY <1>8, OrphansStay
<1>10. TypeOK'
  BY <1>t, <1>1, <1>5, <1>6 DEF TypeOK
<1>11. NothingBefore'
  <2>1. ~(event > event)
    BY <1>t DEF Events
  <2> QED BY <1>p, <1>r, <1>1, <2>1 DEF ExecInv, NothingBefore
<1>12. OutsOfDone'
  BY <1>p, <1>o, <1>t DEF ExecInv, OutsOfDone
<1>13. RootAnswers'
  <2>1. RootFields[1] \in Nodes \ {Root}
    BY RootFieldsAre, RootFieldsAreNodes
  <2>2. ASSUME NEW f \in Events
        PROVE  /\ pc'[f][Root] # "running"
               /\ pc'[f][Root] = "done" <=> response'[f].kind # "none"
               /\ f < event => Responded(f)'
               /\ Responded(f)' => /\ out'[f][Root] \notin Escapes
                                   /\ mode = "subscription" => out'[f][RootFields[1]] # "cancelled"
    <3>1. CASE f = event
      <4>1. pc'[f][Root] = "done" /\ response'[f] = answer /\ out'[f][Root] = o
            /\ out'[f][RootFields[1]] = out[f][RootFields[1]] /\ ~(f < event)
        BY <3>1, <1>p, <1>o, <1>r, <1>t, <2>1 DEF Events
      <4> QED BY <4>1, <3>1, <1>1, <1>3, <1>s
    <3>2. CASE f # event
      <4>1. /\ pc'[f][Root] = pc[f][Root] /\ response'[f] = response[f] /\ out'[f][Root] = out[f][Root]
            /\ out'[f][RootFields[1]] = out[f][RootFields[1]]
        BY <3>2, <1>p, <1>o, <1>r, <1>t, <2>1
      <4> QED BY <4>1 DEF ExecInv, RootAnswers, Responded
    <3> QED BY <3>1, <3>2
  <2> QED BY <1>1, <2>2 DEF RootAnswers
<1>14. ParentsFirst'
  BY <1>p, <1>1, ParentIsNode DEF ExecInv, ParentsFirst
<1>15. KidsAreOver'
  <2>1. \A f \in Events, m \in Nodes : PassedOn(f, m) => PassedOn(f, m)'
    BY <1>8, PassedOnStays
  <2>2. \A f \in Events, m \in Nodes : ~Unfinished(f, m) => ~Unfinished(f, m)'
    BY <1>p DEF Unfinished
  <2>3. ASSUME NEW f \in Events, NEW m \in Nodes, pc'[f][m] = "done"
        PROVE  PassedOn(f, m)' \/ \A k \in Kids(m) : ~Unfinished(f, k)'
    <3>1. CASE f = event /\ m = Root
      BY <1>1, <2>2, <3>1, KidsAre
    <3>2. CASE ~(f = event /\ m = Root)
      <4>1. pc[f][m] = "done"
        BY <1>p, <2>3, <3>2
      <4> QED BY <4>1, <2>1, <2>2, KidsAre DEF ExecInv, KidsAreOver
    <3> QED BY <3>1, <3>2
  <2> QED BY <2>3 DEF KidsAreOver
<1>16. FieldsTakeTurns'
  <2>1. \A f \in Events : \A m \in Nodes \ {Root} : pc'[f][m] = pc[f][m] /\ out'[f][m] = out[f][m]
    BY <1>p, <1>o
  <2>2. Kids(Root) \subseteq Nodes \ {Root}
    BY KidsAre, <1>t
  <2> QED BY <1>1, <2>1, <2>2, RootFieldsAreNodes DEF ExecInv, FieldsTakeTurns, Serial
<1>17. VoidsAreNull'
  BY <1>1, <1>o, <1>t, <1>7 DEF ExecInv, VoidsAreNull, IsNull, TypeOK
<1>18. ValuesAreSound'
  <2>1. \A m \in Nodes : Kids(m) \subseteq Nodes \ {Root}
    BY KidsAre
  <2>2. ASSUME NEW f \in Events, NEW m \in Nodes, out'[f][m] = "value", mode = "subscription" => m # Root
        PROVE  \A k \in Kids(m) : out'[f][k] \in {"value", "null"}
    <3>1. CASE f = event /\ m = Root
      BY <1>1, <1>o, <2>1, <2>2, <3>1
    <3>2. CASE ~(f = event /\ m = Root)
      <4>1. out[f][m] = "value"
        BY <1>o, <2>2, <3>2
      <4>2. \A k \in Kids(m) : out[f][k] \in {"value", "null"}
        BY <2>2, <4>1 DEF ExecInv, ValuesAreSound
      <4> QED BY <1>o, <2>1, <4>2
    <3> QED BY <3>1, <3>2
  <2> QED BY <1>1, <2>2 DEF ValuesAreSound
<1>19. OneErrorPerFault'
  BY <1>1 DEF ExecInv, OneErrorPerFault
<1>20. ErrorsOfNow'
  BY <1>1, <1>9 DEF ExecInv, ErrorsOfNow
<1>21. BubblesAreTold'
  <2>1. \A m \in Nodes : out'[event][m] = "bubble" => out[event][m] = "bubble"
    BY <1>o, <1>t
  <2> QED BY <1>1, <2>1 DEF ExecInv, BubblesAreTold
<1>22. LeaksAreOrphans'
  <2>1. \A f \in Events : response[f].errors \subseteq Events \X Nodes
    BY <1>4
  <2>2. ASSUME NEW f \in Events, Responded(f)', NEW en \in response'[f].errors, en[1] # f
        PROVE  Orphan(en[1], en[2])'
    <3>1. en \in Events \X Nodes /\ en[1] \in Events /\ en[2] \in Nodes /\ en = <<en[1], en[2]>>
      BY <1>r, <1>3, <2>1, <2>2
    <3>2. CASE f = event
      <4>1. errors[<<en[1], en[2]>>] > 0
        BY <1>r, <1>3, <2>2, <3>1, <3>2
      <4>2. Orphan(en[1], en[2])
        BY <2>2, <3>1, <3>2, <4>1 DEF ExecInv, ErrorsOfNow
      <4> QED BY <1>9, <3>1, <4>2
    <3>3. CASE f # event
      <4>1. Responded(f) /\ en \in response[f].errors
        BY <1>r, <1>s, <2>2, <3>3
      <4>2. Orphan(en[1], en[2])
        BY <2>2, <4>1 DEF ExecInv, LeaksAreOrphans
      <4> QED BY <1>9, <3>1, <4>2
    <3> QED BY <3>2, <3>3
  <2> QED BY <2>2 DEF LeaksAreOrphans
<1>23. NullsAreExplained'
  <2>1. ASSUME NEW f \in Events, Responded(f)', NEW m \in Nodes, Bubbled(f, m)'
        PROVE  \E d \in Within(m) : <<f, d>> \in response'[f].errors \/ d \in BlankLeaves \cap void'[f]
    <3>1. Bubbled(f, m)
      BY <1>o, <1>9, <1>t, <2>1 DEF Bubbled
    <3>2. CASE f # event
      BY <1>r, <1>s, <1>1, <2>1, <3>1, <3>2 DEF ExecInv, NullsAreExplained
    <3>3. CASE f = event
      <4>1. PICK d \in Within(m) : errors[<<event, d>>] > 0 \/ d \in BlankLeaves \cap void[event]
        BY <3>1, <3>3 DEF ExecInv, BubblesAreTold, Bubbled
      <4>2. response'[f].errors = told
        BY <1>r, <1>s, <1>3, <2>1, <3>3
      <4>3. d \in Nodes
        BY DEF Within
      <4> QED BY <1>t, <1>1, <3>3, <4>1, <4>2, <4>3
    <3> QED BY <3>2, <3>3
  <2> QED BY <2>1 DEF NullsAreExplained
<1> QED BY <1>10, <1>11, <1>12, <1>13, <1>14, <1>15, <1>16, <1>17, <1>18, <1>19, <1>20, <1>21, <1>22, <1>23
        DEF ExecInv

LEMMA JoinQueryIs ==
  ASSUME ExecInv, JoinQuery
  PROVE  \E o \in {"value", "null"} \cup Escapes : Answers(o)
<1>1. /\ mode = "query" /\ event = 1 /\ 1 \in Events /\ Root \in Nodes /\ ~Serial
      /\ pc[1][Root] = "joining" /\ AllDone(1, Root)
  BY RootFieldsAreNodes, TreeAssumption DEF JoinQuery, ExecInv, FieldsTakeTurns, Serial
<1>2. KidsToJoin(Root) = Kids(Root) /\ Kids(Root) \subseteq Nodes
  BY <1>1, KidsAre DEF KidsToJoin, RootKids
<1>3. \A k \in Kids(Root) : /\ ~Unfinished(1, k) /\ out[1][k] \in KidOuts(1, Root)
                            /\ out[1][k] \in Outs \ {"none"}
  BY <1>1, <1>2, OutsAre DEF AllDone, KidOuts, Unfinished, ExecInv, OutsOfDone
<1>4. ASSUME NEW o \in {"value", "null"} \cup Escapes, Respond(o),
             o = "value" => \A k \in Kids(Root) : out[event][k] \in {"value", "null"},
             o = "null" => \E k \in Kids(Root) : out[event][k] = "bubble"
      PROVE  Answers(o)
  BY <1>1, <1>3, <1>4 DEF Answers
<1>5. CASE \E exc \in Escapes \cap KidOuts(1, Root) : Respond(exc)
  BY <1>4, <1>5 DEF Escapes
<1>6. CASE /\ Escapes \cap KidOuts(1, Root) = {}
           /\ Respond(IF "bubble" \in KidOuts(1, Root) THEN "null" ELSE "value")
  <2>1. CASE "bubble" \in KidOuts(1, Root)
    <3>1. \E k \in Kids(Root) : out[event][k] = "bubble"
      BY <1>1, <1>2, <2>1 DEF KidOuts
    <3> QED BY <1>4, <1>6, <2>1, <3>1
  <2>2. CASE "bubble" \notin KidOuts(1, Root)
    <3>1. \A k \in Kids(Root) : out[event][k] \in {"value", "null"}
      BY <1>1, <1>3, <1>6, <2>2 DEF Outs, Escapes
    <3> QED BY <1>4, <1>6, <2>2, <3>1
  <2> QED BY <2>1, <2>2
<1> QED BY <1>5, <1>6 DEF JoinQuery

LEMMA SerialStepIs ==
  ASSUME ExecInv, NEW i \in DOMAIN RootFields, SerialStep(i)
  PROVE  StartsNext(i) \/ \E o \in {"value", "null"} \cup Escapes : Answers(o)
<1> DEFINE oi == out[1][RootFields[i]]
<1>1. /\ Serial /\ mode # "subscription" /\ event = 1 /\ 1 \in Events
      /\ pc[1][Root] = "joining" /\ pc[1][RootFields[i]] = "done"
      /\ i < Len(RootFields) => pc[1][RootFields[i + 1]] = "idle"
  BY RootFieldsAreNodes DEF SerialStep, ExecInv, FieldsTakeTurns, Serial
<1>2. i \in Nat /\ Len(RootFields) \in Nat /\ DOMAIN RootFields = 1..Len(RootFields)
  BY RootFieldsAre
<1>3. ASSUME NEW g \in DOMAIN RootFields
      PROVE  /\ g < i => out[1][RootFields[g]] \in {"value", "null"}
             /\ ~Unfinished(1, RootFields[g])
  <2>1. CASE g < i
    BY <1>1, <2>1 DEF ExecInv, FieldsTakeTurns, Unfinished
  <2>2. CASE g = i
    BY <1>1, <1>2, <2>2 DEF Unfinished
  <2>3. CASE i < g
    <3>1. i < Len(RootFields) /\ i + 1 \in DOMAIN RootFields /\ (g = i + 1 \/ i + 1 < g)
      BY <1>2, <2>3
    <3>2. pc[1][RootFields[i + 1]] = "idle"
      BY <1>1, <3>1
    <3>3. pc[1][RootFields[g]] = "idle"
      BY <1>1, <3>1, <3>2 DEF ExecInv, FieldsTakeTurns
    <3> QED BY <1>2, <2>3, <3>3 DEF Unfinished
  <2> QED BY <1>2, <2>1, <2>2, <2>3
<1>4. \A k \in Kids(Root) : ~Unfinished(1, k)
  BY <1>3, RootFieldsAre
<1>5. ASSUME NEW o \in {"null"} \cup Escapes, Respond(o), o = "null" => oi = "bubble" PROVE Answers(o)
  BY <1>1, <1>4, <1>5, RootFieldsAreNodes DEF Answers, Escapes
<1>6. CASE oi \in Escapes /\ Respond(oi)
  BY <1>5, <1>6 DEF Escapes
<1>7. CASE oi = "bubble" /\ Respond("null")
  BY <1>5, <1>7
<1>8. CASE oi \in {"value", "null"} /\ i = Len(RootFields) /\ Respond("value")
  <2>1. \A k \in Kids(Root) : out[event][k] \in {"value", "null"}
    <3>1. ASSUME NEW g \in DOMAIN RootFields PROVE out[event][RootFields[g]] \in {"value", "null"}
      <4>1. g < i \/ g = i
        BY <1>2, <1>8
      <4> QED BY <1>1, <1>3, <1>8, <4>1
    <3> QED BY <3>1, RootFieldsAre
  <2>2. Answers("value")
    BY <1>1, <1>4, <1>8, <2>1 DEF Answers
  <2> QED BY <2>2
<1>9. CASE /\ oi \in {"value", "null"} /\ i < Len(RootFields)
           /\ pc' = [pc EXCEPT ![1][RootFields[i + 1]] = "running"]
           /\ UNCHANGED <<mode, nonNull, event, out, void, errors, response>>
  BY <1>1, <1>9 DEF StartsNext
<1> QED BY <1>6, <1>7, <1>8, <1>9 DEF SerialStep

LEMMA JoinEventIs ==
  ASSUME ExecInv, JoinEvent
  PROVE  \E o \in {"value", "null"} \cup Escapes : Answers(o)
<1> DEFINE first == out[event][RootFields[1]]
<1>1. mode = "subscription" /\ event \in Events /\ pc[event][Root] = "joining" /\ AllDone(event, Root)
  BY DEF JoinEvent, ExecInv, TypeOK
<1>2. pc[event][RootFields[1]] = "done"
  BY <1>1 DEF AllDone, KidsToJoin, RootKids
<1>3. \A k \in Kids(Root) : ~Unfinished(event, k)
  BY <1>1, <1>2 DEF ExecInv, FieldsTakeTurns, Unfinished
<1>4. CASE first = "cancelled"
  <2>1. Respond("cancelled")
    BY <1>4 DEF JoinEvent
  <2>2. Answers("cancelled")
    BY <1>1, <1>3, <2>1 DEF Answers, Escapes
  <2> QED BY <2>2 DEF Escapes
<1>5. CASE first # "cancelled"
  <2>1. Respond("value")
    BY <1>5 DEF JoinEvent
  <2>2. Answers("value")
    BY <1>1, <1>3, <1>5, <2>1 DEF Answers
  <2> QED BY <2>2
<1> QED BY <1>4, <1>5

LEMMA StartedTreeIs ==
  /\ StartedTree \in [Nodes -> {"idle", "running", "joining", "done"}]
  /\ StartedTree[Root] = "joining"
  /\ \A n \in Nodes \ {Root} : /\ StartedTree[n] \in {"idle", "running"}
                               /\ StartedTree[n] # "idle" => n \in FirstFields /\ Parent[n] = Root
<1>1. FirstFields \subseteq Kids(Root)
  BY RootFieldsAre DEF FirstFields, RootKids
<1>2. Root \in Nodes
  BY TreeAssumption
<1>3. \A k \in FirstFields : Parent[k] = Root
  BY <1>1, <1>2, KidsAre
<1> QED BY <1>2, <1>3 DEF StartedTree

LEMMA NextEventKeeps ==
  ASSUME ExecInv, NextEvent
  PROVE  ExecInv'
<1> DEFINE next == event + 1
<1>1. /\ mode = "subscription" /\ event < MaxEvents /\ Responded(event)
      /\ event' = event + 1 /\ mode' = mode /\ nonNull' = nonNull
      /\ out' = out /\ void' = void /\ response' = response
      /\ pc' = [pc EXCEPT ![event + 1] = StartedTree]
  BY DEF NextEvent, Responded
<1>2. TypeOK /\ event \in Nat \ {0} /\ event \in Events /\ event + 1 \in Events /\ Root \in Nodes
      /\ Events \subseteq Nat
  <2>1. MaxEvents \in Nat
    BY TreeAssumption
  <2> QED BY <1>1, <2>1, TreeAssumption DEF ExecInv, TypeOK, Events
<1>3. next \in Events /\ event' = next /\ next > event
  BY <1>1, <1>2
<1>4. pc \in [Events -> [Nodes -> {"idle", "running", "joining", "done"}]]
  BY <1>2 DEF TypeOK
<1>5. pc' \in [Events -> [Nodes -> {"idle", "running", "joining", "done"}]]
  BY <1>1, <1>4, StartedTreeIs
<1>p. \A f \in Events : pc'[f] = IF f = next THEN StartedTree ELSE pc[f]
  BY <1>1, <1>3, <1>4
<1>e. errors' = NoErrors
  BY DEF NextEvent, ResetErrors
<1>z. \A f \in Events, m \in Nodes : errors'[<<f, m>>] = 0
  BY <1>e DEF NoErrors
<1>6. \A f \in Events : f < next => f < event \/ f = event
  BY <1>2
<1>7. \A f \in Events : f > next => f > event
  BY <1>2
<1> HIDE DEF next
<1>8. \A m \in Nodes : pc[next][m] = "idle" /\ m \notin void[next] /\ response[next] = NoResponse
  BY <1>3 DEF ExecInv, NothingBefore
<1>9. \A f \in Events, m \in Nodes : pc'[f][m] = "done" <=> pc[f][m] = "done"
  BY <1>p, <1>8, StartedTreeIs
<1>10. Keeps
  BY <1>1, <1>9 DEF Keeps
<1>11. \A f \in Events, m \in Nodes : Orphan(f, m) => Orphan(f, m)'
  BY <1>10, OrphansStay
<1>12. TypeOK'
  <2>1. errors' \in [Events \X Nodes -> Nat]
    BY <1>e DEF NoErrors
  <2> QED BY <1>1, <1>2, <1>5, <2>1 DEF TypeOK
<1>13. NothingBefore'
  <2>1. ASSUME NEW f \in Events, NEW m \in Nodes, f > event'
        PROVE  pc'[f][m] = "idle" /\ m \notin void'[f] /\ response'[f] = NoResponse
    <3>1. f > event /\ f # next
      BY <1>2, <1>3, <1>7, <2>1
    <3> QED BY <1>1, <1>p, <3>1 DEF ExecInv, NothingBefore
  <2> QED BY <2>1 DEF NothingBefore
<1>14. OutsOfDone'
  BY <1>1, <1>9 DEF ExecInv, OutsOfDone
<1>15. RootAnswers'
  <2>1. ASSUME NEW f \in Events PROVE pc'[f][Root] # "running" /\ (pc'[f][Root] = "done" <=> response[f].kind # "none")
    <3>1. CASE f = next
      BY <1>2, <1>p, <1>8, <3>1, StartedTreeIs DEF NoResponse
    <3>2. CASE f # next
      BY <1>p, <3>2 DEF ExecInv, RootAnswers
    <3> QED BY <3>1, <3>2
  <2>2. \A f \in Events : f < event' => Responded(f)
    BY <1>1, <1>3, <1>6 DEF ExecInv, RootAnswers
  <2> QED BY <1>1, <2>1, <2>2 DEF ExecInv, RootAnswers, Responded
<1>16. ParentsFirst'
  <2>1. ASSUME NEW f \in Events, NEW m \in Nodes \ {Root}, pc'[f][m] # "idle"
        PROVE  pc'[f][Parent[m]] \in {"joining", "done"}
    <3>1. CASE f = next
      BY <1>p, <2>1, <3>1, StartedTreeIs
    <3>2. CASE f # next
      BY <1>p, <2>1, <3>2 DEF ExecInv, ParentsFirst
    <3> QED BY <3>1, <3>2
  <2> QED BY <2>1 DEF ParentsFirst
<1>17. KidsAreOver'
  <2>1. ASSUME NEW f \in Events, NEW m \in Nodes, pc'[f][m] = "done"
        PROVE  PassedOn(f, m)' \/ \A k \in Kids(m) : ~Unfinished(f, k)'
    <3>1. pc[f][m] = "done" /\ f # next /\ pc'[f] = pc[f]
      BY <1>p, <1>8, <1>9, <2>1
    <3>2. PassedOn(f, m) => PassedOn(f, m)'
      BY <1>10, PassedOnStays
    <3> QED BY <3>1, <3>2 DEF ExecInv, KidsAreOver, Unfinished
  <2> QED BY <2>1 DEF KidsAreOver
<1>18. FieldsTakeTurns'
  <2>1. ASSUME NEW f \in Events, NEW k \in Kids(Root)
        PROVE  (k # RootFields[1] => pc'[f][k] = "idle") /\ out'[f][k] # "exception"
    <3>1. k \in Nodes \ {Root}
      BY KidsAre, <1>2
    <3>2. out[f][k] # "exception" /\ (k # RootFields[1] => pc[f][k] = "idle")
      BY <1>1 DEF ExecInv, FieldsTakeTurns
    <3>3. k # RootFields[1] => StartedTree[k] = "idle"
      BY <1>1, <3>1, StartedTreeIs DEF FirstFields, RootKids, Serial
    <3> QED BY <1>1, <1>p, <3>2, <3>3
  <2> QED BY <1>1, <2>1 DEF FieldsTakeTurns, Serial
<1>19. VoidsAreNull' /\ ValuesAreSound'
  BY <1>1 DEF ExecInv, VoidsAreNull, ValuesAreSound, IsNull
<1>20. ErrorsOfNow' /\ OneErrorPerFault'
  BY <1>z DEF ErrorsOfNow, OneErrorPerFault
<1>21. BubblesAreTold'
  <2>1. \A m \in Nodes : out'[event'][m] = "none"
    BY <1>1, <1>3, <1>8 DEF ExecInv, OutsOfDone
  <2> QED BY <2>1 DEF BubblesAreTold
<1>22. LeaksAreOrphans'
  <2>1. \A f \in Events : response[f].errors \subseteq Events \X Nodes
    BY <1>2 DEF TypeOK
  <2>2. ASSUME NEW f \in Events, Responded(f), NEW en \in response[f].errors, en[1] # f
        PROVE  Orphan(en[1], en[2])'
    <3>1. en[1] \in Events /\ en[2] \in Nodes /\ Orphan(en[1], en[2])
      BY <2>1, <2>2 DEF ExecInv, LeaksAreOrphans
    <3> QED BY <1>11, <3>1
  <2> QED BY <1>1, <2>2 DEF LeaksAreOrphans, Responded
<1>23. NullsAreExplained'
  <2>1. ASSUME NEW f \in Events, NEW m \in Nodes, Bubbled(f, m)' PROVE Bubbled(f, m)
    BY <1>1, <1>11, <2>1 DEF Bubbled
  <2> QED BY <1>1, <2>1 DEF ExecInv, NullsAreExplained, Responded
<1> QED BY <1>12, <1>13, <1>14, <1>15, <1>16, <1>17, <1>18, <1>19, <1>20, <1>21, <1>22, <1>23 DEF ExecInv

-----------------------------------------------------------------------------
(* The theorems.                                                           *)

LEMMA InitHolds == Init => ExecInv
<1> SUFFICES ASSUME Init PROVE ExecInv
  OBVIOUS
<1>1. /\ event = 1 /\ 1 \in Events /\ MaxEvents \in Nat \ {0} /\ Root \in Nodes
      /\ [mode |-> mode, nonNull |-> nonNull] \in Operations
  <2>1. MaxEvents \in Nat \ {0} /\ Root \in Nodes /\ 1 \in Events
    BY RootFieldsAreNodes, TreeAssumption
  <2>2. \A op \in Operations : mode = op.mode /\ nonNull = op.nonNull
                                => [mode |-> mode, nonNull |-> nonNull] \in Operations
    BY TreeAssumption
  <2> QED BY <2>1, <2>2 DEF Init
<1>2. /\ pc \in [Events -> [Nodes -> {"idle", "running", "joining", "done"}]]
      /\ \A f \in Events : pc[f] = IF f = 1 THEN StartedTree ELSE [n \in Nodes |-> "idle"]
  BY StartedTreeIs DEF Init
<1>3. \A f \in Events, m \in Nodes : /\ out[f][m] = "none" /\ m \notin void[f]
                                     /\ errors[<<f, m>>] = 0 /\ response[f] = NoResponse
  BY DEF Init, NoErrors
<1>r. \A f \in Events : response[f] = NoResponse
  BY DEF Init
<1>4. \A f \in Events, m \in Nodes : pc[f][m] \notin {"done"} /\ (f > 1 => pc[f][m] = "idle")
  <2>1. \A f \in Events : f > 1 => f # 1
    BY DEF Events
  <2> QED BY <1>2, <2>1, StartedTreeIs
<1>5. TypeOK
  <2>1. out \in [Events -> [Nodes -> Outs]] /\ void \in [Events -> SUBSET Nodes]
    BY DEF Init, Outs
  <2>2. errors \in [Events \X Nodes -> Nat]
    BY DEF Init, NoErrors
  <2>3. response \in [Events -> [kind : {"none", "raised", "result"}, errors : SUBSET (Events \X Nodes)]]
    BY DEF Init, NoResponse
  <2> QED BY <1>1, <1>2, <2>1, <2>2, <2>3 DEF TypeOK
<1>6. \A f \in Events : ~Responded(f) /\ response[f].kind = "none"
  BY <1>r DEF Responded, NoResponse
<1>7. NothingBefore /\ OutsOfDone /\ VoidsAreNull /\ ValuesAreSound
  <2>1. NothingBefore
    BY <1>1, <1>3, <1>4 DEF NothingBefore
  <2>2. OutsOfDone
    BY <1>3, <1>4 DEF OutsOfDone
  <2>3. VoidsAreNull
    BY <1>3, <1>5 DEF VoidsAreNull, TypeOK
  <2>4. ValuesAreSound
    BY <1>3 DEF ValuesAreSound
  <2> QED BY <2>1, <2>2, <2>3, <2>4
<1>8. RootAnswers
  <2>1. \A f \in Events : pc[f][Root] # "running" /\ ~(f < event)
    BY <1>1, <1>2, StartedTreeIs DEF Events
  <2> QED BY <1>1, <1>4, <1>6, <2>1 DEF RootAnswers
<1>9. ParentsFirst
  <2>1. ASSUME NEW f \in Events, NEW m \in Nodes \ {Root}, pc[f][m] # "idle"
        PROVE  pc[f][Parent[m]] \in {"joining", "done"}
    BY <1>2, <2>1, StartedTreeIs
  <2> QED BY <2>1 DEF ParentsFirst
<1>10. KidsAreOver
  BY <1>4 DEF KidsAreOver
<1>11. FieldsTakeTurns
  <2>1. ASSUME Serial, NEW i \in DOMAIN RootFields, NEW j \in DOMAIN RootFields, i < j
        PROVE  pc[1][RootFields[j]] = "idle"
    <3>1. RootFields[j] # RootFields[1] /\ RootFields[j] \in Nodes \ {Root}
      BY <2>1, RootFieldsAre, RootFieldsAreNodes
    <3> QED BY <1>1, <1>2, <2>1, <3>1, StartedTreeIs DEF FirstFields
  <2>2. ASSUME mode = "subscription", NEW f \in Events, NEW k \in Kids(Root)
        PROVE  (k # RootFields[1] => pc[f][k] = "idle") /\ out[f][k] # "exception"
    <3>1. k \in Nodes \ {Root}
      BY KidsAre, <1>1
    <3>2. k # RootFields[1] => StartedTree[k] = "idle"
      BY <2>2, <3>1, StartedTreeIs DEF FirstFields, RootKids, Serial
    <3>3. out[f][k] # "exception"
      BY <1>3, <2>2, <3>1
    <3>4. k # RootFields[1] => pc[f][k] = "idle"
      BY <1>2, <2>2, <3>1, <3>2
    <3> QED BY <3>3, <3>4
  <2> QED BY <1>1, <2>1, <2>2 DEF FieldsTakeTurns
<1>12. ErrorsOfNow /\ OneErrorPerFault
  BY <1>3 DEF ErrorsOfNow, OneErrorPerFault
<1>13. BubblesAreTold
  BY <1>1, <1>3 DEF BubblesAreTold
<1>14. LeaksAreOrphans /\ NullsAreExplained
  BY <1>6 DEF LeaksAreOrphans, NullsAreExplained
<1> QED BY <1>5, <1>7, <1>8, <1>9, <1>10, <1>11, <1>12, <1>13, <1>14 DEF ExecInv

\* One lemma per action, put together.
LEMMA StepKeeps == ExecInv /\ [Next]_vars => ExecInv'
<1> SUFFICES ASSUME ExecInv, [Next]_vars PROVE ExecInv'
  OBVIOUS
<1>1. ASSUME NEW e \in Events, NEW n \in Nodes, Complete(e, n) PROVE ExecInv'
  BY <1>1, CompleteIs, EndsKeeps, OpensKeeps
<1>2. CASE JoinQuery
  BY <1>2, JoinQueryIs, AnswersKeep
<1>3. ASSUME NEW i \in DOMAIN RootFields, SerialStep(i) PROVE ExecInv'
  BY <1>3, SerialStepIs, StartsNextKeeps, AnswersKeep
<1>4. CASE JoinEvent
  BY <1>4, JoinEventIs, AnswersKeep
<1>5. CASE NextEvent
  BY <1>5, NextEventKeeps
<1>6. CASE UNCHANGED vars
  <2>1. UNCHANGED <<mode, nonNull, event, pc, out, void, errors, response>>
    BY <1>6 DEF vars
  <2>2. TypeOK' /\ NothingBefore' /\ OutsOfDone' /\ RootAnswers' /\ ParentsFirst' /\ FieldsTakeTurns'
    BY <2>1 DEF ExecInv, TypeOK, NothingBefore, OutsOfDone, RootAnswers, ParentsFirst, FieldsTakeTurns,
                Responded, Serial
  <2>3. Keeps
    BY <2>1 DEF Keeps
  <2>4. KidsAreOver'
    BY <2>1, <2>3, PassedOnStays DEF ExecInv, KidsAreOver, Unfinished
  <2> QED BY <2>1, <2>2, <2>3, <2>4, QuietKeeps DEF ExecInv
<1> QED BY <1>1, <1>2, <1>3, <1>4, <1>5, <1>6 DEF Next

THEOREM ExecutorInvariant == Spec => []ExecInv
BY InitHolds, StepKeeps, PTL DEF Spec

\* Type correctness.
THEOREM TypeCorrect == Spec => []TypeOK
<1>1. ExecInv => TypeOK
  BY DEF ExecInv
<1> QED BY <1>1, ExecutorInvariant, PTL

\* _record is called once per fault: no position on the way up reports the null it
\* passes on.
THEOREM FaultsAreReportedOnce == Spec => []OneErrorPerFault
<1>1. ExecInv => OneErrorPerFault
  BY DEF ExecInv
<1> QED BY <1>1, ExecutorInvariant, PTL

\* execute_operation awaits the fields of a mutation one after the other; what else
\* runs is an item that a failed list left behind.
THEOREM FieldsOfMutationsAreSerial == Spec => []MutationsAreSerial
<1>1. ASSUME ExecInv PROVE MutationsAreSerial
  <2>1. ASSUME Serial, NEW i \in DOMAIN RootFields, NEW j \in DOMAIN RootFields,
               NEW n \in Within(RootFields[i]),
               i < j, pc[1][RootFields[j]] # "idle", Unfinished(1, n)
        PROVE  Orphan(1, n)
    <3>1. /\ pc[1][RootFields[i]] = "done" /\ RootFields[i] \in Nodes /\ 1 \in Events
          /\ n \in Nodes /\ (n = RootFields[i] \/ RootFields[i] \in Above[n])
      BY <1>1, <2>1, RootFieldsAreNodes DEF ExecInv, FieldsTakeTurns, Within
    <3>2. RootFields[i] \in Above[n]
      BY <2>1, <3>1 DEF Unfinished
    <3> QED BY <1>1, <2>1, <3>1, <3>2, UnfinishedBelowDone DEF ExecInv
  <2> QED BY <2>1 DEF MutationsAreSerial
<1> QED BY <1>1, ExecutorInvariant, PTL

\* ResetErrors separates the events of a subscription: only an orphan of an earlier
\* event gets an error into a later result.
THEOREM OnlyOrphansLeak == Spec => []LeaksAreOrphans
<1>1. ExecInv => LeaksAreOrphans
  BY DEF ExecInv
<1> QED BY <1>1, ExecutorInvariant, PTL

\* The bubble of _null_or_bubble follows a recorded error, or a leaf that its scalar
\* serialised to None.
THEOREM RefusedNullsAreExplained == Spec => []NullsAreExplained
<1>1. ExecInv => NullsAreExplained
  BY DEF ExecInv
<1> QED BY <1>1, ExecutorInvariant, PTL

-----------------------------------------------------------------------------
(* The null rule.  NullsPropagate needs lists that are non-null when their  *)
(* items are: without that a bubble passes a nullable list (JoinList), and  *)
(* ExecutorNullableLists shows a response the rule does not allow.          *)

LEMMA NotAboveItself == \A n \in Nodes : n \notin Above[n]
<1> DEFINE S == {n \in Nodes \ {Root} : n \in Above[n]}
<1>1. ASSUME S # {} PROVE FALSE
  <2>1. PICK n \in S : Parent[n] \notin S
    BY <1>1, TreeAssumption
  <2>2. Above[n] = {Parent[n]} \cup Above[Parent[n]] /\ Parent[n] \in Nodes
    BY <2>1, AboveKid, ParentIsNode
  <2>3. n \in Above[Parent[n]] /\ Parent[n] \in Above[n]
    BY <2>1, <2>2
  <2>4. Parent[n] \in Above[Parent[n]]
    BY <2>2, <2>3, AboveGoesOn
  <2> QED BY <2>1, <2>2, <2>4, AboveRoot
<1> QED BY <1>1, AboveRoot

\* What is null at a non-null position is null at its parent too.
LEMMA RuleGoesUp ==
  ASSUME NEW e, NEW n \in Nodes, NEW k \in Kids(n), IsNonNull(k), NullByRule(e, k)
  PROVE  NullByRule(e, n)
<1>1. PICK d \in void[e] \cap Within(k) :
        \A m \in ({d} \cup Above[d]) \ ({k} \cup Above[k]) : IsNonNull(m)
  BY DEF NullByRule
<1>2. Above[k] = {n} \cup Above[n] /\ d \in Within(n)
  BY <1>1, KidsAre, WithinKid
<1>3. \A m \in ({d} \cup Above[d]) \ ({n} \cup Above[n]) : IsNonNull(m)
  BY <1>1, <1>2
<1> QED BY <1>1, <1>2, <1>3 DEF NullByRule

\* No position recovers a value.
LEMMA RuleStays ==
  ASSUME NEW e \in Events, NEW n \in Nodes, NullByRule(e, n), void[e] \subseteq void'[e], nonNull' = nonNull
  PROVE  NullByRule(e, n)'
<1>1. PICK d \in void[e] \cap Within(n) :
        \A m \in ({d} \cup Above[d]) \ ({n} \cup Above[n]) : IsNonNull(m)
  BY DEF NullByRule
<1>3. \A m \in ({d} \cup Above[d]) \ ({n} \cup Above[n]) : IsNonNull(m)'
  BY <1>1 DEF IsNonNull
<1> QED BY <1>1, <1>3 DEF NullByRule

NullInv == NullsAreTyped /\ NullsAreByRule

LEMMA EndsKeepsRule ==
  ASSUME StrictLists, ExecInv, NullInv,
         NEW e \in Events, NEW n \in Nodes, NEW o \in Outs, Ends(e, n, o)
  PROVE  NullInv'
<1>1. Ended(e, n, o) /\ n # Root /\ nonNull' = nonNull
  BY EndsIs DEF Ends, ExecInv
<1>o. \A f \in Events, m \in Nodes : out'[f][m] = IF f = e /\ m = n THEN o ELSE out[f][m]
  BY <1>1 DEF Ended
<1>v. \A f \in Events : void[f] \subseteq void'[f]
  BY <1>1 DEF Ended
<1>2. ASSUME o \in {"null", "bubble"}, NEW k \in Kids(n), out[e][k] = "bubble"
      PROVE  IsNonNull(k) /\ NullByRule(e, k) /\ o = NullOrBubble(n)
  <2>1. k \in Nodes \ {Root} /\ Parent[k] = n
    BY KidsAre
  <2>2. IsNonNull(k) /\ NullByRule(e, k)
    BY <1>2, <2>1 DEF NullInv, NullsAreTyped, NullsAreByRule, IsNull
  <2>3. o = NullOrBubble(n) \/ (Shape[n] = "list" /\ o = "bubble")
    BY <1>2 DEF Ends
  <2>4. Shape[n] = "list" => IsNonNull(n)
    BY <1>1, <2>1, <2>2 DEF StrictLists, IsNonNull, ExecInv, TypeOK
  <2> QED BY <2>2, <2>3, <2>4, NullOrBubbleIs
<1>3. ASSUME o \in {"null", "bubble"} PROVE o = NullOrBubble(n) /\ NullByRule(e, n)'
  <2>1. CASE \E k \in Kids(n) : out[e][k] = "bubble"
    <3>1. o = NullOrBubble(n) /\ NullByRule(e, n)
      BY <1>2, <1>3, <2>1, RuleGoesUp
    <3> QED BY <3>1, <1>1, <1>v, RuleStays
  <2>2. CASE ~\E k \in Kids(n) : out[e][k] = "bubble"
    <3>1. o = NullOrBubble(n) /\ void' = [void EXCEPT ![e] = @ \cup {n}]
      BY <1>3, <2>2 DEF Ends
    <3>2. n \in void'[e]
      BY <3>1 DEF ExecInv, TypeOK
    <3>3. NullByRule(e, n)'
      BY <3>2 DEF NullByRule, Within
    <3> QED BY <3>1, <3>3
  <2> QED BY <2>1, <2>2
<1>4. NullsAreTyped'
  BY <1>o, <1>1, <1>3, NullOrBubbleIs DEF NullInv, NullsAreTyped, IsNonNull
<1>5. NullsAreByRule'
  <2>1. ASSUME NEW f \in Events, NEW m \in Nodes, IsNull(f, m)' PROVE NullByRule(f, m)'
    <3>1. CASE f = e /\ m = n
      BY <1>o, <1>3, <2>1, <3>1 DEF IsNull
    <3>2. CASE ~(f = e /\ m = n)
      <4>1. NullByRule(f, m)
        BY <1>o, <2>1, <3>2 DEF IsNull, NullInv, NullsAreByRule
      <4> QED BY <4>1, <1>1, <1>v, RuleStays
    <3> QED BY <3>1, <3>2
  <2> QED BY <2>1 DEF NullsAreByRule
<1> QED BY <1>4, <1>5 DEF NullInv

LEMMA AnswersKeepRule ==
  ASSUME ExecInv, NullInv, NEW o \in {"value", "null"} \cup Escapes, Answers(o)
  PROVE  NullInv'
<1>1. /\ event \in Events /\ Root \in Nodes /\ o \in Outs \ {"bubble"} /\ TypeOK
      /\ Finish(event, Root, o) /\ nonNull' = nonNull /\ void' = void
      /\ o = "null" => \E k \in Kids(Root) : out[event][k] = "bubble"
  BY TreeAssumption DEF ExecInv, TypeOK, Answers, Respond, Outs, Escapes
<1>o. \A f \in Events, m \in Nodes : out'[f][m] = IF f = event /\ m = Root THEN o ELSE out[f][m]
  BY <1>1, FinishIs
<1>2. ASSUME o = "null" PROVE NullByRule(event, Root)
  <2>1. PICK k \in Kids(Root) : out[event][k] = "bubble"
    BY <1>1, <1>2
  <2>2. k \in Nodes
    BY <1>1, <2>1, KidsAre
  <2>3. IsNonNull(k) /\ NullByRule(event, k)
    BY <1>1, <2>1, <2>2 DEF NullInv, NullsAreTyped, NullsAreByRule, IsNull
  <2> QED BY <1>1, <2>1, <2>3, RuleGoesUp
<1>3. NullsAreTyped'
  BY <1>o, <1>1 DEF NullInv, NullsAreTyped, IsNonNull
<1>4. NullsAreByRule'
  <2>1. ASSUME NEW f \in Events, NEW m \in Nodes, IsNull(f, m)' PROVE NullByRule(f, m)'
    <3>1. NullByRule(f, m)
      BY <1>o, <1>1, <1>2, <2>1 DEF IsNull, NullInv, NullsAreByRule
    <3> QED BY <3>1, <1>1, RuleStays
  <2> QED BY <2>1 DEF NullsAreByRule
<1> QED BY <1>3, <1>4 DEF NullInv

LEMMA StepKeepsRule == ASSUME StrictLists PROVE ExecInv /\ NullInv /\ [Next]_vars => NullInv'
<1> SUFFICES ASSUME ExecInv, NullInv, [Next]_vars PROVE NullInv'
  OBVIOUS
<1>0. ASSUME UNCHANGED <<nonNull, out, void>> PROVE NullInv'
  BY <1>0 DEF NullInv, NullsAreTyped, NullsAreByRule, IsNull, IsNonNull, NullByRule
<1>1. ASSUME NEW e \in Events, NEW n \in Nodes, Complete(e, n) PROVE NullInv'
  <2>1. CASE Opens(e, n)
    BY <1>0, <2>1 DEF Opens
  <2> QED BY <1>1, <2>1, CompleteIs, EndsKeepsRule
<1>2. CASE JoinQuery
  BY <1>2, JoinQueryIs, AnswersKeepRule
<1>3. ASSUME NEW i \in DOMAIN RootFields, SerialStep(i) PROVE NullInv'
  <2>1. CASE StartsNext(i)
    BY <1>0, <2>1 DEF StartsNext
  <2> QED BY <1>3, <2>1, SerialStepIs, AnswersKeepRule
<1>4. CASE JoinEvent
  BY <1>4, JoinEventIs, AnswersKeepRule
<1>5. CASE NextEvent
  BY <1>0, <1>5 DEF NextEvent
<1>6. CASE UNCHANGED vars
  BY <1>0, <1>6 DEF vars
<1> QED BY <1>1, <1>2, <1>3, <1>4, <1>5, <1>6 DEF Next

\* What is not a value reaches the first nullable position above it.
LEMMA NullsReachUp ==
  ASSUME ExecInv, NullInv, NEW e \in Events, NEW n \in Nodes, mode = "subscription" => n # Root,
         NullByRule(e, n)
  PROVE  out[e][n] # "value"
<1> SUFFICES ASSUME out[e][n] = "value" PROVE FALSE
  OBVIOUS
<1> DEFINE S == {d \in Within(n) : /\ out[e][d] # "value"
                                   /\ \A m \in ({d} \cup Above[d]) \ ({n} \cup Above[n]) : IsNonNull(m)}
<1>1. S # {}
  BY DEF NullByRule, ExecInv, VoidsAreNull, IsNull
<1>2. S \subseteq Nodes \ {Root} /\ \A d \in S : n \in Above[d]
  BY AboveRoot DEF Within
<1>3. PICK d \in S : Parent[d] \notin S
  BY <1>1, <1>2, TreeAssumption
<1> DEFINE p == Parent[d]
<1>4. p \in Nodes /\ d \in Kids(p) /\ Above[d] = {p} \cup Above[p] /\ n \in Above[d]
  BY <1>2, <1>3, ParentIsNode, AboveKid DEF Kids
<1>5. p \in Within(n) /\ (p = Root => n = Root)
  BY <1>4, AboveRoot DEF Within
<1>6. out[e][p] = "value"
  BY <1>3, <1>4, <1>5
<1>7. out[e][d] = "null"
  BY <1>3, <1>4, <1>5, <1>6 DEF ExecInv, ValuesAreSound
<1>8. d \notin {n} \cup Above[n]
  BY <1>2, <1>3, <1>4, NotAboveItself, AboveGoesOn
<1>9. IsNonNull(d)
  BY <1>3, <1>8
<1> QED BY <1>2, <1>3, <1>7, <1>9 DEF NullInv, NullsAreTyped

LEMMA InvImpliesRule == ExecInv /\ NullInv => NullsPropagate
<1> SUFFICES ASSUME ExecInv, NullInv, NEW e \in Events, Responded(e), NEW n \in Nodes, Visible(e, n),
                    mode = "subscription" => n # Root
             PROVE  IsNull(e, n) <=> NullByRule(e, n)
  BY DEF NullsPropagate
<1>1. IsNull(e, n) => NullByRule(e, n)
  BY DEF NullInv, NullsAreByRule
<1>2. NullByRule(e, n) => out[e][n] # "value"
  BY NullsReachUp
<1>3. out[e][n] \in Outs \ {"none"}
  BY OutsAre DEF Visible, ExecInv, OutsOfDone
<1>4. out[e][n] \notin Escapes
  <2>1. CASE n = Root
    BY <2>1 DEF ExecInv, RootAnswers
  <2>2. CASE n # Root /\ (mode = "subscription" => Parent[n] # Root)
    <3>1. Parent[n] \in Nodes /\ n \in Kids(Parent[n]) /\ out[e][Parent[n]] = "value"
      BY <2>2, ParentIsNode, AboveKid DEF Visible, Kids
    <3> QED BY <2>2, <3>1 DEF ExecInv, ValuesAreSound, Escapes
  <2>3. CASE n # Root /\ mode = "subscription" /\ Parent[n] = Root
    <3>1. n \in Kids(Root)
      BY <2>3 DEF Kids
    <3>2. n = RootFields[1]
      BY <2>3, <3>1 DEF ExecInv, FieldsTakeTurns, Visible
    <3> QED BY <2>3, <3>1, <3>2 DEF ExecInv, FieldsTakeTurns, RootAnswers, Escapes
  <2> QED BY <2>1, <2>2, <2>3
<1> QED BY <1>1, <1>2, <1>3, <1>4 DEF IsNull, Outs, Escapes

\* The data of a response has a null exactly where the null rule of the GraphQL
\* specification puts one, in whatever order _execute_fields and _complete_list saw
\* siblings end; lists of non-null items being non-null themselves.
THEOREM NullsFollowTheRule == ASSUME StrictLists PROVE Spec => []NullsPropagate
<1>1. Init => NullInv
  BY DEF Init, NullInv, NullsAreTyped, NullsAreByRule, IsNull
<1>2. ExecInv /\ NullInv /\ [Next]_vars => NullInv'
  BY StepKeepsRule
<1> QED BY <1>1, <1>2, InvImpliesRule, ExecutorInvariant, PTL DEF Spec
=============================================================================
