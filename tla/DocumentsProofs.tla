--------------------------- MODULE DocumentsProofs ---------------------------
(***************************************************************************)
(* Proofs about Documents.tla, for any schema, documents, variables and    *)
(* bounds.                                                                 *)
(***************************************************************************)
EXTENDS Documents, NaturalsInduction, WellFoundedInduction, SequenceTheorems, TLAPS

LEMMA LeastOf ==
  ASSUME NEW T \in SUBSET Nat, T # {}
  PROVE  \E n \in T : \A m \in T : n <= m
<1>1. IsWellFoundedOn(OpToRel(<, Nat), Nat)
  BY NatLessThanWellFounded
<1>2. PICK n \in T : \A m \in T : ~ (<<m, n>> \in OpToRel(<, Nat))
  BY <1>1, WFMin
<1>3. \A m \in T : ~(m < n)
  BY <1>2 DEF OpToRel
<1> QED BY <1>3

-----------------------------------------------------------------------------
(* What the recursive functions of Validation are at each step.            *)

SetsAfter(sets) == sets \cup UNION {SetsBelow(t) : t \in sets}
WalksAfter(doc, walks) == walks \cup UNION {WalksFrom(doc, w) : w \in walks}
LevelsAfter(doc, levels, n) ==
  levels \cup UNION {LevelsBelow(doc, level) : level \in {l \in levels : l.depth = n - 1}}

\* The selection sets of a document, k levels deep.
SetsUpTo(doc, f, k) == f = [n \in 0..k |-> IF n = 0 THEN Outermost(doc) ELSE SetsAfter(f[n - 1])]

LEMMA SetsExist ==
  ASSUME NEW doc, NEW k \in Nat
  PROVE  \E f : SetsUpTo(doc, f, k)
<1> DEFINE T == {j \in Nat : ~ \E f : SetsUpTo(doc, f, j)}
<1>1. SUFFICES ASSUME T # {} PROVE FALSE
  OBVIOUS
<1>2. PICK j \in T : \A m \in T : j <= m
  BY <1>1, LeastOf
<1>3. j # 0
  <2> DEFINE f == [n \in 0..0 |-> Outermost(doc)]
  <2>1. f = [n \in 0..0 |-> IF n = 0 THEN Outermost(doc) ELSE SetsAfter(f[n - 1])]
    OBVIOUS
  <2>2. SetsUpTo(doc, f, 0)
    BY <2>1 DEF SetsUpTo
  <2> QED BY <2>2
<1>4. j \in Nat /\ j - 1 \in Nat /\ ~(j - 1 \in T)
  BY <1>2, <1>3
<1>5. PICK g : SetsUpTo(doc, g, j - 1)
  BY <1>4
<1>6. \E f : SetsUpTo(doc, f, j)
  <2> DEFINE f == [n \in 0..j |-> IF n = j THEN SetsAfter(g[n - 1]) ELSE g[n]]
  <2>1. \A n \in 0..j : f[n] = IF n = 0 THEN Outermost(doc) ELSE SetsAfter(f[n - 1])
    BY <1>3, <1>4, <1>5 DEF SetsUpTo
  <2>2. f = [n \in 0..j |-> f[n]]
    OBVIOUS
  <2> HIDE DEF f
  <2>3. SetsUpTo(doc, f, j)
    BY <2>1, <2>2 DEF SetsUpTo
  <2> QED BY <2>3
<1> QED BY <1>2, <1>6

LEMMA SetsAre ==
  ASSUME NEW doc
  PROVE  /\ SetsAt(doc)[0] = Outermost(doc)
         /\ \A n \in 1..MaxDepth : SetsAt(doc)[n] = SetsAfter(SetsAt(doc)[n - 1])
<1> DEFINE g == CHOOSE f : SetsUpTo(doc, f, MaxDepth)
<1>1. MaxDepth \in Nat
  BY DepthAssumption
<1>2. SetsUpTo(doc, g, MaxDepth)
  BY <1>1, SetsExist
<1>3. SetsAt(doc) = g
  BY DEF SetsAt, SetsUpTo, SetsAfter
<1> HIDE DEF g
<1> QED BY <1>1, <1>2, <1>3 DEF SetsUpTo

\* The walks down the spreads, k spreads long.
WalksUpTo(doc, f, k) == f = [n \in 0..k |-> IF n = 0 THEN FirstWalks(doc) ELSE WalksAfter(doc, f[n - 1])]

LEMMA WalksExist ==
  ASSUME NEW doc, NEW k \in Nat
  PROVE  \E f : WalksUpTo(doc, f, k)
<1> DEFINE T == {j \in Nat : ~ \E f : WalksUpTo(doc, f, j)}
<1>1. SUFFICES ASSUME T # {} PROVE FALSE
  OBVIOUS
<1>2. PICK j \in T : \A m \in T : j <= m
  BY <1>1, LeastOf
<1>3. j # 0
  <2> DEFINE f == [n \in 0..0 |-> FirstWalks(doc)]
  <2>1. f = [n \in 0..0 |-> IF n = 0 THEN FirstWalks(doc) ELSE WalksAfter(doc, f[n - 1])]
    OBVIOUS
  <2>2. WalksUpTo(doc, f, 0)
    BY <2>1 DEF WalksUpTo
  <2> QED BY <2>2
<1>4. j \in Nat /\ j - 1 \in Nat /\ ~(j - 1 \in T)
  BY <1>2, <1>3
<1>5. PICK g : WalksUpTo(doc, g, j - 1)
  BY <1>4
<1>6. \E f : WalksUpTo(doc, f, j)
  <2> DEFINE f == [n \in 0..j |-> IF n = j THEN WalksAfter(doc, g[n - 1]) ELSE g[n]]
  <2>1. \A n \in 0..j : f[n] = IF n = 0 THEN FirstWalks(doc) ELSE WalksAfter(doc, f[n - 1])
    BY <1>3, <1>4, <1>5 DEF WalksUpTo
  <2>2. f = [n \in 0..j |-> f[n]]
    OBVIOUS
  <2> HIDE DEF f
  <2>3. WalksUpTo(doc, f, j)
    BY <2>1, <2>2 DEF WalksUpTo
  <2> QED BY <2>3
<1> QED BY <1>2, <1>6

LEMMA WalksAre ==
  ASSUME NEW doc
  PROVE  /\ WalksAt(doc)[0] = FirstWalks(doc)
         /\ \A n \in 1..MaxDepth : WalksAt(doc)[n] = WalksAfter(doc, WalksAt(doc)[n - 1])
<1> DEFINE g == CHOOSE f : WalksUpTo(doc, f, MaxDepth)
<1>1. MaxDepth \in Nat
  BY DepthAssumption
<1>2. WalksUpTo(doc, g, MaxDepth)
  BY <1>1, WalksExist
<1>3. WalksAt(doc) = g
  BY DEF WalksAt, WalksUpTo, WalksAfter
<1> HIDE DEF g
<1> QED BY <1>1, <1>2, <1>3 DEF WalksUpTo

\* Field merging on one level, k steps on.
MergeUpTo(doc, entries, parent, f, k) == f = [n \in 0..k |-> IF n = 0 THEN StartMerge(entries) ELSE MergeStep(doc, parent, f[n - 1])]

LEMMA MergeExist ==
  ASSUME NEW doc, NEW entries, NEW parent, NEW k \in Nat
  PROVE  \E f : MergeUpTo(doc, entries, parent, f, k)
<1> DEFINE T == {j \in Nat : ~ \E f : MergeUpTo(doc, entries, parent, f, j)}
<1>1. SUFFICES ASSUME T # {} PROVE FALSE
  OBVIOUS
<1>2. PICK j \in T : \A m \in T : j <= m
  BY <1>1, LeastOf
<1>3. j # 0
  <2> DEFINE f == [n \in 0..0 |-> StartMerge(entries)]
  <2>1. f = [n \in 0..0 |-> IF n = 0 THEN StartMerge(entries) ELSE MergeStep(doc, parent, f[n - 1])]
    OBVIOUS
  <2>2. MergeUpTo(doc, entries, parent, f, 0)
    BY <2>1 DEF MergeUpTo
  <2> QED BY <2>2
<1>4. j \in Nat /\ j - 1 \in Nat /\ ~(j - 1 \in T)
  BY <1>2, <1>3
<1>5. PICK g : MergeUpTo(doc, entries, parent, g, j - 1)
  BY <1>4
<1>6. \E f : MergeUpTo(doc, entries, parent, f, j)
  <2> DEFINE f == [n \in 0..j |-> IF n = j THEN MergeStep(doc, parent, g[n - 1]) ELSE g[n]]
  <2>1. \A n \in 0..j : f[n] = IF n = 0 THEN StartMerge(entries) ELSE MergeStep(doc, parent, f[n - 1])
    BY <1>3, <1>4, <1>5 DEF MergeUpTo
  <2>2. f = [n \in 0..j |-> f[n]]
    OBVIOUS
  <2> HIDE DEF f
  <2>3. MergeUpTo(doc, entries, parent, f, j)
    BY <2>1, <2>2 DEF MergeUpTo
  <2> QED BY <2>3
<1> QED BY <1>2, <1>6

LEMMA MergeAre ==
  ASSUME NEW doc, NEW entries, NEW parent
  PROVE  /\ MergeAt(doc, entries, parent)[0] = StartMerge(entries)
         /\ \A n \in 1..MaxSteps : MergeAt(doc, entries, parent)[n] = MergeStep(doc, parent, MergeAt(doc, entries, parent)[n - 1])
<1> DEFINE g == CHOOSE f : MergeUpTo(doc, entries, parent, f, MaxSteps)
<1>1. MaxSteps \in Nat
  BY StepsAssumption
<1>2. MergeUpTo(doc, entries, parent, g, MaxSteps)
  BY <1>1, MergeExist
<1>3. MergeAt(doc, entries, parent) = g
  BY DEF MergeAt, MergeUpTo
<1> HIDE DEF g
<1> QED BY <1>1, <1>2, <1>3 DEF MergeUpTo

\* The levels of field merging, k levels deep.
LevelsUpTo(doc, f, k) == f = [n \in 0..k |-> IF n = 0 THEN TopLevels(doc) ELSE LevelsAfter(doc, f[n - 1], n)]

LEMMA LevelsExist ==
  ASSUME NEW doc, NEW k \in Nat
  PROVE  \E f : LevelsUpTo(doc, f, k)
<1> DEFINE T == {j \in Nat : ~ \E f : LevelsUpTo(doc, f, j)}
<1>1. SUFFICES ASSUME T # {} PROVE FALSE
  OBVIOUS
<1>2. PICK j \in T : \A m \in T : j <= m
  BY <1>1, LeastOf
<1>3. j # 0
  <2> DEFINE f == [n \in 0..0 |-> TopLevels(doc)]
  <2>1. f = [n \in 0..0 |-> IF n = 0 THEN TopLevels(doc) ELSE LevelsAfter(doc, f[n - 1], n)]
    OBVIOUS
  <2>2. LevelsUpTo(doc, f, 0)
    BY <2>1 DEF LevelsUpTo
  <2> QED BY <2>2
<1>4. j \in Nat /\ j - 1 \in Nat /\ ~(j - 1 \in T)
  BY <1>2, <1>3
<1>5. PICK g : LevelsUpTo(doc, g, j - 1)
  BY <1>4
<1>6. \E f : LevelsUpTo(doc, f, j)
  <2> DEFINE f == [n \in 0..j |-> IF n = j THEN LevelsAfter(doc, g[n - 1], n) ELSE g[n]]
  <2>1. \A n \in 0..j : f[n] = IF n = 0 THEN TopLevels(doc) ELSE LevelsAfter(doc, f[n - 1], n)
    BY <1>3, <1>4, <1>5 DEF LevelsUpTo
  <2>2. f = [n \in 0..j |-> f[n]]
    OBVIOUS
  <2> HIDE DEF f
  <2>3. LevelsUpTo(doc, f, j)
    BY <2>1, <2>2 DEF LevelsUpTo
  <2> QED BY <2>3
<1> QED BY <1>2, <1>6

LEMMA LevelsAre ==
  ASSUME NEW doc
  PROVE  /\ LevelsAt(doc)[0] = TopLevels(doc)
         /\ \A n \in 1..MaxDepth : LevelsAt(doc)[n] = LevelsAfter(doc, LevelsAt(doc)[n - 1], n)
<1> DEFINE g == CHOOSE f : LevelsUpTo(doc, f, MaxDepth)
<1>1. MaxDepth \in Nat
  BY DepthAssumption
<1>2. LevelsUpTo(doc, g, MaxDepth)
  BY <1>1, LevelsExist
<1>3. LevelsAt(doc) = g
  BY DEF LevelsAt, LevelsUpTo, LevelsAfter
<1> HIDE DEF g
<1> QED BY <1>1, <1>2, <1>3 DEF LevelsUpTo

-----------------------------------------------------------------------------
(* Sequences and their parts.                                              *)

LEMMA PartsOfConcat ==
  ASSUME NEW S, NEW a \in Seq(S), NEW b \in Seq(S)
  PROVE  a \o b \in Seq(S) /\ PartsOf(a \o b) = PartsOf(a) \cup PartsOf(b)
<1>1. /\ a \o b \in Seq(S) /\ Len(a \o b) = Len(a) + Len(b)
      /\ \A i \in 1..Len(a) : (a \o b)[i] = a[i]
      /\ \A i \in 1..Len(b) : (a \o b)[Len(a) + i] = b[i]
  OBVIOUS
<1>2. DOMAIN a = 1..Len(a) /\ DOMAIN b = 1..Len(b) /\ DOMAIN (a \o b) = 1..Len(a \o b)
      /\ Len(a) \in Nat /\ Len(b) \in Nat
  BY <1>1
<1>3. ASSUME NEW x \in PartsOf(a \o b) PROVE x \in PartsOf(a) \cup PartsOf(b)
  <2>1. PICK i \in 1..Len(a \o b) : x = (a \o b)[i]
    BY <1>2 DEF PartsOf
  <2>2. CASE i <= Len(a)
    BY <1>1, <1>2, <2>1, <2>2 DEF PartsOf
  <2>3. CASE i > Len(a)
    <3>1. i - Len(a) \in 1..Len(b) /\ i = Len(a) + (i - Len(a))
      BY <1>1, <1>2, <2>1, <2>3
    <3> QED BY <1>1, <1>2, <2>1, <3>1 DEF PartsOf
  <2> QED BY <1>2, <2>1, <2>2, <2>3
<1>4. ASSUME NEW x \in PartsOf(a) PROVE x \in PartsOf(a \o b)
  <2>1. PICK i \in 1..Len(a) : x = a[i]
    BY <1>2 DEF PartsOf
  <2> QED BY <1>1, <1>2, <2>1 DEF PartsOf
<1>5. ASSUME NEW x \in PartsOf(b) PROVE x \in PartsOf(a \o b)
  <2>1. PICK i \in 1..Len(b) : x = b[i]
    BY <1>2 DEF PartsOf
  <2>2. Len(a) + i \in 1..Len(a \o b)
    BY <1>1, <1>2, <2>1
  <2> QED BY <1>1, <1>2, <2>1, <2>2 DEF PartsOf
<1> QED BY <1>1, <1>3, <1>4, <1>5

LEMMA PartsOfTail ==
  ASSUME NEW S, NEW a \in Seq(S), a # <<>>
  PROVE  /\ Head(a) \in S /\ Tail(a) \in Seq(S)
         /\ PartsOf(a) = {Head(a)} \cup PartsOf(Tail(a))
<1>1. /\ Len(a) \in Nat /\ Len(a) > 0 /\ DOMAIN a = 1..Len(a)
      /\ Tail(a) \in Seq(S) /\ Len(Tail(a)) = Len(a) - 1 /\ DOMAIN Tail(a) = 1..(Len(a) - 1)
      /\ Head(a) = a[1] /\ \A i \in 1..(Len(a) - 1) : Tail(a)[i] = a[i + 1]
  OBVIOUS
<1>2. ASSUME NEW x \in PartsOf(a) PROVE x \in {Head(a)} \cup PartsOf(Tail(a))
  <2>1. PICK i \in 1..Len(a) : x = a[i]
    BY <1>1 DEF PartsOf
  <2>2. CASE i = 1
    BY <1>1, <2>1, <2>2
  <2>3. CASE i # 1
    <3>1. i - 1 \in 1..(Len(a) - 1) /\ i = (i - 1) + 1
      BY <1>1, <2>1, <2>3
    <3>2. Tail(a)[i - 1] = x
      BY <1>1, <2>1, <3>1
    <3> QED BY <1>1, <3>1, <3>2 DEF PartsOf
  <2> QED BY <2>2, <2>3
<1>3. Head(a) \in PartsOf(a) /\ Head(a) \in S
  BY <1>1 DEF PartsOf
<1>4. ASSUME NEW x \in PartsOf(Tail(a)) PROVE x \in PartsOf(a)
  <2>1. PICK i \in 1..(Len(a) - 1) : x = Tail(a)[i]
    BY <1>1 DEF PartsOf
  <2>2. i + 1 \in 1..Len(a) /\ x = a[i + 1]
    BY <1>1, <2>1
  <2> QED BY <1>1, <2>2 DEF PartsOf
<1> QED BY <1>1, <1>2, <1>3, <1>4

LEMMA NoParts == PartsOf(<<>>) = {}
<1>1. DOMAIN <<>> = {}
  OBVIOUS
<1> QED BY <1>1 DEF PartsOf

LEMMA PartsOfAppend ==
  ASSUME NEW S, NEW a \in Seq(S), NEW x \in S
  PROVE  Append(a, x) \in Seq(S) /\ Append(a, x) # <<>> /\ PartsOf(Append(a, x)) = PartsOf(a) \cup {x}
<1>1. /\ Len(a) \in Nat /\ DOMAIN a = 1..Len(a) /\ Append(a, x) \in Seq(S)
      /\ DOMAIN Append(a, x) = 1..(Len(a) + 1) /\ Append(a, x)[Len(a) + 1] = x
      /\ \A i \in 1..Len(a) : Append(a, x)[i] = a[i]
  OBVIOUS
<1>2. Append(a, x) # <<>>
  OBVIOUS
<1>3. ASSUME NEW y \in PartsOf(Append(a, x)) PROVE y \in PartsOf(a) \cup {x}
  <2>1. PICK i \in 1..(Len(a) + 1) : y = Append(a, x)[i]
    BY <1>1 DEF PartsOf
  <2>2. CASE i = Len(a) + 1
    BY <1>1, <2>1, <2>2
  <2>3. CASE i \in 1..Len(a)
    BY <1>1, <2>1, <2>3 DEF PartsOf
  <2> QED BY <1>1, <2>1, <2>2, <2>3
<1>4. ASSUME NEW y \in PartsOf(a) PROVE y \in PartsOf(Append(a, x))
  <2>1. PICK i \in 1..Len(a) : y = a[i]
    BY <1>1 DEF PartsOf
  <2>2. i \in DOMAIN Append(a, x) /\ Append(a, x)[i] = y
    BY <1>1, <2>1
  <2> QED BY <2>2 DEF PartsOf
<1>5. x \in PartsOf(Append(a, x))
  <2>1. Len(a) + 1 \in DOMAIN Append(a, x)
    BY <1>1
  <2> QED BY <1>1, <2>1 DEF PartsOf
<1> QED BY <1>1, <1>2, <1>3, <1>4, <1>5

\* The last one of a name is one of the name.
LEMMA LastNamedIs ==
  ASSUME NEW s, NEW n \in Nat, DOMAIN s \subseteq 1..n, NEW name, HasNamed(s, name)
  PROVE  \E i \in DOMAIN s : LastNamed(s, name) = s[i] /\ s[i].name = name
<1> DEFINE T == {m \in Nat : \E i \in DOMAIN s : s[i].name = name /\ i = n - m}
<1>1. T # {}
  <2>1. PICK i \in DOMAIN s : s[i].name = name
    BY DEF HasNamed
  <2>2. n - i \in Nat /\ i = n - (n - i)
    BY <2>1
  <2> QED BY <2>1, <2>2
<1>2. PICK m \in T : \A k \in T : m <= k
  BY <1>1, LeastOf
<1>3. PICK i \in DOMAIN s : s[i].name = name /\ i = n - m
  BY <1>2
<1>4. ASSUME NEW j \in DOMAIN s, s[j].name = name PROVE j <= i
  <2>1. n - j \in T
    <3>1. n - j \in Nat /\ j = n - (n - j)
      OBVIOUS
    <3> QED BY <1>4, <3>1
  <2> QED BY <1>2, <1>3, <2>1
<1>5. \E h \in DOMAIN s : s[h].name = name /\ \A j \in DOMAIN s : s[j].name = name => j <= h
  BY <1>3, <1>4
<1> QED BY <1>5 DEF LastNamed

\* One more in a group, which may be a new one.
GroupsOf(S, groups) == \A k \in DOMAIN groups : groups[k] \in Seq(S)
OneMore(S, groups, key, x, g) ==
  /\ DOMAIN g = DOMAIN groups \cup {key}
  /\ \A k \in DOMAIN groups : k # key => g[k] = groups[k]
  /\ g[key] \in Seq(S) /\ g[key] # <<>>
  /\ key \in DOMAIN groups => PartsOf(g[key]) = PartsOf(groups[key]) \cup {x}
  /\ key \notin DOMAIN groups => PartsOf(g[key]) = {x}

LEMMA GroupedIs ==
  ASSUME NEW S, NEW groups, GroupsOf(S, groups), NEW key, NEW x \in S, NEW g, g = Grouped(groups, key, x)
  PROVE  OneMore(S, groups, key, x, g)
<1>0. PICK before : before = IF key \in DOMAIN groups THEN groups[key] ELSE <<>>
  OBVIOUS
<1>1. before \in Seq(S)
  BY <1>0 DEF GroupsOf
<1>2. /\ DOMAIN g = DOMAIN groups \cup {key}
      /\ \A k \in DOMAIN groups : k # key => g[k] = groups[k]
      /\ g[key] = Append(before, x)
  BY <1>0 DEF Grouped
<1>3. Append(before, x) \in Seq(S) /\ Append(before, x) # <<>> /\ PartsOf(Append(before, x)) = PartsOf(before) \cup {x}
  BY <1>1, PartsOfAppend
<1>4. key \in DOMAIN groups => PartsOf(before) = PartsOf(groups[key])
  BY <1>0
<1>5. key \notin DOMAIN groups => PartsOf(before) = {}
  BY <1>0, NoParts
<1> QED BY <1>2, <1>3, <1>4, <1>5 DEF OneMore
-----------------------------------------------------------------------------
(* Documents and their selection sets.                                     *)

DocumentOK(doc) ==
  /\ \A i \in DOMAIN doc.operations : doc.operations[i].sub \in Seq(Selections)
  /\ \A n \in DOMAIN doc.fragments : doc.fragments[n].sub \in Seq(Selections)

LEMMA DefinitionsOK ==
  ASSUME NEW c \in Inputs
  PROVE  /\ Len(c.definitions) \in Nat /\ DOMAIN c.definitions = 1..Len(c.definitions)
         /\ \A i \in DOMAIN c.definitions : c.definitions[i].sub \in Seq(Selections)
BY InputsAssumption DEF IsSequence

LEMMA OperationsOf ==
  ASSUME NEW definitions, NEW i \in DOMAIN DocumentOf(definitions).operations
  PROVE  /\ i \in DOMAIN definitions /\ definitions[i].kind = "operation"
         /\ DocumentOf(definitions).operations[i] = definitions[i]
BY DEF DocumentOf

LEMMA FragmentsOf ==
  ASSUME NEW definitions, NEW l \in Nat, DOMAIN definitions \subseteq 1..l,
         NEW n \in DOMAIN DocumentOf(definitions).fragments
  PROVE  \E i \in DOMAIN definitions : DocumentOf(definitions).fragments[n] = definitions[i]
<1> DEFINE places == {j \in DOMAIN definitions : definitions[j].kind = "fragment"}
<1>1. PICK fs : fs = [i \in places |-> definitions[i]]
  OBVIOUS
<1>2. DOMAIN fs \subseteq 1..l /\ \A i \in DOMAIN fs : i \in DOMAIN definitions /\ fs[i] = definitions[i]
  BY <1>1
<1>3. n \in {f.name : f \in PartsOf(fs)} /\ DocumentOf(definitions).fragments[n] = LastNamed(fs, n)
  BY <1>1 DEF DocumentOf
<1>4. HasNamed(fs, n)
  BY <1>3 DEF PartsOf, HasNamed
<1>5. PICK i \in DOMAIN fs : LastNamed(fs, n) = fs[i]
  BY <1>2, <1>4, LastNamedIs
<1> QED BY <1>2, <1>3, <1>5

LEMMA DocumentsOK ==
  ASSUME NEW c \in Inputs
  PROVE  DocumentOK(DocumentOf(c.definitions))
<1>1. PICK l \in Nat : DOMAIN c.definitions = 1..l
  BY DefinitionsOK
<1>2. ASSUME NEW n \in DOMAIN DocumentOf(c.definitions).fragments
      PROVE  DocumentOf(c.definitions).fragments[n].sub \in Seq(Selections)
  <2>1. PICK i \in DOMAIN c.definitions : DocumentOf(c.definitions).fragments[n] = c.definitions[i]
    BY <1>1, FragmentsOf
  <2> QED BY <2>1, DefinitionsOK
<1>3. ASSUME NEW i \in DOMAIN DocumentOf(c.definitions).operations
      PROVE  DocumentOf(c.definitions).operations[i].sub \in Seq(Selections)
  BY OperationsOf, DefinitionsOK
<1> QED BY <1>2, <1>3 DEF DocumentOK

\* Where a selection set stands.
Standing(doc, t) ==
  \/ \E i \in DOMAIN doc.operations : t.in = InOperation(i)
  \/ \E n \in DOMAIN doc.fragments : t.in = InFragment(n)

LEMMA OutermostOK ==
  ASSUME NEW doc, DocumentOK(doc), NEW t \in Outermost(doc)
  PROVE  t.sub \in Seq(Selections) /\ Standing(doc, t)
BY DEF Outermost, DocumentOK, Standing, SetOf

LEMMA SetsBelowOK ==
  ASSUME NEW t, t.sub \in Seq(Selections), NEW u \in SetsBelow(t)
  PROVE  u.sub \in Seq(Selections) /\ u.in = t.in
<1>1. PICK i \in DOMAIN t.sub : t.sub[i].kind # "spread" /\ u = SetOf(t.in, TypeBelow(t.sub[i], t.parent), t.sub[i].sub)
  BY DEF SetsBelow
<1>2. t.sub[i] \in Selections
  OBVIOUS
<1> QED BY <1>1, <1>2, SelectionsAssumption DEF SetOf

LEMMA SetsOK ==
  ASSUME NEW doc, DocumentOK(doc)
  PROVE  /\ Outermost(doc) \subseteq SetsAt(doc)[MaxDepth]
         /\ \A t \in SetsAt(doc)[MaxDepth] : t.sub \in Seq(Selections) /\ Standing(doc, t)
<1> DEFINE OK(n) == /\ Outermost(doc) \subseteq SetsAt(doc)[n]
                    /\ \A t \in SetsAt(doc)[n] : t.sub \in Seq(Selections) /\ Standing(doc, t)
           T == {n \in Nat : n <= MaxDepth /\ ~OK(n)}
<1>1. ASSUME T # {} PROVE FALSE
  <2>1. PICK n \in T : \A m \in T : n <= m
    BY <1>1, LeastOf
  <2>2. n # 0
    BY <2>1, SetsAre, OutermostOK
  <2>3. n - 1 \in Nat /\ n \in 1..MaxDepth /\ OK(n - 1)
    BY <2>1, <2>2, DepthAssumption
  <2>4. SetsAt(doc)[n] = SetsAfter(SetsAt(doc)[n - 1])
    BY <2>3, SetsAre
  <2>5. ASSUME NEW u \in SetsAt(doc)[n] PROVE u.sub \in Seq(Selections) /\ Standing(doc, u)
    <3>1. CASE u \in SetsAt(doc)[n - 1]
      BY <2>3, <3>1
    <3>2. CASE \E t \in SetsAt(doc)[n - 1] : u \in SetsBelow(t)
      <4>1. PICK t \in SetsAt(doc)[n - 1] : u \in SetsBelow(t)
        BY <3>2
      <4> QED BY <2>3, <4>1, SetsBelowOK DEF Standing
    <3> QED BY <2>4, <2>5, <3>1, <3>2 DEF SetsAfter
  <2>6. Outermost(doc) \subseteq SetsAt(doc)[n]
    BY <2>3, <2>4 DEF SetsAfter
  <2> QED BY <2>1, <2>5, <2>6
<1>2. MaxDepth \in Nat /\ MaxDepth \notin T
  BY <1>1, DepthAssumption
<1> QED BY <1>2

-----------------------------------------------------------------------------
(* What a valid document has.                                              *)

\* All its selections are checked on the type of their selection set.
Checked(doc) ==
  /\ DocumentOK(doc)
  /\ Outermost(doc) \subseteq doc.sets
  /\ \A t \in doc.sets : t.sub \in Seq(Selections) /\ Standing(doc, t) /\ SetsBelow(t) \subseteq doc.sets
  /\ \A t \in doc.sets : t.parent \in DOMAIN Types => \A s \in PartsOf(t.sub) : SelectionOK(doc, s, t.parent)
  /\ \A n \in DOMAIN doc.fragments : doc.fragments[n].on \in Composite
  /\ \A i \in DOMAIN doc.operations : OperationOK(doc, i)

\* No walk down the spreads comes to a fragment again.
Acyclic(doc) ==
  /\ FirstWalks(doc) \subseteq Walks(doc)
  /\ \A w \in Walks(doc) : Spreads(doc, InFragment(w.at)) \cap w.path = {} /\ WalksFrom(doc, w) \subseteq Walks(doc)

\* Its levels of field merging are all there and agree.
Merged(doc) ==
  /\ TopLevels(doc) \subseteq Levels(doc)
  /\ \A level \in Levels(doc) : level.complete /\ Agrees(level) /\ LevelsBelow(doc, level) \subseteq Levels(doc)

LEMMA LevelsBegin ==
  ASSUME NEW doc
  PROVE  TopLevels(doc) \subseteq Levels(doc)
<1> DEFINE T == {n \in Nat : n <= MaxDepth /\ ~(TopLevels(doc) \subseteq LevelsAt(doc)[n])}
<1>1. ASSUME T # {} PROVE FALSE
  <2>1. PICK n \in T : \A m \in T : n <= m
    BY <1>1, LeastOf
  <2>2. n # 0
    BY <2>1, LevelsAre
  <2>3. n - 1 \in Nat /\ n \in 1..MaxDepth /\ TopLevels(doc) \subseteq LevelsAt(doc)[n - 1]
    BY <2>1, <2>2, DepthAssumption
  <2>4. LevelsAt(doc)[n] = LevelsAfter(doc, LevelsAt(doc)[n - 1], n)
    BY <2>3, LevelsAre
  <2> QED BY <2>1, <2>3, <2>4 DEF LevelsAfter
<1>2. MaxDepth \in Nat /\ MaxDepth \notin T
  BY <1>1, DepthAssumption
<1> QED BY <1>2 DEF Levels

LEMMA WalksBegin ==
  ASSUME NEW doc
  PROVE  FirstWalks(doc) \subseteq Walks(doc)
<1> DEFINE T == {n \in Nat : n <= MaxDepth /\ ~(FirstWalks(doc) \subseteq WalksAt(doc)[n])}
<1>1. ASSUME T # {} PROVE FALSE
  <2>1. PICK n \in T : \A m \in T : n <= m
    BY <1>1, LeastOf
  <2>2. n # 0
    BY <2>1, WalksAre
  <2>3. n - 1 \in Nat /\ n \in 1..MaxDepth /\ FirstWalks(doc) \subseteq WalksAt(doc)[n - 1]
    BY <2>1, <2>2, DepthAssumption
  <2>4. WalksAt(doc)[n] = WalksAfter(doc, WalksAt(doc)[n - 1])
    BY <2>3, WalksAre
  <2> QED BY <2>1, <2>3, <2>4 DEF WalksAfter
<1>2. MaxDepth \in Nat /\ MaxDepth \notin T
  BY <1>1, DepthAssumption
<1> QED BY <1>2 DEF Walks

LEMMA ValidIsChecked ==
  ASSUME NEW d, DocumentOK(d), NEW doc, doc = Surveyed(d), Run(doc, Levels(doc)) = "valid"
  PROVE  Checked(doc) /\ Acyclic(doc) /\ Merged(doc)
<1>1. doc.operations = d.operations /\ doc.fragments = d.fragments /\ doc.sets = SetsAt(d)[MaxDepth]
  BY DEF Surveyed
<1>2. ~TooDeep(doc, Levels(doc))
  BY DEF Run
<1>3. /\ \A i \in DOMAIN doc.operations : OperationOK(doc, i)
      /\ \A n \in DOMAIN doc.fragments : FragmentOK(doc, n)
      /\ FieldMerging(Levels(doc))
  BY DEF Run
<1>4. DocumentOK(doc) /\ Outermost(doc) = Outermost(d)
  BY <1>1 DEF DocumentOK, Outermost
<1>5. /\ Outermost(doc) \subseteq doc.sets
      /\ \A t \in doc.sets : t.sub \in Seq(Selections) /\ Standing(doc, t)
  BY <1>1, <1>4, SetsOK DEF Standing
<1>6. \A t \in doc.sets : SetsBelow(t) \subseteq doc.sets
  BY <1>2 DEF TooDeep
<1>7. ASSUME NEW t \in doc.sets, t.parent \in DOMAIN Types, NEW s \in PartsOf(t.sub)
      PROVE  SelectionOK(doc, s, t.parent)
  <2>1. SelectionsOK(doc, t.in)
    BY <1>3, <1>5 DEF Standing, OperationOK, FragmentOK
  <2> QED BY <1>7, <2>1 DEF SelectionsOK, PartsOf
<1>8. \A n \in DOMAIN doc.fragments : doc.fragments[n].on \in Composite
  BY <1>3 DEF FragmentOK
<1>9. Merged(doc)
  BY <1>2, <1>3, LevelsBegin DEF TooDeep, FieldMerging, Merged
<1>10. Acyclic(doc)
  <2>1. NoFragmentCycles(doc)
    BY DEF Run
  <2> QED BY <1>2, <2>1, WalksBegin DEF TooDeep, NoFragmentCycles, Acyclic
<1> QED BY <1>3, <1>4, <1>5, <1>6, <1>7, <1>8, <1>9, <1>10 DEF Checked


-----------------------------------------------------------------------------
(* Field merging on one level: what it meets.                              *)

\* The selections of a document with the types they are checked on.
Entries(doc) ==
  {x \in [node : Selections, parent : DOMAIN Types] :
     \E t \in doc.sets : t.parent = x.parent /\ x.node \in PartsOf(t.sub)}

\* The selection set of a node is checked on the type.
CheckedOn(doc, sub, parent) ==
  /\ sub \in Seq(Selections)
  /\ sub # <<>> => \E t \in doc.sets : t.parent = parent /\ t.sub = sub
Sound(doc, entries, parent) ==
  /\ parent \in DOMAIN Types
  /\ entries \in Seq(PartsOf(entries))
  /\ \A e \in PartsOf(entries) : CheckedOn(doc, e.node.sub, parent)

Opened(sub, parent) == {Entry(s, parent) : s \in PartsOf(sub)}
TypeIn(x) == TypeOrParent(x.node.on, x.parent)

\* What was met and is not in front anymore was filed, or opened, or is a fragment
\* that was.
Handled(doc, m, met, x) ==
  /\ x.node.kind = "field" => ResponseKey(x.node) \in DOMAIN m.groups /\ x \in PartsOf(m.groups[ResponseKey(x.node)])
  /\ x.node.kind = "inline" => Opened(x.node.sub, TypeIn(x)) \subseteq met
  /\ x.node.kind = "spread" /\ x.node.name \in DOMAIN doc.fragments => x.node.name \in m.visited

Filed(m, met) ==
  \A k \in DOMAIN m.groups :
    /\ m.groups[k] \in Seq(met) /\ m.groups[k] # <<>>
    /\ \A x \in PartsOf(m.groups[k]) : x.node.kind = "field" /\ ResponseKey(x.node) = k

MergeInv(doc, entries, parent, m, met) ==
  /\ m = [work |-> m.work, entries |-> m.entries, groups |-> m.groups, visited |-> m.visited]
  /\ met \subseteq Entries(doc)
  /\ m.work \in Seq(met)
  /\ m.entries \in Seq(PartsOf(entries))
  /\ \A e \in PartsOf(entries) : e \in PartsOf(m.entries) \/ Opened(e.node.sub, parent) \subseteq met
  /\ \A x \in met : x \in PartsOf(m.work) \/ Handled(doc, m, met, x)
  /\ \A n \in m.visited : n \in DOMAIN doc.fragments /\ Opened(doc.fragments[n].sub, doc.fragments[n].on) \subseteq met
  /\ Filed(m, met)

LEMMA AtIs ==
  ASSUME NEW doc, NEW sub, NEW parent \in DOMAIN Types, CheckedOn(doc, sub, parent)
  PROVE  /\ At(sub, parent) \in Seq(Opened(sub, parent))
         /\ PartsOf(At(sub, parent)) = Opened(sub, parent)
         /\ Opened(sub, parent) \subseteq Entries(doc)
<1>1. /\ sub \in Seq(Selections) /\ DOMAIN sub = 1..Len(sub) /\ Len(sub) \in Nat
      /\ \A i \in DOMAIN sub : sub[i] \in Selections
  BY DEF CheckedOn
<1>2. DOMAIN At(sub, parent) = DOMAIN sub /\ \A i \in DOMAIN sub : At(sub, parent)[i] = Entry(sub[i], parent)
  BY DEF At
<1>3. PartsOf(At(sub, parent)) = Opened(sub, parent)
  BY <1>2 DEF PartsOf, Opened
<1>4. \A i \in 1..Len(sub) : Entry(sub[i], parent) \in Opened(sub, parent)
  BY <1>1 DEF PartsOf, Opened
<1>5. At(sub, parent) \in Seq(Opened(sub, parent))
  BY <1>1, <1>4 DEF At
<1>6. ASSUME NEW x \in Opened(sub, parent) PROVE x \in Entries(doc)
  <2>1. PICK i \in DOMAIN sub : x = Entry(sub[i], parent)
    BY DEF Opened, PartsOf
  <2>2. sub # <<>>
    BY <1>1, <2>1
  <2>3. PICK t \in doc.sets : t.parent = parent /\ t.sub = sub
    BY <2>2 DEF CheckedOn
  <2>4. x \in [node : Selections, parent : DOMAIN Types] /\ x.parent = parent /\ x.node = sub[i]
    BY <1>1, <2>1 DEF Entry
  <2>5. x.node \in PartsOf(t.sub)
    BY <2>1, <2>3, <2>4 DEF PartsOf
  <2> QED BY <2>3, <2>4, <2>5 DEF Entries
<1> QED BY <1>3, <1>5, <1>6

\* The selection set of an inline fragment is checked on the type it stands for.
LEMMA InlineIsChecked ==
  ASSUME NEW doc, Checked(doc), NEW x \in Entries(doc), x.node.kind = "inline"
  PROVE  /\ TypeIn(x) \in DOMAIN Types /\ CheckedOn(doc, x.node.sub, TypeIn(x))
<1>1. PICK t \in doc.sets : t.parent = x.parent /\ x.node \in PartsOf(t.sub)
  BY DEF Entries
<1>2. x.node \in Selections /\ x.parent \in DOMAIN Types /\ x.node.sub \in Seq(Selections)
  BY SelectionsAssumption DEF Entries
<1>3. SelectionOK(doc, x.node, x.parent) /\ SetsBelow(t) \subseteq doc.sets
  BY <1>1, <1>2 DEF Checked
<1>4. InlineOK(x.node, x.parent)
  BY <1>3 DEF SelectionOK
<1>5. x.node.on # "" => x.node.on \in DOMAIN Types
  BY <1>4 DEF InlineOK, Composite
<1>6. TypeBelow(x.node, t.parent) = TypeIn(x) /\ TypeIn(x) \in DOMAIN Types
  BY <1>1, <1>2, <1>5, SchemaAssumption DEF TypeBelow, TypeIn, TypeOrParent
<1>7. PICK i \in DOMAIN t.sub : t.sub[i] = x.node
  BY <1>1 DEF PartsOf
<1>8. x.node.sub # <<>> => SetOf(t.in, TypeIn(x), x.node.sub) \in doc.sets
  BY <1>3, <1>6, <1>7 DEF SetsBelow
<1> QED BY <1>2, <1>6, <1>8 DEF CheckedOn, SetOf

LEMMA FragmentIsChecked ==
  ASSUME NEW doc, Checked(doc), NEW n \in DOMAIN doc.fragments
  PROVE  /\ doc.fragments[n].on \in DOMAIN Types
         /\ CheckedOn(doc, doc.fragments[n].sub, doc.fragments[n].on)
<1>1. doc.fragments[n].on \in DOMAIN Types
  BY DEF Checked, Composite
<1>2. SetOf(InFragment(n), doc.fragments[n].on, doc.fragments[n].sub) \in doc.sets
  BY DEF Checked, Outermost
<1> QED BY <1>1, <1>2 DEF Checked, DocumentOK, CheckedOn, SetOf

LEMMA MergeBegins ==
  ASSUME NEW doc, NEW entries, NEW parent, Sound(doc, entries, parent)
  PROVE  MergeInv(doc, entries, parent, StartMerge(entries), {})
<1>1. DOMAIN <<>> = {}
  OBVIOUS
<1> QED BY <1>1 DEF MergeInv, StartMerge, Sound, Filed

LEMMA MergeOpens ==
  ASSUME NEW doc, NEW entries, NEW parent, Sound(doc, entries, parent), NEW m, NEW met,
         MergeInv(doc, entries, parent, m, met), m.work = <<>>, m.entries # <<>>
  PROVE  \E more : MergeInv(doc, entries, parent, MergeStep(doc, parent, m), more)
<1> DEFINE next == MergeStep(doc, parent, m)
<1>1. PICK e : e = Head(m.entries)
  OBVIOUS
<1>2. e \in PartsOf(entries) /\ Tail(m.entries) \in Seq(PartsOf(entries))
      /\ PartsOf(m.entries) = {e} \cup PartsOf(Tail(m.entries))
  BY <1>1, PartsOfTail DEF MergeInv
<1>3. PICK opened : opened = Opened(e.node.sub, parent)
  OBVIOUS
<1>4. At(e.node.sub, parent) \in Seq(opened) /\ PartsOf(At(e.node.sub, parent)) = opened /\ opened \subseteq Entries(doc)
  BY <1>2, <1>3, AtIs DEF Sound
<1>5. next = [work |-> At(e.node.sub, parent), entries |-> Tail(m.entries), groups |-> m.groups, visited |-> m.visited]
  BY <1>1 DEF MergeStep, MergeInv
<1> HIDE DEF next
<1>6. PICK more : more = met \cup opened
  OBVIOUS
<1>7. more \subseteq Entries(doc) /\ next.work \in Seq(more) /\ PartsOf(next.work) = opened
  BY <1>4, <1>5, <1>6 DEF MergeInv
<1>8. \A y \in PartsOf(entries) : y \in PartsOf(next.entries) \/ Opened(y.node.sub, parent) \subseteq more
  BY <1>2, <1>3, <1>5, <1>6 DEF MergeInv
<1>9. ASSUME NEW x \in more PROVE x \in PartsOf(next.work) \/ Handled(doc, next, more, x)
  <2>1. CASE x \in opened
    BY <1>7, <2>1
  <2>2. CASE x \in met
    <3>1. Handled(doc, m, met, x)
      BY <2>2, NoParts DEF MergeInv
    <3> QED BY <1>5, <1>6, <3>1 DEF Handled
  <2> QED BY <1>6, <2>1, <2>2
<1>10. \A n \in next.visited : n \in DOMAIN doc.fragments /\ Opened(doc.fragments[n].sub, doc.fragments[n].on) \subseteq more
  BY <1>5, <1>6 DEF MergeInv
<1>11. Filed(next, more)
  BY <1>5, <1>6 DEF MergeInv, Filed
<1>12. MergeInv(doc, entries, parent, next, more)
  BY <1>2, <1>5, <1>7, <1>8, <1>9, <1>10, <1>11 DEF MergeInv
<1> QED BY <1>12 DEF next

\* What has been handled stays handled while more is met.
LEMMA HandledStays ==
  ASSUME NEW doc, NEW m, NEW met, NEW x, Handled(doc, m, met, x), NEW next, NEW more, met \subseteq more,
         m.visited \subseteq next.visited, DOMAIN m.groups \subseteq DOMAIN next.groups,
         \A k \in DOMAIN m.groups : PartsOf(m.groups[k]) \subseteq PartsOf(next.groups[k])
  PROVE  Handled(doc, next, more, x)
BY DEF Handled

LEMMA MergeFiles ==
  ASSUME NEW doc, NEW entries, NEW parent, Sound(doc, entries, parent), NEW m, NEW met,
         MergeInv(doc, entries, parent, m, met), m.work # <<>>, Head(m.work).node.kind = "field"
  PROVE  \E more : MergeInv(doc, entries, parent, MergeStep(doc, parent, m), more)
<1> DEFINE next == MergeStep(doc, parent, m)
<1>1. PICK x : x = Head(m.work)
  OBVIOUS
<1>2. PICK key : key = ResponseKey(x.node)
  OBVIOUS
<1>3. x \in met /\ Tail(m.work) \in Seq(met) /\ PartsOf(m.work) = {x} \cup PartsOf(Tail(m.work))
  BY <1>1, PartsOfTail DEF MergeInv
<1>4. PICK g : g = Grouped(m.groups, key, x)
  OBVIOUS
<1>5. /\ DOMAIN g = DOMAIN m.groups \cup {key}
      /\ \A k \in DOMAIN m.groups : k # key => g[k] = m.groups[k]
      /\ g[key] \in Seq(met) /\ g[key] # <<>>
      /\ key \in DOMAIN m.groups => PartsOf(g[key]) = PartsOf(m.groups[key]) \cup {x}
      /\ key \notin DOMAIN m.groups => PartsOf(g[key]) = {x}
  <2>1. PICK groups : groups = m.groups
    OBVIOUS
  <2>2. GroupsOf(met, groups) /\ g = Grouped(groups, key, x)
    BY <1>4, <2>1 DEF MergeInv, Filed, GroupsOf
  <2>3. OneMore(met, groups, key, x, g)
    BY <1>3, <2>2, GroupedIs
  <2> QED BY <2>1, <2>3 DEF OneMore
<1>6. next = [work |-> Tail(m.work), entries |-> m.entries, groups |-> g, visited |-> m.visited]
  BY <1>1, <1>2, <1>4 DEF MergeStep, MergeSelection, MergeInv
<1> HIDE DEF next
<1>7. Filed(next, met)
  BY <1>1, <1>2, <1>5, <1>6 DEF Filed, MergeInv
<1>8. ASSUME NEW y \in met PROVE y \in PartsOf(next.work) \/ Handled(doc, next, met, y)
  <2>1. CASE y = x
    BY <1>1, <1>2, <1>5, <1>6, <2>1 DEF Handled
  <2>2. CASE Handled(doc, m, met, y)
    <3>1. \A k \in DOMAIN m.groups : PartsOf(m.groups[k]) \subseteq PartsOf(next.groups[k])
      BY <1>5, <1>6
    <3>2. m.visited = next.visited /\ DOMAIN m.groups \subseteq DOMAIN next.groups
      BY <1>5, <1>6
    <3> QED BY <2>2, <3>1, <3>2, HandledStays
  <2> QED BY <1>3, <1>6, <2>1, <2>2 DEF MergeInv
<1>9. MergeInv(doc, entries, parent, next, met)
  BY <1>3, <1>6, <1>7, <1>8 DEF MergeInv
<1> QED BY <1>9 DEF next

\* An inline fragment, or a fragment that was not visited.
LEMMA MergeEnters ==
  ASSUME NEW doc, NEW entries, NEW parent, NEW m, NEW met, MergeInv(doc, entries, parent, m, met),
         m.work # <<>>, NEW sub, NEW on \in DOMAIN Types, CheckedOn(doc, sub, on), NEW visited,
         NEW next, next = [work |-> At(sub, on) \o Tail(m.work), entries |-> m.entries,
                           groups |-> m.groups, visited |-> visited],
         m.visited \subseteq visited,
         \A n \in visited \ m.visited : n \in DOMAIN doc.fragments /\ doc.fragments[n].sub = sub /\ doc.fragments[n].on = on,
         Handled(doc, next, met \cup Opened(sub, on), Head(m.work))
  PROVE  MergeInv(doc, entries, parent, next, met \cup Opened(sub, on))
<1>1. PICK x : x = Head(m.work)
  OBVIOUS
<1>2. PICK more : more = met \cup Opened(sub, on)
  OBVIOUS
<1>3. x \in met /\ Tail(m.work) \in Seq(met) /\ PartsOf(m.work) = {x} \cup PartsOf(Tail(m.work))
  BY <1>1, PartsOfTail DEF MergeInv
<1>4. At(sub, on) \in Seq(Opened(sub, on)) /\ PartsOf(At(sub, on)) = Opened(sub, on) /\ Opened(sub, on) \subseteq Entries(doc)
  BY AtIs
<1>5. At(sub, on) \in Seq(more) /\ Tail(m.work) \in Seq(more)
  BY <1>2, <1>3, <1>4
<1>6. next.work \in Seq(more) /\ PartsOf(next.work) = Opened(sub, on) \cup PartsOf(Tail(m.work))
  <2>1. PICK a, b : a = At(sub, on) /\ b = Tail(m.work)
    OBVIOUS
  <2>2. a \in Seq(more) /\ b \in Seq(more)
    BY <1>5, <2>1
  <2>3. a \o b \in Seq(more) /\ PartsOf(a \o b) = PartsOf(a) \cup PartsOf(b)
    BY <2>2, PartsOfConcat
  <2> QED BY <1>4, <2>1, <2>3
<1>7. ASSUME NEW y \in more PROVE y \in PartsOf(next.work) \/ Handled(doc, next, more, y)
  <2>1. CASE y = x
    BY <1>1, <1>2, <2>1
  <2>2. CASE Handled(doc, m, met, y)
    BY <1>2, <2>2, HandledStays
  <2>3. CASE y \in Opened(sub, on)
    BY <1>6, <2>3
  <2> QED BY <1>2, <1>3, <1>6, <2>1, <2>2, <2>3 DEF MergeInv
<1>8. \A n \in visited : n \in DOMAIN doc.fragments /\ Opened(doc.fragments[n].sub, doc.fragments[n].on) \subseteq more
  BY <1>2 DEF MergeInv
<1>9. Filed(next, more) /\ more \subseteq Entries(doc)
  BY <1>2, <1>4 DEF MergeInv, Filed
<1>10. \A e \in PartsOf(entries) : e \in PartsOf(next.entries) \/ Opened(e.node.sub, parent) \subseteq more
  BY <1>2 DEF MergeInv
<1>11. MergeInv(doc, entries, parent, next, more)
  BY <1>6, <1>7, <1>8, <1>9, <1>10 DEF MergeInv
<1> QED BY <1>2, <1>11

LEMMA MergeGoesOn ==
  ASSUME NEW doc, Checked(doc), NEW entries, NEW parent, Sound(doc, entries, parent), NEW m, NEW met,
         MergeInv(doc, entries, parent, m, met)
  PROVE  \E more : MergeInv(doc, entries, parent, MergeStep(doc, parent, m), more)
<1>1. PICK next : next = MergeStep(doc, parent, m)
  OBVIOUS
<1>2. CASE m.work = <<>> /\ m.entries # <<>>
  BY <1>2, MergeOpens
<1>3. CASE m.work = <<>> /\ m.entries = <<>>
  BY <1>3 DEF MergeStep
<1>4. CASE m.work # <<>>
  <2>1. PICK x : x = Head(m.work)
    OBVIOUS
  <2>2. x \in met /\ x \in Entries(doc) /\ Tail(m.work) \in Seq(met) /\ PartsOf(m.work) = {x} \cup PartsOf(Tail(m.work))
    BY <1>4, <2>1, PartsOfTail DEF MergeInv
  <2>3. x.node.kind \in {"field", "inline", "spread"}
    BY <2>2, SelectionsAssumption DEF Entries
  <2>4. CASE x.node.kind = "field"
    BY <1>4, <2>1, <2>4, MergeFiles
  <2>5. CASE x.node.kind = "inline"
    <3>1. next = [work |-> At(x.node.sub, TypeIn(x)) \o Tail(m.work), entries |-> m.entries,
                  groups |-> m.groups, visited |-> m.visited]
      BY <1>1, <1>4, <2>1, <2>5 DEF MergeStep, MergeSelection, MergeInv, TypeIn
    <3>2. TypeIn(x) \in DOMAIN Types /\ CheckedOn(doc, x.node.sub, TypeIn(x))
      BY <2>2, <2>5, InlineIsChecked
    <3>3. Handled(doc, next, met \cup Opened(x.node.sub, TypeIn(x)), x)
      BY <2>5 DEF Handled
    <3>4. PICK on : on = TypeIn(x)
      OBVIOUS
    <3>5. MergeInv(doc, entries, parent, next, met \cup Opened(x.node.sub, on))
      BY <1>4, <2>1, <3>1, <3>2, <3>3, <3>4, MergeEnters
    <3> QED BY <1>1, <3>5
  <2>6. CASE x.node.kind = "spread" /\ x.node.name \in DOMAIN doc.fragments \ m.visited
    <3>1. PICK n : n = x.node.name
      OBVIOUS
    <3>2. doc.fragments[n].on \in DOMAIN Types /\ CheckedOn(doc, doc.fragments[n].sub, doc.fragments[n].on)
      BY <2>6, <3>1, FragmentIsChecked
    <3>3. PICK sub, on : sub = doc.fragments[n].sub /\ on = doc.fragments[n].on
      OBVIOUS
    <3>4. next = [work |-> At(sub, on) \o Tail(m.work), entries |-> m.entries,
                  groups |-> m.groups, visited |-> m.visited \cup {n}]
      BY <1>1, <1>4, <2>1, <2>6, <3>1, <3>2, <3>3 DEF MergeStep, MergeSelection, MergeInv, TypeOrParent
    <3>5. Handled(doc, next, met \cup Opened(sub, on), x)
      BY <2>6, <3>1, <3>4 DEF Handled
    <3>6. PICK visited : visited = m.visited \cup {n}
      OBVIOUS
    <3>7. on \in DOMAIN Types /\ CheckedOn(doc, sub, on) /\ m.visited \subseteq visited
      BY <3>2, <3>3, <3>6
    <3>8. \A i \in visited \ m.visited : i \in DOMAIN doc.fragments /\ doc.fragments[i].sub = sub /\ doc.fragments[i].on = on
      BY <2>6, <3>1, <3>3, <3>6
    <3>9. next = [work |-> At(sub, on) \o Tail(m.work), entries |-> m.entries,
                  groups |-> m.groups, visited |-> visited]
      BY <3>4, <3>6
    <3>10. Handled(doc, next, met \cup Opened(sub, on), Head(m.work))
      BY <2>1, <3>5
    <3>11. MergeInv(doc, entries, parent, next, met \cup Opened(sub, on))
      BY <1>4, <3>7, <3>8, <3>9, <3>10, MergeEnters
    <3> QED BY <1>1, <3>11
  <2>7. CASE x.node.kind = "spread" /\ x.node.name \notin DOMAIN doc.fragments \ m.visited
    <3>1. next = [work |-> Tail(m.work), entries |-> m.entries, groups |-> m.groups, visited |-> m.visited]
      BY <1>1, <1>4, <2>1, <2>7 DEF MergeStep, MergeSelection, MergeInv
    <3>2. Handled(doc, next, met, x)
      BY <2>7, <3>1 DEF Handled
    <3>3. ASSUME NEW y \in met, Handled(doc, m, met, y) PROVE Handled(doc, next, met, y)
      BY <3>1, <3>3 DEF Handled
    <3>4. Filed(next, met)
      BY <3>1 DEF MergeInv, Filed
    <3>5. MergeInv(doc, entries, parent, next, met)
      BY <2>2, <3>1, <3>2, <3>3, <3>4 DEF MergeInv
    <3> QED BY <1>1, <3>5
  <2> QED BY <2>3, <2>4, <2>5, <2>6, <2>7
<1> QED BY <1>2, <1>3, <1>4

\* A complete level: everything its entries stand for was met and filed.
LevelInv(doc, level, met) ==
  /\ met \subseteq Entries(doc)
  /\ \A e \in PartsOf(level.entries) : Opened(e.node.sub, level.parent) \subseteq met
  /\ \A x \in met :
       /\ x.node.kind = "field" =>
            ResponseKey(x.node) \in DOMAIN level.groups /\ x \in PartsOf(level.groups[ResponseKey(x.node)])
       /\ x.node.kind = "inline" => Opened(x.node.sub, TypeIn(x)) \subseteq met
       /\ x.node.kind = "spread" /\ x.node.name \in DOMAIN doc.fragments =>
            Opened(doc.fragments[x.node.name].sub, doc.fragments[x.node.name].on) \subseteq met
  /\ Filed(level, met)

LEMMA LevelIs ==
  ASSUME NEW doc, Checked(doc), NEW depth, NEW entries, NEW parent, Sound(doc, entries, parent),
         Level(doc, depth, entries, parent).complete
  PROVE  \E met : LevelInv(doc, Level(doc, depth, entries, parent), met)
<1> DEFINE OK(n) == \E met : MergeInv(doc, entries, parent, MergeAt(doc, entries, parent)[n], met)
           T == {n \in Nat : n <= MaxSteps /\ ~OK(n)}
<1>1. ASSUME T # {} PROVE FALSE
  <2>1. PICK n \in T : \A j \in T : n <= j
    BY <1>1, LeastOf
  <2>2. n # 0
    BY <2>1, MergeAre, MergeBegins
  <2>3. n - 1 \in Nat /\ n \in 1..MaxSteps /\ OK(n - 1)
    BY <2>1, <2>2, StepsAssumption
  <2>4. PICK m : m = MergeAt(doc, entries, parent)[n - 1]
    OBVIOUS
  <2>5. MergeAt(doc, entries, parent)[n] = MergeStep(doc, parent, m)
    BY <2>3, <2>4, MergeAre
  <2>6. PICK met : MergeInv(doc, entries, parent, m, met)
    BY <2>3, <2>4
  <2> QED BY <2>1, <2>5, <2>6, MergeGoesOn
<1>2. MaxSteps \in Nat /\ MaxSteps \notin T
  BY <1>1, StepsAssumption
<1>3. PICK end : end = MergeAt(doc, entries, parent)[MaxSteps]
  OBVIOUS
<1>4. PICK met : MergeInv(doc, entries, parent, end, met)
  BY <1>2, <1>3
<1>5. PICK level : level = Level(doc, depth, entries, parent)
  OBVIOUS
<1>6. /\ level.groups = end.groups /\ level.entries = entries /\ level.parent = parent
      /\ end.work = <<>> /\ end.entries = <<>>
  BY <1>3, <1>5 DEF Level
<1>7. LevelInv(doc, level, met)
  BY <1>4, <1>6, NoParts DEF MergeInv, LevelInv, Handled, Filed
<1> QED BY <1>5, <1>7

-----------------------------------------------------------------------------
(* What an operation reaches.                                              *)

LEMMA ReachedFirst ==
  ASSUME NEW doc, NEW in, NEW n \in Spreads(doc, in) \cap DOMAIN doc.fragments
  PROVE  n \in Reached(doc, in)
BY DEF Reached

LEMMA ReachedNext ==
  ASSUME NEW doc, NEW in, NEW m \in Reached(doc, in), NEW n \in Spreads(doc, InFragment(m)) \cap DOMAIN doc.fragments
  PROVE  n \in Reached(doc, in)
<1>1. ASSUME NEW names \in SUBSET DOMAIN doc.fragments,
             Spreads(doc, in) \cap DOMAIN doc.fragments \subseteq names, Closed(doc, names)
      PROVE  n \in names
  <2>1. m \in names
    BY <1>1 DEF Reached
  <2> QED BY <1>1, <2>1 DEF Closed
<1> QED BY <1>1 DEF Reached

\* The fragments that a walk from n comes to are all that n reaches.
LEMMA NoneReachesItself ==
  ASSUME NEW doc, Acyclic(doc), NEW n \in DOMAIN doc.fragments
  PROVE  n \notin Reached(doc, InFragment(n))
<1> DEFINE beyond == {m \in DOMAIN doc.fragments : m # n /\ \E w \in Walks(doc) : w.at = m /\ n \in w.path}
<1>1. ASSUME NEW w \in Walks(doc), n \in w.path, NEW d \in Spreads(doc, InFragment(w.at)) \cap DOMAIN doc.fragments
      PROVE  d \in beyond
  <2>1. d \notin w.path
    BY <1>1 DEF Acyclic
  <2>2. PICK v : v = [at |-> d, path |-> w.path \cup {d}]
    OBVIOUS
  <2>3. v \in WalksFrom(doc, w)
    BY <2>1, <2>2 DEF WalksFrom
  <2>4. v \in Walks(doc)
    BY <2>3 DEF Acyclic
  <2> QED BY <1>1, <2>1, <2>2, <2>4
<1>2. [at |-> n, path |-> {n}] \in Walks(doc)
  BY DEF Acyclic, FirstWalks
<1>3. Spreads(doc, InFragment(n)) \cap DOMAIN doc.fragments \subseteq beyond
  <2>1. PICK w : w = [at |-> n, path |-> {n}]
    OBVIOUS
  <2>2. w \in Walks(doc) /\ n \in w.path /\ w.at = n
    BY <1>2, <2>1
  <2> HIDE DEF beyond
  <2> QED BY <1>1, <2>2
<1>4. Closed(doc, beyond)
  <2>1. ASSUME NEW m \in beyond PROVE Spreads(doc, InFragment(m)) \cap DOMAIN doc.fragments \subseteq beyond
    <3>1. PICK w \in Walks(doc) : w.at = m /\ n \in w.path
      OBVIOUS
    <3> HIDE DEF beyond
    <3> QED BY <1>1, <3>1
  <2> HIDE DEF beyond
  <2> QED BY <2>1 DEF Closed
<1>5. beyond \in SUBSET DOMAIN doc.fragments /\ n \notin beyond
  OBVIOUS
<1> HIDE DEF beyond
<1> QED BY <1>3, <1>4, <1>5 DEF Reached

-----------------------------------------------------------------------------
(* The executor at a position: what it collects there.                     *)

IsObject(n) == n \in DOMAIN Types /\ Kind(n) = "object"

LEMMA PossibleAreObjects ==
  ASSUME NEW p \in Composite, NEW o \in PossibleTypes(p)
  PROVE  IsObject(o)
<1>1. p \in DOMAIN Types /\ Kind(p) \in {"object", "interface", "union"}
  BY DEF Composite
<1>2. CASE Kind(p) = "object"
  BY <1>1, <1>2 DEF PossibleTypes, IsObject
<1>3. CASE Kind(p) = "union"
  BY <1>1, <1>3, SchemaAssumption DEF PossibleTypes, IsObject
<1>4. CASE Kind(p) = "interface"
  BY <1>1, <1>4 DEF PossibleTypes, IsObject
<1> QED BY <1>1, <1>2, <1>3, <1>4

\* An object has the fields of the types it is possible for.
LEMMA ObjectsHaveFields ==
  ASSUME NEW p \in Composite, NEW o \in PossibleTypes(p), NEW name \in DOMAIN FieldsOf(p)
  PROVE  name \in DOMAIN FieldsOf(o)
<1>1. p \in DOMAIN Types /\ Kind(p) \in {"object", "interface", "union"}
  BY DEF Composite
<1>2. CASE Kind(p) = "object"
  BY <1>1, <1>2 DEF PossibleTypes
<1>3. CASE Kind(p) = "union"
  <2>1. DOMAIN <<>> = {}
    OBVIOUS
  <2> QED BY <1>3, <2>1 DEF FieldsOf
<1>4. CASE Kind(p) = "interface"
  <2>1. o \in DOMAIN Types /\ Kind(o) = "object" /\ p \in Types[o].interfaces
    BY <1>1, <1>4 DEF PossibleTypes
  <2>2. DOMAIN Types[p].fields \subseteq DOMAIN Types[o].fields
    BY <2>1, SchemaAssumption
  <2> QED BY <1>4, <2>1, <2>2 DEF FieldsOf
<1> QED BY <1>1, <1>2, <1>3, <1>4

LEMMA ApplyingIsPossible ==
  ASSUME NEW p, p # "", NEW o, IsObject(o), FragmentApplies(p, o)
  PROVE  p \in Composite /\ o \in PossibleTypes(p)
<1>1. CASE p = o
  BY <1>1 DEF IsObject, Composite, PossibleTypes
<1>2. CASE p \in DOMAIN Types /\ Kind(p) = "interface" /\ p \in Types[o].interfaces
  BY <1>2 DEF IsObject, Composite, PossibleTypes
<1>3. CASE p \in DOMAIN Types /\ Kind(p) = "union" /\ o \in Types[p].members
  BY <1>3 DEF Composite, PossibleTypes
<1>4. p = o \/ (p \in DOMAIN Types /\ ((Kind(p) = "interface" /\ p \in Types[o].interfaces) \/ (Kind(p) = "union" /\ o \in Types[p].members)))
  BY DEF FragmentApplies, Kind
<1> QED BY <1>1, <1>2, <1>3, <1>4

\* Where the selections of an operation stand, and those among them that stand where
\* the object may be and that field merging met.
Way(doc, in) == {in} \cup {InFragment(n) : n \in Reached(doc, in)}
PlacedIn(doc, in, obj, t) ==
  t \in doc.sets /\ t.in \in Way(doc, in) /\ t.parent \in Composite /\ obj \in PossibleTypes(t.parent)
Given(doc, in, obj, met) ==
  {s \in Selections :
     /\ \E x \in met : x.node = s
     /\ \E t \in doc.sets : PlacedIn(doc, in, obj, t) /\ s \in PartsOf(t.sub)}
GivenFields(given, key) == {s \in given : s.kind = "field" /\ ResponseKey(s) = key}

CollectedOK(c, given) ==
  /\ c = [work |-> c.work, sets |-> c.sets, groups |-> c.groups, deferred |-> c.deferred, visited |-> c.visited]
  /\ c.work \in Seq(given)
  /\ c.sets \in Seq(Seq(given))
  /\ c.deferred \in Seq(Seq(given))
  /\ \A k \in DOMAIN c.groups : c.groups[k] \in Seq(GivenFields(given, k)) /\ c.groups[k] # <<>>

LEMMA GivenSet ==
  ASSUME NEW doc, NEW in, NEW obj, NEW met, NEW t, PlacedIn(doc, in, obj, t), NEW sub, sub = t.sub,
         sub \in Seq(Selections), NEW p, Opened(sub, p) \subseteq met
  PROVE  sub \in Seq(Given(doc, in, obj, met))
<1>1. Len(sub) \in Nat /\ DOMAIN sub = 1..Len(sub)
  OBVIOUS
<1>2. ASSUME NEW i \in 1..Len(sub) PROVE sub[i] \in Given(doc, in, obj, met)
  <2>1. sub[i] \in Selections /\ sub[i] \in PartsOf(sub)
    BY <1>1 DEF PartsOf
  <2>2. Entry(sub[i], p) \in met /\ Entry(sub[i], p).node = sub[i]
    BY <2>1 DEF Opened, Entry
  <2> QED BY <2>1, <2>2 DEF Given, PlacedIn
<1>3. \A S : (\A i \in 1..Len(sub) : sub[i] \in S) => sub \in Seq(S)
  <2>1. sub = [i \in 1..Len(sub) |-> sub[i]]
    OBVIOUS
  <2> QED BY <1>1, <2>1
<1> QED BY <1>2, <1>3

LEMMA GivenInline ==
  ASSUME NEW doc, Checked(doc), NEW in, NEW obj, IsObject(obj), NEW level, NEW met, LevelInv(doc, level, met),
         NEW s \in Given(doc, in, obj, met), s.kind = "inline", FragmentApplies(s.on, obj)
  PROVE  s.sub \in Seq(Given(doc, in, obj, met))
<1>1. PICK x \in met : x.node = s
  BY DEF Given
<1>2. PICK t \in doc.sets : PlacedIn(doc, in, obj, t) /\ s \in PartsOf(t.sub)
  BY DEF Given
<1>3. PICK sub : sub = s.sub
  OBVIOUS
<1>4. sub \in Seq(Selections) /\ Opened(sub, TypeIn(x)) \subseteq met
  BY <1>1, <1>3, SelectionsAssumption DEF LevelInv, Given
<1>5. CASE sub = <<>>
  BY <1>3, <1>5
<1>6. CASE sub # <<>>
  <2>1. PICK u : u = SetOf(t.in, TypeBelow(s, t.parent), sub)
    OBVIOUS
  <2>2. PICK i \in DOMAIN t.sub : t.sub[i] = s
    BY <1>2 DEF PartsOf
  <2>3. u \in SetsBelow(t)
    BY <1>3, <1>6, <2>1, <2>2 DEF SetsBelow
  <2>4. u \in doc.sets /\ u.in = t.in /\ u.parent = TypeBelow(s, t.parent) /\ u.sub = sub
    BY <1>2, <2>1, <2>3 DEF Checked, SetOf
  <2>5. t.parent \in DOMAIN Types /\ TypeBelow(s, t.parent) = IF s.on = "" THEN t.parent ELSE s.on
    BY <1>2 DEF TypeBelow, PlacedIn, Composite
  <2>6. CASE s.on = ""
    BY <1>2, <1>3, <1>4, <2>4, <2>5, <2>6, GivenSet DEF PlacedIn
  <2>7. CASE s.on # ""
    <3>1. s.on \in Composite /\ obj \in PossibleTypes(s.on)
      BY <2>7, ApplyingIsPossible
    <3> QED BY <1>2, <1>3, <1>4, <2>4, <2>5, <2>7, <3>1, GivenSet DEF PlacedIn
  <2> QED BY <2>6, <2>7
<1> QED BY <1>5, <1>6

LEMMA GivenSpread ==
  ASSUME NEW doc, Checked(doc), NEW in, NEW obj, IsObject(obj), NEW level, NEW met, LevelInv(doc, level, met),
         NEW s \in Given(doc, in, obj, met), s.kind = "spread", s.name \in DOMAIN doc.fragments,
         FragmentApplies(doc.fragments[s.name].on, obj)
  PROVE  doc.fragments[s.name].sub \in Seq(Given(doc, in, obj, met))
<1>1. PICK x \in met : x.node = s
  BY DEF Given
<1>2. PICK t \in doc.sets : PlacedIn(doc, in, obj, t) /\ s \in PartsOf(t.sub)
  BY DEF Given
<1>3. PICK n \in DOMAIN doc.fragments : n = s.name
  OBVIOUS
<1>4. PICK sub, on : sub = doc.fragments[n].sub /\ on = doc.fragments[n].on
  OBVIOUS
<1>5. sub \in Seq(Selections) /\ Opened(sub, on) \subseteq met
  BY <1>1, <1>3, <1>4 DEF LevelInv, Checked, DocumentOK
<1>6. PICK u : u = SetOf(InFragment(n), on, sub)
  OBVIOUS
<1>7. u \in doc.sets /\ u.in = InFragment(n) /\ u.parent = on /\ u.sub = sub
  BY <1>3, <1>4, <1>6 DEF Checked, Outermost, SetOf
<1>8. on \in Composite /\ obj \in PossibleTypes(on)
  <2>1. on \in Composite /\ on # ""
    BY <1>4, SchemaAssumption DEF Checked, Composite
  <2> QED BY <1>3, <1>4, <2>1, ApplyingIsPossible
<1>9. n \in Spreads(doc, t.in)
  <2>1. s \in Nested(doc, t.in)
    BY <1>2 DEF Nested
  <2> QED BY <1>3, <2>1 DEF Spreads
<1>10. n \in Reached(doc, in)
  <2>1. CASE t.in = in
    BY <1>9, <2>1, ReachedFirst
  <2>2. CASE \E m \in Reached(doc, in) : t.in = InFragment(m)
    BY <1>9, <2>2, ReachedNext
  <2> QED BY <1>2, <2>1, <2>2 DEF PlacedIn, Way
<1>11. PlacedIn(doc, in, obj, u)
  BY <1>7, <1>8, <1>10 DEF PlacedIn, Way
<1> QED BY <1>3, <1>4, <1>5, <1>7, <1>11, GivenSet

\* What an object is given goes on in the fragments that apply to it.
GivenClosed(d, obj, given) ==
  /\ given \subseteq Selections
  /\ \A s \in given :
       /\ s.kind = "inline" /\ FragmentApplies(s.on, obj) => s.sub \in Seq(given)
       /\ s.kind = "spread" /\ s.name \in DOMAIN d.fragments /\ FragmentApplies(d.fragments[s.name].on, obj) =>
            d.fragments[s.name].sub \in Seq(given)

LEMMA GivenIsClosed ==
  ASSUME NEW d, NEW doc, Checked(doc), doc.fragments = d.fragments, NEW in, NEW obj, IsObject(obj),
         NEW level, NEW met, LevelInv(doc, level, met)
  PROVE  GivenClosed(d, obj, Given(doc, in, obj, met))
<1>1. PICK given : given = Given(doc, in, obj, met)
  OBVIOUS
<1>2. given \subseteq Selections
  BY <1>1 DEF Given
<1>3. ASSUME NEW s \in given, s.kind = "inline", FragmentApplies(s.on, obj) PROVE s.sub \in Seq(given)
  BY <1>1, <1>3, GivenInline
<1>4. ASSUME NEW s \in given, s.kind = "spread", s.name \in DOMAIN d.fragments,
             FragmentApplies(d.fragments[s.name].on, obj)
      PROVE  d.fragments[s.name].sub \in Seq(given)
  BY <1>1, <1>4, GivenSpread
<1> QED BY <1>1, <1>2, <1>3, <1>4 DEF GivenClosed

\* _collect takes selections only from where they are given.
LEMMA CollectKeeps ==
  ASSUME NEW d, NEW obj, NEW given, GivenClosed(d, obj, given),
         NEW c, CollectedOK(c, given), c.work # <<>>, NEW values, NEW deferring, NEW next,
         next = CollectSelection(d, obj, values, deferring, c)
  PROVE  CollectedOK(next, given)
<1>1. PICK s : s = Head(c.work)
  OBVIOUS
<1>2. PICK rest : rest = Tail(c.work)
  OBVIOUS
<1>3. s \in given /\ rest \in Seq(given)
  BY <1>1, <1>2, PartsOfTail DEF CollectedOK
<1>4. PICK b : b = [work |-> rest, sets |-> c.sets, groups |-> c.groups, deferred |-> c.deferred, visited |-> c.visited]
  OBVIOUS
<1>5. CollectedOK(b, given) /\ b = [c EXCEPT !.work = Tail(@)]
  <2>1. CollectedOK(b, given)
    BY <1>3, <1>4 DEF CollectedOK
  <2>2. c = [work |-> c.work, sets |-> c.sets, groups |-> c.groups, deferred |-> c.deferred, visited |-> c.visited]
    BY DEF CollectedOK
  <2>3. PICK work, sets, groups, deferred, visited :
          c = [work |-> work, sets |-> sets, groups |-> groups, deferred |-> deferred, visited |-> visited]
    BY <2>2
  <2>4. b = [c EXCEPT !.work = rest]
    BY <1>4, <2>3
  <2>5. b = [c EXCEPT !.work = Tail(@)]
    BY <1>2, <2>4, Zenon
  <2> QED BY <2>1, <2>5
<1>6. /\ b.work = rest /\ b.groups = c.groups /\ b.deferred = c.deferred /\ b.visited = c.visited /\ b.sets = c.sets
      /\ b = [work |-> b.work, sets |-> b.sets, groups |-> b.groups, deferred |-> b.deferred, visited |-> b.visited]
  BY <1>4
<1>7. s.kind \in {"field", "inline", "spread"}
  BY <1>3, SelectionsAssumption DEF GivenClosed
<1>8. CASE next = b
  BY <1>5, <1>8
<1>9. CASE s.kind = "field" /\ next = [b EXCEPT !.groups = Grouped(@, ResponseKey(s), s)]
  <2>1. PICK key : key = ResponseKey(s)
    OBVIOUS
  <2>2. PICK groups : groups = c.groups
    OBVIOUS
  <2>3. PICK g : g = Grouped(groups, key, s)
    OBVIOUS
  <2>4. GroupsOf(given, groups)
    <3>1. ASSUME NEW k \in DOMAIN groups PROVE groups[k] \in Seq(given)
      <4>1. groups[k] \in Seq(GivenFields(given, k))
        BY <2>2 DEF CollectedOK
      <4>2. GivenFields(given, k) \subseteq given
        BY DEF GivenFields
      <4> QED BY <4>1, <4>2
    <3> QED BY <3>1 DEF GroupsOf
  <2>5. OneMore(given, groups, key, s, g)
    BY <1>3, <2>3, <2>4, GroupedIs
  <2>6. next = [work |-> rest, sets |-> c.sets, groups |-> g, deferred |-> c.deferred, visited |-> c.visited]
    BY <1>4, <1>9, <2>1, <2>2, <2>3
  <2>7. ASSUME NEW k \in DOMAIN g PROVE g[k] \in Seq(GivenFields(given, k)) /\ g[k] # <<>>
    <3>1. CASE k # key
      BY <2>2, <2>5, <3>1 DEF OneMore, CollectedOK
    <3>2. CASE k = key
      <4>1. g[key] \in Seq(given) /\ g[key] # <<>>
        BY <2>5 DEF OneMore
      <4>2. ASSUME NEW x \in PartsOf(g[key]) PROVE x \in GivenFields(given, key)
        <5>1. s \in GivenFields(given, key)
          BY <1>3, <1>9, <2>1 DEF GivenFields
        <5>2. CASE key \in DOMAIN groups
          <6>1. x = s \/ x \in PartsOf(groups[key])
            BY <2>5, <4>2, <5>2 DEF OneMore
          <6>2. groups[key] \in Seq(GivenFields(given, key))
            BY <2>2, <5>2 DEF CollectedOK
          <6> QED BY <5>1, <6>1, <6>2 DEF PartsOf
        <5>3. CASE key \notin DOMAIN groups
          BY <2>5, <4>2, <5>1, <5>3 DEF OneMore
        <5> QED BY <5>2, <5>3
      <4>3. g[key] \in Seq(GivenFields(given, key))
        BY <4>1, <4>2 DEF PartsOf
      <4> QED BY <3>2, <4>1, <4>3
    <3> QED BY <3>1, <3>2
  <2> QED BY <1>3, <2>6, <2>7 DEF CollectedOK
<1>10. ASSUME NEW sub \in Seq(given), next = [b EXCEPT !.deferred = Append(@, sub)]
       PROVE  CollectedOK(next, given)
  <2>1. Append(c.deferred, sub) \in Seq(Seq(given))
    BY <1>10 DEF CollectedOK
  <2>2. next = [work |-> rest, sets |-> c.sets, groups |-> c.groups, deferred |-> Append(c.deferred, sub), visited |-> c.visited]
    BY <1>4, <1>10
  <2> QED BY <1>3, <2>1, <2>2 DEF CollectedOK
<1>11. ASSUME NEW sub \in Seq(given), next = Enter(b, s, sub)
       PROVE  CollectedOK(next, given)
  <2>1. sub \o rest \in Seq(given)
    BY <1>3, <1>11
  <2>2. PICK visited : visited = IF s.kind = "spread" THEN c.visited \cup {s.name} ELSE c.visited
    OBVIOUS
  <2>3. next = [work |-> sub \o rest, sets |-> c.sets, groups |-> c.groups, deferred |-> c.deferred, visited |-> visited]
    BY <1>4, <1>11, <2>2 DEF Enter
  <2> QED BY <2>1, <2>3 DEF CollectedOK
<1>12. CASE s.kind = "field"
  <2>1. next = b \/ next = [b EXCEPT !.groups = Grouped(@, ResponseKey(s), s)]
    BY <1>1, <1>5, <1>12 DEF CollectSelection
  <2> QED BY <1>8, <1>9, <1>12, <2>1
<1>13. CASE s.kind = "inline" /\ next # b
  <2>1. PICK sub : sub = s.sub
    OBVIOUS
  <2>2. /\ FragmentApplies(s.on, obj)
        /\ next = [b EXCEPT !.deferred = Append(@, sub)] \/ next = Enter(b, s, sub)
    BY <1>1, <1>5, <1>13, <2>1 DEF CollectSelection
  <2>3. sub \in Seq(given)
    BY <1>3, <1>13, <2>1, <2>2 DEF GivenClosed
  <2> QED BY <1>10, <1>11, <2>2, <2>3
<1>14. CASE s.kind = "spread" /\ next # b
  <2>1. PICK sub : sub = d.fragments[s.name].sub
    OBVIOUS
  <2>2. /\ s.name \in DOMAIN d.fragments /\ FragmentApplies(d.fragments[s.name].on, obj)
        /\ next = [b EXCEPT !.deferred = Append(@, sub)] \/ next = Enter(b, s, sub)
    BY <1>1, <1>5, <1>14, <2>1 DEF CollectSelection
  <2>3. sub \in Seq(given)
    BY <1>3, <1>14, <2>1, <2>2 DEF GivenClosed
  <2> QED BY <1>10, <1>11, <2>2, <2>3
<1> QED BY <1>7, <1>8, <1>12, <1>13, <1>14

\* The fields of a group were met on one level, where they were found to agree.
LEMMA GroupsMet ==
  ASSUME NEW doc, NEW level, NEW met, LevelInv(doc, level, met), NEW in, NEW obj,
         NEW c, CollectedOK(c, Given(doc, in, obj, met)), NEW key \in DOMAIN c.groups, NEW i \in DOMAIN c.groups[key]
  PROVE  /\ key \in DOMAIN level.groups
         /\ c.groups[key][i] \in GivenFields(Given(doc, in, obj, met), key)
         /\ \E j \in DOMAIN level.groups[key] : level.groups[key][j] \in met /\ level.groups[key][j].node = c.groups[key][i]
<1>1. c.groups[key][i] \in GivenFields(Given(doc, in, obj, met), key)
  BY DEF CollectedOK
<1>2. PICK x \in met : x.node = c.groups[key][i]
  BY <1>1 DEF GivenFields, Given
<1>3. x.node.kind = "field" /\ ResponseKey(x.node) = key
  BY <1>1, <1>2 DEF GivenFields
<1> QED BY <1>1, <1>2, <1>3 DEF LevelInv, PartsOf

LEMMA GroupsAgree ==
  ASSUME NEW doc, NEW level, NEW met, LevelInv(doc, level, met), Agrees(level), NEW in, NEW obj,
         NEW c, CollectedOK(c, Given(doc, in, obj, met)), NEW key \in DOMAIN c.groups,
         NEW i \in DOMAIN c.groups[key], NEW j \in DOMAIN c.groups[key]
  PROVE  SameField(c.groups[key][i], c.groups[key][j])
<1>1. PICK f : f = c.groups[key][i]
  OBVIOUS
<1>2. PICK g : g = c.groups[key][j]
  OBVIOUS
<1>3. key \in DOMAIN level.groups /\ \E k \in DOMAIN level.groups[key] : level.groups[key][k].node = f
  BY <1>1, GroupsMet
<1>4. \E k \in DOMAIN level.groups[key] : level.groups[key][k].node = g
  BY <1>2, GroupsMet
<1>5. SameField(level.groups[key][1].node, f) /\ SameField(level.groups[key][1].node, g)
  BY <1>3, <1>4 DEF Agrees
<1>6. SameField(f, g)
  BY <1>5 DEF SameField
<1> QED BY <1>1, <1>2, <1>6

\* A field that leads to objects on one type does so wherever it is checked.
LEMMA FieldLeads ==
  ASSUME OneTypePerField, NEW doc, Checked(doc), NEW t \in doc.sets, t.parent \in DOMAIN Types,
         NEW f \in PartsOf(t.sub), f.kind = "field", f.name \notin Untyped,
         NEW q \in Composite, f.name \in DOMAIN FieldsOf(q), NEW type \in Composite,
         type = FieldsOf(q)[f.name].type.name
  PROVE  /\ TypeOfField(t.parent, f.name) = type /\ f.sub # <<>> /\ f.sub \in Seq(Selections)
         /\ SetOf(t.in, type, f.sub) \in doc.sets
<1>1. FieldOK(f, t.parent)
  BY DEF Checked, SelectionOK
<1>2. f.name \in DOMAIN FieldsOf(t.parent)
  BY <1>1 DEF FieldOK, Untyped
<1>3. t.parent \in Composite
  <2>1. DOMAIN <<>> = {}
    OBVIOUS
  <2> QED BY <1>2, <2>1 DEF FieldsOf, Composite
<1>4. FieldsOf(t.parent)[f.name].type.name = type
  BY <1>2, <1>3 DEF OneTypePerField
<1>5. f.sub # <<>>
  BY <1>1, <1>2, <1>4 DEF FieldOK, Untyped
<1>6. TypeOfField(t.parent, f.name) = type
  BY <1>2, <1>4 DEF TypeOfField
<1>7. TypeBelow(f, t.parent) = type
  BY <1>6 DEF TypeBelow
<1>8. PICK i \in DOMAIN t.sub : f = t.sub[i]
  BY DEF PartsOf
<1>9. SetOf(t.in, type, f.sub) \in SetsBelow(t)
  BY <1>5, <1>7, <1>8 DEF SetsBelow
<1>10. f.sub \in Seq(Selections)
  <2>1. f \in Selections
    BY <1>8 DEF Checked
  <2> QED BY <2>1, SelectionsAssumption
<1> QED BY <1>5, <1>6, <1>9, <1>10 DEF Checked

\* The level below a group of fields that lead to objects of a type.
LEMMA LevelBelow ==
  ASSUME OneTypePerField, NEW doc, Checked(doc), Merged(doc), NEW level \in Levels(doc), NEW met,
         LevelInv(doc, level, met), NEW key \in DOMAIN level.groups, NEW name, name \notin Untyped,
         \A x \in PartsOf(level.groups[key]) : x.node.name = name,
         NEW q \in Composite, name \in DOMAIN FieldsOf(q), NEW type \in Composite, type = FieldsOf(q)[name].type.name
  PROVE  \E below \in Levels(doc) : \E more :
            LevelInv(doc, below, more) /\ below.entries = level.groups[key] /\ below.parent = type
<1>1. PICK group : group = level.groups[key]
  OBVIOUS
<1>2. group \in Seq(met) /\ group # <<>> /\ met \subseteq Entries(doc)
      /\ \A x \in PartsOf(group) : x.node.kind = "field"
  BY <1>1 DEF LevelInv, Filed
<1>3. Len(group) \in Nat /\ Len(group) > 0 /\ DOMAIN group = 1..Len(group)
  BY <1>2
<1>4. ASSUME NEW x \in PartsOf(group)
      PROVE  /\ TypeOfField(x.parent, x.node.name) = type /\ x.node.sub # <<>>
             /\ CheckedOn(doc, x.node.sub, type)
  <2>1. x \in Entries(doc) /\ x.node.kind = "field" /\ x.node.name = name
    BY <1>1, <1>2, <1>4 DEF PartsOf
  <2>2. PICK t \in doc.sets : t.parent = x.parent /\ x.node \in PartsOf(t.sub)
    BY <2>1 DEF Entries
  <2>3. x.parent \in DOMAIN Types
    BY <2>1 DEF Entries
  <2>4. PICK f : f = x.node
    OBVIOUS
  <2>5. /\ TypeOfField(t.parent, f.name) = type /\ f.sub # <<>> /\ f.sub \in Seq(Selections)
        /\ SetOf(t.in, type, f.sub) \in doc.sets
    BY <2>1, <2>2, <2>3, <2>4, FieldLeads
  <2> QED BY <2>2, <2>4, <2>5 DEF CheckedOn, SetOf
<1>5. \A i \in DOMAIN group : group[i].node.sub # <<>> /\ TypeOfField(group[i].parent, group[i].node.name) = type
  BY <1>4 DEF PartsOf
<1>6. WithSub(group) = 1..Len(group)
  BY <1>3, <1>5 DEF WithSub
<1>7. TypeOfGroup(group) = type
  <2> DEFINE first == CHOOSE i \in WithSub(group) : \A j \in WithSub(group) : i <= j
  <2>1. \E i \in WithSub(group) : \A j \in WithSub(group) : i <= j
    <3>1. 1 \in 1..Len(group) /\ \A j \in 1..Len(group) : 1 <= j
      BY <1>3
    <3> QED BY <1>6, <3>1
  <2>2. first \in WithSub(group)
    BY <2>1
  <2>3. TypeOfGroup(group) = TypeOfField(group[first].parent, group[first].node.name)
    BY DEF TypeOfGroup
  <2> HIDE DEF first
  <2> QED BY <1>3, <1>5, <1>6, <2>2, <2>3
<1>8. Sound(doc, group, type)
  <2>1. group \in Seq(PartsOf(group))
    <3>1. \A i \in 1..Len(group) : group[i] \in PartsOf(group)
      BY <1>3 DEF PartsOf
    <3>2. group = [i \in 1..Len(group) |-> group[i]]
      BY <1>2
    <3> QED BY <1>3, <3>1, <3>2
  <2> QED BY <1>4, <2>1 DEF Sound, Composite
<1>9. PICK depth : depth = level.depth + 1
  OBVIOUS
<1>10. PICK below : below = Level(doc, depth, group, type)
  OBVIOUS
<1>11. below \in LevelsBelow(doc, level)
  <2>1. WithSub(level.groups[key]) # {} /\ TypeOfGroup(level.groups[key]) = type
    <3>1. 1 \in WithSub(group)
      BY <1>3, <1>6
    <3>2. WithSub(group) # {} /\ TypeOfGroup(group) = type
      BY <1>7, <3>1
    <3> QED BY <1>1, <3>2
  <2> QED BY <1>1, <1>9, <1>10, <2>1 DEF LevelsBelow
<1>12. below \in Levels(doc) /\ below.complete
  BY <1>11 DEF Merged
<1>13. \E more : LevelInv(doc, below, more)
  BY <1>8, <1>10, <1>12, LevelIs
<1>14. below.entries = group /\ below.parent = type
  BY <1>10 DEF Level
<1> QED BY <1>1, <1>12, <1>13, <1>14

\* Where the executor is: on a level of field merging that met all there is to collect.
Position(doc, in, obj, c) ==
  \E level \in Levels(doc) : \E met :
    LevelInv(doc, level, met) /\ CollectedOK(c, Given(doc, in, obj, met))

LEMMA CollectionStarts ==
  ASSUME NEW given, NEW sets \in Seq(Seq(given))
  PROVE  CollectedOK(StartCollection(sets), given)
<1>1. DOMAIN <<>> = {}
  OBVIOUS
<1> QED BY <1>1 DEF CollectedOK, StartCollection

LEMMA DescendKeeps ==
  ASSUME OneTypePerField, NEW doc, Checked(doc), Merged(doc), NEW in, NEW obj, IsObject(obj),
         NEW c, Position(doc, in, obj, c), NEW key \in DOMAIN c.groups, NEW group, group = c.groups[key],
         NEW name, name = group[1].name, name \notin Untyped, name \in DOMAIN FieldsOf(obj),
         NEW type \in Composite, type = FieldsOf(obj)[name].type.name, NEW o \in PossibleTypes(type)
  PROVE  Position(doc, in, o, StartCollection([i \in DOMAIN group |-> group[i].sub]))
<1>1. PICK level, met : level \in Levels(doc) /\ LevelInv(doc, level, met) /\ CollectedOK(c, Given(doc, in, obj, met))
  BY DEF Position
<1>2. PICK given : given = Given(doc, in, obj, met)
  OBVIOUS
<1>3. group \in Seq(GivenFields(given, key)) /\ group # <<>>
  BY <1>1, <1>2 DEF CollectedOK
<1>4. Len(group) \in Nat /\ Len(group) > 0 /\ DOMAIN group = 1..Len(group)
      /\ \A i \in 1..Len(group) : group[i] \in GivenFields(given, key)
  BY <1>3
<1>5. 1 \in DOMAIN group
  BY <1>4
<1>6. obj \in Composite
  BY DEF IsObject, Composite
<1>7. \A i \in DOMAIN group : /\ key \in DOMAIN level.groups
                              /\ \E j \in DOMAIN level.groups[key] : level.groups[key][j].node = group[i]
  BY <1>1, GroupsMet
<1>8. key \in DOMAIN level.groups /\ Agrees(level)
  BY <1>1, <1>5, <1>7 DEF Merged
<1>9. PICK j \in DOMAIN level.groups[key] : level.groups[key][j].node = group[1]
  BY <1>5, <1>7
<1>10. ASSUME NEW x \in PartsOf(level.groups[key]) PROVE x.node.name = name
  <2>1. PICK k \in DOMAIN level.groups[key] : level.groups[key][k] = x
    BY DEF PartsOf
  <2>2. SameField(level.groups[key][1].node, x.node) /\ SameField(level.groups[key][1].node, group[1])
    BY <1>8, <1>9, <2>1 DEF Agrees
  <2> QED BY <2>2 DEF SameField
<1>11. PICK below, more :
         below \in Levels(doc) /\ LevelInv(doc, below, more) /\ below.entries = level.groups[key] /\ below.parent = type
  BY <1>1, <1>6, <1>8, <1>10, LevelBelow
<1>12. ASSUME NEW i \in DOMAIN group PROVE group[i].sub \in Seq(Given(doc, in, o, more))
  <2>1. PICK f : f = group[i]
    OBVIOUS
  <2>2. f \in given /\ f.kind = "field"
    BY <1>4, <2>1 DEF GivenFields
  <2>3. PICK k \in DOMAIN level.groups[key] : level.groups[key][k].node = f
    BY <1>7, <2>1
  <2>4. level.groups[key][k] \in PartsOf(level.groups[key])
    BY <2>3 DEF PartsOf
  <2>5. f.name = name
    BY <1>10, <2>3, <2>4
  <2>6. Opened(f.sub, type) \subseteq more
    BY <1>11, <2>3, <2>4 DEF LevelInv
  <2>7. PICK t \in doc.sets : PlacedIn(doc, in, obj, t) /\ f \in PartsOf(t.sub)
    BY <1>2, <2>2 DEF Given
  <2>8. t.parent \in DOMAIN Types
    BY <2>7 DEF PlacedIn, Composite
  <2>9. f.sub \in Seq(Selections) /\ SetOf(t.in, type, f.sub) \in doc.sets
    BY <1>6, <2>2, <2>5, <2>7, <2>8, FieldLeads
  <2>10. PICK u : u = SetOf(t.in, type, f.sub)
    OBVIOUS
  <2>11. PlacedIn(doc, in, o, u) /\ u.sub = f.sub
    BY <2>7, <2>9, <2>10 DEF PlacedIn, SetOf
  <2> QED BY <2>1, <2>6, <2>9, <2>11, GivenSet
<1>13. PICK next : next = Given(doc, in, o, more)
  OBVIOUS
<1>14. PICK sets : sets = [i \in DOMAIN group |-> group[i].sub]
  OBVIOUS
<1>15. sets \in Seq(Seq(next))
  BY <1>4, <1>12, <1>13, <1>14
<1>16. CollectedOK(StartCollection(sets), next)
  BY <1>15, CollectionStarts
<1> QED BY <1>11, <1>13, <1>14, <1>16 DEF Position

LEMMA CollectStays ==
  ASSUME NEW d, NEW doc, Checked(doc), doc.fragments = d.fragments, NEW in, NEW obj, IsObject(obj),
         NEW c, Position(doc, in, obj, c), c.work # <<>>, NEW values, NEW deferring
  PROVE  Position(doc, in, obj, CollectSelection(d, obj, values, deferring, c))
<1>1. PICK level, met : level \in Levels(doc) /\ LevelInv(doc, level, met) /\ CollectedOK(c, Given(doc, in, obj, met))
  BY DEF Position
<1>2. PICK next : next = CollectSelection(d, obj, values, deferring, c)
  OBVIOUS
<1>3. CollectedOK(next, Given(doc, in, obj, met))
  BY <1>1, <1>2, GivenIsClosed, CollectKeeps
<1> QED BY <1>1, <1>2, <1>3 DEF Position

LEMMA NextSetKeeps ==
  ASSUME NEW given, NEW c, CollectedOK(c, given), c.sets # <<>>
  PROVE  CollectedOK(NextSet(c), given)
<1>1. Head(c.sets) \in Seq(given) /\ Tail(c.sets) \in Seq(Seq(given))
  BY PartsOfTail DEF CollectedOK
<1>2. c = [work |-> c.work, sets |-> c.sets, groups |-> c.groups, deferred |-> c.deferred, visited |-> c.visited]
  BY DEF CollectedOK
<1>3. PICK first, others : first = Head(c.sets) /\ others = Tail(c.sets)
  OBVIOUS
<1>4. NextSet(c) = [work |-> first, sets |-> others, groups |-> c.groups, deferred |-> c.deferred, visited |-> {}]
  <2>1. NextSet(c) = [c EXCEPT !.work = first, !.sets = others, !.visited = {}]
    BY <1>3 DEF NextSet
  <2> QED BY <1>2, <2>1
<1> QED BY <1>1, <1>3, <1>4 DEF CollectedOK

LEMMA NextSetStays ==
  ASSUME NEW doc, NEW in, NEW obj, NEW c, Position(doc, in, obj, c), c.sets # <<>>
  PROVE  Position(doc, in, obj, NextSet(c))
BY NextSetKeeps DEF Position

LEMMA ResumeStays ==
  ASSUME NEW doc, NEW in, NEW obj, NEW c, Position(doc, in, obj, c), NEW i \in DOMAIN c.deferred
  PROVE  Position(doc, in, obj, StartCollection(<<c.deferred[i]>>))
<1>1. PICK level, met : level \in Levels(doc) /\ LevelInv(doc, level, met) /\ CollectedOK(c, Given(doc, in, obj, met))
  BY DEF Position
<1>2. PICK given : given = Given(doc, in, obj, met)
  OBVIOUS
<1>3. PICK sets : sets = <<c.deferred[i]>>
  OBVIOUS
<1>4. sets \in Seq(Seq(given))
  BY <1>1, <1>2, <1>3 DEF CollectedOK
<1>5. CollectedOK(StartCollection(sets), given)
  BY <1>4, CollectionStarts
<1> QED BY <1>1, <1>2, <1>3, <1>5 DEF Position

\* The executor begins with the selection set of its operation.
LEMMA RootsAreObjects ==
  ASSUME NEW doc, Checked(doc), NEW n \in DOMAIN doc.operations, NEW op, op = doc.operations[n]
  PROVE  op.type \in DOMAIN RootTypes /\ IsObject(RootTypes[op.type])
<1>1. op.type \in DOMAIN RootTypes
  BY DEF Checked, OperationOK
<1>2. PICK root : root = RootTypes[op.type]
  OBVIOUS
<1>3. IsObject(root)
  BY <1>1, <1>2, SchemaAssumption DEF IsObject
<1> QED BY <1>1, <1>2, <1>3

LEMMA OperationStarts ==
  ASSUME NEW doc, Checked(doc), Merged(doc), NEW n \in DOMAIN doc.operations, NEW op, op = doc.operations[n]
  PROVE  Position(doc, InOperation(n), RootTypes[op.type], StartCollection(<<op.sub>>))
<1>1. op.type \in DOMAIN RootTypes /\ IsObject(RootTypes[op.type])
  BY RootsAreObjects
<1>2. PICK root : root = RootTypes[op.type]
  OBVIOUS
<1>3. IsObject(root) /\ root \in Composite /\ root \in PossibleTypes(root)
  BY <1>1, <1>2 DEF IsObject, Composite, PossibleTypes
<1>4. PICK sub : sub = op.sub
  OBVIOUS
<1>5. sub \in Seq(Selections)
  BY <1>4 DEF Checked, DocumentOK
<1>6. PICK t : t = SetOf(InOperation(n), root, sub)
  OBVIOUS
<1>7. t \in doc.sets /\ t.in = InOperation(n) /\ t.parent = root /\ t.sub = sub
  BY <1>1, <1>2, <1>4, <1>6 DEF Checked, Outermost, SetOf, RootType
<1>8. PICK entries : entries = <<Entry(op, root)>>
  OBVIOUS
<1>9. PartsOf(entries) = {Entry(op, root)} /\ entries \in Seq(PartsOf(entries))
  BY <1>8 DEF PartsOf
<1>10. Sound(doc, entries, root)
  BY <1>3, <1>4, <1>5, <1>7, <1>9 DEF Sound, CheckedOn, Entry, IsObject
<1>11. PICK level : level = Level(doc, 0, entries, root)
  OBVIOUS
<1>12. level \in Levels(doc) /\ level.complete
  <2>1. op \in PartsOf(doc.operations)
    BY DEF PartsOf
  <2>2. level \in TopLevels(doc)
    BY <1>1, <1>2, <1>8, <1>11, <2>1 DEF TopLevels
  <2> QED BY <2>2 DEF Merged
<1>13. PICK met : LevelInv(doc, level, met)
  BY <1>10, <1>11, <1>12, LevelIs
<1>14. Opened(sub, root) \subseteq met
  <2>1. level.entries = entries /\ level.parent = root
    BY <1>11 DEF Level
  <2>2. PICK e : e = Entry(op, root)
    OBVIOUS
  <2>3. e \in PartsOf(level.entries) /\ e.node = op
    BY <1>9, <2>1, <2>2 DEF Entry
  <2> QED BY <1>4, <1>13, <2>1, <2>3 DEF LevelInv
<1>15. PICK in : in = InOperation(n)
  OBVIOUS
<1>16. PlacedIn(doc, in, root, t)
  BY <1>3, <1>7, <1>15 DEF PlacedIn, Way
<1>17. sub \in Seq(Given(doc, in, root, met))
  BY <1>5, <1>7, <1>14, <1>16, GivenSet
<1>18. PICK sets : sets = <<sub>>
  OBVIOUS
<1>19. PICK given : given = Given(doc, in, root, met)
  OBVIOUS
<1>20. sets \in Seq(Seq(given))
  BY <1>17, <1>18, <1>19
<1>21. CollectedOK(StartCollection(sets), given)
  BY <1>20, CollectionStarts
<1> QED BY <1>1, <1>2, <1>3, <1>4, <1>12, <1>13, <1>15, <1>18, <1>19, <1>21 DEF Position

-----------------------------------------------------------------------------
(* The states of Documents.                                                *)

Running == {"collecting", "executing"}

\* What is there at each stage.
Staged ==
  /\ input \in Inputs
  /\ stage \notin {"parsed", "refused"} => chosen \in DOMAIN document.operations
  /\ stage \in Running \cup {"valid"} => Validate(document) = "valid"
  /\ stage \in Running =>
       /\ ~VariablesRefused(operation.vars, input.raw)
       /\ variables = VariableValues(operation.vars, input.raw)
       /\ IsObject(object)
  /\ stage \notin Running => collected = StartCollection(<<>>)
  /\ CollectedOK(collected, Selections)

LEMMA NothingCollected == CollectedOK(StartCollection(<<>>), Selections)
<1>1. <<>> \in Seq(Seq(Selections))
  OBVIOUS
<1> QED BY <1>1, CollectionStarts

LEMMA StagedBegins == Init => Staged
BY NothingCollected DEF Init, Staged, Running

LEMMA SelectionsClosed ==
  ASSUME NEW d, DocumentOK(d), NEW o
  PROVE  GivenClosed(d, o, Selections)
BY SelectionsAssumption DEF GivenClosed, DocumentOK

LEMMA CandidatesAre ==
  ASSUME input \in Inputs, Candidates # {}
  PROVE  (CHOOSE i \in Candidates : \A j \in Candidates : i <= j) \in DOMAIN document.operations
<1>1. Candidates \in SUBSET Nat /\ Candidates \subseteq DOMAIN document.operations
  <2>1. DOMAIN input.definitions \subseteq Nat
    BY DefinitionsOK
  <2>2. DOMAIN document.operations \subseteq DOMAIN input.definitions
    BY OperationsOf DEF document
  <2> QED BY <2>1, <2>2 DEF Candidates
<1>2. \E i \in Candidates : \A j \in Candidates : i <= j
  BY <1>1, LeastOf
<1> QED BY <1>1, <1>2

LEMMA SurveyedIs ==
  ASSUME NEW d
  PROVE  Surveyed(d).operations = d.operations /\ Surveyed(d).fragments = d.fragments
BY DEF Surveyed

LEMMA ValidHas ==
  ASSUME Staged, stage \in Running \cup {"valid"}
  PROVE  /\ Checked(Surveyed(document)) /\ Acyclic(Surveyed(document)) /\ Merged(Surveyed(document))
         /\ chosen \in DOMAIN document.operations
<1>1. DocumentOK(document)
  BY DocumentsOK DEF Staged, document
<1>2. PICK doc : doc = Surveyed(document)
  OBVIOUS
<1>3. Run(doc, Levels(doc)) = "valid"
  BY <1>2 DEF Staged, Validate
<1>4. Checked(doc) /\ Acyclic(doc) /\ Merged(doc)
  BY <1>1, <1>2, <1>3, ValidIsChecked
<1>5. chosen \in DOMAIN document.operations
  BY DEF Staged, Running
<1> QED BY <1>2, <1>4, <1>5

LEMMA StagedStays == Staged /\ [Next]_vars => Staged'
<1> SUFFICES ASSUME Staged, [Next]_vars PROVE Staged'
  OBVIOUS
<1>0. input' = input /\ document' = document
  BY DEF Next, GetOperation, ValidateDocument, StartOperation, Collect, Descend, Resume, vars, document
<1>1. DocumentOK(document)
  BY DocumentsOK DEF Staged, document
<1>2. CASE GetOperation
  <2>1. stage' \in {"chosen", "refused"} /\ UNCHANGED <<variables, object, collected>> /\ stage = "parsed"
    BY <1>2 DEF GetOperation
  <2>2. stage' = "chosen" => chosen' \in DOMAIN document.operations
    BY <1>2, CandidatesAre DEF GetOperation, Staged
  <2> QED BY <1>0, <2>1, <2>2 DEF Staged, Running
<1>3. CASE ValidateDocument
  <2>1. stage' = Validate(document) /\ stage = "chosen" /\ UNCHANGED <<chosen, variables, object, collected>>
    BY <1>3 DEF ValidateDocument
  <2>2. Validate(document) \in {"valid", "errors", "raised"}
    BY DEF Validate, Run
  <2> QED BY <1>0, <2>1, <2>2 DEF Staged, Running
<1>4. CASE StartOperation
  <2>1. stage = "valid" /\ chosen' = chosen /\ operation' = operation /\ chosen \in DOMAIN document.operations
    BY <1>0, <1>4 DEF StartOperation, operation, Staged
  <2>2. CASE VariablesRefused(operation.vars, input.raw)
    BY <1>0, <1>4, <2>1, <2>2 DEF StartOperation, Staged, Running
  <2>3. CASE ~VariablesRefused(operation.vars, input.raw)
    <3>1. /\ stage' = "collecting" /\ variables' = VariableValues(operation.vars, input.raw)
          /\ collected' = StartCollection(<<operation.sub>>)
      BY <1>4, <2>3 DEF StartOperation
    <3>2. operation.sub \in Seq(Selections)
      BY <1>1, <2>1 DEF DocumentOK, operation
    <3>3. PICK sets : sets = <<operation.sub>>
      OBVIOUS
    <3>4. sets \in Seq(Seq(Selections))
      BY <3>2, <3>3
    <3>5. CollectedOK(StartCollection(sets), Selections)
      BY <3>4, CollectionStarts
    <3>6. CollectedOK(collected', Selections)
      BY <3>1, <3>3, <3>5
    <3>7. IsObject(object')
      <4>1. PICK op : op = operation
        OBVIOUS
      <4>2. PICK doc : doc = Surveyed(document)
        OBVIOUS
      <4>3. Checked(doc) /\ chosen \in DOMAIN doc.operations /\ op = doc.operations[chosen]
        BY <2>1, <4>1, <4>2, ValidHas, SurveyedIs DEF operation
      <4>4. IsObject(RootTypes[op.type])
        BY <4>3, RootsAreObjects
      <4> QED BY <1>4, <2>3, <4>1, <4>4 DEF StartOperation
    <3> QED BY <1>0, <2>1, <2>3, <3>1, <3>6, <3>7 DEF Staged, Running
  <2> QED BY <2>2, <2>3
<1>5. CASE Collect
  <2>1. /\ stage = "collecting" /\ stage' \in Running
        /\ chosen' = chosen /\ variables' = variables /\ operation' = operation /\ object' = object
    BY <1>0, <1>5 DEF Collect, operation, Running
  <2>2. CollectedOK(collected', Selections)
    <3>1. CollectedOK(collected, Selections)
      BY DEF Staged
    <3>2. CASE collected.work # <<>>
      <4>1. PICK next : next = CollectSelection(document, object, variables, input.incremental, collected)
        OBVIOUS
      <4>2. GivenClosed(document, object, Selections)
        BY <1>1, SelectionsClosed
      <4>3. CollectedOK(next, Selections)
        BY <3>1, <3>2, <4>1, <4>2, CollectKeeps
      <4> QED BY <1>5, <3>2, <4>1, <4>3 DEF Collect
    <3>3. CASE collected.work = <<>> /\ collected.sets # <<>>
      <4>1. collected' = NextSet(collected)
        BY <1>5, <3>3 DEF Collect
      <4> QED BY <3>1, <3>3, <4>1, NextSetKeeps
    <3>4. CASE collected.work = <<>> /\ collected.sets = <<>>
      BY <1>5, <3>1, <3>4 DEF Collect
    <3> QED BY <3>2, <3>3, <3>4
  <2> QED BY <1>0, <2>1, <2>2 DEF Staged, Running
<1>6. ASSUME NEW key \in DOMAIN collected.groups, Descend(key) PROVE Staged'
  <2>1. /\ stage = "executing" /\ stage' = "collecting"
        /\ chosen' = chosen /\ variables' = variables /\ operation' = operation
    BY <1>0, <1>6 DEF Descend, operation
  <2>2. PICK group : group = collected.groups[key]
    OBVIOUS
  <2>3. PICK sets : sets = [i \in DOMAIN group |-> group[i].sub]
    OBVIOUS
  <2>4. collected' = StartCollection(sets)
    BY <1>6, <2>2, <2>3 DEF Descend
  <2>5. group \in Seq(GivenFields(Selections, key))
    BY <2>2 DEF Staged, CollectedOK
  <2>6. \A f \in GivenFields(Selections, key) : f.sub \in Seq(Selections)
    BY SelectionsAssumption DEF GivenFields
  <2>7. sets \in Seq(Seq(Selections))
    BY <2>3, <2>5, <2>6
  <2>8. CollectedOK(StartCollection(sets), Selections)
    BY <2>7, CollectionStarts
  <2>9. IsObject(object')
    <3>1. PICK type : type = FieldsOf(object)[group[1].name].type.name
      OBVIOUS
    <3>2. type \in Composite /\ object' \in PossibleTypes(type)
      BY <1>6, <2>2, <3>1 DEF Descend
    <3>3. PICK o : o = object'
      OBVIOUS
    <3> QED BY <3>2, <3>3, PossibleAreObjects
  <2> QED BY <1>0, <2>1, <2>4, <2>8, <2>9 DEF Staged, Running
<1>7. ASSUME NEW i \in DOMAIN collected.deferred, Resume(i) PROVE Staged'
  <2>1. /\ stage = "executing" /\ stage' = "collecting"
        /\ chosen' = chosen /\ variables' = variables /\ operation' = operation /\ object' = object
    BY <1>0, <1>7 DEF Resume, operation
  <2>2. PICK sets : sets = <<collected.deferred[i]>>
    OBVIOUS
  <2>3. collected' = StartCollection(sets)
    BY <1>7, <2>2 DEF Resume
  <2>4. sets \in Seq(Seq(Selections))
    BY <2>2 DEF Staged, CollectedOK
  <2>5. CollectedOK(StartCollection(sets), Selections)
    BY <2>4, CollectionStarts
  <2> QED BY <1>0, <2>1, <2>3, <2>5 DEF Staged, Running
<1>8. CASE UNCHANGED vars
  BY <1>0, <1>8 DEF Staged, vars, operation
<1> QED BY <1>2, <1>3, <1>4, <1>5, <1>6, <1>7, <1>8 DEF Next

\* THEOREM: at every stage there is what the stages before have left: the operation
\* chosen, the document valid, the variables as they are coerced, and nothing but
\* selections of the document collected.
THEOREM DocumentsStaged == Spec => []Staged
<1>1. Init => Staged
  BY StagedBegins
<1>2. Staged /\ [Next]_vars => Staged'
  BY StagedStays
<1> QED BY <1>1, <1>2, PTL DEF Spec

\* Wherever the executor is in a valid document, it is on a level of field merging.
Placed ==
  stage \in Running => Position(Surveyed(document), InOperation(chosen), object, collected)

LEMMA PlacedStays ==
  ASSUME OneTypePerField
  PROVE  Staged /\ Placed /\ [Next]_vars => Placed'
<1> SUFFICES ASSUME Staged, Placed, [Next]_vars PROVE Placed'
  OBVIOUS
<1>0. input' = input /\ document' = document
  BY DEF Next, GetOperation, ValidateDocument, StartOperation, Collect, Descend, Resume, vars, document
<1>1. PICK doc : doc = Surveyed(document)
  OBVIOUS
<1>2. Surveyed(document)' = doc
  BY <1>0, <1>1
<1>3. doc.operations = document.operations /\ doc.fragments = document.fragments
  BY <1>1, SurveyedIs
<1>4. stage \in Running => IsObject(object) /\ Position(doc, InOperation(chosen), object, collected)
  BY <1>1 DEF Placed, Staged
<1>5. stage \in Running \cup {"valid"} => Checked(doc) /\ Merged(doc) /\ chosen \in DOMAIN doc.operations
  BY <1>1, <1>3, ValidHas
<1>6. ASSUME stage' \in Running => Position(doc, InOperation(chosen'), object', collected')
      PROVE  Placed'
  BY <1>2, <1>6 DEF Placed
<1>7. CASE GetOperation
  BY <1>6, <1>7 DEF GetOperation, Running
<1>8. CASE ValidateDocument
  <2>1. Validate(document) \in {"valid", "errors", "raised"}
    BY DEF Validate, Run
  <2> QED BY <1>6, <1>8, <2>1 DEF ValidateDocument, Running
<1>9. CASE StartOperation
  <2>1. CASE stage' # "collecting"
    BY <1>6, <1>9, <2>1 DEF StartOperation, Running
  <2>2. CASE stage' = "collecting"
    <3>1. PICK op : op = operation
      OBVIOUS
    <3>2. /\ stage = "valid" /\ chosen' = chosen /\ object' = RootTypes[op.type]
          /\ collected' = StartCollection(<<op.sub>>)
      BY <1>9, <2>2, <3>1 DEF StartOperation
    <3>3. op = doc.operations[chosen] /\ chosen \in DOMAIN doc.operations /\ Checked(doc) /\ Merged(doc)
      BY <1>3, <1>5, <3>1, <3>2 DEF operation
    <3>4. Position(doc, InOperation(chosen), RootTypes[op.type], StartCollection(<<op.sub>>))
      BY <3>3, OperationStarts
    <3> QED BY <1>6, <3>2, <3>4
  <2> QED BY <2>1, <2>2
<1>10. CASE Collect
  <2>1. stage = "collecting" /\ chosen' = chosen /\ object' = object
    BY <1>10 DEF Collect
  <2>2. Checked(doc) /\ IsObject(object) /\ Position(doc, InOperation(chosen), object, collected)
    BY <1>4, <1>5, <2>1 DEF Running
  <2>3. PICK in : in = InOperation(chosen)
    OBVIOUS
  <2>4. Position(doc, in, object, collected')
    <3>1. CASE collected.work # <<>>
      <4>1. Position(doc, in, object, CollectSelection(document, object, variables, input.incremental, collected))
        BY <1>3, <2>2, <2>3, <3>1, CollectStays
      <4> QED BY <1>10, <3>1, <4>1 DEF Collect
    <3>2. CASE collected.work = <<>> /\ collected.sets # <<>>
      <4>1. collected' = NextSet(collected)
        BY <1>10, <3>2 DEF Collect
      <4> QED BY <2>2, <2>3, <3>2, <4>1, NextSetStays
    <3>3. CASE collected.work = <<>> /\ collected.sets = <<>>
      BY <1>10, <2>2, <2>3, <3>3 DEF Collect
    <3> QED BY <3>1, <3>2, <3>3
  <2> QED BY <1>6, <2>1, <2>2, <2>3, <2>4
<1>11. ASSUME NEW key \in DOMAIN collected.groups, Descend(key) PROVE Placed'
  <2>1. stage = "executing" /\ chosen' = chosen
    BY <1>11 DEF Descend
  <2>2. Checked(doc) /\ Merged(doc) /\ IsObject(object) /\ Position(doc, InOperation(chosen), object, collected)
    BY <1>4, <1>5, <2>1 DEF Running
  <2>3. PICK group : group = collected.groups[key]
    OBVIOUS
  <2>4. PICK name : name = group[1].name
    OBVIOUS
  <2>5. PICK type : type = FieldsOf(object)[name].type.name
    OBVIOUS
  <2>6. /\ name \notin Untyped /\ name \in DOMAIN FieldsOf(object) /\ type \in Composite
        /\ object' \in PossibleTypes(type)
        /\ collected' = StartCollection([i \in DOMAIN group |-> group[i].sub])
    BY <1>11, <2>3, <2>4, <2>5 DEF Descend
  <2>7. PICK in : in = InOperation(chosen)
    OBVIOUS
  <2>8. PICK o : o = object'
    OBVIOUS
  <2>9. o \in PossibleTypes(type) /\ Position(doc, in, object, collected)
    BY <2>2, <2>6, <2>7, <2>8
  <2>10. Position(doc, in, o, StartCollection([i \in DOMAIN group |-> group[i].sub]))
    BY <2>2, <2>3, <2>4, <2>5, <2>6, <2>9, DescendKeeps
  <2> QED BY <1>6, <2>1, <2>6, <2>7, <2>8, <2>10
<1>12. ASSUME NEW i \in DOMAIN collected.deferred, Resume(i) PROVE Placed'
  <2>1. /\ stage = "executing" /\ chosen' = chosen /\ object' = object
        /\ collected' = StartCollection(<<collected.deferred[i]>>)
    BY <1>12 DEF Resume
  <2>2. IsObject(object) /\ Position(doc, InOperation(chosen), object, collected)
    BY <1>4, <2>1 DEF Running
  <2>3. Position(doc, InOperation(chosen), object, StartCollection(<<collected.deferred[i]>>))
    BY <2>2, ResumeStays
  <2> QED BY <1>6, <2>1, <2>2, <2>3
<1>13. CASE UNCHANGED vars
  BY <1>4, <1>6, <1>13 DEF vars
<1> QED BY <1>7, <1>8, <1>9, <1>10, <1>11, <1>12, <1>13 DEF Next

\* THEOREM: wherever the executor gets, what it collects and has yet to collect was on
\* one level of _validate_field_merging, which took it on a type of the object at hand.
THEOREM DocumentsInvariance ==
  ASSUME OneTypePerField
  PROVE  Spec => [](Staged /\ Placed)
<1>1. Init => Staged /\ Placed
  BY StagedBegins DEF Init, Placed, Running
<1>2. (Staged /\ Placed) /\ [Next]_vars => (Staged /\ Placed)'
  BY StagedStays, PlacedStays
<1> QED BY <1>1, <1>2, PTL DEF Spec

LEMMA PlacedAgrees == Staged /\ Placed => MergedFieldsAgree
<1> SUFFICES ASSUME Staged, Placed, NEW key \in DOMAIN collected.groups, NEW i \in DOMAIN collected.groups[key]
             PROVE  SameField(collected.groups[key][1], collected.groups[key][i])
  BY DEF MergedFieldsAgree
<1>1. stage \in Running
  <2>1. DOMAIN <<>> = {}
    OBVIOUS
  <2>2. collected # StartCollection(<<>>)
    BY <2>1 DEF StartCollection
  <2> QED BY <2>2 DEF Staged
<1>2. PICK doc : doc = Surveyed(document)
  OBVIOUS
<1>3. PICK in : in = InOperation(chosen)
  OBVIOUS
<1>4. PICK level, met : /\ level \in Levels(doc) /\ LevelInv(doc, level, met)
                        /\ CollectedOK(collected, Given(doc, in, object, met))
  BY <1>1, <1>2, <1>3 DEF Placed, Position
<1>5. Agrees(level)
  BY <1>1, <1>2, <1>4, ValidHas DEF Merged
<1>6. 1 \in DOMAIN collected.groups[key]
  BY <1>4 DEF CollectedOK
<1> QED BY <1>4, <1>5, <1>6, GroupsAgree

LEMMA PlacedExecutes ==
  ASSUME OneTypePerField
  PROVE  Staged /\ Placed => ValidExecutes
<1> SUFFICES ASSUME Staged, Placed, stage = "executing" PROVE ValidExecutes
  BY DEF ValidExecutes
<1>1. PICK doc : doc = Surveyed(document)
  OBVIOUS
<1>2. PICK in : in = InOperation(chosen)
  OBVIOUS
<1>3. Checked(doc) /\ Acyclic(doc) /\ chosen \in DOMAIN doc.operations /\ operation = doc.operations[chosen]
  BY <1>1, ValidHas, SurveyedIs DEF Running, operation
<1>4. PICK level, met : LevelInv(doc, level, met) /\ CollectedOK(collected, Given(doc, in, object, met))
  BY <1>1, <1>2 DEF Placed, Position, Running
<1>5. IsObject(object) /\ object \in Composite
  BY DEF Staged, Running, IsObject, Composite
<1>6. ASSUME NEW key \in DOMAIN collected.groups, NEW i \in DOMAIN collected.groups[key],
             NEW f, f = collected.groups[key][i], f.name \notin Untyped
      PROVE  /\ f.name \in DOMAIN FieldsOf(object)
             /\ FieldsOf(object)[f.name].type.name \in Composite <=> f.sub # <<>>
             /\ OwnVariables(f) \subseteq {operation.vars[v].name : v \in DOMAIN operation.vars}
  <2>1. f \in GivenFields(Given(doc, in, object, met), key)
    BY <1>4, <1>6 DEF CollectedOK
  <2>2. f.kind = "field"
    BY <2>1 DEF GivenFields
  <2>3. PICK t \in doc.sets : PlacedIn(doc, in, object, t) /\ f \in PartsOf(t.sub)
    BY <2>1 DEF GivenFields, Given
  <2>4. PICK p : p = t.parent
    OBVIOUS
  <2>5. p \in Composite /\ p \in DOMAIN Types /\ object \in PossibleTypes(p)
    BY <2>3, <2>4 DEF PlacedIn, Composite
  <2>6. FieldOK(f, p)
    BY <1>3, <2>2, <2>3, <2>4, <2>5 DEF Checked, SelectionOK
  <2>7. f.name \in DOMAIN FieldsOf(p)
    BY <1>6, <2>6 DEF FieldOK, Untyped
  <2>8. f.name \in DOMAIN FieldsOf(object)
    BY <2>5, <2>7, ObjectsHaveFields
  <2>9. FieldsOf(p)[f.name].type.name \in Composite \cup Leafs
    BY <2>5, <2>7, SchemaAssumption
  <2>10. /\ FieldsOf(p)[f.name].type.name \in Leafs => f.sub = <<>>
         /\ FieldsOf(p)[f.name].type.name \in Composite => f.sub # <<>>
    BY <1>6, <2>6 DEF FieldOK, Untyped
  <2>11. FieldsOf(object)[f.name].type.name \in Composite <=> FieldsOf(p)[f.name].type.name \in Composite
    BY <1>5, <2>5, <2>7, <2>8 DEF OneTypePerField
  <2>12. OwnVariables(f) \subseteq UsedVariables(doc, in)
    <3>1. f \in Nested(doc, t.in)
      BY <2>3 DEF Nested
    <3> QED BY <2>3, <3>1 DEF PlacedIn, Way, UsedVariables
  <2>13. UsedVariables(doc, in) \subseteq {operation.vars[v].name : v \in DOMAIN operation.vars}
    BY <1>2, <1>3 DEF Checked, OperationOK
  <2> QED BY <2>8, <2>9, <2>10, <2>11, <2>12, <2>13
<1>7. ASSUME NEW n \in Reached(doc, in) PROVE n \notin Reached(doc, InFragment(n))
  <2>1. n \in DOMAIN doc.fragments
    BY DEF Reached
  <2> QED BY <1>3, <2>1, NoneReachesItself
<1> QED BY <1>1, <1>2, <1>6, <1>7 DEF ValidExecutes

\* THEOREM: "fields with the same response key" that cannot be merged are rejected
\* before execution (_validate_field_merging): all fields of a group the executor
\* collects are the same field with the same arguments, if fields of a name that lead
\* to objects lead to one type.
THEOREM DocumentsMergedFieldsAgree ==
  ASSUME OneTypePerField
  PROVE  Spec => []MergedFieldsAgree
BY DocumentsInvariance, PlacedAgrees, PTL

\* THEOREM: what validation promises to the executor ("unreachable after validation"
\* in _execute_field) holds wherever it gets, under the same condition.
THEOREM DocumentsValidExecutes ==
  ASSUME OneTypePerField
  PROVE  Spec => []ValidExecutes
BY DocumentsInvariance, PlacedExecutes, PTL

-----------------------------------------------------------------------------
(* What the recursive functions of Coercion are at each step.              *)

NoInput == [v \in Values |-> [t \in TypeRefs |-> Refused]]
InputAfter(coerce) == [v \in Values |-> [t \in TypeRefs |-> InputOf(coerce, v, t)]]
NoLiteral(values) == [v \in Values |-> [t \in TypeRefs |-> VariableOr(v, values, Refused)]]
LiteralAfter(values, coerce) == [v \in Values |-> [t \in TypeRefs |-> VariableOr(v, values, LiteralOf(coerce, v, t))]]
Alone(x) == {x}
BelowAllTyped(parts) == UNION {BelowTyped(p) : p \in parts}
PartsOfAll(parts) == UNION {PartsOfValue(w) : w \in parts}
BelowAllBoth(pairs) == UNION {BelowBoth(p) : p \in pairs}

\* The coercion of JSON, k levels deep.
InputUpTo(f, k) == f = [n \in 0..k |-> IF n = 0 THEN NoInput ELSE InputAfter(f[n - 1])]

LEMMA InputExist ==
  ASSUME NEW k \in Nat
  PROVE  \E f : InputUpTo(f, k)
<1> DEFINE T == {j \in Nat : ~ \E f : InputUpTo(f, j)}
<1>1. SUFFICES ASSUME T # {} PROVE FALSE
  OBVIOUS
<1>2. PICK j \in T : \A m \in T : j <= m
  BY <1>1, LeastOf
<1>3. j # 0
  <2> DEFINE f == [n \in 0..0 |-> NoInput]
  <2>1. f = [n \in 0..0 |-> IF n = 0 THEN NoInput ELSE InputAfter(f[n - 1])]
    OBVIOUS
  <2>2. InputUpTo(f, 0)
    BY <2>1 DEF InputUpTo
  <2> QED BY <2>2
<1>4. j \in Nat /\ j - 1 \in Nat /\ ~(j - 1 \in T)
  BY <1>2, <1>3
<1>5. PICK g : InputUpTo(g, j - 1)
  BY <1>4
<1>6. \E f : InputUpTo(f, j)
  <2> DEFINE f == [n \in 0..j |-> IF n = j THEN InputAfter(g[n - 1]) ELSE g[n]]
  <2>1. \A n \in 0..j : f[n] = IF n = 0 THEN NoInput ELSE InputAfter(f[n - 1])
    BY <1>3, <1>4, <1>5 DEF InputUpTo
  <2>2. f = [n \in 0..j |-> f[n]]
    OBVIOUS
  <2> HIDE DEF f
  <2>3. InputUpTo(f, j)
    BY <2>1, <2>2 DEF InputUpTo
  <2> QED BY <2>3
<1> QED BY <1>2, <1>6

LEMMA InputAre ==
  /\ InputValue[0] = NoInput
  /\ \A n \in 1..MaxDepth : InputValue[n] = InputAfter(InputValue[n - 1])
<1> DEFINE g == CHOOSE f : InputUpTo(f, MaxDepth)
<1>1. MaxDepth \in Nat
  BY DepthAssumption
<1>2. InputUpTo(g, MaxDepth)
  BY <1>1, InputExist
<1>3. InputValue = g
  BY DEF InputValue, InputUpTo, NoInput, InputAfter
<1> HIDE DEF g
<1> QED BY <1>1, <1>2, <1>3 DEF InputUpTo

\* The coercion of literals, k levels deep.
LiteralUpTo(values, f, k) == f = [n \in 0..k |-> IF n = 0 THEN NoLiteral(values) ELSE LiteralAfter(values, f[n - 1])]

LEMMA LiteralExist ==
  ASSUME NEW values, NEW k \in Nat
  PROVE  \E f : LiteralUpTo(values, f, k)
<1> DEFINE T == {j \in Nat : ~ \E f : LiteralUpTo(values, f, j)}
<1>1. SUFFICES ASSUME T # {} PROVE FALSE
  OBVIOUS
<1>2. PICK j \in T : \A m \in T : j <= m
  BY <1>1, LeastOf
<1>3. j # 0
  <2> DEFINE f == [n \in 0..0 |-> NoLiteral(values)]
  <2>1. f = [n \in 0..0 |-> IF n = 0 THEN NoLiteral(values) ELSE LiteralAfter(values, f[n - 1])]
    OBVIOUS
  <2>2. LiteralUpTo(values, f, 0)
    BY <2>1 DEF LiteralUpTo
  <2> QED BY <2>2
<1>4. j \in Nat /\ j - 1 \in Nat /\ ~(j - 1 \in T)
  BY <1>2, <1>3
<1>5. PICK g : LiteralUpTo(values, g, j - 1)
  BY <1>4
<1>6. \E f : LiteralUpTo(values, f, j)
  <2> DEFINE f == [n \in 0..j |-> IF n = j THEN LiteralAfter(values, g[n - 1]) ELSE g[n]]
  <2>1. \A n \in 0..j : f[n] = IF n = 0 THEN NoLiteral(values) ELSE LiteralAfter(values, f[n - 1])
    BY <1>3, <1>4, <1>5 DEF LiteralUpTo
  <2>2. f = [n \in 0..j |-> f[n]]
    OBVIOUS
  <2> HIDE DEF f
  <2>3. LiteralUpTo(values, f, j)
    BY <2>1, <2>2 DEF LiteralUpTo
  <2> QED BY <2>3
<1> QED BY <1>2, <1>6

LEMMA LiteralAre ==
  ASSUME NEW values
  PROVE  /\ LiteralValue(values)[0] = NoLiteral(values)
         /\ \A n \in 1..MaxDepth : LiteralValue(values)[n] = LiteralAfter(values, LiteralValue(values)[n - 1])
<1> DEFINE g == CHOOSE f : LiteralUpTo(values, f, MaxDepth)
<1>1. MaxDepth \in Nat
  BY DepthAssumption
<1>2. LiteralUpTo(values, g, MaxDepth)
  BY <1>1, LiteralExist
<1>3. LiteralValue(values) = g
  BY DEF LiteralValue, LiteralUpTo, NoLiteral, LiteralAfter
<1> HIDE DEF g
<1> QED BY <1>1, <1>2, <1>3 DEF LiteralUpTo

\* The parts of a typed value, k levels down.
PartsUpTo(v, t, f, k) == f = [n \in 0..k |-> IF n = 0 THEN Alone(Typed(v, t)) ELSE BelowAllTyped(f[n - 1])]

LEMMA PartsExist ==
  ASSUME NEW v, NEW t, NEW k \in Nat
  PROVE  \E f : PartsUpTo(v, t, f, k)
<1> DEFINE T == {j \in Nat : ~ \E f : PartsUpTo(v, t, f, j)}
<1>1. SUFFICES ASSUME T # {} PROVE FALSE
  OBVIOUS
<1>2. PICK j \in T : \A m \in T : j <= m
  BY <1>1, LeastOf
<1>3. j # 0
  <2> DEFINE f == [n \in 0..0 |-> Alone(Typed(v, t))]
  <2>1. f = [n \in 0..0 |-> IF n = 0 THEN Alone(Typed(v, t)) ELSE BelowAllTyped(f[n - 1])]
    OBVIOUS
  <2>2. PartsUpTo(v, t, f, 0)
    BY <2>1 DEF PartsUpTo
  <2> QED BY <2>2
<1>4. j \in Nat /\ j - 1 \in Nat /\ ~(j - 1 \in T)
  BY <1>2, <1>3
<1>5. PICK g : PartsUpTo(v, t, g, j - 1)
  BY <1>4
<1>6. \E f : PartsUpTo(v, t, f, j)
  <2> DEFINE f == [n \in 0..j |-> IF n = j THEN BelowAllTyped(g[n - 1]) ELSE g[n]]
  <2>1. \A n \in 0..j : f[n] = IF n = 0 THEN Alone(Typed(v, t)) ELSE BelowAllTyped(f[n - 1])
    BY <1>3, <1>4, <1>5 DEF PartsUpTo
  <2>2. f = [n \in 0..j |-> f[n]]
    OBVIOUS
  <2> HIDE DEF f
  <2>3. PartsUpTo(v, t, f, j)
    BY <2>1, <2>2 DEF PartsUpTo
  <2> QED BY <2>3
<1> QED BY <1>2, <1>6

LEMMA PartsAre ==
  ASSUME NEW v, NEW t
  PROVE  /\ PartsAt(v, t)[0] = Alone(Typed(v, t))
         /\ \A n \in 1..MaxDepth : PartsAt(v, t)[n] = BelowAllTyped(PartsAt(v, t)[n - 1])
<1> DEFINE g == CHOOSE f : PartsUpTo(v, t, f, MaxDepth)
<1>1. MaxDepth \in Nat
  BY DepthAssumption
<1>2. PartsUpTo(v, t, g, MaxDepth)
  BY <1>1, PartsExist
<1>3. PartsAt(v, t) = g
  BY DEF PartsAt, PartsUpTo, Alone, BelowAllTyped
<1> HIDE DEF g
<1> QED BY <1>1, <1>2, <1>3 DEF PartsUpTo

\* The parts of a literal, k levels down.
WithinUpTo(v, f, k) == f = [n \in 0..k |-> IF n = 0 THEN Alone(v) ELSE PartsOfAll(f[n - 1])]

LEMMA WithinExist ==
  ASSUME NEW v, NEW k \in Nat
  PROVE  \E f : WithinUpTo(v, f, k)
<1> DEFINE T == {j \in Nat : ~ \E f : WithinUpTo(v, f, j)}
<1>1. SUFFICES ASSUME T # {} PROVE FALSE
  OBVIOUS
<1>2. PICK j \in T : \A m \in T : j <= m
  BY <1>1, LeastOf
<1>3. j # 0
  <2> DEFINE f == [n \in 0..0 |-> Alone(v)]
  <2>1. f = [n \in 0..0 |-> IF n = 0 THEN Alone(v) ELSE PartsOfAll(f[n - 1])]
    OBVIOUS
  <2>2. WithinUpTo(v, f, 0)
    BY <2>1 DEF WithinUpTo
  <2> QED BY <2>2
<1>4. j \in Nat /\ j - 1 \in Nat /\ ~(j - 1 \in T)
  BY <1>2, <1>3
<1>5. PICK g : WithinUpTo(v, g, j - 1)
  BY <1>4
<1>6. \E f : WithinUpTo(v, f, j)
  <2> DEFINE f == [n \in 0..j |-> IF n = j THEN PartsOfAll(g[n - 1]) ELSE g[n]]
  <2>1. \A n \in 0..j : f[n] = IF n = 0 THEN Alone(v) ELSE PartsOfAll(f[n - 1])
    BY <1>3, <1>4, <1>5 DEF WithinUpTo
  <2>2. f = [n \in 0..j |-> f[n]]
    OBVIOUS
  <2> HIDE DEF f
  <2>3. WithinUpTo(v, f, j)
    BY <2>1, <2>2 DEF WithinUpTo
  <2> QED BY <2>3
<1> QED BY <1>2, <1>6

LEMMA WithinAre ==
  ASSUME NEW v
  PROVE  /\ PartsIn(v)[0] = Alone(v)
         /\ \A n \in 1..MaxDepth : PartsIn(v)[n] = PartsOfAll(PartsIn(v)[n - 1])
<1> DEFINE g == CHOOSE f : WithinUpTo(v, f, MaxDepth)
<1>1. MaxDepth \in Nat
  BY DepthAssumption
<1>2. WithinUpTo(v, g, MaxDepth)
  BY <1>1, WithinExist
<1>3. PartsIn(v) = g
  BY DEF PartsIn, WithinUpTo, Alone, PartsOfAll
<1> HIDE DEF g
<1> QED BY <1>1, <1>2, <1>3 DEF WithinUpTo

\* The parts of a literal and of its JSON, k levels down.
BothUpTo(v, json, f, k) == f = [n \in 0..k |-> IF n = 0 THEN Alone(Both(v, json)) ELSE BelowAllBoth(f[n - 1])]

LEMMA BothExist ==
  ASSUME NEW v, NEW json, NEW k \in Nat
  PROVE  \E f : BothUpTo(v, json, f, k)
<1> DEFINE T == {j \in Nat : ~ \E f : BothUpTo(v, json, f, j)}
<1>1. SUFFICES ASSUME T # {} PROVE FALSE
  OBVIOUS
<1>2. PICK j \in T : \A m \in T : j <= m
  BY <1>1, LeastOf
<1>3. j # 0
  <2> DEFINE f == [n \in 0..0 |-> Alone(Both(v, json))]
  <2>1. f = [n \in 0..0 |-> IF n = 0 THEN Alone(Both(v, json)) ELSE BelowAllBoth(f[n - 1])]
    OBVIOUS
  <2>2. BothUpTo(v, json, f, 0)
    BY <2>1 DEF BothUpTo
  <2> QED BY <2>2
<1>4. j \in Nat /\ j - 1 \in Nat /\ ~(j - 1 \in T)
  BY <1>2, <1>3
<1>5. PICK g : BothUpTo(v, json, g, j - 1)
  BY <1>4
<1>6. \E f : BothUpTo(v, json, f, j)
  <2> DEFINE f == [n \in 0..j |-> IF n = j THEN BelowAllBoth(g[n - 1]) ELSE g[n]]
  <2>1. \A n \in 0..j : f[n] = IF n = 0 THEN Alone(Both(v, json)) ELSE BelowAllBoth(f[n - 1])
    BY <1>3, <1>4, <1>5 DEF BothUpTo
  <2>2. f = [n \in 0..j |-> f[n]]
    OBVIOUS
  <2> HIDE DEF f
  <2>3. BothUpTo(v, json, f, j)
    BY <2>1, <2>2 DEF BothUpTo
  <2> QED BY <2>3
<1> QED BY <1>2, <1>6

LEMMA BothAre ==
  ASSUME NEW v, NEW json
  PROVE  /\ BothAt(v, json)[0] = Alone(Both(v, json))
         /\ \A n \in 1..MaxDepth : BothAt(v, json)[n] = BelowAllBoth(BothAt(v, json)[n - 1])
<1> DEFINE g == CHOOSE f : BothUpTo(v, json, f, MaxDepth)
<1>1. MaxDepth \in Nat
  BY DepthAssumption
<1>2. BothUpTo(v, json, g, MaxDepth)
  BY <1>1, BothExist
<1>3. BothAt(v, json) = g
  BY DEF BothAt, BothUpTo, Alone, BelowAllBoth
<1> HIDE DEF g
<1> QED BY <1>1, <1>2, <1>3 DEF BothUpTo

-----------------------------------------------------------------------------
(* Coercion, one level after the other.                                    *)

InputRefs == {t \in TypeRefs : Kind(t.name) \in InputKinds}

LEMMA KindsDiffer ==
  /\ Refused # Null /\ Refused # Absent /\ Null # Absent
  /\ \A r : r.kind \notin {"refused", "absent", "null"} => r # Refused /\ r # Absent /\ r # Null
BY DEF Refused, Null, Absent

LEMMA InputIs ==
  ASSUME NEW v \in Values, NEW t \in TypeRefs
  PROVE  /\ InputValue[0][v][t] = Refused
         /\ \A n \in 1..MaxDepth : InputValue[n][v][t] = InputOf(InputValue[n - 1], v, t)
<1>1. InputValue[0][v][t] = Refused
  BY InputAre DEF NoInput
<1>2. ASSUME NEW n \in 1..MaxDepth PROVE InputValue[n][v][t] = InputOf(InputValue[n - 1], v, t)
  <2>1. PICK coerce : coerce = InputValue[n - 1]
    OBVIOUS
  <2>2. InputValue[n] = InputAfter(coerce)
    BY <2>1, InputAre
  <2> QED BY <2>1, <2>2 DEF InputAfter
<1> QED BY <1>1, <1>2

LEMMA LiteralIs ==
  ASSUME NEW values, NEW v \in Values, v.kind # "var", NEW t \in TypeRefs
  PROVE  /\ LiteralValue(values)[0][v][t] = Refused
         /\ \A n \in 1..MaxDepth : LiteralValue(values)[n][v][t] = LiteralOf(LiteralValue(values)[n - 1], v, t)
<1>1. LiteralValue(values)[0][v][t] = Refused
  BY LiteralAre DEF NoLiteral, VariableOr
<1>2. ASSUME NEW n \in 1..MaxDepth
      PROVE  LiteralValue(values)[n][v][t] = LiteralOf(LiteralValue(values)[n - 1], v, t)
  <2>1. PICK coerce : coerce = LiteralValue(values)[n - 1]
    OBVIOUS
  <2>2. LiteralValue(values)[n] = LiteralAfter(values, coerce)
    BY <2>1, LiteralAre
  <2> QED BY <2>1, <2>2 DEF LiteralAfter, VariableOr
<1> QED BY <1>1, <1>2

LEMMA InnerIs ==
  ASSUME NEW t \in TypeRefs, t.wraps # <<>>
  PROVE  Inner(t) \in TypeRefs /\ Inner(t).name = t.name
BY DEF TypeRefs, Inner

LEMMA InnerRef ==
  ASSUME NEW t \in InputRefs, NEW wrap, Is(t, wrap)
  PROVE  Inner(t) \in InputRefs
BY InnerIs DEF InputRefs, Is

LEMMA UnwrappedRef ==
  ASSUME NEW t \in TypeRefs, ~Is(t, "nonnull"), ~Is(t, "list")
  PROVE  t.wraps = <<>>
<1>1. t.wraps \in Seq(Wraps)
  BY DEF TypeRefs
<1>2. t.wraps # <<>> => Head(t.wraps) \in Wraps
  BY <1>1
<1> QED BY <1>2 DEF Is, Wraps

LEMMA ItemsAreValues ==
  ASSUME NEW v \in Values
  PROVE  /\ \A i \in DOMAIN ListItems(v) : ListItems(v)[i] \in Values
         /\ v.kind # "list" => DOMAIN ListItems(v) = {1} /\ ListItems(v)[1] = v
<1>1. CASE v.kind = "list"
  BY <1>1, ValuesAssumption DEF ListItems
<1>2. CASE v.kind # "list"
  <2>1. ListItems(v) = <<v>>
    BY <1>2 DEF ListItems
  <2>2. DOMAIN <<v>> = {1} /\ <<v>>[1] = v
    OBVIOUS
  <2> QED BY <1>2, <2>1, <2>2
<1> QED BY <1>1, <1>2

\* A list that is not refused has no refused item.
LEMMA ItemsFit ==
  ASSUME NEW coerce, NEW v, NEW t \in InputRefs, Is(t, "list"), ~Is(t, "nonnull"),
         NEW r, r = ItemsOf(coerce, v, t), r # Refused
  PROVE  /\ r.kind = "list" /\ Fits(Typed(r, t))
         /\ \A q \in BelowTyped(Typed(r, t)) : \E i \in DOMAIN ListItems(v) :
              q = Typed(coerce[ListItems(v)[i]][Inner(t)], Inner(t)) /\ q.value # Refused
<1>1. PICK items : items = [i \in DOMAIN ListItems(v) |-> coerce[ListItems(v)[i]][Inner(t)]]
  OBVIOUS
<1>2. r = [kind |-> "list", items |-> items] /\ Refused \notin PartsOf(items)
  BY <1>1 DEF ItemsOf, ListValue, Whole
<1>3. r.kind = "list" /\ r.items = items /\ r # Null
  BY <1>2, KindsDiffer
<1>4. Typed(r, t).value = r /\ Typed(r, t).type = t
  BY DEF Typed
<1>5. Fits(Typed(r, t))
  BY <1>3, <1>4 DEF Fits
<1>6. ASSUME NEW q \in BelowTyped(Typed(r, t))
      PROVE  \E i \in DOMAIN ListItems(v) : q = Typed(coerce[ListItems(v)[i]][Inner(t)], Inner(t)) /\ q.value # Refused
  <2>1. PICK x \in PartsOf(items) : q = Typed(x, Inner(t))
    BY <1>3, <1>4 DEF BelowTyped
  <2>2. PICK i \in DOMAIN ListItems(v) : x = coerce[ListItems(v)[i]][Inner(t)]
    BY <1>1 DEF PartsOf
  <2> QED BY <1>2, <2>1, <2>2 DEF Typed
<1> QED BY <1>3, <1>5, <1>6

\* The defaults of input fields, with their parts down to a depth.
DefaultPart(p, k) ==
  \E n \in DOMAIN Types : Kind(n) = "input" /\ \E f \in DOMAIN Types[n].inputs :
    /\ Types[n].inputs[f].default # Absent
    /\ \E j \in 0..k : p \in PartsAt(Types[n].inputs[f].default, Types[n].inputs[f].type)[j]

\* The fields of an object that are coerced.
NoneAbsent(coerce, v, inputs) ==
  \A f \in DOMAIN inputs : f \in DOMAIN v.fields => coerce[v.fields[f]][inputs[f].type] # Absent
FieldPart(coerce, v, inputs, q) ==
  \E f \in DOMAIN inputs \cap DOMAIN v.fields :
    q = Typed(coerce[v.fields[f]][inputs[f].type], inputs[f].type) /\ q.value # Refused

LEMMA DefaultIsPart ==
  ASSUME NEW n \in DOMAIN Types, Kind(n) = "input", NEW f \in DOMAIN Types[n].inputs,
         NEW d, d = Types[n].inputs[f].default, d # Absent, NEW type, type = Types[n].inputs[f].type,
         NEW p, p \in PartsAt(d, type)[0]
  PROVE  DefaultPart(p, 0)
<1>1. 0 \in 0..0
  OBVIOUS
<1> QED BY <1>1 DEF DefaultPart

\* An object that is not refused has no refused field, and has those it must have.
LEMMA FieldsFit ==
  ASSUME NEW coerce, NEW v, NEW t \in InputRefs, t.wraps = <<>>, Kind(t.name) = "input",
         NEW inputs, inputs = Types[t.name].inputs, NEW r, r = FieldsIn(coerce, v, inputs), r # Refused,
         NoneAbsent(coerce, v, inputs)
  PROVE  /\ r.kind = "object" /\ v.kind = "object" /\ Fits(Typed(r, t))
         /\ \A q \in BelowTyped(Typed(r, t)) : FieldPart(coerce, v, inputs, q) \/ DefaultPart(q, 0)
<1>1. PICK value : value = [f \in DOMAIN inputs |->
                              IF f \in DOMAIN v.fields THEN coerce[v.fields[f]][inputs[f].type] ELSE DefaultOf(inputs[f])]
  OBVIOUS
<1>2. PICK given : given = {n \in DOMAIN value : value[n] # Absent}
  OBVIOUS
<1>3. /\ r = [kind |-> "object", fields |-> [n \in given |-> value[n]]] /\ v.kind = "object"
      /\ Refused \notin PartsOf(value)
  BY <1>1, <1>2 DEF FieldsIn, ObjectValue, Whole
<1>4. r.kind = "object" /\ r.fields = [n \in given |-> value[n]] /\ r # Null
  BY <1>3, KindsDiffer
<1>5. Typed(r, t).value = r /\ Typed(r, t).type = t
  BY DEF Typed
<1>6. DOMAIN value = DOMAIN inputs
  BY <1>1
<1>7. ASSUME NEW f \in DOMAIN inputs, f \notin DOMAIN r.fields PROVE ~Is(inputs[f].type, "nonnull")
  <2>1. value[f] = Absent
    BY <1>2, <1>4, <1>6, <1>7
  <2>2. f \notin DOMAIN v.fields
    BY <1>1, <2>1 DEF NoneAbsent
  <2>3. DefaultOf(inputs[f]) = Absent
    BY <1>1, <2>1, <2>2
  <2> QED BY <2>3, KindsDiffer DEF DefaultOf
<1>8. ~Is(t, "nonnull") /\ ~Is(t, "list")
  BY DEF Is
<1>9. Fits(Typed(r, t))
  BY <1>4, <1>5, <1>7, <1>8 DEF Fits
<1>10. ASSUME NEW q \in BelowTyped(Typed(r, t))
       PROVE  FieldPart(coerce, v, inputs, q) \/ DefaultPart(q, 0)
  <2>1. PICK f \in DOMAIN inputs \cap DOMAIN r.fields : q = Typed(r.fields[f], inputs[f].type)
    BY <1>4, <1>5, <1>8 DEF BelowTyped
  <2>2. r.fields[f] = value[f] /\ value[f] # Absent /\ value[f] # Refused
    BY <1>2, <1>3, <1>4, <1>6, <2>1 DEF PartsOf
  <2>3. CASE f \in DOMAIN v.fields
    <3>1. value[f] = coerce[v.fields[f]][inputs[f].type]
      BY <1>1, <2>3
    <3> QED BY <2>1, <2>2, <2>3, <3>1 DEF Typed, FieldPart
  <2>4. CASE f \notin DOMAIN v.fields
    <3>1. value[f] = DefaultOf(inputs[f])
      BY <1>1, <2>4
    <3>2. value[f] = inputs[f].default /\ inputs[f].default # Absent
      BY <2>2, <3>1 DEF DefaultOf
    <3>3. t.name \in DOMAIN Types /\ f \in DOMAIN Types[t.name].inputs
      BY <2>1 DEF InputRefs, TypeRefs
    <3>4. PICK d, ty : d = Types[t.name].inputs[f].default /\ ty = Types[t.name].inputs[f].type
      OBVIOUS
    <3>5. PartsAt(d, ty)[0] = Alone(Typed(d, ty))
      BY PartsAre
    <3>6. q = Typed(d, ty) /\ d # Absent
      BY <2>1, <2>2, <3>2, <3>4
    <3>7. q \in PartsAt(d, ty)[0]
      BY <3>5, <3>6 DEF Alone
    <3> QED BY <3>3, <3>4, <3>6, <3>7, DefaultIsPart
  <2> QED BY <2>3, <2>4
<1> QED BY <1>3, <1>4, <1>9, <1>10

LEMMA ScalarFits ==
  ASSUME NEW v, NEW t \in InputRefs, t.wraps = <<>>, Kind(t.name) = "scalar", NEW r, r = ParseScalar(t.name, v), r # Refused
  PROVE  r.kind \notin {"refused", "absent", "null"} /\ Fits(Typed(r, t)) /\ BelowTyped(Typed(r, t)) = {}
<1>1. t.name \in DOMAIN Types /\ t.name \in {"Int", "Float", "String", "Boolean", "ID"}
  BY InputTypesAssumption DEF InputRefs, TypeRefs, ScalarKinds
<1>2. /\ r = [kind |-> NativeKind[t.name], of |-> v.of] /\ ~TooWide(t.name, v)
  BY DEF ParseScalar
<1>3. NativeKind[t.name] \in {"int", "float", "string", "bool"}
  BY <1>1 DEF NativeKind
<1>4. r.kind = NativeKind[t.name] /\ r.of = v.of /\ r # Null
  BY <1>2, <1>3, KindsDiffer
<1>5. Typed(r, t).value = r /\ Typed(r, t).type = t
  BY DEF Typed
<1>6. ~Is(t, "nonnull") /\ ~Is(t, "list")
  BY DEF Is
<1>7. Fits(Typed(r, t))
  BY <1>2, <1>4, <1>5, <1>6 DEF Fits, TooWide
<1>8. BelowTyped(Typed(r, t)) = {}
  BY <1>4, <1>5, <1>6 DEF BelowTyped
<1> QED BY <1>3, <1>4, <1>7, <1>8

LEMMA EnumFits ==
  ASSUME NEW name, NEW t \in InputRefs, t.wraps = <<>>, Kind(t.name) = "enum", NEW r, r = EnumMember(t.name, name), r # Refused
  PROVE  r.kind \notin {"refused", "absent", "null"} /\ Fits(Typed(r, t)) /\ BelowTyped(Typed(r, t)) = {}
<1>1. r = [kind |-> "member", of |-> name] /\ name \in Types[t.name].values
  BY DEF EnumMember
<1>2. r.kind = "member" /\ r.of = name /\ r # Null
  BY <1>1, KindsDiffer
<1>3. Typed(r, t).value = r /\ Typed(r, t).type = t
  BY DEF Typed
<1>4. ~Is(t, "nonnull") /\ ~Is(t, "list")
  BY DEF Is
<1>5. Fits(Typed(r, t))
  BY <1>1, <1>2, <1>3, <1>4 DEF Fits
<1>6. BelowTyped(Typed(r, t)) = {}
  BY <1>2, <1>3, <1>4 DEF BelowTyped
<1> QED BY <1>2, <1>5, <1>6

LEMMA NullFits ==
  ASSUME NEW t, ~Is(t, "nonnull")
  PROVE  Fits(Typed(Null, t)) /\ BelowTyped(Typed(Null, t)) = {}
BY DEF Fits, BelowTyped, Typed
-----------------------------------------------------------------------------
(* What coercing one level comes to.                                       *)

\* The parsers of lists, scalars, enums and input objects never give null.
LEMMA PartsAreSome ==
  ASSUME NEW coerce, NEW v, NEW t, NEW inputs
  PROVE  ItemsOf(coerce, v, t) \notin {Null, Absent} /\ FieldsIn(coerce, v, inputs) \notin {Null, Absent}
<1>1. ASSUME NEW items PROVE ListValue(items) \notin {Null, Absent}
  BY KindsDiffer DEF ListValue, Whole
<1>2. ASSUME NEW value PROVE ObjectValue(value) \notin {Null, Absent}
  BY KindsDiffer DEF ObjectValue, Whole
<1>3. ItemsOf(coerce, v, t) \notin {Null, Absent}
  BY <1>1 DEF ItemsOf
<1>4. FieldsIn(coerce, v, inputs) \notin {Null, Absent}
  BY <1>2, KindsDiffer DEF FieldsIn
<1> QED BY <1>3, <1>4

LEMMA LeafsAreSome ==
  ASSUME NEW t \in InputRefs, NEW v
  PROVE  /\ Kind(t.name) = "scalar" => ParseScalar(t.name, v) \notin {Null, Absent}
         /\ \A name : EnumMember(t.name, name) \notin {Null, Absent}
<1>1. ASSUME Kind(t.name) = "scalar" PROVE ParseScalar(t.name, v) \notin {Null, Absent}
  <2>1. t.name \in {"Int", "Float", "String", "Boolean", "ID"}
    BY <1>1, InputTypesAssumption DEF InputRefs, TypeRefs, ScalarKinds
  <2>2. NativeKind[t.name] \in {"int", "float", "string", "bool"}
    BY <2>1 DEF NativeKind
  <2> QED BY <2>2, KindsDiffer DEF ParseScalar
<1>2. ASSUME NEW name PROVE EnumMember(t.name, name) \notin {Null, Absent}
  BY KindsDiffer DEF EnumMember
<1> QED BY <1>1, <1>2

LEMMA InputCases ==
  ASSUME NEW coerce, NEW v, NEW t \in InputRefs, NEW r, r = InputOf(coerce, v, t)
  PROVE  \/ Is(t, "nonnull") /\ v = Null /\ r = Refused
         \/ Is(t, "nonnull") /\ v # Null /\ r = coerce[v][Inner(t)]
         \/ ~Is(t, "nonnull") /\ v = Null /\ r = Null
         \/ ~Is(t, "nonnull") /\ v # Null /\ Is(t, "list") /\ r = ItemsOf(coerce, v, t)
         \/ v # Null /\ t.wraps = <<>> /\ Kind(t.name) = "scalar" /\ r = ParseScalar(t.name, v)
         \/ /\ v # Null /\ t.wraps = <<>> /\ Kind(t.name) = "enum"
            /\ r = IF v.kind = "string" THEN EnumMember(t.name, v.of) ELSE Refused
         \/ v # Null /\ t.wraps = <<>> /\ Kind(t.name) = "input" /\ r = FieldsIn(coerce, v, Types[t.name].inputs)
<1>1. CASE Is(t, "nonnull")
  BY <1>1 DEF InputOf
<1>2. CASE ~Is(t, "nonnull") /\ v = Null
  BY <1>2 DEF InputOf
<1>3. CASE ~Is(t, "nonnull") /\ v # Null /\ Is(t, "list")
  BY <1>3 DEF InputOf
<1>4. CASE ~Is(t, "nonnull") /\ v # Null /\ ~Is(t, "list")
  <2>1. t.wraps = <<>> /\ Kind(t.name) \in {"scalar", "enum", "input"}
    BY <1>4, UnwrappedRef DEF InputRefs, InputKinds
  <2>2. r = CASE Kind(t.name) = "scalar" -> ParseScalar(t.name, v)
              [] Kind(t.name) = "enum" -> IF v.kind = "string" THEN EnumMember(t.name, v.of) ELSE Refused
              [] Kind(t.name) = "input" -> FieldsIn(coerce, v, Types[t.name].inputs)
              [] OTHER -> v
    BY <1>4 DEF InputOf
  <2> QED BY <1>4, <2>1, <2>2
<1> QED BY <1>1, <1>2, <1>3, <1>4

LEMMA LiteralCases ==
  ASSUME NEW coerce, NEW v, NEW t \in InputRefs, NEW r, r = LiteralOf(coerce, v, t)
  PROVE  \/ Is(t, "nonnull") /\ r = NotNull(coerce[v][Inner(t)])
         \/ ~Is(t, "nonnull") /\ v = Null /\ r = Null
         \/ ~Is(t, "nonnull") /\ v # Null /\ Is(t, "list") /\ r = ItemsOf(coerce, v, t)
         \/ v # Null /\ t.wraps = <<>> /\ Kind(t.name) = "scalar" /\ r = ParseScalar(t.name, v)
         \/ /\ v # Null /\ t.wraps = <<>> /\ Kind(t.name) = "enum"
            /\ r = IF v.kind = "enum" THEN EnumMember(t.name, v.of) ELSE Refused
         \/ v # Null /\ t.wraps = <<>> /\ Kind(t.name) = "input" /\ r = FieldsIn(coerce, v, Types[t.name].inputs)
<1>1. CASE Is(t, "nonnull")
  BY <1>1 DEF LiteralOf
<1>2. CASE ~Is(t, "nonnull") /\ v = Null
  BY <1>2 DEF LiteralOf
<1>3. CASE ~Is(t, "nonnull") /\ v # Null /\ Is(t, "list")
  BY <1>3 DEF LiteralOf
<1>4. CASE ~Is(t, "nonnull") /\ v # Null /\ ~Is(t, "list")
  <2>1. t.wraps = <<>> /\ Kind(t.name) \in {"scalar", "enum", "input"}
    BY <1>4, UnwrappedRef DEF InputRefs, InputKinds
  <2>2. r = CASE Kind(t.name) = "scalar" -> ParseScalar(t.name, v)
              [] Kind(t.name) = "enum" -> IF v.kind = "enum" THEN EnumMember(t.name, v.of) ELSE Refused
              [] Kind(t.name) = "input" -> FieldsIn(coerce, v, Types[t.name].inputs)
              [] OTHER -> Null
    BY <1>4 DEF LiteralOf
  <2> QED BY <1>4, <2>1, <2>2
<1> QED BY <1>1, <1>2, <1>3, <1>4

\* What is null comes out null or is refused, and nothing else comes out null.
LEMMA InputIsSome ==
  ASSUME NEW n \in 0..MaxDepth, NEW v \in Values, NEW t \in InputRefs, NEW r, r = InputValue[n][v][t]
  PROVE  r # Absent /\ (v = Null => r \in {Null, Refused}) /\ (v # Null => r # Null)
<1> DEFINE Some(w, s) == s # Absent /\ (w = Null => s \in {Null, Refused}) /\ (w # Null => s # Null)
<1> DEFINE T == {m \in Nat : m \in 0..MaxDepth /\ \E w \in Values, u \in InputRefs : ~Some(w, InputValue[m][w][u])}
<1>1. SUFFICES ASSUME T # {} PROVE FALSE
  <2>1. n \in Nat /\ n \notin T
    BY <1>1, DepthAssumption
  <2> QED BY <2>1
<1>2. PICK m \in T : \A k \in T : m <= k
  BY <1>1, LeastOf
<1>3. PICK w \in Values, u \in InputRefs : ~Some(w, InputValue[m][w][u])
  BY <1>2
<1>4. u \in TypeRefs
  BY DEF InputRefs
<1>5. m # 0
  <2>1. InputValue[0][w][u] = Refused
    BY <1>4, InputIs
  <2> QED BY <1>3, <2>1, KindsDiffer
<1>6. m \in 1..MaxDepth /\ m - 1 \in 0..MaxDepth /\ m - 1 \in Nat /\ m - 1 \notin T
  BY <1>2, <1>5, DepthAssumption
<1>7. PICK coerce, s : coerce = InputValue[m - 1] /\ s = InputValue[m][w][u]
  OBVIOUS
<1>8. s = InputOf(coerce, w, u)
  BY <1>4, <1>6, <1>7, InputIs
<1>9. Is(u, "nonnull") => Some(w, coerce[w][Inner(u)])
  <2>1. Is(u, "nonnull") => Inner(u) \in InputRefs
    BY InnerRef
  <2> QED BY <1>6, <1>7, <2>1
<1>10. PICK inputs, i : inputs = Types[u.name].inputs /\ i = w.of
  OBVIOUS
<1>11. /\ ItemsOf(coerce, w, u) \notin {Null, Absent} /\ FieldsIn(coerce, w, inputs) \notin {Null, Absent}
       /\ EnumMember(u.name, i) \notin {Null, Absent}
       /\ Kind(u.name) = "scalar" => ParseScalar(u.name, w) \notin {Null, Absent}
  BY PartsAreSome, LeafsAreSome
<1>12. Some(w, s)
  <2> HIDE DEF T
  <2>1. CASE Is(u, "nonnull") /\ w = Null /\ s = Refused
    BY <2>1, KindsDiffer
  <2>2. CASE Is(u, "nonnull") /\ w # Null /\ s = coerce[w][Inner(u)]
    BY <1>9, <2>2
  <2>3. CASE ~Is(u, "nonnull") /\ w = Null /\ s = Null
    BY <2>3, KindsDiffer
  <2>4. CASE ~Is(u, "nonnull") /\ w # Null /\ Is(u, "list") /\ s = ItemsOf(coerce, w, u)
    BY <1>11, <2>4
  <2>5. CASE w # Null /\ u.wraps = <<>> /\ Kind(u.name) = "scalar" /\ s = ParseScalar(u.name, w)
    BY <1>11, <2>5
  <2>6. CASE w # Null /\ s = IF w.kind = "string" THEN EnumMember(u.name, w.of) ELSE Refused
    BY <1>10, <1>11, <2>6, KindsDiffer
  <2>7. CASE w # Null /\ u.wraps = <<>> /\ Kind(u.name) = "input" /\ s = FieldsIn(coerce, w, Types[u.name].inputs)
    BY <1>10, <1>11, <2>7
  <2> QED BY <1>8, <2>1, <2>2, <2>3, <2>4, <2>5, <2>6, <2>7, InputCases
<1> QED BY <1>3, <1>7, <1>12

\* No variables on the first levels of a literal.
Constant(v, n) == \A k \in 0..n : \A w \in PartsIn(v)[k] : w.kind # "var"

LEMMA PartsStepDown ==
  ASSUME NEW v, NEW w \in PartsOfValue(v), NEW n \in 0..MaxDepth, n < MaxDepth
  PROVE  PartsIn(w)[n] \subseteq PartsIn(v)[n + 1]
<1> DEFINE T == {m \in Nat : m < MaxDepth /\ ~(PartsIn(w)[m] \subseteq PartsIn(v)[m + 1])}
<1>1. SUFFICES ASSUME T # {} PROVE FALSE
  <2>1. n \in Nat /\ n \notin T
    BY <1>1, DepthAssumption
  <2> QED BY <2>1
<1>2. PICK m \in T : \A k \in T : m <= k
  BY <1>1, LeastOf
<1>3. m # 0
  <2>1. PartsIn(w)[0] = Alone(w) /\ PartsIn(v)[0] = Alone(v)
    BY WithinAre
  <2>2. 1 \in 1..MaxDepth
    BY <1>2, DepthAssumption
  <2>3. PartsIn(v)[1] = PartsOfAll(PartsIn(v)[1 - 1])
    BY <2>2, WithinAre
  <2>4. w \in PartsIn(v)[1]
    BY <2>1, <2>3 DEF Alone, PartsOfAll
  <2> QED BY <1>2, <2>1, <2>4 DEF Alone
<1>4. m - 1 \in Nat /\ m - 1 \notin T /\ m \in 1..MaxDepth /\ m + 1 \in 1..MaxDepth /\ (m - 1) + 1 = m /\ (m + 1) - 1 = m
  BY <1>2, <1>3, DepthAssumption
<1>5. PICK a, b : a = PartsIn(w)[m - 1] /\ b = PartsIn(v)[m]
  OBVIOUS
<1>6. a \subseteq b
  <2>1. m - 1 < MaxDepth
    BY <1>4, DepthAssumption
  <2>2. PartsIn(w)[m - 1] \subseteq PartsIn(v)[(m - 1) + 1]
    BY <1>4, <2>1
  <2> QED BY <1>4, <1>5, <2>2
<1>7. PartsIn(w)[m] = PartsOfAll(a)
  BY <1>4, <1>5, WithinAre
<1>8. PartsIn(v)[m + 1] = PartsOfAll(b)
  <2>1. PartsIn(v)[m + 1] = PartsOfAll(PartsIn(v)[(m + 1) - 1])
    BY <1>4, WithinAre
  <2> QED BY <1>4, <1>5, <2>1
<1> QED BY <1>2, <1>6, <1>7, <1>8 DEF PartsOfAll

LEMMA ConstantIs ==
  ASSUME NEW v, NEW n \in 0..MaxDepth, Constant(v, n)
  PROVE  /\ v.kind # "var"
         /\ n # 0 => Constant(v, n - 1) /\ \A w \in PartsOfValue(v) : Constant(w, n - 1)
<1>1. v.kind # "var"
  <2>1. 0 \in 0..n /\ PartsIn(v)[0] = Alone(v)
    BY DepthAssumption, WithinAre
  <2> QED BY <2>1 DEF Constant, Alone
<1>2. ASSUME n # 0 PROVE Constant(v, n - 1)
  <2>1. 0..n - 1 \subseteq 0..n
    BY <1>2, DepthAssumption
  <2> QED BY <2>1 DEF Constant
<1>3. ASSUME n # 0, NEW w \in PartsOfValue(v) PROVE Constant(w, n - 1)
  <2>1. SUFFICES ASSUME NEW k \in 0..n - 1, NEW x \in PartsIn(w)[k] PROVE x.kind # "var"
    BY DEF Constant
  <2>2. k \in 0..MaxDepth /\ k < MaxDepth /\ k + 1 \in 0..n
    BY <1>3, DepthAssumption
  <2>3. x \in PartsIn(v)[k + 1]
    BY <2>1, <2>2, PartsStepDown
  <2> QED BY <2>2, <2>3 DEF Constant
<1> QED BY <1>1, <1>2, <1>3

LEMMA ConstantItems ==
  ASSUME NEW v \in Values, NEW n \in 0..MaxDepth, n # 0, Constant(v, n)
  PROVE  /\ \A i \in DOMAIN ListItems(v) : ListItems(v)[i] \in Values /\ Constant(ListItems(v)[i], n - 1)
         /\ v.kind = "object" => \A f \in DOMAIN v.fields : v.fields[f] \in Values /\ Constant(v.fields[f], n - 1)
<1>1. Constant(v, n - 1) /\ \A w \in PartsOfValue(v) : Constant(w, n - 1)
  BY ConstantIs
<1>2. ASSUME v.kind = "object", NEW f \in DOMAIN v.fields
      PROVE  v.fields[f] \in Values /\ Constant(v.fields[f], n - 1)
  <2>1. v.fields[f] \in PartsOfValue(v)
    BY <1>2 DEF PartsOfValue, PartsOf
  <2> QED BY <1>1, <1>2, <2>1, ValuesAssumption
<1>3. ASSUME NEW i \in DOMAIN ListItems(v)
      PROVE  ListItems(v)[i] \in Values /\ Constant(ListItems(v)[i], n - 1)
  <2>1. CASE v.kind = "list"
    <3>1. ListItems(v)[i] \in PartsOfValue(v)
      BY <1>3, <2>1 DEF PartsOfValue, PartsOf, ListItems
    <3> QED BY <1>1, <1>3, <3>1, ItemsAreValues
  <2>2. CASE v.kind # "list"
    <3>1. ListItems(v)[i] = v
      BY <1>3, <2>2, ItemsAreValues
    <3> QED BY <1>1, <3>1
  <2> QED BY <2>1, <2>2
<1> QED BY <1>2, <1>3

\* A literal that is no variable has a value, or is refused.
LEMMA LiteralIsSome ==
  ASSUME NEW values, NEW n \in 0..MaxDepth, NEW v \in Values, v.kind # "var", NEW t \in InputRefs
  PROVE  LiteralValue(values)[n][v][t] # Absent
<1> DEFINE T == {m \in Nat : m \in 0..MaxDepth /\ \E u \in InputRefs : LiteralValue(values)[m][v][u] = Absent}
<1>1. SUFFICES ASSUME T # {} PROVE FALSE
  <2>1. n \in Nat /\ n \notin T
    BY <1>1, DepthAssumption
  <2> QED BY <2>1
<1>2. PICK m \in T : \A k \in T : m <= k
  BY <1>1, LeastOf
<1>3. PICK u \in InputRefs : LiteralValue(values)[m][v][u] = Absent
  BY <1>2
<1>4. u \in TypeRefs
  BY DEF InputRefs
<1>5. m # 0
  <2>1. LiteralValue(values)[0][v][u] = Refused
    BY <1>4, LiteralIs
  <2> QED BY <1>3, <2>1, KindsDiffer
<1>6. m \in 1..MaxDepth /\ m - 1 \in 0..MaxDepth /\ m - 1 \in Nat /\ m - 1 \notin T
  BY <1>2, <1>5, DepthAssumption
<1>7. PICK coerce : coerce = LiteralValue(values)[m - 1]
  OBVIOUS
<1>8. PICK r : r = LiteralOf(coerce, v, u)
  OBVIOUS
<1>9. r = Absent
  BY <1>3, <1>4, <1>6, <1>7, <1>8, LiteralIs
<1>10. Is(u, "nonnull") => coerce[v][Inner(u)] # Absent
  <2>1. Is(u, "nonnull") => Inner(u) \in InputRefs
    BY InnerRef
  <2> QED BY <1>6, <1>7, <2>1
<1>11. PICK inputs, i : inputs = Types[u.name].inputs /\ i = v.of
  OBVIOUS
<1>12. /\ ItemsOf(coerce, v, u) # Absent /\ FieldsIn(coerce, v, inputs) # Absent /\ EnumMember(u.name, i) # Absent
       /\ Kind(u.name) = "scalar" => ParseScalar(u.name, v) # Absent
  BY PartsAreSome, LeafsAreSome
<1> HIDE DEF T
<1>13. r # Absent
  <2>1. CASE Is(u, "nonnull") /\ r = NotNull(coerce[v][Inner(u)])
    BY <1>10, <2>1, KindsDiffer DEF NotNull
  <2>2. CASE r = Null
    BY <2>2, KindsDiffer
  <2>3. CASE r = ItemsOf(coerce, v, u)
    BY <1>12, <2>3
  <2>4. CASE Kind(u.name) = "scalar" /\ r = ParseScalar(u.name, v)
    BY <1>12, <2>4
  <2>5. CASE r = IF v.kind = "enum" THEN EnumMember(u.name, v.of) ELSE Refused
    BY <1>11, <1>12, <2>5, KindsDiffer
  <2>6. CASE r = FieldsIn(coerce, v, Types[u.name].inputs)
    BY <1>11, <1>12, <2>6
  <2> QED BY <1>8, <2>1, <2>2, <2>3, <2>4, <2>5, <2>6, LiteralCases
<1> QED BY <1>9, <1>13

-----------------------------------------------------------------------------
(* What is coerced conforms.                                               *)

\* A value that coercion gives, of JSON or of a literal without variables, or a part
\* of a default.
Coerced(p) ==
  \E n \in 0..MaxDepth, v \in Values, t \in InputRefs : p = Typed(InputValue[n][v][t], t) /\ p.value # Refused
Evaluated(values, p) ==
  \E n \in 0..MaxDepth, v \in Values, t \in InputRefs :
    Constant(v, n) /\ p = Typed(LiteralValue(values)[n][v][t], t) /\ p.value # Refused
Sent(values, p, k) == Coerced(p) \/ Evaluated(values, p) \/ DefaultPart(p, k)

\* The value itself, and what is one level below.
SentOn(values, p, k) == Fits(p) /\ (k < MaxDepth => \A q \in BelowTyped(p) : Sent(values, q, k + 1))

LEMMA DefaultsLater ==
  ASSUME NEW k \in Nat, NEW p, DefaultPart(p, 0)
  PROVE  DefaultPart(p, k)
<1>1. 0..0 \subseteq 0..k
  OBVIOUS
<1> QED BY <1>1 DEF DefaultPart

LEMMA DefaultsGoOn ==
  ASSUME NEW values, NEW p, NEW k \in 0..MaxDepth, DefaultPart(p, k)
  PROVE  SentOn(values, p, k)
<1>0. PICK n \in DOMAIN Types : Kind(n) = "input" /\ \E f \in DOMAIN Types[n].inputs :
        /\ Types[n].inputs[f].default # Absent
        /\ \E j \in 0..k : p \in PartsAt(Types[n].inputs[f].default, Types[n].inputs[f].type)[j]
  BY DEF DefaultPart
<1> PICK f \in DOMAIN Types[n].inputs :
      /\ Types[n].inputs[f].default # Absent
      /\ \E j \in 0..k : p \in PartsAt(Types[n].inputs[f].default, Types[n].inputs[f].type)[j]
  BY <1>0
<1> PICK d, type : d = Types[n].inputs[f].default /\ type = Types[n].inputs[f].type
  OBVIOUS
<1> PICK j \in 0..k : p \in PartsAt(d, type)[j]
  OBVIOUS
<1>1. /\ Kind(n) = "input" /\ d = Types[n].inputs[f].default /\ d # Absent /\ type = Types[n].inputs[f].type
      /\ p \in PartsAt(d, type)[j]
  BY <1>0
<1>2. Fits(p)
  <2>1. Conforms(d, type) /\ j \in 0..MaxDepth
    BY <1>1, InputTypesAssumption, DepthAssumption
  <2> QED BY <1>1, <2>1 DEF Conforms
<1>3. ASSUME k < MaxDepth, NEW q \in BelowTyped(p) PROVE DefaultPart(q, k + 1)
  <2>1. j + 1 \in 1..MaxDepth /\ (j + 1) - 1 = j /\ j + 1 \in 0..k + 1
    BY <1>3, DepthAssumption
  <2>2. PartsAt(d, type)[j + 1] = BelowAllTyped(PartsAt(d, type)[(j + 1) - 1])
    BY <2>1, PartsAre
  <2>3. q \in PartsAt(d, type)[j + 1]
    BY <1>1, <1>3, <2>1, <2>2 DEF BelowAllTyped
  <2> QED BY <1>1, <2>1, <2>3 DEF DefaultPart
<1> QED BY <1>2, <1>3 DEF SentOn, Sent

LEMMA SentBelow ==
  ASSUME NEW values, NEW p, NEW k \in 0..MaxDepth, Fits(p),
         \A q \in BelowTyped(p) : Coerced(q) \/ Evaluated(values, q) \/ DefaultPart(q, 0)
  PROVE  SentOn(values, p, k)
<1>1. k + 1 \in Nat
  BY DepthAssumption
<1> QED BY <1>1, DefaultsLater DEF SentOn, Sent

LEMMA BelowNonNull ==
  ASSUME NEW t, Is(t, "nonnull"), NEW r, r # Null
  PROVE  Fits(Typed(r, t)) /\ BelowTyped(Typed(r, t)) = {Typed(r, Inner(t))}
BY DEF Fits, BelowTyped, Typed

LEMMA InputRefOf ==
  ASSUME NEW n \in DOMAIN Types, Kind(n) = "input", NEW f \in DOMAIN Types[n].inputs
  PROVE  Types[n].inputs[f].type \in InputRefs
BY InputTypesAssumption DEF InputRefs

LEMMA CoercedGoesOn ==
  ASSUME NEW values, NEW p, NEW k \in 0..MaxDepth, Coerced(p)
  PROVE  SentOn(values, p, k)
<1>0. PICK n \in 0..MaxDepth, v \in Values, t \in InputRefs : p = Typed(InputValue[n][v][t], t) /\ p.value # Refused
  BY DEF Coerced
<1> PICK r : r = InputValue[n][v][t]
  OBVIOUS
<1>1. r = InputValue[n][v][t] /\ p = Typed(r, t) /\ r # Refused
  BY <1>0 DEF Typed
<1>2. t \in TypeRefs
  BY DEF InputRefs
<1>3. n # 0
  <2>1. InputValue[0][v][t] = Refused
    BY <1>2, InputIs
  <2> QED BY <1>1, <2>1
<1>4. n \in 1..MaxDepth /\ n - 1 \in 0..MaxDepth
  BY <1>3, DepthAssumption
<1>5. PICK coerce : coerce = InputValue[n - 1]
  OBVIOUS
<1>6. r = InputOf(coerce, v, t)
  BY <1>1, <1>2, <1>4, <1>5, InputIs
<1>7. \A w \in Values, u \in InputRefs : LET q == Typed(coerce[w][u], u) IN q.value # Refused => Coerced(q)
  BY <1>4, <1>5 DEF Coerced
<1>8. SUFFICES Fits(p) /\ \A q \in BelowTyped(p) : Coerced(q) \/ DefaultPart(q, 0)
  BY SentBelow
<1>9. CASE Is(t, "nonnull") /\ v = Null /\ r = Refused
  BY <1>1, <1>9
<1>10. CASE Is(t, "nonnull") /\ v # Null /\ r = coerce[v][Inner(t)]
  <2>1. Inner(t) \in InputRefs
    BY <1>10, InnerRef
  <2>2. r # Null
    BY <1>1, <1>10, InputIsSome
  <2>3. PICK u : u = Inner(t)
    OBVIOUS
  <2>4. Typed(r, u).value # Refused
    BY <1>1 DEF Typed
  <2>5. Coerced(Typed(r, u))
    BY <1>7, <1>10, <2>1, <2>3, <2>4
  <2> QED BY <1>1, <1>10, <2>2, <2>3, <2>5, BelowNonNull
<1>11. CASE ~Is(t, "nonnull") /\ v = Null /\ r = Null
  BY <1>1, <1>11, NullFits
<1>12. CASE ~Is(t, "nonnull") /\ v # Null /\ Is(t, "list") /\ r = ItemsOf(coerce, v, t)
  <2>1. /\ Fits(Typed(r, t))
        /\ \A q \in BelowTyped(Typed(r, t)) : \E i \in DOMAIN ListItems(v) :
             q = Typed(coerce[ListItems(v)[i]][Inner(t)], Inner(t)) /\ q.value # Refused
    BY <1>1, <1>12, ItemsFit
  <2>2. Inner(t) \in InputRefs /\ \A i \in DOMAIN ListItems(v) : ListItems(v)[i] \in Values
    BY <1>12, InnerRef, ItemsAreValues
  <2> QED BY <1>1, <1>7, <2>1, <2>2
<1>13. CASE v # Null /\ t.wraps = <<>> /\ Kind(t.name) = "scalar" /\ r = ParseScalar(t.name, v)
  BY <1>1, <1>13, ScalarFits
<1>14. CASE t.wraps = <<>> /\ Kind(t.name) = "enum" /\ r = IF v.kind = "string" THEN EnumMember(t.name, v.of) ELSE Refused
  <2>1. PICK i : i = v.of
    OBVIOUS
  <2>2. r = EnumMember(t.name, i)
    BY <1>1, <1>14, <2>1
  <2> QED BY <1>1, <1>14, <2>2, EnumFits
<1>15. CASE t.wraps = <<>> /\ Kind(t.name) = "input" /\ r = FieldsIn(coerce, v, Types[t.name].inputs)
  <2>1. PICK inputs : inputs = Types[t.name].inputs
    OBVIOUS
  <2>2. v.kind = "object" /\ \A f \in DOMAIN v.fields : v.fields[f] \in Values
    BY <1>1, <1>15, ValuesAssumption DEF FieldsIn
  <2>3. t.name \in DOMAIN Types /\ \A f \in DOMAIN inputs : inputs[f].type \in InputRefs
    <3>1. t.name \in DOMAIN Types
      BY <1>2 DEF TypeRefs
    <3> QED BY <1>15, <2>1, <3>1, InputRefOf
  <2>4. NoneAbsent(coerce, v, inputs)
    BY <1>4, <1>5, <2>2, <2>3, InputIsSome DEF NoneAbsent
  <2>5. r = FieldsIn(coerce, v, inputs)
    BY <1>15, <2>1
  <2>6. /\ Fits(Typed(r, t))
        /\ \A q \in BelowTyped(Typed(r, t)) : FieldPart(coerce, v, inputs, q) \/ DefaultPart(q, 0)
    BY <1>1, <1>15, <2>1, <2>4, <2>5, FieldsFit
  <2>7. ASSUME NEW q, FieldPart(coerce, v, inputs, q) PROVE Coerced(q)
    BY <1>7, <2>2, <2>3, <2>7 DEF FieldPart
  <2> QED BY <1>1, <2>6, <2>7
<1> QED BY <1>6, <1>9, <1>10, <1>11, <1>12, <1>13, <1>14, <1>15, InputCases

LEMMA EvaluatedGoesOn ==
  ASSUME NEW values, NEW p, NEW k \in 0..MaxDepth, Evaluated(values, p)
  PROVE  SentOn(values, p, k)
<1>0. PICK n \in 0..MaxDepth, v \in Values, t \in InputRefs :
        Constant(v, n) /\ p = Typed(LiteralValue(values)[n][v][t], t) /\ p.value # Refused
  BY DEF Evaluated
<1> PICK r : r = LiteralValue(values)[n][v][t]
  OBVIOUS
<1>1. Constant(v, n) /\ r = LiteralValue(values)[n][v][t] /\ p = Typed(r, t) /\ r # Refused
  BY <1>0 DEF Typed
<1>2. t \in TypeRefs /\ v.kind # "var"
  BY <1>1, ConstantIs DEF InputRefs
<1>3. n # 0
  <2>1. LiteralValue(values)[0][v][t] = Refused
    BY <1>2, LiteralIs
  <2> QED BY <1>1, <2>1
<1>4. n \in 1..MaxDepth /\ n - 1 \in 0..MaxDepth
  BY <1>3, DepthAssumption
<1>5. PICK coerce : coerce = LiteralValue(values)[n - 1]
  OBVIOUS
<1>6. r = LiteralOf(coerce, v, t)
  <2>1. LiteralValue(values)[n][v][t] = LiteralOf(LiteralValue(values)[n - 1], v, t)
    BY <1>2, <1>4, LiteralIs
  <2> QED BY <1>1, <1>5, <2>1
<1>7. ASSUME NEW w \in Values, Constant(w, n - 1), NEW u \in InputRefs, NEW q, q = Typed(coerce[w][u], u), q.value # Refused
      PROVE  Evaluated(values, q)
  BY <1>4, <1>5, <1>7 DEF Evaluated
<1>8. SUFFICES Fits(p) /\ \A q \in BelowTyped(p) : Evaluated(values, q) \/ DefaultPart(q, 0)
  BY SentBelow
<1>9. CASE Is(t, "nonnull") /\ r = NotNull(coerce[v][Inner(t)])
  <2>1. Inner(t) \in InputRefs /\ Constant(v, n - 1)
    BY <1>1, <1>3, <1>9, InnerRef, ConstantIs
  <2>2. r # Null /\ r = coerce[v][Inner(t)]
    BY <1>1, <1>9, KindsDiffer DEF NotNull
  <2>3. PICK u : u = Inner(t)
    OBVIOUS
  <2>4. PICK q : q = Typed(r, u)
    OBVIOUS
  <2>5. q.value # Refused
    BY <1>1, <2>4 DEF Typed
  <2>6. Evaluated(values, q)
    BY <1>7, <2>1, <2>2, <2>3, <2>4, <2>5
  <2> QED BY <1>1, <1>9, <2>2, <2>3, <2>4, <2>6, BelowNonNull
<1>10. CASE ~Is(t, "nonnull") /\ v = Null /\ r = Null
  BY <1>1, <1>10, NullFits
<1>11. CASE ~Is(t, "nonnull") /\ Is(t, "list") /\ r = ItemsOf(coerce, v, t)
  <2>1. /\ Fits(Typed(r, t))
        /\ \A q \in BelowTyped(Typed(r, t)) : \E i \in DOMAIN ListItems(v) :
             q = Typed(coerce[ListItems(v)[i]][Inner(t)], Inner(t)) /\ q.value # Refused
    BY <1>1, <1>11, ItemsFit
  <2>2. Inner(t) \in InputRefs /\ \A i \in DOMAIN ListItems(v) : ListItems(v)[i] \in Values /\ Constant(ListItems(v)[i], n - 1)
    BY <1>1, <1>3, <1>11, InnerRef, ConstantItems
  <2> QED BY <1>1, <1>7, <2>1, <2>2
<1>12. CASE t.wraps = <<>> /\ Kind(t.name) = "scalar" /\ r = ParseScalar(t.name, v)
  BY <1>1, <1>12, ScalarFits
<1>13. CASE t.wraps = <<>> /\ Kind(t.name) = "enum" /\ r = IF v.kind = "enum" THEN EnumMember(t.name, v.of) ELSE Refused
  <2>1. PICK i : i = v.of
    OBVIOUS
  <2>2. r = EnumMember(t.name, i)
    BY <1>1, <1>13, <2>1
  <2> QED BY <1>1, <1>13, <2>2, EnumFits
<1>14. CASE t.wraps = <<>> /\ Kind(t.name) = "input" /\ r = FieldsIn(coerce, v, Types[t.name].inputs)
  <2>1. PICK inputs : inputs = Types[t.name].inputs
    OBVIOUS
  <2>2. v.kind = "object"
    BY <1>1, <1>14 DEF FieldsIn
  <2>3. \A f \in DOMAIN v.fields : v.fields[f] \in Values /\ Constant(v.fields[f], n - 1)
    BY <1>1, <1>3, <2>2, ConstantItems
  <2>4. t.name \in DOMAIN Types /\ \A f \in DOMAIN inputs : inputs[f].type \in InputRefs
    <3>1. t.name \in DOMAIN Types
      BY <1>2 DEF TypeRefs
    <3> QED BY <1>14, <2>1, <3>1, InputRefOf
  <2>5. NoneAbsent(coerce, v, inputs)
    <3>1. SUFFICES ASSUME NEW f \in DOMAIN inputs, f \in DOMAIN v.fields
                   PROVE  coerce[v.fields[f]][inputs[f].type] # Absent
      BY DEF NoneAbsent
    <3>2. v.fields[f] \in Values /\ v.fields[f].kind # "var" /\ inputs[f].type \in InputRefs
      BY <1>4, <2>3, <2>4, <3>1, ConstantIs
    <3> QED BY <1>4, <1>5, <3>2, LiteralIsSome
  <2>6. r = FieldsIn(coerce, v, inputs)
    BY <1>14, <2>1
  <2>7. /\ Fits(Typed(r, t))
        /\ \A q \in BelowTyped(Typed(r, t)) : FieldPart(coerce, v, inputs, q) \/ DefaultPart(q, 0)
    BY <1>1, <1>14, <2>1, <2>5, <2>6, FieldsFit
  <2>8. ASSUME NEW q, FieldPart(coerce, v, inputs, q) PROVE Evaluated(values, q)
    BY <1>7, <2>3, <2>4, <2>8 DEF FieldPart
  <2> QED BY <1>1, <2>7, <2>8
<1> QED BY <1>6, <1>9, <1>10, <1>11, <1>12, <1>13, <1>14, LiteralCases

LEMMA SentConforms ==
  ASSUME NEW values, NEW v, NEW t, Sent(values, Typed(v, t), 0)
  PROVE  Conforms(v, t)
<1> DEFINE Right(m) == \A p \in PartsAt(v, t)[m] : Sent(values, p, m)
<1> DEFINE T == {m \in Nat : m \in 0..MaxDepth /\ ~Right(m)}
<1>1. ASSUME T # {} PROVE FALSE
  <2>1. PICK m \in T : \A k \in T : m <= k
    BY <1>1, LeastOf
  <2>2. PICK p \in PartsAt(v, t)[m] : ~Sent(values, p, m)
    BY <2>1
  <2>3. m # 0
    <3>1. PartsAt(v, t)[0] = Alone(Typed(v, t))
      BY PartsAre
    <3> QED BY <2>2, <3>1 DEF Alone
  <2>4. m \in 1..MaxDepth /\ m - 1 \in 0..MaxDepth /\ m - 1 \in Nat /\ m - 1 \notin T /\ m - 1 < MaxDepth /\ (m - 1) + 1 = m
    BY <2>1, <2>3, DepthAssumption
  <2>5. PartsAt(v, t)[m] = BelowAllTyped(PartsAt(v, t)[m - 1])
    BY <2>4, PartsAre
  <2>6. PICK o \in PartsAt(v, t)[m - 1] : p \in BelowTyped(o)
    BY <2>2, <2>5 DEF BelowAllTyped
  <2>7. Sent(values, o, m - 1)
    BY <2>4, <2>6
  <2>8. SentOn(values, o, m - 1)
    BY <2>4, <2>7, CoercedGoesOn, EvaluatedGoesOn, DefaultsGoOn DEF Sent
  <2>9. Sent(values, p, (m - 1) + 1)
    BY <2>4, <2>6, <2>8 DEF SentOn
  <2> QED BY <2>2, <2>4, <2>9
<1>2. SUFFICES ASSUME NEW n \in 0..MaxDepth, NEW p \in PartsAt(v, t)[n] PROVE Fits(p)
  BY DEF Conforms
<1>3. Sent(values, p, n)
  <2>1. n \in Nat
    BY DepthAssumption
  <2> QED BY <1>1, <2>1
<1> QED BY <1>3, CoercedGoesOn, EvaluatedGoesOn, DefaultsGoOn DEF Sent, SentOn

-----------------------------------------------------------------------------
(* A literal becomes what the same value sent as JSON becomes.             *)

\* A literal and its JSON correspond on the first levels.
Matched(v, json, n) == \A k \in 0..n : \A p \in BothAt(v, json)[k] : Corresponds(p)

LEMMA BothStepDown ==
  ASSUME NEW v, NEW json, NEW w, NEW x, Both(w, x) \in BelowBoth(Both(v, json)), NEW n \in 0..MaxDepth, n < MaxDepth
  PROVE  BothAt(w, x)[n] \subseteq BothAt(v, json)[n + 1]
<1> DEFINE T == {m \in Nat : m < MaxDepth /\ ~(BothAt(w, x)[m] \subseteq BothAt(v, json)[m + 1])}
<1>1. SUFFICES ASSUME T # {} PROVE FALSE
  <2>1. n \in Nat /\ n \notin T
    BY <1>1, DepthAssumption
  <2> QED BY <2>1
<1>2. PICK m \in T : \A k \in T : m <= k
  BY <1>1, LeastOf
<1>3. m # 0
  <2>1. BothAt(w, x)[0] = Alone(Both(w, x)) /\ BothAt(v, json)[0] = Alone(Both(v, json))
    BY BothAre
  <2>2. 1 \in 1..MaxDepth
    BY <1>2, DepthAssumption
  <2>3. BothAt(v, json)[1] = BelowAllBoth(BothAt(v, json)[1 - 1])
    BY <2>2, BothAre
  <2>4. Both(w, x) \in BothAt(v, json)[1]
    BY <2>1, <2>3 DEF Alone, BelowAllBoth
  <2> QED BY <1>2, <2>1, <2>4 DEF Alone
<1>4. m - 1 \in Nat /\ m - 1 \notin T /\ m \in 1..MaxDepth /\ m + 1 \in 1..MaxDepth /\ (m - 1) + 1 = m /\ (m + 1) - 1 = m
  BY <1>2, <1>3, DepthAssumption
<1>5. PICK a, b : a = BothAt(w, x)[m - 1] /\ b = BothAt(v, json)[m]
  OBVIOUS
<1>6. a \subseteq b
  <2>1. m - 1 < MaxDepth
    BY <1>4, DepthAssumption
  <2>2. BothAt(w, x)[m - 1] \subseteq BothAt(v, json)[(m - 1) + 1]
    BY <1>4, <2>1
  <2> QED BY <1>4, <1>5, <2>2
<1>7. BothAt(w, x)[m] = BelowAllBoth(a)
  BY <1>4, <1>5, BothAre
<1>8. BothAt(v, json)[m + 1] = BelowAllBoth(b)
  <2>1. BothAt(v, json)[m + 1] = BelowAllBoth(BothAt(v, json)[(m + 1) - 1])
    BY <1>4, BothAre
  <2> QED BY <1>4, <1>5, <2>1
<1> QED BY <1>2, <1>6, <1>7, <1>8 DEF BelowAllBoth

LEMMA MatchedIs ==
  ASSUME NEW v, NEW json, NEW n \in 0..MaxDepth, Matched(v, json, n)
  PROVE  /\ Corresponds(Both(v, json))
         /\ n # 0 => /\ Matched(v, json, n - 1)
                     /\ \A w, x : Both(w, x) \in BelowBoth(Both(v, json)) => Matched(w, x, n - 1)
<1>1. Corresponds(Both(v, json))
  <2>1. 0 \in 0..n /\ BothAt(v, json)[0] = Alone(Both(v, json))
    BY DepthAssumption, BothAre
  <2> QED BY <2>1 DEF Matched, Alone
<1>2. ASSUME n # 0 PROVE Matched(v, json, n - 1)
  <2>1. 0..n - 1 \subseteq 0..n
    BY <1>2, DepthAssumption
  <2> QED BY <2>1 DEF Matched
<1>3. ASSUME n # 0, NEW w, NEW x, Both(w, x) \in BelowBoth(Both(v, json)) PROVE Matched(w, x, n - 1)
  <2>1. SUFFICES ASSUME NEW k \in 0..n - 1, NEW p \in BothAt(w, x)[k] PROVE Corresponds(p)
    BY DEF Matched
  <2>2. k \in 0..MaxDepth /\ k < MaxDepth /\ k + 1 \in 0..n
    BY <1>3, DepthAssumption
  <2>3. p \in BothAt(v, json)[k + 1]
    BY <1>3, <2>1, <2>2, BothStepDown
  <2> QED BY <2>2, <2>3 DEF Matched
<1> QED BY <1>1, <1>2, <1>3

LEMMA CorrespondingAre ==
  ASSUME NEW v \in Values, NEW json \in Values, Corresponds(Both(v, json))
  PROVE  /\ v.kind # "var" /\ (v = Null <=> json = Null)
         /\ v.kind = "enum" => json = [kind |-> "string", of |-> v.of]
         /\ v.kind = "list" => json.kind = "list" /\ DOMAIN json.items = DOMAIN v.items
         /\ v.kind = "object" => json.kind = "object" /\ DOMAIN json.fields = DOMAIN v.fields
         /\ v.kind \notin {"enum", "list", "object"} => json = v
<1>1. Both(v, json).literal = v /\ Both(v, json).json = json
  BY DEF Both
<1>2. Null.kind = "null"
  BY DEF Null
<1>3. CASE v.kind = "enum"
  <2>1. json = [kind |-> "string", of |-> v.of]
    BY <1>1, <1>3 DEF Corresponds
  <2> QED BY <1>2, <1>3, <2>1
<1>4. CASE v.kind = "list"
  BY <1>1, <1>2, <1>4 DEF Corresponds
<1>5. CASE v.kind = "object"
  BY <1>1, <1>2, <1>5 DEF Corresponds
<1>6. CASE v.kind \notin {"enum", "list", "object"}
  BY <1>1, <1>2, <1>6 DEF Corresponds
<1> QED BY <1>3, <1>4, <1>5, <1>6

\* Coercions that agree on the parts of a literal, where they are not refused, agree on it.
Agreeing(lit, inp, u, n) ==
  \A w, x \in Values : Matched(w, x, n) /\ lit[w][u] # Refused => lit[w][u] = inp[x][u]

LEMMA SameItems ==
  ASSUME NEW v \in Values, NEW json \in Values, NEW n \in 0..MaxDepth, n # 0, Matched(v, json, n),
         NEW lit, NEW inp, NEW u, Agreeing(lit, inp, u, n - 1),
         NEW t, u = Inner(t), ItemsOf(lit, v, t) # Refused
  PROVE  ItemsOf(lit, v, t) = ItemsOf(inp, json, t)
<1>1. Corresponds(Both(v, json)) /\ Matched(v, json, n - 1)
  BY MatchedIs
<1>2. \A w, x : Both(w, x) \in BelowBoth(Both(v, json)) => Matched(w, x, n - 1)
  BY MatchedIs
<1>3. PICK a, b : a = ListItems(v) /\ b = ListItems(json)
  OBVIOUS
<1>4. /\ DOMAIN a = DOMAIN b
      /\ \A i \in DOMAIN a : a[i] \in Values /\ b[i] \in Values /\ Matched(a[i], b[i], n - 1)
  <2>1. CASE v.kind = "list"
    <3>1. json.kind = "list" /\ DOMAIN json.items = DOMAIN v.items
      BY <1>1, <2>1, CorrespondingAre
    <3>2. a = v.items /\ b = json.items
      BY <1>3, <2>1, <3>1 DEF ListItems
    <3>3. ASSUME NEW i \in DOMAIN a PROVE a[i] \in Values /\ b[i] \in Values /\ Matched(a[i], b[i], n - 1)
      <4>1. Both(v, json).literal = v /\ Both(v, json).json = json
        BY DEF Both
      <4>2. Both(a[i], b[i]) \in BelowBoth(Both(v, json))
        BY <2>1, <3>2, <4>1 DEF BelowBoth
      <4>3. a[i] \in Values /\ b[i] \in Values
        BY <1>3, <3>1, <3>2, ItemsAreValues
      <4> QED BY <1>2, <4>2, <4>3
    <3> QED BY <3>1, <3>2, <3>3
  <2>2. CASE v.kind # "list"
    <3>1. json.kind # "list"
      <4>1. CASE v.kind = "enum"
        BY <1>1, <4>1, CorrespondingAre
      <4>2. CASE v.kind = "object"
        BY <1>1, <4>2, CorrespondingAre
      <4>3. CASE v.kind \notin {"enum", "object"}
        BY <1>1, <2>2, <4>3, CorrespondingAre
      <4> QED BY <4>1, <4>2, <4>3
    <3>2. DOMAIN a = {1} /\ a[1] = v /\ DOMAIN b = {1} /\ b[1] = json
      BY <1>3, <2>2, <3>1, ItemsAreValues
    <3> QED BY <1>1, <3>2
  <2> QED BY <2>1, <2>2
<1>5. PICK f, g : f = [i \in DOMAIN a |-> lit[a[i]][u]] /\ g = [i \in DOMAIN b |-> inp[b[i]][u]]
  OBVIOUS
<1>6. ItemsOf(lit, v, t) = ListValue(f) /\ ItemsOf(inp, json, t) = ListValue(g)
  BY <1>3, <1>5 DEF ItemsOf
<1>7. Refused \notin PartsOf(f)
  BY <1>6 DEF ListValue, Whole
<1>8. ASSUME NEW i \in DOMAIN a PROVE lit[a[i]][u] = inp[b[i]][u]
  <2>1. lit[a[i]][u] # Refused
    BY <1>5, <1>7 DEF PartsOf
  <2> QED BY <1>4, <2>1 DEF Agreeing
<1>9. f = g
  BY <1>4, <1>5, <1>8
<1> QED BY <1>6, <1>9

LEMMA SameFields ==
  ASSUME NEW v \in Values, NEW json \in Values, NEW n \in 0..MaxDepth, n # 0, Matched(v, json, n),
         NEW lit, NEW inp, NEW inputs, \A f \in DOMAIN inputs : inputs[f].type \in InputRefs,
         \A u \in InputRefs : Agreeing(lit, inp, u, n - 1),
         FieldsIn(lit, v, inputs) # Refused
  PROVE  FieldsIn(lit, v, inputs) = FieldsIn(inp, json, inputs)
<1>1. v.kind = "object" /\ Corresponds(Both(v, json))
  BY MatchedIs DEF FieldsIn
<1>2. json.kind = "object" /\ DOMAIN json.fields = DOMAIN v.fields
  BY <1>1, CorrespondingAre
<1>3. \A w, x : Both(w, x) \in BelowBoth(Both(v, json)) => Matched(w, x, n - 1)
  BY MatchedIs
<1>4. ASSUME NEW f \in DOMAIN v.fields
      PROVE  v.fields[f] \in Values /\ json.fields[f] \in Values /\ Matched(v.fields[f], json.fields[f], n - 1)
  <2>1. Both(v, json).literal = v /\ Both(v, json).json = json
    BY DEF Both
  <2>2. Both(v.fields[f], json.fields[f]) \in BelowBoth(Both(v, json))
    BY <1>1, <2>1 DEF BelowBoth
  <2> QED BY <1>1, <1>2, <1>3, <2>2, ValuesAssumption
<1>5. PICK a, b : /\ a = [f \in DOMAIN inputs |->
                           IF f \in DOMAIN v.fields THEN lit[v.fields[f]][inputs[f].type] ELSE DefaultOf(inputs[f])]
                  /\ b = [f \in DOMAIN inputs |->
                           IF f \in DOMAIN json.fields THEN inp[json.fields[f]][inputs[f].type] ELSE DefaultOf(inputs[f])]
  OBVIOUS
<1>6. FieldsIn(lit, v, inputs) = ObjectValue(a) /\ FieldsIn(inp, json, inputs) = ObjectValue(b)
  BY <1>1, <1>2, <1>5 DEF FieldsIn
<1>7. Refused \notin PartsOf(a)
  BY <1>6 DEF ObjectValue, Whole
<1>8. ASSUME NEW f \in DOMAIN inputs PROVE a[f] = b[f]
  <2>1. CASE f \in DOMAIN v.fields
    <3>1. a[f] = lit[v.fields[f]][inputs[f].type] /\ b[f] = inp[json.fields[f]][inputs[f].type]
      BY <1>2, <1>5, <2>1
    <3>2. a[f] # Refused
      BY <1>5, <1>7 DEF PartsOf
    <3> QED BY <1>4, <2>1, <3>1, <3>2 DEF Agreeing
  <2>2. CASE f \notin DOMAIN v.fields
    BY <1>2, <1>5, <2>2
  <2> QED BY <2>1, <2>2
<1>9. a = b
  BY <1>5, <1>8
<1> QED BY <1>6, <1>9

LEMMA SameValue ==
  ASSUME NEW values, NEW n \in 0..MaxDepth, NEW v \in Values, NEW json \in Values, NEW t \in InputRefs,
         Matched(v, json, n), LiteralValue(values)[n][v][t] # Refused
  PROVE  LiteralValue(values)[n][v][t] = InputValue[n][json][t]
<1> DEFINE Same(m) == \A u \in InputRefs : Agreeing(LiteralValue(values)[m], InputValue[m], u, m)
<1> DEFINE T == {m \in Nat : m \in 0..MaxDepth /\ ~Same(m)}
<1>1. SUFFICES ASSUME T # {} PROVE FALSE
  <2>1. n \in Nat /\ n \notin T
    BY <1>1, DepthAssumption
  <2>2. Agreeing(LiteralValue(values)[n], InputValue[n], t, n)
    BY <2>1
  <2> QED BY <2>2 DEF Agreeing
<1>2. PICK m \in T : \A k \in T : m <= k
  BY <1>1, LeastOf
<1>3. PICK u \in InputRefs : ~Agreeing(LiteralValue(values)[m], InputValue[m], u, m)
  BY <1>2
<1>4. PICK w \in Values, x \in Values :
        Matched(w, x, m) /\ LiteralValue(values)[m][w][u] # Refused /\ LiteralValue(values)[m][w][u] # InputValue[m][x][u]
  BY <1>3 DEF Agreeing
<1>5. m \in 0..MaxDepth /\ Corresponds(Both(w, x)) /\ u \in TypeRefs
  BY <1>2, <1>4, MatchedIs DEF InputRefs
<1>6. w.kind # "var" /\ (w = Null <=> x = Null)
  BY <1>5, CorrespondingAre
<1>7. m # 0
  <2>1. LiteralValue(values)[0][w][u] = Refused
    BY <1>5, <1>6, LiteralIs
  <2> QED BY <1>4, <2>1
<1>8. m \in 1..MaxDepth /\ m - 1 \in 0..MaxDepth /\ m - 1 \in Nat /\ m - 1 \notin T
  BY <1>2, <1>7, DepthAssumption
<1>9. PICK lit, inp : lit = LiteralValue(values)[m - 1] /\ inp = InputValue[m - 1]
  OBVIOUS
<1>10. \A y \in InputRefs : Agreeing(lit, inp, y, m - 1)
  BY <1>8, <1>9
<1> HIDE DEF T
<1>11. PICK r, s : r = LiteralOf(lit, w, u) /\ s = InputOf(inp, x, u)
  OBVIOUS
<1>12. r # Refused /\ r # s
  <2>1. LiteralValue(values)[m][w][u] = LiteralOf(LiteralValue(values)[m - 1], w, u)
    BY <1>5, <1>6, <1>8, LiteralIs
  <2>2. InputValue[m][x][u] = InputOf(InputValue[m - 1], x, u)
    BY <1>5, <1>8, InputIs
  <2> QED BY <1>4, <1>9, <1>11, <2>1, <2>2
<1>13. Matched(w, x, m - 1)
  BY <1>4, <1>5, <1>7, MatchedIs
<1>14. CASE Is(u, "nonnull") /\ r = NotNull(lit[w][Inner(u)])
  <2>1. PICK y : y = Inner(u)
    OBVIOUS
  <2>2. y \in InputRefs
    BY <1>14, <2>1, InnerRef
  <2>3. r = lit[w][y] /\ r # Null
    BY <1>12, <1>14, <2>1, KindsDiffer DEF NotNull
  <2>4. r = inp[x][y]
    BY <1>10, <1>12, <1>13, <2>2, <2>3 DEF Agreeing
  <2>5. x # Null
    BY <1>8, <1>9, <1>12, <2>2, <2>3, <2>4, InputIsSome
  <2>6. s = inp[x][y]
    BY <1>11, <1>14, <2>1, <2>5 DEF InputOf
  <2> QED BY <1>12, <2>4, <2>6
<1>15. CASE ~Is(u, "nonnull") /\ w = Null /\ r = Null
  BY <1>6, <1>11, <1>12, <1>15 DEF InputOf
<1>16. CASE ~Is(u, "nonnull") /\ w # Null /\ Is(u, "list") /\ r = ItemsOf(lit, w, u)
  <2>1. s = ItemsOf(inp, x, u)
    BY <1>6, <1>11, <1>16 DEF InputOf
  <2>2. PICK y : y = Inner(u)
    OBVIOUS
  <2>3. Agreeing(lit, inp, y, m - 1)
    BY <1>10, <1>16, <2>2, InnerRef
  <2>4. ItemsOf(lit, w, u) # Refused
    BY <1>12, <1>16
  <2>5. ItemsOf(lit, w, u) = ItemsOf(inp, x, u)
    BY <1>4, <1>5, <1>7, <2>2, <2>3, <2>4, SameItems
  <2> QED BY <1>12, <1>16, <2>1, <2>5
<1>17. CASE w # Null /\ u.wraps = <<>> /\ Kind(u.name) = "scalar" /\ r = ParseScalar(u.name, w)
  <2>1. u.name \in {"Int", "Float", "String", "Boolean", "ID"}
    BY <1>5, <1>17, InputTypesAssumption DEF TypeRefs, ScalarKinds
  <2>2. w.kind \in ScalarKinds[u.name]
    BY <1>12, <1>17 DEF ParseScalar
  <2>3. ScalarKinds[u.name] \subseteq {"int", "float", "string", "bool"}
    BY <2>1 DEF ScalarKinds
  <2>4. x = w
    BY <1>5, <2>2, <2>3, CorrespondingAre
  <2>5. s = ParseScalar(u.name, x)
    BY <1>6, <1>11, <1>17 DEF InputOf, Is
  <2> QED BY <1>12, <1>17, <2>4, <2>5
<1>18. CASE /\ w # Null /\ u.wraps = <<>> /\ Kind(u.name) = "enum"
            /\ r = IF w.kind = "enum" THEN EnumMember(u.name, w.of) ELSE Refused
  <2>1. w.kind = "enum" /\ r = EnumMember(u.name, w.of)
    BY <1>12, <1>18
  <2>2. x = [kind |-> "string", of |-> w.of]
    BY <1>5, <2>1, CorrespondingAre
  <2>3. x.kind = "string" /\ x.of = w.of
    BY <2>2
  <2>4. s = IF x.kind = "string" THEN EnumMember(u.name, x.of) ELSE Refused
    BY <1>6, <1>11, <1>18 DEF InputOf, Is
  <2> QED BY <1>12, <2>1, <2>3, <2>4
<1>19. CASE w # Null /\ u.wraps = <<>> /\ Kind(u.name) = "input" /\ r = FieldsIn(lit, w, Types[u.name].inputs)
  <2>1. PICK inputs : inputs = Types[u.name].inputs
    OBVIOUS
  <2>2. s = FieldsIn(inp, x, inputs)
    BY <1>6, <1>11, <1>19, <2>1 DEF InputOf, Is
  <2>3. \A f \in DOMAIN inputs : inputs[f].type \in InputRefs
    <3>1. u.name \in DOMAIN Types
      BY <1>5 DEF TypeRefs
    <3> QED BY <1>19, <2>1, <3>1, InputRefOf
  <2>4. FieldsIn(lit, w, inputs) # Refused /\ r = FieldsIn(lit, w, inputs)
    BY <1>12, <1>19, <2>1
  <2>5. FieldsIn(lit, w, inputs) = FieldsIn(inp, x, inputs)
    BY <1>4, <1>5, <1>7, <1>10, <2>3, <2>4, SameFields
  <2> QED BY <1>12, <2>2, <2>4, <2>5
<1> QED BY <1>11, <1>14, <1>15, <1>16, <1>17, <1>18, <1>19, LiteralCases

-----------------------------------------------------------------------------
(* What reaches resolvers.                                                 *)

LEMMA CoercedConforms ==
  ASSUME NEW v \in Values, NEW t \in InputRefs, CoerceInput(v, t) # Refused
  PROVE  CoerceInput(v, t) # Absent /\ Conforms(CoerceInput(v, t), t)
<1>1. MaxDepth \in 0..MaxDepth
  BY DepthAssumption
<1>2. PICK r : r = InputValue[MaxDepth][v][t]
  OBVIOUS
<1>3. r # Refused /\ r # Absent /\ r = CoerceInput(v, t)
  BY <1>1, <1>2, InputIsSome DEF CoerceInput
<1>4. Typed(r, t).value = r
  BY DEF Typed
<1>5. Coerced(Typed(r, t))
  BY <1>1, <1>2, <1>3, <1>4 DEF Coerced
<1>6. Conforms(r, t)
  <2>1. \A values : Sent(values, Typed(r, t), 0)
    BY <1>5 DEF Sent
  <2> QED BY <2>1, SentConforms
<1> QED BY <1>3, <1>6

LEMMA ConstantConforms ==
  ASSUME NEW v \in Values, VariablesIn(v) = {}, NEW t \in InputRefs, NEW r, r = ValueFromAst(v, t, <<>>), r # Refused
  PROVE  r # Absent /\ Conforms(r, t)
<1>1. MaxDepth \in 0..MaxDepth
  BY DepthAssumption
<1>2. PICK none : none = <<>>
  OBVIOUS
<1>3. Constant(v, MaxDepth)
  <2>1. SUFFICES ASSUME NEW k \in 0..MaxDepth, NEW w \in PartsIn(v)[k], w.kind = "var" PROVE FALSE
    BY DEF Constant
  <2>2. w.of \in VariablesIn(v)
    BY <2>1 DEF VariablesIn
  <2> QED BY <2>2
<1>4. v.kind # "var"
  BY <1>1, <1>3, ConstantIs
<1>5. r = LiteralValue(none)[MaxDepth][v][t]
  BY <1>2 DEF ValueFromAst
<1>6. r # Absent
  BY <1>1, <1>4, <1>5, LiteralIsSome
<1>7. Typed(r, t).value = r
  BY DEF Typed
<1>8. Evaluated(none, Typed(r, t))
  BY <1>1, <1>3, <1>5, <1>7 DEF Evaluated
<1>9. Sent(none, Typed(r, t), 0)
  BY <1>8 DEF Sent
<1> QED BY <1>6, <1>9, SentConforms

LEMMA VariableConforms ==
  ASSUME NEW d, NEW raw, \A n \in DOMAIN raw : raw[n] \in Values,
         d.type \in [name : {d.type.name}, wraps : Seq(Wraps)], Kind(d.type.name) \in InputKinds,
         d.default # Absent => d.default \in Values /\ VariablesIn(d.default) = {},
         NEW r, r = VariableValue(d, raw), r # Refused
  PROVE  IF r = Absent THEN ~Is(d.type, "nonnull") ELSE Conforms(r, d.type)
<1>1. d.type.name \in DOMAIN Types
  BY DEF VariableValue
<1>2. PICK t : t = d.type
  OBVIOUS
<1>3. t \in InputRefs
  BY <1>1, <1>2 DEF InputRefs, TypeRefs
<1>4. CASE d.name \in DOMAIN raw
  <2>1. PICK v : v = raw[d.name]
    OBVIOUS
  <2>2. v \in Values /\ r = CoerceInput(v, t)
    BY <1>1, <1>2, <1>4, <2>1 DEF VariableValue
  <2> QED BY <1>2, <1>3, <2>2, CoercedConforms
<1>5. CASE d.name \notin DOMAIN raw /\ d.default # Absent
  <2>1. PICK v : v = d.default
    OBVIOUS
  <2>2. v \in Values /\ VariablesIn(v) = {} /\ r = ValueFromAst(v, t, <<>>)
    BY <1>1, <1>2, <1>5, <2>1 DEF VariableValue
  <2> QED BY <1>2, <1>3, <2>2, ConstantConforms
<1>6. CASE d.name \notin DOMAIN raw /\ d.default = Absent
  BY <1>1, <1>6 DEF VariableValue
<1> QED BY <1>4, <1>5, <1>6

LEMMA VariablesAre ==
  ASSUME NEW declared, UniqueNames(declared), NEW raw, NEW i \in DOMAIN declared, NEW name, name = declared[i].name,
         NEW values, values = VariableValues(declared, raw), NEW r, r = VariableValue(declared[i], raw)
  PROVE  /\ name \in DOMAIN values <=> r # Absent
         /\ r # Absent => values[name] = r
<1>1. PICK given : given = {j \in DOMAIN declared : VariableValue(declared[j], raw) # Absent}
  OBVIOUS
<1>2. values = [n \in {declared[j].name : j \in given} |->
                  VariableValue(declared[CHOOSE j \in given : declared[j].name = n], raw)]
  BY <1>1 DEF VariableValues
<1>3. \A j \in given : declared[j].name = name => j = i
  BY <1>1 DEF UniqueNames
<1>4. i \in given <=> r # Absent
  BY <1>1
<1>5. name \in DOMAIN values <=> r # Absent
  BY <1>2, <1>3, <1>4
<1>6. ASSUME r # Absent PROVE values[name] = r
  <2>1. PICK k : k = CHOOSE j \in given : declared[j].name = name
    OBVIOUS
  <2>2. k = i
    BY <1>3, <1>4, <1>6, <2>1
  <2>3. values[name] = VariableValue(declared[k], raw)
    BY <1>2, <1>5, <1>6, <2>1
  <2> QED BY <2>2, <2>3
<1> QED BY <1>5, <1>6

LEMMA LiteralConforms ==
  ASSUME NEW def, def.type \in InputRefs, NEW name, NEW args, IsSequence(args), \A i \in DOMAIN args : args[i].value \in Values,
         HasNamed(args, name), NEW values, NEW r, r = ArgumentValue(def, name, args, values), r # Refused,
         NEW json \in Values, IsJson(LastNamed(args, name).value, json)
  PROVE  r = CoerceInput(json, def.type) /\ Conforms(r, def.type)
<1>1. PICK v : v = LastNamed(args, name).value
  OBVIOUS
<1>2. v \in Values
  <2>1. PICK n \in Nat : DOMAIN args \subseteq 1..n
    BY DEF IsSequence
  <2>2. PICK i \in DOMAIN args : LastNamed(args, name) = args[i]
    BY <2>1, LastNamedIs
  <2> QED BY <1>1, <2>2
<1>3. MaxDepth \in 0..MaxDepth
  BY DepthAssumption
<1>4. Matched(v, json, MaxDepth)
  BY <1>1 DEF IsJson, Matched
<1>5. v.kind # "var"
  BY <1>2, <1>3, <1>4, MatchedIs, CorrespondingAre
<1>6. PICK t : t = def.type
  OBVIOUS
<1>7. r = ValueFromAst(v, t, values)
  BY <1>1, <1>5, <1>6 DEF ArgumentValue
<1>8. LiteralValue(values)[MaxDepth][v][t] = InputValue[MaxDepth][json][t]
  <2>1. LiteralValue(values)[MaxDepth][v][t] # Refused
    BY <1>7 DEF ValueFromAst
  <2> QED BY <1>2, <1>3, <1>4, <1>6, <2>1, SameValue
<1>9. r = CoerceInput(json, t)
  BY <1>7, <1>8 DEF ValueFromAst, CoerceInput
<1> QED BY <1>6, <1>9, CoercedConforms

LEMMA StagedConforms == Staged => InputsConform
<1> SUFFICES ASSUME Staged, stage = "executing" PROVE InputsConform
  BY DEF InputsConform
<1>1. PICK declared, raw : declared = operation.vars /\ raw = input.raw
  OBVIOUS
<1>2. chosen \in DOMAIN document.operations /\ ~VariablesRefused(declared, raw)
      /\ variables = VariableValues(declared, raw) /\ IsObject(object)
  BY <1>1 DEF Staged, Running
<1>3. UniqueNames(declared)
  <2>1. PICK doc : doc = Surveyed(document)
    OBVIOUS
  <2>2. Checked(doc) /\ doc.operations = document.operations
    BY <2>1, ValidHas, SurveyedIs DEF Running
  <2>3. OperationOK(doc, chosen)
    BY <1>2, <2>2 DEF Checked
  <2> QED BY <1>1, <2>2, <2>3 DEF OperationOK, operation
<1>4. /\ \A n \in DOMAIN raw : raw[n] \in Values
      /\ \A i \in DOMAIN declared :
           /\ declared[i].type \in [name : {declared[i].type.name}, wraps : Seq(Wraps)]
           /\ declared[i].default # Absent => declared[i].default \in Values /\ VariablesIn(declared[i].default) = {}
  <2>1. input \in Inputs
    BY DEF Staged
  <2>2. PICK k \in DOMAIN input.definitions : operation = input.definitions[k] /\ input.definitions[k].kind = "operation"
    BY <1>2, OperationsOf DEF document, operation
  <2> QED BY <1>1, <2>1, <2>2, InputsAssumption
<1>5. ASSUME NEW i \in DOMAIN operation.vars, NEW d, d = operation.vars[i], Kind(d.type.name) \in InputKinds
      PROVE  IF d.name \in DOMAIN variables THEN Conforms(variables[d.name], d.type) ELSE ~Is(d.type, "nonnull")
  <2>1. i \in DOMAIN declared /\ d = declared[i]
    BY <1>1, <1>5
  <2>2. PICK name, r : name = d.name /\ r = VariableValue(d, raw)
    OBVIOUS
  <2>3. r # Refused
    BY <1>2, <2>1, <2>2 DEF VariablesRefused
  <2>4. /\ name \in DOMAIN variables <=> r # Absent
        /\ r # Absent => variables[name] = r
    BY <1>2, <1>3, <2>1, <2>2, VariablesAre
  <2>5. IF r = Absent THEN ~Is(d.type, "nonnull") ELSE Conforms(r, d.type)
    BY <1>4, <1>5, <2>1, <2>2, <2>3, VariableConforms
  <2> QED BY <2>2, <2>4, <2>5
<1>6. ASSUME NEW key \in DOMAIN collected.groups, NEW f, f = collected.groups[key][1],
             f.name \in DOMAIN FieldsOf(object), NEW a \in DOMAIN FieldsOf(object)[f.name].args,
             NEW def, def = FieldsOf(object)[f.name].args[a], NEW value, value = ArgumentValue(def, a, f.args, variables),
             HasNamed(f.args, a), value # Refused, NEW json \in Values, IsJson(LastNamed(f.args, a).value, json)
      PROVE  value = CoerceInput(json, def.type) /\ Conforms(value, def.type)
  <2>1. collected.groups[key] \in Seq(GivenFields(Selections, key)) /\ collected.groups[key] # <<>>
    BY DEF Staged, CollectedOK
  <2>2. f \in Selections /\ f.kind = "field"
    <3>1. f \in GivenFields(Selections, key)
      BY <1>6, <2>1
    <3> QED BY <3>1 DEF GivenFields
  <2>3. PICK args : args = f.args
    OBVIOUS
  <2>4. IsSequence(args) /\ \A i \in DOMAIN args : args[i].value \in Values
    BY <2>2, <2>3, SelectionsAssumption
  <2>5. def.type \in InputRefs
    <3>1. object \in DOMAIN Types
      BY <1>2 DEF IsObject
    <3> QED BY <1>6, <3>1, SchemaAssumption DEF InputRefs
  <2>6. PICK values : values = variables
    OBVIOUS
  <2>7. /\ HasNamed(args, a) /\ value = ArgumentValue(def, a, args, values) /\ value # Refused
        /\ json \in Values /\ IsJson(LastNamed(args, a).value, json)
    BY <1>6, <2>3, <2>6
  <2> QED BY <2>4, <2>5, <2>7, LiteralConforms
<1> QED BY <1>5, <1>6 DEF InputsConform

\* THEOREM: what a client gives reaches resolvers as its declared type says, whichever
\* way it took (coerce_variable_values, coerce_argument_values): a coerced variable
\* conforms to its declaration, and a literal that is not refused conforms to its
\* argument and becomes what the same value sent as JSON becomes.
THEOREM DocumentsInputsConform == Spec => []InputsConform
BY DocumentsStaged, StagedConforms, PTL
=============================================================================
