------------------------ MODULE SchemaBuilderProofs ------------------------
(***************************************************************************)
(* Every schema the builder finishes is whole, and its references mean     *)
(* what they were written for, whatever was declared.  The parts are the   *)
(* invariant of the depth-first walk, through generic types made on the    *)
(* way and references replaced while others still wait for them; that of   *)
(* the walk that collects the result after it; what the roots lead to; and *)
(* what each reference stands for at any time.                             *)
(***************************************************************************)
EXTENDS SchemaBuilder, NaturalsInduction, WellFoundedInduction, SequenceTheorems, TLAPS

ValidTypes == {Declared(id) : id \in DOMAIN program.types} \cup {Made(n) : n \in DOMAIN made}
TypeFound(t) == IsNamed(t) => t \in ValidTypes

\* A reference that was resolved, or that the walk can resolve.
SoundSimple(ref) == ref.form \in {"ir", "class"} /\ (ref.form = "ir" => TypeFound(ref.type))
Sound(ref) ==
  IF ref.form = "generic" THEN ref.template \in DOMAIN program.templates /\ SoundSimple(ref.of)
  ELSE SoundSimple(ref)

\* A field, or an argument, that holds a sound reference and whose arguments do.
SoundSlot(f) == f \in DOMAIN holds /\ f[2] \in DOMAIN program.fields /\ Sound(holds[f])
Slots ==
  {f \in DOMAIN holds : /\ SoundSlot(f)
                        /\ \A j \in DOMAIN ArgsOf(f) : SoundSlot(ArgsOf(f)[j]) /\ DOMAIN ArgsOf(ArgsOf(f)[j]) = {}}

SoundNames ==
  /\ \A n \in DOMAIN names : names[n] \in ValidTypes /\ NameOf(names[n]) = n
  /\ DOMAIN made \subseteq DOMAIN names
SoundTypes ==
  \A t \in ValidTypes :
    /\ InterfacesOf(t) \in Seq(ValidTypes) /\ FieldsOf(t) \in Seq(Slots)
    /\ KindOf(t) = "union" => \A i \in DOMAIN FieldsOf(t) : DOMAIN ArgsOf(FieldsOf(t)[i]) = {}
SoundOwners == \A f \in DOMAIN holds : f[1] # <<>> => \E n \in DOMAIN made : f[1] = <<n>>

\* What the walks rest on: names, types and references are sound.
Ground == WellDeclared(program) /\ SoundNames /\ SoundTypes /\ SoundOwners

-----------------------------------------------------------------------------
(* Sequences *)

Elements(s) == {s[i] : i \in DOMAIN s}

LEMMA ElementsOfBoth ==
  ASSUME NEW S, NEW a \in Seq(S), NEW b \in Seq(S)
  PROVE  Elements(a \o b) = Elements(a) \cup Elements(b)
<1>1. ASSUME NEW x \in Elements(a) PROVE x \in Elements(a \o b)
  <2>1. PICK i \in DOMAIN a : x = a[i]
    BY DEF Elements
  <2>2. i \in DOMAIN (a \o b) /\ (a \o b)[i] = x
    BY <2>1
  <2> QED BY <2>2 DEF Elements
<1>2. ASSUME NEW x \in Elements(b) PROVE x \in Elements(a \o b)
  <2>1. PICK i \in DOMAIN b : x = b[i]
    BY DEF Elements
  <2>2. Len(a) + i \in DOMAIN (a \o b) /\ (a \o b)[Len(a) + i] = x
    BY <2>1
  <2> QED BY <2>2 DEF Elements
<1>3. ASSUME NEW x \in Elements(a \o b) PROVE x \in Elements(a) \cup Elements(b)
  <2>1. PICK i \in DOMAIN (a \o b) : x = (a \o b)[i]
    BY <1>3 DEF Elements
  <2>2. CASE i \in DOMAIN a
    BY <2>1, <2>2 DEF Elements
  <2>3. CASE i \notin DOMAIN a
    <3>1. i - Len(a) \in DOMAIN b /\ b[i - Len(a)] = x
      BY <2>1, <2>3
    <3> QED BY <3>1 DEF Elements
  <2> QED BY <2>2, <2>3
<1> QED BY <1>1, <1>2, <1>3

LEMMA ElementsOfTail ==
  ASSUME NEW S, NEW s \in Seq(S), s # <<>>
  PROVE  /\ Tail(s) \in Seq(S) /\ Head(s) \in Elements(s)
         /\ Elements(Tail(s)) \subseteq Elements(s)
         /\ Elements(s) \subseteq Elements(Tail(s)) \cup {Head(s)}
<1>1. Head(s) \in Elements(s) /\ Tail(s) \in Seq(S)
  BY DEF Elements
<1>2. ASSUME NEW x \in Elements(Tail(s)) PROVE x \in Elements(s)
  <2>1. PICK i \in DOMAIN Tail(s) : x = Tail(s)[i]
    BY DEF Elements
  <2>2. i + 1 \in DOMAIN s /\ s[i + 1] = x
    BY <2>1
  <2> QED BY <2>2 DEF Elements
<1>3. ASSUME NEW x \in Elements(s), x # Head(s) PROVE x \in Elements(Tail(s))
  <2>1. PICK i \in DOMAIN s : x = s[i]
    BY DEF Elements
  <2>2. i # 1
    BY <1>3, <2>1
  <2>3. i - 1 \in DOMAIN Tail(s) /\ Tail(s)[i - 1] = x
    BY <2>1, <2>2
  <2> QED BY <2>3 DEF Elements
<1> QED BY <1>1, <1>2, <1>3

LEMMA InOwnElements ==
  ASSUME NEW S, NEW s \in Seq(S)
  PROVE  s \in Seq(Elements(s)) /\ Elements(s) \subseteq S
<1>1. s = [i \in 1..Len(s) |-> s[i]] /\ Len(s) \in Nat /\ \A i \in 1..Len(s) : s[i] \in Elements(s)
  BY DEF Elements
<1> QED BY <1>1 DEF Elements

\* What is on the stack once its head is replaced by what the head left to do.
LEMMA Pushed ==
  ASSUME NEW S, NEW s \in Seq(S), s # <<>>, NEW T, NEW new \in Seq(T), NEW r, r = new \o Tail(s)
  PROVE  /\ r \in Seq(Elements(r)) /\ Head(s) \in Elements(s)
         /\ Elements(new) \subseteq Elements(r)
         /\ Elements(r) \subseteq Elements(new) \cup Elements(s)
         /\ Elements(s) \subseteq Elements(r) \cup {Head(s)}
<1>1. new \in Seq(S \cup T) /\ s \in Seq(S \cup T)
  OBVIOUS
<1>2. Tail(s) \in Seq(S \cup T)
  BY <1>1, ElementsOfTail
<1>3. r \in Seq(S \cup T)
  BY <1>1, <1>2
<1>4. r \in Seq(Elements(r))
  BY <1>3, InOwnElements
<1>5. Elements(r) = Elements(new) \cup Elements(Tail(s))
  BY <1>1, <1>2, ElementsOfBoth
<1> QED BY <1>1, <1>4, <1>5, ElementsOfTail

LEMMA ElementsOfTasks ==
  ASSUME NEW do, NEW T, NEW ons \in Seq(T)
  PROVE  /\ Tasks(do, ons) \in Seq(Elements(Tasks(do, ons)))
         /\ Elements(Tasks(do, ons)) = {Task(do, x) : x \in Elements(ons)}
<1>1. /\ Tasks(do, ons) = [i \in 1..Len(ons) |-> Task(do, ons[i])]
      /\ DOMAIN ons = 1..Len(ons) /\ Len(ons) \in Nat
  BY DEF Tasks
<1>2. Elements(Tasks(do, ons)) = {Task(do, x) : x \in Elements(ons)}
  BY <1>1 DEF Elements
<1>3. \A i \in 1..Len(ons) : Task(do, ons[i]) \in Elements(Tasks(do, ons))
  BY <1>1 DEF Elements
<1> QED BY <1>1, <1>2, <1>3

LEMMA ElementsOfOne ==
  ASSUME NEW x
  PROVE  <<x>> \in Seq(Elements(<<x>>)) /\ Elements(<<x>>) = {x}
<1>1. <<x>> \in Seq({x}) /\ Elements(<<x>>) = {x}
  BY DEF Elements
<1> QED BY <1>1

LEMMA ElementsOfNone == <<>> \in Seq(Elements(<<>>)) /\ Elements(<<>>) = {}
<1>1. DOMAIN <<>> = {}
  OBVIOUS
<1> QED BY <1>1 DEF Elements

LEMMA ElementsOfTwo ==
  ASSUME NEW a, NEW b, a \in Seq(Elements(a)), b \in Seq(Elements(b))
  PROVE  a \o b \in Seq(Elements(a \o b)) /\ Elements(a \o b) = Elements(a) \cup Elements(b)
<1> DEFINE S == Elements(a) \cup Elements(b)
<1>1. a \in Seq(S) /\ b \in Seq(S)
  OBVIOUS
<1> HIDE DEF S
<1>2. a \o b \in Seq(S)
  BY <1>1
<1>3. Elements(a \o b) = Elements(a) \cup Elements(b)
  BY <1>1, ElementsOfBoth
<1> QED BY <1>2, <1>3, InOwnElements

-----------------------------------------------------------------------------
(* Merging fields: dict.update keeps what all its fields have in common *)

\* Every set of numbers that is not empty has a least one.
LEMMA LeastOf ==
  ASSUME NEW T \in SUBSET Nat, T # {}
  PROVE  \E n \in T : \A m \in T : n <= m
<1>1. IsWellFoundedOn(OpToRel(<, Nat), Nat)
  BY NatLessThanWellFounded
<1>2. PICK n \in T : \A m \in T : ~ (<<m, n>> \in OpToRel(<, Nat))
  BY <1>1, WFMin
<1>3. \A m \in T : ~(m < n)
  BY <1>2 DEF OpToRel
<1> QED BY <1>3

LEMMA PutStays ==
  ASSUME NEW S, NEW fs \in Seq(S), NEW f \in S
  PROVE  Put(fs, f) \in Seq(S)
<1>1. CASE \E i \in DOMAIN fs : FieldName(fs[i]) = FieldName(f)
  <2>1. Put(fs, f) = [i \in DOMAIN fs |-> IF FieldName(fs[i]) = FieldName(f) THEN f ELSE fs[i]]
    BY <1>1 DEF Put
  <2>2. DOMAIN fs = 1..Len(fs) /\ Len(fs) \in Nat
    OBVIOUS
  <2>3. \A i \in DOMAIN fs : (IF FieldName(fs[i]) = FieldName(f) THEN f ELSE fs[i]) \in S
    OBVIOUS
  <2> QED BY <2>1, <2>2, <2>3
<1>2. CASE ~ \E i \in DOMAIN fs : FieldName(fs[i]) = FieldName(f)
  BY <1>2 DEF Put
<1> QED BY <1>1, <1>2

\* The first k steps of Update.
Puts(fs, gs, put, k) == put = [i \in 0..k |-> IF i = 0 THEN fs ELSE Put(put[i - 1], gs[i])]

LEMMA PutsExist ==
  ASSUME NEW fs, NEW gs, NEW k \in Nat
  PROVE  \E put : Puts(fs, gs, put, k)
<1> DEFINE T == {j \in Nat : ~ \E put : Puts(fs, gs, put, j)}
<1>1. SUFFICES ASSUME T # {} PROVE FALSE
  OBVIOUS
<1>2. PICK j \in T : \A m \in T : j <= m
  BY <1>1, LeastOf
<1>3. j # 0
  <2> DEFINE put == [i \in 0..0 |-> fs]
  <2>1. put = [i \in 0..0 |-> IF i = 0 THEN fs ELSE Put(put[i - 1], gs[i])]
    OBVIOUS
  <2>2. Puts(fs, gs, put, 0)
    BY <2>1 DEF Puts
  <2> QED BY <2>2
<1>4. j \in Nat /\ j - 1 \in Nat /\ ~(j - 1 \in T)
  BY <1>2, <1>3
<1>5. PICK g : Puts(fs, gs, g, j - 1)
  BY <1>4
<1>6. \E put : Puts(fs, gs, put, j)
  <2> DEFINE put == [i \in 0..j |-> IF i = j THEN Put(g[i - 1], gs[i]) ELSE g[i]]
  <2>1. \A i \in 0..j : put[i] = IF i = 0 THEN fs ELSE Put(put[i - 1], gs[i])
    BY <1>3, <1>4, <1>5 DEF Puts
  <2>2. put = [i \in 0..j |-> put[i]]
    OBVIOUS
  <2> HIDE DEF put
  <2>3. Puts(fs, gs, put, j)
    BY <2>1, <2>2 DEF Puts
  <2> QED BY <2>3
<1> QED BY <1>2, <1>6

LEMMA UpdateStays ==
  ASSUME NEW S, NEW fs \in Seq(S), NEW gs \in Seq(S)
  PROVE  Update(fs, gs) \in Seq(S)
<1> DEFINE put == CHOOSE g : Puts(fs, gs, g, Len(gs))
<1>1. Len(gs) \in Nat
  OBVIOUS
<1>2. Puts(fs, gs, put, Len(gs))
  BY <1>1, PutsExist
<1>3. Update(fs, gs) = put[Len(gs)]
  BY DEF Update, Puts
<1> HIDE DEF put
<1> DEFINE T == {j \in Nat : j <= Len(gs) /\ put[j] \notin Seq(S)}
<1>4. ASSUME T # {} PROVE FALSE
  <2>1. PICK j \in T : \A m \in T : j <= m
    BY <1>4, LeastOf
  <2>2. put[j] = IF j = 0 THEN fs ELSE Put(put[j - 1], gs[j])
    BY <1>2, <2>1 DEF Puts
  <2>3. j # 0
    BY <2>1, <2>2
  <2>4. j - 1 \in 0..Len(gs) /\ j - 1 \notin T /\ j \in DOMAIN gs
    BY <1>1, <2>1, <2>3
  <2>5. put[j - 1] \in Seq(S) /\ gs[j] \in S
    BY <2>4
  <2> QED BY <2>1, <2>2, <2>3, <2>5, PutStays
<1> QED BY <1>1, <1>3, <1>4

\* The first k steps of Inherited.
Merges(ts, merged, k) ==
  merged = [i \in 0..k |-> IF i = 0 THEN <<>> ELSE Update(merged[i - 1], FieldsOf(ts[i]))]

LEMMA MergesExist ==
  ASSUME NEW ts, NEW k \in Nat
  PROVE  \E merged : Merges(ts, merged, k)
<1> DEFINE T == {j \in Nat : ~ \E merged : Merges(ts, merged, j)}
<1>1. SUFFICES ASSUME T # {} PROVE FALSE
  OBVIOUS
<1>2. PICK j \in T : \A m \in T : j <= m
  BY <1>1, LeastOf
<1>3. j # 0
  <2> DEFINE merged == [i \in 0..0 |-> <<>>]
  <2>1. merged = [i \in 0..0 |-> IF i = 0 THEN <<>> ELSE Update(merged[i - 1], FieldsOf(ts[i]))]
    OBVIOUS
  <2>2. Merges(ts, merged, 0)
    BY <2>1 DEF Merges
  <2> QED BY <2>2
<1>4. j \in Nat /\ j - 1 \in Nat /\ ~(j - 1 \in T)
  BY <1>2, <1>3
<1>5. PICK g : Merges(ts, g, j - 1)
  BY <1>4
<1>6. \E merged : Merges(ts, merged, j)
  <2> DEFINE merged == [i \in 0..j |-> IF i = j THEN Update(g[i - 1], FieldsOf(ts[i])) ELSE g[i]]
  <2>1. \A i \in 0..j : merged[i] = IF i = 0 THEN <<>> ELSE Update(merged[i - 1], FieldsOf(ts[i]))
    BY <1>3, <1>4, <1>5 DEF Merges
  <2>2. merged = [i \in 0..j |-> merged[i]]
    OBVIOUS
  <2> HIDE DEF merged
  <2>3. Merges(ts, merged, j)
    BY <2>1, <2>2 DEF Merges
  <2> QED BY <2>3
<1> QED BY <1>2, <1>6

LEMMA InheritedStays ==
  ASSUME NEW S, NEW T, NEW ts \in Seq(T), \A t \in T : FieldsOf(t) \in Seq(S)
  PROVE  Inherited(ts) \in Seq(S)
<1> DEFINE merged == CHOOSE g : Merges(ts, g, Len(ts))
<1>1. Len(ts) \in Nat
  OBVIOUS
<1>2. Merges(ts, merged, Len(ts))
  BY <1>1, MergesExist
<1>3. Inherited(ts) = merged[Len(ts)]
  BY DEF Inherited, Merges
<1> HIDE DEF merged
<1> DEFINE U == {j \in Nat : j <= Len(ts) /\ merged[j] \notin Seq(S)}
<1>4. ASSUME U # {} PROVE FALSE
  <2>1. PICK j \in U : \A m \in U : j <= m
    BY <1>4, LeastOf
  <2>2. merged[j] = IF j = 0 THEN <<>> ELSE Update(merged[j - 1], FieldsOf(ts[j]))
    <3>1. j \in 0..Len(ts)
      BY <1>1, <2>1
    <3> QED BY <1>2, <3>1 DEF Merges
  <2>3. j # 0
    <3>1. <<>> \in Seq(S)
      OBVIOUS
    <3> QED BY <2>1, <2>2, <3>1
  <2>4. j - 1 \in 0..Len(ts) /\ j - 1 \notin U /\ j \in DOMAIN ts
    BY <1>1, <2>1, <2>3
  <2>5. merged[j - 1] \in Seq(S) /\ FieldsOf(ts[j]) \in Seq(S)
    BY <2>4
  <2> QED BY <2>1, <2>2, <2>3, <2>5, UpdateStays
<1> QED BY <1>1, <1>3, <1>4

-----------------------------------------------------------------------------
(* The registry, and what a reference is resolved to *)

LEMMA LastOf ==
  ASSUME NEW k \in Nat, NEW S \in SUBSET (1..k), S # {}
  PROVE  \E i \in S : \A j \in S : j <= i
<1> DEFINE T == {n \in Nat : \E i \in S : n = k - i}
<1>1. T # {}
  <2>1. PICK i \in S : TRUE
    OBVIOUS
  <2>2. k - i \in Nat
    BY <2>1
  <2> QED BY <2>1, <2>2
<1>2. PICK n \in T : \A m \in T : n <= m
  BY <1>1, LeastOf
<1>3. PICK i \in S : n = k - i
  BY <1>2
<1>4. ASSUME NEW j \in S PROVE j <= i
  <2>1. j \in 1..k /\ k - j \in T
    OBVIOUS
  <2> QED BY <1>2, <1>3, <2>1
<1> QED BY <1>3, <1>4

LEMMA LastIsDeclared ==
  ASSUME WellDeclared(program), NEW places \in SUBSET DOMAIN program.registered, places # {}
  PROVE  \E i \in places : /\ program.registered[i] \in DOMAIN program.types
                           /\ LastRegistered(places) = Declared(program.registered[i])
<1>1. program.registered \in Seq(DOMAIN program.types)
  BY DEF WellDeclared
<1>2. places \subseteq 1..Len(program.registered) /\ Len(program.registered) \in Nat
  BY <1>1
<1>3. \E i \in places : \A j \in places : j <= i
  BY <1>2, LastOf
<1>4. Latest(places) \in places
  BY <1>3 DEF Latest
<1>5. program.registered[Latest(places)] \in DOMAIN program.types
  BY <1>1, <1>4
<1> QED BY <1>4, <1>5 DEF LastRegistered

\* The replacement of a type object keeps its name.
LEMMA FinalIsFound ==
  ASSUME SoundNames, NEW t, TypeFound(t)
  PROVE  /\ TypeFound(Final(t))
         /\ IsNamed(Final(t)) <=> IsNamed(t)
         /\ IsNamed(t) => NameOf(Final(t)) = NameOf(t)
<1>1. \A x \in ValidTypes : IsNamed(x)
  BY DEF ValidTypes, Declared, Made, IsNamed
<1> QED BY <1>1 DEF Final, SoundNames, TypeFound

LEMMA LookUpIsFound ==
  ASSUME WellDeclared(program), SoundNames, NEW class
  PROVE  TypeFound(LookUp(class))
<1>1. CASE OfClass(class) # {}
  <2>1. OfClass(class) \in SUBSET DOMAIN program.registered
    BY DEF OfClass
  <2>2. PICK id \in DOMAIN program.types : LastRegistered(OfClass(class)) = Declared(id)
    BY <1>1, <2>1, LastIsDeclared
  <2>3. LookUp(class) = Declared(id)
    BY <1>1, <2>2 DEF LookUp
  <2> QED BY <2>3 DEF TypeFound, ValidTypes
<1>2. CASE OfClass(class) = {}
  <2>1. CASE class \in DOMAIN names
    BY <1>2, <2>1 DEF LookUp, TypeFound, SoundNames
  <2>2. CASE class \notin DOMAIN names
    <3>1. LookUp(class) = Plain(class) \/ LookUp(class) = Unknown
      BY <1>2, <2>2 DEF LookUp
    <3>2. ~IsNamed(Plain(class)) /\ ~IsNamed(Unknown)
      BY DEF IsNamed, Plain, Unknown
    <3> QED BY <3>1, <3>2 DEF TypeFound
  <2> QED BY <2>1, <2>2
<1> QED BY <1>1, <1>2

LEMMA SimpleIsFound ==
  ASSUME WellDeclared(program), SoundNames, NEW ref, SoundSimple(ref)
  PROVE  /\ TypeFound(Simple(ref))
         /\ ref.form = "ir" => /\ IsNamed(Simple(ref)) <=> IsNamed(ref.type)
                               /\ IsNamed(ref.type) => NameOf(Simple(ref)) = NameOf(ref.type)
<1>1. CASE ref.form = "ir"
  BY <1>1, FinalIsFound DEF Simple, SoundSimple
<1>2. CASE ref.form # "ir"
  BY <1>2, FinalIsFound, LookUpIsFound DEF Simple, SoundSimple
<1> QED BY <1>1, <1>2

-----------------------------------------------------------------------------
(* Steps that make types leave those there are as they were *)

Grown ==
  /\ program' = program /\ DOMAIN made \subseteq DOMAIN made'
  /\ \A n \in DOMAIN made : made'[n] = made[n]

LEMMA SameTypes ==
  ASSUME Grown, NEW t, t \in ValidTypes
  PROVE  /\ t \in ValidTypes' /\ IsNamed(t) /\ NameOf(t)' = NameOf(t) /\ KindOf(t)' = KindOf(t)
         /\ InterfacesOf(t)' = InterfacesOf(t) /\ FieldsOf(t)' = FieldsOf(t)
<1>1. CASE \E id \in DOMAIN program.types : t = Declared(id)
  <2>1. PICK id \in DOMAIN program.types : t = Declared(id)
    BY <1>1
  <2>2. t[1] = "declared" /\ t[2] = id /\ t \in ValidTypes'
    BY <2>1 DEF Declared, ValidTypes, Grown
  <2> QED
    BY <2>2 DEF Grown, IsNamed, NameOf, KindOf, Declaration, InterfacesOf, FieldsOf
<1>2. CASE \E n \in DOMAIN made : t = Made(n)
  <2>1. PICK n \in DOMAIN made : t = Made(n)
    BY <1>2
  <2>2. t[1] = "made" /\ t[2] = n /\ t \in ValidTypes' /\ made'[n] = made[n]
    BY <2>1 DEF Made, ValidTypes, Grown
  <2> QED
    BY <2>2 DEF Grown, IsNamed, NameOf, KindOf, Declaration, InterfacesOf, FieldsOf
<1> QED BY <1>1, <1>2 DEF ValidTypes

LEMMA SameArguments ==
  ASSUME Grown, NEW f
  PROVE  ArgsOf(f)' = ArgsOf(f)
BY DEF Grown, ArgsOf

LEMMA NoArguments ==
  ASSUME NEW f, program.fields[f[2]].args = <<>>
  PROVE  DOMAIN ArgsOf(f) = {}
<1>1. DOMAIN program.fields[f[2]].args = {}
  OBVIOUS
<1> QED BY <1>1 DEF ArgsOf

LEMMA ValidAreNamed ==
  ASSUME NEW t \in ValidTypes
  PROVE  IsNamed(t) /\ TypeFound(t)
BY DEF ValidTypes, Declared, Made, IsNamed, TypeFound

LEMMA StaysFound ==
  ASSUME Grown, NEW t, TypeFound(t)
  PROVE  TypeFound(t)'
<1>1. IsNamed(t)' = IsNamed(t)
  BY DEF IsNamed
<1> QED BY <1>1, SameTypes DEF TypeFound

LEMMA StaysSound ==
  ASSUME Grown, NEW ref
  PROVE  /\ SoundSimple(ref) => SoundSimple(ref)'
         /\ Sound(ref) => Sound(ref)'
<1>1. ASSUME NEW r, SoundSimple(r) PROVE SoundSimple(r)'
  BY <1>1, StaysFound DEF SoundSimple
<1> QED BY <1>1 DEF Sound, Grown

\* References may be replaced by sound ones.
Improved ==
  /\ Grown /\ DOMAIN holds \subseteq DOMAIN holds'
  /\ \A g \in DOMAIN holds : Sound(holds[g]) => Sound(holds[g])'

LEMMA SlotsStay ==
  ASSUME Improved
  PROVE  Slots \subseteq Slots'
<1>1. ASSUME NEW f, SoundSlot(f) PROVE SoundSlot(f)'
  BY <1>1 DEF SoundSlot, Improved, Grown
<1>2. ASSUME NEW f PROVE ArgsOf(f)' = ArgsOf(f)
  BY SameArguments DEF Improved
<1>3. \A f : SoundSlot(f) => SoundSlot(f)'
  BY <1>1
<1>4. ASSUME NEW f \in Slots PROVE f \in Slots'
  <2>1. f \in DOMAIN holds /\ SoundSlot(f)
    BY DEF Slots
  <2>2. ASSUME NEW j \in DOMAIN ArgsOf(f)'
        PROVE  SoundSlot(ArgsOf(f)[j])' /\ DOMAIN ArgsOf(ArgsOf(f)[j])' = {}
    <3>1. j \in DOMAIN ArgsOf(f) /\ SoundSlot(ArgsOf(f)[j]) /\ DOMAIN ArgsOf(ArgsOf(f)[j]) = {}
      BY <1>2 DEF Slots
    <3>2. PICK a : a = ArgsOf(f)[j]
      OBVIOUS
    <3>3. SoundSlot(a)' /\ DOMAIN ArgsOf(a)' = {} /\ ArgsOf(f)'[j] = a
      BY <1>2, <1>3, <3>1, <3>2
    <3>4. SoundSlot(ArgsOf(f)[j])' = SoundSlot(a)' /\ ArgsOf(ArgsOf(f)[j])' = ArgsOf(a)'
      BY <3>2, <1>2 DEF SoundSlot, Sound, SoundSimple, TypeFound, ValidTypes, IsNamed, ArgsOf, Improved, Grown
    <3> QED BY <3>3, <3>4
  <2>3. f \in DOMAIN holds' /\ SoundSlot(f)'
    BY <1>3, <2>1 DEF Improved
  <2> QED BY <2>2, <2>3 DEF Slots
<1> QED BY <1>4

\* A reference as it is declared is sound, unless it is or has the template's parameter.
LEMMA DeclaredIsSound ==
  ASSUME WellDeclared(program), NEW f \in DOMAIN program.fields, Closed(program.fields[f].ref)
  PROVE  Sound(program.fields[f].ref)
<1> DEFINE simple == {[form |-> "ir", type |-> <<"declared", id>>] : id \in DOMAIN program.types}
                     \cup [form : {"class"}, class : STRING]
           open == simple \cup {[form |-> "var"]}
           ref == program.fields[f].ref
<1>1. ref \in open \cup [form : {"generic"}, template : DOMAIN program.templates, of : open]
  BY DEF WellDeclared
<1>2. ASSUME NEW r \in simple PROVE SoundSimple(r) /\ r.form # "generic"
  BY DEF SoundSimple, TypeFound, ValidTypes, Declared
<1>3. CASE ref \in simple
  BY <1>2, <1>3 DEF Sound
<1>4. CASE ref \in [form : {"generic"}, template : DOMAIN program.templates, of : open]
  <2>1. ref.form = "generic" /\ ref.template \in DOMAIN program.templates /\ ref.of \in open
    BY <1>4
  <2>2. ref.of \in simple
    BY <2>1 DEF Closed
  <2> QED BY <1>2, <2>1, <2>2 DEF Sound
<1>5. ref # [form |-> "var"]
  BY DEF Closed
<1> QED BY <1>1, <1>3, <1>4, <1>5

LEMMA GroundInitially ==
  ASSUME BuilderInit
  PROVE  Ground
<1>1. WellDeclared(program)
  BY ProgramsAssumption DEF BuilderInit
<1>2. DOMAIN made = {} /\ ValidTypes = {Declared(id) : id \in DOMAIN program.types}
  BY DEF BuilderInit, ValidTypes
<1>3. SoundNames
  <2>1. ASSUME NEW n \in DOMAIN names PROVE names[n] \in ValidTypes /\ NameOf(names[n]) = n
    <3>1. names[n] = LastRegistered(OfName(n)) /\ \E t \in Registered : t.name = n
      BY DEF BuilderInit
    <3>2. OfName(n) \in SUBSET DOMAIN program.registered /\ OfName(n) # {}
      BY <3>1 DEF OfName, Registered
    <3>3. PICK i \in OfName(n) : /\ program.registered[i] \in DOMAIN program.types
                                 /\ LastRegistered(OfName(n)) = Declared(program.registered[i])
      BY <1>1, <3>2, LastIsDeclared
    <3>4. NameOf(Declared(program.registered[i])) = n
      BY DEF NameOf, Declared, OfName
    <3> QED BY <1>2, <3>1, <3>3, <3>4
  <2> QED BY <1>2, <2>1 DEF SoundNames
<1>4. DOMAIN holds = {<<>>} \X DOMAIN program.fields
      /\ \A f \in DOMAIN program.fields : holds[<<<<>>, f>>] = program.fields[f].ref
  BY DEF BuilderInit
<1>5. ASSUME NEW f \in DOMAIN program.fields, Closed(program.fields[f].ref) PROVE SoundSlot(<<<<>>, f>>)
  BY <1>1, <1>4, <1>5, DeclaredIsSound DEF SoundSlot
<1>6. ASSUME NEW t \in ValidTypes
      PROVE  /\ InterfacesOf(t) \in Seq(ValidTypes) /\ FieldsOf(t) \in Seq(Slots)
             /\ KindOf(t) = "union" => \A i \in DOMAIN FieldsOf(t) : DOMAIN ArgsOf(FieldsOf(t)[i]) = {}
  <2>1. PICK id \in DOMAIN program.types : t = Declared(id)
    BY <1>2
  <2> DEFINE d == program.types[id]
  <2>2. /\ d.fields \in Seq(DOMAIN program.fields) /\ d.interfaces \in Seq(DOMAIN program.types)
        /\ \A i \in DOMAIN d.fields :
             /\ Closed(program.fields[d.fields[i]].ref)
             /\ d.kind = "union" => program.fields[d.fields[i]].args = <<>>
             /\ \A j \in DOMAIN program.fields[d.fields[i]].args :
                  Closed(program.fields[program.fields[d.fields[i]].args[j]].ref)
    BY <1>1 DEF WellDeclared
  <2>3. t[1] = "declared" /\ Declaration(t) = d /\ KindOf(t) = d.kind
    BY <2>1 DEF Declared, Declaration, KindOf, IsNamed
  <2>4. InterfacesOf(t) \in Seq(ValidTypes)
    <3>1. InterfacesOf(t) = [i \in DOMAIN d.interfaces |-> Declared(d.interfaces[i])]
      BY <2>3 DEF InterfacesOf
    <3>2. DOMAIN d.interfaces = 1..Len(d.interfaces) /\ Len(d.interfaces) \in Nat
          /\ \A i \in DOMAIN d.interfaces : Declared(d.interfaces[i]) \in ValidTypes
      BY <1>2, <2>2
    <3> QED BY <3>1, <3>2
  <2>5. FieldsOf(t) = [i \in DOMAIN d.fields |-> <<<<>>, d.fields[i]>>]
    BY <2>3 DEF FieldsOf
  <2>6. ASSUME NEW i \in DOMAIN d.fields PROVE <<<<>>, d.fields[i]>> \in Slots
    <3> DEFINE f == <<<<>>, d.fields[i]>>
    <3>1. d.fields[i] \in DOMAIN program.fields
      BY <2>2
    <3>2. SoundSlot(f)
      BY <1>5, <2>2, <3>1
    <3>3. program.fields[d.fields[i]].args \in Seq({a \in DOMAIN program.fields : program.fields[a].args = <<>>})
      BY <1>1, <3>1 DEF WellDeclared
    <3>4. ArgsOf(f) = [j \in DOMAIN program.fields[d.fields[i]].args |-> <<<<>>, program.fields[d.fields[i]].args[j]>>]
      BY DEF ArgsOf
    <3>5. ASSUME NEW j \in DOMAIN ArgsOf(f) PROVE SoundSlot(ArgsOf(f)[j]) /\ DOMAIN ArgsOf(ArgsOf(f)[j]) = {}
      <4>1. PICK a \in DOMAIN program.fields : a = program.fields[d.fields[i]].args[j] /\ program.fields[a].args = <<>>
        <5>1. j \in DOMAIN program.fields[d.fields[i]].args
          BY <3>4
        <5> QED BY <3>3, <5>1
      <4>2. Closed(program.fields[a].ref) /\ ArgsOf(f)[j] = <<<<>>, a>>
        BY <2>2, <3>4, <4>1
      <4>3. DOMAIN ArgsOf(<<<<>>, a>>) = {}
        BY <4>1, NoArguments
      <4> QED BY <1>5, <4>2, <4>3
    <3>6. f \in DOMAIN holds
      BY <3>2 DEF SoundSlot
    <3> QED BY <3>2, <3>5, <3>6 DEF Slots
  <2>7. FieldsOf(t) \in Seq(Slots)
    <3>1. DOMAIN d.fields = 1..Len(d.fields) /\ Len(d.fields) \in Nat
      BY <2>2
    <3> QED BY <2>5, <2>6, <3>1
  <2>8. ASSUME KindOf(t) = "union", NEW i \in DOMAIN FieldsOf(t) PROVE DOMAIN ArgsOf(FieldsOf(t)[i]) = {}
    <3>1. program.fields[d.fields[i]].args = <<>>
      BY <2>2, <2>3, <2>5, <2>8
    <3> QED BY <2>5, <2>8, <3>1, NoArguments
  <2> QED BY <2>4, <2>7, <2>8
<1>7. SoundTypes
  BY <1>6 DEF SoundTypes
<1>8. SoundOwners
  BY <1>4 DEF SoundOwners
<1> QED BY <1>1, <1>3, <1>7, <1>8 DEF Ground

\* The reference f was replaced by a type, or by another of the same name.
Resolved(f) ==
  /\ Improved
  /\ \A g \in DOMAIN holds \ {f} : holds'[g] = holds[g]
  /\ holds'[f].form = "ir"
  /\ holds[f].form = "ir" =>
       /\ IsNamed(holds'[f].type) <=> IsNamed(holds[f].type)
       /\ IsNamed(holds[f].type) => NameOf(holds[f].type)' = NameOf(holds[f].type)

LEMMA GroundStays ==
  ASSUME Ground, Improved, UNCHANGED <<names, made>>, DOMAIN holds' = DOMAIN holds
  PROVE  Ground'
<1>1. program' = program /\ ValidTypes' = ValidTypes /\ Slots \subseteq Slots'
  BY SlotsStay DEF Improved, Grown, ValidTypes
<1>2. WellDeclared(program)'
  BY <1>1 DEF Ground
<1>3. SoundNames'
  <2>1. ASSUME NEW n \in DOMAIN names PROVE names[n] \in ValidTypes /\ NameOf(names[n])' = n
    <3>1. names[n] \in ValidTypes /\ NameOf(names[n]) = n
      BY DEF Ground, SoundNames
    <3>2. NameOf(names[n])' = NameOf(names[n])
      BY <1>1 DEF NameOf
    <3> QED BY <3>1, <3>2
  <2> QED BY <1>1, <2>1 DEF Ground, SoundNames
<1>4. SoundTypes'
  <2>1. ASSUME NEW t \in ValidTypes
        PROVE  /\ InterfacesOf(t)' \in Seq(ValidTypes) /\ FieldsOf(t)' \in Seq(Slots')
               /\ KindOf(t)' = "union" => \A i \in DOMAIN FieldsOf(t)' : DOMAIN ArgsOf(FieldsOf(t)[i])' = {}
    <3>1. InterfacesOf(t)' = InterfacesOf(t) /\ FieldsOf(t)' = FieldsOf(t) /\ KindOf(t)' = KindOf(t)
      BY SameTypes DEF Improved
    <3>2. InterfacesOf(t) \in Seq(ValidTypes) /\ FieldsOf(t) \in Seq(Slots')
      BY <1>1 DEF Ground, SoundTypes
    <3>3. ASSUME KindOf(t) = "union", NEW i \in DOMAIN FieldsOf(t) PROVE DOMAIN ArgsOf(FieldsOf(t)[i])' = {}
      <4>1. DOMAIN ArgsOf(FieldsOf(t)[i]) = {}
        BY <3>3 DEF Ground, SoundTypes
      <4>2. ArgsOf(FieldsOf(t)[i])' = ArgsOf(FieldsOf(t)[i])
        BY <1>1, <3>1 DEF ArgsOf
      <4> QED BY <4>1, <4>2
    <3> QED BY <3>1, <3>2, <3>3
  <2> QED BY <1>1, <2>1 DEF SoundTypes
<1>5. SoundOwners'
  BY DEF Ground, SoundOwners
<1> QED BY <1>2, <1>3, <1>4, <1>5 DEF Ground

LEMMA ReplacedByType ==
  ASSUME Ground, NEW f \in DOMAIN holds, NEW t, TypeFound(t), UNCHANGED <<program, names, made>>,
         holds' = [holds EXCEPT ![f] = [form |-> "ir", type |-> t]],
         holds[f].form = "ir" => /\ IsNamed(t) <=> IsNamed(holds[f].type)
                                 /\ IsNamed(t) => NameOf(t) = NameOf(holds[f].type)
  PROVE  Resolved(f) /\ Ground'
<1>1. Grown
  BY DEF Grown
<1>2. DOMAIN holds' = DOMAIN holds /\ holds'[f] = [form |-> "ir", type |-> t]
      /\ \A g \in DOMAIN holds \ {f} : holds'[g] = holds[g]
  OBVIOUS
<1>3. TypeFound(t)'
  BY <1>1, StaysFound
<1>4. ASSUME NEW g \in DOMAIN holds, Sound(holds[g]) PROVE Sound(holds[g])'
  <2>1. CASE g = f
    <3>1. PICK r : r = [form |-> "ir", type |-> t]
      OBVIOUS
    <3>2. Sound(r)'
      BY <1>3, <3>1 DEF Sound, SoundSimple
    <3>3. Sound(holds[g])' = Sound(r)'
      BY <1>2, <2>1, <3>1
    <3> QED BY <3>2, <3>3
  <2>2. CASE g # f
    <3>1. PICK r : r = holds[g]
      OBVIOUS
    <3>2. Sound(r)'
      BY <1>1, <1>4, <3>1, StaysSound
    <3>3. Sound(holds[g])' = Sound(r)'
      BY <1>2, <2>2, <3>1
    <3> QED BY <3>2, <3>3
  <2> QED BY <2>1, <2>2
<1>5. Improved
  BY <1>1, <1>2, <1>4 DEF Improved
<1>6. ASSUME holds[f].form = "ir"
      PROVE  /\ IsNamed(holds'[f].type) <=> IsNamed(holds[f].type)
             /\ IsNamed(holds[f].type) => NameOf(holds[f].type)' = NameOf(holds[f].type)
  <2>1. holds'[f].type = t
    BY <1>2
  <2>2. NameOf(holds[f].type)' = NameOf(t)
    BY <2>1 DEF NameOf
  <2> QED BY <1>6, <2>1, <2>2
<1>7. Resolved(f)
  BY <1>2, <1>5, <1>6 DEF Resolved
<1> QED BY <1>2, <1>5, <1>7, GroundStays

LEMMA SimpleIsResolved ==
  ASSUME Ground, NEW f \in Slots, Head(stack).on = f, ResolveSimple
  PROVE  \/ Resolved(f) /\ Ground' /\ stack' = Remaining(Head(stack)) \o Tail(stack)
            /\ UNCHANGED <<program, byName, typeMap, stage>>
         \/ stage' = "refused" /\ UNCHANGED <<program, names, made, holds, stack, byName, typeMap>>
<1>1. PICK t : t = Simple(holds[f])
  OBVIOUS
<1>2. holds[f].form # "generic" /\ f \in DOMAIN holds /\ Sound(holds[f])
  BY DEF ResolveSimple, Slots, SoundSlot
<1>3. /\ TypeFound(t)
      /\ holds[f].form = "ir" => /\ IsNamed(t) <=> IsNamed(holds[f].type)
                                 /\ IsNamed(holds[f].type) => NameOf(t) = NameOf(holds[f].type)
  BY <1>1, <1>2, SimpleIsFound DEF Sound, Ground
<1>4. CASE t = Unknown
  BY <1>1, <1>4 DEF ResolveSimple, Refuse
<1>5. CASE t # Unknown
  <2>1. /\ holds' = [holds EXCEPT ![f] = [form |-> "ir", type |-> t]]
        /\ stack' = Remaining(Head(stack)) \o Tail(stack)
        /\ UNCHANGED <<program, names, made, byName, typeMap, stage>>
    BY <1>1, <1>5 DEF ResolveSimple
  <2>2. Resolved(f) /\ Ground'
    BY <1>2, <1>3, <2>1, ReplacedByType
  <2> QED BY <2>1, <2>2
<1> QED BY <1>4, <1>5

LEMMA SubstitutedIsSound ==
  ASSUME WellDeclared(program), NEW f \in DOMAIN program.fields, NEW arg, TypeFound(arg)
  PROVE  Sound(Substituted(program.fields[f].ref, arg))
<1> DEFINE simple == {[form |-> "ir", type |-> <<"declared", id>>] : id \in DOMAIN program.types}
                     \cup [form : {"class"}, class : STRING]
           open == simple \cup {[form |-> "var"]}
           generic == [form : {"generic"}, template : DOMAIN program.templates, of : open]
           ref == program.fields[f].ref
           bound == [form |-> "ir", type |-> arg]
<1>1. ref \in open \cup generic
  BY DEF WellDeclared
<1>2. SoundSimple(bound) /\ bound.form = "ir"
  BY DEF SoundSimple
<1>3. CASE ref = [form |-> "var"]
  <2>1. Substituted(ref, arg) = bound
    BY <1>3 DEF Substituted
  <2> QED BY <1>2, <2>1 DEF Sound
<1>4. CASE ref \in generic /\ ref.of.form = "var"
  <2>1. Substituted(ref, arg) = [ref EXCEPT !.of = bound]
    BY <1>4 DEF Substituted
  <2>2. /\ [ref EXCEPT !.of = bound].form = "generic" /\ [ref EXCEPT !.of = bound].of = bound
        /\ [ref EXCEPT !.of = bound].template \in DOMAIN program.templates
    BY <1>4
  <2> QED BY <1>2, <2>1, <2>2 DEF Sound
<1>5. CASE ref # [form |-> "var"] /\ ~(ref \in generic /\ ref.of.form = "var")
  <2>1. Closed(ref)
    BY <1>1, <1>5 DEF Closed
  <2>2. ref.form # "var" /\ ~(ref.form = "generic" /\ ref.of.form = "var")
    BY <2>1 DEF Closed
  <2>3. Substituted(ref, arg) = ref
    BY <2>2 DEF Substituted
  <2> QED BY <2>1, <2>3, DeclaredIsSound
<1> QED BY <1>1, <1>3, <1>4, <1>5

\* A type was made of a template: under a new name, with references of its own.
Makes(f, n, template, arg) ==
  /\ UNCHANGED program /\ n \notin DOMAIN names
  /\ made' = With(made, n, Concrete(n, template, arg))
  /\ names' = With(names, n, Made(n))
  /\ holds' = [s \in DOMAIN holds \cup {<<n>>} \X TemplateFields(template) |->
                IF s \in {<<n>>} \X TemplateFields(template)
                THEN Substituted(program.fields[s[2]].ref, arg)
                ELSE [holds EXCEPT ![f] = [form |-> "ir", type |-> Made(n)]][s]]

LEMMA MadeIsResolved ==
  ASSUME Ground, NEW f \in Slots, NEW n, NEW template \in DOMAIN program.templates,
         NEW arg, TypeFound(arg), holds[f].form = "generic", Makes(f, n, template, arg)
  PROVE  Resolved(f) /\ Ground'
<1> DEFINE own == {<<n>>} \X TemplateFields(template)
           declared == program.templates[template]
<1>1. n \notin DOMAIN made
  BY DEF Ground, SoundNames, Makes
<1>2. own \cap DOMAIN holds = {}
  <2>1. ASSUME NEW s \in own, s \in DOMAIN holds PROVE FALSE
    <3>1. s[1] = <<n>> /\ <<n>> # <<>>
      OBVIOUS
    <3>2. PICK m \in DOMAIN made : s[1] = <<m>>
      BY <2>1, <3>1 DEF Ground, SoundOwners
    <3> QED BY <1>1, <3>1, <3>2
  <2> QED BY <2>1
<1>3. /\ DOMAIN made' = DOMAIN made \cup {n} /\ made'[n] = Concrete(n, template, arg)
      /\ \A m \in DOMAIN made : made'[m] = made[m]
  BY <1>1 DEF Makes, With
<1>4. Grown
  BY <1>3 DEF Grown, Makes
<1>5. ValidTypes' = ValidTypes \cup {Made(n)} /\ TypeFound(Made(n))'
  BY <1>3 DEF ValidTypes, TypeFound, Makes
<1>6. f \in DOMAIN holds
  BY DEF Slots
<1>7. /\ DOMAIN holds' = DOMAIN holds \cup own /\ holds'[f] = [form |-> "ir", type |-> Made(n)]
      /\ \A g \in DOMAIN holds \ {f} : holds'[g] = holds[g]
      /\ \A s \in own : holds'[s] = Substituted(program.fields[s[2]].ref, arg)
  BY <1>2, <1>6 DEF Makes
<1>8. ASSUME NEW g \in DOMAIN holds, Sound(holds[g]) PROVE Sound(holds[g])'
  <2>1. CASE g = f
    <3>1. PICK r : r = [form |-> "ir", type |-> Made(n)]
      OBVIOUS
    <3>2. Sound(r)'
      BY <1>5, <3>1 DEF Sound, SoundSimple
    <3>3. Sound(holds[g])' = Sound(r)'
      BY <1>7, <2>1, <3>1
    <3> QED BY <3>2, <3>3
  <2>2. CASE g # f
    <3>1. PICK r : r = holds[g]
      OBVIOUS
    <3>2. Sound(r)'
      BY <1>4, <1>8, <3>1, StaysSound
    <3>3. Sound(holds[g])' = Sound(r)'
      BY <1>7, <2>2, <3>1
    <3> QED BY <3>2, <3>3
  <2> QED BY <2>1, <2>2
<1>9. Improved
  BY <1>4, <1>7, <1>8 DEF Improved
<1>10. Resolved(f)
  BY <1>7, <1>9 DEF Resolved
<1>11. Slots \subseteq Slots'
  BY <1>9, SlotsStay
<1>12. WellDeclared(program) /\ WellDeclared(program)'
  BY DEF Ground, Makes
<1>13. /\ declared.kind \in {"object", "interface", "input"}
       /\ declared.fields \in Seq(DOMAIN program.fields) /\ declared.interfaces \in Seq(DOMAIN program.types)
       /\ \A x \in DOMAIN program.fields :
            program.fields[x].args \in Seq({a \in DOMAIN program.fields : program.fields[a].args = <<>>})
  BY <1>12 DEF WellDeclared
<1>14. ASSUME NEW x \in DOMAIN program.fields, x \in TemplateFields(template) PROVE SoundSlot(<<<<n>>, x>>)'
  <2> DEFINE s == <<<<n>>, x>>
  <2>1. s \in own /\ s[2] = x
    BY <1>14
  <2>2. PICK r : r = Substituted(program.fields[x].ref, arg)
    OBVIOUS
  <2>3. Sound(r)
    BY <1>12, <2>2, SubstitutedIsSound
  <2>4. Sound(r)'
    BY <1>4, <2>3, StaysSound
  <2>5. holds'[s] = r /\ s \in DOMAIN holds'
    BY <1>7, <2>1, <2>2
  <2>6. Sound(holds[s])' = Sound(r)'
    BY <2>5
  <2> QED BY <1>4, <2>1, <2>4, <2>5, <2>6 DEF SoundSlot, Grown
<1>15. ASSUME NEW i \in DOMAIN declared.fields PROVE <<<<n>>, declared.fields[i]>> \in Slots'
  <2>1. PICK x : x = declared.fields[i]
    OBVIOUS
  <2>2. x \in DOMAIN program.fields
    BY <1>13, <2>1
  <2>3. x \in TemplateFields(template)
    BY <2>1 DEF TemplateFields
  <2>4. PICK s : s = <<<<n>>, x>>
    OBVIOUS
  <2>5. SoundSlot(s)'
    BY <1>14, <2>2, <2>3, <2>4
  <2>6. PICK args : args = program.fields[x].args
    OBVIOUS
  <2>7. args \in Seq({a \in DOMAIN program.fields : program.fields[a].args = <<>>})
    BY <1>13, <2>2, <2>6
  <2>8. DOMAIN ArgsOf(s)' = DOMAIN args /\ \A j \in DOMAIN args : ArgsOf(s)'[j] = <<<<n>>, args[j]>>
    BY <1>4, <2>4, <2>6 DEF ArgsOf, Grown
  <2>9. ASSUME NEW j \in DOMAIN args
        PROVE  SoundSlot(ArgsOf(s)[j])' /\ DOMAIN ArgsOf(ArgsOf(s)[j])' = {}
    <3>1. PICK a \in DOMAIN program.fields : a = args[j] /\ program.fields[a].args = <<>>
      <4>1. PICK A : A = {a \in DOMAIN program.fields : program.fields[a].args = <<>>}
        OBVIOUS
      <4>2. args \in Seq(A)
        BY <2>7, <4>1
      <4>3. args[j] \in A
        <5>1. j \in 1..Len(args)
          BY <4>2
        <5> QED BY <4>2, <5>1
      <4> QED BY <4>1, <4>3
    <3>2. a \in TemplateFields(template)
      <4>1. a \in {program.fields[declared.fields[i]].args[k] : k \in DOMAIN program.fields[declared.fields[i]].args}
        BY <2>1, <2>6, <3>1
      <4> QED BY <4>1 DEF TemplateFields
    <3>3. PICK b : b = <<<<n>>, a>>
      OBVIOUS
    <3>4. ArgsOf(s)'[j] = b
      BY <2>8, <3>1, <3>3
    <3>5. SoundSlot(b)'
      BY <1>14, <3>2, <3>3
    <3>6. DOMAIN ArgsOf(b) = {}
      BY <3>1, <3>3, NoArguments
    <3>7. ArgsOf(b)' = ArgsOf(b)
      BY <1>4, SameArguments
    <3>8. SoundSlot(ArgsOf(s)[j])' = SoundSlot(b)'
      BY <3>4 DEF SoundSlot
    <3>9. ArgsOf(ArgsOf(s)[j])' = ArgsOf(b)'
      BY <3>4
    <3> QED BY <3>5, <3>6, <3>7, <3>8, <3>9
  <2>10. s \in DOMAIN holds'
    BY <2>5 DEF SoundSlot
  <2>11. s \in Slots'
    BY <2>5, <2>8, <2>9, <2>10 DEF Slots
  <2> QED BY <2>1, <2>4, <2>11
<1>16. PICK c : c = Concrete(n, template, arg)
  OBVIOUS
<1> DEFINE interfaces == IF declared.kind = "object"
                         THEN [i \in DOMAIN declared.interfaces |-> Final(Declared(declared.interfaces[i]))] ELSE <<>>
           fields == [i \in DOMAIN declared.fields |-> <<<<n>>, declared.fields[i]>>]
<1>17. /\ c.template = template /\ c.interfaces = interfaces
       /\ c.fields = Update(Inherited(interfaces), fields)
  BY <1>16 DEF Concrete
<1>18. interfaces \in Seq(ValidTypes)
  <2>1. ASSUME NEW id \in DOMAIN program.types PROVE Final(Declared(id)) \in ValidTypes
    <3>1. IsNamed(Declared(id)) /\ TypeFound(Declared(id))
      BY DEF IsNamed, Declared, TypeFound, ValidTypes
    <3> QED BY <3>1, FinalIsFound DEF Ground, TypeFound
  <2>2. DOMAIN declared.interfaces = 1..Len(declared.interfaces) /\ Len(declared.interfaces) \in Nat
    BY <1>13
  <2>3. \A i \in DOMAIN declared.interfaces : Final(Declared(declared.interfaces[i])) \in ValidTypes
    BY <1>13, <2>1
  <2> QED BY <2>2, <2>3
<1>19. c.fields \in Seq(Slots')
  <2>1. PICK S : S = Slots'
    OBVIOUS
  <2>2. \A t \in ValidTypes : FieldsOf(t) \in Seq(S)
    BY <1>11, <2>1 DEF Ground, SoundTypes
  <2>3. Inherited(interfaces) \in Seq(S)
    BY <1>18, <2>2, InheritedStays
  <2>4. DOMAIN declared.fields = 1..Len(declared.fields) /\ Len(declared.fields) \in Nat
    BY <1>13
  <2>5. \A i \in DOMAIN declared.fields : <<<<n>>, declared.fields[i]>> \in S
    BY <1>15, <2>1
  <2>6. fields \in Seq(S)
    BY <2>4, <2>5
  <2> QED BY <1>17, <2>1, <2>3, <2>6, UpdateStays
<1>20. SoundNames'
  <2>1. DOMAIN names' = DOMAIN names \cup {n} /\ names'[n] = Made(n)
        /\ \A m \in DOMAIN names : names'[m] = names[m]
    BY DEF Makes, With
  <2>2. ASSUME NEW m \in DOMAIN names PROVE names'[m] \in ValidTypes' /\ NameOf(names[m])' = m
    <3>1. PICK t : t = names[m]
      OBVIOUS
    <3>2. t \in ValidTypes /\ NameOf(t) = m
      BY <3>1 DEF Ground, SoundNames
    <3>3. t \in ValidTypes' /\ NameOf(t)' = m
      BY <1>4, <3>2, SameTypes
    <3>4. NameOf(names[m])' = NameOf(t)'
      BY <2>1, <3>1
    <3> QED BY <2>1, <3>1, <3>3, <3>4
  <2>3. NameOf(names[n])' = n
    <3>1. NameOf(Made(n))' = n
      BY DEF NameOf, Made
    <3>2. NameOf(names[n])' = NameOf(Made(n))'
      BY <2>1
    <3> QED BY <3>1, <3>2
  <2>4. DOMAIN made \subseteq DOMAIN names
    BY DEF Ground, SoundNames
  <2> QED BY <1>3, <1>5, <2>1, <2>2, <2>3, <2>4 DEF SoundNames
<1>21. ASSUME NEW t \in ValidTypes'
       PROVE  /\ InterfacesOf(t)' \in Seq(ValidTypes') /\ FieldsOf(t)' \in Seq(Slots')
              /\ KindOf(t)' = "union" => \A i \in DOMAIN FieldsOf(t)' : DOMAIN ArgsOf(FieldsOf(t)[i])' = {}
  <2>1. CASE t \in ValidTypes
    <3>1. InterfacesOf(t)' = InterfacesOf(t) /\ FieldsOf(t)' = FieldsOf(t) /\ KindOf(t)' = KindOf(t)
      BY <1>4, <2>1, SameTypes
    <3>2. InterfacesOf(t) \in Seq(ValidTypes') /\ FieldsOf(t) \in Seq(Slots')
      BY <1>5, <1>11, <2>1 DEF Ground, SoundTypes
    <3>3. ASSUME KindOf(t) = "union", NEW i \in DOMAIN FieldsOf(t) PROVE DOMAIN ArgsOf(FieldsOf(t)[i])' = {}
      <4>1. DOMAIN ArgsOf(FieldsOf(t)[i]) = {}
        BY <2>1, <3>3 DEF Ground, SoundTypes
      <4>2. ArgsOf(FieldsOf(t)[i])' = ArgsOf(FieldsOf(t)[i])
        BY <1>4, <3>1 DEF ArgsOf, Grown
      <4> QED BY <4>1, <4>2
    <3> QED BY <3>1, <3>2, <3>3
  <2>2. CASE t = Made(n)
    <3>1. t[1] = "made" /\ t[2] = n
      BY <2>2 DEF Made
    <3>2. InterfacesOf(t)' = c.interfaces /\ FieldsOf(t)' = c.fields
      BY <1>3, <1>16, <3>1 DEF InterfacesOf, FieldsOf
    <3>3. KindOf(t)' = declared.kind
      BY <1>3, <1>4, <1>16, <1>17, <3>1 DEF KindOf, IsNamed, Declaration, Grown
    <3>4. c.interfaces \in Seq(ValidTypes')
      BY <1>5, <1>17, <1>18
    <3>5. KindOf(t)' # "union"
      BY <1>13, <3>3
    <3> QED BY <1>19, <3>2, <3>4, <3>5
  <2> QED BY <1>5, <2>1, <2>2
<1>22. SoundTypes'
  BY <1>21 DEF SoundTypes
<1>23. SoundOwners'
  <2>1. ASSUME NEW s \in DOMAIN holds', s[1] # <<>> PROVE \E m \in DOMAIN made' : s[1] = <<m>>
    <3>1. CASE s \in own
      BY <1>3, <3>1
    <3>2. CASE s \in DOMAIN holds
      BY <1>3, <2>1, <3>2 DEF Ground, SoundOwners
    <3> QED BY <1>7, <3>1, <3>2
  <2> QED BY <2>1 DEF SoundOwners
<1> QED BY <1>10, <1>12, <1>20, <1>22, <1>23 DEF Ground

LEMMA GenericIsResolved ==
  ASSUME Ground, NEW f \in Slots, Head(stack).on = f, ResolveGeneric
  PROVE  \/ Resolved(f) /\ Ground' /\ stack' = Remaining(Head(stack)) \o Tail(stack)
            /\ UNCHANGED <<program, byName, typeMap, stage>>
         \/ stage' = "refused" /\ UNCHANGED <<program, names, made, holds, stack, byName, typeMap>>
<1>1. PICK ref : ref = holds[f]
  OBVIOUS
<1>2. ref.form = "generic" /\ f \in DOMAIN holds /\ Sound(ref)
  BY <1>1 DEF ResolveGeneric, Slots, SoundSlot
<1>3. PICK arg : arg = Simple(ref.of)
  OBVIOUS
<1>4. ref.template \in DOMAIN program.templates /\ TypeFound(arg)
  BY <1>2, <1>3, SimpleIsFound DEF Sound, Ground
<1>5. PICK n : n = GenericName(ref.template, arg)
  OBVIOUS
<1>6. CASE arg = Unknown
  BY <1>1, <1>3, <1>6 DEF ResolveGeneric, Refuse
<1>7. CASE arg # Unknown /\ n \in DOMAIN names
  <2>1. /\ holds' = [holds EXCEPT ![f] = [form |-> "ir", type |-> names[n]]] /\ UNCHANGED <<program, names, made>>
        /\ stack' = Remaining(Head(stack)) \o Tail(stack) /\ UNCHANGED <<program, byName, typeMap, stage>>
    BY <1>1, <1>3, <1>5, <1>7 DEF ResolveGeneric
  <2>2. TypeFound(names[n])
    BY <1>7 DEF Ground, SoundNames, TypeFound
  <2>3. Resolved(f) /\ Ground'
    BY <1>1, <1>2, <2>1, <2>2, ReplacedByType
  <2> QED BY <2>1, <2>3
<1>8. CASE arg # Unknown /\ n \notin DOMAIN names
  <2>1. /\ Makes(f, n, ref.template, arg)
        /\ stack' = Remaining(Head(stack)) \o Tail(stack) /\ UNCHANGED <<program, byName, typeMap, stage>>
    BY <1>1, <1>3, <1>5, <1>8 DEF ResolveGeneric, Makes
  <2>2. Resolved(f) /\ Ground'
    BY <1>1, <1>2, <1>4, <2>1, MadeIsResolved
  <2> QED BY <2>1, <2>2
<1> QED BY <1>6, <1>7, <1>8

-----------------------------------------------------------------------------
(* The invariant *)

Seen == {byName[n] : n \in DOMAIN byName}
Found == IF stage = "walking" THEN Seen ELSE Built
Waiting == Elements(stack)

Fields(t) == Elements(FieldsOf(t))
Args(f) == Elements(ArgsOf(f))
Interfaces(t) == IF KindOf(t) = "object" THEN Elements(InterfacesOf(t)) ELSE {}

\* The frontier of a walk: every type is visited or waits, every reference waits or is
\* resolved to such a type, or to one its own task will let wait.
Awaits(dos, x) == \E k \in Waiting : k.do \in dos /\ k.on = x
Reached(t) == t \in Found \/ Awaits({"visit"}, t)
Settled(f) ==
  /\ holds[f].form = "ir"
  /\ \A t \in {holds[f].type} : IsNamed(t) => Reached(t) \/ Awaits({"enqueue", "admit"}, f)
Followed(f) == Awaits({"field", "member"}, f) \/ Settled(f)
Handled(f) == Awaits({"field", "member"}, f) \/ (Settled(f) /\ \A a \in Args(f) : Followed(a))
Covered(t) == (\A u \in Interfaces(t) : Reached(u)) /\ (\A f \in Fields(t) : Handled(f))
Explored ==
  /\ \A i \in DOMAIN program.roots : Reached(Declared(program.roots[i]))
  /\ \A t \in Found : Covered(t)

Placed(f) == \E t \in Seen : f \in ReferencesOf(t)
WalkTask(k) ==
  /\ k.do \in {"visit", "field", "member", "enqueue", "admit"}
  /\ IF k.do = "visit" THEN k.on \in ValidTypes ELSE Placed(k.on)
  /\ k.do \in {"enqueue", "admit"} => holds[k.on].form = "ir"
  /\ k.do = "member" => Args(k.on) = {}
CollectTask(k) ==
  /\ k.do \in {"visit", "field", "member"}
  /\ IF k.do = "visit" THEN IsNamed(k.on) => k.on \in Seen ELSE Placed(k.on)

\* Once the first walk is over, no reference leads out of the types it visited.
Complete ==
  /\ \A i \in DOMAIN program.roots : Declared(program.roots[i]) \in Seen
  /\ \A t \in Seen :
       /\ Interfaces(t) \subseteq Seen
       /\ KindOf(t) = "object" => Implements(t)
       /\ \A f \in ReferencesOf(t) : holds[f].form = "ir" /\ (IsNamed(holds[f].type) => holds[f].type \in Seen)

IsMap(f) == f = [n \in DOMAIN f |-> f[n]]
WalkInv ==
  /\ Ground
  /\ stack \in Seq(Waiting) /\ IsMap(byName) /\ IsMap(typeMap)
  /\ \A n \in DOMAIN byName : byName[n] \in ValidTypes /\ NameOf(byName[n]) = n
  /\ stage \in {"walking", "collecting", "built", "refused"}
  /\ stage = "walking" => DOMAIN typeMap = {} /\ \A k \in Waiting : WalkTask(k)
  /\ stage \in {"collecting", "built"} =>
       /\ Complete
       /\ \A k \in Waiting : CollectTask(k)
       /\ \A n \in DOMAIN typeMap : n \in DOMAIN byName /\ typeMap[n] = byName[n]
  /\ stage # "refused" => Explored
  /\ stage = "built" => stack = <<>>

\* A set of names with the roots' in it, and with a type's the names it leads to.
Leads(t, X) ==
  /\ \A u \in Interfaces(t) : NameOf(u) \in X
  /\ \A f \in ReferencesOf(t) :
       holds[f].form = "ir" => \A u \in {holds[f].type} : IsNamed(u) => NameOf(u) \in X
Closes(X) ==
  /\ \A i \in DOMAIN program.roots : NameOf(Declared(program.roots[i])) \in X
  /\ \A t \in Seen : NameOf(t) \in X => Leads(t, X)

\* Such a set has the names of all types visited, and of those that wait.
Leading(X) ==
  /\ \A t \in Seen : NameOf(t) \in X
  /\ stage = "walking" => \A k \in Waiting : k.do = "visit" => NameOf(k.on) \in X
ReachInv == stage # "refused" => \A X : Closes(X) => Leading(X)

-----------------------------------------------------------------------------
(* What a type holds, and what is left to do for it *)

LEMMA ShapeOfType ==
  ASSUME Ground, NEW t \in ValidTypes
  PROVE  /\ Interfaces(t) \subseteq ValidTypes /\ Fields(t) \subseteq Slots
         /\ \A f : f \in ReferencesOf(t) <=> f \in Fields(t) \/ \E g \in Fields(t) : f \in Args(g)
         /\ KindOf(t) = "union" => \A f \in Fields(t) : Args(f) = {}
<1>1. InterfacesOf(t) \in Seq(ValidTypes) /\ FieldsOf(t) \in Seq(Slots)
  BY DEF Ground, SoundTypes
<1>2. Elements(InterfacesOf(t)) \subseteq ValidTypes /\ Fields(t) \subseteq Slots
  BY <1>1, InOwnElements DEF Fields
<1>3. ASSUME NEW f PROVE f \in ReferencesOf(t) <=> f \in Fields(t) \/ \E g \in Fields(t) : f \in Args(g)
  BY DEF ReferencesOf, Fields, Args, Elements
<1>4. ASSUME KindOf(t) = "union", NEW f \in Fields(t) PROVE Args(f) = {}
  <2>1. PICK i \in DOMAIN FieldsOf(t) : f = FieldsOf(t)[i]
    BY DEF Fields, Elements
  <2>2. DOMAIN ArgsOf(f) = {}
    BY <1>4, <2>1 DEF Ground, SoundTypes
  <2> QED BY <2>2 DEF Args, Elements
<1> QED BY <1>2, <1>3, <1>4 DEF Interfaces

LEMMA ShapeOfSlot ==
  ASSUME Ground, NEW f \in Slots
  PROVE  /\ ArgsOf(f) \in Seq(Args(f)) /\ Args(f) \subseteq Slots /\ \A a \in Args(f) : Args(a) = {}
         /\ f \in DOMAIN holds
<1>1. f[2] \in DOMAIN program.fields /\ f \in DOMAIN holds
  BY DEF Slots, SoundSlot
<1>2. program.fields[f[2]].args \in Seq(DOMAIN program.fields)
  <2>1. PICK A : A = {a \in DOMAIN program.fields : program.fields[a].args = <<>>}
    OBVIOUS
  <2>2. program.fields[f[2]].args \in Seq(A)
    BY <1>1, <2>1 DEF Ground, WellDeclared
  <2>3. A \subseteq DOMAIN program.fields
    BY <2>1
  <2> QED BY <2>2, <2>3
<1>3. ArgsOf(f) \in Seq({<<f[1], a>> : a \in DOMAIN program.fields})
  BY <1>2 DEF ArgsOf
<1>4. ASSUME NEW a \in Args(f) PROVE a \in Slots /\ Args(a) = {}
  <2>1. PICK j \in DOMAIN ArgsOf(f) : a = ArgsOf(f)[j]
    BY DEF Args, Elements
  <2>2. SoundSlot(a) /\ DOMAIN ArgsOf(a) = {}
    BY <2>1 DEF Slots
  <2>3. a \in DOMAIN holds
    BY <2>2 DEF SoundSlot
  <2> QED BY <2>2, <2>3 DEF Slots, Args, Elements
<1> QED BY <1>1, <1>3, <1>4, InOwnElements DEF Args

\* A reference a type holds is a slot, and so are its arguments, which the type holds too.
LEMMA ShapeOfReference ==
  ASSUME Ground, NEW t \in ValidTypes, NEW f \in ReferencesOf(t)
  PROVE  f \in Slots /\ Args(f) \subseteq ReferencesOf(t)
<1>1. CASE f \in Fields(t)
  BY <1>1, ShapeOfType
<1>2. CASE f \notin Fields(t)
  <2>1. PICK g \in Fields(t) : f \in Args(g)
    BY <1>2, ShapeOfType
  <2>2. g \in Slots
    BY ShapeOfType
  <2> QED BY <2>1, <2>2, ShapeOfSlot
<1> QED BY <1>1, <1>2

LEMMA WorkOfType ==
  ASSUME Ground, NEW t \in ValidTypes
  PROVE  \E do \in {"field", "member"} :
           /\ do = "member" => KindOf(t) = "union"
           /\ TypeTasks(t) \in Seq(Elements(TypeTasks(t)))
           /\ Elements(TypeTasks(t)) = {Task("visit", u) : u \in Interfaces(t)} \cup {Task(do, f) : f \in Fields(t)}
<1>1. InterfacesOf(t) \in Seq(ValidTypes) /\ FieldsOf(t) \in Seq(Slots)
  BY DEF Ground, SoundTypes
<1>2. PICK do : do = IF KindOf(t) = "union" THEN "member" ELSE "field"
  OBVIOUS
<1>3. PICK first : first = IF KindOf(t) = "object" THEN Tasks("visit", InterfacesOf(t)) ELSE <<>>
  OBVIOUS
<1>4. PICK rest : rest = Tasks(do, FieldsOf(t))
  OBVIOUS
<1>5. TypeTasks(t) = first \o rest
  BY <1>2, <1>3, <1>4 DEF TypeTasks
<1>6. rest \in Seq(Elements(rest)) /\ Elements(rest) = {Task(do, f) : f \in Fields(t)}
  BY <1>1, <1>4, ElementsOfTasks DEF Fields
<1>7. first \in Seq(Elements(first)) /\ Elements(first) = {Task("visit", u) : u \in Interfaces(t)}
  <2>1. CASE KindOf(t) = "object"
    BY <1>1, <1>3, <2>1, ElementsOfTasks DEF Interfaces
  <2>2. CASE KindOf(t) # "object"
    BY <1>3, <2>2, ElementsOfNone DEF Interfaces
  <2> QED BY <2>1, <2>2
<1>8. TypeTasks(t) \in Seq(Elements(TypeTasks(t))) /\ Elements(TypeTasks(t)) = Elements(first) \cup Elements(rest)
  <2>1. first \in Seq(Elements(first)) /\ rest \in Seq(Elements(rest))
    BY <1>6, <1>7
  <2> QED BY <1>5, <2>1, ElementsOfTwo
<1> QED BY <1>2, <1>6, <1>7, <1>8

LEMMA WorkOfReference ==
  ASSUME Ground, NEW k, k.on \in Slots, k.do \in {"field", "member"}, k.do = "member" => Args(k.on) = {}
  PROVE  \E do \in {"enqueue", "admit"} :
           /\ Remaining(k) \in Seq(Elements(Remaining(k)))
           /\ Elements(Remaining(k)) = {Task("field", a) : a \in Args(k.on)} \cup {Task(do, k.on)}
<1>1. CASE k.do = "member"
  <2>1. Remaining(k) = <<Task("admit", k.on)>>
    BY <1>1 DEF Remaining
  <2> QED BY <1>1, <2>1, ElementsOfOne
<1>2. CASE k.do = "field"
  <2>1. PICK first : first = Tasks("field", ArgsOf(k.on))
    OBVIOUS
  <2>2. PICK rest : rest = <<Task("enqueue", k.on)>>
    OBVIOUS
  <2>3. Remaining(k) = first \o rest
    BY <1>2, <2>1, <2>2 DEF Remaining
  <2>4. ArgsOf(k.on) \in Seq(Args(k.on))
    BY ShapeOfSlot
  <2>5. first \in Seq(Elements(first)) /\ Elements(first) = {Task("field", a) : a \in Args(k.on)}
    BY <2>1, <2>4, ElementsOfTasks DEF Args
  <2>6. rest \in Seq(Elements(rest)) /\ Elements(rest) = {Task("enqueue", k.on)}
    BY <2>2, ElementsOfOne
  <2>7. Remaining(k) \in Seq(Elements(Remaining(k))) /\ Elements(Remaining(k)) = Elements(first) \cup Elements(rest)
    <3>1. first \in Seq(Elements(first)) /\ rest \in Seq(Elements(rest))
      BY <2>5, <2>6
    <3> QED BY <2>3, <3>1, ElementsOfTwo
  <2> QED BY <2>5, <2>6, <2>7
<1> QED BY <1>1, <1>2

LEMMA SameShapes ==
  ASSUME Grown
  PROVE  /\ \A f : Args(f)' = Args(f)
         /\ \A t \in ValidTypes : /\ t \in ValidTypes' /\ Interfaces(t)' = Interfaces(t)
                                  /\ Fields(t)' = Fields(t) /\ ReferencesOf(t)' = ReferencesOf(t)
<1>1. ASSUME NEW f PROVE ArgsOf(f)' = ArgsOf(f)
  BY SameArguments
<1>2. ASSUME NEW f PROVE Args(f)' = Args(f)
  BY <1>1 DEF Args, Elements
<1>3. ASSUME NEW t \in ValidTypes
      PROVE  /\ t \in ValidTypes' /\ Interfaces(t)' = Interfaces(t)
             /\ Fields(t)' = Fields(t) /\ ReferencesOf(t)' = ReferencesOf(t)
  <2>1. /\ t \in ValidTypes' /\ KindOf(t)' = KindOf(t)
        /\ InterfacesOf(t)' = InterfacesOf(t) /\ FieldsOf(t)' = FieldsOf(t)
    BY SameTypes
  <2>2. Interfaces(t)' = Interfaces(t) /\ Fields(t)' = Fields(t)
    BY <2>1 DEF Interfaces, Fields, Elements
  <2>3. ReferencesOf(t)' = ReferencesOf(t)
    BY <2>1 DEF ReferencesOf, ArgsOf, Grown
  <2> QED BY <2>1, <2>2, <2>3
<1> QED BY <1>2, <1>3

-----------------------------------------------------------------------------
(* The frontier moves on *)

LEMMA StackMoves ==
  ASSUME stack \in Seq(Waiting), stack # <<>>, NEW new, new \in Seq(Elements(new)),
         stack' = new \o Tail(stack)
  PROVE  /\ stack' \in Seq(Waiting') /\ Head(stack) \in Waiting
         /\ Elements(new) \subseteq Waiting' /\ Waiting' \subseteq Elements(new) \cup Waiting
         /\ \A dos, x : Awaits(dos, x) => Awaits(dos, x)' \/ (Head(stack).do \in dos /\ Head(stack).on = x)
<1>1. /\ stack' \in Seq(Elements(stack')) /\ Head(stack) \in Elements(stack)
      /\ Elements(new) \subseteq Elements(stack')
      /\ Elements(stack') \subseteq Elements(new) \cup Elements(stack)
      /\ Elements(stack) \subseteq Elements(stack') \cup {Head(stack)}
  BY Pushed DEF Waiting
<1>2. Waiting' = Elements(stack')
  BY DEF Waiting, Elements
<1> QED BY <1>1, <1>2 DEF Awaits, Waiting

LEMMA StackPops ==
  ASSUME stack \in Seq(Waiting), stack # <<>>, stack' = Tail(stack)
  PROVE  /\ stack' \in Seq(Waiting') /\ Head(stack) \in Waiting /\ Waiting' \subseteq Waiting
         /\ \A dos, x : Awaits(dos, x) => Awaits(dos, x)' \/ (Head(stack).do \in dos /\ Head(stack).on = x)
<1>1. Tail(stack) \in Seq(Waiting)
  OBVIOUS
<1>2. stack' = <<>> \o Tail(stack)
  BY <1>1
<1> QED BY <1>2, ElementsOfNone, StackMoves

LEMMA SlotsHoldFound ==
  ASSUME NEW f \in Slots, holds[f].form = "ir", IsNamed(holds[f].type)
  PROVE  holds[f].type \in ValidTypes
BY DEF Slots, SoundSlot, Sound, SoundSimple, TypeFound

LEMMA SettledStays ==
  ASSUME NEW f \in Slots, holds'[f] = holds[f], Settled(f),
         \A u \in ValidTypes : Reached(u) => Reached(u)',
         Awaits({"enqueue", "admit"}, f) =>
           \/ Awaits({"enqueue", "admit"}, f)'
           \/ \A t \in {holds[f].type} : IsNamed(t) => Reached(t)'
  PROVE  Settled(f)'
<1>1. holds'[f].form = "ir" /\ holds'[f].type = holds[f].type
  BY DEF Settled
<1>2. ASSUME NEW t \in {holds[f].type}, IsNamed(t) PROVE Reached(t)' \/ Awaits({"enqueue", "admit"}, f)'
  <2>1. t \in ValidTypes
    BY <1>1, <1>2, SlotsHoldFound
  <2>2. Reached(t) \/ Awaits({"enqueue", "admit"}, f)
    BY <1>2 DEF Settled
  <2> QED BY <1>2, <2>1, <2>2
<1>3. \A t \in {holds'[f].type} : IsNamed(t)' => Reached(t)' \/ Awaits({"enqueue", "admit"}, f)'
  BY <1>1, <1>2 DEF IsNamed
<1> QED BY <1>1, <1>3 DEF Settled

LEMMA RootsAreValid ==
  ASSUME Ground, NEW i \in DOMAIN program.roots
  PROVE  Declared(program.roots[i]) \in ValidTypes
<1>1. program.roots \in Seq(DOMAIN program.types)
  BY DEF Ground, WellDeclared
<1>2. program.roots[i] \in DOMAIN program.types
  BY <1>1
<1> QED BY <1>2 DEF ValidTypes

LEMMA FrontierMoves ==
  ASSUME Ground, Grown, Explored, Found \subseteq ValidTypes,
         \A u \in ValidTypes : Reached(u) => Reached(u)',
         \A f \in Slots : Settled(f) => Settled(f)',
         \A f \in Slots : Awaits({"field", "member"}, f) => Handled(f)',
         \A t \in Found' \ Found : Covered(t)'
  PROVE  Explored'
<1>1. ASSUME NEW f \in Slots, Followed(f) PROVE Followed(f)'
  BY <1>1 DEF Followed, Handled
<1>2. ASSUME NEW f \in Slots, Handled(f) PROVE Handled(f)'
  <2>1. CASE Awaits({"field", "member"}, f)
    BY <2>1
  <2>2. CASE Settled(f) /\ \A a \in Args(f) : Followed(a)
    <3>1. Settled(f)'
      BY <2>2
    <3>2. Args(f)' = Args(f) /\ Args(f) \subseteq Slots
      BY SameShapes, ShapeOfSlot
    <3>3. \A a \in Args(f) : Followed(a)'
      BY <1>1, <2>2, <3>2
    <3> QED BY <3>1, <3>2, <3>3 DEF Handled
  <2> QED BY <1>2, <2>1, <2>2 DEF Handled
<1>3. ASSUME NEW t \in Found PROVE Covered(t)'
  <2>1. t \in ValidTypes /\ Covered(t)
    BY DEF Explored
  <2>2. Interfaces(t) \subseteq ValidTypes /\ Fields(t) \subseteq Slots
    BY <2>1, ShapeOfType
  <2>3. Interfaces(t)' = Interfaces(t) /\ Fields(t)' = Fields(t)
    BY <2>1, SameShapes
  <2>4. \A u \in Interfaces(t) : Reached(u)'
    BY <2>1, <2>2 DEF Covered
  <2>5. \A f \in Fields(t) : Handled(f)'
    BY <1>2, <2>1, <2>2 DEF Covered
  <2> QED BY <2>3, <2>4, <2>5 DEF Covered
<1>4. \A t \in Found' : Covered(t)'
  BY <1>3
<1>5. ASSUME NEW i \in DOMAIN program.roots PROVE Reached(Declared(program.roots[i]))'
  <2>1. PICK t : t = Declared(program.roots[i])
    OBVIOUS
  <2>2. t \in ValidTypes
    BY <2>1, RootsAreValid
  <2>3. Reached(t)
    BY <2>1 DEF Explored
  <2>4. Reached(t)'
    BY <2>2, <2>3
  <2>5. Declared(program.roots[i])' = t
    BY <2>1 DEF Grown, Declared
  <2> QED BY <2>4, <2>5 DEF Reached, Awaits, Found, Seen, Built, Waiting, Elements
<1>6. program' = program
  BY DEF Grown
<1> QED BY <1>4, <1>5, <1>6 DEF Explored

LEMMA GroundUnchanged ==
  ASSUME Ground, UNCHANGED <<program, names, made, holds>>
  PROVE  Ground' /\ Grown /\ Slots' = Slots /\ ValidTypes' = ValidTypes
<1>1. Grown
  BY DEF Grown
<1>2. \A g \in DOMAIN holds : Sound(holds[g]) => Sound(holds[g])'
  BY DEF Sound, SoundSimple, TypeFound, ValidTypes, IsNamed
<1>3. Improved
  BY <1>1, <1>2 DEF Improved
<1>4. Slots' = Slots
  BY DEF Slots, SoundSlot, Sound, SoundSimple, TypeFound, ValidTypes, IsNamed, ArgsOf
<1>5. ValidTypes' = ValidTypes
  BY DEF ValidTypes
<1> QED BY <1>1, <1>3, <1>4, <1>5, GroundStays

-----------------------------------------------------------------------------
(* The first walk *)

LEMMA FoundAreValid ==
  ASSUME WalkInv, stage # "refused"
  PROVE  /\ Seen \subseteq ValidTypes /\ Found \subseteq Seen
         /\ \A n \in DOMAIN byName : byName[n] \in Seen
<1>1. \A n \in DOMAIN byName : byName[n] \in ValidTypes /\ byName[n] \in Seen
  BY DEF WalkInv, Seen
<1>2. Seen \subseteq ValidTypes
  BY DEF WalkInv, Seen
<1>3. CASE stage = "walking"
  BY <1>1, <1>2, <1>3 DEF Found
<1>4. CASE stage # "walking"
  <2>1. \A n \in DOMAIN typeMap : n \in DOMAIN byName /\ typeMap[n] = byName[n]
    BY <1>4 DEF WalkInv
  <2>2. Built \subseteq Seen
    BY <2>1 DEF Built, Seen
  <2> QED BY <1>1, <1>2, <1>4, <2>2 DEF Found
<1> QED BY <1>3, <1>4

LEMMA PlacedStays ==
  ASSUME Ground, Grown, Seen \subseteq ValidTypes, Seen \subseteq Seen', NEW f, Placed(f)
  PROVE  f \in Slots /\ Args(f)' = Args(f) /\ Placed(f)'
<1>1. PICK t \in Seen : f \in ReferencesOf(t)
  BY DEF Placed
<1>2. ReferencesOf(t)' = ReferencesOf(t) /\ f \in Slots
  BY <1>1, SameShapes, ShapeOfReference
<1>3. Args(f)' = Args(f)
  BY SameShapes
<1> QED BY <1>1, <1>2, <1>3 DEF Placed

LEMMA WalkTaskStays ==
  ASSUME Ground, Grown, Seen \subseteq ValidTypes, Seen \subseteq Seen',
         \A f \in Slots : holds[f].form = "ir" => holds'[f].form = "ir",
         NEW k, WalkTask(k)
  PROVE  WalkTask(k)'
<1>1. CASE k.do = "visit"
  <2>1. k.on \in ValidTypes'
    BY <1>1, SameTypes DEF WalkTask
  <2> QED BY <1>1, <2>1 DEF WalkTask
<1>2. CASE k.do # "visit"
  <2>1. PICK f : f = k.on
    OBVIOUS
  <2>2. Placed(f)
    BY <1>2, <2>1 DEF WalkTask
  <2>3. f \in Slots /\ Args(f)' = Args(f) /\ Placed(f)'
    BY <2>2, PlacedStays
  <2>4. Placed(k.on)' = Placed(f)' /\ Args(k.on)' = Args(f)'
    BY <2>1 DEF Placed, ReferencesOf, FieldsOf, ArgsOf, Seen, Declaration, Args, Elements
  <2> QED BY <1>2, <2>1, <2>3, <2>4 DEF WalkTask
<1> QED BY <1>1, <1>2

LEMMA WalkMoves ==
  ASSUME WalkInv, stage = "walking", UNCHANGED <<typeMap, stage>>, Ground', Grown,
         stack' \in Seq(Waiting'), IsMap(byName'), Seen \subseteq Seen',
         \A n \in DOMAIN byName' : byName'[n] \in ValidTypes' /\ NameOf(byName[n])' = n,
         \A f \in Slots : holds[f].form = "ir" => holds'[f].form = "ir",
         \A k \in Waiting' : k \in Waiting \/ WalkTask(k)',
         Explored'
  PROVE  WalkInv'
<1>1. Ground /\ Seen \subseteq ValidTypes /\ \A k \in Waiting : WalkTask(k)
  BY FoundAreValid DEF WalkInv
<1>2. \A k \in Waiting : WalkTask(k)'
  BY <1>1, WalkTaskStays
<1>3. DOMAIN typeMap' = {} /\ IsMap(typeMap')
  BY DEF WalkInv
<1>4. IsMap(byName)' /\ IsMap(typeMap)'
  BY <1>3 DEF IsMap
<1> QED BY <1>2, <1>3, <1>4 DEF WalkInv

LEMMA RefuseStays ==
  ASSUME WalkInv, Refuse
  PROVE  WalkInv'
<1>1. UNCHANGED <<program, names, made, holds, stack, byName, typeMap>> /\ stage' = "refused"
  BY DEF Refuse
<1>2. Ground' /\ ValidTypes' = ValidTypes /\ Grown
  BY <1>1, GroundUnchanged DEF WalkInv
<1>3. Waiting' = Waiting
  BY <1>1 DEF Waiting, Elements
<1>4. ASSUME NEW n \in DOMAIN byName PROVE byName'[n] \in ValidTypes' /\ NameOf(byName[n])' = n
  <2>1. PICK t : t = byName[n]
    OBVIOUS
  <2>2. t \in ValidTypes /\ NameOf(t) = n
    BY <2>1 DEF WalkInv
  <2>3. NameOf(byName[n])' = NameOf(t)'
    BY <1>1, <2>1 DEF NameOf
  <2> QED BY <1>1, <1>2, <2>1, <2>2, <2>3, SameTypes
<1>5. stack' \in Seq(Waiting') /\ IsMap(byName)' /\ IsMap(typeMap)'
  BY <1>1, <1>3 DEF WalkInv, IsMap
<1> QED BY <1>1, <1>2, <1>4, <1>5 DEF WalkInv

LEMMA VisitStays ==
  ASSUME WalkInv, Visit
  PROVE  WalkInv'
<1>1. PICK t : t = Head(stack).on
  OBVIOUS
<1>2. PICK n : n = NameOf(t)
  OBVIOUS
<1>3. stage = "walking" /\ stack # <<>> /\ Head(stack).do = "visit"
  BY DEF Visit, Due
<1>4. /\ Ground /\ Seen \subseteq ValidTypes /\ Explored /\ stack \in Seq(Waiting) /\ IsMap(byName)
      /\ \A m \in DOMAIN byName : byName[m] \in ValidTypes /\ NameOf(byName[m]) = m
  BY <1>3, FoundAreValid DEF WalkInv
<1>5. t \in ValidTypes
  <2>1. Head(stack) \in Waiting
    BY <1>3, <1>4
  <2> QED BY <1>1, <1>3, <2>1 DEF WalkInv, WalkTask
<1>6. CASE n \in DOMAIN byName /\ byName[n] # t
  BY <1>1, <1>2, <1>6, RefuseStays DEF Visit
<1>7. CASE n \in DOMAIN byName /\ byName[n] = t
  <2>1. stack' = Tail(stack) /\ UNCHANGED <<program, names, made, holds, byName, typeMap, stage>>
    BY <1>1, <1>2, <1>7 DEF Visit
  <2>2. Ground' /\ Grown /\ ValidTypes' = ValidTypes
    BY <1>4, <2>1, GroundUnchanged
  <2>3. /\ stack' \in Seq(Waiting') /\ Waiting' \subseteq Waiting
        /\ \A dos, x : Awaits(dos, x) => Awaits(dos, x)' \/ (Head(stack).do \in dos /\ Head(stack).on = x)
    BY <1>3, <1>4, <2>1, StackPops
  <2>4. Found = Seen /\ Found' = Seen /\ Seen' = Seen /\ t \in Seen
    BY <1>3, <1>7, <2>1 DEF Found, Seen
  <2>5. \A u \in ValidTypes : Reached(u) => Reached(u)'
    BY <1>1, <2>3, <2>4 DEF Reached
  <2>6. ASSUME NEW f \in Slots, Settled(f) PROVE Settled(f)'
    BY <1>3, <2>1, <2>3, <2>5, <2>6, SettledStays
  <2>7. \A f \in Slots : Awaits({"field", "member"}, f) => Handled(f)'
    BY <1>3, <2>3 DEF Handled
  <2>8. Explored'
    BY <1>4, <2>2, <2>4, <2>5, <2>6, <2>7, FrontierMoves
  <2>9. \A m \in DOMAIN byName' : byName'[m] \in ValidTypes' /\ NameOf(byName[m])' = m
    <3>1. ASSUME NEW m \in DOMAIN byName PROVE NameOf(byName[m])' = NameOf(byName[m])
      BY <2>1 DEF NameOf
    <3> QED BY <1>4, <2>1, <2>2, <3>1
  <2> QED BY <1>3, <1>4, <2>1, <2>2, <2>3, <2>4, <2>8, <2>9, WalkMoves
<1>8. CASE n \notin DOMAIN byName
  <2>1. /\ byName' = With(byName, n, t) /\ stack' = TypeTasks(t) \o Tail(stack)
        /\ UNCHANGED <<program, names, made, holds, typeMap, stage>>
    BY <1>1, <1>2, <1>8 DEF Visit
  <2>2. Ground' /\ Grown /\ ValidTypes' = ValidTypes
    BY <1>4, <2>1, GroundUnchanged
  <2>3. PICK do \in {"field", "member"} :
          /\ do = "member" => KindOf(t) = "union"
          /\ TypeTasks(t) \in Seq(Elements(TypeTasks(t)))
          /\ Elements(TypeTasks(t)) = {Task("visit", u) : u \in Interfaces(t)} \cup {Task(do, f) : f \in Fields(t)}
    BY <1>4, <1>5, WorkOfType
  <2>4. /\ stack' \in Seq(Waiting') /\ Elements(TypeTasks(t)) \subseteq Waiting'
        /\ Waiting' \subseteq Elements(TypeTasks(t)) \cup Waiting
        /\ \A dos, x : Awaits(dos, x) => Awaits(dos, x)' \/ (Head(stack).do \in dos /\ Head(stack).on = x)
    BY <1>3, <1>4, <2>1, <2>3, StackMoves
  <2>5. /\ DOMAIN byName' = DOMAIN byName \cup {n} /\ byName'[n] = t
        /\ \A m \in DOMAIN byName : byName'[m] = byName[m]
        /\ IsMap(byName')
    BY <1>8, <2>1 DEF With, IsMap
  <2>6. Found = Seen /\ Found' = Seen' /\ Seen' = Seen \cup {t}
    BY <1>3, <1>8, <2>1, <2>5 DEF Found, Seen
  <2>7. \A u \in ValidTypes : Reached(u) => Reached(u)'
    BY <1>1, <2>4, <2>6 DEF Reached
  <2>8. ASSUME NEW f \in Slots, Settled(f) PROVE Settled(f)'
    BY <1>3, <2>1, <2>4, <2>7, <2>8, SettledStays
  <2>9. \A f \in Slots : Awaits({"field", "member"}, f) => Handled(f)'
    BY <1>3, <2>4 DEF Handled
  <2>10. Interfaces(t)' = Interfaces(t) /\ Fields(t)' = Fields(t) /\ ReferencesOf(t)' = ReferencesOf(t)
    BY <1>5, <2>2, SameShapes
  <2>11. Covered(t)'
    <3>1. ASSUME NEW u \in Interfaces(t) PROVE Reached(u)'
      <4>1. Task("visit", u) \in Waiting'
        BY <2>3, <2>4
      <4> QED BY <4>1 DEF Reached, Awaits, Task
    <3>2. ASSUME NEW f \in Fields(t) PROVE Handled(f)'
      <4>1. Task(do, f) \in Waiting'
        BY <2>3, <2>4
      <4> QED BY <4>1 DEF Handled, Awaits, Task
    <3> QED BY <2>10, <3>1, <3>2 DEF Covered
  <2>12. \A u \in Found' \ Found : u = t
    BY <2>6
  <2>13. \A u \in Found' \ Found : Covered(u)'
    BY <2>11, <2>12
  <2>14. Explored'
    BY <1>4, <2>2, <2>6, <2>7, <2>8, <2>9, <2>13, FrontierMoves
  <2>15. \A m \in DOMAIN byName' : byName'[m] \in ValidTypes' /\ NameOf(byName[m])' = m
    <3>1. ASSUME NEW m \in DOMAIN byName' PROVE NameOf(byName[m])' = NameOf(byName'[m])
      BY <2>1 DEF NameOf
    <3> QED BY <1>2, <1>4, <1>5, <2>2, <2>5, <3>1
  <2>16. \A k \in Elements(TypeTasks(t)) : WalkTask(k)'
    <3>1. ASSUME NEW u \in Interfaces(t) PROVE WalkTask(Task("visit", u))'
      <4>1. u \in ValidTypes'
        BY <1>4, <1>5, <2>2, ShapeOfType
      <4> QED BY <4>1 DEF WalkTask, Task
    <3>2. ASSUME NEW f \in Fields(t) PROVE WalkTask(Task(do, f))'
      <4>1. Placed(f)'
        BY <1>4, <1>5, <2>6, <2>10, ShapeOfType DEF Placed
      <4>2. do = "member" => Args(f)' = {}
        BY <1>4, <1>5, <2>2, <2>3, ShapeOfType, SameShapes
      <4> QED BY <4>1, <4>2 DEF WalkTask, Task
    <3> QED BY <2>3, <3>1, <3>2
  <2>17. \A k \in Waiting' : k \in Waiting \/ WalkTask(k)'
    BY <2>4, <2>16
  <2>18. \A f \in Slots : holds[f].form = "ir" => holds'[f].form = "ir"
    BY <2>1
  <2> QED BY <1>3, <2>1, <2>2, <2>4, <2>5, <2>6, <2>14, <2>15, <2>17, <2>18, WalkMoves
<1> QED BY <1>6, <1>7, <1>8

\* A task of a field: the reference it is about, which a type that was visited holds.
LEMMA HeadIsPlaced ==
  ASSUME WalkInv, stage = "walking", stack # <<>>, Head(stack).do # "visit", NEW f, f = Head(stack).on
  PROVE  /\ Placed(f) /\ f \in Slots /\ (Head(stack).do = "member" => Args(f) = {})
         /\ Head(stack).do \in {"enqueue", "admit"} => holds[f].form = "ir"
<1>1. Head(stack) \in Waiting
  BY DEF WalkInv
<1>2. WalkTask(Head(stack))
  BY <1>1 DEF WalkInv
<1>3. Placed(f)
  BY <1>2 DEF WalkTask
<1>4. PICK t \in Seen : f \in ReferencesOf(t)
  BY <1>3 DEF Placed
<1>5. t \in ValidTypes /\ Ground
  BY <1>4, FoundAreValid DEF WalkInv
<1>6. f \in Slots
  BY <1>4, <1>5, ShapeOfReference
<1>7. Head(stack).do \in {"enqueue", "admit"} => holds[f].form = "ir"
  BY <1>2 DEF WalkTask
<1>8. Head(stack).do = "member" => Args(f) = {}
  BY <1>2 DEF WalkTask
<1> QED BY <1>3, <1>6, <1>7, <1>8

LEMMA NamesStay ==
  ASSUME WalkInv, Grown, byName' = byName
  PROVE  \A n \in DOMAIN byName' : byName'[n] \in ValidTypes' /\ NameOf(byName[n])' = n
<1>1. ASSUME NEW n \in DOMAIN byName PROVE byName'[n] \in ValidTypes' /\ NameOf(byName[n])' = n
  <2>1. PICK t : t = byName[n]
    OBVIOUS
  <2>2. t \in ValidTypes /\ NameOf(t) = n
    BY <2>1 DEF WalkInv
  <2>3. t \in ValidTypes' /\ NameOf(t)' = n
    BY <2>2, SameTypes
  <2>4. NameOf(byName[n])' = NameOf(t)'
    BY <2>1 DEF NameOf
  <2> QED BY <2>1, <2>3, <2>4
<1> QED BY <1>1

LEMMA ResolvedStays ==
  ASSUME WalkInv, stage = "walking", stack # <<>>, Head(stack).do \in {"field", "member"},
         NEW f, f = Head(stack).on, Resolved(f), Ground',
         stack' = Remaining(Head(stack)) \o Tail(stack), UNCHANGED <<program, byName, typeMap, stage>>
  PROVE  WalkInv'
<1>1. /\ Ground /\ Seen \subseteq ValidTypes /\ Explored /\ stack \in Seq(Waiting) /\ IsMap(byName)
  BY FoundAreValid DEF WalkInv
<1>2. Placed(f) /\ f \in Slots /\ (Head(stack).do = "member" => Args(f) = {})
  BY HeadIsPlaced
<1>3. Grown
  BY DEF Resolved, Improved
<1>4. PICK do \in {"enqueue", "admit"} :
        /\ Remaining(Head(stack)) \in Seq(Elements(Remaining(Head(stack))))
        /\ Elements(Remaining(Head(stack))) = {Task("field", a) : a \in Args(f)} \cup {Task(do, f)}
  BY <1>1, <1>2, WorkOfReference
<1>5. /\ stack' \in Seq(Waiting') /\ Elements(Remaining(Head(stack))) \subseteq Waiting'
      /\ Waiting' \subseteq Elements(Remaining(Head(stack))) \cup Waiting
      /\ \A dos, x : Awaits(dos, x) => Awaits(dos, x)' \/ (Head(stack).do \in dos /\ Head(stack).on = x)
  BY <1>1, <1>4, StackMoves
<1>6. Found = Seen /\ Found' = Seen /\ Seen' = Seen
  BY DEF Found, Seen
<1>7. \A u \in ValidTypes : Reached(u) => Reached(u)'
  BY <1>5, <1>6 DEF Reached
<1>8. Settled(f)'
  <2>1. Task(do, f) \in Waiting'
    BY <1>4, <1>5
  <2>2. Awaits({"enqueue", "admit"}, f)'
    BY <2>1 DEF Awaits, Task
  <2> QED BY <2>2 DEF Settled, Resolved
<1>9. ASSUME NEW g \in Slots, Settled(g) PROVE Settled(g)'
  <2>1. CASE g = f
    BY <1>8, <2>1
  <2>2. CASE g # f
    <3>1. holds'[g] = holds[g]
      BY <2>2 DEF Resolved, Slots
    <3> QED BY <1>5, <1>7, <1>9, <2>2, <3>1, SettledStays
  <2> QED BY <2>1, <2>2
<1>10. Handled(f)'
  <2>1. ASSUME NEW a \in Args(f) PROVE Followed(a)'
    <3>1. Task("field", a) \in Waiting'
      BY <1>4, <1>5
    <3> QED BY <3>1 DEF Followed, Awaits, Task
  <2>2. Args(f)' = Args(f)
    BY <1>3, SameShapes
  <2> QED BY <1>8, <2>1, <2>2 DEF Handled
<1>11. \A g \in Slots : Awaits({"field", "member"}, g) => Handled(g)'
  BY <1>5, <1>10 DEF Handled
<1>12. Explored'
  BY <1>1, <1>3, <1>6, <1>7, <1>9, <1>11, FrontierMoves
<1>13. Placed(f)' /\ Args(f)' = Args(f)
  BY <1>1, <1>2, <1>3, <1>6, PlacedStays
<1>14. holds'[f].form = "ir"
  BY DEF Resolved
<1>15. WalkTask(Task(do, f))'
  BY <1>13, <1>14 DEF WalkTask, Task
<1>16. ASSUME NEW a \in Args(f) PROVE WalkTask(Task("field", a))'
  <2>1. PICK t \in Seen : f \in ReferencesOf(t)
    BY <1>2 DEF Placed
  <2>2. a \in ReferencesOf(t)
    BY <1>1, <2>1, ShapeOfReference
  <2>3. Placed(a)
    BY <2>1, <2>2 DEF Placed
  <2>4. Placed(a)'
    BY <1>1, <1>3, <1>6, <2>3, PlacedStays
  <2> QED BY <2>4 DEF WalkTask, Task
<1>17. \A k \in Waiting' : k \in Waiting \/ WalkTask(k)'
  BY <1>4, <1>5, <1>15, <1>16
<1>18. \A g \in Slots : holds[g].form = "ir" => holds'[g].form = "ir"
  BY DEF Resolved, Slots
<1>19. \A n \in DOMAIN byName' : byName'[n] \in ValidTypes' /\ NameOf(byName[n])' = n
  BY <1>3, NamesStay
<1> QED BY <1>1, <1>3, <1>5, <1>6, <1>12, <1>17, <1>18, <1>19, WalkMoves

LEMMA ResolveStays ==
  ASSUME WalkInv, ResolveSimple \/ ResolveGeneric
  PROVE  WalkInv'
<1>1. PICK f : f = Head(stack).on
  OBVIOUS
<1>2. stage = "walking" /\ stack # <<>> /\ Head(stack).do \in {"field", "member"}
  BY DEF ResolveSimple, ResolveGeneric, Due
<1>3. f \in Slots /\ Ground
  BY <1>1, <1>2, HeadIsPlaced DEF WalkInv
<1>4. \/ Resolved(f) /\ Ground' /\ stack' = Remaining(Head(stack)) \o Tail(stack)
         /\ UNCHANGED <<program, byName, typeMap, stage>>
      \/ stage' = "refused" /\ UNCHANGED <<program, names, made, holds, stack, byName, typeMap>>
  BY <1>1, <1>3, SimpleIsResolved, GenericIsResolved
<1> QED BY <1>1, <1>2, <1>4, ResolvedStays, RefuseStays DEF Refuse

LEMMA EnqueueStays ==
  ASSUME WalkInv, Enqueue
  PROVE  WalkInv'
<1>1. PICK f : f = Head(stack).on
  OBVIOUS
<1>2. PICK t : t = holds[f].type
  OBVIOUS
<1>3. /\ stage = "walking" /\ stack # <<>> /\ Head(stack).do \in {"enqueue", "admit"}
      /\ UNCHANGED <<program, names, made, holds, byName, typeMap, stage>>
  BY DEF Enqueue, Due
<1>4. /\ Ground /\ Seen \subseteq ValidTypes /\ Explored /\ stack \in Seq(Waiting) /\ IsMap(byName)
  BY <1>3, FoundAreValid DEF WalkInv
<1>5. f \in Slots /\ holds[f].form = "ir"
  BY <1>1, <1>3, HeadIsPlaced
<1>6. Ground' /\ Grown /\ ValidTypes' = ValidTypes
  BY <1>3, <1>4, GroundUnchanged
<1>7. /\ stack' \in Seq(Waiting') /\ (\A k \in Waiting' : k \in Waiting \/ WalkTask(k)')
      /\ \A dos, x : Awaits(dos, x) => Awaits(dos, x)' \/ (Head(stack).do \in dos /\ Head(stack).on = x)
      /\ IsNamed(t) => Awaits({"visit"}, t)'
  <2>1. CASE IsNamed(t)
    <3>1. stack' = <<Task("visit", t)>> \o Tail(stack)
      BY <1>1, <1>2, <2>1 DEF Enqueue
    <3>2. PICK new : new = <<Task("visit", t)>>
      OBVIOUS
    <3>3. new \in Seq(Elements(new)) /\ Elements(new) = {Task("visit", t)}
      BY <3>2, ElementsOfOne
    <3>4. /\ stack' \in Seq(Waiting') /\ Elements(new) \subseteq Waiting' /\ Waiting' \subseteq Elements(new) \cup Waiting
          /\ \A dos, x : Awaits(dos, x) => Awaits(dos, x)' \/ (Head(stack).do \in dos /\ Head(stack).on = x)
      BY <1>3, <1>4, <3>1, <3>2, <3>3, StackMoves
    <3>5. t \in ValidTypes'
      BY <1>2, <1>5, <1>6, <2>1, SlotsHoldFound
    <3>6. WalkTask(Task("visit", t))'
      BY <3>5 DEF WalkTask, Task
    <3>7. Awaits({"visit"}, t)'
      BY <3>3, <3>4 DEF Awaits, Task
    <3> QED BY <3>3, <3>4, <3>6, <3>7
  <2>2. CASE ~IsNamed(t)
    <3>1. stack' = Tail(stack)
      BY <1>1, <1>2, <2>2 DEF Enqueue
    <3> QED BY <1>3, <1>4, <2>2, <3>1, StackPops
  <2> QED BY <2>1, <2>2
<1>8. Found = Seen /\ Found' = Seen /\ Seen' = Seen
  BY <1>3 DEF Found, Seen
<1>9. \A u \in ValidTypes : Reached(u) => Reached(u)'
  BY <1>3, <1>7, <1>8 DEF Reached
<1>10. ASSUME NEW g \in Slots, Settled(g) PROVE Settled(g)'
  <2>1. Awaits({"enqueue", "admit"}, g) => Awaits({"enqueue", "admit"}, g)' \/ g = f
    BY <1>1, <1>7
  <2>2. g = f => \A u \in {holds[g].type} : IsNamed(u) => Reached(u)'
    BY <1>2, <1>7 DEF Reached
  <2> QED BY <1>3, <1>9, <1>10, <2>1, <2>2, SettledStays
<1>11. \A g \in Slots : Awaits({"field", "member"}, g) => Handled(g)'
  BY <1>3, <1>7 DEF Handled
<1>12. Explored'
  BY <1>4, <1>6, <1>8, <1>9, <1>10, <1>11, FrontierMoves
<1>13. \A n \in DOMAIN byName' : byName'[n] \in ValidTypes' /\ NameOf(byName[n])' = n
  BY <1>3, <1>6, NamesStay
<1> QED BY <1>3, <1>4, <1>6, <1>7, <1>8, <1>12, <1>13, WalkMoves

LEMMA RefuseMemberStays ==
  ASSUME WalkInv, RefuseMember
  PROVE  WalkInv'
BY RefuseStays DEF RefuseMember

-----------------------------------------------------------------------------
(* The second walk *)

LEMMA CompleteStays ==
  ASSUME Complete, UNCHANGED <<program, names, made, holds, byName>>
  PROVE  Complete'
<1>1. Seen' = Seen
  BY DEF Seen
<1>2. ASSUME NEW t
      PROVE  /\ Interfaces(t)' = Interfaces(t) /\ KindOf(t)' = KindOf(t) /\ Implements(t)' = Implements(t)
             /\ ReferencesOf(t)' = ReferencesOf(t)
  BY DEF Interfaces, Elements, KindOf, IsNamed, Declaration, InterfacesOf, Implements, FieldsOf,
         FieldName, ReferencesOf, ArgsOf, Declared
<1>3. \A i \in DOMAIN program.roots : Declared(program.roots[i])' \in Seen'
  BY <1>1 DEF Complete, Declared
<1>4. ASSUME NEW t \in Seen
      PROVE  /\ Interfaces(t)' \subseteq Seen' /\ (KindOf(t)' = "object" => Implements(t)')
             /\ \A f \in ReferencesOf(t)' : holds'[f].form = "ir" /\ (IsNamed(holds[f].type)' => holds'[f].type \in Seen')
  <2>1. /\ Interfaces(t) \subseteq Seen /\ (KindOf(t) = "object" => Implements(t))
        /\ \A f \in ReferencesOf(t) : holds[f].form = "ir" /\ (IsNamed(holds[f].type) => holds[f].type \in Seen)
    BY DEF Complete
  <2>2. \A f : IsNamed(holds[f].type)' <=> IsNamed(holds[f].type)
    BY DEF IsNamed
  <2> QED BY <1>1, <1>2, <2>1, <2>2
<1> QED BY <1>1, <1>3, <1>4 DEF Complete

LEMMA CollectTaskStays ==
  ASSUME UNCHANGED <<program, names, made, holds, byName>>, NEW k, CollectTask(k)
  PROVE  CollectTask(k)'
<1>1. Placed(k.on)' <=> Placed(k.on)
  BY DEF Placed, Seen, ReferencesOf, FieldsOf, Declaration, ArgsOf
<1>2. Seen' = Seen /\ (IsNamed(k.on)' <=> IsNamed(k.on))
  BY DEF Seen, IsNamed
<1> QED BY <1>1, <1>2 DEF CollectTask

LEMMA CollectMoves ==
  ASSUME WalkInv, stage \in {"collecting", "built"}, stage' \in {"collecting", "built"}, stage' = "built" => stack' = <<>>,
         UNCHANGED <<program, names, made, holds, byName>>,
         stack' \in Seq(Waiting'), IsMap(typeMap'),
         \A n \in DOMAIN typeMap' : n \in DOMAIN byName /\ typeMap'[n] = byName[n],
         \A k \in Waiting' : k \in Waiting \/ CollectTask(k)',
         Explored'
  PROVE  WalkInv'
<1>1. Ground /\ Complete /\ (\A k \in Waiting : CollectTask(k)) /\ IsMap(byName)
  BY DEF WalkInv
<1>2. Ground' /\ Grown
  BY <1>1, GroundUnchanged
<1>3. Complete' /\ \A k \in Waiting : CollectTask(k)'
  BY <1>1, CompleteStays, CollectTaskStays
<1>4. IsMap(byName)' /\ IsMap(typeMap)'
  BY <1>1 DEF IsMap
<1>5. \A n \in DOMAIN byName' : byName'[n] \in ValidTypes' /\ NameOf(byName[n])' = n
  BY <1>2, NamesStay
<1> QED BY <1>2, <1>3, <1>4, <1>5 DEF WalkInv

LEMMA WalkEndsComplete ==
  ASSUME WalkInv, stage = "walking", stack = <<>>, \A t \in Seen : KindOf(t) = "object" => Implements(t)
  PROVE  Complete
<1>1. Waiting = {} /\ Found = Seen
  <2>1. DOMAIN stack = {}
    OBVIOUS
  <2> QED BY <2>1 DEF Waiting, Elements, Found
<1>2. Ground /\ Explored /\ Seen \subseteq ValidTypes
  BY FoundAreValid DEF WalkInv
<1>3. \A dos, x : ~Awaits(dos, x)
  BY <1>1 DEF Awaits
<1>4. \A u : Reached(u) => u \in Seen
  BY <1>1, <1>3 DEF Reached
<1>5. \A f : Settled(f) => holds[f].form = "ir" /\ (IsNamed(holds[f].type) => holds[f].type \in Seen)
  BY <1>3, <1>4 DEF Settled
<1>6. \A f : (Followed(f) => Settled(f)) /\ (Handled(f) => Settled(f) /\ \A a \in Args(f) : Settled(a))
  BY <1>3 DEF Followed, Handled
<1>7. \A i \in DOMAIN program.roots : Declared(program.roots[i]) \in Seen
  BY <1>2, <1>4 DEF Explored
<1>8. ASSUME NEW t \in Seen
      PROVE  /\ Interfaces(t) \subseteq Seen
             /\ \A f \in ReferencesOf(t) : holds[f].form = "ir" /\ (IsNamed(holds[f].type) => holds[f].type \in Seen)
  <2>1. Covered(t) /\ t \in ValidTypes
    BY <1>1, <1>2 DEF Explored
  <2>2. \A f \in ReferencesOf(t) : Settled(f)
    <3>1. \A f \in Fields(t) : Settled(f) /\ \A a \in Args(f) : Settled(a)
      BY <1>6, <2>1 DEF Covered
    <3> QED BY <1>2, <2>1, <3>1, ShapeOfType
  <2>3. Interfaces(t) \subseteq Seen
    BY <1>4, <2>1 DEF Covered
  <2> QED BY <1>5, <2>2, <2>3
<1> QED BY <1>7, <1>8 DEF Complete

LEMMA AssembleStays ==
  ASSUME WalkInv, Assemble
  PROVE  WalkInv'
<1>1. stage = "walking" /\ stack = <<>>
  BY DEF Assemble
<1>2. CASE \E n \in DOMAIN byName : KindOf(byName[n]) = "object" /\ ~Implements(byName[n])
  BY <1>2, RefuseStays DEF Assemble
<1>3. CASE \A n \in DOMAIN byName : KindOf(byName[n]) = "object" => Implements(byName[n])
  <2>1. stage' = "collecting" /\ stack' = Roots /\ UNCHANGED <<program, names, made, holds, byName, typeMap>>
    BY <1>3 DEF Assemble
  <2>2. Complete
    BY <1>1, <1>3, WalkEndsComplete DEF Seen
  <2>3. Ground /\ IsMap(byName) /\ IsMap(typeMap) /\ DOMAIN typeMap = {}
    BY <1>1 DEF WalkInv
  <2>4. Ground' /\ Grown
    BY <2>1, <2>3, GroundUnchanged
  <2>5. Complete'
    BY <2>1, <2>2, CompleteStays
  <2>6. /\ Waiting' = {Task("visit", Declared(program.roots[i])) : i \in DOMAIN program.roots}
        /\ stack' \in Seq(Waiting')
    <3>1. program.roots \in Seq(DOMAIN program.types)
      BY <2>3 DEF Ground, WellDeclared
    <3>2. DOMAIN program.roots = 1..Len(program.roots) /\ Len(program.roots) \in Nat
      BY <3>1
    <3>3. stack' = [i \in DOMAIN program.roots |-> Task("visit", Declared(program.roots[i]))]
      BY <2>1 DEF Roots
    <3>4. Waiting' = {stack'[i] : i \in DOMAIN stack'}
      BY DEF Waiting, Elements
    <3>5. Waiting' = {Task("visit", Declared(program.roots[i])) : i \in DOMAIN program.roots}
      BY <3>3, <3>4
    <3>6. \A i \in 1..Len(program.roots) : stack'[i] \in Waiting'
      BY <3>2, <3>3, <3>4
    <3> QED BY <3>2, <3>3, <3>5, <3>6
  <2>7. Seen' = Seen /\ Found' = {}
    BY <2>1, <2>3 DEF Seen, Found, Built
  <2>8. \A k \in Waiting' : CollectTask(k)'
    <3>1. \A i \in DOMAIN program.roots : Declared(program.roots[i]) \in Seen
      BY <2>2 DEF Complete
    <3> QED BY <2>6, <2>7, <3>1 DEF CollectTask, Task
  <2>9. Explored'
    <3>1. ASSUME NEW i \in DOMAIN program.roots PROVE Reached(Declared(program.roots[i]))'
      <4>1. PICK t : t = Declared(program.roots[i])
        OBVIOUS
      <4>2. Task("visit", t) \in Waiting'
        BY <2>6, <4>1
      <4>3. Awaits({"visit"}, t)'
        BY <4>2 DEF Awaits, Task
      <4>4. Reached(t)'
        BY <4>3 DEF Reached
      <4>5. Declared(program.roots[i])' = t
        BY <2>1, <4>1 DEF Declared
      <4> QED BY <4>4, <4>5 DEF Reached, Awaits, Found, Seen, Built, Waiting, Elements
    <3> QED BY <2>1, <2>7, <3>1 DEF Explored
  <2>10. \A n \in DOMAIN byName' : byName'[n] \in ValidTypes' /\ NameOf(byName[n])' = n
    BY <2>1, <2>4, NamesStay
  <2>11. IsMap(byName)' /\ IsMap(typeMap)' /\ DOMAIN typeMap' = {}
    BY <2>1, <2>3 DEF IsMap
  <2> QED BY <2>1, <2>4, <2>5, <2>6, <2>8, <2>9, <2>10, <2>11 DEF WalkInv
<1> QED BY <1>2, <1>3

LEMMA CollectTypeStays ==
  ASSUME WalkInv, CollectType
  PROVE  WalkInv'
<1>1. PICK t : t = Head(stack).on
  OBVIOUS
<1>2. PICK n : n = NameOf(t)
  OBVIOUS
<1>3. /\ stage = "collecting" /\ stack # <<>> /\ Head(stack).do = "visit"
      /\ UNCHANGED <<program, names, made, holds, byName>>
  BY DEF CollectType, Due
<1>4. /\ Ground /\ Seen \subseteq ValidTypes /\ Found = Built /\ Built \subseteq Seen /\ Explored
      /\ stack \in Seq(Waiting) /\ IsMap(typeMap) /\ Complete
      /\ \A m \in DOMAIN byName : byName[m] \in ValidTypes /\ NameOf(byName[m]) = m
      /\ \A m \in DOMAIN typeMap : m \in DOMAIN byName /\ typeMap[m] = byName[m]
  <2>1. Found = Built
    BY <1>3 DEF Found
  <2> QED BY <1>3, <2>1, FoundAreValid DEF WalkInv
<1>5. IsNamed(t) => t \in Seen
  <2>1. Head(stack) \in Waiting
    BY <1>3, <1>4
  <2> QED BY <1>1, <1>3, <2>1 DEF WalkInv, CollectTask
<1>6. IsNamed(t) => n \in DOMAIN byName /\ byName[n] = t
  BY <1>2, <1>4, <1>5 DEF Seen
<1>7. Ground' /\ Grown
  BY <1>3, <1>4, GroundUnchanged
<1>8. CASE ~IsNamed(t) \/ (n \in DOMAIN typeMap /\ typeMap[n] = t)
  <2>1. stack' = Tail(stack) /\ UNCHANGED <<typeMap, stage>>
    BY <1>1, <1>2, <1>8 DEF CollectType
  <2>2. /\ stack' \in Seq(Waiting') /\ Waiting' \subseteq Waiting
        /\ \A dos, x : Awaits(dos, x) => Awaits(dos, x)' \/ (Head(stack).do \in dos /\ Head(stack).on = x)
    BY <1>3, <1>4, <2>1, StackPops
  <2>3. Found' = Built /\ (IsNamed(t) => t \in Built)
    BY <1>3, <1>8, <2>1 DEF Found, Built
  <2>4. ASSUME NEW u \in ValidTypes, Reached(u) PROVE Reached(u)'
    BY <1>1, <1>4, <2>2, <2>3, <2>4, ValidAreNamed DEF Reached
  <2>5. ASSUME NEW f \in Slots, Settled(f) PROVE Settled(f)'
    BY <1>3, <2>1, <2>2, <2>4, <2>5, SettledStays
  <2>6. \A f \in Slots : Awaits({"field", "member"}, f) => Handled(f)'
    BY <1>3, <2>2 DEF Handled
  <2>7. Found \subseteq ValidTypes /\ \A u \in Found' \ Found : Covered(u)'
    BY <1>4, <2>3
  <2>8. Explored'
    BY <1>4, <1>7, <2>4, <2>5, <2>6, <2>7, FrontierMoves
  <2>9. stage' = "collecting" /\ IsMap(typeMap')
    BY <1>3, <1>4, <2>1 DEF IsMap
  <2> QED BY <1>3, <1>4, <2>1, <2>2, <2>8, <2>9, CollectMoves
<1>9. CASE IsNamed(t) /\ n \in DOMAIN typeMap /\ typeMap[n] # t
  BY <1>4, <1>6, <1>9
<1>10. CASE IsNamed(t) /\ n \notin DOMAIN typeMap
  <2>1. typeMap' = With(typeMap, n, t) /\ stack' = TypeTasks(t) \o Tail(stack) /\ stage' = "collecting"
    BY <1>1, <1>2, <1>3, <1>10 DEF CollectType
  <2>2. t \in ValidTypes /\ t \in Seen
    BY <1>4, <1>5, <1>10
  <2>3. PICK do \in {"field", "member"} :
          /\ do = "member" => KindOf(t) = "union"
          /\ TypeTasks(t) \in Seq(Elements(TypeTasks(t)))
          /\ Elements(TypeTasks(t)) = {Task("visit", u) : u \in Interfaces(t)} \cup {Task(do, f) : f \in Fields(t)}
    BY <1>4, <2>2, WorkOfType
  <2>4. /\ stack' \in Seq(Waiting') /\ Elements(TypeTasks(t)) \subseteq Waiting'
        /\ Waiting' \subseteq Elements(TypeTasks(t)) \cup Waiting
        /\ \A dos, x : Awaits(dos, x) => Awaits(dos, x)' \/ (Head(stack).do \in dos /\ Head(stack).on = x)
    BY <1>3, <1>4, <2>1, <2>3, StackMoves
  <2>5. /\ DOMAIN typeMap' = DOMAIN typeMap \cup {n} /\ typeMap'[n] = t
        /\ \A m \in DOMAIN typeMap : typeMap'[m] = typeMap[m]
        /\ IsMap(typeMap')
    BY <1>10, <2>1 DEF With, IsMap
  <2>6. Found' = Built \cup {t}
    BY <1>10, <2>1, <2>5 DEF Found, Built
  <2>7. \A u \in ValidTypes : Reached(u) => Reached(u)'
    BY <1>1, <1>4, <2>4, <2>6 DEF Reached
  <2>8. ASSUME NEW f \in Slots, Settled(f) PROVE Settled(f)'
    BY <1>3, <2>4, <2>7, <2>8, SettledStays
  <2>9. \A f \in Slots : Awaits({"field", "member"}, f) => Handled(f)'
    BY <1>3, <2>4 DEF Handled
  <2>10. Interfaces(t)' = Interfaces(t) /\ Fields(t)' = Fields(t)
    BY <1>7, <2>2, SameShapes
  <2>11. Covered(t)'
    <3>1. ASSUME NEW u \in Interfaces(t) PROVE Reached(u)'
      <4>1. Task("visit", u) \in Waiting'
        BY <2>3, <2>4
      <4> QED BY <4>1 DEF Reached, Awaits, Task
    <3>2. ASSUME NEW f \in Fields(t) PROVE Handled(f)'
      <4>1. Task(do, f) \in Waiting'
        BY <2>3, <2>4
      <4> QED BY <4>1 DEF Handled, Awaits, Task
    <3> QED BY <2>10, <3>1, <3>2 DEF Covered
  <2>12. \A u \in Found' \ Found : u = t
    BY <1>4, <2>6
  <2>13. \A u \in Found' \ Found : Covered(u)'
    BY <2>11, <2>12
  <2>14. Explored'
    <3>1. Found \subseteq ValidTypes
      BY <1>4
    <3> QED BY <1>4, <1>7, <2>7, <2>8, <2>9, <2>13, <3>1, FrontierMoves
  <2>15. \A m \in DOMAIN typeMap' : m \in DOMAIN byName /\ typeMap'[m] = byName[m]
    BY <1>4, <1>6, <1>10, <2>5
  <2>16. \A k \in Elements(TypeTasks(t)) : CollectTask(k)
    <3>1. ASSUME NEW u \in Interfaces(t) PROVE CollectTask(Task("visit", u))
      <4>1. u \in Seen
        BY <1>4, <2>2 DEF Complete
      <4> QED BY <4>1 DEF CollectTask, Task
    <3>2. ASSUME NEW f \in Fields(t) PROVE CollectTask(Task(do, f))
      <4>1. Placed(f)
        BY <1>4, <2>2, ShapeOfType DEF Placed
      <4> QED BY <4>1 DEF CollectTask, Task
    <3> QED BY <2>3, <3>1, <3>2
  <2>17. \A k \in Waiting' : k \in Waiting \/ CollectTask(k)'
    BY <1>3, <2>4, <2>16, CollectTaskStays
  <2> QED BY <1>3, <2>1, <2>4, <2>5, <2>14, <2>15, <2>17, CollectMoves
<1> QED BY <1>8, <1>9, <1>10

LEMMA CollectFieldStays ==
  ASSUME WalkInv, CollectField
  PROVE  WalkInv'
<1>1. PICK f : f = Head(stack).on
  OBVIOUS
<1>2. /\ stage = "collecting" /\ stack # <<>> /\ Head(stack).do \in {"field", "member"}
      /\ UNCHANGED <<program, names, made, holds, byName, typeMap, stage>>
  BY DEF CollectField, Due
<1>3. /\ Ground /\ Seen \subseteq ValidTypes /\ Found = Built /\ Built \subseteq Seen /\ Explored
      /\ stack \in Seq(Waiting) /\ IsMap(typeMap) /\ Complete
      /\ \A m \in DOMAIN typeMap : m \in DOMAIN byName /\ typeMap[m] = byName[m]
  <2>1. Found = Built
    BY <1>2 DEF Found
  <2> QED BY <1>2, <2>1, FoundAreValid DEF WalkInv
<1>4. Ground' /\ Grown
  BY <1>2, <1>3, GroundUnchanged
<1>5. PICK t \in Seen : f \in ReferencesOf(t)
  <2>1. Head(stack) \in Waiting
    BY <1>2, <1>3
  <2>2. Placed(f)
    BY <1>1, <1>2, <2>1 DEF WalkInv, CollectTask
  <2> QED BY <2>2 DEF Placed
<1>6. /\ f \in Slots /\ Args(f) \subseteq ReferencesOf(t)
      /\ holds[f].form = "ir" /\ (IsNamed(holds[f].type) => holds[f].type \in Seen)
  <2>1. f \in Slots /\ Args(f) \subseteq ReferencesOf(t)
    BY <1>3, <1>5, ShapeOfReference
  <2> QED BY <1>3, <1>5, <2>1 DEF Complete
<1>7. PICK u : u = holds[f].type
  OBVIOUS
<1>8. PICK first : first = <<Task("visit", u)>>
  OBVIOUS
<1>9. PICK rest : rest = Tasks("field", ArgsOf(f))
  OBVIOUS
<1>10. first \in Seq(Elements(first)) /\ Elements(first) = {Task("visit", u)}
  BY <1>8, ElementsOfOne
<1>11. rest \in Seq(Elements(rest)) /\ Elements(rest) = {Task("field", a) : a \in Args(f)}
  <2>1. ArgsOf(f) \in Seq(Args(f))
    BY <1>3, <1>6, ShapeOfSlot
  <2> QED BY <1>9, <2>1, ElementsOfTasks DEF Args
<1>12. PICK new : new = first \o rest
  OBVIOUS
<1>13. new \in Seq(Elements(new)) /\ Elements(new) = Elements(first) \cup Elements(rest)
  <2>1. first \in Seq(Elements(first)) /\ rest \in Seq(Elements(rest))
    BY <1>10, <1>11
  <2> QED BY <1>12, <2>1, ElementsOfTwo
<1>14. stack' = new \o Tail(stack)
  <2>1. stack' = <<Task("visit", Held(f))>> \o Tasks("field", ArgsOf(f)) \o Tail(stack)
    BY <1>1 DEF CollectField
  <2>2. Held(f) = u
    BY <1>6, <1>7 DEF Held
  <2> QED BY <1>8, <1>9, <1>12, <2>1, <2>2
<1>15. /\ stack' \in Seq(Waiting') /\ Elements(new) \subseteq Waiting' /\ Waiting' \subseteq Elements(new) \cup Waiting
       /\ \A dos, x : Awaits(dos, x) => Awaits(dos, x)' \/ (Head(stack).do \in dos /\ Head(stack).on = x)
  BY <1>2, <1>3, <1>13, <1>14, StackMoves
<1>16. Found' = Built
  BY <1>2 DEF Found, Built
<1>17. \A v \in ValidTypes : Reached(v) => Reached(v)'
  BY <1>2, <1>3, <1>15, <1>16 DEF Reached
<1>18. ASSUME NEW g \in Slots, Settled(g) PROVE Settled(g)'
  BY <1>2, <1>15, <1>17, <1>18, SettledStays
<1>19. Settled(f)'
  <2>1. Task("visit", u) \in Waiting'
    BY <1>10, <1>13, <1>15
  <2>2. Reached(u)'
    BY <2>1 DEF Reached, Awaits, Task
  <2>3. holds'[f].form = "ir" /\ holds'[f].type = u
    BY <1>2, <1>6, <1>7
  <2> QED BY <2>2, <2>3 DEF Settled
<1>20. Handled(f)'
  <2>1. ASSUME NEW a \in Args(f) PROVE Followed(a)'
    <3>1. Task("field", a) \in Waiting'
      BY <1>11, <1>13, <1>15
    <3> QED BY <3>1 DEF Followed, Awaits, Task
  <2>2. Args(f)' = Args(f)
    BY <1>4, SameShapes
  <2> QED BY <1>19, <2>1, <2>2 DEF Handled
<1>21. \A g \in Slots : Awaits({"field", "member"}, g) => Handled(g)'
  BY <1>1, <1>15, <1>20 DEF Handled
<1>22. Explored'
  <2>1. Found \subseteq ValidTypes /\ \A v \in Found' \ Found : Covered(v)'
    BY <1>3, <1>16
  <2> QED BY <1>3, <1>4, <1>17, <1>18, <1>21, <2>1, FrontierMoves
<1>23. \A k \in Waiting' : k \in Waiting \/ CollectTask(k)'
  <2>1. CollectTask(Task("visit", u))
    BY <1>6, <1>7 DEF CollectTask, Task
  <2>2. ASSUME NEW a \in Args(f) PROVE CollectTask(Task("field", a))
    BY <1>5, <1>6 DEF CollectTask, Task, Placed
  <2>3. \A k \in Elements(new) : CollectTask(k)
    BY <1>10, <1>11, <1>13, <2>1, <2>2
  <2> QED BY <1>2, <1>15, <2>3, CollectTaskStays
<1>24. IsMap(typeMap')
  BY <1>2, <1>3 DEF IsMap
<1> QED BY <1>2, <1>3, <1>15, <1>22, <1>23, <1>24, CollectMoves

\* Steps that leave the stack and what the walks found.
LEMMA FrontierStays ==
  ASSUME WalkInv, stage # "refused", stage' = "walking" <=> stage = "walking",
         UNCHANGED <<program, names, made, holds, stack, byName, typeMap>>
  PROVE  Explored' /\ Waiting' = Waiting /\ stack' \in Seq(Waiting') /\ IsMap(byName') /\ IsMap(typeMap')
<1>1. /\ Ground /\ Seen \subseteq ValidTypes /\ Found \subseteq Seen /\ Explored
      /\ stack \in Seq(Waiting) /\ IsMap(byName) /\ IsMap(typeMap)
  BY FoundAreValid DEF WalkInv
<1>2. Waiting' = Waiting /\ Found' = Found
  BY DEF Waiting, Elements, Found, Seen, Built
<1>3. \A dos, x : Awaits(dos, x)' <=> Awaits(dos, x)
  BY <1>2 DEF Awaits
<1>4. \A u : Reached(u) => Reached(u)'
  BY <1>2, <1>3 DEF Reached
<1>5. ASSUME NEW f \in Slots, Settled(f) PROVE Settled(f)'
  BY <1>3, <1>4, <1>5, SettledStays
<1>6. \A f \in Slots : Awaits({"field", "member"}, f) => Handled(f)'
  BY <1>3 DEF Handled
<1>7. Explored'
  <2>1. Grown
    BY <1>1, GroundUnchanged
  <2>2. Found \subseteq ValidTypes /\ \A v \in Found' \ Found : Covered(v)'
    BY <1>1, <1>2
  <2> QED BY <1>1, <1>4, <1>5, <1>6, <2>1, <2>2, FrontierMoves
<1> QED BY <1>1, <1>2, <1>7

LEMMA FinishStays ==
  ASSUME WalkInv, Finish
  PROVE  WalkInv'
<1>1. /\ stage = "collecting" /\ stage' = "built" /\ stack = <<>> /\ stack' = <<>>
      /\ UNCHANGED <<program, names, made, holds, byName, typeMap>>
  BY DEF Finish
<1>2. Explored' /\ Waiting' = Waiting /\ stack' \in Seq(Waiting') /\ IsMap(typeMap')
  BY <1>1, FrontierStays
<1>3. \A n \in DOMAIN typeMap' : n \in DOMAIN byName /\ typeMap'[n] = byName[n]
  BY <1>1 DEF WalkInv
<1> QED BY <1>1, <1>2, <1>3, CollectMoves

LEMMA IdleStays ==
  ASSUME WalkInv, UNCHANGED <<program, names, made, holds, stack, byName, typeMap, stage>>
  PROVE  WalkInv'
<1>1. CASE stage = "refused"
  BY <1>1, RefuseStays DEF Refuse
<1>2. CASE stage # "refused"
  <2>1. Explored' /\ Waiting' = Waiting /\ stack' \in Seq(Waiting') /\ IsMap(byName') /\ IsMap(typeMap')
    BY <1>2, FrontierStays
  <2>2. CASE stage = "walking"
    <3>1. Ground' /\ Grown /\ Seen' = Seen
      BY GroundUnchanged DEF WalkInv, Seen
    <3>2. \A n \in DOMAIN byName' : byName'[n] \in ValidTypes' /\ NameOf(byName[n])' = n
      BY <3>1, NamesStay
    <3> QED BY <2>1, <2>2, <3>1, <3>2, WalkMoves
  <2>3. CASE stage \in {"collecting", "built"}
    <3>1. \A n \in DOMAIN typeMap' : n \in DOMAIN byName /\ typeMap'[n] = byName[n]
      BY <2>3 DEF WalkInv
    <3>2. stage' \in {"collecting", "built"} /\ (stage' = "built" => stack' = <<>>)
      BY <2>3 DEF WalkInv
    <3> QED BY <2>1, <2>3, <3>1, <3>2, CollectMoves
  <2> QED BY <1>2, <2>2, <2>3 DEF WalkInv
<1> QED BY <1>1, <1>2

-----------------------------------------------------------------------------
(* What the roots lead to *)

\* A reference that was resolved may be replaced by one to a type of the same name.
Renewed ==
  \A f \in Slots : holds[f].form = "ir" =>
    /\ holds'[f].form = "ir"
    /\ IsNamed(holds'[f].type) <=> IsNamed(holds[f].type)
    /\ IsNamed(holds[f].type) => NameOf(holds[f].type)' = NameOf(holds[f].type)

LEMMA LeadsBefore ==
  ASSUME Ground, Grown, Renewed, NEW t \in ValidTypes, NEW X, Leads(t, X)'
  PROVE  Leads(t, X)
<1>1. /\ Interfaces(t)' = Interfaces(t) /\ ReferencesOf(t)' = ReferencesOf(t)
      /\ Interfaces(t) \subseteq ValidTypes /\ \A f \in ReferencesOf(t) : f \in Slots
  BY SameShapes, ShapeOfType, ShapeOfReference
<1>2. \A u \in Interfaces(t) : NameOf(u) \in X
  <2>1. \A u \in Interfaces(t) : NameOf(u)' \in X
    BY <1>1 DEF Leads
  <2> QED BY <1>1, <2>1, SameTypes
<1>3. ASSUME NEW f \in ReferencesOf(t), holds[f].form = "ir", IsNamed(holds[f].type)
      PROVE  NameOf(holds[f].type) \in X
  <2>1. /\ holds'[f].form = "ir" /\ IsNamed(holds'[f].type)
        /\ NameOf(holds[f].type)' = NameOf(holds[f].type)
    BY <1>1, <1>3 DEF Renewed
  <2>2. \A u \in {holds'[f].type} : IsNamed(u) => NameOf(u)' \in X
    BY <1>1, <2>1 DEF Leads, IsNamed
  <2>3. PICK u : u = holds'[f].type
    OBVIOUS
  <2>4. NameOf(u)' \in X
    BY <2>1, <2>2, <2>3
  <2>5. NameOf(u)' = NameOf(holds[f].type)'
    BY <2>3 DEF NameOf
  <2> QED BY <2>1, <2>4, <2>5
<1> QED BY <1>2, <1>3 DEF Leads

LEMMA ClosesBefore ==
  ASSUME Ground, Grown, Renewed, Seen \subseteq ValidTypes, Seen \subseteq Seen', NEW X, Closes(X)'
  PROVE  Closes(X)
<1>1. ASSUME NEW i \in DOMAIN program.roots PROVE NameOf(Declared(program.roots[i])) \in X
  <2>1. PICK t : t = Declared(program.roots[i])
    OBVIOUS
  <2>2. t \in ValidTypes
    BY <2>1, RootsAreValid
  <2>3. NameOf(Declared(program.roots[i]))' \in X
    BY DEF Closes, Grown
  <2>4. NameOf(Declared(program.roots[i]))' = NameOf(t)'
    BY <2>1 DEF Grown, NameOf, Declared
  <2> QED BY <2>1, <2>2, <2>3, <2>4, SameTypes
<1>2. ASSUME NEW t \in Seen, NameOf(t) \in X PROVE Leads(t, X)
  <2>1. t \in ValidTypes /\ NameOf(t)' \in X /\ t \in Seen'
    BY <1>2, SameTypes
  <2>2. Leads(t, X)'
    BY <2>1 DEF Closes
  <2> QED BY <2>1, <2>2, LeadsBefore
<1> QED BY <1>1, <1>2 DEF Closes

\* A step of the first walk: what it adds is reached too.
LEMMA ReachMoves ==
  ASSUME WalkInv, ReachInv, stage = "walking", Grown, Renewed, Seen \subseteq Seen',
         NEW new, Waiting' \subseteq new \cup Waiting,
         \A X : Closes(X)' /\ Closes(X) /\ Leading(X) =>
                  /\ \A t \in Seen' : t \in Seen \/ NameOf(t)' \in X
                  /\ \A k \in new : k.do = "visit" => NameOf(k.on)' \in X
  PROVE  ReachInv'
<1>1. Ground /\ Seen \subseteq ValidTypes /\ \A k \in Waiting : WalkTask(k)
  BY FoundAreValid DEF WalkInv
<1>2. ASSUME NEW X, Closes(X)' PROVE Leading(X)'
  <2>1. Closes(X)
    BY <1>1, <1>2, ClosesBefore
  <2>2. Leading(X)
    BY <2>1 DEF ReachInv
  <2>3. \A t \in Seen : NameOf(t)' \in X
    BY <1>1, <2>2, SameTypes DEF Leading
  <2>4. ASSUME NEW k \in Waiting, k.do = "visit" PROVE NameOf(k.on)' \in X
    <3>1. PICK t : t = k.on
      OBVIOUS
    <3>2. t \in ValidTypes /\ NameOf(t) \in X
      BY <1>1, <2>2, <2>4, <3>1 DEF WalkTask, Leading
    <3>3. NameOf(k.on)' = NameOf(t)'
      BY <3>1 DEF NameOf
    <3> QED BY <3>2, <3>3, SameTypes
  <2>5. (\A t \in Seen' : t \in Seen \/ NameOf(t)' \in X) /\ \A k \in new : k.do = "visit" => NameOf(k.on)' \in X
    BY <1>2, <2>1, <2>2
  <2> QED BY <2>3, <2>4, <2>5 DEF Leading
<1> QED BY <1>2 DEF ReachInv

LEMMA UnchangedIsRenewed ==
  ASSUME Grown, holds' = holds
  PROVE  Renewed
<1>1. ASSUME NEW f \in Slots, holds[f].form = "ir"
      PROVE  /\ holds'[f].form = "ir"
             /\ IsNamed(holds'[f].type) <=> IsNamed(holds[f].type)
             /\ IsNamed(holds[f].type) => NameOf(holds[f].type)' = NameOf(holds[f].type)
  <2>1. PICK t : t = holds[f].type
    OBVIOUS
  <2>2. IsNamed(t) => t \in ValidTypes
    BY <1>1, <2>1, SlotsHoldFound
  <2>3. IsNamed(t) => NameOf(t)' = NameOf(t)
    BY <2>2, SameTypes
  <2>4. NameOf(holds[f].type)' = NameOf(t)'
    BY <2>1 DEF NameOf
  <2> QED BY <1>1, <2>1, <2>3, <2>4
<1> QED BY <1>1 DEF Renewed

LEMMA ResolvedIsRenewed ==
  ASSUME NEW f, Resolved(f)
  PROVE  Renewed
<1>1. Grown
  BY DEF Resolved, Improved
<1>2. ASSUME NEW g \in Slots, holds[g].form = "ir", g # f
      PROVE  /\ holds'[g].form = "ir"
             /\ IsNamed(holds'[g].type) <=> IsNamed(holds[g].type)
             /\ IsNamed(holds[g].type) => NameOf(holds[g].type)' = NameOf(holds[g].type)
  <2>1. holds'[g] = holds[g]
    BY <1>2 DEF Resolved, Slots
  <2>2. PICK t : t = holds[g].type
    OBVIOUS
  <2>3. IsNamed(t) => t \in ValidTypes
    BY <1>2, <2>2, SlotsHoldFound
  <2>4. IsNamed(t) => NameOf(t)' = NameOf(t)
    BY <1>1, <2>3, SameTypes
  <2>5. NameOf(holds[g].type)' = NameOf(t)'
    BY <2>1, <2>2 DEF NameOf
  <2> QED BY <1>2, <2>1, <2>2, <2>4, <2>5
<1>3. holds[f].form = "ir" =>
        /\ holds'[f].form = "ir"
        /\ IsNamed(holds'[f].type) <=> IsNamed(holds[f].type)
        /\ IsNamed(holds[f].type) => NameOf(holds[f].type)' = NameOf(holds[f].type)
  BY DEF Resolved
<1> QED BY <1>2, <1>3 DEF Renewed

LEMMA VisitReaches ==
  ASSUME WalkInv, ReachInv, Visit
  PROVE  ReachInv'
<1>1. PICK t : t = Head(stack).on
  OBVIOUS
<1>2. PICK n : n = NameOf(t)
  OBVIOUS
<1>3. stage = "walking" /\ stack # <<>> /\ Head(stack).do = "visit"
  BY DEF Visit, Due
<1>4. /\ Ground /\ Seen \subseteq ValidTypes /\ stack \in Seq(Waiting)
      /\ \A m \in DOMAIN byName : byName[m] \in ValidTypes /\ NameOf(byName[m]) = m
  BY <1>3, FoundAreValid DEF WalkInv
<1>5. Head(stack) \in Waiting
  BY <1>3, <1>4
<1>6. t \in ValidTypes
  BY <1>1, <1>3, <1>5 DEF WalkInv, WalkTask
<1>7. CASE n \in DOMAIN byName /\ byName[n] # t
  BY <1>1, <1>2, <1>7 DEF Visit, Refuse, ReachInv
<1>8. CASE n \in DOMAIN byName /\ byName[n] = t
  <2>1. stack' = Tail(stack) /\ UNCHANGED <<program, names, made, holds, byName, typeMap, stage>>
    BY <1>1, <1>2, <1>8 DEF Visit
  <2>2. Grown /\ Renewed
    BY <1>4, <2>1, GroundUnchanged, UnchangedIsRenewed
  <2>3. Waiting' \subseteq {} \cup Waiting /\ Seen' = Seen
    BY <1>3, <1>4, <2>1, StackPops DEF Seen
  <2> QED BY <1>3, <2>2, <2>3, ReachMoves
<1>9. CASE n \notin DOMAIN byName
  <2>1. /\ byName' = With(byName, n, t) /\ stack' = TypeTasks(t) \o Tail(stack)
        /\ UNCHANGED <<program, names, made, holds, typeMap, stage>>
    BY <1>1, <1>2, <1>9 DEF Visit
  <2>2. Grown /\ Renewed
    BY <1>4, <2>1, GroundUnchanged, UnchangedIsRenewed
  <2>3. PICK do \in {"field", "member"} :
          /\ TypeTasks(t) \in Seq(Elements(TypeTasks(t)))
          /\ Elements(TypeTasks(t)) = {Task("visit", u) : u \in Interfaces(t)} \cup {Task(do, f) : f \in Fields(t)}
    BY <1>4, <1>6, WorkOfType
  <2>4. PICK new : new = Elements(TypeTasks(t))
    OBVIOUS
  <2>5. Waiting' \subseteq new \cup Waiting
    BY <1>3, <1>4, <2>1, <2>3, <2>4, StackMoves
  <2>6. Seen' = Seen \cup {t}
    BY <1>9, <2>1 DEF Seen, With
  <2>7. ASSUME NEW X, Closes(X)', Leading(X)
        PROVE  /\ \A u \in Seen' : u \in Seen \/ NameOf(u)' \in X
               /\ \A k \in new : k.do = "visit" => NameOf(k.on)' \in X
    <3>1. NameOf(t) \in X
      BY <1>1, <1>3, <1>5, <2>7 DEF Leading
    <3>2. NameOf(t)' \in X
      BY <1>6, <2>2, <3>1, SameTypes
    <3>3. Leads(t, X)'
      BY <2>6, <2>7, <3>2 DEF Closes
    <3>4. Leads(t, X)
      BY <1>4, <1>6, <2>2, <3>3, LeadsBefore
    <3>5. \A u \in Interfaces(t) : NameOf(u)' \in X
      BY <1>4, <1>6, <2>2, <3>4, ShapeOfType, SameTypes DEF Leads
    <3>6. ASSUME NEW k \in new, k.do = "visit" PROVE NameOf(k.on)' \in X
      <4>1. PICK u \in Interfaces(t) : k = Task("visit", u)
        BY <2>3, <2>4, <3>6 DEF Task
      <4>2. k.on = u
        BY <4>1 DEF Task
      <4>3. NameOf(k.on)' = NameOf(u)'
        BY <4>2 DEF NameOf
      <4> QED BY <3>5, <4>3
    <3> QED BY <2>6, <3>2, <3>6
  <2> QED BY <1>3, <2>2, <2>5, <2>6, <2>7, ReachMoves
<1> QED BY <1>7, <1>8, <1>9

LEMMA ResolveReaches ==
  ASSUME WalkInv, ReachInv, ResolveSimple \/ ResolveGeneric
  PROVE  ReachInv'
<1>1. PICK f : f = Head(stack).on
  OBVIOUS
<1>2. stage = "walking" /\ stack # <<>> /\ Head(stack).do \in {"field", "member"}
  BY DEF ResolveSimple, ResolveGeneric, Due
<1>3. /\ Placed(f) /\ f \in Slots /\ (Head(stack).do = "member" => Args(f) = {})
      /\ Ground /\ stack \in Seq(Waiting)
  BY <1>1, <1>2, HeadIsPlaced DEF WalkInv
<1>4. CASE stage' = "refused"
  BY <1>4 DEF ReachInv
<1>5. CASE stage' # "refused"
  <2>1. /\ Resolved(f) /\ stack' = Remaining(Head(stack)) \o Tail(stack)
        /\ UNCHANGED <<program, byName, typeMap, stage>>
    BY <1>1, <1>3, <1>5, SimpleIsResolved, GenericIsResolved
  <2>2. Grown /\ Renewed
    BY <2>1, ResolvedIsRenewed DEF Resolved, Improved
  <2>3. PICK do \in {"enqueue", "admit"} :
          /\ Remaining(Head(stack)) \in Seq(Elements(Remaining(Head(stack))))
          /\ Elements(Remaining(Head(stack))) = {Task("field", a) : a \in Args(f)} \cup {Task(do, f)}
    BY <1>1, <1>2, <1>3, WorkOfReference
  <2>4. PICK new : new = Elements(Remaining(Head(stack)))
    OBVIOUS
  <2>5. Waiting' \subseteq new \cup Waiting /\ Seen' = Seen
    BY <1>2, <1>3, <2>1, <2>3, <2>4, StackMoves DEF Seen
  <2>6. \A k \in new : k.do # "visit"
    BY <2>3, <2>4 DEF Task
  <2> QED BY <1>2, <2>2, <2>5, <2>6, ReachMoves
<1> QED BY <1>4, <1>5

LEMMA EnqueueReaches ==
  ASSUME WalkInv, ReachInv, Enqueue
  PROVE  ReachInv'
<1>1. PICK f : f = Head(stack).on
  OBVIOUS
<1>2. PICK t : t = holds[f].type
  OBVIOUS
<1>3. /\ stage = "walking" /\ stack # <<>> /\ Head(stack).do \in {"enqueue", "admit"}
      /\ UNCHANGED <<program, names, made, holds, byName, typeMap, stage>>
  BY DEF Enqueue, Due
<1>4. Ground /\ Seen \subseteq ValidTypes /\ stack \in Seq(Waiting)
  BY <1>3, FoundAreValid DEF WalkInv
<1>5. Placed(f) /\ f \in Slots /\ holds[f].form = "ir"
  BY <1>1, <1>3, HeadIsPlaced
<1>6. Grown /\ Renewed /\ Seen' = Seen
  BY <1>3, <1>4, GroundUnchanged, UnchangedIsRenewed DEF Seen
<1>7. CASE ~IsNamed(t)
  <2>1. stack' = Tail(stack)
    BY <1>1, <1>2, <1>7 DEF Enqueue
  <2>2. Waiting' \subseteq {} \cup Waiting
    BY <1>3, <1>4, <2>1, StackPops
  <2> QED BY <1>3, <1>6, <2>2, ReachMoves
<1>8. CASE IsNamed(t)
  <2>1. stack' = <<Task("visit", t)>> \o Tail(stack)
    BY <1>1, <1>2, <1>8 DEF Enqueue
  <2>2. PICK new : new = <<Task("visit", t)>>
    OBVIOUS
  <2>3. new \in Seq(Elements(new)) /\ Elements(new) = {Task("visit", t)}
    BY <2>2, ElementsOfOne
  <2>4. Waiting' \subseteq {Task("visit", t)} \cup Waiting
    BY <1>3, <1>4, <2>1, <2>2, <2>3, StackMoves
  <2>5. ASSUME NEW X, Closes(X), Leading(X) PROVE NameOf(Task("visit", t).on)' \in X
    <3>1. PICK u \in Seen : f \in ReferencesOf(u)
      BY <1>5 DEF Placed
    <3>2. Leads(u, X)
      BY <2>5, <3>1 DEF Leading, Closes
    <3>3. NameOf(t) \in X
      BY <1>2, <1>5, <1>8, <3>1, <3>2 DEF Leads
    <3>4. t \in ValidTypes
      BY <1>2, <1>5, <1>8, SlotsHoldFound
    <3>5. NameOf(t)' \in X
      BY <1>6, <3>3, <3>4, SameTypes
    <3> QED BY <3>5 DEF Task, NameOf
  <2> QED BY <1>3, <1>6, <2>4, <2>5, ReachMoves
<1> QED BY <1>7, <1>8

\* The second walk, and the steps that start and end it, visit nothing that is new.
LEMMA OtherReaches ==
  ASSUME WalkInv, ReachInv,
         \/ Assemble \/ CollectType \/ CollectField \/ Finish \/ RefuseMember
         \/ UNCHANGED <<program, names, made, holds, stack, byName, typeMap, stage>>
  PROVE  ReachInv'
<1>1. CASE stage' = "refused"
  BY <1>1 DEF ReachInv
<1>2. CASE stage' # "refused"
  <2>1. /\ UNCHANGED <<program, names, made, holds, byName>> /\ stage # "refused"
        /\ stage' = "walking" => stage = "walking" /\ Waiting' = Waiting
    BY <1>2 DEF Assemble, CollectType, CollectField, Finish, RefuseMember, Refuse, Due, Waiting, Elements
  <2>2. Ground /\ Grown /\ Seen \subseteq ValidTypes /\ Seen' = Seen
    BY <2>1, FoundAreValid, GroundUnchanged DEF WalkInv, Seen
  <2>3. Renewed
    BY <2>1, <2>2, UnchangedIsRenewed
  <2>4. ASSUME NEW X, Closes(X)' PROVE Leading(X)'
    <3>1. Closes(X)
      BY <2>2, <2>3, <2>4, ClosesBefore
    <3>2. \A t \in Seen : NameOf(t) \in X
      BY <2>1, <3>1 DEF ReachInv, Leading
    <3>3. \A t \in Seen' : NameOf(t)' \in X
      BY <2>2, <3>2, SameTypes
    <3>4. ASSUME stage' = "walking", NEW k \in Waiting', k.do = "visit" PROVE NameOf(k.on)' \in X
      <4>1. PICK t : t = k.on
        OBVIOUS
      <4>2. k \in Waiting /\ WalkTask(k) /\ Leading(X)
        BY <2>1, <3>1, <3>4 DEF WalkInv, ReachInv
      <4>3. NameOf(t) \in X /\ t \in ValidTypes
        BY <2>1, <3>4, <4>1, <4>2 DEF Leading, WalkTask
      <4>4. NameOf(k.on)' = NameOf(t)'
        BY <4>1 DEF NameOf
      <4> QED BY <2>2, <4>3, <4>4, SameTypes
    <3> QED BY <3>3, <3>4 DEF Leading
  <2> QED BY <2>4 DEF ReachInv
<1> QED BY <1>1, <1>2

-----------------------------------------------------------------------------
(* The theorems *)

LEMMA StartsWell ==
  ASSUME BuilderInit
  PROVE  WalkInv /\ ReachInv
<1>1. Ground
  BY GroundInitially
<1>2. /\ byName = <<>> /\ typeMap = <<>> /\ stage = "walking" /\ stack = Roots
  BY DEF BuilderInit
<1>3. DOMAIN byName = {} /\ DOMAIN typeMap = {} /\ IsMap(byName) /\ IsMap(typeMap)
  <2>1. DOMAIN <<>> = {} /\ <<>> = [n \in DOMAIN <<>> |-> <<>>[n]]
    OBVIOUS
  <2> QED BY <1>2, <2>1 DEF IsMap
<1>4. Seen = {} /\ Found = {}
  BY <1>2, <1>3 DEF Seen, Found
<1>5. /\ Waiting = {Task("visit", Declared(program.roots[i])) : i \in DOMAIN program.roots}
      /\ stack \in Seq(Waiting)
  <2>1. program.roots \in Seq(DOMAIN program.types)
    BY <1>1 DEF Ground, WellDeclared
  <2>2. DOMAIN program.roots = 1..Len(program.roots) /\ Len(program.roots) \in Nat
    BY <2>1
  <2>3. stack = [i \in DOMAIN program.roots |-> Task("visit", Declared(program.roots[i]))]
    BY <1>2 DEF Roots
  <2>4. Waiting = {Task("visit", Declared(program.roots[i])) : i \in DOMAIN program.roots}
    BY <2>3 DEF Waiting, Elements
  <2>5. \A i \in 1..Len(program.roots) : stack[i] \in Waiting
    BY <2>2, <2>3, <2>4
  <2> QED BY <2>2, <2>3, <2>4, <2>5
<1>6. \A k \in Waiting : WalkTask(k)
  BY <1>1, <1>5, RootsAreValid DEF WalkTask, Task
<1>7. Explored
  <2>1. ASSUME NEW i \in DOMAIN program.roots PROVE Reached(Declared(program.roots[i]))
    <3>1. Task("visit", Declared(program.roots[i])) \in Waiting
      BY <1>5
    <3> QED BY <3>1 DEF Reached, Awaits, Task
  <2> QED BY <1>4, <2>1 DEF Explored
<1>8. WalkInv
  BY <1>1, <1>2, <1>3, <1>5, <1>6, <1>7 DEF WalkInv
<1>9. ReachInv
  BY <1>4, <1>5 DEF ReachInv, Leading, Closes, Task
<1> QED BY <1>8, <1>9

\* Both walks keep their invariants: every reference they hold is sound, what is left to
\* do covers what was not followed yet, and nothing is visited that the roots do not
\* lead to by name (_resolve_named, _collect_named_type).
THEOREM BuilderInvariant == BuilderSpec => [](WalkInv /\ ReachInv)
<1>1. BuilderInit => WalkInv /\ ReachInv
  BY StartsWell
<1>2. ASSUME WalkInv, ReachInv, [BuilderNext]_builderVars PROVE WalkInv' /\ ReachInv'
  <2>1. CASE Visit
    BY <1>2, <2>1, VisitStays, VisitReaches
  <2>2. CASE ResolveSimple \/ ResolveGeneric
    BY <1>2, <2>2, ResolveStays, ResolveReaches
  <2>3. CASE Enqueue
    BY <1>2, <2>3, EnqueueStays, EnqueueReaches
  <2>4. CASE RefuseMember
    BY <1>2, <2>4, RefuseMemberStays, OtherReaches
  <2>5. CASE Assemble
    BY <1>2, <2>5, AssembleStays, OtherReaches
  <2>6. CASE CollectType
    BY <1>2, <2>6, CollectTypeStays, OtherReaches
  <2>7. CASE CollectField
    BY <1>2, <2>7, CollectFieldStays, OtherReaches
  <2>8. CASE Finish
    BY <1>2, <2>8, FinishStays, OtherReaches
  <2>9. CASE UNCHANGED builderVars
    <3>1. UNCHANGED <<program, names, made, holds, stack, byName, typeMap, stage>>
      BY <2>9 DEF builderVars
    <3> QED BY <1>2, <3>1, IdleStays, OtherReaches
  <2> QED BY <1>2, <2>1, <2>2, <2>3, <2>4, <2>5, <2>6, <2>7, <2>8, <2>9 DEF BuilderNext
<1> QED BY <1>1, <1>2, PTL DEF BuilderSpec

\* A schema that is built is whole: its two walks found the same types, each under its
\* own name, whatever of them a reference or an interface names is among them, and the
\* second walk met no two types of a name (_collect_named_type's conflict).
THEOREM SchemasAreWhole == BuilderSpec => []SchemaIsWhole
<1>1. ASSUME WalkInv, ReachInv PROVE SchemaIsWhole
  <2>1. stage # "conflict"
    BY <1>1 DEF WalkInv
  <2>2. SUFFICES ASSUME stage = "built"
        PROVE  /\ typeMap = byName
               /\ \A n \in DOMAIN typeMap : NameOf(typeMap[n]) = n
               /\ \A t \in Built : \A f \in ReferencesOf(t) :
                    holds[f].form = "ir" /\ (IsNamed(holds[f].type) => holds[f].type \in Built)
               /\ \A t \in Built : KindOf(t) = "object" =>
                    /\ \A i \in DOMAIN InterfacesOf(t) : InterfacesOf(t)[i] \in Built
                    /\ Implements(t)
    BY <2>1 DEF SchemaIsWhole
  <2>3. /\ Ground /\ Seen \subseteq ValidTypes /\ Found = Built /\ Explored /\ Complete
        /\ IsMap(byName) /\ IsMap(typeMap)
        /\ \A n \in DOMAIN byName : NameOf(byName[n]) = n /\ byName[n] \in Seen
        /\ \A n \in DOMAIN typeMap : n \in DOMAIN byName /\ typeMap[n] = byName[n]
    <3>1. Found = Built
      BY <2>2 DEF Found
    <3> QED BY <1>1, <2>2, <3>1, FoundAreValid DEF WalkInv
  <2>4. \A dos, x : ~Awaits(dos, x)
    <3>1. stack = <<>> /\ DOMAIN <<>> = {}
      BY <1>1, <2>2 DEF WalkInv
    <3> QED BY <3>1 DEF Awaits, Waiting, Elements
  <2>5. \A u : Reached(u) => u \in Built
    BY <2>3, <2>4 DEF Reached
  <2>6. \A u \in Built : NameOf(u) \in DOMAIN typeMap
    BY <2>3 DEF Built
  <2>7. \A f : Settled(f) => holds[f].form = "ir" /\ (IsNamed(holds[f].type) => holds[f].type \in Built)
    BY <2>4, <2>5 DEF Settled
  <2>8. ASSUME NEW t \in Built PROVE Leads(t, DOMAIN typeMap)
    <3>1. Covered(t) /\ t \in ValidTypes
      BY <2>3 DEF Explored, Built, Seen
    <3>2. \A u \in Interfaces(t) : u \in Built
      BY <2>5, <3>1 DEF Covered
    <3>3. \A f \in Fields(t) : Settled(f) /\ \A a \in Args(f) : Settled(a)
      BY <2>4, <3>1 DEF Covered, Handled, Followed
    <3>4. \A f \in ReferencesOf(t) : Settled(f)
      BY <2>3, <3>1, <3>3, ShapeOfType
    <3> QED BY <2>6, <2>7, <3>2, <3>4 DEF Leads
  <2>9. Closes(DOMAIN typeMap)
    <3>1. \A i \in DOMAIN program.roots : NameOf(Declared(program.roots[i])) \in DOMAIN typeMap
      BY <2>3, <2>5, <2>6 DEF Explored
    <3>2. ASSUME NEW t \in Seen, NameOf(t) \in DOMAIN typeMap PROVE t \in Built
      <4>1. PICK n \in DOMAIN byName : t = byName[n]
        BY DEF Seen
      <4>2. NameOf(t) = n
        BY <2>3, <4>1
      <4> QED BY <2>3, <3>2, <4>1, <4>2 DEF Built
    <3> QED BY <2>8, <3>1, <3>2 DEF Closes
  <2>10. \A t \in Seen : NameOf(t) \in DOMAIN typeMap
    BY <1>1, <2>2, <2>9 DEF ReachInv, Leading
  <2>11. DOMAIN typeMap = DOMAIN byName
    BY <2>3, <2>10
  <2>12. typeMap = byName
    BY <2>3, <2>11 DEF IsMap
  <2>13. Built = Seen
    BY <2>12 DEF Built, Seen
  <2>14. \A t \in Built : \A f \in ReferencesOf(t) :
           holds[f].form = "ir" /\ (IsNamed(holds[f].type) => holds[f].type \in Built)
    BY <2>3, <2>13 DEF Complete
  <2>15. ASSUME NEW t \in Built, KindOf(t) = "object"
         PROVE  (\A i \in DOMAIN InterfacesOf(t) : InterfacesOf(t)[i] \in Built) /\ Implements(t)
    <3>1. Interfaces(t) \subseteq Seen /\ Implements(t)
      BY <2>3, <2>13, <2>15 DEF Complete
    <3>2. Interfaces(t) = {InterfacesOf(t)[i] : i \in DOMAIN InterfacesOf(t)}
      BY <2>15 DEF Interfaces, Elements
    <3> QED BY <2>13, <3>1, <3>2
  <2> QED BY <2>3, <2>12, <2>14, <2>15
<1> QED BY <1>1, BuilderInvariant, PTL

-----------------------------------------------------------------------------
(* What references mean *)

\* Types that are there before the walk.
Basic(t) == (\E id \in DOMAIN program.types : t = Declared(id)) \/ (\E c : t = Plain(c))

\* A reference became the type it was written for.
Done(f) ==
  /\ holds[f].form = "ir"
  /\ IF Written(f).form = "generic"
     THEN PromisedName(Written(f)) \in DOMAIN made /\ holds[f].type = Made(PromisedName(Written(f)))
     ELSE Basic(Meant(Written(f))) /\ holds[f].type = Meant(Written(f))

GenericPlaced(f) == Placed(f) /\ Written(f).form = "generic"

\* A generic type has the name of a type or a class.
Ambiguous == \E f \in DOMAIN holds : GenericPlaced(f) /\ PromisedName(Written(f)) \in Taken

\* Otherwise every generic type was made for a reference, under the name promised, and a
\* reference is as it was written until it became what it was written for.
MadeAsWritten ==
  \A n \in DOMAIN made :
    /\ n \notin Taken /\ Basic(made[n].of)
    /\ \E f \in DOMAIN holds :
         /\ GenericPlaced(f) /\ PromisedName(Written(f)) = n
         /\ Written(f).template = made[n].template /\ Meant(Written(f).of) = made[n].of
HeldAsWritten == \A f \in DOMAIN holds : holds[f] = Written(f) \/ Done(f)

Comes(f) == Awaits({"field", "member"}, f) \/ Done(f)
Turned ==
  /\ stage = "walking" =>
       \A t \in Seen : \A f \in Fields(t) :
         Awaits({"field", "member"}, f) \/ (Done(f) /\ \A a \in Args(f) : Comes(a))
  /\ stage \in {"collecting", "built"} => \A t \in Seen : \A f \in ReferencesOf(t) : Done(f)

\* names holds what was registered and what was made, never two of one name.
NamesAreTables ==
  /\ \A n : n \in DOMAIN names <=> OfName(n) # {} \/ n \in DOMAIN made
  /\ \A n \in DOMAIN names :
       names[n] = IF n \in DOMAIN made THEN Made(n) ELSE LastRegistered(OfName(n))

MeaningInv == NamesAreTables /\ (Ambiguous \/ (MadeAsWritten /\ HeldAsWritten /\ Turned))

LEMMA StaticStays ==
  ASSUME program' = program
  PROVE  /\ \A ref : Meant(ref)' = Meant(ref) /\ PromisedName(ref)' = PromisedName(ref)
         /\ \A t : Basic(t)' <=> Basic(t)
         /\ Taken' = Taken
         /\ \A n : OfName(n)' = OfName(n) /\ LastRegistered(OfName(n))' = LastRegistered(OfName(n))
<1>1. ASSUME NEW n PROVE OfName(n)' = OfName(n) /\ OfClass(n)' = OfClass(n)
  BY DEF OfName, OfClass
<1>2. ASSUME NEW places PROVE LastRegistered(places)' = LastRegistered(places)
  BY DEF LastRegistered, Declared
<1>3. ASSUME NEW n PROVE LastRegistered(OfName(n))' = LastRegistered(OfName(n)) /\ LastRegistered(OfClass(n))' = LastRegistered(OfClass(n))
  <2>1. PICK a : a = OfName(n)
    OBVIOUS
  <2>2. PICK b : b = OfClass(n)
    OBVIOUS
  <2>3. LastRegistered(OfName(n))' = LastRegistered(a)' /\ LastRegistered(OfClass(n))' = LastRegistered(b)'
    BY <1>1, <2>1, <2>2 DEF LastRegistered
  <2> QED BY <1>2, <2>1, <2>2, <2>3
<1>4. ASSUME NEW t PROVE NameOf(t)' = NameOf(t) /\ (IsNamed(t)' <=> IsNamed(t))
  BY DEF NameOf, IsNamed
<1>5. ASSUME NEW t PROVE Replacement(t)' = Replacement(t)
  <2>1. PICK n : n = NameOf(t)
    OBVIOUS
  <2>2. OfName(NameOf(t))' = OfName(n)'
    BY <1>4, <2>1 DEF OfName
  <2>3. LastRegistered(OfName(NameOf(t)))' = LastRegistered(OfName(n))'
    BY <2>2 DEF LastRegistered, Declared
  <2> QED BY <1>1, <1>3, <1>4, <2>1, <2>2, <2>3 DEF Replacement
<1>6. ASSUME NEW class PROVE NamedBy(class)' = NamedBy(class)
  BY <1>1, <1>3 DEF NamedBy, Plain, Unknown
<1>7. ASSUME NEW ref PROVE Meant(ref)' = Meant(ref)
  <2>1. PICK t : t = IF ref.form = "ir" THEN ref.type ELSE NamedBy(ref.class)
    OBVIOUS
  <2>2. Meant(ref) = Replacement(t)
    BY <2>1 DEF Meant
  <2>3. (IF ref.form = "ir" THEN ref.type ELSE NamedBy(ref.class)') = t
    BY <1>6, <2>1
  <2>4. Meant(ref)' = Replacement(t)'
    BY <2>3 DEF Meant, Replacement, OfName, LastRegistered, NameOf, IsNamed, Declared
  <2> QED BY <1>5, <2>2, <2>4
<1>8. ASSUME NEW ref PROVE PromisedName(ref)' = PromisedName(ref)
  <2>1. PICK t : t = Meant(ref.of)
    OBVIOUS
  <2>2. Meant(ref.of)' = t
    BY <1>7, <2>1
  <2>3. NameOf(Meant(ref.of))' = NameOf(t)'
    BY <2>2 DEF NameOf
  <2> QED BY <1>4, <2>1, <2>3 DEF PromisedName
<1>9. ASSUME NEW t PROVE Basic(t)' <=> Basic(t)
  BY DEF Basic, Declared, Plain
<1>10. Taken' = Taken
  BY DEF Taken
<1> QED BY <1>1, <1>3, <1>7, <1>8, <1>9, <1>10

LEMMA WrittenStays ==
  ASSUME Ground, Grown, NEW f \in DOMAIN holds
  PROVE  Written(f)' = Written(f)
<1>1. CASE f[1] = <<>>
  BY <1>1 DEF Written, Grown
<1>2. CASE f[1] # <<>>
  <2>1. PICK n \in DOMAIN made : f[1] = <<n>>
    BY <1>2 DEF Ground, SoundOwners
  <2>2. made'[f[1][1]] = made[f[1][1]]
    BY <2>1 DEF Grown
  <2> QED BY <1>2, <2>2 DEF Written, Grown, Substituted
<1> QED BY <1>1, <1>2

LEMMA ReplacedOnce ==
  ASSUME WellDeclared(program), NEW t
  PROVE  /\ Replacement(Replacement(t)) = Replacement(t)
         /\ Basic(t) => Basic(Replacement(t))
<1>1. CASE IsNamed(t) /\ OfName(NameOf(t)) # {}
  <2>1. PICK n : n = NameOf(t)
    OBVIOUS
  <2>2. OfName(n) \in SUBSET DOMAIN program.registered
    BY DEF OfName
  <2>3. PICK i \in OfName(n) : /\ program.registered[i] \in DOMAIN program.types
                               /\ LastRegistered(OfName(n)) = Declared(program.registered[i])
    BY <1>1, <2>1, <2>2, LastIsDeclared
  <2>4. PICK u : u = Declared(program.registered[i])
    OBVIOUS
  <2>5. Replacement(t) = u
    BY <1>1, <2>1, <2>3, <2>4 DEF Replacement
  <2>6. IsNamed(u) /\ NameOf(u) = n
    BY <2>3, <2>4 DEF IsNamed, NameOf, Declared, OfName
  <2>7. Replacement(u) = u
    BY <1>1, <2>1, <2>3, <2>4, <2>6 DEF Replacement
  <2>8. Basic(u)
    BY <2>3, <2>4 DEF Basic
  <2> QED BY <2>5, <2>7, <2>8
<1>2. CASE ~(IsNamed(t) /\ OfName(NameOf(t)) # {})
  BY <1>2 DEF Replacement
<1> QED BY <1>1, <1>2

LEMMA FinalIsReplacement ==
  ASSUME NamesAreTables, MadeAsWritten, NEW t, Basic(t)
  PROVE  Final(t) = Replacement(t)
<1>1. CASE \E id \in DOMAIN program.types : t = Declared(id)
  <2>1. PICK id \in DOMAIN program.types : t = Declared(id)
    BY <1>1
  <2>2. PICK n : n = NameOf(t)
    OBVIOUS
  <2>3. IsNamed(t) /\ n = program.types[id].name
    BY <2>1, <2>2 DEF IsNamed, NameOf, Declared
  <2>4. n \notin DOMAIN made
    BY <2>3 DEF MadeAsWritten, Taken
  <2>5. (n \in DOMAIN names <=> OfName(n) # {}) /\ (n \in DOMAIN names => names[n] = LastRegistered(OfName(n)))
    BY <2>4 DEF NamesAreTables
  <2> QED BY <2>2, <2>3, <2>5 DEF Final, Replacement
<1>2. CASE \E c : t = Plain(c)
  <2>1. ~IsNamed(t)
    BY <1>2 DEF IsNamed, Plain
  <2> QED BY <2>1 DEF Final, Replacement
<1> QED BY <1>1, <1>2 DEF Basic

\* A reference that has no parameters, to what was declared.
Clear(ref) ==
  \/ ref.form = "ir" /\ Basic(ref.type)
  \/ ref.form = "class" /\ ref.class \in Taken

LEMMA SimpleIsMeant ==
  ASSUME WellDeclared(program), NamesAreTables, MadeAsWritten, NEW ref, Clear(ref)
  PROVE  Simple(ref) = Meant(ref) /\ (Simple(ref) # Unknown => Basic(Meant(ref)))
<1>1. CASE ref.form = "ir"
  <2>1. Basic(ref.type)
    BY <1>1 DEF Clear
  <2>2. Simple(ref) = Final(ref.type) /\ Meant(ref) = Replacement(ref.type)
    BY <1>1 DEF Simple, Meant
  <2> QED BY <2>1, <2>2, FinalIsReplacement, ReplacedOnce
<1>2. CASE ref.form # "ir"
  <2>1. PICK c : c = ref.class
    OBVIOUS
  <2>2. c \in Taken /\ c \notin DOMAIN made
    BY <1>2, <2>1 DEF Clear, MadeAsWritten
  <2>3. (c \in DOMAIN names <=> OfName(c) # {}) /\ (c \in DOMAIN names => names[c] = LastRegistered(OfName(c)))
    BY <2>2 DEF NamesAreTables
  <2>4. LookUp(c) = NamedBy(c)
    BY <2>3 DEF LookUp, NamedBy
  <2>5. NamedBy(c) = Unknown \/ Basic(NamedBy(c))
    <3>1. \A places \in SUBSET DOMAIN program.registered : places # {} => Basic(LastRegistered(places))
      <4>1. ASSUME NEW places \in SUBSET DOMAIN program.registered, places # {} PROVE Basic(LastRegistered(places))
        BY <4>1, LastIsDeclared DEF Basic
      <4> QED BY <4>1
    <3>2. OfName(c) \in SUBSET DOMAIN program.registered /\ OfClass(c) \in SUBSET DOMAIN program.registered
      BY DEF OfName, OfClass
    <3> QED BY <3>1, <3>2 DEF NamedBy, Basic
  <2>6. Simple(ref) = Final(NamedBy(c)) /\ Meant(ref) = Replacement(NamedBy(c))
    BY <1>2, <2>1, <2>4 DEF Simple, Meant
  <2>7. CASE NamedBy(c) = Unknown
    <3>1. ~IsNamed(Unknown)
      BY DEF IsNamed, Unknown
    <3> QED BY <2>6, <2>7, <3>1 DEF Final, Replacement
  <2>8. CASE Basic(NamedBy(c))
    BY <2>6, <2>8, FinalIsReplacement, ReplacedOnce
  <2> QED BY <2>5, <2>7, <2>8
<1> QED BY <1>1, <1>2

\* What a reference is written as, once the parameter of its template is replaced.
LEMMA WrittenIsClear ==
  ASSUME Ground, MadeAsWritten, NEW f \in Slots, holds[f] = Written(f)
  PROVE  IF Written(f).form = "generic"
         THEN Written(f).template \in DOMAIN program.templates /\ Clear(Written(f).of)
         ELSE Clear(Written(f))
<1>1. f[2] \in DOMAIN program.fields /\ f \in DOMAIN holds /\ Sound(holds[f])
  BY DEF Slots, SoundSlot
<1>2. PICK w : w = Written(f)
  OBVIOUS
<1>3. PICK ref : ref = program.fields[f[2]].ref
  OBVIOUS
<1> DEFINE simple == {[form |-> "ir", type |-> <<"declared", id>>] : id \in DOMAIN program.types}
                     \cup [form : {"class"}, class : STRING]
           open == simple \cup {[form |-> "var"]}
<1>4. ref \in open \cup [form : {"generic"}, template : DOMAIN program.templates, of : open]
  BY <1>1, <1>3 DEF Ground, WellDeclared
<1>5. (ref.form = "class" => ref.class \in Taken) /\ (ref.form = "generic" /\ ref.of.form = "class" => ref.of.class \in Taken)
  <2>1. ref \in {program.fields[g].ref : g \in DOMAIN program.fields}
    BY <1>1, <1>3
  <2> QED BY <2>1 DEF Taken
<1>6. ASSUME NEW r \in simple, r.form = "class" => r.class \in Taken PROVE Clear(r)
  <2>1. CASE r \in [form : {"class"}, class : STRING]
    BY <1>6, <2>1 DEF Clear
  <2>2. CASE r \in {[form |-> "ir", type |-> <<"declared", id>>] : id \in DOMAIN program.types}
    BY <2>2 DEF Clear, Basic, Declared
  <2> QED BY <2>1, <2>2
<1>7. Sound(w)
  BY <1>1, <1>2
<1>8. \/ w = ref
      \/ \E n \in DOMAIN made : w = Substituted(ref, made[n].of)
  BY <1>1, <1>2, <1>3 DEF Written, Ground, SoundOwners
<1>9. CASE w = ref
  <2>1. CASE ref \in simple
    BY <1>2, <1>5, <1>6, <1>9, <2>1
  <2>2. CASE ref = [form |-> "var"]
    BY <1>7, <1>9, <2>2 DEF Sound, SoundSimple
  <2>3. CASE ref \in [form : {"generic"}, template : DOMAIN program.templates, of : open]
    <3>1. ref.form = "generic" /\ ref.template \in DOMAIN program.templates /\ ref.of \in open
      BY <2>3
    <3>2. ref.of \in simple
      BY <1>7, <1>9, <3>1 DEF Sound, SoundSimple
    <3> QED BY <1>2, <1>5, <1>6, <1>9, <3>1, <3>2
  <2> QED BY <1>4, <2>1, <2>2, <2>3
<1>10. ASSUME NEW n \in DOMAIN made, w = Substituted(ref, made[n].of), w # ref
       PROVE  IF w.form = "generic" THEN w.template \in DOMAIN program.templates /\ Clear(w.of) ELSE Clear(w)
  <2>1. PICK arg : arg = made[n].of
    OBVIOUS
  <2>2. Basic(arg)
    BY <2>1 DEF MadeAsWritten
  <2>3. PICK bound : bound = [form |-> "ir", type |-> arg]
    OBVIOUS
  <2>4. Clear(bound)
    BY <2>2, <2>3 DEF Clear
  <2>5. \/ ref.form = "var" /\ w = bound
        \/ ref.form = "generic" /\ ref.of.form = "var" /\ w = [ref EXCEPT !.of = bound]
    BY <1>10, <2>1, <2>3 DEF Substituted
  <2>6. CASE w = bound
    BY <2>3, <2>4, <2>6
  <2>7. CASE ref.form = "generic" /\ w = [ref EXCEPT !.of = bound]
    <3>1. ref \in [form : {"generic"}, template : DOMAIN program.templates, of : open]
      BY <1>4, <2>7
    <3>2. w.form = "generic" /\ w.template = ref.template /\ w.of = bound /\ ref.template \in DOMAIN program.templates
      BY <2>7, <3>1
    <3> QED BY <2>4, <3>2
  <2> QED BY <2>5, <2>6, <2>7
<1> QED BY <1>2, <1>8, <1>9, <1>10

\* What a reference was written for stays the same, whatever types are made.
LEMMA PromiseStays ==
  ASSUME Ground, Grown, NEW f \in DOMAIN holds, NEW w, w = Written(f)
  PROVE  /\ Written(f)' = w
         /\ PromisedName(Written(f))' = PromisedName(w)
         /\ Meant(Written(f))' = Meant(w) /\ (Basic(Meant(Written(f)))' <=> Basic(Meant(w)))
         /\ Meant(Written(f).of)' = Meant(w.of)
<1>1. Written(f)' = w
  BY WrittenStays
<1>2. program' = program
  BY DEF Grown
<1>3. /\ \A ref : Meant(ref)' = Meant(ref) /\ PromisedName(ref)' = PromisedName(ref)
      /\ \A t : Basic(t)' <=> Basic(t)
  BY <1>2, StaticStays
<1>4. Meant(Written(f))' = Meant(w)' /\ Meant(Written(f).of)' = Meant(w.of)'
  BY <1>1 DEF Meant
<1>5. PromisedName(Written(f))' = PromisedName(w)'
  BY <1>1, <1>4 DEF PromisedName, NameOf
<1>6. PICK t : t = Meant(w)
  OBVIOUS
<1>7. Basic(Meant(Written(f)))' <=> Basic(t)'
  BY <1>3, <1>4, <1>6 DEF Basic
<1> QED BY <1>1, <1>3, <1>4, <1>5, <1>6, <1>7

LEMMA BecomesDone ==
  ASSUME Ground, Grown, NEW f \in DOMAIN holds, NEW w, w = Written(f), holds'[f].form = "ir",
         IF w.form = "generic" THEN PromisedName(w) \in DOMAIN made' /\ holds'[f].type = Made(PromisedName(w))
         ELSE Basic(Meant(w)) /\ holds'[f].type = Meant(w)
  PROVE  Done(f)'
<1>1. /\ Written(f)' = w /\ PromisedName(Written(f))' = PromisedName(w)
      /\ Meant(Written(f))' = Meant(w) /\ (Basic(Meant(Written(f)))' <=> Basic(Meant(w)))
  BY PromiseStays
<1>2. Made(PromisedName(Written(f)))' = Made(PromisedName(w))
  BY <1>1 DEF Made
<1> QED BY <1>1, <1>2 DEF Done

LEMMA DoneStays ==
  ASSUME Ground, Grown, NEW f \in DOMAIN holds, holds'[f] = holds[f], Done(f)
  PROVE  Done(f)'
<1>1. PICK w : w = Written(f)
  OBVIOUS
<1>2. /\ holds[f].form = "ir"
      /\ IF w.form = "generic" THEN PromisedName(w) \in DOMAIN made /\ holds[f].type = Made(PromisedName(w))
         ELSE Basic(Meant(w)) /\ holds[f].type = Meant(w)
  BY <1>1 DEF Done
<1>3. DOMAIN made \subseteq DOMAIN made'
  BY DEF Grown
<1> QED BY <1>1, <1>2, <1>3, BecomesDone

\* Steps that leave what is held, or add to it.
Widened ==
  /\ Ground /\ Grown /\ Seen \subseteq ValidTypes /\ Seen \subseteq Seen' /\ DOMAIN holds \subseteq DOMAIN holds'

LEMMA GenericStays ==
  ASSUME Widened, NEW f \in DOMAIN holds, GenericPlaced(f), NEW w, w = Written(f)
  PROVE  /\ GenericPlaced(f)' /\ PromisedName(Written(f))' = PromisedName(w)
         /\ Written(f)' = w /\ Meant(Written(f).of)' = Meant(w.of)
<1>1. Placed(f)'
  BY PlacedStays DEF Widened, GenericPlaced
<1>2. /\ Written(f)' = w /\ PromisedName(Written(f))' = PromisedName(w) /\ Meant(Written(f).of)' = Meant(w.of)
  BY PromiseStays DEF Widened
<1> QED BY <1>1, <1>2 DEF GenericPlaced

LEMMA AmbiguousStays ==
  ASSUME Widened, Ambiguous
  PROVE  Ambiguous'
<1>1. PICK f \in DOMAIN holds : GenericPlaced(f) /\ PromisedName(Written(f)) \in Taken
  BY DEF Ambiguous
<1>2. GenericPlaced(f)' /\ PromisedName(Written(f))' = PromisedName(Written(f))
  BY <1>1, GenericStays
<1>3. Taken' = Taken
  BY StaticStays DEF Widened, Grown
<1>4. f \in DOMAIN holds'
  BY DEF Widened
<1> QED BY <1>1, <1>2, <1>3, <1>4 DEF Ambiguous

\* What was made before a step stays as it was written.
LEMMA MadeStaysWritten ==
  ASSUME Widened, MadeAsWritten, NEW n \in DOMAIN made
  PROVE  /\ n \notin Taken' /\ Basic(made[n].of)'
         /\ \E f \in DOMAIN holds' :
              /\ GenericPlaced(f)' /\ PromisedName(Written(f))' = n
              /\ Written(f)'.template = made'[n].template /\ Meant(Written(f).of)' = made'[n].of
<1>1. PICK arg : arg = made[n].of
  OBVIOUS
<1>2. made'[n] = made[n] /\ program' = program
  BY DEF Widened, Grown
<1>3. n \notin Taken' /\ (Basic(arg)' <=> Basic(arg))
  BY <1>2, StaticStays DEF MadeAsWritten
<1>4. Basic(made[n].of)' <=> Basic(arg)'
  BY <1>1, <1>2 DEF Basic
<1>5. Basic(arg)
  BY <1>1 DEF MadeAsWritten
<1>6. PICK f \in DOMAIN holds :
        /\ GenericPlaced(f) /\ PromisedName(Written(f)) = n
        /\ Written(f).template = made[n].template /\ Meant(Written(f).of) = made[n].of
  BY DEF MadeAsWritten
<1>7. PICK w : w = Written(f)
  OBVIOUS
<1>8. /\ GenericPlaced(f)' /\ PromisedName(Written(f))' = PromisedName(w)
      /\ Written(f)' = w /\ Meant(Written(f).of)' = Meant(w.of)
  BY <1>6, <1>7, GenericStays
<1>9. f \in DOMAIN holds'
  BY DEF Widened
<1> QED BY <1>2, <1>3, <1>4, <1>5, <1>6, <1>7, <1>8, <1>9

\* The steps that resolve no reference.
LEMMA QuietKeeps ==
  ASSUME Ground, Seen \subseteq ValidTypes, Seen \subseteq Seen', UNCHANGED <<program, names, made, holds>>
  PROVE  /\ NamesAreTables => NamesAreTables'
         /\ Ambiguous => Ambiguous'
         /\ MadeAsWritten => MadeAsWritten'
         /\ HeldAsWritten => HeldAsWritten'
         /\ \A f \in DOMAIN holds : Done(f) => Done(f)'
<1>1. Widened
  BY GroundUnchanged DEF Widened
<1>2. ASSUME NamesAreTables PROVE NamesAreTables'
  <2>1. \A n : OfName(n)' = OfName(n) /\ LastRegistered(OfName(n))' = LastRegistered(OfName(n))
    BY StaticStays
  <2> QED BY <1>2, <2>1 DEF NamesAreTables, Made
<1>3. ASSUME MadeAsWritten PROVE MadeAsWritten'
  <2>1. DOMAIN made' = DOMAIN made
    OBVIOUS
  <2>2. ASSUME NEW n \in DOMAIN made
        PROVE  /\ n \notin Taken' /\ Basic(made[n].of)'
               /\ \E f \in DOMAIN holds' :
                    /\ GenericPlaced(f)' /\ PromisedName(Written(f))' = n
                    /\ Written(f)'.template = made'[n].template /\ Meant(Written(f).of)' = made'[n].of
    BY <1>1, <1>3, MadeStaysWritten
  <2> QED BY <2>1, <2>2 DEF MadeAsWritten
<1>4. ASSUME NEW f \in DOMAIN holds, Done(f) PROVE Done(f)'
  BY <1>1, <1>4, DoneStays DEF Widened
<1>5. ASSUME HeldAsWritten PROVE HeldAsWritten'
  <2>1. ASSUME NEW f \in DOMAIN holds PROVE holds'[f] = Written(f)' \/ Done(f)'
    <3>1. Written(f)' = Written(f)
      BY <1>1, WrittenStays DEF Widened
    <3> QED BY <1>4, <1>5, <3>1 DEF HeldAsWritten
  <2> QED BY <2>1 DEF HeldAsWritten
<1> QED BY <1>1, <1>2, <1>3, <1>4, <1>5, AmbiguousStays

\* A reference gets the type it was written for, and keeps it when it is shared by
\* another field and resolved again.
LEMMA SimpleKeeps ==
  ASSUME WalkInv, NamesAreTables, MadeAsWritten, HeldAsWritten, ResolveSimple, stage' # "refused",
         NEW f, f = Head(stack).on
  PROVE  /\ Done(f)' /\ MadeAsWritten' /\ HeldAsWritten'
         /\ \A g \in DOMAIN holds : Done(g) => Done(g)'
<1>1. PICK w : w = Written(f)
  OBVIOUS
<1>2. /\ stage = "walking" /\ stack # <<>> /\ Head(stack).do # "visit" /\ holds[f].form # "generic"
  BY DEF ResolveSimple, Due
<1>3. f \in Slots /\ Ground /\ Seen \subseteq ValidTypes /\ f \in DOMAIN holds
  BY <1>2, HeadIsPlaced, FoundAreValid DEF WalkInv, Slots
<1>4. PICK t : t = Simple(holds[f])
  OBVIOUS
<1>5. /\ t # Unknown /\ holds' = [holds EXCEPT ![f] = [form |-> "ir", type |-> t]]
      /\ UNCHANGED <<program, names, made, byName>>
  BY <1>4 DEF ResolveSimple, Refuse
<1>6. Widened
  <2>1. Grown /\ Seen' = Seen
    BY <1>5 DEF Grown, Seen
  <2> QED BY <1>3, <1>5, <2>1 DEF Widened
<1>7. holds'[f].form = "ir" /\ holds'[f].type = t
  BY <1>3, <1>5
<1>8. Done(f)'
  <2>1. CASE holds[f] = w
    <3>1. w.form # "generic" /\ Clear(w)
      BY <1>1, <1>2, <1>3, <2>1, WrittenIsClear
    <3>2. t = Meant(w) /\ Basic(Meant(w))
      BY <1>3, <1>4, <1>5, <2>1, <3>1, SimpleIsMeant DEF Ground
    <3> QED BY <1>1, <1>3, <1>6, <1>7, <3>1, <3>2, BecomesDone DEF Widened
  <2>2. CASE holds[f] # w /\ w.form = "generic"
    <3>1. PICK p : p = PromisedName(w)
      OBVIOUS
    <3>2. holds[f].form = "ir" /\ p \in DOMAIN made /\ holds[f].type = Made(p)
      BY <1>1, <1>3, <2>2, <3>1 DEF HeldAsWritten, Done
    <3>3. IsNamed(Made(p)) /\ NameOf(Made(p)) = p
      BY DEF IsNamed, NameOf, Made
    <3>4. p \in DOMAIN names /\ names[p] = Made(p)
      BY <3>2 DEF NamesAreTables
    <3>5. t = Made(p)
      BY <1>4, <3>2, <3>3, <3>4 DEF Simple, Final
    <3>6. p \in DOMAIN made'
      BY <1>5, <3>2
    <3> QED BY <1>1, <1>3, <1>6, <1>7, <2>2, <3>1, <3>5, <3>6, BecomesDone DEF Widened
  <2>3. CASE holds[f] # w /\ w.form # "generic"
    <3>1. holds[f].form = "ir" /\ Basic(Meant(w)) /\ holds[f].type = Meant(w)
      BY <1>1, <1>3, <2>3 DEF HeldAsWritten, Done
    <3>2. PICK u : u = IF w.form = "ir" THEN w.type ELSE NamedBy(w.class)
      OBVIOUS
    <3>3. Meant(w) = Replacement(u) /\ WellDeclared(program)
      BY <1>3, <3>2 DEF Meant, Ground
    <3>4. t = Final(Meant(w))
      BY <1>4, <3>1 DEF Simple
    <3>5. t = Meant(w)
      BY <3>1, <3>3, <3>4, FinalIsReplacement, ReplacedOnce
    <3> QED BY <1>1, <1>3, <1>6, <1>7, <2>3, <3>1, <3>5, BecomesDone DEF Widened
  <2> QED BY <2>1, <2>2, <2>3
<1>9. ASSUME NEW g \in DOMAIN holds, Done(g) PROVE Done(g)'
  <2>1. CASE g = f
    BY <1>8, <2>1
  <2>2. CASE g # f
    <3>1. holds'[g] = holds[g]
      BY <1>5, <2>2
    <3> QED BY <1>6, <1>9, <3>1, DoneStays DEF Widened
  <2> QED BY <2>1, <2>2
<1>10. HeldAsWritten'
  <2>1. ASSUME NEW g \in DOMAIN holds PROVE holds'[g] = Written(g)' \/ Done(g)'
    <3>1. CASE g = f
      BY <1>8, <3>1
    <3>2. CASE g # f
      <4>1. holds'[g] = holds[g] /\ Written(g)' = Written(g)
        BY <1>5, <1>6, <3>2, WrittenStays DEF Widened
      <4> QED BY <1>9, <4>1 DEF HeldAsWritten
    <3> QED BY <3>1, <3>2
  <2>2. DOMAIN holds' = DOMAIN holds
    BY <1>5
  <2> QED BY <2>1, <2>2 DEF HeldAsWritten
<1>11. MadeAsWritten'
  <2>1. DOMAIN made' = DOMAIN made
    BY <1>5
  <2>2. ASSUME NEW n \in DOMAIN made
        PROVE  /\ n \notin Taken' /\ Basic(made[n].of)'
               /\ \E g \in DOMAIN holds' :
                    /\ GenericPlaced(g)' /\ PromisedName(Written(g))' = n
                    /\ Written(g)'.template = made'[n].template /\ Meant(Written(g).of)' = made'[n].of
    BY <1>6, MadeStaysWritten
  <2> QED BY <2>1, <2>2 DEF MadeAsWritten
<1> QED BY <1>8, <1>9, <1>10, <1>11

LEMMA TablesStay ==
  ASSUME NamesAreTables, program' = program,
         \/ UNCHANGED <<names, made>>
         \/ \E n, type : /\ n \notin DOMAIN names
                         /\ made' = With(made, n, type) /\ names' = With(names, n, Made(n))
  PROVE  NamesAreTables'
<1>1. \A n : OfName(n)' = OfName(n) /\ LastRegistered(OfName(n))' = LastRegistered(OfName(n)) /\ Made(n)' = Made(n)
  BY StaticStays DEF Made
<1>2. CASE UNCHANGED <<names, made>>
  BY <1>1, <1>2 DEF NamesAreTables
<1>3. ASSUME NEW n, NEW type, n \notin DOMAIN names,
             made' = With(made, n, type), names' = With(names, n, Made(n))
      PROVE  NamesAreTables'
  <2>1. /\ DOMAIN made' = DOMAIN made \cup {n} /\ DOMAIN names' = DOMAIN names \cup {n}
        /\ names'[n] = Made(n) /\ \A m \in DOMAIN names : names'[m] = names[m]
    BY <1>3 DEF With
  <2>2. ASSUME NEW m PROVE m \in DOMAIN names' <=> OfName(m) # {} \/ m \in DOMAIN made'
    BY <2>1 DEF NamesAreTables
  <2>3. ASSUME NEW m \in DOMAIN names' PROVE names'[m] = IF m \in DOMAIN made' THEN Made(m) ELSE LastRegistered(OfName(m))
    <3>1. CASE m = n
      BY <2>1, <3>1
    <3>2. CASE m # n
      <4>1. m \in DOMAIN names /\ names'[m] = names[m] /\ (m \in DOMAIN made' <=> m \in DOMAIN made)
        BY <2>1, <3>2
      <4> QED BY <4>1 DEF NamesAreTables
    <3> QED BY <3>1, <3>2
  <2> QED BY <1>1, <2>2, <2>3 DEF NamesAreTables
<1> QED BY <1>2, <1>3

\* Template[A] gets the type made for it, which may have to be made first.
LEMMA GenericKeeps ==
  ASSUME WalkInv, NamesAreTables, ~Ambiguous, MadeAsWritten, HeldAsWritten, ResolveGeneric,
         stage' # "refused", NEW f, f = Head(stack).on
  PROVE  /\ Done(f)' /\ MadeAsWritten' /\ HeldAsWritten'
         /\ \A g \in DOMAIN holds : Done(g) => Done(g)'
<1>1. PICK w : w = Written(f)
  OBVIOUS
<1>2. /\ stage = "walking" /\ stack # <<>> /\ Head(stack).do # "visit" /\ holds[f].form = "generic"
  BY DEF ResolveGeneric, Due
<1>3. f \in Slots /\ Ground /\ Seen \subseteq ValidTypes /\ f \in DOMAIN holds /\ Placed(f)
  BY <1>2, HeadIsPlaced, FoundAreValid DEF WalkInv, Slots
<1>4. holds[f] = w /\ w.form = "generic"
  <2>1. holds[f] = w \/ Done(f)
    BY <1>1, <1>3 DEF HeldAsWritten
  <2>2. ~Done(f)
    BY <1>2 DEF Done
  <2> QED BY <1>2, <2>1, <2>2
<1>5. GenericPlaced(f)
  BY <1>1, <1>3, <1>4 DEF GenericPlaced
<1>6. w.template \in DOMAIN program.templates /\ Clear(w.of)
  BY <1>1, <1>3, <1>4, WrittenIsClear
<1>7. PICK arg : arg = Simple(w.of)
  OBVIOUS
<1>8. PICK n : n = PromisedName(w)
  OBVIOUS
<1>9. arg = Meant(w.of) /\ (arg # Unknown => Basic(arg))
  BY <1>3, <1>6, <1>7, SimpleIsMeant DEF Ground
<1>10. GenericName(w.template, arg) = n
  BY <1>8, <1>9 DEF GenericName, PromisedName
<1>11. PICK own : own = {<<n>>} \X TemplateFields(w.template)
  OBVIOUS
<1>12. PICK kept : kept = [holds EXCEPT ![f] = [form |-> "ir", type |-> IF n \in DOMAIN names THEN names[n] ELSE Made(n)]]
  OBVIOUS
<1>13. /\ arg # Unknown /\ UNCHANGED <<program, byName, typeMap, stage>>
       /\ IF n \in DOMAIN names
          THEN holds' = kept /\ UNCHANGED <<names, made>>
          ELSE /\ made' = With(made, n, Concrete(n, w.template, arg))
               /\ names' = With(names, n, Made(n))
               /\ holds' = [s \in DOMAIN holds \cup own |->
                              IF s \in own THEN Substituted(program.fields[s[2]].ref, arg) ELSE kept[s]]
  BY <1>4, <1>7, <1>10, <1>11, <1>12 DEF ResolveGeneric, Refuse
<1>14. n \notin Taken
  BY <1>1, <1>3, <1>5, <1>8 DEF Ambiguous
<1>15. n \in DOMAIN names => n \in DOMAIN made /\ names[n] = Made(n)
  <2>1. ASSUME OfName(n) # {} PROVE FALSE
    <3>1. PICK i \in DOMAIN program.registered : program.types[program.registered[i]].name = n
      BY <2>1 DEF OfName
    <3>2. program.registered \in Seq(DOMAIN program.types)
      BY <1>3 DEF Ground, WellDeclared
    <3>3. program.registered[i] \in DOMAIN program.types
      BY <3>1, <3>2
    <3>4. n \in Taken
      BY <3>1, <3>3 DEF Taken
    <3> QED BY <1>14, <3>4
  <2> QED BY <2>1 DEF NamesAreTables
<1>16. DOMAIN made \subseteq DOMAIN names
  BY <1>3 DEF Ground, SoundNames
<1>17. own \cap DOMAIN holds = {} \/ n \in DOMAIN names
  <2>1. ASSUME NEW s \in own, s \in DOMAIN holds, n \notin DOMAIN names PROVE FALSE
    <3>1. s[1] = <<n>> /\ <<n>> # <<>>
      BY <1>11
    <3>2. PICK m \in DOMAIN made : s[1] = <<m>>
      BY <1>3, <2>1, <3>1 DEF Ground, SoundOwners
    <3> QED BY <1>16, <2>1, <3>1, <3>2
  <2> QED BY <2>1
<1>18. /\ DOMAIN made' = DOMAIN made \cup {n} /\ \A m \in DOMAIN made : made'[m] = made[m]
       /\ n \notin DOMAIN made => made'[n].template = w.template /\ made'[n].of = arg
  <2>1. CASE n \in DOMAIN names
    BY <1>13, <1>15, <2>1
  <2>2. CASE n \notin DOMAIN names
    <3>1. PICK type : type = Concrete(n, w.template, arg)
      OBVIOUS
    <3>2. type.template = w.template /\ type.of = arg
      BY <3>1 DEF Concrete
    <3>3. made' = With(made, n, type) /\ n \notin DOMAIN made
      BY <1>13, <1>16, <2>2, <3>1
    <3> QED BY <3>2, <3>3 DEF With
  <2> QED BY <2>1, <2>2
<1>19. /\ holds'[f] = [form |-> "ir", type |-> Made(n)]
       /\ \A g \in DOMAIN holds \ {f} : holds'[g] = holds[g]
       /\ DOMAIN holds \subseteq DOMAIN holds'
       /\ \A s \in DOMAIN holds' \ DOMAIN holds :
            n \notin DOMAIN made /\ s[1] = <<n>> /\ holds'[s] = Substituted(program.fields[s[2]].ref, arg)
  <2>1. kept[f] = [form |-> "ir", type |-> Made(n)] /\ DOMAIN kept = DOMAIN holds /\ \A g \in DOMAIN holds \ {f} : kept[g] = holds[g]
    BY <1>3, <1>12, <1>15
  <2>2. CASE n \in DOMAIN names
    BY <1>3, <1>13, <2>1, <2>2
  <2>3. CASE n \notin DOMAIN names
    <3>1. \A s \in own : s[1] = <<n>>
      BY <1>11
    <3> QED BY <1>3, <1>13, <1>16, <1>17, <2>1, <2>3, <3>1
  <2> QED BY <2>2, <2>3
<1>20. Widened
  <2>1. Grown /\ Seen' = Seen
    BY <1>13, <1>18 DEF Grown, Seen
  <2> QED BY <1>3, <1>19, <2>1 DEF Widened
<1>21. Done(f)'
  BY <1>1, <1>3, <1>4, <1>8, <1>18, <1>19, <1>20, BecomesDone DEF Widened
<1>22. ASSUME NEW g \in DOMAIN holds, Done(g) PROVE Done(g)'
  <2>1. CASE g = f
    BY <1>21, <2>1
  <2>2. CASE g # f
    <3>1. holds'[g] = holds[g]
      BY <1>19, <2>2
    <3> QED BY <1>20, <1>22, <3>1, DoneStays DEF Widened
  <2> QED BY <2>1, <2>2
<1>23. HeldAsWritten'
  <2>1. ASSUME NEW g \in DOMAIN holds PROVE holds'[g] = Written(g)' \/ Done(g)'
    <3>1. CASE g = f
      BY <1>21, <3>1
    <3>2. CASE g # f
      <4>1. holds'[g] = holds[g] /\ Written(g)' = Written(g)
        BY <1>19, <1>20, <3>2, WrittenStays DEF Widened
      <4> QED BY <1>22, <4>1 DEF HeldAsWritten
    <3> QED BY <3>1, <3>2
  <2>2. ASSUME NEW s \in DOMAIN holds' \ DOMAIN holds PROVE holds'[s] = Written(s)'
    <3>1. n \notin DOMAIN made /\ s[1] = <<n>> /\ holds'[s] = Substituted(program.fields[s[2]].ref, arg)
      BY <1>19
    <3>2. s[1] # <<>> /\ s[1][1] = n
      BY <3>1
    <3>3. made'[s[1][1]].of = arg
      BY <1>18, <3>1, <3>2
    <3>4. Written(s)' = Substituted(program.fields[s[2]].ref, arg)
      BY <1>13, <3>2, <3>3 DEF Written, Substituted
    <3> QED BY <3>1, <3>4
  <2> QED BY <2>1, <2>2 DEF HeldAsWritten
<1>24. MadeAsWritten'
  <2>1. ASSUME NEW m \in DOMAIN made
        PROVE  /\ m \notin Taken' /\ Basic(made[m].of)'
               /\ \E g \in DOMAIN holds' :
                    /\ GenericPlaced(g)' /\ PromisedName(Written(g))' = m
                    /\ Written(g)'.template = made'[m].template /\ Meant(Written(g).of)' = made'[m].of
    BY <1>20, MadeStaysWritten
  <2>2. ASSUME n \notin DOMAIN made
        PROVE  /\ n \notin Taken' /\ Basic(made[n].of)'
               /\ \E g \in DOMAIN holds' :
                    /\ GenericPlaced(g)' /\ PromisedName(Written(g))' = n
                    /\ Written(g)'.template = made'[n].template /\ Meant(Written(g).of)' = made'[n].of
    <3>1. Taken' = Taken /\ (Basic(arg)' <=> Basic(arg))
      BY <1>13, StaticStays
    <3>2. made'[n].template = w.template /\ made'[n].of = arg
      BY <1>18, <2>2
    <3>3. Basic(made[n].of)' <=> Basic(arg)'
      BY <3>2 DEF Basic
    <3>4. /\ GenericPlaced(f)' /\ PromisedName(Written(f))' = n
          /\ Written(f)' = w /\ Meant(Written(f).of)' = arg
      BY <1>1, <1>3, <1>5, <1>8, <1>9, <1>20, GenericStays
    <3>5. f \in DOMAIN holds'
      BY <1>3, <1>19
    <3> QED BY <1>9, <1>13, <1>14, <3>1, <3>2, <3>3, <3>4, <3>5
  <2> QED BY <1>18, <2>1, <2>2 DEF MadeAsWritten
<1> QED BY <1>21, <1>22, <1>23, <1>24

\* In the first walk, a reference waits or became what it was written for; then its
\* arguments wait or did too.
LEMMA TurnedMoves ==
  ASSUME Ground, Grown, Seen \subseteq ValidTypes, Turned, stage = "walking", stage' = "walking",
         \A f \in DOMAIN holds : Done(f) => Done(f)',
         \A f \in Slots : Awaits({"field", "member"}, f) =>
           Awaits({"field", "member"}, f)' \/ (Done(f)' /\ \A a \in Args(f) : Awaits({"field", "member"}, a)'),
         \A t \in Seen' \ Seen : \A f \in Fields(t)' : Awaits({"field", "member"}, f)'
  PROVE  Turned'
<1>1. ASSUME NEW f \in Slots, Comes(f) PROVE Comes(f)'
  BY <1>1 DEF Comes, Slots
<1>2. ASSUME NEW t \in Seen, NEW f \in Fields(t)
      PROVE  Awaits({"field", "member"}, f)' \/ (Done(f)' /\ \A a \in Args(f)' : Comes(a)')
  <2>1. f \in Slots /\ f \in DOMAIN holds
    BY ShapeOfType, ShapeOfSlot
  <2>2. Args(f)' = Args(f) /\ Args(f) \subseteq Slots
    BY <2>1, SameShapes, ShapeOfSlot
  <2>3. CASE Awaits({"field", "member"}, f)
    BY <2>1, <2>2, <2>3 DEF Comes
  <2>4. CASE Done(f) /\ \A a \in Args(f) : Comes(a)
    BY <1>1, <2>1, <2>2, <2>4
  <2> QED BY <2>3, <2>4 DEF Turned
<1>3. ASSUME NEW t \in Seen', NEW f \in Fields(t)'
      PROVE  Awaits({"field", "member"}, f)' \/ (Done(f)' /\ \A a \in Args(f)' : Comes(a)')
  <2>1. CASE t \in Seen
    <3>1. Fields(t)' = Fields(t)
      BY <2>1, SameShapes
    <3> QED BY <1>2, <2>1, <3>1
  <2>2. CASE t \notin Seen
    BY <2>2
  <2> QED BY <2>1, <2>2
<1> QED BY <1>3 DEF Turned

LEMMA VisitTurns ==
  ASSUME WalkInv, Turned, Visit, \A f \in DOMAIN holds : Done(f) => Done(f)'
  PROVE  Turned'
<1>1. PICK t : t = Head(stack).on
  OBVIOUS
<1>2. PICK n : n = NameOf(t)
  OBVIOUS
<1>3. stage = "walking" /\ stack # <<>> /\ Head(stack).do = "visit"
  BY DEF Visit, Due
<1>4. Ground /\ Seen \subseteq ValidTypes /\ stack \in Seq(Waiting)
  BY <1>3, FoundAreValid DEF WalkInv
<1>5. t \in ValidTypes
  <2>1. Head(stack) \in Waiting
    BY <1>3, <1>4
  <2> QED BY <1>1, <1>3, <2>1 DEF WalkInv, WalkTask
<1>6. CASE n \in DOMAIN byName /\ byName[n] # t
  <2>1. stage' = "refused" /\ byName' = byName
    BY <1>1, <1>2, <1>6 DEF Visit, Refuse
  <2> QED BY <2>1 DEF Turned, Seen
<1>7. CASE n \in DOMAIN byName /\ byName[n] = t
  <2>1. stack' = Tail(stack) /\ UNCHANGED <<program, names, made, holds, byName, typeMap, stage>>
    BY <1>1, <1>2, <1>7 DEF Visit
  <2>2. Grown /\ Seen' = Seen
    BY <1>4, <2>1, GroundUnchanged DEF Seen
  <2>3. \A dos, x : Awaits(dos, x) => Awaits(dos, x)' \/ (Head(stack).do \in dos /\ Head(stack).on = x)
    BY <1>3, <1>4, <2>1, StackPops
  <2>4. \A f : Awaits({"field", "member"}, f) => Awaits({"field", "member"}, f)'
    BY <1>3, <2>3
  <2> QED BY <1>3, <1>4, <2>1, <2>2, <2>4, TurnedMoves
<1>8. CASE n \notin DOMAIN byName
  <2>1. /\ byName' = With(byName, n, t) /\ stack' = TypeTasks(t) \o Tail(stack)
        /\ UNCHANGED <<program, names, made, holds, typeMap, stage>>
    BY <1>1, <1>2, <1>8 DEF Visit
  <2>2. Grown
    BY <1>4, <2>1, GroundUnchanged
  <2>3. PICK do \in {"field", "member"} :
          /\ TypeTasks(t) \in Seq(Elements(TypeTasks(t)))
          /\ Elements(TypeTasks(t)) = {Task("visit", u) : u \in Interfaces(t)} \cup {Task(do, f) : f \in Fields(t)}
    BY <1>4, <1>5, WorkOfType
  <2>4. /\ Elements(TypeTasks(t)) \subseteq Waiting'
        /\ \A dos, x : Awaits(dos, x) => Awaits(dos, x)' \/ (Head(stack).do \in dos /\ Head(stack).on = x)
    BY <1>3, <1>4, <2>1, <2>3, StackMoves
  <2>5. /\ DOMAIN byName' = DOMAIN byName \cup {n} /\ byName'[n] = t
        /\ \A m \in DOMAIN byName : byName'[m] = byName[m]
    BY <1>8, <2>1 DEF With
  <2>6. Seen' = Seen \cup {t}
    BY <2>5 DEF Seen
  <2>7. \A f : Awaits({"field", "member"}, f) => Awaits({"field", "member"}, f)'
    BY <1>3, <2>4
  <2>8. Fields(t)' = Fields(t)
    BY <1>5, <2>2, SameShapes
  <2>9. ASSUME NEW f \in Fields(t) PROVE Awaits({"field", "member"}, f)'
    <3>1. Task(do, f) \in Waiting'
      BY <2>3, <2>4
    <3> QED BY <3>1 DEF Awaits, Task
  <2>10. ASSUME NEW u \in Seen' \ Seen, NEW f \in Fields(u)' PROVE Awaits({"field", "member"}, f)'
    <3>1. u = t
      BY <2>6
    <3>2. Fields(u)' = Fields(t)'
      BY <3>1 DEF Fields, FieldsOf, Elements, Declaration
    <3> QED BY <2>8, <2>9, <3>2
  <2> QED BY <1>3, <1>4, <2>1, <2>2, <2>6, <2>7, <2>10, TurnedMoves
<1> QED BY <1>6, <1>7, <1>8

LEMMA EnqueueTurns ==
  ASSUME WalkInv, Turned, Enqueue, \A f \in DOMAIN holds : Done(f) => Done(f)'
  PROVE  Turned'
<1>1. PICK t : t = holds[Head(stack).on].type
  OBVIOUS
<1>2. /\ stage = "walking" /\ stack # <<>> /\ Head(stack).do \in {"enqueue", "admit"}
      /\ UNCHANGED <<program, names, made, holds, byName, typeMap, stage>>
  BY DEF Enqueue, Due
<1>3. Ground /\ Seen \subseteq ValidTypes /\ stack \in Seq(Waiting)
  BY <1>2, FoundAreValid DEF WalkInv
<1>4. Grown /\ Seen' = Seen
  BY <1>2, <1>3, GroundUnchanged DEF Seen
<1>5. \A dos, x : Awaits(dos, x) => Awaits(dos, x)' \/ (Head(stack).do \in dos /\ Head(stack).on = x)
  <2>1. CASE IsNamed(t)
    <3>1. PICK new : new = <<Task("visit", t)>>
      OBVIOUS
    <3>2. stack' = new \o Tail(stack) /\ new \in Seq(Elements(new))
      BY <1>1, <2>1, <3>1, ElementsOfOne DEF Enqueue
    <3> QED BY <1>2, <1>3, <3>2, StackMoves
  <2>2. CASE ~IsNamed(t)
    <3>1. stack' = Tail(stack)
      BY <1>1, <2>2 DEF Enqueue
    <3> QED BY <1>2, <1>3, <3>1, StackPops
  <2> QED BY <2>1, <2>2
<1>6. \A f : Awaits({"field", "member"}, f) => Awaits({"field", "member"}, f)'
  BY <1>2, <1>5
<1> QED BY <1>2, <1>3, <1>4, <1>6, TurnedMoves

LEMMA ResolveTurns ==
  ASSUME WalkInv, Turned, ResolveSimple \/ ResolveGeneric, stage' # "refused",
         NEW f, f = Head(stack).on, Done(f)', \A g \in DOMAIN holds : Done(g) => Done(g)'
  PROVE  Turned'
<1>1. stage = "walking" /\ stack # <<>> /\ Head(stack).do \in {"field", "member"}
  BY DEF ResolveSimple, ResolveGeneric, Due
<1>2. /\ f \in Slots /\ Ground /\ Seen \subseteq ValidTypes /\ stack \in Seq(Waiting)
      /\ Head(stack).do = "member" => Args(f) = {}
  BY <1>1, HeadIsPlaced, FoundAreValid DEF WalkInv
<1>3. /\ Resolved(f) /\ stack' = Remaining(Head(stack)) \o Tail(stack)
      /\ UNCHANGED <<program, byName, typeMap, stage>>
  BY <1>2, SimpleIsResolved, GenericIsResolved
<1>4. Grown /\ Seen' = Seen
  BY <1>3 DEF Resolved, Improved, Seen
<1>5. PICK do \in {"enqueue", "admit"} :
        /\ Remaining(Head(stack)) \in Seq(Elements(Remaining(Head(stack))))
        /\ Elements(Remaining(Head(stack))) = {Task("field", a) : a \in Args(f)} \cup {Task(do, f)}
  BY <1>1, <1>2, WorkOfReference
<1>6. /\ Elements(Remaining(Head(stack))) \subseteq Waiting'
      /\ \A dos, x : Awaits(dos, x) => Awaits(dos, x)' \/ (Head(stack).do \in dos /\ Head(stack).on = x)
  BY <1>1, <1>2, <1>3, <1>5, StackMoves
<1>7. ASSUME NEW a \in Args(f) PROVE Awaits({"field", "member"}, a)'
  <2>1. Task("field", a) \in Waiting'
    BY <1>5, <1>6
  <2> QED BY <2>1 DEF Awaits, Task
<1>8. ASSUME NEW g \in Slots, Awaits({"field", "member"}, g)
      PROVE  Awaits({"field", "member"}, g)' \/ (Done(g)' /\ \A a \in Args(g) : Awaits({"field", "member"}, a)')
  <2>1. CASE g = f
    <3>1. Done(g)' /\ Args(g) = Args(f)
      BY <2>1
    <3> QED BY <1>7, <3>1
  <2>2. CASE g # f
    BY <1>6, <1>8, <2>2
  <2> QED BY <2>1, <2>2
<1> QED BY <1>1, <1>2, <1>3, <1>4, <1>8, TurnedMoves

LEMMA OtherTurns ==
  ASSUME WalkInv, Turned, \A f \in DOMAIN holds : Done(f) => Done(f)',
         \/ Assemble \/ CollectType \/ CollectField \/ Finish \/ RefuseMember
         \/ UNCHANGED <<program, names, made, holds, stack, byName, typeMap, stage>>
  PROVE  Turned'
<1>1. /\ UNCHANGED <<program, names, made, holds, byName>>
      /\ stage' = "walking" => stage = "walking" /\ Waiting' = Waiting
      /\ stage' \in {"collecting", "built"} => stage \in {"collecting", "built"} \/ (stage = "walking" /\ stack = <<>>)
  BY DEF Assemble, CollectType, CollectField, Finish, RefuseMember, Refuse, Due, Waiting, Elements
<1>2. Ground /\ Grown /\ Seen \subseteq ValidTypes /\ Seen' = Seen
  BY <1>1, GroundUnchanged DEF WalkInv, Seen
<1>3. CASE stage' = "walking"
  <2>1. \A f : Awaits({"field", "member"}, f) => Awaits({"field", "member"}, f)'
    BY <1>1, <1>3 DEF Awaits
  <2> QED BY <1>1, <1>2, <1>3, <2>1, TurnedMoves
<1>4. CASE stage' \in {"collecting", "built"}
  <2>1. ASSUME NEW t \in Seen, NEW f \in ReferencesOf(t) PROVE Done(f)
    <3>1. CASE stage \in {"collecting", "built"}
      BY <2>1, <3>1 DEF Turned
    <3>2. CASE stage = "walking" /\ stack = <<>>
      <4>1. Waiting = {}
        BY <3>2, ElementsOfNone DEF Waiting
      <4>2. \A dos, x : ~Awaits(dos, x)
        BY <4>1 DEF Awaits
      <4>3. \A g \in Fields(t) : Done(g) /\ \A a \in Args(g) : Done(a)
        BY <3>2, <4>2 DEF Turned, Comes
      <4>4. f \in Fields(t) \/ \E g \in Fields(t) : f \in Args(g)
        BY <1>2, ShapeOfType
      <4> QED BY <4>3, <4>4
    <3> QED BY <1>1, <1>4, <3>1, <3>2
  <2>2. ASSUME NEW t \in Seen, NEW f \in ReferencesOf(t)' PROVE Done(f)'
    <3>1. ReferencesOf(t)' = ReferencesOf(t) /\ t \in ValidTypes
      BY <1>2, SameShapes
    <3>2. f \in DOMAIN holds
      BY <1>2, <3>1, ShapeOfReference DEF Slots
    <3> QED BY <2>1, <3>1, <3>2
  <2> QED BY <1>2, <1>4, <2>2 DEF Turned
<1> QED BY <1>3, <1>4 DEF Turned

LEMMA VisitWidens ==
  ASSUME Visit
  PROVE  Seen \subseteq Seen'
<1>1. PICK n : n = NameOf(Head(stack).on)
  OBVIOUS
<1>2. byName' = byName \/ (n \notin DOMAIN byName /\ byName' = With(byName, n, Head(stack).on))
  BY <1>1 DEF Visit, Refuse
<1>3. \A m \in DOMAIN byName : m \in DOMAIN byName' /\ byName'[m] = byName[m]
  BY <1>2 DEF With
<1> QED BY <1>3 DEF Seen

LEMMA MeaningStarts ==
  ASSUME BuilderInit
  PROVE  MeaningInv
<1>1. /\ made = <<>> /\ byName = <<>> /\ stage = "walking"
      /\ names = [n \in {t.name : t \in Registered} |-> LastRegistered(OfName(n))]
      /\ holds = [f \in {<<>>} \X DOMAIN program.fields |-> program.fields[f[2]].ref]
  BY DEF BuilderInit
<1>2. DOMAIN made = {} /\ DOMAIN byName = {}
  <2>1. DOMAIN <<>> = {}
    OBVIOUS
  <2> QED BY <1>1, <2>1
<1>3. NamesAreTables
  <2>1. ASSUME NEW n PROVE n \in DOMAIN names <=> OfName(n) # {}
    BY <1>1 DEF Registered, OfName
  <2> QED BY <1>1, <1>2, <2>1 DEF NamesAreTables
<1>4. HeldAsWritten
  <2>1. ASSUME NEW f \in DOMAIN holds PROVE holds[f] = Written(f)
    <3>1. f[1] = <<>> /\ holds[f] = program.fields[f[2]].ref
      BY <1>1
    <3> QED BY <3>1 DEF Written
  <2> QED BY <2>1 DEF HeldAsWritten
<1>5. MadeAsWritten /\ Turned
  BY <1>1, <1>2 DEF MadeAsWritten, Turned, Seen
<1> QED BY <1>3, <1>4, <1>5 DEF MeaningInv

LEMMA MeaningStays ==
  ASSUME WalkInv, MeaningInv, [BuilderNext]_builderVars
  PROVE  MeaningInv'
<1>1. Ground /\ Seen \subseteq ValidTypes /\ NamesAreTables
  BY DEF WalkInv, Seen, MeaningInv
<1>2. CASE ResolveSimple \/ ResolveGeneric
  <2>1. PICK f : f = Head(stack).on
    OBVIOUS
  <2>2. NamesAreTables'
    <3>1. CASE ResolveSimple
      <4>1. UNCHANGED <<program, names, made>>
        BY <3>1 DEF ResolveSimple, Refuse
      <4> QED BY <1>1, <4>1, TablesStay
    <3>2. CASE ResolveGeneric
      <4>1. /\ program' = program
            /\ \/ UNCHANGED <<names, made>>
               \/ \E n, type : /\ n \notin DOMAIN names
                               /\ made' = With(made, n, type) /\ names' = With(names, n, Made(n))
        BY <3>2 DEF ResolveGeneric, Refuse
      <4> QED BY <1>1, <4>1, TablesStay
    <3> QED BY <1>2, <3>1, <3>2
  <2>3. stage = "walking" /\ stack # <<>> /\ Head(stack).do # "visit" /\ byName' = byName
    BY <1>2 DEF ResolveSimple, ResolveGeneric, Due, Refuse
  <2>4. f \in Slots
    BY <2>1, <2>3, HeadIsPlaced
  <2>5. CASE stage' = "refused"
    <3>1. UNCHANGED <<program, names, made, holds, byName>>
      BY <1>2, <2>3, <2>5 DEF ResolveSimple, ResolveGeneric, Refuse
    <3>2. Seen' = Seen
      BY <3>1 DEF Seen
    <3>3. Turned'
      BY <2>5 DEF Turned
    <3> QED BY <1>1, <3>1, <3>2, <3>3, QuietKeeps DEF MeaningInv
  <2>6. CASE stage' # "refused" /\ Ambiguous
    <3>1. Resolved(f)
      BY <1>1, <1>2, <2>1, <2>4, <2>6, SimpleIsResolved, GenericIsResolved
    <3>2. Widened
      BY <1>1, <2>3, <3>1 DEF Widened, Resolved, Improved, Seen
    <3> QED BY <2>2, <2>6, <3>2, AmbiguousStays DEF MeaningInv
  <2>7. CASE stage' # "refused" /\ ~Ambiguous
    <3>1. MadeAsWritten /\ HeldAsWritten /\ Turned
      BY <2>7 DEF MeaningInv
    <3>2. Done(f)' /\ MadeAsWritten' /\ HeldAsWritten' /\ \A g \in DOMAIN holds : Done(g) => Done(g)'
      BY <1>1, <1>2, <2>1, <2>7, <3>1, SimpleKeeps, GenericKeeps
    <3>3. Turned'
      BY <1>2, <2>1, <2>7, <3>1, <3>2, ResolveTurns
    <3> QED BY <2>2, <3>2, <3>3 DEF MeaningInv
  <2> QED BY <2>5, <2>6, <2>7
<1>3. CASE Visit
  <2>1. UNCHANGED <<program, names, made, holds>>
    BY <1>3 DEF Visit, Refuse
  <2>2. \A f \in DOMAIN holds : Done(f) => Done(f)'
    BY <1>1, <2>1, DoneStays, GroundUnchanged
  <2>3. Seen \subseteq Seen'
    BY <1>3, VisitWidens
  <2>4. Turned => Turned'
    BY <1>3, <2>2, VisitTurns
  <2> QED BY <1>1, <2>1, <2>3, <2>4, QuietKeeps DEF MeaningInv
<1>4. ASSUME UNCHANGED <<program, names, made, holds, byName>>, Turned => Turned' PROVE MeaningInv'
  <2>1. Seen' = Seen
    BY <1>4 DEF Seen
  <2> QED BY <1>1, <1>4, <2>1, QuietKeeps DEF MeaningInv
<1>5. ASSUME UNCHANGED <<program, names, made, holds>> PROVE \A f \in DOMAIN holds : Done(f) => Done(f)'
  BY <1>1, <1>5, DoneStays, GroundUnchanged
<1>6. CASE Enqueue
  <2>1. UNCHANGED <<program, names, made, holds, byName>>
    BY <1>6 DEF Enqueue
  <2> QED BY <1>4, <1>5, <1>6, <2>1, EnqueueTurns
<1>7. CASE \/ Assemble \/ CollectType \/ CollectField \/ Finish \/ RefuseMember
           \/ UNCHANGED <<program, names, made, holds, stack, byName, typeMap, stage>>
  <2>1. UNCHANGED <<program, names, made, holds, byName>>
    BY <1>7 DEF Assemble, CollectType, CollectField, Finish, RefuseMember, Refuse
  <2> QED BY <1>4, <1>5, <1>7, <2>1, OtherTurns
<1> QED BY <1>2, <1>3, <1>6, <1>7 DEF BuilderNext, builderVars

\* Where names are distinct, every reference of a schema that is built became the type it
\* was written for: _resolve_ref, LazyRef and the cache of _synthesize_generic give a
\* shared or cyclic reference the same type however often and whenever it is resolved.
THEOREM MeaningsAreKept == BuilderSpec => []ReferencesKeepTheirMeaning
<1>1. BuilderInit => WalkInv /\ ReachInv /\ MeaningInv
  BY StartsWell, MeaningStarts
<1>2. (WalkInv /\ MeaningInv) /\ [BuilderNext]_builderVars => MeaningInv'
  BY MeaningStays
<1>3. ASSUME WalkInv, SchemaIsWhole, MeaningInv PROVE ReferencesKeepTheirMeaning
  <2>1. SUFFICES ASSUME stage = "built", NamesAreDistinct, NEW t \in Built, NEW f \in ReferencesOf(t)
        PROVE  LET written == Written(f)  got == holds[f].type IN
               IF written.form = "generic"
               THEN got[1] = "made" /\ made[got[2]].template = written.template /\ made[got[2]].of = Meant(written.of)
               ELSE got = Meant(written)
    BY DEF ReferencesKeepTheirMeaning
  <2>2. Built = Seen
    BY <1>3, <2>1 DEF SchemaIsWhole, Built, Seen
  <2>3. ASSUME NEW g, GenericPlaced(g)
        PROVE  Written(g) \in {Written(h) : h \in {i \in UNION {ReferencesOf(u) : u \in Built} : Written(i).form = "generic"}}
    BY <2>2, <2>3 DEF GenericPlaced, Placed
  <2>4. ~Ambiguous
    BY <2>1, <2>3 DEF Ambiguous, NamesAreDistinct
  <2>5. MadeAsWritten /\ Done(f)
    BY <1>3, <2>1, <2>2, <2>4 DEF MeaningInv, Turned
  <2>6. CASE Written(f).form = "generic"
    <3>1. PICK p : p = PromisedName(Written(f))
      OBVIOUS
    <3>2. p \in DOMAIN made /\ holds[f].type = Made(p)
      BY <2>5, <2>6, <3>1 DEF Done
    <3>3. holds[f].type[1] = "made" /\ holds[f].type[2] = p
      BY <3>2 DEF Made
    <3>4. PICK g \in DOMAIN holds :
            /\ GenericPlaced(g) /\ PromisedName(Written(g)) = p
            /\ Written(g).template = made[p].template /\ Meant(Written(g).of) = made[p].of
      BY <2>5, <3>2 DEF MadeAsWritten
    <3>5. GenericPlaced(f)
      BY <2>1, <2>2, <2>6 DEF GenericPlaced, Placed
    <3>6. Written(g).template = Written(f).template /\ Meant(Written(g).of) = Meant(Written(f).of)
      BY <2>1, <2>3, <3>1, <3>4, <3>5 DEF NamesAreDistinct
    <3> QED BY <2>6, <3>3, <3>4, <3>6
  <2>7. CASE Written(f).form # "generic"
    BY <2>5, <2>7 DEF Done
  <2> QED BY <2>6, <2>7
<1>4. BuilderSpec => []MeaningInv
  <2>1. BuilderSpec => [](WalkInv /\ ReachInv)
    BY BuilderInvariant
  <2> QED BY <1>1, <1>2, <2>1, PTL DEF BuilderSpec
<1> QED BY <1>3, <1>4, BuilderInvariant, SchemasAreWhole, PTL
=============================================================================
