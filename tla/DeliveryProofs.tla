--------------------------- MODULE DeliveryProofs ---------------------------
(***************************************************************************)
(* Theorems about Delivery, for any operation with @defer and @stream, any *)
(* source, encoders and adapters: the invariants its run checks, and that  *)
(* incremental delivery implements JobStream.                              *)
(***************************************************************************)
EXTENDS Delivery, FiniteSetTheorems, SequenceTheorems, TLAPS

-----------------------------------------------------------------------------
(* The generator of incremental delivery.                                  *)

DeferJobs == {Defer(d) : d \in Fragments}
Lists == [list : Streams, next : Nat, items : Seq(Nat)]
Payloads ==
  [job : Jobs, at : Nat, errors : SUBSET Jobs, hasNext : BOOLEAN, abandoned : BOOLEAN]

IncTypeOK ==
  /\ initialCount \in Int
  /\ deferred \in Seq(DeferJobs) /\ streamed \in Seq(Lists)
  /\ errors \in SUBSET Jobs /\ unit \in Jobs
  /\ running \in SUBSET Positions
  /\ loose \in SUBSET [position : Positions, home : Jobs]
  /\ gen \in {"new", "running", "yielded", "ended", "raised", "closed"}
  /\ sent \in Seq(Payloads)

\* Where the generator is, and how far its unit of work.
UnitOfGen ==
  /\ gen = "new" => /\ deferred = <<>> /\ streamed = <<>> /\ sent = <<>>
                    /\ errors = {} /\ unit = Data /\ loose = {}
  /\ gen # "running" => running = {}
  /\ gen = "running" => unit \notin Delivered
  /\ gen \in {"yielded", "ended"} => unit \in Delivered

\* The head of the queue of lists is the one whose item is being completed.
MidItem == gen \notin {"new", "yielded", "ended"} /\ unit.kind = "item" /\ unit \notin Delivered

\* What is left of a streamed list is its end; next_index is where it goes on.
ListsAreTails ==
  /\ \A i \in DOMAIN streamed :
       LET q == streamed[i] IN
       /\ Len(q.items) <= Length[q.list] - Most(0, initialCount)
       /\ \A k \in 1..Len(q.items) : q.items[k] = Length[q.list] - Len(q.items) + k
       /\ ~(MidItem /\ i = 1) => q.items # <<>> /\ q.next = Length[q.list] - Len(q.items)
       /\ \A j \in DOMAIN streamed : streamed[j].list = q.list => j = i
  /\ MidItem => /\ streamed # <<>>
                /\ unit.list = streamed[1].list
                /\ unit.number = Length[unit.list] - Len(streamed[1].items)
                /\ streamed[1].next = unit.number - 1

\* The items that were delivered come before those that are left.
ItemsGoForward ==
  \A i \in DOMAIN sent : sent[i].job.kind = "item" =>
    /\ sent[i].at = sent[i].job.number - 1
    /\ \A j \in DOMAIN streamed : streamed[j].list = sent[i].job.list =>
         sent[i].job.number <= Length[sent[i].job.list] - Len(streamed[j].items)

\* Coroutines that go on, and units of work that were begun.
Active == running \cup {c.position : c \in loose}
Begun == IF gen = "new" THEN {} ELSE Delivered \cup {unit}

\* With S the positions that were started: x has its value.
Valued(x, S) == x \in Begun \/ (x \in S /\ x \notin Active)

\* Everything comes from a value, once: a position is started by the value above
\* it, a fragment is queued by the selections it is deferred in, an item by its
\* list; and what has no value yet has started and queued nothing.
ComesFromValues(S) ==
  /\ Active \subseteq S /\ S \subseteq Positions
  /\ \A p \in S : \/ Valued(Under[p], S)
                  \/ \E s \in Streams : \E i \in Immediate(s) : Under[p] = Item(s, i) /\ Valued(s, S)
  /\ \A d \in Fragments : Defer(d) \in Queued \cup Begun =>
       \E x \in Positions \cup Jobs : (\E k \in DOMAIN Deferrals[x] : Deferrals[x][k] = d) /\ Valued(x, S)
  /\ \A s \in Streams : \A i \in Nat : Item(s, i) \in Queued \cup Begun =>
       Valued(s, S) /\ i \notin Immediate(s)
  /\ \A i \in DOMAIN streamed : Valued(streamed[i].list, S)
WorkIsATree == \E S \in SUBSET Positions : ComesFromValues(S)

\* Nothing is there twice.
NothingTwice ==
  /\ \A c \in loose : c.position \notin running
  /\ \A c, d \in loose : c.position = d.position => c = d
  /\ \A i, j \in DOMAIN deferred : deferred[i] = deferred[j] => i = j
  /\ Queued \cap Begun = {}

\* Coroutines left behind are of the unit that runs, or of one whose payload told
\* of them; the errors are theirs or the unit's.
Told(u) == \E j \in DOMAIN sent : sent[j].job = u /\ sent[j].abandoned
ErrorsHaveHomes ==
  /\ \A c \in loose : (c.home = unit /\ unit \notin Delivered) \/ Told(c.home)
  /\ \A u \in errors : u = unit \/ Told(u)

\* A payload that says it is the last leaves nothing to do.
LastIsLast ==
  sent # <<>> /\ ~sent[Len(sent)].hasNext /\ ~sent[Len(sent)].abandoned =>
    /\ gen \in {"yielded", "ended", "closed"}
    /\ deferred = <<>> /\ streamed = <<>> /\ loose = {}

IncInv ==
  /\ IncTypeOK /\ UnitOfGen /\ ListsAreTails /\ ItemsGoForward /\ WorkIsATree /\ NothingTwice
  /\ ErrorsHaveHomes /\ LastIsLast
  /\ FalseHasNextIsLast /\ ItemsInPlace /\ PayloadErrorsAreOwn

-----------------------------------------------------------------------------
\* Units of work are told apart by what they are.
LEMMA JobKinds ==
  /\ Data \in Jobs /\ Data.kind = "data"
  /\ \A d : Defer(d).kind = "defer" /\ Defer(d).fragment = d
  /\ \A s, i : Item(s, i).kind = "item" /\ Item(s, i).list = s /\ Item(s, i).number = i
  /\ \A d : Defer(d) \in Jobs <=> d \in Fragments
  /\ \A s, i : Item(s, i) \in Jobs <=> s \in Streams /\ i \in 1..Length[s]
<1>1. /\ Data \in Jobs /\ Data.kind = "data"
      /\ \A d : Defer(d).kind = "defer" /\ Defer(d).fragment = d
      /\ \A s, i : Item(s, i).kind = "item" /\ Item(s, i).list = s /\ Item(s, i).number = i
  BY DEF Jobs, Data, Defer, Item
<1>2. ASSUME NEW d PROVE Defer(d) \in Jobs <=> d \in Fragments
  BY <1>1 DEF Jobs
<1>3. ASSUME NEW s, NEW i PROVE Item(s, i) \in Jobs <=> s \in Streams /\ i \in 1..Length[s]
  BY <1>1 DEF Jobs
<1> QED BY <1>1, <1>2, <1>3

LEMMA JobsDiffer ==
  /\ \A c, d : Defer(c) = Defer(d) => c = d
  /\ \A s, t, i, j : Item(s, i) = Item(t, j) => s = t /\ i = j
  /\ \A d, s, i : Defer(d) # Item(s, i) /\ Defer(d) # Data /\ Item(s, i) # Data
BY JobKinds

LEMMA JobCases ==
  ASSUME NEW j \in Jobs
  PROVE  \/ j = Data
         \/ \E d \in Fragments : j = Defer(d)
         \/ \E s \in Streams : \E i \in 1..Length[s] : j = Item(s, i)
BY DEF Jobs

\* The units of work that two queues hold.
QueuedIn(ds, ss) ==
  {ds[i] : i \in DOMAIN ds}
    \cup UNION {{Item(ss[i].list, n) : n \in {ss[i].items[k] : k \in DOMAIN ss[i].items}} :
                  i \in DOMAIN ss}

LEMMA QueuedIsIn == Queued = QueuedIn(deferred, streamed) /\ Queued' = QueuedIn(deferred', streamed')
BY DEF Queued, QueuedIn

LEMMA InQueue ==
  ASSUME NEW ds, NEW ss, NEW j
  PROVE  j \in QueuedIn(ds, ss) <=>
           \/ \E i \in DOMAIN ds : j = ds[i]
           \/ \E i \in DOMAIN ss : \E k \in DOMAIN ss[i].items : j = Item(ss[i].list, ss[i].items[k])
BY DEF QueuedIn

\* What a position, or a unit of work, adds to the queues.
DeferredBy(x) == {Defer(Deferrals[x][k]) : k \in DOMAIN Deferrals[x]}
StreamedBy(p) ==
  IF p \in Streams THEN {Item(p, i) : i \in 1 + Most(0, initialCount)..Length[p]} ELSE {}

LEMMA MostIsNat == ASSUME NEW n \in Int PROVE Most(0, n) \in Nat
BY DEF Most

LEMMA WithDeferredQueue ==
  ASSUME NEW x \in Positions \cup Jobs, NEW ds \in Seq(DeferJobs), NEW ss
  PROVE  /\ WithDeferred(Deferrals[x], ds) \in Seq(DeferJobs)
         /\ QueuedIn(WithDeferred(Deferrals[x], ds), ss) = QueuedIn(ds, ss) \cup DeferredBy(x)
         /\ (\A i, j \in DOMAIN ds : ds[i] = ds[j] => i = j)
            /\ (\A i \in DOMAIN ds : ds[i] \notin DeferredBy(x)) =>
              \A i, j \in DOMAIN WithDeferred(Deferrals[x], ds) :
                WithDeferred(Deferrals[x], ds)[i] = WithDeferred(Deferrals[x], ds)[j] => i = j
<1> DEFINE fs == Deferrals[x]
           new == [i \in DOMAIN fs |-> Defer(fs[i])]
           all == WithDeferred(fs, ds)
<1>1. /\ fs \in Seq(Fragments)
      /\ \A i, j \in DOMAIN fs : fs[i] = fs[j] => i = j
  BY IncrementalAssumption
<1> HIDE DEF fs
<1>2. /\ new \in Seq(DeferJobs) /\ Len(new) = Len(fs) /\ DOMAIN new = 1..Len(fs)
      /\ \A i \in 1..Len(fs) : new[i] = Defer(fs[i])
  BY <1>1 DEF DeferJobs
<1>3. all = ds \o new
  BY DEF WithDeferred
<1> HIDE DEF new, all
<1>4. /\ all \in Seq(DeferJobs) /\ DOMAIN all = 1..Len(ds) + Len(fs)
      /\ DOMAIN ds = 1..Len(ds) /\ DOMAIN fs = 1..Len(fs) /\ Len(ds) \in Nat /\ Len(fs) \in Nat
      /\ \A i \in 1..Len(ds) + Len(fs) :
           all[i] = IF i <= Len(ds) THEN ds[i] ELSE new[i - Len(ds)]
  <2>1. DOMAIN ds = 1..Len(ds) /\ Len(ds) \in Nat
    OBVIOUS
  <2>2. DOMAIN fs = 1..Len(fs) /\ Len(fs) \in Nat
    BY <1>1
  <2>3. new \in Seq(DeferJobs)
    BY <1>2
  <2>4. /\ all \in Seq(DeferJobs) /\ Len(all) = Len(ds) + Len(new)
        /\ \A i \in 1..Len(ds) + Len(new) :
             all[i] = IF i <= Len(ds) THEN ds[i] ELSE new[i - Len(ds)]
    BY <2>3, <1>3, ConcatProperties, Zenon
  <2>5. DOMAIN all = 1..Len(all)
    BY <2>4, LenProperties
  <2> QED BY <2>1, <2>2, <2>4, <2>5, <1>2
<1>5. \A i \in DOMAIN all : IF i <= Len(ds) THEN i \in DOMAIN ds /\ all[i] = ds[i]
                            ELSE i - Len(ds) \in DOMAIN fs /\ all[i] = Defer(fs[i - Len(ds)])
  BY <1>2, <1>4
<1>6. ASSUME NEW j PROVE (\E i \in DOMAIN all : j = all[i]) <=>
                           (\E i \in DOMAIN ds : j = ds[i]) \/ (\E i \in DOMAIN fs : j = Defer(fs[i]))
  <2>1. ASSUME NEW i \in DOMAIN fs PROVE all[i + Len(ds)] = Defer(fs[i]) /\ i + Len(ds) \in DOMAIN all
    BY <1>2, <1>4
  <2>2. ASSUME NEW i \in DOMAIN ds PROVE all[i] = ds[i] /\ i \in DOMAIN all
    BY <1>4
  <2> QED BY <2>1, <2>2, <1>5
<1>7. QueuedIn(all, ss) = QueuedIn(ds, ss) \cup DeferredBy(x)
  <2>1. ASSUME NEW j PROVE j \in DeferredBy(x) <=> \E i \in DOMAIN fs : j = Defer(fs[i])
    BY DEF DeferredBy, fs
  <2>2. ASSUME NEW j PROVE j \in QueuedIn(all, ss) <=> j \in QueuedIn(ds, ss) \/ j \in DeferredBy(x)
    <3> HIDE DEF QueuedIn
    <3>1. j \in QueuedIn(ds, ss) \/ j \in DeferredBy(x) <=>
            \/ (\E i \in DOMAIN ds : j = ds[i]) \/ (\E i \in DOMAIN fs : j = Defer(fs[i]))
            \/ \E i \in DOMAIN ss : \E k \in DOMAIN ss[i].items : j = Item(ss[i].list, ss[i].items[k])
      BY <2>1, InQueue
    <3>2. j \in QueuedIn(all, ss) <=>
            \/ \E i \in DOMAIN all : j = all[i]
            \/ \E i \in DOMAIN ss : \E k \in DOMAIN ss[i].items : j = Item(ss[i].list, ss[i].items[k])
      BY InQueue
    <3>3. (\E i \in DOMAIN all : j = all[i]) <=>
            (\E i \in DOMAIN ds : j = ds[i]) \/ (\E i \in DOMAIN fs : j = Defer(fs[i]))
      BY <1>6
    <3> QED BY <3>1, <3>2, <3>3, Zenon
  <2> QED BY <2>2
<1>8. ASSUME \A i, j \in DOMAIN ds : ds[i] = ds[j] => i = j,
             \A i \in DOMAIN ds : ds[i] \notin DeferredBy(x),
             NEW i \in DOMAIN all, NEW j \in DOMAIN all, all[i] = all[j]
      PROVE  i = j
  <2>1. \A k \in DOMAIN fs : Defer(fs[k]) \in DeferredBy(x)
    BY DEF DeferredBy, fs
  <2>2. CASE i <= Len(ds) /\ j <= Len(ds)
    BY <2>2, <1>5, <1>8
  <2>3. CASE i > Len(ds) /\ j > Len(ds)
    <3>1. /\ i - Len(ds) \in DOMAIN fs /\ all[i] = Defer(fs[i - Len(ds)])
          /\ j - Len(ds) \in DOMAIN fs /\ all[j] = Defer(fs[j - Len(ds)])
      BY <2>3, <1>4, <1>5
    <3>2. fs[i - Len(ds)] = fs[j - Len(ds)]
      BY <3>1, <1>8, JobsDiffer
    <3>3. i - Len(ds) = j - Len(ds)
      BY <3>1, <3>2, <1>1
    <3> QED BY <3>3, <1>4
  <2>4. CASE i <= Len(ds) /\ j > Len(ds)
    <3>1. j - Len(ds) \in DOMAIN fs /\ ds[i] = Defer(fs[j - Len(ds)]) /\ i \in DOMAIN ds
      BY <2>4, <1>4, <1>5, <1>8
    <3> QED BY <3>1, <2>1, <1>8
  <2>5. CASE i > Len(ds) /\ j <= Len(ds)
    <3>1. i - Len(ds) \in DOMAIN fs /\ ds[j] = Defer(fs[i - Len(ds)]) /\ j \in DOMAIN ds
      BY <2>5, <1>4, <1>5, <1>8
    <3> QED BY <3>1, <2>1, <1>8
  <2> QED BY <2>2, <2>3, <2>4, <2>5, <1>4
<1> QED BY <1>4, <1>7, <1>8 DEF fs, all

\* A list with items to stream becomes a job, which holds all of them.
LEMMA StreamJobIs ==
  ASSUME NEW p \in Streams, initialCount \in Int, Length[p] > Most(0, initialCount)
  PROVE  /\ StreamJob(p) \in Lists
         /\ StreamJob(p).list = p
         /\ StreamJob(p).next = Most(0, initialCount)
         /\ Len(StreamJob(p).items) = Length[p] - Most(0, initialCount)
         /\ DOMAIN StreamJob(p).items = 1..Length[p] - Most(0, initialCount)
         /\ \A k \in 1..Length[p] - Most(0, initialCount) :
              StreamJob(p).items[k] = k + Most(0, initialCount)
<1> DEFINE m == Most(0, initialCount)
           items == [i \in 1..(Length[p] - m) |-> i + m]
<1>1. m \in Nat /\ Length[p] \in Nat /\ Length[p] - m \in Nat
  <2>1. m \in Nat
    BY MostIsNat
  <2>2. Length[p] \in Nat
    BY IncrementalAssumption
  <2> QED BY <2>1, <2>2
<1>2. StreamJob(p) = [list |-> p, next |-> m, items |-> items]
  BY DEF StreamJob
<1> HIDE DEF m
<1>3. items \in Seq(Nat) /\ Len(items) = Length[p] - m /\ DOMAIN items = 1..Length[p] - m
      /\ \A k \in 1..Length[p] - m : items[k] = k + m
  BY <1>1
<1> HIDE DEF items
<1>4. StreamJob(p) \in Lists
  BY <1>1, <1>2, <1>3 DEF Lists
<1> QED BY <1>2, <1>3, <1>4 DEF m

LEMMA AppendIs ==
  ASSUME NEW S, NEW s \in Seq(S), NEW e \in S
  PROVE  /\ Append(s, e) \in Seq(S)
         /\ Len(Append(s, e)) = Len(s) + 1 /\ Len(s) \in Nat
         /\ DOMAIN Append(s, e) = 1..Len(s) + 1 /\ DOMAIN s = 1..Len(s)
         /\ \A i \in 1..Len(s) : Append(s, e)[i] = s[i]
         /\ Append(s, e)[Len(s) + 1] = e
BY AppendProperties, LenProperties

LEMMA WithStreamQueue ==
  ASSUME NEW p \in Positions, NEW ss \in Seq(Lists), initialCount \in Int, NEW ds
  PROVE  /\ WithStream(p, ss) \in Seq(Lists)
         /\ \/ WithStream(p, ss) = ss
            \/ p \in Streams /\ Length[p] > Most(0, initialCount)
               /\ WithStream(p, ss) = Append(ss, StreamJob(p))
         /\ QueuedIn(ds, WithStream(p, ss)) = QueuedIn(ds, ss) \cup StreamedBy(p)
<1> DEFINE m == Most(0, initialCount)
<1>1. m \in Nat
  BY MostIsNat
<1>2. CASE ~(p \in Streams /\ Length[p] > m)
  <2>1. WithStream(p, ss) = ss
    BY <1>2 DEF WithStream
  <2>2. StreamedBy(p) = {}
    BY <1>1, <1>2, IncrementalAssumption DEF StreamedBy
  <2> QED BY <2>1, <2>2
<1>3. CASE p \in Streams /\ Length[p] > m
  <2> DEFINE q == StreamJob(p)
             new == WithStream(p, ss)
  <2>1. new = Append(ss, q)
    BY <1>3 DEF WithStream
  <2>2. /\ q \in Lists /\ q.list = p /\ DOMAIN q.items = 1..Length[p] - m
        /\ \A k \in 1..Length[p] - m : q.items[k] = k + m
        /\ Length[p] \in Nat
    BY <1>3, StreamJobIs, IncrementalAssumption
  <2> HIDE DEF q, new, m
  <2>3. /\ new \in Seq(Lists) /\ DOMAIN new = 1..Len(ss) + 1 /\ DOMAIN ss = 1..Len(ss)
        /\ Len(ss) \in Nat
        /\ \A i \in 1..Len(ss) : new[i] = ss[i]
        /\ new[Len(ss) + 1] = q
    BY <2>1, <2>2, AppendIs
  <2>4. ASSUME NEW j PROVE (\E k \in DOMAIN q.items : j = Item(q.list, q.items[k])) <=> j \in StreamedBy(p)
    <3>1. StreamedBy(p) = {Item(p, i) : i \in 1 + m..Length[p]}
      BY <1>3 DEF StreamedBy, m
    <3>2. \A k \in DOMAIN q.items : q.items[k] = k + m /\ k + m \in 1 + m..Length[p]
      BY <1>1, <2>2
    <3>3. \A i \in 1 + m..Length[p] : i - m \in DOMAIN q.items /\ q.items[i - m] = i
      BY <1>1, <2>2
    <3> QED BY <2>2, <3>1, <3>2, <3>3
  <2>5. ASSUME NEW j
        PROVE  (\E i \in DOMAIN new : \E k \in DOMAIN new[i].items : j = Item(new[i].list, new[i].items[k]))
                 <=> \/ \E i \in DOMAIN ss : \E k \in DOMAIN ss[i].items : j = Item(ss[i].list, ss[i].items[k])
                     \/ j \in StreamedBy(p)
    BY <2>3, <2>4
  <2>6. ASSUME NEW j PROVE j \in QueuedIn(ds, new) <=> j \in QueuedIn(ds, ss) \/ j \in StreamedBy(p)
    <3>1. j \in QueuedIn(ds, new) <=>
            \/ \E i \in DOMAIN ds : j = ds[i]
            \/ \E i \in DOMAIN new : \E k \in DOMAIN new[i].items : j = Item(new[i].list, new[i].items[k])
      BY InQueue
    <3>2. j \in QueuedIn(ds, ss) <=>
            \/ \E i \in DOMAIN ds : j = ds[i]
            \/ \E i \in DOMAIN ss : \E k \in DOMAIN ss[i].items : j = Item(ss[i].list, ss[i].items[k])
      BY InQueue
    <3> QED BY <3>1, <3>2, <2>5, Zenon
  <2> QED BY <2>1, <2>3, <2>6, <1>3 DEF q, new, m
<1> QED BY <1>2, <1>3

-----------------------------------------------------------------------------
\* Where work comes from.

LEMMA BegunAreJobs == IncTypeOK => Begun \subseteq Jobs /\ Delivered \subseteq Jobs
<1> SUFFICES ASSUME IncTypeOK PROVE Begun \subseteq Jobs /\ Delivered \subseteq Jobs
  OBVIOUS
<1>1. ASSUME NEW i \in DOMAIN sent PROVE sent[i].job \in Jobs
  <2>1. sent[i] \in Payloads
    BY ElementOfSeq, LenProperties DEF IncTypeOK
  <2> QED BY <2>1 DEF Payloads
<1>2. Delivered \subseteq Jobs
  BY <1>1 DEF Delivered
<1> QED BY <1>2 DEF Begun, IncTypeOK

\* A coroutine that goes on has started nothing and queued nothing yet.
LEMMA NothingYet ==
  ASSUME IncTypeOK, NEW S \in SUBSET Positions, ComesFromValues(S), NEW p \in Active
  PROVE  /\ p \in S /\ ~Valued(p, S)
         /\ Started(p) \subseteq Positions /\ Started(p) \cap S = {}
         /\ (DeferredBy(p) \cup StreamedBy(p)) \cap (Queued \cup Begun) = {}
         /\ \A i \in DOMAIN streamed : streamed[i].list # p
<1>1. p \in S /\ p \in Positions /\ p \notin Begun /\ p \notin Jobs
  BY BegunAreJobs, IncrementalAssumption DEF ComesFromValues
<1>2. ~Valued(p, S)
  BY <1>1 DEF Valued
<1>3. Started(p) \subseteq Positions
  BY DEF Started, Kids
<1>4. \A s \in Streams : \A i \in Immediate(s) : i \in Nat /\ Item(s, i) \in Jobs
  BY JobKinds DEF Immediate
<1>5. ASSUME NEW k \in Kids(p), k \in S PROVE FALSE
  <2>1. Under[k] = p
    BY DEF Kids
  <2>2. CASE Valued(Under[k], S)
    BY <2>1, <2>2, <1>2
  <2>3. CASE \E s \in Streams : \E i \in Immediate(s) : Under[k] = Item(s, i) /\ Valued(s, S)
    BY <2>1, <2>3, <1>1, <1>4
  <2> QED BY <1>5, <2>2, <2>3 DEF ComesFromValues
<1>6. ASSUME p \in Streams, NEW i \in Immediate(p), NEW k \in Kids(Item(p, i)), k \in S PROVE FALSE
  <2>1. Under[k] = Item(p, i)
    BY DEF Kids
  <2>2. CASE Valued(Item(p, i), S)
    <3>1. Item(p, i) \notin Positions /\ i \in Nat
      BY <1>4, <1>6, IncrementalAssumption
    <3>2. Item(p, i) \in Begun
      BY <2>2, <3>1 DEF Valued
    <3> QED BY <3>1, <3>2, <1>2, <1>6 DEF ComesFromValues
  <2>3. CASE \E s \in Streams : \E j \in Immediate(s) : Under[k] = Item(s, j) /\ Valued(s, S)
    BY <2>1, <2>3, <1>2, JobsDiffer
  <2> QED BY <1>6, <2>1, <2>2, <2>3 DEF ComesFromValues
<1>7. Started(p) \cap S = {}
  BY <1>5, <1>6 DEF Started
<1>8. ASSUME NEW k \in DOMAIN Deferrals[p], Defer(Deferrals[p][k]) \in Queued \cup Begun
      PROVE  FALSE
  <2>1. Deferrals[p][k] \in Fragments
    BY <1>1, IncrementalAssumption, ElementOfSeq, LenProperties
  <2>2. PICK x \in Positions \cup Jobs :
          (\E j \in DOMAIN Deferrals[x] : Deferrals[x][j] = Deferrals[p][k]) /\ Valued(x, S)
    BY <1>8, <2>1 DEF ComesFromValues
  <2>3. x = p
    BY <1>1, <2>2, IncrementalAssumption
  <2> QED BY <2>2, <2>3, <1>2
<1>9. ASSUME p \in Streams, NEW i \in 1 + Most(0, initialCount)..Length[p],
             Item(p, i) \in Queued \cup Begun
      PROVE  FALSE
  <2>1. i \in Nat
    BY MostIsNat, IncrementalAssumption DEF IncTypeOK
  <2> QED BY <1>2, <1>9, <2>1 DEF ComesFromValues
<1>10. (DeferredBy(p) \cup StreamedBy(p)) \cap (Queued \cup Begun) = {}
  BY <1>8, <1>9 DEF DeferredBy, StreamedBy
<1>11. \A i \in DOMAIN streamed : streamed[i].list # p
  BY <1>2 DEF ComesFromValues
<1> QED BY <1>1, <1>2, <1>3, <1>7, <1>10, <1>11

\* What a coroutine that gets its value does to the queues.
LEMMA RegisterQueues ==
  ASSUME IncTypeOK, NEW p \in Positions, Register(p)
  PROVE  /\ deferred' \in Seq(DeferJobs) /\ streamed' \in Seq(Lists)
         /\ Queued' = Queued \cup DeferredBy(p) \cup StreamedBy(p)
         /\ (\A i, j \in DOMAIN deferred : deferred[i] = deferred[j] => i = j)
            /\ (\A i \in DOMAIN deferred : deferred[i] \notin DeferredBy(p)) =>
              \A i, j \in DOMAIN deferred' : deferred'[i] = deferred'[j] => i = j
         /\ \/ streamed' = streamed
            \/ p \in Streams /\ Length[p] > Most(0, initialCount)
               /\ streamed' = Append(streamed, StreamJob(p))
<1>1. deferred' = WithDeferred(Deferrals[p], deferred) /\ streamed' = WithStream(p, streamed)
  BY DEF Register
<1>2. /\ deferred' \in Seq(DeferJobs)
      /\ QueuedIn(deferred', streamed') = QueuedIn(deferred, streamed') \cup DeferredBy(p)
      /\ (\A i, j \in DOMAIN deferred : deferred[i] = deferred[j] => i = j)
         /\ (\A i \in DOMAIN deferred : deferred[i] \notin DeferredBy(p)) =>
           \A i, j \in DOMAIN deferred' : deferred'[i] = deferred'[j] => i = j
  BY <1>1, WithDeferredQueue DEF IncTypeOK
<1>3. /\ streamed' \in Seq(Lists)
      /\ QueuedIn(deferred, streamed') = QueuedIn(deferred, streamed) \cup StreamedBy(p)
      /\ \/ streamed' = streamed
         \/ p \in Streams /\ Length[p] > Most(0, initialCount)
            /\ streamed' = Append(streamed, StreamJob(p))
  BY <1>1, WithStreamQueue DEF IncTypeOK
<1>4. Queued' = Queued \cup DeferredBy(p) \cup StreamedBy(p)
  BY <1>2, <1>3, QueuedIsIn
<1> QED BY <1>2, <1>3, <1>4

LEMMA TreeGrows ==
  ASSUME IncTypeOK, NEW S \in SUBSET Positions, ComesFromValues(S), NEW p \in Active,
         Register(p), Active' = (Active \ {p}) \cup Started(p),
         UNCHANGED <<initialCount, gen, unit, sent>>,
         NEW T, T = S \cup Started(p)
  PROVE  ComesFromValues(T)' /\ T \in SUBSET Positions
<1>1. /\ p \in S /\ ~Valued(p, S) /\ p \in Positions
      /\ Started(p) \subseteq Positions /\ Started(p) \cap S = {}
  BY NothingYet
<1>2. Queued' = Queued \cup DeferredBy(p) \cup StreamedBy(p)
  BY <1>1, RegisterQueues
<1>3. Begun' = Begun /\ Delivered' = Delivered
  BY DEF Begun, Delivered
<1>4. \A s : Immediate(s)' = Immediate(s)
  BY DEF Immediate
<1>5. \A x : Valued(x, S) => Valued(x, T)'
  BY <1>1, <1>3 DEF Valued
<1>6. Valued(p, T)'
  BY <1>1 DEF Valued
<1>7. T \in SUBSET Positions /\ Active' \subseteq T
  BY <1>1 DEF ComesFromValues
<1>8. ASSUME NEW k \in T
      PROVE  \/ Valued(Under[k], T)'
             \/ \E s \in Streams : \E i \in Immediate(s)' : Under[k] = Item(s, i) /\ Valued(s, T)'
  <2>1. CASE k \in S
    BY <2>1, <1>4, <1>5 DEF ComesFromValues
  <2>2. CASE k \in Kids(p)
    BY <2>2, <1>6 DEF Kids
  <2>3. CASE p \in Streams /\ \E i \in Immediate(p) : k \in Kids(Item(p, i))
    BY <2>3, <1>4, <1>6 DEF Kids
  <2> QED BY <2>1, <2>2, <2>3 DEF Started
<1>9. ASSUME NEW d \in Fragments, Defer(d) \in Queued' \cup Begun'
      PROVE  \E x \in Positions \cup Jobs :
               (\E k \in DOMAIN Deferrals[x] : Deferrals[x][k] = d) /\ Valued(x, T)'
  <2>1. CASE Defer(d) \in Queued \cup Begun
    BY <2>1, <1>5 DEF ComesFromValues
  <2>2. CASE Defer(d) \in DeferredBy(p)
    <3>1. PICK k \in DOMAIN Deferrals[p] : Defer(d) = Defer(Deferrals[p][k])
      BY <2>2 DEF DeferredBy
    <3> QED BY <3>1, <1>1, <1>6, JobsDiffer
  <2>3. Defer(d) \notin StreamedBy(p)
    BY JobsDiffer DEF StreamedBy
  <2> QED BY <1>9, <1>2, <1>3, <2>1, <2>2, <2>3
<1>10. ASSUME NEW s \in Streams, NEW i \in Nat, Item(s, i) \in Queued' \cup Begun'
       PROVE  Valued(s, T)' /\ i \notin Immediate(s)'
  <2>1. CASE Item(s, i) \in Queued \cup Begun
    BY <2>1, <1>4, <1>5 DEF ComesFromValues
  <2>2. CASE Item(s, i) \in StreamedBy(p)
    <3>1. s = p /\ i \in 1 + Most(0, initialCount)..Length[p]
      BY <2>2, JobsDiffer DEF StreamedBy
    <3>2. i \notin Immediate(s)
      BY <3>1, MostIsNat, IncrementalAssumption DEF IncTypeOK, Immediate
    <3> QED BY <3>1, <3>2, <1>4, <1>6
  <2>3. Item(s, i) \notin DeferredBy(p)
    BY JobsDiffer DEF DeferredBy
  <2> QED BY <1>10, <1>2, <1>3, <2>1, <2>2, <2>3
<1>11. ASSUME NEW i \in DOMAIN streamed', NEW s, s = streamed'[i].list PROVE Valued(s, T)'
  <2>1. CASE streamed' = streamed
    BY <2>1, <1>5, <1>11 DEF ComesFromValues
  <2>2. CASE p \in Streams /\ Length[p] > Most(0, initialCount)
             /\ streamed' = Append(streamed, StreamJob(p))
    <3>1. streamed \in Seq(Lists) /\ StreamJob(p) \in Lists /\ StreamJob(p).list = p
      BY <2>2, StreamJobIs DEF IncTypeOK
    <3>2. \/ i \in DOMAIN streamed /\ streamed'[i] = streamed[i]
          \/ streamed'[i] = StreamJob(p)
      BY <2>2, <3>1, AppendIs
    <3> QED BY <3>1, <3>2, <1>5, <1>6, <1>11 DEF ComesFromValues
  <2> QED BY <1>1, <2>1, <2>2, RegisterQueues
<1>12. \A i \in DOMAIN streamed' : Valued(streamed[i].list, T)'
  BY <1>11 DEF Valued
<1> QED BY <1>7, <1>8, <1>9, <1>10, <1>12 DEF ComesFromValues

\* A unit of work that is resumed starts positions that nothing had started, and
\* the fragments deferred in it are new.
LEMMA UnitIsFresh ==
  ASSUME IncTypeOK, NEW S \in SUBSET Positions, ComesFromValues(S),
         NEW u \in Jobs, u \notin Begun, u = Data \/ u \in Queued
  PROVE  /\ ~Valued(u, S)
         /\ Kids(u) \cap S = {}
         /\ DeferredBy(u) \cap (Queued \cup Begun) = {}
<1>1. ~Valued(u, S)
  BY IncrementalAssumption DEF Valued
<1>2. ASSUME NEW k \in Kids(u), k \in S PROVE FALSE
  <2>1. Under[k] = u
    BY DEF Kids
  <2>2. PICK s \in Streams : \E i \in Immediate(s) : u = Item(s, i)
    BY <1>1, <1>2, <2>1 DEF ComesFromValues
  <2> PICK i \in Immediate(s) : u = Item(s, i)
    BY <2>2
  <2>3. Item(s, i) \in Queued /\ i \in Nat
    BY <2>2, JobsDiffer DEF Immediate
  <2> QED BY <2>3 DEF ComesFromValues
<1>3. ASSUME NEW k \in DOMAIN Deferrals[u], Defer(Deferrals[u][k]) \in Queued \cup Begun
      PROVE  FALSE
  <2>1. Deferrals[u][k] \in Fragments
    BY IncrementalAssumption, ElementOfSeq, LenProperties
  <2>2. PICK x \in Positions \cup Jobs :
          (\E j \in DOMAIN Deferrals[x] : Deferrals[x][j] = Deferrals[u][k]) /\ Valued(x, S)
    BY <1>3, <2>1 DEF ComesFromValues
  <2>3. x = u
    BY <2>2, IncrementalAssumption
  <2> QED BY <2>2, <2>3, <1>1
<1> QED BY <1>1, <1>2, <1>3 DEF DeferredBy

LEMMA TreeResumes ==
  ASSUME IncTypeOK, NEW S \in SUBSET Positions, ComesFromValues(S),
         NEW u \in Jobs, u \notin Begun, u = Data \/ u \in Queued,
         Begun' = Begun \cup {u}, Active' = Active \cup Kids(u),
         Queued' \subseteq Queued \cup DeferredBy(u),
         \A i \in DOMAIN streamed' : \E j \in DOMAIN streamed : streamed'[i].list = streamed[j].list,
         UNCHANGED initialCount,
         NEW T, T = S \cup Kids(u)
  PROVE  ComesFromValues(T)' /\ T \in SUBSET Positions
<1>1. Kids(u) \cap S = {} /\ Kids(u) \subseteq Positions
  BY UnitIsFresh DEF Kids
<1>2. \A x : Valued(x, S) => Valued(x, T)'
  BY <1>1 DEF Valued
<1>3. Valued(u, T)'
  BY DEF Valued
<1>4. \A s : Immediate(s)' = Immediate(s)
  BY DEF Immediate
<1>5. T \in SUBSET Positions /\ Active' \subseteq T
  BY <1>1 DEF ComesFromValues
<1>6. ASSUME NEW k \in T
      PROVE  \/ Valued(Under[k], T)'
             \/ \E s \in Streams : \E i \in Immediate(s)' : Under[k] = Item(s, i) /\ Valued(s, T)'
  <2>1. CASE k \in S
    BY <2>1, <1>2, <1>4 DEF ComesFromValues
  <2>2. CASE k \in Kids(u)
    BY <2>2, <1>3 DEF Kids
  <2> QED BY <2>1, <2>2
<1>7. ASSUME NEW d \in Fragments, Defer(d) \in Queued' \cup Begun'
      PROVE  \E x \in Positions \cup Jobs :
               (\E k \in DOMAIN Deferrals[x] : Deferrals[x][k] = d) /\ Valued(x, T)'
  <2>1. CASE Defer(d) \in Queued \cup Begun
    BY <2>1, <1>2 DEF ComesFromValues
  <2>2. CASE Defer(d) \in DeferredBy(u)
    <3>1. PICK k \in DOMAIN Deferrals[u] : Defer(d) = Defer(Deferrals[u][k])
      BY <2>2 DEF DeferredBy
    <3> QED BY <3>1, <1>3, JobsDiffer
  <2> QED BY <1>7, <2>1, <2>2, JobsDiffer
<1>8. ASSUME NEW s \in Streams, NEW i \in Nat, Item(s, i) \in Queued' \cup Begun'
      PROVE  Valued(s, T)' /\ i \notin Immediate(s)'
  <2>1. CASE Item(s, i) \in Queued \cup Begun
    BY <2>1, <1>2, <1>4 DEF ComesFromValues
  <2>2. Item(s, i) \notin DeferredBy(u)
    BY JobsDiffer DEF DeferredBy
  <2> QED BY <1>8, <2>1, <2>2, JobsDiffer
<1>9. ASSUME NEW i \in DOMAIN streamed', NEW s, s = streamed'[i].list PROVE Valued(s, T)'
  BY <1>9, <1>2 DEF ComesFromValues
<1>10. \A i \in DOMAIN streamed' : Valued(streamed[i].list, T)'
  BY <1>9 DEF Valued
<1> QED BY <1>5, <1>6, <1>7, <1>8, <1>10 DEF ComesFromValues

\* A step that starts and queues nothing.
LEMMA TreeStays ==
  ASSUME IncTypeOK, NEW S \in SUBSET Positions, ComesFromValues(S),
         Begun \subseteq Begun', Active' \subseteq Active,
         Queued' \cup Begun' \subseteq Queued \cup Begun \cup {Data},
         \A i \in DOMAIN streamed' : \E j \in DOMAIN streamed : streamed'[i].list = streamed[j].list,
         UNCHANGED initialCount
  PROVE  ComesFromValues(S)'
<1>1. \A x : Valued(x, S) => Valued(x, S)'
  BY DEF Valued
<1>2. \A s : Immediate(s)' = Immediate(s)
  BY DEF Immediate
<1>3. Active' \subseteq S /\ S \subseteq Positions
  BY DEF ComesFromValues
<1>4. ASSUME NEW k \in S
      PROVE  \/ Valued(Under[k], S)'
             \/ \E s \in Streams : \E i \in Immediate(s)' : Under[k] = Item(s, i) /\ Valued(s, S)'
  BY <1>1, <1>2 DEF ComesFromValues
<1>5. ASSUME NEW d \in Fragments, Defer(d) \in Queued' \cup Begun'
      PROVE  \E x \in Positions \cup Jobs :
               (\E k \in DOMAIN Deferrals[x] : Deferrals[x][k] = d) /\ Valued(x, S)'
  <2>1. Defer(d) \in Queued \cup Begun
    BY <1>5, JobsDiffer
  <2> QED BY <2>1, <1>1 DEF ComesFromValues
<1>6. ASSUME NEW s \in Streams, NEW i \in Nat, Item(s, i) \in Queued' \cup Begun'
      PROVE  Valued(s, S)' /\ i \notin Immediate(s)'
  <2>1. Item(s, i) \in Queued \cup Begun
    BY <1>6, JobsDiffer
  <2> QED BY <2>1, <1>1, <1>2 DEF ComesFromValues
<1>7. ASSUME NEW i \in DOMAIN streamed', NEW s, s = streamed'[i].list PROVE Valued(s, S)'
  BY <1>7, <1>1 DEF ComesFromValues
<1>8. \A i \in DOMAIN streamed' : Valued(streamed[i].list, S)'
  BY <1>7 DEF Valued
<1> QED BY <1>3, <1>4, <1>5, <1>6, <1>8 DEF ComesFromValues

-----------------------------------------------------------------------------
\* The actions, one lemma for what each does to the queues and to the tree.

LEMMA IncParts ==
  ASSUME IncInv
  PROVE  /\ IncTypeOK /\ UnitOfGen /\ ListsAreTails /\ ItemsGoForward /\ WorkIsATree
         /\ NothingTwice /\ ErrorsHaveHomes /\ LastIsLast
         /\ FalseHasNextIsLast /\ ItemsInPlace /\ PayloadErrorsAreOwn
BY DEF IncInv

\* A coroutine gets its value and registers what it finds.
LEMMA ValueArrives ==
  ASSUME IncInv, NEW p \in Active, Register(p), Active' = (Active \ {p}) \cup Started(p),
         UNCHANGED <<initialCount, gen, unit, sent>>
  PROVE  /\ gen # "new" /\ p \in Positions
         /\ Started(p) \subseteq Positions /\ Started(p) \cap Active = {}
         /\ deferred' \in Seq(DeferJobs) /\ streamed' \in Seq(Lists)
         /\ ListsAreTails' /\ ItemsGoForward' /\ WorkIsATree'
         /\ \A i, j \in DOMAIN deferred' : deferred'[i] = deferred'[j] => i = j
         /\ (Queued \cap Begun)' = {}
<1>1. PICK S \in SUBSET Positions : ComesFromValues(S)
  BY IncParts DEF WorkIsATree
<1>2. /\ p \in S /\ p \in Positions /\ ~Valued(p, S)
      /\ Started(p) \subseteq Positions /\ Started(p) \cap S = {}
      /\ (DeferredBy(p) \cup StreamedBy(p)) \cap (Queued \cup Begun) = {}
      /\ \A i \in DOMAIN streamed : streamed[i].list # p
  BY <1>1, NothingYet, IncParts
<1>3. gen # "new" /\ Started(p) \cap Active = {}
  <2>1. gen # "new"
    BY IncParts DEF Active, UnitOfGen
  <2>2. Active \subseteq S
    BY <1>1 DEF ComesFromValues
  <2> QED BY <2>1, <2>2, <1>2
<1>4. WorkIsATree'
  <2>1. PICK T \in SUBSET Positions : T = S \cup Started(p)
    BY <1>2
  <2>2. ComesFromValues(T)'
    BY <2>1, <1>1, TreeGrows, IncParts
  <2> QED BY <2>2 DEF WorkIsATree
<1>5. /\ deferred' \in Seq(DeferJobs) /\ streamed' \in Seq(Lists)
      /\ Queued' = Queued \cup DeferredBy(p) \cup StreamedBy(p)
      /\ \/ streamed' = streamed
         \/ p \in Streams /\ Length[p] > Most(0, initialCount)
            /\ streamed' = Append(streamed, StreamJob(p))
  BY <1>2, RegisterQueues, IncParts
<1>6. \A i, j \in DOMAIN deferred' : deferred'[i] = deferred'[j] => i = j
  <2>1. \A i \in DOMAIN deferred : deferred[i] \notin DeferredBy(p)
    BY <1>2, QueuedIsIn, InQueue
  <2> QED BY <2>1, <1>2, RegisterQueues, IncParts DEF NothingTwice
<1>7. (Queued \cap Begun)' = {}
  BY <1>2, <1>5, IncParts DEF NothingTwice, Begun, Delivered
<1>8. MidItem' = MidItem /\ Most(0, initialCount)' = Most(0, initialCount)
  BY DEF MidItem, Delivered
<1>9. ListsAreTails' /\ ItemsGoForward'
  <2>1. CASE streamed' = streamed
    BY <2>1, <1>8, IncParts DEF ListsAreTails, ItemsGoForward
  <2>2. CASE p \in Streams /\ Length[p] > Most(0, initialCount)
             /\ streamed' = Append(streamed, StreamJob(p))
    <3> DEFINE q == StreamJob(p)
               m == Most(0, initialCount)
               n == Len(streamed)
    <3>1. /\ q \in Lists /\ q.list = p /\ q.next = m
          /\ Len(q.items) = Length[p] - m
          /\ \A k \in 1..Length[p] - m : q.items[k] = k + m
      BY <2>2, StreamJobIs, IncParts DEF IncTypeOK
    <3>2. /\ streamed \in Seq(Lists) /\ n \in Nat
          /\ DOMAIN streamed' = 1..n + 1 /\ DOMAIN streamed = 1..n
          /\ \A i \in 1..n : streamed'[i] = streamed[i]
          /\ streamed'[n + 1] = q
      BY <2>2, <3>1, AppendIs, IncParts DEF IncTypeOK
    <3>3. m \in Nat /\ Length[p] \in Nat /\ Length[p] > m
      BY <2>2, MostIsNat, IncrementalAssumption, IncParts DEF IncTypeOK
    <3>4. q.items # <<>> /\ q.next = Length[q.list] - Len(q.items)
          /\ Len(q.items) <= Length[q.list] - m
          /\ \A k \in 1..Len(q.items) : q.items[k] = Length[q.list] - Len(q.items) + k
      <4>1. q.items \in Seq(Nat)
        BY <3>1 DEF Lists
      <4>2. Len(q.items) # 0
        BY <3>1, <3>3
      <4>3. q.items # <<>>
        BY <4>1, <4>2, EmptySeq
      <4> QED BY <4>3, <3>1, <3>3
    <3> HIDE DEF q, m, n
    <3>5. MidItem => n > 0
      BY <3>2, IncParts DEF ListsAreTails
    <3>6. ASSUME NEW i \in DOMAIN streamed'
          PROVE  LET r == streamed'[i] IN
                 /\ Len(r.items) <= Length[r.list] - m
                 /\ \A k \in 1..Len(r.items) : r.items[k] = Length[r.list] - Len(r.items) + k
                 /\ ~(MidItem /\ i = 1) => r.items # <<>> /\ r.next = Length[r.list] - Len(r.items)
                 /\ \A j \in DOMAIN streamed' : streamed'[j].list = r.list => j = i
      <4>1. CASE i = n + 1
        <5>1. ~(MidItem /\ i = 1)
          BY <4>1, <3>2, <3>5
        <5>2. \A j \in DOMAIN streamed' : streamed'[j].list = p => j = i
          BY <4>1, <1>2, <3>2
        <5> QED BY <4>1, <5>1, <5>2, <3>1, <3>2, <3>4
      <4>2. CASE i \in 1..n
        <5>1. streamed'[i] = streamed[i] /\ i \in DOMAIN streamed
          BY <4>2, <3>2
        <5>2. \A j \in DOMAIN streamed' : streamed'[j].list = streamed[i].list => j = i
          BY <5>1, <1>2, <3>1, <3>2, IncParts DEF ListsAreTails
        <5> QED BY <5>1, <5>2, IncParts DEF ListsAreTails, m
      <4> QED BY <4>1, <4>2, <3>2
    <3>7. MidItem => /\ streamed' # <<>>
                     /\ unit.list = streamed'[1].list
                     /\ unit.number = Length[unit.list] - Len(streamed'[1].items)
                     /\ streamed'[1].next = unit.number - 1
      BY <3>2, <3>5, IncParts DEF ListsAreTails
    <3>8. ListsAreTails'
      BY <3>6, <3>7, <1>8 DEF ListsAreTails, m
    <3>9. ASSUME NEW i \in DOMAIN sent, sent[i].job.kind = "item", sent[i].job.list = p
          PROVE  FALSE
      <4>1. sent[i].job \in Begun /\ sent[i].job \in Jobs
        BY <3>9, <1>3, BegunAreJobs, IncParts DEF Begun, Delivered
      <4>2. PICK s \in Streams : \E k \in 1..Length[s] : sent[i].job = Item(s, k)
        BY <3>9, <4>1, JobCases, JobKinds
      <4>3. PICK k \in 1..Length[s] : sent[i].job = Item(s, k)
        BY <4>2
      <4>4. s = p /\ k \in Nat
        BY <3>9, <4>3, JobKinds
      <4> QED BY <4>1, <4>3, <4>4, <1>1, <1>2, <2>2 DEF ComesFromValues
    <3>10. ItemsGoForward'
      BY <3>1, <3>2, <3>9, IncParts DEF ItemsGoForward
    <3> QED BY <3>8, <3>10
  <2> QED BY <2>1, <2>2, <1>5
<1> QED BY <1>2, <1>3, <1>4, <1>5, <1>6, <1>7, <1>9

LEMMA SentStays ==
  ASSUME IncInv, UNCHANGED sent
  PROVE  FalseHasNextIsLast' /\ ItemsInPlace' /\ PayloadErrorsAreOwn' /\ Delivered' = Delivered
<1>1. FalseHasNextIsLast'
  BY IncParts DEF FalseHasNextIsLast
<1>2. ItemsInPlace'
  BY IncParts DEF ItemsInPlace
<1>3. PayloadErrorsAreOwn'
  BY IncParts DEF PayloadErrorsAreOwn
<1> QED BY <1>1, <1>2, <1>3 DEF Delivered

\* A step that leaves the queues, the unit and the payloads alone.
LEMMA QueuesStay ==
  ASSUME IncInv, UNCHANGED <<initialCount, jobVars, unit, gen, sent>>, Active' \subseteq Active
  PROVE  /\ ListsAreTails' /\ ItemsGoForward' /\ WorkIsATree'
         /\ \A i, j \in DOMAIN deferred' : deferred'[i] = deferred'[j] => i = j
         /\ (Queued \cap Begun)' = {}
<1>1. MidItem' = MidItem /\ Begun' = Begun /\ Queued' = Queued
  BY DEF MidItem, Begun, Queued, Delivered, jobVars
<1>2. ListsAreTails'
  BY <1>1, IncParts DEF ListsAreTails, jobVars
<1>3. ItemsGoForward'
  BY IncParts DEF ItemsGoForward, jobVars
<1>4. WorkIsATree'
  <2>1. PICK S \in SUBSET Positions : ComesFromValues(S)
    BY IncParts DEF WorkIsATree
  <2>2. \A i \in DOMAIN streamed' : \E j \in DOMAIN streamed : streamed'[i].list = streamed[j].list
    BY DEF jobVars
  <2>3. ComesFromValues(S)'
    BY <2>1, <2>2, <1>1, TreeStays, IncParts
  <2> QED BY <2>3 DEF WorkIsATree
<1> QED BY <1>1, <1>2, <1>3, <1>4, IncParts DEF NothingTwice, jobVars

LEMMA PositionCompletes ==
  ASSUME IncInv, NEW p \in Positions, CompletePosition(p)
  PROVE  IncInv'
<1>1. /\ gen = "running" /\ p \in running
      /\ UNCHANGED <<initialCount, errors, unit, loose, gen, sent>>
  BY DEF CompletePosition
<1>2. FalseHasNextIsLast' /\ ItemsInPlace' /\ PayloadErrorsAreOwn' /\ Delivered' = Delivered
  BY <1>1, SentStays
<1>3. ErrorsHaveHomes' /\ LastIsLast'
  <2>1. ErrorsHaveHomes'
    BY <1>1, <1>2, IncParts DEF ErrorsHaveHomes, Told
  <2>2. LastIsLast'
    BY <1>1, IncParts DEF LastIsLast
  <2> QED BY <2>1, <2>2
<1>4. UnitOfGen'
  BY <1>1, <1>2, IncParts DEF UnitOfGen
<1>5. p \in Active /\ \A c \in loose : c.position # p
  BY <1>1, IncParts DEF Active, NothingTwice
<1>6. CASE Register(p) /\ running' = (running \ {p}) \cup Started(p)
  <2>1. Active' = (Active \ {p}) \cup Started(p)
    BY <1>1, <1>5, <1>6 DEF Active
  <2>2. /\ Started(p) \subseteq Positions /\ Started(p) \cap Active = {}
        /\ deferred' \in Seq(DeferJobs) /\ streamed' \in Seq(Lists)
        /\ ListsAreTails' /\ ItemsGoForward' /\ WorkIsATree'
        /\ \A i, j \in DOMAIN deferred' : deferred'[i] = deferred'[j] => i = j
        /\ (Queued \cap Begun)' = {}
    BY <2>1, <1>1, <1>5, <1>6, ValueArrives
  <2>3. IncTypeOK'
    BY <2>2, <1>1, <1>6, IncParts DEF IncTypeOK
  <2>4. NothingTwice'
    <3>1. \A c \in loose : c.position \notin running'
      BY <2>2, <1>6, IncParts DEF NothingTwice, Active
    <3> QED BY <3>1, <2>2, <1>1, IncParts DEF NothingTwice
  <2> QED BY <2>2, <2>3, <2>4, <1>2, <1>3, <1>4 DEF IncInv
<1>7. CASE running' = running \ {p} /\ UNCHANGED jobVars
  <2>1. Active' \subseteq Active
    BY <1>1, <1>7 DEF Active
  <2>2. /\ ListsAreTails' /\ ItemsGoForward' /\ WorkIsATree'
        /\ \A i, j \in DOMAIN deferred' : deferred'[i] = deferred'[j] => i = j
        /\ (Queued \cap Begun)' = {}
    BY <2>1, <1>1, <1>7, QueuesStay
  <2>3. IncTypeOK'
    BY <1>1, <1>7, IncParts DEF IncTypeOK, jobVars
  <2>4. NothingTwice'
    BY <2>2, <1>1, <1>7, IncParts DEF NothingTwice
  <2> QED BY <2>2, <2>3, <2>4, <1>2, <1>3, <1>4 DEF IncInv
<1> QED BY <1>6, <1>7 DEF CompletePosition

LEMMA CoroutinesAreLeft ==
  ASSUME IncInv, NEW left \in SUBSET Abandonable, LeaveBehind(left)
  PROVE  IncInv'
<1>1. /\ gen = "running" /\ left # {} /\ left \subseteq running
      /\ running' = running \ left
      /\ loose' = loose \cup {[position |-> p, home |-> unit] : p \in left}
      /\ errors' = errors \cup {unit}
      /\ UNCHANGED <<initialCount, jobVars, unit, gen, sent>>
  BY DEF LeaveBehind
<1>2. FalseHasNextIsLast' /\ ItemsInPlace' /\ PayloadErrorsAreOwn' /\ Delivered' = Delivered
  BY <1>1, SentStays
<1>3. \A c \in loose' : c \in loose \/ (c.position \in left /\ c.home = unit /\ c = [position |-> c.position, home |-> unit])
  BY <1>1
<1>4. unit \notin Delivered
  BY <1>1, IncParts DEF UnitOfGen
<1>5. ErrorsHaveHomes' /\ LastIsLast' /\ UnitOfGen'
  <2>1. ErrorsHaveHomes'
    BY <1>1, <1>2, <1>3, <1>4, IncParts DEF ErrorsHaveHomes, Told
  <2>2. LastIsLast'
    BY <1>1, IncParts DEF LastIsLast
  <2>3. UnitOfGen'
    BY <1>1, <1>2, IncParts DEF UnitOfGen
  <2> QED BY <2>1, <2>2, <2>3
<1>6. Active' \subseteq Active
  BY <1>1, <1>3 DEF Active
<1>7. /\ ListsAreTails' /\ ItemsGoForward' /\ WorkIsATree'
      /\ \A i, j \in DOMAIN deferred' : deferred'[i] = deferred'[j] => i = j
      /\ (Queued \cap Begun)' = {}
  BY <1>1, <1>6, QueuesStay
<1>8. IncTypeOK'
  <2>1. {[position |-> p, home |-> unit] : p \in left} \subseteq [position : Positions, home : Jobs]
    BY <1>1, IncParts DEF IncTypeOK
  <2> QED BY <2>1, <1>1, IncParts DEF IncTypeOK, jobVars
<1>9. NothingTwice'
  <2>1. \A c \in loose' : c.position \notin running'
    BY <1>1, <1>3, IncParts DEF NothingTwice
  <2>2. \A c, d \in loose' : c.position = d.position => c = d
    BY <1>1, <1>3, IncParts DEF NothingTwice
  <2> QED BY <2>1, <2>2, <1>7 DEF NothingTwice
<1> QED BY <1>2, <1>5, <1>7, <1>8, <1>9 DEF IncInv

LEMMA LooseCompletes ==
  ASSUME IncInv, NEW c \in loose, CompleteLoose(c)
  PROVE  IncInv'
<1> DEFINE p == c.position
<1>1. UNCHANGED <<initialCount, unit, running, gen, sent>>
  BY DEF CompleteLoose
<1>2. FalseHasNextIsLast' /\ ItemsInPlace' /\ PayloadErrorsAreOwn' /\ Delivered' = Delivered
  BY <1>1, SentStays
<1>3. /\ p \in Active /\ p \in Positions /\ c.home \in Jobs
      /\ p \notin running /\ \A d \in loose : d # c => d.position # p
      /\ gen # "new"
  BY IncParts DEF Active, IncTypeOK, NothingTwice, UnitOfGen
<1>4. LastIsLast'
  BY <1>1, IncParts DEF LastIsLast
<1>5. UnitOfGen'
  BY <1>1, <1>2, <1>3, IncParts DEF UnitOfGen
<1>6. \A u : Told(u)' = Told(u)
  BY <1>1 DEF Told
<1>7. CASE /\ Register(p)
           /\ loose' = (loose \ {c}) \cup {[position |-> k, home |-> c.home] : k \in Started(p)}
           /\ UNCHANGED errors
  <2>1. \A d \in loose' : \/ d \in loose /\ d # c
                          \/ d.position \in Started(p) /\ d = [position |-> d.position, home |-> c.home]
    BY <1>7
  <2>2. Active' = (Active \ {p}) \cup Started(p)
    <3>1. ASSUME NEW k PROVE (\E d \in loose' : d.position = k) <=> (\E d \in loose : d # c /\ d.position = k) \/ k \in Started(p)
      <4>1. k \in Started(p) => [position |-> k, home |-> c.home] \in loose'
        BY <1>7
      <4> QED BY <4>1, <2>1, <1>7
    <3>2. ASSUME NEW k PROVE k \in Active' <=> k \in (Active \ {p}) \cup Started(p)
      BY <3>1, <1>1, <1>3 DEF Active
    <3> QED BY <3>2
  <2>3. /\ Started(p) \subseteq Positions /\ Started(p) \cap Active = {}
        /\ deferred' \in Seq(DeferJobs) /\ streamed' \in Seq(Lists)
        /\ ListsAreTails' /\ ItemsGoForward' /\ WorkIsATree'
        /\ \A i, j \in DOMAIN deferred' : deferred'[i] = deferred'[j] => i = j
        /\ (Queued \cap Begun)' = {}
    BY <2>2, <1>1, <1>3, <1>7, ValueArrives
  <2>4. IncTypeOK'
    <3>1. {[position |-> k, home |-> c.home] : k \in Started(p)} \subseteq [position : Positions, home : Jobs]
      BY <2>3, <1>3
    <3>2. loose' \in SUBSET [position : Positions, home : Jobs]
      BY <3>1, <1>7, IncParts DEF IncTypeOK
    <3> QED BY <3>2, <2>3, <1>1, <1>7, IncParts DEF IncTypeOK
  <2>5. NothingTwice'
    <3>1. \A d \in loose : d.position \in Active
      BY DEF Active
    <3>2. \A k \in running : k \in Active
      BY DEF Active
    <3>3. \A d \in loose' : d.position \notin running'
      BY <2>1, <2>3, <3>2, <1>1, IncParts DEF NothingTwice
    <3>4. \A d, e \in loose' : d.position = e.position => d = e
      BY <2>1, <2>3, <3>1, IncParts DEF NothingTwice
    <3> QED BY <3>3, <3>4, <2>3 DEF NothingTwice
  <2>6. ErrorsHaveHomes'
    <3>1. \A d \in loose' : (d.home = unit /\ unit \notin Delivered) \/ Told(d.home)
      BY <2>1, IncParts DEF ErrorsHaveHomes
    <3> QED BY <3>1, <1>1, <1>2, <1>6, <1>7, IncParts DEF ErrorsHaveHomes
  <2> QED BY <2>3, <2>4, <2>5, <2>6, <1>2, <1>4, <1>5 DEF IncInv
<1>8. CASE /\ loose' = loose \ {c}
           /\ errors' \in {errors, errors \cup {c.home}}
           /\ UNCHANGED jobVars
  <2>1. Active' \subseteq Active
    BY <1>1, <1>8 DEF Active
  <2>2. /\ ListsAreTails' /\ ItemsGoForward' /\ WorkIsATree'
        /\ \A i, j \in DOMAIN deferred' : deferred'[i] = deferred'[j] => i = j
        /\ (Queued \cap Begun)' = {}
    BY <2>1, <1>1, <1>8, QueuesStay
  <2>3. IncTypeOK'
    BY <1>1, <1>3, <1>8, IncParts DEF IncTypeOK, jobVars
  <2>4. NothingTwice'
    BY <2>2, <1>1, <1>8, IncParts DEF NothingTwice
  <2>5. ErrorsHaveHomes'
    <3>1. \A d \in loose' : (d.home = unit /\ unit \notin Delivered) \/ Told(d.home)
      BY <1>8, IncParts DEF ErrorsHaveHomes
    <3>2. \A u \in errors' : u = unit \/ Told(u)
      BY <1>8, IncParts DEF ErrorsHaveHomes
    <3> QED BY <3>1, <3>2, <1>1, <1>2, <1>6 DEF ErrorsHaveHomes
  <2> QED BY <2>2, <2>3, <2>4, <2>5, <1>2, <1>4, <1>5 DEF IncInv
<1> QED BY <1>7, <1>8 DEF CompleteLoose

\* The generator ends, raises or is closed.
LEMMA GeneratorStops ==
  ASSUME IncInv, UnitRaises \/ EndStream \/ CloseGenerator
  PROVE  IncInv'
<1>1. /\ UNCHANGED <<initialCount, jobVars, errors, unit, loose, sent>>
      /\ running' = {}
      /\ \/ gen = "running" /\ gen' = "raised"
         \/ gen = "yielded" /\ gen' = "ended"
         \/ gen \in {"new", "yielded", "running"} /\ gen' = "closed"
  BY IncParts DEF UnitRaises, EndStream, CloseGenerator, workVars, UnitOfGen
<1>2. FalseHasNextIsLast' /\ ItemsInPlace' /\ PayloadErrorsAreOwn' /\ Delivered' = Delivered
  BY <1>1, SentStays
<1>3. IncTypeOK'
  BY <1>1, IncParts DEF IncTypeOK, jobVars
<1>4. UnitOfGen'
  BY <1>1, <1>2, IncParts DEF UnitOfGen
<1>5. MidItem' = MidItem
  BY <1>1, <1>2, JobKinds, IncParts DEF MidItem, UnitOfGen
<1>6. ListsAreTails' /\ ItemsGoForward'
  <2>1. ListsAreTails'
    BY <1>1, <1>5, IncParts DEF ListsAreTails, jobVars
  <2>2. ItemsGoForward'
    BY <1>1, IncParts DEF ItemsGoForward, jobVars
  <2> QED BY <2>1, <2>2
<1>7. ErrorsHaveHomes'
  BY <1>1, <1>2, IncParts DEF ErrorsHaveHomes, Told
<1>8. LastIsLast'
  BY <1>1, IncParts DEF LastIsLast, jobVars
<1>9. /\ Queued' = Queued /\ Begun \subseteq Begun' /\ Begun' \subseteq Begun \cup {Data}
      /\ (gen = "new" => Queued = {}) /\ (gen # "new" => Begun' = Begun)
  <2>1. Queued' = Queued
    BY <1>1 DEF Queued, jobVars
  <2>2. gen = "new" => Queued = {} /\ Delivered = {} /\ unit = Data
    BY IncParts DEF UnitOfGen, Queued, Delivered
  <2> QED BY <2>1, <2>2, <1>1, <1>2 DEF Begun
<1>10. NothingTwice'
  <2>1. (Queued \cap Begun)' = {}
    BY <1>9, IncParts DEF NothingTwice
  <2> QED BY <2>1, <1>1, IncParts DEF NothingTwice, jobVars
<1>11. WorkIsATree'
  <2>1. PICK S \in SUBSET Positions : ComesFromValues(S)
    BY IncParts DEF WorkIsATree
  <2>2. \A i \in DOMAIN streamed' : \E j \in DOMAIN streamed : streamed'[i].list = streamed[j].list
    BY <1>1 DEF jobVars
  <2>3. Active' \subseteq Active
    BY <1>1 DEF Active
  <2>4. ComesFromValues(S)'
    BY <2>1, <2>2, <2>3, <1>1, <1>9, TreeStays, IncParts
  <2> QED BY <2>4 DEF WorkIsATree
<1> QED BY <1>2, <1>3, <1>4, <1>6, <1>7, <1>8, <1>10, <1>11 DEF IncInv

\* The generator goes on with a unit of work, which leaves its queue.
LEMMA UnitStarts ==
  ASSUME IncInv, NEW u \in Jobs, Resume(u), errors' = {},
         UNCHANGED <<initialCount, loose, sent>>,
         (gen = "new" /\ u = Data) \/ (gen = "yielded" /\ u \in Queued),
         deferred' \in Seq(DeferJobs), streamed' \in Seq(Lists),
         Queued' \subseteq (Queued \cup DeferredBy(u)) \ {u},
         \A i \in DOMAIN streamed' : \E j \in DOMAIN streamed : streamed'[i].list = streamed[j].list,
         \A i, j \in DOMAIN deferred' : deferred'[i] = deferred'[j] => i = j,
         ListsAreTails', ItemsGoForward'
  PROVE  IncInv'
<1>1. gen' = "running" /\ unit' = u /\ running' = Kids(u)
  BY DEF Resume
<1>2. FalseHasNextIsLast' /\ ItemsInPlace' /\ PayloadErrorsAreOwn' /\ Delivered' = Delivered
  BY SentStays
<1>3. IncTypeOK'
  BY <1>1, IncParts DEF IncTypeOK, Kids
<1>4. running = {} /\ Begun' = Begun \cup {u} /\ u \notin Begun /\ u \notin Delivered
  <2>1. running = {}
    BY IncParts DEF UnitOfGen
  <2>2. CASE gen = "new"
    <3>1. Delivered = {} /\ Begun = {}
      BY <2>2, IncParts DEF UnitOfGen, Begun, Delivered
    <3> QED BY <2>1, <3>1, <1>1, <1>2 DEF Begun
  <2>3. CASE gen = "yielded"
    <3>1. Begun = Delivered /\ u \in Queued
      BY <2>3, IncParts DEF UnitOfGen, Begun
    <3> QED BY <2>1, <3>1, <1>1, <1>2, IncParts DEF Begun, NothingTwice
  <2> QED BY <2>2, <2>3
<1>5. UnitOfGen'
  BY <1>1, <1>2, <1>4 DEF UnitOfGen
<1>6. ErrorsHaveHomes'
  <2>1. \A c \in loose : Told(c.home)
    BY IncParts DEF ErrorsHaveHomes, UnitOfGen
  <2> QED BY <2>1 DEF ErrorsHaveHomes, Told
<1>7. LastIsLast'
  <2>1. CASE gen = "new"
    BY <2>1, IncParts DEF LastIsLast, UnitOfGen
  <2>2. CASE gen = "yielded"
    <3>1. ~(deferred = <<>> /\ streamed = <<>>)
      BY <2>2 DEF Queued
    <3> QED BY <3>1, IncParts DEF LastIsLast
  <2> QED BY <2>1, <2>2
<1>8. PICK S \in SUBSET Positions : ComesFromValues(S)
  BY IncParts DEF WorkIsATree
<1>9. Kids(u) \cap S = {} /\ DeferredBy(u) \cap (Queued \cup Begun) = {}
  BY <1>4, <1>8, UnitIsFresh, IncParts
<1>10. WorkIsATree'
  <2>1. Active' = Active \cup Kids(u)
    BY <1>1, <1>4 DEF Active
  <2>2. PICK T \in SUBSET Positions : T = S \cup Kids(u)
    BY DEF Kids
  <2>3. ComesFromValues(T)'
    BY <2>1, <2>2, <1>4, <1>8, TreeResumes, IncParts
  <2> QED BY <2>3 DEF WorkIsATree
<1>11. NothingTwice'
  <2>1. \A c \in loose : c.position \notin running'
    BY <1>1, <1>8, <1>9 DEF ComesFromValues, Active
  <2>2. (Queued \cap Begun)' = {}
    BY <1>4, <1>9, IncParts DEF NothingTwice
  <2> QED BY <2>1, <2>2, IncParts DEF NothingTwice
<1> QED BY <1>2, <1>3, <1>5, <1>6, <1>7, <1>10, <1>11 DEF IncInv

LEMMA DataStarts ==
  ASSUME IncInv, StartData
  PROVE  /\ IncInv'
         /\ Queued = {} /\ Queued' = DeferredBy(Data)
<1>1. /\ gen = "new" /\ gen' = "running" /\ unit' = Data /\ Data \in Jobs
      /\ deferred = <<>> /\ deferred' = WithDeferred(Deferrals[Data], deferred)
      /\ UNCHANGED <<initialCount, streamed, loose, sent>>
  BY JobKinds, IncParts DEF StartData, Resume, UnitOfGen
<1>2. /\ deferred' \in Seq(DeferJobs)
      /\ Queued' = Queued \cup DeferredBy(Data)
      /\ \A i, j \in DOMAIN deferred' : deferred'[i] = deferred'[j] => i = j
  <2>1. \A i \in DOMAIN deferred : FALSE
    BY <1>1
  <2> QED BY <2>1, <1>1, WithDeferredQueue, QueuedIsIn, IncParts DEF IncTypeOK
<1>3. Data \notin Queued'
  <2>1. Queued = {}
    BY IncParts, <1>1 DEF UnitOfGen, Queued
  <2> QED BY <1>2, <2>1, JobsDiffer DEF DeferredBy
<1>q. Queued = {}
  BY IncParts, <1>1 DEF UnitOfGen, Queued
<1>4. streamed = <<>> /\ sent = <<>> /\ ~MidItem'
  BY <1>1, JobKinds, IncParts DEF UnitOfGen, MidItem
<1>5. ListsAreTails' /\ ItemsGoForward'
  BY <1>1, <1>4 DEF ListsAreTails, ItemsGoForward
<1>6. errors' = {} /\ Resume(Data) /\ streamed' \in Seq(Lists)
  BY <1>1, IncParts DEF StartData, IncTypeOK
<1> QED BY <1>1, <1>2, <1>3, <1>5, <1>6, <1>q, UnitStarts

LEMMA HeadAndTail ==
  ASSUME NEW S, NEW s \in Seq(S), s # <<>>
  PROVE  /\ Head(s) = s[1] /\ Head(s) \in S /\ 1 \in DOMAIN s
         /\ Tail(s) \in Seq(S) /\ Len(s) \in Nat /\ Len(s) > 0 /\ Len(Tail(s)) = Len(s) - 1
         /\ DOMAIN s = 1..Len(s) /\ DOMAIN Tail(s) = 1..Len(s) - 1
         /\ \A i \in 1..Len(s) - 1 : Tail(s)[i] = s[i + 1]
BY HeadTailProperties, LenProperties, EmptySeq, ElementOfSeq

LEMMA DeferredStarts ==
  ASSUME IncInv, StartDeferred
  PROVE  /\ IncInv'
         /\ Queued' \cup {unit'} = Queued \cup DeferredBy(unit')
         /\ DeferredBy(unit') \cap (Queued \cup Begun) = {}
<1> DEFINE u == Head(deferred)
           rest == Tail(deferred)
<1>1. /\ gen = "yielded" /\ gen' = "running" /\ deferred # <<>>
      /\ unit' = u /\ errors' = {} /\ Resume(u)
      /\ deferred' = WithDeferred(Deferrals[u], rest)
      /\ UNCHANGED <<initialCount, streamed, loose, sent>>
  BY DEF StartDeferred, Resume, FreshErrors
<1>2. /\ u \in DeferJobs /\ u = deferred[1]
      /\ rest \in Seq(DeferJobs) /\ DOMAIN rest = 1..Len(deferred) - 1
      /\ DOMAIN deferred = 1..Len(deferred) /\ Len(deferred) \in Nat /\ Len(deferred) > 0
      /\ \A i \in 1..Len(deferred) - 1 : rest[i] = deferred[i + 1]
  BY <1>1, HeadAndTail, IncParts DEF IncTypeOK
<1>3. u \in Jobs /\ u.kind = "defer"
  BY <1>2, JobKinds DEF DeferJobs
<1> HIDE DEF u, rest
<1>4. u \in Queued
  BY <1>2, QueuedIsIn, InQueue
<1>5. /\ \A i, j \in DOMAIN rest : rest[i] = rest[j] => i = j
      /\ \A i \in DOMAIN rest : rest[i] # u
  <2>1. ASSUME NEW i \in DOMAIN rest, NEW j \in DOMAIN rest, rest[i] = rest[j] PROVE i = j
    <3>1. i + 1 \in DOMAIN deferred /\ j + 1 \in DOMAIN deferred /\ deferred[i + 1] = deferred[j + 1]
      BY <1>2, <2>1
    <3>2. i + 1 = j + 1
      BY <3>1, IncParts DEF NothingTwice
    <3> QED BY <3>2, <1>2
  <2>2. ASSUME NEW i \in DOMAIN rest, rest[i] = u PROVE FALSE
    <3>1. i + 1 \in DOMAIN deferred /\ 1 \in DOMAIN deferred /\ deferred[i + 1] = deferred[1]
      BY <1>2, <2>2
    <3>2. i + 1 = 1
      BY <3>1, IncParts DEF NothingTwice
    <3> QED BY <3>2, <1>2
  <2> QED BY <2>1, <2>2
<1>6. QueuedIn(rest, streamed) = Queued \ {u}
  <2>1. ASSUME NEW j \in QueuedIn(rest, streamed) PROVE j \in QueuedIn(deferred, streamed) /\ j # u
    <3>1. CASE \E i \in DOMAIN rest : j = rest[i]
      <4>1. PICK i \in DOMAIN rest : j = rest[i]
        BY <3>1
      <4>2. i + 1 \in DOMAIN deferred /\ j = deferred[i + 1]
        BY <4>1, <1>2
      <4> QED BY <4>1, <4>2, <1>5, InQueue
    <3>2. CASE \E i \in DOMAIN streamed : \E k \in DOMAIN streamed[i].items : j = Item(streamed[i].list, streamed[i].items[k])
      <4>1. j.kind = "item"
        BY <3>2, JobKinds
      <4> QED BY <4>1, <3>2, <1>3, InQueue
    <3> QED BY <3>1, <3>2, InQueue
  <2>2. ASSUME NEW j \in QueuedIn(deferred, streamed), j # u PROVE j \in QueuedIn(rest, streamed)
    <3>1. CASE \E i \in DOMAIN deferred : j = deferred[i]
      <4>1. PICK i \in DOMAIN deferred : j = deferred[i]
        BY <3>1
      <4>2. i - 1 \in DOMAIN rest /\ j = rest[i - 1]
        BY <4>1, <1>2, <2>2
      <4> QED BY <4>2, InQueue
    <3>2. CASE \E i \in DOMAIN streamed : \E k \in DOMAIN streamed[i].items : j = Item(streamed[i].list, streamed[i].items[k])
      BY <3>2, InQueue
    <3> QED BY <2>2, <3>1, <3>2, InQueue
  <2> QED BY <2>1, <2>2, QueuedIsIn
<1>7. PICK S \in SUBSET Positions : ComesFromValues(S)
  BY IncParts DEF WorkIsATree
<1>8. u \notin Begun /\ DeferredBy(u) \cap (Queued \cup Begun) = {}
  <2>1. u \notin Begun
    BY <1>4, IncParts DEF NothingTwice
  <2> QED BY <2>1, <1>3, <1>4, <1>7, UnitIsFresh, IncParts
<1>9. /\ deferred' \in Seq(DeferJobs)
      /\ Queued' = (Queued \cup DeferredBy(u)) \ {u}
      /\ \A i, j \in DOMAIN deferred' : deferred'[i] = deferred'[j] => i = j
  <2>1. \A i \in DOMAIN rest : rest[i] \in Queued
    BY <1>6, InQueue
  <2>2. \A i \in DOMAIN rest : rest[i] \notin DeferredBy(u)
    BY <2>1, <1>8
  <2>3. /\ deferred' \in Seq(DeferJobs)
        /\ QueuedIn(deferred', streamed') = QueuedIn(rest, streamed') \cup DeferredBy(u)
        /\ \A i, j \in DOMAIN deferred' : deferred'[i] = deferred'[j] => i = j
    BY <2>2, <1>1, <1>2, <1>3, <1>5, WithDeferredQueue
  <2> QED BY <2>3, <1>1, <1>4, <1>6, <1>8, QueuedIsIn
<1>10. ListsAreTails' /\ ItemsGoForward'
  <2>1. ~MidItem' /\ ~MidItem
    BY <1>1, <1>3 DEF MidItem
  <2>2. ListsAreTails'
    BY <2>1, <1>1, IncParts DEF ListsAreTails
  <2>3. ItemsGoForward'
    BY <1>1, IncParts DEF ItemsGoForward
  <2> QED BY <2>2, <2>3
<1>11. streamed' \in Seq(Lists)
  BY <1>1, IncParts DEF IncTypeOK
<1>12. IncInv'
  BY <1>1, <1>3, <1>4, <1>9, <1>10, <1>11, UnitStarts
<1>13. /\ Queued' \cup {unit'} = Queued \cup DeferredBy(unit')
       /\ DeferredBy(unit') \cap (Queued \cup Begun) = {}
  BY <1>1, <1>4, <1>8, <1>9
<1> QED BY <1>12, <1>13

\* The items of two lists that are queued differ, and so do those of one list.
LEMMA ItemsDiffer ==
  ASSUME IncTypeOK, ListsAreTails,
         NEW i \in DOMAIN streamed, NEW k \in DOMAIN streamed[i].items,
         NEW j \in DOMAIN streamed, NEW l \in DOMAIN streamed[j].items,
         Item(streamed[i].list, streamed[i].items[k]) = Item(streamed[j].list, streamed[j].items[l])
  PROVE  i = j /\ k = l
<1>1. streamed[i].list = streamed[j].list /\ streamed[i].items[k] = streamed[j].items[l]
  BY JobsDiffer
<1>2. i = j
  BY <1>1 DEF ListsAreTails
<1>3. streamed[i] \in Lists
  BY ElementOfSeq, LenProperties DEF IncTypeOK
<1>4. /\ DOMAIN streamed[i].items = 1..Len(streamed[i].items)
      /\ Len(streamed[i].items) \in Nat /\ Length[streamed[i].list] \in Nat
  BY <1>3, LenProperties, IncrementalAssumption DEF Lists
<1>5. \A n \in 1..Len(streamed[i].items) :
        streamed[i].items[n] = Length[streamed[i].list] - Len(streamed[i].items) + n
  BY DEF ListsAreTails
<1> QED BY <1>1, <1>2, <1>4, <1>5

\* The list at the head of the queue.
LEMMA FirstList ==
  ASSUME IncTypeOK, ListsAreTails, streamed # <<>>
  PROVE  /\ 1 \in DOMAIN streamed /\ streamed[1] \in Lists
         /\ streamed[1].list \in Streams /\ streamed[1].next \in Nat
         /\ Length[streamed[1].list] \in Nat
         /\ streamed[1].items \in Seq(Nat)
         /\ Len(streamed[1].items) \in Nat /\ Len(streamed[1].items) <= Length[streamed[1].list]
         /\ DOMAIN streamed[1].items = 1..Len(streamed[1].items)
         /\ \A k \in 1..Len(streamed[1].items) :
              streamed[1].items[k] = Length[streamed[1].list] - Len(streamed[1].items) + k
<1>1. 1 \in DOMAIN streamed /\ streamed[1] \in Lists
  BY HeadAndTail DEF IncTypeOK
<1>2. /\ streamed[1].list \in Streams /\ streamed[1].next \in Nat
      /\ streamed[1].items \in Seq(Nat)
      /\ Length[streamed[1].list] \in Nat
  BY <1>1, IncrementalAssumption DEF Lists
<1>3. /\ Len(streamed[1].items) \in Nat
      /\ DOMAIN streamed[1].items = 1..Len(streamed[1].items)
  BY <1>2, LenProperties
<1>4. /\ Len(streamed[1].items) <= Length[streamed[1].list] - Most(0, initialCount)
      /\ \A k \in 1..Len(streamed[1].items) :
           streamed[1].items[k] = Length[streamed[1].list] - Len(streamed[1].items) + k
  BY <1>1 DEF ListsAreTails
<1>5. Most(0, initialCount) \in Nat
  BY MostIsNat DEF IncTypeOK
<1>6. Len(streamed[1].items) <= Length[streamed[1].list]
  BY <1>2, <1>3, <1>4, <1>5
<1> QED BY <1>1, <1>2, <1>3, <1>4, <1>6

LEMMA ItemStarts ==
  ASSUME IncInv, StartItem
  PROVE  IncInv' /\ Queued' \cup {unit'} = Queued
<1> DEFINE q == streamed[1]
           n == Len(q.items)
           u == Item(q.list, Head(q.items))
           r == [q EXCEPT !.items = Tail(@)]
<1>1. /\ gen = "yielded" /\ gen' = "running" /\ streamed # <<>> /\ deferred = <<>>
      /\ unit' = u /\ errors' = {} /\ Resume(u)
      /\ streamed' = [streamed EXCEPT ![1] = r]
      /\ UNCHANGED <<initialCount, deferred, loose, sent>>
  BY DEF StartItem, Resume, FreshErrors
<1>2. /\ 1 \in DOMAIN streamed /\ q \in Lists /\ q.list \in Streams /\ q.next \in Nat
      /\ Length[q.list] \in Nat /\ q.items \in Seq(Nat) /\ n \in Nat /\ n <= Length[q.list]
      /\ DOMAIN q.items = 1..n
      /\ \A k \in 1..n : q.items[k] = Length[q.list] - n + k
  BY <1>1, FirstList, IncParts
<1>3. ~MidItem /\ q.items # <<>> /\ q.next = Length[q.list] - n
      /\ n <= Length[q.list] - Most(0, initialCount)
  <2>1. ~MidItem
    BY <1>1 DEF MidItem
  <2> QED BY <2>1, <1>2, IncParts DEF ListsAreTails
<1>q. q = streamed[1] /\ n = Len(q.items)
  OBVIOUS
<1> HIDE DEF q, n
<1>4. /\ n > 0 /\ Head(q.items) = Length[q.list] - n + 1
      /\ Tail(q.items) \in Seq(Nat) /\ Len(Tail(q.items)) = n - 1
      /\ DOMAIN Tail(q.items) = 1..n - 1
      /\ \A k \in 1..n - 1 : Tail(q.items)[k] = q.items[k + 1]
  <2>1. /\ Head(q.items) = q.items[1] /\ n > 0
        /\ Tail(q.items) \in Seq(Nat) /\ Len(Tail(q.items)) = n - 1
        /\ DOMAIN Tail(q.items) = 1..n - 1
        /\ \A k \in 1..n - 1 : Tail(q.items)[k] = q.items[k + 1]
    BY <1>2, <1>3, <1>q, HeadAndTail
  <2>2. Head(q.items) = Length[q.list] - n + 1
    BY <2>1, <1>2
  <2> QED BY <2>1, <2>2
<1>i. n \in Nat /\ \A k \in 1..n - 1 : k \in Nat /\ k + 1 \in 1..n
  <2>1. n \in Nat
    BY <1>2
  <2> QED BY <2>1
<1>5. u \in Jobs /\ u.kind = "item" /\ u.list = q.list /\ u.number = Length[q.list] - n + 1
  <2>1. Length[q.list] - n + 1 \in 1..Length[q.list]
    BY <1>2, <1>4
  <2> QED BY <2>1, <1>2, <1>4, JobKinds
<1>6. /\ r \in Lists /\ r.list = q.list /\ r.next = q.next /\ r.items = Tail(q.items)
  BY <1>2, <1>4 DEF Lists
<1> HIDE DEF r
<1>7. /\ streamed' \in Seq(Lists) /\ DOMAIN streamed' = DOMAIN streamed
      /\ streamed'[1] = r
      /\ \A i \in DOMAIN streamed : i # 1 => streamed'[i] = streamed[i]
  BY <1>1, <1>2, <1>6, IncParts DEF IncTypeOK
<1>8. \A i \in DOMAIN streamed : streamed'[i].list = streamed[i].list
  BY <1>6, <1>7, <1>q
<1>9. u \in Queued
  <2>1. 1 \in DOMAIN q.items /\ u = Item(q.list, q.items[1])
    BY <1>2, <1>4
  <2> QED BY <2>1, <1>2, <1>q, QueuedIsIn, InQueue
<1>10. Queued' \subseteq Queued \ {u}
  <2>1. ASSUME NEW j \in Queued' PROVE j \in Queued /\ j # u
    <3>1. \A i \in DOMAIN deferred : FALSE
      BY <1>1
    <3>2. PICK i \in DOMAIN streamed' :
            \E k \in DOMAIN streamed'[i].items : j = Item(streamed'[i].list, streamed'[i].items[k])
      <4>1. deferred' = deferred
        BY <1>1
      <4>2. j \in QueuedIn(deferred', streamed')
        BY <2>1, QueuedIsIn
      <4> QED BY <4>1, <4>2, <3>1, InQueue
    <3>3. PICK k \in DOMAIN streamed'[i].items : j = Item(streamed'[i].list, streamed'[i].items[k])
      BY <3>2
    <3>4. CASE i = 1
      <4>0. k \in 1..n - 1 /\ j = Item(q.list, Tail(q.items)[k])
        BY <3>3, <3>4, <1>4, <1>6, <1>7
      <4>1. k + 1 \in DOMAIN q.items /\ j = Item(q.list, q.items[k + 1])
        <5>1. k + 1 \in DOMAIN q.items
          BY <4>0, <1>i, <1>2
        <5>2. Tail(q.items)[k] = q.items[k + 1]
          BY <4>0, <1>4
        <5> QED BY <4>0, <5>1, <5>2
      <4>2. j \in Queued
        BY <4>1, <1>2, <1>q, QueuedIsIn, InQueue
      <4>3. j # u
        <5>1. q.items[k + 1] = Length[q.list] - n + (k + 1) /\ k + 1 \in 1..n
          BY <4>1, <1>2
        <5>2. k # 0 /\ k \in Nat
          BY <4>0, <1>2
        <5>3. q.items[k + 1] # Head(q.items)
          BY <5>1, <5>2, <1>2, <1>4
        <5> QED BY <4>1, <5>3, JobsDiffer
      <4> QED BY <4>2, <4>3
    <3>5. CASE i # 1
      <4>1. i \in DOMAIN streamed /\ k \in DOMAIN streamed[i].items
            /\ j = Item(streamed[i].list, streamed[i].items[k])
        BY <3>3, <3>5, <1>7
      <4>2. j \in Queued
        BY <4>1, QueuedIsIn, InQueue
      <4>3. j # u
        <5>1. streamed[i].list # q.list
          BY <3>5, <4>1, <1>2, <1>q, IncParts DEF ListsAreTails
        <5> QED BY <4>1, <5>1, JobsDiffer
      <4> QED BY <4>2, <4>3
    <3> QED BY <3>4, <3>5
  <2> QED BY <2>1
<1>11. ASSUME NEW i \in DOMAIN streamed'
       PROVE  LET s == streamed'[i] IN
              /\ Len(s.items) <= Length[s.list] - Most(0, initialCount)
              /\ \A k \in 1..Len(s.items) : s.items[k] = Length[s.list] - Len(s.items) + k
              /\ i # 1 => s.items # <<>> /\ s.next = Length[s.list] - Len(s.items)
              /\ \A j \in DOMAIN streamed' : streamed'[j].list = s.list => j = i
  <2>1. \A j \in DOMAIN streamed' : streamed'[j].list = streamed'[i].list => j = i
    BY <1>7, <1>8, IncParts DEF ListsAreTails
  <2>2. CASE i = 1
    <3>1. Len(r.items) = n - 1 /\ r.list = q.list
      BY <1>4, <1>6
    <3>2. Len(r.items) <= Length[r.list] - Most(0, initialCount)
      <4>1. Most(0, initialCount) \in Nat
        BY MostIsNat, IncParts DEF IncTypeOK
      <4> DEFINE m == Most(0, initialCount)
                 L == Length[q.list]
      <4>2. m \in Nat /\ L \in Nat /\ n \in Nat /\ n <= L - m
        BY <4>1, <1>2, <1>3
      <4> HIDE DEF m, L
      <4>3. n - 1 <= L - m
        BY <4>2
      <4> QED BY <4>3, <3>1 DEF m, L
    <3>3. ASSUME NEW k \in 1..Len(r.items) PROVE r.items[k] = Length[r.list] - Len(r.items) + k
      <4> DEFINE L == Length[q.list]
      <4>1. k \in 1..n - 1 /\ k + 1 \in 1..n
        <5>1. k \in 1..n - 1
          BY <3>1, <3>3
        <5> QED BY <5>1, <1>i
      <4>2. r.items[k] = q.items[k + 1] /\ L \in Nat
        BY <4>1, <1>2, <1>4, <1>6
      <4>3. q.items[k + 1] = L - n + (k + 1)
        BY <4>1, <1>2
      <4> HIDE DEF L
      <4>4. r.items[k] = L - (n - 1) + k
        BY <4>1, <4>2, <4>3, <1>2
      <4> QED BY <4>4, <3>1 DEF L
    <3> QED BY <2>1, <2>2, <3>2, <3>3, <1>7
  <2>3. CASE i # 1
    BY <2>1, <2>3, <1>3, <1>7, IncParts DEF ListsAreTails
  <2> QED BY <2>2, <2>3
<1>12. sent' = sent /\ Delivered' = Delivered /\ initialCount' = initialCount
  BY <1>1 DEF Delivered
<1>13. ListsAreTails'
  <2>1. u \notin Delivered
    BY <1>1, <1>9, IncParts DEF NothingTwice, Begun
  <2>2. MidItem'
    BY <1>1, <1>5, <1>12, <2>1 DEF MidItem
  <2>3. /\ streamed' # <<>>
        /\ unit'.list = streamed'[1].list
        /\ unit'.number = Length[unit'.list] - Len(streamed'[1].items)
        /\ streamed'[1].next = unit'.number - 1
    <3>1. unit' = u /\ streamed' # <<>>
      BY <1>1, <1>2, <1>7
    <3>2. Len(streamed'[1].items) = n - 1 /\ streamed'[1].list = q.list
          /\ streamed'[1].next = Length[q.list] - n
      BY <1>3, <1>4, <1>6, <1>7
    <3>3. u.list = q.list /\ u.number = Length[q.list] - n + 1
      BY <1>5
    <3> DEFINE L == Length[q.list]
    <3>4. L \in Nat /\ n \in Nat
      BY <1>2
    <3> HIDE DEF u, L
    <3>5. L - n + 1 = L - (n - 1) /\ L - n = (L - n + 1) - 1
      BY <3>4
    <3> QED BY <3>1, <3>2, <3>3, <3>5 DEF L
  <2> HIDE DEF u
  <2> QED BY <2>2, <2>3, <1>11, <1>12 DEF ListsAreTails
<1>14. ItemsGoForward'
  <2>1. ASSUME NEW i \in DOMAIN sent, sent[i].job.kind = "item",
               NEW j \in DOMAIN streamed', streamed'[j].list = sent[i].job.list
        PROVE  sent[i].job.number <= Length[sent[i].job.list] - Len(streamed'[j].items)
    <3>1. sent[i].job.number <= Length[sent[i].job.list] - Len(streamed[j].items) /\ j \in DOMAIN streamed
      BY <2>1, <1>7, <1>8, IncParts DEF ItemsGoForward
    <3>2. CASE j # 1
      BY <3>1, <3>2, <1>7
    <3>3. CASE j = 1
      <4>1. sent[i].job.list = q.list /\ Len(streamed'[j].items) = n - 1
        BY <2>1, <3>3, <1>4, <1>6, <1>7
      <4>2. sent[i].job \in Jobs
        BY BegunAreJobs, IncParts DEF Delivered
      <4>3. sent[i].job.number \in Nat
        BY <4>2, <2>1, JobCases, JobKinds
      <4> DEFINE L == Length[q.list]
      <4>4. L \in Nat /\ n \in Nat /\ sent[i].job.number <= L - n
        BY <3>1, <3>3, <4>1, <1>2, <1>q
      <4> HIDE DEF L
      <4>5. sent[i].job.number <= L - (n - 1)
        BY <4>3, <4>4
      <4> QED BY <4>1, <4>5 DEF L
    <3> QED BY <3>2, <3>3
  <2> QED BY <2>1, <1>12, IncParts DEF ItemsGoForward
<1>15. deferred' \in Seq(DeferJobs) /\ \A i, j \in DOMAIN deferred' : deferred'[i] = deferred'[j] => i = j
  BY <1>1, IncParts DEF IncTypeOK, NothingTwice
<1>16. \A i \in DOMAIN streamed' : \E j \in DOMAIN streamed : streamed'[i].list = streamed[j].list
  BY <1>7, <1>8
<1> HIDE DEF u
<1>17. IncInv'
  BY <1>1, <1>5, <1>7, <1>9, <1>10, <1>13, <1>14, <1>15, <1>16, UnitStarts
<1>18. ASSUME NEW j \in Queued, j # u PROVE j \in Queued'
  <2>1. \A i \in DOMAIN deferred : FALSE
    BY <1>1
  <2>2. PICK i \in DOMAIN streamed : \E k \in DOMAIN streamed[i].items : j = Item(streamed[i].list, streamed[i].items[k])
    BY <1>18, <2>1, QueuedIsIn, InQueue
  <2>3. PICK k \in DOMAIN streamed[i].items : j = Item(streamed[i].list, streamed[i].items[k])
    BY <2>2
  <2>4. CASE i = 1
    <3>1. k \in 1..n /\ j = Item(q.list, q.items[k])
      BY <2>3, <2>4, <1>2, <1>q
    <3>2. k # 1
      <4>1. u = Item(q.list, q.items[1])
        BY <1>2, <1>4 DEF u
      <4> QED BY <3>1, <4>1, <1>18
    <3>3. k - 1 \in 1..n - 1 /\ (k - 1) + 1 = k
      BY <3>1, <3>2, <1>i
    <3>4. k - 1 \in DOMAIN streamed'[1].items /\ streamed'[1].items[k - 1] = q.items[k]
          /\ streamed'[1].list = q.list
      BY <3>3, <1>4, <1>6, <1>7
    <3>5. 1 \in DOMAIN streamed'
      BY <1>2, <1>7
    <3> QED BY <3>1, <3>4, <3>5, QueuedIsIn, InQueue
  <2>5. CASE i # 1
    BY <2>3, <2>5, <1>7, QueuedIsIn, InQueue
  <2> QED BY <2>4, <2>5
<1>19. Queued' \cup {unit'} = Queued
  BY <1>1, <1>9, <1>10, <1>18
<1> QED BY <1>17, <1>19

\* After its item the list goes on behind that item, or leaves the queue.
LEMMA AfterItem ==
  ASSUME IncInv, MidItem, NEW new, new = Advanced
  PROVE  /\ new \in Seq(Lists)
         /\ QueuedIn(deferred, new) = QueuedIn(deferred, streamed)
         /\ \A i \in DOMAIN new :
              /\ \E j \in DOMAIN streamed : new[i].list = streamed[j].list /\ new[i].items = streamed[j].items
              /\ new[i].items # <<>> /\ new[i].next = Length[new[i].list] - Len(new[i].items)
              /\ \A j \in DOMAIN new : new[j].list = new[i].list => j = i
<1>1. /\ streamed # <<>> /\ unit.list = streamed[1].list
      /\ unit.number = Length[unit.list] - Len(streamed[1].items)
      /\ streamed[1].next = unit.number - 1
  BY IncParts DEF ListsAreTails
<1>2. /\ 1 \in DOMAIN streamed /\ streamed[1] \in Lists /\ streamed[1].next \in Nat
      /\ streamed \in Seq(Lists) /\ Len(streamed) \in Nat /\ Len(streamed) > 0
      /\ DOMAIN streamed = 1..Len(streamed)
  BY <1>1, FirstList, HeadAndTail, IncParts DEF IncTypeOK
<1>3. \A i \in DOMAIN streamed : i # 1 =>
        streamed[i].items # <<>> /\ streamed[i].next = Length[streamed[i].list] - Len(streamed[i].items)
  BY IncParts DEF ListsAreTails
<1>4. \A i, j \in DOMAIN streamed : streamed[j].list = streamed[i].list => j = i
  BY IncParts DEF ListsAreTails
<1>5. CASE streamed[1].items = <<>>
  <2>1. new = Tail(streamed)
    BY <1>5 DEF Advanced
  <2>2. /\ new \in Seq(Lists) /\ DOMAIN new = 1..Len(streamed) - 1
        /\ \A i \in 1..Len(streamed) - 1 : new[i] = streamed[i + 1]
    BY <2>1, <1>1, <1>2, HeadAndTail
  <2>3. \A i \in DOMAIN new : i + 1 \in DOMAIN streamed /\ i + 1 # 1 /\ i \in Nat /\ new[i] = streamed[i + 1]
    BY <2>2, <1>2
  <2>4. \A i \in DOMAIN streamed : i # 1 => i - 1 \in DOMAIN new /\ new[i - 1] = streamed[i]
    BY <2>2, <1>2
  <2>5. \A k \in DOMAIN streamed[1].items : FALSE
    BY <1>5
  <2>6. ASSUME NEW j PROVE j \in QueuedIn(deferred, new) <=> j \in QueuedIn(deferred, streamed)
    <3>1. (\E i \in DOMAIN new : \E k \in DOMAIN new[i].items : j = Item(new[i].list, new[i].items[k]))
            <=> \E i \in DOMAIN streamed : \E k \in DOMAIN streamed[i].items :
                  j = Item(streamed[i].list, streamed[i].items[k])
      BY <2>3, <2>4, <2>5
    <3>2. j \in QueuedIn(deferred, new) <=>
            \/ \E i \in DOMAIN deferred : j = deferred[i]
            \/ \E i \in DOMAIN new : \E k \in DOMAIN new[i].items : j = Item(new[i].list, new[i].items[k])
      BY InQueue
    <3>3. j \in QueuedIn(deferred, streamed) <=>
            \/ \E i \in DOMAIN deferred : j = deferred[i]
            \/ \E i \in DOMAIN streamed : \E k \in DOMAIN streamed[i].items :
                  j = Item(streamed[i].list, streamed[i].items[k])
      BY InQueue
    <3> QED BY <3>1, <3>2, <3>3, Zenon
  <2>7. ASSUME NEW i \in DOMAIN new, NEW j \in DOMAIN new, new[j].list = new[i].list PROVE j = i
    <3>1. j + 1 = i + 1
      BY <2>3, <2>7, <1>4
    <3> QED BY <3>1, <2>3
  <2>8. ASSUME NEW i \in DOMAIN new
        PROVE  /\ \E j \in DOMAIN streamed : new[i].list = streamed[j].list /\ new[i].items = streamed[j].items
               /\ new[i].items # <<>> /\ new[i].next = Length[new[i].list] - Len(new[i].items)
    BY <2>3, <1>3
  <2>9. QueuedIn(deferred, new) = QueuedIn(deferred, streamed)
    BY <2>6
  <2> QED BY <2>2, <2>7, <2>8, <2>9
<1>6. CASE streamed[1].items # <<>>
  <2> DEFINE r == [streamed[1] EXCEPT !.next = @ + 1]
  <2>1. new = [streamed EXCEPT ![1] = r]
    BY <1>6 DEF Advanced
  <2>2. r \in Lists /\ r.list = streamed[1].list /\ r.items = streamed[1].items
        /\ r.next = streamed[1].next + 1
    <3>1. streamed[1] \in Lists
      BY <1>2
    <3> DEFINE q == streamed[1]
    <3>2. q \in [list : Streams, next : Nat, items : Seq(Nat)]
      BY <3>1 DEF Lists
    <3>3. r = [q EXCEPT !.next = @ + 1]
      OBVIOUS
    <3> HIDE DEF q, r
    <3>4. r \in [list : Streams, next : Nat, items : Seq(Nat)]
          /\ r.list = q.list /\ r.items = q.items /\ r.next = q.next + 1
      BY <3>2, <3>3
    <3> QED BY <3>4 DEF Lists, q
  <2> HIDE DEF r
  <2>3. /\ new \in Seq(Lists) /\ DOMAIN new = DOMAIN streamed /\ new[1] = r
        /\ \A i \in DOMAIN streamed : i # 1 => new[i] = streamed[i]
    BY <2>1, <2>2, <1>2
  <2>4. \A i \in DOMAIN streamed : new[i].list = streamed[i].list /\ new[i].items = streamed[i].items
    BY <2>2, <2>3
  <2>5. QueuedIn(deferred, new) = QueuedIn(deferred, streamed)
    <3>1. ASSUME NEW j PROVE j \in QueuedIn(deferred, new) <=> j \in QueuedIn(deferred, streamed)
      <4>1. (\E i \in DOMAIN new : \E k \in DOMAIN new[i].items : j = Item(new[i].list, new[i].items[k]))
              <=> \E i \in DOMAIN streamed : \E k \in DOMAIN streamed[i].items :
                    j = Item(streamed[i].list, streamed[i].items[k])
        BY <2>3, <2>4
      <4>2. j \in QueuedIn(deferred, new) <=>
              \/ \E i \in DOMAIN deferred : j = deferred[i]
              \/ \E i \in DOMAIN new : \E k \in DOMAIN new[i].items : j = Item(new[i].list, new[i].items[k])
        BY InQueue
      <4>3. j \in QueuedIn(deferred, streamed) <=>
              \/ \E i \in DOMAIN deferred : j = deferred[i]
              \/ \E i \in DOMAIN streamed : \E k \in DOMAIN streamed[i].items :
                    j = Item(streamed[i].list, streamed[i].items[k])
        BY InQueue
      <4> QED BY <4>1, <4>2, <4>3, Zenon
    <3> QED BY <3>1
  <2>6. ASSUME NEW i \in DOMAIN new
        PROVE  new[i].items # <<>> /\ new[i].next = Length[new[i].list] - Len(new[i].items)
    <3>1. CASE i = 1
      <4>1. new[i].items = streamed[1].items /\ new[i].list = unit.list
            /\ new[i].next = streamed[1].next + 1
        BY <3>1, <2>2, <2>3, <1>1
      <4>2. unit.number = streamed[1].next + 1
        <5>1. unit.number \in Int
          <6>1. /\ Length[streamed[1].list] \in Nat /\ Len(streamed[1].items) \in Nat
            BY <1>1, FirstList, IncParts
          <6> QED BY <6>1, <1>1
        <5> QED BY <5>1, <1>1, <1>2
      <4> QED BY <4>1, <4>2, <1>1, <1>6
    <3>2. CASE i # 1
      BY <3>2, <2>3, <1>3
    <3> QED BY <3>1, <3>2
  <2>7. ASSUME NEW i \in DOMAIN new, NEW j \in DOMAIN new, new[j].list = new[i].list PROVE j = i
    BY <2>3, <2>4, <2>7, <1>4
  <2> QED BY <2>3, <2>4, <2>5, <2>6, <2>7
<1> QED BY <1>5, <1>6

\* The payload of the unit that ran is yielded.
LEMMA PayloadQueues ==
  ASSUME IncInv, YieldPayload
  PROVE  /\ streamed' \in Seq(Lists) /\ Queued' = Queued
         /\ \A i \in DOMAIN streamed' :
              /\ \E j \in DOMAIN streamed : streamed'[i].list = streamed[j].list
                                            /\ streamed'[i].items = streamed[j].items
              /\ streamed'[i].items # <<>>
              /\ streamed'[i].next = Length[streamed'[i].list] - Len(streamed'[i].items)
              /\ \A j \in DOMAIN streamed' : streamed'[j].list = streamed'[i].list => j = i
<1>1. unit \notin Delivered /\ gen = "running" /\ deferred' = deferred
  BY IncParts DEF YieldPayload, UnitOfGen
<1>2. CASE unit.kind = "item"
  <2>1. MidItem
    BY <1>1, <1>2 DEF MidItem
  <2>2. streamed' = Advanced
    BY <1>2 DEF YieldPayload
  <2>3. PICK new : new = Advanced
    OBVIOUS
  <2>4. /\ new \in Seq(Lists)
        /\ QueuedIn(deferred, new) = QueuedIn(deferred, streamed)
        /\ \A i \in DOMAIN new :
             /\ \E j \in DOMAIN streamed : new[i].list = streamed[j].list /\ new[i].items = streamed[j].items
             /\ new[i].items # <<>> /\ new[i].next = Length[new[i].list] - Len(new[i].items)
             /\ \A j \in DOMAIN new : new[j].list = new[i].list => j = i
    BY <2>1, <2>3, AfterItem
  <2> QED BY <2>2, <2>3, <2>4, <1>1, QueuedIsIn
<1>3. CASE unit.kind # "item"
  <2>1. streamed' = streamed /\ ~MidItem
    BY <1>3 DEF YieldPayload, MidItem
  <2>2. Queued' = Queued
    BY <2>1, <1>1 DEF Queued
  <2> QED BY <2>1, <2>2, IncParts DEF ListsAreTails, IncTypeOK
<1> QED BY <1>2, <1>3

LEMMA PayloadYielded ==
  ASSUME IncInv, YieldPayload
  PROVE  IncInv'
<1> DEFINE e == [job |-> unit, at |-> IF unit.kind = "item" THEN streamed[1].next ELSE 0,
                 errors |-> errors', hasNext |-> More(deferred, streamed'), abandoned |-> loose # {}]
           n == Len(sent)
<1>1. /\ gen = "running" /\ running = {} /\ gen' = "yielded"
      /\ errors' = errors \cup {unit}
      /\ sent' = Append(sent, e)
      /\ UNCHANGED <<initialCount, deferred, unit, running, loose>>
  BY DEF YieldPayload
<1>2. /\ streamed' \in Seq(Lists) /\ Queued' = Queued
      /\ \A i \in DOMAIN streamed' :
           /\ \E j \in DOMAIN streamed : streamed'[i].list = streamed[j].list
                                         /\ streamed'[i].items = streamed[j].items
           /\ streamed'[i].items # <<>>
           /\ streamed'[i].next = Length[streamed'[i].list] - Len(streamed'[i].items)
           /\ \A j \in DOMAIN streamed' : streamed'[j].list = streamed'[i].list => j = i
  BY PayloadQueues
<1>3. unit \notin Delivered
  BY <1>1, IncParts DEF UnitOfGen
<1>4. unit.kind = "item" =>
        /\ streamed # <<>> /\ unit.list = streamed[1].list
        /\ unit.number = Length[unit.list] - Len(streamed[1].items)
        /\ streamed[1].next = unit.number - 1
        /\ streamed[1].next \in Nat /\ 1 \in DOMAIN streamed
  <2>1. ASSUME unit.kind = "item" PROVE MidItem
    BY <2>1, <1>1, <1>3 DEF MidItem
  <2>2. ASSUME MidItem
        PROVE  /\ streamed # <<>> /\ unit.list = streamed[1].list
               /\ unit.number = Length[unit.list] - Len(streamed[1].items)
               /\ streamed[1].next = unit.number - 1
    BY <2>2, IncParts DEF ListsAreTails
  <2> QED BY <2>1, <2>2, FirstList, IncParts
<1>5. /\ e \in Payloads
      /\ e.job = unit /\ e.errors = errors' /\ e.hasNext = More(deferred, streamed')
      /\ e.abandoned = (loose # {})
      /\ unit.kind = "item" => e.at = unit.number - 1
  <2>1. (IF unit.kind = "item" THEN streamed[1].next ELSE 0) \in Nat
    BY <1>4
  <2>2. errors' \in SUBSET Jobs /\ unit \in Jobs
    BY <1>1, IncParts DEF IncTypeOK
  <2>3. More(deferred, streamed') \in BOOLEAN /\ (loose # {}) \in BOOLEAN
    BY DEF More
  <2>4. e \in Payloads
    BY <2>1, <2>2, <2>3 DEF Payloads
  <2> QED BY <2>4, <1>4
<1> HIDE DEF e
<1>6. /\ sent' \in Seq(Payloads) /\ n \in Nat /\ Len(sent') = n + 1
      /\ DOMAIN sent' = 1..n + 1 /\ DOMAIN sent = 1..n
      /\ \A i \in 1..n : sent'[i] = sent[i]
      /\ sent'[n + 1] = e
  BY <1>1, <1>5, AppendIs, IncParts DEF IncTypeOK
<1> HIDE DEF n
<1>7. \A i \in DOMAIN sent' :
        (i \in DOMAIN sent /\ sent'[i] = sent[i]) \/ (i = n + 1 /\ sent'[i] = e)
  BY <1>6
<1>8. \A i \in DOMAIN sent : i \in DOMAIN sent' /\ sent'[i] = sent[i] /\ i < n + 1 /\ i \in Nat
  BY <1>6
<1>9. n + 1 \in DOMAIN sent'
  BY <1>6
<1>10. Delivered' = Delivered \cup {unit}
  <2>1. ASSUME NEW j PROVE j \in Delivered' <=> j \in Delivered \cup {unit}
    <3>1. j \in Delivered' <=> \E i \in DOMAIN sent' : j = sent'[i].job
      BY DEF Delivered
    <3>2. j \in Delivered <=> \E i \in DOMAIN sent : j = sent[i].job
      BY DEF Delivered
    <3> QED BY <3>1, <3>2, <1>5, <1>6, <1>7, <1>8, <1>9
  <2> QED BY <2>1
<1>11. IncTypeOK'
  BY <1>1, <1>2, <1>6, IncParts DEF IncTypeOK
<1>12. UnitOfGen'
  BY <1>1, <1>10 DEF UnitOfGen
<1>13. ~MidItem'
  BY <1>1 DEF MidItem
<1>14. ListsAreTails'
  <2>1. ASSUME NEW i \in DOMAIN streamed'
        PROVE  /\ Len(streamed'[i].items) <= Length[streamed'[i].list] - Most(0, initialCount)
               /\ \A k \in 1..Len(streamed'[i].items) :
                    streamed'[i].items[k] = Length[streamed'[i].list] - Len(streamed'[i].items) + k
    BY <1>2, IncParts DEF ListsAreTails
  <2> QED BY <2>1, <1>1, <1>2, <1>13 DEF ListsAreTails
<1>15. \A u : Told(u) => Told(u)'
  BY <1>8 DEF Told
<1>17. ErrorsHaveHomes'
  <2>1. ASSUME NEW c \in loose, NEW u, u = c.home PROVE Told(u)'
    <3>1. u = unit \/ Told(u)
      BY <2>1, IncParts DEF ErrorsHaveHomes
    <3>2. CASE u = unit
      BY <2>1, <3>2, <1>5, <1>6, <1>9 DEF Told
    <3>3. CASE Told(u)
      BY <3>3, <1>15
    <3> QED BY <3>1, <3>2, <3>3
  <2>2. \A c \in loose' : Told(c.home)'
    BY <2>1, <1>1 DEF Told
  <2>3. \A u \in errors' : u = unit' \/ Told(u)'
    BY <1>1, <1>15, IncParts DEF ErrorsHaveHomes
  <2> QED BY <2>2, <2>3 DEF ErrorsHaveHomes, Told
<1>18. LastIsLast'
  BY <1>1, <1>5, <1>6 DEF LastIsLast, More
<1>19. WorkIsATree'
  <2>1. PICK S \in SUBSET Positions : ComesFromValues(S)
    BY IncParts DEF WorkIsATree
  <2>2. Begun' = Begun /\ Active' = Active
    BY <1>1, <1>10 DEF Begun, Active
  <2>3. ComesFromValues(S)'
    BY <2>1, <2>2, <1>1, <1>2, TreeStays, IncParts
  <2> QED BY <2>3 DEF WorkIsATree
<1>20. NothingTwice'
  <2>1. Begun' = Begun
    BY <1>1, <1>10 DEF Begun
  <2> QED BY <2>1, <1>1, <1>2, IncParts DEF NothingTwice
<1>21. ItemsGoForward'
  <2>1. ASSUME NEW i \in DOMAIN sent', sent'[i].job.kind = "item",
               NEW j \in DOMAIN streamed', streamed'[j].list = sent'[i].job.list
        PROVE  sent'[i].job.number <= Length[sent'[i].job.list] - Len(streamed'[j].items)
    <3>1. PICK k \in DOMAIN streamed :
            streamed'[j].list = streamed[k].list /\ streamed'[j].items = streamed[k].items
      BY <1>2
    <3>2. CASE i \in DOMAIN sent /\ sent'[i] = sent[i]
      BY <2>1, <3>1, <3>2, IncParts DEF ItemsGoForward
    <3>3. CASE sent'[i] = e
      <4>1. unit.kind = "item" /\ streamed[k].list = streamed[1].list
        BY <2>1, <3>1, <3>3, <1>4, <1>5
      <4>2. k = 1
        BY <4>1, <1>4, IncParts DEF ListsAreTails
      <4>3. unit.number \in Int
        <5>1. streamed[1].next \in Nat /\ streamed[1].next = unit.number - 1
          BY <4>1, <1>4
        <5>2. unit \in Jobs
          BY IncParts DEF IncTypeOK
        <5> QED BY <5>2, <4>1, JobCases, JobKinds
      <4> QED BY <4>1, <4>2, <4>3, <3>1, <3>3, <2>1, <1>4, <1>5
    <3> QED BY <3>2, <3>3, <1>7
  <2>2. ASSUME NEW i \in DOMAIN sent', sent'[i].job.kind = "item"
        PROVE  sent'[i].at = sent'[i].job.number - 1
    BY <2>2, <1>5, <1>7, IncParts DEF ItemsGoForward
  <2> QED BY <2>1, <2>2 DEF ItemsGoForward
<1>22. ItemsInPlace'
  <2>1. ASSUME NEW i \in DOMAIN sent', NEW j \in DOMAIN sent', i < j,
               sent'[i].job.kind = "item", sent'[j].job.kind = "item",
               sent'[i].job.list = sent'[j].job.list
        PROVE  sent'[i].job.number < sent'[j].job.number
    <3>1. i \in DOMAIN sent /\ sent'[i] = sent[i]
      BY <2>1, <1>6, <1>7
    <3>2. CASE j \in DOMAIN sent /\ sent'[j] = sent[j]
      BY <2>1, <3>1, <3>2, IncParts DEF ItemsInPlace
    <3>3. CASE sent'[j] = e
      <4>1. /\ unit.kind = "item" /\ streamed[1].list = unit.list /\ 1 \in DOMAIN streamed
            /\ sent[i].job.list = unit.list /\ sent[i].job.kind = "item"
            /\ unit.number = Length[unit.list] - Len(streamed[1].items)
        BY <2>1, <3>1, <3>3, <1>4, <1>5
      <4>2. sent[i].job.number <= unit.number
        BY <4>1, <3>1, IncParts DEF ItemsGoForward
      <4>3. sent[i].job \in Jobs /\ unit \in Jobs /\ sent[i].job # unit
        BY <3>1, <1>3, BegunAreJobs, IncParts DEF Delivered, IncTypeOK
      <4>4. /\ sent[i].job = Item(sent[i].job.list, sent[i].job.number) /\ sent[i].job.number \in Nat
            /\ unit = Item(unit.list, unit.number) /\ unit.number \in Nat
        BY <4>1, <4>3, JobCases, JobKinds
      <4>5. sent[i].job.number # unit.number
        BY <4>1, <4>3, <4>4
      <4>6. sent[i].job.number < unit.number
        BY <4>2, <4>4, <4>5
      <4> QED BY <4>6, <3>1, <3>3, <1>5
    <3> QED BY <3>2, <3>3, <1>7
  <2>2. ASSUME NEW i \in DOMAIN sent', sent'[i].job.kind = "item"
        PROVE  sent'[i].at = sent'[i].job.number - 1
    BY <2>2, <1>5, <1>7, IncParts DEF ItemsGoForward
  <2> QED BY <2>1, <2>2 DEF ItemsInPlace
<1>23. FalseHasNextIsLast'
  <2>1. ASSUME NEW i \in DOMAIN sent', i < n + 1, ~sent'[i].hasNext
        PROVE  sent'[i].abandoned
    <3>1. i \in 1..n /\ sent'[i] = sent[i]
      BY <2>1, <1>6
    <3>2. CASE i < n
      BY <2>1, <3>1, <3>2, <1>6, IncParts DEF FalseHasNextIsLast, n
    <3>3. CASE i = n
      <4>1. sent # <<>>
        BY <3>1, <1>6
      <4> QED BY <2>1, <3>1, <3>3, <4>1, <1>1, IncParts DEF LastIsLast, n
    <3> QED BY <3>1, <3>2, <3>3, <1>6
  <2> QED BY <2>1, <1>6 DEF FalseHasNextIsLast
<1>24. PayloadErrorsAreOwn'
  <2>1. ASSUME NEW i \in DOMAIN sent', NEW u \in sent'[i].errors
        PROVE  u = sent'[i].job \/ \E j \in 1..i : sent'[j].job = u /\ sent'[j].abandoned
    <3>1. CASE i \in DOMAIN sent /\ sent'[i] = sent[i]
      <4>1. u = sent[i].job \/ \E j \in 1..i : sent[j].job = u /\ sent[j].abandoned
        BY <2>1, <3>1, IncParts DEF PayloadErrorsAreOwn
      <4>2. \A j \in 1..i : sent'[j] = sent[j]
        BY <3>1, <1>6
      <4> QED BY <3>1, <4>1, <4>2
    <3>2. CASE i = n + 1 /\ sent'[i] = e
      <4>1. u = unit \/ Told(u)
        BY <2>1, <3>2, <1>1, <1>5, IncParts DEF ErrorsHaveHomes
      <4>2. ASSUME Told(u) PROVE \E j \in 1..i : sent'[j].job = u /\ sent'[j].abandoned
        <5>1. PICK j \in DOMAIN sent : sent[j].job = u /\ sent[j].abandoned
          BY <4>2 DEF Told
        <5>2. j \in 1..i /\ sent'[j] = sent[j]
          BY <3>2, <1>6
        <5> QED BY <5>1, <5>2
      <4> QED BY <3>2, <4>1, <4>2, <1>5
    <3> QED BY <3>1, <3>2, <1>7
  <2> QED BY <2>1 DEF PayloadErrorsAreOwn
<1> QED BY <1>11, <1>12, <1>14, <1>17, <1>18, <1>19, <1>20, <1>21, <1>22, <1>23, <1>24 DEF IncInv

-----------------------------------------------------------------------------
(* Every state of a response satisfies the invariant.                      *)

LEMMA IncInitInv == IncrementalInit => IncInv
<1> SUFFICES ASSUME IncrementalInit PROVE IncInv
  OBVIOUS
<1>1. /\ initialCount \in Int /\ deferred = <<>> /\ streamed = <<>> /\ errors = {}
      /\ unit = Data /\ running = {} /\ loose = {} /\ gen = "new" /\ sent = <<>>
  BY IncrementalAssumption DEF IncrementalInit
<1>2. Data \in Jobs /\ Data.kind = "data"
  BY JobKinds
<1>3. Delivered = {} /\ Queued = {} /\ Begun = {} /\ Active = {}
  BY <1>1 DEF Delivered, Queued, Begun, Active
<1>4. IncTypeOK
  BY <1>1, <1>2 DEF IncTypeOK
<1>5. UnitOfGen /\ ~MidItem
  BY <1>1, <1>2 DEF UnitOfGen, MidItem
<1>6. ListsAreTails /\ ItemsGoForward
  BY <1>1, <1>5 DEF ListsAreTails, ItemsGoForward
<1>7. WorkIsATree
  <2>1. ComesFromValues({})
    BY <1>1, <1>3 DEF ComesFromValues
  <2> QED BY <2>1 DEF WorkIsATree
<1>8. NothingTwice /\ ErrorsHaveHomes
  BY <1>1, <1>3 DEF NothingTwice, ErrorsHaveHomes
<1>9. LastIsLast /\ FalseHasNextIsLast /\ ItemsInPlace /\ PayloadErrorsAreOwn
  BY <1>1 DEF LastIsLast, FalseHasNextIsLast, ItemsInPlace, PayloadErrorsAreOwn
<1> QED BY <1>4, <1>5, <1>6, <1>7, <1>8, <1>9 DEF IncInv

IncNext == Pull \/ Execute \/ ExecuteLoose \/ CloseGenerator

LEMMA IncStepInv == IncInv /\ IncNext => IncInv'
<1>1. IncInv /\ Pull => IncInv'
  BY DataStarts, DeferredStarts, ItemStarts, GeneratorStops DEF Pull
<1>2. IncInv /\ Execute => IncInv'
  BY PositionCompletes, CoroutinesAreLeft, PayloadYielded, GeneratorStops DEF Execute
<1>3. IncInv /\ ExecuteLoose => IncInv'
  BY LooseCompletes DEF ExecuteLoose
<1>4. IncInv /\ CloseGenerator => IncInv'
  BY GeneratorStops
<1> QED BY <1>1, <1>2, <1>3, <1>4 DEF IncNext

LEMMA IncStutter == IncInv /\ UNCHANGED incrementalVars => IncInv'
<1> SUFFICES ASSUME IncInv, UNCHANGED incrementalVars PROVE IncInv'
  OBVIOUS
<1>1. UNCHANGED <<initialCount, jobVars, deferred, streamed, errors, unit, running, loose, gen, sent>>
  BY DEF incrementalVars, jobVars, workVars
<1>2. FalseHasNextIsLast' /\ ItemsInPlace' /\ PayloadErrorsAreOwn' /\ Delivered' = Delivered
  BY <1>1, SentStays
<1>3. Active' = Active
  BY <1>1 DEF Active
<1>4. /\ ListsAreTails' /\ ItemsGoForward' /\ WorkIsATree'
      /\ \A i, j \in DOMAIN deferred' : deferred'[i] = deferred'[j] => i = j
      /\ (Queued \cap Begun)' = {}
  BY <1>1, <1>3, QueuesStay
<1>5. IncTypeOK' /\ UnitOfGen'
  BY <1>1, <1>2, IncParts DEF IncTypeOK, UnitOfGen
<1>6. NothingTwice'
  BY <1>1, <1>4, IncParts DEF NothingTwice
<1>7. ErrorsHaveHomes' /\ LastIsLast'
  BY <1>1, <1>2, IncParts DEF ErrorsHaveHomes, LastIsLast, Told
<1> QED BY <1>2, <1>4, <1>5, <1>6, <1>7 DEF IncInv

\* Whatever the encoder, the adapter and the client do, the generator of the
\* results takes its own steps.
LEMMA NextIsIncremental == Next => IncNext \/ UNCHANGED incrementalVars
<1> USE DEF IncNext
<1>1. PullResults => IncNext \/ UNCHANGED incrementalVars
  BY DEF PullResults
<1>2. CloseResults => IncNext \/ UNCHANGED incrementalVars
  BY DEF CloseResults
<1>3. Encode \/ EncodeEnd \/ EncoderReturns => UNCHANGED incrementalVars
  BY DEF Encode, EncodeEnd, EncoderReturns
<1>4. EncoderCloses => IncNext \/ UNCHANGED incrementalVars
  BY <1>2 DEF EncoderCloses
<1>5. SendStart \/ SendChunk \/ SendEnd \/ CloseStream \/ Vanish => UNCHANGED incrementalVars
  BY DEF SendStart, SendChunk, SendEnd, CloseStream, Vanish
<1>6. ResultsWork \/ LooseWork => IncNext \/ UNCHANGED incrementalVars
  BY DEF ResultsWork, LooseWork
<1>7. Cancel => IncNext \/ UNCHANGED incrementalVars
  BY <1>2 DEF Cancel
<1> QED BY <1>1, <1>3, <1>4, <1>5, <1>6, <1>7 DEF Next, Server

THEOREM IncrementalInvariant == Spec => []IncInv
<1>1. Init => IncInv
  BY IncInitInv DEF Init
<1>2. IncInv /\ [Next]_vars => IncInv'
  <2>1. UNCHANGED vars => UNCHANGED incrementalVars
    BY DEF vars
  <2> QED BY <2>1, IncStepInv, IncStutter, NextIsIncremental
<1> QED BY <1>1, <1>2, PTL DEF Spec

\* A client may stop at a payload with hasNext false: none comes after it, unless it
\* came while coroutines below a list item that raised were still at work (the
\* gather of _complete_list, which leaves them behind).
THEOREM HasNextIsTrue == Spec => []FalseHasNextIsLast
<1>1. IncInv => FalseHasNextIsLast
  BY DEF IncInv
<1> QED BY <1>1, IncrementalInvariant, PTL

\* The items of a streamed list come in order and each under its own index, whatever
\* deferred fragments, other lists and left coroutines do between two of them.
THEOREM ItemsComeInOrder == Spec => []ItemsInPlace
<1>1. IncInv => ItemsInPlace
  BY DEF IncInv
<1> QED BY <1>1, IncrementalInvariant, PTL

\* The errors of a payload are those of its own unit of work, or of one whose payload
\* came while it had coroutines that were left behind.
THEOREM ErrorsAreOwn == Spec => []PayloadErrorsAreOwn
<1>1. IncInv => PayloadErrorsAreOwn
  BY DEF IncInv
<1> QED BY <1>1, IncrementalInvariant, PTL

-----------------------------------------------------------------------------
(* Incremental delivery implements JobStream.                              *)

\* What Delivery puts for the variables of JobStream.
Pend == Queued \cup (IF gen = "new" \/ unit \notin Delivered THEN {unit} ELSE {})
LatestHint == IF sent = <<>> THEN TRUE ELSE sent[Len(sent)].hasNext
IsOpen == gen \notin {"ended", "raised", "closed"}

LEMMA StreamParts ==
  /\ (UNCHANGED <<Pend, Delivered, LatestHint, IsOpen>> => UNCHANGED Stream!streamVars)
  /\ \A found : Stream!Find(found) <=>
       /\ found # {} /\ found \cap (Pend \cup Delivered) = {}
       /\ Pend' = Pend \cup found
       /\ UNCHANGED <<Delivered, LatestHint, IsOpen>>
  /\ \A job : Stream!Deliver(job) <=>
       /\ IsOpen /\ job \in Pend
       /\ Pend' = Pend \ {job} /\ Delivered' = Delivered \cup {job}
       /\ LatestHint' = (Pend' # {}) /\ UNCHANGED IsOpen
  /\ Stream!End <=> IsOpen = TRUE /\ Pend = {} /\ IsOpen' = FALSE /\ UNCHANGED <<Pend, Delivered, LatestHint>>
  /\ Stream!Abort <=> IsOpen = TRUE /\ IsOpen' = FALSE /\ UNCHANGED <<Pend, Delivered, LatestHint>>
<1>1. UNCHANGED <<Pend, Delivered, LatestHint, IsOpen>> => UNCHANGED Stream!streamVars
  BY DEF Stream!streamVars, Pend, LatestHint, IsOpen
<1>2. ASSUME NEW found
      PROVE  Stream!Find(found) <=>
               /\ found # {} /\ found \cap (Pend \cup Delivered) = {}
               /\ Pend' = Pend \cup found
               /\ UNCHANGED <<Delivered, LatestHint, IsOpen>>
  BY DEF Stream!Find, Pend, LatestHint, IsOpen
<1>3. ASSUME NEW job
      PROVE  Stream!Deliver(job) <=>
               /\ IsOpen /\ job \in Pend
               /\ Pend' = Pend \ {job} /\ Delivered' = Delivered \cup {job}
               /\ LatestHint' = (Pend' # {}) /\ UNCHANGED IsOpen
  BY DEF Stream!Deliver, Pend, LatestHint, IsOpen
<1>4. Stream!End <=> IsOpen = TRUE /\ Pend = {} /\ IsOpen' = FALSE /\ UNCHANGED <<Pend, Delivered, LatestHint>>
  BY DEF Stream!End, Pend, LatestHint, IsOpen
<1>5. Stream!Abort <=> IsOpen = TRUE /\ IsOpen' = FALSE /\ UNCHANGED <<Pend, Delivered, LatestHint>>
  BY DEF Stream!Abort, Pend, LatestHint, IsOpen
<1> QED BY <1>1, <1>2, <1>3, <1>4, <1>5

\* Work that is found, or none.
LEMMA WorkIsFound ==
  ASSUME NEW found \in SUBSET Jobs, found \cap (Pend \cup Delivered) = {},
         Pend' = Pend \cup found, UNCHANGED <<Delivered, LatestHint, IsOpen>>
  PROVE  [Stream!Next]_(Stream!streamVars)
<1>1. CASE found = {}
  BY <1>1, StreamParts
<1>2. CASE found # {}
  <2>1. Stream!Find(found)
    BY <1>2, StreamParts
  <2> QED BY <2>1 DEF Stream!Next
<1> QED BY <1>1, <1>2

LEMMA FoundAreJobs ==
  ASSUME IncTypeOK, NEW x \in Positions \cup Jobs
  PROVE  DeferredBy(x) \subseteq Jobs /\ StreamedBy(x) \subseteq Jobs
<1>1. \A k \in DOMAIN Deferrals[x] : Deferrals[x][k] \in Fragments
  BY IncrementalAssumption, ElementOfSeq, LenProperties
<1>2. DeferredBy(x) \subseteq Jobs
  BY <1>1, JobKinds DEF DeferredBy
<1>3. ASSUME x \in Streams, NEW i \in 1 + Most(0, initialCount)..Length[x] PROVE i \in 1..Length[x]
  <2>1. Most(0, initialCount) \in Nat /\ Length[x] \in Nat
    BY <1>3, MostIsNat, IncrementalAssumption DEF IncTypeOK
  <2> QED BY <2>1
<1>4. StreamedBy(x) \subseteq Jobs
  BY <1>3, JobKinds DEF StreamedBy
<1> QED BY <1>2, <1>4

\* A coroutine that gets its value finds the work below it, and none of it had
\* been found before.
LEMMA RegisterFinds ==
  ASSUME IncInv, NEW p \in Active, Register(p), UNCHANGED <<gen, unit, sent>>
  PROVE  [Stream!Next]_(Stream!streamVars)
<1>1. PICK S \in SUBSET Positions : ComesFromValues(S)
  BY IncParts DEF WorkIsATree
<1>2. /\ p \in Positions /\ (DeferredBy(p) \cup StreamedBy(p)) \cap (Queued \cup Begun) = {}
  BY <1>1, NothingYet, IncParts
<1>3. gen # "new"
  BY IncParts DEF Active, UnitOfGen
<1>4. Queued' = Queued \cup DeferredBy(p) \cup StreamedBy(p)
  BY <1>2, RegisterQueues, IncParts
<1>5. Delivered' = Delivered /\ LatestHint' = LatestHint /\ IsOpen' = IsOpen
  BY DEF Delivered, LatestHint, IsOpen
<1>6. Pend \cup Delivered \subseteq Queued \cup Begun
  BY <1>3 DEF Pend, Begun
<1>7. Pend' = Pend \cup (DeferredBy(p) \cup StreamedBy(p))
  BY <1>4, <1>5 DEF Pend
<1>8. DeferredBy(p) \cup StreamedBy(p) \in SUBSET Jobs
  BY <1>2, FoundAreJobs, IncParts
<1>9. PICK found \in SUBSET Jobs : found = DeferredBy(p) \cup StreamedBy(p)
  BY <1>8
<1> QED BY <1>2, <1>5, <1>6, <1>7, <1>9, WorkIsFound

\* A unit that the generator goes on with is pending, and the fragments deferred
\* in it are found.
LEMMA PullRefines ==
  ASSUME IncInv, Pull
  PROVE  [Stream!Next]_(Stream!streamVars)
<1>1. CASE StartData
  <2>1. gen = "new" /\ gen' = "running" /\ unit = Data /\ unit' = Data /\ sent' = sent
    BY <1>1, IncParts DEF StartData, Resume, UnitOfGen
  <2>2. Delivered = {} /\ Delivered' = {}
    BY <2>1, IncParts DEF UnitOfGen, Delivered
  <2>3. Pend = {Data} /\ Pend' = {Data} \cup DeferredBy(Data)
    BY <2>1, <2>2, <1>1, DataStarts DEF Pend
  <2>4. PICK found \in SUBSET Jobs : found = DeferredBy(Data)
    BY FoundAreJobs, JobKinds, IncParts
  <2>5. Data \notin DeferredBy(Data)
    BY JobsDiffer DEF DeferredBy
  <2>6. LatestHint' = LatestHint /\ IsOpen' = IsOpen
    BY <2>1 DEF LatestHint, IsOpen
  <2> QED BY <2>2, <2>3, <2>4, <2>5, <2>6, WorkIsFound
<1>2. ASSUME StartDeferred \/ StartItem
      PROVE  /\ gen = "yielded" /\ gen' = "running" /\ unit' \notin Delivered' /\ Delivered' = Delivered
             /\ Pend = Queued /\ Pend' = Queued' \cup {unit'} /\ Delivered \subseteq Begun
             /\ LatestHint' = LatestHint /\ IsOpen' = IsOpen
  <2>1. gen = "yielded" /\ gen' = "running" /\ sent' = sent
    BY <1>2 DEF StartDeferred, StartItem, Resume
  <2>2. IncInv'
    BY <1>2, DeferredStarts, ItemStarts
  <2>3. unit' \notin Delivered'
    BY <2>1, <2>2 DEF IncInv, UnitOfGen
  <2>4. unit \in Delivered
    BY <2>1, IncParts DEF UnitOfGen
  <2> QED BY <2>1, <2>3, <2>4 DEF Pend, LatestHint, IsOpen, Begun, Delivered
<1>3. CASE StartDeferred
  <2>1. /\ Queued' \cup {unit'} = Queued \cup DeferredBy(unit')
        /\ DeferredBy(unit') \cap (Queued \cup Begun) = {}
        /\ unit' \in Jobs
    BY <1>3, DeferredStarts DEF IncInv, IncTypeOK
  <2>2. PICK u \in Jobs : u = unit'
    BY <2>1
  <2>3. PICK found \in SUBSET Jobs : found = DeferredBy(u)
    BY FoundAreJobs, IncParts
  <2> QED BY <2>1, <2>2, <2>3, <1>2, <1>3, WorkIsFound
<1>4. CASE StartItem
  <2>1. Pend' = Pend
    BY <1>2, <1>4, ItemStarts
  <2> QED BY <2>1, <1>2, <1>4, StreamParts
<1>5. CASE EndStream
  <2>1. /\ gen = "yielded" /\ gen' = "ended" /\ deferred = <<>> /\ streamed = <<>>
        /\ UNCHANGED <<deferred, streamed, unit, sent>>
    BY <1>5 DEF EndStream, jobVars, workVars
  <2>2. Queued = {} /\ Queued' = {} /\ Delivered' = Delivered /\ unit \in Delivered
    BY <2>1, IncParts DEF Queued, Delivered, UnitOfGen
  <2>3. Stream!End
    BY <2>1, <2>2, StreamParts DEF Pend, LatestHint, IsOpen
  <2> QED BY <2>3 DEF Stream!Next
<1> QED BY <1>1, <1>3, <1>4, <1>5 DEF Pull

LEMMA PayloadDelivers ==
  ASSUME IncInv, YieldPayload
  PROVE  Stream!Deliver(unit)
<1>1. /\ gen = "running" /\ gen' = "yielded" /\ unit' = unit /\ deferred' = deferred
      /\ sent' # <<>> /\ sent'[Len(sent')].hasNext = More(deferred, streamed')
      /\ Delivered' = Delivered \cup {unit}
  <2> DEFINE e == [job |-> unit, at |-> IF unit.kind = "item" THEN streamed[1].next ELSE 0,
                   errors |-> errors', hasNext |-> More(deferred, streamed'), abandoned |-> loose # {}]
  <2>1. /\ gen = "running" /\ gen' = "yielded" /\ unit' = unit /\ deferred' = deferred
        /\ sent' = Append(sent, e)
    BY DEF YieldPayload
  <2>2. e.hasNext = More(deferred, streamed') /\ e.job = unit
    OBVIOUS
  <2> HIDE DEF e
  <2>3. PICK S : sent \in Seq(S) /\ e \in S
    <3>1. sent \in Seq(Payloads \cup {e})
      <4>1. /\ sent \in [1..Len(sent) -> Payloads] /\ Len(sent) \in Nat
        BY LenProperties, IncParts DEF IncTypeOK
      <4>2. sent \in [1..Len(sent) -> Payloads \cup {e}]
        BY <4>1
      <4> QED BY <4>1, <4>2, SeqDef
    <3> QED BY <3>1
  <2>4. /\ Len(sent') = Len(sent) + 1 /\ Len(sent) \in Nat
        /\ DOMAIN sent' = 1..Len(sent) + 1 /\ DOMAIN sent = 1..Len(sent)
        /\ \A i \in 1..Len(sent) : sent'[i] = sent[i]
        /\ sent'[Len(sent) + 1] = e
    BY <2>1, <2>3, AppendIs
  <2>5. Delivered' = Delivered \cup {unit}
    <3> DEFINE n == Len(sent)
    <3>1. /\ \A i \in DOMAIN sent' : (i \in DOMAIN sent /\ sent'[i] = sent[i]) \/ sent'[i] = e
          /\ \A i \in DOMAIN sent : i \in DOMAIN sent' /\ sent'[i] = sent[i]
          /\ n + 1 \in DOMAIN sent' /\ sent'[n + 1] = e
      BY <2>4
    <3> HIDE DEF n
    <3>2. ASSUME NEW j PROVE j \in Delivered' <=> j \in Delivered \cup {unit}
      <4>1. j \in Delivered' <=> \E i \in DOMAIN sent' : j = sent'[i].job
        BY DEF Delivered
      <4>2. j \in Delivered <=> \E i \in DOMAIN sent : j = sent[i].job
        BY DEF Delivered
      <4> QED BY <3>1, <4>1, <4>2, <2>2
    <3> QED BY <3>2
  <2>6. sent' # <<>>
    BY <2>4
  <2> QED BY <2>1, <2>2, <2>4, <2>5, <2>6
<1>2. unit \notin Delivered /\ unit \notin Queued
  BY <1>1, IncParts DEF UnitOfGen, NothingTwice, Begun
<1>3. Queued' = Queued
  BY PayloadQueues
<1>4. Pend = Queued \cup {unit} /\ Pend' = Queued
  BY <1>1, <1>2, <1>3 DEF Pend
<1>5. LatestHint' = (Queued # {})
  <2>1. Queued' = {} <=> deferred' = <<>> /\ streamed' = <<>>
    <3>1. ASSUME deferred' # <<>> PROVE Queued' # {}
      <4>1. deferred' \in Seq(DeferJobs)
        BY <1>1, IncParts DEF IncTypeOK
      <4>2. 1 \in DOMAIN deferred'
        BY <3>1, <4>1, HeadAndTail
      <4> QED BY <4>2, QueuedIsIn, InQueue
    <3>2. ASSUME streamed' # <<>> PROVE Queued' # {}
      <4>1. 1 \in DOMAIN streamed' /\ streamed'[1] \in Lists /\ streamed'[1].items # <<>>
        BY <3>2, PayloadQueues, HeadAndTail
      <4>2. 1 \in DOMAIN streamed'[1].items
        BY <4>1, HeadAndTail DEF Lists
      <4>3. PICK ds, ss : ds = deferred' /\ ss = streamed'
        OBVIOUS
      <4>4. Item(ss[1].list, ss[1].items[1]) \in QueuedIn(ds, ss)
        BY <4>1, <4>2, <4>3, InQueue
      <4> QED BY <4>3, <4>4, QueuedIsIn
    <3>3. ASSUME deferred' = <<>>, streamed' = <<>> PROVE Queued' = {}
      BY <3>3 DEF Queued
    <3> QED BY <3>1, <3>2, <3>3
  <2> QED BY <2>1, <1>1, <1>3 DEF LatestHint, More
<1>6. IsOpen /\ IsOpen' /\ IsOpen' = IsOpen
  BY <1>1 DEF IsOpen
<1> QED BY <1>1, <1>2, <1>4, <1>5, <1>6, StreamParts

LEMMA IncRefines ==
  ASSUME IncInv, IncNext \/ UNCHANGED incrementalVars
  PROVE  [Stream!Next]_(Stream!streamVars)
<1>1. ASSUME UNCHANGED <<deferred, streamed, unit, sent, gen>>
      PROVE  UNCHANGED Stream!streamVars
  <2>1. UNCHANGED <<Pend, Delivered, LatestHint, IsOpen>>
    BY <1>1 DEF Pend, Queued, Delivered, LatestHint, IsOpen
  <2> QED BY <2>1, StreamParts
<1>2. CASE Pull
  BY <1>2, PullRefines
<1>3. ASSUME NEW p \in Positions, CompletePosition(p) PROVE [Stream!Next]_(Stream!streamVars)
  <2>1. p \in Active /\ UNCHANGED <<gen, unit, sent>>
    BY <1>3 DEF CompletePosition, Active
  <2>2. CASE Register(p)
    BY <2>1, <2>2, RegisterFinds
  <2>3. CASE UNCHANGED jobVars
    BY <2>1, <2>3, <1>1 DEF jobVars
  <2> QED BY <1>3, <2>2, <2>3 DEF CompletePosition
<1>4. ASSUME NEW left \in SUBSET Abandonable, LeaveBehind(left) PROVE UNCHANGED Stream!streamVars
  BY <1>1, <1>4 DEF LeaveBehind, jobVars
<1>5. CASE YieldPayload
  <2>1. unit \in Jobs
    BY IncParts DEF IncTypeOK
  <2> QED BY <1>5, <2>1, PayloadDelivers DEF Stream!Next
<1>6. ASSUME NEW c \in loose, CompleteLoose(c) PROVE [Stream!Next]_(Stream!streamVars)
  <2>1. c.position \in Active /\ UNCHANGED <<gen, unit, sent>>
    BY <1>6 DEF CompleteLoose, Active
  <2>2. CASE Register(c.position)
    BY <2>1, <2>2, RegisterFinds
  <2>3. CASE UNCHANGED jobVars
    BY <2>1, <2>3, <1>1 DEF jobVars
  <2> QED BY <1>6, <2>2, <2>3 DEF CompleteLoose
<1>7. CASE UnitRaises \/ CloseGenerator
  <2>1. /\ UNCHANGED <<deferred, streamed, unit, sent>>
        /\ gen \in {"new", "yielded", "running"} /\ gen' \in {"raised", "closed"}
    BY <1>7 DEF UnitRaises, CloseGenerator, jobVars, workVars
  <2>2. Delivered' = Delivered /\ Queued' = Queued
    BY <2>1 DEF Delivered, Queued
  <2>3. gen = "new" => unit \notin Delivered
    BY IncParts DEF UnitOfGen, Delivered
  <2>4. Pend' = Pend
    BY <2>1, <2>2, <2>3 DEF Pend
  <2>5. LatestHint' = LatestHint /\ IsOpen = TRUE /\ IsOpen' = FALSE
    BY <2>1 DEF LatestHint, IsOpen
  <2>6. Stream!Abort
    BY <2>2, <2>4, <2>5, StreamParts
  <2> QED BY <2>6 DEF Stream!Next
<1>8. CASE UNCHANGED incrementalVars
  BY <1>8, <1>1 DEF incrementalVars, jobVars, workVars
<1> QED BY <1>2, <1>3, <1>4, <1>5, <1>6, <1>7, <1>8 DEF IncNext, Execute, ExecuteLoose

\* execute_incremental delivers everything it finds exactly once, says with hasNext
\* whether more is queued, and ends by itself only when nothing is.
THEOREM DeliveryImplementsJobStream == Spec => ImplementsJobStream
<1>1. Init => Stream!Init
  <2> SUFFICES ASSUME Init PROVE Stream!Init
    OBVIOUS
  <2>1. deferred = <<>> /\ streamed = <<>> /\ unit = Data /\ gen = "new" /\ sent = <<>>
    BY DEF Init, IncrementalInit
  <2>2. Queued = {} /\ Delivered = {}
    BY <2>1 DEF Queued, Delivered
  <2> QED BY <2>1, <2>2 DEF Stream!Init
<1>2. IncInv /\ [Next]_vars => [Stream!Next]_(Stream!streamVars)
  <2>1. UNCHANGED vars => UNCHANGED incrementalVars
    BY DEF vars
  <2> QED BY <2>1, IncRefines, NextIsIncremental
<1> QED BY <1>1, <1>2, IncrementalInvariant, PTL DEF Spec, ImplementsJobStream, Stream!Spec

-----------------------------------------------------------------------------
(* What the server was handed.                                             *)

Chunks == {"start", "result", "marker", "end"}

\* Where the encoder and the adapter are, relative to what was sent.
Progress ==
  /\ taken \in Nat /\ wire \in Seq(Chunks)
  /\ stage = "start" => wire = <<>> /\ taken = 0 /\ enc = "new"
  /\ stage = "chunk" => enc \in {"open", "marker"}
  /\ stage = "chunk" /\ enc = "open" => taken > 0
  /\ stage = "finale" => enc = "over" /\ Exhausted
  /\ enc = "marker" => encoder = "multipart" /\ Exhausted

\* Nothing is missing from the wire as long as the client is there.
Unbroken ==
  client = "here" =>
    /\ stage = "pull" /\ enc \in {"new", "open"} => Len(wire) = taken + 1
    /\ stage = "pull" /\ enc = "marker" => Len(wire) > taken
    /\ stage = "chunk" /\ enc = "open" => Len(wire) = taken
    /\ stage = "chunk" /\ enc = "marker" => Len(wire) = taken + 1
    /\ stage = "finale" => Len(wire) > taken

\* A result never comes after what was taken, an end never before, and the encoder
\* takes nothing more then.
ChunksInPlace ==
  \A i \in DOMAIN wire :
    /\ wire[i] = "start" <=> i = 1
    /\ wire[i] = "result" => i <= taken + 1
    /\ wire[i] = "marker" => encoder = "multipart" /\ i > 1
    /\ wire[i] \in {"marker", "end"} => Exhausted /\ i > taken + 1 /\ enc \notin {"new", "open"}

WireInv == Progress /\ Unbroken /\ ChunksInPlace

LEMMA WireInvIsHonest == WireInv => WireIsHonest
<1> SUFFICES ASSUME WireInv PROVE WireIsHonest
  OBVIOUS
<1> DEFINE R == {i \in DOMAIN wire : wire[i] = "result"}
<1>1. taken \in Nat /\ DOMAIN wire = 1..Len(wire) /\ Len(wire) \in Nat
  BY LenProperties DEF WireInv, Progress
<1>2. ASSUME NEW i \in R PROVE i \in 2..taken + 1
  <2>1. i \in DOMAIN wire /\ wire[i] = "result" /\ i \in Nat /\ i >= 1
    BY <1>1
  <2>2. i # 1 /\ i <= taken + 1
    BY <2>1 DEF WireInv, ChunksInPlace
  <2> QED BY <2>1, <2>2, <1>1
<1>3. Cardinality(R) <= taken
  <2>1. IsFiniteSet(2..taken + 1) /\ Cardinality(2..taken + 1) = taken
    <3>1. 2 \in Int /\ taken + 1 \in Int
      BY <1>1
    <3>2. IsFiniteSet(2..taken + 1)
          /\ Cardinality(2..taken + 1) = (IF 2 > taken + 1 THEN 0 ELSE (taken + 1) - 2 + 1)
      BY <3>1, FS_Interval
    <3> QED BY <3>2, <1>1
  <2>2. R \subseteq 2..taken + 1
    BY <1>2
  <2> HIDE DEF R
  <2> QED BY <2>1, <2>2, FS_Subset
<1> QED BY <1>3 DEF WireIsHonest, WireInv, ChunksInPlace

\* Results that are over stay over.
LEMMA ExhaustedIsForGood == Exhausted /\ [Next]_vars => Exhausted'
<1> SUFFICES ASSUME Exhausted, [Next]_vars PROVE Exhausted'
  OBVIOUS
<1>1. ASSUME UNCHANGED <<kind, gen, sub>> PROVE Exhausted'
  BY <1>1 DEF Exhausted
<1>2. ASSUME CloseResults, kind' = kind PROVE Exhausted'
  BY <1>2 DEF CloseResults, CloseGenerator, CloseSubscription, CloseSingle, Exhausted, subscriptionVars,
              incrementalVars
<1>3. CASE PullResults
  BY <1>3 DEF PullResults, Suspended, Exhausted, setupVars
<1>4. CASE ResultsWork
  BY <1>4 DEF ResultsWork, Execute, CompletePosition, LeaveBehind, YieldPayload, UnitRaises,
              SubscriptionWorks, SourceYields, SourceEnds, SourceFails, ExecuteEvent, CloseSource,
              Exhausted, setupVars
<1>5. CASE LooseWork
  BY <1>5, <1>1 DEF LooseWork, ExecuteLoose, CompleteLoose, subscriptionVars, setupVars
<1>6. CASE Encode \/ EncodeEnd \/ EncoderReturns \/ SendStart \/ SendChunk \/ SendEnd \/ CloseStream \/ Vanish
  BY <1>6, <1>1 DEF Encode, EncodeEnd, EncoderReturns, SendStart, SendChunk, SendEnd, CloseStream, Vanish,
                    incrementalVars, subscriptionVars, setupVars
<1>7. CASE EncoderCloses
  BY <1>7, <1>1, <1>2 DEF EncoderCloses, incrementalVars, subscriptionVars, setupVars
<1>8. CASE Cancel
  BY <1>8, <1>1, <1>2 DEF Cancel, incrementalVars, subscriptionVars, setupVars
<1>9. CASE UNCHANGED vars
  BY <1>9, <1>1 DEF vars, incrementalVars, subscriptionVars, setupVars
<1> QED BY <1>3, <1>4, <1>5, <1>6, <1>7, <1>8, <1>9 DEF Next, Server

\* A step that sends nothing keeps what is on the wire in place.
LEMMA PlacesStay ==
  ASSUME WireInv, Exhausted => Exhausted', UNCHANGED <<encoder, wire>>,
         taken' = taken \/ (enc = "open" /\ taken' = taken + 1),
         enc' \in {"new", "open"} => enc \in {"new", "open"}
  PROVE  ChunksInPlace'
<1>1. taken \in Nat /\ DOMAIN wire = 1..Len(wire) /\ Len(wire) \in Nat
  BY LenProperties DEF WireInv, Progress
<1>2. ASSUME NEW i \in DOMAIN wire
      PROVE  /\ wire[i] = "start" <=> i = 1
             /\ wire[i] = "result" => i <= taken' + 1
             /\ wire[i] = "marker" => encoder = "multipart" /\ i > 1
             /\ wire[i] \in {"marker", "end"} => Exhausted' /\ i > taken' + 1 /\ enc' \notin {"new", "open"}
  <2>1. /\ wire[i] = "start" <=> i = 1
        /\ wire[i] = "result" => i <= taken + 1
        /\ wire[i] = "marker" => encoder = "multipart" /\ i > 1
        /\ wire[i] \in {"marker", "end"} => Exhausted /\ i > taken + 1 /\ enc \notin {"new", "open"}
    BY DEF WireInv, ChunksInPlace
  <2>2. i \in Nat
    BY <1>1
  <2> QED BY <2>1, <2>2, <1>1
<1> QED BY <1>2 DEF ChunksInPlace

\* A chunk that is sent is the next one on the wire.
LEMMA PlacesGrow ==
  ASSUME WireInv, Exhausted => Exhausted', UNCHANGED <<encoder, enc, taken, client>>,
         NEW c \in Chunks, Sent(c),
         client = "here" =>
           /\ c = "start" <=> Len(wire) = 0
           /\ c = "result" => Len(wire) <= taken
           /\ c = "marker" => encoder = "multipart"
           /\ c \in {"marker", "end"} => Exhausted /\ Len(wire) > taken /\ enc \notin {"new", "open"}
  PROVE  /\ ChunksInPlace' /\ wire' \in Seq(Chunks)
         /\ client = "here" => Len(wire') = Len(wire) + 1 /\ Len(wire) \in Nat
<1>1. taken \in Nat /\ wire \in Seq(Chunks)
  BY DEF WireInv, Progress
<1>2. CASE client # "here"
  <2>1. wire' = wire
    BY <1>2 DEF Sent
  <2> QED BY <2>1, <1>1, <1>2, PlacesStay
<1>3. CASE client = "here"
  <2>1. wire' = Append(wire, c)
    BY <1>3 DEF Sent
  <2>2. /\ wire' \in Seq(Chunks) /\ Len(wire') = Len(wire) + 1 /\ Len(wire) \in Nat
        /\ DOMAIN wire' = 1..Len(wire) + 1 /\ DOMAIN wire = 1..Len(wire)
        /\ \A i \in 1..Len(wire) : wire'[i] = wire[i]
        /\ wire'[Len(wire) + 1] = c
    BY <2>1, <1>1, AppendIs
  <2>3. ASSUME NEW i \in DOMAIN wire'
        PROVE  /\ wire'[i] = "start" <=> i = 1
               /\ wire'[i] = "result" => i <= taken + 1
               /\ wire'[i] = "marker" => encoder = "multipart" /\ i > 1
               /\ wire'[i] \in {"marker", "end"} => Exhausted' /\ i > taken + 1 /\ enc \notin {"new", "open"}
    <3>1. CASE i \in 1..Len(wire)
      BY <3>1, <2>2 DEF WireInv, ChunksInPlace
    <3>2. CASE i = Len(wire) + 1
      <4>1. wire'[i] = c /\ Len(wire) \in Nat
        BY <2>2, <3>2
      <4> QED BY <4>1, <3>2, <1>1, <1>3
    <3> QED BY <3>1, <3>2, <2>2
  <2> QED BY <2>2, <2>3 DEF ChunksInPlace
<1> QED BY <1>2, <1>3

\* A step that sends nothing: what is left to show is where it leads.
LEMMA NothingSent ==
  ASSUME WireInv, [Next]_vars, UNCHANGED <<encoder, wire>>,
         taken' = taken \/ (enc = "open" /\ taken' = taken + 1),
         enc' \in {"new", "open"} => enc \in {"new", "open"},
         Progress', Unbroken'
  PROVE  WireInv'
BY PlacesStay, ExhaustedIsForGood DEF WireInv

LEMMA EncoderSteps ==
  ASSUME WireInv, Next, PullResults \/ Encode \/ EncodeEnd \/ EncoderReturns \/ EncoderCloses
  PROVE  WireInv'
<1>1. /\ UNCHANGED <<encoder, wire, client>> /\ taken \in Nat
      /\ Exhausted => Exhausted'
  BY ExhaustedIsForGood DEF PullResults, Encode, EncodeEnd, EncoderReturns, EncoderCloses, setupVars,
                            WireInv, Progress
<1>2. CASE PullResults
  <2>1. stage = "pull" /\ enc \in {"new", "open"} /\ enc' = "open" /\ UNCHANGED <<stage, taken>>
    BY <1>2 DEF PullResults
  <2>2. Progress' /\ Unbroken'
    BY <2>1, <1>1 DEF WireInv, Progress, Unbroken
  <2> QED BY <2>1, <2>2, <1>1, NothingSent
<1>3. CASE Encode
  <2>1. /\ stage = "pull" /\ enc = "open"
        /\ \/ stage' = "chunk" /\ taken' = taken + 1 /\ enc' = enc
           \/ enc' = "closing" /\ stage' = stage /\ taken' = taken
    BY <1>3 DEF Encode
  <2>2. Progress' /\ Unbroken'
    BY <2>1, <1>1 DEF WireInv, Progress, Unbroken
  <2> QED BY <2>1, <2>2, <1>1, NothingSent
<1>4. CASE EncodeEnd
  <2>1. /\ stage = "pull" /\ enc = "open" /\ taken' = taken
        /\ \/ enc' = "over" /\ stage' \in {"closing", "dropped"}
           \/ Exhausted /\ encoder = "multipart" /\ enc' = "marker" /\ stage' = "chunk"
           \/ Exhausted /\ enc' = "over" /\ stage' = "finale"
    BY <1>4 DEF EncodeEnd, Leave, ResultsEnded
  <2>2. Progress' /\ Unbroken'
    BY <2>1, <1>1 DEF WireInv, Progress, Unbroken
  <2> QED BY <2>1, <2>2, <1>1, NothingSent
<1>5. CASE EncoderReturns
  <2>1. stage = "pull" /\ enc = "marker" /\ enc' = "over" /\ stage' = "finale" /\ taken' = taken
    BY <1>5 DEF EncoderReturns
  <2>2. Progress' /\ Unbroken'
    BY <2>1, <1>1 DEF WireInv, Progress, Unbroken
  <2> QED BY <2>1, <2>2, <1>1, NothingSent
<1>6. CASE EncoderCloses
  <2>1. /\ enc = "closing" /\ taken' = taken
        /\ \/ enc' = enc /\ stage' = stage
           \/ enc' = "over" /\ stage' = IF stage = "pull" THEN Leave ELSE stage
    BY <1>6 DEF EncoderCloses
  <2>2. stage' = stage \/ stage' \in {"closing", "dropped"}
    BY <2>1 DEF Leave
  <2>3. stage \notin {"start", "chunk", "finale"}
    BY <2>1 DEF WireInv, Progress
  <2>4. stage' \notin {"start", "chunk", "finale"}
    BY <2>2, <2>3
  <2>5. stage' # "pull" \/ enc' = "closing"
    BY <2>1 DEF Leave
  <2>6. Progress' /\ Unbroken'
    BY <2>1, <2>4, <2>5, <1>1 DEF WireInv, Progress, Unbroken
  <2> QED BY <2>1, <2>6, <1>1, NothingSent
<1> QED BY <1>2, <1>3, <1>4, <1>5, <1>6

LEMMA SendSteps ==
  ASSUME WireInv, Next, SendStart \/ SendChunk \/ SendEnd
  PROVE  WireInv'
<1>1. /\ UNCHANGED <<encoder, enc, taken, client>> /\ taken \in Nat /\ wire \in Seq(Chunks)
      /\ Exhausted => Exhausted'
  BY ExhaustedIsForGood DEF SendStart, SendChunk, SendEnd, setupVars, WireInv, Progress
<1>2. Len(wire) \in Nat
  BY <1>1, LenProperties
<1>3. ASSUME wire' = wire, Progress', Unbroken' PROVE WireInv'
  BY <1>1, <1>3, NothingSent
<1>4. CASE SendStart
  <2>1. stage = "start" /\ wire = <<>> /\ taken = 0 /\ enc = "new" /\ Len(wire) = 0
    BY <1>4, EmptySeq DEF SendStart, WireInv, Progress
  <2>2. CASE Sent("start") /\ stage' = "pull"
    <3>1. /\ ChunksInPlace' /\ wire' \in Seq(Chunks)
          /\ client = "here" => Len(wire') = Len(wire) + 1 /\ Len(wire) \in Nat
      <4>1. "start" \in Chunks
        BY DEF Chunks
      <4> QED BY <4>1, <2>1, <2>2, <1>1, PlacesGrow
    <3>2. Progress' /\ Unbroken'
      BY <3>1, <2>1, <2>2, <1>1 DEF WireInv, Progress, Unbroken
    <3> QED BY <3>1, <3>2 DEF WireInv
  <2>3. CASE client = "gone" /\ stage' = "failed" /\ wire' = wire
    <3>1. Progress' /\ Unbroken'
      BY <2>1, <2>3, <1>1 DEF WireInv, Progress, Unbroken
    <3> QED BY <3>1, <2>3, <1>3
  <2> QED BY <1>4, <2>2, <2>3 DEF SendStart
<1>5. CASE SendChunk
  <2>1. stage = "chunk" /\ enc \in {"open", "marker"}
    BY <1>5 DEF SendChunk, WireInv, Progress
  <2>2. CASE Sent(Chunk) /\ stage' = "pull"
    <3>1. PICK c \in Chunks : c = Chunk
      BY DEF Chunks, Chunk
    <3>2. /\ Sent(c)
          /\ c = IF enc = "marker" THEN "marker" ELSE "result"
      BY <2>2, <3>1 DEF Sent, Chunk
    <3>3. client = "here" =>
            /\ c = "start" <=> Len(wire) = 0
            /\ c = "result" => Len(wire) <= taken
            /\ c = "marker" => encoder = "multipart"
            /\ c \in {"marker", "end"} => Exhausted /\ Len(wire) > taken /\ enc \notin {"new", "open"}
      BY <2>1, <3>2, <1>1, <1>2 DEF WireInv, Progress, Unbroken
    <3>4. /\ ChunksInPlace' /\ wire' \in Seq(Chunks)
          /\ client = "here" => Len(wire') = Len(wire) + 1 /\ Len(wire) \in Nat
      BY <3>2, <3>3, <1>1, PlacesGrow
    <3>5. Progress' /\ Unbroken'
      BY <3>4, <2>1, <2>2, <1>1, <1>2 DEF WireInv, Progress, Unbroken
    <3> QED BY <3>4, <3>5 DEF WireInv
  <2>3. CASE client = "gone" /\ stage' = Leave /\ wire' = wire
    <3>1. stage' \in {"closing", "dropped"}
      BY <2>3 DEF Leave
    <3>2. Progress' /\ Unbroken'
      BY <3>1, <2>1, <2>3, <1>1 DEF WireInv, Progress, Unbroken
    <3> QED BY <3>2, <2>3, <1>3
  <2> QED BY <1>5, <2>2, <2>3 DEF SendChunk
<1>6. CASE SendEnd
  <2>1. stage = "finale" /\ enc = "over" /\ Exhausted /\ stage' \in {"closing", "dropped"}
    BY <1>6 DEF SendEnd, WireInv, Progress, Leave
  <2>2. CASE Sent("end")
    <3>1. "end" \in Chunks
      BY DEF Chunks
    <3>2. client = "here" => Len(wire) > taken
      BY <2>1 DEF WireInv, Unbroken
    <3>3. /\ ChunksInPlace' /\ wire' \in Seq(Chunks)
      BY <3>1, <3>2, <2>1, <2>2, <1>1, <1>2, PlacesGrow
    <3>4. Progress' /\ Unbroken'
      BY <3>3, <2>1, <1>1 DEF WireInv, Progress, Unbroken
    <3> QED BY <3>3, <3>4 DEF WireInv
  <2>3. CASE wire' = wire
    <3>1. Progress' /\ Unbroken'
      BY <2>1, <2>3, <1>1 DEF WireInv, Progress, Unbroken
    <3> QED BY <3>1, <2>3, <1>3
  <2> QED BY <1>6, <2>2, <2>3 DEF SendEnd
<1> QED BY <1>4, <1>5, <1>6

LEMMA WireStep == WireInv /\ [Next]_vars => WireInv'
<1> SUFFICES ASSUME WireInv, [Next]_vars PROVE WireInv'
  OBVIOUS
<1>1. Exhausted => Exhausted'
  BY ExhaustedIsForGood
<1>2. ASSUME UNCHANGED <<encoder, stage, enc, taken, wire>>, client' = client \/ client' = "gone"
      PROVE  WireInv'
  <2>1. Progress' /\ Unbroken'
    BY <1>1, <1>2 DEF WireInv, Progress, Unbroken
  <2> QED BY <2>1, <1>2, NothingSent
<1>3. CASE Next /\ (PullResults \/ Encode \/ EncodeEnd \/ EncoderReturns \/ EncoderCloses)
  BY <1>3, EncoderSteps
<1>4. CASE Next /\ (SendStart \/ SendChunk \/ SendEnd)
  BY <1>4, SendSteps
<1>5. CASE ResultsWork \/ LooseWork \/ Vanish
  BY <1>5, <1>2 DEF ResultsWork, LooseWork, Vanish, setupVars, sendVars
<1>6. CASE CloseStream
  <2>1. /\ UNCHANGED <<encoder, wire, taken, client>>
        /\ stage \in {"closing", "dropped"} /\ stage' \in {stage, "done"} /\ enc' \in {"closing", "over"}
    BY <1>6 DEF CloseStream, setupVars
  <2>2. Progress' /\ Unbroken'
    BY <2>1, <1>1 DEF WireInv, Progress, Unbroken
  <2> QED BY <2>1, <2>2, NothingSent
<1>7. CASE Cancel
  <2>1. /\ UNCHANGED <<encoder, wire, taken, client>>
        /\ \/ stage = "pull" /\ stage' = stage /\ enc' = "closing"
           \/ stage' \in {"failed", "closing", "dropped"} /\ enc' = enc
    BY <1>7 DEF Cancel, Leave, setupVars
  <2>2. Progress' /\ Unbroken'
    BY <2>1, <1>1 DEF WireInv, Progress, Unbroken
  <2> QED BY <2>1, <2>2, NothingSent
<1>8. CASE UNCHANGED vars
  BY <1>8, <1>2 DEF vars, setupVars, sendVars
<1> QED BY <1>3, <1>4, <1>5, <1>6, <1>7, <1>8 DEF Next, Server

\* What a server was handed of a response is one start, at most the results that were
\* taken, and the marker and the end of the body only after all of them and a stream
\* that ended by itself: whatever fails, is cancelled or vanishes, a response that was
\* cut short is not closed as if it were complete.
THEOREM WireHonest == Spec => []WireIsHonest
<1>1. Init => WireInv
  <2> SUFFICES ASSUME Init PROVE WireInv
    OBVIOUS
  <2>1. stage = "start" /\ enc = "new" /\ taken = 0 /\ wire = <<>>
    BY DEF Init
  <2> QED BY <2>1 DEF WireInv, Progress, Unbroken, ChunksInPlace
<1>2. WireInv /\ [Next]_vars => WireInv'
  BY WireStep
<1>3. WireInv => WireIsHonest
  BY WireInvIsHonest
<1> QED BY <1>1, <1>2, <1>3, PTL DEF Spec
=============================================================================
