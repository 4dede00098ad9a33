--------------------------- MODULE ResolverProofs ---------------------------
(***************************************************************************)
(* Proofs about what resolvers are given: DataLoader.tla, for any keys,    *)
(* cache keys, callers, batch sizes and number of futures, and             *)
(* Injection.tla, for any fields, dependencies, plans, kinds of provider   *)
(* and timeouts.                                                           *)
(***************************************************************************)
EXTENDS DataLoader, Injection, SequenceTheorems, TLAPS

-----------------------------------------------------------------------------
(* Arithmetic of range(0, n, m).                                           *)

\* The largest multiple of m that is not above n, as the start of a slice.
LEMMA LastMultiple ==
  ASSUME NEW n \in Nat, NEW m \in Nat \ {0}
  PROVE  /\ n % m \in 0..(m - 1)
         /\ n - (n % m) \in 0..n
         /\ (n - (n % m)) % m = 0
<1>1. n % m \in 0..(m - 1)
  OBVIOUS
<1>2. n = m * (n \div m) + (n % m)
  OBVIOUS
<1>3. n \div m \in Nat
  OBVIOUS
<1>4. n - (n % m) \in 0..n
  BY <1>1, <1>2, <1>3
<1>5. (n - (n % m)) % m = 0
  <2>1. n - (n % m) = m * (n \div m)
    BY <1>1, <1>2, <1>3
  <2>2. (m * (n \div m)) % m = 0
    BY <1>3, SMTT(30)
  <2> QED BY <2>1, <2>2
<1> QED BY <1>1, <1>4, <1>5

\* Two different multiples of m are at least m apart: slices do not overlap.
LEMMA MultiplesApart ==
  ASSUME NEW s \in Nat, NEW t \in Nat, NEW m \in Nat \ {0},
         s % m = 0, t % m = 0, s < t
  PROVE  s + m <= t
<1> DEFINE a == s \div m
           b == t \div m
<1>1. a \in Nat /\ b \in Nat
  OBVIOUS
<1>2. s = m * a /\ t = m * b
  OBVIOUS
<1> HIDE DEF a, b
<1>3. a < b
  <2> SUFFICES ASSUME b <= a PROVE FALSE
    BY <1>1
  <2>1. m * b <= m * a
    BY <1>1, SMTT(30)
  <2> QED BY <2>1, <1>2
<1>4. m * (a + 1) <= m * b
  BY <1>1, <1>3, SMTT(30)
<1>5. m * (a + 1) = m * a + m
  BY <1>1, SMTT(30)
<1> QED BY <1>2, <1>4, <1>5

-----------------------------------------------------------------------------
(* What _dispatch makes of the queue.                                      *)

\* A slice holds the elements of q from position s + 1 on, at most size.
LEMMA SliceProperties ==
  ASSUME NEW S, NEW q \in Seq(S), NEW size \in Nat \ {0}, NEW s \in Starts(q, size)
  PROVE  /\ s \in Nat /\ s < Len(q) /\ s % size = 0
         /\ Slice(q, s, size) \in Seq(S)
         /\ Len(Slice(q, s, size)) \in 1..size
         /\ s + Len(Slice(q, s, size)) <= Len(q)
         /\ Len(Slice(q, s, size)) = size \/ s + Len(Slice(q, s, size)) = Len(q)
         /\ \A i \in 1..Len(Slice(q, s, size)) : Slice(q, s, size)[i] = q[s + i]
<1>1. s \in Nat /\ s < Len(q) /\ s % size = 0 /\ Len(q) \in Nat
  BY DEF Starts
<1> DEFINE m == s + 1
           n == IF s + size < Len(q) THEN s + size ELSE Len(q)
<1>2. m \in Int /\ n \in Int /\ m <= n /\ n <= Len(q) /\ 1 <= m
  BY <1>1
<1>3. \A i \in m..n : q[i] \in S
  BY <1>2, LenProperties, ElementOfSeq
<1>4. Slice(q, s, size) = SubSeq(q, m, n)
  BY DEF Slice
<1>5. /\ SubSeq(q, m, n) \in Seq(S)
      /\ Len(SubSeq(q, m, n)) = n - m + 1
      /\ \A i \in 1..(n - m + 1) : SubSeq(q, m, n)[i] = q[m + i - 1]
  <2> HIDE DEF m, n
  <2> QED BY <1>2, <1>3, SubSeqProperties
<1>6. \A i \in 1..(n - m + 1) : m + i - 1 = s + i
  BY <1>1
<1> QED BY <1>1, <1>4, <1>5, <1>6

\* Every chunk is a non-empty piece of the queue within the limit.
LEMMA ChunkShape ==
  ASSUME NEW S, NEW q \in Seq(S), NEW size \in Nat, NEW b \in Chunks(q, size)
  PROVE  /\ b \in Seq(S)
         /\ b # <<>>
         /\ size > 0 => Len(b) <= size
         /\ \E s \in Nat : \A i \in DOMAIN b : s + i \in DOMAIN q /\ b[i] = q[s + i]
<1>1. CASE size > 0 /\ Len(q) > size
  <2>1. PICK s \in Starts(q, size) : b = Slice(q, s, size)
    BY <1>1 DEF Chunks
  <2>2. size \in Nat \ {0}
    BY <1>1
  <2>3. /\ s \in Nat
        /\ b \in Seq(S)
        /\ Len(b) \in 1..size
        /\ s + Len(b) <= Len(q)
        /\ \A i \in 1..Len(b) : b[i] = q[s + i]
    BY <2>1, <2>2, SliceProperties
  <2>4. \A i \in DOMAIN b : s + i \in DOMAIN q /\ b[i] = q[s + i]
    <3>1. DOMAIN b = 1..Len(b) /\ DOMAIN q = 1..Len(q) /\ Len(b) \in Nat /\ Len(q) \in Nat
      BY <2>3, LenProperties
    <3>2. \A i \in 1..Len(b) : s + i \in 1..Len(q)
      BY <2>3, <3>1
    <3> QED BY <2>3, <3>1, <3>2
  <2>5. b # <<>> /\ Len(b) <= size
    BY <2>3, EmptySeq
  <2> QED BY <2>3, <2>4, <2>5
<1>2. CASE ~(size > 0 /\ Len(q) > size)
  <2>1. b = q /\ q # <<>>
    BY <1>2 DEF Chunks
  <2>2. size > 0 => Len(b) <= size
    BY <1>2, <2>1, LenProperties
  <2>3. \A i \in DOMAIN b : 0 + i \in DOMAIN q /\ b[i] = q[0 + i]
    BY <2>1, LenProperties
  <2> QED BY <2>1, <2>2, <2>3
<1> QED BY <1>1, <1>2

\* Every queued pair is in some chunk: no load is dropped.
LEMMA ChunksCover ==
  ASSUME NEW S, NEW q \in Seq(S), NEW size \in Nat, NEW j \in DOMAIN q
  PROVE  \E b \in Chunks(q, size) : \E i \in DOMAIN b : b[i] = q[j]
<1>1. j \in 1..Len(q) /\ Len(q) \in Nat
  BY LenProperties
<1>2. q # <<>>
  BY <1>1, EmptySeq
<1>3. CASE size > 0 /\ Len(q) > size
  <2> DEFINE r == (j - 1) % size
             s == (j - 1) - r
             b == Slice(q, s, size)
  <2>1. size \in Nat \ {0} /\ j - 1 \in Nat
    BY <1>1, <1>3
  <2>2. r \in 0..(size - 1) /\ s \in 0..(j - 1) /\ s % size = 0
    BY <2>1, LastMultiple
  <2>3. s \in Starts(q, size)
    BY <1>1, <2>2 DEF Starts
  <2>4. b \in Chunks(q, size)
    BY <1>2, <1>3, <2>3 DEF Chunks
  <2>5. /\ b \in Seq(S)
        /\ Len(b) = size \/ s + Len(b) = Len(q)
        /\ \A i \in 1..Len(b) : b[i] = q[s + i]
    BY <2>1, <2>3, SliceProperties
  <2>6. j - s \in 1..Len(b)
    <3>1. Len(b) \in Nat
      BY <2>5, LenProperties
    <3>2. s \in Nat /\ j - s >= 1 /\ j - s <= size
      <4> HIDE DEF r
      <4> QED BY <1>1, <2>1, <2>2
    <3>3. Len(b) = size \/ s + Len(b) = Len(q)
      BY <2>5
    <3> HIDE DEF s, b
    <3>4. CASE Len(b) = size
      BY <1>1, <3>1, <3>2, <3>4
    <3>5. CASE s + Len(b) = Len(q)
      BY <1>1, <3>1, <3>2, <3>5
    <3> QED BY <3>3, <3>4, <3>5
  <2>7. b[j - s] = q[j] /\ j - s \in DOMAIN b
    <3>1. s + (j - s) = j
      BY <1>1, <2>2
    <3> QED BY <2>5, <2>6, <3>1, LenProperties
  <2> QED BY <2>4, <2>7
<1>4. CASE ~(size > 0 /\ Len(q) > size)
  <2>1. q \in Chunks(q, size)
    BY <1>2, <1>4 DEF Chunks
  <2> QED BY <2>1
<1> QED BY <1>3, <1>4

\* Two chunks that hold the same position of the queue are one chunk.
LEMMA ChunksDisjoint ==
  ASSUME NEW S, NEW q \in Seq(S), NEW size \in Nat,
         \A m, n \in DOMAIN q : q[m].future = q[n].future => m = n,
         NEW b \in Chunks(q, size), NEW d \in Chunks(q, size),
         NEW i \in DOMAIN b, NEW j \in DOMAIN d,
         b[i].future = d[j].future
  PROVE  b = d /\ i = j
<1>1. CASE size > 0 /\ Len(q) > size
  <2>1. PICK s \in Starts(q, size) : b = Slice(q, s, size)
    BY <1>1 DEF Chunks
  <2>2. PICK t \in Starts(q, size) : d = Slice(q, t, size)
    BY <1>1 DEF Chunks
  <2>3. size \in Nat \ {0}
    BY <1>1
  <2>4. /\ s \in Nat /\ s % size = 0 /\ b \in Seq(S)
        /\ Len(b) \in 1..size /\ s + Len(b) <= Len(q)
        /\ \A x \in 1..Len(b) : b[x] = q[s + x]
    BY <2>1, <2>3, SliceProperties
  <2>5. /\ t \in Nat /\ t % size = 0 /\ d \in Seq(S)
        /\ Len(d) \in 1..size /\ t + Len(d) <= Len(q)
        /\ \A x \in 1..Len(d) : d[x] = q[t + x]
    BY <2>2, <2>3, SliceProperties
  <2>6. i \in 1..Len(b) /\ j \in 1..Len(d) /\ Len(q) \in Nat
    BY <2>4, <2>5, LenProperties
  <2>7. s + i \in DOMAIN q /\ t + j \in DOMAIN q
    BY <2>4, <2>5, <2>6, LenProperties
  <2>8. s + i = t + j
    BY <2>4, <2>5, <2>6, <2>7
  <2>9. s = t
    <3>1. ~(s < t)
      <4>1. s < t => s + size <= t
        BY <2>3, <2>4, <2>5, MultiplesApart
      <4> QED BY <4>1, <2>3, <2>4, <2>5, <2>6, <2>8
    <3>2. ~(t < s)
      <4>1. t < s => t + size <= s
        BY <2>3, <2>4, <2>5, MultiplesApart
      <4> QED BY <4>1, <2>3, <2>4, <2>5, <2>6, <2>8
    <3> QED BY <3>1, <3>2, <2>4, <2>5
  <2> QED BY <2>1, <2>2, <2>4, <2>6, <2>8, <2>9
<1>2. CASE ~(size > 0 /\ Len(q) > size)
  <2>1. b = q /\ d = q
    BY <1>2 DEF Chunks
  <2> QED BY <2>1
<1> QED BY <1>1, <1>2

-----------------------------------------------------------------------------
(* The inductive invariant.                                                *)

\* A queued or dispatched pair names a future that exists, under its own key.
EntriesAreOwn ==
  \A b \in batches \cup {queue} : \A i \in DOMAIN b :
     status[b[i].future] # "absent" /\ keyOf[b[i].future] = b[i].key

\* An existing future has a key; the cache is used only when it is enabled,
\* and then for futures that exist.
FuturesAreKnown ==
  /\ \A f \in Futures : status[f] # "absent" => keyOf[f] \in Keys
  /\ \A ck \in CacheKeys :
        cache[ck] # NoFuture => cacheEnabled /\ status[cache[ck]] # "absent"

Placement == DispatchIsScheduled /\ EveryLoadAccounted /\ OnePlaceEach /\ BatchWithinLimit
IInv == TypeOK /\ Placement /\ ResultsAreOwn /\ EntriesAreOwn /\ FuturesAreKnown

\* What the pairs of a well-typed queue or batch are made of.
LEMMA EntryTypes ==
  ASSUME NEW b \in Seq(Entry), NEW i \in DOMAIN b
  PROVE  b[i] \in Entry /\ b[i].key \in Keys /\ b[i].future \in Futures
<1>1. b[i] \in Entry
  BY LenProperties, ElementOfSeq
<1> QED BY <1>1 DEF Entry

\* NoFuture, which stands for a missing cache entry, is not a future.
LEMMA NoFutureIsNone == NoFuture \notin Futures
BY ConfigAssumption DEF NoFuture, Futures

-----------------------------------------------------------------------------
(* One lemma for each action: the action preserves the invariant.          *)

LEMMA InitInv == Init => IInv
<1> SUFFICES ASSUME Init PROVE IInv
  OBVIOUS
<1>1. TypeOK
  BY ConfigAssumption, EmptySeq DEF Init, TypeOK, Statuses
<1>2. Placement
  BY DEF Init, Placement, DispatchIsScheduled, EveryLoadAccounted, OnePlaceEach,
         BatchWithinLimit, Pending, FuturesOf, InFlight
<1>3. ResultsAreOwn
  BY DEF Init, ResultsAreOwn
<1>4. EntriesAreOwn /\ FuturesAreKnown
  BY DEF Init, EntriesAreOwn, FuturesAreKnown
<1> QED BY <1>1, <1>2, <1>3, <1>4 DEF IInv

\* Steps that move no future and only drop cache entries or awaits.
LEMMA DropPreserves ==
  ASSUME IInv,
         cache' \in [CacheKeys -> Futures \cup {NoFuture}],
         \A ck \in CacheKeys : cache'[ck] \in {cache[ck], NoFuture},
         holds' \in [Callers -> SUBSET Futures],
         UNCHANGED <<config, queue, dispatchScheduled, batches, futVars, orphaned>>
  PROVE  IInv'
<1> USE DEF config, futVars
<1>1. TypeOK'
  BY DEF IInv, TypeOK
<1>2. Placement'
  BY DEF IInv, Placement, DispatchIsScheduled, EveryLoadAccounted, OnePlaceEach,
         BatchWithinLimit, Pending, FuturesOf, InFlight
<1>3. ResultsAreOwn'
  BY DEF IInv, ResultsAreOwn
<1>4. EntriesAreOwn' /\ FuturesAreKnown'
  BY DEF IInv, EntriesAreOwn, FuturesAreKnown
<1> QED BY <1>1, <1>2, <1>3, <1>4 DEF IInv

\* A new future that is in no queue, batch or cache entry yet.
LEMMA FreshIsNowhere ==
  ASSUME IInv, NEW f \in Futures, status[f] = "absent"
  PROVE  /\ f \notin FuturesOf(queue)
         /\ ~InFlight(f)
         /\ \A ck \in CacheKeys : cache[ck] # f
<1>1. \A b \in batches \cup {queue} : f \notin FuturesOf(b)
  BY DEF IInv, EntriesAreOwn, FuturesOf
<1>2. \A ck \in CacheKeys : cache[ck] # f
  BY NoFutureIsNone DEF IInv, FuturesAreKnown
<1> QED BY <1>1, <1>2 DEF InFlight

LEMMA LoadNewPreserves ==
  ASSUME IInv, NEW c \in Callers, NEW k \in Keys, NEW f \in Futures, LoadNew(c, k, f)
  PROVE  IInv'
<1> DEFINE e == [key |-> k, future |-> f]
<1>1. /\ TypeOK /\ status[f] = "absent"
      /\ f \notin FuturesOf(queue) /\ ~InFlight(f)
      /\ \A ck \in CacheKeys : cache[ck] # f
  BY FreshIsNowhere DEF IInv, LoadNew, Fresh
<1>2. /\ e \in Entry /\ queue \in Seq(Entry)
      /\ queue' = Append(queue, e)
  BY <1>1 DEF TypeOK, LoadNew, Enqueued, Entry
<1>3. /\ queue' \in Seq(Entry)
      /\ queue' # <<>>
      /\ DOMAIN queue = 1..Len(queue) /\ Len(queue) \in Nat
      /\ DOMAIN queue' = 1..(Len(queue) + 1)
      /\ \A i \in 1..Len(queue) : queue'[i] = queue[i]
      /\ queue'[Len(queue) + 1] = e
  <2> HIDE DEF e
  <2>1. /\ queue' \in Seq(Entry) /\ queue' # <<>>
        /\ Len(queue') = Len(queue) + 1
        /\ \A i \in 1..Len(queue) : queue'[i] = queue[i]
        /\ queue'[Len(queue) + 1] = e
    BY <1>2, AppendProperties
  <2> QED BY <1>2, <2>1, LenProperties
<1>4. TypeOK'
  <2>1. /\ status' \in [Futures -> Statuses]
        /\ keyOf' \in [Futures -> Keys \cup {NoKey}]
        /\ cache' \in [CacheKeys -> Futures \cup {NoFuture}]
        /\ holds' \in [Callers -> SUBSET Futures]
    BY <1>1, KeysAssumption DEF TypeOK, LoadNew, Statuses
  <2> QED BY <1>1, <1>3, <2>1 DEF TypeOK, LoadNew, ScheduleDispatch, config
<1>5. \A i \in DOMAIN queue' : i \in DOMAIN queue \/ i = Len(queue) + 1
  BY <1>3
<1>6. FuturesOf(queue') = FuturesOf(queue) \cup {f}
  <2>1. FuturesOf(queue') \subseteq FuturesOf(queue) \cup {f}
    BY <1>3, <1>5 DEF FuturesOf
  <2>2. FuturesOf(queue) \subseteq FuturesOf(queue')
    BY <1>3 DEF FuturesOf
  <2>3. f \in FuturesOf(queue')
    BY <1>3 DEF FuturesOf
  <2> QED BY <2>1, <2>2, <2>3
<1>7. Placement'
  <2>1. DispatchIsScheduled'
    BY <1>3 DEF LoadNew, ScheduleDispatch, DispatchIsScheduled
  <2>2. EveryLoadAccounted'
    <3> SUFFICES ASSUME NEW g \in Futures, status'[g] = "pending"
                 PROVE  g \in FuturesOf(queue') \/ InFlight(g)' \/ g \in orphaned'
      BY DEF EveryLoadAccounted, Pending, FuturesOf
    <3>1. g = f \/ status[g] = "pending"
      BY <1>1 DEF LoadNew, TypeOK
    <3>2. g = f \/ g \in FuturesOf(queue) \/ InFlight(g) \/ g \in orphaned
      BY <3>1 DEF IInv, Placement, EveryLoadAccounted, Pending
    <3> QED BY <3>2, <1>6 DEF LoadNew, InFlight
  <2>3. OnePlaceEach'
    <3>1. \A i \in DOMAIN queue : queue[i].future # f
      BY <1>1 DEF FuturesOf
    <3>2. \A i, j \in DOMAIN queue' : queue'[i].future = queue'[j].future => i = j
      <4> SUFFICES ASSUME NEW i \in DOMAIN queue', NEW j \in DOMAIN queue',
                          queue'[i].future = queue'[j].future
                   PROVE  i = j
        OBVIOUS
      <4>1. CASE i \in DOMAIN queue /\ j \in DOMAIN queue
        BY <4>1, <1>3 DEF IInv, Placement, OnePlaceEach
      <4>2. CASE i \in DOMAIN queue /\ j = Len(queue) + 1
        BY <4>2, <1>3, <3>1
      <4>3. CASE i = Len(queue) + 1 /\ j \in DOMAIN queue
        BY <4>3, <1>3, <3>1
      <4> QED BY <1>5, <4>1, <4>2, <4>3
    <3>3. \A g \in FuturesOf(queue') : ~InFlight(g)'
      BY <1>1, <1>6 DEF IInv, Placement, OnePlaceEach, LoadNew, InFlight
    <3>4. (\A b, d \in batches : \A i \in DOMAIN b, j \in DOMAIN d :
             b[i].future = d[j].future => b = d /\ i = j)'
      BY DEF IInv, Placement, OnePlaceEach, LoadNew
    <3> QED BY <3>2, <3>3, <3>4 DEF OnePlaceEach, FuturesOf
  <2>4. BatchWithinLimit'
    BY DEF IInv, Placement, BatchWithinLimit, LoadNew, config
  <2> QED BY <2>1, <2>2, <2>3, <2>4 DEF Placement
<1>8. ResultsAreOwn'
  <2>1. \A g \in Futures : status'[g] = "value" => answer'[g] = keyOf'[g]
    BY <1>1 DEF IInv, ResultsAreOwn, LoadNew, TypeOK
  <2>2. \A ck \in CacheKeys : cache'[ck] # NoFuture => CacheKeyOf[keyOf'[cache'[ck]]] = ck
    <3> SUFFICES ASSUME NEW ck \in CacheKeys, cache'[ck] # NoFuture
                 PROVE  CacheKeyOf[keyOf'[cache'[ck]]] = ck
      OBVIOUS
    <3>1. CASE cacheEnabled /\ ck = CacheKeyOf[k]
      BY <1>1, <3>1 DEF LoadNew, TypeOK
    <3>2. CASE ~(cacheEnabled /\ ck = CacheKeyOf[k])
      <4>1. cache'[ck] = cache[ck] /\ cache[ck] \in Futures /\ cache[ck] # f
        BY <1>1, <3>2, NoFutureIsNone DEF LoadNew, TypeOK
      <4> QED BY <1>1, <4>1 DEF IInv, ResultsAreOwn, LoadNew, TypeOK
    <3> QED BY <3>1, <3>2
  <2> QED BY <2>1, <2>2 DEF ResultsAreOwn
<1>9. EntriesAreOwn'
  <2> SUFFICES ASSUME NEW b \in batches \cup {queue'}, NEW i \in DOMAIN b
               PROVE  status'[b[i].future] # "absent" /\ keyOf'[b[i].future] = b[i].key
    BY DEF EntriesAreOwn, LoadNew
  <2>1. CASE b = queue' /\ i = Len(queue) + 1
    BY <1>1, <1>3, <2>1 DEF LoadNew, TypeOK
  <2>2. CASE ~(b = queue' /\ i = Len(queue) + 1)
    <3>1. PICK d \in batches \cup {queue} : i \in DOMAIN d /\ b[i] = d[i]
      BY <1>3, <1>5, <2>2
    <3>2. d \in Seq(Entry)
      BY <1>1 DEF TypeOK
    <3>3. d[i].future \in Futures
      BY <3>1, <3>2, EntryTypes
    <3>4. status[d[i].future] # "absent" /\ keyOf[d[i].future] = d[i].key
      BY <3>1 DEF IInv, EntriesAreOwn
    <3> QED BY <1>1, <3>1, <3>3, <3>4 DEF LoadNew, TypeOK
  <2> QED BY <2>1, <2>2
<1>10. FuturesAreKnown'
  <2>1. \A g \in Futures : status'[g] # "absent" => keyOf'[g] \in Keys
    BY <1>1 DEF IInv, FuturesAreKnown, LoadNew, TypeOK
  <2>2. \A ck \in CacheKeys :
           cache'[ck] # NoFuture => cacheEnabled' /\ status'[cache'[ck]] # "absent"
    <3> SUFFICES ASSUME NEW ck \in CacheKeys, cache'[ck] # NoFuture
                 PROVE  cacheEnabled' /\ status'[cache'[ck]] # "absent"
      OBVIOUS
    <3>1. CASE cacheEnabled /\ ck = CacheKeyOf[k]
      BY <1>1, <3>1 DEF LoadNew, TypeOK, config
    <3>2. CASE ~(cacheEnabled /\ ck = CacheKeyOf[k])
      <4>1. cache'[ck] = cache[ck] /\ cache[ck] \in Futures /\ cache[ck] # f
        BY <1>1, <3>2, NoFutureIsNone DEF LoadNew, TypeOK
      <4> QED BY <1>1, <4>1 DEF IInv, FuturesAreKnown, LoadNew, TypeOK, config
    <3> QED BY <3>1, <3>2
  <2> QED BY <2>1, <2>2 DEF FuturesAreKnown
<1> QED BY <1>4, <1>7, <1>8, <1>9, <1>10 DEF IInv

LEMMA PrimePreserves ==
  ASSUME IInv, NEW k \in Keys, NEW f \in Futures, NEW o \in {"value", "error"},
         Prime(k, f, o)
  PROVE  IInv'
<1>1. /\ TypeOK /\ status[f] = "absent"
      /\ f \notin FuturesOf(queue) /\ ~InFlight(f)
      /\ \A ck \in CacheKeys : cache[ck] # f
  BY FreshIsNowhere DEF IInv, Prime, Fresh
<1>2. TypeOK'
  <2>1. /\ status' \in [Futures -> Statuses]
        /\ keyOf' \in [Futures -> Keys \cup {NoKey}]
        /\ answer' \in [Futures -> Keys \cup {NoKey}]
        /\ cache' \in [CacheKeys -> Futures \cup {NoFuture}]
    BY <1>1, KeysAssumption DEF TypeOK, Prime, Statuses
  <2> QED BY <1>1, <2>1 DEF TypeOK, Prime, config
<1>3. Placement'
  <2>1. EveryLoadAccounted'
    BY <1>1 DEF IInv, Placement, EveryLoadAccounted, Pending, FuturesOf, InFlight,
                Prime, TypeOK
  <2>2. OnePlaceEach'
    <3>1. queue' = queue /\ batches' = batches
      BY DEF Prime
    <3> QED BY <3>1 DEF IInv, Placement, OnePlaceEach, FuturesOf, InFlight
  <2>3. DispatchIsScheduled' /\ BatchWithinLimit'
    BY DEF IInv, Placement, DispatchIsScheduled, BatchWithinLimit, Prime, config
  <2> QED BY <2>1, <2>2, <2>3 DEF Placement
<1>4. \A ck \in CacheKeys : cache'[ck] # NoFuture =>
         \/ cache'[ck] = f /\ CacheKeyOf[k] = ck
         \/ cache'[ck] = cache[ck] /\ cache[ck] \in Futures /\ cache[ck] # f
  BY <1>1, NoFutureIsNone DEF Prime, TypeOK
<1>5. ResultsAreOwn'
  <2>1. \A g \in Futures : status'[g] = "value" => answer'[g] = keyOf'[g]
    BY <1>1 DEF IInv, ResultsAreOwn, Prime, TypeOK
  <2>2. \A ck \in CacheKeys : cache'[ck] # NoFuture => CacheKeyOf[keyOf'[cache'[ck]]] = ck
    BY <1>1, <1>4 DEF IInv, ResultsAreOwn, Prime, TypeOK
  <2> QED BY <2>1, <2>2 DEF ResultsAreOwn
<1>6. EntriesAreOwn'
  <2> SUFFICES ASSUME NEW b \in batches \cup {queue}, NEW i \in DOMAIN b
               PROVE  status'[b[i].future] # "absent" /\ keyOf'[b[i].future] = b[i].key
    BY DEF EntriesAreOwn, Prime
  <2>1. b[i].future \in Futures
    BY <1>1, EntryTypes DEF TypeOK
  <2>2. status[b[i].future] # "absent" /\ keyOf[b[i].future] = b[i].key
    BY DEF IInv, EntriesAreOwn
  <2> QED BY <1>1, <2>1, <2>2 DEF Prime, TypeOK
<1>7. FuturesAreKnown'
  <2>1. \A g \in Futures : status'[g] # "absent" => keyOf'[g] \in Keys
    BY <1>1 DEF IInv, FuturesAreKnown, Prime, TypeOK
  <2>2. \A ck \in CacheKeys :
           cache'[ck] # NoFuture => cacheEnabled' /\ status'[cache'[ck]] # "absent"
    BY <1>1, <1>4 DEF IInv, FuturesAreKnown, Prime, TypeOK, config
  <2> QED BY <2>1, <2>2 DEF FuturesAreKnown
<1> QED BY <1>2, <1>3, <1>5, <1>6, <1>7 DEF IInv

LEMMA DispatchPreserves == ASSUME IInv, Dispatch PROVE IInv'
<1> DEFINE new == Chunks(queue, maxBatchSize)
<1>1. queue \in Seq(Entry) /\ maxBatchSize \in Nat
  BY DEF IInv, TypeOK
<1>2. \A b \in new : /\ b \in Seq(Entry)
                     /\ b # <<>>
                     /\ maxBatchSize > 0 => Len(b) <= maxBatchSize
                     /\ \A i \in DOMAIN b : \E j \in DOMAIN queue : b[i] = queue[j]
  BY <1>1, ChunkShape
<1>3. \A j \in DOMAIN queue : \E b \in new : \E i \in DOMAIN b : b[i] = queue[j]
  BY <1>1, ChunksCover
<1>4. \A b, d \in new : \A i \in DOMAIN b, j \in DOMAIN d :
         b[i].future = d[j].future => b = d /\ i = j
  <2>1. \A i, j \in DOMAIN queue : queue[i].future = queue[j].future => i = j
    BY DEF IInv, Placement, OnePlaceEach
  <2> QED BY <1>1, <2>1, ChunksDisjoint
<1>5. batches' = batches \cup new /\ queue' = <<>> /\ dispatchScheduled' = FALSE
  BY DEF Dispatch
<1> HIDE DEF new
<1>6. TypeOK'
  BY <1>2, <1>5, EmptySeq DEF IInv, TypeOK, Dispatch, config, futVars
<1>7. EveryLoadAccounted'
  <2> SUFFICES ASSUME NEW g \in Futures, status[g] = "pending"
               PROVE  (\E b \in batches' : g \in FuturesOf(b)) \/ g \in orphaned
    BY DEF EveryLoadAccounted, Pending, InFlight, FuturesOf, Dispatch, futVars
  <2>1. CASE g \in FuturesOf(queue)
    BY <1>3, <1>5, <2>1 DEF FuturesOf
  <2>2. CASE InFlight(g) \/ g \in orphaned
    BY <1>5, <2>2 DEF InFlight
  <2> QED BY <2>1, <2>2 DEF IInv, Placement, EveryLoadAccounted, Pending
<1>8. OnePlaceEach'
  <2>1. \A b, d \in batches' : \A i \in DOMAIN b, j \in DOMAIN d :
           b[i].future = d[j].future => b = d /\ i = j
    <3> SUFFICES ASSUME NEW b \in batches', NEW d \in batches',
                        NEW i \in DOMAIN b, NEW j \in DOMAIN d,
                        b[i].future = d[j].future
                 PROVE  b = d /\ i = j
      OBVIOUS
    <3>1. CASE b \in batches /\ d \in batches
      BY <3>1 DEF IInv, Placement, OnePlaceEach
    <3>2. CASE b \in new /\ d \in new
      BY <3>2, <1>4
    <3>3. \A x \in new, y \in batches : \A m \in DOMAIN x, n \in DOMAIN y :
             x[m].future # y[n].future
      <4> SUFFICES ASSUME NEW x \in new, NEW y \in batches,
                          NEW m \in DOMAIN x, NEW n \in DOMAIN y
                   PROVE  x[m].future # y[n].future
        OBVIOUS
      <4>1. x[m].future \in FuturesOf(queue)
        BY <1>2 DEF FuturesOf
      <4>2. ~InFlight(x[m].future)
        BY <4>1 DEF IInv, Placement, OnePlaceEach
      <4> QED BY <4>2 DEF InFlight, FuturesOf
    <3> QED BY <1>5, <3>1, <3>2, <3>3
  <2> QED BY <1>5, <2>1 DEF OnePlaceEach, FuturesOf
<1>9. Placement'
  BY <1>2, <1>5, <1>7, <1>8
     DEF IInv, Placement, DispatchIsScheduled, BatchWithinLimit, Dispatch, config
<1>10. ResultsAreOwn' /\ FuturesAreKnown'
  BY DEF IInv, ResultsAreOwn, FuturesAreKnown, Dispatch, config, futVars
<1>11. EntriesAreOwn'
  <2>1. \A j \in DOMAIN queue : status[queue[j].future] # "absent"
                                /\ keyOf[queue[j].future] = queue[j].key
    BY DEF IInv, EntriesAreOwn
  <2> QED BY <1>2, <1>5, <2>1 DEF IInv, EntriesAreOwn, Dispatch, futVars
<1> QED BY <1>6, <1>9, <1>10, <1>11 DEF IInv

\* Steps that end a batch, or nothing but futures: what is left in queue and
\* batches stays accounted for.
LEMMA EndingPreserves ==
  ASSUME IInv, TypeOK', ResultsAreOwn',
         NEW B \in SUBSET batches,
         batches' = batches \ B,
         \A f \in Futures : /\ status'[f] = "absent" <=> status[f] = "absent"
                            /\ status'[f] = "pending" => status[f] = "pending",
         \A f \in Futures, b \in B :
            status'[f] = "pending" /\ f \in FuturesOf(b) => f \in orphaned',
         orphaned \subseteq orphaned',
         \A ck \in CacheKeys : cache'[ck] \in {cache[ck], NoFuture},
         UNCHANGED <<config, queue, dispatchScheduled, keyOf>>
  PROVE  IInv'
<1>1. EveryLoadAccounted'
  BY DEF IInv, Placement, EveryLoadAccounted, Pending, FuturesOf, InFlight
<1>2. OnePlaceEach'
  BY DEF IInv, Placement, OnePlaceEach, FuturesOf, InFlight
<1>3. Placement'
  BY <1>1, <1>2 DEF IInv, Placement, DispatchIsScheduled, BatchWithinLimit, config
<1>4. EntriesAreOwn'
  <2>1. \A b \in batches \cup {queue} : \A i \in DOMAIN b : b[i].future \in Futures
    BY EntryTypes DEF IInv, TypeOK
  <2> QED BY <2>1 DEF IInv, EntriesAreOwn
<1>5. FuturesAreKnown'
  BY DEF IInv, TypeOK, FuturesAreKnown, config
<1> QED BY <1>3, <1>4, <1>5 DEF IInv

LEMMA FuturesOfBatch ==
  ASSUME TypeOK, NEW b \in batches
  PROVE  FuturesOf(b) \subseteq Futures
BY EntryTypes DEF TypeOK, FuturesOf

\* The result zipped to a future is the one of the key it was created for.
LEMMA ResultIsOwn ==
  ASSUME IInv, NEW b \in batches, NEW f \in FuturesOf(b)
  PROVE  ResultFor(b, f) = keyOf[f]
<1>1. PositionOf(b, f) \in DOMAIN b /\ b[PositionOf(b, f)].future = f
  BY DEF FuturesOf, PositionOf
<1> QED BY <1>1 DEF IInv, EntriesAreOwn, ResultFor

LEMMA BatchReturnsPreserves ==
  ASSUME IInv, NEW b \in batches, NEW bad \in SUBSET FuturesOf(b), BatchReturns(b, bad)
  PROVE  IInv'
<1>1. FuturesOf(b) \subseteq Futures /\ Unsettled(b) \subseteq FuturesOf(b)
  BY FuturesOfBatch DEF IInv, Unsettled, Pending
<1>2. \A f \in Unsettled(b) : ResultFor(b, f) = keyOf[f] /\ keyOf[f] \in Keys
                              /\ status[f] = "pending"
  BY <1>1, ResultIsOwn DEF IInv, FuturesAreKnown, Unsettled, Pending
<1>3. TypeOK'
  <2>1. status' \in [Futures -> Statuses] /\ answer' \in [Futures -> Keys \cup {NoKey}]
    BY <1>1, <1>2 DEF IInv, TypeOK, BatchReturns, Statuses
  <2> QED BY <2>1 DEF IInv, TypeOK, BatchReturns, config
<1>4. ResultsAreOwn'
  BY <1>1, <1>2 DEF IInv, ResultsAreOwn, BatchReturns
<1>5. \A f \in Futures : /\ status'[f] = "absent" <=> status[f] = "absent"
                         /\ status'[f] = "pending" => status[f] = "pending"
                         /\ ~(status'[f] = "pending" /\ f \in FuturesOf(b))
  BY <1>2 DEF BatchReturns, Unsettled, Pending
<1>6. batches' = batches \ {b} /\ {b} \in SUBSET batches
  BY DEF BatchReturns
<1> QED BY <1>3, <1>4, <1>5, <1>6, EndingPreserves DEF BatchReturns

LEMMA BatchFailsPreserves ==
  ASSUME IInv, NEW b \in batches, BatchFails(b)
  PROVE  IInv'
<1>1. TypeOK'
  <2>1. /\ status' \in [Futures -> Statuses]
        /\ cache' \in [CacheKeys -> Futures \cup {NoFuture}]
    BY DEF IInv, TypeOK, BatchFails, Evicted, Statuses
  <2> QED BY <2>1 DEF IInv, TypeOK, BatchFails, config
<1>2. \A ck \in CacheKeys : cache'[ck] \in {cache[ck], NoFuture}
  BY DEF BatchFails, Evicted
<1>3. ResultsAreOwn'
  BY <1>2 DEF IInv, ResultsAreOwn, BatchFails
<1>4. \A f \in Futures : /\ status'[f] = "absent" <=> status[f] = "absent"
                         /\ status'[f] = "pending" => status[f] = "pending"
                         /\ ~(status'[f] = "pending" /\ f \in FuturesOf(b))
  BY DEF BatchFails, Unsettled, Pending
<1>5. batches' = batches \ {b} /\ {b} \in SUBSET batches
  BY DEF BatchFails
<1> QED BY <1>1, <1>2, <1>3, <1>4, <1>5, EndingPreserves DEF BatchFails

LEMMA BatchAbortsPreserves ==
  ASSUME IInv, NEW b \in batches, BatchAborts(b)
  PROVE  IInv'
<1>1. TypeOK'
  BY FuturesOfBatch DEF IInv, TypeOK, BatchAborts, config, futVars
<1>2. ResultsAreOwn'
  BY DEF IInv, ResultsAreOwn, BatchAborts, futVars
<1>3. /\ batches' = batches \ {b} /\ {b} \in SUBSET batches
      /\ orphaned' = orphaned \cup FuturesOf(b)
      /\ cache' = cache /\ status' = status
  BY DEF BatchAborts, futVars
<1> QED BY <1>1, <1>2, <1>3, EndingPreserves DEF BatchAborts, futVars

LEMMA CancelPreserves ==
  ASSUME IInv, NEW c \in Callers, Cancel(c)
  PROVE  IInv'
<1>1. TypeOK'
  <2>1. status' \in [Futures -> Statuses] /\ holds' \in [Callers -> SUBSET Futures]
    BY DEF IInv, TypeOK, Cancel, Statuses
  <2> QED BY <2>1 DEF IInv, TypeOK, Cancel, config
<1>2. ResultsAreOwn'
  BY DEF IInv, ResultsAreOwn, Cancel
<1>3. \A f \in Futures : /\ status'[f] = "absent" <=> status[f] = "absent"
                         /\ status'[f] = "pending" => status[f] = "pending"
  BY DEF Cancel, Pending
<1>4. batches' = batches \ {} /\ {} \in SUBSET batches
  BY DEF Cancel
<1> QED BY <1>1, <1>2, <1>3, <1>4, EndingPreserves DEF Cancel

LEMMA NextInv == IInv /\ [Next]_vars => IInv'
<1> SUFFICES ASSUME IInv, [Next]_vars PROVE IInv'
  OBVIOUS
<1>1. ASSUME NEW c \in Callers, NEW k \in Keys, LoadCached(c, k) PROVE IInv'
  <2>1. cache[CacheKeyOf[k]] \in Futures
    BY <1>1, KeysAssumption, NoFutureIsNone DEF IInv, TypeOK, LoadCached, Cached
  <2>2. holds' \in [Callers -> SUBSET Futures]
    BY <1>1, <2>1 DEF IInv, TypeOK, LoadCached
  <2> QED BY <1>1, <2>2, DropPreserves DEF IInv, TypeOK, LoadCached
<1>2. ASSUME NEW c \in Callers, NEW k \in Keys, NEW f \in Futures, LoadNew(c, k, f)
      PROVE  IInv'
  BY <1>2, LoadNewPreserves
<1>3. ASSUME NEW k \in Keys, Clear(k) PROVE IInv'
  <2>1. cache' \in [CacheKeys -> Futures \cup {NoFuture}]
    BY <1>3 DEF IInv, TypeOK, Clear
  <2>2. \A ck \in CacheKeys : cache'[ck] \in {cache[ck], NoFuture}
    BY <1>3 DEF IInv, TypeOK, Clear
  <2> QED BY <1>3, <2>1, <2>2, DropPreserves DEF IInv, TypeOK, Clear
<1>4. CASE ClearAll
  BY <1>4, DropPreserves DEF IInv, TypeOK, ClearAll
<1>5. ASSUME NEW k \in Keys, NEW f \in Futures, NEW o \in {"value", "error"}, Prime(k, f, o)
      PROVE  IInv'
  BY <1>5, PrimePreserves
<1>6. CASE Dispatch
  BY <1>6, DispatchPreserves
<1>7. ASSUME NEW b \in batches, BatchEnds(b) PROVE IInv'
  BY <1>7, BatchReturnsPreserves, BatchFailsPreserves, BatchAbortsPreserves DEF BatchEnds
<1>8. ASSUME NEW c \in Callers, Resume(c) PROVE IInv'
  <2>1. holds' \in [Callers -> SUBSET Futures]
    BY <1>8 DEF IInv, TypeOK, Resume
  <2> QED BY <1>8, <2>1, DropPreserves DEF IInv, TypeOK, Resume
<1>9. ASSUME NEW c \in Callers, Cancel(c) PROVE IInv'
  BY <1>9, CancelPreserves
<1>10. CASE UNCHANGED vars
  BY <1>10, DropPreserves DEF vars, IInv, TypeOK
<1> QED BY <1>1, <1>2, <1>3, <1>4, <1>5, <1>6, <1>7, <1>8, <1>9, <1>10 DEF Next

-----------------------------------------------------------------------------
(* The theorems.                                                           *)

\* The inductive invariant holds in every reachable state of one DataLoader.
THEOREM Invariance == Spec => []IInv
<1>1. Init => IInv
  BY InitInv
<1>2. IInv /\ [Next]_vars => IInv'
  BY NextInv
<1> QED BY <1>1, <1>2, PTL DEF Spec

\* The attributes of the loader, its futures and its callers stay well typed.
THEOREM TypeCorrect == Spec => []TypeOK
<1>1. IInv => TypeOK
  BY DEF IInv
<1> QED BY Invariance, <1>1, PTL

\* load and _dispatch lose no wake-up: keys are queued exactly while a
\* dispatch is scheduled.
THEOREM NoLostWakeUp == Spec => []DispatchIsScheduled
<1>1. IInv => DispatchIsScheduled
  BY DEF IInv, Placement
<1> QED BY Invariance, <1>1, PTL

\* Chunking and the batch tasks lose no load, for any max_batch_size and any
\* queue length.
THEOREM NoLoadLost == Spec => []EveryLoadAccounted
<1>1. IInv => EveryLoadAccounted
  BY DEF IInv, Placement
<1> QED BY Invariance, <1>1, PTL

\* No load is asked for twice: chunks are disjoint, and disjoint from what is
\* already in flight.
THEOREM NoLoadTwice == Spec => []OnePlaceEach
<1>1. IInv => OnePlaceEach
  BY DEF IInv, Placement
<1> QED BY Invariance, <1>1, PTL

\* The batch function is never called with no key or with too many.
THEOREM LimitKept == Spec => []BatchWithinLimit
<1>1. IInv => BatchWithinLimit
  BY DEF IInv, Placement
<1> QED BY Invariance, <1>1, PTL

\* No caller is given the result of another key, by zip or by the cache.
THEOREM OwnResults == Spec => []ResultsAreOwn
<1>1. IInv => ResultsAreOwn
  BY DEF IInv
<1> QED BY Invariance, <1>1, PTL

-----------------------------------------------------------------------------
(* The loader implements the memo of KeyedMemo.tla.                        *)

LEMMA MemoUnchanged ==
  ASSUME UNCHANGED <<cacheEnabled, cache, futVars>>
  PROVE  UNCHANGED Memo!memoVars
BY DEF Memo!memoVars, futVars

LEMMA LoadNewAsks ==
  ASSUME NEW c \in Callers, NEW k \in Keys, NEW f \in Futures, LoadNew(c, k, f)
  PROVE  Memo!Ask(f, k)
BY DEF LoadNew, Fresh, Cached, Memo!Ask, config

LEMMA PrimeSeeds ==
  ASSUME NEW k \in Keys, NEW f \in Futures, NEW o \in {"value", "error"}, Prime(k, f, o)
  PROVE  Memo!Seed(f, k, o)
BY DEF Prime, Fresh, Cached, Memo!Seed, config

LEMMA BatchReturnsSettles ==
  ASSUME IInv, NEW b \in batches, NEW bad \in SUBSET FuturesOf(b), BatchReturns(b, bad)
  PROVE  Memo!Settle(Unsettled(b), Unsettled(b) \ bad)
<1>1. Unsettled(b) \subseteq Memo!Pending(Futures)
  BY FuturesOfBatch DEF IInv, Unsettled, Pending, Memo!Pending
<1>2. \A f \in Unsettled(b) : ResultFor(b, f) = keyOf[f]
  BY ResultIsOwn DEF Unsettled, Pending
<1>3. status' = [f \in Futures |-> IF f \in Unsettled(b) \ bad THEN "value"
                                   ELSE IF f \in Unsettled(b) THEN "error" ELSE status[f]]
  BY DEF BatchReturns
<1>4. answer' = [f \in Futures |-> IF f \in Unsettled(b) \ bad THEN keyOf[f] ELSE answer[f]]
  BY <1>2 DEF BatchReturns
<1> QED BY <1>1, <1>3, <1>4 DEF BatchReturns, Memo!Settle, config

LEMMA BatchFailsTogether ==
  ASSUME IInv, NEW b \in batches, BatchFails(b)
  PROVE  Memo!FailTogether(FuturesOf(b))
<1>1. \A i \in DOMAIN b : status[b[i].future] # "absent" /\ keyOf[b[i].future] = b[i].key
  BY DEF IInv, EntriesAreOwn
<1>2. \A f \in FuturesOf(b) : status[f] # "absent"
  BY <1>1 DEF FuturesOf
<1>3. \A ck \in CacheKeys :
         (\E i \in DOMAIN b : CacheKeyOf[b[i].key] = ck)
           <=> (\E f \in FuturesOf(b) : CacheKeyOf[keyOf[f]] = ck)
  BY <1>1 DEF FuturesOf
<1>4. cache' = [ck \in CacheKeys |->
                  IF cacheEnabled /\ \E f \in FuturesOf(b) : CacheKeyOf[keyOf[f]] = ck
                  THEN NoFuture ELSE cache[ck]]
  BY <1>3 DEF BatchFails, Evicted
<1> QED BY <1>2, <1>4 DEF BatchFails, Unsettled, Pending, Memo!FailTogether, Memo!Pending, config

LEMMA CancelGivesUp ==
  ASSUME IInv, NEW c \in Callers, Cancel(c)
  PROVE  Memo!GiveUp(Pending(holds[c]))
BY DEF IInv, TypeOK, Cancel, Pending, Memo!GiveUp, Memo!Pending, config

\* Every step of the loader is a step of the memo or leaves the memo alone.
LEMMA StepRefines == IInv /\ [Next]_vars => [Memo!MemoNext]_(Memo!memoVars)
<1> SUFFICES ASSUME IInv, [Next]_vars PROVE [Memo!MemoNext]_(Memo!memoVars)
  OBVIOUS
<1>1. ASSUME NEW c \in Callers, NEW k \in Keys, LoadCached(c, k)
      PROVE  UNCHANGED Memo!memoVars
  BY <1>1, MemoUnchanged DEF LoadCached, config
<1>2. ASSUME NEW c \in Callers, NEW k \in Keys, NEW f \in Futures, LoadNew(c, k, f)
      PROVE  Memo!MemoNext
  BY <1>2, LoadNewAsks DEF Memo!MemoNext
<1>3. ASSUME NEW k \in Keys, Clear(k) PROVE Memo!MemoNext
  <2>1. cache' = [ck \in CacheKeys |-> IF ck \in {CacheKeyOf[k]} THEN NoFuture ELSE cache[ck]]
    BY <1>3 DEF IInv, TypeOK, Clear
  <2>2. Memo!Forget({CacheKeyOf[k]})
    BY <1>3, <2>1 DEF Clear, Memo!Forget, config, futVars
  <2>3. {CacheKeyOf[k]} \in SUBSET CacheKeys
    BY KeysAssumption
  <2> QED BY <2>2, <2>3 DEF Memo!MemoNext
<1>4. CASE ClearAll
  <2>1. Memo!Forget(CacheKeys)
    BY <1>4 DEF ClearAll, Memo!Forget, config, futVars
  <2> QED BY <2>1 DEF Memo!MemoNext
<1>5. ASSUME NEW k \in Keys, NEW f \in Futures, NEW o \in {"value", "error"}, Prime(k, f, o)
      PROVE  Memo!MemoNext
  BY <1>5, PrimeSeeds DEF Memo!MemoNext
<1>6. CASE Dispatch
  BY <1>6, MemoUnchanged DEF Dispatch, config
<1>7. ASSUME NEW b \in batches, NEW bad \in SUBSET FuturesOf(b), BatchReturns(b, bad)
      PROVE  Memo!MemoNext
  <2>1. Unsettled(b) \in SUBSET Futures
    BY FuturesOfBatch DEF IInv, Unsettled, Pending
  <2>2. Unsettled(b) \ bad \in SUBSET Unsettled(b)
    OBVIOUS
  <2> QED BY <1>7, <2>1, <2>2, BatchReturnsSettles DEF Memo!MemoNext
<1>8. ASSUME NEW b \in batches, BatchFails(b) PROVE Memo!MemoNext
  <2>1. FuturesOf(b) \in SUBSET Futures
    BY FuturesOfBatch DEF IInv
  <2> QED BY <1>8, <2>1, BatchFailsTogether DEF Memo!MemoNext
<1>9. ASSUME NEW b \in batches, BatchAborts(b) PROVE UNCHANGED Memo!memoVars
  BY <1>9, MemoUnchanged DEF BatchAborts, config
<1>10. ASSUME NEW c \in Callers, Resume(c) PROVE UNCHANGED Memo!memoVars
  BY <1>10, MemoUnchanged DEF Resume, config
<1>11. ASSUME NEW c \in Callers, Cancel(c) PROVE Memo!MemoNext
  <2>1. Pending(holds[c]) \in SUBSET Futures
    BY DEF IInv, TypeOK, Pending
  <2> QED BY <1>11, <2>1, CancelGivesUp DEF Memo!MemoNext
<1>12. CASE UNCHANGED vars
  BY <1>12, MemoUnchanged DEF vars, config
<1> QED BY <1>1, <1>2, <1>3, <1>4, <1>5, <1>6, <1>7, <1>8, <1>9, <1>10, <1>11, <1>12
        DEF Next, BatchEnds

\* One DataLoader is a memo: a key is fetched once while it is remembered, and
\* a fetch ends once, with its own result; only clear, clear_all and failing
\* batches forget.
THEOREM Refinement == Spec => ImplementsMemo
<1>1. Init => Memo!MemoInit
  BY ConfigAssumption DEF Init, Memo!MemoInit
<1>2. IInv /\ [Next]_vars => [Memo!MemoNext]_(Memo!memoVars)
  BY StepRefines
<1> QED BY <1>1, <1>2, Invariance, PTL DEF Spec, ImplementsMemo, Memo!MemoSpec

-----------------------------------------------------------------------------
(* Injection: the safety invariants its run checks.                        *)

\* A task that was started is in its dict; only awaitables have a task.
StartedIsFiled ==
  \A t \in Things : life[t] # "idle" => t \in Async \cup {Box} /\ memo[t] # "missing"

\* What is not in the dict was not called with success.
MissingIsUnmade == \A t \in Async \cup {Box} : memo[t] = "missing" => calls[t] = 0

\* Whoever was given a thing was given the product of the last call of it.
GivenIsCurrent ==
  \A c \in Injected : \A p \in given[c] : memo[p[1]] # "missing" /\ p[2] = calls[p[1]]

\* An error that has a path got it from a field that failed with it.
PathIsOfFailed ==
  \A t \in Things : pathOf[t] # NoField =>
    life[pathOf[t]] = "failed" /\ cause[pathOf[t]] = t

\* The tasks whose cancellation t passes on to those that await it.
Reach(t) ==
  ({t} \cup (IF t = Box THEN {Plan[Box][i] : i \in DOMAIN Plan[Box]} ELSE {}))
    \cap (Async \cup {Box})

\* A cancelled task was awaited, directly or through the container, by a field
\* that timed out.
CancelsAreTimeouts ==
  \A t \in Things : life[t] = "cancelled" => \E g \in timeouts : Reach(t) \cap NeedsOf(g) # {}

InjectionIInv ==
  /\ InjectionTypeOK /\ MadeOnce /\ StartedIsFiled /\ MissingIsUnmade /\ GivenIsCurrent
  /\ PathIsOfFailed /\ FailuresAreRecorded /\ CancelsAreTimeouts /\ AbortsAreShared
-----------------------------------------------------------------------------
LEMMA FieldsAreNoThings == Fields \cap Things = {} /\ NoField \notin Fields
BY InjectionAssumption DEF Things

LEMMA AwaitablesAreThings == Async \cup {Box} \subseteq Things
BY InjectionAssumption DEF Things

\* What a coroutine is given next is among what it needs, with all it reaches.
LEMMA WantedIsNeeded ==
  ASSUME NEW c \in Injected, NEW t \in Things, Wants(c, t), supplied[c] \in Nat
  PROVE  Reach(t) \subseteq NeedsOf(c)
<1>1. /\ Plan[c] \in Seq(Things)
      /\ Plan[c][supplied[c] + 1] = t
      /\ supplied[c] + 1 \in DOMAIN Plan[c]
  <2>1. Plan[c] \in Seq(Things)
    BY InjectionAssumption
  <2> QED BY <2>1 DEF Wants
<1>2. t \in {Plan[c][i] : i \in DOMAIN Plan[c]}
  BY <1>1
<1> QED BY <1>2 DEF Reach, NeedsOf, Injected, Things

LEMMA InitIInv == InjectionInit => InjectionIInv
<1> SUFFICES ASSUME InjectionInit PROVE InjectionIInv
  OBVIOUS
<1>1. InjectionTypeOK
  <2>1. /\ memo \in [Things -> {"missing", "task", "value"}]
        /\ life \in [Fields \cup Things -> {"idle", "running", "value", "failed", "cancelled"}]
        /\ calls \in [Things -> Nat] /\ supplied \in [Injected -> Nat]
        /\ waiting \in [Injected -> {"no", "started", "found"}]
    BY DEF InjectionInit
  <2>2. /\ cause \in [Fields \cup Things -> Fields \cup Things]
        /\ \A t \in Things : cause[t] \in Things
        /\ pathOf \in [Things -> Fields \cup {NoField}]
        /\ recorded \in [Fields -> Fields \cup {NoField}]
        /\ given \in [Injected -> SUBSET (Things \X Nat)]
        /\ timeouts \subseteq Fields
    BY DEF InjectionInit
  <2> QED BY <2>1, <2>2 DEF InjectionTypeOK
<1>2. MadeOnce /\ StartedIsFiled /\ MissingIsUnmade /\ GivenIsCurrent
  <2>1. MadeOnce /\ MissingIsUnmade
    BY AwaitablesAreThings DEF InjectionInit, MadeOnce, MissingIsUnmade
  <2>2. StartedIsFiled /\ GivenIsCurrent
    BY FieldsAreNoThings DEF InjectionInit, StartedIsFiled, GivenIsCurrent
  <2> QED BY <2>1, <2>2
<1>3. PathIsOfFailed /\ FailuresAreRecorded
  BY DEF InjectionInit, PathIsOfFailed, FailuresAreRecorded
<1>4. CancelsAreTimeouts /\ AbortsAreShared
  BY DEF InjectionInit, CancelsAreTimeouts, AbortsAreShared
<1> QED BY <1>1, <1>2, <1>3, <1>4 DEF InjectionIInv

-----------------------------------------------------------------------------
\* Steps that leave the errors alone and only let running coroutines go on, or
\* end otherwise than by a failure, keep what is said about errors.
LEMMA PathsKept ==
  ASSUME InjectionIInv, NEW x \in Fields \cup Things, NEW v, life' = [life EXCEPT ![x] = v],
         life[x] \in {"idle", "running"}, x \in Fields => v # "failed",
         UNCHANGED <<cause, pathOf, recorded>>
  PROVE  PathIsOfFailed' /\ FailuresAreRecorded'
<1>1. PathIsOfFailed'
  BY FieldsAreNoThings DEF InjectionIInv, InjectionTypeOK, PathIsOfFailed
<1>2. FailuresAreRecorded'
  BY FieldsAreNoThings DEF InjectionIInv, InjectionTypeOK, FailuresAreRecorded
<1> QED BY <1>1, <1>2

LEMMA FailPaths ==
  ASSUME InjectionIInv, NEW c \in Injected, NEW how \in {"failed", "cancelled"},
         NEW t \in Fields \cup Things, t \in Things \/ t = c,
         life[c] = "running", Fail(c, how, t)
  PROVE  PathIsOfFailed' /\ FailuresAreRecorded'
<1>1. CASE c \in Fields /\ how = "failed"
  <2> DEFINE p == PathFor(c, t)
  <2>1. /\ p \in Fields /\ p \in {c} \cup {pathOf[x] : x \in Things}
        /\ p # c => t \in Explicit /\ p = pathOf[t] /\ life[p] = "failed" /\ cause[p] = t
    BY <1>1, FieldsAreNoThings, InjectionAssumption DEF InjectionIInv, InjectionTypeOK, PathIsOfFailed, PathFor
  <2>2. /\ life' = [life EXCEPT ![c] = "failed"]
        /\ cause' = [cause EXCEPT ![c] = t]
        /\ recorded' = [recorded EXCEPT ![c] = p]
        /\ pathOf' = [x \in Things |-> IF x = t THEN p ELSE pathOf[x]]
    BY <1>1 DEF Fail
  <2> HIDE DEF p
  <2>3. PathIsOfFailed'
    BY <1>1, <2>1, <2>2, FieldsAreNoThings DEF InjectionIInv, InjectionTypeOK, PathIsOfFailed
  <2>4. FailuresAreRecorded'
    BY <1>1, <2>1, <2>2, FieldsAreNoThings DEF InjectionIInv, InjectionTypeOK, FailuresAreRecorded
  <2> QED BY <2>3, <2>4
<1>2. CASE c \notin Fields \/ how = "cancelled"
  <2>1. PathIsOfFailed'
    BY <1>2, FieldsAreNoThings DEF InjectionIInv, InjectionTypeOK, PathIsOfFailed, Fail, Injected, Things
  <2>2. FailuresAreRecorded'
    BY <1>2, FieldsAreNoThings DEF InjectionIInv, InjectionTypeOK, FailuresAreRecorded, Fail, Injected, Things
  <2> QED BY <2>1, <2>2
<1> QED BY <1>1, <1>2

-----------------------------------------------------------------------------
\* Counts and values: MadeOnce, StartedIsFiled, MissingIsUnmade, GivenIsCurrent.
Counts == MadeOnce /\ StartedIsFiled /\ MissingIsUnmade /\ GivenIsCurrent

LEMMA SupplyKeepsType ==
  ASSUME InjectionTypeOK, NEW c \in Injected, NEW t \in Things, NEW n \in Nat, Supply(c, t, n)
  PROVE  /\ memo' \in [Things -> {"missing", "task", "value"}]
         /\ supplied' \in [Injected -> Nat]
         /\ waiting' \in [Injected -> {"no", "started", "found"}]
         /\ given' \in [Injected -> SUBSET (Things \X Nat)]
BY DEF InjectionTypeOK, Supply

LEMMA FailKeepsType ==
  ASSUME InjectionIInv, NEW c \in Injected, NEW how \in {"failed", "cancelled"},
         NEW t \in Fields \cup Things, t \in Things \/ t = c, Fail(c, how, t)
  PROVE  /\ life' \in [Fields \cup Things -> {"idle", "running", "value", "failed", "cancelled"}]
         /\ waiting' \in [Injected -> {"no", "started", "found"}]
         /\ cause' \in [Fields \cup Things -> Fields \cup Things]
         /\ \A x \in Things : cause'[x] \in Things
         /\ pathOf' \in [Things -> Fields \cup {NoField}]
         /\ recorded' \in [Fields -> Fields \cup {NoField}]
<1>1. c \in Fields => PathFor(c, t) \in Fields
  BY FieldsAreNoThings, InjectionAssumption DEF InjectionIInv, InjectionTypeOK, PathFor
<1>2. /\ life' \in [Fields \cup Things -> {"idle", "running", "value", "failed", "cancelled"}]
      /\ waiting' \in [Injected -> {"no", "started", "found"}]
      /\ cause' \in [Fields \cup Things -> Fields \cup Things]
      /\ \A x \in Things : cause'[x] \in Things
  BY FieldsAreNoThings DEF InjectionIInv, InjectionTypeOK, Fail
<1>3. /\ pathOf' \in [Things -> Fields \cup {NoField}]
      /\ recorded' \in [Fields -> Fields \cup {NoField}]
  BY <1>1 DEF InjectionIInv, InjectionTypeOK, Fail
<1> QED BY <1>2, <1>3

\* A supply of what the last call produced keeps what is said about counts.
LEMMA SupplyCounts ==
  ASSUME InjectionIInv, NEW c \in Injected, NEW t \in Things, Supply(c, t, calls[t]),
         memo[t] # "missing", UNCHANGED <<life, calls>>
  PROVE  Counts'
<1>1. \A u \in Things : memo'[u] = "missing" <=> memo[u] = "missing"
  BY DEF InjectionIInv, InjectionTypeOK, Supply
<1>2. MadeOnce' /\ StartedIsFiled' /\ MissingIsUnmade'
  BY <1>1, InjectionAssumption DEF InjectionIInv, MadeOnce, StartedIsFiled, MissingIsUnmade, Things
<1>3. GivenIsCurrent'
  BY <1>1 DEF InjectionIInv, InjectionTypeOK, GivenIsCurrent, Supply
<1> QED BY <1>2, <1>3 DEF Counts

\* Whoever ends was started.
LEMMA EndCounts ==
  ASSUME InjectionIInv, NEW x \in Fields \cup Things, life[x] = "running", NEW v,
         life' = [life EXCEPT ![x] = v], UNCHANGED <<memo, calls, given>>
  PROVE  Counts'
<1>1. StartedIsFiled'
  BY DEF InjectionIInv, InjectionTypeOK, StartedIsFiled
<1>2. MadeOnce' /\ MissingIsUnmade' /\ GivenIsCurrent'
  BY DEF InjectionIInv, MadeOnce, MissingIsUnmade, GivenIsCurrent
<1> QED BY <1>1, <1>2 DEF Counts

\* Steps that cancel nothing keep what is said about cancellations.
LEMMA NoCancelKeeps ==
  ASSUME InjectionIInv, UNCHANGED timeouts,
         \A x \in Fields \cup Things : life'[x] = "cancelled" => life[x] = "cancelled"
  PROVE  CancelsAreTimeouts' /\ AbortsAreShared'
<1>1. CancelsAreTimeouts'
  BY DEF InjectionIInv, CancelsAreTimeouts, Reach, NeedsOf
<1>2. AbortsAreShared'
  BY DEF InjectionIInv, AbortsAreShared, NeedsOf
<1> QED BY <1>1, <1>2

-----------------------------------------------------------------------------
LEMMA CallSyncPreserves ==
  ASSUME InjectionIInv, NEW c \in Injected, NEW d \in Things, CallSync(c, d)
  PROVE  InjectionIInv'
<1> USE DEF CallSync
<1>1. /\ d \notin Async \cup {Box} /\ memo[d] = "missing" /\ life[d] = "idle"
      /\ life[c] = "running" /\ c \in Fields \cup Things
      /\ calls' = [calls EXCEPT ![d] = @ + 1] /\ calls[d] \in Nat
      /\ \A e \in Injected : \A p \in given[e] : p[1] # d
  BY InjectionAssumption
  DEF InjectionIInv, InjectionTypeOK, StartedIsFiled, GivenIsCurrent, Wants, Called, Injected, Things
<1>2. CASE Supply(c, d, calls[d] + 1) /\ UNCHANGED <<life, cause, pathOf, recorded>>
  <2>1. InjectionTypeOK'
    BY <1>1, <1>2, SupplyKeepsType DEF InjectionIInv, InjectionTypeOK
  <2>2. /\ \A u \in Things : u # d => (memo'[u] = memo[u] /\ calls'[u] = calls[u])
        /\ memo'[d] = "value" /\ calls'[d] = calls[d] + 1
        /\ given' = [given EXCEPT ![c] = @ \cup {<<d, calls[d] + 1>>}]
    BY <1>1, <1>2, InjectionAssumption DEF InjectionIInv, InjectionTypeOK, Supply, Things
  <2>3. MadeOnce' /\ StartedIsFiled' /\ MissingIsUnmade'
    BY <1>1, <1>2, <2>2, AwaitablesAreThings
    DEF InjectionIInv, MadeOnce, StartedIsFiled, MissingIsUnmade
  <2>4. GivenIsCurrent'
    <3>1. \A e \in Injected : \A p \in given'[e] :
            p = <<d, calls[d] + 1>> \/ p \in given[e]
      BY <2>2 DEF InjectionIInv, InjectionTypeOK
    <3>2. \A e \in Injected : \A p \in given[e] : p[1] \in Things
      BY DEF InjectionIInv, InjectionTypeOK
    <3> QED BY <1>1, <2>2, <3>1, <3>2 DEF InjectionIInv, GivenIsCurrent
  <2>5. PathIsOfFailed' /\ FailuresAreRecorded'
    BY <1>2 DEF InjectionIInv, PathIsOfFailed, FailuresAreRecorded
  <2>6. CancelsAreTimeouts' /\ AbortsAreShared'
    BY <1>2, NoCancelKeeps
  <2> QED BY <2>1, <2>3, <2>4, <2>5, <2>6 DEF InjectionIInv
<1>3. CASE Fail(c, "failed", c) /\ UNCHANGED <<memo, supplied, given>>
  <2>1. InjectionTypeOK'
    BY <1>1, <1>3, FailKeepsType DEF InjectionIInv, InjectionTypeOK
  <2>2. life' = [life EXCEPT ![c] = "failed"]
    BY <1>3 DEF Fail
  <2>3. MadeOnce' /\ MissingIsUnmade'
    BY <1>1, <1>3, InjectionAssumption DEF InjectionIInv, InjectionTypeOK, MadeOnce, MissingIsUnmade, Things
  <2>4. StartedIsFiled'
    BY <1>1, <1>3, <2>2 DEF InjectionIInv, InjectionTypeOK, StartedIsFiled
  <2>5. GivenIsCurrent'
    BY <1>1, <1>3 DEF InjectionIInv, InjectionTypeOK, GivenIsCurrent
  <2>6. PathIsOfFailed' /\ FailuresAreRecorded'
    BY <1>1, <1>3, FailPaths
  <2>7. CancelsAreTimeouts' /\ AbortsAreShared'
    BY <1>1, <2>2, NoCancelKeeps DEF InjectionIInv, InjectionTypeOK
  <2> QED BY <2>1, <2>3, <2>4, <2>5, <2>6, <2>7 DEF InjectionIInv
<1> QED BY <1>2, <1>3

LEMMA StartTaskPreserves ==
  ASSUME InjectionIInv, NEW c \in Injected, NEW t \in Things, StartTask(c, t)
  PROVE  InjectionIInv'
<1> USE DEF StartTask
<1>1. /\ calls[t] = 0 /\ life[t] = "idle" /\ memo' = [memo EXCEPT ![t] = "task"]
      /\ calls' = [calls EXCEPT ![t] = @ + 1]
      /\ \A e \in Injected : \A p \in given[e] : p[1] # t
  BY DEF InjectionIInv, InjectionTypeOK, MissingIsUnmade, StartedIsFiled, GivenIsCurrent, Called, Remember
<1>2. InjectionTypeOK'
  BY <1>1 DEF InjectionIInv, InjectionTypeOK
<1>3. MadeOnce' /\ StartedIsFiled' /\ MissingIsUnmade'
  BY <1>1, InjectionAssumption DEF InjectionIInv, InjectionTypeOK, MadeOnce, StartedIsFiled, MissingIsUnmade, Things
<1>4. GivenIsCurrent'
  BY <1>1 DEF InjectionIInv, InjectionTypeOK, GivenIsCurrent
<1>5. PathIsOfFailed' /\ FailuresAreRecorded'
  BY <1>1, FieldsAreNoThings, PathsKept
<1>6. CancelsAreTimeouts' /\ AbortsAreShared'
  BY NoCancelKeeps DEF InjectionIInv, InjectionTypeOK
<1> QED BY <1>2, <1>3, <1>4, <1>5, <1>6 DEF InjectionIInv

LEMMA EndAwaitPreserves ==
  ASSUME InjectionIInv, NEW c \in Injected, NEW t \in Things, EndAwait(c, t)
  PROVE  InjectionIInv'
<1> USE DEF EndAwait
<1>1. /\ t \in Async \cup {Box} /\ memo[t] # "missing" /\ life[c] = "running"
      /\ c \in Fields \cup Things /\ supplied[c] \in Nat /\ calls[t] \in Nat
  BY DEF InjectionIInv, InjectionTypeOK, StartedIsFiled, Over, Wants, Injected, Things
<1>2. CASE Supply(c, t, calls[t]) /\ UNCHANGED <<life, cause, pathOf, recorded>>
  <2>1. InjectionTypeOK'
    BY <1>1, <1>2, SupplyKeepsType DEF InjectionIInv, InjectionTypeOK
  <2>2. Counts'
    BY <1>1, <1>2, SupplyCounts
  <2>3. PathIsOfFailed' /\ FailuresAreRecorded'
    BY <1>2 DEF InjectionIInv, PathIsOfFailed, FailuresAreRecorded
  <2>4. CancelsAreTimeouts' /\ AbortsAreShared'
    BY <1>2, NoCancelKeeps
  <2> QED BY <2>1, <2>2, <2>3, <2>4 DEF InjectionIInv, Counts
<1>3. CASE life[t] # "value" /\ Fail(c, RaisedBy(t), cause[t]) /\ UNCHANGED <<memo, supplied, given>>
  <2> DEFINE how == RaisedBy(t)
  <2>1. /\ how = life[t] /\ how \in {"failed", "cancelled"} /\ cause[t] \in Things
    BY <1>3 DEF InjectionIInv, InjectionTypeOK, Over, RaisedBy
  <2>2. Fail(c, how, cause[t]) /\ life' = [life EXCEPT ![c] = how]
    BY <1>3 DEF Fail
  <2> HIDE DEF how
  <2>3. InjectionTypeOK'
    BY <1>1, <1>3, <2>1, <2>2, FailKeepsType DEF InjectionIInv, InjectionTypeOK
  <2>4. Counts'
    BY <1>1, <1>3, <2>2, EndCounts
  <2>5. PathIsOfFailed' /\ FailuresAreRecorded'
    BY <1>1, <2>1, <2>2, FailPaths
  <2>6. CancelsAreTimeouts' /\ AbortsAreShared'
    <3>1. CASE how = "failed"
      BY <1>1, <1>3, <2>2, <3>1, NoCancelKeeps DEF InjectionIInv, InjectionTypeOK
    <3>2. CASE how = "cancelled"
      <4>1. PICK g \in timeouts : Reach(t) \cap NeedsOf(g) # {}
        BY <2>1, <3>2 DEF InjectionIInv, CancelsAreTimeouts
      <4>2. Reach(t) \subseteq NeedsOf(c)
        BY <1>1, WantedIsNeeded
      <4>3. NeedsOf(c) \cap NeedsOf(g) # {}
        BY <4>1, <4>2
      <4>4. c = Box => Reach(t) \subseteq Reach(Box)
        <5>1. SUFFICES ASSUME c = Box PROVE t \in {Plan[Box][i] : i \in DOMAIN Plan[Box]} /\ t # Box
          BY DEF Reach
        <5>2. Plan[Box] \in Seq(Things) /\ supplied[Box] + 1 \in DOMAIN Plan[Box]
              /\ Plan[Box][supplied[Box] + 1] = t
          BY <1>1, <5>1, InjectionAssumption DEF Wants, Injected
        <5> QED BY <5>2, InjectionAssumption
      <4>5. CancelsAreTimeouts'
        <5>1. \A x \in Things : life'[x] = "cancelled" =>
                \E h \in timeouts : Reach(x) \cap NeedsOf(h) # {}
          <6>1. ASSUME c \in Things PROVE Reach(c) \cap NeedsOf(g) # {}
            BY <4>1, <4>4, <6>1, FieldsAreNoThings DEF Injected
          <6> QED BY <2>2, <6>1 DEF InjectionIInv, InjectionTypeOK, CancelsAreTimeouts
        <5> QED BY <1>3, <5>1 DEF CancelsAreTimeouts, Reach, NeedsOf
      <4>6. AbortsAreShared'
        <5>1. \A f \in Fields : life'[f] = "cancelled" =>
                \E h \in timeouts : NeedsOf(f) \cap NeedsOf(h) # {}
          BY <2>2, <4>3 DEF InjectionIInv, InjectionTypeOK, AbortsAreShared
        <5> QED BY <1>3, <5>1 DEF AbortsAreShared, NeedsOf
      <4> QED BY <4>5, <4>6
    <3> QED BY <2>1, <3>1, <3>2
  <2> QED BY <2>3, <2>4, <2>5, <2>6 DEF InjectionIInv, Counts
<1> QED BY <1>2, <1>3

LEMMA UsePreserves ==
  ASSUME InjectionIInv, NEW c \in Injected, Use(c)
  PROVE  InjectionIInv'
<1> USE DEF Use
<1>1. life[c] = "running" /\ c \in Fields \cup Things
  BY DEF Injected, Things
<1>2. CASE life' = [life EXCEPT ![c] = "value"] /\ UNCHANGED <<cause, pathOf, recorded, waiting>>
  <2>1. InjectionTypeOK'
    BY <1>2 DEF InjectionIInv, InjectionTypeOK
  <2>2. Counts'
    BY <1>1, <1>2, EndCounts
  <2>3. PathIsOfFailed' /\ FailuresAreRecorded'
    BY <1>1, <1>2, PathsKept
  <2>4. CancelsAreTimeouts' /\ AbortsAreShared'
    BY <1>1, <1>2, NoCancelKeeps DEF InjectionIInv, InjectionTypeOK
  <2> QED BY <2>1, <2>2, <2>3, <2>4 DEF InjectionIInv, Counts
<1>3. CASE Fail(c, "failed", c)
  <2>1. life' = [life EXCEPT ![c] = "failed"]
    BY <1>3 DEF Fail
  <2>2. InjectionTypeOK'
    BY <1>1, <1>3, FailKeepsType DEF InjectionIInv, InjectionTypeOK
  <2>3. Counts'
    BY <1>1, <2>1, EndCounts
  <2>4. PathIsOfFailed' /\ FailuresAreRecorded'
    BY <1>1, <1>3, FailPaths
  <2>5. CancelsAreTimeouts' /\ AbortsAreShared'
    BY <1>1, <2>1, NoCancelKeeps DEF InjectionIInv, InjectionTypeOK
  <2> QED BY <2>2, <2>3, <2>4, <2>5 DEF InjectionIInv, Counts
<1> QED BY <1>2, <1>3

LEMMA TimeOutPreserves ==
  ASSUME InjectionIInv, NEW f \in Fields, NEW t \in Things, TimeOut(f, t)
  PROVE  InjectionIInv'
<1> USE DEF TimeOut
<1> DEFINE Hit == {x \in Awaited(t) : life[x] = "running"}
<1>1. /\ life[f] = "running" /\ f \in Injected /\ supplied[f] \in Nat
      /\ Awaited(t) \subseteq Things /\ f \notin Things
  BY FieldsAreNoThings DEF InjectionIInv, InjectionTypeOK, Wants, Injected, Awaited, Things
<1>2. life' = [x \in Fields \cup Things |->
        IF x = f THEN "failed" ELSE IF x \in Hit THEN "cancelled" ELSE life[x]]
  OBVIOUS
<1>3. \A x \in Hit : x \in Things /\ life[x] = "running"
  BY <1>1
<1>4. \A x \in Hit : Reach(x) \cap NeedsOf(f) # {}
  <2>1. Reach(t) \subseteq NeedsOf(f)
    BY <1>1, WantedIsNeeded
  <2>2. ASSUME NEW x \in Hit PROVE x \in Reach(t) /\ x \in Async \cup {Box}
    <3>0. x \in Awaited(t) /\ x \in Async \cup {Box}
      BY <1>1 DEF InjectionIInv, StartedIsFiled
    <3>1. CASE x = t
      BY <3>0, <3>1 DEF Reach
    <3>2. CASE t = Box /\ x \in Deps /\ Wants(Box, x)
      <4>1. Plan[Box] \in Seq(Things) /\ supplied[Box] \in Nat
        BY InjectionAssumption DEF Injected, InjectionIInv, InjectionTypeOK
      <4>2. supplied[Box] + 1 \in DOMAIN Plan[Box] /\ Plan[Box][supplied[Box] + 1] = x
        BY <3>2, <4>1 DEF Wants
      <4> QED BY <3>0, <3>2, <4>2 DEF Reach
    <3> QED BY <3>0, <3>1, <3>2 DEF Awaited
  <2> QED BY <2>1, <2>2 DEF Reach
<1> HIDE DEF Hit
<1>5. InjectionTypeOK'
  <2>1. life' \in [Fields \cup Things -> {"idle", "running", "value", "failed", "cancelled"}]
    BY <1>2 DEF InjectionIInv, InjectionTypeOK
  <2> QED BY <1>1, <2>1 DEF InjectionIInv, InjectionTypeOK
<1>6. Counts'
  BY <1>1, <1>2, <1>3 DEF InjectionIInv, InjectionTypeOK, Counts, MadeOnce, StartedIsFiled, MissingIsUnmade, GivenIsCurrent
<1>7. PathIsOfFailed'
  BY <1>1, <1>2, <1>3, FieldsAreNoThings DEF InjectionIInv, InjectionTypeOK, PathIsOfFailed
<1>8. FailuresAreRecorded'
  BY <1>1, <1>2, <1>3, FieldsAreNoThings DEF InjectionIInv, InjectionTypeOK, FailuresAreRecorded
<1>9. CancelsAreTimeouts'
  <2>1. \A x \in Hit : Reach(x) \cap NeedsOf(f) # {}
    BY <1>4
  <2>2. \A x \in Things : life'[x] = "cancelled" =>
          \E g \in timeouts' : Reach(x) \cap NeedsOf(g) # {}
    BY <1>1, <1>2, <2>1 DEF InjectionIInv, CancelsAreTimeouts
  <2> QED BY <2>2 DEF CancelsAreTimeouts, Reach, NeedsOf
<1>10. AbortsAreShared'
  <2>1. \A x \in Fields : life'[x] = "cancelled" =>
          \E g \in timeouts' : NeedsOf(x) \cap NeedsOf(g) # {}
    BY <1>1, <1>2, <1>3, FieldsAreNoThings DEF InjectionIInv, AbortsAreShared
  <2> QED BY <2>1 DEF AbortsAreShared, NeedsOf
<1> QED BY <1>5, <1>6, <1>7, <1>8, <1>9, <1>10 DEF InjectionIInv, Counts

-----------------------------------------------------------------------------
\* The rest of the invariant does not depend on who waits.
LEMMA WaitingOnly ==
  ASSUME InjectionIInv, InjectionTypeOK', UNCHANGED <<memo, life, calls, cause, pathOf, recorded, given, timeouts>>
  PROVE  InjectionIInv'
<1>1. Counts'
  BY DEF InjectionIInv, Counts, MadeOnce, StartedIsFiled, MissingIsUnmade, GivenIsCurrent
<1>2. PathIsOfFailed' /\ FailuresAreRecorded'
  BY DEF InjectionIInv, PathIsOfFailed, FailuresAreRecorded
<1>3. CancelsAreTimeouts' /\ AbortsAreShared'
  BY NoCancelKeeps
<1> QED BY <1>1, <1>2, <1>3 DEF InjectionIInv, Counts

LEMMA NextIInv == InjectionIInv /\ [InjectionNext]_injectionVars => InjectionIInv'
<1> SUFFICES ASSUME InjectionIInv, [InjectionNext]_injectionVars PROVE InjectionIInv'
  OBVIOUS
<1>1. ASSUME NEW c \in Injected, NEW t \in Things, CallSync(c, t) PROVE InjectionIInv'
  BY <1>1, CallSyncPreserves
<1>2. ASSUME NEW c \in Injected, NEW t \in Things, StartTask(c, t) PROVE InjectionIInv'
  BY <1>2, StartTaskPreserves
<1>3. ASSUME NEW c \in Injected, NEW t \in Things, JoinTask(c, t) PROVE InjectionIInv'
  <2>1. InjectionTypeOK'
    BY <1>3 DEF InjectionIInv, InjectionTypeOK, JoinTask
  <2> QED BY <1>3, <2>1, WaitingOnly DEF JoinTask
<1>4. ASSUME NEW c \in Injected, NEW t \in Things, TakeValue(c, t) PROVE InjectionIInv'
  <2> USE <1>4 DEF TakeValue
  <2>1. InjectionTypeOK'
    BY SupplyKeepsType DEF InjectionIInv, InjectionTypeOK
  <2>2. Counts'
    BY SupplyCounts
  <2>3. PathIsOfFailed' /\ FailuresAreRecorded'
    BY DEF InjectionIInv, PathIsOfFailed, FailuresAreRecorded
  <2>4. CancelsAreTimeouts' /\ AbortsAreShared'
    BY NoCancelKeeps
  <2> QED BY <2>1, <2>2, <2>3, <2>4 DEF InjectionIInv, Counts
<1>5. ASSUME NEW c \in Injected, NEW t \in Things, EndAwait(c, t) PROVE InjectionIInv'
  BY <1>5, EndAwaitPreserves
<1>6. ASSUME NEW c \in Injected, Use(c) PROVE InjectionIInv'
  BY <1>6, UsePreserves
<1>7. ASSUME NEW d \in Deps, ProviderEnds(d) PROVE InjectionIInv'
  <2>1. PICK how \in {"value", "failed"} : life' = [life EXCEPT ![d] = how]
    BY <1>7 DEF ProviderEnds
  <2>2. /\ d \in Fields \cup Things /\ d \notin Fields /\ life[d] = "running"
    BY <1>7, FieldsAreNoThings DEF ProviderEnds, Things
  <2>3. InjectionTypeOK'
    BY <1>7, <2>1, <2>2 DEF ProviderEnds, InjectionIInv, InjectionTypeOK
  <2>4. Counts'
    BY <1>7, <2>1, <2>2, EndCounts DEF ProviderEnds
  <2>5. PathIsOfFailed' /\ FailuresAreRecorded'
    BY <1>7, <2>1, <2>2, PathsKept DEF ProviderEnds
  <2>6. CancelsAreTimeouts' /\ AbortsAreShared'
    BY <1>7, <2>1, <2>2, NoCancelKeeps DEF ProviderEnds, InjectionIInv, InjectionTypeOK
  <2> QED BY <2>3, <2>4, <2>5, <2>6 DEF InjectionIInv, Counts
<1>8. ASSUME NEW f \in Fields, NEW t \in Things, TimeOut(f, t) PROVE InjectionIInv'
  BY <1>8, TimeOutPreserves
<1>9. CASE UNCHANGED injectionVars
  <2>1. InjectionTypeOK'
    BY <1>9 DEF injectionVars, InjectionIInv, InjectionTypeOK
  <2> QED BY <1>9, <2>1, WaitingOnly DEF injectionVars
<1> QED BY <1>1, <1>2, <1>3, <1>4, <1>5, <1>6, <1>7, <1>8, <1>9 DEF InjectionNext, Step

-----------------------------------------------------------------------------
\* The inductive invariant: the properties of the module with the facts about
\* the two memos and the errors that carry them from step to step.
THEOREM InjectionInvariance == InjectionSpec => []InjectionIInv
BY InitIInv, NextIInv, PTL DEF InjectionSpec

\* The memos, tasks and fields stay well typed (_Executor, execute.py:332-333).
THEOREM InjectionTypeCorrect == InjectionSpec => []InjectionTypeOK
<1>1. InjectionIInv => InjectionTypeOK
  BY DEF InjectionIInv
<1> QED BY InjectionInvariance, <1>1, PTL

\* An asynchronous provider and the container class are called at most once for
\* an operation (_dependency_value and _root_instance).
THEOREM CalledOnce == InjectionSpec => []MadeOnce
<1>1. InjectionIInv => MadeOnce
  BY DEF InjectionIInv
<1> QED BY InjectionInvariance, <1>1, PTL

\* All who are given a dependency or the container are given the same value of
\* it, also when a synchronous provider failed before and was called again.
THEOREM SharedValue == InjectionSpec => []SameValue
<1>1. InjectionIInv => SameValue
  <2> SUFFICES ASSUME InjectionIInv, NEW c \in Injected, NEW e \in Injected,
                      NEW p \in given[c], NEW q \in given[e], p[1] = q[1]
               PROVE  p = q
    BY DEF SameValue
  <2>1. p \in Things \X Nat /\ q \in Things \X Nat
    BY DEF InjectionIInv, InjectionTypeOK
  <2>2. p[2] = calls[p[1]] /\ q[2] = calls[q[1]]
    BY DEF InjectionIInv, GivenIsCurrent
  <2> QED BY <2>1, <2>2
<1> QED BY InjectionInvariance, <1>1, PTL

\* A CancelledError that reaches a field comes from the timeout of a field with
\* which it shares a dependency or the container.
THEOREM SharedAborts == InjectionSpec => []AbortsAreShared
<1>1. InjectionIInv => AbortsAreShared
  BY DEF InjectionIInv
<1> QED BY InjectionInvariance, <1>1, PTL

\* Failed fields, and only they, have an error, under their path or the path of
\* a field that failed with the same error before (_record).
THEOREM RecordedFailures == InjectionSpec => []FailuresAreRecorded
<1>1. InjectionIInv => FailuresAreRecorded
  BY DEF InjectionIInv
<1> QED BY InjectionInvariance, <1>1, PTL
=============================================================================
