----------------------------- MODULE DataLoader -----------------------------
(***************************************************************************)
(* fastql/dataloader.py: one DataLoader on one asyncio event loop.         *)
(*                                                                         *)
(* Everything between two awaits is one step: load, clear, prime and       *)
(* _dispatch run to completion, _run_batch is split at its only await.     *)
(* A caller is any task of the program that loads keys and awaits the      *)
(* futures it got, alone or through gather (load_many).                    *)
(*                                                                         *)
(* Operators named Bug... are plausible mistakes in the definition below   *)
(* them, which no specification uses: PROJECT.json says which property     *)
(* TLC finds violated when one of them takes the definition's place.       *)
(***************************************************************************)
EXTENDS Integers, Sequences

CONSTANTS
  Keys,         \* the keys callers load
  CacheKeys,    \* the values cache_key_fn returns
  CacheKeyOf,   \* cache_key_fn, a function from Keys to CacheKeys
  NoKey,        \* not a key
  Callers,      \* the tasks that use the loader
  BatchSizes,   \* the max_batch_size values the constructor is given, 0 for None
  CacheModes,   \* the values of cache= the constructor is given
  MaxFutures    \* bound: how many futures the loader creates

ASSUME KeysAssumption == CacheKeyOf \in [Keys -> CacheKeys] /\ NoKey \notin Keys
ASSUME ConfigAssumption ==
  BatchSizes \subseteq Nat /\ CacheModes \subseteq BOOLEAN /\ MaxFutures \in Nat

Futures == 1..MaxFutures
NoFuture == 0

VARIABLES
  cacheEnabled,       \* self._cache_enabled
  maxBatchSize,       \* self._max_batch_size, 0 for None
  cache,              \* self._cache: cache key -> future or NoFuture
  queue,              \* self._queue: the (key, future) pairs not yet dispatched
  dispatchScheduled,  \* self._dispatch_scheduled
  batches,            \* the pairs of each _run_batch task that awaits the batch function
  status,             \* asyncio state of each future
  keyOf,              \* the key each future was created for
  answer,             \* the key whose result each future carries
  holds,              \* the futures each caller is awaiting
  orphaned            \* futures of the batch tasks that died with a BaseException

config  == <<cacheEnabled, maxBatchSize>>
futVars == <<status, keyOf, answer>>
vars == <<config, cache, queue, dispatchScheduled, batches, futVars, holds, orphaned>>

Statuses == {"absent", "pending", "value", "error", "cancelled"}
Entry == [key : Keys, future : Futures]
FuturesOf(b) == {b[i].future : i \in DOMAIN b}
Pending(S) == {f \in S : status[f] = "pending"}

TypeOK ==
  /\ cacheEnabled \in BOOLEAN
  /\ maxBatchSize \in Nat
  /\ cache \in [CacheKeys -> Futures \cup {NoFuture}]
  /\ queue \in Seq(Entry)
  /\ dispatchScheduled \in BOOLEAN
  /\ batches \subseteq Seq(Entry)
  /\ status \in [Futures -> Statuses]
  /\ keyOf \in [Futures -> Keys \cup {NoKey}]
  /\ answer \in [Futures -> Keys \cup {NoKey}]
  /\ holds \in [Callers -> SUBSET Futures]
  /\ orphaned \subseteq Futures

-----------------------------------------------------------------------------
Init ==
  /\ cacheEnabled \in CacheModes
  /\ maxBatchSize \in BatchSizes
  /\ cache = [ck \in CacheKeys |-> NoFuture]
  /\ queue = <<>>
  /\ dispatchScheduled = FALSE
  /\ batches = {}
  /\ status = [f \in Futures |-> "absent"]
  /\ keyOf = [f \in Futures |-> NoKey]
  /\ answer = [f \in Futures |-> NoKey]
  /\ holds = [c \in Callers |-> {}]
  /\ orphaned = {}

\* loop.create_future(): the next future object.
Fresh(f) == status[f] = "absent" /\ \A g \in Futures : g < f => status[g] # "absent"

Cached(k) == cacheEnabled /\ cache[CacheKeyOf[k]] # NoFuture

\* load() of a cached key: whatever the cached future has become is returned.
LoadCached(c, k) ==
  /\ Cached(k)
  /\ holds' = [holds EXCEPT ![c] = @ \cup {cache[CacheKeyOf[k]]}]
  /\ UNCHANGED <<config, cache, queue, dispatchScheduled, batches, futVars, orphaned>>

\* self._queue.append((key, future))
Enqueued(k, f) == Append(queue, [key |-> k, future |-> f])

\* The first load of a tick schedules _dispatch with call_soon.
ScheduleDispatch == dispatchScheduled' = TRUE

\* load() of any other key: a new future is queued and, with caching on,
\* remembered.
LoadNew(c, k, f) ==
  /\ ~Cached(k)
  /\ Fresh(f)
  /\ status' = [status EXCEPT ![f] = "pending"]
  /\ keyOf' = [keyOf EXCEPT ![f] = k]
  /\ queue' = Enqueued(k, f)
  /\ cache' = IF cacheEnabled THEN [cache EXCEPT ![CacheKeyOf[k]] = f] ELSE cache
  /\ ScheduleDispatch
  /\ holds' = [holds EXCEPT ![c] = @ \cup {f}]
  /\ UNCHANGED <<config, batches, answer, orphaned>>

\* clear(key)
Clear(k) ==
  /\ cache' = [cache EXCEPT ![CacheKeyOf[k]] = NoFuture]
  /\ UNCHANGED <<config, queue, dispatchScheduled, batches, futVars, holds, orphaned>>

\* clear_all()
ClearAll ==
  /\ cache' = [ck \in CacheKeys |-> NoFuture]
  /\ UNCHANGED <<config, queue, dispatchScheduled, batches, futVars, holds, orphaned>>

\* prime(key, value), outcome "error" when value is an exception; it returns
\* early when caching is off or the key is cached.
Prime(k, f, outcome) ==
  /\ cacheEnabled /\ ~Cached(k)
  /\ Fresh(f)
  /\ status' = [status EXCEPT ![f] = outcome]
  /\ keyOf' = [keyOf EXCEPT ![f] = k]
  /\ answer' = [answer EXCEPT ![f] = IF outcome = "value" THEN k ELSE @]
  /\ cache' = [cache EXCEPT ![CacheKeyOf[k]] = f]
  /\ UNCHANGED <<config, queue, dispatchScheduled, batches, holds, orphaned>>

-----------------------------------------------------------------------------
\* range(0, len(q), size), and the slice of q at each start.
BugDropsLastChunk(q, size) == {s \in 0..(Len(q) - 2) : s % size = 0}
Starts(q, size) == {s \in 0..(Len(q) - 1) : s % size = 0}
BugOverlappingSlice(q, s, size) ==
  SubSeq(q, s + 1, IF s + size < Len(q) THEN s + size + 1 ELSE Len(q))
Slice(q, s, size) ==
  SubSeq(q, s + 1, IF s + size < Len(q) THEN s + size ELSE Len(q))
Chunks(q, size) ==
  IF q = <<>> THEN {}
  ELSE IF size > 0 /\ Len(q) > size THEN {Slice(q, s, size) : s \in Starts(q, size)}
  ELSE {q}

\* The scheduled _dispatch(): the queue is swapped out and one task is
\* created for each chunk.
Dispatch ==
  /\ dispatchScheduled
  /\ dispatchScheduled' = FALSE
  /\ queue' = <<>>
  /\ batches' = batches \cup Chunks(queue, maxBatchSize)
  /\ UNCHANGED <<config, cache, futVars, holds, orphaned>>

\* The futures of b that are not done: the others are skipped.
BugStopsAtDone(b) ==
  {b[i].future : i \in {j \in DOMAIN b : \A m \in 1..j : status[b[m].future] = "pending"}}
BugOverwritesDone(b) == FuturesOf(b)
Unsettled(b) == Pending(FuturesOf(b))

\* zip(futures, results): the key at whose position the result of f is.
PositionOf(b, f) == CHOOSE i \in DOMAIN b : b[i].future = f
BugReversedResults(b, f) == b[Len(b) + 1 - PositionOf(b, f)].key
ResultFor(b, f) == b[PositionOf(b, f)].key

\* The batch function returned one result for each key; those of the futures
\* in bad are exceptions.
BatchReturns(b, bad) ==
  /\ batches' = batches \ {b}
  /\ status' = [f \in Futures |->
       IF f \in Unsettled(b) THEN IF f \in bad THEN "error" ELSE "value" ELSE status[f]]
  /\ answer' = [f \in Futures |->
       IF f \in Unsettled(b) \ bad THEN ResultFor(b, f) ELSE answer[f]]
  /\ UNCHANGED <<config, cache, queue, dispatchScheduled, keyOf, holds, orphaned>>

\* What _fail_pending leaves of the cache: the entry of every key of the batch
\* is dropped, whichever future it holds by now.
Evicted(b) ==
  [ck \in CacheKeys |-> IF cacheEnabled /\ \E i \in DOMAIN b : CacheKeyOf[b[i].key] = ck
                        THEN NoFuture ELSE cache[ck]]

\* The batch function raised an Exception or returned the wrong number of
\* results: _fail_pending for every future of the batch.
BatchFails(b) ==
  /\ batches' = batches \ {b}
  /\ status' = [f \in Futures |-> IF f \in Unsettled(b) THEN "error" ELSE status[f]]
  /\ cache' = Evicted(b)
  /\ UNCHANGED <<config, queue, dispatchScheduled, keyOf, answer, holds, orphaned>>

\* The batch function raised CancelledError or another BaseException, which
\* `except Exception` lets through: the task ends, its futures are left alone.
BatchAborts(b) ==
  /\ batches' = batches \ {b}
  /\ orphaned' = orphaned \cup FuturesOf(b)
  /\ UNCHANGED <<config, cache, queue, dispatchScheduled, futVars, holds>>

BatchEnds(b) ==
  \/ \E bad \in SUBSET FuturesOf(b) : BatchReturns(b, bad)
  \/ BatchFails(b)
  \/ BatchAborts(b)

-----------------------------------------------------------------------------
\* A caller's await (of one future, or of a gather) is over: every future has
\* a value, or one of them raises.
Resume(c) ==
  /\ holds[c] # {}
  /\ \/ \A f \in holds[c] : status[f] = "value"
     \/ \E f \in holds[c] : status[f] \in {"error", "cancelled"}
  /\ holds' = [holds EXCEPT ![c] = {}]
  /\ UNCHANGED <<config, cache, queue, dispatchScheduled, batches, futVars, orphaned>>

\* A caller is cancelled while it waits (a timeout, a disconnect): asyncio
\* cancels the futures it awaits, which are the shared ones.
Cancel(c) ==
  /\ Pending(holds[c]) # {}
  /\ status' = [f \in Futures |-> IF f \in Pending(holds[c]) THEN "cancelled" ELSE status[f]]
  /\ holds' = [holds EXCEPT ![c] = {}]
  /\ UNCHANGED <<config, cache, queue, dispatchScheduled, batches, keyOf, answer, orphaned>>

Next ==
  \/ \E c \in Callers, k \in Keys : LoadCached(c, k)
  \/ \E c \in Callers, k \in Keys, f \in Futures : LoadNew(c, k, f)
  \/ \E k \in Keys : Clear(k)
  \/ ClearAll
  \/ \E k \in Keys, f \in Futures, o \in {"value", "error"} : Prime(k, f, o)
  \/ Dispatch
  \/ \E b \in batches : BatchEnds(b)
  \/ \E c \in Callers : Resume(c) \/ Cancel(c)

Spec == Init /\ [][Next]_vars

\* call_soon runs the dispatch, the batch function ends, and a task whose
\* awaitable is done is resumed by the event loop.
Fairness ==
  /\ WF_vars(Dispatch)
  /\ \A f \in Futures : WF_vars(\E b \in batches : f \in FuturesOf(b) /\ BatchEnds(b))
  /\ \A c \in Callers : WF_vars(Resume(c))

FairSpec == Spec /\ Fairness

-----------------------------------------------------------------------------
\* No lost wake-up: a dispatch is scheduled exactly while keys are queued, so
\* no load waits for a tick that never comes (load, _dispatch).
DispatchIsScheduled == dispatchScheduled <=> queue # <<>>

InFlight(f) == \E b \in batches : f \in FuturesOf(b)

\* Every future that load() left pending is queued, in the hands of a live
\* batch task, or was abandoned by a batch task that died: chunking loses none.
EveryLoadAccounted ==
  \A f \in Pending(Futures) : f \in FuturesOf(queue) \/ InFlight(f) \/ f \in orphaned

\* The same future is never in two places, so it is asked for and answered
\* once: queue and batches hold disjoint futures, each of them once.
OnePlaceEach ==
  /\ \A i, j \in DOMAIN queue : queue[i].future = queue[j].future => i = j
  /\ \A f \in FuturesOf(queue) : ~InFlight(f)
  /\ \A b, d \in batches : \A i \in DOMAIN b, j \in DOMAIN d :
        b[i].future = d[j].future => b = d /\ i = j

\* The batch function is never called without keys, nor with more than
\* max_batch_size of them (_dispatch).
BatchWithinLimit ==
  \A b \in batches : b # <<>> /\ (maxBatchSize > 0 => Len(b) <= maxBatchSize)

\* A future carries the result of the key it was created for, and the cache
\* serves a future only under the cache key of that key, after any mix of
\* chunking, clearing, priming and failures.
ResultsAreOwn ==
  /\ \A f \in Futures : status[f] = "value" => answer[f] = keyOf[f]
  /\ \A ck \in CacheKeys : cache[ck] # NoFuture => CacheKeyOf[keyOf[cache[ck]]] = ck

\* A caller that awaits loads is resumed, unless it awaits a future whose batch
\* task died with a BaseException: that await never ends.
CallersResume ==
  \A c \in Callers : holds[c] # {} ~> (holds[c] = {} \/ holds[c] \cap orphaned # {})

\* The loader implements the abstract memo: one fetch per remembered key, each
\* ended once and with its own result, forgotten only by clear, clear_all or a
\* failure of a batch that held the key.
Memo == INSTANCE KeyedMemo WITH memoizing <- cacheEnabled, memo <- cache
ImplementsMemo == Memo!MemoSpec

=============================================================================
