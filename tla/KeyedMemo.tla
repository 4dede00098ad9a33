----------------------------- MODULE KeyedMemo -----------------------------
(***************************************************************************)
(* What a DataLoader promises its callers, with the batching left out: a   *)
(* memo from cache keys to fetches, where a fetch is asked for at most     *)
(* once while it is remembered, ends at most once, and ends with the       *)
(* result of the key it was asked for.  Queue, dispatch, chunks and batch  *)
(* tasks are implementation detail: DataLoader.tla implements this module. *)
(***************************************************************************)
CONSTANTS Keys, CacheKeys, CacheKeyOf, NoKey, Futures, NoFuture

VARIABLES memoizing,  \* whether fetches are remembered at all
          memo,       \* cache key -> the remembered fetch, or NoFuture
          status,     \* fetch -> "absent", "pending" or how it ended
          keyOf,      \* fetch -> the key it was asked for
          answer      \* fetch -> the key whose result it ended with

memoVars == <<memoizing, memo, status, keyOf, answer>>

Pending(S) == {f \in S : status[f] = "pending"}

MemoInit ==
  /\ memoizing \in BOOLEAN
  /\ memo = [ck \in CacheKeys |-> NoFuture]
  /\ status = [f \in Futures |-> "absent"]
  /\ keyOf = [f \in Futures |-> NoKey]
  /\ answer = [f \in Futures |-> NoKey]

\* A key that is not remembered is asked for.
Ask(f, k) ==
  /\ status[f] = "absent"
  /\ memoizing => memo[CacheKeyOf[k]] = NoFuture
  /\ status' = [status EXCEPT ![f] = "pending"]
  /\ keyOf' = [keyOf EXCEPT ![f] = k]
  /\ memo' = IF memoizing THEN [memo EXCEPT ![CacheKeyOf[k]] = f] ELSE memo
  /\ UNCHANGED <<memoizing, answer>>

\* A key that is not remembered is given its result without being asked for.
Seed(f, k, outcome) ==
  /\ status[f] = "absent"
  /\ memoizing /\ memo[CacheKeyOf[k]] = NoFuture
  /\ outcome \in {"value", "error"}
  /\ status' = [status EXCEPT ![f] = outcome]
  /\ keyOf' = [keyOf EXCEPT ![f] = k]
  /\ answer' = [answer EXCEPT ![f] = IF outcome = "value" THEN k ELSE @]
  /\ memo' = [memo EXCEPT ![CacheKeyOf[k]] = f]
  /\ UNCHANGED memoizing

\* Pending fetches get their own results; good ones are a subset of them.
Settle(S, good) ==
  /\ S \subseteq Pending(Futures)
  /\ good \subseteq S
  /\ status' = [f \in Futures |-> IF f \in good THEN "value"
                                  ELSE IF f \in S THEN "error" ELSE status[f]]
  /\ answer' = [f \in Futures |-> IF f \in good THEN keyOf[f] ELSE answer[f]]
  /\ UNCHANGED <<memoizing, memo, keyOf>>

\* Fetches fail together: those still pending get the error and their keys
\* are forgotten, so that they can be asked for again.
FailTogether(S) ==
  /\ \A f \in S : status[f] # "absent"
  /\ status' = [f \in Futures |-> IF f \in Pending(S) THEN "error" ELSE status[f]]
  /\ memo' = [ck \in CacheKeys |->
                IF memoizing /\ \E f \in S : CacheKeyOf[keyOf[f]] = ck
                THEN NoFuture ELSE memo[ck]]
  /\ UNCHANGED <<memoizing, keyOf, answer>>

\* Pending fetches are given up by a waiter.
GiveUp(S) ==
  /\ S \subseteq Pending(Futures)
  /\ status' = [f \in Futures |-> IF f \in S THEN "cancelled" ELSE status[f]]
  /\ UNCHANGED <<memoizing, memo, keyOf, answer>>

\* The user drops cache keys.
Forget(C) ==
  /\ memo' = [ck \in CacheKeys |-> IF ck \in C THEN NoFuture ELSE memo[ck]]
  /\ UNCHANGED <<memoizing, status, keyOf, answer>>

MemoNext ==
  \/ \E f \in Futures, k \in Keys : Ask(f, k)
  \/ \E f \in Futures, k \in Keys, o \in {"value", "error"} : Seed(f, k, o)
  \/ \E S \in SUBSET Futures : \E good \in SUBSET S : Settle(S, good)
  \/ \E S \in SUBSET Futures : FailTogether(S) \/ GiveUp(S)
  \/ \E C \in SUBSET CacheKeys : Forget(C)

MemoSpec == MemoInit /\ [][MemoNext]_memoVars
=============================================================================
