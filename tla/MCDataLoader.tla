---------------------------- MODULE MCDataLoader ----------------------------
(* Constants of DataLoader for TLC.                                          *)
EXTENDS DataLoader

CONSTANTS k1, k2, k3, ckA, ckB

MCCacheKeys == {ckA, ckB}

\* k1 and k2 share a cache key, as with a normalising cache_key_fn.
MCKeys == {k1, k2, k3}
MCCacheKeyOf == [k \in MCKeys |-> IF k = k3 THEN ckB ELSE ckA]
=============================================================================
