--------------------------- MODULE MCKVCacheClient ---------------------------
(* KVCacheClient with interchangeable sessions and tokens.                  *)
EXTENDS KVCacheClient

Symmetry == Permutations(SessionIds) \cup Permutations(TokenIds)
=============================================================================
