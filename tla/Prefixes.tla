------------------------------ MODULE Prefixes ------------------------------
(***************************************************************************)
(* Prefixes of token sequences, and the scan of KVCache::reuse_prefix that   *)
(* finds the longest one two sequences share (kv_cache.cpp 145-147).         *)
(***************************************************************************)
EXTENDS Integers, Sequences

Prefix(s, n) == SubSeq(s, 1, n)

\* n is the length of the longest common prefix of s and t.
IsLcp(s, t, n) ==
    /\ n <= Len(s) /\ n <= Len(t)
    /\ \A k \in 1 .. n : s[k] = t[k]
    /\ n < Len(s) /\ n < Len(t) => s[n + 1] # t[n + 1]

\* Mutated: the scan compares one token too few.
LcpOfOneMore(s, t) == LET n == CHOOSE n \in 0 .. Len(s) : IsLcp(s, t, n)
                      IN IF n < Len(s) /\ n < Len(t) THEN n + 1 ELSE n

Lcp(s, t) == CHOOSE n \in 0 .. Len(s) : IsLcp(s, t, n)
=============================================================================
