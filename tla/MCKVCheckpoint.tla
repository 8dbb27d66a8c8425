--------------------------- MODULE MCKVCheckpoint ---------------------------
(* KVCheckpoint for TLC: calls, sessions, payloads and ids are interchangeable. *)
EXTENDS KVCheckpoint, TLC

Symmetry == Permutations(Callers) \cup Permutations(Sessions)
            \cup Permutations(Contents) \cup Permutations(Blocks)
=============================================================================
