----------------------------- MODULE MCKVBlocks -----------------------------
(* KVBlocks for TLC: workers, sessions, payloads and ids are interchangeable. *)
EXTENDS KVBlocks, TLC

Symmetry == Permutations(Workers \ Migrators) \cup Permutations(Sessions)
            \cup Permutations(Contents) \cup Permutations(Blocks)
=============================================================================
