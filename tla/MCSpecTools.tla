---------------------------- MODULE MCSpecTools -----------------------------
(* SpecTools for TLC: requests and tool calls are interchangeable. *)
EXTENDS SpecTools, TLC

Symmetry == Permutations(Requests) \cup Permutations(Keys)
=============================================================================
