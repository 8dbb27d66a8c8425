---------------------------- MODULE MCTaskGraph -----------------------------
(* TaskGraph for TLC: a and b start together, d waits for b and for c, and *)
(* c for a, so that a layer has several nodes and a join waits for nodes   *)
(* of different layers.                                                    *)
EXTENDS TaskGraph

CONSTANTS a, b, c, d
FourNodes == {a, b, c, d}
Join      == {<<a, c>>, <<c, d>>, <<b, d>>}
=============================================================================
