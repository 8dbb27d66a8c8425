----------------------------- MODULE MCWorkflow -----------------------------
(* Workflow for TLC: b, without a function, waits for a, c for a and on a  *)
(* condition, and d joins b and c.  The checkpoints are those of a and b.  *)
EXTENDS Workflow

CONSTANTS a, b, c, d
FourNodes == {a, b, c, d}
Diamond   == {<<a, b>>, <<a, c>>, <<b, d>>, <<c, d>>}
OnA       == {<<a, c>>}
NoFn      == {b}
TwoSaved  == {a, b}
=============================================================================
