---------------------------- MODULE MCAsyncSink -----------------------------
(* Model values and the symmetry of AsyncSink for TLC.                     *)
EXTENDS AsyncSink, TLC

CONSTANTS c1, c2

OneCaller == {c1}
TwoCallers == {c1, c2}
CallerSymmetry == Permutations(TwoCallers)
=============================================================================
