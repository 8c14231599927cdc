----------------------------- MODULE MCSyncSink -----------------------------
(* Instance of SyncSink for TLC. *)
EXTENDS SyncSink, TLC

CONSTANTS c1, c2, o1, o2

TwoCallers == {c1, c2}
TwoOwners == {o1, o2}
Symmetry == Permutations(TwoCallers) \cup Permutations(TwoOwners)
=============================================================================
