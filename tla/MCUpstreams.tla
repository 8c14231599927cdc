---------------------------- MODULE MCUpstreams -----------------------------
(* Model values of Upstreams for TLC: an upstream of a library, and one of a user. *)
EXTENDS Upstreams, TLC

CONSTANTS t1, t2, builtin, custom, s1, s2, n1, n2

TwoThreads == {t1, t2}
TwoUpstreams == {builtin, custom}
TwoSinks == {s1, s2}
TwoNames == {n1, n2}
Symmetry == Permutations(TwoThreads) \cup Permutations(TwoSinks) \cup Permutations(TwoNames)
=============================================================================
