----------------------------- MODULE MCDispatch -----------------------------
(* Model values and options of Dispatch for TLC.                           *)
EXTENDS Dispatch

CONSTANTS t1, t2, s1, s2

OneThread == {t1}
TwoThreads == {t1, t2}
OneSink == {s1}
TwoSinks == {s1, s2}
Symmetry == Permutations(TwoThreads) \cup Permutations(TwoSinks)

\* A default, and one with a longer interval.
TwoOptions == <<[flush_items |-> 2, flush_interval_seconds |-> 0],
                [flush_items |-> 2, flush_interval_seconds |-> 2]>>
SlowOptions == <<[flush_items |-> 2, flush_interval_seconds |-> 5]>>
=============================================================================
