------------------------------ MODULE MCHeaton ------------------------------
(* Options of Heaton for TLC. *)
EXTENDS Heaton, TLC

CONSTANTS t1, t2, turbo, absl, custom, user, logs, errors

TwoThreads == {t1, t2}
TwoLibraries == <<turbo, absl>>
Symmetry == Permutations(TwoThreads)

\* A sink of the options; a null target and a console may do without a file name.
Null == [level |-> 0, target |-> "null", dir |-> NoDir]
On(level, target, dir) == [level |-> level, target |-> target, dir |-> dir]

WithErrors == [upstream |-> {turbo, absl}, create_if_missing |-> TRUE,
               sinks |-> <<On(0, "file", logs), On(1, "console", logs), On(2, "file", errors)>>]
NoCreation == [upstream |-> {absl}, create_if_missing |-> FALSE,
               sinks |-> <<On(0, "console", logs), On(2, "file", errors)>>]
ConsoleOnly == [upstream |-> {turbo}, create_if_missing |-> TRUE,
                sinks |-> <<On(0, "console", NoDir)>>]
Defaults == [upstream |-> {turbo, absl}, create_if_missing |-> TRUE, sinks |-> <<Null>>]

AllOptions == {WithErrors, NoCreation, ConsoleOnly, Defaults}
=============================================================================
