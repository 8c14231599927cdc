----------------------------- MODULE LogRouter ------------------------------
(***************************************************************************)
(* What the dispatcher promises: a log goes at once, and once, to the      *)
(* global sink and to all sinks of its branch, whatever other threads log  *)
(* or reconfigure, so that all sinks see the logs in one order; the global *)
(* sink is in no branch.                                                   *)
(***************************************************************************)
EXTENDS Sequences, Functions

CONSTANTS Sinks, NoSink, Levels,
          Entry   \* the logs that can ever be sent, with their level

VARIABLES global_sink, branches,
          received   \* the logs each sink got, oldest first

vars == <<global_sink, branches, received>>

Init ==
  /\ global_sink = NoSink
  /\ branches = [b \in 1..Levels |-> {}]
  /\ received = [s \in Sinks |-> <<>>]

Targets(e) == {global_sink} \cup branches[e.level]

Route(e) ==
  /\ global_sink # NoSink
  /\ e \notin UNION {Range(received[s]) : s \in Sinks}
  /\ received' = [s \in Sinks |-> IF s \in Targets(e) THEN Append(received[s], e)
                                                      ELSE received[s]]
  /\ UNCHANGED <<global_sink, branches>>

SetGlobal(sink) ==
  /\ global_sink' = sink
  /\ branches' = [b \in 1..Levels |-> branches[b] \ {sink}]
  /\ UNCHANGED received

Add(b, sink) ==
  /\ sink # global_sink
  /\ branches' = [branches EXCEPT ![b] = @ \cup {sink}]
  /\ UNCHANGED <<global_sink, received>>

Remove(b, sink) ==
  /\ branches' = [branches EXCEPT ![b] = @ \ {sink}]
  /\ UNCHANGED <<global_sink, received>>

\* A Route always changes received; saying so first spares TLC the search for e.
Next ==
  \/ received' # received /\ \E e \in Entry : Route(e)
  \/ \E sink \in Sinks \cup {NoSink} : SetGlobal(sink)
  \/ \E b \in 1..Levels, sink \in Sinks : Add(b, sink) \/ Remove(b, sink)

Spec == Init /\ [][Next]_vars
=============================================================================
