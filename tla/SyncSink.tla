------------------------------ MODULE SyncSink ------------------------------
(***************************************************************************)
(* heaton/sinks/sync_sink.{h,cc}: a sink that writes in the thread that    *)
(* logs.  It has no lock: apply_log and flush read a flag and then a       *)
(* pointer, and shutdown writes both.  What keeps the two apart is the     *)
(* mutex of a dispatcher, and only if the sink is removed there first.     *)
(*                                                                         *)
(* Flag and pointer are plain members; each read has a step of its own and *)
(* sees the old or the new value.                                          *)
(***************************************************************************)
CONSTANTS
  Callers,  \* threads that log or flush
  Owners    \* threads that call shutdown

ASSUME SyncSinkAssumption == Callers \cap Owners = {}

VARIABLES
  alive,       \* the sink has not been destroyed
  _shutting_down,
  _target,     \* whether the pointer is set
  target,      \* the object: "open", "shut" by its shutdown, or "destroyed"
  shared,      \* others own the target too; so it is with a console
  mutex,       \* the callers that hold the mutex of the dispatcher
  linked,      \* the dispatcher has the sink
  pc,          \* where each thread is
  crashed,
  direct,      \* history: a caller has gone past the dispatcher
  hasty,       \* history: shutdown was called on a sink of the dispatcher
  twice        \* history: two threads were in shutdown at once

sinkVars == <<alive, _shutting_down, _target, target, shared>>
dispatchVars == <<mutex, linked>>
history == <<direct, hasty, twice>>
vars == <<sinkVars, dispatchVars, pc, crashed, history>>

Calling == {"check", "deref", "inside"}
Stopping == {"test", "shut", "reset"}

\* initialize has been given a target.
Init ==
  /\ alive = TRUE
  /\ _shutting_down = FALSE
  /\ _target = TRUE
  /\ target = "open"
  /\ shared \in BOOLEAN
  /\ mutex = {} /\ linked = TRUE
  /\ pc = [t \in Callers \cup Owners |-> "out"]
  /\ crashed = FALSE
  /\ direct = FALSE /\ hasty = FALSE /\ twice = FALSE

-----------------------------------------------------------------------------
Goes(t, from, to) ==
  /\ ~crashed
  /\ pc[t] = from
  /\ pc' = [pc EXCEPT ![t] = to]

DispatchedUnlocked(t) ==
  /\ Goes(t, "out", "check")
  /\ linked
  /\ mutex' = mutex \cup {t}
  /\ UNCHANGED <<sinkVars, linked, crashed, history>>

\* The dispatcher calls its sinks with its mutex held.
Dispatched(t) ==
  /\ Goes(t, "out", "check")
  /\ mutex = {} /\ linked
  /\ mutex' = {t}
  /\ UNCHANGED <<sinkVars, linked, crashed, history>>

\* SinkBase is public: whoever has the sink may call it.
Direct(t) ==
  /\ Goes(t, "out", "check")
  /\ alive
  /\ direct' = TRUE
  /\ UNCHANGED <<sinkVars, dispatchVars, crashed, hasty, twice>>

Leave(t) == mutex' = mutex \ {t} /\ UNCHANGED linked

Check(t) ==
  /\ IF _shutting_down THEN Goes(t, "check", "out") /\ Leave(t)
                       ELSE Goes(t, "check", "deref") /\ UNCHANGED dispatchVars
  /\ UNCHANGED <<sinkVars, crashed, history>>

\* apply_log and flush of the target begin, through a pointer that may be null by now.
Deref(t) ==
  /\ Goes(t, "deref", "inside")
  /\ crashed' = ~_target
  /\ UNCHANGED <<sinkVars, dispatchVars, history>>

\* They end; the pointer of the sink did not keep the target for them.
Write(t) ==
  /\ Goes(t, "inside", "out")
  /\ crashed' = (target = "destroyed")
  /\ Leave(t)
  /\ UNCHANGED <<sinkVars, history>>

-----------------------------------------------------------------------------
UnlinkAtOnce(t) ==
  /\ ~crashed
  /\ pc[t] = "out" /\ linked
  /\ linked' = FALSE
  /\ UNCHANGED <<sinkVars, mutex, pc, crashed, history>>

\* Removal from the dispatcher, under its mutex.
Unlink(t) ==
  /\ ~crashed
  /\ pc[t] = "out" /\ mutex = {} /\ linked
  /\ linked' = FALSE
  /\ UNCHANGED <<sinkVars, mutex, pc, crashed, history>>

MarkNothing(t) ==
  /\ Goes(t, "out", "test")
  /\ alive
  /\ hasty' = (hasty \/ linked)
  /\ twice' = (twice \/ \E r \in Owners : pc[r] \in Stopping)
  /\ UNCHANGED <<sinkVars, dispatchVars, crashed, direct>>

\* shutdown begins.
Mark(t) ==
  /\ Goes(t, "out", "test")
  /\ alive
  /\ _shutting_down' = TRUE
  /\ hasty' = (hasty \/ linked)
  /\ twice' = (twice \/ \E r \in Owners : pc[r] \in Stopping)
  /\ UNCHANGED <<alive, _target, target, shared, dispatchVars, crashed, direct>>

Test(t) ==
  /\ Goes(t, "test", IF _target THEN "shut" ELSE "out")
  /\ UNCHANGED <<sinkVars, dispatchVars, crashed, history>>

\* shutdown of the target.
Shut(t) ==
  /\ Goes(t, "shut", "reset")
  /\ crashed' = (~_target \/ target = "destroyed")
  /\ target' = IF target = "open" THEN "shut" ELSE target
  /\ UNCHANGED <<alive, _shutting_down, _target, shared, dispatchVars, history>>

\* NullTarget::create() is a null pointer; the last owner of a target destroys it.
Reset(t) ==
  /\ Goes(t, "reset", "out")
  /\ _target' = FALSE
  /\ target' = IF shared THEN target ELSE "destroyed"
  /\ UNCHANGED <<alive, _shutting_down, shared, dispatchVars, crashed, history>>

\* The default destructor, when the dispatcher and every thread have let the sink go.
\* It calls no shutdown: the target goes as it is.
Destroy ==
  /\ ~crashed
  /\ alive /\ ~linked
  /\ \A t \in Callers \cup Owners : pc[t] = "out"
  /\ alive' = FALSE
  /\ _target' = FALSE
  /\ target' = IF shared THEN target ELSE "destroyed"
  /\ UNCHANGED <<_shutting_down, shared, dispatchVars, pc, crashed, history>>

Next ==
  \/ Destroy
  \/ \E t \in Callers : Dispatched(t) \/ Direct(t) \/ Check(t) \/ Deref(t) \/ Write(t)
  \/ \E t \in Owners : Unlink(t) \/ Mark(t) \/ Test(t) \/ Shut(t) \/ Reset(t)

Spec == Init /\ [][Next]_vars

-----------------------------------------------------------------------------
(* Properties.                                                             *)

\* Type invariant.
TypeOK ==
  /\ alive \in BOOLEAN /\ _shutting_down \in BOOLEAN /\ _target \in BOOLEAN /\ shared \in BOOLEAN
  /\ target \in {"open", "shut", "destroyed"}
  /\ mutex \subseteq Callers /\ \A t, r \in mutex : t = r
  /\ linked \in BOOLEAN
  /\ pc \in [Callers \cup Owners -> {"out"} \cup Calling \cup Stopping]
  /\ {crashed, direct, hasty, twice} \subseteq BOOLEAN

\* Without a lock of its own the sink can still be shut down safely: when it was removed
\* from the dispatcher first and one thread calls shutdown, no log and no flush of the
\* dispatcher, however far it has got, meets a pointer that is null or dangling, or a
\* target that is shut.
SafeOnceRemoved ==
  crashed \/ (target # "open" /\ \E t \in Callers : pc[t] = "inside")
    => direct \/ hasty \/ twice

\* While the sink exists its target is shut before it is let go, and when shutdown has
\* returned the sink does not reach it any more: later calls return at once, whoever
\* makes them.  Only the destructor lets a target go that nobody has shut.
LetGoShut ==
  /\ alive /\ ~_target => target # "open" /\ _shutting_down
  /\ target = "destroyed" => ~_target

=============================================================================
