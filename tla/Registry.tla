------------------------------ MODULE Registry ------------------------------
(***************************************************************************)
(* What the upstreams promise to the threads that attach sinks to logging  *)
(* libraries: calls take effect one at a time, between call and return.  In*)
(* each upstream a sink has one name and a name one sink; a call that asks *)
(* for more, or for a sink that is not there, is refused; a call that is   *)
(* refused, or fails in the library, changes nothing.                      *)
(***************************************************************************)
CONSTANTS Threads, Upstreams, Sinks, Names, NoSink, NoName,
          Fallible   \* the upstreams whose library may fail

VARIABLES table,    \* the name under which a sink is attached, or NoName
          call,     \* the call each thread is in
          answer    \* its answer, "none" as long as it has no effect

vars == <<table, call, answer>>

\* A call to disable has a sink or a name.
Calls ==
  [op : {"enable"}, up : Upstreams, sink : Sinks, name : Names]
    \cup [op : {"disable"}, up : Upstreams, sink : Sinks, name : {NoName}]
    \cup [op : {"disable_name"}, up : Upstreams, sink : {NoSink}, name : Names]

\* The sinks of up that a call to disable means: one or none.
Meant(c) ==
  {s \in Sinks : table[c.up][s] # NoName /\ (s = c.sink \/ table[c.up][s] = c.name)}

Taken(up, sink, name) ==
  table[up][sink] # NoName \/ \E s \in Sinks : table[up][s] = name

Attach(up, sink, name) ==
  /\ ~Taken(up, sink, name)
  /\ table' = [table EXCEPT ![up][sink] = name]

Detach(up, sink) == table' = [table EXCEPT ![up][sink] = NoName]

Refused(c) ==
  IF c.op = "enable" THEN Taken(c.up, c.sink, c.name) ELSE Meant(c) = {}

Init ==
  /\ table = [u \in Upstreams |-> [s \in Sinks |-> NoName]]
  /\ call \in [Threads -> Calls]
  /\ answer = [t \in Threads |-> "returned"]

Invoke(t, c) ==
  /\ answer[t] = "returned"
  /\ call' = [call EXCEPT ![t] = c]
  /\ answer' = [answer EXCEPT ![t] = "none"]
  /\ UNCHANGED table

Answer(t, a) ==
  /\ answer[t] = "none"
  /\ answer' = [answer EXCEPT ![t] = a]
  /\ UNCHANGED call

Enable(t) ==
  /\ Answer(t, "ok")
  /\ call[t].op = "enable"
  /\ Attach(call[t].up, call[t].sink, call[t].name)

Disable(t) ==
  /\ Answer(t, "ok")
  /\ call[t].op # "enable"
  /\ \E s \in Meant(call[t]) : Detach(call[t].up, s)

Refuse(t) == Answer(t, "refused") /\ Refused(call[t]) /\ UNCHANGED table

Fail(t) == Answer(t, "failed") /\ call[t].up \in Fallible /\ UNCHANGED table

Return(t) ==
  /\ answer[t] \in {"ok", "refused", "failed"}
  /\ answer' = [answer EXCEPT ![t] = "returned"]
  /\ UNCHANGED <<table, call>>

Next == \E t \in Threads :
  \/ \E c \in Calls : Invoke(t, c)
  \/ Enable(t) \/ Disable(t) \/ Refuse(t) \/ Fail(t) \/ Return(t)

Spec == Init /\ [][Next]_vars
=============================================================================
