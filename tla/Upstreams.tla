----------------------------- MODULE Upstreams ------------------------------
(***************************************************************************)
(* heaton/upstream_base.{h,cc} and heaton/upstream/*: the objects that     *)
(* attach sinks to the logging libraries.  Each keeps two maps, from sinks *)
(* to names and back, and the library has a list of its own; one mutex     *)
(* guards the maps of all upstreams.                                       *)
(*                                                                         *)
(* The library is called in the middle of a call and sends logs to a sink  *)
(* from then on, so what it knows and what the maps say change in two      *)
(* steps.  There is one upstream per library.                              *)
(***************************************************************************)
CONSTANTS Threads, Upstreams, Sinks, Names,
          NoSink, NoName,   \* no entry in a map
          Fallible          \* upstreams of users, whose library may fail

ASSUME UpstreamAssumption ==
  /\ NoSink \notin Sinks /\ NoName \notin Names /\ Fallible \subseteq Upstreams

VARIABLES
  global_mutex,  \* the threads that hold UpstreamBase::global_mutex
  pc,            \* where each thread is in its call
  call,          \* the call: enable, disable by pointer or disable by name
  sinks,         \* _sinks of each upstream
  names,         \* _names of each upstream
  attached       \* the sinks that the library sends its logs to

callVars == <<global_mutex, pc, call>>
mapVars == <<sinks, names>>
vars == <<callVars, mapVars, attached>>

\* "ok", "refused" and "failed" are about to return.
Steps == {"returned", "lock", "library", "record", "ok", "refused", "failed"}

Calls ==
  [op : {"enable"}, up : Upstreams, sink : Sinks, name : Names]
    \cup [op : {"disable"}, up : Upstreams, sink : Sinks, name : {NoName}]
    \cup [op : {"disable_name"}, up : Upstreams, sink : {NoSink}, name : Names]

Init ==
  /\ global_mutex = {}
  /\ pc = [t \in Threads |-> "returned"]
  /\ call \in [Threads -> Calls]
  /\ sinks = [u \in Upstreams |-> [s \in Sinks |-> NoName]]
  /\ names = [u \in Upstreams |-> [n \in Names |-> NoSink]]
  /\ attached = [u \in Upstreams |-> {}]

-----------------------------------------------------------------------------
Goes(t, from, to) ==
  /\ pc[t] = from
  /\ pc' = [pc EXCEPT ![t] = to]

MutexIgnored == TRUE

MutexFree == global_mutex = {}

Unlock(t) == global_mutex' = global_mutex \ {t}

Call(t, c) ==
  /\ Goes(t, "returned", "lock")
  /\ call' = [call EXCEPT ![t] = c]
  /\ UNCHANGED <<global_mutex, mapVars, attached>>

RefusedByPointer(c) ==
  \/ c.op = "enable" /\ sinks[c.up][c.sink] # NoName
  \/ c.op = "disable" /\ sinks[c.up][c.sink] = NoName
  \/ c.op = "disable_name" /\ names[c.up][c.name] = NoSink

\* already_exists_error of enable, not_found_error of both disable.
Refused(c) ==
  \/ c.op = "enable" /\ (sinks[c.up][c.sink] # NoName \/ names[c.up][c.name] # NoSink)
  \/ c.op = "disable" /\ sinks[c.up][c.sink] = NoName
  \/ c.op = "disable_name" /\ names[c.up][c.name] = NoSink

\* A call that is refused has the mutex for this step only.
Refuse(t) ==
  /\ Goes(t, "lock", "refused")
  /\ MutexFree
  /\ Refused(call[t])
  /\ UNCHANGED <<global_mutex, call, mapVars, attached>>

Lock(t) ==
  /\ Goes(t, "lock", "library")
  /\ MutexFree
  /\ ~Refused(call[t])
  /\ global_mutex' = global_mutex \cup {t}
  /\ UNCHANGED <<call, mapVars, attached>>

\* The sink of a call, and the name it has or gets.
SinkOf(c) == IF c.op = "disable_name" THEN names[c.up][c.name] ELSE c.sink
NameOf(c) == IF c.op = "disable" THEN sinks[c.up][c.sink] ELSE c.name

\* add_log_sink or remove_log_sink.
Library(t) ==
  /\ Goes(t, "library", "record")
  /\ LET c == call[t]
     IN  attached' = [attached EXCEPT ![c.up] =
           IF c.op = "enable" THEN @ \cup {SinkOf(c)} ELSE @ \ {SinkOf(c)}]
  /\ UNCHANGED <<global_mutex, call, mapVars>>

LibraryFailsUnnoticed(t) ==
  /\ Goes(t, "library", "record")
  /\ call[t].up \in Fallible
  /\ UNCHANGED <<global_mutex, call, mapVars, attached>>

LibraryFails(t) ==
  /\ Goes(t, "library", "failed")
  /\ call[t].up \in Fallible
  /\ Unlock(t)
  /\ UNCHANGED <<call, mapVars, attached>>

RecordOneMap(t) ==
  /\ Goes(t, "record", "ok")
  /\ LET c == call[t]
         on == c.op = "enable"
     IN  /\ sinks' = [sinks EXCEPT ![c.up][SinkOf(c)] = IF on THEN c.name ELSE NoName]
         /\ names' = IF c.op = "disable" THEN names
                     ELSE [names EXCEPT ![c.up][c.name] = IF on THEN c.sink ELSE NoSink]
  /\ Unlock(t)
  /\ UNCHANGED <<call, attached>>

Record(t) ==
  /\ Goes(t, "record", "ok")
  /\ LET c == call[t]
         on == c.op = "enable"
     IN  /\ sinks' = [sinks EXCEPT ![c.up][SinkOf(c)] = IF on THEN c.name ELSE NoName]
         /\ names' = [names EXCEPT ![c.up][NameOf(c)] = IF on THEN c.sink ELSE NoSink]
  /\ Unlock(t)
  /\ UNCHANGED <<call, attached>>

Return(t) ==
  /\ pc[t] \in {"ok", "refused", "failed"}
  /\ pc' = [pc EXCEPT ![t] = "returned"]
  /\ UNCHANGED <<global_mutex, call, mapVars, attached>>

Next == \E t \in Threads :
  \/ \E c \in Calls : Call(t, c)
  \/ Refuse(t) \/ Lock(t)
  \/ Library(t) \/ LibraryFails(t)
  \/ Record(t) \/ Return(t)

Spec == Init /\ [][Next]_vars

-----------------------------------------------------------------------------
(* Properties.                                                             *)

\* Type invariant; at most one thread holds the mutex.
TypeOK ==
  /\ global_mutex \subseteq Threads
  /\ \A t, r \in global_mutex : t = r
  /\ pc \in [Threads -> Steps]
  /\ call \in [Threads -> Calls]
  /\ sinks \in [Upstreams -> [Sinks -> Names \cup {NoName}]]
  /\ names \in [Upstreams -> [Names -> Sinks \cup {NoSink}]]
  /\ attached \in [Upstreams -> SUBSET Sinks]

\* However calls by pointer and by name interleave, and wherever one of them fails, the
\* two maps of an upstream are inverse to each other, so that either finds the sink the
\* other has.
MapsInverse ==
  \A u \in Upstreams, s \in Sinks, n \in Names : sinks[u][s] = n <=> names[u][n] = s

\* When no call holds the mutex, the library sends logs to the sinks of the map and to
\* no others: a sink a caller has taken back, or whose attachment failed, gets none.
LibraryAgrees ==
  MutexFree => \A u \in Upstreams : attached[u] = {s \in Sinks : sinks[u][s] # NoName}

\* The thread that holds the mutex.
Holder == CHOOSE t \in global_mutex : TRUE

\* What a sink is attached as, from the step of the library on.
AttachedAs ==
  [u \in Upstreams |-> [s \in Sinks |->
    IF s \notin attached[u] THEN NoName
    ELSE IF sinks[u][s] # NoName THEN sinks[u][s]
    ELSE call[Holder].name]]

AnswerOf ==
  [t \in Threads |-> IF pc[t] \in {"lock", "library"} THEN "none"
                     ELSE IF pc[t] = "record" THEN "ok" ELSE pc[t]]

Table == INSTANCE Registry WITH table <- AttachedAs, answer <- AnswerOf

\* Every call takes effect at once when its library is called, or is refused for what
\* the registry holds at one moment between call and return.
ImplementsRegistry == Table!Spec
=============================================================================
