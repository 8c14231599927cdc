------------------------------ MODULE Dispatch ------------------------------
(***************************************************************************)
(* heaton/dispatch.{h,cc}: sends every log to the global sink and to the   *)
(* sinks of the branch of its level, and flushes the sinks from time to    *)
(* time.                                                                   *)
(*                                                                         *)
(* Threads log and reconfigure concurrently.  What others see of the       *)
(* dispatcher is the calls of the sinks, so each is a step of its own;     *)
(* _mutex is held from the first to the last.  A reconfiguration calls no  *)
(* sink and is one step, which needs _mutex.                               *)
(***************************************************************************)
EXTENDS SequencesExt

CONSTANTS Threads,
          Sinks,
          NoSink,         \* the null pointer
          Levels,         \* how many of _infos, _warnings, _errors, _fatals
          Stamps,         \* the time stamps of logs
          Options,        \* values of DispatchOptions, the default one first
          MaxLogs         \* bound: logs per thread

ASSUME SinkAssumption == NoSink \notin Sinks
ASSUME NumberAssumption ==
  /\ Levels \in Nat \ {0} /\ MaxLogs \in Nat /\ Stamps \subseteq Nat
  /\ Options \in Seq([flush_items : Nat, flush_interval_seconds : Nat])
  /\ Options # <<>>
\* The header says "non zero"; set_options does not test it. FlushHorizon
\* needs it.
ASSUME FlushItemsAssumption == \A o \in Range(Options) : o.flush_items # 0

VARIABLES
  mutex,            \* the threads that hold _mutex
  pc,               \* where each thread is in apply_log
  entry,            \* the log each thread is sending
  todo,             \* the sinks its current loop has still to call
  crashed,          \* a call went through a null _global_sink
  global_sink,      \* _global_sink
  branches,         \* _infos, _warnings, _errors, _fatals
  current_items,    \* _current_items
  next_flush_time,  \* _next_flush_time
  options,          \* _options
  received,         \* history: the logs each sink got, oldest first
  flushed           \* history: how many of them its last flush covered

threadVars == <<mutex, pc, entry, todo, crashed>>
routeVars == <<global_sink, branches>>
flushVars == <<current_items, next_flush_time, options>>
sinkVars == <<received, flushed>>
vars == <<threadVars, routeVars, flushVars, sinkVars>>

\* The n-th log of thread, and whether it comes with its own string to move.
Entry == [thread : Threads, n : 0..MaxLogs, level : 1..Levels, stamp : Stamps \cup {0},
          moved : BOOLEAN]

Init ==
  /\ mutex = {}
  /\ pc = [t \in Threads |-> "idle"]
  /\ entry = [t \in Threads |->
       [thread |-> t, n |-> 0, level |-> 1, stamp |-> 0, moved |-> FALSE]]
  /\ todo = [t \in Threads |-> <<>>]
  /\ crashed = FALSE
  /\ global_sink = NoSink
  /\ branches = [b \in 1..Levels |-> <<>>]
  /\ current_items = 0
  /\ next_flush_time = 0
  /\ options = Head(Options)
  /\ received = [s \in Sinks |-> <<>>]
  /\ flushed = [s \in Sinks |-> 0]

-----------------------------------------------------------------------------
(* apply_log, both overloads.                                              *)

Goes(t, from, to) ==
  /\ pc[t] = from
  /\ pc' = [pc EXCEPT ![t] = to]

Call(t, level, stamp, moved) ==
  /\ Goes(t, "idle", "lock")
  /\ entry[t].n < MaxLogs
  /\ entry' = [entry EXCEPT ![t] = [thread |-> t, n |-> @.n + 1, level |-> level,
                                    stamp |-> stamp, moved |-> moved]]
  /\ UNCHANGED <<mutex, todo, crashed, routeVars, flushVars, sinkVars>>

MutexIgnored == TRUE

MutexFree == mutex = {}

TargetsForgetGlobal(e) == IF e.moved THEN branches[e.level]
                                     ELSE <<global_sink>> \o branches[e.level]

\* The string may be moved away only by the last call, so that overload calls the
\* global sink after the branch and the other one calls it first.
Targets(e) == IF e.moved THEN Append(branches[e.level], global_sink)
                         ELSE <<global_sink>> \o branches[e.level]

Lock(t) ==
  /\ Goes(t, "lock", "apply")
  /\ MutexFree
  /\ mutex' = mutex \cup {t}
  /\ todo' = [todo EXCEPT ![t] = Targets(entry[t])]
  /\ UNCHANGED <<entry, crashed, routeVars, flushVars, sinkVars>>

\* One call of dispatch_log's loop, or of the global sink.
Apply(t) ==
  /\ Goes(t, "apply", "apply")
  /\ todo[t] # <<>>
  /\ todo' = [todo EXCEPT ![t] = Tail(@)]
  /\ crashed' = (Head(todo[t]) = NoSink)
  /\ received' = IF Head(todo[t]) = NoSink THEN received
                 ELSE [received EXCEPT ![Head(todo[t])] = Append(@, entry[t])]
  /\ UNCHANGED <<mutex, entry, routeVars, flushVars, flushed>>

\* The early return of flush_logs.
NotYet(stamp) ==
  stamp < next_flush_time /\ current_items < options.flush_items

Unlock(t) == mutex' = mutex \ {t}

Return(t) ==
  /\ Goes(t, "apply", "idle")
  /\ todo[t] = <<>>
  /\ NotYet(entry[t].stamp)
  /\ Unlock(t)
  /\ UNCHANGED <<entry, todo, crashed, routeVars, flushVars, sinkVars>>

FlushTargetsGlobalOnly == <<global_sink>>

FlushTargets == <<global_sink>> \o FlattenSeq(branches)

StartFlush(t) ==
  /\ Goes(t, "apply", "flush")
  /\ todo[t] = <<>>
  /\ ~NotYet(entry[t].stamp)
  /\ todo' = [todo EXCEPT ![t] = FlushTargets]
  /\ UNCHANGED <<mutex, entry, crashed, routeVars, flushVars, sinkVars>>

Flush(t) ==
  /\ Goes(t, "flush", "flush")
  /\ todo[t] # <<>>
  /\ todo' = [todo EXCEPT ![t] = Tail(@)]
  /\ flushed' = [flushed EXCEPT ![Head(todo[t])] = Len(received[Head(todo[t])])]
  /\ UNCHANGED <<mutex, entry, crashed, routeVars, flushVars, received>>

FinishFlushBackwards(t) ==
  /\ Goes(t, "flush", "idle")
  /\ todo[t] = <<>>
  /\ next_flush_time' = entry[t].stamp - options.flush_interval_seconds
  /\ current_items' = 0
  /\ Unlock(t)
  /\ UNCHANGED <<entry, todo, crashed, routeVars, options, sinkVars>>

FinishFlush(t) ==
  /\ Goes(t, "flush", "idle")
  /\ todo[t] = <<>>
  /\ next_flush_time' = entry[t].stamp + options.flush_interval_seconds
  /\ current_items' = 0
  /\ Unlock(t)
  /\ UNCHANGED <<entry, todo, crashed, routeVars, options, sinkVars>>

-----------------------------------------------------------------------------
(* Reconfiguration.                                                        *)

remove_sink_not(old, sink) == old

remove_sink(old, sink) ==
  LET sinks[n \in 0..Len(old)] ==
        IF n = 0 THEN <<>>
        ELSE IF old[n] = sink THEN sinks[n - 1]
        ELSE Append(sinks[n - 1], old[n])
  IN  sinks[Len(old)]

ReconfiguresUnlocked ==
  UNCHANGED <<threadVars, current_items, next_flush_time, sinkVars>>

Reconfigures ==
  /\ MutexFree
  /\ UNCHANGED <<threadVars, current_items, next_flush_time, sinkVars>>

set_options(o) ==
  /\ Reconfigures
  /\ options' = o
  /\ UNCHANGED routeVars

\* A null sink is not refused; it is found in no branch.
set_global_sink(sink) ==
  /\ Reconfigures
  /\ global_sink' = sink
  /\ branches' = [b \in 1..Levels |-> remove_sink(branches[b], sink)]
  /\ UNCHANGED options

add_sink_anyway(b, sink) ==
  /\ Reconfigures
  /\ branches' = [branches EXCEPT ![b] = Append(remove_sink(@, sink), sink)]
  /\ UNCHANGED <<global_sink, options>>

\* A null sink and the global sink are refused; a sink that is there moves to the
\* end.
add_sink(b, sink) ==
  /\ Reconfigures
  /\ sink # global_sink
  /\ branches' = [branches EXCEPT ![b] = Append(remove_sink(@, sink), sink)]
  /\ UNCHANGED <<global_sink, options>>

take_out_sink(b, sink) ==
  /\ Reconfigures
  /\ branches' = [branches EXCEPT ![b] = remove_sink(@, sink)]
  /\ UNCHANGED <<global_sink, options>>

-----------------------------------------------------------------------------
apply_log(t) ==
  \/ \E level \in 1..Levels, stamp \in Stamps, moved \in BOOLEAN :
       Call(t, level, stamp, moved)
  \/ Lock(t) \/ Apply(t) \/ Return(t)
  \/ StartFlush(t) \/ Flush(t) \/ FinishFlush(t)

Reconfigure ==
  \/ \E o \in Range(Options) : set_options(o)
  \/ \E sink \in Sinks \cup {NoSink} : set_global_sink(sink)
  \/ \E b \in 1..Levels, sink \in Sinks : add_sink(b, sink) \/ take_out_sink(b, sink)

Next == /\ ~crashed
        /\ (\E t \in Threads : apply_log(t)) \/ Reconfigure

Spec == Init /\ [][Next]_vars

-----------------------------------------------------------------------------
(* Properties.                                                             *)

Branch(e) == Range(branches[e.level])
Unflushed(s) == {received[s][i] : i \in flushed[s] + 1..Len(received[s])}

\* Type invariant.
TypeOK ==
  /\ mutex \subseteq Threads
  /\ pc \in [Threads -> {"idle", "lock", "apply", "flush"}]
  /\ entry \in [Threads -> Entry]
  /\ todo \in [Threads -> Seq(Sinks \cup {NoSink})]
  /\ crashed \in BOOLEAN
  /\ global_sink \in Sinks \cup {NoSink}
  /\ branches \in [1..Levels -> Seq(Sinks)]
  /\ current_items \in Nat
  /\ next_flush_time \in Nat
  /\ options \in Range(Options)
  /\ received \in [Sinks -> Seq(Entry)]
  /\ flushed \in [Sinks -> Nat]

\* Whatever threads add, remove and make global at the same time, the global sink
\* is in no branch ("should not duplicated in branch sinks") and no sink is in a
\* branch twice ("safe, no duplicated"), so no vector has two ways to one sink.
SinksDistinct ==
  \A b \in 1..Levels :
    /\ global_sink \notin Range(branches[b])
    /\ IsInjective(branches[b])

\* A sink gets a log at most once, even one that becomes the global sink, or moves
\* between branches, while threads are logging.
AtMostOnce == \A s \in Sinks : IsInjective(received[s])

\* Two sinks that both got two logs got them in the same order, whichever threads
\* the logs came from and whichever overload sent them.
SameOrder ==
  \A r, s \in Sinks : \A i, j \in DOMAIN received[r], k, l \in DOMAIN received[s] :
    received[r][i] = received[s][k] /\ received[r][j] = received[s][l] /\ i < j => k < l

\* When the loops of apply_log are over the log is in the global sink and in every
\* sink of its branch as they are configured then: no reconfiguration has come in
\* between.
FanOutComplete ==
  \A t \in Threads :
    pc[t] = "apply" /\ todo[t] = <<>> /\ ~crashed =>
      \A s \in ({global_sink} \cup Branch(entry[t])) \ {NoSink} :
        received[s] # <<>> /\ Last(received[s]) = entry[t]

\* A call goes through a null global sink only in a fan-out, and only if the global
\* sink is null for the whole of it: set_global_sink(nullptr) takes the sink away from
\* no log and from no flush that is under way, though the overload that moves the
\* string calls the global sink last and the flush long after the fan-out.
NullOnlyGlobal ==
  /\ crashed => global_sink = NoSink
  /\ \A t \in Threads : pc[t] = "flush" => global_sink # NoSink

\* No sink keeps an unflushed log whose stamp has reached the flush time, also a
\* sink that was out of every branch during the last flushes, a log that arrives
\* with an old stamp and an interval that changes.
FlushHorizon ==
  mutex = {} => \A s \in Sinks : \A e \in Unflushed(s) : e.stamp < next_flush_time

\* A log counts as sent when its last sink has it; what a fan-out in progress, or one
\* that crashed, has delivered does not count yet.
InProgress(t) == pc[t] = "apply" /\ (todo[t] # <<>> \/ crashed)

Sent ==
  [s \in Sinks |->
    IF \E t \in Threads : InProgress(t) /\ received[s] # <<>> /\ Last(received[s]) = entry[t]
      THEN Front(received[s]) ELSE received[s]]

Router ==
  INSTANCE LogRouter WITH Entry <- {e \in Entry : e.n # 0 /\ e.stamp \in Stamps},
                          branches <- [b \in 1..Levels |-> Range(branches[b])],
                          received <- Sent

\* Many calls of sinks look like one: the dispatcher sends each log at once to the
\* global sink and the branch as they are configured at that moment.
ImplementsRouter == Router!Spec
=============================================================================
