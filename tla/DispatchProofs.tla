--------------------------- MODULE DispatchProofs ---------------------------
(* Proofs about Dispatch, for any number of threads, sinks, branches and logs. *)
EXTENDS Dispatch, SequenceInduction

Holding(t) == pc[t] \in {"apply", "flush"}
Sends(t) == {global_sink} \cup Branch(entry[t])

\* A thread has the mutex from the first call of a sink to the last, and alone.
MutexHeld ==
  /\ \A t \in Threads : t \in mutex <=> Holding(t)
  /\ \A t, u \in mutex : t = u

\* Sinks have logs that were sent, and not the one that waits for the mutex.
Numbered ==
  /\ \A t \in Threads : /\ entry[t].thread = t
                        /\ pc[t] # "idle" => entry[t].n # 0 /\ entry[t].stamp \in Stamps
  /\ \A s \in Sinks : \A e \in Range(received[s]) :
       /\ e.n # 0 /\ e.stamp \in Stamps /\ e.n <= entry[e.thread].n
       /\ pc[e.thread] = "lock" => e.n < entry[e.thread].n

\* In a fan-out each sink of the log either is still to be called or got the log last;
\* nobody else has it.
FanOut ==
  \A t \in Threads : pc[t] = "apply" =>
    /\ IsInjective(todo[t]) /\ Range(todo[t]) \subseteq Sends(t)
    /\ NoSink \in Sends(t) => crashed \/ NoSink \in Range(todo[t])
    /\ \A s \in Sinks : IF s \in Sends(t) \ Range(todo[t])
                         THEN received[s] # <<>> /\ Last(received[s]) = entry[t]
                         ELSE entry[t] \notin Range(received[s])

\* The counter of flush_logs counts nothing, and a flush calls no null pointer.
FlushCalls ==
  /\ current_items = 0
  /\ \A t \in Threads : pc[t] = "flush" => NoSink \notin Range(todo[t])

\* FlushHorizon while the mutex is held: only the log that is being sent may be at or
\* past the flush time, and once the flush has begun only where it has not come yet.
TimeHorizon ==
  /\ FlushHorizon
  /\ \A t \in Threads : pc[t] = "apply" =>
       \A s \in Sinks : \A e \in Unflushed(s) : e.stamp < next_flush_time \/ e = entry[t]
  /\ \A t \in Threads : pc[t] = "flush" =>
       /\ entry[t].stamp >= next_flush_time
       /\ \A s \in Sinks : \A e \in Unflushed(s) :
            e.stamp < next_flush_time \/ s \in Range(todo[t])

\* With flush_items 0 a log of any stamp would set the flush time. The rest of the invariant
\* does not depend on it.
ItemsNonZero == \A o \in Range(Options) : o.flush_items # 0
Horizon == ItemsNonZero => TimeHorizon

Inv ==
  /\ TypeOK /\ SinksDistinct /\ MutexHeld /\ Numbered /\ FanOut /\ FlushCalls
  /\ Horizon /\ AtMostOnce /\ SameOrder

-----------------------------------------------------------------------------

\* The loop of remove_sink leaves out the sink and nothing else, and repeats nothing.
LEMMA RemoveSink ==
  ASSUME NEW S, NEW old \in Seq(S), NEW sink
  PROVE  /\ remove_sink(old, sink) \in Seq(S)
         /\ Range(remove_sink(old, sink)) = Range(old) \ {sink}
         /\ IsInjective(old) => IsInjective(remove_sink(old, sink))
<1> DEFINE N == Len(old)
           sinks[n \in 0..Len(old)] ==
             IF n = 0 THEN <<>>
             ELSE IF old[n] = sink THEN sinks[n - 1] ELSE Append(sinks[n - 1], old[n])
           step == [n \in 1..N |-> [v \in Seq(S) |->
                      IF old[n] = sink THEN v ELSE Append(v, old[n])]]
           body(f) == [n \in 0..Len(old) |->
             IF n = 0 THEN <<>>
             ELSE IF old[n] = sink THEN f[n - 1] ELSE Append(f[n - 1], old[n])]
<1>1. remove_sink(old, sink) = sinks[N]
  BY DEF remove_sink
<1>2. N \in Nat /\ DOMAIN old = 1..N /\ \A n \in 1..N : old[n] \in S
  BY LenProperties, ElementOfSeq
<1>3. PICK f : Follows(f, N, Seq(S), <<>>, step)
  <2>1. <<>> \in Seq(S) /\ \A n \in 1..N : \A v \in Seq(S) : step[n][v] \in Seq(S)
    BY <1>2, AppendProperties
  <2> HIDE DEF step, N
  <2> QED BY <1>2, <2>1, RecursionExists
<1>4. f = body(f)
  <2>1. f \in [0..N -> Seq(S)] /\ f[0] = <<>> /\ \A n \in 1..N : f[n] = step[n][f[n - 1]]
    BY <1>3 DEF Follows
  <2>2. ASSUME NEW n \in 1..N
        PROVE f[n] = IF old[n] = sink THEN f[n - 1] ELSE Append(f[n - 1], old[n])
    <3>1. n - 1 \in 0..N
      BY <1>2
    <3> QED BY <2>1, <3>1
  <2>3. \A n \in 0..N : n = 0 \/ (n # 0 /\ n \in 1..N)
    BY <1>2
  <2>4. \A n \in 0..N : f[n] = IF n = 0 THEN <<>>
                               ELSE IF old[n] = sink THEN f[n - 1]
                               ELSE Append(f[n - 1], old[n])
    BY <2>1, <2>2, <2>3
  <2>5. f = [n \in 0..N |-> f[n]]
    BY <2>1
  <2>6. f = [n \in 0..N |-> IF n = 0 THEN <<>>
                           ELSE IF old[n] = sink THEN f[n - 1]
                           ELSE Append(f[n - 1], old[n])]
    BY <2>4, <2>5
  <2> QED BY <2>6
<1>5. sinks = body(sinks)
  BY <1>4
<1> HIDE DEF sinks, N, step
<1> DEFINE Good(n) == /\ sinks[n] \in Seq(S)
                      /\ Range(sinks[n]) = {old[i] : i \in 1..n} \ {sink}
                      /\ IsInjective(old) => IsInjective(sinks[n])
           P == {n \in 0..N : Good(n)}
<1>6. 0 \in P
  <2>1. 0 \in 0..N /\ sinks[0] = <<>>
    BY <1>2, <1>5 DEF N
  <2>2. Range(<<>>) = {} /\ IsInjective(<<>>) /\ 1..0 = {}
    BY DEF Range, IsInjective
  <2>3. sinks[0] \in Seq(S) /\ Range(sinks[0]) = {old[i] : i \in 1..0} \ {sink}
    BY <2>1, <2>2
  <2>4. IsInjective(sinks[0])
    BY <2>1, <2>2, Zenon
  <2> QED BY <2>1, <2>3, <2>4
<1>7. ASSUME NEW n \in 1..N, n - 1 \in P PROVE n \in P
  <2>1. n \in 0..N /\ n # 0 /\ n - 1 \in 0..N
    BY <1>2
  <2>2. sinks[n] = IF old[n] = sink THEN sinks[n - 1] ELSE Append(sinks[n - 1], old[n])
    BY <2>1, <1>5 DEF N
  <2>3. /\ sinks[n - 1] \in Seq(S)
        /\ Range(sinks[n - 1]) = {old[i] : i \in 1..n - 1} \ {sink}
        /\ IsInjective(old) => IsInjective(sinks[n - 1])
    <3>1. Good(n - 1)
      <4> HIDE DEF Good
      <4> QED BY <1>7
    <3> QED BY <3>1
  <2>4. 1..n = (1..n - 1) \cup {n}
    BY <1>2
  <2>5. {old[i] : i \in 1..n} = {old[i] : i \in 1..n - 1} \cup {old[n]}
    BY <2>4
  <2>6. CASE old[n] = sink
    <3>1. {old[i] : i \in 1..n} \ {sink} = {old[i] : i \in 1..n - 1} \ {sink}
      BY <2>5, <2>6
    <3> QED BY <2>1, <2>2, <2>3, <2>6, <3>1
  <2>7. CASE old[n] # sink
    <3>1. sinks[n] = Append(sinks[n - 1], old[n]) /\ old[n] \in S
      BY <1>2, <2>2, <2>7
    <3>2. sinks[n] \in Seq(S) /\ Range(sinks[n]) = Range(sinks[n - 1]) \cup {old[n]}
      BY <2>3, <3>1, AppendElement
    <3>3. Range(sinks[n]) = {old[i] : i \in 1..n} \ {sink}
      BY <3>2, <2>3, <2>5, <2>7
    <3>4. ASSUME IsInjective(old) PROVE IsInjective(sinks[n])
      <4>1. \A i \in 1..n - 1 : i \in 1..N /\ i # n
        BY <1>2
      <4>2. old[n] \notin {old[i] : i \in 1..n - 1}
        BY <1>2, <3>4, <4>1 DEF IsInjective
      <4>3. old[n] \notin Range(sinks[n - 1])
        BY <4>2, <2>3
      <4> QED BY <2>3, <3>1, <3>4, <4>3, AppendElement
    <3> QED BY <2>1, <3>2, <3>3, <3>4
  <2> QED BY <2>6, <2>7
<1>8. Good(N)
  <2> HIDE DEF Good
  <2>1. \A n \in 0..N : n \in P
    <3> HIDE DEF P
    <3> QED BY <1>2, <1>6, <1>7, UpTo
  <2>2. N \in 0..N
    BY <1>2
  <2> QED BY <2>1, <2>2
<1>9. Range(old) = {old[i] : i \in 1..N}
  BY <1>2 DEF Range
<1> QED BY <1>1, <1>8, <1>9

\* A branch is a sequence of what can be a sink or null.
LEMMA BranchOfSinks ==
  ASSUME TypeOK, NEW b \in 1..Levels
  PROVE  branches[b] \in Seq(Sinks) /\ branches[b] \in Seq(Sinks \cup {NoSink})
<1>1. branches[b] \in Seq(Sinks)
  BY DEF TypeOK
<1>2. Sinks \subseteq Sinks \cup {NoSink}
  OBVIOUS
<1> QED BY <1>1, <1>2, SeqMonotonic

\* Both overloads call the global sink and the branch, and no sink twice.
LEMMA TargetsOfLog ==
  ASSUME TypeOK, SinksDistinct, NEW e \in Entry
  PROVE  /\ Targets(e) \in Seq(Sinks \cup {NoSink})
         /\ Targets(e) # <<>>
         /\ Range(Targets(e)) = {global_sink} \cup Branch(e)
         /\ IsInjective(Targets(e))
<1> DEFINE b == branches[e.level]
<1>1. e.level \in 1..Levels /\ global_sink \in Sinks \cup {NoSink}
  BY DEF Entry, TypeOK
<1>2. b \in Seq(Sinks \cup {NoSink})
  BY <1>1, BranchOfSinks
<1>3. global_sink \notin Range(b) /\ IsInjective(b)
  BY <1>1 DEF SinksDistinct
<1>4. CASE e.moved
  <2>1. Targets(e) = Append(b, global_sink)
    BY <1>4 DEF Targets
  <2>2. Append(b, global_sink) # <<>>
    BY <1>1, <1>2, AppendProperties
  <2> HIDE DEF b
  <2>3. /\ Append(b, global_sink) \in Seq(Sinks \cup {NoSink})
        /\ Range(Append(b, global_sink)) = Range(b) \cup {global_sink}
        /\ IsInjective(Append(b, global_sink))
    BY <1>1, <1>2, <1>3, AppendElement
  <2> QED BY <2>1, <2>2, <2>3 DEF Branch, b
<1>5. CASE ~ e.moved
  <2>1. Targets(e) = <<global_sink>> \o b
    BY <1>5 DEF Targets
  <2> HIDE DEF b
  <2>2. /\ <<global_sink>> \o b \in Seq(Sinks \cup {NoSink})
        /\ <<global_sink>> \o b # <<>>
        /\ Range(<<global_sink>> \o b) = {global_sink} \cup Range(b)
        /\ IsInjective(<<global_sink>> \o b)
    BY <1>1, <1>2, <1>3, ConsElement
  <2> QED BY <2>1, <2>2 DEF Branch, b
<1> QED BY <1>4, <1>5

\* A flush goes to the global sink and to the sinks of all branches.
LEMMA TargetsOfFlush ==
  ASSUME TypeOK
  PROVE  /\ FlushTargets \in Seq(Sinks \cup {NoSink})
         /\ Range(FlushTargets)
              = {global_sink} \cup UNION {Range(branches[b]) : b \in 1..Levels}
<1>1. Levels \in Nat \ {0} /\ global_sink \in Sinks \cup {NoSink}
  BY NumberAssumption DEF TypeOK
<1>2. branches \in [1..Levels -> Seq(Sinks \cup {NoSink})]
  BY BranchOfSinks DEF TypeOK
<1>3. /\ FlattenSeq(branches) \in Seq(Sinks \cup {NoSink})
      /\ Range(FlattenSeq(branches)) = UNION {Range(branches[b]) : b \in 1..Levels}
  BY <1>1, <1>2, FlattenSeqProperties
<1> QED BY <1>1, <1>3, ConsElement DEF FlushTargets

\* Stamps and numbers of logs are natural numbers.
LEMMA EntryNumbers ==
  ASSUME NEW e \in Entry
  PROVE  e.stamp \in Nat /\ e.n \in Nat
<1>1. Stamps \cup {0} \subseteq Nat /\ 0..MaxLogs \subseteq Nat
  BY NumberAssumption
<1>2. e.stamp \in Stamps \cup {0} /\ e.n \in 0..MaxLogs
  BY DEF Entry
<1> QED BY <1>1, <1>2

\* So are the numbers of options.
LEMMA OptionNumbers ==
  ASSUME NEW o \in Range(Options)
  PROVE  o.flush_items \in Nat /\ o.flush_interval_seconds \in Nat
<1> DEFINE R == [flush_items : Nat, flush_interval_seconds : Nat]
<1>1. Options \in Seq(R)
  BY NumberAssumption
<1>2. o \in R
  <2> HIDE DEF R
  <2> QED BY <1>1, RangeOfSeq
<1> QED BY <1>2

-----------------------------------------------------------------------------
LEMMA Initially == Init => Inv
<1> SUFFICES ASSUME Init PROVE Inv
  OBVIOUS
<1> USE DEF Init
<1>1. \A S : <<>> \in Seq(S)
  OBVIOUS
<1>2. Range(<<>>) = {} /\ IsInjective(<<>>)
  BY DEF Range, IsInjective
<1>3. TypeOK
  <2>1. options \in Range(Options)
    BY NumberAssumption, TailElements
  <2>2. \A t \in Threads : entry[t] \in Entry
    BY NumberAssumption DEF Entry
  <2>3. entry \in [Threads -> Entry]
    BY <2>2
  <2> QED BY <1>1, <2>1, <2>3 DEF TypeOK
<1>4. SinksDistinct /\ AtMostOnce
  BY <1>2 DEF SinksDistinct, AtMostOnce
<1>5. SameOrder
  BY DEF SameOrder
<1>6. MutexHeld /\ Numbered /\ FanOut /\ FlushCalls
  BY <1>2 DEF MutexHeld, Holding, Numbered, FanOut, FlushCalls
<1>7. Horizon
  <2>1. \A s \in Sinks : Unflushed(s) = {}
    BY DEF Unflushed
  <2> QED BY <2>1 DEF Horizon, TimeHorizon, FlushHorizon
<1> QED BY <1>3, <1>4, <1>5, <1>6, <1>7 DEF Inv

\* A reconfiguration keeps the vectors free of the global sink and of repetitions.
LEMMA RoutesStep ==
  ASSUME TypeOK, SinksDistinct, Reconfigure
  PROVE  TypeOK' /\ SinksDistinct'
<1>0. UNCHANGED <<threadVars, current_items, next_flush_time, sinkVars>>
  BY DEF Reconfigure, set_options, set_global_sink, add_sink, take_out_sink, Reconfigures
<1>1. ASSUME /\ options' \in Range(Options) /\ global_sink' \in Sinks \cup {NoSink}
             /\ branches' \in [1..Levels -> Seq(Sinks)]
      PROVE  TypeOK'
  BY <1>0, <1>1 DEF TypeOK, threadVars, sinkVars
<1>2. \A b \in 1..Levels : branches[b] \in Seq(Sinks)
  BY DEF TypeOK
<1>3. ASSUME NEW o \in Range(Options), set_options(o)
      PROVE  TypeOK' /\ SinksDistinct'
  <2>1. UNCHANGED routeVars /\ options' \in Range(Options)
    BY <1>3 DEF set_options
  <2> QED BY <1>1, <2>1 DEF TypeOK, SinksDistinct, routeVars
<1>4. ASSUME NEW sink \in Sinks \cup {NoSink}, set_global_sink(sink)
      PROVE  TypeOK' /\ SinksDistinct'
  <2>1. /\ global_sink' = sink /\ options' = options
        /\ branches' = [b \in 1..Levels |-> remove_sink(branches[b], sink)]
    BY <1>4 DEF set_global_sink
  <2>2. \A b \in 1..Levels : /\ branches'[b] \in Seq(Sinks)
                             /\ Range(branches'[b]) = Range(branches[b]) \ {sink}
    BY <2>1, <1>2, RemoveSink
  <2>3. \A b \in 1..Levels : IsInjective(branches'[b])
    BY <2>1, <1>2, RemoveSink, Zenon DEF SinksDistinct
  <2>4. branches' \in [1..Levels -> Seq(Sinks)]
    BY <2>1, <2>2
  <2> QED BY <1>1, <2>1, <2>2, <2>3, <2>4 DEF TypeOK, SinksDistinct
<1>5. ASSUME NEW c \in 1..Levels, NEW sink \in Sinks, add_sink(c, sink)
      PROVE  TypeOK' /\ SinksDistinct'
  <2> DEFINE rest == remove_sink(branches[c], sink)
  <2>1. /\ sink # global_sink /\ UNCHANGED <<global_sink, options>>
        /\ branches' = [branches EXCEPT ![c] = Append(rest, sink)]
    BY <1>5 DEF add_sink
  <2>2. /\ rest \in Seq(Sinks) /\ Range(rest) = Range(branches[c]) \ {sink}
        /\ IsInjective(rest)
    BY <1>2, RemoveSink DEF SinksDistinct
  <2> HIDE DEF rest
  <2>3. /\ Append(rest, sink) \in Seq(Sinks)
        /\ Range(Append(rest, sink)) = Range(rest) \cup {sink}
        /\ IsInjective(Append(rest, sink))
    BY <2>2, AppendElement
  <2>4. branches' \in [1..Levels -> Seq(Sinks)]
    BY <2>1, <2>3 DEF TypeOK
  <2>5. \A b \in 1..Levels : branches'[b] = IF b = c THEN Append(rest, sink) ELSE branches[b]
    BY <2>1 DEF TypeOK
  <2> QED BY <1>1, <2>1, <2>2, <2>3, <2>4, <2>5 DEF TypeOK, SinksDistinct
<1>6. ASSUME NEW c \in 1..Levels, NEW sink \in Sinks, take_out_sink(c, sink)
      PROVE  TypeOK' /\ SinksDistinct'
  <2> DEFINE rest == remove_sink(branches[c], sink)
  <2>1. /\ UNCHANGED <<global_sink, options>>
        /\ branches' = [branches EXCEPT ![c] = rest]
    BY <1>6 DEF take_out_sink
  <2>2. /\ rest \in Seq(Sinks) /\ Range(rest) = Range(branches[c]) \ {sink}
        /\ IsInjective(rest)
    BY <1>2, RemoveSink DEF SinksDistinct
  <2> HIDE DEF rest
  <2>3. branches' \in [1..Levels -> Seq(Sinks)]
    BY <2>1, <2>2 DEF TypeOK
  <2>4. \A b \in 1..Levels : branches'[b] = IF b = c THEN rest ELSE branches[b]
    BY <2>1 DEF TypeOK
  <2> QED BY <1>1, <2>1, <2>2, <2>3, <2>4 DEF TypeOK, SinksDistinct
<1> QED BY <1>3, <1>4, <1>5, <1>6 DEF Reconfigure

\* While the mutex is free nobody is past Lock.
LEMMA NobodyHolds ==
  ASSUME Inv, mutex = {}
  PROVE  \A t \in Threads : pc[t] # "apply" /\ pc[t] # "flush"
BY DEF Inv, MutexHeld, Holding

LEMMA ReconfigureStep ==
  ASSUME Inv, Reconfigure
  PROVE  Inv'
<1>1. mutex = {} /\ UNCHANGED <<threadVars, current_items, next_flush_time, sinkVars>>
  BY DEF Reconfigure, set_options, set_global_sink, add_sink, take_out_sink, Reconfigures,
         MutexFree
<1> USE DEF threadVars, sinkVars
<1>2. \A t \in Threads : pc[t] # "apply" /\ pc[t] # "flush"
  BY <1>1, NobodyHolds
<1>3. TypeOK' /\ SinksDistinct'
  BY RoutesStep DEF Inv
<1>4. MutexHeld' /\ Numbered'
  BY <1>1 DEF Inv, MutexHeld, Holding, Numbered
<1>5. FanOut' /\ FlushCalls'
  BY <1>1, <1>2 DEF Inv, FanOut, FlushCalls
<1>6. Horizon'
  <2> SUFFICES ASSUME ItemsNonZero PROVE TimeHorizon'
    BY DEF Horizon, ItemsNonZero
  <2> QED BY <1>1, <1>2 DEF Inv, Horizon, TimeHorizon, FlushHorizon, Unflushed
<1>7. AtMostOnce' /\ SameOrder'
  BY <1>1 DEF Inv, AtMostOnce, SameOrder
<1> QED BY <1>3, <1>4, <1>5, <1>6, <1>7 DEF Inv

\* A thread with a log is not one that has the mutex; its log is newer than all of its
\* logs that sinks have.
LEMMA CallStep ==
  ASSUME Inv, NEW t \in Threads, NEW level \in 1..Levels, NEW stamp \in Stamps,
         NEW moved \in BOOLEAN, Call(t, level, stamp, moved)
  PROVE  Inv'
<1> DEFINE e == [thread |-> t, n |-> entry[t].n + 1, level |-> level, stamp |-> stamp,
                 moved |-> moved]
<1>1. /\ pc[t] = "idle" /\ pc' = [pc EXCEPT ![t] = "lock"]
      /\ entry' = [entry EXCEPT ![t] = e] /\ entry[t].n < MaxLogs
      /\ UNCHANGED <<mutex, todo, crashed, global_sink, branches, current_items,
                     next_flush_time, options, received, flushed>>
  BY DEF Call, Goes, routeVars, flushVars, sinkVars
<1>2. TypeOK
  BY DEF Inv
<1>3. entry[t].n \in 0..MaxLogs
  BY <1>2 DEF TypeOK, Entry
<1>4. e \in Entry /\ e.thread = t /\ e.n = entry[t].n + 1 /\ e.n # 0 /\ e.stamp = stamp
  BY <1>1, <1>3, NumberAssumption DEF Entry
<1> HIDE DEF e
<1>5. /\ \A u \in Threads : pc'[u] = IF u = t THEN "lock" ELSE pc[u]
      /\ \A u \in Threads : entry'[u] = IF u = t THEN e ELSE entry[u]
  BY <1>1, <1>2 DEF TypeOK
<1>6. TypeOK'
  BY <1>1, <1>2, <1>4 DEF TypeOK
<1>7. SinksDistinct' /\ AtMostOnce' /\ SameOrder'
  BY <1>1 DEF Inv, SinksDistinct, AtMostOnce, SameOrder
<1>8. MutexHeld'
  BY <1>1, <1>5 DEF Inv, MutexHeld, Holding
<1>9. Numbered'
  <2>1. \A u \in Threads :
          /\ entry'[u].thread = u
          /\ pc'[u] # "idle" => entry'[u].n # 0 /\ entry'[u].stamp \in Stamps
    <3>1. \A u \in Threads :
            /\ entry[u].thread = u
            /\ pc[u] # "idle" => entry[u].n # 0 /\ entry[u].stamp \in Stamps
      BY DEF Inv, Numbered
    <3>2. entry'[t].thread = t /\ entry'[t].n # 0 /\ entry'[t].stamp \in Stamps
      BY <1>4, <1>5
    <3>3. \A u \in Threads : u # t => entry'[u] = entry[u] /\ pc'[u] = pc[u]
      BY <1>5
    <3> QED BY <3>1, <3>2, <3>3
  <2>2. ASSUME NEW s \in Sinks, NEW r \in Range(received[s])
        PROVE  /\ r.n # 0 /\ r.stamp \in Stamps /\ r.n <= entry'[r.thread].n
               /\ pc'[r.thread] = "lock" => r.n < entry'[r.thread].n
    <3>1. r \in Entry
      BY <1>2, RangeOfSeq DEF TypeOK
    <3>2. /\ r.n # 0 /\ r.stamp \in Stamps /\ r.n <= entry[r.thread].n
          /\ pc[r.thread] = "lock" => r.n < entry[r.thread].n
      BY DEF Inv, Numbered
    <3>3. r.thread \in Threads /\ r.n \in Nat
      BY <3>1 DEF Entry
    <3>4. CASE r.thread = t
      BY <3>2, <3>3, <3>4, <1>3, <1>4, <1>5
    <3>5. CASE r.thread # t
      BY <3>2, <3>3, <3>5, <1>5
    <3> QED BY <3>4, <3>5
  <2> QED BY <1>1, <2>1, <2>2 DEF Numbered
<1>10. FanOut'
  <2>1. \A u \in Threads : pc'[u] = "apply" => u # t /\ pc[u] = "apply" /\ entry'[u] = entry[u]
    BY <1>5
  <2> QED BY <1>1, <2>1 DEF Inv, FanOut, Sends, Branch
<1>11. Horizon'
  <2> SUFFICES ASSUME ItemsNonZero PROVE TimeHorizon'
    BY DEF Horizon, ItemsNonZero
  <2>1. \A u \in Threads : pc'[u] = "apply" => u # t /\ pc[u] = "apply" /\ entry'[u] = entry[u]
    BY <1>5
  <2>2. \A u \in Threads : pc'[u] = "flush" => u # t /\ pc[u] = "flush" /\ entry'[u] = entry[u]
    BY <1>5
  <2> QED BY <1>1, <2>1, <2>2 DEF Inv, Horizon, TimeHorizon, FlushHorizon, Unflushed
<1>12. FlushCalls'
  BY <1>1, <1>5 DEF Inv, FlushCalls
<1> QED BY <1>6, <1>7, <1>8, <1>9, <1>10, <1>11, <1>12 DEF Inv

\* Two threads do not hold the mutex at once.
LEMMA OneHolds ==
  ASSUME Inv, NEW t \in Threads, Holding(t)
  PROVE  \A u \in Threads : Holding(u) => u = t
BY DEF Inv, MutexHeld

LEMMA LockStep ==
  ASSUME Inv, NEW t \in Threads, Lock(t)
  PROVE  Inv'
<1>1. /\ pc[t] = "lock" /\ pc' = [pc EXCEPT ![t] = "apply"] /\ mutex = {} /\ mutex' = {t}
      /\ todo' = [todo EXCEPT ![t] = Targets(entry[t])]
      /\ UNCHANGED <<entry, crashed, global_sink, branches, current_items,
                     next_flush_time, options, received, flushed>>
  BY DEF Lock, Goes, MutexFree, routeVars, flushVars, sinkVars
<1>2. TypeOK /\ SinksDistinct
  BY DEF Inv
<1>3. /\ \A u \in Threads : pc'[u] = IF u = t THEN "apply" ELSE pc[u]
      /\ todo'[t] = Targets(entry[t])
  BY <1>1, <1>2 DEF TypeOK
<1>4. \A u \in Threads : pc[u] # "apply" /\ pc[u] # "flush"
  BY <1>1, NobodyHolds
<1>5. entry[t] \in Entry
  BY <1>2 DEF TypeOK
<1>6. /\ Targets(entry[t]) \in Seq(Sinks \cup {NoSink})
      /\ Range(Targets(entry[t])) = Sends(t)
      /\ IsInjective(Targets(entry[t]))
  BY <1>2, <1>5, TargetsOfLog DEF Sends
<1>7. TypeOK'
  BY <1>1, <1>2, <1>6 DEF TypeOK
<1>8. SinksDistinct' /\ AtMostOnce' /\ SameOrder'
  BY <1>1 DEF Inv, SinksDistinct, AtMostOnce, SameOrder
<1>9. MutexHeld'
  BY <1>1, <1>3, <1>4 DEF MutexHeld, Holding
<1>10. Numbered'
  <2>1. \A u \in Threads : pc'[u] # "idle" => pc[u] # "idle"
    BY <1>1, <1>3
  <2>2. \A u : pc'[u] = "lock" => pc[u] = "lock"
    BY <1>1, <1>2 DEF TypeOK
  <2> QED BY <1>1, <2>1, <2>2 DEF Inv, Numbered
<1>11. FanOut'
  <2>1. \A s \in Sinks : entry[t] \notin Range(received[s])
    <3>1. entry[t].n \in Nat
      BY <1>5, NumberAssumption DEF Entry
    <3>2. entry[t].thread = t
      BY DEF Inv, Numbered
    <3> QED BY <1>1, <3>1, <3>2 DEF Inv, Numbered
  <2>2. Sends(t)' = Sends(t)
    BY <1>1 DEF Sends, Branch
  <2>3. /\ IsInjective(todo'[t]) /\ Range(todo'[t]) = Sends(t)'
    BY <1>3, <1>6, <2>2
  <2>4. \A s \in Sinks : s \notin Sends(t)' \ Range(todo'[t])
    BY <2>3
  <2>5. \A u \in Threads : pc'[u] = "apply" => u = t
    BY <1>3, <1>4
  <2> QED BY <1>1, <2>1, <2>3, <2>4, <2>5 DEF FanOut
<1>12. Horizon'
  <2> SUFFICES ASSUME ItemsNonZero PROVE TimeHorizon'
    BY DEF Horizon, ItemsNonZero
  <2>1. \A u \in Threads : pc'[u] = "apply" => u = t
    BY <1>3, <1>4
  <2>2. \A u \in Threads : pc'[u] # "flush"
    BY <1>3, <1>4
  <2> QED BY <1>1, <2>1, <2>2 DEF Inv, Horizon, TimeHorizon, FlushHorizon, Unflushed
<1>13. FlushCalls'
  BY <1>1, <1>3, <1>4 DEF Inv, FlushCalls
<1> QED BY <1>7, <1>8, <1>9, <1>10, <1>11, <1>12, <1>13 DEF Inv

\* The call of a sink that is null ends the program and changes no sink.
LEMMA ApplyNullStep ==
  ASSUME Inv, NEW t \in Threads, Apply(t), Head(todo[t]) = NoSink
  PROVE  Inv'
<1>1. /\ pc[t] = "apply" /\ pc' = [pc EXCEPT ![t] = "apply"] /\ todo[t] # <<>>
      /\ todo' = [todo EXCEPT ![t] = Tail(todo[t])] /\ crashed'
      /\ UNCHANGED <<mutex, entry, global_sink, branches, current_items,
                     next_flush_time, options, received, flushed>>
  BY DEF Apply, Goes, routeVars, flushVars
<1>2. TypeOK /\ todo[t] \in Seq(Sinks \cup {NoSink})
  BY DEF Inv, TypeOK
<1>3. pc' = pc /\ todo'[t] = Tail(todo[t])
  BY <1>1, <1>2 DEF TypeOK
<1>4. /\ Tail(todo[t]) \in Seq(Sinks \cup {NoSink})
      /\ Range(todo[t]) = {NoSink} \cup Range(Tail(todo[t]))
  BY <1>1, <1>2, TailElements
<1>5. IsInjective(Tail(todo[t]))
  BY <1>1, <1>2, TailElements DEF Inv, FanOut
<1>6. TypeOK'
  <2>1. crashed' \in BOOLEAN
    BY DEF Apply
  <2> QED BY <1>1, <1>2, <1>3, <1>4, <2>1 DEF TypeOK
<1>7. SinksDistinct' /\ AtMostOnce' /\ SameOrder'
  BY <1>1 DEF Inv, SinksDistinct, AtMostOnce, SameOrder
<1>8. MutexHeld' /\ Numbered'
  BY <1>1, <1>3 DEF Inv, MutexHeld, Holding, Numbered
<1>9. \A u \in Threads : pc'[u] \in {"apply", "flush"} => u = t
  BY <1>1, <1>3, OneHolds DEF Holding
<1>10. FanOut'
  <2>1. Sends(t)' = Sends(t)
    BY <1>1 DEF Sends, Branch
  <2>2. Range(todo'[t]) \subseteq Sends(t)'
    BY <1>1, <1>3, <1>4, <2>1 DEF Inv, FanOut
  <2>3. \A s \in Sinks : s \in Range(todo'[t]) <=> s \in Range(todo[t])
    BY <1>3, <1>4, SinkAssumption
  <2>4. \A s \in Sinks : IF s \in Sends(t) \ Range(todo[t])
                         THEN received[s] # <<>> /\ Last(received[s]) = entry[t]
                         ELSE entry[t] \notin Range(received[s])
    BY <1>1 DEF Inv, FanOut
  <2>5. \A s \in Sinks : IF s \in Sends(t)' \ Range(todo'[t])
                         THEN received'[s] # <<>> /\ Last(received'[s]) = entry'[t]
                         ELSE entry'[t] \notin Range(received'[s])
    BY <1>1, <2>1, <2>3, <2>4
  <2>6. IsInjective(todo'[t]) /\ crashed'
    BY <1>1, <1>3, <1>5
  <2> QED BY <1>9, <2>2, <2>5, <2>6 DEF FanOut
<1>11. Horizon'
  <2> SUFFICES ASSUME ItemsNonZero PROVE TimeHorizon'
    BY DEF Horizon, ItemsNonZero
  <2> QED BY <1>1, <1>3, <1>9 DEF Inv, Horizon, TimeHorizon, FlushHorizon, Unflushed
<1>12. FlushCalls'
  BY <1>1, <1>3, <1>9 DEF Inv, FlushCalls
<1> QED BY <1>6, <1>7, <1>8, <1>10, <1>11, <1>12 DEF Inv

\* The call of a sink gives it the log, which nobody has had before but the sinks called
\* before it, and these got it last.
LEMMA ApplySinkStep ==
  ASSUME Inv, ~ crashed, NEW t \in Threads, Apply(t), NEW h \in Sinks, h = Head(todo[t])
  PROVE  Inv'
<1> DEFINE e == entry[t]
<1>1. /\ pc[t] = "apply" /\ pc' = [pc EXCEPT ![t] = "apply"] /\ todo[t] # <<>>
      /\ todo' = [todo EXCEPT ![t] = Tail(todo[t])] /\ crashed' = FALSE
      /\ received' = [received EXCEPT ![h] = Append(received[h], e)]
      /\ UNCHANGED <<mutex, entry, global_sink, branches, current_items,
                     next_flush_time, options, flushed>>
  BY SinkAssumption DEF Apply, Goes, routeVars, flushVars
<1>2. TypeOK /\ todo[t] \in Seq(Sinks \cup {NoSink}) /\ e \in Entry
      /\ \A s \in Sinks : received[s] \in Seq(Entry)
  BY DEF Inv, TypeOK
<1>3. /\ pc' = pc /\ todo'[t] = Tail(todo[t])
      /\ \A s \in Sinks : received'[s] = IF s = h THEN Append(received[h], e) ELSE received[s]
  BY <1>1, <1>2 DEF TypeOK
<1>4. /\ Tail(todo[t]) \in Seq(Sinks \cup {NoSink})
      /\ Range(todo[t]) = {h} \cup Range(Tail(todo[t]))
  BY <1>1, <1>2, TailElements
<1>5. IsInjective(Tail(todo[t])) /\ h \notin Range(Tail(todo[t]))
  BY <1>1, <1>2, TailElements DEF Inv, FanOut
<1>6. e \notin Range(received[h])
  BY <1>1, <1>4 DEF Inv, FanOut
<1>7. /\ received'[h] \in Seq(Entry) /\ Len(received'[h]) = Len(received[h]) + 1
      /\ \A i \in 1..Len(received[h]) : received'[h][i] = received[h][i]
      /\ received'[h][Len(received[h]) + 1] = e /\ Last(received'[h]) = e
      /\ received'[h] # <<>>
      /\ Range(received'[h]) = Range(received[h]) \cup {e}
  <2>1. received'[h] = Append(received[h], e) /\ received[h] \in Seq(Entry) /\ e \in Entry
    BY <1>2, <1>3
  <2>2. /\ Append(received[h], e) \in Seq(Entry)
        /\ Len(Append(received[h], e)) = Len(received[h]) + 1
        /\ \A i \in 1..Len(received[h]) : Append(received[h], e)[i] = received[h][i]
        /\ Last(Append(received[h], e)) = e
        /\ Range(Append(received[h], e)) = Range(received[h]) \cup {e}
    BY <2>1, AppendElement
  <2>3. Append(received[h], e)[Len(received[h]) + 1] = e /\ Append(received[h], e) # <<>>
    BY <2>1, AppendProperties
  <2> QED BY <2>1, <2>2, <2>3
<1>8. IsInjective(received'[h])
  BY <1>2, <1>3, <1>6, AppendElement DEF Inv, AtMostOnce
<1>9. \A u \in Threads : pc'[u] \in {"apply", "flush"} => u = t
  BY <1>1, <1>3, OneHolds DEF Holding
<1> HIDE DEF e
<1>10. TypeOK'
  BY <1>1, <1>2, <1>3, <1>4, <1>7 DEF TypeOK
<1>11. SinksDistinct' /\ MutexHeld'
  BY <1>1, <1>3 DEF Inv, SinksDistinct, MutexHeld, Holding
<1>12. AtMostOnce'
  BY <1>3, <1>8 DEF Inv, AtMostOnce
<1>13. Numbered'
  <2>1. e.thread = t /\ e.n # 0 /\ e.stamp \in Stamps /\ e.n \in Nat
    BY <1>1, <1>2, NumberAssumption DEF Inv, Numbered, e, Entry
  <2>2. e.n <= entry[e.thread].n /\ pc[e.thread] # "lock"
    BY <1>1, <2>1 DEF e
  <2>3. \A s \in Sinks : \A r \in Range(received'[s]) : r \in Range(received[s]) \/ r = e
    BY <1>3, <1>7
  <2> QED BY <1>1, <1>3, <2>1, <2>2, <2>3 DEF Inv, Numbered
<1>14. FanOut'
  <2>1. Sends(t)' = Sends(t)
    BY <1>1 DEF Sends, Branch
  <2>2. Range(todo[t]) \subseteq Sends(t) /\ ~ (NoSink \in Sends(t) /\ NoSink \notin Range(todo[t]))
    BY <1>1 DEF Inv, FanOut
  <2>3. Range(todo'[t]) \subseteq Sends(t)' /\ IsInjective(todo'[t])
    BY <1>3, <1>4, <1>5, <2>1, <2>2
  <2>4. NoSink \in Sends(t)' => NoSink \in Range(todo'[t])
    BY <1>3, <1>4, <2>1, <2>2, SinkAssumption
  <2>5. \A s \in Sinks : IF s \in Sends(t) \ Range(todo[t])
                         THEN received[s] # <<>> /\ Last(received[s]) = e
                         ELSE e \notin Range(received[s])
    BY <1>1 DEF Inv, FanOut, e
  <2>6. \A s \in Sinks : IF s \in Sends(t)' \ Range(todo'[t])
                         THEN received'[s] # <<>> /\ Last(received'[s]) = e
                         ELSE e \notin Range(received'[s])
    BY <1>3, <1>4, <1>5, <1>7, <2>1, <2>2, <2>5
  <2>7. entry'[t] = e
    BY <1>1 DEF e
  <2> QED BY <1>9, <2>3, <2>4, <2>6, <2>7 DEF FanOut
<1>15. SameOrder'
  <2> DEFINE last == Len(received[h]) + 1
  <2>1. \A s \in Sinks : Len(received[s]) \in Nat /\ DOMAIN received[s] = 1..Len(received[s])
    BY <1>2, LenProperties
  <2>2. \A s \in Sinks : DOMAIN received'[s] = IF s = h THEN 1..last ELSE DOMAIN received[s]
    BY <1>3, <1>7, LenProperties
  <2>3. ASSUME NEW s \in Sinks, NEW k \in DOMAIN received'[s]
        PROVE  \/ k \in DOMAIN received[s] /\ received'[s][k] = received[s][k]
               \/ s = h /\ k = last /\ received'[s][k] = e
    <3>1. CASE s # h
      BY <3>1, <1>3, <2>2
    <3>2. CASE s = h /\ k = last
      BY <3>2, <1>7
    <3>3. CASE s = h /\ k # last
      <4>1. k \in 1..Len(received[h])
        BY <3>3, <2>1, <2>2
      <4> QED BY <3>3, <4>1, <1>7, <2>1
    <3> QED BY <3>1, <3>2, <3>3
  <2>4. ASSUME NEW s \in Sinks, s # h, NEW k \in DOMAIN received[s], received[s][k] = e
        PROVE  k = Len(received[s])
    <3>1. e \in Range(received[s])
      BY <2>4 DEF Range
    <3>2. received[s] # <<>> /\ received[s][Len(received[s])] = e
      BY <1>1, <3>1 DEF Inv, FanOut, e, Last
    <3>3. Len(received[s]) \in DOMAIN received[s]
      BY <1>2, <2>1, <3>2, EmptySeq
    <3> QED BY <2>4, <3>2, <3>3 DEF Inv, AtMostOnce, IsInjective
  <2>5. \A s \in Sinks : \A k \in DOMAIN received[s] : k <= Len(received[s]) /\ k \in Nat
    BY <2>1
  <2>6. \A k \in DOMAIN received[h] : received[h][k] # e
    BY <1>6 DEF Range
  <2>7. ASSUME NEW r \in Sinks, NEW s \in Sinks,
               NEW i \in DOMAIN received'[r], NEW j \in DOMAIN received'[r],
               NEW k \in DOMAIN received'[s], NEW l \in DOMAIN received'[s],
               received'[r][i] = received'[s][k], received'[r][j] = received'[s][l], i < j
        PROVE  k < l
    <3>1. CASE r = s
      <4>1. IsInjective(received'[s])
        BY <1>12 DEF AtMostOnce
      <4>2. i = k /\ j = l
        BY <2>7, <3>1, <4>1 DEF IsInjective
      <4> QED BY <2>7, <4>2
    <3>2. CASE r # s /\ r # h /\ s # h
      BY <2>7, <3>2, <1>3, <2>2 DEF Inv, SameOrder
    <3>3. CASE r # s /\ r = h
      <4>1. /\ received'[s] = received[s]
            /\ k \in DOMAIN received[s] /\ l \in DOMAIN received[s]
        BY <3>3, <1>3, <2>2
      <4>2. CASE j = last
        <5>1. l = Len(received[s])
          BY <2>4, <2>7, <3>3, <4>1, <4>2, <1>7
        <5>2. i \in DOMAIN received[h] /\ received'[h][i] = received[h][i]
          BY <2>1, <2>2, <2>7, <3>3, <4>2, <1>7
        <5>3. k # l
          BY <2>6, <2>7, <3>3, <4>1, <4>2, <5>2, <1>7
        <5> QED BY <2>5, <4>1, <5>1, <5>3
      <4>3. CASE j # last
        <5>1. /\ i \in DOMAIN received[h] /\ received'[h][i] = received[h][i]
              /\ j \in DOMAIN received[h] /\ received'[h][j] = received[h][j]
          <6>1. i \in 1..last /\ j \in 1..last /\ i # last
            BY <2>1, <2>2, <2>7, <3>3, <4>3
          <6> HIDE DEF last
          <6> QED BY <2>3, <2>7, <3>3, <4>3, <6>1
        <5> QED BY <2>7, <3>3, <4>1, <5>1 DEF Inv, SameOrder
      <4> QED BY <4>2, <4>3
    <3>4. CASE r # s /\ s = h
      <4>1. /\ received'[r] = received[r]
            /\ i \in DOMAIN received[r] /\ j \in DOMAIN received[r]
        BY <3>4, <1>3, <2>2
      <4>2. k # last
        <5> SUFFICES ASSUME k = last PROVE FALSE
          OBVIOUS
        <5>1. received[r][i] = e
          BY <1>7, <2>7, <3>4, <4>1
        <5>2. i = Len(received[r])
          BY <2>4, <3>4, <4>1, <5>1
        <5> QED BY <2>5, <2>7, <4>1, <5>2
      <4>3. k \in DOMAIN received[h] /\ received'[h][k] = received[h][k]
        BY <2>3, <3>4, <4>2
      <4>4. CASE l = last
        BY <2>1, <4>3, <4>4
      <4>5. CASE l # last
        <5>1. l \in DOMAIN received[h] /\ received'[h][l] = received[h][l]
          BY <2>3, <3>4, <4>5
        <5> QED BY <2>7, <3>4, <4>1, <4>3, <5>1 DEF Inv, SameOrder
      <4> QED BY <4>4, <4>5
    <3> QED BY <3>1, <3>2, <3>3, <3>4
  <2> QED BY <2>7 DEF SameOrder
<1>16. Horizon'
  <2> SUFFICES ASSUME ItemsNonZero PROVE TimeHorizon'
    BY DEF Horizon, ItemsNonZero
  <2>1. ASSUME NEW s \in Sinks, NEW r \in Unflushed(s)'
        PROVE  r \in Unflushed(s) \/ r = e
    <3>1. PICK i \in flushed[s] + 1..Len(received'[s]) : r = received'[s][i]
      BY <1>1 DEF Unflushed
    <3>2. flushed[s] \in Nat /\ Len(received[s]) \in Nat
      BY <1>2, LenProperties DEF Inv, TypeOK
    <3>3. CASE s = h /\ i = Len(received[h]) + 1
      BY <1>7, <3>1, <3>3
    <3>4. CASE ~ (s = h /\ i = Len(received[h]) + 1)
      <4>1. i \in flushed[s] + 1..Len(received[s]) /\ received'[s][i] = received[s][i]
        BY <1>3, <1>7, <3>1, <3>2, <3>4
      <4> QED BY <3>1, <4>1 DEF Unflushed
    <3> QED BY <3>3, <3>4
  <2>2. \A s \in Sinks : \A r \in Unflushed(s) : r.stamp < next_flush_time \/ r = e
    BY <1>1 DEF Inv, Horizon, TimeHorizon, e
  <2>3. e = entry'[t] /\ pc'[t] = "apply" /\ mutex' # {}
    BY <1>1, <1>3 DEF Inv, MutexHeld, Holding, e
  <2> QED BY <1>1, <1>9, <2>1, <2>2, <2>3 DEF TimeHorizon, FlushHorizon
<1>17. FlushCalls'
  BY <1>1, <1>3, <1>9 DEF Inv, FlushCalls
<1> QED BY <1>10, <1>11, <1>12, <1>13, <1>14, <1>15, <1>16, <1>17 DEF Inv

LEMMA ReturnStep ==
  ASSUME Inv, NEW t \in Threads, Return(t)
  PROVE  Inv'
<1>1. /\ pc[t] = "apply" /\ pc' = [pc EXCEPT ![t] = "idle"] /\ mutex' = mutex \ {t}
      /\ NotYet(entry[t].stamp)
      /\ UNCHANGED <<entry, todo, crashed, global_sink, branches, current_items,
                     next_flush_time, options, received, flushed>>
  BY DEF Return, Goes, Unlock, routeVars, flushVars, sinkVars
<1>2. TypeOK
  BY DEF Inv
<1>3. /\ \A u \in Threads : pc'[u] = IF u = t THEN "idle" ELSE pc[u]
  BY <1>1, <1>2 DEF TypeOK
<1>4. \A u \in Threads : pc'[u] # "apply" /\ pc'[u] # "flush"
  BY <1>1, <1>3, OneHolds DEF Holding
<1>5. TypeOK'
  BY <1>1, <1>2 DEF TypeOK
<1>6. SinksDistinct' /\ AtMostOnce' /\ SameOrder'
  BY <1>1 DEF Inv, SinksDistinct, AtMostOnce, SameOrder
<1>7. MutexHeld'
  BY <1>1, <1>2, <1>3 DEF Inv, TypeOK, MutexHeld, Holding
<1>8. Numbered'
  <2>1. \A u \in Threads : pc'[u] # "idle" => pc[u] # "idle"
    BY <1>3
  <2>2. \A u : pc'[u] = "lock" => pc[u] = "lock"
    BY <1>1, <1>2 DEF TypeOK
  <2> QED BY <1>1, <2>1, <2>2 DEF Inv, Numbered
<1>9. FanOut'
  BY <1>4 DEF FanOut
<1>10. Horizon'
  <2> SUFFICES ASSUME ItemsNonZero PROVE TimeHorizon'
    BY DEF Horizon, ItemsNonZero
  <2>1. entry[t].stamp < next_flush_time
    BY <1>1 DEF NotYet
  <2>2. \A s \in Sinks : \A e \in Unflushed(s) : e.stamp < next_flush_time
    BY <1>1, <2>1 DEF Inv, Horizon, TimeHorizon
  <2>3. \A s \in Sinks : Unflushed(s)' = Unflushed(s)
    BY <1>1 DEF Unflushed
  <2> QED BY <1>1, <1>4, <2>2, <2>3 DEF TimeHorizon, FlushHorizon
<1>11. FlushCalls'
  BY <1>1, <1>4 DEF Inv, FlushCalls
<1> QED BY <1>5, <1>6, <1>7, <1>8, <1>9, <1>10, <1>11 DEF Inv

\* A flush begins only with a log that has reached the flush time, since nothing is
\* counted and no option lets a flush begin for nothing.
LEMMA FlushNeedsTime ==
  ASSUME Inv, ItemsNonZero, NEW stamp \in Nat, ~ NotYet(stamp)
  PROVE  stamp >= next_flush_time
<1>1. options.flush_items \in Nat /\ options.flush_items # 0
  BY OptionNumbers DEF Inv, TypeOK, ItemsNonZero
<1>2. current_items = 0 /\ next_flush_time \in Nat
  BY DEF Inv, FlushCalls, TypeOK
<1> QED BY <1>1, <1>2 DEF NotYet

LEMMA StartFlushStep ==
  ASSUME Inv, ~ crashed, NEW t \in Threads, StartFlush(t)
  PROVE  Inv'
<1>1. /\ pc[t] = "apply" /\ pc' = [pc EXCEPT ![t] = "flush"] /\ todo[t] = <<>>
      /\ ~ NotYet(entry[t].stamp)
      /\ todo' = [todo EXCEPT ![t] = FlushTargets]
      /\ UNCHANGED <<mutex, entry, crashed, global_sink, branches, current_items,
                     next_flush_time, options, received, flushed>>
  BY DEF StartFlush, Goes, routeVars, flushVars, sinkVars
<1>2. TypeOK
  BY DEF Inv
<1>3. /\ \A u \in Threads : pc'[u] = IF u = t THEN "flush" ELSE pc[u]
      /\ todo'[t] = FlushTargets
  BY <1>1, <1>2 DEF TypeOK
<1>4. \A u \in Threads : pc'[u] \in {"apply", "flush"} => u = t /\ pc'[u] = "flush"
  BY <1>1, <1>3, OneHolds DEF Holding
<1>5. /\ FlushTargets \in Seq(Sinks \cup {NoSink})
      /\ Range(FlushTargets) = {global_sink} \cup UNION {Range(branches[b]) : b \in 1..Levels}
  BY <1>2, TargetsOfFlush
<1>6. TypeOK'
  BY <1>1, <1>2, <1>5 DEF TypeOK
<1>7. SinksDistinct' /\ AtMostOnce' /\ SameOrder'
  BY <1>1 DEF Inv, SinksDistinct, AtMostOnce, SameOrder
<1>8. MutexHeld'
  BY <1>1, <1>3 DEF Inv, MutexHeld, Holding
<1>9. Numbered'
  <2>1. \A u \in Threads : pc'[u] # "idle" => pc[u] # "idle"
    BY <1>1, <1>3
  <2>2. \A u : pc'[u] = "lock" => pc[u] = "lock"
    BY <1>1, <1>2 DEF TypeOK
  <2> QED BY <1>1, <2>1, <2>2 DEF Inv, Numbered
<1>10. FanOut'
  BY <1>4 DEF FanOut
<1>11. Horizon'
  <2> SUFFICES ASSUME ItemsNonZero PROVE TimeHorizon'
    BY DEF Horizon, ItemsNonZero
  <2>1. entry[t].stamp >= next_flush_time
    <3>1. entry[t].stamp \in Nat
      BY <1>2, EntryNumbers DEF TypeOK
    <3> QED BY <1>1, <3>1, FlushNeedsTime
  <2>2. entry[t].level \in 1..Levels
    BY <1>2 DEF TypeOK, Entry
  <2>3. Range(todo[t]) = {}
    BY <1>1 DEF Range
  <2>4. Sends(t) \subseteq Range(FlushTargets)
    BY <1>5, <2>2 DEF Sends, Branch
  <2>5. ASSUME NEW s \in Sinks, NEW e \in Unflushed(s)
        PROVE  e.stamp < next_flush_time \/ s \in Range(FlushTargets)
    <3>1. e.stamp < next_flush_time \/ e = entry[t]
      BY <1>1 DEF Inv, Horizon, TimeHorizon
    <3>2. CASE e = entry[t]
      <4>1. e \in Range(received[s])
        <5>1. received[s] \in Seq(Entry) /\ flushed[s] \in Nat
          BY <1>2 DEF TypeOK
        <5>2. DOMAIN received[s] = 1..Len(received[s])
          BY <5>1, LenProperties
        <5>3. flushed[s] + 1..Len(received[s]) \subseteq 1..Len(received[s])
          BY <5>1
        <5> QED BY <5>2, <5>3 DEF Unflushed, Range
      <4>2. s \in Sends(t)
        BY <1>1, <2>3, <3>2, <4>1 DEF Inv, FanOut
      <4> QED BY <4>2, <2>4
    <3> QED BY <3>1, <3>2
  <2>6. \A s \in Sinks : Unflushed(s)' = Unflushed(s)
    BY <1>1 DEF Unflushed
  <2>7. mutex' # {}
    BY <1>1 DEF Inv, MutexHeld, Holding
  <2> QED BY <1>1, <1>3, <1>4, <2>1, <2>5, <2>6, <2>7 DEF TimeHorizon, FlushHorizon
<1>12. FlushCalls'
  <2>1. Range(todo[t]) = {}
    BY <1>1 DEF Range
  <2>2. NoSink # global_sink
    BY <1>1, <2>1 DEF Inv, FanOut, Sends
  <2>3. \A b \in 1..Levels : Range(branches[b]) \subseteq Sinks
    BY <1>2, BranchOfSinks, RangeOfSeq
  <2>4. NoSink \notin Range(FlushTargets)
    BY <1>5, <2>2, <2>3, SinkAssumption
  <2> QED BY <1>1, <1>3, <1>4, <2>4 DEF Inv, FlushCalls
<1> QED BY <1>6, <1>7, <1>8, <1>9, <1>10, <1>11, <1>12 DEF Inv

LEMMA FlushStep ==
  ASSUME Inv, NEW t \in Threads, Flush(t)
  PROVE  Inv'
<1>0. PICK h : h = Head(todo[t])
  OBVIOUS
<1>1. /\ pc[t] = "flush" /\ pc' = [pc EXCEPT ![t] = "flush"] /\ todo[t] # <<>>
      /\ todo' = [todo EXCEPT ![t] = Tail(todo[t])]
      /\ flushed' = [flushed EXCEPT ![h] = Len(received[h])]
      /\ UNCHANGED <<mutex, entry, crashed, global_sink, branches, current_items,
                     next_flush_time, options, received>>
  BY <1>0 DEF Flush, Goes, routeVars, flushVars
<1>2. TypeOK /\ todo[t] \in Seq(Sinks \cup {NoSink})
  BY DEF Inv, TypeOK
<1>3. pc' = pc /\ todo'[t] = Tail(todo[t])
  BY <1>1, <1>2 DEF TypeOK
<1>4. /\ Tail(todo[t]) \in Seq(Sinks \cup {NoSink}) /\ h \in Sinks \cup {NoSink}
      /\ Range(todo[t]) = {h} \cup Range(Tail(todo[t]))
  BY <1>0, <1>1, <1>2, TailElements
<1>5. h \in Sinks
  BY <1>1, <1>4 DEF Inv, FlushCalls
<1>6. \A u \in Threads : pc'[u] \in {"apply", "flush"} => u = t /\ pc'[u] = "flush"
  BY <1>1, <1>3, OneHolds DEF Holding
<1>7. TypeOK'
  <2>1. Len(received[h]) \in Nat
    BY <1>2, <1>5, LenProperties DEF TypeOK
  <2> QED BY <1>1, <1>2, <1>3, <1>4, <2>1 DEF TypeOK
<1>8. SinksDistinct' /\ AtMostOnce' /\ SameOrder'
  BY <1>1 DEF Inv, SinksDistinct, AtMostOnce, SameOrder
<1>9. MutexHeld' /\ Numbered'
  BY <1>1, <1>3 DEF Inv, MutexHeld, Holding, Numbered
<1>10. FanOut'
  BY <1>6 DEF FanOut
<1>11. Horizon'
  <2> SUFFICES ASSUME ItemsNonZero PROVE TimeHorizon'
    BY DEF Horizon, ItemsNonZero
  <2>1. \A s \in Sinks : flushed'[s] = IF s = h THEN Len(received[h]) ELSE flushed[s]
    BY <1>1, <1>2 DEF TypeOK
  <2>2. Unflushed(h)' = {}
    <3>1. Len(received[h]) \in Nat
      BY <1>2, <1>5, LenProperties DEF TypeOK
    <3>2. Len(received[h]) + 1..Len(received[h]) = {}
      BY <3>1
    <3>3. flushed'[h] = Len(received[h]) /\ received' = received
      BY <1>1, <1>5, <2>1
    <3> QED BY <3>2, <3>3 DEF Unflushed
  <2>3. \A s \in Sinks : s # h => Unflushed(s)' = Unflushed(s)
    BY <1>1, <2>1 DEF Unflushed
  <2>4. /\ entry[t].stamp >= next_flush_time
        /\ \A s \in Sinks : \A e \in Unflushed(s) :
             e.stamp < next_flush_time \/ s \in Range(todo[t])
    BY <1>1 DEF Inv, Horizon, TimeHorizon
  <2>5. \A s \in Sinks : \A e \in Unflushed(s)' :
          e.stamp < next_flush_time \/ s \in Range(todo'[t])
    BY <1>3, <1>4, <2>2, <2>3, <2>4
  <2>6. mutex' # {}
    BY <1>1 DEF Inv, MutexHeld, Holding
  <2> QED BY <1>1, <1>6, <2>4, <2>5, <2>6 DEF TimeHorizon, FlushHorizon
<1>12. FlushCalls'
  BY <1>1, <1>3, <1>4, <1>6 DEF Inv, FlushCalls
<1> QED BY <1>7, <1>8, <1>9, <1>10, <1>11, <1>12 DEF Inv

\* The end of a flush moves the flush time forward.
LEMMA FinishFlushAdvances ==
  ASSUME Inv, NEW t \in Threads, FinishFlush(t)
  PROVE  /\ next_flush_time' \in Nat
         /\ ItemsNonZero => next_flush_time' >= next_flush_time
<1>1. /\ next_flush_time' = entry[t].stamp + options.flush_interval_seconds
      /\ pc[t] = "flush"
  BY DEF FinishFlush, Goes
<1>2. options.flush_interval_seconds \in Nat
  BY OptionNumbers DEF Inv, TypeOK
<1>3. entry[t].stamp \in Nat /\ next_flush_time \in Nat
  BY EntryNumbers DEF Inv, TypeOK
<1>4. ItemsNonZero => entry[t].stamp >= next_flush_time
  BY <1>1 DEF Inv, Horizon, TimeHorizon
<1> QED BY <1>1, <1>2, <1>3, <1>4

LEMMA FinishFlushStep ==
  ASSUME Inv, NEW t \in Threads, FinishFlush(t)
  PROVE  Inv'
<1>1. /\ pc[t] = "flush" /\ pc' = [pc EXCEPT ![t] = "idle"] /\ mutex' = mutex \ {t}
      /\ todo[t] = <<>> /\ current_items' = 0
      /\ UNCHANGED <<entry, todo, crashed, global_sink, branches, options, received, flushed>>
  BY DEF FinishFlush, Goes, Unlock, routeVars, sinkVars
<1>2. TypeOK
  BY DEF Inv
<1>3. \A u \in Threads : pc'[u] = IF u = t THEN "idle" ELSE pc[u]
  BY <1>1, <1>2 DEF TypeOK
<1>4. \A u \in Threads : pc'[u] # "apply" /\ pc'[u] # "flush"
  BY <1>1, <1>3, OneHolds DEF Holding
<1>5. next_flush_time' \in Nat /\ (ItemsNonZero => next_flush_time' >= next_flush_time)
  BY FinishFlushAdvances
<1>6. TypeOK'
  BY <1>1, <1>2, <1>5 DEF TypeOK
<1>7. SinksDistinct' /\ AtMostOnce' /\ SameOrder'
  BY <1>1 DEF Inv, SinksDistinct, AtMostOnce, SameOrder
<1>8. MutexHeld'
  BY <1>1, <1>2, <1>3 DEF Inv, TypeOK, MutexHeld, Holding
<1>9. Numbered'
  <2>1. \A u \in Threads : pc'[u] # "idle" => pc[u] # "idle"
    BY <1>3
  <2>2. \A u : pc'[u] = "lock" => pc[u] = "lock"
    BY <1>1, <1>2 DEF TypeOK
  <2> QED BY <1>1, <2>1, <2>2 DEF Inv, Numbered
<1>10. FanOut'
  BY <1>4 DEF FanOut
<1>11. Horizon'
  <2> SUFFICES ASSUME ItemsNonZero PROVE TimeHorizon'
    BY DEF Horizon, ItemsNonZero
  <2>1. Range(todo[t]) = {}
    BY <1>1 DEF Range
  <2>2. \A s \in Sinks : \A e \in Unflushed(s) : e.stamp < next_flush_time
    BY <1>1, <2>1 DEF Inv, Horizon, TimeHorizon
  <2>3. \A s \in Sinks : Unflushed(s)' = Unflushed(s)
    BY <1>1 DEF Unflushed
  <2>4. \A s \in Sinks : \A e \in Unflushed(s) : e.stamp \in Nat
    <3> SUFFICES ASSUME NEW s \in Sinks, NEW i \in flushed[s] + 1..Len(received[s])
                 PROVE  received[s][i].stamp \in Nat
      BY DEF Unflushed
    <3>1. received[s] \in Seq(Entry) /\ flushed[s] \in Nat
      BY <1>2 DEF TypeOK
    <3>2. i \in 1..Len(received[s])
      BY <3>1
    <3>3. received[s][i] \in Entry
      BY <3>1, <3>2, ElementOfSeq
    <3> QED BY <3>3, EntryNumbers
  <2>5. next_flush_time \in Nat
    BY <1>2 DEF TypeOK
  <2>6. \A s \in Sinks : \A e \in Unflushed(s)' : e.stamp < next_flush_time'
    BY <1>5, <2>2, <2>3, <2>4, <2>5
  <2> QED BY <1>1, <1>4, <2>6 DEF TimeHorizon, FlushHorizon
<1>12. FlushCalls'
  BY <1>1, <1>4 DEF FlushCalls
<1> QED BY <1>6, <1>7, <1>8, <1>9, <1>10, <1>11, <1>12 DEF Inv

-----------------------------------------------------------------------------
LEMMA StutterStep ==
  ASSUME Inv, UNCHANGED vars
  PROVE  Inv'
<1> USE DEF vars, threadVars, routeVars, flushVars, sinkVars
<1>1. TypeOK' /\ SinksDistinct' /\ MutexHeld' /\ Numbered'
  BY DEF Inv, TypeOK, SinksDistinct, MutexHeld, Holding, Numbered
<1>2. FanOut' /\ FlushCalls'
  BY DEF Inv, FanOut, Sends, Branch, FlushCalls
<1>3. Horizon'
  <2> SUFFICES ASSUME ItemsNonZero PROVE TimeHorizon'
    BY DEF Horizon, ItemsNonZero
  <2> QED BY DEF Inv, Horizon, TimeHorizon, FlushHorizon, Unflushed
<1>4. AtMostOnce' /\ SameOrder'
  BY DEF Inv, AtMostOnce, SameOrder
<1> QED BY <1>1, <1>2, <1>3, <1>4 DEF Inv

LEMMA Stepwise == Inv /\ [Next]_vars => Inv'
<1> SUFFICES ASSUME Inv, [Next]_vars PROVE Inv'
  OBVIOUS
<1>1. ASSUME ~ crashed, NEW t \in Threads, apply_log(t) PROVE Inv'
  <2>1. ASSUME NEW level \in 1..Levels, NEW stamp \in Stamps, NEW moved \in BOOLEAN,
               Call(t, level, stamp, moved)
        PROVE  Inv'
    BY <2>1, CallStep
  <2>2. CASE Lock(t)
    BY <2>2, LockStep
  <2>3. CASE Apply(t)
    <3>1. todo[t] \in Seq(Sinks \cup {NoSink}) /\ todo[t] # <<>>
      BY <2>3 DEF Apply, Inv, TypeOK
    <3>2. Head(todo[t]) \in Sinks \cup {NoSink}
      BY <3>1, TailElements
    <3> QED BY <1>1, <2>3, <3>2, ApplyNullStep, ApplySinkStep
  <2>4. CASE Return(t)
    BY <2>4, ReturnStep
  <2>5. CASE StartFlush(t)
    BY <1>1, <2>5, StartFlushStep
  <2>6. CASE Flush(t)
    BY <2>6, FlushStep
  <2>7. CASE FinishFlush(t)
    BY <2>7, FinishFlushStep
  <2> QED BY <1>1, <2>1, <2>2, <2>3, <2>4, <2>5, <2>6, <2>7 DEF apply_log
<1>2. CASE Reconfigure
  BY <1>2, ReconfigureStep
<1>3. CASE UNCHANGED vars
  BY <1>3, StutterStep
<1> QED BY <1>1, <1>2, <1>3 DEF Next

LEMMA Invariance == Spec => []Inv
  BY Initially, Stepwise, PTL DEF Spec

\* Every variable of the dispatcher keeps its type: the vectors hold sinks and never a
\* null pointer, and the flush time is a time.
THEOREM TypeCorrect == Spec => []TypeOK
<1>1. Inv => TypeOK
  BY DEF Inv
<1> QED BY <1>1, Invariance, PTL

\* However threads add, remove and make global, in whatever order, the global sink is in
\* no branch and no sink is in a branch twice.
THEOREM SinksDistinctHolds == Spec => []SinksDistinct
<1>1. Inv => SinksDistinct
  BY DEF Inv
<1> QED BY <1>1, Invariance, PTL

\* However many threads log and reconfigure, a sink gets a log at most once.
THEOREM AtMostOnceHolds == Spec => []AtMostOnce
<1>1. Inv => AtMostOnce
  BY DEF Inv
<1> QED BY <1>1, Invariance, PTL

\* All sinks see the logs of all threads and of both overloads in one order.
THEOREM SameOrderHolds == Spec => []SameOrder
<1>1. Inv => SameOrder
  BY DEF Inv
<1> QED BY <1>1, Invariance, PTL

\* At the end of the loops of apply_log the log is in the global sink and in every sink of
\* its branch.
THEOREM FanOutCompleteHolds == Spec => []FanOutComplete
<1>1. Inv => FanOutComplete
  <2> SUFFICES ASSUME Inv, NEW t \in Threads, pc[t] = "apply", todo[t] = <<>>, ~ crashed,
                      NEW s \in ({global_sink} \cup Branch(entry[t])) \ {NoSink}
               PROVE  received[s] # <<>> /\ Last(received[s]) = entry[t]
    BY DEF FanOutComplete
  <2>1. Range(todo[t]) = {}
    BY DEF Range
  <2>2. s \in Sinks
    <3>1. entry[t].level \in 1..Levels /\ global_sink \in Sinks \cup {NoSink} /\ TypeOK
      BY DEF Inv, TypeOK, Entry
    <3>2. Branch(entry[t]) \subseteq Sinks
      BY <3>1, BranchOfSinks, RangeOfSeq DEF Branch
    <3> QED BY <3>1, <3>2
  <2> QED BY <2>1, <2>2 DEF Inv, FanOut, Sends
<1> QED BY <1>1, Invariance, PTL

\* The first call through a null pointer meets a global sink that is null, and a flush
\* starts only after a fan-out that met none.
LEMMA NullStep == Inv /\ NullOnlyGlobal /\ [Next]_vars => NullOnlyGlobal'
<1> SUFFICES ASSUME Inv, NullOnlyGlobal, [Next]_vars PROVE NullOnlyGlobal'
  OBVIOUS
<1> USE DEF NullOnlyGlobal
<1>1. ASSUME ~ crashed, NEW t \in Threads, apply_log(t) PROVE NullOnlyGlobal'
  <2>1. global_sink' = global_sink
    BY <1>1 DEF apply_log, Call, Lock, Apply, Return, StartFlush, Flush, FinishFlush,
                routeVars
  <2>2. crashed' => global_sink = NoSink
    <3>1. CASE Apply(t)
      <4>1. /\ pc[t] = "apply" /\ todo[t] # <<>> /\ crashed' = (Head(todo[t]) = NoSink)
            /\ todo[t] \in Seq(Sinks \cup {NoSink})
        BY <3>1 DEF Apply, Goes, Inv, TypeOK
      <4>2. Head(todo[t]) \in Sends(t)
        BY <4>1, TailElements DEF Inv, FanOut
      <4>3. NoSink \notin Branch(entry[t])
        <5>1. entry[t].level \in 1..Levels /\ entry[t] \in Entry
          BY DEF Inv, TypeOK, Entry
        <5>2. Range(branches[entry[t].level]) \subseteq Sinks
          BY <5>1, RangeOfSeq DEF Inv, TypeOK
        <5> QED BY <5>2, SinkAssumption DEF Branch
      <4> QED BY <4>1, <4>2, <4>3 DEF Sends
    <3>2. CASE ~ Apply(t)
      BY <1>1, <3>2 DEF apply_log, Call, Lock, Return, StartFlush, Flush, FinishFlush
    <3> QED BY <3>1, <3>2
  <2>3. ASSUME NEW u \in Threads, pc'[u] = "flush" PROVE global_sink # NoSink
    <3>1. CASE StartFlush(t) /\ u = t
      <4>1. pc[t] = "apply" /\ todo[t] = <<>>
        BY <3>1 DEF StartFlush, Goes
      <4>2. Range(todo[t]) = {}
        BY <4>1 DEF Range
      <4> QED BY <1>1, <4>1, <4>2 DEF Inv, FanOut, Sends
    <3>2. CASE ~ (StartFlush(t) /\ u = t)
      <4>1. pc[u] = "flush"
        BY <1>1, <2>3, <3>2 DEF apply_log, Call, Lock, Apply, Return, StartFlush, Flush,
                                FinishFlush, Goes, Inv, TypeOK
      <4> QED BY <4>1
    <3> QED BY <3>1, <3>2
  <2> QED BY <2>1, <2>2, <2>3
<1>2. CASE ~ crashed /\ Reconfigure
  <2>1. mutex = {} /\ UNCHANGED threadVars
    BY <1>2 DEF Reconfigure, set_options, set_global_sink, add_sink, take_out_sink,
                Reconfigures, MutexFree
  <2> QED BY <1>2, <2>1, NobodyHolds DEF threadVars
<1>3. CASE UNCHANGED vars
  BY <1>3 DEF vars, threadVars, routeVars
<1> QED BY <1>1, <1>2, <1>3 DEF Next

\* However many threads set the global sink, to null too, a log meets a null global sink
\* only if it is null during the whole fan-out, and a flush never does.
THEOREM NullOnlyGlobalHolds == Spec => []NullOnlyGlobal
<1>1. Init => NullOnlyGlobal
  BY DEF Init, NullOnlyGlobal
<1>2. NullOnlyGlobal /\ Inv /\ [Next]_vars => NullOnlyGlobal'
  BY NullStep
<1> QED BY <1>1, <1>2, Invariance, PTL DEF Spec

\* Between logs no sink keeps an unflushed log whose stamp has reached the flush time. This
\* theorem needs a flush_items that is not 0.
THEOREM FlushHorizonHolds == Spec => []FlushHorizon
<1>1. Inv => FlushHorizon
  BY FlushItemsAssumption DEF Inv, Horizon, TimeHorizon, ItemsNonZero
<1> QED BY <1>1, Invariance, PTL

-----------------------------------------------------------------------------
(* The refinement: with Sent for received, every step is one of LogRouter. *)

\* What Sent is in terms of the fan-out under way: all logs, but the one under way.
SentSplit ==
  /\ (\A u \in Threads : ~ InProgress(u)) => Sent = received
  /\ \A t \in Threads : InProgress(t) =>
       Sent = [s \in Sinks |-> IF s \in Sends(t) \ Range(todo[t])
                               THEN Front(received[s]) ELSE received[s]]

LEMMA SentSplits == Inv => SentSplit
<1> SUFFICES ASSUME Inv PROVE SentSplit
  OBVIOUS
<1>1. TypeOK
  BY DEF Inv
<1>2. ASSUME \A u \in Threads : ~ InProgress(u) PROVE Sent = received
  BY <1>1, <1>2 DEF Sent, TypeOK
<1>3. ASSUME NEW t \in Threads, InProgress(t), NEW s \in Sinks
      PROVE  Sent[s] = IF s \in Sends(t) \ Range(todo[t])
                       THEN Front(received[s]) ELSE received[s]
  <2>1. pc[t] = "apply"
    BY <1>3 DEF InProgress
  <2>2. \A u \in Threads : InProgress(u) => u = t
    BY <2>1, OneHolds DEF InProgress, Holding
  <2>3. Sent[s] = IF received[s] # <<>> /\ Last(received[s]) = entry[t]
                  THEN Front(received[s]) ELSE received[s]
    BY <1>3, <2>2 DEF Sent
  <2>4. CASE s \in Sends(t) \ Range(todo[t])
    <3>1. received[s] # <<>> /\ Last(received[s]) = entry[t]
      BY <2>1, <2>4 DEF Inv, FanOut
    <3> QED BY <2>3, <2>4, <3>1
  <2>5. CASE s \notin Sends(t) \ Range(todo[t])
    <3>1. entry[t] \notin Range(received[s])
      BY <2>1, <2>5 DEF Inv, FanOut
    <3>2. received[s] # <<>> => Last(received[s]) # entry[t]
      <4>1. received[s] \in Seq(Entry)
        BY <1>1 DEF TypeOK
      <4>2. received[s] # <<>> => Last(received[s]) \in Range(received[s])
        BY <4>1, FrontAndLast
      <4> QED BY <3>1, <4>2
    <3> QED BY <2>3, <2>5, <3>2
  <2> QED BY <2>4, <2>5
<1>4. ASSUME NEW t \in Threads, InProgress(t)
      PROVE  Sent = [s \in Sinks |-> IF s \in Sends(t) \ Range(todo[t])
                                     THEN Front(received[s]) ELSE received[s]]
  <2>1. Sent = [s \in Sinks |-> Sent[s]]
    BY DEF Sent
  <2> QED BY <1>3, <1>4, <2>1
<1> QED BY <1>2, <1>4 DEF SentSplit

LEMMA SentSplitsNext == Inv' => SentSplit'
  BY SentSplits, PTL

LEMMA InitImplements == Init => Router!Init
<1> SUFFICES ASSUME Init PROVE Router!Init
  OBVIOUS
<1>1. Range(<<>>) = {}
  BY DEF Range
<1>2. Sent = received
  BY DEF Init, Sent
<1> QED BY <1>1, <1>2 DEF Init, Router!Init

\* Sent stays as it is when the fan-out under way does.
LEMMA SentUnchanged ==
  ASSUME received' = received,
         \A u \in Threads : InProgress(u)' <=> InProgress(u),
         \A u \in Threads : InProgress(u) => entry'[u] = entry[u]
  PROVE  Sent' = Sent
<1>1. \A s \in Sinks :
        (\E u \in Threads : InProgress(u)' /\ received'[s] # <<>> /\ Last(received'[s]) = entry'[u])
          <=> \E u \in Threads : InProgress(u) /\ received[s] # <<>> /\ Last(received[s]) = entry[u]
  OBVIOUS
<1> QED BY <1>1 DEF Sent

\* A reconfiguration of the dispatcher is the same reconfiguration of the router.
LEMMA ReconfigureImplements ==
  ASSUME Inv, Reconfigure
  PROVE  [Router!Next]_(Router!vars)
<1> DEFINE branchSets == [b \in 1..Levels |-> Range(branches[b])]
<1>1. UNCHANGED <<threadVars, sinkVars>>
  BY DEF Reconfigure, set_options, set_global_sink, add_sink, take_out_sink, Reconfigures
<1>2. Sent' = Sent
  BY <1>1, SentUnchanged DEF threadVars, sinkVars, InProgress
<1>3. \A b \in 1..Levels : branches[b] \in Seq(Sinks)
  BY DEF Inv, TypeOK
<1>4. branches \in [1..Levels -> Seq(Sinks)]
  BY DEF Inv, TypeOK
<1>5. ASSUME NEW o \in Range(Options), set_options(o)
      PROVE  UNCHANGED Router!vars
  BY <1>2, <1>5 DEF set_options, routeVars, Router!vars
<1>6. ASSUME NEW sink \in Sinks \cup {NoSink}, set_global_sink(sink)
      PROVE  Router!SetGlobal(sink)
  <2>1. global_sink' = sink /\ branches' = [b \in 1..Levels |-> remove_sink(branches[b], sink)]
    BY <1>6 DEF set_global_sink
  <2>2. \A b \in 1..Levels : Range(branches'[b]) = Range(branches[b]) \ {sink}
    BY <1>3, <2>1, RemoveSink
  <2>3. \A b \in 1..Levels : branchSets[b] = Range(branches[b])
    OBVIOUS
  <2>4. [b \in 1..Levels |-> Range(branches'[b])] = [b \in 1..Levels |-> branchSets[b] \ {sink}]
    BY <2>2, <2>3
  <2> QED BY <1>2, <2>1, <2>4 DEF Router!SetGlobal
<1>7. ASSUME NEW c \in 1..Levels, NEW sink \in Sinks, add_sink(c, sink)
      PROVE  Router!Add(c, sink)
  <2> DEFINE rest == remove_sink(branches[c], sink)
  <2>1. /\ sink # global_sink /\ global_sink' = global_sink
        /\ branches' = [branches EXCEPT ![c] = Append(rest, sink)]
    BY <1>7 DEF add_sink
  <2>2. rest \in Seq(Sinks) /\ Range(rest) = Range(branches[c]) \ {sink}
    BY <1>3, RemoveSink
  <2> HIDE DEF rest
  <2>3. Range(Append(rest, sink)) = Range(branches[c]) \cup {sink}
    BY <2>2, AppendElement
  <2>4. \A b \in 1..Levels : branches'[b] = IF b = c THEN Append(rest, sink) ELSE branches[b]
    BY <1>4, <2>1
  <2>5. [b \in 1..Levels |-> Range(branches'[b])]
          = [branchSets EXCEPT ![c] = branchSets[c] \cup {sink}]
    BY <2>3, <2>4
  <2> QED BY <1>2, <2>1, <2>5 DEF Router!Add
<1>8. ASSUME NEW c \in 1..Levels, NEW sink \in Sinks, take_out_sink(c, sink)
      PROVE  Router!Remove(c, sink)
  <2> DEFINE rest == remove_sink(branches[c], sink)
  <2>1. global_sink' = global_sink /\ branches' = [branches EXCEPT ![c] = rest]
    BY <1>8 DEF take_out_sink
  <2>2. Range(rest) = Range(branches[c]) \ {sink}
    BY <1>3, RemoveSink
  <2> HIDE DEF rest
  <2>3. \A b \in 1..Levels : branches'[b] = IF b = c THEN rest ELSE branches[b]
    BY <1>4, <2>1
  <2>4. [b \in 1..Levels |-> Range(branches'[b])]
          = [branchSets EXCEPT ![c] = branchSets[c] \ {sink}]
    BY <2>2, <2>3
  <2> QED BY <1>2, <2>1, <2>4 DEF Router!Remove
<1> QED BY <1>5, <1>6, <1>7, <1>8 DEF Reconfigure, Router!Next

\* Steps that call no sink with a log are no steps of the router.
LEMMA QuietImplements ==
  ASSUME Inv, ~ crashed, NEW t \in Threads,
         \/ \E level \in 1..Levels, stamp \in Stamps, moved \in BOOLEAN :
              Call(t, level, stamp, moved)
         \/ Return(t) \/ StartFlush(t) \/ Flush(t) \/ FinishFlush(t)
  PROVE  UNCHANGED Router!vars
<1>1. UNCHANGED <<global_sink, branches, received, crashed>>
  BY DEF Call, Return, StartFlush, Flush, FinishFlush, routeVars, sinkVars
<1>2. /\ \E p \in {"idle", "lock", "flush"} : pc' = [pc EXCEPT ![t] = p]
      /\ pc[t] # "apply" \/ todo[t] = <<>>
      /\ \A u \in Threads \ {t} : todo'[u] = todo[u] /\ entry'[u] = entry[u]
  BY DEF Call, Return, StartFlush, Flush, FinishFlush, Goes, Inv, TypeOK
<1>3. ~ InProgress(t) /\ ~ InProgress(t)'
  <2>1. ~ InProgress(t)
    BY <1>2 DEF InProgress
  <2>2. pc'[t] # "apply"
    BY <1>2 DEF Inv, TypeOK
  <2> QED BY <2>1, <2>2 DEF InProgress
<1>4. \A u \in Threads \ {t} : InProgress(u)' <=> InProgress(u)
  <2>1. \A u \in Threads \ {t} : pc'[u] = pc[u]
    BY <1>2 DEF Inv, TypeOK
  <2> QED BY <1>1, <1>2, <2>1 DEF InProgress
<1>5. Sent' = Sent
  BY <1>1, <1>2, <1>3, <1>4, SentUnchanged
<1> QED BY <1>1, <1>5 DEF Router!vars

\* When the mutex is taken the log is with nobody.
LEMMA LockImplements ==
  ASSUME Inv, NEW t \in Threads, Lock(t)
  PROVE  UNCHANGED Router!vars
<1>1. /\ UNCHANGED <<global_sink, branches, received, crashed, entry>> /\ mutex = {}
      /\ pc' = [pc EXCEPT ![t] = "apply"] /\ todo' = [todo EXCEPT ![t] = Targets(entry[t])]
  BY DEF Lock, Goes, MutexFree, routeVars, sinkVars
<1>2. Inv'
  BY LockStep
<1>3. Sent = received
  BY <1>1, NobodyHolds, SentSplits DEF SentSplit, InProgress
<1>4. Sent' = received
  <2>1. pc'[t] = "apply" /\ todo'[t] = Targets(entry[t])
    BY <1>1 DEF Inv, TypeOK
  <2>2. Targets(entry[t]) # <<>> /\ Range(Targets(entry[t])) = Sends(t)
    BY TargetsOfLog DEF Inv, TypeOK, Sends
  <2>3. InProgress(t)'
    BY <2>1, <2>2 DEF InProgress
  <2>4. Sends(t)' = Range(todo'[t])
    BY <1>1, <2>1, <2>2 DEF Sends, Branch
  <2>5. Sent' = [s \in Sinks |-> IF s \in Sends(t)' \ Range(todo'[t])
                                 THEN Front(received'[s]) ELSE received'[s]]
    BY <1>2, <2>3, SentSplitsNext DEF SentSplit
  <2>6. Sent' = [s \in Sinks |-> received[s]]
    BY <1>1, <2>4, <2>5
  <2> QED BY <2>6 DEF Inv, TypeOK
<1> QED BY <1>1, <1>3, <1>4 DEF Router!vars

\* What Sent is before a call: the sinks called so far have the log on top.
LEMMA SentBeforeApply ==
  ASSUME Inv, NEW t \in Threads, Apply(t)
  PROVE  Sent = [s \in Sinks |-> IF s \in Sends(t) \ Range(todo[t])
                                 THEN Front(received[s]) ELSE received[s]]
<1>1. InProgress(t)
  BY DEF Apply, Goes, InProgress
<1> QED BY <1>1, SentSplits DEF SentSplit

\* A call of a sink that is not the last one, or that ends the program, is no step of the
\* router.
LEMMA ApplyImplements ==
  ASSUME Inv, Inv', NEW t \in Threads, Apply(t), todo'[t] # <<>> \/ crashed'
  PROVE  UNCHANGED Router!vars
<1>1. /\ pc[t] = "apply" /\ pc' = [pc EXCEPT ![t] = "apply"] /\ todo[t] # <<>>
      /\ todo' = [todo EXCEPT ![t] = Tail(todo[t])]
      /\ received' = IF Head(todo[t]) = NoSink THEN received
                     ELSE [received EXCEPT ![Head(todo[t])]
                             = Append(received[Head(todo[t])], entry[t])]
      /\ UNCHANGED <<entry, global_sink, branches>>
  BY DEF Apply, Goes, routeVars
<1>2. /\ todo[t] \in Seq(Sinks \cup {NoSink}) /\ entry[t] \in Entry
      /\ \A s \in Sinks : received[s] \in Seq(Entry)
  BY DEF Inv, TypeOK
<1>3. todo'[t] = Tail(todo[t]) /\ pc'[t] = "apply"
  BY <1>1 DEF Inv, TypeOK
<1>4. /\ Head(todo[t]) \in Sinks \cup {NoSink}
      /\ Range(todo[t]) = {Head(todo[t])} \cup Range(todo'[t])
  BY <1>1, <1>2, <1>3, TailElements
<1>5. Head(todo[t]) \notin Range(todo'[t])
  BY <1>1, <1>2, <1>3, TailElements DEF Inv, FanOut
<1>6. Sends(t)' = Sends(t)
  BY <1>1 DEF Sends, Branch
<1>7. Sent' = [s \in Sinks |-> IF s \in Sends(t) \ Range(todo'[t])
                               THEN Front(received'[s]) ELSE received'[s]]
  <2>1. InProgress(t)'
    BY <1>3 DEF InProgress
  <2> QED BY <1>6, <2>1, SentSplitsNext DEF SentSplit
<1>8. ASSUME NEW s \in Sinks
      PROVE  (IF s \in Sends(t) \ Range(todo'[t]) THEN Front(received'[s]) ELSE received'[s])
               = IF s \in Sends(t) \ Range(todo[t]) THEN Front(received[s]) ELSE received[s]
  <2>1. CASE s # Head(todo[t])
    <3>1. received'[s] = received[s]
      BY <1>1, <2>1 DEF Inv, TypeOK
    <3>2. s \in Range(todo'[t]) <=> s \in Range(todo[t])
      BY <1>4, <2>1
    <3> QED BY <3>1, <3>2
  <2>2. CASE s = Head(todo[t])
    <3>1. received'[s] = Append(received[s], entry[t])
      BY <1>1, <2>2, SinkAssumption DEF Inv, TypeOK
    <3>2. s \in Sends(t) /\ s \in Range(todo[t])
      BY <1>1, <1>4, <2>2 DEF Inv, FanOut
    <3>3. s \notin Range(todo'[t])
      BY <1>5, <2>2
    <3>4. Front(received'[s]) = received[s]
      BY <1>2, <3>1, FrontOfAppend
    <3> QED BY <3>2, <3>3, <3>4
  <2> QED BY <2>1, <2>2
<1>9. Sent' = Sent
  BY <1>7, <1>8, SentBeforeApply
<1> QED BY <1>1, <1>9 DEF Router!vars

\* The last call of a fan-out is the step of the router: with it all sinks of the log have
\* it, and no other sink has.
LEMMA LastApplyImplements ==
  ASSUME Inv, Inv', NEW t \in Threads, Apply(t), todo'[t] = <<>>, ~ crashed'
  PROVE  Router!Next
<1> DEFINE e == entry[t]
           Logs == {r \in Entry : r.n # 0 /\ r.stamp \in Stamps}
<1>1. /\ pc[t] = "apply" /\ pc' = [pc EXCEPT ![t] = "apply"] /\ todo[t] # <<>>
      /\ todo' = [todo EXCEPT ![t] = Tail(todo[t])] /\ Head(todo[t]) # NoSink
      /\ received' = [received EXCEPT ![Head(todo[t])] = Append(received[Head(todo[t])], e)]
      /\ UNCHANGED <<entry, global_sink, branches>>
  BY DEF Apply, Goes, routeVars
<1>2. /\ todo[t] \in Seq(Sinks \cup {NoSink}) /\ e \in Entry
      /\ \A s \in Sinks : received[s] \in Seq(Entry)
  BY DEF Inv, TypeOK
<1>3. todo'[t] = Tail(todo[t]) /\ pc'[t] = "apply" /\ Range(todo'[t]) = {}
  BY <1>1 DEF Inv, TypeOK, Range
<1>4. Head(todo[t]) \in Sinks /\ Range(todo[t]) = {Head(todo[t])}
  <2>1. /\ Head(todo[t]) \in Sinks \cup {NoSink}
        /\ Range(todo[t]) = {Head(todo[t])} \cup Range(Tail(todo[t]))
    BY <1>1, <1>2, TailElements
  <2> QED BY <1>1, <1>3, <2>1
<1>5. PICK h \in Sinks : h = Head(todo[t])
  BY <1>4
<1>6. h \in Sends(t) /\ \A s \in Sinks : received'[s] = IF s = h THEN Append(received[h], e)
                                                                 ELSE received[s]
  BY <1>1, <1>4, <1>5 DEF Inv, TypeOK, FanOut
<1>7. global_sink \in Sinks
  <2>1. NoSink \notin Sends(t)'
    BY <1>3 DEF Inv, FanOut
  <2>2. global_sink # NoSink
    BY <1>1, <2>1 DEF Sends
  <2> QED BY <2>2 DEF Inv, TypeOK
<1>8. Sent = [s \in Sinks |-> IF s \in Sends(t) \ {h} THEN Front(received[s]) ELSE received[s]]
  BY <1>4, <1>5, SentBeforeApply
<1>9. Sent' = [s \in Sinks |-> received'[s]]
  <2>1. \A u \in Threads : pc'[u] = "apply" => u = t
    BY <1>1, <1>3, OneHolds DEF Holding, Inv, TypeOK
  <2>2. \A u \in Threads : ~ InProgress(u)'
    BY <2>1 DEF InProgress
  <2>3. Sent' = received'
    BY <2>2, SentSplitsNext DEF SentSplit
  <2> QED BY <2>3 DEF Inv, TypeOK
<1> HIDE DEF e
<1>10. ASSUME NEW s \in Sinks
       PROVE  /\ e \notin Range(Sent[s])
              /\ received'[s] = IF s \in Sends(t) THEN Append(Sent[s], e) ELSE Sent[s]
  <2>1. CASE s \in Sends(t) \ {h}
    <3>1. received[s] # <<>> /\ Last(received[s]) = e
      BY <1>1, <1>4, <1>5, <2>1 DEF Inv, FanOut, e
    <3>2. IsInjective(received[s])
      BY DEF Inv, AtMostOnce
    <3>3. Append(Front(received[s]), e) = received[s] /\ e \notin Range(Front(received[s]))
      BY <1>2, <3>1, <3>2, FrontAndLast
    <3>4. Sent[s] = Front(received[s]) /\ received'[s] = received[s]
      BY <1>6, <1>8, <2>1
    <3> QED BY <2>1, <3>3, <3>4
  <2>2. CASE s \notin Sends(t) \ {h}
    <3>1. Sent[s] = received[s]
      BY <1>8, <2>2
    <3>2. e \notin Range(received[s])
      BY <1>1, <1>4, <1>5, <2>2 DEF Inv, FanOut, e
    <3>3. s \in Sends(t) <=> s = h
      BY <1>6, <2>2
    <3> QED BY <1>6, <3>1, <3>2, <3>3
  <2> QED BY <2>1, <2>2
<1>11. \A s \in Sinks : Sent[s] \in Seq(Entry)
  <2>1. \A s \in Sends(t) \ {h} : s \in Sinks => received[s] # <<>>
    BY <1>1, <1>4, <1>5 DEF Inv, FanOut
  <2> QED BY <1>2, <1>8, <2>1, FrontAndLast
<1>12. e \in Logs
  BY <1>1, <1>2 DEF Inv, Numbered, e
<1>13. Router!Targets(e) = Sends(t)
  <2>1. e.level \in 1..Levels
    BY <1>2 DEF Entry
  <2> QED BY <2>1 DEF Router!Targets, Sends, Branch, e
<1>14. Sent' = [s \in Sinks |-> IF s \in Router!Targets(e) THEN Append(Sent[s], e) ELSE Sent[s]]
  BY <1>9, <1>10, <1>13
<1>15. Sent' # Sent
  <2>1. Sent'[global_sink] = Append(Sent[global_sink], e)
    BY <1>7, <1>13, <1>14 DEF Sends
  <2>2. Len(Append(Sent[global_sink], e)) = Len(Sent[global_sink]) + 1
    BY <1>2, <1>7, <1>11, AppendElement
  <2>3. Len(Sent[global_sink]) \in Nat
    BY <1>7, <1>11, LenProperties
  <2> QED BY <2>1, <2>2, <2>3
<1>16. Router!Route(e)
  <2>1. global_sink # NoSink
    BY <1>7, SinkAssumption
  <2>2. e \notin UNION {Router!Range(Sent[s]) : s \in Sinks}
    BY <1>10 DEF Range, Router!Range
  <2>3. UNCHANGED <<global_sink, [b \in 1..Levels |-> Range(branches[b])]>>
    BY <1>1
  <2> QED BY <1>14, <2>1, <2>2, <2>3 DEF Router!Route
<1> QED BY <1>12, <1>15, <1>16 DEF Router!Next

LEMMA StepImplements == Inv /\ Inv' /\ [Next]_vars => [Router!Next]_(Router!vars)
<1> SUFFICES ASSUME Inv, Inv', [Next]_vars PROVE [Router!Next]_(Router!vars)
  OBVIOUS
<1>1. ASSUME ~ crashed, NEW t \in Threads, apply_log(t) PROVE [Router!Next]_(Router!vars)
  <2>1. CASE Lock(t)
    BY <2>1, LockImplements
  <2>2. CASE Apply(t)
    BY <2>2, ApplyImplements, LastApplyImplements
  <2>3. CASE ~ Lock(t) /\ ~ Apply(t)
    BY <1>1, <2>3, QuietImplements DEF apply_log
  <2> QED BY <2>1, <2>2, <2>3
<1>2. CASE Reconfigure
  BY <1>2, ReconfigureImplements
<1>3. CASE UNCHANGED vars
  <2>1. Sent' = Sent
    BY <1>3, SentUnchanged DEF vars, threadVars, sinkVars, InProgress
  <2> QED BY <1>3, <2>1 DEF vars, routeVars, Router!vars
<1> QED BY <1>1, <1>2, <1>3 DEF Next

\* The many calls of a fan-out look like one: the dispatcher implements LogRouter.
THEOREM Refinement == Spec => ImplementsRouter
<1>1. QED
  BY Invariance, InitImplements, StepImplements, PTL
  DEF Spec, ImplementsRouter, Router!Spec
=============================================================================
