---------------------------- MODULE HeatonProofs ----------------------------
(***************************************************************************)
(* Proofs about Heaton: its types, and what holds while and after one of   *)
(* many threads initializes it.  The invariant follows the thread that got *)
(* past the beginning of initialize, and says what it has done so far.     *)
(***************************************************************************)
EXTENDS Heaton, SequenceTheorems, TLAPS

Indexes == 0..MaxSinks \cup 1..Len(Libraries)

\* An index is one of the loop of its stage.
StepOK ==
  \A t \in Threads :
    /\ step[t][1] \in {"upstream", "enable"} => step[t][2] \in 1..Len(Libraries)
    /\ step[t][1] \in {"directory", "sink"} => step[t][2] \in 1..Len(option.sinks)

InProgress(t) == step[t][1] \notin {"idle", "returned"}

\* At most one thread is or was the one that initializes.
OneInitializer ==
  /\ ~initialized => \A t \in Threads : step[t][1] = "idle"
  /\ \A t \in Threads : result[t] # "none" => step[t][1] = "returned"
  /\ \A t, r \in Threads :
       (InProgress(t) \/ result[t] = "ok") /\ (InProgress(r) \/ result[r] = "ok") => t = r

\* Every library is initialized at most once, and is attached by then.
StartedOnce ==
  \A l \in LogSinks : started[l] \in {0, 1} /\ (started[l] = 1 => table[l][l] # NoName)

LibraryDone(l) == table[l][l] = l /\ l \in dispatch /\ started[l] = 1

FirstDone(n) ==
  \A j \in 1..n : Libraries[j] \in option.upstream => LibraryDone(Libraries[j])

\* The libraries that a thread has gone past are ready.
LibrariesSoFar ==
  \A t \in Threads :
    /\ step[t][1] \in {"upstream", "enable"} => FirstDone(step[t][2] - 1)
    /\ step[t][1] = "enable" => Library(t) \in dispatch
    /\ step[t][1] \in {"directory", "sink"} \/ result[t] = "ok" => FirstDone(Len(Libraries))

Added(n) ==
  /\ global_sink = IF n = 0 THEN NoSink ELSE 1
  /\ branches = [b \in 1..Levels |-> IF b = 1 THEN 2..n ELSE {}]

\* The dispatcher has the sinks that a thread has gone past, and no others.
SinksSoFar ==
  /\ ~initialized => Added(0)
  /\ \A t \in Threads :
       /\ step[t][1] \in {"upstream", "enable", "directory"} => Added(0)
       /\ step[t][1] = "sink" => Added(step[t][2] - 1)
       /\ result[t] = "ok" => Added(Len(option.sinks))

\* A fatal log that Send is still in the middle of has its dispatcher.
SendingReady == \A e \in sending : e.library \in dispatch

DirectoriesChecked(n) ==
  \A j \in 1..n : NeedsDirectory(option.sinks[j]) => Opens(option.sinks[j])

NoneDenied == \A d \in Dirs : dirs[d] # "denied"

\* Without a fault the directories that a thread has gone past are there, and no
\* directory refuses an open.
DirectoriesSoFar ==
  faults = 0 =>
    /\ NoneDenied
    /\ \A t \in Threads :
         /\ step[t][1] = "directory" => DirectoriesChecked(step[t][2] - 1)
         /\ step[t][1] = "sink" => DirectoriesChecked(Len(option.sinks))

\* The logs that are anywhere.
Logs == sending \cup UNION {Range(received[s]) : s \in Sinks}

\* Logs of one number are copies of one log, and a second copy is one of a fatal log.
LogsOK ==
  /\ \A x \in Logs : x.n <= sent
  /\ \A x, y \in Logs : x.n = y.n => x.level = y.level /\ x.library = y.library /\ x.trace = y.trace
  /\ \A x \in Logs : x.copy = 2 => Fatal(x) /\ x.library \in Doubling
  /\ \A s \in Sinks : \A i, j \in DOMAIN received[s] : i # j => received[s][i] # received[s][j]

\* The global sink has every log that did not crash the process.
GlobalHasAll ==
  process # "crashed" =>
    \A n \in 1..sent : global_sink # NoSink /\ \E e \in Range(received[global_sink]) : e.n = n

Inv ==
  /\ TypeOK /\ StepOK
  /\ OneInitializer
  /\ StartedOnce /\ DispatcherFirst /\ LibrariesSoFar
  /\ SinksSoFar
  /\ SendingReady /\ CrashOnlyUnready
  /\ DirectoriesSoFar /\ DirectoriesFirst
  /\ LogsOK /\ GlobalHasAll

-----------------------------------------------------------------------------
LEMMA ConstantFacts ==
  /\ Len(Libraries) \in Nat /\ Len(Libraries) > 0
  /\ \A i \in 1..Len(Libraries) : Libraries[i] \in Range(Libraries)
  /\ \A l \in Range(Libraries) : \E i \in 1..Len(Libraries) : l = Libraries[i]
  /\ MaxSinks \in Nat /\ Levels \in Nat /\ Levels > 0 /\ MaxLogs \in Nat /\ MaxFaults \in Nat
BY HeatonAssumption DEF Range

LEMMA OptionFacts ==
  ASSUME NEW o \in Options
  PROVE  /\ Len(o.sinks) \in Nat /\ Len(o.sinks) > 0 /\ Len(o.sinks) <= MaxSinks
         /\ DOMAIN o.sinks = 1..Len(o.sinks)
         /\ \A i \in 1..Len(o.sinks) :
              /\ o.sinks[i].target \in {"null", "console", "file"}
              /\ o.sinks[i].dir \in Dirs \cup {NoDir}
         /\ o.upstream \subseteq Range(Libraries)
<1> DEFINE E == [level : 0..Levels, target : {"null", "console", "file"},
                 dir : Dirs \cup {NoDir}]
<1>1. o \in OptionType /\ Len(o.sinks) \in 1..MaxSinks BY HeatonAssumption
<1>2. o.upstream \subseteq Range(Libraries) /\ o.sinks \in Seq(E) BY <1>1 DEF OptionType
<1>3. Len(o.sinks) \in Nat /\ Len(o.sinks) > 0 /\ Len(o.sinks) <= MaxSinks
  BY <1>1, ConstantFacts
<1>4. \A x \in E : x.target \in {"null", "console", "file"} /\ x.dir \in Dirs \cup {NoDir}
  OBVIOUS
<1> HIDE DEF E
<1>5. DOMAIN o.sinks = 1..Len(o.sinks) /\ \A i \in 1..Len(o.sinks) : o.sinks[i] \in E
  BY <1>2
<1>6. QED BY <1>2, <1>3, <1>4, <1>5

LEMMA InitTypes == Init => TypeOK /\ StepOK
<1> SUFFICES ASSUME Init PROVE TypeOK /\ StepOK OBVIOUS
<1>1. /\ step \in [Threads -> {"idle"} \X {0}]
      /\ 0 \in Indexes /\ 0 \in Nat
  BY ConstantFacts DEF Init, Indexes
<1>2. /\ global_sink \in Sinks \cup {NoSink}
      /\ branches \in [1..Levels -> SUBSET Sinks]
      /\ received \in [Sinks -> Seq(Log)]
  BY DEF Init, Router!Init
<1>3. /\ faults \in 0..MaxFaults /\ sent \in 0..MaxLogs
      /\ dirs \in [Dirs -> {"missing", "there", "denied", "barred"}]
  BY ConstantFacts DEF Init
<1>4. TypeOK BY <1>1, <1>2, <1>3 DEF Init, TypeOK, Indexes
<1>5. StepOK BY DEF Init, StepOK
<1>6. QED BY <1>4, <1>5

\* How initialize moves on.
LEMMA PassesEffect ==
  ASSUME TypeOK, StepOK, NEW t \in Threads, NEW stage \in {"upstream", "directory", "sink"},
         Passes(t, stage)
  PROVE  LET i == step[t][2]
             n == IF stage = "upstream" THEN Len(Libraries) ELSE Len(option.sinks)
         IN  /\ i \in 1..n /\ n \in Nat
             /\ UNCHANGED <<initialized, option>>
             /\ \E a : /\ step' = [step EXCEPT ![t] = a]
                       /\ result' = IF a[1] = "returned" THEN [result EXCEPT ![t] = "ok"]
                                                         ELSE result
                       /\ \/ i < n /\ a = <<stage, i + 1>>
                          \/ i = n /\ stage = "upstream" /\ a = <<"directory", 1>>
                          \/ i = n /\ stage = "directory" /\ a = <<"sink", 1>>
                          \/ i = n /\ stage = "sink" /\ a = <<"returned", 0>>
<1> DEFINE i == step[t][2]
           n == IF stage = "upstream" THEN Len(Libraries) ELSE Len(option.sinks)
           a == Advance(stage, i)
<1>1. i \in 1..n /\ n \in Nat /\ step[t][1] = stage
  BY ConstantFacts, OptionFacts DEF Passes, StepOK, TypeOK
<1>2. step' = [step EXCEPT ![t] = a] BY DEF Passes
<1>3. step'[t] = a BY <1>2 DEF TypeOK
<1>4. /\ UNCHANGED <<initialized, option>>
      /\ result' = IF a[1] = "returned" THEN [result EXCEPT ![t] = "ok"] ELSE result
  BY <1>3 DEF Passes
<1>5. \/ i < n /\ a = <<stage, i + 1>>
      \/ i = n /\ stage = "upstream" /\ a = <<"directory", 1>>
      \/ i = n /\ stage = "directory" /\ a = <<"sink", 1>>
      \/ i = n /\ stage = "sink" /\ a = <<"returned", 0>>
  BY <1>1 DEF Advance
<1>6. QED BY <1>1, <1>2, <1>4, <1>5

-----------------------------------------------------------------------------
(* Types.                                                                  *)

Stages == {"idle", "upstream", "enable", "directory", "sink", "returned"}

Results == {"none", "ok", "already_exists", "no_directory", "no_file"}

LEMMA StepMoves ==
  ASSUME TypeOK, StepOK, option' = option,
         NEW t \in Threads, NEW stage \in Stages, NEW i \in Nat,
         step' = [step EXCEPT ![t] = <<stage, i>>],
         stage \in {"upstream", "enable"} => i \in 1..Len(Libraries),
         stage \in {"directory", "sink"} => i \in 1..Len(option.sinks),
         stage \in {"idle", "returned"} => i = 0
  PROVE  step' \in [Threads -> Stages \X Indexes] /\ StepOK'
<1>1. i \in Indexes BY ConstantFacts, OptionFacts DEF Indexes, TypeOK, Stages
<1>2. step \in [Threads -> Stages \X Indexes] BY DEF TypeOK, Stages, Indexes
<1>3. step' \in [Threads -> Stages \X Indexes] BY <1>1, <1>2
<1>4. ASSUME NEW r \in Threads
      PROVE  step'[r] = IF r = t THEN <<stage, i>> ELSE step[r]
  BY <1>2
<1>5. StepOK' BY <1>4 DEF StepOK
<1>6. QED BY <1>3, <1>5

LEMMA PassesTypes ==
  ASSUME TypeOK, StepOK, NEW t \in Threads, NEW stage \in {"upstream", "directory", "sink"},
         Passes(t, stage)
  PROVE  /\ step' \in [Threads -> Stages \X Indexes] /\ StepOK'
         /\ result' \in [Threads -> {"none", "ok", "already_exists", "no_directory", "no_file"}]
<1> DEFINE i == step[t][2]
           n == IF stage = "upstream" THEN Len(Libraries) ELSE Len(option.sinks)
<1>1. i \in 1..n /\ n \in Nat /\ option' = option BY PassesEffect
<1>2. PICK a : /\ step' = [step EXCEPT ![t] = a]
               /\ result' = IF a[1] = "returned" THEN [result EXCEPT ![t] = "ok"]
                                                 ELSE result
               /\ \/ i < n /\ a = <<stage, i + 1>>
                  \/ i = n /\ stage = "upstream" /\ a = <<"directory", 1>>
                  \/ i = n /\ stage = "directory" /\ a = <<"sink", 1>>
                  \/ i = n /\ stage = "sink" /\ a = <<"returned", 0>>
  BY PassesEffect
<1>3. result' \in [Threads -> {"none", "ok", "already_exists", "no_directory", "no_file"}]
  BY <1>2 DEF TypeOK
<1>4. Len(option.sinks) \in Nat /\ Len(option.sinks) > 0 BY OptionFacts DEF TypeOK
<1>5. CASE i < n /\ a = <<stage, i + 1>>
  <2>1. i + 1 \in Nat /\ i + 1 \in 1..n BY <1>1, <1>5
  <2>2. QED BY <2>1, <1>1, <1>2, <1>3, <1>5, StepMoves DEF Stages
<1>6. CASE i = n /\ stage = "upstream" /\ a = <<"directory", 1>>
  <2>1. step' = [step EXCEPT ![t] = <<"directory", 1>>] /\ 1 \in Nat BY <1>2, <1>6
  <2>2. 1 \in 1..Len(option.sinks) BY <1>4
  <2>3. QED BY <2>1, <2>2, <1>1, <1>3, StepMoves DEF Stages
<1>7. CASE i = n /\ stage = "directory" /\ a = <<"sink", 1>>
  <2>1. step' = [step EXCEPT ![t] = <<"sink", 1>>] /\ 1 \in Nat BY <1>2, <1>7
  <2>2. 1 \in 1..Len(option.sinks) BY <1>4
  <2>3. QED BY <2>1, <2>2, <1>1, <1>3, StepMoves DEF Stages
<1>8. CASE i = n /\ stage = "sink" /\ a = <<"returned", 0>>
  BY <1>1, <1>2, <1>3, <1>8, StepMoves DEF Stages
<1>9. QED BY <1>2, <1>5, <1>6, <1>7, <1>8

LEMMA FailsTypes ==
  ASSUME TypeOK, StepOK, NEW t \in Threads, NEW stage,
         NEW status \in {"already_exists", "no_directory", "no_file"}, Fails(t, stage, status)
  PROVE  TypeOK' /\ StepOK'
<1>1. step' \in [Threads -> Stages \X Indexes] /\ StepOK'
  BY StepMoves DEF Fails, Stages
<1>2. result' \in [Threads -> {"none", "ok", "already_exists", "no_directory", "no_file"}]
  BY DEF Fails, TypeOK
<1>3. UNCHANGED <<initialized, option, upVars, routeVars, logVars, dirVars, process>>
  BY DEF Fails
<1>4. QED
  BY <1>1, <1>2, <1>3 DEF TypeOK, Stages, Indexes, upVars, routeVars, logVars, dirVars

\* EnableLibrary goes on with the next library, or to the directories.
LEMMA EnableEffect ==
  ASSUME TypeOK, StepOK, NEW t \in Threads, EnableLibrary(t)
  PROVE  LET i == step[t][2]
         IN  /\ i \in 1..Len(Libraries) /\ Library(t) \in Range(Libraries)
             /\ \/ i < Len(Libraries) /\ step' = [step EXCEPT ![t] = <<"upstream", i + 1>>]
                \/ i = Len(Libraries) /\ step' = [step EXCEPT ![t] = <<"directory", 1>>]
             /\ table[Library(t)][Library(t)] = NoName
             /\ table' = [table EXCEPT ![Library(t)][Library(t)] = Library(t)]
             /\ upstreams' = upstreams \cup {Library(t)}
             /\ started' = [started EXCEPT ![Library(t)] = @ + 1]
             /\ UNCHANGED <<initialized, option, result, dispatch>>
<1>1. step[t][2] \in 1..Len(Libraries) BY DEF EnableLibrary, StepOK
<1>2. Library(t) \in Range(Libraries) BY <1>1, ConstantFacts DEF Library
<1>3. \/ step[t][2] < Len(Libraries) /\ step' = [step EXCEPT ![t] = <<"upstream", step[t][2] + 1>>]
      \/ step[t][2] = Len(Libraries) /\ step' = [step EXCEPT ![t] = <<"directory", 1>>]
  <2>1. step' = [step EXCEPT ![t] = Advance("upstream", step[t][2])] BY DEF EnableLibrary
  <2>2. step[t][2] < Len(Libraries) \/ step[t][2] = Len(Libraries) BY <1>1, ConstantFacts
  <2>3. QED BY <2>1, <2>2 DEF Advance
<1>4. QED BY <1>1, <1>2, <1>3 DEF EnableLibrary, enable_upstream, Table!Attach, Table!Taken

LEMMA SetUpEffect ==
  ASSUME TypeOK, StepOK, NEW t \in Threads, SetUpUpstreamer(t)
  PROVE  LET i == step[t][2]
         IN  /\ i \in 1..Len(Libraries) /\ Library(t) \in Range(Libraries)
             /\ Library(t) \in option.upstream
             /\ step[t] = <<"upstream", i>>
             /\ step' = [step EXCEPT ![t] = <<"enable", i>>]
             /\ dispatch' = dispatch \cup {Library(t)}
<1>1. step[t][2] \in 1..Len(Libraries) BY DEF SetUpUpstreamer, StepOK
<1>2. Library(t) \in Range(Libraries) BY <1>1, ConstantFacts DEF Library
<1>3. step[t] \in Stages \X Indexes BY DEF TypeOK, Stages, Indexes
<1>4. step[t] = <<"upstream", step[t][2]>> BY <1>3 DEF SetUpUpstreamer
<1>5. QED BY <1>1, <1>2, <1>4 DEF SetUpUpstreamer, make_builtin_upstreamer

LEMMA RouteTypes ==
  ASSUME TypeOK, NEW e \in Log, Router!Route(e)
  PROVE  received' \in [Sinks -> Seq(Log)] /\ UNCHANGED <<global_sink, branches>>
<1>1. received \in [Sinks -> Seq(Log)] BY DEF TypeOK
<1>2. \A s \in Sinks : Append(received[s], e) \in Seq(Log) BY <1>1
<1>3. received' \in [Sinks -> Seq(Log)] BY <1>1, <1>2 DEF Router!Route
<1>4. QED BY <1>3 DEF Router!Route

InitTypesKept ==
  /\ initialized' \in BOOLEAN /\ option' \in Options
  /\ step' \in [Threads -> Stages \X Indexes]
  /\ result' \in [Threads -> {"none", "ok", "already_exists", "no_directory", "no_file"}]
  /\ StepOK'

LEMMA InitVarsKept ==
  ASSUME TypeOK, StepOK, UNCHANGED initVars
  PROVE  InitTypesKept
BY DEF TypeOK, StepOK, initVars, InitTypesKept, Stages, Indexes

LEMMA InitializeTypes ==
  ASSUME TypeOK, StepOK, NEW t \in Threads, initialize(t)
  PROVE  TypeOK' /\ StepOK'
<1>1. CASE Begin(t)
  <2>1. InitTypesKept
    <3>1. 1 \in 1..Len(Libraries) /\ option' = option BY <1>1, ConstantFacts DEF Begin
    <3>2. step' = [step EXCEPT ![t] = <<"upstream", 1>>] BY <1>1 DEF Begin
    <3>3. step' \in [Threads -> Stages \X Indexes] /\ StepOK'
      BY <3>1, <3>2, StepMoves DEF Stages
    <3>4. QED BY <1>1, <3>3 DEF Begin, TypeOK, InitTypesKept
  <2>2. UNCHANGED <<upVars, routeVars, logVars, dirVars, process>> BY <1>1 DEF Begin
  <2>3. QED
    BY <2>1, <2>2 DEF TypeOK, InitTypesKept, Stages, Indexes, upVars, routeVars, logVars, dirVars
<1>2. CASE BeginAgain(t) BY <1>2, FailsTypes DEF BeginAgain
<1>3. CASE SkipUpstream(t)
  <2>1. InitTypesKept
    BY <1>3, PassesTypes, PassesEffect DEF SkipUpstream, Passes, TypeOK, InitTypesKept
  <2>2. UNCHANGED <<upVars, routeVars, logVars, dirVars, process>> BY <1>3 DEF SkipUpstream
  <2>3. QED
    BY <2>1, <2>2 DEF TypeOK, InitTypesKept, Stages, Indexes, upVars, routeVars, logVars, dirVars
<1>4. CASE SetUpUpstreamer(t)
  <2>1. InitTypesKept
    <3>1. step' \in [Threads -> Stages \X Indexes] /\ StepOK'
      <4>1. step[t][2] \in 1..Len(Libraries) BY <1>4, SetUpEffect
      <4>2. step[t][2] \in Nat BY <4>1, ConstantFacts
      <4>3. option' = option /\ step' = [step EXCEPT ![t] = <<"enable", step[t][2]>>]
        BY <1>4 DEF SetUpUpstreamer
      <4>4. QED BY <4>1, <4>2, <4>3, StepMoves DEF Stages
    <3>2. QED BY <1>4, <3>1 DEF SetUpUpstreamer, TypeOK, InitTypesKept
  <2>2. dispatch' \subseteq LogSinks BY <1>4, SetUpEffect DEF TypeOK, LogSinks
  <2>3. UNCHANGED <<upstreams, table, started, routeVars, logVars, dirVars, process>>
    BY <1>4 DEF SetUpUpstreamer
  <2>4. QED
    BY <2>1, <2>2, <2>3 DEF TypeOK, InitTypesKept, Stages, Indexes, routeVars, logVars, dirVars
<1>5. CASE EnableLibrary(t)
  <2>1. InitTypesKept
    <3>1. /\ step[t][2] \in 1..Len(Libraries) /\ step[t][2] + 1 \in Nat
          /\ UNCHANGED <<initialized, option, result>>
      BY <1>5, EnableEffect
    <3>2. CASE /\ step[t][2] < Len(Libraries)
               /\ step' = [step EXCEPT ![t] = <<"upstream", step[t][2] + 1>>]
      <4>1. step[t][2] + 1 \in 1..Len(Libraries) BY <3>1, <3>2, ConstantFacts
      <4>2. step' \in [Threads -> Stages \X Indexes] /\ StepOK'
        BY <3>1, <3>2, <4>1, StepMoves DEF Stages
      <4>3. QED BY <3>1, <4>2 DEF TypeOK, InitTypesKept
    <3>3. CASE step' = [step EXCEPT ![t] = <<"directory", 1>>]
      <4>1. 1 \in 1..Len(option.sinks) BY OptionFacts DEF TypeOK
      <4>2. step' \in [Threads -> Stages \X Indexes] /\ StepOK'
        BY <3>1, <3>3, <4>1, StepMoves DEF Stages
      <4>3. QED BY <3>1, <4>2 DEF TypeOK, InitTypesKept
    <3>4. QED BY <1>5, <3>2, <3>3, EnableEffect
  <2>2. /\ table' \in [Upstreams -> [UpSinks -> Names \cup {NoName}]]
        /\ upstreams' \subseteq Upstreams
    <3>1. /\ table \in [Upstreams -> [UpSinks -> Names \cup {NoName}]]
          /\ upstreams \subseteq Upstreams
      BY DEF TypeOK
    <3>2. Library(t) \in Upstreams /\ Library(t) \in UpSinks /\ Library(t) \in Names
      BY <1>5, EnableEffect DEF Upstreams, Names, UpSinks, LogSinks
    <3>3. /\ table' = [table EXCEPT ![Library(t)][Library(t)] = Library(t)]
          /\ upstreams' = upstreams \cup {Library(t)}
      BY <1>5, EnableEffect
    <3>4. QED BY <3>1, <3>2, <3>3
  <2>3. started' \in [Range(Libraries) -> Nat] BY <1>5, EnableEffect DEF TypeOK
  <2>4. UNCHANGED <<dispatch, routeVars, logVars, dirVars, process>> BY <1>5 DEF EnableLibrary
  <2>5. QED
    BY <2>1, <2>2, <2>3, <2>4
    DEF TypeOK, InitTypesKept, Stages, Indexes, routeVars, logVars, dirVars
<1>6. CASE LibraryTaken(t) BY <1>6, FailsTypes DEF LibraryTaken
<1>7. CASE initialize_directory(t)
  <2>1. InitTypesKept
    BY <1>7, PassesTypes, PassesEffect DEF initialize_directory, Passes, TypeOK, InitTypesKept
  <2>2. dirs' \in [Dirs -> {"missing", "there", "denied", "barred"}]
    BY <1>7 DEF initialize_directory, TypeOK
  <2>3. UNCHANGED <<upVars, routeVars, logVars, faults, process>>
    BY <1>7 DEF initialize_directory
  <2>4. QED
    BY <2>1, <2>2, <2>3 DEF TypeOK, InitTypesKept, Stages, Indexes, upVars, routeVars, logVars
<1>8. CASE DirectoryFails(t) BY <1>8, FailsTypes DEF DirectoryFails
<1>9. CASE AddSink(t)
  <2>1. InitTypesKept BY <1>9, PassesTypes, PassesEffect DEF AddSink, Passes, TypeOK, InitTypesKept
  <2>2. step[t][2] \in Sinks
    <3>1. step[t][2] \in 1..Len(option.sinks) BY <1>9 DEF AddSink, Passes, StepOK
    <3>2. option \in Options BY DEF TypeOK
    <3>3. QED BY <3>1, <3>2, OptionFacts, ConstantFacts DEF Sinks
  <2>3. /\ global_sink' \in Sinks \cup {NoSink}
        /\ branches' \in [1..Levels -> SUBSET Sinks]
        /\ received' \in [Sinks -> Seq(Log)]
    <3>1. CASE Router!SetGlobal(step[t][2]) BY <3>1, <2>2 DEF Router!SetGlobal, TypeOK
    <3>2. CASE Router!Add(1, step[t][2]) BY <3>2, <2>2 DEF Router!Add, TypeOK
    <3>3. QED BY <1>9, <3>1, <3>2 DEF AddSink
  <2>4. UNCHANGED <<upVars, logVars, dirVars, process>> BY <1>9 DEF AddSink
  <2>5. QED
    BY <2>1, <2>3, <2>4 DEF TypeOK, InitTypesKept, Stages, Indexes, upVars, logVars, dirVars
<1>10. CASE TargetFails(t) BY <1>10, FailsTypes DEF TargetFails
<1>11. CASE CreateSinkAborts(t)
  <2>1. InitTypesKept BY <1>11, InitVarsKept DEF CreateSinkAborts
  <2>2. process' = "aborted" /\ UNCHANGED <<upVars, routeVars, logVars, dirVars>>
    BY <1>11 DEF CreateSinkAborts
  <2>3. QED
    BY <2>1, <2>2 DEF TypeOK, InitTypesKept, Stages, Indexes, upVars, routeVars, logVars, dirVars
<1>12. QED
  BY <1>1, <1>2, <1>3, <1>4, <1>5, <1>6, <1>7, <1>8, <1>9, <1>10, <1>11 DEF initialize

\* What a log does, dispatched or not.
LEMMA DispatchesEffect ==
  ASSUME TypeOK, NEW e \in Log, Dispatches(e)
  PROVE  \/ /\ global_sink = NoSink \/ e.library \notin dispatch
            /\ process' = "crashed" /\ UNCHANGED <<routeVars, sending>>
         \/ /\ global_sink # NoSink /\ e.library \in dispatch
            /\ Router!Route(e)
            /\ process' \in {process, "ended"}
            /\ \/ sending' = sending \ {e}
               \/ /\ e.copy = 1 /\ Doubles(e)
                  /\ sending' = (sending \ {e}) \cup {[e EXCEPT !.copy = 2]}
BY DEF Dispatches

LEMMA SecondCopy ==
  ASSUME NEW e \in Log, e.library \in Doubling
  PROVE  LET f == [e EXCEPT !.copy = 2]
         IN  /\ f \in Log /\ f.copy = 2 /\ f.library \in Doubling
             /\ f.n = e.n /\ f.level = e.level /\ f.trace = e.trace /\ f.library = e.library
BY DEF Log

LEMMA DispatchesTypes ==
  ASSUME TypeOK, NEW e \in Log, Dispatches(e)
  PROVE  /\ received' \in [Sinks -> Seq(Log)] /\ UNCHANGED <<global_sink, branches>>
         /\ process' \in {"runs", "aborted", "crashed", "ended"}
         /\ sending' \subseteq {x \in Log : x.copy = 2 /\ x.library \in Doubling}
<1>1. CASE process' = "crashed" /\ UNCHANGED <<routeVars, sending>>
  BY <1>1 DEF TypeOK, routeVars
<1>2. CASE /\ Router!Route(e)
           /\ process' \in {process, "ended"}
           /\ \/ sending' = sending \ {e}
              \/ Doubles(e) /\ sending' = (sending \ {e}) \cup {[e EXCEPT !.copy = 2]}
  <2>1. process' \in {"runs", "aborted", "crashed", "ended"} BY <1>2 DEF TypeOK
  <2>2. sending' \subseteq {x \in Log : x.copy = 2 /\ x.library \in Doubling}
    <3>1. sending \subseteq {x \in Log : x.copy = 2 /\ x.library \in Doubling} BY DEF TypeOK
    <3>2. CASE sending' = sending \ {e} BY <3>1, <3>2
    <3>3. CASE Doubles(e) /\ sending' = (sending \ {e}) \cup {[e EXCEPT !.copy = 2]}
      <4>1. e.library \in Doubling BY <3>3 DEF Doubles
      <4>2. LET f == [e EXCEPT !.copy = 2]
            IN  f \in {x \in Log : x.copy = 2 /\ x.library \in Doubling}
        BY <4>1, SecondCopy
      <4>3. QED BY <3>1, <3>3, <4>2
    <3>4. QED BY <1>2, <3>2, <3>3
  <2>3. QED BY <2>1, <2>2, <1>2, RouteTypes
<1>3. QED BY <1>1, <1>2, DispatchesEffect

LEMMA NextTypes == TypeOK /\ StepOK /\ [Next]_vars => TypeOK' /\ StepOK'
<1> SUFFICES ASSUME TypeOK, StepOK, [Next]_vars PROVE TypeOK' /\ StepOK' OBVIOUS
<1>1. ASSUME NEW t \in Threads, initialize(t) PROVE TypeOK' /\ StepOK'
  BY <1>1, InitializeTypes
<1>2. ASSUME NEW up \in Upstreams, NEW sink \in UpSinks, NEW name \in Names,
             UserEnables(up, sink, name)
      PROVE  TypeOK' /\ StepOK'
  <2>1. InitTypesKept BY <1>2, InitVarsKept DEF UserEnables
  <2>2. /\ table' \in [Upstreams -> [UpSinks -> Names \cup {NoName}]]
        /\ upstreams' \subseteq Upstreams
    <3>1. /\ table \in [Upstreams -> [UpSinks -> Names \cup {NoName}]]
          /\ upstreams \subseteq Upstreams
      BY DEF TypeOK
    <3>2. table' = [table EXCEPT ![up][sink] = name] /\ upstreams' = upstreams \cup {up}
      BY <1>2 DEF UserEnables, enable_upstream, Table!Attach
    <3>3. QED BY <3>1, <3>2
  <2>3. dispatch' \subseteq LogSinks
    BY <1>2 DEF UserEnables, make_builtin_upstreamer, TypeOK
  <2>4. UNCHANGED <<started, routeVars, logVars, dirVars, process>> BY <1>2 DEF UserEnables
  <2>5. QED
    BY <2>1, <2>2, <2>3, <2>4
    DEF TypeOK, InitTypesKept, Stages, Indexes, routeVars, logVars, dirVars
<1>3. ASSUME NEW up \in Users, UserAborts(up) PROVE TypeOK' /\ StepOK'
  <2>1. InitTypesKept BY <1>3, InitVarsKept DEF UserAborts
  <2>2. process' = "aborted" /\ UNCHANGED <<upVars, routeVars, logVars, dirVars>>
    BY <1>3 DEF UserAborts
  <2>3. QED
    BY <2>1, <2>2 DEF TypeOK, InitTypesKept, Stages, Indexes, upVars, routeVars, logVars, dirVars
<1>4. ASSUME NEW e \in Log, Send(e) \/ SendAgain(e) PROVE TypeOK' /\ StepOK'
  <2>1. InitTypesKept BY <1>4, InitVarsKept DEF Send, SendAgain
  <2>2. Dispatches(e) /\ UNCHANGED <<upVars, dirVars>> BY <1>4 DEF Send, SendAgain
  <2>3. sent' \in 0..MaxLogs
    <3>1. e.n \in 1..MaxLogs BY DEF Log
    <3>2. sent' = sent \/ sent' = e.n BY <1>4 DEF Send, SendAgain
    <3>3. QED BY <3>1, <3>2, ConstantFacts DEF TypeOK
  <2>4. QED
    BY <2>1, <2>2, <2>3, DispatchesTypes
    DEF TypeOK, InitTypesKept, Stages, Indexes, upVars, dirVars
<1>5. CASE Fault
  <2>1. InitTypesKept BY <1>5, InitVarsKept DEF Fault
  <2>2. faults' \in 0..MaxFaults BY <1>5, ConstantFacts DEF Fault, TypeOK
  <2>3. dirs' \in [Dirs -> {"missing", "there", "denied", "barred"}] BY <1>5 DEF Fault, TypeOK
  <2>4. UNCHANGED <<upVars, routeVars, logVars, process>> BY <1>5 DEF Fault
  <2>5. QED
    BY <2>1, <2>2, <2>3, <2>4
    DEF TypeOK, InitTypesKept, Stages, Indexes, upVars, routeVars, logVars
<1>6. CASE UNCHANGED vars
  <2>1. InitTypesKept BY <1>6, InitVarsKept DEF vars
  <2>2. UNCHANGED <<upVars, routeVars, logVars, dirVars, process>> BY <1>6 DEF vars
  <2>3. QED
    BY <2>1, <2>2 DEF TypeOK, InitTypesKept, Stages, Indexes, upVars, routeVars, logVars, dirVars
<1>7. ASSUME NEW up \in Unnamed, NEW sink \in UpSinks, UserDisables(up, sink)
      PROVE  TypeOK' /\ StepOK'
  <2>1. InitTypesKept BY <1>7, InitVarsKept DEF UserDisables
  <2>2. table' = [table EXCEPT ![up][sink] = NoName] BY <1>7 DEF UserDisables, Table!Detach
  <2>3. table' \in [Upstreams -> [UpSinks -> Names \cup {NoName}]]
    BY <2>2, HeatonAssumption DEF TypeOK, Upstreams
  <2>4. UNCHANGED <<upstreams, dispatch, started, routeVars, logVars, dirVars, process>>
    BY <1>7 DEF UserDisables
  <2>5. QED
    BY <2>1, <2>3, <2>4
    DEF TypeOK, InitTypesKept, Stages, Indexes, routeVars, logVars, dirVars
<1>8. QED BY <1>1, <1>2, <1>3, <1>4, <1>5, <1>6, <1>7 DEF Next

-----------------------------------------------------------------------------
(* One thread initializes.                                                 *)

\* What the step of a thread in initialize does to its place and result.
LEMMA StepOfOne ==
  ASSUME TypeOK, StepOK, NEW t \in Threads, initialize(t)
  PROVE  /\ Runs
         /\ \A r \in Threads : r # t => step'[r] = step[r] /\ result'[r] = result[r]
         /\ option' = option
         /\ \/ /\ step[t][1] = "idle" /\ ~initialized /\ initialized'
               /\ InProgress(t)' /\ result'[t] = result[t]
            \/ /\ step'[t][1] = "returned" /\ initialized' = initialized
               /\ result'[t] \notin {"none", "ok"}
               /\ InProgress(t) \/ (step[t][1] = "idle" /\ initialized)
            \/ /\ InProgress(t) /\ initialized' = initialized
               /\ \/ InProgress(t)' /\ result'[t] = result[t]
                  \/ step'[t][1] = "returned" /\ result'[t] = "ok"
<1>0. step \in [Threads -> Stages \X Indexes] /\ result \in [Threads -> Results]
  BY DEF TypeOK, Stages, Indexes, Results
<1>1. CASE Begin(t) BY <1>0, <1>1 DEF Begin, InProgress, Runs
<1>2. ASSUME NEW stage \in {"idle", "enable", "directory", "sink"}, NEW status,
             Fails(t, stage, status), status \notin {"none", "ok"},
             stage = "idle" => initialized
      PROVE  /\ Runs
             /\ \A r \in Threads : r # t => step'[r] = step[r] /\ result'[r] = result[r]
             /\ option' = option
             /\ step'[t][1] = "returned" /\ initialized' = initialized
             /\ result'[t] \notin {"none", "ok"}
             /\ InProgress(t) \/ (step[t][1] = "idle" /\ initialized)
  BY <1>0, <1>2 DEF Fails, InProgress
<1>3. ASSUME NEW stage \in {"upstream", "directory", "sink"}, Passes(t, stage)
      PROVE  /\ Runs
             /\ \A r \in Threads : r # t => step'[r] = step[r] /\ result'[r] = result[r]
             /\ option' = option
             /\ InProgress(t) /\ initialized' = initialized
             /\ \/ InProgress(t)' /\ result'[t] = result[t]
                \/ step'[t][1] = "returned" /\ result'[t] = "ok"
  <2>1. PICK a : /\ step' = [step EXCEPT ![t] = a]
                 /\ result' = IF a[1] = "returned" THEN [result EXCEPT ![t] = "ok"]
                                                   ELSE result
                 /\ \/ a = <<stage, step[t][2] + 1>>
                    \/ a = <<"directory", 1>>
                    \/ a = <<"sink", 1>>
                    \/ a = <<"returned", 0>>
    BY <1>3, PassesEffect
  <2>2. step'[t] = a /\ a[1] \in {"upstream", "directory", "sink", "returned"} BY <1>0, <2>1
  <2>3. Runs /\ step[t][1] = stage /\ UNCHANGED <<initialized, option>> BY <1>3 DEF Passes
  <2>4. QED BY <1>0, <2>1, <2>2, <2>3 DEF InProgress
<1>4. CASE SetUpUpstreamer(t) BY <1>0, <1>4 DEF SetUpUpstreamer, InProgress
<1>5. CASE EnableLibrary(t)
  <2>1. \/ step' = [step EXCEPT ![t] = <<"upstream", step[t][2] + 1>>]
        \/ step' = [step EXCEPT ![t] = <<"directory", 1>>]
    BY <1>5, EnableEffect
  <2>2. Runs /\ step[t][1] = "enable" /\ UNCHANGED <<initialized, option, result>>
    BY <1>5 DEF EnableLibrary
  <2>3. QED BY <1>0, <2>1, <2>2 DEF InProgress
<1>6. CASE CreateSinkAborts(t) BY <1>0, <1>6 DEF CreateSinkAborts, InProgress, initVars
<1>7. QED
  BY <1>1, <1>2, <1>3, <1>4, <1>5, <1>6
  DEF initialize, BeginAgain, SkipUpstream, LibraryTaken, initialize_directory, DirectoryFails,
      AddSink, TargetFails

\* What others do leaves the place of every thread in initialize alone.
LEMMA OthersKeep ==
  ASSUME Next, \A t \in Threads : ~initialize(t)
  PROVE  Runs /\ UNCHANGED initVars
BY DEF Next, UserEnables, UserDisables, UserAborts, Send, SendAgain, Fault

LEMMA OneStep ==
  ASSUME TypeOK, StepOK, OneInitializer, [Next]_vars
  PROVE  OneInitializer'
<1>1. CASE UNCHANGED initVars BY <1>1 DEF OneInitializer, InProgress, initVars
<1>2. ASSUME NEW t \in Threads, initialize(t) PROVE OneInitializer'
  <2>1. ~initialized' => \A r \in Threads : step'[r][1] = "idle"
    BY <1>2, StepOfOne DEF OneInitializer, InProgress
  <2>2. \A r \in Threads : result'[r] # "none" => step'[r][1] = "returned"
    BY <1>2, StepOfOne DEF OneInitializer, InProgress
  <2>3. ASSUME NEW r \in Threads, NEW s \in Threads,
               InProgress(r)' \/ result'[r] = "ok", InProgress(s)' \/ result'[s] = "ok"
        PROVE  r = s
    <3>1. ASSUME NEW x \in Threads, x # t, InProgress(x)' \/ result'[x] = "ok"
          PROVE  InProgress(x) \/ result[x] = "ok"
      BY <1>2, <3>1, StepOfOne DEF InProgress
    <3>2. InProgress(t)' \/ result'[t] = "ok" =>
            InProgress(t) \/ (step[t][1] = "idle" /\ ~initialized)
      BY <1>2, StepOfOne DEF OneInitializer, InProgress
    <3>3. QED BY <2>3, <3>1, <3>2 DEF OneInitializer, InProgress
  <2>4. QED BY <2>1, <2>2, <2>3 DEF OneInitializer
<1>3. QED BY <1>1, <1>2, OthersKeep DEF vars

-----------------------------------------------------------------------------
(* Libraries.                                                              *)

LEMMA UpstreamSteps ==
  ASSUME [Next]_vars
  PROVE  \/ UNCHANGED upVars
         \/ \E t \in Threads : SetUpUpstreamer(t) \/ EnableLibrary(t)
         \/ \E up \in Upstreams, sink \in UpSinks, name \in Names : UserEnables(up, sink, name)
         \/ \E up \in Unnamed, sink \in UpSinks : UserDisables(up, sink)
<1>1. CASE UNCHANGED vars BY <1>1 DEF vars
<1>2. ASSUME NEW t \in Threads, initialize(t)
      PROVE  UNCHANGED upVars \/ SetUpUpstreamer(t) \/ EnableLibrary(t)
  BY <1>2
  DEF initialize, Begin, BeginAgain, SkipUpstream, LibraryTaken, initialize_directory,
      DirectoryFails, AddSink, TargetFails, CreateSinkAborts, Fails
<1>3. ASSUME NEW e \in Log, Send(e) \/ SendAgain(e) PROVE UNCHANGED upVars
  BY <1>3 DEF Send, SendAgain
<1>4. ASSUME NEW up, UserAborts(up) PROVE UNCHANGED upVars BY <1>4 DEF UserAborts
<1>5. Fault => UNCHANGED upVars BY DEF Fault
<1>6. QED BY <1>1, <1>2, <1>3, <1>4, <1>5 DEF Next

\* What is attached stays attached, and nothing is initialized twice.
LEMMA UpstreamsGrow ==
  ASSUME TypeOK, StepOK, StartedOnce, DispatcherFirst, LibrariesSoFar, [Next]_vars
  PROVE  /\ StartedOnce' /\ DispatcherFirst' /\ dispatch \subseteq dispatch'
         /\ \A l \in LogSinks : LibraryDone(l) => LibraryDone(l)'
<1>0. /\ table \in [Upstreams -> [UpSinks -> Names \cup {NoName}]]
      /\ started \in [LogSinks -> Nat]
  BY DEF TypeOK, LogSinks
<1>1. \A l \in LogSinks : l \in Upstreams /\ l \in UpSinks /\ l # NoName /\ l \in Range(Libraries)
  BY HeatonAssumption DEF LogSinks, Upstreams, UpSinks
<1>2. CASE UNCHANGED upVars
  BY <1>2 DEF upVars, StartedOnce, DispatcherFirst, Attached, LibraryDone
<1>3. ASSUME NEW t \in Threads, SetUpUpstreamer(t)
      PROVE  UNCHANGED <<table, started>> /\ dispatch \subseteq dispatch'
  BY <1>3 DEF SetUpUpstreamer, make_builtin_upstreamer
<1>4. CASE UNCHANGED <<table, started>> /\ dispatch \subseteq dispatch'
  BY <1>4 DEF StartedOnce, DispatcherFirst, Attached, LibraryDone
<1>5. ASSUME NEW t \in Threads, EnableLibrary(t)
      PROVE  /\ StartedOnce' /\ DispatcherFirst' /\ dispatch \subseteq dispatch'
             /\ \A l \in LogSinks : LibraryDone(l) => LibraryDone(l)'
  <2> DEFINE k == Library(t)
  <2>1. /\ k \in LogSinks /\ table[k][k] = NoName
        /\ table' = [table EXCEPT ![k][k] = k]
        /\ started' = [started EXCEPT ![k] = @ + 1]
        /\ dispatch' = dispatch
    BY <1>5, EnableEffect DEF LogSinks
  <2>2. k \in dispatch BY <1>5 DEF EnableLibrary, LibrariesSoFar
  <2> HIDE DEF k
  <2>3. \A l \in LogSinks : /\ table'[l][l] = IF l = k THEN k ELSE table[l][l]
                            /\ started'[l] = IF l = k THEN started[k] + 1 ELSE started[l]
    BY <1>0, <1>1, <2>1
  <2>4. started[k] = 0 BY <2>1 DEF StartedOnce
  <2>5. StartedOnce' BY <1>1, <2>1, <2>3, <2>4 DEF StartedOnce
  <2>6. DispatcherFirst' BY <1>1, <2>1, <2>2, <2>3 DEF DispatcherFirst, Attached
  <2>7. \A l \in LogSinks : LibraryDone(l) => LibraryDone(l)'
    BY <1>1, <2>1, <2>3 DEF LibraryDone
  <2>8. QED BY <2>1, <2>5, <2>6, <2>7
<1>6. ASSUME NEW up \in Upstreams, NEW sink \in UpSinks, NEW name \in Names,
             UserEnables(up, sink, name)
      PROVE  /\ StartedOnce' /\ DispatcherFirst' /\ dispatch \subseteq dispatch'
             /\ \A l \in LogSinks : LibraryDone(l) => LibraryDone(l)'
  <2>1. /\ table[up][sink] = NoName
        /\ table' = [table EXCEPT ![up][sink] = name]
        /\ started' = started
        /\ sink \in LogSinks => sink = up /\ sink \in dispatch'
        /\ dispatch \subseteq dispatch'
    BY <1>6 DEF UserEnables, enable_upstream, Table!Attach, Table!Taken, make_builtin_upstreamer
  <2>2. name # NoName BY HeatonAssumption DEF Names
  <2>3. \A l \in LogSinks :
          table'[l][l] = IF l = up /\ l = sink THEN name ELSE table[l][l]
    BY <1>0, <1>1, <2>1
  <2>4. StartedOnce' BY <1>1, <2>1, <2>2, <2>3 DEF StartedOnce
  <2>5. DispatcherFirst' BY <1>1, <2>1, <2>3 DEF DispatcherFirst, Attached
  <2>6. \A l \in LogSinks : LibraryDone(l) => LibraryDone(l)'
    BY <1>1, <2>1, <2>3 DEF LibraryDone
  <2>7. QED BY <2>1, <2>4, <2>5, <2>6
<1>7. ASSUME NEW up \in Unnamed, NEW sink \in UpSinks, UserDisables(up, sink)
      PROVE  /\ StartedOnce' /\ DispatcherFirst' /\ dispatch \subseteq dispatch'
             /\ \A l \in LogSinks : LibraryDone(l) => LibraryDone(l)'
  <2>1. UNCHANGED <<started, dispatch>> /\ table' = [table EXCEPT ![up][sink] = NoName]
    BY <1>7 DEF UserDisables, Table!Detach
  <2>2. \A l \in LogSinks : table'[l] = table[l]
    BY <1>0, <1>1, <2>1, HeatonAssumption DEF LogSinks
  <2>3. QED BY <2>1, <2>2 DEF StartedOnce, DispatcherFirst, Attached, LibraryDone
<1>8. QED BY <1>2, <1>3, <1>4, <1>5, <1>6, <1>7, UpstreamSteps

\* Libraries that are ready stay ready.
LEMMA FirstDoneKept ==
  ASSUME TypeOK, StepOK, StartedOnce, DispatcherFirst, LibrariesSoFar, [Next]_vars,
         NEW n, FirstDone(n)
  PROVE  option' = option /\ FirstDone(n)'
<1>1. option' = option BY StepOfOne, OthersKeep DEF vars, initVars
<1>2. option.upstream \subseteq LogSinks BY OptionFacts DEF TypeOK, LogSinks
<1>3. \A l \in LogSinks : LibraryDone(l) => LibraryDone(l)' BY UpstreamsGrow
<1>4. QED BY <1>1, <1>2, <1>3 DEF FirstDone

ThreadDone(t) ==
  /\ step[t][1] \in {"upstream", "enable"} => FirstDone(step[t][2] - 1)
  /\ step[t][1] = "enable" => Library(t) \in dispatch
  /\ step[t][1] \in {"directory", "sink"} \/ result[t] = "ok" => FirstDone(Len(Libraries))

\* The place of t before the step, and its library, are constants i and k in the proof.
LEMMA ThreadDoneStep ==
  ASSUME TypeOK, StepOK, OneInitializer, StartedOnce, DispatcherFirst, LibrariesSoFar,
         [Next]_vars, NEW t \in Threads, initialize(t)
  PROVE  ThreadDone(t)'
<1> SUFFICES ASSUME NEW i, i = step[t][2], NEW k, k = Library(t) PROVE ThreadDone(t)'
  OBVIOUS
<1>0. /\ step \in [Threads -> Stages \X Indexes] /\ result \in [Threads -> Results]
      /\ ThreadDone(t) /\ option' = option
      /\ result[t] # "none" => step[t][1] = "returned"
  BY StepOfOne DEF TypeOK, Stages, Indexes, Results, LibrariesSoFar, ThreadDone, OneInitializer
<1>1. \A n : FirstDone(n) => FirstDone(n)' BY FirstDoneKept
<1>2. \A n \in Nat : (n + 1) - 1 = n OBVIOUS
<1>3. CASE Begin(t)
  <2>1. step'[t] = <<"upstream", 1>> /\ result'[t] = result[t] BY <1>0, <1>3 DEF Begin
  <2>2. result[t] # "ok" BY <1>0, <1>3 DEF Begin
  <2>3. FirstDone(1 - 1)' BY DEF FirstDone
  <2>4. QED BY <2>1, <2>2, <2>3 DEF ThreadDone
<1>4. CASE step'[t][1] = "returned" /\ result'[t] # "ok" BY <1>4 DEF ThreadDone
<1>5. CASE SkipUpstream(t)
  <2>1. PICK a : /\ step' = [step EXCEPT ![t] = a]
                 /\ result' = IF a[1] = "returned" THEN [result EXCEPT ![t] = "ok"] ELSE result
                 /\ \/ a = <<"upstream", i + 1>>
                    \/ i = Len(Libraries) /\ a = <<"directory", 1>>
    BY <1>5, PassesEffect DEF SkipUpstream
  <2>2. step[t][1] = "upstream" /\ k \notin option.upstream BY <1>5 DEF SkipUpstream, Passes
  <2>3. i \in 1..Len(Libraries) /\ i \in Nat BY <2>2, ConstantFacts DEF StepOK
  <2>4. FirstDone(i)'
    BY <1>0, <1>1, <2>2, <2>3, ConstantFacts DEF ThreadDone, FirstDone, Library
  <2>5. step'[t] = a /\ result'[t] = result[t] /\ result[t] # "ok" BY <1>0, <2>1, <2>2
  <2>6. CASE a = <<"upstream", i + 1>>
    <3>1. step'[t][2] - 1 = i BY <1>2, <2>3, <2>5, <2>6
    <3>2. QED BY <2>4, <2>5, <2>6, <3>1 DEF ThreadDone
  <2>7. CASE i = Len(Libraries) /\ a = <<"directory", 1>>
    BY <2>4, <2>5, <2>7 DEF ThreadDone
  <2>8. QED BY <2>1, <2>6, <2>7
<1>6. CASE SetUpUpstreamer(t)
  <2>1. /\ step[t][1] = "upstream" /\ step'[t] = <<"enable", i>>
        /\ result' = result /\ k \in dispatch'
    BY <1>0, <1>6, SetUpEffect DEF SetUpUpstreamer
  <2>2. FirstDone(i - 1)' BY <1>0, <1>1, <2>1 DEF ThreadDone
  <2>3. Library(t)' = k BY <2>1 DEF Library
  <2>4. result[t] # "ok" BY <1>0, <2>1
  <2>5. QED BY <2>1, <2>2, <2>3, <2>4 DEF ThreadDone
<1>7. CASE EnableLibrary(t)
  <2>1. /\ step[t][1] = "enable" /\ result' = result
        /\ \/ step'[t] = <<"upstream", i + 1>>
           \/ i = Len(Libraries) /\ step'[t] = <<"directory", 1>>
    BY <1>0, <1>7, EnableEffect DEF EnableLibrary
  <2>2. i \in 1..Len(Libraries) /\ i \in Nat BY <2>1, ConstantFacts DEF StepOK
  <2>3. LibraryDone(k)'
    <3>1. /\ table \in [Upstreams -> [UpSinks -> Names \cup {NoName}]]
          /\ started \in [LogSinks -> Nat]
      BY DEF TypeOK, LogSinks
    <3>2. k \in Upstreams /\ k \in UpSinks /\ k \in LogSinks
      BY <1>7, EnableEffect DEF LogSinks, Upstreams, UpSinks
    <3>3. started[k] = 0 BY <3>2, <1>7, EnableEffect DEF StartedOnce
    <3>4. /\ table' = [table EXCEPT ![k][k] = k] /\ started' = [started EXCEPT ![k] = @ + 1]
          /\ dispatch' = dispatch /\ k \in dispatch
      BY <1>0, <1>7, <2>1, EnableEffect DEF ThreadDone
    <3>5. table'[k][k] = k /\ started'[k] = 1 BY <3>1, <3>2, <3>3, <3>4
    <3>6. QED BY <3>4, <3>5 DEF LibraryDone
  <2>4. FirstDone(i - 1)' BY <1>0, <1>1, <2>1 DEF ThreadDone
  <2>5. FirstDone(i)' BY <2>2, <2>3, <2>4, ConstantFacts DEF FirstDone, Library
  <2>6. result[t] # "ok" BY <1>0, <2>1
  <2>7. CASE step'[t] = <<"upstream", i + 1>>
    <3>1. step'[t][2] - 1 = i BY <1>2, <2>2, <2>7
    <3>2. QED BY <2>1, <2>5, <2>6, <2>7, <3>1 DEF ThreadDone
  <2>8. CASE i = Len(Libraries) /\ step'[t] = <<"directory", 1>>
    BY <2>1, <2>5, <2>6, <2>8 DEF ThreadDone
  <2>9. QED BY <2>1, <2>7, <2>8
<1>8. ASSUME NEW stage \in {"directory", "sink"}, Passes(t, stage) PROVE ThreadDone(t)'
  <2>1. FirstDone(Len(Libraries))' BY <1>0, <1>1, <1>8 DEF ThreadDone, Passes
  <2>2. step'[t][1] \in {"directory", "sink", "returned"}
    <3>1. PICK a : step' = [step EXCEPT ![t] = a] /\ a[1] \in {"directory", "sink", "returned"}
      BY <1>8, PassesEffect
    <3>2. QED BY <1>0, <3>1
  <2>3. QED BY <2>1, <2>2 DEF ThreadDone
<1>9. CASE CreateSinkAborts(t)
  <2>1. UNCHANGED <<step, result>> /\ step[t][1] = "sink" BY <1>9 DEF CreateSinkAborts, initVars
  <2>2. FirstDone(Len(Libraries))' BY <1>0, <1>1, <2>1 DEF ThreadDone
  <2>3. QED BY <2>1, <2>2 DEF ThreadDone
<1>10. ASSUME NEW stage, NEW status, status # "ok", Fails(t, stage, status) PROVE ThreadDone(t)'
  <2>1. step'[t][1] = "returned" /\ result'[t] # "ok" BY <1>0, <1>10 DEF Fails
  <2>2. QED BY <1>4, <2>1
<1>11. QED
  BY <1>3, <1>5, <1>6, <1>7, <1>8, <1>9, <1>10
  DEF initialize, BeginAgain, LibraryTaken, initialize_directory, DirectoryFails, AddSink,
      TargetFails

LEMMA LibrariesStep ==
  ASSUME TypeOK, StepOK, OneInitializer, StartedOnce, DispatcherFirst, LibrariesSoFar,
         [Next]_vars
  PROVE  LibrariesSoFar'
<1>1. \A n : FirstDone(n) => FirstDone(n)' BY FirstDoneKept
<1>2. dispatch \subseteq dispatch' BY UpstreamsGrow
<1>3. ASSUME NEW r \in Threads, step'[r] = step[r], result'[r] = result[r]
      PROVE  ThreadDone(r)'
  BY <1>1, <1>2, <1>3 DEF LibrariesSoFar, ThreadDone, Library
<1>4. ASSUME NEW r \in Threads PROVE ThreadDone(r)'
  <2>1. CASE initialize(r) BY <2>1, ThreadDoneStep
  <2>2. CASE \E t \in Threads : initialize(t) /\ t # r BY <1>3, <2>2, StepOfOne
  <2>3. CASE \A t \in Threads : ~initialize(t)
    BY <1>3, <2>3, OthersKeep DEF vars, initVars
  <2>4. QED BY <2>1, <2>2, <2>3
<1>5. QED BY <1>4 DEF LibrariesSoFar, ThreadDone

-----------------------------------------------------------------------------
(* Sinks.                                                                  *)

ThreadAdded(t) ==
  /\ step[t][1] \in {"upstream", "enable", "directory"} => Added(0)
  /\ step[t][1] = "sink" => Added(step[t][2] - 1)
  /\ result[t] = "ok" => Added(Len(option.sinks))

\* Only AddSink changes the sinks of the dispatcher.
LEMMA RouteSteps ==
  ASSUME TypeOK, [Next]_vars
  PROVE  UNCHANGED <<global_sink, branches>> \/ \E t \in Threads : AddSink(t)
<1>1. CASE UNCHANGED vars BY <1>1 DEF vars, routeVars
<1>2. ASSUME NEW t \in Threads, initialize(t)
      PROVE  UNCHANGED <<global_sink, branches>> \/ AddSink(t)
  BY <1>2
  DEF initialize, Begin, BeginAgain, SkipUpstream, SetUpUpstreamer, EnableLibrary, LibraryTaken,
      initialize_directory, DirectoryFails, TargetFails, CreateSinkAborts, Fails, routeVars
<1>3. ASSUME NEW e \in Log, Send(e) \/ SendAgain(e) PROVE UNCHANGED <<global_sink, branches>>
  BY <1>3, DispatchesTypes DEF Send, SendAgain
<1>4. ASSUME NEW up, UserAborts(up) PROVE UNCHANGED <<global_sink, branches>>
  BY <1>4 DEF UserAborts, routeVars
<1>5. ASSUME NEW up, NEW sink, NEW name, UserEnables(up, sink, name)
      PROVE  UNCHANGED <<global_sink, branches>>
  BY <1>5 DEF UserEnables, routeVars
<1>6. Fault => UNCHANGED <<global_sink, branches>> BY DEF Fault, routeVars
<1>7. ASSUME NEW up, NEW sink, UserDisables(up, sink) PROVE UNCHANGED <<global_sink, branches>>
  BY <1>7 DEF UserDisables, routeVars
<1>8. QED BY <1>1, <1>2, <1>3, <1>4, <1>5, <1>6, <1>7 DEF Next

LEMMA AddedKept ==
  ASSUME UNCHANGED <<global_sink, branches>>
  PROVE  \A n : Added(n) => Added(n)'
BY DEF Added

\* The steps of initialize before it creates sinks, and its failures.
LEMMA BeforeSinks ==
  ASSUME TypeOK, StepOK, OneInitializer, SinksSoFar, NEW t \in Threads, initialize(t),
         ~AddSink(t), UNCHANGED <<global_sink, branches>>
  PROVE  ThreadAdded(t)'
<1>0. /\ step \in [Threads -> Stages \X Indexes] /\ result \in [Threads -> Results]
      /\ ThreadAdded(t)
      /\ ~initialized => Added(0)
      /\ result[t] # "none" => step[t][1] = "returned"
  BY DEF TypeOK, Stages, Indexes, Results, SinksSoFar, ThreadAdded, OneInitializer
<1>1. Added(0) => Added(0)' BY AddedKept
<1>2. ASSUME Added(0)', \/ step'[t][1] \in {"upstream", "enable", "directory"}
                        \/ step'[t] = <<"sink", 1>>,
             result'[t] # "ok"
      PROVE  ThreadAdded(t)'
  <2>1. 1 - 1 = 0 OBVIOUS
  <2>2. QED BY <1>2, <2>1 DEF ThreadAdded
<1>3. CASE Begin(t)
  <2>1. Added(0) BY <1>0, <1>3 DEF Begin
  <2>2. Added(0)' BY <1>1, <2>1
  <2>3. step'[t][1] = "upstream" BY <1>0, <1>3 DEF Begin
  <2>4. result'[t] # "ok" BY <1>0, <1>3 DEF Begin
  <2>5. QED BY <1>2, <2>2, <2>3, <2>4
<1>4. CASE SetUpUpstreamer(t)
  <2>1. /\ step'[t][1] = "enable" /\ result' = result /\ step[t][1] = "upstream"
    BY <1>0, <1>4, SetUpEffect DEF SetUpUpstreamer
  <2>2. Added(0) BY <1>0, <2>1 DEF ThreadAdded
  <2>3. result'[t] # "ok" BY <1>0, <2>1
  <2>4. QED BY <1>1, <1>2, <2>1, <2>2, <2>3
<1>5. CASE EnableLibrary(t)
  <2>1. /\ step'[t][1] \in {"upstream", "directory"} /\ result' = result
        /\ step[t][1] = "enable"
    <3>1. \/ step' = [step EXCEPT ![t] = <<"upstream", step[t][2] + 1>>]
          \/ step' = [step EXCEPT ![t] = <<"directory", 1>>]
      BY <1>5, EnableEffect
    <3>2. step'[t][1] \in {"upstream", "directory"} BY <1>0, <3>1
    <3>3. QED BY <1>5, <3>2 DEF EnableLibrary
  <2>2. QED BY <1>0, <1>1, <1>2, <2>1 DEF ThreadAdded
<1>6. ASSUME NEW stage \in {"upstream", "directory"}, Passes(t, stage) PROVE ThreadAdded(t)'
  <2>1. PICK a : /\ step' = [step EXCEPT ![t] = a]
                 /\ result' = IF a[1] = "returned" THEN [result EXCEPT ![t] = "ok"] ELSE result
                 /\ \/ a = <<stage, step[t][2] + 1>>
                    \/ a = <<"directory", 1>>
                    \/ a = <<"sink", 1>>
    BY <1>6, PassesEffect
  <2>2. step[t][1] = stage BY <1>6 DEF Passes
  <2>3. /\ step'[t][1] \in {"upstream", "directory"} \/ step'[t] = <<"sink", 1>>
        /\ result'[t] = result[t]
    BY <1>0, <2>1
  <2>4. QED BY <1>0, <1>1, <1>2, <2>2, <2>3 DEF ThreadAdded
<1>7. CASE CreateSinkAborts(t)
  <2>1. UNCHANGED <<step, result>> /\ step[t][1] = "sink" BY <1>7 DEF CreateSinkAborts, initVars
  <2>2. Added(step[t][2] - 1)' BY <1>0, <2>1, AddedKept DEF ThreadAdded
  <2>3. QED BY <1>0, <2>1, <2>2 DEF ThreadAdded
<1>8. ASSUME NEW stage, NEW status, status # "ok", Fails(t, stage, status)
      PROVE  ThreadAdded(t)'
  <2>1. step'[t][1] = "returned" /\ result'[t] # "ok" BY <1>0, <1>8 DEF Fails
  <2>2. QED BY <2>1 DEF ThreadAdded
<1>9. QED
  BY <1>3, <1>4, <1>5, <1>6, <1>7, <1>8
  DEF initialize, BeginAgain, SkipUpstream, LibraryTaken, initialize_directory, DirectoryFails,
      TargetFails

\* AddSink adds the sink of its place.
LEMMA AddSinkStep ==
  ASSUME TypeOK, StepOK, OneInitializer, SinksSoFar, NEW t \in Threads, AddSink(t)
  PROVE  ThreadAdded(t)'
<1> SUFFICES ASSUME NEW i, i = step[t][2] PROVE ThreadAdded(t)' OBVIOUS
<1>0. /\ step \in [Threads -> Stages \X Indexes] /\ result \in [Threads -> Results]
      /\ ThreadAdded(t) /\ step[t][1] = "sink" /\ result[t] # "ok"
      /\ branches \in [1..Levels -> SUBSET Sinks]
  BY DEF TypeOK, Stages, Indexes, Results, SinksSoFar, ThreadAdded, OneInitializer, AddSink, Passes
<1>1. PICK a : /\ step' = [step EXCEPT ![t] = a]
               /\ result' = IF a[1] = "returned" THEN [result EXCEPT ![t] = "ok"] ELSE result
               /\ \/ a = <<"sink", i + 1>>
                  \/ i = Len(option.sinks) /\ a = <<"returned", 0>>
  BY PassesEffect DEF AddSink
<1>2. i \in 1..Len(option.sinks) /\ i \in Nat /\ i > 0 /\ option' = option
  BY <1>0, OptionFacts DEF StepOK, TypeOK, AddSink, Passes
<1>3. Added(i - 1) BY <1>0 DEF ThreadAdded
<1>4. Added(i)'
  <2>1. CASE i = 1
    <3>1. Router!SetGlobal(i) BY <2>1 DEF AddSink
    <3>2. global_sink' = 1 /\ branches' = [b \in 1..Levels |-> branches[b] \ {1}]
      BY <2>1, <3>1 DEF Router!SetGlobal
    <3>3. branches = [b \in 1..Levels |-> IF b = 1 THEN 2..0 ELSE {}] BY <1>3, <2>1 DEF Added
    <3>4. 2..0 = {} /\ 2..1 = {} OBVIOUS
    <3>5. \A b \in 1..Levels : branches[b] = {} BY <3>3, <3>4
    <3>6. branches' = [b \in 1..Levels |-> IF b = 1 THEN 2..1 ELSE {}] BY <3>2, <3>4, <3>5
    <3>7. QED BY <2>1, <3>2, <3>6 DEF Added
  <2>2. CASE i # 1
    <3>1. Router!Add(1, i) BY <2>2 DEF AddSink
    <3>2. branches' = [branches EXCEPT ![1] = @ \cup {i}] /\ global_sink' = global_sink
      BY <3>1 DEF Router!Add
    <3>3. 1 \in 1..Levels BY ConstantFacts
    <3>4. (2..(i - 1)) \cup {i} = 2..i BY <1>2, <2>2
    <3>5. /\ branches = [b \in 1..Levels |-> IF b = 1 THEN 2..(i - 1) ELSE {}]
          /\ global_sink = 1
      BY <1>2, <1>3, <2>2 DEF Added
    <3>6. branches' = [b \in 1..Levels |-> IF b = 1 THEN 2..i ELSE {}]
      BY <3>2, <3>3, <3>4, <3>5
    <3>7. global_sink' = 1 /\ i # 0 BY <1>2, <3>2, <3>5
    <3>8. QED BY <3>6, <3>7 DEF Added
  <2>3. QED BY <2>1, <2>2
<1>5. CASE a = <<"sink", i + 1>>
  <2>1. step'[t] = <<"sink", i + 1>> /\ result'[t] = result[t] BY <1>0, <1>1, <1>5
  <2>2. step'[t][2] - 1 = i BY <1>2, <2>1
  <2>3. QED BY <1>0, <1>4, <2>1, <2>2 DEF ThreadAdded
<1>6. CASE i = Len(option.sinks) /\ a = <<"returned", 0>>
  <2>1. step'[t] = <<"returned", 0>> BY <1>0, <1>1, <1>6
  <2>2. QED BY <1>2, <1>4, <1>6, <2>1 DEF ThreadAdded
<1>7. QED BY <1>1, <1>5, <1>6

LEMMA SinksStep ==
  ASSUME TypeOK, StepOK, OneInitializer, SinksSoFar, [Next]_vars
  PROVE  SinksSoFar'
<1>0. option' = option /\ (~initialized' => ~initialized)
  BY StepOfOne, OthersKeep DEF vars, initVars
<1>1. CASE UNCHANGED <<global_sink, branches>> /\ \A t \in Threads : ~AddSink(t)
  <2>1. ~initialized' => Added(0)' BY <1>0, <1>1, AddedKept DEF SinksSoFar
  <2>2. ASSUME NEW r \in Threads, step'[r] = step[r], result'[r] = result[r]
        PROVE  ThreadAdded(r)'
    BY <1>0, <1>1, <2>2, AddedKept DEF SinksSoFar, ThreadAdded
  <2>3. ASSUME NEW r \in Threads PROVE ThreadAdded(r)'
    <3>1. CASE initialize(r) BY <3>1, <1>1, BeforeSinks
    <3>2. CASE \E t \in Threads : initialize(t) /\ t # r BY <2>2, <3>2, StepOfOne
    <3>3. CASE \A t \in Threads : ~initialize(t)
      BY <2>2, <3>3, OthersKeep DEF vars, initVars
    <3>4. QED BY <3>1, <3>2, <3>3
  <2>4. QED BY <2>1, <2>3 DEF SinksSoFar, ThreadAdded
<1>2. ASSUME NEW t \in Threads, AddSink(t) PROVE SinksSoFar'
  <2>1. initialize(t) /\ InProgress(t)
    BY <1>2 DEF initialize, AddSink, Passes, InProgress
  <2>2. initialized' BY <1>0, <2>1, StepOfOne DEF OneInitializer, InProgress
  <2>3. ASSUME NEW r \in Threads, r # t PROVE ThreadAdded(r)'
    <3>1. step'[r] = step[r] /\ result'[r] = result[r] BY <2>1, <2>3, StepOfOne
    <3>2. ~InProgress(r) /\ result[r] # "ok" BY <2>1, <2>3 DEF OneInitializer
    <3>3. QED BY <3>1, <3>2 DEF ThreadAdded, InProgress
  <2>4. ThreadAdded(t)' BY <1>2, AddSinkStep
  <2>5. QED BY <2>2, <2>3, <2>4 DEF SinksSoFar, ThreadAdded
<1>3. QED BY <1>1, <1>2, RouteSteps

-----------------------------------------------------------------------------
(* Crashes.                                                                *)

LEMMA SendingReadyStep ==
  ASSUME TypeOK, StepOK, StartedOnce, DispatcherFirst, LibrariesSoFar, SendingReady, [Next]_vars
  PROVE  SendingReady'
<1>1. dispatch \subseteq dispatch' BY UpstreamsGrow
<1>2. CASE UNCHANGED sending BY <1>1, <1>2 DEF SendingReady
<1>3. ASSUME NEW e \in Log, Send(e) \/ SendAgain(e) PROVE SendingReady'
  <2>1. Dispatches(e) /\ UNCHANGED dispatch BY <1>3 DEF Send, SendAgain, upVars
  <2>2. CASE UNCHANGED <<routeVars, sending>> BY <1>2, <2>2
  <2>3. CASE /\ e.library \in dispatch
             /\ \/ sending' = sending \ {e}
                \/ Doubles(e) /\ sending' = (sending \ {e}) \cup {[e EXCEPT !.copy = 2]}
    <3>1. CASE sending' = sending \ {e} BY <3>1, <2>1 DEF SendingReady
    <3>2. CASE Doubles(e) /\ sending' = (sending \ {e}) \cup {[e EXCEPT !.copy = 2]}
      <4>1. [e EXCEPT !.copy = 2].library = e.library BY <3>2, SecondCopy DEF Doubles
      <4>2. QED BY <2>1, <2>3, <3>2, <4>1 DEF SendingReady
    <3>3. QED BY <2>3, <3>1, <3>2
  <2>4. QED BY <2>1, <2>2, <2>3, DispatchesEffect
<1>4. ASSUME NEW t \in Threads, initialize(t) PROVE UNCHANGED sending
  BY <1>4
  DEF initialize, Begin, BeginAgain, SkipUpstream, SetUpUpstreamer, EnableLibrary, LibraryTaken,
      initialize_directory, DirectoryFails, AddSink, TargetFails, CreateSinkAborts, Fails, logVars
<1>5. CASE UNCHANGED vars BY <1>2, <1>5 DEF vars, logVars
<1>6. QED
  BY <1>2, <1>3, <1>4, <1>5
  DEF Next, UserEnables, UserDisables, UserAborts, Fault, logVars

LEMMA CrashStep ==
  ASSUME Inv, [Next]_vars
  PROVE  CrashOnlyUnready'
<1>1. CASE UNCHANGED vars BY <1>1 DEF Inv, CrashOnlyUnready, vars, initVars
<1>2. CASE Next
  <2>1. process = "runs" BY <1>2, StepOfOne, OthersKeep DEF Inv, Runs
  <2>2. ASSUME NEW e \in Log, Send(e) \/ SendAgain(e), process' = "crashed"
        PROVE  CrashOnlyUnready'
    <3>1. e.library \in dispatch
      BY <2>2 DEF Inv, DispatcherFirst, SendingReady, Send, SendAgain, LogSinks, Log
    <3>2. global_sink = NoSink
      <4>1. Dispatches(e) BY <2>2 DEF Send, SendAgain
      <4>2. QED BY <2>1, <2>2, <3>1, <4>1, DispatchesEffect DEF Inv
    <3>3. \A t \in Threads : result[t] # "ok"
      <4>1. Len(option.sinks) # 0 /\ 1 \in Sinks
        BY OptionFacts, ConstantFacts DEF Inv, TypeOK, Sinks
      <4>2. NoSink # 1 BY <4>1, HeatonAssumption
      <4>3. QED BY <3>2, <4>1, <4>2 DEF Inv, SinksSoFar, Added
    <3>4. result' = result BY <2>2 DEF Send, SendAgain, initVars
    <3>5. QED BY <3>3, <3>4 DEF CrashOnlyUnready
  <2>3. ASSUME NEW t \in Threads, initialize(t) PROVE process' # "crashed"
    BY <2>1, <2>3
    DEF initialize, Begin, BeginAgain, SkipUpstream, SetUpUpstreamer, EnableLibrary, LibraryTaken,
        initialize_directory, DirectoryFails, AddSink, TargetFails, CreateSinkAborts, Fails
  <2>4. CASE process' # "crashed" BY <2>4 DEF CrashOnlyUnready
  <2>5. QED
    BY <1>2, <2>1, <2>2, <2>3, <2>4 DEF Next, UserEnables, UserDisables, UserAborts, Fault
<1>3. QED BY <1>1, <1>2

-----------------------------------------------------------------------------
(* Directories.                                                            *)

\* Without a fault directories only come.
LEMMA DirectoriesStay ==
  ASSUME TypeOK, StepOK, [Next]_vars, faults' = 0
  PROVE  /\ faults = 0 /\ option' = option
         /\ NoneDenied => NoneDenied'
         /\ \A j \in 1..Len(option.sinks) : Opens(option.sinks[j]) => Opens(option.sinks[j])'
<1>1. option' = option BY StepOfOne, OthersKeep DEF vars, initVars
<1>2. CASE UNCHANGED dirVars BY <1>1, <1>2 DEF dirVars, Opens, NoneDenied
<1>3. ASSUME NEW t \in Threads, initialize_directory(t)
      PROVE  /\ faults = 0
             /\ \A d \in Dirs : dirs'[d] \in {dirs[d], "there"}
  BY <1>3 DEF initialize_directory, TypeOK
<1>4. ~Fault BY DEF Fault, TypeOK
<1>5. CASE faults = 0 /\ \A d \in Dirs : dirs'[d] \in {dirs[d], "there"}
  <2>1. \A j \in 1..Len(option.sinks) : option.sinks[j].dir \in Dirs \cup {NoDir}
    BY OptionFacts DEF TypeOK
  <2>2. \A j \in 1..Len(option.sinks) : Opens(option.sinks[j]) => Opens(option.sinks[j])'
    BY <1>1, <1>5, <2>1 DEF Opens
  <2>3. NoneDenied => NoneDenied' BY <1>5 DEF NoneDenied
  <2>4. QED BY <1>1, <1>5, <2>2, <2>3
<1>6. ASSUME NEW t \in Threads, initialize(t), ~initialize_directory(t)
      PROVE  UNCHANGED dirVars
  BY <1>6
  DEF initialize, Begin, BeginAgain, SkipUpstream, SetUpUpstreamer, EnableLibrary, LibraryTaken,
      DirectoryFails, AddSink, TargetFails, CreateSinkAborts, Fails
<1>7. QED
  BY <1>2, <1>3, <1>4, <1>5, <1>6
  DEF Next, UserEnables, UserDisables, UserAborts, Send, SendAgain, vars

ThreadChecked(t) ==
  /\ step[t][1] = "directory" => DirectoriesChecked(step[t][2] - 1)
  /\ step[t][1] = "sink" => DirectoriesChecked(Len(option.sinks))

LEMMA CheckedKept ==
  ASSUME TypeOK, StepOK, [Next]_vars, faults' = 0
  PROVE  \A n \in 0..Len(option.sinks) : DirectoriesChecked(n) => DirectoriesChecked(n)'
<1>1. /\ option' = option
      /\ \A j \in 1..Len(option.sinks) : Opens(option.sinks[j]) => Opens(option.sinks[j])'
  BY DirectoriesStay
<1>2. Len(option.sinks) \in Nat BY OptionFacts DEF TypeOK
<1>3. SUFFICES ASSUME NEW n \in 0..Len(option.sinks), DirectoriesChecked(n),
                      NEW j \in 1..n, NeedsDirectory(option.sinks[j])
               PROVE  Opens(option.sinks[j])'
  BY <1>1 DEF DirectoriesChecked, NeedsDirectory
<1>4. j \in 1..Len(option.sinks) BY <1>2
<1>5. Opens(option.sinks[j]) BY <1>3 DEF DirectoriesChecked
<1>6. QED BY <1>1, <1>4, <1>5

LEMMA ThreadCheckedStep ==
  ASSUME TypeOK, StepOK, [Next]_vars, faults' = 0, NEW t \in Threads, initialize(t),
         ThreadChecked(t), NoneDenied
  PROVE  ThreadChecked(t)'
<1> SUFFICES ASSUME NEW i, i = step[t][2], NEW m, m = Len(option.sinks)
             PROVE  ThreadChecked(t)'
  OBVIOUS
<1>0. /\ step \in [Threads -> Stages \X Indexes] /\ option' = option
      /\ m \in Nat /\ m > 0 /\ Len(option'.sinks) = m
  BY StepOfOne, OptionFacts DEF TypeOK, Stages, Indexes
<1>1. \A n \in 0..m : DirectoriesChecked(n) => DirectoriesChecked(n)' BY CheckedKept
<1>2. CASE step'[t] = <<"directory", 1>>
  <2>1. DirectoriesChecked(0)' BY DEF DirectoriesChecked
  <2>2. step'[t][2] - 1 = 0 BY <1>2
  <2>3. QED BY <1>2, <2>1, <2>2 DEF ThreadChecked
<1>3. CASE step'[t][1] \notin {"directory", "sink"} BY <1>3 DEF ThreadChecked
<1>4. CASE SkipUpstream(t) \/ EnableLibrary(t)
  <2>1. \/ step' = [step EXCEPT ![t] = <<"upstream", i + 1>>]
        \/ step' = [step EXCEPT ![t] = <<"directory", 1>>]
    <3>1. CASE SkipUpstream(t) BY <3>1, PassesEffect DEF SkipUpstream
    <3>2. CASE EnableLibrary(t) BY <3>2, EnableEffect
    <3>3. QED BY <1>4, <3>1, <3>2
  <2>2. step'[t][1] = "upstream" \/ step'[t] = <<"directory", 1>> BY <1>0, <2>1
  <2>3. QED BY <1>2, <1>3, <2>2
<1>5. CASE initialize_directory(t)
  <2>1. i \in 1..m /\ step[t][1] = "directory"
    BY <1>5 DEF initialize_directory, Passes, StepOK
  <2>2. PICK a : /\ step' = [step EXCEPT ![t] = a]
                 /\ \/ a = <<"directory", i + 1>>
                    \/ i = m /\ a = <<"sink", 1>>
    BY <1>5, PassesEffect DEF initialize_directory
  <2>3. DirectoriesChecked(i)'
    <3>1. DirectoriesChecked(i - 1)' BY <1>0, <1>1, <2>1 DEF ThreadChecked
    <3>2. NeedsDirectory(option.sinks[i]) => Opens(option.sinks[i])'
      <4> DEFINE e == option.sinks[i]
      <4>1. e.dir \in Dirs \cup {NoDir} BY <1>0, <2>1, OptionFacts DEF TypeOK
      <4>2. dirs \in [Dirs -> {"missing", "there", "denied", "barred"}] BY DEF TypeOK
      <4>3. \/ (~NeedsDirectory(e) \/ Exists(e)) /\ UNCHANGED dirs
            \/ /\ e.dir # NoDir
               /\ dirs' = [dirs EXCEPT ![e.dir] = "there"]
        BY <1>5 DEF initialize_directory, Entry, CanCreate
      <4>4. QED BY <1>0, <4>1, <4>2, <4>3 DEF Exists, Opens, NoneDenied
    <3>3. \A j \in 1..i : j \in 1..(i - 1) \/ j = i BY <1>0, <2>1
    <3>4. QED BY <1>0, <3>1, <3>2, <3>3 DEF DirectoriesChecked, NeedsDirectory
  <2>4. step'[t] = a BY <1>0, <2>2
  <2>5. CASE a = <<"directory", i + 1>>
    <3>1. step'[t][2] - 1 = i BY <1>0, <2>1, <2>4, <2>5
    <3>2. QED BY <2>3, <2>4, <2>5, <3>1 DEF ThreadChecked
  <2>6. CASE i = m /\ a = <<"sink", 1>>
    BY <1>0, <2>3, <2>4, <2>6 DEF ThreadChecked
  <2>7. QED BY <2>2, <2>5, <2>6
<1>6. CASE AddSink(t) \/ CreateSinkAborts(t)
  <2>1. step[t][1] = "sink" BY <1>6 DEF AddSink, CreateSinkAborts, Passes
  <2>2. step'[t][1] \in {"sink", "returned"}
    <3>1. CASE AddSink(t)
      <4>1. PICK a : step' = [step EXCEPT ![t] = a] /\ a[1] \in {"sink", "returned"}
        BY <3>1, PassesEffect DEF AddSink
      <4>2. QED BY <1>0, <4>1
    <3>2. CASE CreateSinkAborts(t) BY <2>1, <3>2 DEF CreateSinkAborts, initVars
    <3>3. QED BY <1>6, <3>1, <3>2
  <2>3. DirectoriesChecked(m)' BY <1>0, <1>1, <2>1 DEF ThreadChecked
  <2>4. QED BY <1>0, <2>2, <2>3 DEF ThreadChecked
<1>7. CASE Begin(t) \/ SetUpUpstreamer(t)
  BY <1>0, <1>3, <1>7 DEF Begin, SetUpUpstreamer
<1>8. ASSUME NEW stage, NEW status, Fails(t, stage, status) PROVE ThreadChecked(t)'
  BY <1>0, <1>3, <1>8 DEF Fails
<1>9. QED
  BY <1>4, <1>5, <1>6, <1>7, <1>8
  DEF initialize, BeginAgain, LibraryTaken, DirectoryFails, TargetFails

LEMMA DirectoriesStep ==
  ASSUME Inv, [Next]_vars
  PROVE  DirectoriesSoFar' /\ DirectoriesFirst'
<1> SUFFICES ASSUME faults' = 0
             PROVE  /\ NoneDenied'
                    /\ \A r \in Threads : ThreadChecked(r)' /\ result'[r] # "no_file"
  BY DEF DirectoriesSoFar, DirectoriesFirst, ThreadChecked
<1>0. NoneDenied /\ NoneDenied' BY DirectoriesStay DEF Inv, DirectoriesSoFar
<1>1. faults = 0 /\ option' = option BY DirectoriesStay DEF Inv
<1>2. \A r \in Threads : ThreadChecked(r) /\ result[r] # "no_file"
  BY <1>1 DEF Inv, DirectoriesSoFar, DirectoriesFirst, ThreadChecked
<1>3. \A n \in 0..Len(option.sinks) : DirectoriesChecked(n) => DirectoriesChecked(n)'
  BY CheckedKept DEF Inv
<1>4. ASSUME NEW r \in Threads, step'[r] = step[r], result'[r] = result[r]
      PROVE  ThreadChecked(r)' /\ result'[r] # "no_file"
  <2>1. Len(option.sinks) \in Nat BY OptionFacts DEF Inv, TypeOK
  <2>2. CASE step[r][1] = "directory"
    <3>1. step[r][2] \in 1..Len(option.sinks) BY <2>2 DEF Inv, StepOK
    <3>2. step[r][2] - 1 \in 0..Len(option.sinks) BY <2>1, <3>1
    <3>3. \A n \in 0..Len(option.sinks) : n = step[r][2] - 1 => DirectoriesChecked(n)'
      BY <1>2, <1>3, <2>2, <3>2 DEF ThreadChecked
    <3>4. QED BY <1>2, <1>4, <2>2, <3>2, <3>3 DEF ThreadChecked
  <2>3. CASE step[r][1] = "sink"
    <3>1. \A n \in 0..Len(option.sinks) : n = Len(option.sinks) => DirectoriesChecked(n)'
      BY <1>2, <1>3, <2>3 DEF ThreadChecked
    <3>2. QED BY <1>1, <1>2, <1>4, <2>1, <2>3, <3>1 DEF ThreadChecked
  <2>4. CASE step[r][1] \notin {"directory", "sink"} BY <1>2, <1>4, <2>4 DEF ThreadChecked
  <2>5. QED BY <2>2, <2>3, <2>4
<1>5. ASSUME NEW r \in Threads, initialize(r) PROVE result'[r] # "no_file"
  <2>0. result \in [Threads -> Results] BY DEF Inv, TypeOK, Results
  <2>1. ~TargetFails(r)
    <3>1. SUFFICES ASSUME TargetFails(r) PROVE FALSE OBVIOUS
    <3>2. /\ step[r][1] = "sink" /\ Entry(r).target = "file" /\ ~Opens(Entry(r))
      BY <3>1 DEF TargetFails, Fails, create_target
    <3>3. step[r][2] \in 1..Len(option.sinks) BY <3>2 DEF Inv, StepOK
    <3>4. QED
      BY <1>2, <3>2, <3>3 DEF ThreadChecked, DirectoriesChecked, Entry, NeedsDirectory
  <2>2. ASSUME NEW stage, NEW status, status # "no_file", Fails(r, stage, status)
        PROVE  result'[r] # "no_file"
    BY <2>0, <2>2 DEF Fails
  <2>3. ASSUME NEW stage, Passes(r, stage) PROVE result'[r] # "no_file"
    BY <1>2, <2>0, <2>3 DEF Passes
  <2>4. CASE UNCHANGED result BY <1>2, <2>4
  <2>5. QED
    BY <1>5, <2>1, <2>2, <2>3, <2>4
    DEF initialize, Begin, BeginAgain, SkipUpstream, SetUpUpstreamer, EnableLibrary, LibraryTaken,
        initialize_directory, DirectoryFails, AddSink, CreateSinkAborts, initVars
<1>6. ASSUME NEW r \in Threads PROVE ThreadChecked(r)' /\ result'[r] # "no_file"
  <2>1. CASE initialize(r) BY <1>0, <1>2, <1>5, <2>1, ThreadCheckedStep DEF Inv
  <2>2. CASE \E t \in Threads : initialize(t) /\ t # r BY <1>4, <2>2, StepOfOne DEF Inv
  <2>3. CASE \A t \in Threads : ~initialize(t)
    BY <1>4, <2>3, OthersKeep DEF vars, initVars
  <2>4. QED BY <2>1, <2>2, <2>3
<1>7. QED BY <1>0, <1>6

-----------------------------------------------------------------------------
(* Logs.                                                                   *)

\* What a sink has after a log has been routed.
LEMMA RouteEffect ==
  ASSUME TypeOK, NEW e \in Log, Router!Route(e), NEW s \in Sinks
  PROVE  /\ \/ received'[s] = received[s]
            \/ received'[s] = Append(received[s], e)
         /\ global_sink = s => received'[s] = Append(received[s], e)
         /\ e \notin Range(received[s])
<1>1. received'[s] = IF s \in Router!Targets(e) THEN Append(received[s], e) ELSE received[s]
  BY DEF Router!Route
<1>2. global_sink = s => s \in Router!Targets(e) BY DEF Router!Targets
<1>3. e \notin Range(received[s]) BY DEF Router!Route, Router!Range, Range
<1>4. QED BY <1>1, <1>2, <1>3

LEMMA AppendRange ==
  ASSUME NEW seq \in Seq(Log), NEW e \in Log
  PROVE  /\ Range(Append(seq, e)) = Range(seq) \cup {e}
         /\ (e \notin Range(seq) /\ \A i, j \in DOMAIN seq : i # j => seq[i] # seq[j]) =>
              \A i, j \in DOMAIN Append(seq, e) : i # j => Append(seq, e)[i] # Append(seq, e)[j]
<1> DEFINE new == Append(seq, e)
           n == Len(seq)
<1>1. n \in Nat /\ DOMAIN seq = 1..n /\ DOMAIN new = 1..(n + 1) BY AppendProperties
<1>2. new[n + 1] = e /\ \A i \in 1..n : new[i] = seq[i] BY AppendProperties
<1>3. \A i \in 1..(n + 1) : i \in 1..n \/ i = n + 1 BY <1>1
<1>4. 1..n \subseteq 1..(n + 1) /\ n + 1 \in 1..(n + 1) BY <1>1
<1> HIDE DEF new, n
<1>5. Range(new) = Range(seq) \cup {e} BY <1>1, <1>2, <1>3, <1>4 DEF Range
<1>6. ASSUME e \notin Range(seq), \A i, j \in DOMAIN seq : i # j => seq[i] # seq[j]
      PROVE  \A i, j \in DOMAIN new : i # j => new[i] # new[j]
  BY <1>1, <1>2, <1>3, <1>6 DEF Range
<1>7. QED BY <1>5, <1>6 DEF new

\* Routing a log adds no other log to what is anywhere.
LEMMA RoutedLogs ==
  ASSUME TypeOK, NEW e \in Log, Router!Route(e)
  PROVE  /\ UNION {Range(received'[s]) : s \in Sinks}
              \subseteq (UNION {Range(received[s]) : s \in Sinks}) \cup {e}
         /\ (\A s \in Sinks : \A i, j \in DOMAIN received[s] :
               i # j => received[s][i] # received[s][j]) =>
            \A s \in Sinks : \A i, j \in DOMAIN received'[s] :
               i # j => received'[s][i] # received'[s][j]
<1>1. ASSUME NEW s \in Sinks
      PROVE  Range(received'[s]) \subseteq Range(received[s]) \cup {e}
  <2>1. received[s] \in Seq(Log) BY DEF TypeOK
  <2>2. CASE received'[s] = Append(received[s], e) BY <2>1, <2>2, AppendRange
  <2>3. CASE received'[s] = received[s] BY <2>3 DEF Range
  <2>4. QED BY <2>2, <2>3, RouteEffect
<1>2. ASSUME NEW s \in Sinks, \A i, j \in DOMAIN received[s] :
               i # j => received[s][i] # received[s][j]
      PROVE  \A i, j \in DOMAIN received'[s] : i # j => received'[s][i] # received'[s][j]
  <2>1. received[s] \in Seq(Log) /\ e \notin Range(received[s]) BY RouteEffect DEF TypeOK
  <2>2. CASE received'[s] = Append(received[s], e) BY <1>2, <2>1, <2>2, AppendRange
  <2>3. CASE received'[s] = received[s] BY <1>2, <2>3
  <2>4. QED BY <2>2, <2>3, RouteEffect
<1>3. QED BY <1>1, <1>2

\* A log that is new, or the second copy of one that is there, keeps LogsOK.
LEMMA LogsOKStep ==
  ASSUME TypeOK, LogsOK, NEW e \in Log, Dispatches(e),
         \/ e.n = sent + 1 /\ sent' = sent + 1 /\ e.copy = 1
         \/ e \in sending /\ sent' = sent
  PROVE  LogsOK'
<1>0. sent \in Nat BY DEF TypeOK
<1>1. CASE UNCHANGED <<routeVars, sending>>
  <2>1. Logs' = Logs BY <1>1 DEF Logs, routeVars
  <2>2. \A x \in Logs : x.n \in Nat
    <3>1. \A x \in Log : x.n \in Nat BY DEF Log
    <3>2. \A s \in Sinks : Range(received[s]) \subseteq Log BY DEF TypeOK, Range
    <3>3. sending \subseteq Log BY DEF TypeOK
    <3>4. QED BY <3>1, <3>2, <3>3 DEF Logs
  <2>3. \A x \in Logs : x.n <= sent' BY <1>0, <2>2 DEF LogsOK
  <2>4. QED BY <1>1, <2>1, <2>3 DEF LogsOK, routeVars, Fatal
<1>2. ASSUME Router!Route(e),
             \/ sending' = sending \ {e}
             \/ e.copy = 1 /\ Doubles(e) /\ sending' = (sending \ {e}) \cup {[e EXCEPT !.copy = 2]}
      PROVE  LogsOK'
  <2> DEFINE f == [e EXCEPT !.copy = 2]
  <2>1. /\ UNION {Range(received'[s]) : s \in Sinks}
             \subseteq (UNION {Range(received[s]) : s \in Sinks}) \cup {e}
        /\ \A s \in Sinks : \A i, j \in DOMAIN received'[s] :
              i # j => received'[s][i] # received'[s][j]
    BY <1>2, RoutedLogs DEF LogsOK
  <2>2. \A x \in Log : x.n \in Nat BY DEF Log
  <2>3. \A x \in Logs : x.n \in Nat
    <3>1. \A s \in Sinks : Range(received[s]) \subseteq Log BY DEF TypeOK, Range
    <3>2. sending \subseteq Log BY DEF TypeOK
    <3>3. QED BY <2>2, <3>1, <3>2 DEF Logs
  <2>4. \A x \in Logs' : \/ x \in Logs
                         \/ x = e
                         \/ /\ e.copy = 1 /\ Fatal(e) /\ e.library \in Doubling
                            /\ x.copy = 2 /\ x.n = e.n /\ x.level = e.level
                            /\ x.trace = e.trace /\ x.library = e.library
    <3>1. Doubles(e) => /\ f.n = e.n /\ f.level = e.level /\ f.trace = e.trace
                        /\ f.library = e.library /\ f.copy = 2
                        /\ Fatal(e) /\ e.library \in Doubling
      BY SecondCopy DEF Doubles
    <3>2. Logs' = sending' \cup UNION {Range(received'[s]) : s \in Sinks} BY DEF Logs
    <3>3. \A x \in Logs' : x \in Logs \/ x = e \/ (e.copy = 1 /\ Doubles(e) /\ x = f)
      <4>1. \A x \in sending' : x \in sending \/ (e.copy = 1 /\ Doubles(e) /\ x = f) BY <1>2
      <4>2. \A x \in UNION {Range(received'[s]) : s \in Sinks} :
              x \in UNION {Range(received[s]) : s \in Sinks} \/ x = e
        BY <2>1
      <4>3. QED BY <3>2, <4>1, <4>2 DEF Logs
    <3>4. QED BY <3>1, <3>3
  <2>5. CASE e.n = sent + 1 /\ sent' = sent + 1 /\ e.copy = 1
    <3>1. \A x \in Logs : x.n <= sent BY DEF LogsOK
    <3>2. \A x \in Logs' : x.n <= sent' BY <1>0, <2>3, <2>4, <2>5, <3>1
    <3>3. \A x \in Logs : x.n # e.n BY <1>0, <2>3, <2>5, <3>1
    <3>4. \A x, y \in Logs' : x.n = y.n =>
            x.level = y.level /\ x.library = y.library /\ x.trace = y.trace
      BY <2>4, <3>3 DEF LogsOK
    <3>5. \A x \in Logs' : x.copy = 2 => Fatal(x) /\ x.library \in Doubling
      BY <2>4, <2>5 DEF LogsOK, Fatal
    <3>6. QED BY <2>1, <3>2, <3>4, <3>5 DEF LogsOK, Fatal
  <2>6. CASE e \in sending /\ sent' = sent
    <3>1. e \in Logs /\ e.copy = 2 BY <2>6 DEF Logs, TypeOK
    <3>2. Logs' \subseteq Logs BY <2>4, <3>1
    <3>3. QED BY <2>1, <2>6, <3>2 DEF LogsOK, Fatal
  <2>7. QED BY <2>5, <2>6
<1>3. QED BY <1>1, <1>2, DispatchesEffect

LEMMA GlobalStep ==
  ASSUME TypeOK, GlobalHasAll, NEW e \in Log, Dispatches(e), process # "crashed",
         \/ e.n = sent + 1 /\ sent' = sent + 1
         \/ sent' = sent
  PROVE  GlobalHasAll'
<1> SUFFICES ASSUME process' # "crashed", NEW n \in 1..sent'
             PROVE  global_sink' # NoSink /\ \E x \in Range(received'[global_sink']) : x.n = n
  BY DEF GlobalHasAll
<1>1. global_sink # NoSink /\ Router!Route(e) BY DispatchesEffect
<1>2. global_sink' = global_sink /\ global_sink \in Sinks BY <1>1, RouteTypes DEF TypeOK
<1>3. received'[global_sink] = Append(received[global_sink], e) BY <1>1, <1>2, RouteEffect
<1>4. received[global_sink] \in Seq(Log) BY <1>2 DEF TypeOK
<1>5. Range(received'[global_sink]) = Range(received[global_sink]) \cup {e}
  BY <1>3, <1>4, AppendRange
<1>6. sent \in Nat BY DEF TypeOK
<1>7. CASE n \in 1..sent BY <1>1, <1>2, <1>5, <1>7 DEF GlobalHasAll
<1>8. CASE n = e.n BY <1>1, <1>2, <1>5, <1>8
<1>9. QED BY <1>6, <1>7, <1>8

LEMMA LogsStep ==
  ASSUME Inv, [Next]_vars
  PROVE  LogsOK' /\ GlobalHasAll'
<1>1. CASE UNCHANGED <<received, sending, sent, global_sink>> /\ (process = "crashed" => process' = "crashed")
  BY <1>1 DEF Inv, LogsOK, Logs, GlobalHasAll, Fatal
<1>2. CASE UNCHANGED vars BY <1>1, <1>2 DEF vars, routeVars, logVars
<1>3. CASE Next
  <2>1. process = "runs" BY <1>3, StepOfOne, OthersKeep DEF Inv, Runs
  <2>2. ASSUME NEW e \in Log, Send(e) \/ SendAgain(e) PROVE LogsOK' /\ GlobalHasAll'
    BY <2>1, <2>2, LogsOKStep, GlobalStep DEF Inv, Send, SendAgain
  <2>3. ASSUME NEW t \in Threads, AddSink(t) PROVE LogsOK' /\ GlobalHasAll'
    <3>1. UNCHANGED <<received, sending, sent, process>>
      BY <2>3 DEF AddSink, logVars, Router!SetGlobal, Router!Add
    <3>2. LogsOK' BY <3>1 DEF Inv, LogsOK, Logs, Fatal
    <3>3. CASE step[t][2] = 1
      <4>1. Added(0)
        <5>1. step[t][1] = "sink" BY <2>3 DEF AddSink, Passes
        <5>2. 1 - 1 = 0 OBVIOUS
        <5>3. QED BY <3>3, <5>1, <5>2 DEF Inv, SinksSoFar
      <4>2. global_sink = NoSink BY <4>1 DEF Added
      <4>3. \A n \in 1..sent : FALSE BY <2>1, <4>2 DEF Inv, GlobalHasAll
      <4>4. QED BY <3>1, <3>2, <4>3 DEF GlobalHasAll
    <3>4. CASE step[t][2] # 1
      <4>1. global_sink' = global_sink BY <2>3, <3>4 DEF AddSink, Router!Add
      <4>2. QED BY <1>1, <3>1, <4>1
    <3>5. QED BY <3>3, <3>4
  <2>4. ASSUME NEW t \in Threads, initialize(t), ~AddSink(t)
        PROVE  UNCHANGED <<received, sending, sent, global_sink>>
    BY <2>4
    DEF initialize, Begin, BeginAgain, SkipUpstream, SetUpUpstreamer, EnableLibrary, LibraryTaken,
        initialize_directory, DirectoryFails, TargetFails, CreateSinkAborts, Fails, routeVars, logVars
  <2>5. QED
    BY <1>1, <1>3, <2>1, <2>2, <2>3, <2>4
    DEF Next, UserEnables, UserDisables, UserAborts, Fault, routeVars, logVars
<1>4. QED BY <1>2, <1>3

-----------------------------------------------------------------------------
LEMMA InitInv == Init => Inv
<1> SUFFICES ASSUME Init PROVE Inv OBVIOUS
<1>1. TypeOK /\ StepOK BY InitTypes
<1>2. \A t \in Threads : step[t][1] = "idle" /\ result[t] = "none" BY DEF Init
<1>3. OneInitializer BY <1>2 DEF OneInitializer, InProgress
<1>4. \A l \in LogSinks : table[l][l] = NoName /\ started[l] = 0
  BY DEF Init, LogSinks, Upstreams, UpSinks
<1>5. StartedOnce /\ DispatcherFirst /\ LibrariesSoFar
  BY <1>2, <1>4 DEF StartedOnce, DispatcherFirst, LibrariesSoFar, Attached
<1>6. Added(0)
  <2>1. 2..0 = {} OBVIOUS
  <2>2. QED BY <2>1 DEF Init, Router!Init, Added
<1>7. SinksSoFar BY <1>2, <1>6 DEF SinksSoFar
<1>8. SendingReady /\ CrashOnlyUnready BY DEF Init, SendingReady, CrashOnlyUnready
<1>9. DirectoriesSoFar /\ DirectoriesFirst
  <2>1. NoneDenied BY DEF Init, NoneDenied
  <2>2. QED BY <1>2, <2>1 DEF Init, DirectoriesSoFar, DirectoriesFirst
<1>10. LogsOK /\ GlobalHasAll
  <2>1. \A s \in Sinks : received[s] = <<>> BY DEF Init, Router!Init
  <2>2. \A s \in Sinks : DOMAIN received[s] = {} /\ Range(received[s]) = {}
    BY <2>1 DEF Range
  <2>3. Logs = {} BY <2>2 DEF Logs, Init
  <2>4. QED BY <2>2, <2>3 DEF LogsOK, GlobalHasAll, Init
<1>11. QED BY <1>1, <1>3, <1>5, <1>7, <1>8, <1>9, <1>10 DEF Inv

LEMMA StepInv == Inv /\ [Next]_vars => Inv'
<1> SUFFICES ASSUME Inv, [Next]_vars PROVE Inv' OBVIOUS
<1>1. TypeOK' /\ StepOK' BY NextTypes DEF Inv
<1>2. OneInitializer' BY OneStep DEF Inv
<1>3. StartedOnce' /\ DispatcherFirst' BY UpstreamsGrow DEF Inv
<1>4. LibrariesSoFar' BY LibrariesStep DEF Inv
<1>5. SinksSoFar' BY SinksStep DEF Inv
<1>6. SendingReady' BY SendingReadyStep DEF Inv
<1>7. CrashOnlyUnready' BY CrashStep
<1>8. DirectoriesSoFar' /\ DirectoriesFirst' BY DirectoriesStep
<1>9. LogsOK' /\ GlobalHasAll' BY LogsStep
<1>10. QED BY <1>1, <1>2, <1>3, <1>4, <1>5, <1>6, <1>7, <1>8, <1>9 DEF Inv

LEMMA Invariant == Spec => []Inv
<1>1. QED BY InitInv, StepInv, PTL DEF Spec

-----------------------------------------------------------------------------
\* Every variable has its type.
THEOREM TypeCorrect == Spec => []TypeOK
<1>1. Inv => TypeOK BY DEF Inv
<1>2. QED BY <1>1, Invariant, PTL

\* However many threads call initialize, one of them initializes, each library at most once.
THEOREM InitializedOnceHolds == Spec => []InitializedOnce
<1>1. Inv => InitializedOnce
  <2> SUFFICES ASSUME Inv PROVE InitializedOnce OBVIOUS
  <2>1. \A t, r \in Threads :
          {step[t][1], step[r][1]} \cap {"idle", "returned"} = {} => t = r
    BY DEF Inv, OneInitializer, InProgress
  <2>2. \A l \in Range(Libraries) : started[l] \in {0, 1} BY DEF Inv, StartedOnce, LogSinks
  <2>3. QED BY <2>1, <2>2 DEF InitializedOnce
<1>2. QED BY <1>1, Invariant, PTL

\* After initialize has returned without error, libraries and sinks are all in place.
THEOREM ReadyWhenOkHolds == Spec => []ReadyWhenOk
<1>1. Inv => ReadyWhenOk
  <2> SUFFICES ASSUME Inv, NEW t \in Threads, result[t] = "ok"
               PROVE  /\ \A l \in option.upstream :
                           /\ l \in Attached(l) /\ table[l][l] = l
                           /\ l \in dispatch /\ started[l] = 1
                      /\ global_sink = 1
                      /\ {global_sink} \cup UNION Range(branches) = DOMAIN option.sinks
    BY DEF ReadyWhenOk
  <2>1. ASSUME NEW l \in option.upstream
        PROVE  l \in Attached(l) /\ table[l][l] = l /\ l \in dispatch /\ started[l] = 1
    <3>1. l \in Range(Libraries) BY OptionFacts DEF Inv, TypeOK
    <3>2. PICK i \in 1..Len(Libraries) : l = Libraries[i] BY <3>1, ConstantFacts
    <3>3. FirstDone(Len(Libraries)) BY DEF Inv, LibrariesSoFar
    <3>4. LibraryDone(l) BY <3>2, <3>3 DEF FirstDone
    <3>5. l \in UpSinks /\ l # NoName BY <3>1, HeatonAssumption DEF UpSinks, LogSinks
    <3>6. QED BY <3>4, <3>5 DEF LibraryDone, Attached
  <2> DEFINE n == Len(option.sinks)
  <2>2. n \in Nat /\ n > 0 /\ DOMAIN option.sinks = 1..n BY OptionFacts DEF Inv, TypeOK
  <2>3. Added(n) BY DEF Inv, SinksSoFar
  <2> HIDE DEF n
  <2>4. global_sink = 1 /\ branches = [b \in 1..Levels |-> IF b = 1 THEN 2..n ELSE {}]
    BY <2>2, <2>3 DEF Added
  <2>5. UNION Range(branches) = 2..n
    <3>1. 1 \in 1..Levels BY ConstantFacts
    <3>2. branches[1] = 2..n /\ \A b \in 1..Levels : branches[b] \subseteq 2..n BY <2>4, <3>1
    <3>3. DOMAIN branches = 1..Levels BY <2>4
    <3>4. QED BY <3>1, <3>2, <3>3 DEF Range
  <2>6. {1} \cup 2..n = 1..n BY <2>2
  <2>7. QED BY <2>1, <2>2, <2>4, <2>5, <2>6
<1>2. QED BY <1>1, Invariant, PTL

\* No library ever has a log sink without a dispatcher.
THEOREM DispatcherFirstHolds == Spec => []DispatcherFirst
<1>1. Inv => DispatcherFirst BY DEF Inv
<1>2. QED BY <1>1, Invariant, PTL

\* Once initialize has succeeded no log crashes the process.
THEOREM CrashOnlyUnreadyHolds == Spec => []CrashOnlyUnready
<1>1. Inv => CrashOnlyUnready BY DEF Inv
<1>2. QED BY <1>1, Invariant, PTL

\* Logs are neither lost nor doubled, but for the fatal logs that Abseil doubles.
THEOREM EveryLogOnceHolds == Spec => []EveryLogOnce
<1>1. Inv => EveryLogOnce
  <2> SUFFICES ASSUME Inv, process # "crashed" PROVE EveryLogOnce BY DEF EveryLogOnce
  <2>1. \A n \in 1..sent :
          global_sink # NoSink /\ \E e \in Range(received[global_sink]) : e.n = n
    BY DEF Inv, GlobalHasAll
  <2>2. ASSUME NEW s \in Sinks, NEW i \in DOMAIN received[s], NEW j \in DOMAIN received[s],
               received[s][i].n = received[s][j].n, i # j
        PROVE  Fatal(received[s][i]) /\ received[s][i].library \in Doubling
    <3> DEFINE x == received[s][i]
               y == received[s][j]
    <3>1. x \in Logs /\ y \in Logs BY DEF Logs, Range
    <3>2. x \in Log /\ y \in Log
      <4>1. received[s] \in Seq(Log) BY DEF Inv, TypeOK
      <4>2. QED BY <4>1
    <3>3. x # y /\ x.n = y.n BY <2>2 DEF Inv, LogsOK
    <3> HIDE DEF x, y
    <3>4. x.level = y.level /\ x.library = y.library /\ x.trace = y.trace
      BY <3>1, <3>3 DEF Inv, LogsOK
    <3>5. x.copy # y.copy /\ x.copy \in 1..2 /\ y.copy \in 1..2
      BY <3>2, <3>3, <3>4 DEF Log
    <3>6. x.copy = 2 \/ y.copy = 2 BY <3>5
    <3>7. Fatal(x) /\ x.library \in Doubling
      BY <3>1, <3>4, <3>6 DEF Inv, LogsOK, Fatal
    <3>8. QED BY <3>7 DEF x
  <2>3. QED BY <2>1, <2>2 DEF EveryLogOnce
<1>2. QED BY <1>1, Invariant, PTL

\* Without a fault from outside no file fails to open for want of a directory.
THEOREM DirectoriesFirstHolds == Spec => []DirectoriesFirst
<1>1. Inv => DirectoriesFirst BY DEF Inv
<1>2. QED BY <1>1, Invariant, PTL
=============================================================================
