------------------------------- MODULE Heaton -------------------------------
(***************************************************************************)
(* heaton/heaton.{h,cc}, with the factories of sinks and targets and Send  *)
(* of the three upstreamers: how the parts are put together, and what      *)
(* happens to logs meanwhile.                                              *)
(*                                                                         *)
(* The upstream registries and the dispatcher are taken as what their own  *)
(* modules show them to implement: Registry and LogRouter.  So a call of   *)
(* either is one step, and Heaton::_mutex, which is held around one such   *)
(* call, needs no variable.                                                *)
(*                                                                         *)
(* The sinks that initialize makes are numbered in the order of the        *)
(* options: the global one is 1.                                           *)
(***************************************************************************)
EXTENDS Integers, Sequences, FiniteSets, Functions

CONSTANTS
  Threads,      \* threads that call initialize
  Libraries,    \* the built-in upstreams, in the order of initialize
  Doubling,     \* those whose Send goes on after a fatal log with a stack trace
  Users,        \* upstreams of users
  Unnamed,      \* the one of them whose name is empty, if there is one
  UserSink,     \* a sink of a user
  Options,      \* values of HeatonOption
  MaxSinks,     \* bound: the sinks of an option
  Levels,       \* the branches, from infos to fatals
  Dirs, NoDir,  \* directories of log files, and the one of an empty file name
  NoSink, NoName,
  MaxLogs,      \* bound: logs of the program
  MaxFaults     \* bound: what happens to directories from outside

Upstreams == Range(Libraries) \cup Users
LogSinks == Range(Libraries)   \* TurboLogSink and so on: one for each library
UpSinks == LogSinks \cup {UserSink}

\* An option: which libraries to enable, the sinks with level 0 for the global one.
OptionType ==
  [upstream : SUBSET Range(Libraries), create_if_missing : BOOLEAN,
   sinks : Seq([level : 0..Levels, target : {"null", "console", "file"},
                dir : Dirs \cup {NoDir}])]

Sinks == 1..MaxSinks

ASSUME HeatonAssumption ==
  /\ Libraries \in Seq(Range(Libraries)) /\ Libraries # <<>>
  /\ Doubling \subseteq Range(Libraries)
  /\ Users \cap Range(Libraries) = {} /\ Unnamed \subseteq Users
  /\ UserSink \notin LogSinks /\ NoName \notin UpSinks /\ NoSink \notin Sinks
  /\ {Levels, MaxSinks, MaxLogs, MaxFaults} \subseteq Nat /\ Levels > 0
  /\ Options \subseteq OptionType
  /\ \A o \in Options : /\ Len(o.sinks) \in 1..MaxSinks
                        /\ \A i \in DOMAIN o.sinks : o.sinks[i].level = 0 <=> i = 1

Log == [library : Range(Libraries), n : 1..MaxLogs, level : 1..Levels, trace : BOOLEAN,
        copy : 1..2]

VARIABLES
  initialized,   \* _initialized
  option,        \* the option a program runs with, _option
  step,          \* where each thread is in initialize, with an index
  result,        \* what initialize returned to each thread, or "none"
  upstreams,     \* the keys of _upstreams
  table,         \* what each upstream has attached (Registry)
  dispatch,      \* the log sinks whose _dispatch is set
  started,       \* history: how often each library was initialized
  global_sink, branches, received,   \* the dispatcher (LogRouter)
  dirs,          \* the directories: "missing", "there", "denied" to every open, or
                 \* "barred": not there and not to be made
  faults,        \* how often something outside spoiled a directory
  process,       \* "runs", "aborted", "crashed", "ended"
  sending,       \* the second copies that Send has still to apply
  sent           \* history: how many logs the program has sent

initVars == <<initialized, option, step, result>>
upVars == <<upstreams, table, dispatch, started>>
routeVars == <<global_sink, branches, received>>
logVars == <<sending, sent>>
dirVars == <<dirs, faults>>
vars == <<initVars, upVars, routeVars, logVars, dirVars, process>>

Names == UpSinks   \* names are told apart only, so they are called like the sinks

Table == INSTANCE Registry WITH
  Sinks <- UpSinks, Fallible <- Users, call <- <<>>, answer <- <<>>
Router == INSTANCE LogRouter WITH Entry <- Log

Attached(up) == {s \in UpSinks : table[up][s] # NoName}

Init ==
  /\ initialized = FALSE
  /\ option \in Options
  /\ step = [t \in Threads |-> <<"idle", 0>>]
  /\ result = [t \in Threads |-> "none"]
  /\ upstreams = {}
  /\ table = [u \in Upstreams |-> [s \in UpSinks |-> NoName]]
  /\ dispatch = {}
  /\ started = [l \in Range(Libraries) |-> 0]
  /\ Router!Init
  /\ dirs \in [Dirs -> {"missing", "there"}]
  /\ faults = 0
  /\ process = "runs"
  /\ sending = {} /\ sent = 0

-----------------------------------------------------------------------------
(* initialize: one step for each iteration of its loops.                   *)

Runs == process = "runs"

Advance(stage, i) ==
  IF stage = "upstream"
    THEN IF i < Len(Libraries) THEN <<"upstream", i + 1>> ELSE <<"directory", 1>>
  ELSE IF i < Len(option.sinks) THEN <<stage, i + 1>>
  ELSE IF stage = "directory" THEN <<"sink", 1>>
  ELSE <<"returned", 0>>

Passes(t, stage) ==
  /\ Runs
  /\ step[t][1] = stage
  /\ step' = [step EXCEPT ![t] = Advance(stage, step[t][2])]
  /\ result' = IF step'[t][1] = "returned" THEN [result EXCEPT ![t] = "ok"] ELSE result
  /\ UNCHANGED <<initialized, option>>

Fails(t, stage, status) ==
  /\ Runs
  /\ step[t][1] = stage
  /\ step' = [step EXCEPT ![t] = <<"returned", 0>>]
  /\ result' = [result EXCEPT ![t] = status]
  /\ UNCHANGED <<initialized, option, upVars, routeVars, logVars, dirVars, process>>

BeginUnmarked(t) ==
  /\ Runs
  /\ step[t][1] = "idle" /\ ~initialized
  /\ step' = [step EXCEPT ![t] = <<"upstream", 1>>]
  /\ UNCHANGED <<initialized, option, result, upVars, routeVars, logVars, dirVars, process>>

Begin(t) ==
  /\ Runs
  /\ step[t][1] = "idle" /\ ~initialized
  /\ initialized' = TRUE
  /\ step' = [step EXCEPT ![t] = <<"upstream", 1>>]
  /\ UNCHANGED <<option, result, upVars, routeVars, logVars, dirVars, process>>

BeginAgain(t) == initialized /\ Fails(t, "idle", "already_exists")

Library(t) == Libraries[step[t][2]]

SkipUpstream(t) ==
  /\ Passes(t, "upstream")
  /\ Library(t) \notin option.upstream
  /\ UNCHANGED <<upVars, routeVars, logVars, dirVars, process>>

make_builtin_upstreamer_unset(l) == UNCHANGED dispatch

make_builtin_upstreamer(l) == dispatch' = dispatch \cup {l}

SetUpUpstreamer(t) ==
  /\ Runs
  /\ step[t][1] = "upstream" /\ Library(t) \in option.upstream
  /\ make_builtin_upstreamer(Library(t))
  /\ step' = [step EXCEPT ![t] = <<"enable", @[2]>>]
  /\ UNCHANGED <<initialized, option, result, upstreams, table, started, routeVars, logVars,
                 dirVars, process>>

\* enable_upstream with an upstream object, which is dropped when there is one of its name.
enable_upstream(up, sink, name) ==
  /\ Table!Attach(up, sink, name)
  /\ upstreams' = upstreams \cup {up}

EnableLibrary(t) ==
  /\ Runs
  /\ step[t][1] = "enable"
  /\ enable_upstream(Library(t), Library(t), Library(t))
  /\ started' = [started EXCEPT ![Library(t)] = @ + 1]
  /\ step' = [step EXCEPT ![t] = Advance("upstream", step[t][2])]
  /\ UNCHANGED <<initialized, option, result, dispatch, routeVars, logVars, dirVars, process>>

LibraryTakenIgnored(t) ==
  /\ Runs
  /\ step[t][1] = "enable"
  /\ Table!Taken(Library(t), Library(t), Library(t))
  /\ step' = [step EXCEPT ![t] = Advance("upstream", step[t][2])]
  /\ UNCHANGED <<initialized, option, result, upVars, routeVars, logVars, dirVars, process>>

\* A user has taken the sink or its name.
LibraryTaken(t) ==
  /\ Fails(t, "enable", "already_exists")
  /\ Table!Taken(Library(t), Library(t), Library(t))

Entry(t) == option.sinks[step[t][2]]

NeedsDirectoryGlobalOnly(e) == e.target # "null" /\ e.level = 0

\* A null target needs no directory, a console does.
NeedsDirectory(e) == e.target # "null"

Exists(e) == e.dir # NoDir /\ dirs[e.dir] \in {"there", "denied"}

CanCreate(e) == e.dir # NoDir /\ dirs[e.dir] = "missing" /\ option.create_if_missing

initialize_directory(t) ==
  /\ Passes(t, "directory")
  /\ LET e == Entry(t)
     IN  \/ (~NeedsDirectory(e) \/ Exists(e)) /\ UNCHANGED dirs
         \/ /\ NeedsDirectory(e) /\ CanCreate(e)
            /\ dirs' = [dirs EXCEPT ![e.dir] = "there"]
  /\ UNCHANGED <<upVars, routeVars, logVars, faults, process>>

DirectoryFails(t) ==
  /\ Fails(t, "directory", "no_directory")
  /\ LET e == Entry(t)
     IN  NeedsDirectory(e) /\ ~Exists(e) /\ ~CanCreate(e)

Opens(e) == e.dir # NoDir /\ dirs[e.dir] = "there"

\* A target of the option can be made and initialized.
create_target(e) == e.target = "console" \/ (e.target = "file" /\ Opens(e))

AddSinkNeverGlobal(t) ==
  /\ Passes(t, "sink")
  /\ create_target(Entry(t))
  /\ Router!Add(1, step[t][2])
  /\ UNCHANGED <<upVars, logVars, dirVars, process>>

\* Every branch of the options goes to the first branch of the dispatcher.
AddSink(t) ==
  /\ Passes(t, "sink")
  /\ create_target(Entry(t))
  /\ LET i == step[t][2]
     IN  IF i = 1 THEN Router!SetGlobal(i) ELSE Router!Add(1, i)
  /\ UNCHANGED <<upVars, logVars, dirVars, process>>

TargetFails(t) ==
  /\ Fails(t, "sink", "no_file")
  /\ Entry(t).target = "file" /\ ~create_target(Entry(t))

\* NullTarget::create() is null, so the sink cannot be initialized.
CreateSinkAborts(t) ==
  /\ Runs
  /\ step[t][1] = "sink" /\ Entry(t).target = "null"
  /\ process' = "aborted"
  /\ UNCHANGED <<initVars, upVars, routeVars, logVars, dirVars>>

initialize(t) ==
  \/ Begin(t) \/ BeginAgain(t)
  \/ SkipUpstream(t) \/ SetUpUpstreamer(t) \/ EnableLibrary(t) \/ LibraryTaken(t)
  \/ initialize_directory(t) \/ DirectoryFails(t)
  \/ AddSink(t) \/ TargetFails(t) \/ CreateSinkAborts(t)

-----------------------------------------------------------------------------
(* What users do: enable_upstream with an object of theirs.  A sink of     *)
(* heaton comes from make_builtin_upstreamer.  enable_upstream with a name *)
(* and disable_upstream refuse every name but the empty one, so they reach *)
(* an upstream of a user only; the former does what UserEnables does for   *)
(* an upstream that is there.                                              *)

UserEnables(up, sink, name) ==
  /\ Runs
  /\ sink \in LogSinks => sink = up
  /\ enable_upstream(up, sink, name)
  /\ IF sink \in LogSinks THEN make_builtin_upstreamer(sink) ELSE UNCHANGED dispatch
  /\ UNCHANGED <<initVars, started, routeVars, logVars, dirVars, process>>

UserDisables(up, sink) ==
  /\ Runs
  /\ up \in Unnamed /\ sink \in Attached(up)
  /\ Table!Detach(up, sink)
  /\ UNCHANGED <<initVars, upstreams, dispatch, started, routeVars, logVars, dirVars, process>>

\* The library of a new upstream fails.
UserAborts(up) ==
  /\ Runs
  /\ up \in Users \ upstreams
  /\ process' = "aborted"
  /\ UNCHANGED <<initVars, upVars, routeVars, logVars, dirVars>>

Fault ==
  /\ Runs
  /\ faults < MaxFaults
  /\ faults' = faults + 1
  /\ \E d \in Dirs, state \in {"missing", "denied", "barred"} :
       dirs[d] # state /\ dirs' = [dirs EXCEPT ![d] = state]
  /\ UNCHANGED <<initVars, upVars, routeVars, logVars, process>>

-----------------------------------------------------------------------------
(* Logs: Send of an upstreamer.  The library ends the process after a      *)
(* fatal log, but not always at once: Abseil calls Send a second time      *)
(* first, and those are two logs here.                                     *)

Fatal(e) == e.level = Levels

DoublesAnyway(e) == Fatal(e) /\ e.trace

\* AbslLogSink::Send has no return after the copy with the stack trace.
Doubles(e) == Fatal(e) /\ e.trace /\ e.library \in Doubling

DispatchesQuietly(e) ==
  IF global_sink = NoSink THEN UNCHANGED <<routeVars, sending, process>>
    ELSE /\ Router!Route(e)
         /\ sending' = sending \ {e}
         /\ process' = IF Fatal(e) THEN "ended" ELSE process

\* apply_log of the dispatcher, through pointers that may be null.
Dispatches(e) ==
  IF global_sink = NoSink \/ e.library \notin dispatch
    THEN process' = "crashed" /\ UNCHANGED <<routeVars, sending>>
    ELSE /\ Router!Route(e)
         /\ sending' = (sending \ {e})
                         \cup (IF e.copy = 1 /\ Doubles(e) THEN {[e EXCEPT !.copy = 2]} ELSE {})
         /\ process' \in {process}
                         \cup (IF Fatal(e) /\ sending' \ sending = {} THEN {"ended"} ELSE {})

Send(e) ==
  /\ Runs
  /\ e.copy = 1 /\ e.n = sent + 1
  /\ e.library \in Attached(e.library)
  /\ sent' = sent + 1
  /\ Dispatches(e)
  /\ UNCHANGED <<initVars, upVars, dirVars>>

SendAgain(e) ==
  /\ Runs
  /\ e \in sending
  /\ Dispatches(e)
  /\ UNCHANGED <<initVars, upVars, dirVars, sent>>

Next ==
  \/ \E t \in Threads : initialize(t)
  \/ \E up \in Upstreams, sink \in UpSinks, name \in Names : UserEnables(up, sink, name)
  \/ \E up \in Unnamed, sink \in UpSinks : UserDisables(up, sink)
  \/ \E up \in Users : UserAborts(up)
  \/ \E e \in Log : Send(e) \/ SendAgain(e)
  \/ Fault

Spec == Init /\ [][Next]_vars

-----------------------------------------------------------------------------
(* Properties.                                                             *)

\* Type invariant.
TypeOK ==
  /\ initialized \in BOOLEAN /\ option \in Options
  /\ step \in [Threads -> {"idle", "upstream", "enable", "directory", "sink", "returned"}
                            \X (0..MaxSinks \cup 1..Len(Libraries))]
  /\ result \in [Threads -> {"none", "ok", "already_exists", "no_directory", "no_file"}]
  /\ upstreams \subseteq Upstreams
  /\ table \in [Upstreams -> [UpSinks -> Names \cup {NoName}]]
  /\ dispatch \subseteq LogSinks
  /\ started \in [Range(Libraries) -> Nat]
  /\ global_sink \in Sinks \cup {NoSink}
  /\ branches \in [1..Levels -> SUBSET Sinks]
  /\ received \in [Sinks -> Seq(Log)]
  /\ dirs \in [Dirs -> {"missing", "there", "denied", "barred"}] /\ faults \in 0..MaxFaults
  /\ process \in {"runs", "aborted", "crashed", "ended"}
  /\ sending \subseteq {e \in Log : e.copy = 2 /\ e.library \in Doubling}
  /\ sent \in 0..MaxLogs

\* Of all threads that call initialize one gets past its beginning, also after it has
\* failed; so no library is initialized twice, which glog and Abseil would not survive.
InitializedOnce ==
  /\ \A t, r \in Threads :
       {step[t][1], step[r][1]} \cap {"idle", "returned"} = {} => t = r
  /\ \A l \in Range(Libraries) : started[l] <= 1

\* When initialize has returned without error, whatever users enabled or logged before
\* and meanwhile, every library asked for sends its logs to the dispatcher and has been
\* initialized, and every sink of the options is there and gets some of them.
ReadyWhenOk ==
  \A t \in Threads : result[t] = "ok" =>
    /\ \A l \in option.upstream :
         l \in Attached(l) /\ table[l][l] = l /\ l \in dispatch /\ started[l] = 1
    /\ global_sink = 1
    /\ {global_sink} \cup UNION Range(branches) = DOMAIN option.sinks

\* A log sink that a library knows has its dispatcher at every moment.
DispatcherFirst == \A l \in LogSinks : l \in Attached(l) => l \in dispatch

\* Logs go through a null global sink only as long as no initialize has succeeded.
CrashOnlyUnready ==
  process = "crashed" => \A t \in Threads : result[t] # "ok"

\* The global sink has every log that the process has survived, and no sink has one twice,
\* but for fatal logs of Abseil with a stack trace, which have a copy without it.
EveryLogOnce ==
  process # "crashed" =>
    /\ \A n \in 1..sent : global_sink # NoSink /\ \E e \in Range(received[global_sink]) : e.n = n
    /\ \A s \in Sinks : \A i, j \in DOMAIN received[s] :
         received[s][i].n = received[s][j].n /\ i # j =>
           Fatal(received[s][i]) /\ received[s][i].library \in Doubling

\* Directories are checked or made for all sinks before any file is opened: without
\* a fault from outside no file fails to open for want of its directory.
DirectoriesFirst ==
  faults = 0 => \A t \in Threads : result[t] # "no_file"

-----------------------------------------------------------------------------
(* What documents say and the code does not do.                            *)

\* "E -->|ERROR| ES[error]" of the flow chart in README.md: a sink that is configured
\* for a level gets the logs of that level.
SinksInTheirBranch ==
  \A t \in Threads : result[t] = "ok" =>
    \A i \in DOMAIN option.sinks : i # 1 => i \in branches[option.sinks[i].level]
=============================================================================
