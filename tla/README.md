# Formal models of heaton

TLA+ models of heaton, a C++ library that takes over the output of the Turbo,
Abseil and glog loggers and routes it to sinks and log files. The models are
checked with TLC on small instances; what matters most is proved for every
instance with TLAPS. Paths below are relative to the root of the repository.

## 1. Inventory of the system

A logging library calls `Send` of an **upstreamer** (one per library), which calls
the **dispatcher**; the dispatcher calls the global **sink** and the sinks of the
branch of the log's level; a sink calls its **target**, which writes to a console or
to a **file** that it rotates. `Heaton::initialize` builds all of it from options.

| component | state | operations | what is hard |
|---|---|---|---|
| `AsyncSink` (`heaton/sinks/async_sink.*`) | queue, `_running`, `_state`, `_target`, worker thread, two condition variables | `initialize`, `apply_log`, `flush`, `shutdown`, destructor, `thread_func` | two handshakes over condition variables, two queue swaps, a queue that overflows while a batch is written, a target replaced under its users |
| `Dispatch` (`heaton/dispatch.*`) | `_global_sink`, four branch vectors, `_next_flush_time`, `_current_items`, options, one mutex | `apply_log` (two overloads), `flush_logs`, `set_global_sink`, `add_*_sink`, `remove_*_sink`, `set_options`, `get_options` | a fan-out of several calls against reconfiguration, time stamps that arrive out of order, a global sink that is null |
| `SyncSink` (`heaton/sinks/sync_sink.*`) | `_shutting_down`, `_target` | the same calls without a queue | a flag that is not atomic in front of a target that becomes null |
| `SinkBase` factory (`heaton/sink_base.*`) | none | `create_sink` | aborts when the sink cannot be initialized |
| `TargetBase` and the file targets (`heaton/target_base.*`, `heaton/targets/{daily,hourly,rotating}_*`) | writer (may be null), rotation, check and reopen times, queue of files, counters; the file system | `initialize`, `apply_log` with rotation, check and reopening, `flush`, `shutdown` | failed opens and a back-off, rotation while there is no writer, clean-up after a restart |
| Upstream registries (`heaton/upstream_base.*`, `heaton/upstream/*`) | `_sinks` and `_names` of each registry under one global mutex; the registry of the logging library | `enable`, `disable` by pointer and by name, `Send` | three tables that must agree when calls fail in the middle |
| `Heaton` (`heaton/heaton.*`) | `_initialized`, `_upstreams`, `_option`, the dispatcher | `initialize` (upstreams, directories, sinks), `enable_upstream`, `disable_upstream` | a sequence of steps that can fail, with logging already attached |
| Log file names (`heaton/utility/log_filename.*`) | none | names from sequence numbers and civil times, and back; `compare` | widths, names of two formats for one target |
| Console and null targets, colors, log entity, build files | none | output | nothing a model would say more about |

What would make each component correct:

* `AsyncSink`: a caller's logs are written in the order of its calls and at most
  once; every log is accounted for; memory is bounded; the worker never runs on a
  closed target; what a running worker can see is written; initialize and shutdown
  return.
* `Dispatch`: the global sink is in no branch and no sink twice in one; each sink
  gets each log at most once; sinks agree on the order; a fan-out misses no sink; no
  log stays unflushed past the flush time.
* File targets: the writer is never used when it is null; at most `max_files` files
  of the target exist, also after a restart; a log is written to the file of its
  hour or day; a failed open is retried no earlier than the back-off and is retried.
* Upstream registries: the two maps are inverse to each other and agree with the
  logging library's own registry; one log is dispatched once.
* `SyncSink`: a sink that is taken out of the dispatcher and then shut down gives no
  call under way a target that is shut, gone or null.
* `Heaton`: one thread initializes, once; after a successful `initialize` every library
  asked for reaches the dispatcher, every configured sink is there, and every log
  arrives once; a library never has an upstreamer without a dispatcher.

The hazards behind these properties are listed, each with its line, in
`PROJECT.json`.

## 2. Modules

| module | models | kind |
|---|---|---|
| `LogQueue` | what a buffering sink promises: logs accepted once, delivered in order, dropped only together by an overflow | abstract specification |
| `AsyncSink` | `heaton/sinks/async_sink.{h,cc}` | detailed specification, with the refinement `Buffer` to `LogQueue` |
| `MCAsyncSink` | model values and symmetry | for TLC |
| `AsyncSinkProofs` | type correctness, refinement, order, accounting, memory, target life time | proofs |
| `Dispatch` | `heaton/dispatch.{h,cc}` | detailed specification, with the refinement `Router` to `LogRouter` |
| `DispatchProofs` | type correctness and all seven other properties of its run | proofs |
| `SequenceInduction` | induction with sets; recursive definitions, concatenations and injective sequences | lemmas |
| `LogRouter` | what the dispatcher promises: a log goes at once and once to the global sink and its branch | abstract specification |
| `MCDispatch` | model values, options and symmetry | for TLC |
| `TargetBase` | `heaton/target_base.{h,cc}`, the names of `heaton/utility/log_filename.cc`, the file system and the clock | shared part |
| `FileTarget` | `heaton/targets/{daily,hourly,rotating}_file_target.*` | detailed specification, on top of `TargetBase` |
| `MCFileTarget` | options | for TLC |
| `FileTargetProofs` | type correctness and all seven other properties of its runs that hold | proofs |
| `SyncSink` | `heaton/sinks/sync_sink.{h,cc}` behind the mutex of a dispatcher | detailed specification |
| `MCSyncSink` | model values and symmetry | for TLC |
| `SyncSinkProofs` | type correctness and both invariants | proofs |
| `Registry` | what the upstreams promise: calls to attach and detach sinks take effect one at a time | abstract specification |
| `Upstreams` | `heaton/upstream_base.{h,cc}`, `heaton/upstream/*` | detailed specification, with the refinement `Table` to `Registry` |
| `MCUpstreams` | model values and symmetry | for TLC |
| `UpstreamsProofs` | type correctness, both invariants, the refinement | proofs |
| `Heaton` | `heaton/heaton.{h,cc}`, `create_sink`, `create_target`, `Send` | the composition, over `Registry` and `LogRouter` |
| `MCHeaton` | options and symmetry | for TLC |
| `HeatonProofs` | type correctness and all six invariants | proofs |

Definitions keep the names of the source (`apply_entity`, `notify_funcs`,
`add_sink`, `set_global_sink`, the states `kInit` to `kStop`). A definition whose
name extends another one's and that stands right before it (`QueueFullLate`,
`JoinDetached`, `add_sink_anyway`) is a mutation of it: a bug somebody could have
written. No specification uses it; it serves to see that the property named with it
in `PROJECT.json` would notice.

### AsyncSink

The variables are the members of the class, the place where each thread is (`owner`,
`worker`, `caller`), the worker's own queue (`batch`) and histories (`issued`,
`refused`, `cleared`, `delivered`). A step is the code between two points where
another thread can interfere.

* The owner: `Initialize` (everything up to the new thread), `WaitForStart` and the
  return from that wait (by the worker's notification in `WorkerStart`, or spurious);
  then `Shutdown`, `NotifyWorker`, `Join`, `CloseTarget` for `shutdown`. The
  destructor runs the same statements.
* A caller: `ApplyLog` is `apply_log` up to taking `_mutex`, `Enqueue` the rest;
  `CallFlush`, `EnterTarget`, `LeaveTarget` are `flush`, whose use of `_target` is
  not protected and so takes time.
* The worker: `thread_func`. Testing the condition of the inner loop and waiting are
  two steps (`WorkerFindsNothing`, `WorkerWait`), because `_running` and the
  notification of `shutdown` do not respect `_mutex`.

A call through a null `_target`, or into a target that is gone, sets `crashed`, after
which nothing happens. A log is a pair of a caller and a number; its text, level and
stamp do not matter here. `4096`, the smallest queue, is `MinQueueLength`.
A call of `initialize` with a null target returns an error and changes nothing; it is
left out. So are two threads calling `shutdown` at once: both would join the worker, and
nothing in the sink keeps the second one out (`async_sink.cc:106`).

### SyncSink

A call reads the flag (`Check`), goes through the pointer (`Deref`) and is in the target
until it ends (`Write`); `shutdown` is `Mark`, `Test`, `Shut`, `Reset`. `Destroy` is
the destructor, which is the default one and calls no shutdown: it comes when neither the
dispatcher nor a thread has the sink, and lets the target go unshut. The two plain
members are read and written in one step each: a read that races a write sees the old or
the new value. The sink itself has no lock, so the model has the one thing that can
protect it, the dispatcher: `Dispatched` enters with its mutex, `Unlink` takes the sink
out under it. `Direct` is a call past the dispatcher, which `SinkBase` allows. Histories
record who did not play by the rules: `direct`, `hasty` (shutdown of a sink that the
dispatcher still has), `twice` (two threads in shutdown).
A sink is the only owner of a file target and shares a console with others (`shared`).

### Dispatch

The mutex is explicit (`mutex` is the set of threads that hold it), and every call of
a sink is a step, so that the order in which sinks see logs is something that could go
wrong. `Targets` is the order of the fan-out, which differs between the two overloads.
`Return` is the early return of `flush_logs`; `StartFlush`, `Flush`, `FinishFlush` are
the rest. Reconfiguration calls no sink and is one step under the mutex. The vectors
are read when a loop starts; they cannot change while the mutex is held. Levels map
to branches one to one; two branches stand for the four, whose code is the same.
`get_options` is not modelled: it reads two numbers without the mutex and nobody but
its caller sees them. `ImplementsRouter` is the refinement to `LogRouter`: a log counts as
sent when its fan-out is over (`Sent`), and then it is as if it had gone to all its sinks
at once. `Heaton` is built on that. `remove_sink` is the loop of the code, a recursion over the
vector. `flush_items` is not 0 (`FlushItemsAssumption`), as the header asks.

### Registry and Upstreams

Each upstream has the two maps (`sinks`, `names`) and the list of its library
(`attached`); `global_mutex` is one for all. A call is `Call`, then either `Refuse`, or
`Lock`, `Library`, `Record`: the library sends logs to a sink before the maps have it, so
these are two steps. Libraries of users may fail (`LibraryFails`); the three built-in ones
return OK whatever happens. `sinks()` and `sinks_by_name()` copy a map under the mutex and
change nothing. In `Registry` a call has one step of effect between `Invoke` and `Return`;
in `Upstreams` that step is `Library`, or `Refuse`, or `LibraryFails`.
There is one upstream object for each library, as `Heaton` has it; two objects for one
library, which nothing forbids, would have one map each.

### Heaton

The composition. Each thread in `initialize` goes through its three loops, one step for
each library, directory and sink; a failing step returns to the caller and leaves
everything as it is. A library needs two steps, since the upstreamer gets its
dispatcher (`SetUpUpstreamer`) before it is attached (`EnableLibrary`, which also
initializes the library). `create_target` and `create_sink` are the guards of `AddSink`,
`TargetFails` and `CreateSinkAborts`. Around it: users who enable upstreams and sinks of
their own, also with the names and log sinks of the built-in ones; directories that go
away, refuse to be made, or are there and refuse opens; logs, which `Send` dispatches as
soon as the library knows the upstreamer.

Upstreams and dispatcher are their abstract specifications: `Table` is `Registry`,
`Router` is `LogRouter`. `Upstreams` and `Dispatch` are shown to implement these, so here a
call of either is one step.

Abstractions. The options are a sequence of sinks with a level, 0 for the global one, in
the order in which `initialize` goes over them. A fatal log ends the process once all
sinks have it, but not always at once: a library that calls `Send` again before it ends the
process, as Abseil does with a stack trace, is one that sends a second log. Users who
reconfigure the dispatcher are left to `Dispatch`: with them
nothing about the sinks of the options would stay true. An asynchronous sink may never
return from its `initialize` (see `AsyncSink`); then the thread takes no further step,
which every behaviour here may do. The overloads of `enable_upstream` and
`disable_upstream` that take the name of an upstream refuse every name but the empty one
(`heaton.cc:40`, `60`), so they reach an upstream of a user with that name only (`Unnamed`):
there `UserDisables` is the second, and the first does what `UserEnables` does.
A directory that exists passes `initialize_directory`, also when it refuses opens (`Exists`);
then the sink fails (`Opens`).

### TargetBase and FileTarget

A target is used by one thread at a time, so a log is one step. The methods are
operators: each takes what it finds of writer, back-off, directory and files (`Io`) and
gives what it leaves, and they are composed as in the code: `check_file`, then the
rotation, then `Enqueue` or the renaming of the chain (`ShiftChain`). The disjuncts of
`apply_log` are its outcomes: same file, new file, a null writer that is closed (the
process ends: status `crashed`), and a log that cuts a rotating target's file.

Around the target, in `TargetBase`: a clock, a directory that is there, gone, or refuses
opens and to be made again, files that somebody removes, and a target that is shut down or destroyed at any
time, or dies with its process, and is initialized again over the files that are left.
`AppendFile` is not part of the repository; `OpenWriter` and `Reopen` say what the
targets rely on: an open creates the file but not its directory, a reopen brings back a
file that was removed.

Abstractions. Time is in ticks, of which an hour has two and a day four, and the time
zone is a number of ticks; a file is its kind and the number of its hour or day. Sizes
are left out: when a limit is set, any log may be the one that does not fit. `flush`
changes none of this state. A failed `initialize` leaves an object that its caller drops.

## 3. Runs

| run | bounds | shows |
|---|---|---|
| `AsyncSinkSafety` | 2 callers, 3 logs each, smallest queue 2, queue options 1 and 3; symmetric callers | `TypeOK`, `CallerOrder`, `EveryLogAccounted`, `MemoryBounded`, `TargetUntilClosed`, `ImplementsBuffer` |
| `AsyncSinkLiveness` | 2 callers, 2 logs each, queue 2 | `BatchDelivered`, `AwakeWorkerDelivers`, `InitializeReturnsUnlessMissed`, `ShutdownReturnsUnlessParking` |
| `AsyncSinkShutdownStopsThread` | 1 caller | shutdown may join a thread that never wakes (violated) |
| `AsyncSinkRunningSinkTakesLogs` | 1 caller | a running sink refuses logs (violated) |
| `DispatchSafety` | 2 threads, 1 log each, 2 sinks, 2 branches, stamps 1, 2, 4, two intervals | `TypeOK`, `SinksDistinct`, `AtMostOnce`, `SameOrder`, `FanOutComplete`, `NullOnlyGlobal`, `FlushHorizon`, `ImplementsRouter` |
| `FileTargetSafety` | 8 ticks (4 hours, 2 days), 8 sets of options, stamps up to an hour late, 1 fault and any number of repairs and restarts | `TypeOK`, `QueueAscending`, `BackOffIffNoWriter`, `FileBudget`, `BlindBounded`, `NeverRemovesCurrent`, `NotIntoThePast`, `RetryRecovers` |
| `FileTargetFailedOpenRetried` | 1 hourly target, 1 fault | a failed open at a rotation ends the process (violated) |
| `FileTargetRestartFindsFiles` | 1 hourly target, no fault | a restart in a new hour forgets all files (violated) |
| `UpstreamsSafety` | 2 threads, 2 upstreams, one of which may fail, 2 sinks, 2 names | `TypeOK`, `MapsInverse`, `LibraryAgrees`, `ImplementsRegistry` |
| `SyncSinkSafety` | 2 callers, 2 owners | `TypeOK`, `SafeOnceRemoved`, `LetGoShut` |
| `HeatonSafety` | 2 threads in initialize, 2 libraries, one of which doubles, 1 upstream (without a name) and 1 sink of a user, 4 options, 2 branches, 2 directories, 2 logs, 1 fault | `TypeOK`, `InitializedOnce`, `ReadyWhenOk`, `DispatcherFirst`, `CrashOnlyUnready`, `EveryLogOnce`, `DirectoriesFirst` |
| `HeatonSinksInTheirBranch` | the same without users | a sink for errors is in the branch of infos (violated) |

Why the bounds are enough. Six logs fill a queue of two or three twice over, so that
an overflow can come before, during and after the writing of a batch and of the last
batch; two callers are what it takes to interleave a queueing caller with another one
and with the worker. In `Dispatch` the logs of two threads in two sinks are the
smallest disagreement about order; the three stamps and the two intervals allow a
stamp before, at and after the flush time, and a flush time that would go back.

For `FileTarget`, four hours fill a queue of two files, overflow it, and leave time for a
restart before or after; two days do so for a daily target with one file. The options have
back-offs within and beyond an hour, checks by time, by number, by both and with every log,
truncation, no limit of files, a zone that is an hour before UTC, and one that is half an
hour before it. The theorems have no such bounds.

In `Upstreams` two sinks, two names and two threads are what a call needs to be refused
for the sink, for the name, or for what another thread has just done; upstreams share
nothing but the mutex, and one with a library that fails stands for the others. A sink has
no use for a third caller: the mutex lets one in, and calls past it do not see each other.
In `Heaton` a second library, directory, sink and branch is what each loop needs to fail
half way; the third library runs the same code. The options have sinks in a branch other
than that of the infos, directories that are missing with and without permission to make
them, a console without a directory, and the defaults. One log and one more show a crash,
a success and a doubled fatal log after a plain one.

Deadlock is not checked: a sink stops for good after its shutdown, and the hangs of
initialize and shutdown are states where nothing can happen. Those are what the
liveness properties are about.

### What the code does and its documentation does not say

* `initialize` and `shutdown` of an asynchronous sink each lose a notification in one
  window. `InitializeReturnsUnlessMissed` (the worker notifies before
  `initialize` waits) and `ShutdownReturnsUnlessParking` say that these windows are
  the only ones.
* `apply_log` and `flush` test `_running` the wrong way round: a sink takes logs only
  once its shutdown has begun. So `AsyncSink` has one useful phase, between the store
  of `_running` and the last swap, and all that is said about the queue is about that
  phase. Logs queued after the last swap stay where they are.
* A waiting worker is in state `kStarted`, not `kIdling`, so no producer wakes it; and
  a flush during the last writes enters the target together with the worker.
* After `shutdown` the target of an asynchronous sink is null, not the null target its
  header names, and a flush that got past `_running` before ends the process. `TargetUntilClosed` says that
  it does so only then, and that the worker does not.
* A synchronous sink can be shut down safely in one order only: out of the dispatcher
  first, then `shutdown`, by one thread (`SafeOnceRemoved`).
* A target that runs keeps at most `max_files + 1` files and one more for each failed
  open that it made up for (`FileBudget`), not `max_files`: the first file and those of
  retries are not in the queue. Files of earlier runs are on top of that.
* A check count or interval of 0 means no check only when both are 0, else a check with
  every log.
* A daily target names its files by hour from the first rotation on, and in a zone that
  is not UTC that rotation comes at the wrong hour; `NotIntoThePast` leaves that out.
* In a zone with half an hour the first rotation of an hourly target, computed in UTC,
  comes in the middle of an hour: the current file is opened again and enters the queue
  twice, and where `max_files` is 1 it is removed while the target writes to it.
  `QueueAscending` and `NeverRemovesCurrent` say that this is all: no file of a later
  period gets in front, and a queue of two or more files never loses the current one.
* A rotating target that is over its size renames the numbered files and opens the file of
  the current hour again, which is the one that was too large.
* The dispatcher never counts logs (`_current_items` stays 0), so only time triggers a
  flush, against the comment in `heaton/dispatch.h:112`, and its global sink is null until
  it is set: `CrashOnlyUnready` says until when. A later `set_global_sink(nullptr)` brings that
  back for the next log, but hits none that is under way (`NullOnlyGlobal`).
* `heaton/dispatch.h:32` asks for a `flush_items` that is not 0 and `set_options` takes it: then
  every log flushes and sets the flush time, also back. `FlushHorizon` leaves
  that out.
* Sinks for warnings, errors and fatals are added to the infos.
* A null target, the default of every sink option, ends the process in `create_sink`,
  although `heaton/target_base.h:29` says "null sink, do nothing".
* A failed `initialize` leaves what it has attached and cannot be called again.
* A fatal log of Abseil with a stack trace arrives twice (`EveryLogOnce` leaves it out).

### Fairness

`FairSpec` assumes weak fairness of the worker's steps, of the owner's steps inside
`initialize` and `shutdown`, and of each caller's steps inside a call: threads that
can run are run, a mutex that stays free is taken. Nobody has to call anything, and no
wait has to return without a notification (`SpuriousStart`, `SpuriousWakeup` have no
fairness). `_mutex` is held over two steps only by a worker about to wait.

## 4. Proofs

`AsyncSinkProofs` proves, for every set of callers, every number of logs, every
smallest queue and every set of queue options (assumptions `MaxLogsAssumption`,
`QueueAssumption`: natural numbers, and a smallest queue that is not 0):

| theorem | says |
|---|---|
| `TypeCorrect` | `Spec => []TypeOK` |
| `Refinement` | `Spec => ImplementsBuffer`, the sink implements `LogQueue` |
| `CallerOrderHolds` | `Spec => []CallerOrder` |
| `EveryLogAccountedHolds` | `Spec => []EveryLogAccounted` |
| `MemoryIsBounded` | `Spec => []MemoryBounded` |
| `TargetKept` | `Spec => []TargetUntilClosed` |

The argument. `Base` collects what every later proof needs: types, that a caller on
its way to the queue has issued a log (`EnqueueHasLog`), that the worker's own queue is
empty outside the two loops that write it (`BatchOnlyWhileWriting`, without which a
swap would put written logs back), and that nothing has happened before initialize
(`UntouchedWhileNew`). `AcceptedBefore` adds that an accepted log was issued and is
older than one its caller is still bringing. These are inductive. `StepKinds` sorts the
steps into those that leave the queue alone, swap, write, and enqueue; lemmas on
concatenation (`MoveHead`, `HeadOfConcat`, `PrefixOfConcat`) give what each does to
`delivered`, `batch` and `log_entities` seen as one sequence: nothing, nothing, one
`Deliver`, one `Accept` or `Overflow` of `LogQueue`. The order of a caller's logs
follows because an enqueued log is newer than all its caller's accepted ones. The
accounting needs that refused logs, too, are older than the one a caller brings, and that
the dropped ones are apart from the stream: that is where the order comes in, since in a
stream that is in order no log is twice.

`FileTargetProofs` proves, for every clock, directory, set of options and length of hours
and days (`TimeAssumption`, `OptionsAssumption`, `WriterAssumption`):

| theorem | says |
|---|---|
| `TypeCorrect` | `Spec => []TypeOK`; the queue never exceeds `max_files` |
| `WriterOrBackOff` | `Spec => []BackOffIffNoWriter` |
| `QueueAscendingHolds` | `Spec => []QueueAscending` |
| `BlindBoundedHolds` | `Spec => []BlindBounded` |
| `FileBudgetHolds` | `Spec => []FileBudget` |
| `NeverRemovesCurrentHolds` | `Spec => NeverRemovesCurrent` |
| `NotIntoThePastHolds` | `Spec => NotIntoThePast` |
| `RetryRecoversHolds` | `Spec => RetryRecovers` |

The inductive invariant `Inv` adds `NothingLeft`: an object that is not there has no
writer and no back-off, without which an initialize would inherit the old one. The lemmas
follow the methods: what `reopen_writer` and `check_file` leave is well typed and has a
back-off exactly when it has no writer (`ReopenWriterTypes`, `CheckFileTypes`), and each
outcome of a log keeps that (`LogInv`).

On top of `Inv` each property has an invariant of its own. `QueueInv`: all files of the
queue begin before the next rotation, which is on the hour but for the first one where
hours are not whole; a log that rotates is not before that time, so its file is not before
any file of the queue (`StampedFile`, `RotationStep`), and the front of a full queue is not
that file (`FrontIsOlder`). `RotationInv`: as long as no open failed, the next rotation is
not after the end of the period of the current file; a log that does not rotate is in that
period, and one that does opens the file of its own (`HourInPeriod`). `BlindInv`: logs in a
row to a removed file are logs since the last check. `BudgetInv`: besides the files that
were there and those of the queue there is a set of others, of which `initialize` and each
open that makes up for a failed one add one; the set is not in the model, the invariant
says that there is one. The lemmas about periods (`DivBounds` to `NextRotation`) are what
the code takes from civil time: an hour or a day begins at or before each of its moments,
and a day on the hour.

`UpstreamsProofs` proves, for all sets of threads, upstreams, sinks and names
(`UpstreamAssumption`):

| theorem | says |
|---|---|
| `TypeCorrect` | `Spec => []TypeOK` |
| `MapsInverseHolds` | `Spec => []MapsInverse` |
| `LibraryAgreesHolds` | `Spec => []LibraryAgrees` |
| `Refinement` | `Spec => ImplementsRegistry` |

The invariant says who holds the mutex (the threads past `Lock`), that a call past `Lock`
is still not refused, which the maps alone do not tell, and how `attached` differs from
the map: by the sink of a holder that has called the library and not yet recorded it.
The refinement goes step by step; `Library` is the step that takes effect, and `Record`
maps to a stutter because `AttachedAs` has the name already.

`SyncSinkProofs` proves, for any number of callers and owners (`SyncSinkAssumption`):

| theorem | says |
|---|---|
| `TypeCorrect` | `Spec => []TypeOK` |
| `SafeOnceRemovedHolds` | `Spec => []SafeOnceRemoved` |
| `LetGoShutHolds` | `Spec => []LetGoShut` |

A call that came through the dispatcher has the mutex (`CallsHoldMutex`), so once the sink
is out no call is under way (`QuietOnceRemoved`); nothing is shut before the flag is set
(`FlagFirst`), which without haste is after that (`RemovedFirst`).

`DispatchProofs` proves, for any number of threads, sinks, branches and logs, any stamps and
any options (`SinkAssumption`, `NumberAssumption`; `FlushHorizonHolds` also rests
on `FlushItemsAssumption`):

| theorem | says |
|---|---|
| `TypeCorrect` | `Spec => []TypeOK` |
| `SinksDistinctHolds` | `Spec => []SinksDistinct` |
| `AtMostOnceHolds` | `Spec => []AtMostOnce` |
| `SameOrderHolds` | `Spec => []SameOrder` |
| `FanOutCompleteHolds` | `Spec => []FanOutComplete` |
| `NullOnlyGlobalHolds` | `Spec => []NullOnlyGlobal` |
| `FlushHorizonHolds` | `Spec => []FlushHorizon` |
| `Refinement` | `Spec => ImplementsRouter` |

`TypeOK` and `SinksDistinct` together are inductive. The rest is about what holds while
the mutex is held, and `Inv` says it: who holds it (`MutexHeld`); that sinks have only logs
that were sent, and not the one that waits for the mutex (`Numbered`), so that a fan-out starts
with a log nobody has; that in a fan-out each sink of the log either is still to be called or
got the log last, and no other sink has it (`FanOut`). With that, a call gives a sink a log
that is new to it, and every sink that has the log already got nothing after it: this is
`AtMostOnce` and `SameOrder`. `FlushCalls` says that a flush calls no null pointer, since the
fan-out before it would have crashed. `TimeHorizon` is `FlushHorizon` while the mutex is held:
only the log being sent may be at or past the flush time, and once a flush has begun only in
sinks that it has still to call. TLC checked `Inv` on the instance of `DispatchSafety` before.
For the refinement, `SentSplits` says what `Sent` is: `received`, and in a fan-out without its
log. So all calls of a fan-out but the last map to stutters, the last one to `Route`
(`LastApplyImplements`), and a crash never gets there.

What `remove_sink` and `FlattenSeq` return for a vector of any length takes induction over it.
The induction theorems of the library cannot be used, since they take an operator; but a
property of numbers can be a set of numbers as well. `SequenceInduction` proves induction in
that form from the well-foundedness of the natural numbers (`UpTo`), that a recursion over
`0..N` has a solution (`RecursionExists`, without which nothing is known of a recursive
definition), and from these what `FlattenSeq` has in its range (`FlattenSeqProperties`).
`RemoveSink` in `DispatchProofs` does the same for the loop of `remove_sink`.

`HeatonProofs` proves, for any number of threads, libraries, users, options, directories,
logs and faults (`HeatonAssumption`):

| theorem | says |
|---|---|
| `TypeCorrect` | `Spec => []TypeOK` |
| `InitializedOnceHolds` | `Spec => []InitializedOnce` |
| `ReadyWhenOkHolds` | `Spec => []ReadyWhenOk` |
| `DispatcherFirstHolds` | `Spec => []DispatcherFirst` |
| `CrashOnlyUnreadyHolds` | `Spec => []CrashOnlyUnready` |
| `EveryLogOnceHolds` | `Spec => []EveryLogOnce` |
| `DirectoriesFirstHolds` | `Spec => []DirectoriesFirst` |

The invariant follows the one thread that got past `Begin` (`OneInitializer`) through its
loops: what holds of the libraries, the directories and the sinks it has done so far
(`LibrariesSoFar`, `DirectoriesSoFar`, `SinksSoFar`), and that nothing a user, a log or
another thread does undoes it. At the return these become `ReadyWhenOk`. For logs it adds
that what is still to be sent again was sent once (`LogsOK`) and that the global sink has
all of it (`GlobalHasAll`), and for the files that without a fault no directory refuses an
open (`NoneDenied`).

Model-checked only: the four liveness properties of `AsyncSinkLiveness`, since fairness is out
of TLAPS' reach. Every invariant, action property and refinement that a passing run checks is
proved.

## 5. What is left

1. Time zones that change their offset in `FileTarget`.
2. `Dispatch` composed with `AsyncSink`: the destructor of a sink under the dispatcher's
   mutex.

Not modelled, and not planned:

* Console targets and colors: pure output, without state. That all sinks share one console
  is in `SyncSink`.
* The log entity, levels, contents and wording of logs: data. Levels and stamps are values
  in the models.
* Parsing and comparing of log file names: nothing in the program calls it (and `valid_`,
  which starts false, is never set).
* A second thread that shuts an asynchronous sink down or destroys it (see `AsyncSink`).
* The exit of the process, where the singleton is destroyed while libraries may still log.
* The logging libraries, `AppendFile` and the file system beyond what heaton relies on.
* Build files and the example; the test directory holds no test.
