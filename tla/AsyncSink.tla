----------------------------- MODULE AsyncSink ------------------------------
(***************************************************************************)
(* heaton/sinks/async_sink.{h,cc}: a sink that queues logs under a mutex   *)
(* and lets one worker thread write them to its target.                    *)
(*                                                                         *)
(* Three kinds of threads take steps: the owner (initialize, then shutdown *)
(* or the destructor), the worker (thread_func) and the callers (apply_log *)
(* and flush).  A step is the code between two points where another thread *)
(* can interfere: an atomic load or store, taking a mutex, a wait.         *)
(*                                                                         *)
(* A log is <<c, n>>, the n-th one that caller c hands over.               *)
(***************************************************************************)
EXTENDS Naturals, Sequences, Functions

CONSTANTS Callers,         \* threads calling apply_log and flush
          MaxLogs,         \* bound: apply_log calls per caller
          MinQueueLength,  \* the 4096 of initialize, scaled down
          QueueLengths     \* values of SinkOption::max_queue_length

ASSUME MaxLogsAssumption == MaxLogs \in Nat
ASSUME QueueAssumption == /\ MinQueueLength \in Nat \ {0}
                          /\ QueueLengths \subseteq Nat

VARIABLES
  owner,           \* where the owner is in initialize or shutdown
  worker,          \* where the worker is in thread_func
  caller,          \* where each caller is in apply_log or flush
  crashed,         \* a call went through a null _target
  running,         \* _running
  max_queue_size,  \* _max_queue_size
  target,          \* _target: "null" or "target"
  state,           \* _state
  log_entities,    \* _log_entities
  batch,           \* what the worker's own log_entities still has to write
  issued,          \* history: apply_log calls made by each caller
  refused,         \* history: logs apply_log returned from at once
  cleared,         \* history: logs a full queue dropped
  delivered        \* history: logs written to the target, oldest first

callVars == <<caller, crashed>>
confVars == <<running, max_queue_size, target>>
queueVars == <<log_entities, batch>>
historyVars == <<issued, refused, cleared>>
vars == <<owner, worker, caller, crashed, running, max_queue_size, target, state,
          log_entities, batch, issued, refused, cleared, delivered>>

kInit == 0
kStarted == 1
kIdling == 2
kWorking == 3
kExiting == 4
kStop == 5

OwnerSteps == {"new", "starting", "start_wait", "ready",
               "notify", "join", "close", "closed"}
WorkerSteps == {"none", "created", "loop", "lock", "park", "waiting", "deliver",
                "exit", "last_lock", "drain", "done"}
CallerSteps == {"idle", "enqueue", "flush", "in_target"}

Log == Callers \X (1..MaxLogs)

Init ==
  /\ owner = "new"
  /\ worker = "none"
  /\ caller = [c \in Callers |-> "idle"]
  /\ crashed = FALSE
  /\ running = TRUE
  /\ max_queue_size = MinQueueLength
  /\ target = "null"
  /\ state = kInit
  /\ log_entities = <<>>
  /\ batch = <<>>
  /\ issued = [c \in Callers |-> 0]
  /\ refused = {}
  /\ cleared = {}
  /\ delivered = <<>>

\* _mutex is held across two steps only by a worker that found nothing to do,
\* until its wait releases it.
MutexFree == worker # "park"

\* _cond.notify_one(): the worker is the only thread that waits on _cond.
NotifyOne == worker' = IF worker = "waiting" THEN "lock" ELSE worker

OwnerGoes(from, to) ==
  /\ owner = from
  /\ owner' = to
  /\ UNCHANGED <<callVars, state, queueVars, historyVars, delivered>>

WorkerGoes(from, to) ==
  /\ worker = from
  /\ worker' = to
  /\ UNCHANGED <<callVars, confVars, historyVars>>

-----------------------------------------------------------------------------
(* The owner.                                                              *)

InitializeUnclamped(length) ==
  /\ OwnerGoes("new", "starting")
  /\ target' = "target"
  /\ max_queue_size' = length
  /\ worker' = "created"
  /\ UNCHANGED running

\* initialize up to the creation of the thread.
Initialize(length) ==
  /\ OwnerGoes("new", "starting")
  /\ target' = "target"
  /\ max_queue_size' = IF length < MinQueueLength THEN MinQueueLength ELSE length
  /\ worker' = "created"
  /\ UNCHANGED running

\* initialize takes _start_mutex and waits, without a condition to test.
WaitForStart ==
  /\ OwnerGoes("starting", "start_wait")
  /\ UNCHANGED <<worker, confVars>>

\* A wait may return without a notification.
SpuriousStart ==
  /\ OwnerGoes("start_wait", "ready")
  /\ UNCHANGED <<worker, confVars>>

\* shutdown.  The destructor runs the same statements; it is a shutdown after
\* which no caller calls again.
Shutdown ==
  /\ OwnerGoes("ready", "notify")
  /\ running' = FALSE
  /\ UNCHANGED <<worker, max_queue_size, target>>

NotifyWorkerForgotten ==
  /\ OwnerGoes("notify", "join")
  /\ UNCHANGED <<worker, confVars>>

NotifyWorker ==
  /\ OwnerGoes("notify", "join")
  /\ NotifyOne
  /\ UNCHANGED confVars

JoinDetached ==
  /\ OwnerGoes("join", "close")
  /\ UNCHANGED <<worker, confVars>>

\* join() returns when thread_func has returned.
Join ==
  /\ OwnerGoes("join", "close")
  /\ worker = "done"
  /\ UNCHANGED <<worker, confVars>>

\* _target->shutdown(), and NullTarget::create() gives a pointer nobody sets.
CloseTarget ==
  /\ OwnerGoes("close", "closed")
  /\ target' = "null"
  /\ UNCHANGED <<worker, running, max_queue_size>>

-----------------------------------------------------------------------------
(* The callers.  They have the sink once initialize has returned.          *)

Callable(c) == /\ owner \notin {"new", "starting", "start_wait"}
               /\ caller[c] = "idle"

\* apply_log up to taking _mutex: it returns at once while the sink runs.
ApplyLog(c) ==
  /\ Callable(c)
  /\ issued[c] < MaxLogs
  /\ issued' = [issued EXCEPT ![c] = @ + 1]
  /\ \/ /\ running
        /\ refused' = refused \cup {<<c, issued[c] + 1>>}
        /\ UNCHANGED caller
     \/ /\ ~running
        /\ caller' = [caller EXCEPT ![c] = "enqueue"]
        /\ UNCHANGED refused
  /\ UNCHANGED <<owner, worker, crashed, confVars, state, queueVars, cleared,
                 delivered>>

QueueFullLate == max_queue_size < Len(log_entities)

QueueFull == max_queue_size <= Len(log_entities)

apply_entity_given_up(entity) ==
  /\ log_entities' = IF QueueFull THEN <<>> ELSE Append(log_entities, entity)
  /\ cleared' = IF QueueFull THEN cleared \cup Range(log_entities) ELSE cleared

\* A full queue is emptied before the log goes in.
apply_entity(entity) ==
  /\ log_entities' = IF QueueFull THEN <<entity>> ELSE Append(log_entities, entity)
  /\ cleared' = IF QueueFull THEN cleared \cup Range(log_entities) ELSE cleared

\* notify_funcs[_state]: only the entry of kIdling notifies.
notify_funcs == IF state = kIdling THEN NotifyOne ELSE UNCHANGED worker

\* apply_log under _mutex.
Enqueue(c) ==
  /\ caller[c] = "enqueue"
  /\ MutexFree
  /\ apply_entity(<<c, issued[c]>>)
  /\ notify_funcs
  /\ caller' = [caller EXCEPT ![c] = "idle"]
  /\ UNCHANGED <<owner, crashed, confVars, state, batch, issued, refused,
                 delivered>>

\* flush returns at once while the sink runs.
CallFlush(c) ==
  /\ Callable(c)
  /\ ~running
  /\ caller' = [caller EXCEPT ![c] = "flush"]
  /\ UNCHANGED <<owner, worker, crashed, confVars, state, queueVars, historyVars,
                 delivered>>

\* _target->flush().  The call loads _target without a lock, so a shutdown may
\* replace _target, and free the target, before the call has returned.  Going
\* through a null _target, or a target that is gone, ends the process.
EnterTarget(c) ==
  /\ caller[c] = "flush"
  /\ caller' = [caller EXCEPT ![c] = IF target = "null" THEN "idle" ELSE "in_target"]
  /\ crashed' = (target = "null")
  /\ UNCHANGED <<owner, worker, confVars, state, queueVars, historyVars, delivered>>

LeaveTarget(c) ==
  /\ caller[c] = "in_target"
  /\ caller' = [caller EXCEPT ![c] = "idle"]
  /\ crashed' = (target = "null")
  /\ UNCHANGED <<owner, worker, confVars, state, queueVars, historyVars, delivered>>

-----------------------------------------------------------------------------
(* The worker, thread_func.                                                *)

WorkerStartSilent ==
  /\ WorkerGoes("created", "loop")
  /\ state' = kStarted
  /\ UNCHANGED <<owner, queueVars, delivered>>

\* _start_cond.notify_one() reaches the owner only if it waits already.
WorkerStart ==
  /\ WorkerGoes("created", "loop")
  /\ state' = kStarted
  /\ owner' = IF owner = "start_wait" THEN "ready" ELSE owner
  /\ UNCHANGED <<queueVars, delivered>>

WorkerLoop ==
  /\ WorkerGoes("loop", IF running THEN "lock" ELSE "exit")
  /\ UNCHANGED <<owner, state, queueVars, delivered>>

\* The worker takes _mutex; the condition of the inner while holds.
WorkerFindsNothing ==
  /\ WorkerGoes("lock", "park")
  /\ log_entities = <<>> /\ running
  /\ UNCHANGED <<owner, state, queueVars, delivered>>

\* The wait releases _mutex.
WorkerWait ==
  /\ WorkerGoes("park", "waiting")
  /\ state' = kStarted
  /\ UNCHANGED <<owner, queueVars, delivered>>

SpuriousWakeup ==
  /\ WorkerGoes("waiting", "lock")
  /\ UNCHANGED <<owner, state, queueVars, delivered>>

SwapQueuesCopied == batch' = log_entities /\ UNCHANGED log_entities

\* log_entities.swap(sink->_log_entities).
SwapQueues == batch' = log_entities /\ log_entities' = batch

\* The worker takes _mutex; the condition of the inner while does not hold.
WorkerSwap ==
  /\ WorkerGoes("lock", "deliver")
  /\ log_entities # <<>> \/ ~running
  /\ SwapQueues
  /\ state' = kWorking
  /\ UNCHANGED <<owner, delivered>>

WriteLast ==
  /\ batch # <<>>
  /\ delivered' = Append(delivered, batch[Len(batch)])
  /\ batch' = SubSeq(batch, 1, Len(batch) - 1)

\* One turn of either for loop.
WriteFirst ==
  /\ batch # <<>>
  /\ delivered' = Append(delivered, Head(batch))
  /\ batch' = Tail(batch)

WorkerWrite ==
  /\ \E loop \in {"deliver", "drain"} : WorkerGoes(loop, loop)
  /\ WriteFirst
  /\ UNCHANGED <<owner, state, log_entities>>

WorkerNextTurnEarly ==
  /\ WorkerGoes("deliver", "loop")
  /\ UNCHANGED <<owner, state, queueVars, delivered>>

WorkerNextTurn ==
  /\ WorkerGoes("deliver", "loop")
  /\ batch = <<>>
  /\ UNCHANGED <<owner, state, queueVars, delivered>>

WorkerExit ==
  /\ WorkerGoes("exit", "last_lock")
  /\ state' = kExiting
  /\ UNCHANGED <<owner, queueVars, delivered>>

WorkerLastSwapSkipped ==
  /\ WorkerGoes("last_lock", "drain")
  /\ UNCHANGED <<owner, state, queueVars, delivered>>

WorkerLastSwap ==
  /\ WorkerGoes("last_lock", "drain")
  /\ SwapQueues
  /\ UNCHANGED <<owner, state, delivered>>

WorkerStop ==
  /\ WorkerGoes("drain", "done")
  /\ batch = <<>>
  /\ state' = kStop
  /\ UNCHANGED <<owner, queueVars, delivered>>

-----------------------------------------------------------------------------
Owner == \/ \E length \in QueueLengths : Initialize(length)
         \/ WaitForStart \/ SpuriousStart
         \/ Shutdown \/ NotifyWorker \/ Join \/ CloseTarget

Caller(c) == \/ ApplyLog(c) \/ Enqueue(c)
             \/ CallFlush(c) \/ EnterTarget(c) \/ LeaveTarget(c)

Worker == \/ WorkerStart \/ WorkerLoop \/ WorkerFindsNothing \/ WorkerWait
          \/ WorkerSwap \/ WorkerWrite \/ WorkerNextTurn
          \/ WorkerExit \/ WorkerLastSwap \/ WorkerStop

Next == /\ ~crashed
        /\ Owner \/ (\E c \in Callers : Caller(c)) \/ Worker \/ SpuriousWakeup

Spec == Init /\ [][Next]_vars

\* The worker, and a thread inside a call, keep running.  Nobody has to make a
\* call and no wait has to return without a notification.
Fairness ==
  /\ WF_vars(~crashed /\ Worker)
  /\ WF_vars(~crashed /\ (WaitForStart \/ NotifyWorker \/ Join \/ CloseTarget))
  /\ \A c \in Callers :
       WF_vars(~crashed /\ (Enqueue(c) \/ EnterTarget(c) \/ LeaveTarget(c)))

FairSpec == Spec /\ Fairness

-----------------------------------------------------------------------------
(* Properties.                                                             *)

\* What waits to be written, and everything that is not dropped, oldest first.
Pending == batch \o log_entities
Stream == delivered \o Pending

Issued == UNION {{c} \X (1..issued[c]) : c \in Callers}
InFlight == {<<c, issued[c]>> : c \in {d \in Callers : caller[d] = "enqueue"}}
Accepted == Range(Stream) \cup cleared

\* Two logs of one caller are in the order of its calls.
InOrder(logs) ==
  \A i, j \in DOMAIN logs :
    i < j /\ logs[i][1] = logs[j][1] => logs[i][2] < logs[j][2]

\* Type invariant; _max_queue_size is never below the minimum of initialize.
TypeOK ==
  /\ owner \in OwnerSteps
  /\ worker \in WorkerSteps
  /\ caller \in [Callers -> CallerSteps]
  /\ crashed \in BOOLEAN
  /\ running \in BOOLEAN
  /\ max_queue_size \in Nat /\ max_queue_size >= MinQueueLength
  /\ target \in {"null", "target"}
  /\ state \in {kInit, kStarted, kIdling, kWorking, kExiting, kStop}
  /\ log_entities \in Seq(Log)
  /\ batch \in Seq(Log)
  /\ issued \in [Callers -> 0..MaxLogs]
  /\ refused \subseteq Log
  /\ cleared \subseteq Log
  /\ delivered \in Seq(Log)

\* Two logs of one caller reach the target in the order of its apply_log calls
\* and neither reaches it twice, through both swaps, a queue that overflows
\* while a batch is being written, and the drain at exit.
CallerOrder == InOrder(Stream)

\* No log disappears without a reason: every apply_log call is in exactly one
\* of the places a log can be: refused because the sink runs, between the test
\* of _running and the queue, dropped by a full queue, queued, being written,
\* or written.
EveryLogAccounted ==
  /\ Issued = refused \cup InFlight \cup cleared \cup Range(Stream)
  /\ refused \cap (InFlight \cup cleared \cup Range(Stream)) = {}
  /\ InFlight \cap (cleared \cup Range(Stream)) = {}
  /\ cleared \cap Range(Stream) = {}

\* What the sink holds in memory is bounded by two queues' worth of logs
\* whatever the callers do while the worker is stuck in a write.
MemoryBounded ==
  /\ Len(log_entities) <= max_queue_size
  /\ Len(batch) <= max_queue_size

\* Who uses the target when shutdown replaces it with a null one: not the
\* worker, because shutdown waits for the last log it will ever write; a flush
\* that passed the test of _running may be under way, and it ends the process
\* only once shutdown has replaced the target, at no moment before that.
TargetUntilClosed ==
  /\ worker \notin {"none", "done"} => target = "target"
  /\ crashed => owner = "closed"

\* The sink is a buffer in the sense of LogQueue: a log is accepted when it
\* enters the queue, both swaps and every state of the shutdown are invisible,
\* and an overflow gives up what is queued, at least MinQueueLength logs, but
\* nothing of the batch the worker has already taken.
Buffer == INSTANCE LogQueue WITH
  Entry <- Log, Limit <- MinQueueLength,
  pending <- Pending, seen <- Accepted

ImplementsBuffer == Buffer!Spec

\* A log the worker has taken out of the queue is written, however the owner
\* and the other callers interleave with the loop that writes it.
BatchDelivered ==
  \A l \in Log : l \in Range(batch) ~> l \in Range(delivered)

\* A log that is queued while the worker is not waiting and has not made its
\* last swap is written, or dropped by a queue that overflows: the last swap of
\* thread_func cannot miss it.
AwakeWorkerDelivers ==
  \A l \in Log :
    /\ l \in Range(log_entities)
    /\ worker \notin {"park", "waiting", "drain", "done"}
    ~> l \in Range(delivered) \cup cleared

\* Once it has created the thread, initialize returns, unless the thread has
\* notified before initialize waits: the wait, which tests nothing, can hang for
\* this reason and for no other.
InitializeReturnsUnlessMissed ==
  owner = "starting" ~> \/ owner = "ready"
                        \/ owner = "starting" /\ worker # "created"

\* shutdown returns, with the queue drained and the target closed, wherever the
\* worker is when it is notified except between its test and its wait.
ShutdownReturnsUnlessParking ==
  owner = "notify" /\ worker # "park" ~> owner = "closed"

-----------------------------------------------------------------------------
(* What comments and documents say and the code does not do.               *)

\* "stop thread" in shutdown and the destructor: the thread stops.
ShutdownStopsThread == owner = "notify" ~> worker = "done"

\* README.md, "transparently takes over log output ... into a unified
\* time-series stream": a log handed to a running sink is taken.
RunningSinkTakesLogs == refused = {}
=============================================================================
