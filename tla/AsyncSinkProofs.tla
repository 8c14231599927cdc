-------------------------- MODULE AsyncSinkProofs ---------------------------
(* What AsyncSink guarantees for every number of callers and every bound.  *)
EXTENDS AsyncSink, SequenceTheorems, TLAPS

USE MaxLogsAssumption, QueueAssumption

\* Sorts of the two ends of the queue.
LEMMA SwapTypes ==
  ASSUME TypeOK, SwapQueues
  PROVE  batch' \in Seq(Log) /\ log_entities' \in Seq(Log)
  BY DEF TypeOK, SwapQueues

LEMMA WriteTypes ==
  ASSUME TypeOK, WriteFirst
  PROVE  batch' \in Seq(Log) /\ delivered' \in Seq(Log)
<1>1. Head(batch) \in Log /\ Tail(batch) \in Seq(Log)
  BY HeadTailProperties DEF TypeOK, WriteFirst
<1> QED
  BY <1>1, AppendProperties DEF TypeOK, WriteFirst

\* A caller's step keeps the types; "issued" is positive inside apply_log.
EnqueueHasLog == \A c \in Callers : caller[c] = "enqueue" => issued[c] > 0

LEMMA OwnerTypes == ASSUME TypeOK, Owner PROVE TypeOK'
<1> USE DEF TypeOK, OwnerGoes, callVars, queueVars, historyVars, confVars, OwnerSteps, WorkerSteps
<1>1. ASSUME NEW length \in QueueLengths, Initialize(length) PROVE TypeOK'
  BY <1>1 DEF Initialize
<1>2. CASE WaitForStart
  BY <1>2 DEF WaitForStart
<1>3. CASE SpuriousStart
  BY <1>3 DEF SpuriousStart
<1>4. CASE Shutdown
  BY <1>4 DEF Shutdown
<1>5. CASE NotifyWorker
  BY <1>5 DEF NotifyWorker, NotifyOne
<1>6. CASE Join
  BY <1>6 DEF Join
<1>7. CASE CloseTarget
  BY <1>7 DEF CloseTarget
<1> QED
  BY <1>1, <1>2, <1>3, <1>4, <1>5, <1>6, <1>7 DEF Owner

LEMMA CallerTypes ==
  ASSUME TypeOK, EnqueueHasLog, NEW c \in Callers, Caller(c)
  PROVE  TypeOK' /\ EnqueueHasLog'
<1> USE DEF TypeOK, EnqueueHasLog, callVars, queueVars, historyVars, confVars, CallerSteps
<1>1. CASE ApplyLog(c)
  <2>1. <<c, issued[c] + 1>> \in Log
    BY <1>1 DEF ApplyLog, Log
  <2>2. issued[c] + 1 \in 0..MaxLogs
    BY <1>1 DEF ApplyLog
  <2>3. issued' \in [Callers -> 0..MaxLogs] /\ issued'[c] > 0
    BY <1>1, <2>2 DEF ApplyLog
  <2>4. refused' \subseteq Log /\ caller' \in [Callers -> CallerSteps]
    BY <1>1, <2>1 DEF ApplyLog
  <2>5. EnqueueHasLog'
    BY <1>1, <2>3 DEF ApplyLog
  <2> QED
    BY <1>1, <2>3, <2>4, <2>5 DEF ApplyLog
<1>2. CASE Enqueue(c)
  <2>1. <<c, issued[c]>> \in Log
    BY <1>2 DEF Enqueue, Log
  <2>2. log_entities' \in Seq(Log)
    BY <1>2, <2>1, AppendProperties DEF Enqueue, apply_entity
  <2>3. cleared' \subseteq Log
    BY <1>2, RangeOfSeq DEF Enqueue, apply_entity
  <2>4. worker' \in WorkerSteps
    BY <1>2 DEF Enqueue, notify_funcs, NotifyOne, WorkerSteps
  <2> QED
    BY <1>2, <2>2, <2>3, <2>4 DEF Enqueue
<1>3. CASE CallFlush(c)
  BY <1>3 DEF CallFlush
<1>4. CASE EnterTarget(c)
  BY <1>4 DEF EnterTarget
<1>5. CASE LeaveTarget(c)
  BY <1>5 DEF LeaveTarget
<1> QED
  BY <1>1, <1>2, <1>3, <1>4, <1>5 DEF Caller

LEMMA WorkerTypes ==
  ASSUME TypeOK, Worker \/ SpuriousWakeup
  PROVE  TypeOK'
<1> USE DEF WorkerGoes, callVars, queueVars, historyVars, confVars, WorkerSteps
<1>1. CASE WorkerStart
  BY <1>1 DEF WorkerStart, TypeOK, OwnerSteps
<1>2. CASE WorkerLoop
  BY <1>2 DEF WorkerLoop, TypeOK
<1>3. CASE WorkerFindsNothing
  BY <1>3 DEF WorkerFindsNothing, TypeOK
<1>4. CASE WorkerWait
  BY <1>4 DEF WorkerWait, TypeOK
<1>5. CASE WorkerSwap
  BY <1>5, SwapTypes DEF WorkerSwap, TypeOK
<1>6. CASE WorkerWrite
  BY <1>6, WriteTypes DEF WorkerWrite, TypeOK
<1>7. CASE WorkerNextTurn
  BY <1>7 DEF WorkerNextTurn, TypeOK
<1>8. CASE WorkerExit
  BY <1>8 DEF WorkerExit, TypeOK
<1>9. CASE WorkerLastSwap
  BY <1>9, SwapTypes DEF WorkerLastSwap, TypeOK
<1>10. CASE WorkerStop
  BY <1>10 DEF WorkerStop, TypeOK
<1>11. CASE SpuriousWakeup
  BY <1>11 DEF SpuriousWakeup, TypeOK
<1> QED
  BY <1>1, <1>2, <1>3, <1>4, <1>5, <1>6, <1>7, <1>8, <1>9, <1>10, <1>11 DEF Worker

\* A stuttering step keeps every state function.
LEMMA TypeInvariance == TypeOK /\ EnqueueHasLog /\ [Next]_vars => (TypeOK /\ EnqueueHasLog)'
<1> SUFFICES ASSUME TypeOK, EnqueueHasLog, [Next]_vars
             PROVE  (TypeOK /\ EnqueueHasLog)'
  OBVIOUS
<1>1. CASE Owner
  <2>1. UNCHANGED <<caller, issued>>
    BY <1>1 DEF Owner, Initialize, WaitForStart, SpuriousStart, Shutdown, NotifyWorker,
      Join, CloseTarget, OwnerGoes, callVars, historyVars
  <2> QED
    BY <1>1, <2>1, OwnerTypes DEF EnqueueHasLog
<1>2. CASE \E c \in Callers : Caller(c)
  BY <1>2, CallerTypes
<1>3. CASE Worker \/ SpuriousWakeup
  <2>1. UNCHANGED <<caller, issued>>
    BY <1>3 DEF Worker, SpuriousWakeup, WorkerStart, WorkerLoop, WorkerFindsNothing,
      WorkerWait, WorkerSwap, WorkerWrite, WorkerNextTurn, WorkerExit, WorkerLastSwap,
      WorkerStop, WorkerGoes, callVars, historyVars
  <2> QED
    BY <1>3, <2>1, WorkerTypes DEF EnqueueHasLog
<1>4. CASE UNCHANGED vars
  BY <1>4 DEF vars, TypeOK, EnqueueHasLog
<1> QED
  BY <1>1, <1>2, <1>3, <1>4 DEF Next

LEMMA InitTypes == Init => TypeOK /\ EnqueueHasLog
<1> SUFFICES ASSUME Init PROVE TypeOK /\ EnqueueHasLog
  OBVIOUS
<1>1. caller \in [Callers -> CallerSteps] /\ issued \in [Callers -> 0..MaxLogs]
  BY DEF Init, CallerSteps
<1>2. \A c \in Callers : caller[c] # "enqueue"
  BY DEF Init
<1>3. EnqueueHasLog
  BY <1>2 DEF EnqueueHasLog
<1>4. max_queue_size \in Nat /\ max_queue_size >= MinQueueLength
  BY DEF Init
<1>5. owner \in OwnerSteps /\ worker \in WorkerSteps
  BY DEF Init, OwnerSteps, WorkerSteps
<1>6. log_entities \in Seq(Log) /\ batch \in Seq(Log) /\ delivered \in Seq(Log)
  BY DEF Init
<1> QED
  BY <1>1, <1>3, <1>4, <1>5, <1>6 DEF Init, TypeOK

\* Every reachable state of the sink is well typed and its queue limit never
\* falls below the minimum that initialize enforces.
THEOREM TypeCorrect == Spec => []TypeOK
<1>1. TypeOK /\ EnqueueHasLog /\ [Next]_vars => (TypeOK /\ EnqueueHasLog)'
  BY TypeInvariance
<1>2. Init => TypeOK /\ EnqueueHasLog
  BY InitTypes
<1> QED
  BY <1>1, <1>2, PTL DEF Spec

-----------------------------------------------------------------------------
(* The queue as one sequence.                                              *)

\* Moving the head of the second part of a concatenation to the first part.
LEMMA MoveHead ==
  ASSUME NEW S, NEW d \in Seq(S), NEW p \in Seq(S), p # <<>>
  PROVE  Append(d, Head(p)) \o Tail(p) = d \o p
<1>1. Head(p) \in S /\ Tail(p) \in Seq(S) /\ Append(d, Head(p)) \in Seq(S)
  BY HeadTailProperties, AppendProperties
<1>2. Append(d, Head(p)) \o Tail(p) \in Seq(S) /\ d \o p \in Seq(S)
  BY <1>1, ConcatProperties
<1>3. Len(Append(d, Head(p)) \o Tail(p)) = Len(d \o p)
  BY <1>1, ConcatProperties, HeadTailProperties, AppendProperties
<1>4. ASSUME NEW i \in 1..Len(d \o p)
      PROVE  (Append(d, Head(p)) \o Tail(p))[i] = (d \o p)[i]
  BY <1>1, ConcatProperties, HeadTailProperties, AppendProperties
<1> QED
  BY <1>2, <1>3, <1>4, SeqEqual

LEMMA HeadOfConcat ==
  ASSUME NEW S, NEW p \in Seq(S), NEW q \in Seq(S), p # <<>>
  PROVE  /\ p \o q # <<>>
         /\ Head(p \o q) = Head(p)
         /\ Tail(p \o q) = Tail(p) \o q
<1>1. Tail(p) \in Seq(S) /\ Len(Tail(p)) = Len(p) - 1 /\ Len(p) > 0
  BY HeadTailProperties, EmptySeq
<1>2. p \o q \in Seq(S) /\ Len(p \o q) = Len(p) + Len(q)
  BY ConcatProperties
<1>3. p \o q # <<>> /\ Head(p \o q) = Head(p)
  BY <1>1, <1>2, ConcatProperties
<1>4. Tail(p \o q) \in Seq(S) /\ Tail(p) \o q \in Seq(S)
  BY <1>1, <1>2, <1>3, HeadTailProperties, ConcatProperties
<1>5. Len(Tail(p \o q)) = Len(Tail(p) \o q)
  BY <1>1, <1>2, <1>3, HeadTailProperties, ConcatProperties
<1>6. ASSUME NEW i \in 1..Len(Tail(p) \o q)
      PROVE  Tail(p \o q)[i] = (Tail(p) \o q)[i]
  BY <1>1, <1>2, <1>3, <1>5, HeadTailProperties, ConcatProperties
<1> QED
  BY <1>3, <1>4, <1>5, <1>6, SeqEqual

LEMMA AppendToConcat ==
  ASSUME NEW S, NEW p \in Seq(S), NEW q \in Seq(S), NEW e \in S
  PROVE  p \o Append(q, e) = Append(p \o q, e)
  BY AppendIsConcat, ConcatAssociative, ConcatProperties

LEMMA RangeOfSingle ==
  ASSUME NEW S, NEW e \in S
  PROVE  <<e>> \in Seq(S) /\ Range(<<e>>) = {e}
<1> DEFINE s == <<e>>
<1>1. s \in Seq(S) /\ Len(s) = 1 /\ s[1] = e
  OBVIOUS
<1> HIDE DEF s
<1>2. Range(s) = {s[i] : i \in 1..Len(s)}
  BY <1>1, RangeEquality
<1>3. Range(s) = {e}
  BY <1>1, <1>2
<1> QED
  BY <1>1, <1>3 DEF s

LEMMA RangeOfAppend ==
  ASSUME NEW S, NEW p \in Seq(S), NEW e \in S
  PROVE  Range(Append(p, e)) = Range(p) \cup {e}
<1> DEFINE s == <<e>>
<1>1. s \in Seq(S) /\ Range(s) = {e} /\ Append(p, e) = p \o s
  BY RangeOfSingle, AppendIsConcat
<1> HIDE DEF s
<1>2. Range(p \o s) = Range(p) \cup Range(s)
  BY <1>1, RangeConcatenation
<1> QED
  BY <1>1, <1>2

LEMMA PrefixOfConcat ==
  ASSUME NEW S, NEW p \in Seq(S), NEW q \in Seq(S)
  PROVE  SubSeq(p \o q, 1, Len(p)) = p
<1> DEFINE n == Len(p)
<1>1. n \in Nat /\ \A i \in 1..n : p[i] \in S
  BY LenProperties, ElementOfSeq
<1>2. \A i \in 1..n : (p \o q)[i] = p[i]
  BY ConcatProperties
<1>3. /\ SubSeq(p \o q, 1, n) \in Seq(S)
      /\ Len(SubSeq(p \o q, 1, n)) = n
      /\ \A i \in 1..n : SubSeq(p \o q, 1, n)[i] = (p \o q)[i]
  BY <1>1, <1>2, SubSeqProperties
<1> QED
  BY <1>2, <1>3, SeqEqual

-----------------------------------------------------------------------------
(* The sink implements the buffer.                                         *)

\* The worker holds a batch only in one of the two loops that write it.
BatchOnlyWhileWriting == worker \notin {"deliver", "drain"} => batch = <<>>

\* Nothing has happened to a sink whose initialize has not been called.
UntouchedWhileNew ==
  owner = "new" =>
    worker = "none" /\ log_entities = <<>> /\ \A c \in Callers : caller[c] = "idle"

\* What is accepted was issued, and a caller on its way to the queue still has
\* its latest log to itself.
AcceptedBefore ==
  \A l \in Accepted :
    /\ l[2] <= issued[l[1]]
    /\ caller[l[1]] = "enqueue" => l[2] < issued[l[1]]

Base == TypeOK /\ EnqueueHasLog /\ BatchOnlyWhileWriting /\ UntouchedWhileNew

LEMMA BaseInvariance == Base /\ [Next]_vars => Base'
<1> SUFFICES ASSUME Base, [Next]_vars
             PROVE  (BatchOnlyWhileWriting /\ UntouchedWhileNew)'
  BY TypeInvariance DEF Base
<1> USE DEF Base, BatchOnlyWhileWriting, UntouchedWhileNew
<1>1. CASE Owner
  BY <1>1 DEF Owner, Initialize, WaitForStart, SpuriousStart, Shutdown, NotifyWorker,
    NotifyOne, Join, CloseTarget, OwnerGoes, queueVars
<1>2. ASSUME NEW c \in Callers, Caller(c) PROVE  (BatchOnlyWhileWriting /\ UntouchedWhileNew)'
  BY <1>2 DEF Caller, Callable, ApplyLog, Enqueue, notify_funcs, NotifyOne, CallFlush, EnterTarget,
    LeaveTarget, queueVars
<1>3. CASE Worker \/ SpuriousWakeup
  BY <1>3 DEF Worker, SpuriousWakeup, WorkerStart, WorkerLoop, WorkerFindsNothing,
    WorkerWait, WorkerSwap, SwapQueues, WorkerWrite, WorkerNextTurn, WorkerExit,
    WorkerLastSwap, WorkerStop, WorkerGoes, queueVars
<1>4. CASE UNCHANGED vars
  BY <1>4 DEF vars
<1> QED
  BY <1>1, <1>2, <1>3, <1>4 DEF Next

\* What the three kinds of steps that touch the queue do to it as a whole.
LEMMA SwapKeepsPending ==
  ASSUME TypeOK, batch = <<>>, SwapQueues
  PROVE  Pending' = Pending
  BY ConcatEmptySeq DEF TypeOK, SwapQueues, Pending

LEMMA AcceptedParts ==
  ASSUME TypeOK
  PROVE  Accepted = Range(delivered) \cup Range(batch) \cup Range(log_entities) \cup cleared
<1> USE DEF TypeOK
<1>1. Pending \in Seq(Log) /\ Range(Pending) = Range(batch) \cup Range(log_entities)
  BY ConcatProperties, RangeConcatenation DEF Pending
<1>2. Range(Stream) = Range(delivered) \cup Range(Pending)
  BY <1>1, RangeConcatenation DEF Stream
<1> QED
  BY <1>1, <1>2 DEF Accepted

LEMMA WriteDelivers ==
  ASSUME TypeOK, WriteFirst, UNCHANGED <<log_entities, cleared>>
  PROVE  Buffer!Deliver /\ Stream' = Stream /\ Accepted' = Accepted
<1>1. batch \in Seq(Log) /\ log_entities \in Seq(Log) /\ batch # <<>>
  BY DEF TypeOK, WriteFirst
<1>2. Pending # <<>> /\ Head(Pending) = Head(batch) /\ Tail(Pending) = Tail(batch) \o log_entities
  BY <1>1, HeadOfConcat DEF Pending
<1>3. Pending' = Tail(Pending) /\ delivered' = Append(delivered, Head(Pending))
  BY <1>2 DEF WriteFirst, Pending
<1>4. Pending \in Seq(Log) /\ delivered \in Seq(Log)
  BY ConcatProperties DEF TypeOK, Pending
<1>5. Stream' = Stream
  BY <1>2, <1>3, <1>4, MoveHead DEF Stream
<1>6. Accepted' = Accepted
  BY <1>5 DEF Accepted
<1> QED
  BY <1>2, <1>3, <1>5, <1>6 DEF Buffer!Deliver

LEMMA EnqueueAccepts ==
  ASSUME TypeOK, NEW e \in Log, apply_entity(e), UNCHANGED <<batch, delivered>>
  PROVE  /\ Accepted' = Accepted \cup {e}
         /\ e \notin Accepted => Buffer!Accept(e) \/ Buffer!Overflow(e)
         /\ \/ Stream' = Append(Stream, e)
            \/ Stream' = Append(delivered \o batch, e)
<1> USE DEF TypeOK
<1>1. log_entities' \in Seq(Log)
  BY EmptySeq, AppendProperties DEF apply_entity
<1>2. CASE ~QueueFull
  <2>1. log_entities' = Append(log_entities, e) /\ cleared' = cleared
    BY <1>2 DEF apply_entity
  <2>2. Pending' = Append(Pending, e) /\ Pending \in Seq(Log)
    BY <2>1, AppendToConcat, ConcatProperties DEF Pending
  <2>3. Stream' = Append(Stream, e) /\ Stream \in Seq(Log)
    BY <2>2, AppendToConcat, ConcatProperties DEF Stream
  <2>4. Accepted' = Accepted \cup {e}
    BY <2>1, <2>3, RangeOfAppend DEF Accepted
  <2> QED
    BY <2>2, <2>3, <2>4 DEF Buffer!Accept, Buffer!Fresh
<1>3. CASE QueueFull
  <2>1. log_entities' = <<e>> /\ cleared' = cleared \cup Range(log_entities)
    BY <1>3 DEF apply_entity
  <2>2. Accepted' = Range(Stream') \cup cleared'
    BY DEF Accepted
  <2>3. Pending' = Append(batch, e)
    BY <2>1, AppendIsConcat DEF Pending
  <2>4. Stream' = Append(delivered \o batch, e)
    BY <2>3, AppendToConcat DEF Stream
  <2>5. delivered \o batch \in Seq(Log)
    BY ConcatProperties
  <2>6. Range(Stream') = Range(delivered) \cup Range(batch) \cup {e}
    <3> DEFINE d == delivered \o batch
    <3>1. d \in Seq(Log) /\ Stream' = Append(d, e) /\ Range(d) = Range(delivered) \cup Range(batch)
      BY <2>4, <2>5, RangeConcatenation
    <3> HIDE DEF d
    <3> QED
      BY <3>1, RangeOfAppend
  <2>7. Accepted' = Accepted \cup {e}
    BY <2>1, <2>2, <2>6, AcceptedParts
  <2>8. SubSeq(Pending, 1, Len(batch)) = batch
    BY PrefixOfConcat DEF Pending
  <2>9. Len(batch) \in 0..Len(Pending) /\ Len(Pending) - Len(batch) >= MinQueueLength
    <3>1. Len(Pending) = Len(batch) + Len(log_entities)
      BY ConcatProperties DEF Pending
    <3> QED
      BY <1>3, <3>1, LenProperties DEF QueueFull
  <2> QED
    BY <2>3, <2>4, <2>7, <2>8, <2>9 DEF Buffer!Overflow, Buffer!Fresh
<1> QED
  BY <1>2, <1>3

-----------------------------------------------------------------------------
(* Which steps touch the queue, and what callers do meanwhile.             *)

LEMMA StepKinds ==
  ASSUME Base, [Next]_vars
  PROVE  \/ UNCHANGED <<queueVars, delivered, cleared>>
         \/ batch = <<>> /\ SwapQueues /\ UNCHANGED <<delivered, cleared>>
         \/ WriteFirst /\ UNCHANGED <<log_entities, cleared>>
         \/ \E c \in Callers : Enqueue(c)
<1> USE DEF queueVars, historyVars
<1>1. CASE Owner
  BY <1>1 DEF Owner, Initialize, WaitForStart, SpuriousStart, Shutdown, NotifyWorker, Join,
    CloseTarget, OwnerGoes
<1>2. ASSUME NEW c \in Callers, Caller(c), ~Enqueue(c)
      PROVE  UNCHANGED <<queueVars, delivered, cleared>>
  BY <1>2 DEF Caller, ApplyLog, CallFlush, EnterTarget, LeaveTarget
<1>3. CASE WorkerSwap \/ WorkerLastSwap
  BY <1>3 DEF Base, BatchOnlyWhileWriting, WorkerSwap, WorkerLastSwap, WorkerGoes
<1>4. CASE WorkerWrite
  BY <1>4 DEF WorkerWrite, WorkerGoes
<1>5. CASE (Worker \/ SpuriousWakeup) /\ ~WorkerSwap /\ ~WorkerLastSwap /\ ~WorkerWrite
  BY <1>5 DEF Worker, SpuriousWakeup, WorkerStart, WorkerLoop, WorkerFindsNothing,
    WorkerWait, WorkerNextTurn, WorkerExit, WorkerStop, WorkerGoes
<1>6. CASE UNCHANGED vars
  BY <1>6 DEF vars
<1> QED
  BY <1>1, <1>2, <1>3, <1>4, <1>5, <1>6 DEF Next

LEMMA CallerProgress ==
  ASSUME Base, [Next]_vars, NEW d \in Callers
  PROVE  /\ issued'[d] >= issued[d]
         /\ caller'[d] = "enqueue" /\ issued'[d] = issued[d] => caller[d] = "enqueue"
<1> USE DEF Base, TypeOK
<1>1. CASE Owner
  BY <1>1 DEF Owner, Initialize, WaitForStart, SpuriousStart, Shutdown, NotifyWorker, Join,
    CloseTarget, OwnerGoes, callVars, historyVars
<1>2. ASSUME NEW c \in Callers, ApplyLog(c)
      PROVE  issued' = [issued EXCEPT ![c] = @ + 1] /\ (d # c => caller'[d] = caller[d])
  BY <1>2 DEF ApplyLog
<1>3. ASSUME NEW c \in Callers, Caller(c), ~ApplyLog(c)
      PROVE  issued' = issued /\ (caller'[d] = "enqueue" => caller[d] = "enqueue")
  BY <1>3 DEF Caller, Enqueue, CallFlush, EnterTarget, LeaveTarget, historyVars
<1>4. CASE Worker \/ SpuriousWakeup
  BY <1>4 DEF Worker, SpuriousWakeup, WorkerStart, WorkerLoop, WorkerFindsNothing,
    WorkerWait, WorkerSwap, WorkerWrite, WorkerNextTurn, WorkerExit, WorkerLastSwap,
    WorkerStop, WorkerGoes, callVars, historyVars
<1>5. CASE UNCHANGED vars
  BY <1>5 DEF vars
<1> QED
  BY <1>1, <1>2, <1>3, <1>4, <1>5 DEF Next

LEMMA AcceptedLogs == ASSUME TypeOK PROVE Accepted \subseteq Log
  BY AcceptedParts, RangeOfSeq DEF TypeOK

LEMMA Unaccepted ==
  ASSUME Base, AcceptedBefore, NEW c \in Callers, Enqueue(c)
  PROVE  /\ <<c, issued[c]>> \in Log \ Accepted
         /\ apply_entity(<<c, issued[c]>>) /\ UNCHANGED <<batch, delivered>>
<1>1. <<c, issued[c]>> \in Log
  BY DEF Base, TypeOK, EnqueueHasLog, Enqueue, Log
<1>2. <<c, issued[c]>> \notin Accepted
  BY DEF Base, TypeOK, AcceptedBefore, Enqueue
<1> QED
  BY <1>1, <1>2 DEF Enqueue

LEMMA QueueStep ==
  ASSUME Base, AcceptedBefore, [Next]_vars
  PROVE  \/ UNCHANGED <<Pending, Stream, Accepted, delivered>>
         \/ Buffer!Deliver /\ Stream' = Stream /\ Accepted' = Accepted
         \/ \E c \in Callers : Enqueue(c)
<1>1. CASE UNCHANGED <<queueVars, delivered, cleared>>
  BY <1>1 DEF queueVars, Pending, Stream, Accepted
<1>2. CASE batch = <<>> /\ SwapQueues /\ UNCHANGED <<delivered, cleared>>
  BY <1>2, SwapKeepsPending DEF Base, Stream, Accepted
<1>3. CASE WriteFirst /\ UNCHANGED <<log_entities, cleared>>
  BY <1>3, WriteDelivers DEF Base
<1> QED
  BY <1>1, <1>2, <1>3, StepKinds

LEMMA AcceptedBeforeInvariance == Base /\ AcceptedBefore /\ [Next]_vars => AcceptedBefore'
<1> SUFFICES ASSUME Base, AcceptedBefore, [Next]_vars, NEW l \in Accepted'
             PROVE  /\ l[2] <= issued'[l[1]]
                    /\ caller'[l[1]] = "enqueue" => l[2] < issued'[l[1]]
  BY DEF AcceptedBefore
<1>1. TypeOK /\ TypeOK'
  BY BaseInvariance DEF Base
<1>2. CASE l \in Accepted
  <2>1. l[1] \in Callers /\ l[2] \in Nat
    BY <1>1, <1>2, AcceptedLogs DEF Log
  <2>2. issued[l[1]] \in Nat /\ issued'[l[1]] \in Nat
    BY <1>1, <2>1 DEF TypeOK
  <2>3. l[2] <= issued[l[1]] /\ (caller[l[1]] = "enqueue" => l[2] < issued[l[1]])
    BY <1>2 DEF AcceptedBefore
  <2> QED
    BY <2>1, <2>2, <2>3, CallerProgress
<1>3. CASE l \notin Accepted
  <2>1. PICK c \in Callers : Enqueue(c)
    BY <1>3, QueueStep
  <2>2. Accepted' = Accepted \cup {<<c, issued[c]>>}
    BY <1>1, <2>1, Unaccepted, EnqueueAccepts
  <2>3. l = <<c, issued[c]>>
    BY <1>3, <2>2
  <2>4. issued' = issued /\ caller'[c] = "idle" /\ issued[c] \in Nat
    BY <1>1, <2>1 DEF Enqueue, TypeOK
  <2> QED
    BY <2>3, <2>4
<1> QED
  BY <1>2, <1>3

LEMMA BufferStep == Base /\ AcceptedBefore /\ [Next]_vars => [Buffer!Next]_(Buffer!vars)
<1> SUFFICES ASSUME Base, AcceptedBefore, [Next]_vars
             PROVE  Buffer!Next \/ UNCHANGED Buffer!vars
  OBVIOUS
<1>1. CASE UNCHANGED <<Pending, Stream, Accepted, delivered>>
  BY <1>1 DEF Buffer!vars
<1>2. CASE Buffer!Deliver
  BY <1>2 DEF Buffer!Next
<1>3. ASSUME NEW c \in Callers, Enqueue(c) PROVE Buffer!Next
  BY <1>3, Unaccepted, EnqueueAccepts DEF Base, Buffer!Next
<1> QED
  BY <1>1, <1>2, <1>3, QueueStep

LEMMA InitBase ==
  ASSUME Init
  PROVE  /\ Base /\ AcceptedBefore /\ Buffer!Init
         /\ Stream = <<>> /\ Accepted = {}
<1>1. Base
  BY InitTypes DEF Init, Base, BatchOnlyWhileWriting, UntouchedWhileNew
<1>2. Pending = <<>> /\ Stream = <<>>
  BY EmptySeq, ConcatEmptySeq DEF Init, Pending, Stream
<1>3. Accepted = {}
  BY <1>2 DEF Init, Accepted, Range
<1> QED
  BY <1>1, <1>2, <1>3 DEF Init, AcceptedBefore, Buffer!Init

\* The sink implements the buffer LogQueue describes: logs leave it in the order
\* they were accepted, each once, and only an overflow gives some up.
THEOREM Refinement == Spec => ImplementsBuffer
<1>1. Init => Base /\ AcceptedBefore /\ Buffer!Init
  BY InitBase
<1>2. Base /\ AcceptedBefore /\ [Next]_vars
        => (Base /\ AcceptedBefore)' /\ [Buffer!Next]_(Buffer!vars)
  BY BaseInvariance, AcceptedBeforeInvariance, BufferStep
<1> QED
  BY <1>1, <1>2, PTL DEF Spec, ImplementsBuffer, Buffer!Spec

-----------------------------------------------------------------------------
(* The order of a caller's logs.                                           *)

LEMMA InOrderAppend ==
  ASSUME NEW s \in Seq(Log), NEW e \in Log, InOrder(s),
         \A l \in Range(s) : l[1] = e[1] => l[2] < e[2]
  PROVE  InOrder(Append(s, e))
<1> DEFINE t == Append(s, e)
<1>1. /\ Len(s) \in Nat /\ DOMAIN s = 1..Len(s) /\ DOMAIN t = 1..(Len(s) + 1)
      /\ \A i \in 1..Len(s) : t[i] = s[i]
      /\ t[Len(s) + 1] = e
  BY AppendProperties, LenProperties
<1>2. \A i \in 1..Len(s) : s[i] \in Range(s)
  BY <1>1 DEF Range
<1> HIDE DEF t
<1>3. ASSUME NEW i \in DOMAIN t, NEW j \in DOMAIN t, i < j, t[i][1] = t[j][1]
      PROVE  t[i][2] < t[j][2]
  <2>1. i \in 1..Len(s) /\ t[i] = s[i]
    BY <1>1, <1>3
  <2>2. CASE j \in 1..Len(s)
    BY <1>1, <1>3, <2>1, <2>2 DEF InOrder
  <2>3. CASE j = Len(s) + 1
    BY <1>1, <1>2, <1>3, <2>1, <2>3
  <2> QED
    BY <1>1, <2>2, <2>3
<1>4. InOrder(t)
  BY <1>3 DEF InOrder
<1> QED
  BY <1>4 DEF t

LEMMA InOrderPrefix ==
  ASSUME NEW s \in Seq(Log), NEW q \in Seq(Log), InOrder(s \o q)
  PROVE  InOrder(s)
<1> DEFINE t == s \o q
<1>1. /\ DOMAIN s = 1..Len(s) /\ DOMAIN t = 1..(Len(s) + Len(q))
      /\ Len(s) \in Nat /\ Len(q) \in Nat
      /\ \A i \in 1..Len(s) : t[i] = s[i]
  BY ConcatProperties, LenProperties
<1>2. InOrder(t)
  OBVIOUS
<1> HIDE DEF t
<1>3. DOMAIN s \subseteq DOMAIN t
  BY <1>1
<1> QED
  BY <1>1, <1>2, <1>3 DEF InOrder

LEMMA CallerOrderInvariance ==
  Base /\ AcceptedBefore /\ CallerOrder /\ [Next]_vars => CallerOrder'
<1> SUFFICES ASSUME Base, AcceptedBefore, CallerOrder, [Next]_vars PROVE CallerOrder'
  OBVIOUS
<1>1. CASE Stream' = Stream
  BY <1>1 DEF CallerOrder
<1>2. ASSUME NEW c \in Callers, Enqueue(c) PROVE CallerOrder'
  <2> DEFINE e == <<c, issued[c]>>
  <2> DEFINE p == delivered \o batch
  <2>1. Stream' = Append(Stream, e) \/ Stream' = Append(p, e)
    BY <1>2, Unaccepted, EnqueueAccepts DEF Base
  <2>2. e \in Log /\ e[1] = c /\ e[2] = issued[c]
    BY <1>2, Unaccepted
  <2>3. \A l \in Accepted : l[1] = c => l[2] < issued[c]
    BY <1>2 DEF AcceptedBefore, Enqueue
  <2> USE DEF Base, TypeOK
  <2>4. p \in Seq(Log) /\ Stream \in Seq(Log) /\ Stream = p \o log_entities
    <3>1. p \in Seq(Log) /\ Pending \in Seq(Log)
      BY ConcatProperties DEF Pending
    <3>2. Stream \in Seq(Log)
      BY <3>1, ConcatProperties DEF Stream
    <3>3. (delivered \o batch) \o log_entities = delivered \o (batch \o log_entities)
      BY ConcatAssociative
    <3> QED
      BY <3>1, <3>2, <3>3 DEF Stream, Pending
  <2>5. Range(p) \subseteq Range(Stream) /\ Range(Stream) \subseteq Accepted
    <3> HIDE DEF p
    <3>1. Range(Stream) = Range(p) \cup Range(log_entities)
      BY <2>4, RangeConcatenation
    <3> QED
      BY <3>1 DEF Accepted
  <2>6. InOrder(p) /\ InOrder(Stream)
    <3> HIDE DEF p
    <3> QED
      BY <2>4, InOrderPrefix DEF CallerOrder
  <2> HIDE DEF e, p
  <2> QED
    BY <2>1, <2>2, <2>3, <2>4, <2>5, <2>6, InOrderAppend DEF CallerOrder
<1> QED
  BY <1>1, <1>2, QueueStep

\* Of two logs of one caller the earlier is written first and neither is written
\* twice, for every number of callers, every queue limit and every schedule.
THEOREM CallerOrderHolds == Spec => []CallerOrder
<1>1. Init => Base /\ AcceptedBefore /\ CallerOrder
  BY InitBase DEF CallerOrder, InOrder
<1>2. Base /\ AcceptedBefore /\ CallerOrder /\ [Next]_vars
        => (Base /\ AcceptedBefore /\ CallerOrder)'
  BY BaseInvariance, AcceptedBeforeInvariance, CallerOrderInvariance
<1> QED
  BY <1>1, <1>2, PTL DEF Spec

-----------------------------------------------------------------------------
(* Where each log is.                                                      *)

\* A refused log was issued, and is older than one its caller is bringing.
RefusedBefore ==
  \A l \in refused :
    /\ l[2] <= issued[l[1]]
    /\ caller[l[1]] = "enqueue" => l[2] < issued[l[1]]

Accounted == EveryLogAccounted /\ RefusedBefore

LEMMA DisjointParts ==
  ASSUME NEW p \in Seq(Log), NEW q \in Seq(Log), InOrder(p \o q)
  PROVE  Range(p) \cap Range(q) = {}
<1> DEFINE t == p \o q
<1>1. /\ DOMAIN p = 1..Len(p) /\ DOMAIN q = 1..Len(q) /\ DOMAIN t = 1..(Len(p) + Len(q))
      /\ Len(p) \in Nat /\ Len(q) \in Nat
      /\ \A i \in 1..Len(p) : t[i] = p[i]
      /\ \A j \in 1..Len(q) : t[Len(p) + j] = q[j]
  BY ConcatProperties, LenProperties
<1>2. InOrder(t)
  OBVIOUS
<1> HIDE DEF t
<1>3. ASSUME NEW i \in 1..Len(p), NEW j \in 1..Len(q) PROVE p[i] # q[j]
  <2>1. i \in DOMAIN t /\ Len(p) + j \in DOMAIN t /\ i < Len(p) + j
    BY <1>1
  <2>2. t[i][1] = t[Len(p) + j][1] => t[i][2] < t[Len(p) + j][2]
    BY <1>2, <2>1 DEF InOrder
  <2>3. p[i] \in Log
    BY ElementOfSeq
  <2>4. p[i][2] \in Nat
    BY <2>3 DEF Log
  <2> QED
    BY <1>1, <2>2, <2>4
<1> QED
  BY <1>1, <1>3 DEF Range

LEMMA EnqueueAccounts ==
  ASSUME Base, AcceptedBefore, CallerOrder, Accounted, NEW c \in Callers, Enqueue(c)
  PROVE  Accounted'
<1> DEFINE e == <<c, issued[c]>>
<1>1. e \in Log \ Accepted /\ apply_entity(e) /\ UNCHANGED <<batch, delivered>>
  BY Unaccepted
<1>2. Accepted' = Accepted \cup {e}
  BY <1>1, EnqueueAccepts DEF Base
<1>3. /\ caller' = [caller EXCEPT ![c] = "idle"] /\ caller[c] = "enqueue"
      /\ UNCHANGED <<issued, refused>>
      /\ caller \in [Callers -> CallerSteps]
  BY DEF Enqueue, Base, TypeOK
<1>4. Issued' = Issued
  BY <1>3 DEF Issued
<1>5. InFlight' = InFlight \ {e} /\ e \in InFlight
  BY <1>3 DEF InFlight
<1>6. RefusedBefore' /\ e \notin refused
  BY <1>3 DEF Accounted, RefusedBefore, EveryLogAccounted, InFlight
<1>7. cleared' \cap Range(Stream') = {}
  <2> USE DEF Base, TypeOK
  <2> DEFINE p == delivered \o batch
  <2>1. p \in Seq(Log) /\ log_entities \in Seq(Log) /\ Stream = p \o log_entities
    <3>1. p \in Seq(Log) /\ (delivered \o batch) \o log_entities = delivered \o (batch \o log_entities)
      BY ConcatProperties, ConcatAssociative
    <3> QED
      BY <3>1 DEF Stream, Pending
  <2>2. Range(Stream) = Range(p) \cup Range(log_entities)
    <3> HIDE DEF p
    <3> QED
      BY <2>1, RangeConcatenation
  <2>3. Range(p) \cap Range(log_entities) = {}
    <3>1. InOrder(p \o log_entities)
      BY <2>1 DEF CallerOrder
    <3> HIDE DEF p
    <3> QED
      BY <2>1, <3>1, DisjointParts
  <2>4. e \notin cleared /\ e \notin Range(Stream) /\ cleared \cap Range(Stream) = {}
    BY <1>1 DEF Accepted, Accounted, EveryLogAccounted
  <2>5. Stream' = Append(IF QueueFull THEN p ELSE Stream, e)
    <3>1. CASE QueueFull
      <4>1. log_entities' = <<e>> /\ Pending' = Append(batch, e)
        BY <1>1, <3>1, AppendIsConcat DEF apply_entity, Pending
      <4> QED
        BY <1>1, <3>1, <4>1, AppendToConcat DEF Stream
    <3>2. CASE ~QueueFull
      <4>1. log_entities' = Append(log_entities, e)
        BY <1>1, <3>2 DEF apply_entity
      <4>2. Pending' = Append(Pending, e) /\ Pending \in Seq(Log)
        BY <1>1, <4>1, AppendToConcat, ConcatProperties DEF Pending
      <4> QED
        BY <1>1, <3>2, <4>2, AppendToConcat DEF Stream
    <3> QED
      BY <3>1, <3>2
  <2>6. cleared' = IF QueueFull THEN cleared \cup Range(log_entities) ELSE cleared
    BY <1>1 DEF apply_entity
  <2>7. Stream \in Seq(Log)
    <3> HIDE DEF p
    <3> QED
      BY <2>1, ConcatProperties
  <2> HIDE DEF p, e
  <2>8. CASE QueueFull
    <3>1. Range(Stream') = Range(p) \cup {e}
      BY <1>1, <2>1, <2>5, <2>8, RangeOfAppend
    <3> QED
      BY <2>2, <2>3, <2>4, <2>6, <2>8, <3>1
  <2>9. CASE ~QueueFull
    <3>1. Range(Stream') = Range(Stream) \cup {e}
      BY <1>1, <2>5, <2>7, <2>9, RangeOfAppend
    <3> QED
      BY <2>4, <2>6, <2>9, <3>1
  <2> QED
    BY <2>8, <2>9
<1>8. Accepted' = cleared' \cup Range(Stream') /\ Accepted = cleared \cup Range(Stream)
  BY DEF Accepted
<1> HIDE DEF e
<1> QED
  BY <1>1, <1>2, <1>3, <1>4, <1>5, <1>6, <1>7, <1>8 DEF Accounted, EveryLogAccounted

LEMMA ApplyAccounts ==
  ASSUME Base, AcceptedBefore, Accounted, NEW c \in Callers, ApplyLog(c)
  PROVE  Accounted'
<1> DEFINE e == <<c, issued[c] + 1>>
<1>1. /\ issued \in [Callers -> 0..MaxLogs] /\ caller \in [Callers -> CallerSteps]
      /\ issued' = [issued EXCEPT ![c] = @ + 1]
      /\ caller[c] = "idle"
      /\ UNCHANGED <<cleared, batch, log_entities, delivered>>
      /\ \/ refused' = refused \cup {e} /\ caller' = caller
         \/ refused' = refused /\ caller' = [caller EXCEPT ![c] = "enqueue"]
  BY DEF ApplyLog, Callable, Base, TypeOK, queueVars
<1>2. issued[c] \in Nat /\ issued'[c] = issued[c] + 1
  BY <1>1
<1>3. Stream' = Stream /\ Accepted' = Accepted
  BY <1>1 DEF Stream, Pending, Accepted
<1>4. Issued' = Issued \cup {e}
  <2>1. 1..issued'[c] = (1..issued[c]) \cup {issued[c] + 1}
    BY <1>2
  <2>2. \A d \in Callers \ {c} : issued'[d] = issued[d]
    BY <1>1
  <2> QED
    BY <2>1, <2>2 DEF Issued
<1>5. e \notin Accepted /\ e \notin refused
  BY <1>2 DEF AcceptedBefore, Accounted, RefusedBefore
<1>6. e \notin InFlight
  BY <1>1 DEF InFlight
<1>7. InFlight' = IF refused' = refused THEN InFlight \cup {e} ELSE InFlight
  <2>1. CASE refused' = refused \cup {e} /\ caller' = caller
    <3>1. refused' # refused
      BY <1>5, <2>1
    <3> QED
      BY <1>1, <2>1, <3>1 DEF InFlight
  <2>2. CASE refused' = refused /\ caller' = [caller EXCEPT ![c] = "enqueue"]
    BY <1>1, <2>2 DEF InFlight
  <2> QED
    BY <1>1, <2>1, <2>2
<1>8. RefusedBefore'
  <2> SUFFICES ASSUME NEW l \in refused'
               PROVE  /\ l[2] <= issued'[l[1]]
                      /\ caller'[l[1]] = "enqueue" => l[2] < issued'[l[1]]
    BY DEF RefusedBefore
  <2>1. CASE l = e
    BY <1>1, <1>2, <1>5, <2>1
  <2>2. CASE l # e
    <3>1. l \in refused /\ l \in Log
      BY <1>1, <2>2 DEF Base, TypeOK
    <3>2. l[1] \in Callers /\ l[2] \in Nat
      BY <3>1 DEF Log
    <3>3. l[2] <= issued[l[1]] /\ (caller[l[1]] = "enqueue" => l[2] < issued[l[1]])
      BY <3>1 DEF Accounted, RefusedBefore
    <3>4. issued[l[1]] \in Nat
      BY <1>1, <3>2
    <3>5. CASE l[1] = c
      BY <1>2, <3>2, <3>3, <3>5
    <3>6. CASE l[1] # c
      BY <1>1, <3>2, <3>3, <3>6
    <3> QED
      BY <3>5, <3>6
  <2> QED
    BY <2>1, <2>2
<1>9. Accepted = cleared \cup Range(Stream) /\ cleared' = cleared
  BY <1>1 DEF Accepted
<1>10. refused' = refused \/ refused' = refused \cup {e}
  BY <1>1
<1> HIDE DEF e
<1> QED
  BY <1>3, <1>4, <1>5, <1>6, <1>7, <1>8, <1>9, <1>10 DEF Accounted, EveryLogAccounted

LEMMA OthersAccount ==
  ASSUME Base, AcceptedBefore, Accounted, [Next]_vars,
         \A c \in Callers : ~Enqueue(c) /\ ~ApplyLog(c)
  PROVE  Accounted'
<1> USE DEF historyVars, callVars
<1>1. /\ UNCHANGED <<issued, refused>>
      /\ \A c \in Callers : caller'[c] = "enqueue" <=> caller[c] = "enqueue"
  <2>1. CASE Owner
    BY <2>1 DEF Owner, Initialize, WaitForStart, SpuriousStart, Shutdown, NotifyWorker, Join,
      CloseTarget, OwnerGoes
  <2>2. ASSUME NEW c \in Callers, CallFlush(c) \/ EnterTarget(c) \/ LeaveTarget(c)
        PROVE  /\ UNCHANGED <<issued, refused>>
               /\ \A d \in Callers : caller'[d] = "enqueue" <=> caller[d] = "enqueue"
    BY <2>2 DEF CallFlush, EnterTarget, LeaveTarget, Callable, Base, TypeOK
  <2>3. CASE Worker \/ SpuriousWakeup
    BY <2>3 DEF Worker, SpuriousWakeup, WorkerStart, WorkerLoop, WorkerFindsNothing,
      WorkerWait, WorkerSwap, WorkerWrite, WorkerNextTurn, WorkerExit, WorkerLastSwap,
      WorkerStop, WorkerGoes
  <2>4. CASE UNCHANGED vars
    BY <2>4 DEF vars
  <2> QED
    BY <2>1, <2>2, <2>3, <2>4 DEF Next, Caller
<1>2. Stream' = Stream
  BY QueueStep
<1>3. cleared' = cleared
  BY StepKinds
<1>4. Issued' = Issued /\ InFlight' = InFlight
  BY <1>1 DEF Issued, InFlight
<1>5. RefusedBefore'
  <2>1. \A l \in refused : l[1] \in Callers
    BY DEF Base, TypeOK, Log
  <2> QED
    BY <1>1, <2>1 DEF Accounted, RefusedBefore
<1> QED
  BY <1>1, <1>2, <1>3, <1>4, <1>5 DEF Accounted, EveryLogAccounted

LEMMA AccountedAtFirst == Init => Accounted
<1> SUFFICES ASSUME Init PROVE Accounted
  OBVIOUS
<1>1. Stream = <<>> /\ Accepted = {}
  BY InitBase
<1>2. Range(Stream) = {} /\ cleared = {} /\ refused = {}
  BY <1>1 DEF Accepted, Init
<1>3. Issued = {} /\ InFlight = {}
  BY DEF Init, Issued, InFlight
<1> QED
  BY <1>2, <1>3 DEF Accounted, EveryLogAccounted, RefusedBefore

\* Every log is refused, on its way, dropped, or in the stream, and in one of these only
\* (async_sink.cc:65-94).
THEOREM EveryLogAccountedHolds == Spec => []EveryLogAccounted
<1> DEFINE AccInv == Base /\ AcceptedBefore /\ CallerOrder /\ Accounted
<1>1. Init => AccInv
  BY InitBase, AccountedAtFirst DEF CallerOrder, InOrder
<1>2. AccInv /\ [Next]_vars => AccInv'
  <2>1. Base /\ AcceptedBefore /\ CallerOrder /\ [Next]_vars
          => (Base /\ AcceptedBefore /\ CallerOrder)'
    BY BaseInvariance, AcceptedBeforeInvariance, CallerOrderInvariance
  <2>2. AccInv /\ [Next]_vars => Accounted'
    BY EnqueueAccounts, ApplyAccounts, OthersAccount
  <2> QED
    BY <2>1, <2>2
<1>3. AccInv => EveryLogAccounted
  BY DEF Accounted
<1> QED
  BY <1>1, <1>2, <1>3, PTL DEF Spec

-----------------------------------------------------------------------------
(* Memory, and the life time of the target.                                *)

LEMMA MemoryInvariance == Base /\ MemoryBounded /\ [Next]_vars => MemoryBounded'
<1> SUFFICES ASSUME Base, MemoryBounded, [Next]_vars PROVE MemoryBounded'
  OBVIOUS
<1> USE DEF Base, TypeOK, MemoryBounded
<1>1. ASSUME NEW length \in QueueLengths, Initialize(length) PROVE MemoryBounded'
  <2>1. log_entities = <<>> /\ batch = <<>> /\ UNCHANGED queueVars
    BY <1>1 DEF Initialize, OwnerGoes, UntouchedWhileNew, BatchOnlyWhileWriting
  <2>2. max_queue_size' \in Nat
    BY <1>1 DEF Initialize
  <2> QED
    BY <2>1, <2>2, EmptySeq DEF queueVars
<1>2. ASSUME NEW c \in Callers, Enqueue(c) PROVE MemoryBounded'
  <2>1. <<c, issued[c]>> \in Log
    BY <1>2 DEF EnqueueHasLog, Enqueue, Log
  <2>2. CASE QueueFull
    <3>1. log_entities' = <<(<<c, issued[c]>>)>>
      BY <1>2, <2>2 DEF Enqueue, apply_entity
    <3> QED
      BY <1>2, <3>1 DEF Enqueue, confVars
  <2>3. CASE ~QueueFull
    <3>1. Len(log_entities') = Len(log_entities) + 1 /\ Len(log_entities) \in Nat
      BY <1>2, <2>1, <2>3, AppendProperties, LenProperties DEF Enqueue, apply_entity
    <3> QED
      BY <1>2, <2>3, <3>1 DEF Enqueue, confVars, QueueFull
  <2> QED
    BY <2>2, <2>3
<1>3. CASE SwapQueues /\ UNCHANGED max_queue_size
  BY <1>3 DEF SwapQueues
<1>4. CASE WriteFirst /\ UNCHANGED <<log_entities, max_queue_size>>
  BY <1>4, HeadTailProperties, LenProperties DEF WriteFirst
<1>5. CASE UNCHANGED <<queueVars, max_queue_size>>
  BY <1>5 DEF queueVars
<1>6. ASSUME \A length \in QueueLengths : ~Initialize(length)
      PROVE  UNCHANGED max_queue_size
  BY <1>6 DEF Next, Owner, WaitForStart, SpuriousStart, Shutdown, NotifyWorker, Join,
    CloseTarget, Caller, ApplyLog, Enqueue, CallFlush, EnterTarget, LeaveTarget, Worker,
    SpuriousWakeup, WorkerStart, WorkerLoop, WorkerFindsNothing, WorkerWait, WorkerSwap,
    WorkerWrite, WorkerNextTurn, WorkerExit, WorkerLastSwap, WorkerStop, WorkerGoes,
    confVars, vars
<1> QED
  BY <1>1, <1>2, <1>3, <1>4, <1>5, <1>6, StepKinds

\* The sink never holds more than two queues' worth of logs, whatever the limit
\* it was given and however long the worker is stuck in a write.
THEOREM MemoryIsBounded == Spec => []MemoryBounded
<1>1. Init => Base /\ MemoryBounded
  <2>1. Len(<<>>) = 0 /\ 0 <= MinQueueLength
    OBVIOUS
  <2>2. Init => Base
    BY InitBase
  <2>3. Init => MemoryBounded
    BY <2>1 DEF Init, MemoryBounded
  <2> QED
    BY <2>2, <2>3
<1>2. Base /\ MemoryBounded /\ [Next]_vars => (Base /\ MemoryBounded)'
  BY BaseInvariance, MemoryInvariance
<1> QED
  BY <1>1, <1>2, PTL DEF Spec

\* The target is there from initialize to the end of shutdown, which waits for
\* the worker; only a flush that is under way then goes through a null one.
TargetLife ==
  /\ UntouchedWhileNew
  /\ owner \notin {"new", "closed"} => target = "target"
  /\ owner \in {"close", "closed"} => worker = "done"
  /\ crashed => owner = "closed"

LEMMA TargetLifeInvariance == Base /\ TargetLife /\ [Next]_vars => TargetLife'
<1> SUFFICES ASSUME Base, TargetLife, [Next]_vars PROVE TargetLife'
  OBVIOUS
<1>1. UntouchedWhileNew'
  BY BaseInvariance DEF Base
<1> USE <1>1 DEF TargetLife
<1>2. CASE Owner
  BY <1>2 DEF Owner, Initialize, WaitForStart, SpuriousStart, Shutdown, NotifyWorker,
    NotifyOne, Join, CloseTarget, OwnerGoes, callVars, confVars
<1>3. ASSUME NEW c \in Callers, Caller(c), ~crashed PROVE TargetLife'
  <2>1. owner # "new" /\ owner' = owner
    BY <1>3 DEF UntouchedWhileNew, Caller, Callable, ApplyLog, Enqueue, CallFlush,
      EnterTarget, LeaveTarget
  <2>2. /\ owner \in {"close", "closed"} => worker' = worker
        /\ target' = target
    BY <1>3 DEF Caller, ApplyLog, Enqueue, notify_funcs, NotifyOne, CallFlush,
      EnterTarget, LeaveTarget, confVars
  <2>3. crashed' => owner = "closed"
    BY <1>3, <2>1 DEF Caller, ApplyLog, Enqueue, CallFlush, EnterTarget, LeaveTarget
  <2> QED
    BY <1>1, <2>1, <2>2, <2>3
<1>4. CASE Worker \/ SpuriousWakeup
  BY <1>4 DEF Worker, SpuriousWakeup, WorkerStart, WorkerLoop, WorkerFindsNothing,
    WorkerWait, WorkerSwap, WorkerWrite, WorkerNextTurn, WorkerExit, WorkerLastSwap,
    WorkerStop, WorkerGoes, callVars, confVars
<1>5. CASE UNCHANGED vars
  BY <1>5 DEF vars
<1> QED
  BY <1>2, <1>3, <1>4, <1>5 DEF Next

\* The worker never runs without an open target, and a flush meets a null one
\* only after shutdown has closed it, for every schedule of the three parties.
THEOREM TargetKept == Spec => []TargetUntilClosed
<1>1. Init => Base /\ TargetLife
  BY InitBase DEF Init, Base, TargetLife
<1>2. Base /\ TargetLife /\ [Next]_vars => (Base /\ TargetLife)'
  BY BaseInvariance, TargetLifeInvariance
<1>3. TargetLife => TargetUntilClosed
  BY DEF TargetLife, UntouchedWhileNew, TargetUntilClosed
<1> QED
  BY <1>1, <1>2, <1>3, PTL DEF Spec
=============================================================================
