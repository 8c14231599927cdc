---------------------------- MODULE FileTargetProofs ----------------------------
(* Proofs about FileTarget, for every clock, zone and set of options.        *)
EXTENDS FileTarget, FiniteSetTheorems, SequenceTheorems, TLAPS

-----------------------------------------------------------------------------
(* What the methods of TargetBase leave.                                   *)

IoType == [writer : {NoWriter} \cup Names, next_reopen_time : Int,
           dir : {"there", "gone", "denied"}, disk : SUBSET Names]

\* A back-off exactly when there is no writer.
Sane(io) == io.writer = NoWriter <=> io.next_reopen_time # kZero

\* Options are numbers.
LEMMA OptionsTypes ==
  ASSUME options \in Options
  PROVE  /\ options.max_files \in Nat /\ options.check_interval \in Nat
         /\ options.check_items \in Nat
         /\ options.reopen_interval \in Nat /\ options.offset \in Nat
BY OptionsAssumption

\* Names of stamps are paths.
LEMMA NamesOfStamps ==
  ASSUME options \in Options, NEW stamp \in Int
  PROVE  HourlyLogFilename(stamp) \in Names /\ DailyLogFilename(stamp) \in Names
<1>1. options.offset \in Nat /\ Hour \in Nat \ {0} /\ Day \in Nat \ {0}
  BY OptionsTypes, TimeAssumption
<1>2. (stamp + options.offset) \div Hour \in Int /\ (stamp + options.offset) \div Day \in Int
  BY <1>1
<1> QED
  BY <1>2 DEF HourlyLogFilename, DailyLogFilename, Names

LEMMA OpenWriterTypes ==
  ASSUME NEW io \in IoType, NEW file \in Names
  PROVE  /\ OpenWriter(io, file) \in IoType
         /\ OpenWriter(io, file).next_reopen_time = io.next_reopen_time
BY DEF OpenWriter, IoType

LEMMA ReopenTypes ==
  ASSUME NEW io \in IoType, io.writer # NoWriter
  PROVE  Reopen(io) \in IoType /\ (Sane(io) => Sane(Reopen(io)))
BY DEF Reopen, IoType, Sane

\* A writer that is reset is replaced, or a back-off begins or goes on.
LEMMA ReopenWriterTypes ==
  ASSUME now \in FirstTime..LastTime, options \in Options,
         NEW io \in IoType, io.writer = NoWriter, NEW stamp \in Int
  PROVE  reopen_writer(io, stamp) \in IoType /\ Sane(reopen_writer(io, stamp))
<1>1. now + options.reopen_interval \in Int /\ now + options.reopen_interval # kZero
  BY OptionsTypes, TimeAssumption DEF kZero
<1>2. CASE BackedOff(io)
  BY <1>2 DEF reopen_writer, BackedOff, Sane
<1>3. CASE ~BackedOff(io)
  <2> DEFINE made == CreateDirectory(io)
             opened == OpenWriter(made, HourlyLogFilename(stamp))
  <2>1. made \in IoType
    BY DEF CreateDirectory, IoType
  <2>2. opened \in IoType
    BY <2>1, NamesOfStamps, OpenWriterTypes
  <2>3. reopen_writer(io, stamp) = AfterOpen(opened)
    BY <1>3 DEF reopen_writer
  <2> HIDE DEF opened
  <2>4. AfterOpen(opened) \in IoType /\ Sane(AfterOpen(opened))
    BY <1>1, <2>2 DEF AfterOpen, IoType, Sane, kZero
  <2> QED
    BY <2>3, <2>4
<1> QED
  BY <1>2, <1>3

LEMMA CheckFileTypes ==
  ASSUME TypeOK, Sane(Io), NEW stamp \in Int
  PROVE  check_file(stamp) \in IoType /\ Sane(check_file(stamp))
<1>1. Io.writer = writer /\ Io \in IoType /\ options \in Options /\ now \in FirstTime..LastTime
  BY DEF Io, IoType, TypeOK
<1>2. CASE writer = NoWriter
  BY <1>1, <1>2, ReopenWriterTypes DEF check_file
<1>3. CASE writer # NoWriter
  BY <1>1, <1>3, ReopenTypes DEF check_file
<1> QED
  BY <1>2, <1>3

-----------------------------------------------------------------------------
(* Types of what a log and initialize change.                              *)

\* The run of periods that initialize finds is finite.
LEMMA RunOfPeriods ==
  ASSUME options \in Options, NEW time, NEW existing
  PROVE  LET N == Cardinality({n \in 0..options.max_files :
                     n < options.max_files /\ \A k \in 0..n : Before(time, k) \in existing})
         IN  N \in Nat /\ N <= options.max_files
<1> DEFINE max == options.max_files
           run == {n \in 0..max : n < max /\ \A k \in 0..n : Before(time, k) \in existing}
<1>1. max \in Nat
  BY OptionsTypes
<1>2. 0 \in Int /\ max - 1 \in Int
  BY <1>1
<1>3. IsFiniteSet(0..(max - 1)) /\ Cardinality(0..(max - 1)) = max
  <2>1. Cardinality(0..(max - 1)) = IF 0 > max - 1 THEN 0 ELSE (max - 1) - 0 + 1
    BY <1>2, FS_Interval
  <2> QED
    BY <1>1, <1>2, <2>1, FS_Interval
<1>4. run \in SUBSET (0..(max - 1))
  BY <1>1
<1> HIDE DEF run
<1>5. IsFiniteSet(run) /\ Cardinality(run) <= max
  <2>1. IsFiniteSet(run) /\ Cardinality(run) <= Cardinality(0..(max - 1))
    BY <1>3, <1>4, FS_Subset
  <2> QED
    BY <1>3, <2>1
<1>6. Cardinality(run) \in Nat
  BY <1>5, FS_CardinalityType
<1> QED
  BY <1>5, <1>6 DEF run

\* The queue that initialize builds holds at most max_files names.
LEMMA InitFileQueueTypes ==
  ASSUME options \in Options, NEW time \in Int, NEW existing
  PROVE  /\ init_file_queue(time, existing) \in Seq(Names)
         /\ Len(init_file_queue(time, existing)) <= options.max_files
<1> DEFINE N == Cardinality({n \in 0..options.max_files :
                  n < options.max_files /\ \A k \in 0..n : Before(time, k) \in existing})
<1>1. init_file_queue(time, existing) = [i \in 1..N |-> Before(time, N - i)]
  BY DEF init_file_queue
<1>2. N \in Nat /\ N <= options.max_files
  BY RunOfPeriods
<1> HIDE DEF N
<1>3. \A i \in 1..N : Before(time, N - i) \in Names
  <2> TAKE i \in 1..N
  <2>1. time - (N - i) * Period \in Int
    BY <1>2, TimeAssumption DEF Period
  <2> QED
    BY <2>1, NamesOfStamps DEF Before, Filename
<1> QED
  BY <1>1, <1>2, <1>3

LEMMA CountItemTypes ==
  ASSUME TypeOK, NEW stamp \in Int, Logging(stamp), NEW io, NEW written \in BOOLEAN,
         CountItem(stamp, io, written)
  PROVE  next_check_time' \in Int /\ current_items' \in 0..MaxItems
<1>1. NextCheckTime(stamp) \in Int
  BY OptionsTypes DEF NextCheckTime, TypeOK, kZero
<1>2. current_items \in 0..MaxItems /\ current_items < MaxItems /\ next_check_time \in Int
  BY DEF TypeOK, Logging
<1> QED
  BY <1>1, <1>2, TimeAssumption DEF CountItem

LEMMA RememberTypes ==
  ASSUME TypeOK, NEW io, Remember(io)
  PROVE  retries' \in Nat /\ blind' \in Nat /\ born' \subseteq Names
BY DEF TypeOK, Remember

LEMMA NextRotationTimeTypes ==
  ASSUME options \in Options, NEW stamp \in Int, NEW offset \in Int
  PROVE  NextRotationTime(stamp, offset) \in Int
<1>1. Period \in Int /\ Period > 0
  BY TimeAssumption DEF Period
<1>2. (stamp + offset) \div Period \in Int
  BY <1>1
<1> QED
  BY <1>1, <1>2 DEF NextRotationTime

LEMMA StampsAreNumbers == Stamps \subseteq Int
BY TimeAssumption DEF Stamps

-----------------------------------------------------------------------------
(* Types, and a back-off exactly while there is no writer.                 *)

\* An object that is not there has no writer, and the next one inherits no back-off.
NothingLeft == status = "none" => writer = NoWriter /\ next_reopen_time = kZero

Inv == TypeOK /\ BackOffIffNoWriter /\ NothingLeft

LEMMA InitInv == Init => Inv
<1> SUFFICES ASSUME Init PROVE Inv
  OBVIOUS
<1>1. now \in FirstTime..LastTime /\ 0 \in 0..MaxFaults /\ 0 \in 0..MaxItems
  BY TimeAssumption DEF Init, BaseInit
<1>2. files \in Seq(Names) /\ Len(files) <= options.max_files
  BY OptionsTypes DEF Init, BaseInit
<1> QED
  BY <1>1, <1>2 DEF Init, BaseInit, Inv, TypeOK, BackOffIffNoWriter, NothingLeft, Alive, kZero

LEMMA InitializeInv ==
  ASSUME Inv, Initialize
  PROVE  Inv'
<1> USE DEF Inv
<1> DEFINE kept == IF options.truncate THEN disk \ {Filename(now)} ELSE disk
           io == OpenWriter([Io EXCEPT !.disk = kept], Filename(now))
<1>1. now \in Int /\ options \in Options /\ 0 \in Int
  BY TimeAssumption DEF TypeOK
<1>2. Filename(now) \in Names
  BY <1>1, NamesOfStamps DEF Filename
<1>3. [Io EXCEPT !.disk = kept] \in IoType /\ kept \subseteq Names
  BY DEF TypeOK, Io, IoType
<1>4. io \in IoType
  BY <1>2, <1>3, OpenWriterTypes
<1> HIDE DEF io, kept
<1>5. disk' = io.disk /\ UNCHANGED <<now, faults, options, dir, next_reopen_time>>
  BY DEF Initialize, io, kept
<1>6. next_reopen_time = kZero /\ status = "none" /\ writer = NoWriter
  BY DEF Initialize, NothingLeft
<1>7. CASE io.writer = NoWriter
  <2>1. UNCHANGED <<status, writer, checkVars, next_rotation_time, files, historyVars>>
    BY <1>7 DEF Initialize, io, kept
  <2> QED
    BY <1>4, <1>5, <1>6, <2>1 DEF TypeOK, IoType, checkVars, historyVars, BackOffIffNoWriter,
      NothingLeft, Alive
<1>8. CASE io.writer # NoWriter
  <2>1. /\ status' = "up" /\ writer' = io.writer /\ next_check_time' = NextCheckTime(now)
        /\ current_items' = 0 /\ born' = kept /\ retries' = 0 /\ blind' = 0
        /\ next_rotation_time' = IF Rotating THEN kZero ELSE NextRotationTime(now, 0)
        /\ files' = IF Rotating THEN <<>> ELSE init_file_queue(now, kept)
    BY <1>8 DEF Initialize, io, kept
  <2>2. files' \in Seq(Names) /\ Len(files') <= options.max_files
    <3>1. options.max_files \in Nat
      BY <1>1, OptionsTypes
    <3>2. CASE Rotating
      BY <2>1, <3>1, <3>2
    <3>3. CASE ~Rotating
      BY <1>1, <2>1, <3>3, InitFileQueueTypes
    <3> QED
      BY <3>2, <3>3
  <2>3. next_rotation_time' \in Int /\ next_check_time' \in Int
    <3>1. NextRotationTime(now, 0) \in Int
      BY <1>1, NextRotationTimeTypes
    <3>2. NextCheckTime(now) \in Int
      BY <1>1, OptionsTypes DEF NextCheckTime, kZero
    <3> QED
      BY <2>1, <3>1, <3>2 DEF kZero
  <2>4. current_items' \in 0..MaxItems
    BY <2>1, TimeAssumption
  <2> QED
    BY <1>3, <1>4, <1>5, <1>6, <1>8, <2>1, <2>2, <2>3, <2>4
       DEF TypeOK, IoType, BackOffIffNoWriter, NothingLeft, Alive
<1> QED
  BY <1>7, <1>8

\* What every log changes but the queue, its rotation time and the status.
LEMMA LogInv ==
  ASSUME Inv, NEW stamp \in Int, Logging(stamp),
         NEW io \in IoType, Sane(io), Becomes(io),
         NEW checked, NEW written \in BOOLEAN, CountItem(stamp, checked, written),
         NEW seen, Remember(seen),
         next_rotation_time' \in Int, files' \in Seq(Names), Len(files') <= options.max_files,
         status' = status
  PROVE  Inv'
<1>1. next_check_time' \in Int /\ current_items' \in 0..MaxItems
  BY CountItemTypes DEF Inv
<1>2. retries' \in Nat /\ blind' \in Nat /\ born' \subseteq Names
  BY RememberTypes DEF Inv
<1>3. UNCHANGED <<now, faults, options>> /\ status' = "up"
  BY DEF Logging
<1> QED
  BY <1>1, <1>2, <1>3 DEF Inv, TypeOK, Becomes, IoType, Sane, BackOffIffNoWriter, NothingLeft

\* In every state of an object the file that a log finds is sane.
LEMMA CheckedWhileLogging ==
  ASSUME Inv, NEW stamp \in Int, Logging(stamp)
  PROVE  check_file(stamp) \in IoType /\ Sane(check_file(stamp))
<1>1. Sane(Io)
  BY DEF Inv, BackOffIffNoWriter, Alive, Logging, Sane, Io
<1> QED
  BY <1>1, CheckFileTypes DEF Inv

LEMMA ReopenedWhileLogging ==
  ASSUME Inv, NEW stamp \in Int, NEW io \in IoType
  PROVE  LET new == reopen_writer([io EXCEPT !.writer = NoWriter], stamp)
         IN  new \in IoType /\ Sane(new)
<1>1. [io EXCEPT !.writer = NoWriter] \in IoType /\ [io EXCEPT !.writer = NoWriter].writer = NoWriter
  BY DEF IoType
<1> QED
  BY <1>1, ReopenWriterTypes DEF Inv, TypeOK

LEMMA LogToSameFileInv ==
  ASSUME Inv, NEW stamp \in Int, LogToSameFile(stamp)
  PROVE  Inv'
<1>1. Logging(stamp)
  BY DEF LogToSameFile
<1>2. check_file(stamp) \in IoType /\ Sane(check_file(stamp))
  BY <1>1, CheckedWhileLogging
<1>3. /\ Becomes(check_file(stamp)) /\ Remember(check_file(stamp))
      /\ CountItem(stamp, check_file(stamp), check_file(stamp).writer # NoWriter)
      /\ UNCHANGED <<status, next_rotation_time, files>>
  BY DEF LogToSameFile
<1>4. next_rotation_time' \in Int /\ files' \in Seq(Names) /\ Len(files') <= options.max_files
  BY <1>3 DEF Inv, TypeOK
<1> QED
  BY <1>1, <1>2, <1>3, <1>4, LogInv

\* The queue with the current file, and what is left of the files.
LEMMA EnqueueTypes ==
  ASSUME Inv, options.max_files # 0, NEW io \in IoType, Sane(io), io.writer # NoWriter,
         Enqueue(io)
  PROVE  /\ files' \in Seq(Names) /\ Len(files') <= options.max_files
         /\ \E left \in IoType : Sane(left) /\ Becomes(left)
<1>1. io.writer \in Names /\ files \in Seq(Names) /\ Len(files) <= options.max_files
  BY DEF Inv, TypeOK, IoType
<1>2. options.max_files \in Nat
  BY OptionsTypes DEF Inv, TypeOK
<1>3. CASE QueueFull
  <2>1. Tail(files) \in Seq(Names) /\ Len(Tail(files)) = Len(files) - 1
    BY <1>1, <1>2, <1>3 DEF QueueFull
  <2>2. files' = Append(Tail(files), io.writer) /\ Becomes([io EXCEPT !.disk = @ \ {Head(files)}])
    BY <1>3 DEF Enqueue
  <2> DEFINE left == [io EXCEPT !.disk = @ \ {Head(files)}]
  <2>3. left \in IoType /\ Sane(left)
    BY DEF IoType, Sane
  <2> HIDE DEF left
  <2>4. Becomes(left)
    BY <2>2 DEF left
  <2>5. files' \in Seq(Names) /\ Len(files') = Len(files)
    BY <1>1, <2>1, <2>2, AppendProperties
  <2> QED
    BY <1>1, <2>3, <2>4, <2>5
<1>4. CASE ~QueueFull
  <2>1. files' = Append(files, io.writer) /\ Becomes(io)
    BY <1>4 DEF Enqueue
  <2>2. files' \in Seq(Names) /\ Len(files') = Len(files) + 1
    BY <1>1, <2>1, AppendProperties
  <2>3. Len(files) \in Nat /\ Len(files) # options.max_files
    BY <1>1, <1>4, LenProperties DEF QueueFull
  <2> QED
    BY <1>1, <1>2, <2>1, <2>2, <2>3
<1> QED
  BY <1>3, <1>4

LEMMA LogToNewFileInv ==
  ASSUME Inv, NEW stamp \in Int, LogToNewFile(stamp)
  PROVE  Inv'
<1> DEFINE checked == check_file(stamp)
           io == reopen_writer([checked EXCEPT !.writer = NoWriter], stamp)
<1>1. Logging(stamp)
  BY DEF LogToNewFile
<1>2. checked \in IoType
  BY <1>1, CheckedWhileLogging
<1>3. io \in IoType /\ Sane(io)
  BY <1>2, ReopenedWhileLogging
<1>4. /\ next_rotation_time' = NextRotationTime(stamp, options.offset)
      /\ IF io.writer = NoWriter \/ options.max_files = 0
           THEN Becomes(io) /\ UNCHANGED files
           ELSE Enqueue(io)
      /\ CountItem(stamp, checked, io.writer # NoWriter)
      /\ Remember(io)
      /\ UNCHANGED status
  BY DEF LogToNewFile
<1>5. next_rotation_time' \in Int
  BY <1>4, NextRotationTimeTypes, OptionsTypes DEF Inv, TypeOK
<1> HIDE DEF io, checked
<1>6. CASE io.writer = NoWriter \/ options.max_files = 0
  <2>1. Becomes(io) /\ files' \in Seq(Names) /\ Len(files') <= options.max_files
    BY <1>4, <1>6 DEF Inv, TypeOK
  <2> QED
    BY <1>1, <1>3, <1>4, <1>5, <2>1, LogInv
<1>7. CASE ~(io.writer = NoWriter \/ options.max_files = 0)
  <2>1. Enqueue(io)
    BY <1>4, <1>7
  <2>2. files' \in Seq(Names) /\ Len(files') <= options.max_files
    BY <1>3, <1>7, <2>1, EnqueueTypes
  <2>3. PICK left \in IoType : Sane(left) /\ Becomes(left)
    BY <1>3, <1>7, <2>1, EnqueueTypes
  <2> QED
    BY <1>1, <1>4, <1>5, <2>2, <2>3, LogInv
<1> QED
  BY <1>6, <1>7

LEMMA LogWithoutWriterInv ==
  ASSUME Inv, NEW stamp \in Int, LogWithoutWriter(stamp)
  PROVE  Inv'
<1>1. Logging(stamp)
  BY DEF LogWithoutWriter
<1>2. check_file(stamp) \in IoType
  BY <1>1, CheckedWhileLogging
<1>3. dir' \in {"there", "gone", "denied"}
  BY <1>2 DEF LogWithoutWriter, IoType
<1> QED
  BY <1>3 DEF LogWithoutWriter, Logging, Inv, TypeOK, BackOffIffNoWriter, NothingLeft, Alive,
    checkVars, historyVars

LEMMA LogThatCutsInv ==
  ASSUME Inv, NEW stamp \in Int, LogThatCuts(stamp)
  PROVE  Inv'
<1> DEFINE checked == check_file(stamp)
           io == reopen_writer([ShiftChain(checked) EXCEPT !.writer = NoWriter], stamp)
<1>1. Logging(stamp)
  BY DEF LogThatCuts
<1>2. checked \in IoType
  BY <1>1, CheckedWhileLogging
<1>3. ShiftChain(checked) \in IoType
  <2>1. \A n \in 0..options.max_files : <<"seq", n + 1>> \in Names
    BY OptionsTypes DEF Names, Inv, TypeOK
  <2> QED
    BY <1>2, <2>1 DEF ShiftChain, IoType
<1>4. io \in IoType /\ Sane(io)
  BY <1>3, ReopenedWhileLogging
<1>5. /\ Becomes(io) /\ Remember(io) /\ CountItem(stamp, checked, io.writer # NoWriter)
      /\ UNCHANGED <<status, next_rotation_time, files>>
  BY DEF LogThatCuts
<1> HIDE DEF io, checked
<1>6. next_rotation_time' \in Int /\ files' \in Seq(Names) /\ Len(files') <= options.max_files
  BY <1>5 DEF Inv, TypeOK
<1> QED
  BY <1>1, <1>4, <1>5, <1>6, LogInv

LEMMA OutsideInv ==
  ASSUME Inv,
         \/ Shutdown /\ UNCHANGED <<next_rotation_time, files, historyVars>>
         \/ Destroy /\ next_rotation_time' = kZero /\ files' = <<>>
              /\ born' = {} /\ retries' = 0 /\ blind' = 0
         \/ Environment /\ UNCHANGED <<next_rotation_time, files, historyVars>>
         \/ UNCHANGED vars
  PROVE  Inv'
<1> USE DEF Inv, BackOffIffNoWriter, NothingLeft, Alive, ioVars, checkVars, historyVars
<1>1. CASE Shutdown /\ UNCHANGED <<next_rotation_time, files, historyVars>>
  BY <1>1 DEF Shutdown, TypeOK
<1>2. CASE Destroy /\ next_rotation_time' = kZero /\ files' = <<>>
             /\ born' = {} /\ retries' = 0 /\ blind' = 0
  BY <1>2, TimeAssumption, OptionsTypes DEF Destroy, TypeOK, kZero
<1>3. CASE Environment /\ UNCHANGED <<next_rotation_time, files, historyVars>>
  <2>1. CASE Tick
    BY <1>3, <2>1, TimeAssumption DEF Tick, TypeOK
  <2>2. CASE Fault /\ dir' \in {"there", "gone", "denied"} /\ disk' \subseteq disk
    BY <1>3, <2>2, TimeAssumption DEF Fault, TypeOK
  <2>3. CASE RestoreDirectory
    BY <1>3, <2>3 DEF RestoreDirectory, TypeOK
  <2> QED
    BY <1>3, <2>1, <2>2, <2>3
       DEF Environment, RemoveFile, RemoveDirectory, DenyOpens, TypeOK
<1>4. CASE UNCHANGED vars
  BY <1>4 DEF vars, baseVars, TypeOK
<1> QED
  BY <1>1, <1>2, <1>3, <1>4

LEMMA NextInv == Inv /\ [Next]_vars => Inv'
<1> SUFFICES ASSUME Inv, [Next]_vars PROVE Inv'
  OBVIOUS
<1>1. CASE Initialize
  BY <1>1, InitializeInv
<1>2. ASSUME NEW stamp \in Stamps, apply_log(stamp) PROVE Inv'
  BY <1>2, StampsAreNumbers, LogToSameFileInv, LogToNewFileInv, LogWithoutWriterInv,
     LogThatCutsInv DEF apply_log
<1> QED
  BY <1>1, <1>2, OutsideInv DEF Next

\* Every reachable state is well typed: the queue of files never holds more than
\* max_files, whatever rotations, failed opens and restarts come (Enqueue,
\* init_file_queue).
THEOREM TypeCorrect == Spec => []TypeOK
<1>1. Inv => TypeOK
  BY DEF Inv
<1> QED
  BY InitInv, NextInv, <1>1, PTL DEF Spec

\* A target has no writer exactly while it backs off, for every directory that comes
\* and goes: reopen_writer sets and clears _next_reopen_time in step with the writer.
THEOREM WriterOrBackOff == Spec => []BackOffIffNoWriter
<1>1. Inv => BackOffIffNoWriter
  BY DEF Inv
<1> QED
  BY InitInv, NextInv, <1>1, PTL DEF Spec

-----------------------------------------------------------------------------
(* Periods: a number is at or after the beginning of its own, and before its end. *)

LEMMA DivBounds ==
  ASSUME NEW a \in Int, NEW p \in Nat \ {0}
  PROVE  /\ a \div p \in Int
         /\ (a \div p) * p \in Int /\ (a \div p) * p <= a /\ a < (a \div p) * p + p
BY SMT

LEMMA MultipleAtMost ==
  ASSUME NEW m \in Int, NEW a \in Int, NEW p \in Nat \ {0}, m * p <= a
  PROVE  m * p <= (a \div p) * p
<1> DEFINE d == a \div p
<1>1. d \in Int /\ a < d * p + p
  BY DivBounds
<1> HIDE DEF d
<1>2. m * p < (d + 1) * p
  BY <1>1
<1>3. m <= d
  BY <1>1, <1>2
<1>4. m * p <= d * p
  BY <1>1, <1>3
<1> QED
  BY <1>4 DEF d

LEMMA ApartByPeriod ==
  ASSUME NEW m \in Int, NEW n \in Int, NEW p \in Nat \ {0}, m < n
  PROVE  m * p + p <= n * p
<1>1. (m + 1) * p <= n * p
  OBVIOUS
<1> QED
  BY <1>1

\* A day is a number of hours.
LEMMA PeriodHours ==
  /\ Period \in Nat \ {0}
  /\ \E q \in Int : Period = q * Hour
<1>1. Day = (Day \div Hour) * Hour /\ Day \div Hour \in Int
  BY TimeAssumption, SMT
<1>2. Hour = 1 * Hour
  BY TimeAssumption
<1> QED
  BY <1>1, <1>2, TimeAssumption DEF Period

LEMMA MultipleOfHour ==
  ASSUME NEW m \in Int
  PROVE  (m * Hour) % Hour = 0
BY TimeAssumption, SMT

LEMMA SumOfHours ==
  ASSUME NEW a \in Int, NEW b \in Int, a % Hour = 0, b % Hour = 0
  PROVE  (a + b) % Hour = 0
<1>1. a = (a \div Hour) * Hour /\ b = (b \div Hour) * Hour
      /\ a \div Hour \in Int /\ b \div Hour \in Int
  BY TimeAssumption, SMT
<1>2. a + b = (a \div Hour + b \div Hour) * Hour
  BY <1>1, TimeAssumption
<1> QED
  BY <1>1, <1>2, MultipleOfHour

LEMMA MultipleOfPeriod ==
  ASSUME NEW m \in Int
  PROVE  \E k \in Int : m * Period = k * Hour
<1>1. PICK q \in Int : Period = q * Hour
  BY PeriodHours
<1>2. m * Period = (m * q) * Hour /\ m * q \in Int
  BY <1>1, TimeAssumption
<1> QED
  BY <1>2

\* Files begin with an hour.
LEMMA BeginsWithHour ==
  ASSUME NEW f \in Names
  PROVE  \E k \in Int : Begin(f) = k * Hour
<1>1. f[2] \in Int
  BY DEF Names
<1>2. Day = (Day \div Hour) * Hour /\ Day \div Hour \in Int
  BY TimeAssumption, SMT
<1>3. CASE f[1] = "day"
  <2>1. Begin(f) = (f[2] * (Day \div Hour)) * Hour
    BY <1>1, <1>2, <1>3, TimeAssumption DEF Begin
  <2> QED
    BY <1>1, <1>2, <2>1
<1>4. CASE f[1] # "day"
  BY <1>1, <1>4 DEF Begin
<1> QED
  BY <1>3, <1>4

LEMMA BeginsAreNumbers == \A f \in Names : Begin(f) \in Int
BY TimeAssumption DEF Names, Begin

\* The file of a stamp begins at or before it, and after all files that begin before an
\* hour that is not after the stamp.
LEMMA StampedFile ==
  ASSUME options \in Options, NEW stamp \in Int, NEW time \in Int,
         time <= stamp + options.offset
  PROVE  LET b == Begin(HourlyLogFilename(stamp))
         IN  /\ b \in Int /\ b <= stamp + options.offset
             /\ \A f \in Names : Begin(f) < time => Begin(f) <= b
             /\ time % Hour = 0 => time <= b
<1> DEFINE a == stamp + options.offset
           b == Begin(HourlyLogFilename(stamp))
<1>1. a \in Int /\ Hour \in Nat \ {0}
  BY OptionsTypes, TimeAssumption
<1>2. b = (a \div Hour) * Hour
  BY DEF HourlyLogFilename, Begin
<1> HIDE DEF a, b
<1>3. b \in Int /\ b <= a
  BY <1>1, <1>2, DivBounds
<1>4. ASSUME NEW m \in Int, m * Hour <= a PROVE m * Hour <= b
  BY <1>1, <1>2, <1>4, MultipleAtMost
<1>5. ASSUME NEW f \in Names, Begin(f) < time PROVE Begin(f) <= b
  <2>1. PICK k \in Int : Begin(f) = k * Hour
    BY BeginsWithHour
  <2>2. k * Hour <= a
    BY <1>1, <1>5, <2>1 DEF a
  <2> QED
    BY <1>4, <2>1, <2>2
<1>6. ASSUME time % Hour = 0 PROVE time <= b
  <2>1. time = (time \div Hour) * Hour /\ time \div Hour \in Int
    BY <1>1, <1>6, SMT
  <2>2. (time \div Hour) * Hour <= a
    BY <2>1 DEF a
  <2> HIDE DEF a
  <2>3. (time \div Hour) * Hour <= b
    BY <1>4, <2>1, <2>2
  <2> QED
    BY <2>1, <2>3
<1> QED
  BY <1>3, <1>5, <1>6 DEF a, b

\* The next rotation comes after the stamp, at the beginning of an hour.
LEMMA NextRotation ==
  ASSUME NEW stamp \in Int, NEW offset \in Int
  PROVE  LET t == NextRotationTime(stamp, offset) + offset
         IN  t \in Int /\ stamp + offset < t /\ t % Hour = 0
<1> DEFINE a == stamp + offset
           d == a \div Period
           t == NextRotationTime(stamp, offset) + offset
<1>1. a \in Int /\ Period \in Nat \ {0}
  BY PeriodHours
<1>2. d \in Int /\ a < d * Period + Period /\ d * Period \in Int
  BY <1>1, DivBounds
<1>3. t = (d + 1) * Period
  BY <1>1, <1>2 DEF NextRotationTime
<1> HIDE DEF a, d, t
<1>4. t \in Int /\ a < t
  BY <1>1, <1>2, <1>3
<1>5. t % Hour = 0
  <2>1. PICK k \in Int : (d + 1) * Period = k * Hour
    BY <1>2, MultipleOfPeriod
  <2> QED
    BY <1>3, <2>1, MultipleOfHour
<1> QED
  BY <1>4, <1>5 DEF a, t

\* The queue that initialize builds is in strict order and begins before now's end.
LEMMA InitFileQueueOrder ==
  ASSUME options \in Options, ~Rotating, NEW time \in Int, NEW existing
  PROVE  LET q == init_file_queue(time, existing)
         IN  /\ \A i \in DOMAIN q : Begin(q[i]) \in Int /\ Begin(q[i]) <= time + options.offset
             /\ \A i, j \in DOMAIN q : i < j => Begin(q[i]) < Begin(q[j])
<1> DEFINE N == Cardinality({n \in 0..options.max_files :
                  n < options.max_files /\ \A k \in 0..n : Before(time, k) \in existing})
           q == init_file_queue(time, existing)
           a(i) == time - (N - i) * Period + options.offset
<1>1. q = [i \in 1..N |-> Before(time, N - i)]
  BY DEF init_file_queue
<1>2. Period \in Nat \ {0} /\ options.offset \in Nat
  BY PeriodHours, OptionsTypes
<1>3. \A f : Begin(Filename(f)) = ((f + options.offset) \div Period) * Period
  <2>1. CASE Daily
    BY <2>1 DEF Filename, DailyLogFilename, Begin, Period
  <2>2. CASE ~Daily
    BY <2>2 DEF Filename, HourlyLogFilename, Begin, Period
  <2> QED
    BY <2>1, <2>2
<1>4. N \in Int
  BY RunOfPeriods
<1> HIDE DEF N, q
<1>5. \A i \in DOMAIN q : i \in Int /\ i <= N /\ i >= 1 /\ Begin(q[i]) = (a(i) \div Period) * Period
  BY <1>1, <1>3, <1>4 DEF Before
<1>6. \A i \in DOMAIN q : a(i) \in Int /\ a(i) <= time + options.offset
  <2> TAKE i \in DOMAIN q
  <2>1. N - i \in Nat
    BY <1>4, <1>5
  <2>2. (N - i) * Period \in Nat
    BY <1>2, <2>1
  <2> QED
    BY <1>2, <2>2
<1>7. \A i \in DOMAIN q : Begin(q[i]) \in Int /\ Begin(q[i]) <= a(i) /\ a(i) < Begin(q[i]) + Period
  BY <1>2, <1>5, <1>6, DivBounds
<1>8. \A i, j \in DOMAIN q : i < j => a(i) + Period <= a(j)
  <2> SUFFICES ASSUME NEW i \in DOMAIN q, NEW j \in DOMAIN q, i < j
               PROVE  a(i) + Period <= a(j)
    OBVIOUS
  <2>1. N - i \in Int /\ N - j \in Int /\ N - j < N - i
    BY <1>4, <1>5
  <2>2. (N - j) * Period + Period <= (N - i) * Period
    BY <1>2, <2>1, ApartByPeriod
  <2>3. (N - j) * Period \in Int /\ (N - i) * Period \in Int
    BY <1>2, <2>1
  <2> QED
    BY <1>2, <2>2, <2>3
<1> HIDE DEF a
<1>9. \A i, j \in DOMAIN q : i < j => Begin(q[i]) < Begin(q[j])
  BY <1>2, <1>6, <1>7, <1>8
<1>10. \A i \in DOMAIN q : Begin(q[i]) <= time + options.offset
  BY <1>2, <1>6, <1>7
<1> QED
  BY <1>7, <1>9, <1>10 DEF q

-----------------------------------------------------------------------------
(* The queue of files.                                                     *)

\* The next rotation in the time of the zone.
Rotation == next_rotation_time + options.offset

\* As long as no rotation was off the hour no file is there twice.
Strictly == WholeHours \/ Rotation % Hour # 0

\* All files of the queue begin before the next rotation, which is on the hour but for
\* the first one where hours are not whole.
QueueInv ==
  /\ Rotating => files = <<>>
  /\ WholeHours => Rotation % Hour = 0
  /\ \A i \in DOMAIN files : Begin(files[i]) < Rotation
  /\ \A i, j \in DOMAIN files :
       i < j => /\ Begin(files[i]) <= Begin(files[j])
                /\ Strictly => Begin(files[i]) < Begin(files[j])

LEMMA QueueInitially == Init => QueueInv
<1> SUFFICES ASSUME Init PROVE QueueInv
  OBVIOUS
<1>1. files = <<>> /\ options \in Options /\ next_rotation_time = 0
  BY DEF Init, BaseInit, kZero
<1>2. DOMAIN files = {}
  BY <1>1
<1>3. Rotation = options.offset
  BY <1>1, OptionsTypes DEF Rotation
<1> QED
  BY <1>1, <1>2, <1>3 DEF QueueInv, WholeHours

LEMMA QueueAfterInitialize ==
  ASSUME Inv, QueueInv, Initialize
  PROVE  QueueInv'
<1>1. options \in Options /\ now \in Int /\ options' = options /\ options.offset \in Nat
      /\ Hour \in Nat \ {0}
  BY TimeAssumption, OptionsTypes DEF Inv, TypeOK, Initialize
<1>2. CASE UNCHANGED <<next_rotation_time, files>>
  BY <1>1, <1>2 DEF QueueInv, Rotation, Rotating, Strictly, WholeHours, Begin
<1>3. CASE Rotating /\ files' = <<>> /\ next_rotation_time' = kZero
  <2>1. Rotation' = options.offset
    BY <1>1, <1>3 DEF Rotation, kZero
  <2>2. DOMAIN files' = {}
    BY <1>3
  <2> QED
    BY <1>1, <1>3, <2>1, <2>2 DEF QueueInv, WholeHours, Rotating
<1>4. ASSUME NEW kept, ~Rotating, files' = init_file_queue(now, kept),
             next_rotation_time' = NextRotationTime(now, 0)
      PROVE  QueueInv'
  <2> DEFINE t == NextRotationTime(now, 0)
  <2>1. t + 0 \in Int /\ now + 0 < t + 0 /\ (t + 0) % Hour = 0
    <3>1. 0 \in Int
      OBVIOUS
    <3> QED
      BY <1>1, <3>1, NextRotation
  <2>2. t \in Int /\ now < t /\ t % Hour = 0
    <3>1. t \in Int
      BY <1>1, NextRotationTimeTypes
    <3> HIDE DEF t
    <3> QED
      BY <1>1, <2>1, <3>1
  <2> HIDE DEF t
  <2>3. Rotation' = t + options.offset
    BY <1>1, <1>4 DEF Rotation, t
  <2>4. WholeHours => Rotation' % Hour = 0
    BY <1>1, <2>2, <2>3, SumOfHours DEF WholeHours
  <2>5. /\ \A i \in DOMAIN files' :
             Begin(files'[i]) \in Int /\ Begin(files'[i]) <= now + options.offset
        /\ \A i, j \in DOMAIN files' : i < j => Begin(files'[i]) < Begin(files'[j])
    BY <1>1, <1>4, InitFileQueueOrder
  <2>6. \A i \in DOMAIN files' : Begin(files'[i]) < Rotation'
    BY <1>1, <2>2, <2>3, <2>5
  <2>7. \A i, j \in DOMAIN files' : i < j => Begin(files'[i]) <= Begin(files'[j])
    BY <2>5
  <2> QED
    BY <1>1, <1>4, <2>4, <2>5, <2>6, <2>7 DEF QueueInv, WholeHours, Rotating, Begin
<1> QED
  BY <1>2, <1>3, <1>4 DEF Initialize

\* A queue in order, without its first file or not, and a file that is not older.
LEMMA OrderOfAppended ==
  ASSUME NEW q \in Seq(Names), NEW f \in Names, NEW strict \in BOOLEAN,
         Begin(f) \in Int,
         \A i \in DOMAIN q : Begin(q[i]) <= Begin(f) /\ (strict => Begin(q[i]) < Begin(f)),
         \A i, j \in DOMAIN q : i < j => /\ Begin(q[i]) <= Begin(q[j])
                                         /\ strict => Begin(q[i]) < Begin(q[j])
  PROVE  LET new == Append(q, f)
         IN  \A i, j \in DOMAIN new : i < j => /\ Begin(new[i]) <= Begin(new[j])
                                               /\ strict => Begin(new[i]) < Begin(new[j])
<1> DEFINE new == Append(q, f)
<1>1. /\ DOMAIN new = 1..(Len(q) + 1) /\ DOMAIN q = 1..Len(q) /\ Len(q) \in Nat
      /\ new[Len(q) + 1] = f /\ \A i \in 1..Len(q) : new[i] = q[i]
  BY AppendProperties, LenProperties
<1> HIDE DEF new
<1> SUFFICES ASSUME NEW i \in DOMAIN new, NEW j \in DOMAIN new, i < j
             PROVE  /\ Begin(new[i]) <= Begin(new[j])
                    /\ strict => Begin(new[i]) < Begin(new[j])
  BY DEF new
<1>2. i \in DOMAIN q /\ new[i] = q[i]
  BY <1>1
<1>3. CASE j = Len(q) + 1
  BY <1>1, <1>2, <1>3
<1>4. CASE j # Len(q) + 1
  <2>1. j \in DOMAIN q /\ new[j] = q[j]
    BY <1>1, <1>4
  <2> QED
    BY <1>2, <2>1
<1> QED
  BY <1>3, <1>4

\* What reopen_writer opens is the file of the hour.
LEMMA ReopenedName ==
  ASSUME NEW io \in IoType, io.writer = NoWriter, NEW stamp \in Int
  PROVE  reopen_writer(io, stamp).writer \in {NoWriter, HourlyLogFilename(stamp)}
<1>1. CASE BackedOff(io)
  BY <1>1 DEF reopen_writer
<1>2. CASE ~BackedOff(io)
  <2> DEFINE made == CreateDirectory(io)
             opened == OpenWriter(made, HourlyLogFilename(stamp))
  <2>1. made \in IoType
    BY DEF CreateDirectory, IoType
  <2>2. opened.writer \in {NoWriter, HourlyLogFilename(stamp)} /\ DOMAIN opened = DOMAIN made
    BY <2>1 DEF OpenWriter, IoType
  <2>3. AfterOpen(opened).writer = opened.writer
    BY <2>1, <2>2 DEF AfterOpen, IoType
  <2> QED
    BY <1>2, <2>2, <2>3 DEF reopen_writer
<1> QED
  BY <1>1, <1>2

\* What a rotation finds and leaves: it comes no earlier than its time, and the next one
\* later than the log; the queue stays, or loses its head when it is full, and gets the
\* file of the hour.
LEMMA RotationStep ==
  ASSUME Inv, NEW stamp \in Int, LogToNewFile(stamp)
  PROVE  /\ ~Rotating /\ UNCHANGED options
         /\ Rotation \in Int /\ Rotation <= stamp + options.offset
         /\ Rotation' \in Int /\ stamp + options.offset < Rotation' /\ Rotation' % Hour = 0
         /\ \/ UNCHANGED files
            \/ files' = Append(files, HourlyLogFilename(stamp))
            \/ files # <<>> /\ files' = Append(Tail(files), HourlyLogFilename(stamp))
<1>1. options \in Options /\ options' = options /\ options.offset \in Nat
      /\ options.max_files \in Nat /\ next_rotation_time \in Int /\ files \in Seq(Names)
  BY OptionsTypes DEF Inv, TypeOK, LogToNewFile, Logging
<1>2. ~Rotating /\ stamp >= next_rotation_time
  BY DEF LogToNewFile, RotationDue
<1>3. Rotation \in Int /\ Rotation <= stamp + options.offset
  BY <1>1, <1>2 DEF Rotation
<1>4. Rotation' = NextRotationTime(stamp, options.offset) + options.offset
  BY <1>1 DEF Rotation, LogToNewFile
<1>5. Rotation' \in Int /\ stamp + options.offset < Rotation' /\ Rotation' % Hour = 0
  <2> DEFINE t == NextRotationTime(stamp, options.offset) + options.offset
  <2>1. options.offset \in Int
    BY <1>1
  <2>2. t \in Int /\ stamp + options.offset < t /\ t % Hour = 0
    BY <2>1, NextRotation
  <2>3. Rotation' = t
    BY <1>4
  <2> HIDE DEF t
  <2> QED
    BY <2>2, <2>3
<1>6. \/ UNCHANGED files
      \/ files' = Append(files, HourlyLogFilename(stamp))
      \/ files # <<>> /\ files' = Append(Tail(files), HourlyLogFilename(stamp))
  <2> DEFINE bare == [check_file(stamp) EXCEPT !.writer = NoWriter]
             io == reopen_writer(bare, stamp)
  <2>1. check_file(stamp) \in IoType
    BY CheckedWhileLogging DEF LogToNewFile
  <2>2. bare \in IoType /\ bare.writer = NoWriter
    BY <2>1 DEF IoType
  <2> HIDE DEF bare
  <2>3. io.writer \in {NoWriter, HourlyLogFilename(stamp)}
    BY <2>2, ReopenedName
  <2>4. \/ UNCHANGED files
        \/ io.writer # NoWriter /\ options.max_files # 0 /\ Enqueue(io)
    BY DEF LogToNewFile, bare
  <2> HIDE DEF io
  <2>5. CASE io.writer # NoWriter /\ options.max_files # 0 /\ Enqueue(io)
    <3>1. CASE QueueFull
      <4>1. files # <<>>
        BY <1>1, <2>5, <3>1 DEF QueueFull
      <4>2. files' = Append(Tail(files), HourlyLogFilename(stamp))
        BY <2>3, <2>5, <3>1 DEF Enqueue
      <4> QED
        BY <4>1, <4>2
    <3>2. CASE ~QueueFull
      BY <2>3, <2>5, <3>2 DEF Enqueue
    <3> QED
      BY <3>1, <3>2
  <2> QED
    BY <2>4, <2>5
<1> QED
  BY <1>1, <1>2, <1>3, <1>5, <1>6

LEMMA QueueAfterRotation ==
  ASSUME Inv, QueueInv, NEW stamp \in Int, LogToNewFile(stamp)
  PROVE  QueueInv'
<1> DEFINE f == HourlyLogFilename(stamp)
           a == stamp + options.offset
<1>1. /\ ~Rotating /\ UNCHANGED options
      /\ Rotation \in Int /\ Rotation <= a
      /\ Rotation' \in Int /\ a < Rotation' /\ Rotation' % Hour = 0
      /\ \/ UNCHANGED files
         \/ files' = Append(files, f)
         \/ files # <<>> /\ files' = Append(Tail(files), f)
  BY RotationStep
<1>2. options \in Options /\ files \in Seq(Names) /\ a \in Int
  BY OptionsTypes DEF Inv, TypeOK
<1>3. /\ Begin(f) \in Int /\ Begin(f) <= a
      /\ \A g \in Names : Begin(g) < Rotation => Begin(g) <= Begin(f)
      /\ Rotation % Hour = 0 => Rotation <= Begin(f)
  BY <1>1, <1>2, StampedFile
<1>4. f \in Names
  BY <1>2, NamesOfStamps
<1> HIDE DEF f, a
<1>5. \A g \in Names : Begin(g) \in Int
  BY BeginsAreNumbers
<1>6. ~Rotating' /\ (WholeHours' <=> WholeHours) /\ (Strictly' <=> WholeHours)
  BY <1>1 DEF Rotating, WholeHours, Strictly
<1>7. ASSUME NEW q \in Seq(Names),
             \A i \in DOMAIN q : Begin(q[i]) < Rotation,
             \A i, j \in DOMAIN q : i < j => /\ Begin(q[i]) <= Begin(q[j])
                                             /\ WholeHours => Begin(q[i]) < Begin(q[j])
      PROVE  /\ files' = q => QueueInv'
             /\ files' = Append(q, f) => QueueInv'
  <2>1. \A i \in DOMAIN q : q[i] \in Names
    BY ElementOfSeq
  <2>2. \A i \in DOMAIN q : Begin(q[i]) < Rotation' /\ Begin(q[i]) <= Begin(f)
    BY <1>1, <1>2, <1>3, <1>5, <1>7, <2>1
  <2>3. \A i \in DOMAIN q : WholeHours => Begin(q[i]) < Begin(f)
    BY <1>1, <1>3, <1>5, <1>7, <2>1 DEF QueueInv
  <2>4. ASSUME files' = q PROVE QueueInv'
    BY <1>1, <1>6, <1>7, <2>2, <2>4 DEF QueueInv, Begin
  <2>5. ASSUME files' = Append(q, f) PROVE QueueInv'
    <3>1. \A i, j \in DOMAIN files' : i < j =>
            /\ Begin(files'[i]) <= Begin(files'[j])
            /\ WholeHours => Begin(files'[i]) < Begin(files'[j])
      <4>1. WholeHours \in BOOLEAN
        BY DEF WholeHours
      <4> QED
        BY <1>3, <1>4, <1>7, <2>2, <2>3, <2>5, <4>1, OrderOfAppended
    <3>2. \A i \in DOMAIN files' : files'[i] = f \/ (i \in DOMAIN q /\ files'[i] = q[i])
      BY <1>4, <2>5, AppendProperties, LenProperties
    <3>3. \A i \in DOMAIN files' : Begin(files'[i]) < Rotation'
      BY <1>1, <1>2, <1>3, <2>2, <3>2
    <3> QED
      BY <1>1, <1>6, <3>1, <3>3 DEF QueueInv, Begin
  <2> QED
    BY <2>4, <2>5
<1>8. /\ \A i \in DOMAIN files : Begin(files[i]) < Rotation
      /\ \A i, j \in DOMAIN files : i < j => /\ Begin(files[i]) <= Begin(files[j])
                                             /\ WholeHours => Begin(files[i]) < Begin(files[j])
  BY DEF QueueInv, Strictly
<1>9. CASE UNCHANGED files \/ files' = Append(files, f)
  BY <1>2, <1>7, <1>8, <1>9
<1>10. CASE files # <<>> /\ files' = Append(Tail(files), f)
  <2> DEFINE q == Tail(files)
  <2>1. q \in Seq(Names) /\ \A i \in DOMAIN q :
          i \in Int /\ i + 1 \in DOMAIN files /\ q[i] = files[i + 1]
    BY <1>2, <1>10, HeadTailProperties, LenProperties
  <2> HIDE DEF q
  <2>2. \A i \in DOMAIN q : Begin(q[i]) < Rotation
    BY <1>8, <2>1
  <2>3. \A i, j \in DOMAIN q : i < j => i + 1 < j + 1
    BY <2>1
  <2>4. \A i, j \in DOMAIN q : i < j => /\ Begin(q[i]) <= Begin(q[j])
                                        /\ WholeHours => Begin(q[i]) < Begin(q[j])
    BY <1>8, <2>1, <2>3
  <2>5. files' = Append(q, f)
    BY <1>10 DEF q
  <2> QED
    BY <1>7, <2>1, <2>2, <2>4, <2>5
<1> QED
  BY <1>1, <1>9, <1>10

LEMMA QueueNext == Inv /\ QueueInv /\ [Next]_vars => QueueInv'
<1> SUFFICES ASSUME Inv, QueueInv, [Next]_vars PROVE QueueInv'
  OBVIOUS
<1>1. ASSUME UNCHANGED <<next_rotation_time, files, options>> PROVE QueueInv'
  BY <1>1 DEF QueueInv, Rotation, Rotating, Strictly, WholeHours, Begin
<1>2. CASE Initialize
  BY <1>2, QueueAfterInitialize
<1>3. ASSUME NEW stamp \in Stamps, apply_log(stamp) PROVE QueueInv'
  <2>1. CASE LogToNewFile(stamp)
    BY <2>1, StampsAreNumbers, QueueAfterRotation
  <2>2. CASE LogToSameFile(stamp) \/ LogWithoutWriter(stamp) \/ LogThatCuts(stamp)
    BY <1>1, <2>2 DEF LogToSameFile, LogWithoutWriter, LogThatCuts, Logging
  <2> QED
    BY <1>3, <2>1, <2>2 DEF apply_log
<1>4. CASE Shutdown /\ UNCHANGED <<next_rotation_time, files, historyVars>>
  BY <1>1, <1>4 DEF Shutdown
<1>5. CASE Destroy /\ next_rotation_time' = kZero /\ files' = <<>>
  <2>1. options' = options /\ options \in Options
    BY <1>5 DEF Destroy, Inv, TypeOK
  <2>2. Rotation' = options.offset /\ DOMAIN files' = {}
    BY <1>5, <2>1, OptionsTypes DEF Rotation, kZero
  <2> QED
    BY <1>5, <2>1, <2>2 DEF QueueInv, WholeHours, Rotating
<1>6. CASE Environment /\ UNCHANGED <<next_rotation_time, files, historyVars>>
  BY <1>1, <1>6 DEF Environment, Tick, RemoveFile, RemoveDirectory, DenyOpens, Fault,
    RestoreDirectory
<1>7. CASE UNCHANGED vars
  BY <1>1, <1>7 DEF vars, baseVars
<1> QED
  BY <1>2, <1>3, <1>4, <1>5, <1>6, <1>7 DEF Next

\* The queue of files is in the order of their periods, for every clock, zone and set of
\* options, over restarts, rotations, late stamps and failed opens, and where hours are
\* whole no file is in it twice (init_file_queue, rotate_file).
THEOREM QueueAscendingHolds == Spec => []QueueAscending
<1>1. Init => Inv /\ QueueInv
  BY InitInv, QueueInitially
<1>2. Inv /\ QueueInv /\ [Next]_vars => (Inv /\ QueueInv)'
  BY NextInv, QueueNext
<1>3. QueueInv => QueueAscending
  BY DEF QueueInv, QueueAscending, Strictly
<1> QED
  BY <1>1, <1>2, <1>3, PTL DEF Spec

-----------------------------------------------------------------------------
(* What a log does to the files.                                           *)

\* Opening and checking only add files.
LEMMA ReopenWriterKeepsFiles ==
  ASSUME NEW io \in IoType, NEW stamp \in Int
  PROVE  io.disk \subseteq reopen_writer(io, stamp).disk
<1> DEFINE made == CreateDirectory(io)
           opened == OpenWriter(made, HourlyLogFilename(stamp))
<1>1. made \in IoType /\ made.disk = io.disk
  BY DEF CreateDirectory, IoType
<1>2. io.disk \subseteq opened.disk /\ DOMAIN opened = DOMAIN made
  BY <1>1 DEF OpenWriter, IoType
<1>3. AfterOpen(opened).disk = opened.disk
  BY <1>1, <1>2 DEF AfterOpen, IoType
<1> QED
  BY <1>2, <1>3 DEF reopen_writer

LEMMA CheckKeepsFiles ==
  ASSUME Inv, NEW stamp \in Int
  PROVE  disk \subseteq check_file(stamp).disk
<1>1. Io \in IoType /\ Io.disk = disk
  BY DEF Io, IoType, Inv, TypeOK
<1>2. disk \subseteq Reopen(Io).disk
  BY <1>1 DEF Reopen, IoType
<1> QED
  BY <1>1, <1>2, ReopenWriterKeepsFiles DEF check_file

\* The front of a full queue is not the file of a log that rotates.
LEMMA FrontIsOlder ==
  ASSUME Inv, QueueInv, NEW stamp \in Int, LogToNewFile(stamp),
         QueueFull, options.max_files # 0, WholeHours \/ options.max_files > 1
  PROVE  Head(files) # HourlyLogFilename(stamp)
<1> DEFINE f == HourlyLogFilename(stamp)
<1>1. options \in Options /\ files \in Seq(Names) /\ options.max_files \in Nat
      /\ Len(files) = options.max_files
  BY OptionsTypes DEF Inv, TypeOK, QueueFull
<1>2. Rotation \in Int /\ Rotation <= stamp + options.offset
  BY RotationStep
<1>3. /\ Begin(f) \in Int
      /\ \A g \in Names : Begin(g) < Rotation => Begin(g) <= Begin(f)
      /\ Rotation % Hour = 0 => Rotation <= Begin(f)
  BY <1>1, <1>2, StampedFile
<1> HIDE DEF f
<1>4. 1 \in DOMAIN files /\ Head(files) = files[1] /\ files[1] \in Names
  BY <1>1
<1>5. Begin(files[1]) \in Int /\ Begin(files[1]) < Rotation
  BY <1>4, BeginsAreNumbers DEF QueueInv
<1>6. CASE Rotation % Hour = 0
  BY <1>2, <1>3, <1>4, <1>5, <1>6 DEF f
<1>7. CASE Rotation % Hour # 0
  <2>1. ~WholeHours
    BY <1>7 DEF QueueInv
  <2>2. 2 \in DOMAIN files /\ files[2] \in Names
    BY <1>1, <2>1
  <2>3. Begin(files[1]) < Begin(files[2]) /\ Begin(files[2]) < Rotation
    BY <1>4, <1>7, <2>2 DEF QueueInv, Strictly
  <2>4. Begin(files[2]) \in Int /\ Begin(files[2]) <= Begin(f)
    BY <1>3, <2>2, <2>3, BeginsAreNumbers
  <2> QED
    BY <1>3, <1>4, <1>5, <2>3, <2>4 DEF f
<1> QED
  BY <1>6, <1>7

LEMMA LogKeepsItsFile ==
  ASSUME Inv, QueueInv, NEW stamp \in Int, apply_log(stamp),
         WholeHours \/ options.max_files > 1
  PROVE  writer' \notin disk \ disk'
<1> DEFINE checked == check_file(stamp)
<1>1. CASE LogToSameFile(stamp)
  BY <1>1, CheckKeepsFiles DEF LogToSameFile, Becomes
<1>2. CASE LogWithoutWriter(stamp)
  BY <1>2 DEF LogWithoutWriter
<1>3. NoWriter \notin disk /\ disk \subseteq Names
  BY WriterAssumption DEF Inv, TypeOK
<1>4. CASE LogToNewFile(stamp)
  <2> DEFINE bare == [checked EXCEPT !.writer = NoWriter]
             io == reopen_writer(bare, stamp)
  <2>1. checked \in IoType /\ disk \subseteq checked.disk
    BY <1>4, CheckedWhileLogging, CheckKeepsFiles DEF LogToNewFile
  <2> HIDE DEF checked
  <2>2. bare \in IoType /\ bare.writer = NoWriter /\ bare.disk = checked.disk
    BY <2>1 DEF IoType
  <2> HIDE DEF bare
  <2>3. io \in IoType /\ disk \subseteq io.disk /\ io.writer \in {NoWriter, HourlyLogFilename(stamp)}
    <3>1. io \in IoType
      BY <2>2, ReopenWriterTypes DEF Inv, TypeOK
    <3> QED
      BY <2>1, <2>2, <3>1, ReopenWriterKeepsFiles, ReopenedName
  <2>4. \/ Becomes(io)
        \/ options.max_files # 0 /\ Enqueue(io)
    BY <1>4 DEF LogToNewFile, bare, checked
  <2> HIDE DEF io
  <2>5. CASE Becomes(io)
    BY <2>3, <2>5 DEF Becomes
  <2>6. CASE options.max_files # 0 /\ QueueFull /\ Becomes([io EXCEPT !.disk = @ \ {Head(files)}])
    <3>1. Head(files) # HourlyLogFilename(stamp)
      BY <1>4, <2>6, FrontIsOlder
    <3>2. writer' = io.writer /\ disk' = io.disk \ {Head(files)}
      BY <2>3, <2>6 DEF Becomes, IoType
    <3> QED
      BY <1>3, <2>3, <3>1, <3>2
  <2> QED
    BY <2>4, <2>5, <2>6 DEF Enqueue
<1>5. CASE LogThatCuts(stamp)
  <2> DEFINE moved == ShiftChain(checked)
             bare == [moved EXCEPT !.writer = NoWriter]
             io == reopen_writer(bare, stamp)
  <2>1. checked \in IoType /\ disk \subseteq checked.disk
    BY <1>5, CheckedWhileLogging, CheckKeepsFiles DEF LogThatCuts
  <2> HIDE DEF checked
  <2>2. moved \in IoType /\ \A n \in Names : n \in disk /\ n \notin moved.disk => n[1] = "seq"
    <3>1. \A n \in 0..options.max_files : <<"seq", n + 1>> \in Names
      BY OptionsTypes DEF Names, Inv, TypeOK
    <3>2. moved \in IoType
      BY <2>1, <3>1 DEF ShiftChain, IoType
    <3> DEFINE numbers == {n \in 0..options.max_files :
                             n < options.max_files /\ <<"seq", n>> \in checked.disk}
    <3>3. moved.disk = (checked.disk \ {<<"seq", n>> : n \in numbers})
                          \cup {<<"seq", n + 1>> : n \in numbers}
      BY <2>1 DEF ShiftChain, IoType
    <3> HIDE DEF moved, numbers
    <3>4. ASSUME NEW n \in disk, n \notin moved.disk PROVE n[1] = "seq"
      <4>1. n \in {<<"seq", m>> : m \in numbers}
        BY <2>1, <3>3, <3>4
      <4> QED
        BY <4>1
    <3> QED
      BY <3>2, <3>4
  <2> HIDE DEF moved
  <2>3. bare \in IoType /\ bare.writer = NoWriter /\ bare.disk = moved.disk
    BY <2>2 DEF IoType
  <2> HIDE DEF bare
  <2>4. moved.disk \subseteq io.disk /\ io.writer \in {NoWriter, HourlyLogFilename(stamp)}
    BY <2>3, ReopenWriterKeepsFiles, ReopenedName
  <2>5. Becomes(io)
    BY <1>5 DEF LogThatCuts, bare, moved, checked
  <2> HIDE DEF io
  <2>6. HourlyLogFilename(stamp)[1] = "hour"
    BY DEF HourlyLogFilename
  <2>7. writer' \in {NoWriter, HourlyLogFilename(stamp)} /\ moved.disk \subseteq disk'
    BY <2>4, <2>5 DEF Becomes
  <2> QED
    BY <1>3, <2>2, <2>6, <2>7
<1> QED
  BY <1>1, <1>2, <1>4, <1>5 DEF apply_log

\* No log makes a target remove the file that it then writes to, for every clock, set of
\* options and directory, but for a target with one file where hours are not whole
\* (rotate_file removes the front of the queue after the new file is open).
THEOREM NeverRemovesCurrentHolds == Spec => NeverRemovesCurrent
<1> DEFINE Kept == (\E stamp \in Stamps : apply_log(stamp)) /\ (WholeHours \/ options.max_files > 1)
                     => writer' \notin disk \ disk'
<1>1. Init => Inv /\ QueueInv
  BY InitInv, QueueInitially
<1>2. Inv /\ QueueInv /\ [Next]_vars => (Inv /\ QueueInv)'
  BY NextInv, QueueNext
<1>3. Inv /\ QueueInv /\ [Next]_vars => [Kept]_vars
  BY LogKeepsItsFile, StampsAreNumbers
<1> QED
  BY <1>1, <1>2, <1>3, PTL DEF Spec, NeverRemovesCurrent

\* Without a back-off, and where the directory is there or made, an open succeeds.
LEMMA OpensWhereItCan ==
  ASSUME NEW io \in IoType, NEW stamp \in Int, HourlyLogFilename(stamp) \in Names,
         ~BackedOff(io),
         io.dir = "there" \/ (io.dir = "gone" /\ io.next_reopen_time # kZero)
  PROVE  LET new == reopen_writer(io, stamp)
         IN  /\ new.writer = HourlyLogFilename(stamp) /\ new.dir = "there"
             /\ new.next_reopen_time = kZero
<1> DEFINE f == HourlyLogFilename(stamp)
           made == CreateDirectory(io)
           opened == OpenWriter(made, f)
<1>1. f \in Names
  OBVIOUS
<1> HIDE DEF f
<1>2. made \in IoType /\ made.dir = "there"
  BY DEF CreateDirectory, IoType
<1> HIDE DEF made
<1>3. opened \in IoType /\ opened.writer = f /\ opened.dir = "there"
  BY <1>1, <1>2 DEF OpenWriter, IoType
<1>4. reopen_writer(io, stamp) = AfterOpen(opened)
  BY DEF reopen_writer, made, f
<1> HIDE DEF opened
<1>5. LET new == AfterOpen(opened)
      IN  new.writer = f /\ new.dir = "there" /\ new.next_reopen_time = kZero
  BY <1>1, <1>3, WriterAssumption DEF AfterOpen, IoType
<1> QED
  BY <1>4, <1>5 DEF f

\* A log that finds no writer, no back-off and a directory that takes files: check_file
\* opens the file of the hour, and a rotation opens it again.
LEMMA LogAfterBackOff ==
  ASSUME Inv, writer = NoWriter, now >= next_reopen_time, dir # "denied",
         NEW stamp \in Int, apply_log(stamp)
  PROVE  writer' # NoWriter
<1> DEFINE checked == check_file(stamp)
<1>1. status = "up"
  BY DEF apply_log, LogToSameFile, LogToNewFile, LogWithoutWriter, LogThatCuts, Logging
<1>2. next_reopen_time # kZero /\ now \in Int /\ next_reopen_time \in Int /\ options \in Options
  BY <1>1 DEF Inv, BackOffIffNoWriter, Alive, TypeOK
<1>3. HourlyLogFilename(stamp) \in Names
  BY <1>2, NamesOfStamps
<1>4. Io \in IoType /\ ~BackedOff(Io) /\ Io.dir # "denied" /\ Io.next_reopen_time # kZero
  BY <1>2 DEF Io, IoType, Inv, TypeOK, BackedOff
<1>5. /\ checked \in IoType /\ checked.writer # NoWriter
      /\ checked.dir = "there" /\ checked.next_reopen_time = kZero
  <2> DEFINE new == reopen_writer(Io, stamp)
  <2>1. Io.writer = NoWriter /\ Io.dir \in {"there", "gone", "denied"}
    BY <1>4 DEF Io, IoType
  <2>2. new \in IoType
    BY <1>4, <2>1, ReopenWriterTypes DEF Inv, TypeOK
  <2>3. new.writer = HourlyLogFilename(stamp) /\ new.dir = "there" /\ new.next_reopen_time = kZero
    BY <1>3, <1>4, <2>1, OpensWhereItCan
  <2>4. checked = new
    BY DEF check_file
  <2> HIDE DEF new, checked
  <2> QED
    BY <1>3, <2>2, <2>3, <2>4, WriterAssumption
<1> HIDE DEF checked
<1>6. ASSUME NEW io \in IoType, io.dir = "there", io.next_reopen_time = kZero
      PROVE  reopen_writer([io EXCEPT !.writer = NoWriter], stamp).writer # NoWriter
  <2> DEFINE bare == [io EXCEPT !.writer = NoWriter]
  <2>1. bare \in IoType /\ ~BackedOff(bare) /\ bare.dir = "there"
    BY <1>6 DEF IoType, BackedOff
  <2> HIDE DEF bare
  <2>2. reopen_writer(bare, stamp).writer # NoWriter
    BY <1>3, <2>1, OpensWhereItCan, WriterAssumption
  <2> QED
    BY <2>2 DEF bare
<1>7. CASE LogToSameFile(stamp)
  BY <1>5, <1>7 DEF LogToSameFile, Becomes, checked
<1>8. CASE LogToNewFile(stamp)
  <2> DEFINE io == reopen_writer([checked EXCEPT !.writer = NoWriter], stamp)
  <2>1. io.writer # NoWriter
    BY <1>5, <1>6
  <2>2. io \in IoType
    BY <1>5, ReopenedWhileLogging
  <2>3. Becomes(io) \/ Enqueue(io)
    BY <1>8 DEF LogToNewFile, checked
  <2> HIDE DEF io
  <2>4. writer' = io.writer
    BY <2>2, <2>3 DEF Enqueue, Becomes, IoType
  <2> QED
    BY <2>1, <2>4
<1>9. CASE LogThatCuts(stamp)
  <2> DEFINE moved == ShiftChain(checked)
             io == reopen_writer([moved EXCEPT !.writer = NoWriter], stamp)
  <2>1. moved \in IoType /\ moved.dir = "there" /\ moved.next_reopen_time = kZero
    <3>1. \A n \in 0..options.max_files : <<"seq", n + 1>> \in Names
      BY OptionsTypes DEF Names, Inv, TypeOK
    <3> QED
      BY <1>5, <3>1 DEF ShiftChain, IoType
  <2>2. Becomes(io)
    BY <1>9 DEF LogThatCuts, checked
  <2> HIDE DEF moved
  <2>3. io.writer # NoWriter
    BY <1>6, <2>1
  <2> QED
    BY <2>2, <2>3 DEF Becomes
<1>10. ~LogWithoutWriter(stamp)
  BY <1>5 DEF LogWithoutWriter, checked
<1> QED
  BY <1>7, <1>8, <1>9, <1>10 DEF apply_log

\* The first log after the back-off opens a file again, for every directory that comes and
\* goes, unless opens are denied, and makes the directory when it is gone (reopen_writer).
THEOREM RetryRecoversHolds == Spec => RetryRecovers
<1> DEFINE Opens == writer = NoWriter /\ now >= next_reopen_time /\ dir # "denied"
                      /\ (\E stamp \in Stamps : apply_log(stamp)) => writer' # NoWriter
<1>1. ASSUME Inv, writer = NoWriter, now >= next_reopen_time, dir # "denied",
             NEW stamp \in Int, apply_log(stamp)
      PROVE  writer' # NoWriter
  BY <1>1, LogAfterBackOff
<1>2. Inv => [Opens]_vars
  BY <1>1, StampsAreNumbers
<1> QED
  BY InitInv, NextInv, <1>2, PTL DEF Spec, RetryRecovers

-----------------------------------------------------------------------------
(* Logs to a removed file.                                                 *)

\* Logs in a row to a removed file are logs since the last check, and few enough.
BlindInv == blind <= current_items /\ BlindBounded

\* What reopen_writer leaves: no writer, or a directory and the file in it.
LEMMA OpenedFileIsThere ==
  ASSUME NEW io \in IoType, io.writer = NoWriter, NEW stamp \in Int,
         HourlyLogFilename(stamp) \in Names
  PROVE  LET new == reopen_writer(io, stamp)
         IN  new.writer = NoWriter \/ new.writer \in new.disk
<1> DEFINE made == CreateDirectory(io)
           f == HourlyLogFilename(stamp)
           opened == OpenWriter(made, f)
<1>1. CASE BackedOff(io)
  BY <1>1 DEF reopen_writer
<1>2. CASE ~BackedOff(io)
  <2>1. made \in IoType
    BY DEF CreateDirectory, IoType
  <2>2. reopen_writer(io, stamp) = AfterOpen(opened)
    BY <1>2 DEF reopen_writer
  <2> HIDE DEF made, f
  <2>3. opened.writer = NoWriter \/ opened.writer \in opened.disk
    BY <2>1 DEF OpenWriter, IoType
  <2>4. AfterOpen(opened).writer = opened.writer /\ AfterOpen(opened).disk = opened.disk
    BY <2>1 DEF OpenWriter, AfterOpen, IoType
  <2> QED
    BY <2>2, <2>3, <2>4
<1> QED
  BY <1>1, <1>2

\* A check that is due leaves no writer, no directory, or the file of the writer.
LEMMA CheckedFileIsThere ==
  ASSUME Inv, NEW stamp \in Int, writer = NoWriter \/ CheckDue(stamp)
  PROVE  LET io == check_file(stamp)
         IN  io.writer = NoWriter \/ io.dir # "there" \/ io.writer \in io.disk
<1>1. Io \in IoType /\ Io.writer = writer /\ HourlyLogFilename(stamp) \in Names
  BY NamesOfStamps DEF Io, IoType, Inv, TypeOK
<1>2. CASE writer = NoWriter
  BY <1>1, <1>2, OpenedFileIsThere DEF check_file
<1>3. CASE writer # NoWriter
  <2>1. check_file(stamp) = Reopen(Io)
    BY <1>3 DEF check_file
  <2>2. Reopen(Io).dir # "there" \/ Reopen(Io).writer \in Reopen(Io).disk
    BY <1>1 DEF Reopen, IoType
  <2> QED
    BY <2>1, <2>2
<1> QED
  BY <1>2, <1>3

LEMMA BlindAfterLog ==
  ASSUME Inv, BlindInv, NEW stamp \in Int, apply_log(stamp)
  PROVE  BlindInv'
<1> DEFINE checked == check_file(stamp)
<1>1. /\ blind \in Nat /\ current_items \in Nat /\ UNCHANGED options
      /\ options.check_items \in Nat /\ options.check_interval \in Nat
  BY OptionsTypes, TimeAssumption
     DEF Inv, TypeOK, apply_log, LogToSameFile, LogToNewFile, LogWithoutWriter, LogThatCuts, Logging
<1>2. ASSUME NEW io, NEW written \in BOOLEAN, CountItem(stamp, checked, written), Remember(io),
             io.writer = NoWriter \/ io.writer \in io.disk
      PROVE  BlindInv'
  <2>1. blind' = 0
    BY <1>2 DEF Remember
  <2>2. current_items' \in Nat
    BY <1>1, <1>2 DEF CountItem
  <2> QED
    BY <1>1, <2>1, <2>2 DEF BlindInv, BlindBounded
<1>3. CASE LogToSameFile(stamp)
  <2>1. CountItem(stamp, checked, checked.writer # NoWriter) /\ Remember(checked)
    BY <1>3 DEF LogToSameFile
  <2>2. CASE checked.writer = NoWriter \/ checked.writer \in checked.disk
    BY <1>2, <2>1, <2>2
  <2>3. CASE checked.dir # "there"
    <3>1. blind' = 0
      BY <2>1, <2>3 DEF Remember
    <3>2. current_items' \in Nat
      BY <1>1, <2>1 DEF CountItem
    <3> QED
      BY <1>1, <3>1, <3>2 DEF BlindInv, BlindBounded
  <2>4. CASE checked.writer # NoWriter /\ checked.dir = "there" /\ checked.writer \notin checked.disk
    <3>1. ~CheckDue(stamp)
      BY <2>4, CheckedFileIsThere
    <3>2. current_items' = current_items + 1 /\ blind' = blind + 1
      BY <1>1, <2>1, <2>4, <3>1 DEF CountItem, Remember
    <3>3. options.check_interval + options.check_items # 0 => current_items < options.check_items
      BY <1>1, <3>1 DEF CheckDue
    <3> QED
      BY <1>1, <3>2, <3>3 DEF BlindInv, BlindBounded
  <2> QED
    BY <2>2, <2>3, <2>4
<1>4. ASSUME NEW io \in IoType
      PROVE  LET new == reopen_writer([io EXCEPT !.writer = NoWriter], stamp)
             IN  new.writer = NoWriter \/ new.writer \in new.disk
  <2> DEFINE bare == [io EXCEPT !.writer = NoWriter]
  <2>1. bare \in IoType /\ bare.writer = NoWriter /\ HourlyLogFilename(stamp) \in Names
    BY NamesOfStamps DEF IoType, Inv, TypeOK
  <2> HIDE DEF bare
  <2>2. LET new == reopen_writer(bare, stamp)
        IN  new.writer = NoWriter \/ new.writer \in new.disk
    BY <2>1, OpenedFileIsThere
  <2> QED
    BY <2>2 DEF bare
<1>5. checked \in IoType
  BY CheckedWhileLogging
     DEF apply_log, LogToSameFile, LogToNewFile, LogWithoutWriter, LogThatCuts
<1>6. CASE LogToNewFile(stamp)
  <2> DEFINE io == reopen_writer([checked EXCEPT !.writer = NoWriter], stamp)
  <2>1. CountItem(stamp, checked, io.writer # NoWriter) /\ Remember(io)
    BY <1>6 DEF LogToNewFile
  <2>2. io.writer = NoWriter \/ io.writer \in io.disk
    BY <1>4, <1>5
  <2> HIDE DEF io, checked
  <2> QED
    BY <1>2, <2>1, <2>2
<1>7. CASE LogThatCuts(stamp)
  <2> DEFINE moved == ShiftChain(checked)
             io == reopen_writer([moved EXCEPT !.writer = NoWriter], stamp)
  <2>1. CountItem(stamp, checked, io.writer # NoWriter) /\ Remember(io)
    BY <1>7 DEF LogThatCuts
  <2>2. moved \in IoType
    <3>1. \A n \in 0..options.max_files : <<"seq", n + 1>> \in Names
      BY OptionsTypes DEF Names, Inv, TypeOK
    <3> QED
      BY <1>5, <3>1 DEF ShiftChain, IoType
  <2> HIDE DEF moved
  <2>3. io.writer = NoWriter \/ io.writer \in io.disk
    BY <1>4, <2>2
  <2> HIDE DEF io, checked
  <2> QED
    BY <1>2, <2>1, <2>3
<1>8. CASE LogWithoutWriter(stamp)
  BY <1>1, <1>8 DEF LogWithoutWriter, checkVars, historyVars, BlindInv, BlindBounded
<1> QED
  BY <1>3, <1>6, <1>7, <1>8 DEF apply_log

\* With a check, at most check_items logs in a row go to a file that was removed from
\* outside, for every directory and set of options (check_file, _current_items).
THEOREM BlindBoundedHolds == Spec => []BlindBounded
<1>1. Init => Inv /\ BlindInv
  <2>1. Init => BlindInv
    BY OptionsTypes DEF Init, BaseInit, BlindInv, BlindBounded
  <2> QED
    BY <2>1, InitInv
<1>2. Inv /\ BlindInv /\ [Next]_vars => (Inv /\ BlindInv)'
  <2> SUFFICES ASSUME Inv, BlindInv, [Next]_vars PROVE BlindInv'
    BY NextInv
  <2>1. ASSUME blind' = 0, current_items' = 0, UNCHANGED options PROVE BlindInv'
    BY <2>1, OptionsTypes DEF Inv, TypeOK, BlindInv, BlindBounded
  <2>2. ASSUME UNCHANGED <<blind, current_items, options>> PROVE BlindInv'
    BY <2>2 DEF BlindInv, BlindBounded
  <2>3. CASE Initialize
    BY <2>1, <2>2, <2>3 DEF Initialize, checkVars, historyVars
  <2>4. CASE \E stamp \in Stamps : apply_log(stamp)
    BY <2>4, BlindAfterLog, StampsAreNumbers
  <2>5. CASE Shutdown /\ UNCHANGED <<next_rotation_time, files, historyVars>>
    BY <2>2, <2>5 DEF Shutdown, checkVars, historyVars
  <2>6. CASE Destroy /\ blind' = 0
    BY <2>1, <2>6 DEF Destroy
  <2>7. CASE Environment /\ UNCHANGED <<next_rotation_time, files, historyVars>>
    BY <2>2, <2>7 DEF Environment, Tick, RemoveFile, RemoveDirectory, DenyOpens, Fault,
      RestoreDirectory, checkVars, historyVars
  <2>8. CASE UNCHANGED vars
    BY <2>2, <2>8 DEF vars, baseVars, checkVars
  <2> QED
    BY <2>3, <2>4, <2>5, <2>6, <2>7, <2>8 DEF Next
<1> QED
  BY <1>1, <1>2, PTL DEF Spec, BlindInv

-----------------------------------------------------------------------------
(* The periods of logs and files.                                          *)

\* Where the rotations of a target come at the ends of its periods, the first one too.
OnTime == (Hourly /\ WholeHours) \/ (Daily /\ options.offset = 0)

PeriodEnd(time) == (time \div Period + 1) * Period

\* Without failed opens the next rotation is not after the period of the writer's file.
RotationInv ==
  OnTime /\ retries = 0 /\ writer # NoWriter => Rotation <= PeriodEnd(Begin(writer))

LEMMA DivUnique ==
  ASSUME NEW a \in Int, NEW d \in Int, NEW p \in Nat \ {0}, d * p <= a, a < d * p + p
  PROVE  a \div p = d
<1> DEFINE e == a \div p
<1>1. e \in Int /\ e * p <= a /\ a < e * p + p
  BY DivBounds
<1> HIDE DEF e
<1>2. e * p < (d + 1) * p /\ d * p < (e + 1) * p
  BY <1>1
<1>3. e <= d
  BY <1>1, <1>2
<1>4. d <= e
  BY <1>1, <1>2
<1> QED
  BY <1>1, <1>3, <1>4 DEF e

LEMMA DivMonotone ==
  ASSUME NEW a \in Int, NEW b \in Int, NEW p \in Nat \ {0}, a < (b \div p + 1) * p
  PROVE  a \div p <= b \div p
<1> DEFINE e == a \div p
           d == b \div p
<1>1. e \in Int /\ d \in Int /\ e * p <= a
  BY DivBounds
<1>2. a < (d + 1) * p
  OBVIOUS
<1> HIDE DEF e, d
<1>3. e * p < (d + 1) * p
  BY <1>1, <1>2
<1>4. e <= d
  BY <1>1, <1>3
<1> QED
  BY <1>4 DEF e, d

\* The hour of a stamp is in its period.
LEMMA HourInPeriod ==
  ASSUME NEW a \in Int
  PROVE  ((a \div Hour) * Hour) \div Period = a \div Period
<1> DEFINE d == a \div Period
           b == (a \div Hour) * Hour
<1>1. Period \in Nat \ {0} /\ Hour \in Nat \ {0}
  BY PeriodHours, TimeAssumption
<1>2. d \in Int /\ d * Period <= a /\ a < d * Period + Period
  BY <1>1, DivBounds
<1>3. b \in Int /\ b <= a
  BY <1>1, DivBounds
<1> HIDE DEF d
<1>4. PICK k \in Int : d * Period = k * Hour
  BY <1>2, MultipleOfPeriod
<1>5. k * Hour <= b
  BY <1>1, <1>2, <1>4, MultipleAtMost
<1> HIDE DEF b
<1>6. d * Period <= b /\ b < d * Period + Period
  <2>1. d * Period \in Int
    BY <1>1, <1>2
  <2> QED
    BY <1>1, <1>2, <1>3, <1>4, <1>5, <2>1
<1> QED
  BY <1>1, <1>2, <1>3, <1>6, DivUnique DEF b, d

\* What a log finds with a check and leaves: the writer stays, is opened for the first
\* time since a failure, or is that of a rotation.
LEMMA WriterOfLog ==
  ASSUME Inv, NEW stamp \in Int, apply_log(stamp), ~Rotating, retries' = 0, writer' # NoWriter
  PROVE  /\ writer # NoWriter /\ retries = 0
         /\ \/ LogToSameFile(stamp) /\ writer' = writer /\ stamp < next_rotation_time
            \/ LogToNewFile(stamp) /\ writer' = HourlyLogFilename(stamp)
<1> DEFINE checked == check_file(stamp)
<1>1. retries \in Nat /\ Io \in IoType /\ Io.writer = writer
  BY DEF Inv, TypeOK, Io, IoType
<1>2. writer # NoWriter => checked.writer = writer
  BY <1>1 DEF check_file, Reopen, IoType
<1>3. checked \in IoType
  BY CheckedWhileLogging
     DEF apply_log, LogToSameFile, LogToNewFile, LogWithoutWriter, LogThatCuts
<1>4. CASE LogToSameFile(stamp)
  <2>1. writer' = checked.writer /\ Remember(checked) /\ ~RotationDue(stamp, checked)
    BY <1>4 DEF LogToSameFile, Becomes
  <2>2. writer # NoWriter /\ retries = 0
    BY <1>1, <2>1 DEF Remember
  <2>3. ~(stamp >= next_rotation_time)
    BY <2>1 DEF RotationDue
  <2>4. next_rotation_time \in Int
    BY DEF Inv, TypeOK
  <2> QED
    BY <1>2, <1>4, <2>1, <2>2, <2>3, <2>4
<1>5. CASE LogToNewFile(stamp)
  <2> DEFINE bare == [checked EXCEPT !.writer = NoWriter]
             io == reopen_writer(bare, stamp)
  <2>1. (Becomes(io) \/ Enqueue(io)) /\ Remember(io)
    BY <1>5 DEF LogToNewFile
  <2> HIDE DEF checked
  <2>2. bare \in IoType /\ bare.writer = NoWriter
    BY <1>3 DEF IoType
  <2> HIDE DEF bare
  <2>3. io \in IoType /\ io.writer \in {NoWriter, HourlyLogFilename(stamp)}
    BY <2>2, ReopenWriterTypes, ReopenedName DEF Inv, TypeOK
  <2> HIDE DEF io
  <2>4. writer' = io.writer
    BY <2>1, <2>3 DEF Enqueue, Becomes, IoType
  <2> QED
    BY <1>1, <1>5, <2>1, <2>3, <2>4 DEF Remember
<1>6. ~LogWithoutWriter(stamp)
  <2>1. LogWithoutWriter(stamp) => checked.writer = NoWriter /\ writer' = writer
    BY DEF LogWithoutWriter
  <2> QED
    BY <1>2, <2>1
<1>7. ~LogThatCuts(stamp)
  BY DEF LogThatCuts
<1> QED
  BY <1>4, <1>5, <1>6, <1>7 DEF apply_log

LEMMA LogIntoItsPeriod ==
  ASSUME Inv, RotationInv, OnTime, NEW stamp \in Int, apply_log(stamp),
         retries' = 0, writer' # NoWriter
  PROVE  /\ (stamp + options.offset) \div Period <= Begin(writer') \div Period
         /\ Rotation' <= PeriodEnd(Begin(writer'))
<1> DEFINE a == stamp + options.offset
<1>1. ~Rotating
  BY DEF OnTime, Hourly, Daily, Rotating
<1>2. /\ writer # NoWriter /\ retries = 0
      /\ \/ LogToSameFile(stamp) /\ writer' = writer /\ stamp < next_rotation_time
         \/ LogToNewFile(stamp) /\ writer' = HourlyLogFilename(stamp)
  BY <1>1, WriterOfLog
<1>3. options \in Options /\ options.offset \in Nat /\ a \in Int /\ next_rotation_time \in Int
      /\ writer \in Names /\ Period \in Nat \ {0} /\ UNCHANGED options
  BY <1>2, OptionsTypes, PeriodHours DEF Inv, TypeOK, LogToSameFile, LogToNewFile, Logging
<1>4. CASE LogToSameFile(stamp) /\ writer' = writer /\ stamp < next_rotation_time
  <2>1. Begin(writer) \in Int /\ Begin(writer') = Begin(writer)
    BY <1>3, <1>4, BeginsAreNumbers
  <2>2. Rotation' = Rotation /\ Rotation \in Int /\ a < Rotation
    BY <1>3, <1>4 DEF LogToSameFile, Rotation
  <2>3. Rotation <= PeriodEnd(Begin(writer))
    BY <1>2 DEF RotationInv
  <2>4. PeriodEnd(Begin(writer)) \in Int
    BY <1>3, <2>1 DEF PeriodEnd
  <2>5. a < (Begin(writer) \div Period + 1) * Period
    BY <1>3, <2>2, <2>3, <2>4 DEF PeriodEnd
  <2>6. a \div Period <= Begin(writer) \div Period
    BY <1>3, <2>1, <2>5, DivMonotone
  <2> QED
    BY <2>1, <2>2, <2>3, <2>6
<1>5. CASE LogToNewFile(stamp) /\ writer' = HourlyLogFilename(stamp)
  <2>1. Begin(writer') = (a \div Hour) * Hour
    BY <1>5 DEF HourlyLogFilename, Begin
  <2> HIDE DEF a
  <2>2. Begin(writer') \div Period = a \div Period
    BY <1>3, <2>1, HourInPeriod
  <2>3. Rotation' = (a \div Period + 1) * Period
    <3>1. Rotation' = NextRotationTime(stamp, options.offset) + options.offset
      BY <1>3, <1>5 DEF Rotation, LogToNewFile
    <3>2. NextRotationTime(stamp, options.offset) = (a \div Period + 1) * Period - options.offset
      BY DEF NextRotationTime, a
    <3>3. a \div Period \in Int
      BY <1>3, DivBounds
    <3>4. (a \div Period + 1) * Period \in Int
      BY <1>3, <3>3
    <3> QED
      BY <1>3, <3>1, <3>2, <3>4
  <2>4. (a \div Period + 1) * Period \in Int /\ a \div Period \in Int
    BY <1>3, DivBounds
  <2> QED
    BY <2>2, <2>3, <2>4 DEF PeriodEnd, a
<1> QED
  BY <1>2, <1>4, <1>5

\* initialize takes the first rotation time in UTC: on time, that is the end of the period
\* of its file.
LEMMA RotationAfterInitialize ==
  ASSUME Inv, Initialize
  PROVE  RotationInv'
<1>1. now \in Int /\ options \in Options /\ options' = options /\ writer = NoWriter
      /\ options.offset \in Nat /\ Period \in Nat \ {0}
  BY TimeAssumption, OptionsTypes, PeriodHours DEF Inv, TypeOK, Initialize, NothingLeft
<1> SUFFICES ASSUME OnTime, writer' # NoWriter
             PROVE  Rotation' <= PeriodEnd(Begin(writer'))
  BY <1>1 DEF RotationInv, OnTime, Hourly, Daily, WholeHours, PeriodEnd, Period, Begin
<1> DEFINE u == now \div Period
           a == now + options.offset
<1>2. ~Rotating
  BY DEF OnTime, Hourly, Daily, Rotating
<1>3. writer' = Filename(now) /\ next_rotation_time' = NextRotationTime(now, 0)
  BY <1>1, <1>2 DEF Initialize, OpenWriter, Io
<1>4. Begin(writer') = (a \div Period) * Period
  BY <1>3 DEF OnTime, Filename, Begin, Period, HourlyLogFilename, DailyLogFilename, Hourly, Daily
<1>5. u \in Int /\ a \in Int /\ u * Period <= now /\ now < u * Period + Period
  BY <1>1, DivBounds
<1>6. Rotation' = (u + 1) * Period + options.offset
  <2>1. NextRotationTime(now, 0) = (u + 1) * Period
    BY <1>1, <1>5 DEF NextRotationTime
  <2> QED
    BY <1>1, <1>3, <2>1 DEF Rotation
<1>7. PICK k \in Int : options.offset = k * Period
  <2>1. CASE Daily /\ options.offset = 0
    BY <1>1, <2>1
  <2>2. CASE Hourly /\ WholeHours
    <3>1. Period = Hour
      BY <2>2 DEF Period, Hourly, Daily
    <3>2. options.offset = (options.offset \div Hour) * Hour /\ options.offset \div Hour \in Int
      BY <1>1, <2>2, <3>1, SMT DEF WholeHours
    <3> QED
      BY <3>1, <3>2
  <2> QED
    BY <2>1, <2>2 DEF OnTime
<1> DEFINE b == (a \div Period) * Period
<1>8. a \div Period = u + k
  <2>1. (u + k) * Period = u * Period + k * Period /\ u * Period \in Int
    BY <1>1, <1>5, <1>7
  <2>2. (u + k) * Period <= a /\ a < (u + k) * Period + Period
    BY <1>1, <1>5, <1>7, <2>1
  <2> HIDE DEF a, u
  <2> QED
    BY <1>1, <1>5, <1>7, <2>2, DivUnique
<1>9. Rotation' = (u + k + 1) * Period
  BY <1>1, <1>5, <1>6, <1>7
<1> HIDE DEF u, a
<1>10. Begin(writer') \div Period = u + k
  <2>1. (u + k) * Period \in Int /\ Begin(writer') = (u + k) * Period
    BY <1>1, <1>4, <1>5, <1>7, <1>8
  <2> QED
    BY <1>1, <1>5, <1>7, <2>1, DivUnique
<1>11. (u + k + 1) * Period \in Int
  BY <1>1, <1>5, <1>7
<1> QED
  BY <1>9, <1>10, <1>11 DEF PeriodEnd

\* Without failed opens a log, also a late one, is never written to a file of a period
\* before its own, for every clock and set of options, where the rotations of the target
\* come at the ends of its periods (rotate_file, next_rotation_time).
THEOREM NotIntoThePastHolds == Spec => NotIntoThePast
<1> DEFINE Forward ==
      \A stamp \in Stamps :
        apply_log(stamp) /\ writer' # NoWriter /\ retries' = 0
          /\ ((Hourly /\ WholeHours) \/ (Daily /\ options.offset = 0))
          => (stamp + options.offset) \div Period <= Begin(writer') \div Period
<1>1. Init => Inv /\ RotationInv
  BY InitInv DEF Init, BaseInit, RotationInv
<1>2. Inv /\ RotationInv /\ [Next]_vars => (Inv /\ RotationInv)'
  <2> SUFFICES ASSUME Inv, RotationInv, [Next]_vars PROVE RotationInv'
    BY NextInv
  <2>1. ASSUME UNCHANGED <<writer, next_rotation_time, retries, options>> PROVE RotationInv'
    BY <2>1 DEF RotationInv, OnTime, Hourly, Daily, WholeHours, Rotation, PeriodEnd, Period, Begin
  <2>2. CASE Initialize
    BY <2>2, RotationAfterInitialize
  <2>3. ASSUME NEW stamp \in Stamps, apply_log(stamp) PROVE RotationInv'
    <3>1. options' = options
      BY <2>3 DEF apply_log, LogToSameFile, LogToNewFile, LogWithoutWriter, LogThatCuts, Logging
    <3>2. OnTime' <=> OnTime
      BY <3>1 DEF OnTime, Hourly, Daily, WholeHours
    <3>3. Period' = Period
      BY <3>1 DEF Period, Daily
    <3>4. OnTime /\ retries' = 0 /\ writer' # NoWriter => Rotation' <= PeriodEnd(Begin(writer'))
      BY <2>3, StampsAreNumbers, LogIntoItsPeriod
    <3> QED
      BY <3>2, <3>3, <3>4 DEF RotationInv, PeriodEnd, Begin
  <2>4. CASE Shutdown /\ UNCHANGED <<next_rotation_time, files, historyVars>>
    BY <2>1, <2>4 DEF Shutdown, ioVars, historyVars
  <2>5. CASE Destroy
    BY <2>5 DEF Destroy, RotationInv
  <2>6. CASE Environment /\ UNCHANGED <<next_rotation_time, files, historyVars>>
    BY <2>1, <2>6 DEF Environment, Tick, RemoveFile, RemoveDirectory, DenyOpens, Fault,
      RestoreDirectory, ioVars, historyVars
  <2>7. CASE UNCHANGED vars
    BY <2>1, <2>7 DEF vars, baseVars, ioVars
  <2> QED
    BY <2>2, <2>3, <2>4, <2>5, <2>6, <2>7 DEF Next
<1>3. Inv /\ RotationInv => [Forward]_vars
  BY LogIntoItsPeriod, StampsAreNumbers DEF OnTime
<1> QED
  BY <1>1, <1>2, <1>3, PTL DEF Spec, NotIntoThePast

-----------------------------------------------------------------------------
(* How many files a target leaves behind.                                  *)

\* The files of a target that removes some: those that were there before, those of the
\* queue, and others, one for initialize and one for each open that made up for a
\* failed one.
BudgetInv ==
  ~Rotating /\ options.max_files # 0 /\ status # "none" =>
    \E others \in SUBSET Names :
      /\ IsFiniteSet(others) /\ Cardinality(others) <= 1 + retries
      /\ disk \subseteq born \cup Range(files) \cup others
      /\ writer # NoWriter => writer \in born \cup Range(files) \cup others

LEMMA OneMore ==
  ASSUME NEW S, IsFiniteSet(S), NEW x, NEW n \in Nat, Cardinality(S) <= n
  PROVE  IsFiniteSet(S \cup {x}) /\ Cardinality(S \cup {x}) <= n + 1
<1>1. Cardinality(S) \in Nat
  BY FS_CardinalityType
<1> QED
  BY <1>1, FS_AddElement

LEMMA RangeBound ==
  ASSUME NEW s \in Seq(Names)
  PROVE  IsFiniteSet(Range(s)) /\ Cardinality(Range(s)) <= Len(s)
<1>1. DOMAIN s = 1..Len(s) /\ Len(s) \in Nat
  BY LenProperties
<1>2. IsFiniteSet(DOMAIN s) /\ Cardinality(DOMAIN s) = Len(s)
  BY <1>1, FS_Interval
<1>3. s \in Surjection(DOMAIN s, Range(s))
  BY <1>1 DEF Surjection, Range
<1> QED
  BY <1>2, <1>3, FS_Surjection

LEMMA RangeAppended ==
  ASSUME NEW s \in Seq(Names), NEW f \in Names
  PROVE  Range(Append(s, f)) = Range(s) \cup {f}
<1> DEFINE t == Append(s, f)
<1>1. /\ DOMAIN t = 1..(Len(s) + 1) /\ DOMAIN s = 1..Len(s) /\ Len(s) \in Nat
      /\ t[Len(s) + 1] = f /\ \A i \in 1..Len(s) : t[i] = s[i]
  BY AppendProperties, LenProperties
<1> HIDE DEF t
<1>2. DOMAIN t = DOMAIN s \cup {Len(s) + 1}
  BY <1>1
<1>3. Range(t) = Range(s) \cup {f}
  BY <1>1, <1>2 DEF Range
<1> QED
  BY <1>3 DEF t

LEMMA RangeOfHeadAndTail ==
  ASSUME NEW s \in Seq(Names), s # <<>>
  PROVE  Range(s) \subseteq {Head(s)} \cup Range(Tail(s)) /\ Tail(s) \in Seq(Names)
<1> DEFINE t == Tail(s)
<1>1. /\ t \in Seq(Names) /\ DOMAIN t = 1..(Len(s) - 1) /\ DOMAIN s = 1..Len(s)
      /\ Len(s) \in Nat /\ \A i \in DOMAIN t : t[i] = s[i + 1]
  BY HeadTailProperties, LenProperties
<1>2. s[1] = Head(s)
  OBVIOUS
<1> HIDE DEF t
<1>3. ASSUME NEW i \in DOMAIN s, i # 1 PROVE s[i] \in Range(t)
  <2>1. i - 1 \in DOMAIN t /\ (i - 1) + 1 = i
    BY <1>1, <1>3
  <2> QED
    BY <1>1, <2>1 DEF Range
<1>4. Range(s) \subseteq {s[1]} \cup Range(t)
  BY <1>3 DEF Range
<1> QED
  BY <1>1, <1>2, <1>4 DEF t

\* reopen_writer makes one file, that of its writer, and is then ready to do it again.
LEMMA ReopenWriterFiles ==
  ASSUME NEW io \in IoType, io.writer = NoWriter, NEW stamp \in Int,
         HourlyLogFilename(stamp) \in Names
  PROVE  LET new == reopen_writer(io, stamp)
         IN  /\ new.disk = IF new.writer = NoWriter THEN io.disk ELSE io.disk \cup {new.writer}
             /\ new.writer # NoWriter => new.dir = "there" /\ new.next_reopen_time = kZero
<1> DEFINE made == CreateDirectory(io)
           f == HourlyLogFilename(stamp)
           opened == OpenWriter(made, f)
<1>1. CASE BackedOff(io)
  BY <1>1 DEF reopen_writer
<1>2. CASE ~BackedOff(io)
  <2>1. made \in IoType /\ made.disk = io.disk
    BY DEF CreateDirectory, IoType
  <2>2. reopen_writer(io, stamp) = AfterOpen(opened)
    BY <1>2 DEF reopen_writer
  <2>3. f \in Names
    OBVIOUS
  <2> HIDE DEF made, f
  <2>4. /\ opened \in IoType
        /\ opened.disk = IF opened.writer = NoWriter THEN io.disk ELSE io.disk \cup {opened.writer}
        /\ opened.writer # NoWriter => opened.dir = "there"
    BY <2>1, <2>3, WriterAssumption DEF OpenWriter, IoType
  <2> HIDE DEF opened
  <2>5. LET new == AfterOpen(opened)
        IN  /\ new.writer = opened.writer /\ new.disk = opened.disk /\ new.dir = opened.dir
            /\ new.writer # NoWriter => new.next_reopen_time = kZero
    BY <2>4 DEF AfterOpen, IoType
  <2> QED
    BY <2>2, <2>4, <2>5
<1> QED
  BY <1>1, <1>2

\* What a check leaves of the files: it creates at most that of the writer.
LEMMA CheckFiles ==
  ASSUME Inv, NEW stamp \in Int
  PROVE  LET io == check_file(stamp)
         IN  /\ io.disk \subseteq disk \cup {io.writer}
             /\ io.writer = NoWriter => io.disk = disk
             /\ writer # NoWriter => io.writer = writer
             /\ writer = NoWriter /\ io.writer # NoWriter =>
                  io.dir = "there" /\ io.next_reopen_time = kZero
<1>1. Io \in IoType /\ Io.writer = writer /\ Io.disk = disk /\ HourlyLogFilename(stamp) \in Names
  BY NamesOfStamps DEF Io, IoType, Inv, TypeOK
<1>2. CASE writer = NoWriter
  <2>1. check_file(stamp) = reopen_writer(Io, stamp)
    BY <1>2 DEF check_file
  <2> QED
    BY <1>1, <1>2, <2>1, ReopenWriterFiles
<1>3. CASE writer # NoWriter
  <2>1. LET new == Reopen(Io)
        IN  new.writer = writer /\ new.disk \subseteq disk \cup {writer}
    BY <1>1 DEF Reopen, IoType
  <2>2. check_file(stamp) \in {Io, Reopen(Io)}
    BY <1>3 DEF check_file
  <2> QED
    BY <1>1, <1>3, <2>1, <2>2
<1> QED
  BY <1>2, <1>3

LEMMA BudgetAfterInitialize ==
  ASSUME Inv, Initialize
  PROVE  BudgetInv'
<1> DEFINE kept == IF options.truncate THEN disk \ {Filename(now)} ELSE disk
           io == OpenWriter([Io EXCEPT !.disk = kept], Filename(now))
<1>1. Filename(now) \in Names
  <2>1. now \in Int /\ options \in Options
    BY TimeAssumption DEF Inv, TypeOK
  <2> QED
    BY <2>1, NamesOfStamps DEF Filename
<1>2. io.disk \subseteq kept \cup {Filename(now)} /\ io.writer \in {NoWriter, Filename(now)}
  BY DEF OpenWriter, Io
<1>3. disk' = io.disk /\ status = "none"
      /\ IF io.writer = NoWriter THEN status' = status
         ELSE writer' = io.writer /\ born' = kept /\ retries' = 0
  BY DEF Initialize
<1> HIDE DEF io, kept
<1>4. CASE io.writer = NoWriter
  BY <1>3, <1>4 DEF BudgetInv
<1>5. CASE io.writer # NoWriter
  <2> DEFINE others == {Filename(now)}
  <2>1. IsFiniteSet(others) /\ Cardinality(others) <= 1 + retries'
    <3>1. IsFiniteSet(others) /\ Cardinality(others) = 1
      BY FS_Singleton
    <3>2. retries' = 0
      BY <1>3, <1>5
    <3> QED
      BY <3>1, <3>2
  <2>2. disk' \subseteq born' \cup Range(files)' \cup others /\ writer' \in others
    BY <1>2, <1>3, <1>5
  <2>3. others \in SUBSET Names
    BY <1>1
  <2> HIDE DEF others
  <2> QED
    BY <2>1, <2>2, <2>3 DEF BudgetInv
<1> QED
  BY <1>4, <1>5

LEMMA BudgetAfterLog ==
  ASSUME Inv, BudgetInv, NEW stamp \in Int, apply_log(stamp)
  PROVE  BudgetInv'
<1> DEFINE checked == check_file(stamp)
           f == HourlyLogFilename(stamp)
<1>1. /\ status = "up" /\ UNCHANGED options /\ options \in Options /\ f \in Names
      /\ files \in Seq(Names) /\ retries \in Nat /\ born \subseteq Names
      /\ checked \in IoType
  BY NamesOfStamps, CheckedWhileLogging
     DEF apply_log, LogToSameFile, LogToNewFile, LogWithoutWriter, LogThatCuts, Logging, Inv, TypeOK
<1> SUFFICES ASSUME ~Rotating, options.max_files # 0 PROVE BudgetInv'
  BY <1>1 DEF BudgetInv, Rotating
<1>2. PICK others \in SUBSET Names :
        /\ IsFiniteSet(others) /\ Cardinality(others) <= 1 + retries
        /\ disk \subseteq born \cup Range(files) \cup others
        /\ writer # NoWriter => writer \in born \cup Range(files) \cup others
  BY <1>1 DEF BudgetInv
<1> DEFINE known == born \cup Range(files) \cup others
<1>3. /\ checked.disk \subseteq disk \cup {checked.writer}
      /\ checked.writer = NoWriter => checked.disk = disk
      /\ writer # NoWriter => checked.writer = writer
      /\ writer = NoWriter /\ checked.writer # NoWriter =>
           checked.dir = "there" /\ checked.next_reopen_time = kZero
  BY CheckFiles
<1>4. checked.writer \in {NoWriter} \cup Names
  BY <1>1 DEF IoType
<1> HIDE DEF checked, f
<1>5. \* It is enough to find some others.
      ASSUME NEW more \in SUBSET Names, IsFiniteSet(more), Cardinality(more) <= 1 + retries',
             disk' \subseteq born' \cup Range(files') \cup more,
             writer' # NoWriter => writer' \in born' \cup Range(files') \cup more
      PROVE  BudgetInv'
  BY <1>5 DEF BudgetInv, Range
<1>6. CASE LogToSameFile(stamp)
  <2>1. /\ writer' = checked.writer /\ disk' = checked.disk /\ files' = files /\ born' = born
        /\ retries' = IF writer = NoWriter /\ checked.writer # NoWriter THEN retries + 1 ELSE retries
    BY <1>6 DEF LogToSameFile, Becomes, Remember, checked
  <2>2. CASE writer = NoWriter /\ checked.writer # NoWriter
    <3> DEFINE more == others \cup {checked.writer}
    <3>1. IsFiniteSet(more) /\ Cardinality(more) <= (1 + retries) + 1
      <4>1. 1 + retries \in Nat
        BY <1>1
      <4> QED
        BY <1>2, <4>1, OneMore
    <3>2. more \in SUBSET Names /\ disk' \subseteq born' \cup Range(files') \cup more
          /\ writer' \in more
      BY <1>2, <1>3, <1>4, <2>1, <2>2
    <3>3. Cardinality(more) <= 1 + retries'
      <4>1. retries' = retries + 1
        BY <2>1, <2>2
      <4> QED
        BY <1>1, <3>1, <4>1
    <3> HIDE DEF more
    <3> QED
      BY <1>5, <3>1, <3>2, <3>3
  <2>3. CASE ~(writer = NoWriter /\ checked.writer # NoWriter)
    BY <1>2, <1>3, <1>5, <2>1, <2>3
  <2> QED
    BY <2>2, <2>3
<1>7. CASE LogToNewFile(stamp)
  <2> DEFINE bare == [checked EXCEPT !.writer = NoWriter]
             io == reopen_writer(bare, stamp)
  <2>1. /\ checked.writer # NoWriter
        /\ \/ Becomes(io) /\ UNCHANGED files /\ io.writer = NoWriter
           \/ Enqueue(io) /\ io.writer # NoWriter
        /\ Remember(io)
    BY <1>7 DEF LogToNewFile, checked
  <2>2. /\ bare \in IoType /\ bare.writer = NoWriter /\ bare.disk = checked.disk
        /\ bare.dir = checked.dir /\ bare.next_reopen_time = checked.next_reopen_time
    BY <1>1 DEF IoType
  <2> HIDE DEF bare
  <2>3. /\ io \in IoType /\ io.writer \in {NoWriter, f}
        /\ io.disk = IF io.writer = NoWriter THEN checked.disk ELSE checked.disk \cup {io.writer}
    BY <1>1, <2>2, ReopenWriterTypes, ReopenedName, ReopenWriterFiles DEF Inv, TypeOK, f
  <2>4. writer = NoWriter => io.writer # NoWriter
    <3>1. ASSUME writer = NoWriter PROVE io.writer = f
      <4>1. ~BackedOff(bare) /\ bare.dir = "there"
        BY <1>3, <2>1, <2>2, <3>1 DEF BackedOff
      <4> QED
        BY <1>1, <2>2, <4>1, OpensWhereItCan DEF f
    <3> QED
      BY <1>1, <3>1, WriterAssumption
  <2> HIDE DEF io
  <2>5. born' = born /\ retries' \in {retries, retries + 1}
    BY <2>1 DEF Remember
  <2>6. Cardinality(others) <= 1 + retries'
    <3>1. Cardinality(others) \in Nat
      BY <1>2, FS_CardinalityType
    <3> QED
      BY <1>1, <1>2, <2>5, <3>1
  <2>7. CASE Becomes(io) /\ UNCHANGED files /\ io.writer = NoWriter
    <3>1. disk' = checked.disk /\ writer' = NoWriter /\ files' = files
      BY <2>3, <2>7 DEF Becomes
    <3>2. checked.disk \subseteq known
      BY <1>2, <1>3, <2>4, <2>7
    <3> QED
      BY <1>2, <1>5, <2>5, <2>6, <3>1, <3>2
  <2>8. CASE Enqueue(io) /\ io.writer # NoWriter
    <3>1. io.writer = f /\ io.disk \subseteq known \cup {f}
      <4>1. writer = NoWriter => checked.writer = f
        <5>1. ASSUME writer = NoWriter PROVE checked.writer \in {NoWriter, f}
          <6>1. Io \in IoType /\ Io.writer = NoWriter
            BY <5>1 DEF Io, IoType, Inv, TypeOK
          <6> QED
            BY <5>1, <6>1, ReopenedName DEF checked, check_file, f
        <5> QED
          BY <2>1, <5>1
      <4> QED
        BY <1>2, <1>3, <2>3, <2>8, <4>1
    <3>2. CASE ~QueueFull
      <4>1. files' = Append(files, f) /\ disk' = io.disk /\ writer' = f
        BY <2>8, <3>1, <3>2 DEF Enqueue, Becomes
      <4>2. Range(files') = Range(files) \cup {f}
        BY <1>1, <4>1, RangeAppended
      <4> QED
        BY <1>2, <1>5, <2>5, <2>6, <3>1, <4>1, <4>2
    <3>3. CASE QueueFull
      <4>1. files' = Append(Tail(files), f) /\ disk' = io.disk \ {Head(files)} /\ writer' = f
        BY <2>3, <2>8, <3>1, <3>3 DEF Enqueue, Becomes, IoType
      <4>2. files # <<>>
        BY <1>1, <3>3 DEF QueueFull
      <4>3. Range(files) \subseteq {Head(files)} \cup Range(Tail(files)) /\ Tail(files) \in Seq(Names)
        BY <1>1, <4>2, RangeOfHeadAndTail
      <4>4. Range(files') = Range(Tail(files)) \cup {f}
        BY <1>1, <4>1, <4>3, RangeAppended
      <4>5. disk' \subseteq born' \cup Range(files') \cup others
        BY <2>5, <3>1, <4>1, <4>3, <4>4
      <4> QED
        BY <1>2, <1>5, <2>6, <4>1, <4>4, <4>5
    <3> QED
      BY <3>2, <3>3
  <2> QED
    BY <2>1, <2>7, <2>8
<1>8. CASE LogWithoutWriter(stamp)
  <2>1. UNCHANGED <<disk, writer, files, born, retries>>
    BY <1>8 DEF LogWithoutWriter, historyVars
  <2> QED
    BY <1>2, <1>5, <2>1
<1>9. ~LogThatCuts(stamp)
  BY DEF LogThatCuts
<1> QED
  BY <1>6, <1>7, <1>8, <1>9 DEF apply_log

\* A daily or hourly target that removes files leaves at most max_files, one more, and one
\* for each failed open that was made up for, for every clock, directory and set of options
\* (init_file_queue, rotate_file, reopen_writer).
THEOREM FileBudgetHolds == Spec => []FileBudget
<1>1. Init => Inv /\ BudgetInv
  BY InitInv DEF Init, BaseInit, BudgetInv
<1>2. Inv /\ BudgetInv /\ [Next]_vars => (Inv /\ BudgetInv)'
  <2> SUFFICES ASSUME Inv, BudgetInv, [Next]_vars PROVE BudgetInv'
    BY NextInv
  <2>1. ASSUME UNCHANGED <<writer, files, born, retries, options>>, disk' \subseteq disk,
               status' # "none" => status # "none"
        PROVE  BudgetInv'
    BY <2>1 DEF BudgetInv, Rotating, Range
  <2>2. CASE Initialize
    BY <2>2, BudgetAfterInitialize
  <2>3. CASE \E stamp \in Stamps : apply_log(stamp)
    BY <2>3, StampsAreNumbers, BudgetAfterLog
  <2>4. CASE Shutdown /\ UNCHANGED <<next_rotation_time, files, historyVars>>
    BY <2>1, <2>4 DEF Shutdown, ioVars, historyVars
  <2>5. CASE Destroy
    BY <2>5 DEF Destroy, BudgetInv
  <2>6. CASE Environment /\ UNCHANGED <<next_rotation_time, files, historyVars>>
    BY <2>1, <2>6 DEF Environment, Tick, RemoveFile, RemoveDirectory, DenyOpens, Fault,
      RestoreDirectory, ioVars, historyVars
  <2>7. CASE UNCHANGED vars
    BY <2>1, <2>7 DEF vars, baseVars, ioVars
  <2> QED
    BY <2>2, <2>3, <2>4, <2>5, <2>6, <2>7 DEF Next
<1>3. Inv /\ BudgetInv => FileBudget
  <2> SUFFICES ASSUME Inv, BudgetInv, Alive, ~Rotating, options.max_files # 0
               PROVE  Cardinality(disk \ born) <= options.max_files + 1 + retries
    BY DEF FileBudget
  <2>1. PICK others \in SUBSET Names :
          /\ IsFiniteSet(others) /\ Cardinality(others) <= 1 + retries
          /\ disk \subseteq born \cup Range(files) \cup others
    BY DEF BudgetInv, Alive
  <2>2. files \in Seq(Names) /\ Len(files) \in Nat /\ Len(files) <= options.max_files
        /\ options.max_files \in Nat /\ retries \in Nat
    BY OptionsTypes, LenProperties DEF Inv, TypeOK
  <2>3. IsFiniteSet(Range(files)) /\ Cardinality(Range(files)) <= Len(files)
    BY <2>2, RangeBound
  <2> DEFINE all == Range(files) \cup others
             both == Range(files) \cap others
  <2>4. /\ IsFiniteSet(all)
        /\ Cardinality(all) = Cardinality(Range(files)) + Cardinality(others) - Cardinality(both)
    BY <2>1, <2>3, FS_Union
  <2>5. disk \ born \in SUBSET all
    BY <2>1
  <2>6. IsFiniteSet(disk \ born) /\ Cardinality(disk \ born) <= Cardinality(all)
    BY <2>4, <2>5, FS_Subset
  <2>7. IsFiniteSet(both)
    BY <2>3, FS_Subset
  <2> HIDE DEF all, both
  <2>8. /\ Cardinality(both) \in Nat /\ Cardinality(all) \in Nat /\ Cardinality(disk \ born) \in Nat
        /\ Cardinality(others) \in Nat /\ Cardinality(Range(files)) \in Nat
    BY <2>1, <2>3, <2>4, <2>6, <2>7, FS_CardinalityType
  <2> QED
    BY <2>1, <2>2, <2>3, <2>4, <2>6, <2>8
<1> QED
  BY <1>1, <1>2, <1>3, PTL DEF Spec
=============================================================================
