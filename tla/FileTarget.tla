------------------------------ MODULE FileTarget ------------------------------
(***************************************************************************)
(* heaton/targets/{daily,hourly,rotating}_file_target.{h,cc}: the targets   *)
(* that write to files.  The daily and the hourly one open a new file every*)
(* period and keep a queue of the files they have to remove; they differ in*)
(* the length of the period, in the names that initialize uses, and in the *)
(* early return of rotate_file.  The rotating one cuts its file by size.   *)
(*                                                                         *)
(* The lengths of logs and files are left out: where a limit is set, a log *)
(* may always reach it.                                                    *)
(***************************************************************************)
EXTENDS TargetBase, Sequences, FiniteSets, Functions

VARIABLES
  next_rotation_time,   \* _next_rotation_time
  files,                \* _files, oldest first
  born,                 \* history: the files that were there when initialize opened one
  retries,              \* history: opens that made up for a failed one since then
  blind                 \* history: logs in a row that went to a removed file

vars == <<baseVars, next_rotation_time, files, born, retries, blind>>
historyVars == <<born, retries, blind>>

Daily == options.target_type = "daily"
Hourly == options.target_type = "hourly"
Rotating == options.target_type = "rotating"

Period == IF Daily THEN Day ELSE Hour

\* The names initialize works with.
Filename(stamp) == IF Daily THEN DailyLogFilename(stamp) ELSE HourlyLogFilename(stamp)

NextRotationTimeNow(stamp, offset) == ((stamp + offset) \div Period) * Period - offset

\* The beginning of the period in the time zone, never after stamp, and one period.
NextRotationTime(stamp, offset) ==
  ((stamp + offset) \div Period + 1) * Period - offset

Init ==
  /\ BaseInit
  /\ next_rotation_time = kZero
  /\ files = <<>>
  /\ born = {} /\ retries = 0 /\ blind = 0

-----------------------------------------------------------------------------
(* initialize, of all three; a rotating target has no periods.             *)

\* The file n periods before time.
Before(time, n) == Filename(time - n * Period)

init_file_queue_unordered(time, existing) ==
  LET run == {n \in 0..options.max_files :
                n < options.max_files /\ \A k \in 0..n : Before(time, k) \in existing}
  IN  [i \in 1..Cardinality(run) |-> Before(time, i - 1)]

\* The files that exist from the current period back to the first gap, at most
\* max_files, oldest first.
init_file_queue(time, existing) ==
  LET run == {n \in 0..options.max_files :
                n < options.max_files /\ \A k \in 0..n : Before(time, k) \in existing}
  IN  [i \in 1..Cardinality(run) |-> Before(time, Cardinality(run) - i)]

\* The first rotation time is computed before _timezone is loaded, in UTC.  When the
\* open fails the caller gets an error and drops the object.
Initialize ==
  /\ status = "none"
  /\ LET kept == IF options.truncate THEN disk \ {Filename(now)} ELSE disk
         io == OpenWriter([Io EXCEPT !.disk = kept], Filename(now))
     IN  /\ disk' = io.disk
         /\ IF io.writer = NoWriter
              THEN UNCHANGED <<status, writer, checkVars, next_rotation_time, files, historyVars>>
              ELSE /\ status' = "up"
                   /\ writer' = io.writer
                   /\ next_check_time' = NextCheckTime(now)
                   /\ current_items' = 0
                   /\ next_rotation_time' = IF Rotating THEN kZero ELSE NextRotationTime(now, 0)
                   /\ files' = IF Rotating THEN <<>> ELSE init_file_queue(now, kept)
                   /\ born' = kept /\ retries' = 0 /\ blind' = 0
  /\ UNCHANGED <<now, faults, options, dir, next_reopen_time>>

-----------------------------------------------------------------------------
(* apply_log with rotate_file.                                             *)

RotationDueLate(stamp, io) ==
  ~Rotating /\ (stamp > next_rotation_time \/ (Hourly /\ io.writer = NoWriter))

RotationDue(stamp, io) ==
  ~Rotating /\ (stamp >= next_rotation_time \/ (Hourly /\ io.writer = NoWriter))

\* A log went to the writer of io: is its file there?
Remember(io) ==
  /\ retries' = IF writer = NoWriter /\ io.writer # NoWriter THEN retries + 1 ELSE retries
  /\ blind' = IF io.writer # NoWriter /\ io.dir = "there" /\ io.writer \notin io.disk
                THEN blind + 1 ELSE 0
  /\ UNCHANGED born

\* No rotation; for a rotating target, no limit, no writer, or a log that fits.
LogToSameFile(stamp) ==
  /\ Logging(stamp)
  /\ LET io == check_file(stamp)
     IN  /\ ~RotationDue(stamp, io)
         /\ Becomes(io)
         /\ CountItem(stamp, io, io.writer # NoWriter)
         /\ Remember(io)
  /\ UNCHANGED <<status, next_rotation_time, files>>

QueueFullLate == Len(files) > options.max_files

QueueFull == Len(files) = options.max_files

EnqueueForgetsToRemove(io) ==
  /\ files' = Append(IF QueueFull THEN Tail(files) ELSE files, io.writer)
  /\ Becomes(io)

\* The current file enters the queue, whose oldest file is removed when it is full.
Enqueue(io) ==
  IF QueueFull
    THEN /\ files' = Append(Tail(files), io.writer)
         /\ Becomes([io EXCEPT !.disk = @ \ {Head(files)}])
    ELSE /\ files' = Append(files, io.writer)
         /\ Becomes(io)

LogToNewFile(stamp) ==
  /\ Logging(stamp)
  /\ LET checked == check_file(stamp)
         io == reopen_writer([checked EXCEPT !.writer = NoWriter], stamp)
     IN  /\ RotationDue(stamp, checked)
         /\ checked.writer # NoWriter
         /\ next_rotation_time' = NextRotationTime(stamp, options.offset)
         /\ IF io.writer = NoWriter \/ options.max_files = 0
              THEN Becomes(io) /\ UNCHANGED files
              ELSE Enqueue(io)
         /\ CountItem(stamp, checked, io.writer # NoWriter)
         /\ Remember(io)
  /\ UNCHANGED status

\* rotate_file closes a writer that is null.
LogWithoutWriter(stamp) ==
  /\ Logging(stamp)
  /\ LET io == check_file(stamp)
     IN  /\ RotationDue(stamp, io)
         /\ io.writer = NoWriter
         /\ dir' = io.dir
  /\ status' = "crashed"
  /\ UNCHANGED <<disk, writer, next_reopen_time, checkVars, next_rotation_time, files,
                 historyVars>>

\* base_0000 becomes base_0001 and so on; what had the last number is overwritten.
\* No file has such a name to begin with.
ShiftChain(io) ==
  LET moved == {n \in 0..options.max_files : n < options.max_files /\ <<"seq", n>> \in io.disk}
  IN  [io EXCEPT !.disk = (@ \ {<<"seq", n>> : n \in moved})
                             \cup {<<"seq", n + 1>> : n \in moved}]

\* A log that does not fit into the file of a rotating target.
LogThatCuts(stamp) ==
  /\ Rotating
  /\ options.max_file_size # 0
  /\ Logging(stamp)
  /\ LET checked == check_file(stamp)
         io == reopen_writer([ShiftChain(checked) EXCEPT !.writer = NoWriter], stamp)
     IN  /\ checked.writer # NoWriter
         /\ Becomes(io)
         /\ CountItem(stamp, checked, io.writer # NoWriter)
         /\ Remember(io)
  /\ UNCHANGED <<status, next_rotation_time, files>>

apply_log(stamp) ==
  \/ LogToSameFile(stamp)
  \/ LogToNewFile(stamp)
  \/ LogWithoutWriter(stamp)
  \/ LogThatCuts(stamp)

Next ==
  \/ Initialize
  \/ \E stamp \in Stamps : apply_log(stamp)
  \/ Shutdown /\ UNCHANGED <<next_rotation_time, files, historyVars>>
  \/ /\ Destroy
     /\ next_rotation_time' = kZero /\ files' = <<>>
     /\ born' = {} /\ retries' = 0 /\ blind' = 0
  \/ Environment /\ UNCHANGED <<next_rotation_time, files, historyVars>>

Spec == Init /\ [][Next]_vars

-----------------------------------------------------------------------------
(* Properties.                                                             *)

Alive == status \in {"up", "stopped"}

\* The hours of the zone begin when those of UTC do.  In other zones, with half an hour,
\* the first rotation comes in the middle of an hour and opens the same file again.
WholeHours == options.offset % Hour = 0

\* Types; the queue of files never holds more than max_files.
TypeOK ==
  /\ now \in FirstTime..LastTime /\ faults \in 0..MaxFaults /\ options \in Options
  /\ dir \in {"there", "gone", "denied"}
  /\ disk \subseteq Names /\ born \subseteq Names
  /\ status \in {"none", "up", "stopped", "crashed"}
  /\ writer \in {NoWriter} \cup (Names)
  /\ {next_reopen_time, next_check_time, next_rotation_time} \subseteq Int
  /\ current_items \in 0..MaxItems
  /\ files \in Seq(Names) /\ Len(files) <= options.max_files
  /\ retries \in Nat /\ blind \in Nat

\* The queue of files is in the order of their periods and, where hours are whole, holds
\* no file twice, over restarts, rotations and reopened files of earlier periods: its
\* front is the file that may go.
QueueAscending ==
  \A i, j \in DOMAIN files :
    i < j => /\ Begin(files[i]) <= Begin(files[j])
             /\ WholeHours => Begin(files[i]) < Begin(files[j])

\* A target has no writer exactly while it backs off: a back-off that outlives the
\* open that ended it would make the next rotation close the file and open none.
BackOffIffNoWriter == Alive => (writer = NoWriter <=> next_reopen_time # kZero)

\* Files a daily or hourly target has left behind since initialize: those in its queue, the one
\* initialize opened, and one for each failed open that was made up for.
FileBudget ==
  Alive /\ ~Rotating /\ options.max_files # 0 =>
    Cardinality(disk \ born) <= options.max_files + 1 + retries

\* With a check, at most check_items logs in a row go to a file that was removed,
\* as long as the directory is there.
BlindBounded ==
  options.check_interval + options.check_items # 0 => blind <= options.check_items

\* A log never makes the target remove the file that it then writes to, but where hours
\* are not whole a target with one file does.
NeverRemovesCurrent ==
  [][(\E stamp \in Stamps : apply_log(stamp)) /\ (WholeHours \/ options.max_files > 1)
       => writer' \notin disk \ disk']_vars

\* Without failed opens a log of an hourly or daily target, also a late one, is never
\* written to a file of a period before its own.  A daily target in another time zone
\* than UTC does so until its first rotation, which comes at the end of the day in UTC,
\* and an hourly one where hours are not whole.
NotIntoThePast ==
  [][\A stamp \in Stamps :
       apply_log(stamp) /\ writer' # NoWriter /\ retries' = 0
         /\ ((Hourly /\ WholeHours) \/ (Daily /\ options.offset = 0))
         => (stamp + options.offset) \div Period <= Begin(writer') \div Period]_vars

\* The first log after the back-off opens a file, unless opens are denied, and makes
\* the directory when it is gone.
RetryRecovers ==
  [][writer = NoWriter /\ now >= next_reopen_time /\ dir # "denied"
       /\ (\E stamp \in Stamps : apply_log(stamp)) => writer' # NoWriter]_vars

-----------------------------------------------------------------------------
(* What comments and documents say and the code does not do.               *)

\* "try reopen file when fail on open file": a failed open is retried, it does not end
\* the process.
FailedOpenRetried == status # "crashed"

\* "Scans existing disk files on restart and reconstructs a circular_queue to manage
\* lifecycle": a queue that is not full after initialize misses no file there is.
RestartFindsFiles ==
  [][Initialize /\ status' = "up" /\ Len(files') < options.max_files
       => disk \ {writer'} \subseteq Range(files')]_vars
=============================================================================
