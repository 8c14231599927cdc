------------------------------ MODULE TargetBase ------------------------------
(***************************************************************************)
(* heaton/target_base.{h,cc}: what the targets that write to files have in *)
(* common: the writer, the check of its file and the reopening after a     *)
(* failed open.  The modules of the targets extend this one.               *)
(*                                                                         *)
(* A target is used by one thread at a time and changes nothing outside    *)
(* its files, so a call is one step: an operator here takes what a method  *)
(* finds of writer, back-off and directory and gives what it leaves.       *)
(*                                                                         *)
(* Time is counted in ticks.  A file is named by the day or the hour that  *)
(* its log's stamp has in the target's time zone, or by a number.          *)
(***************************************************************************)
EXTENDS Integers

CONSTANTS Hour, Day,    \* ticks per hour and per day
          Options,      \* values of TargetOptions
          NoWriter,     \* a null _file_writer
          FirstTime, LastTime,   \* bound: the time that is modelled
          MaxLate,      \* bound: how much older than the clock a stamp is
          MaxItems,     \* bound: logs between two checks
          MaxFaults     \* bound: what happens to the directory from outside

ASSUME TimeAssumption ==
  /\ Hour \in Nat \ {0} /\ Day \in Nat \ {0} /\ Day % Hour = 0
  /\ FirstTime \in Nat \ {0} /\ LastTime \in Nat /\ FirstTime <= LastTime
  /\ MaxLate \in Nat /\ MaxLate < FirstTime
  /\ MaxItems \in Nat /\ MaxFaults \in Nat

\* Paths of files: by day, by hour, by number.
Names == {"day", "hour", "seq"} \X Int

ASSUME WriterAssumption == NoWriter \notin Names

\* offset stands for the time zone, as what it adds to UTC; intervals are in ticks.
ASSUME OptionsAssumption ==
  Options \subseteq [target_type : {"daily", "hourly", "rotating"}, max_files : Nat,
                     check_interval : Nat, check_items : Nat, reopen_interval : Nat,
                     truncate : BOOLEAN, max_file_size : Nat, offset : Nat]

VARIABLES
  now,                \* the system's clock
  dir,                \* the directory: "there", "gone", or "denied": every open fails
  disk,               \* the files of this target that exist
  faults,             \* how often something outside interfered with them
  options,            \* _options
  status,             \* "none" (no object), "up", "stopped", "crashed"
  writer,             \* the path of _file_writer, or NoWriter
  next_reopen_time,   \* _next_reopen_time
  next_check_time,    \* _next_check_time
  current_items       \* _current_items

ioVars == <<dir, disk, writer, next_reopen_time>>
checkVars == <<next_check_time, current_items>>
baseVars == <<now, faults, options, status, ioVars, checkVars>>

\* TargetBase::kZero, and the Time that no _next_reopen_time is.
kZero == 0

Stamps == FirstTime - MaxLate .. LastTime

\* to_civil_hour and to_civil_day in _timezone, printed into a name.
HourlyLogFilename(stamp) == <<"hour", (stamp + options.offset) \div Hour>>
DailyLogFilename(stamp) == <<"day", (stamp + options.offset) \div Day>>

\* When the period a file is named by begins, in the target's time zone.
Begin(file) == file[2] * (IF file[1] = "day" THEN Day ELSE Hour)

-----------------------------------------------------------------------------
(* What the methods change besides the check: writer, back-off, files.     *)

Io == [writer |-> writer, next_reopen_time |-> next_reopen_time, dir |-> dir, disk |-> disk]

\* AppendFile::initialize creates the file, but not its directory.
OpenWriter(io, file) ==
  IF io.dir = "there" THEN [io EXCEPT !.writer = file, !.disk = @ \cup {file}]
                      ELSE [io EXCEPT !.writer = NoWriter]

\* AppendFile::reopen, whose result nobody looks at.
Reopen(io) ==
  IF io.dir = "there" THEN [io EXCEPT !.disk = @ \cup {io.writer}] ELSE io

BackedOff(io) == io.next_reopen_time # kZero /\ now < io.next_reopen_time

CreateDirectoryNever(io) == io

\* create_directories, which only a retry does.  It cannot make a directory that is
\* denied; that renews the back-off, and so does the open that fails without one.
CreateDirectory(io) ==
  IF io.next_reopen_time # kZero /\ io.dir = "gone" THEN [io EXCEPT !.dir = "there"] ELSE io

AfterOpenBackOffKept(io) ==
  IF io.writer = NoWriter
    THEN [io EXCEPT !.next_reopen_time = now + options.reopen_interval]
    ELSE io

AfterOpen(io) ==
  [io EXCEPT !.next_reopen_time =
     IF io.writer = NoWriter THEN now + options.reopen_interval ELSE kZero]

\* Every caller has reset the writer before.  The name is the hourly one for every
\* kind of target.
reopen_writer(io, stamp) ==
  IF BackedOff(io) THEN io
  ELSE AfterOpen(OpenWriter(CreateDirectory(io), HourlyLogFilename(stamp)))

NextCheckTime(stamp) ==
  IF options.check_interval = 0 THEN kZero ELSE stamp + options.check_interval

CheckDueByTime(stamp) == options.check_interval # 0 /\ stamp >= next_check_time

CheckDue(stamp) ==
  /\ options.check_interval # 0 \/ options.check_items # 0
  /\ stamp >= next_check_time \/ current_items >= options.check_items

\* What check_file leaves of Io; only a writer that was there before is reopened.
check_file(stamp) ==
  IF writer = NoWriter THEN reopen_writer(Io, stamp)
  ELSE IF CheckDue(stamp) THEN Reopen(Io) ELSE Io

\* What check_file leaves of the check, when it has left io and the log is then
\* written if there is a writer in the end.
CountItem(stamp, io, written) ==
  LET checks == io.writer # NoWriter /\ CheckDue(stamp)
  IN  /\ next_check_time' = IF checks THEN NextCheckTime(stamp) ELSE next_check_time
      /\ current_items' = (IF checks THEN 0 ELSE current_items) + (IF written THEN 1 ELSE 0)

Becomes(io) ==
  /\ writer' = io.writer
  /\ next_reopen_time' = io.next_reopen_time
  /\ dir' = io.dir
  /\ disk' = io.disk

-----------------------------------------------------------------------------
(* The clock, and what happens to the files from outside.                  *)

Tick ==
  /\ now < LastTime
  /\ now' = now + 1
  /\ UNCHANGED <<faults, options, status, ioVars, checkVars>>

Fault ==
  /\ faults < MaxFaults
  /\ faults' = faults + 1
  /\ UNCHANGED <<now, options, status, writer, next_reopen_time, checkVars>>

RemoveFile == Fault /\ \E f \in disk : disk' = disk \ {f} /\ UNCHANGED dir

\* The directory goes with its files; whether it can be made again is open.
RemoveDirectory ==
  Fault /\ dir = "there" /\ dir' \in {"gone", "denied"} /\ disk' = {}

\* Permissions, a full disk, no more descriptors: the files stay.
DenyOpens == Fault /\ dir = "there" /\ dir' = "denied" /\ UNCHANGED disk

RestoreDirectory ==
  /\ dir # "there"
  /\ dir' = "there"
  /\ UNCHANGED <<now, faults, options, status, disk, writer, next_reopen_time, checkVars>>

Environment == Tick \/ RemoveFile \/ RemoveDirectory \/ DenyOpens \/ RestoreDirectory

Logging(stamp) ==
  /\ status = "up"
  /\ stamp \in now - MaxLate .. now
  /\ current_items < MaxItems
  /\ UNCHANGED <<now, faults, options>>

\* shutdown: every later log is ignored.
Shutdown ==
  /\ status = "up"
  /\ status' = "stopped"
  /\ UNCHANGED <<now, faults, options, ioVars, checkVars>>

\* The object is destroyed, or its process ends with it or without it.
Destroy ==
  /\ status # "none"
  /\ status' = "none"
  /\ writer' = NoWriter /\ next_reopen_time' = kZero
  /\ next_check_time' = kZero /\ current_items' = 0
  /\ UNCHANGED <<now, faults, options, dir, disk>>

BaseInit ==
  /\ now = FirstTime
  /\ dir = "there"
  /\ disk = {}
  /\ faults = 0
  /\ options \in Options
  /\ status = "none"
  /\ writer = NoWriter /\ next_reopen_time = kZero
  /\ next_check_time = kZero /\ current_items = 0
=============================================================================
