----------------------------- MODULE MCFileTarget -----------------------------
(* Options of FileTarget for TLC.                                          *)
EXTENDS FileTarget

Target(type, max, interval, items, reopen, trunc, off, size) ==
  [target_type |-> type, max_files |-> max, check_interval |-> interval,
   check_items |-> items, reopen_interval |-> reopen, truncate |-> trunc,
   max_file_size |-> size, offset |-> off]

\* All kinds with one and two files, a back-off within and beyond an hour, checks by
\* time, by number and every time, the zone of UTC, one an hour before it, and one half
\* an hour before it.
ManyOptions ==
  {Target("daily", 2, 2, 2, 1, FALSE, 0, 0), Target("daily", 1, 0, 2, 3, FALSE, Hour, 0),
   Target("hourly", 2, 3, 2, 1, FALSE, 0, 0), Target("hourly", 1, 3, 0, 1, TRUE, Hour, 0),
   Target("hourly", 0, 0, 0, 2, FALSE, 0, 0),
   Target("hourly", 1, 0, 0, 1, FALSE, Hour \div 2, 0),
   Target("hourly", 2, 0, 0, 1, FALSE, Hour \div 2, 0),
   Target("rotating", 1, 3, 2, 1, FALSE, 0, 1)}

RotatingOptions == {Target("rotating", 1, 3, 2, 1, FALSE, 0, 1)}

HourlyOptions == {Target("hourly", 2, 3, 2, 1, FALSE, 0, 0)}
=============================================================================
