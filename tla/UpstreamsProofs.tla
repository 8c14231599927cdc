-------------------------- MODULE UpstreamsProofs ---------------------------
(***************************************************************************)
(* Proofs about Upstreams: types, the agreement of the two maps and the    *)
(* library, and that every call takes effect at once.                      *)
(***************************************************************************)
EXTENDS Upstreams, TLAPS

MutexHeld == \A t \in Threads : t \in global_mutex <=> pc[t] \in {"library", "record"}

\* What a call has checked stays true as long as it holds the mutex.
NotRefused == \A t \in Threads : pc[t] \in {"library", "record"} => ~Refused(call[t])

Recording(t, u, s) == pc[t] = "record" /\ call[t].up = u /\ SinkOf(call[t]) = s

\* Library and maps agree about every sink but the one that a call is recording.
OthersAgree ==
  \A u \in Upstreams, s \in Sinks :
    (\A t \in Threads : ~Recording(t, u, s)) => (s \in attached[u] <=> sinks[u][s] # NoName)

RecordingAhead ==
  \A t \in Threads, u \in Upstreams, s \in Sinks :
    Recording(t, u, s) => (s \in attached[u] <=> call[t].op = "enable")

Inv == TypeOK /\ MutexHeld /\ NotRefused /\ MapsInverse /\ OthersAgree /\ RecordingAhead

-----------------------------------------------------------------------------
\* A call that is not refused means a sink and a name; to disable, the pair of the maps.
LEMMA Meaning ==
  ASSUME TypeOK, MapsInverse, NEW c \in Calls, ~Refused(c)
  PROVE  /\ c.up \in Upstreams /\ SinkOf(c) \in Sinks /\ NameOf(c) \in Names
         /\ c.op \in {"enable", "disable", "disable_name"}
         /\ c.op = "enable" => /\ sinks[c.up][SinkOf(c)] = NoName
                               /\ names[c.up][NameOf(c)] = NoSink
                               /\ SinkOf(c) = c.sink /\ NameOf(c) = c.name
         /\ c.op # "enable" => /\ sinks[c.up][SinkOf(c)] = NameOf(c)
                               /\ names[c.up][NameOf(c)] = SinkOf(c)
<1>1. CASE c.op = "enable"
  BY <1>1, UpstreamAssumption DEF TypeOK, Calls, Refused, SinkOf, NameOf
<1>2. CASE c.op = "disable"
  BY <1>2, UpstreamAssumption DEF TypeOK, MapsInverse, Calls, Refused, SinkOf, NameOf
<1>3. CASE c.op = "disable_name"
  BY <1>3, UpstreamAssumption DEF TypeOK, MapsInverse, Calls, Refused, SinkOf, NameOf
<1>4. QED BY <1>1, <1>2, <1>3 DEF Calls

LEMMA InitInv == Init => Inv
<1> SUFFICES ASSUME Init PROVE Inv OBVIOUS
<1> USE DEF Init
<1>1. TypeOK BY DEF TypeOK, Steps
<1>2. MutexHeld BY DEF MutexHeld
<1>3. NotRefused BY DEF NotRefused
<1>4. MapsInverse BY UpstreamAssumption DEF MapsInverse
<1>5. OthersAgree BY DEF OthersAgree
<1>6. RecordingAhead BY DEF RecordingAhead, Recording
<1>7. QED BY <1>1, <1>2, <1>3, <1>4, <1>5, <1>6 DEF Inv

-----------------------------------------------------------------------------
\* The thread that holds the mutex is the only one inside.
LEMMA Alone ==
  ASSUME Inv, NEW t \in Threads, pc[t] \in {"library", "record"}
  PROVE  /\ global_mutex = {t}
         /\ \A r \in Threads : r # t => pc[r] \notin {"library", "record"}
BY DEF Inv, TypeOK, MutexHeld

\* No thread is inside when the mutex is free.
LEMMA Nobody ==
  ASSUME Inv, MutexFree, NEW t \in Threads
  PROVE  pc[t] \notin {"library", "record"}
BY DEF Inv, MutexHeld, MutexFree

\* A step that leaves maps, library and calls alone, and no thread inside.
LEMMA OutsideInv ==
  ASSUME Inv, TypeOK', MutexHeld', UNCHANGED <<mapVars, attached>>,
         \A r \in Threads : pc[r] = "record" <=> pc'[r] = "record",
         \A r \in Threads : pc'[r] \in {"library", "record"} =>
           call'[r] = call[r] /\ ~Refused(call[r])
  PROVE  Inv'
<1>1. NotRefused' BY DEF NotRefused, Refused, mapVars
<1>2. MapsInverse' BY DEF Inv, MapsInverse, mapVars
<1>3. ASSUME NEW r \in Threads, NEW u \in Upstreams, NEW s \in Sinks
      PROVE  Recording(r, u, s)' <=> Recording(r, u, s)
  <2>1. CASE pc[r] # "record" BY <2>1 DEF Recording
  <2>2. CASE pc[r] = "record"
    <3>1. call'[r] = call[r] BY <2>2
    <3>2. QED BY <3>1, <2>2 DEF Recording, SinkOf, mapVars
  <2>3. QED BY <2>1, <2>2
<1>4. OthersAgree' BY <1>3 DEF Inv, OthersAgree, mapVars
<1>5. RecordingAhead'
  <2> SUFFICES ASSUME NEW r \in Threads, NEW u \in Upstreams, NEW s \in Sinks,
                      Recording(r, u, s)'
               PROVE  (s \in attached[u] <=> call[r].op = "enable")'
    BY DEF RecordingAhead
  <2>1. Recording(r, u, s) BY <1>3
  <2>2. pc'[r] = "record" BY <2>1 DEF Recording
  <2>3. QED BY <2>1, <2>2 DEF Inv, RecordingAhead
<1>6. QED BY <1>1, <1>2, <1>4, <1>5 DEF Inv

LEMMA CallInv == ASSUME Inv, NEW t \in Threads, NEW c \in Calls, Call(t, c) PROVE Inv'
<1> USE DEF Call, Goes
<1>1. TypeOK' BY DEF Inv, TypeOK, Steps, mapVars
<1>2. MutexHeld' BY DEF Inv, TypeOK, MutexHeld
<1>3. QED
  <2>1. \A r \in Threads : pc[r] = "record" <=> pc'[r] = "record" BY DEF Inv, TypeOK
  <2>2. ASSUME NEW r \in Threads, pc'[r] \in {"library", "record"}
        PROVE  call'[r] = call[r] /\ ~Refused(call[r])
    <3>1. r # t /\ pc[r] = pc'[r] BY <2>2 DEF Inv, TypeOK
    <3>2. QED BY <3>1, <2>2 DEF Inv, TypeOK, NotRefused
  <2>3. QED BY <1>1, <1>2, <2>1, <2>2, OutsideInv

LEMMA RefuseInv == ASSUME Inv, NEW t \in Threads, Refuse(t) PROVE Inv'
<1> USE DEF Refuse, Goes
<1>1. TypeOK' BY DEF Inv, TypeOK, Steps, mapVars
<1>2. MutexHeld' BY DEF Inv, TypeOK, MutexHeld
<1>3. \A r \in Threads : pc[r] = "record" <=> pc'[r] = "record" BY DEF Inv, TypeOK
<1>4. \A r \in Threads : pc'[r] \in {"library", "record"} => pc'[r] = pc[r]
  BY DEF Inv, TypeOK
<1>5. QED BY <1>1, <1>2, <1>3, <1>4, OutsideInv DEF Inv, NotRefused

LEMMA ReturnInv == ASSUME Inv, NEW t \in Threads, Return(t) PROVE Inv'
<1> USE DEF Return
<1>1. TypeOK' BY DEF Inv, TypeOK, Steps, mapVars
<1>2. MutexHeld' BY DEF Inv, TypeOK, MutexHeld
<1>3. \A r \in Threads : pc[r] = "record" <=> pc'[r] = "record" BY DEF Inv, TypeOK
<1>4. \A r \in Threads : pc'[r] \in {"library", "record"} => pc'[r] = pc[r]
  BY DEF Inv, TypeOK
<1>5. QED BY <1>1, <1>2, <1>3, <1>4, OutsideInv DEF Inv, NotRefused

LEMMA LockInv == ASSUME Inv, NEW t \in Threads, Lock(t) PROVE Inv'
<1> USE DEF Lock, Goes
<1>1. TypeOK' BY DEF Inv, TypeOK, Steps, mapVars, MutexFree
<1>2. MutexHeld' BY DEF Inv, TypeOK, MutexHeld
<1>3. \A r \in Threads : pc[r] = "record" <=> pc'[r] = "record" BY DEF Inv, TypeOK
<1>4. \A r \in Threads : pc'[r] \in {"library", "record"} => r = t
  BY Nobody DEF Inv, TypeOK
<1>5. QED BY <1>1, <1>2, <1>3, <1>4, OutsideInv

LEMMA LibraryFailsInv == ASSUME Inv, NEW t \in Threads, LibraryFails(t) PROVE Inv'
<1> USE DEF LibraryFails, Goes, Unlock
<1>1. TypeOK' BY DEF Inv, TypeOK, Steps, mapVars
<1>2. MutexHeld' BY Alone DEF Inv, TypeOK, MutexHeld
<1>3. \A r \in Threads : pc[r] = "record" <=> pc'[r] = "record" BY DEF Inv, TypeOK
<1>4. \A r \in Threads : pc'[r] \in {"library", "record"} => pc'[r] = pc[r]
  BY DEF Inv, TypeOK
<1>5. QED BY <1>1, <1>2, <1>3, <1>4, OutsideInv DEF Inv, NotRefused

LEMMA LibraryInv == ASSUME Inv, NEW t \in Threads, Library(t) PROVE Inv'
<1> DEFINE c == call[t]
           u0 == c.up
           s0 == SinkOf(c)
<1>1. c \in Calls /\ ~Refused(c) BY DEF Inv, TypeOK, NotRefused, Library, Goes
<1>2. u0 \in Upstreams /\ s0 \in Sinks BY <1>1, Meaning DEF Inv
<1>3. \A r \in Threads : r # t => pc[r] \notin {"library", "record"}
  BY Alone DEF Library, Goes
<1> USE DEF Library, Goes
<1>4. /\ pc' = [pc EXCEPT ![t] = "record"] /\ pc \in [Threads -> Steps]
      /\ pc[t] = "library" /\ UNCHANGED <<call, sinks, names, global_mutex>>
  BY DEF Inv, TypeOK, mapVars
<1>5. attached' = [attached EXCEPT ![u0] =
                     IF c.op = "enable" THEN @ \cup {s0} ELSE @ \ {s0}]
  OBVIOUS
<1> HIDE DEF c, u0, s0
<1>6. attached \in [Upstreams -> SUBSET Sinks] BY DEF Inv, TypeOK
<1>7. attached' \in [Upstreams -> SUBSET Sinks] BY <1>2, <1>5, <1>6
<1>8. TypeOK' BY <1>4, <1>7 DEF Inv, TypeOK, Steps
<1>9. MutexHeld' BY <1>4 DEF Inv, MutexHeld, Steps
<1>10. NotRefused' BY <1>4 DEF Inv, NotRefused, Refused
<1>11. MapsInverse' BY <1>4 DEF Inv, MapsInverse
<1>12. ASSUME NEW r \in Threads, NEW u \in Upstreams, NEW s \in Sinks
       PROVE  Recording(r, u, s)' <=> r = t /\ u = u0 /\ s = s0
  <2>1. SinkOf(call[r])' = SinkOf(call[r]) BY <1>4 DEF SinkOf
  <2>2. QED BY <2>1, <1>3, <1>4 DEF Recording, c, u0, s0
<1>13. OthersAgree'
  <2> SUFFICES ASSUME NEW u \in Upstreams, NEW s \in Sinks, ~(u = u0 /\ s = s0)
               PROVE  (s \in attached[u] <=> sinks[u][s] # NoName)'
    BY <1>12 DEF OthersAgree
  <2>1. \A r \in Threads : ~Recording(r, u, s) BY <1>3, <1>4 DEF Recording
  <2>2. s \in attached[u] <=> sinks[u][s] # NoName BY <2>1 DEF Inv, OthersAgree
  <2>3. s \in attached'[u] <=> s \in attached[u] BY <1>2, <1>5, <1>6
  <2>4. QED BY <2>2, <2>3, <1>4
<1>14. RecordingAhead'
  <2>1. s0 \in attached'[u0] <=> c.op = "enable" BY <1>2, <1>5, <1>6
  <2>2. QED BY <2>1, <1>12, <1>4 DEF RecordingAhead, c
<1>15. QED BY <1>8, <1>9, <1>10, <1>11, <1>13, <1>14 DEF Inv

LEMMA RecordInv == ASSUME Inv, NEW t \in Threads, Record(t) PROVE Inv'
<1> DEFINE c == call[t]
           u0 == c.up
           s0 == SinkOf(c)
           n0 == NameOf(c)
           on == c.op = "enable"
<1>1. c \in Calls /\ ~Refused(c) BY DEF Inv, TypeOK, NotRefused, Record, Goes
<1>2. /\ u0 \in Upstreams /\ s0 \in Sinks /\ n0 \in Names
      /\ on => sinks[u0][s0] = NoName /\ names[u0][n0] = NoSink /\ s0 = c.sink /\ n0 = c.name
      /\ ~on => sinks[u0][s0] = n0 /\ names[u0][n0] = s0
  BY <1>1, Meaning DEF Inv
<1>3. \A r \in Threads : r # t => pc[r] \notin {"library", "record"}
  BY Alone DEF Record, Goes
<1>4. /\ pc' = [pc EXCEPT ![t] = "ok"] /\ pc \in [Threads -> Steps] /\ pc[t] = "record"
      /\ UNCHANGED <<call, attached>> /\ global_mutex' = {}
  BY Alone DEF Inv, TypeOK, Record, Goes, Unlock
<1>5. /\ sinks' = [sinks EXCEPT ![u0][s0] = IF on THEN n0 ELSE NoName]
      /\ names' = [names EXCEPT ![u0][n0] = IF on THEN s0 ELSE NoSink]
  BY <1>2 DEF Record
<1> HIDE DEF c, u0, s0, n0, on
<1>6. /\ sinks \in [Upstreams -> [Sinks -> Names \cup {NoName}]]
      /\ names \in [Upstreams -> [Names -> Sinks \cup {NoSink}]]
  BY DEF Inv, TypeOK
<1>7. TypeOK'
  <2>1. sinks' \in [Upstreams -> [Sinks -> Names \cup {NoName}]] BY <1>2, <1>5, <1>6
  <2>2. names' \in [Upstreams -> [Names -> Sinks \cup {NoSink}]] BY <1>2, <1>5, <1>6
  <2>3. QED BY <2>1, <2>2, <1>4 DEF Inv, TypeOK, Steps
<1>8. MutexHeld' BY <1>3, <1>4 DEF MutexHeld
<1>9. NotRefused' BY <1>3, <1>4 DEF NotRefused
<1>10. MapsInverse'
  <2> SUFFICES ASSUME NEW u \in Upstreams, NEW s \in Sinks, NEW n \in Names
               PROVE  sinks'[u][s] = n <=> names'[u][n] = s
    BY DEF MapsInverse
  <2>1. sinks[u][s] = n <=> names[u][n] = s BY DEF Inv, MapsInverse
  <2>2. /\ sinks'[u][s] = IF u = u0 /\ s = s0 THEN IF on THEN n0 ELSE NoName ELSE sinks[u][s]
        /\ names'[u][n] = IF u = u0 /\ n = n0 THEN IF on THEN s0 ELSE NoSink ELSE names[u][n]
    BY <1>5, <1>6
  <2>3. QED BY <2>1, <2>2, <1>2, UpstreamAssumption
<1>11. \A r \in Threads, u \in Upstreams, s \in Sinks : ~Recording(r, u, s)'
  BY <1>3, <1>4 DEF Recording
<1>12. OthersAgree'
  <2> SUFFICES ASSUME NEW u \in Upstreams, NEW s \in Sinks
               PROVE  s \in attached[u] <=> sinks'[u][s] # NoName
    BY <1>4 DEF OthersAgree
  <2>1. CASE u = u0 /\ s = s0
    <3>1. Recording(t, u, s) BY <2>1, <1>4 DEF Recording, c, u0, s0
    <3>2. s \in attached[u] <=> on BY <3>1 DEF Inv, RecordingAhead, on, c
    <3>3. sinks'[u][s] = IF on THEN n0 ELSE NoName BY <2>1, <1>2, <1>5, <1>6
    <3>4. QED BY <3>2, <3>3, <1>2, UpstreamAssumption
  <2>2. CASE ~(u = u0 /\ s = s0)
    <3>1. \A r \in Threads : ~Recording(r, u, s)
      BY <2>2, <1>3, <1>4 DEF Recording, c, u0, s0
    <3>2. sinks'[u][s] = sinks[u][s] BY <2>2, <1>5, <1>6
    <3>3. QED BY <3>1, <3>2 DEF Inv, OthersAgree
  <2>3. QED BY <2>1, <2>2
<1>13. RecordingAhead' BY <1>11 DEF RecordingAhead
<1>14. QED BY <1>7, <1>8, <1>9, <1>10, <1>12, <1>13 DEF Inv

LEMMA StepInv == Inv /\ [Next]_vars => Inv'
<1> SUFFICES ASSUME Inv, [Next]_vars PROVE Inv' OBVIOUS
<1>1. CASE UNCHANGED vars
  BY <1>1 DEF Inv, TypeOK, MutexHeld, NotRefused, Refused, MapsInverse, OthersAgree,
              RecordingAhead, Recording, SinkOf, vars, callVars, mapVars
<1>2. CASE Next
  BY <1>2, CallInv, RefuseInv, LockInv, LibraryInv, LibraryFailsInv, RecordInv, ReturnInv
  DEF Next
<1>3. QED BY <1>1, <1>2

LEMMA Invariant == Spec => []Inv
<1>1. QED BY InitInv, StepInv, PTL DEF Spec

-----------------------------------------------------------------------------
\* Every variable has its type, and at most one thread holds the mutex of all upstreams.
THEOREM TypeCorrect == Spec => []TypeOK
<1>1. Inv => TypeOK BY DEF Inv
<1>2. QED BY <1>1, Invariant, PTL

\* The two maps of an upstream are inverse to each other at every moment.
THEOREM MapsInverseHolds == Spec => []MapsInverse
<1>1. Inv => MapsInverse BY DEF Inv
<1>2. QED BY <1>1, Invariant, PTL

\* When no call holds the mutex, the library has the sinks of the map and no others.
THEOREM LibraryAgreesHolds == Spec => []LibraryAgrees
<1>1. Inv => LibraryAgrees
  <2> SUFFICES ASSUME Inv, MutexFree, NEW u \in Upstreams
               PROVE  attached[u] = {s \in Sinks : sinks[u][s] # NoName}
    BY DEF LibraryAgrees
  <2>1. \A r \in Threads, s \in Sinks : ~Recording(r, u, s) BY Nobody DEF Recording
  <2>2. \A s \in Sinks : s \in attached[u] <=> sinks[u][s] # NoName
    BY <2>1 DEF Inv, OthersAgree
  <2>3. attached[u] \subseteq Sinks BY DEF Inv, TypeOK
  <2>4. QED BY <2>2, <2>3
<1>2. QED BY <1>1, Invariant, PTL

-----------------------------------------------------------------------------
(* Upstreams implements Registry: a call takes effect with the step of the *)
(* library, and what Record does later is what the registry has already.   *)

\* The maps, once Record has written what t did in the library.
Recorded(t) ==
  [sinks EXCEPT ![call[t].up][SinkOf(call[t])] =
    IF call[t].op = "enable" THEN call[t].name ELSE NoName]

TableOutside == Inv /\ (\A t \in Threads : pc[t] # "record") => AttachedAs = sinks

TableRecording == \A t \in Threads : Inv /\ pc[t] = "record" => AttachedAs = Recorded(t)

LEMMA AttachedOutside == TableOutside
<1> SUFFICES ASSUME Inv, \A r \in Threads : pc[r] # "record" PROVE AttachedAs = sinks
  BY DEF TableOutside
<1>1. \A u \in Upstreams, s \in Sinks : s \in attached[u] <=> sinks[u][s] # NoName
  BY DEF Inv, OthersAgree, Recording
<1>2. \A u \in Upstreams, s \in Sinks : AttachedAs[u][s] = sinks[u][s]
  BY <1>1 DEF AttachedAs
<1>3. /\ sinks = [u \in Upstreams |-> [s \in Sinks |-> sinks[u][s]]]
      /\ AttachedAs = [u \in Upstreams |-> [s \in Sinks |-> AttachedAs[u][s]]]
  BY DEF Inv, TypeOK, AttachedAs
<1>4. QED BY <1>2, <1>3

LEMMA AttachedRecording == TableRecording
<1> SUFFICES ASSUME Inv, NEW t \in Threads, pc[t] = "record"
             PROVE  AttachedAs = Recorded(t)
  BY DEF TableRecording
<1> DEFINE c == call[t]
           u0 == c.up
           s0 == SinkOf(c)
<1>1. c \in Calls /\ ~Refused(c) BY DEF Inv, TypeOK, NotRefused
<1>2. /\ u0 \in Upstreams /\ s0 \in Sinks
      /\ c.op = "enable" => sinks[u0][s0] = NoName
  BY <1>1, Meaning DEF Inv
<1>3. Holder = t BY Alone DEF Holder
<1>4. s0 \in attached[u0] <=> c.op = "enable"
  BY <1>2 DEF Inv, RecordingAhead, Recording
<1>5. ASSUME NEW u \in Upstreams, NEW s \in Sinks, ~(u = u0 /\ s = s0)
      PROVE  s \in attached[u] <=> sinks[u][s] # NoName
  BY <1>5, Alone DEF Inv, OthersAgree, Recording
<1>6. sinks \in [Upstreams -> [Sinks -> Names \cup {NoName}]] BY DEF Inv, TypeOK
<1>7. ASSUME NEW u \in Upstreams, NEW s \in Sinks
      PROVE  AttachedAs[u][s] = Recorded(t)[u][s]
  <2>1. AttachedAs[u][s] = IF s \notin attached[u] THEN NoName
                           ELSE IF sinks[u][s] # NoName THEN sinks[u][s] ELSE c.name
    BY <1>3 DEF AttachedAs
  <2>2. CASE u = u0 /\ s = s0
    <3>1. Recorded(t)[u][s] = IF c.op = "enable" THEN c.name ELSE NoName
      BY <2>2, <1>2, <1>6 DEF Recorded
    <3>2. QED BY <3>1, <2>1, <2>2, <1>2, <1>4
  <2>3. CASE ~(u = u0 /\ s = s0)
    <3>1. Recorded(t)[u][s] = sinks[u][s] BY <2>3, <1>6 DEF Recorded
    <3>2. QED BY <3>1, <2>1, <2>3, <1>5
  <2>4. QED BY <2>2, <2>3
<1>8. Recorded(t) = [u \in Upstreams |-> [s \in Sinks |-> Recorded(t)[u][s]]]
  BY <1>6 DEF Recorded
<1>9. AttachedAs = [u \in Upstreams |-> [s \in Sinks |-> AttachedAs[u][s]]]
  BY DEF AttachedAs
<1>10. QED BY <1>7, <1>8, <1>9

\* A step that leaves maps and library alone, and the calls that record, leaves the
\* table of the registry alone.
LEMMA TableKept ==
  ASSUME Inv, Inv', UNCHANGED <<mapVars, attached>>,
         \A r \in Threads : pc[r] = "record" <=> pc'[r] = "record",
         \A r \in Threads : pc[r] = "record" => call'[r] = call[r]
  PROVE  AttachedAs' = AttachedAs
<1>1. TableOutside'
  BY AttachedOutside, PTL
<1>2. TableRecording'
  BY AttachedRecording, PTL
<1>3. CASE \A r \in Threads : pc[r] # "record"
  BY <1>1, <1>3, AttachedOutside DEF TableOutside, mapVars
<1>4. ASSUME NEW r \in Threads, pc[r] = "record" PROVE AttachedAs' = AttachedAs
  <2>1. AttachedAs = Recorded(r) BY <1>4, AttachedRecording DEF TableRecording
  <2>2. AttachedAs' = Recorded(r)' BY <1>2, <1>4 DEF TableRecording
  <2>3. Recorded(r)' = Recorded(r) BY <1>4 DEF Recorded, SinkOf, mapVars
  <2>4. QED BY <2>1, <2>2, <2>3
<1>5. QED BY <1>3, <1>4

\* The registry refuses what Upstreams refuses.
LEMMA RefusedAlike ==
  ASSUME Inv, AttachedAs = sinks, NEW c \in Calls, Refused(c)
  PROVE  Table!Refused(c)
<1>1. CASE c.op = "enable"
  BY <1>1, UpstreamAssumption
  DEF Inv, TypeOK, MapsInverse, Calls, Refused, Table!Refused, Table!Taken
<1>2. CASE c.op = "disable"
  BY <1>2, UpstreamAssumption
  DEF Inv, TypeOK, Calls, Refused, Table!Refused, Table!Meant
<1>3. CASE c.op = "disable_name"
  BY <1>3, UpstreamAssumption
  DEF Inv, TypeOK, MapsInverse, Calls, Refused, Table!Refused, Table!Meant
<1>4. QED BY <1>1, <1>2, <1>3 DEF Calls

\* How a step of pc changes the answer.
LEMMA AnswerChanges ==
  ASSUME Inv, NEW t \in Threads, NEW p \in Steps, pc' = [pc EXCEPT ![t] = p]
  PROVE  AnswerOf' = [AnswerOf EXCEPT ![t] =
           IF p \in {"lock", "library"} THEN "none" ELSE IF p = "record" THEN "ok" ELSE p]
BY DEF Inv, TypeOK, AnswerOf

LEMMA CallImplements ==
  ASSUME Inv, Inv', NEW t \in Threads, NEW c \in Calls, Call(t, c)
  PROVE  Table!Invoke(t, c)
<1> USE DEF Call, Goes
<1>1. AttachedAs' = AttachedAs
  <2>1. \A r \in Threads : pc[r] = "record" <=> pc'[r] = "record" BY DEF Inv, TypeOK
  <2>2. \A r \in Threads : pc[r] = "record" => call'[r] = call[r] BY DEF Inv, TypeOK
  <2>3. QED BY <2>1, <2>2, TableKept
<1>2. AnswerOf' = [AnswerOf EXCEPT ![t] = "none"] BY AnswerChanges DEF Steps
<1>3. AnswerOf[t] = "returned" BY DEF AnswerOf
<1>4. QED BY <1>1, <1>2, <1>3 DEF Table!Invoke

LEMMA RefuseImplements ==
  ASSUME Inv, Inv', NEW t \in Threads, Refuse(t)
  PROVE  Table!Refuse(t)
<1> USE DEF Refuse, Goes
<1>1. \A r \in Threads : pc[r] # "record" BY Nobody
<1>2. AttachedAs = sinks BY <1>1, AttachedOutside DEF TableOutside
<1>3. Table!Refused(call[t]) BY <1>2, RefusedAlike DEF Inv, TypeOK
<1>4. AttachedAs' = AttachedAs
  <2>1. \A r \in Threads : pc[r] = "record" <=> pc'[r] = "record" BY DEF Inv, TypeOK
  <2>2. QED BY <2>1, TableKept
<1>5. AnswerOf' = [AnswerOf EXCEPT ![t] = "refused"] BY AnswerChanges DEF Steps
<1>6. AnswerOf[t] = "none" BY DEF AnswerOf
<1>7. QED BY <1>3, <1>4, <1>5, <1>6 DEF Table!Refuse, Table!Answer

LEMMA LockImplements ==
  ASSUME Inv, Inv', NEW t \in Threads, Lock(t)
  PROVE  UNCHANGED <<AttachedAs, call, AnswerOf>>
<1> USE DEF Lock, Goes
<1>1. AttachedAs' = AttachedAs
  <2>1. \A r \in Threads : pc[r] = "record" <=> pc'[r] = "record" BY DEF Inv, TypeOK
  <2>2. QED BY <2>1, TableKept
<1>2. AnswerOf' = [AnswerOf EXCEPT ![t] = "none"] BY AnswerChanges DEF Steps
<1>3. AnswerOf[t] = "none" BY DEF AnswerOf
<1>4. AnswerOf' = AnswerOf BY <1>2, <1>3 DEF AnswerOf
<1>5. QED BY <1>1, <1>4

LEMMA LibraryImplements ==
  ASSUME Inv, Inv', NEW t \in Threads, Library(t)
  PROVE  Table!Enable(t) \/ Table!Disable(t)
<1> DEFINE c == call[t]
           u0 == c.up
           s0 == SinkOf(c)
<1> USE DEF Library, Goes
<1>1. c \in Calls /\ ~Refused(c) BY DEF Inv, TypeOK, NotRefused
<1>2. /\ u0 \in Upstreams /\ s0 \in Sinks /\ NameOf(c) \in Names
      /\ c.op = "enable" => /\ sinks[u0][s0] = NoName /\ names[u0][NameOf(c)] = NoSink
                            /\ s0 = c.sink /\ NameOf(c) = c.name
      /\ c.op # "enable" => sinks[u0][s0] = NameOf(c)
  BY <1>1, Meaning DEF Inv
<1>3. AttachedAs = sinks
  <2>1. \A r \in Threads : pc[r] # "record" BY Alone
  <2>2. QED BY <2>1, AttachedOutside DEF TableOutside
<1>4. AttachedAs' = [sinks EXCEPT ![u0][s0] = IF c.op = "enable" THEN c.name ELSE NoName]
  <2>1. TableRecording'
    BY AttachedRecording, PTL
  <2>2. pc'[t] = "record" BY DEF Inv, TypeOK
  <2>3. AttachedAs' = Recorded(t)' BY <2>1, <2>2 DEF TableRecording
  <2>4. QED BY <2>3 DEF Recorded, SinkOf, mapVars
<1>5. AnswerOf' = [AnswerOf EXCEPT ![t] = "ok"] BY AnswerChanges DEF Steps
<1>6. AnswerOf[t] = "none" BY DEF AnswerOf
<1>7. Table!Answer(t, "ok") BY <1>5, <1>6 DEF Table!Answer
<1>8. CASE c.op = "enable"
  <2>1. \A s \in Sinks : sinks[u0][s] # c.name
    BY <1>2, <1>8, UpstreamAssumption DEF Inv, MapsInverse
  <2>2. ~Table!Taken(u0, c.sink, c.name) BY <2>1, <1>2, <1>3, <1>8 DEF Table!Taken
  <2>3. QED BY <2>2, <1>2, <1>3, <1>4, <1>7, <1>8 DEF Table!Enable, Table!Attach
<1>9. CASE c.op # "enable"
  <2>1. s0 \in Table!Meant(c)
    BY <1>1, <1>2, <1>3, <1>9, UpstreamAssumption DEF Table!Meant, SinkOf, NameOf, Calls
  <2>2. QED BY <2>1, <1>3, <1>4, <1>7, <1>9 DEF Table!Disable, Table!Detach
<1>10. QED BY <1>8, <1>9

LEMMA LibraryFailsImplements ==
  ASSUME Inv, Inv', NEW t \in Threads, LibraryFails(t)
  PROVE  Table!Fail(t)
<1> USE DEF LibraryFails, Goes
<1>1. AttachedAs' = AttachedAs
  <2>1. \A r \in Threads : pc[r] = "record" <=> pc'[r] = "record" BY DEF Inv, TypeOK
  <2>2. QED BY <2>1, TableKept
<1>2. AnswerOf' = [AnswerOf EXCEPT ![t] = "failed"] BY AnswerChanges DEF Steps
<1>3. AnswerOf[t] = "none" BY DEF AnswerOf
<1>4. QED BY <1>1, <1>2, <1>3 DEF Table!Fail, Table!Answer

\* After Record the maps are what the registry has had since the step of the library.
LEMMA RecordImplements ==
  ASSUME Inv, Inv', NEW t \in Threads, Record(t)
  PROVE  UNCHANGED <<AttachedAs, call, AnswerOf>>
<1> USE DEF Record, Goes
<1>1. AttachedAs = Recorded(t) BY AttachedRecording DEF TableRecording
<1>2. AttachedAs' = sinks'
  <2>1. TableOutside'
    BY AttachedOutside, PTL
  <2>2. \A r \in Threads : pc'[r] # "record" BY Alone DEF Inv, TypeOK
  <2>3. QED BY <2>1, <2>2 DEF TableOutside
<1>3. sinks' = Recorded(t) BY DEF Recorded
<1>4. AnswerOf' = [AnswerOf EXCEPT ![t] = "ok"] BY AnswerChanges DEF Steps
<1>5. AnswerOf[t] = "ok" BY DEF AnswerOf
<1>6. AnswerOf' = AnswerOf BY <1>4, <1>5 DEF AnswerOf
<1>7. QED BY <1>1, <1>2, <1>3, <1>6

LEMMA ReturnImplements ==
  ASSUME Inv, Inv', NEW t \in Threads, Return(t)
  PROVE  Table!Return(t)
<1> USE DEF Return
<1>1. AttachedAs' = AttachedAs
  <2>1. \A r \in Threads : pc[r] = "record" <=> pc'[r] = "record" BY DEF Inv, TypeOK
  <2>2. QED BY <2>1, TableKept
<1>2. AnswerOf' = [AnswerOf EXCEPT ![t] = "returned"] BY AnswerChanges DEF Steps
<1>3. AnswerOf[t] \in {"ok", "refused", "failed"} BY DEF AnswerOf
<1>4. QED BY <1>1, <1>2, <1>3 DEF Table!Return

LEMMA InitImplements == Init => Table!Init
<1> SUFFICES ASSUME Init PROVE Table!Init OBVIOUS
<1>1. Inv /\ \A r \in Threads : pc[r] # "record" BY InitInv DEF Init
<1>2. AttachedAs = sinks BY <1>1, AttachedOutside DEF TableOutside
<1>3. AnswerOf = [t \in Threads |-> "returned"] BY DEF Init, AnswerOf
<1>4. Table!Calls = Calls BY DEF Table!Calls, Calls
<1>5. QED BY <1>2, <1>3, <1>4 DEF Init, Table!Init

LEMMA StepImplements == Inv /\ Inv' /\ [Next]_vars => [Table!Next]_(Table!vars)
<1> SUFFICES ASSUME Inv, Inv', [Next]_vars PROVE [Table!Next]_(Table!vars) OBVIOUS
<1>1. CASE UNCHANGED vars
  <2>1. UNCHANGED <<pc, call, mapVars, attached>> BY <1>1 DEF vars, callVars
  <2>2. AttachedAs' = AttachedAs BY <2>1, TableKept
  <2>3. AnswerOf' = AnswerOf BY <2>1 DEF AnswerOf
  <2>4. QED BY <2>1, <2>2, <2>3 DEF Table!vars
<1>2. ASSUME NEW t \in Threads, NEW c \in Calls, Call(t, c) PROVE Table!Next
  BY <1>2, CallImplements DEF Table!Next, Table!Calls, Calls
<1>3. ASSUME NEW t \in Threads, Refuse(t) PROVE Table!Next
  BY <1>3, RefuseImplements DEF Table!Next
<1>4. ASSUME NEW t \in Threads, Library(t) PROVE Table!Next
  BY <1>4, LibraryImplements DEF Table!Next
<1>5. ASSUME NEW t \in Threads, LibraryFails(t) PROVE Table!Next
  BY <1>5, LibraryFailsImplements DEF Table!Next
<1>6. ASSUME NEW t \in Threads, Return(t) PROVE Table!Next
  BY <1>6, ReturnImplements DEF Table!Next
<1>7. ASSUME NEW t \in Threads, Lock(t) \/ Record(t) PROVE UNCHANGED Table!vars
  BY <1>7, LockImplements, RecordImplements DEF Table!vars
<1>8. QED BY <1>1, <1>2, <1>3, <1>4, <1>5, <1>6, <1>7 DEF Next

\* Calls of all threads, however they interleave, are answered as if each took effect
\* at one moment between its call and its return.
THEOREM Refinement == Spec => ImplementsRegistry
<1>1. QED
  BY Invariant, InitImplements, StepImplements, PTL
  DEF Spec, ImplementsRegistry, Table!Spec
=============================================================================
