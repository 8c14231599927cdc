--------------------------- MODULE SyncSinkProofs ---------------------------
(* Proofs about SyncSink, for any number of callers and owners. *)
EXTENDS SyncSink, TLAPS

Threads == Callers \cup Owners

\* A thread is where its role lets it be.
Roles ==
  /\ \A t \in Callers : pc[t] \in {"out"} \cup Calling
  /\ \A t \in Owners : pc[t] \in {"out"} \cup Stopping

\* A call that came through the dispatcher has its mutex.
CallsHoldMutex == direct \/ \A t \in Callers : pc[t] # "out" => t \in mutex

\* Without the sink in the dispatcher no call comes through it.
QuietOnceRemoved == linked \/ direct \/ \A t \in Callers : pc[t] = "out"

\* Nobody is in a call of a sink that is destroyed.
GoneIsQuiet == alive \/ (~linked /\ \A t \in Threads : pc[t] = "out")

\* Nothing is shut, and nobody is in shutdown, before the flag is set.
FlagFirst ==
  _shutting_down \/ ~alive \/ (target = "open" /\ _target /\ \A t \in Owners : pc[t] = "out")

\* The flag is set on a sink that has been removed.
RemovedFirst == _shutting_down => hasty \/ ~linked

\* With one thread in shutdown, what it tested is still true when it acts.
OneInShutdown ==
  twice \/ /\ \A t, r \in Owners : pc[t] \in Stopping /\ pc[r] \in Stopping => t = r
           /\ \A t \in Owners : pc[t] \in {"shut", "reset"} => _target

ShutThenReset == \A t \in Owners : pc[t] = "reset" => target # "open"

Inv ==
  /\ TypeOK /\ Roles /\ CallsHoldMutex /\ QuietOnceRemoved /\ GoneIsQuiet /\ FlagFirst
  /\ RemovedFirst
  /\ OneInShutdown /\ ShutThenReset /\ LetGoShut
  /\ (crashed => direct \/ hasty \/ twice)

-----------------------------------------------------------------------------
LEMMA Initially == Init => Inv
  BY SyncSinkAssumption DEF Init, Inv, TypeOK, Roles, CallsHoldMutex, QuietOnceRemoved,
     GoneIsQuiet, Threads, FlagFirst, RemovedFirst, OneInShutdown, ShutThenReset, LetGoShut, Calling, Stopping

\* A caller that gets to use the target past the flag, before shutdown has the mutex.
LEMMA CallerStep ==
  ASSUME Inv, NEW t \in Callers,
         Dispatched(t) \/ Direct(t) \/ Check(t) \/ Deref(t) \/ Write(t)
  PROVE  Inv'
<1> USE SyncSinkAssumption DEF Inv, Calling, Stopping, Goes, sinkVars, dispatchVars, history
<1>1. /\ UNCHANGED <<alive, _shutting_down, _target, target, shared, linked, hasty, twice>>
      /\ \E p \in {"out"} \cup Calling : pc' = [pc EXCEPT ![t] = p]
      /\ mutex' \in {mutex, {t}, mutex \ {t}}
      /\ direct' \in {direct, TRUE}
      /\ ~crashed /\ alive
  BY DEF Dispatched, Direct, Check, Deref, Write, Leave, GoneIsQuiet, Threads
<1>2. \A r \in Owners : pc'[r] = pc[r]
  BY <1>1 DEF TypeOK
<1>3. TypeOK'
  <2>1. crashed' \in BOOLEAN
    BY DEF Dispatched, Direct, Check, Deref, Write, TypeOK
  <2> QED BY <1>1, <2>1 DEF TypeOK
<1>4. /\ Roles' /\ GoneIsQuiet' /\ FlagFirst' /\ RemovedFirst' /\ OneInShutdown'
      /\ ShutThenReset' /\ LetGoShut'
  BY <1>1, <1>2 DEF TypeOK, Roles, GoneIsQuiet, FlagFirst, RemovedFirst, OneInShutdown, ShutThenReset, LetGoShut
<1>5. CallsHoldMutex'
  <2>1. CASE Dispatched(t)
    BY <2>1 DEF Dispatched, CallsHoldMutex, TypeOK
  <2>2. CASE Direct(t)
    BY <2>2 DEF Direct, CallsHoldMutex
  <2>3. CASE Check(t)
    BY <2>3 DEF Check, Leave, CallsHoldMutex, TypeOK
  <2>4. CASE Deref(t)
    BY <2>4 DEF Deref, CallsHoldMutex, TypeOK
  <2>5. CASE Write(t)
    BY <2>5 DEF Write, Leave, CallsHoldMutex, TypeOK
  <2> QED BY <2>1, <2>2, <2>3, <2>4, <2>5
<1>6. QuietOnceRemoved'
  <2>1. CASE Dispatched(t) \/ Direct(t)
    BY <2>1 DEF Dispatched, Direct, QuietOnceRemoved
  <2>2. CASE Check(t) \/ Deref(t) \/ Write(t)
    <3>1. pc[t] # "out"
      BY <2>2 DEF Check, Deref, Write
    <3> QED BY <1>1, <2>2, <3>1 DEF QuietOnceRemoved, Check, Deref, Write, TypeOK
  <2> QED BY <2>1, <2>2
<1>7. crashed' => direct' \/ hasty' \/ twice'
  <2>1. CASE Dispatched(t) \/ Direct(t) \/ Check(t)
    BY <1>1, <2>1 DEF Dispatched, Direct, Check
  <2>2. CASE Deref(t) \/ Write(t)
    <3>1. pc[t] # "out" /\ (crashed' => ~_target \/ target = "destroyed") /\ direct' = direct
      BY <2>2 DEF Deref, Write
    <3> QED BY <1>1, <3>1 DEF QuietOnceRemoved, RemovedFirst, FlagFirst, TypeOK
  <2> QED BY <2>1, <2>2
<1> QED BY <1>3, <1>4, <1>5, <1>6, <1>7

\* The dispatcher lets the sink go only when no call of it is under way.
LEMMA UnlinkStep == ASSUME Inv, NEW t \in Owners, Unlink(t) PROVE Inv'
  BY DEF Inv, Unlink, TypeOK, Roles, CallsHoldMutex, QuietOnceRemoved, GoneIsQuiet,
     Threads, FlagFirst, RemovedFirst, OneInShutdown, ShutThenReset, LetGoShut, sinkVars, history

\* The destructor runs when nobody has the sink; what the sink lets go then, no call meets.
LEMMA DestroyStep == ASSUME Inv, Destroy PROVE Inv'
  BY SyncSinkAssumption DEF Inv, Destroy, TypeOK, Roles, CallsHoldMutex, QuietOnceRemoved,
     GoneIsQuiet, Threads, FlagFirst, RemovedFirst, OneInShutdown, ShutThenReset, LetGoShut,
     Calling, Stopping, dispatchVars, history

LEMMA ShutdownStep ==
  ASSUME Inv, NEW t \in Owners, Mark(t) \/ Test(t) \/ Shut(t) \/ Reset(t)
  PROVE  Inv'
<1> USE SyncSinkAssumption DEF Inv, Calling, Stopping, Goes, sinkVars, dispatchVars, history
<1>0. alive
  BY DEF Mark, Test, Shut, Reset, GoneIsQuiet, Threads
<1>1. /\ UNCHANGED <<alive, mutex, linked, shared, direct>>
      /\ \E p \in {"out"} \cup Stopping : pc' = [pc EXCEPT ![t] = p]
      /\ ~crashed
      /\ hasty => hasty'
      /\ twice => twice'
  <2>1. CASE Mark(t)
    BY <2>1 DEF Mark
  <2>2. CASE Test(t)
    <3>1. (IF _target THEN "shut" ELSE "out") \in {"out"} \cup Stopping
      OBVIOUS
    <3> QED BY <2>2, <3>1 DEF Test
  <2>3. CASE Shut(t)
    BY <2>3 DEF Shut
  <2>4. CASE Reset(t)
    BY <2>4 DEF Reset
  <2> QED BY <2>1, <2>2, <2>3, <2>4
<1>2. \A r \in Callers : pc'[r] = pc[r]
  BY <1>1 DEF TypeOK
<1>3. TypeOK'
  BY <1>1 DEF TypeOK, Mark, Test, Shut, Reset
<1>4. Roles' /\ CallsHoldMutex' /\ QuietOnceRemoved' /\ GoneIsQuiet'
  BY <1>0, <1>1, <1>2 DEF GoneIsQuiet, TypeOK, Roles, CallsHoldMutex, QuietOnceRemoved
<1>5. CASE Mark(t)
  <2>1. FlagFirst' /\ RemovedFirst' /\ ShutThenReset' /\ LetGoShut' /\ ~crashed'
    BY <1>5 DEF Mark, TypeOK, FlagFirst, RemovedFirst, ShutThenReset, LetGoShut
  <2>2. OneInShutdown'
    BY <1>5 DEF Mark, TypeOK, OneInShutdown
  <2> QED BY <1>3, <1>4, <2>1, <2>2
<1>6. CASE Test(t) \/ Shut(t) \/ Reset(t)
  <2>1. _shutting_down /\ _shutting_down'
    BY <1>0, <1>6 DEF Test, Shut, Reset, FlagFirst
  <2>2. FlagFirst' /\ RemovedFirst'
    BY <1>6, <2>1 DEF Test, Shut, Reset, FlagFirst, RemovedFirst, TypeOK
  <2>3. OneInShutdown'
    BY <1>6 DEF Test, Shut, Reset, OneInShutdown, TypeOK
  <2>4. ShutThenReset'
    BY <1>6 DEF Test, Shut, Reset, ShutThenReset, TypeOK
  <2>5. LetGoShut'
    BY <1>6, <2>1 DEF Test, Shut, Reset, LetGoShut, ShutThenReset, TypeOK
  <2>6. crashed' => direct' \/ hasty' \/ twice'
    BY <1>1, <1>6 DEF Test, Shut, Reset, OneInShutdown, LetGoShut, TypeOK
  <2> QED BY <1>3, <1>4, <2>2, <2>3, <2>4, <2>5, <2>6
<1> QED BY <1>5, <1>6

LEMMA Inductive == Inv /\ [Next]_vars => Inv'
<1> SUFFICES ASSUME Inv, [Next]_vars PROVE Inv'
  OBVIOUS
<1>1. CASE UNCHANGED vars
  BY <1>1 DEF Inv, vars, sinkVars, dispatchVars, history, TypeOK, Roles, CallsHoldMutex,
     QuietOnceRemoved, GoneIsQuiet, Threads, FlagFirst, RemovedFirst, OneInShutdown,
     ShutThenReset, LetGoShut
<1>2. CASE Next
  BY <1>2, CallerStep, UnlinkStep, ShutdownStep, DestroyStep DEF Next
<1> QED BY <1>1, <1>2

LEMMA Invariance == Spec => []Inv
  BY Initially, Inductive, PTL DEF Spec

-----------------------------------------------------------------------------
\* Every reachable state is well typed; the mutex has one holder.
THEOREM TypeCorrect == Spec => []TypeOK
<1>1. Inv => TypeOK
  BY DEF Inv
<1> QED BY <1>1, Invariance, PTL

\* A sink that is removed from the dispatcher and then shut down by one thread gives no
\* call of the dispatcher a null, dangling or shut target (sync_sink.cc:30, 52).
THEOREM SafeOnceRemovedHolds == Spec => []SafeOnceRemoved
<1>1. Inv => SafeOnceRemoved
  BY DEF Inv, SafeOnceRemoved, TypeOK, QuietOnceRemoved, GoneIsQuiet, Threads, RemovedFirst,
         FlagFirst
<1> QED BY <1>1, Invariance, PTL

\* A target is shut before the sink lets it go (sync_sink.cc:51-57).
THEOREM LetGoShutHolds == Spec => []LetGoShut
<1>1. Inv => LetGoShut
  BY DEF Inv
<1> QED BY <1>1, Invariance, PTL
=============================================================================
