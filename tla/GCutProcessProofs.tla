--------------------------- MODULE GCutProcessProofs ---------------------------
(***************************************************************************)
(* Theorems about GCutProcess: for any streams and any capacity of the     *)
(* pipes, an external command that is waited for loses no output, gets the *)
(* answer that is its own and leaves no source behind.                     *)
(*                                                                         *)
(* The three invariants are parts of one inductive invariant, Inv.  It     *)
(* says, in addition, that the object has a pid and a child watch exactly  *)
(* while its child has not been reaped (PidIsTheChilds), and that a stream *)
(* is only left before the end of its output after a read error            *)
(* (StreamsAreRead).                                                       *)
(***************************************************************************)
EXTENDS GCutProcess, TLAPS

\* The object's view of its child.
PidIsTheChilds ==
  /\ childWatch <=> child.state \in {"running", "zombie"}
  /\ pid = IF child.state \in {"running", "zombie"} THEN 1 ELSE 0
  /\ user \in {"waiting", "disposing"} => child.state \in {"running", "zombie", "reaped"}
  /\ user = "gone" => ~childWatch

\* The answer and the status it is taken from.
StatusIsTheChilds ==
  /\ child.state = "reaped" => status = child.status
  /\ answer = "status" => child.state = "reaped"

\* A stream whose source has been removed has nothing left to read, and is not
\* written any more.
StreamsAreRead ==
  /\ child.state = "running" => \A s \in Streams \ broken : watch[s] = "attached"
  /\ child.state = "zombie" =>
       \A s \in Streams \ broken : watch[s] = "attached" \/ pipe[s] = 0
  /\ OutputIsReceived

\* The timer belongs to a call.
TimerIsTheCalls ==
  /\ user = "idle" => timer = "none"
  /\ NothingIsAttached

Inv == TypeOK /\ PidIsTheChilds /\ StatusIsTheChilds /\ StreamsAreRead /\ TimerIsTheCalls

USE DEF ProcessChildPriority, EggChildPriority, ProcessTimerPriority,
        EggTimerPriority, DefaultPriority, LowPriority

-----------------------------------------------------------------------------
\* The steps of a process and those of an egg are the same.
LEMMA NextIsAStep ==
  ASSUME Next
  PROVE  \/ \E s \in Streams : ChildWrites(s)
         \/ ChildFallsSilent \/ ChildEnds \/ Iterate \/ TimerExpires
         \/ RunFails \/ Start \/ Signal \/ WaitForNobody \/ BeginWait \/ WaitReturns
         \/ BeginDispose \/ DisposeAtOnce \/ DisposeEnds
  BY DEF Next, IterateInCall, UserIterates, Run, Hatch, Kill, KillEgg, Wait, WaitForEgg,
         Dispose, DisposeEgg

\* What an iteration of the main loop dispatches: sources that are ready; and
\* never the end of a child while output is ready that it leaves out.
LEMMA DispatchedSources ==
  ASSUME TypeOK
  PROVE  /\ \A s \in Streams : s \in Dispatched => Readable(s)
         /\ "child" \in Dispatched =>
              /\ childWatch /\ child.state = "zombie"
              /\ \A s \in Streams : Readable(s) => class = "egg" /\ s \in Dispatched
         /\ "timer" \in Dispatched => timer = "due"
<1>1. "child" \notin Streams /\ "timer" \notin Streams
  BY StreamsAssumption
<1>2. \A s \in Streams : Priority(s) = 0
  BY <1>1 DEF Priority
<1>3. /\ Priority("child") = IF class = "process" THEN 1 ELSE 0
      /\ Priority("timer") = IF class = "process" THEN 1 ELSE 0
  BY DEF Priority
<1>4. \A s \in Streams : s \in Ready <=> Readable(s)
  BY <1>1 DEF Ready
<1>5. "child" \in Ready => childWatch /\ child.state = "zombie"
  BY <1>1 DEF Ready
<1>6. "timer" \in Ready => timer = "due"
  BY <1>1 DEF Ready
<1>7. \A r \in Ready : r \in Streams \/ r = "child" \/ r = "timer"
  BY DEF Ready
<1>8. ASSUME "child" \in Dispatched, NEW s \in Streams, Readable(s)
      PROVE  class = "egg" /\ s \in Dispatched
  <2>1. s \in Ready /\ Priority("child") <= Priority(s)
    BY <1>4, <1>8 DEF Dispatched
  <2>2. class = "egg"
    BY <2>1, <1>2, <1>3 DEF TypeOK, SettingsOK
  <2>3. \A q \in Ready : Priority(q) = 0
    BY <2>2, <1>2, <1>3, <1>7
  <2> QED
    BY <2>1, <2>2, <2>3, <1>2 DEF Dispatched
<1> QED
  BY <1>4, <1>5, <1>6, <1>8 DEF Dispatched

-----------------------------------------------------------------------------
\* Each part of the type invariant is preserved.

LEMMA SettingsType == ASSUME TypeOK, Next PROVE SettingsOK'
<1> USE DEF Next, ChildWrites, ChildFallsSilent, ChildEnds, IterateInCall, UserIterates,
            Iterate, WatchOutput, ReapChild, ReapedStatus, TimerExpires, RunFails, Run,
            Hatch, Start, Kill, KillEgg, Signal, WaitForNobody, Wait, WaitForEgg, BeginWait,
            WaitReturns, Dispose, DisposeEgg, BeginDispose, DisposeAtOnce, DisposeEnds, Free,
            ChildWatchRemoved, DisposeIOChannel, TimerRemoved, settings, sources
<1>1. UNCHANGED settings
  OBVIOUS
<1> QED
  BY <1>1 DEF TypeOK, SettingsOK

LEMMA SourcesType == ASSUME TypeOK, Next PROVE SourcesOK'
<1> USE DEF Next, ChildWrites, ChildFallsSilent, ChildEnds, IterateInCall, UserIterates,
            Iterate, WatchOutput, ReapChild, ReapedStatus, TimerExpires, RunFails, Run,
            Hatch, Start, Kill, KillEgg, Signal, WaitForNobody, Wait, WaitForEgg, BeginWait,
            WaitReturns, Dispose, DisposeEgg, BeginDispose, DisposeAtOnce, DisposeEnds, Free,
            ChildWatchRemoved, DisposeIOChannel, TimerRemoved, settings, sources
<1> QED
  BY DEF TypeOK, SourcesOK

LEMMA ObjectType == ASSUME TypeOK, Next PROVE ObjectOK'
<1> USE DEF Next, ChildWrites, ChildFallsSilent, ChildEnds, IterateInCall, UserIterates,
            Iterate, WatchOutput, ReapChild, ReapedStatus, TimerExpires, RunFails, Run,
            Hatch, Start, Kill, KillEgg, Signal, WaitForNobody, Wait, WaitForEgg, BeginWait,
            WaitReturns, Dispose, DisposeEgg, BeginDispose, DisposeAtOnce, DisposeEnds, Free,
            ChildWatchRemoved, DisposeIOChannel, TimerRemoved, settings, sources
<1> QED
  BY ZenonT(60) DEF TypeOK, ObjectOK, ChildOK, ChildStates

LEMMA ChildType == ASSUME TypeOK, Next PROVE ChildOK'
<1> USE DEF Next, ChildWrites, ChildFallsSilent, ChildEnds, IterateInCall, UserIterates,
            Iterate, WatchOutput, ReapChild, ReapedStatus, TimerExpires, RunFails, Run,
            Hatch, Start, Kill, KillEgg, Signal, WaitForNobody, Wait, WaitForEgg, BeginWait,
            WaitReturns, Dispose, DisposeEgg, BeginDispose, DisposeAtOnce, DisposeEnds, Free,
            ChildWatchRemoved, DisposeIOChannel, TimerRemoved, settings, sources
<1> QED
  BY ZenonT(60) DEF TypeOK, ChildOK, ChildStates, NoChild, Signalled, Abandoned

LEMMA PipesType == ASSUME TypeOK, Next PROVE PipesOK'
<1> USE CapacityAssumption DEF TypeOK, PipesOK, settings, sources
<1>1. CASE \E s \in Streams : ChildWrites(s)
  <2> PICK s \in Streams : ChildWrites(s)
    BY <1>1
  <2>1. pipe[s] + 1 \in 0 .. Capacity
    BY DEF ChildWrites
  <2>2. pipe' = [pipe EXCEPT ![s] = @ + 1] /\ UNCHANGED <<broken, early>>
    BY DEF ChildWrites
  <2> QED
    BY <2>1, <2>2
<1>2. CASE Iterate
  <2>1. pipe' \in [Streams -> 0 .. Capacity] /\ broken' \subseteq Streams
    <3>1. PICK errors \in SUBSET (Dispatched \cap Streams) :
            /\ broken' = broken \cup errors
            /\ pipe' = [s \in Streams |->
                          IF s \in (Dispatched \cap Streams) \ errors THEN 0 ELSE pipe[s]]
      BY <1>2 DEF Iterate, WatchOutput
    <3> QED
      BY <3>1
  <2>2. early' \subseteq Streams
    BY <1>2 DEF Iterate, ReapChild
  <2> QED
    BY <2>1, <2>2
<1>3. CASE \/ ChildFallsSilent \/ ChildEnds \/ TimerExpires \/ RunFails \/ Start \/ Signal
           \/ WaitForNobody \/ BeginWait \/ WaitReturns \/ BeginDispose \/ DisposeAtOnce
           \/ DisposeEnds
  <2>1. /\ pipe' = pipe \/ pipe' = [s \in Streams |-> 0]
        /\ UNCHANGED <<broken, early>> \/ (broken' = {} /\ early' = {})
    BY <1>3 DEF ChildFallsSilent, ChildEnds, TimerExpires, RunFails, Start, Signal,
                WaitForNobody, BeginWait, WaitReturns, BeginDispose, DisposeAtOnce,
                DisposeEnds, Free, DisposeIOChannel
  <2> QED
    BY <2>1
<1> QED
  BY <1>1, <1>2, <1>3, NextIsAStep

-----------------------------------------------------------------------------
\* The pid and the child watch follow the child.
LEMMA PidOfTheChild ==
  ASSUME PidIsTheChilds
  PROVE  /\ pid > 0 => child.state \in {"running", "zombie"}
         /\ ~(pid > 0) /\ user = "waiting" => child.state = "reaped"
  BY DEF PidIsTheChilds

LEMMA PidStep ==
  ASSUME TypeOK, PidIsTheChilds, Next
  PROVE  PidIsTheChilds'
<1> USE DEF TypeOK, SourcesOK, ObjectOK, ChildOK, ChildStates, settings, sources, PidIsTheChilds
<1>0. "child" \in Dispatched => childWatch /\ child.state = "zombie"
  BY DispatchedSources
<1>1. CASE \E s \in Streams : ChildWrites(s)
  <2>1. UNCHANGED <<childWatch, child, pid, user>>
    BY <1>1 DEF ChildWrites
  <2> QED
    BY <2>1
<1>2. CASE ChildFallsSilent
  BY <1>0, <1>2 DEF ChildFallsSilent
<1>3. CASE ChildEnds
  BY ZenonT(60), <1>0, <1>3 DEF ChildEnds
<1>4. CASE Iterate
  BY <1>0, <1>4 DEF Iterate, ReapChild, ReapedStatus
<1>5. CASE TimerExpires
  BY <1>0, <1>5 DEF TimerExpires
<1>6. CASE RunFails
  BY <1>0, <1>6 DEF RunFails, DisposeIOChannel
<1>7. CASE Start
  BY <1>0, <1>7 DEF Start, NoChild, DisposeIOChannel
<1>8. CASE Signal
  BY <1>0, <1>8 DEF Signal, Signalled
<1>9. CASE WaitForNobody
  BY <1>0, <1>9 DEF WaitForNobody
<1>10. CASE BeginWait
  <2>1. child.state \in {"running", "zombie"} /\ user' = "waiting"
    BY <1>10, PidOfTheChild DEF BeginWait
  <2>2. UNCHANGED <<childWatch, child, pid>>
    BY <1>10 DEF BeginWait
  <2> QED
    BY <2>1, <2>2
<1>11. CASE WaitReturns
  BY <1>0, <1>11 DEF WaitReturns, InWait
<1>12. CASE BeginDispose
  <2>1. child.state \in {"running", "zombie"} /\ user' = "disposing"
    BY <1>12 DEF BeginDispose, IsTerminated
  <2>2. UNCHANGED <<childWatch, pid>> /\ child'.state = child.state
    BY <1>12 DEF BeginDispose, Signalled
  <2> QED
    BY <2>1, <2>2
<1>13. CASE DisposeAtOnce
  BY <1>0, <1>13 DEF DisposeAtOnce, Free, ChildWatchRemoved, Abandoned, Signalled,
       IsTerminated, DisposeIOChannel
<1>14. CASE DisposeEnds
  BY <1>0, <1>14 DEF DisposeEnds, InDispose, Free, ChildWatchRemoved, Abandoned,
       TimerRemoved, DisposeIOChannel
<1> QED
  BY NextIsAStep, <1>1, <1>2, <1>3, <1>4, <1>5, <1>6, <1>7, <1>8, <1>9, <1>10, <1>11, <1>12,
       <1>13, <1>14

\* So do the status and the answer.
LEMMA StatusStep ==
  ASSUME TypeOK, PidIsTheChilds, StatusIsTheChilds, Next
  PROVE  StatusIsTheChilds'
<1> USE DEF TypeOK, SourcesOK, ObjectOK, ChildOK, ChildStates, settings, sources,
     PidIsTheChilds, StatusIsTheChilds
<1>0. "child" \in Dispatched => childWatch /\ child.state = "zombie"
  BY DispatchedSources
<1>1. CASE \E s \in Streams : ChildWrites(s)
  BY <1>0, <1>1 DEF ChildWrites
<1>2. CASE ChildFallsSilent
  BY <1>0, <1>2 DEF ChildFallsSilent
<1>3. CASE ChildEnds
  BY <1>0, <1>3 DEF ChildEnds
<1>4. CASE Iterate
  BY <1>0, <1>4 DEF Iterate, ReapChild, ReapedStatus
<1>5. CASE TimerExpires
  BY <1>0, <1>5 DEF TimerExpires
<1>6. CASE RunFails
  BY <1>0, <1>6 DEF RunFails, DisposeIOChannel
<1>7. CASE Start
  BY <1>0, <1>7 DEF Start, NoChild, DisposeIOChannel
<1>8. CASE Signal
  BY <1>0, <1>8 DEF Signal, Signalled
<1>9. CASE WaitForNobody
  BY <1>0, <1>9 DEF WaitForNobody
<1>10. CASE BeginWait
  BY <1>0, <1>10 DEF BeginWait
<1>11. CASE WaitReturns
  <2>1. answer' = "status" => child.state = "reaped"
    BY <1>11, PidOfTheChild DEF WaitReturns, InWait
  <2>2. UNCHANGED <<status, child>>
    BY <1>11 DEF WaitReturns
  <2> QED
    BY <2>1, <2>2
<1>12. CASE BeginDispose
  BY <1>0, <1>12 DEF BeginDispose, Signalled
<1>13. CASE DisposeAtOnce
  BY <1>0, <1>13 DEF DisposeAtOnce, Free, ChildWatchRemoved, Abandoned, Signalled,
       IsTerminated, DisposeIOChannel
<1>14. CASE DisposeEnds
  BY <1>0, <1>14 DEF DisposeEnds, InDispose, Free, ChildWatchRemoved, Abandoned,
       TimerRemoved, DisposeIOChannel
<1> QED
  BY NextIsAStep, <1>1, <1>2, <1>3, <1>4, <1>5, <1>6, <1>7, <1>8, <1>9, <1>10, <1>11, <1>12,
       <1>13, <1>14

\* A timer is attached only during a call.
LEMMA TimerStep ==
  ASSUME TypeOK, PidIsTheChilds, TimerIsTheCalls, Next
  PROVE  TimerIsTheCalls'
<1> USE DEF TypeOK, SourcesOK, ObjectOK, ChildOK, ChildStates, settings, sources,
     PidIsTheChilds, TimerIsTheCalls, NothingIsAttached
<1>0. "child" \in Dispatched => childWatch /\ child.state = "zombie"
  BY DispatchedSources
<1>1. CASE \E s \in Streams : ChildWrites(s)
  BY <1>0, <1>1 DEF ChildWrites
<1>2. CASE ChildFallsSilent
  BY <1>0, <1>2 DEF ChildFallsSilent
<1>3. CASE ChildEnds
  BY <1>0, <1>3 DEF ChildEnds
<1>4. CASE Iterate
  BY <1>0, <1>4 DEF Iterate, WatchOutput, ReapChild, ReapedStatus
<1>5. CASE TimerExpires
  BY <1>0, <1>5 DEF TimerExpires
<1>6. CASE RunFails
  BY <1>0, <1>6 DEF RunFails, DisposeIOChannel
<1>7. CASE Start
  BY <1>0, <1>7 DEF Start, NoChild, DisposeIOChannel
<1>8. CASE Signal
  BY <1>0, <1>8 DEF Signal, Signalled
<1>9. CASE WaitForNobody
  BY <1>0, <1>9 DEF WaitForNobody
<1>10. CASE BeginWait
  BY <1>0, <1>10 DEF BeginWait
<1>11. CASE WaitReturns
  BY <1>0, <1>11 DEF WaitReturns, InWait
<1>12. CASE BeginDispose
  BY <1>0, <1>12 DEF BeginDispose, Signalled
<1>13. CASE DisposeAtOnce
  BY <1>0, <1>13 DEF DisposeAtOnce, Free, ChildWatchRemoved, Abandoned, Signalled,
       IsTerminated, DisposeIOChannel
<1>14. CASE DisposeEnds
  BY <1>0, <1>14 DEF DisposeEnds, InDispose, Free, ChildWatchRemoved, Abandoned,
       TimerRemoved, DisposeIOChannel
<1> QED
  BY NextIsAStep, <1>1, <1>2, <1>3, <1>4, <1>5, <1>6, <1>7, <1>8, <1>9, <1>10, <1>11, <1>12,
       <1>13, <1>14

-----------------------------------------------------------------------------
\* The output: an iteration that reaps the child leaves no stream that could be
\* read; nothing else takes a stream away from a child.
LEMMA StreamsStep ==
  ASSUME TypeOK, PidIsTheChilds, StreamsAreRead, Next
  PROVE  StreamsAreRead'
<1> USE DEF StreamsAreRead, OutputIsReceived, settings, sources
<1>1. CASE \E s \in Streams : ChildWrites(s)
  <2>1. child.state = "running" /\ UNCHANGED <<class, watch, child, broken, early>>
    BY <1>1 DEF ChildWrites
  <2> QED
    BY <2>1
<1>2. CASE Iterate
  <2> PICK errors \in SUBSET (Dispatched \cap Streams) :
        /\ \A s \in errors : pipe[s] > 0
        /\ broken' = broken \cup errors
        /\ pipe' = [s \in Streams |-> IF s \in (Dispatched \cap Streams) \ errors THEN 0 ELSE pipe[s]]
        /\ watch' = [s \in Streams |->
                       IF s \in errors \/ (s \in (Dispatched \cap Streams) /\ HungUp) THEN "removed" ELSE watch[s]]
    BY <1>2 DEF Iterate, WatchOutput
  <2>1. CASE "child" \notin Dispatched
    <3>1. UNCHANGED <<class, child, early>>
      BY <1>2, <2>1 DEF Iterate
    <3>2. \A s \in Streams \ broken' : pipe'[s] = 0 \/ (pipe'[s] = pipe[s] /\ watch'[s] = watch[s])
      OBVIOUS
    <3>3. \A s \in Streams \ broken : pipe[s] = 0 => pipe'[s] = 0
      OBVIOUS
    <3>4. \A s \in Streams \ broken' : s \notin broken
      OBVIOUS
    <3>5. \A s \in Streams \ broken' :
             watch[s] = "attached" => watch'[s] = "attached" \/ pipe'[s] = 0
      BY <3>2
    <3>6. child.state = "running" => \A s \in Streams \ broken' : watch'[s] = "attached"
      BY DEF HungUp
    <3> QED
      BY <3>1, <3>2, <3>3, <3>4, <3>5, <3>6
  <2>2. CASE "child" \in Dispatched
    <3>1. /\ child.state = "zombie" /\ child'.state = "reaped" /\ UNCHANGED class
          /\ early' = {s \in Streams : pipe[s] > 0}
      BY <1>2, <2>2, DispatchedSources DEF Iterate, ReapChild, TypeOK, ChildOK, ChildStates
    <3>2. \A s \in Streams : Readable(s) => class = "egg" /\ s \in Dispatched
      BY <2>2, DispatchedSources
    <3>3. \A s \in Streams \ broken : ~Readable(s) => pipe[s] = 0
      BY <3>1 DEF Readable, HungUp, TypeOK, PipesOK
    <3>4. \A s \in Streams \ broken' : pipe'[s] = 0
      BY <3>2, <3>3
    <3>5. class = "process" => early' \subseteq broken'
      BY <3>1, <3>2, <3>3
    <3> QED
      BY <3>1, <3>4, <3>5
  <2> QED
    BY <2>1, <2>2
<1>3. CASE \/ ChildFallsSilent \/ ChildEnds \/ TimerExpires \/ Signal
           \/ WaitForNobody \/ BeginWait \/ WaitReturns \/ BeginDispose
  <2>1. /\ UNCHANGED <<class, broken, early, pipe, watch>>
        /\ child'.state = child.state \/ (child.state = "running" /\ child'.state = "zombie")
    BY <1>3 DEF ChildFallsSilent, ChildEnds, TimerExpires, Signal, Signalled,
                WaitForNobody, BeginWait, WaitReturns, BeginDispose, TypeOK, ChildOK,
                     ChildStates
  <2> QED
    BY <2>1
<1>4. CASE Start
  <2>1. child'.state = "running" /\ \A s \in Streams : watch'[s] = "attached"
    BY <1>4 DEF Start, NoChild
  <2> QED
    BY <2>1
<1>5. CASE RunFails \/ DisposeAtOnce \/ DisposeEnds
  <2>1. UNCHANGED <<class, broken, early>> /\ pipe' = [s \in Streams |-> 0]
    BY <1>5 DEF RunFails, DisposeAtOnce, DisposeEnds, Free, DisposeIOChannel
  <2>2. child'.state \notin {"running", "zombie"}
    <3>1. CASE RunFails
      BY <3>1 DEF RunFails, PidIsTheChilds
    <3>2. CASE DisposeAtOnce \/ DisposeEnds
      BY <3>2 DEF DisposeAtOnce, DisposeEnds, Abandoned, Signalled, TypeOK, ChildOK, ChildStates
    <3> QED
      BY <1>5, <3>1, <3>2
  <2>3. child'.state = "reaped" => child.state = "reaped"
    BY <1>5 DEF RunFails, DisposeAtOnce, DisposeEnds, Abandoned, Signalled, TypeOK, ChildOK,
         ChildStates
  <2> QED
    BY <2>1, <2>2, <2>3
<1> QED
  BY NextIsAStep, <1>1, <1>2, <1>3, <1>4, <1>5

-----------------------------------------------------------------------------
\* The invariant holds before anything has been run.
LEMMA InitInv == Init => Inv
<1> SUFFICES ASSUME Init PROVE Inv
  OBVIOUS
<1>1. SettingsOK /\ ObjectOK
  BY DEF Init, SettingsOK, ObjectOK
<1>2. SourcesOK
  BY DEF Init, SourcesOK
<1>6. PipesOK
  <2>1. 0 \in 0 .. Capacity
    BY CapacityAssumption
  <2> QED
    BY <2>1 DEF Init, PipesOK
<1>3. ChildOK
  BY DEF Init, ChildOK, ChildStates, NoChild
<1>4. PidIsTheChilds /\ StatusIsTheChilds
  BY DEF Init, PidIsTheChilds, StatusIsTheChilds, NoChild
<1>5. StreamsAreRead /\ TimerIsTheCalls
  BY DEF Init, StreamsAreRead, TimerIsTheCalls, OutputIsReceived, NothingIsAttached, NoChild
<1> QED
  BY <1>1, <1>2, <1>3, <1>4, <1>5, <1>6 DEF Inv, TypeOK

\* No step breaks it.
LEMMA StepInv == Inv /\ [Next]_vars => Inv'
<1> SUFFICES ASSUME Inv, [Next]_vars PROVE Inv'
  OBVIOUS
<1>1. CASE Next
  BY <1>1, SettingsType, SourcesType, ObjectType, ChildType, PipesType, PidStep, StatusStep,
     TimerStep, StreamsStep DEF Inv, TypeOK
<1>2. CASE UNCHANGED vars
  <2> USE <1>2 DEF vars, settings, sources, Inv, TypeOK
  <2>1. SettingsOK' /\ ObjectOK'
    BY DEF SettingsOK, ObjectOK
  <2>2. SourcesOK' /\ PipesOK' /\ ChildOK'
    BY DEF SourcesOK, PipesOK, ChildOK
  <2>3. PidIsTheChilds' /\ StatusIsTheChilds'
    BY DEF PidIsTheChilds, StatusIsTheChilds
  <2>4. StreamsAreRead' /\ TimerIsTheCalls'
    BY DEF StreamsAreRead, TimerIsTheCalls, OutputIsReceived, NothingIsAttached
  <2> QED
    BY <2>1, <2>2, <2>3, <2>4
<1> QED
  BY <1>1, <1>2

\* The inductive invariant of gcut-process.c and gcut-egg.c, for any streams and
\* any capacity of the pipes.
THEOREM ProcessInvariant == Spec => []Inv
  BY InitInv, StepInv, PTL DEF Spec

\* No output of a child is lost at its end, in whatever order the sources of the
\* loop are ready and whenever it is iterated (gcut-process.c:880, where the
\* child watch is given its low priority).
THEOREM OutputTheorem == Spec => []OutputIsReceived
<1>1. Inv => OutputIsReceived
  BY DEF Inv, StreamsAreRead
<1> QED
  BY <1>1, ProcessInvariant, PTL

\* After dispose() nothing calls the object that is gone (gcut-process.c:418).
THEOREM NothingAttachedTheorem == Spec => []NothingIsAttached
<1>1. Inv => NothingIsAttached
  BY DEF Inv, TimerIsTheCalls
<1> QED
  BY <1>1, ProcessInvariant, PTL

\* The status that wait() returns is that of the child, and a child that has
\* not been reaped has an object that knows it (gcut-process.c:1019).
THEOREM AnswersTheorem == Spec => []AnswersAreRight
<1>1. Inv => AnswersAreRight
  BY DEF Inv, PidIsTheChilds, StatusIsTheChilds, AnswersAreRight
<1> QED
  BY <1>1, ProcessInvariant, PTL
================================================================================
