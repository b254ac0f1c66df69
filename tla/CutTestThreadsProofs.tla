------------------------- MODULE CutTestThreadsProofs -------------------------
(***************************************************************************)
(* Proofs about CutTestThreads, for every suite, number of data, limit of  *)
(* threads and set of tests that start threads: no thread jumps by the     *)
(* jump buffer of another one, no case outlives a run that was not         *)
(* interrupted, and no failure of a test, of its threads or of a case is   *)
(* lost on its way to the flag that the case threads share.                *)
(*                                                                         *)
(* Most actions are far from what a property is about: the lemmas CaseMoves *)
(* and FlagMoves say once what any step does to the places of the cases    *)
(* and to the flags, and the invariants are proved from them.              *)
(***************************************************************************)
EXTENDS CutTestThreads, TLAPS

-----------------------------------------------------------------------------
\* An assertion of an iterated test's thread: cut_test_context_long_jump()
\* exits in a thread that did not make the context, and in the one that did,
\* the context whose buffer it jumps by is the current one.
LEMMA NobodyJumpsAway ==
  ASSUME NEW id, NEW o, EndsWith(id, o), proc = "running"
  PROVE  UNCHANGED proc
  BY DEF EndsWith, Exits, SameThread, Current

LEMMA ProcMoves ==
  ASSUME Next, proc # "wild"
  PROVE  proc' # "wild"
<1>1. CASE MainStep \/ Interrupted \/ Cancel \/ WorkerSignal \/ Ended
  BY <1>1 DEF MainStep, RunStart, PushCase, WaitForCases, EndOfCases,
              EmitCompleteRun, Interrupted, Cancel, WorkerSignal, Ended, vars
<1>2. CASE \E id \in Threaded : ThreadEnds(id)
  BY <1>2 DEF ThreadEnds, MainUnchanged
<1>3. ASSUME NEW c \in Cases, CaseStep(c) PROVE UNCHANGED proc
  BY <1>3 DEF CaseStep, MainUnchanged, StartCase, StartupEnds, SkipTest,
              StartTest, SetupEnds, BodyEnds, TeardownEnds, EndOfTests,
              ShutdownEnds, ReportCase, DataSetupEnds, EndOfData, DataAreDone
<1>4. ASSUME NEW c \in Cases, NEW d \in 1 .. NData, IteratedStep(c, d)
      PROVE  UNCHANGED proc
  <2>1. CASE PushData(c, d) \/ StartData(c, d)
    BY <2>1 DEF PushData, StartData, MainUnchanged
  <2>2. CASE ISetupEnds(c, d)
    BY <2>2, NobodyJumpsAway DEF ISetupEnds, AtData
  <2>3. CASE IBodyEnds(c, d)
    BY <2>3, NobodyJumpsAway DEF IBodyEnds, AtData
  <2>4. CASE ITeardownEnds(c, d)
    BY <2>4, NobodyJumpsAway DEF ITeardownEnds, AtData
  <2> QED
    BY <1>4, <2>1, <2>2, <2>3, <2>4 DEF IteratedStep
<1> QED
  BY <1>1, <1>2, <1>3, <1>4 DEF Next

\* However many threads of however many iterated tests give up in whatever
\* order, an assertion never jumps through a buffer made in another thread
\* (cut_test_context_long_jump(), cut-test-context.c:848).
THEOREM NoWildJumpTheorem == Spec => []NoWildJump
<1>1. Init => NoWildJump
  BY DEF Init, NoWildJump
<1>2. NoWildJump /\ [Next]_vars => NoWildJump'
  BY ProcMoves DEF NoWildJump, vars
<1> QED
  BY <1>1, <1>2, PTL DEF Spec

-----------------------------------------------------------------------------
\* The places of the case threads.
Places == {"none", "queued", "done"} \cup Busy

PlacesOK == caseAt \in [Cases -> Places]

Moves(c) == \E p \in Places : caseAt' = [caseAt EXCEPT ![c] = p]

\* What a step does to the threads of the cases: the main thread pushes one, or
\* one that has work to do goes on.
LEMMA CaseMoves ==
  ASSUME Next
  PROVE  \/ UNCHANGED caseAt
         \/ PushCase
         \/ \E c \in Cases : caseAt[c] \in {"queued"} \cup Busy /\ Moves(c)
<1>1. CASE MainStep \/ Interrupted \/ Cancel \/ WorkerSignal \/ Ended
  BY <1>1 DEF MainStep, RunStart, WaitForCases, EndOfCases, EmitCompleteRun,
              Interrupted, Cancel, WorkerSignal, Ended, vars
<1>2. CASE \E id \in Threaded : ThreadEnds(id)
  BY <1>2 DEF ThreadEnds
<1>3. ASSUME NEW c \in Cases, CaseStep(c)
      PROVE  /\ caseAt[c] \in {"queued"} \cup Busy
             /\ Moves(c) \/ UNCHANGED caseAt
  <2> USE DEF At, Step, Moves, Places, Busy, LeaveTest
  <2>1. CASE StartCase(c) \/ StartupEnds(c) \/ SkipTest(c) \/ StartTest(c)
    BY <2>1 DEF StartCase, StartupEnds, SkipTest, StartTest
  <2>2. CASE SetupEnds(c) \/ BodyEnds(c) \/ TeardownEnds(c) \/ EndOfTests(c)
    BY <2>2 DEF SetupEnds, BodyEnds, TeardownEnds, EndOfTests
  <2>3. CASE ShutdownEnds(c) \/ ReportCase(c) \/ EndOfData(c) \/ DataAreDone(c)
    BY <2>3 DEF ShutdownEnds, ReportCase, EndOfData, DataAreDone
  <2>4. CASE DataSetupEnds(c)
    BY <2>4 DEF DataSetupEnds
  <2> QED
    BY <1>3, <2>1, <2>2, <2>3, <2>4 DEF CaseStep
<1>4. ASSUME NEW c \in Cases, NEW d \in 1 .. NData, IteratedStep(c, d)
      PROVE  UNCHANGED caseAt
  BY <1>4 DEF IteratedStep, PushData, StartData, ISetupEnds, IBodyEnds,
              ITeardownEnds
<1> QED
  BY <1>1, <1>2, <1>3, <1>4 DEF Next

LEMMA PlacesInit == Init => PlacesOK
  BY DEF Init, PlacesOK, Places

LEMMA PlacesStep == PlacesOK /\ [Next]_vars => PlacesOK'
<1> SUFFICES ASSUME PlacesOK, [Next]_vars PROVE PlacesOK'
  OBVIOUS
<1>1. CASE PushCase
  BY <1>1 DEF PushCase, Step, PlacesOK, Places
<1>2. CASE \E c \in Cases : Moves(c)
  BY <1>2 DEF Moves, PlacesOK
<1>3. CASE UNCHANGED caseAt
  BY <1>3 DEF PlacesOK
<1> QED
  BY <1>1, <1>2, <1>3, CaseMoves DEF vars

-----------------------------------------------------------------------------
\* The end of a run.  The invariant is CompleteIsLast with the places typed:
\* once the main thread has left its wait, no case thread has anything to do.
LastInv == PlacesOK /\ CompleteIsLast

\* What a step does to what the main thread and SIGINT write.
LEMMA MainMoves ==
  ASSUME Next
  PROVE  \/ UNCHANGED <<main, interrupted, canceled, verdict>>
         \/ RunStart \/ WaitForCases \/ EndOfCases \/ EmitCompleteRun
         \/ Interrupted \/ Cancel
<1>1. CASE PushCase \/ WorkerSignal \/ Ended
  BY <1>1 DEF PushCase, WorkerSignal, Ended, vars
<1>2. CASE \E id \in Threaded : ThreadEnds(id)
  BY <1>2 DEF ThreadEnds, MainUnchanged
<1>3. ASSUME NEW c \in Cases, CaseStep(c)
      PROVE  UNCHANGED <<main, interrupted, canceled, verdict>>
  BY <1>3 DEF CaseStep, MainUnchanged, StartCase, StartupEnds, SkipTest,
              StartTest, SetupEnds, BodyEnds, TeardownEnds, EndOfTests,
              ShutdownEnds, ReportCase, DataSetupEnds, EndOfData, DataAreDone
<1>4. ASSUME NEW c \in Cases, NEW d \in 1 .. NData, IteratedStep(c, d)
      PROVE  UNCHANGED <<main, interrupted, canceled, verdict>>
  BY <1>4 DEF IteratedStep, MainUnchanged, PushData, StartData, ISetupEnds,
              IBodyEnds, ITeardownEnds, EndsWith
<1> QED
  BY <1>1, <1>2, <1>3, <1>4 DEF Next, MainStep

LEMMA LastStep == LastInv /\ [Next]_vars => LastInv'
<1> SUFFICES ASSUME LastInv, [Next]_vars PROVE CompleteIsLast'
  BY PlacesStep DEF LastInv
<1>1. CASE UNCHANGED vars
  BY <1>1 DEF vars, LastInv, CompleteIsLast
<1>2. CASE Next
  <2>1. CASE EndOfCases \/ EmitCompleteRun
    BY <2>1 DEF EndOfCases, CasesAreDone, EmitCompleteRun, LastInv,
                CompleteIsLast, Main
  <2>2. CASE RunStart \/ WaitForCases \/ Interrupted \/ Cancel
    BY <2>2 DEF RunStart, WaitForCases, Interrupted, Cancel, CompleteIsLast
  <2>3. CASE UNCHANGED <<main, interrupted>>
    <3> SUFFICES ASSUME main \in {"cooldown", "complete"}, ~interrupted
                 PROVE  \A c \in Cases : caseAt'[c] \in {"none", "done"}
      BY <2>3 DEF CompleteIsLast
    <3>1. \A c \in Cases : caseAt[c] \in {"none", "done"}
      BY DEF LastInv, CompleteIsLast
    <3>2. UNCHANGED caseAt
      BY <1>2, <3>1, CaseMoves DEF PushCase, Main, Busy
    <3> QED
      BY <3>1, <3>2
  <2> QED
    BY <1>2, <2>1, <2>2, <2>3, MainMoves
<1> QED
  BY <1>1, <1>2

\* A run that SIGINT did not take out of its wait has waited for every case it
\* pushed, canceled or not: g_thread_pool_free() of
\* cut_test_suite_run_test_cases() (cut-test-suite.c:373) comes before
\* "complete-run".
THEOREM CompleteIsLastTheorem == Spec => []CompleteIsLast
<1>1. Init => LastInv
  BY PlacesInit DEF Init, LastInv, CompleteIsLast
<1>2. LastInv => CompleteIsLast
  BY DEF LastInv
<1> QED
  BY <1>1, <1>2, LastStep, PTL DEF Spec

-----------------------------------------------------------------------------
\* The flags of the cases.  FailedCaseIsReported is about a case that was
\* reported long ago: it needs that the case is done, that the main thread does
\* not push it again, and that the shared flag implies the case's own between the two moments in
\* which cut_test_suite_run_test_cases() writes and reads it.

FlagsTyped ==
  /\ ok \in [suite : BOOLEAN, case : [Cases -> BOOLEAN],
             test : [Cases -> BOOLEAN], iter : [Cases -> BOOLEAN]]
  /\ reported \in [Cases -> {"none", "success", "failure"}]

PushedInOrder ==
  /\ next \in Nat
  /\ \A c \in Cases : c >= next => caseAt[c] = "none"

FreshFlagIsSet ==
  \A c \in Cases : caseAt[c] \in {"none", "queued", "startup"} => ok.case[c]

SharedFlagIsLower ==
  \A c \in Cases : caseAt[c] = "report" /\ ok.suite => ok.case[c]

ReportedIsDone ==
  \A c \in Cases : reported[c] = "success" => caseAt[c] = "done" /\ ok.case[c]

FlagInv ==
  /\ PlacesOK /\ FlagsTyped /\ PushedInOrder
  /\ FreshFlagIsSet /\ SharedFlagIsLower /\ ReportedIsDone

SameFlags ==
  ok'.suite = ok.suite /\ ok'.case = ok.case /\ reported' = reported

\* A case thread goes on between its startup and its shutdown, with the flags as
\* they are.
Working == Busy \ {"startup", "report"}

GoesOn(c) ==
  /\ caseAt[c] \in Working
  /\ \E p \in Working : caseAt' = [caseAt EXCEPT ![c] = p]
  /\ SameFlags

\* It writes its own flag: in its startup, and later it only lowers it.
Judges(c) ==
  /\ caseAt[c] \in {"startup"} \cup Working
  /\ \E p \in Working : caseAt' = [caseAt EXCEPT ![c] = p]
  /\ \E b \in BOOLEAN : /\ ok'.case = [ok.case EXCEPT ![c] = b]
                        /\ b /\ caseAt[c] # "startup" => ok.case[c]
  /\ ok'.suite = ok.suite /\ reported' = reported

\* It lowers the flag that is shared, and goes to report it.
Shares(c) ==
  /\ caseAt[c] = "shutdown" /\ caseAt' = [caseAt EXCEPT ![c] = "report"]
  /\ ok'.suite = (ok.suite /\ ok.case[c])
  /\ ok'.case = ok.case /\ reported' = reported

LEMMA CaseFlags ==
  ASSUME FlagsTyped, NEW c \in Cases, CaseStep(c)
  PROVE  \/ UNCHANGED caseAt /\ SameFlags
         \/ StartCase(c) \/ GoesOn(c) \/ Judges(c) \/ Shares(c) \/ ReportCase(c)
<1> USE DEF FlagsTyped, At, Step, Working, Busy, SameFlags
<1>1. CASE SkipTest(c)
  BY <1>1 DEF SkipTest
<1>2. CASE EndOfTests(c) \/ EndOfData(c)
  <2>1. caseAt[c] \in Working
    BY <1>2 DEF EndOfTests, EndOfData
  <2>2. SameFlags
    BY <1>2 DEF EndOfTests, EndOfData, CaseUnchanged
  <2>3. \/ caseAt' = [caseAt EXCEPT ![c] = "shutdown"]
        \/ caseAt' = [caseAt EXCEPT ![c] = "wait_data"]
    BY <1>2 DEF EndOfTests, EndOfData
  <2> QED
    BY <2>1, <2>2, <2>3 DEF GoesOn
<1>3. CASE StartTest(c)
  BY <1>3 DEF StartTest, GoesOn
<1>4. CASE SetupEnds(c) \/ BodyEnds(c)
  BY <1>4 DEF SetupEnds, BodyEnds, GoesOn
<1>5. CASE StartupEnds(c)
  BY <1>5 DEF StartupEnds, Judges
<1>6. CASE TeardownEnds(c) \/ DataAreDone(c)
  BY <1>6 DEF TeardownEnds, DataAreDone, LeaveTest, Judges
<1>7. CASE DataSetupEnds(c)
  BY <1>7 DEF DataSetupEnds, LeaveTest, Judges, GoesOn
<1>8. CASE ShutdownEnds(c)
  BY <1>8 DEF ShutdownEnds, SuiteSuccess, Shares
<1> QED
  BY <1>1, <1>2, <1>3, <1>4, <1>5, <1>6, <1>7, <1>8 DEF CaseStep

LEMMA FlagMoves ==
  ASSUME FlagsTyped, Next
  PROVE  \/ SameFlags /\ (UNCHANGED <<next, caseAt>> \/ PushCase)
         \/ /\ UNCHANGED next
            /\ \E c \in Cases : \/ UNCHANGED caseAt /\ SameFlags
                                \/ StartCase(c) \/ GoesOn(c) \/ Judges(c)
                                \/ Shares(c) \/ ReportCase(c)
<1>1. CASE MainStep \/ Interrupted \/ Cancel \/ WorkerSignal \/ Ended
  BY <1>1 DEF MainStep, RunStart, PushCase, WaitForCases, EndOfCases,
              EmitCompleteRun, Interrupted, Cancel, WorkerSignal, Ended, vars,
              SameFlags
<1>2. CASE \E id \in Threaded : ThreadEnds(id)
  BY <1>2 DEF ThreadEnds, MainUnchanged, CaseUnchanged, SameFlags
<1>3. ASSUME NEW c \in Cases, CaseStep(c) PROVE UNCHANGED next
  BY <1>3 DEF CaseStep, MainUnchanged, StartCase, StartupEnds, SkipTest,
              StartTest, SetupEnds, BodyEnds, TeardownEnds, EndOfTests,
              ShutdownEnds, ReportCase, DataSetupEnds, EndOfData, DataAreDone
<1>4. ASSUME NEW c \in Cases, NEW d \in 1 .. NData, IteratedStep(c, d)
      PROVE  UNCHANGED <<next, caseAt>> /\ SameFlags
  <2>1. UNCHANGED <<next, caseAt, reported>>
    BY <1>4 DEF IteratedStep, MainUnchanged, CaseUnchanged, PushData, StartData,
                ISetupEnds, IBodyEnds, ITeardownEnds, EndsWith
  <2>2. CASE PushData(c, d) \/ StartData(c, d) \/ ITeardownEnds(c, d)
    BY <2>1, <2>2 DEF PushData, StartData, ITeardownEnds, SameFlags
  <2>3. CASE ISetupEnds(c, d)
    BY <2>1, <2>3 DEF ISetupEnds, FlagsTyped, SameFlags
  <2>4. CASE IBodyEnds(c, d)
    BY <2>1, <2>4 DEF IBodyEnds, FlagsTyped, SameFlags
  <2> QED
    BY <1>4, <2>1, <2>2, <2>3, <2>4 DEF IteratedStep
<1> QED
  BY <1>1, <1>2, <1>3, <1>4, CaseFlags DEF Next

\* The flags hold truth values, whatever the conditions they are written with.
LEMMA FlagWrites ==
  ASSUME FlagsTyped, NEW c \in Cases, NEW b \in BOOLEAN,
         \/ ok' = ok
         \/ ok' = [ok EXCEPT !.suite = b]
         \/ ok' = [ok EXCEPT !.case[c] = b]
         \/ ok' = [ok EXCEPT !.test[c] = b]
         \/ ok' = [ok EXCEPT !.iter[c] = b]
  PROVE  ok' \in [suite : BOOLEAN, case : [Cases -> BOOLEAN],
                  test : [Cases -> BOOLEAN], iter : [Cases -> BOOLEAN]]
  BY DEF FlagsTyped

LEMMA FlagsTypedStep == FlagsTyped /\ [Next]_vars => FlagsTyped'
<1> SUFFICES ASSUME FlagsTyped, [Next]_vars PROVE FlagsTyped'
  OBVIOUS
<1> DEFINE Flags == [suite : BOOLEAN, case : [Cases -> BOOLEAN],
                     test : [Cases -> BOOLEAN], iter : [Cases -> BOOLEAN]]
<1>1. CASE UNCHANGED <<ok, reported>>
  BY <1>1 DEF FlagsTyped
<1>2. ASSUME NEW c \in Cases, CaseStep(c) PROVE FlagsTyped'
  <2>1. ok' \in Flags
    <3>1. CASE UNCHANGED ok
      BY <3>1 DEF FlagsTyped
    <3>2. CASE StartupEnds(c)
      BY <3>2, FlagWrites DEF StartupEnds
    <3>3. CASE StartTest(c)
      BY <3>3, FlagWrites DEF StartTest
    <3>4. CASE SetupEnds(c)
      BY <3>4, FlagWrites DEF SetupEnds
    <3>5. CASE BodyEnds(c)
      BY <3>5, FlagWrites DEF BodyEnds
    <3>6. CASE ShutdownEnds(c)
      BY <3>6, FlagWrites DEF ShutdownEnds, SuiteSuccess
    <3>7. ASSUME NEW b, LeaveTest(c, b) PROVE ok' \in Flags
      BY <3>7, FlagWrites DEF LeaveTest
    <3>8. CASE DataSetupEnds(c)
      BY <3>7, <3>8, FlagWrites DEF DataSetupEnds
    <3>9. CASE TeardownEnds(c) \/ DataAreDone(c)
      BY <3>7, <3>9 DEF TeardownEnds, DataAreDone
    <3> QED
      BY <1>2, <3>1, <3>2, <3>3, <3>4, <3>5, <3>6, <3>8, <3>9
      DEF CaseStep, StartCase, SkipTest, EndOfTests, EndOfData, ReportCase
  <2>2. reported' \in [Cases -> {"none", "success", "failure"}]
    BY <1>2 DEF FlagsTyped, CaseStep, StartCase, StartupEnds, SkipTest,
              StartTest, SetupEnds, BodyEnds, TeardownEnds, EndOfTests,
              ShutdownEnds, ReportCase, DataSetupEnds, EndOfData, DataAreDone,
              CaseUnchanged
  <2> QED
    BY <2>1, <2>2 DEF FlagsTyped
<1>3. ASSUME NEW c \in Cases, NEW d \in 1 .. NData, IteratedStep(c, d)
      PROVE  FlagsTyped'
  <2>1. UNCHANGED reported
    BY <1>3 DEF IteratedStep, CaseUnchanged, PushData, StartData, ISetupEnds,
                IBodyEnds, ITeardownEnds
  <2>2. ok' \in Flags
    <3>1. CASE UNCHANGED ok
      BY <3>1 DEF FlagsTyped
    <3>2. CASE ISetupEnds(c, d)
      BY <3>2, FlagWrites DEF ISetupEnds, FlagsTyped
    <3>3. CASE IBodyEnds(c, d)
      BY <3>3, FlagWrites DEF IBodyEnds, FlagsTyped
    <3> QED
      BY <1>3, <3>1, <3>2, <3>3 DEF IteratedStep, PushData, StartData,
                                    ITeardownEnds
  <2> QED
    BY <2>1, <2>2 DEF FlagsTyped
<1> QED
  BY <1>1, <1>2, <1>3 DEF Next, MainStep, RunStart, PushCase, WaitForCases,
     EndOfCases, EmitCompleteRun, Interrupted, Cancel, WorkerSignal, ThreadEnds,
     CaseUnchanged, Ended, vars

LEMMA FlagInit == Init => FlagInv
  BY PlacesInit DEF Init, FlagInv, FlagsTyped, PushedInOrder, FreshFlagIsSet,
                    SharedFlagIsLower, ReportedIsDone

LEMMA FlagStep == FlagInv /\ [Next]_vars => FlagInv'
<1> DEFINE Rest == PushedInOrder /\ FreshFlagIsSet /\ SharedFlagIsLower
                     /\ ReportedIsDone
<1> SUFFICES ASSUME FlagInv, [Next]_vars
             PROVE  Rest'
  BY PlacesStep, FlagsTypedStep DEF FlagInv
<1> USE DEF FlagInv, SameFlags, PushedInOrder, FreshFlagIsSet,
            SharedFlagIsLower, ReportedIsDone
<1>1. CASE SameFlags /\ UNCHANGED <<next, caseAt>>
  BY <1>1
<1>2. CASE SameFlags /\ PushCase
  BY <1>2 DEF PushCase, Step, PlacesOK, Cases
<1>3. ASSUME NEW c \in Cases, UNCHANGED next,
             \/ UNCHANGED caseAt /\ SameFlags
             \/ StartCase(c) \/ GoesOn(c) \/ Judges(c)
             \/ Shares(c) \/ ReportCase(c)
      PROVE  Rest'
  <2> USE DEF PlacesOK, Places, Working, Busy, Step, At
  <2>1. CASE UNCHANGED caseAt /\ SameFlags
    BY <1>3, <2>1
  <2>2. CASE StartCase(c)
    BY <1>3, <2>2 DEF StartCase
  <2>3. CASE GoesOn(c)
    BY <1>3, <2>3 DEF GoesOn
  <2>4. CASE Judges(c)
    BY <1>3, <2>4 DEF Judges, FlagsTyped
  <2>5. CASE Shares(c)
    BY <1>3, <2>5 DEF Shares
  <2>6. CASE ReportCase(c)
    BY <1>3, <2>6 DEF ReportCase, FlagsTyped
  <2> QED
    BY <1>3, <2>1, <2>2, <2>3, <2>4, <2>5, <2>6
<1> QED
  BY <1>1, <1>2, <1>3, FlagMoves DEF vars

-----------------------------------------------------------------------------
\* Failures and successes.  A test that succeeded is over (IsPast), so that no
\* thread fails it afterwards; a test that a thread failed has that in the
\* context its own function is judged by (FailuresAreKnown).

Ids == Cases \X Nat \X (0 .. NData)

DataPlaces == {"none", "queued", "skipped", "done", "lost"} \cup BusyData

TestsTyped ==
  /\ PlacesOK
  /\ test \in [Cases -> Nat]
  /\ dataAt \in [Cases -> [1 .. NData -> DataPlaces]]

HistoryIsOfTests == failures \subseteq Ids /\ successes \subseteq Ids

Iterating(c) == caseAt[c] \in {"next_data", "wait_data"}

DataAreIterated ==
  \A c \in Cases, d \in 1 .. NData :
    dataAt[c][d] \in {"queued"} \cup BusyData => Iterating(c)

IsPast(id) ==
  \/ test[id[1]] > id[2]
  \/ /\ test[id[1]] = id[2]
     /\ IF id[3] = 0
        THEN caseAt[id[1]] = "teardown"
        ELSE /\ dataAt[id[1]][id[3]] \in {"iteardown", "done", "lost"}
             /\ Iterating(id[1])

FailuresAreKnown == \A id \in failures : ~Pooled(id) => Context(id) \in failed

SuccessesArePast ==
  \A id \in successes : ~Pooled(id) => id \notin failures /\ IsPast(id)

FailureInv ==
  /\ TestsTyped /\ HistoryIsOfTests /\ DataAreIterated
  /\ FailuresAreKnown /\ SuccessesArePast

\* Where a step leaves the tests of the cases.
LEMMA TestsMove ==
  ASSUME TestsTyped, Next
  PROVE  TestsTyped'
<1> USE DEF TestsTyped
<1>1. PlacesOK'
  BY PlacesStep
<1>2. CASE UNCHANGED <<test, dataAt>>
  BY <1>1, <1>2
<1>3. ASSUME NEW c \in Cases, CaseStep(c)
      PROVE  /\ test' \in [Cases -> Nat]
             /\ dataAt' \in [Cases -> [1 .. NData -> DataPlaces]]
  <2>1. CASE DataSetupEnds(c)
    <3>1. \/ test' = [test EXCEPT ![c] = @ + 1] /\ UNCHANGED dataAt
          \/ /\ UNCHANGED test
             /\ dataAt' = [dataAt EXCEPT ![c] = [d \in 1 .. NData |-> "none"]]
      BY <2>1 DEF DataSetupEnds, LeaveTest, NextTest
    <3> QED
      BY <3>1 DEF DataPlaces
  <2>2. CASE SkipTest(c) \/ TeardownEnds(c) \/ DataAreDone(c)
    BY <2>2 DEF SkipTest, TeardownEnds, DataAreDone, LeaveTest, NextTest
  <2> QED
    BY <1>3, <2>1, <2>2 DEF CaseStep, StartCase, StartupEnds, StartTest,
       SetupEnds, BodyEnds, EndOfTests, ShutdownEnds, ReportCase, EndOfData,
       CaseUnchanged
<1>4. ASSUME NEW c \in Cases, NEW d \in 1 .. NData, IteratedStep(c, d)
      PROVE  /\ UNCHANGED test
             /\ dataAt' \in [Cases -> [1 .. NData -> DataPlaces]]
  <2>1. \E p \in DataPlaces : DataStep(c, d, p)
    <3> USE DEF DataPlaces, BusyData
    <3>1. CASE PushData(c, d)
      <4>1. \/ DataStep(c, d, "skipped") \/ DataStep(c, d, "isetup")
            \/ DataStep(c, d, "queued")
        BY <3>1 DEF PushData
      <4> QED
        BY <4>1
    <3>2. CASE StartData(c, d)
      BY <3>2 DEF StartData
    <3>3. CASE ISetupEnds(c, d)
      BY <3>3 DEF ISetupEnds
    <3>4. CASE IBodyEnds(c, d)
      BY <3>4 DEF IBodyEnds
    <3>5. CASE ITeardownEnds(c, d)
      BY <3>5 DEF ITeardownEnds
    <3> QED
      BY <1>4, <3>1, <3>2, <3>3, <3>4, <3>5 DEF IteratedStep
  <2>2. UNCHANGED test
    BY <1>4 DEF IteratedStep, CaseUnchanged, PushData, StartData, ISetupEnds,
                IBodyEnds, ITeardownEnds
  <2> QED
    BY <2>1, <2>2 DEF DataStep
<1> QED
  BY <1>1, <1>2, <1>3, <1>4 DEF Next, MainStep, RunStart, PushCase,
     WaitForCases, EndOfCases, EmitCompleteRun, Interrupted, Cancel,
     WorkerSignal, ThreadEnds, CaseUnchanged, Ended, vars

\* What is over stays over.
LEMMA PastStays ==
  ASSUME TestsTyped, PushedInOrder, Next, NEW id \in Ids, IsPast(id)
  PROVE  IsPast(id)'
<1> USE DEF TestsTyped, PlacesOK
<1> DEFINE i == id[1]
<1>1. i \in Cases /\ id[2] \in Nat /\ id[3] \in 0 .. NData
  BY DEF Ids
<1>2. CASE /\ test'[i] = test[i] /\ caseAt'[i] = caseAt[i]
           /\ dataAt'[i] = dataAt[i]
  BY <1>2 DEF IsPast, Iterating
<1>3. CASE PushCase
  <2>1. /\ i = next => caseAt[i] = "none"
        /\ test' = test /\ dataAt' = dataAt
    BY <1>1, <1>3 DEF PushCase, PushedInOrder, Cases
  <2>2. CASE i # next
    BY <1>1, <1>2, <1>3, <2>1, <2>2 DEF PushCase, Step
  <2>3. CASE i = next
    <3>1. test[i] > id[2]
      BY <2>1, <2>3 DEF IsPast, Iterating
    <3> QED
      BY <2>1, <3>1 DEF IsPast
  <2> QED
    BY <2>2, <2>3
<1>4. ASSUME NEW c \in Cases, CaseStep(c) PROVE IsPast(id)'
  <2>1. /\ c # i => /\ test'[i] = test[i] /\ caseAt'[i] = caseAt[i]
                    /\ dataAt'[i] = dataAt[i]
        /\ test'[i] \in {test[i], test[i] + 1}
    <3> USE <1>1 DEF Step, NextTest, LeaveTest
    <3>1. CASE SkipTest(c) \/ StartTest(c) \/ EndOfTests(c) \/ EndOfData(c)
      BY <3>1 DEF SkipTest, StartTest, EndOfTests, EndOfData, CaseUnchanged
    <3>2. CASE \/ StartCase(c) \/ StartupEnds(c)
              \/ ShutdownEnds(c) \/ ReportCase(c)
      BY <3>2 DEF StartCase, StartupEnds, ShutdownEnds, ReportCase
    <3>3. CASE SetupEnds(c) \/ BodyEnds(c)
      BY <3>3 DEF SetupEnds, BodyEnds
    <3>4. CASE TeardownEnds(c) \/ DataAreDone(c)
      BY <3>4 DEF TeardownEnds, DataAreDone
    <3>5. CASE DataSetupEnds(c)
      BY <3>5 DEF DataSetupEnds
    <3> QED
      BY <1>4, <3>1, <3>2, <3>3, <3>4, <3>5 DEF CaseStep
  <2>2. CASE c # i
    BY <1>2, <2>1, <2>2
  <2>3. CASE test'[i] > id[2]
    BY <2>3 DEF IsPast
  <2>4. CASE c = i /\ test'[i] <= id[2]
    <3>1. /\ test[i] = id[2] /\ test'[i] = test[i]
          /\ caseAt[i] \in {"teardown", "next_data", "wait_data"}
      BY <1>1, <2>1, <2>4 DEF IsPast, Iterating
    <3>2. ~TeardownEnds(i) /\ ~DataAreDone(i)
      BY <1>1, <3>1 DEF TeardownEnds, DataAreDone, LeaveTest, NextTest
    <3>3. EndOfData(i)
      BY <1>4, <2>4, <3>1, <3>2 DEF CaseStep, At, StartCase, StartupEnds, SkipTest,
              StartTest, SetupEnds, BodyEnds, EndOfTests,
              ShutdownEnds, ReportCase, DataSetupEnds
    <3> QED
      BY <1>1, <3>1, <3>3 DEF EndOfData, At, Step, IsPast, Iterating
  <2> QED
    BY <1>1, <2>1, <2>2, <2>3, <2>4
<1>5. ASSUME NEW c \in Cases, NEW d \in 1 .. NData, IteratedStep(c, d)
      PROVE  IsPast(id)'
  <2>1. UNCHANGED <<test, caseAt>>
    BY <1>5 DEF IteratedStep, CaseUnchanged, PushData, StartData, ISetupEnds,
                IBodyEnds, ITeardownEnds
  <2>2. \/ dataAt[c][d] \notin {"iteardown", "done", "lost"}
        \/ DataStep(c, d, "lost") \/ DataStep(c, d, "done")
    BY <1>5 DEF IteratedStep, PushData, StartData, ISetupEnds, IBodyEnds,
                ITeardownEnds, At, AtData
  <2>3. \E p : DataStep(c, d, p)
    BY <1>5 DEF IteratedStep, PushData, StartData, ISetupEnds, IBodyEnds,
                ITeardownEnds
  <2> QED
    BY <1>1, <2>1, <2>2, <2>3 DEF IsPast, Iterating, DataStep
<1> QED
  BY <1>1, <1>2, <1>3, <1>4, <1>5 DEF Next, MainStep, RunStart,
     WaitForCases, EndOfCases, EmitCompleteRun, Interrupted, Cancel,
     WorkerSignal, ThreadEnds, CaseUnchanged, Ended, vars

\* An iterator leaves its data only when all of them are done.
LEMMA IteratedStay ==
  ASSUME TestsTyped, PushedInOrder, DataAreIterated, Next
  PROVE  DataAreIterated'
<1> SUFFICES ASSUME NEW e \in Cases, NEW x \in 1 .. NData,
                    dataAt'[e][x] \in {"queued"} \cup BusyData
             PROVE  Iterating(e)'
  BY DEF DataAreIterated
<1> USE DEF TestsTyped, PlacesOK, DataAreIterated, Iterating, BusyData
<1>1. CASE UNCHANGED <<caseAt, dataAt>>
  BY <1>1
<1>2. CASE PushCase
  <2>1. dataAt' = dataAt /\ Iterating(e)
    BY <1>2 DEF PushCase
  <2>2. e # next
    BY <2>1 DEF PushedInOrder, Cases
  <2> QED
    BY <1>2, <2>1, <2>2 DEF PushCase, Step
<1>3. ASSUME NEW c \in Cases, CaseStep(c) PROVE Iterating(e)'
  <2> USE DEF At, Step, LeaveTest
  <2>1. CASE DataSetupEnds(c)
    BY <2>1 DEF DataSetupEnds
  <2>2. CASE DataAreDone(c)
    BY <2>2 DEF DataAreDone
  <2>3. CASE EndOfData(c)
    BY <2>3 DEF EndOfData
  <2>4. CASE StartCase(c) \/ StartupEnds(c) \/ SkipTest(c) \/ StartTest(c)
    BY <2>4 DEF StartCase, StartupEnds, SkipTest, StartTest
  <2>5. CASE SetupEnds(c) \/ BodyEnds(c) \/ TeardownEnds(c) \/ EndOfTests(c)
    BY <2>5 DEF SetupEnds, BodyEnds, TeardownEnds, EndOfTests
  <2>6. CASE ShutdownEnds(c) \/ ReportCase(c)
    BY <2>6 DEF ShutdownEnds, ReportCase
  <2> QED
    BY <1>3, <2>1, <2>2, <2>3, <2>4, <2>5, <2>6 DEF CaseStep
<1>4. ASSUME NEW c \in Cases, NEW d \in 1 .. NData, IteratedStep(c, d)
      PROVE  Iterating(e)'
  <2>1. UNCHANGED caseAt
    BY <1>4 DEF IteratedStep, PushData, StartData, ISetupEnds, IBodyEnds,
                ITeardownEnds
  <2>2. Iterating(c)
    BY <1>4 DEF IteratedStep, PushData, StartData, ISetupEnds, IBodyEnds,
                ITeardownEnds, At, AtData
  <2>3. \E p : DataStep(c, d, p)
    BY <1>4 DEF IteratedStep, PushData, StartData, ISetupEnds, IBodyEnds,
                ITeardownEnds
  <2> QED
    BY <2>1, <2>2, <2>3 DEF DataStep
<1> QED
  BY <1>1, <1>2, <1>3, <1>4 DEF Next, MainStep, RunStart,
     WaitForCases, EndOfCases, EmitCompleteRun, Interrupted, Cancel,
     WorkerSignal, ThreadEnds, CaseUnchanged, Ended, vars

-----------------------------------------------------------------------------
\* What a step does to the failures and successes of tests: nothing, or it ends
\* the body of one, or a thread that one has started.
Fails(id, o) == IF Critical(o) THEN failures \cup {id} ELSE failures

Judged(id) ==
  \E o :
    /\ ~IsPast(id)
    /\ failures' = Fails(id, o)
    /\ Critical(o) /\ ~Pooled(id) => Context(id) \in failed'
    /\ \/ successes' = successes
       \/ /\ successes' = successes \cup {id}
          /\ ~Pooled(id) => /\ ~Critical(o) /\ Context(id) \notin failed
                            /\ IsPast(id)'

FailedByThread(id) ==
  /\ successes' = successes
  /\ \/ failures' = failures
     \/ /\ failures' = failures \cup {id} /\ InBody(id)
        /\ ~Pooled(id) => Context(id) \in failed'

LEMMA OwnContext ==
  ASSUME NEW id, ~Pooled(id)
  PROVE  Current(id) = Context(id) /\ \A o : ~Exits(id, o)
  BY DEF Current, Exits, SameThread, Runner, Maker

\* An id that is past is in no body.
LEMMA PastIsNotInBody ==
  ASSUME TestsTyped, NEW id \in Ids, IsPast(id)
  PROVE  ~InBody(id)
  BY DEF TestsTyped, IsPast, InBody, Ids

LEMMA BodyJudges ==
  ASSUME TestsTyped, NEW c \in Cases, BodyEnds(c)
  PROVE  \E id \in Ids : Judged(id)
<1> SUFFICES ASSUME NEW id, id = TestId(c) PROVE id \in Ids /\ Judged(id)
  OBVIOUS
<1>1. id \in Ids /\ id[1] = c /\ id[2] = test[c] /\ id[3] = 0
  BY BoundAssumption DEF TestId, Ids, TestsTyped
<1>2. ~IsPast(id)
  BY <1>1 DEF BodyEnds, At, IsPast, TestsTyped
<1>3. IsPast(id)'
  BY <1>1 DEF BodyEnds, At, Step, IsPast, TestsTyped, PlacesOK
<1>4. PICK o \in Outcomes :
        /\ FailsTest(o, id)
        /\ failed' = FailedBy(o, Context(id))
        /\ Succeeds(id, Context(id) \notin failed /\ ~Critical(o))
  BY DEF BodyEnds
<1>5. failures' = Fails(id, o) /\ (Critical(o) => Context(id) \in failed')
  BY <1>4 DEF Fails, FailsTest, FailedBy
<1>6. \/ successes' = successes
      \/ /\ successes' = successes \cup {id}
         /\ ~Critical(o) /\ Context(id) \notin failed
  BY <1>4 DEF Succeeds
<1> QED
  BY <1>1, <1>2, <1>3, <1>5, <1>6 DEF Judged

LEMMA IBodyJudges ==
  ASSUME TestsTyped, DataAreIterated, NEW c \in Cases, NEW d \in 1 .. NData,
         IBodyEnds(c, d)
  PROVE  \E id \in Ids : Judged(id)
<1> SUFFICES ASSUME NEW id, id = DataId(c, d) PROVE id \in Ids /\ Judged(id)
  OBVIOUS
<1>1. id \in Ids /\ id[1] = c /\ id[2] = test[c] /\ id[3] = d /\ d # 0
  BY BoundAssumption DEF DataId, Ids, TestsTyped
<1>2. dataAt[c][d] = "ibody" /\ Iterating(c)
  BY DEF IBodyEnds, AtData, DataAreIterated, BusyData
<1>3. ~IsPast(id)
  BY <1>1, <1>2 DEF IsPast, TestsTyped
<1>4. PICK o \in Outcomes :
        /\ EndsWith(id, o) /\ FailsTest(o, id)
        /\ IF Exits(id, o)
           THEN successes' = successes
           ELSE /\ DataStep(c, d, "iteardown")
                /\ Succeeds(id, Context(id) \notin failed /\ ~Critical(o))
  BY DEF IBodyEnds
<1>5. failures' = Fails(id, o)
  BY <1>4 DEF Fails, FailsTest
<1>6. Critical(o) /\ ~Pooled(id) => Context(id) \in failed'
  BY <1>4, OwnContext DEF EndsWith, FailedBy
<1>7. \/ successes' = successes
      \/ /\ successes' = successes \cup {id}
         /\ ~Exits(id, o) /\ ~Critical(o) /\ Context(id) \notin failed
  BY <1>4 DEF Succeeds
<1>8. ~Exits(id, o) => IsPast(id)'
  <2>1. UNCHANGED <<test, caseAt>>
    BY DEF IBodyEnds, CaseUnchanged
  <2>2. ~Exits(id, o) => dataAt'[c][d] = "iteardown"
    BY <1>4 DEF DataStep, TestsTyped
  <2> QED
    BY <1>1, <1>2, <2>1, <2>2 DEF IsPast, Iterating, TestsTyped
<1> QED
  BY <1>1, <1>3, <1>5, <1>6, <1>7, <1>8 DEF Judged

LEMMA ThreadFails ==
  ASSUME NEW id \in Threaded, ThreadEnds(id)
  PROVE  FailedByThread(id)
<1>1. PICK o \in Outcomes :
        /\ failed' = FailedByExit(o, <<"user", id[1], id[2], id[3]>>, Current(id))
        /\ failures' = IF Critical(o) /\ InBody(id) THEN failures \cup {id}
                                                    ELSE failures
  BY DEF ThreadEnds
<1>2. Critical(o) /\ ~Pooled(id) => Context(id) \in failed'
  BY <1>1, OwnContext DEF FailedByExit
<1>3. successes' = successes
  BY DEF ThreadEnds
<1> QED
  BY <1>1, <1>2, <1>3 DEF FailedByThread

LEMMA StepJudges ==
  ASSUME TestsTyped, DataAreIterated, Next
  PROVE  \/ UNCHANGED <<failures, successes>>
         \/ \E id \in Ids : Judged(id) \/ FailedByThread(id)
<1>1. ASSUME NEW c \in Cases, CaseStep(c)
      PROVE  UNCHANGED <<failures, successes>> \/ BodyEnds(c)
  BY <1>1 DEF CaseStep, StartCase, StartupEnds, SkipTest, StartTest, SetupEnds,
     TeardownEnds, EndOfTests, ShutdownEnds, ReportCase, DataSetupEnds,
     EndOfData, DataAreDone
<1>2. ASSUME NEW c \in Cases, NEW d \in 1 .. NData, IteratedStep(c, d)
      PROVE  UNCHANGED <<failures, successes>> \/ IBodyEnds(c, d)
  BY <1>2 DEF IteratedStep, PushData, StartData, ISetupEnds, ITeardownEnds
<1>3. Threaded \subseteq Ids
  BY ThreadedAssumption DEF TestIds, Ids
<1> QED
  BY <1>1, <1>2, <1>3, BodyJudges, IBodyJudges, ThreadFails DEF Next, MainStep,
     RunStart, PushCase, WaitForCases, EndOfCases, EmitCompleteRun, Interrupted,
     Cancel, WorkerSignal, Ended, vars

LEMMA FailureInit == Init => FailureInv
<1>1. Init => TestsTyped /\ DataAreIterated
  BY PlacesInit DEF Init, TestsTyped, DataPlaces, DataAreIterated, BusyData
<1>2. Init => HistoryIsOfTests /\ FailuresAreKnown /\ SuccessesArePast
  BY DEF Init, HistoryIsOfTests, FailuresAreKnown, SuccessesArePast
<1> QED
  BY <1>1, <1>2 DEF FailureInv

LEMMA FailedStays == Next => failed \subseteq failed'
<1> SUFFICES ASSUME Next PROVE failed \subseteq failed'
  OBVIOUS
<1>1. ASSUME NEW c \in Cases, CaseStep(c) PROVE failed \subseteq failed'
  BY <1>1 DEF CaseStep, FailedBy, StartCase, StartupEnds, SkipTest, StartTest,
     SetupEnds, BodyEnds, TeardownEnds, EndOfTests, ShutdownEnds, ReportCase,
     DataSetupEnds, EndOfData, DataAreDone
<1>2. ASSUME NEW c \in Cases, NEW d \in 1 .. NData, IteratedStep(c, d)
      PROVE  failed \subseteq failed'
  BY <1>2 DEF IteratedStep, EndsWith, FailedBy, FailedByExit, PushData,
              StartData, ISetupEnds, IBodyEnds, ITeardownEnds
<1>3. ASSUME NEW id \in Threaded, ThreadEnds(id) PROVE failed \subseteq failed'
  BY <1>3 DEF ThreadEnds, FailedByExit
<1> QED
  BY <1>1, <1>2, <1>3 DEF Next, MainStep,
     RunStart, PushCase, WaitForCases, EndOfCases, EmitCompleteRun, Interrupted,
     Cancel, WorkerSignal, Ended, vars

LEMMA FailureStep == FlagInv /\ FailureInv /\ [Next]_vars => FailureInv'
<1> SUFFICES ASSUME FlagInv, FailureInv, [Next]_vars PROVE FailureInv'
  OBVIOUS
<1> USE DEF FailureInv
<1>1. CASE UNCHANGED vars
  BY <1>1 DEF vars, TestsTyped, PlacesOK, HistoryIsOfTests, DataAreIterated,
     Iterating, FailuresAreKnown, SuccessesArePast, IsPast
<1>2. CASE Next
  <2>1. TestsTyped' /\ DataAreIterated'
    BY <1>2, TestsMove, IteratedStay DEF FlagInv
  <2>2. \A id \in Ids : IsPast(id) => IsPast(id)'
    BY <1>2, PastStays DEF FlagInv
  <2>3. failed \subseteq failed'
    BY <1>2, FailedStays
  <2>4. CASE UNCHANGED <<failures, successes>>
    BY <2>1, <2>2, <2>3, <2>4 DEF HistoryIsOfTests, FailuresAreKnown,
       SuccessesArePast
  <2>5. ASSUME NEW id \in Ids, Judged(id) PROVE FailureInv'
    <3>1. PICK o :
            /\ ~IsPast(id)
            /\ failures' = Fails(id, o)
            /\ Critical(o) /\ ~Pooled(id) => Context(id) \in failed'
            /\ \/ successes' = successes
               \/ /\ successes' = successes \cup {id}
                  /\ ~Pooled(id) => /\ ~Critical(o) /\ Context(id) \notin failed
                                    /\ IsPast(id)'
      BY <2>5 DEF Judged
    <3>2. HistoryIsOfTests' /\ FailuresAreKnown'
      BY <2>3, <3>1 DEF HistoryIsOfTests, FailuresAreKnown, Fails
    <3>3. ASSUME NEW s \in successes', ~Pooled(s)
          PROVE  s \notin failures' /\ IsPast(s)'
      <4>1. CASE s \in successes /\ s # id
        BY <2>2, <3>1, <3>3, <4>1 DEF SuccessesArePast, HistoryIsOfTests, Fails
      <4>2. CASE s = id
        <5>1. s \notin successes
          BY <3>1, <3>3, <4>2 DEF SuccessesArePast
        <5>2. ~Critical(o) /\ Context(id) \notin failed /\ IsPast(id)'
          BY <3>1, <3>3, <4>2, <5>1
        <5> QED
          BY <3>1, <3>3, <4>2, <5>2 DEF FailuresAreKnown, Fails
      <4> QED
        BY <3>1, <3>3, <4>1, <4>2
    <3> QED
      BY <2>1, <3>2, <3>3 DEF SuccessesArePast
  <2>6. ASSUME NEW id \in Ids, FailedByThread(id) PROVE FailureInv'
    <3>1. HistoryIsOfTests' /\ FailuresAreKnown'
      BY <2>3, <2>6 DEF FailedByThread, HistoryIsOfTests, FailuresAreKnown
    <3>2. SuccessesArePast'
      BY <2>2, <2>6, PastIsNotInBody DEF FailedByThread, SuccessesArePast,
         HistoryIsOfTests
    <3> QED
      BY <2>1, <3>1, <3>2
  <2> QED
    BY <1>2, <2>4, <2>5, <2>6, StepJudges
<1> QED
  BY <1>1, <1>2

\* Whenever a thread that a test has started fails, before or while its function
\* is judged, the test is not registered as a success (cut_test_context_failed()
\* and cut-test-context.c:867), unless it is an iterated test of a pool, whose
\* context is not the one its threads report to.
THEOREM ThreadFailureTheorem == Spec => []ThreadFailureIsNotSuccess
<1>1. Init => FlagInv /\ FailureInv
  BY FlagInit, FailureInit
<1>2. FlagInv /\ FailureInv => ThreadFailureIsNotSuccess
  BY DEF FailureInv, SuccessesArePast, ThreadFailureIsNotSuccess
<1> QED
  BY <1>1, <1>2, FlagStep, FailureStep, PTL DEF Spec

-----------------------------------------------------------------------------
\* What a test says and what its case is reported as.  Between the two, the
\* failure is in one flag after another: in the test's context while the
\* function runs, in the flag of the test or of the iterator until that is left,
\* then in the flag of the case.
Remembered(id) ==
  \/ test[id[1]] > id[2] /\ ~ok.case[id[1]]
  \/ /\ test[id[1]] = id[2] /\ id[3] = 0
     /\ \/ caseAt[id[1]] = "body" /\ Context(id) \in failed
        \/ caseAt[id[1]] = "teardown" /\ ~ok.test[id[1]]
  \/ /\ test[id[1]] = id[2] /\ id[3] > 0 /\ Iterating(id[1])
     /\ \/ dataAt[id[1]][id[3]] = "ibody" /\ Context(id) \in failed
        \/ ~ok.iter[id[1]]

FailuresAreRemembered == \A id \in failures : ~Pooled(id) => Remembered(id)

RememberInv == FlagInv /\ FailureInv /\ FailuresAreRemembered

\* What is written to a flag is what it says afterwards.
LEMMA JudgedFlags ==
  ASSUME FlagsTyped, NEW c \in Cases, NEW b
  PROVE  /\ ok' = [ok EXCEPT !.test[c] = b] /\ ok'.test[c] => b
         /\ ok' = [ok EXCEPT !.iter[c] = @ /\ b] /\ ok'.iter[c] => b
  BY DEF FlagsTyped

LEMMA LeftFlags ==
  ASSUME FlagsTyped, TestsTyped, NEW c \in Cases, NEW b, LeaveTest(c, b)
  PROVE  /\ test'[c] = test[c] + 1
         /\ ok'.case[c] => ok.case[c] /\ b
         /\ \A i \in Cases \ {c} :
              /\ test'[i] = test[i] /\ caseAt'[i] = caseAt[i]
              /\ ok'.case[i] = ok.case[i]
         /\ ok'.test = ok.test /\ ok'.iter = ok.iter
<1>1. test' = [test EXCEPT ![c] = @ + 1] /\ Step(c, "next_test")
  BY DEF LeaveTest, NextTest
<1>2. ok' = [ok EXCEPT !.case[c] = @ /\ b]
  BY DEF LeaveTest
<1> QED
  BY <1>1, <1>2 DEF FlagsTyped, TestsTyped, PlacesOK, Step

\* What a step of another case does to what is remembered of a test.
LEMMA OthersKeepFlags ==
  ASSUME FlagsTyped, TestsTyped, NEW c \in Cases, NEW i \in Cases, c # i,
         CaseStep(c)
  PROVE  /\ test'[i] = test[i] /\ caseAt'[i] = caseAt[i]
         /\ dataAt'[i] = dataAt[i] /\ ok'.case[i] = ok.case[i]
         /\ ok'.test[i] = ok.test[i] /\ ok'.iter[i] = ok.iter[i]
<1> USE DEF FlagsTyped, TestsTyped, PlacesOK, Step, NextTest
<1>1. CASE StartCase(c) \/ SkipTest(c) \/ EndOfTests(c) \/ ReportCase(c)
           \/ EndOfData(c)
  BY <1>1 DEF StartCase, SkipTest, EndOfTests, ReportCase, EndOfData,
     CaseUnchanged
<1>2. CASE StartupEnds(c)
  BY <1>2 DEF StartupEnds
<1>3. CASE StartTest(c)
  BY <1>3 DEF StartTest
<1>4. CASE SetupEnds(c)
  BY <1>4 DEF SetupEnds
<1>5. CASE BodyEnds(c)
  BY <1>5 DEF BodyEnds
<1> DEFINE Kept ==
       /\ test'[i] = test[i] /\ caseAt'[i] = caseAt[i]
       /\ dataAt'[i] = dataAt[i] /\ ok'.case[i] = ok.case[i]
       /\ ok'.test[i] = ok.test[i] /\ ok'.iter[i] = ok.iter[i]
<1>9. ASSUME NEW b, LeaveTest(c, b), UNCHANGED dataAt PROVE Kept
  <2>1. /\ \A j \in Cases \ {c} :
             /\ test'[j] = test[j] /\ caseAt'[j] = caseAt[j]
             /\ ok'.case[j] = ok.case[j]
        /\ ok'.test = ok.test /\ ok'.iter = ok.iter
    BY <1>9, LeftFlags
  <2> QED
    BY <1>9, <2>1
<1>6. CASE TeardownEnds(c) \/ DataAreDone(c)
  BY <1>6, <1>9 DEF TeardownEnds, DataAreDone
<1>7. CASE ShutdownEnds(c)
  BY <1>7 DEF ShutdownEnds
<1>8. CASE DataSetupEnds(c)
  <2>1. CASE LeaveTest(c, FALSE) /\ UNCHANGED dataAt
    BY <1>9, <2>1
  <2>2. CASE /\ ok' = [ok EXCEPT !.iter[c] = TRUE]
             /\ dataAt' = [dataAt EXCEPT ![c] = [d \in 1 .. NData |-> "none"]]
             /\ Step(c, "next_data") /\ UNCHANGED test
    BY <2>2
  <2>3. PICK o \in Outcomes :
          IF Critical(o)
          THEN LeaveTest(c, FALSE) /\ UNCHANGED dataAt
          ELSE /\ ok' = [ok EXCEPT !.iter[c] = TRUE]
               /\ dataAt' = [dataAt EXCEPT ![c] = [d \in 1 .. NData |-> "none"]]
               /\ Step(c, "next_data")
               /\ UNCHANGED test
    BY <1>8, Zenon DEF DataSetupEnds
  <2> QED
    BY <2>1, <2>2, <2>3
<1> QED
  BY <1>1, <1>2, <1>3, <1>4, <1>5, <1>6, <1>7, <1>8 DEF CaseStep

\* The thread of the case hands a failure from flag to flag: of its own startup
\* there is none yet, and a test or an iterator is left with its flag.
LEMMA CaseRemembers ==
  ASSUME FlagsTyped, TestsTyped, FreshFlagIsSet, NEW id \in Ids,
         Remembered(id), failed \subseteq failed', CaseStep(id[1])
  PROVE  Remembered(id)'
<1> DEFINE c == id[1]
<1>1. c \in Cases /\ id[2] \in Nat /\ id[3] \in 0 .. NData
  BY DEF Ids
<1> USE <1>1 DEF FlagsTyped, TestsTyped, PlacesOK, Step, At, Remembered,
        Iterating, NextTest, LeaveTest
<1>0. CASE test[c] > id[2]
  <2>1. ~ok.case[c]
    BY <1>0
  <2>2. test'[c] > id[2]
    BY <1>0 DEF CaseStep, StartCase, StartupEnds, SkipTest, StartTest,
       SetupEnds, BodyEnds, TeardownEnds, EndOfTests, ShutdownEnds, ReportCase,
       DataSetupEnds, EndOfData, DataAreDone, CaseUnchanged
  <2>3. ~StartupEnds(c)
    BY <2>1 DEF FreshFlagIsSet, StartupEnds
  <2>4. ~ok'.case[c]
    <3>1. CASE UNCHANGED ok
      BY <2>1, <3>1
    <3>2. CASE StartTest(c) \/ SetupEnds(c) \/ BodyEnds(c)
      BY <2>1, <3>2 DEF StartTest, SetupEnds, BodyEnds
    <3>3. CASE TeardownEnds(c) \/ DataAreDone(c) \/ DataSetupEnds(c)
      <4>1. ASSUME NEW b, LeaveTest(c, b) PROVE ~ok'.case[c]
        BY <2>1, <4>1, LeftFlags
      <4>2. CASE ok' = [ok EXCEPT !.iter[c] = TRUE]
        BY <2>1, <4>2
      <4> QED
        BY <3>3, <4>1, <4>2 DEF TeardownEnds, DataAreDone, DataSetupEnds
    <3>4. CASE ShutdownEnds(c)
      BY <2>1, <3>4 DEF ShutdownEnds
    <3> QED
      BY <2>3, <3>1, <3>2, <3>3, <3>4 DEF CaseStep, StartCase, SkipTest,
         EndOfTests, ReportCase, EndOfData
  <2> QED
    BY <2>2, <2>4
<1>2. CASE test[c] = id[2] /\ id[3] = 0 /\ caseAt[c] = "body"
  <2>1. BodyEnds(c) /\ Context(id) \in failed
    BY <1>2 DEF CaseStep, StartCase, StartupEnds, SkipTest, StartTest,
       SetupEnds, TeardownEnds, EndOfTests, ShutdownEnds, ReportCase,
       DataSetupEnds, EndOfData, DataAreDone
  <2>2. TestId(c)[1] = c /\ Context(TestId(c)) = Context(id)
    BY <1>2 DEF TestId, Context
  <2>3. ~ok'.test[c]
    BY <2>1, <2>2, JudgedFlags DEF BodyEnds
  <2>4. caseAt'[c] = "teardown" /\ test' = test
    BY <2>1 DEF BodyEnds
  <2> QED
    BY <1>2, <2>3, <2>4
<1>3. CASE test[c] = id[2] /\ id[3] = 0 /\ caseAt[c] = "teardown"
  <2>1. TeardownEnds(c) /\ ~ok.test[c]
    BY <1>3 DEF CaseStep, StartCase, StartupEnds, SkipTest, StartTest,
       SetupEnds, BodyEnds, EndOfTests, ShutdownEnds, ReportCase,
       DataSetupEnds, EndOfData, DataAreDone
  <2>2. test'[c] > id[2] /\ ~ok'.case[c]
    BY <1>3, <2>1 DEF TeardownEnds
  <2> QED
    BY <2>2
<1>4. CASE test[c] = id[2] /\ id[3] > 0 /\ Iterating(c)
  <2>1. EndOfData(c) \/ DataAreDone(c)
    BY <1>4 DEF CaseStep, StartCase, StartupEnds, SkipTest, StartTest,
       SetupEnds, BodyEnds, TeardownEnds, EndOfTests, ShutdownEnds, ReportCase,
       DataSetupEnds
  <2>2. CASE EndOfData(c)
    BY <1>4, <2>2 DEF EndOfData, CaseUnchanged
  <2>3. CASE DataAreDone(c)
    <3>1. id[3] \in 1 .. NData
      BY <1>4, BoundAssumption
    <3>2. ~ok.iter[c]
      <4>1. dataAt[c][id[3]] = "ibody" \/ ~ok.iter[c]
        BY <1>4
      <4>2. dataAt[c][id[3]] # "ibody"
        BY <2>3, <3>1 DEF DataAreDone
      <4> QED
        BY <4>1, <4>2
    <3>3. LeaveTest(c, ok.iter[c])
      BY <2>3 DEF DataAreDone
    <3>4. test'[c] > id[2] /\ ~ok'.case[c]
      BY <1>4, <3>2, <3>3, LeftFlags
    <3> QED
      BY <3>4
  <2> QED
    BY <2>1, <2>2, <2>3
<1> QED
  BY <1>0, <1>2, <1>3, <1>4

\* The flag of an iterator is only lowered while it has tests to run.
LEMMA IteratedRemembers ==
  ASSUME FlagsTyped, TestsTyped, NEW id \in Ids, ~Pooled(id), Remembered(id),
         failed \subseteq failed',
         NEW c \in Cases, NEW d \in 1 .. NData, IteratedStep(c, d)
  PROVE  Remembered(id)'
<1>1. id[1] \in Cases /\ id[2] \in Nat /\ id[3] \in 0 .. NData
  BY DEF Ids
<1>2. UNCHANGED <<test, caseAt>>
  BY DEF IteratedStep, CaseUnchanged, PushData, StartData, ISetupEnds,
         IBodyEnds, ITeardownEnds
<1>3. /\ ok'.case = ok.case /\ ok'.test = ok.test
      /\ \A e \in Cases : ok'.iter[e] => ok.iter[e]
  <2>1. CASE UNCHANGED ok
    BY <2>1
  <2>2. CASE ISetupEnds(c, d) \/ IBodyEnds(c, d)
    BY <2>2 DEF ISetupEnds, IBodyEnds, FlagsTyped
  <2> QED
    BY <2>1, <2>2 DEF IteratedStep, PushData, StartData, ITeardownEnds
<1>4. CASE id[1] = c /\ id[3] = d /\ dataAt[c][d] = "ibody"
           /\ test[c] = id[2] /\ Context(id) \in failed /\ Iterating(c)
  <2>1. IBodyEnds(c, d) \/ PushData(c, d)
    BY <1>4 DEF IteratedStep, AtData, StartData, ISetupEnds, ITeardownEnds
  <2>2. ~PushData(c, d)
    BY <1>4 DEF PushData
  <2>3. Context(DataId(c, d)) = Context(id) /\ DataId(c, d) = id
    BY <1>4 DEF DataId, Context, Ids
  <2>4. ~ok'.iter[c]
    BY <1>4, <2>1, <2>2, <2>3, OwnContext, JudgedFlags DEF IBodyEnds
  <2> QED
    BY <1>1, <1>2, <1>4, <2>4 DEF Remembered, Iterating
<1>5. CASE ~(id[1] = c /\ id[3] = d)
  <2>1. \E p : DataStep(c, d, p)
    BY DEF IteratedStep, PushData, StartData, ISetupEnds, IBodyEnds,
           ITeardownEnds
  <2>2. id[3] > 0 => dataAt'[id[1]][id[3]] = dataAt[id[1]][id[3]]
    BY <1>1, <1>5, <2>1 DEF DataStep, TestsTyped
  <2> QED
    BY <1>1, <1>2, <1>3, <2>2 DEF Remembered, Iterating
<1> QED
  BY <1>1, <1>2, <1>3, <1>4, <1>5 DEF Remembered, Iterating

LEMMA RememberedStays ==
  ASSUME FlagInv, FailureInv, Next, NEW id \in Ids, ~Pooled(id),
         Remembered(id)
  PROVE  Remembered(id)'
<1> USE DEF FlagInv, FailureInv
<1>1. id[1] \in Cases /\ failed \subseteq failed'
  BY FailedStays DEF Ids
<1>2. CASE UNCHANGED <<test, caseAt, dataAt, ok>>
  BY <1>1, <1>2 DEF Remembered, Iterating
<1>3. CASE PushCase
  <2>1. UNCHANGED <<test, dataAt, ok>>
    BY <1>3 DEF PushCase
  <2>2. id[1] = next => caseAt[id[1]] = "none"
    BY <1>1, <1>3 DEF PushedInOrder, PushCase, Cases
  <2>3. id[1] # next => caseAt'[id[1]] = caseAt[id[1]]
    BY <1>1, <1>3 DEF PushCase, Step, PlacesOK
  <2> QED
    BY <1>1, <2>1, <2>2, <2>3 DEF Remembered, Iterating
<1>4. ASSUME NEW c \in Cases, CaseStep(c) PROVE Remembered(id)'
  <2>1. CASE c = id[1]
    BY <1>1, <1>4, <2>1, CaseRemembers
  <2>2. CASE c # id[1]
    BY <1>1, <1>4, <2>2, OthersKeepFlags DEF Remembered, Iterating
  <2> QED
    BY <2>1, <2>2
<1>5. ASSUME NEW c \in Cases, NEW d \in 1 .. NData, IteratedStep(c, d)
      PROVE  Remembered(id)'
  BY <1>1, <1>5, IteratedRemembers
<1> QED
  BY <1>2, <1>3, <1>4, <1>5 DEF Next, MainStep, RunStart, WaitForCases,
     EndOfCases, EmitCompleteRun, Interrupted, Cancel, WorkerSignal, ThreadEnds,
     CaseUnchanged, Ended, vars

\* A failure is remembered from the step on that makes it one.
LEMMA NewIsRemembered ==
  ASSUME FlagInv, FailureInv, Next, NEW id \in failures', id \notin failures,
         ~Pooled(id)
  PROVE  Remembered(id)'
<1> USE DEF FlagInv, FailureInv, FlagsTyped, TestsTyped, PlacesOK
<1>1. ASSUME NEW c \in Cases, BodyEnds(c) PROVE Remembered(id)'
  <2>1. PICK o \in Outcomes :
          /\ FailsTest(o, TestId(c))
          /\ ok' = [ok EXCEPT !.test[c] =
                      Context(TestId(c)) \notin failed /\ ~Critical(o)]
    BY <1>1 DEF BodyEnds
  <2>2. id = TestId(c) /\ Critical(o)
    BY <2>1 DEF FailsTest
  <2>3. ~ok'.test[c]
    BY <2>1, <2>2, JudgedFlags
  <2>4. test'[c] = test[c] /\ caseAt'[c] = "teardown"
    BY <1>1 DEF BodyEnds, Step
  <2> QED
    BY <2>2, <2>3, <2>4 DEF Remembered, TestId
<1>2. ASSUME NEW c \in Cases, NEW d \in 1 .. NData, IBodyEnds(c, d)
      PROVE  Remembered(id)'
  <2>1. id = DataId(c, d)
    BY <1>2 DEF IBodyEnds, FailsTest
  <2>2. ~ok'.iter[c]
    BY <1>2, <2>1, OwnContext, JudgedFlags DEF IBodyEnds, FailsTest
  <2>3. UNCHANGED <<test, caseAt>> /\ Iterating(c)
    BY <1>2 DEF IBodyEnds, CaseUnchanged, AtData, DataAreIterated, BusyData
  <2> QED
    BY <2>1, <2>2, <2>3 DEF Remembered, DataId, Iterating
<1>3. ASSUME NEW t \in Threaded, ThreadEnds(t) PROVE Remembered(id)'
  <2>1. id = t /\ InBody(id) /\ id \in Ids
    BY <1>3, ThreadedAssumption DEF ThreadEnds, TestIds, Ids
  <2>2. Context(id) \in failed'
    BY <1>3, <2>1, OwnContext DEF ThreadEnds, FailedByExit
  <2>3. UNCHANGED <<test, caseAt, dataAt>>
    BY <1>3 DEF ThreadEnds, CaseUnchanged
  <2>4. id[3] > 0 => Iterating(id[1])
    BY <2>1 DEF InBody, Ids, DataAreIterated, BusyData
  <2> QED
    BY <2>1, <2>2, <2>3, <2>4 DEF Remembered, InBody, Iterating, Ids
<1>4. ASSUME NEW c \in Cases, CaseStep(c)
      PROVE  UNCHANGED failures \/ BodyEnds(c)
  BY <1>4 DEF CaseStep, StartCase, StartupEnds, SkipTest, StartTest, SetupEnds,
     TeardownEnds, EndOfTests, ShutdownEnds, ReportCase, DataSetupEnds,
     EndOfData, DataAreDone
<1>5. ASSUME NEW c \in Cases, NEW d \in 1 .. NData, IteratedStep(c, d)
      PROVE  UNCHANGED failures \/ IBodyEnds(c, d)
  BY <1>5 DEF IteratedStep, PushData, StartData, ISetupEnds, ITeardownEnds
<1> QED
  BY <1>1, <1>2, <1>3, <1>4, <1>5 DEF Next, MainStep, RunStart, PushCase,
     WaitForCases, EndOfCases, EmitCompleteRun, Interrupted, Cancel,
     WorkerSignal, Ended, vars

\* However the threads of a test, of its iterator and of the cases interleave at
\* the flags between cut_test_run() and the one the cases share without a lock
\* (cut-test-suite.c:240), no case that failed is reported with success, unless
\* by an iterated test of a pool alone, whose failures may be lost.
THEOREM FailedCaseTheorem == Spec => []FailedCaseIsReported
<1>1. Init => RememberInv
  <2>1. Init => FlagInv /\ FailuresAreRemembered
    BY FlagInit DEF Init, FailuresAreRemembered
  <2>2. Init => FailureInv
    BY FailureInit
  <2> QED
    BY <2>1, <2>2 DEF RememberInv
<1>2. RememberInv /\ [Next]_vars => RememberInv'
  <2> SUFFICES ASSUME RememberInv, [Next]_vars PROVE FailuresAreRemembered'
    BY FlagStep, FailureStep DEF RememberInv
  <2>1. CASE UNCHANGED vars
    BY <2>1 DEF vars, RememberInv, FailuresAreRemembered, Remembered, Iterating
  <2>2. CASE Next
    <3> SUFFICES ASSUME NEW id \in failures', ~Pooled(id)
                 PROVE  Remembered(id)'
      BY DEF FailuresAreRemembered
    <3>1. CASE id \in failures
      <4>1. id \in Ids /\ Remembered(id)
        BY <3>1 DEF RememberInv, FailureInv, HistoryIsOfTests,
                    FailuresAreRemembered
      <4> QED
        BY <2>2, <4>1, RememberedStays DEF RememberInv
    <3> QED
      BY <2>2, <3>1, NewIsRemembered DEF RememberInv
  <2> QED
    BY <2>1, <2>2
<1>3. RememberInv => FailedCaseIsReported
  <2> SUFFICES ASSUME RememberInv, NEW c \in Cases, reported[c] = "success"
               PROVE  /\ ok.case[c]
                      /\ \A id \in failures : id[1] = c => Pooled(id)
    BY DEF FailedCaseIsReported
  <2>1. caseAt[c] = "done" /\ ok.case[c]
    BY DEF RememberInv, FlagInv, ReportedIsDone
  <2>2. \A id \in failures : ~Pooled(id) => Remembered(id)
    BY DEF RememberInv, FailuresAreRemembered
  <2>3. \A id \in failures : id[1] = c => ~Remembered(id)
    BY <2>1 DEF Remembered, Iterating
  <2> QED
    BY <2>1, <2>2, <2>3
<1> QED
  BY <1>1, <1>2, <1>3, PTL DEF Spec

-----------------------------------------------------------------------------
\* A run in threads implements the safety part of CutRunPromise.  The hard step
\* is EmitCompleteRun: the verdict is taken from the shared flag and from the
\* counters, neither of which knows everything.  Nothing is in them unless
\* something critical was reported (CleanUnlessBad); and what was reported is in
\* a counter, in the shared flag, or in the flag of a case whose thread has still
\* to write the shared one (BadIsKept), for which the main thread has waited
\* (CompleteIsLast).

FlagsAreSet ==
  ok.suite /\ \A c \in Cases : ok.case[c] /\ ok.test[c] /\ ok.iter[c]

Clean == ~counted /\ failed = {} /\ FlagsAreSet

\* Before the run starts no thread has anything to report.
Idle ==
  /\ live = {}
  /\ \A c \in Cases : /\ caseAt[c] = "none"
                      /\ \A d \in 1 .. NData : dataAt[c][d] = "none"

HistoryTyped == bad \in BOOLEAN /\ canceled \in BOOLEAN /\ counted \in BOOLEAN
                  /\ interrupted \in BOOLEAN

ReadyIsIdle == main = "ready" => Idle

InterruptCancels == interrupted => canceled

CleanUnlessBad == main # "complete" /\ ~bad => Clean

BadIsKept ==
  bad => \/ counted
         \/ ~ok.suite
         \/ \E c \in Cases : ~ok.case[c] /\ caseAt[c] \in Working

PromiseInv ==
  /\ FlagInv /\ CompleteIsLast /\ HistoryTyped
  /\ ReadyIsIdle /\ InterruptCancels /\ CleanUnlessBad /\ BadIsKept

-----------------------------------------------------------------------------
\* A run that nothing critical was reported to keeps its flags.
LEMMA FlagsStaySet ==
  ASSUME FlagsTyped, FlagsAreSet, NEW c \in Cases, NEW b, b,
         \/ ok' = ok
         \/ ok' = [ok EXCEPT !.suite = b]
         \/ ok' = [ok EXCEPT !.case[c] = b]
         \/ ok' = [ok EXCEPT !.test[c] = b]
         \/ ok' = [ok EXCEPT !.iter[c] = b]
  PROVE  FlagsAreSet'
  BY DEF FlagsTyped, FlagsAreSet

LEMMA CleanCaseStep ==
  ASSUME FlagsTyped, HistoryTyped, Clean, main # "complete", ~bad',
         NEW c \in Cases, CaseStep(c)
  PROVE  Clean'
<1> USE DEF Clean
<1>1. CASE \/ SkipTest(c) \/ StartCase(c) \/ EndOfTests(c) \/ EndOfData(c)
           \/ ReportCase(c)
  BY <1>1 DEF SkipTest, StartCase, EndOfTests, EndOfData, ReportCase, NoReport,
              FlagsAreSet
<1>2. CASE StartTest(c)
  BY <1>2, FlagsStaySet DEF StartTest, NoReport
<1>3. CASE StartupEnds(c)
  BY <1>3, FlagsStaySet DEF StartupEnds, Report, HistoryTyped
<1>4. CASE SetupEnds(c)
  BY <1>4, FlagsStaySet DEF SetupEnds, Report, HistoryTyped, FailedBy
<1>5. CASE BodyEnds(c)
  BY <1>5, FlagsStaySet DEF BodyEnds, Report, HistoryTyped, FailedBy
<1>6. CASE TeardownEnds(c)
  <2>1. ~counted' /\ failed' = {}
    BY <1>6 DEF TeardownEnds, Report, HistoryTyped, FailedBy
  <2>2. FlagsAreSet'
    BY <1>6, FlagsStaySet DEF TeardownEnds, LeaveTest, FlagsAreSet
  <2> QED
    BY <2>1, <2>2
<1>7. CASE ShutdownEnds(c)
  BY <1>7, FlagsStaySet DEF ShutdownEnds, SuiteSuccess, Report, HistoryTyped,
                            FlagsAreSet
<1>8. CASE DataSetupEnds(c)
  BY <1>8, FlagsStaySet DEF DataSetupEnds, HistoryTyped, FailedBy
<1>9. CASE DataAreDone(c)
  BY <1>9, FlagsStaySet DEF DataAreDone, LeaveTest, NoReport, FlagsAreSet
<1> QED
  BY <1>1, <1>2, <1>3, <1>4, <1>5, <1>6, <1>7, <1>8, <1>9 DEF CaseStep

LEMMA CleanDataStep ==
  ASSUME FlagsTyped, HistoryTyped, Clean, main # "complete", ~bad',
         NEW c \in Cases, NEW d \in 1 .. NData, IteratedStep(c, d)
  PROVE  Clean'
<1> USE DEF Clean
<1>0. ASSUME NEW id, NEW o, EndsWith(id, o)
      PROVE  ~counted' /\ failed' = {} /\ ~Critical(o)
  BY <1>0 DEF EndsWith, Report, HistoryTyped, FailedBy, FailedByExit
<1>1. CASE PushData(c, d) \/ StartData(c, d)
  BY <1>1 DEF PushData, StartData, NoReport, FlagsAreSet
<1>2. CASE ISetupEnds(c, d)
  BY <1>2, <1>0 DEF ISetupEnds, FlagsAreSet
<1>3. CASE IBodyEnds(c, d)
  BY <1>3, <1>0, FlagsStaySet DEF IBodyEnds, FlagsAreSet
<1>4. CASE ITeardownEnds(c, d)
  BY <1>4, <1>0 DEF ITeardownEnds, FlagsAreSet
<1> QED
  BY <1>1, <1>2, <1>3, <1>4 DEF IteratedStep

-----------------------------------------------------------------------------
\* Nothing moves before the main thread starts.
LEMMA OnlyTheStart ==
  ASSUME ReadyIsIdle, main = "ready", Next
  PROVE  RunStart \/ UNCHANGED vars
<1>1. Idle
  BY DEF ReadyIsIdle
<1>2. ASSUME NEW c \in Cases PROVE ~CaseStep(c)
  BY <1>1 DEF Idle, At, CaseStep, StartCase, StartupEnds, SkipTest,
              StartTest, SetupEnds, BodyEnds, TeardownEnds, EndOfTests,
              ShutdownEnds, ReportCase, DataSetupEnds, EndOfData, DataAreDone
<1>3. ASSUME NEW c \in Cases, NEW d \in 1 .. NData PROVE ~IteratedStep(c, d)
  BY <1>1 DEF Idle, At, AtData, IteratedStep, PushData, StartData, ISetupEnds,
              IBodyEnds, ITeardownEnds
<1>4. \A id \in Threaded : ~ThreadEnds(id)
  BY <1>1 DEF Idle, ThreadEnds
<1>5. ~Interrupted /\ ~Cancel /\ ~WorkerSignal
  BY <1>1 DEF Interrupted, Cancel, WorkerSignal, Idle, Busy
<1> QED
  BY <1>2, <1>3, <1>4, <1>5 DEF Next, MainStep, PushCase, WaitForCases,
     EndOfCases, EmitCompleteRun, Main, Ended

\* An iterator whose data setup failed: no counter knows.
DataFails(c) ==
  /\ caseAt[c] = "data_setup" /\ caseAt' = [caseAt EXCEPT ![c] = "next_test"]
  /\ ok' = [ok EXCEPT !.case[c] = FALSE]

\* What a step does to what was reported and to what is counted.
BadMoves ==
  /\ bad' \in BOOLEAN /\ counted' \in BOOLEAN
  /\ counted => counted'
  /\ \/ bad' = bad
     \/ /\ main # "complete" /\ bad'
        /\ counted' \/ \E c \in Cases : DataFails(c)

LEMMA ReportMoves ==
  ASSUME HistoryTyped, NEW o, Report(o)
  PROVE  BadMoves
  BY DEF HistoryTyped, Report, BadMoves, Critical

LEMMA StepReports ==
  ASSUME HistoryTyped, Next
  PROVE  BadMoves
<1>1. CASE UNCHANGED <<bad, counted>>
  BY <1>1 DEF BadMoves, HistoryTyped
<1>2. CASE \E id \in Threaded : ThreadEnds(id)
  BY <1>2, ReportMoves DEF ThreadEnds
<1>3. ASSUME NEW c \in Cases, CaseStep(c) PROVE BadMoves
  <2>1. CASE DataSetupEnds(c)
    <3>1. UNCHANGED counted
      BY <2>1 DEF DataSetupEnds
    <3>2. PICK o \in Outcomes :
            /\ bad' = (bad \/ (Critical(o) /\ main # "complete"))
            /\ Critical(o) => LeaveTest(c, FALSE)
      BY <2>1 DEF DataSetupEnds
    <3>3. ASSUME LeaveTest(c, FALSE) PROVE DataFails(c)
      BY <2>1, <3>3 DEF LeaveTest, DataSetupEnds, DataFails, At, Step
    <3> QED
      BY <3>1, <3>2, <3>3 DEF BadMoves, HistoryTyped
  <2>2. CASE StartupEnds(c) \/ SetupEnds(c) \/ BodyEnds(c) \/ TeardownEnds(c)
                \/ ShutdownEnds(c)
    BY <2>2, ReportMoves DEF StartupEnds, SetupEnds, BodyEnds, TeardownEnds,
                             ShutdownEnds
  <2> QED
    BY <1>1, <1>3, <2>1, <2>2 DEF CaseStep, NoReport, StartCase, SkipTest,
       StartTest, EndOfTests, ReportCase, EndOfData, DataAreDone
<1>4. ASSUME NEW c \in Cases, NEW d \in 1 .. NData, IteratedStep(c, d)
      PROVE  BadMoves
  BY <1>1, <1>4, ReportMoves DEF IteratedStep, PushData, StartData, ISetupEnds,
     IBodyEnds, ITeardownEnds, EndsWith, NoReport
<1> QED
  BY <1>1, <1>2, <1>3, <1>4 DEF Next, MainStep, RunStart, PushCase,
     WaitForCases, EndOfCases, EmitCompleteRun, Interrupted, Cancel,
     WorkerSignal, Ended, vars

LEMMA CleanStep ==
  ASSUME FlagsTyped, HistoryTyped, CleanUnlessBad, Next
  PROVE  CleanUnlessBad'
<1> SUFFICES ASSUME main' # "complete", ~bad' PROVE Clean'
  BY DEF CleanUnlessBad
<1>1. main # "complete"
  BY MainMoves DEF RunStart, WaitForCases, EndOfCases, EmitCompleteRun,
                   Interrupted, Cancel, Main
<1>2. Clean
  BY <1>1, StepReports DEF CleanUnlessBad, BadMoves, HistoryTyped
<1>3. CASE UNCHANGED <<counted, failed, ok>>
  BY <1>2, <1>3 DEF Clean, FlagsAreSet
<1>4. ASSUME NEW id \in Threaded, ThreadEnds(id) PROVE Clean'
  BY <1>1, <1>2, <1>4
  DEF ThreadEnds, Report, HistoryTyped, FailedByExit, Clean, FlagsAreSet
<1> QED
  BY <1>1, <1>2, <1>3, <1>4, CleanCaseStep, CleanDataStep DEF Next, MainStep,
     RunStart, PushCase, WaitForCases, EndOfCases, EmitCompleteRun, Interrupted,
     Cancel, WorkerSignal, Ended, vars

LEMMA KeptStep ==
  ASSUME FlagInv, HistoryTyped, BadIsKept, Next
  PROVE  BadIsKept'
<1> SUFFICES ASSUME bad', ~counted'
             PROVE  \/ ~ok'.suite
                    \/ \E c \in Cases : ~ok'.case[c] /\ caseAt'[c] \in Working
  BY DEF BadIsKept
<1> USE DEF FlagInv, PlacesOK, FlagsTyped
<1>1. CASE \E c \in Cases : DataFails(c)
  BY <1>1 DEF DataFails, Working, Busy
<1>2. CASE bad' = bad
  <2>1. ~ok.suite \/ \E c \in Cases : ~ok.case[c] /\ caseAt[c] \in Working
    BY <1>2, StepReports DEF BadIsKept, BadMoves, HistoryTyped
  <2>2. ~ok.suite => ~ok'.suite
    BY FlagMoves DEF SameFlags, GoesOn, Judges, Shares, StartCase, ReportCase
  <2>3. ASSUME NEW c \in Cases, ~ok.case[c], caseAt[c] \in Working
        PROVE  ~ok'.suite \/ (~ok'.case[c] /\ caseAt'[c] \in Working)
    <3>1. CASE SameFlags /\ UNCHANGED caseAt
      BY <2>3, <3>1 DEF SameFlags
    <3>2. CASE PushCase /\ SameFlags
      BY <2>3, <3>2 DEF PushCase, SameFlags, Step, PushedInOrder, Working, Busy,
                        Cases
    <3>3. ASSUME NEW e \in Cases, StartCase(e) \/ ReportCase(e)
          PROVE  ~ok'.case[c] /\ caseAt'[c] \in Working
      BY <2>3, <3>3 DEF StartCase, ReportCase, At, Step, Working, Busy
    <3>4. ASSUME NEW e \in Cases, GoesOn(e) \/ Judges(e)
          PROVE  ~ok'.case[c] /\ caseAt'[c] \in Working
      BY <2>3, <3>4 DEF GoesOn, Judges, SameFlags, Working
    <3>5. ASSUME NEW e \in Cases, Shares(e)
          PROVE  ~ok'.suite \/ (~ok'.case[c] /\ caseAt'[c] \in Working)
      BY <2>3, <3>5 DEF Shares
    <3> QED
      BY <3>1, <3>2, <3>3, <3>4, <3>5, FlagMoves
  <2> QED
    BY <2>1, <2>2, <2>3
<1> QED
  BY <1>1, <1>2, StepReports DEF BadMoves

LEMMA PromiseInvInit == Init => PromiseInv
<1> SUFFICES ASSUME Init PROVE PromiseInv
  OBVIOUS
<1>1. FlagInv /\ CompleteIsLast
  BY FlagInit DEF Init, CompleteIsLast
<1>2. HistoryTyped /\ ReadyIsIdle /\ InterruptCancels /\ BadIsKept
  BY DEF Init, HistoryTyped, ReadyIsIdle, Idle, InterruptCancels, BadIsKept
<1>3. CleanUnlessBad
  BY DEF Init, CleanUnlessBad, Clean, FlagsAreSet
<1> QED
  BY <1>1, <1>2, <1>3 DEF PromiseInv

LEMMA PromiseInvStep == PromiseInv /\ [Next]_vars => PromiseInv'
<1> SUFFICES ASSUME PromiseInv, [Next]_vars PROVE PromiseInv'
  OBVIOUS
<1> USE DEF PromiseInv
<1>1. FlagInv' /\ CompleteIsLast'
  BY FlagStep, LastStep DEF LastInv, FlagInv
<1>2. CASE UNCHANGED vars
  BY <1>1, <1>2 DEF vars, HistoryTyped, ReadyIsIdle, Idle, InterruptCancels,
     CleanUnlessBad, Clean, FlagsAreSet, BadIsKept
<1>3. CASE Next
  <2>1. HistoryTyped'
    BY <1>3, MainMoves, StepReports DEF HistoryTyped, BadMoves, RunStart,
       WaitForCases, EndOfCases, EmitCompleteRun, Interrupted, Cancel
  <2>2. InterruptCancels'
    BY <1>3, MainMoves DEF InterruptCancels, RunStart, WaitForCases, EndOfCases,
       EmitCompleteRun, Interrupted, Cancel
  <2>3. ReadyIsIdle'
    <3>1. main' = "ready" => main = "ready"
      BY <1>3, MainMoves DEF RunStart, WaitForCases, EndOfCases,
         EmitCompleteRun, Interrupted, Cancel
    <3>2. CASE UNCHANGED vars
      BY <3>2 DEF vars, ReadyIsIdle, Idle
    <3> QED
      BY <1>3, <3>1, <3>2, OnlyTheStart DEF RunStart, ReadyIsIdle
  <2>4. CleanUnlessBad' /\ BadIsKept'
    BY <1>3, CleanStep, KeptStep DEF FlagInv
  <2> QED
    BY <1>1, <2>1, <2>2, <2>3, <2>4
<1> QED
  BY <1>2, <1>3

-----------------------------------------------------------------------------
\* The verdict is right when it is given.
LEMMA VerdictStep ==
  ASSUME PromiseInv, EmitCompleteRun
  PROVE  \/ verdict' = IF bad THEN "failure" ELSE "success"
         \/ canceled /\ verdict' = "success"
<1> USE DEF PromiseInv, EmitCompleteRun, Main, StatusIsCritical
<1>1. CASE ~bad
  BY <1>1 DEF CleanUnlessBad, Clean, FlagsAreSet
<1>2. CASE bad /\ canceled
  BY <1>2
<1>3. CASE bad /\ ~canceled
  <2>1. \A c \in Cases : caseAt[c] \in {"none", "done"}
    BY <1>3 DEF CompleteIsLast, InterruptCancels
  <2>2. counted \/ ~ok.suite
    BY <1>3, <2>1 DEF BadIsKept, Working, Busy
  <2> QED
    BY <1>3, <2>2
<1> QED
  BY <1>1, <1>2, <1>3

\* Every step is a step of the promise, or none.
LEMMA PromiseStep ==
  ASSUME PromiseInv, [Next]_vars
  PROVE  [Promise!Next]_(Promise!vars)
<1> USE DEF Promise!vars, Promise!Next
<1>1. CASE UNCHANGED vars
  BY <1>1 DEF vars
<1>2. CASE RunStart
  BY <1>2 DEF RunStart, Main, Promise!Start
<1>3. CASE WaitForCases \/ EndOfCases
  BY <1>3 DEF WaitForCases, EndOfCases, Main
<1>4. CASE Interrupted \/ Cancel
  BY <1>4 DEF Interrupted, Cancel, Promise!Interrupt, PromiseInv, HistoryTyped
<1>5. CASE EmitCompleteRun
  BY <1>5, VerdictStep DEF EmitCompleteRun, Main, Promise!Complete
<1>6. CASE Next /\ UNCHANGED <<main, interrupted, canceled, verdict>>
  <2>1. CASE main = "ready"
    BY <1>1, <1>6, <2>1, OnlyTheStart DEF PromiseInv, RunStart
  <2>2. CASE main # "ready"
    BY <1>6, <2>2, StepReports DEF PromiseInv, HistoryTyped, BadMoves,
       Promise!Report
  <2> QED
    BY <2>1, <2>2
<1> QED
  BY <1>1, <1>2, <1>3, <1>4, <1>5, <1>6, MainMoves

\* However the threads of a run interleave, fail, and are canceled, the run
\* keeps what CutRunPromise promises of its verdict: cut_run_context_start()
\* answers failure for every critical result, those that no counter has seen
\* included, and for nothing else (cut-run-context.c:2092,
\* cut-test-suite.c:240).
THEOREM PromiseTheorem == Spec => PromiseSafety
<1>1. Init => Promise!Init
  BY DEF Init, Promise!Init
<1>2. PromiseInv /\ [Next]_vars => [Promise!Next]_(Promise!vars)
  BY PromiseStep
<1> QED
  BY <1>1, <1>2, PromiseInvInit, PromiseInvStep, PTL
  DEF Spec, PromiseSafety, Promise!Spec
===============================================================================
