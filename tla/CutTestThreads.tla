---------------------------- MODULE CutTestThreads ----------------------------
(***************************************************************************)
(* A run in multi-thread mode (cutter --multi-thread): the main thread     *)
(* pushes the test cases to the thread pool of the suite and waits for it, *)
(* each iterator a case runs pushes its iterated tests to a pool of its    *)
(* own and waits, and a test function may start threads that make          *)
(* assertions with the test context of the test.                           *)
(*                                                                         *)
(* CutTestRun has the detail of what one thread does; here an action runs  *)
(* a thread from the start of a user function to the next one, and what is *)
(* kept of a user function is its outcome.                                 *)
(***************************************************************************)
EXTENDS Integers, Sequences, FiniteSets

CONSTANTS
  Suite,       \* the sorted test cases: a sequence of sequences of Kinds
  NData,       \* the data that each data setup function adds
  Threaded,    \* the tests whose function starts a thread: a subset of TestIds
  MaxThreads,  \* cut_run_context_get_max_threads(), no limit being a large one
  GiveUps      \* the statuses user code gives up with

\* "serial" is a data-driven test with the attribute "multi-thread" = "false".
Kinds == {"test", "iterator", "serial"}

Cases == 1 .. Len(Suite)

\* <<case, test, datum>>, and 0 for the datum of a test that is not iterated.
TestIds == {id \in Cases \X Nat \X (0 .. NData) : id[2] \in 1 .. Len(Suite[id[1]])}

ASSUME SuiteAssumption == Suite \in Seq(Seq(Kinds))
ASSUME ThreadedAssumption == \A id \in Threaded : id \in TestIds
ASSUME BoundAssumption == NData \in Nat /\ MaxThreads \in Nat \ {0}
ASSUME GiveUpsAssumption ==
  GiveUps \subseteq {"omission", "pending", "failure", "error"}

VARIABLES
  main,         \* where the main thread is
  next,         \* the next case the main thread pushes
  caseAt,       \* where the thread of each case is
  test,         \* the test the thread of each case is at
  dataAt,       \* where the iterated tests of the current iterator are
  ok,           \* the success flags: the suite's, the cases', tests', iterators'
  failed,       \* the contexts of tests with failed = TRUE
  live,         \* the tests whose own thread runs
  canceled,     \* priv->canceled of the run context
  counted,      \* a critical result is in the counters of the run context
  proc,         \* what has become of the process
  reported,     \* history: the success each case was reported with
  bad,          \* history: something critical was reported before the end
  interrupted,  \* history: SIGINT made the main thread leave its wait
  failures,     \* history: the tests that failed while they ran
  successes,    \* history: the tests registered as a success
  verdict       \* what the run returned

vars == <<main, next, caseAt, test, dataAt, ok, failed, live, canceled,
          counted, proc, reported, bad, interrupted, failures, successes,
          verdict>>

-----------------------------------------------------------------------------
Critical(o) == o \in {"pending", "failure", "error"}
Outcomes == {"returns"} \cup GiveUps

Kind(c) == Suite[c][test[c]]
TestId(c) == <<c, test[c], 0>>
DataId(c, d) == <<c, test[c], d>>
Context(id) == <<"test", id[1], id[2], id[3]>>

\* The thread that a test runs in, and the one that made its test context: an
\* iterator makes the contexts of the iterated tests it pushes.
Pooled(id) == id[3] > 0 /\ Suite[id[1]][id[2]] = "iterator"
Runner(id) == IF Pooled(id) THEN id ELSE <<id[1], 0, 0>>
Maker(id) == <<id[1], 0, 0>>

\* cut_test_context_current_push(): in a thread that did not make the context,
\* the current one is a new context whose parent it is.
Current(id) == IF Runner(id) = Maker(id) THEN Context(id)
                                         ELSE <<"sub", id[1], id[2], id[3]>>

\* The test of cut_test_context_long_jump().
BugSameThread(id) == TRUE
SameThread(id) == Runner(id) = Maker(id)

FailedBy(o, context) == IF Critical(o) THEN failed \cup {context} ELSE failed

\* A thread that may not jump hands its failure to the parent and exits.
BugFailedByExit(o, context, parent) == FailedBy(o, context)
FailedByExit(o, context, parent) ==
  IF Critical(o) THEN failed \cup {context, parent} ELSE failed

Report(o) ==
  /\ bad' = (bad \/ (Critical(o) /\ main # "complete"))
  /\ counted' = (counted \/ Critical(o))

FailsTest(o, id) ==
  failures' = IF Critical(o) THEN failures \cup {id} ELSE failures

NoReport == UNCHANGED <<bad, counted>>

Busy == {"startup", "next_test", "setup", "body", "teardown", "data_setup",
         "next_data", "wait_data", "shutdown", "report"}
BusyData == {"isetup", "ibody", "iteardown"}

\* A thread that exits in a pool thread's function is never given back: the pool
\* keeps counting it, and waits for it when it is freed.
Lost(c) == {d \in 1 .. NData : dataAt[c][d] = "lost"}
RunningData(c) == {d \in 1 .. NData : dataAt[c][d] \in BusyData}
BusyCases == {c \in Cases : caseAt[c] \in Busy}

HasRoom(n) == n < MaxThreads

At(c, p) == proc = "running" /\ caseAt[c] = p
BugNextTestStays(c) == IF canceled THEN test ELSE [test EXCEPT ![c] = @ + 1]
NextTest(c) == [test EXCEPT ![c] = @ + 1]

Step(c, p) == caseAt' = [caseAt EXCEPT ![c] = p]

TypeOK ==
  /\ main \in {"ready", "push", "wait", "cooldown", "complete"}
  /\ next \in Nat
  /\ caseAt \in [Cases -> {"none", "queued", "done"} \cup Busy]
  /\ test \in [Cases -> Nat]
  /\ \A c \in Cases : test[c] <= Len(Suite[c]) + 1
  /\ dataAt \in [Cases -> [1 .. NData -> {"none", "queued", "skipped", "done",
                                          "lost"} \cup BusyData]]
  /\ ok \in [suite : BOOLEAN, case : [Cases -> BOOLEAN],
             test : [Cases -> BOOLEAN], iter : [Cases -> BOOLEAN]]
  /\ \A x \in failed : x[1] \in {"test", "sub", "user"}
  /\ \A id \in live \cup failures \cup successes : id \in TestIds
  /\ \A x \in {canceled, counted, bad, interrupted} : x \in BOOLEAN
  /\ proc \in {"running", "signaled", "wild"}
  /\ reported \in [Cases -> {"none", "success", "failure"}]
  /\ verdict \in {"none", "success", "failure"}

Init ==
  /\ main = "ready" /\ next = 1
  /\ caseAt = [c \in Cases |-> "none"]
  /\ test = [c \in Cases |-> 1]
  /\ dataAt = [c \in Cases |-> [d \in 1 .. NData |-> "none"]]
  /\ ok = [suite |-> TRUE, case |-> [c \in Cases |-> TRUE],
           test |-> [c \in Cases |-> TRUE], iter |-> [c \in Cases |-> TRUE]]
  /\ failed = {} /\ live = {}
  /\ canceled = FALSE /\ counted = FALSE /\ proc = "running"
  /\ reported = [c \in Cases |-> "none"]
  /\ bad = FALSE /\ interrupted = FALSE
  /\ failures = {} /\ successes = {} /\ verdict = "none"

-----------------------------------------------------------------------------
\* The main thread: cut_test_suite_run_test_cases().

Main(p) == proc = "running" /\ main = p

RunStart ==
  /\ Main("ready") /\ main' = "push"
  /\ UNCHANGED <<next, caseAt, test, dataAt, ok, failed, live,
                 canceled, counted, proc, reported, bad, interrupted, failures,
                 successes, verdict>>

\* run_with_thread_support() drops the cases of a canceled run.
PushCase ==
  /\ Main("push") /\ next <= Len(Suite)
  /\ IF canceled THEN UNCHANGED caseAt ELSE Step(next, "queued")
  /\ next' = next + 1
  /\ UNCHANGED <<main, test, dataAt, ok, failed, live, canceled,
                 counted, proc, reported, bad, interrupted, failures,
                 successes, verdict>>

WaitForCases ==
  /\ Main("push") /\ next > Len(Suite)
  /\ main' = "wait"
  /\ UNCHANGED <<next, caseAt, test, dataAt, ok, failed, live,
                 canceled, counted, proc, reported, bad, interrupted, failures,
                 successes, verdict>>

\* g_thread_pool_free(thread_pool, FALSE, TRUE) returns.
BugCasesAreDone == \A c \in Cases : caseAt[c] # "queued"
CasesAreDone == \A c \in Cases : caseAt[c] \in {"none", "done"}

EndOfCases ==
  /\ Main("wait") /\ CasesAreDone
  /\ main' = "cooldown"
  /\ UNCHANGED <<next, caseAt, test, dataAt, ok, failed, live,
                 canceled, counted, proc, reported, bad, interrupted, failures,
                 successes, verdict>>

\* SIGINT, handled by the main thread: it leaves the loop or its wait by the
\* crash frame of the suite, the one frame of a run with threads.
Interrupted ==
  /\ proc = "running" /\ main \in {"push", "wait"}
  /\ canceled' = TRUE /\ interrupted' = TRUE
  /\ main' = "cooldown"
  /\ UNCHANGED <<next, caseAt, test, dataAt, ok, failed, live, counted,
                 proc, reported, bad, failures, successes, verdict>>

\* The counters of the run context hold what its handlers have counted.
BugStatusIsCritical == FALSE
StatusIsCritical == counted

EmitCompleteRun ==
  /\ Main("cooldown") /\ main' = "complete"
  /\ verdict' = IF ok.suite /\ ~StatusIsCritical THEN "success" ELSE "failure"
  /\ UNCHANGED <<next, caseAt, test, dataAt, ok, failed, live,
                 canceled, counted, proc, reported, bad, interrupted, failures,
                 successes>>

\* Some other thread calls cut_run_context_cancel(): the GStreamer source that is
\* stopped, or a callback of a listener.
Cancel ==
  /\ proc = "running" /\ main \in {"push", "wait"} /\ ~canceled
  /\ canceled' = TRUE
  /\ UNCHANGED <<main, next, caseAt, test, dataAt, ok, failed, live,
                 counted, proc, reported, bad, interrupted, failures, successes,
                 verdict>>

\* A signal in any other thread jumps to the crash frame of the suite, on the
\* stack of the main thread: undefined.
WorkerSignal ==
  /\ proc = "running"
  /\ \E c \in Cases : caseAt[c] \in Busy
  /\ proc' = "signaled"
  /\ UNCHANGED <<main, next, caseAt, test, dataAt, ok, failed, live,
                 canceled, counted, reported, bad, interrupted, failures,
                 successes, verdict>>

-----------------------------------------------------------------------------
\* The thread of a case: run() of the suite and cut_test_case_run_tests().  Its
\* contexts are its own, so that an assertion of it always jumps.

MainUnchanged == UNCHANGED <<main, next, canceled, proc, interrupted, verdict>>

\* The pool takes the cases first in, first out.
StartCase(c) ==
  /\ At(c, "queued")
  /\ \A b \in 1 .. c - 1 : caseAt[b] # "queued"
  /\ HasRoom(Cardinality(BusyCases))
  /\ Step(c, IF Suite[c] = <<>> THEN "report" ELSE "startup")
  /\ NoReport /\ MainUnchanged
  /\ UNCHANGED <<test, dataAt, ok, failed, live, reported, failures,
                 successes>>

StartupEnds(c) ==
  /\ At(c, "startup")
  /\ \E o \in Outcomes :
       /\ Report(o)
       /\ ok' = [ok EXCEPT !.case[c] = ~Critical(o)]
       /\ Step(c, IF o = "returns" THEN "next_test" ELSE "shutdown")
  /\ MainUnchanged
  /\ UNCHANGED <<test, dataAt, failed, live, reported, failures, successes>>

SkipTest(c) ==
  /\ At(c, "next_test") /\ test[c] <= Len(Suite[c])
  /\ canceled
  /\ test' = NextTest(c)
  /\ NoReport /\ MainUnchanged
  /\ UNCHANGED <<caseAt, dataAt, ok, failed, live, reported, failures,
                 successes>>

StartTest(c) ==
  /\ At(c, "next_test") /\ test[c] <= Len(Suite[c])
  /\ ~canceled
  /\ ok' = [ok EXCEPT !.test[c] = TRUE]
  /\ Step(c, IF Kind(c) = "test" THEN "setup" ELSE "data_setup")
  /\ NoReport /\ MainUnchanged
  /\ UNCHANGED <<test, dataAt, failed, live, reported, failures,
                 successes>>

\* A body that starts a thread.
Starts(id) == live' = IF id \in Threaded THEN live \cup {id} ELSE live

SetupEnds(c) ==
  /\ At(c, "setup")
  /\ \E o \in Outcomes :
       /\ Report(o)
       /\ failed' = FailedBy(o, Context(TestId(c)))
       /\ ok' = [ok EXCEPT !.test[c] = ~Critical(o)]
       /\ IF o = "returns" THEN Step(c, "body") /\ Starts(TestId(c))
                           ELSE Step(c, "teardown") /\ UNCHANGED live
  /\ MainUnchanged
  /\ UNCHANGED <<test, dataAt, reported, failures, successes>>

\* The function joins its thread before it returns; one that gives up leaves it.
Joined(o, id) == o = "returns" => id \notin live

\* The end of cut_test's run().
Succeeds(id, success) ==
  successes' = IF success THEN successes \cup {id} ELSE successes

BodyEnds(c) ==
  /\ At(c, "body")
  /\ \E o \in Outcomes :
       LET success == Context(TestId(c)) \notin failed /\ ~Critical(o) IN
       /\ Joined(o, TestId(c))
       /\ Report(o)
       /\ FailsTest(o, TestId(c))
       /\ failed' = FailedBy(o, Context(TestId(c)))
       /\ ok' = [ok EXCEPT !.test[c] = success]
       /\ Succeeds(TestId(c), success)
  /\ Step(c, "teardown")
  /\ MainUnchanged
  /\ UNCHANGED <<test, dataAt, live, reported>>

\* run_test() of the case is left, with success or not.
BugLeaveTest(c, success) ==
  /\ ok' = [ok EXCEPT !.case[c] = success]
  /\ test' = NextTest(c)
  /\ Step(c, "next_test")
LeaveTest(c, success) ==
  /\ ok' = [ok EXCEPT !.case[c] = @ /\ success]
  /\ test' = NextTest(c)
  /\ Step(c, "next_test")

TeardownEnds(c) ==
  /\ At(c, "teardown")
  /\ \E o \in Outcomes :
       /\ Report(o)
       /\ failed' = FailedBy(o, Context(TestId(c)))
  /\ LeaveTest(c, ok.test[c])
  /\ MainUnchanged
  /\ UNCHANGED <<dataAt, live, reported, failures, successes>>

EndOfTests(c) ==
  /\ At(c, "next_test") /\ test[c] > Len(Suite[c])
  /\ Step(c, "shutdown")
  /\ NoReport /\ MainUnchanged
  /\ UNCHANGED <<test, dataAt, ok, failed, live, reported, failures,
                 successes>>

\* `success' is a flag of the suite that every case thread writes.
BugSuiteSuccess(c) == ok.case[c]
SuiteSuccess(c) == ok.suite /\ ok.case[c]

ShutdownEnds(c) ==
  /\ At(c, "shutdown")
  /\ \E o \in Outcomes : Report(o)
  /\ ok' = [ok EXCEPT !.suite = SuiteSuccess(c)]
  /\ Step(c, "report")
  /\ MainUnchanged
  /\ UNCHANGED <<test, dataAt, failed, live, reported, failures, successes>>

\* "complete-test-case" of the suite carries that flag as it is by now.
ReportCase(c) ==
  /\ At(c, "report")
  /\ reported' = [reported EXCEPT ![c] = IF ok.suite THEN "success"
                                                     ELSE "failure"]
  /\ Step(c, "done")
  /\ NoReport /\ MainUnchanged
  /\ UNCHANGED <<test, dataAt, ok, failed, live, failures, successes>>

-----------------------------------------------------------------------------
\* The thread of a case that runs an iterator: run_iterated_tests().

CaseUnchanged == UNCHANGED <<test, reported>>

DataStep(c, d, p) == dataAt' = [dataAt EXCEPT ![c][d] = p]

\* The results of an iterator are not counted.
DataSetupEnds(c) ==
  /\ At(c, "data_setup")
  /\ \E o \in Outcomes :
       /\ bad' = (bad \/ (Critical(o) /\ main # "complete"))
       /\ failed' = FailedBy(o, Context(TestId(c)))
       /\ IF Critical(o)
          THEN LeaveTest(c, FALSE) /\ UNCHANGED dataAt
          ELSE /\ ok' = [ok EXCEPT !.iter[c] = TRUE]
               /\ dataAt' = [dataAt EXCEPT ![c] = [d \in 1 .. NData |-> "none"]]
               /\ Step(c, "next_data")
               /\ UNCHANGED test
  /\ MainUnchanged
  /\ UNCHANGED <<counted, live, reported, failures, successes>>

\* run_test_with_thread_support() pushes the next iterated test, or runs it in
\* the thread of the case, unless the run is canceled.
PushData(c, d) ==
  /\ At(c, "next_data")
  /\ dataAt[c][d] = "none" /\ \A e \in 1 .. d - 1 : dataAt[c][e] # "none"
  /\ Kind(c) = "serial" => RunningData(c) = {}
  /\ DataStep(c, d, IF canceled THEN "skipped"
                    ELSE IF Kind(c) = "serial" THEN "isetup" ELSE "queued")
  /\ NoReport /\ MainUnchanged /\ CaseUnchanged
  /\ UNCHANGED <<caseAt, ok, failed, live, failures, successes>>

EndOfData(c) ==
  /\ At(c, "next_data") /\ \A d \in 1 .. NData : dataAt[c][d] # "none"
  /\ Step(c, "wait_data")
  /\ NoReport /\ MainUnchanged /\ CaseUnchanged
  /\ UNCHANGED <<dataAt, ok, failed, live, failures, successes>>

\* The pool of the iterator is freed.
DataAreDone(c) ==
  /\ At(c, "wait_data")
  /\ \A d \in 1 .. NData : dataAt[c][d] \in {"skipped", "done"}
  /\ LeaveTest(c, ok.iter[c])
  /\ NoReport /\ MainUnchanged
  /\ UNCHANGED <<dataAt, failed, live, reported, failures, successes>>

-----------------------------------------------------------------------------
\* The thread of an iterated test: run_test_without_thread().

AtData(c, d, p) == proc = "running" /\ dataAt[c][d] = p

\* Here the run may have been canceled since the test was pushed.
StartData(c, d) ==
  /\ AtData(c, d, "queued")
  /\ \A e \in 1 .. d - 1 : dataAt[c][e] # "queued"
  /\ HasRoom(Cardinality(RunningData(c) \cup Lost(c)))
  /\ DataStep(c, d, IF canceled THEN "skipped" ELSE "isetup")
  /\ NoReport /\ MainUnchanged /\ CaseUnchanged
  /\ UNCHANGED <<caseAt, ok, failed, live, failures, successes>>

\* An assertion of the user function registers its result with the context that
\* is current in its thread, and cut_test_context_long_jump() jumps back, or
\* the thread exits.  A new context would have no jump buffer to jump by.
Exits(id, o) == o # "returns" /\ ~SameThread(id)

EndsWith(id, o) ==
  /\ Report(o)
  /\ failed' = IF Exits(id, o) THEN FailedByExit(o, Current(id), Context(id))
                               ELSE FailedBy(o, Current(id))
  /\ proc' = IF o = "returns" \/ Exits(id, o) \/ Current(id) = Context(id)
             THEN proc ELSE "wild"
  /\ UNCHANGED <<main, next, canceled, interrupted, verdict>>

\* An omission of the set up is not looked at.
ISetupEnds(c, d) ==
  LET id == DataId(c, d) IN
  /\ AtData(c, d, "isetup")
  /\ \E o \in Outcomes :
       /\ EndsWith(id, o)
       /\ \/ /\ Exits(id, o)
             /\ DataStep(c, d, "lost") /\ UNCHANGED <<ok, live>>
          \/ /\ ~Exits(id, o) /\ Critical(o)
             /\ ok' = [ok EXCEPT !.iter[c] = FALSE]
             /\ DataStep(c, d, "iteardown") /\ UNCHANGED live
          \/ /\ ~Exits(id, o) /\ ~Critical(o)
             /\ DataStep(c, d, "ibody") /\ Starts(id) /\ UNCHANGED ok
  /\ CaseUnchanged
  /\ UNCHANGED <<caseAt, failures, successes>>

\* cut_test_run() asks the context the iterator made whether the test failed.
IBodyEnds(c, d) ==
  LET id == DataId(c, d) IN
  /\ AtData(c, d, "ibody")
  /\ \E o \in Outcomes :
       LET success == Context(id) \notin failed /\ ~Critical(o) IN
       /\ Joined(o, id)
       /\ EndsWith(id, o)
       /\ FailsTest(o, id)
       /\ IF Exits(id, o)
          THEN DataStep(c, d, "lost") /\ UNCHANGED <<ok, successes>>
          ELSE /\ DataStep(c, d, "iteardown")
               /\ ok' = [ok EXCEPT !.iter[c] = @ /\ success]
               /\ Succeeds(id, success)
  /\ CaseUnchanged
  /\ UNCHANGED <<caseAt, live>>

\* The flag of the context is handed to the iterator's, which nobody reads then.
ITeardownEnds(c, d) ==
  LET id == DataId(c, d) IN
  /\ AtData(c, d, "iteardown")
  /\ \E o \in Outcomes :
       /\ EndsWith(id, o)
       /\ DataStep(c, d, IF Exits(id, o) THEN "lost" ELSE "done")
  /\ CaseUnchanged
  /\ UNCHANGED <<caseAt, ok, live, failures, successes>>

-----------------------------------------------------------------------------
\* The thread that a test function started, with a context made in it whose
\* parent is the current one of the thread that started it.

InBody(id) ==
  /\ test[id[1]] = id[2]
  /\ IF id[3] = 0 THEN caseAt[id[1]] = "body"
                  ELSE dataAt[id[1]][id[3]] = "ibody"

ThreadEnds(id) ==
  /\ proc = "running" /\ id \in live
  /\ live' = live \ {id}
  /\ \E o \in Outcomes :
       /\ Report(o)
       /\ failed' = FailedByExit(o, <<"user", id[1], id[2], id[3]>>, Current(id))
       /\ failures' = IF Critical(o) /\ InBody(id) THEN failures \cup {id}
                                                   ELSE failures
  /\ MainUnchanged /\ CaseUnchanged
  /\ UNCHANGED <<caseAt, dataAt, ok, successes>>

-----------------------------------------------------------------------------
MainStep == RunStart \/ PushCase \/ WaitForCases \/ EndOfCases \/ EmitCompleteRun

CaseStep(c) ==
  \/ StartCase(c) \/ StartupEnds(c) \/ SkipTest(c) \/ StartTest(c)
  \/ SetupEnds(c) \/ BodyEnds(c) \/ TeardownEnds(c) \/ EndOfTests(c)
  \/ ShutdownEnds(c) \/ ReportCase(c)
  \/ DataSetupEnds(c) \/ EndOfData(c) \/ DataAreDone(c)

IteratedStep(c, d) ==
  PushData(c, d) \/ StartData(c, d) \/ ISetupEnds(c, d) \/ IBodyEnds(c, d)
    \/ ITeardownEnds(c, d)

\* The process is gone, or the run has returned and no thread moves any more.
Ended ==
  /\ \/ proc # "running"
     \/ main = "complete"
     \/ \E c \in Cases : Lost(c) # {}
  /\ UNCHANGED vars

Next ==
  \/ MainStep \/ Interrupted \/ Cancel \/ WorkerSignal
  \/ \E c \in Cases : CaseStep(c) \/ \E d \in 1 .. NData : IteratedStep(c, d)
  \/ \E id \in Threaded : ThreadEnds(id)
  \/ Ended

Spec == Init /\ [][Next]_vars

\* Every thread keeps running, and every user function ends.
FairSpec ==
  /\ Spec /\ WF_vars(MainStep)
  /\ \A c \in Cases : WF_vars(CaseStep(c))
  /\ \A c \in Cases, d \in 1 .. NData : WF_vars(IteratedStep(c, d))
  /\ \A id \in Threaded : WF_vars(ThreadEnds(id))

-----------------------------------------------------------------------------
\* Properties.

\* An assertion never jumps through a jump buffer that is not its thread's: a
\* thread that did not make the context of its test exits instead.
NoWildJump == proc # "wild"

\* When the run returns, no case is left running, whatever threads did and
\* however the run was canceled, unless SIGINT took the main thread out of its
\* wait.
CompleteIsLast ==
  main \in {"cooldown", "complete"} /\ ~interrupted =>
    \A c \in Cases : caseAt[c] \in {"none", "done"}

\* No failure of a case is lost: one that failed by its own flag, or that has a
\* test that failed in its function or by a thread it waits for, in whatever
\* order that reaches the flags of the context, the test, the iterator, the case
\* and the suite, which all case threads share without a lock, is not reported
\* as a success.  The tests in threads of a pool are not looked at.
FailedCaseIsReported ==
  \A c \in Cases : reported[c] = "success" =>
    ok.case[c] /\ \A id \in failures : id[1] = c => Pooled(id)

\* A test that one of its threads failed is not registered as a success,
\* unless it is an iterated test in a thread of a pool.
ThreadFailureIsNotSuccess ==
  \A id \in failures \cap successes : Pooled(id)

\* A run ends, and the case threads with it, unless an iterated test has given
\* up in a thread of the pool: then the iterator waits for that thread forever.
RunEnds ==
  <>(\/ main = "complete" /\ \A c \in Cases : caseAt[c] \in {"none", "done"}
     \/ \E c \in Cases : Lost(c) # {}
     \/ proc # "running")

\* Read through this mapping, a run with threads keeps the safety part of what
\* CutRunPromise says of a run: what happens after the verdict is not its bad.
Promise == INSTANCE CutRunPromise WITH
  phase <- IF main = "complete" THEN "complete"
           ELSE IF main = "ready" THEN "ready" ELSE "running",
  interrupted <- canceled

PromiseSafety == Promise!Spec
=============================================================================
