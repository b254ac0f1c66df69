------------------------------ MODULE CutTestRun ------------------------------
(***************************************************************************)
(* One synchronous run of a test suite in one thread: cut_test_runner's    *)
(* runner_run, the suite, case, test and iterator runs it calls, the stack *)
(* of crash frames (cut-crash-backtrace.c), the stack of current test      *)
(* contexts (cut-test-context.c) and the counters of the run context.      *)
(*                                                                         *)
(* The C control flow is setjmp/longjmp: an assertion that does not hold   *)
(* registers a result and jumps to the jump buffer of the current context; *)
(* a signal pops the innermost crash frame and jumps to it.  `at' names    *)
(* the function the thread is in.  While `at' is one of UserPoints the     *)
(* function is the user's, and it may do anything user code does; once     *)
(* `returned' is TRUE the thread is back in the caller, right after the    *)
(* setjmp block of that function.                                          *)
(***************************************************************************)
EXTENDS Integers, Sequences

CONSTANTS
  Suite,             \* the sorted test cases: a sequence of sequences of Kinds
  GiveUps,           \* the statuses user code gives up with
  MaxData,           \* bound on the data an iterator's data setup adds
  MaxNotifications,  \* bound on the notifications of a run
  HandleSignals      \* cut_run_context_get_handle_signals()

\* A test with a test function, a data-driven test, a test without function.
Kinds == {"test", "iterator", "unavailable"}

ASSUME SuiteAssumption == Suite \in Seq(Seq(Kinds))
ASSUME GiveUpsAssumption ==
  GiveUps \subseteq {"omission", "pending", "failure", "error"}
ASSUME BoundAssumption == MaxData \in Nat /\ MaxNotifications \in Nat
ASSUME HandleSignalsAssumption == HandleSignals \in BOOLEAN

VARIABLES
  proc,      \* what has become of the process
  at,        \* the function the thread is in
  returned,  \* the user function at `at' has returned or jumped out
  pos,       \* [case, test, data: 1-based indices; n: data of the iterator]
  frames,    \* the list that starts at current_crash_backtrace, innermost last
  received,  \* cut_crash_backtrace_signal_received: where it was set, or "none"
  ctxs,      \* the stack of current test contexts of the thread
  ok,        \* the success flags on the C stack (case, tests: the all_success of
             \* cut_test_case_run_tests() and of the run_tests() it calls)
  status,    \* the MAX-ed statuses on the C stack (worst: history of a case)
  count,     \* the counters of the run context, crash results included
  canceled,  \* priv->canceled of the run context
  crashed,   \* priv->crashed of the run context
  open,      \* start signals the run context sent without their complete
  causes,    \* history: the statuses the user's code has reported, and Uncounted
  inBody,    \* history: results other than notifications since the last start
  verdict    \* what the run returned

vars == <<proc, at, returned, pos, frames, received, ctxs, ok, status, count,
          canceled, crashed, open, causes, inBody, verdict>>

-----------------------------------------------------------------------------
\* CutTestResultStatus, by its order.
Statuses == {"success", "notification", "omission", "pending", "failure",
             "error", "crash"}
Severity == [success |-> 0, notification |-> 1, omission |-> 2, pending |-> 3,
             failure |-> 4, error |-> 5, crash |-> 6]
Critical(s) == Severity[s] > Severity["omission"]
\* What fails a case without a result that a counter of the run context counts: a
\* test without function, a data setup that gives up (register_*_result()).
Uncounted == {"unavailable", "no_data"}
Worse(s, t) == IF Severity[s] >= Severity[t] THEN s ELSE t

PlainPoints    == {"setup", "body", "teardown"}
IteratedPoints == {"isetup", "ibody", "iteardown"}
FixturePoints  == {"startup", "data_setup", "shutdown"}
UserPoints     == PlainPoints \cup IteratedPoints \cup FixturePoints
                    \cup {"warmup", "cooldown"}
EnginePoints   == {"start", "next_case", "next_test", "next_data", "test_end",
                   "itest_end", "finish"}

BugIsCanceled == canceled
IsCanceled == canceled \/ crashed

Top == ctxs[Len(ctxs)]

BugPopCtx == ctxs
PopCtx == SubSeq(ctxs, 1, Len(ctxs) - 1)

\* cut_crash_backtrace_new() and cut_crash_backtrace_free(), which a frame that
\* handles signals calls.
BugPushFrame(f) ==
  IF HandleSignals /\ f # "suite" THEN Append(frames, f) ELSE frames
PushFrame(f) == IF HandleSignals THEN Append(frames, f) ELSE frames

PopFrame == SubSeq(frames, 1, Len(frames) - 1)

BugFreeFrame == frames
FreeFrame == IF HandleSignals THEN PopFrame ELSE frames

NextTest == [pos EXCEPT !.test = @ + 1]

BugComplete(bracket) == open' = IF IsCanceled THEN open ELSE open \ {bracket}
Complete(bracket) == open' = open \ {bracket}

NewContext(owner, jump) ==
  [owner |-> owner, failed |-> FALSE, omitted |-> FALSE, jump |-> jump]

\* The local status that watches the results of a test, case or iterator: an
\* iterator does not watch the crashes of its iterated tests.
BugWatchedBy(s, owner) ==
  IF owner = "suite" \/ s = "omission" THEN "none"
  ELSE IF owner # "iterated" THEN "case"
  ELSE IF s # "crash" THEN "iter" ELSE "none"
WatchedBy(s, owner) ==
  IF owner = "suite" THEN "none"
  ELSE IF owner # "iterated" THEN "case"
  ELSE IF s # "crash" THEN "iter" ELSE "none"

\* cut_test_emit_result_signal() of a result of status s on its owner, down to
\* the handlers: the run context has none for the results of an iterator.
Report(s, owner) ==
  /\ count' = IF owner = "iterator" THEN count
              ELSE [count EXCEPT ![s] = @ + 1]
  /\ crashed' = (crashed \/ s = "crash")
  /\ status' =
       [f \in {"case", "iter", "worst"} |->
          IF f \in {WatchedBy(s, owner), "worst"} THEN Worse(status[f], s)
                                                  ELSE status[f]]
  /\ causes' = causes \cup {s}
  /\ inBody' = IF s = "notification" THEN inBody ELSE inBody + 1

NoReport == UNCHANGED <<count, crashed, causes, inBody>>

GoTo(p) == at' = p /\ returned' = FALSE /\ UNCHANGED proc

TypeOK ==
  /\ proc \in {"running", "complete", "exited", "killed", "undefined"}
  /\ at \in UserPoints \cup EnginePoints
  /\ returned \in BOOLEAN
  /\ pos \in [case : Nat, test : Nat, data : Nat, n : 0 .. MaxData]
  /\ frames \in Seq({"suite", "case", "iterated", "test"})
  /\ received \in UserPoints \cup {"none"}
  /\ ctxs \in Seq([owner : {"case", "test", "iterator", "iterated"},
                   failed : BOOLEAN, omitted : BOOLEAN, jump : UserPoints])
  /\ ok \in [suite : BOOLEAN, case : BOOLEAN, tests : BOOLEAN, test : BOOLEAN,
             iter : BOOLEAN, valid : BOOLEAN]
  /\ status \in [case : Statuses, iter : Statuses, worst : Statuses]
  /\ count \in [Statuses -> Nat]
  /\ canceled \in BOOLEAN
  /\ crashed \in BOOLEAN
  /\ open \subseteq {"run", "suite", "case", "iterator", "test"}
  /\ causes \subseteq Statuses \cup Uncounted
  /\ inBody \in Nat
  /\ verdict \in {"none", "success", "failure"}

Init ==
  /\ proc = "running" /\ at = "start" /\ returned = FALSE
  /\ pos = [case |-> 1, test |-> 1, data |-> 1, n |-> 0]
  /\ frames = <<>> /\ received = "none" /\ ctxs = <<>>
  /\ ok = [suite |-> TRUE, case |-> TRUE, tests |-> TRUE, test |-> TRUE,
           iter |-> TRUE, valid |-> TRUE]
  /\ status = [case |-> "success", iter |-> "success", worst |-> "success"]
  /\ count = [s \in Statuses |-> 0]
  /\ canceled = FALSE /\ crashed = FALSE
  /\ open = {} /\ causes = {} /\ inBody = 0 /\ verdict = "none"

-----------------------------------------------------------------------------
\* What the user's code may do.  Assertions need a current context, so warmup
\* and cooldown, which have none, are assumed to make no assertion.

InUserCode == proc = "running" /\ at \in UserPoints /\ ~returned

UserReturns ==
  /\ InUserCode
  /\ returned' = TRUE
  /\ UNCHANGED <<proc, at, pos, frames, received, ctxs, ok, status, count,
                 canceled, crashed, open, causes, inBody, verdict>>

\* cut_test_context_register_result() on the context on top of the stack.
SetResult(s) ==
  /\ ctxs' = [ctxs EXCEPT ![Len(ctxs)].failed = @ \/ Critical(s),
                          ![Len(ctxs)].omitted = (s = "omission")]
  /\ Report(s, Top.owner)

UserNotifies ==
  /\ InUserCode /\ at \notin {"warmup", "cooldown"}
  /\ count["notification"] < MaxNotifications
  /\ SetResult("notification")
  /\ UNCHANGED <<proc, at, returned, pos, frames, received, ok, canceled, open,
                 verdict>>

\* Then cut_test_context_long_jump(): the jump buffer of the top context is
\* that of the running function, or it lies in a stack frame that is gone.
UserGivesUp(s) ==
  /\ InUserCode /\ at \notin {"warmup", "cooldown"}
  /\ SetResult(s)
  /\ IF Top.jump = at THEN returned' = TRUE /\ UNCHANGED proc
                      ELSE proc' = "undefined" /\ UNCHANGED returned
  /\ UNCHANGED <<at, pos, frames, received, ok, canceled, open, verdict>>

-----------------------------------------------------------------------------
\* Signals: "crash" is SIGSEGV, SIGABRT, SIGTERM or SIGBUS, "interrupt" SIGINT.
\* i_will_be_back_handler() frees the innermost frame and jumps to it.

\* No handler is installed, or this is the second signal of the process: the
\* handler calls exit(), unless the signal is still blocked from the first one.
FatalSignal ==
  /\ InUserCode
  /\ \/ frames = <<>> /\ proc' = "killed"
     \/ frames # <<>> /\ received # "none" /\ proc' \in {"exited", "killed"}
  /\ UNCHANGED <<at, returned, pos, frames, received, ctxs, ok, status, count,
                 canceled, crashed, open, causes, inBody, verdict>>

Caught(frame, signal, owner) ==
  /\ InUserCode /\ received = "none"
  /\ frames # <<>> /\ frames[Len(frames)] = frame
  /\ received' = at
  /\ canceled' = (canceled \/ signal = "interrupt")
  /\ IF signal = "crash" THEN Report("crash", owner)
                         ELSE NoReport /\ UNCHANGED status
  /\ UNCHANGED <<pos, open, verdict>>

\* The signal branches of cut_test_suite_run_test_cases() ...
CaughtBySuite(signal) ==
  /\ Caught("suite", signal, "suite")
  /\ ok' = [ok EXCEPT !.suite = @ /\ signal # "crash"]
  /\ frames' = PopFrame
  /\ GoTo("cooldown")
  /\ UNCHANGED ctxs

\* ... of cut_test_case_run_tests(), whose own context is the first and whose own
\* flag is still what it was before run_tests() was called ...
CaughtByCase(signal) ==
  /\ Caught("case", signal, "case")
  /\ ok' = [ok EXCEPT !.case = @ /\ signal # "crash"]
  /\ frames' = PopFrame
  /\ ctxs' = [ctxs EXCEPT ![1].jump = "shutdown"]
  /\ GoTo("shutdown")

\* ... of run_test_without_thread(), which sets the pointer `success' itself
\* to FALSE, not what it points to ...
CaughtByIterated(signal) ==
  /\ Caught("iterated", signal, "iterated")
  /\ ok' = [ok EXCEPT !.valid = (signal # "crash")]
  /\ frames' = PopFrame
  /\ ctxs' = [ctxs EXCEPT ![Len(ctxs)].jump = "iteardown"]
  /\ GoTo("iteardown")

\* ... and of cut_test's run(), where an interrupted test stays a success.
BugSucceedsAfter(signal) == TRUE
SucceedsAfter(signal) == signal # "crash"

CaughtByTest(signal) ==
  /\ Caught("test", signal, Top.owner)
  /\ ok' = [ok EXCEPT !.test = SucceedsAfter(signal)]
  /\ frames' = PopFrame
  /\ GoTo(IF at = "ibody" THEN "itest_end" ELSE "test_end")
  /\ UNCHANGED ctxs

-----------------------------------------------------------------------------
\* The engine.  An action runs from a point of the C code to the next user
\* function or to the next loop test.

Engine(p) == proc = "running" /\ at = p
Back(p)   == Engine(p) /\ returned

RunStart ==
  /\ Engine("start")
  /\ IF Suite = <<>>
     THEN GoTo("finish") /\ open' = {"run"} /\ UNCHANGED frames
     ELSE GoTo("warmup") /\ open' = {"run", "suite"}
          /\ frames' = PushFrame("suite")
  /\ NoReport
  /\ UNCHANGED <<pos, received, ctxs, ok, status, canceled, verdict>>

WarmupDone ==
  /\ Back("warmup")
  /\ GoTo("next_case")
  /\ NoReport
  /\ UNCHANGED <<pos, frames, received, ctxs, ok, status, canceled, open,
                 verdict>>

\* A canceled run skips the remaining cases, as does a filter that leaves a
\* case no test.
SkipCase ==
  /\ Engine("next_case") /\ pos.case <= Len(Suite)
  /\ IsCanceled \/ Suite[pos.case] = <<>>
  /\ pos' = [pos EXCEPT !.case = @ + 1]
  /\ NoReport
  /\ UNCHANGED <<proc, at, returned, frames, received, ctxs, ok, status,
                 canceled, open, verdict>>

StartCase ==
  /\ Engine("next_case") /\ pos.case <= Len(Suite)
  /\ ~IsCanceled /\ Suite[pos.case] # <<>>
  /\ pos' = [pos EXCEPT !.test = 1]
  /\ ctxs' = Append(ctxs, NewContext("case", "startup"))
  /\ frames' = PushFrame("case")
  /\ ok' = [ok EXCEPT !.case = TRUE]
  /\ status' = [status EXCEPT !.case = "success", !.worst = "success"]
  /\ open' = open \cup {"case"}
  /\ GoTo("startup")
  /\ NoReport
  /\ UNCHANGED <<received, canceled, verdict>>

EndOfCases ==
  /\ Engine("next_case") /\ pos.case > Len(Suite)
  /\ frames' = FreeFrame
  /\ GoTo("cooldown")
  /\ NoReport
  /\ UNCHANGED <<pos, received, ctxs, ok, status, canceled, open, verdict>>

\* The end of case 0 of cut_test_case_run_tests() and the call of shutdown().
BugLeaveCase ==
  /\ frames' = FreeFrame
  /\ ctxs' = PopCtx
  /\ pos' = [pos EXCEPT !.case = @ + 1]
  /\ GoTo("next_case")
LeaveCase ==
  /\ frames' = FreeFrame
  /\ ctxs' = [ctxs EXCEPT ![1].jump = "shutdown"]
  /\ GoTo("shutdown")
  /\ UNCHANGED pos

StartupDone ==
  /\ Back("startup")
  /\ ok' = [ok EXCEPT !.case = ~Top.failed, !.tests = TRUE]
  /\ IF Top.failed \/ status.case = "omission"
     THEN LeaveCase
     ELSE GoTo("next_test") /\ UNCHANGED <<pos, frames, ctxs>>
  /\ NoReport
  /\ UNCHANGED <<received, status, canceled, open, verdict>>

Tests == Suite[pos.case]

BugTestsReturn == ok
TestsReturn == [ok EXCEPT !.case = ok.tests]

\* run_tests() returns to cut_test_case_run_tests().
EndOfTests ==
  /\ Engine("next_test") /\ pos.test > Len(Tests)
  /\ ok' = TestsReturn
  /\ LeaveCase
  /\ NoReport
  /\ UNCHANGED <<received, status, canceled, open, verdict>>

SkipTest ==
  /\ Engine("next_test") /\ pos.test <= Len(Tests)
  /\ IsCanceled
  /\ pos' = NextTest
  /\ NoReport
  /\ UNCHANGED <<proc, at, returned, frames, received, ctxs, ok, status,
                 canceled, open, verdict>>

StartTest ==
  /\ Engine("next_test") /\ pos.test <= Len(Tests)
  /\ ~IsCanceled
  /\ IF Tests[pos.test] = "iterator"
     THEN /\ ctxs' = Append(ctxs, NewContext("iterator", "data_setup"))
          /\ GoTo("data_setup")
     ELSE /\ ctxs' = Append(ctxs, NewContext("test", "setup"))
          /\ GoTo("setup")
  /\ ok' = [ok EXCEPT !.test = TRUE]
  /\ NoReport
  /\ UNCHANGED <<pos, frames, received, status, canceled, open, verdict>>

\* cut_test_run() up to the test function: the crash frame, then "start".
EnterBody(p) ==
  /\ frames' = PushFrame("test")
  /\ ctxs' = [ctxs EXCEPT ![Len(ctxs)].jump = p]
  /\ open' = open \cup {"test"}
  /\ inBody' = 0
  /\ GoTo(p)
  /\ UNCHANGED <<ok, causes>>

BugEnterTeardown(p) == GoTo(p) /\ UNCHANGED ctxs
EnterTeardown(p) ==
  /\ ctxs' = [ctxs EXCEPT ![Len(ctxs)].jump = p]
  /\ GoTo(p)

SetupDone ==
  /\ Back("setup")
  /\ \/ /\ Top.failed
        /\ ok' = [ok EXCEPT !.test = FALSE]
        /\ EnterTeardown("teardown")
        /\ UNCHANGED <<frames, open, causes, inBody>>
     \/ /\ ~Top.failed /\ Top.omitted
        /\ EnterTeardown("teardown")
        /\ UNCHANGED <<ok, frames, open, causes, inBody>>
     \/ /\ ~Top.failed /\ ~Top.omitted /\ Tests[pos.test] = "unavailable"
        /\ ok' = [ok EXCEPT !.test = FALSE]
        /\ causes' = causes \cup {"unavailable"}
        /\ EnterTeardown("teardown")
        /\ UNCHANGED <<frames, open, inBody>>
     \/ /\ ~Top.failed /\ ~Top.omitted /\ Tests[pos.test] # "unavailable"
        /\ EnterBody("body")
  /\ UNCHANGED <<pos, received, status, count, canceled, crashed, verdict>>

\* The set up of an iterated test: here an omission is not looked at.
IteratedSetupDone ==
  /\ Back("isetup")
  /\ \/ /\ Top.failed
        /\ ok' = [ok EXCEPT !.iter = FALSE]
        /\ frames' = FreeFrame
        /\ EnterTeardown("iteardown")
        /\ UNCHANGED <<open, causes, inBody>>
     \/ ~Top.failed /\ EnterBody("ibody")
  /\ UNCHANGED <<pos, received, status, count, canceled, crashed, verdict>>

BodyDone ==
  /\ Back("body") \/ Back("ibody")
  /\ ok' = [ok EXCEPT !.test = ~Top.failed]
  /\ frames' = FreeFrame
  /\ GoTo(IF at = "ibody" THEN "itest_end" ELSE "test_end")
  /\ NoReport
  /\ UNCHANGED <<pos, received, ctxs, status, canceled, open, verdict>>

\* The end of cut_test's run(), and the way back to the caller's teardown.
TestEnd ==
  /\ Engine("test_end") \/ Engine("itest_end")
  /\ IF ok.test THEN Report("success", Top.owner)
                ELSE NoReport /\ UNCHANGED status
  /\ Complete("test")
  /\ IF at = "test_end"
     THEN EnterTeardown("teardown") /\ UNCHANGED <<ok, frames>>
     ELSE /\ EnterTeardown("iteardown")
          /\ frames' = FreeFrame
          /\ ok' = [ok EXCEPT !.iter = @ /\ ok.test]
  /\ UNCHANGED <<pos, received, canceled, verdict>>

TeardownDone ==
  /\ Back("teardown")
  /\ ctxs' = PopCtx
  /\ ok' = [ok EXCEPT !.tests = @ /\ ok.test]
  /\ pos' = NextTest
  /\ GoTo("next_test")
  /\ NoReport
  /\ UNCHANGED <<frames, received, status, canceled, open, verdict>>

-----------------------------------------------------------------------------
\* cut_test_iterator.c: run() and run_iterated_tests() without a thread pool.

\* run_test() of the case after the iterator's run(): "complete-test-iterator",
\* and back to the loop over the tests.
LeaveIterator(success) ==
  /\ ctxs' = PopCtx
  /\ ok' = [ok EXCEPT !.tests = @ /\ success]
  /\ pos' = NextTest
  /\ GoTo("next_test")

DataSetupDone ==
  /\ Back("data_setup")
  /\ IF Top.failed
     THEN LeaveIterator(FALSE) /\ UNCHANGED <<status, open>>
     ELSE /\ \E n \in 0 .. MaxData : pos' = [pos EXCEPT !.n = n, !.data = 1]
          /\ ok' = [ok EXCEPT !.iter = TRUE]
          /\ status' = [status EXCEPT !.iter = "success"]
          /\ open' = open \cup {"iterator"}
          /\ GoTo("next_data")
          /\ UNCHANGED ctxs
  /\ causes' = IF Top.failed THEN causes \cup {"no_data"} ELSE causes
  /\ UNCHANGED <<frames, received, count, crashed, inBody, canceled, verdict>>

SkipData ==
  /\ Engine("next_data") /\ pos.data <= pos.n
  /\ IsCanceled
  /\ pos' = [pos EXCEPT !.data = @ + 1]
  /\ NoReport
  /\ UNCHANGED <<proc, at, returned, frames, received, ctxs, ok, status,
                 canceled, open, verdict>>

StartIteratedTest ==
  /\ Engine("next_data") /\ pos.data <= pos.n
  /\ ~IsCanceled
  /\ ctxs' = Append(ctxs, NewContext("iterated", "isetup"))
  /\ frames' = PushFrame("iterated")
  /\ GoTo("isetup")
  /\ NoReport
  /\ UNCHANGED <<pos, received, ok, status, canceled, open, verdict>>

IteratedTeardownDone ==
  /\ Back("iteardown") /\ ok.valid
  /\ ctxs' = [PopCtx EXCEPT ![Len(ctxs) - 1].failed = Top.failed]
  /\ pos' = [pos EXCEPT !.data = @ + 1]
  /\ GoTo("next_data")
  /\ NoReport
  /\ UNCHANGED <<frames, received, ok, status, canceled, open, verdict>>

\* "complete-iterated-test" carries *success, and success is NULL: a second
\* SIGSEGV, in the engine itself.
NullSuccess ==
  /\ Back("iteardown") /\ ~ok.valid
  /\ proc' \in {"exited", "killed"}
  /\ NoReport
  /\ UNCHANGED <<at, returned, pos, frames, received, ctxs, ok, status,
                 canceled, open, verdict>>

EndOfData ==
  /\ Engine("next_data") /\ pos.data > pos.n
  /\ Report(status.iter, "iterator")
  /\ Complete("iterator")
  /\ LeaveIterator(ok.iter)
  /\ UNCHANGED <<frames, received, canceled, verdict>>

-----------------------------------------------------------------------------
\* The ends of the case, of the suite and of the run.

ShutdownDone ==
  /\ Back("shutdown")
  /\ Complete("case")
  /\ ctxs' = PopCtx
  /\ ok' = [ok EXCEPT !.suite = @ /\ ok.case]
  /\ pos' = [pos EXCEPT !.case = @ + 1]
  /\ GoTo("next_case")
  /\ NoReport
  /\ UNCHANGED <<frames, received, status, canceled, verdict>>

CooldownDone ==
  /\ Back("cooldown")
  /\ Complete("suite")
  /\ GoTo("finish")
  /\ NoReport
  /\ UNCHANGED <<pos, frames, received, ctxs, ok, status, canceled, verdict>>

\* cut_run_context_get_status(), as far as emit_complete_run() looks at it.
BugStatusIsCritical ==
  crashed \/ \E s \in {"error", "pending"} : count[s] > 0
StatusIsCritical ==
  crashed \/ \E s \in {"error", "failure", "pending"} : count[s] > 0

EmitCompleteRun ==
  /\ Engine("finish")
  /\ verdict' = IF ok.suite /\ ~StatusIsCritical THEN "success" ELSE "failure"
  /\ Complete("run")
  /\ proc' = "complete"
  /\ NoReport
  /\ UNCHANGED <<at, returned, pos, frames, received, ctxs, ok, status,
                 canceled>>

-----------------------------------------------------------------------------
UserStep ==
  \/ UserReturns \/ UserNotifies
  \/ \E s \in GiveUps : UserGivesUp(s)

SignalStep ==
  \/ FatalSignal
  \/ \E signal \in {"crash", "interrupt"} :
        \/ CaughtBySuite(signal) \/ CaughtByCase(signal)
        \/ CaughtByIterated(signal) \/ CaughtByTest(signal)

EngineStep ==
  \/ RunStart \/ WarmupDone
  \/ SkipCase \/ StartCase \/ EndOfCases
  \/ StartupDone
  \/ SkipTest \/ StartTest \/ EndOfTests
  \/ SetupDone \/ BodyDone \/ TestEnd \/ TeardownDone
  \/ DataSetupDone \/ SkipData \/ StartIteratedTest \/ EndOfData
  \/ IteratedSetupDone \/ IteratedTeardownDone \/ NullSuccess
  \/ ShutdownDone \/ CooldownDone \/ EmitCompleteRun

\* The process is gone, or the run has returned to its caller.
Ended == proc # "running" /\ UNCHANGED vars

Next == UserStep \/ SignalStep \/ EngineStep \/ Ended

Spec == Init /\ [][Next]_vars

\* The thread keeps running, and a user function that is called ends: it
\* returns, gives up or raises a signal, and does not notify forever.
FairSpec == Spec /\ WF_vars(Next)

-----------------------------------------------------------------------------
\* What each point of the code expects to find.

LiveFrames(p) ==
  CASE p \in {"warmup", "next_case", "shutdown"} -> <<"suite">>
    [] p \in {"startup", "next_test", "data_setup", "next_data", "setup",
              "teardown", "iteardown", "test_end"} -> <<"suite", "case">>
    [] p = "body" -> <<"suite", "case", "test">>
    [] p \in {"isetup", "itest_end"} -> <<"suite", "case", "iterated">>
    [] p = "ibody" -> <<"suite", "case", "iterated", "test">>
    [] OTHER -> <<>>

LiveOwners(p) ==
  CASE p \in {"startup", "next_test", "shutdown"} -> <<"case">>
    [] p \in {"setup", "body", "test_end", "teardown"} -> <<"case", "test">>
    [] p \in {"data_setup", "next_data"} -> <<"case", "iterator">>
    [] p \in {"isetup", "ibody", "itest_end", "iteardown"} ->
         <<"case", "iterator", "iterated">>
    [] OTHER -> <<>>

OpenAt(p) ==
  (IF p = "start" THEN {} ELSE {"run"})
  \cup (IF p \in {"start", "finish"} THEN {} ELSE {"suite"})
  \cup (IF LiveOwners(p) = <<>> THEN {} ELSE {"case"})
  \cup (IF p \in {"next_data", "isetup", "ibody", "itest_end", "iteardown"}
        THEN {"iterator"} ELSE {})
  \cup (IF p \in {"body", "ibody", "test_end", "itest_end"}
        THEN {"test"} ELSE {})

\* The fixtures whose signals unwind to the frame of the test case past the
\* context of a test.
CaseCaught == {"data_setup", "setup", "teardown", "iteardown"}

-----------------------------------------------------------------------------
\* Properties.

\* Whatever path the thread took to a point (normal return, assertion jump,
\* signal jump), the list of crash frames holds exactly the frames of the C
\* functions that are still running: a signal never jumps into a dead frame.
CrashFramesAreLive ==
  frames = IF HandleSignals THEN LiveFrames(at) ELSE <<>>

\* The stack of current contexts is the one the running functions pushed,
\* unless the one signal was caught by a frame below the context of a test
\* (CaseCaught) or of the test case (shutdown): those contexts are never popped.
ContextsAreLive ==
  \/ [i \in DOMAIN ctxs |-> ctxs[i].owner] = LiveOwners(at)
  \/ received \in CaseCaught \cup {"shutdown"}

\* The one way to jump through the jump buffer of a dead C frame: a shutdown
\* function that gives up after a signal in a fixture of a test.
DeadJumpsOnlyInShutdown ==
  proc = "undefined" => at = "shutdown" /\ received \in CaseCaught

\* Listeners see each start signal followed by its complete signal, but for the
\* iterator whose iterated teardown and the case whose shutdown was signaled.
StartsAreCompleted ==
  open = (IF proc = "complete" THEN {} ELSE OpenAt(at))
           \cup (IF received = "iteardown" THEN {"iterator"} ELSE {})
           \cup (IF received = "shutdown" THEN {"case"} ELSE {})

\* Something the user's code did, anywhere, that must fail the run.
Bad == \E c \in causes : c = "unavailable" \/ (c \in Statuses /\ Critical(c))

\* The success flag that goes with the C frames a SIGINT jumps over: that of the
\* case in its shutdown, in the fixture of a test those of the test and of
\* run_tests(), which has not returned to the case yet.
LostFlag ==
  \/ received = "shutdown" /\ ~ok.case
  \/ received \in CaseCaught /\ ~(ok.tests /\ ok.test)

\* The run fails exactly when the user's code reported something critical
\* anywhere (a teardown or a data setup included) or a test had no function.
\* Only an interrupt can hide that, and only if no counter holds it: a failed data
\* setup or a test without function, in the case whose flag it loses.
VerdictIsRight ==
  proc = "complete" =>
    \/ verdict = "failure" <=> Bad
    \/ canceled /\ LostFlag /\ causes \cap Uncounted # {}

\* The status a case is reported with is the worst reported in it, unless the
\* signal came in an iterated test: the iterator does not watch crashes, and a
\* signal in an iterated teardown abandons the iterator's status.
CaseStatusIsWorst ==
  at = "shutdown" =>
    status.case = status.worst \/ received \in {"ibody", "iteardown"}

\* With signal handling on, the first signal never costs the process, whatever
\* function it comes in, but in cooldown, which runs outside of every frame.
FirstSignalIsCaught ==
  proc \in {"exited", "killed"} /\ received = "none" =>
    ~HandleSignals \/ at = "cooldown"

\* Every test body yields a result of its own when it ends, and more than one
\* only if it was omitted.
BodiesYieldResults ==
  [][TestEnd => inBody' = 1 \/ (inBody' = 2 /\ Top.omitted)]_vars

\* A canceled run only unwinds: no fixture but teardown, shutdown and cooldown
\* and no test is entered any more, in any case.
CanceledRunUnwinds ==
  [][(canceled \/ crashed) /\ at' # at =>
       at' \notin {"startup", "data_setup", "setup", "isetup", "body", "ibody"}]_vars

\* A case that was started up is shut down before the run ends, whatever its
\* tests do, unless the process is lost.
CasesAreShutDown ==
  at = "startup" ~> at = "shutdown" \/ proc \notin {"running", "complete"}

-----------------------------------------------------------------------------
\* Read through this mapping, the run keeps what CutRunPromise says of it.
Promise == INSTANCE CutRunPromise WITH
  phase <- CASE proc = "complete" -> "complete"
             [] proc \in {"exited", "killed", "undefined"} -> "lost"
             [] OTHER -> IF at = "start" THEN "ready" ELSE "running",
  bad <- Bad,
  interrupted <- canceled

PromiseSpec == Promise!FairSpec
=============================================================================
