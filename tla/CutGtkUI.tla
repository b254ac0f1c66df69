------------------------------- MODULE CutGtkUI -------------------------------
(***************************************************************************)
(* The GTK+ user interface (module/ui/cut-gtk-ui.c) and the pipeline it    *)
(* listens to: the rows of the tree, which connect handlers to the run     *)
(* context and free themselves in one of them, the progress and the status *)
(* they keep, the timers of the running rows, and the button that cancels  *)
(* a run or starts it again on a new pipeline.                             *)
(*                                                                         *)
(* The child is a sequential run that handles signals; it writes the       *)
(* messages that somebody listens to, and may die at any time.  A freed    *)
(* row is one that is no longer in rows.  Names, texts and colours are     *)
(* left out, and so are the paths that lead from a row to its line of the  *)
(* tree.                                                                   *)
(***************************************************************************)
EXTENDS Integers, Sequences, FiniteSets, FiniteSetsExt, Functions

CONSTANTS
  MaxTests,      \* bound: the tests of a suite
  MaxData,       \* bound: the data of an iterator
  MaxResults,    \* bound: the results of a test
  Reported,      \* the statuses of the results
  PipeCapacity,  \* bound: the messages that the pipe holds
  MaxRuns        \* bound: how often a run is started

Success == 0
Notification == 1
Failure == 4
Crash == 6
NoStatus == -1
Statuses == Success .. Crash

ASSUME BoundsAssumption ==
  /\ MaxTests \in Nat /\ MaxData \in Nat /\ MaxResults \in Nat
  /\ PipeCapacity \in Nat \ {0} /\ MaxRuns \in Nat \ {0}
ASSUME ReportedAssumption == Reported \subseteq Statuses

VARIABLES
  runs,       \* the runs that have been started
  child,      \* "runs" or "exited"
  run,        \* where the child is in its run, see Begin
  pipe,       \* the messages that the parser has not yet emitted as signals
  heard,      \* history: the statuses of the results that it has
  reading,    \* what the main loop is doing: "no", "chunk" or "drain"
  context,    \* the pipeline as a run context
  rows,       \* the rows that are allocated
  connected,  \* the rows whose handlers are connected to the run context
  ui          \* the members of the user interface

vars == <<runs, child, run, pipe, heard, reading, context, rows, connected, ui>>

-----------------------------------------------------------------------------
\* The child.  Of its run: the tests of the cases that are not begun (ahead),
\* the tests and iterators of the case that are not begun (items), the data of
\* the iterator that are not (data), and the results of the test so far.  A run
\* is stopped by its first signal; another one ends the child (Exit).  History:
\* the tests that are never started, although the run goes on (missed), and what
\* the jump out of a signal handler has left without completing it (jumped).

Begin == [at |-> "begin", ahead |-> 0, items |-> 0, data |-> 0, results |-> 0,
          missed |-> 0, stopped |-> FALSE, jumped |-> "no"]

Message(type) == [type |-> type]
Ready(type, n) == [type |-> type, n |-> n]
Result(status) == [type |-> "result", status |-> status]

Proceed(r) ==
  /\ child = "runs" /\ run' = r
  /\ UNCHANGED <<runs, child, heard, reading, context, rows, connected, ui>>
Send(m, r) == Len(pipe) < PipeCapacity /\ pipe' = Append(pipe, m) /\ Proceed(r)

At(points) == run.at \in points
GoesOn(points) == At(points) /\ ~run.stopped

WriteReadySuite(n) ==
  /\ At({"begin"})
  /\ Send(Ready("ready-test-suite", n), [run EXCEPT !.at = "suite", !.ahead = n])

\* A case without tests is not run, and nothing of one whose startup fails or
\* omits.
Started(n) == [run EXCEPT !.at = "case", !.ahead = @ - n, !.items = n]
NotStarted(n) == [run EXCEPT !.at = "case", !.ahead = @ - n, !.missed = @ + n]
WriteReadyCase(n) ==
  /\ GoesOn({"suite"})
  /\ \E r \in {Started(n), NotStarted(n)} : Send(Ready("ready-test-case", n), r)

WriteStartTest ==
  /\ GoesOn({"case"}) /\ run.items > 0
  /\ Send(Message("start-test"),
          [run EXCEPT !.at = "test", !.items = @ - 1, !.results = 0])

\* Of a test or an iterated test.  The first crash stops the run.
WriteResult(status) ==
  /\ At({"test", "iterated"}) /\ run.results < MaxResults
  /\ status = Crash => ~run.stopped
  /\ Send(Result(status),
          [run EXCEPT !.results = @ + 1, !.stopped = @ \/ status = Crash])

WriteCompleteTest ==
  /\ At({"test"})
  /\ Send(Message("complete-test"), [run EXCEPT !.at = "case"])

WriteReadyIterator(n) ==
  /\ GoesOn({"case"}) /\ run.items > 0
  /\ Send(Ready("ready-test-iterator", n),
          [run EXCEPT !.at = "iterator", !.items = @ - 1, !.data = n])

\* An iterator whose data cannot be set up has not been ready.
WriteUnreadyIterator ==
  /\ GoesOn({"case"}) /\ run.items > 0
  /\ Send(Message("complete-test-iterator"),
          [run EXCEPT !.items = @ - 1, !.missed = @ + 1])

WriteStartIteratedTest ==
  /\ GoesOn({"iterator"}) /\ run.data > 0
  /\ Send(Message("start-iterated-test"),
          [run EXCEPT !.at = "iterated", !.data = @ - 1, !.results = 0])

WriteCompleteIteratedTest ==
  /\ At({"iterated"})
  /\ Send(Message("complete-iterated-test"), [run EXCEPT !.at = "iterator"])

WriteCompleteIterator ==
  /\ At({"iterator"}) /\ (run.data = 0 \/ run.stopped)
  /\ Send(Message("complete-test-iterator"), [run EXCEPT !.at = "case"])

WriteCompleteCase ==
  /\ At({"case"}) /\ (run.items = 0 \/ run.stopped)
  /\ Send(Message("complete-test-case"), [run EXCEPT !.at = "suite"])

WriteCompleteRun ==
  /\ At({"suite"}) /\ (run.ahead = 0 \/ run.stopped)
  /\ Send(Message("complete-run"), [run EXCEPT !.at = "over"])

Write ==
  \/ \E n \in 0 .. MaxTests : WriteReadySuite(n)
  \/ \E n \in 1 .. run.ahead : WriteReadyCase(n)
  \/ WriteStartTest \/ WriteCompleteTest
  \/ \E status \in Reported : WriteResult(status)
  \/ \E n \in 0 .. MaxData : WriteReadyIterator(n)
  \/ WriteUnreadyIterator \/ WriteStartIteratedTest \/ WriteCompleteIteratedTest
  \/ WriteCompleteIterator \/ WriteCompleteCase \/ WriteCompleteRun

\* SIGINT in the function of a test or in the set up of an iterated test: it
\* stops the run once the test is complete.
InterruptTest ==
  /\ GoesOn({"test", "iterated"})
  /\ Proceed([run EXCEPT !.stopped = TRUE]) /\ UNCHANGED pipe

\* A signal anywhere else in a test case is caught by the test case, which goes
\* on with its shutdown.  It is only told of if it is not SIGINT.
InTestCase == {"case", "test", "iterator", "iterated"}
CaughtByCase ==
  [run EXCEPT !.at = "case", !.stopped = TRUE,
              !.jumped = IF run.at = "case" THEN "no" ELSE run.at]
CrashCase == GoesOn(InTestCase) /\ Send(Message("crash-test-case"), CaughtByCase)
InterruptCase == GoesOn(InTestCase) /\ Proceed(CaughtByCase) /\ UNCHANGED pipe

\* One in the warmup, between test cases or in the shutdown of a test case is
\* caught by the test suite, whose crash nobody writes down.
SignalSuite ==
  /\ GoesOn({"suite"}) \/ (GoesOn({"case"}) /\ run.items = 0)
  /\ Proceed([run EXCEPT !.at = "suite", !.stopped = TRUE,
                         !.jumped = IF run.at = "case" THEN "case" ELSE "no"])
  /\ UNCHANGED pipe

Signal == InterruptTest \/ CrashCase \/ InterruptCase \/ SignalSuite

Exit ==
  /\ child = "runs" /\ child' = "exited"
  /\ UNCHANGED <<runs, run, pipe, heard, reading, context, rows, connected, ui>>

-----------------------------------------------------------------------------
\* What the handlers work on.
View == [rows |-> rows, connected |-> connected, ui |-> ui]

NewContext == [canceled |-> FALSE, crashed |-> FALSE, completed |-> FALSE,
               attached |-> TRUE, watched |-> TRUE, ended |-> FALSE]

\* run_test(): the counters start again, the listeners are attached and the
\* pipeline is started.  One that cannot be started is complete.
NewUI(running, button) ==
  [n |-> 0, done |-> 0, status |-> Success, running |-> running, button |-> button]
Start(running) ==
  \/ child' = "runs" /\ context' = NewContext /\ ui' = NewUI(running, "cancel")
  \/ /\ child' = "exited"
     /\ context' = [NewContext EXCEPT !.completed = TRUE, !.attached = FALSE,
                                      !.watched = FALSE, !.ended = TRUE]
     /\ ui' = NewUI(FALSE, "redo")

\* run(); the first pipeline is started before the main loop runs.
Init ==
  /\ runs = 0 /\ child = "exited" /\ run = Begin /\ pipe = <<>> /\ heard = {}
  /\ reading = "no"
  /\ context = [NewContext EXCEPT !.attached = FALSE, !.watched = FALSE, !.ended = TRUE]
  /\ rows = <<>> /\ connected = {}
  /\ ui = NewUI(FALSE, "redo")

\* row_info->parent_row_info, and the one above it.
NoRow == 0
Ancestors(rs, r) ==
  LET Parent(x) == IF rs[x].parent = NoRow THEN {} ELSE {rs[x].parent}
  IN Parent(r) \cup UNION {Parent(p) : p \in Parent(r)}

\* append_row(), with the handlers that a row connects.
NextRow(v) == 1 + Max({NoRow} \cup v.connected \cup DOMAIN v.rows)
AddRow(v, kind, parent, n, status) ==
  LET row == [kind |-> kind, parent |-> parent, n |-> n, done |-> 0,
              status |-> status, pulse |-> kind = "test"]
  IN [v EXCEPT !.connected = @ \cup {NextRow(v)},
               !.rows = [x \in DOMAIN @ \cup {NextRow(v)} |->
                           IF x = NextRow(v) THEN row ELSE @[x]]]

\* The free_..._row_info() functions, with the handlers that are disconnected.
BugFreeRow(v, r) == [v EXCEPT !.rows = Restrict(@, DOMAIN @ \ {r})]
FreeRow(v, r) ==
  [v EXCEPT !.rows = Restrict(@, DOMAIN @ \ {r}), !.connected = @ \ {r}]

\* update_status() without its loop.
BugRaised(v, r, status) ==
  LET above == {v.rows[r].parent} \ {NoRow}
  IN [v EXCEPT !.rows = [x \in DOMAIN @ |->
                           IF x = r \/ (x \in above /\ @[x].status < status)
                           THEN [@[x] EXCEPT !.status = status] ELSE @[x]],
               !.ui.status = Max({@, status})]
\* update_status(): a row has the status of its last result; it goes up until
\* a row is met that has one as bad.
Raised(v, r, status) ==
  LET above == Ancestors(v.rows, r)
      isRaised(a) == a \in above /\ \A b \in above :
                       (b = a \/ a \in Ancestors(v.rows, b)) => v.rows[b].status < status
  IN [v EXCEPT !.rows = [x \in DOMAIN @ |->
                           IF x = r \/ isRaised(x) THEN [@[x] EXCEPT !.status = status]
                           ELSE @[x]],
               !.ui.status = Max({@, status})]

\* The handlers of the results: a success is shown only when it comes first.
ResultOfTest(v, r, status) ==
  IF status # Success THEN Raised(v, r, status)
  ELSE IF v.rows[r].status = NoStatus THEN [v EXCEPT !.rows[r].status = Success]
  ELSE v

\* increment_n_completed_tests().
Incremented(v, r) ==
  LET above == Ancestors(v.rows, r)
  IN [v EXCEPT !.rows = [x \in DOMAIN v.rows |-> [v.rows[x] EXCEPT
                           !.done = IF x \in above THEN @ + 1 ELSE @]],
               !.ui.done = @ + 1]

\* cb_complete_test() and cb_complete_iterated_test().
CompleteTest(v, r) == FreeRow(Incremented(v, r), r)

\* cb_ready_test_iterator(): the iterator itself was counted as one test.
BugTestsAdded(n) == n
TestsAdded(n) == n - 1
ReadyTestIterator(v, case, n) ==
  AddRow([v EXCEPT !.ui.n = @ + TestsAdded(n), !.rows[case].n = @ + TestsAdded(n)],
         "iterator", case, n, Success)

\* The kinds of rows that listen to a signal, and what their handlers do.
Listening(type) ==
  CASE type \in {"start-test", "ready-test-iterator", "complete-test-case"} -> {"case"}
    [] type \in {"start-iterated-test", "complete-test-iterator"} -> {"iterator"}
    [] type = "result" -> {"test", "iterated"}
    [] type = "complete-test" -> {"test"}
    [] type = "complete-iterated-test" -> {"iterated"}
    [] OTHER -> {}

RowHears(v, r, m) ==
  CASE m.type = "start-test" -> AddRow(v, "test", r, 0, NoStatus)
    [] m.type = "ready-test-iterator" -> ReadyTestIterator(v, r, m.n)
    [] m.type = "start-iterated-test" -> AddRow(v, "iterated", r, 0, NoStatus)
    [] m.type = "result" -> ResultOfTest(v, r, m.status)
    [] m.type \in {"complete-test", "complete-iterated-test"} -> CompleteTest(v, r)
    [] m.type \in {"complete-test-iterator", "complete-test-case"} -> FreeRow(v, r)

\* The handlers of the user interface, as long as it is attached.
BugCompleteRun(v) == [v EXCEPT !.ui.button = "redo"]
CompleteRun(v) == [v EXCEPT !.ui.running = FALSE, !.ui.button = "redo"]
UIHears(v, m) ==
  CASE m.type = "ready-test-suite" ->
         [v EXCEPT !.ui.running = TRUE, !.ui.n = m.n, !.ui.button = "cancel"]
    [] m.type = "ready-test-case" -> AddRow(v, "case", NoRow, m.n, Success)
    [] m.type = "complete-run" -> CompleteRun(v)
    [] OTHER -> v

\* A signal calls the handlers that are connected when it is emitted, in the
\* order in which they were connected.
Emitted(v, m) ==
  LET called == {r \in v.connected : v.rows[r].kind \in Listening(m.type)}
      after[r \in 0 .. Max({NoRow} \cup called)] ==
        IF r = NoRow THEN IF context.attached THEN UIHears(v, m) ELSE v
        ELSE IF r \in called THEN RowHears(after[r - 1], r, m) ELSE after[r - 1]
  IN after[Max({NoRow} \cup called)]

Show(v) == rows' = v.rows /\ connected' = v.connected /\ ui' = v.ui

StatusOf(m) == IF m.type = "result" THEN {m.status} ELSE {}

\* The run context itself; the first complete-run detaches the listeners.
ContextHears(c, m) ==
  [c EXCEPT !.crashed = @ \/ m.type = "crash-test-case"
                          \/ (m.type = "result" /\ m.status = Crash),
            !.completed = @ \/ m.type = "complete-run",
            !.attached = @ /\ m.type # "complete-run"]

-----------------------------------------------------------------------------
\* The pipeline in the main loop.

\* A message of a chunk that read_channel() reads, or of what is read to the
\* end of the stream.
Hear ==
  /\ pipe # <<>>
  /\ reading # "no" \/ context.watched
  /\ pipe' = Tail(pipe)
  /\ heard' = heard \cup StatusOf(Head(pipe))
  /\ reading' = IF reading = "no" THEN "chunk" ELSE reading
  /\ Show(Emitted(View, Head(pipe)))
  /\ context' = ContextHears(context, Head(pipe))
  /\ UNCHANGED <<runs, child, run>>

\* read_channel() after the chunk: a run that is canceled or has crashed is
\* complete.
IsCanceled == context.canceled \/ context.crashed
IsStopped == IsCanceled

EmitCompleteRun(c) ==
  /\ Show(Emitted(View, Message("complete-run")))
  /\ context' = ContextHears(c, Message("complete-run"))

EndChunk ==
  /\ reading = "chunk" /\ reading' = "no"
  /\ IF IsStopped
     THEN EmitCompleteRun([context EXCEPT !.watched = FALSE])
     ELSE /\ context' = [context EXCEPT !.watched = @ /\ ~context.completed]
          /\ UNCHANGED <<rows, connected, ui>>
  /\ UNCHANGED <<runs, child, run, pipe, heard>>

\* hung_up_channel() and child_watch_func(): what is left is read at once, and
\* a stream that breaks off is an error.
BeginDrain ==
  /\ reading = "no" /\ child = "exited" /\ ~context.ended
  /\ reading' = "drain"
  /\ UNCHANGED <<runs, child, run, pipe, heard, context, rows, connected, ui>>

EndDrain ==
  /\ reading = "drain" /\ pipe = <<>> /\ reading' = "no"
  /\ LET ended == [context EXCEPT !.ended = TRUE, !.watched = FALSE]
     IN IF run.at # "over" THEN EmitCompleteRun(ended)
        ELSE context' = ended /\ UNCHANGED <<rows, connected, ui>>
  /\ UNCHANGED <<runs, child, run, pipe, heard>>

\* timeout_cb_pulse_test(): the timer of a row ends when nothing runs.
StopTimer(r) ==
  /\ reading = "no" /\ rows[r].pulse /\ ~ui.running
  /\ rows' = [rows EXCEPT ![r].pulse = FALSE]
  /\ UNCHANGED <<runs, child, run, pipe, heard, reading, context, connected, ui>>

-----------------------------------------------------------------------------
\* cb_cancel_or_restart().

Cancel ==
  /\ reading = "no" /\ ui.button = "cancel"
  /\ ui' = [ui EXCEPT !.button = "redo"]
  /\ context' = [context EXCEPT !.canceled = TRUE]
  /\ UNCHANGED <<runs, child, run, pipe, heard, reading, rows, connected>>

\* The old pipeline goes with its sources and handlers, but not the rows whose
\* timers go on.  (A row that has neither handlers nor a timer is lost.)
Restart ==
  /\ reading = "no" /\ ui.button = "redo" /\ runs < MaxRuns
  /\ runs' = runs + 1 /\ run' = Begin /\ pipe' = <<>> /\ heard' = {}
  /\ connected' = {}
  /\ Start(ui.running)
  /\ rows' = Restrict(rows, {r \in DOMAIN rows : rows[r].pulse})
  /\ UNCHANGED reading

MainLoop == Hear \/ EndChunk \/ BeginDrain \/ EndDrain

Next ==
  \/ Write \/ Signal \/ Exit
  \/ MainLoop
  \/ \E r \in DOMAIN rows : StopTimer(r)
  \/ Cancel \/ Restart

\* A child that can write goes on until it ends, and so does the main loop.
Fairness ==
  /\ WF_vars(Write) /\ WF_vars(Exit /\ run.at = "over")
  /\ WF_vars(MainLoop)
  /\ WF_vars(\E r \in DOMAIN rows : StopTimer(r))

Spec == Init /\ [][Next]_vars /\ Fairness

-----------------------------------------------------------------------------
\* A handler never works on a freed row: the rows whose handlers are connected
\* are allocated, and those above a row that hears the next signal are so, too.
\* (What a signal has left incomplete outlives its test case, but nothing comes
\* that it would hear.)
RowsAreLive ==
  /\ connected \subseteq DOMAIN rows
  /\ pipe # <<>> =>
       \A r \in connected :
         rows[r].kind \in Listening(Head(pipe).type) =>
           /\ rows[r].parent \in {NoRow} \cup DOMAIN rows
           /\ \A p \in Ancestors(rows, r) : p \in DOMAIN rows

\* No row and no bar shows more tests than there are.  When a run has been
\* shown to its end, all rows have gone but those that a signal has left
\* incomplete, and if no signal has stopped it all tests are done but those of
\* the test cases that could not be started and the iterators whose data could
\* not be set up.
ProgressIsWhole ==
  /\ ui.done <= ui.n
  /\ \A r \in connected :
       rows[r].kind \in {"case", "iterator"} => rows[r].done <= rows[r].n
  /\ run.at = "over" /\ pipe = <<>> =>
       /\ run.jumped = "no" => connected = {}
       /\ ~run.stopped /\ ~IsCanceled => ui.done = ui.n - run.missed

\* The user interface shows the worst result that was heard, as long as it
\* listens, and a row nothing better than the rows below it.
StatusIsWorst ==
  /\ context.attached => ui.status = Max({Success} \cup heard)
  /\ \A r \in connected :
       /\ rows[r].status <= ui.status
       /\ rows[r].parent \in DOMAIN rows =>
            rows[r].status <= rows[rows[r].parent].status

\* Once nothing is started any more, the run ends, canceled or not, whatever
\* becomes of its child: a new one can be started, and no timer is left.
ComesToRest ==
  <>[](/\ ~ui.running /\ ui.button = "redo"
       /\ \A r \in DOMAIN rows : ~rows[r].pulse)
===============================================================================
