# A formal model of Cutter

Cutter is a unit test framework for C and C++: a test runner that loads shared
objects, runs the test cases in them (in one thread, in a thread pool, or in
child processes), unwinds out of failing assertions and crashing functions with
`longjmp()`, and reports to listeners.  This directory holds TLA+ models of the
parts where that is hard: the run of a suite, its threads, the stream that
carries the results of a child cutter, the sub processes and forked processes a
test can start, external commands in GCutter, the GTK+ user interface, and the
diffs of the messages.

Contents: [parts of the system](#parts-of-the-system) ·
[modules](#modules-and-what-they-correspond-to) · [runs](#runs) ·
[divergences](#where-code-and-documents-disagree) · [proofs](#proofs) ·
[limits](#what-is-not-modelled) · [plan](#plan)

## Parts of the system

Sources are under `src/`; `PROJECT.json` lists every part, modelled or not.

| Part | State it keeps | Operations | What makes it hard |
|---|---|---|---|
| **Test execution engine** (`cut-test-suite.c`, `cut-test-case.c`, `cut-test.c`, `cut-test-iterator.c`, `cut-iterated-test.c`, `cut-test-runner.c`) | success flags and statuses in C locals, shared by address with callbacks and threads | `run` of a suite, case, test, iterator, iterated test; fixtures (warmup, startup, data setup, setup and their counterparts) | every user function may return, give up (a `longjmp()`), or raise a signal (a `longjmp()` of another kind, past several frames) |
| **Crash backtrace** (`cut-crash-backtrace.c`) | global list of frames, global "signal received" flag | new / free a frame, the signal handler | each frame must be freed once on each of these paths |
| **Test context** (`cut-test-context.c`) | per thread stack of current contexts; failed and omitted flags; a jump buffer; forked processes | push, pop, register a result, `long_jump` | the buffer belongs to a C frame of a thread: another thread, or a frame that has returned, must not use it |
| **Run context, runner, listeners** (`cut-run-context.c`, `cut-runner.c`) | counters, canceled, crashed, completed | register results, cancel, emit start/complete signals, delegate signals | the verdict must not depend on which path a failure took |
| **XML stream** (`module/stream/cut-xml-stream.c`, `cut-stream.c`) | a mutex and a write function | one callback per signal | written from all threads of the child |
| **Stream reader and parser** (`cut-stream-reader.c`, `cut-stream-parser.c`) | a stack of states, a stack per kind of object, a record per message; error and ended flags; event sources | parse, end of the stream; IN, HUP and error callbacks | truncated streams, messages of several threads through the same stacks |
| **Pipeline, sub processes, groups** (`cut-pipeline.c`, `cut-sub-process.c`, `cut-sub-process-group.c`) | pid, pipe, child watch; running / ran / success; number of uncompleted processes | run, run async, wait, add, and the callbacks | the end of a child is seen twice, in any order; completion may come before anyone waits |
| **Forked processes** (`cut-process.c`) | pid (0 means "I am the child"), pipes, a text of results | fork, wait, read what it wrote, exit, dispose | a fork copies the objects; pids are reused; pipes fill up; the parent waits before it reads |
| **Sequence matcher and differs** (`cut-sequence-matcher.c`, `cut-differ.c`, readable, unified and colorize differ) | lists computed once and kept; the context size | matches, blocks, operations, groups, ratio; diff, need_diff | off-by-ones of windows, kept lists that are out of date |
| **External commands** (`gcut-process.c`, `gcut-egg.c`, `gcut-glib-event-loop.c`) | pid, status, ids of the event sources | run / hatch, kill, wait with a timeout, dispose | the end, the output and the timeout race, by the priorities of their sources |
| **GTK+ user interface** (`module/ui/cut-gtk-ui.c`) | rows, handlers, counters, timers, a button | handlers of all signals; cancel, restart | rows free themselves in their handlers; the run ends in four ways |
| Loaders, repository, modules, other UIs and reports, helpers, GCutter values, CppCutter, SoupCutter, GdkCutter, GStreamer plug-ins | little, or external | | file formats, layout, values, wrappers |

How they interact: the runner calls the suite, which calls the cases, which call
the tests; each object emits GObject signals that the object above it (through a
`MAX`-ed status on its C stack) and the run context (counters) handle
synchronously, in the thread that emits.  In multi-thread mode cases and iterated
tests run in GThreadPools.  A child cutter's run context writes to a pipe; the
parent's stream reader emits the same signals on the pipeline, a run context of its
own, which delegates them to the run context of the test that started the child, or
to the user interface that listens to it.  A process forked by a test runs the rest of
the test function and sends its results through a pipe of its own.

What makes each part correct:

* engine: whatever the user's code does, contexts and frames are those of the
  functions that run; start signals are completed; a started case is shut down; the
  verdict is a failure exactly when something critical was reported;
* threads: no jump into another thread's stack; the end of the run comes after the
  end of its cases; no failure is lost between threads; the run ends;
* stream: the parent sees the child's signals, each once, in order, with the child's
  objects; a truncated stream is a failure and is completed once;
* sub processes: the verdict is the child's, everything it wrote is forwarded, calls
  that wait return;
* forked processes: a wait forwards what its process sent, nothing is left running,
  calls return;
* differs: the operations lead from one text to the other, and what is kept is what
  would be computed anew;
* external commands: no output is lost, the status is the child's, no source calls an
  object that is gone, calls return;
* user interface: no handler works on a freed row, progress and status add up, and it
  comes to rest however a run ends.

## Modules and what they correspond to

| Module | Role |
|---|---|
| `CutTestRun` | a run in one thread, with every fixture, give-up and signal |
| `CutRunPromise` | abstract specification: what a run promises whoever started it |
| `CutTestThreads` | a run in multi-thread mode, with the threads tests start |
| `CutStream` | a child's signals as XML elements, and the parser that reads them |
| `CutSubProcess` | sub processes, their pipelines, the main loop, a group |
| `CutProcess` | processes that a test forks, their pipes and their results |
| `CutSequenceMatcher` | the matcher's algorithms, as operators |
| `CutDiffer` | a matcher and a differ as objects: kept lists, context size, diffs |
| `GCutProcess` | an external command as a GCutProcess or a GCutEgg, in a GLib main loop |
| `CutGtkUI` | the GTK+ user interface on a pipeline |
| `MC*` | small instances for TLC; `MCCutProcess` and `MCGCutProcess` also state what a document says and the code does not do |
| `CutTestThreadsClaims` | the same for the run in threads |
| `CutTestRunProofs` | theorems about `CutTestRun` |
| `CutTestThreadsProofs` | theorems about `CutTestThreads` |
| `CutStreamProofs` | theorems about `CutStream` |
| `CutSubProcessProofs`, `CutProcessProofs` | theorems about `CutSubProcess` and `CutProcess` |
| `CutDifferProofs`, `GCutProcessProofs` | theorems about `CutDiffer` and `GCutProcess` |
| `CutGtkUIProofs` | theorems about `CutGtkUI` |

### CutTestRun

The C control flow is `setjmp()`/`longjmp()`.  `at` names the C function the
thread is in and `returned` whether the user function called there is back.
`frames` is the list of `current_crash_backtrace`, `ctxs` the stack of current
contexts with the jump buffer each holds, `ok` and `status` the C locals
(`success`, `MAX`-ed statuses; `ok.case` is the `all_success` of
`cut_test_case_run_tests()` and `ok.tests` that of `run_tests()`, which reaches the first
only when `run_tests()` returns and is lost when a signal jumps over it; `ok.valid` is the pointer that
`cut-test-iterator.c` passes by address), `count`, `canceled` and `crashed` the run
context.  An action runs from one user function to the next; the user's function
returns, notifies, gives up with a status of `GiveUps`, or raises a crash or SIGINT.
A case that the name filters leave without tests is an empty sequence.  Warmup and
cooldown make no assertions.  Cancellation is by SIGINT only; a cancellation by
another thread (a listener, the GStreamer element's `stop()`) is in
`CutTestThreads`.

### CutRunPromise

What a run is for the one who started it: ready, running, then complete with a
verdict, or lost with its process.  The verdict is a failure exactly if something
critical was reported; an interrupted run may claim success all the same.
`CutTestRun` and `CutTestThreads` both implement it, by the mappings at their ends.

### CutTestThreads

The same run with a thread for each case, pooled iterated tests, and a thread that
a test function starts and joins (it is left behind when the function gives up
before the join).  What is kept of a user function is its outcome; what is added is
who runs when: `main` pushes cases and waits, `caseAt[c]` and `dataAt[c][d]` are the
threads.  `Exits` is the `g_thread_exit()` an assertion ends in when the current
context was made by another thread.  Signals that reach a worker thread are
undefined behaviour (`WorkerSignal`); SIGINT in the main thread takes it out of its
wait (`Interrupted`).

### CutStream

`XML` is what `cut-xml-stream.c` and the `*_to_xml_string()` functions write for a
signal, as a sequence of tags.  `Parse` handles one tag as `start_element_handler`,
`text_handler` and `end_element_handler` do: `states` is the stack of states,
`stacks` the stacks of objects, `element` the record of the message, `heap` the
objects, shared by record, stack, context and result as the pointers are.  Names are
opaque; times, descriptions and backtraces are left out.  The child writes whole
messages under a mutex, and the pipe is a FIFO, so that the next message is written
when the last one is read; the child may die at every tag (`Exit`), which loses the
rest.  A crash in the child is left to `CutSubProcess`, because what it does depends
on where a read ends.  `Attributed` says which kinds of object have a `"multi-thread"`
attribute.  The parser sets it on the test at the top of its stack, whatever object it
belongs to; a message in which that is another object or none, a `Stray` one, is misread,
and the record of what was sent remembers it (`sent.stray`).

### CutSubProcess

`process` and `group` are the private structures of the two classes, `pipeline` the
run context of each pipeline with its reader, `sources` the GSources in the main
loop, `call` the call the test is in.  The main loop runs only inside of calls that
wait (`InLoop`).  `BeginRead`/`ReadChannel` are two steps because the channel
blocks until its buffer (`Chunk` messages) is full or the pipe is at its end: one
living child holds up all others.  `HungUpChannel` and `ChildWatch` are the two ways
the end of a child is noticed.  `told` collects the complete-run signals one step
emits, and `Deliver` calls the handlers that are connected at that time, each once.
The test does not run a process synchronously while it already runs asynchronously
(the code would start the pipeline again over the first one's pipe; see the hazards).

### CutProcess

A fork copies the program, so that parent and child both go on in the test function
with a list of objects (`objects`) of their own: the child's has a new object with pid
0 and the ones it inherited.  `pidOf` are the kernel's numbers, which are reused once
a process has been waited for; an object is looked up by number, first match.  A
result is sent in two halves (`Send`), which a full pipe or the end of the process may
come between; `Collect` reads to the end of a pipe, which is there when nobody below
the process has the writing end (`Writers`), and forwards whatever is whole in the text
it keeps.  `Reap` and `Collect` are the two steps of `cut_wait_process()`.  `Dispose` is
the end of a test, by any result; a child that returns goes on as a second runner
(`"runaway"`).  `ForkFails` has both failures, of `fork()` (pid -1) and of `pipe()`
(pid 0).

### CutSequenceMatcher and CutDiffer

`CutSequenceMatcher` has the pipeline of the matcher as operators, each named for the
C function: `LongestMatch` (with junk), `GetMatches`, `GetBlocks`, `GetOperations`,
`GetGroupedOperations`, `GetRatio`.  The loops are recursive functions: `RunSizes` over pairs
of positions, `MatchesIn` over windows (the queue), `Joined`, `OperationsUpTo` and `GroupsUpTo`
over lists; indices are C's.  `CutDiffer` has the object: `matches`, `blocks`, `operations`,
`grouped` and `ratio` are the members that are kept once they are computed (`Kept`: a
NULL list is computed again), and `SetContextSize`, which may come at any time, drops
the groups.  `Diff` is what the three differs write, as marked lines (`"deleted"` for `-`,
`"inserted"` for `+`, `"equal"` for a space, `"summary"` for `@@`); `NeedDiff` is
`cut_differ_need_diff()`.  `WrittenIsADiff` follows the places of the two texts that each line
passes (`Passed`): the next line of the text it is marked to be in, or, at a summary, the
beginning of its group, before which nothing but what is the same is left out.

### GCutProcess

One object, one child, and the sources of a GLib loop: the child watch, a watch of
each output stream, the timer of the call that waits.  `Iterate` is one iteration: it
dispatches the ready sources of the highest priority.  The two classes are told apart
by their priorities and by the main context of their loop (`context`).  The user
calls `Run`/`Hatch`, `Kill`, `Wait`, iterates the loop, and disposes of the object;
the child writes while it talks, heeds or ignores SIGTERM, and ends at any time.

### CutGtkUI

The child is a sequential run (`run`) that handles signals, as in `CutTestRun`, reduced to
what it writes of its suite to a pipe that holds `PipeCapacity` messages: how many tests and
iterators a test case has (`ahead`, `items`, `data`) is chosen as the run goes on.  A test
case whose startup fails or omits is completed without its tests (`NotStarted`), an iterator
whose data cannot be set up without having been ready (`WriteUnreadyIterator`).  The first signal
stops the run (`Signal`): where a jump out of the handler leaves a test or an iterator
without completing it, `jumped` says so; a second signal, and a signal nobody catches, is
`Exit`, which may come at any time.  (A crash that the suite catches is not told of:
`cut-xml-stream.c` does not write it.)  `Hear` is
a message of a chunk that the pipeline reads, `EndChunk`, `BeginDrain` and `EndDrain`
the ends of the reading, as in `CutSubProcess`.  `Emitted` calls the handlers that are
connected when a signal is emitted: `rows` are the `..._row_info` structures that are
allocated, `connected` those whose handlers are connected; a new row has a number (`NextRow`)
above those that are allocated or connected, so that no number of a freed row that could
still hear is given again.  `Cancel` and `Restart` are
the button; a restart replaces the pipeline, and leaves the rows with a running timer.

## Runs

`tlc -config X.cfg M` in this directory.

| Run | Module, cfg | Asks |
|---|---|---|
| `test_run` | `MCCutTestRun`, `CutTestRun.cfg` | live frames and contexts, jumps, paired signals, verdict, first signal, results of bodies, unwinding after a cancel, shutdown and status of cases; refinement of `CutRunPromise`, liveness included |
| `threads` | `MCCutTestThreads`, `CutTestThreads.cfg` | jumps, order of the end, failures across threads and flags, termination, refinement (safety) |
| `stream` | `MCCutStream`, `CutStream.cfg` | relaying, verdict and completion of the stream, termination |
| `sub_process` | `MCCutSubProcess`, `CutSubProcess.cfg` | verdicts, forwarding, reaping, termination of calls |
| `forked` | `MCCutProcess`, `CutProcess.cfg` | forwarding of results, children that are left, termination of calls |
| `differ` | `MCCutDiffer`, `CutDiffer.cfg` | kept lists, operations and written diffs against a reference definition |
| `gcut_process` | `MCGCutProcess`, `GCutProcess.cfg` | output, status, sources after dispose, termination of calls |
| `gtk_ui` | `MCCutGtkUI`, `CutGtkUI.cfg` | freed rows, progress, status, coming to rest |
| `claim_*` and `attributes_are_relayed` | see below | violations |

Each property has a mutant in `PROJECT.json`: a changed definition (`Bug...`, next to
the one it stands for) under which TLC finds the property violated.  `Bug...`
operators are used by nothing else.

What the runs show, beyond that the properties hold: the exceptions in the properties
are the paths on which the code does less than a reader would expect.  Dead contexts are
left by the five fixtures in `CaseCaught` and by a shutdown (`ContextsAreLive`);
a dead jump buffer is used by a shutdown only (`DeadJumpsOnlyInShutdown`); a SIGINT in a
fixture of a test makes its case forget what failed in it before, and what no counter
holds (a test without function, a failed data setup) is then hidden, as it is by a SIGINT
in the shutdown (`VerdictIsRight`); a pooled iterated test whose thread failed
may be registered as a success, and its case reported as one
(`ThreadFailureIsNotSuccess`, `FailedCaseIsReported`); a wait for a child that fills a pipe does not return (`CallsReturn` of `CutProcess`); a
second wait forwards the results once more (`WaitsForward`); a loop with a context of
its own keeps the timer of a dispose (`NothingIsAttached`); the tests of a case whose startup failed, and iterators
whose data could not be set up, are never counted as done, and what a signal has left
incomplete stays on the screen (`ProgressIsWhole`).  Results count only if they are those of a test:
a startup that fails leaves the bar green (`StatusIsWorst`).  What is written from a data-driven
test with an attribute on is relayed in number only (`RelayedAsSent`).

### Bounds, and why they are enough

* `test_run`: a case with a data-driven and a plain test, one with a test without function,
  and an empty one; up to two data and one notification.  Every point of the code is
  entered, with every function giving up or raising a signal, what a case leaves behind is
  met by the next one, a status passes several levels, and the plain test may be
  interrupted when the iterator has failed the case, with and without data.  Give-ups are
  one harmless and one critical status, all the code tells apart, apart from the order of
  severities.  2 million states.
* `threads`: an iterator in one case, a serial iterator and a plain test in the other, two
  threads at most, one datum each; the claim uses two data, with which a pool waits for
  a lost thread.  A larger instance only adds independent threads.  317 thousand states.
* `stream`: two cases in two threads, one data-driven, so that every kind of element
  occurs and messages of different depth interleave on the same stacks in all orders.
  Tests have the attribute, the data-driven one has none; in `attributes_are_relayed` it
  does.  282 thousand states.
* `sub_process`: two processes, one group, four calls (two adds, run, wait; or any
  others), one test per child with success or crash, a buffer of two messages, so that
  a crash is read before, with and after the rest.  375 thousand states.
* `forked`: two forks (two children, or a child that forks again), two process numbers so
  that one is reused, two writes, two calls, one fork that fails, one child that
  somebody kills, pipes that hold two parts: one result, or two writes, fill a pipe.
  Both outputs are treated alike, so that one is enough.  477 thousand states.
* `differ`: texts of up to three lines out of three: two lines that are alike to just the
  cut-off ratio, one with junk at its end, and one like no other; context sizes 0 and 1
  and the default 3.  Three equal lines are more than twice a context of 1, so that runs
  are cut.  278 thousand states.
* `gcut_process`: both streams, pipes that hold two pieces, any number of runs, calls and
  signals: the state has no counters.  82 thousand states.
* `gtk_ui`: all runs of a suite of up to two tests or iterators, in one test case or two,
  with iterators of no test or one, up to two results of a test (the best, one in between,
  or a crash), a pipe of one message, which blocks the child wherever it can be, and two
  runs: what a first run leaves is met by a second, and a third would meet the same.  762
  thousand states.

Deadlock is not checked where the system may stop: in `forked` and `gcut_process` the
processes or the object are gone, in `gtk_ui` the interface waits for the user.

### Type invariants

`TypeOK` of `CutTestRun`, `CutStream`, `CutSubProcess`, `CutProcess` and `GCutProcess` follows
from a proved invariant (`TypeCorrectness`, `ProcessInvariant`); those of the other modules document the
variables.

### Fairness

* `CutTestRun`: weak fairness of the whole step: one thread runs, and every user
  function ends.  A function that never returns stops the real run as well.
* `CutTestThreads`: weak fairness per thread: the scheduler runs every thread, and user
  functions end.  No fairness of cancellation or signals.
* `CutStream`: the main loop goes on reading and the child ends sooner or later.  No
  fairness of what the child writes: it may fall silent and die.
* `CutSubProcess`: the test goes on after a call, each child ends, and the main loop
  serves the sources of each pipeline.  A read that blocks ends because the child does.
* `CutProcess`: weak fairness of each process: the kernel runs it.  A process that is
  blocked in a pipe has no step, and none is assumed.  No fairness of `Die`.
* `GCutProcess`: the thread that waits iterates and returns (`IterateInCall`,
  `WaitReturns`, `DisposeEnds`), and time passes (`TimerExpires`).  None of the child:
  it may write, be silent or live forever.
* `CutGtkUI`: a child that can write does, and it ends once it has written everything;
  the main loop reads and serves timers.  None of the user, of a signal, or of a death.

Liveness that is checked: `CasesAreShutDown`, `RunEnds`, `RunIsCompleted`, `CallsReturn`
of `CutSubProcess`, `CutProcess` and `GCutProcess`, `ComesToRest`, and
`CutRunPromise`'s own fairness in `PromiseSpec`.

### Where code and documents disagree

Each is a run that TLC refutes; `PROJECT.json` has the quotations.

* `claim_threads_end`: an iterated test that gives up in a thread of the pool exits that
  thread, and the run waits forever.
* `claim_fork_failure`: when the pipes of a fork cannot be made, the runner takes itself
  for the child: it sends the failure to nobody, and exits with success or hangs.
* `claim_wait_times_out`: a command that writes all the time keeps the low-priority timeout
  of `gcut_process_wait()` from being dispatched.
* `attributes_are_relayed`: the attribute of a data-driven test (`cut-loader.c:1141`) is set on
  whatever test is on the parser's stack, NULL at first, and is lost at best.

Also seen, without a run of their own:

* an assertion that fails in a data setup is in no counter of the summary; a data-driven
  test whose `cut_setup()` omits runs all the same; a signal in `cut_setup()` of a plain
  test skips its `cut_teardown()` (`TUTORIAL:1046` calls both "surely called"); SIGINT in
  the teardown of a test without function hides that the function is missing;
* each iterator has a pool of its own, so that there may be more threads than
  `--max-threads`; a pooled iterated test is registered as a success though a thread it
  started failed;
* a group waits forever for a member that was not run asynchronously;
* after a `fork()` that failed, `dispose()` sends SIGKILL to pid -1, which is every process
  of the user; the timeout of `cut_wait_process()` is ignored;
* `gcut_process_wait()` takes milliseconds (`gcut-process.h:334`) and passes them as the
  seconds of `gcut_event_loop_add_timeout_full()`: the timeout comes a thousand times
  later.  The models have no units of time.

## Proofs

TLAPS proves, for every value of the constants and without the bounds of the runs:

| Theorem | Module | Statement |
|---|---|---|
| `CrashFramesInvariant` | `CutTestRunProofs` | `Spec => []CrashFramesAreLive` |
| `TypeCorrectness` | `CutTestRunProofs` | `Spec => []TypeOK` |
| `SignalInvariant` | `CutTestRunProofs` | `Spec => []SignalInv`, which the next three use |
| `CanceledRunTheorem` | `CutTestRunProofs` | `Spec => CanceledRunUnwinds` (an action property) |
| `FirstSignalTheorem` | `CutTestRunProofs` | `Spec => []FirstSignalIsCaught` |
| `StartsTheorem` | `CutTestRunProofs` | `Spec => []StartsAreCompleted` |
| `ContextInvariant` | `CutTestRunProofs` | `Spec => []KnownInv`, which the next six use |
| `ContextsTheorem` | `CutTestRunProofs` | `Spec => []ContextsAreLive` |
| `DeadJumpsTheorem` | `CutTestRunProofs` | `Spec => []DeadJumpsOnlyInShutdown` |
| `VerdictTheorem` | `CutTestRunProofs` | `Spec => []VerdictIsRight` |
| `PromiseTheorem` | `CutTestRunProofs` | `Spec => Promise!Spec`: it implements `CutRunPromise` |
| `BodiesTheorem` | `CutTestRunProofs` | `Spec => BodiesYieldResults` (an action property) |
| `CaseStatusTheorem` | `CutTestRunProofs` | `Spec => []CaseStatusIsWorst` |
| `NoWildJumpTheorem` | `CutTestThreadsProofs` | `Spec => []NoWildJump` |
| `CompleteIsLastTheorem` | `CutTestThreadsProofs` | `Spec => []CompleteIsLast` |
| `FailedCaseTheorem` | `CutTestThreadsProofs` | `Spec => []FailedCaseIsReported` |
| `ThreadFailureTheorem` | `CutTestThreadsProofs` | `Spec => []ThreadFailureIsNotSuccess` |
| `PromiseTheorem` | `CutTestThreadsProofs` | `Spec => PromiseSafety`: it implements `CutRunPromise` |
| `StreamInvariant` | `CutStreamProofs` | `Spec => []Inv`, which the next four use |
| `TypeCorrectness` | `CutStreamProofs` | `Spec => []TypeOK` |
| `CompletionTheorem` | `CutStreamProofs` | `Spec => []CompletesOnce` |
| `SuccessTheorem` | `CutStreamProofs` | `Spec => []SuccessIsWhole` |
| `RelayTheorem` | `CutStreamProofs` | `Spec => []RelayedAsSent` |
| `SubProcessInvariant` | `CutSubProcessProofs` | `Spec => []Inv`, which the next five use |
| `TypeCorrectness` | `CutSubProcessProofs` | `Spec => []TypeOK` |
| `VerdictTheorem` | `CutSubProcessProofs` | `Spec => []VerdictIsTheChilds` |
| `ReapedTheorem` | `CutSubProcessProofs` | `Spec => []ReapedIsRead` |
| `ForwardedTheorem` | `CutSubProcessProofs` | `Spec => []ResultsAreForwarded` |
| `GroupVerdictTheorem` | `CutSubProcessProofs` | `Spec => GroupVerdictIsRight` (an action property) |
| `ProcessInvariant` | `CutProcessProofs` | `Spec => []Inv`, which the next three use |
| `TypeCorrectness` | `CutProcessProofs` | `Spec => []TypeOK` |
| `WaitTheorem` | `CutProcessProofs` | `Spec => []WaitsForward` |
| `NoChildTheorem` | `CutProcessProofs` | `Spec => []NoChildIsLeft` |
| `MatcherIsFresh` | `CutDifferProofs` | `Spec => []CachesAreFresh` |
| `OperationsTheorem` | `CutDifferProofs` | `Spec => []OperationsAreADiff` |
| `WrittenTheorem` | `CutDifferProofs` | `Spec => []WrittenIsADiff` |
| `ProcessInvariant` | `GCutProcessProofs` | `Spec => []Inv`, which the next three use |
| `OutputTheorem` | `GCutProcessProofs` | `Spec => []OutputIsReceived` |
| `AnswersTheorem` | `GCutProcessProofs` | `Spec => []AnswersAreRight` |
| `NothingAttachedTheorem` | `GCutProcessProofs` | `Spec => []NothingIsAttached` |
| `UIInvariant` | `CutGtkUIProofs` | `Spec => []IndInv`, which the next three use |
| `NoFreedRowHears` | `CutGtkUIProofs` | `Spec => []RowsAreLive` |
| `ProgressTheorem` | `CutGtkUIProofs` | `Spec => []ProgressIsWhole` |
| `StatusTheorem` | `CutGtkUIProofs` | `Spec => []StatusIsWorst` |

With them each safety property of the passing runs is a theorem.

Assumptions: those named in the modules (`SuiteAssumption`, `GiveUpsAssumption`,
`BoundAssumption` and `HandleSignalsAssumption` of `CutTestRun`, those of `CutTestThreads`,
`CasesAssumption` of `CutStream`, which tells the cases from the suite by their names,
`ChunkAssumption` and `BoundsAssumption` of `CutSubProcess`, `PidsAssumption`,
`ForksAssumption` and `CapacityAssumption` of `CutProcess`, `StreamsAssumption` and
`CapacityAssumption` of `GCutProcess`, `LinesAssumption` and `ContextSizesAssumption` of
`CutDiffer`, `BoundsAssumption` and `ReportedAssumption` of `CutGtkUI`), which TLC evaluates in each run.

### CutTestRun

* *Frames.*  `CrashFramesAreLive` is inductive by itself: `LiveFrames(at)` is the list of
  running frames, and each action appends or removes exactly what its target differs by.
  The signal handler's jumps are the interesting cases: it takes the last frame, and the
  frame's function does not free it again.
* *Types.*  `TypeOK` is not inductive: a step that pops, or writes the top of, the stack of
  contexts needs it to be deep enough.  `TypeInv` adds `StackIsDeep`:
  `Len(ctxs) >= Depth(at)`.  It is an inequality because a signal leaves dead contexts
  on the stack.
* *Signals.*  `SignalInv` relates the one signal a process can catch to the flags: a
  received signal means canceled or crashed; the dead pointer of an iterator
  (`~ok.valid`) means a signal was received; after a signal in an iterated teardown or
  a shutdown only certain points remain; at the entry of user code the run is not
  canceled.  With it, each step of a canceled run stays within the unwinding points
  (`CanceledRunUnwinds`), a second signal is the only one outside of a frame
  (`FirstSignalIsCaught`), and the open start signals follow from `at` and the place of
  the signal (`StartsAreCompleted`).
* *Contexts.*  `StackInv` makes the inequality of `StackIsDeep` an equality, with the owner
  of each context, unless a signal was caught below the context and the run is on its way
  out (`LeftPoints`); `JumpInv` says that the jump buffer on top is the running
  function's, with the one exception.  Both need the frames (which frame catches a signal
  at which point) and `SignalInv` (nothing is entered after it).
* *Verdict.*  `VerdictInv` follows a critical result from where it is reported to the
  verdict.  `CleanUnlessBad`: without one, no flag and no context says failed and no
  counter is critical.  `BadIsKept`: once there is one, it is in the counters, or in the
  flags that will reach the suite's by the path the run is on (a context that failed, a
  test, `run_tests()`, a case), or an interrupt has hidden it.  `FlagIsKept` names the flag
  that holds what no counter does, and the flag an interrupt has lost (`LostFlag`).
  `VerdictIsGiven` is the same at the end.
* *Promise.*  With `VerdictInv`, each step of the run is a step of `CutRunPromise` or a
  stutter: it starts, reports, is interrupted, is lost, or is complete with a verdict.
* *Bodies.*  `BodyInv`: a body has reported nothing as long as it runs, and then one result,
  which is critical, an omission, or a crash; at the end of the test, the success flag
  says which of them.
* *Status of a case.*  `WorstInv`: at the points of a case its status is the worst that was
  reported; at the points of an iterator, it is once the iterator's is added.  It rests on
  the laws of `Worse` (`WorseLaws`) and on the owner of the context on top.

### CutTestThreads

`NoWildJump` and the places a case thread can be in are kept by each action alone;
lemmas say once how an action moves a case (`CaseMoves`) and its flags (`FlagMoves`).
`LastInv`: `CompleteIsLast` with the places typed.  `FlagInv`: a case that was reported long
ago must be done and not be pushed again, and between the moments in which a thread
writes the shared flag and reads it back (`SharedFlagIsLower`), the flag implies the case's
own.  `FailureInv`: a failure of a thread is in the context its test is judged by
(`FailuresAreKnown`), and a test that was registered as a success is past the point where
its threads could fail it (`SuccessesArePast`).  `RememberInv`: until its case is reported, a
failure is in the flag that its place calls for, the context's, the test's or the
iterator's, and then the case's (`Remembered`); with `FlagInv` it gives
`FailedCaseIsReported`.  `PromiseInv`: nothing critical is in the flags and counters
unless it was reported (`CleanUnlessBad`), and what was reported is in a counter, in the shared flag, or in the flag of a case whose thread has still to write
the shared one (`BadIsKept`), for which the main thread has waited (`CompleteIsLast`).

### CutStream

`Inv` says where in the stream the reader is: between two messages (`Between`), at a place of
the last one (`InMessage`), in `<stream>` or the last `<success>` (`InStart`, `InFinale`), past
the end (`Finished`), or at an error (`Broken`).  A place of a message pairs what is still to be
read, which is a suffix of `XML(m)` (`Rest`, and `ObjectPlace` within an object), with what the
parser has made of what it has read (`Built`): the record has the object, then the context, then
the result, and the objects they refer to are those of the message.  While an object is being
read its cell is half written, so that `Built` is said of the heap as it will be at its end
(`Completed`), which reading its name or its attribute does not change (`Overwritten`).
Nothing is said of what older messages left on the stacks: a handler looks at the top of the
stack it has just pushed to (`OnTop`).  That is why the order of the threads, and the
contexts that stay on their stack, do no harm.  `SignalWire` and `ObjectWire` show that the
places follow one another, and `WellFormed`, what the parser needs of a message, is shown of
each one that a test case or the suite writes (`CaseScriptWritten`, `SuiteScript`).  Only
`Built` needs that the message is not a stray one (`TestsOnly`); the place alone is enough for
`CompletesOnce` and `SuccessIsWhole`, which hold of a stream whose objects are misread.  Once a
stray message was written `Inv` says no more of the objects, and the reader may have left the
stream where the behaviour of the code is undefined; `sent.stray` never becomes false again.

### CutSubProcess

What the proof turns on is what a verdict means while the child still runs.  `Settled(p, v)`
says that the child can do nothing any more to make `v` wrong: a success is one of a child
that has said all, a failure is one of a child that has failed already, or is gone, or was
never started, without a word.  Every verdict that is told is settled, and what is settled
stays so (`SettledIsKept`).  `PipesKnown` is why: the parent has read a prefix of what the
child wrote, and the run context of the pipeline is what that prefix makes it (`ReadUpTo`), by
whichever of the three readings it was read; the sources that are still in the loop say what
the parent cannot have seen yet (`ChildKnown`: a child that lives is watched, and one that is
not watched any more has been read, which is `ReapedIsRead`).  `ForwardKnown` counts what went
through the delegation, which the first complete-run ends; a crash is the one way it ends
early.  `GroupVerdicts` follows the counted members: the flag of a group is that of the members
that are not counted any more and of those a group-run has passed.  Where a step tells several
handlers (`told`), `DeliveredVerdicts` shows for one list of signals, whatever is on it, that
each handler ends with a settled verdict.

### CutProcess

A process looks its forks up by pid in a list it has inherited and adds to at the front.
`ListKnown` says what the objects before the first of pid 0 are (`Mine`): its own forks, with
the pid the kernel gave them, failed ones, and its own object; what is behind is the
parent's and is never looked up by a process that knows itself (`CurrentIsFirst`).  A pid
that was reused finds the younger fork because that one is in front (`First`).  `TextKnown`:
what has been read of a fork with what is still in its pipe is exactly what the fork has sent
(`IsStream`), whole results and possibly the first half of one more, so that parsing it
gives those results (`ParsedStream`).  `Waited` is `WaitsForward` with what must hold for it to
go on: a fork that was waited for is not alive and sends nothing more.  `RunnerKnown` is why
`dispose()` reaches every child of the test: as long as the test runs, each child of it that
is alive is in its list.  The least position in a list (`MinExists`) comes from the
well-foundedness of the natural numbers.

### CutDiffer

`CachesAreFresh` is inductive by itself: each accessor uses what is kept or what it
computes from other lists, which are fresh, and stores it (`UsedIsRight`, `StoredIsRight`);
only the groups depend on the context size, and setting it drops them.  For this the
operators of the matcher are not expanded.

`OperationsTheorem` is about what they compute.  The induction theorems of the library take
an operator as a parameter, which the provers cannot instantiate; but `LeastNatural` follows
from the well-foundedness of the natural numbers, and from it `Induction` over a *set* that
has 0 and successors.  With that, each recursive function is shown to be defined
(`RunSizesExist`, `MatchesInExist`, `JoinedExist`, `OperationsExist`: a function that is right
up to a rank becomes right up to the next one, and the ranks are bounded), so that `CHOOSE`
has its equation, and then its values are described by a second induction:

* a size of `RunSizes` is that of a run of equal elements in the window, and the window has
  nothing but junk in common when there is none (`BestMatchIsBest`, `LongestMatchIsRight`);
* the matches of a window do not overlap or cross, and no pair of equal elements is left
  beside all of them (`AreMatches`): a pair is before a match, after it, or across it, and
  the windows before and after have their own matches;
* sorted, joined and ended they are `AreBlocks`, and the operations of a block lead from
  the end of the one before it to its own (`Leads`); what is between two blocks is beside
  all of them, and so has nothing in common.

`WrittenTheorem` uses these operations.  A list of lines that leads from one place of the texts
to another has a *trail*, the places after each of its lines (`IsTrail`), and two such lists, the
second of which leads from where the first one led, have a trail together (`TrailOfBoth`).  So
what is written is built from the bottom:

* marked lines lead through what they are cut from (`DeletedWrites`, `InsertedWrites`,
  `EqualWrites`);
* `diff_lines()` leads through its window, by induction over the height of the window: the
  windows before and after the pair of lines it writes are less high (`DiffsExist`,
  `DiffsWrite`);
* an operation leads from its beginning to its end, and operations that follow one another
  from the first one's beginning to the last one's end (`OperationsWrite`);
* the edges and the long runs that groups leave out are the same in both texts
  (`EdgesCutIsRight`, `LongRun`, `GetGroupedOperationsIsRight`), so that a group with its
  summary leads on from where the group before it ended (`GroupPatches`), and each summary
  counts the lines up to the next one (`PatchesBoth`).

`Passed` is the trail from the beginning of the texts (`PassedIsTrail`).  It needs
`ContextSizesAssumption`: context sizes are natural numbers (they are `guint`s).

### GCutProcess

`Inv` is `TypeOK` and four relations: the pid is the child's as long as it is not reaped
(`PidIsTheChilds`), and so is the child watch; the status of the object is that of the
child that was reaped (`StatusIsTheChilds`); a stream is not watched any more only if it was
read to its end or is broken (`StreamsAreRead`); a timer is that of the call that waits
(`TimerIsTheCalls`).  At the "reaped" signal of a process no stream is ready, because its
priority is higher than the child watch's, and what is not watched is read: nothing is
left.  With the priorities of an egg that does not hold, and `OutputIsReceived` does not
say so of an egg.

### CutGtkUI

`Emitted` calls handlers that make, count and free rows while the signal is emitted, and the
rows that are there depend on all messages so far.  The three properties say too little of
that to be inductive: that no bar shows more tests than there are needs to know how many are
still to come.

* *Stages.*  A stage says where a run is (`at`: in the suite, a test case, a test, an
  iterator, one of its tests, or where a signal has left something incomplete), and how many
  tests are left of the run, of the test case and of the iterator.  `IsStep` says which
  message leads from which stage to which, and needs what is left not to be 0 where a test is
  completed.
* *`ChildSteps`.*  `StageOf(run)` is the stage of the child: a test that is missed or left
  is still counted, and what a jump has left is still begun.  Each message that is
  written leads from it to the next (one lemma per action, `SuiteIsReady` ... `CrashIsWritten`);
  a signal that nobody is told of leaves it where it is (`CaughtStage`, `SuiteStage`).
* *`Leads`.*  The messages in the pipe lead from the stage that the interface has heard of to
  that of the child.  A message that is written leads one step further (`LeadsOn`), one that
  is heard leads to where the others lead from (`LeadsFirst`).
* *`IndInv`.*  What is shown is the stage that has been heard of (`Shows`): the
  connected rows are those of the test case, iterator and test that the stage is in, each
  allocated, with the row above it as its parent, with at least as many tests left as the
  stage has, and with a status no better than those of the rows below it.  Or nobody listens
  any more to a run that is canceled or has crashed (`IsSilent`).  With it goes that the
  status of the interface is the worst that was heard (`WorstIsHeard`).
* *Steps.*  `StepIsFollowed`: the handlers of a message lead from what shows a stage to what
  shows the next one, one lemma per message (`StartTest` ...
  `CompletionOfTheRun`).  It rests on
  `EmittedToNone` and `EmittedToOne` (which rows a signal calls; in a sequential run at most
  one listens) and on what each handler does to one row and those above it (`RaisedRow`,
  `IncrementedRows`, `FreedRow`).  The other steps do not touch connected rows, detach the
  listeners, or start a run that is at its beginning.

What a signal has left connected is the dead end (stages `"dead"` and `"left"`): the row of
its test case has gone, and the proof needs that no later message has it as a listener.

### Only model-checked

* Liveness, and the fairness of `CutRunPromise`: out of the prover's reach.

## What is not modelled

* Lost updates of `*status = MAX(*status, ...)` by several threads, and a crash in a worker
  thread: undefined behaviour in C; the first touches the result a case is shown with, but
  not the verdict, which is taken from the counters (a hazard without a property).
* Filters by name, the order of cases, times, attributes but `"multi-thread"`.
* The stream parser on input no cutter writes, backtraces, single results, file streams.
* A process run twice at once (`cut-sub-process.c:252`), and its disposal while it runs.  (The
  test context owns the sub processes and they own the context, so that the disposal at the
  end of a test does not happen.)
* A process that is forked in a thread, and the Windows variant of it, which does nothing.
* Marks below similar lines, widths of characters, colours, and hash or comparison functions
  that a caller gives to the matcher.
* GCutter: the input of a command, handlers that call the object back or free it, GIO
  streams, other event loops.
* User interface: widgets, texts, the paths of rows, a multi-threaded child (all rows that
  are connected would react to each signal, `cut-gtk-ui.c:1449`), closing the window.
* Loaders, module plug-ins, other user interfaces, reports, option parsing, the helpers of
  the assertion macros, GCutter's values, and the wrappers of GLib, libsoup, GdkPixbuf and
  GStreamer: formats, layout, file system and external libraries, with no state of their own
  that several actors share.  `src/glib-compatible/` (a copy of GLib's regular
  expressions, and of PCRE) is a large part of the source and not Cutter's own.

Hazards that were seen and that no property covers, because the state they need is left out
of the models:

* `cut-test-iterator.c:317`: after a crash in an iterated setup the success pointer is
  NULL (the model has it as `NullSuccess`, which ends the process);
  `cut-run-context.c:1393`: `crashed` is written outside of the mutex;
  `cut-test-suite.c:339`: `--max-threads=0`; `cut-test-iterator.c:435`: a pool per iterator.
* `cut-run-context.c:2524`: the delegation to the test's run context ends with the first
  complete-run; `cut-stream-parser.c:998`: objects that stay on the parser's stacks;
  `cut-stream-reader.c:157`: the child of a canceled run blocks on a full pipe.
* `cut-process.c:186`, `233`: pid -1 is kept, and killed; `202`: the timeout is ignored;
  `314`: a second wait returns a status nobody wrote; `cut-test-context.c:1251`:
  `WEXITSTATUS` of a child that was killed is 0; `989`: a child that returns from its test
  goes on as a second runner (in the model, with what it may still do left out).
* `cut-differ.c:190`: a summary of no lines names one; `cut-gtk-ui.c:1125`: pulse timers of
  a run before a restart look their rows up by a path that names other rows.

## Plan

Written, in this order: `CutTestRun` (the core) with its promise and proofs,
`CutTestThreads`, `CutStream`, `CutSubProcess`, `CutProcess`, `CutSequenceMatcher` and
`CutDiffer`, `GCutProcess`, `CutGtkUI`, and the proofs listed above.  What would come next:

1. `CutPipelineRun`: `CutStream` and `CutSubProcess` composed, with a generation of pipe,
   pid and sources per start (a process run twice at once), crashes whose results arrive
   late, and an abstract sub process (asked, running, judged once) both implement.
2. `CutTestThreads` with reports split into a read and a write (the `MAX` race), and statuses.
3. A multi-threaded child in `CutGtkUI`; the string channel of GCutter with its size limit;
   C++ exceptions as one more way out of the bodies of `CutTestRun`.
