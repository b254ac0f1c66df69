---------------------------- MODULE CutSubProcess ----------------------------
(***************************************************************************)
(* Sub processes of a test: the test makes CutSubProcess objects, each     *)
(* with a pipeline that runs a child cutter, puts them in a group, starts  *)
(* them and waits (cut-sub-process.c, cut-sub-process-group.c,             *)
(* cut-pipeline.c, cut-stream-reader.c, cut-runner.c).                     *)
(*                                                                         *)
(* The test is one thread.  It makes any calls in any order; the main loop *)
(* runs only inside of those that wait.  The end of a child is seen twice, *)
(* by the hang-up of its pipe and by the child watch, in any order.        *)
(*                                                                         *)
(* What the child writes is a sequence of messages; CutStream has what     *)
(* becomes of one message.  Here a message is "start", the status of a     *)
(* test or "complete".                                                     *)
(***************************************************************************)
EXTENDS Integers, Sequences, SequencesExt, FiniteSets

CONSTANTS
  Processes,   \* the sub processes
  Results,     \* the statuses of the tests of a child
  MaxResults,  \* bound: the tests of a child
  Chunk,       \* the messages that fill the buffer of the stream reader
  MaxCalls,    \* bound: the calls of the test
  NoProcess    \* a value that is not in Processes

ASSUME ChunkAssumption == Chunk \in Nat \ {0}
ASSUME BoundsAssumption == MaxCalls \in Nat

VARIABLES
  call,      \* the call the test is in, and the processes it has still to start
  calls,     \* the number of calls made
  process,   \* CutSubProcessPrivate of each process
  group,     \* CutSubProcessGroupPrivate, and the processes it has a handler on
  pipeline,  \* the run context of each process: its reader and what it was told
  sources,   \* the event sources of each pipeline in the main loop
  reading,   \* the pipeline whose read blocks the main loop, or NoProcess
  child,     \* "none", "alive" or "dead"
  written,   \* the messages each child has written
  taken,     \* how many of them the parent has read
  forwarded  \* history: how many of them reached the test's run context

childVars == <<child, written>>
vars == <<call, calls, process, group, pipeline, sources, reading, childVars,
          taken, forwarded>>

Passes(s) == s \notin {"pending", "failure", "error", "crash"}
\* What the child's own run ends with.
Succeeded(p) == /\ Contains(written[p], "complete")
                /\ \A i \in DOMAIN written[p] : Passes(written[p][i])

Idle == [op |-> "none", todo |-> <<>>, started |-> FALSE, received |-> <<>>]
Call(op, todo) == [Idle EXCEPT !.op = op, !.todo = todo]

NewPipeline == [stream |-> "none", critical |-> FALSE, crashed |-> FALSE,
                completed |-> FALSE, error |-> FALSE, ended |-> FALSE,
                told |-> <<>>]

TypeOK ==
  /\ call.op \in {"none", "async", "run", "group-run", "wait", "group-wait"}
  /\ Range(call.todo) \subseteq Processes
  /\ calls \in 0 .. MaxCalls
  /\ process \in [Processes -> [running : BOOLEAN, isRan : BOOLEAN,
                                success : BOOLEAN, connected : BOOLEAN]]
  /\ group.uncompleted \in Nat /\ group.allSuccess \in BOOLEAN
  /\ group.counted \subseteq Range(group.members)
  /\ Range(group.members) \subseteq Processes
  /\ sources \in [Processes -> [stream : BOOLEAN, watch : BOOLEAN]]
  /\ reading \in Processes \cup {NoProcess}
  /\ child \in [Processes -> {"none", "alive", "dead"}]
  /\ \A p \in Processes : forwarded[p] <= taken[p] /\ taken[p] <= Len(written[p])

Init ==
  /\ call = Idle /\ calls = 0
  /\ process = [p \in Processes |-> [running |-> FALSE, isRan |-> FALSE,
                                     success |-> TRUE, connected |-> FALSE]]
  /\ group = [members |-> <<>>, counted |-> {}, uncompleted |-> 0,
              allSuccess |-> TRUE]
  /\ pipeline = [p \in Processes |-> NewPipeline]
  /\ sources = [p \in Processes |-> [stream |-> FALSE, watch |-> FALSE]]
  /\ reading = NoProcess
  /\ child = [p \in Processes |-> "none"]
  /\ written = [p \in Processes |-> <<>>]
  /\ taken = [p \in Processes |-> 0]
  /\ forwarded = [p \in Processes |-> 0]

-----------------------------------------------------------------------------
\* The child.

ChildWrites(p) ==
  /\ child[p] = "alive" /\ ~Contains(written[p], "complete")
  /\ \E m \in IF written[p] = <<>> THEN {"start"}
              ELSE IF Len(written[p]) <= MaxResults
              THEN Results \cup {"complete"} ELSE {"complete"} :
       written' = [written EXCEPT ![p] = Append(@, m)]
  /\ UNCHANGED <<call, calls, process, group, pipeline, sources, reading, child,
                 taken, forwarded>>

\* By itself after "complete", or killed at any time.
ChildEnds(p) ==
  /\ child[p] = "alive"
  /\ child' = [child EXCEPT ![p] = "dead"]
  /\ UNCHANGED <<call, calls, process, group, pipeline, sources, reading,
                 written, taken, forwarded>>

-----------------------------------------------------------------------------
\* The run context of a pipeline.  "told" holds the complete-runs of one step.

\* cut_run_context_emit_complete_run().
BugCompleteRun(s, success) ==
  [s EXCEPT !.completed = TRUE, !.told = Append(@, success)]
CompleteRun(s, success) ==
  [s EXCEPT !.completed = TRUE, !.told = Append(@, success /\ ~s.critical)]

\* What is read at once, in the parser.  Its order is that of the child: "start"
\* comes before all others and "complete" after them.
Take(s, msgs) ==
  LET read == [s EXCEPT !.stream = IF "complete" \in msgs THEN "closed"
                                   ELSE IF "start" \in msgs THEN "open" ELSE @,
                        !.critical = @ \/ \E m \in msgs : ~Passes(m),
                        !.crashed = @ \/ "crash" \in msgs]
  IN IF "complete" \in msgs THEN CompleteRun(read, TRUE) ELSE read

\* cut_stream_reader_end_read().
BugEndRead(s) ==
  IF s.stream = "closed" THEN [s EXCEPT !.ended = TRUE]
                         ELSE [s EXCEPT !.error = TRUE]
EndRead(s) ==
  IF s.stream = "closed" THEN [s EXCEPT !.ended = TRUE]
                         ELSE CompleteRun([s EXCEPT !.error = TRUE], FALSE)

\* read_channel(), after the read.
Canceled(s) == IF s.crashed THEN CompleteRun(s, TRUE) ELSE s

\* cb_complete_run() of the group.
BugAllSuccess(success) == success
AllSuccess(success) == group.allSuccess /\ success
StillCounted(p) == group.counted \ {p}

\* The handlers of complete-run: each is called once, for the first emission
\* after it was connected.  pr is the sub process and c the call at that time.
Deliver(p, s, pr, c) ==
  LET told == s.told # <<>>
  IN /\ pipeline' = [pipeline EXCEPT ![p] = [s EXCEPT !.told = <<>>]]
     /\ process' = [process EXCEPT ![p] =
          IF told /\ pr.connected
          THEN [running |-> FALSE, isRan |-> TRUE, success |-> Head(s.told),
                connected |-> FALSE]
          ELSE pr]
     /\ group' = IF told /\ p \in group.counted
                 THEN [group EXCEPT !.uncompleted = @ - 1,
                         !.counted = StillCounted(p),
                         !.allSuccess = AllSuccess(Head(s.told))]
                 ELSE group
     /\ call' = IF told /\ c.op \in {"run", "group-run"} /\ c.started
                   /\ p = Head(c.todo)
                THEN [c EXCEPT !.received = <<Last(s.told)>>]
                ELSE c

\* The next n messages in the pipe.
Unread(p, n) == {written[p][i] : i \in taken[p] + 1 .. taken[p] + n}

\* The delegation to the test's run context ends with the first complete-run.
Forward(p, n) ==
  /\ taken' = [taken EXCEPT ![p] = @ + n]
  /\ forwarded' =
       [forwarded EXCEPT ![p] =
          IF pipeline[p].completed THEN @
          ELSE IF "complete" \in Unread(p, n) THEN taken[p] + n - 1
                                              ELSE taken[p] + n]

-----------------------------------------------------------------------------
\* run_async() of a pipeline, called by the sub process with the state pr.

Start(p, pr, c) ==
  \/ \* The pipe, the command line or the child cannot be made.
     /\ Deliver(p, CompleteRun(pipeline[p], FALSE), pr, c)
     /\ UNCHANGED <<sources, child>>
  \/ /\ Deliver(p, pipeline[p], pr, c)
     /\ sources' = [sources EXCEPT ![p] = [stream |-> TRUE, watch |-> TRUE]]
     /\ child' = [child EXCEPT ![p] = "alive"]

-----------------------------------------------------------------------------
\* The calls of the test.

Calls(c) ==
  /\ call = Idle /\ calls < MaxCalls
  /\ calls' = calls + 1
  /\ call' = c
  /\ UNCHANGED <<process, pipeline, sources, reading, childVars, taken,
                 forwarded>>

Add(p) ==
  /\ ~Contains(group.members, p)
  /\ Calls(Idle)
  /\ group' = [group EXCEPT !.members = <<p>> \o @, !.counted = @ \cup {p},
                 !.uncompleted = @ + 1]

CallAsync(p)  == Calls(Call("async", <<p>>)) /\ UNCHANGED group
CallWait(p)   == Calls(Call("wait", <<p>>)) /\ UNCHANGED group
GroupRunAsync == Calls(Call("async", group.members)) /\ UNCHANGED group
GroupWait     == Calls(Call("group-wait", <<>>)) /\ UNCHANGED group
\* A process that runs already is not run again by itself.
CallRun(p) ==
  ~process[p].running /\ Calls(Call("run", <<p>>)) /\ UNCHANGED group
GroupRun ==
  /\ \A p \in Range(group.members) : ~process[p].running
  /\ Calls(Call("group-run", group.members)) /\ UNCHANGED group

\* cut_sub_process_run_async() of the next process.
RunAsync ==
  /\ call.op = "async" /\ call.todo # <<>>
  /\ LET p == Head(call.todo)
         c == [call EXCEPT !.todo = Tail(@)]
     IN IF process[p].isRan \/ process[p].running
        THEN /\ call' = c
             /\ UNCHANGED <<process, group, pipeline, sources, child>>
        ELSE Start(p, [running |-> TRUE, isRan |-> FALSE, success |-> TRUE,
                       connected |-> TRUE], c)
  /\ UNCHANGED <<calls, reading, written, taken, forwarded>>

\* cut_sub_process_run() of the next process, to the loop of cut_runner_run().
Run ==
  /\ call.op \in {"run", "group-run"} /\ call.todo # <<>> /\ ~call.started
  /\ LET p == Head(call.todo)
     IN IF process[p].isRan
        THEN /\ call' = [call EXCEPT !.todo = Tail(@)]
             /\ group' = IF call.op = "group-run" /\ ~process[p].success
                         THEN [group EXCEPT !.allSuccess = FALSE] ELSE group
             /\ UNCHANGED <<process, pipeline, sources, child>>
        ELSE Start(p, [process[p] EXCEPT !.running = TRUE],
                   [call EXCEPT !.started = TRUE])
  /\ UNCHANGED <<calls, reading, written, taken, forwarded>>

RunReturns ==
  /\ call.started /\ call.received # <<>> /\ reading = NoProcess
  /\ LET p == Head(call.todo)
     IN /\ process' = [process EXCEPT ![p] =
             [@ EXCEPT !.running = FALSE, !.isRan = TRUE,
                       !.success = Head(call.received)]]
        /\ group' = IF call.op = "group-run" /\ ~Head(call.received)
                    THEN [group EXCEPT !.allSuccess = FALSE] ELSE group
  /\ call' = [Idle EXCEPT !.op = call.op, !.todo = Tail(call.todo)]
  /\ UNCHANGED <<calls, pipeline, sources, reading, childVars, taken, forwarded>>

\* The calls that have nothing to wait for any more.
WaitIsOver == call.op = "wait" /\ ~process[Head(call.todo)].running
GroupWaitIsOver == call.op = "group-wait" /\ group.uncompleted = 0
NothingToDo == call.op \in {"async", "run", "group-run"} /\ call.todo = <<>>

Returns ==
  /\ WaitIsOver \/ GroupWaitIsOver \/ NothingToDo
  /\ reading = NoProcess
  /\ call' = Idle
  /\ UNCHANGED <<calls, process, group, pipeline, sources, reading, childVars,
                 taken, forwarded>>

-----------------------------------------------------------------------------
\* The main loop, in the calls that wait.

InLoop ==
  /\ reading = NoProcess
  /\ call.op \in {"wait", "group-wait"} \/ call.started

\* g_io_channel_read_chars() returns when the buffer is full or the pipe is at
\* its end: until then the loop is blocked.
BeginRead(p) ==
  /\ InLoop
  /\ sources[p].stream /\ taken[p] < Len(written[p])
  /\ reading' = p
  /\ UNCHANGED <<call, calls, process, group, pipeline, sources, childVars,
                 taken, forwarded>>

ReadChannel(p) ==
  LET n == Len(written[p]) - taken[p]
      k == IF n < Chunk THEN n ELSE Chunk
      s == Canceled(Take(pipeline[p], Unread(p, k)))
  IN /\ reading = p
     /\ n >= Chunk \/ child[p] = "dead"
     /\ Deliver(p, s, process[p], call)
     /\ Forward(p, k)
     /\ sources' = [sources EXCEPT ![p].stream = ~s.completed]
     /\ reading' = NoProcess
     /\ UNCHANGED <<calls, childVars>>

\* cut_stream_reader_read_from_io_channel_to_end() of a child that is dead.
BugReadToEnd(p) ==
  IF pipeline[p].ended \/ pipeline[p].error
  THEN UNCHANGED <<pipeline, process, group, call, taken, forwarded>>
  ELSE /\ Deliver(p, EndRead(pipeline[p]), process[p], call)
       /\ UNCHANGED <<taken, forwarded>>
ReadToEnd(p) ==
  IF pipeline[p].ended \/ pipeline[p].error
  THEN UNCHANGED <<pipeline, process, group, call, taken, forwarded>>
  ELSE LET n == Len(written[p]) - taken[p]
       IN /\ Deliver(p, EndRead(Take(pipeline[p], Unread(p, n))), process[p], call)
          /\ Forward(p, n)

\* Polled with the read of what is left, which comes first, or alone.
HungUpChannel(p) ==
  /\ InLoop /\ sources[p].stream /\ child[p] = "dead"
  /\ ReadToEnd(p)
  /\ sources' = [sources EXCEPT ![p].stream = FALSE]
  /\ UNCHANGED <<calls, reading, childVars>>

\* child_watch_func(): what is left is read before the child is reaped.
BugChildWatch(p) ==
  /\ InLoop /\ sources[p].watch /\ child[p] = "dead"
  /\ sources' = [sources EXCEPT ![p].watch = FALSE]
  /\ UNCHANGED <<call, calls, process, group, pipeline, reading, childVars, taken,
                 forwarded>>
ChildWatch(p) ==
  /\ InLoop /\ sources[p].watch /\ child[p] = "dead"
  /\ ReadToEnd(p)
  /\ sources' = [sources EXCEPT ![p].watch = FALSE]
  /\ UNCHANGED <<calls, reading, childVars>>

\* cut_run_iteration() with nothing to dispatch: it does not block.
EmptyIteration == InLoop /\ UNCHANGED vars

-----------------------------------------------------------------------------
ClientCalls ==
  \/ \E p \in Processes : Add(p) \/ CallAsync(p) \/ CallWait(p) \/ CallRun(p)
  \/ GroupRunAsync
  \/ GroupWait
  \/ GroupRun

Loop(p) == BeginRead(p) \/ ReadChannel(p) \/ HungUpChannel(p) \/ ChildWatch(p)
Client == RunAsync \/ Run \/ RunReturns \/ Returns
Finished == call = Idle /\ calls = MaxCalls /\ UNCHANGED vars

Next ==
  \/ ClientCalls
  \/ RunAsync
  \/ Run
  \/ RunReturns
  \/ Returns
  \/ \E p \in Processes : ChildWrites(p) \/ ChildEnds(p)
  \/ \E p \in Processes : Loop(p)
  \/ EmptyIteration
  \/ Finished

Spec == Init /\ [][Next]_vars
\* The test goes on, every child ends, the main loop serves every source.
FairSpec == /\ Spec /\ WF_vars(Client)
            /\ \A p \in Processes : WF_vars(ChildEnds(p)) /\ WF_vars(Loop(p))

-----------------------------------------------------------------------------
\* A process that has been run is a success exactly when its child said it was
\* complete and all of its tests passed: not when it could not be started, was
\* killed, or crashed while others were read (is_success of cut-sub-process.c).
VerdictIsTheChilds ==
  \A p \in Processes : process[p].isRan => process[p].success = Succeeded(p)

\* What cut_sub_process_group_run() and _wait() return, in whatever order the
\* processes were added, started and completed.
GroupVerdictIsRight ==
  [][call.op \in {"group-run", "group-wait"} /\ call' = Idle =>
       group.allSuccess = (\A p \in Range(group.members) : Succeeded(p))]_vars

\* When a process is told to be complete, everything its child wrote has reached
\* the test's run context, also what was in the pipe when the child died.  A
\* crash is the exception: read_channel() completes the run at once.
ResultsAreForwarded ==
  \A p \in Processes :
    process[p].isRan /\ ~pipeline[p].crashed =>
      forwarded[p] = Cardinality({i \in DOMAIN written[p] :
                                    written[p][i] # "complete"})

\* A child is reaped only when its pipe is empty (child_watch_func()).
ReapedIsRead ==
  \A p \in Processes :
    child[p] = "dead" /\ ~sources[p].watch => taken[p] = Len(written[p])

\* A call for one process, and one for a group all of whose processes run or have
\* completed since they were added, returns.
CallsReturn ==
  /\ call.op \in {"async", "run", "group-run", "wait"} ~> call = Idle
  /\ (/\ call.op = "group-wait"
      /\ \A p \in group.counted : process[p].running) ~> call = Idle
=============================================================================
