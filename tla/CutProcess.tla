------------------------------ MODULE CutProcess ------------------------------
(***************************************************************************)
(* cut_fork(), cut_wait_process() and the pipes between a test and the     *)
(* processes it forks (cut-process.c and the part of cut-test-context.c    *)
(* that keeps the list of CutProcess objects).                             *)
(*                                                                         *)
(* A fork copies the whole program: parent and child run the same test     *)
(* function, each with a list of objects of its own.  A process knows that *)
(* it is a child by an object whose pid is 0.  The runner is process 0,    *)
(* the k-th fork makes process k with three pipes to its parent; a child   *)
(* may fork again.  The numbers the kernel gives (Pids) are reused as soon *)
(* as a process is waited for.                                             *)
(*                                                                         *)
(* A test waits for, and reads from, the processes it forked itself, and   *)
(* checks errno after cut_fork() as the documented example does.  The test *)
(* is not in multi-thread mode, where cut_fork() omits it.                 *)
(***************************************************************************)
EXTENDS Integers, Sequences, SequencesExt, FiniteSets

CONSTANTS
  Outputs,    \* "stdout" and "stderr", which are treated alike
  Pids,       \* the process numbers of the kernel
  MaxForks,   \* bound: the processes that are forked
  MaxWrites,  \* bound: what the children write and report
  MaxCalls,   \* bound: the calls the processes make on their children
  MaxFailures,\* bound: the forks that fail
  MaxDeaths,  \* bound: the children that somebody else kills
  Capacity    \* what a pipe holds

ASSUME PidsAssumption == Pids \subseteq Nat \ {0}
ASSUME ForksAssumption == MaxForks \in Nat
ASSUME CapacityAssumption == Capacity \in Nat \ {0}

Runner == 0
Forks == 1 .. MaxForks
Processes == Forks \cup {Runner}

VARIABLES
  state,     \* of each process, see TypeOK
  call,      \* the call a process is in
  objects,   \* priv->processes of the test's context, in each process
  pidOf,     \* the number of each process
  parent,    \* who forked it
  results,   \* the pipe each process sends its results through
  output,    \* what each process has written to stdout and stderr, and how
             \* much of it has been read
  budget,    \* the writes, calls, failures and deaths that are left
  sent,      \* history: the number of results each process has sent whole
  emitted,   \* history: the results emitted by the waits for each process
  waits      \* history: the number of those waits

vars == <<state, call, objects, pidOf, parent, results, output, budget,
          sent, emitted, waits>>
pipes == <<results, output>>
history == <<sent, emitted, waits>>

NoCall == [op |-> "none", fork |-> 0, stream |-> "none", last |-> FALSE]
Call(op, k, s, last) == [op |-> op, fork |-> k, stream |-> s, last |-> last]
\* A part of the text of the n-th result of process p.
Part(p, n, which) == [from |-> p, n |-> n, part |-> which]

TypeOK ==
  \* a process in its test, one that has left it and goes on as a runner, one
  \* that waits to be waited for
  /\ state \in [Processes -> {"none", "body", "runaway", "zombie", "reaped",
                              "done", "exited", "stuck"}]
  /\ \A p \in Processes :
       /\ call[p].op \in {"none", "write", "send", "send-rest", "reap",
                          "collect", "read", "failed"}
       /\ \A o \in Range(objects[p]) : o.pid \in Pids \cup {0, -1}
  /\ pidOf \in [Processes -> Pids \cup {0}]
  /\ parent \in [Processes -> Processes]
  /\ \A k \in Processes : Len(results[k]) <= Capacity

Init ==
  /\ state = [p \in Processes |-> IF p = Runner THEN "body" ELSE "none"]
  /\ call = [p \in Processes |-> NoCall]
  /\ objects = [p \in Processes |-> <<>>]
  /\ pidOf = [p \in Processes |-> 0]
  /\ parent = [p \in Processes |-> Runner]
  /\ results = [p \in Processes |-> <<>>]
  /\ output = [p \in Processes |-> [s \in Outputs |-> [wrote |-> 0, read |-> 0]]]
  /\ budget = [writes |-> MaxWrites, calls |-> MaxCalls,
              failures |-> MaxFailures, deaths |-> MaxDeaths]
  /\ sent = [p \in Processes |-> 0]
  /\ emitted = [p \in Processes |-> <<>>]
  /\ waits = [p \in Processes |-> 0]

-----------------------------------------------------------------------------
\* The kernel.

Alive(p) == state[p] \in {"body", "runaway", "done", "stuck"}
Unreaped(p) == Alive(p) \/ (state[p] = "zombie" /\ Alive(parent[p]))
FreePids == Pids \ {pidOf[p] : p \in {q \in Forks : Unreaped(q)}}

\* k and the processes forked below it: they inherit what k has open.
Below(k) ==
  {p \in Processes :
     /\ state[p] # "none"
     /\ \A S \in SUBSET Processes :
          k \in S /\ (\A q \in Forks : parent[q] \in S => q \in S) => p \in S}

\* At the end of a pipe: nobody has the end that is written to.  stdout and
\* stderr are replaced in each child, the results pipe is inherited.
BugWriters(k, stream) ==
  {p \in Processes : Alive(p) /\ p \in {k, parent[k]}}
Writers(k, stream) ==
  {p \in IF stream = "result" THEN Below(k) ELSE {k} : Alive(p)}
Readers(k) ==
  {p \in Processes : /\ Alive(p)
                     /\ \E o \in Range(objects[p]) : o.fork = k /\ o.io = "parent"}
Content(k, stream) ==
  IF stream = "result" THEN Len(results[k])
                       ELSE output[k][stream].wrote - output[k][stream].read
IsFull(k, stream) == Content(k, stream) = Capacity

Ended(ends) ==
  [p \in Processes |-> IF p \in ends /\ Alive(p) THEN "zombie" ELSE state[p]]
\* kill(pid, SIGKILL).
Killed(p, pid) ==
  {q \in Forks : /\ Unreaped(q)
                 /\ IF pid = -1 THEN q # p ELSE pidOf[q] = pid}

Returns(p) == call' = [call EXCEPT ![p] = NoCall]

-----------------------------------------------------------------------------
\* The list of objects.

Object(k, pid, io) == [fork |-> k, pid |-> pid, io |-> io, text |-> <<>>]

BugAdded(o, list) == Append(list, o)
Added(o, list) == <<o>> \o list

\* get_process_from_pid(): the position of the first with this pid, or 0.
ProcessFromPid(list, pid) == SelectInSeq(list, LAMBDA o : o.pid = pid)

\* The objects a process has added by itself: those before its own.
OwnForks(p) ==
  LET own == ProcessFromPid(objects[p], 0)
  IN {i \in DOMAIN objects[p] : /\ objects[p][i].pid > 0
                                /\ own = 0 \/ i < own}

\* The test function ends, by itself or by a failure: the test's context is
\* disposed of, and with it the objects.  A child goes on as a second runner.
BugDisposed(p) ==
  IF objects[p] = <<>> \/ Head(objects[p]).pid = 0 THEN {}
  ELSE Killed(p, Head(objects[p]).pid)
Disposed(p) ==
  UNION {Killed(p, o.pid) : o \in {x \in Range(objects[p]) : x.pid # 0}}

Dispose(p) ==
  /\ state' = LET ended == Ended(Disposed(p))
              IN IF ended[p] = "zombie" THEN ended
                 ELSE [ended EXCEPT ![p] = IF p = Runner THEN "done" ELSE "runaway"]
  /\ objects' = [objects EXCEPT ![p] = <<>>]
  /\ Returns(p)
  /\ UNCHANGED <<pidOf, parent, pipes, budget, history>>

Free(p) == state[p] = "body" /\ call[p].op = "none"

Return(p) == Free(p) /\ Dispose(p)

-----------------------------------------------------------------------------
\* cut_fork(): prepare_pipes().

NextFork == {k \in Forks : state[k] = "none" /\ \A i \in 1 .. k - 1 : state[i] # "none"}

Fork(p) ==
  /\ Free(p)
  /\ \E k \in NextFork, pid \in FreePids :
       /\ state' = [state EXCEPT ![k] = "body"]
       /\ objects' = [objects EXCEPT
            ![p] = Added(Object(k, pid, "parent"), objects[p]),
            ![k] = Added(Object(k, 0, "child"), objects[p])]
       /\ pidOf' = [pidOf EXCEPT ![k] = pid]
       /\ parent' = [parent EXCEPT ![k] = p]
  /\ UNCHANGED <<call, pipes, budget, history>>

\* fork() fails: the pid is kept, -1.  pipe() fails: the object keeps pid 0
\* and has no channel.  Both return -1, and the test fails by errno.
ForkFails(p) ==
  /\ Free(p) /\ budget.failures > 0
  /\ budget' = [budget EXCEPT !.failures = @ - 1]
  /\ \E o \in {Object(0, -1, "parent"), Object(0, 0, "none")} :
       objects' = [objects EXCEPT ![p] = Added(o, objects[p])]
  /\ call' = [call EXCEPT ![p] = Call("failed", 0, "none", TRUE)]
  /\ UNCHANGED <<state, pidOf, parent, pipes, history>>

-----------------------------------------------------------------------------
\* cut_test_context_process_current_result(): a result is emitted, or sent to
\* the parent.  All but a notification end the test function ("last").

Report(p, last) ==
  LET own == ProcessFromPid(objects[p], 0)
      o == objects[p][own]
  IN \/ /\ own = 0 /\ last /\ Dispose(p)
     \/ /\ own # 0 /\ o.io = "child"
        /\ call' = [call EXCEPT ![p] = Call("send", o.fork, "result", last)]
        /\ budget' = [budget EXCEPT !.writes = IF @ > 0 THEN @ - 1 ELSE @]
        /\ UNCHANGED <<state, objects, pidOf, parent, pipes, history>>
     \* The object of a pipe() that failed, in a process that is no child of
     \* it: bytes_written is read uninitialized until the loop ends, if it
     \* ever does, in cut_process_exit().
     \/ /\ own # 0 /\ o.io = "none"
        /\ \E st \in {"exited", "stuck"} :
             state' = [state EXCEPT ![p] =
                         IF st = "exited" /\ p # Runner THEN "zombie" ELSE st]
        /\ Returns(p)
        /\ UNCHANGED <<objects, pidOf, parent, pipes, budget, history>>

ReportResult(p) ==
  /\ Free(p) /\ budget.writes > 0
  /\ \E last \in BOOLEAN : Report(p, last)
ReportForkFailure(p) ==
  state[p] = "body" /\ call[p].op = "failed" /\ Report(p, TRUE)

\* cut_process_send_test_result_to_parent(), in two parts that a full pipe or
\* the end of the process may come between, and cut_process_exit().
Send(p) ==
  /\ state[p] = "body" /\ call[p].op \in {"send", "send-rest"}
  /\ LET k == call[p].fork
         n == sent[p] + 1
     IN /\ ~IsFull(k, "result") /\ Readers(k) # {}
        /\ \/ /\ call[p].op = "send"
              /\ results' = [results EXCEPT ![k] = Append(@, Part(p, n, "begin"))]
              /\ call' = [call EXCEPT ![p].op = "send-rest"]
              /\ UNCHANGED <<state, sent>>
           \/ /\ call[p].op = "send-rest"
              /\ results' = [results EXCEPT ![k] = Append(@, Part(p, n, "end"))]
              /\ sent' = [sent EXCEPT ![p] = n]
              /\ state' = IF call[p].last THEN Ended({p}) ELSE state
              /\ Returns(p)
  /\ UNCHANGED <<objects, pidOf, parent, output, budget, emitted, waits>>

-----------------------------------------------------------------------------
\* What a child does by itself.

StartWrite(p) ==
  /\ Free(p) /\ p # Runner /\ budget.writes > 0
  /\ \E s \in Outputs : call' = [call EXCEPT ![p] = Call("write", p, s, FALSE)]
  /\ budget' = [budget EXCEPT !.writes = @ - 1]
  /\ UNCHANGED <<state, objects, pidOf, parent, pipes, history>>

Write(p) ==
  /\ state[p] = "body" /\ call[p].op = "write"
  /\ ~IsFull(p, call[p].stream) /\ Readers(p) # {}
  /\ output' = [output EXCEPT ![p][call[p].stream].wrote = @ + 1]
  /\ Returns(p)
  /\ UNCHANGED <<state, objects, pidOf, parent, results, budget, history>>

End(p) ==
  /\ state' = Ended({p})
  /\ UNCHANGED <<call, objects, pidOf, parent, pipes, budget, history>>

\* _exit(), or the end of the second runner.
Exit(p) == p # Runner /\ (Free(p) \/ state[p] = "runaway") /\ End(p)

\* SIGPIPE.
BrokenPipe(p) ==
  /\ state[p] = "body" /\ call[p].op \in {"write", "send", "send-rest"}
  /\ Readers(call[p].fork) = {}
  /\ End(p)

\* Somebody else kills it.
Die(p) ==
  /\ state[Runner] = "body" /\ p # Runner /\ Alive(p) /\ budget.deaths > 0
  /\ state' = Ended({p})
  /\ budget' = [budget EXCEPT !.deaths = @ - 1]
  /\ UNCHANGED <<call, objects, pidOf, parent, pipes, history>>

-----------------------------------------------------------------------------
\* cut_wait_process() and cut_fork_get_stdout_message().

\* Position of the object of the call in the list.
Current(p) == SelectInSeq(objects[p], LAMBDA o : o.fork = call[p].fork)

StartCall(p) ==
  /\ Free(p) /\ budget.calls > 0
  /\ \E i \in OwnForks(p) :
       LET k == objects[p][ProcessFromPid(objects[p], objects[p][i].pid)].fork
       IN call' \in {[call EXCEPT ![p] = c] :
                       c \in {Call("reap", k, "result", FALSE)}
                             \cup {Call("read", k, s, FALSE) : s \in Outputs}}
  /\ budget' = [budget EXCEPT !.calls = @ - 1]
  /\ UNCHANGED <<state, objects, pidOf, parent, pipes, history>>

\* waitpid(): the child with this number, or none that is left (ECHILD; the
\* status is not set).
Reap(p) ==
  /\ state[p] = "body" /\ call[p].op = "reap"
  /\ LET children == {q \in Forks : /\ parent[q] = p /\ Unreaped(q)
                                    /\ pidOf[q] = objects[p][Current(p)].pid}
     IN /\ \A q \in children : state[q] = "zombie"
        /\ state' = [q \in Processes |-> IF q \in children THEN "reaped" ELSE state[q]]
  /\ call' = [call EXCEPT ![p].op = "collect"]
  /\ UNCHANGED <<objects, pidOf, parent, pipes, budget, history>>

\* The results in a text: it is cut at each beginning of one; what has no end
\* is no result.
Parsed(text) ==
  LET ends == {i \in DOMAIN text : text[i].part = "end"}
      Nth(j) == text[CHOOSE i \in ends : Cardinality({h \in ends : h <= i}) = j]
  IN [j \in 1 .. Cardinality(ends) |-> [from |-> Nth(j).from, n |-> Nth(j).n]]

\* ensure_collect_result(), to the end of the pipe, and the signals for all
\* results that are in the text.
BugCollected(text, k) == results[k]
Collected(text, k) == text \o results[k]

Collect(p) ==
  /\ state[p] = "body" /\ call[p].op = "collect"
  /\ LET k == call[p].fork
         text == Collected(objects[p][Current(p)].text, k)
     IN /\ Writers(k, "result") = {}
        /\ objects' = [objects EXCEPT ![p][Current(p)].text = text]
        /\ results' = [results EXCEPT ![k] = <<>>]
        /\ emitted' = [emitted EXCEPT ![k] = @ \o Parsed(text)]
        /\ waits' = [waits EXCEPT ![k] = @ + 1]
  /\ Returns(p)
  /\ UNCHANGED <<state, pidOf, parent, output, budget, sent>>

\* g_io_channel_read_to_end().
Read(p) ==
  /\ state[p] = "body" /\ call[p].op = "read"
  /\ LET k == call[p].fork
         s == call[p].stream
     IN \/ /\ Content(k, s) > 0
           /\ output' = [output EXCEPT ![k][s].read = output[k][s].wrote]
           /\ UNCHANGED call
        \/ /\ Content(k, s) = 0 /\ Writers(k, s) = {}
           /\ Returns(p)
           /\ UNCHANGED output
  /\ UNCHANGED <<state, objects, pidOf, parent, results, budget, history>>

-----------------------------------------------------------------------------
\* What a process does next, and what happens to it.  The model ends with the
\* runner's test: nobody sees what processes it left behind do.
Step(p) ==
  /\ state[Runner] = "body"
  /\ \/ Return(p) \/ Fork(p) \/ ForkFails(p) \/ ReportResult(p) \/ ReportForkFailure(p)
     \/ Send(p) \/ StartWrite(p) \/ Write(p) \/ Exit(p) \/ BrokenPipe(p)
     \/ StartCall(p) \/ Reap(p) \/ Collect(p) \/ Read(p)

Next == \E p \in Processes : Step(p) \/ Die(p)

Spec == Init /\ [][Next]_vars
\* The scheduler runs every process.
FairSpec == Spec /\ \A p \in Processes : WF_vars(Step(p))

-----------------------------------------------------------------------------
\* A wait forwards the results of the process it is for and of no other, all
\* that were sent whole, in their order.  (A second wait forwards them again,
\* because the text is kept; a fork by a child does not mix its results with
\* those of its parent; a number that was reused finds the younger process.)
WaitsForward ==
  \A k \in Forks :
    emitted[k] = [i \in 1 .. waits[k] * sent[k] |->
                    [from |-> k, n |-> 1 + ((i - 1) % sent[k])]]

\* When the test's context is gone, none of the processes the test forked is
\* left running: whatever is still alive is below a process that is dead or
\* has left its test.
NoChildIsLeft ==
  \A k \in Forks :
    Alive(k) /\ parent[k] = Runner => state[Runner] # "done"

\* A call returns, unless the process it waits for, or one below that, is
\* blocked in writing to a pipe: the parent waits before it reads, and reads
\* one pipe at a time.
IsBlocked(k) ==
  /\ state[k] = "body" /\ call[k].op \in {"write", "send", "send-rest"}
  /\ IsFull(call[k].fork, call[k].stream)
CallsReturn ==
  call[Runner].op # "none"
    ~> (\/ call[Runner].op = "none"
        \/ \E k \in Below(call[Runner].fork) : IsBlocked(k) \/ state[k] = "stuck")
===============================================================================
