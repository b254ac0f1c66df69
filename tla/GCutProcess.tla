------------------------------ MODULE GCutProcess ------------------------------
(***************************************************************************)
(* An external command as a GCutProcess (gcut-process.c) or as its         *)
(* predecessor GCutEgg (gcut-egg.c): it is run, killed, waited for with a  *)
(* timeout and, at the end, disposed of.  Its end, its output and the      *)
(* timeout are sources of a GLib main loop, which runs inside of the calls *)
(* that wait, and when the user runs it.                                   *)
(*                                                                         *)
(* The two classes differ in the priority of their sources, and in that a  *)
(* process may use a loop with a main context of its own                   *)
(* (gcut-glib-event-loop.c).  An iteration of GLib's loop dispatches the   *)
(* ready sources of the highest priority, in the order they were attached. *)
(* It sees the child and its pipes at one moment.                          *)
(***************************************************************************)
EXTENDS Integers

CONSTANTS
  Streams,  \* "output" and "error", which are treated alike
  Capacity  \* what a pipe holds

ASSUME StreamsAssumption == {"child", "timer"} \cap Streams = {}
ASSUME CapacityAssumption == Capacity \in Nat \ {0}

VARIABLES
  class,      \* "process" or "egg"
  context,    \* the main context of the loop: "default" or "own"
  forced,     \* whether the forced termination wait time is not 0
  pid,        \* 0 or the child's
  status,     \* priv->status
  childWatch, \* whether the child's end is watched (process_watch_id)
  watch,      \* of each stream: "none", "attached", or "removed" while the id
              \* of the source is kept
  timer,      \* of the call that waits: "none", "set" or "due"
  isTimeout,  \* the local variable of that call
  user,       \* what the user is in
  answer,     \* of the last call of wait
  child,      \* the process that was run last
  pipe,       \* what it has written and nobody has read
  broken,     \* the streams that had a read error since it was run
  early       \* history: the streams that had output left to read at the
              \* "reaped" signal

settings == <<class, context, forced>>
sources == <<childWatch, watch, timer>>
vars == <<settings, pid, status, sources, isTimeout, user, answer, child, pipe,
          broken, early>>

NoChild == [state |-> "none", talks |-> FALSE, heeds |-> FALSE,
            signalled |-> FALSE, status |-> "none"]

ChildStates == [state : {"none", "running", "zombie", "reaped", "abandoned"},
                talks : BOOLEAN, heeds : BOOLEAN, signalled : BOOLEAN,
                status : {"none", "exit", "signal"}]

SettingsOK ==
  class \in {"process", "egg"} /\ context \in {"default", "own"} /\ forced \in BOOLEAN
ObjectOK ==
  /\ pid \in {0, 1} /\ status \in {"none", "exit", "signal"}
  /\ answer \in {"none", "status", "timeout", "not running"}
  /\ user \in {"idle", "waiting", "disposing", "gone"} /\ isTimeout \in BOOLEAN
SourcesOK ==
  /\ childWatch \in BOOLEAN /\ watch \in [Streams -> {"none", "attached", "removed"}]
  /\ timer \in {"none", "set", "due"}
ChildOK == child \in ChildStates
PipesOK ==
  pipe \in [Streams -> 0 .. Capacity] /\ broken \subseteq Streams /\ early \subseteq Streams
TypeOK == SettingsOK /\ ObjectOK /\ SourcesOK /\ ChildOK /\ PipesOK

Init ==
  /\ class \in {"process", "egg"} /\ forced \in BOOLEAN
  /\ context \in IF class = "process" THEN {"default", "own"} ELSE {"default"}
  /\ pid = 0 /\ status = "none" /\ childWatch = FALSE
  /\ watch = [s \in Streams |-> "none"] /\ timer = "none" /\ isTimeout = FALSE
  /\ user = "idle" /\ answer = "none" /\ child = NoChild
  /\ pipe = [s \in Streams |-> 0] /\ broken = {} /\ early = {}

-----------------------------------------------------------------------------
\* The child: it may ignore SIGTERM, it writes as long as it talks and as the
\* pipe has room, and it may end at any time.  Its end closes the pipes.

ChildWrites(s) ==
  /\ child.state = "running" /\ child.talks /\ pipe[s] < Capacity
  /\ pipe' = [pipe EXCEPT ![s] = @ + 1]
  /\ UNCHANGED <<settings, pid, status, sources, isTimeout, user, answer, child,
                 broken, early>>

ChildFallsSilent ==
  /\ child.talks
  /\ child' = [child EXCEPT !.talks = FALSE]
  /\ UNCHANGED <<settings, pid, status, sources, isTimeout, user, answer, pipe,
                 broken, early>>

ChildEnds ==
  /\ child.state = "running"
  /\ \E how \in {"exit"} \cup (IF child.signalled THEN {"signal"} ELSE {}) :
       child' = [child EXCEPT !.state = "zombie", !.talks = FALSE, !.status = how]
  /\ UNCHANGED <<settings, pid, status, sources, isTimeout, user, answer, pipe,
                 broken, early>>

Signalled(c, mayIgnore) == [c EXCEPT !.signalled = @ \/ c.heeds \/ ~mayIgnore]

-----------------------------------------------------------------------------
\* The main loop.

DefaultPriority == 0
LowPriority == 1
BugProcessChildPriority == DefaultPriority
ProcessChildPriority == LowPriority
EggChildPriority == DefaultPriority
ProcessTimerPriority == LowPriority
BugEggTimerPriority == LowPriority
EggTimerPriority == DefaultPriority
Priority(source) ==
  CASE source = "child" ->
         IF class = "process" THEN ProcessChildPriority ELSE EggChildPriority
    [] source = "timer" ->
         IF class = "process" THEN ProcessTimerPriority ELSE EggTimerPriority
    [] OTHER -> DefaultPriority

HungUp == child.state # "running"
Readable(s) == watch[s] = "attached" /\ (pipe[s] > 0 \/ HungUp)
Ready ==
  {s \in Streams : Readable(s)}
  \cup (IF childWatch /\ child.state = "zombie" THEN {"child"} ELSE {})
  \cup (IF timer = "due" THEN {"timer"} ELSE {})
Dispatched == {r \in Ready : \A q \in Ready : Priority(r) <= Priority(q)}

\* watch_output(), read_from_io_channel(): all there is is read and signalled.
\* At the end of the stream, or after an error, the source is removed.
WatchOutput(ss) ==
  \E errors \in SUBSET {s \in ss : pipe[s] > 0} :
    /\ broken' = broken \cup errors
    /\ pipe' = [s \in Streams |-> IF s \in ss \ errors THEN 0 ELSE pipe[s]]
    /\ watch' = [s \in Streams |->
                   IF s \in errors \/ (s \in ss /\ HungUp) THEN "removed" ELSE watch[s]]

BugReapedStatus == status
ReapedStatus == child.status
\* child_watch_func(), reap_child(); GLib has waited for the child.  Sources of
\* the streams that are dispatched with it come later.
ReapChild ==
  /\ childWatch' = FALSE /\ pid' = 0
  /\ status' = ReapedStatus /\ child' = [child EXCEPT !.state = "reaped"]
  /\ early' = {s \in Streams : pipe[s] > 0}

\* One call of gcut_event_loop_iterate(), which blocks until a source is ready.
Iterate ==
  /\ Ready # {}
  /\ WatchOutput(Dispatched \cap Streams)
  /\ IF "child" \in Dispatched THEN ReapChild
                               ELSE UNCHANGED <<childWatch, pid, status, child, early>>
  /\ IF "timer" \in Dispatched THEN timer' = "none" /\ isTimeout' = TRUE
                               ELSE UNCHANGED <<timer, isTimeout>>
  /\ UNCHANGED <<settings, user, answer>>

InWait == user = "waiting" /\ ~isTimeout /\ pid > 0
InDispose == user = "disposing" /\ ~isTimeout /\ childWatch /\ pid > 0
IterateInCall == (InWait \/ InDispose) /\ Iterate
UserIterates == user = "idle" /\ Iterate

TimerExpires ==
  /\ timer = "set" /\ timer' = "due"
  /\ UNCHANGED <<settings, pid, status, childWatch, watch, isTimeout, user, answer,
                 child, pipe, broken, early>>

-----------------------------------------------------------------------------
\* gcut_process_run(), gcut_egg_hatch().

\* dispose_io_channel(): the child, if there is one left, has nobody who reads.
DisposeIOChannel ==
  /\ watch' = [s \in Streams |-> "none"]
  /\ pipe' = [s \in Streams |-> 0]

RunFails ==
  /\ user = "idle" /\ pid = 0
  /\ DisposeIOChannel
  /\ UNCHANGED <<settings, pid, status, childWatch, timer, isTimeout, user, answer,
                 child, broken, early>>

Start ==
  /\ user = "idle" /\ pid = 0
  /\ pid' = 1 /\ childWatch' = TRUE
  /\ watch' = [s \in Streams |-> "attached"]
  /\ pipe' = [s \in Streams |-> 0]
  /\ \E talks, heeds \in BOOLEAN :
       child' = [NoChild EXCEPT !.state = "running", !.talks = talks, !.heeds = heeds]
  /\ broken' = {} /\ early' = {} /\ answer' = "none"
  /\ UNCHANGED <<settings, status, timer, isTimeout, user>>
Run == class = "process" /\ Start
Hatch == class = "egg" /\ Start

\* gcut_process_kill(), gcut_egg_kill() with SIGKILL or SIGTERM.
Signal ==
  /\ user = "idle" /\ pid > 0
  /\ \E mayIgnore \in BOOLEAN : child' = Signalled(child, mayIgnore)
  /\ UNCHANGED <<settings, pid, status, sources, isTimeout, user, answer, pipe,
                 broken, early>>
Kill == class = "process" /\ Signal
KillEgg == class = "egg" /\ Signal

-----------------------------------------------------------------------------
\* gcut_process_wait(), gcut_egg_wait().

WaitForNobody ==
  /\ user = "idle" /\ pid = 0
  /\ answer' = "not running"
  /\ UNCHANGED <<settings, pid, status, sources, isTimeout, user, child, pipe,
                 broken, early>>

BeginWait ==
  /\ user = "idle" /\ pid > 0
  /\ user' = "waiting" /\ timer' = "set" /\ isTimeout' = FALSE
  /\ UNCHANGED <<settings, pid, status, childWatch, watch, answer, child, pipe,
                 broken, early>>
Wait == class = "process" /\ BeginWait
WaitForEgg == class = "egg" /\ BeginWait

WaitReturns ==
  /\ user = "waiting" /\ ~InWait
  /\ user' = "idle" /\ timer' = "none"
  /\ answer' = IF isTimeout THEN "timeout" ELSE "status"
  /\ UNCHANGED <<settings, pid, status, childWatch, watch, isTimeout, child, pipe,
                 broken, early>>

-----------------------------------------------------------------------------
\* dispose().

\* What is left of the object: nothing.  A child that has not been reaped is
\* nobody's any more.
BugChildWatchRemoved == childWatch
ChildWatchRemoved == FALSE
Free ==
  /\ user' = "gone" /\ childWatch' = ChildWatchRemoved /\ pid' = 0
  /\ DisposeIOChannel

Abandoned(c) ==
  IF c.state \in {"running", "zombie"} THEN [c EXCEPT !.state = "abandoned", !.talks = FALSE]
                                       ELSE c

\* dispose_process_watch_id(): a child gets SIGTERM and some time to end.
IsTerminated == childWatch /\ pid > 0
BeginDispose ==
  /\ user = "idle" /\ IsTerminated /\ forced
  /\ child' = Signalled(child, TRUE)
  /\ user' = "disposing" /\ timer' = "set" /\ isTimeout' = FALSE
  /\ UNCHANGED <<settings, pid, status, childWatch, watch, answer, pipe, broken, early>>
Dispose == class = "process" /\ BeginDispose
DisposeEgg == class = "egg" /\ BeginDispose

DisposeAtOnce ==
  /\ user = "idle" /\ ~(IsTerminated /\ forced)
  /\ Free
  /\ child' = Abandoned(IF IsTerminated THEN Signalled(child, TRUE) ELSE child)
  /\ UNCHANGED <<settings, status, timer, isTimeout, answer, broken, early>>

\* g_source_remove() removes from the default context only, whatever the
\* context of the loop.
TimerRemoved == IF context = "default" THEN "none" ELSE timer
DisposeEnds ==
  /\ user = "disposing" /\ ~InDispose
  /\ timer' = TimerRemoved
  /\ Free
  /\ child' = Abandoned(child)
  /\ UNCHANGED <<settings, status, isTimeout, answer, broken, early>>

-----------------------------------------------------------------------------
Next ==
  \/ \E s \in Streams : ChildWrites(s)
  \/ ChildFallsSilent \/ ChildEnds
  \/ IterateInCall \/ UserIterates \/ TimerExpires
  \/ RunFails \/ Run \/ Hatch \/ Kill \/ KillEgg
  \/ WaitForNobody \/ Wait \/ WaitForEgg \/ WaitReturns
  \/ Dispose \/ DisposeEgg \/ DisposeAtOnce \/ DisposeEnds

Spec == Init /\ [][Next]_vars

\* The thread that waits runs, and time passes; the child may go on as it likes.
Fairness ==
  /\ WF_vars(IterateInCall) /\ WF_vars(TimerExpires)
  /\ WF_vars(WaitReturns) /\ WF_vars(DisposeEnds)
FairSpec == Spec /\ Fairness

-----------------------------------------------------------------------------
\* No output is lost at the end of a child: once it is reaped and the loop is
\* left, all it has written was received, unless there was a read error.  With
\* a process, that is so at the "reaped" signal: the priority of the child watch
\* lets the output go first.
OutputIsReceived ==
  child.state = "reaped" =>
    /\ \A s \in Streams \ broken : pipe[s] = 0
    /\ class = "process" => early \subseteq broken

\* An object that is gone is not called: no source of it is left in its loop.
\* (A loop with a context of its own keeps the timer of dispose().)
NothingIsAttached ==
  user = "gone" =>
    /\ ~childWatch /\ \A s \in Streams : watch[s] # "attached"
    /\ context = "default" => timer = "none"

\* The answer of a wait is right: the status is that of the child, which has
\* been reaped, and a child of which nothing was heard is still there.
AnswersAreRight ==
  /\ answer = "status" => child.state = "reaped" /\ status = child.status
  /\ user # "gone" /\ child.state \in {"running", "zombie"} => pid > 0 /\ childWatch

\* wait() and dispose() return: those of an egg whatever the child does, those
\* of a process when the child does not talk forever.
CallsReturn ==
  (class = "egg" \/ <>[]~child.talks) =>
    (user \in {"waiting", "disposing"} ~> user \in {"idle", "gone"})
================================================================================
