--------------------------- MODULE CutTestRunProofs ---------------------------
(***************************************************************************)
(* Proofs about CutTestRun, for every suite, every set of statuses to give *)
(* up with and every bound: lemmas about its operators; type correctness;  *)
(* what a signal and a cancellation do to a run: the first signal is       *)
(* caught, a canceled run only unwinds, and the listeners see a complete   *)
(* signal for each start signal; and what a run leaves on the stack of     *)
(* contexts, and what its verdict says: the contexts are those of the      *)
(* running functions, a dead jump buffer is used in one place only,        *)
(* nothing critical is lost on the way to the verdict, the run implements  *)
(* CutRunPromise, a test yields its results once, and a case is reported   *)
(* with its worst status.                                                  *)
(***************************************************************************)
EXTENDS CutTestRun, SequenceTheorems, TLAPS

-----------------------------------------------------------------------------
\* Stacks.

\* What Append made, dropping the last element unmakes.
LEMMA DropAppended ==
  ASSUME NEW S, NEW s \in Seq(S), NEW e \in S
  PROVE  /\ SubSeq(Append(s, e), 1, Len(Append(s, e)) - 1) = s
         /\ Append(s, e)[Len(Append(s, e))] = e
  OBVIOUS

LEMMA AppendToPair ==
  ASSUME NEW S, NEW a \in S, NEW b \in S, NEW c \in S
  PROVE  Append(<<a, b>>, c) = <<a, b, c>>
  <1>1. <<a, b>> \in Seq(S) /\ <<a, b, c>> \in Seq(S)
    OBVIOUS
  <1>2. Len(Append(<<a, b>>, c)) = 3 /\ Len(<<a, b, c>>) = 3
    BY <1>1
  <1>3. \A i \in 1 .. 3 : Append(<<a, b>>, c)[i] = <<a, b, c>>[i]
    BY <1>1
  <1> QED BY <1>1, <1>2, <1>3, AppendProperties, SeqEqual

LEMMA AppendToTriple ==
  ASSUME NEW S, NEW a \in S, NEW b \in S, NEW c \in S, NEW d \in S
  PROVE  Append(<<a, b, c>>, d) = <<a, b, c, d>>
  <1>1. <<a, b, c>> \in Seq(S) /\ <<a, b, c, d>> \in Seq(S)
    OBVIOUS
  <1>2. Len(Append(<<a, b, c>>, d)) = 4 /\ Len(<<a, b, c, d>>) = 4
    BY <1>1
  <1>3. \A i \in 1 .. 4 : Append(<<a, b, c>>, d)[i] = <<a, b, c, d>>[i]
    BY <1>1
  <1> QED BY <1>1, <1>2, <1>3, AppendProperties, SeqEqual

-----------------------------------------------------------------------------
\* Crash frames.

Frames == {"suite", "case", "iterated", "test"}

\* The frames of two points that differ by one frame.
LEMMA PushedFrames ==
  /\ <<"suite">> = Append(<<>>, "suite")
  /\ <<"suite", "case">> = Append(<<"suite">>, "case")
  /\ <<"suite", "case", "test">> = Append(<<"suite", "case">>, "test")
  /\ <<"suite", "case", "iterated">> = Append(<<"suite", "case">>, "iterated")
  /\ <<"suite", "case", "iterated", "test">>
       = Append(<<"suite", "case", "iterated">>, "test")
  <1>1. "suite" \in Frames /\ "case" \in Frames /\ "test" \in Frames
          /\ "iterated" \in Frames
    BY DEF Frames
  <1>2. <<"suite">> = Append(<<>>, "suite")
    OBVIOUS
  <1>3. <<"suite", "case">> = Append(<<"suite">>, "case")
    <2>1. <<"suite">> \in Seq(Frames) /\ <<"suite", "case">> \in Seq(Frames)
      BY <1>1
    <2>2. /\ Len(Append(<<"suite">>, "case")) = 2
          /\ Len(<<"suite", "case">>) = 2
      BY <1>1, <2>1
    <2>3. \A i \in 1 .. 2 : Append(<<"suite">>, "case")[i] = <<"suite", "case">>[i]
      BY <1>1, <2>1
    <2> QED BY <1>1, <2>1, <2>2, <2>3, AppendProperties, SeqEqual
  <1> QED BY <1>1, <1>2, <1>3, AppendToPair, AppendToTriple

LEMMA FrameSequences ==
  /\ <<>> \in Seq(Frames) /\ <<"suite">> \in Seq(Frames)
  /\ <<"suite", "case">> \in Seq(Frames)
  /\ <<"suite", "case", "test">> \in Seq(Frames)
  /\ <<"suite", "case", "iterated">> \in Seq(Frames)
  /\ <<"suite", "case", "iterated", "test">> \in Seq(Frames)
  BY DEF Frames

LEMMA PoppedFrames ==
  ASSUME NEW f \in Frames, NEW s \in Seq(Frames)
  PROVE  /\ SubSeq(Append(s, f), 1, Len(Append(s, f)) - 1) = s
         /\ Append(s, f)[Len(Append(s, f))] = f
  BY DropAppended

\* The points by the frames that are live there.
LEMMA PointFrames ==
  ASSUME NEW p
  PROVE  /\ p \in {"warmup", "next_case", "shutdown"} => LiveFrames(p) = <<"suite">>
         /\ p \in {"startup", "next_test", "data_setup", "next_data", "setup",
                   "teardown", "iteardown", "test_end"}
              => LiveFrames(p) = <<"suite", "case">>
         /\ p = "body" => LiveFrames(p) = <<"suite", "case", "test">>
         /\ p \in {"isetup", "itest_end"}
              => LiveFrames(p) = <<"suite", "case", "iterated">>
         /\ p = "ibody" => LiveFrames(p) = <<"suite", "case", "iterated", "test">>
         /\ p \in {"start", "cooldown", "finish"} => LiveFrames(p) = <<>>
  BY DEF LiveFrames

\* A step that leaves the frames alone goes to a point with the same frames.
LEMMA KeptFrames ==
  ASSUME CrashFramesAreLive, UNCHANGED frames, LiveFrames(at') = LiveFrames(at)
  PROVE  CrashFramesAreLive'
  BY DEF CrashFramesAreLive

LEMMA PushedFrame ==
  ASSUME CrashFramesAreLive, NEW f, frames' = PushFrame(f),
         LiveFrames(at') = Append(LiveFrames(at), f)
  PROVE  CrashFramesAreLive'
  BY DEF CrashFramesAreLive, PushFrame

LEMMA FreedFrame ==
  ASSUME CrashFramesAreLive, NEW f \in Frames, frames' = FreeFrame,
         LiveFrames(at') \in Seq(Frames),
         LiveFrames(at) = Append(LiveFrames(at'), f)
  PROVE  CrashFramesAreLive'
  BY PoppedFrames DEF CrashFramesAreLive, FreeFrame, PopFrame

\* The innermost frame at each user function, and what is left below it.
LEMMA InnermostFrame ==
  ASSUME CrashFramesAreLive, HandleSignals \in BOOLEAN, at \in UserPoints,
         frames # <<>>
  PROVE  \/ /\ at \in {"warmup", "shutdown"}
            /\ frames[Len(frames)] = "suite" /\ PopFrame = <<>>
         \/ /\ at \in {"startup", "data_setup", "setup", "teardown", "iteardown"}
            /\ frames[Len(frames)] = "case" /\ PopFrame = <<"suite">>
         \/ /\ at = "isetup"
            /\ frames[Len(frames)] = "iterated" /\ PopFrame = <<"suite", "case">>
         \/ /\ at = "body"
            /\ frames[Len(frames)] = "test" /\ PopFrame = <<"suite", "case">>
         \/ /\ at = "ibody"
            /\ frames[Len(frames)] = "test"
            /\ PopFrame = <<"suite", "case", "iterated">>
  <1>1. HandleSignals /\ frames = LiveFrames(at)
    BY DEF CrashFramesAreLive
  <1>2. CASE at \in {"warmup", "shutdown"}
    <2>1. LiveFrames(at) = Append(<<>>, "suite")
      BY <1>2, PointFrames, PushedFrames
    <2>2. frames[Len(frames)] = "suite" /\ PopFrame = <<>>
      BY <1>1, <2>1, PoppedFrames, FrameSequences DEF Frames, PopFrame
    <2> QED BY <1>2, <2>2
  <1>3. CASE at \in {"startup", "data_setup", "setup", "teardown", "iteardown"}
    <2>1. LiveFrames(at) = Append(<<"suite">>, "case")
      BY <1>3, PointFrames, PushedFrames
    <2>2. frames[Len(frames)] = "case" /\ PopFrame = <<"suite">>
      BY <1>1, <2>1, PoppedFrames, FrameSequences DEF Frames, PopFrame
    <2> QED BY <1>3, <2>2
  <1>4. CASE at = "isetup"
    <2>1. LiveFrames(at) = Append(<<"suite", "case">>, "iterated")
      BY <1>4, PointFrames, PushedFrames
    <2>2. frames[Len(frames)] = "iterated" /\ PopFrame = <<"suite", "case">>
      BY <1>1, <2>1, PoppedFrames, FrameSequences DEF Frames, PopFrame
    <2> QED BY <1>4, <2>2
  <1>5. CASE at = "body"
    <2>1. LiveFrames(at) = Append(<<"suite", "case">>, "test")
      BY <1>5, PointFrames, PushedFrames
    <2>2. frames[Len(frames)] = "test" /\ PopFrame = <<"suite", "case">>
      BY <1>1, <2>1, PoppedFrames, FrameSequences DEF Frames, PopFrame
    <2> QED BY <1>5, <2>2
  <1>6. CASE at = "ibody"
    <2>1. LiveFrames(at) = Append(<<"suite", "case", "iterated">>, "test")
      BY <1>6, PointFrames, PushedFrames
    <2>2. frames[Len(frames)] = "test" /\ PopFrame = <<"suite", "case", "iterated">>
      BY <1>1, <2>1, PoppedFrames, FrameSequences DEF Frames, PopFrame
    <2> QED BY <1>6, <2>2
  <1>7. CASE at = "cooldown"
    BY <1>1, <1>7, PointFrames
  <1> QED BY <1>2, <1>3, <1>4, <1>5, <1>6, <1>7
            DEF UserPoints, PlainPoints, IteratedPoints, FixturePoints

\* A signal unwinds to the point after the call that made the innermost frame.
LEMMA CaughtPoint ==
  ASSUME CrashFramesAreLive, HandleSignals \in BOOLEAN, at \in UserPoints,
         frames # <<>>, frames' = PopFrame,
         frames[Len(frames)] = "suite" => at' = "cooldown",
         frames[Len(frames)] = "case" => at' = "shutdown",
         frames[Len(frames)] = "iterated" => at' = "iteardown",
         frames[Len(frames)] = "test"
           => at' = IF at = "ibody" THEN "itest_end" ELSE "test_end"
  PROVE  CrashFramesAreLive'
  <1>1. HandleSignals
    BY DEF CrashFramesAreLive
  <1> QED BY <1>1, InnermostFrame, PointFrames DEF CrashFramesAreLive

\* CrashFramesAreLive holds in every reachable state: each function frees the
\* frame it pushed on each of its ways out, and a signal frees the one it
\* jumps to.
THEOREM CrashFramesInvariant == Spec => []CrashFramesAreLive
  <1> USE HandleSignalsAssumption
  <1>1. Init => CrashFramesAreLive
    BY DEF Init, CrashFramesAreLive, LiveFrames
  <1>2. CrashFramesAreLive /\ [Next]_vars => CrashFramesAreLive'
    <2> SUFFICES ASSUME CrashFramesAreLive, [Next]_vars
                 PROVE  CrashFramesAreLive'
      OBVIOUS
    <2>1. CASE UserReturns
      BY <2>1, KeptFrames DEF UserReturns
    <2>2. CASE UserNotifies
      BY <2>2, KeptFrames DEF UserNotifies
    <2>3. ASSUME NEW s \in GiveUps, UserGivesUp(s)
          PROVE  CrashFramesAreLive'
      BY <2>3, KeptFrames DEF UserGivesUp
    <2>4. CASE FatalSignal
      BY <2>4, KeptFrames DEF FatalSignal
    <2>5. ASSUME NEW signal, CaughtBySuite(signal)
          PROVE  CrashFramesAreLive'
      <3>1. at' = "cooldown" /\ frames # <<>> /\ frames[Len(frames)] = "suite"
              /\ frames' = PopFrame /\ at \in UserPoints
        BY <2>5 DEF CaughtBySuite, Caught, GoTo, InUserCode
      <3> QED BY <3>1, CaughtPoint
    <2>6. ASSUME NEW signal, CaughtByCase(signal)
          PROVE  CrashFramesAreLive'
      <3>1. at' = "shutdown" /\ frames # <<>> /\ frames[Len(frames)] = "case"
              /\ frames' = PopFrame /\ at \in UserPoints
        BY <2>6 DEF CaughtByCase, Caught, GoTo, InUserCode
      <3> QED BY <3>1, CaughtPoint
    <2>7. ASSUME NEW signal, CaughtByIterated(signal)
          PROVE  CrashFramesAreLive'
      <3>1. at' = "iteardown" /\ frames # <<>> /\ frames[Len(frames)] = "iterated"
              /\ frames' = PopFrame /\ at \in UserPoints
        BY <2>7 DEF CaughtByIterated, Caught, GoTo, InUserCode
      <3> QED BY <3>1, CaughtPoint
    <2>8. ASSUME NEW signal, CaughtByTest(signal)
          PROVE  CrashFramesAreLive'
      <3>1. /\ at' = IF at = "ibody" THEN "itest_end" ELSE "test_end"
            /\ frames # <<>> /\ frames[Len(frames)] = "test"
            /\ frames' = PopFrame /\ at \in UserPoints
        BY <2>8 DEF CaughtByTest, Caught, GoTo, InUserCode
      <3> QED BY <3>1, CaughtPoint
    <2>9. CASE RunStart
      <3>1. CASE at' = "finish" /\ at = "start" /\ UNCHANGED frames
        BY <3>1, KeptFrames, PointFrames
      <3>2. CASE at' = "warmup" /\ at = "start" /\ frames' = PushFrame("suite")
        BY <3>2, PushedFrame, PointFrames, PushedFrames
      <3> QED BY <2>9, <3>1, <3>2 DEF RunStart, Engine, GoTo
    <2>10. CASE StartCase
      <3>1. at = "next_case" /\ at' = "startup" /\ frames' = PushFrame("case")
        BY <2>10 DEF StartCase, Engine, GoTo
      <3> QED BY <3>1, PushedFrame, PointFrames, PushedFrames
    <2>11. CASE EndOfCases
      <3>1. at = "next_case" /\ at' = "cooldown" /\ frames' = FreeFrame
        BY <2>11 DEF EndOfCases, Engine, GoTo
      <3> QED BY <3>1, FreedFrame, PointFrames, PushedFrames, FrameSequences
                 DEF Frames
    <2>12. ASSUME at \in {"startup", "next_test"}, LeaveCase
           PROVE  CrashFramesAreLive'
      <3>1. at' = "shutdown" /\ frames' = FreeFrame
        BY <2>12 DEF LeaveCase, GoTo
      <3> QED BY <2>12, <3>1, FreedFrame, PointFrames, PushedFrames,
                 FrameSequences DEF Frames
    <2>13. CASE StartupDone
      <3>1. CASE LeaveCase
        BY <2>12, <2>13, <3>1 DEF StartupDone, Back, Engine
      <3>2. CASE at = "startup" /\ at' = "next_test" /\ UNCHANGED frames
        BY <3>2, KeptFrames, PointFrames
      <3> QED BY <2>13, <3>1, <3>2 DEF StartupDone, Back, Engine, GoTo
    <2>14. CASE EndOfTests
      BY <2>12, <2>14 DEF EndOfTests, Engine
    <2>15. ASSUME at = "setup", EnterBody("body")
           PROVE  CrashFramesAreLive'
      <3>1. at' = "body" /\ frames' = PushFrame("test")
        BY <2>15 DEF EnterBody, GoTo
      <3> QED BY <2>15, <3>1, PushedFrame, PointFrames, PushedFrames
    <2>16. CASE SetupDone
      <3>1. CASE EnterBody("body")
        BY <2>15, <2>16, <3>1 DEF SetupDone, Back, Engine
      <3>2. CASE at = "setup" /\ at' = "teardown" /\ UNCHANGED frames
        BY <3>2, KeptFrames, PointFrames
      <3> QED BY <2>16, <3>1, <3>2
                 DEF SetupDone, Back, Engine, EnterTeardown, GoTo
    <2>17. CASE IteratedSetupDone
      <3>1. CASE at = "isetup" /\ at' = "ibody" /\ frames' = PushFrame("test")
        BY <3>1, PushedFrame, PointFrames, PushedFrames
      <3>2. CASE at = "isetup" /\ at' = "iteardown" /\ frames' = FreeFrame
        BY <3>2, FreedFrame, PointFrames, PushedFrames, FrameSequences
           DEF Frames
      <3> QED BY <2>17, <3>1, <3>2
                 DEF IteratedSetupDone, Back, Engine, EnterTeardown, EnterBody, GoTo
    <2>18. CASE BodyDone
      <3>1. CASE at = "ibody" /\ at' = "itest_end" /\ frames' = FreeFrame
        BY <3>1, FreedFrame, PointFrames, PushedFrames, FrameSequences
           DEF Frames
      <3>2. CASE at = "body" /\ at' = "test_end" /\ frames' = FreeFrame
        BY <3>2, FreedFrame, PointFrames, PushedFrames, FrameSequences
           DEF Frames
      <3> QED BY <2>18, <3>1, <3>2 DEF BodyDone, Back, Engine, GoTo
    <2>19. CASE TestEnd
      <3>1. CASE at = "itest_end" /\ at' = "iteardown" /\ frames' = FreeFrame
        BY <3>1, FreedFrame, PointFrames, PushedFrames, FrameSequences
           DEF Frames
      <3>2. CASE at = "test_end" /\ at' = "teardown" /\ UNCHANGED frames
        BY <3>2, KeptFrames, PointFrames
      <3> QED BY <2>19, <3>1, <3>2 DEF TestEnd, Engine, EnterTeardown, GoTo
    <2>20. CASE StartIteratedTest
      <3>1. at = "next_data" /\ at' = "isetup" /\ frames' = PushFrame("iterated")
        BY <2>20 DEF StartIteratedTest, Engine, GoTo
      <3> QED BY <3>1, PushedFrame, PointFrames, PushedFrames
    <2>21. CASE StartTest
      <3>1. at = "next_test" /\ at' \in {"data_setup", "setup"} /\ UNCHANGED frames
        BY <2>21 DEF StartTest, Engine, GoTo
      <3> QED BY <3>1, KeptFrames, PointFrames
    <2>22. CASE DataSetupDone
      <3>1. /\ at = "data_setup" /\ at' \in {"next_test", "next_data"}
            /\ UNCHANGED frames
        BY <2>22 DEF DataSetupDone, Back, Engine, LeaveIterator, GoTo
      <3> QED BY <3>1, KeptFrames, PointFrames
    <2>23. CASE EndOfData
      <3>1. at = "next_data" /\ at' = "next_test" /\ UNCHANGED frames
        BY <2>23 DEF EndOfData, Engine, LeaveIterator, GoTo
      <3> QED BY <3>1, KeptFrames, PointFrames
    <2>24. CASE WarmupDone \/ SkipCase \/ ShutdownDone
      <3>1. /\ at \in {"warmup", "next_case", "shutdown"} /\ at' = "next_case"
            /\ UNCHANGED frames
        BY <2>24 DEF WarmupDone, SkipCase, ShutdownDone, Back, Engine, GoTo
      <3> QED BY <3>1, KeptFrames, PointFrames
    <2>25. CASE SkipTest \/ TeardownDone \/ SkipData \/ IteratedTeardownDone
                  \/ NullSuccess
      <3>1. /\ at \in {"next_test", "teardown", "next_data", "iteardown"}
            /\ at' \in {"next_test", "next_data", "iteardown"}
            /\ UNCHANGED frames
        BY <2>25 DEF SkipTest, TeardownDone, SkipData, IteratedTeardownDone,
                     NullSuccess, Back, Engine, GoTo
      <3> QED BY <3>1, KeptFrames, PointFrames
    <2>26. CASE CooldownDone \/ EmitCompleteRun
      <3>1. at \in {"cooldown", "finish"} /\ at' = "finish" /\ UNCHANGED frames
        BY <2>26 DEF CooldownDone, EmitCompleteRun, Back, Engine, GoTo
      <3> QED BY <3>1, KeptFrames, PointFrames
    <2>27. CASE UNCHANGED vars
      BY <2>27, KeptFrames DEF vars
    <2> QED BY <2>1, <2>2, <2>3, <2>4, <2>5, <2>6, <2>7, <2>8, <2>9, <2>10,
               <2>11, <2>13, <2>14, <2>16, <2>17, <2>18, <2>19, <2>20, <2>21,
               <2>22, <2>23, <2>24, <2>25, <2>26, <2>27
            DEF Next, UserStep, SignalStep, EngineStep, Ended
  <1> QED BY <1>1, <1>2, PTL DEF Spec

-----------------------------------------------------------------------------
\* Types.  The engine reads and writes the context on top of a stack: TypeOK is
\* inductive only together with a bound on the depth of that stack at each point.

Points == UserPoints \cup EnginePoints

Contexts == [owner : {"case", "test", "iterator", "iterated"},
             failed : BOOLEAN, omitted : BOOLEAN, jump : UserPoints]

\* The number of contexts the running functions pushed.
Depth(p) ==
  IF p \in {"startup", "next_test", "shutdown"} THEN 1
  ELSE IF p \in {"setup", "body", "test_end", "teardown", "data_setup", "next_data"}
       THEN 2
  ELSE IF p \in IteratedPoints \cup {"itest_end"} THEN 3
  ELSE 0

\* A stack deeper than Depth holds contexts that are stale.
StackIsDeep == Len(ctxs) >= Depth(at)

-----------------------------------------------------------------------------
LEMMA UserPointsAre ==
  UserPoints = {"setup", "body", "teardown", "isetup", "ibody", "iteardown",
                "startup", "data_setup", "shutdown", "warmup", "cooldown"}
  BY DEF UserPoints, PlainPoints, IteratedPoints, FixturePoints

LEMMA WorseType ==
  ASSUME NEW s \in Statuses, NEW t \in Statuses
  PROVE  Worse(s, t) \in Statuses
  BY DEF Worse

\* What a report of a result changes keeps its type.
LEMMA ReportType ==
  ASSUME TypeOK, NEW s \in Statuses, NEW owner, Report(s, owner)
  PROVE  /\ count' \in [Statuses -> Nat] /\ crashed' \in BOOLEAN
         /\ status' \in [case : Statuses, iter : Statuses, worst : Statuses]
         /\ causes' \subseteq Statuses \cup Uncounted
         /\ inBody' \in Nat
  <1>1. count' \in [Statuses -> Nat]
    BY DEF TypeOK, Report
  <1>2. crashed' \in BOOLEAN
    BY DEF TypeOK, Report
  <1>3. status' \in [case : Statuses, iter : Statuses, worst : Statuses]
    <2>1. /\ status.case \in Statuses /\ status.iter \in Statuses
          /\ status.worst \in Statuses
      BY DEF TypeOK
    <2> QED BY <2>1, WorseType DEF Report
  <1>4. causes' \subseteq Statuses \cup Uncounted /\ inBody' \in Nat
    BY DEF TypeOK, Report
  <1> QED BY <1>1, <1>2, <1>3, <1>4

LEMMA NewContextType ==
  ASSUME NEW owner \in {"case", "test", "iterator", "iterated"},
         NEW jump \in UserPoints
  PROVE  NewContext(owner, jump) \in Contexts
  BY DEF NewContext, Contexts

LEMMA PopCtxType ==
  ASSUME ctxs \in Seq(Contexts), Len(ctxs) >= 1
  PROVE  PopCtx \in Seq(Contexts) /\ Len(PopCtx) = Len(ctxs) - 1
  <1>1. Len(ctxs) \in Nat /\ Len(ctxs) - 1 \in Int
    OBVIOUS
  <1>2. \A i \in 1 .. Len(ctxs) - 1 : ctxs[i] \in Contexts
    OBVIOUS
  <1>3. /\ SubSeq(ctxs, 1, Len(ctxs) - 1) \in Seq(Contexts)
        /\ Len(SubSeq(ctxs, 1, Len(ctxs) - 1))
              = IF 1 <= Len(ctxs) - 1 THEN Len(ctxs) - 1 - 1 + 1 ELSE 0
    BY <1>1, <1>2, SubSeqProperties
  <1>4. (IF 1 <= Len(ctxs) - 1 THEN Len(ctxs) - 1 - 1 + 1 ELSE 0) = Len(ctxs) - 1
    <2>1. \A n \in Nat : n >= 1 => (IF 1 <= n - 1 THEN n - 1 - 1 + 1 ELSE 0) = n - 1
      OBVIOUS
    <2> QED BY <1>1, <2>1
  <1> DEFINE popped == SubSeq(ctxs, 1, Len(ctxs) - 1)
  <1> HIDE DEF popped
  <1>5. popped \in Seq(Contexts) /\ Len(popped) = Len(ctxs) - 1
    BY <1>3, <1>4 DEF popped
  <1> QED BY <1>5 DEF PopCtx, popped

LEMMA TopType ==
  ASSUME ctxs \in Seq(Contexts), Len(ctxs) >= 1
  PROVE  Top \in Contexts
  BY DEF Top

\* Entering another fixture of the function that pushed context i.
LEMMA JumpType ==
  ASSUME ctxs \in Seq(Contexts), NEW i \in 1 .. Len(ctxs), NEW p \in UserPoints,
         ctxs' = [ctxs EXCEPT ![i].jump = p]
  PROVE  ctxs' \in Seq(Contexts) /\ Len(ctxs') = Len(ctxs)
  <1>1. [ctxs[i] EXCEPT !.jump = p] \in Contexts
    <2>1. ctxs[i] \in Contexts
      OBVIOUS
    <2> QED BY <2>1 DEF Contexts
  <1>2. ctxs' = [ctxs EXCEPT ![i] = [ctxs[i] EXCEPT !.jump = p]]
    OBVIOUS
  <1> QED BY <1>1, <1>2, ExceptSeq

-----------------------------------------------------------------------------
\* The inductive invariant, in two parts: the stack, and everything else.

StackOK == ctxs \in Seq(Contexts) /\ StackIsDeep

RestOK ==
  /\ proc \in {"running", "complete", "exited", "killed", "undefined"}
  /\ at \in Points /\ returned \in BOOLEAN
  /\ pos \in [case : Nat, test : Nat, data : Nat, n : 0 .. MaxData]
  /\ frames \in Seq({"suite", "case", "iterated", "test"})
  /\ received \in UserPoints \cup {"none"}
  /\ ok \in [suite : BOOLEAN, case : BOOLEAN, tests : BOOLEAN, test : BOOLEAN,
             iter : BOOLEAN, valid : BOOLEAN]
  /\ status \in [case : Statuses, iter : Statuses, worst : Statuses]
  /\ count \in [Statuses -> Nat]
  /\ canceled \in BOOLEAN /\ crashed \in BOOLEAN
  /\ open \subseteq {"run", "suite", "case", "iterator", "test"}
  /\ causes \subseteq Statuses \cup Uncounted
  /\ inBody \in Nat
  /\ verdict \in {"none", "success", "failure"}

LEMMA TypeParts == TypeOK /\ StackIsDeep <=> StackOK /\ RestOK
  BY DEF TypeOK, StackOK, RestOK, Points, Contexts

LEMMA UserStepTypes ==
  ASSUME StackOK, RestOK, UserStep
  PROVE  StackOK' /\ RestOK'
  <1>1. at \in UserPoints
    BY DEF UserStep, UserReturns, UserNotifies, UserGivesUp, InUserCode
  <1>2. CASE UserReturns
    BY <1>2 DEF UserReturns, StackOK, StackIsDeep, RestOK
  <1>3. ASSUME NEW s \in Statuses, at \notin {"warmup", "cooldown"}, SetResult(s),
               UNCHANGED at
        PROVE  /\ StackOK'
               /\ count' \in [Statuses -> Nat] /\ crashed' \in BOOLEAN
               /\ status' \in [case : Statuses, iter : Statuses, worst : Statuses]
               /\ causes' \subseteq Statuses \cup Uncounted
               /\ inBody' \in Nat
    <2>1. Len(ctxs) \in Nat /\ Len(ctxs) >= 1
      BY <1>1, <1>3, UserPointsAre DEF StackOK, StackIsDeep, Depth, IteratedPoints
    <2>2. Top \in Contexts
      BY <2>1, TopType DEF StackOK
    <2> DEFINE top == [Top EXCEPT !.failed = Top.failed \/ Critical(s),
                                  !.omitted = (s = "omission")]
    <2>3. top \in Contexts
      BY <2>2 DEF Contexts, Critical
    <2>4. ctxs' = [ctxs EXCEPT ![Len(ctxs)] = top]
      BY <1>3, <2>1 DEF SetResult, Top, StackOK, Contexts
    <2>5. StackOK'
      <3> HIDE DEF top
      <3>1. ctxs' \in Seq(Contexts) /\ Len(ctxs') = Len(ctxs)
        BY <2>1, <2>3, <2>4, ExceptSeq DEF StackOK
      <3> QED BY <1>3, <3>1 DEF StackOK, StackIsDeep
    <2>6. TypeOK
      BY TypeParts
    <2>7. Report(s, Top.owner)
      BY <1>3 DEF SetResult
    <2> QED BY <2>5, <2>6, <2>7, ReportType
  <1>4. CASE UserNotifies
    <2>1. "notification" \in Statuses /\ at \notin {"warmup", "cooldown"}
            /\ SetResult("notification") /\ UNCHANGED at
      BY <1>4 DEF UserNotifies, Statuses
    <2> QED BY ZenonT(60), <1>3, <1>4, <2>1 DEF UserNotifies, RestOK
  <1>5. ASSUME NEW s \in GiveUps, UserGivesUp(s)
        PROVE  StackOK' /\ RestOK'
    <2>1. s \in Statuses /\ at \notin {"warmup", "cooldown"} /\ SetResult(s)
            /\ UNCHANGED at
      BY <1>5, GiveUpsAssumption DEF UserGivesUp, Statuses
    <2> QED BY ZenonT(60), <1>3, <1>5, <2>1 DEF UserGivesUp, RestOK
  <1> QED BY <1>2, <1>4, <1>5 DEF UserStep

FrameNames == {"suite", "case", "iterated", "test"}

LEMMA FrameTypes ==
  ASSUME frames \in Seq(FrameNames)
  PROVE  /\ \A f \in FrameNames : PushFrame(f) \in Seq(FrameNames)
         /\ PopFrame \in Seq(FrameNames) /\ FreeFrame \in Seq(FrameNames)
  <1>1. \A f \in FrameNames : PushFrame(f) \in Seq(FrameNames)
    BY DEF PushFrame
  <1>2. PopFrame \in Seq(FrameNames)
    <2>1. Len(frames) \in Nat /\ Len(frames) - 1 \in Int
      OBVIOUS
    <2>2. \A i \in 1 .. Len(frames) - 1 : frames[i] \in FrameNames
      OBVIOUS
    <2> QED BY <2>1, <2>2, SubSeqProperties DEF PopFrame
  <1> QED BY <1>1, <1>2 DEF FreeFrame

LEMMA SignalStepTypes ==
  ASSUME StackOK, RestOK, CrashFramesAreLive, SignalStep
  PROVE  StackOK' /\ RestOK'
  <1> USE DEF FrameNames
  <1>1. frames \in Seq(FrameNames) /\ TypeOK
    BY TypeParts DEF RestOK
  <1>2. CASE FatalSignal
    BY <1>2 DEF FatalSignal, StackOK, StackIsDeep, RestOK
  <1>3. ASSUME NEW f, NEW signal, NEW owner, Caught(f, signal, owner)
        PROVE  /\ received' \in UserPoints \cup {"none"} /\ canceled' \in BOOLEAN
               /\ status' \in [case : Statuses, iter : Statuses, worst : Statuses]
               /\ count' \in [Statuses -> Nat] /\ crashed' \in BOOLEAN
               /\ causes' \subseteq Statuses \cup Uncounted
               /\ inBody' \in Nat
               /\ UNCHANGED <<pos, open, verdict>>
    <2>1. CASE signal = "crash"
      <3>1. "crash" \in Statuses /\ Report("crash", owner)
        BY <1>3, <2>1 DEF Caught, Statuses
      <3> QED BY <1>1, <1>3, <3>1, ReportType DEF Caught, InUserCode, RestOK
    <2>2. CASE signal # "crash"
      BY <1>3, <2>2 DEF Caught, InUserCode, NoReport, RestOK
    <2> QED BY <2>1, <2>2
  <1>4. ASSUME NEW signal \in {"crash", "interrupt"}, CaughtBySuite(signal)
        PROVE  StackOK' /\ RestOK'
    <2>1. Caught("suite", signal, "suite")
      BY <1>4 DEF CaughtBySuite
    <2>2. StackOK'
      BY <1>4 DEF CaughtBySuite, GoTo, StackOK, StackIsDeep, Depth, IteratedPoints
    <2> QED BY <1>1, <1>3, <1>4, <2>1, <2>2, FrameTypes
            DEF CaughtBySuite, GoTo, RestOK, Points, EnginePoints, UserPoints
  <1>5. ASSUME NEW signal \in {"crash", "interrupt"}, CaughtByCase(signal)
        PROVE  StackOK' /\ RestOK'
    <2>1. Caught("case", signal, "case") /\ at' = "shutdown"
      BY <1>5 DEF CaughtByCase, GoTo
    <2>2. StackOK'
      <3>1. Len(ctxs) \in Nat /\ Len(ctxs) >= 1
        BY <2>1, InnermostFrame, HandleSignalsAssumption
           DEF Caught, InUserCode, StackOK, StackIsDeep, Depth, IteratedPoints
      <3>2. ctxs' = [ctxs EXCEPT ![1].jump = "shutdown"] /\ 1 \in 1 .. Len(ctxs)
              /\ "shutdown" \in UserPoints
        BY <1>5, <3>1, UserPointsAre DEF CaughtByCase
      <3> QED BY <2>1, <3>1, <3>2, JumpType DEF StackOK, StackIsDeep, Depth
    <2> QED BY <1>1, <1>3, <1>5, <2>1, <2>2, FrameTypes, UserPointsAre
            DEF CaughtByCase, GoTo, RestOK, Points
  <1>6. ASSUME NEW signal \in {"crash", "interrupt"}, CaughtByIterated(signal)
        PROVE  StackOK' /\ RestOK'
    <2>1. Caught("iterated", signal, "iterated") /\ at' = "iteardown"
      BY <1>6 DEF CaughtByIterated, GoTo
    <2>2. StackOK'
      <3>1. Len(ctxs) \in Nat /\ Len(ctxs) >= 3
        BY <2>1, InnermostFrame, HandleSignalsAssumption
           DEF Caught, InUserCode, StackOK, StackIsDeep, Depth, IteratedPoints
      <3>2. /\ ctxs' = [ctxs EXCEPT ![Len(ctxs)].jump = "iteardown"]
            /\ Len(ctxs) \in 1 .. Len(ctxs) /\ "iteardown" \in UserPoints
        BY <1>6, <3>1, UserPointsAre DEF CaughtByIterated
      <3> QED BY <2>1, <3>1, <3>2, JumpType
              DEF StackOK, StackIsDeep, Depth, IteratedPoints
    <2> QED BY <1>1, <1>3, <1>6, <2>1, <2>2, FrameTypes, UserPointsAre
            DEF CaughtByIterated, GoTo, RestOK, Points
  <1>7. ASSUME NEW signal \in {"crash", "interrupt"}, CaughtByTest(signal)
        PROVE  StackOK' /\ RestOK'
    <2>1. /\ Caught("test", signal, Top.owner)
          /\ at' = IF at = "ibody" THEN "itest_end" ELSE "test_end"
          /\ UNCHANGED ctxs
      BY <1>7 DEF CaughtByTest, GoTo
    <2>2. StackOK'
      BY <2>1, InnermostFrame, HandleSignalsAssumption
         DEF Caught, InUserCode, StackOK, StackIsDeep, Depth, IteratedPoints
    <2> QED BY <1>1, <1>3, <1>7, <2>1, <2>2, FrameTypes
            DEF CaughtByTest, SucceedsAfter, GoTo, RestOK, Points, EnginePoints
  <1> QED BY <1>2, <1>4, <1>5, <1>6, <1>7 DEF SignalStep

-----------------------------------------------------------------------------
\* The four ways in which a step of the engine changes the stack.

LEMMA DepthIsNat == \A p : Depth(p) \in Nat
  BY DEF Depth

LEMMA StackKept ==
  ASSUME StackOK, UNCHANGED ctxs, Depth(at') <= Depth(at)
  PROVE  StackOK'
  BY DepthIsNat DEF StackOK, StackIsDeep

LEMMA StackPushed ==
  ASSUME StackOK, NEW owner \in {"case", "test", "iterator", "iterated"},
         NEW jump \in UserPoints, ctxs' = Append(ctxs, NewContext(owner, jump)),
         Depth(at') <= Depth(at) + 1
  PROVE  StackOK'
  <1>1. ctxs' \in Seq(Contexts) /\ Len(ctxs') = Len(ctxs) + 1
    BY NewContextType, AppendProperties DEF StackOK
  <1> QED BY <1>1, DepthIsNat DEF StackOK, StackIsDeep

LEMMA StackPopped ==
  ASSUME StackOK, ctxs' = PopCtx, Depth(at) >= 1, Depth(at') = Depth(at) - 1
  PROVE  StackOK'
  <1>1. Len(ctxs) \in Nat /\ Len(ctxs) >= 1
    BY DepthIsNat DEF StackOK, StackIsDeep
  <1> QED BY <1>1, PopCtxType, DepthIsNat DEF StackOK, StackIsDeep

LEMMA StackJumped ==
  ASSUME StackOK, Depth(at) >= 1, NEW i \in {1, Len(ctxs)}, NEW p \in UserPoints,
         ctxs' = [ctxs EXCEPT ![i].jump = p], Depth(at') <= Depth(at)
  PROVE  StackOK'
  <1>1. i \in 1 .. Len(ctxs)
    BY DepthIsNat DEF StackOK, StackIsDeep
  <1>2. ctxs' \in Seq(Contexts) /\ Len(ctxs') = Len(ctxs)
    BY <1>1, JumpType DEF StackOK
  <1> QED BY <1>2, DepthIsNat DEF StackOK, StackIsDeep

LEMMA TopOK ==
  ASSUME StackOK, Depth(at) >= 1
  PROVE  Top.failed \in BOOLEAN /\ Top.omitted \in BOOLEAN
  <1>1. Len(ctxs) \in Nat /\ Len(ctxs) >= 1
    BY DepthIsNat DEF StackOK, StackIsDeep
  <1> QED BY <1>1, TopType DEF StackOK, Contexts

Positions == [case : Nat, test : Nat, data : Nat, n : 0 .. MaxData]

\* The loops move on by one.
LEMMA NextPosition ==
  ASSUME RestOK
  PROVE  /\ [pos EXCEPT !.case = @ + 1] \in Positions
         /\ [pos EXCEPT !.test = @ + 1] \in Positions
         /\ [pos EXCEPT !.data = @ + 1] \in Positions
  <1>1. pos.case + 1 \in Nat /\ pos.test + 1 \in Nat /\ pos.data + 1 \in Nat
    BY DEF RestOK
  <1> QED BY <1>1 DEF RestOK, Positions

\* The loops and the ends of the case, the suite and the run.
LEMMA LoopTypes ==
  ASSUME StackOK, RestOK,
         \/ RunStart \/ WarmupDone \/ SkipCase \/ StartCase \/ EndOfCases
         \/ StartupDone \/ SkipTest \/ StartTest \/ EndOfTests
         \/ SkipData \/ StartIteratedTest
         \/ ShutdownDone \/ CooldownDone \/ EmitCompleteRun
  PROVE  StackOK' /\ RestOK'
  <1> USE FrameTypes, UserPointsAre
      DEF FrameNames, Back, Engine, GoTo, NoReport, Points, EnginePoints, Complete
  <1>1. frames \in Seq(FrameNames) /\ Len(ctxs) \in Nat
    BY DEF RestOK, StackOK
  <1>2. CASE RunStart
    <2>1. StackOK'
      BY <1>2, StackKept DEF RunStart, Depth, IteratedPoints
    <2> QED BY ZenonT(60), <1>1, <1>2, <2>1 DEF RunStart, RestOK
  <1>3. CASE WarmupDone
    <2>1. StackOK'
      BY <1>3, StackKept DEF WarmupDone, Depth, IteratedPoints
    <2> QED BY <1>3, <2>1 DEF WarmupDone, RestOK
  <1>4. CASE SkipCase
    <2>1. StackOK'
      BY <1>4, StackKept DEF SkipCase, Depth, IteratedPoints
    <2>2. pos' \in Positions
      BY <1>4, NextPosition DEF SkipCase
    <2> QED BY ZenonT(60), <1>4, <2>1, <2>2 DEF SkipCase, Positions, RestOK
  <1>5. CASE StartCase
    <2>1. StackOK'
      BY <1>5, StackPushed DEF StartCase, Depth, IteratedPoints
    <2>2. status' \in [case : Statuses, iter : Statuses, worst : Statuses]
      BY <1>5 DEF StartCase, RestOK, Statuses
    <2> QED BY <1>1, <1>5, <2>1, <2>2 DEF StartCase, RestOK
  <1>6. CASE EndOfCases
    <2>1. StackOK'
      BY <1>6, StackKept DEF EndOfCases, Depth, IteratedPoints
    <2> QED BY <1>1, <1>6, <2>1 DEF EndOfCases, RestOK
  <1>7. ASSUME at \in {"startup", "next_test"}, LeaveCase
        PROVE  /\ StackOK' /\ frames' \in Seq(FrameNames)
               /\ at' = "shutdown" /\ returned' = FALSE /\ UNCHANGED <<proc, pos>>
    BY <1>1, <1>7, StackJumped DEF LeaveCase, Depth, IteratedPoints
  <1>8. CASE StartupDone
    <2>1. Top.failed \in BOOLEAN
      BY <1>8, TopOK DEF StartupDone, Depth, IteratedPoints
    <2>2. ok' \in [suite : BOOLEAN, case : BOOLEAN, tests : BOOLEAN, test : BOOLEAN,
                   iter : BOOLEAN, valid : BOOLEAN]
      BY <1>8, <2>1 DEF StartupDone, RestOK
    <2>3. CASE LeaveCase
      BY <1>7, <1>8, <2>2, <2>3 DEF StartupDone, RestOK
    <2>4. CASE at' = "next_test" /\ UNCHANGED <<pos, frames, ctxs>>
      <3>1. StackOK'
        BY <1>8, <2>4, StackKept DEF StartupDone, Depth, IteratedPoints
      <3> QED BY <1>8, <2>2, <2>4, <3>1 DEF StartupDone, LeaveCase, RestOK
    <2> QED BY <1>8, <2>3, <2>4 DEF StartupDone
  <1>9. CASE SkipTest
    <2>1. StackOK'
      BY <1>9, StackKept DEF SkipTest, Depth, IteratedPoints
    <2>2. pos' \in Positions
      BY <1>9, NextPosition DEF SkipTest, NextTest
    <2> QED BY ZenonT(60), <1>9, <2>1, <2>2 DEF SkipTest, Positions, RestOK
  <1>10. CASE StartTest
    <2>1. /\ at = "next_test" /\ at' \in {"data_setup", "setup"}
          /\ \E owner \in {"iterator", "test"} : \E jump \in {"data_setup", "setup"} :
                ctxs' = Append(ctxs, NewContext(owner, jump))
      BY <1>10 DEF StartTest
    <2>2. StackOK'
      BY <2>1, StackPushed DEF Depth, IteratedPoints
    <2> QED BY <1>10, <2>1, <2>2 DEF StartTest, RestOK
  <1>11. CASE EndOfTests
    <2>1. ok' \in [suite : BOOLEAN, case : BOOLEAN, tests : BOOLEAN, test : BOOLEAN,
                   iter : BOOLEAN, valid : BOOLEAN]
      BY <1>11 DEF EndOfTests, TestsReturn, RestOK
    <2> QED BY <1>7, <1>11, <2>1 DEF EndOfTests, RestOK
  <1>12. CASE SkipData
    <2>1. StackOK'
      BY <1>12, StackKept DEF SkipData, Depth, IteratedPoints
    <2>2. pos' \in Positions
      BY <1>12, NextPosition DEF SkipData
    <2> QED BY ZenonT(60), <1>12, <2>1, <2>2 DEF SkipData, Positions, RestOK
  <1>13. CASE StartIteratedTest
    <2>1. StackOK'
      BY <1>13, StackPushed DEF StartIteratedTest, Depth, IteratedPoints
    <2> QED BY <1>1, <1>13, <2>1 DEF StartIteratedTest, RestOK
  <1>14. CASE ShutdownDone
    <2>1. StackOK'
      BY <1>14, StackPopped DEF ShutdownDone, Depth, IteratedPoints
    <2>2. pos' \in Positions
      BY <1>14, NextPosition DEF ShutdownDone
    <2> QED BY <1>14, <2>1, <2>2 DEF ShutdownDone, Positions, RestOK
  <1>15. CASE CooldownDone
    <2>1. StackOK'
      BY <1>15, StackKept DEF CooldownDone, Depth, IteratedPoints
    <2> QED BY <1>15, <2>1 DEF CooldownDone, RestOK
  <1>16. CASE EmitCompleteRun
    <2>1. StackOK'
      BY <1>16, StackKept DEF EmitCompleteRun, Depth, IteratedPoints
    <2> QED BY <1>16, <2>1 DEF EmitCompleteRun, RestOK
  <1> QED BY <1>2, <1>3, <1>4, <1>5, <1>6, <1>8, <1>9, <1>10, <1>11, <1>12,
             <1>13, <1>14, <1>15, <1>16

\* The way through a test.
LEMMA TestTypes ==
  ASSUME StackOK, RestOK,
         SetupDone \/ IteratedSetupDone \/ BodyDone \/ TestEnd \/ TeardownDone
  PROVE  StackOK' /\ RestOK'
  <1> USE FrameTypes, UserPointsAre
      DEF FrameNames, Back, Engine, GoTo, NoReport, Points, EnginePoints, Complete
  <1>1. frames \in Seq(FrameNames) /\ Len(ctxs) \in Nat
    BY DEF RestOK, StackOK
  <1>2. ASSUME Depth(at) >= 1, NEW p \in UserPoints, EnterTeardown(p),
               Depth(p) <= Depth(at)
        PROVE  StackOK' /\ at' = p /\ returned' = FALSE /\ UNCHANGED proc
    BY <1>1, <1>2, StackJumped DEF EnterTeardown
  <1>3. ASSUME Depth(at) >= 1, NEW p \in UserPoints, EnterBody(p),
               Depth(p) <= Depth(at)
        PROVE  /\ StackOK' /\ at' = p /\ returned' = FALSE
               /\ frames' \in Seq(FrameNames)
               /\ open' = open \cup {"test"} /\ inBody' = 0
               /\ UNCHANGED <<proc, ok, causes>>
    BY <1>1, <1>3, StackJumped DEF EnterBody
  <1>4. CASE SetupDone
    <2>1. /\ Depth(at) >= 1 /\ Depth("teardown") <= Depth(at)
          /\ Depth("body") <= Depth(at)
          /\ "teardown" \in UserPoints /\ "body" \in UserPoints
      BY <1>4 DEF SetupDone, Depth, IteratedPoints
    <2>2. CASE EnterTeardown("teardown") /\ UNCHANGED <<frames, open, inBody>>
      <3>1. StackOK' /\ at' = "teardown" /\ returned' = FALSE /\ UNCHANGED proc
        BY <1>2, <2>1, <2>2
      <3> QED BY <1>4, <2>2, <3>1 DEF SetupDone, EnterBody, RestOK, Uncounted
    <2>3. CASE EnterBody("body")
      <3>1. /\ StackOK' /\ at' = "body" /\ returned' = FALSE
            /\ frames' \in Seq(FrameNames)
            /\ open' = open \cup {"test"} /\ inBody' = 0
            /\ UNCHANGED <<proc, ok, causes>>
        BY <1>3, <2>1, <2>3
      <3> QED BY <1>4, <3>1 DEF SetupDone, RestOK
    <2> QED BY <1>4, <2>2, <2>3 DEF SetupDone
  <1>5. CASE IteratedSetupDone
    <2>1. /\ Depth(at) >= 1 /\ Depth("iteardown") <= Depth(at)
          /\ Depth("ibody") <= Depth(at)
          /\ "iteardown" \in UserPoints /\ "ibody" \in UserPoints
      BY <1>5 DEF IteratedSetupDone, Depth, IteratedPoints
    <2>2. CASE EnterTeardown("iteardown") /\ UNCHANGED <<open, causes, inBody>>
               /\ frames' = FreeFrame /\ ok' = [ok EXCEPT !.iter = FALSE]
      <3>1. StackOK' /\ at' = "iteardown" /\ returned' = FALSE /\ UNCHANGED proc
        BY <1>2, <2>1, <2>2
      <3> QED BY <1>1, <1>5, <2>2, <3>1 DEF IteratedSetupDone, RestOK
    <2>3. CASE EnterBody("ibody")
      <3>1. /\ StackOK' /\ at' = "ibody" /\ returned' = FALSE
            /\ frames' \in Seq(FrameNames)
            /\ open' = open \cup {"test"} /\ inBody' = 0
            /\ UNCHANGED <<proc, ok, causes>>
        BY <1>3, <2>1, <2>3
      <3> QED BY <1>5, <3>1 DEF IteratedSetupDone, RestOK
    <2> QED BY <1>5, <2>2, <2>3 DEF IteratedSetupDone
  <1>6. CASE BodyDone
    <2>1. Top.failed \in BOOLEAN
      BY <1>6, TopOK DEF BodyDone, Depth, IteratedPoints
    <2>2. StackOK'
      BY <1>6, StackKept DEF BodyDone, Depth, IteratedPoints
    <2> QED BY <1>1, <1>6, <2>1, <2>2 DEF BodyDone, RestOK
  <1>7. CASE TestEnd
    <2>1. /\ count' \in [Statuses -> Nat] /\ crashed' \in BOOLEAN
          /\ status' \in [case : Statuses, iter : Statuses, worst : Statuses]
          /\ causes' \subseteq Statuses \cup Uncounted
          /\ inBody' \in Nat
      <3>1. TypeOK
        BY TypeParts DEF StackOK
      <3>2. CASE Report("success", Top.owner)
        BY <3>1, <3>2, ReportType DEF Statuses
      <3>3. CASE NoReport /\ UNCHANGED status
        BY <3>3 DEF RestOK
      <3> QED BY <1>7, <3>2, <3>3 DEF TestEnd
    <2>2. CASE at = "test_end"
      <3>1. /\ StackOK' /\ at' = "teardown" /\ returned' = FALSE
            /\ UNCHANGED <<proc, ok, frames>>
        BY <1>2, <1>7, <2>2 DEF TestEnd, Depth, IteratedPoints
      <3> QED BY <1>7, <2>1, <2>2, <3>1 DEF TestEnd, RestOK
    <2>3. CASE at = "itest_end"
      <3>1. /\ StackOK' /\ at' = "iteardown" /\ returned' = FALSE
            /\ frames' = FreeFrame /\ UNCHANGED proc
            /\ ok' = [ok EXCEPT !.iter = @ /\ ok.test]
        BY <1>2, <1>7, <2>3 DEF TestEnd, Depth, IteratedPoints
      <3> QED BY <1>1, <1>7, <2>1, <2>3, <3>1 DEF TestEnd, RestOK
    <2> QED BY <1>7, <2>2, <2>3 DEF TestEnd
  <1>8. CASE TeardownDone
    <2>1. StackOK'
      BY <1>8, StackPopped DEF TeardownDone, Depth, IteratedPoints
    <2>2. pos' \in Positions
      BY <1>8, NextPosition DEF TeardownDone, NextTest
    <2> QED BY <1>8, <2>1, <2>2 DEF TeardownDone, Positions, RestOK
  <1> QED BY <1>4, <1>5, <1>6, <1>7, <1>8

\* The way through an iterator.
LEMMA IteratorTypes ==
  ASSUME StackOK, RestOK,
         DataSetupDone \/ EndOfData \/ IteratedTeardownDone \/ NullSuccess
  PROVE  StackOK' /\ RestOK'
  <1> USE UserPointsAre
      DEF Back, Engine, GoTo, NoReport, Points, EnginePoints, Complete
  <1>1. Len(ctxs) \in Nat
    BY DEF StackOK
  <1>2. ASSUME NEW success \in BOOLEAN, at \in {"data_setup", "next_data"},
               LeaveIterator(success)
        PROVE  /\ StackOK' /\ pos' \in Positions
               /\ at' = "next_test" /\ returned' = FALSE /\ UNCHANGED proc
               /\ ok' \in [suite : BOOLEAN, case : BOOLEAN, tests : BOOLEAN, test : BOOLEAN,
                           iter : BOOLEAN, valid : BOOLEAN]
    <2>1. StackOK'
      BY <1>2, StackPopped DEF LeaveIterator, Depth, IteratedPoints
    <2>2. pos' \in Positions
      BY <1>2, NextPosition DEF LeaveIterator, NextTest
    <2> QED BY <1>2, <2>1, <2>2 DEF LeaveIterator, RestOK
  <1>3. CASE DataSetupDone
    <2>1. CASE Top.failed
      <3>1. LeaveIterator(FALSE) /\ at = "data_setup"
        BY <1>3, <2>1 DEF DataSetupDone
      <3> QED BY <1>2, <1>3, <2>1, <3>1 DEF DataSetupDone, RestOK, Positions, Uncounted
    <2>2. CASE ~Top.failed
      <3>0. /\ at = "data_setup" /\ at' = "next_data" /\ UNCHANGED ctxs
            /\ \E n \in 0 .. MaxData : pos' = [pos EXCEPT !.n = n, !.data = 1]
        BY <1>3, <2>2 DEF DataSetupDone
      <3>1. StackOK'
        BY <3>0, StackKept DEF Depth, IteratedPoints
      <3>2. pos' \in Positions
        <4>1. PICK n \in 0 .. MaxData : pos' = [pos EXCEPT !.n = n, !.data = 1]
          BY <3>0
        <4>2. pos \in Positions
          BY DEF RestOK, Positions
        <4> QED BY <4>1, <4>2 DEF Positions
      <3>3. status' \in [case : Statuses, iter : Statuses, worst : Statuses]
        BY ZenonT(60), <1>3, <2>2 DEF DataSetupDone, RestOK, Statuses
      <3> QED BY <1>3, <2>2, <3>1, <3>2, <3>3 DEF DataSetupDone, RestOK, Positions
    <2> QED BY <1>3, <2>1, <2>2 DEF DataSetupDone
  <1>4. CASE EndOfData
    <2>1. TypeOK
      BY TypeParts DEF StackOK
    <2>2. /\ Report(status.iter, "iterator") /\ status.iter \in Statuses
          /\ LeaveIterator(ok.iter) /\ ok.iter \in BOOLEAN
      BY <1>4 DEF EndOfData, RestOK
    <2>3. /\ count' \in [Statuses -> Nat] /\ crashed' \in BOOLEAN
          /\ status' \in [case : Statuses, iter : Statuses, worst : Statuses]
          /\ causes' \subseteq Statuses \cup Uncounted
          /\ inBody' \in Nat
      BY <2>1, <2>2, ReportType
    <2> QED BY <1>2, <1>4, <2>2, <2>3 DEF EndOfData, RestOK, Positions
  <1>5. CASE IteratedTeardownDone
    <2>1. Depth(at) = 3 /\ at' = "next_data" /\ Depth("next_data") = 2
      BY <1>5 DEF IteratedTeardownDone, Depth, IteratedPoints
    <2>2. Len(ctxs) >= 3
      BY <2>1 DEF StackOK, StackIsDeep
    <2>3. Top.failed \in BOOLEAN
      BY <2>1, TopOK
    <2>4. PopCtx \in Seq(Contexts) /\ Len(PopCtx) = Len(ctxs) - 1
      BY <1>1, <2>2, PopCtxType DEF StackOK
    <2> DEFINE below == [PopCtx[Len(ctxs) - 1] EXCEPT !.failed = Top.failed]
    <2>5. Len(ctxs) - 1 \in 1 .. Len(PopCtx)
      BY <1>1, <2>2, <2>4
    <2>6. below \in Contexts
      <3>1. PopCtx[Len(ctxs) - 1] \in Contexts
        BY <2>4, <2>5, ElementOfSeq
      <3> QED BY <2>3, <3>1 DEF Contexts
    <2>7. ctxs' = [PopCtx EXCEPT ![Len(ctxs) - 1] = below]
      BY <1>5 DEF IteratedTeardownDone
    <2> HIDE DEF below
    <2>8. ctxs' \in Seq(Contexts) /\ Len(ctxs') = Len(ctxs) - 1
      BY <2>4, <2>5, <2>6, <2>7, ExceptSeq
    <2>9. StackOK'
      BY <1>1, <2>1, <2>2, <2>8 DEF StackOK, StackIsDeep
    <2>10. pos' \in Positions
      BY <1>5, NextPosition DEF IteratedTeardownDone
    <2> QED BY <1>5, <2>9, <2>10 DEF IteratedTeardownDone, RestOK, Positions
  <1>6. CASE NullSuccess
    BY <1>6, StackKept DEF NullSuccess, RestOK, Depth
  <1> QED BY <1>3, <1>4, <1>5, <1>6

-----------------------------------------------------------------------------
TypeInv == TypeOK /\ StackIsDeep

\* The types and the depth of the context stack hold in every reachable state.
THEOREM TypeInvariant == Spec => []TypeInv
  <1>1. Init => TypeInv
    <2> SUFFICES ASSUME Init PROVE TypeInv
      OBVIOUS
    <2>1. StackIsDeep
      BY DEF Init, StackIsDeep, Depth, IteratedPoints
    <2>2. count \in [Statuses -> Nat] /\ pos \in Positions
      BY BoundAssumption DEF Init, Positions
    <2>3. ctxs \in Seq(Contexts) /\ frames \in Seq(FrameNames)
      BY DEF Init
    <2> QED BY <2>1, <2>2, <2>3
            DEF Init, TypeInv, TypeOK, EnginePoints, Statuses, Contexts, Positions,
                FrameNames
  <1>2. TypeInv /\ CrashFramesAreLive /\ [Next]_vars => TypeInv'
    <2> SUFFICES ASSUME TypeInv, CrashFramesAreLive, [Next]_vars
                 PROVE  StackOK' /\ RestOK'
      BY DEF TypeInv, TypeOK, StackOK, RestOK, Points, Contexts
    <2>1. StackOK /\ RestOK
      BY TypeParts DEF TypeInv
    <2>2. CASE UserStep
      BY <2>1, <2>2, UserStepTypes
    <2>3. CASE SignalStep
      BY <2>1, <2>3, SignalStepTypes
    <2>4. CASE EngineStep
      BY <2>1, <2>4, LoopTypes, TestTypes, IteratorTypes DEF EngineStep
    <2>5. CASE UNCHANGED vars
      BY <2>1, <2>5 DEF vars, StackOK, StackIsDeep, RestOK
    <2> QED BY <2>2, <2>3, <2>4, <2>5 DEF Next, Ended
  <1> QED BY <1>1, <1>2, CrashFramesInvariant, PTL DEF Spec

\* TypeOK, which the model checker evaluates on every state of every run.
THEOREM TypeCorrectness == Spec => []TypeOK
  BY TypeInvariant, PTL DEF TypeInv

-----------------------------------------------------------------------------
\* Unwinding.

\* The functions that are entered only while the run is not canceled.
Entered == {"startup", "data_setup", "setup", "isetup", "body", "ibody"}

\* Once the signal has come the run is canceled, so the points ahead of the
\* thread are those of the unwinding; the pointer `success' is lost to a signal
\* only.
SignalInv ==
  /\ received # "none" => IsCanceled
  /\ ~ok.valid => received # "none"
  /\ received = "iteardown" => at \in {"shutdown", "next_case", "cooldown", "finish"}
  /\ received = "shutdown" => at \in {"cooldown", "finish"}
  /\ at \in Entered => ~IsCanceled

\* A result that is not a crash does not cancel the run.
LEMMA ReportCancels ==
  ASSUME NEW s, NEW owner, Report(s, owner), s # "crash", UNCHANGED canceled,
         TypeOK
  PROVE  IsCanceled' = IsCanceled
  BY DEF Report, IsCanceled, TypeOK

LEMMA NoReportCancels ==
  ASSUME NoReport, UNCHANGED canceled
  PROVE  IsCanceled' = IsCanceled
  BY DEF NoReport, IsCanceled

LEMMA SignalInvUserStep ==
  ASSUME TypeOK, SignalInv, UserStep
  PROVE  SignalInv'
  <1>1. CASE UserReturns
    BY <1>1 DEF UserReturns, SignalInv, IsCanceled
  <1>2. CASE UserNotifies
    <2>1. Report("notification", Top.owner) /\ UNCHANGED <<at, received, ok, canceled>>
      BY <1>2 DEF UserNotifies, SetResult
    <2> QED BY <2>1, ReportCancels DEF SignalInv
  <1>3. ASSUME NEW s \in GiveUps, UserGivesUp(s)
        PROVE  SignalInv'
    <2>1. /\ Report(s, Top.owner) /\ s # "crash"
          /\ UNCHANGED <<at, received, ok, canceled>>
      BY <1>3, GiveUpsAssumption DEF UserGivesUp, SetResult
    <2> QED BY <2>1, ReportCancels DEF SignalInv
  <1> QED BY <1>1, <1>2, <1>3 DEF UserStep

LEMMA SignalInvSignalStep ==
  ASSUME TypeOK, CrashFramesAreLive, SignalInv, SignalStep
  PROVE  SignalInv'
  <1>1. CASE FatalSignal
    BY <1>1 DEF FatalSignal, SignalInv, IsCanceled
  <1>2. ASSUME NEW f, NEW signal \in {"crash", "interrupt"}, NEW owner,
               Caught(f, signal, owner)
        PROVE  IsCanceled' /\ received' = at /\ at \in UserPoints
    BY <1>2 DEF Caught, InUserCode, Report, IsCanceled, TypeOK
  <1>3. ASSUME NEW signal \in {"crash", "interrupt"}, CaughtBySuite(signal)
        PROVE  SignalInv'
    <2>1. /\ IsCanceled' /\ received' = at /\ at' = "cooldown" /\ at \in UserPoints
          /\ frames # <<>> /\ frames[Len(frames)] = "suite"
      BY <1>2, <1>3 DEF CaughtBySuite, Caught, GoTo
    <2>2. at \in {"warmup", "shutdown"}
      BY <2>1, InnermostFrame, HandleSignalsAssumption
    <2> QED BY <2>1, <2>2 DEF SignalInv, Entered
  <1>4. ASSUME NEW signal \in {"crash", "interrupt"}, CaughtByCase(signal)
        PROVE  SignalInv'
    <2>1. /\ IsCanceled' /\ received' = at /\ at' = "shutdown" /\ at \in UserPoints
          /\ frames # <<>> /\ frames[Len(frames)] = "case"
      BY <1>2, <1>4 DEF CaughtByCase, Caught, GoTo
    <2>2. at # "shutdown" /\ at # "none"
      BY <2>1, InnermostFrame, HandleSignalsAssumption
    <2> QED BY <2>1, <2>2 DEF SignalInv, Entered
  <1>5. ASSUME NEW signal \in {"crash", "interrupt"}, CaughtByIterated(signal)
        PROVE  SignalInv'
    <2>1. /\ IsCanceled' /\ received' = at /\ at' = "iteardown" /\ at \in UserPoints
          /\ frames # <<>> /\ frames[Len(frames)] = "iterated"
      BY <1>2, <1>5 DEF CaughtByIterated, Caught, GoTo
    <2>2. at = "isetup"
      BY <2>1, InnermostFrame, HandleSignalsAssumption
    <2> QED BY <2>1, <2>2 DEF SignalInv, Entered
  <1>6. ASSUME NEW signal \in {"crash", "interrupt"}, CaughtByTest(signal)
        PROVE  SignalInv'
    <2>1. /\ IsCanceled' /\ received' = at /\ at' \in {"itest_end", "test_end"}
          /\ frames # <<>> /\ frames[Len(frames)] = "test" /\ at \in UserPoints
      BY <1>2, <1>6 DEF CaughtByTest, Caught, GoTo
    <2>2. at \in {"body", "ibody"}
      BY <2>1, InnermostFrame, HandleSignalsAssumption
    <2> QED BY <2>1, <2>2 DEF SignalInv, Entered
  <1> QED BY <1>1, <1>3, <1>4, <1>5, <1>6 DEF SignalStep

\* Nothing takes a cancellation back.
LEMMA EngineStepKeepsCancel ==
  ASSUME EngineStep
  PROVE  IsCanceled => IsCanceled'
  <1>1. UNCHANGED canceled
    BY DEF EngineStep, RunStart, WarmupDone, SkipCase, StartCase, EndOfCases,
           StartupDone, SkipTest, StartTest, EndOfTests, SetupDone, BodyDone,
           TestEnd, TeardownDone, DataSetupDone, SkipData, StartIteratedTest,
           EndOfData, IteratedSetupDone, IteratedTeardownDone, NullSuccess,
           ShutdownDone, CooldownDone, EmitCompleteRun
  <1>2. CASE NoReport
    BY <1>1, <1>2, NoReportCancels
  <1>3. ASSUME NEW s, NEW owner, Report(s, owner)
        PROVE  IsCanceled => IsCanceled'
    BY <1>1, <1>3 DEF Report, IsCanceled
  <1>4. CASE UNCHANGED crashed
    BY <1>1, <1>4 DEF IsCanceled
  <1> QED BY <1>2, <1>3, <1>4
          DEF EngineStep, RunStart, WarmupDone, SkipCase, StartCase, EndOfCases,
                StartupDone, SkipTest, StartTest, EndOfTests, SetupDone, BodyDone,
                TestEnd, TeardownDone, DataSetupDone, SkipData, StartIteratedTest,
                EndOfData, IteratedSetupDone, IteratedTeardownDone, NullSuccess,
                ShutdownDone, CooldownDone, EmitCompleteRun

LEMMA StepKeepsCancel ==
  ASSUME TypeOK, [Next]_vars
  PROVE  IsCanceled => IsCanceled'
  <1>1. CASE UserStep
    <2>1. ASSUME NEW s, NEW owner, Report(s, owner), UNCHANGED canceled
          PROVE  IsCanceled => IsCanceled'
      BY <2>1 DEF Report, IsCanceled
    <2> QED BY <1>1, <2>1 DEF UserStep, UserReturns, UserNotifies, UserGivesUp,
                             SetResult, IsCanceled
  <1>2. CASE SignalStep
    <2>1. ASSUME NEW f, NEW signal, NEW owner, Caught(f, signal, owner)
          PROVE  IsCanceled => IsCanceled'
      BY <2>1 DEF Caught, Report, NoReport, IsCanceled
    <2> QED BY <1>2, <2>1 DEF SignalStep, FatalSignal, CaughtBySuite, CaughtByCase,
                             CaughtByIterated, CaughtByTest, IsCanceled
  <1>3. CASE EngineStep
    BY <1>3, EngineStepKeepsCancel
  <1>4. CASE UNCHANGED vars
    BY <1>4 DEF vars, IsCanceled
  <1> QED BY <1>1, <1>2, <1>3, <1>4 DEF Next, Ended

LEMMA SignalInvEngineStep ==
  ASSUME TypeOK, SignalInv, EngineStep
  PROVE  SignalInv'
  <1> USE DEF Engine, Back, GoTo
  <1>1. UNCHANGED <<received, canceled>>
    BY DEF EngineStep, RunStart, WarmupDone, SkipCase, StartCase, EndOfCases,
           StartupDone, SkipTest, StartTest, EndOfTests, SetupDone, BodyDone,
           TestEnd, TeardownDone, DataSetupDone, SkipData, StartIteratedTest,
           EndOfData, IteratedSetupDone, IteratedTeardownDone, NullSuccess,
           ShutdownDone, CooldownDone, EmitCompleteRun
  <1>2. ok'.valid = ok.valid
    <2>1. ASSUME NEW b, \/ ok' = [ok EXCEPT !.case = b]
                        \/ ok' = [ok EXCEPT !.case = b, !.tests = TRUE]
                        \/ ok' = [ok EXCEPT !.tests = b]
                        \/ ok' = [ok EXCEPT !.test = b]
                        \/ ok' = [ok EXCEPT !.iter = b]
                        \/ ok' = [ok EXCEPT !.suite = b]
          PROVE  ok'.valid = ok.valid
      BY <2>1 DEF TypeOK
    <2>2. \/ UNCHANGED ok
          \/ \E b : \/ ok' = [ok EXCEPT !.case = b] \/ ok' = [ok EXCEPT !.test = b]
                    \/ ok' = [ok EXCEPT !.case = b, !.tests = TRUE]
                    \/ ok' = [ok EXCEPT !.tests = b]
                    \/ ok' = [ok EXCEPT !.iter = b] \/ ok' = [ok EXCEPT !.suite = b]
      BY DEF EnterBody, EnterTeardown, LeaveIterator, TestsReturn,
             EngineStep, RunStart, WarmupDone, SkipCase, StartCase, EndOfCases,
             StartupDone, SkipTest, StartTest, EndOfTests, SetupDone, BodyDone,
             TestEnd, TeardownDone, DataSetupDone, SkipData, StartIteratedTest,
             EndOfData, IteratedSetupDone, IteratedTeardownDone, NullSuccess,
             ShutdownDone, CooldownDone, EmitCompleteRun
    <2> QED BY <2>1, <2>2
  <1>3. IsCanceled => IsCanceled'
    BY EngineStepKeepsCancel
  <1>4. ASSUME at' \in Entered
        PROVE  ~IsCanceled /\ IsCanceled' = IsCanceled
    <2>1. CASE StartCase
      BY <2>1, <1>1, NoReportCancels DEF StartCase
    <2>2. CASE StartTest
      BY <2>2, <1>1, NoReportCancels DEF StartTest
    <2>3. CASE StartIteratedTest
      BY <2>3, <1>1, NoReportCancels DEF StartIteratedTest
    <2>4. CASE SetupDone \/ IteratedSetupDone
      BY <2>4, <1>1 DEF SetupDone, IteratedSetupDone, SignalInv, Entered, IsCanceled
    <2>5. CASE RunStart \/ WarmupDone \/ EndOfCases \/ StartupDone \/ EndOfTests
                \/ BodyDone \/ TestEnd \/ TeardownDone \/ DataSetupDone
                \/ EndOfData \/ IteratedTeardownDone
                \/ ShutdownDone \/ CooldownDone
      <3>1. at' \in {"finish", "warmup", "next_case", "cooldown", "shutdown",
                     "next_test", "itest_end", "test_end", "iteardown", "teardown",
                     "next_data"}
        BY <2>5 DEF RunStart, WarmupDone, EndOfCases, StartupDone, LeaveCase,
                    EndOfTests, BodyDone, TestEnd, EnterTeardown, TeardownDone,
                    DataSetupDone, LeaveIterator, EndOfData, IteratedTeardownDone,
                    ShutdownDone, CooldownDone
      <3> QED BY <1>4, <3>1 DEF Entered
    <2>6. CASE SkipCase \/ SkipTest \/ SkipData \/ NullSuccess \/ EmitCompleteRun
      BY <2>6, <1>4 DEF SkipCase, SkipTest, SkipData, NullSuccess, EmitCompleteRun,
                        Entered
    <2> QED BY <2>1, <2>2, <2>3, <2>4, <2>5, <2>6 DEF EngineStep
  <1>5. ASSUME at \in {"shutdown", "next_case", "cooldown", "finish"}, IsCanceled
        PROVE  /\ at' \in {"shutdown", "next_case", "cooldown", "finish"}
               /\ at \in {"cooldown", "finish"} => at' \in {"cooldown", "finish"}
    BY <1>5 DEF EngineStep, RunStart, WarmupDone, SkipCase, StartCase, EndOfCases,
                StartupDone, SkipTest, StartTest, EndOfTests, SetupDone, BodyDone,
                TestEnd, TeardownDone, DataSetupDone, SkipData, StartIteratedTest,
                EndOfData, IteratedSetupDone, IteratedTeardownDone, NullSuccess,
                ShutdownDone, CooldownDone, EmitCompleteRun
  <1> QED BY <1>1, <1>2, <1>3, <1>4, <1>5 DEF SignalInv

THEOREM SignalInvariant == Spec => []SignalInv
  <1>1. Init => SignalInv
    BY DEF Init, SignalInv, IsCanceled, Entered
  <1>2. TypeOK /\ CrashFramesAreLive /\ SignalInv /\ [Next]_vars => SignalInv'
    <2>1. UNCHANGED vars /\ SignalInv => SignalInv'
      BY DEF vars, SignalInv, IsCanceled
    <2> QED BY <2>1, SignalInvUserStep, SignalInvSignalStep, SignalInvEngineStep
            DEF Next, Ended
  <1> QED BY <1>1, <1>2, TypeCorrectness, CrashFramesInvariant, PTL DEF Spec

\* A canceled run only unwinds: a step of it never enters a startup, a set up
\* or a test.
THEOREM CanceledRunTheorem == Spec => CanceledRunUnwinds
  <1>1. SignalInv' /\ TypeOK /\ [Next]_vars
          => [(canceled \/ crashed) /\ at' # at =>
                at' \notin {"startup", "data_setup", "setup", "isetup", "body",
                            "ibody"}]_vars
    BY StepKeepsCancel DEF SignalInv, Entered, IsCanceled
  <1> QED BY <1>1, SignalInvariant, TypeCorrectness, PTL DEF Spec, CanceledRunUnwinds

\* With signal handling on, only a signal in cooldown can be the first one and
\* cost the process.
THEOREM FirstSignalTheorem == Spec => []FirstSignalIsCaught
  <1>1. Init => FirstSignalIsCaught
    BY DEF Init, FirstSignalIsCaught
  <1>2. FirstSignalIsCaught /\ SignalInv /\ CrashFramesAreLive /\ [Next]_vars
          => FirstSignalIsCaught'
    <2> SUFFICES ASSUME FirstSignalIsCaught, SignalInv, CrashFramesAreLive,
                        [Next]_vars
                 PROVE  FirstSignalIsCaught'
      OBVIOUS
    <2>1. CASE FatalSignal
      <3>1. /\ at \in UserPoints /\ UNCHANGED <<at, received>>
            /\ frames = <<>> \/ received # "none"
        BY <2>1 DEF FatalSignal, InUserCode
      <3>2. frames = <<>> /\ HandleSignals => at = "cooldown"
        <4>1. /\ <<"suite">> # <<>> /\ <<"suite", "case">> # <<>>
              /\ <<"suite", "case", "test">> # <<>>
              /\ <<"suite", "case", "iterated">> # <<>>
              /\ <<"suite", "case", "iterated", "test">> # <<>>
          OBVIOUS
        <4>2. \/ at = "cooldown"
              \/ at \in {"warmup", "shutdown"}
              \/ at \in {"startup", "data_setup", "setup", "teardown", "iteardown"}
              \/ at = "body" \/ at = "isetup" \/ at = "ibody"
          BY <3>1, UserPointsAre
        <4>3. at # "cooldown" => LiveFrames(at) # <<>>
          BY <4>1, <4>2, PointFrames
        <4> QED BY <4>3 DEF CrashFramesAreLive
      <3> QED BY <3>1, <3>2 DEF FirstSignalIsCaught
    <2>2. CASE NullSuccess
      BY <2>2 DEF NullSuccess, SignalInv, FirstSignalIsCaught
    <2>3. ASSUME proc = "running", proc' \notin {"exited", "killed"}
          PROVE  FirstSignalIsCaught'
      BY <2>3 DEF FirstSignalIsCaught
    <2>4. CASE UNCHANGED vars
      BY <2>4 DEF vars, FirstSignalIsCaught
    <2>5. CASE UserStep
      BY <2>3, <2>5 DEF UserStep, UserReturns, UserNotifies, UserGivesUp, InUserCode
    <2>6. CASE SignalStep /\ ~FatalSignal
      BY <2>3, <2>6 DEF SignalStep, Caught, InUserCode, GoTo, CaughtBySuite,
                        CaughtByCase, CaughtByIterated, CaughtByTest
    <2>7. CASE EngineStep /\ ~NullSuccess
      BY <2>3, <2>7
         DEF Engine, Back, GoTo, EnterBody, EnterTeardown, LeaveIterator, LeaveCase,
             EngineStep, RunStart, WarmupDone, SkipCase, StartCase, EndOfCases,
             StartupDone, SkipTest, StartTest, EndOfTests, SetupDone, BodyDone,
             TestEnd, TeardownDone, DataSetupDone, SkipData, StartIteratedTest,
             EndOfData, IteratedSetupDone, IteratedTeardownDone,
             ShutdownDone, CooldownDone, EmitCompleteRun
    <2> QED BY <2>1, <2>2, <2>4, <2>5, <2>6, <2>7 DEF Next, Ended
  <1> QED BY <1>1, <1>2, SignalInvariant, CrashFramesInvariant, PTL DEF Spec

-----------------------------------------------------------------------------
\* What has started and not completed at each point.

LEMMA OpenPoints ==
  ASSUME NEW p
  PROVE  /\ p = "start" => OpenAt(p) = {}
         /\ p = "finish" => OpenAt(p) = {"run"}
         /\ p \in {"warmup", "next_case", "cooldown"} => OpenAt(p) = {"run", "suite"}
         /\ p \in {"startup", "next_test", "shutdown", "setup", "teardown",
                   "data_setup"}
              => OpenAt(p) = {"run", "suite", "case"}
         /\ p \in {"body", "test_end"} => OpenAt(p) = {"run", "suite", "case", "test"}
         /\ p \in {"next_data", "isetup", "iteardown"}
              => OpenAt(p) = {"run", "suite", "case", "iterator"}
         /\ p \in {"ibody", "itest_end"}
              => OpenAt(p) = {"run", "suite", "case", "iterator", "test"}
  <1>1. LiveOwners(p) = <<>> <=>
          p \notin {"startup", "next_test", "shutdown", "setup", "body", "test_end",
                    "teardown", "data_setup", "next_data", "isetup", "ibody",
                    "itest_end", "iteardown"}
    <2>1. /\ <<"case">> # <<>> /\ <<"case", "test">> # <<>>
          /\ <<"case", "iterator">> # <<>>
          /\ <<"case", "iterator", "iterated">> # <<>>
      OBVIOUS
    <2> QED BY <2>1 DEF LiveOwners
  <1> QED BY <1>1 DEF OpenAt

\* What a signal in an iterated teardown or in a shutdown leaves open.
Left == (IF received = "iteardown" THEN {"iterator"} ELSE {})
          \cup (IF received = "shutdown" THEN {"case"} ELSE {})

LEMMA StartsAre ==
  StartsAreCompleted <=>
    open = (IF proc = "complete" THEN {} ELSE OpenAt(at)) \cup Left
  BY DEF StartsAreCompleted, Left

\* A step of a running process that changes the open signals as the points say.
LEMMA OpenStep ==
  ASSUME StartsAreCompleted, proc = "running", proc' # "complete",
         UNCHANGED received,
         \/ UNCHANGED open /\ OpenAt(at') = OpenAt(at)
         \/ \E x : open' = open \cup {x} /\ OpenAt(at') = OpenAt(at) \cup {x}
         \/ \E x : open' = open \ {x} /\ OpenAt(at') = OpenAt(at) \ {x} /\ x \notin Left
  PROVE  StartsAreCompleted'
  <1>1. open = OpenAt(at) \cup Left
    BY DEF StartsAreCompleted, Left
  <1>2. Left' = Left
    BY DEF Left
  <1>3. open' = OpenAt(at') \cup Left'
    BY <1>1, <1>2
  <1> QED BY <1>3 DEF StartsAreCompleted, Left

LEMMA StartsUserStep ==
  ASSUME StartsAreCompleted, UserStep
  PROVE  StartsAreCompleted'
  BY DEF UserStep, UserReturns, UserNotifies, UserGivesUp, InUserCode,
         StartsAreCompleted

LEMMA StartsSignalStep ==
  ASSUME StartsAreCompleted, CrashFramesAreLive, SignalStep
  PROVE  StartsAreCompleted'
  <1>1. CASE FatalSignal
    BY <1>1 DEF FatalSignal, InUserCode, StartsAreCompleted
  <1>2. ASSUME NEW f, NEW signal, NEW owner, Caught(f, signal, owner)
        PROVE  /\ open = OpenAt(at) /\ UNCHANGED open
               /\ received' = at /\ at \in UserPoints
               /\ frames # <<>> /\ frames[Len(frames)] = f
    BY <1>2 DEF Caught, InUserCode, StartsAreCompleted
  <1>3. ASSUME NEW signal, CaughtBySuite(signal)
        PROVE  StartsAreCompleted'
    <2>1. /\ open = OpenAt(at) /\ UNCHANGED open /\ received' = at
          /\ at' = "cooldown" /\ proc' = proc /\ proc = "running"
      BY <1>2, <1>3 DEF CaughtBySuite, Caught, InUserCode, GoTo
    <2>2. at \in {"warmup", "shutdown"}
      BY <1>2, <1>3, InnermostFrame, HandleSignalsAssumption DEF CaughtBySuite
    <2> QED BY <2>1, <2>2, OpenPoints DEF StartsAreCompleted
  <1>4. ASSUME NEW signal, CaughtByCase(signal)
        PROVE  StartsAreCompleted'
    <2>1. /\ open = OpenAt(at) /\ UNCHANGED open /\ received' = at
          /\ at' = "shutdown" /\ proc' = proc /\ proc = "running"
      BY <1>2, <1>4 DEF CaughtByCase, Caught, InUserCode, GoTo
    <2>2. at \in {"startup", "data_setup", "setup", "teardown", "iteardown"}
      BY <1>2, <1>4, InnermostFrame, HandleSignalsAssumption DEF CaughtByCase
    <2>3. CASE at = "iteardown"
      BY <2>1, <2>3, OpenPoints DEF StartsAreCompleted
    <2>4. CASE at # "iteardown"
      BY <2>1, <2>2, <2>4, OpenPoints DEF StartsAreCompleted
    <2> QED BY <2>3, <2>4
  <1>5. ASSUME NEW signal, CaughtByIterated(signal)
        PROVE  StartsAreCompleted'
    <2>1. /\ open = OpenAt(at) /\ UNCHANGED open /\ received' = at
          /\ at' = "iteardown" /\ proc' = proc /\ proc = "running"
      BY <1>2, <1>5 DEF CaughtByIterated, Caught, InUserCode, GoTo
    <2>2. at = "isetup"
      BY <1>2, <1>5, InnermostFrame, HandleSignalsAssumption DEF CaughtByIterated
    <2> QED BY <2>1, <2>2, OpenPoints DEF StartsAreCompleted
  <1>6. ASSUME NEW signal, CaughtByTest(signal)
        PROVE  StartsAreCompleted'
    <2>1. /\ open = OpenAt(at) /\ UNCHANGED open /\ received' = at
          /\ at' = (IF at = "ibody" THEN "itest_end" ELSE "test_end")
          /\ proc' = proc /\ proc = "running"
      BY <1>2, <1>6 DEF CaughtByTest, Caught, InUserCode, GoTo
    <2>2. at \in {"body", "ibody"}
      BY <1>2, <1>6, InnermostFrame, HandleSignalsAssumption DEF CaughtByTest
    <2> QED BY <2>1, <2>2, OpenPoints DEF StartsAreCompleted
  <1> QED BY <1>1, <1>3, <1>4, <1>5, <1>6 DEF SignalStep

LEMMA StartsEngineStep ==
  ASSUME StartsAreCompleted, SignalInv, EngineStep
  PROVE  StartsAreCompleted'
  <1> USE OpenStep, OpenPoints DEF Engine, Back, GoTo, Complete
  <1>1. /\ at \notin {"cooldown", "finish"} => "case" \notin Left
        /\ at \notin {"shutdown", "next_case", "cooldown", "finish"}
             => "iterator" \notin Left
        /\ {"run", "suite", "test"} \cap Left = {}
    BY DEF Left, SignalInv
  <1>2. CASE RunStart
    <2>1. received = "none" \/ Left \subseteq {"case", "iterator"}
      BY DEF Left
    <2>2. open = Left /\ received' = received
      BY <1>2 DEF RunStart, StartsAreCompleted, Left
    <2>3. Left = {}
      BY <1>1, <1>2 DEF RunStart, Left
    <2> QED BY <1>2, <2>2, <2>3 DEF RunStart, StartsAreCompleted, Left
  <1>3. CASE WarmupDone
    BY <1>3 DEF WarmupDone
  <1>4. CASE SkipCase \/ SkipTest \/ SkipData
    BY <1>4 DEF SkipCase, SkipTest, SkipData
  <1>5. CASE StartCase
    <2>1. /\ at = "next_case" /\ at' = "startup" /\ open' = open \cup {"case"}
          /\ proc = "running" /\ proc' = proc /\ UNCHANGED received
      BY <1>5 DEF StartCase
    <2>2. OpenAt(at') = OpenAt(at) \cup {"case"}
      BY <2>1
    <2> QED BY <2>1, <2>2
  <1>6. CASE EndOfCases
    BY <1>6 DEF EndOfCases
  <1>7. CASE StartupDone
    BY <1>7 DEF StartupDone, LeaveCase
  <1>8. CASE EndOfTests
    BY ZenonT(60), <1>8 DEF EndOfTests, LeaveCase
  <1>9. CASE StartTest
    BY <1>9 DEF StartTest
  <1>10. CASE SetupDone
    <2>1. CASE EnterBody("body")
      BY <1>10, <2>1 DEF SetupDone, EnterBody
    <2>2. CASE EnterTeardown("teardown") /\ UNCHANGED open
      BY <1>10, <2>2 DEF SetupDone, EnterTeardown
    <2> QED BY <1>10, <2>1, <2>2 DEF SetupDone
  <1>11. CASE IteratedSetupDone
    <2>1. CASE EnterBody("ibody")
      <3>1. /\ at = "isetup" /\ at' = "ibody" /\ open' = open \cup {"test"}
            /\ proc = "running" /\ proc' = proc /\ UNCHANGED received
        BY <1>11, <2>1 DEF IteratedSetupDone, EnterBody
      <3>2. OpenAt(at') = OpenAt(at) \cup {"test"}
        BY <3>1
      <3> QED BY <3>1, <3>2
    <2>2. CASE EnterTeardown("iteardown") /\ UNCHANGED open
      BY <1>11, <2>2 DEF IteratedSetupDone, EnterTeardown
    <2> QED BY <1>11, <2>1, <2>2 DEF IteratedSetupDone
  <1>12. CASE BodyDone
    BY <1>12 DEF BodyDone
  <1>13. CASE TestEnd
    BY <1>1, <1>13 DEF TestEnd, EnterTeardown
  <1>14. CASE TeardownDone
    BY <1>14 DEF TeardownDone
  <1>15. CASE DataSetupDone
    <2>1. CASE Top.failed
      BY <1>15, <2>1 DEF DataSetupDone, LeaveIterator
    <2>2. CASE ~Top.failed
      <3>1. /\ at = "data_setup" /\ at' = "next_data"
            /\ open' = open \cup {"iterator"}
            /\ proc = "running" /\ proc' = proc /\ UNCHANGED received
        BY <1>15, <2>2 DEF DataSetupDone
      <3>2. OpenAt(at') = OpenAt(at) \cup {"iterator"}
        BY <3>1
      <3> QED BY <3>1, <3>2
    <2> QED BY <2>1, <2>2
  <1>16. CASE StartIteratedTest
    BY ZenonT(60), <1>16 DEF StartIteratedTest
  <1>17. CASE EndOfData
    BY <1>1, <1>17 DEF EndOfData, LeaveIterator
  <1>18. CASE IteratedTeardownDone
    BY ZenonT(60), <1>18 DEF IteratedTeardownDone
  <1>19. CASE NullSuccess
    BY <1>19 DEF NullSuccess
  <1>20. CASE ShutdownDone
    BY <1>1, <1>20 DEF ShutdownDone
  <1>21. CASE CooldownDone
    BY <1>1, <1>21 DEF CooldownDone
  <1>22. CASE EmitCompleteRun
    <2>1. open = {"run"} \cup Left /\ open' = open \ {"run"}
            /\ proc' = "complete" /\ UNCHANGED received
      BY <1>22 DEF EmitCompleteRun, StartsAreCompleted, Left
    <2>2. open' = Left
      BY <1>1, <2>1
    <2> QED BY <2>1, <2>2 DEF StartsAreCompleted, Left
  <1> QED BY <1>2, <1>3, <1>4, <1>5, <1>6, <1>7, <1>8, <1>9, <1>10, <1>11, <1>12,
             <1>13, <1>14, <1>15, <1>16, <1>17, <1>18, <1>19, <1>20, <1>21, <1>22
          DEF EngineStep

\* Each start signal the listeners saw is followed by its complete signal, but
\* for the two that a signal in a teardown or a shutdown leaves open.
THEOREM StartsTheorem == Spec => []StartsAreCompleted
  <1>1. Init => StartsAreCompleted
    BY OpenPoints DEF Init, StartsAreCompleted
  <1>2. StartsAreCompleted /\ SignalInv /\ CrashFramesAreLive /\ [Next]_vars
          => StartsAreCompleted'
    <2>1. UNCHANGED vars /\ StartsAreCompleted => StartsAreCompleted'
      BY DEF vars, StartsAreCompleted
    <2> QED BY <2>1, StartsUserStep, StartsSignalStep, StartsEngineStep
            DEF Next, Ended
  <1> QED BY <1>1, <1>2, SignalInvariant, CrashFramesInvariant, PTL DEF Spec

-----------------------------------------------------------------------------
\* What a run leaves on the stack of contexts, and what its verdict says.

\* The points of a run whose case was left by a signal.
LeftPoints == {"shutdown", "next_case", "cooldown", "finish"}

\* The contexts the functions that run at point p have pushed.
StackIs(p) ==
  /\ Len(ctxs) = Depth(p)
  /\ Depth(p) >= 1 => ctxs[1].owner = "case"
  /\ Depth(p) = 2 => ctxs[2].owner = IF p \in {"data_setup", "next_data"}
                                     THEN "iterator" ELSE "test"
  /\ Depth(p) = 3 => ctxs[2].owner = "iterator" /\ ctxs[3].owner = "iterated"

StackInv ==
  \/ StackIs(at)
  \/ received \in CaseCaught \cup {"shutdown"} /\ at \in LeftPoints

\* The jump buffer of the top context is the running function's; that of an
\* iterator is its data setup's as long as the context is there.
JumpInv ==
  /\ at \in UserPoints \ {"warmup", "cooldown"} =>
       Top.jump = at \/ (at = "shutdown" /\ received \in CaseCaught)
  /\ \A i \in 1 .. Len(ctxs) :
       ctxs[i].owner = "iterator" => ctxs[i].jump = "data_setup"

-----------------------------------------------------------------------------
\* What the engine does to the stack, context by context.

LEMMA JumpIsWritten ==
  ASSUME ctxs \in Seq(Contexts), NEW i \in 1 .. Len(ctxs), NEW p \in UserPoints,
         ctxs' = [ctxs EXCEPT ![i].jump = p]
  PROVE  /\ ctxs' \in Seq(Contexts) /\ Len(ctxs') = Len(ctxs)
         /\ \A j \in 1 .. Len(ctxs) :
              /\ ctxs'[j].owner = ctxs[j].owner
              /\ ctxs'[j].failed = ctxs[j].failed
              /\ ctxs'[j].jump = IF j = i THEN p ELSE ctxs[j].jump
  <1>1. ctxs' \in Seq(Contexts) /\ Len(ctxs') = Len(ctxs)
    BY JumpType
  <1>2. ASSUME NEW j \in 1 .. Len(ctxs)
        PROVE  /\ ctxs'[j].owner = ctxs[j].owner
               /\ ctxs'[j].failed = ctxs[j].failed
               /\ ctxs'[j].jump = IF j = i THEN p ELSE ctxs[j].jump
    <2>1. ctxs[j] \in Contexts
      OBVIOUS
    <2>2. CASE j = i
      BY <2>1, <2>2 DEF Contexts
    <2>3. CASE j # i
      BY <2>3
    <2> QED BY <2>2, <2>3
  <1> QED BY <1>1, <1>2

LEMMA ResultIsSet ==
  ASSUME ctxs \in Seq(Contexts), Len(ctxs) >= 1, NEW s \in Statuses, SetResult(s)
  PROVE  /\ ctxs' \in Seq(Contexts) /\ Len(ctxs') = Len(ctxs)
         /\ ctxs'[Len(ctxs)].omitted = (s = "omission")
         /\ \A j \in 1 .. Len(ctxs) :
              /\ ctxs'[j].owner = ctxs[j].owner
              /\ ctxs'[j].jump = ctxs[j].jump
              /\ ctxs'[j].failed = (ctxs[j].failed \/ (j = Len(ctxs) /\ Critical(s)))
  <1> DEFINE n == Len(ctxs)
             top == [ctxs[n] EXCEPT !.failed = ctxs[n].failed \/ Critical(s),
                                    !.omitted = (s = "omission")]
  <1>1. n \in 1 .. Len(ctxs) /\ ctxs[n] \in Contexts
    OBVIOUS
  <1>2. /\ top \in Contexts
        /\ top.owner = ctxs[n].owner /\ top.jump = ctxs[n].jump
        /\ top.failed = (ctxs[n].failed \/ Critical(s))
        /\ top.omitted = (s = "omission")
    BY <1>1 DEF Contexts, Critical
  <1>3. ctxs' = [ctxs EXCEPT ![n] = top]
    BY <1>1 DEF SetResult, Contexts
  <1> HIDE DEF top
  <1>4. ctxs' \in Seq(Contexts) /\ Len(ctxs') = Len(ctxs)
    BY <1>1, <1>2, <1>3, ExceptSeq
  <1>5. ASSUME NEW j \in 1 .. Len(ctxs)
        PROVE  /\ ctxs'[j].owner = ctxs[j].owner
               /\ ctxs'[j].jump = ctxs[j].jump
               /\ ctxs'[j].failed = (ctxs[j].failed \/ (j = n /\ Critical(s)))
    <2>1. ctxs'[j] = IF j = n THEN top ELSE ctxs[j]
      BY <1>3
    <2>2. ctxs[j].failed \in BOOLEAN
      <3>1. ctxs[j] \in Contexts
        OBVIOUS
      <3> QED BY <3>1 DEF Contexts
    <2>3. CASE j = n
      BY <1>2, <2>1, <2>3
    <2>4. CASE j # n
      BY <2>1, <2>2, <2>4
    <2> QED BY <2>3, <2>4
  <1>6. ctxs'[n] = top
    BY <1>1, <1>3
  <1> QED BY <1>2, <1>4, <1>5, <1>6

LEMMA ContextIsPushed ==
  ASSUME ctxs \in Seq(Contexts),
         NEW owner \in {"case", "test", "iterator", "iterated"},
         NEW jump \in UserPoints, ctxs' = Append(ctxs, NewContext(owner, jump))
  PROVE  /\ ctxs' \in Seq(Contexts) /\ Len(ctxs') = Len(ctxs) + 1
         /\ \A j \in 1 .. Len(ctxs) : ctxs'[j] = ctxs[j]
         /\ ctxs'[Len(ctxs) + 1].owner = owner
         /\ ctxs'[Len(ctxs) + 1].jump = jump
         /\ ctxs'[Len(ctxs) + 1].failed = FALSE
  <1>1. NewContext(owner, jump) \in Contexts
    BY NewContextType
  <1>2. /\ ctxs' \in Seq(Contexts) /\ Len(ctxs') = Len(ctxs) + 1
        /\ \A j \in 1 .. Len(ctxs) : ctxs'[j] = ctxs[j]
        /\ ctxs'[Len(ctxs) + 1] = NewContext(owner, jump)
    BY <1>1, AppendProperties
  <1> QED BY <1>2 DEF NewContext

LEMMA ContextIsPopped ==
  ASSUME ctxs \in Seq(Contexts), Len(ctxs) >= 1
  PROVE  /\ PopCtx \in Seq(Contexts) /\ Len(PopCtx) = Len(ctxs) - 1
         /\ \A j \in 1 .. Len(ctxs) - 1 : PopCtx[j] = ctxs[j]
  <1>1. PopCtx \in Seq(Contexts) /\ Len(PopCtx) = Len(ctxs) - 1
    BY PopCtxType
  <1>2. \A j \in 1 .. Len(ctxs) - 1 : PopCtx[j] = ctxs[j]
    BY DEF PopCtx
  <1> QED BY <1>1, <1>2

\* The context of an iterated test passes its failure to the one below.
LEMMA FailureIsPassed ==
  ASSUME ctxs \in Seq(Contexts), Len(ctxs) >= 2,
         ctxs' = [PopCtx EXCEPT ![Len(ctxs) - 1].failed = Top.failed]
  PROVE  /\ ctxs' \in Seq(Contexts) /\ Len(ctxs') = Len(ctxs) - 1
         /\ \A j \in 1 .. Len(ctxs) - 1 :
              /\ ctxs'[j].owner = ctxs[j].owner
              /\ ctxs'[j].jump = ctxs[j].jump
              /\ ctxs'[j].failed = IF j = Len(ctxs) - 1 THEN Top.failed
                                                       ELSE ctxs[j].failed
  <1> DEFINE n == Len(ctxs) - 1
             below == [ctxs[n] EXCEPT !.failed = Top.failed]
  <1>1. /\ n \in 1 .. n /\ ctxs[n] \in Contexts
        /\ PopCtx \in Seq(Contexts) /\ Len(PopCtx) = n
        /\ \A j \in 1 .. n : PopCtx[j] = ctxs[j]
    BY ContextIsPopped
  <1>2. Top.failed \in BOOLEAN
    BY TopType DEF Contexts
  <1>3. /\ below \in Contexts /\ below.failed = Top.failed
        /\ below.owner = ctxs[n].owner /\ below.jump = ctxs[n].jump
    BY <1>1, <1>2 DEF Contexts
  <1>4. ctxs' = [PopCtx EXCEPT ![n] = below]
    BY <1>1
  <1> HIDE DEF below
  <1>5. ctxs' \in Seq(Contexts) /\ Len(ctxs') = n
    BY <1>1, <1>3, <1>4, ExceptSeq
  <1>6. ASSUME NEW j \in 1 .. n
        PROVE  ctxs'[j] = IF j = n THEN below ELSE ctxs[j]
    BY <1>1, <1>4
  <1>7. ASSUME NEW j \in 1 .. n
        PROVE  /\ ctxs'[j].owner = ctxs[j].owner
               /\ ctxs'[j].jump = ctxs[j].jump
               /\ ctxs'[j].failed = IF j = n THEN Top.failed ELSE ctxs[j].failed
    <2>1. CASE j = n
      BY <1>3, <1>6, <2>1
    <2>2. CASE j # n
      BY <1>6, <2>2
    <2> QED BY <2>1, <2>2
  <1> QED BY <1>5, <1>7

-----------------------------------------------------------------------------
\* StackInv and JumpInv are inductive, given the types, the frames and SignalInv.

Known == StackOK /\ RestOK /\ CrashFramesAreLive /\ SignalInv

LEMMA StackInvInit == Init => StackInv /\ JumpInv
  BY DEF Init, StackInv, StackIs, JumpInv, Depth, IteratedPoints, UserPoints,
         PlainPoints, FixturePoints

\* A step that changes neither the owners nor the jump buffers.
LEMMA StackStays ==
  ASSUME Known, StackInv, JumpInv, UNCHANGED received,
         Len(ctxs') = Len(ctxs),
         \A j \in 1 .. Len(ctxs) : /\ ctxs'[j].owner = ctxs[j].owner
                                   /\ ctxs'[j].jump = ctxs[j].jump,
         \/ at' = at
         \/ /\ at' \notin UserPoints \ {"warmup", "cooldown"}
            /\ Depth(at') = Depth(at)
            /\ at \in {"data_setup", "next_data"} <=> at' \in {"data_setup", "next_data"}
            /\ at \in LeftPoints => at' \in LeftPoints
  PROVE  StackInv' /\ JumpInv'
  <1>1. Len(ctxs) \in Nat
    BY DEF Known, StackOK
  <1>2. StackInv'
    <2>1. CASE StackIs(at)
      <3>1. StackIs(at)'
        BY <1>1, <2>1, DepthIsNat DEF StackIs
      <3> QED BY <3>1 DEF StackInv
    <2>2. CASE ~StackIs(at)
      BY <2>2 DEF StackInv
    <2> QED BY <2>1, <2>2
  <1>3. at \in UserPoints \ {"warmup", "cooldown"} => Len(ctxs) >= 1
    BY UserPointsAre DEF Known, StackOK, StackIsDeep, Depth, IteratedPoints
  <1>4. JumpInv'
    BY <1>1, <1>3 DEF JumpInv, Top
  <1> QED BY <1>2, <1>4

LEMMA StackUserStep ==
  ASSUME Known, StackInv, JumpInv, UserStep
  PROVE  StackInv' /\ JumpInv'
  <1>1. CASE UserReturns
    BY <1>1, StackStays DEF UserReturns
  <1>2. ASSUME NEW s \in Statuses, SetResult(s), at \in UserPoints,
               at \notin {"warmup", "cooldown"}, UNCHANGED <<at, received>>
        PROVE  StackInv' /\ JumpInv'
    <2>1. ctxs \in Seq(Contexts) /\ Len(ctxs) >= 1
      BY <1>2, UserPointsAre DEF Known, StackOK, StackIsDeep, Depth, IteratedPoints
    <2> QED BY <1>2, <2>1, ResultIsSet, StackStays
  <1>3. CASE UserNotifies
    BY <1>2, <1>3 DEF UserNotifies, InUserCode, Statuses
  <1>4. ASSUME NEW s \in GiveUps, UserGivesUp(s)
        PROVE  StackInv' /\ JumpInv'
    BY <1>2, <1>4, GiveUpsAssumption DEF UserGivesUp, InUserCode, Statuses
  <1> QED BY <1>1, <1>3, <1>4 DEF UserStep

\* A function goes on to its next fixture: the jump buffer of its context.
LEMMA StackJumps ==
  ASSUME Known, StackIs(at), JumpInv, Depth(at) >= 1, Depth(at') = Depth(at),
         at \notin {"data_setup", "next_data"},
         at' \notin {"data_setup", "next_data"},
         NEW p \in UserPoints, at' = p, ctxs' = [ctxs EXCEPT ![Len(ctxs)].jump = p]
  PROVE  StackInv' /\ JumpInv'
  <1>1. /\ ctxs \in Seq(Contexts) /\ Len(ctxs) = Depth(at)
        /\ Len(ctxs) \in 1 .. Len(ctxs)
    BY DepthIsNat DEF Known, StackOK, StackIs
  <1>3. /\ Len(ctxs') = Len(ctxs)
        /\ \A j \in 1 .. Len(ctxs) :
             /\ ctxs'[j].owner = ctxs[j].owner
             /\ ctxs'[j].jump = IF j = Len(ctxs) THEN p ELSE ctxs[j].jump
    BY <1>1, JumpIsWritten
  <1>4. Depth(at) \in {1, 2, 3} /\ ctxs[Len(ctxs)].owner # "iterator"
    BY <1>1 DEF StackIs, Depth
  <1>5. StackIs(at)'
    BY <1>1, <1>3, <1>4 DEF StackIs
  <1>6. JumpInv'
    BY <1>1, <1>3, <1>4 DEF JumpInv, Top
  <1> QED BY <1>5, <1>6 DEF StackInv

LEMMA StackSignalStep ==
  ASSUME Known, StackInv, JumpInv, SignalStep
  PROVE  StackInv' /\ JumpInv'
  <1> USE DEF Known
  <1>1. CASE FatalSignal
    BY <1>1, StackStays DEF FatalSignal
  <1>2. ASSUME NEW f, NEW signal, NEW owner, Caught(f, signal, owner)
        PROVE  /\ at \in UserPoints /\ received = "none" /\ received' = at
               /\ frames # <<>> /\ frames[Len(frames)] = f /\ StackIs(at)
    BY <1>2 DEF Caught, InUserCode, StackInv, CaseCaught
  <1>3. ASSUME NEW signal \in {"crash", "interrupt"}, CaughtBySuite(signal)
        PROVE  StackInv' /\ JumpInv'
    <2>1. Caught("suite", signal, "suite") /\ at' = "cooldown" /\ UNCHANGED ctxs
      BY <1>3 DEF CaughtBySuite, GoTo
    <2>2. at \in {"warmup", "shutdown"}
      BY <1>2, <2>1, InnermostFrame, HandleSignalsAssumption
    <2>3. at = "warmup" => StackIs(at)'
      BY <1>2, <2>1 DEF StackIs, Depth, IteratedPoints
    <2> QED BY <1>2, <2>1, <2>2, <2>3 DEF StackInv, LeftPoints, JumpInv
  <1>4. ASSUME NEW signal \in {"crash", "interrupt"}, CaughtByCase(signal)
        PROVE  StackInv' /\ JumpInv'
    <2>1. /\ Caught("case", signal, "case") /\ at' = "shutdown"
          /\ ctxs' = [ctxs EXCEPT ![1].jump = "shutdown"]
      BY <1>4 DEF CaughtByCase, GoTo
    <2>2. at = "startup" \/ at \in CaseCaught
      BY <1>2, <2>1, InnermostFrame, HandleSignalsAssumption DEF CaseCaught
    <2>3. /\ ctxs \in Seq(Contexts) /\ 1 \in 1 .. Len(ctxs)
          /\ ctxs[1].owner = "case"
          /\ at = "startup" => Len(ctxs) = 1
      BY <1>2, <2>1, <2>2 DEF StackOK, StackIs, Depth, IteratedPoints, CaseCaught
    <2>4. /\ Len(ctxs') = Len(ctxs)
          /\ \A j \in 1 .. Len(ctxs) :
               /\ ctxs'[j].owner = ctxs[j].owner
               /\ ctxs'[j].jump = IF j = 1 THEN "shutdown" ELSE ctxs[j].jump
      BY <2>1, <2>3, JumpIsWritten, UserPointsAre
    <2>5. StackInv'
      BY <1>2, <2>1, <2>2, <2>3, <2>4
         DEF StackInv, StackIs, Depth, IteratedPoints, LeftPoints
    <2>6. JumpInv'
      <3>1. at = "startup" => Top'.jump = "shutdown"
        BY <2>3, <2>4 DEF Top
      <3>2. received' = at /\ at' = "shutdown"
        BY <1>2, <2>1
      <3>3. \A i \in 1 .. Len(ctxs') :
              ctxs'[i].owner = "iterator" => ctxs'[i].jump = "data_setup"
        BY <2>3, <2>4 DEF JumpInv
      <3> QED BY <2>2, <3>1, <3>2, <3>3 DEF JumpInv
    <2> QED BY <2>5, <2>6
  <1>5. ASSUME NEW signal \in {"crash", "interrupt"}, CaughtByIterated(signal)
        PROVE  StackInv' /\ JumpInv'
    <2>1. /\ Caught("iterated", signal, "iterated") /\ at' = "iteardown"
          /\ ctxs' = [ctxs EXCEPT ![Len(ctxs)].jump = "iteardown"]
      BY <1>5 DEF CaughtByIterated, GoTo
    <2>2. at = "isetup"
      BY <1>2, <2>1, InnermostFrame, HandleSignalsAssumption
    <2> QED BY <1>2, <2>1, <2>2, StackJumps, UserPointsAre DEF Depth, IteratedPoints
  <1>6. ASSUME NEW signal \in {"crash", "interrupt"}, CaughtByTest(signal)
        PROVE  StackInv' /\ JumpInv'
    <2>1. /\ Caught("test", signal, Top.owner) /\ UNCHANGED ctxs
          /\ at' = IF at = "ibody" THEN "itest_end" ELSE "test_end"
      BY <1>6 DEF CaughtByTest, GoTo
    <2>2. at \in {"body", "ibody"}
      BY <1>2, <2>1, InnermostFrame, HandleSignalsAssumption
    <2>3. StackIs(at)'
      BY <1>2, <2>1, <2>2 DEF StackIs, Depth, IteratedPoints
    <2>4. JumpInv'
      BY <2>1, <2>2, UserPointsAre DEF JumpInv
    <2> QED BY <2>3, <2>4 DEF StackInv
  <1> QED BY <1>1, <1>3, <1>4, <1>5, <1>6 DEF SignalStep

LEMMA StackPushes ==
  ASSUME Known, StackIs(at), JumpInv,
         NEW owner \in {"case", "test", "iterator", "iterated"},
         at' \in UserPoints, ctxs' = Append(ctxs, NewContext(owner, at')),
         \/ at = "next_case" /\ at' = "startup" /\ owner = "case"
         \/ at = "next_test" /\ at' = "setup" /\ owner = "test"
         \/ at = "next_test" /\ at' = "data_setup" /\ owner = "iterator"
         \/ at = "next_data" /\ at' = "isetup" /\ owner = "iterated"
  PROVE  StackInv' /\ JumpInv'
  <1> DEFINE p == at'
  <1>1. /\ ctxs \in Seq(Contexts) /\ Len(ctxs) = Depth(at)
    BY DEF Known, StackOK, StackIs
  <1>2. p \in UserPoints /\ ctxs' = Append(ctxs, NewContext(owner, p))
    OBVIOUS
  <1> HIDE DEF p
  <1>3. /\ Len(ctxs') = Len(ctxs) + 1
        /\ \A j \in 1 .. Len(ctxs) : ctxs'[j] = ctxs[j]
        /\ ctxs'[Len(ctxs) + 1].owner = owner /\ ctxs'[Len(ctxs) + 1].jump = p
    BY <1>1, <1>2, ContextIsPushed
  <1>4. StackIs(at)'
    BY <1>1, <1>3 DEF StackIs, Depth, IteratedPoints
  <1>5. JumpInv'
    <2>1. Top'.jump = at'
      BY <1>1, <1>3 DEF Top, p
    <2>2. \A j \in 1 .. Len(ctxs') : j \in 1 .. Len(ctxs) \/ j = Len(ctxs) + 1
      BY <1>1, <1>3
    <2> QED BY <1>3, <2>1, <2>2 DEF JumpInv, p
  <1> QED BY <1>4, <1>5 DEF StackInv

LEMMA StackPops ==
  ASSUME Known, StackInv, JumpInv, UNCHANGED received, Len(ctxs) >= 1,
         Len(ctxs') = Len(ctxs) - 1,
         \A j \in 1 .. Len(ctxs) - 1 : /\ ctxs'[j].owner = ctxs[j].owner
                                       /\ ctxs'[j].jump = ctxs[j].jump,
         \/ at = "iteardown" /\ at' = "next_data"
         \/ at \in {"teardown", "data_setup", "next_data"} /\ at' = "next_test"
         \/ at = "shutdown" /\ at' = "next_case"
  PROVE  StackInv' /\ JumpInv'
  <1>1. Len(ctxs) \in Nat
    BY DEF Known, StackOK
  <1>2. StackIs(at) => StackIs(at)'
    BY <1>1 DEF StackIs, Depth, IteratedPoints
  <1>3. StackInv'
    BY <1>2 DEF StackInv, LeftPoints
  <1>4. JumpInv'
    BY <1>1, UserPointsAre DEF JumpInv
  <1> QED BY <1>3, <1>4

LEMMA StackEngineStep ==
  ASSUME Known, StackInv, JumpInv, EngineStep
  PROVE  StackInv' /\ JumpInv'
  <1> USE DEF Engine, Back, GoTo
  <1>1. /\ ctxs \in Seq(Contexts) /\ UNCHANGED received
        /\ Len(ctxs) \in Nat /\ Len(ctxs) >= Depth(at)
    <2>1. UNCHANGED received
      BY DEF EngineStep, RunStart, WarmupDone, SkipCase, StartCase, EndOfCases,
             StartupDone, SkipTest, StartTest, EndOfTests, SetupDone, BodyDone,
             TestEnd, TeardownDone, DataSetupDone, SkipData, StartIteratedTest,
             EndOfData, IteratedSetupDone, IteratedTeardownDone, NullSuccess,
             ShutdownDone, CooldownDone, EmitCompleteRun
    <2> QED BY <2>1 DEF Known, StackOK, StackIsDeep
  <1>2. at \notin LeftPoints \/ ~IsCanceled => StackIs(at)
    BY UserPointsAre DEF Known, StackInv, SignalInv, CaseCaught
  <1>3. ASSUME at \in {"startup", "next_test"}, LeaveCase
        PROVE  StackInv' /\ JumpInv'
    <2>1. StackIs(at) /\ Len(ctxs) = 1 /\ Depth(at) = 1 /\ Depth("shutdown") = 1
      BY <1>2, <1>3 DEF StackIs, Depth, LeftPoints
    <2>2. at' = "shutdown" /\ ctxs' = [ctxs EXCEPT ![Len(ctxs)].jump = "shutdown"]
      BY <1>3, <2>1 DEF LeaveCase
    <2> QED BY <1>3, <2>1, <2>2, StackJumps, UserPointsAre
  <1>4. ASSUME NEW p \in UserPoints, at' = p,
               ctxs' = [ctxs EXCEPT ![Len(ctxs)].jump = p],
               \/ at \in {"setup", "test_end"} /\ p \in {"body", "teardown"}
               \/ at \in {"isetup", "itest_end"} /\ p \in {"ibody", "iteardown"}
        PROVE  StackInv' /\ JumpInv'
    <2>1. StackIs(at) /\ Depth(at) >= 1 /\ Depth(p) = Depth(at)
      BY <1>2, <1>4 DEF Depth, LeftPoints, IteratedPoints
    <2> QED BY <1>4, <2>1, StackJumps
  <1>5. ASSUME ctxs' = PopCtx,
               \/ at \in {"teardown", "data_setup", "next_data"} /\ at' = "next_test"
               \/ at = "shutdown" /\ at' = "next_case"
        PROVE  StackInv' /\ JumpInv'
    <2>1. Len(ctxs) >= 1
      BY <1>1, <1>5 DEF Depth
    <2> QED BY <1>1, <1>5, <2>1, ContextIsPopped, StackPops
  <1>6. CASE \/ RunStart \/ WarmupDone \/ SkipCase \/ EndOfCases \/ SkipTest
             \/ BodyDone \/ SkipData \/ CooldownDone \/ EmitCompleteRun
             \/ NullSuccess
    <2>1. /\ UNCHANGED ctxs
          /\ \/ at' = at
             \/ at = "start" /\ at' \in {"finish", "warmup"}
             \/ at = "warmup" /\ at' = "next_case"
             \/ at = "next_case" /\ at' = "cooldown"
             \/ at = "body" /\ at' = "test_end"
             \/ at = "ibody" /\ at' = "itest_end"
             \/ at = "cooldown" /\ at' = "finish"
      BY <1>6 DEF RunStart, WarmupDone, SkipCase, EndOfCases, SkipTest, BodyDone,
                  SkipData, CooldownDone, EmitCompleteRun, NullSuccess
    <2>2. Depth(at') = Depth(at)
      BY <2>1 DEF Depth, IteratedPoints
    <2> QED BY <1>1, <2>1, <2>2, StackStays, UserPointsAre DEF LeftPoints
  <1>7. CASE StartupDone
    <2>1. CASE LeaveCase
      BY <1>3, <1>7, <2>1 DEF StartupDone
    <2>2. CASE UNCHANGED ctxs /\ at = "startup" /\ at' = "next_test"
      <3>1. Depth(at') = Depth(at)
        BY <2>2 DEF Depth
      <3> QED BY <1>1, <2>2, <3>1, StackStays, UserPointsAre DEF LeftPoints
    <2> QED BY <1>7, <2>1, <2>2 DEF StartupDone
  <1>8. CASE EndOfTests
    BY <1>3, <1>8 DEF EndOfTests
  <1>9. CASE StartCase
    <2>1. StackIs(at)
      BY <1>2, <1>9 DEF StartCase
    <2> QED BY <1>9, <2>1, StackPushes, UserPointsAre DEF StartCase
  <1>10. CASE StartTest
    <2>1. StackIs(at)
      BY <1>2, <1>10 DEF StartTest, LeftPoints
    <2> QED BY <1>10, <2>1, StackPushes, UserPointsAre DEF StartTest
  <1>11. CASE StartIteratedTest
    <2>1. StackIs(at)
      BY <1>2, <1>11 DEF StartIteratedTest, LeftPoints
    <2> QED BY <1>11, <2>1, StackPushes, UserPointsAre DEF StartIteratedTest
  <1>12. CASE SetupDone
    BY <1>4, <1>12, UserPointsAre DEF SetupDone, EnterBody, EnterTeardown
  <1>13. CASE IteratedSetupDone
    BY <1>4, <1>13, UserPointsAre DEF IteratedSetupDone, EnterBody, EnterTeardown
  <1>14. CASE TestEnd
    BY <1>4, <1>14, UserPointsAre DEF TestEnd, EnterTeardown
  <1>15. CASE TeardownDone
    BY <1>5, <1>15 DEF TeardownDone
  <1>16. CASE DataSetupDone
    <2>1. CASE LeaveIterator(FALSE)
      BY <1>5, <1>16, <2>1 DEF DataSetupDone, LeaveIterator
    <2>2. CASE UNCHANGED ctxs /\ at = "data_setup" /\ at' = "next_data"
      <3>1. Depth(at') = Depth(at)
        BY <2>2 DEF Depth, IteratedPoints
      <3> QED BY <1>1, <2>2, <3>1, StackStays, UserPointsAre DEF LeftPoints
    <2> QED BY <1>16, <2>1, <2>2 DEF DataSetupDone
  <1>17. CASE EndOfData
    BY <1>5, <1>17 DEF EndOfData, LeaveIterator
  <1>18. CASE IteratedTeardownDone
    <2>1. Len(ctxs) >= 2
      BY <1>1, <1>18 DEF IteratedTeardownDone, Depth, IteratedPoints
    <2> QED BY <1>1, <1>18, <2>1, FailureIsPassed, StackPops
            DEF IteratedTeardownDone
  <1>19. CASE ShutdownDone
    BY <1>5, <1>19 DEF ShutdownDone
  <1> QED BY <1>6, <1>7, <1>8, <1>9, <1>10, <1>11, <1>12, <1>13, <1>14, <1>15,
             <1>16, <1>17, <1>18, <1>19
          DEF EngineStep

KnownInv == Known /\ StackInv /\ JumpInv

\* The types, frames, signals, contexts and jump buffers hold together.
THEOREM ContextInvariant == Spec => []KnownInv
  <1>1. StackInv /\ JumpInv /\ Known /\ [Next]_vars => StackInv' /\ JumpInv'
    <2> SUFFICES ASSUME StackInv, JumpInv, Known, [Next]_vars
                 PROVE  StackInv' /\ JumpInv'
      OBVIOUS
    <2>1. CASE UNCHANGED vars
      BY <2>1, StackStays DEF vars
    <2> QED BY <2>1, StackUserStep, StackSignalStep, StackEngineStep
            DEF Next, Ended
  <1>2. Spec => []Known
    <2>1. TypeInv /\ CrashFramesAreLive /\ SignalInv => Known
      BY TypeParts DEF TypeInv, Known
    <2> QED BY <2>1, TypeInvariant, CrashFramesInvariant, SignalInvariant, PTL
  <1> QED BY <1>1, <1>2, StackInvInit, PTL DEF Spec, KnownInv

\* ContextsAreLive: the contexts are those of the functions that run, but after
\* a signal whose frame lies below them (cut-test-case.c:639).
THEOREM ContextsTheorem == Spec => []ContextsAreLive
  <1>1. KnownInv => ContextsAreLive
    <2> SUFFICES ASSUME StackOK, at \in Points, StackIs(at)
                 PROVE  [i \in DOMAIN ctxs |-> ctxs[i].owner] = LiveOwners(at)
      BY DEF KnownInv, Known, StackInv, RestOK, ContextsAreLive
    <2> DEFINE owners == [i \in DOMAIN ctxs |-> ctxs[i].owner]
    <2>1. /\ Len(ctxs) \in Nat /\ DOMAIN ctxs = 1 .. Len(ctxs)
          /\ owners = [i \in 1 .. Len(ctxs) |-> ctxs[i].owner]
      BY DEF StackOK
    <2>2. CASE Depth(at) = 0
      BY <2>1, <2>2, UserPointsAre DEF StackIs, LiveOwners, Depth, IteratedPoints
    <2>3. CASE Depth(at) = 1
      BY <2>1, <2>3, UserPointsAre DEF StackIs, LiveOwners, Depth, IteratedPoints
    <2>4. CASE Depth(at) = 2
      BY <2>1, <2>4, UserPointsAre DEF StackIs, LiveOwners, Depth, IteratedPoints
    <2>5. CASE Depth(at) = 3
      BY SMTT(30), <2>1, <2>5, UserPointsAre DEF StackIs, LiveOwners, Depth, IteratedPoints
    <2> QED BY <2>2, <2>3, <2>4, <2>5 DEF Depth
  <1> QED BY <1>1, ContextInvariant, PTL

\* DeadJumpsOnlyInShutdown: no function jumps through the jump buffer of a C
\* frame that is gone but a shutdown after a signal in a fixture of a test
\* (cut-test-case.c:498, cut-test-context.c:848).
THEOREM DeadJumpsTheorem == Spec => []DeadJumpsOnlyInShutdown
  <1>1. Init => DeadJumpsOnlyInShutdown
    BY DEF Init, DeadJumpsOnlyInShutdown
  <1>2. KnownInv /\ DeadJumpsOnlyInShutdown /\ [Next]_vars
          => DeadJumpsOnlyInShutdown'
    <2> SUFFICES ASSUME KnownInv, DeadJumpsOnlyInShutdown, [Next]_vars
                 PROVE  DeadJumpsOnlyInShutdown'
      OBVIOUS
    <2>1. ASSUME NEW s \in GiveUps, UserGivesUp(s)
          PROVE  DeadJumpsOnlyInShutdown'
      BY <2>1 DEF UserGivesUp, InUserCode, KnownInv, JumpInv, DeadJumpsOnlyInShutdown
    <2>2. ASSUME proc' # "undefined"
          PROVE  DeadJumpsOnlyInShutdown'
      BY <2>2 DEF DeadJumpsOnlyInShutdown
    <2>3. CASE UNCHANGED vars
      BY <2>3 DEF vars, DeadJumpsOnlyInShutdown
    <2>4. CASE UserReturns \/ UserNotifies
      BY <2>2, <2>4 DEF UserReturns, UserNotifies, InUserCode
    <2>5. CASE SignalStep
      BY <2>2, <2>5 DEF SignalStep, FatalSignal, Caught, InUserCode, GoTo,
                        CaughtBySuite, CaughtByCase, CaughtByIterated, CaughtByTest
    <2>6. CASE EngineStep
      BY <2>2, <2>6
         DEF Engine, Back, GoTo, EnterBody, EnterTeardown, LeaveIterator, LeaveCase,
             EngineStep, RunStart, WarmupDone, SkipCase, StartCase, EndOfCases,
             StartupDone, SkipTest, StartTest, EndOfTests, SetupDone, BodyDone,
             TestEnd, TeardownDone, DataSetupDone, SkipData, StartIteratedTest,
             EndOfData, IteratedSetupDone, IteratedTeardownDone, NullSuccess,
             ShutdownDone, CooldownDone, EmitCompleteRun
    <2> QED BY <2>1, <2>3, <2>4, <2>5, <2>6 DEF Next, Ended, UserStep
  <1> QED BY <1>1, <1>2, ContextInvariant, PTL DEF Spec

-----------------------------------------------------------------------------
\* The verdict.

NoneFailed == \A i \in 1 .. Len(ctxs) : ~ctxs[i].failed

AllOk == ok.suite /\ ok.case /\ ok.tests /\ ok.test /\ ok.iter

\* Nothing accuses a run that has reported nothing bad.
CleanUnlessBad ==
  Bad \/ (~StatusIsCritical /\ AllOk /\ NoneFailed /\ ~Critical(status.iter))

\* The points while run_tests() is running.
TestPoints == {"next_test", "setup", "body", "test_end", "teardown", "data_setup",
               "next_data", "isetup", "ibody", "itest_end", "iteardown"}

HiddenByInterrupt == canceled /\ LostFlag /\ at \in LeftPoints

\* Where what no counter holds is kept.
FlagIsKept ==
  /\ causes \cap Uncounted # {}
  /\ \/ ~ok.case /\ at = "shutdown"
     \/ ~ok.tests /\ at \in TestPoints
     \/ ~ok.test /\ at = "teardown"
     \/ HiddenByInterrupt

\* Where what was bad is kept on its way to the verdict.
BadIsKept ==
  \/ StatusIsCritical
  \/ ~ok.suite
  \/ FlagIsKept
  \/ Top.failed /\ at = "data_setup" /\ returned

VerdictIsGiven ==
  proc = "complete" =>
    /\ at = "finish"
    /\ verdict = IF ok.suite /\ ~StatusIsCritical THEN "success" ELSE "failure"

VerdictInv ==
  /\ CleanUnlessBad
  /\ proc \in {"running", "complete"} /\ Bad => BadIsKept
  /\ VerdictIsGiven

LEMMA CriticalStatuses ==
  \A s \in Statuses : Critical(s) <=> s \in {"pending", "failure", "error", "crash"}
  BY DEF Statuses, Critical, Severity

\* What a reported result changes of what the verdict depends on.
LEMMA ReportMoves ==
  ASSUME RestOK, NEW s \in Statuses, NEW owner, Report(s, owner)
  PROVE  /\ Bad' <=> Bad \/ Critical(s)
         /\ causes \subseteq causes'
         /\ StatusIsCritical => StatusIsCritical'
         /\ Critical(s) /\ (owner # "iterator" \/ s = "crash") => StatusIsCritical'
         /\ ~Critical(s) /\ ~StatusIsCritical => ~StatusIsCritical'
         /\ ~Critical(s) /\ ~Critical(status.iter) => ~Critical(status.iter)'
  <1>1. "unavailable" \notin Statuses
    BY DEF Statuses
  <1>2. causes' = causes \cup {s}
    BY DEF Report
  <1>3. Bad' <=> Bad \/ Critical(s)
    BY <1>1, <1>2 DEF Bad
  <1>4. /\ count \in [Statuses -> Nat]
        /\ {"error", "failure", "pending"} \subseteq Statuses
        /\ count' = IF owner = "iterator" THEN count ELSE [count EXCEPT ![s] = @ + 1]
        /\ crashed' = (crashed \/ s = "crash") /\ crashed \in BOOLEAN
    BY DEF Report, RestOK, Statuses
  <1>5. \A t \in Statuses : /\ count'[t] \in Nat /\ count'[t] >= count[t]
                            /\ t # s => count'[t] = count[t]
    BY <1>4
  <1>6. StatusIsCritical => StatusIsCritical'
    BY <1>4, <1>5 DEF StatusIsCritical
  <1>7. Critical(s) /\ (owner # "iterator" \/ s = "crash") => StatusIsCritical'
    <2>1. CASE s = "crash"
      BY <1>4, <2>1 DEF StatusIsCritical
    <2>2. CASE s # "crash" /\ Critical(s) /\ owner # "iterator"
      <3>1. s \in {"error", "failure", "pending"}
        BY <2>2, CriticalStatuses
      <3>2. count'[s] > 0
        BY <1>4, <2>2
      <3> QED BY <3>1, <3>2 DEF StatusIsCritical
    <2> QED BY <2>1, <2>2
  <1>8. ~Critical(s) /\ ~StatusIsCritical => ~StatusIsCritical'
    <2>1. ~Critical(s) => s \notin {"pending", "failure", "error", "crash"}
      BY CriticalStatuses
    <2> QED BY <1>4, <1>5, <2>1 DEF StatusIsCritical
  <1>9. ~Critical(s) /\ ~Critical(status.iter) => ~Critical(status.iter)'
    <2>1. status'.iter \in {status.iter, s}
      BY DEF Report, Worse
    <2> QED BY <2>1 DEF Critical
  <1> QED BY <1>1, <1>2, <1>3, <1>6, <1>7, <1>8, <1>9

LEMMA NoReportMoves ==
  ASSUME UNCHANGED <<count, crashed>>
  PROVE  /\ StatusIsCritical' <=> StatusIsCritical
         /\ causes' \in {causes, causes \cup {"no_data"}} => (Bad' <=> Bad)
  BY DEF StatusIsCritical, Bad, Statuses

-----------------------------------------------------------------------------
\* What the user's code does to the verdict.

LEMMA VerdictUserStep ==
  ASSUME KnownInv, VerdictInv, UserStep
  PROVE  VerdictInv'
  <1> USE DEF KnownInv, Known
  <1>1. CASE UserReturns
    <2>1. /\ UNCHANGED <<proc, at, received, ctxs, ok, status, count, canceled,
                         crashed, causes, verdict>>
          /\ ~returned /\ at \in UserPoints /\ proc = "running"
      BY <1>1 DEF UserReturns, InUserCode
    <2> QED BY <2>1 DEF VerdictInv, VerdictIsGiven, CleanUnlessBad, BadIsKept, Bad,
                        StatusIsCritical, AllOk, NoneFailed, FlagIsKept,
                        HiddenByInterrupt, LostFlag, Top
  <1>2. ASSUME NEW s \in Statuses, SetResult(s), InUserCode,
               at \notin {"warmup", "cooldown"},
               UNCHANGED <<at, received, ok, canceled, verdict>>,
               proc' \in {"running", "undefined"},
               Critical(s) /\ proc' = "running" => Top.jump = at /\ returned'
        PROVE  VerdictInv'
    <2>1. ctxs \in Seq(Contexts) /\ Len(ctxs) >= 1 /\ Len(ctxs) \in Nat
      BY <1>2, UserPointsAre DEF InUserCode, StackOK, StackIsDeep, Depth,
                                 IteratedPoints
    <2>2. /\ Len(ctxs') = Len(ctxs)
          /\ \A j \in 1 .. Len(ctxs) :
               /\ ctxs'[j].owner = ctxs[j].owner
               /\ ctxs'[j].failed
                    = (ctxs[j].failed \/ (j = Len(ctxs) /\ Critical(s)))
      BY <1>2, <2>1, ResultIsSet
    <2>3. /\ Bad' <=> Bad \/ Critical(s)
          /\ causes \subseteq causes'
          /\ StatusIsCritical => StatusIsCritical'
          /\ Critical(s) /\ Top.owner # "iterator" => StatusIsCritical'
          /\ ~Critical(s) /\ ~StatusIsCritical => ~StatusIsCritical'
          /\ ~Critical(s) /\ ~Critical(status.iter) => ~Critical(status.iter)'
      BY <1>2, ReportMoves DEF SetResult
    <2>4. CleanUnlessBad'
      <3> SUFFICES ASSUME ~Bad'
                   PROVE  ~StatusIsCritical' /\ AllOk' /\ NoneFailed'
                            /\ ~Critical(status.iter)'
        BY DEF CleanUnlessBad
      <3>1. ~Critical(s) /\ ~StatusIsCritical /\ AllOk /\ NoneFailed
              /\ ~Critical(status.iter)
        BY <2>3 DEF VerdictInv, CleanUnlessBad
      <3>2. NoneFailed'
        BY <2>2, <3>1 DEF NoneFailed
      <3> QED BY <1>2, <2>3, <3>1, <3>2 DEF AllOk
    <2>5. proc' = "running" /\ Bad' => BadIsKept'
      <3> SUFFICES ASSUME proc' = "running", Bad' PROVE BadIsKept'
        OBVIOUS
      <3>1. CASE Bad
        <4>1. /\ proc = "running" /\ ~returned
              /\ UNCHANGED <<ok, at, received, canceled>>
          BY <1>2 DEF InUserCode
        <4>2. BadIsKept
          BY <3>1, <4>1 DEF VerdictInv
        <4>3. FlagIsKept => FlagIsKept'
          BY <2>3, <4>1 DEF FlagIsKept, HiddenByInterrupt, LostFlag
        <4> QED BY <2>3, <4>1, <4>2, <4>3 DEF BadIsKept
      <3>2. CASE Critical(s) /\ Top.owner # "iterator"
        BY <2>3, <3>2 DEF BadIsKept
      <3>3. CASE Critical(s) /\ Top.owner = "iterator"
        <4>1. Len(ctxs) \in 1 .. Len(ctxs) /\ Top = ctxs[Len(ctxs)]
          BY <2>1 DEF Top
        <4>2. at = "data_setup"
          BY <1>2, <3>3, <4>1 DEF JumpInv
        <4>3. Top'.failed
          BY <2>2, <3>3, <4>1 DEF Top
        <4> QED BY <1>2, <3>3, <4>2, <4>3 DEF BadIsKept
      <3> QED BY <2>3, <3>1, <3>2, <3>3
    <2> QED BY <1>2, <2>4, <2>5 DEF VerdictInv, VerdictIsGiven
  <1>3. CASE UserNotifies
    <2>1. "notification" \in Statuses /\ ~Critical("notification")
      BY CriticalStatuses DEF Statuses
    <2> QED BY <1>2, <1>3, <2>1 DEF UserNotifies, InUserCode
  <1>4. ASSUME NEW s \in GiveUps, UserGivesUp(s)
        PROVE  VerdictInv'
    <2>1. s \in Statuses
      BY GiveUpsAssumption DEF Statuses
    <2> QED BY <1>2, <1>4, <2>1 DEF UserGivesUp, InUserCode
  <1> QED BY <1>1, <1>3, <1>4 DEF UserStep

-----------------------------------------------------------------------------
\* What a signal does to the verdict.

\* A frame writes a jump buffer at most.
LEMMA SignalWritesJump ==
  ASSUME KnownInv, NEW signal \in {"crash", "interrupt"},
         \/ CaughtBySuite(signal) \/ CaughtByCase(signal)
         \/ CaughtByIterated(signal) \/ CaughtByTest(signal)
  PROVE  NoneFailed => NoneFailed'
  <1> USE DEF KnownInv, Known
  <1>1. ctxs \in Seq(Contexts) /\ Len(ctxs) \in Nat
    BY DEF StackOK
  <1>2. ASSUME NEW i \in 1 .. Len(ctxs), NEW p \in UserPoints,
               ctxs' = [ctxs EXCEPT ![i].jump = p]
        PROVE  NoneFailed => NoneFailed'
    BY <1>1, <1>2, JumpIsWritten DEF NoneFailed
  <1>3. CASE CaughtBySuite(signal) \/ CaughtByTest(signal)
    BY <1>3 DEF CaughtBySuite, CaughtByTest, NoneFailed
  <1>4. CASE CaughtByCase(signal)
    <2>1. 1 \in 1 .. Len(ctxs)
      BY <1>1, <1>4, InnermostFrame, HandleSignalsAssumption
         DEF CaughtByCase, Caught, InUserCode, StackOK, StackIsDeep, Depth,
             IteratedPoints
    <2> QED BY <1>2, <1>4, <2>1, UserPointsAre DEF CaughtByCase
  <1>5. CASE CaughtByIterated(signal)
    <2>1. Len(ctxs) \in 1 .. Len(ctxs)
      BY <1>1, <1>5, InnermostFrame, HandleSignalsAssumption
         DEF CaughtByIterated, Caught, InUserCode, StackOK, StackIsDeep, Depth,
             IteratedPoints
    <2> QED BY <1>2, <1>5, <2>1, UserPointsAre DEF CaughtByIterated
  <1> QED BY <1>3, <1>4, <1>5

LEMMA VerdictSignalStep ==
  ASSUME KnownInv, VerdictInv, SignalStep
  PROVE  VerdictInv'
  <1> USE DEF KnownInv, Known
  <1>1. CASE FatalSignal
    <2>1. /\ UNCHANGED <<at, received, ctxs, ok, status, count, canceled, crashed,
                         causes, verdict, returned>>
          /\ proc' \notin {"running", "complete"}
      BY <1>1 DEF FatalSignal
    <2> QED BY <2>1 DEF VerdictInv, VerdictIsGiven, CleanUnlessBad, Bad,
                        StatusIsCritical, AllOk, NoneFailed
  <1>2. ASSUME NEW f, NEW signal \in {"crash", "interrupt"}, NEW owner,
               Caught(f, signal, owner)
        PROVE  /\ proc = "running" /\ at \in UserPoints /\ ~returned
               /\ received = "none" /\ received' = at /\ UNCHANGED verdict
               /\ signal = "interrupt" => canceled'
               /\ signal = "crash" => StatusIsCritical' /\ Bad'
               /\ signal # "crash" => UNCHANGED <<count, crashed, causes, status>>
               /\ frames # <<>> /\ frames[Len(frames)] = f
    <2>1. "crash" \in Statuses /\ Critical("crash")
      BY CriticalStatuses DEF Statuses
    <2>2. Report("crash", owner) => StatusIsCritical' /\ Bad'
      BY <2>1, ReportMoves
    <2> QED BY <1>2, <2>2 DEF Caught, InUserCode, NoReport
  <1>3. ASSUME NEW signal \in {"crash", "interrupt"},
               \/ CaughtBySuite(signal) \/ CaughtByCase(signal)
               \/ CaughtByIterated(signal) \/ CaughtByTest(signal)
        PROVE  VerdictInv'
    <2>1. PICK f, owner : Caught(f, signal, owner)
      BY <1>3 DEF CaughtBySuite, CaughtByCase, CaughtByIterated, CaughtByTest
    <2>2. proc' = "running"
      BY <1>2, <1>3, <2>1
         DEF CaughtBySuite, CaughtByCase, CaughtByIterated, CaughtByTest, GoTo
    <2>3. CASE signal = "crash"
      BY <1>2, <2>1, <2>2, <2>3
         DEF VerdictInv, CleanUnlessBad, BadIsKept, VerdictIsGiven
    <2>4. CASE signal # "crash"
      <3>1. /\ canceled' /\ UNCHANGED <<count, crashed, causes, status>>
            /\ received' = at /\ received = "none" /\ ~returned /\ proc = "running"
        BY <1>2, <2>1, <2>4
      <3>2. (Bad' <=> Bad) /\ (StatusIsCritical' <=> StatusIsCritical)
        BY <3>1, NoReportMoves
      <3>3. /\ ok'.suite = ok.suite /\ ok'.case = ok.case /\ ok'.iter = ok.iter
            /\ ok'.tests = ok.tests
            /\ ok.test => ok'.test
            /\ CaughtByCase(signal) => ok'.test = ok.test
        BY <1>3, <2>4 DEF CaughtBySuite, CaughtByCase, CaughtByIterated, CaughtByTest,
                          SucceedsAfter, RestOK
      <3>4. CleanUnlessBad'
        BY <1>3, <3>1, <3>2, <3>3, SignalWritesJump
           DEF VerdictInv, CleanUnlessBad, AllOk
      <3>5. FlagIsKept => FlagIsKept'
        <4> SUFFICES ASSUME FlagIsKept PROVE FlagIsKept'
          OBVIOUS
        <4>1. causes' = causes /\ received \notin CaseCaught \cup {"shutdown"}
          BY <3>1 DEF CaseCaught
        <4>2. CASE at = "shutdown" /\ ~ok.case
          <5>1. at \in UserPoints /\ frames # <<>> /\ frames[Len(frames)] = f
            BY <1>2, <2>1
          <5>2. f = "suite"
            BY <4>2, <5>1, InnermostFrame, HandleSignalsAssumption
          <5>3. CaughtBySuite(signal)
            BY <1>3, <2>1, <5>1, <5>2
               DEF Caught, CaughtByCase, CaughtByIterated, CaughtByTest
          <5> QED BY <3>1, <3>3, <4>1, <4>2, <5>3
                  DEF FlagIsKept, HiddenByInterrupt, LostFlag, CaughtBySuite, GoTo,
                      LeftPoints
        <4>3. CASE at \in CaseCaught /\ (~ok.tests \/ ~ok.test)
          <5>1. CaughtByCase(signal)
            BY <1>2, <1>3, <2>1, <4>3, InnermostFrame, HandleSignalsAssumption
               DEF Caught, CaughtBySuite, CaughtByIterated, CaughtByTest, CaseCaught
          <5> QED BY <3>1, <3>3, <4>1, <4>3, <5>1
                  DEF FlagIsKept, HiddenByInterrupt, LostFlag, CaughtByCase, GoTo,
                      LeftPoints
        <4>4. CASE at \in TestPoints \ CaseCaught /\ ~ok.tests
          <5>1. at \in {"body", "isetup", "ibody"}
            BY <1>2, <2>1, <4>4, UserPointsAre DEF TestPoints, CaseCaught
          <5>2. CaughtByIterated(signal) \/ CaughtByTest(signal)
            BY <1>2, <1>3, <2>1, <5>1, InnermostFrame, HandleSignalsAssumption
               DEF Caught, CaughtBySuite, CaughtByCase
          <5>3. at' \in TestPoints
            BY <5>2 DEF CaughtByIterated, CaughtByTest, GoTo, TestPoints
          <5> QED BY <3>3, <4>1, <4>4, <5>3 DEF FlagIsKept
        <4>5. ~HiddenByInterrupt
          BY <4>1 DEF HiddenByInterrupt, LostFlag
        <4> QED BY <4>2, <4>3, <4>4, <4>5 DEF FlagIsKept, CaseCaught
      <3>7. Bad => BadIsKept'
        BY <3>1, <3>2, <3>3, <3>5 DEF VerdictInv, BadIsKept
      <3> QED BY <2>2, <3>2, <3>4, <3>7 DEF VerdictInv, VerdictIsGiven
    <2> QED BY <2>3, <2>4
  <1> QED BY <1>1, <1>3 DEF SignalStep

-----------------------------------------------------------------------------
\* What the engine does to the verdict.

\* No context of the engine's making is failed.
LEMMA EngineFailsNone ==
  ASSUME KnownInv, EngineStep
  PROVE  NoneFailed => NoneFailed'
  <1> SUFFICES ASSUME NoneFailed PROVE NoneFailed'
    OBVIOUS
  <1> USE DEF Engine, Back, GoTo
  <1>1. /\ ctxs \in Seq(Contexts) /\ Len(ctxs) \in Nat /\ Len(ctxs) >= Depth(at)
    BY DEF KnownInv, Known, StackOK, StackIsDeep
  <1>2. CASE UNCHANGED ctxs
    BY <1>2 DEF NoneFailed
  <1>3. ASSUME NEW i \in 1 .. Len(ctxs), NEW p \in UserPoints,
               ctxs' = [ctxs EXCEPT ![i].jump = p]
        PROVE  NoneFailed'
    BY <1>1, <1>3, JumpIsWritten DEF NoneFailed
  <1>4. ASSUME NEW owner \in {"case", "test", "iterator", "iterated"},
               NEW p \in UserPoints, ctxs' = Append(ctxs, NewContext(owner, p))
        PROVE  NoneFailed'
    <2>1. /\ Len(ctxs') = Len(ctxs) + 1 /\ ctxs'[Len(ctxs) + 1].failed = FALSE
          /\ \A j \in 1 .. Len(ctxs) : ctxs'[j] = ctxs[j]
      BY <1>1, <1>4, ContextIsPushed
    <2>2. \A j \in 1 .. Len(ctxs') : j \in 1 .. Len(ctxs) \/ j = Len(ctxs) + 1
      BY <1>1, <2>1
    <2> QED BY <2>1, <2>2 DEF NoneFailed
  <1>5. ASSUME Len(ctxs) >= 1, ctxs' = PopCtx
        PROVE  NoneFailed'
    BY <1>1, <1>5, ContextIsPopped DEF NoneFailed
  <1>6. CASE \/ RunStart \/ WarmupDone \/ SkipCase \/ EndOfCases \/ SkipTest
             \/ BodyDone \/ SkipData \/ CooldownDone \/ EmitCompleteRun
             \/ NullSuccess
    BY <1>2, <1>6 DEF RunStart, WarmupDone, SkipCase, EndOfCases, SkipTest, BodyDone,
                      SkipData, CooldownDone, EmitCompleteRun, NullSuccess
  <1>7. ASSUME at \in {"startup", "next_test"}, LeaveCase
        PROVE  NoneFailed'
    <2>1. 1 \in 1 .. Len(ctxs)
      BY <1>1, <1>7 DEF Depth
    <2> QED BY <1>3, <1>7, <2>1, UserPointsAre DEF LeaveCase
  <1>8. CASE StartupDone \/ EndOfTests
    BY <1>2, <1>7, <1>8 DEF StartupDone, EndOfTests
  <1>9. CASE StartCase \/ StartTest \/ StartIteratedTest
    BY <1>4, <1>9, UserPointsAre DEF StartCase, StartTest, StartIteratedTest
  <1>10. CASE SetupDone \/ IteratedSetupDone \/ TestEnd
    <2>1. Len(ctxs) \in 1 .. Len(ctxs)
      BY <1>1, <1>10 DEF SetupDone, IteratedSetupDone, TestEnd, Depth, IteratedPoints
    <2> QED BY <1>3, <1>10, <2>1, UserPointsAre
            DEF SetupDone, IteratedSetupDone, TestEnd, EnterBody, EnterTeardown
  <1>11. CASE TeardownDone \/ EndOfData \/ ShutdownDone
    <2>1. Len(ctxs) >= 1
      BY <1>1, <1>11 DEF TeardownDone, EndOfData, ShutdownDone, Depth
    <2> QED BY <1>5, <1>11, <2>1 DEF TeardownDone, EndOfData, ShutdownDone,
                                     LeaveIterator
  <1>12. CASE DataSetupDone
    <2>0. at = "data_setup"
      BY <1>12 DEF DataSetupDone
    <2>1. Len(ctxs) >= 1
      BY <1>1, <2>0 DEF Depth
    <2> QED BY <1>2, <1>5, <1>12, <2>1 DEF DataSetupDone, LeaveIterator
  <1>13. CASE IteratedTeardownDone
    <2>1. Len(ctxs) >= 2 /\ Len(ctxs) \in 1 .. Len(ctxs)
      BY <1>1, <1>13 DEF IteratedTeardownDone, Depth, IteratedPoints
    <2>2. ~Top.failed
      BY <2>1 DEF NoneFailed, Top
    <2> QED BY <1>1, <1>13, <2>1, <2>2, FailureIsPassed
            DEF IteratedTeardownDone, NoneFailed
  <1> QED BY <1>6, <1>8, <1>9, <1>10, <1>11, <1>12, <1>13 DEF EngineStep

\* The success flags of the C stack: none is lost on the way up ...
LEMMA EngineKeepsFailure ==
  ASSUME RestOK, EngineStep, UNCHANGED <<received, canceled>>
  PROVE  /\ ~ok.suite => ~ok'.suite
         /\ at = "shutdown" /\ ~ok.case => ~ok'.suite
         /\ at \in TestPoints /\ ~ok.tests
              => \/ ~ok'.tests /\ at' \in TestPoints
                 \/ ~ok'.case /\ at' = "shutdown"
         /\ at = "teardown" /\ ~ok.test => ~ok'.tests /\ at' \in TestPoints
         /\ at = "data_setup" /\ Top.failed
              => /\ ~ok'.tests /\ at' \in TestPoints
                 /\ "no_data" \in causes'
         /\ HiddenByInterrupt => HiddenByInterrupt'
  <1> USE DEF Engine, Back, GoTo, TestPoints
  <1>1. ok \in [suite : BOOLEAN, case : BOOLEAN, tests : BOOLEAN, test : BOOLEAN,
                iter : BOOLEAN, valid : BOOLEAN]
    BY DEF RestOK
  <1>2. CASE \/ RunStart \/ WarmupDone \/ SkipTest
             \/ SkipData \/ NullSuccess
             \/ StartIteratedTest \/ IteratedTeardownDone
    BY <1>2 DEF RunStart, WarmupDone, SkipTest, SkipData, NullSuccess,
                StartIteratedTest, IteratedTeardownDone, HiddenByInterrupt, LeftPoints
  <1>3. CASE SkipCase \/ EndOfCases \/ CooldownDone \/ EmitCompleteRun
    BY <1>3 DEF SkipCase, EndOfCases, CooldownDone, EmitCompleteRun,
                HiddenByInterrupt, LostFlag, LeftPoints
  <1>4. CASE StartCase \/ StartupDone
    BY <1>1, <1>4 DEF StartCase, StartupDone, IsCanceled, HiddenByInterrupt,
                      LeftPoints
  <1>5. CASE ShutdownDone
    BY <1>1, <1>5 DEF ShutdownDone, HiddenByInterrupt, LostFlag, LeftPoints
  <1>6. CASE StartTest \/ EndOfTests
    BY <1>1, <1>6 DEF StartTest, EndOfTests, TestsReturn, LeaveCase,
                      HiddenByInterrupt, LeftPoints
  <1>7. CASE SetupDone \/ IteratedSetupDone \/ TestEnd \/ BodyDone
    BY <1>1, <1>7 DEF SetupDone, IteratedSetupDone, TestEnd, BodyDone, EnterBody,
                      EnterTeardown, HiddenByInterrupt, LeftPoints
  <1>8. CASE TeardownDone \/ DataSetupDone \/ EndOfData
    BY <1>1, <1>8 DEF TeardownDone, DataSetupDone, EndOfData, LeaveIterator,
                      HiddenByInterrupt, LeftPoints
  <1> QED BY <1>2, <1>3, <1>4, <1>5, <1>6, <1>7, <1>8 DEF EngineStep

\* ... and none is made up: only a test without function fails by itself.
LEMMA EngineKeepsSuccess ==
  ASSUME RestOK, StackOK, EngineStep, AllOk, NoneFailed,
         "unavailable" \notin causes'
  PROVE  AllOk'
  <1> USE DEF Engine, Back, GoTo, AllOk
  <1>1. ok \in [suite : BOOLEAN, case : BOOLEAN, tests : BOOLEAN, test : BOOLEAN,
                iter : BOOLEAN, valid : BOOLEAN]
    BY DEF RestOK
  <1>2. Depth(at) >= 1 => Top.failed = FALSE
    <2>1. Len(ctxs) \in Nat /\ Len(ctxs) >= Depth(at)
      BY DEF StackOK, StackIsDeep
    <2>2. Depth(at) >= 1 => Len(ctxs) \in 1 .. Len(ctxs) /\ Len(ctxs) >= 1
      BY <2>1, DepthIsNat
    <2>3. Depth(at) >= 1 => Top.failed \in BOOLEAN
      BY TopOK
    <2> QED BY <2>2, <2>3 DEF NoneFailed, Top
  <1>3. CASE \/ RunStart \/ WarmupDone \/ SkipCase \/ EndOfCases \/ SkipTest
             \/ SkipData \/ CooldownDone \/ EmitCompleteRun \/ NullSuccess
             \/ StartIteratedTest \/ IteratedTeardownDone
    BY <1>3 DEF RunStart, WarmupDone, SkipCase, EndOfCases, SkipTest, SkipData,
                CooldownDone, EmitCompleteRun, NullSuccess, StartIteratedTest,
                IteratedTeardownDone
  <1>4. CASE StartCase \/ StartTest \/ ShutdownDone \/ TestEnd \/ EndOfTests
    BY <1>1, <1>4 DEF StartCase, StartTest, ShutdownDone, TestEnd, EndOfTests,
                      TestsReturn
  <1>5. CASE StartupDone
    <2>1. at = "startup" /\ ok' = [ok EXCEPT !.case = ~Top.failed, !.tests = TRUE]
      BY <1>5 DEF StartupDone
    <2>2. Top.failed = FALSE
      BY <1>2, <2>1 DEF Depth
    <2>3. (~Top.failed) = TRUE
      BY <2>2
    <2> HIDE DEF AllOk
    <2>4. ok' = [ok EXCEPT !.case = TRUE, !.tests = TRUE]
      BY <2>1, <2>3
    <2> QED BY <1>1, <2>4 DEF AllOk
  <1>10. CASE BodyDone
    BY <1>1, <1>2, <1>10 DEF BodyDone, Depth, IteratedPoints
  <1>6. CASE SetupDone
    BY <1>1, <1>2, <1>6 DEF SetupDone, EnterBody, Depth
  <1>7. CASE IteratedSetupDone
    BY <1>1, <1>2, <1>7 DEF IteratedSetupDone, EnterBody, Depth, IteratedPoints
  <1>8. CASE TeardownDone \/ EndOfData
    BY <1>1, <1>8 DEF TeardownDone, EndOfData, LeaveIterator
  <1>9. CASE DataSetupDone
    <2>1. at = "data_setup"
      BY <1>9 DEF DataSetupDone
    <2>2. ~Top.failed
      BY <1>2, <2>1 DEF Depth
    <2>3. ok' = [ok EXCEPT !.iter = TRUE]
      BY <1>9, <2>2 DEF DataSetupDone
    <2> QED BY <1>1, <2>3
  <1> QED BY <1>3, <1>4, <1>5, <1>6, <1>7, <1>8, <1>9, <1>10 DEF EngineStep

LEMMA VerdictEngineStep ==
  ASSUME KnownInv, VerdictInv, EngineStep
  PROVE  VerdictInv'
  <1> USE DEF KnownInv, Known
  <1>1. /\ proc = "running" /\ UNCHANGED <<received, canceled>>
        /\ causes \subseteq causes'
    BY DEF Engine, Back, NoReport, EnterBody, Report,
           EngineStep, RunStart, WarmupDone, SkipCase, StartCase, EndOfCases,
           StartupDone, SkipTest, StartTest, EndOfTests, SetupDone, BodyDone,
           TestEnd, TeardownDone, DataSetupDone, SkipData, StartIteratedTest,
           EndOfData, IteratedSetupDone, IteratedTeardownDone, NullSuccess,
           ShutdownDone, CooldownDone, EmitCompleteRun
  \* What the steps report.
  <1>2. \/ UNCHANGED <<count, crashed>> /\ causes' \in {causes, causes \cup {"no_data"}}
             /\ status'.iter \in {status.iter, "success"}
        \/ SetupDone /\ UNCHANGED <<count, crashed, status>> /\ at' = "teardown"
             /\ causes' = causes \cup {"unavailable"} /\ ~ok'.test
        \/ Report("success", Top.owner)
        \/ Report(status.iter, "iterator")
    <2>1. CASE \/ RunStart \/ WarmupDone \/ SkipCase \/ StartCase \/ EndOfCases
               \/ StartupDone \/ SkipTest \/ StartTest \/ EndOfTests \/ BodyDone
               \/ TeardownDone \/ DataSetupDone \/ SkipData \/ StartIteratedTest
               \/ IteratedTeardownDone \/ NullSuccess
               \/ ShutdownDone \/ CooldownDone \/ EmitCompleteRun
      <3>1. UNCHANGED <<count, crashed>> /\ causes' \in {causes, causes \cup {"no_data"}}
        BY <2>1 DEF NoReport, RunStart, WarmupDone, SkipCase, StartCase, EndOfCases,
             StartupDone, SkipTest, StartTest, EndOfTests, BodyDone,
             TeardownDone, DataSetupDone, SkipData, StartIteratedTest,
             IteratedTeardownDone, NullSuccess, ShutdownDone, CooldownDone,
             EmitCompleteRun
      <3>2. \/ UNCHANGED status
            \/ status' = [status EXCEPT !.case = "success", !.worst = "success"]
            \/ status' = [status EXCEPT !.iter = "success"]
        BY <2>1 DEF RunStart, WarmupDone, SkipCase, StartCase, EndOfCases,
             StartupDone, SkipTest, StartTest, EndOfTests, BodyDone,
             TeardownDone, DataSetupDone, SkipData, StartIteratedTest,
             IteratedTeardownDone, NullSuccess, ShutdownDone, CooldownDone,
             EmitCompleteRun
      <3>3. status'.iter \in {status.iter, "success"}
        BY <3>2 DEF RestOK
      <3> QED BY <3>1, <3>3
    <2>2. CASE SetupDone
      BY <2>2 DEF SetupDone, EnterBody, EnterTeardown, GoTo, RestOK
    <2>3. CASE IteratedSetupDone
      BY <2>3 DEF IteratedSetupDone, EnterBody
    <2>4. CASE TestEnd
      BY <2>4 DEF TestEnd, NoReport
    <2>5. CASE EndOfData
      BY <2>5 DEF EndOfData
    <2> QED BY <2>1, <2>2, <2>3, <2>4, <2>5 DEF EngineStep
  <1>3. /\ "success" \in Statuses /\ ~Critical("success") /\ status.iter \in Statuses
        /\ {"unavailable", "no_data"} \cap Statuses = {}
    BY CriticalStatuses DEF Statuses, RestOK
  <1>4. Bad => Bad' /\ (StatusIsCritical => StatusIsCritical')
    <2>1. causes \subseteq causes' => (Bad => Bad')
      BY DEF Bad
    <2> QED BY <1>2, <1>3, <2>1, ReportMoves, NoReportMoves
  <1>5. ~Bad' => "unavailable" \notin causes'
    BY DEF Bad
  <1>6. CleanUnlessBad'
    <2> SUFFICES ASSUME ~Bad'
                 PROVE  ~StatusIsCritical' /\ AllOk' /\ NoneFailed'
                          /\ ~Critical(status.iter)'
      BY DEF CleanUnlessBad
    <2>1. /\ ~StatusIsCritical /\ AllOk /\ NoneFailed /\ ~Critical(status.iter)
      BY <1>4 DEF VerdictInv, CleanUnlessBad
    <2>2. AllOk' /\ NoneFailed'
      BY <1>5, <2>1, EngineKeepsSuccess, EngineFailsNone
    <2>3. ~StatusIsCritical' /\ ~Critical(status.iter)'
      <3>1. CASE UNCHANGED <<count, crashed>>
                   /\ status'.iter \in {status.iter, "success"}
        BY <1>3, <2>1, <3>1, NoReportMoves DEF Critical
      <3>2. CASE Report("success", Top.owner) \/ Report(status.iter, "iterator")
        BY <1>3, <2>1, <3>2, ReportMoves
      <3>3. CASE causes' = causes \cup {"unavailable"}
        BY <1>5, <3>3
      <3> QED BY <1>2, <3>1, <3>2, <3>3
    <2> QED BY <2>2, <2>3
  <1>7. Bad => BadIsKept'
    <2> SUFFICES ASSUME Bad, BadIsKept PROVE BadIsKept'
      BY <1>1 DEF VerdictInv
    <2>1. CASE StatusIsCritical
      BY <1>4, <2>1 DEF BadIsKept
    <2>2. CASE ~ok.suite \/ FlagIsKept
      BY <1>1, <2>2, EngineKeepsFailure DEF BadIsKept, FlagIsKept
    <2>3. CASE Top.failed /\ at = "data_setup"
      BY <1>1, <2>3, EngineKeepsFailure DEF BadIsKept, FlagIsKept, Uncounted
    <2> QED BY <2>1, <2>2, <2>3 DEF BadIsKept
  <1>8. ~Bad /\ Bad' => BadIsKept'
    <2> SUFFICES ASSUME ~Bad, Bad' PROVE BadIsKept'
      OBVIOUS
    <2>1. ~Critical(status.iter)
      BY DEF VerdictInv, CleanUnlessBad
    <2>2. ~Report("success", Top.owner) /\ ~Report(status.iter, "iterator")
      BY <1>3, <2>1, ReportMoves
    <2>3. ~(/\ UNCHANGED <<count, crashed>>
            /\ causes' \in {causes, causes \cup {"no_data"}})
      BY NoReportMoves
    <2> QED BY <1>2, <2>2, <2>3 DEF BadIsKept, FlagIsKept, Uncounted
  <1>9. VerdictIsGiven'
    <2>1. CASE EmitCompleteRun
      <3>1. /\ at' = "finish" /\ UNCHANGED <<ok, count, crashed>>
            /\ verdict' = IF ok.suite /\ ~StatusIsCritical THEN "success"
                                                           ELSE "failure"
        BY <2>1 DEF EmitCompleteRun, Engine, NoReport
      <3> QED BY <3>1, NoReportMoves DEF VerdictIsGiven
    <2>2. CASE ~EmitCompleteRun
      <3>1. proc' # "complete"
        BY <1>1, <2>2
           DEF Engine, Back, GoTo, EnterBody, EnterTeardown, LeaveIterator, LeaveCase,
             EngineStep, RunStart, WarmupDone, SkipCase, StartCase, EndOfCases,
             StartupDone, SkipTest, StartTest, EndOfTests, SetupDone, BodyDone,
             TestEnd, TeardownDone, DataSetupDone, SkipData, StartIteratedTest,
             EndOfData, IteratedSetupDone, IteratedTeardownDone, NullSuccess,
             ShutdownDone, CooldownDone
      <3> QED BY <3>1 DEF VerdictIsGiven
    <2> QED BY <2>1, <2>2
  <1> QED BY <1>6, <1>7, <1>8, <1>9 DEF VerdictInv

\* The inductive invariant about the verdict.
THEOREM VerdictInvariant == Spec => []VerdictInv
  <1>1. Init => VerdictInv
    <2> SUFFICES ASSUME Init PROVE VerdictInv
      OBVIOUS
    <2>1. ~Bad
      BY DEF Init, Bad
    <2>2. ~StatusIsCritical
      BY DEF Init, StatusIsCritical, Statuses
    <2>3. ~Critical(status.iter)
      BY CriticalStatuses DEF Init, Statuses
    <2> QED BY <2>1, <2>2, <2>3
            DEF Init, VerdictInv, CleanUnlessBad, AllOk, NoneFailed, VerdictIsGiven
  <1>2. KnownInv /\ VerdictInv /\ [Next]_vars => VerdictInv'
    <2>1. UNCHANGED vars /\ VerdictInv => VerdictInv'
      BY DEF vars, VerdictInv, VerdictIsGiven, CleanUnlessBad, BadIsKept, Bad,
             StatusIsCritical, AllOk, NoneFailed, FlagIsKept, HiddenByInterrupt,
             LostFlag, Top
    <2> QED BY <2>1, VerdictUserStep, VerdictSignalStep, VerdictEngineStep
            DEF Next, Ended
  <1> QED BY <1>1, <1>2, ContextInvariant, PTL DEF Spec

\* VerdictIsRight: on whatever path a critical result took, the run says failure
\* if and only if there was one (cut-run-context.c:2092, cut-test-case.c:632,
\* cut-test-suite.c:240), but for what no counter holds and an interrupt makes
\* the case forget with a flag of the frames it jumps over (cut-test-case.c:648).
THEOREM VerdictTheorem == Spec => []VerdictIsRight
  <1>1. VerdictInv => VerdictIsRight
    BY DEF VerdictInv, VerdictIsGiven, CleanUnlessBad, AllOk, BadIsKept, FlagIsKept,
           TestPoints, HiddenByInterrupt, VerdictIsRight
  <1> QED BY <1>1, VerdictInvariant, PTL

-----------------------------------------------------------------------------
\* The run implements CutRunPromise.

PromiseInv == KnownInv /\ VerdictInv

\* A step within a running process reports at most.
LEMMA RunningStep ==
  ASSUME proc = "running", at # "start", at' # "start",
         UNCHANGED <<canceled, verdict>>, Bad => Bad',
         \/ proc' = "running"
         \/ proc' \in {"exited", "killed", "undefined"}
  PROVE  [Promise!Next]_(Promise!vars)
  <1>1. CASE proc' = "running" /\ Bad' = Bad
    BY <1>1 DEF Promise!vars
  <1>2. CASE proc' = "running" /\ ~Bad /\ Bad'
    <2>1. Bad' = TRUE
      BY <1>2 DEF Bad
    <2>2. Promise!Report
      BY <1>2, <2>1 DEF Promise!Report
    <2> QED BY <2>2 DEF Promise!Next
  <1>3. CASE proc' # "running"
    <2>1. Bad' = Bad \/ Bad' = TRUE
      BY DEF Bad
    <2>2. Promise!Lose
      BY <1>3, <2>1 DEF Promise!Lose
    <2> QED BY <2>2 DEF Promise!Next
  <1>4. Bad' = Bad \/ (~Bad /\ Bad')
    BY DEF Bad
  <1> QED BY <1>1, <1>2, <1>3, <1>4

LEMMA PromiseStep ==
  ASSUME PromiseInv, [Next]_vars
  PROVE  [Promise!Next]_(Promise!vars)
  <1> USE DEF PromiseInv, KnownInv, Known
  <1>1. CASE UNCHANGED vars
    BY <1>1 DEF vars, Promise!vars, Bad
  <1>2. ASSUME NEW s \in Statuses, NEW owner, Report(s, owner)
        PROVE  Bad => Bad'
    BY <1>2, ReportMoves
  <1>3. CASE UserStep
    <2>1. proc = "running" /\ at \in UserPoints /\ at # "start"
            /\ UNCHANGED <<at, canceled, verdict>>
      BY <1>3, UserPointsAre DEF UserStep, UserReturns, UserNotifies, UserGivesUp,
                                 InUserCode
    <2>2. Bad => Bad'
      <3>1. "notification" \in Statuses /\ GiveUps \subseteq Statuses
        BY GiveUpsAssumption DEF Statuses
      <3>2. UNCHANGED causes => (Bad => Bad')
        BY DEF Bad
      <3> QED BY <1>2, <1>3, <3>1, <3>2
              DEF UserStep, UserReturns, UserNotifies, UserGivesUp, SetResult
    <2>3. proc' \in {"running", "undefined"}
      BY <1>3, <2>1 DEF UserStep, UserReturns, UserNotifies, UserGivesUp
    <2> QED BY <2>1, <2>2, <2>3, RunningStep
  <1>4. CASE SignalStep
    <2>1. CASE FatalSignal
      <3>1. /\ proc = "running" /\ at # "start" /\ proc' \in {"exited", "killed"}
            /\ UNCHANGED <<at, canceled, verdict, causes>>
        BY <2>1, UserPointsAre DEF FatalSignal, InUserCode
      <3>2. Bad => Bad'
        BY <3>1 DEF Bad
      <3> QED BY <3>1, <3>2, RunningStep
    <2>2. ASSUME NEW signal \in {"crash", "interrupt"},
                 \/ CaughtBySuite(signal) \/ CaughtByCase(signal)
                 \/ CaughtByIterated(signal) \/ CaughtByTest(signal)
          PROVE  [Promise!Next]_(Promise!vars)
      <3>1. PICK f, owner : Caught(f, signal, owner)
        BY <2>2 DEF CaughtBySuite, CaughtByCase, CaughtByIterated, CaughtByTest
      <3>2. /\ proc = "running" /\ at # "start" /\ proc' = "running"
            /\ at' # "start" /\ UNCHANGED verdict
        BY <2>2, <3>1, UserPointsAre DEF CaughtBySuite, CaughtByCase,
           CaughtByIterated, CaughtByTest, Caught, InUserCode, GoTo
      <3>3. CASE signal = "crash"
        <4>1. Report("crash", owner) /\ "crash" \in Statuses /\ UNCHANGED canceled
          BY <3>1, <3>3 DEF Caught, Statuses, RestOK
        <4> QED BY <1>2, <3>2, <4>1, RunningStep
      <3>4. CASE signal # "crash"
        <4>1. UNCHANGED causes /\ canceled' = TRUE /\ canceled \in BOOLEAN
          BY <3>1, <3>4 DEF Caught, NoReport, RestOK
        <4>2. Bad' = Bad
          BY <4>1 DEF Bad
        <4>3. CASE canceled = TRUE
          BY <3>2, <4>1, <4>2, <4>3, RunningStep
        <4>4. CASE canceled = FALSE
          BY <3>2, <4>1, <4>2, <4>4 DEF Promise!Next, Promise!Interrupt
        <4> QED BY <4>1, <4>3, <4>4
      <3> QED BY <3>3, <3>4
    <2> QED BY <1>4, <2>1, <2>2 DEF SignalStep
  <1>5. CASE RunStart
    <2>1. /\ proc = "running" /\ at = "start" /\ proc' = "running" /\ at' # "start"
          /\ UNCHANGED <<causes, canceled, verdict>>
      BY <1>5 DEF RunStart, Engine, GoTo, NoReport
    <2>2. Bad' = Bad
      BY <2>1 DEF Bad
    <2> QED BY <2>1, <2>2 DEF Promise!Next, Promise!Start
  <1>6. CASE EmitCompleteRun
    <2>1. /\ proc = "running" /\ at = "finish" /\ proc' = "complete"
          /\ UNCHANGED <<causes, canceled>>
          /\ verdict' = IF ok.suite /\ ~StatusIsCritical THEN "success"
                                                         ELSE "failure"
      BY <1>6 DEF EmitCompleteRun, Engine, NoReport
    <2>2. Bad' = Bad
      BY <2>1 DEF Bad
    <2>3. CASE ~Bad
      <3>1. verdict' = "success"
        BY <2>1, <2>3 DEF VerdictInv, CleanUnlessBad, AllOk
      <3> QED BY <2>1, <2>2, <2>3, <3>1 DEF Promise!Next, Promise!Complete
    <2>4. CASE Bad
      <3>1. verdict' = "failure" \/ (canceled /\ verdict' = "success")
        BY <2>1, <2>4 DEF VerdictInv, BadIsKept, FlagIsKept, TestPoints,
                                HiddenByInterrupt
      <3> QED BY <2>1, <2>2, <2>4, <3>1 DEF Promise!Next, Promise!Complete
    <2> QED BY <2>3, <2>4
  <1>7. CASE EngineStep /\ ~RunStart /\ ~EmitCompleteRun
    <2>1. /\ proc = "running" /\ at # "start" /\ at' # "start"
          /\ proc' \in {"running", "exited", "killed"}
          /\ UNCHANGED <<canceled, verdict>>
      BY <1>7
         DEF Engine, Back, GoTo, EnterBody, EnterTeardown, LeaveIterator, LeaveCase,
             EngineStep, WarmupDone, SkipCase, StartCase, EndOfCases,
             StartupDone, SkipTest, StartTest, EndOfTests, SetupDone, BodyDone,
             TestEnd, TeardownDone, DataSetupDone, SkipData, StartIteratedTest,
             EndOfData, IteratedSetupDone, IteratedTeardownDone, NullSuccess,
             ShutdownDone, CooldownDone
    <2>2. causes \subseteq causes'
      BY <1>7
         DEF NoReport, Report, EnterBody,
             EngineStep, WarmupDone, SkipCase, StartCase, EndOfCases,
             StartupDone, SkipTest, StartTest, EndOfTests, SetupDone, BodyDone,
             TestEnd, TeardownDone, DataSetupDone, SkipData, StartIteratedTest,
             EndOfData, IteratedSetupDone, IteratedTeardownDone, NullSuccess,
             ShutdownDone, CooldownDone
    <2>3. Bad => Bad'
      BY <2>2 DEF Bad
    <2> QED BY <2>1, <2>3, RunningStep
  <1> QED BY <1>1, <1>3, <1>4, <1>5, <1>6, <1>7 DEF Next, Ended, EngineStep

\* On every path through fixtures, assertions and signals a run keeps what
\* CutRunPromise promises of it: one verdict, which is a failure exactly when
\* something critical was reported, interrupts excepted.
THEOREM PromiseTheorem == Spec => Promise!Spec
  <1>1. Init => Promise!Init
    BY DEF Init, Promise!Init, Bad
  <1>2. PromiseInv /\ [Next]_vars => [Promise!Next]_(Promise!vars)
    BY PromiseStep
  <1> QED BY <1>1, <1>2, ContextInvariant, VerdictInvariant, PTL
          DEF Spec, PromiseInv, Promise!Spec

-----------------------------------------------------------------------------
\* The results of a test body.

EndPoints == {"test_end", "itest_end"}

\* A body reports once at most, when it gives up; it is a success afterwards only
\* if it reported nothing or an omission.
BodyInv ==
  /\ at \in {"body", "ibody"} =>
       \/ inBody = 0 /\ ~Top.failed
       \/ returned /\ inBody = 1 /\ (Top.failed \/ Top.omitted)
  /\ at \in EndPoints =>
       \/ ok.test /\ (inBody = 0 \/ (inBody = 1 /\ Top.omitted))
       \/ ~ok.test /\ inBody = 1

LEMMA BodyUserStep ==
  ASSUME KnownInv, BodyInv, UserStep
  PROVE  BodyInv'
  <1> USE DEF KnownInv, Known
  <1>1. CASE UserReturns
    BY <1>1, UserPointsAre DEF UserReturns, InUserCode, BodyInv, EndPoints, Top
  <1>2. ASSUME at \notin {"body", "ibody"}
        PROVE  BodyInv'
    <2>1. UNCHANGED at /\ at \in UserPoints
      BY DEF UserStep, UserReturns, UserNotifies, UserGivesUp, InUserCode
    <2> QED BY <1>2, <2>1, UserPointsAre DEF BodyInv, EndPoints
  <1>3. ASSUME NEW s \in Statuses, SetResult(s), at \in {"body", "ibody"}
        PROVE  /\ Top'.failed = (Top.failed \/ Critical(s))
               /\ Top'.omitted = (s = "omission")
               /\ s = "notification" => UNCHANGED inBody
               /\ s # "notification" => inBody' = inBody + 1
    <2>1. ctxs \in Seq(Contexts) /\ Len(ctxs) >= 1 /\ Len(ctxs) \in Nat
      BY <1>3 DEF StackOK, StackIsDeep, Depth, IteratedPoints
    <2> QED BY <1>3, <2>1, ResultIsSet DEF SetResult, Report, Top
  <1>4. CASE UserNotifies /\ at \in {"body", "ibody"}
    <2>1. "notification" \in Statuses /\ ~Critical("notification")
      BY CriticalStatuses DEF Statuses
    <2>2. ~returned /\ UNCHANGED <<at, returned>> /\ SetResult("notification")
      BY <1>4 DEF UserNotifies, InUserCode
    <2>3. inBody' = 0 /\ ~Top'.failed
      BY <1>3, <1>4, <2>1, <2>2 DEF BodyInv
    <2> QED BY <1>4, <2>2, <2>3 DEF BodyInv, EndPoints
  <1>5. ASSUME NEW s \in GiveUps, UserGivesUp(s), at \in {"body", "ibody"}
        PROVE  BodyInv'
    <2>1. s \in Statuses /\ s # "notification" /\ (Critical(s) \/ s = "omission")
      BY CriticalStatuses, GiveUpsAssumption DEF Statuses
    <2>2. Top.jump = at
      BY <1>5, UserPointsAre DEF JumpInv
    <2>3. ~returned /\ UNCHANGED at /\ returned' /\ SetResult(s)
      BY <1>5, <2>2 DEF UserGivesUp, InUserCode
    <2>4. inBody = 0
      BY <1>5, <2>3 DEF BodyInv
    <2>5. inBody' = 1
      BY <1>3, <1>5, <2>1, <2>3, <2>4
    <2>6. Top'.failed \/ Top'.omitted
      BY <1>3, <1>5, <2>1, <2>3
    <2> QED BY <1>5, <2>3, <2>5, <2>6 DEF BodyInv, EndPoints
  <1> QED BY <1>1, <1>2, <1>4, <1>5 DEF UserStep

LEMMA BodySignalStep ==
  ASSUME KnownInv, BodyInv, SignalStep
  PROVE  BodyInv'
  <1> USE DEF KnownInv, Known
  <1>1. CASE FatalSignal
    BY <1>1 DEF FatalSignal, BodyInv, Top
  <1>2. ASSUME NEW signal \in {"crash", "interrupt"},
               \/ CaughtBySuite(signal) \/ CaughtByCase(signal)
               \/ CaughtByIterated(signal)
        PROVE  BodyInv'
    BY <1>2 DEF CaughtBySuite, CaughtByCase, CaughtByIterated, GoTo, BodyInv,
                EndPoints
  <1>3. ASSUME NEW signal \in {"crash", "interrupt"}, CaughtByTest(signal)
        PROVE  BodyInv'
    <2>1. /\ Caught("test", signal, Top.owner) /\ ok'.test = (signal # "crash")
          /\ at' \in EndPoints
      BY <1>3 DEF CaughtByTest, GoTo, SucceedsAfter, EndPoints, RestOK
    <2>2. /\ at \in UserPoints /\ ~returned
          /\ frames # <<>> /\ frames[Len(frames)] = "test"
          /\ inBody' = IF signal = "crash" THEN inBody + 1 ELSE inBody
      BY <2>1 DEF Caught, InUserCode, Report, NoReport
    <2>3. at \in {"body", "ibody"}
      BY <2>2, InnermostFrame, HandleSignalsAssumption
    <2>4. inBody = 0
      BY <2>2, <2>3 DEF BodyInv
    <2>5. at' \notin {"body", "ibody"}
      BY <2>1 DEF EndPoints
    <2>6. CASE signal = "crash"
      <3>1. inBody' = 1
        BY <2>2, <2>4, <2>6
      <3>2. ~ok'.test
        BY <2>1, <2>6, Zenon
      <3> QED BY <2>5, <3>1, <3>2 DEF BodyInv
    <2>7. CASE signal # "crash"
      BY <2>1, <2>2, <2>4, <2>5, <2>7 DEF BodyInv
    <2> QED BY <2>6, <2>7
  <1> QED BY <1>1, <1>2, <1>3 DEF SignalStep

LEMMA BodyEngineStep ==
  ASSUME KnownInv, BodyInv, EngineStep
  PROVE  BodyInv'
  <1> USE DEF KnownInv, Known, Engine, Back, GoTo
  <1>1. ASSUME NEW p \in {"body", "ibody"}, at \in {"setup", "isetup"},
               EnterBody(p), ~Top.failed
        PROVE  BodyInv'
    <2>1. ctxs \in Seq(Contexts) /\ Len(ctxs) \in 1 .. Len(ctxs)
      BY <1>1 DEF StackOK, StackIsDeep, Depth, IteratedPoints
    <2>2. at' = p /\ inBody' = 0 /\ ctxs' = [ctxs EXCEPT ![Len(ctxs)].jump = p]
      BY <1>1 DEF EnterBody
    <2>3. ~Top'.failed
      BY <1>1, <2>1, <2>2, JumpIsWritten, UserPointsAre DEF Top
    <2> QED BY <1>1, <2>2, <2>3 DEF BodyInv, EndPoints
  <1>2. CASE SetupDone \/ IteratedSetupDone
    <2>1. CASE at' \in {"teardown", "iteardown"}
      BY <2>1 DEF BodyInv, EndPoints
    <2> QED BY <1>1, <1>2, <2>1 DEF SetupDone, IteratedSetupDone, EnterTeardown
  <1>3. CASE BodyDone
    <2>1. /\ at \in {"body", "ibody"} /\ at' \in EndPoints
          /\ UNCHANGED <<inBody, ctxs>> /\ ok' = [ok EXCEPT !.test = ~Top.failed]
      BY <1>3 DEF BodyDone, NoReport, EndPoints
    <2>2. ok'.test = ~Top.failed
      BY <2>1 DEF RestOK
    <2> QED BY <2>1, <2>2 DEF BodyInv, EndPoints, Top
  <1>4. CASE EngineStep /\ ~SetupDone /\ ~IteratedSetupDone /\ ~BodyDone
    <2>1. at' \notin {"body", "ibody", "test_end", "itest_end"}
      BY <1>4
         DEF EnterTeardown, LeaveIterator, LeaveCase,
             EngineStep, RunStart, WarmupDone, SkipCase, StartCase, EndOfCases,
             StartupDone, SkipTest, StartTest, EndOfTests,
             TestEnd, TeardownDone, DataSetupDone, SkipData, StartIteratedTest,
             EndOfData, IteratedTeardownDone, NullSuccess,
             ShutdownDone, CooldownDone, EmitCompleteRun
    <2> QED BY <2>1 DEF BodyInv, EndPoints
  <1> QED BY <1>2, <1>3, <1>4

\* BodiesYieldResults: a test that ends has reported one result, an omitted one
\* its success as well, whether it returned, gave up or was taken out of its body
\* by a signal (cut-test.c:489).
THEOREM BodiesTheorem == Spec => BodiesYieldResults
  <1>1. Init => BodyInv
    BY DEF Init, BodyInv, EndPoints
  <1>2. KnownInv /\ BodyInv /\ [Next]_vars => BodyInv'
    <2>1. UNCHANGED vars /\ BodyInv => BodyInv'
      BY DEF vars, BodyInv, Top
    <2> QED BY <2>1, BodyUserStep, BodySignalStep, BodyEngineStep DEF Next, Ended
  <1>3. KnownInv /\ BodyInv
          => [TestEnd => inBody' = 1 \/ (inBody' = 2 /\ Top.omitted)]_vars
    <2> SUFFICES ASSUME KnownInv, BodyInv, TestEnd
                 PROVE  inBody' = 1 \/ (inBody' = 2 /\ Top.omitted)
      OBVIOUS
    <2>1. /\ at \in EndPoints
          /\ inBody' = IF ok.test THEN inBody + 1 ELSE inBody
      BY DEF TestEnd, Engine, EndPoints, Report, NoReport
    <2> QED BY <2>1 DEF BodyInv
  <1> QED BY <1>1, <1>2, <1>3, ContextInvariant, PTL DEF Spec, BodiesYieldResults

-----------------------------------------------------------------------------
\* The status of a test case.

IteratorPoints == {"next_data", "isetup", "ibody", "itest_end", "iteardown"}
CaseRunPoints  == {"startup", "next_test", "setup", "body", "test_end", "teardown",
                   "data_setup", "shutdown"}

\* The status of an iterator is added to that of its case when it ends.
WorstIsSeen ==
  \/ received \in {"ibody", "iteardown"} \/ ~ok.valid
  \/ /\ at \in CaseRunPoints => status.worst = status.case
     /\ at \in IteratorPoints => status.worst = Worse(status.case, status.iter)

WorstInv ==
  /\ WorstIsSeen
  /\ ~ok.valid => at = "iteardown"
  /\ at = "shutdown" => received = "iteardown" \/ Top.owner # "iterated"

LEMMA WorseLaws ==
  ASSUME NEW s \in Statuses, NEW t \in Statuses, NEW u \in Statuses
  PROVE  /\ Worse(Worse(s, t), u) = Worse(s, Worse(t, u))
         /\ Worse(Worse(s, t), t) = Worse(s, t)
         /\ Worse(s, "success") = s
  <1>1. \A v \in Statuses : Severity[v] \in Nat
    BY DEF Statuses, Severity
  <1>2. Severity["success"] = 0
    BY DEF Severity
  <1> QED BY <1>1, <1>2 DEF Worse

LEMMA StatusMoves ==
  ASSUME NEW s \in Statuses, NEW owner, Report(s, owner)
  PROVE  /\ status'.worst = Worse(status.worst, s)
         /\ owner \in {"case", "test", "iterator"} =>
              status'.case = Worse(status.case, s) /\ status'.iter = status.iter
         /\ owner = "iterated" /\ s # "crash" =>
              status'.iter = Worse(status.iter, s) /\ status'.case = status.case
  BY DEF Report, WatchedBy

\* A result that is watched keeps the case, or the case and its iterator, up to
\* date.
LEMMA WorstIsKept ==
  ASSUME RestOK, NEW s \in Statuses, NEW owner, Report(s, owner),
         \/ /\ owner \in {"case", "test", "iterator"}
            /\ status.worst = status.case /\ status'.worst # status'.case
         \/ /\ owner = "iterated" /\ s # "crash"
            /\ status.worst = Worse(status.case, status.iter)
            /\ status'.worst # Worse(status'.case, status'.iter)
  PROVE  FALSE
  <1>1. status.case \in Statuses /\ status.iter \in Statuses
    BY DEF RestOK
  <1> QED BY <1>1, StatusMoves, WorseLaws

\* Whose results the running function reports.
LEMMA OwnerOfResults ==
  ASSUME KnownInv, WorstInv, at \in UserPoints \ {"warmup", "cooldown"}
  PROVE  /\ at \in IteratorPoints => Top.owner = "iterated"
         /\ at \in CaseRunPoints =>
              Top.owner \in {"case", "test", "iterator"} \/ received = "iteardown"
  <1> USE DEF KnownInv, Known, StackOK, StackInv, StackIs, Top
  <1>1. CASE at = "shutdown"
    <2>1. ctxs \in Seq(Contexts) /\ Len(ctxs) >= 1 /\ Len(ctxs) \in 1 .. Len(ctxs)
      BY <1>1 DEF StackIsDeep, Depth, IteratedPoints
    <2>2. Top.owner \in {"case", "test", "iterator", "iterated"}
      BY <2>1, TopType DEF Contexts
    <2> QED BY <1>1, <2>2 DEF WorstInv, IteratorPoints
  <1>2. CASE at # "shutdown"
    <2>1. StackIs(at)
      BY <1>2, UserPointsAre DEF LeftPoints
    <2> QED BY <1>2, <2>1, UserPointsAre
            DEF Depth, IteratedPoints, IteratorPoints, CaseRunPoints
  <1> QED BY <1>1, <1>2

LEMMA WorstUserStep ==
  ASSUME KnownInv, WorstInv, UserStep
  PROVE  WorstInv'
  <1> USE DEF KnownInv, Known
  <1>1. CASE UserReturns
    BY <1>1 DEF UserReturns, WorstInv, WorstIsSeen, Top
  <1>2. ASSUME NEW s \in Statuses, SetResult(s), s # "crash",
               at \in UserPoints \ {"warmup", "cooldown"},
               UNCHANGED <<at, received, ok>>
        PROVE  WorstInv'
    <2>1. ctxs \in Seq(Contexts) /\ Len(ctxs) >= 1 /\ Len(ctxs) \in 1 .. Len(ctxs)
      BY <1>2, UserPointsAre DEF StackOK, StackIsDeep, Depth, IteratedPoints
    <2>2. Top'.owner = Top.owner
      BY <1>2, <2>1, ResultIsSet DEF Top
    <2>3. Report(s, Top.owner)
      BY <1>2 DEF SetResult
    <2>4. WorstIsSeen'
      BY <1>2, <2>3, OwnerOfResults, WorstIsKept
         DEF WorstInv, WorstIsSeen, IteratorPoints, CaseRunPoints
    <2> QED BY <1>2, <2>2, <2>4 DEF WorstInv
  <1>3. CASE UserNotifies
    BY <1>2, <1>3 DEF UserNotifies, InUserCode, Statuses
  <1>4. ASSUME NEW s \in GiveUps, UserGivesUp(s)
        PROVE  WorstInv'
    BY <1>2, <1>4, GiveUpsAssumption DEF UserGivesUp, InUserCode, Statuses
  <1> QED BY <1>1, <1>3, <1>4 DEF UserStep

LEMMA WorstSignalStep ==
  ASSUME KnownInv, WorstInv, SignalStep
  PROVE  WorstInv'
  <1> USE DEF KnownInv, Known
  <1>1. CASE FatalSignal
    BY <1>1 DEF FatalSignal, WorstInv, WorstIsSeen, Top
  <1>2. ASSUME NEW f, NEW signal, NEW owner, Caught(f, signal, owner)
        PROVE  /\ at \in UserPoints /\ received = "none" /\ received' = at
               /\ frames # <<>> /\ frames[Len(frames)] = f /\ StackIs(at)
               /\ ok.valid
               /\ IF signal = "crash" THEN Report("crash", owner)
                                      ELSE UNCHANGED status
    BY <1>2 DEF Caught, InUserCode, StackInv, CaseCaught, SignalInv
  <1>3. ASSUME NEW signal \in {"crash", "interrupt"}, CaughtBySuite(signal)
        PROVE  WorstInv'
    BY <1>2, <1>3 DEF CaughtBySuite, GoTo, WorstInv, WorstIsSeen, IteratorPoints,
                      CaseRunPoints, RestOK
  <1>4. ASSUME NEW signal \in {"crash", "interrupt"}, CaughtByCase(signal)
        PROVE  WorstInv'
    <2>1. /\ Caught("case", signal, "case") /\ at' = "shutdown"
          /\ ctxs' = [ctxs EXCEPT ![1].jump = "shutdown"]
          /\ ok' = [ok EXCEPT !.case = @ /\ signal # "crash"]
      BY <1>4 DEF CaughtByCase, GoTo
    <2>2. at \in {"startup", "data_setup", "setup", "teardown", "iteardown"}
      BY <1>2, <2>1, InnermostFrame, HandleSignalsAssumption
    <2>3. at # "iteardown" => Top'.owner = Top.owner /\ Top.owner # "iterated"
      <3>1. ctxs \in Seq(Contexts) /\ Len(ctxs) \in 1 .. Len(ctxs) /\ 1 \in 1 .. Len(ctxs)
        BY <1>2, <2>1, <2>2 DEF StackOK, StackIs, Depth, IteratedPoints
      <3>2. Top'.owner = Top.owner
        BY <2>1, <3>1, JumpIsWritten, UserPointsAre DEF Top
      <3> QED BY <1>2, <2>1, <2>2, <3>2, OwnerOfResults, UserPointsAre
              DEF CaseRunPoints
    <2>4. ok'.valid = ok.valid
      BY <2>1 DEF RestOK
    <2>5. at # "iteardown" => status'.worst = status'.case
      <3>1. at # "iteardown" => status.worst = status.case
        BY <1>2, <2>1, <2>2 DEF WorstInv, WorstIsSeen, CaseRunPoints
      <3> QED BY <1>2, <2>1, <3>1, WorstIsKept DEF Statuses
    <2> QED BY <1>2, <2>1, <2>2, <2>3, <2>4, <2>5
            DEF WorstInv, WorstIsSeen, IteratorPoints
  <1>5. ASSUME NEW signal \in {"crash", "interrupt"}, CaughtByIterated(signal)
        PROVE  WorstInv'
    <2>1. /\ Caught("iterated", signal, "iterated") /\ at' = "iteardown"
          /\ ok' = [ok EXCEPT !.valid = (signal # "crash")]
      BY <1>5 DEF CaughtByIterated, GoTo
    <2>2. at = "isetup"
      BY <1>2, <2>1, InnermostFrame, HandleSignalsAssumption
    <2>3. ok'.valid = (signal # "crash")
      BY <2>1 DEF RestOK
    <2>4. signal # "crash" => WorstIsSeen'
      BY <1>2, <2>1, <2>2 DEF WorstInv, WorstIsSeen, IteratorPoints, CaseRunPoints
    <2> QED BY <2>1, <2>3, <2>4 DEF WorstInv, WorstIsSeen
  <1>6. ASSUME NEW signal \in {"crash", "interrupt"}, CaughtByTest(signal)
        PROVE  WorstInv'
    <2>1. /\ Caught("test", signal, Top.owner) /\ UNCHANGED ctxs
          /\ at' = IF at = "ibody" THEN "itest_end" ELSE "test_end"
          /\ ok' = [ok EXCEPT !.test = SucceedsAfter(signal)]
      BY <1>6 DEF CaughtByTest, GoTo
    <2>2. at \in {"body", "ibody"}
      BY <1>2, <2>1, InnermostFrame, HandleSignalsAssumption
    <2>3. ok'.valid = ok.valid
      BY <2>1 DEF RestOK
    <2>4. at = "body" => status'.worst = status'.case
      <3>1. at = "body" => /\ status.worst = status.case
                           /\ Top.owner \in {"case", "test", "iterator"}
        BY <1>2, <2>1, OwnerOfResults, UserPointsAre
           DEF WorstInv, WorstIsSeen, CaseRunPoints
      <3> QED BY <1>2, <2>1, <3>1, WorstIsKept DEF Statuses
    <2> QED BY <1>2, <2>1, <2>2, <2>3, <2>4
            DEF WorstInv, WorstIsSeen, IteratorPoints
  <1> QED BY <1>1, <1>3, <1>4, <1>5, <1>6 DEF SignalStep

LEMMA WorstEngineStep ==
  ASSUME KnownInv, WorstInv, EngineStep
  PROVE  WorstInv'
  <1> USE DEF KnownInv, Known
  <1>1. ok'.valid = ok.valid
    BY DEF RestOK, EngineStep, LeaveIterator, LeaveCase, EnterBody, EnterTeardown,
           TestsReturn,
           RunStart, WarmupDone, SkipCase, StartCase, EndOfCases,
           StartupDone, SkipTest, StartTest, EndOfTests, SetupDone, BodyDone,
           TestEnd, TeardownDone, DataSetupDone, SkipData, StartIteratedTest,
           EndOfData, IteratedSetupDone, IteratedTeardownDone, NullSuccess,
           ShutdownDone, CooldownDone, EmitCompleteRun
  <1>2. UNCHANGED received
    BY DEF EngineStep,
           RunStart, WarmupDone, SkipCase, StartCase, EndOfCases,
           StartupDone, SkipTest, StartTest, EndOfTests, SetupDone, BodyDone,
           TestEnd, TeardownDone, DataSetupDone, SkipData, StartIteratedTest,
           EndOfData, IteratedSetupDone, IteratedTeardownDone, NullSuccess,
           ShutdownDone, CooldownDone, EmitCompleteRun
  <1>3. CASE NullSuccess
    BY <1>3 DEF NullSuccess, Back, Engine, NoReport, WorstInv, WorstIsSeen,
                IteratorPoints, CaseRunPoints
  <1>4. ASSUME ~NullSuccess
        PROVE  ok.valid
    BY <1>4 DEF WorstInv, EngineStep, Engine, Back,
           RunStart, WarmupDone, SkipCase, StartCase, EndOfCases,
           StartupDone, SkipTest, StartTest, EndOfTests, SetupDone, BodyDone,
           TestEnd, TeardownDone, DataSetupDone, SkipData, StartIteratedTest,
           EndOfData, IteratedSetupDone, IteratedTeardownDone,
           ShutdownDone, CooldownDone, EmitCompleteRun
  <1>5. at' = "shutdown" => received' = "iteardown" \/ Top'.owner # "iterated"
    <2>1. CASE LeaveCase /\ at \in {"startup", "next_test"}
      <3>1. StackIs(at)
        BY <2>1 DEF StackInv, LeftPoints
      <3>2. ctxs \in Seq(Contexts) /\ Len(ctxs) = 1 /\ ctxs[1].owner = "case"
        BY <2>1, <3>1 DEF StackOK, StackIs, Depth, IteratedPoints
      <3>3. ctxs' = [ctxs EXCEPT ![1].jump = "shutdown"]
        BY <2>1 DEF LeaveCase
      <3>4. "shutdown" \in UserPoints /\ 1 \in 1 .. Len(ctxs)
        BY <3>2, UserPointsAre
      <3>5. Len(ctxs') = 1 /\ ctxs'[1].owner = "case"
        BY <3>2, <3>3, <3>4, JumpIsWritten
      <3> QED BY <3>5 DEF Top
    <2>2. CASE ~(LeaveCase /\ at \in {"startup", "next_test"})
      BY <2>2
         DEF Engine, Back, GoTo, EnterBody, EnterTeardown, LeaveIterator,
             EngineStep, RunStart, WarmupDone, SkipCase, StartCase, EndOfCases,
             StartupDone, SkipTest, StartTest, EndOfTests, SetupDone, BodyDone,
             TestEnd, TeardownDone, DataSetupDone, SkipData, StartIteratedTest,
             EndOfData, IteratedSetupDone, IteratedTeardownDone, NullSuccess,
             ShutdownDone, CooldownDone, EmitCompleteRun, WorstInv
    <2> QED BY <2>1, <2>2
  <1>6. ASSUME ~NullSuccess, received \notin {"ibody", "iteardown"}
        PROVE  WorstIsSeen'
    <2>1. /\ at \in CaseRunPoints => status.worst = status.case
          /\ at \in IteratorPoints => status.worst = Worse(status.case, status.iter)
          /\ status.case \in Statuses /\ status.iter \in Statuses
      BY <1>4, <1>6 DEF WorstInv, WorstIsSeen, RestOK
    <2>2. CASE StartCase
      BY <2>2 DEF StartCase, Engine, GoTo, WorstIsSeen, CaseRunPoints, IteratorPoints,
                  RestOK
    <2>3. CASE DataSetupDone
      <3>1. Worse(status.case, "success") = status.case
        BY <2>1, WorseLaws
      <3>2. at = "data_setup"
        BY <2>3 DEF DataSetupDone, Back, Engine
      <3>3. \/ at' = "next_test" /\ UNCHANGED status
            \/ at' = "next_data" /\ status' = [status EXCEPT !.iter = "success"]
        BY <2>3 DEF DataSetupDone, LeaveIterator, GoTo
      <3> QED BY <2>1, <3>1, <3>2, <3>3
              DEF WorstIsSeen, CaseRunPoints, IteratorPoints, RestOK
    <2>4. CASE EndOfData
      <3>1. at = "next_data" /\ at' = "next_test" /\ Report(status.iter, "iterator")
        BY <2>4 DEF EndOfData, Engine, LeaveIterator, GoTo
      <3>2. status'.worst = Worse(Worse(status.case, status.iter), status.iter)
        BY <2>1, <3>1, StatusMoves DEF IteratorPoints
      <3>3. status'.case = Worse(status.case, status.iter)
        BY <2>1, <3>1, StatusMoves
      <3>4. status'.worst = status'.case
        BY <2>1, <3>2, <3>3, WorseLaws
      <3> QED BY <3>1, <3>4 DEF WorstIsSeen, IteratorPoints
    <2>5. CASE TestEnd
      <3>1. \/ at = "test_end" /\ at' = "teardown"
            \/ at = "itest_end" /\ at' = "iteardown"
        BY <2>5 DEF TestEnd, Engine, EnterTeardown, GoTo
      <3>2. StackIs(at)
        BY <3>1 DEF StackInv, LeftPoints
      <3>3. Top.owner = IF at = "test_end" THEN "test" ELSE "iterated"
        BY <3>1, <3>2 DEF StackIs, StackOK, Top, Depth, IteratedPoints
      <3>4. "success" \in Statuses /\ "success" # "crash"
        BY DEF Statuses
      <3>5. UNCHANGED status \/ Report("success", Top.owner)
        BY <2>5 DEF TestEnd
      <3>6. CASE at = "test_end"
        <4>1. status'.worst = status'.case
          BY <2>1, <3>3, <3>4, <3>5, <3>6, WorstIsKept DEF CaseRunPoints
        <4> QED BY <3>1, <3>6, <4>1 DEF WorstIsSeen, IteratorPoints
      <3>7. CASE at = "itest_end"
        <4>1. status'.worst = Worse(status'.case, status'.iter)
          BY <2>1, <3>3, <3>4, <3>5, <3>7, WorstIsKept DEF IteratorPoints
        <4> QED BY <3>1, <3>7, <4>1 DEF WorstIsSeen, CaseRunPoints
      <3> QED BY <3>1, <3>6, <3>7
    <2>6. CASE /\ EngineStep /\ ~StartCase /\ ~DataSetupDone /\ ~EndOfData
               /\ ~TestEnd
      <3>1. UNCHANGED status
        BY <1>6, <2>6
           DEF EngineStep, RunStart, WarmupDone, SkipCase, EndOfCases,
               StartupDone, SkipTest, StartTest, EndOfTests, SetupDone, BodyDone,
               TeardownDone, SkipData, StartIteratedTest, NullSuccess,
               IteratedSetupDone, IteratedTeardownDone,
               ShutdownDone, CooldownDone, EmitCompleteRun
      <3>2. /\ at' \in CaseRunPoints => at \in CaseRunPoints
            /\ at' \in IteratorPoints => at \in IteratorPoints
        BY <1>6, <2>6
           DEF Engine, Back, GoTo, EnterBody, EnterTeardown, LeaveCase,
               EngineStep, RunStart, WarmupDone, SkipCase, EndOfCases,
               StartupDone, SkipTest, StartTest, EndOfTests, SetupDone, BodyDone,
               TeardownDone, SkipData, StartIteratedTest,
               IteratedSetupDone, IteratedTeardownDone,
               ShutdownDone, CooldownDone, EmitCompleteRun,
               CaseRunPoints, IteratorPoints
      <3> QED BY <2>1, <3>1, <3>2 DEF WorstIsSeen
    <2> QED BY <2>2, <2>3, <2>4, <2>5, <2>6
  <1> QED BY <1>1, <1>2, <1>3, <1>4, <1>5, <1>6 DEF WorstInv, WorstIsSeen

\* CaseStatusIsWorst: a case is reported with the worst status that was reported
\* in it, but for a signal in an iterated test or its teardown
\* (cut-test-iterator.c:462).
THEOREM CaseStatusTheorem == Spec => []CaseStatusIsWorst
  <1>1. Init => WorstInv
    BY DEF Init, WorstInv, WorstIsSeen, CaseRunPoints, IteratorPoints
  <1>2. KnownInv /\ WorstInv /\ [Next]_vars => WorstInv'
    <2>1. UNCHANGED vars /\ WorstInv => WorstInv'
      BY DEF vars, WorstInv, WorstIsSeen, Top
    <2> QED BY <2>1, WorstUserStep, WorstSignalStep, WorstEngineStep DEF Next, Ended
  <1>3. WorstInv => CaseStatusIsWorst
    BY DEF WorstInv, WorstIsSeen, CaseStatusIsWorst, CaseRunPoints
  <1> QED BY <1>1, <1>2, <1>3, ContextInvariant, PTL DEF Spec
=============================================================================
