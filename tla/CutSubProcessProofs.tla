------------------------ MODULE CutSubProcessProofs ------------------------
(***************************************************************************)
(* Theorems about CutSubProcess: for any number of sub processes, of       *)
(* messages and of calls, and any size of the reader's buffer, the verdict *)
(* of a process and of a group is the children's own, what a child wrote   *)
(* is forwarded, and a child is reaped only when it has been read.         *)
(*                                                                         *)
(* The heart of it is what a verdict means while things go on.  Settled    *)
(* says of a verdict that the child can do nothing any more to make it     *)
(* wrong: a success is one of a child that has said all, a failure is one  *)
(* of a child that has failed already, or that ended, or was never         *)
(* started, without a word.  Every verdict that is told to a handler is    *)
(* settled, and stays so.                                                  *)
(***************************************************************************)
EXTENDS CutSubProcess, FiniteSetTheorems, TLAPS

Messages == Results \cup {"start", "complete"}
Pipelines == [stream : {"none", "open", "closed"}, critical : BOOLEAN,
              crashed : BOOLEAN, completed : BOOLEAN, error : BOOLEAN,
              ended : BOOLEAN, told : Seq(BOOLEAN)]
Processing == [running : BOOLEAN, isRan : BOOLEAN, success : BOOLEAN,
               connected : BOOLEAN]
CallStates == [op : {"none", "async", "run", "group-run", "wait", "group-wait"},
               todo : Seq(Processes), started : BOOLEAN, received : Seq(BOOLEAN)]
Groups == [members : Seq(Processes), counted : SUBSET Processes,
           uncompleted : Int, allSuccess : BOOLEAN]

\* The types of the variables, with the sequences they are made of.
Typed ==
  /\ call \in CallStates /\ calls \in 0 .. MaxCalls
  /\ process \in [Processes -> Processing]
  /\ group \in Groups
  /\ pipeline \in [Processes -> Pipelines]
  /\ sources \in [Processes -> [stream : BOOLEAN, watch : BOOLEAN]]
  /\ reading \in Processes \cup {NoProcess}
  /\ child \in [Processes -> {"none", "alive", "dead"}]
  /\ written \in [Processes -> Seq(Messages)]
  /\ taken \in [Processes -> Nat] /\ forwarded \in [Processes -> Nat]

-----------------------------------------------------------------------------
\* What the parent knows of a child.

\* It has been started, or somebody tried to.
Ran(p) == process[p].running \/ process[p].isRan

\* The child failed, or it is gone without saying that it is complete.
Failed(p) ==
  \/ \E i \in DOMAIN written[p] : ~Passes(written[p][i])
  \/ child[p] # "alive" /\ ~Contains(written[p], "complete")
Settled(p, v) == (v = TRUE /\ Succeeded(p)) \/ (v = FALSE /\ Failed(p))
Known(p, v) == Ran(p) /\ Settled(p, v)

\* The messages the parent has read, the n first, and what they left in the
\* run context s.
Prefix(p, n) == {written[p][i] : i \in 1 .. n}
ReadUpTo(s, p, n) ==
  /\ s.stream = "closed" <=> "complete" \in Prefix(p, n)
  /\ s.critical <=> \E m \in Prefix(p, n) : ~Passes(m)
  /\ s.crashed <=> "crash" \in Prefix(p, n)

\* A child that has been started or not, and its event sources.
ChildKnown(p) ==
  /\ ~Ran(p) => child[p] = "none" /\ pipeline[p] = NewPipeline
  /\ child[p] = "none" => /\ written[p] = <<>>
                          /\ ~sources[p].stream /\ ~sources[p].watch
  /\ child[p] = "alive" => sources[p].watch
  /\ child[p] = "dead" /\ ~sources[p].watch => taken[p] = Len(written[p])

\* The pipeline is at the place of the stream that it has read to.
PipeKnown(p) ==
  /\ taken[p] <= Len(written[p])
  /\ \A i \in 1 .. Len(written[p]) : written[p][i] = "complete" => i = Len(written[p])
  /\ ReadUpTo(pipeline[p], p, taken[p])
  /\ pipeline[p].told = <<>>
  /\ pipeline[p].stream = "closed" => pipeline[p].completed
  /\ pipeline[p].error \/ pipeline[p].ended =>
       child[p] = "dead" /\ taken[p] = Len(written[p])

\* The number of results in what was written.
Count(p) == IF Contains(written[p], "complete") THEN Len(written[p]) - 1
                                                ELSE Len(written[p])
\* What reached the test's run context: all that was read until the pipeline
\* was complete, and then all there is.
ForwardKnown(p) ==
  /\ ~pipeline[p].completed => forwarded[p] = taken[p]
  /\ pipeline[p].completed /\ ~pipeline[p].crashed =>
       /\ forwarded[p] = Count(p)
       /\ child[p] # "alive" \/ Contains(written[p], "complete")
  /\ process[p].isRan => pipeline[p].completed
  /\ forwarded[p] <= taken[p]

PipesKnown == \A p \in Processes : ChildKnown(p) /\ PipeKnown(p) /\ ForwardKnown(p)

\* The call that is going on: what it has still to run is not running, and of
\* the group.
CallKnown ==
  /\ call.started => /\ call.op \in {"run", "group-run"} /\ call.todo # <<>>
                     /\ Ran(Head(call.todo))
  /\ call.received # <<>> => call.started
  /\ call.op \in {"run", "group-run"} =>
       \A p \in Range(call.todo) :
         process[p].running => call.started /\ p = Head(call.todo)
  /\ call.op = "group-run" => Range(call.todo) \subseteq Range(group.members)

\* Every verdict is settled.
ProcessVerdicts ==
  /\ \A p \in Processes : process[p].isRan => Settled(p, process[p].success)
  /\ call.received # <<>> => /\ Settled(Head(call.todo), Head(call.received))
                             /\ pipeline[Head(call.todo)].completed

\* The group's is that of the members that are not counted any more, and of
\* those that a group-run has passed.
GroupVerdicts ==
  /\ ~group.allSuccess => \E p \in Range(group.members) : Known(p, FALSE)
  /\ group.allSuccess =>
       \A p \in Range(group.members) :
         /\ p \in group.counted \/ Known(p, TRUE)
         /\ call.op = "group-run" => p \in Range(call.todo) \/ Known(p, TRUE)
  /\ group.counted \subseteq Range(group.members)
  /\ IsFiniteSet(group.counted) /\ group.uncompleted = Cardinality(group.counted)

Inv == Typed /\ PipesKnown /\ CallKnown /\ ProcessVerdicts /\ GroupVerdicts

-----------------------------------------------------------------------------
\* Sequences.
LEMMA HeadAndTail ==
  ASSUME NEW S, NEW s \in Seq(S), s # <<>>
  PROVE  /\ Head(s) \in Range(s) /\ Last(s) \in Range(s)
         /\ Tail(s) \in Seq(S) /\ Range(Tail(s)) \subseteq Range(s)
         /\ \A x \in Range(s) : x = Head(s) \/ x \in Range(Tail(s))
<1>1. Len(s) \in Nat /\ Len(s) >= 1 /\ Head(s) = s[1]
  OBVIOUS
<1>2. Tail(s) \in Seq(S) /\ Len(Tail(s)) = Len(s) - 1
      /\ \A i \in 1 .. Len(s) - 1 : Tail(s)[i] = s[i + 1]
  OBVIOUS
<1>3. \A x \in Range(Tail(s)) : x \in Range(s)
  <2> TAKE x \in Range(Tail(s))
  <2>1. PICK i \in 1 .. Len(s) - 1 : x = Tail(s)[i]
    BY <1>1, <1>2 DEF Range
  <2>2. x = s[i + 1] /\ i + 1 \in DOMAIN s
    BY <2>1, <1>1, <1>2
  <2> QED
    BY <2>2 DEF Range
<1>4. \A x \in Range(s) : x = Head(s) \/ x \in Range(Tail(s))
  <2> TAKE x \in Range(s)
  <2>1. PICK i \in 1 .. Len(s) : x = s[i]
    BY DEF Range
  <2>2. CASE i = 1
    BY <2>1, <2>2, <1>1
  <2>3. CASE i # 1
    <3>1. i - 1 \in DOMAIN Tail(s) /\ Tail(s)[i - 1] = s[i]
      BY <2>3, <1>1, <1>2
    <3> QED
      BY <2>1, <3>1 DEF Range
  <2> QED
    BY <2>2, <2>3
<1> QED
  BY <1>1, <1>2, <1>3, <1>4 DEF Range, Last

LEMMA Appended ==
  ASSUME NEW S, NEW s \in Seq(S), NEW e \in S
  PROVE  /\ Append(s, e) \in Seq(S) /\ Append(s, e) # <<>>
         /\ \A x \in Range(Append(s, e)) : x \in Range(s) \/ x = e
         /\ \A x : Contains(Append(s, e), x) <=> Contains(s, x) \/ x = e
<1>1. /\ Append(s, e) \in Seq(S) /\ Len(Append(s, e)) = Len(s) + 1 /\ Len(s) \in Nat
      /\ \A i \in 1 .. Len(s) : Append(s, e)[i] = s[i]
      /\ Append(s, e)[Len(s) + 1] = e
  OBVIOUS
<1>2. \A i \in 1 .. Len(s) + 1 : i \in 1 .. Len(s) \/ i = Len(s) + 1
  BY <1>1
<1>3. \A i \in 1 .. Len(s) : i \in 1 .. Len(s) + 1
  BY <1>1
<1>4. Len(s) + 1 \in 1 .. Len(s) + 1
  BY <1>1
<1>5. \A x : Contains(Append(s, e), x) <=> Contains(s, x) \/ x = e
  BY <1>1, <1>2, <1>3, <1>4 DEF Contains
<1>6. \A x \in Range(Append(s, e)) : x \in Range(s) \/ x = e
  <2> TAKE x \in Range(Append(s, e))
  <2>1. PICK i \in 1 .. Len(s) + 1 : x = Append(s, e)[i]
    BY <1>1 DEF Range
  <2>2. i \in 1 .. Len(s) => x = s[i] /\ i \in DOMAIN s
    BY <2>1, <1>1
  <2> QED
    BY <2>1, <2>2, <1>1, <1>2 DEF Range
<1> QED
  BY <1>1, <1>5, <1>6

LEMMA FailureAppended ==
  ASSUME NEW s \in Seq(BOOLEAN)
  PROVE  /\ Append(s, FALSE) # <<>>
         /\ \A v \in Range(Append(s, FALSE)) : v \in Range(s) \/ v = FALSE
<1>1. \A e \in BOOLEAN :
         /\ Append(s, e) # <<>>
         /\ \A v \in Range(Append(s, e)) : v \in Range(s) \/ v = e
  BY Appended
<1> QED
  BY <1>1, Zenon

-----------------------------------------------------------------------------
\* A settled verdict is the child's.
LEMMA SettledIsTheChilds ==
  ASSUME Typed, NEW p \in Processes, NEW v, Settled(p, v)
  PROVE  v = Succeeded(p)
BY DEF Settled, Failed, Succeeded

\* A complete-run tells a success only of a run without a critical result.
LEMMA CompleteRunTells ==
  ASSUME NEW s \in Pipelines, NEW v \in BOOLEAN
  PROVE  LET t == CompleteRun(s, v)
         IN /\ t \in Pipelines /\ t.completed = TRUE
            /\ t.told = Append(s.told, v /\ ~s.critical)
            /\ t.stream = s.stream /\ t.critical = s.critical /\ t.crashed = s.crashed
            /\ t.error = s.error /\ t.ended = s.ended
<1> DEFINE e == v /\ ~s.critical
           told == Append(s.told, e)
<1>1. e \in BOOLEAN /\ s.told \in Seq(BOOLEAN)
  BY DEF Pipelines
<1>2. told \in Seq(BOOLEAN)
  BY <1>1
<1>3. CompleteRun(s, v) = [s EXCEPT !.completed = TRUE, !.told = told]
  BY DEF CompleteRun
<1> HIDE DEF told
<1>4. [s EXCEPT !.completed = TRUE, !.told = told] \in Pipelines
  BY <1>2 DEF Pipelines
<1>5. [s EXCEPT !.completed = TRUE, !.told = told].told = told
  BY DEF Pipelines
<1> QED
  BY <1>3, <1>4, <1>5 DEF Pipelines, told

\* What a chunk of the stream, or what is left of it, does to a run context.
LEMMA TakeReads ==
  ASSUME Typed, NEW p \in Processes, PipeKnown(p), NEW n \in Nat,
         taken[p] + n <= Len(written[p])
  PROVE  LET s == Take(pipeline[p], Unread(p, n))
             end == "complete" \in Unread(p, n)
         IN /\ s \in Pipelines
            /\ ReadUpTo(s, p, taken[p] + n)
            /\ s.error = pipeline[p].error /\ s.ended = pipeline[p].ended
            /\ s.completed = (pipeline[p].completed \/ end)
            /\ s.told = IF end THEN <<~s.critical>> ELSE <<>>
            /\ s.stream = "closed" => s.completed
            /\ end => /\ taken[p] + n = Len(written[p])
                      /\ s.stream = "closed"
<1> DEFINE msgs == Unread(p, n)
           s == Take(pipeline[p], msgs)
           end == "complete" \in msgs
<1>1. /\ pipeline[p] \in Pipelines /\ written[p] \in Seq(Messages) /\ taken[p] \in Nat
      /\ Len(written[p]) \in Nat
  BY DEF Typed
<1>2. Prefix(p, taken[p] + n) = Prefix(p, taken[p]) \cup msgs
  BY <1>1 DEF Prefix, Unread
<1> DEFINE read == [pipeline[p] EXCEPT
                      !.stream = IF end THEN "closed"
                                 ELSE IF "start" \in msgs THEN "open" ELSE @,
                      !.critical = @ \/ \E m \in msgs : ~Passes(m),
                      !.crashed = @ \/ "crash" \in msgs]
<1> HIDE DEF msgs
<1>3. /\ read \in Pipelines
      /\ read.stream = IF end THEN "closed"
                       ELSE IF "start" \in msgs THEN "open" ELSE pipeline[p].stream
      /\ read.critical = (pipeline[p].critical \/ \E m \in msgs : ~Passes(m))
      /\ read.crashed = (pipeline[p].crashed \/ "crash" \in msgs)
      /\ read.error = pipeline[p].error /\ read.ended = pipeline[p].ended
      /\ read.completed = pipeline[p].completed /\ read.told = pipeline[p].told
  BY <1>1 DEF Pipelines
<1>4. s = IF end THEN CompleteRun(read, TRUE) ELSE read
  BY DEF Take
<1>5. pipeline[p].told = <<>>
  BY DEF PipeKnown
<1> HIDE DEF read
<1>6. /\ s \in Pipelines
      /\ s.stream = read.stream /\ s.critical = read.critical /\ s.crashed = read.crashed
      /\ s.error = pipeline[p].error /\ s.ended = pipeline[p].ended
      /\ s.completed = (pipeline[p].completed \/ end)
      /\ s.told = IF end THEN <<~s.critical>> ELSE <<>>
  <2>1. CASE end
    <3>1. s = CompleteRun(read, TRUE)
      BY <1>4, <2>1
    <3> HIDE DEF s
    <3>2. /\ s \in Pipelines /\ s.completed = TRUE
          /\ s.told = Append(read.told, TRUE /\ ~read.critical)
          /\ s.stream = read.stream /\ s.critical = read.critical
          /\ s.crashed = read.crashed
          /\ s.error = read.error /\ s.ended = read.ended
      BY <3>1, <1>3, CompleteRunTells
    <3>3. s.told = <<~s.critical>>
      <4>1. s.told = Append(<<>>, TRUE /\ ~s.critical)
        BY <3>2, <1>3, <1>5
      <4>2. (TRUE /\ ~s.critical) = ~s.critical
        BY <3>2 DEF Pipelines
      <4> QED
        BY <4>1, <4>2
    <3> QED
      BY <3>2, <3>3, <1>3, <2>1
  <2>2. CASE ~end
    <3>1. s = read
      BY <1>4, <2>2
    <3> HIDE DEF s
    <3>2. pipeline[p].completed \in BOOLEAN
      BY <1>1 DEF Pipelines
    <3> QED
      BY <3>1, <3>2, <1>3, <1>5, <2>2
  <2> QED
    BY <2>1, <2>2
<1>9. end => taken[p] + n = Len(written[p])
  <2>1. ASSUME end
        PROVE  \E i \in taken[p] + 1 .. taken[p] + n : written[p][i] = "complete"
    BY <2>1 DEF Unread, msgs
  <2> SUFFICES ASSUME end PROVE taken[p] + n = Len(written[p])
    OBVIOUS
  <2>2. PICK i \in taken[p] + 1 .. taken[p] + n : written[p][i] = "complete"
    BY <2>1
  <2>3. i \in 1 .. Len(written[p])
    BY <1>1, <2>2
  <2>4. i = Len(written[p])
    BY <2>2, <2>3 DEF PipeKnown
  <2> QED
    BY <1>1, <2>2, <2>4
<1>10. "complete" \in Prefix(p, taken[p]) /\ n # 0 => FALSE
  BY <1>1 DEF Prefix, PipeKnown
<1>11. n = 0 => msgs = {}
  BY <1>1 DEF Unread, msgs
<1>12. s.stream = "closed" <=> pipeline[p].stream = "closed" \/ end
  BY <1>3, <1>6, <1>10, <1>11 DEF PipeKnown, ReadUpTo
<1>13. ReadUpTo(s, p, taken[p] + n)
  BY <1>2, <1>3, <1>6, <1>12 DEF ReadUpTo, PipeKnown
<1>14. s.stream = "closed" => s.completed
  BY <1>6, <1>12 DEF PipeKnown
<1> QED
  BY <1>6, <1>9, <1>12, <1>13, <1>14 DEF msgs

-----------------------------------------------------------------------------
\* What s is when the n next messages have been read into it.
Reads(p, s, n) ==
  /\ s \in Pipelines
  /\ ReadUpTo(s, p, taken[p] + n)
  /\ s.stream = "closed" => s.completed
  /\ s.completed <=> pipeline[p].completed \/ s.told # <<>>
  /\ "complete" \in Unread(p, n) => s.completed
  /\ s.error \/ s.ended => child[p] = "dead" /\ taken[p] + n = Len(written[p])
  /\ s.completed /\ ~pipeline[p].completed /\ ~s.crashed =>
       /\ taken[p] + n = Len(written[p])
       /\ child[p] # "alive" \/ Contains(written[p], "complete")
  /\ \A v \in Range(s.told) : Settled(p, v)

\* A critical result that has been read is a failure.
LEMMA CriticalIsFailed ==
  ASSUME Typed, NEW p \in Processes, NEW n \in Nat, n <= Len(written[p]), NEW s,
         ReadUpTo(s, p, n), s.critical
  PROVE  Failed(p)
<1>1. PICK i \in 1 .. n : ~Passes(written[p][i])
  BY DEF ReadUpTo, Prefix
<1>2. i \in DOMAIN written[p]
  BY DEF Typed
<1> QED
  BY <1>1, <1>2 DEF Failed

\* The end of the stream without one is a success.
LEMMA EndIsSettled ==
  ASSUME Typed, NEW p \in Processes, NEW n \in Nat, NEW s \in Pipelines,
         ReadUpTo(s, p, n), s.stream = "closed", n = Len(written[p])
  PROVE  Settled(p, ~s.critical) /\ Contains(written[p], "complete")
<1>1. PICK i \in 1 .. n : written[p][i] = "complete"
  BY DEF ReadUpTo, Prefix
<1>2. Contains(written[p], "complete")
  BY <1>1 DEF Contains
<1>3. CASE s.critical
  <2>1. Failed(p)
    BY <1>3, CriticalIsFailed
  <2> QED
    BY <1>2, <1>3, <2>1 DEF Settled
<1>4. CASE ~s.critical
  <2>1. \A i2 \in 1 .. n : Passes(written[p][i2])
    BY <1>4 DEF ReadUpTo, Prefix
  <2>2. DOMAIN written[p] = 1 .. n
    BY DEF Typed
  <2> QED
    BY <1>2, <1>4, <2>1, <2>2 DEF Settled, Succeeded
<1> QED
  BY <1>2, <1>3, <1>4

\* Before the run is completed because of a crash, or of the end of the pipe.
LEMMA TakeSettles ==
  ASSUME Typed, NEW p \in Processes, PipeKnown(p), NEW n \in Nat,
         taken[p] + n <= Len(written[p])
  PROVE  Reads(p, Take(pipeline[p], Unread(p, n)), n)
<1> DEFINE s == Take(pipeline[p], Unread(p, n))
           end == "complete" \in Unread(p, n)
<1>1. /\ s \in Pipelines /\ ReadUpTo(s, p, taken[p] + n)
      /\ s.error = pipeline[p].error /\ s.ended = pipeline[p].ended
      /\ s.completed = (pipeline[p].completed \/ end)
      /\ s.told = IF end THEN <<~s.critical>> ELSE <<>>
      /\ s.stream = "closed" => s.completed
      /\ end => taken[p] + n = Len(written[p]) /\ s.stream = "closed"
  BY TakeReads
<1> HIDE DEF s
<1>2. taken[p] \in Nat /\ Len(written[p]) \in Nat /\ taken[p] + n \in Nat
  BY DEF Typed
<1>3. end => Settled(p, ~s.critical) /\ Contains(written[p], "complete")
  BY <1>1, <1>2, EndIsSettled
<1>4. \A v \in Range(s.told) : Settled(p, v)
  BY <1>1, <1>3 DEF Range
<1>5. pipeline[p].error \/ pipeline[p].ended =>
        child[p] = "dead" /\ taken[p] + n = Len(written[p])
  BY <1>2 DEF PipeKnown
<1>6. s.completed <=> pipeline[p].completed \/ s.told # <<>>
  <2>1. pipeline[p].completed \in BOOLEAN
    BY DEF Typed, Pipelines
  <2>2. s.told # <<>> <=> end
    BY <1>1
  <2> QED
    BY <1>1, <2>1, <2>2
<1> QED
  BY <1>1, <1>3, <1>4, <1>5, <1>6 DEF Reads, s

\* read_channel() completes the run that has crashed.
LEMMA CanceledSettles ==
  ASSUME Typed, NEW p \in Processes, NEW n \in Nat, taken[p] + n <= Len(written[p]),
         NEW s, Reads(p, s, n)
  PROVE  Reads(p, Canceled(s), n)
<1>1. CASE ~s.crashed
  BY <1>1 DEF Canceled
<1>2. CASE s.crashed
  <2> DEFINE t == CompleteRun(s, TRUE)
  <2>1. Canceled(s) = t
    BY <1>2 DEF Canceled
  <2>2. /\ t \in Pipelines /\ t.completed = TRUE
        /\ t.told = Append(s.told, TRUE /\ ~s.critical)
        /\ t.stream = s.stream /\ t.critical = s.critical /\ t.crashed = s.crashed
        /\ t.error = s.error /\ t.ended = s.ended
    BY CompleteRunTells DEF Reads
  <2>3. s.critical = TRUE
    BY <1>2 DEF Reads, ReadUpTo, Passes, Pipelines
  <2>4. Settled(p, FALSE)
    <3>1. taken[p] + n \in Nat
      BY DEF Typed
    <3> QED
      BY <2>3, <3>1, CriticalIsFailed DEF Reads, Settled
  <2>5. s.told \in Seq(BOOLEAN)
    BY DEF Reads, Pipelines
  <2> HIDE DEF t
  <2>6. t.told = Append(s.told, FALSE)
    BY <2>2, <2>3
  <2>7. t.told # <<>> /\ \A v \in Range(t.told) : v \in Range(s.told) \/ v = FALSE
    BY <2>5, <2>6, FailureAppended
  <2>8. \A v \in Range(t.told) : Settled(p, v)
    BY <2>4, <2>7 DEF Reads
  <2>9. ReadUpTo(t, p, taken[p] + n)
    BY <2>2 DEF Reads, ReadUpTo
  <2>10. Reads(p, t, n)
    BY <1>2, <2>2, <2>7, <2>8, <2>9 DEF Reads
  <2> QED
    BY <2>1, <2>10
<1> QED
  BY <1>1, <1>2

\* cut_stream_reader_end_read() of a child that is dead and has been read.
LEMMA EndReadSettles ==
  ASSUME Typed, NEW p \in Processes, NEW n \in Nat, taken[p] + n = Len(written[p]),
         child[p] = "dead", NEW s, Reads(p, s, n)
  PROVE  Reads(p, EndRead(s), n) /\ EndRead(s).completed
<1>1. CASE s.stream = "closed"
  <2> DEFINE t == [s EXCEPT !.ended = TRUE]
  <2>1. EndRead(s) = t
    BY <1>1 DEF EndRead
  <2>2. /\ t \in Pipelines
        /\ t.stream = s.stream /\ t.critical = s.critical /\ t.crashed = s.crashed
        /\ t.told = s.told /\ t.completed = s.completed
    BY DEF Reads, Pipelines
  <2> HIDE DEF t
  <2>3. ReadUpTo(t, p, taken[p] + n)
    BY <2>2 DEF Reads, ReadUpTo
  <2>4. Reads(p, t, n)
    BY <1>1, <2>2, <2>3 DEF Reads
  <2> QED
    BY <1>1, <2>1, <2>2, <2>4 DEF Reads
<1>2. CASE s.stream # "closed"
  <2> DEFINE e == [s EXCEPT !.error = TRUE]
             t == CompleteRun(e, FALSE)
  <2>1. /\ e \in Pipelines
        /\ e.stream = s.stream /\ e.critical = s.critical /\ e.crashed = s.crashed
        /\ e.told = s.told
    BY DEF Reads, Pipelines
  <2>2. EndRead(s) = t
    BY <1>2 DEF EndRead
  <2> HIDE DEF e
  <2>3. /\ t \in Pipelines /\ t.completed = TRUE
        /\ t.told = Append(e.told, FALSE /\ ~e.critical)
        /\ t.stream = e.stream /\ t.critical = e.critical /\ t.crashed = e.crashed
    BY <2>1, CompleteRunTells
  <2> HIDE DEF t
  <2>4. s.told \in Seq(BOOLEAN)
    BY DEF Reads, Pipelines
  <2>5. t.told = Append(s.told, FALSE)
    BY <2>1, <2>3
  <2>6. t.told # <<>> /\ \A v \in Range(t.told) : v \in Range(s.told) \/ v = FALSE
    BY <2>4, <2>5, FailureAppended
  <2>7. Settled(p, FALSE)
    <3>1. "complete" \notin Prefix(p, Len(written[p]))
      BY <1>2 DEF Reads, ReadUpTo
    <3>2. ~Contains(written[p], "complete")
      BY <3>1 DEF Prefix, Contains
    <3> QED
      BY <3>2 DEF Settled, Failed
  <2>8. \A v \in Range(t.told) : Settled(p, v)
    BY <2>6, <2>7 DEF Reads
  <2>9. ReadUpTo(t, p, taken[p] + n)
    BY <2>1, <2>3 DEF Reads, ReadUpTo
  <2>10. Reads(p, t, n)
    BY <2>3, <2>6, <2>8, <2>9 DEF Reads
  <2> QED
    BY <2>2, <2>3, <2>10
<1> QED
  BY <1>1, <1>2

-----------------------------------------------------------------------------
\* The handlers of complete-run.

\* What they set has its type.
LEMMA DeliverTyped ==
  ASSUME Typed, NEW p \in Processes, NEW s \in Pipelines, NEW pr \in Processing,
         NEW c \in CallStates, Deliver(p, s, pr, c)
  PROVE  /\ pipeline' \in [Processes -> Pipelines]
         /\ process' \in [Processes -> Processing]
         /\ group' \in Groups /\ call' \in CallStates
<1>1. s.told \in Seq(BOOLEAN) /\ [s EXCEPT !.told = <<>>] \in Pipelines
  <2> DEFINE e == <<>>
  <2>1. e \in Seq(BOOLEAN)
    OBVIOUS
  <2> HIDE DEF e
  <2>2. [s EXCEPT !.told = e] \in Pipelines
    BY <2>1 DEF Pipelines
  <2> QED
    BY <2>2 DEF Pipelines, e
<1>2. s.told # <<>> => Head(s.told) \in BOOLEAN /\ Last(s.told) \in BOOLEAN
  BY <1>1 DEF Last
<1>3. pipeline' = [pipeline EXCEPT ![p] = [s EXCEPT !.told = <<>>]]
  BY DEF Deliver
<1>4. process' = [process EXCEPT ![p] =
                    IF s.told # <<>> /\ pr.connected
                    THEN [running |-> FALSE, isRan |-> TRUE,
                          success |-> Head(s.told), connected |-> FALSE]
                    ELSE pr]
  BY DEF Deliver
<1>5. group' = IF s.told # <<>> /\ p \in group.counted
               THEN [group EXCEPT !.uncompleted = @ - 1,
                       !.counted = group.counted \ {p},
                       !.allSuccess = group.allSuccess /\ Head(s.told)]
               ELSE group
  BY DEF Deliver, StillCounted, AllSuccess
<1>6. \/ call' = c
      \/ /\ s.told # <<>> /\ c.started /\ p = Head(c.todo)
         /\ call' = [c EXCEPT !.received = <<Last(s.told)>>]
  BY DEF Deliver
<1>7. group' \in Groups
  <2> DEFINE a == group.allSuccess /\ Head(s.told)
             n == group.uncompleted - 1
             r == group.counted \ {p}
  <2>1. group \in Groups /\ n \in Int /\ r \in SUBSET Processes
          /\ group.allSuccess \in BOOLEAN
    BY DEF Typed, Groups
  <2>2. CASE s.told # <<>> /\ p \in group.counted
    <3>1. group' = [group EXCEPT !.uncompleted = n, !.counted = r, !.allSuccess = a]
      BY <1>5, <2>2
    <3>2. a \in BOOLEAN
      BY <1>2, <2>1, <2>2
    <3> HIDE DEF a, r, n
    <3> QED
      BY <2>1, <3>1, <3>2 DEF Groups
  <2> QED
    BY <1>5, <2>1, <2>2
<1>8. call' \in CallStates
  <2> DEFINE r == <<Last(s.told)>>
  <2>1. CASE s.told # <<>> /\ call' = [c EXCEPT !.received = r]
    <3>1. r \in Seq(BOOLEAN)
      BY <1>2, <2>1
    <3> HIDE DEF r
    <3> QED
      BY <2>1, <3>1 DEF CallStates
  <2> QED
    BY <1>6, <2>1
<1> QED
  BY <1>1, <1>2, <1>3, <1>4, <1>7, <1>8 DEF Processing, Typed

\* A settled verdict stays settled: the child dies, or writes on.
LEMMA SettledIsKept ==
  ASSUME Typed, NEW p \in Processes, NEW v, Settled(p, v),
         \/ written'[p] = written[p] /\ (child'[p] = child[p] \/ child'[p] # "alive")
         \/ /\ child[p] = "alive" /\ ~Contains(written[p], "complete")
            /\ \E m \in Messages : written'[p] = Append(written[p], m)
  PROVE  Settled(p, v)'
<1>1. CASE written'[p] = written[p] /\ (child'[p] = child[p] \/ child'[p] # "alive")
  BY <1>1 DEF Settled, Succeeded, Failed
<1>2. CASE /\ child[p] = "alive" /\ ~Contains(written[p], "complete")
           /\ \E m \in Messages : written'[p] = Append(written[p], m)
  <2>1. PICK m \in Messages : written'[p] = Append(written[p], m)
    BY <1>2
  <2>2. v = FALSE
    BY <1>2 DEF Settled, Succeeded
  <2>3. PICK i \in DOMAIN written[p] : ~Passes(written[p][i])
    BY <1>2, <2>2 DEF Settled, Failed
  <2>4. i \in DOMAIN written'[p] /\ written'[p][i] = written[p][i]
    BY <2>1, <2>3 DEF Typed
  <2> QED
    BY <2>2, <2>3, <2>4 DEF Settled, Failed, Passes
<1> QED
  BY <1>1, <1>2

\* The verdicts after a delivery: what is told is known, and what was known is.
LEMMA DeliveredVerdicts ==
  ASSUME Typed, CallKnown, ProcessVerdicts, GroupVerdicts,
         NEW p \in Processes, NEW s \in Pipelines, NEW pr \in Processing,
         NEW c \in CallStates, Deliver(p, s, pr, c),
         \A q \in Processes : \A v : Known(q, v) => Known(q, v)',
         \A v \in Range(s.told) : Known(p, v)',
         pr.isRan => process[p].isRan /\ pr.success = process[p].success,
         c.op = call.op, c.op = "group-run" => c.todo = call.todo,
         c.received = call.received, c.received # <<>> => c.todo = call.todo,
         pipeline[p].completed \/ s.told # <<>> => s.completed
  PROVE  ProcessVerdicts' /\ GroupVerdicts'
<1>1. s.told \in Seq(BOOLEAN)
  BY DEF Pipelines
<1>2. s.told # <<>> => /\ Known(p, Head(s.told))' /\ Known(p, Last(s.told))'
                       /\ Head(s.told) \in BOOLEAN
  BY <1>1, HeadAndTail
<1>p. pipeline' = [pipeline EXCEPT ![p] = [s EXCEPT !.told = <<>>]]
  BY DEF Deliver
<1>q. process' = [process EXCEPT ![p] =
                    IF s.told # <<>> /\ pr.connected
                    THEN [running |-> FALSE, isRan |-> TRUE,
                          success |-> Head(s.told), connected |-> FALSE]
                    ELSE pr]
  BY DEF Deliver
<1>g. group' = IF s.told # <<>> /\ p \in group.counted
               THEN [group EXCEPT !.uncompleted = @ - 1,
                       !.counted = group.counted \ {p},
                       !.allSuccess = group.allSuccess /\ Head(s.told)]
               ELSE group
  BY DEF Deliver, StillCounted, AllSuccess
<1>c. \/ call' = c
      \/ /\ s.told # <<>> /\ c.started /\ p = Head(c.todo)
         /\ call' = [c EXCEPT !.received = <<Last(s.told)>>]
  BY DEF Deliver
<1>a. \A q \in Processes \ {p} : pipeline'[q] = pipeline[q] /\ process'[q] = process[q]
  BY <1>p, <1>q DEF Typed
<1>b. pipeline'[p].completed = s.completed
  BY <1>p DEF Typed, Pipelines
<1>3. process'[p] = IF s.told # <<>> /\ pr.connected
                    THEN [running |-> FALSE, isRan |-> TRUE,
                          success |-> Head(s.told), connected |-> FALSE]
                    ELSE pr
  BY <1>q DEF Typed
<1>4. /\ group'.members = group.members
      /\ s.told # <<>> /\ p \in group.counted =>
           /\ group'.uncompleted = group.uncompleted - 1
           /\ group'.counted = group.counted \ {p}
           /\ group'.allSuccess = (group.allSuccess /\ Head(s.told))
      /\ ~(s.told # <<>> /\ p \in group.counted) => group' = group
  BY <1>g DEF Typed, Groups
<1>5. /\ call'.op = c.op /\ call'.todo = c.todo
      /\ \/ call'.received = c.received
         \/ /\ s.told # <<>> /\ p = Head(c.todo)
            /\ call'.received = <<Last(s.told)>>
  BY <1>c DEF CallStates
<1>6. \A q \in Processes : process'[q].isRan => Settled(q, process[q].success)'
  <2> SUFFICES ASSUME NEW q \in Processes, process'[q].isRan
               PROVE  Settled(q, process[q].success)'
    OBVIOUS
  <2>1. CASE process[q].isRan /\ process'[q].success = process[q].success
    <3>1. Known(q, process[q].success)
      BY <2>1 DEF Known, Ran, ProcessVerdicts
    <3>2. Settled(q, process'[q].success)
      BY <2>1 DEF ProcessVerdicts
    <3>3. Known(q, process'[q].success)
      BY <3>1, <2>1
    <3> DEFINE v == process'[q].success
    <3>4. \A w : Known(q, w) => Known(q, w)'
      OBVIOUS
    <3>5. ASSUME NEW CONSTANT w, Known(q, w)', w = process'[q].success
          PROVE  Settled(q, process[q].success)'
      BY <3>5 DEF Known, Settled
    <3> QED
      BY <3>3, <3>4, <3>5
  <2>2. CASE q = p /\ s.told # <<>> /\ process'[p].success = Head(s.told)
    BY <1>2, <2>2 DEF Known, Settled
  <2> QED
    BY <1>a, <1>3, <2>1, <2>2
<1>7. call'.received # <<>> => /\ Settled(Head(call.todo), Head(call.received))'
                               /\ pipeline'[Head(call'.todo)].completed
  <2>1. CASE s.told # <<>> /\ p = Head(c.todo) /\ call'.received = <<Last(s.told)>>
    <3>1. Head(call'.todo) = p /\ Head(call'.received) = Last(s.told)
      BY <1>5, <2>1
    <3> QED
      BY <1>2, <1>b, <2>1, <3>1 DEF Known, Settled
  <2>2. CASE call'.received = call.received /\ call.received # <<>>
    <3>1. call.started /\ call.todo # <<>> /\ call'.todo = call.todo
      BY <1>5, <2>2 DEF CallKnown
    <3>2. Head(call.todo) \in Processes
      BY <3>1, HeadAndTail DEF Typed, CallStates
    <3>3. Known(Head(call.todo), Head(call.received))
      BY <2>2, <3>1 DEF CallKnown, ProcessVerdicts, Known
    <3>4. Known(Head(call.todo), Head(call.received))'
      BY <2>2, <3>1, <3>2, <3>3
    <3> QED
      BY <1>a, <1>b, <2>2, <3>1, <3>2, <3>4 DEF ProcessVerdicts, Known
  <2> QED
    BY <1>5, <2>1, <2>2
<1>8. GroupVerdicts'
  <2>1. /\ ~group.allSuccess => \E q \in Range(group.members) : Known(q, FALSE)
        /\ group.counted \subseteq Range(group.members)
        /\ IsFiniteSet(group.counted) /\ group.uncompleted = Cardinality(group.counted)
    BY DEF GroupVerdicts
  <2>2. \A q \in Range(group.members) : q \in Processes
    BY DEF Typed, Groups, Range
  <2>3. group'.counted \subseteq group.counted
    BY <1>4
  <2>4. group'.counted \subseteq Range(group'.members)
    BY <1>4, <2>1, <2>3
  <2>5. IsFiniteSet(group'.counted) /\ group'.uncompleted = Cardinality(group'.counted)
    <3>1. CASE s.told # <<>> /\ p \in group.counted
      <4>1. /\ IsFiniteSet(group.counted \ {p})
            /\ Cardinality(group.counted \ {p}) = Cardinality(group.counted) - 1
        BY <2>1, <3>1, FS_RemoveElement
      <4> QED
        BY <1>4, <2>1, <3>1, <4>1
    <3>2. CASE ~(s.told # <<>> /\ p \in group.counted)
      BY <1>4, <2>1, <3>2
    <3> QED
      BY <3>1, <3>2
  <2>6. ASSUME ~group'.allSuccess
        PROVE  \E q \in Range(group'.members) : Known(q, FALSE)'
    <3>1. CASE ~group.allSuccess
      BY <1>4, <2>1, <2>2, <3>1
    <3>2. CASE s.told # <<>> /\ p \in group.counted /\ group.allSuccess
      <4>1. Head(s.told) = FALSE
        BY <1>2, <1>4, <2>6, <3>2
      <4>2. Known(p, Head(s.told))'
        BY <1>2, <3>2
      <4>3. Known(p, FALSE)'
        BY <4>1, <4>2 DEF Known, Settled
      <4> QED
        BY <1>4, <2>1, <3>2, <4>3
    <3> QED
      BY <1>4, <2>6, <3>1, <3>2
  <2>7. ASSUME group'.allSuccess, NEW q \in Range(group'.members)
        PROVE  /\ q \in group'.counted \/ Known(q, TRUE)'
               /\ call'.op = "group-run" => q \in Range(call'.todo) \/ Known(q, TRUE)'
    <3>1. group.allSuccess /\ q \in Range(group.members) /\ q \in Processes
      BY <1>4, <2>2, <2>7
    <3>2. Known(q, TRUE) => Known(q, TRUE)'
      BY <3>1
    <3>3. /\ q \in group.counted \/ Known(q, TRUE)
          /\ call.op = "group-run" => q \in Range(call.todo) \/ Known(q, TRUE)
      BY <3>1 DEF GroupVerdicts
    <3>4. q \in group.counted => q \in group'.counted \/ Known(q, TRUE)'
      <4>1. CASE s.told # <<>> /\ q = p /\ p \in group.counted
        <5>1. Head(s.told) = TRUE
          BY <1>2, <1>4, <2>7, <4>1
        <5>2. Known(p, Head(s.told))'
          BY <1>2, <4>1
        <5> QED
          BY <4>1, <5>1, <5>2 DEF Known, Settled
      <4>2. CASE ~(s.told # <<>> /\ q = p /\ p \in group.counted)
        BY <1>4, <4>2
      <4> QED
        BY <4>1, <4>2
    <3>5. call'.op = "group-run" => q \in Range(call'.todo) \/ Known(q, TRUE)'
      BY <1>5, <3>2, <3>3
    <3> QED
      BY <3>2, <3>3, <3>4, <3>5
  <2> QED
    BY <2>4, <2>5, <2>6, <2>7 DEF GroupVerdicts
<1> QED
  BY <1>6, <1>7, <1>8 DEF ProcessVerdicts

-----------------------------------------------------------------------------
\* A read in the main loop.

\* Forward counts the results that reach the test's run context.
LEMMA ForwardCounts ==
  ASSUME Typed, NEW p \in Processes, PipeKnown(p), ForwardKnown(p), NEW n \in Nat,
         taken[p] + n <= Len(written[p]), NEW s, Reads(p, s, n), Forward(p, n)
  PROVE  /\ taken' \in [Processes -> Nat] /\ forwarded' \in [Processes -> Nat]
         /\ taken'[p] = taken[p] + n
         /\ \A q \in Processes \ {p} : taken'[q] = taken[q] /\ forwarded'[q] = forwarded[q]
         /\ ~s.completed => forwarded'[p] = taken'[p]
         /\ s.completed /\ ~s.crashed =>
              /\ forwarded'[p] = Count(p)
              /\ child[p] # "alive" \/ Contains(written[p], "complete")
         /\ forwarded'[p] <= taken'[p]
<1> DEFINE end == "complete" \in Unread(p, n)
<1>1. /\ taken[p] \in Nat /\ forwarded[p] \in Nat /\ Len(written[p]) \in Nat
      /\ pipeline[p] \in Pipelines
  BY DEF Typed
<1>2. /\ ~end \/ n # 0
      /\ end => n >= 1
  BY <1>1 DEF Unread
<1>3. taken' = [taken EXCEPT ![p] = @ + n]
  BY DEF Forward
<1>4. forwarded' = [forwarded EXCEPT ![p] =
                      IF pipeline[p].completed THEN @
                      ELSE IF end THEN taken[p] + n - 1 ELSE taken[p] + n]
  BY DEF Forward
<1>5. end \/ ~end
  OBVIOUS
<1> HIDE DEF end
<1>6. taken' \in [Processes -> Nat] /\ taken'[p] = taken[p] + n
      /\ \A q \in Processes \ {p} : taken'[q] = taken[q]
  BY <1>1, <1>3 DEF Typed
<1>7. forwarded'[p] = IF pipeline[p].completed THEN forwarded[p]
                      ELSE IF end THEN taken[p] + n - 1 ELSE taken[p] + n
  BY <1>4 DEF Typed
<1>8. forwarded'[p] \in Nat
  BY <1>1, <1>2, <1>7
<1>9. /\ forwarded' \in [Processes -> Nat]
      /\ \A q \in Processes \ {p} : forwarded'[q] = forwarded[q]
  BY <1>4, <1>7, <1>8 DEF Typed
<1>10. ~s.completed => forwarded'[p] = taken'[p]
  BY <1>6, <1>7 DEF Reads, end
<1>11. forwarded'[p] <= taken'[p]
  BY <1>1, <1>6, <1>7 DEF ForwardKnown
<1>12. ASSUME s.completed, ~s.crashed
       PROVE  /\ forwarded'[p] = Count(p)
              /\ child[p] # "alive" \/ Contains(written[p], "complete")
  <2>1. CASE pipeline[p].completed
    <3>1. Prefix(p, taken[p]) \subseteq Prefix(p, taken[p] + n)
      BY <1>1 DEF Prefix
    <3>2. ~pipeline[p].crashed
      BY <1>12, <3>1 DEF Reads, ReadUpTo, PipeKnown
    <3> QED
      BY <1>7, <2>1, <3>2 DEF ForwardKnown
  <2>2. CASE ~pipeline[p].completed
    <3>1. taken[p] + n = Len(written[p])
      BY <1>12, <2>2 DEF Reads
    <3>2. "complete" \notin Prefix(p, taken[p])
      BY <2>2 DEF PipeKnown, ReadUpTo
    <3>3. Prefix(p, taken[p] + n) = Prefix(p, taken[p]) \cup Unread(p, n)
      BY <1>1 DEF Prefix, Unread
    <3>4. Contains(written[p], "complete") <=> "complete" \in Prefix(p, taken[p] + n)
      BY <3>1 DEF Contains, Prefix
    <3>5. Contains(written[p], "complete") <=> end
      BY <3>2, <3>3, <3>4 DEF end
    <3>6. child[p] # "alive" \/ Contains(written[p], "complete")
      BY <1>12, <2>2 DEF Reads
    <3>7. forwarded'[p] = Count(p)
      <4>1. CASE end
        <5>1. Count(p) = Len(written[p]) - 1
          BY <3>5, <4>1 DEF Count
        <5>2. forwarded'[p] = taken[p] + n - 1
          BY <1>7, <2>2, <4>1
        <5> QED
          BY <1>1, <3>1, <5>1, <5>2
      <4>2. CASE ~end
        BY <1>1, <1>7, <2>2, <3>1, <3>5, <4>2 DEF Count
      <4> QED
        BY <4>1, <4>2
    <3> QED
      BY <3>6, <3>7
  <2> QED
    BY <2>1, <2>2
<1> QED
  BY <1>6, <1>9, <1>10, <1>11, <1>12

\* A read keeps what is known: of its child, of the call and of the verdicts.
LEMMA ReadStep ==
  ASSUME Inv, NEW p \in Processes, child[p] # "none", NEW n \in Nat,
         taken[p] + n <= Len(written[p]), NEW s, Reads(p, s, n),
         Deliver(p, s, process[p], call), Forward(p, n),
         UNCHANGED <<calls, child, written>>,
         sources' \in [Processes -> [stream : BOOLEAN, watch : BOOLEAN]],
         \A q \in Processes \ {p} : sources'[q] = sources[q],
         \/ sources'[p].watch = sources[p].watch
         \/ child[p] = "dead" /\ taken[p] + n = Len(written[p]),
         reading' \in Processes \cup {NoProcess}
  PROVE  Inv'
<1>1. /\ Typed /\ CallKnown /\ ProcessVerdicts /\ GroupVerdicts
      /\ \A q \in Processes : ChildKnown(q) /\ PipeKnown(q) /\ ForwardKnown(q)
      /\ s \in Pipelines
  BY DEF Inv, PipesKnown, Reads
<1>2. process[p] \in Processing /\ call \in CallStates
  BY <1>1 DEF Typed
<1>3. /\ pipeline' \in [Processes -> Pipelines]
      /\ process' \in [Processes -> Processing]
      /\ group' \in Groups /\ call' \in CallStates
  BY <1>1, <1>2, DeliverTyped
<1>4. /\ taken' \in [Processes -> Nat] /\ forwarded' \in [Processes -> Nat]
      /\ taken'[p] = taken[p] + n
      /\ \A q \in Processes \ {p} : taken'[q] = taken[q] /\ forwarded'[q] = forwarded[q]
      /\ ~s.completed => forwarded'[p] = taken'[p]
      /\ s.completed /\ ~s.crashed =>
           /\ forwarded'[p] = Count(p)
           /\ child[p] # "alive" \/ Contains(written[p], "complete")
      /\ forwarded'[p] <= taken'[p]
  BY <1>1, ForwardCounts
<1>5. Typed'
  BY <1>1, <1>3, <1>4 DEF Typed
<1>6. /\ pipeline' = [pipeline EXCEPT ![p] = [s EXCEPT !.told = <<>>]]
      /\ process' = [process EXCEPT ![p] =
                       IF s.told # <<>> /\ process[p].connected
                       THEN [running |-> FALSE, isRan |-> TRUE,
                             success |-> Head(s.told), connected |-> FALSE]
                       ELSE process[p]]
  BY DEF Deliver
<1>7. \/ call' = call
      \/ /\ s.told # <<>> /\ call.started /\ p = Head(call.todo)
         /\ call' = [call EXCEPT !.received = <<Last(s.told)>>]
  BY DEF Deliver
<1>8. /\ \A q \in Processes \ {p} : pipeline'[q] = pipeline[q] /\ process'[q] = process[q]
      /\ \/ process'[p] = process[p]
         \/ /\ s.told # <<>> /\ process'[p].isRan = TRUE /\ process'[p].running = FALSE
  BY <1>1, <1>6 DEF Typed
<1>9. LET t == pipeline'[p]
      IN /\ t.stream = s.stream /\ t.critical = s.critical /\ t.crashed = s.crashed
         /\ t.completed = s.completed /\ t.error = s.error /\ t.ended = s.ended
         /\ t.told = <<>>
  BY <1>1, <1>6 DEF Typed, Pipelines
<1>10. \A q \in Processes : (process[q].isRan => process'[q].isRan) /\ (Ran(q) => Ran(q)')
                           /\ (process'[q].running => process[q].running)
  BY <1>8 DEF Ran
<1>11. Ran(p)
  BY <1>1 DEF ChildKnown
<1>12. \A q \in Processes : \A v : Known(q, v) => Known(q, v)'
  <2> SUFFICES ASSUME NEW q \in Processes, NEW v, Known(q, v) PROVE Known(q, v)'
    OBVIOUS
  <2>1. Settled(q, v)'
    BY <1>1, SettledIsKept DEF Known
  <2> QED
    BY <1>10, <2>1 DEF Known
<1>13. \A v \in Range(s.told) : Known(p, v)'
  <2> SUFFICES ASSUME NEW v \in Range(s.told) PROVE Known(p, v)'
    OBVIOUS
  <2>1. Known(p, v)
    BY <1>11 DEF Known, Reads
  <2> QED
    BY <1>12, <2>1
<1>14. pipeline[p].completed \/ s.told # <<>> => s.completed
  BY DEF Reads
<1>15. ProcessVerdicts' /\ GroupVerdicts'
  BY <1>1, <1>2, <1>12, <1>13, <1>14, DeliveredVerdicts
<1>16. CallKnown'
  <2>1. /\ call'.op = call.op /\ call'.todo = call.todo /\ call'.started = call.started
        /\ call'.received # <<>> => call.started
    BY <1>1, <1>2, <1>7 DEF CallStates, CallKnown
  <2>2. call.started => Ran(Head(call.todo))'
    <3>1. call.started => Head(call.todo) \in Processes
      BY <1>1, HeadAndTail DEF CallKnown, Typed, CallStates
    <3> QED
      BY <1>1, <1>10, <2>1, <3>1 DEF CallKnown, Ran
  <2>3. group'.members = group.members
    BY <1>1 DEF Deliver, Typed, Groups
  <2>4. \A q \in Range(call.todo) : q \in Processes
    BY <1>2 DEF CallStates, Range
  <2> QED
    BY <1>1, <1>10, <2>1, <2>2, <2>3, <2>4 DEF CallKnown
<1>17. \A q \in Processes \ {p} : ChildKnown(q)' /\ PipeKnown(q)' /\ ForwardKnown(q)'
  <2> SUFFICES ASSUME NEW q \in Processes \ {p}
               PROVE  ChildKnown(q)' /\ PipeKnown(q)' /\ ForwardKnown(q)'
    OBVIOUS
  <2>1. /\ pipeline'[q] = pipeline[q] /\ process'[q] = process[q]
        /\ taken'[q] = taken[q] /\ forwarded'[q] = forwarded[q] /\ sources'[q] = sources[q]
    BY <1>4, <1>8
  <2> QED
    BY <1>1, <2>1 DEF ChildKnown, PipeKnown, ForwardKnown, ReadUpTo, Prefix, Count, Ran,
                      NewPipeline
<1>18. ChildKnown(p)'
  <2>1. Ran(p)'
    BY <1>10, <1>11
  <2>2. taken[p] = Len(written[p]) => taken[p] + n = Len(written[p])
    BY <1>1 DEF Typed
  <2> QED
    BY <1>1, <1>4, <2>1, <2>2 DEF ChildKnown
<1>19. PipeKnown(p)'
  <2>1. ReadUpTo(pipeline[p], p, taken[p])'
    BY <1>4, <1>9 DEF Reads, ReadUpTo, Prefix, Passes
  <2> QED
    BY <1>1, <1>4, <1>9, <2>1 DEF Reads, PipeKnown
<1>20. ForwardKnown(p)'
  <2>1. process'[p].isRan => s.completed
    BY <1>1, <1>8, <1>14 DEF ForwardKnown
  <2>2. Count(p)' = Count(p)
    BY DEF Count
  <2> QED
    BY <1>4, <1>9, <2>1, <2>2 DEF ForwardKnown
<1> QED
  BY <1>5, <1>15, <1>16, <1>17, <1>18, <1>19, <1>20 DEF Inv, PipesKnown

-----------------------------------------------------------------------------
\* The steps.

\* A process is started by run_async() of its pipeline, or fails to be.
LEMMA StartStep ==
  ASSUME Inv, NEW p \in Processes, ~Ran(p), NEW pr \in Processing, pr.running, ~pr.isRan,
         NEW c \in CallStates, Start(p, pr, c),
         UNCHANGED <<calls, reading, written, taken, forwarded>>,
         c.op = call.op, c.op = "group-run" => c.todo = call.todo,
         c.received = call.received, c.received # <<>> => c.todo = call.todo
  PROVE  /\ Typed' /\ PipesKnown' /\ ProcessVerdicts' /\ GroupVerdicts'
         /\ \A q \in Processes \ {p} : process'[q] = process[q]
         /\ process'[p].running \/ process'[p].isRan
         /\ group'.members = group.members
         /\ call'.op = c.op /\ call'.todo = c.todo /\ call'.started = c.started
         /\ call'.received # c.received => c.started
<1>1. /\ Typed /\ CallKnown /\ ProcessVerdicts /\ GroupVerdicts
      /\ \A q \in Processes : ChildKnown(q) /\ PipeKnown(q) /\ ForwardKnown(q)
  BY DEF Inv, PipesKnown
<1>2. /\ child[p] = "none" /\ pipeline[p] = NewPipeline /\ written[p] = <<>>
      /\ ~sources[p].stream /\ ~sources[p].watch
  BY <1>1 DEF ChildKnown
<1>3. PICK s : /\ Deliver(p, s, pr, c)
               /\ \/ s = CompleteRun(pipeline[p], FALSE) /\ sources' = sources /\ child' = child
                  \/ /\ s = pipeline[p]
                     /\ sources' = [sources EXCEPT ![p] = [stream |-> TRUE, watch |-> TRUE]]
                     /\ child' = [child EXCEPT ![p] = "alive"]
  BY DEF Start
<1>4. NewPipeline \in Pipelines
  <2> DEFINE e == <<>>
  <2>1. e \in Seq(BOOLEAN)
    OBVIOUS
  <2>2. NewPipeline = [stream |-> "none", critical |-> FALSE, crashed |-> FALSE,
                       completed |-> FALSE, error |-> FALSE, ended |-> FALSE, told |-> e]
    BY DEF NewPipeline
  <2> HIDE DEF e
  <2> QED
    BY <2>1, <2>2 DEF Pipelines
<1>5. /\ s \in Pipelines /\ s.stream = "none" /\ ~s.critical /\ ~s.crashed /\ ~s.error
      /\ ~s.ended
      /\ \/ /\ s.completed /\ s.told # <<>> /\ \A v \in Range(s.told) : v = FALSE
            /\ sources' = sources /\ child' = child
         \/ /\ ~s.completed /\ s.told = <<>>
            /\ sources' = [sources EXCEPT ![p] = [stream |-> TRUE, watch |-> TRUE]]
            /\ child' = [child EXCEPT ![p] = "alive"]
  <2>1. CASE s = CompleteRun(pipeline[p], FALSE) /\ sources' = sources /\ child' = child
    <3>1. s = CompleteRun(NewPipeline, FALSE)
      BY <1>2, <2>1
    <3>2. /\ s \in Pipelines /\ s.completed = TRUE
          /\ s.told = Append(NewPipeline.told, FALSE /\ ~NewPipeline.critical)
          /\ s.stream = NewPipeline.stream /\ s.critical = NewPipeline.critical
          /\ s.crashed = NewPipeline.crashed
          /\ s.error = NewPipeline.error /\ s.ended = NewPipeline.ended
      BY <1>4, <3>1, CompleteRunTells
    <3>3. s.told = Append(NewPipeline.told, FALSE) /\ NewPipeline.told \in Seq(BOOLEAN)
          /\ Range(NewPipeline.told) = {}
      <4>1. ~NewPipeline.critical /\ NewPipeline.told = <<>>
        BY DEF NewPipeline
      <4>2. (FALSE /\ ~NewPipeline.critical) = FALSE
        BY <4>1
      <4>3. NewPipeline.told \in Seq(BOOLEAN)
        BY <1>4 DEF Pipelines
      <4>4. Range(NewPipeline.told) = {}
        BY <4>1 DEF Range
      <4>5. s.told = Append(NewPipeline.told, FALSE)
        BY <3>2, <4>2
      <4> QED
        BY <4>3, <4>4, <4>5
    <3>4. s.told # <<>> /\ \A v \in Range(s.told) : v = FALSE
      BY <3>3, FailureAppended
    <3> QED
      BY <2>1, <3>2, <3>4 DEF NewPipeline
  <2>2. CASE /\ s = pipeline[p]
             /\ sources' = [sources EXCEPT ![p] = [stream |-> TRUE, watch |-> TRUE]]
             /\ child' = [child EXCEPT ![p] = "alive"]
    <3>1. s = NewPipeline
      BY <1>2, <2>2
    <3>2. s \in Pipelines
      BY <1>4, <3>1
    <3>3. s.stream = "none" /\ ~s.critical /\ ~s.crashed /\ ~s.error /\ ~s.ended
          /\ ~s.completed /\ s.told = <<>>
      BY <3>1 DEF NewPipeline
    <3> QED
      BY <2>2, <3>2, <3>3
  <2> QED
    BY <1>3, <2>1, <2>2
<1>6. /\ pipeline' \in [Processes -> Pipelines]
      /\ process' \in [Processes -> Processing]
      /\ group' \in Groups /\ call' \in CallStates
  BY <1>1, <1>3, <1>5, DeliverTyped
<1>7. Typed'
  <2>1. /\ sources' \in [Processes -> [stream : BOOLEAN, watch : BOOLEAN]]
        /\ child' \in [Processes -> {"none", "alive", "dead"}]
    <3>1. CASE sources' = sources /\ child' = child
      BY <1>1, <3>1 DEF Typed
    <3>2. CASE /\ sources' = [sources EXCEPT ![p] = [stream |-> TRUE, watch |-> TRUE]]
               /\ child' = [child EXCEPT ![p] = "alive"]
      BY <1>1, <3>2 DEF Typed
    <3> QED
      BY <1>5, <3>1, <3>2
  <2> QED
    BY <1>1, <1>6, <2>1 DEF Typed
<1>8. /\ pipeline' = [pipeline EXCEPT ![p] = [s EXCEPT !.told = <<>>]]
      /\ process' = [process EXCEPT ![p] =
                       IF s.told # <<>> /\ pr.connected
                       THEN [running |-> FALSE, isRan |-> TRUE,
                             success |-> Head(s.told), connected |-> FALSE]
                       ELSE pr]
  BY <1>3 DEF Deliver
<1>9. /\ \A q \in Processes \ {p} : pipeline'[q] = pipeline[q] /\ process'[q] = process[q]
      /\ \/ process'[p] = pr
         \/ s.told # <<>> /\ process'[p].isRan = TRUE
  BY <1>1, <1>8 DEF Typed
<1>10. LET t == pipeline'[p]
       IN /\ t.stream = "none" /\ ~t.critical /\ ~t.crashed /\ ~t.error /\ ~t.ended
          /\ t.completed = s.completed /\ t.told = <<>>
  BY <1>1, <1>5, <1>8 DEF Typed, Pipelines
<1>11. Ran(p)' /\ (process'[p].isRan => s.completed)
  BY <1>5, <1>9 DEF Ran
<1>12. \A q \in Processes \ {p} : sources'[q] = sources[q] /\ child'[q] = child[q]
  BY <1>1, <1>5 DEF Typed
<1>13. \/ child'[p] = "none" /\ sources'[p] = sources[p] /\ s.completed
       \/ child'[p] = "alive" /\ sources'[p].watch /\ ~s.completed
  <2>1. CASE s.completed /\ sources' = sources /\ child' = child
    BY <1>2, <2>1
  <2>2. CASE /\ ~s.completed
             /\ sources' = [sources EXCEPT ![p] = [stream |-> TRUE, watch |-> TRUE]]
             /\ child' = [child EXCEPT ![p] = "alive"]
    BY <1>1, <2>2 DEF Typed
  <2> QED
    BY <1>5, <2>1, <2>2
<1>14. \A q \in Processes : \A v : Known(q, v) => Known(q, v)'
  <2> SUFFICES ASSUME NEW q \in Processes, NEW v, Known(q, v) PROVE Known(q, v)'
    OBVIOUS
  <2>1. q # p
    BY DEF Known
  <2>2. Settled(q, v)'
    BY <1>1, <1>12, <2>1, SettledIsKept DEF Known
  <2> QED
    BY <1>9, <2>1, <2>2 DEF Known, Ran
<1>15. \A v \in Range(s.told) : Known(p, v)'
  <2> SUFFICES ASSUME NEW v \in Range(s.told) PROVE Known(p, v)'
    OBVIOUS
  <2>1. s.told # <<>>
    BY DEF Range
  <2>2. child' = child /\ v = FALSE
    BY <1>5, <2>1
  <2>3. Settled(p, v)'
    BY <1>2, <2>2 DEF Settled, Failed, Contains
  <2> QED
    BY <1>11, <2>3 DEF Known
<1>16. pipeline[p].completed \/ s.told # <<>> => s.completed
  <2>1. ~pipeline[p].completed
    BY <1>2 DEF NewPipeline
  <2> QED
    BY <1>5, <2>1
<1>17. ProcessVerdicts' /\ GroupVerdicts'
  BY <1>1, <1>3, <1>5, <1>14, <1>15, <1>16, DeliveredVerdicts
<1>18. \A q \in Processes \ {p} : ChildKnown(q)' /\ PipeKnown(q)' /\ ForwardKnown(q)'
  <2> SUFFICES ASSUME NEW q \in Processes \ {p}
               PROVE  ChildKnown(q)' /\ PipeKnown(q)' /\ ForwardKnown(q)'
    OBVIOUS
  <2> QED
    BY <1>1, <1>9, <1>12 DEF ChildKnown, PipeKnown, ForwardKnown, ReadUpTo, Prefix, Count,
                             Ran, NewPipeline
<1>19. ChildKnown(p)'
  BY <1>2, <1>11, <1>13 DEF ChildKnown
<1>20. taken[p] = 0 /\ Len(written[p]) = 0 /\ forwarded[p] = 0
  BY <1>1, <1>2 DEF Typed, PipeKnown, ForwardKnown
<1>21. PipeKnown(p)'
  <2>1. Prefix(p, taken[p])' = {}
    BY <1>20 DEF Prefix
  <2> QED
    BY <1>10, <1>20, <2>1 DEF PipeKnown, ReadUpTo
<1>22. ForwardKnown(p)'
  <2>1. ~Contains(written'[p], "complete") /\ Count(p)' = 0
    BY <1>20 DEF Contains, Count
  <2> QED
    BY <1>10, <1>11, <1>13, <1>20, <2>1 DEF ForwardKnown
<1>23. group'.members = group.members
  BY <1>1, <1>3 DEF Deliver, Typed, Groups
<1>24. /\ call'.op = c.op /\ call'.todo = c.todo /\ call'.started = c.started
       /\ call'.received # c.received => c.started
  BY <1>3 DEF Deliver, CallStates
<1> QED
  BY <1>7, <1>9, <1>11, <1>17, <1>18, <1>19, <1>21, <1>22, <1>23, <1>24 DEF PipesKnown, Ran

\* A step that only the call and the group take part in.
LEMMA PipesUnchanged ==
  ASSUME PipesKnown, UNCHANGED <<process, pipeline, sources, child, written, taken, forwarded>>
  PROVE  /\ PipesKnown'
         /\ \A q \in Processes : \A v : Known(q, v) <=> Known(q, v)'
         /\ \A q \in Processes : \A v : Settled(q, v) <=> Settled(q, v)'
<1>1. PipesKnown'
  BY DEF PipesKnown, ChildKnown, PipeKnown, ForwardKnown, ReadUpTo, Prefix, Count, Ran,
         NewPipeline
<1> QED
  BY <1>1 DEF Known, Settled, Succeeded, Failed, Ran

\* A call of the test.
LEMMA CallStep ==
  ASSUME Inv, NEW c \in CallStates, Calls(c), UNCHANGED group,
         ~c.started, c.received = <<>>,
         c.op \in {"run", "group-run"} => \A p \in Range(c.todo) : ~process[p].running,
         c.op = "group-run" => c.todo = group.members
  PROVE  Inv'
<1>u. /\ call' = c /\ calls' = calls + 1 /\ calls < MaxCalls
      /\ UNCHANGED <<process, pipeline, sources, reading, child, written, taken, forwarded>>
  BY DEF Calls, childVars
<1>1. Typed'
  <2>1. calls' \in 0 .. MaxCalls
    BY <1>u, BoundsAssumption DEF Inv, Typed
  <2> QED
    BY <1>u, <2>1 DEF Inv, Typed
<1>2. PipesKnown' /\ \A q \in Processes : \A v : Known(q, v) <=> Known(q, v)'
  BY <1>u, PipesUnchanged DEF Inv
<1>3. \A q \in Processes : \A v : Settled(q, v) <=> Settled(q, v)'
  BY <1>u, PipesUnchanged DEF Inv
<1>4. call' = c /\ process' = process /\ group' = group /\ pipeline' = pipeline
  BY <1>u
<1>5. CallKnown'
  BY <1>4 DEF CallKnown
<1>6. ProcessVerdicts'
  BY <1>3, <1>4 DEF Inv, ProcessVerdicts
<1>7. \A q \in Range(group.members) : q \in Processes
  BY DEF Inv, Typed, Groups, Range
<1>8. GroupVerdicts'
  BY <1>2, <1>4, <1>7 DEF Inv, GroupVerdicts
<1> QED
  BY <1>1, <1>2, <1>5, <1>6, <1>8 DEF Inv

LEMMA IdleCall ==
  /\ <<>> \in Seq(Processes) /\ Idle \in CallStates
  /\ \A op \in {"none", "async", "run", "group-run", "wait", "group-wait"} :
       \A todo \in Seq(Processes) :
         /\ Call(op, todo) \in CallStates
         /\ Call(op, todo).op = op /\ Call(op, todo).todo = todo
         /\ ~Call(op, todo).started /\ Call(op, todo).received = <<>>
<1> DEFINE e == <<>>
<1>1. e \in Seq(Processes) /\ e \in Seq(BOOLEAN)
  OBVIOUS
<1>2. Idle = [op |-> "none", todo |-> e, started |-> FALSE, received |-> e]
  BY DEF Idle
<1> HIDE DEF e
<1>3. Idle \in CallStates
  BY <1>1, <1>2 DEF CallStates
<1>4. \A op, todo : Call(op, todo) = [op |-> op, todo |-> todo, started |-> FALSE,
                                      received |-> e]
  <2> TAKE op, todo
  <2>1. Call(op, todo) = [[Idle EXCEPT !.op = op] EXCEPT !.todo = todo]
    BY <1>2 DEF Call
  <2> QED
    BY <1>2, <2>1
<1>5. \A op \in {"none", "async", "run", "group-run", "wait", "group-wait"} :
       \A todo \in Seq(Processes) :
         Call(op, todo) \in CallStates
  BY <1>1, <1>4 DEF CallStates
<1>6. \A op, todo : /\ Call(op, todo).op = op /\ Call(op, todo).todo = todo
                    /\ ~Call(op, todo).started /\ Call(op, todo).received = e
  BY <1>4
<1> QED
  BY <1>1, <1>3, <1>5, <1>6 DEF e

LEMMA OneProcess ==
  ASSUME NEW p \in Processes
  PROVE  <<p>> \in Seq(Processes) /\ Range(<<p>>) = {p} /\ <<p>> # <<>> /\ Head(<<p>>) = p
BY DEF Range

\* A process is added to the group.
LEMMA AddStep ==
  ASSUME Inv, NEW p \in Processes, Add(p)
  PROVE  Inv'
<1> DEFINE m == <<p>> \o group.members
<1>1. /\ ~Contains(group.members, p) /\ Calls(Idle)
      /\ group' = [group EXCEPT !.members = m, !.counted = group.counted \cup {p},
                                !.uncompleted = @ + 1]
  BY DEF Add
<1>2. group \in Groups /\ group.members \in Seq(Processes)
  BY DEF Inv, Typed, Groups
<1>3. m \in Seq(Processes) /\ Range(m) = {p} \cup Range(group.members)
  <2>1. /\ m \in Seq(Processes) /\ Len(m) = 1 + Len(group.members)
        /\ Len(group.members) \in Nat
        /\ m[1] = p /\ \A i \in 1 .. Len(group.members) : m[1 + i] = group.members[i]
    BY <1>2
  <2>2. ASSUME NEW x \in Range(m) PROVE x = p \/ x \in Range(group.members)
    <3>1. PICK i \in 1 .. Len(m) : x = m[i]
      BY <2>1 DEF Range
    <3>2. i = 1 \/ (i - 1 \in 1 .. Len(group.members) /\ m[1 + (i - 1)] = m[i])
      BY <2>1, <3>1
    <3> QED
      BY <1>2, <2>1, <3>1, <3>2 DEF Range
  <2>3. ASSUME NEW x \in Range(group.members) PROVE x \in Range(m)
    <3>1. PICK i \in 1 .. Len(group.members) : x = group.members[i]
      BY <1>2 DEF Range
    <3>2. 1 + i \in DOMAIN m /\ m[1 + i] = x
      BY <2>1, <3>1
    <3> QED
      BY <3>2 DEF Range
  <2>4. p \in Range(m)
    <3>1. 1 \in DOMAIN m
      BY <2>1
    <3> QED
      BY <2>1, <3>1 DEF Range
  <2> QED
    BY <2>1, <2>2, <2>3, <2>4
<1> DEFINE k == group.counted \cup {p}
           n == group.uncompleted + 1
<1>k. k \in SUBSET Processes /\ n \in Int
  BY <1>2 DEF Groups
<1>l. group' = [group EXCEPT !.members = m, !.counted = k, !.uncompleted = n]
  BY <1>1
<1> HIDE DEF m, k, n
<1>4. /\ group' \in Groups /\ group'.members = m
      /\ group'.counted = group.counted \cup {p}
      /\ group'.uncompleted = group.uncompleted + 1 /\ group'.allSuccess = group.allSuccess
  BY <1>2, <1>3, <1>k, <1>l DEF Groups, k, n
<1>5. p \notin group.counted
  <2>1. p \notin Range(group.members)
    BY <1>1, <1>2 DEF Contains, Range
  <2> QED
    BY <2>1 DEF Inv, GroupVerdicts
<1>6. /\ IsFiniteSet(group.counted \cup {p})
      /\ Cardinality(group.counted \cup {p}) = Cardinality(group.counted) + 1
  BY <1>5, FS_AddElement DEF Inv, GroupVerdicts
<1>7. call' = Idle /\ calls' \in 0 .. MaxCalls
  <2>1. calls \in 0 .. MaxCalls /\ calls < MaxCalls /\ calls' = calls + 1 /\ call' = Idle
    BY <1>1 DEF Calls, Inv, Typed
  <2> QED
    BY <2>1, BoundsAssumption
<1>8. UNCHANGED <<process, pipeline, sources, reading, child, written, taken, forwarded>>
  BY <1>1 DEF Calls, childVars
<1>9. Typed'
  BY <1>4, <1>7, <1>8, IdleCall DEF Inv, Typed
<1>10. PipesKnown' /\ \A q \in Processes : \A v : Known(q, v) <=> Known(q, v)'
  BY <1>8, PipesUnchanged DEF Inv
<1>11. \A q \in Processes : \A v : Settled(q, v) <=> Settled(q, v)'
  BY <1>8, PipesUnchanged DEF Inv
<1>12. call'.op = "none" /\ ~call'.started /\ call'.received = <<>>
  BY <1>7 DEF Idle
<1>13. CallKnown'
  BY <1>12 DEF CallKnown
<1>14. ProcessVerdicts'
  BY <1>8, <1>11, <1>12 DEF Inv, ProcessVerdicts
<1>15. \A q \in Range(group.members) : q \in Processes
  BY <1>2 DEF Range
<1>16. GroupVerdicts'
  <2>1. ~group'.allSuccess => \E q \in Range(group'.members) : Known(q, FALSE)'
    BY <1>3, <1>4, <1>10, <1>15 DEF Inv, GroupVerdicts
  <2>2. \A q \in Range(group'.members) :
          group'.allSuccess => q \in group'.counted \/ Known(q, TRUE)'
    BY <1>3, <1>4, <1>10, <1>15 DEF Inv, GroupVerdicts
  <2>3. group'.counted \subseteq Range(group'.members)
    BY <1>3, <1>4 DEF Inv, GroupVerdicts
  <2>4. IsFiniteSet(group'.counted) /\ group'.uncompleted = Cardinality(group'.counted)
    BY <1>4, <1>6 DEF Inv, GroupVerdicts
  <2> QED
    BY <1>12, <2>1, <2>2, <2>3, <2>4 DEF GroupVerdicts
<1> QED
  BY <1>9, <1>10, <1>13, <1>14, <1>16 DEF Inv

LEMMA ClientStep ==
  ASSUME Inv, ClientCalls
  PROVE  Inv'
<1>0. group.members \in Seq(Processes)
  BY DEF Inv, Typed, Groups
<1>1. ASSUME NEW p \in Processes, Add(p) PROVE Inv'
  BY <1>1, AddStep
<1>2. ASSUME NEW p \in Processes, CallAsync(p) PROVE Inv'
  <2>1. Call("async", <<p>>).op = "async" /\ Call("async", <<p>>) \in CallStates
        /\ ~Call("async", <<p>>).started /\ Call("async", <<p>>).received = <<>>
    BY IdleCall, OneProcess
  <2> QED
    BY <1>2, <2>1, CallStep DEF CallAsync
<1>3. ASSUME NEW p \in Processes, CallWait(p) PROVE Inv'
  <2>1. Call("wait", <<p>>).op = "wait" /\ Call("wait", <<p>>) \in CallStates
        /\ ~Call("wait", <<p>>).started /\ Call("wait", <<p>>).received = <<>>
    BY IdleCall, OneProcess
  <2> QED
    BY <1>3, <2>1, CallStep DEF CallWait
<1>4. ASSUME NEW p \in Processes, CallRun(p) PROVE Inv'
  <2>1. Call("run", <<p>>).op = "run" /\ Call("run", <<p>>) \in CallStates
        /\ ~Call("run", <<p>>).started /\ Call("run", <<p>>).received = <<>>
        /\ Call("run", <<p>>).todo = <<p>>
    BY IdleCall, OneProcess
  <2>2. \A q \in Range(Call("run", <<p>>).todo) : ~process[q].running
    BY <1>4, <2>1, OneProcess DEF CallRun
  <2> QED
    BY <1>4, <2>1, <2>2, CallStep DEF CallRun
<1>5. ASSUME GroupRunAsync PROVE Inv'
  <2> DEFINE c == Call("async", group.members)
  <2>1. c.op = "async" /\ c \in CallStates /\ ~c.started /\ c.received = <<>>
    BY <1>0, IdleCall
  <2> QED
    BY <1>5, <2>1, CallStep DEF GroupRunAsync
<1>6. ASSUME GroupWait PROVE Inv'
  <2> DEFINE c == Call("group-wait", <<>>)
  <2>1. c.op = "group-wait" /\ c \in CallStates /\ ~c.started /\ c.received = <<>>
    BY IdleCall
  <2> QED
    BY <1>6, <2>1, CallStep DEF GroupWait
<1>7. ASSUME GroupRun PROVE Inv'
  <2> DEFINE c == Call("group-run", group.members)
  <2>1. c.op = "group-run" /\ c \in CallStates /\ ~c.started /\ c.received = <<>>
        /\ c.todo = group.members
    BY <1>0, IdleCall
  <2>2. \A q \in Range(c.todo) : ~process[q].running
    BY <1>7, <2>1 DEF GroupRun
  <2> QED
    BY <1>7, <2>1, <2>2, CallStep DEF GroupRun
<1> QED
  BY <1>1, <1>2, <1>3, <1>4, <1>5, <1>6, <1>7 DEF ClientCalls

\* cut_sub_process_run_async() of the next process.
LEMMA RunAsyncStep ==
  ASSUME Inv, RunAsync
  PROVE  Inv'
<1> DEFINE p == Head(call.todo)
           c == [call EXCEPT !.todo = Tail(call.todo)]
<1>1. Typed /\ call \in CallStates /\ call.op = "async" /\ call.todo # <<>>
  BY DEF RunAsync, Inv, Typed
<1>2. p \in Processes /\ Tail(call.todo) \in Seq(Processes)
  <2>1. call.todo \in Seq(Processes)
    BY <1>1 DEF CallStates
  <2> QED
    BY <1>1, <2>1
<1> DEFINE t == Tail(call.todo)
<1> HIDE DEF t
<1>3. c = [call EXCEPT !.todo = t]
  BY DEF t
<1> HIDE DEF c
<1>4. /\ c \in CallStates /\ c.op = "async" /\ c.started = call.started
      /\ c.received = call.received
  BY <1>1, <1>2, <1>3 DEF CallStates, t
<1>5. ~call.started /\ call.received = <<>>
  BY <1>1 DEF Inv, CallKnown
<1>6. CASE process[p].isRan \/ process[p].running
  <2>1. call' = c
        /\ UNCHANGED <<calls, reading, process, group, pipeline, sources, child, written,
                       taken, forwarded>>
    BY <1>6 DEF RunAsync, c
  <2>2. Typed'
    BY <1>1, <1>4, <2>1 DEF Typed
  <2>3. PipesKnown' /\ \A q \in Processes : \A v : Known(q, v) <=> Known(q, v)'
    BY <2>1, PipesUnchanged DEF Inv
  <2>4. \A q \in Processes : \A v : Settled(q, v) <=> Settled(q, v)'
    BY <2>1, PipesUnchanged DEF Inv
  <2>5. CallKnown'
    BY <1>4, <1>5, <2>1 DEF CallKnown
  <2>6. ProcessVerdicts'
    BY <1>4, <1>5, <2>1, <2>4 DEF Inv, ProcessVerdicts
  <2>7. \A q \in Range(group.members) : q \in Processes
    BY <1>1 DEF Typed, Groups, Range
  <2>8. GroupVerdicts'
    BY <1>4, <2>1, <2>3, <2>7 DEF Inv, GroupVerdicts
  <2> QED
    BY <2>2, <2>3, <2>5, <2>6, <2>8 DEF Inv
<1>7. CASE ~(process[p].isRan \/ process[p].running)
  <2> DEFINE pr == [running |-> TRUE, isRan |-> FALSE, success |-> TRUE,
                    connected |-> TRUE]
  <2>1. /\ Start(p, pr, c)
        /\ UNCHANGED <<calls, reading, written, taken, forwarded>>
    BY <1>7 DEF RunAsync, c
  <2>2. pr \in Processing /\ pr.running /\ ~pr.isRan
    BY DEF Processing
  <2>3. ~Ran(p)
    BY <1>7 DEF Ran
  <2> HIDE DEF p, pr
  <2>4. /\ c.op = call.op /\ (c.op = "group-run" => c.todo = call.todo)
        /\ c.received = call.received /\ (c.received # <<>> => c.todo = call.todo)
    BY <1>1, <1>4, <1>5
  <2>5. /\ Typed' /\ PipesKnown' /\ ProcessVerdicts' /\ GroupVerdicts'
        /\ call'.op = c.op /\ call'.started = c.started
        /\ call'.received # c.received => c.started
    BY <1>2, <1>4, <2>1, <2>2, <2>3, <2>4, StartStep DEF p
  <2>6. CallKnown'
    BY <1>4, <1>5, <2>5 DEF CallKnown
  <2> QED
    BY <2>5, <2>6 DEF Inv
<1> QED
  BY <1>6, <1>7

\* cut_sub_process_run() of the next process.
LEMMA RunStep ==
  ASSUME Inv, Run
  PROVE  Inv'
<1> DEFINE p == Head(call.todo)
           t == Tail(call.todo)
<1>1. /\ Typed /\ call \in CallStates /\ call.op \in {"run", "group-run"}
      /\ call.todo # <<>> /\ ~call.started
  BY DEF Run, Inv, Typed
<1>2. /\ p \in Processes /\ t \in Seq(Processes) /\ p \in Range(call.todo)
      /\ Range(t) \subseteq Range(call.todo)
      /\ \A x \in Range(call.todo) : x = p \/ x \in Range(t)
  <2>1. call.todo \in Seq(Processes)
    BY <1>1 DEF CallStates
  <2> QED
    BY <1>1, <2>1, HeadAndTail
<1>3. call.received = <<>>
  BY <1>1 DEF Inv, CallKnown
<1>4. /\ \A q \in Range(call.todo) : ~process[q].running
      /\ call.op = "group-run" => Range(call.todo) \subseteq Range(group.members)
  BY <1>1 DEF Inv, CallKnown
<1> HIDE DEF t
<1>5. CASE process[p].isRan
  <2> DEFINE c == [call EXCEPT !.todo = t]
  <2>1. /\ call' = c
        /\ group' = IF call.op = "group-run" /\ ~process[p].success
                    THEN [group EXCEPT !.allSuccess = FALSE] ELSE group
        /\ UNCHANGED <<calls, reading, process, pipeline, sources, child, written,
                       taken, forwarded>>
    BY <1>5 DEF Run, t
  <2> HIDE DEF p
  <2>2. /\ call' \in CallStates /\ call'.op = call.op /\ call'.started = call.started
        /\ call'.received = call.received /\ call'.todo = t
    BY <1>1, <1>2, <2>1 DEF CallStates
  <2>3. /\ group' \in Groups /\ group'.members = group.members
        /\ group'.counted = group.counted /\ group'.uncompleted = group.uncompleted
        /\ group'.allSuccess <=>
             group.allSuccess /\ (call.op = "group-run" => process[p].success)
    BY <1>1, <2>1 DEF Typed, Groups
  <2>4. Typed'
    BY <1>1, <2>1, <2>2, <2>3 DEF Typed
  <2>5. PipesKnown' /\ \A q \in Processes : \A v : Known(q, v) <=> Known(q, v)'
    BY <2>1, PipesUnchanged DEF Inv
  <2>6. \A q \in Processes : \A v : Settled(q, v) <=> Settled(q, v)'
    BY <2>1, PipesUnchanged DEF Inv
  <2>7. CallKnown'
    BY <1>1, <1>2, <1>3, <1>4, <2>1, <2>2, <2>3 DEF CallKnown
  <2>8. ProcessVerdicts'
    BY <1>3, <2>1, <2>2, <2>6 DEF Inv, ProcessVerdicts
  <2>9. Known(p, process[p].success)
    BY <1>2, <1>5 DEF Inv, ProcessVerdicts, Known, Ran
  <2>10. process[p].success \in BOOLEAN
    BY <1>1, <1>2 DEF Typed, Processing
  <2>11. \A q \in Range(group.members) : q \in Processes
    BY <1>1 DEF Typed, Groups, Range
  <2>12. ~group'.allSuccess => \E q \in Range(group'.members) : Known(q, FALSE)'
    <3>1. CASE ~group.allSuccess
      BY <2>3, <2>5, <2>11, <3>1 DEF Inv, GroupVerdicts
    <3>2. CASE call.op = "group-run" /\ ~process[p].success
      <4>1. Known(p, FALSE)
        BY <2>9, <3>2 DEF Known, Settled
      <4>2. p \in Range(group.members)
        BY <1>2, <1>4, <3>2
      <4> QED
        BY <1>2, <2>3, <2>5, <4>1, <4>2
    <3> QED
      BY <2>3, <3>1, <3>2
  <2>13. ASSUME group'.allSuccess, NEW q \in Range(group'.members)
         PROVE  /\ q \in group'.counted \/ Known(q, TRUE)'
                /\ call'.op = "group-run" => q \in Range(call'.todo) \/ Known(q, TRUE)'
    <3>1. /\ group.allSuccess /\ q \in Range(group.members) /\ q \in Processes
          /\ call.op = "group-run" => process[p].success
      BY <2>3, <2>11, <2>13
    <3>2. /\ q \in group.counted \/ Known(q, TRUE)
          /\ call.op = "group-run" => q \in Range(call.todo) \/ Known(q, TRUE)
      BY <3>1 DEF Inv, GroupVerdicts
    <3>3. call.op = "group-run" => Known(p, TRUE)
      BY <2>9, <3>1 DEF Known, Settled
    <3> QED
      BY <1>2, <2>2, <2>3, <2>5, <3>1, <3>2, <3>3
  <2>14. GroupVerdicts'
    BY <2>3, <2>12, <2>13 DEF Inv, GroupVerdicts
  <2> QED
    BY <2>4, <2>5, <2>7, <2>8, <2>14 DEF Inv
<1>6. CASE ~process[p].isRan
  <2> DEFINE pr == [process[p] EXCEPT !.running = TRUE]
             c == [call EXCEPT !.started = TRUE]
  <2>1. /\ Start(p, pr, c)
        /\ UNCHANGED <<calls, reading, written, taken, forwarded>>
    BY <1>6 DEF Run
  <2>2. ~Ran(p)
    BY <1>2, <1>4, <1>6 DEF Ran
  <2> HIDE DEF p
  <2>3. pr \in Processing /\ pr.running /\ ~pr.isRan
    BY <1>1, <1>2, <1>6 DEF Typed, Processing
  <2>4. /\ c \in CallStates /\ c.op = call.op /\ c.todo = call.todo
        /\ c.received = call.received /\ c.started
    BY <1>1 DEF CallStates
  <2> HIDE DEF pr, c
  <2>4b. /\ c \in CallStates /\ c.op = call.op
         /\ (c.op = "group-run" => c.todo = call.todo)
         /\ c.received = call.received /\ (c.received # <<>> => c.todo = call.todo)
    BY <2>4
  <2>5. /\ Typed' /\ PipesKnown' /\ ProcessVerdicts' /\ GroupVerdicts'
        /\ \A q \in Processes \ {p} : process'[q] = process[q]
        /\ process'[p].running \/ process'[p].isRan
        /\ group'.members = group.members
        /\ call'.op = c.op /\ call'.todo = c.todo /\ call'.started = c.started
    BY <1>2, <2>1, <2>2, <2>3, <2>4b, StartStep
  <2>6. \A q \in Range(call.todo) : q \in Processes
    BY <1>1 DEF CallStates, Range
  <2>7. CallKnown'
    <3>1. call'.started /\ call'.op = call.op /\ call'.todo = call.todo
      BY <2>4, <2>5
    <3>2. Ran(Head(call.todo))'
      BY <2>5, <3>1 DEF Ran, p
    <3>3. \A q \in Range(call.todo) : process'[q].running => q = Head(call.todo)
      BY <1>4, <2>5, <2>6 DEF p
    <3> QED
      BY <1>1, <1>4, <2>5, <3>1, <3>2, <3>3 DEF CallKnown
  <2> QED
    BY <2>5, <2>7 DEF Inv
<1> QED
  BY <1>5, <1>6

\* cut_runner_run() comes back with the verdict it received.
LEMMA RunReturnsStep ==
  ASSUME Inv, RunReturns
  PROVE  Inv'
<1> DEFINE p == Head(call.todo)
           t == Tail(call.todo)
           v == Head(call.received)
<1>1. /\ Typed /\ call \in CallStates /\ call.started /\ call.received # <<>>
      /\ call.op \in {"run", "group-run"} /\ call.todo # <<>>
      /\ call.todo \in Seq(Processes) /\ call.received \in Seq(BOOLEAN)
  BY DEF RunReturns, Inv, Typed, CallKnown, CallStates
<1>2. /\ p \in Processes /\ t \in Seq(Processes) /\ v \in BOOLEAN /\ p \in Range(call.todo)
      /\ Range(t) \subseteq Range(call.todo)
      /\ \A x \in Range(call.todo) : x = p \/ x \in Range(t)
  BY <1>1, HeadAndTail
<1>3. /\ process' = [process EXCEPT ![p] =
             [@ EXCEPT !.running = FALSE, !.isRan = TRUE, !.success = v]]
      /\ group' = IF call.op = "group-run" /\ ~v
                  THEN [group EXCEPT !.allSuccess = FALSE] ELSE group
      /\ call' = [Idle EXCEPT !.op = call.op, !.todo = t]
      /\ UNCHANGED <<calls, pipeline, sources, reading, child, written, taken, forwarded>>
  BY DEF RunReturns, childVars
<1>4. Settled(p, v) /\ pipeline[p].completed
  BY <1>1 DEF Inv, ProcessVerdicts
<1>5. /\ \A q \in Range(call.todo) : process[q].running => q = p
      /\ call.op = "group-run" => Range(call.todo) \subseteq Range(group.members)
  BY <1>1 DEF Inv, CallKnown
<1> DEFINE op == call.op
<1>a. op \in {"none", "async", "run", "group-run", "wait", "group-wait"}
      /\ t \in Seq(Processes)
  BY <1>1, <1>2
<1>b. call' = Call(op, t) /\ op = call.op
  BY <1>3 DEF Call
<1> HIDE DEF op, t
<1>6. /\ Call(op, t) \in CallStates /\ Call(op, t).op = op /\ Call(op, t).todo = t
      /\ ~Call(op, t).started /\ Call(op, t).received = <<>>
  BY <1>a, IdleCall
<1>8. /\ call' \in CallStates /\ call'.op = call.op /\ call'.todo = t
      /\ ~call'.started /\ call'.received = <<>>
  BY <1>6, <1>b
<1> HIDE DEF p, v
<1>9. /\ process' \in [Processes -> Processing]
      /\ process'[p].isRan /\ ~process'[p].running /\ process'[p].success = v
      /\ \A q \in Processes \ {p} : process'[q] = process[q]
  BY <1>1, <1>2, <1>3 DEF Typed, Processing
<1>10. /\ group' \in Groups /\ group'.members = group.members
       /\ group'.counted = group.counted /\ group'.uncompleted = group.uncompleted
       /\ group'.allSuccess <=> group.allSuccess /\ (call.op = "group-run" => v)
  BY <1>1, <1>2, <1>3 DEF Typed, Groups
<1>11. Typed'
  BY <1>1, <1>3, <1>8, <1>9, <1>10 DEF Typed
<1>12. \A q \in Processes : \A w : Settled(q, w) <=> Settled(q, w)'
  BY <1>3 DEF Settled, Succeeded, Failed
<1>13. \A q \in Processes : Ran(q) => process'[q].running \/ process'[q].isRan
  BY <1>9 DEF Ran
<1>14. \A q \in Processes : \A w : Known(q, w) => Known(q, w)'
  BY <1>12, <1>13 DEF Known, Ran
<1>15. \A w : w = v => Known(p, w) 
  BY <1>1, <1>4 DEF Known, Inv, CallKnown, p
<1>16. PipesKnown'
  <2> SUFFICES ASSUME NEW q \in Processes
               PROVE  ChildKnown(q)' /\ PipeKnown(q)' /\ ForwardKnown(q)'
    BY DEF PipesKnown
  <2>1. ChildKnown(q) /\ PipeKnown(q) /\ ForwardKnown(q)
    BY DEF Inv, PipesKnown
  <2>2. Ran(q)' => Ran(q)
    <3>1. Ran(p)
      BY <1>1 DEF Inv, CallKnown, p
    <3> QED
      BY <1>9, <3>1 DEF Ran
  <2>3. ChildKnown(q)'
    <3>1. Ran(q) => Ran(q)'
      BY <1>13 DEF Ran
    <3> QED
      BY <1>3, <2>1, <2>2, <3>1 DEF ChildKnown, NewPipeline
  <2>4. PipeKnown(q)'
    BY <1>3, <2>1 DEF PipeKnown, ReadUpTo, Prefix
  <2>5. process'[q].isRan => pipeline[q].completed
    BY <1>4, <1>9, <2>1 DEF ForwardKnown
  <2>6. ForwardKnown(q)'
    BY <1>3, <2>1, <2>5 DEF ForwardKnown, Count
  <2> QED
    BY <2>3, <2>4, <2>6
<1>17. CallKnown'
  <2>1. \A q \in Range(t) : ~process'[q].running
    <3> SUFFICES ASSUME NEW q \in Range(t) PROVE ~process'[q].running
      OBVIOUS
    <3>1. q \in Processes /\ q \in Range(call.todo)
      BY <1>2 DEF Range
    <3> QED
      BY <1>5, <1>9, <3>1
  <2>2. call.op = "group-run" => Range(t) \subseteq Range(group.members)
    BY <1>2, <1>5
  <2> QED
    BY <1>8, <1>10, <2>1, <2>2 DEF CallKnown
<1>18. ProcessVerdicts'
  <2> SUFFICES ASSUME NEW q \in Processes, process'[q].isRan
               PROVE  Settled(q, process[q].success)'
    BY <1>8 DEF ProcessVerdicts
  <2>1. Settled(q, process'[q].success)
    BY <1>4, <1>9 DEF Inv, ProcessVerdicts
  <2> QED
    BY <1>12, <2>1, <1>3 DEF Settled, Succeeded, Failed
<1>19. \A q \in Range(group.members) : q \in Processes
  BY <1>1 DEF Typed, Groups, Range
<1>20. ~group'.allSuccess => \E q \in Range(group'.members) : Known(q, FALSE)'
  <2>1. CASE ~group.allSuccess
    BY <1>10, <1>14, <1>19, <2>1 DEF Inv, GroupVerdicts
  <2>2. CASE call.op = "group-run" /\ ~v
    <3>1. Known(p, FALSE)
      BY <1>2, <1>15, <2>2
    <3>2. p \in Range(group.members)
      BY <1>2, <1>5, <2>2
    <3>3. \E q \in Range(group'.members) : Known(q, FALSE)
      BY <1>10, <3>1, <3>2
    <3> QED
      BY <1>10, <1>14, <1>19, <3>3
  <2> QED
    BY <1>10, <2>1, <2>2
<1>21. ASSUME group'.allSuccess, NEW q \in Range(group'.members)
       PROVE  /\ q \in group'.counted \/ Known(q, TRUE)'
              /\ call'.op = "group-run" => q \in Range(call'.todo) \/ Known(q, TRUE)'
  <2>1. /\ group.allSuccess /\ q \in Range(group.members) /\ q \in Processes
        /\ call.op = "group-run" => v
    BY <1>10, <1>19, <1>21
  <2>2. /\ q \in group.counted \/ Known(q, TRUE)
        /\ call.op = "group-run" => q \in Range(call.todo) \/ Known(q, TRUE)
    BY <2>1 DEF Inv, GroupVerdicts
  <2>3. call.op = "group-run" => Known(p, TRUE)
    BY <1>2, <1>15, <2>1
  <2>4. call.op = "group-run" => q \in Range(t) \/ Known(q, TRUE)
    BY <1>2, <2>2, <2>3
  <2> QED
    BY <1>8, <1>10, <1>14, <2>1, <2>2, <2>4
<1>22. GroupVerdicts'
  BY <1>10, <1>20, <1>21 DEF Inv, GroupVerdicts
<1> QED
  BY <1>11, <1>16, <1>17, <1>18, <1>22 DEF Inv

\* A call that is over.
LEMMA ReturnsStep ==
  ASSUME Inv, Returns
  PROVE  Inv'
<1>1. /\ call' = Idle
      /\ UNCHANGED <<calls, process, group, pipeline, sources, reading, child, written,
                     taken, forwarded>>
  BY DEF Returns, childVars
<1>2. call' \in CallStates /\ call'.op = "none" /\ ~call'.started /\ call'.received = <<>>
  BY <1>1, IdleCall DEF Idle
<1>3. Typed'
  BY <1>1, <1>2 DEF Inv, Typed
<1>4. PipesKnown' /\ \A q \in Processes : \A v : Known(q, v) <=> Known(q, v)'
  BY <1>1, PipesUnchanged DEF Inv
<1>5. \A q \in Processes : \A v : Settled(q, v) <=> Settled(q, v)'
  BY <1>1, PipesUnchanged DEF Inv
<1>6. CallKnown'
  BY <1>2 DEF CallKnown
<1>7. ProcessVerdicts'
  BY <1>1, <1>2, <1>5 DEF Inv, ProcessVerdicts
<1>8. \A q \in Range(group.members) : q \in Processes
  BY DEF Inv, Typed, Groups, Range
<1>9. GroupVerdicts'
  BY <1>1, <1>2, <1>4, <1>8 DEF Inv, GroupVerdicts
<1> QED
  BY <1>3, <1>4, <1>6, <1>7, <1>9 DEF Inv

\* What a step of a child leaves alone.
LEMMA ChildStep ==
  ASSUME Inv, Typed', PipesKnown', NEW p \in Processes,
         UNCHANGED <<call, calls, process, group, pipeline>>,
         \A q \in Processes \ {p} : child'[q] = child[q] /\ written'[q] = written[q],
         \/ written'[p] = written[p] /\ child'[p] # "alive"
         \/ /\ child[p] = "alive" /\ ~Contains(written[p], "complete")
            /\ \E m \in Messages : written'[p] = Append(written[p], m)
  PROVE  Inv'
<1>1. \A q \in Processes : \A v : Settled(q, v) => Settled(q, v)'
  <2> SUFFICES ASSUME NEW q \in Processes, NEW v, Settled(q, v) PROVE Settled(q, v)'
    OBVIOUS
  <2> QED
    BY SettledIsKept DEF Inv
<1>2. \A q \in Processes : \A v : Known(q, v) => Known(q, v)'
  BY <1>1 DEF Known, Ran
<1>3. CallKnown'
  BY DEF Inv, CallKnown, Ran
<1>4. ProcessVerdicts'
  <2>1. call.received # <<>> => Head(call.todo) \in Processes
    BY HeadAndTail DEF Inv, CallKnown, Typed, CallStates
  <2> QED
    BY <1>1, <2>1 DEF Inv, ProcessVerdicts
<1>5. \A q \in Range(group.members) : q \in Processes
  BY DEF Inv, Typed, Groups, Range
<1>6. GroupVerdicts'
  BY <1>2, <1>5 DEF Inv, GroupVerdicts
<1> QED
  BY <1>3, <1>4, <1>6 DEF Inv

\* The child writes on.
LEMMA ChildWritesStep ==
  ASSUME Inv, NEW p \in Processes, ChildWrites(p)
  PROVE  Inv'
<1>1. Typed /\ \A q \in Processes : ChildKnown(q) /\ PipeKnown(q) /\ ForwardKnown(q)
  BY DEF Inv, PipesKnown
<1>2. PICK m \in Messages : written' = [written EXCEPT ![p] = Append(@, m)]
  BY DEF ChildWrites, Messages
<1>3. /\ child[p] = "alive" /\ ~Contains(written[p], "complete")
      /\ UNCHANGED <<call, calls, process, group, pipeline, sources, reading, child,
                     taken, forwarded>>
  BY DEF ChildWrites
<1>4. /\ written' \in [Processes -> Seq(Messages)]
      /\ written'[p] = Append(written[p], m)
      /\ \A q \in Processes \ {p} : written'[q] = written[q]
  BY <1>1, <1>2 DEF Typed
<1>5. /\ Len(written'[p]) = Len(written[p]) + 1 /\ Len(written[p]) \in Nat
      /\ \A i \in 1 .. Len(written[p]) : written'[p][i] = written[p][i]
  BY <1>1, <1>4 DEF Typed
<1>6. Typed'
  BY <1>1, <1>3, <1>4 DEF Typed
<1>7. taken[p] \in Nat /\ taken[p] <= Len(written[p])
  BY <1>1 DEF Typed, PipeKnown
<1>8. ChildKnown(p)'
  BY <1>1, <1>3 DEF ChildKnown, Ran
<1>9. PipeKnown(p)'
  <2>1. \A i \in 1 .. Len(written'[p]) :
          written'[p][i] = "complete" => i = Len(written'[p])
    BY <1>3, <1>5 DEF Contains
  <2>2. Prefix(p, taken[p])' = Prefix(p, taken[p])
    <3>1. \A i \in 1 .. taken[p] : i \in 1 .. Len(written[p])
      BY <1>5, <1>7
    <3>2. \A i \in 1 .. taken[p] : written'[p][i] = written[p][i]
      BY <1>5, <3>1
    <3> QED
      BY <1>3, <3>2 DEF Prefix
  <2>3. ReadUpTo(pipeline[p], p, taken[p])'
    BY <1>1, <1>3, <2>2 DEF PipeKnown, ReadUpTo, Passes
  <2>4. ~(pipeline[p].error \/ pipeline[p].ended)
    BY <1>1, <1>3 DEF PipeKnown
  <2> QED
    BY <1>1, <1>3, <1>5, <1>7, <2>1, <2>3, <2>4 DEF PipeKnown
<1>10. ForwardKnown(p)'
  BY <1>1, <1>3 DEF ForwardKnown
<1>11. \A q \in Processes \ {p} : ChildKnown(q)' /\ PipeKnown(q)' /\ ForwardKnown(q)'
  <2> SUFFICES ASSUME NEW q \in Processes \ {p}
               PROVE  ChildKnown(q)' /\ PipeKnown(q)' /\ ForwardKnown(q)'
    OBVIOUS
  <2>1. /\ written'[q] = written[q] /\ UNCHANGED <<process, pipeline, sources, child,
                                                   taken, forwarded>>
        /\ ChildKnown(q) /\ PipeKnown(q) /\ ForwardKnown(q)
    BY <1>1, <1>3, <1>4
  <2>2. ChildKnown(q)'
    BY <2>1 DEF ChildKnown, Ran, NewPipeline
  <2>3. PipeKnown(q)'
    BY <2>1 DEF PipeKnown, ReadUpTo, Prefix
  <2>4. ForwardKnown(q)'
    BY <2>1 DEF ForwardKnown, Count
  <2> QED
    BY <2>2, <2>3, <2>4
<1> QED
  BY <1>3, <1>4, <1>6, <1>8, <1>9, <1>10, <1>11, ChildStep DEF PipesKnown

\* The child ends.
LEMMA ChildEndsStep ==
  ASSUME Inv, NEW p \in Processes, ChildEnds(p)
  PROVE  Inv'
<1>1. Typed /\ \A q \in Processes : ChildKnown(q) /\ PipeKnown(q) /\ ForwardKnown(q)
  BY DEF Inv, PipesKnown
<1>2. /\ child[p] = "alive" /\ child' = [child EXCEPT ![p] = "dead"]
      /\ UNCHANGED <<call, calls, process, group, pipeline, sources, reading, written,
                     taken, forwarded>>
  BY DEF ChildEnds
<1>3. Typed' /\ child'[p] = "dead" /\ \A q \in Processes \ {p} : child'[q] = child[q]
  BY <1>1, <1>2 DEF Typed
<1>4. ChildKnown(p)'
  BY <1>1, <1>2, <1>3 DEF ChildKnown, Ran
<1>5. PipeKnown(p)' /\ ForwardKnown(p)'
  BY <1>1, <1>2, <1>3 DEF PipeKnown, ForwardKnown, ReadUpTo, Prefix, Count
<1>6. \A q \in Processes \ {p} : ChildKnown(q)' /\ PipeKnown(q)' /\ ForwardKnown(q)'
  <2> SUFFICES ASSUME NEW q \in Processes \ {p}
               PROVE  ChildKnown(q)' /\ PipeKnown(q)' /\ ForwardKnown(q)'
    OBVIOUS
  <2>1. /\ child'[q] = child[q] /\ UNCHANGED <<process, pipeline, sources, written,
                                               taken, forwarded>>
        /\ ChildKnown(q) /\ PipeKnown(q) /\ ForwardKnown(q)
    BY <1>1, <1>2, <1>3
  <2>2. ChildKnown(q)'
    BY <2>1 DEF ChildKnown, Ran, NewPipeline
  <2>3. PipeKnown(q)'
    BY <2>1 DEF PipeKnown, ReadUpTo, Prefix
  <2>4. ForwardKnown(q)'
    BY <2>1 DEF ForwardKnown, Count
  <2> QED
    BY <2>2, <2>3, <2>4
<1> QED
  BY <1>2, <1>3, <1>4, <1>5, <1>6, ChildStep DEF PipesKnown

\* A read begins: the loop is blocked.
LEMMA BeginReadStep ==
  ASSUME Inv, NEW p \in Processes, BeginRead(p)
  PROVE  Inv'
<1>1. /\ reading' = p
      /\ UNCHANGED <<call, calls, process, group, pipeline, sources, child, written,
                     taken, forwarded>>
  BY DEF BeginRead, childVars
<1>2. Typed'
  BY <1>1 DEF Inv, Typed
<1>3. PipesKnown' /\ \A q \in Processes : \A v : Known(q, v) <=> Known(q, v)'
  BY <1>1, PipesUnchanged DEF Inv
<1>4. CallKnown' /\ ProcessVerdicts' /\ GroupVerdicts'
  BY <1>1 DEF Inv, CallKnown, ProcessVerdicts, GroupVerdicts, Known, Settled, Succeeded,
              Failed, Ran
<1> QED
  BY <1>2, <1>3, <1>4 DEF Inv

\* The read is over.
LEMMA ReadChannelStep ==
  ASSUME Inv, NEW p \in Processes, ReadChannel(p)
  PROVE  Inv'
<1> DEFINE n == Len(written[p]) - taken[p]
           k == IF n < Chunk THEN n ELSE Chunk
           s == Canceled(Take(pipeline[p], Unread(p, k)))
<1>1. Typed /\ PipeKnown(p) /\ ChildKnown(p)
  BY DEF Inv, PipesKnown
<1>2. /\ n >= Chunk \/ child[p] = "dead"
      /\ Deliver(p, s, process[p], call) /\ Forward(p, k)
      /\ sources' = [sources EXCEPT ![p].stream = ~s.completed]
      /\ reading' = NoProcess
      /\ UNCHANGED <<calls, child, written>>
  BY DEF ReadChannel, childVars
<1>3. Len(written[p]) \in Nat /\ taken[p] \in Nat /\ taken[p] <= Len(written[p])
  BY <1>1 DEF Typed, PipeKnown
<1>4. k \in Nat /\ taken[p] + k <= Len(written[p])
  BY <1>3, ChunkAssumption
<1>5. child[p] # "none"
  BY <1>1, <1>2, <1>3, ChunkAssumption DEF ChildKnown
<1> HIDE DEF k
<1>6. Reads(p, s, k)
  BY <1>1, <1>4, TakeSettles, CanceledSettles
<1> HIDE DEF s
<1>7. s.completed \in BOOLEAN
  BY <1>6 DEF Reads, Pipelines
<1>8. /\ sources' \in [Processes -> [stream : BOOLEAN, watch : BOOLEAN]]
      /\ sources'[p].watch = sources[p].watch
      /\ \A q \in Processes \ {p} : sources'[q] = sources[q]
  BY <1>1, <1>2, <1>7 DEF Typed
<1>9. reading' \in Processes \cup {NoProcess}
  BY <1>2
<1> QED
  BY <1>2, <1>4, <1>5, <1>6, <1>8, <1>9, ReadStep

\* What is left is read when the child is dead, unless that has been done.
LEMMA ReadToEndStep ==
  ASSUME Inv, NEW p \in Processes, child[p] = "dead", ReadToEnd(p),
         UNCHANGED <<calls, reading, childVars>>,
         sources' \in [Processes -> [stream : BOOLEAN, watch : BOOLEAN]],
         \A q \in Processes \ {p} : sources'[q] = sources[q]
  PROVE  Inv'
<1> DEFINE n == Len(written[p]) - taken[p]
           s == EndRead(Take(pipeline[p], Unread(p, n)))
<1>1. /\ Typed /\ PipeKnown(p) /\ UNCHANGED <<calls, child, written>>
      /\ reading' \in Processes \cup {NoProcess}
  BY DEF Inv, PipesKnown, childVars, Typed
<1>2. CASE pipeline[p].ended \/ pipeline[p].error
  <2>1. UNCHANGED <<pipeline, process, group, call, taken, forwarded>>
    BY <1>2 DEF ReadToEnd
  <2>2. Typed'
    BY <1>1, <2>1 DEF Typed
  <2>3. \A q \in Processes : ChildKnown(q) /\ PipeKnown(q) /\ ForwardKnown(q)
    BY DEF Inv, PipesKnown
  <2>4. taken[p] = Len(written[p])
    BY <1>1, <1>2 DEF PipeKnown
  <2>5. \A q \in Processes : ChildKnown(q)'
    BY <1>1, <2>1, <2>3, <2>4 DEF ChildKnown, Ran, NewPipeline
  <2>6. \A q \in Processes : PipeKnown(q)' /\ ForwardKnown(q)'
    BY <1>1, <2>1, <2>3 DEF PipeKnown, ForwardKnown, ReadUpTo, Prefix, Count
  <2>7. CallKnown' /\ ProcessVerdicts' /\ GroupVerdicts'
    BY <1>1, <2>1 DEF Inv, CallKnown, ProcessVerdicts, GroupVerdicts, Known, Settled,
                      Succeeded, Failed, Ran
  <2> QED
    BY <2>2, <2>5, <2>6, <2>7 DEF Inv, PipesKnown
<1>3. CASE ~(pipeline[p].ended \/ pipeline[p].error)
  <2>1. Deliver(p, s, process[p], call) /\ Forward(p, n)
    BY <1>3 DEF ReadToEnd
  <2>2. n \in Nat /\ taken[p] + n = Len(written[p]) /\ taken[p] + n <= Len(written[p])
    BY <1>1 DEF Typed, PipeKnown
  <2> HIDE DEF n
  <2>3. Reads(p, s, n)
    BY <1>1, <2>2, TakeSettles, EndReadSettles
  <2> HIDE DEF s
  <2> QED
    BY <1>1, <2>1, <2>2, <2>3, ReadStep
<1> QED
  BY <1>2, <1>3

-----------------------------------------------------------------------------
\* It holds initially,
LEMMA InitInv == Init => Inv
<1> SUFFICES ASSUME Init PROVE Inv
  OBVIOUS
<1> DEFINE e == <<>>
<1>1. e \in Seq(Processes) /\ e \in Seq(BOOLEAN) /\ e \in Seq(Messages) /\ Len(e) = 0
      /\ Range(e) = {} /\ DOMAIN e = {}
  BY DEF Range
<1>2. NewPipeline = [stream |-> "none", critical |-> FALSE, crashed |-> FALSE,
                     completed |-> FALSE, error |-> FALSE, ended |-> FALSE, told |-> e]
  BY DEF NewPipeline
<1>3. /\ group = [members |-> e, counted |-> {}, uncompleted |-> 0, allSuccess |-> TRUE]
      /\ written = [p \in Processes |-> e]
  BY DEF Init
<1>4. call.op = "none" /\ ~call.started /\ call.received = <<>> /\ call.todo = <<>>
  BY DEF Init, Idle
<1> HIDE DEF e
<1>5. NewPipeline \in Pipelines
  BY <1>1, <1>2 DEF Pipelines
<1>6. Typed
  BY <1>1, <1>3, <1>5, IdleCall, BoundsAssumption DEF Init, Typed, Groups, Processing
<1>7. \A p \in Processes : ChildKnown(p) /\ PipeKnown(p) /\ ForwardKnown(p)
  <2> SUFFICES ASSUME NEW p \in Processes
               PROVE  ChildKnown(p) /\ PipeKnown(p) /\ ForwardKnown(p)
    OBVIOUS
  <2>1. /\ pipeline[p] = NewPipeline /\ written[p] = e /\ taken[p] = 0 /\ forwarded[p] = 0
        /\ child[p] = "none" /\ ~sources[p].stream /\ ~sources[p].watch
        /\ ~process[p].isRan /\ ~process[p].running
    BY <1>3 DEF Init
  <2>2. Prefix(p, taken[p]) = {}
    BY <2>1 DEF Prefix
  <2>3. ChildKnown(p)
    BY <2>1 DEF ChildKnown, e
  <2>4. PipeKnown(p)
    BY <1>1, <2>1, <2>2 DEF PipeKnown, ReadUpTo, NewPipeline
  <2>5. ForwardKnown(p)
    BY <2>1 DEF ForwardKnown, NewPipeline
  <2> QED
    BY <2>3, <2>4, <2>5
<1>8. CallKnown
  BY <1>4 DEF CallKnown
<1>9. ProcessVerdicts
  BY <1>4 DEF Init, ProcessVerdicts
<1>10. GroupVerdicts
  BY <1>1, <1>3, FS_EmptySet DEF GroupVerdicts
<1> QED
  BY <1>6, <1>7, <1>8, <1>9, <1>10 DEF Inv, PipesKnown

\* and no step breaks it.
LEMMA StepInv == Inv /\ [Next]_vars => Inv'
<1> SUFFICES ASSUME Inv, [Next]_vars PROVE Inv'
  OBVIOUS
<1>1. CASE UNCHANGED vars
  <2>1. UNCHANGED <<call, calls, process, group, pipeline, sources, reading, child,
                    written, taken, forwarded>>
    BY <1>1 DEF vars, childVars
  <2>2. Typed'
    BY <2>1 DEF Inv, Typed
  <2>3. PipesKnown'
    BY <2>1, PipesUnchanged DEF Inv
  <2>4. CallKnown'
    BY <2>1 DEF Inv, CallKnown, Ran
  <2>5. ProcessVerdicts'
    BY <2>1 DEF Inv, ProcessVerdicts, Settled, Succeeded, Failed
  <2>6. GroupVerdicts'
    BY <2>1 DEF Inv, GroupVerdicts, Known, Settled, Succeeded, Failed, Ran
  <2> QED
    BY <2>2, <2>3, <2>4, <2>5, <2>6 DEF Inv
<1>2. CASE ClientCalls
  BY <1>2, ClientStep
<1>3. CASE RunAsync \/ Run \/ RunReturns \/ Returns
  BY <1>3, RunAsyncStep, RunStep, RunReturnsStep, ReturnsStep
<1>4. ASSUME NEW p \in Processes, ChildWrites(p) \/ ChildEnds(p)
      PROVE  Inv'
  BY <1>4, ChildWritesStep, ChildEndsStep
<1>5. ASSUME NEW p \in Processes, Loop(p)
      PROVE  Inv'
  <2>1. CASE HungUpChannel(p)
    <3>1. /\ child[p] = "dead" /\ ReadToEnd(p) /\ UNCHANGED <<calls, reading, childVars>>
          /\ sources' = [sources EXCEPT ![p].stream = FALSE]
      BY <2>1 DEF HungUpChannel
    <3>2. /\ sources' \in [Processes -> [stream : BOOLEAN, watch : BOOLEAN]]
          /\ \A q \in Processes \ {p} : sources'[q] = sources[q]
      BY <3>1 DEF Inv, Typed
    <3> QED
      BY <3>1, <3>2, ReadToEndStep
  <2>2. CASE ChildWatch(p)
    <3>1. /\ child[p] = "dead" /\ ReadToEnd(p) /\ UNCHANGED <<calls, reading, childVars>>
          /\ sources' = [sources EXCEPT ![p].watch = FALSE]
      BY <2>2 DEF ChildWatch
    <3>2. /\ sources' \in [Processes -> [stream : BOOLEAN, watch : BOOLEAN]]
          /\ \A q \in Processes \ {p} : sources'[q] = sources[q]
      BY <3>1 DEF Inv, Typed
    <3> QED
      BY <3>1, <3>2, ReadToEndStep
  <2> QED
    BY <1>5, <2>1, <2>2, BeginReadStep, ReadChannelStep DEF Loop
<1> QED
  BY <1>1, <1>2, <1>3, <1>4, <1>5 DEF Next, EmptyIteration, Finished

\* The inductive invariant of sub processes, for any number of them, of their
\* results and of the calls of the test.
THEOREM SubProcessInvariant == Spec => []Inv
  BY InitInv, StepInv, PTL DEF Spec

\* Type correctness: taken and forwarded never pass what was written, and the
\* group counts members of its own.
THEOREM TypeCorrectness == Spec => []TypeOK
<1>1. Inv => TypeOK
  <2> SUFFICES ASSUME Inv PROVE TypeOK
    OBVIOUS
  <2>1. Typed /\ group.counted \subseteq Range(group.members)
    BY DEF Inv, GroupVerdicts
  <2>2. group.uncompleted \in Nat
    BY FS_CardinalityType DEF Inv, GroupVerdicts
  <2>3. Range(call.todo) \subseteq Processes /\ Range(group.members) \subseteq Processes
    BY <2>1 DEF Typed, CallStates, Groups, Range
  <2>4. \A p \in Processes : forwarded[p] <= taken[p] /\ taken[p] <= Len(written[p])
    BY DEF Inv, PipesKnown, PipeKnown, ForwardKnown
  <2> QED
    BY <2>1, <2>2, <2>3, <2>4 DEF Typed, TypeOK, CallStates, Groups, Processing
<1> QED
  BY <1>1, SubProcessInvariant, PTL

\* What is_success() says of a process is what its child's run came to, however
\* the end of the child was noticed (cut-sub-process.c:261).
THEOREM VerdictTheorem == Spec => []VerdictIsTheChilds
<1>1. Inv => VerdictIsTheChilds
  BY SettledIsTheChilds DEF Inv, ProcessVerdicts, VerdictIsTheChilds
<1> QED
  BY <1>1, SubProcessInvariant, PTL

\* A child is reaped only when its pipe has been read (cut-pipeline.c:221).
THEOREM ReapedTheorem == Spec => []ReapedIsRead
<1>1. Inv => ReapedIsRead
  BY DEF Inv, PipesKnown, ChildKnown, ReapedIsRead
<1> QED
  BY <1>1, SubProcessInvariant, PTL

\* All results that a child wrote have reached the test's run context when its
\* process is told to be complete, but for a crash (cut-stream-reader.c:277).
THEOREM ForwardedTheorem == Spec => []ResultsAreForwarded
<1>1. ASSUME Inv, NEW p \in Processes, process[p].isRan, ~pipeline[p].crashed
      PROVE  forwarded[p] = Cardinality({i \in DOMAIN written[p] :
                                           written[p][i] # "complete"})
  <2> DEFINE n == Len(written[p])
             S == {i \in DOMAIN written[p] : written[p][i] # "complete"}
  <2>1. /\ Typed /\ PipeKnown(p) /\ forwarded[p] = Count(p)
    BY <1>1 DEF Inv, PipesKnown, ForwardKnown
  <2>2. n \in Nat /\ DOMAIN written[p] = 1 .. n
    BY <2>1 DEF Typed
  <2>3. CASE Contains(written[p], "complete")
    <3>1. PICK i \in 1 .. n : written[p][i] = "complete"
      BY <2>3 DEF Contains
    <3>2. i = n
      BY <2>1, <3>1 DEF PipeKnown
    <3>3. S = 1 .. n - 1
      BY <2>1, <2>2, <3>1, <3>2 DEF PipeKnown
    <3>4. n >= 1 /\ n - 1 \in Int /\ 1 \in Int /\ n - 1 \in Nat
      BY <2>2, <3>1
    <3> HIDE DEF n
    <3>5. Cardinality(1 .. n - 1) = n - 1
      BY <3>4, FS_Interval
    <3> QED
      BY <2>1, <2>3, <3>3, <3>5 DEF Count, n
  <2>4. CASE ~Contains(written[p], "complete")
    <3>1. S = 1 .. n
      BY <2>2, <2>4 DEF Contains
    <3>2. Cardinality(1 .. n) = n
      BY <2>2, FS_Interval
    <3> QED
      BY <2>1, <2>4, <3>1, <3>2 DEF Count
  <2> QED
    BY <2>3, <2>4
<1>2. Inv => ResultsAreForwarded
  BY <1>1 DEF ResultsAreForwarded
<1> QED
  BY <1>2, SubProcessInvariant, PTL

\* A call is over when it returns, and by no other step.
LEMMA CallKeepsOp ==
  ASSUME NEW p, NEW s, NEW pr, NEW c, c \in CallStates, Deliver(p, s, pr, c)
  PROVE  call'.op = c.op
<1>1. call' = c \/ call' = [c EXCEPT !.received = <<Last(s.told)>>]
  BY DEF Deliver
<1> QED
  BY <1>1 DEF CallStates

LEMMA OnlyReturnsEnds ==
  ASSUME Inv, Next, call.op \in {"group-run", "group-wait"}, call' = Idle
  PROVE  Returns
<1>1. call \in CallStates /\ Idle.op = "none" /\ call'.op # call.op /\ call # Idle
  BY DEF Inv, Typed, Idle
<1>2. ~ClientCalls
  BY <1>1 DEF ClientCalls, Add, CallAsync, CallWait, CallRun, GroupRunAsync, GroupWait,
              GroupRun, Calls
<1>3. ~RunAsync
  BY DEF RunAsync
<1>4. ~Run
  <2> SUFFICES ASSUME Run PROVE FALSE
    OBVIOUS
  <2> DEFINE p == Head(call.todo)
             c == [call EXCEPT !.started = TRUE]
             pr == [process[p] EXCEPT !.running = TRUE]
  <2>1. \/ call' = [call EXCEPT !.todo = Tail(@)]
        \/ Start(p, pr, c)
    BY DEF Run
  <2>2. c \in CallStates /\ c.op = call.op
    BY <1>1 DEF CallStates
  <2>3. [call EXCEPT !.todo = Tail(@)].op = call.op
    BY <1>1 DEF CallStates
  <2>4. ASSUME Start(p, pr, c) PROVE call'.op = c.op
    <3> HIDE DEF c, pr, p
    <3> QED
      BY <2>2, <2>4, CallKeepsOp DEF Start
  <2> QED
    BY <1>1, <2>1, <2>2, <2>3, <2>4
<1>5. ~RunReturns
  BY <1>1 DEF RunReturns, Idle
<1>6. ASSUME NEW p \in Processes PROVE ~ChildWrites(p) /\ ~ChildEnds(p)
  BY <1>1 DEF ChildWrites, ChildEnds
<1>7. ASSUME NEW p \in Processes, Loop(p) PROVE FALSE
  <2>1. ~BeginRead(p)
    BY <1>1 DEF BeginRead
  <2>2. ~ReadChannel(p)
    BY <1>1, CallKeepsOp DEF ReadChannel
  <2>3. ~ReadToEnd(p)
    BY <1>1, CallKeepsOp DEF ReadToEnd
  <2> QED
    BY <1>7, <2>1, <2>2, <2>3 DEF Loop, HungUpChannel, ChildWatch
<1>8. ~EmptyIteration /\ ~Finished
  BY <1>1 DEF EmptyIteration, Finished, vars
<1> QED
  BY <1>2, <1>3, <1>4, <1>5, <1>6, <1>7, <1>8 DEF Next

\* What group_run() and group_wait() return is that all members succeeded, in
\* whatever order they were added, started and completed
\* (cut-sub-process-group.c:179).
THEOREM GroupVerdictTheorem == Spec => GroupVerdictIsRight
<1>1. ASSUME Inv, Next, call.op \in {"group-run", "group-wait"}, call' = Idle
      PROVE  group.allSuccess = (\A p \in Range(group.members) : Succeeded(p))
  <2>1. Typed /\ GroupVerdicts /\ CallKnown
    BY <1>1 DEF Inv
  <2>2. \A q \in Range(group.members) : q \in Processes
    BY <2>1 DEF Typed, Groups, Range
  <2>3. group.allSuccess \in BOOLEAN
    BY <2>1 DEF Typed, Groups
  <2>4. \A q \in Range(group.members) : \A v : Known(q, v) => v = Succeeded(q)
    BY <2>1, <2>2, SettledIsTheChilds DEF Known
  <2>5. CASE ~group.allSuccess
    BY <2>1, <2>3, <2>4, <2>5 DEF GroupVerdicts
  <2>6. CASE group.allSuccess
    <3>1. (call.op = "group-run" /\ Range(call.todo) = {}) \/ group.counted = {}
      <4>1. Returns
        BY <1>1, OnlyReturnsEnds
      <4>2. CASE call.op = "group-run"
        <5>1. call.todo = <<>>
          BY <4>1, <4>2 DEF Returns, WaitIsOver, GroupWaitIsOver, NothingToDo
        <5> QED
          BY <4>2, <5>1 DEF Range
      <4>3. CASE call.op = "group-wait"
        <5>1. group.uncompleted = 0
          BY <4>1, <4>3 DEF Returns, WaitIsOver, GroupWaitIsOver, NothingToDo
        <5> QED
          BY <2>1, <5>1, FS_EmptySet DEF GroupVerdicts
      <4> QED
        BY <1>1, <4>2, <4>3
    <3> QED
      BY <1>1, <2>1, <2>3, <2>4, <2>6, <3>1 DEF GroupVerdicts
  <2> QED
    BY <2>5, <2>6
<1>2. Inv /\ [Next]_vars => [call.op \in {"group-run", "group-wait"} /\ call' = Idle =>
        group.allSuccess = (\A p \in Range(group.members) : Succeeded(p))]_vars
  <2> SUFFICES ASSUME Inv, Next, call.op \in {"group-run", "group-wait"}, call' = Idle
      PROVE  group.allSuccess = (\A p \in Range(group.members) : Succeeded(p))
    OBVIOUS
  <2> QED
    BY <1>1
<1> QED
  BY <1>2, SubProcessInvariant, PTL DEF Spec, GroupVerdictIsRight
=============================================================================
