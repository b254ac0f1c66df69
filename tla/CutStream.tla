------------------------------ MODULE CutStream ------------------------------
(***************************************************************************)
(* The stream of a run: a child cutter writes every signal of its run      *)
(* context as an XML element to a pipe (cut-xml-stream.c and the           *)
(* *_to_xml_string functions); the parent's stream reader feeds what it    *)
(* reads to the stream parser (cut-stream-parser.c), which builds the      *)
(* objects again and emits the same signals on the parent's run context.   *)
(*                                                                         *)
(* The parser is a pushdown machine: a stack of states, a stack of objects *)
(* per kind of object, and the record of the element it is in.  An object  *)
(* is a cell of `heap'; a message is a signal with what it carries.  The   *)
(* cases of the child run in threads of their own, so that the messages of *)
(* one case come in order and those of two cases in any order.             *)
(*                                                                         *)
(* Names and texts are opaque; descriptions, times and backtraces, which   *)
(* the parser hands on like a name, are left out.                          *)
(***************************************************************************)
EXTENDS Integers, Sequences, FiniteSets, SequencesExt

CONSTANTS
  Cases,       \* the names of the test cases of the child
  Driven,      \* the cases whose test is data-driven
  Attributed,  \* the kinds of objects that have an attribute
  Results      \* the statuses a test of the child ends with

\* A test case is not taken for the suite.
ASSUME CasesAssumption == "suite" \notin Cases

VARIABLES
  \* The child cutter.
  alive,     \* the child holds the write end of the pipe
  done,      \* the messages each test case has written
  outcome,   \* the status of the test of each case
  sent,      \* the messages written to the pipe: their number, the last one, and
             \* whether one of them was stray (see Stray)
  wire,      \* the tags of that message that are still to be read
  \* The stream reader and its parser.
  reader,    \* "reading", "ended", "error" or "undefined"
  states,    \* the stack of states, innermost first
  heap,      \* the objects of the parser, by their address
  stacks,    \* the stacks of test objects, contexts and data, innermost first
  element,   \* the record of the message element, NULL outside of one
  result,    \* the result that is being read, or NULL
  option,    \* option_name and option_value
  completeSuccess, streamSuccess,
  relayed    \* the signals emitted on the parent's run context: their number, the
             \* last one, the complete-runs in them, a critical result in them

child  == <<alive, done, outcome, sent>>
parser == <<states, heap, stacks, element, result, option, completeSuccess,
            streamSuccess>>
vars   == <<child, wire, reader, parser, relayed>>

-----------------------------------------------------------------------------
\* What a signal carries.

None == [kind |-> "none", name |-> "none", attribute |-> "none"]
Object(kind, name) ==
  [kind |-> kind, name |-> name,
   attribute |-> IF kind \in Attributed THEN "set" ELSE "none"]

NoContext == [suite |-> None, case |-> None, iterator |-> None, test |-> None,
              data |-> None, failed |-> "none"]
NoResult == [case |-> None, iterator |-> None, test |-> None, data |-> None,
             status |-> "none"]
Message(signal) == [signal |-> signal, object |-> None, context |-> NoContext,
                    result |-> NoResult, success |-> "none"]

Suite       == Object("test-suite", "suite")
Case(c)     == Object("test-case", c)
Iterator(c) == IF c \in Driven THEN Object("test-iterator", c) ELSE None
Test(c)     == Object(IF c \in Driven THEN "iterated-test" ELSE "test", c)
Data(c)     == IF c \in Driven
               THEN [kind |-> "test-data", name |-> c, attribute |-> "none"]
               ELSE None

Bool(b) == IF b THEN "true" ELSE "false"
Passes(s) == s \notin {"pending", "failure", "error", "crash"}

Context(c, s) ==
  [suite |-> Suite, case |-> Case(c), iterator |-> Iterator(c),
   test |-> Test(c), data |-> Data(c), failed |-> Bool(~Passes(s))]
TestResult(c, s) == [case |-> Case(c), iterator |-> Iterator(c),
                     test |-> Test(c), data |-> Data(c), status |-> s]

-----------------------------------------------------------------------------
\* The messages of a test case whose test ends with s, in their order.

OnObject(signal, o) == [Message(signal) EXCEPT !.object = o]
OnTest(signal, c, s) ==
  [OnObject(signal, Test(c)) EXCEPT !.context = Context(c, s)]
WithStatus(m, r) == [m EXCEPT !.result = r]
WithSuccess(m, s) == [m EXCEPT !.success = Bool(Passes(s))]

TestScript(c, s) ==
  LET start == IF c \in Driven THEN "start-iterated-test" ELSE "start-test"
      complete == IF c \in Driven THEN "complete-iterated-test"
                                  ELSE "complete-test"
  IN <<OnTest(start, c, "success"), OnTest("pass-assertion", c, "success"),
       WithStatus(OnTest("test-result", c, s), TestResult(c, s)),
       WithSuccess(OnTest(complete, c, s), s)>>

IteratorScript(c, s) ==
  IF c \notin Driven THEN TestScript(c, s)
  ELSE <<OnObject("ready-test-iterator", Iterator(c)),
         OnObject("start-test-iterator", Iterator(c))>>
       \o TestScript(c, s)
       \o <<WithStatus(OnObject("test-iterator-result", Iterator(c)),
                       [NoResult EXCEPT !.case = Case(c),
                          !.iterator = Iterator(c), !.status = s]),
            WithSuccess(OnObject("complete-test-iterator", Iterator(c)), s)>>

CaseScript(c, s) ==
  <<OnObject("ready-test-case", Case(c)), OnObject("start-test-case", Case(c))>>
  \o IteratorScript(c, s)
  \o <<WithStatus(OnObject("test-case-result", Case(c)),
                  [NoResult EXCEPT !.case = Case(c), !.status = s]),
       WithSuccess(OnObject("complete-test-case", Case(c)), s)>>

Opening == <<Message("start-run"), OnObject("ready-test-suite", Suite),
             OnObject("start-test-suite", Suite)>>
Closing ==
  LET success == Bool(\A c \in Cases : Passes(outcome[c]))
  IN <<[OnObject("complete-test-suite", Suite) EXCEPT !.success = success],
       [Message("complete-run") EXCEPT !.success = success]>>

-----------------------------------------------------------------------------
\* The elements of a message.  A leaf is an element that holds text only.

Tag(tag, name)  == <<[tag |-> tag, name |-> name, text |-> "none"]>>
Leaf(name, text) == <<[tag |-> "leaf", name |-> name, text |-> text]>>
In(name, content) == Tag("start", name) \o content \o Tag("end", name)

AttributeXML(o) ==
  IF o.attribute = "none" THEN <<>>
  ELSE In("option", Leaf("name", "attribute") \o Leaf("value", o.attribute))
ObjectXML(o) ==
  IF o = None THEN <<>>
  ELSE In(o.kind, Leaf("name", o.name) \o AttributeXML(o))
ContextXML(c) ==
  IF c = NoContext THEN <<>>
  ELSE In("test-context",
          ObjectXML(c.suite) \o ObjectXML(c.case) \o ObjectXML(c.iterator)
          \o ObjectXML(c.test) \o ObjectXML(c.data) \o Leaf("failed", c.failed))
ResultXML(r) ==
  IF r = NoResult THEN <<>>
  ELSE In("result",
          ObjectXML(r.case) \o ObjectXML(r.iterator) \o ObjectXML(r.test)
          \o ObjectXML(r.data) \o Leaf("status", r.status))
SuccessXML(s) == IF s = "none" THEN <<>> ELSE Leaf("success", s)

XML(m) ==
  IF m.signal = "start-run" THEN Tag("start", "stream")
  ELSE IF m.signal = "complete-run"
  THEN SuccessXML(m.success) \o Tag("end", "stream")
  ELSE In(m.signal, ObjectXML(m.object) \o ContextXML(m.context)
                    \o ResultXML(m.result) \o SuccessXML(m.success))

-----------------------------------------------------------------------------
\* The grammar: which elements a state accepts.

TestObjects == {"test-suite", "test-case", "test-iterator", "test",
                "iterated-test"}
Signals ==
  {"ready-test-suite", "start-test-suite", "complete-test-suite",
   "ready-test-case", "start-test-case", "complete-test-case",
   "test-case-result", "ready-test-iterator", "start-test-iterator",
   "complete-test-iterator", "test-iterator-result", "start-test",
   "complete-test", "start-iterated-test", "complete-iterated-test",
   "pass-assertion", "test-result"}

Accepts(state) ==
  CASE state = "top"    -> {"stream"}
    [] state = "stream" -> Signals \cup {"success"}
    [] state \in {"ready-test-suite", "start-test-suite"} -> {"test-suite"}
    [] state = "complete-test-suite" -> {"test-suite", "success"}
    [] state \in {"ready-test-case", "start-test-case"} -> {"test-case"}
    [] state = "complete-test-case" -> {"test-case", "success"}
    [] state = "test-case-result" -> {"test-case", "result"}
    [] state \in {"ready-test-iterator", "start-test-iterator"} ->
         {"test-iterator"}
    [] state = "complete-test-iterator" -> {"test-iterator", "success"}
    [] state = "test-iterator-result" -> {"test-iterator", "result"}
    [] state = "start-test" -> {"test", "test-context"}
    [] state = "complete-test" -> {"test", "test-context", "success"}
    [] state = "start-iterated-test" -> {"iterated-test", "test-context"}
    [] state = "complete-iterated-test" ->
         {"iterated-test", "test-context", "success"}
    [] state = "pass-assertion" -> {"test", "iterated-test", "test-context"}
    [] state = "test-result" ->
         {"test", "iterated-test", "test-context", "result"}
    [] state = "test-context" -> TestObjects \cup {"test-data", "failed"}
    [] state = "result" ->
         (TestObjects \ {"test-suite"}) \cup {"test-data", "status"}
    [] state \in TestObjects -> {"name", "option"}
    [] state = "option" -> {"name", "value"}
    [] state = "test-data" -> {"name"}
    [] OTHER -> {}

-----------------------------------------------------------------------------
\* A message with an attribute that is not a test's: cut_test_to_xml_string() writes
\* an <option> for it in any test object, and data-driven tests have attributes too
\* (attributes_*() of cut-loader.c), but the parser sets it on a test (see EndOption).

Slots == {"suite", "case", "iterator", "test", "data"}
ObjectsOf(m) == {m.object} \cup {m.context[s] : s \in Slots}
                \cup {m.result[s] : s \in Slots \ {"suite"}}
Stray(m) == \E o \in ObjectsOf(m) :
              o.attribute # "none" /\ o.kind \notin {"test", "iterated-test"}

-----------------------------------------------------------------------------
\* The objects of the parser.  Addresses count from 1 and 0 is NULL.

Slot(kind) ==
  CASE kind = "test-suite" -> "suite"
    [] kind = "test-case" -> "case"
    [] kind = "test-iterator" -> "iterator"
    [] kind \in {"test", "iterated-test"} -> "test"
    [] kind = "test-data" -> "data"
    [] kind = "test-context" -> "context"

Empty(kind) ==
  [kind |-> kind, name |-> "none", attribute |-> "none",
   of |-> [s \in Slots |-> 0], text |-> "none"]
NoElement == [object |-> 0, context |-> 0, result |-> 0]

Peek(slot) == IF stacks[slot] = <<>> THEN 0 ELSE Head(stacks[slot])
Popped(slot) == IF stacks[slot] = <<>> THEN <<>> ELSE Tail(stacks[slot])

NewAddress == Len(heap) + 1

\* Between two messages only the stacks hold objects; the others are freed.
Collect(kept) ==
  LET live == UNION {Range(kept[s]) : s \in DOMAIN kept}
      moved(a) == Cardinality({b \in live : b <= a})
  IN /\ heap' = [i \in 1 .. Cardinality(live) |->
                   heap[CHOOSE a \in live : moved(a) = i]]
     /\ stacks' = [s \in DOMAIN kept |->
                     [i \in DOMAIN kept[s] |-> moved(kept[s][i])]]

\* The messages whose object the parser keeps on its stack only.
Stacked == {"start-test-suite", "start-test-case", "start-test-iterator",
            "complete-test-suite", "complete-test-case",
            "complete-test-iterator"}

\* The signal's object, context and result as the handlers see them.
Seen(a) == IF a = 0 THEN None
           ELSE [kind |-> heap[a].kind, name |-> heap[a].name,
                 attribute |-> heap[a].attribute]
SeenContext(a) ==
  IF a = 0 THEN NoContext
  ELSE [s \in Slots \cup {"failed"} |->
          IF s = "failed" THEN heap[a].text ELSE Seen(heap[a].of[s])]
SeenResult(a) ==
  IF a = 0 THEN NoResult
  ELSE [s \in (Slots \ {"suite"}) \cup {"status"} |->
          IF s = "status" THEN heap[a].text ELSE Seen(heap[a].of[s])]

-----------------------------------------------------------------------------
\* Signals on the parent's run context.

Emit(m) ==
  relayed' =
    [n |-> relayed.n + 1, last |-> m,
     completions |-> relayed.completions
                     + (IF m.signal = "complete-run" THEN 1 ELSE 0),
     critical |-> \/ relayed.critical
                  \/ m.signal = "test-result" /\ ~Passes(m.result.status)]

\* cut_run_context_emit_complete_run(): a critical result overrides success.
CompleteRun(success) ==
  Emit([Message("complete-run") EXCEPT
          !.success = IF relayed.critical THEN "false" ELSE success])

-----------------------------------------------------------------------------
\* Start of an element.

\* PUSH_STATE and the record or the empty object of a message.
StartSignal(e) ==
  /\ element' = NoElement
  /\ IF e \in {"start-test-suite", "start-test-case", "start-test-iterator"}
     THEN LET kind == IF e = "start-test-suite" THEN "test-suite"
                      ELSE IF e = "start-test-case" THEN "test-case"
                      ELSE "test-iterator"
          IN /\ heap' = Append(heap, Empty(kind))
             /\ stacks' = [stacks EXCEPT ![Slot(kind)] = <<NewAddress>> \o @]
     ELSE UNCHANGED <<heap, stacks>>
  /\ UNCHANGED result

\* A test object or test data is pushed, and set in the record, the context or
\* the result it is written in.
BugOwner(e) ==
  IF Head(states) = "test-context" THEN Peek("context")
  ELSE IF Head(states) = "result" /\ e # "iterated-test" THEN result ELSE 0
Owner(e) == IF Head(states) = "test-context" THEN Peek("context")
            ELSE IF Head(states) = "result" THEN result ELSE 0

StartObject(e) ==
  LET s == Slot(e)
      linked == IF Owner(e) = 0 THEN heap
                ELSE [heap EXCEPT ![Owner(e)].of[s] = NewAddress]
  IN /\ heap' = Append(linked, Empty(e))
     /\ stacks' = [stacks EXCEPT ![s] = <<NewAddress>> \o @]
     /\ element' = IF Head(states) \in Signals \ Stacked
                   THEN [element EXCEPT !.object = NewAddress] ELSE element
     /\ UNCHANGED result

StartContext ==
  /\ heap' = Append(heap, Empty("test-context"))
  /\ stacks' = [stacks EXCEPT !["context"] = <<NewAddress>> \o @]
  /\ element' = [element EXCEPT !.context = NewAddress]
  /\ UNCHANGED result

StartResult ==
  /\ heap' = Append(heap, Empty("result"))
  /\ result' = NewAddress
  /\ element' = [element EXCEPT !.result = NewAddress]
  /\ UNCHANGED stacks

StartElement(e) ==
  /\ states' = <<e>> \o states
  /\ \/ e \in Signals /\ StartSignal(e)
     \/ e \in TestObjects \cup {"test-data"} /\ StartObject(e)
     \/ e = "test-context" /\ StartContext
     \/ e = "result" /\ StartResult
     \/ e \in {"stream", "option"}
        /\ UNCHANGED <<heap, stacks, element, result>>
  /\ IF e = "stream" THEN Emit(Message("start-run")) ELSE UNCHANGED relayed
  /\ UNCHANGED <<reader, option, completeSuccess, streamSuccess>>

-----------------------------------------------------------------------------
\* Text of a leaf: e is the leaf, and the state below it is Head(states).

\* text_test_name(): the object the state stands for, NULL without one.
NamedObject == Peek(Slot(Head(states)))

TextName(text) ==
  /\ heap' = [heap EXCEPT ![NamedObject].name = text]
  /\ UNCHANGED <<option, completeSuccess, streamSuccess>>

TextOption(e, text) ==
  /\ option' = [option EXCEPT ![e] = text]
  /\ UNCHANGED <<heap, completeSuccess, streamSuccess>>

TextResultStatus(text) ==
  /\ heap' = [heap EXCEPT ![result].text = text]
  /\ UNCHANGED <<option, completeSuccess, streamSuccess>>

TextContextFailed(text) ==
  /\ heap' = [heap EXCEPT ![Peek("context")].text = text]
  /\ UNCHANGED <<option, completeSuccess, streamSuccess>>

\* The case of complete_success in text_handler() has no break and goes on with
\* the one of stream_success.
TextSuccess(text) ==
  /\ completeSuccess' = IF Head(states) = "stream" THEN completeSuccess
                                                   ELSE text
  /\ streamSuccess' = text
  /\ UNCHANGED <<heap, option>>

TextHandler(e, text) ==
  /\ \/ e = "name" /\ Head(states) = "option" /\ TextOption("name", text)
     \/ e = "name" /\ Head(states) # "option" /\ TextName(text)
     \/ e = "value" /\ TextOption("value", text)
     \/ e = "status" /\ TextResultStatus(text)
     \/ e = "failed" /\ TextContextFailed(text)
     \/ e = "success" /\ TextSuccess(text)
  /\ UNCHANGED <<reader, states, stacks, element, result, relayed>>

-----------------------------------------------------------------------------
\* End of an element: the state on top of the stack is dropped.

\* DROP_* of every object the context has; the context itself stays.
EndContext ==
  LET of == heap[Peek("context")].of
  IN /\ stacks' = [s \in DOMAIN stacks |->
                     IF s \in Slots /\ of[s] # 0 THEN Popped(s) ELSE stacks[s]]
     /\ UNCHANGED <<reader, heap, element, result, option, completeSuccess,
                    streamSuccess, relayed>>

\* end_test_option() sets the attribute on PEEK_TEST(), whatever object the
\* option is written in; without a test it dereferences NULL.
EndOption ==
  LET target == Peek("test")
  IN /\ IF target = 0
        THEN reader' = "undefined" /\ UNCHANGED heap
        ELSE heap' = [heap EXCEPT ![target].attribute = option.value]
             /\ UNCHANGED reader
     /\ option' = [name |-> "none", value |-> "none"]
     /\ UNCHANGED <<stacks, element, result, completeSuccess, streamSuccess,
                    relayed>>

\* The messages that hand a result on and forget it.
WithResult == {"test-result", "test-case-result", "test-iterator-result"}

\* end_*() of a message with a record: emit, drop its object and its context.
EndRecord(e) ==
  LET object == Seen(element.object)
      drop(s) == \/ element.context # 0 /\ s = "context"
                 \/ element.object # 0 /\ s = Slot(object.kind)
      completes == e \in {"complete-test", "complete-iterated-test"}
  IN /\ Emit([signal |-> e, object |-> object,
              context |-> SeenContext(element.context),
              result |-> SeenResult(element.result),
              success |-> IF completes THEN completeSuccess ELSE "none"])
     /\ Collect([s \in DOMAIN stacks |->
                   IF drop(s) THEN Popped(s) ELSE stacks[s]])
     /\ completeSuccess' = IF e = "complete-test" THEN "true"
                                                  ELSE completeSuccess
     /\ result' = IF e \in WithResult THEN 0 ELSE result

\* end_*() of a message without a record: emit the object it pops.
EndStacked(e) ==
  LET slot == IF e \in {"start-test-suite", "complete-test-suite"} THEN "suite"
              ELSE IF e \in {"start-test-case", "complete-test-case"}
              THEN "case" ELSE "iterator"
      completes == e \in {"complete-test-suite", "complete-test-case",
                          "complete-test-iterator"}
  IN /\ Emit([OnObject(e, Seen(Peek(slot))) EXCEPT
                !.success = IF completes THEN completeSuccess ELSE "none"])
     /\ Collect([stacks EXCEPT ![slot] = Popped(slot)])
     /\ completeSuccess' = IF completes THEN "true" ELSE completeSuccess
     /\ UNCHANGED result

EndSignal(e) ==
  /\ IF e \in Stacked THEN EndStacked(e) ELSE EndRecord(e)
  /\ element' = NoElement
  /\ UNCHANGED <<reader, option, streamSuccess>>

BugEndStream ==
  UNCHANGED <<reader, heap, stacks, element, result, option,
              completeSuccess, streamSuccess, relayed>>
EndStream ==
  /\ CompleteRun(streamSuccess)
  /\ UNCHANGED <<reader, heap, stacks, element, result, option,
                 completeSuccess, streamSuccess>>

EndElement(e) ==
  /\ states' = Tail(states)
  /\ \/ e \in Signals /\ EndSignal(e)
     \/ e = "stream" /\ EndStream
     \/ e = "test-context" /\ EndContext
     \/ e = "option" /\ EndOption
     \/ e \in TestObjects \cup {"test-data", "result"}
        /\ UNCHANGED <<reader, heap, stacks, element, result, option,
                       completeSuccess, streamSuccess, relayed>>

-----------------------------------------------------------------------------
TypeOK ==
  /\ alive \in BOOLEAN
  /\ done \in [Cases \cup {"suite"} -> Nat]
  /\ outcome \in [Cases -> Results]
  /\ reader \in {"reading", "ended", "error", "undefined"}
  /\ \A s \in DOMAIN stacks : \A i \in 1 .. Len(stacks[s]) :
       stacks[s][i] \in 1 .. Len(heap)
  /\ result \in 0 .. Len(heap)
  /\ element \in [object : 0 .. Len(heap), context : 0 .. Len(heap),
                  result : 0 .. Len(heap)]
  /\ completeSuccess \in {"true", "false"}
  /\ streamSuccess \in {"true", "false"}

Init ==
  /\ alive = TRUE
  /\ done = [c \in Cases \cup {"suite"} |-> 0]
  /\ outcome \in [Cases -> Results]
  /\ sent = [n |-> 0, last |-> Message("none"), stray |-> FALSE]
  /\ wire = <<>>
  /\ reader = "reading"
  /\ states = <<"top">>
  /\ heap = <<>>
  /\ stacks = [s \in Slots \cup {"context"} |-> <<>>]
  /\ element = NoElement
  /\ result = 0
  /\ option = [name |-> "none", value |-> "none"]
  /\ completeSuccess = "true" /\ streamSuccess = "true"
  /\ relayed = [n |-> 0, last |-> Message("none"), completions |-> 0,
                critical |-> FALSE]

\* flow(): a message goes to the pipe as a whole, under the stream's mutex.  The
\* pipe keeps the order, so that the child need not run ahead of the parser.
Flow(m) ==
  /\ alive /\ wire = <<>>
  /\ wire' = XML(m)
  /\ sent' = [n |-> sent.n + 1, last |-> m, stray |-> sent.stray \/ Stray(m)]
  /\ UNCHANGED <<alive, outcome, reader, parser, relayed>>

CasesAreDone == \A c \in Cases : done[c] = Len(CaseScript(c, outcome[c]))

WriteCase(c) ==
  LET script == CaseScript(c, outcome[c])
  IN /\ done["suite"] = Len(Opening)
     /\ done[c] < Len(script)
     /\ Flow(script[done[c] + 1])
     /\ done' = [done EXCEPT ![c] = @ + 1]

WriteSuite ==
  LET script == Opening \o Closing
      k == done["suite"] + 1
  IN /\ k <= Len(script)
     /\ k > Len(Opening) => CasesAreDone
     /\ Flow(script[k])
     /\ done' = [done EXCEPT !["suite"] = k]

\* The child exits after the last message, or dies in the middle of one: the
\* rest of it is never written.
Exit ==
  /\ alive
  /\ alive' = FALSE
  /\ wire' = <<>>
  /\ UNCHANGED <<done, outcome, sent, reader, parser, relayed>>

\* cut_stream_parser_parse() of the next tag.
Parse ==
  /\ reader = "reading" /\ wire # <<>>
  /\ LET tag == Head(wire)
     IN IF tag.tag = "end" THEN EndElement(tag.name)
        ELSE IF tag.name \notin Accepts(Head(states))
        THEN /\ CompleteRun("false")
             /\ reader' = "error"
             /\ UNCHANGED parser
        ELSE IF tag.tag = "leaf" THEN TextHandler(tag.name, tag.text)
        ELSE StartElement(tag.name)
  /\ wire' = Tail(wire)
  /\ UNCHANGED child

BugEndRead ==
  /\ reader = "reading" /\ ~alive /\ wire = <<>>
  /\ IF states = <<"top">> /\ relayed.n > 0
     THEN reader' = "ended" /\ UNCHANGED relayed
     ELSE reader' = "error" /\ CompleteRun(streamSuccess)
  /\ UNCHANGED <<child, wire, parser>>
BugEndReadQuietly ==
  /\ reader = "reading" /\ ~alive /\ wire = <<>>
  /\ reader' = IF states = <<"top">> /\ relayed.n > 0 THEN "ended" ELSE "error"
  /\ UNCHANGED <<child, wire, parser, relayed>>
\* cut_stream_reader_end_read() at the end of the pipe: an element that is still
\* open, or no element at all, is an error.
EndRead ==
  /\ reader = "reading" /\ ~alive /\ wire = <<>>
  /\ IF states = <<"top">> /\ relayed.n > 0
     THEN reader' = "ended" /\ UNCHANGED relayed
     ELSE reader' = "error" /\ CompleteRun("false")
  /\ UNCHANGED <<child, wire, parser>>

Ended == reader # "reading" /\ UNCHANGED vars

Next ==
  \/ \E c \in Cases : WriteCase(c)
  \/ WriteSuite
  \/ Exit
  \/ Parse
  \/ EndRead
  \/ Ended

Spec == Init /\ [][Next]_vars
\* The main loop keeps reading; the child ends sooner or later, by itself or not.
FairSpec == Spec /\ WF_vars(Parse) /\ WF_vars(EndRead) /\ WF_vars(Exit)

-----------------------------------------------------------------------------
\* Whenever a message has been read to its end, the parent's run context has emitted
\* as many signals as the child has: none is lost, made up or reordered, although the
\* messages of all threads go through the same stacks of cut-stream-parser.c.  And as
\* long as no stray message was sent, the last of them is the child's last, with the
\* same objects, attributes, context, result and success flag, and no handler
\* dereferences NULL.
RelayedAsSent ==
  /\ reader = "undefined" => sent.stray
  /\ alive /\ wire = <<>> /\ reader # "undefined" =>
       /\ relayed.n = sent.n
       /\ ~sent.stray => relayed.last = sent.last

\* An attribute reaches the parent with the object it was set on, whatever kind of
\* test that is (README: "You can add attributes to your test"; end_test_option()
\* keeps those of plain tests only).
AttributesAreRelayed ==
  /\ reader # "undefined"
  /\ alive /\ wire = <<>> => relayed.last.object = sent.last.object

\* The parent reports a success only for a run it has seen to its end and in
\* which every test passed: a child that dies, whatever it said before, is a
\* failure (emit_error() of cut-stream-reader.c; stream_success is also set by
\* every <success> of a test that completes, see TextSuccess).
SuccessIsWhole ==
  relayed.last = [Message("complete-run") EXCEPT !.success = "true"] =>
    /\ relayed.n = sent.n
    /\ CasesAreDone
    /\ \A c \in Cases : Passes(outcome[c])

\* complete-run is emitted once, after every other signal: by the end of the
\* stream or by the error that ended it, never by both.
CompletesOnce ==
  /\ relayed.completions = (IF relayed.last.signal = "complete-run" THEN 1 ELSE 0)
  /\ reader \in {"ended", "error"} => relayed.last.signal = "complete-run"

\* However the child ends, the parent's run is completed: nothing is left waiting
\* for it.
RunIsCompleted == <>(relayed.completions > 0)
=============================================================================
