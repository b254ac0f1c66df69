--------------------------- MODULE CutStreamProofs ---------------------------
(***************************************************************************)
(* Theorems about CutStream, the stream between a cutter and its child.    *)
(*                                                                         *)
(* The invariant says where in the stream the reader is: between two       *)
(* messages, in a message, in <stream> or in the last <success>, or past   *)
(* the end. A place in a message is what of it is still to be read, `Rest' *)
(* and `ObjectPlace', together with what the parser has built of the part  *)
(* it has read, `Built': the objects that the record, the context and the  *)
(* result refer to are those of the message, and the object that is being  *)
(* read is the last cell of the heap. There, `Completed' is the heap as it *)
(* will be when that object has been read.                                 *)
(*                                                                         *)
(* An <option> is set on the test on top of the stack, whatever object it  *)
(* is written in: what is built is the message's only if no other object   *)
(* of that message has an attribute, TestsOnly(m). All else is shown       *)
(* without that condition.                                                 *)
(*                                                                         *)
(* The proof has a lemma per kind of place, which says what the next tag   *)
(* does there, and then one per action.                                    *)
(***************************************************************************)
EXTENDS CutStream, FiniteSetTheorems, SequenceTheorems, TLAPS

\* Only tests have attributes in a message.
TestsOnly(m) == ~Stray(m)

-----------------------------------------------------------------------------
\* Types.

Texts == Cases \cup Results \cup {"suite", "none", "set", "true", "false", "attribute"}
Holders == {"test-context", "result"}
Kinds == TestObjects \cup {"test-data"}
Names == Signals \cup Kinds \cup Holders \cup
         {"stream", "option", "name", "value", "failed", "status", "success"}
Tags == [tag : {"start", "leaf", "end"}, name : Names, text : Texts]
Cells == [kind : Kinds \cup Holders, name : Texts, attribute : Texts,
          of : [Slots -> Nat], text : Texts]
Records(hp) == [object : 0 .. Len(hp), context : 0 .. Len(hp), result : 0 .. Len(hp)]

Objects == [kind : Kinds \cup {"none"}, name : Texts, attribute : {"none", "set"}]
Contexts == [suite : Objects, case : Objects, iterator : Objects, test : Objects,
             data : Objects, failed : Texts]
ResultRecords == [case : Objects, iterator : Objects, test : Objects,
                  data : Objects, status : Texts]
Messages == [signal : Signals, object : Objects, context : Contexts,
             result : ResultRecords, success : {"none", "true", "false"}]

ParserTyped ==
  /\ heap \in Seq(Cells)
  /\ stacks \in [Slots \cup {"context"} -> Seq(1 .. Len(heap))]
  /\ element \in Records(heap)
  /\ result \in 0 .. Len(heap)
  /\ option \in [name : Texts, value : Texts]
  /\ completeSuccess \in {"true", "false"} /\ streamSuccess \in {"true", "false"}

Typed ==
  /\ alive \in BOOLEAN
  /\ done \in [Cases \cup {"suite"} -> Nat]
  /\ outcome \in [Cases -> Results]
  /\ sent.n \in Nat /\ (~sent.stray => TestsOnly(sent.last))
  /\ wire \in Seq(Tags)
  /\ reader \in {"reading", "ended", "error", "undefined"}
  /\ states \in Seq(Names \cup {"top"}) /\ states # <<>>
  /\ ParserTyped
  /\ relayed.n \in Nat /\ relayed.completions \in Nat /\ relayed.critical \in BOOLEAN

-----------------------------------------------------------------------------
\* The messages between start-run and complete-run.

Completing == {"complete-test-suite", "complete-test-case", "complete-test-iterator",
               "complete-test", "complete-iterated-test"}

\* An object that may be written where s says, and has an attribute only if its kind has.
Fits(o, s) == /\ o # None => o.kind \in Kinds /\ Slot(o.kind) = s
              /\ o.attribute # "none" => o.kind \in Attributed \ {"test-data"}

WellFormed(m) ==
  /\ m \in Messages
  /\ m.object.kind \in TestObjects \cap Accepts(m.signal)
  /\ Fits(m.object, Slot(m.object.kind))
  /\ m.context # NoContext => /\ "test-context" \in Accepts(m.signal)
                              /\ m.signal \notin Stacked
                              /\ \A s \in Slots : Fits(m.context[s], s)
  /\ m.result # NoResult => /\ "result" \in Accepts(m.signal)
                            /\ m.signal \in WithResult
                            /\ \A s \in Slots \ {"suite"} : Fits(m.result[s], s)
  /\ (m.success # "none") <=> (m.signal \in Completing)
  /\ m.signal = "test-result" => \E c \in Cases : m.result.status = outcome[c]

-----------------------------------------------------------------------------
\* Places in a message: i in the message itself (h = "signal"), or in its context or
\* its result; and what is still to be read there.

SlotAt == <<"suite", "case", "iterator", "test", "data">>
Absent(m, h) == IF h = "test-context" THEN m.context = NoContext ELSE m.result = NoResult
Part(m, h, s) == IF h = "test-context" THEN m.context[s]
                 ELSE IF s = "suite" THEN None ELSE m.result[s]
LeafName(h) == IF h = "test-context" THEN "failed" ELSE "status"
LeafText(m, h) == IF h = "test-context" THEN m.context.failed ELSE m.result.status

End(m) == Tag("end", m.signal)
SuccessRest(m) == SuccessXML(m.success) \o End(m)
ResultRest(m) == ResultXML(m.result) \o SuccessRest(m)
ContextRest(m) == ContextXML(m.context) \o ResultRest(m)
ObjectRest(m) == ObjectXML(m.object) \o ContextRest(m)

After(m, h) == IF h = "test-context" THEN ResultRest(m) ELSE SuccessRest(m)
Rest7(m, h) == Tag("end", h) \o After(m, h)
Rest6(m, h) == Leaf(LeafName(h), LeafText(m, h)) \o Rest7(m, h)
Rest5(m, h) == ObjectXML(Part(m, h, "data")) \o Rest6(m, h)
Rest4(m, h) == ObjectXML(Part(m, h, "test")) \o Rest5(m, h)
Rest3(m, h) == ObjectXML(Part(m, h, "iterator")) \o Rest4(m, h)
Rest2(m, h) == ObjectXML(Part(m, h, "case")) \o Rest3(m, h)
Rest1(m, h) == ObjectXML(Part(m, h, "suite")) \o Rest2(m, h)

Rest(m, h, i) ==
  IF h = "signal"
  THEN CASE i = 0 -> ObjectRest(m) [] i = 1 -> ContextRest(m) [] i = 2 -> ResultRest(m)
         [] i = 3 -> SuccessRest(m) [] i = 4 -> End(m)
  ELSE CASE i = 1 -> Rest1(m, h) [] i = 2 -> Rest2(m, h) [] i = 3 -> Rest3(m, h)
         [] i = 4 -> Rest4(m, h) [] i = 5 -> Rest5(m, h) [] i = 6 -> Rest6(m, h)
         [] i = 7 -> Rest7(m, h)

Places == {"signal"} \X (0 .. 4) \cup Holders \X (1 .. 7)
ObjectPlaces == {<<"signal", 0>>} \cup Holders \X (1 .. 5)
StreamStates == <<"stream">> \o <<"top">>
SignalStates(m) == <<m.signal>> \o StreamStates
StatesAt(m, h) == IF h = "signal" THEN SignalStates(m) ELSE <<h>> \o SignalStates(m)
ObjectStates(m, h, k) == <<k>> \o StatesAt(m, h)
ObjectAt(m, h, i) == IF h = "signal" THEN m.object ELSE Part(m, h, SlotAt[i])

\* In an object: its name, its attribute and its end are still to be read.
ObjectEnd(o, rest) == Tag("end", o.kind) \o rest
OptionEnd(o, rest) == Tag("end", "option") \o ObjectEnd(o, rest)
OptionValue(o, rest) == Leaf("value", o.attribute) \o OptionEnd(o, rest)
OptionName(o, rest) == Leaf("name", "attribute") \o OptionValue(o, rest)
ObjectAttribute(o, rest) == AttributeXML(o) \o ObjectEnd(o, rest)
ObjectName(o, rest) == Leaf("name", o.name) \o ObjectAttribute(o, rest)
ObjectPlace(o, j, rest) ==
  CASE j = 1 -> ObjectName(o, rest) [] j = 2 -> ObjectAttribute(o, rest)
    [] j = 3 -> OptionName(o, rest) [] j = 4 -> OptionValue(o, rest)
    [] j = 5 -> OptionEnd(o, rest) [] j = 6 -> ObjectEnd(o, rest)

-----------------------------------------------------------------------------
\* What the parser has made of what it has read, with the objects hp, the record el of
\* the message, the stacks st, and the result rs.

Shown(hp, a) == IF a = 0 THEN None ELSE [kind |-> hp[a].kind, name |-> hp[a].name,
                                         attribute |-> hp[a].attribute]
First(st, s) == IF st[s] = <<>> THEN 0 ELSE Head(st[s])

ObjectRead(hp, el, st, m) ==
  LET a == IF m.signal \in Stacked THEN First(st, Slot(m.object.kind)) ELSE el.object
  IN /\ a \in 1 .. Len(hp) /\ Shown(hp, a) = m.object
     /\ m.signal \in Stacked => el.object = 0

Holder(el, h) == IF h = "test-context" THEN el.context ELSE el.result
Filled(hp, el, m, h, i) ==
  /\ Holder(el, h) \in 1 .. Len(hp)
  /\ \A j \in 1 .. 5 :
       LET a == hp[Holder(el, h)].of[SlotAt[j]]
       IN IF j < i THEN a \in 0 .. Len(hp) /\ Shown(hp, a) = ObjectAt(m, h, j)
                   ELSE a = 0
  /\ i = 7 => hp[Holder(el, h)].text = LeafText(m, h)
Read(hp, el, m, h) == IF Absent(m, h) THEN Holder(el, h) = 0 ELSE Filled(hp, el, m, h, 7)

BuiltSignal(hp, el, st, m, i) ==
  /\ i = 0 => el = NoElement
  /\ i > 0 => ObjectRead(hp, el, st, m)
  /\ i = 1 => el.context = 0
  /\ i > 1 => Read(hp, el, m, "test-context")
  /\ i \in {1, 2} => el.result = 0
  /\ i > 2 => Read(hp, el, m, "result")
BuiltHolder(hp, el, st, rs, m, h, i) ==
  /\ ObjectRead(hp, el, st, m) /\ Filled(hp, el, m, h, i)
  /\ h = "test-context" => el.result = 0 /\ First(st, "context") = el.context
  /\ h = "result" => /\ Read(hp, el, m, "test-context")
                     /\ rs = el.result /\ el.context # el.result
Built(hp, el, st, rs, m, h, i) ==
  IF h = "signal" THEN BuiltSignal(hp, el, st, m, i) ELSE BuiltHolder(hp, el, st, rs, m, h, i)

Control(m, h, i) ==
  /\ h \in Holders => ~Absent(m, h)
  /\ result # 0 => m.result # NoResult /\ (h = "result" \/ (h = "signal" /\ i >= 3))
  /\ h = "signal" /\ i = 4 /\ m.success # "none" => completeSuccess = m.success

AtStart(m) == /\ states = StreamStates /\ result = 0
              /\ wire = Tag("start", m.signal) \o ObjectRest(m)

AtPlace(m, h, i) ==
  /\ states = StatesAt(m, h) /\ wire = Rest(m, h, i)
  /\ Control(m, h, i)
  /\ TestsOnly(m) => Built(heap, element, stacks, result, m, h, i)

\* The heap as it is when the object that is being read has been read.
Final(cell, o) == [kind |-> cell.kind, name |-> o.name, attribute |-> o.attribute,
                   of |-> cell.of, text |-> cell.text]
Completed(hp, o) == [hp EXCEPT ![Len(hp)] = Final(hp[Len(hp)], o)]

Current(hp, st, op, o, j) ==
  LET a == Len(hp)
  IN /\ a # 0 /\ hp[a].kind = o.kind /\ First(st, Slot(o.kind)) = a
     /\ j > 1 => hp[a].name = o.name
     /\ hp[a].attribute = IF j = 6 THEN o.attribute ELSE "none"
     /\ j = 5 => op.value = o.attribute

InObject(m, h, i, j) ==
  LET o == ObjectAt(m, h, i)
  IN /\ o # None
     /\ states = IF j \in 3 .. 5 THEN <<"option">> \o ObjectStates(m, h, o.kind)
                                 ELSE ObjectStates(m, h, o.kind)
     /\ wire = ObjectPlace(o, j, Rest(m, h, i + 1))
     /\ Control(m, h, i)
     /\ j \in 3 .. 5 => o.attribute # "none"
     /\ TestsOnly(m) =>
          /\ Current(heap, stacks, option, o, j)
          /\ Built(Completed(heap, o), element, stacks, result, m, h, i + 1)

\* Somewhere in a message.
Position(m) == \/ AtStart(m) \/ \E p \in Places : AtPlace(m, p[1], p[2])
               \/ \E p \in ObjectPlaces, j \in 1 .. 6 : InObject(m, p[1], p[2], j)

-----------------------------------------------------------------------------
\* The invariant.

Open == relayed.completions = 0 /\ relayed.last.signal # "complete-run"
Finale(success) == [Message("complete-run") EXCEPT !.success = success]
AllPass == Bool(\A c \in Cases : Passes(outcome[c]))

\* Between two messages.
Between ==
  /\ wire = <<>> /\ relayed.n = sent.n /\ result = 0
  /\ done["suite"] < 5 /\ (done["suite"] = 0 <=> relayed.n = 0)
  /\ states = IF done["suite"] = 0 THEN <<"top">> ELSE StreamStates
  /\ ~sent.stray => relayed.last = sent.last

InMessage ==
  /\ done["suite"] \in 2 .. 4 /\ relayed.n > 0 /\ relayed.n + 1 = sent.n
  /\ \E m \in {sent.last} : WellFormed(m) /\ Position(m)

InStart ==
  /\ done["suite"] = 1 /\ relayed.n = 0 /\ sent.n = 1 /\ result = 0
  /\ sent.last = Message("start-run") /\ states = <<"top">> /\ wire = Tag("start", "stream")

InFinale ==
  /\ done["suite"] = 5 /\ CasesAreDone /\ relayed.n > 0 /\ relayed.n + 1 = sent.n
  /\ result = 0
  /\ sent.last = Finale(AllPass) /\ states = StreamStates
  /\ \/ wire = Leaf("success", AllPass) \o Tag("end", "stream")
     \/ wire = Tag("end", "stream") /\ streamSuccess = AllPass


Running == 
  /\ reader = "reading" /\ Open
  /\ alive => Between \/ InMessage \/ InStart \/ InFinale
  /\ ~alive => wire = <<>> /\ (states = <<"top">> => relayed.n = 0)

Finished ==
  /\ reader \in {"reading", "ended"} /\ done["suite"] = 5 /\ CasesAreDone
  /\ reader = "ended" => ~alive
  /\ wire = <<>> /\ states = <<"top">> /\ relayed.n = sent.n /\ relayed.n > 0
  /\ relayed.completions = 1
  /\ \E success \in {"true", "false"} : relayed.last = Finale(success)
  /\ relayed.last.success = "true" => \A c \in Cases : Passes(outcome[c])
  /\ ~sent.stray => relayed.last = sent.last

Broken == /\ reader = "error" /\ ~alive /\ relayed.completions = 1
          /\ relayed.last = Finale("false")

Inv ==
  /\ Typed
  /\ done["suite"] > 3 => CasesAreDone
  /\ ~sent.stray /\ relayed.critical => \E c \in Cases : ~Passes(outcome[c])
  /\ \/ Running \/ Finished \/ Broken
     \/ reader = "undefined" /\ sent.stray /\ Open

-----------------------------------------------------------------------------
\* Names: which element is which, and what a state accepts.

\* The names of the elements, kind by kind.
LEMMA NameFacts ==
  /\ Signals \subseteq Names /\ Kinds \subseteq Names /\ Holders \subseteq Names
  /\ Signals \cap (Kinds \cup Holders) = {} /\ Kinds \cap Holders = {}
  /\ \A n \in Signals \cup Kinds \cup Holders :
       n \notin {"stream", "option", "name", "value", "failed", "status", "success", "top",
                 "none"}
  /\ "none" \notin Names /\ "top" \notin Names
BY DEF Names, Signals, Kinds, Holders, TestObjects

\* The grammar of the states that are not signals.
LEMMA AcceptsFacts ==
  /\ Accepts("top") = {"stream"} /\ Accepts("stream") = Signals \cup {"success"}
  /\ Accepts("test-context") = Kinds \cup {"failed"}
  /\ Accepts("result") = (Kinds \ {"test-suite"}) \cup {"status"}
  /\ \A k \in TestObjects : Accepts(k) = {"name", "option"}
  /\ Accepts("option") = {"name", "value"} /\ Accepts("test-data") = {"name"}
  /\ \A s \in Completing : "success" \in Accepts(s)
BY DEF Accepts, Signals, TestObjects, Kinds, Completing

\* The slots, and their order in a context and in a result.
LEMMA SlotFacts ==
  /\ \A k \in Kinds : Slot(k) \in Slots
  /\ \A k \in Kinds : Slot(k) = "suite" => k = "test-suite"
  /\ \A k \in Kinds : Slot(k) = "data" <=> k = "test-data"
  /\ Slot("test") = "test" /\ Slot("iterated-test") = "test"
  /\ Slot("test-context") = "context" /\ "context" \notin Slots
  /\ \A i \in 1 .. 5 : SlotAt[i] \in Slots
  /\ \A i, j \in 1 .. 5 : SlotAt[i] = SlotAt[j] => i = j
  /\ \A s \in Slots : \E i \in 1 .. 5 : s = SlotAt[i]
  /\ \A i \in 1 .. 5 : SlotAt[i] = "suite" <=> i = 1
  /\ SlotAt[1] = "suite" /\ SlotAt[2] = "case" /\ SlotAt[3] = "iterator"
  /\ SlotAt[4] = "test" /\ SlotAt[5] = "data"
BY DEF Slot, Slots, SlotAt, Kinds, TestObjects

-----------------------------------------------------------------------------
\* Wires.

\* The first element of a sequence, and the rest.
LEMMA FirstOfWire ==
  ASSUME NEW S, NEW t \in S, NEW w \in Seq(S)
  PROVE  /\ <<t>> \o w \in Seq(S) /\ <<t>> \o w # <<>>
         /\ Head(<<t>> \o w) = t /\ Tail(<<t>> \o w) = w
<1> DEFINE s == <<t>>
           u == s \o w
<1>1. s \in Seq(S) /\ Len(s) = 1 /\ s[1] = t
  OBVIOUS
<1> HIDE DEF s
<1>a. /\ s \o w \in Seq(S) /\ Len(s \o w) = Len(s) + Len(w)
      /\ \A i \in 1 .. Len(s) + Len(w) :
           (s \o w)[i] = IF i <= Len(s) THEN s[i] ELSE w[i - Len(s)]
  BY <1>1, ConcatProperties
<1>2. /\ u \in Seq(S) /\ Len(u) = 1 + Len(w)
      /\ \A i \in 1 .. 1 + Len(w) : u[i] = IF i <= 1 THEN s[i] ELSE w[i - 1]
  BY <1>1, <1>a
<1>3. Len(w) \in Nat
  OBVIOUS
<1> HIDE DEF u
<1>4. u # <<>> /\ Head(u) = t
  BY <1>1, <1>2, <1>3
<1>5. Tail(u) \in Seq(S) /\ Len(Tail(u)) = Len(w) /\ \A i \in 1 .. Len(w) : Tail(u)[i] = w[i]
  BY <1>2, <1>3, <1>4, HeadTailProperties
<1>6. Tail(u) = w
  BY <1>5, SeqEqual
<1> QED  BY <1>2, <1>4, <1>6 DEF u, s

\* A tag and what follows it.
LEMMA TagCons ==
  ASSUME NEW k \in {"start", "end"}, NEW n \in Names, NEW w \in Seq(Tags)
  PROVE  /\ Tag(k, n) \in Seq(Tags) /\ Tag(k, n) \o w \in Seq(Tags) /\ Tag(k, n) \o w # <<>>
         /\ Head(Tag(k, n) \o w).tag = k /\ Head(Tag(k, n) \o w).name = n
         /\ Tail(Tag(k, n) \o w) = w
<1> DEFINE t == [tag |-> k, name |-> n, text |-> "none"]
<1>1. t \in Tags /\ t.tag = k /\ t.name = n
  BY DEF Tags, Texts
<1>2. Tag(k, n) = <<t>>
  BY DEF Tag
<1> HIDE DEF t
<1>3. <<t>> \in Seq(Tags)
  BY <1>1
<1> QED  BY <1>1, <1>2, <1>3, FirstOfWire

\* A leaf and what follows it.
LEMMA LeafCons ==
  ASSUME NEW n \in Names, NEW x \in Texts, NEW w \in Seq(Tags)
  PROVE  /\ Leaf(n, x) \in Seq(Tags) /\ Leaf(n, x) \o w \in Seq(Tags) /\ Leaf(n, x) \o w # <<>>
         /\ Head(Leaf(n, x) \o w).tag = "leaf" /\ Head(Leaf(n, x) \o w).name = n
         /\ Head(Leaf(n, x) \o w).text = x /\ Tail(Leaf(n, x) \o w) = w
<1> DEFINE t == [tag |-> "leaf", name |-> n, text |-> x]
<1>1. t \in Tags /\ t.tag = "leaf" /\ t.name = n /\ t.text = x
  BY DEF Tags
<1>2. Leaf(n, x) = <<t>>
  BY DEF Leaf
<1> HIDE DEF t
<1>3. <<t>> \in Seq(Tags)
  BY <1>1
<1> QED  BY <1>1, <1>2, <1>3, FirstOfWire

\* An element and what follows it: its tags come one after the other.
LEMMA Element ==
  ASSUME NEW n \in Names, NEW x \in Seq(Tags), NEW w \in Seq(Tags)
  PROVE  /\ In(n, x) \in Seq(Tags)
         /\ In(n, x) \o w = Tag("start", n) \o (x \o (Tag("end", n) \o w))
<1> DEFINE s == Tag("start", n)
           e == Tag("end", n)
<1>1. s \in Seq(Tags) /\ e \in Seq(Tags)
  BY TagCons
<1>2. In(n, x) = (s \o x) \o e \/ In(n, x) = s \o (x \o e)
  BY DEF In
<1> HIDE DEF s, e
<1>3. s \o x \in Seq(Tags) /\ e \o w \in Seq(Tags) /\ (s \o x) \o e = s \o (x \o e)
  BY <1>1, ConcatProperties, ConcatAssociative
<1> DEFINE h == s \o x
<1>a. h \in Seq(Tags)
  BY <1>3
<1> HIDE DEF h
<1>b. h \o e \in Seq(Tags) /\ (h \o e) \o w = h \o (e \o w)
  BY <1>1, <1>a, ConcatProperties, ConcatAssociative, SMTT(30)
<1>4. (s \o x) \o e \in Seq(Tags) /\ ((s \o x) \o e) \o w = (s \o x) \o (e \o w)
  BY <1>b DEF h
<1>5. (s \o x) \o (e \o w) = s \o (x \o (e \o w))
  BY <1>1, <1>3, ConcatAssociative, SMTT(30)
<1> QED  BY <1>2, <1>3, <1>4, <1>5 DEF s, e

\* Concatenation is associative.
LEMMA Chained ==
  ASSUME NEW S, NEW a \in Seq(S), NEW b \in Seq(S), NEW c \in Seq(S)
  PROVE  a \o b \in Seq(S) /\ (a \o b) \o c = a \o (b \o c)
BY ConcatProperties, ConcatAssociative

\* Five pieces and the rest.
Pieces(S, a, b, c, d, e, w) ==
  /\ a \in Seq(S) /\ b \in Seq(S) /\ c \in Seq(S) /\ d \in Seq(S) /\ e \in Seq(S)
  /\ w \in Seq(S)

Chain(a, b, c, d, e, w) == a \o (b \o (c \o (d \o (e \o w))))

\* The same for five pieces.
LEMMA Chained5 ==
  ASSUME NEW S, NEW a, NEW b, NEW c, NEW d, NEW e, NEW w
  PROVE  Pieces(S, a, b, c, d, e, w) =>
         /\ a \o b \o c \o d \o e \in Seq(S)
         /\ (a \o b \o c \o d \o e) \o w = Chain(a, b, c, d, e, w)
<1>0. SUFFICES ASSUME a \in Seq(S), b \in Seq(S), c \in Seq(S), d \in Seq(S), e \in Seq(S),
                      w \in Seq(S)
      PROVE  /\ a \o b \o c \o d \o e \in Seq(S)
             /\ (a \o b \o c \o d \o e) \o w = Chain(a, b, c, d, e, w)
  BY DEF Pieces
<1> DEFINE ew == e \o w
           dw == d \o ew
           cw == c \o dw
           bw == b \o cw
           ab == a \o b
           ac == ab \o c
           ad == ac \o d
<1> HIDE DEF ew, dw, cw, bw, ab, ac, ad
<1>1. ew \in Seq(S)
  BY <1>0 DEF ew
<1>2. dw \in Seq(S)
  BY <1>0, <1>1 DEF dw
<1>3. cw \in Seq(S)
  BY <1>0, <1>2 DEF cw
<1>5. ab \in Seq(S)
  BY <1>0 DEF ab
<1>6. ac \in Seq(S)
  BY <1>0, <1>5 DEF ac
<1>7. ad \in Seq(S)
  BY <1>0, <1>6 DEF ad
<1>8. ad \o e \in Seq(S)
  BY <1>0, <1>7
<1>a1. a \in Seq(S) /\ b \in Seq(S)
  BY <1>0
<1>a. (a \o b) \o cw = a \o (b \o cw)
  BY <1>3, <1>a1, ConcatAssociative
<1>b1. c \in Seq(S)
  BY <1>0
<1>b. (ab \o c) \o dw = ab \o (c \o dw)
  BY <1>2, <1>5, <1>b1, ConcatAssociative
<1>c1. d \in Seq(S)
  BY <1>0
<1>c. (ac \o d) \o ew = ac \o (d \o ew)
  BY <1>1, <1>6, <1>c1, ConcatAssociative
<1>d1. e \in Seq(S) /\ w \in Seq(S)
  BY <1>0
<1>d. (ad \o e) \o w = ad \o (e \o w)
  BY <1>7, <1>d1, ConcatAssociative
<1>9. (ad \o e) \o w = a \o bw
  BY <1>a, <1>b, <1>c, <1>d DEF ab, ac, ad, bw, cw, dw, ew
<1>10. (ad \o e) \o w = Chain(a, b, c, d, e, w)
  BY <1>9 DEF Chain, bw, cw, dw, ew
<1> QED  BY <1>8, <1>10 DEF ad, ac, ab

\* What has no text is not on the wire.
LEMMA Nothing ==
  ASSUME NEW w \in Seq(Tags)
  PROVE  <<>> \in Seq(Tags) /\ <<>> \o w = w
BY ConcatEmptySeq, EmptySeq

\* An object that can be written.
Written(o) == o \in Objects /\ (o # None => o.kind \in Kinds)

\* The places of an object after its name.
LEMMA AttributeWire ==
  ASSUME NEW o \in Objects, o.kind \in Kinds, NEW w \in Seq(Tags)
  PROVE  /\ AttributeXML(o) \in Seq(Tags)
         /\ \A j \in 2 .. 6 : ObjectPlace(o, j, w) \in Seq(Tags)
         /\ o.attribute = "none" => ObjectPlace(o, 2, w) = ObjectPlace(o, 6, w)
         /\ o.attribute # "none" =>
              ObjectPlace(o, 2, w) = Tag("start", "option") \o ObjectPlace(o, 3, w)
<1>1. /\ o.kind \in Names /\ "option" \in Names /\ "name" \in Names /\ "value" \in Names
      /\ o.attribute \in Texts /\ "attribute" \in Texts
  BY NameFacts DEF Objects, Names, Texts
<1>2. ObjectEnd(o, w) \in Seq(Tags)
  BY <1>1, TagCons DEF ObjectEnd
<1>3. OptionEnd(o, w) \in Seq(Tags)
  BY <1>1, <1>2, TagCons DEF OptionEnd
<1>4. OptionValue(o, w) \in Seq(Tags)
  BY <1>1, <1>3, LeafCons DEF OptionValue
<1>5. OptionName(o, w) \in Seq(Tags)
  BY <1>1, <1>4, LeafCons DEF OptionName
<1>6. CASE o.attribute = "none"
  <2>1. AttributeXML(o) = <<>>
    BY <1>6 DEF AttributeXML
  <2>2. ObjectAttribute(o, w) = ObjectEnd(o, w) /\ AttributeXML(o) \in Seq(Tags)
    BY <1>2, <2>1, Nothing DEF ObjectAttribute
  <2> QED  BY <1>2, <1>3, <1>4, <1>5, <1>6, <2>2 DEF ObjectPlace
<1>7. CASE o.attribute # "none"
  <2> DEFINE a == Leaf("name", "attribute")
             b == Leaf("value", o.attribute)
             e == Tag("end", "option")
             end == ObjectEnd(o, w)
  <2>1. a \in Seq(Tags) /\ b \in Seq(Tags) /\ e \in Seq(Tags) /\ end \in Seq(Tags)
    BY <1>1, <1>2, TagCons, LeafCons
  <2>2. AttributeXML(o) = In("option", a \o b)
    BY <1>7 DEF AttributeXML
  <2>3. OptionName(o, w) = a \o (b \o (e \o end))
    BY DEF OptionName, OptionValue, OptionEnd
  <2> DEFINE rest == e \o end
  <2> HIDE DEF a, b, e, end, rest
  <2>4. a \o b \in Seq(Tags) /\ rest \in Seq(Tags)
    BY <2>1, Chained DEF rest
  <2>a. (a \o b) \o rest = a \o (b \o rest)
    BY <2>1, <2>4, Chained
  <2>5. (a \o b) \o (e \o end) = a \o (b \o (e \o end))
    BY <2>a DEF rest
  <2>6. /\ In("option", a \o b) \in Seq(Tags)
        /\ In("option", a \o b) \o end = Tag("start", "option") \o ((a \o b) \o (e \o end))
    BY <1>1, <2>1, <2>4, Element DEF e
  <2>7. ObjectAttribute(o, w) = Tag("start", "option") \o OptionName(o, w)
    BY <2>2, <2>3, <2>5, <2>6 DEF ObjectAttribute, end
  <2>8. ObjectAttribute(o, w) \in Seq(Tags)
    BY <1>1, <1>5, <2>7, TagCons
  <2> QED  BY <1>2, <1>3, <1>4, <1>5, <1>7, <2>2, <2>6, <2>7, <2>8 DEF ObjectPlace
<1> QED  BY <1>6, <1>7

\* An object on the wire.
LEMMA ObjectWire ==
  ASSUME NEW o, Written(o), NEW w \in Seq(Tags)
  PROVE  /\ ObjectXML(o) \in Seq(Tags) /\ ObjectXML(o) \o w \in Seq(Tags)
         /\ o = None => ObjectXML(o) \o w = w
         /\ o # None =>
              /\ ObjectXML(o) \o w = Tag("start", o.kind) \o ObjectPlace(o, 1, w)
              /\ \A j \in 1 .. 6 : ObjectPlace(o, j, w) \in Seq(Tags)
<1>1. CASE o = None
  <2>1. ObjectXML(o) = <<>>
    BY <1>1 DEF ObjectXML
  <2> QED  BY <1>1, <2>1, Nothing
<1>2. CASE o # None
  <2> DEFINE a == Leaf("name", o.name)
             b == AttributeXML(o)
             end == Tag("end", o.kind)
  <2>1. /\ o \in Objects /\ o.kind \in Kinds /\ o.kind \in Names /\ "name" \in Names
        /\ o.name \in Texts
    BY <1>2, NameFacts DEF Written, Objects, Names
  <2>2. a \in Seq(Tags) /\ b \in Seq(Tags) /\ end \in Seq(Tags) /\ end \o w \in Seq(Tags)
    BY <2>1, LeafCons, TagCons, AttributeWire
  <2>3. ObjectXML(o) = In(o.kind, a \o b)
    BY <1>2 DEF ObjectXML
  <2>4. ObjectName(o, w) = a \o (b \o (end \o w))
    BY DEF ObjectName, ObjectAttribute, ObjectEnd
  <2> DEFINE rest == end \o w
  <2> HIDE DEF a, b, rest
  <2>a. rest \in Seq(Tags)
    BY <2>2 DEF rest
  <2>b. a \o b \in Seq(Tags) /\ (a \o b) \o rest = a \o (b \o rest)
    BY <2>2, <2>a, Chained, SMTT(30)
  <2>5. a \o b \in Seq(Tags) /\ (a \o b) \o (end \o w) = a \o (b \o (end \o w))
    BY <2>b DEF rest
  <2>c. /\ In(o.kind, a \o b) \in Seq(Tags)
        /\ In(o.kind, a \o b) \o w = Tag("start", o.kind) \o ((a \o b) \o (end \o w))
    BY <2>1, <2>5, Element
  <2>6. /\ ObjectXML(o) \in Seq(Tags)
        /\ ObjectXML(o) \o w = Tag("start", o.kind) \o ObjectName(o, w)
    BY <2>3, <2>4, <2>5, <2>c
  <2>7. b \o (end \o w) \in Seq(Tags)
    BY <2>2, Chained
  <2>8. ObjectName(o, w) \in Seq(Tags)
    BY <2>1, <2>4, <2>7, LeafCons DEF a
  <2>9. ObjectXML(o) \o w \in Seq(Tags)
    BY <2>1, <2>6, <2>8, TagCons
  <2>10. \A j \in 2 .. 6 : ObjectPlace(o, j, w) \in Seq(Tags)
    BY <2>1, AttributeWire
  <2>11. ObjectPlace(o, 1, w) = ObjectName(o, w)
    BY DEF ObjectPlace
  <2> QED  BY <1>2, <2>6, <2>8, <2>9, <2>10, <2>11, SMTT(30)
<1> QED  BY <1>1, <1>2

\* What is in a message that can be sent.
LEMMA MessageFacts ==
  ASSUME NEW m, WellFormed(m)
  PROVE  /\ Written(m.object) /\ m.object # None /\ m.signal \in Signals /\ m.signal \in Names
         /\ m.context.failed \in Texts /\ m.result.status \in Texts
         /\ m.success \in {"none", "true", "false"} /\ m.success \in Texts
         /\ \A h \in Holders : ~Absent(m, h) =>
              /\ \A i \in 1 .. 5 : Written(ObjectAt(m, h, i)) /\ Fits(ObjectAt(m, h, i), SlotAt[i])
              /\ ObjectAt(m, "result", 1) = None
<1>1. m \in Messages /\ m.object.kind \in TestObjects
  BY DEF WellFormed
<1>2. /\ m.object \in Objects /\ m.signal \in Signals /\ m.context \in Contexts
      /\ m.result \in ResultRecords /\ m.success \in {"none", "true", "false"}
  BY <1>1 DEF Messages
<1>3. m.object # None
  BY <1>1, <1>2 DEF None, TestObjects
<1>4. ASSUME NEW h \in Holders, ~Absent(m, h)
      PROVE  /\ \A i \in 1 .. 5 : Written(ObjectAt(m, h, i)) /\ Fits(ObjectAt(m, h, i), SlotAt[i])
             /\ ObjectAt(m, "result", 1) = None
  <2>1. None \in Objects /\ None.attribute = "none"
    BY DEF None, Objects, Texts
  <2>2. h # "signal"
    BY DEF Holders
  <2>3. CASE h = "test-context"
    <3>1. \A s \in Slots : Fits(m.context[s], s)
      BY <1>4, <2>3 DEF WellFormed, Absent
    <3>2. \A s \in Slots : m.context[s] \in Objects
      BY <1>2 DEF Contexts, Slots
    <3>3. \A i \in 1 .. 5 : ObjectAt(m, h, i) = m.context[SlotAt[i]] /\ SlotAt[i] \in Slots
      BY <2>3, SlotFacts DEF ObjectAt, Part
    <3>4. ObjectAt(m, "result", 1) = None
      BY SlotFacts DEF ObjectAt, Part
    <3> QED  BY <3>1, <3>2, <3>3, <3>4 DEF Written, Fits
  <2>4. CASE h = "result"
    <3>1. \A s \in Slots \ {"suite"} : Fits(m.result[s], s)
      BY <1>4, <2>4 DEF WellFormed, Absent
    <3>2. \A s \in Slots \ {"suite"} : m.result[s] \in Objects
      BY <1>2 DEF ResultRecords, Slots
    <3>3. \A i \in 2 .. 5 : ObjectAt(m, h, i) = m.result[SlotAt[i]] /\ SlotAt[i] \in Slots \ {"suite"}
      BY <2>4, SlotFacts DEF ObjectAt, Part
    <3>4. ObjectAt(m, "result", 1) = None
      BY SlotFacts DEF ObjectAt, Part
    <3>5. \A i \in 2 .. 5 : Written(ObjectAt(m, h, i)) /\ Fits(ObjectAt(m, h, i), SlotAt[i])
      BY <3>1, <3>2, <3>3 DEF Written, Fits
    <3>6. Written(ObjectAt(m, h, 1)) /\ Fits(ObjectAt(m, h, 1), SlotAt[1])
      BY <2>1, <2>4, <3>4 DEF Written, Fits
    <3> QED  BY <3>4, <3>5, <3>6
  <2> QED  BY <2>3, <2>4 DEF Holders
<1> QED
  BY <1>1, <1>2, <1>3, <1>4, NameFacts
  DEF Written, Contexts, ResultRecords, Texts, Kinds

HolderXML(m, h) ==
  IF h = "test-context" THEN ContextXML(m.context) ELSE ResultXML(m.result)

\* A context or a result on the wire.
LEMMA HolderWire ==
  ASSUME NEW m, WellFormed(m), NEW h \in Holders, ~Absent(m, h), After(m, h) \in Seq(Tags)
  PROVE  /\ \A i \in 1 .. 7 : Rest(m, h, i) \in Seq(Tags)
         /\ \A i \in 1 .. 5 : Rest(m, h, i) = ObjectXML(ObjectAt(m, h, i)) \o Rest(m, h, i + 1)
         /\ HolderXML(m, h) \in Seq(Tags)
         /\ HolderXML(m, h) \o After(m, h) = Tag("start", h) \o Rest(m, h, 1)
<1> DEFINE O(i) == ObjectXML(ObjectAt(m, h, i))
           leaf == Leaf(LeafName(h), LeafText(m, h))
           w == After(m, h)
           r7 == Rest7(m, h)
           r6 == Rest6(m, h)
<1>1. /\ h \in Names /\ LeafName(h) \in Names /\ LeafText(m, h) \in Texts /\ h # "signal"
      /\ \A i \in 1 .. 5 : Written(ObjectAt(m, h, i))
  BY MessageFacts, NameFacts DEF LeafName, LeafText, Names, Holders
<1>2. r7 \in Seq(Tags) /\ Tag("end", h) \in Seq(Tags)
  BY <1>1, TagCons DEF Rest7
<1>3. r6 \in Seq(Tags) /\ leaf \in Seq(Tags)
  BY <1>1, <1>2, LeafCons DEF Rest6
<1>4. /\ Rest5(m, h) = O(5) \o r6 /\ Rest4(m, h) = O(4) \o Rest5(m, h)
      /\ Rest3(m, h) = O(3) \o Rest4(m, h) /\ Rest2(m, h) = O(2) \o Rest3(m, h)
      /\ Rest1(m, h) = O(1) \o Rest2(m, h)
  BY <1>1, SlotFacts DEF Rest5, Rest4, Rest3, Rest2, Rest1, ObjectAt
<1>5. O(1) \in Seq(Tags) /\ O(2) \in Seq(Tags) /\ O(3) \in Seq(Tags) /\ O(4) \in Seq(Tags)
      /\ O(5) \in Seq(Tags)
  BY <1>1, <1>2, ObjectWire
<1> HIDE DEF O
<1>6. Rest5(m, h) \in Seq(Tags)
  BY <1>3, <1>4, <1>5
<1>7. Rest4(m, h) \in Seq(Tags)
  BY <1>4, <1>5, <1>6
<1>8. Rest3(m, h) \in Seq(Tags)
  BY <1>4, <1>5, <1>7
<1>9. Rest2(m, h) \in Seq(Tags)
  BY <1>4, <1>5, <1>8
<1>10. Rest1(m, h) \in Seq(Tags)
  BY <1>4, <1>5, <1>9
<1>11. /\ Rest(m, h, 1) = Rest1(m, h) /\ Rest(m, h, 2) = Rest2(m, h)
       /\ Rest(m, h, 3) = Rest3(m, h) /\ Rest(m, h, 4) = Rest4(m, h)
       /\ Rest(m, h, 5) = Rest5(m, h) /\ Rest(m, h, 6) = Rest6(m, h)
       /\ Rest(m, h, 7) = Rest7(m, h)
  BY <1>1 DEF Rest
<1>12. \A i \in 1 .. 7 : Rest(m, h, i) \in Seq(Tags)
  BY <1>2, <1>3, <1>6, <1>7, <1>8, <1>9, <1>10, <1>11
<1>a. /\ Rest(m, h, 1) = O(1) \o Rest(m, h, 2) /\ Rest(m, h, 2) = O(2) \o Rest(m, h, 3)
      /\ Rest(m, h, 3) = O(3) \o Rest(m, h, 4) /\ Rest(m, h, 4) = O(4) \o Rest(m, h, 5)
      /\ Rest(m, h, 5) = O(5) \o Rest(m, h, 6)
  BY <1>4, <1>11
<1>13. \A i \in 1 .. 5 : Rest(m, h, i) = O(i) \o Rest(m, h, i + 1)
  <2>1. \A i \in 1 .. 5 : i = 1 \/ i = 2 \/ i = 3 \/ i = 4 \/ i = 5
    OBVIOUS
  <2>2. 1 + 1 = 2 /\ 2 + 1 = 3 /\ 3 + 1 = 4 /\ 4 + 1 = 5 /\ 5 + 1 = 6
    OBVIOUS
  <2> QED  BY <2>1, <2>2, <1>a
<1>14. CASE h = "test-context"
  <2> DEFINE five == O(1) \o O(2) \o O(3) \o O(4) \o O(5)
  <2> HIDE DEF r6
  <2>b. Pieces(Tags, O(1), O(2), O(3), O(4), O(5), r6)
    BY <1>3, <1>5 DEF Pieces
  <2>1. five \in Seq(Tags)
    BY <2>b, Chained5
  <2>2. five \o r6 = Chain(O(1), O(2), O(3), O(4), O(5), r6)
    BY <2>b, Chained5, SMTT(30)
  <2>3. five \o r6 = Rest1(m, h)
    BY <1>4, <2>2 DEF r6, Chain
  <2>4. ContextXML(m.context) = In("test-context", five \o leaf)
    <3>1. /\ O(1) = ObjectXML(m.context.suite) /\ O(2) = ObjectXML(m.context.case)
          /\ O(3) = ObjectXML(m.context.iterator) /\ O(4) = ObjectXML(m.context.test)
          /\ O(5) = ObjectXML(m.context.data)
      BY <1>1, <1>14, SlotFacts DEF O, ObjectAt, Part
    <3>2. m.context # NoContext /\ leaf = Leaf("failed", m.context.failed)
      BY <1>14 DEF Absent, LeafName, LeafText
    <3> QED  BY <3>1, <3>2 DEF ContextXML
  <2> HIDE DEF five, leaf, w, r7, r6
  <2>5. five \o leaf \in Seq(Tags)
    BY <1>3, <2>1
  <2>a. five \in Seq(Tags) /\ leaf \in Seq(Tags) /\ r7 \in Seq(Tags)
    BY <1>2, <1>3, <2>1
  <2>6. (five \o leaf) \o r7 = five \o (leaf \o r7)
    BY <2>a, ConcatAssociative
  <2>7. /\ In("test-context", five \o leaf) \in Seq(Tags)
        /\ In("test-context", five \o leaf) \o w
          = Tag("start", "test-context") \o ((five \o leaf) \o (Tag("end", "test-context") \o w))
    BY <1>1, <1>14, <2>5, Element DEF w
  <2>8. r7 = Tag("end", "test-context") \o w /\ r6 = leaf \o r7
    BY <1>14 DEF r7, r6, w, Rest7, Rest6, leaf
  <2>9. ContextXML(m.context) \o w = Tag("start", h) \o Rest1(m, h)
    BY <1>14, <2>3, <2>4, <2>6, <2>7, <2>8
  <2> QED  BY <1>11, <1>12, <1>13, <1>14, <2>4, <2>7, <2>9 DEF O, w, HolderXML
<1>15. CASE h = "result"
  <2> DEFINE five == O(2) \o O(3) \o O(4) \o O(5) \o leaf
  <2> HIDE DEF leaf, r7
  <2>b. Pieces(Tags, O(2), O(3), O(4), O(5), leaf, r7)
    BY <1>2, <1>3, <1>5 DEF Pieces
  <2>1. five \in Seq(Tags)
    BY <2>b, Chained5
  <2>2. five \o r7 = Chain(O(2), O(3), O(4), O(5), leaf, r7)
    BY <2>b, Chained5, SMTT(30)
  <2>3. leaf \o r7 = r6
    BY DEF leaf, r7, Rest6
  <2>4. five \o r7 = Rest2(m, h)
    BY <1>4, <2>2, <2>3 DEF Chain
  <2>5. Rest1(m, h) = Rest2(m, h)
    <3>1. O(1) = <<>>
      BY <1>15, MessageFacts DEF O, ObjectXML
    <3> QED  BY <1>4, <1>9, <3>1, Nothing
  <2>6. ResultXML(m.result) = In("result", five)
    <3>1. /\ O(2) = ObjectXML(m.result.case)
          /\ O(3) = ObjectXML(m.result.iterator) /\ O(4) = ObjectXML(m.result.test)
          /\ O(5) = ObjectXML(m.result.data)
      BY <1>1, <1>15, SlotFacts DEF O, ObjectAt, Part
    <3>2. m.result # NoResult /\ leaf = Leaf("status", m.result.status)
      BY <1>15 DEF Absent, LeafName, LeafText, leaf
    <3> QED  BY <3>1, <3>2 DEF ResultXML
  <2> HIDE DEF five, w, r6
  <2>7. /\ In("result", five) \in Seq(Tags)
        /\ In("result", five) \o w
             = Tag("start", "result") \o (five \o (Tag("end", "result") \o w))
    BY <1>1, <1>15, <2>1, Element DEF w
  <2>8. r7 = Tag("end", "result") \o w
    BY <1>15 DEF r7, w, Rest7
  <2>9. ResultXML(m.result) \o w = Tag("start", h) \o Rest1(m, h)
    BY <1>15, <2>4, <2>5, <2>6, <2>7, <2>8
  <2> QED  BY <1>11, <1>12, <1>13, <1>15, <2>6, <2>7, <2>9 DEF O, w, HolderXML
<1> QED  BY <1>14, <1>15 DEF Holders

\* A message on the wire: every place of it, and the one after it.
LEMMA SignalWire ==
  ASSUME NEW m, WellFormed(m)
  PROVE  /\ \A i \in 0 .. 4 : Rest(m, "signal", i) \in Seq(Tags)
         /\ \A h \in Holders : ~Absent(m, h) =>
              /\ \A i \in 1 .. 7 : Rest(m, h, i) \in Seq(Tags)
              /\ \A i \in 1 .. 5 :
                   Rest(m, h, i) = ObjectXML(ObjectAt(m, h, i)) \o Rest(m, h, i + 1)
         /\ Rest(m, "signal", 0) = ObjectXML(m.object) \o Rest(m, "signal", 1)
         /\ Rest(m, "signal", 1) =
              IF Absent(m, "test-context") THEN Rest(m, "signal", 2)
              ELSE Tag("start", "test-context") \o Rest(m, "test-context", 1)
         /\ Rest(m, "signal", 2) =
              IF Absent(m, "result") THEN Rest(m, "signal", 3)
              ELSE Tag("start", "result") \o Rest(m, "result", 1)
         /\ Rest(m, "signal", 3) =
              IF m.success = "none" THEN Rest(m, "signal", 4)
              ELSE Leaf("success", m.success) \o Rest(m, "signal", 4)
         /\ Rest(m, "signal", 4) = Tag("end", m.signal) \o <<>>
         /\ XML(m) = Tag("start", m.signal) \o Rest(m, "signal", 0)
<1>1. /\ Rest(m, "signal", 0) = ObjectRest(m) /\ Rest(m, "signal", 1) = ContextRest(m)
      /\ Rest(m, "signal", 2) = ResultRest(m) /\ Rest(m, "signal", 3) = SuccessRest(m)
      /\ Rest(m, "signal", 4) = End(m)
  BY DEF Rest
<1>2. m.signal \in Names /\ "success" \in Names /\ m.success \in Texts
  BY MessageFacts DEF Names
<1>3. /\ End(m) \in Seq(Tags) /\ End(m) = Tag("end", m.signal) \o <<>>
  <2>1. \A u \in Seq(Tags) : End(m) \in Seq(Tags)
    BY <1>2, TagCons DEF End
  <2>a. <<>> \in Seq(Tags)
    BY EmptySeq
  <2>b. End(m) \in Seq(Tags)
    BY <2>1, <2>a
  <2>2. End(m) = End(m) \o <<>>
    BY <2>b, ConcatEmptySeq
  <2> QED  BY <2>b, <2>2 DEF End
<1>4. /\ SuccessRest(m) \in Seq(Tags) /\ SuccessXML(m.success) \in Seq(Tags)
      /\ SuccessRest(m) = IF m.success = "none" THEN End(m)
                          ELSE Leaf("success", m.success) \o End(m)
  <2>1. CASE m.success = "none"
    BY <1>3, <2>1, Nothing DEF SuccessRest, SuccessXML
  <2>2. CASE m.success # "none"
    BY <1>2, <1>3, <2>2, LeafCons DEF SuccessRest, SuccessXML
  <2> QED  BY <2>1, <2>2
<1>5. /\ ResultRest(m) \in Seq(Tags) /\ ResultXML(m.result) \in Seq(Tags)
      /\ ResultRest(m) = IF Absent(m, "result") THEN SuccessRest(m)
                         ELSE Tag("start", "result") \o Rest(m, "result", 1)
      /\ ~Absent(m, "result") =>
              /\ \A i \in 1 .. 7 : Rest(m, "result", i) \in Seq(Tags)
              /\ \A i \in 1 .. 5 :
                   Rest(m, "result", i) = ObjectXML(ObjectAt(m, "result", i)) \o Rest(m, "result", i + 1)
  <2>1. CASE Absent(m, "result")
    BY <1>4, <2>1, Nothing DEF ResultRest, ResultXML, Absent
  <2>2. CASE ~Absent(m, "result")
    <3>1. "result" \in Holders /\ After(m, "result") = SuccessRest(m) /\ "result" \in Names
      BY NameFacts DEF Holders, After
    <3>2. /\ \A i \in 1 .. 7 : Rest(m, "result", i) \in Seq(Tags)
          /\ \A i \in 1 .. 5 :
                   Rest(m, "result", i) = ObjectXML(ObjectAt(m, "result", i)) \o Rest(m, "result", i + 1)
          /\ HolderXML(m, "result") \in Seq(Tags)
          /\ HolderXML(m, "result") = ResultXML(m.result)
          /\ ResultXML(m.result) \o After(m, "result") = Tag("start", "result") \o Rest(m, "result", 1)
      BY <1>4, <2>2, <3>1, HolderWire DEF HolderXML
    <3>3. Tag("start", "result") \o Rest(m, "result", 1) \in Seq(Tags)
      BY <3>1, <3>2, TagCons
    <3> QED  BY <2>2, <3>1, <3>2, <3>3 DEF ResultRest
  <2> QED  BY <2>1, <2>2
<1>6. /\ ContextRest(m) \in Seq(Tags) /\ ContextXML(m.context) \in Seq(Tags)
      /\ ContextRest(m) = IF Absent(m, "test-context") THEN ResultRest(m)
                         ELSE Tag("start", "test-context") \o Rest(m, "test-context", 1)
      /\ ~Absent(m, "test-context") =>
              /\ \A i \in 1 .. 7 : Rest(m, "test-context", i) \in Seq(Tags)
              /\ \A i \in 1 .. 5 :
                   Rest(m, "test-context", i) =
                     ObjectXML(ObjectAt(m, "test-context", i)) \o Rest(m, "test-context", i + 1)
  <2>1. CASE Absent(m, "test-context")
    BY <1>5, <2>1, Nothing DEF ContextRest, ContextXML, Absent
  <2>2. CASE ~Absent(m, "test-context")
    <3>1. /\ "test-context" \in Holders /\ After(m, "test-context") = ResultRest(m)
          /\ "test-context" \in Names
      BY NameFacts DEF Holders, After
    <3>2. /\ \A i \in 1 .. 7 : Rest(m, "test-context", i) \in Seq(Tags)
          /\ \A i \in 1 .. 5 :
                   Rest(m, "test-context", i) =
                     ObjectXML(ObjectAt(m, "test-context", i)) \o Rest(m, "test-context", i + 1)
          /\ HolderXML(m, "test-context") \in Seq(Tags)
          /\ HolderXML(m, "test-context") = ContextXML(m.context)
          /\ ContextXML(m.context) \o After(m, "test-context")
               = Tag("start", "test-context") \o Rest(m, "test-context", 1)
      BY <1>5, <2>2, <3>1, HolderWire DEF HolderXML
    <3>3. Tag("start", "test-context") \o Rest(m, "test-context", 1) \in Seq(Tags)
      BY <3>1, <3>2, TagCons
    <3> QED  BY <2>2, <3>1, <3>2, <3>3 DEF ContextRest
  <2> QED  BY <2>1, <2>2
<1>7. Written(m.object)
  BY MessageFacts
<1>8. ObjectRest(m) \in Seq(Tags) /\ ObjectXML(m.object) \in Seq(Tags)
  BY <1>6, <1>7, ObjectWire DEF ObjectRest
<1>9. XML(m) = Tag("start", m.signal) \o ObjectRest(m)
  <2> DEFINE a == ObjectXML(m.object)
             b == ContextXML(m.context)
             c == ResultXML(m.result)
             d == SuccessXML(m.success)
             e == Tag("end", m.signal)
             s == Tag("start", m.signal)
             x == a \o b \o c \o d
             r == a \o (b \o (c \o (d \o e)))
             n == <<>>
  <2>1. a \in Seq(Tags) /\ b \in Seq(Tags) /\ c \in Seq(Tags) /\ d \in Seq(Tags)
    BY <1>4, <1>5, <1>6, <1>8
  <2>2. n \in Seq(Tags) /\ e \in Seq(Tags) /\ e \o n = e
    BY <1>3, EmptySeq DEF End
  <2>3. XML(m) = In(m.signal, x)
    BY MessageFacts DEF XML, Signals
  <2>4. ObjectRest(m) = r
    BY DEF ObjectRest, ContextRest, ResultRest, SuccessRest, End
  <2> HIDE DEF a, b, c, d, e, n
  <2>c. Pieces(Tags, a, b, c, d, e, n)
    BY <2>1, <2>2 DEF Pieces
  <2>5. /\ a \o b \o c \o d \o e \in Seq(Tags)
        /\ (a \o b \o c \o d \o e) \o n = Chain(a, b, c, d, e, n)
    BY <2>c, Chained5
  <2>6. (a \o b \o c \o d \o e) \o n = a \o b \o c \o d \o e
    BY <2>5, ConcatEmptySeq DEF n
  <2>7. x \o e = r /\ x \in Seq(Tags)
    BY <2>1, <2>2, <2>5, <2>6 DEF Chain
  <2> HIDE DEF x
  <2>8. In(m.signal, x) \in Seq(Tags) /\ In(m.signal, x) \o n = s \o (x \o (e \o n))
    BY <1>2, <2>2, <2>7, Element DEF e
  <2>9. In(m.signal, x) \o n = In(m.signal, x)
    BY <2>8, ConcatEmptySeq DEF n
  <2> QED  BY <2>2, <2>3, <2>4, <2>7, <2>8, <2>9
<1>10. \A i \in 0 .. 4 : Rest(m, "signal", i) \in Seq(Tags)
  <2> SUFFICES ASSUME NEW i \in 0 .. 4  PROVE Rest(m, "signal", i) \in Seq(Tags)
    OBVIOUS
  <2>1. i = 0 \/ i = 1 \/ i = 2 \/ i = 3 \/ i = 4
    OBVIOUS
  <2> QED  BY <2>1, <1>1, <1>3, <1>4, <1>5, <1>6, <1>8
<1>11. \A h \in Holders : ~Absent(m, h) =>
              /\ \A i \in 1 .. 7 : Rest(m, h, i) \in Seq(Tags)
              /\ \A i \in 1 .. 5 :
                   Rest(m, h, i) = ObjectXML(ObjectAt(m, h, i)) \o Rest(m, h, i + 1)
  BY <1>5, <1>6 DEF Holders
<1>12. ObjectRest(m) = ObjectXML(m.object) \o ContextRest(m)
  BY DEF ObjectRest
<1> QED  BY <1>1, <1>3, <1>4, <1>5, <1>6, <1>9, <1>10, <1>11, <1>12

-----------------------------------------------------------------------------
\* What stays when the parser goes on.

SameObjects(hp, hq) ==
  \A b \in 1 .. Len(hp) : /\ b \in 1 .. Len(hq) /\ hq[b].kind = hp[b].kind
                          /\ hq[b].name = hp[b].name /\ hq[b].attribute = hp[b].attribute
SameHolder(hp, hq, w) == hq[w].of = hp[w].of /\ hq[w].text = hp[w].text

\* Objects, records and messages that have been built stay so when others are added.
LEMMA ShownKept ==
  ASSUME NEW hp, NEW hq, Len(hp) \in Nat, Len(hq) \in Nat, SameObjects(hp, hq),
         NEW a \in 0 .. Len(hp)
  PROVE  a \in 0 .. Len(hq) /\ Shown(hq, a) = Shown(hp, a)
<1>1. CASE a = 0
  BY <1>1 DEF Shown
<1>2. CASE a # 0
  <2>1. a \in 1 .. Len(hp)
    BY <1>2
  <2> QED  BY <1>2, <2>1 DEF Shown, SameObjects
<1> QED  BY <1>1, <1>2

LEMMA FilledKept ==
  ASSUME NEW hp, NEW hq, Len(hp) \in Nat, Len(hq) \in Nat, SameObjects(hp, hq),
         NEW el, NEW ek, NEW m, NEW h, NEW i, Filled(hp, el, m, h, i),
         Holder(ek, h) = Holder(el, h), SameHolder(hp, hq, Holder(el, h))
  PROVE  Filled(hq, ek, m, h, i)
<1> DEFINE w == Holder(el, h)
<1>1. w \in 1 .. Len(hp) /\ w \in 1 .. Len(hq)
  BY DEF Filled, SameObjects
<1>2. hq[w].of = hp[w].of /\ hq[w].text = hp[w].text
  BY DEF SameHolder
<1>3. \A j \in 1 .. 5 :
        LET a == hq[w].of[SlotAt[j]]
        IN IF j < i THEN a \in 0 .. Len(hq) /\ Shown(hq, a) = ObjectAt(m, h, j)
                    ELSE a = 0
  <2> SUFFICES ASSUME NEW j \in 1 .. 5
      PROVE  LET a == hq[w].of[SlotAt[j]]
             IN IF j < i THEN a \in 0 .. Len(hq) /\ Shown(hq, a) = ObjectAt(m, h, j)
                         ELSE a = 0
    OBVIOUS
  <2>1. LET a == hp[w].of[SlotAt[j]]
        IN IF j < i THEN a \in 0 .. Len(hp) /\ Shown(hp, a) = ObjectAt(m, h, j)
                    ELSE a = 0
    BY DEF Filled
  <2> QED  BY <1>2, <2>1, ShownKept
<1> QED  BY <1>1, <1>2, <1>3 DEF Filled

LEMMA ReadKept ==
  ASSUME NEW hp, NEW hq, Len(hp) \in Nat, Len(hq) \in Nat, SameObjects(hp, hq),
         NEW el, NEW ek, NEW m, NEW h, Read(hp, el, m, h),
         Holder(ek, h) = Holder(el, h), Holder(el, h) # 0 => SameHolder(hp, hq, Holder(el, h))
  PROVE  Read(hq, ek, m, h)
<1>1. CASE Absent(m, h)
  BY <1>1 DEF Read
<1>2. CASE ~Absent(m, h)
  <2>1. Filled(hp, el, m, h, 7) /\ Holder(el, h) # 0
    BY <1>2 DEF Read, Filled
  <2>2. Filled(hq, ek, m, h, 7)
    BY <2>1, FilledKept
  <2> QED  BY <1>2, <2>2 DEF Read
<1> QED  BY <1>1, <1>2

LEMMA ObjectReadKept ==
  ASSUME NEW hp, NEW hq, Len(hp) \in Nat, Len(hq) \in Nat, SameObjects(hp, hq),
         NEW el, NEW ek, NEW st, NEW su, NEW m, ObjectRead(hp, el, st, m),
         ek.object = el.object,
         m.signal \in Stacked =>
           First(su, Slot(m.object.kind)) = First(st, Slot(m.object.kind))
  PROVE  ObjectRead(hq, ek, su, m)
<1> DEFINE a == IF m.signal \in Stacked THEN First(st, Slot(m.object.kind)) ELSE el.object
<1>1. a \in 1 .. Len(hp) /\ Shown(hp, a) = m.object
  BY DEF ObjectRead
<1>2. a \in 0 .. Len(hp) /\ a # 0
  BY <1>1
<1>3. a \in 0 .. Len(hq) /\ Shown(hq, a) = Shown(hp, a)
  BY <1>2, ShownKept
<1>4. a \in 1 .. Len(hq) /\ Shown(hq, a) = m.object
  BY <1>1, <1>2, <1>3
<1> QED  BY <1>4 DEF ObjectRead

\* A new cell.
LEMMA Allocated ==
  ASSUME NEW hp \in Seq(Cells), NEW c \in Cells
  PROVE  /\ Append(hp, c) \in Seq(Cells) /\ Len(Append(hp, c)) = Len(hp) + 1
         /\ Append(hp, c)[Len(hp) + 1] = c /\ SameObjects(hp, Append(hp, c))
         /\ \A b \in 1 .. Len(hp) : Append(hp, c)[b] = hp[b]
<1>1. /\ Append(hp, c) \in Seq(Cells) /\ Len(Append(hp, c)) = Len(hp) + 1
      /\ Append(hp, c)[Len(hp) + 1] = c
      /\ \A b \in 1 .. Len(hp) : Append(hp, c)[b] = hp[b]
  BY AppendProperties
<1> QED  BY <1>1 DEF SameObjects

\* A cell that is written to.
LEMMA Written1 ==
  ASSUME NEW hp \in Seq(Cells), NEW a, NEW c \in Cells
  PROVE  /\ [hp EXCEPT ![a] = c] \in Seq(Cells) /\ Len([hp EXCEPT ![a] = c]) = Len(hp)
         /\ \A b \in 1 .. Len(hp) : [hp EXCEPT ![a] = c][b] = IF b = a THEN c ELSE hp[b]
<1>1. CASE a \in 1 .. Len(hp)
  BY <1>1, ExceptSeq
<1>2. CASE a \notin 1 .. Len(hp)
  <2>1. [hp EXCEPT ![a] = c] = hp
    BY <1>2
  <2> QED  BY <1>2, <2>1
<1> QED  BY <1>1, <1>2

-----------------------------------------------------------------------------
\* What the parser builds, step by step.

\* An object that has been allocated only.
LEMMA EmptyCell ==
  ASSUME NEW k \in Kinds \cup Holders
  PROVE  /\ Empty(k) \in Cells /\ Empty(k).kind = k /\ Empty(k).attribute = "none"
         /\ \A j \in 1 .. 5 : Empty(k).of[SlotAt[j]] = 0
BY SlotFacts DEF Empty, Cells, Texts

\* What a new object does to the heap and to the stacks, as one fact each.
HeapStarted(hp, q, own, s, o) ==
  /\ q \in Seq(Cells) /\ Len(q) = Len(hp) + 1
  /\ Shown(q, Len(hp) + 1) = o /\ SameObjects(hp, q)
  /\ \A b \in 1 .. Len(hp) : b # own => q[b] = hp[b]
  /\ own # 0 => q[own].of = [hp[own].of EXCEPT ![s] = Len(hp) + 1]
Grown(hp, hq, own, s, o) ==
  /\ hq \in Seq(Cells) /\ Len(hq) = Len(hp) + 1
  /\ hq[Len(hp) + 1].kind = o.kind /\ hq[Len(hp) + 1].attribute = "none"
  /\ HeapStarted(hp, Completed(hq, o), own, s, o)
OnTop(st, su, s, a) ==
  /\ First(su, s) = a
  /\ \A t \in Slots \cup {"context"} : t # s => First(su, t) = First(st, t)
StackGrown(st, su, s, n) ==
  /\ su \in [Slots \cup {"context"} -> Seq(1 .. n + 1)]
  /\ OnTop(st, su, s, n + 1)

\* Its address is pushed on a stack.
LEMMA Pushed ==
  ASSUME NEW n \in Nat, NEW st \in [Slots \cup {"context"} -> Seq(1 .. n)],
         NEW s \in Slots \cup {"context"}
  PROVE  StackGrown(st, [st EXCEPT ![s] = <<n + 1>> \o @], s, n)
<1>1. st[s] \in Seq(1 .. n) /\ n + 1 \in 1 .. n + 1
  OBVIOUS
<1>2. 1 .. n \subseteq 1 .. n + 1
  OBVIOUS
<1>3. \A t \in Slots \cup {"context"} : st[t] \in Seq(1 .. n + 1)
  BY <1>2, SeqMonotonic
<1>4. /\ <<n + 1>> \o st[s] \in Seq(1 .. n + 1) /\ <<n + 1>> \o st[s] # <<>>
      /\ Head(<<n + 1>> \o st[s]) = n + 1
  BY <1>1, <1>3, FirstOfWire
<1> DEFINE new == <<n + 1>> \o st[s]
           su == [st EXCEPT ![s] = new]
<1>5. su = [st EXCEPT ![s] = new]
  OBVIOUS
<1>6. new \in Seq(1 .. n + 1) /\ new # <<>> /\ Head(new) = n + 1
  BY <1>4
<1> HIDE DEF new, su
<1>7. \A t \in Slots \cup {"context"} : su[t] = IF t = s THEN new ELSE st[t]
  BY <1>5
<1>8. su \in [Slots \cup {"context"} -> Seq(1 .. n + 1)]
  BY <1>3, <1>5, <1>6
<1>9. First(su, s) = n + 1
  BY <1>6, <1>7 DEF First
<1>10. \A t \in Slots \cup {"context"} : t # s => First(su, t) = First(st, t)
  BY <1>7 DEF First
<1> QED  BY <1>8, <1>9, <1>10 DEF StackGrown, OnTop, su, new

Own(st, rs, h) == IF h = "test-context" THEN First(st, "context")
                  ELSE IF h = "result" THEN rs ELSE 0
Linked(hp, own, s) == IF own = 0 THEN hp ELSE [hp EXCEPT ![own].of[s] = Len(hp) + 1]

\* Its address is set in the context or in the result it is written in.
LEMMA LinkedHeap ==
  ASSUME NEW hp \in Seq(Cells), NEW own \in 0 .. Len(hp), NEW s \in Slots
  PROVE  /\ Linked(hp, own, s) \in Seq(Cells) /\ Len(Linked(hp, own, s)) = Len(hp)
         /\ SameObjects(hp, Linked(hp, own, s))
         /\ \A b \in 1 .. Len(hp) : b # own => Linked(hp, own, s)[b] = hp[b]
         /\ own # 0 => /\ Linked(hp, own, s)[own].of = [hp[own].of EXCEPT ![s] = Len(hp) + 1]
                       /\ Linked(hp, own, s)[own].text = hp[own].text
<1>1. CASE own = 0
  BY <1>1 DEF Linked, SameObjects
<1>2. CASE own # 0
  <2> DEFINE c == [hp[own] EXCEPT !.of[s] = Len(hp) + 1]
             lp == [hp EXCEPT ![own] = c]
  <2>1. own \in 1 .. Len(hp)
    BY <1>2
  <2>2. hp[own] \in Cells
    BY <2>1, ElementOfSeq
  <2>3. Len(hp) + 1 \in Nat
    OBVIOUS
  <2>4. /\ c \in Cells /\ c.kind = hp[own].kind /\ c.name = hp[own].name
        /\ c.attribute = hp[own].attribute /\ c.text = hp[own].text
        /\ c.of = [hp[own].of EXCEPT ![s] = Len(hp) + 1]
    BY <2>2, <2>3 DEF Cells
  <2>5. Linked(hp, own, s) = lp
    BY <1>2 DEF Linked
  <2>c. c \in Cells
    BY <2>4
  <2> HIDE DEF c
  <2>6. /\ lp \in Seq(Cells) /\ Len(lp) = Len(hp)
        /\ \A b \in 1 .. Len(hp) : lp[b] = IF b = own THEN c ELSE hp[b]
    BY <2>c, Written1
  <2> HIDE DEF lp
  <2> QED  BY <1>2, <2>1, <2>4, <2>5, <2>6 DEF SameObjects
<1> QED  BY <1>1, <1>2

\* A cell as it will be when its object has been read.
LEMMA FinalCell ==
  ASSUME NEW c \in Cells, NEW o \in Objects, o.kind = c.kind
  PROVE  /\ Final(c, o) \in Cells /\ Final(c, o).of = c.of /\ Final(c, o).text = c.text
         /\ [kind |-> Final(c, o).kind, name |-> Final(c, o).name,
             attribute |-> Final(c, o).attribute] = o
         /\ c.name = o.name /\ c.attribute = o.attribute => Final(c, o) = c
BY DEF Final, Cells, Objects, Texts

\* The heap as it will be when the object has been read.
LEMMA CompletedHeap ==
  ASSUME NEW hq \in Seq(Cells), NEW o \in Objects, Len(hq) # 0, hq[Len(hq)].kind = o.kind
  PROVE  /\ Completed(hq, o) \in Seq(Cells) /\ Len(Completed(hq, o)) = Len(hq)
         /\ Shown(Completed(hq, o), Len(hq)) = o
         /\ \A b \in 1 .. Len(hq) - 1 : Completed(hq, o)[b] = hq[b]
         /\ \A b \in 1 .. Len(hq) : /\ Completed(hq, o)[b].of = hq[b].of
                                    /\ Completed(hq, o)[b].text = hq[b].text
<1> DEFINE a == Len(hq)
           f == Final(hq[a], o)
           q == [hq EXCEPT ![a] = f]
<1>1. a \in 1 .. Len(hq) /\ a \in Nat
  OBVIOUS
<1>2. hq[a] \in Cells
  BY <1>1, ElementOfSeq
<1>3. /\ f \in Cells /\ f.of = hq[a].of /\ f.text = hq[a].text
      /\ [kind |-> f.kind, name |-> f.name, attribute |-> f.attribute] = o
  BY <1>2, FinalCell
<1>4. Completed(hq, o) = q
  BY DEF Completed
<1> HIDE DEF f
<1>5. /\ q \in Seq(Cells) /\ Len(q) = Len(hq)
      /\ \A b \in 1 .. Len(hq) : q[b] = IF b = a THEN f ELSE hq[b]
  BY <1>3, Written1
<1> HIDE DEF q
<1>6. Shown(q, a) = o
  BY <1>1, <1>3, <1>5 DEF Shown
<1> QED  BY <1>1, <1>3, <1>4, <1>5, <1>6

\* The heap when an object starts, and the one when it is complete.
LEMMA StartedHeap ==
  ASSUME NEW hp \in Seq(Cells), NEW own \in 0 .. Len(hp), NEW s \in Slots,
         NEW o \in Objects, o.kind \in Kinds
  PROVE  Grown(hp, Append(Linked(hp, own, s), Empty(o.kind)), own, s, o)
<1> DEFINE a == Len(hp) + 1
           lp == Linked(hp, own, s)
           e == Empty(o.kind)
           hq == Append(Linked(hp, own, s), Empty(o.kind))
           q == Completed(hq, o)
<1>1. Len(hp) \in Nat
  OBVIOUS
<1>2. /\ lp \in Seq(Cells) /\ Len(lp) = Len(hp) /\ SameObjects(hp, lp)
      /\ \A b \in 1 .. Len(hp) : b # own => lp[b] = hp[b]
      /\ own # 0 => lp[own].of = [hp[own].of EXCEPT ![s] = a]
  BY LinkedHeap
<1>3. e \in Cells /\ e.kind = o.kind /\ e.attribute = "none"
  BY EmptyCell
<1>4. hq = Append(lp, e)
  OBVIOUS
<1> HIDE DEF lp, e, hq
<1>5. /\ Append(lp, e) \in Seq(Cells) /\ Len(Append(lp, e)) = Len(lp) + 1
      /\ Append(lp, e)[Len(lp) + 1] = e /\ \A b \in 1 .. Len(lp) : Append(lp, e)[b] = lp[b]
  BY <1>2, <1>3, Allocated
<1>6. /\ hq \in Seq(Cells) /\ Len(hq) = a /\ hq[a] = e
      /\ \A b \in 1 .. Len(hp) : hq[b] = lp[b]
  BY <1>2, <1>4, <1>5
<1>7. Len(hq) # 0 /\ hq[Len(hq)].kind = o.kind
  BY <1>1, <1>3, <1>6
<1>8. /\ q \in Seq(Cells) /\ Len(q) = Len(hq) /\ Shown(q, Len(hq)) = o
      /\ \A b \in 1 .. Len(hq) - 1 : q[b] = hq[b]
  BY <1>6, <1>7, CompletedHeap
<1> HIDE DEF q
<1>9. \A b \in 1 .. Len(hp) : b \in 1 .. Len(hq) - 1 /\ b \in 1 .. Len(hq) /\ q[b] = lp[b]
  BY <1>1, <1>6, <1>8
<1>10. SameObjects(hp, q)
  BY <1>2, <1>6, <1>8, <1>9 DEF SameObjects
<1>11. own # 0 => own \in 1 .. Len(hp)
  BY <1>1
<1>12. \A b \in 1 .. Len(hp) : b # own => q[b] = hp[b]
  BY <1>2, <1>9
<1>13. own # 0 => q[own].of = [hp[own].of EXCEPT ![s] = a]
  BY <1>2, <1>9, <1>11
<1>14. HeapStarted(hp, q, own, s, o)
  BY <1>6, <1>8, <1>10, <1>12, <1>13 DEF HeapStarted
<1>15. Grown(hp, hq, own, s, o)
  BY <1>3, <1>6, <1>14 DEF Grown, q
<1> QED  BY <1>15 DEF hq

\* The object that is next is written to the slot of its kind, and whatever can be written
\* to has been allocated.
LEMMA NextObject ==
  ASSUME NEW m, WellFormed(m), NEW h, NEW i, <<h, i>> \in ObjectPlaces,
         h \in Holders => ~Absent(m, h), ObjectAt(m, h, i) # None
  PROVE  /\ (h = "signal" /\ i = 0) \/ (h \in Holders /\ i \in 1 .. 5 /\ h # "signal")
         /\ ObjectAt(m, h, i) \in Objects /\ ObjectAt(m, h, i).kind \in Kinds
         /\ Slot(ObjectAt(m, h, i).kind) \in Slots
         /\ h \in Holders => /\ Slot(ObjectAt(m, h, i).kind) = SlotAt[i]
                             /\ m.signal \notin Stacked
<1> DEFINE o == ObjectAt(m, h, i)
           s == Slot(o.kind)
<1>1. (h = "signal" /\ i = 0) \/ (h \in Holders /\ i \in 1 .. 5 /\ h # "signal")
  BY DEF ObjectPlaces, Holders
<1>2. /\ o \in Objects /\ o.kind \in Kinds /\ s \in Slots
      /\ h \in Holders => s = SlotAt[i] /\ m.signal \notin Stacked
  <2>1. CASE h = "signal"
    BY <2>1, MessageFacts, SlotFacts DEF ObjectAt, Written, Holders
  <2>2. CASE h \in Holders
    <3>1. Written(o) /\ Fits(o, SlotAt[i])
      BY <1>1, <2>2, MessageFacts DEF Holders
    <3>2. m.signal \notin Stacked
      BY <2>2 DEF WellFormed, Absent, Holders, WithResult, Stacked
    <3> QED  BY <3>1, <3>2, SlotFacts DEF Written, Fits
  <2> QED  BY <1>1, <2>1, <2>2
<1> QED  BY <1>1, <1>2

\* Where it is linked to.
LEMMA OwnerBuilt ==
  ASSUME NEW hp, NEW el, NEW rs, NEW st, Len(hp) \in Nat, NEW m, NEW h, NEW i,
         h = "signal" \/ (h \in Holders /\ h # "signal"),
         Built(hp, el, st, rs, m, h, i)
  PROVE  /\ Own(st, rs, h) \in 0 .. Len(hp)
         /\ h = "signal" => Own(st, rs, h) = 0
         /\ h \in Holders => /\ Own(st, rs, h) = Holder(el, h)
                             /\ Own(st, rs, h) \in 1 .. Len(hp)
<1>1. CASE h = "signal"
  <2>1. Own(st, rs, h) = 0 /\ h \notin Holders
    BY <1>1 DEF Own, Holders
  <2> QED  BY <2>1
<1>2. CASE h \in Holders /\ h # "signal"
  <2>1. BuiltHolder(hp, el, st, rs, m, h, i)
    BY <1>2 DEF Built
  <2>2. Holder(el, h) \in 1 .. Len(hp)
    BY <2>1 DEF BuiltHolder, Filled
  <2>3. Own(st, rs, h) = Holder(el, h)
    BY <1>2, <2>1 DEF Own, BuiltHolder, Holder, Holders
  <2> QED  BY <1>2, <2>2, <2>3
<1> QED  BY <1>1, <1>2

\* The start tag of an object: when it is complete, one more object is built.
LEMMA ObjectStarted ==
  ASSUME NEW hp, NEW q, NEW el, el \in Records(hp), Len(hp) \in Nat, NEW rs, NEW st, NEW su,
         NEW m, WellFormed(m), NEW h, NEW i, <<h, i>> \in ObjectPlaces,
         h \in Holders => ~Absent(m, h), ObjectAt(m, h, i) # None, hp \in Seq(Cells),
         Built(hp, el, st, rs, m, h, i),
         HeapStarted(hp, q, Own(st, rs, h), Slot(ObjectAt(m, h, i).kind), ObjectAt(m, h, i)),
         OnTop(st, su, Slot(ObjectAt(m, h, i).kind), Len(hp) + 1),
         NEW ek, ek = IF h = "signal" /\ m.signal \notin Stacked
                      THEN [el EXCEPT !.object = Len(hp) + 1] ELSE el
  PROVE  Built(q, ek, su, rs, m, h, i + 1)
<1> DEFINE o == ObjectAt(m, h, i)
           s == Slot(o.kind)
           a == Len(hp) + 1
           own == Own(st, rs, h)
<1>1. /\ (h = "signal" /\ i = 0) \/ (h \in Holders /\ i \in 1 .. 5 /\ h # "signal")
      /\ Len(hp) \in Nat
  BY NextObject
<1>2. /\ o \in Objects /\ o.kind \in Kinds /\ s \in Slots
      /\ h \in Holders => s = SlotAt[i] /\ m.signal \notin Stacked
  BY NextObject
<1>3. own \in 0 .. Len(hp) /\ (h = "signal" => own = 0)
      /\ (h \in Holders => own = Holder(el, h) /\ own \in 1 .. Len(hp))
  BY <1>1, OwnerBuilt
<1>7. /\ q \in Seq(Cells) /\ Len(q) = a /\ Shown(q, a) = o /\ SameObjects(hp, q)
      /\ \A b \in 1 .. Len(hp) : b # own => q[b] = hp[b]
      /\ own # 0 => q[own].of = [hp[own].of EXCEPT ![s] = a]
  BY DEF HeapStarted
<1>11. /\ First(su, s) = a
       /\ \A t \in Slots \cup {"context"} : t # s => First(su, t) = First(st, t)
  BY DEF OnTop
<1>12. o = ObjectAt(m, h, i) /\ s = Slot(o.kind)
  OBVIOUS
<1> HIDE DEF o, own, s
<1>13. CASE h = "signal"
  <2>1. i = 0 /\ el = NoElement /\ o = m.object
    BY <1>1, <1>13 DEF Built, BuiltSignal, o, ObjectAt, Holders
  <2>2. ObjectRead(q, ek, su, m)
    <3>1. a \in 1 .. Len(q)
      BY <1>1, <1>7
    <3>2. CASE m.signal \in Stacked
      BY <1>2, <1>7, <1>11, <1>12, <1>13, <2>1, <3>1, <3>2 DEF ObjectRead, NoElement
    <3>3. CASE m.signal \notin Stacked
      BY <1>7, <1>13, <2>1, <3>1, <3>3 DEF ObjectRead, NoElement
    <3> QED  BY <3>2, <3>3
  <2>3. ek.context = 0 /\ ek.result = 0
    BY <2>1 DEF NoElement
  <2>4. BuiltSignal(q, ek, su, m, 1)
    BY <2>2, <2>3 DEF BuiltSignal
  <2> QED  BY <1>13, <2>1, <2>4 DEF Built
<1>14. CASE h \in Holders
  <2>1. /\ BuiltHolder(hp, el, st, rs, m, h, i) /\ ek = el /\ h # "signal" /\ i \in 1 .. 5
        /\ m.signal \notin Stacked
    BY <1>1, <1>2, <1>14 DEF Built, Holders
  <2>2. ObjectRead(q, el, su, m)
    BY <1>1, <1>7, <2>1, ObjectReadKept DEF BuiltHolder
  <2>3. Filled(q, el, m, h, i + 1)
    <3>1. /\ Filled(hp, el, m, h, i) /\ own = Holder(el, h) /\ own \in 1 .. Len(hp)
          /\ s = SlotAt[i]
      BY <1>2, <1>3, <1>14, <2>1 DEF BuiltHolder
    <3>2. q[own].of = [hp[own].of EXCEPT ![s] = a] /\ own \in 1 .. Len(q)
      BY <1>1, <1>7, <3>1
    <3>3. hp[own].of \in [Slots -> Nat]
      <4>1. hp[own] \in Cells
        BY <3>1, ElementOfSeq
      <4> QED  BY <4>1 DEF Cells
    <3>4. ASSUME NEW j \in 1 .. 5
          PROVE  LET b == q[own].of[SlotAt[j]]
                 IN IF j < i + 1 THEN b \in 0 .. Len(q) /\ Shown(q, b) = ObjectAt(m, h, j)
                                 ELSE b = 0
      <4>1. SlotAt[j] \in Slots /\ (SlotAt[j] = s <=> j = i)
        BY <2>1, <3>1, SlotFacts
      <4>2. q[own].of[SlotAt[j]] = IF j = i THEN a ELSE hp[own].of[SlotAt[j]]
        BY <3>2, <3>3, <4>1
      <4>3. CASE j = i
        <5>1. a \in 0 .. Len(q) /\ Shown(q, a) = ObjectAt(m, h, j) /\ j < i + 1
          BY <1>1, <1>7, <2>1, <4>3 DEF o
        <5> QED  BY <4>2, <4>3, <5>1
      <4>4. CASE j # i
        <5>1. IF j < i THEN /\ hp[own].of[SlotAt[j]] \in 0 .. Len(hp)
                            /\ Shown(hp, hp[own].of[SlotAt[j]]) = ObjectAt(m, h, j)
                       ELSE hp[own].of[SlotAt[j]] = 0
          BY <3>1 DEF Filled
        <5>2. j < i <=> j < i + 1
          BY <2>1, <4>4
        <5>3. CASE j < i
          <6>1. /\ hp[own].of[SlotAt[j]] \in 0 .. Len(q)
                /\ Shown(q, hp[own].of[SlotAt[j]]) = ObjectAt(m, h, j)
            BY <1>1, <1>7, <5>1, <5>3, ShownKept
          <6> QED  BY <4>2, <4>4, <5>2, <5>3, <6>1
        <5>4. CASE ~(j < i)
          BY <4>2, <4>4, <5>1, <5>2, <5>4
        <5> QED  BY <5>3, <5>4
      <4> QED  BY <4>3, <4>4
    <3>5. i + 1 # 7
      BY <2>1
    <3> QED  BY <3>1, <3>2, <3>4, <3>5 DEF Filled
  <2>4. h = "test-context" => el.result = 0 /\ First(su, "context") = el.context
    BY <1>2, <1>11, <2>1, SlotFacts DEF BuiltHolder
  <2>5. ASSUME h = "result"
        PROVE  /\ Read(q, el, m, "test-context") /\ rs = el.result /\ el.context # el.result
    <3>1. Read(hp, el, m, "test-context") /\ rs = el.result /\ el.context # el.result
      BY <2>1, <2>5 DEF BuiltHolder
    <3>2. own = el.result /\ Holder(el, "test-context") = el.context
      BY <1>3, <1>14, <2>5 DEF Holder
    <3>3. el.context # 0 => SameHolder(hp, q, el.context)
      <4>1. el.context \in 0 .. Len(hp)
        BY DEF Records
      <4>2. el.context # 0 => el.context \in 1 .. Len(hp)
        BY <1>1, <4>1
      <4> QED  BY <1>7, <3>1, <3>2, <4>2 DEF SameHolder
    <3>4. Read(q, el, m, "test-context")
      BY <1>1, <1>7, <3>1, <3>2, <3>3, ReadKept
    <3> QED  BY <3>1, <3>4
  <2>6. BuiltHolder(q, el, su, rs, m, h, i + 1)
    BY <2>2, <2>3, <2>4, <2>5 DEF BuiltHolder
  <2> QED  BY <2>1, <2>6 DEF Built
<1> QED  BY <1>1, <1>13, <1>14

-----------------------------------------------------------------------------
\* The parser's reaction to the next tag.

\* Parse, for each kind of tag.
LEMMA ParseStart ==
  ASSUME Parse, NEW n \in Names, NEW w \in Seq(Tags), wire = Tag("start", n) \o w,
         n \in Accepts(Head(states))
  PROVE  StartElement(n) /\ wire' = w /\ UNCHANGED child /\ reader = "reading"
<1>1. Head(wire).tag = "start" /\ Head(wire).name = n /\ Tail(wire) = w
  BY TagCons
<1> QED  BY <1>1 DEF Parse

LEMMA ParseLeaf ==
  ASSUME Parse, NEW n \in Names, NEW x \in Texts, NEW w \in Seq(Tags),
         wire = Leaf(n, x) \o w, n \in Accepts(Head(states))
  PROVE  TextHandler(n, x) /\ wire' = w /\ UNCHANGED child /\ reader = "reading"
<1>1. Head(wire).tag = "leaf" /\ Head(wire).name = n /\ Head(wire).text = x /\ Tail(wire) = w
  BY LeafCons
<1> QED  BY <1>1 DEF Parse

LEMMA ParseEnd ==
  ASSUME Parse, NEW n \in Names, NEW w \in Seq(Tags), wire = Tag("end", n) \o w
  PROVE  EndElement(n) /\ wire' = w /\ UNCHANGED child /\ reader = "reading"
<1>1. Head(wire).tag = "end" /\ Head(wire).name = n /\ Tail(wire) = w
  BY TagCons
<1> QED  BY <1>1 DEF Parse

\* The stack of states.
LEMMA PushedState ==
  ASSUME NEW n \in Names \cup {"top"}, NEW t \in Seq(Names \cup {"top"})
  PROVE  /\ <<n>> \o t \in Seq(Names \cup {"top"}) /\ <<n>> \o t # <<>>
         /\ Head(<<n>> \o t) = n /\ Tail(<<n>> \o t) = t
BY FirstOfWire

\* The states of a place in a message,
LEMMA StatesFacts ==
  ASSUME NEW m, m.signal \in Names, NEW h \in {"signal"} \cup Holders
  PROVE  /\ <<"top">> \in Seq(Names \cup {"top"}) /\ <<"top">> # StreamStates
         /\ StreamStates \in Seq(Names \cup {"top"}) /\ StreamStates # <<>>
         /\ Head(StreamStates) = "stream" /\ Tail(StreamStates) = <<"top">>
         /\ SignalStates(m) \in Seq(Names \cup {"top"}) /\ SignalStates(m) # <<>>
         /\ Head(SignalStates(m)) = m.signal /\ Tail(SignalStates(m)) = StreamStates
         /\ StatesAt(m, h) \in Seq(Names \cup {"top"}) /\ StatesAt(m, h) # <<>>
         /\ Head(StatesAt(m, h)) = (IF h = "signal" THEN m.signal ELSE h)
         /\ h # "signal" => Tail(StatesAt(m, h)) = SignalStates(m)
<1>1. <<"top">> \in Seq(Names \cup {"top"}) /\ "top" \in Names \cup {"top"}
      /\ "stream" \in Names \cup {"top"} /\ "stream" # "top" /\ Head(<<"top">>) = "top"
  BY DEF Names
<1>2. /\ StreamStates \in Seq(Names \cup {"top"}) /\ StreamStates # <<>>
      /\ Head(StreamStates) = "stream" /\ Tail(StreamStates) = <<"top">>
  BY <1>1, PushedState DEF StreamStates
<1>3. /\ SignalStates(m) \in Seq(Names \cup {"top"}) /\ SignalStates(m) # <<>>
      /\ Head(SignalStates(m)) = m.signal /\ Tail(SignalStates(m)) = StreamStates
  BY <1>2, PushedState DEF SignalStates
<1>4. CASE h = "signal"
  BY <1>1, <1>2, <1>3, <1>4 DEF StatesAt
<1>5. CASE h # "signal" /\ h \in Holders
  <2>1. h \in Names \cup {"top"}
    BY <1>5, NameFacts
  <2>2. StatesAt(m, h) = <<h>> \o SignalStates(m)
    BY <1>5 DEF StatesAt
  <2>3. /\ StatesAt(m, h) \in Seq(Names \cup {"top"}) /\ StatesAt(m, h) # <<>>
        /\ Head(StatesAt(m, h)) = h /\ Tail(StatesAt(m, h)) = SignalStates(m)
    BY <1>3, <2>1, <2>2, PushedState
  <2> QED  BY <1>1, <1>2, <1>3, <1>5, <2>3
<1> QED  BY <1>4, <1>5

\* and of a place in an object.
LEMMA ObjectStatesFacts ==
  ASSUME NEW m, m.signal \in Names, NEW h \in {"signal"} \cup Holders, NEW k \in Kinds
  PROVE  /\ ObjectStates(m, h, k) \in Seq(Names \cup {"top"}) /\ ObjectStates(m, h, k) # <<>>
         /\ Head(ObjectStates(m, h, k)) = k /\ Tail(ObjectStates(m, h, k)) = StatesAt(m, h)
         /\ <<"option">> \o ObjectStates(m, h, k) \in Seq(Names \cup {"top"})
         /\ <<"option">> \o ObjectStates(m, h, k) # <<>>
         /\ Head(<<"option">> \o ObjectStates(m, h, k)) = "option"
         /\ Tail(<<"option">> \o ObjectStates(m, h, k)) = ObjectStates(m, h, k)
<1>1. k \in Names \cup {"top"} /\ "option" \in Names \cup {"top"}
  BY NameFacts DEF Names
<1>2. StatesAt(m, h) \in Seq(Names \cup {"top"})
  BY StatesFacts
<1>3. /\ ObjectStates(m, h, k) \in Seq(Names \cup {"top"}) /\ ObjectStates(m, h, k) # <<>>
      /\ Head(ObjectStates(m, h, k)) = k /\ Tail(ObjectStates(m, h, k)) = StatesAt(m, h)
  BY <1>1, <1>2, PushedState DEF ObjectStates
<1> QED  BY <1>1, <1>3, PushedState

-----------------------------------------------------------------------------
\* Cells that are written to, whichever they are.
WithName(hp, a, x) == [hp EXCEPT ![a].name = x]
WithAttribute(hp, a, x) == [hp EXCEPT ![a].attribute = x]
WithText(hp, a, x) == [hp EXCEPT ![a].text = x]

\* A field of a cell is written.
LEMMA FieldWritten ==
  ASSUME NEW hp \in Seq(Cells), NEW a, NEW x \in Texts
  PROVE  /\ WithName(hp, a, x) \in Seq(Cells) /\ Len(WithName(hp, a, x)) = Len(hp)
         /\ WithAttribute(hp, a, x) \in Seq(Cells) /\ Len(WithAttribute(hp, a, x)) = Len(hp)
         /\ WithText(hp, a, x) \in Seq(Cells) /\ Len(WithText(hp, a, x)) = Len(hp)
<1>1. CASE a \in 1 .. Len(hp)
  <2>1. hp[a] \in Cells
    BY <1>1, ElementOfSeq
  <2> DEFINE n == [hp[a] EXCEPT !.name = x]
             b == [hp[a] EXCEPT !.attribute = x]
             t == [hp[a] EXCEPT !.text = x]
  <2>2. n \in Cells /\ b \in Cells /\ t \in Cells
    BY <2>1 DEF Cells
  <2>3. /\ [hp EXCEPT ![a].name = x] = [hp EXCEPT ![a] = n]
        /\ [hp EXCEPT ![a].attribute = x] = [hp EXCEPT ![a] = b]
        /\ [hp EXCEPT ![a].text = x] = [hp EXCEPT ![a] = t]
    OBVIOUS
  <2> HIDE DEF n, b, t
  <2>4. [hp EXCEPT ![a] = n] \in Seq(Cells) /\ Len([hp EXCEPT ![a] = n]) = Len(hp)
    BY <2>2, Written1
  <2>5. [hp EXCEPT ![a] = b] \in Seq(Cells) /\ Len([hp EXCEPT ![a] = b]) = Len(hp)
    BY <2>2, Written1
  <2>6. [hp EXCEPT ![a] = t] \in Seq(Cells) /\ Len([hp EXCEPT ![a] = t]) = Len(hp)
    BY <2>2, Written1
  <2> QED  BY <2>3, <2>4, <2>5, <2>6 DEF WithName, WithAttribute, WithText
<1>2. CASE a \notin 1 .. Len(hp)
  <2>1. /\ [hp EXCEPT ![a].name = x] = hp /\ [hp EXCEPT ![a].attribute = x] = hp
        /\ [hp EXCEPT ![a].text = x] = hp
    BY <1>2
  <2> QED  BY <2>1 DEF WithName, WithAttribute, WithText
<1> QED  BY <1>1, <1>2

\* Writing to the object that is being read does not change what it will be.
LEMMA Overwritten ==
  ASSUME NEW hp \in Seq(Cells), NEW o \in Objects, o.kind \in Kinds, Len(hp) # 0,
         NEW d \in Cells, d.kind = hp[Len(hp)].kind, d.of = hp[Len(hp)].of,
         d.text = hp[Len(hp)].text
  PROVE  Completed([hp EXCEPT ![Len(hp)] = d], o) = Completed(hp, o)
<1> DEFINE a == Len(hp)
           hq == [hp EXCEPT ![a] = d]
           f == Final(hp[a], o)
           g == Final(hq[a], o)
           p == Completed(hp, o)
           q == Completed(hq, o)
<1>1. a \in 1 .. Len(hp)
  OBVIOUS
<1>2. hp[a] \in Cells
  BY <1>1, ElementOfSeq
<1>3. hq \in Seq(Cells) /\ Len(hq) = a /\ hq[a] = d /\ \A b \in 1 .. a : b # a => hq[b] = hp[b]
  BY <1>1, Written1
<1> HIDE DEF hq
<1>4. f \in Cells /\ g = f
  <2>1. g = f
    BY <1>3 DEF Final
  <2>2. f \in Cells
    BY <1>2 DEF Final, Cells, Objects, Texts
  <2> QED  BY <2>1, <2>2
<1>5. p = [hp EXCEPT ![a] = f] /\ q = [hq EXCEPT ![a] = f]
  BY <1>3, <1>4 DEF Completed
<1> HIDE DEF f, g, p, q
<1>6. /\ p \in Seq(Cells) /\ Len(p) = a /\ q \in Seq(Cells) /\ Len(q) = a
      /\ \A b \in 1 .. a : p[b] = q[b]
  <2>1. [hp EXCEPT ![a] = f] \in Seq(Cells) /\ Len([hp EXCEPT ![a] = f]) = a
        /\ \A b \in 1 .. a : [hp EXCEPT ![a] = f][b] = IF b = a THEN f ELSE hp[b]
    BY <1>4, Written1
  <2>2. [hq EXCEPT ![a] = f] \in Seq(Cells) /\ Len([hq EXCEPT ![a] = f]) = a
        /\ \A b \in 1 .. a : [hq EXCEPT ![a] = f][b] = IF b = a THEN f ELSE hq[b]
    BY <1>3, <1>4, Written1
  <2> QED  BY <1>3, <1>5, <2>1, <2>2
<1>7. p = q
  BY <1>6, SeqEqual
<1> QED  BY <1>7 DEF p, q, hq

\* The name of the object has been read.
LEMMA Named ==
  ASSUME NEW hp \in Seq(Cells), NEW o \in Objects, o.kind \in Kinds, NEW st, NEW op, NEW oq,
         Current(hp, st, op, o, 1), NEW hq, hq = [hp EXCEPT ![Len(hp)].name = o.name]
  PROVE  Current(hq, st, oq, o, 2) /\ Completed(hq, o) = Completed(hp, o)
<1> DEFINE a == Len(hp)
           d == [hp[a] EXCEPT !.name = o.name]
<1>1. /\ a # 0 /\ hp[a].kind = o.kind /\ First(st, Slot(o.kind)) = a
      /\ hp[a].attribute = "none"
  BY DEF Current
<1>2. hp[a] \in Cells
  BY <1>1, ElementOfSeq
<1>3. /\ d \in Cells /\ d.kind = hp[a].kind /\ d.of = hp[a].of /\ d.text = hp[a].text
      /\ d.attribute = "none" /\ d.name = o.name
  BY <1>1, <1>2 DEF Cells, Objects
<1>4. hq = [hp EXCEPT ![a] = d]
  OBVIOUS
<1> HIDE DEF d
<1>5. Completed([hp EXCEPT ![a] = d], o) = Completed(hp, o)
  BY <1>1, <1>3, Overwritten
<1>6. a \in 1 .. Len(hp)
  BY <1>1
<1>7. [hp EXCEPT ![a] = d] \in Seq(Cells) /\ Len([hp EXCEPT ![a] = d]) = a
      /\ [hp EXCEPT ![a] = d][a] = d
  BY <1>3, <1>6, Written1
<1>8. Len(hq) = a /\ hq[a] = d
  BY <1>4, <1>7
<1>9. Current(hq, st, oq, o, 2)
  BY <1>1, <1>3, <1>8 DEF Current
<1> QED  BY <1>4, <1>5, <1>9

\* Its attribute has been read.
LEMMA Optioned ==
  ASSUME NEW hp \in Seq(Cells), NEW o \in Objects, o.kind \in Kinds, NEW st, NEW op, NEW oq,
         Current(hp, st, op, o, 5), NEW hq, hq = [hp EXCEPT ![Len(hp)].attribute = op.value]
  PROVE  Current(hq, st, oq, o, 6) /\ Completed(hq, o) = Completed(hp, o)
<1> DEFINE a == Len(hp)
           d == [hp[a] EXCEPT !.attribute = op.value]
<1>1. /\ a # 0 /\ hp[a].kind = o.kind /\ First(st, Slot(o.kind)) = a
      /\ hp[a].name = o.name /\ op.value = o.attribute
  BY DEF Current
<1>2. hp[a] \in Cells
  BY <1>1, ElementOfSeq
<1>3. /\ d \in Cells /\ d.kind = hp[a].kind /\ d.of = hp[a].of /\ d.text = hp[a].text
      /\ d.attribute = o.attribute /\ d.name = o.name
  BY <1>1, <1>2 DEF Cells, Objects, Texts
<1>4. hq = [hp EXCEPT ![a] = d]
  OBVIOUS
<1> HIDE DEF d
<1>5. Completed([hp EXCEPT ![a] = d], o) = Completed(hp, o)
  BY <1>1, <1>3, Overwritten
<1>6. a \in 1 .. Len(hp)
  BY <1>1
<1>7. [hp EXCEPT ![a] = d] \in Seq(Cells) /\ Len([hp EXCEPT ![a] = d]) = a
      /\ [hp EXCEPT ![a] = d][a] = d
  BY <1>3, <1>6, Written1
<1>8. Len(hq) = a /\ hq[a] = d
  BY <1>4, <1>7
<1>9. Current(hq, st, oq, o, 6)
  BY <1>1, <1>3, <1>8 DEF Current
<1> QED  BY <1>4, <1>5, <1>9

\* At its end, the object is what it will be.
LEMMA ObjectDone ==
  ASSUME NEW hp \in Seq(Cells), NEW o \in Objects, o.kind \in Kinds, NEW st, NEW op,
         Current(hp, st, op, o, 6)
  PROVE  Completed(hp, o) = hp
<1> DEFINE a == Len(hp)
<1>1. /\ a # 0 /\ hp[a].kind = o.kind /\ hp[a].name = o.name /\ hp[a].attribute = o.attribute
  BY DEF Current
<1>2. a \in 1 .. Len(hp) /\ hp[a] \in Cells
  BY <1>1, ElementOfSeq
<1>3. Final(hp[a], o) = hp[a]
  BY <1>1, <1>2, FinalCell
<1>4. Completed(hp, o) = [hp EXCEPT ![a] = hp[a]]
  BY <1>3 DEF Completed
<1> DEFINE c == hp[a]
<1>a. c \in Cells /\ c = hp[a]
  BY <1>2
<1> HIDE DEF c
<1>5. /\ [hp EXCEPT ![a] = c] \in Seq(Cells) /\ Len([hp EXCEPT ![a] = c]) = Len(hp)
      /\ \A b \in 1 .. Len(hp) : [hp EXCEPT ![a] = c][b] = hp[b]
  BY <1>a, Written1
<1>6. [hp EXCEPT ![a] = c] = hp
  BY <1>5, SeqEqual
<1> QED  BY <1>4, <1>6 DEF c

-----------------------------------------------------------------------------
\* The context and the result of a message.

\* A cell that was added, as one fact.
Added(hp, hq, c) ==
  /\ Len(hq) = Len(hp) + 1 /\ hq[Len(hp) + 1] = c /\ SameObjects(hp, hq)
  /\ \A b \in 1 .. Len(hp) : hq[b] = hp[b]

\* Nothing is built at the start of a message.
LEMMA SignalStarted ==
  ASSUME NEW hp, NEW st, NEW rs, NEW m
  PROVE  Built(hp, NoElement, st, rs, m, "signal", 0)
BY DEF Built, BuiltSignal

\* A context, a result, the text of the one and of the other, and their ends.
LEMMA ContextStarted ==
  ASSUME NEW hp \in Seq(Cells), NEW el, NEW st, NEW su, NEW rs, NEW m, WellFormed(m),
         Built(hp, el, st, rs, m, "signal", 1), el \in Records(hp),
         NEW hq, Added(hp, hq, Empty("test-context")), Len(hq) \in Nat,
         NEW ek, ek.object = el.object, ek.context = Len(hp) + 1, ek.result = el.result,
         OnTop(st, su, "context", Len(hp) + 1)
  PROVE  Built(hq, ek, su, rs, m, "test-context", 1)
<1> DEFINE a == Len(hp) + 1
           e == Empty("test-context")
<1>1. Len(hp) \in Nat /\ ek.object = el.object /\ ek.context = a /\ ek.result = el.result
  OBVIOUS
<1>2. ObjectRead(hp, el, st, m) /\ el.result = 0
  BY DEF Built, BuiltSignal
<1>3. e \in Cells /\ \A j \in 1 .. 5 : e.of[SlotAt[j]] = 0
  BY EmptyCell DEF Holders
<1>5. Len(hq) = a /\ hq[a] = e /\ SameObjects(hp, hq)
  BY DEF Added
<1> HIDE DEF e
<1>6. First(su, "context") = a /\ \A s \in Slots : First(su, s) = First(st, s)
  BY SlotFacts DEF OnTop
<1>7. Slot(m.object.kind) \in Slots
  BY SlotFacts DEF WellFormed, Kinds
<1>8. ObjectRead(hq, ek, su, m)
  BY <1>1, <1>2, <1>5, <1>6, <1>7, ObjectReadKept
<1>9. Filled(hq, ek, m, "test-context", 1)
  <2>1. Holder(ek, "test-context") = a /\ a \in 1 .. Len(hq)
    BY <1>1, <1>5 DEF Holder
  <2>2. \A j \in 1 .. 5 : hq[a].of[SlotAt[j]] = 0 /\ ~(j < 1)
    BY <1>3, <1>5
  <2> QED  BY <2>1, <2>2 DEF Filled
<1>10. BuiltHolder(hq, ek, su, rs, m, "test-context", 1)
  BY <1>1, <1>2, <1>6, <1>8, <1>9 DEF BuiltHolder
<1> QED  BY <1>10 DEF Built

LEMMA ResultStarted ==
  ASSUME NEW hp \in Seq(Cells), NEW el, NEW st, NEW rs, NEW m,
         Built(hp, el, st, rs, m, "signal", 2), el \in Records(hp),
         NEW hq, Added(hp, hq, Empty("result")), Len(hq) \in Nat,
         NEW ek, ek.object = el.object, ek.result = Len(hp) + 1, ek.context = el.context
  PROVE  Built(hq, ek, st, Len(hp) + 1, m, "result", 1)
<1> DEFINE a == Len(hp) + 1
           e == Empty("result")
<1>1. /\ Len(hp) \in Nat /\ ek.object = el.object /\ ek.context = el.context
      /\ ek.result = a /\ el.context \in 0 .. Len(hp)
  BY DEF Records
<1>2. ObjectRead(hp, el, st, m) /\ Read(hp, el, m, "test-context")
  BY DEF Built, BuiltSignal
<1>3. e \in Cells /\ \A j \in 1 .. 5 : e.of[SlotAt[j]] = 0
  BY EmptyCell DEF Holders
<1>5. /\ Len(hq) = a /\ hq[a] = e /\ SameObjects(hp, hq)
      /\ \A b \in 1 .. Len(hp) : hq[b] = hp[b]
  BY DEF Added
<1> HIDE DEF e
<1>8. ObjectRead(hq, ek, st, m)
  BY <1>1, <1>2, <1>5, ObjectReadKept
<1>9. Filled(hq, ek, m, "result", 1)
  <2>1. Holder(ek, "result") = a /\ a \in 1 .. Len(hq)
    BY <1>1, <1>5 DEF Holder
  <2>2. \A j \in 1 .. 5 : hq[a].of[SlotAt[j]] = 0 /\ ~(j < 1)
    BY <1>3, <1>5
  <2> QED  BY <2>1, <2>2 DEF Filled
<1>10. Read(hq, ek, m, "test-context")
  <2>1. Holder(el, "test-context") = el.context /\ Holder(ek, "test-context") = el.context
    BY <1>1 DEF Holder
  <2>2. el.context # 0 => SameHolder(hp, hq, el.context)
    BY <1>1, <1>5 DEF SameHolder
  <2> QED  BY <1>1, <1>2, <1>5, <2>1, <2>2, ReadKept
<1>11. ek.context # ek.result
  BY <1>1
<1>12. BuiltHolder(hq, ek, st, a, m, "result", 1)
  BY <1>1, <1>8, <1>9, <1>10, <1>11 DEF BuiltHolder
<1> QED  BY <1>12 DEF Built

LEMMA HolderText ==
  ASSUME NEW hp \in Seq(Cells), NEW el, NEW st, NEW rs, NEW m, NEW h \in Holders,
         Built(hp, el, st, rs, m, h, 6), el \in Records(hp), LeafText(m, h) \in Texts,
         NEW hq, hq = [hp EXCEPT ![Own(st, rs, h)].text = LeafText(m, h)]
  PROVE  Built(hq, el, st, rs, m, h, 7)
<1> DEFINE a == Own(st, rs, h)
           d == [hp[a] EXCEPT !.text = LeafText(m, h)]
<1>1. BuiltHolder(hp, el, st, rs, m, h, 6) /\ h # "signal" /\ Len(hp) \in Nat
  BY DEF Built, Holders
<1>2. a = Holder(el, h) /\ a \in 1 .. Len(hp)
  BY <1>1, OwnerBuilt
<1>3. hp[a] \in Cells
  BY <1>2, ElementOfSeq
<1>4. /\ d \in Cells /\ d.kind = hp[a].kind /\ d.name = hp[a].name
      /\ d.attribute = hp[a].attribute /\ d.of = hp[a].of /\ d.text = LeafText(m, h)
  BY <1>3 DEF Cells
<1>5. hq = [hp EXCEPT ![a] = d]
  OBVIOUS
<1> HIDE DEF d
<1>a. /\ [hp EXCEPT ![a] = d] \in Seq(Cells) /\ Len([hp EXCEPT ![a] = d]) = Len(hp)
      /\ \A b \in 1 .. Len(hp) : [hp EXCEPT ![a] = d][b] = IF b = a THEN d ELSE hp[b]
  BY <1>4, Written1
<1>6. Len(hq) = Len(hp) /\ \A b \in 1 .. Len(hp) : hq[b] = IF b = a THEN d ELSE hp[b]
  BY <1>5, <1>a
<1> HIDE DEF a
<1>7. SameObjects(hp, hq)
  BY <1>4, <1>6 DEF SameObjects
<1>8. ObjectRead(hp, el, st, m) /\ Filled(hp, el, m, h, 6)
  BY <1>1 DEF BuiltHolder
<1>9. ObjectRead(hq, el, st, m)
  BY <1>1, <1>6, <1>7, <1>8, ObjectReadKept
<1>10. Filled(hq, el, m, h, 7)
  <2>1. ASSUME NEW j \in 1 .. 5
        PROVE  LET b == hq[a].of[SlotAt[j]]
               IN IF j < 7 THEN b \in 0 .. Len(hq) /\ Shown(hq, b) = ObjectAt(m, h, j)
                           ELSE b = 0
    <3>1. /\ hp[a].of[SlotAt[j]] \in 0 .. Len(hp)
          /\ Shown(hp, hp[a].of[SlotAt[j]]) = ObjectAt(m, h, j)
      BY <1>2, <1>8 DEF Filled
    <3>2. hq[a].of = hp[a].of
      BY <1>2, <1>4, <1>6
    <3> QED  BY <1>1, <1>6, <1>7, <3>1, <3>2, ShownKept
  <2>2. a \in 1 .. Len(hq) /\ hq[a].text = LeafText(m, h)
    BY <1>2, <1>4, <1>6
  <2> QED  BY <1>2, <2>1, <2>2 DEF Filled
<1>11. h = "result" => Read(hq, el, m, "test-context")
  <2> SUFFICES ASSUME h = "result" PROVE Read(hq, el, m, "test-context")
    OBVIOUS
  <2>1. Read(hp, el, m, "test-context") /\ el.context # el.result
    BY <1>1 DEF BuiltHolder
  <2>2. Holder(el, "test-context") = el.context /\ a = el.result
    BY <1>2 DEF Holder
  <2>3. el.context \in 0 .. Len(hp)
    BY DEF Records
  <2>a. el.context # 0 => el.context \in 1 .. Len(hp) /\ el.context # a
    BY <1>1, <2>1, <2>2, <2>3
  <2>b. el.context # 0 => hq[el.context] = hp[el.context]
    BY <1>6, <2>a
  <2>4. el.context # 0 => SameHolder(hp, hq, el.context)
    BY <2>b DEF SameHolder
  <2> QED  BY <1>1, <1>6, <1>7, <2>1, <2>2, <2>4, ReadKept
<1>12. BuiltHolder(hq, el, st, rs, m, h, 7)
  BY <1>1, <1>9, <1>10, <1>11 DEF BuiltHolder
<1> QED  BY <1>1, <1>12 DEF Built

LEMMA ContextEnded ==
  ASSUME NEW hp, NEW el, NEW st, NEW su, NEW rs, NEW m, WellFormed(m),
         ~Absent(m, "test-context"), Built(hp, el, st, rs, m, "test-context", 7)
  PROVE  Built(hp, el, su, rs, m, "signal", 2)
<1>1. BuiltHolder(hp, el, st, rs, m, "test-context", 7)
  BY DEF Built
<1>2. m.signal \notin Stacked
  BY DEF WellFormed, Absent
<1>3. ObjectRead(hp, el, su, m)
  BY <1>1, <1>2 DEF BuiltHolder, ObjectRead
<1>4. Read(hp, el, m, "test-context") /\ el.result = 0
  BY <1>1 DEF BuiltHolder, Read
<1> QED  BY <1>3, <1>4 DEF Built, BuiltSignal

LEMMA ResultEnded ==
  ASSUME NEW hp, NEW el, NEW st, NEW rs, NEW m,
         ~Absent(m, "result"), Built(hp, el, st, rs, m, "result", 7)
  PROVE  Built(hp, el, st, rs, m, "signal", 3)
<1>1. BuiltHolder(hp, el, st, rs, m, "result", 7)
  BY DEF Built
<1>2. Read(hp, el, m, "result")
  BY <1>1 DEF BuiltHolder, Read
<1> QED  BY <1>1, <1>2 DEF Built, BuiltSignal, BuiltHolder

\* What is not there needs no reading.
LEMMA NothingBuilt ==
  ASSUME NEW hp, NEW el, NEW st, NEW rs, NEW m
  PROVE  /\ Absent(m, "test-context") /\ Built(hp, el, st, rs, m, "signal", 1) =>
              Built(hp, el, st, rs, m, "signal", 2)
         /\ Absent(m, "result") /\ Built(hp, el, st, rs, m, "signal", 2) =>
              Built(hp, el, st, rs, m, "signal", 3)
         /\ Built(hp, el, st, rs, m, "signal", 3) => Built(hp, el, st, rs, m, "signal", 4)
BY DEF Built, BuiltSignal, Read, Holder

\* An object that is not there is built already.
LEMMA NoObjectBuilt ==
  ASSUME NEW hp \in Seq(Cells), NEW el, NEW st, NEW rs, NEW m, NEW h \in Holders, NEW i \in 1 .. 5,
         ObjectAt(m, h, i) = None, Built(hp, el, st, rs, m, h, i)
  PROVE  Built(hp, el, st, rs, m, h, i + 1)
<1>1. BuiltHolder(hp, el, st, rs, m, h, i) /\ h # "signal" /\ Len(hp) \in Nat
  BY DEF Built, Holders
<1> DEFINE w == Holder(el, h)
<1>2. ASSUME NEW j \in 1 .. 5
      PROVE  LET a == hp[w].of[SlotAt[j]]
             IN IF j < i + 1 THEN a \in 0 .. Len(hp) /\ Shown(hp, a) = ObjectAt(m, h, j)
                             ELSE a = 0
  <2>1. LET a == hp[w].of[SlotAt[j]]
        IN IF j < i THEN a \in 0 .. Len(hp) /\ Shown(hp, a) = ObjectAt(m, h, j)
                    ELSE a = 0
    BY <1>1 DEF BuiltHolder, Filled
  <2>2. CASE j = i
    BY <1>1, <2>1, <2>2 DEF Shown
  <2>3. CASE j # i
    <3>1. j < i <=> j < i + 1
      BY <2>3
    <3> QED  BY <2>1, <3>1
  <2> QED  BY <2>2, <2>3
<1>3. w \in 1 .. Len(hp) /\ i + 1 # 7
  BY <1>1 DEF BuiltHolder, Filled
<1>4. Filled(hp, el, m, h, i + 1)
  BY <1>2, <1>3 DEF Filled
<1>5. BuiltHolder(hp, el, st, rs, m, h, i + 1)
  BY <1>1, <1>4 DEF BuiltHolder
<1> QED  BY <1>1, <1>5 DEF Built

-----------------------------------------------------------------------------
\* The end of a message: what is emitted, and what is kept.

\* Collect keeps the heap and the stacks of their types.
LEMMA Collected ==
  ASSUME heap \in Seq(Cells), NEW kept \in [Slots \cup {"context"} -> Seq(1 .. Len(heap))],
         Collect(kept)
  PROVE  /\ heap' \in Seq(Cells)
         /\ stacks' \in [Slots \cup {"context"} -> Seq(1 .. Len(heap'))]
<1> DEFINE live == UNION {Range(kept[s]) : s \in DOMAIN kept}
           moved(a) == Cardinality({b \in live : b <= a})
           n == Cardinality(live)
           f == [a \in live |-> moved(a)]
<1>1. live \subseteq 1 .. Len(heap) /\ Len(heap) \in Nat
  BY DEF Range
<1>2. IsFiniteSet(live) /\ n \in Nat
  <2>1. IsFiniteSet(1 .. Len(heap))
    BY <1>1, FS_Interval
  <2> QED  BY <1>1, <2>1, FS_Subset, FS_CardinalityType
<1>c. DOMAIN kept = Slots \cup {"context"}
      /\ \A s \in DOMAIN kept : kept[s] \in Seq(1 .. Len(heap)) /\ Range(kept[s]) \subseteq live
  OBVIOUS
<1>d. /\ heap' = [i \in 1 .. n |-> heap[CHOOSE a \in live : moved(a) = i]]
      /\ stacks' = [s \in DOMAIN kept |-> [i \in DOMAIN kept[s] |-> moved(kept[s][i])]]
  BY DEF Collect
<1> HIDE DEF live
<1>3. ASSUME NEW a \in live
      PROVE  moved(a) \in 1 .. n /\ \A c \in live : a < c => moved(a) < moved(c)
  <2> DEFINE A == {b \in live : b <= a}
  <2>1. A \subseteq live /\ a \in A /\ a \in Nat
    BY <1>1
  <2>2. IsFiniteSet(A) /\ Cardinality(A) <= n /\ Cardinality(A) \in Nat /\ Cardinality(A) # 0
    <3>1. A # {}
      BY <2>1
    <3> HIDE DEF A
    <3>2. IsFiniteSet(A) /\ Cardinality(A) <= n
      BY <1>2, <2>1, FS_Subset
    <3> QED  BY <3>1, <3>2, FS_CardinalityType, FS_EmptySet
  <2>3. ASSUME NEW c \in live, a < c PROVE Cardinality(A) < moved(c)
    <3> DEFINE C == {b \in live : b <= c}
    <3>a. a \in Nat /\ c \in Nat /\ a < c /\ \A b \in live : b \in Nat
      BY <1>1, <2>3
    <3>b. \A b \in live : b <= a => b <= c
      BY <3>a
    <3>c. ~(c <= a) /\ c <= c
      BY <3>a
    <3>d. A \subseteq C
      BY <3>b
    <3>e. c \in C /\ c \notin A /\ C \subseteq live
      BY <3>c
    <3>1. A \subseteq C /\ c \in C /\ c \notin A /\ C \subseteq live
      BY <3>d, <3>e
    <3> HIDE DEF A, C
    <3>2. IsFiniteSet(C)
      BY <1>2, <3>1, FS_Subset
    <3>3. Cardinality(A) <= Cardinality(C) /\ Cardinality(A) # Cardinality(C)
      BY <3>1, <3>2, FS_Subset
    <3>4. Cardinality(C) \in Nat
      BY <3>2, FS_CardinalityType
    <3>5. Cardinality(A) < Cardinality(C)
      BY <2>2, <3>3, <3>4
    <3> QED  BY <3>5 DEF C
  <2>4. moved(a) = Cardinality(A)
    OBVIOUS
  <2> HIDE DEF A, moved
  <2> QED  BY <1>2, <2>2, <2>3, <2>4
<1> HIDE DEF moved
<1>4. f \in Injection(live, 1 .. n)
  <2>1. f \in [live -> 1 .. n]
    BY <1>3
  <2>2. ASSUME NEW a \in live, NEW c \in live, moved(a) = moved(c) PROVE a = c
    <3>1. a \in Nat /\ c \in Nat /\ moved(a) \in Nat /\ ~(moved(a) < moved(c))
          /\ ~(moved(c) < moved(a))
      BY <1>1, <1>3, <2>2
    <3>2. ~(a < c) /\ ~(c < a)
      BY <1>3, <3>1
    <3> QED  BY <3>1, <3>2
  <2>3. \A a, c \in live : f[a] = f[c] => a = c
    BY <2>2
  <2> QED  BY <2>1, <2>3 DEF Injection, IsInjective
<1>5. f \in Surjection(live, 1 .. n)
  <2>1. IsFiniteSet(1 .. n) /\ Cardinality(1 .. n) = n
    BY <1>2, FS_Interval
  <2> HIDE DEF f
  <2> QED  BY <1>4, <2>1, FS_Injection
<1>6. \A i \in 1 .. n : \E a \in live : moved(a) = i
  BY <1>5 DEF Surjection
<1>7. \A i \in 1 .. n : heap[CHOOSE a \in live : moved(a) = i] \in Cells
  <2> TAKE i \in 1 .. n
  <2>1. (CHOOSE a \in live : moved(a) = i) \in live
    BY <1>6
  <2> QED  BY <1>1, <2>1, ElementOfSeq
<1>8. heap' \in Seq(Cells) /\ Len(heap') = n
  <2>1. heap' \in [1 .. n -> Cells]
    BY <1>7, <1>d
  <2> HIDE DEF n
  <2> QED  BY <1>2, <2>1
<1>9. \A s \in DOMAIN kept : [i \in DOMAIN kept[s] |-> moved(kept[s][i])] \in Seq(1 .. n)
  <2> TAKE s \in DOMAIN kept
  <2>1. kept[s] \in Seq(1 .. Len(heap)) /\ DOMAIN kept[s] = 1 .. Len(kept[s])
        /\ Len(kept[s]) \in Nat
    BY <1>c
  <2>2. \A i \in DOMAIN kept[s] : kept[s][i] \in live
    BY <1>c DEF Range
  <2>3. \A i \in 1 .. Len(kept[s]) : moved(kept[s][i]) \in 1 .. n
    BY <1>3, <2>1, <2>2
  <2> QED  BY <2>1, <2>3
<1> QED  BY <1>8, <1>9, <1>c, <1>d

\* The stacks stay of their type when one of them is popped.
LEMMA PoppedTyped ==
  ASSUME NEW n \in Nat, NEW s, stacks[s] \in Seq(1 .. n)
  PROVE  Popped(s) \in Seq(1 .. n)
<1>1. CASE stacks[s] = <<>>
  BY <1>1, EmptySeq DEF Popped
<1>2. CASE stacks[s] # <<>>
  BY <1>2, HeadTailProperties DEF Popped
<1> QED  BY <1>1, <1>2

\* What a handler sees of what is built.
LEMMA SeenShown ==
  ASSUME NEW a
  PROVE  Seen(a) = Shown(heap, a)
BY DEF Seen, Shown

LEMMA HolderSeen ==
  ASSUME NEW el, NEW m, NEW h \in Holders, Filled(heap, el, m, h, 7)
  PROVE  /\ \A j \in 1 .. 5 : Seen(heap[Holder(el, h)].of[SlotAt[j]]) = ObjectAt(m, h, j)
         /\ heap[Holder(el, h)].text = LeafText(m, h) /\ Holder(el, h) # 0
<1>1. ASSUME NEW j \in 1 .. 5
      PROVE  Seen(heap[Holder(el, h)].of[SlotAt[j]]) = ObjectAt(m, h, j)
  <2>1. Shown(heap, heap[Holder(el, h)].of[SlotAt[j]]) = ObjectAt(m, h, j)
    BY DEF Filled
  <2> QED  BY <2>1, SeenShown
<1>2. heap[Holder(el, h)].text = LeafText(m, h) /\ Holder(el, h) # 0
  BY DEF Filled
<1> QED  BY <1>1, <1>2

LEMMA ContextSeen ==
  ASSUME NEW el, NEW m, m.context \in Contexts, Read(heap, el, m, "test-context")
  PROVE  SeenContext(el.context) = m.context
<1>1. Holder(el, "test-context") = el.context
  BY DEF Holder
<1>2. CASE Absent(m, "test-context")
  BY <1>1, <1>2 DEF Read, Absent, SeenContext
<1>3. CASE ~Absent(m, "test-context")
  <2> DEFINE a == el.context
             see == [s \in Slots \cup {"failed"} |->
                       IF s = "failed" THEN heap[a].text ELSE Seen(heap[a].of[s])]
  <2>1. Filled(heap, el, m, "test-context", 7)
    BY <1>3 DEF Read
  <2>2. /\ \A j \in 1 .. 5 : Seen(heap[a].of[SlotAt[j]]) = ObjectAt(m, "test-context", j)
        /\ heap[a].text = m.context.failed /\ a # 0
    BY <1>1, <2>1, HolderSeen DEF Holders, LeafText
  <2>3. \A j \in 1 .. 5 : Seen(heap[a].of[SlotAt[j]]) = m.context[SlotAt[j]]
    BY <2>2 DEF ObjectAt, Part
  <2>4. \A s \in Slots : Seen(heap[a].of[s]) = m.context[s]
    BY <2>3, SlotFacts
  <2>5. "failed" \notin Slots
    BY DEF Slots
  <2>6. \A s \in Slots \cup {"failed"} : see[s] = m.context[s]
    BY <2>2, <2>4, <2>5
  <2>7. m.context = [s \in Slots \cup {"failed"} |-> m.context[s]]
    BY DEF Contexts, Slots
  <2>8. see = [s \in Slots \cup {"failed"} |-> see[s]]
    OBVIOUS
  <2>9. SeenContext(a) = see
    BY <2>2 DEF SeenContext
  <2> HIDE DEF see
  <2> QED  BY <2>6, <2>7, <2>8, <2>9
<1> QED  BY <1>2, <1>3

LEMMA ResultSeen ==
  ASSUME NEW el, NEW m, m.result \in ResultRecords, Read(heap, el, m, "result")
  PROVE  SeenResult(el.result) = m.result
<1>1. Holder(el, "result") = el.result
  BY DEF Holder
<1>2. CASE Absent(m, "result")
  BY <1>1, <1>2 DEF Read, Absent, SeenResult
<1>3. CASE ~Absent(m, "result")
  <2> DEFINE a == el.result
             D == (Slots \ {"suite"}) \cup {"status"}
             see == [s \in D |-> IF s = "status" THEN heap[a].text ELSE Seen(heap[a].of[s])]
  <2>1. Filled(heap, el, m, "result", 7)
    BY <1>3 DEF Read
  <2>2. /\ \A j \in 1 .. 5 : Seen(heap[a].of[SlotAt[j]]) = ObjectAt(m, "result", j)
        /\ heap[a].text = m.result.status /\ a # 0
    BY <1>1, <2>1, HolderSeen DEF Holders, LeafText
  <2>3. \A j \in 2 .. 5 : Seen(heap[a].of[SlotAt[j]]) = m.result[SlotAt[j]]
    BY <2>2, SlotFacts DEF ObjectAt, Part
  <2>a. \A s \in Slots \ {"suite"} : \E j \in 2 .. 5 : s = SlotAt[j]
    BY DEF Slots, SlotAt
  <2>4. \A s \in Slots \ {"suite"} : Seen(heap[a].of[s]) = m.result[s]
    BY <2>3, <2>a
  <2>5. "status" \notin Slots
    BY DEF Slots
  <2>6. \A s \in D : see[s] = m.result[s]
    BY <2>2, <2>4, <2>5
  <2>7. m.result = [s \in D |-> m.result[s]]
    BY DEF ResultRecords, Slots
  <2>8. see = [s \in D |-> see[s]]
    OBVIOUS
  <2>9. SeenResult(a) = see
    BY <2>2 DEF SeenResult
  <2> HIDE DEF see, D
  <2> QED  BY <2>6, <2>7, <2>8, <2>9
<1> QED  BY <1>2, <1>3

\* What is emitted is the message.
LEMMA RecordIsMessage ==
  ASSUME NEW m, WellFormed(m), m.signal \notin Stacked,
         Built(heap, element, stacks, result, m, "signal", 4),
         m.success # "none" => completeSuccess = m.success
  PROVE  [signal |-> m.signal, object |-> Seen(element.object),
          context |-> SeenContext(element.context), result |-> SeenResult(element.result),
          success |-> IF m.signal \in {"complete-test", "complete-iterated-test"}
                      THEN completeSuccess ELSE "none"] = m
<1>1. /\ ObjectRead(heap, element, stacks, m) /\ Read(heap, element, m, "test-context")
      /\ Read(heap, element, m, "result")
  BY DEF Built, BuiltSignal
<1>2. m.context \in Contexts /\ m.result \in ResultRecords
  BY DEF WellFormed, Messages
<1>3. Seen(element.object) = m.object
  BY <1>1, SeenShown DEF ObjectRead
<1>4. SeenContext(element.context) = m.context /\ SeenResult(element.result) = m.result
  BY <1>1, <1>2, ContextSeen, ResultSeen
<1>5. (IF m.signal \in {"complete-test", "complete-iterated-test"}
       THEN completeSuccess ELSE "none") = m.success
  <2>1. m.signal \in {"complete-test", "complete-iterated-test"} <=> m.signal \in Completing
    BY DEF Completing, Stacked
  <2> QED  BY <2>1 DEF WellFormed
<1>6. m = [signal |-> m.signal, object |-> m.object, context |-> m.context,
           result |-> m.result, success |-> m.success]
  BY DEF WellFormed, Messages
<1> QED  BY <1>3, <1>4, <1>5, <1>6

\* What is emitted for a message whose object is on a stack only.
LEMMA OnObjectIs ==
  ASSUME NEW e, NEW o, NEW s
  PROVE  [OnObject(e, o) EXCEPT !.success = s] =
           [signal |-> e, object |-> o, context |-> NoContext, result |-> NoResult,
            success |-> s]
<1>1. Message(e) = [signal |-> e, object |-> None, context |-> NoContext,
                    result |-> NoResult, success |-> "none"]
  BY DEF Message
<1> DEFINE c == NoContext
           r == NoResult
<1>2. OnObject(e, o) = [signal |-> e, object |-> o, context |-> c, result |-> r,
                        success |-> "none"]
  BY <1>1 DEF OnObject
<1> HIDE DEF c, r
<1>3. [OnObject(e, o) EXCEPT !.success = s] =
        [signal |-> e, object |-> o, context |-> c, result |-> r, success |-> s]
  BY <1>2
<1> QED  BY <1>3 DEF c, r

StackedSlot(e) == IF e \in {"start-test-suite", "complete-test-suite"} THEN "suite"
                  ELSE IF e \in {"start-test-case", "complete-test-case"}
                  THEN "case" ELSE "iterator"

LEMMA StackedIsMessage ==
  ASSUME NEW m, WellFormed(m), m.signal \in Stacked,
         Built(heap, element, stacks, result, m, "signal", 4),
         m.success # "none" => completeSuccess = m.success
  PROVE  [OnObject(m.signal, Seen(Peek(StackedSlot(m.signal)))) EXCEPT
            !.success = IF m.signal \in {"complete-test-suite", "complete-test-case",
                                         "complete-test-iterator"}
                        THEN completeSuccess ELSE "none"] = m
<1>1. ObjectRead(heap, element, stacks, m)
  BY DEF Built, BuiltSignal
<1>2. StackedSlot(m.signal) = Slot(m.object.kind)
  BY DEF WellFormed, Stacked, Accepts, TestObjects, StackedSlot, Slot
<1>3. Seen(Peek(StackedSlot(m.signal))) = m.object
  BY <1>1, <1>2, SeenShown DEF ObjectRead, Peek, First
<1>4. m.context = NoContext /\ m.result = NoResult
  BY DEF WellFormed, Stacked, WithResult
<1>5. (IF m.signal \in {"complete-test-suite", "complete-test-case",
                         "complete-test-iterator"}
       THEN completeSuccess ELSE "none") = m.success
  <2>1. m.signal \in {"complete-test-suite", "complete-test-case", "complete-test-iterator"}
        <=> m.signal \in Completing
    BY DEF Completing, Stacked
  <2> QED  BY <2>1 DEF WellFormed
<1>6. m = [signal |-> m.signal, object |-> m.object, context |-> m.context,
           result |-> m.result, success |-> m.success]
  BY DEF WellFormed, Messages
<1> DEFINE seen == Seen(Peek(StackedSlot(m.signal)))
           success == IF m.signal \in {"complete-test-suite", "complete-test-case",
                                       "complete-test-iterator"}
                      THEN completeSuccess ELSE "none"
<1>7. seen = m.object /\ success = m.success
  BY <1>3, <1>5
<1> HIDE DEF seen, success
<1>8. [OnObject(m.signal, seen) EXCEPT !.success = success] =
        [signal |-> m.signal, object |-> seen, context |-> NoContext, result |-> NoResult,
         success |-> success]
  BY OnObjectIs
<1>9. [OnObject(m.signal, seen) EXCEPT !.success = success] = m
  BY <1>4, <1>6, <1>7, <1>8
<1> QED  BY <1>9 DEF seen, success

-----------------------------------------------------------------------------
\* The steps within a message.

\* The parser reads a tag of a message, and goes on to another place of it.
Reads(m) == Typed /\ WellFormed(m) /\ Parse
Goes(m) ==
  /\ wire' \in Seq(Tags) /\ states' \in Seq(Names \cup {"top"}) /\ states' # <<>>
  /\ ParserTyped' /\ Position(m)' /\ UNCHANGED <<child, relayed, reader>>

\* The places.
LEMMA PlaceFacts ==
  /\ \A i \in 0 .. 4 : <<"signal", i>> \in Places
  /\ \A h \in Holders, i \in 1 .. 7 : <<h, i>> \in Places
  /\ "signal" \notin Holders /\ "test-context" \in Holders /\ "result" \in Holders
BY DEF Places, ObjectPlaces, Holders

\* A place is a position in the message.
LEMMA AtPlacePosition ==
  ASSUME NEW m, NEW h, NEW i, <<h, i>> \in Places, AtPlace(m, h, i)'
  PROVE  Position(m)'
<1>1. \E p \in Places : AtPlace(m, p[1], p[2])'
  BY DEF Places
<1> QED  BY <1>1 DEF Position

LEMMA InObjectPosition ==
  ASSUME NEW m, NEW h, NEW i, <<h, i>> \in ObjectPlaces, NEW j \in 1 .. 6,
         InObject(m, h, i, j)'
  PROVE  Position(m)'
<1>1. \E p \in ObjectPlaces, k \in 1 .. 6 : InObject(m, p[1], p[2], k)'
  BY DEF ObjectPlaces
<1> QED  BY <1>1 DEF Position

\* <message>
LEMMA SignalStep ==
  ASSUME NEW m, Reads(m), AtStart(m)
  PROVE  Goes(m)
<1>1. /\ Typed /\ WellFormed(m) /\ Parse /\ states = StreamStates /\ result = 0
      /\ wire = Tag("start", m.signal) \o ObjectRest(m)
  BY DEF Reads, AtStart
<1>2. m.signal \in Signals /\ m.signal \in Names
  BY <1>1, MessageFacts
<1>3. ObjectRest(m) = Rest(m, "signal", 0) /\ Rest(m, "signal", 0) \in Seq(Tags)
  BY <1>1, SignalWire DEF Rest
<1>4. m.signal \in Accepts(Head(states))
  BY <1>1, <1>2, StatesFacts, AcceptsFacts
<1>5. StartElement(m.signal) /\ wire' = Rest(m, "signal", 0) /\ UNCHANGED child
  BY <1>1, <1>2, <1>3, <1>4, ParseStart
<1>6. /\ StartSignal(m.signal) /\ UNCHANGED <<relayed, reader, option, completeSuccess,
                                               streamSuccess>>
      /\ states' = <<m.signal>> \o states
  BY <1>2, <1>5, NameFacts DEF StartElement, Kinds, Holders
<1>7. states' = StatesAt(m, "signal")
  BY <1>1, <1>6 DEF StatesAt, SignalStates
<1>8. ParserTyped'
  <2>1. ParserTyped
    BY <1>1 DEF Typed
  <2>2. element' = NoElement /\ result' = result
    BY <1>6 DEF StartSignal
  <2>3. CASE UNCHANGED <<heap, stacks>>
    BY <1>6, <2>1, <2>2, <2>3 DEF ParserTyped, NoElement, Records
  <2>4. ASSUME NEW k \in Kinds, heap' = Append(heap, Empty(k)),
               stacks' = [stacks EXCEPT ![Slot(k)] = <<Len(heap) + 1>> \o @]
        PROVE  ParserTyped'
    <3>1. Empty(k) \in Cells /\ Slot(k) \in Slots \cup {"context"}
      BY EmptyCell, SlotFacts
    <3>2. heap \in Seq(Cells) /\ Len(heap) \in Nat
          /\ stacks \in [Slots \cup {"context"} -> Seq(1 .. Len(heap))]
      BY <2>1 DEF ParserTyped
    <3>3. heap' \in Seq(Cells) /\ Len(heap') = Len(heap) + 1
      BY <2>4, <3>1, <3>2, Allocated
    <3>a. StackGrown(stacks, [stacks EXCEPT ![Slot(k)] = <<Len(heap) + 1>> \o @], Slot(k),
                     Len(heap))
      BY <3>1, <3>2, Pushed
    <3>4. stacks' \in [Slots \cup {"context"} -> Seq(1 .. Len(heap) + 1)]
      BY <2>4, <3>a DEF StackGrown
    <3> QED  BY <1>1, <1>6, <2>1, <2>2, <3>2, <3>3, <3>4 DEF ParserTyped, NoElement, Records
  <2>5. CASE m.signal \in {"start-test-suite", "start-test-case", "start-test-iterator"}
    <3> DEFINE k == IF m.signal = "start-test-suite" THEN "test-suite"
                    ELSE IF m.signal = "start-test-case" THEN "test-case"
                    ELSE "test-iterator"
    <3>1. k \in Kinds
      BY DEF Kinds, TestObjects
    <3>2. /\ heap' = Append(heap, Empty(k))
          /\ stacks' = [stacks EXCEPT ![Slot(k)] = <<Len(heap) + 1>> \o @]
      BY <1>6, <2>5 DEF StartSignal, NewAddress
    <3> HIDE DEF k
    <3> QED  BY <2>4, <3>1, <3>2
  <2>6. CASE m.signal \notin {"start-test-suite", "start-test-case", "start-test-iterator"}
    <3>1. UNCHANGED <<heap, stacks>>
      BY <1>6, <2>6 DEF StartSignal
    <3> QED  BY <2>3, <3>1
  <2> QED  BY <2>5, <2>6
<1>9. AtPlace(m, "signal", 0)'
  <2>1. element' = NoElement /\ result' = 0
    BY <1>1, <1>6 DEF StartSignal
  <2>2. Control(m, "signal", 0)'
    BY <2>1, PlaceFacts DEF Control
  <2>3. Built(heap', element', stacks', result', m, "signal", 0)
    BY <2>1, SignalStarted
  <2> QED  BY <1>5, <1>7, <2>2, <2>3 DEF AtPlace
<1>10. Position(m)'
  BY <1>9, PlaceFacts, AtPlacePosition
<1>11. states' \in Seq(Names \cup {"top"}) /\ states' # <<>>
  BY <1>2, <1>7, StatesFacts
<1> QED  BY <1>3, <1>5, <1>6, <1>8, <1>10, <1>11 DEF Goes

\* An object.
LEMMA ObjectAccepted ==
  ASSUME NEW m, WellFormed(m), NEW h, NEW i, <<h, i>> \in ObjectPlaces,
         h \in Holders => ~Absent(m, h), ObjectAt(m, h, i) # None
  PROVE  /\ ObjectAt(m, h, i).kind \in Accepts(Head(StatesAt(m, h)))
         /\ h \in {"signal"} \cup Holders
<1> DEFINE k == ObjectAt(m, h, i).kind
<1>1. /\ (h = "signal" /\ i = 0) \/ (h \in Holders /\ i \in 1 .. 5 /\ h # "signal")
      /\ k \in Kinds /\ (h \in Holders => Slot(k) = SlotAt[i])
  BY NextObject
<1>2. m.signal \in Names
  BY MessageFacts
<1>3. CASE h = "signal"
  <2>1. k = m.object.kind /\ Head(StatesAt(m, h)) = m.signal
    BY <1>2, <1>3, StatesFacts DEF ObjectAt
  <2> QED  BY <1>3, <2>1 DEF WellFormed
<1>4. CASE h \in Holders /\ h # "signal"
  <2>1. Head(StatesAt(m, h)) = h
    BY <1>2, <1>4, StatesFacts
  <2>2. h = "result" => k # "test-suite"
    <3> SUFFICES ASSUME h = "result", k = "test-suite" PROVE FALSE
      OBVIOUS
    <3>1. i # 1
      BY <1>4, MessageFacts
    <3>2. Slot(k) # "suite"
      BY <1>1, <1>4, <3>1, SlotFacts
    <3> QED  BY <3>2 DEF Slot
  <2> QED  BY <1>1, <1>4, <2>1, <2>2, AcceptsFacts DEF Holders
<1> QED  BY <1>1, <1>3, <1>4

LEMMA ObjectStep ==
  ASSUME NEW m, Reads(m), NEW h, NEW i, <<h, i>> \in ObjectPlaces, AtPlace(m, h, i),
         ObjectAt(m, h, i) # None
  PROVE  Goes(m)
<1> DEFINE o == ObjectAt(m, h, i)
           k == o.kind
           s == Slot(k)
           own == Own(stacks, result, h)
           w == Rest(m, h, i + 1)
           q == Completed(heap', o)
<1>1. /\ Typed /\ WellFormed(m) /\ Parse /\ states = StatesAt(m, h)
      /\ wire = Rest(m, h, i) /\ Control(m, h, i)
      /\ TestsOnly(m) => Built(heap, element, stacks, result, m, h, i)
  BY DEF Reads, AtPlace
<1>2. h \in Holders => ~Absent(m, h)
  BY <1>1 DEF Control
<1>3. /\ (h = "signal" /\ i = 0) \/ (h \in Holders /\ i \in 1 .. 5 /\ h # "signal")
      /\ o \in Objects /\ k \in Kinds /\ s \in Slots
  BY <1>1, <1>2, NextObject
<1>4. k \in Accepts(Head(states)) /\ h \in {"signal"} \cup Holders
  BY <1>1, <1>2, ObjectAccepted
<1>5. /\ w \in Seq(Tags) /\ wire = ObjectXML(o) \o w
  <2>1. CASE h = "signal"
    <3>1. i = 0 /\ i + 1 = 1 /\ o = m.object
      BY <1>3, <2>1, PlaceFacts DEF ObjectAt
    <3>2. wire = Rest(m, "signal", 0) /\ w = Rest(m, "signal", 1)
      BY <1>1, <2>1, <3>1
    <3>3. 1 \in 0 .. 4
      OBVIOUS
    <3> HIDE DEF o, w
    <3> QED  BY <1>1, <3>1, <3>2, <3>3, SignalWire
  <2>2. CASE h \in Holders
    <3>1. i \in 1 .. 5 /\ i + 1 \in 1 .. 7
      BY <1>3, <2>2, PlaceFacts
    <3> QED  BY <1>1, <1>2, <2>2, <3>1, SignalWire
  <2> QED  BY <1>3, <2>1, <2>2
<1>6. Written(o)
  BY <1>3 DEF Written
<1>a. o # None
  OBVIOUS
<1> HIDE DEF o, w, own, q, s
<1>b. /\ ObjectXML(o) \o w = Tag("start", o.kind) \o ObjectPlace(o, 1, w)
      /\ \A j \in 1 .. 6 : ObjectPlace(o, j, w) \in Seq(Tags)
  BY <1>5, <1>6, <1>a, ObjectWire
<1>7. /\ wire = Tag("start", k) \o ObjectPlace(o, 1, w)
      /\ ObjectPlace(o, 1, w) \in Seq(Tags)
  BY <1>5, <1>b
<1>8. k \in Names
  BY <1>3, NameFacts
<1>9. StartElement(k) /\ wire' = ObjectPlace(o, 1, w) /\ UNCHANGED child
  BY <1>1, <1>4, <1>7, <1>8, ParseStart
<1>10. /\ StartObject(k) /\ states' = <<k>> \o states
       /\ UNCHANGED <<relayed, reader, option, completeSuccess, streamSuccess>>
  BY <1>3, <1>9, NameFacts DEF StartElement, Kinds, Holders
<1>11. m.signal \in Names /\ m.signal \in Signals
  BY <1>1, MessageFacts
<1>12. Head(states) = (IF h = "signal" THEN m.signal ELSE h)
  BY <1>1, <1>4, <1>11, StatesFacts
<1>13. Owner(k) = own
  <2>1. CASE h = "signal"
    BY <1>11, <1>12, <2>1, NameFacts DEF Owner, own, Own, Holders
  <2>2. CASE h # "signal"
    BY <1>12, <2>2 DEF Owner, own, Own, Peek, First
  <2> QED  BY <2>1, <2>2
<1>14. /\ heap' = Append(Linked(heap, own, s), Empty(k))
       /\ stacks' = [stacks EXCEPT ![s] = <<Len(heap) + 1>> \o @]
       /\ result' = result
  BY <1>10, <1>13 DEF StartObject, Linked, NewAddress, s
<1>15. element' = IF h = "signal" /\ m.signal \notin Stacked
                  THEN [element EXCEPT !.object = Len(heap) + 1] ELSE element
  <2>1. element' = IF Head(states) \in Signals \ Stacked
                   THEN [element EXCEPT !.object = Len(heap) + 1] ELSE element
    BY <1>10 DEF StartObject, NewAddress
  <2>2. Head(states) \in Signals \ Stacked <=> h = "signal" /\ m.signal \notin Stacked
    <3>1. h # "signal" => h \notin Signals
      BY <1>4, NameFacts
    <3> QED  BY <1>11, <1>12, <3>1
  <2> QED  BY <2>1, <2>2
<1>16. /\ heap \in Seq(Cells) /\ Len(heap) \in Nat /\ element \in Records(heap)
       /\ stacks \in [Slots \cup {"context"} -> Seq(1 .. Len(heap))]
       /\ result \in 0 .. Len(heap)
  BY <1>1 DEF Typed, ParserTyped
<1>17. own \in 0 .. Len(heap)
  <2>1. First(stacks, "context") \in 0 .. Len(heap)
    <3>1. stacks["context"] \in Seq(1 .. Len(heap))
      BY <1>16
    <3>2. stacks["context"] # <<>> => Head(stacks["context"]) \in 1 .. Len(heap)
      BY <3>1, HeadTailProperties
    <3> QED  BY <1>16, <3>2 DEF First
  <2> QED  BY <1>16, <2>1 DEF own, Own
<1>c. heap' = Append(Linked(heap, own, s), Empty(o.kind)) /\ o.kind \in Kinds
  BY <1>3, <1>14
<1>d. stacks' = [stacks EXCEPT ![s] = <<Len(heap) + 1>> \o @]
  BY <1>14
<1>e. o \in Objects /\ s \in Slots /\ heap \in Seq(Cells)
  BY <1>3, <1>16
<1>17a. Grown(heap, Append(Linked(heap, own, s), Empty(o.kind)), own, s, o)
  BY <1>17, <1>c, <1>e, StartedHeap
<1>17b. Grown(heap, heap', own, s, o)
  BY <1>17a, <1>c
<1>18. /\ heap' \in Seq(Cells) /\ Len(heap') = Len(heap) + 1
       /\ heap'[Len(heap) + 1].kind = k /\ heap'[Len(heap) + 1].attribute = "none"
       /\ q \in Seq(Cells) /\ Len(q) = Len(heap) + 1
       /\ Shown(q, Len(heap) + 1) = o /\ SameObjects(heap, q)
       /\ \A b \in 1 .. Len(heap) : b # own => q[b] = heap[b]
       /\ own # 0 => q[own].of = [heap[own].of EXCEPT ![s] = Len(heap) + 1]
  BY <1>17b DEF Grown, HeapStarted, q
<1>19. /\ stacks' \in [Slots \cup {"context"} -> Seq(1 .. Len(heap) + 1)]
       /\ OnTop(stacks, stacks', s, Len(heap) + 1)
  <2> DEFINE n == Len(heap)
  <2>1. s \in Slots \cup {"context"}
    BY <1>3
  <2>2. n \in Nat /\ stacks \in [Slots \cup {"context"} -> Seq(1 .. n)]
    BY <1>16
  <2>3. stacks' = [stacks EXCEPT ![s] = <<n + 1>> \o @]
    BY <1>d
  <2> HIDE DEF n
  <2>4. StackGrown(stacks, [stacks EXCEPT ![s] = <<n + 1>> \o @], s, n)
    BY <2>1, <2>2, Pushed
  <2>5. StackGrown(stacks, stacks', s, n)
    BY <2>3, <2>4
  <2> QED  BY <2>5 DEF StackGrown, OnTop, n
<1>20. ParserTyped'
  <2>1. element' \in Records(heap')
    <3>1. Records(heap) \subseteq Records(heap') /\ Len(heap) + 1 \in 0 .. Len(heap')
      BY <1>16, <1>18 DEF Records
    <3>2. [element EXCEPT !.object = Len(heap) + 1] \in Records(heap')
      BY <1>16, <3>1 DEF Records
    <3> QED  BY <1>15, <1>16, <3>1, <3>2
  <2>2. result' \in 0 .. Len(heap')
    BY <1>14, <1>16, <1>18
  <2>3. option' \in [name : Texts, value : Texts]
        /\ completeSuccess' \in {"true", "false"} /\ streamSuccess' \in {"true", "false"}
    BY <1>1, <1>10 DEF Typed, ParserTyped
  <2> QED  BY <1>18, <1>19, <2>1, <2>2, <2>3 DEF ParserTyped
<1>21. InObject(m, h, i, 1)'
  <2>1. states' = ObjectStates(m, h, k)
    BY <1>1, <1>10 DEF ObjectStates
  <2>2. Control(m, h, i)'
    BY <1>1, <1>10, <1>14 DEF Control
  <2>3. ASSUME TestsOnly(m)
        PROVE  /\ Current(heap', stacks', option', o, 1)
               /\ Built(q, element', stacks', result', m, h, i + 1)
    <3>1. Current(heap', stacks', option', o, 1)
      <4>1. First(stacks', s) = Len(heap) + 1
        BY <1>19 DEF OnTop
      <4> QED  BY <1>16, <1>18, <4>1 DEF Current, s
    <3>2. HeapStarted(heap, q, own, s, o)
      BY <1>18 DEF HeapStarted
    <3>3. Built(heap, element, stacks, result, m, h, i)
      BY <1>1, <2>3
    <3>4. Built(q, element', stacks', result, m, h, i + 1)
      BY <1>1, <1>2, <1>15, <1>16, <1>19, <3>2, <3>3, ObjectStarted DEF o, s, own
    <3> QED  BY <1>14, <3>1, <3>4
  <2> QED  BY <1>9, <2>1, <2>2, <2>3 DEF InObject, o, w, q
<1>22. Position(m)'
  BY <1>21, InObjectPosition
<1>23. states' \in Seq(Names \cup {"top"}) /\ states' # <<>>
  BY <1>1, <1>3, <1>4, <1>10, <1>11, ObjectStatesFacts DEF ObjectStates
<1> QED  BY <1>7, <1>9, <1>10, <1>20, <1>22, <1>23 DEF Goes

\* <test-context>
LEMMA ContextStep ==
  ASSUME NEW m, Reads(m), AtPlace(m, "signal", 1), ~Absent(m, "test-context")
  PROVE  Goes(m)
<1> DEFINE h == "test-context"
           n == Len(heap)
           w == Rest(m, h, 1)
<1>1. /\ Typed /\ WellFormed(m) /\ Parse /\ states = SignalStates(m)
      /\ wire = Rest(m, "signal", 1) /\ Control(m, "signal", 1)
      /\ TestsOnly(m) => Built(heap, element, stacks, result, m, "signal", 1)
  BY DEF Reads, AtPlace, StatesAt
<1>2. h \in Holders /\ h \in Names /\ h # "signal" /\ 1 \in 1 .. 7
  BY NameFacts DEF Holders
<1>3. m.signal \in Names /\ h \in Accepts(m.signal)
  BY <1>1, MessageFacts DEF WellFormed, Absent
<1>4. wire = Tag("start", h) \o w /\ w \in Seq(Tags)
  BY <1>1, <1>2, SignalWire
<1>5. h \in Accepts(Head(states))
  BY <1>1, <1>3, StatesFacts
<1> HIDE DEF w
<1>6. StartElement(h) /\ wire' = w /\ UNCHANGED child
  BY <1>1, <1>2, <1>4, <1>5, ParseStart
<1>7. /\ StartContext /\ states' = <<h>> \o states
      /\ UNCHANGED <<relayed, reader, option, completeSuccess, streamSuccess>>
  BY <1>2, <1>6, NameFacts DEF StartElement, Kinds
<1>8. /\ heap' = Append(heap, Empty(h)) /\ result' = result
      /\ stacks' = [stacks EXCEPT !["context"] = <<n + 1>> \o @]
      /\ element' = [element EXCEPT !.context = n + 1]
  BY <1>7 DEF StartContext, NewAddress
<1>9. /\ heap \in Seq(Cells) /\ n \in Nat /\ element \in Records(heap)
      /\ stacks \in [Slots \cup {"context"} -> Seq(1 .. n)]
      /\ result \in 0 .. n
  BY <1>1 DEF Typed, ParserTyped
<1>10. Empty(h) \in Cells
  BY <1>2, EmptyCell
<1>11. /\ Append(heap, Empty(h)) \in Seq(Cells)
       /\ Len(Append(heap, Empty(h))) = n + 1 /\ Added(heap, Append(heap, Empty(h)), Empty(h))
  BY <1>9, <1>10, Allocated DEF Added
<1>12. heap' \in Seq(Cells) /\ Len(heap') = n + 1 /\ Added(heap, heap', Empty(h))
  BY <1>8, <1>11
<1> HIDE DEF n
<1>13. StackGrown(stacks, [stacks EXCEPT !["context"] = <<n + 1>> \o @], "context", n)
  BY <1>9, Pushed
<1>14. StackGrown(stacks, stacks', "context", n)
  BY <1>8, <1>13
<1>15. /\ element'.object = element.object /\ element'.context = n + 1
       /\ element'.result = element.result /\ element' \in Records(heap')
  <2>1. n + 1 \in 0 .. Len(heap') /\ 0 .. n \subseteq 0 .. Len(heap')
    BY <1>9, <1>12
  <2>2. element \in [object : 0 .. n, context : 0 .. n, result : 0 .. n]
    BY <1>9 DEF Records, n
  <2> QED  BY <1>8, <2>1, <2>2 DEF Records
<1>16. ParserTyped'
  <2>1. result' \in 0 .. Len(heap')
    BY <1>8, <1>9, <1>12
  <2>2. option' \in [name : Texts, value : Texts]
        /\ completeSuccess' \in {"true", "false"} /\ streamSuccess' \in {"true", "false"}
    BY <1>1, <1>7 DEF Typed, ParserTyped
  <2>3. stacks' \in [Slots \cup {"context"} -> Seq(1 .. Len(heap'))]
    BY <1>12, <1>14 DEF StackGrown
  <2> QED  BY <1>12, <1>15, <2>1, <2>2, <2>3 DEF ParserTyped
<1>17. AtPlace(m, h, 1)'
  <2>1. states' = StatesAt(m, h)
    BY <1>1, <1>2, <1>7 DEF StatesAt
  <2>2. result = 0
    BY <1>1 DEF Control, Holders
  <2>3. Control(m, h, 1)'
    BY <1>2, <1>8, <2>2 DEF Control, Holders
  <2>4. ASSUME TestsOnly(m) PROVE Built(heap', element', stacks', result', m, h, 1)
    <3>1. Built(heap, element, stacks, result', m, "signal", 1)
      BY <1>1, <1>8, <2>4
    <3>2. OnTop(stacks, stacks', "context", Len(heap) + 1)
      BY <1>14 DEF StackGrown, n
    <3>3. Len(heap') \in Nat /\ element'.context = Len(heap) + 1
      BY <1>9, <1>12, <1>15 DEF n
    <3> QED  BY <1>1, <1>9, <1>12, <1>15, <3>1, <3>2, <3>3, ContextStarted
  <2> QED  BY <1>6, <2>1, <2>3, <2>4 DEF AtPlace, w
<1>18. Position(m)'
  BY <1>2, <1>17, PlaceFacts, AtPlacePosition
<1>19. states' \in Seq(Names \cup {"top"}) /\ states' # <<>>
  BY <1>1, <1>2, <1>3, <1>7, StatesFacts, PushedState
<1> QED  BY <1>4, <1>6, <1>7, <1>16, <1>18, <1>19 DEF Goes

\* <result>
LEMMA ResultStep ==
  ASSUME NEW m, Reads(m), AtPlace(m, "signal", 2), ~Absent(m, "result")
  PROVE  Goes(m)
<1> DEFINE h == "result"
           n == Len(heap)
           w == Rest(m, h, 1)
<1>1. /\ Typed /\ WellFormed(m) /\ Parse /\ states = SignalStates(m)
      /\ wire = Rest(m, "signal", 2) /\ Control(m, "signal", 2)
      /\ TestsOnly(m) => Built(heap, element, stacks, result, m, "signal", 2)
  BY DEF Reads, AtPlace, StatesAt
<1>2. h \in Holders /\ h \in Names /\ h # "signal" /\ 1 \in 1 .. 7
  BY NameFacts DEF Holders
<1>3. m.signal \in Names /\ h \in Accepts(m.signal)
  BY <1>1, MessageFacts DEF WellFormed, Absent
<1>4. wire = Tag("start", h) \o w /\ w \in Seq(Tags)
  BY <1>1, <1>2, SignalWire
<1>5. h \in Accepts(Head(states))
  BY <1>1, <1>3, StatesFacts
<1> HIDE DEF w
<1>6. StartElement(h) /\ wire' = w /\ UNCHANGED child
  BY <1>1, <1>2, <1>4, <1>5, ParseStart
<1>7. /\ StartResult /\ states' = <<h>> \o states
      /\ UNCHANGED <<relayed, reader, option, completeSuccess, streamSuccess>>
  BY <1>2, <1>6, NameFacts DEF StartElement, Kinds
<1>8. /\ heap' = Append(heap, Empty(h)) /\ result' = n + 1 /\ stacks' = stacks
      /\ element' = [element EXCEPT !.result = n + 1]
  BY <1>7 DEF StartResult, NewAddress
<1>9. /\ heap \in Seq(Cells) /\ n \in Nat /\ element \in Records(heap)
      /\ stacks \in [Slots \cup {"context"} -> Seq(1 .. n)]
  BY <1>1 DEF Typed, ParserTyped
<1>10. Empty(h) \in Cells
  BY <1>2, EmptyCell
<1>11. /\ Append(heap, Empty(h)) \in Seq(Cells)
       /\ Len(Append(heap, Empty(h))) = n + 1 /\ Added(heap, Append(heap, Empty(h)), Empty(h))
  BY <1>9, <1>10, Allocated DEF Added
<1>12. heap' \in Seq(Cells) /\ Len(heap') = n + 1 /\ Added(heap, heap', Empty(h))
  BY <1>8, <1>11
<1> HIDE DEF n
<1>14. stacks' \in [Slots \cup {"context"} -> Seq(1 .. Len(heap'))]
  <2>1. 1 .. n \subseteq 1 .. n + 1
    BY <1>9
  <2>2. \A s \in Slots \cup {"context"} : stacks[s] \in Seq(1 .. n + 1)
    BY <1>9, <2>1, SeqMonotonic
  <2>3. stacks \in [Slots \cup {"context"} -> Seq(1 .. n + 1)]
    BY <1>9, <2>2
  <2> QED  BY <1>8, <1>12, <2>3
<1>15. /\ element'.object = element.object /\ element'.result = n + 1
       /\ element'.context = element.context /\ element' \in Records(heap')
  <2>1. n + 1 \in 0 .. Len(heap') /\ 0 .. n \subseteq 0 .. Len(heap')
    BY <1>9, <1>12
  <2>2. element \in [object : 0 .. n, context : 0 .. n, result : 0 .. n]
    BY <1>9 DEF Records, n
  <2> QED  BY <1>8, <2>1, <2>2 DEF Records
<1>16. ParserTyped'
  <2>1. result' \in 0 .. Len(heap')
    BY <1>8, <1>9, <1>12
  <2>2. option' \in [name : Texts, value : Texts]
        /\ completeSuccess' \in {"true", "false"} /\ streamSuccess' \in {"true", "false"}
    BY <1>1, <1>7 DEF Typed, ParserTyped
  <2> QED  BY <1>12, <1>14, <1>15, <2>1, <2>2 DEF ParserTyped
<1>17. AtPlace(m, h, 1)'
  <2>1. states' = StatesAt(m, h)
    BY <1>1, <1>2, <1>7 DEF StatesAt
  <2>3. Control(m, h, 1)'
    BY <1>2 DEF Control, Absent
  <2>4. ASSUME TestsOnly(m) PROVE Built(heap', element', stacks', result', m, h, 1)
    <3>1. Built(heap, element, stacks, result, m, "signal", 2)
      BY <1>1, <2>4
    <3>3. Len(heap') \in Nat /\ element'.result = Len(heap) + 1 /\ result' = Len(heap) + 1
      BY <1>8, <1>9, <1>12, <1>15 DEF n
    <3>4. Built(heap', element', stacks, Len(heap) + 1, m, h, 1)
      BY <1>9, <1>12, <1>15, <3>1, <3>3, ResultStarted
    <3> QED  BY <1>8, <3>3, <3>4
  <2> QED  BY <1>6, <2>1, <2>3, <2>4 DEF AtPlace, w
<1>18. Position(m)'
  BY <1>2, <1>17, PlaceFacts, AtPlacePosition
<1>19. states' \in Seq(Names \cup {"top"}) /\ states' # <<>>
  BY <1>1, <1>2, <1>3, <1>7, StatesFacts, PushedState
<1> QED  BY <1>4, <1>6, <1>7, <1>16, <1>18, <1>19 DEF Goes

\* <success> of a message.
LEMMA SuccessStep ==
  ASSUME NEW m, Reads(m), AtPlace(m, "signal", 3), m.success # "none"
  PROVE  Goes(m)
<1> DEFINE w == Rest(m, "signal", 4)
<1>1. /\ Typed /\ WellFormed(m) /\ Parse /\ states = SignalStates(m)
      /\ wire = Rest(m, "signal", 3) /\ Control(m, "signal", 3)
      /\ TestsOnly(m) => Built(heap, element, stacks, result, m, "signal", 3)
  BY DEF Reads, AtPlace, StatesAt
<1>2. /\ m.signal \in Names /\ m.success \in Texts /\ m.success \in {"true", "false"}
      /\ "success" \in Names /\ m.signal \in Signals
  BY <1>1, MessageFacts DEF Names
<1>3. m.signal \in Completing /\ "success" \in Accepts(m.signal)
  BY <1>1, AcceptsFacts DEF WellFormed
<1>4. wire = Leaf("success", m.success) \o w /\ w \in Seq(Tags)
  BY <1>1, SignalWire, SMTT(30)
<1>5. Head(states) = m.signal /\ m.signal # "stream"
  BY <1>1, <1>2, StatesFacts, NameFacts
<1> HIDE DEF w
<1>6. TextHandler("success", m.success) /\ wire' = w /\ UNCHANGED child
  BY <1>1, <1>2, <1>3, <1>4, <1>5, ParseLeaf
<1>7. /\ TextSuccess(m.success)
      /\ UNCHANGED <<reader, states, stacks, element, result, relayed>>
  BY <1>6 DEF TextHandler
<1>8. /\ completeSuccess' = m.success /\ streamSuccess' = m.success
      /\ UNCHANGED <<heap, option>>
  BY <1>5, <1>7 DEF TextSuccess
<1>9. ParserTyped'
  BY <1>1, <1>2, <1>7, <1>8 DEF Typed, ParserTyped, Records
<1>10. AtPlace(m, "signal", 4)'
  <2>1. Control(m, "signal", 4)'
    <3>1. result # 0 => m.result # NoResult
      BY <1>1 DEF Control
    <3>2. result' = result
      BY <1>7
    <3> QED  BY <1>8, <3>1, <3>2, PlaceFacts DEF Control
  <2>2. TestsOnly(m) => Built(heap, element, stacks, result, m, "signal", 4)
    BY <1>1, NothingBuilt
  <2> QED  BY <1>1, <1>6, <1>7, <1>8, <2>1, <2>2 DEF AtPlace, w, StatesAt
<1>11. Position(m)'
  BY <1>10, PlaceFacts, AtPlacePosition
<1> QED  BY <1>1, <1>4, <1>6, <1>7, <1>9, <1>11 DEF Goes, Typed

\* The text of a context or of a result.
LEMMA HolderTextStep ==
  ASSUME NEW m, Reads(m), NEW h \in Holders, AtPlace(m, h, 6)
  PROVE  Goes(m)
<1> DEFINE w == Rest(m, h, 7)
           x == LeafText(m, h)
           e == LeafName(h)
           a == Own(stacks, result, h)
<1>1. /\ Typed /\ WellFormed(m) /\ Parse /\ states = StatesAt(m, h)
      /\ wire = Rest(m, h, 6) /\ Control(m, h, 6)
      /\ TestsOnly(m) => Built(heap, element, stacks, result, m, h, 6)
  BY DEF Reads, AtPlace
<1>2. /\ ~Absent(m, h) /\ h # "signal" /\ m.signal \in Names /\ x \in Texts
      /\ h \in {"signal"} \cup Holders
  BY <1>1, MessageFacts DEF Control, LeafText, Holders
<1>3. e \in Names /\ e \in Accepts(h)
  BY AcceptsFacts DEF LeafName, Holders, Names
<1>4. w \in Seq(Tags) /\ 7 \in 1 .. 7
  BY <1>1, <1>2, SignalWire
<1>5. wire = Leaf(e, x) \o w
  BY <1>1, <1>2 DEF Rest, Rest6
<1>6. Head(states) = h
  BY <1>1, <1>2, StatesFacts
<1> HIDE DEF w, x, a
<1>7. TextHandler(e, x) /\ wire' = w /\ UNCHANGED child
  BY <1>1, <1>2, <1>3, <1>4, <1>5, <1>6, ParseLeaf
<1>8. /\ heap' = [heap EXCEPT ![a].text = x]
      /\ UNCHANGED <<reader, states, stacks, element, result, relayed,
                     option, completeSuccess, streamSuccess>>
  <2>1. CASE h = "test-context"
    <3>1. e = "failed"
      BY <2>1 DEF LeafName
    <3>2. TextContextFailed(x)
      BY <1>7, <3>1 DEF TextHandler
    <3>3. a = Peek("context")
      BY <2>1 DEF a, Own, Peek, First
    <3> QED  BY <1>7, <3>2, <3>3 DEF TextHandler, TextContextFailed
  <2>2. CASE h = "result"
    <3>1. e = "status"
      BY <2>2 DEF LeafName
    <3>2. TextResultStatus(x)
      BY <1>7, <3>1 DEF TextHandler
    <3>3. a = result
      BY <2>2 DEF a, Own
    <3> QED  BY <1>7, <3>2, <3>3 DEF TextHandler, TextResultStatus
  <2> QED  BY <2>1, <2>2 DEF Holders
<1>9. heap' \in Seq(Cells) /\ Len(heap') = Len(heap)
  <2>1. heap \in Seq(Cells)
    BY <1>1 DEF Typed, ParserTyped
  <2>a. x \in Texts
    BY <1>2
  <2>2. WithText(heap, a, x) \in Seq(Cells) /\ Len(WithText(heap, a, x)) = Len(heap)
    BY <2>1, <2>a, FieldWritten
  <2> QED  BY <1>8, <2>2 DEF WithText
<1>10. ParserTyped'
  BY <1>1, <1>8, <1>9 DEF Typed, ParserTyped, Records
<1>11. AtPlace(m, h, 7)'
  <2>1. Control(m, h, 7)'
    BY <1>1, <1>2, <1>8 DEF Control
  <2>2. ASSUME TestsOnly(m) PROVE Built(heap', element, stacks, result, m, h, 7)
    <3>1. Built(heap, element, stacks, result, m, h, 6)
      BY <1>1, <2>2
    <3>2. heap \in Seq(Cells) /\ element \in Records(heap)
      BY <1>1 DEF Typed, ParserTyped
    <3>3. heap' = [heap EXCEPT ![Own(stacks, result, h)].text = LeafText(m, h)]
      BY <1>8 DEF a, x
    <3>4. LeafText(m, h) \in Texts
      BY <1>2 DEF x
    <3>5. Built([heap EXCEPT ![Own(stacks, result, h)].text = LeafText(m, h)], element, stacks,
                result, m, h, 7)
      BY <3>1, <3>2, <3>4, HolderText
    <3> QED  BY <3>3, <3>5
  <2> QED  BY <1>1, <1>7, <1>8, <2>1, <2>2 DEF AtPlace, w
<1>12. Position(m)'
  BY <1>4, <1>11, PlaceFacts, AtPlacePosition
<1> QED  BY <1>1, <1>4, <1>7, <1>8, <1>10, <1>12 DEF Goes, Typed

\* </test-context> and </result>.
LEMMA HolderEndStep ==
  ASSUME NEW m, Reads(m), NEW h \in Holders, AtPlace(m, h, 7)
  PROVE  Goes(m)
<1> DEFINE w == After(m, h)
<1>1. /\ Typed /\ WellFormed(m) /\ Parse /\ states = StatesAt(m, h)
      /\ wire = Rest(m, h, 7) /\ Control(m, h, 7)
      /\ TestsOnly(m) => Built(heap, element, stacks, result, m, h, 7)
  BY DEF Reads, AtPlace
<1>2. /\ ~Absent(m, h) /\ h # "signal" /\ m.signal \in Names /\ h \in Names
      /\ h \in {"signal"} \cup Holders
  BY <1>1, MessageFacts, NameFacts DEF Control, Holders
<1>3. wire = Tag("end", h) \o w
  BY <1>1, <1>2 DEF Rest, Rest7
<1>4. /\ h = "test-context" => w = Rest(m, "signal", 2)
      /\ h = "result" => w = Rest(m, "signal", 3)
      /\ w \in Seq(Tags)
  <2>1. Rest(m, "signal", 2) = ResultRest(m) /\ Rest(m, "signal", 3) = SuccessRest(m)
    BY DEF Rest
  <2>2. Rest(m, "signal", 2) \in Seq(Tags) /\ Rest(m, "signal", 3) \in Seq(Tags)
    BY <1>1, SignalWire
  <2> QED  BY <2>1, <2>2 DEF After, Holders
<1> HIDE DEF w
<1>5. EndElement(h) /\ wire' = w /\ UNCHANGED child /\ reader = "reading"
  BY <1>1, <1>2, <1>3, <1>4, ParseEnd
<1>6. states' = SignalStates(m) /\ states' \in Seq(Names \cup {"top"}) /\ states' # <<>>
  <2>1. states' = Tail(states)
    BY <1>5 DEF EndElement
  <2> QED  BY <1>1, <1>2, <2>1, StatesFacts
<1>7. CASE h = "test-context"
  <2>1. EndContext
    BY <1>5, <1>7, NameFacts DEF EndElement, Holders, Kinds
  <2>2. UNCHANGED <<reader, heap, element, result, option, completeSuccess, streamSuccess,
                    relayed>>
    BY <2>1 DEF EndContext
  <2>3. stacks' \in [Slots \cup {"context"} -> Seq(1 .. Len(heap))]
    <3> DEFINE f(s) == IF s \in Slots /\ heap[Peek("context")].of[s] # 0 THEN Popped(s)
                       ELSE stacks[s]
    <3>1. stacks \in [Slots \cup {"context"} -> Seq(1 .. Len(heap))] /\ Len(heap) \in Nat
      BY <1>1 DEF Typed, ParserTyped
    <3>2. \A s \in Slots \cup {"context"} : Popped(s) \in Seq(1 .. Len(heap))
      BY <3>1, PoppedTyped
    <3>3. \A s \in Slots \cup {"context"} : f(s) \in Seq(1 .. Len(heap))
      BY <3>1, <3>2
    <3>4. stacks' = [s \in DOMAIN stacks |-> f(s)]
      BY <2>1 DEF EndContext
    <3>5. DOMAIN stacks = Slots \cup {"context"}
      BY <3>1
    <3> HIDE DEF f
    <3> QED  BY <3>3, <3>4, <3>5
  <2>4. ParserTyped'
    BY <1>1, <2>2, <2>3 DEF Typed, ParserTyped, Records
  <2>5. AtPlace(m, "signal", 2)'
    <3>1. result = 0
      BY <1>1, <1>7 DEF Control
    <3>2. Control(m, "signal", 2)'
      BY <2>2, <3>1, PlaceFacts DEF Control
    <3>3. ASSUME TestsOnly(m) PROVE Built(heap, element, stacks', result, m, "signal", 2)
      <4>1. Built(heap, element, stacks, result, m, "test-context", 7)
        BY <1>1, <1>7, <3>3
      <4> QED  BY <1>1, <1>2, <1>7, <4>1, ContextEnded
    <3> QED  BY <1>4, <1>5, <1>6, <1>7, <2>2, <3>2, <3>3 DEF AtPlace, StatesAt
  <2>6. Position(m)'
    BY <2>5, PlaceFacts, AtPlacePosition
  <2> QED  BY <1>4, <1>5, <1>6, <2>2, <2>4, <2>6 DEF Goes
<1>8. CASE h = "result"
  <2>1. UNCHANGED <<reader, heap, stacks, element, result, option, completeSuccess,
                    streamSuccess, relayed>>
    BY <1>5, <1>8, NameFacts DEF EndElement, Holders
  <2>2. ParserTyped'
    BY <1>1, <2>1 DEF Typed, ParserTyped, Records
  <2>3. AtPlace(m, "signal", 3)'
    <3>1. m.result # NoResult
      BY <1>2, <1>8 DEF Absent
    <3>2. Control(m, "signal", 3)'
      BY <3>1, PlaceFacts DEF Control
    <3>3. ASSUME TestsOnly(m) PROVE Built(heap, element, stacks, result, m, "signal", 3)
      <4>1. Built(heap, element, stacks, result, m, "result", 7)
        BY <1>1, <1>8, <3>3
      <4> QED  BY <1>2, <1>8, <4>1, ResultEnded
    <3> QED  BY <1>4, <1>5, <1>6, <1>8, <2>1, <3>2, <3>3 DEF AtPlace, StatesAt
  <2>4. Position(m)'
    BY <2>3, PlaceFacts, AtPlacePosition
  <2> QED  BY <1>4, <1>5, <1>6, <2>1, <2>2, <2>4 DEF Goes
<1> QED  BY <1>7, <1>8 DEF Holders

\* What is known in an object.
LEMMA ObjectFacts ==
  ASSUME NEW m, Reads(m), NEW h, NEW i, <<h, i>> \in ObjectPlaces, NEW j \in 1 .. 6,
         InObject(m, h, i, j)
  PROVE  /\ Typed /\ WellFormed(m) /\ Parse /\ Control(m, h, i)
         /\ (h = "signal" /\ i = 0) \/ (h \in Holders /\ i \in 1 .. 5 /\ h # "signal")
         /\ h \in {"signal"} \cup Holders
         /\ ObjectAt(m, h, i) \in Objects /\ ObjectAt(m, h, i) # None
         /\ ObjectAt(m, h, i).kind \in Kinds /\ Slot(ObjectAt(m, h, i).kind) \in Slots
         /\ ObjectAt(m, h, i).attribute # "none" =>
              ObjectAt(m, h, i).kind \in Attributed \ {"test-data"}
         /\ TestsOnly(m) /\ ObjectAt(m, h, i).attribute # "none" =>
              ObjectAt(m, h, i).kind \in {"test", "iterated-test"}
         /\ wire = ObjectPlace(ObjectAt(m, h, i), j, Rest(m, h, i + 1))
         /\ Rest(m, h, i + 1) \in Seq(Tags)
         /\ \A k \in 1 .. 6 : ObjectPlace(ObjectAt(m, h, i), k, Rest(m, h, i + 1)) \in Seq(Tags)
         /\ m.signal \in Names
         /\ m.signal \in Signals
<1> DEFINE o == ObjectAt(m, h, i)
           w == Rest(m, h, i + 1)
<1>1. /\ Typed /\ WellFormed(m) /\ Parse /\ Control(m, h, i) /\ o # None
      /\ wire = ObjectPlace(o, j, w)
  BY DEF Reads, InObject
<1>2. h \in Holders => ~Absent(m, h)
  BY <1>1 DEF Control
<1>3. /\ (h = "signal" /\ i = 0) \/ (h \in Holders /\ i \in 1 .. 5 /\ h # "signal")
      /\ o \in Objects /\ o.kind \in Kinds /\ Slot(o.kind) \in Slots
  BY <1>1, <1>2, NextObject
<1>8. TestsOnly(m) /\ o.attribute # "none" => o.kind \in {"test", "iterated-test"}
  <2>1. CASE h = "signal"
    <3>1. o = m.object
      BY <2>1 DEF ObjectAt
    <3> QED  BY <3>1 DEF TestsOnly, Stray, ObjectsOf
  <2>2. CASE h = "test-context"
    <3>1. o = m.context[SlotAt[i]] /\ SlotAt[i] \in Slots
      BY <1>3, <2>2, SlotFacts DEF ObjectAt, Part
    <3> QED  BY <3>1 DEF TestsOnly, Stray, ObjectsOf
  <2>3. CASE h = "result"
    <3>1. SlotAt[i] # "suite" => o = m.result[SlotAt[i]] /\ SlotAt[i] \in Slots \ {"suite"}
      BY <1>3, <2>3, SlotFacts DEF ObjectAt, Part
    <3>2. SlotAt[i] = "suite" => o = None
      BY <2>3 DEF ObjectAt, Part
    <3> QED  BY <1>1, <3>1, <3>2 DEF TestsOnly, Stray, ObjectsOf
  <2> QED  BY <1>3, <2>1, <2>2, <2>3 DEF Holders
<1>4. o.attribute # "none" => o.kind \in Attributed \ {"test-data"}
  <2>1. CASE h = "signal"
    <3>1. o = m.object
      BY <2>1 DEF ObjectAt
    <3> QED  BY <1>1, <3>1 DEF WellFormed, Fits
  <2>2. CASE h \in Holders /\ h # "signal"
    <3>1. Fits(o, SlotAt[i])
      BY <1>1, <1>2, <1>3, <2>2, MessageFacts
    <3> QED  BY <3>1 DEF Fits
  <2> QED  BY <1>3, <2>1, <2>2
<1>5. w \in Seq(Tags)
  <2>1. CASE h = "signal"
    <3>1. i + 1 = 1 /\ 1 \in 0 .. 4
      BY <1>3, <2>1, PlaceFacts
    <3> QED  BY <1>1, <2>1, <3>1, SignalWire
  <2>2. CASE h \in Holders
    <3>1. i + 1 \in 1 .. 7
      BY <1>3, <2>2, PlaceFacts
    <3> QED  BY <1>1, <1>2, <2>2, <3>1, SignalWire
  <2> QED  BY <1>3, <2>1, <2>2
<1>6. \A k \in 1 .. 6 : ObjectPlace(o, k, w) \in Seq(Tags)
  <2>1. Written(o)
    BY <1>3 DEF Written
  <2> HIDE DEF o, w
  <2> QED  BY <1>1, <1>5, <2>1, ObjectWire
<1>7. m.signal \in Names /\ m.signal \in Signals
  BY <1>1, MessageFacts
<1> QED  BY <1>1, <1>3, <1>4, <1>5, <1>6, <1>7, <1>8

\* The next place in an object.
LEMMA InObjectGoes ==
  ASSUME NEW m, Reads(m), NEW h, NEW i, <<h, i>> \in ObjectPlaces, NEW j \in 1 .. 6,
         InObject(m, h, i, j), NEW k \in 1 .. 6,
         wire' = ObjectPlace(ObjectAt(m, h, i), k, Rest(m, h, i + 1)),
         UNCHANGED <<child, relayed, reader, stacks, element, result>>,
         heap' \in Seq(Cells), Len(heap') = Len(heap),
         option' \in [name : Texts, value : Texts],
         UNCHANGED <<completeSuccess, streamSuccess>>,
         k \in 3 .. 5 => ObjectAt(m, h, i).attribute # "none",
         states' = IF k \in 3 .. 5 THEN <<"option">> \o ObjectStates(m, h, ObjectAt(m, h, i).kind)
                                   ELSE ObjectStates(m, h, ObjectAt(m, h, i).kind),
         TestsOnly(m) => /\ Current(heap', stacks, option', ObjectAt(m, h, i), k)
                         /\ Completed(heap', ObjectAt(m, h, i)) = Completed(heap, ObjectAt(m, h, i))
  PROVE  Goes(m)
<1> DEFINE o == ObjectAt(m, h, i)
           w == Rest(m, h, i + 1)
<1>1. /\ Typed /\ WellFormed(m) /\ Control(m, h, i) /\ h \in {"signal"} \cup Holders
      /\ o # None /\ o.kind \in Kinds /\ m.signal \in Names
      /\ ObjectPlace(o, k, w) \in Seq(Tags)
  BY ObjectFacts
<1>2. TestsOnly(m) => Built(Completed(heap, o), element, stacks, result, m, h, i + 1)
  BY DEF InObject
<1>a. o.kind \in Kinds /\ m.signal \in Names /\ h \in {"signal"} \cup Holders
  BY <1>1
<1>b. /\ ObjectStates(m, h, o.kind) \in Seq(Names \cup {"top"})
      /\ ObjectStates(m, h, o.kind) # <<>>
      /\ <<"option">> \o ObjectStates(m, h, o.kind) \in Seq(Names \cup {"top"})
      /\ <<"option">> \o ObjectStates(m, h, o.kind) # <<>>
  BY <1>a, ObjectStatesFacts
<1>3. states' \in Seq(Names \cup {"top"}) /\ states' # <<>>
  BY <1>b
<1>4. ParserTyped'
  BY <1>1 DEF Typed, ParserTyped, Records
<1>5. Control(m, h, i)'
  <2>1. h = "signal" => i # 4
    BY DEF ObjectPlaces, Holders
  <2> QED  BY <1>1, <2>1 DEF Control
<1>6. TestsOnly(m) => Built(Completed(heap', o), element', stacks', result', m, h, i + 1)
  BY <1>2
<1>7. InObject(m, h, i, k)'
  BY <1>1, <1>5, <1>6 DEF InObject
<1>8. Position(m)'
  BY <1>7, InObjectPosition
<1> QED  BY <1>1, <1>3, <1>4, <1>8 DEF Goes

\* <name> of an object.
LEMMA NameStep ==
  ASSUME NEW m, Reads(m), NEW h, NEW i, <<h, i>> \in ObjectPlaces, InObject(m, h, i, 1)
  PROVE  Goes(m)
<1> DEFINE o == ObjectAt(m, h, i)
           w == Rest(m, h, i + 1)
           a == NamedObject
<1>0. 1 \in 1 .. 6 /\ 2 \in 1 .. 6 /\ ~(1 \in 3 .. 5) /\ ~(2 \in 3 .. 5)
  OBVIOUS
<1>1. /\ Typed /\ Parse /\ h \in {"signal"} \cup Holders
      /\ o \in Objects /\ o.kind \in Kinds /\ m.signal \in Names
      /\ wire = ObjectPlace(o, 1, w) /\ ObjectPlace(o, 2, w) \in Seq(Tags)
  BY <1>0, ObjectFacts
<1>2. states = ObjectStates(m, h, o.kind) /\ Head(states) = o.kind
  BY <1>0, <1>1, ObjectStatesFacts DEF InObject
<1>3. wire = Leaf("name", o.name) \o ObjectPlace(o, 2, w)
  BY <1>1 DEF ObjectPlace, ObjectName
<1>4. "name" \in Names /\ o.name \in Texts /\ "name" \in Accepts(Head(states))
      /\ Head(states) # "option"
  BY <1>1, <1>2, AcceptsFacts, NameFacts DEF Names, Kinds, Objects
<1>5. heap \in Seq(Cells) /\ Len(heap) \in Nat
  BY <1>1 DEF Typed, ParserTyped
<1> HIDE DEF w, o
<1>6. TextHandler("name", o.name) /\ wire' = ObjectPlace(o, 2, w) /\ UNCHANGED child
  BY <1>1, <1>3, <1>4, ParseLeaf
<1>7. /\ TextName(o.name) /\ UNCHANGED <<reader, states, stacks, element, result, relayed>>
  BY <1>4, <1>6 DEF TextHandler
<1>8. /\ heap' = WithName(heap, a, o.name)
      /\ UNCHANGED <<option, completeSuccess, streamSuccess>>
  BY <1>7 DEF TextName, WithName
<1> HIDE DEF a
<1>9. heap' \in Seq(Cells) /\ Len(heap') = Len(heap)
  <2>1. WithName(heap, a, o.name) \in Seq(Cells) /\ Len(WithName(heap, a, o.name)) = Len(heap)
    BY <1>4, <1>5, FieldWritten
  <2> QED  BY <1>8, <2>1
<1>10. ASSUME TestsOnly(m)
       PROVE  Current(heap', stacks, option', o, 2) /\ Completed(heap', o) = Completed(heap, o)
  <2>1. Current(heap, stacks, option, o, 1)
    BY <1>10 DEF InObject, o
  <2>2. a = Len(heap)
    <3>1. First(stacks, Slot(o.kind)) = Len(heap)
      BY <2>1 DEF Current
    <3> QED  BY <1>2, <3>1 DEF a, NamedObject, Peek, First
  <2> DEFINE hq == WithName(heap, Len(heap), o.name)
  <2>3. hq = [heap EXCEPT ![Len(heap)].name = o.name]
    BY DEF WithName
  <2>4. heap' = hq
    BY <1>8, <2>2
  <2> HIDE DEF hq
  <2>5. Current(hq, stacks, option', o, 2) /\ Completed(hq, o) = Completed(heap, o)
    BY <1>1, <1>5, <2>1, <2>3, Named
  <2> QED  BY <2>4, <2>5
<1>11. states' = ObjectStates(m, h, o.kind) /\ option' \in [name : Texts, value : Texts]
  BY <1>1, <1>2, <1>7, <1>8 DEF Typed, ParserTyped
<1> QED  BY <1>0, <1>6, <1>7, <1>8, <1>9, <1>10, <1>11, InObjectGoes DEF o, w

\* <option>
LEMMA OptionStep ==
  ASSUME NEW m, Reads(m), NEW h, NEW i, <<h, i>> \in ObjectPlaces, InObject(m, h, i, 2),
         ObjectAt(m, h, i).attribute # "none"
  PROVE  Goes(m)
<1> DEFINE o == ObjectAt(m, h, i)
           w == Rest(m, h, i + 1)
<1>0. 2 \in 1 .. 6 /\ 3 \in 1 .. 6 /\ ~(2 \in 3 .. 5) /\ 3 \in 3 .. 5
  OBVIOUS
<1>1. /\ Typed /\ Parse /\ h \in {"signal"} \cup Holders
      /\ o \in Objects /\ o.kind \in Kinds /\ m.signal \in Names /\ o.kind # "test-data"
      /\ wire = ObjectPlace(o, 2, w) /\ ObjectPlace(o, 3, w) \in Seq(Tags) /\ w \in Seq(Tags)
  BY <1>0, ObjectFacts
<1>2. states = ObjectStates(m, h, o.kind) /\ Head(states) = o.kind
  BY <1>0, <1>1, ObjectStatesFacts DEF InObject
<1>a. o.attribute # "none"
  OBVIOUS
<1>b. TestsOnly(m) => Current(heap, stacks, option, o, 2)
  BY DEF InObject
<1>c. ObjectAt(m, h, i) = o /\ Rest(m, h, i + 1) = w
  OBVIOUS
<1> HIDE DEF w, o
<1>3. wire = Tag("start", "option") \o ObjectPlace(o, 3, w)
  BY <1>1, <1>a, AttributeWire
<1>4. "option" \in Names /\ "option" \in Accepts(Head(states))
  BY <1>1, <1>2, AcceptsFacts DEF Names, Kinds
<1>5. StartElement("option") /\ wire' = ObjectPlace(o, 3, w) /\ UNCHANGED child
  BY <1>1, <1>3, <1>4, ParseStart
<1>d. "option" \notin Signals \cup TestObjects \cup {"test-data", "test-context", "result", "stream"}
  BY DEF Signals, TestObjects
<1>6. /\ UNCHANGED <<heap, stacks, element, result, reader, relayed, option,
                     completeSuccess, streamSuccess>>
      /\ states' = <<"option">> \o states
  BY <1>5, <1>d DEF StartElement
<1>7. TestsOnly(m) => /\ Current(heap', stacks, option', o, 3)
                         /\ Completed(heap', o) = Completed(heap, o)
  BY <1>6, <1>b DEF Current
<1>8. /\ heap' \in Seq(Cells) /\ Len(heap') = Len(heap)
      /\ option' \in [name : Texts, value : Texts]
  BY <1>1, <1>6 DEF Typed, ParserTyped
<1>9. states' = <<"option">> \o ObjectStates(m, h, o.kind)
  BY <1>2, <1>6
<1> QED  BY <1>0, <1>5, <1>6, <1>7, <1>8, <1>9, <1>a, InObjectGoes DEF o, w

\* <name> of an option.
LEMMA OptionNameStep ==
  ASSUME NEW m, Reads(m), NEW h, NEW i, <<h, i>> \in ObjectPlaces, InObject(m, h, i, 3)
  PROVE  Goes(m)
<1> DEFINE o == ObjectAt(m, h, i)
           w == Rest(m, h, i + 1)
<1>0. 3 \in 1 .. 6 /\ 4 \in 1 .. 6 /\ 3 \in 3 .. 5 /\ 4 \in 3 .. 5
  OBVIOUS
<1>1. /\ Typed /\ Parse /\ h \in {"signal"} \cup Holders
      /\ o.kind \in Kinds /\ m.signal \in Names
      /\ wire = ObjectPlace(o, 3, w) /\ ObjectPlace(o, 4, w) \in Seq(Tags)
  BY <1>0, ObjectFacts
<1>2. states = <<"option">> \o ObjectStates(m, h, o.kind) /\ Head(states) = "option"
      /\ o.attribute # "none"
  BY <1>0, <1>1, ObjectStatesFacts DEF InObject
<1>b. TestsOnly(m) => Current(heap, stacks, option, o, 3)
  BY DEF InObject
<1> HIDE DEF w, o
<1>3. wire = Leaf("name", "attribute") \o ObjectPlace(o, 4, w)
  BY <1>1 DEF ObjectPlace, OptionName
<1>4. "name" \in Names /\ "attribute" \in Texts /\ "name" \in Accepts(Head(states))
  BY <1>2, AcceptsFacts DEF Names, Texts
<1>5. TextHandler("name", "attribute") /\ wire' = ObjectPlace(o, 4, w) /\ UNCHANGED child
  BY <1>1, <1>3, <1>4, ParseLeaf
<1>6. /\ TextOption("name", "attribute")
      /\ UNCHANGED <<reader, states, stacks, element, result, relayed>>
  BY <1>2, <1>5 DEF TextHandler
<1>7. /\ option' = [option EXCEPT !["name"] = "attribute"]
      /\ UNCHANGED <<heap, completeSuccess, streamSuccess>>
  BY <1>6 DEF TextOption
<1>8. TestsOnly(m) => /\ Current(heap', stacks, option', o, 4)
                         /\ Completed(heap', o) = Completed(heap, o)
  BY <1>7, <1>b DEF Current
<1>9. /\ heap' \in Seq(Cells) /\ Len(heap') = Len(heap)
      /\ option' \in [name : Texts, value : Texts]
  BY <1>1, <1>4, <1>7 DEF Typed, ParserTyped
<1> QED  BY <1>0, <1>2, <1>5, <1>6, <1>7, <1>8, <1>9, InObjectGoes DEF o, w

\* <value> of an option.
LEMMA OptionValueStep ==
  ASSUME NEW m, Reads(m), NEW h, NEW i, <<h, i>> \in ObjectPlaces, InObject(m, h, i, 4)
  PROVE  Goes(m)
<1> DEFINE o == ObjectAt(m, h, i)
           w == Rest(m, h, i + 1)
<1>0. 4 \in 1 .. 6 /\ 5 \in 1 .. 6 /\ 4 \in 3 .. 5 /\ 5 \in 3 .. 5
  OBVIOUS
<1>1. /\ Typed /\ Parse /\ h \in {"signal"} \cup Holders /\ o \in Objects
      /\ o.kind \in Kinds /\ m.signal \in Names
      /\ wire = ObjectPlace(o, 4, w) /\ ObjectPlace(o, 5, w) \in Seq(Tags)
  BY <1>0, ObjectFacts
<1>2. states = <<"option">> \o ObjectStates(m, h, o.kind) /\ Head(states) = "option"
      /\ o.attribute # "none"
  BY <1>0, <1>1, ObjectStatesFacts DEF InObject
<1>b. TestsOnly(m) => Current(heap, stacks, option, o, 4)
  BY DEF InObject
<1> HIDE DEF w, o
<1>3. wire = Leaf("value", o.attribute) \o ObjectPlace(o, 5, w)
  BY <1>1 DEF ObjectPlace, OptionValue
<1>4. "value" \in Names /\ o.attribute \in Texts /\ "value" \in Accepts(Head(states))
  BY <1>1, <1>2, AcceptsFacts DEF Names, Texts, Objects
<1>5. TextHandler("value", o.attribute) /\ wire' = ObjectPlace(o, 5, w) /\ UNCHANGED child
  BY <1>1, <1>3, <1>4, ParseLeaf
<1>6. /\ TextOption("value", o.attribute)
      /\ UNCHANGED <<reader, states, stacks, element, result, relayed>>
  BY <1>2, <1>5 DEF TextHandler
<1>7. /\ option' = [option EXCEPT !["value"] = o.attribute]
      /\ UNCHANGED <<heap, completeSuccess, streamSuccess>>
  BY <1>6 DEF TextOption
<1>8. option' \in [name : Texts, value : Texts] /\ option'.value = o.attribute
  BY <1>1, <1>4, <1>7 DEF Typed, ParserTyped
<1>9. TestsOnly(m) => /\ Current(heap', stacks, option', o, 5)
                         /\ Completed(heap', o) = Completed(heap, o)
  BY <1>7, <1>8, <1>b DEF Current
<1>10. heap' \in Seq(Cells) /\ Len(heap') = Len(heap)
  BY <1>1, <1>7 DEF Typed, ParserTyped
<1> QED  BY <1>0, <1>2, <1>5, <1>6, <1>7, <1>8, <1>9, <1>10, InObjectGoes DEF o, w

\* </option>: without a test to set the attribute on, the behaviour is undefined.
Fails(m) ==
  /\ wire' \in Seq(Tags) /\ states' \in Seq(Names \cup {"top"}) /\ states' # <<>>
  /\ ParserTyped' /\ reader' = "undefined" /\ ~TestsOnly(m) /\ UNCHANGED <<child, relayed>>

LEMMA OptionEndStep ==
  ASSUME NEW m, Reads(m), NEW h, NEW i, <<h, i>> \in ObjectPlaces, InObject(m, h, i, 5)
  PROVE  Goes(m) \/ Fails(m)
<1> DEFINE o == ObjectAt(m, h, i)
           w == Rest(m, h, i + 1)
           a == Peek("test")
<1>0. 5 \in 1 .. 6 /\ 6 \in 1 .. 6 /\ 5 \in 3 .. 5 /\ ~(6 \in 3 .. 5)
  OBVIOUS
<1>1. /\ Typed /\ Parse /\ h \in {"signal"} \cup Holders /\ o \in Objects
      /\ o.kind \in Kinds /\ m.signal \in Names
      /\ wire = ObjectPlace(o, 5, w) /\ ObjectPlace(o, 6, w) \in Seq(Tags)
      /\ TestsOnly(m) /\ o.attribute # "none" => o.kind \in {"test", "iterated-test"}
  BY <1>0, ObjectFacts
<1>2. states = <<"option">> \o ObjectStates(m, h, o.kind) /\ o.attribute # "none"
  BY <1>0 DEF InObject
<1>b. TestsOnly(m) => Current(heap, stacks, option, o, 5)
  BY DEF InObject
<1> HIDE DEF w, o
<1>3. wire = Tag("end", "option") \o ObjectPlace(o, 6, w) /\ "option" \in Names
  BY <1>1 DEF ObjectPlace, OptionEnd, Names
<1>4. EndElement("option") /\ wire' = ObjectPlace(o, 6, w) /\ UNCHANGED child
      /\ reader = "reading"
  BY <1>1, <1>3, ParseEnd
<1>d. "option" \notin Signals \cup TestObjects \cup {"test-data", "test-context", "result", "stream"}
  BY DEF Signals, TestObjects
<1>5. EndOption /\ states' = Tail(states)
  BY <1>4, <1>d DEF EndElement
<1>6. /\ option' = [name |-> "none", value |-> "none"]
      /\ UNCHANGED <<stacks, element, result, completeSuccess, streamSuccess, relayed>>
      /\ IF a = 0 THEN reader' = "undefined" /\ UNCHANGED heap
                  ELSE heap' = WithAttribute(heap, a, option.value) /\ UNCHANGED reader
  BY <1>5 DEF EndOption, WithAttribute
<1>7. option' \in [name : Texts, value : Texts] /\ option.value \in Texts
  BY <1>1, <1>6 DEF Typed, ParserTyped, Texts
<1>e. /\ Tail(<<"option">> \o ObjectStates(m, h, o.kind)) = ObjectStates(m, h, o.kind)
      /\ ObjectStates(m, h, o.kind) \in Seq(Names \cup {"top"})
      /\ ObjectStates(m, h, o.kind) # <<>>
  BY <1>1, ObjectStatesFacts
<1>8. states' = ObjectStates(m, h, o.kind) /\ states' \in Seq(Names \cup {"top"})
      /\ states' # <<>>
  BY <1>2, <1>5, <1>e
<1>9. heap \in Seq(Cells) /\ Len(heap) \in Nat
  BY <1>1 DEF Typed, ParserTyped
<1> HIDE DEF a
<1>10. heap' \in Seq(Cells) /\ Len(heap') = Len(heap)
  <2>1. WithAttribute(heap, a, option.value) \in Seq(Cells)
        /\ Len(WithAttribute(heap, a, option.value)) = Len(heap)
    BY <1>7, <1>9, FieldWritten
  <2> QED  BY <1>6, <1>9, <2>1
<1>11. TestsOnly(m) => a = Len(heap) /\ a # 0
  <2> SUFFICES ASSUME TestsOnly(m) PROVE a = Len(heap) /\ a # 0
    OBVIOUS
  <2>1. Slot(o.kind) = "test"
    <3>1. o.kind \in {"test", "iterated-test"}
      BY <1>1, <1>2
    <3> QED  BY <3>1, SlotFacts
  <2>2. Len(heap) # 0 /\ First(stacks, "test") = Len(heap)
    BY <1>b, <2>1 DEF Current
  <2> QED  BY <2>2 DEF a, Peek, First
<1>12. CASE a = 0
  <2>1. ~TestsOnly(m) /\ reader' = "undefined"
    BY <1>6, <1>11, <1>12
  <2>2. ParserTyped'
    BY <1>1, <1>6, <1>7, <1>10 DEF Typed, ParserTyped, Records
  <2> QED  BY <1>1, <1>4, <1>6, <1>8, <2>1, <2>2 DEF Fails
<1>13. CASE a # 0
  <2>1. ASSUME TestsOnly(m)
        PROVE  Current(heap', stacks, option', o, 6) /\ Completed(heap', o) = Completed(heap, o)
    <3> DEFINE hq == WithAttribute(heap, Len(heap), option.value)
    <3>1. heap' = hq
      BY <1>6, <1>11, <1>13, <2>1
    <3>2. hq = [heap EXCEPT ![Len(heap)].attribute = option.value]
      BY DEF WithAttribute
    <3>3. Current(heap, stacks, option, o, 5)
      BY <1>b, <2>1
    <3> HIDE DEF hq
    <3>4. heap \in Seq(Cells) /\ o \in Objects /\ o.kind \in Kinds
      BY <1>1, <1>9
    <3>5. Current(hq, stacks, option', o, 6) /\ Completed(hq, o) = Completed(heap, o)
      BY <3>2, <3>3, <3>4, Optioned, ZenonT(30)
    <3> QED  BY <3>1, <3>5
  <2>2. UNCHANGED reader
    BY <1>6, <1>13
  <2>3. Goes(m)
    BY <1>0, <1>4, <1>6, <1>7, <1>8, <1>10, <2>1, <2>2, InObjectGoes DEF o, w
  <2> QED  BY <2>3
<1> QED  BY <1>12, <1>13

\* The end of an object.
LEMMA ObjectEndStep ==
  ASSUME NEW m, Reads(m), NEW h, NEW i, <<h, i>> \in ObjectPlaces, InObject(m, h, i, 6)
  PROVE  Goes(m)
<1> DEFINE o == ObjectAt(m, h, i)
           w == Rest(m, h, i + 1)
<1>0. 6 \in 1 .. 6 /\ ~(6 \in 3 .. 5)
  OBVIOUS
<1>1. /\ Typed /\ Parse /\ h \in {"signal"} \cup Holders /\ o \in Objects
      /\ o.kind \in Kinds /\ m.signal \in Names
      /\ wire = ObjectPlace(o, 6, w) /\ w \in Seq(Tags) /\ Control(m, h, i)
      /\ (h = "signal" /\ i = 0) \/ (h \in Holders /\ i \in 1 .. 5 /\ h # "signal")
  BY <1>0, ObjectFacts
<1>2. states = ObjectStates(m, h, o.kind) /\ Tail(states) = StatesAt(m, h)
  BY <1>0, <1>1, ObjectStatesFacts DEF InObject
<1>3. TestsOnly(m) => /\ Current(heap, stacks, option, o, 6)
                      /\ Built(Completed(heap, o), element, stacks, result, m, h, i + 1)
  BY DEF InObject
<1>a. Rest(m, h, i + 1) = w
  OBVIOUS
<1> HIDE DEF o, w
<1>4. wire = Tag("end", o.kind) \o w /\ o.kind \in Names
  BY <1>1, NameFacts DEF ObjectPlace, ObjectEnd
<1>5. EndElement(o.kind) /\ wire' = w /\ UNCHANGED child
  BY <1>1, <1>4, ParseEnd
<1>6. /\ states' = Tail(states)
      /\ UNCHANGED <<reader, heap, stacks, element, result, option, completeSuccess,
                     streamSuccess, relayed>>
  BY <1>1, <1>5, NameFacts DEF EndElement, Kinds, Holders
<1>7. ParserTyped'
  BY <1>1, <1>6 DEF Typed, ParserTyped, Records
<1>8. Control(m, h, i + 1)'
  <2>1. result' = result /\ completeSuccess' = completeSuccess
    BY <1>6
  <2>2. CASE h = "signal" /\ i = 0
    <3>1. result = 0
      BY <1>1, <2>2 DEF Control
    <3>2. h \notin Holders /\ i + 1 # 4
      BY <2>2, PlaceFacts
    <3> QED  BY <2>1, <3>1, <3>2 DEF Control
  <2>3. CASE h \in Holders /\ h # "signal"
    BY <1>1, <2>1, <2>3 DEF Control
  <2> QED  BY <1>1, <2>2, <2>3
<1>9. TestsOnly(m) => Built(heap, element, stacks, result, m, h, i + 1)
  <2>1. heap \in Seq(Cells)
    BY <1>1 DEF Typed, ParserTyped
  <2>2. TestsOnly(m) => Completed(heap, o) = heap
    BY <1>1, <1>3, <2>1, ObjectDone
  <2> QED  BY <1>3, <2>2
<1>10. AtPlace(m, h, i + 1)'
  BY <1>2, <1>5, <1>6, <1>8, <1>9, <1>a DEF AtPlace
<1>11. Position(m)'
  <2>1. CASE h = "signal" /\ i = 0
    <3>1. i + 1 \in 0 .. 4
      BY <2>1
    <3> QED  BY <1>10, <2>1, <3>1, PlaceFacts, AtPlacePosition
  <2>2. CASE h \in Holders /\ i \in 1 .. 5
    <3>1. i + 1 \in 1 .. 7
      BY <2>2
    <3>2. <<h, i + 1>> \in Places
      BY <2>2, <3>1, PlaceFacts
    <3> QED  BY <1>10, <3>2, AtPlacePosition
  <2> QED  BY <1>1, <2>1, <2>2
<1>12. states' \in Seq(Names \cup {"top"}) /\ states' # <<>>
  BY <1>1, <1>2, <1>6, StatesFacts
<1> QED  BY <1>1, <1>5, <1>6, <1>7, <1>11, <1>12 DEF Goes

-----------------------------------------------------------------------------
\* What is not there is passed over.

LEMMA Skipped ==
  ASSUME Typed, NEW m, WellFormed(m)
  PROVE  /\ AtPlace(m, "signal", 1) /\ Absent(m, "test-context") => AtPlace(m, "signal", 2)
         /\ AtPlace(m, "signal", 2) /\ Absent(m, "result") => AtPlace(m, "signal", 3)
         /\ AtPlace(m, "signal", 3) /\ m.success = "none" => AtPlace(m, "signal", 4)
         /\ \A h \in Holders, i \in 1 .. 5 :
              AtPlace(m, h, i) /\ ObjectAt(m, h, i) = None => AtPlace(m, h, i + 1)
<1>1. \A i \in 0 .. 4 : StatesAt(m, "signal") = SignalStates(m)
  BY DEF StatesAt
<1>2. ASSUME AtPlace(m, "signal", 1), Absent(m, "test-context")
      PROVE  AtPlace(m, "signal", 2)
  <2>1. Rest(m, "signal", 1) = Rest(m, "signal", 2)
    BY <1>2, SignalWire
  <2>2. Control(m, "signal", 2)
    BY <1>2, PlaceFacts DEF AtPlace, Control
  <2> QED  BY <1>2, <2>1, <2>2, NothingBuilt DEF AtPlace
<1>3. ASSUME AtPlace(m, "signal", 2), Absent(m, "result")
      PROVE  AtPlace(m, "signal", 3)
  <2>1. Rest(m, "signal", 2) = Rest(m, "signal", 3)
    BY <1>3, SignalWire
  <2>2. Control(m, "signal", 3)
    BY <1>3, PlaceFacts DEF AtPlace, Control
  <2> QED  BY <1>3, <2>1, <2>2, NothingBuilt DEF AtPlace
<1>4. ASSUME AtPlace(m, "signal", 3), m.success = "none"
      PROVE  AtPlace(m, "signal", 4)
  <2>1. Rest(m, "signal", 3) = Rest(m, "signal", 4)
    BY <1>4, SignalWire
  <2>2. Control(m, "signal", 4)
    BY <1>4, PlaceFacts DEF AtPlace, Control
  <2> QED  BY <1>4, <2>1, <2>2, NothingBuilt DEF AtPlace
<1>5. ASSUME NEW h \in Holders, NEW i \in 1 .. 5, AtPlace(m, h, i), ObjectAt(m, h, i) = None
      PROVE  AtPlace(m, h, i + 1)
  <2>1. ~Absent(m, h) /\ h # "signal"
    BY <1>5, PlaceFacts DEF AtPlace, Control
  <2>2. /\ Rest(m, h, i) = ObjectXML(ObjectAt(m, h, i)) \o Rest(m, h, i + 1)
        /\ Rest(m, h, i + 1) \in Seq(Tags)
    <3>1. i + 1 \in 1 .. 7
      OBVIOUS
    <3> QED  BY <2>1, <3>1, SignalWire
  <2>3. Rest(m, h, i) = Rest(m, h, i + 1)
    <3>1. ObjectXML(ObjectAt(m, h, i)) = <<>>
      BY <1>5 DEF ObjectXML
    <3> QED  BY <2>2, <3>1, Nothing
  <2>4. Control(m, h, i + 1)
    BY <1>5, <2>1 DEF AtPlace, Control
  <2>5. heap \in Seq(Cells)
    BY DEF Typed, ParserTyped
  <2>6. TestsOnly(m) => Built(heap, element, stacks, result, m, h, i + 1)
    BY <1>5, <2>5, NoObjectBuilt DEF AtPlace
  <2>7. states = StatesAt(m, h) /\ wire = Rest(m, h, i)
    BY <1>5 DEF AtPlace
  <2> QED  BY <2>3, <2>4, <2>6, <2>7 DEF AtPlace
<1> QED  BY <1>2, <1>3, <1>4, <1>5

LEMMA NoOption ==
  ASSUME Typed, NEW m, WellFormed(m), NEW h, NEW i, ObjectAt(m, h, i) \in Objects,
         ObjectAt(m, h, i).kind \in Kinds, Rest(m, h, i + 1) \in Seq(Tags),
         InObject(m, h, i, 2), ObjectAt(m, h, i).attribute = "none"
  PROVE  InObject(m, h, i, 6)
<1> DEFINE o == ObjectAt(m, h, i)
           w == Rest(m, h, i + 1)
<1>1. /\ o # None /\ states = ObjectStates(m, h, o.kind) /\ wire = ObjectPlace(o, 2, w)
      /\ Control(m, h, i)
      /\ TestsOnly(m) => /\ Current(heap, stacks, option, o, 2)
                         /\ Built(Completed(heap, o), element, stacks, result, m, h, i + 1)
  BY DEF InObject
<1>2. o \in Objects /\ o.kind \in Kinds /\ w \in Seq(Tags) /\ o.attribute = "none"
  OBVIOUS
<1>3. ObjectAt(m, h, i) = o /\ Rest(m, h, i + 1) = w
  OBVIOUS
<1> HIDE DEF o, w
<1>4. ObjectPlace(o, 2, w) = ObjectPlace(o, 6, w)
  BY <1>2, AttributeWire
<1>5. TestsOnly(m) => Current(heap, stacks, option, o, 6)
  BY <1>1, <1>2 DEF Current
<1> QED  BY <1>1, <1>3, <1>4, <1>5 DEF InObject

\* From every place of a message, the parser goes to another one, unless it is at the end.
LEMMA PlaceStep ==
  ASSUME NEW m, Reads(m), NEW h, NEW i, <<h, i>> \in Places, AtPlace(m, h, i)
  PROVE  Goes(m) \/ AtPlace(m, "signal", 4)
<1> DEFINE G == Goes(m) \/ AtPlace(m, "signal", 4)
<1>1. Typed /\ WellFormed(m)
  BY DEF Reads
<1>2. /\ \A g \in Holders, k \in 1 .. 5 : <<g, k>> \in ObjectPlaces
      /\ <<"signal", 0>> \in ObjectPlaces
  BY DEF ObjectPlaces
<1>3. AtPlace(m, "signal", 3) => G
  BY <1>1, Skipped, SuccessStep
<1>4. AtPlace(m, "signal", 2) => G
  BY <1>1, <1>3, Skipped, ResultStep
<1>5. AtPlace(m, "signal", 1) => G
  BY <1>1, <1>4, Skipped, ContextStep
<1>6. AtPlace(m, "signal", 0) => G
  <2>1. ObjectAt(m, "signal", 0) # None
    BY <1>1, MessageFacts DEF ObjectAt
  <2> QED  BY <1>2, <2>1, ObjectStep
<1>7. ASSUME NEW g \in Holders PROVE \A k \in 1 .. 7 : AtPlace(m, g, k) => G
  <2>1. AtPlace(m, g, 7) => G
    BY <1>7, HolderEndStep
  <2>2. AtPlace(m, g, 6) => G
    BY <1>7, HolderTextStep
  <2>3. ASSUME NEW k \in 1 .. 5, AtPlace(m, g, k + 1) => G
        PROVE  AtPlace(m, g, k) => G
    <3>1. <<g, k>> \in ObjectPlaces
      BY <1>2, <1>7
    <3>2. CASE ObjectAt(m, g, k) = None
      BY <1>1, <1>7, <2>3, <3>2, Skipped
    <3>3. CASE ObjectAt(m, g, k) # None
      BY <3>1, <3>3, ObjectStep
    <3> QED  BY <3>2, <3>3
  <2>4. AtPlace(m, g, 5) => G
    BY <2>2, <2>3
  <2>5. AtPlace(m, g, 4) => G
    BY <2>3, <2>4
  <2>6. AtPlace(m, g, 3) => G
    BY <2>3, <2>5
  <2>7. AtPlace(m, g, 2) => G
    BY <2>3, <2>6
  <2>8. AtPlace(m, g, 1) => G
    BY <2>3, <2>7
  <2>9. \A k \in 1 .. 7 : k = 1 \/ k = 2 \/ k = 3 \/ k = 4 \/ k = 5 \/ k = 6 \/ k = 7
    OBVIOUS
  <2> QED  BY <2>1, <2>2, <2>4, <2>5, <2>6, <2>7, <2>8, <2>9
<1>8. \/ h = "signal" /\ i \in {0, 1, 2, 3, 4}
      \/ h \in Holders /\ i \in 1 .. 7
  BY DEF Places
<1> QED  BY <1>3, <1>4, <1>5, <1>6, <1>7, <1>8

LEMMA InObjectStep ==
  ASSUME NEW m, Reads(m), NEW h, NEW i, <<h, i>> \in ObjectPlaces, NEW j \in 1 .. 6,
         InObject(m, h, i, j)
  PROVE  Goes(m) \/ Fails(m)
<1>1. /\ Typed /\ WellFormed(m) /\ ObjectAt(m, h, i) \in Objects
      /\ ObjectAt(m, h, i).kind \in Kinds /\ Rest(m, h, i + 1) \in Seq(Tags)
  BY ObjectFacts
<1>2. CASE j = 1
  BY <1>2, NameStep
<1>3. CASE j = 2
  <2>1. CASE ObjectAt(m, h, i).attribute = "none"
    <3>1. InObject(m, h, i, 6)
      BY <1>1, <1>3, <2>1, NoOption
    <3> QED  BY <3>1, ObjectEndStep
  <2>2. CASE ObjectAt(m, h, i).attribute # "none"
    BY <1>3, <2>2, OptionStep
  <2> QED  BY <2>1, <2>2
<1>4. CASE j = 3
  BY <1>4, OptionNameStep
<1>5. CASE j = 4
  BY <1>5, OptionValueStep
<1>6. CASE j = 5
  BY <1>6, OptionEndStep
<1>7. CASE j = 6
  BY <1>7, ObjectEndStep
<1> QED  BY <1>2, <1>3, <1>4, <1>5, <1>6, <1>7

-----------------------------------------------------------------------------
\* </message>
Ends(m) ==
  /\ wire' = <<>> /\ states' = StreamStates /\ ParserTyped' /\ result' = 0
  /\ UNCHANGED <<child, reader>>
  /\ relayed'.n = relayed.n + 1 /\ relayed'.completions = relayed.completions
  /\ relayed'.last.signal = m.signal /\ relayed'.critical \in BOOLEAN
  /\ TestsOnly(m) => /\ relayed'.last = m
                     /\ relayed'.critical => relayed.critical \/ \E c \in Cases : ~Passes(outcome[c])

\* What is emitted, as one fact.
Emitted(m) ==
  /\ relayed'.n = relayed.n + 1 /\ relayed'.completions = relayed.completions
  /\ relayed'.last.signal = m.signal /\ relayed'.critical \in BOOLEAN
  /\ TestsOnly(m) => /\ relayed'.last = m
                     /\ relayed'.critical => relayed.critical \/ \E c \in Cases : ~Passes(outcome[c])

LEMMA EmitStep ==
  ASSUME Typed, NEW m, WellFormed(m), NEW e, Emit(e), e.signal = m.signal, TestsOnly(m) => e = m
  PROVE  Emitted(m)
<1>1. /\ relayed.n \in Nat /\ relayed.completions \in Nat /\ relayed.critical \in BOOLEAN
  BY DEF Typed
<1>2. m.signal # "complete-run"
  BY DEF WellFormed, Messages, Signals
<1>3. /\ relayed'.n = relayed.n + 1 /\ relayed'.last = e
      /\ relayed'.completions = relayed.completions
                                + (IF e.signal = "complete-run" THEN 1 ELSE 0)
      /\ relayed'.critical = (\/ relayed.critical
                              \/ e.signal = "test-result" /\ ~Passes(e.result.status))
  BY DEF Emit
<1>4. relayed'.critical \in BOOLEAN
  BY <1>3
<1>5. ASSUME TestsOnly(m), relayed'.critical
      PROVE  relayed.critical \/ \E c \in Cases : ~Passes(outcome[c])
  <2>1. relayed.critical \/ (m.signal = "test-result" /\ ~Passes(m.result.status))
    BY <1>3, <1>5
  <2>2. m.signal = "test-result" => \E c \in Cases : m.result.status = outcome[c]
    BY DEF WellFormed
  <2> QED  BY <2>1, <2>2
<1>6. relayed'.completions = relayed.completions
  BY <1>1, <1>2, <1>3
<1> QED  BY <1>3, <1>4, <1>5, <1>6 DEF Emitted

LEMMA EndStep ==
  ASSUME NEW m, Reads(m), AtPlace(m, "signal", 4)
  PROVE  Ends(m)
<1>1. /\ Typed /\ WellFormed(m) /\ Parse /\ states = SignalStates(m)
      /\ wire = Rest(m, "signal", 4) /\ Control(m, "signal", 4)
      /\ TestsOnly(m) => Built(heap, element, stacks, result, m, "signal", 4)
  BY DEF Reads, AtPlace, StatesAt
<1>2. m.signal \in Signals /\ m.signal \in Names
  BY <1>1, MessageFacts
<1>3. wire = Tag("end", m.signal) \o <<>> /\ <<>> \in Seq(Tags)
  <2>1. <<>> \in Seq(Tags)
    BY EmptySeq
  <2> QED  BY <1>1, <2>1, SignalWire
<1>4. EndElement(m.signal) /\ wire' = <<>> /\ UNCHANGED child
  BY <1>1, <1>2, <1>3, ParseEnd
<1>5. EndSignal(m.signal) /\ states' = Tail(states)
  BY <1>2, <1>4, NameFacts DEF EndElement, Kinds, Holders
<1>6. states' = StreamStates
  BY <1>1, <1>2, <1>5, StatesFacts
<1>7. /\ element' = NoElement /\ UNCHANGED <<reader, option, streamSuccess>>
  BY <1>5 DEF EndSignal
<1>8. /\ heap \in Seq(Cells) /\ Len(heap) \in Nat /\ completeSuccess \in {"true", "false"}
      /\ stacks \in [Slots \cup {"context"} -> Seq(1 .. Len(heap))]
  BY <1>1 DEF Typed, ParserTyped
<1>9. \A s \in Slots \cup {"context"} : Popped(s) \in Seq(1 .. Len(heap))
  BY <1>8, PoppedTyped
<1>10. result # 0 => m.signal \in WithResult /\ m.signal \notin Stacked
  BY <1>1 DEF Control, WellFormed, WithResult, Stacked
<1>11. m.success # "none" => completeSuccess = m.success
  BY <1>1 DEF Control
<1>12. /\ Emitted(m) /\ heap' \in Seq(Cells) /\ result' = 0
       /\ stacks' \in [Slots \cup {"context"} -> Seq(1 .. Len(heap'))]
       /\ completeSuccess' \in {"true", "false"}
  <2>1. CASE m.signal \in Stacked
    <3> DEFINE slot == StackedSlot(m.signal)
               completes == m.signal \in {"complete-test-suite", "complete-test-case",
                                          "complete-test-iterator"}
               e == [OnObject(m.signal, Seen(Peek(slot))) EXCEPT
                       !.success = IF completes THEN completeSuccess ELSE "none"]
               kept == [stacks EXCEPT ![slot] = Popped(slot)]
    <3>1. EndStacked(m.signal)
      BY <1>5, <2>1 DEF EndSignal
    <3>2. /\ Emit(e) /\ Collect(kept) /\ UNCHANGED result
          /\ completeSuccess' = IF completes THEN "true" ELSE completeSuccess
      BY <3>1 DEF EndStacked, StackedSlot
    <3>3. slot \in Slots
      BY DEF StackedSlot, Slots
    <3>4. TestsOnly(m) => e = m
      BY <1>1, <1>11, <2>1, StackedIsMessage
    <3>5. e.signal = m.signal
      <4> DEFINE o == Seen(Peek(slot))
                 s == IF completes THEN completeSuccess ELSE "none"
      <4>1. e = [OnObject(m.signal, o) EXCEPT !.success = s]
        OBVIOUS
      <4> HIDE DEF o, s, e
      <4>2. [OnObject(m.signal, o) EXCEPT !.success = s] =
              [signal |-> m.signal, object |-> o, context |-> NoContext,
               result |-> NoResult, success |-> s]
        BY OnObjectIs
      <4> QED  BY <4>1, <4>2
    <3>6. kept \in [Slots \cup {"context"} -> Seq(1 .. Len(heap))]
      BY <1>8, <1>9, <3>3
    <3> HIDE DEF e, kept
    <3>7. Emitted(m)
      BY <1>1, <3>2, <3>4, <3>5, EmitStep
    <3>8. heap' \in Seq(Cells) /\ stacks' \in [Slots \cup {"context"} -> Seq(1 .. Len(heap'))]
      BY <1>8, <3>2, <3>6, Collected
    <3> QED  BY <1>8, <1>10, <2>1, <3>2, <3>7, <3>8
  <2>2. CASE m.signal \notin Stacked
    <3> DEFINE drop(s) == \/ element.context # 0 /\ s = "context"
                          \/ element.object # 0 /\ s = Slot(Seen(element.object).kind)
               e == [signal |-> m.signal, object |-> Seen(element.object),
                     context |-> SeenContext(element.context),
                     result |-> SeenResult(element.result),
                     success |-> IF m.signal \in {"complete-test", "complete-iterated-test"}
                                 THEN completeSuccess ELSE "none"]
               kept == [s \in DOMAIN stacks |-> IF drop(s) THEN Popped(s) ELSE stacks[s]]
    <3>1. EndRecord(m.signal)
      BY <1>5, <2>2 DEF EndSignal
    <3>2. /\ Emit(e) /\ Collect(kept)
          /\ completeSuccess' = IF m.signal = "complete-test" THEN "true" ELSE completeSuccess
          /\ result' = IF m.signal \in WithResult THEN 0 ELSE result
      BY <3>1 DEF EndRecord
    <3>4. TestsOnly(m) => e = m
      BY <1>1, <1>11, <2>2, RecordIsMessage
    <3>5. e.signal = m.signal
      OBVIOUS
    <3>6. kept \in [Slots \cup {"context"} -> Seq(1 .. Len(heap))]
      <4>1. DOMAIN stacks = Slots \cup {"context"}
        BY <1>8
      <4> HIDE DEF drop
      <4>2. \A s \in Slots \cup {"context"} :
              (IF drop(s) THEN Popped(s) ELSE stacks[s]) \in Seq(1 .. Len(heap))
        BY <1>8, <1>9
      <4> QED  BY <4>1, <4>2
    <3> HIDE DEF e, kept
    <3>7. Emitted(m)
      BY <1>1, <3>2, <3>4, <3>5, EmitStep
    <3>8. heap' \in Seq(Cells) /\ stacks' \in [Slots \cup {"context"} -> Seq(1 .. Len(heap'))]
      BY <1>8, <3>2, <3>6, Collected
    <3> QED  BY <1>8, <1>10, <3>2, <3>7, <3>8
  <2> QED  BY <2>1, <2>2
<1>13. ParserTyped'
  <2>1. element' \in Records(heap') /\ result' \in 0 .. Len(heap')
    BY <1>7, <1>12 DEF NoElement, Records
  <2> QED  BY <1>1, <1>7, <1>12, <2>1 DEF Typed, ParserTyped
<1> QED  BY <1>4, <1>6, <1>7, <1>12, <1>13 DEF Ends, Emitted

-----------------------------------------------------------------------------
\* What the child writes is well formed.

LEMMA ObjectWritten ==
  ASSUME NEW k \in TestObjects, NEW n \in Cases \cup {"suite"}
  PROVE  /\ Object(k, n) \in Objects /\ Object(k, n).kind = k
         /\ Fits(Object(k, n), Slot(k))
<1>1. Object(k, n) \in Objects /\ Object(k, n).kind = k
  BY DEF Object, Objects, Texts, Kinds
<1>2. Object(k, n).attribute # "none" => k \in Attributed
  BY DEF Object
<1>3. k # "test-data" /\ k \in Kinds
  BY DEF TestObjects, Kinds
<1> QED  BY <1>1, <1>2, <1>3 DEF Fits

LEMMA NoneWritten ==
  /\ None \in Objects /\ \A s \in Slots : Fits(None, s)
  /\ NoContext \in Contexts /\ NoResult \in ResultRecords
<1>1. None \in Objects
  BY DEF None, Objects, Texts
<1>2. None.attribute = "none"
  BY DEF None
<1>3. "none" \in Texts
  BY DEF Texts
<1>4. NoContext \in Contexts
  BY <1>1, <1>3 DEF NoContext, Contexts
<1>5. NoResult \in ResultRecords
  BY <1>1, <1>3 DEF NoResult, ResultRecords
<1> QED  BY <1>1, <1>2, <1>4, <1>5 DEF Fits

LEMMA PartsWritten ==
  ASSUME NEW c \in Cases
  PROVE  /\ Suite \in Objects /\ Case(c) \in Objects /\ Iterator(c) \in Objects
         /\ Test(c) \in Objects /\ Data(c) \in Objects
         /\ Suite.kind = "test-suite" /\ Case(c).kind = "test-case"
         /\ c \in Driven => Iterator(c).kind = "test-iterator"
         /\ Test(c).kind = IF c \in Driven THEN "iterated-test" ELSE "test"
         /\ Fits(Suite, "suite") /\ Fits(Case(c), "case") /\ Fits(Iterator(c), "iterator")
         /\ Fits(Test(c), "test") /\ Fits(Data(c), "data")
<1>1. c \in Cases \cup {"suite"} /\ "suite" \in Cases \cup {"suite"}
  OBVIOUS
<1>2. /\ Slot("test-suite") = "suite" /\ Slot("test-case") = "case"
      /\ Slot("test-iterator") = "iterator" /\ Slot("test-data") = "data"
  BY DEF Slot
<1>3. /\ "test-suite" \in TestObjects /\ "test-case" \in TestObjects
      /\ "test-iterator" \in TestObjects /\ "test" \in TestObjects
      /\ "iterated-test" \in TestObjects
  BY DEF TestObjects
<1>4. Suite \in Objects /\ Suite.kind = "test-suite" /\ Fits(Suite, "suite")
  BY <1>1, <1>2, <1>3, ObjectWritten DEF Suite
<1>5. Case(c) \in Objects /\ Case(c).kind = "test-case" /\ Fits(Case(c), "case")
  BY <1>1, <1>2, <1>3, ObjectWritten DEF Case
<1>6. /\ Iterator(c) \in Objects /\ Fits(Iterator(c), "iterator")
      /\ c \in Driven => Iterator(c).kind = "test-iterator"
  <2>1. CASE c \in Driven
    <3>1. Iterator(c) = Object("test-iterator", c)
      BY <2>1 DEF Iterator
    <3> QED  BY <1>1, <1>2, <1>3, <3>1, ObjectWritten
  <2>2. CASE c \notin Driven
    <3>1. Iterator(c) = None
      BY <2>2 DEF Iterator
    <3> QED  BY <2>2, <3>1, NoneWritten DEF Slots
  <2> QED  BY <2>1, <2>2
<1>7. /\ Test(c) \in Objects /\ Fits(Test(c), "test")
      /\ Test(c).kind = IF c \in Driven THEN "iterated-test" ELSE "test"
  <2>1. CASE c \in Driven
    <3>1. Test(c) = Object("iterated-test", c)
      BY <2>1 DEF Test
    <3> QED  BY <1>1, <1>3, <2>1, <3>1, ObjectWritten, SlotFacts
  <2>2. CASE c \notin Driven
    <3>1. Test(c) = Object("test", c)
      BY <2>2 DEF Test
    <3> QED  BY <1>1, <1>3, <2>2, <3>1, ObjectWritten, SlotFacts
  <2> QED  BY <2>1, <2>2
<1>8. Data(c) \in Objects /\ Fits(Data(c), "data")
  <2>1. CASE c \in Driven
    <3>1. Data(c) = [kind |-> "test-data", name |-> c, attribute |-> "none"]
      BY <2>1 DEF Data
    <3>2. Data(c) \in Objects /\ Data(c).kind = "test-data" /\ Data(c).attribute = "none"
      BY <3>1 DEF Objects, Kinds, Texts
    <3>3. "test-data" \in Kinds
      BY DEF Kinds
    <3> QED  BY <1>2, <3>2, <3>3 DEF Fits
  <2>2. CASE c \notin Driven
    <3>1. Data(c) = None
      BY <2>2 DEF Data
    <3> QED  BY <3>1, NoneWritten DEF Slots
  <2> QED  BY <2>1, <2>2
<1> QED  BY <1>4, <1>5, <1>6, <1>7, <1>8

\* A message, by its parts.
Composed(e, o, c, r, s) ==
  [signal |-> e, object |-> o, context |-> c, result |-> r, success |-> s]

LEMMA ComposedForm ==
  ASSUME NEW e \in Signals, NEW o \in Objects, o.kind \in TestObjects \cap Accepts(e),
         Fits(o, Slot(o.kind)), NEW c \in Contexts, NEW r \in ResultRecords,
         c # NoContext => /\ "test-context" \in Accepts(e) /\ e \notin Stacked
                          /\ \A s \in Slots : Fits(c[s], s),
         r # NoResult => /\ "result" \in Accepts(e) /\ e \in WithResult
                         /\ \A s \in Slots \ {"suite"} : Fits(r[s], s),
         NEW b \in {"none", "true", "false"}, (b # "none") <=> (e \in Completing),
         e = "test-result" => \E i \in Cases : r.status = outcome[i]
  PROVE  WellFormed(Composed(e, o, c, r, b))
<1> DEFINE m == Composed(e, o, c, r, b)
<1>1. /\ m.signal = e /\ m.object = o /\ m.context = c /\ m.result = r /\ m.success = b
      /\ m \in Messages
  BY DEF Composed, Messages
<1> HIDE DEF m
<1>2. WellFormed(m)
  BY <1>1 DEF WellFormed
<1> QED  BY <1>2 DEF m

LEMMA ContextWritten ==
  ASSUME NEW c \in Cases, NEW s
  PROVE  Context(c, s) \in Contexts /\ \A i \in Slots : Fits(Context(c, s)[i], i)
<1>1. Bool(~Passes(s)) \in Texts
  BY DEF Bool, Texts
<1>2. Context(c, s) \in Contexts
  BY <1>1, PartsWritten DEF Context, Contexts
<1>3. /\ Context(c, s)["suite"] = Suite /\ Context(c, s)["case"] = Case(c)
      /\ Context(c, s)["iterator"] = Iterator(c) /\ Context(c, s)["test"] = Test(c)
      /\ Context(c, s)["data"] = Data(c)
  BY DEF Context
<1>4. \A i \in Slots : Fits(Context(c, s)[i], i)
  BY <1>3, PartsWritten DEF Slots
<1> QED  BY <1>2, <1>4

\* The results: of a test, of an iterator and of a case.
Result(c, i, t, d, s) == [case |-> c, iterator |-> i, test |-> t, data |-> d, status |-> s]

LEMMA ResultWritten ==
  ASSUME NEW c \in Objects, NEW i \in Objects, NEW t \in Objects, NEW d \in Objects,
         NEW s \in Texts, Fits(c, "case"), Fits(i, "iterator"), Fits(t, "test"), Fits(d, "data")
  PROVE  /\ Result(c, i, t, d, s) \in ResultRecords /\ Result(c, i, t, d, s).status = s
         /\ \A x \in Slots \ {"suite"} : Fits(Result(c, i, t, d, s)[x], x)
<1> DEFINE r == Result(c, i, t, d, s)
<1>1. r \in ResultRecords /\ r.status = s
  BY DEF Result, ResultRecords
<1>2. r["case"] = c /\ r["iterator"] = i /\ r["test"] = t /\ r["data"] = d
  BY DEF Result
<1> HIDE DEF r
<1>3. \A x \in Slots \ {"suite"} : Fits(r[x], x)
  BY <1>2 DEF Slots
<1> QED  BY <1>1, <1>3 DEF r

-----------------------------------------------------------------------------
WellFormeds == {m \in Messages : WellFormed(m)}

LEMMA SignalFacts ==
  /\ \A e \in {"start-test", "start-iterated-test", "pass-assertion", "test-result",
               "complete-test", "complete-iterated-test"} :
       /\ e \in Signals /\ "test-context" \in Accepts(e) /\ e \notin Stacked
  /\ {"test", "iterated-test"} \subseteq Accepts("pass-assertion") \cap Accepts("test-result")
  /\ "test" \in Accepts("start-test") \cap Accepts("complete-test")
  /\ "iterated-test" \in Accepts("start-iterated-test") \cap Accepts("complete-iterated-test")
  /\ \A e \in {"ready-test-case", "start-test-case", "test-case-result", "complete-test-case"} :
       e \in Signals /\ "test-case" \in Accepts(e)
  /\ \A e \in {"ready-test-iterator", "start-test-iterator", "test-iterator-result",
               "complete-test-iterator"} :
       e \in Signals /\ "test-iterator" \in Accepts(e)
  /\ \A e \in {"ready-test-suite", "start-test-suite", "complete-test-suite"} :
       e \in Signals /\ "test-suite" \in Accepts(e)
  /\ \A e \in WithResult : "result" \in Accepts(e)
BY DEF Signals, Accepts, Stacked, WithResult, TestObjects

LEMMA Forms ==
  ASSUME NEW e, NEW o, NEW c, NEW r, NEW b
  PROVE  /\ OnObject(e, o) = Composed(e, o, NoContext, NoResult, "none")
         /\ \A x : WithStatus(Composed(e, o, c, r, b), x) = Composed(e, o, c, x, b)
         /\ \A s : WithSuccess(Composed(e, o, c, r, b), s) = Composed(e, o, c, r, Bool(Passes(s)))
         /\ \A s : OnTest(e, c, s) = Composed(e, Test(c), Context(c, s), NoResult, "none")
<1>1. ASSUME NEW p, NEW q, NEW t
      PROVE  OnObject(p, q) = Composed(p, q, NoContext, NoResult, "none")
  <2> DEFINE nc == NoContext
             nr == NoResult
             no == None
  <2>1. Message(p) = Composed(p, no, nc, nr, "none")
    BY DEF Message, Composed
  <2> HIDE DEF nc, nr, no
  <2>2. OnObject(p, q) = Composed(p, q, nc, nr, "none")
    BY <2>1 DEF OnObject, Composed
  <2> QED  BY <2>2 DEF nc, nr
<1>2. \A x : WithStatus(Composed(e, o, c, r, b), x) = Composed(e, o, c, x, b)
  BY DEF WithStatus, Composed
<1>3. ASSUME NEW s
      PROVE  WithSuccess(Composed(e, o, c, r, b), s) = Composed(e, o, c, r, Bool(Passes(s)))
  <2> DEFINE x == Bool(Passes(s))
  <2>1. WithSuccess(Composed(e, o, c, r, b), s) = [Composed(e, o, c, r, b) EXCEPT !.success = x]
    BY DEF WithSuccess
  <2> HIDE DEF x
  <2>2. [Composed(e, o, c, r, b) EXCEPT !.success = x] = Composed(e, o, c, r, x)
    BY DEF Composed
  <2> QED  BY <2>1, <2>2 DEF x
<1>4. ASSUME NEW s
      PROVE  OnTest(e, c, s) = Composed(e, Test(c), Context(c, s), NoResult, "none")
  <2> DEFINE x == Context(c, s)
             t == Test(c)
             nc == NoContext
             nr == NoResult
  <2>1. OnObject(e, t) = Composed(e, t, nc, nr, "none")
    BY <1>1
  <2>2. OnTest(e, c, s) = [OnObject(e, t) EXCEPT !.context = x]
    BY DEF OnTest
  <2> HIDE DEF x, t, nc, nr
  <2>3. [Composed(e, t, nc, nr, "none") EXCEPT !.context = x] = Composed(e, t, x, nr, "none")
    BY DEF Composed
  <2> QED  BY <2>1, <2>2, <2>3 DEF x, t, nr
<1> QED  BY <1>1, <1>2, <1>3, <1>4

LEMMA Flags ==
  ASSUME NEW b
  PROVE  Bool(b) \in {"true", "false"}
BY DEF Bool

\* A message on an object alone.
LEMMA OnObjectWritten ==
  ASSUME NEW e \in Signals \ Completing, NEW o \in Objects,
         o.kind \in TestObjects \cap Accepts(e), Fits(o, Slot(o.kind)), e # "test-result"
  PROVE  OnObject(e, o) \in WellFormeds
<1>1. WellFormed(Composed(e, o, NoContext, NoResult, "none"))
  BY NoneWritten, ComposedForm
<1>2. WellFormed(OnObject(e, o))
  BY <1>1, Forms
<1> QED  BY <1>2 DEF WellFormeds, WellFormed

\* The end of an object that has no context.
LEMMA OnObjectSuccess ==
  ASSUME NEW e \in Signals \cap Completing, NEW o \in Objects,
         o.kind \in TestObjects \cap Accepts(e), Fits(o, Slot(o.kind)),
         NEW b \in {"true", "false"}
  PROVE  Composed(e, o, NoContext, NoResult, b) \in WellFormeds
<1>1. e # "test-result"
  BY DEF Completing
<1>2. WellFormed(Composed(e, o, NoContext, NoResult, b))
  BY <1>1, NoneWritten, ComposedForm
<1> QED  BY <1>2 DEF WellFormeds, WellFormed

\* The result of an object that has no context.
LEMMA OnObjectResult ==
  ASSUME NEW e \in Signals \cap WithResult, e # "test-result", NEW o \in Objects,
         o.kind \in TestObjects \cap Accepts(e), Fits(o, Slot(o.kind)),
         NEW r \in ResultRecords, \A s \in Slots \ {"suite"} : Fits(r[s], s)
  PROVE  WithStatus(OnObject(e, o), r) \in WellFormeds
<1>1. e \notin Completing /\ "result" \in Accepts(e)
  BY SignalFacts DEF Completing, WithResult
<1>2. WellFormed(Composed(e, o, NoContext, r, "none"))
  BY <1>1, NoneWritten, ComposedForm
<1>3. WithStatus(OnObject(e, o), r) = Composed(e, o, NoContext, r, "none")
  BY Forms
<1> QED  BY <1>2, <1>3 DEF WellFormeds, WellFormed

LEMMA ShortScripts ==
  ASSUME NEW S, NEW a \in S, NEW b \in S, NEW c \in S, NEW d \in S
  PROVE  <<a, b>> \in Seq(S) /\ <<a, b, c, d>> \in Seq(S)
OBVIOUS

LEMMA NoResultParts ==
  /\ NoResult \in ResultRecords
  /\ \A x \in Slots \ {"suite"} : NoResult[x] = None
BY NoneWritten DEF NoResult, Slots

\* The result of an iterator and the one of a case.
IteratorResult(c, i, s) == [NoResult EXCEPT !.case = c, !.iterator = i, !.status = s]
CaseResult(c, s) == [NoResult EXCEPT !.case = c, !.status = s]

LEMMA ResultOf ==
  ASSUME NEW c \in Objects, NEW i \in Objects, NEW s \in Texts, Fits(c, "case"),
         Fits(i, "iterator")
  PROVE  /\ IteratorResult(c, i, s) \in ResultRecords
         /\ \A x \in Slots \ {"suite"} : Fits(IteratorResult(c, i, s)[x], x)
         /\ CaseResult(c, s) \in ResultRecords
         /\ \A x \in Slots \ {"suite"} : Fits(CaseResult(c, s)[x], x)
<1>1. ASSUME NEW r, r \in {IteratorResult(c, i, s), CaseResult(c, s)}
      PROVE  r \in ResultRecords /\ \A x \in Slots \ {"suite"} : Fits(r[x], x)
  <2> DEFINE n == NoResult
  <2>1. n \in ResultRecords /\ \A x \in Slots \ {"suite"} : n[x] = None
    BY NoResultParts
  <2>2. None \in Objects /\ \A x \in Slots : Fits(None, x)
    BY NoneWritten
  <2>3. \/ r = [n EXCEPT !.case = c, !.iterator = i, !.status = s]
        \/ r = [n EXCEPT !.case = c, !.status = s]
    BY <1>1 DEF IteratorResult, CaseResult
  <2> HIDE DEF n
  <2>4. r \in ResultRecords
    BY <2>1, <2>3 DEF ResultRecords
  <2>5. /\ r["case"] = c /\ r["iterator"] \in {i, n["iterator"]}
        /\ r["test"] = n["test"] /\ r["data"] = n["data"]
    BY <2>1, <2>3 DEF ResultRecords
  <2>6. \A x \in Slots \ {"suite"} : Fits(r[x], x)
    BY <2>1, <2>2, <2>5 DEF Slots
  <2> QED  BY <2>4, <2>6
<1> QED  BY <1>1

LEMMA TestScriptWritten ==
  ASSUME NEW c \in Cases, outcome[c] \in Results
  PROVE  TestScript(c, outcome[c]) \in Seq(WellFormeds)
<1> DEFINE s == outcome[c]
           start == IF c \in Driven THEN "start-iterated-test" ELSE "start-test"
           complete == IF c \in Driven THEN "complete-iterated-test" ELSE "complete-test"
           t == Test(c)
           r == TestResult(c, s)
           b == Bool(Passes(s))
           m1 == OnTest(start, c, "success")
           m2 == OnTest("pass-assertion", c, "success")
           m3 == WithStatus(OnTest("test-result", c, s), r)
           m4 == WithSuccess(OnTest(complete, c, s), s)
<1>1. TestScript(c, s) = <<m1, m2, m3, m4>>
  BY DEF TestScript
<1>2. /\ t \in Objects /\ t.kind = (IF c \in Driven THEN "iterated-test" ELSE "test")
      /\ Fits(t, Slot(t.kind)) /\ t.kind \in TestObjects
  BY PartsWritten, SlotFacts DEF TestObjects
<1>3. /\ start \in Signals /\ "test-context" \in Accepts(start) /\ start \notin Stacked
      /\ start \notin Completing /\ start # "test-result" /\ t.kind \in Accepts(start)
  BY <1>2, SignalFacts DEF Completing
<1>4. /\ complete \in Signals /\ "test-context" \in Accepts(complete)
      /\ complete \notin Stacked /\ complete \in Completing /\ complete # "test-result"
      /\ t.kind \in Accepts(complete)
  BY <1>2, SignalFacts DEF Completing
<1>5. \A e \in {"pass-assertion", "test-result"} :
        /\ e \in Signals /\ "test-context" \in Accepts(e) /\ e \notin Stacked
        /\ e \notin Completing /\ t.kind \in Accepts(e)
  BY <1>2, SignalFacts DEF Completing
<1>6. "result" \in Accepts("test-result") /\ "test-result" \in WithResult
  BY SignalFacts DEF WithResult
<1>7. \A x : Context(c, x) \in Contexts /\ \A i \in Slots : Fits(Context(c, x)[i], i)
  BY ContextWritten
<1>8. /\ r \in ResultRecords /\ r.status = s /\ \A x \in Slots \ {"suite"} : Fits(r[x], x)
  <2>1. r = Result(Case(c), Iterator(c), Test(c), Data(c), s)
    BY DEF TestResult, Result
  <2>2. s \in Texts
    BY DEF Texts
  <2> HIDE DEF s
  <2> QED  BY <2>1, <2>2, PartsWritten, ResultWritten
<1>9. NoResult \in ResultRecords
  BY NoneWritten
<1>10. b \in {"true", "false"}
  BY Flags
<1>11. \A x : "success" # x \/ x = "success"
  OBVIOUS
<1> HIDE DEF start, complete, t, r, b, s
<1>12. WellFormed(Composed(start, t, Context(c, "success"), NoResult, "none"))
  BY <1>2, <1>3, <1>7, <1>9, ComposedForm
<1>13. WellFormed(Composed("pass-assertion", t, Context(c, "success"), NoResult, "none"))
  BY <1>2, <1>5, <1>7, <1>9, ComposedForm
<1>14. WellFormed(Composed("test-result", t, Context(c, s), r, "none"))
  <2>1. \E i \in Cases : r.status = outcome[i]
    BY <1>8 DEF s
  <2> QED  BY <1>2, <1>5, <1>6, <1>7, <1>8, <2>1, ComposedForm
<1>15. WellFormed(Composed(complete, t, Context(c, s), NoResult, b))
  BY <1>2, <1>4, <1>7, <1>9, <1>10, ComposedForm
<1>16. /\ m1 = Composed(start, t, Context(c, "success"), NoResult, "none")
       /\ m2 = Composed("pass-assertion", t, Context(c, "success"), NoResult, "none")
       /\ m3 = Composed("test-result", t, Context(c, s), r, "none")
       /\ m4 = Composed(complete, t, Context(c, s), NoResult, b)
  <2>1. \A e, x : OnTest(e, c, x) = Composed(e, t, Context(c, x), NoResult, "none")
    BY Forms DEF t
  <2>2. m1 = Composed(start, t, Context(c, "success"), NoResult, "none")
    BY <2>1
  <2>3. m2 = Composed("pass-assertion", t, Context(c, "success"), NoResult, "none")
    BY <2>1
  <2>4. m3 = Composed("test-result", t, Context(c, s), r, "none")
    <3>1. m3 = WithStatus(Composed("test-result", t, Context(c, s), NoResult, "none"), r)
      BY <2>1
    <3> QED  BY <3>1, Forms
  <2>5. m4 = Composed(complete, t, Context(c, s), NoResult, b)
    <3>1. m4 = WithSuccess(Composed(complete, t, Context(c, s), NoResult, "none"), s)
      BY <2>1
    <3> QED  BY <3>1, Forms DEF b
  <2> QED  BY <2>2, <2>3, <2>4, <2>5
<1> HIDE DEF m1, m2, m3, m4
<1>17. m1 \in WellFormeds /\ m2 \in WellFormeds /\ m3 \in WellFormeds /\ m4 \in WellFormeds
  BY <1>12, <1>13, <1>14, <1>15, <1>16 DEF WellFormeds, WellFormed
<1>18. <<m1, m2, m3, m4>> \in Seq(WellFormeds)
  BY <1>17, ShortScripts
<1> QED  BY <1>1, <1>18 DEF s

LEMMA IteratorScriptWritten ==
  ASSUME NEW c \in Cases, outcome[c] \in Results
  PROVE  IteratorScript(c, outcome[c]) \in Seq(WellFormeds)
<1>1. CASE c \notin Driven
  BY <1>1, TestScriptWritten DEF IteratorScript
<1>2. CASE c \in Driven
  <2> DEFINE s == outcome[c]
             o == Iterator(c)
             r == [NoResult EXCEPT !.case = Case(c), !.iterator = Iterator(c), !.status = s]
             m1 == OnObject("ready-test-iterator", o)
             m2 == OnObject("start-test-iterator", o)
             m3 == WithStatus(OnObject("test-iterator-result", o), r)
             m4 == WithSuccess(OnObject("complete-test-iterator", o), s)
             script == TestScript(c, s)
  <2>1. IteratorScript(c, s) = <<m1, m2>> \o script \o <<m3, m4>>
    BY <1>2 DEF IteratorScript
  <2>2. /\ o \in Objects /\ o.kind = "test-iterator" /\ Fits(o, Slot(o.kind))
        /\ o.kind \in TestObjects
    <3>1. Slot("test-iterator") = "iterator"
      BY DEF Slot
    <3> QED  BY <1>2, <3>1, PartsWritten DEF TestObjects
  <2>4. r \in ResultRecords /\ \A x \in Slots \ {"suite"} : Fits(r[x], x)
    <3>1. s \in Texts
      BY DEF Texts
    <3>2. Case(c) \in Objects /\ Fits(Case(c), "case") /\ Fits(o, "iterator")
      BY PartsWritten
    <3>3. r = IteratorResult(Case(c), o, s)
      BY DEF IteratorResult
    <3> HIDE DEF s, r, o
    <3> QED  BY <2>2, <3>1, <3>2, <3>3, ResultOf
  <2>5. /\ \A e \in {"ready-test-iterator", "start-test-iterator", "test-iterator-result",
                     "complete-test-iterator"} : e \in Signals /\ o.kind \in Accepts(e)
        /\ "ready-test-iterator" \notin Completing /\ "start-test-iterator" \notin Completing
        /\ "test-iterator-result" \in WithResult /\ "complete-test-iterator" \in Completing
    BY <2>2, SignalFacts DEF Completing, WithResult
  <2>6. Bool(Passes(s)) \in {"true", "false"}
    BY Flags
  <2> HIDE DEF s, o, r
  <2>7. m1 \in WellFormeds /\ m2 \in WellFormeds
    BY <2>2, <2>5, OnObjectWritten
  <2>8. m3 \in WellFormeds
    BY <2>2, <2>4, <2>5, OnObjectResult
  <2>9. m4 \in WellFormeds
    <3>1. m4 = Composed("complete-test-iterator", o, NoContext, NoResult, Bool(Passes(s)))
      BY Forms
    <3> QED  BY <2>2, <2>5, <2>6, <3>1, OnObjectSuccess
  <2> HIDE DEF m1, m2, m3, m4
  <2>10. <<m1, m2>> \in Seq(WellFormeds) /\ <<m3, m4>> \in Seq(WellFormeds)
    BY <2>7, <2>8, <2>9, ShortScripts
  <2>11. script \in Seq(WellFormeds)
    BY TestScriptWritten DEF s
  <2> HIDE DEF script
  <2>12. <<m1, m2>> \o script \in Seq(WellFormeds)
    BY <2>10, <2>11, Chained
  <2>13. <<m1, m2>> \o script \o <<m3, m4>> \in Seq(WellFormeds)
    BY <2>10, <2>12, Chained
  <2> QED  BY <2>1, <2>13 DEF s
<1> QED  BY <1>1, <1>2

LEMMA CaseScriptWritten ==
  ASSUME NEW c \in Cases, outcome[c] \in Results
  PROVE  CaseScript(c, outcome[c]) \in Seq(WellFormeds)
<1> DEFINE s == outcome[c]
           o == Case(c)
           r == [NoResult EXCEPT !.case = Case(c), !.status = s]
           m1 == OnObject("ready-test-case", o)
           m2 == OnObject("start-test-case", o)
           m3 == WithStatus(OnObject("test-case-result", o), r)
           m4 == WithSuccess(OnObject("complete-test-case", o), s)
           script == IteratorScript(c, s)
<1>1. CaseScript(c, s) = <<m1, m2>> \o script \o <<m3, m4>>
  BY DEF CaseScript
<1>2. /\ o \in Objects /\ o.kind = "test-case" /\ Fits(o, Slot(o.kind))
      /\ o.kind \in TestObjects
  <2>1. Slot("test-case") = "case"
    BY DEF Slot
  <2> QED  BY <2>1, PartsWritten DEF TestObjects
<1>4. r \in ResultRecords /\ \A x \in Slots \ {"suite"} : Fits(r[x], x)
  <2>1. s \in Texts
    BY DEF Texts
  <2>2. Fits(o, "case")
    BY PartsWritten
  <2>3. None \in Objects /\ Fits(None, "iterator")
    BY NoneWritten DEF Slots
  <2>4. r = CaseResult(o, s)
    BY DEF CaseResult
  <2> HIDE DEF s, r, o
  <2> QED  BY <1>2, <2>1, <2>2, <2>3, <2>4, ResultOf
<1>5. /\ \A e \in {"ready-test-case", "start-test-case", "test-case-result",
                   "complete-test-case"} : e \in Signals /\ o.kind \in Accepts(e)
      /\ "ready-test-case" \notin Completing /\ "start-test-case" \notin Completing
      /\ "test-case-result" \in WithResult /\ "complete-test-case" \in Completing
  BY <1>2, SignalFacts DEF Completing, WithResult
<1>6. Bool(Passes(s)) \in {"true", "false"}
  BY Flags
<1> HIDE DEF s, o, r
<1>7. m1 \in WellFormeds /\ m2 \in WellFormeds
  BY <1>2, <1>5, OnObjectWritten
<1>8. m3 \in WellFormeds
  BY <1>2, <1>4, <1>5, OnObjectResult
<1>9. m4 \in WellFormeds
  <2>1. m4 = Composed("complete-test-case", o, NoContext, NoResult, Bool(Passes(s)))
    BY Forms
  <2> QED  BY <1>2, <1>5, <1>6, <2>1, OnObjectSuccess
<1> HIDE DEF m1, m2, m3, m4
<1>10. <<m1, m2>> \in Seq(WellFormeds) /\ <<m3, m4>> \in Seq(WellFormeds)
  BY <1>7, <1>8, <1>9, ShortScripts
<1>11. script \in Seq(WellFormeds)
  BY IteratorScriptWritten DEF s
<1> HIDE DEF script
<1>12. <<m1, m2>> \o script \in Seq(WellFormeds)
  BY <1>10, <1>11, Chained
<1>13. <<m1, m2>> \o script \o <<m3, m4>> \in Seq(WellFormeds)
  BY <1>10, <1>12, Chained
<1> QED  BY <1>1, <1>13 DEF s

LEMMA FiveOf ==
  ASSUME NEW S, NEW a \in S, NEW b \in S, NEW c \in S, NEW d \in S, NEW e \in S, NEW q,
         q = <<a, b, c>> \o <<d, e>>
  PROVE  Len(q) = 5 /\ q[1] = a /\ q[2] = b /\ q[3] = c /\ q[4] = d /\ q[5] = e
OBVIOUS

\* What the suite writes.
LEMMA SuiteScript ==
  /\ Len(Opening) = 3 /\ Len(Opening \o Closing) = 5
  /\ (Opening \o Closing)[1] = Message("start-run")
  /\ \A k \in 2 .. 4 : WellFormed((Opening \o Closing)[k])
  /\ (Opening \o Closing)[5] = Finale(AllPass)
<1> DEFINE m1 == Message("start-run")
           m2 == OnObject("ready-test-suite", Suite)
           m3 == OnObject("start-test-suite", Suite)
           m4 == [OnObject("complete-test-suite", Suite) EXCEPT !.success = AllPass]
           m5 == Finale(AllPass)
<1>1. Opening = <<m1, m2, m3>>
  BY DEF Opening
<1>2. Closing = <<m4, m5>>
  BY DEF Closing, AllPass, Finale
<1>3. /\ Suite \in Objects /\ Suite.kind = "test-suite" /\ Fits(Suite, Slot(Suite.kind))
      /\ Suite.kind \in TestObjects
  <2>1. Slot("test-suite") = "suite"
    BY DEF Slot
  <2>2. "suite" \in Cases \cup {"suite"} /\ "test-suite" \in TestObjects
    BY DEF TestObjects
  <2> QED  BY <2>1, <2>2, ObjectWritten DEF Suite
<1>4. /\ \A e \in {"ready-test-suite", "start-test-suite", "complete-test-suite"} :
           e \in Signals /\ Suite.kind \in Accepts(e)
      /\ "ready-test-suite" \notin Completing /\ "start-test-suite" \notin Completing
      /\ "complete-test-suite" \in Completing
  BY <1>3, SignalFacts DEF Completing
<1>5. m2 \in WellFormeds /\ m3 \in WellFormeds
  BY <1>3, <1>4, OnObjectWritten
<1>6. m4 \in WellFormeds
  <2>1. AllPass \in {"true", "false"}
    BY Flags DEF AllPass
  <2>2. m4 = Composed("complete-test-suite", Suite, NoContext, NoResult, AllPass)
    BY OnObjectIs DEF Composed
  <2> HIDE DEF m4
  <2> QED  BY <1>3, <1>4, <2>1, <2>2, OnObjectSuccess
<1> HIDE DEF m1, m2, m3, m4, m5
<1> DEFINE q == Opening \o Closing
           S == {m1, m2, m3, m4, m5}
<1>7. q = <<m1, m2, m3>> \o <<m4, m5>>
  BY <1>1, <1>2
<1>a. m1 \in S /\ m2 \in S /\ m3 \in S /\ m4 \in S /\ m5 \in S
  OBVIOUS
<1> HIDE DEF q, S
<1>b. Len(q) = 5 /\ q[1] = m1 /\ q[2] = m2 /\ q[3] = m3 /\ q[4] = m4 /\ q[5] = m5
  BY <1>7, <1>a, FiveOf
<1>8. \A k \in 2 .. 4 : WellFormed(q[k])
  <2>1. WellFormed(m2) /\ WellFormed(m3) /\ WellFormed(m4)
    BY <1>5, <1>6 DEF WellFormeds
  <2>2. \A k \in 2 .. 4 : k = 2 \/ k = 3 \/ k = 4
    OBVIOUS
  <2> QED  BY <1>b, <2>1, <2>2
<1>9. Len(Opening) = 3
  BY <1>1
<1> QED  BY <1>b, <1>8, <1>9 DEF m1, m5, q

-----------------------------------------------------------------------------
\* The wire is not empty in a message.

LEMMA Left ==
  ASSUME NEW x \in Seq(Tags), NEW w \in Seq(Tags), w # <<>>
  PROVE  x \o w # <<>>
<1>1. Len(w) # 0 /\ Len(x) \in Nat /\ Len(w) \in Nat
  BY EmptySeq
<1>2. Len(x \o w) = Len(x) + Len(w)
  OBVIOUS
<1>3. Len(x \o w) # 0
  BY <1>1, <1>2
<1> QED  BY <1>3

LEMMA RestLeft ==
  ASSUME NEW m, WellFormed(m), NEW h, NEW i, <<h, i>> \in Places, h \in Holders => ~Absent(m, h)
  PROVE  Rest(m, h, i) # <<>> /\ Rest(m, h, i) \in Seq(Tags)
<1>1. m.signal \in Names
  BY MessageFacts
<1>2. \A k \in 0 .. 4 : Rest(m, "signal", k) \in Seq(Tags)
  BY SignalWire
<1>3. ASSUME NEW g \in Holders, ~Absent(m, g)
      PROVE  \A k \in 1 .. 7 : Rest(m, g, k) # <<>> /\ Rest(m, g, k) \in Seq(Tags)
  <2>1. /\ \A k \in 1 .. 7 : Rest(m, g, k) \in Seq(Tags)
        /\ \A k \in 1 .. 5 : Rest(m, g, k) = ObjectXML(ObjectAt(m, g, k)) \o Rest(m, g, k + 1)
    BY <1>3, SignalWire
  <2>2. g # "signal" /\ g \in Names
    BY PlaceFacts, NameFacts
  <2>3. After(m, g) \in Seq(Tags)
    <3>1. After(m, g) = Rest(m, "signal", 2) \/ After(m, g) = Rest(m, "signal", 3)
      BY DEF After, Rest
    <3> QED  BY <1>2, <3>1
  <2>4. Rest(m, g, 7) # <<>>
    <3>1. Rest(m, g, 7) = Tag("end", g) \o After(m, g)
      BY <2>2 DEF Rest, Rest7
    <3> QED  BY <2>2, <2>3, <3>1, TagCons
  <2>5. Rest(m, g, 6) # <<>>
    <3>1. Rest(m, g, 6) = Leaf(LeafName(g), LeafText(m, g)) \o Rest(m, g, 7)
      BY <2>2 DEF Rest, Rest6
    <3>2. LeafName(g) \in Names /\ LeafText(m, g) \in Texts
      BY <1>3, MessageFacts DEF LeafName, LeafText, Names
    <3>3. Rest(m, g, 7) \in Seq(Tags)
      BY <2>1
    <3> QED  BY <3>1, <3>2, <3>3, LeafCons
  <2>6. ASSUME NEW k \in 1 .. 5, Rest(m, g, k + 1) # <<>> PROVE Rest(m, g, k) # <<>>
    <3>1. ObjectXML(ObjectAt(m, g, k)) \in Seq(Tags)
      <4>1. Written(ObjectAt(m, g, k))
        BY <1>3, MessageFacts
      <4>2. k + 1 \in 1 .. 7
        OBVIOUS
      <4> QED  BY <2>1, <4>1, <4>2, ObjectWire
    <3>2. Rest(m, g, k + 1) \in Seq(Tags)
      <4>1. k + 1 \in 1 .. 7
        OBVIOUS
      <4> QED  BY <2>1, <4>1
    <3> QED  BY <2>1, <2>6, <3>1, <3>2, Left
  <2>7. Rest(m, g, 5) # <<>>
    BY <2>5, <2>6
  <2>8. Rest(m, g, 4) # <<>>
    BY <2>6, <2>7
  <2>9. Rest(m, g, 3) # <<>>
    BY <2>6, <2>8
  <2>10. Rest(m, g, 2) # <<>>
    BY <2>6, <2>9
  <2>11. Rest(m, g, 1) # <<>>
    BY <2>6, <2>10
  <2>12. \A k \in 1 .. 7 : k = 1 \/ k = 2 \/ k = 3 \/ k = 4 \/ k = 5 \/ k = 6 \/ k = 7
    OBVIOUS
  <2> QED  BY <2>1, <2>4, <2>5, <2>7, <2>8, <2>9, <2>10, <2>11, <2>12
<1>4. Rest(m, "signal", 4) # <<>>
  <2> DEFINE w == <<>>
  <2>1. Rest(m, "signal", 4) = Tag("end", m.signal) \o w /\ w \in Seq(Tags)
    BY SignalWire, EmptySeq
  <2> HIDE DEF w
  <2>2. Tag("end", m.signal) \o w # <<>>
    BY <1>1, <2>1, TagCons
  <2> QED  BY <2>1, <2>2
<1>5. Rest(m, "signal", 3) # <<>>
  <2>1. CASE m.success = "none"
    BY <1>4, <2>1, SignalWire
  <2>2. CASE m.success # "none"
    <3>1. Rest(m, "signal", 3) = Leaf("success", m.success) \o Rest(m, "signal", 4)
      BY <2>2, SignalWire
    <3>2. "success" \in Names /\ m.success \in Texts /\ Rest(m, "signal", 4) \in Seq(Tags)
      BY <1>2, MessageFacts DEF Names
    <3> QED  BY <3>1, <3>2, LeafCons
  <2> QED  BY <2>1, <2>2
<1>6. ASSUME NEW k \in {1, 2}, NEW g \in Holders, Rest(m, "signal", k + 1) # <<>>,
             Rest(m, "signal", k) = IF Absent(m, g) THEN Rest(m, "signal", k + 1)
                                    ELSE Tag("start", g) \o Rest(m, g, 1)
      PROVE  Rest(m, "signal", k) # <<>>
  <2>1. CASE Absent(m, g)
    BY <1>6, <2>1
  <2>2. CASE ~Absent(m, g)
    <3>1. Rest(m, g, 1) \in Seq(Tags) /\ g \in Names
      BY <1>3, <2>2, NameFacts
    <3> QED  BY <1>6, <2>2, <3>1, TagCons
  <2> QED  BY <2>1, <2>2
<1>7. Rest(m, "signal", 2) # <<>>
  <2>1. Rest(m, "signal", 2) = IF Absent(m, "result") THEN Rest(m, "signal", 2 + 1)
                               ELSE Tag("start", "result") \o Rest(m, "result", 1)
    BY SignalWire
  <2> QED  BY <1>5, <1>6, <2>1, PlaceFacts, SMTT(30)
<1>8. Rest(m, "signal", 1) # <<>>
  <2>1. Rest(m, "signal", 1) = IF Absent(m, "test-context") THEN Rest(m, "signal", 1 + 1)
                               ELSE Tag("start", "test-context") \o Rest(m, "test-context", 1)
    BY SignalWire
  <2> QED  BY <1>6, <1>7, <2>1, PlaceFacts, SMTT(30)
<1>9. Rest(m, "signal", 0) # <<>>
  <2>1. Rest(m, "signal", 0) = ObjectXML(m.object) \o Rest(m, "signal", 1)
    BY SignalWire
  <2>2. Rest(m, "signal", 1) \in Seq(Tags)
    BY <1>2
  <2>3. ObjectXML(m.object) \in Seq(Tags)
    BY <2>2, MessageFacts, ObjectWire
  <2> QED  BY <1>8, <2>1, <2>2, <2>3, Left
<1>10. \/ h = "signal" /\ i \in {0, 1, 2, 3, 4}
       \/ h \in Holders /\ i \in 1 .. 7
  BY DEF Places
<1>11. CASE h = "signal" /\ i \in {0, 1, 2, 3, 4}
  <2>1. i \in 0 .. 4
    BY <1>11
  <2>2. Rest(m, "signal", i) # <<>>
    BY <1>4, <1>5, <1>7, <1>8, <1>9, <1>11
  <2> QED  BY <1>2, <1>11, <2>1, <2>2
<1>12. CASE h \in Holders /\ i \in 1 .. 7
  BY <1>3, <1>12
<1> QED  BY <1>10, <1>11, <1>12

LEMMA ObjectLeft ==
  ASSUME NEW o, Written(o), o # None, NEW w \in Seq(Tags), NEW j \in 1 .. 6
  PROVE  ObjectPlace(o, j, w) # <<>>
<1>1. o \in Objects /\ o.kind \in Kinds /\ o.kind \in Names /\ o.name \in Texts
      /\ o.attribute \in Texts
  BY NameFacts DEF Written, Objects, Texts
<1>2. \A k \in 1 .. 6 : ObjectPlace(o, k, w) \in Seq(Tags)
  BY ObjectWire
<1>3. "name" \in Names /\ "value" \in Names /\ "option" \in Names /\ "attribute" \in Texts
  BY DEF Names, Texts
<1>4. ObjectPlace(o, 6, w) # <<>>
  BY <1>1, TagCons DEF ObjectPlace, ObjectEnd
<1>5. CASE j = 1
  <2>1. ObjectPlace(o, 1, w) = Leaf("name", o.name) \o ObjectPlace(o, 2, w)
    BY DEF ObjectPlace, ObjectName
  <2>2. ObjectPlace(o, 2, w) \in Seq(Tags)
    BY <1>2
  <2> DEFINE x == ObjectPlace(o, 2, w)
             n == o.name
  <2>a. x \in Seq(Tags) /\ n \in Texts /\ "name" \in Names
    BY <1>1, <1>3, <2>2
  <2> HIDE DEF x, n
  <2>b. Leaf("name", n) \o x # <<>>
    BY <2>a, LeafCons
  <2>3. Leaf("name", o.name) \o ObjectPlace(o, 2, w) # <<>>
    BY <2>b DEF x, n
  <2> QED  BY <1>5, <2>1, <2>3
<1>6. CASE j = 2
  <2>1. CASE o.attribute = "none"
    BY <1>1, <1>4, <1>6, <2>1, AttributeWire
  <2>2. CASE o.attribute # "none"
    <3>1. ObjectPlace(o, 2, w) = Tag("start", "option") \o ObjectPlace(o, 3, w)
      BY <1>1, <2>2, AttributeWire
    <3> QED  BY <1>2, <1>3, <1>6, <3>1, TagCons
  <2> QED  BY <2>1, <2>2
<1>7. CASE j = 3
  <2>1. ObjectPlace(o, 3, w) = Leaf("name", "attribute") \o ObjectPlace(o, 4, w)
    BY DEF ObjectPlace, OptionName
  <2> QED  BY <1>2, <1>3, <1>7, <2>1, LeafCons
<1>8. CASE j = 4
  <2>1. ObjectPlace(o, 4, w) = Leaf("value", o.attribute) \o ObjectPlace(o, 5, w)
    BY DEF ObjectPlace, OptionValue
  <2>2. ObjectPlace(o, 5, w) \in Seq(Tags)
    BY <1>2
  <2>3. Leaf("value", o.attribute) \o ObjectPlace(o, 5, w) # <<>>
    BY <1>1, <1>3, <2>2, LeafCons
  <2> QED  BY <1>8, <2>1, <2>3
<1>9. CASE j = 5
  <2>1. ObjectPlace(o, 5, w) = Tag("end", "option") \o ObjectPlace(o, 6, w)
    BY DEF ObjectPlace, OptionEnd
  <2> QED  BY <1>2, <1>3, <1>9, <2>1, TagCons
<1> QED  BY <1>4, <1>5, <1>6, <1>7, <1>8, <1>9

\* Within a message there is something to be read, and the parser is in an element.
LEMMA PositionOpen ==
  ASSUME NEW m, WellFormed(m), Position(m)
  PROVE  wire # <<>> /\ states # <<"top">>
<1>1. m.signal \in Names
  BY MessageFacts
<1>2. "top" \notin Names /\ Head(<<"top">>) = "top"
  BY NameFacts
<1>3. CASE AtStart(m)
  <2>1. ObjectRest(m) = Rest(m, "signal", 0) /\ Rest(m, "signal", 0) \in Seq(Tags)
    BY SignalWire DEF Rest
  <2>2. wire # <<>>
    BY <1>1, <1>3, <2>1, TagCons DEF AtStart
  <2>3. states # <<"top">>
    BY <1>1, <1>3, StatesFacts DEF AtStart
  <2> QED  BY <2>2, <2>3
<1>4. ASSUME NEW p \in Places, AtPlace(m, p[1], p[2])
      PROVE  wire # <<>> /\ states # <<"top">>
  <2>1. <<p[1], p[2]>> \in Places /\ p[1] \in {"signal"} \cup Holders
    BY DEF Places
  <2>2. /\ p[1] \in Holders => ~Absent(m, p[1])
        /\ wire = Rest(m, p[1], p[2]) /\ states = StatesAt(m, p[1])
    BY <1>4 DEF AtPlace, Control
  <2>3. wire # <<>>
    BY <2>1, <2>2, RestLeft
  <2>4. Head(states) = IF p[1] = "signal" THEN m.signal ELSE p[1]
    BY <1>1, <2>1, <2>2, StatesFacts
  <2>5. Head(states) \in Names
    BY <1>1, <2>1, <2>4, NameFacts
  <2> QED  BY <1>2, <2>3, <2>5
<1>5. ASSUME NEW p \in ObjectPlaces, NEW j \in 1 .. 6, InObject(m, p[1], p[2], j)
      PROVE  wire # <<>> /\ states # <<"top">>
  <2> DEFINE h == p[1]
             i == p[2]
             o == ObjectAt(m, h, i)
  <2>1. <<h, i>> \in ObjectPlaces
    BY DEF ObjectPlaces
  <2>2. /\ h \in Holders => ~Absent(m, h)
        /\ wire = ObjectPlace(o, j, Rest(m, h, i + 1)) /\ o # None
    BY <1>5 DEF InObject, Control
  <2>3. /\ (h = "signal" /\ i = 0) \/ (h \in Holders /\ i \in 1 .. 5 /\ h # "signal")
        /\ o \in Objects /\ o.kind \in Kinds
    BY <2>1, <2>2, NextObject
  <2>4. Rest(m, h, i + 1) \in Seq(Tags)
    <3>1. <<h, i + 1>> \in Places
      BY <2>3 DEF Places
    <3> QED  BY <2>2, <3>1, RestLeft
  <2>5. Written(o)
    BY <2>3 DEF Written
  <2>a. \/ states = ObjectStates(m, h, o.kind)
        \/ states = <<"option">> \o ObjectStates(m, h, o.kind)
    BY <1>5 DEF InObject
  <2> HIDE DEF h, i, o
  <2>6. wire # <<>>
    BY <2>2, <2>4, <2>5, ObjectLeft
  <2>7. /\ Head(ObjectStates(m, h, o.kind)) = o.kind
        /\ Head(<<"option">> \o ObjectStates(m, h, o.kind)) = "option"
    BY <1>1, <2>3, ObjectStatesFacts
  <2>8. o.kind \in Names /\ "option" \in Names
    BY <2>3, NameFacts DEF Names
  <2>9. Head(states) \in Names
    BY <2>a, <2>7, <2>8
  <2> QED  BY <1>2, <2>6, <2>9
<1> QED  BY <1>3, <1>4, <1>5 DEF Position

-----------------------------------------------------------------------------
\* The invariant holds initially.

LEMMA NoTags == <<>> \in Seq(Tags) /\ <<>> \in Seq(Cells) /\ \A S : <<>> \in Seq(S)
BY EmptySeq

\* A message without objects.
LEMMA PlainMessages == \A signal : TestsOnly(Message(signal))
<1>1. SUFFICES ASSUME NEW signal, NEW o \in ObjectsOf(Message(signal))
               PROVE  o.attribute = "none"
  BY DEF TestsOnly, Stray
<1>2. o = None
  BY DEF ObjectsOf, Message, NoContext, NoResult, Slots
<1> QED  BY <1>2 DEF None

LEMMA InitInv == Init => Inv
<1> SUFFICES ASSUME Init PROVE Inv
  OBVIOUS
<1>1. /\ wire = <<>> /\ heap = <<>> /\ result = 0 /\ element = NoElement
      /\ sent = [n |-> 0, last |-> Message("none"), stray |-> FALSE]
      /\ relayed = [n |-> 0, last |-> Message("none"), completions |-> 0,
                    critical |-> FALSE]
      /\ done = [c \in Cases \cup {"suite"} |-> 0] /\ alive = TRUE /\ reader = "reading"
      /\ states = <<"top">> /\ outcome \in [Cases -> Results]
      /\ stacks = [s \in Slots \cup {"context"} |-> <<>>]
      /\ option = [name |-> "none", value |-> "none"]
      /\ completeSuccess = "true" /\ streamSuccess = "true"
  BY DEF Init
<1>2. Len(heap) = 0
  BY <1>1
<1>3. ParserTyped
  <2>1. heap \in Seq(Cells)
    BY <1>1, NoTags
  <2>2. stacks \in [Slots \cup {"context"} -> Seq(1 .. Len(heap))]
    <3>1. <<>> \in Seq(1 .. Len(heap))
      BY NoTags
    <3> DEFINE e == <<>>
    <3>2. stacks = [s \in Slots \cup {"context"} |-> e] /\ e \in Seq(1 .. Len(heap))
      BY <1>1, <3>1
    <3> HIDE DEF e
    <3> QED  BY <3>2
  <2>3. element \in Records(heap) /\ result \in 0 .. Len(heap)
    BY <1>1, <1>2 DEF NoElement, Records
  <2>4. option \in [name : Texts, value : Texts]
    BY <1>1 DEF Texts
  <2> QED  BY <1>1, <2>1, <2>2, <2>3, <2>4 DEF ParserTyped
<1>4. Typed
  <2>1. wire \in Seq(Tags)
    BY <1>1, NoTags
  <2>2. states \in Seq(Names \cup {"top"}) /\ states # <<>>
    BY <1>1
  <2>3. done \in [Cases \cup {"suite"} -> Nat]
    BY <1>1
  <2>4. sent.n \in Nat /\ relayed.n \in Nat /\ relayed.completions \in Nat
        /\ relayed.critical \in BOOLEAN
    BY <1>1
  <2>5. TestsOnly(sent.last)
    BY <1>1, PlainMessages
  <2> QED  BY <1>1, <1>3, <2>1, <2>2, <2>3, <2>4, <2>5 DEF Typed
<1>5. done["suite"] = 0 /\ relayed.n = sent.n /\ relayed.last = sent.last /\ relayed.n = 0
      /\ relayed.completions = 0 /\ relayed.critical = FALSE
  BY <1>1
<1>6. relayed.last.signal # "complete-run"
  <2>1. relayed.last = Message("none")
    BY <1>1
  <2> QED  BY <2>1 DEF Message
<1>7. Between
  BY <1>1, <1>5 DEF Between
<1>8. Running
  BY <1>1, <1>5, <1>6, <1>7 DEF Running, Open
<1> QED  BY <1>4, <1>5, <1>8 DEF Inv

-----------------------------------------------------------------------------
\* The child writes a message.

LEMMA WireWritten ==
  /\ \A m : WellFormed(m) => /\ XML(m) = Tag("start", m.signal) \o ObjectRest(m)
                             /\ XML(m) \in Seq(Tags)
  /\ XML(Message("start-run")) = Tag("start", "stream")
  /\ Tag("start", "stream") \in Seq(Tags)
  /\ \A b \in {"true", "false"} :
       /\ XML(Finale(b)) = Leaf("success", b) \o Tag("end", "stream")
       /\ XML(Finale(b)) \in Seq(Tags)
<1>1. "stream" \in Names /\ "success" \in Names
  BY DEF Names
<1>2. /\ Tag("start", "stream") \in Seq(Tags) /\ Tag("end", "stream") \in Seq(Tags)
  BY <1>1, NoTags, TagCons
<1>3. ASSUME NEW m, WellFormed(m)
      PROVE  XML(m) = Tag("start", m.signal) \o ObjectRest(m) /\ XML(m) \in Seq(Tags)
  <2>1. XML(m) = Tag("start", m.signal) \o Rest(m, "signal", 0)
        /\ Rest(m, "signal", 0) \in Seq(Tags) /\ m.signal \in Names
    BY <1>3, SignalWire, MessageFacts
  <2>2. Rest(m, "signal", 0) = ObjectRest(m)
    BY DEF Rest
  <2> QED  BY <2>1, <2>2, TagCons
<1>4. XML(Message("start-run")) = Tag("start", "stream")
  <2>1. Message("start-run").signal = "start-run"
    BY DEF Message
  <2> QED  BY <2>1 DEF XML
<1>5. ASSUME NEW b \in {"true", "false"}
      PROVE  /\ XML(Finale(b)) = Leaf("success", b) \o Tag("end", "stream")
             /\ XML(Finale(b)) \in Seq(Tags)
  <2>1. Finale(b).signal = "complete-run" /\ Finale(b).success = b
    BY DEF Message, Finale
  <2>2. XML(Finale(b)) = SuccessXML(b) \o Tag("end", "stream")
    BY <2>1 DEF XML
  <2>3. SuccessXML(b) = Leaf("success", b) /\ b \in Texts
    BY DEF SuccessXML, Texts
  <2> QED  BY <1>1, <1>2, <2>2, <2>3, LeafCons
<1> QED  BY <1>2, <1>3, <1>4, <1>5

LEMMA FinaleParts ==
  ASSUME NEW b
  PROVE  Finale(b).signal = "complete-run" /\ Finale(b).success = b
BY DEF Message, Finale

\* What holds when a message is written.
LEMMA FlowFacts ==
  ASSUME Inv, NEW m, Flow(m), XML(m) \in Seq(Tags), done' \in [Cases \cup {"suite"} -> Nat]
  PROVE  /\ Typed' /\ alive' /\ sent'.n = sent.n + 1 /\ sent'.last = m /\ wire' = XML(m)
         /\ sent.stray => sent'.stray
         /\ UNCHANGED <<outcome, reader, parser, relayed>>
         /\ alive /\ wire = <<>>
<1>1. /\ alive /\ wire = <<>> /\ wire' = XML(m) /\ alive' = alive
      /\ sent' = [n |-> sent.n + 1, last |-> m, stray |-> sent.stray \/ Stray(m)]
      /\ UNCHANGED <<outcome, reader, parser, relayed>>
  BY DEF Flow
<1>2. Typed
  BY DEF Inv
<1>3. /\ sent'.n = sent.n + 1 /\ sent'.last = m /\ sent'.n \in Nat
      /\ sent.stray => sent'.stray
      /\ ~sent'.stray => TestsOnly(sent'.last)
  <2>1. sent.n \in Nat
    BY <1>2 DEF Typed
  <2>2. sent'.stray <=> (sent.stray \/ Stray(m))
    BY <1>1
  <2> QED  BY <1>1, <2>1, <2>2 DEF TestsOnly
<1>4. Typed'
  <2>1. ParserTyped'
    BY <1>1, <1>2 DEF Typed, ParserTyped, parser, Records
  <2> QED  BY <1>1, <1>2, <1>3, <2>1 DEF Typed, parser
<1> QED  BY <1>1, <1>3, <1>4

LEMMA Writable ==
  ASSUME Inv, alive, wire = <<>>, done["suite"] # 5
  PROVE  \/ Running /\ Between
         \/ reader = "undefined" /\ sent.stray /\ Open
<1>1. ~Finished /\ ~Broken
  BY DEF Finished, Broken
<1>2. CASE Running
  <2>1. ~InMessage
    BY PositionOpen DEF InMessage
  <2>2. ~InStart
    <3>1. InStart => wire # <<>>
      <4>1. "stream" \in Names
        BY DEF Names
      <4> QED  BY <4>1 DEF InStart, Tag
    <3> QED  BY <3>1
  <2>3. ~InFinale
    BY DEF InFinale
  <2> QED  BY <1>2, <2>1, <2>2, <2>3 DEF Running
<1> QED  BY <1>1, <1>2 DEF Inv

LEMMA OutcomeKept ==
  ASSUME outcome' = outcome
  PROVE  /\ \A m : WellFormed(m) => WellFormed(m)'
         /\ AllPass' = AllPass
         /\ (\A c \in Cases : done'[c] = done[c]) => (CasesAreDone => CasesAreDone')
BY DEF WellFormed, AllPass, CasesAreDone

\* A message on its way.
LEMMA InMessageNext ==
  ASSUME NEW m, sent'.last = m, WellFormed(m)', Position(m)', done'["suite"] \in 2 .. 4,
         relayed'.n > 0, relayed'.n + 1 = sent'.n
  PROVE  InMessage'
BY DEF InMessage

LEMMA MessageWritten ==
  ASSUME Inv, NEW m, WellFormed(m), Flow(m), done' \in [Cases \cup {"suite"} -> Nat],
         done["suite"] \in 1 .. 3, done'["suite"] \in 2 .. 4,
         done'["suite"] > 3 => CasesAreDone'
  PROVE  Inv'
<1>1. XML(m) = Tag("start", m.signal) \o ObjectRest(m) /\ XML(m) \in Seq(Tags)
  BY WireWritten
<1>2. /\ Typed' /\ alive' /\ sent'.n = sent.n + 1 /\ sent'.last = m /\ wire' = XML(m)
      /\ outcome' = outcome /\ reader' = reader /\ relayed' = relayed /\ states' = states
      /\ result' = result /\ alive /\ wire = <<>>
      /\ sent.stray => sent'.stray
  BY <1>1, FlowFacts DEF parser
<1>3. done["suite"] # 5 /\ done["suite"] # 0
  OBVIOUS
<1>4. ~sent'.stray /\ relayed'.critical => \E c \in Cases : ~Passes(outcome'[c])
  BY <1>2 DEF Inv
<1>5. CASE Running /\ Between
  <2>1. /\ relayed.n = sent.n /\ result = 0 /\ states = StreamStates /\ relayed.n # 0
        /\ reader = "reading" /\ Open
    BY <1>3, <1>5 DEF Between, Running
  <2>2. AtStart(m)'
    BY <1>1, <1>2, <2>1 DEF AtStart
  <2>3. Position(m)'
    BY <2>2 DEF Position
  <2>4. WellFormed(m)'
    BY <1>2, OutcomeKept
  <2>5. relayed'.n > 0 /\ relayed'.n + 1 = sent'.n
    <3>1. relayed.n \in Nat
      BY DEF Inv, Typed
    <3> QED  BY <1>2, <2>1, <3>1
  <2>6. InMessage'
    BY <1>2, <2>3, <2>4, <2>5, InMessageNext
  <2>7. Running'
    BY <1>2, <2>1, <2>6 DEF Running, Open
  <2> QED  BY <1>2, <1>4, <2>7 DEF Inv
<1>6. CASE reader = "undefined" /\ sent.stray /\ Open
  <2>1. reader' = "undefined" /\ sent'.stray /\ Open'
    BY <1>2, <1>6 DEF Open
  <2> QED  BY <1>2, <1>4, <1>6, <2>1 DEF Inv
<1> QED  BY <1>2, <1>3, <1>5, <1>6, Writable

LEMMA WriteCaseStep ==
  ASSUME Inv, NEW c \in Cases, WriteCase(c)
  PROVE  Inv'
<1> DEFINE script == CaseScript(c, outcome[c])
           m == script[done[c] + 1]
<1>1. Typed
  BY DEF Inv
<1>2. outcome[c] \in Results /\ done[c] \in Nat
  BY <1>1 DEF Typed
<1>3. /\ done["suite"] = 3 /\ done[c] < Len(script) /\ Flow(m)
      /\ done' = [done EXCEPT ![c] = @ + 1]
  BY SuiteScript DEF WriteCase
<1>4. script \in Seq(WellFormeds)
  BY <1>2, CaseScriptWritten
<1>5. WellFormed(m)
  <2> HIDE DEF script
  <2>1. Len(script) \in Nat
    BY <1>4
  <2>2. done[c] + 1 \in 1 .. Len(script)
    BY <1>2, <1>3, <2>1
  <2>3. m \in WellFormeds
    BY <1>4, <2>2, ElementOfSeq
  <2> QED  BY <2>3 DEF WellFormeds
<1>6. /\ done' \in [Cases \cup {"suite"} -> Nat] /\ done'["suite"] = 3
  BY <1>1, <1>2, <1>3, CasesAssumption DEF Typed
<1> HIDE DEF m
<1>7. PICK x : x = m
  OBVIOUS
<1> QED  BY <1>3, <1>5, <1>6, <1>7, MessageWritten

LEMMA WriteSuiteStep ==
  ASSUME Inv, WriteSuite
  PROVE  Inv'
<1> DEFINE script == Opening \o Closing
           k == done["suite"] + 1
<1>1. Typed
  BY DEF Inv
<1>2. /\ k <= 5
      /\ k > 3 => CasesAreDone
      /\ Flow(script[k]) /\ done' = [done EXCEPT !["suite"] = k]
  BY SuiteScript DEF WriteSuite
<1>3. done["suite"] \in Nat /\ k \in 1 .. 5
  <2>1. done["suite"] \in Nat
    BY <1>1 DEF Typed
  <2> QED  BY <1>2, <2>1
<1>4. /\ done' \in [Cases \cup {"suite"} -> Nat] /\ done'["suite"] = k
      /\ \A c \in Cases : done'[c] = done[c]
  BY <1>1, <1>2, <1>3, CasesAssumption DEF Typed
<1>5. done["suite"] # 5 /\ outcome' = outcome
  BY <1>2, <1>3 DEF Flow
<1>6. done'["suite"] > 3 => CasesAreDone'
  <2>1. done'["suite"] > 3 => CasesAreDone
    BY <1>2, <1>4
  <2> QED  BY <1>4, <1>5, <2>1, OutcomeKept
<1>7. ASSUME sent.stray => sent'.stray, relayed' = relayed
      PROVE  ~sent'.stray /\ relayed'.critical => \E c \in Cases : ~Passes(outcome'[c])
  BY <1>5, <1>7 DEF Inv
<1>8. CASE k \in 2 .. 4
  <2>1. WellFormed(script[k])
    BY <1>8, SuiteScript
  <2>2. done["suite"] \in 1 .. 3 /\ done'["suite"] \in 2 .. 4
    BY <1>3, <1>4, <1>8
  <2> HIDE DEF script, k
  <2>3. PICK m : m = script[k]
    OBVIOUS
  <2>4. WellFormed(m) /\ Flow(m)
    BY <1>2, <2>1, <2>3
  <2> QED  BY <1>4, <1>6, <2>2, <2>4, MessageWritten
<1>9. CASE k = 1
  <2>1. Flow(Message("start-run")) /\ XML(Message("start-run")) = Tag("start", "stream")
        /\ Tag("start", "stream") \in Seq(Tags)
    BY <1>2, <1>9, SuiteScript, WireWritten
  <2>2. /\ Typed' /\ alive' /\ sent'.n = sent.n + 1 /\ sent'.last = Message("start-run")
        /\ wire' = Tag("start", "stream")
        /\ reader' = reader /\ relayed' = relayed /\ states' = states
        /\ result' = result /\ alive /\ wire = <<>>
        /\ sent.stray => sent'.stray
    <3>1. PICK m : m = Message("start-run")
      OBVIOUS
    <3> QED  BY <1>4, <2>1, <3>1, FlowFacts DEF parser
  <2>3. done["suite"] = 0 /\ done'["suite"] = 1
    BY <1>3, <1>4, <1>9
  <2>4. CASE Running /\ Between
    <3>1. InStart'
      BY <2>2, <2>3, <2>4 DEF InStart, Between
    <3>2. Running'
      BY <2>2, <2>4, <3>1 DEF Running, Open
    <3> QED  BY <1>6, <1>7, <2>2, <3>2 DEF Inv
  <2>5. CASE reader = "undefined" /\ sent.stray /\ Open
    <3>1. reader' = "undefined" /\ sent'.stray /\ Open'
      BY <2>2, <2>5 DEF Open
    <3> QED  BY <1>6, <1>7, <2>2, <3>1 DEF Inv
  <2> QED  BY <1>5, <2>2, <2>4, <2>5, Writable
<1>10. CASE k = 5
  <2>0. AllPass \in {"true", "false"}
    BY Flags DEF AllPass
  <2>1. /\ Flow(Finale(AllPass))
        /\ XML(Finale(AllPass)) = Leaf("success", AllPass) \o Tag("end", "stream")
        /\ XML(Finale(AllPass)) \in Seq(Tags)
    BY <1>2, <1>10, <2>0, SuiteScript, WireWritten
  <2>2. PICK m : m = Finale(AllPass)
    OBVIOUS
  <2>3. /\ Typed' /\ alive' /\ sent'.n = sent.n + 1 /\ sent'.last = Finale(AllPass)
        /\ wire' = Leaf("success", AllPass) \o Tag("end", "stream")
        /\ reader' = reader /\ relayed' = relayed /\ states' = states
        /\ result' = result /\ alive /\ wire = <<>>
        /\ sent.stray => sent'.stray
    <3>1. Flow(m) /\ XML(m) \in Seq(Tags)
      BY <2>1, <2>2
    <3> QED  BY <1>4, <2>1, <2>2, <3>1, FlowFacts DEF parser
  <2>4. done["suite"] = 4 /\ done'["suite"] = 5 /\ AllPass' = AllPass
        /\ Finale(AllPass)' = Finale(AllPass)
    <3>1. AllPass' = AllPass
      BY <1>5, OutcomeKept
    <3> QED  BY <1>3, <1>4, <1>10, <3>1
  <2>5. CASE Running /\ Between
    <3>1. relayed.n \in Nat
      BY <1>1 DEF Typed
    <3>2. relayed.n = sent.n /\ relayed.n # 0 /\ result = 0 /\ states = StreamStates
      BY <2>4, <2>5 DEF Between
    <3>3. relayed'.n > 0 /\ relayed'.n + 1 = sent'.n
      BY <2>3, <3>1, <3>2
    <3>4. CasesAreDone'
      BY <1>6, <2>4
    <3>5. InFinale'
      BY <2>3, <2>4, <3>2, <3>3, <3>4 DEF InFinale
    <3>6. Running'
      BY <2>3, <2>5, <3>5 DEF Running, Open
    <3> QED  BY <1>6, <1>7, <2>3, <3>6 DEF Inv
  <2>6. CASE reader = "undefined" /\ sent.stray /\ Open
    <3>1. reader' = "undefined" /\ sent'.stray /\ Open'
      BY <2>3, <2>6 DEF Open
    <3> QED  BY <1>6, <1>7, <2>3, <3>1 DEF Inv
  <2> QED  BY <1>5, <2>3, <2>5, <2>6, Writable
<1> QED  BY <1>3, <1>8, <1>9, <1>10

LEMMA ExitStep ==
  ASSUME Inv, Exit
  PROVE  Inv'
<1>1. /\ alive /\ ~alive' /\ wire' = <<>> /\ alive' \in BOOLEAN
      /\ UNCHANGED <<done, outcome, sent, reader, states, heap, stacks, element, result,
                     option, completeSuccess, streamSuccess, relayed>>
  BY DEF Exit, parser
<1>2. Typed'
  <2>1. Typed /\ wire' \in Seq(Tags)
    BY <1>1, NoTags DEF Inv
  <2> QED  BY <1>1, <2>1 DEF Typed, ParserTyped, Records
<1>3. /\ done'["suite"] > 3 => CasesAreDone'
      /\ ~sent'.stray /\ relayed'.critical => \E c \in Cases : ~Passes(outcome'[c])
  BY <1>1, OutcomeKept DEF Inv
<1>4. CASE Running
  <2>1. states = <<"top">> => relayed.n = 0
    <3>1. ~InMessage \/ states # <<"top">>
      BY PositionOpen DEF InMessage
    <3>2. Between \/ InMessage \/ InStart \/ InFinale
      BY <1>1, <1>4 DEF Running
    <3>3. <<"top">> # StreamStates
      <4>1. Message("start-run").signal = "start-run"
        BY DEF Message
      <4> DEFINE m == [signal |-> "start-test"]
      <4>2. m.signal \in Names
        BY DEF Names, Signals
      <4> QED  BY <4>2, StatesFacts
    <3> QED  BY <3>1, <3>2, <3>3 DEF Between, InStart, InFinale
  <2>2. Running'
    BY <1>1, <1>4, <2>1 DEF Running, Open
  <2> QED  BY <1>2, <1>3, <2>2 DEF Inv
<1>5. CASE Finished
  <2>1. Finished'
    BY <1>1, <1>5, OutcomeKept DEF Finished
  <2> QED  BY <1>2, <1>3, <2>1 DEF Inv
<1>6. ~Broken
  BY <1>1 DEF Broken
<1>7. CASE reader = "undefined" /\ sent.stray /\ Open
  <2>1. reader' = "undefined" /\ sent'.stray /\ Open'
    BY <1>1, <1>7 DEF Open
  <2> QED  BY <1>2, <1>3, <2>1 DEF Inv
<1> QED  BY <1>4, <1>5, <1>6, <1>7 DEF Inv

\* CompleteRun, in its parts.
LEMMA CompleteRunFacts ==
  ASSUME Typed, NEW b \in {"true", "false"}, CompleteRun(b)
  PROVE  /\ relayed'.n = relayed.n + 1 /\ relayed'.n \in Nat
         /\ relayed'.last = Finale(IF relayed.critical THEN "false" ELSE b)
         /\ relayed'.completions = relayed.completions + 1 /\ relayed'.completions \in Nat
         /\ relayed'.critical = relayed.critical /\ relayed'.critical \in BOOLEAN
<1> DEFINE e == Finale(IF relayed.critical THEN "false" ELSE b)
<1>1. relayed.n \in Nat /\ relayed.completions \in Nat /\ relayed.critical \in BOOLEAN
  BY DEF Typed
<1>2. e.signal = "complete-run"
  BY FinaleParts
<1>3. Emit(e)
  BY DEF CompleteRun, Finale
<1> HIDE DEF e
<1>4. /\ relayed'.n = relayed.n + 1 /\ relayed'.last = e
      /\ relayed'.completions = relayed.completions + 1
      /\ relayed'.critical = (relayed.critical \/ FALSE)
  BY <1>2, <1>3 DEF Emit
<1> QED  BY <1>1, <1>4 DEF e

LEMMA EndReadStep ==
  ASSUME Inv, EndRead
  PROVE  Inv'
<1>1. /\ reader = "reading" /\ ~alive /\ wire = <<>> /\ Typed
      /\ UNCHANGED <<alive, done, outcome, sent, wire, states, heap, stacks, element, result,
                     option, completeSuccess, streamSuccess>>
  BY DEF EndRead, child, parser, Inv
<1>2. done'["suite"] > 3 => CasesAreDone'
  BY <1>1, OutcomeKept DEF Inv
<1>3. CASE Running
  <2>1. reader' = "error" /\ CompleteRun("false")
    <3>1. ~(states = <<"top">> /\ relayed.n > 0)
      BY <1>1, <1>3 DEF Running
    <3> QED  BY <3>1 DEF EndRead
  <2>2. /\ relayed'.n \in Nat /\ relayed'.last = Finale("false")
        /\ relayed'.completions = relayed.completions + 1 /\ relayed'.completions \in Nat
        /\ relayed'.critical = relayed.critical /\ relayed'.critical \in BOOLEAN
    <3>1. "false" \in {"true", "false"}
      OBVIOUS
    <3>2. (IF relayed.critical THEN "false" ELSE "false") = "false"
      OBVIOUS
    <3> QED  BY <1>1, <2>1, <3>1, <3>2, CompleteRunFacts
  <2>3. relayed.completions = 0
    BY <1>3 DEF Running, Open
  <2>4. Typed'
    BY <1>1, <2>1, <2>2 DEF Typed, ParserTyped, Records
  <2>5. Broken'
    BY <1>1, <2>1, <2>2, <2>3 DEF Broken
  <2>6. ~sent'.stray /\ relayed'.critical => \E c \in Cases : ~Passes(outcome'[c])
    BY <1>1, <2>2 DEF Inv
  <2> QED  BY <1>2, <2>4, <2>5, <2>6 DEF Inv
<1>4. CASE Finished
  <2>1. reader' = "ended" /\ UNCHANGED relayed
    BY <1>4 DEF EndRead, Finished
  <2>2. Typed'
    BY <1>1, <2>1 DEF Typed, ParserTyped, Records
  <2>3. CasesAreDone'
    BY <1>1, <1>4, OutcomeKept DEF Finished
  <2>4. Finished'
    BY <1>1, <1>4, <2>1, <2>3 DEF Finished
  <2>5. ~sent'.stray /\ relayed'.critical => \E c \in Cases : ~Passes(outcome'[c])
    BY <1>1, <2>1 DEF Inv
  <2> QED  BY <1>2, <2>2, <2>4, <2>5 DEF Inv
<1> QED  BY <1>1, <1>3, <1>4 DEF Inv, Broken

-----------------------------------------------------------------------------
\* The parser reads a tag.

\* What a tag leaves as it is.
LEMMA ParseFacts ==
  ASSUME Inv, UNCHANGED child, wire' \in Seq(Tags), ParserTyped',
         states' \in Seq(Names \cup {"top"}), states' # <<>>,
         reader' \in {"reading", "ended", "error", "undefined"}, relayed'.n \in Nat,
         relayed'.completions \in Nat, relayed'.critical \in BOOLEAN
  PROVE  /\ Typed' /\ (done'["suite"] > 3 => CasesAreDone')
         /\ alive' = alive /\ done' = done /\ outcome' = outcome /\ sent' = sent
<1>1. Typed /\ (done["suite"] > 3 => CasesAreDone)
  BY DEF Inv
<1>2. alive' = alive /\ done' = done /\ outcome' = outcome /\ sent' = sent
  BY DEF child
<1>3. Typed'
  BY <1>1, <1>2 DEF Typed
<1> QED  BY <1>1, <1>2, <1>3, OutcomeKept

LEMMA MessageStep ==
  ASSUME NEW m, Reads(m), Position(m)
  PROVE  Goes(m) \/ Ends(m) \/ Fails(m)
<1>1. CASE AtStart(m)
  BY <1>1, SignalStep
<1>2. ASSUME NEW p \in Places, AtPlace(m, p[1], p[2])
      PROVE  Goes(m) \/ Ends(m) \/ Fails(m)
  <2>1. <<p[1], p[2]>> \in Places
    BY DEF Places
  <2> QED  BY <1>2, <2>1, PlaceStep, EndStep
<1>3. ASSUME NEW p \in ObjectPlaces, NEW j \in 1 .. 6, InObject(m, p[1], p[2], j)
      PROVE  Goes(m) \/ Ends(m) \/ Fails(m)
  <2>1. <<p[1], p[2]>> \in ObjectPlaces
    BY DEF ObjectPlaces
  <2> QED  BY <1>3, <2>1, InObjectStep
<1> QED  BY <1>1, <1>2, <1>3 DEF Position

LEMMA ParseMessage ==
  ASSUME Inv, Running, alive, InMessage, Parse
  PROVE  Inv'
<1>1. PICK m : m = sent.last
  OBVIOUS
<1>2. /\ WellFormed(m) /\ Position(m) /\ done["suite"] \in 2 .. 4
      /\ relayed.n > 0 /\ relayed.n + 1 = sent.n
  BY <1>1 DEF InMessage
<1>3. /\ Typed /\ Open /\ reader = "reading"
      /\ ~sent.stray /\ relayed.critical => \E c \in Cases : ~Passes(outcome[c])
  BY DEF Inv, Running
<1>4. /\ relayed.n \in Nat /\ relayed.completions \in Nat /\ relayed.critical \in BOOLEAN
  BY <1>3 DEF Typed
<1>5. m.signal # "complete-run"
  BY <1>2, MessageFacts DEF Signals
<1>6. Goes(m) \/ Ends(m) \/ Fails(m)
  BY <1>2, <1>3, MessageStep DEF Reads
<1>a. ~sent.stray => TestsOnly(m)
  BY <1>1, <1>3 DEF Typed
<1>7. CASE Goes(m)
  <2>1. /\ UNCHANGED child /\ relayed' = relayed /\ reader' = reader /\ Position(m)'
        /\ wire' \in Seq(Tags) /\ states' \in Seq(Names \cup {"top"}) /\ states' # <<>>
        /\ ParserTyped'
    BY <1>7 DEF Goes
  <2>2. /\ Typed' /\ (done'["suite"] > 3 => CasesAreDone')
        /\ alive' = alive /\ done' = done /\ outcome' = outcome /\ sent' = sent
    BY <1>3, <1>4, <2>1, ParseFacts
  <2>3. WellFormed(m)'
    BY <1>2, <2>2, OutcomeKept
  <2>4. InMessage'
    <3>1. sent'.last = m /\ done'["suite"] \in 2 .. 4 /\ relayed'.n > 0
          /\ relayed'.n + 1 = sent'.n
      BY <1>1, <1>2, <2>1, <2>2
    <3> QED  BY <2>1, <2>3, <3>1, InMessageNext
  <2>5. Running'
    BY <1>3, <2>1, <2>2, <2>4 DEF Running, Open
  <2>6. ~sent'.stray /\ relayed'.critical => \E c \in Cases : ~Passes(outcome'[c])
    BY <1>3, <2>1, <2>2
  <2> QED  BY <2>2, <2>5, <2>6 DEF Inv
<1>8. CASE Ends(m)
  <2>1. /\ wire' = <<>> /\ states' = StreamStates /\ ParserTyped' /\ result' = 0
        /\ UNCHANGED child /\ reader' = reader
        /\ relayed'.n = relayed.n + 1 /\ relayed'.completions = relayed.completions
        /\ relayed'.last.signal = m.signal /\ relayed'.critical \in BOOLEAN
        /\ TestsOnly(m) => /\ relayed'.last = m
                           /\ relayed'.critical =>
                                relayed.critical \/ \E c \in Cases : ~Passes(outcome[c])
    BY <1>8 DEF Ends
  <2>2. wire' \in Seq(Tags) /\ states' \in Seq(Names \cup {"top"}) /\ states' # <<>>
    <3>1. m.signal \in Names
      BY <1>2, MessageFacts
    <3>2. StreamStates \in Seq(Names \cup {"top"}) /\ StreamStates # <<>>
      BY <3>1, StatesFacts
    <3>3. wire' \in Seq(Tags)
      BY <2>1, NoTags
    <3> QED  BY <2>1, <3>2, <3>3
  <2>3. relayed'.n \in Nat /\ relayed'.completions \in Nat
    BY <1>4, <2>1
  <2>4. /\ Typed' /\ (done'["suite"] > 3 => CasesAreDone')
        /\ alive' = alive /\ done' = done /\ outcome' = outcome /\ sent' = sent
    BY <1>3, <2>1, <2>2, <2>3, ParseFacts
  <2>5. Between'
    <3>1. done'["suite"] < 5 /\ done'["suite"] # 0 /\ relayed'.n # 0 /\ relayed'.n = sent'.n
      BY <1>2, <1>4, <2>1, <2>4
    <3>2. ~sent'.stray => relayed'.last = sent'.last
      BY <1>1, <1>a, <2>1, <2>4
    <3> QED  BY <2>1, <3>1, <3>2 DEF Between
  <2>6. Open'
    BY <1>3, <1>5, <2>1 DEF Open
  <2>7. Running'
    BY <1>3, <2>1, <2>4, <2>5, <2>6 DEF Running
  <2>8. ~sent'.stray /\ relayed'.critical => \E c \in Cases : ~Passes(outcome'[c])
    BY <1>3, <1>a, <2>1, <2>4
  <2> QED  BY <2>4, <2>7, <2>8 DEF Inv
<1>9. CASE Fails(m)
  <2>1. /\ wire' \in Seq(Tags) /\ states' \in Seq(Names \cup {"top"}) /\ states' # <<>>
        /\ ParserTyped' /\ reader' = "undefined" /\ sent'.stray
        /\ UNCHANGED child /\ relayed' = relayed
    BY <1>9, <1>a DEF Fails, child
  <2>2. Typed' /\ (done'["suite"] > 3 => CasesAreDone')
    BY <1>3, <1>4, <2>1, ParseFacts
  <2>3. Open'
    BY <1>3, <2>1 DEF Open
  <2> QED  BY <2>1, <2>2, <2>3 DEF Inv
<1> QED  BY <1>6, <1>7, <1>8, <1>9

\* <stream>
LEMMA ParseStream ==
  ASSUME Inv, Running, alive, InStart, Parse
  PROVE  Inv'
<1>1. /\ Typed /\ Open /\ reader = "reading" /\ done["suite"] = 1 /\ relayed.n = 0
      /\ sent.n = 1 /\ result = 0 /\ sent.last = Message("start-run") /\ states = <<"top">>
      /\ wire = Tag("start", "stream")
      /\ ~sent.stray /\ relayed.critical => \E c \in Cases : ~Passes(outcome[c])
  BY DEF Inv, Running, InStart
<1>2. "stream" \in Names /\ Head(<<"top">>) = "top" /\ "stream" \in Accepts("top")
  BY AcceptsFacts DEF Names
<1>3. PICK w : w = <<>>
  OBVIOUS
<1>4. wire = Tag("start", "stream") \o w /\ w \in Seq(Tags)
  <2>1. Tag("start", "stream") \in Seq(Tags)
    BY WireWritten
  <2>2. Tag("start", "stream") \o <<>> = Tag("start", "stream")
    BY <2>1
  <2> QED  BY <1>1, <1>3, <2>2, NoTags
<1>5. StartElement("stream") /\ wire' = w /\ UNCHANGED child
  BY <1>1, <1>2, <1>4, ParseStart
<1>6. /\ states' = <<"stream">> \o states /\ Emit(Message("start-run"))
      /\ UNCHANGED <<heap, stacks, element, result, reader, option, completeSuccess,
                     streamSuccess>>
  <2>1. "stream" \notin Signals /\ "stream" \notin TestObjects
        /\ "stream" \notin {"test-data", "test-context", "result"}
    BY DEF Signals, TestObjects
  <2> QED  BY <1>5, <2>1 DEF StartElement
<1>7. /\ relayed'.n = 1 /\ relayed'.last = Message("start-run")
      /\ relayed'.completions = relayed.completions /\ relayed'.completions \in Nat
      /\ relayed'.critical = relayed.critical /\ relayed'.critical \in BOOLEAN
  <2>1. relayed.completions \in Nat /\ relayed.critical \in BOOLEAN
    BY <1>1 DEF Typed
  <2> DEFINE e == Message("start-run")
  <2>2. e.signal = "start-run"
    BY DEF Message
  <2> HIDE DEF e
  <2>3. Emit(e)
    BY <1>6 DEF e
  <2>4. /\ relayed'.n = relayed.n + 1 /\ relayed'.last = e
        /\ relayed'.completions = relayed.completions + 0
        /\ relayed'.critical = (relayed.critical \/ FALSE)
    BY <2>2, <2>3 DEF Emit
  <2> QED  BY <1>1, <2>1, <2>4 DEF e
<1>8. states' = StreamStates
  BY <1>1, <1>6 DEF StreamStates
<1>9. StreamStates \in Seq(Names \cup {"top"}) /\ StreamStates # <<>>
  <2> DEFINE m == [signal |-> "stream"]
  <2>1. m.signal \in Names
    BY <1>2
  <2> QED  BY <2>1, StatesFacts
<1>10. ParserTyped'
  BY <1>1, <1>6 DEF Typed, ParserTyped, Records
<1>11. /\ Typed' /\ (done'["suite"] > 3 => CasesAreDone')
       /\ alive' = alive /\ done' = done /\ outcome' = outcome /\ sent' = sent
  <2>1. wire' \in Seq(Tags) /\ relayed'.n \in Nat /\ reader' = "reading"
    BY <1>1, <1>4, <1>5, <1>6, <1>7
  <2> QED  BY <1>5, <1>7, <1>8, <1>9, <1>10, <2>1, ParseFacts
<1>12. Between'
  BY <1>1, <1>3, <1>5, <1>6, <1>7, <1>8, <1>11 DEF Between
<1>13. Open'
  <2>1. Message("start-run").signal = "start-run"
    BY DEF Message
  <2> QED  BY <1>1, <1>7, <2>1 DEF Open
<1>14. Running'
  BY <1>1, <1>6, <1>11, <1>12, <1>13 DEF Running
<1> QED  BY <1>1, <1>7, <1>11, <1>14 DEF Inv

\* <success> and </stream>
LEMMA ParseFinale ==
  ASSUME Inv, Running, alive, InFinale, Parse
  PROVE  Inv'
<1>1. /\ Typed /\ Open /\ reader = "reading" /\ done["suite"] = 5 /\ CasesAreDone
      /\ relayed.n > 0 /\ relayed.n + 1 = sent.n /\ result = 0
      /\ sent.last = Finale(AllPass) /\ states = StreamStates
      /\ ~sent.stray /\ relayed.critical => \E c \in Cases : ~Passes(outcome[c])
  BY DEF Inv, Running, InFinale
<1>2. /\ "stream" \in Names /\ "success" \in Names /\ "success" \in Accepts("stream")
      /\ AllPass \in {"true", "false"} /\ AllPass \in Texts
  BY AcceptsFacts, Flags DEF Names, AllPass, Texts
<1>3. /\ <<"top">> \in Seq(Names \cup {"top"}) /\ StreamStates \in Seq(Names \cup {"top"})
      /\ StreamStates # <<>> /\ Head(StreamStates) = "stream"
      /\ Tail(StreamStates) = <<"top">>
  <2> DEFINE m == [signal |-> "stream"]
  <2>1. m.signal \in Names
    BY <1>2
  <2> QED  BY <2>1, StatesFacts
<1>4. Tag("end", "stream") \in Seq(Tags)
  BY <1>2, NoTags, TagCons
<1>5. /\ relayed.n \in Nat /\ relayed.completions \in Nat /\ relayed.critical \in BOOLEAN
  BY <1>1 DEF Typed
<1>6. PICK x : x = AllPass
  OBVIOUS
<1>7. CASE wire = Leaf("success", AllPass) \o Tag("end", "stream")
  <2>1. /\ TextHandler("success", x) /\ wire' = Tag("end", "stream") /\ UNCHANGED child
    BY <1>1, <1>2, <1>3, <1>4, <1>6, <1>7, ParseLeaf
  <2>2. /\ TextSuccess(x) /\ UNCHANGED <<reader, states, stacks, element, result, relayed>>
    BY <2>1 DEF TextHandler
  <2>3. /\ completeSuccess' = completeSuccess /\ streamSuccess' = x
        /\ UNCHANGED <<heap, option>>
    BY <1>1, <1>3, <2>2 DEF TextSuccess
  <2>4. ParserTyped'
    BY <1>1, <1>2, <1>6, <2>2, <2>3 DEF Typed, ParserTyped, Records
  <2>5. /\ Typed' /\ (done'["suite"] > 3 => CasesAreDone')
        /\ alive' = alive /\ done' = done /\ outcome' = outcome /\ sent' = sent
    BY <1>1, <1>3, <1>4, <1>5, <2>1, <2>2, <2>4, ParseFacts
  <2>6. AllPass' = AllPass /\ CasesAreDone'
    BY <1>1, <2>5, OutcomeKept
  <2>7. InFinale'
    BY <1>1, <1>6, <2>1, <2>2, <2>3, <2>5, <2>6 DEF InFinale, Finale
  <2>8. Running'
    BY <1>1, <2>2, <2>5, <2>7 DEF Running, Open
  <2> QED  BY <1>1, <2>2, <2>5, <2>8 DEF Inv
<1>8. CASE wire = Tag("end", "stream") /\ streamSuccess = AllPass
  <2>0. PICK w : w = <<>>
    OBVIOUS
  <2>1. EndElement("stream") /\ wire' = <<>> /\ UNCHANGED child
    <3>1. Tag("end", "stream") \o <<>> = Tag("end", "stream")
      BY <1>4
    <3>2. wire = Tag("end", "stream") \o w /\ w \in Seq(Tags)
      BY <1>8, <2>0, <3>1, NoTags
    <3> QED  BY <1>2, <2>0, <3>2, ParseEnd
  <2>2. /\ EndStream /\ states' = Tail(states)
    <3>1. "stream" \notin Signals /\ "stream" \notin TestObjects
      BY DEF Signals, TestObjects
    <3> QED  BY <2>1, <3>1 DEF EndElement
  <2>3. /\ CompleteRun(x)
        /\ UNCHANGED <<reader, heap, stacks, element, result, option, completeSuccess,
                       streamSuccess>>
    BY <1>6, <1>8, <2>2 DEF EndStream
  <2>4. states' = <<"top">>
    BY <1>1, <1>3, <2>2
  <2> DEFINE b == IF relayed.critical THEN "false" ELSE x
  <2>5. /\ relayed'.n = relayed.n + 1 /\ relayed'.n \in Nat
        /\ relayed'.last = Finale(b)
        /\ relayed'.completions = relayed.completions + 1 /\ relayed'.completions \in Nat
        /\ relayed'.critical = relayed.critical /\ relayed'.critical \in BOOLEAN
    BY <1>1, <1>2, <1>6, <2>3, CompleteRunFacts
  <2>6. ParserTyped'
    BY <1>1, <2>3 DEF Typed, ParserTyped, Records
  <2>7. /\ Typed' /\ (done'["suite"] > 3 => CasesAreDone')
        /\ alive' = alive /\ done' = done /\ outcome' = outcome /\ sent' = sent
    <3>1. wire' \in Seq(Tags) /\ <<"top">> # <<>>
      BY <2>1, NoTags
    <3> QED  BY <1>1, <1>3, <2>1, <2>3, <2>4, <2>5, <2>6, <3>1, ParseFacts
  <2>8. CasesAreDone' /\ (AllPass = "true" => \A c \in Cases : Passes(outcome[c]))
        /\ ((\A c \in Cases : Passes(outcome[c])) => AllPass = "true")
    BY <1>1, <2>7, OutcomeKept DEF AllPass, Bool
  <2>9. /\ b \in {"true", "false"}
        /\ b = "true" => \A c \in Cases : Passes(outcome[c])
        /\ ~sent.stray => b = AllPass
    <3>1. ~sent.stray /\ relayed.critical => AllPass = "false"
      BY <1>1, <1>2, <2>8
    <3> QED  BY <1>2, <1>6, <2>8, <3>1
  <2> HIDE DEF b
  <2>10. Finished'
    <3>1. relayed'.n = sent'.n /\ relayed'.n > 0 /\ relayed'.completions = 1
      BY <1>1, <1>5, <2>5, <2>7 DEF Open
    <3>2. relayed'.last.success = b
      BY <2>5, FinaleParts
    <3>3. \E success \in {"true", "false"} : relayed'.last = Finale(success)
      BY <2>5, <2>9
    <3>4. ~sent.stray => relayed'.last = sent'.last
      BY <1>1, <2>5, <2>7, <2>9
    <3> QED  BY <1>1, <2>1, <2>3, <2>4, <2>7, <2>8, <2>9, <3>1, <3>2, <3>3, <3>4
             DEF Finished, Finale
  <2> QED  BY <1>1, <2>5, <2>7, <2>10 DEF Inv
<1> QED  BY <1>7, <1>8 DEF InFinale

LEMMA ParseStep ==
  ASSUME Inv, Parse
  PROVE  Inv'
<1>1. reader = "reading" /\ wire # <<>>
  BY DEF Parse
<1>2. Running /\ alive /\ ~Between
  BY <1>1 DEF Inv, Running, Finished, Broken, Between
<1>3. InMessage \/ InStart \/ InFinale
  BY <1>2 DEF Running
<1> QED  BY <1>2, <1>3, ParseMessage, ParseStream, ParseFinale

-----------------------------------------------------------------------------
\* Every step.

LEMMA SameInv ==
  ASSUME Inv, UNCHANGED vars
  PROVE  Inv'
<1>1. /\ UNCHANGED <<alive, done, outcome, sent, wire, reader, states, heap, stacks, element>>
      /\ UNCHANGED <<result, option, completeSuccess, streamSuccess, relayed>>
  BY DEF vars, child, parser
<1>2. Typed'
  BY <1>1 DEF Inv, Typed, ParserTyped, Records
<1>3. /\ (done["suite"] > 3 => CasesAreDone)' /\ AllPass' = AllPass
      /\ CasesAreDone' = CasesAreDone
      /\ (~sent.stray /\ relayed.critical => \E c \in Cases : ~Passes(outcome[c]))'
  BY <1>1 DEF Inv, CasesAreDone, AllPass
<1>4. CASE Running
  <2>1. InMessage => InMessage'
    <3> SUFFICES ASSUME InMessage PROVE InMessage'
      OBVIOUS
    <3>1. PICK m : m = sent.last
      OBVIOUS
    <3>2. WellFormed(m)' /\ Position(m)
      BY <1>1, <3>1, OutcomeKept DEF InMessage
    <3>3. AtStart(m) => AtStart(m)'
      BY <1>1 DEF AtStart
    <3>4. ASSUME NEW p \in Places, AtPlace(m, p[1], p[2]) PROVE AtPlace(m, p[1], p[2])'
      BY <1>1, <3>4 DEF AtPlace, Control
    <3>5. ASSUME NEW p \in ObjectPlaces, NEW j \in 1 .. 6, InObject(m, p[1], p[2], j)
          PROVE  InObject(m, p[1], p[2], j)'
      BY <1>1, <3>5 DEF InObject, Control
    <3>6. Position(m)'
      BY <3>2, <3>3, <3>4, <3>5 DEF Position
    <3> QED  BY <1>1, <3>1, <3>2, <3>6, InMessageNext DEF InMessage
  <2>2. Between => Between'
    BY <1>1 DEF Between
  <2>3. InStart => InStart'
    BY <1>1 DEF InStart
  <2>4. InFinale => InFinale'
    BY <1>1, <1>3 DEF InFinale
  <2>5. Running'
    BY <1>1, <1>4, <2>1, <2>2, <2>3, <2>4 DEF Running, Open
  <2> QED  BY <1>2, <1>3, <2>5 DEF Inv
<1>5. CASE Finished
  <2>1. Finished'
    BY <1>1, <1>3, <1>5 DEF Finished
  <2> QED  BY <1>2, <1>3, <2>1 DEF Inv
<1>6. CASE Broken
  <2>1. Broken'
    BY <1>1, <1>6 DEF Broken
  <2> QED  BY <1>2, <1>3, <2>1 DEF Inv
<1>7. CASE reader = "undefined" /\ sent.stray /\ Open
  <2>1. reader' = "undefined" /\ sent'.stray /\ Open'
    BY <1>1, <1>7 DEF Open
  <2> QED  BY <1>2, <1>3, <2>1 DEF Inv
<1> QED  BY <1>4, <1>5, <1>6, <1>7 DEF Inv

LEMMA StepInv == Inv /\ [Next]_vars => Inv'
<1> SUFFICES ASSUME Inv, [Next]_vars PROVE Inv'
  OBVIOUS
<1>1. ASSUME NEW c \in Cases, WriteCase(c) PROVE Inv'
  BY <1>1, WriteCaseStep
<1>2. CASE WriteSuite
  BY <1>2, WriteSuiteStep
<1>3. CASE Exit
  BY <1>3, ExitStep
<1>4. CASE Parse
  BY <1>4, ParseStep
<1>5. CASE EndRead
  BY <1>5, EndReadStep
<1>6. CASE Ended
  BY <1>6, SameInv DEF Ended
<1>7. CASE UNCHANGED vars
  BY <1>7, SameInv
<1> QED  BY <1>1, <1>2, <1>3, <1>4, <1>5, <1>6, <1>7 DEF Next

-----------------------------------------------------------------------------
\* The theorems.

\* Wherever the reader of cut-stream-reader.c is in the stream, the pipe, the stacks and
\* the objects of the parser are those of the message that is being read.
THEOREM StreamInvariant == Spec => []Inv
BY InitInv, StepInv, PTL DEF Spec

\* No handler of cut-stream-parser.c touches an object that does not exist.
THEOREM TypeCorrectness == Spec => []TypeOK
<1>1. Inv => TypeOK
  <2> SUFFICES ASSUME Inv PROVE TypeOK
    OBVIOUS
  <2>1. Typed
    BY DEF Inv
  <2>2. ASSUME NEW s \in DOMAIN stacks, NEW i \in 1 .. Len(stacks[s])
        PROVE  stacks[s][i] \in 1 .. Len(heap)
    <3>1. stacks[s] \in Seq(1 .. Len(heap))
      BY <2>1 DEF Typed, ParserTyped
    <3> QED  BY <2>2, <3>1, ElementOfSeq
  <2> QED  BY <2>1, <2>2 DEF TypeOK, Typed, ParserTyped, Records
<1> QED  BY <1>1, StreamInvariant, PTL

\* complete-run is the last signal on the parent's run context and is emitted once: by
\* the end of the stream or by the error of cut-stream-reader.c that ended it.
THEOREM CompletionTheorem == Spec => []CompletesOnce
<1>1. Inv => CompletesOnce
  <2> SUFFICES ASSUME Inv PROVE CompletesOnce
    OBVIOUS
  <2>1. CASE Running
    BY <2>1 DEF Running, Open, CompletesOnce
  <2>2. CASE Finished
    <3>1. relayed.last.signal = "complete-run"
      BY <2>2, FinaleParts DEF Finished
    <3> QED  BY <2>2, <3>1 DEF Finished, CompletesOnce
  <2>3. CASE Broken
    <3>1. relayed.last.signal = "complete-run"
      BY <2>3, FinaleParts DEF Broken
    <3> QED  BY <2>3, <3>1 DEF Broken, CompletesOnce
  <2>4. CASE reader = "undefined" /\ sent.stray /\ Open
    BY <2>4 DEF Open, CompletesOnce
  <2> QED  BY <2>1, <2>2, <2>3, <2>4 DEF Inv
<1> QED  BY <1>1, StreamInvariant, PTL

\* A success that the parent reports is that of a run it has read to its end and in which
\* every test passed: neither a dead child nor the <success> of a single test makes one.
THEOREM SuccessTheorem == Spec => []SuccessIsWhole
<1>1. Inv => SuccessIsWhole
  <2> SUFFICES ASSUME Inv, relayed.last = Finale("true")
               PROVE  /\ relayed.n = sent.n /\ CasesAreDone
                      /\ \A c \in Cases : Passes(outcome[c])
    BY DEF SuccessIsWhole, Finale
  <2>1. relayed.last.signal = "complete-run" /\ relayed.last.success = "true"
    BY FinaleParts
  <2>2. ~Open
    BY <2>1 DEF Open
  <2>3. ~Broken
    <3>1. Finale("false").success = "false"
      BY FinaleParts
    <3> QED  BY <2>1, <3>1 DEF Broken
  <2>4. Finished
    BY <2>2, <2>3 DEF Inv, Running
  <2> QED  BY <2>1, <2>4 DEF Finished
<1> QED  BY <1>1, StreamInvariant, PTL

\* Every message that has been read to its end has been emitted by end_*() of
\* cut-stream-parser.c, whatever the cases, the order in which their threads write and
\* the kinds of objects that have attributes; and it has been emitted as the child has
\* sent it, for as long as the child has written no <option> out of a test.
THEOREM RelayTheorem == Spec => []RelayedAsSent
<1>1. Inv => RelayedAsSent
  <2> SUFFICES ASSUME Inv PROVE RelayedAsSent
    OBVIOUS
  <2>1. reader = "undefined" => sent.stray
    BY DEF Inv, Running, Finished, Broken
  <2>2. ASSUME alive, wire = <<>>, reader # "undefined"
        PROVE  /\ relayed.n = sent.n
               /\ ~sent.stray => relayed.last = sent.last
    <3>1. Finished \/ Running
      BY <2>2 DEF Inv, Broken
    <3>2. CASE Finished
      BY <3>2 DEF Finished
    <3>3. CASE Running
      <4>1. ~InMessage
        BY <2>2, PositionOpen DEF InMessage
      <4>2. ~InStart
        BY <2>2 DEF InStart, Tag
      <4>3. ~InFinale
        BY <2>2 DEF InFinale, Leaf, Tag
      <4>4. Between
        BY <2>2, <3>3, <4>1, <4>2, <4>3 DEF Running
      <4> QED  BY <4>4 DEF Between
    <3> QED  BY <3>1, <3>2, <3>3
  <2> QED  BY <2>1, <2>2 DEF RelayedAsSent
<1> QED  BY <1>1, StreamInvariant, PTL
=============================================================================
