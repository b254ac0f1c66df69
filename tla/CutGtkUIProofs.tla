------------------------- MODULE CutGtkUIProofs -------------------------
(***************************************************************************)
(* What the rows of the GTK+ user interface show, for test suites of every *)
(* size, every pipe and any number of runs.                                *)
(*                                                                         *)
(* A message leads from one stage of a run to another (IsStep): a stage    *)
(* says what has been begun and how many tests are left of the run, of the *)
(* test case and of the iterator.  StageOf(run) is where the child is; the *)
(* messages in the pipe lead there (Leads) from the stage that the user    *)
(* interface has heard of.  The invariant says that what is shown is that  *)
(* stage (Shows), or that nobody listens to a run that is over (IsSilent). *)
(* The child keeps to the stages by ChildSteps.  StepIsFollowed is the     *)
(* heart of the proof: the handlers of a message lead from what shows a    *)
(* stage to what shows the next one.                                       *)
(***************************************************************************)
EXTENDS CutGtkUI, WellFoundedInduction, FunctionTheorems, FiniteSetTheorems,
        SequenceTheorems, TLAPS

\* Where a run is: what the messages so far have begun and not ended; "dead" and
\* "left" are those of "suite" and "over" after which something is left that a
\* signal has kept from being completed.
Points == {"begin", "suite", "case", "test", "iterator", "iterated", "dead", "over",
           "left"}
Stages == [at : Points, left : Nat, caseLeft : Nat, iterLeft : Nat]

IsTestStep(q, m, r) ==
  \/ /\ q.at = "case" /\ m.type = "start-test"
     /\ r.at = "test" /\ r.left = q.left /\ r.caseLeft = q.caseLeft
  \/ /\ q.at \in {"test", "iterated"} /\ m.type = "result" /\ m.status \in Statuses
     /\ r = q
  \/ /\ q.at = "test" /\ m.type = "complete-test" /\ q.left > 0 /\ q.caseLeft > 0
     /\ r.at = "case" /\ r.left = q.left - 1 /\ r.caseLeft = q.caseLeft - 1
IsIteratorStep(q, m, r) ==
  \/ /\ q.at = "case" /\ m.type = "ready-test-iterator" /\ m.n \in Nat
     /\ q.left > 0 /\ q.caseLeft > 0
     /\ r.at = "iterator" /\ r.left = q.left + (m.n - 1)
     /\ r.caseLeft = q.caseLeft + (m.n - 1) /\ r.iterLeft = m.n
  \/ /\ q.at = "case" /\ m.type = "complete-test-iterator"
     /\ r.at = "case" /\ r.left = q.left /\ r.caseLeft <= q.caseLeft
  \/ /\ q.at = "iterator" /\ m.type = "start-iterated-test"
     /\ r.at = "iterated" /\ r.left = q.left /\ r.caseLeft = q.caseLeft
     /\ r.iterLeft = q.iterLeft
  \/ /\ q.at = "iterated" /\ m.type = "complete-iterated-test"
     /\ q.left > 0 /\ q.caseLeft > 0 /\ q.iterLeft > 0
     /\ r.at = "iterator" /\ r.left = q.left - 1 /\ r.caseLeft = q.caseLeft - 1
     /\ r.iterLeft = q.iterLeft - 1
  \/ /\ q.at = "iterator" /\ m.type = "complete-test-iterator"
     /\ r.at = "case" /\ r.left = q.left /\ r.caseLeft = q.caseLeft
IsSuiteStep(q, m, r) ==
  \/ /\ q.at = "begin" /\ m.type = "ready-test-suite" /\ m.n \in Nat
     /\ r.at = "suite" /\ r.left = m.n
  \/ /\ q.at = "suite" /\ m.type = "ready-test-case" /\ m.n \in Nat
     /\ r.at = "case" /\ r.left = q.left /\ r.caseLeft <= m.n
  \/ /\ q.at \in InTestCase /\ m.type = "crash-test-case"
     /\ r = q
  \/ /\ q.at = "case" /\ m.type = "complete-test-case"
     /\ r.at = "suite" /\ r.left = q.left
  \/ /\ q.at \in {"test", "iterator", "iterated"} /\ m.type = "complete-test-case"
     /\ r.at = "dead" /\ r.left = q.left
  \/ /\ q.at = "suite" /\ m.type = "complete-run"
     /\ r.at = "over" /\ r.left = q.left
  \/ /\ q.at \in {"case", "dead"} /\ m.type = "complete-run"
     /\ r.at = "left" /\ r.left = q.left
IsStep(q, m, r) ==
  /\ q \in Stages /\ r \in Stages
  /\ IsTestStep(q, m, r) \/ IsIteratorStep(q, m, r) \/ IsSuiteStep(q, m, r)

-----------------------------------------------------------------------------
\* The runs of the child.
Runs == [at : {"begin", "suite", "case", "test", "iterator", "iterated", "over"},
         ahead : Nat, items : Nat, data : Nat, results : Nat, missed : Nat,
         stopped : BOOLEAN, jumped : {"no", "case", "test", "iterator", "iterated"}]
IsRun(x) ==
  /\ x \in Runs
  /\ x.at = "begin" => x.ahead = 0 /\ x.items = 0 /\ x.data = 0 /\ x.missed = 0
  /\ x.at \in {"begin", "test", "iterator", "iterated"} => x.jumped = "no"
  /\ x.at = "case" => x.jumped # "case"
  /\ ~x.stopped => /\ x.jumped = "no"
                   /\ x.at \in {"suite", "over"} => x.items = 0
                   /\ x.at \notin {"iterator", "iterated"} => x.data = 0
                   /\ x.at = "over" => x.ahead = 0

\* What the user interface shows when it has heard all that the child has written:
\* what a signal has left without completing it is still there.
PointOf(x) ==
  CASE x.jumped = "no" -> x.at
    [] x.jumped # "no" /\ x.at = "over" -> "left"
    [] x.jumped = "case" /\ x.at # "over" -> "case"
    [] x.jumped \notin {"no", "case"} /\ x.at = "case" -> x.jumped
    [] OTHER -> "dead"
\* The test that has been begun and is not complete.
Begun(x) ==
  IF x.at \in {"test", "iterated"} \/ x.jumped \in {"test", "iterated"} THEN 1 ELSE 0
IterLeft(x) == x.data + Begun(x)
CaseLeft(x) == x.items + IterLeft(x)
RunLeft(x) == x.ahead + x.missed + CaseLeft(x)
StageOf(x) ==
  [at |-> PointOf(x), left |-> RunLeft(x), caseLeft |-> CaseLeft(x),
   iterLeft |-> IterLeft(x)]

-----------------------------------------------------------------------------
\* What the user interface is made of.
RowRecords == [kind : {"case", "iterator", "test", "iterated"}, parent : Nat, n : Nat,
               done : Nat, status : NoStatus .. Crash, pulse : BOOLEAN]
UIRecords == [n : Nat, done : Nat, status : Statuses, running : BOOLEAN,
              button : {"cancel", "redo"}]
IsView(v) ==
  /\ v \in [rows : {v.rows}, connected : {v.connected}, ui : UIRecords]
  /\ v.rows \in [DOMAIN v.rows -> RowRecords]
  /\ \E b \in Nat : DOMAIN v.rows \subseteq 1 .. b /\ v.connected \subseteq 1 .. b

\* The rows of a stage.
IsCaseRow(v, q, c) ==
  /\ c \in DOMAIN v.rows
  /\ v.rows[c].kind = "case" /\ v.rows[c].parent = NoRow
  /\ v.rows[c].n >= v.rows[c].done + q.caseLeft
  /\ Success <= v.rows[c].status /\ v.rows[c].status <= v.ui.status
IsIteratorRow(v, q, c, i) ==
  /\ i \in DOMAIN v.rows /\ i # c
  /\ v.rows[i].kind = "iterator" /\ v.rows[i].parent = c
  /\ v.rows[i].n >= v.rows[i].done + q.iterLeft
  /\ Success <= v.rows[i].status /\ v.rows[i].status <= v.rows[c].status
IsTestRow(v, kind, p, x) ==
  /\ x \in DOMAIN v.rows /\ x # p
  /\ v.rows[x].kind = kind /\ v.rows[x].parent = p
  /\ v.rows[x].status <= v.rows[p].status
\* What holds of the rows whatever the stage, and all that does of those that a
\* signal has left.
AreLeft(v) ==
  \A x \in v.connected :
    /\ x \in DOMAIN v.rows
    /\ v.rows[x].kind \in {"case", "iterator"} => v.rows[x].done <= v.rows[x].n
    /\ v.rows[x].status <= v.ui.status
    /\ v.rows[x].parent \in DOMAIN v.rows =>
         v.rows[x].status <= v.rows[v.rows[x].parent].status
Shows(v, q) ==
  /\ v.ui.n = v.ui.done + q.left
  /\ q.at = "begin" => v.ui.done = 0
  /\ q.at \in {"begin", "suite", "over"} => v.connected = {}
  /\ q.at = "case" => \E c : v.connected = {c} /\ IsCaseRow(v, q, c)
  /\ q.at = "test" =>
       \E c, x : v.connected = {c, x} /\ IsCaseRow(v, q, c) /\ IsTestRow(v, "test", c, x)
  /\ q.at = "iterator" =>
       \E c, i : v.connected = {c, i} /\ IsCaseRow(v, q, c) /\ IsIteratorRow(v, q, c, i)
  /\ q.at = "iterated" =>
       \E c, i, x : /\ v.connected = {c, i, x} /\ IsCaseRow(v, q, c)
                    /\ IsIteratorRow(v, q, c, i) /\ IsTestRow(v, "iterated", i, x) /\ x # c
  /\ q.at \in {"dead", "left"} => AreLeft(v)

-----------------------------------------------------------------------------
MessageTypes ==
  {"ready-test-suite", "ready-test-case", "ready-test-iterator", "start-test", "result",
   "complete-test", "crash-test-case", "start-iterated-test", "complete-iterated-test",
   "complete-test-iterator", "complete-test-case", "complete-run"}
Messages == [type : MessageTypes] \cup [type : MessageTypes, n : Nat]
            \cup [type : {"result"}, status : Statuses]
\* A list of messages that leads from one stage to another.
Leads(list, q, r) ==
  /\ list \in Seq(Messages)
  /\ \E t \in [0 .. Len(list) -> Stages] :
       /\ t[0] = q /\ t[Len(list)] = r
       /\ \A k \in 1 .. Len(list) : IsStep(t[k - 1], list[k], t[k])

IsStuck == context.ended /\ ~context.watched /\ reading = "no" /\ run.at # "over"
Contexts == [canceled : BOOLEAN, crashed : BOOLEAN, completed : BOOLEAN,
             attached : BOOLEAN, watched : BOOLEAN, ended : BOOLEAN]
TypeOK ==
  /\ runs \in Nat /\ IsRun(run) /\ heard \subseteq Statuses
  /\ reading \in {"no", "chunk", "drain"}
  /\ context \in Contexts
  /\ IsView(View)
  /\ context.ended \/ reading = "drain" => child = "exited"
WorstIsHeard ==
  /\ \A s \in heard : s <= ui.status
  /\ ui.status \in {Success} \cup heard
IsSilent == connected = {} /\ ~context.attached /\ IsCanceled /\ ui.done <= ui.n
\* The stage that the user interface has heard of.
HasHeardOf(q) ==
  /\ Leads(pipe, q, StageOf(run))
  /\ context.attached \/ IsCanceled \/ IsStuck \/ q.at \in {"over", "left"}
  /\ Shows(View, q) \/ IsSilent
IndInv ==
  /\ TypeOK
  /\ context.attached => WorstIsHeard
  /\ \E q \in Stages : HasHeardOf(q)

-----------------------------------------------------------------------------
\* A set of naturals that is not empty has a least element.
LEMMA LeastNatural ==
  ASSUME NEW T \in SUBSET Nat, T # {}
  PROVE  \E n \in T : \A m \in T : n <= m
<1>1. IsWellFoundedOn(OpToRel(<, Nat), Nat)
  BY NatLessThanWellFounded
<1>2. PICK n \in T : \A m \in T : <<m, n>> \notin OpToRel(<, Nat)
  BY <1>1, WFMin
<1>3. \A m \in T : ~ (m < n)
  BY <1>2 DEF OpToRel
<1> QED
  BY <1>3

\* From 0 on, each from the one before, so all up to k.
LEMMA Induction ==
  ASSUME NEW G, 0 \in G, \A n \in Nat : n \in G => n + 1 \in G
  PROVE  Nat \subseteq G
<1> SUFFICES ASSUME Nat \ G # {} PROVE FALSE
  OBVIOUS
<1>1. PICK n \in Nat \ G : \A m \in Nat \ G : n <= m
  BY LeastNatural
<1>2. n # 0 /\ n - 1 \in Nat
  BY <1>1
<1>3. n - 1 \in G
  BY <1>1, <1>2
<1> QED
  BY <1>1, <1>2, <1>3

\* The same up to a bound.
LEMMA InductionUpTo ==
  ASSUME NEW G, NEW k \in Nat, 0 \in G, \A i \in 1 .. k : i - 1 \in G => i \in G
  PROVE  \A i \in 0 .. k : i \in G
<1> DEFINE H == {n \in Nat : n <= k => n \in G}
<1>1. 0 \in H
  OBVIOUS
<1>2. ASSUME NEW n \in Nat, n \in H
      PROVE  n + 1 \in H
  <2> SUFFICES ASSUME n + 1 <= k
               PROVE  n + 1 \in G
    OBVIOUS
  <2>1. PICK i \in 1 .. k : i = n + 1 /\ i - 1 = n
    OBVIOUS
  <2>2. n \in G
    BY <1>2
  <2> QED
    BY <2>1, <2>2
<1>3. Nat \subseteq H
  <2> HIDE DEF H
  <2> QED
    BY <1>1, <1>2, Induction
<1> QED
  BY <1>3

\* A bounded set of naturals that is not empty has a greatest element,
LEMMA GreatestNatural ==
  ASSUME NEW T \in SUBSET Nat, T # {}, NEW k \in Nat, \A n \in T : n <= k
  PROVE  \E n \in T : \A m \in T : m <= n
<1> DEFINE U == {u \in Nat : \A n \in T : n <= u}
<1>1. PICK u \in U : \A v \in U : u <= v
  BY LeastNatural
<1>2. CASE u \in T
  BY <1>1, <1>2
<1>3. CASE u \notin T
  <2>1. \A n \in T : n < u
    BY <1>1, <1>3
  <2>2. u # 0
    <3>1. PICK n : n \in T
      OBVIOUS
    <3> QED
      BY <3>1, <2>1
  <2>3. u - 1 \in U
    BY <1>1, <2>1, <2>2
  <2> QED
    BY <1>1, <2>2, <2>3
<1> QED
  BY <1>2, <1>3

\* which is the one that Max chooses.
LEMMA MaxIsGreatest ==
  ASSUME NEW T \in SUBSET Nat, T # {}, NEW k \in Nat, \A n \in T : n <= k
  PROVE  Max(T) \in T /\ \A m \in T : m <= Max(T)
<1>1. \E n \in T : \A m \in T : n >= m
  BY GreatestNatural
<1> QED
  BY <1>1 DEF Max

\* Of two integers.
LEMMA MaxOfTwo ==
  ASSUME NEW a \in Int, NEW b \in Int
  PROVE  Max({a, b}) = IF b > a THEN b ELSE a
BY DEF Max

\* Of the row that is none, and of that and another one.
LEMMA MaxOfRow ==
  ASSUME NEW x \in Nat
  PROVE  Max({NoRow}) = NoRow /\ Max({NoRow} \cup {x}) = x
BY DEF Max, NoRow

-----------------------------------------------------------------------------
HeardByUI(v, m) == IF context.attached THEN UIHears(v, m) ELSE v

\* A signal that no connected row listens to is the user interface's alone,
LEMMA EmittedToNone ==
  ASSUME NEW v, NEW m, \A r \in v.connected : v.rows[r].kind \notin Listening(m.type)
  PROVE  Emitted(v, m) = HeardByUI(v, m)
<1> DEFINE called == {r \in v.connected : v.rows[r].kind \in Listening(m.type)}
           R(g) == [r \in 0 .. 0 |->
                      IF r = NoRow THEN HeardByUI(v, m)
                      ELSE IF r \in called THEN RowHears(g[r - 1], r, m) ELSE g[r - 1]]
           after == CHOOSE g : g = R(g)
<1>1. called = {}
  OBVIOUS
<1>2. Max({NoRow} \cup called) = 0
  BY <1>1, MaxOfRow DEF NoRow
<1>3. Emitted(v, m) = after[0]
  BY <1>2 DEF Emitted, HeardByUI
<1> HIDE DEF called
<1>4. \E g : g = R(g)
  <2> DEFINE h == [r \in 0 .. 0 |-> HeardByUI(v, m)]
  <2>1. h = R(h)
    BY DEF NoRow
  <2> HIDE DEF h, R
  <2> QED
    BY <2>1
<1>5. after = R(after)
  <2> HIDE DEF R
  <2> QED
    BY <1>4
<1> HIDE DEF after
<1>6. after[0] = HeardByUI(v, m)
  BY <1>5 DEF NoRow
<1> QED
  BY <1>3, <1>6

\* and one that a single row listens to is that row's after the user interface's.
LEMMA EmittedToOne ==
  ASSUME NEW v, NEW m, NEW x \in Nat \ {0},
         {r \in v.connected : v.rows[r].kind \in Listening(m.type)} = {x}
  PROVE  Emitted(v, m) = RowHears(HeardByUI(v, m), x, m)
<1> DEFINE R(g) == [r \in 0 .. x |->
                      IF r = NoRow THEN HeardByUI(v, m)
                      ELSE IF r \in {x} THEN RowHears(g[r - 1], r, m) ELSE g[r - 1]]
           after == CHOOSE g : g = R(g)
           heardBy == RowHears(HeardByUI(v, m), x, m)
<1>2. Max({NoRow} \cup {x}) = x
  BY MaxOfRow
<1>3. Emitted(v, m) = after[x]
  BY ZenonT(60), <1>2 DEF Emitted, HeardByUI
<1>4. \E g : g = R(g)
  <2> DEFINE h == [r \in 0 .. x |-> IF r = x THEN heardBy ELSE HeardByUI(v, m)]
  <2>1. ASSUME NEW r \in 0 .. x
        PROVE  h[r] = R(h)[r]
    <3>1. CASE r = 0
      BY <3>1 DEF NoRow
    <3>2. CASE r # 0
      <4>1. r - 1 \in 0 .. x /\ r - 1 # x
        BY <3>2
      <4>2. h[r - 1] = HeardByUI(v, m)
        BY <4>1
      <4> QED
        BY <3>2, <4>2 DEF NoRow
    <3> QED
      BY <3>1, <3>2
  <2>2. h = R(h)
    BY <2>1
  <2> HIDE DEF h, R
  <2> QED
    BY <2>2
<1>5. after = R(after)
  <2> HIDE DEF R
  <2> QED
    BY <1>4
<1> HIDE DEF after
<1>6. /\ after[0] = HeardByUI(v, m)
      /\ \A r \in 1 .. x : after[r] = IF r = x THEN RowHears(after[r - 1], r, m)
                                      ELSE after[r - 1]
  BY <1>5 DEF NoRow
<1> DEFINE G == {r \in Nat : after[r] = HeardByUI(v, m)}
<1>7. 0 .. x - 1 \subseteq G
  <2>1. x - 1 \in Nat /\ 0 \in G
    BY <1>6
  <2>2. \A i \in 1 .. x - 1 : i - 1 \in G => i \in G
    BY <1>6
  <2> HIDE DEF G
  <2> QED
    BY <2>1, <2>2, InductionUpTo
<1>8. after[x] = heardBy
  <2>1. x - 1 \in 0 .. x - 1 /\ x \in 1 .. x
    OBVIOUS
  <2>2. after[x - 1] = HeardByUI(v, m)
    BY <2>1, <1>7
  <2> QED
    BY <2>1, <2>2, <1>6
<1> QED
  BY <1>3, <1>8

-----------------------------------------------------------------------------
\* The row that is appended is one that there is not, and that nobody hears as.
LEMMA NewRow ==
  ASSUME NEW v, IsView(v)
  PROVE  /\ NextRow(v) \in Nat \ {0}
         /\ NextRow(v) \notin DOMAIN v.rows /\ NextRow(v) \notin v.connected
<1> DEFINE T == {NoRow} \cup v.connected \cup DOMAIN v.rows
<1>1. PICK b \in Nat : DOMAIN v.rows \subseteq 1 .. b /\ v.connected \subseteq 1 .. b
  BY DEF IsView
<1>2. T \in SUBSET Nat /\ T # {} /\ \A n \in T : n <= b
  BY <1>1 DEF NoRow
<1>3. NextRow(v) = 1 + Max(T)
  BY DEF NextRow
<1>4. DOMAIN v.rows \subseteq T /\ v.connected \subseteq T
  OBVIOUS
<1> HIDE DEF T
<1>5. Max(T) \in T /\ \A m \in T : m <= Max(T)
  BY <1>1, <1>2, MaxIsGreatest
<1>6. Max(T) \in Nat /\ 1 + Max(T) \notin T
  <2> DEFINE k == Max(T)
  <2> HIDE DEF k
  <2>1. k \in Nat /\ \A n \in T : n <= k
    BY <1>5, <1>2 DEF k
  <2>2. ~(1 + k <= k)
    BY <2>1
  <2> QED
    BY <2>1, <2>2 DEF k
<1> QED
  BY <1>3, <1>4, <1>6

IsAdded(v, w, x, kind, parent, n, status) ==
  /\ IsView(w) /\ w.ui = v.ui
  /\ w.connected = v.connected \cup {x}
  /\ x \notin DOMAIN v.rows /\ x \notin v.connected /\ x # NoRow
  /\ DOMAIN w.rows = DOMAIN v.rows \cup {x}
  /\ \A y \in DOMAIN v.rows : w.rows[y] = v.rows[y]
  /\ w.rows[x] = [kind |-> kind, parent |-> parent, n |-> n, done |-> 0,
                  status |-> status, pulse |-> kind = "test"]

\* append_row() leaves the rows that there are as they are.
LEMMA AddedRow ==
  ASSUME NEW v, IsView(v), NEW kind \in {"case", "iterator", "test", "iterated"},
         NEW parent \in Nat, NEW n \in Nat, NEW status \in NoStatus .. Crash,
         NEW w, w = AddRow(v, kind, parent, n, status), NEW x, x = NextRow(v)
  PROVE  IsAdded(v, w, x, kind, parent, n, status)
<1> DEFINE row == [kind |-> kind, parent |-> parent, n |-> n, done |-> 0,
                   status |-> status, pulse |-> kind = "test"]
           rs == [y \in DOMAIN v.rows \cup {x} |-> IF y = x THEN row ELSE v.rows[y]]
<1>1. /\ w \in [rows : {rs}, connected : {v.connected \cup {x}}, ui : UIRecords]
      /\ w.ui = v.ui
  BY DEF AddRow, IsView
<1>2. x \in Nat \ {0} /\ x \notin DOMAIN v.rows /\ x \notin v.connected
  BY NewRow
<1>3. PICK b \in Nat : DOMAIN v.rows \subseteq 1 .. b /\ v.connected \subseteq 1 .. b
  BY DEF IsView
<1>4. row \in RowRecords
  BY DEF RowRecords, NoStatus, Crash
<1> HIDE DEF row
<1>5. rs \in [DOMAIN v.rows \cup {x} -> RowRecords]
  BY <1>4 DEF IsView
<1>6. \E c \in Nat : /\ DOMAIN v.rows \cup {x} \subseteq 1 .. c
                     /\ v.connected \cup {x} \subseteq 1 .. c
  <2>1. PICK c : c = b + x
    OBVIOUS
  <2>2. c \in Nat /\ \A y \in 1 .. b : y \in 1 .. c
    BY <2>1, <1>2
  <2>3. x \in 1 .. c
    BY <2>1, <1>2
  <2> QED
    BY <2>2, <2>3, <1>3
<1>7. IsView(w)
  BY <1>1, <1>5, <1>6 DEF IsView
<1>8. \A y \in DOMAIN v.rows : rs[y] = v.rows[y]
  BY <1>2
<1> QED
  BY <1>1, <1>2, <1>7, <1>8 DEF row, NoRow, IsAdded

\* Freeing a row leaves the others as they are.
LEMMA FreedRow ==
  ASSUME NEW v, IsView(v), NEW x, NEW w, w = FreeRow(v, x)
  PROVE  /\ IsView(w) /\ w.ui = v.ui
         /\ w.connected = v.connected \ {x}
         /\ DOMAIN w.rows = DOMAIN v.rows \ {x}
         /\ \A y \in DOMAIN v.rows \ {x} : w.rows[y] = v.rows[y]
<1> DEFINE rs == [y \in DOMAIN v.rows \ {x} |-> v.rows[y]]
<1>1. /\ w \in [rows : {rs}, connected : {v.connected \ {x}}, ui : UIRecords]
      /\ w.ui = v.ui
  BY DEF FreeRow, Restrict, IsView
<1>2. rs \in [DOMAIN v.rows \ {x} -> RowRecords]
  BY DEF IsView
<1>3. IsView(w)
  BY <1>1, <1>2 DEF IsView
<1> QED
  BY <1>1, <1>3

-----------------------------------------------------------------------------
\* No message leads nowhere,
LEMMA LeadsNone ==
  ASSUME NEW q \in Stages
  PROVE  Leads(<<>>, q, q)
<1> DEFINE t == [k \in 0 .. 0 |-> q]
<1>1. <<>> \in Seq(Messages) /\ Len(<<>>) = 0
  BY EmptySeq
<1>2. t \in [0 .. 0 -> Stages] /\ t[0] = q
  OBVIOUS
<1>3. t \in [0 .. Len(<<>>) -> Stages] /\ t[Len(<<>>)] = q
  BY <1>1, <1>2
<1>4. \A k \in 1 .. Len(<<>>) : IsStep(t[k - 1], <<>>[k], t[k])
  BY <1>1
<1> QED
  BY <1>1, <1>2, <1>3, <1>4 DEF Leads

\* and an empty list only so.
LEMMA LeadsNowhere ==
  ASSUME NEW q, NEW r, Leads(<<>>, q, r)
  PROVE  q = r
<1>1. Len(<<>>) = 0
  BY EmptySeq
<1> QED
  BY <1>1 DEF Leads

\* A message that is appended leads one step further.
LEMMA LeadsOn ==
  ASSUME NEW list, NEW m \in Messages, NEW q, NEW r, NEW s, Leads(list, q, r),
         IsStep(r, m, s)
  PROVE  Leads(Append(list, m), q, s)
<1> DEFINE n == Len(list)
           z == Append(list, m)
<1>1. list \in Seq(Messages) /\ n \in Nat /\ s \in Stages
  BY LenProperties DEF Leads, IsStep
<1>2. PICK t \in [0 .. n -> Stages] :
        t[0] = q /\ t[n] = r /\ \A k \in 1 .. n : IsStep(t[k - 1], list[k], t[k])
  BY DEF Leads
<1>3. /\ z \in Seq(Messages) /\ Len(z) = n + 1
      /\ \A k \in 1 .. n : z[k] = list[k]
      /\ z[n + 1] = m
  BY <1>1, AppendProperties
<1> HIDE DEF n, z
<1> DEFINE u == [k \in 0 .. n + 1 |-> IF k = n + 1 THEN s ELSE t[k]]
<1>4. \A k \in 0 .. n : u[k] = t[k] /\ k \in 0 .. n + 1
  BY <1>1
<1>5. u[n + 1] = s
  BY <1>1
<1>6. u \in [0 .. n + 1 -> Stages]
  <2>1. ASSUME NEW k \in 0 .. n + 1
        PROVE  u[k] \in Stages
    <3>1. CASE k = n + 1
      BY <3>1, <1>1
    <3>2. CASE k # n + 1
      <4>1. k \in 0 .. n
        BY <3>2, <1>1
      <4> QED
        BY <4>1, <1>2, <1>4
    <3> QED
      BY <3>1, <3>2
  <2> QED
    BY <2>1
<1> HIDE DEF u
<1>7. ASSUME NEW k \in 1 .. n + 1
      PROVE  IsStep(u[k - 1], z[k], u[k])
  <2>1. CASE k = n + 1
    <3>1. k - 1 = n /\ n \in 0 .. n
      BY <2>1, <1>1
    <3>2. u[k - 1] = r
      BY <3>1, <1>2, <1>4
    <3> QED
      BY <3>2, <2>1, <1>3, <1>5
  <2>2. CASE k # n + 1
    <3>1. k \in 1 .. n /\ k \in 0 .. n /\ k - 1 \in 0 .. n
      BY <2>2, <1>1
    <3> QED
      BY <3>1, <1>2, <1>3, <1>4
  <2> QED
    BY <2>1, <2>2
<1>8. u[0] = q
  <2>1. 0 \in 0 .. n
    BY <1>1
  <2> QED
    BY <2>1, <1>2, <1>4
<1> QED
  BY <1>3, <1>5, <1>6, <1>7, <1>8 DEF Leads, z

\* The first message of a list leads to where the others lead from.
LEMMA LeadsFirst ==
  ASSUME NEW list, NEW q, NEW r, Leads(list, q, r), list # <<>>
  PROVE  \E p \in Stages : IsStep(q, Head(list), p) /\ Leads(Tail(list), p, r)
<1> DEFINE n == Len(list)
           z == Tail(list)
<1>1. list \in Seq(Messages) /\ n \in Nat
  BY LenProperties DEF Leads
<1>2. PICK t \in [0 .. n -> Stages] :
        t[0] = q /\ t[n] = r /\ \A k \in 1 .. n : IsStep(t[k - 1], list[k], t[k])
  BY DEF Leads
<1>3. /\ z \in Seq(Messages) /\ Len(z) = n - 1 /\ n # 0
      /\ \A k \in 1 .. n - 1 : z[k] = list[k + 1]
      /\ Head(list) = list[1]
  BY <1>1, EmptySeq, HeadTailProperties
<1> HIDE DEF n, z
<1> DEFINE u == [k \in 0 .. n - 1 |-> t[k + 1]]
<1>4. \A k \in 0 .. n - 1 : u[k] = t[k + 1] /\ k + 1 \in 0 .. n
  BY <1>1
<1>5. u \in [0 .. n - 1 -> Stages]
  BY <1>2, <1>4
<1> HIDE DEF u
<1>6. ASSUME NEW k \in 1 .. n - 1
      PROVE  IsStep(u[k - 1], z[k], u[k])
  <2>1. PICK j \in 1 .. n : j = k + 1
    BY <1>1
  <2>2. k - 1 \in 0 .. n - 1 /\ k \in 0 .. n - 1 /\ (k - 1) + 1 = j - 1 /\ k + 1 = j
    BY <2>1, <1>1
  <2>3. u[k - 1] = t[j - 1] /\ u[k] = t[j] /\ z[k] = list[j]
    BY <2>2, <1>3, <1>4
  <2> QED
    BY <2>3, <1>2
<1>7. u[0] = t[1] /\ u[n - 1] = r /\ IsStep(q, list[1], t[1]) /\ t[1] \in Stages
  <2>1. /\ 0 \in 0 .. n - 1 /\ n - 1 \in 0 .. n - 1 /\ 0 + 1 = 1 /\ (n - 1) + 1 = n
        /\ 1 \in 1 .. n /\ 1 - 1 = 0 /\ 1 \in 0 .. n
    BY <1>1, <1>3
  <2> QED
    BY <2>1, <1>2, <1>4
<1>8. Leads(z, t[1], r)
  BY <1>3, <1>5, <1>6, <1>7 DEF Leads
<1> QED
  BY <1>3, <1>7, <1>8 DEF z

-----------------------------------------------------------------------------
\* The rows above a row, of which there are at most two.
LEMMA AncestorsOfRow ==
  ASSUME NEW rs, NEW x
  PROVE  /\ rs[x].parent = NoRow => Ancestors(rs, x) = {}
         /\ \A c : c # NoRow /\ rs[x].parent = c /\ rs[c].parent = NoRow
                     => Ancestors(rs, x) = {c}
         /\ \A i, c : /\ i # NoRow /\ c # NoRow
                      /\ rs[x].parent = i /\ rs[i].parent = c
                      => Ancestors(rs, x) = {i, c}
BY DEF Ancestors

IsRaised(rs, x, status, a) ==
  LET above == Ancestors(rs, x)
  IN a \in above /\ \A b \in above : (b = a \/ a \in Ancestors(rs, b)) => rs[b].status < status

\* update_status() changes statuses alone: that of the row, and of those above it as long
\* as they show something better.
LEMMA RaisedRow ==
  ASSUME NEW v, IsView(v), NEW x \in DOMAIN v.rows, NEW status \in Statuses,
         NEW w, w = Raised(v, x, status)
  PROVE  /\ IsView(w) /\ w.connected = v.connected /\ DOMAIN w.rows = DOMAIN v.rows
         /\ w.ui.n = v.ui.n /\ w.ui.done = v.ui.done
         /\ w.ui.status = IF status > v.ui.status THEN status ELSE v.ui.status
         /\ \A y \in DOMAIN v.rows :
              /\ w.rows[y].kind = v.rows[y].kind /\ w.rows[y].parent = v.rows[y].parent
              /\ w.rows[y].n = v.rows[y].n /\ w.rows[y].done = v.rows[y].done
              /\ w.rows[y].status = IF y = x \/ IsRaised(v.rows, x, status, y)
                                    THEN status ELSE v.rows[y].status
<1> DEFINE Row(y) == IF y = x \/ IsRaised(v.rows, x, status, y)
                     THEN [v.rows[y] EXCEPT !.status = status] ELSE v.rows[y]
           rs == [y \in DOMAIN v.rows |-> Row(y)]
           worst == Max({v.ui.status, status})
           u == [v.ui EXCEPT !.status = worst]
<1>1. w.rows = rs /\ w.connected = v.connected /\ w.ui = u
      /\ w \in [rows : {rs}, connected : {v.connected}, ui : {u}]
  BY DEF Raised, IsRaised, IsView
<1>2. status \in Int /\ v.ui.status \in Statuses /\ Statuses \subseteq Int
  BY DEF IsView, UIRecords, Statuses, Success, Crash
<1>3. worst = IF status > v.ui.status THEN status ELSE v.ui.status
  BY <1>2, MaxOfTwo
<1> HIDE DEF worst
<1>4. u \in UIRecords /\ u.n = v.ui.n /\ u.done = v.ui.done /\ u.status = worst
  BY <1>2, <1>3 DEF IsView, UIRecords
<1>5. ASSUME NEW y \in DOMAIN v.rows
      PROVE  /\ Row(y) \in RowRecords
             /\ Row(y).kind = v.rows[y].kind /\ Row(y).parent = v.rows[y].parent
             /\ Row(y).n = v.rows[y].n /\ Row(y).done = v.rows[y].done
             /\ Row(y).status = IF y = x \/ IsRaised(v.rows, x, status, y)
                                THEN status ELSE v.rows[y].status
  <2>1. v.rows[y] \in RowRecords
    BY DEF IsView
  <2>2. status \in NoStatus .. Crash
    BY DEF Statuses, Success, Crash, NoStatus
  <2> QED
    BY <2>1, <2>2 DEF RowRecords
<1> HIDE DEF Row, u
<1>6. DOMAIN rs = DOMAIN v.rows /\ rs \in [DOMAIN v.rows -> RowRecords]
  BY <1>5
<1>7. IsView(w)
  BY <1>1, <1>4, <1>6 DEF IsView
<1>8. \A y \in DOMAIN v.rows : w.rows[y] = Row(y)
  BY <1>1
<1> QED
  BY <1>1, <1>3, <1>4, <1>5, <1>6, <1>7, <1>8

\* increment_n_completed_tests() counts a test for each row above.
LEMMA IncrementedRows ==
  ASSUME NEW v, IsView(v), NEW x \in DOMAIN v.rows, NEW w, w = Incremented(v, x)
  PROVE  /\ IsView(w) /\ w.connected = v.connected /\ DOMAIN w.rows = DOMAIN v.rows
         /\ w.ui.n = v.ui.n /\ w.ui.done = v.ui.done + 1 /\ w.ui.status = v.ui.status
         /\ \A y \in DOMAIN v.rows :
              /\ w.rows[y].kind = v.rows[y].kind /\ w.rows[y].parent = v.rows[y].parent
              /\ w.rows[y].n = v.rows[y].n /\ w.rows[y].status = v.rows[y].status
              /\ w.rows[y].done = IF y \in Ancestors(v.rows, x) THEN v.rows[y].done + 1
                                  ELSE v.rows[y].done
<1> DEFINE Row(y) == [v.rows[y] EXCEPT
                        !.done = IF y \in Ancestors(v.rows, x) THEN @ + 1 ELSE @]
           rs == [y \in DOMAIN v.rows |-> Row(y)]
           u == [v.ui EXCEPT !.done = @ + 1]
<1>1. w.rows = rs /\ w.connected = v.connected /\ w.ui = u
      /\ w \in [rows : {rs}, connected : {v.connected}, ui : {u}]
  BY DEF Incremented, IsView
<1>4. u \in UIRecords /\ u.n = v.ui.n /\ u.done = v.ui.done + 1 /\ u.status = v.ui.status
  BY DEF IsView, UIRecords
<1>5. ASSUME NEW y \in DOMAIN v.rows
      PROVE  /\ Row(y) \in RowRecords
             /\ Row(y).kind = v.rows[y].kind /\ Row(y).parent = v.rows[y].parent
             /\ Row(y).n = v.rows[y].n /\ Row(y).status = v.rows[y].status
             /\ Row(y).done = IF y \in Ancestors(v.rows, x) THEN v.rows[y].done + 1
                              ELSE v.rows[y].done
  <2>1. v.rows[y] \in RowRecords
    BY DEF IsView
  <2> QED
    BY <2>1 DEF RowRecords
<1> HIDE DEF Row, u
<1>6. DOMAIN rs = DOMAIN v.rows /\ rs \in [DOMAIN v.rows -> RowRecords]
  BY <1>5
<1>7. IsView(w)
  BY <1>1, <1>4, <1>6 DEF IsView
<1>8. \A y \in DOMAIN v.rows : w.rows[y] = Row(y)
  BY <1>1
<1> QED
  BY <1>1, <1>4, <1>5, <1>6, <1>7, <1>8

Succeeded(v, x) == [v EXCEPT !.rows[x].status = Success]

IsSucceeded(v, w, x) ==
  /\ IsView(w) /\ w.connected = v.connected /\ DOMAIN w.rows = DOMAIN v.rows
  /\ w.ui = v.ui
  /\ \A y \in DOMAIN v.rows \ {x} : w.rows[y] = v.rows[y]
  /\ w.rows[x] = [v.rows[x] EXCEPT !.status = Success]

\* A first success changes the status of its row alone.
LEMMA SucceededRow ==
  ASSUME NEW v, IsView(v), NEW x \in DOMAIN v.rows, NEW w, w = Succeeded(v, x)
  PROVE  IsSucceeded(v, w, x)
<1> DEFINE rs == [v.rows EXCEPT ![x].status = Success]
<1>1. w.rows = rs /\ w.connected = v.connected /\ w.ui = v.ui
      /\ w \in [rows : {rs}, connected : {v.connected}, ui : {v.ui}]
  BY DEF IsView, Succeeded
<1>2. v.rows[x] \in RowRecords
  BY DEF IsView
<1>3. [v.rows[x] EXCEPT !.status = Success] \in RowRecords
  BY <1>2 DEF RowRecords, Success, NoStatus, Crash
<1>4. rs \in [DOMAIN v.rows -> RowRecords]
  BY <1>3 DEF IsView
<1>5. IsView(w)
  BY <1>1, <1>4 DEF IsView
<1> QED
  BY <1>1, <1>5 DEF IsSucceeded

Grown(v, x, k) == [v EXCEPT !.ui.n = @ + k, !.rows[x].n = @ + k]

\* The tests of an iterator are added to its test case and to the run.
LEMMA MoreTests ==
  ASSUME NEW v, IsView(v), NEW x \in DOMAIN v.rows, NEW k \in Int,
         v.ui.n + k \in Nat, v.rows[x].n + k \in Nat, NEW w, w = Grown(v, x, k)
  PROVE  /\ IsView(w) /\ w.connected = v.connected /\ DOMAIN w.rows = DOMAIN v.rows
         /\ w.ui.n = v.ui.n + k /\ w.ui.done = v.ui.done /\ w.ui.status = v.ui.status
         /\ \A y \in DOMAIN v.rows \ {x} : w.rows[y] = v.rows[y]
         /\ w.rows[x] = [v.rows[x] EXCEPT !.n = @ + k]
<1> DEFINE rs == [v.rows EXCEPT ![x].n = @ + k]
           u == [v.ui EXCEPT !.n = @ + k]
<1>1. w.rows = rs /\ w.connected = v.connected /\ w.ui = u
      /\ w \in [rows : {rs}, connected : {v.connected}, ui : {u}]
  BY DEF IsView, Grown
<1>2. v.rows[x] \in RowRecords
  BY DEF IsView
<1>3. [v.rows[x] EXCEPT !.n = @ + k] \in RowRecords
  BY <1>2 DEF RowRecords
<1>4. rs \in [DOMAIN v.rows -> RowRecords]
  BY <1>3 DEF IsView
<1>5. u \in UIRecords /\ u.n = v.ui.n + k /\ u.done = v.ui.done /\ u.status = v.ui.status
  BY DEF IsView, UIRecords
<1>6. IsView(w)
  BY <1>1, <1>4, <1>5 DEF IsView
<1> QED
  BY <1>1, <1>5, <1>6

-----------------------------------------------------------------------------
\* v shows q, m is heard and leads to r, and w is what is shown then.
Follows(v, w, m, r) ==
  /\ IsView(w) /\ Shows(w, r)
  /\ w.ui.status = IF m.type = "result" /\ m.status > v.ui.status THEN m.status
                   ELSE v.ui.status

\* The types of what is shown,
LEMMA Types ==
  ASSUME NEW v, IsView(v)
  PROVE  /\ v.ui.n \in Nat /\ v.ui.done \in Nat /\ v.ui.status \in Statuses
         /\ \A y \in DOMAIN v.rows :
              /\ v.rows[y].n \in Nat /\ v.rows[y].done \in Nat
              /\ v.rows[y].status \in NoStatus .. Crash
         /\ DOMAIN v.rows \subseteq Nat \ {0} /\ v.connected \subseteq Nat \ {0}
BY DEF IsView, UIRecords, RowRecords

\* and of where a run is.
LEMMA StageTypes ==
  ASSUME NEW q \in Stages
  PROVE  /\ q.at \in Points /\ q.left \in Nat /\ q.caseLeft \in Nat /\ q.iterLeft \in Nat
BY DEF Stages

\* The rows of a stage are allocated, and show no more tests and nothing better than
\* what is below them.
LEMMA ShownRows ==
  ASSUME NEW v, IsView(v), NEW q \in Stages, Shows(v, q)
  PROVE  AreLeft(v) /\ v.ui.done <= v.ui.n
<1>0. /\ q.at \in Points /\ q.left \in Nat /\ q.caseLeft \in Nat /\ q.iterLeft \in Nat
      /\ NoRow \notin DOMAIN v.rows
      /\ v.ui.done \in Nat /\ v.ui.status \in Int
      /\ \A y \in DOMAIN v.rows : /\ v.rows[y].n \in Nat /\ v.rows[y].done \in Nat
                                  /\ v.rows[y].status \in Int
  BY StageTypes, Types DEF NoRow, Statuses, Success, Crash, NoStatus
<1>1. v.ui.done <= v.ui.n
  BY <1>0 DEF Shows
<1>2. \A c : IsCaseRow(v, q, c) =>
        /\ c \in DOMAIN v.rows /\ v.rows[c].done <= v.rows[c].n
        /\ v.rows[c].status <= v.ui.status /\ v.rows[c].parent \notin DOMAIN v.rows
  BY <1>0 DEF IsCaseRow
<1>3. \A c, i : IsCaseRow(v, q, c) /\ IsIteratorRow(v, q, c, i) =>
        /\ i \in DOMAIN v.rows /\ v.rows[i].done <= v.rows[i].n
        /\ v.rows[i].status <= v.ui.status /\ v.rows[i].parent = c
        /\ v.rows[i].status <= v.rows[c].status
  <2> SUFFICES ASSUME NEW c, NEW i, IsCaseRow(v, q, c), IsIteratorRow(v, q, c, i)
               PROVE  /\ i \in DOMAIN v.rows /\ v.rows[i].done <= v.rows[i].n
                      /\ v.rows[i].status <= v.ui.status /\ v.rows[i].parent = c
                      /\ v.rows[i].status <= v.rows[c].status
    OBVIOUS
  <2>1. /\ c \in DOMAIN v.rows /\ i \in DOMAIN v.rows /\ v.rows[c].status <= v.ui.status
        /\ v.rows[i].status <= v.rows[c].status /\ v.rows[i].parent = c
        /\ v.rows[i].n >= v.rows[i].done + q.iterLeft
    BY DEF IsCaseRow, IsIteratorRow
  <2> QED
    BY <1>0, <2>1
<1>4. \A kind, p, t : p \in DOMAIN v.rows /\ v.rows[p].status <= v.ui.status
                      /\ IsTestRow(v, kind, p, t) =>
        /\ t \in DOMAIN v.rows /\ v.rows[t].kind = kind /\ v.rows[t].status <= v.ui.status
        /\ v.rows[t].parent = p /\ v.rows[t].status <= v.rows[p].status
  <2> SUFFICES ASSUME NEW kind, NEW p, NEW t, p \in DOMAIN v.rows,
                      v.rows[p].status <= v.ui.status, IsTestRow(v, kind, p, t)
               PROVE  /\ t \in DOMAIN v.rows /\ v.rows[t].kind = kind
                      /\ v.rows[t].status <= v.ui.status
                      /\ v.rows[t].parent = p /\ v.rows[t].status <= v.rows[p].status
    OBVIOUS
  <2>1. /\ t \in DOMAIN v.rows /\ v.rows[t].kind = kind
        /\ v.rows[t].parent = p /\ v.rows[t].status <= v.rows[p].status
    BY DEF IsTestRow
  <2> QED
    BY <1>0, <2>1
<1>5. CASE q.at \in {"begin", "suite", "over"}
  BY <1>1, <1>5 DEF Shows, AreLeft
<1>6. CASE q.at = "case"
  <2>1. PICK c : v.connected = {c} /\ IsCaseRow(v, q, c)
    BY <1>6 DEF Shows
  <2> QED
    BY <1>1, <1>2, <2>1 DEF AreLeft
<1>7. CASE q.at = "test"
  <2>1. PICK c, t : v.connected = {c, t} /\ IsCaseRow(v, q, c) /\ IsTestRow(v, "test", c, t)
    BY <1>7 DEF Shows
  <2> QED
    BY <1>1, <1>2, <1>4, <2>1 DEF AreLeft
<1>8. CASE q.at = "iterator"
  <2>1. PICK c, i : v.connected = {c, i} /\ IsCaseRow(v, q, c) /\ IsIteratorRow(v, q, c, i)
    BY <1>8 DEF Shows
  <2> QED
    BY <1>1, <1>2, <1>3, <2>1 DEF AreLeft
<1>9. CASE q.at = "iterated"
  <2>1. PICK c, i, t : /\ v.connected = {c, i, t} /\ IsCaseRow(v, q, c)
                       /\ IsIteratorRow(v, q, c, i) /\ IsTestRow(v, "iterated", i, t)
    BY <1>9 DEF Shows
  <2> QED
    BY <1>1, <1>2, <1>3, <1>4, <2>1 DEF AreLeft
<1>10. CASE q.at \in {"dead", "left"}
  BY <1>1, <1>10 DEF Shows
<1> QED
  BY <1>0, <1>5, <1>6, <1>7, <1>8, <1>9, <1>10 DEF Points

\* The kinds of rows that listen to each signal.
LEMMA Listeners ==
  /\ Listening("start-test") = {"case"} /\ Listening("ready-test-iterator") = {"case"}
  /\ Listening("complete-test-case") = {"case"}
  /\ Listening("start-iterated-test") = {"iterator"}
  /\ Listening("complete-test-iterator") = {"iterator"}
  /\ Listening("result") = {"test", "iterated"}
  /\ Listening("complete-test") = {"test"}
  /\ Listening("complete-iterated-test") = {"iterated"}
  /\ Listening("ready-test-suite") = {} /\ Listening("ready-test-case") = {}
  /\ Listening("complete-run") = {}
  /\ Listening("crash-test-case") = {}
BY DEF Listening

\* The messages that the user interface itself does nothing about.
LEMMA UIHearsNothing ==
  ASSUME NEW v, NEW m, m.type \notin {"ready-test-suite", "ready-test-case", "complete-run"}
  PROVE  HeardByUI(v, m) = v
BY DEF HeardByUI, UIHears

\* cb_start_test() shows the test in the test case.
LEMMA StartTest ==
  ASSUME NEW v, IsView(v), NEW q \in Stages, NEW m, NEW r \in Stages, Shows(v, q),
         q.at = "case", m.type = "start-test", r.at = "test",
         r.left = q.left, r.caseLeft = q.caseLeft
  PROVE  Follows(v, Emitted(v, m), m, r)
<1>1. PICK c : v.connected = {c} /\ IsCaseRow(v, q, c)
  BY DEF Shows
<1>2. c \in Nat \ {0} /\ c \in DOMAIN v.rows /\ v.rows[c].kind = "case"
  BY <1>1, Types DEF IsCaseRow
<1> DEFINE w == Emitted(v, m)
           x == NextRow(v)
<1>3. w = AddRow(v, "test", c, 0, NoStatus) /\ x = NextRow(v)
  <2>1. {y \in v.connected : v.rows[y].kind \in Listening(m.type)} = {c}
    BY <1>1, <1>2, Listeners
  <2>2. Emitted(v, m) = RowHears(v, c, m)
    BY <2>1, <1>2, EmittedToOne, UIHearsNothing
  <2> QED
    BY <2>2 DEF RowHears
<1> HIDE DEF w, x
<1>4. /\ IsView(w) /\ w.ui = v.ui /\ w.connected = {c, x} /\ x # c
      /\ x \in DOMAIN w.rows /\ c \in DOMAIN w.rows /\ w.rows[c] = v.rows[c]
      /\ w.rows[x].kind = "test" /\ w.rows[x].parent = c /\ w.rows[x].status = NoStatus
  <2>1. /\ NoStatus \in NoStatus .. Crash /\ c \in Nat /\ 0 \in Nat
        /\ "test" \in {"case", "iterator", "test", "iterated"}
    BY <1>2 DEF NoStatus, Crash
  <2>2. IsAdded(v, w, x, "test", c, 0, NoStatus)
    BY <2>1, <1>3, AddedRow
  <2> QED
    BY <2>2, <1>1, <1>2 DEF IsAdded
<1>5. r.at = "test" /\ r.left = q.left /\ r.caseLeft = q.caseLeft
  OBVIOUS
<1>6. IsCaseRow(w, r, c)
  BY <1>1, <1>4, <1>5 DEF IsCaseRow
<1>7. IsTestRow(w, "test", c, x)
  <2>1. w.rows[c].status \in NoStatus .. Crash
    BY <1>4, Types
  <2> QED
    BY <2>1, <1>4 DEF IsTestRow, NoStatus, Crash
<1>8. Shows(w, r)
  <2>1. w.ui.n = w.ui.done + r.left
    BY <1>4, <1>5 DEF Shows
  <2> QED
    BY <2>1, <1>4, <1>5, <1>6, <1>7 DEF Shows
<1> QED
  BY <1>4, <1>8 DEF Follows, w

\* cb_ready_test_iterator() shows the iterator in the test case.
LEMMA ReadyIterator ==
  ASSUME NEW v, IsView(v), NEW q \in Stages, NEW m, NEW r \in Stages, Shows(v, q),
         q.at = "case", m.type = "ready-test-iterator", m.n \in Nat,
         q.left > 0, q.caseLeft > 0,
         r.at = "iterator", r.left = q.left + (m.n - 1),
         r.caseLeft = q.caseLeft + (m.n - 1), r.iterLeft = m.n
  PROVE  Follows(v, Emitted(v, m), m, r)
<1>1. PICK c : v.connected = {c} /\ IsCaseRow(v, q, c)
  BY DEF Shows
<1>2. c \in Nat \ {0} /\ c \in DOMAIN v.rows /\ v.rows[c].kind = "case"
  BY <1>1, Types DEF IsCaseRow
<1> DEFINE k == m.n - 1
           u == [v EXCEPT !.ui.n = @ + k, !.rows[c].n = @ + k]
           w == Emitted(v, m)
           x == NextRow(u)
<1>3. /\ w = AddRow(u, "iterator", c, m.n, Success)
      /\ x = NextRow(u) /\ u = Grown(v, c, k)
  <2>1. {y \in v.connected : v.rows[y].kind \in Listening(m.type)} = {c}
    BY <1>1, <1>2, Listeners
  <2>2. Emitted(v, m) = RowHears(v, c, m)
    BY <2>1, <1>2, EmittedToOne, UIHearsNothing
  <2>3. RowHears(v, c, m) = ReadyTestIterator(v, c, m.n)
    BY DEF RowHears
  <2> QED
    BY <2>2, <2>3 DEF ReadyTestIterator, TestsAdded, Grown
<1>4. v.ui.n + k \in Nat /\ v.rows[c].n + k \in Nat /\ k \in Int
  <2>1. v.ui.n = v.ui.done + q.left /\ v.rows[c].n >= v.rows[c].done + q.caseLeft
    BY <1>1 DEF Shows, IsCaseRow
  <2>2. /\ v.ui.n \in Nat /\ v.rows[c].n \in Nat /\ m.n \in Nat
        /\ v.ui.done \in Nat /\ v.rows[c].done \in Nat
        /\ q.left \in Nat /\ q.caseLeft \in Nat
    BY <1>2, Types, StageTypes
  <2> QED
    BY <2>1, <2>2
<1> HIDE DEF k, u, w, x
<1>5. /\ IsView(u) /\ u.connected = {c} /\ DOMAIN u.rows = DOMAIN v.rows
      /\ u.ui.n = v.ui.n + k /\ u.ui.done = v.ui.done /\ u.ui.status = v.ui.status
      /\ u.rows[c] = [v.rows[c] EXCEPT !.n = @ + k]
  BY <1>1, <1>2, <1>3, <1>4, MoreTests
<1>6. /\ IsView(w) /\ w.ui = u.ui /\ w.connected = {c, x} /\ x # c
      /\ x \in DOMAIN w.rows /\ c \in DOMAIN w.rows /\ w.rows[c] = u.rows[c]
      /\ w.rows[x].kind = "iterator" /\ w.rows[x].parent = c /\ w.rows[x].status = Success
      /\ w.rows[x].n = m.n /\ w.rows[x].done = 0
  <2>1. /\ Success \in NoStatus .. Crash /\ c \in Nat
        /\ "iterator" \in {"case", "iterator", "test", "iterated"}
    BY <1>2 DEF NoStatus, Crash, Success
  <2>2. IsAdded(u, w, x, "iterator", c, m.n, Success)
    BY <2>1, <1>3, <1>5, AddedRow
  <2> QED
    BY <2>2, <1>2, <1>5 DEF IsAdded
<1>7. /\ r.at = "iterator" /\ r.left = q.left + k /\ r.caseLeft = q.caseLeft + k
      /\ r.iterLeft = m.n
  BY DEF k
<1>8. /\ w.rows[c].kind = "case" /\ w.rows[c].parent = NoRow
      /\ w.rows[c].n = v.rows[c].n + k /\ w.rows[c].done = v.rows[c].done
      /\ w.rows[c].status = v.rows[c].status
  <2>1. v.rows[c] \in RowRecords
    BY <1>2 DEF IsView
  <2> QED
    BY <2>1, <1>1, <1>5, <1>6 DEF IsCaseRow, RowRecords
<1>9. v.ui.n \in Nat /\ v.rows[c].n \in Nat /\ v.rows[c].done \in Nat /\ v.ui.done \in Nat
  BY <1>2, Types
<1>10. q.left \in Nat /\ q.caseLeft \in Nat
  BY StageTypes
<1>11. IsCaseRow(w, r, c)
  <2>1. w.rows[c].n >= w.rows[c].done + r.caseLeft
    BY <1>1, <1>4, <1>7, <1>8, <1>9, <1>10 DEF IsCaseRow
  <2> QED
    BY <2>1, <1>1, <1>5, <1>6, <1>8 DEF IsCaseRow
<1>12. IsIteratorRow(w, r, c, x)
  <2>1. Success <= w.rows[x].status /\ w.rows[x].status <= w.rows[c].status
    BY <1>1, <1>6, <1>8 DEF IsCaseRow, Success
  <2>2. w.rows[x].n >= w.rows[x].done + r.iterLeft
    BY <1>6, <1>7
  <2> QED
    BY <2>1, <2>2, <1>6, <1>7 DEF IsIteratorRow
<1>13. Shows(w, r)
  <2>1. w.ui.n = w.ui.done + r.left
    BY <1>4, <1>5, <1>6, <1>7, <1>9, <1>10 DEF Shows
  <2> QED
    BY <2>1, <1>6, <1>7, <1>11, <1>12 DEF Shows
<1> QED
  BY <1>5, <1>6, <1>13 DEF Follows, w

-----------------------------------------------------------------------------
\* What the handler of a result does to the rows.
IsShown(v, w, x, status) ==
  /\ IsView(w) /\ w.connected = v.connected /\ DOMAIN w.rows = DOMAIN v.rows
  /\ w.ui.n = v.ui.n /\ w.ui.done = v.ui.done
  /\ w.ui.status = IF status > v.ui.status THEN status ELSE v.ui.status
  /\ \A y \in DOMAIN v.rows :
       /\ w.rows[y].kind = v.rows[y].kind /\ w.rows[y].parent = v.rows[y].parent
       /\ w.rows[y].n = v.rows[y].n /\ w.rows[y].done = v.rows[y].done
       /\ w.rows[y].status # v.rows[y].status =>
            w.rows[y].status = status /\ (y = x \/ IsRaised(v.rows, x, status, y))
  /\ \A y \in DOMAIN v.rows :
       IsRaised(v.rows, x, status, y) /\ y # x /\ status # Success => w.rows[y].status = status
  /\ w.rows[x].status = status \/ (status = Success /\ w.rows[x].status = v.rows[x].status)

\* A result changes statuses alone, and the status of the run is raised to it.
LEMMA ResultIsShown ==
  ASSUME NEW v, IsView(v), NEW x \in DOMAIN v.rows, NEW status \in Statuses,
         NEW w, w = ResultOfTest(v, x, status)
  PROVE  IsShown(v, w, x, status)
<1>1. CASE status # Success
  <2>1. w = Raised(v, x, status)
    BY <1>1 DEF ResultOfTest
  <2> QED
    BY <2>1, RaisedRow DEF IsShown
<1>0. v.ui.status \in Nat /\ ~(Success > v.ui.status)
  BY Types DEF Statuses, Success, Crash
<1>2. CASE status = Success /\ v.rows[x].status = NoStatus
  <2>1. w = Succeeded(v, x)
    BY <1>2 DEF ResultOfTest, Succeeded
  <2>0. IsSucceeded(v, w, x)
    BY <2>1, SucceededRow
  <2>2. v.rows[x] \in RowRecords
    BY DEF IsView
  <2>3. /\ w.rows[x].kind = v.rows[x].kind /\ w.rows[x].parent = v.rows[x].parent
        /\ w.rows[x].n = v.rows[x].n /\ w.rows[x].done = v.rows[x].done
        /\ w.rows[x].status = Success
    BY <2>0, <2>2 DEF RowRecords, IsSucceeded
  <2>4. /\ IsView(w) /\ w.connected = v.connected /\ DOMAIN w.rows = DOMAIN v.rows
        /\ w.ui = v.ui /\ \A y \in DOMAIN v.rows \ {x} : w.rows[y] = v.rows[y]
    BY <2>0 DEF IsSucceeded
  <2> QED
    BY <1>0, <1>2, <2>3, <2>4 DEF IsShown
<1>3. CASE status = Success /\ v.rows[x].status # NoStatus
  <2>1. w = v
    BY <1>3 DEF ResultOfTest
  <2> QED
    BY <1>0, <1>3, <2>1 DEF IsShown
<1> QED
  BY <1>1, <1>2, <1>3

\* The result of a test, whose row is below the test case,
LEMMA ResultOfATest ==
  ASSUME NEW v, IsView(v), NEW q \in Stages, NEW m, NEW r \in Stages, Shows(v, q),
         q.at = "test", m.type = "result", m.status \in Statuses, r = q
  PROVE  Follows(v, Emitted(v, m), m, r)
<1>1. PICK c, x : v.connected = {c, x} /\ IsCaseRow(v, q, c) /\ IsTestRow(v, "test", c, x)
  BY DEF Shows
<1>2. /\ c \in Nat \ {0} /\ c \in DOMAIN v.rows /\ v.rows[c].kind = "case"
      /\ x \in Nat \ {0} /\ x \in DOMAIN v.rows /\ v.rows[x].kind = "test"
      /\ x # c /\ v.rows[x].parent = c /\ v.rows[c].parent = NoRow
  BY <1>1, Types DEF IsCaseRow, IsTestRow
<1> DEFINE w == Emitted(v, m)
<1>3. w = ResultOfTest(v, x, m.status)
  <2>1. {y \in v.connected : v.rows[y].kind \in Listening(m.type)} = {x}
    BY <1>1, <1>2, Listeners
  <2>2. w = RowHears(v, x, m)
    BY <2>1, <1>2, EmittedToOne, UIHearsNothing
  <2> QED
    BY <2>2 DEF RowHears
<1> HIDE DEF w
<1>4. IsShown(v, w, x, m.status)
  BY <1>2, <1>3, ResultIsShown
<1>5. \A y : IsRaised(v.rows, x, m.status, y) <=> y = c /\ v.rows[c].status < m.status
  <2>1. Ancestors(v.rows, x) = {c} /\ Ancestors(v.rows, c) = {}
    BY <1>2, AncestorsOfRow DEF NoRow
  <2> QED
    BY <2>1 DEF IsRaised
<1>6. /\ r.at = "test" /\ r.left = q.left /\ r.caseLeft = q.caseLeft
  OBVIOUS
<1>7. /\ m.status \in Int /\ v.ui.status \in Int /\ Success <= m.status
      /\ v.rows[c].status \in Int /\ v.rows[x].status \in Int
  BY <1>2, Types DEF Statuses, Success, NoStatus, Crash
<1>8. /\ w.rows[c].status = v.rows[c].status \/ w.rows[c].status = m.status
      /\ v.rows[c].status < m.status /\ m.status # Success => w.rows[c].status = m.status
      /\ \/ w.rows[x].status = m.status
         \/ m.status = Success /\ w.rows[x].status = v.rows[x].status
      /\ ~(v.rows[c].status < m.status) => w.rows[c].status = v.rows[c].status
  BY <1>2, <1>4, <1>5 DEF IsShown
<1>9. /\ Success <= v.rows[c].status /\ v.rows[c].status <= v.ui.status
      /\ v.rows[x].status <= v.rows[c].status
  BY <1>1 DEF IsCaseRow, IsTestRow
<1>10. /\ Success <= w.rows[c].status /\ w.rows[c].status <= w.ui.status
       /\ w.rows[x].status <= w.rows[c].status
  <2>1. w.ui.status = IF m.status > v.ui.status THEN m.status ELSE v.ui.status
    BY <1>4 DEF IsShown
  <2> QED
    BY <1>7, <1>8, <1>9, <2>1 DEF Success
<1>11. IsCaseRow(w, r, c) /\ IsTestRow(w, "test", c, x)
  BY <1>1, <1>2, <1>4, <1>6, <1>10 DEF IsShown, IsCaseRow, IsTestRow
<1>12. Shows(w, r)
  <2>1. w.ui.n = w.ui.done + r.left
    BY <1>4, <1>6 DEF Shows, IsShown
  <2>2. w.connected = {c, x}
    BY <1>1, <1>4 DEF IsShown
  <2> QED
    BY <2>1, <2>2, <1>6, <1>11 DEF Shows
<1> QED
  BY <1>4, <1>12 DEF Follows, w, IsShown

\* and of an iterated test, whose row is below the iterator.
LEMMA ResultOfAnIteratedTest ==
  ASSUME NEW v, IsView(v), NEW q \in Stages, NEW m, NEW r \in Stages, Shows(v, q),
         q.at = "iterated", m.type = "result", m.status \in Statuses, r = q
  PROVE  Follows(v, Emitted(v, m), m, r)
<1>1. PICK c, i, x : /\ v.connected = {c, i, x} /\ IsCaseRow(v, q, c)
                     /\ IsIteratorRow(v, q, c, i) /\ IsTestRow(v, "iterated", i, x) /\ x # c
  BY DEF Shows
<1>2. /\ c \in Nat \ {0} /\ c \in DOMAIN v.rows /\ v.rows[c].kind = "case"
      /\ i \in Nat \ {0} /\ i \in DOMAIN v.rows /\ v.rows[i].kind = "iterator"
      /\ x \in Nat \ {0} /\ x \in DOMAIN v.rows /\ v.rows[x].kind = "iterated"
      /\ x # i /\ x # c /\ i # c
      /\ v.rows[x].parent = i /\ v.rows[i].parent = c /\ v.rows[c].parent = NoRow
  BY <1>1, Types DEF IsCaseRow, IsTestRow, IsIteratorRow
<1> DEFINE w == Emitted(v, m)
<1>3. w = ResultOfTest(v, x, m.status)
  <2>1. {y \in v.connected : v.rows[y].kind \in Listening(m.type)} = {x}
    BY <1>1, <1>2, Listeners
  <2>2. w = RowHears(v, x, m)
    BY <2>1, <1>2, EmittedToOne, UIHearsNothing
  <2> QED
    BY <2>2 DEF RowHears
<1> HIDE DEF w
<1>4. IsShown(v, w, x, m.status)
  BY <1>2, <1>3, ResultIsShown
<1>7. /\ m.status \in Int /\ v.ui.status \in Int /\ Success <= m.status
      /\ v.rows[c].status \in Int /\ v.rows[x].status \in Int /\ v.rows[i].status \in Int
  BY <1>2, Types DEF Statuses, Success, NoStatus, Crash
<1>9. /\ Success <= v.rows[c].status /\ v.rows[c].status <= v.ui.status
      /\ Success <= v.rows[i].status /\ v.rows[i].status <= v.rows[c].status
      /\ v.rows[x].status <= v.rows[i].status
  BY <1>1 DEF IsCaseRow, IsTestRow, IsIteratorRow
<1>5. \A y : IsRaised(v.rows, x, m.status, y) <=>
               \/ y = i /\ v.rows[i].status < m.status
               \/ y = c /\ v.rows[c].status < m.status
  <2>1. /\ Ancestors(v.rows, x) = {i, c} /\ Ancestors(v.rows, i) = {c}
        /\ Ancestors(v.rows, c) = {}
    BY <1>2, AncestorsOfRow DEF NoRow
  <2>2. v.rows[c].status < m.status => v.rows[i].status < m.status
    BY <1>7, <1>9
  <2> QED
    BY <1>2, <2>1, <2>2 DEF IsRaised
<1>6. /\ r.at = "iterated" /\ r.left = q.left /\ r.caseLeft = q.caseLeft
      /\ r.iterLeft = q.iterLeft
  OBVIOUS
<1>8. /\ v.rows[c].status < m.status /\ m.status # Success => w.rows[c].status = m.status
      /\ ~(v.rows[c].status < m.status) => w.rows[c].status = v.rows[c].status
      /\ v.rows[i].status < m.status /\ m.status # Success => w.rows[i].status = m.status
      /\ ~(v.rows[i].status < m.status) => w.rows[i].status = v.rows[i].status
      /\ \/ w.rows[x].status = m.status
         \/ m.status = Success /\ w.rows[x].status = v.rows[x].status
      /\ w.rows[c].status = v.rows[c].status \/ w.rows[c].status = m.status
      /\ w.rows[i].status = v.rows[i].status \/ w.rows[i].status = m.status
  BY <1>2, <1>4, <1>5 DEF IsShown
<1>10. /\ Success <= w.rows[c].status /\ w.rows[c].status <= w.ui.status
       /\ Success <= w.rows[i].status /\ w.rows[i].status <= w.rows[c].status
       /\ w.rows[x].status <= w.rows[i].status
  <2>1. w.ui.status = IF m.status > v.ui.status THEN m.status ELSE v.ui.status
    BY <1>4 DEF IsShown
  <2> QED
    BY <1>7, <1>8, <1>9, <2>1 DEF Success
<1>11. /\ IsCaseRow(w, r, c) /\ IsIteratorRow(w, r, c, i)
       /\ IsTestRow(w, "iterated", i, x)
  BY <1>1, <1>2, <1>4, <1>6, <1>10 DEF IsShown, IsCaseRow, IsTestRow, IsIteratorRow
<1>12. Shows(w, r)
  <2>1. w.ui.n = w.ui.done + r.left
    BY <1>4, <1>6 DEF Shows, IsShown
  <2>2. w.connected = {c, i, x}
    BY <1>1, <1>4 DEF IsShown
  <2> QED
    BY <2>1, <2>2, <1>2, <1>6, <1>11 DEF Shows
<1> QED
  BY <1>4, <1>12 DEF Follows, w, IsShown

-----------------------------------------------------------------------------
\* What is left of a view when a test has been counted and its row freed.
IsCompleted(v, w, x) ==
  /\ IsView(w) /\ w.connected = v.connected \ {x} /\ DOMAIN w.rows = DOMAIN v.rows \ {x}
  /\ w.ui.n = v.ui.n /\ w.ui.done = v.ui.done + 1 /\ w.ui.status = v.ui.status
  /\ \A y \in DOMAIN v.rows \ {x} :
       /\ w.rows[y].kind = v.rows[y].kind /\ w.rows[y].parent = v.rows[y].parent
       /\ w.rows[y].n = v.rows[y].n /\ w.rows[y].status = v.rows[y].status
       /\ w.rows[y].done = IF y \in Ancestors(v.rows, x) THEN v.rows[y].done + 1
                           ELSE v.rows[y].done

\* A test that is complete has been counted in every row above it, and has no row.
LEMMA CompletedTest ==
  ASSUME NEW v, IsView(v), NEW x \in DOMAIN v.rows, NEW w, w = CompleteTest(v, x)
  PROVE  IsCompleted(v, w, x)
<1> DEFINE u == Incremented(v, x)
<1>1. w = FreeRow(u, x) /\ u = Incremented(v, x)
  BY DEF CompleteTest
<1> HIDE DEF u
<1>2. /\ IsView(u) /\ u.connected = v.connected /\ DOMAIN u.rows = DOMAIN v.rows
      /\ u.ui.n = v.ui.n /\ u.ui.done = v.ui.done + 1 /\ u.ui.status = v.ui.status
      /\ \A y \in DOMAIN v.rows :
           /\ u.rows[y].kind = v.rows[y].kind /\ u.rows[y].parent = v.rows[y].parent
           /\ u.rows[y].n = v.rows[y].n /\ u.rows[y].status = v.rows[y].status
           /\ u.rows[y].done = IF y \in Ancestors(v.rows, x) THEN v.rows[y].done + 1
                               ELSE v.rows[y].done
  BY <1>1, IncrementedRows
<1>3. /\ IsView(w) /\ w.ui = u.ui /\ w.connected = u.connected \ {x}
      /\ DOMAIN w.rows = DOMAIN u.rows \ {x}
      /\ \A y \in DOMAIN u.rows \ {x} : w.rows[y] = u.rows[y]
  BY <1>1, <1>2, FreedRow
<1> QED
  BY <1>2, <1>3 DEF IsCompleted

IsFreed(v, w, x) ==
  /\ IsView(w) /\ w.ui = v.ui /\ w.connected = v.connected \ {x}
  /\ DOMAIN w.rows = DOMAIN v.rows \ {x}
  /\ \A y \in DOMAIN v.rows \ {x} : w.rows[y] = v.rows[y]

\* A row that is freed is not connected any more.
LEMMA RowIsFreed ==
  ASSUME NEW v, IsView(v), NEW x, NEW w, w = FreeRow(v, x)
  PROVE  IsFreed(v, w, x)
BY FreedRow DEF IsFreed

\* cb_complete_test() leads back to the test case,
LEMMA CompletionOfATest ==
  ASSUME NEW v, IsView(v), NEW q \in Stages, NEW m, NEW r \in Stages, Shows(v, q),
         q.at = "test", m.type = "complete-test", q.left > 0, q.caseLeft > 0,
         r.at = "case", r.left = q.left - 1, r.caseLeft = q.caseLeft - 1
  PROVE  Follows(v, Emitted(v, m), m, r)
<1>1. PICK c, x : v.connected = {c, x} /\ IsCaseRow(v, q, c) /\ IsTestRow(v, "test", c, x)
  BY DEF Shows
<1>2. /\ c \in Nat \ {0} /\ c \in DOMAIN v.rows /\ v.rows[c].kind = "case"
      /\ x \in Nat \ {0} /\ x \in DOMAIN v.rows /\ v.rows[x].kind = "test"
      /\ x # c /\ v.rows[x].parent = c /\ v.rows[c].parent = NoRow
  BY <1>1, Types DEF IsCaseRow, IsTestRow
<1> DEFINE w == Emitted(v, m)
<1>3. w = CompleteTest(v, x)
  <2>1. {y \in v.connected : v.rows[y].kind \in Listening(m.type)} = {x}
    BY <1>1, <1>2, Listeners
  <2>2. w = RowHears(v, x, m)
    BY <2>1, <1>2, EmittedToOne, UIHearsNothing
  <2> QED
    BY <2>2 DEF RowHears
<1> HIDE DEF w
<1>4. IsCompleted(v, w, x)
  BY <1>2, <1>3, CompletedTest
<1>5. Ancestors(v.rows, x) = {c}
  BY <1>2, AncestorsOfRow DEF NoRow
<1>6. r.at = "case" /\ r.left = q.left - 1 /\ r.caseLeft = q.caseLeft - 1
  OBVIOUS
<1>7. /\ q.left \in Nat /\ q.caseLeft \in Nat /\ v.ui.n \in Nat /\ v.ui.done \in Nat
      /\ v.rows[c].n \in Nat /\ v.rows[c].done \in Nat
  BY <1>2, Types, StageTypes
<1>8. /\ w.rows[c].done = v.rows[c].done + 1 /\ w.rows[c].n = v.rows[c].n
      /\ w.ui.done = v.ui.done + 1 /\ w.ui.n = v.ui.n
  BY <1>2, <1>4, <1>5 DEF IsCompleted
<1>9. IsCaseRow(w, r, c)
  <2>1. w.rows[c].n >= w.rows[c].done + r.caseLeft
    BY <1>1, <1>6, <1>7, <1>8 DEF IsCaseRow
  <2> QED
    BY <2>1, <1>1, <1>2, <1>4 DEF IsCompleted, IsCaseRow
<1>10. Shows(w, r)
  <2>1. w.ui.n = w.ui.done + r.left
    BY <1>6, <1>7, <1>8 DEF Shows
  <2>2. w.connected = {c}
    BY <1>1, <1>2, <1>4 DEF IsCompleted
  <2> QED
    BY <2>1, <2>2, <1>6, <1>9 DEF Shows
<1> QED
  BY <1>4, <1>10 DEF Follows, w, IsCompleted

\* and cb_complete_iterated_test() to the iterator.
LEMMA CompletionOfAnIteratedTest ==
  ASSUME NEW v, IsView(v), NEW q \in Stages, NEW m, NEW r \in Stages, Shows(v, q),
         q.at = "iterated", m.type = "complete-iterated-test",
         q.left > 0, q.caseLeft > 0, q.iterLeft > 0,
         r.at = "iterator", r.left = q.left - 1, r.caseLeft = q.caseLeft - 1,
         r.iterLeft = q.iterLeft - 1
  PROVE  Follows(v, Emitted(v, m), m, r)
<1>1. PICK c, i, x : /\ v.connected = {c, i, x} /\ IsCaseRow(v, q, c)
                     /\ IsIteratorRow(v, q, c, i) /\ IsTestRow(v, "iterated", i, x) /\ x # c
  BY DEF Shows
<1>2. /\ c \in Nat \ {0} /\ c \in DOMAIN v.rows /\ v.rows[c].kind = "case"
      /\ i \in Nat \ {0} /\ i \in DOMAIN v.rows /\ v.rows[i].kind = "iterator"
      /\ x \in Nat \ {0} /\ x \in DOMAIN v.rows /\ v.rows[x].kind = "iterated"
      /\ x # i /\ x # c /\ i # c
      /\ v.rows[x].parent = i /\ v.rows[i].parent = c /\ v.rows[c].parent = NoRow
  BY <1>1, Types DEF IsCaseRow, IsTestRow, IsIteratorRow
<1> DEFINE w == Emitted(v, m)
<1>3. w = CompleteTest(v, x)
  <2>1. {y \in v.connected : v.rows[y].kind \in Listening(m.type)} = {x}
    BY <1>1, <1>2, Listeners
  <2>2. w = RowHears(v, x, m)
    BY <2>1, <1>2, EmittedToOne, UIHearsNothing
  <2> QED
    BY <2>2 DEF RowHears
<1> HIDE DEF w
<1>4. IsCompleted(v, w, x)
  BY <1>2, <1>3, CompletedTest
<1>5. Ancestors(v.rows, x) = {i, c}
  BY <1>2, AncestorsOfRow DEF NoRow
<1>6. /\ r.at = "iterator" /\ r.left = q.left - 1 /\ r.caseLeft = q.caseLeft - 1
      /\ r.iterLeft = q.iterLeft - 1
  OBVIOUS
<1>7. /\ q.left \in Nat /\ q.caseLeft \in Nat /\ q.iterLeft \in Nat
      /\ v.ui.n \in Nat /\ v.ui.done \in Nat
      /\ v.rows[c].n \in Nat /\ v.rows[c].done \in Nat
      /\ v.rows[i].n \in Nat /\ v.rows[i].done \in Nat
  BY <1>2, Types, StageTypes
<1>8. /\ w.rows[c].done = v.rows[c].done + 1 /\ w.rows[c].n = v.rows[c].n
      /\ w.rows[i].done = v.rows[i].done + 1 /\ w.rows[i].n = v.rows[i].n
      /\ w.ui.done = v.ui.done + 1 /\ w.ui.n = v.ui.n
  BY <1>2, <1>4, <1>5 DEF IsCompleted
<1>9. IsCaseRow(w, r, c)
  <2>1. w.rows[c].n >= w.rows[c].done + r.caseLeft
    BY <1>1, <1>6, <1>7, <1>8 DEF IsCaseRow
  <2> QED
    BY <2>1, <1>1, <1>2, <1>4 DEF IsCompleted, IsCaseRow
<1>10. IsIteratorRow(w, r, c, i)
  <2>1. w.rows[i].n >= w.rows[i].done + r.iterLeft
    BY <1>1, <1>6, <1>7, <1>8 DEF IsIteratorRow
  <2> QED
    BY <2>1, <1>1, <1>2, <1>4 DEF IsCompleted, IsIteratorRow
<1>11. Shows(w, r)
  <2>1. w.ui.n = w.ui.done + r.left
    BY <1>6, <1>7, <1>8 DEF Shows
  <2>2. w.connected = {c, i}
    BY <1>1, <1>2, <1>4 DEF IsCompleted
  <2> QED
    BY <2>1, <2>2, <1>6, <1>9, <1>10 DEF Shows
<1> QED
  BY <1>4, <1>11 DEF Follows, w, IsCompleted

\* cb_start_iterated_test() shows the test in the iterator.
LEMMA StartIteratedTest ==
  ASSUME NEW v, IsView(v), NEW q \in Stages, NEW m, NEW r \in Stages, Shows(v, q),
         q.at = "iterator", m.type = "start-iterated-test", r.at = "iterated",
         r.left = q.left, r.caseLeft = q.caseLeft, r.iterLeft = q.iterLeft
  PROVE  Follows(v, Emitted(v, m), m, r)
<1>1. PICK c, i : v.connected = {c, i} /\ IsCaseRow(v, q, c) /\ IsIteratorRow(v, q, c, i)
  BY DEF Shows
<1>2. /\ c \in Nat \ {0} /\ c \in DOMAIN v.rows /\ v.rows[c].kind = "case"
      /\ i \in Nat \ {0} /\ i \in DOMAIN v.rows /\ v.rows[i].kind = "iterator"
      /\ i # c /\ v.rows[i].parent = c
  BY <1>1, Types DEF IsCaseRow, IsIteratorRow
<1> DEFINE w == Emitted(v, m)
           x == NextRow(v)
<1>3. w = AddRow(v, "iterated", i, 0, NoStatus) /\ x = NextRow(v)
  <2>1. {y \in v.connected : v.rows[y].kind \in Listening(m.type)} = {i}
    BY <1>1, <1>2, Listeners
  <2>2. w = RowHears(v, i, m)
    BY <2>1, <1>2, EmittedToOne, UIHearsNothing
  <2> QED
    BY <2>2 DEF RowHears
<1> HIDE DEF w, x
<1>4. /\ IsView(w) /\ w.ui = v.ui /\ w.connected = {c, i, x} /\ x # c /\ x # i
      /\ x \in DOMAIN w.rows /\ c \in DOMAIN w.rows /\ i \in DOMAIN w.rows
      /\ w.rows[c] = v.rows[c] /\ w.rows[i] = v.rows[i]
      /\ w.rows[x].kind = "iterated" /\ w.rows[x].parent = i /\ w.rows[x].status = NoStatus
  <2>1. /\ NoStatus \in NoStatus .. Crash /\ i \in Nat /\ 0 \in Nat
        /\ "iterated" \in {"case", "iterator", "test", "iterated"}
    BY <1>2 DEF NoStatus, Crash
  <2>2. IsAdded(v, w, x, "iterated", i, 0, NoStatus)
    BY <2>1, <1>3, AddedRow
  <2> QED
    BY <2>2, <1>1, <1>2 DEF IsAdded
<1>5. /\ r.at = "iterated" /\ r.left = q.left /\ r.caseLeft = q.caseLeft
      /\ r.iterLeft = q.iterLeft
  OBVIOUS
<1>6. IsCaseRow(w, r, c) /\ IsIteratorRow(w, r, c, i)
  BY <1>1, <1>4, <1>5 DEF IsCaseRow, IsIteratorRow
<1>7. IsTestRow(w, "iterated", i, x)
  <2>1. w.rows[i].status \in NoStatus .. Crash
    BY <1>4, Types
  <2> QED
    BY <2>1, <1>4 DEF IsTestRow, NoStatus, Crash
<1>8. Shows(w, r)
  <2>1. w.ui.n = w.ui.done + r.left
    BY <1>4, <1>5 DEF Shows
  <2> QED
    BY <2>1, <1>4, <1>5, <1>6, <1>7 DEF Shows
<1> QED
  BY <1>4, <1>8 DEF Follows, w

\* cb_complete_test_iterator() frees the row of the iterator,
LEMMA CompletionOfAnIterator ==
  ASSUME NEW v, IsView(v), NEW q \in Stages, NEW m, NEW r \in Stages, Shows(v, q),
         q.at = "iterator", m.type = "complete-test-iterator", r.at = "case",
         r.left = q.left, r.caseLeft = q.caseLeft
  PROVE  Follows(v, Emitted(v, m), m, r)
<1>1. PICK c, i : v.connected = {c, i} /\ IsCaseRow(v, q, c) /\ IsIteratorRow(v, q, c, i)
  BY DEF Shows
<1>2. /\ c \in Nat \ {0} /\ c \in DOMAIN v.rows /\ v.rows[c].kind = "case"
      /\ i \in Nat \ {0} /\ i \in DOMAIN v.rows /\ v.rows[i].kind = "iterator"
      /\ i # c
  BY <1>1, Types DEF IsCaseRow, IsIteratorRow
<1> DEFINE w == Emitted(v, m)
<1>3. w = FreeRow(v, i)
  <2>1. {y \in v.connected : v.rows[y].kind \in Listening(m.type)} = {i}
    BY <1>1, <1>2, Listeners
  <2>2. w = RowHears(v, i, m)
    BY <2>1, <1>2, EmittedToOne, UIHearsNothing
  <2> QED
    BY <2>2 DEF RowHears
<1> HIDE DEF w
<1>4. IsFreed(v, w, i)
  BY <1>3, RowIsFreed
<1>5. r.at = "case" /\ r.left = q.left /\ r.caseLeft = q.caseLeft
  OBVIOUS
<1>6. w.connected = {c} /\ c \in DOMAIN w.rows /\ w.rows[c] = v.rows[c] /\ w.ui = v.ui
  BY <1>1, <1>2, <1>4 DEF IsFreed
<1>7. IsCaseRow(w, r, c)
  BY <1>1, <1>5, <1>6 DEF IsCaseRow
<1>8. Shows(w, r)
  <2>1. w.ui.n = w.ui.done + r.left
    BY <1>5, <1>6 DEF Shows
  <2> QED
    BY <2>1, <1>5, <1>6, <1>7 DEF Shows
<1> QED
  BY <1>4, <1>8 DEF Follows, w, IsFreed

\* cb_complete_test_case() that of the test case,
LEMMA CompletionOfACase ==
  ASSUME NEW v, IsView(v), NEW q \in Stages, NEW m, NEW r \in Stages, Shows(v, q),
         q.at = "case", m.type = "complete-test-case", r.at = "suite", r.left = q.left
  PROVE  Follows(v, Emitted(v, m), m, r)
<1>1. PICK c : v.connected = {c} /\ IsCaseRow(v, q, c)
  BY DEF Shows
<1>2. c \in Nat \ {0} /\ c \in DOMAIN v.rows /\ v.rows[c].kind = "case"
  BY <1>1, Types DEF IsCaseRow
<1> DEFINE w == Emitted(v, m)
<1>3. w = FreeRow(v, c)
  <2>1. {y \in v.connected : v.rows[y].kind \in Listening(m.type)} = {c}
    BY <1>1, <1>2, Listeners
  <2>2. w = RowHears(v, c, m)
    BY <2>1, <1>2, EmittedToOne, UIHearsNothing
  <2> QED
    BY <2>2 DEF RowHears
<1> HIDE DEF w
<1>4. IsFreed(v, w, c)
  BY <1>3, RowIsFreed
<1>5. r.at = "suite" /\ r.left = q.left
  OBVIOUS
<1>6. w.connected = {} /\ w.ui = v.ui
  BY <1>1, <1>4 DEF IsFreed
<1>8. Shows(w, r)
  <2>1. w.ui.n = w.ui.done + r.left
    BY <1>5, <1>6 DEF Shows
  <2> QED
    BY <2>1, <1>5, <1>6 DEF Shows
<1> QED
  BY <1>4, <1>8 DEF Follows, w, IsFreed

\* and where a signal has left something incomplete that remains, without the row of the
\* test case above it.
LEMMA CompletionOfACrashedCase ==
  ASSUME NEW v, IsView(v), NEW q \in Stages, NEW m, NEW r \in Stages, Shows(v, q),
         q.at \in {"test", "iterator", "iterated"}, m.type = "complete-test-case",
         r.at = "dead", r.left = q.left
  PROVE  Follows(v, Emitted(v, m), m, r)
<1>1. PICK c \in v.connected : /\ v.rows[c].kind = "case"
                               /\ \A y \in v.connected : v.rows[y].kind = "case" => y = c
  <2>1. CASE q.at = "test"
    <3>1. PICK c, x : v.connected = {c, x} /\ IsCaseRow(v, q, c) /\ IsTestRow(v, "test", c, x)
      BY <2>1 DEF Shows
    <3> QED
      BY <3>1 DEF IsCaseRow, IsTestRow
  <2>2. CASE q.at = "iterator"
    <3>1. PICK c, i : v.connected = {c, i} /\ IsCaseRow(v, q, c) /\ IsIteratorRow(v, q, c, i)
      BY <2>2 DEF Shows
    <3> QED
      BY <3>1 DEF IsCaseRow, IsIteratorRow
  <2>3. CASE q.at = "iterated"
    <3>1. PICK c, i, x : /\ v.connected = {c, i, x} /\ IsCaseRow(v, q, c)
                         /\ IsIteratorRow(v, q, c, i) /\ IsTestRow(v, "iterated", i, x)
      BY <2>3 DEF Shows
    <3> QED
      BY <3>1 DEF IsCaseRow, IsIteratorRow, IsTestRow
  <2> QED
    BY <2>1, <2>2, <2>3
<1>2. c \in Nat \ {0} /\ AreLeft(v)
  BY Types, ShownRows
<1> DEFINE w == Emitted(v, m)
<1>3. w = FreeRow(v, c)
  <2>1. {y \in v.connected : v.rows[y].kind \in Listening(m.type)} = {c}
    BY <1>1, Listeners
  <2>2. w = RowHears(v, c, m)
    BY <2>1, <1>2, EmittedToOne, UIHearsNothing
  <2> QED
    BY <2>2 DEF RowHears
<1> HIDE DEF w
<1>4. IsFreed(v, w, c)
  BY <1>3, RowIsFreed
<1>5. AreLeft(w)
  <2> SUFFICES ASSUME NEW x \in w.connected
               PROVE  /\ x \in DOMAIN w.rows
                      /\ w.rows[x].kind \in {"case", "iterator"} => w.rows[x].done <= w.rows[x].n
                      /\ w.rows[x].status <= w.ui.status
                      /\ w.rows[x].parent \in DOMAIN w.rows =>
                           w.rows[x].status <= w.rows[w.rows[x].parent].status
    BY DEF AreLeft
  <2>1. /\ x \in v.connected /\ x # c /\ x \in DOMAIN v.rows /\ w.ui = v.ui
        /\ x \in DOMAIN w.rows /\ w.rows[x] = v.rows[x]
    BY <1>2, <1>4 DEF IsFreed, AreLeft
  <2>2. \A y \in DOMAIN w.rows : y \in DOMAIN v.rows /\ w.rows[y] = v.rows[y]
    BY <1>4 DEF IsFreed
  <2> QED
    BY <2>1, <2>2, <1>2 DEF AreLeft
<1>6. Shows(w, r)
  <2>1. w.ui.n = w.ui.done + r.left
    BY <1>4 DEF Shows, IsFreed
  <2> QED
    BY <2>1, <1>5 DEF Shows
<1> QED
  BY <1>4, <1>6 DEF Follows, w, IsFreed

-----------------------------------------------------------------------------
\* Views that differ in nothing that a stage is about.
IsSame(v, w) ==
  /\ w.connected = v.connected /\ DOMAIN w.rows = DOMAIN v.rows
  /\ w.ui.n = v.ui.n /\ w.ui.done = v.ui.done /\ w.ui.status = v.ui.status
  /\ \A y \in DOMAIN v.rows :
       /\ w.rows[y].kind = v.rows[y].kind /\ w.rows[y].parent = v.rows[y].parent
       /\ w.rows[y].n = v.rows[y].n /\ w.rows[y].done = v.rows[y].done
       /\ w.rows[y].status = v.rows[y].status

\* They show the same stages.
LEMMA SameShows ==
  ASSUME NEW v, NEW w, NEW q, Shows(v, q), IsSame(v, w)
  PROVE  Shows(w, q)
<1>1. \A c : IsCaseRow(v, q, c) => IsCaseRow(w, q, c)
  BY DEF IsSame, IsCaseRow
<1>2. \A c, i : IsCaseRow(v, q, c) /\ IsIteratorRow(v, q, c, i) => IsIteratorRow(w, q, c, i)
  BY DEF IsSame, IsIteratorRow, IsCaseRow
<1>3. \A kind, p, x :
        p \in DOMAIN v.rows /\ IsTestRow(v, kind, p, x) => IsTestRow(w, kind, p, x)
  BY DEF IsSame, IsTestRow
<1>4. \A c, i : /\ IsCaseRow(v, q, c) => c \in DOMAIN v.rows
                /\ IsIteratorRow(v, q, c, i) => i \in DOMAIN v.rows
  BY DEF IsCaseRow, IsIteratorRow
<1>5. w.ui.n = w.ui.done + q.left /\ (q.at = "begin" => w.ui.done = 0)
      /\ (q.at \in {"begin", "suite", "over"} => w.connected = {})
  BY DEF IsSame, Shows
<1>6. q.at = "case" => \E c : w.connected = {c} /\ IsCaseRow(w, q, c)
  BY <1>1 DEF IsSame, Shows
<1>7. q.at = "test" =>
       \E c, x : w.connected = {c, x} /\ IsCaseRow(w, q, c) /\ IsTestRow(w, "test", c, x)
  BY <1>1, <1>3, <1>4 DEF IsSame, Shows
<1>8. q.at = "iterator" =>
       \E c, i : w.connected = {c, i} /\ IsCaseRow(w, q, c) /\ IsIteratorRow(w, q, c, i)
  BY <1>1, <1>2 DEF IsSame, Shows
<1>9. q.at = "iterated" =>
       \E c, i, x : /\ w.connected = {c, i, x} /\ IsCaseRow(w, q, c)
                    /\ IsIteratorRow(w, q, c, i) /\ IsTestRow(w, "iterated", i, x) /\ x # c
  BY <1>1, <1>2, <1>3, <1>4 DEF IsSame, Shows
<1>10. AreLeft(v) => AreLeft(w)
  BY DEF IsSame, AreLeft
<1>11. q.at \in {"dead", "left"} => AreLeft(w)
  BY <1>10 DEF Shows
<1> QED
  BY <1>5, <1>6, <1>7, <1>8, <1>9, <1>11 DEF Shows

\* cb_complete_run() changes the button and what runs, and no row.
LEMMA RunIsComplete ==
  ASSUME NEW v, IsView(v), NEW m, m.type = "complete-run", NEW w, w = Emitted(v, m)
  PROVE  IsView(w) /\ IsSame(v, w)
<1>1. w = HeardByUI(v, m)
  BY Listeners, EmittedToNone
<1>2. CASE w = v
  BY <1>2 DEF IsSame
<1>3. CASE w # v
  <2>1. w = [v EXCEPT !.ui.running = FALSE, !.ui.button = "redo"]
    BY <1>1, <1>3 DEF HeardByUI, UIHears, CompleteRun
  <2> DEFINE u == [v.ui EXCEPT !.running = FALSE, !.button = "redo"]
  <2>2. w \in [rows : {v.rows}, connected : {v.connected}, ui : {u}]
    BY <2>1 DEF IsView
  <2>3. u \in UIRecords /\ u.n = v.ui.n /\ u.done = v.ui.done /\ u.status = v.ui.status
    BY DEF IsView, UIRecords
  <2> HIDE DEF u
  <2>4. w.rows = v.rows /\ w.connected = v.connected /\ w.ui = u
    BY <2>2
  <2>5. IsView(w)
    BY <2>2, <2>3, <2>4 DEF IsView
  <2> QED
    BY <2>3, <2>4, <2>5 DEF IsSame
<1> QED
  BY <1>2, <1>3

\* The messages that no row hears.
LEMMA NoRowHears ==
  ASSUME NEW v, IsView(v), NEW q \in Stages, NEW m, NEW r \in Stages, Shows(v, q),
         \/ q.at \in InTestCase /\ m.type = "crash-test-case" /\ r = q
         \/ /\ q.at = "case" /\ m.type = "complete-test-iterator"
            /\ r.at = "case" /\ r.left = q.left /\ r.caseLeft <= q.caseLeft
  PROVE  Follows(v, Emitted(v, m), m, r)
<1>1. Emitted(v, m) = HeardByUI(v, m)
  <2>1. CASE m.type = "complete-test-iterator" /\ q.at = "case"
    <3>1. PICK c : v.connected = {c} /\ v.rows[c].kind = "case"
      BY <2>1 DEF Shows, IsCaseRow
    <3> QED
      BY <3>1, <2>1, Listeners, EmittedToNone
  <2>2. CASE m.type = "crash-test-case"
    <3>1. Listening(m.type) = {}
      BY <2>2, Listeners
    <3> QED
      BY <3>1, EmittedToNone
  <2> QED
    BY <2>1, <2>2
<1>2. Emitted(v, m) = v
  <2>1. m.type \notin {"ready-test-suite", "ready-test-case", "complete-run"}
    OBVIOUS
  <2> QED
    BY <2>1, <1>1, UIHearsNothing
<1>3. Shows(v, r)
  <2>1. CASE q.at = "case" /\ r.at = "case" /\ r.left = q.left /\ r.caseLeft <= q.caseLeft
    <3>1. PICK c : v.connected = {c} /\ IsCaseRow(v, q, c)
      BY <2>1 DEF Shows
    <3>2. /\ v.rows[c].n \in Nat /\ v.rows[c].done \in Nat
          /\ q.caseLeft \in Nat /\ r.caseLeft \in Nat
      BY <3>1, Types, StageTypes DEF IsCaseRow
    <3>3. v.rows[c].n >= v.rows[c].done + q.caseLeft
      BY <3>1 DEF IsCaseRow
    <3>4. v.rows[c].n >= v.rows[c].done + r.caseLeft
      BY <2>1, <3>2, <3>3
    <3>5. IsCaseRow(v, r, c)
      BY <3>1, <3>4 DEF IsCaseRow
    <3>6. v.ui.n = v.ui.done + r.left
      BY <2>1 DEF Shows
    <3> QED
      BY <2>1, <3>1, <3>5, <3>6 DEF Shows
  <2>2. CASE r = q
    BY <2>2
  <2> QED
    BY <2>1, <2>2
<1> QED
  BY <1>2, <1>3 DEF Follows

\* The end of the run, too, where what is left of it remains.
LEMMA CompletionOfTheRun ==
  ASSUME NEW v, IsView(v), NEW q \in Stages, NEW m, NEW r \in Stages, Shows(v, q),
         m.type = "complete-run", r.left = q.left,
         \/ q.at = "suite" /\ r.at = "over"
         \/ q.at \in {"case", "dead"} /\ r.at = "left"
  PROVE  Follows(v, Emitted(v, m), m, r)
<1> DEFINE w == Emitted(v, m)
<1>1. w = Emitted(v, m)
  OBVIOUS
<1> HIDE DEF w
<1>2. IsView(w) /\ IsSame(v, w)
  BY <1>1, RunIsComplete
<1>3. Shows(v, r)
  <2>1. v.ui.n = v.ui.done + r.left
    BY DEF Shows
  <2>2. CASE q.at = "suite" /\ r.at = "over"
    BY <2>1, <2>2 DEF Shows
  <2>3. CASE r.at = "left"
    <3>1. AreLeft(v)
      BY ShownRows
    <3> QED
      BY <2>1, <2>3, <3>1 DEF Shows
  <2> QED
    BY <2>2, <2>3
<1>4. Shows(w, r)
  BY <1>2, <1>3, SameShows
<1> QED
  BY <1>2, <1>4 DEF Follows, w, IsSame

\* cb_ready_test_suite() shows the number of tests,
LEMMA ReadySuite ==
  ASSUME NEW v, IsView(v), NEW q \in Stages, NEW m, NEW r \in Stages, Shows(v, q),
         q.at = "begin", m.type = "ready-test-suite", m.n \in Nat, context.attached,
         r.at = "suite", r.left = m.n
  PROVE  Follows(v, Emitted(v, m), m, r)
<1> DEFINE w == Emitted(v, m)
<1>1. w = UIHears(v, m)
  BY Listeners, EmittedToNone DEF HeardByUI
<1> HIDE DEF w
<1>2. w = [v EXCEPT !.ui.running = TRUE, !.ui.n = m.n, !.ui.button = "cancel"]
  BY <1>1 DEF UIHears
<1> DEFINE u == [v.ui EXCEPT !.running = TRUE, !.n = m.n, !.button = "cancel"]
<1>3. w \in [rows : {v.rows}, connected : {v.connected}, ui : {u}]
  BY <1>2 DEF IsView
<1>4. u \in UIRecords /\ u.n = m.n /\ u.done = v.ui.done /\ u.status = v.ui.status
  BY DEF IsView, UIRecords
<1> HIDE DEF u
<1>5. w.rows = v.rows /\ w.connected = v.connected /\ w.ui = u
  BY <1>3
<1>6. IsView(w)
  BY <1>3, <1>4, <1>5 DEF IsView
<1>7. r.at = "suite" /\ r.left = m.n
  OBVIOUS
<1>8. w.connected = {} /\ v.ui.done = 0
  BY <1>5 DEF Shows
<1>9. Shows(w, r)
  <2>1. w.ui.n = w.ui.done + r.left
    BY <1>4, <1>5, <1>7, <1>8
  <2> QED
    BY <2>1, <1>7, <1>8 DEF Shows
<1> QED
  BY <1>4, <1>5, <1>6, <1>9 DEF Follows, w

\* and cb_ready_test_case() a row for the test case.
LEMMA ReadyCase ==
  ASSUME NEW v, IsView(v), NEW q \in Stages, NEW m, NEW r \in Stages, Shows(v, q),
         q.at = "suite", m.type = "ready-test-case", m.n \in Nat, context.attached,
         r.at = "case", r.left = q.left, r.caseLeft <= m.n
  PROVE  Follows(v, Emitted(v, m), m, r)
<1> DEFINE w == Emitted(v, m)
           x == NextRow(v)
<1>1. w = UIHears(v, m)
  BY Listeners, EmittedToNone DEF HeardByUI
<1>2. w = AddRow(v, "case", NoRow, m.n, Success) /\ x = NextRow(v)
  BY <1>1 DEF UIHears
<1> HIDE DEF w, x
<1>3. IsAdded(v, w, x, "case", NoRow, m.n, Success)
  <2>1. /\ Success \in NoStatus .. Crash /\ NoRow \in Nat
        /\ "case" \in {"case", "iterator", "test", "iterated"}
    BY DEF NoStatus, Crash, Success, NoRow
  <2> QED
    BY <2>1, <1>2, AddedRow
<1>4. /\ IsView(w) /\ w.connected = {x} /\ x \in DOMAIN w.rows /\ w.ui = v.ui
      /\ w.rows[x].kind = "case" /\ w.rows[x].parent = NoRow /\ w.rows[x].n = m.n
      /\ w.rows[x].done = 0 /\ w.rows[x].status = Success
  BY <1>3 DEF IsAdded, Shows
<1>5. r.at = "case" /\ r.left = q.left /\ r.caseLeft <= m.n
  OBVIOUS
<1>6. IsCaseRow(w, r, x)
  <2>1. v.ui.status \in Statuses
    BY Types
  <2>2. Success <= Success /\ Success <= v.ui.status
    BY <2>1 DEF Statuses, Success, Crash
  <2>0. r.caseLeft \in Nat
    BY StageTypes
  <2>3. w.rows[x].n >= w.rows[x].done + r.caseLeft
    BY <1>4, <1>5, <2>0
  <2> QED
    BY <2>2, <2>3, <1>4 DEF IsCaseRow
<1>7. Shows(w, r)
  <2>1. w.ui.n = w.ui.done + r.left
    BY <1>4, <1>5 DEF Shows
  <2> QED
    BY <2>1, <1>4, <1>5, <1>6 DEF Shows
<1> QED
  BY <1>4, <1>7 DEF Follows, w

\* Every message of a step is followed.
LEMMA StepIsFollowed ==
  ASSUME NEW v, IsView(v), NEW q, NEW m, NEW r, Shows(v, q), IsStep(q, m, r),
         context.attached \/ m.type \notin {"ready-test-suite", "ready-test-case"}
  PROVE  Follows(v, Emitted(v, m), m, r)
<1>1. q \in Stages /\ r \in Stages
  BY DEF IsStep
<1>2. CASE IsTestStep(q, m, r)
  BY <1>1, <1>2, StartTest, ResultOfATest, ResultOfAnIteratedTest, CompletionOfATest
     DEF IsTestStep
<1>3. CASE IsIteratorStep(q, m, r)
  BY <1>1, <1>3, ReadyIterator, NoRowHears, StartIteratedTest,
     CompletionOfAnIteratedTest, CompletionOfAnIterator DEF IsIteratorStep
<1>4. CASE IsSuiteStep(q, m, r)
  <2>1. CASE m.type = "ready-test-suite"
    BY <1>1, <1>4, <2>1, ReadySuite DEF IsSuiteStep
  <2>2. CASE m.type = "ready-test-case"
    BY <1>1, <1>4, <2>2, ReadyCase DEF IsSuiteStep
  <2>3. CASE m.type = "crash-test-case"
    BY <1>1, <1>4, <2>3, NoRowHears DEF IsSuiteStep
  <2>4. CASE m.type = "complete-test-case"
    BY <1>1, <1>4, <2>4, CompletionOfACase, CompletionOfACrashedCase DEF IsSuiteStep
  <2>5. CASE m.type = "complete-run"
    BY <1>1, <1>4, <2>5, CompletionOfTheRun DEF IsSuiteStep
  <2> QED
    BY <1>4, <2>1, <2>2, <2>3, <2>4, <2>5 DEF IsSuiteStep
<1> QED
  BY <1>2, <1>3, <1>4 DEF IsStep

\* The status of a result is one.
LEMMA ResultStep ==
  ASSUME NEW q, NEW m, NEW r, IsStep(q, m, r), m.type = "result"
  PROVE  m.status \in Statuses
BY DEF IsStep, IsTestStep, IsIteratorStep, IsSuiteStep

\* Nothing comes after the end, and what must be attached to be heard comes first.
LEMMA LastStep ==
  ASSUME NEW q, NEW m, NEW r, IsStep(q, m, r)
  PROVE  /\ q.at \notin {"over", "left"}
         /\ m.type = "complete-run" => r.at \in {"over", "left"}
         /\ m.type = "ready-test-suite" => q.at = "begin"
         /\ m.type = "ready-test-case" => q.at = "suite"
         /\ q.at = "dead" => m.type = "complete-run"
<1>1. CASE IsTestStep(q, m, r)
  BY <1>1 DEF IsTestStep
<1>2. CASE IsIteratorStep(q, m, r)
  BY <1>2 DEF IsIteratorStep
<1>3. CASE IsSuiteStep(q, m, r)
  BY <1>3 DEF IsSuiteStep, InTestCase
<1> QED
  BY <1>1, <1>2, <1>3 DEF IsStep

-----------------------------------------------------------------------------
\* The stage of a run.
LEMMA StageFields ==
  ASSUME NEW x, IsRun(x)
  PROVE  /\ StageOf(x) \in Stages
         /\ StageOf(x).at = PointOf(x) /\ StageOf(x).left = RunLeft(x)
         /\ StageOf(x).caseLeft = CaseLeft(x) /\ StageOf(x).iterLeft = IterLeft(x)
<1>1. x \in Runs
  BY DEF IsRun
<1>2. PointOf(x) \in Points
  BY <1>1 DEF PointOf, Points, Runs
<1>3. Begun(x) \in Nat
  BY DEF Begun
<1>4. IterLeft(x) \in Nat /\ CaseLeft(x) \in Nat /\ RunLeft(x) \in Nat
  BY <1>1, <1>3 DEF IterLeft, CaseLeft, RunLeft, Runs
<1> QED
  BY <1>2, <1>4 DEF StageOf, Stages

\* Runs that differ in nothing that a stage is about.
LEMMA SameStage ==
  ASSUME NEW x, NEW y, PointOf(y) = PointOf(x), Begun(y) = Begun(x), y.ahead = x.ahead,
         y.items = x.items, y.data = x.data, y.missed = x.missed
  PROVE  StageOf(y) = StageOf(x)
BY DEF StageOf, RunLeft, CaseLeft, IterLeft

\* The stage of a run that is at a point with a number of tests begun.
IsStageOf(x, at, begun) ==
  LET q == StageOf(x)
  IN /\ q \in Stages /\ q.at = at
     /\ q.iterLeft = x.data + begun /\ q.caseLeft = x.items + (x.data + begun)
     /\ q.left = x.ahead + x.missed + (x.items + (x.data + begun))
LEMMA StageIs ==
  ASSUME NEW x, IsRun(x)
  PROVE  IsStageOf(x, PointOf(x), Begun(x))
BY StageFields DEF IsStageOf, RunLeft, CaseLeft, IterLeft

\* A run that has not been left by a jump is where it is.
LEMMA PlainStage ==
  ASSUME NEW x, IsRun(x), x.jumped = "no"
  PROVE  IsStageOf(x, x.at, IF x.at \in {"test", "iterated"} THEN 1 ELSE 0)
<1>1. Begun(x) = IF x.at \in {"test", "iterated"} THEN 1 ELSE 0
  BY DEF Begun
<1>2. PointOf(x) = x.at
  BY DEF PointOf
<1> QED
  BY <1>1, <1>2, StageIs

\* The message that is written leads from the stage of the child to its next one.
Leaves(r, m, s) ==
  /\ m \in Messages /\ pipe' = Append(pipe, m)
  /\ IsRun(s) /\ IsStep(StageOf(r), m, StageOf(s))

\* The messages are what they should be.
LEMMA MessageTypesOK ==
  /\ \A type \in MessageTypes : Message(type) \in Messages /\ Message(type).type = type
  /\ \A type \in MessageTypes : \A n \in Nat :
       /\ Ready(type, n) \in Messages /\ Ready(type, n).type = type
       /\ Ready(type, n).n = n
  /\ \A status \in Statuses :
       /\ Result(status) \in Messages /\ Result(status).type = "result"
       /\ Result(status).status = status
<1>1. "result" \in MessageTypes
  BY DEF MessageTypes
<1>2. ASSUME NEW type \in MessageTypes
      PROVE  Message(type) \in Messages /\ Message(type).type = type
  BY DEF Message, Messages
<1>3. ASSUME NEW type \in MessageTypes, NEW n \in Nat
      PROVE  /\ Ready(type, n) \in Messages /\ Ready(type, n).type = type
             /\ Ready(type, n).n = n
  BY DEF Ready, Messages
<1>4. ASSUME NEW status \in Statuses
      PROVE  /\ Result(status) \in Messages /\ Result(status).type = "result"
             /\ Result(status).status = status
  BY <1>1 DEF Result, Messages
<1> QED
  BY <1>2, <1>3, <1>4

LEMMA SuiteIsReady ==
  ASSUME IsRun(run), NEW n \in 0 .. MaxTests, WriteReadySuite(n)
  PROVE  \E m \in Messages : Leaves(run, m, run')
<1> DEFINE m == Ready("ready-test-suite", n)
<1>1. n \in Nat /\ "ready-test-suite" \in MessageTypes
  BY BoundsAssumption DEF MessageTypes
<1>2. m \in Messages /\ m.type = "ready-test-suite" /\ m.n = n
  BY <1>1, MessageTypesOK
<1>3. /\ pipe' = Append(pipe, m) /\ run.at = "begin"
      /\ run' = [run EXCEPT !.at = "suite", !.ahead = n]
  BY DEF WriteReadySuite, Send, Proceed, At
<1> HIDE DEF m
<1>4. /\ run \in Runs /\ run.ahead = 0 /\ run.items = 0 /\ run.data = 0 /\ run.missed = 0
      /\ run.jumped = "no"
  BY <1>3 DEF IsRun
<1>5. /\ run' \in Runs /\ run'.at = "suite" /\ run'.ahead = n /\ run'.items = 0
      /\ run'.data = 0 /\ run'.missed = 0 /\ run'.jumped = "no"
  BY <1>1, <1>3, <1>4 DEF Runs
<1>6. IsRun(run')
  BY <1>5 DEF IsRun
<1>7. IsStageOf(run, "begin", 0) /\ IsStageOf(run', "suite", 0)
  BY <1>3, <1>4, <1>5, <1>6, PlainStage
<1>8. IsStep(StageOf(run), m, StageOf(run'))
  BY <1>1, <1>2, <1>5, <1>7 DEF IsStep, IsSuiteStep, IsStageOf
<1> QED
  BY <1>2, <1>3, <1>6, <1>8 DEF Leaves

LEMMA CaseIsReady ==
  ASSUME IsRun(run), NEW n \in 1 .. run.ahead, WriteReadyCase(n)
  PROVE  \E m \in Messages : Leaves(run, m, run')
<1> DEFINE m == Ready("ready-test-case", n)
<1>0. run \in Runs /\ run.ahead \in Nat
  BY DEF IsRun, Runs
<1>1. n \in Nat /\ run.ahead - n \in Nat /\ "ready-test-case" \in MessageTypes
  BY <1>0 DEF MessageTypes
<1>2. m \in Messages /\ m.type = "ready-test-case" /\ m.n = n
  BY <1>1, MessageTypesOK
<1>3. /\ pipe' = Append(pipe, m) /\ run.at = "suite" /\ ~run.stopped
      /\ run' = Started(n) \/ run' = NotStarted(n)
  BY DEF WriteReadyCase, Send, Proceed, GoesOn, At
<1> HIDE DEF m
<1>4. run.items = 0 /\ run.data = 0 /\ run.jumped = "no" /\ run.missed \in Nat
  BY <1>0, <1>3 DEF IsRun, Runs
<1>5. /\ run' \in Runs /\ run'.at = "case" /\ run'.ahead = run.ahead - n
      /\ run'.data = 0 /\ run'.jumped = "no" /\ run'.stopped = run.stopped
      /\ \/ run'.items = n /\ run'.missed = run.missed
         \/ run'.items = 0 /\ run'.missed = run.missed + n
  <2>1. CASE run' = Started(n)
    BY <1>0, <1>1, <1>4, <2>1 DEF Runs, Started
  <2>2. CASE run' = NotStarted(n)
    <3>1. run.missed + n \in Nat
      BY <1>1, <1>4
    <3> QED
      BY <1>0, <1>1, <1>4, <2>2, <3>1 DEF Runs, NotStarted
  <2> QED
    BY <1>3, <2>1, <2>2
<1>6. IsRun(run')
  BY <1>5 DEF IsRun
<1>7. IsStageOf(run, "suite", 0) /\ IsStageOf(run', "case", 0)
  BY <1>3, <1>4, <1>5, <1>6, PlainStage
<1>8. StageOf(run').left = StageOf(run).left /\ StageOf(run').caseLeft <= n
  BY <1>0, <1>1, <1>4, <1>5, <1>7 DEF IsStageOf
<1>9. IsStep(StageOf(run), m, StageOf(run'))
  BY <1>1, <1>2, <1>7, <1>8 DEF IsStep, IsSuiteStep, IsStageOf
<1> QED
  BY <1>2, <1>3, <1>6, <1>9 DEF Leaves

LEMMA TestIsStarted ==
  ASSUME IsRun(run), WriteStartTest
  PROVE  \E m \in Messages : Leaves(run, m, run')
<1> DEFINE m == Message("start-test")
<1>0. run \in Runs /\ run.items \in Nat /\ run.ahead \in Nat /\ run.missed \in Nat
  BY DEF IsRun, Runs
<1>2. m \in Messages /\ m.type = "start-test"
  BY MessageTypesOK DEF MessageTypes
<1>3. /\ pipe' = Append(pipe, m) /\ run.at = "case" /\ ~run.stopped /\ run.items > 0
      /\ run' = [run EXCEPT !.at = "test", !.items = @ - 1, !.results = 0]
  BY DEF WriteStartTest, Send, Proceed, GoesOn, At
<1> HIDE DEF m
<1>4. run.data = 0 /\ run.jumped = "no"
  BY <1>0, <1>3 DEF IsRun
<1>1. run.items - 1 \in Nat
  BY <1>0, <1>3
<1>5. /\ run' \in Runs /\ run'.at = "test" /\ run'.ahead = run.ahead
      /\ run'.items = run.items - 1 /\ run'.data = 0 /\ run'.missed = run.missed
      /\ run'.jumped = "no"
  BY <1>0, <1>1, <1>3, <1>4 DEF Runs
<1>6. IsRun(run')
  BY <1>5 DEF IsRun
<1>7. IsStageOf(run, "case", 0) /\ IsStageOf(run', "test", 1)
  BY <1>3, <1>4, <1>5, <1>6, PlainStage
<1>8. /\ StageOf(run').left = StageOf(run).left
      /\ StageOf(run').caseLeft = StageOf(run).caseLeft
  BY <1>0, <1>4, <1>5, <1>7 DEF IsStageOf
<1>9. IsStep(StageOf(run), m, StageOf(run'))
  BY <1>2, <1>7, <1>8 DEF IsStep, IsTestStep, IsStageOf
<1> QED
  BY <1>2, <1>3, <1>6, <1>9 DEF Leaves

LEMMA ResultIsWritten ==
  ASSUME IsRun(run), NEW status \in Reported, WriteResult(status)
  PROVE  \E m \in Messages : Leaves(run, m, run')
<1> DEFINE m == Result(status)
<1>0. run \in Runs /\ status \in Statuses /\ run.results + 1 \in Nat
  BY ReportedAssumption DEF IsRun, Runs
<1>2. m \in Messages /\ m.type = "result" /\ m.status = status
  BY <1>0, MessageTypesOK
<1>3. /\ pipe' = Append(pipe, m) /\ run.at \in {"test", "iterated"}
      /\ run' = [run EXCEPT !.results = @ + 1, !.stopped = @ \/ status = Crash]
  BY DEF WriteResult, Send, Proceed, At
<1> HIDE DEF m
<1>5. /\ run' \in Runs /\ run'.at = run.at /\ run'.ahead = run.ahead
      /\ run'.items = run.items /\ run'.data = run.data /\ run'.missed = run.missed
      /\ run'.jumped = run.jumped /\ (run.stopped => run'.stopped)
  <2> DEFINE stopped == run.stopped \/ status = Crash
  <2>1. stopped \in BOOLEAN /\ (run.stopped => stopped)
    OBVIOUS
  <2>2. run' = [run EXCEPT !.results = @ + 1, !.stopped = stopped]
    BY <1>3
  <2> HIDE DEF stopped
  <2>3. run' \in Runs /\ run'.stopped = stopped
    BY <1>0, <2>1, <2>2 DEF Runs
  <2>4. /\ run'.at = run.at /\ run'.ahead = run.ahead
        /\ run'.items = run.items /\ run'.data = run.data /\ run'.missed = run.missed
        /\ run'.jumped = run.jumped
    BY <1>0, <2>2 DEF Runs
  <2> QED
    BY <2>1, <2>3, <2>4
<1>6. IsRun(run')
  BY <1>3, <1>5 DEF IsRun
<1>7. StageOf(run') = StageOf(run)
  <2>1. PointOf(run') = PointOf(run) /\ Begun(run') = Begun(run)
    BY <1>5 DEF PointOf, Begun
  <2> QED
    BY <2>1, <1>5, SameStage
<1>8. StageOf(run) \in Stages /\ StageOf(run).at \in {"test", "iterated"}
  BY <1>3, PlainStage DEF IsRun, IsStageOf
<1>9. IsStep(StageOf(run), m, StageOf(run'))
  BY <1>0, <1>2, <1>7, <1>8 DEF IsStep, IsTestStep
<1> QED
  BY <1>2, <1>3, <1>6, <1>9 DEF Leaves

LEMMA TestIsComplete ==
  ASSUME IsRun(run), WriteCompleteTest
  PROVE  \E m \in Messages : Leaves(run, m, run')
<1> DEFINE m == Message("complete-test")
<1>0. /\ run \in Runs /\ run.items \in Nat /\ run.ahead \in Nat /\ run.missed \in Nat
      /\ run.data \in Nat
  BY DEF IsRun, Runs
<1>2. m \in Messages /\ m.type = "complete-test"
  BY MessageTypesOK DEF MessageTypes
<1>3. /\ pipe' = Append(pipe, m) /\ run.at = "test"
      /\ run' = [run EXCEPT !.at = "case"]
  BY DEF WriteCompleteTest, Send, Proceed, At
<1> HIDE DEF m
<1>4. run.jumped = "no" /\ (~run.stopped => run.data = 0)
  BY <1>3 DEF IsRun
<1>5. /\ run' \in Runs /\ run'.at = "case" /\ run'.ahead = run.ahead
      /\ run'.items = run.items /\ run'.data = run.data /\ run'.missed = run.missed
      /\ run'.jumped = "no" /\ run'.stopped = run.stopped
  BY <1>0, <1>3, <1>4 DEF Runs
<1>6. IsRun(run')
  BY <1>4, <1>5 DEF IsRun
<1>7. IsStageOf(run, "test", 1) /\ IsStageOf(run', "case", 0)
  BY <1>3, <1>4, <1>5, <1>6, PlainStage
<1>8. /\ StageOf(run').left = StageOf(run).left - 1 /\ StageOf(run).left > 0
      /\ StageOf(run').caseLeft = StageOf(run).caseLeft - 1 /\ StageOf(run).caseLeft > 0
  BY <1>0, <1>5, <1>7 DEF IsStageOf
<1>9. IsStep(StageOf(run), m, StageOf(run'))
  BY <1>2, <1>7, <1>8 DEF IsStep, IsTestStep, IsStageOf
<1> QED
  BY <1>2, <1>3, <1>6, <1>9 DEF Leaves

LEMMA IteratorIsReady ==
  ASSUME IsRun(run), NEW n \in 0 .. MaxData, WriteReadyIterator(n)
  PROVE  \E m \in Messages : Leaves(run, m, run')
<1> DEFINE m == Ready("ready-test-iterator", n)
<1>0. run \in Runs /\ run.items \in Nat /\ run.ahead \in Nat /\ run.missed \in Nat
  BY DEF IsRun, Runs
<1>1. n \in Nat /\ "ready-test-iterator" \in MessageTypes
  BY BoundsAssumption DEF MessageTypes
<1>2. m \in Messages /\ m.type = "ready-test-iterator" /\ m.n = n
  BY <1>1, MessageTypesOK
<1>3. /\ pipe' = Append(pipe, m) /\ run.at = "case" /\ ~run.stopped /\ run.items > 0
      /\ run' = [run EXCEPT !.at = "iterator", !.items = @ - 1, !.data = n]
  BY DEF WriteReadyIterator, Send, Proceed, GoesOn, At
<1> HIDE DEF m
<1>4. run.data = 0 /\ run.jumped = "no"
  BY <1>0, <1>3 DEF IsRun
<1>10. run.items - 1 \in Nat
  BY <1>0, <1>3
<1>5. /\ run' \in Runs /\ run'.at = "iterator" /\ run'.ahead = run.ahead
      /\ run'.items = run.items - 1 /\ run'.data = n /\ run'.missed = run.missed
      /\ run'.jumped = "no"
  BY <1>0, <1>1, <1>3, <1>4, <1>10 DEF Runs
<1>6. IsRun(run')
  BY <1>5 DEF IsRun
<1>7. IsStageOf(run, "case", 0) /\ IsStageOf(run', "iterator", 0)
  BY <1>3, <1>4, <1>5, <1>6, PlainStage
<1>8. LET q == StageOf(run)
          r == StageOf(run')
      IN /\ q.left > 0 /\ q.caseLeft > 0 /\ r.left = q.left + (n - 1)
         /\ r.caseLeft = q.caseLeft + (n - 1) /\ r.iterLeft = n
  BY <1>0, <1>1, <1>3, <1>4, <1>5, <1>7 DEF IsStageOf
<1>9. IsStep(StageOf(run), m, StageOf(run'))
  BY <1>1, <1>2, <1>7, <1>8 DEF IsStep, IsIteratorStep, IsStageOf
<1> QED
  BY <1>2, <1>3, <1>6, <1>9 DEF Leaves

LEMMA IteratorIsUnready ==
  ASSUME IsRun(run), WriteUnreadyIterator
  PROVE  \E m \in Messages : Leaves(run, m, run')
<1> DEFINE m == Message("complete-test-iterator")
<1>0. run \in Runs /\ run.items \in Nat /\ run.ahead \in Nat /\ run.missed \in Nat
  BY DEF IsRun, Runs
<1>2. m \in Messages /\ m.type = "complete-test-iterator"
  BY MessageTypesOK DEF MessageTypes
<1>3. /\ pipe' = Append(pipe, m) /\ run.at = "case" /\ ~run.stopped /\ run.items > 0
      /\ run' = [run EXCEPT !.items = @ - 1, !.missed = @ + 1]
  BY DEF WriteUnreadyIterator, Send, Proceed, GoesOn, At
<1> HIDE DEF m
<1>4. run.data = 0 /\ run.jumped = "no"
  BY <1>0, <1>3 DEF IsRun
<1>1. run.items - 1 \in Nat /\ run.missed + 1 \in Nat
  BY <1>0, <1>3
<1>5. /\ run' \in Runs /\ run'.at = "case" /\ run'.ahead = run.ahead
      /\ run'.items = run.items - 1 /\ run'.data = 0 /\ run'.missed = run.missed + 1
      /\ run'.jumped = "no"
  BY <1>0, <1>1, <1>3, <1>4 DEF Runs
<1>6. IsRun(run')
  BY <1>5 DEF IsRun
<1>7. IsStageOf(run, "case", 0) /\ IsStageOf(run', "case", 0)
  BY <1>3, <1>4, <1>5, <1>6, PlainStage
<1>8. /\ StageOf(run').left = StageOf(run).left
      /\ StageOf(run').caseLeft <= StageOf(run).caseLeft
  <2>1. /\ StageOf(run').left = run.ahead + (run.missed + 1) + (run.items - 1)
        /\ StageOf(run').caseLeft = run.items - 1
    BY <1>0, <1>1, <1>5, <1>7 DEF IsStageOf
  <2>2. /\ StageOf(run).left = run.ahead + run.missed + run.items
        /\ StageOf(run).caseLeft = run.items
    BY <1>0, <1>4, <1>7 DEF IsStageOf
  <2> QED
    BY <1>0, <2>1, <2>2
<1>9. IsStep(StageOf(run), m, StageOf(run'))
  BY <1>2, <1>7, <1>8 DEF IsStep, IsIteratorStep, IsStageOf
<1> QED
  BY <1>2, <1>3, <1>6, <1>9 DEF Leaves

LEMMA IteratedTestIsStarted ==
  ASSUME IsRun(run), WriteStartIteratedTest
  PROVE  \E m \in Messages : Leaves(run, m, run')
<1> DEFINE m == Message("start-iterated-test")
<1>0. /\ run \in Runs /\ run.items \in Nat /\ run.ahead \in Nat /\ run.missed \in Nat
      /\ run.data \in Nat
  BY DEF IsRun, Runs
<1>2. m \in Messages /\ m.type = "start-iterated-test"
  BY MessageTypesOK DEF MessageTypes
<1>3. /\ pipe' = Append(pipe, m) /\ run.at = "iterator" /\ ~run.stopped /\ run.data > 0
      /\ run' = [run EXCEPT !.at = "iterated", !.data = @ - 1, !.results = 0]
  BY DEF WriteStartIteratedTest, Send, Proceed, GoesOn, At
<1> HIDE DEF m
<1>4. run.jumped = "no"
  BY <1>3 DEF IsRun
<1>1. run.data - 1 \in Nat
  BY <1>0, <1>3
<1>5. /\ run' \in Runs /\ run'.at = "iterated" /\ run'.ahead = run.ahead
      /\ run'.items = run.items /\ run'.data = run.data - 1 /\ run'.missed = run.missed
      /\ run'.jumped = "no"
  BY <1>0, <1>1, <1>3, <1>4 DEF Runs
<1>6. IsRun(run')
  BY <1>5 DEF IsRun
<1>7. IsStageOf(run, "iterator", 0) /\ IsStageOf(run', "iterated", 1)
  BY <1>3, <1>4, <1>5, <1>6, PlainStage
<1>8. /\ StageOf(run').left = StageOf(run).left
      /\ StageOf(run').caseLeft = StageOf(run).caseLeft
      /\ StageOf(run').iterLeft = StageOf(run).iterLeft
  BY <1>0, <1>5, <1>7 DEF IsStageOf
<1>9. IsStep(StageOf(run), m, StageOf(run'))
  BY <1>2, <1>7, <1>8 DEF IsStep, IsIteratorStep, IsStageOf
<1> QED
  BY <1>2, <1>3, <1>6, <1>9 DEF Leaves

LEMMA IteratedTestIsComplete ==
  ASSUME IsRun(run), WriteCompleteIteratedTest
  PROVE  \E m \in Messages : Leaves(run, m, run')
<1> DEFINE m == Message("complete-iterated-test")
<1>0. /\ run \in Runs /\ run.items \in Nat /\ run.ahead \in Nat /\ run.missed \in Nat
      /\ run.data \in Nat
  BY DEF IsRun, Runs
<1>2. m \in Messages /\ m.type = "complete-iterated-test"
  BY MessageTypesOK DEF MessageTypes
<1>3. /\ pipe' = Append(pipe, m) /\ run.at = "iterated"
      /\ run' = [run EXCEPT !.at = "iterator"]
  BY DEF WriteCompleteIteratedTest, Send, Proceed, At
<1> HIDE DEF m
<1>4. run.jumped = "no"
  BY <1>3 DEF IsRun
<1>5. /\ run' \in Runs /\ run'.at = "iterator" /\ run'.ahead = run.ahead
      /\ run'.items = run.items /\ run'.data = run.data /\ run'.missed = run.missed
      /\ run'.jumped = "no"
  BY <1>0, <1>3, <1>4 DEF Runs
<1>6. IsRun(run')
  BY <1>5 DEF IsRun
<1>7. IsStageOf(run, "iterated", 1) /\ IsStageOf(run', "iterator", 0)
  BY <1>3, <1>4, <1>5, <1>6, PlainStage
<1>8. LET q == StageOf(run)
          r == StageOf(run')
      IN /\ q.left > 0 /\ q.caseLeft > 0 /\ q.iterLeft > 0
         /\ r.left = q.left - 1 /\ r.caseLeft = q.caseLeft - 1 /\ r.iterLeft = q.iterLeft - 1
  BY <1>0, <1>5, <1>7 DEF IsStageOf
<1>9. IsStep(StageOf(run), m, StageOf(run'))
  BY <1>2, <1>7, <1>8 DEF IsStep, IsIteratorStep, IsStageOf
<1> QED
  BY <1>2, <1>3, <1>6, <1>9 DEF Leaves

LEMMA IteratorIsComplete ==
  ASSUME IsRun(run), WriteCompleteIterator
  PROVE  \E m \in Messages : Leaves(run, m, run')
<1> DEFINE m == Message("complete-test-iterator")
<1>0. /\ run \in Runs /\ run.items \in Nat /\ run.ahead \in Nat /\ run.missed \in Nat
      /\ run.data \in Nat
  BY DEF IsRun, Runs
<1>2. m \in Messages /\ m.type = "complete-test-iterator"
  BY MessageTypesOK DEF MessageTypes
<1>3. /\ pipe' = Append(pipe, m) /\ run.at = "iterator" /\ (run.data = 0 \/ run.stopped)
      /\ run' = [run EXCEPT !.at = "case"]
  BY DEF WriteCompleteIterator, Send, Proceed, At
<1> HIDE DEF m
<1>4. run.jumped = "no"
  BY <1>3 DEF IsRun
<1>5. /\ run' \in Runs /\ run'.at = "case" /\ run'.ahead = run.ahead
      /\ run'.items = run.items /\ run'.data = run.data /\ run'.missed = run.missed
      /\ run'.jumped = "no" /\ run'.stopped = run.stopped
  BY <1>0, <1>3, <1>4 DEF Runs
<1>6. IsRun(run')
  BY <1>3, <1>5 DEF IsRun
<1>7. IsStageOf(run, "iterator", 0) /\ IsStageOf(run', "case", 0)
  BY <1>3, <1>4, <1>5, <1>6, PlainStage
<1>8. /\ StageOf(run').left = StageOf(run).left
      /\ StageOf(run').caseLeft = StageOf(run).caseLeft
  BY <1>0, <1>5, <1>7 DEF IsStageOf
<1>9. IsStep(StageOf(run), m, StageOf(run'))
  BY <1>2, <1>7, <1>8 DEF IsStep, IsIteratorStep, IsStageOf
<1> QED
  BY <1>2, <1>3, <1>6, <1>9 DEF Leaves

LEMMA CaseIsComplete ==
  ASSUME IsRun(run), WriteCompleteCase
  PROVE  \E m \in Messages : Leaves(run, m, run')
<1> DEFINE m == Message("complete-test-case")
<1>2. m \in Messages /\ m.type = "complete-test-case"
  BY MessageTypesOK DEF MessageTypes
<1>3. /\ pipe' = Append(pipe, m) /\ run.at = "case" /\ (run.items = 0 \/ run.stopped)
      /\ run' = [run EXCEPT !.at = "suite"]
  BY DEF WriteCompleteCase, Send, Proceed, At
<1> HIDE DEF m
<1>4. /\ run \in Runs /\ run.jumped \in {"no", "test", "iterator", "iterated"}
      /\ ~run.stopped => run.data = 0 /\ run.jumped = "no"
  BY <1>3 DEF IsRun, Runs
<1>5. /\ run' \in Runs /\ run'.at = "suite" /\ run'.ahead = run.ahead
      /\ run'.items = run.items /\ run'.data = run.data /\ run'.missed = run.missed
      /\ run'.jumped = run.jumped /\ run'.stopped = run.stopped
  BY <1>3, <1>4 DEF Runs
<1>6. IsRun(run')
  BY <1>3, <1>4, <1>5 DEF IsRun
<1>7. /\ Begun(run') = Begun(run)
      /\ PointOf(run) \in {"case", "test", "iterator", "iterated"}
      /\ PointOf(run') = IF PointOf(run) = "case" THEN "suite" ELSE "dead"
  BY <1>3, <1>4, <1>5 DEF Begun, PointOf
<1>8. /\ IsStageOf(run, PointOf(run), Begun(run))
      /\ IsStageOf(run', PointOf(run'), Begun(run'))
  BY <1>6, StageIs
<1>9. StageOf(run').left = StageOf(run).left
  BY <1>5, <1>7, <1>8 DEF IsStageOf
<1>10. IsStep(StageOf(run), m, StageOf(run'))
  BY <1>2, <1>7, <1>8, <1>9 DEF IsStep, IsSuiteStep, IsStageOf
<1> QED
  BY <1>2, <1>3, <1>6, <1>10 DEF Leaves

LEMMA RunIsOver ==
  ASSUME IsRun(run), WriteCompleteRun
  PROVE  \E m \in Messages : Leaves(run, m, run')
<1> DEFINE m == Message("complete-run")
<1>2. m \in Messages /\ m.type = "complete-run"
  BY MessageTypesOK DEF MessageTypes
<1>3. /\ pipe' = Append(pipe, m) /\ run.at = "suite" /\ (run.ahead = 0 \/ run.stopped)
      /\ run' = [run EXCEPT !.at = "over"]
  BY DEF WriteCompleteRun, Send, Proceed, At
<1> HIDE DEF m
<1>4. /\ run \in Runs
      /\ ~run.stopped => run.data = 0 /\ run.items = 0 /\ run.jumped = "no"
  BY <1>3 DEF IsRun
<1>5. /\ run' \in Runs /\ run'.at = "over" /\ run'.ahead = run.ahead
      /\ run'.items = run.items /\ run'.data = run.data /\ run'.missed = run.missed
      /\ run'.jumped = run.jumped /\ run'.stopped = run.stopped
  BY <1>3, <1>4 DEF Runs
<1>6. IsRun(run')
  BY <1>3, <1>4, <1>5 DEF IsRun
<1>7. /\ Begun(run') = Begun(run)
      /\ PointOf(run) \in {"suite", "case", "dead"}
      /\ PointOf(run') = IF PointOf(run) = "suite" THEN "over" ELSE "left"
  BY <1>3, <1>5 DEF Begun, PointOf
<1>8. /\ IsStageOf(run, PointOf(run), Begun(run))
      /\ IsStageOf(run', PointOf(run'), Begun(run'))
  BY <1>6, StageIs
<1>9. StageOf(run').left = StageOf(run).left
  BY <1>5, <1>7, <1>8 DEF IsStageOf
<1>10. IsStep(StageOf(run), m, StageOf(run'))
  BY <1>2, <1>7, <1>8, <1>9 DEF IsStep, IsSuiteStep, IsStageOf
<1> QED
  BY <1>2, <1>3, <1>6, <1>10 DEF Leaves

\* What the test case or the test suite has caught is still begun.
LEMMA CaughtStage ==
  ASSUME IsRun(run), GoesOn(InTestCase), run' = CaughtByCase
  PROVE  IsRun(run') /\ StageOf(run') = StageOf(run)
<1>1. run.at \in InTestCase /\ ~run.stopped
  BY DEF GoesOn, At
<1>2. run \in Runs /\ run.jumped = "no"
  BY <1>1 DEF IsRun
<1> DEFINE jumped == IF run.at = "case" THEN "no" ELSE run.at
<1>3. jumped \in {"no", "test", "iterator", "iterated"}
  BY <1>1 DEF InTestCase
<1>4. run' = [run EXCEPT !.at = "case", !.stopped = TRUE, !.jumped = jumped]
  BY DEF CaughtByCase
<1>5. \/ run.at = "case" /\ jumped = "no"
      \/ run.at # "case" /\ jumped = run.at
  OBVIOUS
<1> HIDE DEF jumped
<1>6. /\ run' \in Runs /\ run'.at = "case" /\ run'.ahead = run.ahead
      /\ run'.items = run.items /\ run'.data = run.data /\ run'.missed = run.missed
      /\ run'.jumped = jumped /\ run'.stopped
  BY <1>2, <1>3, <1>4 DEF Runs
<1>7. IsRun(run')
  BY <1>3, <1>6 DEF IsRun
<1>8. PointOf(run') = PointOf(run) /\ Begun(run') = Begun(run)
  BY <1>1, <1>2, <1>3, <1>5, <1>6 DEF PointOf, Begun, InTestCase
<1> QED
  BY <1>6, <1>7, <1>8, SameStage

LEMMA SuiteStage ==
  ASSUME IsRun(run), SignalSuite
  PROVE  IsRun(run') /\ StageOf(run') = StageOf(run)
<1>1. ~run.stopped /\ (run.at = "suite" \/ (run.at = "case" /\ run.items = 0))
  BY DEF SignalSuite, GoesOn, At
<1>2. run \in Runs /\ run.jumped = "no"
  BY <1>1 DEF IsRun
<1> DEFINE jumped == IF run.at = "case" THEN "case" ELSE "no"
<1>3. jumped \in {"no", "case"}
  OBVIOUS
<1>4. run' = [run EXCEPT !.at = "suite", !.stopped = TRUE, !.jumped = jumped]
  BY DEF SignalSuite, Proceed
<1>5. \/ run.at = "case" /\ jumped = "case"
      \/ run.at # "case" /\ jumped = "no"
  OBVIOUS
<1> HIDE DEF jumped
<1>6. /\ run' \in Runs /\ run'.at = "suite" /\ run'.ahead = run.ahead
      /\ run'.items = run.items /\ run'.data = run.data /\ run'.missed = run.missed
      /\ run'.jumped = jumped /\ run'.stopped
  BY <1>2, <1>3, <1>4 DEF Runs
<1>7. IsRun(run')
  BY <1>6 DEF IsRun
<1>8. PointOf(run') = PointOf(run) /\ Begun(run') = Begun(run)
  BY <1>1, <1>2, <1>5, <1>6 DEF PointOf, Begun
<1> QED
  BY <1>6, <1>7, <1>8, SameStage

LEMMA InterruptedStage ==
  ASSUME IsRun(run), InterruptTest
  PROVE  IsRun(run') /\ StageOf(run') = StageOf(run)
<1>1. /\ run.at \in {"test", "iterated"} /\ run \in Runs
      /\ run' = [run EXCEPT !.stopped = TRUE]
  BY DEF InterruptTest, GoesOn, At, Proceed, IsRun
<1>2. /\ run' \in Runs /\ run'.at = run.at /\ run'.ahead = run.ahead
      /\ run'.items = run.items /\ run'.data = run.data /\ run'.missed = run.missed
      /\ run'.jumped = run.jumped /\ run'.stopped
  BY <1>1 DEF Runs
<1>3. IsRun(run')
  BY <1>1, <1>2 DEF IsRun
<1>4. PointOf(run') = PointOf(run) /\ Begun(run') = Begun(run)
  BY <1>2 DEF PointOf, Begun
<1> QED
  BY <1>2, <1>3, <1>4, SameStage

LEMMA CrashIsWritten ==
  ASSUME IsRun(run), CrashCase
  PROVE  \E m \in Messages : Leaves(run, m, run')
<1> DEFINE m == Message("crash-test-case")
<1>2. m \in Messages /\ m.type = "crash-test-case"
  BY MessageTypesOK DEF MessageTypes
<1>3. /\ pipe' = Append(pipe, m) /\ GoesOn(InTestCase) /\ run' = CaughtByCase
  BY DEF CrashCase, Send, Proceed
<1> HIDE DEF m
<1>4. IsRun(run') /\ StageOf(run') = StageOf(run)
  BY <1>3, CaughtStage
<1>5. StageOf(run) \in Stages /\ StageOf(run).at \in InTestCase
  <2>1. run.jumped = "no" /\ run.at \in InTestCase
    BY <1>3 DEF IsRun, GoesOn, At
  <2> QED
    BY <2>1, PlainStage DEF IsStageOf
<1>6. IsStep(StageOf(run), m, StageOf(run'))
  BY <1>2, <1>4, <1>5 DEF IsStep, IsSuiteStep
<1> QED
  BY <1>2, <1>3, <1>4, <1>6 DEF Leaves

\* What the child does leads on from its stage.
LEMMA ChildSteps ==
  ASSUME IsRun(run), Write \/ Signal
  PROVE  \/ \E m \in Messages : Leaves(run, m, run')
         \/ pipe' = pipe /\ IsRun(run') /\ StageOf(run') = StageOf(run)
<1>1. CASE Write
  BY <1>1, SuiteIsReady, CaseIsReady, TestIsStarted, TestIsComplete, ResultIsWritten,
     IteratorIsReady, IteratorIsUnready, IteratedTestIsStarted, IteratedTestIsComplete,
     IteratorIsComplete, CaseIsComplete, RunIsOver DEF Write
<1>2. CASE CrashCase
  BY <1>2, CrashIsWritten
<1>3. CASE InterruptCase
  BY <1>3, CaughtStage DEF InterruptCase, Proceed
<1>4. CASE InterruptTest
  BY <1>4, InterruptedStage DEF InterruptTest
<1>5. CASE SignalSuite
  BY <1>5, SuiteStage DEF SignalSuite
<1> QED
  BY <1>1, <1>2, <1>3, <1>4, <1>5 DEF Signal

-----------------------------------------------------------------------------
\* A run that begins shows its beginning.
LEMMA BeginStage == IsRun(Begin) /\ IsStageOf(Begin, "begin", 0) /\ StageOf(Begin).left = 0
<1>1. /\ Begin \in Runs /\ Begin.at = "begin" /\ Begin.jumped = "no" /\ Begin.ahead = 0
      /\ Begin.items = 0 /\ Begin.data = 0 /\ Begin.missed = 0
  BY DEF Begin, Runs
<1>2. IsRun(Begin)
  BY <1>1 DEF IsRun
<1>3. IsStageOf(Begin, "begin", 0)
  BY <1>1, <1>2, PlainStage
<1> QED
  BY <1>1, <1>2, <1>3 DEF IsStageOf

LEMMA FreshUI ==
  ASSUME NEW running \in BOOLEAN, NEW button \in {"cancel", "redo"},
         NEW rs, rs \in [DOMAIN rs -> RowRecords],
         NEW b \in Nat, DOMAIN rs \subseteq 1 .. b,
         NEW v, v = [rows |-> rs, connected |-> {}, ui |-> NewUI(running, button)]
  PROVE  IsView(v) /\ Shows(v, StageOf(Begin))
<1>1. NewUI(running, button) \in UIRecords
  BY DEF NewUI, UIRecords, Statuses, Success, Crash
<1>2. IsView(v)
  BY <1>1 DEF IsView
<1>3. v.ui.n = 0 /\ v.ui.done = 0 /\ v.connected = {}
  BY DEF NewUI
<1>4. Shows(v, StageOf(Begin))
  BY <1>3, BeginStage DEF Shows, IsStageOf
<1> QED
  BY <1>2, <1>4

\* The parts of what is shown.
LEMMA ViewParts ==
  View.rows = rows /\ View.connected = connected /\ View.ui = ui
BY DEF View

\* The invariant holds at first.
LEMMA InitEstablishes == Init => IndInv
<1> SUFFICES ASSUME Init PROVE IndInv
  OBVIOUS
<1>1. /\ runs = 0 /\ child = "exited" /\ run = Begin /\ pipe = <<>> /\ heard = {}
      /\ reading = "no"
  BY DEF Init
<1>2. /\ context \in Contexts /\ ~context.attached /\ context.ended /\ ~context.watched
  BY DEF Init, NewContext, Contexts
<1>3. IsView(View) /\ Shows(View, StageOf(run))
  <2>1. rows \in [DOMAIN rows -> RowRecords] /\ DOMAIN rows \subseteq 1 .. 0
    BY DEF Init
  <2>2. View = [rows |-> rows, connected |-> {}, ui |-> NewUI(FALSE, "redo")]
    BY DEF Init, View
  <2> QED
    BY <2>1, <2>2, <1>1, FreshUI
<1>4. IsRun(run) /\ run.at # "over"
  BY <1>1, BeginStage DEF Begin
<1>5. TypeOK
  BY <1>1, <1>2, <1>3, <1>4 DEF TypeOK
<1>6. IsStuck
  BY <1>1, <1>2, <1>4 DEF IsStuck
<1>7. Leads(pipe, StageOf(run), StageOf(run)) /\ StageOf(run) \in Stages
  BY <1>1, <1>4, StageFields, LeadsNone
<1> QED
  BY <1>2, <1>3, <1>5, <1>6, <1>7 DEF IndInv, HasHeardOf

\* What an action keeps that shows nothing new.
LEMMA NothingHeard ==
  ASSUME IndInv, TypeOK', heard' = heard, IsSame(View, View'),
         \A q : Leads(pipe, q, StageOf(run)) => Leads(pipe', q, StageOf(run')),
         context'.attached => context.attached, IsCanceled => IsCanceled',
         context.attached \/ IsStuck => context'.attached \/ IsCanceled' \/ IsStuck'
  PROVE  IndInv'
<1>1. PICK q \in Stages : HasHeardOf(q)
  BY DEF IndInv
<1>2. /\ connected' = connected /\ ui'.status = ui.status
      /\ ui'.n = ui.n /\ ui'.done = ui.done
  BY DEF IsSame, View
<1>3. context'.attached => WorstIsHeard'
  BY <1>2 DEF IndInv, WorstIsHeard
<1>4. Shows(View, q) => Shows(View', q)
  BY SameShows
<1>5. IsSilent => IsSilent'
  BY <1>2 DEF IsSilent, IndInv, TypeOK, Contexts
<1>6. /\ Leads(pipe', q, StageOf(run'))
      /\ context'.attached \/ IsCanceled' \/ IsStuck' \/ q.at \in {"over", "left"}
  BY <1>1 DEF HasHeardOf
<1>7. Shows(View', q) \/ IsSilent'
  BY <1>1, <1>4, <1>5 DEF HasHeardOf
<1>8. HasHeardOf(q)'
  BY <1>6, <1>7 DEF HasHeardOf
<1> QED
  BY <1>3, <1>8 DEF IndInv

\* A signal that nobody hears changes nothing.
LEMMA SilentEmission ==
  ASSUME IsView(View), connected = {}, ~context.attached, NEW m
  PROVE  Emitted(View, m) = View
BY EmittedToNone, ViewParts DEF HeardByUI

\* What Show makes is what was to be shown.
LEMMA ShownView ==
  ASSUME NEW w, IsView(w), Show(w)
  PROVE  IsView(View') /\ IsSame(w, View') /\ View'.ui.status = w.ui.status
<1>1. View'.rows = w.rows /\ View'.connected = w.connected /\ View'.ui = w.ui
  BY DEF Show, View
<1>2. View' \in [rows : {w.rows}, connected : {w.connected}, ui : UIRecords]
  BY DEF Show, View, IsView
<1>3. IsView(View')
  BY <1>1, <1>2 DEF IsView
<1> QED
  BY <1>1, <1>3 DEF IsSame

\* A message that is heard: either it is shown, or nobody listens any more.
LEMMA HearKeeps == IndInv /\ Hear => IndInv'
<1> SUFFICES ASSUME IndInv, Hear PROVE IndInv'
  OBVIOUS
<1>1. PICK q \in Stages : HasHeardOf(q)
  BY DEF IndInv
<1> DEFINE m == Head(pipe)
           w == Emitted(View, m)
<1>2. pipe # <<>> /\ Leads(pipe, q, StageOf(run))
  BY <1>1 DEF Hear, HasHeardOf
<1>3. PICK r \in Stages : IsStep(q, m, r) /\ Leads(Tail(pipe), r, StageOf(run))
  BY <1>2, LeadsFirst
<1>4. /\ pipe' = Tail(pipe) /\ heard' = heard \cup StatusOf(m)
      /\ Show(w) /\ context' = ContextHears(context, m)
      /\ UNCHANGED <<runs, child, run>>
      /\ reading' \in {"no", "chunk", "drain"} /\ ~IsStuck
      /\ reading' = "drain" => reading = "drain"
  BY DEF Hear, TypeOK, IndInv, IsStuck
<1>5. TypeOK /\ IsView(View) /\ context \in Contexts /\ heard \subseteq Statuses
  BY DEF IndInv, TypeOK
<1>6. Leads(pipe', r, StageOf(run'))
  BY <1>3, <1>4
<1> HIDE DEF m, w
<1>7. /\ context' \in Contexts
      /\ context'.attached <=> context.attached /\ m.type # "complete-run"
      /\ context'.canceled = context.canceled /\ (context.crashed => context'.crashed)
      /\ context'.ended = context.ended
  BY <1>4, <1>5 DEF ContextHears, Contexts
<1>8. context.attached \/ IsCanceled
  BY <1>1, <1>3, <1>4, LastStep DEF HasHeardOf
<1>9. context'.attached \/ IsCanceled' \/ r.at \in {"over", "left"}
  <2>1. IsCanceled => IsCanceled'
    BY <1>7 DEF IsCanceled
  <2> QED
    BY <2>1, <1>3, <1>7, <1>8, LastStep
<1>10. StatusOf(m) \subseteq Statuses
  BY <1>3, ResultStep DEF StatusOf
<1>11. IsView(View') => TypeOK'
  BY <1>4, <1>5, <1>7, <1>10 DEF TypeOK
<1>12. CASE /\ Shows(View, q)
            /\ context.attached \/ m.type \notin {"ready-test-suite", "ready-test-case"}
  <2>1. Follows(View, w, m, r)
    BY <1>3, <1>5, <1>12, StepIsFollowed DEF w
  <2>2. IsView(View') /\ IsSame(w, View')
    BY <2>1, <1>4, ShownView DEF Follows
  <2>3. Shows(View', r)
    BY <2>1, <2>2, SameShows DEF Follows
  <2>4. ui'.status = IF m.type = "result" /\ m.status > ui.status THEN m.status
                     ELSE ui.status
    BY <2>1, <2>2 DEF Follows, IsSame, View
  <2>5. ASSUME context'.attached
        PROVE  WorstIsHeard'
    <3>1. WorstIsHeard
      BY <2>5, <1>7 DEF IndInv
    <3>2. ui.status \in Statuses
      BY <1>5, Types, ViewParts
    <3>3. ui.status \in Int /\ \A s \in heard \cup StatusOf(m) : s \in Int
      BY <1>5, <1>10, <3>2 DEF Statuses, Success, Crash
    <3>4. CASE m.type = "result" /\ m.status > ui.status
      <4>1. ui'.status = m.status /\ heard' = heard \cup {m.status} /\ m.status \in Int
        BY <1>4, <2>4, <3>3, <3>4 DEF StatusOf
      <4> QED
        BY <3>1, <3>3, <3>4, <4>1 DEF WorstIsHeard, StatusOf
    <3>5. CASE ~(m.type = "result" /\ m.status > ui.status)
      <4>1. ui'.status = ui.status
        BY <2>4, <3>5
      <4>2. \A s \in StatusOf(m) : s <= ui.status
        BY <3>3, <3>5 DEF StatusOf
      <4> QED
        BY <1>4, <3>1, <4>1, <4>2 DEF WorstIsHeard
    <3> QED
      BY <3>4, <3>5
  <2>6. HasHeardOf(r)'
    BY <1>6, <1>9, <2>3 DEF HasHeardOf
  <2> QED
    BY <1>11, <2>2, <2>5, <2>6 DEF IndInv
<1>13. CASE ~(/\ Shows(View, q)
              /\ context.attached \/ m.type \notin {"ready-test-suite", "ready-test-case"})
  <2>1. connected = {} /\ ~context.attached /\ IsCanceled /\ ui.done <= ui.n
    <3>1. CASE ~Shows(View, q)
      BY <1>1, <3>1 DEF HasHeardOf, IsSilent
    <3>2. CASE Shows(View, q)
      <4>1. q.at \in {"begin", "suite"} /\ ~context.attached
        BY <3>2, <1>3, <1>13, LastStep
      <4>2. connected = {} /\ ui.n = ui.done + q.left
        BY <4>1, <3>2, ViewParts DEF Shows
      <4>3. q.left \in Nat /\ ui.done \in Nat
        BY <1>5, Types, StageTypes, ViewParts
      <4> QED
        BY <4>1, <4>2, <4>3, <1>8
    <3> QED
      BY <3>1, <3>2
  <2>2. w = View
    BY <2>1, <1>5, SilentEmission DEF w
  <2>3. IsView(View') /\ connected' = connected /\ ui' = ui
    BY <2>2, <1>4, <1>5, ShownView DEF Show, View
  <2>4. IsSilent'
    BY <2>1, <2>3, <1>7 DEF IsSilent, IsCanceled
  <2>5. HasHeardOf(r)'
    BY <1>6, <1>9, <2>4 DEF HasHeardOf
  <2>6. ~context'.attached
    BY <2>1, <1>7
  <2> QED
    BY <1>11, <2>3, <2>5, <2>6 DEF IndInv
<1> QED
  BY <1>12, <1>13

-----------------------------------------------------------------------------
\* A run is completed by EmitCompleteRun: nothing is shown any more.
LEMMA EmissionKeeps ==
  ASSUME IndInv, NEW c \in Contexts, EmitCompleteRun(c),
         UNCHANGED <<runs, child, run, pipe, heard>>,
         c.crashed = context.crashed, c.canceled = context.canceled,
         reading' = "no", c.ended => child = "exited",
         IsCanceled \/ (c.ended /\ ~c.watched /\ run.at # "over")
  PROVE  IndInv'
<1> DEFINE m == Message("complete-run")
           w == Emitted(View, m)
<1>1. w = Emitted(View, m) /\ Show(w) /\ context' = ContextHears(c, m)
  BY DEF EmitCompleteRun
<1>2. m.type = "complete-run"
  BY DEF Message
<1> HIDE DEF m, w
<1>3. IsView(View) /\ context \in Contexts /\ TypeOK
  BY DEF IndInv, TypeOK
<1>4. IsView(w) /\ IsSame(View, w)
  BY <1>1, <1>2, <1>3, RunIsComplete
<1>5. IsView(View') /\ IsSame(w, View')
  BY <1>1, <1>4, ShownView
<1>6. IsSame(View, View')
  BY <1>4, <1>5 DEF IsSame
<1>7. /\ context' \in Contexts /\ context'.crashed = context.crashed
      /\ context'.canceled = context.canceled /\ ~context'.attached
      /\ context'.ended = c.ended /\ context'.watched = c.watched
  BY ZenonT(60), <1>1, <1>2, <1>3 DEF ContextHears, Contexts
<1>8. IsCanceled' \/ IsStuck'
  BY <1>7 DEF IsCanceled, IsStuck
<1>9. TypeOK'
  BY <1>3, <1>5, <1>7 DEF TypeOK
<1>10. IsCanceled => IsCanceled'
  BY <1>7 DEF IsCanceled
<1> QED
  BY <1>6, <1>7, <1>8, <1>9, <1>10, NothingHeard

\* The end of a chunk, which stops a run that is canceled or has crashed.
LEMMA EndChunkKeeps == IndInv /\ EndChunk => IndInv'
<1> SUFFICES ASSUME IndInv, EndChunk PROVE IndInv'
  OBVIOUS
<1>1. context \in Contexts /\ TypeOK
  BY DEF IndInv, TypeOK
<1>2. CASE IsStopped
  <2> DEFINE c == [context EXCEPT !.watched = FALSE]
  <2>1. /\ c \in Contexts /\ c.crashed = context.crashed /\ c.canceled = context.canceled
        /\ c.ended = context.ended
    BY <1>1 DEF Contexts
  <2>2. /\ EmitCompleteRun(c) /\ UNCHANGED <<runs, child, run, pipe, heard>>
        /\ reading' = "no" /\ IsCanceled
    BY <1>2 DEF EndChunk, IsStopped
  <2> HIDE DEF c
  <2>3. c.ended => child = "exited"
    BY <2>1, <1>1 DEF TypeOK
  <2> QED
    BY <2>1, <2>2, <2>3, EmissionKeeps
<1>3. CASE ~IsStopped
  <2>1. /\ context' = [context EXCEPT !.watched = @ /\ ~context.completed]
        /\ UNCHANGED <<runs, child, run, pipe, heard, rows, connected, ui>>
        /\ reading = "chunk" /\ reading' = "no"
    BY <1>3 DEF EndChunk
  <2>2. View' = View /\ IsView(View) /\ IsSame(View, View)
    BY <2>1, <1>1 DEF View, TypeOK, IsSame
  <2>3. /\ context' \in Contexts /\ context'.crashed = context.crashed
        /\ context'.attached = context.attached /\ context'.canceled = context.canceled
        /\ context'.ended = context.ended
    BY <1>1, <2>1 DEF Contexts
  <2>4. ~IsStuck /\ (IsCanceled => IsCanceled')
    BY <2>1, <2>3 DEF IsStuck, IsCanceled
  <2>5. TypeOK'
    BY <1>1, <2>1, <2>2, <2>3 DEF TypeOK
  <2> QED
    BY <2>1, <2>2, <2>3, <2>4, <2>5, NothingHeard
<1> QED
  BY <1>2, <1>3

\* The end of what is left to be read, where the stream may have broken off.
LEMMA EndDrainKeeps == IndInv /\ EndDrain => IndInv'
<1> SUFFICES ASSUME IndInv, EndDrain PROVE IndInv'
  OBVIOUS
<1>1. context \in Contexts /\ TypeOK
  BY DEF IndInv, TypeOK
<1> DEFINE c == [context EXCEPT !.ended = TRUE, !.watched = FALSE]
<1>2. /\ c \in Contexts /\ c.crashed = context.crashed /\ c.canceled = context.canceled
      /\ c.ended /\ ~c.watched /\ c.attached = context.attached
  BY <1>1 DEF Contexts
<1>3. /\ UNCHANGED <<runs, child, run, pipe, heard>> /\ reading = "drain" /\ reading' = "no"
      /\ IF run.at # "over" THEN EmitCompleteRun(c)
         ELSE context' = c /\ UNCHANGED <<rows, connected, ui>>
  BY DEF EndDrain
<1> HIDE DEF c
<1>4. child = "exited"
  BY <1>1, <1>3 DEF TypeOK
<1>5. CASE run.at # "over"
  BY <1>2, <1>3, <1>4, <1>5, EmissionKeeps
<1>6. CASE run.at = "over"
  <2>1. context' = c /\ UNCHANGED <<rows, connected, ui>>
    BY <1>3, <1>6
  <2>2. View' = View /\ IsView(View) /\ IsSame(View, View)
    BY <2>1, <1>1 DEF View, TypeOK, IsSame
  <2>3. ~IsStuck /\ (IsCanceled => IsCanceled')
    BY <1>2, <1>3, <2>1 DEF IsStuck, IsCanceled
  <2>4. TypeOK'
    BY <1>1, <1>2, <1>3, <1>4, <2>1, <2>2 DEF TypeOK
  <2> QED
    BY <1>2, <1>3, <2>1, <2>2, <2>3, <2>4, NothingHeard
<1> QED
  BY <1>5, <1>6

\* What the child does shows nothing: what it writes is yet to be heard.
LEMMA ChildKeeps == IndInv /\ (Write \/ Signal) => IndInv'
<1> SUFFICES ASSUME IndInv, Write \/ Signal PROVE IndInv'
  OBVIOUS
<1>1. TypeOK /\ IsRun(run) /\ IsView(View)
  BY DEF IndInv, TypeOK
<1>2. child = "runs" /\ UNCHANGED <<runs, child, heard, reading, context, rows, connected, ui>>
  BY DEF Write, Signal, WriteReadySuite, WriteReadyCase, WriteStartTest, WriteCompleteTest,
         WriteResult, WriteReadyIterator, WriteUnreadyIterator, WriteStartIteratedTest,
         WriteCompleteIteratedTest, WriteCompleteIterator, WriteCompleteCase,
         WriteCompleteRun, InterruptTest, CrashCase, InterruptCase, SignalSuite, Send,
         Proceed
<1>3. View' = View /\ IsSame(View, View)
  BY <1>2 DEF View, IsSame
<1>4. /\ IsRun(run')
      /\ \A q : Leads(pipe, q, StageOf(run)) => Leads(pipe', q, StageOf(run'))
  <2>1. CASE \E m \in Messages : Leaves(run, m, run')
    BY <2>1, LeadsOn DEF Leaves
  <2>2. CASE pipe' = pipe /\ IsRun(run') /\ StageOf(run') = StageOf(run)
    BY <2>2
  <2> QED
    BY <1>1, <2>1, <2>2, ChildSteps
<1>5. TypeOK'
  BY <1>1, <1>2, <1>3, <1>4 DEF TypeOK
<1>6. ~IsStuck /\ (IsCanceled => IsCanceled')
  BY <1>1, <1>2 DEF TypeOK, IsStuck, IsCanceled
<1> QED
  BY <1>2, <1>3, <1>4, <1>5, <1>6, NothingHeard

\* Nor do its end and the beginning of the drain.
LEMMA EndKeeps == IndInv /\ (Exit \/ BeginDrain) => IndInv'
<1> SUFFICES ASSUME IndInv, Exit \/ BeginDrain PROVE IndInv'
  OBVIOUS
<1>1. TypeOK /\ IsView(View)
  BY DEF IndInv, TypeOK
<1>2. /\ UNCHANGED <<runs, run, pipe, heard, context, rows, connected, ui>>
      /\ child' = "exited" /\ reading' \in {"no", "chunk", "drain"}
  BY <1>1 DEF Exit, BeginDrain, TypeOK
<1>3. View' = View /\ IsSame(View, View)
  BY <1>2 DEF View, IsSame
<1>4. TypeOK'
  BY <1>1, <1>2, <1>3 DEF TypeOK
<1>5. IsCanceled => IsCanceled'
  BY <1>2 DEF IsCanceled
<1>6. IsStuck => IsStuck'
  BY <1>2 DEF IsStuck, Exit, BeginDrain
<1> QED
  BY <1>2, <1>3, <1>4, <1>5, <1>6, NothingHeard

\* A timer that ends changes nothing that a stage is about.
LEMMA StopTimerKeeps ==
  ASSUME IndInv, NEW r \in DOMAIN rows, StopTimer(r)
  PROVE  IndInv'
<1>0. TypeOK /\ IsView(View)
  BY DEF IndInv, TypeOK
<1>1. /\ UNCHANGED <<runs, child, run, pipe, heard, reading, context, connected, ui>>
      /\ rows' = [rows EXCEPT ![r].pulse = FALSE]
  BY DEF StopTimer
<1>2. rows \in [DOMAIN rows -> RowRecords] /\ rows[r] \in RowRecords
  BY <1>0, ViewParts DEF IsView
<1>3. /\ rows' \in [DOMAIN rows -> RowRecords]
      /\ \A y \in DOMAIN rows :
           /\ rows'[y].kind = rows[y].kind /\ rows'[y].parent = rows[y].parent
           /\ rows'[y].n = rows[y].n /\ rows'[y].done = rows[y].done
           /\ rows'[y].status = rows[y].status
  BY <1>1, <1>2 DEF RowRecords
<1>4. IsView(View') /\ IsSame(View, View')
  <2>1. View' \in [rows : {rows'}, connected : {connected}, ui : {ui}]
    BY <1>1 DEF View
  <2>2. View'.rows = rows' /\ View'.connected = connected /\ View'.ui = ui
    BY <2>1
  <2>3. ui \in UIRecords
    BY <1>0, ViewParts DEF IsView
  <2>4. DOMAIN rows' = DOMAIN rows
    BY <1>3
  <2>5. IsView(View')
    BY <1>0, <1>3, <2>1, <2>2, <2>3, <2>4, ViewParts DEF IsView
  <2> QED
    BY <1>3, <2>2, <2>4, <2>5, ViewParts DEF IsSame
<1>5. TypeOK'
  BY <1>0, <1>1, <1>4 DEF TypeOK
<1>6. (IsCanceled => IsCanceled') /\ (IsStuck => IsStuck')
  BY <1>1 DEF IsCanceled, IsStuck
<1> QED
  BY <1>1, <1>4, <1>5, <1>6, NothingHeard

\* Nor does the button, when it cancels the run.
LEMMA CancelKeeps == IndInv /\ Cancel => IndInv'
<1> SUFFICES ASSUME IndInv, Cancel PROVE IndInv'
  OBVIOUS
<1>0. TypeOK /\ IsView(View) /\ context \in Contexts
  BY DEF IndInv, TypeOK
<1>1. /\ UNCHANGED <<runs, child, run, pipe, heard, reading, connected, rows>>
      /\ ui' = [ui EXCEPT !.button = "redo"]
      /\ context' = [context EXCEPT !.canceled = TRUE]
  BY DEF Cancel
<1>2. /\ context' \in Contexts /\ context'.attached = context.attached
      /\ context'.canceled /\ context'.ended = context.ended
  BY <1>0, <1>1 DEF Contexts
<1>3. /\ ui' \in UIRecords /\ ui'.n = ui.n /\ ui'.done = ui.done /\ ui'.status = ui.status
  BY <1>0, <1>1, ViewParts DEF IsView, UIRecords
<1>4. IsView(View') /\ IsSame(View, View')
  <2>1. View' \in [rows : {rows}, connected : {connected}, ui : {ui'}]
    BY <1>1 DEF View
  <2>2. View'.rows = rows /\ View'.connected = connected /\ View'.ui = ui'
    BY <2>1
  <2>3. IsView(View')
    BY <1>0, <1>3, <2>1, <2>2, ViewParts DEF IsView
  <2> QED
    BY <1>3, <2>2, <2>3, ViewParts DEF IsSame
<1>5. IsCanceled'
  BY <1>2 DEF IsCanceled
<1>6. TypeOK'
  BY <1>0, <1>1, <1>2, <1>4 DEF TypeOK
<1> QED
  BY <1>1, <1>2, <1>4, <1>5, <1>6, NothingHeard

\* A new run begins with rows that an old one has left, and with nobody who listens.
LEMMA RestartKeeps == IndInv /\ Restart => IndInv'
<1> SUFFICES ASSUME IndInv, Restart PROVE IndInv'
  OBVIOUS
<1>0. TypeOK /\ context \in Contexts /\ runs \in Nat /\ IsView(View)
  BY DEF IndInv, TypeOK
<1> DEFINE kept == {r \in DOMAIN rows : rows[r].pulse}
<1>1. /\ runs' = runs + 1 /\ run' = Begin /\ pipe' = <<>> /\ heard' = {} /\ connected' = {}
      /\ Start(ui.running) /\ reading' = "no" /\ rows' = Restrict(rows, kept)
  BY DEF Restart
<1>2. /\ context' \in Contexts
      /\ \/ context'.attached /\ ~context'.ended /\ ui' = NewUI(ui.running, "cancel")
         \/ /\ ~context'.attached /\ context'.ended /\ ~context'.watched
            /\ child' = "exited" /\ ui' = NewUI(FALSE, "redo")
  <2>1. CASE context' = NewContext /\ ui' = NewUI(ui.running, "cancel")
    BY <2>1 DEF NewContext, Contexts
  <2>2. CASE /\ child' = "exited"
             /\ context' = [NewContext EXCEPT !.completed = TRUE, !.attached = FALSE,
                                              !.watched = FALSE, !.ended = TRUE]
             /\ ui' = NewUI(FALSE, "redo")
    BY <2>2 DEF NewContext, Contexts
  <2> QED
    BY <1>1, <2>1, <2>2 DEF Start
<1>3. IsView(View') /\ Shows(View', StageOf(Begin))
  <2>1. PICK b \in Nat : DOMAIN rows \subseteq 1 .. b
    BY <1>0, ViewParts DEF IsView
  <2>2. rows \in [DOMAIN rows -> RowRecords] /\ ui.running \in BOOLEAN
    BY <1>0, ViewParts DEF IsView, UIRecords
  <2>3. /\ rows' = [r \in kept |-> rows[r]] /\ kept \subseteq DOMAIN rows
    BY <1>1 DEF Restrict
  <2> HIDE DEF kept
  <2>4. rows' \in [DOMAIN rows' -> RowRecords] /\ DOMAIN rows' \subseteq 1 .. b
    BY <2>1, <2>2, <2>3
  <2>5. View' = [rows |-> rows', connected |-> {}, ui |-> ui']
    BY <1>1 DEF View
  <2> QED
    BY <2>1, <2>2, <2>4, <2>5, <1>2, FreshUI
<1>4. IsRun(run') /\ StageOf(run') \in Stages /\ run'.at # "over"
  BY <1>1, BeginStage DEF IsStageOf, Begin
<1>5. TypeOK'
  <2>1. runs' \in Nat /\ heard' \subseteq Statuses /\ reading' = "no"
    BY <1>0, <1>1
  <2>2. context'.ended => child' = "exited"
    BY <1>2
  <2> QED
    BY <1>2, <1>3, <1>4, <2>1, <2>2 DEF TypeOK
<1>6. context'.attached \/ IsStuck'
  BY <1>1, <1>2, <1>4 DEF IsStuck
<1>7. WorstIsHeard'
  <2>1. ui'.status = Success
    BY <1>2 DEF NewUI
  <2> QED
    BY <1>1, <2>1 DEF WorstIsHeard
<1>8. Leads(pipe', StageOf(run'), StageOf(run'))
  BY <1>1, <1>4, LeadsNone
<1>9. HasHeardOf(StageOf(run))'
  BY <1>1, <1>3, <1>6, <1>8 DEF HasHeardOf
<1> QED
  BY <1>4, <1>5, <1>7, <1>9 DEF IndInv

\* A step of nothing.
LEMMA StutterKeeps == IndInv /\ UNCHANGED vars => IndInv'
<1> SUFFICES ASSUME IndInv, UNCHANGED vars PROVE IndInv'
  OBVIOUS
<1>1. UNCHANGED <<runs, child, run, pipe, heard, reading, context, rows, connected, ui>>
  BY DEF vars
<1>2. View' = View /\ IsSame(View, View)
  BY <1>1 DEF View, IsSame
<1>3. TypeOK'
  BY <1>1, <1>2 DEF IndInv, TypeOK
<1>4. (IsCanceled => IsCanceled') /\ (IsStuck => IsStuck')
  BY <1>1 DEF IsCanceled, IsStuck
<1> QED
  BY <1>1, <1>2, <1>3, <1>4, NothingHeard

\* What is shown is the stage of the last message that was heard, or nobody listens to a
\* run that is over (IndInv), for test suites of every size (cut-gtk-ui.c:1386, 1732).
THEOREM UIInvariant == Spec => []IndInv
<1>1. IndInv /\ [Next]_vars => IndInv'
  BY HearKeeps, EndChunkKeeps, EndDrainKeeps, ChildKeeps, EndKeeps, StopTimerKeeps,
     CancelKeeps, RestartKeeps, StutterKeeps DEF Next, MainLoop
<1> QED
  BY <1>1, InitEstablishes, PTL DEF Spec

-----------------------------------------------------------------------------
\* The rows that hear a message of a stage have the rows above them.
LEMMA ShownRowsAreLive ==
  ASSUME NEW v, IsView(v), NEW q, NEW m, NEW r, Shows(v, q), IsStep(q, m, r),
         NEW x \in v.connected, v.rows[x].kind \in Listening(m.type)
  PROVE  /\ v.rows[x].parent \in {NoRow} \cup DOMAIN v.rows
         /\ \A p \in Ancestors(v.rows, x) : p \in DOMAIN v.rows
<1>0. q.at \in Points /\ q.at \notin {"over", "left"} /\ NoRow \notin DOMAIN v.rows
  BY StageTypes, LastStep, Types DEF IsStep, NoRow
<1>1. CASE q.at \in {"begin", "suite"}
  BY <1>1 DEF Shows
<1>2. CASE q.at = "case"
  <2>1. v.rows[x].parent = NoRow
    BY <1>2 DEF Shows, IsCaseRow
  <2> QED
    BY <2>1, AncestorsOfRow
<1>3. CASE q.at = "test"
  <2>1. PICK c, t : v.connected = {c, t} /\ IsCaseRow(v, q, c) /\ IsTestRow(v, "test", c, t)
    BY <1>3 DEF Shows
  <2>2. v.rows[c].parent = NoRow /\ c \in DOMAIN v.rows /\ v.rows[t].parent = c
    BY <2>1 DEF IsCaseRow, IsTestRow
  <2>3. Ancestors(v.rows, c) = {} /\ Ancestors(v.rows, t) = {c}
    BY <1>0, <2>2, AncestorsOfRow
  <2> QED
    BY <2>1, <2>2, <2>3
<1>4. CASE q.at = "iterator"
  <2>1. PICK c, i : v.connected = {c, i} /\ IsCaseRow(v, q, c) /\ IsIteratorRow(v, q, c, i)
    BY <1>4 DEF Shows
  <2>2. v.rows[c].parent = NoRow /\ c \in DOMAIN v.rows /\ v.rows[i].parent = c
    BY <2>1 DEF IsCaseRow, IsIteratorRow
  <2>3. Ancestors(v.rows, c) = {} /\ Ancestors(v.rows, i) = {c}
    BY <1>0, <2>2, AncestorsOfRow
  <2> QED
    BY <2>1, <2>2, <2>3
<1>5. CASE q.at = "iterated"
  <2>1. PICK c, i, t : /\ v.connected = {c, i, t} /\ IsCaseRow(v, q, c)
                       /\ IsIteratorRow(v, q, c, i) /\ IsTestRow(v, "iterated", i, t)
    BY <1>5 DEF Shows
  <2>2. /\ v.rows[c].parent = NoRow /\ c \in DOMAIN v.rows /\ i \in DOMAIN v.rows
        /\ v.rows[i].parent = c /\ v.rows[t].parent = i
    BY <2>1 DEF IsCaseRow, IsIteratorRow, IsTestRow
  <2>3. /\ Ancestors(v.rows, c) = {} /\ Ancestors(v.rows, i) = {c}
        /\ Ancestors(v.rows, t) = {i, c}
    BY <1>0, <2>2, AncestorsOfRow
  <2> QED
    BY <2>1, <2>2, <2>3
<1>6. CASE q.at = "dead"
  BY <1>6, LastStep, Listeners
<1> QED
  BY <1>0, <1>1, <1>2, <1>3, <1>4, <1>5, <1>6 DEF Points

\* Theorem: RowsAreLive. A handler is never called on a freed row, and never walks up to
\* one.
THEOREM NoFreedRowHears == Spec => []RowsAreLive
<1>1. IndInv => RowsAreLive
  <2> SUFFICES ASSUME IndInv PROVE RowsAreLive
    OBVIOUS
  <2>1. PICK q \in Stages : HasHeardOf(q)
    BY DEF IndInv
  <2>2. IsView(View)
    BY DEF IndInv, TypeOK
  <2>3. CASE Shows(View, q)
    <3>1. connected \subseteq DOMAIN rows
      BY <2>2, <2>3, ShownRows, ViewParts DEF AreLeft
    <3>2. ASSUME pipe # <<>>
          PROVE  \E r \in Stages : IsStep(q, Head(pipe), r)
      BY <2>1, <3>2, LeadsFirst DEF HasHeardOf
    <3> QED
      BY <2>2, <2>3, <3>1, <3>2, ShownRowsAreLive, ViewParts DEF RowsAreLive
  <2>4. CASE IsSilent
    BY <2>4 DEF IsSilent, RowsAreLive
  <2> QED
    BY <2>1, <2>3, <2>4 DEF HasHeardOf
<1> QED
  BY <1>1, UIInvariant, PTL

\* Theorem: ProgressIsWhole. No bar shows more tests than there are, and a run that is
\* shown to its end has all tests done but for those that could not be started.
THEOREM ProgressTheorem == Spec => []ProgressIsWhole
<1>1. IndInv => ProgressIsWhole
  <2> SUFFICES ASSUME IndInv PROVE ProgressIsWhole
    OBVIOUS
  <2>1. PICK q \in Stages : HasHeardOf(q)
    BY DEF IndInv
  <2>2. IsView(View) /\ IsRun(run)
    BY DEF IndInv, TypeOK
  <2>3. CASE Shows(View, q)
    <3>1. /\ ui.done <= ui.n
          /\ \A r \in connected :
               rows[r].kind \in {"case", "iterator"} => rows[r].done <= rows[r].n
      BY <2>2, <2>3, ShownRows, ViewParts DEF AreLeft
    <3>2. ASSUME run.at = "over", pipe = <<>>
          PROVE  /\ run.jumped = "no" => connected = {}
                 /\ ~run.stopped => ui.done = ui.n - run.missed
      <4>1. q = StageOf(run)
        BY <2>1, <3>2, LeadsNowhere DEF HasHeardOf
      <4>2. /\ run.missed \in Nat
            /\ ~run.stopped => /\ run.jumped = "no" /\ run.ahead = 0 /\ run.items = 0
                               /\ run.data = 0
        BY <2>2, <3>2 DEF IsRun, Runs
      <4>3. run.jumped = "no" => IsStageOf(run, "over", 0)
        BY <2>2, <3>2, PlainStage
      <4>4. ui.n = ui.done + q.left /\ (q.at = "over" => connected = {})
        BY <2>3, ViewParts DEF Shows
      <4>5. ui.done \in Nat /\ ui.n \in Nat
        BY <2>2, Types, ViewParts
      <4>6. run.jumped = "no" => connected = {}
        BY <4>1, <4>3, <4>4 DEF IsStageOf
      <4>7. ~run.stopped => q.left = run.missed
        BY <4>1, <4>2, <4>3 DEF IsStageOf
      <4> QED
        BY <4>2, <4>4, <4>5, <4>6, <4>7
    <3> QED
      BY <3>1, <3>2 DEF ProgressIsWhole
  <2>4. CASE IsSilent
    BY <2>4 DEF IsSilent, ProgressIsWhole
  <2> QED
    BY <2>1, <2>3, <2>4 DEF HasHeardOf
<1> QED
  BY <1>1, UIInvariant, PTL

\* Theorem: StatusIsWorst. The user interface shows the worst result that was heard, and
\* no row anything better than the rows below it.
THEOREM StatusTheorem == Spec => []StatusIsWorst
<1>1. IndInv => StatusIsWorst
  <2> SUFFICES ASSUME IndInv PROVE StatusIsWorst
    OBVIOUS
  <2>0. IsView(View) /\ heard \subseteq Statuses
    BY DEF IndInv, TypeOK
  <2>1. ASSUME context.attached
        PROVE  ui.status = Max({Success} \cup heard)
    <3> DEFINE S == {Success} \cup heard
    <3>1. WorstIsHeard
      BY <2>1 DEF IndInv
    <3>2. ui.status \in Statuses
      BY <2>0, Types, ViewParts
    <3>3. ui.status \in S
      BY <3>1 DEF WorstIsHeard
    <3>4. \A s \in S : s <= ui.status /\ s \in Int
      BY <2>0, <3>1, <3>2 DEF WorstIsHeard, Statuses, Success, Crash
    <3>5. ui.status \in Int
      BY <3>2 DEF Statuses, Success, Crash
    <3> HIDE DEF S
    <3>6. \A s \in S : (\A t \in S : s >= t) => s = ui.status
      BY <3>3, <3>4, <3>5
    <3>7. ui.status = Max(S)
      BY <3>3, <3>4, <3>5, <3>6 DEF Max
    <3> QED
      BY <3>7 DEF S
  <2>2. \A r \in connected :
          /\ rows[r].status <= ui.status
          /\ rows[r].parent \in DOMAIN rows => rows[r].status <= rows[rows[r].parent].status
    <3>1. PICK q \in Stages : HasHeardOf(q)
      BY DEF IndInv
    <3>2. CASE Shows(View, q)
      BY <2>0, <3>2, ShownRows, ViewParts DEF AreLeft
    <3>3. CASE IsSilent
      BY <3>3 DEF IsSilent
    <3> QED
      BY <3>1, <3>2, <3>3 DEF HasHeardOf
  <2> QED
    BY <2>1, <2>2 DEF StatusIsWorst
<1> QED
  BY <1>1, UIInvariant, PTL
=============================================================================
