--------------------------- MODULE CutProcessProofs ---------------------------
(***************************************************************************)
(* Theorems about CutProcess: for any number of forks, of process numbers  *)
(* that the kernel reuses, and any size of a pipe, a wait forwards the     *)
(* results of the process it is for, all and no other, and none of the     *)
(* test's processes is left running when its context is gone.              *)
(*                                                                         *)
(* A process finds its own forks in a list that it has inherited from its  *)
(* parent and that it adds to at the front.  What holds of the objects     *)
(* before the first of pid 0 (Mine) is that they are its own; and what has *)
(* been read into such an object, with what is still in the pipe, is       *)
(* exactly what the child has sent so far.                                 *)
(***************************************************************************)
EXTENDS CutProcess, FiniteSetTheorems, SequenceTheorems, WellFoundedInduction, TLAPS

States == {"none", "body", "runaway", "zombie", "reaped", "done", "exited", "stuck"}
Parts == [from : Processes, n : Nat, part : {"begin", "end"}]
Objects == [fork : Processes, pid : Pids \cup {0, -1}, io : {"parent", "child", "none"},
            text : Seq(Parts)]
CallRecords == [op : {"none", "write", "send", "send-rest", "reap", "collect", "read",
                      "failed"},
                fork : Processes, stream : Outputs \cup {"none", "result"},
                last : BOOLEAN]
Emissions == [from : Processes, n : Nat]

Typed ==
  /\ state \in [Processes -> States]
  /\ call \in [Processes -> CallRecords]
  /\ objects \in [Processes -> Seq(Objects)]
  /\ pidOf \in [Processes -> Pids \cup {0}] /\ parent \in [Processes -> Processes]
  /\ results \in [Processes -> Seq(Parts)]
  /\ \A k \in Processes : Len(results[k]) <= Capacity
  /\ sent \in [Processes -> Nat] /\ waits \in [Processes -> Nat]
  /\ emitted \in [Processes -> Seq(Emissions)]

-----------------------------------------------------------------------------
\* The i-th object of p is before all that it has inherited.
Mine(p, i) == i \in DOMAIN objects[p] /\ \A j \in 1 .. i - 1 : objects[p][j].pid # 0

\* The object of a fork of p, of a fork or of a pipe that failed, and its own.
IsFork(p, o) ==
  /\ o.io = "parent" /\ o.fork \in Forks /\ state[o.fork] # "none"
  /\ parent[o.fork] = p /\ o.pid = pidOf[o.fork]
IsFailed(p, o) == o.fork = Runner /\ o.pid = -1
IsBroken(p, o) == o.fork = Runner /\ o.pid = 0 /\ o.io = "none"
IsSelf(p, o) == o.fork = p /\ o.pid = 0 /\ o.io = "child" /\ p \in Forks

ListKnown(p) ==
  \A i \in DOMAIN objects[p] : Mine(p, i) =>
    \/ IsFork(p, objects[p][i]) \/ IsFailed(p, objects[p][i])
    \/ IsBroken(p, objects[p][i]) \/ IsSelf(p, objects[p][i])

\* A process writes to its own pipes, and waits for a fork of its own.
CallKnown(p) ==
  /\ call[p].op \in {"write", "send", "send-rest"} => p \in Forks /\ call[p].fork = p
  /\ call[p].op \in {"reap", "collect"} =>
       /\ call[p].fork \in Forks
       /\ \E i \in DOMAIN objects[p] : /\ Mine(p, i) /\ objects[p][i].pid # 0
                                       /\ objects[p][i].fork = call[p].fork

\* t is all that k has sent: whole results, and the beginning of one more.
Half(k) == call[k].op = "send-rest"
IsStream(t, k, n, half) ==
  /\ Len(t) = 2 * n + (IF half THEN 1 ELSE 0)
  /\ \A j \in 1 .. n : t[2 * j - 1] = Part(k, j, "begin") /\ t[2 * j] = Part(k, j, "end")
  /\ half => t[2 * n + 1] = Part(k, n + 1, "begin")

\* What has been read of a fork, and what is still in its pipe.
First(p, i) == \A j \in 1 .. i - 1 : objects[p][j].fork # objects[p][i].fork
Received(o) == o.text \o results[o.fork]
TextKnown(p) ==
  \A i \in DOMAIN objects[p] :
    Mine(p, i) /\ First(p, i) /\ IsFork(p, objects[p][i]) =>
      IsStream(Received(objects[p][i]), objects[p][i].fork, sent[objects[p][i].fork],
               Half(objects[p][i].fork))

\* What the waits for k have emitted.
Emission(k, n) == [from |-> k, n |-> n]
Waited(k) ==
  /\ emitted[k] = [i \in 1 .. waits[k] * sent[k] |-> Emission(k, 1 + ((i - 1) % sent[k]))]
  /\ waits[k] > 0 => state[k] # "none" /\ ~Alive(k)

ProcessKnown(p) ==
  /\ state[p] = "none" => /\ call[p] = NoCall /\ objects[p] = <<>> /\ results[p] = <<>>
                          /\ sent[p] = 0
  /\ p \in Forks /\ state[p] # "none" => pidOf[p] \in Pids
  /\ ListKnown(p) /\ CallKnown(p) /\ TextKnown(p) /\ Waited(p)

\* The runner has an object of each of its children that is alive.
RunnerKnown ==
  /\ state[Runner] # "none"
  /\ state[Runner] = "body" =>
       \A k \in Forks : Alive(k) /\ parent[k] = Runner =>
         \E i \in DOMAIN objects[Runner] : objects[Runner][i].pid = pidOf[k]

Inv == /\ Typed /\ \A p \in Processes : ProcessKnown(p)
       /\ RunnerKnown /\ NoChildIsLeft

-----------------------------------------------------------------------------
\* Positions in a list.

LEMMA MinExists ==
  ASSUME NEW T, T \subseteq Nat, T # {}
  PROVE  Min(T) \in T /\ \A y \in T : Min(T) <= y
<1> DEFINE R == {ss \in Nat \X Nat : ss[1] < ss[2]}
<1>1. IsWellFoundedOn(R, Nat)
  BY NatLessThanWellFounded DEF OpToRel
<1>2. \E x \in T : \A y \in T : <<y, x>> \notin R
  <2> HIDE DEF R
  <2> QED
    BY <1>1, WFMin
<1>3. PICK x \in T : \A y \in T : <<y, x>> \notin R
  BY <1>2
<1>4. ASSUME NEW y \in T PROVE x <= y
  <2>1. x \in Nat /\ y \in Nat /\ (y < x => <<y, x>> \in R)
    OBVIOUS
  <2> QED
    BY <1>3, <2>1
<1> QED
  BY <1>3, <1>4 DEF Min

\* The position of the first of some elements, or 0.
LEMMA FirstPosition ==
  ASSUME NEW n \in Nat, NEW I, I \subseteq 1 .. n,
         NEW k, k = IF I # {} THEN Min(I) ELSE 0
  PROVE  /\ k = 0 => I = {}
         /\ k # 0 => k \in I /\ \A i \in 1 .. k - 1 : i \in 1 .. n /\ i \notin I
         /\ I # {} => k # 0
<1>1. CASE I # {}
  <2>1. I \subseteq Nat
    OBVIOUS
  <2>2. k \in I /\ \A y \in I : k <= y
    BY <1>1, <2>1, MinExists
  <2>3. k \in 1 .. n /\ \A i \in 1 .. k - 1 : i \in 1 .. n /\ i < k /\ ~(k <= i)
    BY <2>2
  <2> QED
    BY <1>1, <2>2, <2>3
<1>2. CASE I = {}
  BY <1>2
<1> QED
  BY <1>1, <1>2

LEMMA FirstOfPid ==
  ASSUME NEW list \in Seq(Objects), NEW pid, NEW k, k = ProcessFromPid(list, pid)
  PROVE  /\ k = 0 => \A i \in DOMAIN list : list[i].pid # pid
         /\ k # 0 => /\ k \in DOMAIN list /\ list[k].pid = pid
                     /\ \A i \in 1 .. k - 1 : i \in DOMAIN list /\ list[i].pid # pid
         /\ (\E i \in DOMAIN list : list[i].pid = pid) => k # 0
<1> DEFINE I == {i \in 1 .. Len(list) : list[i].pid = pid}
           n == Len(list)
<1>1. n \in Nat /\ DOMAIN list = 1 .. n /\ I \subseteq 1 .. n
  OBVIOUS
<1>2. k = IF I # {} THEN Min(I) ELSE 0
  BY DEF ProcessFromPid, SelectInSeq
<1>3. /\ k = 0 => I = {}
      /\ k # 0 => k \in I /\ \A i \in 1 .. k - 1 : i \in 1 .. n /\ i \notin I
      /\ I # {} => k # 0
  <2> HIDE DEF I, n
  <2> QED
    BY <1>1, <1>2, FirstPosition
<1> QED
  BY <1>1, <1>3

LEMMA CurrentIsFirst ==
  ASSUME Typed, NEW p \in Processes, \E i \in DOMAIN objects[p] :
                                       objects[p][i].fork = call[p].fork
  PROVE  /\ Current(p) \in DOMAIN objects[p]
         /\ objects[p][Current(p)].fork = call[p].fork
         /\ \A i \in 1 .. Current(p) - 1 :
              i \in DOMAIN objects[p] /\ objects[p][i].fork # call[p].fork
<1> DEFINE I == {i \in 1 .. Len(objects[p]) : objects[p][i].fork = call[p].fork}
           n == Len(objects[p])
           k == Current(p)
<1>1. n \in Nat /\ DOMAIN objects[p] = 1 .. n /\ I \subseteq 1 .. n
  BY DEF Typed
<1>2. k = IF I # {} THEN Min(I) ELSE 0
  BY DEF Current, SelectInSeq
<1>3. /\ k # 0 => k \in I /\ \A i \in 1 .. k - 1 : i \in 1 .. n /\ i \notin I
      /\ I # {} => k # 0
  <2> HIDE DEF I, n, k
  <2> QED
    BY <1>1, <1>2, FirstPosition
<1>4. I # {}
  BY <1>1
<1> QED
  BY <1>1, <1>3, <1>4

-----------------------------------------------------------------------------
\* What a child sends.

LEMMA SendsBegin ==
  ASSUME NEW t \in Seq(Parts), NEW k \in Processes, NEW n \in Nat,
         IsStream(t, k, n, FALSE)
  PROVE  IsStream(Append(t, Part(k, n + 1, "begin")), k, n, TRUE)
<1> DEFINE u == Append(t, Part(k, n + 1, "begin"))
<1>1. Len(t) = 2 * n /\ Len(u) = 2 * n + 1 /\ u[2 * n + 1] = Part(k, n + 1, "begin")
  BY DEF IsStream
<1>2. \A i \in 1 .. 2 * n : u[i] = t[i]
  BY <1>1
<1>3. \A j \in 1 .. n : 2 * j - 1 \in 1 .. 2 * n /\ 2 * j \in 1 .. 2 * n
  OBVIOUS
<1> HIDE DEF u
<1>4. \A j \in 1 .. n : u[2 * j - 1] = Part(k, j, "begin") /\ u[2 * j] = Part(k, j, "end")
  BY <1>2, <1>3 DEF IsStream
<1>5. IsStream(u, k, n, TRUE)
  BY <1>1, <1>4 DEF IsStream
<1> QED
  BY <1>5 DEF u

LEMMA SendsEnd ==
  ASSUME NEW t \in Seq(Parts), NEW k \in Processes, NEW n \in Nat,
         IsStream(t, k, n, TRUE)
  PROVE  IsStream(Append(t, Part(k, n + 1, "end")), k, n + 1, FALSE)
<1> DEFINE u == Append(t, Part(k, n + 1, "end"))
<1>1. /\ Len(t) = 2 * n + 1 /\ Len(u) = 2 * n + 2 /\ u[2 * n + 2] = Part(k, n + 1, "end")
      /\ t[2 * n + 1] = Part(k, n + 1, "begin")
  BY DEF IsStream
<1>2. \A i \in 1 .. 2 * n + 1 : u[i] = t[i]
  BY <1>1
<1>3. \A j \in 1 .. n : 2 * j - 1 \in 1 .. 2 * n + 1 /\ 2 * j \in 1 .. 2 * n + 1
  OBVIOUS
<1> HIDE DEF u
<1>4. \A j \in 1 .. n : u[2 * j - 1] = Part(k, j, "begin") /\ u[2 * j] = Part(k, j, "end")
  BY <1>2, <1>3 DEF IsStream
<1>5. u[2 * n + 1] = Part(k, n + 1, "begin")
  BY <1>1, <1>2
<1>6. \A j \in 1 .. n + 1 : u[2 * j - 1] = Part(k, j, "begin") /\ u[2 * j] = Part(k, j, "end")
  <2> SUFFICES ASSUME NEW j \in 1 .. n + 1
               PROVE  u[2 * j - 1] = Part(k, j, "begin") /\ u[2 * j] = Part(k, j, "end")
    OBVIOUS
  <2>1. CASE j \in 1 .. n
    BY <1>4, <2>1
  <2>2. CASE j = n + 1
    <3>1. 2 * j - 1 = 2 * n + 1 /\ 2 * j = 2 * n + 2
      BY <2>2
    <3> QED
      BY <1>1, <1>5, <2>2, <3>1
  <2> QED
    BY <2>1, <2>2
<1>7. IsStream(u, k, n + 1, FALSE)
  BY <1>1, <1>6 DEF IsStream
<1> QED
  BY <1>7 DEF u

\* The results in it are those that were sent whole.
LEMMA ParsedStream ==
  ASSUME NEW t \in Seq(Parts), NEW k \in Processes, NEW n \in Nat, NEW half \in BOOLEAN,
         IsStream(t, k, n, half)
  PROVE  Parsed(t) = [j \in 1 .. n |-> Emission(k, j)]
<1> DEFINE E == {i \in DOMAIN t : t[i].part = "end"}
           F(j) == {h \in E : h <= 2 * j}
           D == {2 * j : j \in 1 .. n}
<1>1. DOMAIN t = 1 .. Len(t) /\ Len(t) = 2 * n + (IF half THEN 1 ELSE 0) /\ Len(t) \in Nat
  BY DEF IsStream
<1>2. E = D
  <2>1. ASSUME NEW j \in 1 .. n PROVE 2 * j \in E
    <3>1. t[2 * j] = Part(k, j, "end")
      BY DEF IsStream
    <3>2. 2 * j \in 1 .. Len(t)
      BY <1>1
    <3> QED
      BY <1>1, <3>1, <3>2 DEF Part
  <2>2. ASSUME NEW i \in E PROVE i \in D
    <3>1. PICK j \in Nat : i = 2 * j \/ i = 2 * j + 1
      <4>1. i \in Nat
        BY <1>1
      <4>2. i \div 2 \in Nat /\ (i = 2 * (i \div 2) \/ i = 2 * (i \div 2) + 1)
        BY <4>1
      <4> QED
        BY <4>2
    <3>2. CASE i = 2 * j
      <4>1. j \in 1 .. n
        BY <1>1, <3>2
      <4> QED
        BY <3>2, <4>1
    <3>3. CASE i = 2 * j + 1
      <4>1. CASE j < n
        <5>1. j + 1 \in 1 .. n /\ i = 2 * (j + 1) - 1
          BY <3>3, <4>1
        <5>2. t[i] = Part(k, j + 1, "begin")
          BY <5>1 DEF IsStream
        <5> QED
          BY <5>2 DEF Part
      <4>2. CASE ~(j < n)
        <5>1. j = n /\ half
          BY <1>1, <3>3, <4>2
        <5>2. t[i] = Part(k, n + 1, "begin")
          BY <3>3, <5>1 DEF IsStream
        <5> QED
          BY <5>2 DEF Part
      <4> QED
        BY <4>1, <4>2
    <3> QED
      BY <3>1, <3>2, <3>3
  <2> QED
    BY <2>1, <2>2
<1>3. ASSUME NEW j \in 0 .. n
      PROVE  Cardinality(F(j)) = j
  <2> DEFINE f == [i \in 1 .. j |-> 2 * i]
  <2>1. \A h \in F(j) : \E i \in 1 .. j : h = 2 * i
    BY <1>2
  <2>2. \A i \in 1 .. j : 2 * i \in F(j)
    BY <1>2
  <2>3. f \in Bijection(1 .. j, F(j))
    <3>1. f \in [1 .. j -> F(j)]
      BY <2>2
    <3>2. \A a, b \in 1 .. j : f[a] = f[b] => a = b
      OBVIOUS
    <3>3. \A h \in F(j) : \E i \in 1 .. j : f[i] = h
      BY <2>1
    <3>4. DOMAIN f = 1 .. j
      OBVIOUS
    <3> HIDE DEF f, F
    <3> QED
      BY <3>1, <3>2, <3>3, <3>4 DEF Bijection, Injection, Surjection, IsInjective
  <2>4. ExistsBijection(1 .. j, F(j))
    BY <2>3 DEF ExistsBijection
  <2>5. IsFiniteSet(1 .. j) /\ Cardinality(1 .. j) = j
    <3>1. j \in Int /\ 1 \in Int /\ j >= 0
      OBVIOUS
    <3> QED
      BY <3>1, FS_Interval
  <2> HIDE DEF F
  <2> QED
    BY <2>4, <2>5, FS_Bijection
<1>4. Cardinality(E) = n
  <2>1. n \in 0 .. n /\ F(n) = E
    BY <1>2
  <2> QED
    BY <1>3, <2>1
<1>5. ASSUME NEW j \in 1 .. n
      PROVE  (CHOOSE i \in E : Cardinality({h \in E : h <= i}) = j) = 2 * j
  <2>1. 2 * j \in E /\ Cardinality({h \in E : h <= 2 * j}) = j
    <3>1. j \in 0 .. n
      OBVIOUS
    <3> QED
      BY <1>2, <1>3, <3>1
  <2>2. ASSUME NEW i \in E, Cardinality({h \in E : h <= i}) = j
        PROVE  i = 2 * j
    <3>1. PICK m \in 1 .. n : i = 2 * m
      BY <1>2
    <3>2. m \in 0 .. n /\ Cardinality({h \in E : h <= i}) = Cardinality(F(m))
      BY <3>1
    <3> QED
      BY <1>3, <2>2, <3>1, <3>2
  <2> HIDE DEF E
  <2> QED
    BY <2>1, <2>2
<1>6. \A j \in 1 .. n : t[2 * j].from = k /\ t[2 * j].n = j
  <2>1. \A j \in 1 .. n : t[2 * j] = Part(k, j, "end")
    BY DEF IsStream
  <2>2. \A j \in 1 .. n : Part(k, j, "end").from = k /\ Part(k, j, "end").n = j
    BY DEF Part
  <2> QED
    BY <2>1, <2>2
<1> DEFINE N(j) == t[CHOOSE i \in E : Cardinality({h \in E : h <= i}) = j]
<1>7. \A j \in 1 .. n : N(j).from = k /\ N(j).n = j
  <2> HIDE DEF E
  <2>1. \A j \in 1 .. n : N(j) = t[2 * j]
    BY <1>5
  <2> HIDE DEF N
  <2> QED
    BY <1>6, <2>1
<1>8. Parsed(t) = [j \in 1 .. Cardinality(E) |-> [from |-> N(j).from, n |-> N(j).n]]
  BY DEF Parsed
<1> HIDE DEF N, E
<1> QED
  BY <1>4, <1>7, <1>8 DEF Emission

\* One wait more.
LEMMA OneMore ==
  ASSUME NEW w \in Nat, NEW s \in Nat, NEW i \in Nat, i >= w * s, i < w * s + s
  PROVE  i % s = i - w * s
<1>1. s \in Nat \ {0} /\ w * s \in Nat
  OBVIOUS
<1> DEFINE q == i \div s
           r == i % s
<1>2. i = s * q + r /\ q \in Nat /\ r \in 0 .. s - 1
  BY <1>1
<1> HIDE DEF q, r
<1>3. CASE q >= w + 1
  <2>1. s * q >= s * (w + 1)
    BY <1>1, <1>2, <1>3
  <2>2. s * (w + 1) = w * s + s
    BY <1>1
  <2> QED
    BY <1>1, <1>2, <2>1, <2>2
<1>4. CASE q <= w - 1
  <2>1. s * q <= s * (w - 1)
    BY <1>1, <1>2, <1>4
  <2>2. s * (w - 1) = w * s - s
    BY <1>1
  <2> QED
    BY <1>1, <1>2, <2>1, <2>2
<1>5. CASE q = w
  BY <1>1, <1>2, <1>5 DEF r
<1> QED
  BY <1>2, <1>3, <1>4, <1>5

LEMMA Emitted ==
  ASSUME NEW k \in Processes, NEW w \in Nat, NEW s \in Nat
  PROVE  [i \in 1 .. w * s |-> Emission(k, 1 + ((i - 1) % s))]
           \o [j \in 1 .. s |-> Emission(k, j)]
         = [i \in 1 .. (w + 1) * s |-> Emission(k, 1 + ((i - 1) % s))]
<1> DEFINE e == [i \in 1 .. w * s |-> Emission(k, 1 + ((i - 1) % s))]
           t == [j \in 1 .. s |-> Emission(k, j)]
<1>1. w * s \in Nat /\ (w + 1) * s = w * s + s
  OBVIOUS
<1> DEFINE m == w * s
<1>2. \A i \in 1 .. m : e[i] = Emission(k, 1 + ((i - 1) % s))
  OBVIOUS
<1>3. \A i \in m + 1 .. m + s : t[i - m] = Emission(k, 1 + ((i - 1) % s))
  <2> SUFFICES ASSUME NEW i \in m + 1 .. m + s
               PROVE  t[i - m] = Emission(k, 1 + ((i - 1) % s))
    OBVIOUS
  <2>1. i - 1 \in Nat /\ i - 1 >= w * s /\ i - 1 < w * s + s /\ i - m \in 1 .. s
    BY <1>1
  <2>2. (i - 1) % s = i - 1 - m
    BY <2>1, OneMore
  <2>3. 1 + ((i - 1) % s) = i - m
    BY <1>1, <2>1, <2>2
  <2> QED
    BY <2>1, <2>3
<1>4. DOMAIN e = 1 .. m /\ DOMAIN t = 1 .. s
  OBVIOUS
<1>5. Len(e) = m /\ Len(t) = s
  BY <1>1, <1>4
<1>6. e \o t = [i \in 1 .. m + s |-> IF i <= m THEN e[i] ELSE t[i - m]]
  BY <1>1, <1>5
<1> HIDE DEF m
<1>7. \A i \in 1 .. m + s : (IF i <= m THEN e[i] ELSE t[i - m])
                              = Emission(k, 1 + ((i - 1) % s))
  <2> SUFFICES ASSUME NEW i \in 1 .. m + s
               PROVE  (IF i <= m THEN e[i] ELSE t[i - m]) = Emission(k, 1 + ((i - 1) % s))
    OBVIOUS
  <2>1. m \in Nat
    BY <1>1 DEF m
  <2>2. CASE i <= m
    <3>1. i \in 1 .. m
      BY <2>1, <2>2
    <3> QED
      BY <1>2, <2>2, <3>1
  <2>3. CASE ~(i <= m)
    <3>1. i \in m + 1 .. m + s
      BY <2>1, <2>3
    <3> QED
      BY <1>3, <2>3, <3>1
  <2> QED
    BY <2>2, <2>3
<1>8. e \o t = [i \in 1 .. m + s |-> Emission(k, 1 + ((i - 1) % s))]
  BY <1>6, <1>7
<1> QED
  BY <1>1, <1>8 DEF m

-----------------------------------------------------------------------------
\* Steps in which one process goes on with its call and its list, and others may
\* die.

Withers(q) == (state'[q] = "none" <=> state[q] = "none") /\ (Alive(q)' => Alive(q))

LEMMA Constants ==
  /\ Runner \in Processes /\ Runner \notin Forks /\ Forks \subseteq Processes
  /\ \A k \in Forks : k \in Processes /\ k # Runner
  /\ NoCall \in CallRecords /\ NoCall.op = "none"
  /\ \A n \in Pids : n # 0 /\ n # -1
BY ForksAssumption, PidsAssumption DEF Runner, Forks, Processes, NoCall, CallRecords

LEMMA Known ==
  ASSUME Inv, NEW p \in Processes
  PROVE  ProcessKnown(p) /\ ListKnown(p) /\ CallKnown(p) /\ TextKnown(p) /\ Waited(p)
BY DEF Inv, ProcessKnown

LEMMA ListStays ==
  ASSUME NEW q \in Processes, ListKnown(q), objects'[q] = objects[q],
         UNCHANGED <<pidOf, parent>>, \A k \in Processes : Withers(k)
  PROVE  ListKnown(q)'
<1> SUFFICES ASSUME NEW i \in DOMAIN objects[q], Mine(q, i)
    PROVE  \/ IsFork(q, objects[q][i])' \/ IsFailed(q, objects[q][i])'
           \/ IsBroken(q, objects[q][i])' \/ IsSelf(q, objects[q][i])'
  BY DEF ListKnown, Mine
<1>1. \/ IsFork(q, objects[q][i]) \/ IsFailed(q, objects[q][i])
      \/ IsBroken(q, objects[q][i]) \/ IsSelf(q, objects[q][i])
  BY DEF ListKnown
<1> DEFINE o == objects[q][i]
<1>2. objects'[q][i] = o
  OBVIOUS
<1>3. IsFork(q, o) => state'[o.fork] # "none"
  BY DEF IsFork, Withers, Processes
<1> HIDE DEF o
<1> QED
  BY <1>1, <1>2, <1>3 DEF IsFork, IsFailed, IsBroken, IsSelf, o

LEMMA TextStays ==
  ASSUME Typed, NEW q \in Processes, TextKnown(q), objects'[q] = objects[q],
         UNCHANGED <<pidOf, parent, results, sent>>, \A k \in Processes : Withers(k),
         \A k \in Processes : Half(k)' = Half(k)
  PROVE  TextKnown(q)'
<1> SUFFICES ASSUME NEW i \in DOMAIN objects'[q], Mine(q, i)', First(q, i)',
                    IsFork(q, objects[q][i])'
    PROVE  IsStream(Received(objects[q][i]), objects[q][i].fork, sent[objects[q][i].fork],
                    Half(objects[q][i].fork))'
  BY DEF TextKnown
<1> DEFINE o == objects[q][i]
<1>1. objects'[q][i] = o /\ i \in DOMAIN objects[q] /\ Mine(q, i) /\ First(q, i)
  BY DEF Mine, First
<1>2. IsFork(q, o)
  BY <1>1 DEF IsFork, Withers, Processes
<1>3. o.fork \in Processes
  BY <1>2 DEF IsFork, Processes
<1>4. IsStream(Received(o), o.fork, sent[o.fork], Half(o.fork))
  BY <1>1, <1>2 DEF TextKnown
<1>5. /\ results'[o.fork] = results[o.fork] /\ sent'[o.fork] = sent[o.fork]
      /\ (call'[o.fork].op = "send-rest") = Half(o.fork)
  <2> HIDE DEF o
  <2> QED
    BY <1>3 DEF Half
<1> HIDE DEF o
<1>6. /\ objects'[q][i].fork = o.fork /\ Received(objects[q][i])' = Received(o)
  BY <1>1, <1>5 DEF Received
<1>7. Half(objects[q][i].fork)' = Half(o.fork)
  BY <1>5, <1>6 DEF Half
<1> QED
  BY <1>4, <1>5, <1>6, <1>7 DEF IsStream

LEMMA LocalStep ==
  ASSUME Inv, NEW p \in Processes, state[p] # "none",
         NEW c \in CallRecords, call' = [call EXCEPT ![p] = c],
         c.op = "send-rest" <=> call[p].op = "send-rest",
         NEW list \in Seq(Objects), objects' = [objects EXCEPT ![p] = list],
         state' \in [Processes -> States], \A q \in Processes : Withers(q),
         UNCHANGED <<pidOf, parent, results, sent, emitted, waits>>,
         ListKnown(p)', CallKnown(p)', TextKnown(p)', RunnerKnown', NoChildIsLeft'
  PROVE  Inv'
<1>1. Typed
  BY DEF Inv
<1>2. /\ call'[p] = c /\ objects'[p] = list
      /\ \A q \in Processes \ {p} : call'[q] = call[q] /\ objects'[q] = objects[q]
  BY <1>1 DEF Typed
<1>3. Typed'
  BY <1>1 DEF Typed
<1>4. \A q \in Processes : Half(q)' = Half(q)
  BY <1>2 DEF Half
<1>5. ASSUME NEW q \in Processes
      PROVE  ProcessKnown(q)'
  <2>1. ProcessKnown(q) /\ ListKnown(q) /\ CallKnown(q) /\ TextKnown(q) /\ Waited(q)
    BY Known
  <2>2. Waited(q)'
    BY <2>1 DEF Waited, Withers
  <2>3. ListKnown(q)'
    BY <1>2, <2>1, ListStays
  <2>4. TextKnown(q)'
    BY <1>1, <1>2, <1>4, <2>1, TextStays
  <2>5. CallKnown(q)'
    BY <1>2, <2>1 DEF CallKnown, Mine
  <2>6. /\ state'[q] = "none" => /\ call'[q] = NoCall /\ objects'[q] = <<>>
                                 /\ results'[q] = <<>> /\ sent'[q] = 0
        /\ q \in Forks /\ state'[q] # "none" => pidOf'[q] \in Pids
    BY <1>2, <2>1 DEF ProcessKnown, Withers
  <2> QED
    BY <2>2, <2>3, <2>4, <2>5, <2>6 DEF ProcessKnown
<1> QED
  BY <1>3, <1>5 DEF Inv

\* The list does not change, and the runner goes on or is at its end.
LEMMA QuietStep ==
  ASSUME Inv, state[Runner] = "body", state'[Runner] # "done",
         NEW p \in Processes, state[p] # "none",
         NEW c \in CallRecords, call' = [call EXCEPT ![p] = c],
         c.op = "send-rest" <=> call[p].op = "send-rest",
         state' \in [Processes -> States], \A q \in Processes : Withers(q),
         UNCHANGED <<objects, pidOf, parent, results, sent, emitted, waits>>,
         CallKnown(p)'
  PROVE  Inv'
<1>1. Typed /\ ListKnown(p) /\ TextKnown(p) /\ RunnerKnown
  BY Known DEF Inv
<1>2. objects[p] \in Seq(Objects) /\ objects' = [objects EXCEPT ![p] = objects[p]]
  BY <1>1 DEF Typed
<1>3. call'[p] = c /\ \A q \in Processes \ {p} : call'[q] = call[q]
  BY <1>1 DEF Typed
<1>4. \A q \in Processes : Half(q)' = Half(q)
  BY <1>3 DEF Half
<1>5. ListKnown(p)'
  BY <1>1, ListStays
<1>6. TextKnown(p)'
  BY <1>1, <1>4, TextStays
<1>7. RunnerKnown'
  <2>1. state'[Runner] # "none"
    BY DEF Withers, Processes
  <2>2. \A k \in Forks : Alive(k)' => Alive(k)
    BY DEF Withers, Processes
  <2> QED
    BY <1>1, <2>1, <2>2 DEF RunnerKnown
<1>8. NoChildIsLeft'
  BY DEF NoChildIsLeft
<1> QED
  BY <1>2, <1>5, <1>6, <1>7, <1>8, LocalStep

\* Processes that are killed.
LEMMA EndedWithers ==
  ASSUME Typed, NEW S, state' = Ended(S)
  PROVE  /\ state' \in [Processes -> States] /\ \A q \in Processes : Withers(q)
         /\ \A q \in Processes : state'[q] \in {state[q], "zombie"}
<1>1. \A q \in Processes : state'[q] = IF q \in S /\ Alive(q) THEN "zombie" ELSE state[q]
  BY DEF Ended
<1>2. state' \in [Processes -> States]
  BY DEF Ended, States, Typed
<1> QED
  BY <1>1, <1>2 DEF Withers, Alive

-----------------------------------------------------------------------------
\* The end of a test: its context is disposed of.
LEMMA DisposeStep ==
  ASSUME Inv, state[Runner] = "body", NEW p \in Processes, state[p] = "body",
         call[p].op \in {"none", "failed"}, Dispose(p)
  PROVE  Inv'
<1> DEFINE ended == Ended(Disposed(p))
           e == <<>>
<1>1. Typed /\ RunnerKnown /\ \A k \in Forks : state[k] # "none" => pidOf[k] \in Pids
  BY DEF Inv, ProcessKnown, Processes
<1>2. /\ state' = IF ended[p] = "zombie" THEN ended
                  ELSE [ended EXCEPT ![p] = IF p = Runner THEN "done" ELSE "runaway"]
      /\ objects' = [objects EXCEPT ![p] = e] /\ call' = [call EXCEPT ![p] = NoCall]
      /\ UNCHANGED <<pidOf, parent, results, sent, emitted, waits>>
  BY DEF Dispose, Returns, pipes, history
<1>3. \A q \in Processes : ended[q] = IF q \in Disposed(p) /\ Alive(q) THEN "zombie"
                                      ELSE state[q]
  BY DEF Ended
<1>4. ended \in [Processes -> States]
  BY <1>1 DEF Ended, States, Typed
<1> HIDE DEF ended
<1>5. \A q \in Processes : state'[q] = IF q # p \/ ended[p] = "zombie" THEN ended[q]
                                       ELSE IF p = Runner THEN "done" ELSE "runaway"
  BY <1>2, <1>4
<1>6. state' \in [Processes -> States]
  BY <1>2, <1>4 DEF States
<1>7. \A q \in Processes : Withers(q)
  BY <1>3, <1>5 DEF Withers, Alive
<1>8. NoCall \in CallRecords /\ NoCall.op = "none"
  BY Constants
<1>9. e \in Seq(Objects) /\ DOMAIN e = {}
  OBVIOUS
<1> HIDE DEF e
<1>10. objects'[p] = e /\ call'[p] = NoCall
  BY <1>1, <1>2 DEF Typed
<1>11. ListKnown(p)' /\ TextKnown(p)' /\ CallKnown(p)'
  BY <1>8, <1>9, <1>10 DEF ListKnown, TextKnown, CallKnown
<1>12. RunnerKnown'
  <2>1. CASE p = Runner
    <3>1. ended[Runner] # "zombie"
      BY <1>3, <2>1, Constants DEF Disposed, Killed
    <3> QED
      BY <1>5, <2>1, <3>1 DEF RunnerKnown, Processes
  <2>2. CASE p # Runner
    <3>1. objects'[Runner] = objects[Runner] /\ state'[Runner] # "none"
      BY <1>1, <1>2, <1>7, <2>2 DEF Typed, Withers, Processes
    <3>2. \A k \in Forks : Alive(k)' => Alive(k)
      BY <1>7 DEF Withers, Processes
    <3> QED
      BY <1>1, <1>2, <3>1, <3>2 DEF RunnerKnown
  <2> QED
    BY <2>1, <2>2
<1>13. NoChildIsLeft'
  <2>1. CASE p = Runner
    <3> SUFFICES ASSUME NEW k \in Forks, parent'[k] = Runner
                 PROVE  ~Alive(k)'
      BY DEF NoChildIsLeft
    <3>1. state'[k] = ended[k]
      BY <1>5, <2>1 DEF Forks, Processes, Runner
    <3>2. CASE Alive(k)
      <4>1. PICK i \in DOMAIN objects[Runner] : objects[Runner][i].pid = pidOf[k]
        BY <1>1, <1>2, <3>2 DEF RunnerKnown
      <4>2. pidOf[k] # 0 /\ pidOf[k] # -1
        <5>1. pidOf[k] \in Pids
          BY <1>1, <3>2 DEF Alive
        <5> QED
          BY <5>1, Constants
      <4>3. objects[p][i] \in Range(objects[p]) /\ objects[p][i].pid # 0
        BY <2>1, <4>1, <4>2 DEF Range
      <4>4. k \in Killed(p, objects[p][i].pid)
        BY <2>1, <3>2, <4>1, <4>2 DEF Killed, Unreaped
      <4>5. k \in Disposed(p)
        BY <4>3, <4>4 DEF Disposed
      <4>6. ended[k] = "zombie"
        BY <1>3, <3>2, <4>5 DEF Processes
      <4> QED
        BY <3>1, <4>6 DEF Alive
    <3>3. CASE ~Alive(k)
      BY <1>7, <3>3 DEF Withers, Processes
    <3> QED
      BY <3>2, <3>3
  <2>2. CASE p # Runner
    <3>1. state'[Runner] = ended[Runner] /\ ended[Runner] # "done"
      BY <1>3, <1>5, <2>2 DEF Processes
    <3> QED
      BY <3>1 DEF NoChildIsLeft
  <2> QED
    BY <2>1, <2>2
<1> QED
  BY <1>2, <1>6, <1>7, <1>8, <1>9, <1>11, <1>12, <1>13, LocalStep

\* A result is emitted, or sent, or the runner takes itself for a child.
LEMMA ReportStep ==
  ASSUME Inv, state[Runner] = "body", NEW p \in Processes, state[p] = "body",
         call[p].op \in {"none", "failed"}, NEW last \in BOOLEAN, Report(p, last)
  PROVE  Inv'
<1> DEFINE own == ProcessFromPid(objects[p], 0)
           o == objects[p][own]
<1>1. Typed /\ ListKnown(p) /\ objects[p] \in Seq(Objects)
  BY Known DEF Inv, Typed
<1>2. \/ own = 0 /\ last /\ Dispose(p)
      \/ /\ own # 0 /\ o.io = "child"
         /\ call' = [call EXCEPT ![p] = Call("send", o.fork, "result", last)]
         /\ UNCHANGED <<state, objects, pidOf, parent, pipes, history>>
      \/ /\ own # 0 /\ o.io = "none"
         /\ \E st \in {"exited", "stuck"} :
              state' = [state EXCEPT ![p] =
                          IF st = "exited" /\ p # Runner THEN "zombie" ELSE st]
         /\ Returns(p)
         /\ UNCHANGED <<objects, pidOf, parent, pipes, budget, history>>
  BY DEF Report
<1>3. own # 0 => own \in DOMAIN objects[p] /\ Mine(p, own) /\ o.pid = 0
  <2> DEFINE list == objects[p]
  <2>1. list \in Seq(Objects) /\ own = ProcessFromPid(list, 0)
    BY <1>1
  <2>2. own # 0 => /\ own \in DOMAIN list /\ list[own].pid = 0
                   /\ \A i \in 1 .. own - 1 : i \in DOMAIN list /\ list[i].pid # 0
    <3> HIDE DEF list, own
    <3> QED
      BY <2>1, FirstOfPid
  <2> HIDE DEF own
  <2> QED
    BY <2>2 DEF Mine
<1> HIDE DEF own
<1>4. own # 0 => IsBroken(p, o) \/ IsSelf(p, o)
  <2>1. own # 0 => \/ IsFork(p, o) \/ IsFailed(p, o) \/ IsBroken(p, o) \/ IsSelf(p, o)
    BY <1>1, <1>3 DEF ListKnown
  <2>2. ~IsFailed(p, o) \/ own = 0
    BY <1>3 DEF IsFailed
  <2>3. ~IsFork(p, o) \/ own = 0
    <3>1. \A k \in Forks : state[k] # "none" => pidOf[k] \in Pids
      BY DEF Inv, ProcessKnown, Processes
    <3> QED
      BY <1>3, <3>1, PidsAssumption DEF IsFork
  <2> QED
    BY <2>1, <2>2, <2>3
<1>5. CASE own = 0 /\ Dispose(p)
  BY <1>5, DisposeStep
<1>6. CASE own # 0 /\ o.io = "child"
           /\ call' = [call EXCEPT ![p] = Call("send", o.fork, "result", last)]
           /\ UNCHANGED <<state, objects, pidOf, parent, pipes, history>>
  <2> DEFINE c == Call("send", o.fork, "result", last)
  <2>1. o.fork = p /\ p \in Forks
    BY <1>4, <1>6 DEF IsSelf, IsBroken
  <2>2. c \in CallRecords /\ c.op = "send" /\ c.fork = p
    BY <2>1 DEF Call, CallRecords
  <2> HIDE DEF c
  <2>3. /\ call' = [call EXCEPT ![p] = c] /\ state' = state
        /\ UNCHANGED <<objects, pidOf, parent, results, sent, emitted, waits>>
    BY <1>6 DEF c, pipes, history
  <2>4. call'[p] = c /\ state' \in [Processes -> States] /\ \A q \in Processes : Withers(q)
    BY <1>1, <2>3 DEF Typed, Withers, Alive
  <2>5. CallKnown(p)'
    BY <2>1, <2>2, <2>4 DEF CallKnown
  <2>6. c.op = "send-rest" <=> call[p].op = "send-rest"
    BY <2>2
  <2> QED
    BY <2>2, <2>3, <2>4, <2>5, <2>6, QuietStep
<1>7. CASE /\ \E st \in {"exited", "stuck"} :
                state' = [state EXCEPT ![p] =
                            IF st = "exited" /\ p # Runner THEN "zombie" ELSE st]
           /\ Returns(p)
           /\ UNCHANGED <<objects, pidOf, parent, pipes, budget, history>>
  <2>1. PICK st \in {"exited", "stuck", "zombie"} : state' = [state EXCEPT ![p] = st]
    BY <1>7
  <2>2. NoCall \in CallRecords /\ NoCall.op = "none"
    BY Constants
  <2>3. /\ call' = [call EXCEPT ![p] = NoCall]
        /\ UNCHANGED <<objects, pidOf, parent, results, sent, emitted, waits>>
    BY <1>7 DEF Returns, pipes, history
  <2>4. call'[p] = NoCall /\ CallKnown(p)'
    BY <1>1, <2>2, <2>3 DEF Typed, CallKnown
  <2>5. state' \in [Processes -> States] /\ state'[p] = st
        /\ \A q \in Processes \ {p} : state'[q] = state[q]
    BY <1>1, <2>1 DEF Typed, States
  <2>6. \A q \in Processes : Withers(q)
    BY <2>5 DEF Withers, Alive
  <2>7. state'[Runner] # "done"
    BY <2>5 DEF Processes
  <2> QED
    BY <2>2, <2>3, <2>4, <2>5, <2>6, <2>7, QuietStep
<1> QED
  BY <1>2, <1>5, <1>6, <1>7

-----------------------------------------------------------------------------
\* Steps of a process that has its list to itself.

\* An object is added at the front.
LEMMA Pushed ==
  ASSUME NEW list \in Seq(Objects), NEW o \in Objects
  PROVE  /\ Added(o, list) \in Seq(Objects)
         /\ DOMAIN Added(o, list) = 1 .. Len(list) + 1 /\ Added(o, list)[1] = o
         /\ \A i \in DOMAIN list : /\ i + 1 \in DOMAIN Added(o, list)
                                   /\ Added(o, list)[i + 1] = list[i]
         /\ \A i \in DOMAIN Added(o, list) :
              i # 1 => i - 1 \in DOMAIN list /\ Added(o, list)[i] = list[i - 1]
<1> DEFINE one == <<o>>
<1>1. one \in Seq(Objects) /\ Len(one) = 1 /\ one[1] = o
  OBVIOUS
<1>2. Added(o, list) = one \o list
  BY DEF Added
<1> HIDE DEF one
<1>3. /\ one \o list \in Seq(Objects) /\ Len(one \o list) = 1 + Len(list)
      /\ \A i \in 1 .. 1 + Len(list) :
           (one \o list)[i] = IF i <= 1 THEN one[i] ELSE list[i - 1]
  <2>1. one \o list \in Seq(Objects) /\ Len(one \o list) = Len(one) + Len(list)
    BY <1>1, ConcatProperties
  <2>2. \A i \in 1 .. Len(one) + Len(list) :
          (one \o list)[i] = IF i <= Len(one) THEN one[i] ELSE list[i - Len(one)]
    BY <1>1, ConcatProperties
  <2> QED
    BY <1>1, <2>1, <2>2
<1>4. Len(list) \in Nat /\ DOMAIN list = 1 .. Len(list)
  OBVIOUS
<1>5. DOMAIN (one \o list) = 1 .. Len(list) + 1
  BY <1>3, <1>4
<1> DEFINE u == one \o list
<1> HIDE DEF u
<1>6. /\ u \in Seq(Objects) /\ DOMAIN u = 1 .. Len(list) + 1
      /\ \A i \in 1 .. 1 + Len(list) : u[i] = IF i <= 1 THEN one[i] ELSE list[i - 1]
  BY <1>3, <1>5 DEF u
<1>7. u[1] = o
  BY <1>1, <1>4, <1>6
<1>8. ASSUME NEW i \in DOMAIN list PROVE i + 1 \in DOMAIN u /\ u[i + 1] = list[i]
  <2>1. i + 1 \in 1 .. 1 + Len(list) /\ ~(i + 1 <= 1) /\ (i + 1) - 1 = i
    BY <1>4
  <2> QED
    BY <1>4, <1>6, <2>1
<1>9. ASSUME NEW i \in DOMAIN u, i # 1 PROVE i - 1 \in DOMAIN list /\ u[i] = list[i - 1]
  BY <1>4, <1>6, <1>9
<1> QED
  BY <1>2, <1>6, <1>7, <1>8, <1>9 DEF u

LEMMA PushedKnown ==
  ASSUME Typed, NEW p \in Processes, NEW o \in Objects,
         objects'[p] = Added(o, objects[p]), NEW i \in DOMAIN objects'[p], i # 1
  PROVE  /\ i - 1 \in DOMAIN objects[p] /\ objects'[p][i] = objects[p][i - 1]
         /\ Mine(p, i)' => Mine(p, i - 1) /\ o.pid # 0
         /\ First(p, i)' => First(p, i - 1)
<1> DEFINE list == objects[p]
           u == Added(o, list)
<1>1. list \in Seq(Objects) /\ objects'[p] = u
  BY DEF Typed
<1>2. /\ DOMAIN u = 1 .. Len(list) + 1 /\ u[1] = o
      /\ \A j \in DOMAIN list : j + 1 \in DOMAIN u /\ u[j + 1] = list[j]
      /\ \A j \in DOMAIN u : j # 1 => j - 1 \in DOMAIN list /\ u[j] = list[j - 1]
  BY <1>1, Pushed
<1> HIDE DEF u
<1>3. DOMAIN list = 1 .. Len(list) /\ Len(list) \in Nat
  BY <1>1
<1>4. i \in Nat /\ i - 1 \in DOMAIN list /\ objects'[p][i] = list[i - 1]
  BY <1>1, <1>2
<1>5. 1 \in 1 .. i - 1 /\ \A j \in 1 .. (i - 1) - 1 : j \in DOMAIN list /\ j + 1 \in 1 .. i - 1
  BY <1>3, <1>4
<1>6. Mine(p, i)' => Mine(p, i - 1) /\ o.pid # 0
  <2> SUFFICES ASSUME \A j \in 1 .. i - 1 : u[j].pid # 0
               PROVE  Mine(p, i - 1) /\ o.pid # 0
    BY <1>1 DEF Mine
  <2>1. \A j \in 1 .. (i - 1) - 1 : list[j].pid # 0
    BY <1>2, <1>5
  <2> QED
    BY <1>2, <1>4, <1>5, <2>1 DEF Mine
<1>7. First(p, i)' => First(p, i - 1)
  <2> SUFFICES ASSUME \A j \in 1 .. i - 1 : u[j].fork # u[i].fork
               PROVE  First(p, i - 1)
    BY <1>1 DEF First
  <2>1. \A j \in 1 .. (i - 1) - 1 : list[j].fork # list[i - 1].fork
    BY <1>1, <1>2, <1>4, <1>5
  <2> QED
    BY <2>1 DEF First
<1> QED
  BY <1>4, <1>6, <1>7

LEMMA ForkFailsStep ==
  ASSUME Inv, state[Runner] = "body", NEW p \in Processes, ForkFails(p)
  PROVE  Inv'
<1> DEFINE c == Call("failed", 0, "none", TRUE)
<1>1. Typed /\ RunnerKnown /\ ListKnown(p) /\ TextKnown(p)
  BY Known DEF Inv
<1>2. PICK o \in {Object(0, -1, "parent"), Object(0, 0, "none")} :
        objects' = [objects EXCEPT ![p] = Added(o, objects[p])]
  BY DEF ForkFails
<1>3. /\ state[p] = "body" /\ call[p].op = "none" /\ call' = [call EXCEPT ![p] = c]
      /\ UNCHANGED <<state, pidOf, parent, results, sent, emitted, waits>>
  BY DEF ForkFails, Free, pipes, history
<1>4. /\ o \in Objects /\ o.fork = Runner
      /\ IsFailed(p, o) \/ IsBroken(p, o)
  <2>1. o = Object(0, -1, "parent") \/ o = Object(0, 0, "none")
    OBVIOUS
  <2> DEFINE e == <<>>
  <2>2. o = [fork |-> 0, pid |-> -1, io |-> "parent", text |-> e]
        \/ o = [fork |-> 0, pid |-> 0, io |-> "none", text |-> e]
    BY <2>1 DEF Object
  <2>3. e \in Seq(Parts)
    OBVIOUS
  <2> HIDE DEF e
  <2> QED
    BY <2>2, <2>3 DEF Objects, Runner, Processes, IsFailed, IsBroken
<1>5. c \in CallRecords /\ c.op = "failed"
  BY DEF Call, CallRecords, Processes, Runner
<1> HIDE DEF c
<1> DEFINE list == Added(o, objects[p])
<1>6. /\ objects[p] \in Seq(Objects) /\ objects'[p] = list /\ call'[p] = c
      /\ \A q \in Processes \ {p} : objects'[q] = objects[q]
  BY <1>1, <1>2, <1>3 DEF Typed
<1>7. /\ list \in Seq(Objects) /\ list[1] = o
      /\ \A i \in DOMAIN objects[p] : i + 1 \in DOMAIN list /\ list[i + 1] = objects[p][i]
  BY <1>4, <1>6, Pushed
<1> HIDE DEF list
<1>8. \A i \in DOMAIN objects'[p] : i # 1 =>
        /\ i - 1 \in DOMAIN objects[p] /\ objects'[p][i] = objects[p][i - 1]
        /\ Mine(p, i)' => Mine(p, i - 1)
        /\ First(p, i)' => First(p, i - 1)
  BY <1>1, <1>4, <1>6, PushedKnown DEF list
<1>9. ListKnown(p)'
  <2> SUFFICES ASSUME NEW i \in DOMAIN objects'[p], Mine(p, i)'
      PROVE  \/ IsFork(p, objects[p][i])' \/ IsFailed(p, objects[p][i])'
             \/ IsBroken(p, objects[p][i])' \/ IsSelf(p, objects[p][i])'
    BY DEF ListKnown
  <2>1. CASE i = 1
    BY <1>4, <1>6, <1>7, <2>1 DEF IsFailed, IsBroken
  <2>2. CASE i # 1
    <3>1. Mine(p, i - 1) /\ i - 1 \in DOMAIN objects[p] /\ objects'[p][i] = objects[p][i - 1]
      BY <1>8, <2>2
    <3>2. \/ IsFork(p, objects[p][i - 1]) \/ IsFailed(p, objects[p][i - 1])
          \/ IsBroken(p, objects[p][i - 1]) \/ IsSelf(p, objects[p][i - 1])
      BY <1>1, <3>1 DEF ListKnown
    <3> QED
      BY <1>3, <3>1, <3>2 DEF IsFork, IsFailed, IsBroken, IsSelf
  <2> QED
    BY <2>1, <2>2
<1>10. TextKnown(p)'
  <2> SUFFICES ASSUME NEW i \in DOMAIN objects'[p], Mine(p, i)', First(p, i)',
                      IsFork(p, objects[p][i])'
      PROVE  IsStream(Received(objects[p][i]), objects[p][i].fork,
                      sent[objects[p][i].fork], Half(objects[p][i].fork))'
    BY DEF TextKnown
  <2>1. i # 1
    BY <1>4, <1>6, <1>7, Constants DEF IsFork
  <2>2. /\ Mine(p, i - 1) /\ First(p, i - 1) /\ i - 1 \in DOMAIN objects[p]
        /\ objects'[p][i] = objects[p][i - 1]
    BY <1>8, <2>1
  <2> DEFINE b == objects[p][i - 1]
             f == b.fork
  <2>3. IsFork(p, b)
    BY <1>3, <2>2 DEF IsFork
  <2>4. IsStream(Received(b), f, sent[f], Half(f))
    BY <1>1, <2>2, <2>3 DEF TextKnown
  <2>5. f \in Processes
    BY <2>3, Constants DEF IsFork
  <2>6. (call'[f].op = "send-rest") = (call[f].op = "send-rest")
    BY <1>1, <1>3, <1>5, <2>5 DEF Typed
  <2>7. objects'[p][i].fork = f /\ Received(objects[p][i])' = Received(b)
    BY <1>3, <2>2 DEF Received
  <2> QED
    BY <1>3, <2>4, <2>6, <2>7 DEF IsStream, Half
<1>11. CallKnown(p)'
  BY <1>5, <1>6 DEF CallKnown
<1>12. state' \in [Processes -> States] /\ \A q \in Processes : Withers(q)
  BY <1>1, <1>3 DEF Typed, Withers, Alive
<1>13. RunnerKnown' /\ NoChildIsLeft'
  <2>1. NoChildIsLeft' /\ state'[Runner] = "body"
    BY <1>3 DEF NoChildIsLeft
  <2>2. ASSUME NEW k \in Forks, Alive(k)', parent'[k] = Runner
        PROVE  \E i \in DOMAIN objects'[Runner] : objects'[Runner][i].pid = pidOf'[k]
    <3>1. PICK i \in DOMAIN objects[Runner] : objects[Runner][i].pid = pidOf[k]
      BY <1>1, <1>3, <2>2 DEF RunnerKnown, Alive
    <3> QED
      BY <1>3, <1>6, <1>7, <3>1, Constants
  <2> QED
    BY <2>1, <2>2 DEF RunnerKnown
<1>14. /\ state[p] # "none" /\ (c.op = "send-rest" <=> call[p].op = "send-rest")
       /\ objects' = [objects EXCEPT ![p] = list]
  BY <1>2, <1>3, <1>5 DEF list
<1> QED
  BY <1>3, <1>5, <1>7, <1>9, <1>10, <1>11, <1>12, <1>13, <1>14, LocalStep

-----------------------------------------------------------------------------
\* The quiet steps.

LEMMA EndStep ==
  ASSUME Inv, state[Runner] = "body", NEW p \in Processes, state[p] # "none",
         state' = Ended({p}), UNCHANGED <<call, objects, pidOf, parent, pipes, history>>
  PROVE  Inv'
<1>1. Typed /\ CallKnown(p)
  BY Known DEF Inv
<1>2. /\ call[p] \in CallRecords /\ call' = [call EXCEPT ![p] = call[p]]
      /\ UNCHANGED <<objects, pidOf, parent, results, sent, emitted, waits>>
  BY <1>1 DEF Typed, pipes, history
<1>3. /\ state' \in [Processes -> States] /\ \A q \in Processes : Withers(q)
      /\ state'[Runner] \in {"body", "zombie"}
  BY <1>1, EndedWithers, Constants
<1>4. CallKnown(p)'
  BY <1>1 DEF CallKnown, Mine
<1>5. state'[Runner] # "done" /\ (call[p].op = "send-rest" <=> call[p].op = "send-rest")
  BY <1>3
<1> QED
  BY <1>2, <1>3, <1>4, <1>5, QuietStep

\* A process goes on with its call, and nothing else changes.
LEMMA CallStep ==
  ASSUME Inv, state[Runner] = "body", NEW p \in Processes, state[p] # "none",
         NEW c \in CallRecords, call' = [call EXCEPT ![p] = c],
         c.op # "send-rest", call[p].op # "send-rest",
         UNCHANGED <<state, objects, pidOf, parent, results, history>>,
         CallKnown(p)'
  PROVE  Inv'
<1>1. state' \in [Processes -> States] /\ \A q \in Processes : Withers(q)
  BY DEF Inv, Typed, Withers, Alive
<1>2. /\ state'[Runner] # "done" /\ (c.op = "send-rest" <=> call[p].op = "send-rest")
      /\ UNCHANGED <<objects, pidOf, parent, results, sent, emitted, waits>>
  BY DEF history
<1> QED
  BY <1>1, <1>2, QuietStep

LEMMA StartWriteStep ==
  ASSUME Inv, state[Runner] = "body", NEW p \in Processes, StartWrite(p)
  PROVE  Inv'
<1>1. PICK s \in Outputs : call' = [call EXCEPT ![p] = Call("write", p, s, FALSE)]
  BY DEF StartWrite
<1> DEFINE c == Call("write", p, s, FALSE)
<1>2. /\ state[p] = "body" /\ call[p].op = "none" /\ p # Runner
      /\ UNCHANGED <<state, objects, pidOf, parent, results, history>>
  BY DEF StartWrite, Free, pipes
<1>3. c \in CallRecords /\ c.op = "write" /\ c.fork = p
  BY DEF Call, CallRecords
<1> HIDE DEF c
<1>4. call' = [call EXCEPT ![p] = c]
  BY <1>1 DEF c
<1>5. call'[p] = c
  BY <1>4 DEF Inv, Typed
<1>6. CallKnown(p)'
  BY <1>2, <1>3, <1>5 DEF CallKnown, Processes
<1> QED
  BY <1>2, <1>3, <1>4, <1>6, CallStep

\* A call returns.
LEMMA ReturnsStep ==
  ASSUME Inv, state[Runner] = "body", NEW p \in Processes, state[p] # "none",
         Returns(p), call[p].op # "send-rest",
         UNCHANGED <<state, objects, pidOf, parent, results, history>>
  PROVE  Inv'
<1>1. call' = [call EXCEPT ![p] = NoCall] /\ NoCall \in CallRecords /\ NoCall.op = "none"
  BY Constants DEF Returns
<1>2. call'[p] = NoCall
  BY <1>1 DEF Inv, Typed
<1>3. CallKnown(p)'
  BY <1>1, <1>2 DEF CallKnown
<1> QED
  BY <1>1, <1>3, CallStep

LEMMA WriteStep ==
  ASSUME Inv, state[Runner] = "body", NEW p \in Processes, Write(p)
  PROVE  Inv'
BY ReturnsStep DEF Write

LEMMA ReadStep ==
  ASSUME Inv, state[Runner] = "body", NEW p \in Processes, Read(p)
  PROVE  Inv'
<1>1. /\ state[p] = "body" /\ call[p].op = "read"
      /\ UNCHANGED <<state, objects, pidOf, parent, results, history>>
  BY DEF Read
<1>2. CASE Returns(p)
  BY <1>1, <1>2, ReturnsStep
<1>3. CASE UNCHANGED call
  <2>1. Typed /\ CallKnown(p)
    BY Known DEF Inv
  <2>2. call[p] \in CallRecords /\ call' = [call EXCEPT ![p] = call[p]]
    BY <1>3, <2>1 DEF Typed
  <2>3. CallKnown(p)'
    BY <1>1, <1>3, <2>1 DEF CallKnown, Mine
  <2>4. call[p].op # "send-rest" /\ state[p] # "none"
    BY <1>1
  <2> QED
    BY <1>1, <2>2, <2>3, <2>4, CallStep
<1> QED
  BY <1>2, <1>3 DEF Read

\* A call is for the first of the own forks with that number.
LEMMA StartCallStep ==
  ASSUME Inv, state[Runner] = "body", NEW p \in Processes, StartCall(p)
  PROVE  Inv'
<1>1. /\ state[p] = "body" /\ call[p].op = "none"
      /\ UNCHANGED <<state, objects, pidOf, parent, results, history>>
  BY DEF StartCall, Free, pipes
<1>2. PICK i \in OwnForks(p) :
        call' \in {[call EXCEPT ![p] = c] :
                    c \in {Call("reap", objects[p][ProcessFromPid(objects[p],
                                          objects[p][i].pid)].fork, "result", FALSE)}
                          \cup {Call("read", objects[p][ProcessFromPid(objects[p],
                                          objects[p][i].pid)].fork, s, FALSE) :
                                s \in Outputs}}
  BY DEF StartCall
<1> DEFINE list == objects[p]
           own == ProcessFromPid(list, 0)
           pos == ProcessFromPid(list, list[i].pid)
           k == list[pos].fork
<1>3. Typed /\ ListKnown(p) /\ list \in Seq(Objects)
  BY Known DEF Inv, Typed
<1>4. i \in DOMAIN list /\ list[i].pid > 0 /\ (own = 0 \/ i < own)
  BY DEF OwnForks
<1>5. /\ own = 0 => \A j \in DOMAIN list : list[j].pid # 0
      /\ own # 0 => /\ own \in DOMAIN list
                    /\ \A j \in 1 .. own - 1 : j \in DOMAIN list /\ list[j].pid # 0
  BY <1>3, FirstOfPid
<1>6. /\ pos \in DOMAIN list /\ list[pos].pid = list[i].pid
      /\ \A j \in 1 .. pos - 1 : j \in DOMAIN list /\ list[j].pid # list[i].pid
  <2> DEFINE pid == list[i].pid
  <2>1. \E j \in DOMAIN list : list[j].pid = pid
    BY <1>4
  <2> HIDE DEF pid, list
  <2>2. ProcessFromPid(list, pid) # 0
    BY <1>3, <2>1, FirstOfPid
  <2> QED
    BY <1>3, <2>2, FirstOfPid DEF pid
<1> HIDE DEF own, pos
<1>7. list[i].pid # 0 /\ list[i].pid # -1
  <2>1. list[i] \in Objects
    BY <1>3, <1>4
  <2>2. list[i].pid \in Pids \cup {0, -1}
    BY <2>1 DEF Objects
  <2> QED
    BY <1>4, <2>2, Constants
<1>8. DOMAIN list = 1 .. Len(list) /\ Len(list) \in Nat
  BY <1>3
<1>9. pos <= i
  BY <1>4, <1>6, <1>8
<1>10. Mine(p, pos)
  <2>1. \A j \in 1 .. pos - 1 : list[j].pid # 0
    <3> SUFFICES ASSUME NEW j \in 1 .. pos - 1 PROVE list[j].pid # 0
      OBVIOUS
    <3>1. j \in DOMAIN list /\ (own # 0 => own \in Nat /\ j \in 1 .. own - 1)
      BY <1>4, <1>5, <1>6, <1>8, <1>9
    <3> QED
      BY <1>5, <3>1
  <2> QED
    BY <1>6, <2>1 DEF Mine
<1>11. k \in Forks
  <2>1. \/ IsFork(p, list[pos]) \/ IsFailed(p, list[pos])
        \/ IsBroken(p, list[pos]) \/ IsSelf(p, list[pos])
    BY <1>3, <1>6, <1>10 DEF ListKnown
  <2> QED
    BY <1>6, <1>7, <2>1 DEF IsFork, IsFailed, IsBroken, IsSelf
<1>12. PICK c : call' = [call EXCEPT ![p] = c]
                /\ (c = Call("reap", k, "result", FALSE)
                    \/ \E s \in Outputs : c = Call("read", k, s, FALSE))
  BY <1>2 DEF pos
<1>13. c \in CallRecords /\ c.op \in {"reap", "read"} /\ c.fork = k
  <2>1. k \in Processes
    BY <1>11, Constants
  <2> HIDE DEF k
  <2>2. CASE c = Call("reap", k, "result", FALSE)
    BY <2>1, <2>2 DEF Call, CallRecords
  <2>3. ASSUME NEW s \in Outputs, c = Call("read", k, s, FALSE)
        PROVE  c \in CallRecords /\ c.op \in {"reap", "read"} /\ c.fork = k
    BY <2>1, <2>3 DEF Call, CallRecords
  <2> QED
    BY <1>12, <2>2, <2>3
<1>14. call'[p] = c
  BY <1>3, <1>12 DEF Typed
<1>15. \E j \in DOMAIN list : Mine(p, j) /\ list[j].pid # 0 /\ list[j].fork = k
  BY <1>6, <1>7, <1>10
<1>16. CallKnown(p)'
  <2>1. \E j \in DOMAIN objects'[p] : /\ Mine(p, j)' /\ objects'[p][j].pid # 0
                                      /\ objects'[p][j].fork = call'[p].fork
    BY <1>1, <1>13, <1>14, <1>15 DEF Mine
  <2> QED
    BY <1>11, <1>13, <1>14, <2>1 DEF CallKnown
<1>17. c.op # "send-rest" /\ call[p].op # "send-rest" /\ state[p] # "none"
  BY <1>1, <1>13
<1> QED
  BY <1>1, <1>12, <1>13, <1>16, <1>17, CallStep

\* Zombies are waited for.
LEMMA ReapStep ==
  ASSUME Inv, state[Runner] = "body", NEW p \in Processes, Reap(p)
  PROVE  Inv'
<1> DEFINE children == {q \in Forks : /\ parent[q] = p /\ Unreaped(q)
                                      /\ pidOf[q] = objects[p][Current(p)].pid}
           c == [call[p] EXCEPT !.op = "collect"]
<1>1. Typed /\ CallKnown(p)
  BY Known DEF Inv
<1>2. /\ state[p] = "body" /\ call[p].op = "reap"
      /\ \A q \in children : state[q] = "zombie"
      /\ state' = [q \in Processes |-> IF q \in children THEN "reaped" ELSE state[q]]
      /\ call' = [call EXCEPT ![p].op = "collect"]
      /\ UNCHANGED <<objects, pidOf, parent, pipes, budget, history>>
  BY DEF Reap
<1>3. Runner \notin children
  BY Constants
<1> HIDE DEF children
<1>4. /\ state' \in [Processes -> States] /\ \A q \in Processes : Withers(q)
      /\ state'[Runner] = "body"
  BY <1>1, <1>2, <1>3, Constants DEF Typed, States, Withers, Alive
<1>5. c \in CallRecords /\ c.op = "collect" /\ c.fork = call[p].fork
  <2>1. call[p] \in CallRecords
    BY <1>1 DEF Typed
  <2> QED
    BY <2>1 DEF CallRecords
<1>6. call' = [call EXCEPT ![p] = c]
  BY <1>1, <1>2 DEF Typed
<1> HIDE DEF c
<1>7. call'[p] = c
  BY <1>1, <1>6 DEF Typed
<1>8. CallKnown(p)'
  BY <1>1, <1>2, <1>5, <1>7 DEF CallKnown, Mine
<1>9. /\ UNCHANGED <<objects, pidOf, parent, results, sent, emitted, waits>>
      /\ c.op = "send-rest" <=> call[p].op = "send-rest"
      /\ state'[Runner] # "done" /\ state[p] # "none"
  BY <1>2, <1>4, <1>5 DEF pipes, history
<1> QED
  BY <1>4, <1>5, <1>6, <1>8, <1>9, QuietStep

-----------------------------------------------------------------------------
\* A fork: the child has the list of its parent, below its own object.
LEMMA ForkStep ==
  ASSUME Inv, state[Runner] = "body", NEW p \in Processes, Fork(p)
  PROVE  Inv'
<1>1. Typed /\ RunnerKnown /\ \A q \in Processes : ProcessKnown(q)
  BY DEF Inv
<1>2. PICK k \in NextFork, pid \in FreePids :
        /\ state' = [state EXCEPT ![k] = "body"]
        /\ objects' = [objects EXCEPT
             ![p] = Added(Object(k, pid, "parent"), objects[p]),
             ![k] = Added(Object(k, 0, "child"), objects[p])]
        /\ pidOf' = [pidOf EXCEPT ![k] = pid]
        /\ parent' = [parent EXCEPT ![k] = p]
  BY DEF Fork
<1> DEFINE mine == Object(k, pid, "parent")
           self == Object(k, 0, "child")
           list == objects[p]
<1>3. /\ k \in Forks /\ k \in Processes /\ k # Runner /\ state[k] = "none" /\ pid \in Pids
      /\ state[p] = "body" /\ p # k /\ pid # 0 /\ pid # -1
      /\ UNCHANGED <<call, results, sent, emitted, waits>>
  BY Constants DEF NextFork, FreePids, Fork, Free, pipes, history
<1>4. /\ mine \in Objects /\ mine.fork = k /\ mine.pid = pid /\ mine.io = "parent"
      /\ self \in Objects /\ self.fork = k /\ self.pid = 0 /\ self.io = "child"
      /\ mine.text = <<>>
  <2> DEFINE e == <<>>
  <2>1. mine = [fork |-> k, pid |-> pid, io |-> "parent", text |-> e]
        /\ self = [fork |-> k, pid |-> 0, io |-> "child", text |-> e]
    BY DEF Object
  <2>2. e \in Seq(Parts)
    OBVIOUS
  <2>3. mine.text = e
    BY <2>1
  <2> HIDE DEF mine, self
  <2>4. mine.text = <<>>
    BY <2>3
  <2> HIDE DEF e
  <2> QED
    BY <1>3, <2>1, <2>2, <2>4 DEF Objects
<1> HIDE DEF mine, self
<1>5. /\ list \in Seq(Objects) /\ objects'[p] = Added(mine, list)
      /\ objects'[k] = Added(self, list)
      /\ \A q \in Processes \ {p, k} : objects'[q] = objects[q]
      /\ \A q \in Processes \ {k} : state'[q] = state[q] /\ parent'[q] = parent[q]
                                    /\ pidOf'[q] = pidOf[q]
      /\ state'[k] = "body" /\ parent'[k] = p /\ pidOf'[k] = pid
  BY <1>1, <1>2, <1>3 DEF Typed, mine, self
<1>6. /\ objects'[p] \in Seq(Objects) /\ objects'[p][1] = mine
      /\ \A i \in DOMAIN list : i + 1 \in DOMAIN objects'[p]
                                /\ objects'[p][i + 1] = list[i]
      /\ \A i \in DOMAIN objects'[p] :
           i # 1 => i - 1 \in DOMAIN list /\ objects'[p][i] = list[i - 1]
      /\ DOMAIN objects'[p] = 1 .. Len(list) + 1
  <2> DEFINE u == Added(mine, list)
  <2>1. list \in Seq(Objects) /\ mine \in Objects /\ objects'[p] = u
    BY <1>4, <1>5
  <2> HIDE DEF list
  <2>2. /\ u \in Seq(Objects) /\ u[1] = mine /\ DOMAIN u = 1 .. Len(list) + 1
        /\ \A i \in DOMAIN list : i + 1 \in DOMAIN u /\ u[i + 1] = list[i]
        /\ \A i \in DOMAIN u : i # 1 => i - 1 \in DOMAIN list /\ u[i] = list[i - 1]
    BY <2>1, Pushed
  <2> HIDE DEF u
  <2> QED
    BY <2>1, <2>2
<1>7. /\ objects'[k] \in Seq(Objects) /\ objects'[k][1] = self
      /\ DOMAIN objects'[k] = 1 .. Len(list) + 1
  <2> HIDE DEF list
  <2> QED
    BY <1>4, <1>5, Pushed
<1>8. Typed'
  <2>1. state' \in [Processes -> States] /\ pidOf' \in [Processes -> Pids \cup {0}]
        /\ parent' \in [Processes -> Processes]
    BY <1>1, <1>2, <1>3 DEF Typed, States
  <2>2. objects' \in [Processes -> Seq(Objects)]
    <3> DEFINE a == Added(mine, list)
               b == Added(self, list)
    <3>1. a \in Seq(Objects) /\ b \in Seq(Objects)
      BY <1>5, <1>6, <1>7
    <3>2. objects' = [objects EXCEPT ![p] = a, ![k] = b]
      BY <1>2 DEF mine, self
    <3> HIDE DEF a, b
    <3> QED
      BY <1>1, <3>1, <3>2 DEF Typed
  <2> QED
    BY <1>1, <1>3, <2>1, <2>2 DEF Typed
\* What was known of the other objects.
<1>9. ASSUME NEW q \in Processes, NEW o, IsFork(q, o)
      PROVE  o.fork # k /\ o.fork \in Processes /\ IsFork(q, o)'
  BY <1>3, <1>5, <1>9, Constants DEF IsFork
<1>10. ASSUME NEW q \in Processes, NEW i \in DOMAIN objects[q], Mine(q, i)
       PROVE  \/ IsFork(q, objects[q][i]) \/ IsFailed(q, objects[q][i])
              \/ IsBroken(q, objects[q][i]) \/ IsSelf(q, objects[q][i])
  BY <1>1, <1>10 DEF ProcessKnown, ListKnown
<1>11. ASSUME NEW q \in Processes, NEW i \in DOMAIN objects[q], Mine(q, i), First(q, i),
              NEW o, o = objects[q][i], IsFork(q, o)'
       PROVE  /\ o.fork \in Processes \ {k}
              /\ IsStream(Received(o), o.fork, sent[o.fork], Half(o.fork))
  <2>1. IsFork(q, o)
    BY <1>10, <1>11, Constants DEF IsFork, IsFailed, IsBroken, IsSelf
  <2> QED
    BY <1>1, <1>9, <1>11, <2>1 DEF ProcessKnown, TextKnown
\* The parent,
<1>12. ListKnown(p)'
  <2> SUFFICES ASSUME NEW i \in DOMAIN objects'[p], Mine(p, i)'
      PROVE  \/ IsFork(p, objects[p][i])' \/ IsFailed(p, objects[p][i])'
             \/ IsBroken(p, objects[p][i])' \/ IsSelf(p, objects[p][i])'
    BY DEF ListKnown
  <2>1. CASE i = 1
    BY <1>3, <1>4, <1>5, <1>6, <2>1 DEF IsFork
  <2>2. CASE i # 1
    <3>1. /\ i - 1 \in DOMAIN objects[p] /\ objects'[p][i] = objects[p][i - 1]
          /\ Mine(p, i - 1)
      BY <1>1, <1>4, <1>5, <2>2, PushedKnown
    <3> QED
      BY <1>9, <1>10, <3>1 DEF IsFork, IsFailed, IsBroken, IsSelf
  <2> QED
    BY <2>1, <2>2
<1>13. TextKnown(p)'
  <2> SUFFICES ASSUME NEW i \in DOMAIN objects'[p], Mine(p, i)', First(p, i)',
                      IsFork(p, objects[p][i])'
      PROVE  IsStream(Received(objects[p][i]), objects[p][i].fork,
                      sent[objects[p][i].fork], Half(objects[p][i].fork))'
    BY DEF TextKnown
  <2>1. CASE i = 1
    <3>1. /\ results[k] = <<>> /\ sent[k] = 0 /\ call[k] = NoCall
      BY <1>1, <1>3 DEF ProcessKnown
    <3>2. objects'[p][i] = mine
      BY <1>6, <2>1
    <3>3. Received(objects[p][i])' = <<>> \o <<>>
      BY <1>3, <1>4, <3>1, <3>2 DEF Received
    <3>4. <<>> \o <<>> = <<>>
      OBVIOUS
    <3>5. Half(objects[p][i].fork)' = FALSE /\ sent'[objects'[p][i].fork] = 0
      BY <1>3, <1>4, <3>1, <3>2 DEF Half, NoCall
    <3> QED
      BY <3>3, <3>4, <3>5 DEF IsStream
  <2>2. CASE i # 1
    <3> DEFINE o == objects[p][i - 1]
    <3>1. /\ i - 1 \in DOMAIN objects[p] /\ objects'[p][i] = o
          /\ Mine(p, i - 1) /\ First(p, i - 1)
      BY <1>1, <1>4, <1>5, <2>2, PushedKnown
    <3>2. IsFork(p, objects[p][i])' <=> /\ o.io = "parent" /\ o.fork \in Forks
                                        /\ state'[o.fork] # "none"
                                        /\ parent'[o.fork] = p /\ o.pid = pidOf'[o.fork]
      BY <3>1 DEF IsFork
    <3>3. /\ o.fork \in Processes \ {k}
          /\ IsStream(Received(o), o.fork, sent[o.fork], Half(o.fork))
      BY <1>11, <3>1, <3>2 DEF IsFork
    <3>4. Received(objects[p][i])' = Received(o) /\ objects'[p][i].fork = o.fork
      BY <1>3, <3>1 DEF Received
    <3> QED
      BY <1>3, <3>3, <3>4 DEF IsStream, Half
  <2> QED
    BY <2>1, <2>2
\* the child,
<1>14. ASSUME NEW i \in DOMAIN objects'[k], Mine(k, i)'
       PROVE  i = 1
  <2>1. i \in 1 .. Len(list) + 1 /\ Len(list) \in Nat
    BY <1>5, <1>7
  <2>2. i # 1 => 1 \in 1 .. i - 1
    BY <2>1
  <2> QED
    BY <1>4, <1>7, <1>14, <2>2 DEF Mine
<1>15. ListKnown(k)' /\ TextKnown(k)'
  <2>1. \A i \in DOMAIN objects'[k] : Mine(k, i)' => objects'[k][i] = self
    BY <1>7, <1>14
  <2> QED
    BY <1>3, <1>4, <2>1 DEF ListKnown, TextKnown, IsSelf, IsFork
\* and the others.
<1>16. ASSUME NEW q \in Processes \ {p, k}
       PROVE  ListKnown(q)' /\ TextKnown(q)'
  <2>1. objects'[q] = objects[q]
    BY <1>5
  <2>2. ListKnown(q)'
    <3> SUFFICES ASSUME NEW i \in DOMAIN objects[q], Mine(q, i)
        PROVE  \/ IsFork(q, objects[q][i])' \/ IsFailed(q, objects[q][i])'
               \/ IsBroken(q, objects[q][i])' \/ IsSelf(q, objects[q][i])'
      BY <2>1 DEF ListKnown, Mine
    <3> QED
      BY <1>9, <1>10, <2>1 DEF IsFork, IsFailed, IsBroken, IsSelf
  <2>3. TextKnown(q)'
    <3> SUFFICES ASSUME NEW i \in DOMAIN objects'[q], Mine(q, i)', First(q, i)',
                        IsFork(q, objects[q][i])'
        PROVE  IsStream(Received(objects[q][i]), objects[q][i].fork,
                        sent[objects[q][i].fork], Half(objects[q][i].fork))'
      BY DEF TextKnown
    <3> DEFINE o == objects[q][i]
    <3>1. /\ i \in DOMAIN objects[q] /\ objects'[q][i] = o /\ Mine(q, i) /\ First(q, i)
      BY <2>1 DEF Mine, First
    <3>2. IsFork(q, objects[q][i])' <=> /\ o.io = "parent" /\ o.fork \in Forks
                                        /\ state'[o.fork] # "none"
                                        /\ parent'[o.fork] = q /\ o.pid = pidOf'[o.fork]
      BY <3>1 DEF IsFork
    <3>3. /\ o.fork \in Processes \ {k}
          /\ IsStream(Received(o), o.fork, sent[o.fork], Half(o.fork))
      BY <1>11, <3>1, <3>2 DEF IsFork
    <3>4. Received(objects[q][i])' = Received(o) /\ objects'[q][i].fork = o.fork
      BY <1>3, <3>1 DEF Received
    <3> QED
      BY <1>3, <3>3, <3>4 DEF IsStream, Half
  <2> QED
    BY <2>2, <2>3
<1>17. ASSUME NEW q \in Processes
       PROVE  ProcessKnown(q)'
  <2>1. ProcessKnown(q)
    BY <1>1
  <2>2. ListKnown(q)' /\ TextKnown(q)'
    BY <1>12, <1>13, <1>15, <1>16
  <2>3. Waited(q)'
    <3>1. Waited(q) /\ waits[k] \in Nat /\ Waited(k)
      BY <1>1, <1>3 DEF ProcessKnown, Typed
    <3>2. waits[k] = 0
      BY <1>3, <3>1 DEF Waited
    <3>3. emitted'[q] = emitted[q] /\ waits'[q] = waits[q] /\ sent' = sent
      BY <1>3
    <3>4. waits'[q] > 0 => q # k
      BY <3>2, <3>3
    <3>5. waits'[q] > 0 => state'[q] # "none" /\ ~Alive(q)'
      BY <1>5, <3>1, <3>3, <3>4 DEF Waited, Alive
    <3> QED
      BY <3>1, <3>3, <3>5 DEF Waited
  <2>4. CallKnown(q)'
    <3>1. CASE q \in {p, k}
      <4>1. call'[q].op = "none"
        BY <1>1, <1>3, <3>1, Constants DEF ProcessKnown, Fork, Free
      <4> QED
        BY <4>1 DEF CallKnown
    <3>2. CASE q \notin {p, k}
      BY <1>3, <1>5, <2>1, <3>2 DEF ProcessKnown, CallKnown, Mine
    <3> QED
      BY <3>1, <3>2
  <2>5. /\ state'[q] = "none" => /\ call'[q] = NoCall /\ objects'[q] = <<>>
                                 /\ results'[q] = <<>> /\ sent'[q] = 0
        /\ q \in Forks /\ state'[q] # "none" => pidOf'[q] \in Pids
    <3>1. CASE q \in {p, k}
      BY <1>1, <1>3, <1>5, <2>1, <3>1 DEF ProcessKnown
    <3>2. CASE q \notin {p, k}
      BY <1>3, <1>5, <2>1, <3>2 DEF ProcessKnown
    <3> QED
      BY <3>1, <3>2
  <2> QED
    BY <2>2, <2>3, <2>4, <2>5 DEF ProcessKnown
<1>18. RunnerKnown' /\ NoChildIsLeft'
  <2>1. state'[Runner] = "body"
    BY <1>3, <1>5, Constants
  <2>2. ASSUME NEW c \in Forks, Alive(c)', parent'[c] = Runner
        PROVE  \E i \in DOMAIN objects'[Runner] : objects'[Runner][i].pid = pidOf'[c]
    <3>1. CASE c = k
      <4>1. p = Runner /\ 1 \in DOMAIN objects'[p]
        BY <1>3, <1>5, <1>6, <2>2, <3>1
      <4> QED
        BY <1>4, <1>5, <1>6, <3>1, <4>1
    <3>2. CASE c # k
      <4>1. Alive(c) /\ parent[c] = Runner /\ pidOf'[c] = pidOf[c]
        BY <1>5, <2>2, <3>2, Constants DEF Alive
      <4>2. PICK i \in DOMAIN objects[Runner] : objects[Runner][i].pid = pidOf[c]
        BY <1>1, <4>1 DEF RunnerKnown
      <4>3. CASE p = Runner
        BY <1>6, <4>1, <4>2, <4>3
      <4>4. CASE p # Runner
        BY <1>3, <1>5, <4>1, <4>2, <4>4, Constants
      <4> QED
        BY <4>3, <4>4
    <3> QED
      BY <3>1, <3>2
  <2> QED
    BY <2>1, <2>2 DEF RunnerKnown, NoChildIsLeft
<1> QED
  BY <1>8, <1>17, <1>18 DEF Inv

-----------------------------------------------------------------------------
LEMMA AppendToConcat ==
  ASSUME NEW s \in Seq(Parts), NEW t \in Seq(Parts), NEW x \in Parts
  PROVE  s \o Append(t, x) = Append(s \o t, x)
<1> DEFINE one == <<x>>
<1>1. one \in Seq(Parts)
  OBVIOUS
<1>2. Append(t, x) = t \o one /\ s \o t \in Seq(Parts)
  BY AppendIsConcat, ConcatProperties
<1>3. Append(s \o t, x) = (s \o t) \o one
  BY <1>2, AppendIsConcat
<1> HIDE DEF one
<1> QED
  BY <1>1, <1>2, <1>3, ConcatAssociative

\* A part of a result goes into the pipe of the process.
LEMMA SendStep ==
  ASSUME Inv, state[Runner] = "body", NEW p \in Processes, Send(p)
  PROVE  Inv'
<1> DEFINE n == sent[p] + 1
           x == IF call[p].op = "send" THEN Part(p, n, "begin") ELSE Part(p, n, "end")
           c == IF call[p].op = "send" THEN [call[p] EXCEPT !.op = "send-rest"] ELSE NoCall
           m == IF call[p].op = "send" THEN sent[p] ELSE n
<1>1. Typed /\ RunnerKnown /\ \A q \in Processes : ProcessKnown(q)
  BY DEF Inv
<1>2. /\ state[p] = "body" /\ call[p].op \in {"send", "send-rest"}
      /\ p \in Forks /\ call[p].fork = p /\ p # Runner
  BY <1>1, Constants DEF Send, ProcessKnown, CallKnown
<1>3. /\ ~IsFull(p, "result")
      /\ UNCHANGED <<objects, pidOf, parent, output, budget, emitted, waits>>
      /\ results' = [results EXCEPT ![p] = Append(@, x)]
      /\ call' = [call EXCEPT ![p] = c]
      /\ sent' = [sent EXCEPT ![p] = m]
      /\ state' = state \/ state' = Ended({p})
  <2>1. CASE call[p].op = "send"
    <3>1. c = [call[p] EXCEPT !.op = "send-rest"] /\ m = sent[p]
          /\ x = Part(p, n, "begin")
      BY <2>1
    <3>2. sent = [sent EXCEPT ![p] = sent[p]]
      BY <1>1 DEF Typed
    <3> QED
      BY <1>1, <1>2, <2>1, <3>1, <3>2 DEF Send, Typed
  <2>2. CASE call[p].op = "send-rest"
    <3>1. c = NoCall /\ m = n /\ x = Part(p, n, "end")
      BY <2>2
    <3> QED
      BY <1>2, <2>2, <3>1 DEF Send, Returns
  <2> QED
    BY <1>2, <2>1, <2>2
<1>4. /\ x \in Parts /\ n \in Nat /\ m \in Nat /\ sent[p] \in Nat
      /\ results[p] \in Seq(Parts) /\ c \in CallRecords
      /\ c.op = IF call[p].op = "send" THEN "send-rest" ELSE "none"
      /\ c.op = "send-rest" => c.fork = p
  <2>1. sent[p] \in Nat /\ results[p] \in Seq(Parts) /\ call[p] \in CallRecords
    BY <1>1 DEF Typed
  <2>2. x \in Parts
    BY <2>1 DEF Part, Parts
  <2>3. /\ c \in CallRecords /\ c.op = IF call[p].op = "send" THEN "send-rest" ELSE "none"
        /\ c.op = "send-rest" => c.fork = p
    <3>1. CASE call[p].op = "send"
      BY <1>2, <2>1, <3>1 DEF CallRecords
    <3>2. CASE call[p].op # "send"
      BY <1>2, <3>2, Constants
    <3> QED
      BY <3>1, <3>2
  <2> QED
    BY <2>1, <2>2, <2>3
<1>5. ASSUME NEW t \in Seq(Parts), IsStream(t, p, sent[p], Half(p))
      PROVE  IsStream(Append(t, x), p, m, call[p].op = "send")
  <2>1. CASE call[p].op = "send"
    <3>1. IsStream(t, p, sent[p], FALSE)
      BY <1>5, <2>1 DEF IsStream, Half
    <3>2. IsStream(Append(t, Part(p, sent[p] + 1, "begin")), p, sent[p], TRUE)
      BY <1>4, <3>1, SendsBegin
    <3> QED
      BY <2>1, <3>2
  <2>2. CASE call[p].op = "send-rest"
    <3>1. IsStream(t, p, sent[p], TRUE)
      BY <1>5, <2>2 DEF IsStream, Half
    <3>2. IsStream(Append(t, Part(p, sent[p] + 1, "end")), p, sent[p] + 1, FALSE)
      BY <1>4, <3>1, SendsEnd
    <3> QED
      BY <2>2, <3>2
  <2> QED
    BY <1>2, <2>1, <2>2
<1> HIDE DEF x, c, m, n
<1>6. /\ call'[p] = c /\ results'[p] = Append(results[p], x) /\ sent'[p] = m
      /\ \A q \in Processes \ {p} : /\ call'[q] = call[q] /\ results'[q] = results[q]
                                    /\ sent'[q] = sent[q]
  BY <1>1, <1>3 DEF Typed
<1>7. state' \in [Processes -> States] /\ (\A q \in Processes : Withers(q))
      /\ state'[Runner] \in {"body", "zombie"}
  <2>1. CASE state' = state
    BY <1>1, <2>1 DEF Typed, Withers, Alive
  <2>2. CASE state' = Ended({p})
    BY <1>1, <2>2, EndedWithers, Constants
  <2> QED
    BY <1>3, <2>1, <2>2
<1>8. Typed'
  <2>1. \A q \in Processes : Len(results'[q]) <= Capacity
    <3>1. Len(results[p]) # Capacity /\ Len(results[p]) <= Capacity
      BY <1>1, <1>3 DEF IsFull, Content, Typed
    <3>2. Len(results'[p]) = Len(results[p]) + 1 /\ Len(results[p]) \in Nat
      BY <1>4, <1>6
    <3>3. Len(results'[p]) <= Capacity
      BY <3>1, <3>2, CapacityAssumption
    <3> QED
      BY <1>1, <1>6, <3>3 DEF Typed
  <2>2. /\ call' \in [Processes -> CallRecords] /\ sent' \in [Processes -> Nat]
        /\ results' \in [Processes -> Seq(Parts)]
    BY <1>1, <1>3, <1>4 DEF Typed
  <2> QED
    BY <1>1, <1>3, <1>7, <2>1, <2>2 DEF Typed
<1>9. ASSUME NEW q \in Processes
      PROVE  TextKnown(q)'
  <2> SUFFICES ASSUME NEW i \in DOMAIN objects'[q], Mine(q, i)', First(q, i)',
                      IsFork(q, objects[q][i])'
      PROVE  IsStream(Received(objects[q][i]), objects[q][i].fork,
                      sent[objects[q][i].fork], Half(objects[q][i].fork))'
    BY DEF TextKnown
  <2> DEFINE o == objects[q][i]
             f == o.fork
  <2>1. /\ i \in DOMAIN objects[q] /\ objects'[q][i] = o /\ Mine(q, i) /\ First(q, i)
        /\ IsFork(q, o)
    BY <1>3, <1>7, Constants DEF Mine, First, IsFork, Withers
  <2>2. f \in Processes /\ o \in Objects
    BY <1>1, <2>1, Constants DEF IsFork, Typed
  <2>3. IsStream(o.text \o results[f], f, sent[f], Half(f))
    BY <1>1, <2>1 DEF ProcessKnown, TextKnown, Received
  <2> HIDE DEF o, f
  <2>4. IsStream(o.text \o results'[f], f, sent'[f], call'[f].op = "send-rest")
    <3>1. CASE f # p
      BY <1>6, <2>2, <2>3, <3>1 DEF Half
    <3>2. CASE f = p
      <4>1. o.text \in Seq(Parts)
        BY <2>2 DEF Objects
      <4> DEFINE t == o.text \o results[p]
      <4>2. t \in Seq(Parts) /\ IsStream(t, p, sent[p], Half(p))
        BY <1>4, <2>3, <3>2, <4>1, ConcatProperties
      <4>3. IsStream(Append(t, x), p, m, call[p].op = "send")
        BY <1>5, <4>2
      <4>4. o.text \o Append(results[p], x) = Append(t, x)
        BY <1>4, <4>1, AppendToConcat
      <4>5. (call'[p].op = "send-rest") = (call[p].op = "send")
        BY <1>4, <1>6
      <4> QED
        BY <1>6, <3>2, <4>3, <4>4, <4>5
    <3> QED
      BY <3>1, <3>2
  <2>5. objects'[q][i].fork = f /\ Received(objects[q][i])' = o.text \o results'[f]
    BY <2>1 DEF Received, o, f
  <2> QED
    BY <2>4, <2>5 DEF IsStream, Half
<1>10. ASSUME NEW q \in Processes
       PROVE  ProcessKnown(q)'
  <2>1. ProcessKnown(q)
    BY <1>1
  <2>2. ListKnown(q)'
    BY <1>3, <1>7, <2>1, ListStays DEF ProcessKnown
  <2>3. Waited(q)'
    <3>1. CASE q # p
      BY <1>3, <1>6, <1>7, <2>1, <3>1 DEF ProcessKnown, Waited, Withers
    <3>2. CASE q = p
      <4>1. ~(waits[p] > 0) /\ waits[p] \in Nat
        BY <1>1, <1>2, <2>1, <3>2 DEF ProcessKnown, Waited, Alive, Typed
      <4>2. waits[p] = 0
        BY <4>1
      <4>3. waits[p] * sent[p] = 0 /\ waits[p] * m = 0
        BY <1>4, <4>2
      <4>4. 1 .. 0 = {}
        OBVIOUS
      <4>5. emitted[p] = [i \in 1 .. 0 |-> Emission(p, 1 + ((i - 1) % sent[p]))]
        BY <2>1, <3>2, <4>3 DEF ProcessKnown, Waited
      <4>6. emitted[p] = [i \in 1 .. 0 |-> Emission(p, 1 + ((i - 1) % m))]
        BY <4>4, <4>5
      <4> QED
        BY <1>3, <1>6, <3>2, <4>2, <4>3, <4>6 DEF Waited
    <3> QED
      BY <3>1, <3>2
  <2>4. CallKnown(q)'
    <3>1. CASE q # p
      BY <1>3, <1>6, <2>1, <3>1 DEF ProcessKnown, CallKnown, Mine
    <3>2. CASE q = p
      BY <1>2, <1>4, <1>6, <3>2 DEF CallKnown
    <3> QED
      BY <3>1, <3>2
  <2>5. /\ state'[q] = "none" => /\ call'[q] = NoCall /\ objects'[q] = <<>>
                                 /\ results'[q] = <<>> /\ sent'[q] = 0
        /\ q \in Forks /\ state'[q] # "none" => pidOf'[q] \in Pids
    BY <1>2, <1>3, <1>6, <1>7, <2>1 DEF ProcessKnown, Withers
  <2> QED
    BY <1>9, <2>2, <2>3, <2>4, <2>5 DEF ProcessKnown
<1>11. RunnerKnown' /\ NoChildIsLeft'
  <2>1. \A k \in Forks : Alive(k)' => Alive(k)
    BY <1>7, Constants DEF Withers
  <2>2. state'[Runner] = "body" => state[Runner] = "body"
    OBVIOUS
  <2> QED
    BY <1>1, <1>3, <1>7, <2>1 DEF RunnerKnown, NoChildIsLeft
<1> QED
  BY <1>8, <1>10, <1>11 DEF Inv

\* The pipe of a fork is read to its end: the fork is dead.
LEMMA CollectStep ==
  ASSUME Inv, state[Runner] = "body", NEW p \in Processes, Collect(p)
  PROVE  Inv'
<1> DEFINE k == call[p].fork
           c == Current(p)
           o == objects[p][c]
           text == o.text \o results[k]
           e == <<>>
           w == waits[k]
           new == [o EXCEPT !.text = text]
<1>1. Typed /\ RunnerKnown /\ \A q \in Processes : ProcessKnown(q)
  BY DEF Inv
<1>2. /\ state[p] = "body" /\ call[p].op = "collect" /\ Writers(k, "result") = {}
      /\ objects' = [objects EXCEPT ![p][c].text = text]
      /\ results' = [results EXCEPT ![k] = e]
      /\ emitted' = [emitted EXCEPT ![k] = @ \o Parsed(text)]
      /\ waits' = [waits EXCEPT ![k] = @ + 1]
      /\ call' = [call EXCEPT ![p] = NoCall]
      /\ UNCHANGED <<state, pidOf, parent, output, budget, sent>>
  BY DEF Collect, Collected, Returns
<1> HIDE DEF c
<1>3. k \in Forks /\ \E i \in DOMAIN objects[p] : /\ Mine(p, i) /\ objects[p][i].pid # 0
                                                  /\ objects[p][i].fork = k
  BY <1>1, <1>2 DEF ProcessKnown, CallKnown
<1>4. /\ c \in DOMAIN objects[p] /\ o.fork = k
      /\ \A i \in 1 .. c - 1 : i \in DOMAIN objects[p] /\ objects[p][i].fork # k
  BY <1>1, <1>3, CurrentIsFirst DEF c
<1>5. DOMAIN objects[p] = 1 .. Len(objects[p]) /\ objects[p] \in Seq(Objects)
  BY <1>1 DEF Typed
<1>6. Mine(p, c) /\ First(p, c) /\ IsFork(p, o) /\ k \in Processes
  <2>1. PICK i \in DOMAIN objects[p] : /\ Mine(p, i) /\ objects[p][i].pid # 0
                                       /\ objects[p][i].fork = k
    BY <1>3
  <2>2. c <= i
    <3>1. i \notin 1 .. c - 1
      BY <1>4, <2>1
    <3> QED
      BY <1>4, <1>5, <3>1
  <2>3. Mine(p, c)
    <3>1. \A j \in 1 .. c - 1 : j \in 1 .. i - 1
      BY <1>4, <1>5, <2>2
    <3> QED
      BY <1>4, <2>1, <3>1 DEF Mine
  <2>4. First(p, c)
    BY <1>4 DEF First
  <2>5. IsFork(p, o)
    <3>1. \/ IsFork(p, o) \/ IsFailed(p, o) \/ IsBroken(p, o) \/ IsSelf(p, o)
      BY <1>1, <1>4, <2>3 DEF ProcessKnown, ListKnown
    <3>2. ~IsFailed(p, o) /\ ~IsBroken(p, o)
      BY <1>3, <1>4, Constants DEF IsFailed, IsBroken
    <3>3. ~IsSelf(p, o)
      <4> SUFFICES ASSUME IsSelf(p, o) PROVE FALSE
        OBVIOUS
      <4>1. o.pid = 0 /\ i # c
        BY <2>1 DEF IsSelf
      <4>2. c \in 1 .. i - 1
        BY <1>4, <1>5, <2>2, <4>1
      <4> QED
        BY <2>1, <4>1, <4>2 DEF Mine
    <3> QED
      BY <3>1, <3>2, <3>3
  <2> QED
    BY <1>3, <2>3, <2>4, <2>5, Constants
<1>7. state[k] # "none" /\ parent[k] = p
  BY <1>4, <1>6 DEF IsFork
<1>8. ~Alive(k) /\ k # p
  <2>1. k \in Below(k)
    BY <1>6, <1>7 DEF Below
  <2>2. ~Alive(k)
    BY <1>2, <2>1 DEF Writers
  <2> QED
    BY <1>2, <2>2 DEF Alive
<1>9. o \in Objects /\ o.text \in Seq(Parts) /\ results[k] \in Seq(Parts) /\ text \in Seq(Parts)
  <2>1. o \in Objects /\ results[k] \in Seq(Parts)
    BY <1>1, <1>4, <1>5, <1>6 DEF Typed
  <2>2. o.text \in Seq(Parts)
    BY <2>1 DEF Objects
  <2> HIDE DEF o, k
  <2> QED
    BY <2>1, <2>2, ConcatProperties
<1>10. IsStream(text, k, sent[k], Half(k))
  BY <1>1, <1>4, <1>6 DEF ProcessKnown, TextKnown, Received
<1>11. e \in Seq(Parts) /\ Len(e) = 0 /\ text \o e = text
  <2> HIDE DEF text
  <2> QED
    BY <1>9, ConcatEmptySeq
<1>12. sent[k] \in Nat /\ Half(k) \in BOOLEAN /\ w \in Nat
  BY <1>1, <1>6 DEF Typed, Half
<1>13. Parsed(text) = [j \in 1 .. sent[k] |-> Emission(k, j)]
  <2> HIDE DEF text, k
  <2> QED
    BY <1>6, <1>9, <1>10, <1>12, ParsedStream
<1> HIDE DEF text, e
<1>14. new \in Objects /\ new.text = text /\ new.fork = k /\ new.pid = o.pid /\ new.io = o.io
  <2> HIDE DEF o
  <2> QED
    BY <1>4, <1>9 DEF Objects
<1> HIDE DEF new
<1>15. /\ \A q \in Processes \ {p} : objects'[q] = objects[q] /\ call'[q] = call[q]
       /\ objects'[p] = [objects[p] EXCEPT ![c] = new] /\ call'[p] = NoCall
       /\ results'[k] = e /\ waits'[k] = w + 1 /\ emitted'[k] = emitted[k] \o Parsed(text)
       /\ \A q \in Processes \ {k} : results'[q] = results[q] /\ waits'[q] = waits[q]
                                     /\ emitted'[q] = emitted[q]
  BY <1>1, <1>2, <1>6 DEF Typed, new
<1>16. /\ objects'[p] \in Seq(Objects) /\ DOMAIN objects'[p] = DOMAIN objects[p]
       /\ objects'[p][c] = new
       /\ \A i \in DOMAIN objects[p] \ {c} : objects'[p][i] = objects[p][i]
  <2> DEFINE list == objects[p]
  <2>1. list \in Seq(Objects) /\ c \in 1 .. Len(list) /\ objects'[p] = [list EXCEPT ![c] = new]
    BY <1>4, <1>5, <1>15
  <2> HIDE DEF list
  <2>2. [list EXCEPT ![c] = new] \in Seq(Objects)
    BY <1>14, <2>1, ExceptSeq
  <2>3. /\ DOMAIN objects'[p] = DOMAIN list /\ objects'[p][c] = new
        /\ \A i \in DOMAIN list \ {c} : objects'[p][i] = list[i]
    BY <2>1
  <2> QED
    BY <2>1, <2>2, <2>3 DEF list
<1> HIDE DEF k, o, w
\* The objects keep their numbers.
<1>17. ASSUME NEW q \in Processes, NEW i \in DOMAIN objects[q]
       PROVE  /\ i \in DOMAIN objects'[q]
              /\ objects'[q][i].fork = objects[q][i].fork
              /\ objects'[q][i].pid = objects[q][i].pid
              /\ objects'[q][i].io = objects[q][i].io
              /\ q # p \/ i # c => objects'[q][i] = objects[q][i]
  <2>1. CASE q = p /\ i = c
    BY <1>4, <1>14, <1>16, <2>1 DEF o
  <2>2. CASE ~(q = p /\ i = c)
    BY <1>15, <1>16, <2>2
  <2> QED
    BY <2>1, <2>2
<1>18. \A q \in Processes : DOMAIN objects'[q] = DOMAIN objects[q]
  BY <1>15, <1>16
<1>19. ASSUME NEW q \in Processes, NEW i \in DOMAIN objects[q]
       PROVE  /\ Mine(q, i)' <=> Mine(q, i)
              /\ First(q, i)' <=> First(q, i)
              /\ IsFork(q, objects[q][i])' <=> IsFork(q, objects[q][i])
  <2>1. \A j \in 1 .. i - 1 : j \in DOMAIN objects[q]
    <3>1. DOMAIN objects[q] = 1 .. Len(objects[q]) /\ Len(objects[q]) \in Nat
      BY <1>1 DEF Typed
    <3> QED
      BY <3>1
  <2> QED
    BY <1>2, <1>17, <1>18, <2>1 DEF Mine, First, IsFork
<1>20. Typed'
  <2>1. objects' \in [Processes -> Seq(Objects)]
    <3> DEFINE list == objects'[p]
    <3>1. objects' = [objects EXCEPT ![p] = list]
      <4>1. objects' = [objects EXCEPT ![p] = [objects[p] EXCEPT ![c] = new]]
        BY <1>1, <1>2 DEF Typed, new, o, k
      <4> QED
        BY <1>1, <1>15, <4>1
    <3>2. list \in Seq(Objects)
      BY <1>16
    <3> HIDE DEF list
    <3> QED
      BY <1>1, <3>1, <3>2 DEF Typed
  <2>2. results' \in [Processes -> Seq(Parts)] /\ call' \in [Processes -> CallRecords]
    BY <1>1, <1>2, <1>11, Constants DEF Typed
  <2>3. waits' \in [Processes -> Nat]
    <3>1. waits' = [waits EXCEPT ![k] = w + 1]
      BY <1>1, <1>2, <1>6 DEF Typed, k, w
    <3>2. w + 1 \in Nat
      BY <1>12
    <3> QED
      BY <1>1, <3>1, <3>2 DEF Typed
  <2>5. ASSUME NEW q \in Processes PROVE Len(results'[q]) <= Capacity
    <3>1. CASE q = k
      <4>1. Len(results'[q]) = 0
        BY <1>11, <1>15, <3>1
      <4> QED
        BY <4>1, CapacityAssumption
    <3>2. CASE q # k
      BY <1>1, <1>15, <3>2 DEF Typed
    <3> QED
      BY <3>1, <3>2
  <2>4. emitted' \in [Processes -> Seq(Emissions)]
    <3> DEFINE new2 == Parsed(text)
    <3>1. new2 \in Seq(Emissions)
      <4>1. \A j \in 1 .. sent[k] : Emission(k, j) \in Emissions
        BY <1>6, <1>12 DEF Emission, Emissions
      <4> HIDE DEF new2
      <4>2. new2 = [j \in 1 .. sent[k] |-> Emission(k, j)]
        BY <1>13 DEF new2
      <4> QED
        BY <1>12, <4>1, <4>2
    <3> HIDE DEF new2
    <3>2. emitted[k] \o new2 \in Seq(Emissions)
      BY <1>1, <1>6, <3>1, ConcatProperties DEF Typed
    <3>3. emitted' = [emitted EXCEPT ![k] = emitted[k] \o new2]
      BY <1>1, <1>2, <1>6 DEF Typed, new2, k
    <3> QED
      BY <1>1, <3>2, <3>3 DEF Typed
  <2> QED
    BY <1>1, <1>2, <2>1, <2>2, <2>3, <2>4, <2>5 DEF Typed
<1>21. ASSUME NEW q \in Processes
       PROVE  ListKnown(q)'
  <2> SUFFICES ASSUME NEW i \in DOMAIN objects[q], Mine(q, i)
      PROVE  \/ IsFork(q, objects[q][i])' \/ IsFailed(q, objects[q][i])'
             \/ IsBroken(q, objects[q][i])' \/ IsSelf(q, objects[q][i])'
    BY <1>18, <1>19 DEF ListKnown
  <2>1. \/ IsFork(q, objects[q][i]) \/ IsFailed(q, objects[q][i])
        \/ IsBroken(q, objects[q][i]) \/ IsSelf(q, objects[q][i])
    BY <1>1 DEF ProcessKnown, ListKnown
  <2> QED
    BY <1>17, <1>19, <2>1 DEF IsFailed, IsBroken, IsSelf
<1>22. ASSUME NEW q \in Processes
       PROVE  TextKnown(q)'
  <2> SUFFICES ASSUME NEW i \in DOMAIN objects'[q], Mine(q, i)', First(q, i)',
                      IsFork(q, objects[q][i])'
      PROVE  IsStream(Received(objects[q][i]), objects[q][i].fork,
                      sent[objects[q][i].fork], Half(objects[q][i].fork))'
    BY DEF TextKnown
  <2> DEFINE b == objects[q][i]
             f == b.fork
  <2>1. i \in DOMAIN objects[q] /\ Mine(q, i) /\ First(q, i) /\ IsFork(q, b)
    BY <1>18, <1>19
  <2>2. IsStream(b.text \o results[f], f, sent[f], Half(f))
    BY <1>1, <2>1 DEF ProcessKnown, TextKnown, Received
  <2>3. f \in Processes
    BY <2>1, Constants DEF IsFork
  <2>4. /\ objects'[q][i].text \o results'[f] = b.text \o results[f]
        /\ objects'[q][i].fork = f
    <3>1. CASE f = k
      <4>1. q = p
        BY <1>7, <2>1, <3>1 DEF IsFork
      <4>2. i = c
        <5>1. ~(i < c) /\ ~(c < i)
          <6>1. i \in Nat /\ c \in Nat
            BY <1>4, <1>5, <2>1, <4>1
          <6>2. i < c => i \in 1 .. c - 1
            BY <1>4, <1>5, <2>1, <4>1, <6>1
          <6>3. c < i => c \in 1 .. i - 1
            BY <1>4, <1>5, <2>1, <4>1, <6>1
          <6> QED
            BY <1>4, <2>1, <3>1, <4>1, <6>1, <6>2, <6>3 DEF First, o
        <5> QED
          BY <1>4, <1>5, <2>1, <4>1, <5>1
      <4> QED
        BY <1>11, <1>14, <1>15, <1>16, <3>1, <4>1, <4>2 DEF text, o
    <3>2. CASE f # k
      <4>1. ~(q = p /\ i = c)
        BY <1>4, <3>2 DEF o
      <4> QED
        BY <1>15, <1>17, <2>1, <2>3, <3>2, <4>1
    <3> QED
      BY <3>1, <3>2
  <2>5. (call'[f].op = "send-rest") = Half(f) /\ sent'[f] = sent[f]
    BY <1>2, <1>15, <2>3, Constants DEF Half
  <2> HIDE DEF b
  <2>6. Received(objects[q][i])' = b.text \o results[f]
    BY <2>4 DEF Received
  <2>7. Half(objects[q][i].fork)' = Half(f)
    BY <2>4, <2>5 DEF Half
  <2> QED
    BY <2>2, <2>4, <2>5, <2>6, <2>7 DEF IsStream
<1>23. ASSUME NEW q \in Processes
       PROVE  Waited(q)'
  <2>1. Waited(q)
    BY <1>1 DEF ProcessKnown
  <2>2. CASE q # k
    BY <1>2, <1>15, <2>1, <2>2 DEF Waited, Alive
  <2>3. CASE q = k
    <3> DEFINE s == sent[k]
               before == emitted[k]
               now == Parsed(text)
    <3>1. before = [i \in 1 .. w * s |-> Emission(k, 1 + ((i - 1) % s))]
      BY <2>1, <2>3 DEF Waited, w
    <3>2. now = [j \in 1 .. s |-> Emission(k, j)]
      BY <1>13
    <3>3. s \in Nat /\ w \in Nat
      BY <1>12
    <3> HIDE DEF s, before, now
    <3>4. before \o now = [i \in 1 .. (w + 1) * s |-> Emission(k, 1 + ((i - 1) % s))]
      <4>1. [i \in 1 .. w * s |-> Emission(k, 1 + ((i - 1) % s))]
              \o [j \in 1 .. s |-> Emission(k, j)]
            = [i \in 1 .. (w + 1) * s |-> Emission(k, 1 + ((i - 1) % s))]
        BY <1>6, <3>3, Emitted
      <4> QED
        BY <3>1, <3>2, <4>1
    <3>5. emitted'[k] = before \o now /\ waits'[k] = w + 1 /\ sent'[k] = s
      BY <1>2, <1>15 DEF before, now, s
    <3>6. state'[k] # "none" /\ ~Alive(q)'
      BY <1>2, <1>7, <1>8, <2>3 DEF Alive
    <3> QED
      BY <2>3, <3>4, <3>5, <3>6 DEF Waited
  <2> QED
    BY <2>2, <2>3
<1>24. ASSUME NEW q \in Processes
       PROVE  ProcessKnown(q)'
  <2>1. ProcessKnown(q)
    BY <1>1
  <2>2. CallKnown(q)'
    <3>1. CASE q # p
      BY <1>15, <2>1, <3>1 DEF ProcessKnown, CallKnown, Mine
    <3>2. CASE q = p
      BY <1>15, <3>2, Constants DEF CallKnown
    <3> QED
      BY <3>1, <3>2
  <2>3. /\ state'[q] = "none" => /\ call'[q] = NoCall /\ objects'[q] = <<>>
                                 /\ results'[q] = <<>> /\ sent'[q] = 0
        /\ q \in Forks /\ state'[q] # "none" => pidOf'[q] \in Pids
    BY <1>2, <1>7, <1>15, <2>1 DEF ProcessKnown
  <2> QED
    BY <1>21, <1>22, <1>23, <2>2, <2>3 DEF ProcessKnown
<1>25. RunnerKnown' /\ NoChildIsLeft'
  <2>1. ASSUME NEW q \in Forks, Alive(q)', parent'[q] = Runner
        PROVE  \E i \in DOMAIN objects'[Runner] : objects'[Runner][i].pid = pidOf'[q]
    <3>1. PICK i \in DOMAIN objects[Runner] : objects[Runner][i].pid = pidOf[q]
      BY <1>1, <1>2, <2>1 DEF RunnerKnown, Alive
    <3> QED
      BY <1>2, <1>17, <3>1, Constants
  <2> QED
    BY <1>2, <2>1 DEF RunnerKnown, NoChildIsLeft
<1> QED
  BY <1>20, <1>24, <1>25 DEF Inv

-----------------------------------------------------------------------------
\* It holds initially,
LEMMA InitInv == Init => Inv
<1> SUFFICES ASSUME Init PROVE Inv
  OBVIOUS
<1> DEFINE e == <<>>
<1>1. /\ e \in Seq(Objects) /\ e \in Seq(Parts) /\ e \in Seq(Emissions)
      /\ Len(e) = 0 /\ DOMAIN e = {}
  OBVIOUS
<1>2. /\ objects = [p \in Processes |-> e] /\ results = [p \in Processes |-> e]
      /\ emitted = [p \in Processes |-> e]
      /\ state = [p \in Processes |-> IF p = Runner THEN "body" ELSE "none"]
      /\ call = [p \in Processes |-> NoCall] /\ pidOf = [p \in Processes |-> 0]
      /\ parent = [p \in Processes |-> Runner]
      /\ sent = [p \in Processes |-> 0] /\ waits = [p \in Processes |-> 0]
  BY DEF Init
<1> HIDE DEF e
<1>3. Typed
  <2>1. \A k \in Processes : Len(results[k]) <= Capacity
    BY <1>1, <1>2, CapacityAssumption
  <2>2. state \in [Processes -> States] /\ parent \in [Processes -> Processes]
        /\ call \in [Processes -> CallRecords] /\ pidOf \in [Processes -> Pids \cup {0}]
    BY <1>2, Constants DEF States
  <2>3. /\ objects \in [Processes -> Seq(Objects)] /\ results \in [Processes -> Seq(Parts)]
        /\ emitted \in [Processes -> Seq(Emissions)]
        /\ sent \in [Processes -> Nat] /\ waits \in [Processes -> Nat]
    BY <1>1, <1>2
  <2> QED
    BY <2>1, <2>2, <2>3 DEF Typed
<1>4. ASSUME NEW p \in Processes
      PROVE  ProcessKnown(p)
  <2>1. DOMAIN objects[p] = {} /\ call[p].op = "none" /\ waits[p] = 0 /\ sent[p] = 0
        /\ emitted[p] = e /\ (p \in Forks => state[p] = "none")
    BY <1>1, <1>2, Constants
  <2>2. ListKnown(p) /\ TextKnown(p) /\ CallKnown(p)
    BY <2>1 DEF ListKnown, TextKnown, CallKnown
  <2>3. Waited(p)
    <3>1. waits[p] * sent[p] = 0 /\ ~(waits[p] > 0)
      BY <2>1
    <3>2. [i \in 1 .. 0 |-> Emission(p, 1 + ((i - 1) % sent[p]))] = <<>>
      OBVIOUS
    <3> QED
      BY <2>1, <3>1, <3>2 DEF Waited, e
  <2>4. state[p] = "none" => /\ call[p] = NoCall /\ objects[p] = <<>> /\ results[p] = <<>>
                             /\ sent[p] = 0
    BY <1>2 DEF e
  <2> QED
    BY <2>1, <2>2, <2>3, <2>4 DEF ProcessKnown
<1>5. RunnerKnown /\ NoChildIsLeft
  BY <1>2, Constants DEF RunnerKnown, NoChildIsLeft, Alive
<1> QED
  BY <1>3, <1>4, <1>5 DEF Inv

\* and no step breaks it.
LEMMA StepInv == Inv /\ [Next]_vars => Inv'
<1> SUFFICES ASSUME Inv, [Next]_vars PROVE Inv'
  OBVIOUS
<1>1. CASE UNCHANGED vars
  <2>1. /\ UNCHANGED <<state, call, objects, pidOf, parent, results, sent, emitted, waits>>
    BY <1>1 DEF vars
  <2>2. Typed /\ RunnerKnown /\ NoChildIsLeft /\ \A p \in Processes : ProcessKnown(p)
    BY DEF Inv
  <2>3. \A p \in Processes : Withers(p) /\ Half(p)' = Half(p)
    BY <2>1 DEF Withers, Alive, Half
  <2>4. ASSUME NEW p \in Processes PROVE ProcessKnown(p)'
    <3>1. ListKnown(p)' /\ TextKnown(p)'
      BY <2>1, <2>2, <2>3, ListStays, TextStays DEF ProcessKnown
    <3>2. ProcessKnown(p) /\ CallKnown(p) /\ Waited(p)
      BY <2>2 DEF ProcessKnown
    <3>3. CallKnown(p)'
      BY <2>1, <3>2 DEF CallKnown, Mine
    <3>4. Waited(p)'
      BY <2>1, <3>2 DEF Waited, Alive
    <3> QED
      BY <2>1, <3>1, <3>2, <3>3, <3>4 DEF ProcessKnown
  <2>5. Typed' /\ RunnerKnown' /\ NoChildIsLeft'
    BY <2>1, <2>2 DEF Typed, RunnerKnown, NoChildIsLeft, Alive
  <2> QED
    BY <2>4, <2>5 DEF Inv
<1>2. ASSUME NEW p \in Processes, Die(p)
      PROVE  Inv'
  <2>1. /\ state[Runner] = "body" /\ state[p] # "none" /\ state' = Ended({p})
        /\ UNCHANGED <<call, objects, pidOf, parent, pipes, history>>
    BY <1>2 DEF Die, Alive
  <2> QED
    BY <2>1, EndStep
<1>3. ASSUME NEW p \in Processes, Step(p)
      PROVE  Inv'
  <2>1. state[Runner] = "body"
    BY <1>3 DEF Step
  <2>2. CASE Return(p)
    BY <2>1, <2>2, DisposeStep DEF Return, Free
  <2>3. CASE ReportResult(p)
    <3>1. PICK last \in BOOLEAN : Report(p, last)
      BY <2>3 DEF ReportResult
    <3>2. state[p] = "body" /\ call[p].op \in {"none", "failed"}
      BY <2>3 DEF ReportResult, Free
    <3> QED
      BY <2>1, <3>1, <3>2, ReportStep
  <2>4. CASE ReportForkFailure(p)
    <3>1. /\ Report(p, TRUE) /\ TRUE \in BOOLEAN
          /\ state[p] = "body" /\ call[p].op \in {"none", "failed"}
      BY <2>4 DEF ReportForkFailure
    <3> QED
      BY <2>1, <3>1, ReportStep
  <2>5. CASE Exit(p) \/ BrokenPipe(p)
    <3>1. /\ state[p] # "none" /\ state' = Ended({p})
          /\ UNCHANGED <<call, objects, pidOf, parent, pipes, history>>
      BY <2>5 DEF Exit, BrokenPipe, End, Free
    <3> QED
      BY <2>1, <3>1, EndStep
  <2>6. CASE Fork(p) \/ ForkFails(p) \/ Send(p) \/ StartWrite(p) \/ Write(p)
    BY <2>1, <2>6, ForkStep, ForkFailsStep, SendStep, StartWriteStep, WriteStep
  <2>7. CASE StartCall(p) \/ Reap(p) \/ Collect(p) \/ Read(p)
    BY <2>1, <2>7, StartCallStep, ReapStep, CollectStep, ReadStep
  <2> QED
    BY <1>3, <2>2, <2>3, <2>4, <2>5, <2>6, <2>7 DEF Step
<1> QED
  BY <1>1, <1>2, <1>3 DEF Next

\* The inductive invariant of forked processes, for any number of them, of process
\* numbers and of what is written, sent and waited for.
THEOREM ProcessInvariant == Spec => []Inv
  BY InitInv, StepInv, PTL DEF Spec

\* Type correctness: no more than it holds is in a pipe, and the numbers in the
\* lists are those of processes, or 0 or -1.
THEOREM TypeCorrectness == Spec => []TypeOK
<1>1. Inv => TypeOK
  <2> SUFFICES ASSUME Inv PROVE TypeOK
    OBVIOUS
  <2>1. Typed
    BY DEF Inv
  <2>2. ASSUME NEW p \in Processes
        PROVE  call[p].op \in {"none", "write", "send", "send-rest", "reap", "collect",
                               "read", "failed"}
    BY <2>1 DEF Typed, CallRecords
  <2>3. ASSUME NEW p \in Processes, NEW o \in Range(objects[p])
        PROVE  o.pid \in Pids \cup {0, -1}
    <3>1. o \in Objects
      BY <2>1, <2>3 DEF Typed, Range
    <3> QED
      BY <3>1 DEF Objects
  <2> QED
    BY <2>1, <2>2, <2>3 DEF Typed, TypeOK, States
<1> QED
  BY <1>1, ProcessInvariant, PTL

\* A wait forwards the results of the process it is for, all that were sent whole
\* and in their order, and no other (cut-test-context.c:1234).
THEOREM WaitTheorem == Spec => []WaitsForward
<1>1. Inv => WaitsForward
  BY Constants DEF Inv, ProcessKnown, Waited, WaitsForward, Emission
<1> QED
  BY <1>1, ProcessInvariant, PTL

\* None of the test's processes is left running when its context is gone
\* (cut-process.c:228).
THEOREM NoChildTheorem == Spec => []NoChildIsLeft
<1>1. Inv => NoChildIsLeft
  BY DEF Inv
<1> QED
  BY <1>1, ProcessInvariant, PTL
===============================================================================
