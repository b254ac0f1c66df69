---------------------------- MODULE CutDifferProofs ----------------------------
(***************************************************************************)
(* The matcher of cut-sequence-matcher.c is right for any two texts, what  *)
(* it keeps is never out of date, and what a differ writes leads from one  *)
(* text to the other.                                                      *)
(*                                                                         *)
(* The functions of CutSequenceMatcher and diff_lines() are recursive.     *)
(* That they are defined, and what they compute, is shown by induction     *)
(* over the natural numbers, which follows from the least element of a set *)
(* of them: over the rows of a window (the sizes of runs), its extent (the *)
(* matches), the number of matches (the blocks), that of blocks (the       *)
(* operations) and of operations (the groups), and the height of a window  *)
(* (the pairs of lines).                                                   *)
(*                                                                         *)
(* What is kept is right because each list is kept only once the lists it  *)
(* is computed from are right, and the groups go when the context size     *)
(* changes.                                                                *)
(*                                                                         *)
(* Lines of a diff have a trail: the places of the texts that are passed   *)
(* by each.  Trails are joined where one ends and the next begins, from    *)
(* the marked lines over the pairs of diff_lines(), the operations and the *)
(* groups to the whole diff.                                               *)
(***************************************************************************)
EXTENDS CutDiffer, WellFoundedInduction, FunctionTheorems, FiniteSetTheorems,
        SequenceTheorems, TLAPS

\* A set of natural numbers that is not empty has a least element.
LEMMA LeastNatural ==
  ASSUME NEW T \in SUBSET Nat, T # {}
  PROVE  \E n \in T : \A m \in T : n <= m
<1>1. IsWellFoundedOn(OpToRel(<, Nat), Nat)
  BY NatLessThanWellFounded
<1>2. PICK n \in T : \A m \in T : <<m, n>> \notin OpToRel(<, Nat)
  BY <1>1, WFMin
<1>3. \A m \in T : ~ (m < n)
  BY <1>2 DEF OpToRel
<1> QED
  BY <1>3

\* A set of natural numbers holds them all once it holds 0 and successors.
LEMMA Induction ==
  ASSUME NEW G, 0 \in G, \A n \in Nat : n \in G => n + 1 \in G
  PROVE  Nat \subseteq G
<1> SUFFICES ASSUME Nat \ G # {} PROVE FALSE
  OBVIOUS
<1>1. PICK n \in Nat \ G : \A m \in Nat \ G : n <= m
  BY LeastNatural
<1>2. n # 0 /\ n - 1 \in Nat
  BY <1>1
<1>3. n - 1 \in G
  BY <1>1, <1>2
<1> QED
  BY <1>1, <1>2, <1>3

\* A bounded set of natural numbers has a greatest element.
LEMMA GreatestNatural ==
  ASSUME NEW T \in SUBSET Nat, T # {}, NEW k \in Nat, \A n \in T : n <= k
  PROVE  \E n \in T : \A m \in T : m <= n
<1> DEFINE U == {u \in Nat : \A n \in T : n <= u}
<1>1. PICK u \in U : \A v \in U : u <= v
  BY LeastNatural
<1>2. CASE u \in T
  BY <1>1, <1>2
<1>3. CASE u \notin T
  <2>1. \A n \in T : n < u
    BY <1>1, <1>3
  <2>2. u # 0
    <3>1. PICK n : n \in T
      OBVIOUS
    <3> QED
      BY <3>1, <2>1
  <2>3. u - 1 \in U
    BY <1>1, <2>1, <2>2
  <2> QED
    BY <1>1, <2>2, <2>3
<1> QED
  BY <1>2, <1>3

\* Max is the greatest element of a bounded set of natural numbers.
LEMMA MaxIsGreatest ==
  ASSUME NEW T \in SUBSET Nat, T # {}, NEW k \in Nat, \A n \in T : n <= k
  PROVE  Max(T) \in T /\ \A m \in T : m <= Max(T)
<1>1. \E n \in T : \A m \in T : n >= m
  BY GreatestNatural
<1> QED
  BY <1>1 DEF Max

-----------------------------------------------------------------------------
AreBounds(w) ==
  /\ w[1] \in Nat /\ w[2] \in Nat /\ w[3] \in Nat /\ w[4] \in Nat
Positions(w) == (w[1] - 1 .. w[2] - 1) \X (w[3] - 1 .. w[4] - 1)
SizeAt(a, b, junk, w, size, p) ==
  IF p[1] < w[1] \/ p[2] < w[3] \/ At(a, p[1]) # At(b, p[2]) \/ At(b, p[2]) \in junk
  THEN 0 ELSE size[<<p[1] - 1, p[2] - 1>>] + 1

AreRunSizes(a, b, junk, w, g) == g = [p \in Positions(w) |-> SizeAt(a, b, junk, w, g, p)]

\* The sizes of the runs in a window are defined: by induction over the rows.
LEMMA RunSizesExist ==
  ASSUME NEW a, NEW b, NEW junk, NEW w, AreBounds(w)
  PROVE  \E g : AreRunSizes(a, b, junk, w, g)
<1> DEFINE D == Positions(w)
           R(g) == [p \in D |-> SizeAt(a, b, junk, w, g, p)]
           IsRight(g, k) == \A p \in D : p[1] < w[1] + k => g[p] = R(g)[p]
           G == {k \in Nat : \E g : IsRight(g, k)}
<1>0. \A p \in D : p[1] \in Int /\ p[2] \in Int
  BY DEF AreBounds, Positions
<1>1. 0 \in G
  <2>1. IsRight(R(<<>>), 0)
    BY <1>0 DEF SizeAt, AreBounds
  <2> HIDE DEF IsRight, R
  <2> QED
    BY <2>1
<1>2. ASSUME NEW k \in Nat, k \in G
      PROVE  k + 1 \in G
  <2>1. PICK g : IsRight(g, k)
    BY <1>2
  <2>2. ASSUME NEW p \in D, p[1] < w[1] + (k + 1)
        PROVE  R(g)[p] = R(R(g))[p]
    <3> DEFINE q == <<p[1] - 1, p[2] - 1>>
    <3>1. CASE p[1] < w[1] \/ p[2] < w[3]
      BY <3>1 DEF SizeAt
    <3>2. CASE ~(p[1] < w[1] \/ p[2] < w[3])
      <4>1. q \in D /\ q[1] < w[1] + k
        BY <3>2, <2>2, <1>0 DEF AreBounds, Positions
      <4>2. g[q] = R(g)[q]
        BY <4>1, <2>1
      <4> QED
        BY <4>2 DEF SizeAt
    <3> QED
      BY <3>1, <3>2
  <2>3. IsRight(R(g), k + 1)
    BY <2>2
  <2> HIDE DEF IsRight, R
  <2> QED
    BY <2>3
<1>3. PICK g : IsRight(g, w[2])
  <2> HIDE DEF G
  <2>1. Nat \subseteq G
    BY <1>1, <1>2, Induction
  <2>2. w[2] \in G
    BY <2>1 DEF AreBounds
  <2> QED
    BY <2>2 DEF G
<1>4. \A p \in D : p[1] < w[1] + w[2]
  BY <1>0 DEF AreBounds, Positions
<1>5. R(g) = R(R(g))
  <2>1. \A p \in D : g[p] = R(g)[p]
    BY <1>3, <1>4
  <2>2. ASSUME NEW p \in D
        PROVE  SizeAt(a, b, junk, w, g, p) = SizeAt(a, b, junk, w, R(g), p)
    <3> DEFINE q == <<p[1] - 1, p[2] - 1>>
    <3>1. CASE p[1] < w[1] \/ p[2] < w[3]
      BY <3>1 DEF SizeAt
    <3>2. CASE ~(p[1] < w[1] \/ p[2] < w[3])
      <4>1. q \in D
        BY <3>2, <2>2, <1>0 DEF AreBounds, Positions
      <4>2. g[q] = R(g)[q]
        BY <4>1, <2>1
      <4> QED
        BY <4>2 DEF SizeAt
    <3> QED
      BY <3>1, <3>2
  <2> QED
    BY <2>2
<1> QED
  BY <1>5 DEF AreRunSizes

\* So they are what RunSizes chooses, find_best_match_position()'s
\* current_size and next_size.
LEMMA RunSizesEquation ==
  ASSUME NEW a, NEW b, NEW junk, NEW w, AreBounds(w)
  PROVE  AreRunSizes(a, b, junk, w, RunSizes(a, b, junk, w))
<1>1. RunSizes(a, b, junk, w) = CHOOSE g : AreRunSizes(a, b, junk, w, g)
  BY DEF RunSizes, Positions, SizeAt, AreRunSizes
<1>2. \E g : AreRunSizes(a, b, junk, w, g)
  BY RunSizesExist
<1> QED
  BY <1>1, <1>2, Zenon

-----------------------------------------------------------------------------
\* What the sizes of runs are: the run that ends at p lies in the window.
IsRunEndingAt(a, b, w, p, n) ==
  /\ n \in Nat /\ n <= p[1] - w[1] + 1 /\ n <= p[2] - w[3] + 1
  /\ \A d \in 0 .. n - 1 : At(a, p[1] - d) = At(b, p[2] - d)

\* The size at a pair of positions is that of a run of equal elements which ends
\* there, and not 0 where elements are equal and no junk.
LEMMA RunSizesAreRuns ==
  ASSUME NEW a, NEW b, NEW junk, NEW w, AreBounds(w), NEW p \in Positions(w)
  PROVE  /\ p[1] >= w[1] - 1 /\ p[2] >= w[3] - 1
         /\ IsRunEndingAt(a, b, w, p, RunSizes(a, b, junk, w)[p])
         /\ (/\ p[1] >= w[1] /\ p[2] >= w[3]
             /\ At(a, p[1]) = At(b, p[2]) /\ At(b, p[2]) \notin junk)
            => RunSizes(a, b, junk, w)[p] > 0
<1> DEFINE size == RunSizes(a, b, junk, w)
           G == {k \in Nat : \A q \in Positions(w) : q[1] < w[1] + k =>
                               IsRunEndingAt(a, b, w, q, size[q])}
<1>0. \A q \in Positions(w) : /\ q[1] \in Int /\ q[2] \in Int
                              /\ q[1] >= w[1] - 1 /\ q[2] >= w[3] - 1 /\ q[1] < w[2]
  BY DEF AreBounds, Positions
<1>1. \A q \in Positions(w) : size[q] = SizeAt(a, b, junk, w, size, q)
  BY RunSizesEquation DEF AreRunSizes
<1> HIDE DEF size
<1>2. \A q \in Positions(w) : q[1] < w[1] \/ q[2] < w[3] => size[q] = 0
  BY <1>1 DEF SizeAt
<1>3. 0 \in G
  BY <1>0, <1>2 DEF IsRunEndingAt, AreBounds
<1>4. ASSUME NEW k \in Nat, k \in G
      PROVE  k + 1 \in G
  <2> SUFFICES ASSUME NEW q \in Positions(w), q[1] < w[1] + (k + 1)
               PROVE  IsRunEndingAt(a, b, w, q, size[q])
    OBVIOUS
  <2>1. CASE size[q] = 0
    BY <2>1, <1>0 DEF IsRunEndingAt, AreBounds
  <2>2. CASE size[q] # 0
    <3> DEFINE r == <<q[1] - 1, q[2] - 1>>
    <3>1. /\ q[1] >= w[1] /\ q[2] >= w[3] /\ At(a, q[1]) = At(b, q[2])
          /\ size[q] = size[r] + 1
      BY <2>2, <1>0, <1>1 DEF SizeAt, AreBounds
    <3>2. r \in Positions(w) /\ r[1] < w[1] + k /\ r[1] = q[1] - 1 /\ r[2] = q[2] - 1
      BY <3>1, <1>0 DEF AreBounds, Positions
    <3>3. IsRunEndingAt(a, b, w, r, size[r])
      BY <3>2, <1>4
    <3> DEFINE n == size[r]
    <3>4. /\ n \in Nat /\ n <= q[1] - 1 - w[1] + 1 /\ n <= q[2] - 1 - w[3] + 1
          /\ \A d \in 0 .. n - 1 : At(a, q[1] - 1 - d) = At(b, q[2] - 1 - d)
      BY <3>2, <3>3 DEF IsRunEndingAt
    <3>5. ASSUME NEW d \in 0 .. n
          PROVE  At(a, q[1] - d) = At(b, q[2] - d)
      <4>1. CASE d = 0
        BY <4>1, <3>1, <1>0
      <4>2. CASE d # 0
        <5>1. d - 1 \in 0 .. n - 1 /\ q[1] - 1 - (d - 1) = q[1] - d /\ q[2] - 1 - (d - 1) = q[2] - d
          BY <4>2, <3>4, <1>0
        <5> QED
          BY <5>1, <3>4
      <4> QED
        BY <4>1, <4>2
    <3> HIDE DEF n
    <3>6. size[q] = n + 1
      BY <3>1 DEF n
    <3> QED
      BY <3>4, <3>5, <3>6, <1>0 DEF IsRunEndingAt, AreBounds
  <2> QED
    BY <2>1, <2>2
<1>5. w[2] \in G
  <2> HIDE DEF G
  <2>1. Nat \subseteq G
    BY <1>3, <1>4, Induction
  <2> QED
    BY <2>1 DEF AreBounds
<1>6. IsRunEndingAt(a, b, w, p, size[p])
  BY <1>5, <1>0 DEF AreBounds
<1>7. ASSUME p[1] >= w[1], p[2] >= w[3], At(a, p[1]) = At(b, p[2]), At(b, p[2]) \notin junk
      PROVE  size[p] > 0
  <2> DEFINE r == <<p[1] - 1, p[2] - 1>>
  <2>1. size[p] = size[r] + 1
    BY <1>7, <1>1, <1>0 DEF SizeAt, AreBounds
  <2>2. r \in Positions(w) /\ r[1] < w[1] + w[2]
    BY <1>7, <1>0 DEF AreBounds, Positions
  <2>3. size[r] \in Nat
    BY <2>2, <1>5 DEF IsRunEndingAt
  <2> QED
    BY <2>1, <2>3
<1> QED
  BY <1>0, <1>6, <1>7 DEF size

-----------------------------------------------------------------------------
\* A match lies in its window, and what it matches is equal.
MatchRecords == [from : Nat, to : Nat, size : Nat]
IsMatch(a, b, w, m) ==
  /\ m \in MatchRecords
  /\ w[1] <= m.from /\ m.from + m.size <= w[2]
  /\ w[3] <= m.to /\ m.to + m.size <= w[4]
  /\ \A d \in 0 .. m.size - 1 : At(a, m.from + d) = At(b, m.to + d)
HasNothingCommon(a, b, junk, w) ==
  \A i \in w[1] .. w[2] - 1, j \in w[3] .. w[4] - 1 : At(a, i) = At(b, j) => At(b, j) \in junk
IsWindow(w) == AreBounds(w) /\ w[1] <= w[2] /\ w[3] <= w[4]

\* A bounded set of matches has one that is better than the others.
LEMMA BestExists ==
  ASSUME NEW found \in SUBSET MatchRecords, found # {},
         NEW k \in Nat, \A m \in found : m.size <= k
  PROVE  \E m \in found : \A n \in found : IsBetter(m, n)
<1> DEFINE Sizes == {m.size : m \in found}
<1>1. PICK s \in Sizes : \A t \in Sizes : t <= s
  <2>1. Sizes \in SUBSET Nat /\ Sizes # {} /\ \A t \in Sizes : t <= k
    BY DEF MatchRecords
  <2> HIDE DEF Sizes
  <2> QED
    BY <2>1, GreatestNatural
<1> DEFINE Largest == {m \in found : m.size = s}
           Froms == {m.from : m \in Largest}
<1>2. PICK f \in Froms : \A g \in Froms : f <= g
  <2>1. Froms \in SUBSET Nat /\ Froms # {}
    BY <1>1 DEF MatchRecords
  <2> HIDE DEF Froms
  <2> QED
    BY <2>1, LeastNatural
<1> DEFINE First == {m \in Largest : m.from = f}
           Tos == {m.to : m \in First}
<1>3. PICK t \in Tos : \A u \in Tos : t <= u
  <2>1. Tos \in SUBSET Nat /\ Tos # {}
    BY <1>2 DEF MatchRecords
  <2> HIDE DEF Tos
  <2> QED
    BY <2>1, LeastNatural
<1>4. PICK m \in found : m.size = s /\ m.from = f /\ m.to = t
  BY <1>3
<1>5. ASSUME NEW n \in found
      PROVE  IsBetter(m, n)
  <2>1. /\ n.size \in Nat /\ n.from \in Nat /\ n.to \in Nat
        /\ m.size \in Nat /\ m.from \in Nat /\ m.to \in Nat
    BY DEF MatchRecords
  <2>2. n.size <= m.size
    BY <1>1, <1>4
  <2>3. n.size = m.size => m.from <= n.from
    BY <1>2, <1>4
  <2>4. n.size = m.size /\ n.from = m.from => m.to <= n.to
    BY <1>3, <1>4
  <2> QED
    BY <2>1, <2>2, <2>3, <2>4 DEF IsBetter
<1> QED
  BY <1>5

\* What find_best_match_position() finds are matches; it finds none only where
\* the windows have nothing but junk in common.
LEMMA RunsFoundAreMatches ==
  ASSUME NEW a, NEW b, NEW junk, NEW w, IsWindow(w)
  PROVE  /\ \A m \in RunsFound(a, b, junk, w) : IsMatch(a, b, w, m)
         /\ RunsFound(a, b, junk, w) = {} => HasNothingCommon(a, b, junk, w)
         /\ \A m \in RunsFound(a, b, junk, w) : m.size > 0
<1> DEFINE size == RunSizes(a, b, junk, w)
           Inside == (w[1] .. w[2] - 1) \X (w[3] .. w[4] - 1)
           Run(p) == [from |-> p[1] - size[p] + 1, to |-> p[2] - size[p] + 1,
                      size |-> size[p]]
<1>1. RunsFound(a, b, junk, w) = {m \in {Run(p) : p \in Inside} : m.size > 0}
  BY DEF RunsFound
<1>2. ASSUME NEW p \in Inside
      PROVE  /\ IsMatch(a, b, w, Run(p))
             /\ At(a, p[1]) = At(b, p[2]) /\ At(b, p[2]) \notin junk => Run(p).size > 0
  <2> DEFINE n == size[p]
             i == p[1]
             j == p[2]
  <2>1. /\ p \in Positions(w) /\ i >= w[1] /\ j >= w[3] /\ i < w[2] /\ j < w[4]
        /\ i \in Int /\ j \in Int
    BY DEF Positions, IsWindow, AreBounds
  <2>2. /\ n \in Nat /\ n <= i - w[1] + 1 /\ n <= j - w[3] + 1
        /\ \A d \in 0 .. n - 1 : At(a, i - d) = At(b, j - d)
    BY <2>1, RunSizesAreRuns DEF IsRunEndingAt, IsWindow
  <2>3. At(a, i) = At(b, j) /\ At(b, j) \notin junk => n > 0
    BY <2>1, RunSizesAreRuns DEF IsWindow
  <2>5. Run(p) = [from |-> i - n + 1, to |-> j - n + 1, size |-> n]
    OBVIOUS
  <2> HIDE DEF n, i, j
  <2>4. ASSUME NEW d \in 0 .. n - 1
        PROVE  At(a, i - n + 1 + d) = At(b, j - n + 1 + d)
    <3>1. n - 1 - d \in 0 .. n - 1 /\ i - (n - 1 - d) = i - n + 1 + d /\ j - (n - 1 - d) = j - n + 1 + d
      BY <2>1, <2>2
    <3> QED
      BY <3>1, <2>2
  <2>6. IsMatch(a, b, w, [from |-> i - n + 1, to |-> j - n + 1, size |-> n])
    BY <2>1, <2>2, <2>4 DEF IsMatch, MatchRecords, IsWindow, AreBounds
  <2>7. At(a, p[1]) = At(b, p[2]) /\ At(b, p[2]) \notin junk => Run(p).size > 0
    BY <2>3, <2>5 DEF i, j
  <2> QED
    BY <2>5, <2>6, <2>7
<1> HIDE DEF Run
<1>3. \A m \in RunsFound(a, b, junk, w) : IsMatch(a, b, w, m) /\ m.size > 0
  BY <1>1, <1>2
<1>4. ASSUME RunsFound(a, b, junk, w) = {},
             NEW i \in w[1] .. w[2] - 1, NEW j \in w[3] .. w[4] - 1, At(a, i) = At(b, j)
      PROVE  At(b, j) \in junk
  <2> DEFINE p == <<i, j>>
  <2>1. p \in Inside /\ p[1] = i /\ p[2] = j
    OBVIOUS
  <2>2. Run(p) \notin RunsFound(a, b, junk, w)
    BY <1>4
  <2>3. ~(Run(p).size > 0)
    BY <2>1, <2>2, <1>1
  <2> QED
    BY <2>1, <2>3, <1>2, <1>4
<1> QED
  BY <1>3, <1>4 DEF HasNothingCommon

\* So is the one it takes.
LEMMA BestMatchIsBest ==
  ASSUME NEW a, NEW b, NEW junk, NEW w, IsWindow(w)
  PROVE  LET m == BestMatchPosition(a, b, junk, w)
         IN IsMatch(a, b, w, m) /\ (m.size = 0 => HasNothingCommon(a, b, junk, w))
<1> DEFINE runs == RunsFound(a, b, junk, w)
           none == [from |-> w[1], to |-> w[3], size |-> 0]
           found == runs \cup {none}
           m == BestMatchPosition(a, b, junk, w)
<1>1. m = CHOOSE x \in found : \A n \in found : IsBetter(x, n)
  BY DEF BestMatchPosition
<1>2. IsMatch(a, b, w, none) /\ none.size = 0
  BY DEF IsMatch, MatchRecords, IsWindow, AreBounds
<1> HIDE DEF runs, none, m
<1>3. \A x \in found : IsMatch(a, b, w, x)
  BY <1>2, RunsFoundAreMatches DEF runs
<1>4. /\ found \in SUBSET MatchRecords /\ found # {} /\ \A x \in found : x.size <= w[2]
      /\ w[2] \in Nat
  <2>1. found \in SUBSET MatchRecords
    BY <1>3 DEF IsMatch
  <2>2. \A x \in found : x.size <= w[2]
    BY <1>3 DEF IsMatch, MatchRecords, IsWindow, AreBounds
  <2>3. w[2] \in Nat
    BY DEF IsWindow, AreBounds
  <2> QED
    BY <2>1, <2>2, <2>3
<1> HIDE DEF found
<1>5. \E x \in found : \A n \in found : IsBetter(x, n)
  BY <1>4, BestExists
<1>6. m \in found /\ \A n \in found : IsBetter(m, n)
  BY <1>1, <1>5
<1>7. ASSUME m.size = 0
      PROVE  HasNothingCommon(a, b, junk, w)
  <2>1. SUFFICES ASSUME NEW x \in runs
                 PROVE  FALSE
    BY RunsFoundAreMatches DEF runs
  <2>2. x.size > 0 /\ x \in MatchRecords /\ m \in MatchRecords
    BY <1>4, <1>6, RunsFoundAreMatches DEF runs, found
  <2>3. IsBetter(m, x)
    BY <1>6 DEF found
  <2> QED
    BY <2>2, <2>3, <1>7 DEF IsBetter, MatchRecords
<1> QED
  BY <1>3, <1>6, <1>7 DEF m

-----------------------------------------------------------------------------
\* The lesser of two numbers.
LEMMA MinOfTwo ==
  ASSUME NEW x \in Int, NEW y \in Int
  PROVE  Min({x, y}) = IF x <= y THEN x ELSE y
<1>1. \E z \in {x, y} : \A u \in {x, y} : z <= u
  OBVIOUS
<1>2. Min({x, y}) \in {x, y} /\ \A u \in {x, y} : Min({x, y}) <= u
  BY <1>1 DEF Min
<1> QED
  BY <1>2

\* The greater of two numbers.
LEMMA MaxOfTwo ==
  ASSUME NEW x \in Int, NEW y \in Int
  PROVE  Max({x, y}) = IF x <= y THEN y ELSE x
<1>1. \E z \in {x, y} : \A u \in {x, y} : z >= u
  OBVIOUS
<1>2. Max({x, y}) \in {x, y} /\ \A u \in {x, y} : Max({x, y}) >= u
  BY <1>1 DEF Max
<1> QED
  BY <1>2

\* A match that is adjusted is a match that is as long, or longer.
LEMMA AdjustedIsAMatch ==
  ASSUME NEW a, NEW b, NEW junk, NEW w, NEW shouldJunk, IsWindow(w),
         NEW m, IsMatch(a, b, w, m)
  PROVE  /\ IsMatch(a, b, w, Adjusted(a, b, junk, w, shouldJunk, m))
         /\ Adjusted(a, b, junk, w, shouldJunk, m).size >= m.size
<1> DEFINE grows(i, j) == (At(b, j) \in junk <=> shouldJunk) /\ At(a, i) = At(b, j)
           end == [from |-> m.from + m.size, to |-> m.to + m.size]
           Lefts == {n \in 0 .. Min({m.from - w[1], m.to - w[3]}) :
                       \A d \in 1 .. n : grows(m.from - d, m.to - d)}
           Rights == {n \in 0 .. Max({0, Min({w[2] - 1 - end.from, w[4] - 1 - end.to})}) :
                        \A d \in 0 .. n - 1 : grows(end.from + d, end.to + d)}
           left == Max(Lefts)
           right == Max(Rights)
<1>1. /\ m.from \in Nat /\ m.to \in Nat /\ m.size \in Nat
      /\ w[1] \in Nat /\ w[2] \in Nat /\ w[3] \in Nat /\ w[4] \in Nat
      /\ w[1] <= m.from /\ m.from + m.size <= w[2]
      /\ w[3] <= m.to /\ m.to + m.size <= w[4]
      /\ \A d \in 0 .. m.size - 1 : At(a, m.from + d) = At(b, m.to + d)
  BY DEF IsMatch, MatchRecords, IsWindow, AreBounds
<1>2. /\ left \in Nat /\ left <= m.from - w[1] /\ left <= m.to - w[3]
      /\ \A d \in 1 .. left : At(a, m.from - d) = At(b, m.to - d)
  <2> DEFINE k == Min({m.from - w[1], m.to - w[3]})
  <2>1. k \in Nat /\ k <= m.from - w[1] /\ k <= m.to - w[3]
    BY <1>1, MinOfTwo
  <2> HIDE DEF k
  <2>2. 0 \in Lefts /\ Lefts \in SUBSET Nat /\ \A n \in Lefts : n <= k
    BY <2>1 DEF k
  <2>3. left \in Lefts
    <3> HIDE DEF Lefts
    <3> QED
      BY <2>1, <2>2, MaxIsGreatest
  <2> HIDE DEF left
  <2>4. left \in 0 .. k /\ \A d \in 1 .. left : At(a, m.from - d) = At(b, m.to - d)
    BY <2>3 DEF k
  <2> QED
    BY <2>1, <2>4, <1>1
<1>3. /\ right \in Nat /\ m.from + m.size + right <= w[2] /\ m.to + m.size + right <= w[4]
      /\ \A d \in 0 .. right - 1 : At(a, m.from + m.size + d) = At(b, m.to + m.size + d)
  <2> DEFINE k == Max({0, Min({w[2] - 1 - end.from, w[4] - 1 - end.to})})
  <2>1. /\ k \in Nat /\ m.from + m.size + k <= w[2] /\ m.to + m.size + k <= w[4]
    <3> DEFINE x == w[2] - 1 - end.from
               y == w[4] - 1 - end.to
               z == Min({x, y})
    <3>1. x = w[2] - 1 - (m.from + m.size) /\ y = w[4] - 1 - (m.to + m.size)
      OBVIOUS
    <3>2. x \in Int /\ y \in Int
      BY <3>1, <1>1
    <3> HIDE DEF x, y
    <3>3. z = IF x <= y THEN x ELSE y
      BY <3>2, MinOfTwo
    <3>4. z \in Int
      BY <3>2, <3>3
    <3> HIDE DEF z
    <3>5. Max({0, z}) = IF 0 <= z THEN z ELSE 0
      BY <3>4, MaxOfTwo
    <3>6. k = Max({0, z})
      BY DEF x, y, z
    <3> HIDE DEF k
    <3> QED
      BY <3>1, <3>2, <3>3, <3>5, <3>6, <1>1
  <2> HIDE DEF k
  <2>2. 0 \in Rights /\ Rights \in SUBSET Nat /\ \A n \in Rights : n <= k
    BY <2>1 DEF k
  <2>3. right \in Rights
    <3> HIDE DEF Rights
    <3> QED
      BY <2>1, <2>2, MaxIsGreatest
  <2> HIDE DEF right
  <2>4. right \in 0 .. k /\ \A d \in 0 .. right - 1 : At(a, end.from + d) = At(b, end.to + d)
    BY <2>3 DEF k
  <2> QED
    BY <2>1, <2>4, <1>1
<1> DEFINE r == Adjusted(a, b, junk, w, shouldJunk, m)
<1>4. r = [from |-> m.from - left, to |-> m.to - left, size |-> m.size + left + right]
  BY DEF Adjusted
<1> HIDE DEF left, right, r
<1>5. ASSUME NEW d \in 0 .. m.size + left + right - 1
      PROVE  At(a, m.from - left + d) = At(b, m.to - left + d)
  <2>1. CASE d < left
    <3>1. /\ left - d \in 1 .. left /\ m.from - (left - d) = m.from - left + d
          /\ m.to - (left - d) = m.to - left + d
      BY <2>1, <1>1, <1>2
    <3> QED
      BY <3>1, <1>2
  <2>2. CASE d >= left /\ d < left + m.size
    <3>1. /\ d - left \in 0 .. m.size - 1 /\ m.from + (d - left) = m.from - left + d
          /\ m.to + (d - left) = m.to - left + d
      BY <2>2, <1>1, <1>2
    <3> QED
      BY <3>1, <1>1
  <2>3. CASE d >= left + m.size
    <3> DEFINE e == d - left - m.size
    <3>1. /\ e \in 0 .. right - 1 /\ m.from + m.size + e = m.from - left + d
          /\ m.to + m.size + e = m.to - left + d
      BY <2>3, <1>1, <1>2, <1>3
    <3> QED
      BY <3>1, <1>3
  <2> QED
    BY <2>1, <2>2, <2>3, <1>1, <1>2
<1>6. IsMatch(a, b, w, [from |-> m.from - left, to |-> m.to - left,
                        size |-> m.size + left + right])
  BY <1>1, <1>2, <1>3, <1>5 DEF IsMatch, MatchRecords
<1> QED
  BY <1>1, <1>2, <1>3, <1>4, <1>6 DEF r

\* The longest match of a window: where there is none, nothing is common but
\* junk.
LEMMA LongestMatchIsRight ==
  ASSUME NEW a, NEW b, NEW junk, NEW w, IsWindow(w)
  PROVE  LET m == LongestMatch(a, b, junk, w)
         IN IsMatch(a, b, w, m) /\ (m.size = 0 => HasNothingCommon(a, b, junk, w))
<1> DEFINE best == BestMatchPosition(a, b, junk, w)
           once == Adjusted(a, b, junk, w, FALSE, best)
           twice == Adjusted(a, b, junk, w, TRUE, once)
<1>1. IsMatch(a, b, w, best) /\ (best.size = 0 => HasNothingCommon(a, b, junk, w))
  BY BestMatchIsBest
<1>2. LongestMatch(a, b, junk, w) \in {best, twice}
  BY DEF LongestMatch
<1> HIDE DEF best
<1>3. IsMatch(a, b, w, once) /\ once.size >= best.size
  BY <1>1, AdjustedIsAMatch
<1> HIDE DEF once
<1>4. IsMatch(a, b, w, twice) /\ twice.size >= once.size
  BY <1>3, AdjustedIsAMatch
<1> HIDE DEF twice
<1>5. best.size \in Nat /\ once.size \in Nat /\ twice.size \in Nat
  BY <1>1, <1>3, <1>4 DEF IsMatch, MatchRecords
<1>6. twice.size = 0 => best.size = 0
  BY <1>3, <1>4, <1>5
<1> QED
  BY <1>1, <1>2, <1>4, <1>6

-----------------------------------------------------------------------------
\* What the recursive function of MatchesIn has for a window, when g is what it
\* has for the smaller ones.
MatchesAt(a, b, junk, g, w) ==
  UNION {{m} \cup UNION {g[x] : x \in
           {y \in {LeftWindow(w, m), RightWindow(w, m)} : IsOpen(y)}} :
           m \in {n \in {LongestMatch(a, b, junk, w)} : n.size > 0}}
AreMatchesIn(a, b, junk, g) == g = [w \in Windows(a, b) |-> MatchesAt(a, b, junk, g, w)]

\* The windows of two texts lie in the texts.
LEMMA WindowsAreWindows ==
  ASSUME NEW a, NEW b, Len(a) \in Nat, Len(b) \in Nat, NEW w \in Windows(a, b)
  PROVE  IsWindow(w) /\ w[2] <= Len(a) /\ w[4] <= Len(b)
BY DEF Windows, IsWindow, AreBounds

\* The windows left and right of a match are windows, and smaller.
Extent(w) == w[2] - w[1] + w[4] - w[3]

\* The numbers of the window before a match and of the one after it.
LEMMA SmallerBounds ==
  ASSUME NEW p \in Nat, NEW q \in Nat, NEW r \in Nat, NEW s \in Nat,
         NEW f \in Nat, NEW t \in Nat, NEW n \in Nat, NEW A \in Nat, NEW B \in Nat,
         q <= A, s <= B, p <= f, f + n <= q, r <= t, t + n <= s, n > 0
  PROVE  /\ f \in 0 .. A /\ f + n \in 0 .. A /\ t \in 0 .. B /\ t + n \in 0 .. B
         /\ f - p + t - r < q - p + s - r
         /\ q - (f + n) + s - (t + n) < q - p + s - r
OBVIOUS

\* Four bounds in order are a window.
LEMMA BoundsOfAWindow ==
  ASSUME NEW a, NEW b, Len(a) \in Nat, Len(b) \in Nat,
         NEW p \in Nat, NEW q \in Nat, NEW r \in Nat, NEW s \in Nat,
         p <= q, r <= s, q <= Len(a), s <= Len(b)
  PROVE  <<p, q, r, s>> \in Windows(a, b) /\ Extent(<<p, q, r, s>>) = q - p + s - r
BY DEF Windows, Extent

\* What is before and after a match are windows, and smaller than that of the
\* match: the recursion of get_matches() ends.
LEMMA SmallerWindows ==
  ASSUME NEW a, NEW b, Len(a) \in Nat, Len(b) \in Nat, NEW w \in Windows(a, b),
         NEW m, IsMatch(a, b, w, m), m.size > 0
  PROVE  /\ LeftWindow(w, m) \in Windows(a, b) /\ RightWindow(w, m) \in Windows(a, b)
         /\ Extent(LeftWindow(w, m)) < Extent(w) /\ Extent(RightWindow(w, m)) < Extent(w)
<1> DEFINE p == w[1]
           q == w[2]
           r == w[3]
           s == w[4]
           f == m.from
           t == m.to
           n == m.size
<1>1. /\ p \in Nat /\ q \in Nat /\ r \in Nat /\ s \in Nat
      /\ p <= q /\ r <= s /\ q <= Len(a) /\ s <= Len(b)
  BY WindowsAreWindows DEF IsWindow, AreBounds
<1>2. /\ f \in Nat /\ t \in Nat /\ n \in Nat /\ n > 0
      /\ p <= f /\ f + n <= q /\ r <= t /\ t + n <= s
  BY DEF IsMatch, MatchRecords
<1>3. /\ LeftWindow(w, m) = <<p, f, r, t>> /\ RightWindow(w, m) = <<f + n, q, t + n, s>>
      /\ Extent(w) = q - p + s - r
  BY DEF LeftWindow, RightWindow, Extent
<1> HIDE DEF p, q, r, s, f, t, n
<1>4. /\ f \in 0 .. Len(a) /\ f + n \in 0 .. Len(a)
      /\ t \in 0 .. Len(b) /\ t + n \in 0 .. Len(b)
      /\ f - p + t - r < q - p + s - r
      /\ q - (f + n) + s - (t + n) < q - p + s - r
  BY <1>1, <1>2, SmallerBounds
<1>5. <<p, f, r, t>> \in Windows(a, b) /\ Extent(<<p, f, r, t>>) = f - p + t - r
  BY <1>1, <1>2, <1>4, BoundsOfAWindow
<1>6. /\ <<f + n, q, t + n, s>> \in Windows(a, b)
      /\ Extent(<<f + n, q, t + n, s>>) = q - (f + n) + s - (t + n)
  <2> DEFINE x == f + n
             y == t + n
  <2>1. x \in Nat /\ y \in Nat /\ x <= q /\ y <= s
    BY <1>2, <1>1
  <2> HIDE DEF x, y
  <2>2. <<x, q, y, s>> \in Windows(a, b) /\ Extent(<<x, q, y, s>>) = q - x + s - y
    BY <1>1, <2>1, BoundsOfAWindow
  <2> QED
    BY <2>2 DEF x, y
<1> QED
  BY <1>3, <1>4, <1>5, <1>6

\* How large a window is, is a natural number.
LEMMA ExtentIsNatural ==
  ASSUME NEW a, NEW b, Len(a) \in Nat, Len(b) \in Nat, NEW w \in Windows(a, b)
  PROVE  Extent(w) \in Nat /\ Extent(w) <= Len(a) + Len(b)
BY WindowsAreWindows DEF Extent, IsWindow, AreBounds

\* The longest match of a window of the texts lies in the window.
LEMMA LongestMatchInWindow ==
  ASSUME NEW a, NEW b, NEW junk, Len(a) \in Nat, Len(b) \in Nat, NEW w \in Windows(a, b)
  PROVE  LET m == LongestMatch(a, b, junk, w)
         IN IsMatch(a, b, w, m) /\ m.size \in Nat /\ (m.size = 0 => HasNothingCommon(a, b, junk, w))
BY WindowsAreWindows, LongestMatchIsRight DEF IsMatch, MatchRecords

\* Functions that agree on the smaller windows have the same matches.
LEMMA SameMatches ==
  ASSUME NEW a, NEW b, NEW junk, Len(a) \in Nat, Len(b) \in Nat, NEW w \in Windows(a, b),
         NEW g, NEW h, \A x \in Windows(a, b) : Extent(x) < Extent(w) => g[x] = h[x]
  PROVE  MatchesAt(a, b, junk, g, w) = MatchesAt(a, b, junk, h, w)
<1> DEFINE m == LongestMatch(a, b, junk, w)
           Smaller == {y \in {LeftWindow(w, m), RightWindow(w, m)} : IsOpen(y)}
<1>1. CASE m.size > 0
  <2>1. \A x \in Smaller : g[x] = h[x]
    BY <1>1, SmallerWindows, LongestMatchInWindow
  <2>2. {g[x] : x \in Smaller} = {h[x] : x \in Smaller}
    BY <2>1
  <2>3. {n \in {m} : n.size > 0} = {m}
    BY <1>1
  <2>4. /\ MatchesAt(a, b, junk, g, w) = UNION {{m} \cup UNION {g[x] : x \in Smaller}}
        /\ MatchesAt(a, b, junk, h, w) = UNION {{m} \cup UNION {h[x] : x \in Smaller}}
    BY <2>3 DEF MatchesAt
  <2> QED
    BY <2>2, <2>4
<1>2. CASE ~(m.size > 0)
  <2>1. {n \in {m} : n.size > 0} = {}
    BY <1>2
  <2> QED
    BY <2>1 DEF MatchesAt
<1> QED
  BY <1>1, <1>2

\* The matches of every window are defined: by induction over its extent.
LEMMA MatchesInExist ==
  ASSUME NEW a, NEW b, NEW junk, Len(a) \in Nat, Len(b) \in Nat
  PROVE  \E g : AreMatchesIn(a, b, junk, g)
<1> DEFINE D == Windows(a, b)
           R(g) == [w \in D |-> MatchesAt(a, b, junk, g, w)]
           IsRight(g, k) == \A w \in D : Extent(w) < k => g[w] = MatchesAt(a, b, junk, g, w)
           G == {k \in Nat : \E g : IsRight(g, k)}
<1>1. 0 \in G
  <2>1. IsRight(<<>>, 0)
    BY ExtentIsNatural
  <2> HIDE DEF IsRight
  <2> QED
    BY <2>1
<1>2. ASSUME NEW k \in Nat, k \in G
      PROVE  k + 1 \in G
  <2>1. PICK g : IsRight(g, k)
    BY <1>2
  <2>2. \A w \in D : R(g)[w] = MatchesAt(a, b, junk, g, w)
    OBVIOUS
  <2> DEFINE h == R(g)
  <2> HIDE DEF h
  <2>3. ASSUME NEW w \in D, Extent(w) < k + 1
        PROVE  h[w] = MatchesAt(a, b, junk, h, w)
    <3>1. \A x \in D : Extent(x) < Extent(w) => g[x] = h[x]
      <4> SUFFICES ASSUME NEW x \in D, Extent(x) < Extent(w)
                   PROVE  g[x] = h[x]
        OBVIOUS
      <4>1. Extent(x) < k
        BY <2>3, ExtentIsNatural
      <4>2. g[x] = MatchesAt(a, b, junk, g, x)
        BY <4>1, <2>1
      <4> QED
        BY <4>2, <2>2 DEF h
    <3>2. MatchesAt(a, b, junk, g, w) = MatchesAt(a, b, junk, h, w)
      BY <3>1, SameMatches
    <3> QED
      BY <3>2, <2>2 DEF h
  <2>4. IsRight(h, k + 1)
    BY <2>3
  <2> HIDE DEF IsRight
  <2> QED
    BY <2>4
<1>3. PICK g : IsRight(g, Len(a) + Len(b) + 1)
  <2> HIDE DEF G
  <2>1. Nat \subseteq G
    BY <1>1, <1>2, Induction
  <2>2. Len(a) + Len(b) + 1 \in G
    BY <2>1
  <2> QED
    BY <2>2 DEF G
<1>4. \A w \in D : g[w] = MatchesAt(a, b, junk, g, w)
  BY <1>3, ExtentIsNatural
<1> DEFINE h == R(g)
<1>5. \A w \in D : h[w] = g[w]
  BY <1>4
<1>6. \A w \in D : MatchesAt(a, b, junk, g, w) = MatchesAt(a, b, junk, h, w)
  <2> HIDE DEF h
  <2> QED
    BY <1>5, SameMatches
<1>7. h = [w \in D |-> MatchesAt(a, b, junk, h, w)]
  <2>1. h = [w \in D |-> MatchesAt(a, b, junk, g, w)]
    OBVIOUS
  <2> HIDE DEF h
  <2> QED
    BY <2>1, <1>6
<1> HIDE DEF h
<1> QED
  BY <1>7 DEF AreMatchesIn

\* So they are what MatchesIn chooses.
LEMMA MatchesInEquation ==
  ASSUME NEW a, NEW b, NEW junk, Len(a) \in Nat, Len(b) \in Nat
  PROVE  AreMatchesIn(a, b, junk, MatchesIn(a, b, junk))
<1>1. MatchesIn(a, b, junk) = CHOOSE g : AreMatchesIn(a, b, junk, g)
  BY DEF MatchesIn, AreMatchesIn, MatchesAt
<1>2. \E g : AreMatchesIn(a, b, junk, g)
  BY MatchesInExist
<1> QED
  BY <1>1, <1>2, Zenon

-----------------------------------------------------------------------------
IsBefore(m, n) == m.from + m.size <= n.from /\ m.to + m.size <= n.to
\* Both positions are before a match, or both are after it.
IsBeside(m, i, j) ==
  (i < m.from /\ j < m.to) \/ (i >= m.from + m.size /\ j >= m.to + m.size)
AreMatches(a, b, junk, w, S) ==
  /\ \A m \in S : IsMatch(a, b, w, m) /\ m.size > 0
  /\ \A m, n \in S : m = n \/ IsBefore(m, n) \/ IsBefore(n, m)
  /\ \A i \in w[1] .. w[2] - 1, j \in w[3] .. w[4] - 1 :
       At(a, i) = At(b, j) /\ At(b, j) \notin junk => \E m \in S : ~IsBeside(m, i, j)

\* The matches before a match, the match and those after it are the matches of
\* the window.
LEMMA MatchesOfSides ==
  ASSUME NEW a, NEW b, NEW junk, NEW w, IsWindow(w),
         NEW m, IsMatch(a, b, w, m), m.size > 0,
         NEW L, IF IsOpen(LeftWindow(w, m)) THEN AreMatches(a, b, junk, LeftWindow(w, m), L)
                                           ELSE L = {},
         NEW R, IF IsOpen(RightWindow(w, m)) THEN AreMatches(a, b, junk, RightWindow(w, m), R)
                                            ELSE R = {}
  PROVE  AreMatches(a, b, junk, w, L \cup {m} \cup R)
<1>1. /\ w[1] \in Nat /\ w[2] \in Nat /\ w[3] \in Nat /\ w[4] \in Nat
      /\ m.from \in Nat /\ m.to \in Nat /\ m.size \in Nat
      /\ w[1] <= m.from /\ m.from + m.size <= w[2]
      /\ w[3] <= m.to /\ m.to + m.size <= w[4]
  BY DEF IsWindow, AreBounds, IsMatch, MatchRecords
<1>2. \A n \in L : IsMatch(a, b, w, n) /\ n.size > 0 /\ IsBefore(n, m)
  <2> SUFFICES ASSUME NEW n \in L
               PROVE  IsMatch(a, b, w, n) /\ n.size > 0 /\ IsBefore(n, m)
    OBVIOUS
  <2>1. IsMatch(a, b, LeftWindow(w, m), n) /\ n.size > 0
    BY DEF AreMatches
  <2> QED
    BY <1>1, <2>1 DEF IsMatch, LeftWindow, IsBefore, MatchRecords
<1>3. \A n \in R : IsMatch(a, b, w, n) /\ n.size > 0 /\ IsBefore(m, n)
  <2> SUFFICES ASSUME NEW n \in R
               PROVE  IsMatch(a, b, w, n) /\ n.size > 0 /\ IsBefore(m, n)
    OBVIOUS
  <2>1. IsMatch(a, b, RightWindow(w, m), n) /\ n.size > 0
    BY DEF AreMatches
  <2> QED
    BY <1>1, <2>1 DEF IsMatch, RightWindow, IsBefore, MatchRecords
<1>4. /\ \A x, y \in L : x = y \/ IsBefore(x, y) \/ IsBefore(y, x)
      /\ \A x, y \in R : x = y \/ IsBefore(x, y) \/ IsBefore(y, x)
  BY DEF AreMatches
<1>5. \A x \in L, y \in R : IsBefore(x, y)
  <2> SUFFICES ASSUME NEW x \in L, NEW y \in R
               PROVE  IsBefore(x, y)
    OBVIOUS
  <2>1. IsBefore(x, m) /\ IsBefore(m, y) /\ IsMatch(a, b, w, x) /\ IsMatch(a, b, w, y)
    BY <1>2, <1>3
  <2> QED
    BY <2>1, <1>1 DEF IsBefore, IsMatch, MatchRecords
<1>6. \A x, y \in L \cup {m} \cup R : x = y \/ IsBefore(x, y) \/ IsBefore(y, x)
  BY <1>2, <1>3, <1>4, <1>5
<1>7. ASSUME NEW i \in w[1] .. w[2] - 1, NEW j \in w[3] .. w[4] - 1,
             At(a, i) = At(b, j), At(b, j) \notin junk
      PROVE  \E n \in L \cup {m} \cup R : ~IsBeside(n, i, j)
  <2>1. CASE i < m.from /\ j < m.to
    <3> DEFINE v == LeftWindow(w, m)
    <3>1. IsOpen(v) /\ i \in v[1] .. v[2] - 1 /\ j \in v[3] .. v[4] - 1
      BY <2>1, <1>1 DEF IsOpen, LeftWindow
    <3>2. AreMatches(a, b, junk, v, L)
      BY <3>1
    <3> HIDE DEF v
    <3> QED
      BY <3>1, <3>2, <1>7 DEF AreMatches
  <2>2. CASE i >= m.from + m.size /\ j >= m.to + m.size
    <3> DEFINE v == RightWindow(w, m)
    <3>1. IsOpen(v) /\ i \in v[1] .. v[2] - 1 /\ j \in v[3] .. v[4] - 1
      BY <2>2, <1>1 DEF IsOpen, RightWindow
    <3>2. AreMatches(a, b, junk, v, R)
      BY <3>1
    <3> HIDE DEF v
    <3> QED
      BY <3>1, <3>2, <1>7 DEF AreMatches
  <2>3. CASE ~IsBeside(m, i, j)
    BY <2>3
  <2> QED
    BY <2>1, <2>2, <2>3 DEF IsBeside
<1> QED
  BY <1>2, <1>3, <1>6, <1>7 DEF AreMatches

\* Windows that have nothing in common have no matches.
LEMMA NoMatches ==
  ASSUME NEW a, NEW b, NEW junk, NEW w, HasNothingCommon(a, b, junk, w)
  PROVE  AreMatches(a, b, junk, w, {})
BY DEF AreMatches, HasNothingCommon

\* cut_sequence_matcher_get_matches(): no two of its matches overlap or cross,
\* and what is common and no junk is not left between them.
LEMMA MatchesInAreMatches ==
  ASSUME NEW a, NEW b, NEW junk, Len(a) \in Nat, Len(b) \in Nat, NEW w \in Windows(a, b)
  PROVE  AreMatches(a, b, junk, w, MatchesIn(a, b, junk)[w])
<1> DEFINE D == Windows(a, b)
           g == MatchesIn(a, b, junk)
           G == {k \in Nat : \A v \in D : Extent(v) < k => AreMatches(a, b, junk, v, g[v])}
<1>1. \A v \in D : g[v] = MatchesAt(a, b, junk, g, v)
  BY MatchesInEquation DEF AreMatchesIn
<1> HIDE DEF g
<1>2. 0 \in G
  BY ExtentIsNatural
<1>3. ASSUME NEW k \in Nat, k \in G
      PROVE  k + 1 \in G
  <2> SUFFICES ASSUME NEW v \in D, Extent(v) < k + 1
               PROVE  AreMatches(a, b, junk, v, g[v])
    OBVIOUS
  <2> DEFINE m == LongestMatch(a, b, junk, v)
             l == LeftWindow(v, m)
             r == RightWindow(v, m)
  <2>1. IsMatch(a, b, v, m) /\ m.size \in Nat /\ (m.size = 0 => HasNothingCommon(a, b, junk, v))
    BY LongestMatchInWindow
  <2>2. CASE m.size = 0
    <3>1. {n \in {m} : n.size > 0} = {}
      BY <2>2
    <3>2. g[v] = {}
      BY <1>1, <3>1 DEF MatchesAt
    <3> QED
      BY <3>2, <2>1, <2>2, NoMatches
  <2>3. CASE m.size > 0
    <3> DEFINE L == IF IsOpen(l) THEN g[l] ELSE {}
               R == IF IsOpen(r) THEN g[r] ELSE {}
    <3>1. {n \in {m} : n.size > 0} = {m}
      BY <2>3
    <3>2. g[v] = UNION {{m} \cup UNION {g[x] : x \in {y \in {l, r} : IsOpen(y)}}}
      BY <1>1, <3>1 DEF MatchesAt
    <3>3. l \in D /\ r \in D /\ Extent(l) < Extent(v) /\ Extent(r) < Extent(v) /\ IsWindow(v)
      BY <2>1, <2>3, SmallerWindows, WindowsAreWindows
    <3>4. Extent(l) < k /\ Extent(r) < k
      BY <3>3, ExtentIsNatural
    <3>5. AreMatches(a, b, junk, l, g[l]) /\ AreMatches(a, b, junk, r, g[r])
      BY <3>3, <3>4, <1>3
    <3> HIDE DEF m
    <3>6. g[v] = L \cup {m} \cup R
      <4> HIDE DEF l, r
      <4> QED
        BY <3>2
    <3>7. AreMatches(a, b, junk, v, L \cup {m} \cup R)
      <4>1. /\ IF IsOpen(l) THEN AreMatches(a, b, junk, l, L) ELSE L = {}
            /\ IF IsOpen(r) THEN AreMatches(a, b, junk, r, R) ELSE R = {}
        BY <3>5
      <4> HIDE DEF L, R
      <4> QED
        BY <4>1, <3>3, <2>1, <2>3, MatchesOfSides
    <3> QED
      BY <3>6, <3>7
  <2> QED
    BY <2>1, <2>2, <2>3
<1>4. Extent(w) + 1 \in G
  <2> HIDE DEF G
  <2>1. Nat \subseteq G
    BY <1>2, <1>3, Induction
  <2> QED
    BY <2>1, ExtentIsNatural
<1> QED
  BY <1>4, ExtentIsNatural DEF g

-----------------------------------------------------------------------------
WholeWindow(a, b) == <<0, Len(a), 0, Len(b)>>

\* The texts are a window.
LEMMA WholeIsAWindow ==
  ASSUME NEW a, NEW b, Len(a) \in Nat, Len(b) \in Nat
  PROVE  WholeWindow(a, b) \in Windows(a, b)
BY DEF WholeWindow, Windows

IsIncreasing(list, k) == \A i, j \in 1 .. k : i < j => list[i].from < list[j].from

\* A finite set of records that begin at different places can be sorted.
LEMMA SortedExists ==
  ASSUME NEW S \in SUBSET MatchRecords, IsFiniteSet(S),
         \A m, n \in S : m.from = n.from => m = n,
         NEW N \in Nat, \A m \in S : m.from <= N
  PROVE  \E list \in [1 .. Cardinality(S) -> S] : IsIncreasing(list, Cardinality(S))
<1> DEFINE G == {k \in Nat : \A T \in SUBSET S : Cardinality(T) = k =>
                               \E list \in [1 .. k -> T] : IsIncreasing(list, k)}
<1>1. 0 \in G
  <2> DEFINE none == [i \in 1 .. 0 |-> 0]
  <2>1. \A T : none \in [1 .. 0 -> T]
    OBVIOUS
  <2> HIDE DEF none
  <2>2. IsIncreasing(none, 0)
    BY DEF IsIncreasing
  <2>3. \A T : \E list \in [1 .. 0 -> T] : IsIncreasing(list, 0)
    BY <2>1, <2>2, Zenon
  <2> QED
    BY <2>3
<1>2. ASSUME NEW k \in Nat, k \in G
      PROVE  k + 1 \in G
  <2> SUFFICES ASSUME NEW T \in SUBSET S, Cardinality(T) = k + 1
               PROVE  \E list \in [1 .. k + 1 -> T] : IsIncreasing(list, k + 1)
    OBVIOUS
  <2>1. IsFiniteSet(T) /\ T # {}
    BY FS_Subset, FS_EmptySet
  <2> DEFINE Froms == {m.from : m \in T}
  <2>2. PICK f \in Froms : \A g \in Froms : g <= f
    <3>1. Froms \in SUBSET Nat /\ Froms # {} /\ \A g \in Froms : g <= N
      BY <2>1 DEF MatchRecords
    <3> HIDE DEF Froms
    <3> QED
      BY <3>1, GreatestNatural
  <2>3. PICK m \in T : m.from = f
    BY <2>2
  <2>4. Cardinality(T \ {m}) = k
    <3>1. IsFiniteSet(T) /\ m \in T /\ Cardinality(T) = k + 1
      BY <2>1
    <3> HIDE DEF G, Froms
    <3>2. Cardinality(T \ {m}) = IF m \in T THEN Cardinality(T) - 1 ELSE Cardinality(T)
      BY <3>1, FS_RemoveElement, Zenon
    <3> QED
      BY <3>1, <3>2
  <2>5. PICK list \in [1 .. k -> T \ {m}] : IsIncreasing(list, k)
    BY <2>4, <1>2
  <2>6. \A i \in 1 .. k : list[i] \in T /\ list[i].from < m.from
    <3> SUFFICES ASSUME NEW i \in 1 .. k
                 PROVE  list[i].from < m.from
      OBVIOUS
    <3>1. list[i] \in T /\ list[i] # m
      OBVIOUS
    <3>2. list[i].from <= f /\ list[i].from # m.from
      BY <3>1, <2>2
    <3>3. list[i].from \in Nat /\ m.from \in Nat
      BY <3>1 DEF MatchRecords
    <3> QED
      BY <3>2, <3>3, <2>3
  <2> DEFINE new == [i \in 1 .. k + 1 |-> IF i <= k THEN list[i] ELSE m]
  <2>7. new \in [1 .. k + 1 -> T]
    BY <2>6
  <2>8. ASSUME NEW i \in 1 .. k + 1, NEW j \in 1 .. k + 1, i < j
        PROVE  new[i].from < new[j].from
    <3>1. i \in 1 .. k /\ new[i] = list[i]
      BY <2>8
    <3>2. CASE j <= k
      <4>1. j \in 1 .. k /\ new[j] = list[j]
        BY <3>2
      <4> HIDE DEF new
      <4> QED
        BY <3>1, <4>1, <2>5, <2>8 DEF IsIncreasing
    <3>3. CASE ~(j <= k)
      <4>1. new[j] = m
        BY <3>3
      <4> HIDE DEF new
      <4> QED
        BY <3>1, <4>1, <2>6
    <3> QED
      BY <3>2, <3>3
  <2>9. IsIncreasing(new, k + 1)
    BY <2>8 DEF IsIncreasing
  <2> HIDE DEF new
  <2> QED
    BY <2>7, <2>9
<1>3. Cardinality(S) \in G
  <2> HIDE DEF G
  <2>1. Nat \subseteq G
    BY <1>1, <1>2, Induction
  <2> QED
    BY <2>1, FS_CardinalityType
<1> QED
  BY <1>3

\* Sorting keeps what is sorted.
LEMMA SortedIsSorted ==
  ASSUME NEW S \in SUBSET MatchRecords, NEW N \in Nat, \A m \in S : m.from <= N,
         \A m, n \in S : m.from = n.from => m = n
  PROVE  /\ Sorted(S) \in Seq(MatchRecords) /\ Len(Sorted(S)) \in Nat
         /\ \A i \in 1 .. Len(Sorted(S)) : Sorted(S)[i] \in S
         /\ \A m \in S : \E i \in 1 .. Len(Sorted(S)) : Sorted(S)[i] = m
         /\ IsIncreasing(Sorted(S), Len(Sorted(S)))
<1> DEFINE f == [m \in S |-> m.from]
           n == Cardinality(S)
           list == Sorted(S)
<1>1. IsFiniteSet(S)
  <2>1. f \in [S -> 0 .. N] /\ \A x, y \in S : f[x] = f[y] => x = y
    BY DEF MatchRecords
  <2>2. f \in Injection(S, 0 .. N)
    BY <2>1, Fun_IsInj
  <2>3. IsFiniteSet(0 .. N)
    BY FS_Interval
  <2> QED
    BY <2>2, <2>3, FS_Injection
<1>2. n \in Nat
  BY <1>1, FS_CardinalityType
<1>3. \E x \in [1 .. n -> S] : IsIncreasing(x, n)
  BY <1>1, SortedExists
<1>4. \A x \in [1 .. n -> S] : IsIncreasing(x, n) <=>
        \A i, j \in DOMAIN x : i < j => x[i].from < x[j].from
  BY DEF IsIncreasing
<1>5. list = CHOOSE x \in [1 .. n -> S] : \A i, j \in DOMAIN x : i < j => x[i].from < x[j].from
  BY DEF Sorted
<1>6. list \in [1 .. n -> S] /\ IsIncreasing(list, n)
  <2> HIDE DEF list, n
  <2> QED
    BY <1>3, <1>4, <1>5
<1> HIDE DEF list, n
<1>7. list \in Seq(MatchRecords) /\ Len(list) = n
  <2>1. list \in [1 .. n -> MatchRecords]
    BY <1>6
  <2>2. list \in Seq(MatchRecords)
    BY <2>1, <1>2, SeqDef
  <2>3. DOMAIN list = 1 .. n /\ DOMAIN list = 1 .. Len(list) /\ Len(list) \in Nat
    BY <1>6, <2>2, LenProperties
  <2> QED
    BY <2>2, <2>3, <1>2
<1>8. \A i, j \in 1 .. n : list[i] = list[j] => i = j
  <2> SUFFICES ASSUME NEW i \in 1 .. n, NEW j \in 1 .. n, list[i] = list[j], i < j
               PROVE  FALSE
    BY <1>2
  <2>1. list[i].from < list[j].from /\ list[i].from \in Nat
    BY <1>6 DEF IsIncreasing, MatchRecords
  <2> QED
    BY <2>1
<1>9. \A m \in S : \E i \in 1 .. n : list[i] = m
  <2>1. list \in Injection(1 .. n, S)
    BY <1>6, <1>8, Fun_IsInj
  <2>2. Cardinality(1 .. n) = Cardinality(S)
    BY <1>2, FS_Interval DEF n
  <2>3. list \in Surjection(1 .. n, S)
    BY <2>1, <2>2, <1>1, FS_Injection
  <2> QED
    BY <2>3 DEF Surjection
<1> QED
  BY <1>2, <1>6, <1>7, <1>9 DEF list

-----------------------------------------------------------------------------
\* The pair of positions is equal, and no junk.
IsCommon(a, b, junk, i, j) == At(a, i) = At(b, j) /\ At(b, j) \notin junk

\* A list of matches, in order: what is common is not between them.
AreInOrder(a, b, junk, list) ==
  /\ list \in Seq(MatchRecords)
  /\ \A k \in 1 .. Len(list) : IsMatch(a, b, WholeWindow(a, b), list[k])
  /\ \A k, l \in 1 .. Len(list) : k < l => IsBefore(list[k], list[l])
  /\ \A i \in 0 .. Len(a) - 1, j \in 0 .. Len(b) - 1 :
       IsCommon(a, b, junk, i, j) => \E k \in 1 .. Len(list) : ~IsBeside(list[k], i, j)

\* The sorted list has the matches in the order of both texts.
LEMMA GetMatchesIsRight ==
  ASSUME NEW a, NEW b, NEW junk, Len(a) \in Nat, Len(b) \in Nat
  PROVE  /\ AreInOrder(a, b, junk, GetMatches(a, b, junk))
         /\ \A k \in 1 .. Len(GetMatches(a, b, junk)) : GetMatches(a, b, junk)[k].size > 0
<1> DEFINE w == WholeWindow(a, b)
           S == MatchesIn(a, b, junk)[w]
           list == GetMatches(a, b, junk)
<1>1. list = Sorted(S)
  BY DEF GetMatches, WholeWindow
<1>2. w \in Windows(a, b)
  BY WholeIsAWindow
<1>3. /\ \A m \in S : IsMatch(a, b, w, m) /\ m.size > 0
      /\ \A m, n \in S : m = n \/ IsBefore(m, n) \/ IsBefore(n, m)
      /\ \A i \in w[1] .. w[2] - 1, j \in w[3] .. w[4] - 1 :
           At(a, i) = At(b, j) /\ At(b, j) \notin junk => \E m \in S : ~IsBeside(m, i, j)
  BY <1>2, MatchesInAreMatches DEF AreMatches
<1>4. w[1] = 0 /\ w[2] = Len(a) /\ w[3] = 0 /\ w[4] = Len(b)
  BY DEF WholeWindow
<1> HIDE DEF S, w, list
<1>5. S \in SUBSET MatchRecords /\ \A m \in S : m.from <= Len(a) /\ m.size > 0
  BY <1>3, <1>4 DEF IsMatch, MatchRecords
<1>6. \A m, n \in S : m.from = n.from => m = n
  <2> SUFFICES ASSUME NEW m \in S, NEW n \in S, m.from = n.from, IsBefore(m, n) \/ IsBefore(n, m)
               PROVE  FALSE
    BY <1>3
  <2>1. m \in MatchRecords /\ n \in MatchRecords /\ m.size > 0 /\ n.size > 0
    BY <1>5
  <2> QED
    BY <2>1 DEF IsBefore, MatchRecords
<1>7. /\ list \in Seq(MatchRecords) /\ Len(list) \in Nat
      /\ \A i \in 1 .. Len(list) : list[i] \in S
      /\ \A m \in S : \E i \in 1 .. Len(list) : list[i] = m
      /\ IsIncreasing(list, Len(list))
  BY <1>1, <1>5, <1>6, SortedIsSorted
<1>8. ASSUME NEW k \in 1 .. Len(list), NEW l \in 1 .. Len(list), k < l
      PROVE  IsBefore(list[k], list[l])
  <2>1. list[k].from < list[l].from
    BY <1>7, <1>8 DEF IsIncreasing
  <2>2. list[k] \in S /\ list[l] \in S
    BY <1>7
  <2>3. list[k] \in MatchRecords /\ list[l] \in MatchRecords
    BY <2>2, <1>5
  <2>4. ~IsBefore(list[l], list[k]) /\ list[k] # list[l]
    BY <2>1, <2>3 DEF IsBefore, MatchRecords
  <2> QED
    BY <2>2, <2>4, <1>3
<1>9. \A i \in 0 .. Len(a) - 1, j \in 0 .. Len(b) - 1 :
        IsCommon(a, b, junk, i, j) => \E k \in 1 .. Len(list) : ~IsBeside(list[k], i, j)
  BY <1>3, <1>4, <1>7 DEF IsCommon
<1> QED
  BY <1>3, <1>7, <1>8, <1>9 DEF AreInOrder, list, w

-----------------------------------------------------------------------------
\* Matches that are not empty, in order.
AreOrdered(a, b, list) ==
  /\ list \in Seq(MatchRecords)
  /\ \A k \in 1 .. Len(list) : IsMatch(a, b, WholeWindow(a, b), list[k]) /\ list[k].size > 0
  /\ \A k, l \in 1 .. Len(list) : k < l => IsBefore(list[k], list[l])
Holds(list, i, j) == \E k \in 1 .. Len(list) : ~IsBeside(list[k], i, j)
EndsBy(list, m) ==
  \A k \in 1 .. Len(list) :
    list[k].from + list[k].size <= m.from + m.size /\ list[k].to + list[k].size <= m.to + m.size

\* A match and one that touches it are one match.
LEMMA GrownMatch ==
  ASSUME NEW a, NEW b, NEW w, NEW m, IsMatch(a, b, w, m), m.size > 0,
         NEW n, IsMatch(a, b, w, n), n.size > 0, Touches(m, n)
  PROVE  LET g == [m EXCEPT !.size = @ + n.size]
         IN /\ g \in MatchRecords /\ g.from = m.from /\ g.to = m.to /\ g.size = m.size + n.size
            /\ IsMatch(a, b, w, g) /\ g.size > 0
            /\ g.from + g.size = n.from + n.size /\ g.to + g.size = n.to + n.size
            /\ \A i, j \in Int : IsBeside(g, i, j) => IsBeside(m, i, j) /\ IsBeside(n, i, j)
<1> DEFINE g == [m EXCEPT !.size = @ + n.size]
<1>1. m \in MatchRecords /\ n \in MatchRecords
  BY DEF IsMatch
<1>2. g \in MatchRecords /\ g.from = m.from /\ g.to = m.to /\ g.size = m.size + n.size
  BY <1>1 DEF MatchRecords
<1>3. /\ m.from \in Nat /\ m.to \in Nat /\ m.size \in Nat
      /\ n.from \in Nat /\ n.to \in Nat /\ n.size \in Nat
  BY <1>1 DEF MatchRecords
<1>4. m.from + m.size = n.from /\ m.to + m.size = n.to
  BY DEF Touches
<1> HIDE DEF g
<1>5. ASSUME NEW d \in 0 .. g.size - 1
      PROVE  At(a, g.from + d) = At(b, g.to + d)
  <2>1. CASE d < m.size
    <3>1. d \in 0 .. m.size - 1
      BY <2>1, <1>3
    <3> QED
      BY <3>1, <1>2 DEF IsMatch
  <2>2. CASE ~(d < m.size)
    <3>1. /\ d - m.size \in 0 .. n.size - 1
          /\ n.from + (d - m.size) = g.from + d /\ n.to + (d - m.size) = g.to + d
      BY <2>2, <1>2, <1>3, <1>4
    <3>2. At(a, n.from + (d - m.size)) = At(b, n.to + (d - m.size))
      BY <3>1 DEF IsMatch
    <3> QED
      BY <3>1, <3>2
  <2> QED
    BY <2>1, <2>2
<1>6. IsMatch(a, b, w, g)
  <2>1. /\ w[1] <= m.from /\ n.from + n.size <= w[2]
        /\ w[3] <= m.to /\ n.to + n.size <= w[4]
    BY DEF IsMatch
  <2>2. g.from + g.size = n.from + n.size /\ g.to + g.size = n.to + n.size
    BY <1>2, <1>3, <1>4
  <2> QED
    BY <1>2, <1>5, <2>1, <2>2 DEF IsMatch
<1>7. g.size > 0 /\ g.from + g.size = n.from + n.size /\ g.to + g.size = n.to + n.size
  BY <1>2, <1>3, <1>4
<1>8. ASSUME NEW i \in Int, NEW j \in Int, IsBeside(g, i, j)
      PROVE  IsBeside(m, i, j) /\ IsBeside(n, i, j)
  BY <1>2, <1>3, <1>4, <1>7, <1>8 DEF IsBeside
<1> QED
  BY <1>2, <1>6, <1>7, <1>8 DEF g

\* A list of blocks with the next match is one.
LEMMA WithMatchIsOrdered ==
  ASSUME NEW a, NEW b, Len(a) \in Nat, Len(b) \in Nat,
         NEW list, AreOrdered(a, b, list),
         NEW m, IsMatch(a, b, WholeWindow(a, b), m), m.size > 0,
         \A k \in 1 .. Len(list) : IsBefore(list[k], m)
  PROVE  /\ AreOrdered(a, b, WithMatch(list, m)) /\ EndsBy(WithMatch(list, m), m)
         /\ Len(WithMatch(list, m)) \in Nat
         /\ \A i, j \in Int : (~IsBeside(m, i, j) \/ Holds(list, i, j))
                               => Holds(WithMatch(list, m), i, j)
<1> DEFINE w == WholeWindow(a, b)
           n == Len(list)
           new == WithMatch(list, m)
<1>1. list \in Seq(MatchRecords) /\ m \in MatchRecords
  BY DEF AreOrdered, IsMatch
<1>2. /\ \A k \in 1 .. n : IsMatch(a, b, w, list[k]) /\ list[k].size > 0
      /\ \A k, l \in 1 .. n : k < l => IsBefore(list[k], list[l])
  BY DEF AreOrdered
<1>3. n \in Nat /\ \A k \in 1 .. n : list[k] \in MatchRecords
  BY <1>1, LenProperties, ElementOfSeq
<1>4. CASE list # <<>> /\ Touches(Last(list), m)
  <2> DEFINE g == [list[n] EXCEPT !.size = @ + m.size]
  <2>1. n \in 1 .. n
    BY <1>1, <1>3, <1>4, EmptySeq
  <2>2. new = [list EXCEPT ![n] = g]
    BY <1>4, <2>1 DEF WithMatch
  <2>3. /\ g \in MatchRecords /\ g.from = list[n].from /\ g.to = list[n].to
        /\ IsMatch(a, b, w, g) /\ g.size > 0
        /\ g.from + g.size = m.from + m.size /\ g.to + g.size = m.to + m.size
        /\ \A i, j \in Int : IsBeside(g, i, j) => IsBeside(list[n], i, j) /\ IsBeside(m, i, j)
    BY <1>2, <1>4, <2>1, GrownMatch DEF Last
  <2> HIDE DEF g, new
  <2>4. new \in Seq(MatchRecords) /\ Len(new) = n
        /\ \A k \in 1 .. n : new[k] = IF k = n THEN g ELSE list[k]
    BY <1>1, <2>1, <2>2, <2>3, ExceptSeq
  <2>5. \A k \in 1 .. n : IsMatch(a, b, w, new[k]) /\ new[k].size > 0
    BY <2>3, <2>4, <1>2
  <2>6. ASSUME NEW k \in 1 .. n, NEW l \in 1 .. n, k < l
        PROVE  IsBefore(new[k], new[l])
    <3>1. new[k] = list[k] /\ IsBefore(list[k], list[l])
      BY <2>4, <2>6, <1>2, <1>3
    <3>2. new[l].from = list[l].from /\ new[l].to = list[l].to
      BY <2>3, <2>4
    <3> QED
      BY <3>1, <3>2 DEF IsBefore
  <2>7. ASSUME NEW k \in 1 .. n
        PROVE  /\ new[k].from + new[k].size <= m.from + m.size
               /\ new[k].to + new[k].size <= m.to + m.size
    <3>1. CASE k = n
      <4>1. new[k] = g
        BY <3>1, <2>4
      <4>2. m.from + m.size \in Nat /\ m.to + m.size \in Nat
        BY SMTT(30), <1>1 DEF MatchRecords
      <4> QED
        BY <4>1, <4>2, <2>3
    <3>2. CASE k # n
      <4>1. new[k] = list[k] /\ IsBefore(list[k], m) /\ list[k] \in MatchRecords
        BY <3>2, <2>4, <1>3
      <4>2. /\ list[k].from + list[k].size <= m.from
            /\ list[k].to + list[k].size <= m.to
        BY <4>1 DEF IsBefore
      <4>3. /\ m.from \in Nat /\ m.to \in Nat /\ m.size \in Nat
            /\ list[k].from + list[k].size \in Nat
            /\ list[k].to + list[k].size \in Nat
        BY SMTT(30), <4>1, <1>1 DEF MatchRecords
      <4>4. /\ list[k].from + list[k].size <= m.from + m.size
            /\ list[k].to + list[k].size <= m.to + m.size
        BY <4>2, <4>3
      <4> QED
        BY <4>1, <4>4
    <3> QED
      BY <3>1, <3>2
  <2>8. ASSUME NEW i \in Int, NEW j \in Int, ~IsBeside(m, i, j) \/ Holds(list, i, j)
        PROVE  Holds(new, i, j)
    <3>1. CASE ~IsBeside(m, i, j) \/ ~IsBeside(list[n], i, j)
      <4>1. ~IsBeside(new[n], i, j)
        BY <3>1, <2>1, <2>3, <2>4
      <4> QED
        BY <4>1, <2>1, <2>4 DEF Holds
    <3>2. ASSUME NEW k \in 1 .. n, ~IsBeside(list[k], i, j)
          PROVE  Holds(new, i, j)
      <4>1. CASE k = n
        BY <4>1, <3>1, <3>2
      <4>2. CASE k # n
        <5>1. ~IsBeside(new[k], i, j)
          BY <4>2, <3>2, <2>4
        <5> QED
          BY <5>1, <2>4 DEF Holds
      <4> QED
        BY <4>1, <4>2
    <3> QED
      BY <3>1, <3>2, <2>8 DEF Holds
  <2> QED
    BY <1>3, <2>4, <2>5, <2>6, <2>7, <2>8 DEF AreOrdered, EndsBy, new
<1>5. CASE ~(list # <<>> /\ Touches(Last(list), m))
  <2>1. new = Append(list, m)
    BY <1>5 DEF WithMatch
  <2> HIDE DEF new
  <2>2. /\ new \in Seq(MatchRecords) /\ Len(new) = n + 1
        /\ \A k \in 1 .. n : new[k] = list[k]
        /\ new[n + 1] = m
    BY <1>1, <2>1, AppendProperties
  <2>3. \A k \in 1 .. n + 1 : IsMatch(a, b, w, new[k]) /\ new[k].size > 0
    BY <2>2, <1>2, <1>3
  <2>4. ASSUME NEW k \in 1 .. n + 1, NEW l \in 1 .. n + 1, k < l
        PROVE  IsBefore(new[k], new[l])
    <3>1. k \in 1 .. n
      BY <2>4, <1>3
    <3>2. CASE l = n + 1
      BY <3>1, <3>2, <2>2
    <3>3. CASE l # n + 1
      BY <3>1, <3>3, <2>2, <2>4, <1>2, <1>3, SMTT(30)
    <3> QED
      BY <3>2, <3>3
  <2>5. ASSUME NEW k \in 1 .. n + 1
        PROVE  /\ new[k].from + new[k].size <= m.from + m.size
               /\ new[k].to + new[k].size <= m.to + m.size
    <3>1. CASE k = n + 1
      BY <3>1, <2>2, <1>1 DEF MatchRecords
    <3>2. CASE k # n + 1
      <4>1. new[k] = list[k] /\ IsBefore(list[k], m) /\ list[k] \in MatchRecords
        BY <3>2, <2>2, <1>3
      <4>2. /\ list[k].from + list[k].size <= m.from
            /\ list[k].to + list[k].size <= m.to
        BY <4>1 DEF IsBefore
      <4>3. /\ m.from \in Nat /\ m.to \in Nat /\ m.size \in Nat
            /\ list[k].from + list[k].size \in Nat
            /\ list[k].to + list[k].size \in Nat
        BY SMTT(30), <4>1, <1>1 DEF MatchRecords
      <4>4. /\ list[k].from + list[k].size <= m.from + m.size
            /\ list[k].to + list[k].size <= m.to + m.size
        BY <4>2, <4>3
      <4> QED
        BY <4>1, <4>4
    <3> QED
      BY <3>1, <3>2
  <2>6. ASSUME NEW i \in Int, NEW j \in Int, ~IsBeside(m, i, j) \/ Holds(list, i, j)
        PROVE  Holds(new, i, j)
    <3>1. CASE ~IsBeside(m, i, j)
      BY <3>1, <2>2, <1>3 DEF Holds
    <3>2. CASE Holds(list, i, j)
      <4>1. PICK k \in 1 .. n : ~IsBeside(list[k], i, j)
        BY <3>2 DEF Holds
      <4>2. k \in 1 .. n + 1 /\ ~IsBeside(new[k], i, j)
        BY <4>1, <2>2, <1>3
      <4> QED
        BY <4>2, <2>2 DEF Holds
    <3> QED
      BY <3>1, <3>2, <2>6
  <2> QED
    BY <1>3, <2>2, <2>3, <2>4, <2>5, <2>6 DEF AreOrdered, EndsBy, new
<1> QED
  BY <1>4, <1>5
-----------------------------------------------------------------------------
JoinedAt(ms, g, n) == IF n = 0 THEN <<>> ELSE WithMatch(g[n - 1], ms[n])
AreJoined(ms, g) == g = [n \in 0 .. Len(ms) |-> JoinedAt(ms, g, n)]

\* The blocks of the first matches are defined, for every number of them.
LEMMA JoinedExist ==
  ASSUME NEW ms, Len(ms) \in Nat
  PROVE  \E g : AreJoined(ms, g)
<1> DEFINE D == 0 .. Len(ms)
           R(g) == [n \in D |-> JoinedAt(ms, g, n)]
           IsRight(g, k) == \A n \in D : n < k => g[n] = JoinedAt(ms, g, n)
           G == {k \in Nat : \E g : IsRight(g, k)}
<1>1. 0 \in G
  <2>1. IsRight(<<>>, 0)
    OBVIOUS
  <2> HIDE DEF IsRight
  <2> QED
    BY <2>1
<1>2. ASSUME NEW k \in Nat, k \in G
      PROVE  k + 1 \in G
  <2>1. PICK g : IsRight(g, k)
    BY <1>2
  <2>2. ASSUME NEW n \in D, n < k + 1
        PROVE  JoinedAt(ms, g, n) = JoinedAt(ms, R(g), n)
    <3>1. CASE n = 0
      BY <3>1 DEF JoinedAt
    <3>2. CASE n # 0
      <4>1. n - 1 \in D /\ n - 1 < k
        BY <3>2, <2>2
      <4>2. g[n - 1] = R(g)[n - 1]
        BY <4>1, <2>1
      <4> QED
        BY <3>2, <4>2 DEF JoinedAt
    <3> QED
      BY <3>1, <3>2
  <2>3. IsRight(R(g), k + 1)
    BY <2>2
  <2> HIDE DEF IsRight, R
  <2> QED
    BY <2>3
<1>3. Len(ms) + 1 \in G
  <2> HIDE DEF G
  <2>1. Nat \subseteq G
    BY <1>1, <1>2, Induction
  <2> QED
    BY <2>1
<1>4. PICK g : IsRight(g, Len(ms) + 1)
  BY <1>3
<1>5. \A n \in D : g[n] = JoinedAt(ms, g, n)
  BY <1>4
<1>6. R(g) = R(R(g))
  <2>1. ASSUME NEW n \in D
        PROVE  JoinedAt(ms, g, n) = JoinedAt(ms, R(g), n)
    <3>1. CASE n = 0
      BY <3>1 DEF JoinedAt
    <3>2. CASE n # 0
      <4>1. n - 1 \in D
        BY <3>2
      <4>2. g[n - 1] = R(g)[n - 1]
        BY <4>1, <1>5
      <4> QED
        BY <3>2, <4>2 DEF JoinedAt
    <3> QED
      BY <3>1, <3>2
  <2> QED
    BY <2>1
<1> QED
  BY <1>6 DEF AreJoined

\* So they are what Joined chooses.
LEMMA JoinedEquation ==
  ASSUME NEW ms, Len(ms) \in Nat
  PROVE  AreJoined(ms, Joined(ms))
<1>1. Joined(ms) = CHOOSE g : AreJoined(ms, g)
  BY DEF Joined, JoinedAt, AreJoined
<1>2. \E g : AreJoined(ms, g)
  BY JoinedExist
<1> QED
  BY <1>1, <1>2, Zenon

\* What the list of the first n matches is.
IsJoined(a, b, ms, n, list) ==
  /\ AreOrdered(a, b, list) /\ Len(list) \in Nat
  /\ n = 0 => list = <<>>
  /\ n > 0 => EndsBy(list, ms[n])
  /\ \A k \in 1 .. n, i, j \in Int : ~IsBeside(ms[k], i, j) => Holds(list, i, j)

\* The blocks of the first matches, with the next match, are those of one more.
LEMMA WithMatchIsJoined ==
  ASSUME NEW a, NEW b, Len(a) \in Nat, Len(b) \in Nat,
         NEW ms, AreOrdered(a, b, ms), Len(ms) \in Nat,
         NEW n \in 1 .. Len(ms), NEW list, IsJoined(a, b, ms, n - 1, list)
  PROVE  IsJoined(a, b, ms, n, WithMatch(list, ms[n]))
<1> DEFINE m == ms[n]
<1>1. IsMatch(a, b, WholeWindow(a, b), m) /\ m.size > 0 /\ m \in MatchRecords
  BY DEF AreOrdered, IsMatch
<1>2. ASSUME NEW k \in 1 .. Len(list)
      PROVE  IsBefore(list[k], m)
  <2>1. n - 1 > 0 /\ n - 1 \in 1 .. Len(ms)
    BY DEF IsJoined
  <2>2. EndsBy(list, ms[n - 1]) /\ IsBefore(ms[n - 1], m)
    BY <2>1 DEF IsJoined, AreOrdered
  <2>3. ms[n - 1] \in MatchRecords /\ list[k] \in MatchRecords
    BY <2>1 DEF IsJoined, AreOrdered, IsMatch
  <2> DEFINE p == ms[n - 1]
             q == list[k]
  <2>4. /\ q.from + q.size <= p.from + p.size /\ q.to + q.size <= p.to + p.size
        /\ p.from + p.size <= m.from /\ p.to + p.size <= m.to
    BY <2>2 DEF EndsBy, IsBefore
  <2>5. p \in MatchRecords /\ q \in MatchRecords /\ m \in MatchRecords
    BY <2>3, <1>1
  <2> HIDE DEF m, p, q
  <2>6. q.from + q.size <= m.from /\ q.to + q.size <= m.to
    BY SMTT(30), <2>4, <2>5 DEF MatchRecords
  <2> QED
    BY <2>6 DEF IsBefore, q
<1>3. AreOrdered(a, b, list)
  BY DEF IsJoined
<1> DEFINE new == WithMatch(list, m)
<1>4. /\ AreOrdered(a, b, new) /\ EndsBy(new, m) /\ Len(new) \in Nat
      /\ \A i, j \in Int : (~IsBeside(m, i, j) \/ Holds(list, i, j)) => Holds(new, i, j)
  <2> HIDE DEF m
  <2> QED
    BY <1>1, <1>2, <1>3, WithMatchIsOrdered
<1> HIDE DEF new
<1>5. ASSUME NEW k \in 1 .. n, NEW i \in Int, NEW j \in Int, ~IsBeside(ms[k], i, j)
      PROVE  Holds(new, i, j)
  <2>1. CASE k = n
    BY <2>1, <1>4, <1>5
  <2>2. CASE k # n
    <3>1. k \in 1 .. n - 1
      BY <2>2
    <3>2. Holds(list, i, j)
      BY <3>1, <1>5 DEF IsJoined
    <3> QED
      BY <3>2, <1>4
  <2> QED
    BY <2>1, <2>2
<1> QED
  BY <1>4, <1>5 DEF IsJoined, new

\* So are the blocks of all the matches.
LEMMA JoinedIsRight ==
  ASSUME NEW a, NEW b, Len(a) \in Nat, Len(b) \in Nat,
         NEW ms, AreOrdered(a, b, ms), Len(ms) \in Nat
  PROVE  IsJoined(a, b, ms, Len(ms), Joined(ms)[Len(ms)])
<1> DEFINE g == Joined(ms)
           G == {n \in Nat : n <= Len(ms) => IsJoined(a, b, ms, n, g[n])}
<1>1. \A n \in 0 .. Len(ms) : g[n] = JoinedAt(ms, g, n)
  BY JoinedEquation DEF AreJoined
<1> HIDE DEF g
<1>2. 0 \in G
  <2>1. g[0] = <<>>
    BY <1>1 DEF JoinedAt
  <2>2. IsJoined(a, b, ms, 0, <<>>)
    <3>1. <<>> \in Seq(MatchRecords) /\ Len(<<>>) = 0
      BY EmptySeq
    <3> QED
      BY <3>1 DEF IsJoined, AreOrdered
  <2> QED
    BY <2>1, <2>2
<1>3. ASSUME NEW n \in Nat, n \in G
      PROVE  n + 1 \in G
  <2> SUFFICES ASSUME n + 1 <= Len(ms)
               PROVE  IsJoined(a, b, ms, n + 1, g[n + 1])
    OBVIOUS
  <2>1. n + 1 \in 1 .. Len(ms) /\ n + 1 - 1 = n
    OBVIOUS
  <2>2. g[n + 1] = WithMatch(g[n + 1 - 1], ms[n + 1])
    BY <1>1, <2>1 DEF JoinedAt
  <2>3. IsJoined(a, b, ms, n + 1 - 1, g[n + 1 - 1])
    BY <1>3, <2>1
  <2> QED
    BY <2>1, <2>2, <2>3, WithMatchIsJoined
<1>4. Len(ms) \in G
  <2> HIDE DEF G
  <2>1. Nat \subseteq G
    BY <1>2, <1>3, Induction
  <2> QED
    BY <2>1
<1> QED
  BY <1>4 DEF g

-----------------------------------------------------------------------------
\* Blocks: in order, none empty but the last, which is at the ends of both
\* texts; what is common is in a block.
AreBlocks(a, b, junk, bs) ==
  LET n == Len(bs)
  IN /\ bs \in Seq(MatchRecords) /\ n \in Nat /\ n > 0
     /\ bs[n] = [from |-> Len(a), to |-> Len(b), size |-> 0]
     /\ \A k \in 1 .. n : IsMatch(a, b, WholeWindow(a, b), bs[k])
     /\ \A k \in 1 .. n - 1 : bs[k].size > 0
     /\ \A k, l \in 1 .. n : k < l => IsBefore(bs[k], bs[l])
     /\ \A i \in 0 .. Len(a) - 1, j \in 0 .. Len(b) - 1 :
          IsCommon(a, b, junk, i, j) => \E k \in 1 .. n - 1 : ~IsBeside(bs[k], i, j)

\* cut_sequence_matcher_get_blocks(): its blocks are in order and hold what is
\* common, and an empty one ends them.
LEMMA GetBlocksIsRight ==
  ASSUME NEW a, NEW b, NEW junk, Len(a) \in Nat, Len(b) \in Nat
  PROVE  AreBlocks(a, b, junk, GetBlocks(a, b, GetMatches(a, b, junk)))
<1> DEFINE ms == GetMatches(a, b, junk)
           list == Joined(ms)[Len(ms)]
           end == [from |-> Len(a), to |-> Len(b), size |-> 0]
           bs == GetBlocks(a, b, ms)
           n == Len(list)
           w == WholeWindow(a, b)
<1>1. /\ AreInOrder(a, b, junk, ms)
      /\ \A k \in 1 .. Len(ms) : ms[k].size > 0
  BY GetMatchesIsRight
<1>2. bs = Append(list, end)
  BY DEF GetBlocks
<1> HIDE DEF ms, bs
<1>3. AreOrdered(a, b, ms) /\ Len(ms) \in Nat
  <2>1. ms \in Seq(MatchRecords)
    BY <1>1 DEF AreInOrder
  <2>2. Len(ms) \in Nat
    BY <2>1, LenProperties
  <2> QED
    BY <1>1, <2>1, <2>2 DEF AreInOrder, AreOrdered
<1>4. IsJoined(a, b, ms, Len(ms), list)
  BY <1>3, JoinedIsRight
<1> HIDE DEF list
<1>5. end \in MatchRecords /\ IsMatch(a, b, w, end)
  BY DEF MatchRecords, IsMatch, WholeWindow
<1>6. /\ n \in Nat /\ list \in Seq(MatchRecords)
      /\ \A k \in 1 .. n : IsMatch(a, b, w, list[k]) /\ list[k].size > 0
      /\ \A k, l \in 1 .. n : k < l => IsBefore(list[k], list[l])
  BY <1>4 DEF IsJoined, AreOrdered
<1>7. \A k \in 1 .. n : IsBefore(list[k], end)
  BY <1>6 DEF IsMatch, MatchRecords, WholeWindow, IsBefore
<1>8. \A i \in 0 .. Len(a) - 1, j \in 0 .. Len(b) - 1 :
        IsCommon(a, b, junk, i, j) => \E k \in 1 .. n : ~IsBeside(list[k], i, j)
  <2> SUFFICES ASSUME NEW i \in 0 .. Len(a) - 1, NEW j \in 0 .. Len(b) - 1,
                      IsCommon(a, b, junk, i, j)
               PROVE  Holds(list, i, j)
    BY DEF Holds
  <2>1. PICK k \in 1 .. Len(ms) : ~IsBeside(ms[k], i, j)
    BY <1>1 DEF AreInOrder
  <2> QED
    BY <2>1, <1>4 DEF IsJoined
<1> HIDE DEF end, n, w
<1>9. /\ bs \in Seq(MatchRecords) /\ Len(bs) = n + 1
      /\ \A k \in 1 .. n : bs[k] = list[k]
      /\ bs[n + 1] = end
  BY <1>2, <1>5, <1>6, AppendProperties DEF n
<1>10. \A k \in 1 .. n + 1 : IsMatch(a, b, w, bs[k])
  BY <1>5, <1>6, <1>9
<1>11. ASSUME NEW k \in 1 .. n + 1, NEW l \in 1 .. n + 1, k < l
       PROVE  IsBefore(bs[k], bs[l])
  <2>1. k \in 1 .. n /\ bs[k] = list[k]
    BY <1>11, <1>6, <1>9
  <2>2. CASE l = n + 1
    BY <2>1, <2>2, <1>7, <1>9
  <2>3. CASE l # n + 1
    BY <2>1, <2>3, <1>6, <1>9, <1>11
  <2> QED
    BY <2>2, <2>3
<1>12. \A k \in 1 .. n : bs[k].size > 0
  BY <1>6, <1>9
<1>13. \A i \in 0 .. Len(a) - 1, j \in 0 .. Len(b) - 1 :
         IsCommon(a, b, junk, i, j) => \E k \in 1 .. n : ~IsBeside(bs[k], i, j)
  BY <1>8, <1>9
<1>14. n + 1 - 1 = n /\ n + 1 > 0 /\ n + 1 \in Nat
  BY <1>6
<1>15. AreBlocks(a, b, junk, bs)
  <2>1. Len(bs) = n + 1 /\ Len(bs) - 1 = n
    <3>1. Len(bs) = n + 1 /\ n \in Nat
      BY <1>6, <1>9
    <3> QED
      BY <3>1
  <2>2. /\ bs \in Seq(MatchRecords) /\ Len(bs) \in Nat /\ Len(bs) > 0
        /\ bs[Len(bs)] = [from |-> Len(a), to |-> Len(b), size |-> 0]
    BY <1>9, <1>14 DEF end
  <2>3. \A k \in 1 .. Len(bs) : IsMatch(a, b, WholeWindow(a, b), bs[k])
    BY <1>10, <2>1 DEF w
  <2> QED
    BY <1>11, <1>12, <1>13, <2>1, <2>2, <2>3 DEF AreBlocks
<1> QED
  BY <1>15 DEF bs, ms

-----------------------------------------------------------------------------
\* Induction up to a number.
LEMMA InductionUpTo ==
  ASSUME NEW G, NEW k \in Nat, 0 \in G, \A i \in 1 .. k : i - 1 \in G => i \in G
  PROVE  \A i \in 0 .. k : i \in G
<1> DEFINE H == {n \in Nat : n <= k => n \in G}
<1>1. 0 \in H
  OBVIOUS
<1>2. ASSUME NEW n \in Nat, n \in H
      PROVE  n + 1 \in H
  <2> SUFFICES ASSUME n + 1 <= k
               PROVE  n + 1 \in G
    OBVIOUS
  <2>1. PICK i \in 1 .. k : i = n + 1 /\ i - 1 = n
    OBVIOUS
  <2>2. n \in G
    BY <1>2
  <2> QED
    BY <2>1, <2>2
<1>3. Nat \subseteq H
  <2> HIDE DEF H
  <2> QED
    BY <1>1, <1>2, Induction
<1> QED
  BY <1>3

\* A match before another one begins and ends before it.
LEMMA BeforeIsBefore ==
  ASSUME NEW m \in MatchRecords, NEW n \in MatchRecords, IsBefore(m, n)
  PROVE  /\ m.from <= n.from /\ m.to <= n.to
         /\ m.from + m.size <= n.from + n.size /\ m.to + m.size <= n.to + n.size
BY DEF MatchRecords, IsBefore

OperationsAt(bs, g, n) == IF n = 0 THEN <<>> ELSE g[n - 1] \o OperationsOf(bs, n)
AreOperationsUpTo(bs, g) == g = [n \in 0 .. Len(bs) |-> OperationsAt(bs, g, n)]

\* The operations of the first blocks are defined, for every number of them.
LEMMA OperationsExist ==
  ASSUME NEW bs, Len(bs) \in Nat
  PROVE  \E g : AreOperationsUpTo(bs, g)
<1> DEFINE D == 0 .. Len(bs)
           R(g) == [n \in D |-> OperationsAt(bs, g, n)]
           IsRight(g, k) == \A n \in D : n < k => g[n] = OperationsAt(bs, g, n)
           G == {k \in Nat : \E g : IsRight(g, k)}
<1>1. 0 \in G
  <2>1. IsRight(<<>>, 0)
    OBVIOUS
  <2> HIDE DEF IsRight
  <2> QED
    BY <2>1
<1>2. ASSUME NEW k \in Nat, k \in G
      PROVE  k + 1 \in G
  <2>1. PICK g : IsRight(g, k)
    BY <1>2
  <2>2. ASSUME NEW n \in D, n < k + 1
        PROVE  OperationsAt(bs, g, n) = OperationsAt(bs, R(g), n)
    <3>1. CASE n = 0
      BY <3>1 DEF OperationsAt
    <3>2. CASE n # 0
      <4>1. n - 1 \in D /\ n - 1 < k
        BY <3>2, <2>2
      <4>2. g[n - 1] = R(g)[n - 1]
        BY <4>1, <2>1
      <4> QED
        BY <3>2, <4>2 DEF OperationsAt
    <3> QED
      BY <3>1, <3>2
  <2>3. IsRight(R(g), k + 1)
    BY <2>2
  <2> HIDE DEF IsRight, R
  <2> QED
    BY <2>3
<1>3. Len(bs) + 1 \in G
  <2> HIDE DEF G
  <2>1. Nat \subseteq G
    BY <1>1, <1>2, Induction
  <2> QED
    BY <2>1
<1>4. PICK g : IsRight(g, Len(bs) + 1)
  BY <1>3
<1>5. \A n \in D : g[n] = OperationsAt(bs, g, n)
  BY <1>4
<1>6. R(g) = R(R(g))
  <2>1. ASSUME NEW n \in D
        PROVE  OperationsAt(bs, g, n) = OperationsAt(bs, R(g), n)
    <3>1. CASE n = 0
      BY <3>1 DEF OperationsAt
    <3>2. CASE n # 0
      <4>1. n - 1 \in D
        BY <3>2
      <4>2. g[n - 1] = R(g)[n - 1]
        BY <4>1, <1>5
      <4> QED
        BY <3>2, <4>2 DEF OperationsAt
    <3> QED
      BY <3>1, <3>2
  <2> QED
    BY <2>1
<1> QED
  BY <1>6 DEF AreOperationsUpTo

\* So they are what OperationsUpTo chooses.
LEMMA OperationsEquation ==
  ASSUME NEW bs, Len(bs) \in Nat
  PROVE  AreOperationsUpTo(bs, OperationsUpTo(bs))
<1>1. OperationsUpTo(bs) = CHOOSE g : AreOperationsUpTo(bs, g)
  BY DEF OperationsUpTo, OperationsAt, AreOperationsUpTo
<1>2. \E g : AreOperationsUpTo(bs, g)
  BY OperationsExist
<1> QED
  BY <1>1, <1>2, Zenon

-----------------------------------------------------------------------------
OperationRecords ==
  [type : {"equal", "insert", "delete", "replace"}, fb : Nat, fe : Nat, tb : Nat, te : Nat]

\* What an operation says of the elements of the two texts.
IsOperation(a, b, junk, o) ==
  /\ o \in OperationRecords
  /\ o.fb <= o.fe /\ o.fe <= Len(a) /\ o.tb <= o.te /\ o.te <= Len(b)
  /\ o.type = "equal" => /\ o.fb < o.fe /\ o.fe - o.fb = o.te - o.tb
                         /\ \A d \in 0 .. o.fe - o.fb - 1 : At(a, o.fb + d) = At(b, o.tb + d)
  /\ o.type = "insert" => o.fb = o.fe /\ o.tb < o.te
  /\ o.type = "delete" => o.fb < o.fe /\ o.tb = o.te
  /\ o.type = "replace" => /\ o.fb < o.fe /\ o.tb < o.te
                           /\ \A i \in o.fb .. o.fe - 1, j \in o.tb .. o.te - 1 :
                                At(a, i) = At(b, j) => At(b, j) \in junk

\* A list of operations that leads from one pair of positions to another.
Leads(a, b, junk, list, p, q, r, s) ==
  /\ list \in Seq(OperationRecords)
  /\ \A i \in 1 .. Len(list) : IsOperation(a, b, junk, list[i])
  /\ \A i \in 2 .. Len(list) : Follows(list[i - 1], list[i])
  /\ list = <<>> => p = r /\ q = s
  /\ list # <<>> => /\ list[1].fb = p /\ list[1].tb = q
                    /\ list[Len(list)].fe = r /\ list[Len(list)].te = s
                    /\ p <= r /\ q <= s /\ (p < r \/ q < s)

\* No operations lead nowhere.
LEMMA NothingLeads ==
  ASSUME NEW a, NEW b, NEW junk, NEW p, NEW q
  PROVE  Leads(a, b, junk, <<>>, p, q, p, q)
<1>1. <<>> \in Seq(OperationRecords) /\ Len(<<>>) = 0
  BY EmptySeq
<1> QED
  BY <1>1 DEF Leads

\* An operation leads from where it begins to where it ends.
LEMMA OneLeads ==
  ASSUME NEW a, NEW b, NEW junk, NEW o, IsOperation(a, b, junk, o)
  PROVE  Leads(a, b, junk, <<o>>, o.fb, o.tb, o.fe, o.te)
<1>1. /\ o \in OperationRecords /\ o.type \in {"equal", "insert", "delete", "replace"}
      /\ o.fb \in Nat /\ o.fe \in Nat /\ o.tb \in Nat /\ o.te \in Nat
  BY DEF IsOperation, OperationRecords
<1>2. o.fb <= o.fe /\ o.tb <= o.te /\ (o.fb < o.fe \/ o.tb < o.te)
  BY <1>1 DEF IsOperation
<1>3. <<o>> \in Seq(OperationRecords) /\ Len(<<o>>) = 1 /\ <<o>>[1] = o /\ <<o>> # <<>>
  BY <1>1
<1>4. \A i \in 1 .. Len(<<o>>) : <<o>>[i] = o
  BY <1>3
<1> QED
  BY <1>2, <1>3, <1>4 DEF Leads

\* Operations that lead to where others begin lead, with these, to where they end.
LEMMA BothLead ==
  ASSUME NEW a, NEW b, NEW junk, NEW p \in Nat, NEW q \in Nat,
         NEW r \in Nat, NEW s \in Nat, NEW t \in Nat, NEW u \in Nat,
         NEW x, Leads(a, b, junk, x, p, q, r, s),
         NEW y, Leads(a, b, junk, y, r, s, t, u)
  PROVE  Leads(a, b, junk, x \o y, p, q, t, u)
<1>1. x \in Seq(OperationRecords) /\ y \in Seq(OperationRecords)
  BY DEF Leads
<1>2. CASE x = <<>>
  <2>1. x \o y = y /\ p = r /\ q = s
    BY <1>1, <1>2, ConcatEmptySeq DEF Leads
  <2> QED
    BY <2>1
<1>3. CASE y = <<>>
  <2>1. x \o y = x /\ t = r /\ u = s
    BY <1>1, <1>3, ConcatEmptySeq DEF Leads
  <2> QED
    BY <2>1
<1>4. CASE x # <<>> /\ y # <<>>
  <2> DEFINE z == x \o y
             m == Len(x)
             n == Len(y)
  <2>1. /\ z \in Seq(OperationRecords) /\ Len(z) = m + n
        /\ \A i \in 1 .. m + n : z[i] = IF i <= m THEN x[i] ELSE y[i - m]
    BY <1>1, ConcatProperties
  <2>2. m \in Nat /\ m > 0 /\ n \in Nat /\ n > 0
    BY <1>1, <1>4, EmptySeq
  <2>3. /\ \A i \in 1 .. m : IsOperation(a, b, junk, x[i])
        /\ \A i \in 2 .. m : Follows(x[i - 1], x[i])
        /\ x[1].fb = p /\ x[1].tb = q /\ x[m].fe = r /\ x[m].te = s
        /\ p <= r /\ q <= s /\ (p < r \/ q < s)
    BY <1>4 DEF Leads
  <2>4. /\ \A i \in 1 .. n : IsOperation(a, b, junk, y[i])
        /\ \A i \in 2 .. n : Follows(y[i - 1], y[i])
        /\ y[1].fb = r /\ y[1].tb = s /\ y[n].fe = t /\ y[n].te = u
        /\ r <= t /\ s <= u /\ (r < t \/ s < u)
    BY <1>4 DEF Leads
  <2> HIDE DEF z, m, n
  <2>5. \A i \in 1 .. m + n : IsOperation(a, b, junk, z[i])
    <3> SUFFICES ASSUME NEW i \in 1 .. m + n
                 PROVE  IsOperation(a, b, junk, z[i])
      OBVIOUS
    <3>1. CASE i <= m
      <4>1. i \in 1 .. m /\ z[i] = x[i]
        BY <3>1, <2>1, <2>2
      <4> QED
        BY <4>1, <2>3
    <3>2. CASE ~(i <= m)
      <4>1. i - m \in 1 .. n /\ z[i] = y[i - m]
        BY <3>2, <2>1, <2>2
      <4> QED
        BY <4>1, <2>4
    <3> QED
      BY <3>1, <3>2
  <2>6. \A i \in 2 .. m + n : Follows(z[i - 1], z[i])
    <3> SUFFICES ASSUME NEW i \in 2 .. m + n
                 PROVE  Follows(z[i - 1], z[i])
      OBVIOUS
    <3>0. i - 1 \in 1 .. m + n /\ i \in 1 .. m + n
      BY <2>2
    <3>1. CASE i <= m
      <4>1. z[i - 1] = x[i - 1] /\ z[i] = x[i] /\ i \in 2 .. m
        BY <3>0, <3>1, <2>1, <2>2
      <4> QED
        BY <4>1, <2>3
    <3>2. CASE i = m + 1
      <4>1. z[i - 1] = x[m]
        <5>1. i - 1 = m /\ m \in 1 .. m + n /\ m <= m
          BY <3>2, <2>2
        <5> QED
          BY <5>1, <2>1
      <4>2. i - m = 1 /\ ~(i <= m)
        BY <3>2, <2>2
      <4>3. z[i] = y[1]
        BY <3>0, <4>2, <2>1
      <4> QED
        BY <4>1, <4>3, <2>3, <2>4 DEF Follows
    <3>3. CASE i > m + 1
      <4>1. i - m \in 2 .. n /\ i - 1 - m = i - m - 1 /\ ~(i <= m) /\ ~(i - 1 <= m)
        BY <3>3, <2>2
      <4>2. z[i - 1] = y[i - m - 1] /\ z[i] = y[i - m]
        BY <3>0, <4>1, <2>1
      <4> QED
        BY <4>1, <4>2, <2>4
    <3> QED
      BY <3>1, <3>2, <3>3, <2>2
  <2>7. z[1] = x[1] /\ z[m + n] = y[n] /\ z # <<>>
    <3>1. 1 \in 1 .. m + n /\ m + n \in 1 .. m + n /\ ~(m + n <= m) /\ (m + n) - m = n /\ 1 <= m
      BY <2>2
    <3>2. z # <<>>
      BY <2>1, <2>2, EmptySeq
    <3>3. z[1] = x[1]
      BY <3>1, <2>1
    <3>4. z[m + n] = y[(m + n) - m]
      <4>1. \A i \in 1 .. m + n : ~(i <= m) => z[i] = y[i - m]
        BY <2>1
      <4>2. PICK e \in 1 .. m + n : e = m + n /\ ~(e <= m)
        BY <3>1
      <4>3. z[e] = y[e - m]
        BY <4>1, <4>2
      <4> QED
        BY <4>2, <4>3, Zenon
    <3> QED
      BY <3>1, <3>2, <3>3, <3>4
  <2>8. p <= t /\ q <= u /\ (p < t \/ q < u)
    BY <2>3, <2>4
  <2> QED
    BY <2>1, <2>3, <2>4, <2>5, <2>6, <2>7, <2>8 DEF Leads, z
<1> QED
  BY <1>2, <1>3, <1>4
-----------------------------------------------------------------------------
\* The operations between one position and the end of a block.
LEMMA GapAndBlock ==
  ASSUME NEW a, NEW b, NEW junk, Len(a) \in Nat, Len(b) \in Nat,
         NEW m, IsMatch(a, b, WholeWindow(a, b), m),
         NEW p \in Nat, NEW q \in Nat, p <= m.from, q <= m.to,
         \A i \in p .. m.from - 1, j \in q .. m.to - 1 : At(a, i) = At(b, j) => At(b, j) \in junk
  PROVE  Leads(a, b, junk,
               (IF OperationType(p, q, m) = "equal" THEN <<>>
                ELSE <<Operation(OperationType(p, q, m), p, m.from, q, m.to)>>)
               \o (IF m.size = 0 THEN <<>>
                   ELSE <<Operation("equal", m.from, m.from + m.size, m.to, m.to + m.size)>>),
               p, q, m.from + m.size, m.to + m.size)
<1> DEFINE type == OperationType(p, q, m)
           r == m.from
           s == m.to
           n == m.size
           gap == IF type = "equal" THEN <<>> ELSE <<Operation(type, p, r, q, s)>>
           block == IF n = 0 THEN <<>> ELSE <<Operation("equal", r, r + n, s, s + n)>>
<1>1. /\ r \in Nat /\ s \in Nat /\ n \in Nat
      /\ r + n <= Len(a) /\ s + n <= Len(b) /\ p <= r /\ q <= s
      /\ \A d \in 0 .. n - 1 : At(a, r + d) = At(b, s + d)
  BY DEF IsMatch, MatchRecords, WholeWindow
<1>2. type = IF p < r /\ q < s THEN "replace"
             ELSE IF p < r THEN "delete" ELSE IF q < s THEN "insert" ELSE "equal"
  BY DEF OperationType
<1>3. \A i \in p .. r - 1, j \in q .. s - 1 : At(a, i) = At(b, j) => At(b, j) \in junk
  OBVIOUS
<1> HIDE DEF type, r, s, n
<1>4. Leads(a, b, junk, gap, p, q, r, s)
  <2>1. CASE type = "equal"
    <3>1. gap = <<>> /\ p = r /\ q = s
      BY <2>1, <1>1, <1>2
    <3> QED
      BY <3>1, NothingLeads
  <2>2. CASE type # "equal"
    <3> DEFINE o == Operation(type, p, r, q, s)
    <3>1. gap = <<o>>
      BY <2>2
    <3>2. /\ o \in OperationRecords
          /\ o.type = type /\ o.fb = p /\ o.fe = r /\ o.tb = q /\ o.te = s
      BY <1>1, <1>2 DEF Operation, OperationRecords
    <3> HIDE DEF o, gap
    <3>3. /\ o.type # "equal"
          /\ o.type = "insert" => p = r /\ q < s
          /\ o.type = "delete" => p < r /\ q = s
          /\ o.type = "replace" => p < r /\ q < s
      BY <1>1, <1>2, <2>2, <3>2
    <3>4. r <= Len(a) /\ s <= Len(b)
      BY <1>1
    <3>5. IsOperation(a, b, junk, o)
      BY <1>1, <1>3, <3>2, <3>3, <3>4 DEF IsOperation
    <3> QED
      BY <3>1, <3>2, <3>5, OneLeads
  <2> QED
    BY <2>1, <2>2
<1>5. Leads(a, b, junk, block, r, s, r + n, s + n)
  <2>1. CASE n = 0
    <3>1. block = <<>> /\ r + n = r /\ s + n = s
      BY <2>1, <1>1
    <3> QED
      BY <3>1, NothingLeads
  <2>2. CASE n # 0
    <3> DEFINE o == Operation("equal", r, r + n, s, s + n)
    <3>1. block = <<o>>
      BY <2>2
    <3>2. /\ o \in OperationRecords
          /\ o.type = "equal" /\ o.fb = r /\ o.fe = r + n /\ o.tb = s /\ o.te = s + n
      BY <1>1 DEF Operation, OperationRecords
    <3> HIDE DEF o, block
    <3>3. r <= r + n /\ s <= s + n /\ r < r + n /\ r + n - r = s + n - s /\ r + n - r - 1 = n - 1
      BY <1>1, <2>2
    <3>4. IsOperation(a, b, junk, o)
      BY <1>1, <3>2, <3>3 DEF IsOperation
    <3> QED
      BY <3>1, <3>2, <3>4, OneLeads
  <2> QED
    BY <2>1, <2>2
<1>6. r + n \in Nat /\ s + n \in Nat
  BY <1>1
<1> HIDE DEF gap, block
<1>7. Leads(a, b, junk, gap \o block, p, q, r + n, s + n)
  BY <1>1, <1>4, <1>5, <1>6, BothLead
<1> QED
  BY <1>7 DEF gap, block, type, r, s, n

\* Where the operations of a block begin, and where they end.
EndFrom(bs, i) == IF i = 0 THEN 0 ELSE bs[i].from + bs[i].size
EndTo(bs, i) == IF i = 0 THEN 0 ELSE bs[i].to + bs[i].size

\* The operations of a block lead from the end of the one before it to its end.
LEMMA OperationsOfLead ==
  ASSUME NEW a, NEW b, NEW junk, Len(a) \in Nat, Len(b) \in Nat,
         NEW bs, AreBlocks(a, b, junk, bs), NEW i \in 1 .. Len(bs)
  PROVE  /\ EndFrom(bs, i - 1) \in Nat /\ EndTo(bs, i - 1) \in Nat
         /\ EndFrom(bs, i) \in Nat /\ EndTo(bs, i) \in Nat
         /\ Leads(a, b, junk, OperationsOf(bs, i), EndFrom(bs, i - 1), EndTo(bs, i - 1),
                  EndFrom(bs, i), EndTo(bs, i))
<1> DEFINE m == bs[i]
           p == EndFrom(bs, i - 1)
           q == EndTo(bs, i - 1)
           n == Len(bs)
<1>0. n \in Nat
  BY DEF AreBlocks
<1>1. \A k \in 1 .. n : /\ bs[k] \in MatchRecords
                         /\ bs[k].from \in Nat /\ bs[k].to \in Nat /\ bs[k].size \in Nat
  BY DEF AreBlocks, IsMatch, MatchRecords
<1>2. IsMatch(a, b, WholeWindow(a, b), m)
  BY DEF AreBlocks
<1>3. /\ p = (IF i = 1 THEN 0 ELSE bs[i - 1].from + bs[i - 1].size)
      /\ q = (IF i = 1 THEN 0 ELSE bs[i - 1].to + bs[i - 1].size)
      /\ EndFrom(bs, i) = m.from + m.size /\ EndTo(bs, i) = m.to + m.size
  BY DEF EndFrom, EndTo
<1>4. p \in Nat /\ q \in Nat /\ p <= m.from /\ q <= m.to
  <2>1. CASE i = 1
    BY <2>1, <1>1, <1>3
  <2>2. CASE i # 1
    <3>1. i - 1 \in 1 .. n /\ i - 1 < i
      BY <2>2
    <3>2. IsBefore(bs[i - 1], bs[i]) /\ p = bs[i - 1].from + bs[i - 1].size
          /\ q = bs[i - 1].to + bs[i - 1].size
      BY <2>2, <3>1, <1>3 DEF AreBlocks
    <3>3. p <= m.from /\ q <= m.to
      BY <3>2 DEF IsBefore
    <3>4. p \in Nat /\ q \in Nat
      BY <3>1, <3>2, <1>1
    <3> QED
      BY <3>3, <3>4
  <2> QED
    BY <2>1, <2>2
<1>5. ASSUME NEW x \in p .. m.from - 1, NEW y \in q .. m.to - 1, At(a, x) = At(b, y)
      PROVE  At(b, y) \in junk
  <2> SUFFICES ASSUME IsCommon(a, b, junk, x, y)
               PROVE  FALSE
    BY <1>5 DEF IsCommon
  <2>1. x \in 0 .. Len(a) - 1 /\ y \in 0 .. Len(b) - 1
    <3>1. m.from <= Len(a) /\ m.to <= Len(b) /\ m.from \in Nat /\ m.to \in Nat
      BY <1>2 DEF IsMatch, MatchRecords, WholeWindow
    <3> QED
      BY <3>1, <1>4
  <2>2. PICK k \in 1 .. n - 1 : ~IsBeside(bs[k], x, y)
    BY <2>1 DEF AreBlocks
  <2>3. x < m.from /\ y < m.to /\ p <= x /\ q <= y /\ x \in Int /\ y \in Int
    BY <1>4, <1>1
  <2> DEFINE c == bs[k]
  <2>4. c.from \in Nat /\ c.to \in Nat /\ c.size \in Nat /\ k \in 1 .. n
    BY <1>0, <1>1
  <2>5. m.from \in Nat /\ m.to \in Nat
    BY <1>1
  <2>6. CASE k >= i
    <3>1. m.from <= c.from /\ m.to <= c.to
      <4>1. CASE k = i
        BY <4>1, <2>4
      <4>2. CASE k # i
        <5>1. IsBefore(m, c)
          BY <4>2, <2>4, <2>6 DEF AreBlocks
        <5>2. m \in MatchRecords /\ c \in MatchRecords
          BY <2>4, <1>1
        <5> HIDE DEF m, c
        <5> QED
          BY <5>1, <5>2, BeforeIsBefore
      <4> QED
        BY <4>1, <4>2
    <3> HIDE DEF m, c
    <3>2. x < c.from /\ y < c.to
      BY SMTT(30), <3>1, <2>3, <2>4, <2>5
    <3>3. IsBeside(c, x, y)
      BY <3>2 DEF IsBeside
    <3> QED
      BY <3>3, <2>2 DEF c
  <2>7. CASE k < i
    <3>1. c.from + c.size <= p /\ c.to + c.size <= q
      <4>0. i - 1 \in 1 .. n /\ i # 1
        BY <2>4, <2>7, <1>0
      <4> DEFINE l == bs[i - 1]
      <4>1. p = l.from + l.size /\ q = l.to + l.size
        BY <4>0, <1>3
      <4>2. CASE k = i - 1
        <5>1. c = l
          BY <4>2
        <5> HIDE DEF c, l, p, q
        <5> QED
          BY <5>1, <4>1, <1>4
      <4>3. CASE k # i - 1
        <5>1. IsBefore(c, l)
          BY <4>0, <4>3, <2>4, <2>7 DEF AreBlocks
        <5>2. l \in MatchRecords /\ c \in MatchRecords
          BY <4>0, <2>4, <1>1
        <5> HIDE DEF c, l, p, q
        <5>3. c.from + c.size <= l.from + l.size /\ c.to + c.size <= l.to + l.size
          BY <5>1, <5>2, BeforeIsBefore
        <5> QED
          BY <5>3, <4>1
      <4> QED
        BY <4>2, <4>3
    <3> HIDE DEF c, p, q
    <3>2. x >= c.from + c.size /\ y >= c.to + c.size
      BY <3>1, <2>3, <2>4, <1>4
    <3>3. IsBeside(c, x, y)
      BY <3>2 DEF IsBeside
    <3> QED
      BY <3>3, <2>2 DEF c
  <2> QED
    BY <2>4, <2>6, <2>7
<1>6. OperationsOf(bs, i) =
        (IF OperationType(p, q, m) = "equal" THEN <<>>
         ELSE <<Operation(OperationType(p, q, m), p, m.from, q, m.to)>>)
        \o (IF m.size = 0 THEN <<>>
            ELSE <<Operation("equal", m.from, m.from + m.size, m.to, m.to + m.size)>>)
  <2> HIDE DEF p, q
  <2> QED
    BY <1>3 DEF OperationsOf
<1>7. m.from + m.size \in Nat /\ m.to + m.size \in Nat
  BY <1>1
<1> HIDE DEF m, p, q
<1>8. Leads(a, b, junk, OperationsOf(bs, i), p, q, m.from + m.size, m.to + m.size)
  BY <1>2, <1>4, <1>5, <1>6, GapAndBlock
<1> QED
  BY <1>3, <1>4, <1>7, <1>8 DEF p, q

\* cut_sequence_matcher_get_operations(): it leads from the beginnings of the
\* texts to their ends.
LEMMA GetOperationsIsRight ==
  ASSUME NEW a, NEW b, NEW junk, Len(a) \in Nat, Len(b) \in Nat,
         NEW bs, AreBlocks(a, b, junk, bs)
  PROVE  Leads(a, b, junk, GetOperations(bs), 0, 0, Len(a), Len(b))
<1> DEFINE g == OperationsUpTo(bs)
           IsRight(n) == Leads(a, b, junk, g[n], 0, 0, EndFrom(bs, n), EndTo(bs, n))
           G == {n \in Nat : IsRight(n)}
<1>0. Len(bs) \in Nat /\ Len(bs) > 0
  BY DEF AreBlocks
<1>1. \A n \in 0 .. Len(bs) : g[n] = OperationsAt(bs, g, n)
  BY <1>0, OperationsEquation DEF AreOperationsUpTo
<1> HIDE DEF g
<1>2. 0 \in G
  <2>1. g[0] = <<>> /\ EndFrom(bs, 0) = 0 /\ EndTo(bs, 0) = 0
    BY <1>0, <1>1 DEF OperationsAt, EndFrom, EndTo
  <2>2. IsRight(0)
    BY <2>1, NothingLeads
  <2> QED
    BY <2>2
<1>3. ASSUME NEW n \in 1 .. Len(bs), n - 1 \in G
      PROVE  n \in G
  <2>1. g[n] = g[n - 1] \o OperationsOf(bs, n)
    <3>1. n \in 0 .. Len(bs) /\ n # 0
      BY <1>0
    <3>2. g[n] = OperationsAt(bs, g, n)
      BY <3>1, <1>1
    <3> QED
      BY <3>1, <3>2 DEF OperationsAt
  <2>2. Leads(a, b, junk, g[n - 1], 0, 0, EndFrom(bs, n - 1), EndTo(bs, n - 1))
    BY <1>3
  <2>3. /\ EndFrom(bs, n - 1) \in Nat /\ EndTo(bs, n - 1) \in Nat
        /\ EndFrom(bs, n) \in Nat /\ EndTo(bs, n) \in Nat
        /\ Leads(a, b, junk, OperationsOf(bs, n), EndFrom(bs, n - 1), EndTo(bs, n - 1),
                 EndFrom(bs, n), EndTo(bs, n))
    BY OperationsOfLead
  <2>4. 0 \in Nat
    OBVIOUS
  <2>5. Leads(a, b, junk, g[n - 1] \o OperationsOf(bs, n), 0, 0, EndFrom(bs, n), EndTo(bs, n))
    BY <2>2, <2>3, <2>4, BothLead
  <2>6. IsRight(n) /\ n \in Nat
    BY <2>1, <2>5, <1>0
  <2> QED
    BY <2>6
<1>4. IsRight(Len(bs))
  <2>1. Len(bs) \in G
    <3> HIDE DEF G
    <3>1. \A i \in 0 .. Len(bs) : i \in G
      BY <1>0, <1>2, <1>3, InductionUpTo
    <3> QED
      BY <3>1, <1>0
  <2> QED
    BY <2>1
<1>5. EndFrom(bs, Len(bs)) = Len(a) /\ EndTo(bs, Len(bs)) = Len(b)
  BY <1>0 DEF AreBlocks, EndFrom, EndTo
<1> QED
  BY <1>4, <1>5 DEF g, GetOperations

-----------------------------------------------------------------------------
\* The elements of a part of a text.
IsPart(S, a, i, j, part) ==
  /\ part \in Seq(S) /\ Len(part) = j - i
  /\ \A k \in 1 .. j - i : part[k] = At(a, (i + k) - 1)
  /\ part = <<>> <=> i = j
  /\ Range(part) = {At(a, k) : k \in i .. j - 1}

\* What SubSeq cuts out of a text is a part of it.
LEMMA PartOf ==
  ASSUME NEW S, NEW a \in Seq(S), NEW i \in Nat, NEW j \in Nat, i <= j, j <= Len(a)
  PROVE  IsPart(S, a, i, j, SubSeq(a, i + 1, j))
<1> DEFINE part == SubSeq(a, i + 1, j)
<1>1. Len(a) \in Nat /\ \A k \in i + 1 .. j : a[k] \in S
  <2>1. Len(a) \in Nat
    BY LenProperties
  <2>2. \A k \in i + 1 .. j : k \in 1 .. Len(a)
    BY <2>1
  <2> QED
    BY <2>1, <2>2, ElementOfSeq
<1>2. /\ part \in Seq(S)
      /\ Len(part) = IF i + 1 <= j THEN (j - (i + 1)) + 1 ELSE 0
      /\ \A k \in 1 .. (j - (i + 1)) + 1 : part[k] = a[((i + 1) + k) - 1]
  <2>1. i + 1 \in Int /\ j \in Int
    OBVIOUS
  <2> QED
    BY <1>1, <2>1, SubSeqProperties
<1> HIDE DEF part
<1>3. (j - (i + 1)) + 1 = j - i /\ Len(part) = j - i
  BY <1>2
<1>4. ASSUME NEW k \in 1 .. j - i
      PROVE  part[k] = At(a, (i + k) - 1)
  <2>1. ((i + 1) + k) - 1 = ((i + k) - 1) + 1
    OBVIOUS
  <2> QED
    BY <1>2, <1>3, <2>1 DEF At
<1>5. part = <<>> <=> i = j
  BY <1>2, <1>3, EmptySeq
<1>6. DOMAIN part = 1 .. j - i
  BY <1>2, <1>3, LenProperties
<1>7. Range(part) = {At(a, k) : k \in i .. j - 1}
  <2>1. ASSUME NEW k \in 1 .. j - i
        PROVE  part[k] \in {At(a, l) : l \in i .. j - 1}
    <3>1. (i + k) - 1 \in i .. j - 1
      OBVIOUS
    <3> QED
      BY <3>1, <1>4
  <2>2. ASSUME NEW l \in i .. j - 1
        PROVE  \E k \in 1 .. j - i : part[k] = At(a, l)
    <3>1. PICK k \in 1 .. j - i : (i + k) - 1 = l
      <4>1. (l - i) + 1 \in 1 .. j - i /\ (i + ((l - i) + 1)) - 1 = l
        OBVIOUS
      <4> QED
        BY <4>1
    <3> QED
      BY <3>1, <1>4
  <2> QED
    BY <2>1, <2>2, <1>6 DEF Range
<1> QED
  BY <1>2, <1>3, <1>4, <1>5, <1>7 DEF part, IsPart

\* An operation says of the parts of two texts what IsDiff asks.
LEMMA OperationIsRight ==
  ASSUME NEW S, NEW a \in Seq(S), NEW b \in Seq(S), NEW junk,
         NEW o, IsOperation(a, b, junk, o)
  PROVE  LET left == SubSeq(a, o.fb + 1, o.fe)
             right == SubSeq(b, o.tb + 1, o.te)
         IN CASE o.type = "equal" -> left = right /\ left # <<>>
              [] o.type = "insert" -> left = <<>> /\ right # <<>>
              [] o.type = "delete" -> left # <<>> /\ right = <<>>
              [] o.type = "replace" ->
                   left # <<>> /\ right # <<>>
                   /\ Range(left) \cap Range(right) \subseteq junk
<1> DEFINE fb == o.fb
           fe == o.fe
           tb == o.tb
           te == o.te
           left == SubSeq(a, fb + 1, fe)
           right == SubSeq(b, tb + 1, te)
<1>1. /\ fb \in Nat /\ fe \in Nat /\ tb \in Nat /\ te \in Nat
      /\ o.type \in {"equal", "insert", "delete", "replace"}
      /\ fb <= fe /\ fe <= Len(a) /\ tb <= te /\ te <= Len(b)
  BY DEF IsOperation, OperationRecords
<1>2. /\ o.type = "equal" => /\ fb < fe /\ fe - fb = te - tb
                             /\ \A d \in 0 .. fe - fb - 1 : At(a, fb + d) = At(b, tb + d)
      /\ o.type = "insert" => fb = fe /\ tb < te
      /\ o.type = "delete" => fb < fe /\ tb = te
      /\ o.type = "replace" => /\ fb < fe /\ tb < te
                               /\ \A i \in fb .. fe - 1, j \in tb .. te - 1 :
                                    At(a, i) = At(b, j) => At(b, j) \in junk
  BY DEF IsOperation
<1> HIDE DEF fb, fe, tb, te
<1>3. /\ left \in Seq(S) /\ Len(left) = fe - fb
      /\ \A k \in 1 .. fe - fb : left[k] = At(a, (fb + k) - 1)
      /\ left = <<>> <=> fb = fe
      /\ Range(left) = {At(a, k) : k \in fb .. fe - 1}
  <2>1. IsPart(S, a, fb, fe, left)
    BY <1>1, PartOf
  <2> QED
    BY <2>1 DEF IsPart
<1>4. /\ right \in Seq(S) /\ Len(right) = te - tb
      /\ \A k \in 1 .. te - tb : right[k] = At(b, (tb + k) - 1)
      /\ right = <<>> <=> tb = te
      /\ Range(right) = {At(b, k) : k \in tb .. te - 1}
  <2>1. IsPart(S, b, tb, te, right)
    BY <1>1, PartOf
  <2> QED
    BY <2>1 DEF IsPart
<1> HIDE DEF left, right
<1>5. CASE o.type = "equal"
  <2>1. ASSUME NEW k \in 1 .. fe - fb
        PROVE  left[k] = right[k]
    <3>1. PICK d \in 0 .. fe - fb - 1 : (fb + k) - 1 = fb + d /\ (tb + k) - 1 = tb + d
      <4>1. k - 1 \in 0 .. fe - fb - 1
            /\ (fb + k) - 1 = fb + (k - 1) /\ (tb + k) - 1 = tb + (k - 1)
        BY <1>1
      <4> QED
        BY <4>1
    <3>2. left[k] = At(a, fb + d) /\ right[k] = At(b, tb + d)
      BY <3>1, <1>2, <1>3, <1>4, <1>5
    <3> QED
      BY <3>2, <1>2, <1>5
  <2>2. Len(left) = Len(right)
    BY <1>2, <1>3, <1>4, <1>5
  <2>3. left = right
    BY <2>1, <2>2, <1>3, <1>4, SeqEqual
  <2>4. left # <<>>
    BY <1>1, <1>2, <1>3, <1>5
  <2> QED
    BY <2>3, <2>4, <1>5 DEF left, right, fb, fe, tb, te
<1>6. CASE o.type = "insert"
  <2>1. left = <<>> /\ right # <<>>
    BY <1>1, <1>2, <1>3, <1>4, <1>6
  <2> QED
    BY <2>1, <1>6 DEF left, right, fb, fe, tb, te
<1>7. CASE o.type = "delete"
  <2>1. left # <<>> /\ right = <<>>
    BY <1>1, <1>2, <1>3, <1>4, <1>7
  <2> QED
    BY <2>1, <1>7 DEF left, right, fb, fe, tb, te
<1>8. CASE o.type = "replace"
  <2>1. left # <<>> /\ right # <<>>
    BY <1>1, <1>2, <1>3, <1>4, <1>8
  <2>2. Range(left) \cap Range(right) \subseteq junk
    BY <1>2, <1>3, <1>4, <1>8
  <2> QED
    BY <2>1, <2>2, <1>8 DEF left, right, fb, fe, tb, te
<1> QED
  BY <1>1, <1>5, <1>6, <1>7, <1>8

\* Operations that lead through two texts are a diff of them.
LEMMA LeadsIsDiff ==
  ASSUME NEW S, NEW a \in Seq(S), NEW b \in Seq(S), NEW junk,
         NEW os, Leads(a, b, junk, os, 0, 0, Len(a), Len(b))
  PROVE  IsDiff(a, b, os, junk)
<1>1. os \in Seq(OperationRecords) /\ DOMAIN os = 1 .. Len(os) /\ Len(os) \in Nat
  <2>1. os \in Seq(OperationRecords)
    BY DEF Leads
  <2> QED
    BY <2>1, LenProperties
<1>2. Len(a) \in Nat /\ Len(b) \in Nat /\ (a = <<>> <=> Len(a) = 0) /\ (b = <<>> <=> Len(b) = 0)
  BY LenProperties, EmptySeq
<1>3. os = <<>> <=> a \o b = <<>>
  <2>1. a \o b = <<>> <=> a = <<>> /\ b = <<>>
    BY ConcatEqualIffEmpty
  <2>2. os = <<>> => Len(a) = 0 /\ Len(b) = 0
    BY DEF Leads
  <2>3. os # <<>> => Len(a) # 0 \/ Len(b) # 0
    BY <1>2 DEF Leads
  <2> QED
    BY <2>1, <2>2, <2>3, <1>2
<1>4. os # <<>> => /\ Head(os).fb = 0 /\ Head(os).tb = 0
                   /\ Last(os).fe = Len(a) /\ Last(os).te = Len(b)
  <2>1. Head(os) = os[1] /\ Last(os) = os[Len(os)]
    BY <1>1 DEF Last
  <2> QED
    BY <2>1 DEF Leads
<1>5. \A i \in DOMAIN os : i > 1 => Follows(os[i - 1], os[i])
  BY <1>1 DEF Leads
<1>6. \A o \in Range(os) : IsOperation(a, b, junk, o)
  BY <1>1 DEF Range, Leads
<1> QED
  BY <1>3, <1>4, <1>5, <1>6, OperationIsRight DEF IsDiff

\* What the matcher answers is a diff of the two texts, whatever they and the
\* junk are.
LEMMA MatcherIsCorrect ==
  ASSUME NEW S, NEW a \in Seq(S), NEW b \in Seq(S), NEW junk
  PROVE  IsDiff(a, b, GetOperations(GetBlocks(a, b, GetMatches(a, b, junk))), junk)
<1>1. Len(a) \in Nat /\ Len(b) \in Nat
  BY LenProperties
<1>2. AreBlocks(a, b, junk, GetBlocks(a, b, GetMatches(a, b, junk)))
  BY <1>1, GetBlocksIsRight
<1>3. Leads(a, b, junk, GetOperations(GetBlocks(a, b, GetMatches(a, b, junk))), 0, 0, Len(a), Len(b))
  BY <1>1, <1>2, GetOperationsIsRight
<1> QED
  BY <1>3, LeadsIsDiff

-----------------------------------------------------------------------------
\* What is used is right when what is kept is.
LEMMA UsedIsRight ==
  ASSUME CachesAreFresh
  PROVE  /\ Matches = GetMatches(from, to, {})
         /\ Blocks = GetBlocks(from, to, GetMatches(from, to, {}))
         /\ Operations =
              GetOperations(GetBlocks(from, to, GetMatches(from, to, {})))
         /\ Groups =
              GetGroupedOperations(
                GetOperations(GetBlocks(from, to, GetMatches(from, to, {}))),
                contextSize)
         /\ Ratio = GetRatio(from, to, GetBlocks(from, to, GetMatches(from, to, {})))
<1> DEFINE ms == GetMatches(from, to, {})
           bs == GetBlocks(from, to, ms)
           os == GetOperations(bs)
           gs == GetGroupedOperations(os, contextSize)
           r == GetRatio(from, to, bs)
<1>1. /\ matches \in {<<>>, ms} /\ blocks \in {<<>>, bs} /\ operations \in {<<>>, os}
      /\ grouped \in {<<>>, gs} /\ ratio \in {<<>>, r}
  BY DEF CachesAreFresh
<1>2. Matches = ms
  BY <1>1 DEF Matches, Kept
<1>3. Blocks = bs
  BY <1>1, <1>2 DEF Blocks, Kept
<1>4. Operations = os
  BY <1>1, <1>3 DEF Operations, Kept
<1>5. Groups = gs
  BY <1>1, <1>4 DEF Groups, Kept
<1>6. Ratio = r
  BY <1>1, <1>3 DEF Ratio, Kept
<1> QED
  BY <1>2, <1>3, <1>4, <1>5, <1>6

\* The lists that do not depend on the context size are right after a step
\* that leaves the texts and each of them alone or stores what is used.
LEMMA StoredIsRight ==
  ASSUME CachesAreFresh, UNCHANGED texts,
         matches' \in {matches, Matches}, blocks' \in {blocks, Blocks},
         operations' \in {operations, Operations}, ratio' \in {ratio, Ratio},
         \/ grouped' \in {grouped, Groups} /\ contextSize' = contextSize
         \/ grouped' = <<>>
  PROVE  CachesAreFresh'
<1> DEFINE ms == GetMatches(from, to, {})
           bs == GetBlocks(from, to, ms)
           os == GetOperations(bs)
           gs(n) == GetGroupedOperations(os, n)
           r == GetRatio(from, to, bs)
<1>1. /\ matches \in {<<>>, ms} /\ blocks \in {<<>>, bs} /\ operations \in {<<>>, os}
      /\ grouped \in {<<>>, gs(contextSize)} /\ ratio \in {<<>>, r}
  BY DEF CachesAreFresh
<1>2. /\ Matches = ms /\ Blocks = bs /\ Operations = os
      /\ Groups = gs(contextSize) /\ Ratio = r
  BY UsedIsRight
<1>3. from' = from /\ to' = to
  BY DEF texts
<1>4. /\ matches' \in {<<>>, ms} /\ blocks' \in {<<>>, bs}
      /\ operations' \in {<<>>, os} /\ ratio' \in {<<>>, r}
  BY <1>1, <1>2
<1>5. grouped' \in {<<>>, gs(contextSize')}
  BY <1>1, <1>2
<1> QED
  BY <1>3, <1>4, <1>5 DEF CachesAreFresh

-----------------------------------------------------------------------------
\* cut-sequence-matcher.c never answers from a list that is out of date, in
\* whatever order the accessors, set_context_size() and the diffs are called.
THEOREM MatcherIsFresh == Spec => []CachesAreFresh
<1>1. Init => CachesAreFresh
  BY DEF Init, CachesAreFresh
<1>2. CachesAreFresh /\ [Next]_vars => CachesAreFresh'
  <2> SUFFICES ASSUME CachesAreFresh, [Next]_vars
               PROVE  CachesAreFresh'
    OBVIOUS
  <2> USE DEF UseMatches, UseBlocks, UseOperations, UseGroups, caches
  <2>1. CASE AskBlocks
    BY <2>1, StoredIsRight DEF AskBlocks
  <2>2. CASE AskGroups
    BY <2>2, StoredIsRight DEF AskGroups
  <2>3. CASE AskRatio
    BY <2>3, StoredIsRight DEF AskRatio
  <2>4. ASSUME NEW n \in ContextSizes, SetContextSize(n)
        PROVE  CachesAreFresh'
    BY <2>4, StoredIsRight DEF SetContextSize, GroupsKept
  <2>5. CASE Diff
    BY <2>5, StoredIsRight DEF Diff
  <2>6. CASE NeedDiff
    BY <2>6, StoredIsRight DEF NeedDiff
  <2>7. CASE UNCHANGED vars
    BY <2>7, StoredIsRight DEF vars
  <2> QED
    BY <2>1, <2>2, <2>3, <2>4, <2>5, <2>6, <2>7 DEF Next
<1> QED
  BY <1>1, <1>2, PTL DEF Spec

-----------------------------------------------------------------------------
\* The texts are sequences of lines.
LEMMA TextsAreSequences ==
  Init => from \in Seq(Lines) /\ to \in Seq(Lines)
<1> SUFFICES ASSUME NEW x \in BoundedSeq(Lines, MaxLines)
             PROVE  x \in Seq(Lines)
  BY DEF Init
<1>1. PICK m \in 0 .. MaxLines : x \in [1 .. m -> Lines]
  BY DEF BoundedSeq, SeqOf
<1>2. m \in Nat
  BY LinesAssumption
<1> QED
  BY <1>1, <1>2, SeqDef

\* Two lines are sequences of characters.
LEMMA LinesAreSequences ==
  ASSUME NEW a \in Lines, NEW b \in Lines
  PROVE  \E S : a \in Seq(S) /\ b \in Seq(S)
<1> DEFINE S == Range(a) \cup Range(b)
<1>1. a \in Seq(Range(a)) /\ b \in Seq(Range(b))
  BY LinesAssumption
<1>2. Range(a) \subseteq S /\ Range(b) \subseteq S
  OBVIOUS
<1> HIDE DEF S
<1>3. a \in Seq(S) /\ b \in Seq(S)
  BY <1>1, <1>2, SeqMonotonic
<1> QED
  BY <1>3

\* The operations that the matcher keeps of two texts, and those of any two of
\* their lines, are a diff of them: cut-sequence-matcher.c loses no element and
\* invents none, whatever the texts, the lines and the junk are.
THEOREM OperationsTheorem == Spec => []OperationsAreADiff
<1> DEFINE TypeOfTexts == from \in Seq(Lines) /\ to \in Seq(Lines)
<1>1. Init => TypeOfTexts
  BY TextsAreSequences
<1>2. TypeOfTexts /\ [Next]_vars => TypeOfTexts'
  BY DEF Next, AskBlocks, AskGroups, AskRatio, SetContextSize, Diff, NeedDiff, vars, texts
<1>3. TypeOfTexts /\ CachesAreFresh => OperationsAreADiff
  <2> SUFFICES ASSUME TypeOfTexts, CachesAreFresh, operations # <<>>
               PROVE  /\ IsDiff(from, to, operations, {})
                      /\ \A a \in Range(from), b \in Range(to) :
                           IsDiff(a, b, GetOperations(GetBlocks(a, b, GetMatches(a, b, Spaces))), Spaces)
    BY DEF OperationsAreADiff
  <2>1. operations = GetOperations(GetBlocks(from, to, GetMatches(from, to, {})))
    BY DEF CachesAreFresh
  <2>2. IsDiff(from, to, operations, {})
    BY <2>1, MatcherIsCorrect
  <2>3. ASSUME NEW a \in Range(from), NEW b \in Range(to)
        PROVE  IsDiff(a, b, GetOperations(GetBlocks(a, b, GetMatches(a, b, Spaces))), Spaces)
    <3>1. a \in Lines /\ b \in Lines
      BY LenProperties, ElementOfSeq DEF Range
    <3>2. PICK S : a \in Seq(S) /\ b \in Seq(S)
      BY <3>1, LinesAreSequences
    <3> QED
      BY <3>2, MatcherIsCorrect
  <2> QED
    BY <2>2, <2>3
<1> QED
  BY <1>1, <1>2, <1>3, MatcherIsFresh, PTL DEF Spec

-----------------------------------------------------------------------------
\* The lines of a diff, and the places of the texts that they lead from and to.
TextLines == [mark : {"equal", "deleted", "inserted"}, line : Lines]
Summaries == [mark : {"summary"}, from : Nat, to : Nat, deleted : Nat, inserted : Nat]
DiffRecords == TextLines \cup Summaries
Places == Nat \X Nat

\* Where a line leads.
PlaceAfter(p, x) ==
  IF x.mark = "summary" THEN <<x.from - 1, x.to - 1>>
  ELSE <<p[1] + (IF x.mark = "inserted" THEN 0 ELSE 1), p[2] + (IF x.mark = "deleted" THEN 0 ELSE 1)>>
IsTrailStep(p, x, q) == q = PlaceAfter(p, x) /\ IsPassed(p, x, q)
IsTrail(list, t) ==
  /\ list \in Seq(DiffRecords) /\ Len(list) \in Nat
  /\ t \in [0 .. Len(list) -> Places]
  /\ \A k \in 1 .. Len(list) : IsTrailStep(t[k - 1], list[k], t[k])

\* No lines lead nowhere.
LEMMA EmptyTrail ==
  ASSUME NEW p \in Places
  PROVE  \E t : IsTrail(<<>>, t) /\ t[0] = p
<1> DEFINE t == [k \in 0 .. 0 |-> p]
<1>1. <<>> \in Seq(DiffRecords) /\ Len(<<>>) = 0
  BY EmptySeq
<1>2. t \in [0 .. 0 -> Places] /\ t[0] = p
  OBVIOUS
<1>3. \A k \in 1 .. Len(<<>>) : IsTrailStep(t[k - 1], <<>>[k], t[k])
  BY <1>1
<1>4. IsTrail(<<>>, t)
  BY <1>1, <1>2, <1>3 DEF IsTrail
<1> QED
  BY <1>2, <1>4

\* One line leads where it does.
LEMMA TrailOfOne ==
  ASSUME NEW x \in DiffRecords, NEW p \in Places, NEW q \in Places, IsTrailStep(p, x, q)
  PROVE  \E t : IsTrail(<<x>>, t) /\ t[0] = p /\ t[1] = q
<1> DEFINE t == [k \in 0 .. 1 |-> IF k = 0 THEN p ELSE q]
<1>2. <<x>> \in Seq(DiffRecords) /\ Len(<<x>>) = 1 /\ <<x>>[1] = x
  OBVIOUS
<1>3. t \in [0 .. 1 -> Places] /\ t[0] = p /\ t[1] = q
  OBVIOUS
<1> HIDE DEF t
<1>4. \A k \in 1 .. 1 : IsTrailStep(t[k - 1], <<x>>[k], t[k])
  <2>1. \A k \in 1 .. 1 : k = 1 /\ k - 1 = 0
    OBVIOUS
  <2>2. IsTrailStep(t[0], <<x>>[1], t[1])
    BY <1>2, <1>3
  <2> QED
    BY <2>1, <2>2
<1>5. IsTrail(<<x>>, t)
  BY <1>2, <1>3, <1>4 DEF IsTrail
<1> QED
  BY <1>3, <1>5

\* What the trail of two lists is, one after the other.
AreJoinedTrails(x, s, y, t, u) ==
  /\ IsTrail(x \o y, u) /\ Len(x \o y) = Len(x) + Len(y)
  /\ \A k \in 1 .. Len(x) : (x \o y)[k] = x[k]
  /\ \A k \in 1 .. Len(y) : (x \o y)[Len(x) + k] = y[k]
  /\ \A k \in 0 .. Len(x) : u[k] = s[k]
  /\ \A k \in 0 .. Len(y) : u[Len(x) + k] = t[k]

\* Two lists of which the second leads from where the first one led.
LEMMA TrailOfBoth ==
  ASSUME NEW x, NEW s, IsTrail(x, s), NEW y, NEW t, IsTrail(y, t), s[Len(x)] = t[0]
  PROVE  \E u : AreJoinedTrails(x, s, y, t, u)
<1> DEFINE m == Len(x)
           n == Len(y)
           z == x \o y
<1>1. x \in Seq(DiffRecords) /\ y \in Seq(DiffRecords) /\ m \in Nat /\ n \in Nat
  BY DEF IsTrail
<1>2. s \in [0 .. m -> Places] /\ \A k \in 1 .. m : IsTrailStep(s[k - 1], x[k], s[k])
  BY DEF IsTrail
<1>3. t \in [0 .. n -> Places] /\ \A k \in 1 .. n : IsTrailStep(t[k - 1], y[k], t[k])
  BY DEF IsTrail
<1>4. /\ z \in Seq(DiffRecords) /\ Len(z) = m + n
      /\ \A i \in 1 .. m + n : z[i] = IF i <= m THEN x[i] ELSE y[i - m]
  BY <1>1, ConcatProperties
<1>0. s[m] = t[0]
  OBVIOUS
<1> HIDE DEF m, n, z
<1> DEFINE u == [k \in 0 .. m + n |-> IF k <= m THEN s[k] ELSE t[k - m]]
<1>5. ASSUME NEW k \in 0 .. m + n
      PROVE  u[k] \in Places /\ (k <= m => u[k] = s[k]) /\ (k >= m => u[k] = t[k - m])
  <2>1. CASE k < m
    <3>1. k \in 0 .. m
      BY <2>1, <1>1
    <3> QED
      BY <2>1, <3>1, <1>1, <1>2
  <2>2. CASE k = m
    <3>1. k \in 0 .. m /\ k - m = 0
      BY <2>2, <1>1
    <3> QED
      BY <2>2, <3>1, <1>0, <1>1, <1>2, <1>3
  <2>3. CASE k > m
    <3>1. k - m \in 0 .. n /\ ~(k <= m)
      BY <2>3, <1>1
    <3> QED
      BY <2>3, <3>1, <1>1, <1>3
  <2> QED
    BY <2>1, <2>2, <2>3, <1>1
<1>6. u \in [0 .. m + n -> Places]
  BY <1>5
<1> HIDE DEF u
<1>7. ASSUME NEW k \in 1 .. m + n
      PROVE  IsTrailStep(u[k - 1], z[k], u[k])
  <2>1. k \in 0 .. m + n /\ k - 1 \in 0 .. m + n
    BY <1>1
  <2>2. CASE k <= m
    <3>1. k \in 1 .. m /\ k - 1 <= m
      BY <2>2, <1>1
    <3>2. u[k - 1] = s[k - 1] /\ z[k] = x[k] /\ u[k] = s[k]
      BY <2>1, <2>2, <3>1, <1>4, <1>5
    <3> QED
      BY <3>1, <3>2, <1>2
  <2>3. CASE ~(k <= m)
    <3>1. PICK j \in 1 .. n : j = k - m
      BY <2>3, <1>1
    <3>2. k - 1 >= m /\ k >= m /\ k - 1 - m = j - 1 /\ k - m = j
      BY <2>3, <3>1, <1>1
    <3>3. u[k - 1] = t[j - 1] /\ u[k] = t[j]
      BY <2>1, <3>2, <1>5
    <3>4. z[k] = y[j]
      BY <2>3, <3>2, <1>4
    <3> QED
      BY <3>3, <3>4, <1>3
  <2> QED
    BY <2>2, <2>3
<1>8. IsTrail(z, u)
  BY <1>1, <1>4, <1>6, <1>7 DEF IsTrail
<1>9. \A k \in 0 .. m : u[k] = s[k]
  <2>1. \A k \in 0 .. m : k \in 0 .. m + n /\ k <= m
    BY <1>1
  <2> QED
    BY <2>1, <1>5
<1>10. \A k \in 0 .. n : u[m + k] = t[k]
  <2>1. \A k \in 0 .. n : m + k \in 0 .. m + n /\ m + k >= m /\ (m + k) - m = k
    BY <1>1
  <2> QED
    BY <2>1, <1>5
<1>11. \A k \in 1 .. m : z[k] = x[k]
  <2>1. \A k \in 1 .. m : k \in 1 .. m + n /\ k <= m
    BY <1>1
  <2> QED
    BY <2>1, <1>4
<1>12. \A k \in 1 .. n : z[m + k] = y[k]
  <2>1. \A k \in 1 .. n : m + k \in 1 .. m + n /\ ~(m + k <= m) /\ (m + k) - m = k
    BY <1>1
  <2> QED
    BY <2>1, <1>4
<1>13. AreJoinedTrails(x, s, y, t, u)
  BY <1>4, <1>8, <1>9, <1>10, <1>11, <1>12 DEF m, n, z, AreJoinedTrails
<1> QED
  BY <1>13

\* Lines of the texts that lead from one place to another.
Writes(list, p, q) ==
  /\ list \in Seq(TextLines)
  /\ \E t : IsTrail(list, t) /\ t[0] = p /\ t[Len(list)] = q

\* No lines lead nowhere, and two lists of lines lead where the second one does.
LEMMA WritesNone ==
  ASSUME NEW p \in Places
  PROVE  Writes(<<>>, p, p)
<1>1. <<>> \in Seq(TextLines) /\ Len(<<>>) = 0
  BY EmptySeq
<1> QED
  BY <1>1, EmptyTrail DEF Writes

\* Lines that lead on from where others led.
LEMMA WritesBoth ==
  ASSUME NEW x, NEW y, NEW p, NEW q, NEW r, Writes(x, p, q), Writes(y, q, r)
  PROVE  Writes(x \o y, p, r)
<1>1. x \in Seq(TextLines) /\ y \in Seq(TextLines)
  BY DEF Writes
<1>2. PICK s : IsTrail(x, s) /\ s[0] = p /\ s[Len(x)] = q
  BY DEF Writes
<1>3. PICK t : IsTrail(y, t) /\ t[0] = q /\ t[Len(y)] = r
  BY DEF Writes
<1>4. Len(x) \in Nat /\ Len(y) \in Nat
  BY <1>2, <1>3 DEF IsTrail
<1>9. s[Len(x)] = t[0]
  BY <1>2, <1>3
<1>5. PICK u : AreJoinedTrails(x, s, y, t, u)
  BY <1>2, <1>3, <1>9, TrailOfBoth
<1>6. /\ IsTrail(x \o y, u) /\ Len(x \o y) = Len(x) + Len(y)
      /\ \A k \in 0 .. Len(x) : u[k] = s[k]
      /\ \A k \in 0 .. Len(y) : u[Len(x) + k] = t[k]
  BY <1>5 DEF AreJoinedTrails
<1>7. u[0] = p /\ u[Len(x) + Len(y)] = r
  <2>1. 0 \in 0 .. Len(x) /\ Len(y) \in 0 .. Len(y)
    BY <1>4
  <2> QED
    BY <2>1, <1>2, <1>3, <1>6
<1>8. x \o y \in Seq(TextLines)
  BY <1>1, ConcatProperties
<1> QED
  BY <1>6, <1>7, <1>8 DEF Writes

-----------------------------------------------------------------------------
\* A function on 1 .. n is a sequence of length n.
LEMMA FunctionIsSeq ==
  ASSUME NEW S, NEW n \in Nat, NEW f \in [1 .. n -> S]
  PROVE  f \in Seq(S) /\ Len(f) = n
<1>1. f \in Seq(S)
  BY SeqDef
<1>2. DOMAIN f = 1 .. Len(f) /\ Len(f) \in Nat
  BY <1>1, LenProperties
<1>3. 1 .. Len(f) = 1 .. n
  BY <1>2
<1>4. Len(f) = n
  <2>1. CASE Len(f) < n
    <3>1. n \in 1 .. n /\ n \notin 1 .. Len(f)
      BY <2>1, <1>2
    <3> QED
      BY <3>1, <1>3
  <2>2. CASE Len(f) > n
    <3>1. Len(f) \in 1 .. Len(f) /\ Len(f) \notin 1 .. n
      BY <2>2, <1>2
    <3> QED
      BY <3>1, <1>3
  <2> QED
    BY <2>1, <2>2, <1>2
<1> QED
  BY <1>1, <1>4

\* What FlattenSeq puts together.
IsFlat(S, ss, F) ==
  /\ F \in [0 .. Len(ss) -> Seq(S)]
  /\ F[0] = <<>>
  /\ \A k \in 1 .. Len(ss) : F[k] = F[k - 1] \o ss[k]
  /\ FlattenSeq(ss) = F[Len(ss)]

\* FlattenSeq appends the lists one after the other.
LEMMA FlattenIs ==
  ASSUME NEW S, NEW ss \in Seq(Seq(S))
  PROVE  \E F : IsFlat(S, ss, F)
<1> DEFINE n == Len(ss)
           R(g) == [i \in 1 .. n |-> IF i = 1 THEN ss[i] ELSE g[i - 1] \o ss[i]]
           flatten == CHOOSE g : g = R(g)
           IsRight(g, k) == \A i \in 1 .. n : i <= k => g[i] = R(g)[i]
           G == {k \in Nat : \E g : IsRight(g, k)}
<1>1. n \in Nat /\ \A i \in 1 .. n : ss[i] \in Seq(S)
  BY LenProperties
<1>2. CASE n = 0
  <2> DEFINE F == [k \in 0 .. 0 |-> <<>>]
  <2>1. ss = <<>>
    BY <1>2, EmptySeq
  <2>2. FlattenSeq(ss) = <<>>
    BY <1>2, <2>1 DEF FlattenSeq
  <2>3. F \in [0 .. 0 -> Seq(S)] /\ F[0] = <<>>
    BY EmptySeq
  <2>4. IsFlat(S, ss, F)
    BY <1>2, <2>2, <2>3 DEF IsFlat
  <2> QED
    BY <2>4
<1>3. CASE n # 0
  <2>1. FlattenSeq(ss) = flatten[n]
    BY <1>3 DEF FlattenSeq
  <2> HIDE DEF n
  <2>2. \E g : g = R(g)
    <3>1. 0 \in G
      OBVIOUS
    <3>2. ASSUME NEW k \in Nat, k \in G
          PROVE  k + 1 \in G
      <4>1. PICK g : IsRight(g, k)
        BY <3>2
      <4>2. ASSUME NEW i \in 1 .. n, i <= k + 1
            PROVE  R(g)[i] = R(R(g))[i]
        <5>1. CASE i = 1
          BY <5>1
        <5>2. CASE i # 1
          <6>1. i - 1 \in 1 .. n /\ i - 1 <= k
            BY <5>2, <4>2, <1>1
          <6>2. g[i - 1] = R(g)[i - 1]
            BY <6>1, <4>1
          <6> QED
            BY <5>2, <6>2
        <5> QED
          BY <5>1, <5>2
      <4>3. IsRight(R(g), k + 1)
        BY <4>2
      <4> HIDE DEF IsRight, R
      <4> QED
        BY <4>3
    <3>3. PICK g : IsRight(g, n)
      <4> HIDE DEF G
      <4>1. Nat \subseteq G
        BY <3>1, <3>2, Induction
      <4>2. n \in G
        BY <4>1, <1>1
      <4> QED
        BY <4>2 DEF G
    <3> DEFINE h == R(g)
    <3>4. \A i \in 1 .. n : g[i] = h[i] /\ (i # 1 => i - 1 \in 1 .. n)
      BY <3>3, <1>1
    <3>5. h = [i \in 1 .. n |-> IF i = 1 THEN ss[i] ELSE g[i - 1] \o ss[i]]
      OBVIOUS
    <3> HIDE DEF h
    <3>6. \A i \in 1 .. n : h[i] = R(h)[i]
      BY <3>4, <3>5
    <3>7. h = R(h)
      BY <3>5, <3>6
    <3> QED
      BY <3>7
  <2>3. flatten = R(flatten)
    <3> HIDE DEF R
    <3> QED
      BY <2>2
  <2> HIDE DEF flatten
  <2> DEFINE F == [k \in 0 .. n |-> IF k = 0 THEN <<>> ELSE flatten[k]]
  <2>4. \A k \in 1 .. n : F[k] = F[k - 1] \o ss[k]
    <3> SUFFICES ASSUME NEW k \in 1 .. n
                 PROVE  F[k] = F[k - 1] \o ss[k]
      OBVIOUS
    <3>1. F[k] = flatten[k] /\ ss[k] \in Seq(S)
      BY <1>1
    <3>2. CASE k = 1
      <4>1. F[k - 1] = <<>> /\ flatten[k] = ss[k]
        BY <3>2, <2>3, <1>1
      <4> QED
        BY <3>1, <4>1, ConcatEmptySeq
    <3>3. CASE k # 1
      <4>0. k - 1 \in 0 .. n /\ k - 1 # 0
        BY <3>3, <1>1
      <4>1. F[k - 1] = flatten[k - 1]
        BY <4>0
      <4>2. flatten[k] = flatten[k - 1] \o ss[k]
        BY <3>3, <2>3
      <4> QED
        BY <3>1, <4>1, <4>2
    <3> QED
      BY <3>2, <3>3
  <2>5. F[0] = <<>> /\ F[n] = flatten[n] /\ DOMAIN F = 0 .. n
    BY <1>1, <1>3
  <2> DEFINE H == {k \in Nat : k <= n => F[k] \in Seq(S)}
  <2>6. F = [k \in 0 .. n |-> F[k]]
    BY <2>5
  <2> HIDE DEF F
  <2>7. \A k \in 0 .. n : F[k] \in Seq(S)
    <3>1. 0 \in H
      BY <2>5, EmptySeq
    <3>2. \A k \in 1 .. n : k - 1 \in H => k \in H
      <4> SUFFICES ASSUME NEW k \in 1 .. n, k - 1 \in H
                   PROVE  k \in H
        OBVIOUS
      <4>1. F[k - 1] \in Seq(S) /\ ss[k] \in Seq(S)
        BY <1>1
      <4>2. F[k] \in Seq(S)
        BY <4>1, <2>4, ConcatProperties
      <4> QED
        BY <4>2
    <3> HIDE DEF H
    <3>3. \A k \in 0 .. n : k \in H
      BY <3>1, <3>2, <1>1, InductionUpTo
    <3> QED
      BY <3>3 DEF H
  <2>8. F \in [0 .. n -> Seq(S)]
    BY <2>6, <2>7
  <2>9. IsFlat(S, ss, F)
    BY <2>1, <2>4, <2>5, <2>8 DEF IsFlat, n
  <2> QED
    BY <2>9
<1> QED
  BY <1>2, <1>3

-----------------------------------------------------------------------------
AreTexts == from \in Seq(Lines) /\ to \in Seq(Lines)

IsMarked(f, mark, a, i, j) ==
  /\ f \in Seq(TextLines) /\ Len(f) = j - i /\ j - i \in Nat
  /\ \A k \in 1 .. j - i : f[k].mark = mark /\ f[k].line = a[i + k]

\* Marked lines, one after the other.
LEMMA MarkedIs ==
  ASSUME NEW mark \in {"equal", "deleted", "inserted"}, NEW a \in Seq(Lines), NEW i \in Nat, NEW j \in Nat,
         i <= j, j <= Len(a)
  PROVE  IsMarked(Marked(mark, a, i, j), mark, a, i, j)
<1> DEFINE f == Marked(mark, a, i, j)
<1>1. j - i \in Nat /\ Len(a) \in Nat
  BY LenProperties
<1>2. ASSUME NEW k \in 1 .. j - i
      PROVE  /\ f[k] \in TextLines /\ f[k].mark = mark /\ f[k].line = a[i + k]
  <2>1. i + k \in 1 .. Len(a) /\ (i + k - 1) + 1 = i + k
    BY <1>1
  <2>2. a[i + k] \in Lines
    BY <2>1, ElementOfSeq
  <2>3. f[k] = [mark |-> mark, line |-> a[i + k]]
    BY <2>1 DEF Marked, At
  <2> QED
    BY <2>2, <2>3 DEF TextLines
<1>3. f \in [1 .. j - i -> TextLines]
  BY <1>2 DEF Marked
<1> HIDE DEF f
<1>4. f \in Seq(TextLines) /\ Len(f) = j - i
  BY <1>1, <1>3, FunctionIsSeq
<1> QED
  BY <1>1, <1>2, <1>4 DEF f, IsMarked

\* Deleted lines lead through the first text,
LEMMA DeletedWrites ==
  ASSUME AreTexts, NEW i \in Nat, NEW j \in Nat, i <= j, j <= Len(from), NEW n \in Nat
  PROVE  Writes(Deleted(i, j), <<i, n>>, <<j, n>>)
<1> DEFINE f == Deleted(i, j)
           t == [k \in 0 .. j - i |-> <<i + k, n>>]
<1>0. Len(from) \in Nat /\ Len(to) \in Nat
  BY LenProperties DEF AreTexts
<1>4. IsMarked(f, "deleted", from, i, j)
  BY <1>0, MarkedIs DEF AreTexts, Deleted
<1>1. /\ f \in Seq(TextLines) /\ Len(f) = j - i /\ j - i \in Nat
      /\ \A k \in 1 .. j - i : f[k].mark = "deleted" /\ f[k].line = from[i + k]
  BY <1>4 DEF IsMarked
<1> HIDE DEF f
<1>2. t \in [0 .. j - i -> Places] /\ t[0] = <<i, n>> /\ t[j - i] = <<j, n>>
  BY <1>1 DEF Places
<1>3. ASSUME NEW k \in 1 .. j - i
      PROVE  IsTrailStep(t[k - 1], f[k], t[k])
  <2>1. t[k - 1] = <<i + (k - 1), n>> /\ t[k] = <<i + k, n>>
    OBVIOUS
  <2>2. i + (k - 1) + 1 = i + k /\ i + k <= Len(from) /\ n + 0 = n
    BY <1>0, <1>1
  <2>3. f[k].mark = "deleted" /\ f[k].line = from[i + k]
    BY <1>1
  <2> HIDE DEF t
  <2>4. t[k - 1][1] = i + (k - 1) /\ t[k - 1][2] = n /\ t[k][1] = i + k /\ t[k][2] = n
    BY <2>1
  <2>5. t[k] = PlaceAfter(t[k - 1], f[k])
    BY <2>1, <2>2, <2>3, <2>4 DEF PlaceAfter
  <2>6. IsPassed(t[k - 1], f[k], t[k])
    BY <2>2, <2>3, <2>4 DEF IsPassed
  <2> QED
    BY <2>5, <2>6 DEF IsTrailStep
<1> HIDE DEF t
<1>5. f \in Seq(DiffRecords)
  BY <1>1, SeqMonotonic DEF DiffRecords
<1>6. IsTrail(f, t)
  BY <1>1, <1>2, <1>3, <1>5 DEF IsTrail
<1> QED
  BY <1>1, <1>2, <1>6 DEF Writes, f

\* inserted ones through the second,
LEMMA InsertedWrites ==
  ASSUME AreTexts, NEW i \in Nat, NEW j \in Nat, i <= j, j <= Len(to), NEW n \in Nat
  PROVE  Writes(Inserted(i, j), <<n, i>>, <<n, j>>)
<1> DEFINE f == Inserted(i, j)
           t == [k \in 0 .. j - i |-> <<n, i + k>>]
<1>0. Len(from) \in Nat /\ Len(to) \in Nat
  BY LenProperties DEF AreTexts
<1>4. IsMarked(f, "inserted", to, i, j)
  BY <1>0, MarkedIs DEF AreTexts, Inserted
<1>1. /\ f \in Seq(TextLines) /\ Len(f) = j - i /\ j - i \in Nat
      /\ \A k \in 1 .. j - i : f[k].mark = "inserted" /\ f[k].line = to[i + k]
  BY <1>4 DEF IsMarked
<1> HIDE DEF f
<1>2. t \in [0 .. j - i -> Places] /\ t[0] = <<n, i>> /\ t[j - i] = <<n, j>>
  BY <1>1 DEF Places
<1>3. ASSUME NEW k \in 1 .. j - i
      PROVE  IsTrailStep(t[k - 1], f[k], t[k])
  <2>1. t[k - 1] = <<n, i + (k - 1)>> /\ t[k] = <<n, i + k>>
    OBVIOUS
  <2>2. i + (k - 1) + 1 = i + k /\ i + k <= Len(to) /\ n + 0 = n
    BY <1>0, <1>1
  <2>3. f[k].mark = "inserted" /\ f[k].line = to[i + k]
    BY <1>1
  <2> HIDE DEF t
  <2>4. t[k - 1][2] = i + (k - 1) /\ t[k - 1][1] = n /\ t[k][2] = i + k /\ t[k][1] = n
    BY <2>1
  <2>5. t[k] = PlaceAfter(t[k - 1], f[k])
    BY <2>1, <2>2, <2>3, <2>4 DEF PlaceAfter
  <2>6. IsPassed(t[k - 1], f[k], t[k])
    BY <2>2, <2>3, <2>4 DEF IsPassed
  <2> QED
    BY <2>5, <2>6 DEF IsTrailStep
<1> HIDE DEF t
<1>5. f \in Seq(DiffRecords)
  BY <1>1, SeqMonotonic DEF DiffRecords
<1>6. IsTrail(f, t)
  BY <1>1, <1>2, <1>3, <1>5 DEF IsTrail
<1> QED
  BY <1>1, <1>2, <1>6 DEF Writes, f

\* and equal ones through both.
LEMMA EqualWrites ==
  ASSUME AreTexts, NEW i \in Nat, NEW j \in Nat, i <= j, j <= Len(from),
         NEW n \in Nat, n + (j - i) <= Len(to),
         \A d \in 0 .. j - i - 1 : At(from, i + d) = At(to, n + d)
  PROVE  Writes(Marked("equal", from, i, j), <<i, n>>, <<j, n + (j - i)>>)
<1> DEFINE f == Marked("equal", from, i, j)
           t == [k \in 0 .. j - i |-> <<i + k, n + k>>]
<1>0. Len(from) \in Nat /\ Len(to) \in Nat
  BY LenProperties DEF AreTexts
<1>4. IsMarked(f, "equal", from, i, j)
  BY <1>0, MarkedIs DEF AreTexts
<1>1. /\ f \in Seq(TextLines) /\ Len(f) = j - i /\ j - i \in Nat
      /\ \A k \in 1 .. j - i : f[k].mark = "equal" /\ f[k].line = from[i + k]
  BY <1>4 DEF IsMarked
<1> HIDE DEF f
<1>2. t \in [0 .. j - i -> Places] /\ t[0] = <<i, n>> /\ t[j - i] = <<j, n + (j - i)>>
  <2>1. \A k \in 0 .. j - i : <<i + k, n + k>> \in Places
    BY DEF Places
  <2>2. t \in [0 .. j - i -> Places]
    BY <2>1
  <2>3. t[0] = <<i + 0, n + 0>> /\ t[j - i] = <<i + (j - i), n + (j - i)>>
    BY <1>1
  <2>4. i + 0 = i /\ n + 0 = n /\ i + (j - i) = j
    OBVIOUS
  <2> QED
    BY <2>2, <2>3, <2>4
<1>3. ASSUME NEW k \in 1 .. j - i
      PROVE  IsTrailStep(t[k - 1], f[k], t[k])
  <2>1. t[k - 1] = <<i + (k - 1), n + (k - 1)>> /\ t[k] = <<i + k, n + k>>
    OBVIOUS
  <2>2. /\ i + (k - 1) + 1 = i + k /\ n + (k - 1) + 1 = n + k
        /\ i + k <= Len(from) /\ n + k <= Len(to)
    BY <1>0, <1>1
  <2>3. f[k].mark = "equal" /\ f[k].line = from[i + k]
    BY <1>1
  <2>7. from[i + k] = to[n + k]
    <3>1. k - 1 \in 0 .. j - i - 1 /\ i + (k - 1) + 1 = i + k /\ n + (k - 1) + 1 = n + k
      OBVIOUS
    <3>2. At(from, i + (k - 1)) = At(to, n + (k - 1))
      BY <3>1
    <3> QED
      BY <3>1, <3>2 DEF At
  <2> HIDE DEF t
  <2>4. /\ t[k - 1][1] = i + (k - 1) /\ t[k - 1][2] = n + (k - 1)
        /\ t[k][1] = i + k /\ t[k][2] = n + k
    BY <2>1
  <2>5. t[k] = PlaceAfter(t[k - 1], f[k])
    BY <2>1, <2>2, <2>3, <2>4 DEF PlaceAfter
  <2>6. IsPassed(t[k - 1], f[k], t[k])
    BY <2>2, <2>3, <2>4, <2>7 DEF IsPassed
  <2> QED
    BY <2>5, <2>6 DEF IsTrailStep
<1> HIDE DEF t
<1>5. f \in Seq(DiffRecords)
  BY <1>1, SeqMonotonic DEF DiffRecords
<1>6. IsTrail(f, t)
  BY <1>1, <1>2, <1>3, <1>5 DEF IsTrail
<1> QED
  BY <1>1, <1>2, <1>6 DEF Writes, f

-----------------------------------------------------------------------------
\* The windows of diff_lines(), and what it writes for one.
DiffWindows == (0 .. Len(from)) \X (0 .. Len(from)) \X (0 .. Len(to)) \X (0 .. Len(to))
PairsOf(w) == PairsToWrite((w[1] .. w[2] - 1) \X (w[3] .. w[4] - 1))
FirstPair(w) == CHOOSE p \in PairsOf(w) : IsFirst(p, PairsOf(w))
Apart(w) ==
  IF w[4] - w[3] < w[2] - w[1]
  THEN Inserted(w[3], w[4]) \o Deleted(w[1], w[2])
  ELSE Deleted(w[1], w[2]) \o Inserted(w[3], w[4])
DiffAt(g, w) ==
  IF PairsOf(w) = {} THEN Apart(w)
  ELSE g[Upper(w, FirstPair(w))] \o DiffLine(FirstPair(w)[1], FirstPair(w)[2])
         \o g[Lower(w, FirstPair(w))]
AreDiffs(g) == g = [w \in DiffWindows |-> DiffAt(g, w)]

\* Of any pairs there is a first one.
LEMMA FirstExists ==
  ASSUME NEW S \in SUBSET (Nat \X Nat), S # {}
  PROVE  \E p \in S : IsFirst(p, S)
<1> DEFINE U == {p[2] : p \in S}
<1>1. U \in SUBSET Nat /\ U # {}
  OBVIOUS
<1> HIDE DEF U
<1>2. PICK n \in U : \A m \in U : n <= m
  BY <1>1, LeastNatural
<1> DEFINE T == {p[1] : p \in {q \in S : q[2] = n}}
<1>3. T \in SUBSET Nat /\ T # {}
  BY <1>2 DEF U
<1> HIDE DEF T
<1>4. PICK k \in T : \A m \in T : k <= m
  BY <1>3, LeastNatural
<1>5. PICK p \in S : p[2] = n /\ p[1] = k
  BY <1>4 DEF T
<1>6. ASSUME NEW q \in S
      PROVE  p[2] < q[2] \/ (p[2] = q[2] /\ p[1] <= q[1])
  <2>1. q[2] \in U /\ q[2] \in Nat /\ n \in Nat
    BY <1>1, <1>2 DEF U
  <2>2. n <= q[2]
    BY <2>1, <1>2
  <2>3. CASE q[2] = n
    <3>1. q[1] \in T
      BY <2>3 DEF T
    <3> QED
      BY <2>3, <3>1, <1>4, <1>5
  <2>4. CASE q[2] # n
    BY <2>1, <2>2, <2>4, <1>5
  <2> QED
    BY <2>3, <2>4
<1> QED
  BY <1>5, <1>6 DEF IsFirst

\* Where a pair of lines of a window is.
IsPairIn(p, w) ==
  /\ p[1] \in Nat /\ p[2] \in Nat
  /\ w[1] <= p[1] /\ p[1] < w[2] /\ w[3] <= p[2] /\ p[2] < w[4]

\* The pair that is written first is a pair of the window.
LEMMA FirstPairIsInWindow ==
  ASSUME NEW w \in DiffWindows, PairsOf(w) # {}
  PROVE  IsPairIn(FirstPair(w), w)
<1> DEFINE P == (w[1] .. w[2] - 1) \X (w[3] .. w[4] - 1)
<1>1. w[1] \in Nat /\ w[2] \in Nat /\ w[3] \in Nat /\ w[4] \in Nat
  BY DEF DiffWindows
<1>2. PairsOf(w) \subseteq P
  BY DEF PairsOf, PairsToWrite, OrElse, MostAlike
<1>3. P \subseteq Nat \X Nat
  BY <1>1
<1>4. \E p \in PairsOf(w) : IsFirst(p, PairsOf(w))
  BY <1>2, <1>3, FirstExists
<1>5. FirstPair(w) \in P
  BY <1>2, <1>4 DEF FirstPair
<1> HIDE DEF FirstPair
<1> QED
  BY <1>1, <1>5 DEF IsPairIn

Height(w) == w[2] - w[1] + Len(from)
\* How high a window is, is a natural number.
LEMMA HeightIsNatural ==
  ASSUME AreTexts, NEW w \in DiffWindows
  PROVE  Height(w) \in Nat /\ Height(w) < 2 * Len(from) + 1
<1>1. Len(from) \in Nat
  BY LenProperties DEF AreTexts
<1> QED
  BY <1>1 DEF Height, DiffWindows

\* What is before and after a pair of lines is smaller.
LEMMA SmallerDiffWindows ==
  ASSUME AreTexts, NEW w \in DiffWindows, NEW p, IsPairIn(p, w)
  PROVE  /\ Upper(w, p) \in DiffWindows /\ Lower(w, p) \in DiffWindows
         /\ Height(Upper(w, p)) < Height(w) /\ Height(Lower(w, p)) < Height(w)
<1>1. Len(from) \in Nat /\ Len(to) \in Nat
  BY LenProperties DEF AreTexts
<1>2. /\ w[1] \in 0 .. Len(from) /\ w[2] \in 0 .. Len(from)
      /\ w[3] \in 0 .. Len(to) /\ w[4] \in 0 .. Len(to)
  BY DEF DiffWindows
<1>3. /\ p[1] \in 0 .. Len(from) /\ p[2] \in 0 .. Len(to)
      /\ p[1] + 1 \in 0 .. Len(from) /\ p[2] + 1 \in 0 .. Len(to)
  <2>1. /\ p[1] \in Nat /\ p[2] \in Nat
        /\ p[1] < w[2] /\ w[2] <= Len(from) /\ w[2] \in Nat
        /\ p[2] < w[4] /\ w[4] <= Len(to) /\ w[4] \in Nat
    BY <1>1, <1>2 DEF IsPairIn
  <2>2. p[1] \in 0 .. Len(from) /\ p[1] + 1 \in 0 .. Len(from)
    BY <1>1, <2>1
  <2>3. p[2] \in 0 .. Len(to) /\ p[2] + 1 \in 0 .. Len(to)
    BY <1>1, <2>1
  <2> QED
    BY <2>2, <2>3
<1>4. /\ p[1] - w[1] + Len(from) < w[2] - w[1] + Len(from)
      /\ w[2] - (p[1] + 1) + Len(from) < w[2] - w[1] + Len(from)
  <2> DEFINE a == w[1]
             b == w[2]
             c == p[1]
             n == Len(from)
  <2>1. a \in Nat /\ b \in Nat /\ c \in Nat /\ n \in Nat /\ a <= c /\ c < b
    BY <1>1, <1>2, <1>3 DEF IsPairIn
  <2> HIDE DEF a, b, c, n
  <2>2. c - a + n < b - a + n /\ b - (c + 1) + n < b - a + n
    BY <2>1
  <2> QED
    BY <2>2 DEF a, b, c, n
<1>5. Upper(w, p) \in DiffWindows /\ Height(Upper(w, p)) = p[1] - w[1] + Len(from)
  BY <1>2, <1>3 DEF Upper, DiffWindows, Height
<1>6. Lower(w, p) \in DiffWindows /\ Height(Lower(w, p)) = w[2] - (p[1] + 1) + Len(from)
  BY <1>2, <1>3 DEF Lower, DiffWindows, Height
<1> QED
  BY <1>4, <1>5, <1>6 DEF Height

\* Functions that agree on the smaller windows write the same.
LEMMA SameDiffs ==
  ASSUME AreTexts, NEW w \in DiffWindows, NEW g, NEW h,
         \A x \in DiffWindows : Height(x) < Height(w) => g[x] = h[x]
  PROVE  DiffAt(g, w) = DiffAt(h, w)
<1>1. CASE PairsOf(w) = {}
  BY <1>1 DEF DiffAt
<1>2. CASE PairsOf(w) # {}
  <2> DEFINE p == FirstPair(w)
  <2>1. IsPairIn(p, w)
    BY <1>2, FirstPairIsInWindow
  <2> HIDE DEF p
  <2>2. g[Upper(w, p)] = h[Upper(w, p)] /\ g[Lower(w, p)] = h[Lower(w, p)]
    BY <2>1, SmallerDiffWindows
  <2> QED
    BY <1>2, <2>2 DEF DiffAt, p
<1> QED
  BY <1>1, <1>2

\* The diffs of every window are defined: by induction over its height.
LEMMA DiffsExist ==
  ASSUME AreTexts
  PROVE  \E g : AreDiffs(g)
<1> DEFINE D == DiffWindows
           R(g) == [w \in D |-> DiffAt(g, w)]
           IsRight(g, k) == \A w \in D : Height(w) < k => g[w] = DiffAt(g, w)
           G == {k \in Nat : \E g : IsRight(g, k)}
           N == 2 * Len(from) + 1
<1>0. N \in Nat
  BY LenProperties DEF AreTexts
<1> HIDE DEF N
<1>1. 0 \in G
  <2>1. IsRight(<<>>, 0)
    BY HeightIsNatural
  <2> HIDE DEF IsRight
  <2> QED
    BY <2>1
<1>2. ASSUME NEW k \in Nat, k \in G
      PROVE  k + 1 \in G
  <2>1. PICK g : IsRight(g, k)
    BY <1>2
  <2>2. \A w \in D : R(g)[w] = DiffAt(g, w)
    OBVIOUS
  <2> DEFINE h == R(g)
  <2> HIDE DEF h
  <2>3. ASSUME NEW w \in D, Height(w) < k + 1
        PROVE  h[w] = DiffAt(h, w)
    <3>1. \A x \in D : Height(x) < Height(w) => g[x] = h[x]
      <4> SUFFICES ASSUME NEW x \in D, Height(x) < Height(w)
                   PROVE  g[x] = h[x]
        OBVIOUS
      <4>1. Height(x) < k
        BY <2>3, HeightIsNatural
      <4>2. g[x] = DiffAt(g, x)
        BY <4>1, <2>1
      <4> QED
        BY <4>2, <2>2 DEF h
    <3>2. DiffAt(g, w) = DiffAt(h, w)
      BY <3>1, SameDiffs
    <3> QED
      BY <3>2, <2>2 DEF h
  <2>4. IsRight(h, k + 1)
    BY <2>3
  <2> HIDE DEF IsRight
  <2> QED
    BY <2>4
<1>3. PICK g : IsRight(g, N)
  <2> HIDE DEF G
  <2>1. Nat \subseteq G
    BY <1>1, <1>2, Induction
  <2>2. N \in G
    BY <1>0, <2>1
  <2> QED
    BY <2>2 DEF G
<1>4. \A w \in D : g[w] = DiffAt(g, w)
  BY <1>3, HeightIsNatural DEF N
<1> DEFINE h == R(g)
<1>5. \A w \in D : h[w] = g[w]
  BY <1>4
<1>6. \A w \in D : DiffAt(g, w) = DiffAt(h, w)
  <2> HIDE DEF h
  <2> QED
    BY <1>5, SameDiffs
<1>7. h = [w \in D |-> DiffAt(h, w)]
  <2>1. h = [w \in D |-> DiffAt(g, w)]
    OBVIOUS
  <2> HIDE DEF h
  <2> QED
    BY <2>1, <1>6
<1> HIDE DEF h
<1> QED
  BY <1>7 DEF AreDiffs

\* So DiffLines writes one of them.
LEMMA DiffLinesEquation ==
  ASSUME AreTexts, NEW window
  PROVE  \E g : AreDiffs(g) /\ DiffLines(window) = g[window]
<1> DEFINE g == CHOOSE h : AreDiffs(h)
<1>1. DiffLines(window) = g[window]
  BY DEF DiffLines, AreDiffs, DiffAt, DiffWindows, PairsOf, FirstPair, Apart
<1>2. AreDiffs(g)
  BY DiffsExist, Zenon
<1> QED
  BY <1>1, <1>2

\* The lines of a window written apart lead through it.
LEMMA ApartWrites ==
  ASSUME AreTexts, NEW w \in DiffWindows, w[1] <= w[2], w[3] <= w[4]
  PROVE  Writes(Apart(w), <<w[1], w[3]>>, <<w[2], w[4]>>)
<1> DEFINE a == w[1]
           b == w[2]
           c == w[3]
           d == w[4]
<1>0. Len(from) \in Nat /\ Len(to) \in Nat
  BY LenProperties DEF AreTexts
<1>1. /\ a \in Nat /\ b \in Nat /\ c \in Nat /\ d \in Nat
      /\ a <= b /\ c <= d /\ b <= Len(from) /\ d <= Len(to)
  BY <1>0 DEF DiffWindows
<1>2. Apart(w) = IF d - c < b - a THEN Inserted(c, d) \o Deleted(a, b) ELSE Deleted(a, b) \o Inserted(c, d)
  BY DEF Apart
<1> HIDE DEF a, b, c, d
<1>3. Writes(Inserted(c, d), <<a, c>>, <<a, d>>) /\ Writes(Inserted(c, d), <<b, c>>, <<b, d>>)
  BY <1>1, InsertedWrites
<1>4. Writes(Deleted(a, b), <<a, c>>, <<b, c>>) /\ Writes(Deleted(a, b), <<a, d>>, <<b, d>>)
  BY <1>1, DeletedWrites
<1>5. Writes(Inserted(c, d) \o Deleted(a, b), <<a, c>>, <<b, d>>)
  BY <1>3, <1>4, WritesBoth
<1>6. Writes(Deleted(a, b) \o Inserted(c, d), <<a, c>>, <<b, d>>)
  BY <1>3, <1>4, WritesBoth
<1>7. Writes(Apart(w), <<a, c>>, <<b, d>>)
  BY <1>2, <1>5, <1>6
<1> QED
  BY <1>7 DEF a, b, c, d

\* A pair of lines leads past both.
LEMMA DiffLineWrites ==
  ASSUME AreTexts, NEW i \in Nat, NEW j \in Nat, i < Len(from), j < Len(to)
  PROVE  Writes(DiffLine(i, j), <<i, j>>, <<i + 1, j + 1>>)
<1> DEFINE k == i + 1
           m == j + 1
<1>0. Len(from) \in Nat /\ Len(to) \in Nat
  BY LenProperties DEF AreTexts
<1>1. k \in Nat /\ m \in Nat /\ i <= k /\ j <= m /\ k <= Len(from) /\ m <= Len(to)
  BY <1>0
<1>2. DiffLine(i, j) = Deleted(i, k) \o Inserted(j, m)
  BY DEF DiffLine
<1> HIDE DEF k, m
<1>3. Writes(Deleted(i, k), <<i, j>>, <<k, j>>) /\ Writes(Inserted(j, m), <<k, j>>, <<k, m>>)
  BY <1>1, DeletedWrites, InsertedWrites
<1>4. Writes(DiffLine(i, j), <<i, j>>, <<k, m>>)
  BY <1>2, <1>3, WritesBoth
<1> QED
  BY <1>4 DEF k, m

\* A pair of lines, and what is written before and after it, lead through the window.
LEMMA PairedWrites ==
  ASSUME AreTexts, NEW w \in DiffWindows, NEW p, IsPairIn(p, w), NEW x, NEW y,
         Writes(x, <<w[1], w[3]>>, <<p[1], p[2]>>),
         Writes(y, <<p[1] + 1, p[2] + 1>>, <<w[2], w[4]>>)
  PROVE  Writes(x \o DiffLine(p[1], p[2]) \o y, <<w[1], w[3]>>, <<w[2], w[4]>>)
<1>0. Len(from) \in Nat /\ Len(to) \in Nat
  BY LenProperties DEF AreTexts
<1>1. p[1] \in Nat /\ p[2] \in Nat /\ p[1] < Len(from) /\ p[2] < Len(to)
  BY <1>0 DEF DiffWindows, IsPairIn
<1>2. Writes(DiffLine(p[1], p[2]), <<p[1], p[2]>>, <<p[1] + 1, p[2] + 1>>)
  BY <1>1, DiffLineWrites
<1>3. Writes(x \o DiffLine(p[1], p[2]), <<w[1], w[3]>>, <<p[1] + 1, p[2] + 1>>)
  BY <1>2, WritesBoth
<1> QED
  BY <1>3, WritesBoth

\* What is written for a window leads through it.
LEMMA DiffsWrite ==
  ASSUME AreTexts, NEW g, AreDiffs(g), NEW window \in DiffWindows,
         window[1] <= window[2], window[3] <= window[4]
  PROVE  Writes(g[window], <<window[1], window[3]>>, <<window[2], window[4]>>)
<1> DEFINE IsRight(w) == w[1] <= w[2] /\ w[3] <= w[4] => Writes(g[w], <<w[1], w[3]>>, <<w[2], w[4]>>)
           G == {k \in Nat : \A w \in DiffWindows : Height(w) < k => IsRight(w)}
<1>0. \A w \in DiffWindows : g[w] = DiffAt(g, w)
  BY DEF AreDiffs
<1>1. 0 \in G
  BY HeightIsNatural
<1>2. ASSUME NEW k \in Nat, k \in G
      PROVE  k + 1 \in G
  <2>1. \A w \in DiffWindows : Height(w) < k => IsRight(w)
    BY <1>2
  <2>2. ASSUME NEW w \in DiffWindows, Height(w) < k + 1
        PROVE  IsRight(w)
    <3> SUFFICES ASSUME w[1] <= w[2], w[3] <= w[4]
                 PROVE  Writes(g[w], <<w[1], w[3]>>, <<w[2], w[4]>>)
      OBVIOUS
    <3>1. CASE PairsOf(w) = {}
      BY <3>1, <1>0, ApartWrites DEF DiffAt
    <3>2. CASE PairsOf(w) # {}
      <4> DEFINE p == FirstPair(w)
                 u == Upper(w, p)
                 l == Lower(w, p)
      <4>1. IsPairIn(p, w)
        BY <3>2, FirstPairIsInWindow
      <4>2. g[w] = g[u] \o DiffLine(p[1], p[2]) \o g[l]
        BY <3>2, <1>0 DEF DiffAt
      <4> HIDE DEF p
      <4>3. /\ u \in DiffWindows /\ l \in DiffWindows
            /\ Height(u) < Height(w) /\ Height(l) < Height(w)
        BY <4>1, SmallerDiffWindows
      <4>4. /\ u[1] = w[1] /\ u[2] = p[1] /\ u[3] = w[3] /\ u[4] = p[2]
            /\ l[1] = p[1] + 1 /\ l[2] = w[2] /\ l[3] = p[2] + 1 /\ l[4] = w[4]
        BY DEF Upper, Lower
      <4> HIDE DEF u, l
      <4>5. Height(u) < k /\ Height(l) < k
        BY <2>2, <4>3, HeightIsNatural
      <4>6. u[1] <= u[2] /\ u[3] <= u[4] /\ l[1] <= l[2] /\ l[3] <= l[4]
        <5>1. w[2] \in Nat /\ w[4] \in Nat
          BY DEF DiffWindows
        <5> QED
          BY <4>1, <4>4, <5>1 DEF IsPairIn
      <4>7. IsRight(u) /\ IsRight(l)
        BY <2>1, <4>3, <4>5
      <4>8. Writes(g[u], <<w[1], w[3]>>, <<p[1], p[2]>>)
        BY <4>4, <4>6, <4>7
      <4>9. Writes(g[l], <<p[1] + 1, p[2] + 1>>, <<w[2], w[4]>>)
        BY <4>4, <4>6, <4>7
      <4> QED
        BY <4>1, <4>2, <4>8, <4>9, PairedWrites
    <3> QED
      BY <3>1, <3>2
  <2> HIDE DEF IsRight
  <2> QED
    BY <2>2
<1>3. Height(window) + 1 \in G
  <2> HIDE DEF G
  <2>1. Nat \subseteq G
    BY <1>1, <1>2, Induction
  <2> QED
    BY <2>1, HeightIsNatural
<1>4. IsRight(window)
  BY <1>3, HeightIsNatural
<1> QED
  BY <1>4

\* diff_lines() writes lines that lead through the window.
LEMMA DiffLinesWrite ==
  ASSUME AreTexts, NEW i \in Nat, NEW j \in Nat, NEW m \in Nat, NEW n \in Nat,
         i <= j, j <= Len(from), m <= n, n <= Len(to)
  PROVE  Writes(DiffLines(<<i, j, m, n>>), <<i, m>>, <<j, n>>)
<1> DEFINE w == <<i, j, m, n>>
<1>0. Len(from) \in Nat /\ Len(to) \in Nat
  BY LenProperties DEF AreTexts
<1>1. w \in DiffWindows /\ w[1] = i /\ w[2] = j /\ w[3] = m /\ w[4] = n
  BY <1>0 DEF DiffWindows
<1> HIDE DEF w
<1>2. PICK g : AreDiffs(g) /\ DiffLines(w) = g[w]
  BY DiffLinesEquation
<1>3. Writes(g[w], <<i, m>>, <<j, n>>)
  BY <1>1, <1>2, DiffsWrite
<1> QED
  BY <1>2, <1>3 DEF w

-----------------------------------------------------------------------------
\* An operation of the two texts; the equal elements may be none.
IsCut(o) ==
  /\ o \in OperationRecords
  /\ o.fb <= o.fe /\ o.fe <= Len(from) /\ o.tb <= o.te /\ o.te <= Len(to)
  /\ o.type = "equal" => /\ o.fe - o.fb = o.te - o.tb
                         /\ \A d \in 0 .. o.fe - o.fb - 1 : At(from, o.fb + d) = At(to, o.tb + d)
  /\ o.type = "insert" => o.fb = o.fe
  /\ o.type = "delete" => o.tb = o.te
BeginOf(o) == <<o.fb, o.tb>>
EndOf(o) == <<o.fe, o.te>>

\* Operations of which each begins where the one before it ends.
AreCuts(os) ==
  /\ os \in Seq(OperationRecords) /\ Len(os) \in Nat /\ Len(os) > 0 /\ DOMAIN os = 1 .. Len(os)
  /\ \A i \in 1 .. Len(os) : IsCut(os[i])
  /\ \A i \in 2 .. Len(os) : Follows(os[i - 1], os[i])

\* What is written for an operation leads through it.
LEMMA OperationWrites ==
  ASSUME AreTexts, NEW o, IsCut(o)
  PROVE  Writes(DiffOperation(o), BeginOf(o), EndOf(o))
<1> DEFINE a == o.fb
           b == o.fe
           c == o.tb
           d == o.te
<1>0. Len(from) \in Nat /\ Len(to) \in Nat
  BY LenProperties DEF AreTexts
<1>1. /\ o.type \in {"equal", "insert", "delete", "replace"}
      /\ a \in Nat /\ b \in Nat /\ c \in Nat /\ d \in Nat
      /\ a <= b /\ c <= d /\ b <= Len(from) /\ d <= Len(to)
  BY DEF IsCut, OperationRecords
<1>2. /\ o.type = "equal" => b - a = d - c /\ \A e \in 0 .. b - a - 1 : At(from, a + e) = At(to, c + e)
      /\ o.type = "insert" => a = b
      /\ o.type = "delete" => c = d
  BY DEF IsCut
<1>3. BeginOf(o) = <<a, c>> /\ EndOf(o) = <<b, d>>
  BY DEF BeginOf, EndOf
<1>4. /\ o.type = "equal" => DiffOperation(o) = Marked("equal", from, a, b)
      /\ o.type = "insert" => DiffOperation(o) = Inserted(c, d)
      /\ o.type = "delete" => DiffOperation(o) = Deleted(a, b)
      /\ o.type = "replace" => DiffOperation(o) = IF class = "unified" THEN Deleted(a, b) \o Inserted(c, d)
                                                  ELSE DiffLines(<<a, b, c, d>>)
  BY DEF DiffOperation
<1> HIDE DEF a, b, c, d
<1>5. CASE o.type = "equal"
  <2>1. b - a = d - c /\ c + (b - a) <= Len(to) /\ c + (b - a) = d
    BY <1>0, <1>1, <1>2, <1>5
  <2>2. \A e \in 0 .. b - a - 1 : At(from, a + e) = At(to, c + e)
    BY <1>2, <1>5
  <2>3. Writes(Marked("equal", from, a, b), <<a, c>>, <<b, c + (b - a)>>)
    BY <1>1, <2>1, <2>2, EqualWrites
  <2> QED
    BY <1>3, <1>4, <1>5, <2>1, <2>3
<1>6. CASE o.type = "insert"
  <2>1. Writes(Inserted(c, d), <<a, c>>, <<a, d>>)
    BY <1>1, InsertedWrites
  <2> QED
    BY <1>2, <1>3, <1>4, <1>6, <2>1
<1>7. CASE o.type = "delete"
  <2>1. Writes(Deleted(a, b), <<a, c>>, <<b, c>>)
    BY <1>1, DeletedWrites
  <2> QED
    BY <1>2, <1>3, <1>4, <1>7, <2>1
<1>8. CASE o.type = "replace"
  <2>1. Writes(DiffLines(<<a, b, c, d>>), <<a, c>>, <<b, d>>)
    BY <1>1, DiffLinesWrite
  <2>2. Writes(Deleted(a, b), <<a, c>>, <<b, c>>) /\ Writes(Inserted(c, d), <<b, c>>, <<b, d>>)
    BY <1>1, DeletedWrites, InsertedWrites
  <2>3. Writes(Deleted(a, b) \o Inserted(c, d), <<a, c>>, <<b, d>>)
    BY <2>2, WritesBoth
  <2> QED
    BY <1>3, <1>4, <1>8, <2>1, <2>3
<1> QED
  BY <1>1, <1>5, <1>6, <1>7, <1>8

\* What is written for operations leads through them.
LEMMA OperationsWrite ==
  ASSUME AreTexts, NEW os, AreCuts(os)
  PROVE  Writes(DiffOperations(os), BeginOf(os[1]), EndOf(os[Len(os)]))
<1> DEFINE n == Len(os)
           ss == [i \in 1 .. n |-> DiffOperation(os[i])]
           p == BeginOf(os[1])
<1>1. /\ n \in Nat /\ n > 0 /\ DOMAIN os = 1 .. n
      /\ \A i \in 1 .. n : IsCut(os[i])
      /\ \A i \in 2 .. n : Follows(os[i - 1], os[i])
  BY DEF AreCuts
<1> HIDE DEF n
<1>2. \A i \in 1 .. n : Writes(DiffOperation(os[i]), BeginOf(os[i]), EndOf(os[i]))
  BY <1>1, OperationWrites
<1>3. ss \in [1 .. n -> Seq(TextLines)] /\ \A i \in 1 .. n : ss[i] = DiffOperation(os[i])
  BY <1>2 DEF Writes
<1>4. DiffOperations(os) = FlattenSeq(ss)
  BY <1>1 DEF DiffOperations
<1> HIDE DEF ss
<1>5. ss \in Seq(Seq(TextLines)) /\ Len(ss) = n
  BY <1>1, <1>3, FunctionIsSeq
<1>6. PICK F : IsFlat(TextLines, ss, F)
  BY <1>5, FlattenIs
<1>7. /\ F[0] = <<>> /\ FlattenSeq(ss) = F[n]
      /\ \A k \in 1 .. n : F[k] = F[k - 1] \o ss[k]
  BY <1>5, <1>6 DEF IsFlat
<1> DEFINE After(k) == IF k = 0 THEN p ELSE EndOf(os[k])
           G == {k \in 0 .. n : Writes(F[k], p, After(k))}
<1>8. 0 \in G
  <2>1. p \in Places
    <3>1. IsCut(os[1])
      BY <1>1
    <3> QED
      BY <3>1 DEF IsCut, OperationRecords, BeginOf, Places
  <2>2. Writes(F[0], p, p)
    BY <2>1, <1>7, WritesNone
  <2> QED
    BY <1>1, <2>2
<1>9. ASSUME NEW k \in 1 .. n, k - 1 \in G
      PROVE  k \in G
  <2>1. Writes(F[k - 1], p, After(k - 1))
    BY <1>9
  <2>2. After(k - 1) = BeginOf(os[k])
    <3>1. CASE k = 1
      BY <3>1
    <3>2. CASE k # 1
      <4>1. k \in 2 .. n /\ k - 1 # 0
        BY <3>2, <1>1
      <4>2. Follows(os[k - 1], os[k])
        BY <4>1, <1>1
      <4> QED
        BY <4>1, <4>2 DEF Follows, BeginOf, EndOf
    <3> QED
      BY <3>1, <3>2
  <2>3. Writes(ss[k], BeginOf(os[k]), EndOf(os[k]))
    BY <1>2, <1>3
  <2>4. After(k) = EndOf(os[k]) /\ k \in 0 .. n
    BY <1>1
  <2> HIDE DEF After, p
  <2>5. Writes(F[k], p, After(k))
    BY <2>1, <2>2, <2>3, <2>4, <1>7, WritesBoth
  <2> QED
    BY <2>4, <2>5
<1>10. n \in G
  <2> HIDE DEF G
  <2>1. \A i \in 0 .. n : i \in G
    BY <1>1, <1>8, <1>9, InductionUpTo
  <2> QED
    BY <2>1, <1>1
<1>11. Writes(F[n], p, EndOf(os[n]))
  BY <1>1, <1>10
<1> QED
  BY <1>4, <1>7, <1>11 DEF n

-----------------------------------------------------------------------------
\* Texts that have the same elements between two places are the same there.
LEMMA SameElements ==
  ASSUME AreTexts, NEW i \in Nat, NEW j \in Nat, NEW k \in Nat, NEW l \in Nat,
         i <= k, k <= Len(from), j <= l, l <= Len(to), k - i = l - j,
         \A d \in 0 .. k - i - 1 : At(from, i + d) = At(to, j + d)
  PROVE  IsSame(<<i, j>>, <<k, l>>)
<1> DEFINE x == SubSeq(from, i + 1, k)
           y == SubSeq(to, j + 1, l)
<1>1. IsPart(Lines, from, i, k, x) /\ IsPart(Lines, to, j, l, y)
  BY PartOf DEF AreTexts
<1>2. /\ x \in Seq(Lines) /\ Len(x) = k - i /\ \A d \in 1 .. k - i : x[d] = At(from, (i + d) - 1)
      /\ y \in Seq(Lines) /\ Len(y) = k - i /\ \A d \in 1 .. k - i : y[d] = At(to, (j + d) - 1)
  BY <1>1 DEF IsPart
<1> HIDE DEF x, y
<1>3. ASSUME NEW d \in 1 .. k - i
      PROVE  x[d] = y[d]
  <2>1. PICK e \in 0 .. k - i - 1 : i + e = (i + d) - 1 /\ j + e = (j + d) - 1
    <3>1. d - 1 \in 0 .. k - i - 1 /\ i + (d - 1) = (i + d) - 1 /\ j + (d - 1) = (j + d) - 1
      OBVIOUS
    <3> QED
      BY <3>1
  <2>2. At(from, (i + d) - 1) = At(to, (j + d) - 1)
    BY <2>1
  <2> QED
    BY <1>2, <2>2
<1>4. x = y
  BY <1>2, <1>3, SeqEqual
<1> QED
  BY <1>4 DEF x, y, IsSame

\* A place is the same as itself.
LEMMA SamePlace ==
  ASSUME AreTexts, NEW p \in Places, p[1] <= Len(from), p[2] <= Len(to)
  PROVE  IsSame(p, p)
<1> DEFINE i == p[1]
           j == p[2]
<1>1. i \in Nat /\ j \in Nat /\ p = <<i, j>>
  BY DEF Places
<1>2. i <= Len(from) /\ j <= Len(to)
  OBVIOUS
<1> HIDE DEF i, j
<1>3. IsSame(<<i, j>>, <<i, j>>)
  BY <1>1, <1>2, SameElements
<1> QED
  BY <1>1, <1>3

\* The last equal elements are equal, and what is before them is the same.
LEMMA EndingIsCut ==
  ASSUME AreTexts, NEW o, IsCut(o), o.type = "equal", NEW n \in Nat
  PROVE  /\ IsCut(Ending(o, n)) /\ Ending(o, n).type = "equal"
         /\ EndOf(Ending(o, n)) = EndOf(o) /\ IsSame(BeginOf(o), BeginOf(Ending(o, n)))
<1> DEFINE a == o.fb
           b == o.fe
           c == o.tb
           d == o.te
           x == Max({a, b - n})
           y == Max({c, d - n})
           e == Ending(o, n)
<1>1. /\ a \in Nat /\ b \in Nat /\ c \in Nat /\ d \in Nat
      /\ a <= b /\ c <= d /\ b <= Len(from) /\ d <= Len(to) /\ b - a = d - c
      /\ \A i \in 0 .. b - a - 1 : At(from, a + i) = At(to, c + i)
  BY DEF IsCut, OperationRecords
<1>2. o = [type |-> "equal", fb |-> a, fe |-> b, tb |-> c, te |-> d]
  BY DEF IsCut, OperationRecords
<1>0. e = [o EXCEPT !.fb = x, !.tb = y]
  BY DEF Ending
<1> HIDE DEF a, b, c, d, e
<1>4. x = (IF a <= b - n THEN b - n ELSE a) /\ y = (IF c <= d - n THEN d - n ELSE c)
  BY <1>1, MaxOfTwo
<1> HIDE DEF x, y
<1>3. e = [type |-> "equal", fb |-> x, fe |-> b, tb |-> y, te |-> d]
  BY <1>0, <1>2
<1>5. x \in Nat /\ y \in Nat /\ a <= x /\ x <= b /\ c <= y /\ y <= d /\ x - a = y - c /\ b - x = d - y
  BY <1>1, <1>4
<1>6. \A i \in 0 .. b - x - 1 : At(from, x + i) = At(to, y + i)
  <2> SUFFICES ASSUME NEW i \in 0 .. b - x - 1
               PROVE  At(from, x + i) = At(to, y + i)
    OBVIOUS
  <2>1. PICK k \in 0 .. b - a - 1 : a + k = x + i /\ c + k = y + i
    <3>1. (x - a) + i \in 0 .. b - a - 1 /\ a + ((x - a) + i) = x + i /\ c + ((x - a) + i) = y + i
      BY <1>1, <1>5
    <3> QED
      BY <3>1
  <2>2. At(from, a + k) = At(to, c + k)
    BY <1>1
  <2> QED
    BY <2>1, <2>2
<1>7. \A i \in 0 .. x - a - 1 : At(from, a + i) = At(to, c + i)
  <2>1. \A i \in 0 .. x - a - 1 : i \in 0 .. b - a - 1
    BY <1>1, <1>5
  <2> QED
    BY <2>1, <1>1
<1>8. IsCut(e) /\ e.type = "equal"
  <2>1. e \in OperationRecords
    BY <1>1, <1>3, <1>5 DEF OperationRecords
  <2> QED
    BY <2>1, <1>1, <1>3, <1>5, <1>6 DEF IsCut
<1>9. EndOf(e) = <<b, d>> /\ BeginOf(e) = <<x, y>> /\ EndOf(o) = <<b, d>> /\ BeginOf(o) = <<a, c>>
  BY <1>3 DEF EndOf, BeginOf, a, b, c, d
<1>10. x <= Len(from) /\ y <= Len(to)
  <2>1. Len(from) \in Nat /\ Len(to) \in Nat
    BY LenProperties DEF AreTexts
  <2> QED
    BY <2>1, <1>1, <1>5
<1>11. IsSame(<<a, c>>, <<x, y>>)
  BY <1>1, <1>5, <1>7, <1>10, SameElements
<1> QED
  BY <1>8, <1>9, <1>11 DEF e

\* The first equal elements are equal, and what is after them is the same.
LEMMA BeginningIsCut ==
  ASSUME AreTexts, NEW o, IsCut(o), o.type = "equal", NEW n \in Nat
  PROVE  /\ IsCut(Beginning(o, n)) /\ Beginning(o, n).type = "equal"
         /\ BeginOf(Beginning(o, n)) = BeginOf(o) /\ IsSame(EndOf(Beginning(o, n)), EndOf(o))
<1> DEFINE a == o.fb
           b == o.fe
           c == o.tb
           d == o.te
           x == Min({b, a + n})
           y == Min({d, c + n})
           e == Beginning(o, n)
<1>1. /\ a \in Nat /\ b \in Nat /\ c \in Nat /\ d \in Nat
      /\ a <= b /\ c <= d /\ b <= Len(from) /\ d <= Len(to) /\ b - a = d - c
      /\ \A i \in 0 .. b - a - 1 : At(from, a + i) = At(to, c + i)
  BY DEF IsCut, OperationRecords
<1>2. o = [type |-> "equal", fb |-> a, fe |-> b, tb |-> c, te |-> d]
  BY DEF IsCut, OperationRecords
<1>0. e = [o EXCEPT !.fe = x, !.te = y]
  BY DEF Beginning
<1> HIDE DEF a, b, c, d, e
<1>4. x = (IF b <= a + n THEN b ELSE a + n) /\ y = (IF d <= c + n THEN d ELSE c + n)
  BY <1>1, MinOfTwo
<1> HIDE DEF x, y
<1>3. e = [type |-> "equal", fb |-> a, fe |-> x, tb |-> c, te |-> y]
  BY <1>0, <1>2
<1>5. x \in Nat /\ y \in Nat /\ a <= x /\ x <= b /\ c <= y /\ y <= d /\ x - a = y - c /\ b - x = d - y
  BY <1>1, <1>4
<1>6. \A i \in 0 .. b - x - 1 : At(from, x + i) = At(to, y + i)
  <2> SUFFICES ASSUME NEW i \in 0 .. b - x - 1
               PROVE  At(from, x + i) = At(to, y + i)
    OBVIOUS
  <2>1. PICK k \in 0 .. b - a - 1 : a + k = x + i /\ c + k = y + i
    <3>1. (x - a) + i \in 0 .. b - a - 1 /\ a + ((x - a) + i) = x + i /\ c + ((x - a) + i) = y + i
      BY <1>1, <1>5
    <3> QED
      BY <3>1
  <2>2. At(from, a + k) = At(to, c + k)
    BY <1>1
  <2> QED
    BY <2>1, <2>2
<1>7. \A i \in 0 .. x - a - 1 : At(from, a + i) = At(to, c + i)
  <2>1. \A i \in 0 .. x - a - 1 : i \in 0 .. b - a - 1
    BY <1>1, <1>5
  <2> QED
    BY <2>1, <1>1
<1>10. x <= Len(from) /\ y <= Len(to)
  <2>1. Len(from) \in Nat /\ Len(to) \in Nat
    BY LenProperties DEF AreTexts
  <2> QED
    BY <2>1, <1>1, <1>5
<1>8. IsCut(e) /\ e.type = "equal"
  <2>1. e \in OperationRecords
    BY <1>1, <1>3, <1>5 DEF OperationRecords
  <2> QED
    BY <2>1, <1>1, <1>3, <1>5, <1>7, <1>10 DEF IsCut
<1>9. EndOf(e) = <<x, y>> /\ BeginOf(e) = <<a, c>> /\ EndOf(o) = <<b, d>> /\ BeginOf(o) = <<a, c>>
  BY <1>3 DEF EndOf, BeginOf, a, b, c, d
<1>11. IsSame(<<x, y>>, <<b, d>>)
  BY <1>1, <1>5, <1>6, SameElements
<1> QED
  BY <1>8, <1>9, <1>11 DEF e

Origin == <<0, 0>>
End == <<Len(from), Len(to)>>

\* Operations that leave out what is the same before and after them.
AreEdged(os) ==
  AreCuts(os) /\ IsSame(Origin, BeginOf(os[1])) /\ IsSame(EndOf(os[Len(os)]), End)

\* An operation follows another one where that one ends.
LEMMA FollowsIs ==
  ASSUME NEW o, NEW p
  PROVE  Follows(o, p) <=> EndOf(o) = BeginOf(p)
BY DEF Follows, EndOf, BeginOf

\* What the matcher answers has the form that is asked of operations here.
LEMMA OperationIsCut ==
  ASSUME NEW o, IsOperation(from, to, {}, o)
  PROVE  IsCut(o)
BY DEF IsOperation, IsCut

\* They begin where the texts begin and end where the texts end.
LEMMA LeadingOperations ==
  ASSUME AreTexts, NEW os, Leads(from, to, {}, os, 0, 0, Len(from), Len(to)), os # <<>>
  PROVE  AreCuts(os) /\ BeginOf(os[1]) = Origin /\ EndOf(os[Len(os)]) = End
<1>1. /\ os \in Seq(OperationRecords) /\ \A i \in 1 .. Len(os) : IsOperation(from, to, {}, os[i])
      /\ \A i \in 2 .. Len(os) : Follows(os[i - 1], os[i])
      /\ os[1].fb = 0 /\ os[1].tb = 0 /\ os[Len(os)].fe = Len(from) /\ os[Len(os)].te = Len(to)
  BY DEF Leads
<1>2. Len(os) \in Nat /\ Len(os) > 0 /\ DOMAIN os = 1 .. Len(os)
  BY <1>1, LenProperties, EmptySeq
<1>3. \A i \in 1 .. Len(os) : IsCut(os[i])
  BY <1>1, OperationIsCut
<1> QED
  BY <1>1, <1>2, <1>3 DEF AreCuts, BeginOf, EndOf, Origin, End

\* Where the texts begin and end are places of them.
LEMMA EndIsAPlace ==
  ASSUME AreTexts
  PROVE  Origin \in Places /\ End \in Places /\ IsSame(Origin, Origin) /\ IsSame(End, End)
<1>1. Len(from) \in Nat /\ Len(to) \in Nat
  BY LenProperties DEF AreTexts
<1>2. Origin \in Places /\ End \in Places
  BY <1>1 DEF Places, Origin, End
<1>3. IsSame(<<0, 0>>, <<0, 0>>)
  BY <1>1, SameElements
<1>4. IsSame(<<Len(from), Len(to)>>, <<Len(from), Len(to)>>)
  BY <1>1, SameElements
<1> QED
  BY <1>2, <1>3, <1>4 DEF Origin, End

\* The only operation of two empty texts.
LEMMA NoOperations ==
  ASSUME AreTexts, Len(from) = 0, Len(to) = 0
  PROVE  AreEdged(<<Operation("equal", 0, 0, 0, 0)>>)
<1> DEFINE o == Operation("equal", 0, 0, 0, 0)
           os == <<o>>
<1>1. o = [type |-> "equal", fb |-> 0, fe |-> 0, tb |-> 0, te |-> 0]
  BY DEF Operation
<1>2. o \in OperationRecords
  BY <1>1 DEF OperationRecords
<1> HIDE DEF o
<1>3. os \in Seq(OperationRecords) /\ Len(os) = 1 /\ os[1] = o /\ DOMAIN os = 1 .. 1
  BY <1>2
<1>4. IsCut(o)
  BY <1>1, <1>2 DEF IsCut
<1>5. \A i \in 1 .. Len(os) : IsCut(os[i])
  BY <1>3, <1>4
<1>6. BeginOf(o) = Origin /\ EndOf(o) = End
  BY <1>1 DEF BeginOf, EndOf, Origin, End
<1> HIDE DEF os
<1>7. AreCuts(os)
  BY <1>3, <1>5 DEF AreCuts
<1>8. AreEdged(os)
  BY <1>3, <1>6, <1>7, EndIsAPlace DEF AreEdged
<1> QED
  BY <1>8 DEF os, o

\* get_edge_expanded_copied_operations() leaves out what is the same.
LEMMA EdgesCutIsRight ==
  ASSUME AreTexts, NEW n \in Nat, NEW os, Leads(from, to, {}, os, 0, 0, Len(from), Len(to))
  PROVE  AreEdged(EdgesCut(os, n))
<1>1. CASE os = <<>>
  <2>1. Len(from) = 0 /\ Len(to) = 0
    BY <1>1 DEF Leads
  <2>2. EdgesCut(os, n) = <<Operation("equal", 0, 0, 0, 0)>>
    BY <1>1 DEF EdgesCut
  <2> QED
    BY <2>1, <2>2, NoOperations
<1>2. CASE os # <<>>
  <2> DEFINE m == Len(os)
             c == EdgesCut(os, n)
             AtEdge(i) == IF os[i].type # "equal" THEN os[i]
                          ELSE IF i = 1 THEN Ending(os[i], n)
                          ELSE IF i = m THEN Beginning(os[i], n)
                          ELSE os[i]
  <2>1. AreCuts(os) /\ BeginOf(os[1]) = Origin /\ EndOf(os[m]) = End
    BY <1>2, LeadingOperations
  <2>2. /\ m \in Nat /\ m > 0 /\ DOMAIN os = 1 .. m
        /\ \A i \in 1 .. m : IsCut(os[i])
        /\ \A i \in 2 .. m : EndOf(os[i - 1]) = BeginOf(os[i])
    BY <2>1, FollowsIs DEF AreCuts
  <2>3. c = [i \in 1 .. m |-> AtEdge(i)]
    BY <1>2, <2>2 DEF EdgesCut
  <2>4. \A i \in 1 .. m : c[i] = AtEdge(i)
    BY <2>3
  <2> HIDE DEF c, m
  <2>5. ASSUME NEW i \in 1 .. m
        PROVE  /\ IsCut(c[i])
               /\ i # 1 => BeginOf(c[i]) = BeginOf(os[i])
               /\ i # m \/ i = 1 => EndOf(c[i]) = EndOf(os[i])
    <3>1. IsCut(os[i]) /\ c[i] = AtEdge(i)
      BY <2>2, <2>4
    <3> QED
      BY <3>1, EndingIsCut, BeginningIsCut
  <2>6. c \in Seq(OperationRecords) /\ Len(c) = m /\ DOMAIN c = 1 .. m
    <3>1. \A i \in 1 .. m : c[i] \in OperationRecords
      BY <2>5 DEF IsCut
    <3>2. c \in [1 .. m -> OperationRecords]
      BY <2>3, <3>1
    <3> QED
      BY <2>2, <3>2, FunctionIsSeq
  <2>7. \A i \in 2 .. m : Follows(c[i - 1], c[i])
    <3> SUFFICES ASSUME NEW i \in 2 .. m
                 PROVE  EndOf(c[i - 1]) = BeginOf(c[i])
      BY FollowsIs
    <3>1. i \in 1 .. m /\ i - 1 \in 1 .. m /\ i # 1 /\ i - 1 # m
      BY <2>2
    <3> QED
      BY <3>1, <2>2, <2>5
  <2>8. AreCuts(c)
    BY <2>2, <2>5, <2>6, <2>7 DEF AreCuts
  <2>9. 1 \in 1 .. m /\ m \in 1 .. m
    BY <2>2
  <2>10. IsSame(Origin, BeginOf(c[1]))
    <3>1. IsCut(os[1]) /\ c[1] = AtEdge(1)
      BY <2>2, <2>4, <2>9
    <3>2. CASE os[1].type = "equal"
      BY <3>1, <3>2, <2>1, EndingIsCut
    <3>3. CASE os[1].type # "equal"
      BY <3>1, <3>3, <2>1, EndIsAPlace
    <3> QED
      BY <3>2, <3>3
  <2>11. IsSame(EndOf(c[m]), End)
    <3>1. IsCut(os[m]) /\ c[m] = AtEdge(m) /\ EndOf(os[m]) = End
      BY <2>1, <2>2, <2>4, <2>9 DEF m
    <3>2. CASE os[m].type = "equal" /\ m # 1
      BY <3>1, <3>2, BeginningIsCut
    <3>3. CASE ~(os[m].type = "equal" /\ m # 1)
      <4>1. EndOf(c[m]) = End
        <5>1. CASE m = 1
          BY <5>1, <3>1, <2>5, <2>9
        <5>2. CASE m # 1
          BY <5>2, <3>1, <3>3
        <5> QED
          BY <5>1, <5>2
      <4> QED
        BY <4>1, EndIsAPlace
    <3> QED
      BY <3>2, <3>3
  <2>12. AreEdged(c)
    BY <2>6, <2>8, <2>10, <2>11 DEF AreEdged
  <2> QED
    BY <2>12 DEF c
<1> QED
  BY <1>1, <1>2

-----------------------------------------------------------------------------
StartOf(g) == BeginOf(g[1])
StopOf(g) == EndOf(g[Len(g)])

\* Groups of operations, each before the next, with the same between them.
AreGroups(gs) ==
  /\ gs \in Seq(Seq(OperationRecords)) /\ Len(gs) \in Nat /\ Len(gs) > 0 /\ DOMAIN gs = 1 .. Len(gs)
  /\ \A i \in 1 .. Len(gs) : AreCuts(gs[i])
  /\ IsSame(Origin, StartOf(gs[1]))
  /\ \A i \in 2 .. Len(gs) : IsSame(StopOf(gs[i - 1]), StartOf(gs[i]))

\* Groups that end at a place.
AreGroupsTo(gs, p) == AreGroups(gs) /\ StopOf(gs[Len(gs)]) = p

\* Operations from one place to another.
AreCutsFrom(g, p, q) == AreCuts(g) /\ StartOf(g) = p /\ StopOf(g) = q

\* One operation.
LEMMA OneCut ==
  ASSUME NEW x, IsCut(x)
  PROVE  AreCutsFrom(<<x>>, BeginOf(x), EndOf(x))
<1>1. x \in OperationRecords
  BY DEF IsCut
<1>2. <<x>> \in Seq(OperationRecords) /\ Len(<<x>>) = 1 /\ <<x>>[1] = x /\ DOMAIN <<x>> = 1 .. 1
  BY <1>1
<1>3. \A i \in 1 .. Len(<<x>>) : IsCut(<<x>>[i])
  BY <1>2
<1>4. AreCuts(<<x>>)
  BY <1>2, <1>3 DEF AreCuts
<1> QED
  BY <1>2, <1>4 DEF AreCutsFrom, StartOf, StopOf

\* One operation more.
LEMMA CutsAppended ==
  ASSUME NEW g, NEW p, NEW x, IsCut(x), AreCutsFrom(g, p, BeginOf(x))
  PROVE  AreCutsFrom(Append(g, x), p, EndOf(x))
<1> DEFINE n == Len(g)
           h == Append(g, x)
<1>1. /\ g \in Seq(OperationRecords) /\ n \in Nat /\ n > 0
      /\ \A i \in 1 .. n : IsCut(g[i])
      /\ \A i \in 2 .. n : Follows(g[i - 1], g[i])
      /\ BeginOf(g[1]) = p /\ EndOf(g[n]) = BeginOf(x)
  BY DEF AreCutsFrom, AreCuts, StartOf, StopOf
<1>2. x \in OperationRecords
  BY DEF IsCut
<1>3. /\ h \in Seq(OperationRecords) /\ Len(h) = n + 1
      /\ \A i \in 1 .. n : h[i] = g[i]
      /\ h[n + 1] = x
  BY <1>1, <1>2, AppendProperties
<1>4. DOMAIN h = 1 .. n + 1
  BY <1>3, LenProperties
<1> HIDE DEF h, n
<1>5. \A i \in 1 .. n + 1 : IsCut(h[i])
  <2>1. \A i \in 1 .. n + 1 : i \in 1 .. n \/ i = n + 1
    BY <1>1
  <2> QED
    BY <2>1, <1>1, <1>3
<1>6. \A i \in 2 .. n + 1 : Follows(h[i - 1], h[i])
  <2> SUFFICES ASSUME NEW i \in 2 .. n + 1
               PROVE  Follows(h[i - 1], h[i])
    OBVIOUS
  <2>1. CASE i = n + 1
    <3>1. i - 1 = n /\ n \in 1 .. n
      BY <2>1, <1>1
    <3>2. h[i - 1] = g[n] /\ h[i] = x
      BY <2>1, <3>1, <1>3
    <3> QED
      BY <3>2, <1>1, FollowsIs
  <2>2. CASE i # n + 1
    <3>1. i \in 2 .. n /\ i \in 1 .. n /\ i - 1 \in 1 .. n
      BY <2>2, <1>1
    <3> QED
      BY <3>1, <1>1, <1>3
  <2> QED
    BY <2>1, <2>2
<1>7. AreCuts(h)
  BY <1>1, <1>3, <1>4, <1>5, <1>6 DEF AreCuts
<1>8. h[1] = g[1]
  <2>1. 1 \in 1 .. n
    BY <1>1
  <2> QED
    BY <2>1, <1>3
<1>9. AreCutsFrom(h, p, EndOf(x))
  BY <1>1, <1>3, <1>7, <1>8 DEF AreCutsFrom, StartOf, StopOf
<1> QED
  BY <1>9 DEF h

\* One group.
LEMMA OneGroup ==
  ASSUME NEW g, NEW p, NEW q, AreCutsFrom(g, p, q), IsSame(Origin, p)
  PROVE  AreGroupsTo(<<g>>, q)
<1>1. g \in Seq(OperationRecords) /\ AreCuts(g) /\ StartOf(g) = p /\ StopOf(g) = q
  BY DEF AreCutsFrom, AreCuts
<1>2. /\ <<g>> \in Seq(Seq(OperationRecords)) /\ Len(<<g>>) = 1 /\ <<g>>[1] = g /\ DOMAIN <<g>> = 1 .. 1
  BY <1>1
<1>3. \A i \in 1 .. Len(<<g>>) : AreCuts(<<g>>[i])
  BY <1>1, <1>2
<1>4. AreGroups(<<g>>)
  BY <1>1, <1>2, <1>3 DEF AreGroups
<1> QED
  BY <1>1, <1>2, <1>4 DEF AreGroupsTo

\* Another last group, from the same place.
LEMMA LastReplaced ==
  ASSUME NEW gs, NEW p, AreGroupsTo(gs, p), NEW g, NEW q,
         AreCutsFrom(g, StartOf(gs[Len(gs)]), q)
  PROVE  AreGroupsTo([gs EXCEPT ![Len(gs)] = g], q)
<1> DEFINE n == Len(gs)
           hs == [gs EXCEPT ![n] = g]
<1>1. /\ gs \in Seq(Seq(OperationRecords)) /\ n \in Nat /\ n > 0 /\ DOMAIN gs = 1 .. n
      /\ \A i \in 1 .. n : AreCuts(gs[i])
      /\ IsSame(Origin, StartOf(gs[1]))
      /\ \A i \in 2 .. n : IsSame(StopOf(gs[i - 1]), StartOf(gs[i]))
  BY DEF AreGroupsTo, AreGroups
<1>2. g \in Seq(OperationRecords) /\ AreCuts(g) /\ StartOf(g) = StartOf(gs[n]) /\ StopOf(g) = q
  BY DEF AreCutsFrom, AreCuts
<1>3. n \in 1 .. n
  BY <1>1
<1>4. /\ hs \in Seq(Seq(OperationRecords)) /\ Len(hs) = n /\ DOMAIN hs = 1 .. n
      /\ \A i \in 1 .. n : hs[i] = IF i = n THEN g ELSE gs[i]
  <2>1. \A i \in 1 .. n : hs[i] = IF i = n THEN g ELSE gs[i]
    BY <1>1
  <2>2. \A i \in 1 .. n : gs[i] \in Seq(OperationRecords)
    BY <1>1 DEF AreCuts
  <2>3. hs \in [1 .. n -> Seq(OperationRecords)]
    BY <1>1, <1>2, <2>1, <2>2
  <2> HIDE DEF n, hs
  <2>4. hs \in Seq(Seq(OperationRecords)) /\ Len(hs) = n
    BY <1>1, <2>3, FunctionIsSeq
  <2> QED
    BY <2>1, <2>3, <2>4
<1> HIDE DEF n, hs
<1>5. \A i \in 1 .. n : AreCuts(hs[i]) /\ StartOf(hs[i]) = StartOf(gs[i])
  BY <1>1, <1>2, <1>4
<1>6. \A i \in 2 .. n : IsSame(StopOf(hs[i - 1]), StartOf(hs[i]))
  <2> SUFFICES ASSUME NEW i \in 2 .. n
               PROVE  IsSame(StopOf(hs[i - 1]), StartOf(hs[i]))
    OBVIOUS
  <2>1. i \in 1 .. n /\ i - 1 \in 1 .. n /\ i - 1 # n
    BY <1>1
  <2>2. hs[i - 1] = gs[i - 1] /\ StartOf(hs[i]) = StartOf(gs[i])
    BY <2>1, <1>4, <1>5
  <2> QED
    BY <2>2, <1>1
<1>7. IsSame(Origin, StartOf(hs[1]))
  <2>1. 1 \in 1 .. n
    BY <1>1
  <2> QED
    BY <2>1, <1>1, <1>5
<1>8. AreGroups(hs)
  BY <1>1, <1>4, <1>5, <1>6, <1>7 DEF AreGroups
<1>9. AreGroupsTo(hs, q)
  BY <1>2, <1>3, <1>4, <1>8 DEF AreGroupsTo
<1> QED
  BY <1>9 DEF hs, n

\* One group more, after what is the same.
LEMMA GroupAppended ==
  ASSUME NEW gs, NEW p, AreGroupsTo(gs, p), NEW g, NEW q, NEW r,
         AreCutsFrom(g, q, r), IsSame(p, q)
  PROVE  AreGroupsTo(Append(gs, g), r)
<1> DEFINE n == Len(gs)
           hs == Append(gs, g)
<1>1. /\ gs \in Seq(Seq(OperationRecords)) /\ n \in Nat /\ n > 0 /\ DOMAIN gs = 1 .. n
      /\ \A i \in 1 .. n : AreCuts(gs[i])
      /\ IsSame(Origin, StartOf(gs[1])) /\ StopOf(gs[n]) = p
      /\ \A i \in 2 .. n : IsSame(StopOf(gs[i - 1]), StartOf(gs[i]))
  BY DEF AreGroupsTo, AreGroups
<1>2. g \in Seq(OperationRecords) /\ AreCuts(g) /\ StartOf(g) = q /\ StopOf(g) = r
  BY DEF AreCutsFrom, AreCuts
<1>3. /\ hs \in Seq(Seq(OperationRecords)) /\ Len(hs) = n + 1
      /\ \A i \in 1 .. n : hs[i] = gs[i]
      /\ hs[n + 1] = g
  BY <1>1, <1>2, AppendProperties
<1>4. DOMAIN hs = 1 .. n + 1
  BY <1>3, LenProperties
<1> HIDE DEF hs, n
<1>5. \A i \in 1 .. n + 1 : AreCuts(hs[i])
  <2>1. \A i \in 1 .. n + 1 : i \in 1 .. n \/ i = n + 1
    BY <1>1
  <2> QED
    BY <2>1, <1>1, <1>2, <1>3
<1>6. \A i \in 2 .. n + 1 : IsSame(StopOf(hs[i - 1]), StartOf(hs[i]))
  <2> SUFFICES ASSUME NEW i \in 2 .. n + 1
               PROVE  IsSame(StopOf(hs[i - 1]), StartOf(hs[i]))
    OBVIOUS
  <2>1. CASE i = n + 1
    <3>1. i - 1 = n /\ n \in 1 .. n
      BY <2>1, <1>1
    <3>2. hs[i - 1] = gs[n] /\ hs[i] = g
      BY <2>1, <3>1, <1>3
    <3> QED
      BY <3>2, <1>1, <1>2
  <2>2. CASE i # n + 1
    <3>1. i \in 2 .. n /\ i \in 1 .. n /\ i - 1 \in 1 .. n
      BY <2>2, <1>1
    <3>2. hs[i - 1] = gs[i - 1] /\ hs[i] = gs[i]
      BY <3>1, <1>3
    <3> QED
      BY <3>1, <3>2, <1>1
  <2> QED
    BY <2>1, <2>2
<1>7. hs[1] = gs[1]
  <2>1. 1 \in 1 .. n
    BY <1>1
  <2> QED
    BY <2>1, <1>3
<1>8. AreGroups(hs)
  BY <1>1, <1>3, <1>4, <1>5, <1>6, <1>7 DEF AreGroups
<1>9. AreGroupsTo(hs, r)
  BY <1>2, <1>3, <1>8 DEF AreGroupsTo
<1> QED
  BY <1>9 DEF hs

\* What is left out of a long run of equal elements is the same.
LEMMA LongRun ==
  ASSUME AreTexts, NEW o, IsCut(o), o.type = "equal", NEW n \in Nat, o.fe - o.fb > GroupWindow(n)
  PROVE  IsSame(EndOf(Beginning(o, n)), BeginOf(Ending(o, n)))
<1> DEFINE a == o.fb
           b == o.fe
           c == o.tb
           d == o.te
           i == Min({b, a + n})
           j == Min({d, c + n})
           k == Max({a, b - n})
           l == Max({c, d - n})
<1>1. /\ a \in Nat /\ b \in Nat /\ c \in Nat /\ d \in Nat
      /\ a <= b /\ c <= d /\ b <= Len(from) /\ d <= Len(to) /\ b - a = d - c
      /\ \A e \in 0 .. b - a - 1 : At(from, a + e) = At(to, c + e)
  BY DEF IsCut, OperationRecords
<1>2. o = [type |-> "equal", fb |-> a, fe |-> b, tb |-> c, te |-> d]
  BY DEF IsCut, OperationRecords
<1>3. b - a > n * 2
  BY DEF GroupWindow
<1>4. Beginning(o, n) = [o EXCEPT !.fe = i, !.te = j] /\ Ending(o, n) = [o EXCEPT !.fb = k, !.tb = l]
  BY DEF Beginning, Ending
<1> HIDE DEF a, b, c, d
<1>5. /\ i = (IF b <= a + n THEN b ELSE a + n) /\ j = (IF d <= c + n THEN d ELSE c + n)
      /\ k = (IF a <= b - n THEN b - n ELSE a) /\ l = (IF c <= d - n THEN d - n ELSE c)
  BY <1>1, MinOfTwo, MaxOfTwo
<1> HIDE DEF i, j, k, l
<1>6. i = a + n /\ j = c + n /\ k = b - n /\ l = d - n
  BY <1>1, <1>3, <1>5
<1>7. EndOf(Beginning(o, n)) = <<i, j>> /\ BeginOf(Ending(o, n)) = <<k, l>>
  BY <1>2, <1>4 DEF EndOf, BeginOf
<1>8. /\ i \in Nat /\ j \in Nat /\ k \in Nat /\ l \in Nat
      /\ i <= k /\ j <= l /\ k <= b /\ l <= d /\ k - i = l - j
  BY <1>1, <1>3, <1>6
<1>9. k <= Len(from) /\ l <= Len(to)
  <2>1. Len(from) \in Nat /\ Len(to) \in Nat
    BY LenProperties DEF AreTexts
  <2> QED
    BY <2>1, <1>1, <1>8
<1>10. \A e \in 0 .. k - i - 1 : At(from, i + e) = At(to, j + e)
  <2> SUFFICES ASSUME NEW e \in 0 .. k - i - 1
               PROVE  At(from, i + e) = At(to, j + e)
    OBVIOUS
  <2>1. PICK f \in 0 .. b - a - 1 : a + f = i + e /\ c + f = j + e
    <3>1. n + e \in 0 .. b - a - 1 /\ a + (n + e) = i + e /\ c + (n + e) = j + e
      BY <1>1, <1>3, <1>6
    <3> QED
      BY <3>1
  <2>2. At(from, a + f) = At(to, c + f)
    BY <1>1
  <2> QED
    BY <2>1, <2>2
<1>11. IsSame(<<i, j>>, <<k, l>>)
  BY <1>8, <1>9, <1>10, SameElements
<1> QED
  BY <1>7, <1>11

\* The last group with one operation more.
WithLast(gs, x) == [gs EXCEPT ![Len(gs)] = Append(@, x)]

\* An operation is the last of the last group, or ends it and begins the next.
LEMMA WithOperationIs ==
  ASSUME NEW gs, NEW o, NEW n
  PROVE  WithOperation(gs, o, n) =
           IF o.type = "equal" /\ o.fe - o.fb > GroupWindow(n)
           THEN Append(WithLast(gs, Beginning(o, n)), <<Ending(o, n)>>)
           ELSE WithLast(gs, o)
BY DEF WithOperation, WithLast

\* The operations before the first group.
Nothing == << <<>> >>

\* The first operation begins the first group,
LEMMA FirstOperation ==
  ASSUME NEW x, IsCut(x), IsSame(Origin, BeginOf(x))
  PROVE  AreGroupsTo(WithLast(Nothing, x), EndOf(x))
<1>1. WithLast(Nothing, x) = << <<x>> >>
  <2>1. Append(<<>>, x) = <<x>> /\ Len(Nothing) = 1 /\ Nothing[1] = <<>> /\ DOMAIN Nothing = {1}
    BY DEF Nothing
  <2>2. WithLast(Nothing, x) = [i \in {1} |-> <<x>>]
    BY <2>1 DEF WithLast
  <2>3. << <<x>> >> = [i \in {1} |-> <<x>>]
    OBVIOUS
  <2> QED
    BY <2>2, <2>3
<1>2. AreCutsFrom(<<x>>, BeginOf(x), EndOf(x))
  BY OneCut
<1> QED
  BY <1>1, <1>2, OneGroup

\* the next one goes on with the last group.
LEMMA NextOperation ==
  ASSUME NEW gs, NEW x, IsCut(x), AreGroupsTo(gs, BeginOf(x))
  PROVE  AreGroupsTo(WithLast(gs, x), EndOf(x))
<1> DEFINE n == Len(gs)
           g == gs[n]
<1>1. n \in 1 .. n /\ DOMAIN gs = 1 .. n /\ AreCuts(g) /\ StopOf(g) = BeginOf(x)
  <2>1. n \in Nat /\ n > 0
    BY DEF AreGroupsTo, AreGroups
  <2>2. n \in 1 .. n
    BY <2>1
  <2> QED
    BY <2>2 DEF AreGroupsTo, AreGroups
<1>2. AreCutsFrom(g, StartOf(g), BeginOf(x))
  BY <1>1 DEF AreCutsFrom
<1>3. AreCutsFrom(Append(g, x), StartOf(g), EndOf(x))
  BY <1>2, CutsAppended
<1>4. WithLast(gs, x) = [gs EXCEPT ![Len(gs)] = Append(g, x)]
  BY <1>1 DEF WithLast
<1> QED
  BY <1>3, <1>4, LastReplaced

\* The groups with one operation more, of which the equal elements may be cut.
LEMMA GroupsWithOperation ==
  ASSUME AreTexts, NEW gs, NEW o, IsCut(o), NEW n \in Nat,
         \A x : IsCut(x) /\ BeginOf(x) = BeginOf(o) => AreGroupsTo(WithLast(gs, x), EndOf(x))
  PROVE  AreGroupsTo(WithOperation(gs, o, n), EndOf(o))
<1>1. CASE o.type = "equal" /\ o.fe - o.fb > GroupWindow(n)
  <2> DEFINE b == Beginning(o, n)
             e == Ending(o, n)
  <2>1. IsCut(b) /\ BeginOf(b) = BeginOf(o) /\ IsCut(e) /\ EndOf(e) = EndOf(o)
    BY <1>1, BeginningIsCut, EndingIsCut
  <2>2. IsSame(EndOf(b), BeginOf(e))
    BY <1>1, LongRun
  <2>3. WithOperation(gs, o, n) = Append(WithLast(gs, b), <<e>>)
    BY <1>1, WithOperationIs
  <2> HIDE DEF b, e
  <2>4. AreGroupsTo(WithLast(gs, b), EndOf(b))
    BY <2>1
  <2>5. AreCutsFrom(<<e>>, BeginOf(e), EndOf(e))
    BY <2>1, OneCut
  <2> QED
    BY <2>1, <2>2, <2>3, <2>4, <2>5, GroupAppended
<1>2. CASE ~(o.type = "equal" /\ o.fe - o.fb > GroupWindow(n))
  <2>1. WithOperation(gs, o, n) = WithLast(gs, o)
    BY <1>2, WithOperationIs
  <2> QED
    BY <2>1
<1> QED
  BY <1>1, <1>2

-----------------------------------------------------------------------------
GroupsAt(os, n, g, k) == IF k = 0 THEN Nothing ELSE WithOperation(g[k - 1], os[k], n)
AreGroupsUpTo(os, n, g) == g = [k \in 0 .. Len(os) |-> GroupsAt(os, n, g, k)]

\* The groups of the first operations are defined, for every number of them.
LEMMA GroupsExist ==
  ASSUME NEW os, Len(os) \in Nat, NEW c
  PROVE  \E g : AreGroupsUpTo(os, c, g)
<1> DEFINE D == 0 .. Len(os)
           R(g) == [n \in D |-> GroupsAt(os, c, g, n)]
           IsRight(g, k) == \A n \in D : n < k => g[n] = GroupsAt(os, c, g, n)
           G == {k \in Nat : \E g : IsRight(g, k)}
<1>1. 0 \in G
  <2>1. IsRight(<<>>, 0)
    OBVIOUS
  <2> HIDE DEF IsRight
  <2> QED
    BY <2>1
<1>2. ASSUME NEW k \in Nat, k \in G
      PROVE  k + 1 \in G
  <2>1. PICK g : IsRight(g, k)
    BY <1>2
  <2>2. ASSUME NEW n \in D, n < k + 1
        PROVE  GroupsAt(os, c, g, n) = GroupsAt(os, c, R(g), n)
    <3>1. CASE n = 0
      BY <3>1 DEF GroupsAt
    <3>2. CASE n # 0
      <4>1. n - 1 \in D /\ n - 1 < k
        BY <3>2, <2>2
      <4>2. g[n - 1] = R(g)[n - 1]
        BY <4>1, <2>1
      <4> QED
        BY <3>2, <4>2 DEF GroupsAt
    <3> QED
      BY <3>1, <3>2
  <2>3. IsRight(R(g), k + 1)
    BY <2>2
  <2> HIDE DEF IsRight, R
  <2> QED
    BY <2>3
<1>3. Len(os) + 1 \in G
  <2> HIDE DEF G
  <2>1. Nat \subseteq G
    BY <1>1, <1>2, Induction
  <2> QED
    BY <2>1
<1>4. PICK g : IsRight(g, Len(os) + 1)
  BY <1>3
<1>5. \A n \in D : g[n] = GroupsAt(os, c, g, n)
  BY <1>4
<1>6. R(g) = R(R(g))
  <2>1. ASSUME NEW n \in D
        PROVE  GroupsAt(os, c, g, n) = GroupsAt(os, c, R(g), n)
    <3>1. CASE n = 0
      BY <3>1 DEF GroupsAt
    <3>2. CASE n # 0
      <4>1. n - 1 \in D
        BY <3>2
      <4>2. g[n - 1] = R(g)[n - 1]
        BY <4>1, <1>5
      <4> QED
        BY <3>2, <4>2 DEF GroupsAt
    <3> QED
      BY <3>1, <3>2
  <2> QED
    BY <2>1
<1> QED
  BY <1>6 DEF AreGroupsUpTo

\* So they are what GroupsUpTo chooses.
LEMMA GroupsEquation ==
  ASSUME NEW os, Len(os) \in Nat, NEW c
  PROVE  AreGroupsUpTo(os, c, GroupsUpTo(os, c))
<1>1. GroupsUpTo(os, c) = CHOOSE g : AreGroupsUpTo(os, c, g)
  BY DEF GroupsUpTo, GroupsAt, AreGroupsUpTo, Nothing
<1>2. \E g : AreGroupsUpTo(os, c, g)
  BY GroupsExist
<1> QED
  BY <1>1, <1>2, Zenon

\* The groups of a matcher leave out what is the same before, between and
\* after them.
LEMMA GetGroupedOperationsIsRight ==
  ASSUME AreTexts, NEW n \in Nat, NEW os, Leads(from, to, {}, os, 0, 0, Len(from), Len(to))
  PROVE  \E p : AreGroupsTo(GetGroupedOperations(os, n), p) /\ IsSame(p, End)
<1> DEFINE c == EdgesCut(os, n)
           g == GroupsUpTo(c, n)
           m == Len(c)
           G == {k \in Nat : k > 0 => AreGroupsTo(g[k], EndOf(c[k]))}
<1>1. AreEdged(c)
  BY EdgesCutIsRight
<1>2. GetGroupedOperations(os, n) = g[m]
  BY DEF GetGroupedOperations
<1> HIDE DEF c
<1>3. /\ m \in Nat /\ m > 0 /\ \A i \in 1 .. m : IsCut(c[i])
      /\ \A i \in 2 .. m : EndOf(c[i - 1]) = BeginOf(c[i])
      /\ IsSame(Origin, BeginOf(c[1])) /\ IsSame(EndOf(c[m]), End)
  BY <1>1, FollowsIs DEF AreEdged, AreCuts
<1>4. \A k \in 0 .. m : g[k] = GroupsAt(c, n, g, k)
  BY <1>3, GroupsEquation DEF AreGroupsUpTo
<1> HIDE DEF g, m
<1>5. 0 \in G
  OBVIOUS
<1>6. ASSUME NEW k \in 1 .. m, k - 1 \in G
      PROVE  k \in G
  <2>1. k \in 0 .. m /\ k \in Nat /\ k # 0 /\ k - 1 \in 0 .. m
    BY <1>3
  <2>2. g[k] = WithOperation(g[k - 1], c[k], n) /\ IsCut(c[k])
    BY <2>1, <1>3, <1>4 DEF GroupsAt
  <2>3. ASSUME NEW x, IsCut(x), BeginOf(x) = BeginOf(c[k])
        PROVE  AreGroupsTo(WithLast(g[k - 1], x), EndOf(x))
    <3>1. CASE k = 1
      <4>1. g[k - 1] = Nothing
        <5>1. 0 \in 0 .. m /\ k - 1 = 0
          BY <3>1, <1>3
        <5> QED
          BY <5>1, <1>4 DEF GroupsAt
      <4>2. IsSame(Origin, BeginOf(x))
        BY <3>1, <2>3, <1>3
      <4> QED
        BY <4>1, <4>2, <2>3, FirstOperation
    <3>2. CASE k # 1
      <4>1. k - 1 > 0 /\ k \in 2 .. m
        BY <3>2, <1>3
      <4>2. AreGroupsTo(g[k - 1], EndOf(c[k - 1])) /\ EndOf(c[k - 1]) = BeginOf(x)
        BY <4>1, <1>3, <1>6, <2>3
      <4> QED
        BY <4>2, <2>3, NextOperation
    <3> QED
      BY <3>1, <3>2
  <2>4. AreGroupsTo(g[k], EndOf(c[k]))
    BY <2>2, <2>3, GroupsWithOperation
  <2> QED
    BY <2>1, <2>4
<1>7. m \in G
  <2> HIDE DEF G
  <2>1. \A i \in 0 .. m : i \in G
    BY <1>3, <1>5, <1>6, InductionUpTo
  <2> QED
    BY <2>1, <1>3
<1>8. AreGroupsTo(g[m], EndOf(c[m]))
  BY <1>3, <1>7
<1> QED
  BY <1>2, <1>3, <1>8 DEF m

-----------------------------------------------------------------------------
\* The summaries of a list say how many lines follow them.
Counts(list, t, i, k) ==
  /\ HasLength(t[k][1] - t[i][1], list[i].deleted)
  /\ HasLength(t[k][2] - t[i][2], list[i].inserted)
AreCounted(list, t) ==
  \A i \in 1 .. Len(list) : \A k \in i .. Len(list) :
    AreSummarized(list, i, k) => Counts(list, t, i, k)

\* The lines of hunks that lead from one place to another.
IsPatchTrail(list, t) ==
  /\ IsTrail(list, t) /\ AreCounted(list, t)
  /\ Len(list) > 0 => list[1].mark = "summary"
Patches(list, p, q) ==
  /\ list \in Seq(DiffRecords)
  /\ \E t : IsPatchTrail(list, t) /\ t[0] = p /\ t[Len(list)] = q

\* No hunks lead nowhere.
LEMMA PatchesNone ==
  ASSUME NEW p \in Places
  PROVE  Patches(<<>>, p, p)
<1>1. <<>> \in Seq(DiffRecords) /\ Len(<<>>) = 0
  BY EmptySeq
<1>2. PICK t : IsTrail(<<>>, t) /\ t[0] = p
  BY EmptyTrail
<1>3. IsPatchTrail(<<>>, t)
  BY <1>1, <1>2 DEF IsPatchTrail, AreCounted
<1> QED
  BY <1>1, <1>2, <1>3 DEF Patches

\* What is summarized in two lists of hunks is summarized in one of them.
LEMMA SummarizedInFirst ==
  ASSUME NEW x \in Seq(DiffRecords), NEW y \in Seq(DiffRecords), NEW z,
         Len(x) \in Nat, Len(y) \in Nat, Len(z) = Len(x) + Len(y),
         \A k \in 1 .. Len(x) : z[k] = x[k],
         \A k \in 1 .. Len(y) : z[Len(x) + k] = y[k],
         Len(y) > 0 => y[1].mark = "summary",
         NEW i \in 1 .. Len(z), NEW k \in i .. Len(z), AreSummarized(z, i, k), i <= Len(x)
  PROVE  k <= Len(x) /\ i \in 1 .. Len(x) /\ k \in i .. Len(x) /\ AreSummarized(x, i, k)
<1> DEFINE m == Len(x)
           n == Len(y)
<1>1. m \in Nat /\ n \in Nat /\ i \in 1 .. m /\ k \in Nat /\ k <= m + n /\ i <= k
  OBVIOUS
<1>2. /\ z[i].mark = "summary" /\ \A j \in i + 1 .. k : z[j].mark # "summary"
      /\ k < m + n => z[k + 1].mark = "summary"
  BY DEF AreSummarized
<1>3. (\A j \in 1 .. m : z[j] = x[j]) /\ (\A j \in 1 .. n : z[m + j] = y[j])
  OBVIOUS
<1> HIDE DEF m, n
<1>4. k <= m
  <2> SUFFICES ASSUME k > m PROVE FALSE
    BY <1>1
  <2>1. n > 0 /\ m + 1 \in i + 1 .. k /\ 1 \in 1 .. n
    BY <1>1
  <2>2. z[m + 1] = y[1] /\ y[1].mark = "summary"
    BY <2>1, <1>3 DEF n
  <2> QED
    BY <2>1, <2>2, <1>2
<1>5. x[i].mark = "summary"
  BY <1>1, <1>2, <1>3
<1>6. \A j \in i + 1 .. k : x[j].mark # "summary"
  <2>1. \A j \in i + 1 .. k : j \in 1 .. m
    BY <1>1, <1>4
  <2> QED
    BY <2>1, <1>2, <1>3
<1>7. k < m => x[k + 1].mark = "summary"
  <2> SUFFICES ASSUME k < m PROVE x[k + 1].mark = "summary"
    OBVIOUS
  <2>1. k + 1 \in 1 .. m /\ k < m + n
    BY <1>1
  <2> QED
    BY <2>1, <1>2, <1>3
<1> QED
  BY <1>1, <1>4, <1>5, <1>6, <1>7 DEF AreSummarized, m

\* So it is in the other one, where its summary is in that.
LEMMA SummarizedInSecond ==
  ASSUME NEW x \in Seq(DiffRecords), NEW y \in Seq(DiffRecords), NEW z,
         Len(x) \in Nat, Len(y) \in Nat, Len(z) = Len(x) + Len(y),
         \A k \in 1 .. Len(y) : z[Len(x) + k] = y[k],
         NEW i \in 1 .. Len(y), NEW k \in i .. Len(y), AreSummarized(z, Len(x) + i, Len(x) + k)
  PROVE  AreSummarized(y, i, k)
<1> DEFINE m == Len(x)
           n == Len(y)
<1>1. m \in Nat /\ n \in Nat /\ i \in 1 .. n /\ k \in 1 .. n
  OBVIOUS
<1>2. /\ z[m + i].mark = "summary" /\ \A j \in m + i + 1 .. m + k : z[j].mark # "summary"
      /\ m + k < m + n => z[m + k + 1].mark = "summary"
  BY DEF AreSummarized
<1>3. \A j \in 1 .. n : z[m + j] = y[j]
  OBVIOUS
<1> HIDE DEF m, n
<1>4. \A j \in i + 1 .. k : y[j].mark # "summary"
  <2>1. \A j \in i + 1 .. k : j \in 1 .. n /\ m + j \in m + i + 1 .. m + k
    BY <1>1
  <2> QED
    BY <2>1, <1>2, <1>3
<1>5. k < n => y[k + 1].mark = "summary"
  <2> SUFFICES ASSUME k < n PROVE y[k + 1].mark = "summary"
    OBVIOUS
  <2>1. k + 1 \in 1 .. n /\ m + k < m + n /\ m + (k + 1) = m + k + 1
    BY <1>1
  <2> QED
    BY <2>1, <1>2, <1>3
<1> QED
  BY <1>1, <1>2, <1>3, <1>4, <1>5 DEF AreSummarized, n

\* Two lists of hunks lead where the second one does.
LEMMA PatchesBoth ==
  ASSUME NEW x, NEW y, NEW p, NEW q, NEW r, Patches(x, p, q), Patches(y, q, r)
  PROVE  Patches(x \o y, p, r)
<1> DEFINE z == x \o y
<1>1. PICK s : IsPatchTrail(x, s) /\ s[0] = p /\ s[Len(x)] = q
  BY DEF Patches
<1>2. PICK t : IsPatchTrail(y, t) /\ t[0] = q /\ t[Len(y)] = r
  BY DEF Patches
<1>3. /\ IsTrail(x, s) /\ IsTrail(y, t) /\ s[Len(x)] = t[0]
      /\ x \in Seq(DiffRecords) /\ y \in Seq(DiffRecords) /\ Len(x) \in Nat /\ Len(y) \in Nat
  BY <1>1, <1>2 DEF IsPatchTrail, IsTrail
<1>4. PICK u : AreJoinedTrails(x, s, y, t, u)
  BY <1>3, TrailOfBoth
<1>5. /\ IsTrail(z, u) /\ Len(z) = Len(x) + Len(y)
      /\ \A k \in 1 .. Len(x) : z[k] = x[k]
      /\ \A k \in 1 .. Len(y) : z[Len(x) + k] = y[k]
      /\ \A k \in 0 .. Len(x) : u[k] = s[k]
      /\ \A k \in 0 .. Len(y) : u[Len(x) + k] = t[k]
  BY <1>4 DEF AreJoinedTrails
<1> HIDE DEF z
<1>6. u[0] = p /\ u[Len(z)] = r
  <2>1. 0 \in 0 .. Len(x) /\ Len(y) \in 0 .. Len(y)
    BY <1>3
  <2> QED
    BY <2>1, <1>1, <1>2, <1>5
<1>7. Len(y) > 0 => y[1].mark = "summary"
  BY <1>2 DEF IsPatchTrail
<1>8. ASSUME NEW i \in 1 .. Len(z), NEW k \in i .. Len(z), AreSummarized(z, i, k)
      PROVE  Counts(z, u, i, k)
  <2>1. CASE i <= Len(x)
    <3>1. k <= Len(x) /\ i \in 1 .. Len(x) /\ k \in i .. Len(x) /\ AreSummarized(x, i, k)
      BY <2>1, <1>3, <1>5, <1>7, <1>8, SummarizedInFirst
    <3>2. Counts(x, s, i, k)
      BY <3>1, <1>1 DEF IsPatchTrail, AreCounted
    <3>3. i \in 0 .. Len(x) /\ k \in 0 .. Len(x)
      BY <3>1, <1>3
    <3>4. z[i] = x[i] /\ u[i] = s[i] /\ u[k] = s[k]
      BY <3>1, <3>3, <1>5
    <3> QED
      BY <3>2, <3>4 DEF Counts
  <2>2. CASE ~(i <= Len(x))
    <3>0. PICK j \in 1 .. Len(y) : i = Len(x) + j
      <4>1. i - Len(x) \in 1 .. Len(y) /\ i = Len(x) + (i - Len(x))
        BY <2>2, <1>3, <1>5
      <4> QED
        BY <4>1
    <3>9. PICK l \in j .. Len(y) : k = Len(x) + l
      <4>1. k - Len(x) \in j .. Len(y) /\ k = Len(x) + (k - Len(x))
        BY <2>2, <3>0, <1>3, <1>5
      <4> QED
        BY <4>1
    <3>1. i = Len(x) + j /\ k = Len(x) + l
      BY <3>0, <3>9
    <3>2. AreSummarized(z, Len(x) + j, Len(x) + l)
      BY <3>1, <1>8
    <3>3. AreSummarized(y, j, l)
      BY <3>2, <1>3, <1>5, SummarizedInSecond
    <3>4. Counts(y, t, j, l)
      BY <3>3, <1>2 DEF IsPatchTrail, AreCounted
    <3>5. j \in 0 .. Len(y) /\ l \in 0 .. Len(y)
      BY <1>3
    <3>6. z[i] = y[j] /\ u[i] = t[j] /\ u[k] = t[l]
      BY <3>1, <3>5, <1>5
    <3> QED
      BY <3>4, <3>6 DEF Counts
  <2> QED
    BY <2>1, <2>2
<1>9. Len(z) > 0 => z[1].mark = "summary"
  <2> SUFFICES ASSUME Len(z) > 0 PROVE z[1].mark = "summary"
    OBVIOUS
  <2>1. CASE Len(x) > 0
    <3>1. 1 \in 1 .. Len(x) /\ x[1].mark = "summary"
      BY <2>1, <1>1, <1>3 DEF IsPatchTrail
    <3> QED
      BY <3>1, <1>5
  <2>2. CASE ~(Len(x) > 0)
    <3>1. Len(y) > 0 /\ 1 \in 1 .. Len(y) /\ Len(x) + 1 = 1
      BY <2>2, <1>3, <1>5
    <3> QED
      BY <3>1, <1>5, <1>7
  <2> QED
    BY <2>1, <2>2
<1>10. IsPatchTrail(z, u)
  BY <1>5, <1>8, <1>9 DEF IsPatchTrail, AreCounted
<1>11. z \in Seq(DiffRecords)
  BY <1>5 DEF IsTrail
<1> QED
  BY <1>6, <1>10, <1>11 DEF Patches, z

\* Operations end where they begin, or after it.
LEMMA CutsGrow ==
  ASSUME NEW os, AreCuts(os)
  PROVE  /\ os[1].fb \in Nat /\ os[1].tb \in Nat
         /\ os[Len(os)].fe \in Nat /\ os[Len(os)].te \in Nat
         /\ os[1].fb <= os[Len(os)].fe /\ os[1].tb <= os[Len(os)].te
<1> DEFINE n == Len(os)
           f == os[1].fb
           t == os[1].tb
           G == {k \in Nat : k > 0 => f <= os[k].fe /\ t <= os[k].te}
<1>1. /\ n \in Nat /\ n > 0
      /\ \A i \in 1 .. n : IsCut(os[i])
      /\ \A i \in 2 .. n : Follows(os[i - 1], os[i])
  BY DEF AreCuts
<1>2. \A i \in 1 .. n : /\ os[i].fb \in Nat /\ os[i].fe \in Nat /\ os[i].tb \in Nat /\ os[i].te \in Nat
                        /\ os[i].fb <= os[i].fe /\ os[i].tb <= os[i].te
  BY <1>1 DEF IsCut, OperationRecords
<1>3. \A i \in 2 .. n : os[i].fb = os[i - 1].fe /\ os[i].tb = os[i - 1].te
  BY <1>1 DEF Follows
<1> HIDE DEF n
<1>4. f \in Nat /\ t \in Nat /\ 1 \in 1 .. n /\ n \in 1 .. n
  <2>1. 1 \in 1 .. n /\ n \in 1 .. n
    BY <1>1
  <2> QED
    BY <2>1, <1>2
<1>5. 0 \in G
  OBVIOUS
<1>6. ASSUME NEW k \in 1 .. n, k - 1 \in G
      PROVE  k \in G
  <2>1. CASE k = 1
    <3>1. f <= os[1].fe /\ t <= os[1].te
      BY <1>2, <1>4
    <3> QED
      BY <2>1, <3>1
  <2>2. CASE k # 1
    <3>1. k \in 2 .. n /\ k - 1 \in 1 .. n /\ k \in Nat /\ k - 1 > 0
      BY <2>2, <1>1
    <3>2. f <= os[k - 1].fe /\ t <= os[k - 1].te
      BY <3>1, <1>6
    <3>3. f <= os[k].fb /\ t <= os[k].tb
      BY <3>1, <3>2, <1>3
    <3>4. /\ os[k].fb \in Nat /\ os[k].fe \in Nat /\ os[k].fb <= os[k].fe
          /\ os[k].tb \in Nat /\ os[k].te \in Nat /\ os[k].tb <= os[k].te
      BY <1>2
    <3> HIDE DEF f, t
    <3>5. f <= os[k].fe /\ t <= os[k].te
      BY <3>3, <3>4, <1>4
    <3> QED
      BY <3>1, <3>5
  <2> QED
    BY <2>1, <2>2
<1>7. n \in G
  <2> HIDE DEF G
  <2>1. \A i \in 0 .. n : i \in G
    BY <1>1, <1>5, <1>6, InductionUpTo
  <2> QED
    BY <2>1, <1>1
<1>8. f <= os[n].fe /\ t <= os[n].te
  BY <1>1, <1>7
<1> QED
  BY <1>2, <1>4, <1>8 DEF n

\* The length that a summary says.
LEMMA WrittenLengthIs ==
  ASSUME NEW n \in Nat
  PROVE  WrittenLength(n) \in Nat /\ HasLength(n, WrittenLength(n))
<1>1. WrittenLength(n) = IF n <= 1 THEN 1 ELSE n
  BY MaxOfTwo DEF WrittenLength
<1> QED
  BY <1>1 DEF HasLength

\* A summary leads to where its group begins, and says how long it is.
IsSummary(x, q, r) ==
  /\ x \in DiffRecords /\ x.mark = "summary" /\ <<x.from - 1, x.to - 1>> = q
  /\ HasLength(r[1] - q[1], x.deleted) /\ HasLength(r[2] - q[2], x.inserted)

\* What cut_differ_write_summary() writes of a group is its summary.
LEMMA SummaryIs ==
  ASSUME NEW g, NEW q, NEW r, AreCutsFrom(g, q, r)
  PROVE  IsSummary(Summary(g), q, r) /\ q \in Places /\ r \in Places
<1> DEFINE n == Len(g)
           a == g[1].fb
           b == g[n].fe
           c == g[1].tb
           d == g[n].te
           x == Summary(g)
<1>1. AreCuts(g) /\ q = <<a, c>> /\ r = <<b, d>>
  BY DEF AreCutsFrom, StartOf, StopOf, BeginOf, EndOf
<1>2. g \in Seq(OperationRecords) /\ n \in Nat /\ n > 0
  BY <1>1 DEF AreCuts
<1>3. a \in Nat /\ b \in Nat /\ c \in Nat /\ d \in Nat /\ a <= b /\ c <= d
  BY <1>1, CutsGrow
<1>4. Head(g) = g[1] /\ Last(g) = g[n]
  BY <1>2 DEF Last
<1>5. x = [mark |-> "summary", from |-> a + 1, to |-> c + 1,
           deleted |-> WrittenLength(b - a), inserted |-> WrittenLength(d - c)]
  BY <1>4 DEF Summary
<1> HIDE DEF a, b, c, d, x
<1>6. b - a \in Nat /\ d - c \in Nat
  BY <1>3
<1>7. /\ WrittenLength(b - a) \in Nat /\ HasLength(b - a, WrittenLength(b - a))
      /\ WrittenLength(d - c) \in Nat /\ HasLength(d - c, WrittenLength(d - c))
  BY <1>6, WrittenLengthIs
<1>8. x \in Summaries
  BY <1>3, <1>5, <1>7 DEF Summaries
<1>9. x.from - 1 = a /\ x.to - 1 = c
  BY <1>3, <1>5
<1>10. HasLength(b - a, x.deleted) /\ HasLength(d - c, x.inserted) /\ x.mark = "summary"
  BY <1>5, <1>7
<1>11. q[1] = a /\ q[2] = c /\ r[1] = b /\ r[2] = d
  BY <1>1
<1>12. q \in Places /\ r \in Places
  BY <1>1, <1>3 DEF Places
<1>13. IsSummary(x, q, r)
  BY <1>1, <1>8, <1>9, <1>10, <1>11 DEF IsSummary, DiffRecords
<1> QED
  BY <1>12, <1>13 DEF x

\* A group leads from a place after which what is left out is the same to where
\* it ends.
LEMMA GroupPatches ==
  ASSUME AreTexts, NEW g, NEW p \in Places, NEW q, NEW r, AreCutsFrom(g, q, r), IsSame(p, q)
  PROVE  Patches(<<Summary(g)>> \o DiffOperations(g), p, r)
<1> DEFINE x == Summary(g)
           y == DiffOperations(g)
           z == <<x>> \o y
<1>1. IsSummary(x, q, r) /\ q \in Places /\ r \in Places
  BY SummaryIs
<1>2. Writes(y, q, r)
  <2>1. AreCuts(g) /\ BeginOf(g[1]) = q /\ EndOf(g[Len(g)]) = r
    BY DEF AreCutsFrom, StartOf, StopOf
  <2> QED
    BY <2>1, OperationsWrite
<1> HIDE DEF x, y
<1>3. IsTrailStep(p, x, q)
  BY <1>1 DEF IsTrailStep, IsSummary, PlaceAfter, IsPassed
<1>4. PICK s : IsTrail(<<x>>, s) /\ s[0] = p /\ s[1] = q
  BY <1>1, <1>3, TrailOfOne DEF IsSummary
<1>5. PICK t : y \in Seq(TextLines) /\ IsTrail(y, t) /\ t[0] = q /\ t[Len(y)] = r
  BY <1>2 DEF Writes
<1>6. Len(<<x>>) = 1 /\ <<x>>[1] = x /\ Len(y) \in Nat
  BY <1>5 DEF IsTrail
<1>7. PICK u : AreJoinedTrails(<<x>>, s, y, t, u)
  BY <1>4, <1>5, <1>6, TrailOfBoth
<1>8. /\ IsTrail(z, u) /\ Len(z) = 1 + Len(y)
      /\ \A k \in 1 .. 1 : z[k] = <<x>>[k]
      /\ \A k \in 1 .. Len(y) : z[1 + k] = y[k]
      /\ \A k \in 0 .. 1 : u[k] = s[k]
      /\ \A k \in 0 .. Len(y) : u[1 + k] = t[k]
  BY <1>6, <1>7 DEF AreJoinedTrails
<1> HIDE DEF z
<1>9. z[1] = x /\ u[0] = p /\ u[1] = q /\ u[Len(z)] = r
  <2>1. 1 \in 1 .. 1 /\ 0 \in 0 .. 1 /\ 1 \in 0 .. 1 /\ Len(y) \in 0 .. Len(y)
    BY <1>6
  <2> QED
    BY <2>1, <1>4, <1>5, <1>6, <1>8
<1>10. ASSUME NEW i \in 2 .. Len(z)
       PROVE  z[i].mark # "summary"
  <2>1. PICK k \in 1 .. Len(y) : i = 1 + k
    <3>1. i - 1 \in 1 .. Len(y) /\ i = 1 + (i - 1)
      BY <1>6, <1>8
    <3> QED
      BY <3>1
  <2>2. z[i] = y[k] /\ y[k] \in TextLines
    BY <2>1, <1>5, <1>8, ElementOfSeq
  <2> QED
    BY <2>2 DEF TextLines
<1>11. ASSUME NEW i \in 1 .. Len(z), NEW k \in i .. Len(z), AreSummarized(z, i, k)
       PROVE  Counts(z, u, i, k)
  <2>1. z[i].mark = "summary" /\ (k < Len(z) => z[k + 1].mark = "summary")
    BY <1>11 DEF AreSummarized
  <2>2. i = 1
    <3>1. i = 1 \/ i \in 2 .. Len(z)
      BY <1>6, <1>8
    <3> QED
      BY <3>1, <2>1, <1>10
  <2>3. k = Len(z)
    <3>1. k = Len(z) \/ (k < Len(z) /\ k + 1 \in 2 .. Len(z))
      BY <2>2, <1>6, <1>8
    <3> QED
      BY <3>1, <2>1, <1>10
  <2> QED
    BY <2>2, <2>3, <1>1, <1>9 DEF Counts, IsSummary
<1>12. z[1].mark = "summary"
  BY <1>1, <1>9 DEF IsSummary
<1>13. IsPatchTrail(z, u)
  BY <1>8, <1>11, <1>12 DEF IsPatchTrail, AreCounted
<1>14. z \in Seq(DiffRecords)
  BY <1>8 DEF IsTrail
<1>15. Patches(z, p, r)
  BY <1>9, <1>13, <1>14 DEF Patches
<1> QED
  BY <1>15 DEF z, x, y

\* The lines of all groups.
Hunk(g) == <<Summary(g)>> \o DiffOperations(g)

\* They lead from the beginning of the texts to where the last group ends.
LEMMA HunksPatch ==
  ASSUME AreTexts, NEW gs, NEW p, AreGroupsTo(gs, p)
  PROVE  LET list == FlattenSeq([i \in DOMAIN gs |-> Hunk(gs[i])])
         IN Patches(list, Origin, p) /\ list # <<>>
<1> DEFINE n == Len(gs)
           ss == [i \in 1 .. n |-> Hunk(gs[i])]
<1>1. /\ n \in Nat /\ n > 0 /\ DOMAIN gs = 1 .. n
      /\ \A i \in 1 .. n : AreCuts(gs[i])
      /\ IsSame(Origin, StartOf(gs[1])) /\ StopOf(gs[n]) = p
      /\ \A i \in 2 .. n : IsSame(StopOf(gs[i - 1]), StartOf(gs[i]))
  BY DEF AreGroupsTo, AreGroups
<1> HIDE DEF n
<1> DEFINE Before(k) == IF k = 1 THEN Origin ELSE StopOf(gs[k - 1])
<1>2. ASSUME NEW k \in 1 .. n
      PROVE  Patches(Hunk(gs[k]), Before(k), StopOf(gs[k])) /\ Before(k) \in Places
  <2>1. AreCutsFrom(gs[k], StartOf(gs[k]), StopOf(gs[k]))
    BY <1>1 DEF AreCutsFrom
  <2>2. IsSame(Before(k), StartOf(gs[k])) /\ Before(k) \in Places
    <3>1. CASE k = 1
      BY <3>1, <1>1, EndIsAPlace
    <3>2. CASE k # 1
      <4>1. k \in 2 .. n /\ k - 1 \in 1 .. n
        BY <3>2, <1>1
      <4>2. AreCutsFrom(gs[k - 1], StartOf(gs[k - 1]), StopOf(gs[k - 1]))
        BY <4>1, <1>1 DEF AreCutsFrom
      <4>3. StopOf(gs[k - 1]) \in Places
        BY <4>2, SummaryIs
      <4> QED
        BY <3>2, <4>1, <4>3, <1>1
    <3> QED
      BY <3>1, <3>2
  <2> HIDE DEF Before
  <2> QED
    BY <2>1, <2>2, GroupPatches DEF Hunk
<1>3. ss \in [1 .. n -> Seq(DiffRecords)] /\ \A i \in 1 .. n : ss[i] = Hunk(gs[i])
  BY <1>2 DEF Patches
<1>4. FlattenSeq([i \in DOMAIN gs |-> Hunk(gs[i])]) = FlattenSeq(ss)
  BY <1>1
<1> HIDE DEF ss
<1>5. ss \in Seq(Seq(DiffRecords)) /\ Len(ss) = n
  BY <1>1, <1>3, FunctionIsSeq
<1>6. PICK F : IsFlat(DiffRecords, ss, F)
  BY <1>5, FlattenIs
<1>7. /\ F \in [0 .. n -> Seq(DiffRecords)] /\ F[0] = <<>> /\ FlattenSeq(ss) = F[n]
      /\ \A k \in 1 .. n : F[k] = F[k - 1] \o ss[k]
  BY <1>5, <1>6 DEF IsFlat
<1> DEFINE After(k) == IF k = 0 THEN Origin ELSE StopOf(gs[k])
           G == {k \in 0 .. n : Patches(F[k], Origin, After(k))}
<1>8. 0 \in G
  BY <1>1, <1>7, EndIsAPlace, PatchesNone
<1>9. ASSUME NEW k \in 1 .. n, k - 1 \in G
      PROVE  k \in G
  <2>1. Patches(F[k - 1], Origin, After(k - 1))
    BY <1>9
  <2>2. After(k - 1) = Before(k)
    <3>1. k - 1 = 0 <=> k = 1
      OBVIOUS
    <3> QED
      BY <3>1
  <2>3. Patches(ss[k], Before(k), StopOf(gs[k]))
    BY <1>2, <1>3
  <2>4. After(k) = StopOf(gs[k]) /\ k \in 0 .. n
    BY <1>1
  <2> HIDE DEF After, Before
  <2>5. Patches(F[k], Origin, After(k))
    BY <2>1, <2>2, <2>3, <2>4, <1>7, PatchesBoth
  <2> QED
    BY <2>4, <2>5
<1>10. n \in G
  <2> HIDE DEF G
  <2>1. \A i \in 0 .. n : i \in G
    BY <1>1, <1>8, <1>9, InductionUpTo
  <2> QED
    BY <2>1, <1>1
<1>11. Patches(F[n], Origin, p)
  BY <1>1, <1>10
<1>12. F[n] # <<>>
  <2>1. n \in 1 .. n /\ n - 1 \in 0 .. n
    BY <1>1
  <2>2. F[n] = F[n - 1] \o Hunk(gs[n]) /\ F[n - 1] \in Seq(DiffRecords)
    BY <2>1, <1>3, <1>7
  <2>3. Hunk(gs[n]) \in Seq(DiffRecords) /\ Hunk(gs[n]) # <<>>
    <3>1. Hunk(gs[n]) \in Seq(DiffRecords)
      BY <2>1, <1>2 DEF Patches
    <3>2. AreCutsFrom(gs[n], StartOf(gs[n]), StopOf(gs[n]))
      BY <2>1, <1>1 DEF AreCutsFrom
    <3>3. Summary(gs[n]) \in DiffRecords
      BY <3>2, SummaryIs DEF IsSummary
    <3>4. <<Summary(gs[n])>> \in Seq(DiffRecords) /\ <<Summary(gs[n])>> # <<>>
      BY <3>3
    <3>5. DiffOperations(gs[n]) \in Seq(DiffRecords)
      <4>1. Writes(DiffOperations(gs[n]), BeginOf(gs[n][1]), EndOf(gs[n][Len(gs[n])]))
        BY <2>1, <1>1, OperationsWrite
      <4>2. DiffOperations(gs[n]) \in Seq(TextLines)
        BY <4>1 DEF Writes
      <4> QED
        BY <4>2, SeqMonotonic DEF DiffRecords
    <3>6. Hunk(gs[n]) # <<>>
      BY <3>4, <3>5, ConcatEqualIffEmpty DEF Hunk
    <3> QED
      BY <3>1, <3>6
  <2> QED
    BY <2>2, <2>3, ConcatEqualIffEmpty
<1> QED
  BY <1>4, <1>7, <1>11, <1>12

-----------------------------------------------------------------------------
\* What the lines pass is what their trail says.
PassedAt(lines, g, n) ==
  IF n = 0 THEN <<0, 0>>
  ELSE IF lines[n].mark = "summary" THEN <<lines[n].from - 1, lines[n].to - 1>>
  ELSE <<g[n - 1][1] + (IF lines[n].mark = "inserted" THEN 0 ELSE 1),
         g[n - 1][2] + (IF lines[n].mark = "deleted" THEN 0 ELSE 1)>>
ArePassed(lines, g) == g = [n \in 0 .. Len(lines) |-> PassedAt(lines, g, n)]

\* A trail from the beginning of the texts is the places that are passed.
LEMMA PassedIsTrail ==
  ASSUME NEW list, NEW t, IsTrail(list, t), t[0] = Origin
  PROVE  \A k \in 0 .. Len(list) : Passed(list)[k] = t[k]
<1> DEFINE g == CHOOSE h : ArePassed(list, h)
           m == Len(list)
           G == {k \in 0 .. m : g[k] = t[k]}
<1>1. Passed(list) = g
  BY DEF Passed, ArePassed, PassedAt
<1>2. m \in Nat /\ t \in [0 .. m -> Places] /\ \A k \in 1 .. m : t[k] = PlaceAfter(t[k - 1], list[k])
  BY DEF IsTrail, IsTrailStep
<1>3. ASSUME NEW k \in 0 .. m
      PROVE  t[k] = PassedAt(list, t, k)
  <2>1. CASE k = 0
    BY <2>1 DEF PassedAt, Origin
  <2>2. CASE k # 0
    <3>1. k \in 1 .. m
      BY <2>2, <1>2
    <3> QED
      BY <2>2, <3>1, <1>2 DEF PassedAt, PlaceAfter
  <2> QED
    BY <2>1, <2>2
<1>4. ArePassed(list, t)
  BY <1>2, <1>3 DEF ArePassed
<1>5. ArePassed(list, g)
  BY <1>4, Zenon
<1> HIDE DEF g
<1>6. \A k \in 0 .. m : g[k] = PassedAt(list, g, k)
  BY <1>5 DEF ArePassed
<1> HIDE DEF m
<1>7. 0 \in G
  <2>1. 0 \in 0 .. m
    BY <1>2
  <2> QED
    BY <2>1, <1>6 DEF PassedAt, Origin
<1>8. ASSUME NEW k \in 1 .. m, k - 1 \in G
      PROVE  k \in G
  <2>1. k \in 0 .. m /\ k # 0 /\ g[k - 1] = t[k - 1]
    BY <1>2, <1>8
  <2>2. PassedAt(list, g, k) = PassedAt(list, t, k)
    BY <2>1 DEF PassedAt
  <2> QED
    BY <2>1, <2>2, <1>3, <1>6
<1>9. \A k \in 0 .. m : k \in G
  <2> HIDE DEF G
  <2> QED
    BY <1>2, <1>7, <1>8, InductionUpTo
<1> QED
  BY <1>1, <1>9 DEF m

\* Each line of a trail is the next one.
LEMMA LinesArePassed ==
  ASSUME NEW list, NEW t, IsTrail(list, t), t[0] = Origin
  PROVE  \A i \in DOMAIN list : IsPassed(Passed(list)[i - 1], list[i], Passed(list)[i])
<1>1. DOMAIN list = 1 .. Len(list) /\ Len(list) \in Nat
  BY LenProperties DEF IsTrail
<1>2. \A k \in 0 .. Len(list) : Passed(list)[k] = t[k]
  BY PassedIsTrail
<1>3. ASSUME NEW i \in 1 .. Len(list)
      PROVE  IsPassed(Passed(list)[i - 1], list[i], Passed(list)[i])
  <2>1. i \in 0 .. Len(list) /\ i - 1 \in 0 .. Len(list)
    BY <1>1
  <2>2. Passed(list)[i - 1] = t[i - 1] /\ Passed(list)[i] = t[i]
    BY <2>1, <1>2
  <2>3. IsPassed(t[i - 1], list[i], t[i])
    BY DEF IsTrail, IsTrailStep
  <2> QED
    BY <2>2, <2>3
<1> QED
  BY <1>1, <1>3

\* Lines that lead from the beginning of the texts to their end are a diff.
LEMMA LinesLeadThrough ==
  ASSUME NEW list, Writes(list, Origin, End)
  PROVE  LeadsThrough(list)
<1>1. PICK t : list \in Seq(TextLines) /\ IsTrail(list, t) /\ t[0] = Origin /\ t[Len(list)] = End
  BY DEF Writes
<1>2. DOMAIN list = 1 .. Len(list) /\ Len(list) \in Nat
  BY <1>1, LenProperties
<1>3. \A i \in DOMAIN list : list[i].mark # "summary"
  <2>1. \A i \in DOMAIN list : list[i] \in TextLines
    BY <1>1, <1>2, ElementOfSeq
  <2> QED
    BY <2>1 DEF TextLines
<1>4. Passed(list)[Len(list)] = End
  <2>1. Len(list) \in 0 .. Len(list)
    BY <1>2
  <2> QED
    BY <2>1, <1>1, PassedIsTrail
<1>5. \A i \in DOMAIN list : IsPassed(Passed(list)[i - 1], list[i], Passed(list)[i])
  BY <1>1, LinesArePassed
<1>6. \A i \in DOMAIN list : \A k \in i .. Len(list) : ~AreSummarized(list, i, k)
  BY <1>3 DEF AreSummarized
<1> QED
  BY <1>3, <1>4, <1>5, <1>6 DEF LeadsThrough, End

\* So are hunks after which the texts are the same.
LEMMA HunksLeadThrough ==
  ASSUME NEW list, NEW p, Patches(list, Origin, p), list # <<>>, IsSame(p, End)
  PROVE  LeadsThrough(list)
<1>1. PICK t : IsPatchTrail(list, t) /\ t[0] = Origin /\ t[Len(list)] = p
  BY DEF Patches
<1>2. IsTrail(list, t) /\ AreCounted(list, t)
  BY <1>1 DEF IsPatchTrail
<1>3. DOMAIN list = 1 .. Len(list) /\ Len(list) \in Nat /\ Len(list) > 0
  <2>1. list \in Seq(DiffRecords)
    BY DEF Patches
  <2> QED
    BY <2>1, LenProperties, EmptySeq
<1>4. \A k \in 0 .. Len(list) : Passed(list)[k] = t[k]
  BY <1>1, <1>2, PassedIsTrail
<1>5. Passed(list)[Len(list)] = p
  BY <1>1, <1>3, <1>4
<1>6. \A i \in DOMAIN list : IsPassed(Passed(list)[i - 1], list[i], Passed(list)[i])
  BY <1>1, <1>2, LinesArePassed
<1>7. ASSUME NEW i \in DOMAIN list, NEW k \in i .. Len(list), AreSummarized(list, i, k)
      PROVE  /\ HasLength(Passed(list)[k][1] - Passed(list)[i][1], list[i].deleted)
             /\ HasLength(Passed(list)[k][2] - Passed(list)[i][2], list[i].inserted)
  <2>1. i \in 1 .. Len(list) /\ i \in 0 .. Len(list) /\ k \in 0 .. Len(list)
    BY <1>3
  <2>2. Counts(list, t, i, k)
    BY <2>1, <1>2, <1>7 DEF AreCounted
  <2> QED
    BY <2>1, <2>2, <1>4 DEF Counts
<1>8. \E i \in DOMAIN list : list[i].mark = "summary"
  <2>1. 1 \in DOMAIN list /\ list[1].mark = "summary"
    BY <1>1, <1>3 DEF IsPatchTrail
  <2> QED
    BY <2>1
<1> QED
  BY <1>5, <1>6, <1>7, <1>8 DEF LeadsThrough, End

\* Where there is nothing to write the texts are the same.
LEMMA SameContentIsSame ==
  ASSUME AreTexts, NEW gs, NEW p, AreGroupsTo(gs, p), IsSame(p, End), IsSameContent(gs)
  PROVE  from = to
<1> DEFINE o == gs[1][1]
           a == o.fb
           b == o.fe
           m == Len(from)
           n == Len(to)
<1>0. m \in Nat /\ n \in Nat
  BY LenProperties DEF AreTexts
<1>1. Len(gs) = 1 /\ Len(gs[1]) = 1 /\ o.type = "equal" /\ o.fb = o.tb /\ o.fe = o.te
  BY DEF IsSameContent
<1>2. IsSame(Origin, BeginOf(o)) /\ EndOf(o) = p /\ IsCut(o)
  <2>1. 1 \in 1 .. 1
    OBVIOUS
  <2>2. AreCuts(gs[1]) /\ IsSame(Origin, StartOf(gs[1])) /\ StopOf(gs[1]) = p
    BY <2>1, <1>1 DEF AreGroupsTo, AreGroups
  <2>3. IsCut(gs[1][1])
    BY <2>1, <2>2, <1>1 DEF AreCuts
  <2> QED
    BY <2>2, <2>3, <1>1 DEF StartOf, StopOf
<1>3. /\ a \in Nat /\ b \in Nat /\ a <= b /\ b <= m /\ b <= n
      /\ \A d \in 0 .. b - a - 1 : At(from, a + d) = At(to, a + d)
  BY <1>1, <1>2 DEF IsCut, OperationRecords
<1>4. BeginOf(o) = <<a, a>> /\ EndOf(o) = <<b, b>>
  BY <1>1 DEF BeginOf, EndOf
<1> HIDE DEF o, a, b
<1> DEFINE x == SubSeq(from, 0 + 1, a)
           y == SubSeq(to, 0 + 1, a)
           u == SubSeq(from, b + 1, m)
           v == SubSeq(to, b + 1, n)
<1>5. x = y
  <2> DEFINE e == <<0, 0>>
             f == <<a, a>>
  <2>1. IsSame(e, f) /\ e[1] = 0 /\ e[2] = 0 /\ f[1] = a /\ f[2] = a
    BY <1>2, <1>4 DEF Origin
  <2> HIDE DEF e, f
  <2>2. SubSeq(from, e[1] + 1, f[1]) = SubSeq(to, e[2] + 1, f[2])
    BY <2>1 DEF IsSame
  <2>3. SubSeq(from, 0 + 1, a) = SubSeq(to, 0 + 1, a)
    BY <2>1, <2>2
  <2> QED
    BY <2>3
<1>6. u = v
  <2> DEFINE e == <<b, b>>
             f == <<m, n>>
  <2>1. IsSame(e, f) /\ e[1] = b /\ e[2] = b /\ f[1] = m /\ f[2] = n
    BY <1>2, <1>4 DEF End
  <2> HIDE DEF e, f
  <2>2. SubSeq(from, e[1] + 1, f[1]) = SubSeq(to, e[2] + 1, f[2])
    BY <2>1 DEF IsSame
  <2>3. SubSeq(from, b + 1, m) = SubSeq(to, b + 1, n)
    BY <2>1, <2>2
  <2> QED
    BY <2>3
<1>7. /\ IsPart(Lines, from, 0, a, x) /\ IsPart(Lines, to, 0, a, y)
      /\ IsPart(Lines, from, b, m, u) /\ IsPart(Lines, to, b, n, v)
  <2>1. a <= m /\ a <= n
    BY <1>0, <1>3
  <2>2. IsPart(Lines, from, 0, a, x) /\ IsPart(Lines, to, 0, a, y)
    BY <2>1, <1>3, PartOf DEF AreTexts
  <2>3. IsPart(Lines, from, b, m, u) /\ IsPart(Lines, to, b, n, v)
    BY <1>0, <1>3, PartOf DEF AreTexts
  <2> QED
    BY <2>2, <2>3
<1> HIDE DEF x, y, u, v
<1>8. m = n
  <2>1. Len(u) = m - b /\ Len(v) = n - b
    BY <1>7 DEF IsPart
  <2> QED
    BY <2>1, <1>0, <1>3, <1>6
<1>9. \A k \in 1 .. a : At(from, (0 + k) - 1) = At(to, (0 + k) - 1)
  <2>1. \A k \in 1 .. a - 0 : x[k] = At(from, (0 + k) - 1) /\ y[k] = At(to, (0 + k) - 1)
    BY <1>7 DEF IsPart
  <2>2. a - 0 = a
    BY <1>3
  <2> QED
    BY <2>1, <2>2, <1>5
<1>10. \A k \in 1 .. m - b : At(from, (b + k) - 1) = At(to, (b + k) - 1)
  BY <1>6, <1>7, <1>8 DEF IsPart
<1>11. ASSUME NEW i \in 1 .. m
       PROVE  from[i] = to[i]
  <2>1. CASE i <= a
    <3>1. i \in 1 .. a /\ ((0 + i) - 1) + 1 = i
      BY <2>1
    <3> QED
      BY <3>1, <1>9 DEF At
  <2>2. CASE i > a /\ i <= b
    <3>1. (i - a) - 1 \in 0 .. b - a - 1 /\ (a + ((i - a) - 1)) + 1 = i
      BY <2>2, <1>3
    <3> QED
      BY <3>1, <1>3 DEF At
  <2>3. CASE i > b
    <3>1. i - b \in 1 .. m - b /\ ((b + (i - b)) - 1) + 1 = i
      BY <2>3, <1>0, <1>3
    <3> QED
      BY <3>1, <1>10 DEF At
  <2> QED
    BY <2>1, <2>2, <2>3, <1>3
<1>12. from \in Seq(Lines) /\ to \in Seq(Lines)
  BY DEF AreTexts
<1> HIDE DEF m, n
<1>13. Len(from) = m /\ Len(to) = m
  BY <1>8 DEF m, n
<1> QED
  BY <1>11, <1>12, <1>13, SeqEqual

\* What a differ writes of right operations and groups is a diff, or nothing.
IsADiff(lines) == (lines = <<>> /\ from = to) \/ LeadsThrough(lines)

\* Without a context all lines of the texts are written,
LEMMA OperationsLeadThrough ==
  ASSUME AreTexts, NEW os, Leads(from, to, {}, os, 0, 0, Len(from), Len(to))
  PROVE  IsADiff(DiffOperations(os))
<1>1. CASE os = <<>>
  <2>1. Len(from) = 0 /\ Len(to) = 0
    BY <1>1 DEF Leads
  <2>2. from = <<>> /\ to = <<>>
    BY <2>1, EmptySeq DEF AreTexts
  <2>3. DOMAIN os = {}
    BY <1>1
  <2>4. [i \in DOMAIN os |-> DiffOperation(os[i])] = <<>>
    BY <2>3
  <2>5. DiffOperations(os) = <<>>
    <3>1. PICK F : IsFlat(TextLines, <<>>, F)
      <4>1. <<>> \in Seq(Seq(TextLines))
        BY EmptySeq
      <4> QED
        BY <4>1, FlattenIs
    <3>2. Len(<<>>) = 0
      BY EmptySeq
    <3>3. FlattenSeq(<<>>) = <<>>
      BY <3>1, <3>2 DEF IsFlat
    <3> QED
      BY <2>4, <3>3 DEF DiffOperations
  <2> QED
    BY <2>2, <2>5 DEF IsADiff
<1>2. CASE os # <<>>
  <2>1. AreCuts(os) /\ BeginOf(os[1]) = Origin /\ EndOf(os[Len(os)]) = End
    BY <1>2, LeadingOperations
  <2>2. Writes(DiffOperations(os), Origin, End)
    BY <2>1, OperationsWrite
  <2> QED
    BY <2>2, LinesLeadThrough DEF IsADiff
<1> QED
  BY <1>1, <1>2

\* with one the hunks of the groups.
LEMMA GroupsLeadThrough ==
  ASSUME AreTexts, NEW gs, NEW p, AreGroupsTo(gs, p), IsSame(p, End)
  PROVE  IsADiff(DiffGroups(gs))
<1>1. CASE IsSameContent(gs)
  <2>1. DiffGroups(gs) = <<>>
    BY <1>1 DEF DiffGroups
  <2> QED
    BY <1>1, <2>1, SameContentIsSame DEF IsADiff
<1>2. CASE ~IsSameContent(gs)
  <2> DEFINE list == FlattenSeq([i \in DOMAIN gs |-> Hunk(gs[i])])
  <2>1. DiffGroups(gs) = list
    BY <1>2 DEF DiffGroups, Hunk
  <2>2. Patches(list, Origin, p) /\ list # <<>>
    BY HunksPatch
  <2> HIDE DEF list
  <2> QED
    BY <2>1, <2>2, HunksLeadThrough DEF IsADiff
<1> QED
  BY <1>1, <1>2

\* What any differ writes, with or without context and in whatever order the
\* matcher was asked before, leads from the first text to the second: no line is
\* lost, invented or out of place, and each summary counts the lines of its hunk.
THEOREM WrittenTheorem == Spec => []WrittenIsADiff
<1> DEFINE Inv == AreTexts /\ contextSize \in Nat /\ WrittenIsADiff
<1>1. Init => Inv
  <2> SUFFICES ASSUME Init PROVE Inv
    OBVIOUS
  <2>1. contextSize \in Nat
    BY DEF Init, InitialContextSize
  <2>2. WrittenIsADiff
    BY DEF Init, WrittenIsADiff
  <2> QED
    BY <2>1, <2>2, TextsAreSequences DEF AreTexts
<1>2. Inv /\ CachesAreFresh /\ [Next]_vars => Inv'
  <2> SUFFICES ASSUME Inv, CachesAreFresh, [Next]_vars
               PROVE  Inv'
    OBVIOUS
  <2>1. from' = from /\ to' = to
    BY DEF Next, AskBlocks, AskGroups, AskRatio, SetContextSize, Diff, NeedDiff, vars, texts
  <2>2. AreTexts'
    BY <2>1 DEF AreTexts
  <2>3. contextSize' \in Nat
    BY ContextSizesAssumption
    DEF Next, AskBlocks, AskGroups, AskRatio, SetContextSize, Diff, NeedDiff, vars
  <2>4. CASE UNCHANGED written
    BY <2>1, <2>2, <2>3, <2>4 DEF WrittenIsADiff, LeadsThrough, IsPassed, IsSame, NotWritten
  <2>5. CASE Diff
    <3> DEFINE os == GetOperations(GetBlocks(from, to, GetMatches(from, to, {})))
    <3>1. Operations = os /\ Groups = GetGroupedOperations(os, contextSize)
      BY UsedIsRight
    <3>2. Leads(from, to, {}, os, 0, 0, Len(from), Len(to))
      <4>1. Len(from) \in Nat /\ Len(to) \in Nat
        BY LenProperties DEF AreTexts
      <4> QED
        BY <4>1, GetBlocksIsRight, GetOperationsIsRight
    <3> HIDE DEF os
    <3>3. written' = DiffOperations(os) \/ written' = DiffGroups(GetGroupedOperations(os, contextSize))
      BY <2>5, <3>1 DEF Diff
    <3>4. PICK p : AreGroupsTo(GetGroupedOperations(os, contextSize), p) /\ IsSame(p, End)
      BY <3>2, GetGroupedOperationsIsRight
    <3>5. IsADiff(written')
      BY <3>2, <3>3, <3>4, OperationsLeadThrough, GroupsLeadThrough
    <3>6. WrittenIsADiff'
      BY <2>1, <3>5 DEF WrittenIsADiff, IsADiff, LeadsThrough, IsPassed, IsSame
    <3> QED
      BY <2>2, <2>3, <3>6
  <2>6. ~UNCHANGED written => Diff
    BY DEF Next, AskBlocks, AskGroups, AskRatio, SetContextSize, NeedDiff, vars
  <2> QED
    BY <2>4, <2>5, <2>6
<1>3. Inv => WrittenIsADiff
  OBVIOUS
<1> HIDE DEF Inv
<1> QED
  BY <1>1, <1>2, <1>3, MatcherIsFresh, PTL DEF Spec
===============================================================================
