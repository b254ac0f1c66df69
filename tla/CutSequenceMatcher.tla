-------------------------- MODULE CutSequenceMatcher --------------------------
(***************************************************************************)
(* What cut-sequence-matcher.c computes for two sequences: the longest     *)
(* match of two windows, the matches, blocks, operations and groups of     *)
(* operations.  Indices are C's: from 0, with an end that is not included. *)
(* A window is <<from begin, from end, to begin, to end>>.                 *)
(*                                                                         *)
(* junk is the set of elements that the junk filter picks.                 *)
(***************************************************************************)
EXTENDS Integers, Sequences, SequencesExt, FiniteSets, FiniteSetsExt

At(s, i) == s[i + 1]

-----------------------------------------------------------------------------
\* find_best_match_position(): the longest common run of elements that are no
\* junk; of these the first in from, then the first in to.
IsBetter(m, n) ==
  \/ m.size > n.size
  \/ m.size = n.size /\ (m.from < n.from \/ (m.from = n.from /\ m.to <= n.to))

RunSizes(from, to, junk, w) ==
  LET size[p \in (w[1] - 1 .. w[2] - 1) \X (w[3] - 1 .. w[4] - 1)] ==
        IF p[1] < w[1] \/ p[2] < w[3] \/ At(from, p[1]) # At(to, p[2]) \/ At(to, p[2]) \in junk
        THEN 0 ELSE size[<<p[1] - 1, p[2] - 1>>] + 1
  IN size
RunsFound(from, to, junk, w) ==
  LET size == RunSizes(from, to, junk, w)
  IN {m \in {[from |-> p[1] - size[p] + 1, to |-> p[2] - size[p] + 1, size |-> size[p]] :
                p \in (w[1] .. w[2] - 1) \X (w[3] .. w[4] - 1)} : m.size > 0}
BestMatchPosition(from, to, junk, w) ==
  LET found == RunsFound(from, to, junk, w) \cup {[from |-> w[1], to |-> w[3], size |-> 0]}
  IN CHOOSE m \in found : \A n \in found : IsBetter(m, n)

\* adjust_best_info_with_junk_predicate(): a match grows by equal elements
\* that are junk (or none), to the left and, but for the last element of a
\* window, to the right.
Adjusted(from, to, junk, w, shouldJunk, m) ==
  LET grows(i, j) == (At(to, j) \in junk <=> shouldJunk) /\ At(from, i) = At(to, j)
      end == [from |-> m.from + m.size, to |-> m.to + m.size]
      left == Max({n \in 0 .. Min({m.from - w[1], m.to - w[3]}) :
                     \A d \in 1 .. n : grows(m.from - d, m.to - d)})
      right == Max({n \in 0 .. Max({0, Min({w[2] - 1 - end.from, w[4] - 1 - end.to})}) :
                      \A d \in 0 .. n - 1 : grows(end.from + d, end.to + d)})
  IN [from |-> m.from - left, to |-> m.to - left, size |-> m.size + left + right]

\* cut_sequence_matcher_get_longest_match().
LongestMatch(from, to, junk, w) ==
  LET best == BestMatchPosition(from, to, junk, w)
  IN IF junk \cap Range(to) = {} THEN best
     ELSE Adjusted(from, to, junk, w, TRUE,
                   Adjusted(from, to, junk, w, FALSE, best))

\* cut_sequence_matcher_get_matches(): the longest match, and the matches left
\* and right of it, as long as both sides of a window have elements.
BugLeftWindow(w, m) == <<w[1], m.from, w[3], w[4]>>
LeftWindow(w, m) == <<w[1], m.from, w[3], m.to>>
RightWindow(w, m) == <<m.from + m.size, w[2], m.to + m.size, w[4]>>
IsOpen(w) == w[1] < w[2] /\ w[3] < w[4]

Windows(from, to) ==
  {w \in (0 .. Len(from)) \X (0 .. Len(from)) \X (0 .. Len(to)) \X (0 .. Len(to)) :
     w[1] <= w[2] /\ w[3] <= w[4]}
MatchesIn(from, to, junk) ==
  LET matches[w \in Windows(from, to)] ==
        UNION {{m} \cup UNION {matches[x] : x \in
                 {y \in {LeftWindow(w, m), RightWindow(w, m)} : IsOpen(y)}} :
                 m \in {n \in {LongestMatch(from, to, junk, w)} : n.size > 0}}
  IN matches

\* compare_match_info(): the list is sorted by where its matches begin in from.
Sorted(found) ==
  CHOOSE list \in [1 .. Cardinality(found) -> found] :
    \A i, j \in DOMAIN list : i < j => list[i].from < list[j].from
GetMatches(from, to, junk) ==
  Sorted(MatchesIn(from, to, junk)[<<0, Len(from), 0, Len(to)>>])

\* cut_sequence_matcher_get_blocks(): matches that touch are one block; an
\* empty block ends the list.
BugTouches(m, n) == m.from + m.size = n.from
Touches(m, n) == m.from + m.size = n.from /\ m.to + m.size = n.to

WithMatch(list, m) ==
  IF list # <<>> /\ Touches(Last(list), m)
  THEN [list EXCEPT ![Len(list)].size = @ + m.size]
  ELSE Append(list, m)
Joined(matches) ==
  LET list[n \in 0 .. Len(matches)] ==
        IF n = 0 THEN <<>> ELSE WithMatch(list[n - 1], matches[n])
  IN list
GetBlocks(from, to, matches) ==
  Append(Joined(matches)[Len(matches)],
         [from |-> Len(from), to |-> Len(to), size |-> 0])

-----------------------------------------------------------------------------
Operation(type, fb, fe, tb, te) ==
  [type |-> type, fb |-> fb, fe |-> fe, tb |-> tb, te |-> te]

\* determine_operation_type().
OperationType(fi, ti, m) ==
  IF fi < m.from /\ ti < m.to THEN "replace"
  ELSE IF fi < m.from THEN "delete"
  ELSE IF ti < m.to THEN "insert"
  ELSE "equal"

\* cut_sequence_matcher_get_operations(): what is between two blocks, and the
\* blocks.
OperationsOf(blocks, i) ==
  LET m == blocks[i]
      fi == IF i = 1 THEN 0 ELSE blocks[i - 1].from + blocks[i - 1].size
      ti == IF i = 1 THEN 0 ELSE blocks[i - 1].to + blocks[i - 1].size
      type == OperationType(fi, ti, m)
  IN (IF type = "equal" THEN <<>> ELSE <<Operation(type, fi, m.from, ti, m.to)>>)
     \o (IF m.size = 0 THEN <<>>
         ELSE <<Operation("equal", m.from, m.from + m.size, m.to, m.to + m.size)>>)
OperationsUpTo(blocks) ==
  LET list[n \in 0 .. Len(blocks)] ==
        IF n = 0 THEN <<>> ELSE list[n - 1] \o OperationsOf(blocks, n)
  IN list
GetOperations(blocks) == OperationsUpTo(blocks)[Len(blocks)]

\* The first and the last elements of an operation.
Ending(o, n) == [o EXCEPT !.fb = Max({@, o.fe - n}), !.tb = Max({@, o.te - n})]
Beginning(o, n) == [o EXCEPT !.fe = Min({@, o.fb + n}), !.te = Min({@, o.tb + n})]

\* get_edge_expanded_copied_operations(): equal elements at the edges are cut
\* to the context; those of a list that has nothing else on the left only.
EdgesCut(operations, context) ==
  IF operations = <<>> THEN <<Operation("equal", 0, 0, 0, 0)>>
  ELSE [i \in DOMAIN operations |->
          IF operations[i].type # "equal" THEN operations[i]
          ELSE IF i = 1 THEN Ending(operations[i], context)
          ELSE IF i = Len(operations) THEN Beginning(operations[i], context)
          ELSE operations[i]]

\* cut_sequence_matcher_get_grouped_operations(): a long run of equal elements
\* ends a group and begins the next one.
GroupWindow(context) == context * 2

WithOperation(groups, o, context) ==
  IF o.type = "equal" /\ o.fe - o.fb > GroupWindow(context)
  THEN Append([groups EXCEPT ![Len(groups)] = Append(@, Beginning(o, context))],
              <<Ending(o, context)>>)
  ELSE [groups EXCEPT ![Len(groups)] = Append(@, o)]
GroupsUpTo(operations, context) ==
  LET list[n \in 0 .. Len(operations)] ==
        IF n = 0 THEN << <<>> >> ELSE WithOperation(list[n - 1], operations[n], context)
  IN list
GetGroupedOperations(operations, context) ==
  LET cut == EdgesCut(operations, context)
  IN GroupsUpTo(cut, context)[Len(cut)]

\* cut_sequence_matcher_get_ratio(), as a fraction.
GetRatio(from, to, blocks) ==
  LET length == Len(from) + Len(to)
  IN IF length = 0 THEN <<1, 1>>
     ELSE <<2 * FoldLeft(LAMBDA n, m : n + m.size, 0, blocks), length>>
===============================================================================
