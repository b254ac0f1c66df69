------------------------------- MODULE CutDiffer -------------------------------
(***************************************************************************)
(* A differ and its matcher as objects: the lists that a matcher keeps     *)
(* once they are computed, the context size, which may be set at any time, *)
(* and the diffs that are written (cut-differ.c, cut-readable-differ.c,    *)
(* cut-colorize-differ.c, cut-unified-differ.c, and the state of           *)
(* cut-sequence-matcher.c).                                                *)
(*                                                                         *)
(* A line is a sequence of characters.  A diff is the sequence of its      *)
(* lines, each with its mark: "deleted" for "-", "inserted" for "+",       *)
(* "equal" for a space and "summary" for "@@"; what a line of marks below  *)
(* two similar lines looks like is left out.                               *)
(***************************************************************************)
EXTENDS CutSequenceMatcher

CONSTANTS
  Lines,        \* the lines of the texts
  MaxLines,     \* bound: the lines of a text
  Spaces,       \* the characters that are junk
  ContextSizes  \* the context sizes that are set

ASSUME LinesAssumption ==
  MaxLines \in Nat /\ \A line \in Lines : line \in Seq(Range(line))
ASSUME ContextSizesAssumption == ContextSizes \subseteq Nat

VARIABLES
  class,       \* of the differ: "readable", "colorize" or "unified"
  from, to,    \* the lines of the two texts
  contextSize,
  matches, blocks, operations, grouped, ratio,  \* what is kept, or <<>>
  written,     \* the lines of the diff that was written last, or NotWritten
  needed       \* the last answer of need_diff

caches == <<matches, blocks, operations, grouped, ratio>>
texts == <<class, from, to>>
vars == <<texts, contextSize, caches, written, needed>>

NotWritten == <<[mark |-> "none"]>>

\* cut-sequence-matcher.c has 3 by default.
InitialContextSize(c) == IF c = "unified" THEN 3 ELSE 0

Init ==
  /\ class \in {"readable", "colorize", "unified"}
  /\ from \in BoundedSeq(Lines, MaxLines) /\ to \in BoundedSeq(Lines, MaxLines)
  /\ contextSize = InitialContextSize(class)
  /\ matches = <<>> /\ blocks = <<>> /\ operations = <<>> /\ grouped = <<>>
  /\ ratio = <<>> /\ written = NotWritten /\ needed = "unknown"

-----------------------------------------------------------------------------
\* What the matcher keeps.

Kept(list, new) == IF list # <<>> THEN list ELSE new
Matches == Kept(matches, GetMatches(from, to, {}))
Blocks == Kept(blocks, GetBlocks(from, to, Matches))
Operations == Kept(operations, GetOperations(Blocks))
Groups == Kept(grouped, GetGroupedOperations(Operations, contextSize))
Ratio == Kept(ratio, GetRatio(from, to, Blocks))

UseMatches == matches' = Matches
UseBlocks ==
  /\ blocks' = Blocks
  /\ IF blocks # <<>> THEN UNCHANGED matches ELSE UseMatches
UseOperations ==
  /\ operations' = Operations
  /\ IF operations # <<>> THEN UNCHANGED <<matches, blocks>> ELSE UseBlocks
UseGroups ==
  /\ grouped' = Groups
  /\ IF grouped # <<>> THEN UNCHANGED <<matches, blocks, operations>>
                       ELSE UseOperations

\* The accessors.  An empty text has no elements to count: its ratio needs no
\* blocks.
AskBlocks ==
  /\ UseBlocks
  /\ UNCHANGED <<texts, contextSize, operations, grouped, ratio, written, needed>>
AskGroups ==
  /\ UseGroups
  /\ UNCHANGED <<texts, contextSize, ratio, written, needed>>
AskRatio ==
  /\ ratio' = Ratio
  /\ IF ratio # <<>> \/ from \o to = <<>> THEN UNCHANGED <<matches, blocks>> ELSE UseBlocks
  /\ UNCHANGED <<texts, contextSize, operations, grouped, written, needed>>

\* cut_sequence_matcher_set_context_size(): the groups depend on it.
BugGroupsKept(n) == grouped
GroupsKept(n) == IF n = contextSize THEN grouped ELSE <<>>

SetContextSize(n) ==
  /\ contextSize' = n
  /\ grouped' = GroupsKept(n)
  /\ UNCHANGED <<texts, matches, blocks, operations, ratio, written, needed>>

-----------------------------------------------------------------------------
\* Ratios of lines, as fractions.

LineRatio == [a \in Lines, b \in Lines |->
                GetRatio(a, b, GetBlocks(a, b, GetMatches(a, b, Spaces)))]

IsGreater(r, s) == r[1] * s[2] > s[1] * r[2]
\* A colorize differ writes any two lines together.
ColorizeRatio == <<0, 1>>
BestRatio == IF class = "colorize" THEN ColorizeRatio ELSE <<74, 100>>
CutOffRatio == IF class = "colorize" THEN ColorizeRatio ELSE <<75, 100>>

-----------------------------------------------------------------------------
\* The lines of a diff.

Marked(mark, text, begin, end) ==
  [i \in 1 .. end - begin |-> [mark |-> mark, line |-> At(text, begin + i - 1)]]
Deleted(begin, end) == Marked("deleted", from, begin, end)
Inserted(begin, end) == Marked("inserted", to, begin, end)

\* diff_line().
DiffLine(i, j) == Deleted(i, i + 1) \o Inserted(j, j + 1)

\* diff_lines(), mark_diff_lines(): the pair of lines that are most alike is
\* written together, what is before and after it in the same way.
BugLower(w, p) == <<p[1] + 1, w[2], p[2], w[4]>>
Lower(w, p) == <<p[1] + 1, w[2], p[2] + 1, w[4]>>
Upper(w, p) == <<w[1], p[1], w[3], p[2]>>

Alike(p) == LineRatio[At(from, p[1]), At(to, p[2])]
IsEqual(p) == At(from, p[1]) = At(to, p[2])

\* Of pairs of different lines the most alike that are written together.
MostAlike(pairs) ==
  {p \in pairs : /\ IsGreater(Alike(p), BestRatio) /\ ~IsGreater(CutOffRatio, Alike(p))
                 /\ \A q \in pairs : ~IsGreater(Alike(q), Alike(p))}

\* Without such a pair it is an equal one; a colorize differ takes any.
OrElse(chosen, pairs) ==
  IF chosen # {} THEN chosen
  ELSE IF IsGreater(CutOffRatio, BestRatio) THEN {p \in pairs : IsEqual(p)}
  ELSE pairs
PairsToWrite(pairs) == OrElse(MostAlike({p \in pairs : ~IsEqual(p)}), pairs)

\* The first pair, in the order of the two loops.
IsFirst(p, pairs) ==
  \A q \in pairs : p[2] < q[2] \/ (p[2] = q[2] /\ p[1] <= q[1])

DiffLines(window) ==
  LET f == 0 .. Len(from)
      t == 0 .. Len(to)
      diff[w \in f \X f \X t \X t] ==
        LET Apart == IF w[4] - w[3] < w[2] - w[1]
                     THEN Inserted(w[3], w[4]) \o Deleted(w[1], w[2])
                     ELSE Deleted(w[1], w[2]) \o Inserted(w[3], w[4])
            Paired(p) == diff[Upper(w, p)] \o DiffLine(p[1], p[2]) \o diff[Lower(w, p)]
            Write(pairs) == IF pairs = {} THEN Apart
                            ELSE Paired(CHOOSE p \in pairs : IsFirst(p, pairs))
        IN Write(PairsToWrite((w[1] .. w[2] - 1) \X (w[3] .. w[4] - 1)))
  IN diff[window]

\* The operations of the two diff functions.
DiffOperation(o) ==
  CASE o.type = "equal" -> Marked("equal", from, o.fb, o.fe)
    [] o.type = "insert" -> Inserted(o.tb, o.te)
    [] o.type = "delete" -> Deleted(o.fb, o.fe)
    [] o.type = "replace" ->
         IF class = "unified" THEN Deleted(o.fb, o.fe) \o Inserted(o.tb, o.te)
         ELSE DiffLines(<<o.fb, o.fe, o.tb, o.te>>)

DiffOperations(os) == FlattenSeq([i \in DOMAIN os |-> DiffOperation(os[i])])

\* cut_differ_write_summary(): where a group begins, and its lengths; a length
\* of 0 is left out like one of 1.
WrittenLength(n) == Max({n, 1})
Summary(os) ==
  [mark |-> "summary", from |-> Head(os).fb + 1, to |-> Head(os).tb + 1,
   deleted |-> WrittenLength(Last(os).fe - Head(os).fb),
   inserted |-> WrittenLength(Last(os).te - Head(os).tb)]

\* cut_differ_util_is_same_content().
IsSameContent(groups) ==
  /\ Len(groups) = 1 /\ Len(groups[1]) = 1
  /\ LET o == groups[1][1]
     IN o.type = "equal" /\ o.fb = o.tb /\ o.fe = o.te

DiffGroups(groups) ==
  IF IsSameContent(groups) THEN <<>>
  ELSE FlattenSeq([i \in DOMAIN groups |->
                     <<Summary(groups[i])>> \o DiffOperations(groups[i])])

-----------------------------------------------------------------------------
\* cut_differ_diff().
Diff ==
  /\ IF class # "unified" /\ contextSize = 0
     THEN /\ written' = DiffOperations(Operations)
          /\ UseOperations /\ UNCHANGED grouped
     ELSE /\ written' = DiffGroups(Groups)
          /\ UseGroups
  /\ UNCHANGED <<texts, contextSize, ratio, needed>>

\* cut_differ_need_diff(): equal lines together with inserted or deleted ones,
\* or replaced lines that are alike.
IsNeeded ==
  LET types == {o.type : o \in Range(Operations)}
  IN \/ {"equal", "insert"} \subseteq types \/ {"equal", "delete"} \subseteq types
     \/ \E o \in Range(Operations) :
          /\ o.type = "replace"
          /\ \E i \in o.fb .. o.fe - 1, j \in o.tb .. o.te - 1 :
               IsGreater(LineRatio[At(from, i), At(to, j)], BestRatio)
NeedDiff ==
  /\ needed' = IF IsNeeded THEN "yes" ELSE "no"
  /\ UseOperations
  /\ UNCHANGED <<texts, contextSize, grouped, ratio, written>>

Next ==
  \/ AskBlocks \/ AskGroups \/ AskRatio
  \/ \E n \in ContextSizes : SetContextSize(n)
  \/ Diff \/ NeedDiff

Spec == Init /\ [][Next]_vars

-----------------------------------------------------------------------------
\* What the matcher keeps is what it would compute now: for the texts, and
\* the groups for the context size that was set last.
CachesAreFresh ==
  LET ms == GetMatches(from, to, {})
      bs == GetBlocks(from, to, ms)
      os == GetOperations(bs)
  IN /\ matches \in {<<>>, ms} /\ blocks \in {<<>>, bs} /\ operations \in {<<>>, os}
     /\ grouped \in {<<>>, GetGroupedOperations(os, contextSize)}
     /\ ratio \in {<<>>, GetRatio(from, to, bs)}

\* The operations lead from one text to the other: each begins where the one
\* before it ends, "equal" ones keep elements that are equal, and what is
\* replaced has nothing in common.  So they do for the characters of two lines,
\* of which spaces are junk; there, spaces may be replaced by spaces.
Follows(o, p) == p.fb = o.fe /\ p.tb = o.te
IsDiff(a, b, os, junk) ==
  /\ os = <<>> <=> a \o b = <<>>
  /\ os # <<>> => /\ Head(os).fb = 0 /\ Head(os).tb = 0
                  /\ Last(os).fe = Len(a) /\ Last(os).te = Len(b)
  /\ \A i \in DOMAIN os : i > 1 => Follows(os[i - 1], os[i])
  /\ \A o \in Range(os) :
       LET left == SubSeq(a, o.fb + 1, o.fe)
           right == SubSeq(b, o.tb + 1, o.te)
       IN CASE o.type = "equal" -> left = right /\ left # <<>>
            [] o.type = "insert" -> left = <<>> /\ right # <<>>
            [] o.type = "delete" -> left # <<>> /\ right = <<>>
            [] o.type = "replace" ->
                 left # <<>> /\ right # <<>>
                 /\ Range(left) \cap Range(right) \subseteq junk
OperationsAreADiff ==
  /\ operations # <<>> => IsDiff(from, to, operations, {})
  /\ operations # <<>> =>
       \A a \in Range(from), b \in Range(to) :
         IsDiff(a, b, GetOperations(GetBlocks(a, b, GetMatches(a, b, Spaces))), Spaces)

\* The lines of the two texts that have been passed after a line of a diff.
Passed(lines) ==
  LET passed[n \in 0 .. Len(lines)] ==
        IF n = 0 THEN <<0, 0>>
        ELSE IF lines[n].mark = "summary" THEN <<lines[n].from - 1, lines[n].to - 1>>
        ELSE <<passed[n - 1][1] + (IF lines[n].mark = "inserted" THEN 0 ELSE 1),
               passed[n - 1][2] + (IF lines[n].mark = "deleted" THEN 0 ELSE 1)>>
  IN passed

\* What is between two places of the texts is the same in both.
IsSame(p, q) ==
  /\ p[1] <= q[1] /\ p[2] <= q[2]
  /\ SubSeq(from, p[1] + 1, q[1]) = SubSeq(to, p[2] + 1, q[2])

\* A line of a diff is the next one of the texts that it is marked to be in; a
\* summary passes lines that are the same.
IsPassed(p, x, q) ==
  /\ x.mark = "summary" => IsSame(p, q)
  /\ x.mark \in {"equal", "deleted"} => q[1] <= Len(from) /\ x.line = from[q[1]]
  /\ x.mark \in {"equal", "inserted"} => q[2] <= Len(to) /\ x.line = to[q[2]]

\* The lines i + 1 .. k are all those that follow the summary i; there are as
\* many as it says, or none where it says one.
AreSummarized(lines, i, k) ==
  /\ lines[i].mark = "summary" /\ \A j \in i + 1 .. k : lines[j].mark # "summary"
  /\ k < Len(lines) => lines[k + 1].mark = "summary"
HasLength(n, length) == n = length \/ (n = 0 /\ length = 1)

\* A diff leads through both texts: its lines but for the inserted ones are
\* the first, its lines but for the deleted ones the second.  With summaries it
\* is a patch, and leaves out what is the same before, between and after them.
LeadsThrough(lines) ==
  LET passed == Passed(lines)
      end == <<Len(from), Len(to)>>
  IN /\ \A i \in DOMAIN lines : IsPassed(passed[i - 1], lines[i], passed[i])
     /\ \A i \in DOMAIN lines : \A k \in i .. Len(lines) :
          AreSummarized(lines, i, k) =>
            /\ HasLength(passed[k][1] - passed[i][1], lines[i].deleted)
            /\ HasLength(passed[k][2] - passed[i][2], lines[i].inserted)
     /\ IF \E i \in DOMAIN lines : lines[i].mark = "summary" THEN IsSame(passed[Len(lines)], end)
        ELSE passed[Len(lines)] = end

\* What was written last is a diff of the texts, or nothing where they are the
\* same.
WrittenIsADiff ==
  written # NotWritten => (written = <<>> /\ from = to) \/ LeadsThrough(written)
===============================================================================
