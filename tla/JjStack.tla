------------------------------ MODULE JjStack ------------------------------
(***************************************************************************)
(* What a jj stack is: extensions/jj-stacked-prs/stack.ts, the inspection   *)
(* of orchestrator.ts that calls it, and the choice of the top bookmark of  *)
(* a publication request.                                                  *)
(*                                                                         *)
(* The line of changes from the trunk to a bookmark, or to the working      *)
(* copy, is cut at its bookmarks into slices, one pull request each, and is *)
(* blocked when that cannot be done.                                       *)
(***************************************************************************)
EXTENDS Naturals, Sequences

CONSTANTS
  Refs,      \* bookmarks
  MaxLine,   \* bound: changes on a line
  MaxStack   \* changes an inspection takes

VARIABLES
  line,      \* the changes from the trunk to the asked bookmark or to @, bottom first
  odd,       \* what is wrong with one change of it
  asked,     \* the bookmark the user names as the top, or Missing
  model,     \* what inspectStack returned
  request    \* the top of a publication request that names none

vars == <<line, odd, asked, model, request>>

Trunk == "main"
Missing == "missing"   \* no bookmark
Marks == {<<>>, <<Trunk>>} \cup {<<r>> : r \in Refs} \cup {<<r, s>> : r, s \in Refs}

\* `odd` puts one flaw on one change: a conflict, divergence or merge, no
\* description, or (at the bottom) a parent that is not the trunk.
Flaws == {"none", "broken", "untitled", "unrooted"}

Change == [marks : {m \in Marks : Len(m) < 2 \/ m[1] # m[2]}, empty : BOOLEAN]
NoModel == [top |-> Missing, stack |-> <<>>, truncated |-> FALSE, blockers |-> {}]

Has(change, ref) == \E k \in DOMAIN change.marks : change.marks[k] = ref

Init ==
  /\ asked \in Refs \cup {Missing}
  /\ \E n \in 0..MaxLine : \E copy \in IF asked = Missing THEN {n} ELSE 0..n, c \in [1..n -> Change] :
       /\ (asked # Missing /\ n > 0) => Has(c[n], asked)
       /\ line = [i \in 1..n |-> [marks |-> c[i].marks, empty |-> c[i].empty, copy |-> i = copy]]
  /\ \E f \in Flaws, i \in 1..(IF line = <<>> THEN 1 ELSE Len(line)) :
       odd = [flaw |-> f, at |-> IF f \in {"none", "unrooted"} THEN 1 ELSE i]
  /\ model = NoModel /\ request = "none"
----------------------------------------------------------------------------
(* inferUniqueTop                                                          *)

\* The bookmarks in `within` of the topmost change that has any.
Topmost(stack, within) ==
  {r \in within : \E i \in DOMAIN stack :
     Has(stack[i], r) /\ \A j \in DOMAIN stack : j > i => \A q \in within : ~Has(stack[j], q)}

\* The trunk's bookmark is the top only where there is no other.
TopCandidates(stack) ==
  IF \E r \in Refs, i \in DOMAIN stack : Has(stack[i], r) THEN Topmost(stack, Refs) ELSE Topmost(stack, {Trunk})

\* A change above the top that no bookmark is on, unless it is the empty
\* working copy.
UnbookmarkedTail(stack, top) ==
  \E i \in DOMAIN stack :
    /\ stack[i].marks = <<>> /\ ~(stack[i].empty /\ stack[i].copy)
    /\ \E j \in 1..(i - 1) : Has(stack[j], top)
    /\ \A j \in i..Len(stack) : ~Has(stack[j], top)

InferUniqueTop(stack) ==
  {r \in TopCandidates(stack) : TopCandidates(stack) = {r} /\ ~UnbookmarkedTail(stack, r)}
----------------------------------------------------------------------------
(* deriveSlices, detectBlockers                                            *)

\* The bookmarks of the stack, and which of two comes first.
Boundaries(stack) ==
  UNION {{[at |-> i, nth |-> k, ref |-> stack[i].marks[k]] : k \in DOMAIN stack[i].marks} : i \in DOMAIN stack}

Under(b, c) == b.at < c.at \/ (b.at = c.at /\ b.nth < c.nth)

\* The changes of a slice follow those of the slice below it.
ChangesOf(stack, b) == {i \in 1..b.at : \A c \in Boundaries(stack) : Under(c, b) => c.at < i}

Flawed(stack, flaw) == odd.flaw = flaw /\ odd.at <= Len(stack)

\* conflict, divergence and merge are one code here, "broken".
ChangeBlockers(stack) ==
  {c \in {"broken"} : Flawed(stack, "broken")}
    \cup {c \in {"empty-boundary"} : \E i \in DOMAIN stack : stack[i].empty /\ stack[i].marks # <<>> /\ ~stack[i].copy}
    \cup {c \in {"empty-description"} : Flawed(stack, "untitled") /\ stack[odd.at].marks # <<>>}
    \cup {c \in {"multiple-bookmarks"} : \E i \in DOMAIN stack : Len(stack[i].marks) > 1}

DuplicateBookmarks(stack) ==
  \E r \in Refs \cup {Trunk}, i, j \in DOMAIN stack : i # j /\ Has(stack[i], r) /\ Has(stack[j], r)

TopIsFinal(stack, top) ==
  \E b \in Boundaries(stack) : b.ref = top /\ \A c \in Boundaries(stack) : ~Under(b, c)

DetectBlockers(stack, top) ==
  ChangeBlockers(stack)
    \cup {c \in {"empty-stack"} : stack = <<>>}
    \cup {c \in {"missing-top"} : top = Missing}
    \cup {c \in {"ambiguous-local-bookmark"} : DuplicateBookmarks(stack)}
    \cup {c \in {"not-rooted-at-trunk"} : stack # <<>> /\ odd.flaw = "unrooted"}
    \cup {c \in {"top-not-final-boundary"} : top # Missing /\ stack # <<>> /\ ~TopIsFinal(stack, top)}
    \cup {c \in {"unbookmarked-tail"} : top # Missing /\ UnbookmarkedTail(stack, top)}

TruncateStack(stack) == SubSeq(stack, 1, IF Len(stack) <= MaxStack THEN Len(stack) ELSE MaxStack)
----------------------------------------------------------------------------
(* inspectStack: an inferred top ends the line, which is fetched again.    *)

\* trunk..ref, when ref is on one change of the line.
LineTo(ref) == SubSeq(line, 1, CHOOSE i \in DOMAIN line : Has(line[i], ref))

Inspected(top) ==
  LET commits == IF asked = Missing /\ top # Missing THEN LineTo(top) ELSE line
      stack == TruncateStack(commits)
  IN [top |-> top, stack |-> stack, truncated |-> Len(commits) > MaxStack,
      blockers |-> DetectBlockers(stack, top) \cup {c \in {"truncated"} : Len(commits) > MaxStack}]

\* A bookmark on two changes does not resolve to one commit: the inspection throws.
Resolves(top) == top = Missing \/ ~\E i, j \in DOMAIN line : i # j /\ Has(line[i], top) /\ Has(line[j], top)

InspectStack ==
  /\ model = NoModel
  /\ \E top \in IF asked # Missing THEN {asked}
                ELSE IF InferUniqueTop(line) = {} THEN {Missing} ELSE InferUniqueTop(line) :
       Resolves(top) /\ model' = Inspected(top)
  /\ UNCHANGED <<line, odd, asked, request>>

\* requestPublicationFromInput without a top: the inference runs once more, on
\* the stack the inspection returned.
RequestPublication ==
  /\ model # NoModel /\ asked = Missing /\ request = "none"
  /\ \/ \E r \in InferUniqueTop(model.stack) : request' = r
     \/ InferUniqueTop(model.stack) = {} /\ request' = "blocked"
  /\ UNCHANGED <<line, odd, asked, model>>

Next == InspectStack \/ RequestPublication
----------------------------------------------------------------------------
(* What is published of it                                                 *)

\* planStack goes on, and slicesForPublication has its slices.
Publishable == model # NoModel /\ model.blockers = {} /\ model.top # Missing

\* Slices cut the stack: every change is in one pull request, in order, each
\* pull request has a change, ends at its own bookmark and at no other's, and the
\* last one is the top.
SlicesPartition ==
  Publishable =>
    LET stack == model.stack  slices == Boundaries(stack) IN
    /\ \A i \in DOMAIN stack : \E b \in slices : i \in ChangesOf(stack, b)
    /\ \A b \in slices : b.at \in ChangesOf(stack, b) /\ Has(stack[b.at], b.ref)
    /\ \A b \in slices : \A i \in ChangesOf(stack, b) : stack[i].marks # <<>> => i = b.at
    /\ \A b, c \in slices : b # c =>
         /\ b.ref # c.ref
         /\ b.at < c.at => \A i \in ChangesOf(stack, b), j \in ChangesOf(stack, c) : i < j
    /\ \E b \in slices : b.ref = model.top /\ b.at = Len(stack)

\* A request that names no top takes the one the inspection inferred, unless the
\* stack was truncated.
RequestKeepsTop == request \notin {"none", "blocked"} /\ ~model.truncated => request = model.top
=============================================================================
