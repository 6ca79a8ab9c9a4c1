--------------------------- MODULE StackNavigation --------------------------
(***************************************************************************)
(* Which pull requests form a stack, as kstack remembers it on GitHub: a    *)
(* navigation comment on every pull request of the stack                   *)
(* (shared/stack/topology.ts).  A publication or a landing reconciles the  *)
(* comments; a landing reads them back.                                    *)
(*                                                                         *)
(* Pull requests are numbered from the bottom of the stack: those up to    *)
(* `merged` have landed, those up to `top` are published.  An entry of a   *)
(* table is such a number, with its status; others may write anything.     *)
(***************************************************************************)
EXTENDS Integers, Sequences, FiniteSets

CONSTANTS
  MaxPr,      \* bound on the pull requests
  MaxEvents,  \* bound on what others do
  MaxRounds   \* bound on the reconciliations

PRs == 1..MaxPr

VARIABLES
  merged, top,
  comments,  \* the marked comments of each pull request, oldest first
  step,
  fetched,   \* existingByPr, what was read of each pull request
  failed,    \* failedFetches
  table,     \* the body to write
  todo,      \* what the last loop still has to write
  written,   \* completed
  doubt,     \* the pull request whose write is indeterminate, or 0
  errors,
  lossy,     \* a table may be missing: a comment deleted, a read or a write failed
  events, rounds

world == <<merged, top, comments>>
navVars == <<world, step, fetched, failed, table, todo, written, doubt, errors, lossy, events, rounds>>

InStack == (merged + 1)..top
Stack == [i \in 1..(top - merged) |-> merged + i]
Statuses == {"open", "merged", "unknown"}
Entry(pr, status) == [pr |-> pr, status |-> status]
Strangers == <<Entry(MaxPr + 1, "open")>>   \* of no pull request here

\* Authors: "me"; "they"; and "new", me with a later schema.
Ours(c) == c.by = "me"

-----------------------------------------------------------------------------
(* Reading *)

\* Where the first comment with the marker, of the authenticated user, in a known schema is.
FindKstackComment(cs) == {i \in DOMAIN cs : Ours(cs[i]) /\ \A j \in 1..(i - 1) : ~Ours(cs[j])}

Table(cs) ==
  IF FindKstackComment(cs) = {} THEN <<>> ELSE cs[CHOOSE i \in FindKstackComment(cs) : TRUE].table

\* Whose comments they are may be unknown (getAuthenticatedUser() failed): the first one in
\* a known schema decides then, whoever wrote it.
FindAnyComment(cs) == {i \in DOMAIN cs : cs[i].by # "new" /\ \A j \in 1..(i - 1) : cs[j].by = "new"}

AnyTable(cs) ==
  IF FindAnyComment(cs) = {} THEN <<>> ELSE cs[CHOOSE i \in FindAnyComment(cs) : TRUE].table

\* A landing finds the pull request in the table it reads, or not at all.
Membership(pr, named) ==
  LET entries == IF named THEN Table(comments[pr]) ELSE AnyTable(comments[pr]) IN
  [entries |-> entries, selected |-> {i \in DOMAIN entries : entries[i].pr = pr}]

Known(pr) == IF pr \in failed THEN <<>> ELSE Table(fetched[pr])

\* The longest table of the stack's comments is the prior one, the lowest pull request's of equals.
HasPrior(pr) ==
  /\ pr \in InStack
  /\ \A q \in InStack \ {pr} : Len(Known(q)) < Len(Known(pr)) \/ (Len(Known(q)) = Len(Known(pr)) /\ pr < q)

\* Fault: the first entry that is published again counts as an ancestor.
AncestorsAndOneMore(prior, n) ==
  IF \E i \in DOMAIN prior : prior[i].pr \in InStack
    THEN n > 0 /\ prior[n].pr \in InStack /\ \A i \in 1..(n - 1) : prior[i].pr \notin InStack
    ELSE n = 0

\* The ancestors are the n entries before the first one that is published again.
FindNavigationAncestors(prior, n) ==
  IF \E i \in DOMAIN prior : prior[i].pr \in InStack
    THEN n < Len(prior) /\ prior[n + 1].pr \in InStack /\ \A i \in 1..n : prior[i].pr \notin InStack
    ELSE n = 0

-----------------------------------------------------------------------------
(* reconcile *)

Init ==
  /\ merged = 0 /\ top = 1
  /\ comments = [pr \in PRs |-> <<>>]
  /\ step = "idle" /\ fetched = comments /\ failed = {} /\ table = <<>> /\ todo = <<>>
  /\ written = {} /\ doubt = 0 /\ errors = FALSE /\ lossy = FALSE /\ events = 0 /\ rounds = 0

\* The user's name cannot be told: nothing is written.
Skipped ==
  /\ step = "idle" /\ rounds < MaxRounds
  /\ rounds' = rounds + 1 /\ errors' = TRUE /\ written' = {} /\ doubt' = 0
  /\ UNCHANGED <<world, step, fetched, failed, table, todo, lossy, events>>

Reconcile ==
  /\ step = "idle" /\ rounds < MaxRounds
  /\ rounds' = rounds + 1 /\ step' = "read"
  /\ todo' = Stack /\ failed' = {} /\ written' = {} /\ doubt' = 0 /\ errors' = FALSE
  /\ table' = <<>> /\ fetched' = [pr \in PRs |-> <<>>]
  /\ UNCHANGED <<world, lossy, events>>

\* The comments of one pull request, or an error.
GetPrComments ==
  /\ step = "read" /\ todo # <<>>
  /\ todo' = Tail(todo)
  /\ \/ /\ fetched' = [fetched EXCEPT ![Head(todo)] = comments[Head(todo)]]
        /\ UNCHANGED <<failed, errors, lossy>>
     \/ /\ failed' = failed \cup {Head(todo)} /\ errors' = TRUE /\ lossy' = TRUE
        /\ UNCHANGED fetched
  /\ UNCHANGED <<world, step, table, written, doubt, events, rounds>>

\* Ancestors not known to be merged are asked for; one that cannot be read is unknown.
StatusOf(e) == IF e.status = "merged" \/ e.pr <= merged THEN "merged" ELSE "open"

\* reconcileStackEntries(): n ancestors, and then the stack.
Rows(prior, n, unread) ==
  [i \in 1..(n + top - merged) |->
     IF i > n THEN Entry(merged + i - n, "open")
       ELSE Entry(prior[i].pr, IF i \in unread THEN "unknown" ELSE StatusOf(prior[i]))]

Build ==
  /\ step = "read" /\ todo = <<>>
  /\ \E pr \in PRs : HasPrior(pr) /\
       \E n \in 0..Len(Known(pr)) : FindNavigationAncestors(Known(pr), n) /\
         \E unread \in SUBSET {i \in 1..n : Known(pr)[i].status # "merged"} :
           table' = Rows(Known(pr), n, unread) /\ errors' = (errors \/ unread # {})
  /\ step' = "write" /\ todo' = Stack
  /\ UNCHANGED <<world, fetched, failed, written, doubt, lossy, events, rounds>>

\* Nothing is written where nothing could be read, or where the table is there.
Skips(pr) ==
  \/ pr \in failed
  \/ FindKstackComment(fetched[pr]) # {} /\ Table(fetched[pr]) = table

SkipComment ==
  /\ step = "write" /\ todo # <<>> /\ Skips(Head(todo))
  /\ todo' = Tail(todo)
  /\ UNCHANGED <<world, step, fetched, failed, table, written, doubt, errors, lossy, events, rounds>>

Mine(pr) == [by |-> "me", table |-> table]

\* PATCH of the comment that was read, by its id, or POST of a new one.  The comment
\* may be gone by then, and the PATCH is refused.
FirstOfMine(pr) == CHOOSE i \in FindKstackComment(comments[pr]) : TRUE

Takes(pr) ==
  IF FindKstackComment(fetched[pr]) = {}
    THEN comments' = [comments EXCEPT ![pr] = Append(@, Mine(pr))]
    ELSE /\ FindKstackComment(comments[pr]) # {}
         /\ comments' = [comments EXCEPT ![pr][FirstOfMine(pr)] = Mine(pr)]

Writing(pr) == step = "write" /\ todo # <<>> /\ pr = Head(todo) /\ ~Skips(pr)

CreateOrUpdateComment(pr) ==
  /\ Writing(pr) /\ Takes(pr)
  /\ written' = written \cup {pr} /\ todo' = Tail(todo)
  /\ UNCHANGED <<merged, top, step, fetched, failed, table, doubt, errors, lossy, events, rounds>>

\* A write that may have been taken ends the reconciliation, as does one that was refused.
WriteInDoubt(pr) ==
  /\ Writing(pr)
  /\ Takes(pr) \/ UNCHANGED comments
  /\ doubt' = pr /\ lossy' = TRUE /\ step' = "idle"
  /\ UNCHANGED <<merged, top, fetched, failed, table, todo, written, errors, events, rounds>>

WriteRefused(pr) ==
  /\ Writing(pr)
  /\ errors' = TRUE /\ lossy' = TRUE /\ step' = "idle"
  /\ UNCHANGED <<world, fetched, failed, table, todo, written, doubt, events, rounds>>

Return ==
  /\ step = "write" /\ todo = <<>>
  /\ step' = "idle"
  /\ UNCHANGED <<world, fetched, failed, table, todo, written, doubt, errors, lossy, events, rounds>>

-----------------------------------------------------------------------------
(* The repository and others *)

Event ==
  /\ events < MaxEvents /\ events' = events + 1
  /\ UNCHANGED <<step, fetched, failed, table, todo, written, doubt, errors, rounds>>

\* Between two reconciliations the bottom lands, or the stack grows.  What lands before
\* its table names what is above it leaves no trace there.
StackChanges ==
  /\ step = "idle"
  /\ \/ /\ merged + 1 < top /\ merged' = merged + 1 /\ UNCHANGED top
        /\ lossy' = (lossy \/ Len(Table(comments[merged + 1])) # top)
     \/ top < MaxPr /\ top' = top + 1 /\ UNCHANGED <<merged, lossy>>
  /\ UNCHANGED <<comments, step, fetched, failed, table, todo, written, doubt, errors, events, rounds>>

\* Another user's kstack, or a newer one of mine, comments as well.
OthersComment ==
  /\ Event /\ \E pr \in PRs, by \in {"they", "new"} :
       comments' = [comments EXCEPT ![pr] = Append(@, [by |-> by, table |-> Strangers])]
  /\ UNCHANGED <<merged, top, lossy>>

CommentDeleted ==
  /\ Event /\ \E pr \in PRs : comments[pr] # <<>> /\ comments' = [comments EXCEPT ![pr] = Tail(@)]
  /\ lossy' = TRUE
  /\ UNCHANGED <<merged, top>>

Next ==
  \/ Skipped \/ Reconcile \/ GetPrComments \/ Build \/ SkipComment \/ Return
  \/ \E pr \in PRs : CreateOrUpdateComment(pr) \/ WriteInDoubt(pr) \/ WriteRefused(pr)
  \/ StackChanges \/ OthersComment \/ CommentDeleted

NavSpec == Init /\ [][Next]_navVars

-----------------------------------------------------------------------------
TypeOK ==
  /\ merged \in 0..MaxPr /\ top \in PRs /\ step \in {"idle", "read", "write"}
  /\ failed \subseteq PRs /\ written \subseteq PRs /\ doubt \in 0..MaxPr
  /\ todo \in Seq(PRs) /\ errors \in BOOLEAN /\ lossy \in BOOLEAN
  /\ \A pr \in PRs : \A i \in DOMAIN comments[pr] : comments[pr][i].by \in {"me", "they", "new"}

\* A comment of another user's kstack is before mine.
StrangersFirst(pr) ==
  \E i \in FindKstackComment(comments[pr]) : \E j \in 1..(i - 1) : comments[pr][j].by = "they"

\* As long as nothing failed or was deleted, a table that was written names, in order, what
\* has landed below the stack as landed, and then the stack.  A landing through a pull
\* request of it finds what it is to land, and finds it too when it cannot tell whose
\* comments it reads, unless a stranger's comes first: that one's table decides then.
TablesAreTrue ==
  (step = "idle" /\ ~lossy) =>
    \A pr \in written :
      /\ Len(Table(comments[pr])) <= top
      /\ \A i \in DOMAIN Table(comments[pr]) :
           Table(comments[pr])[i].pr = i /\ (Table(comments[pr])[i].status = "merged" => i <= merged)
      /\ \A named \in BOOLEAN :
           named \/ ~StrangersFirst(pr) => Cardinality(Membership(pr, named).selected) = 1

\* What reconcile() reports as written has the table, a write that it doubts is told, and
\* there is never a second comment of mine that no doubtful write explains.
WritesAreReported ==
  /\ (step = "write" /\ ~lossy) => \A pr \in written : Table(comments[pr]) = table
  /\ ~lossy => \A pr \in PRs : Cardinality({i \in DOMAIN comments[pr] : Ours(comments[pr][i])}) <= 1
  /\ (step = "idle" /\ doubt # 0) => doubt \notin written

\* A step that is not of others leaves their comments, and those it could not read, alone.
LeavesOthersAlone ==
  \A pr \in PRs : events' = events =>
    /\ \A i \in DOMAIN comments[pr] :
         /\ i \in DOMAIN comments'[pr]
         /\ IF Ours(comments[pr][i]) THEN Ours(comments'[pr][i]) ELSE comments'[pr][i] = comments[pr][i]
    /\ \A i \in DOMAIN comments'[pr] \ DOMAIN comments[pr] : Ours(comments'[pr][i])
    /\ pr \in failed => comments'[pr] = comments[pr]

\* Comments of others and of a newer schema are never changed, moved or removed; and no
\* reconciliation adds a comment where it could not read those that are there.
OthersCommentsSurvive == [][LeavesOthersAlone]_navVars
=============================================================================
