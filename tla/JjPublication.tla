--------------------------- MODULE JjPublication ---------------------------
(***************************************************************************)
(* Publishing a stack of jj bookmarks: planStack and applyPublication of    *)
(* extensions/jj-stacked-prs/orchestrator.ts with publication.ts, and       *)
(* syncStack, which fetches and rebases without the publication lock.       *)
(*                                                                         *)
(* Unlike GitHubPublication's, the plan compares the bookmarks with jj's     *)
(* own view of the remote; slices are done one by one, bottom first; the     *)
(* metadata of new PRs is written first and the plan made again; then the    *)
(* PRs are linked as a GitHub-native stack and marked ready.                *)
(***************************************************************************)
EXTENDS Naturals

CONSTANTS
  N,         \* the number of slices, bottom first
  Ready,     \* the user asked for PRs that are ready for review
  MaxEvents  \* bound: changes by others and the user, runs aborted, runs of sync

VARIABLES
  local,     \* the commit of each bookmark
  head,      \* the remote's commit of each bookmark
  tracked,   \* jj's view of the remote's
  clash,     \* bookmarks a fetch left with two targets
  broken,    \* the stack has a conflict
  pr,        \* the open PR of each bookmark
  native,    \* the slices in GitHub's stack of these PRs, Foreign when it has others
  pc, snap, plan,
  queue,     \* what is still to be done
  completed, \* progress.completedActions()
  accepted,  \* the actions of this run that took effect
  inFlight, status, aborted,
  moved,     \* something changed since the plan, or jj's view was behind
  unread,    \* the link was sent and could not be read back
  events,
  unseen,    \* the remote commit is one that nobody here has seen
  sync       \* the run of sync: its step, result, whether it changed something

remoteVars == <<head, pr, native>>
localVars == <<local, tracked, clash, broken>>
runVars == <<pc, snap, plan, queue, completed, accepted, inFlight, status, aborted, unread>>
envVars == <<events, unseen>>
vars == <<localVars, remoteVars, runVars, moved, envVars, sync>>

Slices == 1..N
Absent == 0
Older == 1     \* what the remote has of an earlier publication
Current == 2
Rewritten == 3
Theirs == 4    \* what others pushed before; each later push of theirs is a commit of its own
Contents == Absent..(Theirs + MaxEvents)
Foreign == N + 1
Prs == [base : {"right", "wrong"}, draft : BOOLEAN]
NoPr == [base |-> "none", draft |-> FALSE]
NoSnap == [of |-> "nothing"]
Action(kind, slice) == [kind |-> kind, slice |-> slice]
NoAction == Action("none", 0)
Link == Action("link", 0)

Init ==
  /\ local = [s \in Slices |-> Current]
  /\ tracked \in [Slices -> {Absent, Older, Current}]
  /\ unseen \in {{}, {1}}
  /\ head = [s \in Slices |-> IF s \in unseen THEN Theirs ELSE tracked[s]]
  /\ clash = {} /\ broken = FALSE
  /\ pr \in {f \in [Slices -> {NoPr, [base |-> "right", draft |-> TRUE], [base |-> "wrong", draft |-> FALSE]}] :
               \A s \in Slices : head[s] = Absent => f[s] = NoPr}
  /\ native \in {0, N}
  /\ native = N => \A s \in Slices : pr[s] # NoPr
  /\ pc = "reading" /\ snap = NoSnap /\ plan = NoSnap /\ queue = {} /\ completed = {} /\ accepted = {}
  /\ inFlight = NoAction /\ status = "none" /\ aborted = FALSE /\ moved = FALSE /\ unread = FALSE
  /\ events = 0
  /\ sync = [at |-> "idle", result |-> "none", changed |-> FALSE]
----------------------------------------------------------------------------
(* planStack: inspection and snapshot, then the native stack of the PRs    *)
(* found; a conflict or a bookmark with two targets blocks.                *)

Settle(s) == pc' = "done" /\ status' = s

Event == events < MaxEvents /\ events' = events + 1

ReadSnapshot ==
  /\ pc = "reading"
  /\ \/ /\ ~broken /\ clash = {}
        /\ snap' = [of |-> "stack", local |-> local, tracked |-> tracked, pr |-> pr,
                    prHead |-> [s \in Slices |-> IF pr[s] = NoPr THEN Absent ELSE head[s]]]
        /\ moved' = (tracked # head)
        /\ pc' = "native" /\ UNCHANGED status
     \/ Settle("blocked") /\ UNCHANGED <<snap, moved>>
  /\ UNCHANGED <<localVars, remoteVars, plan, queue, completed, accepted, inFlight, aborted, unread, envVars, sync>>

\* inspectNativeMembership: GitHub's stack has to start with the planned PRs.
Membership ==
  LET planned == {s \in Slices : snap.pr[s] # NoPr}
  IN CASE native = 0 \/ planned = {} -> "none"
       [] native = Foreign \/ (native > 0 /\ ~(1..native \subseteq planned)) -> "diverged"
       [] native = N -> "exact"
       [] OTHER -> "remote-prefix"

Pushes(read) == {Action("push", s) : s \in {t \in Slices : read.local[t] # read.tracked[t]}}

PrActions(read) ==
  {Action("create", s) : s \in {t \in Slices : read.pr[t] = NoPr}}
    \cup {Action("repair", s) : s \in {t \in Slices : read.pr[t].base = "wrong"}}

PlannedActions(read) == Pushes(read) \cup PrActions(read)
Has(actions, kind) == \E a \in actions : a.kind = kind

\* Slice by slice, bottom first, and the branch before its PR; the link before all drafts.
Before(a, b) == a.slice < b.slice \/ (a.slice = b.slice /\ a.kind = "push")
First(a) == a \in queue /\ \A b \in queue \ {a} : Before(a, b)

Blocked ==
  \/ Membership = "diverged"
  \/ Membership # "none" /\ Has(PlannedActions(snap), "repair") /\ Has(PlannedActions(snap), "push")

\* planId covers everything that was read.
SamePlan(made) == made = plan

\* The second plan is made after the metadata of new PRs was written.
InspectNative ==
  /\ pc = "native"
  /\ LET made == [of |-> "plan", read |-> snap, membership |-> Membership] IN
     \/ /\ ~Blocked /\ plan = NoSnap /\ plan' = made
        /\ queue' = PlannedActions(snap)
        /\ pc' = (IF Has(PlannedActions(snap), "create") THEN "writing" ELSE "acting") /\ UNCHANGED status
     \/ /\ ~Blocked /\ plan # NoSnap /\ SamePlan(made)
        /\ pc' = "acting" /\ UNCHANGED <<plan, queue, status>>
     \/ /\ ~Blocked /\ plan # NoSnap /\ ~SamePlan(made) /\ Settle("stale") /\ UNCHANGED <<plan, queue>>
     \/ Settle("blocked") /\ UNCHANGED <<plan, queue>>
  /\ UNCHANGED <<localVars, remoteVars, snap, completed, accepted, inFlight, aborted, moved, unread, envVars, sync>>

WriteMetadata ==
  /\ pc = "writing"
  /\ \/ ~aborted /\ pc' = "reading" /\ UNCHANGED status
     \/ Settle(IF aborted THEN "cancelled" ELSE "failed")
  /\ UNCHANGED <<localVars, remoteVars, snap, plan, queue, completed, accepted, inFlight, aborted, moved, unread, envVars, sync>>
----------------------------------------------------------------------------
(* applyPublication: the loops over slices, the link, the loop over drafts. *)

\* The push names the bookmark: jj sends the commit it has by now, if the remote
\* is where jj last saw it.
Acceptable(a) ==
  \/ a.kind = "push" /\ a.slice \notin clash /\ head[a.slice] \in {tracked[a.slice], local[a.slice]}
  \/ a.kind = "create" /\ head[a.slice] # Absent /\ pr[a.slice] = NoPr
  \/ a.kind \in {"repair", "ready"} /\ pr[a.slice] # NoPr

\* What the remote does when it accepts a.
Accept(a) ==
  /\ Acceptable(a)
  /\ accepted' = accepted \cup {a}
  /\ head' = IF a.kind = "push" THEN [head EXCEPT ![a.slice] = local[a.slice]] ELSE head
  /\ pr' = CASE a.kind = "push" -> pr
             [] a.kind = "create" -> [pr EXCEPT ![a.slice] = [base |-> "right", draft |-> TRUE]]
             [] a.kind = "repair" -> [pr EXCEPT ![a.slice].base = "right"]
             [] a.kind = "ready" -> [pr EXCEPT ![a.slice].draft = FALSE]
  /\ UNCHANGED native

Ignore == UNCHANGED <<head, pr, native, accepted>>

\* progress.completed; after the last planned action the link, for a stack of
\* two, and then the drafts that were read or created.
Drafts == {s \in Slices : snap.pr[s] = NoPr \/ snap.pr[s].draft}

ReadyAll(of) == {Action("ready", s) : s \in of}

Progress(a) == completed' = completed \cup {a} /\ queue' = queue \ {a}

PlannedAreDone ==
  /\ pc = "acting" /\ queue = {} /\ Link \notin completed
  /\ ~\E a \in completed : a.kind = "ready"
  /\ pc' = "linking"
  /\ queue' = (IF N >= 2 THEN {Link} ELSE {}) \cup (IF Ready THEN ReadyAll(Drafts) ELSE {})
  /\ UNCHANGED <<localVars, remoteVars, snap, plan, completed, accepted, inFlight, status, aborted, moved, unread, envVars, sync>>

Doing(a) == pc \in {"acting", "linking"} /\ First(a) /\ a # Link

CheckAbort(a) ==
  /\ Doing(a) /\ aborted
  /\ Settle(IF completed = {} THEN "cancelled" ELSE "partial")
  /\ UNCHANGED <<localVars, remoteVars, snap, plan, queue, completed, accepted, inFlight, aborted, moved, unread, envVars, sync>>

\* jj records what it pushed.
Record(a) == tracked' = IF a.kind = "push" THEN [tracked EXCEPT ![a.slice] = local[a.slice]] ELSE tracked

Succeed(a) ==
  /\ Doing(a) /\ ~aborted
  /\ Accept(a) /\ Record(a) /\ Progress(a)
  /\ unseen' = unseen \ (IF a.kind = "push" THEN {a.slice} ELSE {})
  /\ UNCHANGED <<local, clash, broken, pc, snap, plan, inFlight, status, aborted, moved, unread, events, sync>>

Fail == Settle(IF completed = {} THEN "failed" ELSE "partial")

Reject(a) ==
  /\ Doing(a) /\ ~aborted
  /\ Fail
  /\ UNCHANGED <<localVars, remoteVars, snap, plan, queue, completed, accepted, inFlight, aborted, moved, unread, envVars, sync>>

Uncertain(a) == Settle("indeterminate") /\ inFlight' = a

\* The command timed out, was killed, or a created PR could not be read.
EndUncertain(a) ==
  /\ Doing(a) /\ ~aborted
  /\ \/ Accept(a) /\ (Record(a) \/ UNCHANGED tracked)
     \/ Ignore /\ UNCHANGED tracked
  /\ Uncertain(a)
  /\ UNCHANGED <<local, clash, broken, snap, plan, queue, completed, aborted, moved, unread, envVars, sync>>

\* gh stack link; GitHub takes it while all PRs are open and in no other stack.
Linkable == native # Foreign /\ \A s \in Slices : pr[s] # NoPr
LinkTakes == native' = N /\ accepted' = accepted \cup {Link} /\ UNCHANGED <<head, pr>>

\* It is read back, also after a command that ended uncertainly: what is there
\* then counts.
LinkStack ==
  /\ pc = "linking" /\ First(Link)
  /\ \/ /\ ~aborted /\ Linkable /\ LinkTakes /\ Progress(Link)    \* read back as planned
        /\ UNCHANGED <<pc, status, inFlight, unread>>
     \/ /\ ~aborted /\ Ignore /\ Settle("partial")            \* refused
        /\ UNCHANGED <<queue, completed, inFlight, unread>>
     \/ /\ ~aborted /\ Linkable /\ LinkTakes /\ Settle("partial") /\ unread' = TRUE
        /\ UNCHANGED <<queue, completed, inFlight>>           \* reading it back fails
     \/ /\ (Linkable /\ LinkTakes) \/ Ignore                  \* nobody knows
        /\ Uncertain(Link) /\ UNCHANGED <<queue, completed, unread>>
  /\ UNCHANGED <<localVars, snap, plan, aborted, moved, envVars, sync>>

\* The navigation comments (StackNavigation) only add commentErrors.
Finish ==
  /\ pc = "linking" /\ queue = {}
  /\ Settle("completed")
  /\ UNCHANGED <<localVars, remoteVars, snap, plan, queue, completed, accepted, inFlight, aborted, moved, unread, envVars, sync>>

PublishAgain ==
  /\ pc = "done"
  /\ pc' = "reading" /\ status' = "none" /\ snap' = NoSnap /\ plan' = NoSnap
  /\ queue' = {} /\ completed' = {} /\ accepted' = {} /\ inFlight' = NoAction
  /\ aborted' = FALSE /\ unread' = FALSE /\ moved' = FALSE
  /\ UNCHANGED <<localVars, remoteVars, envVars, sync>>

Act == \E s \in Slices, k \in {"push", "create", "repair", "ready"} :
         LET a == Action(k, s) IN CheckAbort(a) \/ Succeed(a) \/ Reject(a) \/ EndUncertain(a)

Publish ==
  ReadSnapshot \/ InspectNative \/ WriteMetadata \/ PlannedAreDone \/ Act \/ LinkStack \/ Finish \/ PublishAgain
----------------------------------------------------------------------------
(* syncStack, of another session: it takes no lock.                        *)

SyncGoes(at) == sync' = [sync EXCEPT !.at = at]
SyncEnds(result, changed) == sync' = [sync EXCEPT !.at = "done", !.result = result, !.changed = changed]

SyncBegins ==
  /\ sync.at \in {"idle", "done"} /\ Event
  /\ sync' = [at |-> IF broken THEN "done" ELSE "fetch", result |-> IF broken THEN "blocked" ELSE "none",
              changed |-> FALSE]
  /\ UNCHANGED <<localVars, remoteVars, runVars, moved, unseen>>

\* A bookmark that only the remote moved follows it; one that both moved has two
\* targets.
Fetched ==
  /\ tracked' = head
  /\ local' = [s \in Slices |-> IF head[s] # tracked[s] /\ head[s] # Absent /\ local[s] = tracked[s] THEN head[s] ELSE local[s]]
  /\ clash' = clash \cup {s \in Slices : head[s] \notin {tracked[s], local[s], Absent} /\ local[s] # tracked[s]}
  /\ unseen' = {s \in unseen : s \in clash'}
  /\ moved' = TRUE
  /\ UNCHANGED broken

Rebased ==
  /\ local' = [s \in Slices |-> Rewritten]
  /\ broken' \in BOOLEAN
  /\ moved' = TRUE
  /\ UNCHANGED <<tracked, clash, unseen>>

\* mutationFailure
MutationFailure(changed) == IF changed THEN "partial" ELSE "failed"

NothingMoves == UNCHANGED <<localVars, unseen, moved>>

FetchRemote ==
  /\ sync.at = "fetch"
  /\ \/ Fetched /\ sync' = [sync EXCEPT !.at = "rebase", !.changed = TRUE]
     \/ NothingMoves /\ \E result \in {"declined", "cancelled", MutationFailure(FALSE)} : SyncEnds(result, FALSE)
     \/ Fetched /\ SyncEnds("indeterminate", TRUE)
     \/ NothingMoves /\ SyncEnds("indeterminate", FALSE)
  /\ UNCHANGED <<remoteVars, runVars, events>>

\* A bookmark with two targets is no revision to rebase; a stack on the trunk
\* stays.
RebaseStack ==
  /\ sync.at = "rebase"
  /\ \/ clash = {} /\ (Rebased \/ NothingMoves) /\ SyncGoes("inspect")
     \/ NothingMoves /\ SyncEnds(MutationFailure(TRUE), TRUE)
     \/ clash = {} /\ (Rebased \/ NothingMoves) /\ SyncEnds("indeterminate", TRUE)
  /\ UNCHANGED <<remoteVars, runVars, events>>

InspectAfter ==
  /\ sync.at = "inspect"
  /\ \E result \in {IF broken THEN "partial" ELSE "completed", MutationFailure(TRUE), "indeterminate"} :
       SyncEnds(result, TRUE)
  /\ UNCHANGED <<localVars, remoteVars, runVars, moved, envVars>>

Sync == SyncBegins \/ FetchRemote \/ RebaseStack \/ InspectAfter
----------------------------------------------------------------------------
(* The user, others on GitHub.                                             *)

Abort ==
  /\ pc # "done" /\ ~aborted /\ Event
  /\ aborted' = TRUE
  /\ UNCHANGED <<localVars, remoteVars, pc, snap, plan, queue, completed, accepted, inFlight, status, unread, moved,
                 unseen, sync>>

Drift == Event /\ moved' = TRUE

\* An amended change takes those above it along.
UserAmends(s) ==
  /\ Drift /\ clash = {}
  /\ local' = [t \in Slices |-> IF t >= s THEN Rewritten ELSE local[t]]
  /\ UNCHANGED <<tracked, clash, broken, remoteVars, runVars, unseen, sync>>

\* The user resolves what a fetch or a rebase left, keeping both sides.
UserResolves ==
  /\ clash # {} \/ broken
  /\ local' = [s \in Slices |-> Rewritten] /\ clash' = {} /\ broken' = FALSE
  /\ unseen' = unseen \ clash /\ moved' = TRUE
  /\ UNCHANGED <<tracked, remoteVars, runVars, events, sync>>

OutsiderPushes(s) ==
  /\ Drift
  /\ head' = [head EXCEPT ![s] = Theirs + events'] /\ unseen' = unseen \cup {s}
  /\ UNCHANGED <<localVars, pr, native, runVars, sync>>

OutsiderEditsPr(s) ==
  /\ Drift /\ head[s] # Absent
  /\ \E p \in (Prs \cup {NoPr}) \ {pr[s]} :
       /\ pr' = [pr EXCEPT ![s] = p]
       /\ native' = IF p = NoPr /\ native # 0 THEN Foreign ELSE native
  /\ UNCHANGED <<localVars, head, runVars, unseen, sync>>

OutsiderUnstacks ==
  /\ Drift /\ native # 0
  /\ native' \in {0, Foreign} \ {native}
  /\ UNCHANGED <<localVars, head, pr, runVars, unseen, sync>>

Others == (\E s \in Slices : UserAmends(s) \/ OutsiderPushes(s) \/ OutsiderEditsPr(s)) \/ UserResolves \/ OutsiderUnstacks

Next == Publish \/ Sync \/ Abort \/ Others
----------------------------------------------------------------------------
TypeOK ==
  /\ local \in [Slices -> Contents] /\ head \in [Slices -> Contents] /\ tracked \in [Slices -> Contents]
  /\ clash \subseteq Slices /\ unseen \subseteq Slices /\ broken \in BOOLEAN
  /\ pr \in [Slices -> Prs \cup {NoPr}] /\ native \in 0..Foreign
  /\ pc \in {"reading", "native", "writing", "acting", "linking", "done"}
  /\ queue \subseteq [kind : {"push", "create", "repair", "ready", "link"}, slice : 0..N]
  /\ status \in {"none", "blocked", "stale", "cancelled", "failed", "partial", "indeterminate", "completed"}
  /\ events \in 0..MaxEvents
  /\ sync.at \in {"idle", "fetch", "rebase", "inspect", "done"}

\* The settlement rules of shared/stack/README.md, for a publication and for a
\* sync.  A refused link is reported as partial also when nothing was done
\* before it, and a link that could not be read back as one that failed.
OutcomeIsHonest ==
  /\ completed \subseteq accepted
  /\ (pc = "done" /\ ~unread) => accepted \subseteq completed \cup {inFlight}
  /\ status \in {"failed", "cancelled", "blocked", "stale"} => accepted = {}
  /\ status = "partial" => (completed # {} \/ Link \in queue)
  /\ sync.result \in {"declined", "cancelled", "blocked", "failed"} => ~sync.changed

\* A publication that completed published the stack as it is, all of it, if
\* nothing changed after the plan was made and jj's view was the remote's.
CompletedIsPublished ==
  (status = "completed" /\ ~moved) =>
    /\ \A s \in Slices : head[s] = local[s] /\ pr[s].base = "right" /\ (Ready => ~pr[s].draft)
    /\ N >= 2 => native = N

\* A push replaces no commit of others that was not fetched and resolved here.
NoUnseenWorkIsReplaced ==
  [][ \A s \in Slices : head'[s] # head[s] /\ events' = events => s \notin unseen ]_vars
=============================================================================
