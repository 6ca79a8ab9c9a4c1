----------------------------- MODULE PrMutation -----------------------------
(***************************************************************************)
(* How PR autopilot changes the branch of a pull request                   *)
(* (shared/vcs/mutation.ts) over its three backends (git-backend.ts,       *)
(* jj-backend.ts, graphite-backend.ts): it opens the checkout, lets a      *)
(* fixer edit it, records and publishes what the fixer left, or merges the *)
(* base.  The user works in the same checkout and others push meanwhile.   *)
(*                                                                         *)
(* A commit is the set of the works it holds.  The branch "pr" has a local *)
(* and a remote head, and `tracked`, what the last fetch or push saw of    *)
(* the remote one.  With jj, "pr" is the unbookmarked empty child of the   *)
(* PR's bookmark, "on" the bookmarked change itself.                       *)
(***************************************************************************)
EXTENDS Integers

CONSTANTS
  MaxRequests,   \* bound on the requests to one checkout
  MaxMoves       \* bound on what the user and others do

VARIABLES
  backend,
  colocated, \* the working tree holds a .jj directory
  at,        \* what is checked out
  local, other, tracked, remote,
  base,      \* the base branch has commits the pull request lacks
  child,     \* Graphite knows a branch on top of this one
  dirty,     \* the paths that differ from the checked-out commit
  request, pc,
  target,    \* headSha of the request
  seen,      \* the snapshot that openCheckout captured
  paths,     \* what changedPaths() listed
  outcome,
  effect,    \* what the request changed: nothing, the local branch, the remote one
  touched,   \* somebody else moved since the request began
  aborted, moves, requests

world == <<backend, colocated, at, local, other, tracked, remote, base, child, dirty>>
run == <<request, target, seen, paths, outcome, effect, aborted, touched>>
bounds == <<moves, requests>>
mutationVars == <<world, run, pc, bounds>>

Works == {"fix", "secret", "user", "theirs", "base", "other"}
Places == {"pr", "on", "other", "away", "gone"}
NoOutcome == [kind |-> "none", done |-> FALSE]
Kinds == {"none", "pushed", "unchanged", "cancelled", "failed", "published",
          "already-current", "precondition-failed", "needs-human", "removed"}

IsForbiddenPath(p) == p = "secret"

\* The commit a Git command calls HEAD, and jj @-: nothing tells a commit made since.
Head == IF at = "other" THEN other ELSE local

Token == <<at, Head>>

\* Where jj finds the one task bookmark: at the working copy, or at its only parent.
JjLocation ==
  IF at = "on" THEN "@" ELSE IF at = "pr" THEN "@-" ELSE "none"

\* jj's snapshot names the change and its parents.
JjToken == <<JjLocation, Head>>

\* The bookmark exists and has a single target.
BookmarkTarget == "conflict" \notin local

Init ==
  /\ backend \in {"git", "jj", "graphite"} /\ colocated = (backend = "jj")
  /\ at = "pr" /\ local = {} /\ other = {"other"} /\ tracked = {} /\ remote = {}
  /\ base \in BOOLEAN /\ child \in {FALSE, backend = "graphite"} /\ dirty = {}
  /\ request = "none" /\ pc = "idle" /\ target = {} /\ seen = <<"pr", {}>> /\ paths = {}
  /\ outcome = NoOutcome /\ effect = "none" /\ touched = FALSE /\ aborted = FALSE
  /\ moves = 0 /\ requests = 0

-----------------------------------------------------------------------------
(* Steps and ends of a request *)

Goto(next) == pc' = next /\ UNCHANGED <<run, bounds>>

End(kind, done) ==
  /\ pc' = "idle"
  /\ outcome' = [kind |-> kind, done |-> done]
  /\ UNCHANGED <<request, target, seen, paths, effect, aborted, touched, bounds>>

\* openCheckout() refused: the driver ends its fix, and a base update says so.
Refuse == End(IF request = "base" THEN "precondition-failed" ELSE "failed", FALSE)

Wrote(where) ==
  effect' = IF effect = "remote" THEN "remote" ELSE where

\* A step that changed the local or the remote branch, and where it goes on.
Changed(where, next) ==
  /\ pc' = next /\ Wrote(where)
  /\ UNCHANGED <<request, target, seen, paths, outcome, aborted, touched, bounds>>

ChangedAndFailed(where) ==
  /\ pc' = "idle" /\ Wrote(where)
  /\ outcome' = [kind |-> "failed", done |-> FALSE]
  /\ UNCHANGED <<request, target, seen, paths, aborted, touched, bounds>>

Begin(kind) ==
  /\ pc = "idle" /\ at # "gone" /\ requests < MaxRequests
  /\ requests' = requests + 1
  /\ request' = kind /\ target' = remote /\ seen' = <<"pr", {}>> /\ paths' = {}
  /\ outcome' = NoOutcome /\ effect' = "none" /\ touched' = FALSE /\ aborted' = FALSE
  /\ pc' = IF kind = "remove" THEN "inspect" ELSE "preflight"
  /\ UNCHANGED <<world, moves>>

\* A repository that jj manages is left to jj.
PreflightGit == backend = "git" /\ ~colocated
PreflightJj == backend = "jj" /\ colocated
PreflightGraphite == backend = "graphite" /\ ~colocated

\* The tools may be missing or too old.
Preflight ==
  /\ pc = "preflight" /\ UNCHANGED world
  /\ \/ (PreflightGit \/ PreflightJj \/ PreflightGraphite) /\ Goto("open")
     \/ Refuse

-----------------------------------------------------------------------------
(* openCheckout *)

NamesTarget == at = "pr" /\ local = target /\ dirty = {}

\* Git and Graphite read the branch, HEAD and the status, and then take the snapshot.
OpenCheckout ==
  /\ pc = "open" /\ ~aborted /\ backend # "jj" /\ UNCHANGED world
  /\ \/ NamesTarget /\ Goto("capture")
     \/ Refuse

CaptureWorkstream ==
  /\ pc = "capture" /\ ~aborted /\ UNCHANGED <<world, bounds>>
  /\ \/ /\ at = "pr" /\ seen' = Token /\ pc' = "fetch"
        /\ UNCHANGED <<request, target, paths, outcome, effect, aborted, touched>>
     \/ Refuse

\* jj wants an unbookmarked empty child of the bookmark, which is at the PR's head.
OpenMutationWorkstream ==
  /\ pc = "open" /\ ~aborted /\ backend = "jj" /\ UNCHANGED <<world, bounds>>
  /\ \/ /\ dirty = {} /\ JjLocation = "@-" /\ BookmarkTarget /\ local = target
        /\ seen' = JjToken /\ pc' = "fetch"
        /\ UNCHANGED <<request, target, paths, outcome, effect, aborted, touched>>
     \/ Refuse

\* `jj git fetch` moves the local bookmark with the remote one, or leaves it conflicted,
\* and the working copy's parent without a bookmark.
BookmarkFollows ==
  IF remote = tracked
    THEN UNCHANGED <<local, at>>
    ELSE /\ local' = IF local \subseteq remote THEN remote ELSE local \cup {"conflict"}
         /\ at' = IF JjLocation = "none" THEN at ELSE "away"

\* `git fetch origin ref` moves origin/ref.
Fetched ==
  /\ tracked' = remote
  /\ IF backend = "jj" THEN BookmarkFollows ELSE UNCHANGED <<local, at>>
  /\ UNCHANGED <<backend, colocated, other, remote, base, child, dirty>>

Guarded == IF backend = "graphite" THEN "scope" ELSE "opened"

FetchRemoteHead ==
  /\ pc = "fetch" /\ ~aborted
  /\ \/ Fetched /\ remote = target /\ Goto(Guarded)
     \/ Fetched /\ remote # target /\ Refuse
     \/ UNCHANGED world /\ Refuse

\* Fault: the guard does not ask Graphite for the branches on top.
OnlyCheckedOut == at = "pr"

AssertSingleRefRewrite == at = "pr" /\ ~child

OpenGuard ==
  /\ pc = "scope" /\ ~aborted /\ UNCHANGED world
  /\ \/ AssertSingleRefRewrite /\ Goto("opened")
     \/ Refuse

-----------------------------------------------------------------------------
(* publishFix *)

\* The fixer edits what it was told to, and perhaps what it was told not to.
Fixer ==
  /\ pc = "opened" /\ request = "fix" /\ ~aborted
  /\ \/ \E edits \in SUBSET {"fix", "secret"} :
          /\ dirty' = dirty \cup edits
          /\ UNCHANGED <<backend, colocated, at, local, other, tracked, remote, base, child>>
          /\ Goto("assert")
     \/ UNCHANGED world /\ End("failed", FALSE)   \* it failed, or the user does not confirm

\* assertWorkstreamUnchanged() and changedPaths() run together.
AssertUnchanged ==
  /\ pc = "assert" /\ ~aborted /\ UNCHANGED <<world, bounds>>
  /\ \/ /\ (IF backend = "jj" THEN JjToken ELSE Token) = seen /\ paths' = dirty /\ pc' = "listed"
        /\ UNCHANGED <<request, target, seen, outcome, effect, aborted, touched>>
     \/ End("failed", FALSE)

\* Fault: forbidden only if nothing else changed.
AllForbidden(ps) == ps # {} /\ \A p \in ps : IsForbiddenPath(p)

AnyForbidden(ps) == \E p \in ps : IsForbiddenPath(p)

\* What restorePaths() may leave: Git and Graphite restore path by path, jj all at once.
GitLeaves(ps) == SUBSET ps
JjLeaves(ps) == {{}, ps}
GtLeaves(ps) == SUBSET ps

Leaves(ps) ==
  CASE backend = "git" -> GitLeaves(ps)
    [] backend = "jj" -> JjLeaves(ps)
    [] backend = "graphite" -> GtLeaves(ps)

RestorePaths ==
  /\ pc = "listed" /\ AnyForbidden(paths)
  /\ LET forbidden == {p \in paths : IsForbiddenPath(p)} IN
       \E left \in Leaves(forbidden) : dirty' = (dirty \ forbidden) \cup left
  /\ UNCHANGED <<backend, colocated, at, local, other, tracked, remote, base, child>>
  /\ End("failed", FALSE)

Unchanged ==
  /\ pc = "listed" /\ paths = {} /\ UNCHANGED world /\ End("unchanged", FALSE)

RecordGuard ==
  /\ pc = "listed" /\ paths # {} /\ ~AnyForbidden(paths) /\ UNCHANGED world
  /\ \/ (backend = "graphite" => AssertSingleRefRewrite) /\ Goto("record")
     \/ backend = "graphite" /\ End("failed", FALSE)

\* What is recorded goes onto what is checked out by then.
Commit(works) ==
  /\ IF at = "other"
       THEN other' = other \cup works /\ UNCHANGED local
       ELSE local' = local \cup works /\ UNCHANGED other
  /\ dirty' = dirty \ works
  /\ UNCHANGED <<backend, colocated, at, tracked, remote, base, child>>

\* git add, git commit; jj squash into the parent; gt add, gt modify --commit, which
\* must have moved the head.
GitRecords == backend = "git" /\ Commit(paths)
JjSquashes == backend = "jj" /\ Commit(paths)
GtModifies == backend = "graphite" /\ ~(paths \subseteq Head) /\ Commit(paths)

RecordPaths ==
  /\ pc = "record" /\ ~aborted
  /\ \/ /\ GitRecords \/ JjSquashes \/ GtModifies
        /\ \/ Changed("local", "push")
           \/ ChangedAndFailed("local")        \* it was killed after it took effect
     \/ UNCHANGED world /\ End("failed", FALSE)

-----------------------------------------------------------------------------
(* publishRecordedChanges *)

\* Git and GitHub take a fast-forward only, jj and Graphite replace what they tracked.
Takes(commit) ==
  IF backend = "git" THEN remote \subseteq commit ELSE tracked = remote

RemoteTakes(commit) ==
  /\ Takes(commit) /\ remote' = commit /\ tracked' = commit
  /\ UNCHANGED <<backend, colocated, at, local, other, base, child, dirty>>

\* Git pushes HEAD, whatever is checked out, to the ref; jj the bookmark, wherever it is.
GitPush == backend = "git" /\ RemoteTakes(Head)
JjPush == backend = "jj" /\ BookmarkTarget /\ RemoteTakes(local)

PublishedKind == IF request = "base" THEN "published" ELSE "pushed"

Push ==
  /\ pc = "push" /\ ~aborted
  /\ GitPush \/ JjPush
  /\ pc' = "idle" /\ Wrote("remote")
  /\ \E kind \in {PublishedKind, "failed"} :          \* its answer may be lost
       outcome' = [kind |-> kind, done |-> FALSE]
  /\ UNCHANGED <<request, target, seen, paths, aborted, touched, bounds>>

PushFails ==
  /\ pc \in {"push", "submit"} /\ ~aborted /\ UNCHANGED world /\ End("failed", FALSE)

\* Graphite: under the publication lock, with the branch checked out and a dry run
\* that names no other.
DryRun ==
  /\ pc = "push" /\ ~aborted /\ backend = "graphite" /\ at = "pr"
  /\ seen' = Token /\ pc' = "submit"
  /\ UNCHANGED <<world, request, target, paths, outcome, effect, aborted, touched, bounds>>

\* gt submits what is checked out; its exit code counts for nothing.
Submit ==
  /\ pc = "submit"
  /\ \/ at = "pr" /\ RemoteTakes(local) /\ Changed("remote", "verify")
     \/ UNCHANGED world /\ Goto("verify")

VerifySubmit ==
  /\ pc = "verify"
  /\ \/ Fetched /\ End(IF remote = seen[2] THEN PublishedKind ELSE "failed", FALSE)
     \/ UNCHANGED world /\ End("failed", FALSE)

-----------------------------------------------------------------------------
(* updateBase *)

BaseIsIn == ~base \/ "base" \in Head

UpdateFails ==
  /\ pc = "opened" /\ request = "base" /\ ~aborted
  /\ UNCHANGED world /\ End("failed", FALSE)

\* git merge: of a conflict only the listed files are told; `merge --abort` may fail.
GitMerge ==
  /\ pc = "opened" /\ request = "base" /\ ~aborted /\ backend = "git"
  /\ \/ BaseIsIn /\ UNCHANGED world /\ End("already-current", FALSE)
     \/ base /\ dirty = {} /\ Commit({"base"}) /\ Changed("local", "merged")
     \/ /\ base /\ dirty' \in {dirty, dirty \cup {"conflict"}}
        /\ UNCHANGED <<backend, colocated, at, local, other, tracked, remote, base, child>>
        /\ \E kind \in {"needs-human", "failed"} : End(kind, FALSE)

\* jj fetches every branch, and then must find the bookmark where it was.
JjFetchBase ==
  /\ pc = "opened" /\ request = "base" /\ ~aborted /\ backend = "jj"
  /\ Fetched /\ Goto("merge")

\* `jj new @- base@origin` and the bookmark set to it; a bookmark that cannot be set
\* leaves the working copy on the merge.
JjMerges ==
  /\ base /\ JjLocation # "none"
  /\ \/ at' = "on" /\ local' = local \cup {"base"} /\ Changed("local", "merged")
     \/ at' = "away" /\ UNCHANGED local /\ End("failed", FALSE)
  /\ UNCHANGED <<backend, colocated, other, tracked, remote, base, child, dirty>>

\* A conflicted merge is taken back with `jj edit` and `jj abandon`, or not.
JjConflicts ==
  /\ base /\ JjLocation # "none"
  /\ at' \in {at, "away"}
  /\ UNCHANGED <<backend, colocated, local, other, tracked, remote, base, child, dirty>>
  /\ \E kind \in {"needs-human", "failed"} : End(kind, FALSE)

JjMerge ==
  /\ pc = "merge"
  /\ \/ BaseIsIn /\ UNCHANGED world /\ End("already-current", FALSE)
     \/ JjMerges
     \/ JjConflicts
     \/ UNCHANGED world /\ End("failed", FALSE)

\* gt get, then gt restack: a restack that fails is left in the middle of its rebase.
GtRestack ==
  /\ pc = "opened" /\ request = "base" /\ ~aborted /\ backend = "graphite"
  /\ \/ BaseIsIn /\ UNCHANGED world /\ End("already-current", FALSE)
     \/ base /\ dirty = {} /\ Commit({"base"}) /\ Changed("local", "merged")
     \/ /\ base /\ at' = "away" /\ dirty' = dirty \cup {"conflict"}
        /\ UNCHANGED <<backend, colocated, local, other, tracked, remote, base, child>>
        /\ End("failed", FALSE)

MergedGuard ==
  /\ pc = "merged" /\ ~aborted /\ UNCHANGED world
  /\ \/ (backend = "graphite" => AssertSingleRefRewrite) /\ Goto("push")
     \/ backend = "graphite" /\ End("failed", FALSE)

-----------------------------------------------------------------------------
(* Cancellation: checked before each of these steps *)

CompletedActions == pc \in {"push", "merged"}

Cancelled ==
  /\ aborted /\ pc \in {"open", "capture", "fetch", "scope", "opened", "assert",
                       "record", "push", "merged"}
  /\ UNCHANGED world
  /\ End("cancelled", CompletedActions)

-----------------------------------------------------------------------------
(* removeManagedGitWorktree *)

\* Git lists it with this branch, unlocked, and it is clean.
InspectWorktree ==
  /\ pc = "inspect" /\ UNCHANGED world
  /\ \/ backend # "jj" /\ at = "pr" /\ dirty = {} /\ Goto("remove")
     \/ End("failed", FALSE)

\* `git worktree remove` refuses a worktree with changes by itself.
RemoveWorktree ==
  /\ pc = "remove"
  /\ \/ /\ dirty = {} /\ at' = "gone"
        /\ UNCHANGED <<backend, colocated, local, other, tracked, remote, base, child, dirty>>
        /\ Changed("local", "delete")
     \/ UNCHANGED world /\ End("failed", FALSE)

BranchIsMerged == local \subseteq tracked

\* `git branch -d`, `gt delete`: a branch that is not merged stays, with a warning.
DeleteBranch ==
  /\ pc = "delete"
  /\ \/ /\ BranchIsMerged /\ local' = {}
        /\ UNCHANGED <<backend, colocated, at, other, tracked, remote, base, child, dirty>>
     \/ UNCHANGED world
  /\ End("removed", FALSE)

-----------------------------------------------------------------------------
(* The user and others *)

Abort ==
  /\ pc # "idle" /\ ~aborted /\ aborted' = TRUE
  /\ UNCHANGED <<world, request, target, seen, paths, outcome, effect, touched, pc, bounds>>

Moved ==
  /\ moves < MaxMoves /\ moves' = moves + 1
  /\ touched' = TRUE
  /\ UNCHANGED <<request, target, seen, paths, outcome, effect, aborted, pc, requests>>

UserSwitches ==
  /\ Moved /\ at # "gone" /\ at' \in {"pr", "other"} \ {at}
  /\ UNCHANGED <<backend, colocated, local, other, tracked, remote, base, child, dirty>>

UserCommits ==
  /\ Moved /\ at \in {"pr", "other"} /\ dirty = {} /\ Commit({"user"})

UserEdits ==
  /\ Moved /\ at \in {"pr", "other"} /\ dirty' = dirty \cup {"user"}
  /\ UNCHANGED <<backend, colocated, at, local, other, tracked, remote, base, child>>

OthersPush ==
  /\ Moved
  /\ \/ remote' = remote \cup {"theirs"} /\ UNCHANGED <<base, child>>
     \/ base' = TRUE /\ UNCHANGED <<remote, child>>
     \/ backend = "graphite" /\ child' = TRUE /\ UNCHANGED <<remote, base>>
  /\ UNCHANGED <<backend, colocated, at, local, other, tracked, dirty>>

Move == UserSwitches \/ UserCommits \/ UserEdits \/ OthersPush

Next ==
  \/ \E kind \in {"fix", "base", "remove"} : Begin(kind)
  \/ Preflight \/ OpenCheckout \/ CaptureWorkstream \/ OpenMutationWorkstream
  \/ FetchRemoteHead \/ OpenGuard
  \/ Fixer \/ AssertUnchanged \/ RestorePaths \/ Unchanged \/ RecordGuard \/ RecordPaths
  \/ Push \/ PushFails \/ DryRun \/ Submit \/ VerifySubmit
  \/ UpdateFails \/ GitMerge \/ JjFetchBase \/ JjMerge \/ GtRestack \/ MergedGuard
  \/ Cancelled \/ InspectWorktree \/ RemoveWorktree \/ DeleteBranch
  \/ Abort \/ Move

MutationSpec == Init /\ [][Next]_mutationVars

-----------------------------------------------------------------------------
TypeOK ==
  /\ at \in Places /\ {local, other, tracked, remote} \subseteq SUBSET (Works \cup {"conflict"})
  /\ dirty \subseteq Works \cup {"conflict"} /\ paths \subseteq Works
  /\ outcome.kind \in Kinds /\ effect \in {"none", "local", "remote"}
  /\ request \in {"none", "fix", "base", "remove"}
  /\ pc \in {"idle", "preflight", "open", "capture", "fetch", "scope", "opened", "assert", "listed",
             "record", "push", "submit", "verify", "merge", "merged", "inspect", "remove", "delete"}

\* A result that promises that nothing was changed is right whatever the user and others
\* did; one that promises that something was published is right if they left the checkout
\* and the branch alone, and then nothing but the fix, or the base, was published.
MutationIsHonest ==
  LET k == outcome.kind IN
  /\ (k \in {"unchanged", "already-current", "precondition-failed", "needs-human"}) =>
       effect = "none"
  /\ k = "cancelled" => effect = (IF outcome.done THEN "local" ELSE "none")
  /\ (k = "pushed" /\ ~touched) => (paths # {} /\ remote = target \cup paths)
  /\ (k = "published" /\ ~touched) => remote = target \cup {"base"}

\* A forbidden path that the fixer touched never reaches a commit.
ForbiddenStaysOut == "secret" \notin local \cup other \cup remote

\* No request takes a commit from the remote branch, drops uncommitted work with the
\* worktree, or the last copy of a commit with the branch.
WorkSurvives ==
  [][ /\ remote \subseteq remote'
      /\ (at' = "gone" /\ at # "gone") => dirty = {}
      /\ (local \ local') \subseteq remote' ]_mutationVars

\* Graphite rewrites the branch only while it knows none on top of it, unless one was
\* made since it was asked.
NoChildIsStranded ==
  [][ (backend = "graphite" /\ local' # local /\ effect' = "local" /\ ~touched /\ at' # "gone") => ~child ]_mutationVars
=============================================================================
