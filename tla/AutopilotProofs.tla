--------------------------- MODULE AutopilotProofs ---------------------------
(***************************************************************************)
(* Proofs about PR autopilot on one pull request, for any number of        *)
(* requests, heads, cycles, polls and moves by others: how a fix or the    *)
(* base gets onto the branch (PrMutation), and when the pull request is    *)
(* reported ready (PrReadiness), as parts of Autopilot.                    *)
(***************************************************************************)
EXTENDS Autopilot, TLAPS

(* The branch.                                                             *)

\* The checkout is open, and nothing is recorded yet.
Opened == {"capture", "fetch", "scope", "opened", "assert"}

Unwritten == {"preflight", "open", "listed", "record", "merge", "inspect", "remove"} \cup Opened

Pcs == Unwritten \cup {"idle", "push", "submit", "verify", "merged", "delete"}

\* What the request is to publish.
Wanted == IF request = "base" THEN {"base"} ELSE paths

\* What holds of the run where the request is.  Each request has its places; a worktree
\* goes last, and a result ends a request.
PlaceOfRequest(p) ==
  /\ p \in {"preflight", "open", "push", "submit", "verify"} \cup Opened => request \in {"fix", "base"}
  /\ p \in {"assert", "listed", "record"} => request = "fix"
  /\ p \in {"merge", "merged"} => request = "base"
  /\ p \in {"inspect", "remove", "delete"} => request = "remove"
  /\ p \in {"remove", "delete"} => backend # "jj"
  /\ p = "merge" => backend = "jj"
  /\ at = "gone" => p \in {"idle", "delete"}
  /\ p # "idle" => outcome = Mutation!NoOutcome

EffectSoFar(p) ==
  /\ p \in Unwritten => effect = "none"
  /\ p \in {"push", "submit", "merged", "delete"} => effect = "local"

\* What is about to be recorded holds nothing forbidden and nothing of a conflict.
RecordsWhatItMay(p) ==
  /\ p \in Opened => dirty \subseteq Mutation!Works
  /\ p = "record" => "secret" \notin paths
  /\ p \in {"record", "push", "submit", "verify"} /\ request = "fix" => paths # {}

\* As long as nobody else moved, the branch is the one that was asked for, and then holds
\* what was recorded on top.
BranchIsKnown(p) ==
  ~touched =>
    /\ p \in Unwritten \cup {"merged", "push", "submit"} => remote = target
    /\ p \in Opened \cup {"listed", "record", "merge"} => local = target /\ at # "other"
    /\ p \in {"merged", "push"} => local = target \cup Wanted /\ at # "other"
    /\ p \in {"submit", "verify"} => seen[2] = target \cup Wanted

\* The branch that replaces the remote one holds what was fetched of that.
ReplacesWhatItHolds(p) ==
  /\ p \in {"submit", "verify"} => backend = "graphite"
  /\ backend = "graphite" =>
       /\ p \in {"capture", "fetch"} => target \subseteq local
       /\ p \in {"scope", "opened", "assert", "listed", "record", "merged", "push", "submit"} => tracked \subseteq local

\* No branch was on top when Graphite was asked.
TopOfStack(p) ==
  backend = "graphite" /\ ~touched
    /\ (effect = "local"
        \/ p \in {"opened", "assert", "listed", "record", "merged", "push", "submit", "verify"})
    => ~child \/ at = "gone"

Here(p) ==
  /\ PlaceOfRequest(p) /\ EffectSoFar(p) /\ RecordsWhatItMay(p)
  /\ BranchIsKnown(p) /\ ReplacesWhatItHolds(p) /\ TopOfStack(p)

Commits == SUBSET (Mutation!Works \cup {"conflict"})

\* The branches and the checkout, whatever goes on.
WorldFits ==
  /\ at \in Mutation!Places /\ local \in Commits /\ other \in Commits /\ tracked \in Commits /\ remote \in Commits
  /\ dirty \in Commits
  /\ Mutation!ForbiddenStaysOut
  /\ tracked \subseteq remote
  /\ backend = "jj" => tracked \subseteq local \/ "conflict" \in local

RunFits ==
  /\ paths \subseteq Mutation!Works /\ outcome.kind \in Mutation!Kinds /\ effect \in {"none", "local", "remote"}
  /\ request \in {"none", "fix", "base", "remove"} /\ branchPc \in Pcs
  /\ Mutation!MutationIsHonest

BranchInv == backend \in {"git", "jj", "graphite"} /\ WorldFits /\ RunFits /\ Here(branchPc)

LEMMA BranchTypes == BranchInv => Mutation!TypeOK
BY DEF BranchInv, WorldFits, RunFits, Commits, Pcs, Unwritten, Opened, Mutation!TypeOK

LEMMA BranchInitHolds == ASSUME Mutation!Init PROVE BranchInv
<1>1. WorldFits
  BY DEF Mutation!Init, WorldFits, Commits, Mutation!ForbiddenStaysOut, Mutation!Works, Mutation!Places
<1>2. RunFits
  BY DEF Mutation!Init, RunFits, Mutation!MutationIsHonest, Mutation!NoOutcome, Mutation!Kinds, Pcs
<1>3. Here(branchPc)
  BY DEF Mutation!Init, Here, PlaceOfRequest, EffectSoFar, RecordsWhatItMay, BranchIsKnown, ReplacesWhatItHolds,
         TopOfStack, Unwritten, Opened
<1>4. QED
  BY <1>1, <1>2, <1>3 DEF BranchInv, Mutation!Init

\* A request goes on, and the branch is as it was.
LEMMA GoesOn ==
  ASSUME BranchInv, NEW next \in Pcs, Mutation!Goto(next), UNCHANGED Mutation!world, Here(next)
  PROVE  BranchInv'
<1>1. /\ UNCHANGED <<backend, at, local, other, tracked, remote, child, dirty>>
      /\ UNCHANGED <<request, target, seen, paths, outcome, effect, touched>> /\ branchPc' = next
  BY DEF Mutation!Goto, Mutation!world, Mutation!run
<1>2. WorldFits' /\ RunFits'
  BY <1>1 DEF BranchInv, WorldFits, RunFits, Mutation!ForbiddenStaysOut, Mutation!MutationIsHonest
<1>3. Here(branchPc)'
  BY <1>1
  DEF Here, PlaceOfRequest, EffectSoFar, RecordsWhatItMay, BranchIsKnown, ReplacesWhatItHolds, TopOfStack, Wanted
<1>4. QED
  BY <1>1, <1>2, <1>3 DEF BranchInv

\* A request ends, with a result that is right.
LEMMA Ends ==
  ASSUME BranchInv, branchPc # "idle", NEW k \in Mutation!Kinds, NEW done, Mutation!End(k, done),
         WorldFits', UNCHANGED <<backend, child>>, at = "gone" <=> at' = "gone",
         /\ k \in {"unchanged", "already-current", "precondition-failed", "needs-human"} => effect = "none"
         /\ k = "cancelled" => effect = (IF done THEN "local" ELSE "none")
         /\ k = "pushed" /\ ~touched => paths # {} /\ remote' = target \cup paths
         /\ k = "published" /\ ~touched => remote' = target \cup {"base"}
  PROVE  BranchInv'
<1>1. /\ UNCHANGED <<request, target, seen, paths, effect, touched>> /\ branchPc' = "idle"
      /\ outcome' = [kind |-> k, done |-> done]
  BY DEF Mutation!End
<1>2. RunFits'
  BY <1>1 DEF BranchInv, RunFits, Mutation!MutationIsHonest, Pcs
<1>3. Here(branchPc)'
  BY <1>1
  DEF BranchInv, Here, PlaceOfRequest, EffectSoFar, RecordsWhatItMay, BranchIsKnown, ReplacesWhatItHolds, TopOfStack,
      Unwritten, Opened
<1>4. QED
  BY <1>1, <1>2, <1>3 DEF BranchInv

\* It ends without a claim about the branch, which is as it was.
LEMMA EndsHere ==
  ASSUME BranchInv, branchPc # "idle", NEW k \in Mutation!Kinds \ {"pushed", "published"}, NEW done,
         Mutation!End(k, done), UNCHANGED Mutation!world,
         /\ k \in {"unchanged", "already-current", "precondition-failed", "needs-human"} => effect = "none"
         /\ k = "cancelled" => effect = (IF done THEN "local" ELSE "none")
  PROVE  BranchInv'
<1>1. UNCHANGED <<backend, at, local, other, tracked, remote, child, dirty>>
  BY DEF Mutation!world
<1>2. WorldFits'
  BY <1>1 DEF BranchInv, WorldFits, Mutation!ForbiddenStaysOut
<1>3. QED
  BY <1>1, <1>2, Ends

\* The checkout is refused before anything is recorded.
LEMMA Refused ==
  ASSUME BranchInv, branchPc \in Unwritten, Mutation!Refuse,
         WorldFits', UNCHANGED <<backend, child>>, at = "gone" <=> at' = "gone"
  PROVE  BranchInv'
<1>1. PICK k \in {"precondition-failed", "failed"} : Mutation!End(k, FALSE)
  BY DEF Mutation!Refuse
<1>2. effect = "none" /\ k \in Mutation!Kinds /\ branchPc # "idle"
  BY <1>1 DEF BranchInv, Here, EffectSoFar, Mutation!Kinds, Unwritten, Opened
<1>3. QED
  BY <1>1, <1>2, Ends

\* The user and others move: what the run knew of the branch is off.
LEMMA Moves ==
  ASSUME BranchInv, Mutation!Moved, WorldFits', backend' = backend, at = "gone" <=> at' = "gone", tracked' = tracked,
         local \subseteq local', dirty' \subseteq dirty \cup {"user"}
  PROVE  BranchInv'
<1>1. /\ UNCHANGED <<request, target, seen, paths, outcome, effect, branchPc>> /\ touched'
  BY DEF Mutation!Moved
<1>2. RunFits'
  BY <1>1 DEF BranchInv, RunFits, Mutation!MutationIsHonest
<1>3. Here(branchPc)'
  BY <1>1
  DEF BranchInv, Here, PlaceOfRequest, EffectSoFar, RecordsWhatItMay, BranchIsKnown, ReplacesWhatItHolds, TopOfStack,
      Mutation!Works
<1>4. QED
  BY <1>1, <1>2, <1>3 DEF BranchInv

LEMMA SameWorld ==
  ASSUME BranchInv, UNCHANGED Mutation!world
  PROVE  WorldFits' /\ UNCHANGED <<backend, at, local, other, tracked, remote, child, dirty>>
BY DEF BranchInv, WorldFits, Mutation!ForbiddenStaysOut, Mutation!world

\* A fetch moves a local bookmark along or leaves it conflicted; nothing goes.
LEMMA FetchFits ==
  ASSUME BranchInv, Mutation!Fetched
  PROVE  /\ WorldFits' /\ UNCHANGED <<backend, child, other, remote, dirty>> /\ tracked' = remote
         /\ local \subseteq local' /\ (local = remote => local' = local) /\ (backend # "jj" => UNCHANGED <<local, at>>)
         /\ (at' = "gone" <=> at = "gone") /\ at' \in {at, "away"}
<1>1. UNCHANGED <<backend, child, other, remote, dirty>> /\ tracked' = remote
  BY DEF Mutation!Fetched
<1>2. CASE backend # "jj"
  BY <1>1, <1>2 DEF BranchInv, WorldFits, Mutation!ForbiddenStaysOut, Mutation!Fetched
<1>3. CASE backend = "jj"
  <2>1. Mutation!BookmarkFollows
    BY <1>3 DEF Mutation!Fetched
  <2>2. CASE remote = tracked
    BY <1>1, <1>3, <2>1, <2>2 DEF BranchInv, WorldFits, Mutation!ForbiddenStaysOut, Mutation!BookmarkFollows
  <2>3. CASE remote # tracked
    <3>1. at' \in Mutation!Places /\ (at' = "gone" <=> at = "gone") /\ at' \in {at, "away"}
      BY <2>1, <2>3 DEF BranchInv, WorldFits, Mutation!Places, Mutation!BookmarkFollows, Mutation!JjLocation
    <3>2. CASE local \subseteq remote
      BY <1>1, <1>3, <2>1, <2>3, <3>1, <3>2 DEF BranchInv, WorldFits, Mutation!ForbiddenStaysOut, Mutation!BookmarkFollows
    <3>3. CASE ~(local \subseteq remote)
      <4>1. local' = local \cup {"conflict"}
        BY <2>1, <2>3, <3>3 DEF Mutation!BookmarkFollows
      <4>2. QED
        BY <1>1, <1>3, <3>1, <3>3, <4>1 DEF BranchInv, WorldFits, Commits, Mutation!ForbiddenStaysOut
    <3>4. QED
      BY <3>2, <3>3
  <2>4. QED
    BY <2>2, <2>3
<1>4. QED
  BY <1>2, <1>3

\* What is recorded goes onto the branch that is checked out.
LEMMA CommitFits ==
  ASSUME BranchInv, NEW works \in SUBSET Mutation!Works, "secret" \notin works, Mutation!Commit(works)
  PROVE  /\ WorldFits' /\ UNCHANGED <<backend, at, tracked, remote, base, child>>
         /\ local \subseteq local' /\ dirty' \subseteq dirty
         /\ (at # "other" => local' = local \cup works)
<1>1. UNCHANGED <<backend, at, tracked, remote, base, child>> /\ dirty' = dirty \ works
  BY DEF Mutation!Commit
<1>2. CASE at = "other"
  BY <1>1, <1>2 DEF BranchInv, WorldFits, Commits, Mutation!ForbiddenStaysOut, Mutation!Commit
<1>3. CASE at # "other"
  BY <1>1, <1>3 DEF BranchInv, WorldFits, Commits, Mutation!ForbiddenStaysOut, Mutation!Commit
<1>4. QED
  BY <1>2, <1>3

\* A step that only the branch notices: the places of the run, and what it is to the branch.
LEMMA StepsOn ==
  ASSUME BranchInv, WorldFits', backend' = backend, UNCHANGED <<request, target, paths, outcome, touched>>,
         branchPc # "idle", branchPc' \in Pcs, effect' \in {"none", "local", "remote"}, Here(branchPc)'
  PROVE  BranchInv'
<1>1. outcome = Mutation!NoOutcome
  BY DEF BranchInv, Here, PlaceOfRequest
<1>2. RunFits'
  BY <1>1 DEF BranchInv, RunFits, Mutation!MutationIsHonest, Mutation!NoOutcome
<1>3. QED
  BY <1>2 DEF BranchInv

\* The checkout is opened, with its branch at the head that was asked for.
LEMMA OpeningHolds ==
  ASSUME BranchInv,
         \/ Mutation!Preflight \/ Mutation!OpenCheckout \/ Mutation!CaptureWorkstream
         \/ Mutation!OpenMutationWorkstream \/ Mutation!FetchRemoteHead \/ Mutation!OpenGuard
  PROVE  BranchInv'
<1> USE DEF Pcs, Unwritten, Opened
<1>1. ASSUME branchPc \in Unwritten, UNCHANGED Mutation!world, Mutation!Refuse PROVE BranchInv'
  BY <1>1, SameWorld, Refused
<1>2. CASE Mutation!Preflight
  <2>1. branchPc = "preflight" => Here("open")
    BY DEF BranchInv, Here, PlaceOfRequest, EffectSoFar, RecordsWhatItMay, BranchIsKnown, ReplacesWhatItHolds, TopOfStack
  <2>2. QED
    BY <1>1, <1>2, <2>1, GoesOn DEF Mutation!Preflight
<1>3. CASE Mutation!OpenCheckout
  <2>1. branchPc = "open" /\ Mutation!NamesTarget => Here("capture")
    BY DEF BranchInv, Here, PlaceOfRequest, EffectSoFar, RecordsWhatItMay, BranchIsKnown, ReplacesWhatItHolds, TopOfStack,
           Mutation!NamesTarget
  <2>2. QED
    BY <1>1, <1>3, <2>1, GoesOn DEF Mutation!OpenCheckout
<1>4. CASE Mutation!CaptureWorkstream
  <2>1. branchPc = "capture" /\ UNCHANGED Mutation!world
    BY <1>4 DEF Mutation!CaptureWorkstream
  <2>2. CASE branchPc' = "fetch" /\ UNCHANGED <<request, target, paths, outcome, effect, branchAborted, touched>>
    <3>1. Here(branchPc)'
      BY <2>1, <2>2, SameWorld
      DEF BranchInv, Here, PlaceOfRequest, EffectSoFar, RecordsWhatItMay, BranchIsKnown, ReplacesWhatItHolds, TopOfStack
    <3>2. QED
      BY <2>1, <2>2, <3>1, SameWorld, StepsOn DEF BranchInv, RunFits
  <2>3. QED
    BY <1>1, <1>4, <2>1, <2>2 DEF Mutation!CaptureWorkstream
<1>5. CASE Mutation!OpenMutationWorkstream
  <2>1. branchPc = "open" /\ UNCHANGED Mutation!world /\ backend = "jj"
    BY <1>5 DEF Mutation!OpenMutationWorkstream
  <2>2. CASE /\ dirty = {} /\ Mutation!JjLocation = "@-" /\ local = target
             /\ branchPc' = "fetch" /\ UNCHANGED <<request, target, paths, outcome, effect, branchAborted, touched>>
    <3>1. at # "other"
      BY <2>2 DEF Mutation!JjLocation
    <3>2. Here(branchPc)'
      BY <2>1, <2>2, <3>1, SameWorld
      DEF BranchInv, Here, PlaceOfRequest, EffectSoFar, RecordsWhatItMay, BranchIsKnown, ReplacesWhatItHolds, TopOfStack
    <3>3. QED
      BY <2>1, <2>2, <3>2, SameWorld, StepsOn DEF BranchInv, RunFits
  <2>3. QED
    BY <1>1, <1>5, <2>1, <2>2 DEF Mutation!OpenMutationWorkstream
<1>6. CASE Mutation!FetchRemoteHead
  <2>1. CASE Mutation!Fetched /\ remote = target /\ Mutation!Goto(Mutation!Guarded)
    <3>1. branchPc = "fetch" /\ branchPc' = Mutation!Guarded
          /\ UNCHANGED <<request, target, seen, paths, outcome, effect, branchAborted, touched>>
      BY <1>6, <2>1 DEF Mutation!FetchRemoteHead, Mutation!Goto, Mutation!run
    <3>2. PlaceOfRequest(branchPc)' /\ EffectSoFar(branchPc)' /\ RecordsWhatItMay(branchPc)'
      BY <2>1, <3>1, FetchFits DEF BranchInv, Here, PlaceOfRequest, EffectSoFar, RecordsWhatItMay, Mutation!Guarded
    <3>3. BranchIsKnown(branchPc)' /\ ReplacesWhatItHolds(branchPc)' /\ TopOfStack(branchPc)'
      BY <2>1, <3>1, FetchFits
      DEF BranchInv, Here, EffectSoFar, BranchIsKnown, ReplacesWhatItHolds, TopOfStack, Mutation!Guarded
    <3>4. QED
      BY <2>1, <3>1, <3>2, <3>3, FetchFits, StepsOn DEF BranchInv, RunFits, Here, Mutation!Guarded
  <2>2. CASE Mutation!Fetched /\ Mutation!Refuse
    BY <1>6, <2>2, FetchFits, Refused DEF Mutation!FetchRemoteHead
  <2>3. QED
    BY <1>1, <1>6, <2>1, <2>2 DEF Mutation!FetchRemoteHead
<1>7. CASE Mutation!OpenGuard
  <2>1. branchPc = "scope" /\ Mutation!AssertSingleRefRewrite => Here("opened")
    BY DEF BranchInv, Here, PlaceOfRequest, EffectSoFar, RecordsWhatItMay, BranchIsKnown, ReplacesWhatItHolds, TopOfStack,
           Mutation!AssertSingleRefRewrite
  <2>2. QED
    BY <1>1, <1>7, <2>1, GoesOn DEF Mutation!OpenGuard
<1>8. QED
  BY <1>2, <1>3, <1>4, <1>5, <1>6, <1>7

\* What the fixer left is listed, judged and recorded.
LEMMA FixHolds ==
  ASSUME BranchInv,
         \/ Mutation!Fixer \/ Mutation!AssertUnchanged \/ Mutation!RestorePaths \/ Mutation!Unchanged
         \/ Mutation!RecordGuard \/ Mutation!RecordPaths
  PROVE  BranchInv'
<1> USE DEF Pcs, Unwritten, Opened
<1> DEFINE Fails == branchPc \in Unwritten /\ Mutation!End("failed", FALSE)
<1>1. ASSUME Fails, UNCHANGED Mutation!world PROVE BranchInv'
  BY <1>1, EndsHere DEF Mutation!Kinds
<1>2. CASE Mutation!Fixer
  <2>1. branchPc = "opened" /\ request = "fix"
    BY <1>2 DEF Mutation!Fixer
  <2>2. ASSUME NEW edits \in SUBSET {"fix", "secret"}, dirty' = dirty \cup edits,
               UNCHANGED <<backend, colocated, at, local, other, tracked, remote, base, child>>, Mutation!Goto("assert")
        PROVE  BranchInv'
    <3>1. /\ branchPc' = "assert" /\ UNCHANGED <<request, target, seen, paths, outcome, effect, branchAborted, touched>>
          /\ dirty' \in Commits /\ (dirty \subseteq Mutation!Works => dirty' \subseteq Mutation!Works)
      BY <2>2 DEF Mutation!Goto, Mutation!run, BranchInv, WorldFits, Commits, Mutation!Works
    <3>2. WorldFits'
      BY <2>2, <3>1 DEF BranchInv, WorldFits, Mutation!ForbiddenStaysOut
    <3>3. Here(branchPc)'
      BY <2>1, <2>2, <3>1
      DEF BranchInv, Here, PlaceOfRequest, EffectSoFar, RecordsWhatItMay, BranchIsKnown, ReplacesWhatItHolds, TopOfStack
    <3>4. QED
      BY <2>1, <2>2, <3>1, <3>2, <3>3, StepsOn DEF BranchInv, RunFits
  <2>3. QED
    BY <1>1, <1>2, <2>1, <2>2 DEF Mutation!Fixer
<1>3. CASE Mutation!AssertUnchanged
  <2>1. branchPc = "assert" /\ UNCHANGED Mutation!world
    BY <1>3 DEF Mutation!AssertUnchanged
  <2>2. CASE paths' = dirty /\ branchPc' = "listed" /\ UNCHANGED <<request, target, seen, outcome, effect, branchAborted, touched>>
    <3>1. RunFits'
      BY <2>1, <2>2
      DEF BranchInv, RunFits, Here, PlaceOfRequest, RecordsWhatItMay, Mutation!MutationIsHonest, Mutation!NoOutcome
    <3>2. Here(branchPc)'
      BY <2>1, <2>2, SameWorld
      DEF BranchInv, Here, PlaceOfRequest, EffectSoFar, RecordsWhatItMay, BranchIsKnown, ReplacesWhatItHolds, TopOfStack
    <3>3. QED
      BY <2>1, <3>1, <3>2, SameWorld DEF BranchInv
  <2>3. QED
    BY <1>1, <1>3, <2>1, <2>2 DEF Mutation!AssertUnchanged
<1>4. CASE Mutation!RestorePaths
  <2>1. /\ branchPc = "listed" /\ Mutation!End("failed", FALSE)
        /\ UNCHANGED <<backend, colocated, at, local, other, tracked, remote, base, child>>
    BY <1>4 DEF Mutation!RestorePaths
  <2>2. dirty' \in Commits
    <3>1. PICK left \in Mutation!Leaves({p \in paths : Mutation!IsForbiddenPath(p)}) :
            dirty' = (dirty \ {p \in paths : Mutation!IsForbiddenPath(p)}) \cup left
      BY <1>4 DEF Mutation!RestorePaths
    <3>2. left \subseteq paths
      BY <3>1 DEF BranchInv, Mutation!Leaves, Mutation!GitLeaves, Mutation!JjLeaves, Mutation!GtLeaves
    <3>3. QED
      BY <3>1, <3>2 DEF BranchInv, WorldFits, RunFits, Commits
  <2>3. WorldFits'
    BY <2>1, <2>2 DEF BranchInv, WorldFits, Mutation!ForbiddenStaysOut
  <2>4. QED
    BY <2>1, <2>3, Ends DEF Mutation!Kinds
<1>5. CASE Mutation!Unchanged
  <2>1. branchPc = "listed" /\ UNCHANGED Mutation!world /\ Mutation!End("unchanged", FALSE) /\ effect = "none"
    BY <1>5 DEF Mutation!Unchanged, BranchInv, Here, EffectSoFar
  <2>2. QED
    BY <2>1, EndsHere DEF Mutation!Kinds
<1>6. CASE Mutation!RecordGuard
  <2>1. branchPc = "listed" /\ paths # {} /\ ~Mutation!AnyForbidden(paths) /\ UNCHANGED Mutation!world
    BY <1>6 DEF Mutation!RecordGuard
  <2>2. "secret" \notin paths
    BY <2>1 DEF Mutation!AnyForbidden, Mutation!IsForbiddenPath
  <2>3. CASE (backend = "graphite" => Mutation!AssertSingleRefRewrite) /\ Mutation!Goto("record")
    <3>1. Here("record")
      BY <2>1, <2>2, <2>3
      DEF BranchInv, Here, PlaceOfRequest, EffectSoFar, RecordsWhatItMay, BranchIsKnown, ReplacesWhatItHolds, TopOfStack,
          Mutation!AssertSingleRefRewrite
    <3>2. QED
      BY <2>1, <2>3, <3>1, GoesOn
  <2>4. QED
    BY <1>1, <1>6, <2>1, <2>3 DEF Mutation!RecordGuard
<1>7. CASE Mutation!RecordPaths
  <2>1. branchPc = "record"
    BY <1>7 DEF Mutation!RecordPaths
  <2>2. CASE /\ Mutation!GitRecords \/ Mutation!JjSquashes \/ Mutation!GtModifies
             /\ Mutation!Changed("local", "push") \/ Mutation!ChangedAndFailed("local")
    <3>1. Mutation!Commit(paths) /\ paths \subseteq Mutation!Works /\ "secret" \notin paths
      BY <2>1, <2>2
      DEF BranchInv, RunFits, Here, RecordsWhatItMay, Mutation!GitRecords, Mutation!JjSquashes, Mutation!GtModifies
    <3>2. /\ UNCHANGED <<request, target, seen, paths, branchAborted, touched>> /\ effect' = "local"
          /\ \/ branchPc' = "push" /\ outcome' = outcome
             \/ branchPc' = "idle" /\ outcome' = [kind |-> "failed", done |-> FALSE]
      BY <2>1, <2>2
      DEF BranchInv, Here, EffectSoFar, Mutation!Changed, Mutation!ChangedAndFailed, Mutation!Wrote
    <3>3. RunFits'
      BY <2>1, <3>2
      DEF BranchInv, RunFits, Here, PlaceOfRequest, Mutation!MutationIsHonest, Mutation!NoOutcome, Mutation!Kinds
    <3>4. Here(branchPc)'
      BY <2>1, <3>1, <3>2, CommitFits
      DEF BranchInv, Here, PlaceOfRequest, EffectSoFar, RecordsWhatItMay, BranchIsKnown, ReplacesWhatItHolds, TopOfStack,
          Wanted
    <3>5. QED
      BY <3>1, <3>3, <3>4, CommitFits DEF BranchInv
  <2>3. QED
    BY <1>1, <1>7, <2>1, <2>2 DEF Mutation!RecordPaths
<1>8. QED
  BY <1>2, <1>3, <1>4, <1>5, <1>6, <1>7

\* The remote branch takes a commit only if it holds all that was there.
LEMMA TakeFits ==
  ASSUME BranchInv, NEW commit \in Commits, "secret" \notin commit, Mutation!RemoteTakes(commit),
         /\ backend = "git" \/ (backend = "jj" /\ commit = local /\ Mutation!BookmarkTarget)
            \/ (backend = "graphite" /\ commit = local /\ tracked \subseteq local)
  PROVE  /\ WorldFits' /\ UNCHANGED <<backend, at, local, other, child, dirty>> /\ remote' = commit /\ tracked' = commit
         /\ remote \subseteq remote'
<1>1. UNCHANGED <<backend, at, local, other, child, dirty>> /\ remote' = commit /\ tracked' = commit
  BY DEF Mutation!RemoteTakes
<1>2. remote \subseteq commit
  BY DEF BranchInv, WorldFits, Mutation!RemoteTakes, Mutation!Takes, Mutation!BookmarkTarget
<1>3. WorldFits'
  BY <1>1, <1>2 DEF BranchInv, WorldFits, Mutation!ForbiddenStaysOut
<1>4. QED
  BY <1>1, <1>2, <1>3

\* What is recorded is published.
LEMMA PublishHolds ==
  ASSUME BranchInv,
         \/ Mutation!Push \/ Mutation!PushFails \/ Mutation!DryRun \/ Mutation!Submit \/ Mutation!VerifySubmit
  PROVE  BranchInv'
<1> USE DEF Pcs, Unwritten, Opened
<1>1. CASE Mutation!Push
  <2>1. /\ branchPc = "push" /\ branchPc' = "idle" /\ effect' = "remote"
        /\ UNCHANGED <<request, target, seen, paths, branchAborted, touched>>
    BY <1>1 DEF Mutation!Push, Mutation!Wrote
  <2>2. PICK k \in {Mutation!PublishedKind, "failed"} : outcome' = [kind |-> k, done |-> FALSE]
    BY <1>1 DEF Mutation!Push
  <2>3. \E commit : /\ Mutation!RemoteTakes(commit) /\ (at # "other" => commit = local)
                    /\ commit \in Commits /\ "secret" \notin commit
                    /\ backend = "git" \/ (backend = "jj" /\ commit = local /\ Mutation!BookmarkTarget)
    BY <1>1 DEF Mutation!Push, Mutation!GitPush, Mutation!JjPush, Mutation!Head, BranchInv, WorldFits, Mutation!ForbiddenStaysOut
  <2>4. PICK commit : /\ Mutation!RemoteTakes(commit) /\ (at # "other" => commit = local)
                      /\ commit \in Commits /\ "secret" \notin commit
                      /\ backend = "git" \/ (backend = "jj" /\ commit = local /\ Mutation!BookmarkTarget)
    BY <2>3
  <2>5. /\ WorldFits' /\ UNCHANGED <<backend, at, local, other, child, dirty>> /\ remote' = commit
    BY <2>4, TakeFits
  <2>6. ~touched => remote' = target \cup Wanted
    BY <2>1, <2>4, <2>5 DEF BranchInv, Here, BranchIsKnown
  <2>7. RunFits'
    <3>1. k \in Mutation!Kinds /\ k \in {"pushed", "published", "failed"}
          /\ (k = "pushed" => request # "base") /\ (k = "published" => request = "base")
      BY <2>2 DEF Mutation!PublishedKind, Mutation!Kinds
    <3>2. request = "fix" \/ request = "base"
      BY <2>1 DEF BranchInv, Here, PlaceOfRequest
    <3>3. request = "fix" => paths # {}
      BY <2>1 DEF BranchInv, Here, RecordsWhatItMay
    <3>4. QED
      BY <2>1, <2>2, <2>6, <3>1, <3>2, <3>3 DEF BranchInv, RunFits, Mutation!MutationIsHonest, Wanted
  <2>8. Here(branchPc)'
    BY <2>1, <2>5
    DEF BranchInv, Here, PlaceOfRequest, EffectSoFar, RecordsWhatItMay, BranchIsKnown, ReplacesWhatItHolds, TopOfStack
  <2>9. QED
    BY <2>5, <2>7, <2>8 DEF BranchInv
<1>2. CASE Mutation!PushFails
  BY <1>2, EndsHere DEF Mutation!PushFails, Mutation!Kinds
<1>3. CASE Mutation!DryRun
  <2>1. /\ branchPc = "push" /\ branchPc' = "submit" /\ UNCHANGED Mutation!world /\ seen'[2] = local
        /\ backend = "graphite"
        /\ UNCHANGED <<request, target, paths, outcome, effect, branchAborted, touched>>
    BY <1>3 DEF Mutation!DryRun, Mutation!Token, Mutation!Head
  <2>2. Here(branchPc)'
    BY <2>1, SameWorld
    DEF BranchInv, Here, PlaceOfRequest, EffectSoFar, RecordsWhatItMay, BranchIsKnown, ReplacesWhatItHolds, TopOfStack, Wanted
  <2>3. QED
    BY <2>1, <2>2, SameWorld, StepsOn DEF BranchInv, RunFits
<1>4. CASE Mutation!Submit
  <2>1. branchPc = "submit"
    BY <1>4 DEF Mutation!Submit
  <2>2. CASE at = "pr" /\ Mutation!RemoteTakes(local) /\ Mutation!Changed("remote", "verify")
    <3>1. /\ branchPc' = "verify" /\ effect' = "remote"
          /\ UNCHANGED <<request, target, seen, paths, outcome, branchAborted, touched>>
      BY <2>2 DEF Mutation!Changed, Mutation!Wrote
    <3>2. WorldFits' /\ UNCHANGED <<backend, at, local, other, child, dirty>>
      <4>1. backend = "graphite" /\ tracked \subseteq local
        BY <2>1 DEF BranchInv, Here, ReplacesWhatItHolds
      <4>2. local \in Commits /\ "secret" \notin local
        BY DEF BranchInv, WorldFits, Mutation!ForbiddenStaysOut
      <4>3. QED
        BY <2>2, <4>1, <4>2, TakeFits
    <3>3. Here(branchPc)'
      BY <2>1, <3>1, <3>2
      DEF BranchInv, Here, PlaceOfRequest, EffectSoFar, RecordsWhatItMay, BranchIsKnown, ReplacesWhatItHolds, TopOfStack,
          Wanted
    <3>4. QED
      BY <2>1, <3>1, <3>2, <3>3, StepsOn
  <2>3. CASE UNCHANGED Mutation!world /\ Mutation!Goto("verify")
    <3>1. Here("verify")
      BY <2>1
      DEF BranchInv, Here, PlaceOfRequest, EffectSoFar, RecordsWhatItMay, BranchIsKnown, ReplacesWhatItHolds, TopOfStack
    <3>2. QED
      BY <2>3, <3>1, GoesOn
  <2>4. QED
    BY <1>4, <2>2, <2>3 DEF Mutation!Submit
<1>5. CASE Mutation!VerifySubmit
  <2>1. branchPc = "verify"
    BY <1>5 DEF Mutation!VerifySubmit
  <2>2. CASE Mutation!Fetched /\ Mutation!End(IF remote = seen[2] THEN Mutation!PublishedKind ELSE "failed", FALSE)
    <3>1. PICK k : /\ Mutation!End(k, FALSE) /\ k \in {"pushed", "published", "failed"}
                   /\ (k = "pushed" => request # "base") /\ (k = "published" => request = "base")
                   /\ (k # "failed" => remote = seen[2])
      BY <2>2 DEF Mutation!PublishedKind
    <3>2. ~touched /\ k # "failed" => remote' = target \cup Wanted
      BY <2>1, <2>2, <3>1, FetchFits DEF BranchInv, Here, BranchIsKnown
    <3>3. request \in {"fix", "base"} /\ (request = "fix" => paths # {})
      BY <2>1 DEF BranchInv, Here, PlaceOfRequest, RecordsWhatItMay
    <3>4. QED
      BY <2>1, <2>2, <3>1, <3>2, <3>3, FetchFits, Ends DEF Mutation!Kinds, Wanted
  <2>3. QED
    BY <1>5, <2>1, <2>2, EndsHere DEF Mutation!VerifySubmit, Mutation!Kinds
<1>6. QED
  BY <1>1, <1>2, <1>3, <1>4, <1>5

\* The base is merged into the branch.
LEMMA UpdateHolds ==
  ASSUME BranchInv,
         \/ Mutation!UpdateFails \/ Mutation!GitMerge \/ Mutation!JjFetchBase \/ Mutation!JjMerge
         \/ Mutation!GtRestack \/ Mutation!MergedGuard
  PROVE  BranchInv'
<1> USE DEF Pcs, Unwritten, Opened
<1>1. ASSUME branchPc \in Unwritten \cup {"merged"}, UNCHANGED Mutation!world, Mutation!End("failed", FALSE) PROVE BranchInv'
  BY <1>1, EndsHere DEF Mutation!Kinds
<1>2. ASSUME branchPc \in Unwritten, UNCHANGED Mutation!world, Mutation!End("already-current", FALSE) PROVE BranchInv'
  <2>1. effect = "none"
    BY <1>2 DEF BranchInv, Here, EffectSoFar
  <2>2. QED
    BY <1>2, <2>1, EndsHere DEF Mutation!Kinds
\* Git and Graphite put the merge onto what is checked out.
<1>3. ASSUME branchPc = "opened", request = "base", Mutation!Commit({"base"}), Mutation!Changed("local", "merged")
      PROVE  BranchInv'
  <2>1. {"base"} \in SUBSET Mutation!Works /\ "secret" \notin {"base"}
    BY DEF Mutation!Works
  <2>2. /\ UNCHANGED <<request, target, seen, paths, outcome, branchAborted, touched>> /\ effect' = "local"
        /\ branchPc' = "merged"
    BY <1>3 DEF Mutation!Changed, Mutation!Wrote, BranchInv, Here, EffectSoFar
  <2>3. Here(branchPc)'
    BY <1>3, <2>1, <2>2, CommitFits
    DEF BranchInv, Here, PlaceOfRequest, EffectSoFar, RecordsWhatItMay, BranchIsKnown, ReplacesWhatItHolds, TopOfStack, Wanted
  <2>4. QED
    BY <1>3, <2>1, <2>2, <2>3, CommitFits, StepsOn
\* A merge that fails may leave the checkout with the conflict, or elsewhere.
<1>4. ASSUME branchPc \in {"opened", "merge"}, NEW k \in {"needs-human", "failed"}, Mutation!End(k, FALSE),
             UNCHANGED <<backend, local, other, tracked, remote, child>>, dirty' \in {dirty, dirty \cup {"conflict"}},
             at' \in {at, "away"}
      PROVE  BranchInv'
  <2>1. at # "gone" /\ effect = "none"
    BY <1>4 DEF BranchInv, Here, PlaceOfRequest, EffectSoFar
  <2>2. WorldFits'
    BY <1>4 DEF BranchInv, WorldFits, Commits, Mutation!ForbiddenStaysOut, Mutation!Places
  <2>3. QED
    BY <1>4, <2>1, <2>2, Ends DEF Mutation!Kinds
<1>5. CASE Mutation!UpdateFails
  BY <1>1, <1>5 DEF Mutation!UpdateFails
<1>6. CASE Mutation!GitMerge
  BY <1>2, <1>3, <1>4, <1>6 DEF Mutation!GitMerge
<1>7. CASE Mutation!GtRestack
  BY <1>2, <1>3, <1>4, <1>7 DEF Mutation!GtRestack
<1>8. CASE Mutation!JjFetchBase
  <2>1. /\ branchPc = "opened" /\ request = "base" /\ backend = "jj" /\ Mutation!Fetched /\ branchPc' = "merge"
        /\ UNCHANGED <<request, target, seen, paths, outcome, effect, branchAborted, touched>>
    BY <1>8 DEF Mutation!JjFetchBase, Mutation!Goto, Mutation!run
  <2>2. Here(branchPc)'
    BY <2>1, FetchFits
    DEF BranchInv, Here, PlaceOfRequest, EffectSoFar, RecordsWhatItMay, BranchIsKnown, ReplacesWhatItHolds, TopOfStack
  <2>3. QED
    BY <2>1, <2>2, FetchFits, StepsOn DEF BranchInv, RunFits
<1>9. CASE Mutation!JjMerge
  <2>1. branchPc = "merge"
    BY <1>9 DEF Mutation!JjMerge
  <2>2. CASE Mutation!JjMerges
    <3>1. UNCHANGED <<backend, other, tracked, remote, child, dirty>>
      BY <2>2 DEF Mutation!JjMerges
    <3>2. CASE at' = "on" /\ local' = local \cup {"base"} /\ Mutation!Changed("local", "merged")
      <4>1. /\ UNCHANGED <<request, target, seen, paths, outcome, branchAborted, touched>> /\ effect' = "local"
            /\ branchPc' = "merged"
        BY <2>1, <3>2 DEF Mutation!Changed, Mutation!Wrote, BranchInv, Here, EffectSoFar
      <4>2. WorldFits'
        BY <3>1, <3>2 DEF BranchInv, WorldFits, Commits, Mutation!ForbiddenStaysOut, Mutation!Places, Mutation!Works
      <4>3. Here(branchPc)'
        BY <2>1, <3>1, <3>2, <4>1
        DEF BranchInv, Here, PlaceOfRequest, EffectSoFar, RecordsWhatItMay, BranchIsKnown, ReplacesWhatItHolds, TopOfStack,
            Wanted
      <4>4. QED
        BY <2>1, <3>1, <4>1, <4>2, <4>3, StepsOn
    <3>3. CASE at' = "away" /\ UNCHANGED local /\ Mutation!End("failed", FALSE)
      BY <1>4, <2>1, <3>1, <3>3
    <3>4. QED
      BY <2>2, <3>2, <3>3 DEF Mutation!JjMerges
  <2>3. CASE Mutation!JjConflicts
    BY <1>4, <2>1, <2>3 DEF Mutation!JjConflicts
  <2>4. QED
    BY <1>1, <1>2, <1>9, <2>1, <2>2, <2>3 DEF Mutation!JjMerge
<1>10. CASE Mutation!MergedGuard
  <2>1. branchPc = "merged" /\ UNCHANGED Mutation!world
    BY <1>10 DEF Mutation!MergedGuard
  <2>2. CASE Mutation!Goto("push")
    <3>1. Here("push")
      BY <2>1
      DEF BranchInv, Here, PlaceOfRequest, EffectSoFar, RecordsWhatItMay, BranchIsKnown, ReplacesWhatItHolds, TopOfStack
    <3>2. QED
      BY <2>1, <2>2, <3>1, GoesOn
  <2>3. QED
    BY <1>1, <1>10, <2>1, <2>2 DEF Mutation!MergedGuard
<1>11. QED
  BY <1>5, <1>6, <1>7, <1>8, <1>9, <1>10

\* A request begins or is cancelled, and a worktree goes.
LEMMA RequestHolds ==
  ASSUME BranchInv,
         \/ \E kind \in {"fix", "base", "remove"} : Mutation!Begin(kind)
         \/ Mutation!Cancelled \/ Mutation!Abort
         \/ Mutation!InspectWorktree \/ Mutation!RemoveWorktree \/ Mutation!DeleteBranch
  PROVE  BranchInv'
<1> USE DEF Pcs, Unwritten, Opened
<1>1. ASSUME NEW kind \in {"fix", "base", "remove"}, Mutation!Begin(kind) PROVE BranchInv'
  <2>1. /\ branchPc = "idle" /\ at # "gone" /\ UNCHANGED Mutation!world
        /\ request' = kind /\ target' = remote /\ paths' = {} /\ outcome' = Mutation!NoOutcome /\ effect' = "none"
        /\ touched' = FALSE /\ branchPc' = IF kind = "remove" THEN "inspect" ELSE "preflight"
    BY <1>1 DEF Mutation!Begin
  <2>2. RunFits'
    BY <2>1 DEF RunFits, Mutation!MutationIsHonest, Mutation!NoOutcome, Mutation!Kinds
  <2>3. Here(branchPc)'
    BY <2>1, SameWorld
    DEF Here, PlaceOfRequest, EffectSoFar, RecordsWhatItMay, BranchIsKnown, ReplacesWhatItHolds, TopOfStack
  <2>4. QED
    BY <2>1, <2>2, <2>3, SameWorld DEF BranchInv
<1>2. CASE Mutation!Cancelled
  <2>1. /\ branchPc \in {"open", "capture", "fetch", "scope", "opened", "assert", "record", "push", "merged"}
        /\ UNCHANGED Mutation!world /\ Mutation!End("cancelled", Mutation!CompletedActions)
    BY <1>2 DEF Mutation!Cancelled
  <2>2. effect = IF Mutation!CompletedActions THEN "local" ELSE "none"
    BY <2>1 DEF BranchInv, Here, EffectSoFar, Mutation!CompletedActions
  <2>3. QED
    BY <2>1, <2>2, EndsHere DEF Mutation!Kinds
<1>3. CASE Mutation!Abort
  <2>1. UNCHANGED Mutation!world /\ UNCHANGED <<request, target, seen, paths, outcome, effect, touched, branchPc>>
    BY <1>3 DEF Mutation!Abort
  <2>2. Here(branchPc)'
    BY <2>1, SameWorld
    DEF BranchInv, Here, PlaceOfRequest, EffectSoFar, RecordsWhatItMay, BranchIsKnown, ReplacesWhatItHolds, TopOfStack, Wanted
  <2>3. QED
    BY <2>1, <2>2, SameWorld DEF BranchInv, RunFits, Mutation!MutationIsHonest
<1>4. CASE Mutation!InspectWorktree
  <2>1. branchPc = "inspect" /\ UNCHANGED Mutation!world
    BY <1>4 DEF Mutation!InspectWorktree
  <2>2. backend # "jj" => Here("remove")
    BY <2>1
    DEF BranchInv, Here, PlaceOfRequest, EffectSoFar, RecordsWhatItMay, BranchIsKnown, ReplacesWhatItHolds, TopOfStack
  <2>3. QED
    BY <1>4, <2>1, <2>2, GoesOn, EndsHere DEF Mutation!InspectWorktree, Mutation!Kinds
<1>5. CASE Mutation!RemoveWorktree
  <2>1. branchPc = "remove"
    BY <1>5 DEF Mutation!RemoveWorktree
  <2>2. CASE /\ dirty = {} /\ at' = "gone" /\ Mutation!Changed("local", "delete")
             /\ UNCHANGED <<backend, colocated, local, other, tracked, remote, base, child, dirty>>
    <3>1. /\ UNCHANGED <<request, target, seen, paths, outcome, branchAborted, touched>> /\ effect' = "local"
          /\ branchPc' = "delete"
      BY <2>1, <2>2 DEF Mutation!Changed, Mutation!Wrote, BranchInv, Here, EffectSoFar
    <3>2. WorldFits'
      BY <2>2 DEF BranchInv, WorldFits, Mutation!ForbiddenStaysOut, Mutation!Places
    <3>3. Here(branchPc)'
      BY <2>1, <2>2, <3>1
      DEF BranchInv, Here, PlaceOfRequest, EffectSoFar, RecordsWhatItMay, BranchIsKnown, ReplacesWhatItHolds, TopOfStack
    <3>4. QED
      BY <2>1, <2>2, <3>1, <3>2, <3>3, StepsOn
  <2>3. QED
    BY <1>5, <2>1, <2>2, EndsHere DEF Mutation!RemoveWorktree, Mutation!Kinds
<1>6. CASE Mutation!DeleteBranch
  <2>1. branchPc = "delete" /\ Mutation!End("removed", FALSE)
    BY <1>6 DEF Mutation!DeleteBranch
  <2>2. CASE Mutation!BranchIsMerged /\ local' = {} /\ UNCHANGED <<backend, colocated, at, other, tracked, remote, base, child, dirty>>
    <3>1. backend # "jj" /\ {} \in Commits
      BY <2>1 DEF BranchInv, Here, PlaceOfRequest, Commits
    <3>2. WorldFits'
      BY <2>2, <3>1 DEF BranchInv, WorldFits, Commits, Mutation!ForbiddenStaysOut
    <3>3. QED
      BY <2>1, <2>2, <3>2, Ends DEF Mutation!Kinds
  <2>3. QED
    BY <1>6, <2>1, <2>2, EndsHere DEF Mutation!DeleteBranch, Mutation!Kinds
<1>7. QED
  BY <1>1, <1>2, <1>3, <1>4, <1>5, <1>6
\* Whatever the user and others do.
LEMMA MovesHold == ASSUME BranchInv, Mutation!Move PROVE BranchInv'
<1>1. Mutation!Moved
  BY DEF Mutation!Move, Mutation!UserSwitches, Mutation!UserCommits, Mutation!UserEdits, Mutation!OthersPush
<1>2. CASE Mutation!UserSwitches
  <2>1. /\ at # "gone" /\ at' \in {"pr", "other"}
        /\ UNCHANGED <<backend, colocated, local, other, tracked, remote, base, child, dirty>>
    BY <1>2 DEF Mutation!UserSwitches
  <2>2. WorldFits'
    BY <2>1 DEF BranchInv, WorldFits, Mutation!ForbiddenStaysOut, Mutation!Places
  <2>3. QED
    BY <1>1, <2>1, <2>2, Moves
<1>3. CASE Mutation!UserCommits
  <2>1. Mutation!Commit({"user"}) /\ {"user"} \in SUBSET Mutation!Works /\ "secret" \notin {"user"}
    BY <1>3 DEF Mutation!UserCommits, Mutation!Works
  <2>2. QED
    BY <1>1, <2>1, CommitFits, Moves
<1>4. CASE Mutation!UserEdits
  <2>1. /\ dirty' = dirty \cup {"user"}
        /\ UNCHANGED <<backend, colocated, at, local, other, tracked, remote, base, child>>
    BY <1>4 DEF Mutation!UserEdits
  <2>2. WorldFits'
    BY <2>1 DEF BranchInv, WorldFits, Commits, Mutation!ForbiddenStaysOut, Mutation!Works
  <2>3. QED
    BY <1>1, <2>1, <2>2, Moves
<1>5. CASE Mutation!OthersPush
  <2>1. /\ remote' \in {remote, remote \cup {"theirs"}}
        /\ UNCHANGED <<backend, colocated, at, local, other, tracked, dirty>>
    BY <1>5 DEF Mutation!OthersPush
  <2>2. WorldFits'
    BY <2>1 DEF BranchInv, WorldFits, Commits, Mutation!ForbiddenStaysOut, Mutation!Works
  <2>3. QED
    BY <1>1, <2>1, <2>2, Moves
<1>6. QED
  BY <1>2, <1>3, <1>4, <1>5 DEF Mutation!Move

\* Every step of a request, of the user and of others leaves the branch as the run takes it.
LEMMA BranchHolds == ASSUME BranchInv, Mutation!Next PROVE BranchInv'
<1>1. \/ Mutation!Preflight \/ Mutation!OpenCheckout \/ Mutation!CaptureWorkstream
      \/ Mutation!OpenMutationWorkstream \/ Mutation!FetchRemoteHead \/ Mutation!OpenGuard
      => BranchInv'
  BY OpeningHolds
<1>2. \/ Mutation!Fixer \/ Mutation!AssertUnchanged \/ Mutation!RestorePaths \/ Mutation!Unchanged
      \/ Mutation!RecordGuard \/ Mutation!RecordPaths
      => BranchInv'
  BY FixHolds
<1>3. Mutation!Push \/ Mutation!PushFails \/ Mutation!DryRun \/ Mutation!Submit \/ Mutation!VerifySubmit => BranchInv'
  BY PublishHolds
<1>4. \/ Mutation!UpdateFails \/ Mutation!GitMerge \/ Mutation!JjFetchBase \/ Mutation!JjMerge
      \/ Mutation!GtRestack \/ Mutation!MergedGuard
      => BranchInv'
  BY UpdateHolds
<1>5. \/ \E kind \in {"fix", "base", "remove"} : Mutation!Begin(kind)
      \/ Mutation!Cancelled \/ Mutation!Abort
      \/ Mutation!InspectWorktree \/ Mutation!RemoveWorktree \/ Mutation!DeleteBranch
      => BranchInv'
  BY RequestHolds
<1>6. Mutation!Move => BranchInv'
  BY MovesHold
<1>7. QED
  BY <1>1, <1>2, <1>3, <1>4, <1>5, <1>6 DEF Mutation!Next

\* A part that does not move leaves what is said of it.
LEMMA BranchRests == ASSUME BranchInv, UNCHANGED branchVars PROVE BranchInv'
<1>1. /\ UNCHANGED <<backend, colocated, at, local, other, tracked, remote, base, child, dirty>>
      /\ UNCHANGED <<request, branchPc, target, seen, paths, outcome, effect, touched>>
  BY DEF branchVars
<1>2. WorldFits' /\ RunFits'
  BY <1>1 DEF BranchInv, WorldFits, RunFits, Mutation!ForbiddenStaysOut, Mutation!MutationIsHonest
<1>3. Here(branchPc)'
  BY <1>1
  DEF BranchInv, Here, PlaceOfRequest, EffectSoFar, RecordsWhatItMay, BranchIsKnown, ReplacesWhatItHolds, TopOfStack, Wanted
<1>4. QED
  BY <1>1, <1>2, <1>3 DEF BranchInv
\* No step takes a commit from the remote branch, drops uncommitted work with the worktree,
\* or the last copy of a commit with the branch; and with Graphite none rewrites a branch
\* below another.
Survives ==
  /\ remote \subseteq remote'
  /\ (at' = "gone" /\ at # "gone") => dirty = {}
  /\ (local \ local') \subseteq remote'

Spares ==
  (backend = "graphite" /\ local' # local /\ effect' = "local" /\ ~touched /\ at' # "gone") => ~child

Careful == Survives /\ Spares

\* Only the checkout changes.
LEMMA CarefulIfKept ==
  ASSUME UNCHANGED <<local, remote>>, at' = "gone" => at = "gone" PROVE Careful
BY DEF Careful, Survives, Spares

LEMMA CarefulIfSame == ASSUME UNCHANGED Mutation!world PROVE Careful
BY CarefulIfKept DEF Mutation!world

LEMMA CarefulFetch == ASSUME BranchInv, Mutation!Fetched PROVE Careful
BY FetchFits DEF Careful, Survives, Spares

LEMMA CarefulCommit ==
  ASSUME BranchInv, NEW works, Mutation!Commit(works),
         backend = "graphite" /\ effect' = "local" /\ ~touched /\ at # "gone" => ~child
  PROVE  Careful
BY DEF Careful, Survives, Spares, Mutation!Commit

LEMMA CarefulRequest ==
  ASSUME BranchInv, Mutation!Next, ~Mutation!Move PROVE Careful
<1> USE DEF Pcs, Unwritten, Opened
<1>1. \/ \E kind \in {"fix", "base", "remove"} : Mutation!Begin(kind)
      \/ Mutation!Preflight \/ Mutation!OpenCheckout \/ Mutation!CaptureWorkstream \/ Mutation!OpenMutationWorkstream
      \/ Mutation!OpenGuard \/ Mutation!AssertUnchanged \/ Mutation!Unchanged \/ Mutation!RecordGuard
      \/ Mutation!PushFails \/ Mutation!DryRun \/ Mutation!UpdateFails \/ Mutation!MergedGuard \/ Mutation!Cancelled
      \/ Mutation!InspectWorktree \/ Mutation!Abort
      => UNCHANGED Mutation!world
  BY DEF Mutation!Begin, Mutation!Preflight, Mutation!OpenCheckout, Mutation!CaptureWorkstream,
         Mutation!OpenMutationWorkstream, Mutation!OpenGuard, Mutation!AssertUnchanged, Mutation!Unchanged,
         Mutation!RecordGuard, Mutation!PushFails, Mutation!DryRun, Mutation!UpdateFails, Mutation!MergedGuard,
         Mutation!Cancelled, Mutation!InspectWorktree, Mutation!Abort
<1>2. Mutation!FetchRemoteHead \/ Mutation!JjFetchBase => Careful
  BY CarefulIfSame, CarefulFetch DEF Mutation!FetchRemoteHead, Mutation!JjFetchBase
<1>3. Mutation!Fixer \/ Mutation!RestorePaths => Careful
  BY CarefulIfSame, CarefulIfKept DEF Mutation!Fixer, Mutation!RestorePaths
<1>4. CASE Mutation!RecordPaths
  <2>1. branchPc = "record"
    BY <1>4 DEF Mutation!RecordPaths
  <2>2. backend = "graphite" /\ ~touched /\ at # "gone" => ~child
    BY <2>1 DEF BranchInv, Here, TopOfStack
  <2>3. Mutation!Commit(paths) \/ UNCHANGED Mutation!world
    BY <1>4 DEF Mutation!RecordPaths, Mutation!GitRecords, Mutation!JjSquashes, Mutation!GtModifies
  <2>4. QED
    BY <2>2, <2>3, CarefulCommit, CarefulIfSame
<1>5. CASE Mutation!Push
  <2>1. PICK commit : /\ Mutation!RemoteTakes(commit) /\ commit \in Commits /\ "secret" \notin commit
                      /\ backend = "git" \/ (backend = "jj" /\ commit = local /\ Mutation!BookmarkTarget)
    BY <1>5 DEF Mutation!Push, Mutation!GitPush, Mutation!JjPush, Mutation!Head, BranchInv, WorldFits, Mutation!ForbiddenStaysOut
  <2>2. QED
    BY <2>1, TakeFits DEF Careful, Survives, Spares
<1>6. CASE Mutation!Submit
  <2>1. branchPc = "submit"
    BY <1>6 DEF Mutation!Submit
  <2>2. /\ backend = "graphite" /\ tracked \subseteq local
        /\ local \in Commits /\ "secret" \notin local
    BY <2>1 DEF BranchInv, Here, ReplacesWhatItHolds, WorldFits, Mutation!ForbiddenStaysOut
  <2>3. Mutation!RemoteTakes(local) => Careful
    BY <2>2, TakeFits DEF Careful, Survives, Spares
  <2>4. QED
    BY <1>6, <2>3, CarefulIfSame DEF Mutation!Submit
<1>7. CASE Mutation!VerifySubmit
  BY <1>7, CarefulFetch, CarefulIfSame DEF Mutation!VerifySubmit
<1>8. CASE Mutation!GitMerge
  <2>1. Mutation!Commit({"base"}) => Careful
    BY <1>8, CarefulCommit DEF Mutation!GitMerge
  <2>2. QED
    BY <1>8, <2>1, CarefulIfSame, CarefulIfKept DEF Mutation!GitMerge
<1>9. CASE Mutation!GtRestack
  <2>1. branchPc = "opened"
    BY <1>9 DEF Mutation!GtRestack
  <2>2. backend = "graphite" /\ ~touched /\ at # "gone" => ~child
    BY <2>1 DEF BranchInv, Here, TopOfStack
  <2>3. Mutation!Commit({"base"}) => Careful
    BY <2>2, CarefulCommit
  <2>4. QED
    BY <1>9, <2>3, CarefulIfSame, CarefulIfKept DEF Mutation!GtRestack
<1>10. CASE Mutation!JjMerge
  <2>1. branchPc = "merge" /\ backend = "jj"
    BY <1>10 DEF Mutation!JjMerge, BranchInv, Here, PlaceOfRequest
  <2>2. Mutation!JjMerges \/ Mutation!JjConflicts => local \subseteq local' /\ UNCHANGED remote /\ (at' = "gone" => at = "gone")
    BY DEF Mutation!JjMerges, Mutation!JjConflicts
  <2>3. QED
    BY <1>10, <2>1, <2>2, CarefulIfSame DEF Mutation!JjMerge, Careful, Survives, Spares
<1>11. CASE Mutation!RemoveWorktree
  BY <1>11, CarefulIfSame DEF Mutation!RemoveWorktree, Careful, Survives, Spares
<1>12. CASE Mutation!DeleteBranch
  <2>1. branchPc = "delete" /\ UNCHANGED touched
    BY <1>12 DEF Mutation!DeleteBranch, Mutation!End
  <2>2. backend = "graphite" /\ ~touched /\ at # "gone" => ~child
    BY <2>1 DEF BranchInv, Here, EffectSoFar, TopOfStack
  <2>3. Mutation!BranchIsMerged => local \subseteq remote
    BY DEF Mutation!BranchIsMerged, BranchInv, WorldFits
  <2>4. QED
    BY <1>12, <2>2, <2>3, CarefulIfSame DEF Mutation!DeleteBranch, Careful, Survives, Spares
<1>13. QED
  BY <1>1, <1>2, <1>3, <1>4, <1>5, <1>6, <1>7, <1>8, <1>9, <1>10, <1>11, <1>12, CarefulIfSame DEF Mutation!Next

LEMMA CarefulMove == ASSUME BranchInv, Mutation!Move PROVE Careful
<1>1. Mutation!UserSwitches \/ Mutation!UserEdits => Careful
  BY CarefulIfKept DEF Mutation!UserSwitches, Mutation!UserEdits
<1>2. CASE Mutation!UserCommits
  <2>1. Mutation!Commit({"user"}) /\ UNCHANGED effect
    BY <1>2 DEF Mutation!UserCommits, Mutation!Moved
  <2>2. backend = "graphite" /\ effect' = "local" /\ ~touched /\ at # "gone" => ~child
    BY <2>1 DEF BranchInv, Here, TopOfStack
  <2>3. QED
    BY <2>1, <2>2, CarefulCommit
<1>3. Mutation!OthersPush => Careful
  BY DEF Mutation!OthersPush, Careful, Survives, Spares
<1>4. QED
  BY <1>1, <1>2, <1>3 DEF Mutation!Move

LEMMA CarefulStep == ASSUME BranchInv, Mutation!Next \/ UNCHANGED branchVars PROVE Careful
<1>1. UNCHANGED branchVars => Careful
  BY CarefulIfSame DEF branchVars, Mutation!world
<1>2. QED
  BY <1>1, CarefulRequest, CarefulMove
(* Readiness.                                                              *)

Snapshots ==
  [head : Heads \cup {NoHead}, open : BOOLEAN, draft : BOOLEAN, merge : Merges, threads : BOOLEAN,
   checks : Checks, checksOf : Heads \cup {NoHead}, wasOpen : BOOLEAN]

ReadyTypes ==
  /\ pr \in PullRequests /\ mode \in Modes
  /\ pc \in {"view", "read", "judge", "confirm", "work", "done"}
  /\ why \in Purposes /\ against \in Heads \cup {NoHead}
  /\ snap \in Snapshots
  /\ polls \in 0..PollLimit /\ aborted \in BOOLEAN
  /\ status \in Statuses /\ (pc = "done" <=> status # "running")
  /\ lastHead \in Heads \cup {NoHead} /\ changes \in 0..MaxChanges

\* A cycle is left as long as the run goes on; with threads there is one, and then only
\* the last observation.
CyclesAreLeft ==
  /\ cycle \in 0..DriveCycles
  /\ mode # "threads" /\ pc # "done" => cycle < DriveCycles
  /\ mode = "threads" => cycle <= 1
  /\ mode = "threads" /\ cycle = 1 /\ pc # "done" =>
       pc \in {"view", "read", "judge", "confirm"} /\ why \in {"threads", "settle"}

Confirming == {"recheck", "settle", "poll"}

\* The head that is to be confirmed is the one the observation before this one saw.
HeadIsTheSame ==
  /\ pc \in {"read", "judge", "confirm", "work"} => snap.head # NoHead
  /\ pc = "view" /\ why \in Confirming => against = snap.head /\ against # NoHead
  /\ pc \in {"read", "judge"} /\ why \in Confirming => against = lastHead /\ against # NoHead

\* A head never returns: the checks are of the head or of a later one.
ChecksAreLater ==
  /\ snap.head <= pr.head /\ snap.checksOf <= pr.head
  /\ pc = "judge" \/ status = "merge-ready" => snap.head <= snap.checksOf

ReadyInv == ReadyTypes /\ CyclesAreLeft /\ HeadIsTheSame /\ ChecksAreLater /\ ReadinessIsVerified

LEMMA ReadyIsTyped == ReadyInv => TypeOK
BY DEF ReadyInv, ReadyTypes, CyclesAreLeft, Snapshots, TypeOK

LEMMA ReadyInitHolds == ASSUME Init PROVE ReadyInv
<1> USE ReadinessAssumption DEF Heads, NoHead
<1>1. pr \in PullRequests /\ pr.head = 0 /\ pr.open
  BY DEF Init
<1>2. NoSnap \in Snapshots /\ snap = NoSnap
  BY DEF Init, NoSnap, Snapshots, Merges, Checks
<1>3. ReadyTypes
  <2>1. polls \in 0..PollLimit /\ changes \in 0..MaxChanges
    BY DEF Init
  <2>2. why \in Purposes /\ status \in Statuses /\ mode \in Modes
    BY DEF Init, Purposes, Statuses
  <2>3. against \in Heads \cup {NoHead} /\ lastHead \in Heads \cup {NoHead}
    BY DEF Init
  <2>4. aborted \in BOOLEAN /\ pc = "view" /\ status = "running"
    BY DEF Init
  <2>5. QED
    BY <1>1, <1>2, <2>1, <2>2, <2>3, <2>4 DEF ReadyTypes
<1>4. CyclesAreLeft
  BY DEF Init, CyclesAreLeft
<1>5. HeadIsTheSame
  BY DEF Init, HeadIsTheSame, Confirming
<1>6. ChecksAreLater
  BY <1>1 DEF Init, ChecksAreLater, NoSnap
<1>7. ReadinessIsVerified
  BY DEF Init, ReadinessIsVerified
<1>8. QED
  BY <1>3, <1>4, <1>5, <1>6, <1>7 DEF ReadyInv
\* What a run of the loop carries from one step to the next is of its kind.
LEMMA ReadyStepTypes ==
  ASSUME ReadyInv, Next PROVE ReadyTypes' /\ CyclesAreLeft'
<1> USE DEF ReadyInv, ReadyTypes, CyclesAreLeft, Purposes, Statuses, Stay, Judging, Finish, Observe, SettleRead
<1>1. pr' \in PullRequests /\ snap' \in Snapshots /\ lastHead' \in Heads \cup {NoHead}
  <2>1. pr.head < MaxHead => Pushed \in PullRequests
    <3>1. pr.head < MaxHead => pr.head + 1 \in Heads
      BY ReadinessAssumption DEF PullRequests, Heads
    <3>2. QED
      BY <3>1 DEF Pushed, PullRequests, Merges, Checks
  <2>2. pr' \in PullRequests
    <3>1. Work \/ MarkReady \/ Drift => pr' \in PullRequests
      BY <2>1 DEF Work, MarkReady, Drift, PullRequests
    <3>2. UNCHANGED pr => pr' \in PullRequests
      OBVIOUS
    <3>3. QED
      BY <3>1, <3>2
      DEF Next, Run, Abort, Change, ViewPR, ReadThreadsAndChecks, ObservationEnds, FirstCheck, SecondCheck, Refreshed,
          ConfirmEnds, Settled, SettledTerminal, SettleWaits, SettleContinues, Watch, Watched, WorkEnds, AfterThreads
  <2>3. snap' \in Snapshots /\ lastHead' \in Heads \cup {NoHead}
    <3>1. ViewPR \/ ReadThreadsAndChecks => snap' \in Snapshots /\ lastHead' \in Heads \cup {NoHead}
      BY DEF ViewPR, ReadThreadsAndChecks, Snapshots, PullRequests
    <3>2. UNCHANGED <<snap, lastHead>> => snap' \in Snapshots /\ lastHead' \in Heads \cup {NoHead}
      OBVIOUS
    <3>3. QED
      BY <3>1, <3>2
      DEF Next, Run, Abort, Change, Work, MarkReady, ObservationEnds, FirstCheck, SecondCheck, Refreshed,
          ConfirmEnds, Settled, SettledTerminal, SettleWaits, SettleContinues, Watch, Watched, WorkEnds, AfterThreads
  <2>4. QED
    BY <2>2, <2>3
<1> DEFINE Rest ==
      /\ mode' \in Modes
      /\ pc' \in {"view", "read", "judge", "confirm", "work", "done"}
      /\ why' \in Purposes /\ against' \in Heads \cup {NoHead}
      /\ polls' \in 0..PollLimit /\ aborted' \in BOOLEAN
      /\ status' \in Statuses /\ (pc' = "done" <=> status' # "running")
      /\ changes' \in 0..MaxChanges
<1> USE ReadinessAssumption DEF Snapshots
<1>2. ViewPR \/ ReadThreadsAndChecks \/ ObservationEnds \/ FirstCheck \/ SecondCheck => Rest /\ CyclesAreLeft'
  BY DEF ViewPR, ReadThreadsAndChecks, ObservationEnds, FirstCheck, SecondCheck
<1>3. Refreshed \/ MarkReady \/ ConfirmEnds \/ AfterThreads => Rest /\ CyclesAreLeft'
  BY DEF Refreshed, MarkReady, ConfirmEnds, AfterThreads
<1>4. Settled \/ SettledTerminal \/ SettleContinues => Rest /\ CyclesAreLeft'
  BY DEF Settled, SettledReady, SettledTerminal, SettleContinues
<1>5. SettleWaits => Rest /\ CyclesAreLeft'
  BY DEF SettleWaits, Poll
<1>6. Watch \/ Watched \/ WorkEnds => Rest /\ CyclesAreLeft'
  BY DEF Watch, Watched, WorkEnds
<1>7. Work => Rest /\ CyclesAreLeft'
  BY DEF Work, CycleLeft, MaxCycles, NoHead
<1>8. Abort \/ Change => Rest /\ CyclesAreLeft'
  <2>1. Abort => Rest /\ CyclesAreLeft'
    BY DEF Abort
  <2>2. Change => UNCHANGED <<mode, pc, why, against, polls, cycle, aborted, status>> /\ changes' \in 0..MaxChanges
    BY DEF Change
  <2>3. QED
    BY <2>1, <2>2
<1>9. Rest /\ CyclesAreLeft'
  BY <1>2, <1>3, <1>4, <1>5, <1>6, <1>7, <1>8 DEF Next, Run
<1>10. QED
  BY <1>1, <1>9 DEF ReadyTypes

\* What is observed is confirmed, and its checks are its own as long as it is the head.
LEMMA ReadyStepHeads ==
  ASSUME ReadyInv, Next PROVE HeadIsTheSame' /\ ChecksAreLater'
<1> DEFINE Kept == HeadIsTheSame' /\ ChecksAreLater'
<1> USE ReadinessAssumption
    DEF ReadyInv, ReadyTypes, HeadIsTheSame, ChecksAreLater, Confirming, Stay, Judging, Finish, Observe, SettleRead
<1>1. pr.head \in Heads /\ pr.head \in Int /\ pr.head # NoHead /\ snap.head \in Int /\ snap.checksOf \in Int
  BY DEF PullRequests, Snapshots, Heads, NoHead
<1>2. ViewPR \/ ReadThreadsAndChecks => Kept
  <2>1. CASE ViewPR
    <3>1. /\ snap'.head = pr.head /\ snap'.checksOf = snap.checksOf /\ lastHead' = snap.head
          /\ pc = "view" /\ pc' = "read" /\ status # "merge-ready" /\ UNCHANGED <<pr, why, against, status>>
      BY <2>1 DEF ViewPR, Snapshots
    <3>2. HeadIsTheSame'
      BY <1>1, <3>1
    <3>3. ChecksAreLater'
      <4>1. pc' # "judge" /\ status' # "merge-ready"
        BY <3>1
      <4>2. QED
        BY <1>1, <3>1, <4>1
    <3>4. QED
      BY <3>2, <3>3
  <2>2. CASE ReadThreadsAndChecks
    <3>1. /\ snap'.head = snap.head /\ snap'.checksOf = pr.head
          /\ pc = "read" /\ pc' = "judge" /\ UNCHANGED <<pr, why, against, status, lastHead>>
      BY <2>2 DEF ReadThreadsAndChecks, Snapshots
    <3>2. HeadIsTheSame'
      BY <1>1, <3>1
    <3>3. ChecksAreLater'
      BY <1>1, <3>1
    <3>4. QED
      BY <3>2, <3>3
  <2>3. QED
    BY <2>1, <2>2
<1>3. ObservationEnds \/ FirstCheck => Kept
  BY <1>1 DEF ObservationEnds, FirstCheck
<1>4. SecondCheck => Kept
  BY <1>1 DEF SecondCheck
<1>5. Refreshed \/ ConfirmEnds \/ AfterThreads => Kept
  BY <1>1 DEF Refreshed, ConfirmEnds, AfterThreads
<1>6. MarkReady => Kept
  BY <1>1 DEF MarkReady, PullRequests
<1>7. Settled \/ SettledTerminal \/ SettleContinues => Kept
  BY <1>1 DEF Settled, SettledReady, SettledTerminal, SettleContinues
<1>8. SettleWaits => Kept
  BY <1>1 DEF SettleWaits, Poll
<1>9. Watch \/ Watched \/ WorkEnds => Kept
  BY <1>1 DEF Watch, Watched, WorkEnds
<1>10. pr' = Pushed => pr'.head = pr.head + 1
  BY DEF Pushed, PullRequests
<1>11. Work => Kept
  BY <1>1, <1>10 DEF Work, Heads
<1>12. Drift => pr'.head >= pr.head
  BY <1>1, <1>10 DEF Drift, PullRequests, Heads
<1>13. Abort => Kept
  BY <1>1 DEF Abort
<1>14. Change => Kept
  <2>1. pr' \in PullRequests
    BY ReadyStepTypes
  <2>2. QED
    BY <1>1, <1>12, <2>1 DEF Change, PullRequests, Heads
<1>15. QED
  BY <1>2, <1>3, <1>4, <1>5, <1>6, <1>7, <1>8, <1>9, <1>11, <1>13, <1>14 DEF Next, Run

\* A run reports ready at the second look at one head, and stays with what it saw.
LEMMA ReadyStepVerdict ==
  ASSUME ReadyInv, Next PROVE ReadinessIsVerified'
<1> USE DEF Stay, Judging, Finish, Observe, SettleRead
<1>1. CASE status' # "merge-ready"
  BY <1>1 DEF ReadinessIsVerified
<1>2. CASE status = "merge-ready"
  <2>1. pc = "done"
    BY <1>2 DEF ReadyInv, ReadyTypes
  <2>2. Change
    BY <2>1
    DEF Next, Run, Abort, ViewPR, ReadThreadsAndChecks, ObservationEnds, FirstCheck, SecondCheck, Refreshed, MarkReady,
        ConfirmEnds, Settled, SettledReady, SettledTerminal, SettleWaits, SettleContinues, Watch, Watched, Work, WorkEnds,
        AfterThreads
  <2>3. UNCHANGED <<snap, lastHead, status>> /\ pr'.head >= pr.head /\ pr.head \in Int /\ pr'.head \in Int
    <3>1. pr' = Pushed => pr'.head = pr.head + 1
      BY DEF Pushed, ReadyInv, ReadyTypes, PullRequests
    <3>2. pr.head \in Int /\ pr'.head \in Int
      BY ReadyStepTypes DEF ReadyInv, ReadyTypes, PullRequests, Heads
    <3>3. QED
      BY <2>2, <3>1, <3>2 DEF Change, Drift, ReadyInv, ReadyTypes, PullRequests
  <2>4. snap.head \in Int /\ snap.checksOf \in Int /\ snap.head <= snap.checksOf /\ snap.checksOf <= pr.head
    BY <1>2 DEF ReadyInv, ReadyTypes, ChecksAreLater, Snapshots, Heads, NoHead
  <2>5. QED
    BY <1>2, <2>3, <2>4 DEF ReadyInv, ReadinessIsVerified
<1>3. CASE status # "merge-ready" /\ status' = "merge-ready"
  <2>1. /\ pc = "judge" /\ why \in Confirming /\ MergeReady(snap)
        /\ UNCHANGED <<pr, snap, lastHead>>
    BY <1>3
    DEF Next, Run, Abort, Change, ViewPR, ReadThreadsAndChecks, ObservationEnds, FirstCheck, SecondCheck, Refreshed, MarkReady,
        ConfirmEnds, Settled, SettledReady, SettledTerminal, SettleWaits, SettleContinues, Poll, Watch, Watched, Work, WorkEnds,
        AfterThreads, Confirming
  <2>2. snap.head = against /\ against = lastHead /\ against # NoHead /\ snap.head <= snap.checksOf /\ snap.checksOf <= pr.head
    BY <2>1 DEF ReadyInv, HeadIsTheSame, ChecksAreLater, MergeReady, Verified
  <2>3. snap.head \in Int /\ snap.checksOf \in Int /\ pr.head \in Int
    BY DEF ReadyInv, ReadyTypes, Snapshots, PullRequests, Heads, NoHead
  <2>4. QED
    BY <2>1, <2>2, <2>3 DEF ReadinessIsVerified, MergeReady, ReadyButHead, CodeReady
<1>4. QED
  BY <1>1, <1>2, <1>3

LEMMA ReadyHolds == ASSUME ReadyInv, Next PROVE ReadyInv'
BY ReadyStepTypes, ReadyStepHeads, ReadyStepVerdict DEF ReadyInv

LEMMA ReadyRests == ASSUME ReadyInv, UNCHANGED vars PROVE ReadyInv'
BY DEF vars, ReadyInv, ReadyTypes, CyclesAreLeft, HeadIsTheSame, ChecksAreLater, ReadinessIsVerified
(* Autopilot.                                                              *)

LEMMA AutopilotInitHolds == AutopilotInit => BranchInv /\ ReadyInv
BY BranchInitHolds, ReadyInitHolds DEF AutopilotInit

\* One part moves, and the other stays as it is.
LEMMA OnePartMoves ==
  ASSUME [AutopilotNext]_autopilotVars
  PROVE  /\ Mutation!Next \/ UNCHANGED branchVars
         /\ Next \/ UNCHANGED vars
BY DEF AutopilotNext, autopilotVars

\* The branch and what is known of it, for every number of requests and of moves by others.
THEOREM BranchInductive == AutopilotSpec => []BranchInv
<1>1. AutopilotInit => BranchInv
  BY AutopilotInitHolds
<1>2. BranchInv /\ [AutopilotNext]_autopilotVars => BranchInv'
  BY OnePartMoves, BranchHolds, BranchRests
<1>3. QED
  BY <1>1, <1>2, PTL DEF AutopilotSpec

\* The observations of a run, for every number of heads, changes, cycles and polls.
THEOREM ReadyInductive == AutopilotSpec => []ReadyInv
<1>1. AutopilotInit => ReadyInv
  BY AutopilotInitHolds
<1>2. ReadyInv /\ [AutopilotNext]_autopilotVars => ReadyInv'
  BY OnePartMoves, ReadyHolds, ReadyRests
<1>3. QED
  BY <1>1, <1>2, PTL DEF AutopilotSpec

\* The variables of both parts are of their kinds.
THEOREM AutopilotTypeCorrect == AutopilotSpec => []AutopilotTypeOK
<1>1. BranchInv /\ ReadyInv => AutopilotTypeOK
  BY BranchTypes, ReadyIsTyped DEF AutopilotTypeOK
<1>2. QED
  BY <1>1, BranchInductive, ReadyInductive, PTL

\* A run reports merge-ready after two observations of one head, with checks of that head
\* as long as it is the head; what a fix, a base update or a removal reports is what became
\* of the branch; and no forbidden path gets onto a branch.
THEOREM VerdictsHold == AutopilotSpec => []VerdictsAreTrue
<1>1. BranchInv /\ ReadyInv => VerdictsAreTrue
  BY DEF BranchInv, WorldFits, RunFits, ReadyInv, VerdictsAreTrue
<1>2. QED
  BY <1>1, BranchInductive, ReadyInductive, PTL

\* No request takes a commit from the remote branch, drops uncommitted work or the last copy
\* of a commit, or rewrites a branch below another, whatever the user and others do.
THEOREM WorkIsKept == AutopilotSpec => BranchesSurvive
<1>1. BranchInv /\ [AutopilotNext]_autopilotVars => Survives /\ Spares
  BY OnePartMoves, CarefulStep DEF Careful
<1>2. BranchInv /\ [AutopilotNext]_autopilotVars =>
        /\ [/\ remote \subseteq remote'
            /\ (at' = "gone" /\ at # "gone") => dirty = {}
            /\ (local \ local') \subseteq remote']_(Mutation!mutationVars)
        /\ [(backend = "graphite" /\ local' # local /\ effect' = "local" /\ ~touched /\ at' # "gone")
              => ~child]_(Mutation!mutationVars)
  BY <1>1 DEF Survives, Spares
<1>3. QED
  BY <1>2, BranchInductive, PTL DEF AutopilotSpec, BranchesSurvive, Mutation!WorkSurvives, Mutation!NoChildIsStranded
==============================================================================
