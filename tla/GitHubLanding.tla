---------------------------- MODULE GitHubLanding ----------------------------
(***************************************************************************)
(* Landing the bottom of a stack of GitHub PRs: runLandingLoop of          *)
(* extensions/github-stacked-prs/landing.ts with the settlement of         *)
(* extensions/land/frontier-settlement.ts.                                 *)
(*                                                                         *)
(* For each slice, bottom first, the run lets Land merge the PR, verifies  *)
(* the merge, rebases the rest of the stack onto the new trunk, pushes it  *)
(* with leases, points the next PR at the trunk and deletes the merged     *)
(* branch.  It trusts the bases it pinned.  Planning, confirmation and the *)
(* lock are StackTransaction's; what Land answers for one PR is            *)
(* FrontierLand's ReportIsHonest, and a draft is Land's to refuse.         *)
(* A head is the number of rebases it went through, or a commit of others. *)
(***************************************************************************)
EXTENDS Integers, FiniteSets

CONSTANTS
  N,         \* the slices of the stack, 1 at the bottom
  MaxDrift,  \* bound: changes made by others
  MaxAborts  \* bound: aborts by the user

Slices == 1..N
Trunk == 0
Gone == -1
Foreign == -2
Edited == -3
Heads == -3..N
NotMerged == [head |-> Gone, into |-> -1, ours |-> FALSE]
Merges == [head : Heads, into : 0..N, ours : BOOLEAN]

VARIABLES
  selected,  \* the slices 1..selected are to be landed
  remote,    \* the remote head of each slice's branch
  base,      \* the base of each PR: Trunk or a slice
  state,     \* the state of each PR on GitHub
  merge,     \* how each PR was merged
  local,     \* the local head of each branch
  index,     \* the slice that is the frontier
  pc, status, aborted,
  alreadyMerged, \* the slices whose PR the plan found merged
  pin,       \* pr.headCommitId and localSha of each entry
  pinBase,   \* pr.baseRef of each entry
  landed,    \* the slices among the frontiers that the loop finished
  recorded,  \* completedMutations is not empty
  recovery,  \* recoveryOperationIds, as pairs of a slice and a head
  rebased,   \* the heads that verifyRebasedScope returned
  changed,   \* the run changed the remote or a local branch
  retargeted,  \* history: PRs whose base others changed since the run last read or set it
  drift, aborts

vars == <<selected, remote, base, state, merge, local, index, pc, status, aborted,
          alreadyMerged, pin, pinBase, landed, recorded, recovery, rebased, changed,
          retargeted, drift, aborts>>

github == <<remote, base, state, merge>>
entries == <<selected, pin, pinBase, alreadyMerged>>
progress == <<landed, recorded, recovery>>
outside == <<aborted, retargeted, drift, aborts>>

Remainder == {s \in Slices : s > index}
Next1 == index + 1

\* A base that is not deleted.
Exists(b) == b \in Slices => remote[b] # Gone

\* The plan pins what it saw.  The bottom of the stack may have landed already,
\* and PRs may have been pointed at the trunk then; of the branches, only the
\* first may be missing here.
Init ==
  /\ selected \in Slices /\ \E k \in 0..N : alreadyMerged = 1..k
  /\ \E freed \in SUBSET {s \in Slices : s - 1 \in alreadyMerged} :
       base = [s \in Slices |-> IF s \in freed THEN Trunk ELSE s - 1]
  /\ \E cut \in SUBSET alreadyMerged : remote = [s \in Slices |-> IF s \in cut THEN Gone ELSE 0]
  /\ \A s \in Slices \ alreadyMerged : Exists(base[s])
  /\ \E cut \in SUBSET (alreadyMerged \cap {1}) : local = [s \in Slices |-> IF s \in cut THEN Gone ELSE 0]
  /\ state = [s \in Slices |-> IF s \in alreadyMerged THEN "merged" ELSE "open"]
  /\ merge = [s \in Slices |-> IF s \in alreadyMerged
                THEN [head |-> 0, into |-> base[s], ours |-> FALSE] ELSE NotMerged]
  /\ index = 1 /\ pc = "starting" /\ status = "none" /\ aborted = FALSE
  /\ pin = [s \in Slices |-> 0] /\ pinBase = base
  /\ landed = {} /\ recorded = FALSE /\ recovery = {}
  /\ rebased = local /\ changed = FALSE /\ retargeted = {}
  /\ drift = 0 /\ aborts = 0
----------------------------------------------------------------------------
Return(s) == pc' = "done" /\ status' = s

Goto(step) == pc' = step /\ UNCHANGED status

\* No frontier finished and nothing recorded: the run may report a clean end.
Untouched == landed = {} /\ ~recorded

\* The abort check and, above the bottom, a fresh look at the rebase scope.
StartFrontier ==
  /\ pc = "starting"
  /\ \/ aborted /\ Return(IF Untouched THEN "cancelled" ELSE "partial")
     \/ /\ ~aborted
        /\ index > 1 => \A t \in Remainder : local[t] = pin[t]
        /\ Goto(IF index \in alreadyMerged THEN "verifying" ELSE "landing")
     \/ ~aborted /\ index > 1 /\ Return(IF Untouched THEN "blocked" ELSE "partial")
  /\ UNCHANGED <<github, local, index, entries, progress, rebased, changed, outside>>
----------------------------------------------------------------------------
(* Land's answer for the frontier.                                         *)

LandingStep == UNCHANGED <<base, local, index, entries, landed, recovery, rebased, aborted, drift, aborts>>

\* The delegated request pins the head and the base; Land reads both last before it
\* asks for the merge.
LandReads ==
  /\ pc = "landing" /\ state[index] = "open" /\ remote[index] = pin[index] /\ base[index] = pinBase[index]
  /\ retargeted' = retargeted \ {index} /\ Goto("merging")
  /\ LandingStep /\ UNCHANGED <<remote, state, merge, recorded, changed>>

\* The merge request names the head, and no base.
Landable(s) == state[s] = "open" /\ remote[s] = pin[s] /\ Exists(base[s])

MergeOurs(s) ==
  /\ state' = [state EXCEPT ![s] = "merged"]
  /\ merge' = [merge EXCEPT ![s] = [head |-> remote[s], into |-> base[s], ours |-> TRUE]]
  /\ remote' = IF base[s] = Trunk THEN remote ELSE [remote EXCEPT ![base[s]] = Foreign]

LandLands ==
  /\ pc = "merging" /\ Landable(index)
  /\ MergeOurs(index) /\ recorded' = TRUE /\ changed' = TRUE
  /\ Goto("verifying")
  /\ LandingStep /\ UNCHANGED retargeted

\* Accepted, but not seen merged.
LandQueues ==
  /\ pc = "merging" /\ Landable(index)
  /\ \/ state' = [state EXCEPT ![index] = "queued"] /\ UNCHANGED <<remote, merge>>
     \/ MergeOurs(index)
  /\ recorded' = TRUE /\ changed' = TRUE
  /\ Return("partial")
  /\ LandingStep /\ UNCHANGED retargeted

LandIsUncertain ==
  /\ pc = "merging"
  /\ \/ Landable(index) /\ MergeOurs(index) /\ changed' = TRUE
     \/ UNCHANGED <<remote, state, merge, changed>>
  /\ Return("indeterminate")
  /\ LandingStep /\ UNCHANGED <<recorded, retargeted>>

\* Fault: settlements other than landed are reported by their own status.
LandRefusesPlainly ==
  /\ pc \in {"landing", "merging"}
  /\ \E s \in {"cancelled", "failed", "blocked"} : Return(s)
  /\ LandingStep /\ UNCHANGED <<remote, state, merge, recorded, changed, retargeted>>

\* Land answers aborted or declined, failed, or blocked, or is not there.
LandRefuses ==
  /\ pc \in {"landing", "merging"}
  /\ \/ ~recorded /\ \E s \in {"cancelled", "failed"} : Return(s)
     \/ Untouched /\ Return("blocked")
     \/ Return("partial")
  /\ LandingStep /\ UNCHANGED <<remote, state, merge, recorded, changed, retargeted>>
----------------------------------------------------------------------------
(* After the merge.  Each step may find something wrong and stop there.    *)

Stop ==
  /\ pc \in {"verifying", "advancing", "rebasing", "checking", "reading", "pushing", "repairing"}
  /\ Return("partial")
  /\ UNCHANGED <<github, local, index, entries, progress, rebased, changed, outside>>

\* verifyMergedFrontier, then the tips of the remainder become recovery handles.
Verify ==
  /\ pc = "verifying"
  /\ state[index] = "merged" /\ merge[index].head = pin[index]
  /\ recovery' = recovery \cup {<<t, pin[t]>> : t \in Remainder}
  /\ Goto("advancing")
  /\ UNCHANGED <<github, local, index, entries, landed, recorded, rebased, changed,
                 outside>>

\* The merge commit is on the fetched trunk; the rebase scope is as pinned.
InspectScope ==
  /\ pc = "advancing" /\ merge[index].into = Trunk
  /\ \/ Remainder = {} /\ Goto("cleaning")
     \/ /\ Remainder # {} /\ \A t \in Remainder : local[t] = pin[t]
        /\ Goto("rebasing")
  /\ UNCHANGED <<github, local, index, entries, progress, rebased, changed, outside>>

\* A commit that somebody made meanwhile stays on its branch.
Rewritten == [t \in Slices |-> IF t \in Remainder /\ local[t] >= 0 THEN index ELSE local[t]]

Rebase ==
  /\ pc = "rebasing"
  /\ local' = Rewritten /\ recorded' = TRUE /\ changed' = TRUE
  /\ Goto("checking")
  /\ UNCHANGED <<github, index, entries, landed, recovery, rebased, outside>>

\* A killed rebase may have rewritten the branches; rebase --abort has no effect then.
RebaseKilled ==
  /\ pc = "rebasing"
  /\ local' = Rewritten /\ changed' = TRUE
  /\ Return("partial")
  /\ UNCHANGED <<github, index, entries, progress, rebased, outside>>

\* verifyRebasedScope: a branch below the top that did not move with the rest is
\* out of order.
CheckRebase ==
  /\ pc = "checking"
  /\ \A t \in Remainder : local[t] = index \/ (t = N /\ local[t] = Edited)
  /\ rebased' = local
  /\ Goto("reading")
  /\ UNCHANGED <<github, local, index, entries, progress, changed, outside>>

ReadRemotes ==
  /\ pc = "reading"
  /\ \A t \in Remainder : remote[t] = pin[t]
  /\ Goto("pushing")
  /\ UNCHANGED <<github, local, index, entries, progress, rebased, changed, outside>>

\* Fault: the push has no leases.
LeasesGiven == \A t \in Remainder : TRUE

\* git push --atomic with a lease on every branch.
LeasesHold == \A t \in Remainder : remote[t] = pin[t]

Pushed == [t \in Slices |-> IF t \in Remainder THEN rebased[t] ELSE remote[t]]

Push ==
  /\ pc = "pushing" /\ LeasesHold
  /\ remote' = Pushed /\ changed' = TRUE
  /\ pin' = [t \in Slices |-> IF t \in Remainder THEN rebased[t] ELSE pin[t]]
  /\ recorded' = TRUE
  /\ Goto("repairing")
  /\ UNCHANGED <<base, state, merge, local, index, selected, pinBase, alreadyMerged, landed, recovery,
                 rebased, outside>>

\* A killed push counts as one that failed.
PushKilled ==
  /\ pc = "pushing"
  /\ \/ LeasesHold /\ remote' = Pushed
     \/ UNCHANGED remote
  /\ changed' = TRUE
  /\ Return("partial")
  /\ UNCHANGED <<base, state, merge, local, index, entries, progress, rebased, outside>>

\* The base that a PR of the rest is to have.
TargetBase(t) == IF t = Next1 THEN Trunk ELSE t - 1

Unrepaired == {t \in Remainder : pinBase[t] # TargetBase(t)}

\* Fault: the PRs keep their bases.
RepairNothing ==
  /\ pc = "repairing"
  /\ Goto("cleaning")
  /\ UNCHANGED <<github, local, index, entries, progress, rebased, changed, outside>>

\* repairRemainderBases: bottom up, the PRs whose pinned base is not the one they
\* are to have.  Only the base of an open PR can be changed.
Repair ==
  /\ pc = "repairing"
  /\ \/ Unrepaired = {} /\ Goto("cleaning") /\ UNCHANGED <<base, pinBase, retargeted>>
     \/ \E t \in Unrepaired :
          /\ \A u \in Unrepaired : t <= u
          /\ state[t] \in {"open", "queued"}
          /\ base' = [base EXCEPT ![t] = TargetBase(t)]
          /\ pinBase' = [pinBase EXCEPT ![t] = TargetBase(t)]
          /\ retargeted' = retargeted \ {t}
          /\ UNCHANGED <<pc, status>>
  /\ UNCHANGED <<remote, state, merge, local, index, selected, pin, alreadyMerged, progress,
                 rebased, changed, aborted, drift, aborts>>

\* A killed command may have changed the base.
RepairKilled ==
  /\ pc = "repairing"
  /\ \E t \in Unrepaired : state[t] \in {"open", "queued"} /\ base' = [base EXCEPT ![t] = TargetBase(t)]
  /\ Return("partial")
  /\ UNCHANGED <<remote, state, merge, local, index, entries, progress, rebased, changed, outside>>

\* Compare-and-delete.
Deletable(b) == b[index] = pin[index]

\* cleanupMergedBranch only warns, and the loop goes on.
CleanUp ==
  /\ pc = "cleaning"
  /\ \/ Deletable(remote) /\ remote' = [remote EXCEPT ![index] = Gone]
     \/ UNCHANGED remote
  /\ \/ Deletable(local) /\ local' = [local EXCEPT ![index] = Gone]
     \/ UNCHANGED local
  /\ recorded' = (recorded \/ remote' # remote \/ local' # local)
  /\ changed' = (changed \/ remote' # remote \/ local' # local)
  /\ landed' = landed \cup {index}
  /\ IF index = selected THEN Return("completed") /\ UNCHANGED index
     ELSE index' = Next1 /\ Goto("starting")
  /\ UNCHANGED <<base, state, merge, entries, recovery, rebased, outside>>
----------------------------------------------------------------------------
(* The user, GitHub's queue and other people.                              *)

run == <<index, pc, status, entries, progress, rebased, changed>>

Abort ==
  /\ ~aborted /\ aborts < MaxAborts /\ aborted' = TRUE /\ aborts' = aborts + 1
  /\ UNCHANGED <<github, local, run, retargeted, drift>>

QueueMerges(s) ==
  /\ state[s] = "queued" /\ Exists(base[s]) /\ MergeOurs(s)
  /\ UNCHANGED <<base, local, run, outside>>

Drift == drift < MaxDrift /\ drift' = drift + 1 /\ UNCHANGED <<aborted, aborts>>

OutsiderPushes(s) ==
  /\ Drift /\ remote[s] # Gone
  /\ remote' = [remote EXCEPT ![s] = Foreign]
  /\ UNCHANGED <<base, state, merge, local, run, retargeted>>

OutsiderMerges(s) ==
  /\ Drift /\ state[s] = "open" /\ Exists(base[s])
  /\ state' = [state EXCEPT ![s] = "merged"]
  /\ merge' = [merge EXCEPT ![s] = [head |-> remote[s], into |-> base[s], ours |-> FALSE]]
  /\ remote' = IF base[s] = Trunk THEN remote ELSE [remote EXCEPT ![base[s]] = Foreign]
  /\ UNCHANGED <<base, local, run, retargeted>>

\* A PR that is retargeted leaves the merge queue.
OutsiderRetargets(s) ==
  /\ Drift /\ state[s] \in {"open", "queued"}
  /\ \E b \in {Trunk} \cup (Slices \ {s}) : b # base[s] /\ Exists(b) /\ base' = [base EXCEPT ![s] = b]
  /\ state' = [state EXCEPT ![s] = "open"] /\ retargeted' = retargeted \cup {s}
  /\ UNCHANGED <<remote, merge, local, run>>

OutsiderCloses(s) ==
  /\ Drift /\ state[s] \in {"open", "queued"} /\ state' = [state EXCEPT ![s] = "closed"]
  /\ UNCHANGED <<remote, base, merge, local, run, retargeted>>

OutsiderReopens(s) ==
  /\ Drift /\ state[s] = "closed" /\ Exists(base[s]) /\ state' = [state EXCEPT ![s] = "open"]
  /\ UNCHANGED <<remote, base, merge, local, run, retargeted>>

\* The user or an agent commits on a branch of the stack.
LocalCommit(s) ==
  /\ Drift /\ local[s] # Gone
  /\ local' = [local EXCEPT ![s] = Edited]
  /\ UNCHANGED <<github, run, retargeted>>

Next ==
  \/ StartFrontier \/ LandReads \/ LandLands \/ LandQueues \/ LandIsUncertain \/ LandRefuses
  \/ Stop \/ Verify \/ InspectScope \/ Rebase \/ RebaseKilled \/ CheckRebase \/ ReadRemotes
  \/ Push \/ PushKilled \/ Repair \/ RepairKilled \/ CleanUp
  \/ Abort
  \/ \E s \in Slices : \/ QueueMerges(s) \/ OutsiderPushes(s) \/ OutsiderMerges(s) \/ OutsiderRetargets(s)
                        \/ OutsiderCloses(s) \/ OutsiderReopens(s) \/ LocalCommit(s)

Spec == Init /\ [][Next]_vars
----------------------------------------------------------------------------
TypeOK ==
  /\ remote \in [Slices -> Heads] /\ local \in [Slices -> Heads]
  /\ base \in [Slices -> 0..N] /\ pinBase \in [Slices -> 0..N]
  /\ state \in [Slices -> {"open", "queued", "merged", "closed"}]
  /\ merge \in [Slices -> Merges \cup {NotMerged}]
  /\ selected \in Slices /\ index \in 1..selected
  /\ pc \in {"starting", "landing", "merging", "verifying", "advancing", "rebasing", "checking", "reading",
             "pushing", "repairing", "cleaning", "done"}
  /\ status \in {"none", "completed", "partial", "cancelled", "blocked", "failed", "indeterminate"}
  /\ alreadyMerged \subseteq Slices /\ retargeted \subseteq Slices
  /\ pin \in [Slices -> Heads] /\ rebased \in [Slices -> Heads]
  /\ landed \subseteq Slices /\ recovery \subseteq Slices \X Heads
  /\ {aborted, recorded, changed} \subseteq BOOLEAN
  /\ drift \in 0..MaxDrift /\ aborts \in 0..MaxAborts

\* What the run merges goes into the trunk, after every slice below it; a PR that
\* others retarget between Land's last read and the merge may go elsewhere, and the
\* run lands nothing after it.
LandsInOrder ==
  \A s \in Slices : merge[s].ours =>
    /\ merge[s].into = Trunk \/ s \in retargeted
    /\ \A r \in Slices : r < s => state[r] = "merged" /\ merge[r].into = Trunk

\* The run never deletes a branch that an open PR had as its base when the run last
\* read or set it.  One that others point at the branch meanwhile loses its base:
\* the run goes by the bases it pinned.
NoChildIsOrphaned ==
  [][ \A s, t \in Slices :
        remote[s] # Gone /\ remote'[s] = Gone /\ base[t] = s /\ state[t] \in {"open", "queued"}
          => t \in retargeted ]_vars

\* Commits that others pushed are neither overwritten nor deleted.
ForeignWorkSurvives ==
  [][ \A s \in Slices : remote[s] = Foreign => remote'[s] = Foreign ]_vars

\* completed means that the selected PRs are merged into the trunk and that the
\* rest was republished; cancelled, blocked and failed mean that nothing changed.
\* A tip that a rebase replaced is among the recovery handles of every outcome.
OutcomeIsHonest ==
  /\ status = "completed" =>
       /\ \A s \in 1..selected : state[s] = "merged" /\ merge[s].into = Trunk
       /\ \A t \in (selected + 1)..N : remote[t] \in {selected, Edited, Foreign}
       /\ selected < N => base[selected + 1] = Trunk \/ selected + 1 \in retargeted
  /\ status \in {"cancelled", "blocked", "failed"} => ~changed
  /\ \A s \in landed : state[s] = "merged"
  /\ \A s \in Slices : \A tip \in 0..(local[s] - 1) : <<s, tip>> \in recovery
=============================================================================
