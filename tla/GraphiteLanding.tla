--------------------------- MODULE GraphiteLanding ---------------------------
(***************************************************************************)
(* Landing a Graphite stack: extensions/graphite-stacked-prs/landing.ts.    *)
(*                                                                         *)
(* The PRs from the trunk to the target are found on GitHub, PR Autopilot *)
(* proves each of them ready, the plan is made twice (before the dialog and *)
(* under the lock), and one `gt merge' asks Graphite for all of them.       *)
(* Graphite merges on its own time, whatever the heads are by then, and the *)
(* run only watches.  One inspection is one step; refs, PR numbers and URLs *)
(* are the number of the slice.                                            *)
(***************************************************************************)
EXTENDS Integers, Sequences

CONSTANTS
  N,        \* the slices of the local stack, 1 at the bottom
  MaxDrift  \* bound: changes made by others

Slices == 1..N
Trunk == 0
Fixed == 1    \* a head that PR Autopilot pushed, on the branch and those above it
Foreign == 2  \* a head that somebody else pushed
Unknown == -1

VARIABLES
  top,      \* the PR to land
  prs,         \* GitHub: state, head and base of each slice's PR
  tips,        \* the local head of each slice's branch
  checkedOut,  \* the branch checked out; Trunk if none of the stack's
  unpublished, \* there is a local branch without a PR above the top slice
  prefix,      \* the PRs of the first inspection, the bottom first
  verified,    \* readinessEvidence: the head PR Autopilot proved ready
  phase, report,
  queue,       \* the PRs Graphite was asked to merge and has not merged
  asked,       \* gt merge ran
  watched,    \* what waitForMerge found of each PR
  moves        \* changes made by others so far

graphiteVars == <<top, prs, tips, checkedOut, unpublished, prefix, verified, phase, report,
                  queue, asked, watched, moves>>
world == <<prs, tips, checkedOut, unpublished, moves>>
request == <<top, prefix, verified, asked, watched>>

Open(s) == prs[s].state \in {"open", "draft"}

Init ==
  /\ top \in Slices
  /\ prs = [s \in Slices |-> [state |-> "open", head |-> 0, onto |-> s - 1]]
  /\ tips = [s \in Slices |-> 0]
  /\ checkedOut \in {Trunk, top}
  /\ unpublished \in BOOLEAN
  /\ prefix = <<>> /\ verified = [s \in Slices |-> Unknown]
  /\ phase = "inspecting" /\ report = "none"
  /\ queue = {} /\ asked = FALSE
  /\ watched = [s \in Slices |-> "unseen"]
  /\ moves = 0

Return(r) == phase' = "done" /\ report' = r
Goto(p) == phase' = p /\ UNCHANGED report
----------------------------------------------------------------------------
(* What an inspection reads.                                               *)

\* The open PRs from the trunk to the target, each with the one below as its base.
Chains == UNION {[1..n -> Slices] : n \in Slices}

IsPrefix(chain) ==
  /\ chain[Len(chain)] = top
  /\ \A i \in DOMAIN chain : Open(chain[i]) /\ prs[chain[i]].onto = (IF i = 1 THEN Trunk ELSE chain[i - 1])

HasChild == \E s \in Slices : Open(s) /\ prs[s].onto = top
LocalChildren == top < N \/ unpublished
Alone(chain) == Len(chain) = 1 /\ ~HasChild

\* gt knows the stack from its own records: the branches below the checked out one.
GtScope == {s \in 1..checkedOut : Open(s)}

NotAStack(chain) == IsPrefix(chain) /\ checkedOut = top /\ Alone(chain) /\ ~LocalChildren

Inspected(chain) ==
  /\ IsPrefix(chain) /\ checkedOut = top
  /\ Alone(chain) => LocalChildren
  /\ \A i \in DOMAIN chain : tips[chain[i]] = prs[chain[i]].head
----------------------------------------------------------------------------
(* The request.                                                            *)

\* A read fails, a method is asked for, a PR is not ready; the abort, the dialog, the lock.
Refuse ==
  /\ \/ phase \in {"inspecting", "readying", "planning", "replanning"} /\ Return("blocked")
     \/ phase \in {"planning", "confirming", "replanning"} /\ Return("cancelled")
     \/ phase = "confirming" /\ \E r \in {"declined", "busy"} : Return(r)
  /\ UNCHANGED <<world, request, queue>>

Inspect ==
  /\ phase = "inspecting"
  /\ \E chain \in Chains :
       \/ NotAStack(chain) /\ Return("not-stack") /\ UNCHANGED prefix
       \/ Inspected(chain) /\ prefix' = chain /\ Goto("readying")
  /\ UNCHANGED <<world, top, verified, asked, watched, queue>>

\* runAutopilot for the next PR.  Its fix moves the branch and restacks those above it.
Readying(s) ==
  /\ phase = "readying" /\ \E i \in 1..Len(prefix) : prefix[i] = s
  /\ verified[s] = Unknown
  /\ \A i, j \in 1..Len(prefix) : prefix[j] = s /\ i < j => verified[prefix[i]] # Unknown

AutopilotFixes(s) ==
  /\ Readying(s) /\ prs[s].head = 0
  /\ prs' = [t \in Slices |-> IF t >= s /\ prs[t].head = 0 THEN [prs[t] EXCEPT !.head = Fixed] ELSE prs[t]]
  /\ tips' = [t \in Slices |-> IF t >= s THEN Fixed ELSE tips[t]]
  /\ UNCHANGED <<checkedOut, unpublished, moves, request, phase, report, queue>>

SameBase(s) == \E i \in 1..Len(prefix) :
  prefix[i] = s /\ prs[s].onto = (IF i = 1 THEN Trunk ELSE prefix[i - 1])

AutopilotProves(s) ==
  /\ Readying(s) /\ prs[s].state = "open" /\ SameBase(s)
  /\ verified' = [verified EXCEPT ![s] = prs[s].head]
  /\ IF s = top THEN Goto("planning") ELSE UNCHANGED <<phase, report>>
  /\ UNCHANGED <<world, top, prefix, asked, watched, queue>>

\* readinessChanged and the draft check.
MatchesEvidence ==
  \A i \in DOMAIN prefix : prs[prefix[i]].head = verified[prefix[i]] /\ prs[prefix[i]].state = "open"

\* gt merge --dry-run lists the PRs of the plan, in their order, and no others.
DryRunMatches ==
  /\ GtScope = {prefix[i] : i \in DOMAIN prefix}
  /\ \A i, j \in DOMAIN prefix : i < j => prefix[i] < prefix[j]

Plan ==
  /\ phase \in {"planning", "replanning"}
  /\ Inspected(prefix) /\ MatchesEvidence /\ DryRunMatches
  /\ Goto(IF phase = "planning" THEN "confirming" ELSE "merging")
  /\ UNCHANGED <<world, request, queue>>

\* The user agrees and the repository lock is taken.
Confirm ==
  /\ phase = "confirming" /\ Goto("replanning")
  /\ UNCHANGED <<world, request, queue>>
----------------------------------------------------------------------------
(* mergeGraphiteStack.                                                     *)

MergeAccepted ==
  /\ phase = "merging" /\ GtScope # {}
  /\ asked' = TRUE /\ queue' = GtScope
  /\ Goto("verifying")
  /\ UNCHANGED <<world, top, prefix, verified, watched>>

\* gt merge fails or throws after it was invoked.
MergeUncertain ==
  /\ phase = "merging"
  /\ asked' = TRUE /\ (queue' = GtScope \/ queue' = {})
  /\ Return("indeterminate")
  /\ UNCHANGED <<world, top, prefix, verified, watched>>

InPlan(s) == \E i \in 1..Len(prefix) : prefix[i] = s

\* The last snapshot of waitForMerge.
Settlement(s) ==
  IF prs[s].head # verified[s] \/ prs[s].state = "closed" THEN "blocked"
  ELSE IF prs[s].state = "merged" THEN "landed" ELSE "queued"

\* The PRs are polled side by side; a poll may fail.
WaitForMerge(s) ==
  /\ phase = "verifying" /\ InPlan(s) /\ watched[s] = "unseen"
  /\ \E found \in {Settlement(s), "blocked"} : watched' = [watched EXCEPT ![s] = found]
  /\ UNCHANGED <<world, top, prefix, verified, asked, phase, report, queue>>

\* gt sync follows when all have landed; its failure is a warning.
Settle ==
  /\ phase = "verifying" /\ \A s \in Slices : InPlan(s) => watched[s] # "unseen"
  /\ Return(IF \A s \in Slices : InPlan(s) => watched[s] = "landed" THEN "completed" ELSE "partial")
  /\ UNCHANGED <<world, request, queue>>
----------------------------------------------------------------------------
(* Graphite, the user and other people.                                    *)

run == <<request, phase, report>>

\* Graphite merges from the bottom, and may rebase the PRs above before it goes on.
GraphiteMerges(s) ==
  /\ s \in queue /\ prs[s].state = "open" /\ \A t \in queue : s <= t
  /\ queue' = queue \ {s}
  /\ \E head \in {0, Foreign} :
       prs' = [t \in Slices |->
         IF t = s THEN [prs[s] EXCEPT !.state = "merged"]
         ELSE IF t \in queue /\ Open(t) /\ head = Foreign THEN [prs[t] EXCEPT !.head = head, !.onto = Trunk]
         ELSE prs[t]]
  /\ UNCHANGED <<tips, checkedOut, unpublished, moves, run>>

Drift == phase # "done" /\ moves < MaxDrift /\ moves' = moves + 1 /\ UNCHANGED <<run, queue>>

OthersPush(s) ==
  /\ Drift /\ Open(s) /\ prs' = [prs EXCEPT ![s].head = Foreign]
  /\ UNCHANGED <<tips, checkedOut, unpublished>>

OthersSettle(s) ==
  /\ Drift /\ Open(s)
  /\ \E state \in {"merged", "closed", "draft"} :
       prs' = [prs EXCEPT ![s].state = state]
  /\ UNCHANGED <<tips, checkedOut, unpublished>>

OthersRetarget(s, base) ==
  /\ Drift /\ Open(s) /\ base # s /\ prs' = [prs EXCEPT ![s].onto = base]
  /\ UNCHANGED <<tips, checkedOut, unpublished>>

UserChecksOut(s) ==
  /\ Drift /\ checkedOut' = s
  /\ UNCHANGED <<prs, tips, unpublished>>

UserCommits(s) ==
  /\ Drift /\ tips' = [tips EXCEPT ![s] = Foreign]
  /\ UNCHANGED <<prs, checkedOut, unpublished>>

Next ==
  \/ Refuse \/ Inspect \/ Plan \/ Confirm \/ MergeAccepted \/ MergeUncertain \/ Settle
  \/ \E s \in Slices :
       \/ AutopilotFixes(s) \/ AutopilotProves(s) \/ WaitForMerge(s)
       \/ GraphiteMerges(s) \/ OthersPush(s) \/ OthersSettle(s) \/ UserCommits(s)
       \/ \E base \in 0..N : OthersRetarget(s, base)
  \/ \E s \in 0..N : UserChecksOut(s)

Spec == Init /\ [][Next]_graphiteVars
----------------------------------------------------------------------------
TypeOK ==
  /\ top \in Slices /\ checkedOut \in 0..N /\ {unpublished, asked} \subseteq BOOLEAN
  /\ prs \in [Slices -> [state : {"open", "draft", "merged", "closed"}, head : 0..2, onto : 0..N]]
  /\ tips \in [Slices -> 0..2] /\ verified \in [Slices -> -1..2]
  /\ prefix \in Seq(Slices)
  /\ phase \in {"inspecting", "readying", "planning", "confirming", "replanning", "merging",
                "verifying", "done"}
  /\ report \in {"none", "not-stack", "blocked", "cancelled", "declined", "busy", "indeterminate",
                 "partial", "completed"}
  /\ queue \subseteq Slices /\ moves \in 0..MaxDrift
  /\ watched \in [Slices -> {"unseen", "landed", "queued", "blocked"}]

\* A PR is reported landed only if it was merged at the head PR Autopilot proved
\* ready; an outcome that promises that nothing was merged is given only when
\* Graphite was not asked.  gt merge pins no head, so a later head may be merged:
\* it is never reported landed.
OutcomeIsHonest ==
  /\ \A s \in Slices :
       watched[s] = "landed" => prs[s].state = "merged" /\ prs[s].head = verified[s]
  /\ report = "completed" => \A s \in Slices : InPlan(s) => prs[s].state = "merged"
  /\ report \in {"not-stack", "blocked", "cancelled", "declined", "busy"} => ~asked
=============================================================================
