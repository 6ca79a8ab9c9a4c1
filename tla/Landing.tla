------------------------------ MODULE Landing ------------------------------
(***************************************************************************)
(* /land: routeLand of extensions/land/routing.ts.  With no stack provider, *)
(* or a PR that is in no stack, Land merges the PR itself (FrontierLand);   *)
(* otherwise the request goes over kstack:stack:land-through-pr and the     *)
(* provider of the configured backend, and no other, claims it             *)
(* (GitHubLanding, GraphiteLanding or JjLanding).  The parts of the routes not taken keep    *)
(* an initial state.                                                       *)
(***************************************************************************)
EXTENDS FrontierLand

CONSTANTS
  N,         \* slices of a stack
  Width,     \* slices of a Graphite stack
  MaxAborts  \* bound: aborts of a stack landing

ASSUME StackAssumption == N \in Nat \ {0, 1} /\ Width \in Nat \ {0} /\ MaxAborts \in Nat

VARIABLES
  route,   \* who lands
  \* GitHubLanding
  selected, remoteHeads, base, state, merge, localHeads, index, stackPc, stackStatus,
  stackAborted, alreadyMerged, pin, pinBase, landed, recorded, recovery, rebased, changed,
  strayed, stackDrift, aborts,
  \* JjLanding
  kind, size, pull, branch, drafts, linked, queued, revs, premerged, drafted, step, at, result,
  exit, mutated, opId, left, told, ours, taken, disturbed,
  \* GraphiteLanding
  top, prs, tips, checkedOut, unpublished, prefix, verified, phase, report, queue, asked, watched, moves

GitHub == INSTANCE GitHubLanding WITH
  remote <- remoteHeads, local <- localHeads, pc <- stackPc, status <- stackStatus,
  aborted <- stackAborted, retargeted <- strayed, drift <- stackDrift

Jj == INSTANCE JjLanding

Graphite == INSTANCE GraphiteLanding WITH N <- Width

githubVars == <<selected, remoteHeads, base, state, merge, localHeads, index, stackPc, stackStatus,
  stackAborted, alreadyMerged, pin, pinBase, landed, recorded, recovery, rebased, changed,
  strayed, stackDrift, aborts>>
jjVars == <<kind, size, pull, branch, drafts, linked, queued, revs, premerged, drafted, step, at,
  result, exit, mutated, opId, left, told, ours, taken, disturbed>>
graphiteVars == <<top, prs, tips, checkedOut, unpublished, prefix, verified, phase, report, queue,
  asked, watched, moves>>
landVars == <<route, vars, githubVars, jjVars, graphiteVars>>

\* One initial state each, for the routes not taken.
IdleSingle == mode = "policy" /\ pr =
  [state |-> "CLOSED", head |-> CHOOSE c \in Commits : TRUE, base |-> CHOOSE b \in Bases : TRUE,
   draft |-> TRUE]
IdleGitHub == selected = 1 /\ alreadyMerged = {}
IdleGraphite == top = 1 /\ checkedOut = 0 /\ unpublished = FALSE
IdleJj == kind = "single" /\ premerged = {} /\ drafted = {}

LandInit ==
  /\ route \in {"single", "github", "jj", "graphite"}
  /\ IF route = "single" THEN TRUE ELSE IdleSingle
  /\ IF route = "github" THEN TRUE ELSE IdleGitHub
  /\ IF route = "jj" THEN TRUE ELSE IdleJj
  /\ IF route = "graphite" THEN TRUE ELSE IdleGraphite
  /\ Init /\ GitHub!Init /\ Jj!Init /\ Graphite!Init

\* claimStackLanding: a provider leaves requests for another one alone.
Claims(provider) == route = provider

LandNext ==
  \/ Claims("single") /\ Next /\ UNCHANGED <<route, githubVars, jjVars, graphiteVars>>
  \/ Claims("github") /\ GitHub!Next /\ UNCHANGED <<route, vars, jjVars, graphiteVars>>
  \/ Claims("jj") /\ Jj!Next /\ UNCHANGED <<route, vars, githubVars, graphiteVars>>
  \/ Claims("graphite") /\ Graphite!Next /\ UNCHANGED <<route, vars, githubVars, jjVars>>

LandSpec == LandInit /\ [][LandNext]_landVars
----------------------------------------------------------------------------
\* The variables of every route.
LandTypeOK ==
  route \in {"single", "github", "jj", "graphite"} /\ TypeOK /\ GitHub!TypeOK /\ Jj!TypeOK
  /\ Graphite!TypeOK

\* The stacks: the statuses of an outcome mean what the stack README says of them.
OutcomeIsHonest ==
  GitHub!OutcomeIsHonest /\ Jj!OutcomeIsHonest /\ Graphite!OutcomeIsHonest

\* GitHub: what the run merges goes into the trunk, after every slice below it, and
\* no branch is deleted that an open PR had as its base when the run last read or set
\* it.  PRs that others retarget in between are excepted.
StackStaysWhole == []GitHub!LandsInOrder /\ GitHub!NoChildIsOrphaned

\* GitHub: commits that others pushed are neither overwritten nor deleted.
ForeignWorkSurvives == GitHub!ForeignWorkSurvives

\* Jj: local changes are abandoned only when all of their PRs are merged at the pinned
\* heads, amended or not, and a remote branch is deleted only at the merged head.
AbandonsOnlyAfterMerge == Jj!AbandonsOnlyAfterMerge

\* Jj: /land says that GitHub took a merge request whenever it did.
AcceptedIsReported == Jj!AcceptedIsReported
=============================================================================
