------------------------------ MODULE Autopilot -----------------------------
(***************************************************************************)
(* PR autopilot on one pull request: what decides that it is ready          *)
(* (PrReadiness), and how a fix or the base gets onto its branch            *)
(* (PrMutation).  What a cycle answers and reruns is ReviewHandling's.      *)
(*                                                                         *)
(* Between the two the driver only passes on the head of its snapshot and  *)
(* the kind of result, which each takes as any the other can have; so a    *)
(* behaviour is that of one of them.                                       *)
(***************************************************************************)
EXTENDS PrReadiness

CONSTANTS
  MaxRequests, MaxMoves  \* PrMutation

VARIABLES
  part,
  \* PrMutation
  backend, colocated, at, local, other, tracked, remote, base, child, dirty, request, branchPc,
  target, seen, paths, outcome, effect, touched, branchAborted, moves, requests

Mutation == INSTANCE PrMutation WITH
  pc <- branchPc, aborted <- branchAborted

branchVars == <<backend, colocated, at, local, other, tracked, remote, base, child, dirty, request, branchPc,
  target, seen, paths, outcome, effect, touched, branchAborted, moves, requests>>
autopilotVars == <<part, vars, branchVars>>

\* One initial state each, for the parts that do not move.
IdleObserve == pr = [head |-> 0, open |-> TRUE, draft |-> FALSE, merge |-> "clean",
                threads |-> FALSE, checks |-> "green"] /\ mode = "check"
IdleMutate == backend = "git" /\ base = FALSE

AutopilotInit ==
  /\ part \in {"observe", "mutate"}
  /\ IF part = "observe" THEN TRUE ELSE IdleObserve
  /\ IF part = "mutate" THEN TRUE ELSE IdleMutate
  /\ Init /\ Mutation!Init

AutopilotNext ==
  \/ part = "observe" /\ Next /\ UNCHANGED <<part, branchVars>>
  \/ part = "mutate" /\ Mutation!Next /\ UNCHANGED <<part, vars>>

\* Every gh command has a timeout and the user answers or aborts a dialog.
AutopilotFairness == WF_vars(part = "observe" /\ Run)

AutopilotSpec == AutopilotInit /\ [][AutopilotNext]_autopilotVars /\ AutopilotFairness
-----------------------------------------------------------------------------
\* The variables of both parts.
AutopilotTypeOK == TypeOK /\ Mutation!TypeOK

\* Merge-ready means two observations of one head; and the result of a mutation is what
\* became of the branch, onto which no forbidden path gets.
VerdictsAreTrue ==
  /\ ReadinessIsVerified
  /\ Mutation!MutationIsHonest /\ Mutation!ForbiddenStaysOut

\* Nobody's commits or uncommitted work are lost, and no branch on top is stranded.
BranchesSurvive == Mutation!WorkSurvives /\ Mutation!NoChildIsStranded

\* Every run of the loop ends.
AutopilotRunEnds == (part = "observe") => RunEnds
=============================================================================
