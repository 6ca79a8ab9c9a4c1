------------------------------- MODULE Stacks -------------------------------
(***************************************************************************)
(* The stacks of a repository: what lands (Landing) and what is published   *)
(* with jj and Graphite.  JjPublication publishes what JjStack inspects,    *)
(* through the commands of ProcessRunner; GraphitePublication publishes a   *)
(* manifest.  StackNavigation keeps the stack's members on GitHub.  A        *)
(* publication of plain GitHub branches is GitHubPublication's.            *)
(*                                                                         *)
(* One operation moves a repository at a time (the publication lock), and   *)
(* all make the same promises: an outcome says what the remote took, and    *)
(* the work of others survives.  A behaviour is that of one part; the       *)
(* others keep an initial state.                                           *)
(***************************************************************************)
EXTENDS Landing

CONSTANTS
  ReadyForReview,        \* JjPublication: the PRs are to be ready for review
  MaxEvents,             \* JjPublication
  MaxMoves,              \* GraphitePublication
  Refs, MaxLine, MaxStack, \* JjStack
  MaxPr, MaxOthers, MaxRounds  \* StackNavigation

VARIABLES
  part,
  \* JjPublication
  upLocal, head, tracked, clash, broken, upPr, native, upPc, snap, upPlan, upQueue, completed,
  accepted, inFlight, upStatus, upAborted, moved, unread, events, unseen, sync,
  \* GraphitePublication
  astray, gtTips, heads, prOf, known, gtPhase, gtReport, gtAt, submit, sent, proven, gtMoves,
  \* JjStack
  line, odd, stackAsked, model, stackRequest,
  \* StackNavigation
  navMerged, navTop, comments, navStep, fetched, failed, table, todo, written, doubt, errors, lossy,
  navEvents, rounds,
  \* ProcessRunner
  child, pipes, effect, commandAborted, cancelled, timedOut, overflow, killStarted, grace,
  commandResult

JjUp == INSTANCE JjPublication WITH
  N <- Width, Ready <- ReadyForReview, local <- upLocal, pr <- upPr, pc <- upPc, plan <- upPlan,
  queue <- upQueue, status <- upStatus, aborted <- upAborted

GraphiteUp == INSTANCE GraphitePublication WITH
  N <- Width, tips <- gtTips, phase <- gtPhase, report <- gtReport, at <- gtAt, moves <- gtMoves

Inspection == INSTANCE JjStack WITH
  asked <- stackAsked, request <- stackRequest

Navigation == INSTANCE StackNavigation WITH
  MaxEvents <- MaxOthers, merged <- navMerged, top <- navTop, step <- navStep, events <- navEvents

Command == INSTANCE ProcessRunner WITH
  aborted <- commandAborted, result <- commandResult

\* Bounds are numbers, and no bookmark is the name that stands for none.
ASSUME StacksAssumption ==
  /\ MaxEvents \in Nat /\ MaxMoves \in Nat /\ MaxOthers \in Nat /\ MaxPr \in Nat \ {0}
  /\ MaxLine \in Nat /\ MaxStack \in Nat /\ Inspection!Missing \notin Refs

jjUpVars == <<upLocal, head, tracked, clash, broken, upPr, native, upPc, snap, upPlan, upQueue, completed,
  accepted, inFlight, upStatus, upAborted, moved, unread, events, unseen, sync>>
graphiteUpVars == <<astray, gtTips, heads, prOf, known, gtPhase, gtReport, gtAt, submit, sent, proven, gtMoves>>
stackVars == <<line, odd, stackAsked, model, stackRequest>>
navigationVars == <<navMerged, navTop, comments, navStep, fetched, failed, table, todo, written, doubt, errors, lossy,
  navEvents, rounds>>
commandVars == <<child, pipes, effect, commandAborted, cancelled, timedOut, overflow, killStarted, grace,
  commandResult>>
stacksVars == <<part, landVars, jjUpVars, graphiteUpVars, stackVars, navigationVars, commandVars>>

\* One initial state each, for the parts that do not move.
IdleLand == route = "single" /\ IdleSingle
IdlePublishJj == tracked = [s \in 1..Width |-> 0] /\ unseen = {} /\ native = 0
IdlePublishGraphite == heads = [s \in 1..Width |-> GraphiteUp!Absent]
IdleInspect == line = <<>> /\ stackAsked = Inspection!Missing /\ odd = [flaw |-> "none", at |-> 1]
IdleCommand == commandAborted = FALSE

StacksInit ==
  /\ part \in {"land", "publishJj", "publishGraphite", "inspect", "navigate", "command"}
  /\ IF part = "land" THEN TRUE ELSE IdleLand
  /\ IF part = "publishJj" THEN TRUE ELSE IdlePublishJj
  /\ IF part = "publishGraphite" THEN TRUE ELSE IdlePublishGraphite
  /\ IF part = "inspect" THEN TRUE ELSE IdleInspect
  /\ IF part = "command" THEN TRUE ELSE IdleCommand
  /\ LandInit /\ JjUp!Init /\ GraphiteUp!Init /\ Inspection!Init /\ Navigation!Init /\ Command!Init

StacksNext ==
  \/ part = "land" /\ LandNext /\ UNCHANGED <<part, jjUpVars, graphiteUpVars, stackVars, navigationVars, commandVars>>
  \/ part = "publishJj" /\ JjUp!Next /\ UNCHANGED <<part, landVars, graphiteUpVars, stackVars, navigationVars, commandVars>>
  \/ part = "publishGraphite" /\ GraphiteUp!Next /\ UNCHANGED <<part, landVars, jjUpVars, stackVars, navigationVars, commandVars>>
  \/ part = "inspect" /\ Inspection!Next /\ UNCHANGED <<part, landVars, jjUpVars, graphiteUpVars, navigationVars, commandVars>>
  \/ part = "navigate" /\ Navigation!Next /\ UNCHANGED <<part, landVars, jjUpVars, graphiteUpVars, stackVars, commandVars>>
  \/ part = "command" /\ Command!Next /\ UNCHANGED <<part, landVars, jjUpVars, graphiteUpVars, stackVars, navigationVars>>

StacksSpec == StacksInit /\ [][StacksNext]_stacksVars
-----------------------------------------------------------------------------
\* The variables of each part, while it is the one that moves.
StacksTypeOK ==
  /\ part = "land" => LandTypeOK
  /\ part = "publishJj" => JjUp!TypeOK
  /\ part = "publishGraphite" => GraphiteUp!TypeOK
  /\ part = "navigate" => Navigation!TypeOK
  /\ part = "command" => Command!TypeOK

\* An outcome says what the remote took, and what jj's commands are told to have done
\* they did.
ReportsAreTrue ==
  /\ ReportIsHonest /\ OutcomeIsHonest
  /\ JjUp!OutcomeIsHonest
  /\ GraphiteUp!OutcomeIsHonest
  /\ Command!ResultIsConclusive

\* What is published is the stack, all of it, cut once at each bookmark, and the tables
\* on its pull requests name its members.
PublishedIsTheStack ==
  /\ JjUp!CompletedIsPublished
  /\ Navigation!TablesAreTrue /\ Navigation!WritesAreReported
  /\ Inspection!SlicesPartition /\ Inspection!RequestKeepsTop

\* No landing on GitHub and no jj or GitHub push replaces a commit of others that was
\* not read, and no navigation comment one of others.  What gt submit overwrites is
\* not covered.
OthersWorkSurvives ==
  ForeignWorkSurvives /\ JjUp!NoUnseenWorkIsReplaced /\ Navigation!OthersCommentsSurvive
=============================================================================
