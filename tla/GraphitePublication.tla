------------------------- MODULE GraphitePublication -------------------------
(***************************************************************************)
(* Publishing a Graphite stack: extensions/graphite-stacked-prs/delivery.ts *)
(* with the manifest of extensions/shared/stack/manifest.ts.                *)
(*                                                                         *)
(* The child that built the stack left a manifest.  A plan proves it against *)
(* Git and a dry run and lists the PRs; it is made again under the lock; one *)
(* `gt submit' then publishes the local branches as they are by then, and   *)
(* the outcome rests on what GitHub shows afterwards.                      *)
(***************************************************************************)
EXTENDS Integers

CONSTANTS
  N,        \* the slices of the manifest, bottom first
  MaxMoves  \* bound: changes by the user and by others

\* parseStackManifest: each slice is based on the one below it, the first on the trunk.
Slices == 1..N
Planned == 0   \* the head the manifest names
Edited == 1    \* a later local commit
Foreign == 2   \* a commit somebody else pushed
Absent == -1
NoPr == [base |-> "none", draft |-> FALSE]

VARIABLES
  astray,  \* the manifest, the working tree, the checkout, the trunk or gt's scope is off
  tips,    \* the local head of each branch
  heads,   \* the remote head of each branch
  prOf,    \* the open PR of each branch
  known,   \* the plan: the PR of each branch and its head
  phase, report,
  at,      \* the slice gt submit, or the inspection, has come to
  submit,  \* how gt submit ended
  sent,    \* the heads gt submit published
  proven,  \* the slices whose PR is as the manifest has it
  moves

vars == <<astray, tips, heads, prOf, known, phase, report, at, submit, sent, proven, moves>>
world == <<astray, tips, heads, prOf, moves>>
run == <<known, phase, report, at, submit, sent, proven>>

Prs == [base : {"right", "wrong"}, draft : BOOLEAN]
Listing == [s \in Slices |-> [pr |-> prOf[s], head |-> IF prOf[s] = NoPr THEN Absent ELSE heads[s]]]

Init ==
  /\ astray = FALSE
  /\ tips = [s \in Slices |-> Planned]
  /\ \E had \in SUBSET Slices :
     \E base \in IF had = {} THEN {"right"} ELSE {"right", "wrong"},
        head \in IF had = {} THEN {Planned} ELSE {Planned, Foreign} :
       /\ heads = [s \in Slices |-> IF s \in had THEN head ELSE Absent]
       /\ prOf = [s \in Slices |-> IF s \in had THEN [base |-> base, draft |-> s = 1] ELSE NoPr]
  /\ known = Listing
  /\ phase = "planning" /\ report = "none" /\ at = 1 /\ submit = "none"
  /\ sent = {} /\ proven = {} /\ moves = 0

Goto(p) == phase' = p /\ UNCHANGED report
Return(r) == phase' = "done" /\ report' = r
----------------------------------------------------------------------------
(* The manifest, Git's facts about it and the dry run.                      *)

\* Every branch is at the manifest's head, above the one below it.
HeadsAsPlanned == \A s \in Slices : tips[s] = Planned

\* And the tree is clean, the top checked out, the trunk where it was, and the dry
\* run lists the branches of the manifest.
Verified == HeadsAsPlanned /\ ~astray

Refuse ==
  /\ \/ phase \in {"planning", "replanning"} /\ \E r \in {"blocked", "cancelled"} : Return(r)
     \/ phase = "confirming" /\ \E r \in {"declined", "cancelled", "busy"} : Return(r)
  /\ UNCHANGED <<world, known, at, submit, sent, proven>>

Plan ==
  /\ phase = "planning" /\ Verified
  /\ known' = Listing
  /\ Goto("confirming")
  /\ UNCHANGED <<world, at, submit, sent, proven>>

Confirm ==
  /\ phase = "confirming" /\ Goto("replanning")
  /\ UNCHANGED <<world, known, at, submit, sent, proven>>

\* The plan ID covers the slices and the PRs.
Replan ==
  /\ phase = "replanning" /\ Verified
  /\ IF Listing = known THEN Goto("submitting") ELSE Return("stale")
  /\ UNCHANGED <<world, known, at, submit, sent, proven>>
----------------------------------------------------------------------------
(* submitGraphitePlan.                                                     *)

\* gt pushes a branch, if its lease holds, and creates or retargets its PR.
SubmitSlice ==
  /\ phase = "submitting" /\ submit = "none" /\ at <= N
  /\ heads' = [heads EXCEPT ![at] = tips[at]]
  /\ sent' = sent \cup {tips[at]}
  /\ prOf' = [prOf EXCEPT ![at] =
       [base |-> "right", draft |-> IF prOf[at] = NoPr THEN TRUE ELSE prOf[at].draft]]
  /\ at' = at + 1
  /\ UNCHANGED <<astray, tips, moves, known, phase, report, submit, proven>>

\* A throw, a timeout or an abort is an exit like any other: GitHub is asked next.
SubmitEnds ==
  /\ phase = "submitting"
  /\ submit' \in IF at > N THEN {"ok", "failed"} ELSE {"failed"}
  /\ at' = 1 /\ Goto("inspecting")
  /\ UNCHANGED <<world, known, sent, proven>>

Matches(s) == prOf[s] = [base |-> "right", draft |-> TRUE] /\ heads[s] = Planned

\* inspectPublishedStack; a read that fails is an error like a mismatch.
InspectSlice ==
  /\ phase = "inspecting" /\ at <= N
  /\ \/ Matches(at) /\ proven' = proven \cup {at}
     \/ UNCHANGED proven
  /\ at' = at + 1
  /\ UNCHANGED <<world, known, phase, report, submit, sent>>

Report ==
  /\ phase = "inspecting" /\ at > N
  /\ Return(IF submit = "ok" /\ proven = Slices THEN "completed"
            ELSE IF proven # {} THEN "partial" ELSE "indeterminate")
  /\ UNCHANGED <<world, known, at, submit, sent, proven>>
----------------------------------------------------------------------------
(* The user and other people.                                              *)

Move == phase # "done" /\ moves < MaxMoves /\ moves' = moves + 1 /\ UNCHANGED run

\* The user leaves files, moves the trunk, checks out another branch, adds one with gt;
\* or undoes it.
UserStrays ==
  /\ Move /\ astray' = ~astray
  /\ UNCHANGED <<tips, heads, prOf>>

UserCommits(s) ==
  /\ Move /\ tips' = [tips EXCEPT ![s] = Edited]
  /\ UNCHANGED <<astray, heads, prOf>>

OthersPush(s) ==
  /\ Move /\ heads[s] # Absent /\ heads' = [heads EXCEPT ![s] = Foreign]
  /\ UNCHANGED <<astray, tips, prOf>>

OthersChangePr(s, pr) ==
  /\ Move /\ heads[s] # Absent /\ pr # prOf[s] /\ prOf' = [prOf EXCEPT ![s] = pr]
  /\ UNCHANGED <<astray, tips, heads>>

Next ==
  \/ Refuse \/ Plan \/ Confirm \/ Replan \/ SubmitSlice \/ SubmitEnds \/ InspectSlice \/ Report
  \/ UserStrays
  \/ \E s \in Slices : UserCommits(s) \/ OthersPush(s) \/ \E pr \in Prs \cup {NoPr} : OthersChangePr(s, pr)

Spec == Init /\ [][Next]_vars
----------------------------------------------------------------------------
TypeOK ==
  /\ astray \in BOOLEAN /\ tips \in [Slices -> {Planned, Edited}] /\ heads \in [Slices -> -1..2]
  /\ prOf \in [Slices -> Prs \cup {NoPr}]
  /\ known \in [Slices -> [pr : Prs \cup {NoPr}, head : -1..2]]
  /\ phase \in {"planning", "confirming", "replanning", "submitting", "inspecting", "done"}
  /\ report \in {"none", "blocked", "cancelled", "declined", "busy", "stale", "completed", "partial",
                 "indeterminate"}
  /\ at \in 1..(N + 1) /\ submit \in {"none", "ok", "failed"}
  /\ sent \subseteq {Planned, Edited} /\ proven \subseteq Slices /\ moves \in 0..MaxMoves

\* A completed publication published the confirmed heads and nothing else: a commit
\* made between the locked plan and gt submit shows in the inspection.  A plan that
\* was refused published nothing.
OutcomeIsHonest ==
  /\ report = "completed" => sent = {Planned} /\ proven = Slices
  /\ report \in {"blocked", "cancelled", "declined", "busy", "stale"} => sent = {}
=============================================================================
