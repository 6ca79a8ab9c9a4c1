------------------------- MODULE GitHubPublication -------------------------
(***************************************************************************)
(* Publishing a stack of branches as GitHub pull requests:                 *)
(* extensions/github-stacked-prs/delivery.ts with the gateway of           *)
(* extensions/shared/github.ts and the accounting of                       *)
(* extensions/shared/stack/publication-progress.ts.                        *)
(*                                                                         *)
(* The plan compares the verified local stack with the remote branches and *)
(* open PRs and yields actions; apply runs the pushes and then the PR      *)
(* actions in order, stops at the first error, and reports which actions   *)
(* the remote accepted.  A command may be accepted by the remote and still *)
(* not be seen to succeed.  Confirmation and locking are StackTransaction's*)
(***************************************************************************)
EXTENDS Naturals

CONSTANTS
  N,             \* the number of slices, bottom first
  Ready,         \* the user asked for PRs that are ready for review
  OtherCommits,  \* heads a remote branch may have other than its local head
  MaxDrift,      \* bound: changes made by outsiders
  MaxAborts      \* bound: runs the user aborts

ASSUME PublicationAssumption ==
  /\ N \in Nat \ {0} /\ MaxDrift \in Nat /\ MaxAborts \in Nat
  /\ Ready \in BOOLEAN
  /\ OtherCommits # {} /\ "absent" \notin OtherCommits /\ "target" \notin OtherCommits

VARIABLES
  head,      \* the remote head of each slice's branch
  pr,        \* the open PR of each branch
  pc,
  listed,    \* the open PRs and their heads as listOpenPrs saw them
  next,      \* the slice whose branch is read next
  planned,   \* the remote head of each slice's branch as the plan read it
  queue,     \* the planned actions that have not completed
  completed, \* progress.completedActions()
  accepted,  \* the actions of this run that took effect on the remote
  inFlight,  \* the action an indeterminate outcome names
  status,
  aborted,
  drift,     \* changes outsiders made so far
  aborts,
  killed     \* a push of this run was killed by its timeout or the abort signal

planVars == <<listed, next, planned>>
vars == <<head, pr, pc, planVars, queue, completed, accepted, inFlight, status, aborted,
          drift, aborts, killed>>

Slices == 1..N
Heads == {"absent", "target"} \cup OtherCommits
Prs == [base : {"right", "wrong"}, draft : BOOLEAN]
NoPr == [base |-> "none", draft |-> FALSE]
Kinds == {"push", "create", "repair", "ready"}
Actions == [kind : Kinds, slice : Slices, expected : Heads]
NoAction == [kind |-> "none", slice |-> 0, expected |-> "absent"]

\* The heads of different branches are never compared: one name serves for
\* whatever commit a branch has on the remote when the first run starts.
FirstCommit == CHOOSE c \in OtherCommits : TRUE

NothingListed == [s \in Slices |-> [head |-> "absent", pr |-> NoPr]]
NothingPlanned == [s \in Slices |-> "absent"]

Init ==
  /\ head \in [Slices -> {"absent", FirstCommit}]
  /\ pr \in {f \in [Slices -> Prs \cup {NoPr}] :
               \A s \in Slices : head[s] = "absent" => f[s] = NoPr}
  /\ pc = "listing"
  /\ listed = NothingListed /\ next = 1 /\ planned = NothingPlanned
  /\ queue = {} /\ completed = {} /\ accepted = {} /\ inFlight = NoAction
  /\ status = "none" /\ aborted = FALSE /\ drift = 0 /\ aborts = 0 /\ killed = FALSE
----------------------------------------------------------------------------
(* planGitHubPublication: the open PRs are listed, then the branches are  *)
(* read one by one; a PR whose head moved in between blocks.               *)

\* The run returns and its plan is gone.
Settle(s) ==
  /\ pc' = "done" /\ status' = s /\ queue' = {}
  /\ listed' = NothingListed /\ next' = 1 /\ planned' = NothingPlanned

ListOpenPrs ==
  /\ pc = "listing"
  /\ \/ /\ listed' = [s \in Slices |-> [head |-> head[s], pr |-> pr[s]]]
        /\ pc' = "reading" /\ UNCHANGED <<next, planned, queue, status>>
     \/ Settle("blocked")
  /\ UNCHANGED <<head, pr, completed, accepted, inFlight, aborted, drift, aborts, killed>>

Action(k, s, e) == [kind |-> k, slice |-> s, expected |-> e]

PushOf(s) == IF head[s] = "target" THEN {} ELSE {Action("push", s, head[s])}

\* Fault: a PR that exists is taken as it is.
PrActionsWithoutRepair(s) ==
  IF listed[s].pr = NoPr THEN {Action("create", s, "absent")}
  ELSE IF Ready /\ listed[s].pr.draft THEN {Action("ready", s, "absent")} ELSE {}

PrActionsOf(s) ==
  IF listed[s].pr = NoPr THEN {Action("create", s, "absent")}
  ELSE (IF listed[s].pr.base = "wrong" THEN {Action("repair", s, "absent")} ELSE {})
       \cup (IF Ready /\ listed[s].pr.draft THEN {Action("ready", s, "absent")} ELSE {})

\* The queue of orderedActions: the pushes by slice, then the actions on the
\* PRs by slice, of which `ready` comes last.
Before(a, b) ==
  \/ a.kind = "push" /\ (b.kind = "push" => a.slice < b.slice)
  \/ /\ a.kind # "push" /\ b.kind # "push"
     /\ a.slice < b.slice \/ (a.slice = b.slice /\ b.kind = "ready")

ReadBranch(s) ==
  /\ pc = "reading" /\ s = next
  /\ \/ /\ listed[s].pr # NoPr => head[s] = listed[s].head
        /\ planned' = [planned EXCEPT ![s] = head[s]]
        /\ queue' = queue \cup PushOf(s) \cup PrActionsOf(s)
        /\ IF s = N THEN pc' = "acting" /\ listed' = NothingListed /\ UNCHANGED next
                    ELSE next' = s + 1 /\ UNCHANGED <<pc, listed>>
        /\ UNCHANGED status
     \/ Settle("blocked")
  /\ UNCHANGED <<head, pr, completed, accepted, inFlight, aborted, drift, aborts, killed>>
----------------------------------------------------------------------------
(* The accounting of one run.                                              *)

\* progress.completed(action); the loop goes on with the next one.
Complete(a, marksReady) ==
  /\ completed' = completed \cup {a}
  /\ queue' = (queue \ {a}) \cup IF marksReady THEN {Action("ready", a.slice, "absent")} ELSE {}
  /\ UNCHANGED <<pc, planVars, status, inFlight>>

\* progress.failed: failed before any progress, partial after it.
Fail ==
  /\ Settle(IF completed = {} THEN "failed" ELSE "partial")
  /\ UNCHANGED <<completed, inFlight>>

\* Fault: the outcome names the command in doubt, not the action.
IndeterminateCommand(a) ==
  /\ Settle("indeterminate")
  /\ inFlight' = [a EXCEPT !.kind = IF a.kind = "push" THEN "git push" ELSE "gh pr"]
  /\ UNCHANGED completed

Indeterminate(a) ==
  /\ Settle("indeterminate")
  /\ inFlight' = a
  /\ UNCHANGED completed

\* Fault: branches are pushed with --force.
AcceptableByForce(a) ==
  \/ a.kind = "push"
  \/ a.kind = "create" /\ head[a.slice] # "absent" /\ pr[a.slice] = NoPr
  \/ a.kind \in {"repair", "ready"} /\ pr[a.slice] # NoPr

\* What the remote does when it accepts a: --force-with-lease pins the planned
\* head of an existing branch, and a branch that was absent is not forced.
Acceptable(a) ==
  \/ a.kind = "push" /\ head[a.slice] \in {a.expected, "target"}
  \/ a.kind = "create" /\ head[a.slice] # "absent" /\ pr[a.slice] = NoPr
  \/ a.kind \in {"repair", "ready"} /\ pr[a.slice] # NoPr

Accept(a) ==
  /\ Acceptable(a)
  /\ accepted' = accepted \cup {a}
  /\ head' = IF a.kind = "push" THEN [head EXCEPT ![a.slice] = "target"] ELSE head
  /\ pr' = CASE a.kind = "push" -> pr
             [] a.kind = "create" -> [pr EXCEPT ![a.slice] = [base |-> "right", draft |-> TRUE]]
             [] a.kind = "repair" -> [pr EXCEPT ![a.slice].base = "right"]
             [] a.kind = "ready" -> [pr EXCEPT ![a.slice].draft = FALSE]

Ignore == UNCHANGED <<head, pr, accepted>>
----------------------------------------------------------------------------
(* applyPublication                                                        *)

Acting(a) ==
  /\ pc = "acting" /\ a \in queue
  /\ \A b \in queue \ {a} : Before(a, b)

\* The abort check before each action.  `ready` after a create is not checked
\* by the loop, but the gateway checks before it executes, with a failure.
CheckAbort(a) ==
  /\ Acting(a) /\ aborted
  /\ Settle(IF completed = {} THEN "cancelled" ELSE "partial")
  /\ UNCHANGED <<head, pr, completed, accepted, inFlight, aborted, drift, aborts, killed>>

Succeed(a) ==
  /\ Acting(a) /\ ~aborted
  /\ Accept(a)
  /\ Complete(a, a.kind = "create" /\ Ready)
  /\ UNCHANGED <<aborted, drift, aborts, killed>>

\* A conclusive rejection: a nonzero exit of a command that was not killed.
Reject(a) ==
  /\ Acting(a) /\ ~aborted
  /\ Ignore /\ Fail
  /\ UNCHANGED <<aborted, drift, aborts, killed>>

\* Fault: an uncertain end is reported as a failure.
EndUncertainFails(a) ==
  /\ Acting(a) /\ ~aborted
  /\ Accept(a) \/ Ignore
  /\ Fail
  /\ UNCHANGED <<aborted, drift, aborts, killed>>

\* The command threw, a gh command was killed, or a created PR could not be read.
EndUncertain(a) ==
  /\ Acting(a) /\ ~aborted
  /\ Accept(a) \/ Ignore
  /\ Indeterminate(a)
  /\ UNCHANGED <<aborted, drift, aborts, killed>>

\* The push reads only the exit code of the result: killed with code 0 counts
\* as pushed, killed with another code as rejected.
KilledPush(a) ==
  /\ Acting(a) /\ a.kind = "push"
  /\ Accept(a) \/ Ignore
  /\ Complete(a, FALSE) \/ Fail
  /\ killed' = TRUE
  /\ UNCHANGED <<aborted, drift, aborts>>

\* Every slice has its PR; the navigation comments only add commentErrors.
Finish ==
  /\ pc = "acting" /\ queue = {}
  /\ Settle("completed")
  /\ UNCHANGED <<head, pr, completed, accepted, inFlight, aborted, drift, aborts, killed>>
----------------------------------------------------------------------------
(* The user and others on GitHub.                                          *)

PublishAgain ==
  /\ pc = "done"
  /\ pc' = "listing" /\ status' = "none"
  /\ completed' = {} /\ accepted' = {} /\ inFlight' = NoAction
  /\ aborted' = FALSE /\ killed' = FALSE
  /\ UNCHANGED <<head, pr, planVars, queue, drift, aborts>>

Abort ==
  /\ pc # "done" /\ ~aborted /\ aborts < MaxAborts
  /\ aborted' = TRUE /\ aborts' = aborts + 1
  /\ UNCHANGED <<head, pr, pc, planVars, queue, completed, accepted, inFlight, status, drift,
                 killed>>

OutsiderPushes(s) ==
  /\ drift < MaxDrift
  /\ drift' = drift + 1
  /\ \E c \in OtherCommits \ {head[s]} : head' = [head EXCEPT ![s] = c]
  /\ UNCHANGED <<pr, pc, planVars, queue, completed, accepted, inFlight, status, aborted, aborts,
                 killed>>

OutsiderEditsPr(s) ==
  /\ drift < MaxDrift /\ head[s] # "absent"
  /\ drift' = drift + 1
  /\ \E p \in (Prs \cup {NoPr}) \ {pr[s]} : pr' = [pr EXCEPT ![s] = p]
  /\ UNCHANGED <<head, pc, planVars, queue, completed, accepted, inFlight, status, aborted,
                 aborts, killed>>

Act == \E s \in Slices, k \in Kinds, e \in Heads :
         LET a == Action(k, s, e) IN
         CheckAbort(a) \/ Succeed(a) \/ Reject(a) \/ EndUncertain(a) \/ KilledPush(a)

Run == ListOpenPrs \/ (\E s \in Slices : ReadBranch(s)) \/ Act \/ Finish \/ PublishAgain

Next ==
  \/ Run \/ Abort
  \/ \E s \in Slices : OutsiderPushes(s) \/ OutsiderEditsPr(s)

Spec == Init /\ [][Next]_vars

\* The user publishes again until it worked, and the remote does not refuse a
\* command it could accept for ever.
Fairness ==
  /\ WF_vars(Run)
  /\ SF_vars(ListOpenPrs /\ pc' = "reading")
  /\ \A s \in Slices : SF_vars(ReadBranch(s) /\ pc' # "done")
  /\ SF_vars(\E s \in Slices, k \in Kinds, e \in Heads : Succeed(Action(k, s, e)))

FairSpec == Spec /\ Fairness
----------------------------------------------------------------------------
TypeOK ==
  /\ head \in [Slices -> Heads] /\ planned \in [Slices -> Heads]
  /\ listed \in [Slices -> [head : Heads, pr : Prs \cup {NoPr}]] /\ next \in Slices
  /\ pr \in [Slices -> Prs \cup {NoPr}]
  /\ pc \in {"listing", "reading", "acting", "done"}
  /\ queue \subseteq Actions
  /\ completed \subseteq Actions /\ accepted \subseteq Actions
  /\ inFlight \in Actions \cup {NoAction}
  /\ status \in {"none", "blocked", "cancelled", "failed", "partial", "indeterminate", "completed"}
  /\ aborted \in BOOLEAN /\ drift \in 0..MaxDrift /\ aborts \in 0..MaxAborts
  /\ killed \in BOOLEAN

\* The settlement rules of shared/stack/README.md: completedActions is what the
\* remote accepted, except one action that the outcome says is in doubt, and a
\* run that reports failed, cancelled or blocked changed nothing.  Runs with a
\* killed push are KilledPushIsIndeterminate's.
OutcomeIsHonest ==
  ~killed =>
    /\ completed \subseteq accepted
    /\ pc = "done" => accepted \subseteq completed \cup {inFlight}
    /\ status \in {"failed", "cancelled", "blocked"} => accepted = {}
    /\ status = "partial" => completed # {}

\* "An uncertain acceptance is `indeterminate`, regardless of earlier progress"
\* (shared/stack/README.md), of a push that its timeout or the abort killed.
KilledPushIsIndeterminate == killed /\ pc = "done" => status = "indeterminate"

\* A push replaces the head that the plan read, never one that an outsider put
\* there in its place.
NoUnseenWorkIsReplaced ==
  [][ \A s \in Slices : head'[s] # head[s] /\ drift' = drift => head[s] = planned[s] ]_vars

\* Publishing again after any failure in the end publishes the stack, as long
\* as outsiders stop changing it: no interrupted run leaves the remote stuck.
Published ==
  \A s \in Slices : head[s] = "target" /\ pr[s].base = "right" /\ (Ready => ~pr[s].draft)

RetriesConverge == <>[]Published
=============================================================================
