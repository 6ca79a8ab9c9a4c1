---------------------------- MODULE FrontierLand ----------------------------
(***************************************************************************)
(* Landing one pull request: runLand of extensions/land/orchestrator.ts    *)
(* with mergePullRequest and waitForMerge of extensions/shared/github.ts.  *)
(*                                                                         *)
(* The run reads the PR, lets pr-autopilot produce evidence that the head  *)
(* is ready, asks for a confirmation unless policy or a stack's own        *)
(* confirmation stands for it, reads the PR again, requests the merge of   *)
(* the pinned head and polls until GitHub reports it merged.  Meanwhile    *)
(* others push to, retarget, close or merge the PR, and GitHub may merge   *)
(* at once or keep the request in a queue.                                 *)
(***************************************************************************)
EXTENDS Naturals

CONSTANTS
  Commits,      \* heads the PR may have
  Bases,        \* branches the PR may target
  MaxDrift,     \* bound: changes made by outsiders
  None          \* no commit, no base

ASSUME FrontierAssumption ==
  /\ MaxDrift \in Nat /\ None \notin Commits \cup Bases

VARIABLES
  mode,      \* who stands for the merge: ask the user, policy, a delegating stack
  pr,        \* the PR on GitHub: state, head, base, draft
  request,   \* GitHub's view of our merge request: none, queued, merged, dropped
  merged,    \* the head and base GitHub merged, None before that
  expected,  \* the head and base the delegating stack pinned
  target,    \* targetBase
  evidence,  \* the head autopilot verified
  pinned,    \* frontier.expectedHeadSha
  confirmed, \* the head the user confirmed
  pc, status, frontier, aborted,
  retargeted, \* the base changed after the last read before the merge request
  drift

vars == <<mode, pr, request, merged, expected, target, evidence, pinned, confirmed, pc, status,
          frontier, aborted, retargeted, drift>>

remote == <<pr, request, merged, retargeted, drift>>
plan == <<mode, expected, target, evidence, pinned, confirmed>>

Asks == mode = "ask"
Delegated == mode = "delegated"

Pins == [head : Commits, base : Bases]
Unpinned == [head |-> None, base |-> None]
Statuses == {"none", "landed", "partially-landed", "indeterminate", "blocked", "declined",
             "aborted", "failed"}

Init ==
  /\ mode \in {"ask", "policy", "delegated"}
  /\ pr \in [state : {"OPEN", "CLOSED"}, head : Commits, base : Bases, draft : BOOLEAN]
  /\ request = "none" /\ merged = Unpinned
  /\ expected \in IF Delegated THEN Pins ELSE {Unpinned}
  /\ target = None /\ evidence = None /\ pinned = None /\ confirmed = None
  /\ pc = "inspecting" /\ status = "none" /\ frontier = "none" /\ aborted = FALSE
  /\ retargeted = FALSE /\ drift = 0
----------------------------------------------------------------------------
\* The run ends with status s and, if it has a frontier, its state f.
Return(s, f) == pc' = "done" /\ status' = s /\ frontier' = f

Goto(step) == pc' = step /\ UNCHANGED <<status, frontier>>

Blocked == Return("blocked", IF pinned = None THEN "none" ELSE "not-attempted")

\* A GitHub read or autopilot threw before the merge request.
Throws ==
  /\ pc \in {"inspecting", "readying", "rereading", "confirming", "revalidating"}
  /\ IF aborted THEN Return("aborted", IF pinned = None THEN "none" ELSE "not-attempted")
     ELSE Return("failed", IF pinned = None THEN "none" ELSE "blocked")
  /\ UNCHANGED <<remote, plan, aborted>>

\* Repository methods, the open PR and the delegated pins.
Inspect ==
  /\ pc = "inspecting"
  /\ \/ /\ pr.state = "OPEN"
        /\ Delegated => expected = [head |-> pr.head, base |-> pr.base]
        /\ target' = pr.base
        /\ Goto("readying")
     \/ Blocked /\ UNCHANGED target
  /\ UNCHANGED <<remote, mode, expected, evidence, pinned, confirmed, aborted>>

\* Autopilot reports merge-ready evidence for the head and base it last saw, and
\* may itself have pushed that head; anything else blocks.
Ready ==
  /\ pc = "readying"
  /\ \/ /\ pr.base = target
        /\ Delegated => pr.head = expected.head
        /\ evidence' = pr.head
        /\ Goto("rereading")
     \/ Blocked /\ UNCHANGED evidence
  /\ UNCHANGED <<remote, mode, expected, target, pinned, confirmed, aborted>>

Matches(head) == pr.state = "OPEN" /\ ~pr.draft /\ pr.head = head /\ pr.base = target

Reread ==
  /\ pc = "rereading"
  /\ \/ /\ Matches(evidence)
        /\ \/ Goto("confirming") /\ pinned' = pr.head
           \/ Asks /\ Return("declined", "none") /\ UNCHANGED pinned
     \/ ~Matches(evidence) /\ Blocked /\ UNCHANGED pinned
  /\ UNCHANGED <<remote, mode, expected, target, evidence, confirmed, aborted>>

\* Fault: the answer is kept instead of the head that was confirmed.
ConfirmAnswer ==
  /\ pc = "confirming"
  /\ confirmed' = (IF Asks THEN "yes" ELSE None) /\ Goto("revalidating")
  /\ UNCHANGED <<remote, mode, expected, target, evidence, pinned, aborted>>

Confirm ==
  /\ pc = "confirming"
  /\ \/ Asks /\ confirmed' = pinned /\ Goto("revalidating")
     \/ ~Asks /\ UNCHANGED confirmed /\ Goto("revalidating")
     \/ Asks /\ Return("declined", "not-attempted") /\ UNCHANGED confirmed
  /\ UNCHANGED <<remote, mode, expected, target, evidence, pinned, aborted>>

\* Fault: the PR is not read again after the confirmation.
RevalidateNothing ==
  /\ pc = "revalidating"
  /\ Goto("dispatching") /\ retargeted' = FALSE
  /\ UNCHANGED <<pr, request, merged, drift, plan, aborted>>

Revalidate ==
  /\ pc = "revalidating"
  /\ \/ Matches(pinned) /\ Goto("dispatching") /\ retargeted' = FALSE
     \/ ~Matches(pinned) /\ Blocked /\ UNCHANGED retargeted
  /\ UNCHANGED <<pr, request, merged, drift, plan, aborted>>
----------------------------------------------------------------------------
(* The merge request.                                                      *)

\* Fault: the merge does not pin the head.
MergeableUnpinned == pr.state = "OPEN" /\ ~pr.draft

\* GitHub takes an open PR whose head is the one of --match-head-commit.
Mergeable == pr.state = "OPEN" /\ ~pr.draft /\ pr.head = pinned

Merge ==
  /\ pr' = [pr EXCEPT !.state = "MERGED"]
  /\ merged' = [head |-> pr.head, base |-> pr.base]

GitHubTakes ==
  /\ Mergeable
  /\ \/ Merge /\ request' = "merged"
     \/ request' = "queued" /\ UNCHANGED <<pr, merged>>
  /\ UNCHANGED <<retargeted, drift>>

DispatchAborted ==
  /\ pc = "dispatching" /\ aborted
  /\ Return("aborted", "not-attempted")
  /\ UNCHANGED <<remote, plan, aborted>>

DispatchAccepted ==
  /\ pc = "dispatching" /\ ~aborted
  /\ GitHubTakes
  /\ Goto("polling")
  /\ UNCHANGED <<plan, aborted>>

DispatchRefused ==
  /\ pc = "dispatching" /\ ~aborted
  /\ Return("failed", "blocked")
  /\ UNCHANGED <<remote, plan, aborted>>

\* gh was killed, by its timeout or by an abort that came after it started, or
\* exec threw: GitHub may have taken the request.
DispatchKilled ==
  /\ pc = "dispatching" /\ ~aborted
  /\ GitHubTakes \/ UNCHANGED remote
  /\ Return("indeterminate", "indeterminate")
  /\ UNCHANGED plan
  /\ aborted' \in BOOLEAN

\* waitForMerge: merged at the pinned head, or moved, closed or out of time; a
\* failed read or an abort ends the polling too.
Poll ==
  /\ pc = "polling"
  /\ \/ pr.state = "MERGED" /\ pr.head = pinned /\ Return("landed", "landed")
     \/ Return("partially-landed", "queued")
  /\ UNCHANGED <<remote, plan, aborted>>

----------------------------------------------------------------------------
(* GitHub and the other people.                                            *)

local == <<mode, expected, target, evidence, pinned, confirmed, pc, status, frontier>>

Abort == ~aborted /\ pc # "done" /\ aborted' = TRUE /\ UNCHANGED <<remote, local>>

QueueMerges ==
  /\ request = "queued" /\ pr.state = "OPEN"
  /\ Merge /\ request' = "merged"
  /\ UNCHANGED <<retargeted, drift, local, aborted>>

Drift == pr.state = "OPEN" /\ drift < MaxDrift /\ drift' = drift + 1

\* A push takes a queued PR out of the merge queue.
OutsiderPushes ==
  /\ Drift
  /\ \E c \in Commits \ {pr.head} : pr' = [pr EXCEPT !.head = c]
  /\ request' = IF request = "queued" THEN "dropped" ELSE request
  /\ UNCHANGED <<merged, retargeted, local, aborted>>

OutsiderRetargets ==
  /\ Drift
  /\ \E b \in Bases \ {pr.base} : pr' = [pr EXCEPT !.base = b]
  /\ request' = IF request = "queued" THEN "dropped" ELSE request
  /\ retargeted' = TRUE
  /\ UNCHANGED <<merged, local, aborted>>

OutsiderSettles ==
  /\ Drift
  /\ \/ \E s \in {"CLOSED", "MERGED"} : pr' = [pr EXCEPT !.state = s]
     \/ \E d \in BOOLEAN : pr' = [pr EXCEPT !.draft = d]
  /\ request' = IF request = "queued" THEN "dropped" ELSE request
  /\ UNCHANGED <<merged, retargeted, local, aborted>>

Next ==
  \/ Throws \/ Inspect \/ Ready \/ Reread \/ Confirm \/ Revalidate
  \/ DispatchAborted \/ DispatchAccepted \/ DispatchRefused \/ DispatchKilled \/ Poll
  \/ Abort \/ QueueMerges \/ OutsiderPushes \/ OutsiderRetargets \/ OutsiderSettles

Spec == Init /\ [][Next]_vars
----------------------------------------------------------------------------
TypeOK ==
  /\ mode \in {"ask", "policy", "delegated"}
  /\ pr \in [state : {"OPEN", "CLOSED", "MERGED"}, head : Commits, base : Bases, draft : BOOLEAN]
  /\ request \in {"none", "queued", "merged", "dropped"}
  /\ merged \in Pins \cup {Unpinned} /\ expected \in Pins \cup {Unpinned}
  /\ target \in Bases \cup {None}
  /\ {evidence, pinned, confirmed} \subseteq Commits \cup {None}
  /\ pc \in {"inspecting", "readying", "rereading", "confirming", "revalidating",
             "dispatching", "polling", "done"}
  /\ status \in Statuses
  /\ frontier \in {"none", "landed", "queued", "blocked", "not-attempted", "indeterminate"}
  /\ aborted \in BOOLEAN /\ retargeted \in BOOLEAN /\ drift \in 0..MaxDrift

\* What GitHub merges on our request is the head that autopilot verified, that
\* the run pinned and, where it asked, that the user confirmed; for a stack, the
\* head the stack pinned.
OnlyTheReviewedHeadMerges ==
  merged # Unpinned =>
    /\ merged.head = pinned /\ merged.head = evidence
    /\ Asks => merged.head = confirmed
    /\ Delegated => merged.head = expected.head

\* It is merged into the branch the run inspected, except for a retarget after
\* the last read, the window the README names as GitHub's limit.
MergesIntoItsTarget == merged # Unpinned /\ merged.base # target => retargeted

\* The four observable outcomes at the mutation boundary: landed is merged at the
\* pinned head; blocked, declined, aborted and failed mean that GitHub never took
\* the request; everything else says it may have.
ReportIsHonest ==
  /\ status = "landed" => pr.state = "MERGED" /\ pr.head = pinned /\ request # "none"
  /\ status \in {"blocked", "declined", "aborted", "failed"} => request = "none"
  /\ request # "none" => pc \in {"polling", "done"}
=============================================================================
