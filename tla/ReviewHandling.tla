-------------------------- MODULE ReviewHandling --------------------------
(***************************************************************************)
(* The durable part of PR autopilot: answering review items and rerunning  *)
(* flaky CI with a record on disk of what was already done                 *)
(* (extensions/pr-autopilot/driver.ts, autopilot-operations.ts,            *)
(* review-handling.ts, ci-retries.ts).  A run loads the record, reads the  *)
(* pull request, asks a model to triage it, and then mutates GitHub one    *)
(* call at a time.  Reviewers comment, resolve and reopen between any two  *)
(* calls; the user aborts; the process dies.                               *)
(*                                                                         *)
(* The triager's answer is any answer.  One failing Actions run per head   *)
(* stands for its checks.  A version is the hash of an item's comments.    *)
(***************************************************************************)
EXTENDS Integers, FiniteSets

CONSTANTS
  Sessions,    \* Pi sessions that share the record of one pull request
  NThreads,    \* review items, in the order triage lists them
  MaxVersion, MaxHead, MaxReopens, MaxRuns, MaxCrashes, \* bounds on the environment
  MaxCycles,   \* maxFixCycles(mode)
  MaxPending   \* LIMITS.reviewHandlingRecords

Threads == 1..NThreads
Versions == 0..MaxVersion
Heads == 0..MaxHead
NoVersion == -1

ASSUME ReviewAssumption ==
  /\ NThreads \in Nat /\ MaxVersion \in Nat /\ MaxHead \in Nat
  /\ MaxCycles \in Nat \ {0} /\ MaxPending \in Nat

VARIABLES
  file,     \* state-<repository>-<pr>.json
  discussions, \* the items that are issue comments: they cannot be resolved
  corrupt,  \* the file cannot be parsed or has a newer schema
  version, open, head, \* the pull request on GitHub
  pc, mem,  \* per session: where its run is, and `persisted`
  at,       \* the item applyThreadReplies is at
  snap,     \* head and item versions of the run's snapshot
  plan,     \* the triage: a decision per item, and whether code CI failed
  cycle, pushed, failed, aborted,
  replied,  \* replies GitHub confirmed, per item and version
  reopened, \* how often a reviewer reopened an item at a version
  attempts, \* rerun requests sent, per head
  runs, crashes

constant == <<corrupt, discussions>> \* given when the runs begin
github == <<version, open, head>>
local == <<mem, at, snap, plan, cycle, pushed, failed>>
ghosts == <<replied, reopened, attempts, runs, crashes>>
vars == <<file, constant, github, pc, local, aborted, ghosts>>

Decisions == {"fix", "dismiss", "ignore", "ask", "none"}
Stages == {"idle", "refresh", "triage", "rerun", "record", "fix", "reply", "inspect",
           "resolve", "save"}

Records == [pending : SUBSET (Threads \X Versions),
            handled : [Threads -> [version : Versions \cup {NoVersion}, ignored : BOOLEAN]],
            reruns  : SUBSET Heads]

EmptyRecord == [pending |-> {},
                handled |-> [t \in Threads |-> [version |-> NoVersion, ignored |-> FALSE]],
                reruns  |-> {}]
NoSnap == [head |-> 0, items |-> [t \in Threads |-> NoVersion]]
NoPlan == [items |-> [t \in Threads |-> "none"], code |-> FALSE]

Init ==
  /\ file = EmptyRecord /\ corrupt \in BOOLEAN /\ discussions \in SUBSET Threads
  /\ version = [t \in Threads |-> 0] /\ open = [t \in Threads |-> TRUE] /\ head = 0
  /\ pc = [s \in Sessions |-> "idle"]
  /\ mem = [s \in Sessions |-> EmptyRecord]
  /\ at = [s \in Sessions |-> 1]
  /\ snap = [s \in Sessions |-> NoSnap]
  /\ plan = [s \in Sessions |-> NoPlan]
  /\ cycle = [s \in Sessions |-> 0]
  /\ pushed = [s \in Sessions |-> FALSE]
  /\ failed = [s \in Sessions |-> FALSE]
  /\ aborted = [s \in Sessions |-> FALSE]
  /\ replied = [t \in Threads |-> [v \in Versions |-> 0]]
  /\ reopened = [t \in Threads |-> [v \in Versions |-> 0]]
  /\ attempts = [h \in Heads |-> 0]
  /\ runs = 0 /\ crashes = 0

-----------------------------------------------------------------------------
(* What the record says *)

HasPending(record, t) == \E v \in Versions : <<t, v>> \in record.pending

\* An item whose latest record fits its version is not shown to triage again:
\* a review thread only when it was ignored, a discussion in any case.  An item
\* with a pending reply is always shown.
Suppressed(record, t) ==
  /\ ~HasPending(record, t)
  /\ record.handled[t].version = version[t]
  /\ t \in discussions \/ record.handled[t].ignored

\* What applyThreadReplies does with `handled` and the pending replies.
Handled(record, t, v, ignored) ==
  [record EXCEPT !.handled[t] = [version |-> v, ignored |-> ignored]]
Settled(record, t, v) ==
  Handled([record EXCEPT !.pending = {p \in @ : p[1] # t}], t, v, FALSE)

Triaged(s) == snap[s].items[at[s]]
Decision(s) == plan[s].items[at[s]]
CommentWork(p) == \E t \in Threads : p.items[t] \notin {"none", "ask"}
NeedsFixer(p) == (\E t \in Threads : p.items[t] = "fix") \/ (~CommentWork(p) /\ p.code)

-----------------------------------------------------------------------------
(* How a run moves on and ends *)

Go(s, stage) == pc' = [pc EXCEPT ![s] = stage]

\* The run returns; nothing of it survives in the process.
End(s) ==
  /\ Go(s, "idle")
  /\ mem' = [mem EXCEPT ![s] = EmptyRecord]
  /\ at' = [at EXCEPT ![s] = 1]
  /\ snap' = [snap EXCEPT ![s] = NoSnap]
  /\ plan' = [plan EXCEPT ![s] = NoPlan]
  /\ cycle' = [cycle EXCEPT ![s] = 0]
  /\ pushed' = [pushed EXCEPT ![s] = FALSE]
  /\ failed' = [failed EXCEPT ![s] = FALSE]
  /\ aborted' = [aborted EXCEPT ![s] = FALSE]

\* Fault: one cycle too many.
NextCycleTooMany(s) ==
  \/ /\ cycle[s] + 1 <= MaxCycles
     /\ Go(s, "refresh")
     /\ cycle' = [cycle EXCEPT ![s] = @ + 1]
     /\ UNCHANGED <<at, snap, plan, pushed, failed, aborted>>
  \/ cycle[s] = MaxCycles /\ End(s)

\* cycle++; continue.  At the limit the loop is left.
NextCycle(s) ==
  \/ /\ cycle[s] + 1 < MaxCycles
     /\ Go(s, "refresh")
     /\ cycle' = [cycle EXCEPT ![s] = @ + 1]
     /\ at' = [at EXCEPT ![s] = 1]
     /\ snap' = [snap EXCEPT ![s] = NoSnap]
     /\ plan' = [plan EXCEPT ![s] = NoPlan]
     /\ pushed' = [pushed EXCEPT ![s] = FALSE]
     /\ UNCHANGED <<failed, aborted>>
  \/ cycle[s] + 1 = MaxCycles /\ End(s)

\* The next item of the reply loop, with the record as it stands now.
NextItem(s, record) ==
  /\ Go(s, "reply")
  /\ at' = [at EXCEPT ![s] = @ + 1]
  /\ mem' = [mem EXCEPT ![s] = record]
  /\ UNCHANGED <<snap, plan, cycle, pushed, failed>>

\* applyThreadReplies returns ok: false; what it did so far is saved.
StopReplies(s) ==
  /\ Go(s, "save")
  /\ failed' = [failed EXCEPT ![s] = TRUE]
  /\ UNCHANGED <<mem, at, snap, plan, cycle, pushed>>

\* What savePersistedState leaves on disk; an unreadable file is left alone.
Saved(s) == IF corrupt THEN file ELSE mem[s]

\* A file that cannot be trusted is read as an empty record and blocks mutations.
LoadPersistedState(s) ==
  /\ pc[s] = "idle" /\ runs < MaxRuns
  /\ Go(s, "refresh")
  /\ mem' = [mem EXCEPT ![s] = IF corrupt THEN EmptyRecord ELSE file]
  /\ runs' = runs + 1
  /\ UNCHANGED <<file, constant, github, at, snap, plan, cycle, pushed, failed, aborted,
                 replied, reopened, attempts, crashes>>

\* The read fails, the pull request needs nothing or is closed, or the run was aborted.
RefreshEnds(s) ==
  /\ pc[s] = "refresh" /\ End(s)
  /\ UNCHANGED <<file, constant, github, ghosts>>

FetchPRState(s) ==
  /\ pc[s] = "refresh" /\ ~aborted[s]
  /\ snap' = [snap EXCEPT ![s] =
       [head |-> head,
        items |-> [t \in Threads |-> IF open[t] /\ ~Suppressed(mem[s], t)
                                       THEN version[t] ELSE NoVersion]]]
  /\ Go(s, "triage")
  /\ UNCHANGED <<file, constant, github, mem, at, plan, cycle, pushed, failed, aborted, ghosts>>

\* The branch is behind or conflicts: updateBaseAndPublish moves the head, or finds
\* the base already merged.
UpdateBase(s) ==
  /\ pc[s] = "triage" /\ ~aborted[s]
  /\ \/ head < MaxHead /\ head' = head + 1 /\ file' = Saved(s)
     \/ UNCHANGED <<head, file>>
  /\ NextCycle(s)
  /\ mem' = IF cycle[s] + 1 = MaxCycles THEN [mem EXCEPT ![s] = EmptyRecord] ELSE mem
  /\ UNCHANGED <<constant, version, open, ghosts>>

\* Only pending checks: watch them and read again.  This is not a cycle.
WatchChecks(s) ==
  /\ pc[s] = "triage" /\ ~aborted[s]
  /\ Go(s, "refresh")
  /\ snap' = [snap EXCEPT ![s] = NoSnap]
  /\ UNCHANGED <<file, constant, github, mem, at, plan, cycle, pushed, failed, aborted, ghosts>>

\* Fault: reruns are not blocked.
BlockedByFileReviewsOnly(items, retry) == corrupt /\ CommentWork([items |-> items])

\* reviewMutationBlocker stops a run whose triage asks for a reply or a rerun.
BlockedByFile(items, retry) == corrupt /\ (CommentWork([items |-> items]) \/ retry)

\* Sensitive items are forced to ask; keys that name no item are dropped.
Triage(s) ==
  /\ pc[s] = "triage" /\ ~aborted[s]
  /\ \E items \in [Threads -> Decisions], code \in BOOLEAN, flake \in BOOLEAN :
       /\ \A t \in Threads : snap[s].items[t] = NoVersion => items[t] = "none"
       /\ plan' = [plan EXCEPT ![s] = [items |-> items, code |-> code]]
       /\ LET retry == flake /\ snap[s].head \notin mem[s].reruns
          IN ~BlockedByFile(items, retry) /\ Go(s, IF retry THEN "rerun" ELSE "fix")
  /\ UNCHANGED <<file, constant, github, mem, at, snap, cycle, pushed, failed, aborted, ghosts>>

\* The triager fails, its answer does not parse, the state file blocks what it asks
\* for, the base update fails, or the run was aborted.
TriageEnds(s) ==
  /\ pc[s] = "triage" /\ End(s)
  /\ UNCHANGED <<file, constant, github, ghosts>>

\* gh run rerun --failed.  GitHub's answer does not matter to what is recorded.
RerunFailedRun(s) ==
  /\ pc[s] = "rerun" /\ ~aborted[s]
  /\ attempts' = [attempts EXCEPT ![snap[s].head] = @ + 1]
  /\ \E refused \in BOOLEAN : failed' = [failed EXCEPT ![s] = refused]
  /\ Go(s, "record")
  /\ UNCHANGED <<file, constant, github, mem, at, snap, plan, cycle, pushed, aborted,
                 replied, reopened, runs, crashes>>

RerunEnds(s) ==
  /\ pc[s] = "rerun" /\ aborted[s] /\ End(s)
  /\ UNCHANGED <<file, constant, github, ghosts>>

\* Fault: only an accepted rerun is recorded.
RetriedIfAccepted(s) ==
  IF failed[s] THEN mem[s] ELSE [mem[s] EXCEPT !.reruns = @ \cup {snap[s].head}]

\* The attempt is consumed on this head, accepted or not.
Retried(s) == [mem[s] EXCEPT !.reruns = @ \cup {snap[s].head}]

\* savePersistedState, then stop, go on to the fixes, or start the next cycle.
RecordRetry(s) ==
  /\ pc[s] = "record"
  /\ file' = Retried(s)
  /\ \/ aborted[s] /\ End(s)
     \/ /\ ~aborted[s] /\ failed[s]
        /\ Go(s, "fix")
        /\ mem' = [mem EXCEPT ![s] = Retried(s)]
        /\ failed' = [failed EXCEPT ![s] = FALSE]
        /\ UNCHANGED <<at, snap, plan, cycle, pushed, aborted>>
     \/ /\ ~aborted[s] /\ ~failed[s]
        /\ NextCycle(s)
        /\ mem' = [mem EXCEPT ![s] =
                     IF cycle[s] + 1 = MaxCycles THEN EmptyRecord ELSE Retried(s)]
  /\ UNCHANGED <<constant, github, ghosts>>

\* No fixer is needed, or it changed nothing, or its commit was published.
Fix(s) ==
  /\ pc[s] = "fix" /\ (CommentWork(plan[s]) \/ plan[s].code)
  /\ \/ ~NeedsFixer(plan[s]) /\ UNCHANGED <<head, pushed>>
     \/ NeedsFixer(plan[s]) /\ ~aborted[s] /\ UNCHANGED <<head, pushed>>
     \/ /\ NeedsFixer(plan[s]) /\ ~aborted[s] /\ head < MaxHead
        /\ head' = head + 1
        /\ pushed' = [pushed EXCEPT ![s] = TRUE]
  /\ Go(s, "reply")
  /\ UNCHANGED <<file, constant, version, open, mem, at, snap, plan, cycle, failed, aborted, ghosts>>

\* Nothing to fix; or the checkout, the fixer, the confirmation, its verification or
\* the publication failed; or the run was aborted.
FixEnds(s) ==
  /\ pc[s] = "fix"
  /\ NeedsFixer(plan[s]) \/ ~(CommentWork(plan[s]) \/ plan[s].code)
  /\ End(s)
  /\ UNCHANGED <<file, constant, github, ghosts>>

-----------------------------------------------------------------------------
(* applyThreadReplies *)

RepliesAborted(s) ==
  /\ pc[s] \in {"reply", "inspect", "resolve"} /\ aborted[s]
  /\ pc[s] = "reply" => at[s] \in Threads
  /\ StopReplies(s)
  /\ UNCHANGED <<file, constant, github, aborted, ghosts>>

AtItem(s) == pc[s] = "reply" /\ at[s] \in Threads /\ ~aborted[s]
\* Fault: a pending reply to any version counts.
MatchingAnyVersion(s) == HasPending(mem[s], at[s])

MatchingPending(s) == <<at[s], Triaged(s)>> \in mem[s].pending

\* Not asked for, or a fix that was not pushed and never answered.
Skips(s) ==
  \/ Decision(s) \in {"none", "ask"}
  \/ Decision(s) = "fix" /\ ~pushed[s] /\ ~MatchingPending(s)

SkipItem(s) ==
  /\ AtItem(s) /\ Skips(s)
  /\ NextItem(s, mem[s])
  /\ UNCHANGED <<file, constant, github, aborted, ghosts>>

IgnoreItem(s) ==
  /\ AtItem(s) /\ Decision(s) = "ignore"
  /\ \/ /\ at[s] \notin discussions /\ HasPending(mem[s], at[s])
        /\ StopReplies(s)
     \/ /\ at[s] \in discussions \/ ~HasPending(mem[s], at[s])
        /\ NextItem(s, Handled(mem[s], at[s], Triaged(s), TRUE))
  /\ UNCHANGED <<file, constant, github, aborted, ghosts>>

Answers(s) == AtItem(s) /\ Decision(s) \in {"fix", "dismiss"} /\ ~Skips(s)

\* A pending reply must have room in the record before it is posted.
HasRoom(record) == Cardinality(record.pending) < MaxPending

\* The reply is posted; a review thread keeps it as pending until it is resolved.
PostReply(s) ==
  /\ Answers(s) /\ (at[s] \in discussions \/ (~MatchingPending(s) /\ HasRoom(mem[s])))
  /\ replied' = [replied EXCEPT ![at[s]][Triaged(s)] = @ + 1]
  /\ IF at[s] \in discussions
       THEN NextItem(s, Handled(mem[s], at[s], Triaged(s), FALSE))
       ELSE /\ Go(s, "inspect")
            /\ mem' = [mem EXCEPT ![s].pending = @ \cup {<<at[s], Triaged(s)>>}]
            /\ UNCHANGED <<at, snap, plan, cycle, pushed, failed>>
  /\ UNCHANGED <<file, constant, github, aborted, reopened, attempts, runs, crashes>>

\* No reply is posted again for a version that has one pending.
ReuseReply(s) ==
  /\ Answers(s) /\ at[s] \notin discussions /\ MatchingPending(s)
  /\ Go(s, "inspect")
  /\ UNCHANGED <<file, constant, github, local, aborted, ghosts>>

\* gh fails, or the record is full.
ReplyFails(s) ==
  /\ Answers(s) /\ (at[s] \in discussions \/ ~MatchingPending(s))
  /\ StopReplies(s)
  /\ UNCHANGED <<file, constant, github, aborted, ghosts>>

\* getReviewThread: resolved by someone meanwhile, still as triaged, or changed.
Inspect(s) ==
  /\ pc[s] = "inspect" /\ ~aborted[s]
  /\ \/ ~open[at[s]] /\ NextItem(s, Settled(mem[s], at[s], Triaged(s)))
     \/ open[at[s]] /\ version[at[s]] = Triaged(s) /\ Go(s, "resolve") /\ UNCHANGED local
     \/ open[at[s]] /\ version[at[s]] # Triaged(s) /\ StopReplies(s)
  /\ UNCHANGED <<file, constant, github, aborted, ghosts>>

ResolveThread(s) ==
  /\ pc[s] = "resolve" /\ ~aborted[s]
  /\ open' = [open EXCEPT ![at[s]] = FALSE]
  /\ NextItem(s, Settled(mem[s], at[s], Triaged(s)))
  /\ UNCHANGED <<file, constant, version, head, aborted, ghosts>>

\* The read or the resolution fails; a failed resolution may have been accepted.
InspectOrResolveFails(s) ==
  /\ pc[s] \in {"inspect", "resolve"} /\ ~aborted[s]
  /\ \/ UNCHANGED open
     \/ pc[s] = "resolve" /\ open' = [open EXCEPT ![at[s]] = FALSE]
  /\ StopReplies(s)
  /\ UNCHANGED <<file, constant, version, head, aborted, ghosts>>

LastItem(s) ==
  /\ pc[s] = "reply" /\ at[s] \notin Threads
  /\ Go(s, "save")
  /\ UNCHANGED <<file, constant, github, local, aborted, ghosts>>

\* The record of the reply loop is saved whatever the loop's outcome; then the run
\* ends (a failure, an abort, threads mode, only questions left) or cycles.
SaveReplies(s) ==
  /\ pc[s] = "save"
  /\ file' = Saved(s)
  /\ \/ End(s)
     \/ /\ ~failed[s] /\ ~aborted[s] /\ cycle[s] + 1 < MaxCycles
        /\ NextCycle(s) /\ UNCHANGED mem
  /\ UNCHANGED <<constant, github, ghosts>>

-----------------------------------------------------------------------------
(* The user, the process and the reviewers *)

Abort(s) ==
  /\ pc[s] # "idle" /\ ~aborted[s]
  /\ aborted' = [aborted EXCEPT ![s] = TRUE]
  /\ UNCHANGED <<file, constant, github, pc, local, ghosts>>

Crash(s) ==
  /\ pc[s] # "idle" /\ crashes < MaxCrashes
  /\ crashes' = crashes + 1
  /\ End(s)
  /\ UNCHANGED <<file, constant, github, replied, reopened, attempts, runs>>

Comment(t) ==
  /\ version[t] < MaxVersion
  /\ version' = [version EXCEPT ![t] = @ + 1]
  /\ UNCHANGED <<file, constant, open, head, pc, local, aborted, ghosts>>

ReviewerResolves(t) ==
  /\ open[t] /\ t \notin discussions
  /\ open' = [open EXCEPT ![t] = FALSE]
  /\ UNCHANGED <<file, constant, version, head, pc, local, aborted, ghosts>>

ReviewerReopens(t) ==
  /\ ~open[t] /\ reopened[t][version[t]] < MaxReopens
  /\ open' = [open EXCEPT ![t] = TRUE]
  /\ reopened' = [reopened EXCEPT ![t][version[t]] = @ + 1]
  /\ UNCHANGED <<file, constant, version, head, pc, local, aborted, replied, attempts, runs, crashes>>

Session(s) ==
  \/ LoadPersistedState(s) \/ RefreshEnds(s) \/ FetchPRState(s)
  \/ UpdateBase(s) \/ WatchChecks(s) \/ Triage(s) \/ TriageEnds(s)
  \/ RerunFailedRun(s) \/ RerunEnds(s) \/ RecordRetry(s)
  \/ Fix(s) \/ FixEnds(s)
  \/ RepliesAborted(s) \/ SkipItem(s) \/ IgnoreItem(s)
  \/ PostReply(s) \/ ReuseReply(s) \/ ReplyFails(s)
  \/ Inspect(s) \/ ResolveThread(s) \/ InspectOrResolveFails(s)
  \/ LastItem(s) \/ SaveReplies(s)
  \/ Abort(s) \/ Crash(s)

Next ==
  \/ \E s \in Sessions : Session(s)
  \/ \E t \in Threads : Comment(t) \/ ReviewerResolves(t) \/ ReviewerReopens(t)

Spec == Init /\ [][Next]_vars

-----------------------------------------------------------------------------
TypeOK ==
  /\ file \in Records /\ corrupt \in BOOLEAN /\ discussions \in SUBSET Threads
  /\ version \in [Threads -> Versions] /\ open \in [Threads -> BOOLEAN] /\ head \in Heads
  /\ pc \in [Sessions -> Stages]
  /\ mem \in [Sessions -> Records]
  /\ at \in [Sessions -> 1..(NThreads + 1)]
  /\ snap \in [Sessions -> [head : Heads, items : [Threads -> Versions \cup {NoVersion}]]]
  /\ plan \in [Sessions -> [items : [Threads -> Decisions], code : BOOLEAN]]
  /\ cycle \in [Sessions -> 0..(MaxCycles - 1)]
  /\ pushed \in [Sessions -> BOOLEAN] /\ failed \in [Sessions -> BOOLEAN]
  /\ aborted \in [Sessions -> BOOLEAN]
  /\ replied \in [Threads -> [Versions -> Nat]]
  /\ reopened \in [Threads -> [Versions -> Nat]]
  /\ attempts \in [Heads -> Nat]
  /\ runs \in Nat /\ crashes \in Nat

\* "Flaky jobs share one gh run rerun --failed attempt per Actions run and exact
\* head SHA": over all runs, through aborts, refusals and returns to the same head,
\* as long as no process died between the request and its record.
RerunOncePerHead == crashes = 0 => \A h \in Heads : attempts[h] <= 1

\* An item is answered at most once per version and opening: the pending record of a
\* reply survives a failed inspection, resolution or abort and the runs after it.
ReplyOncePerOpening ==
  crashes = 0 => \A t \in Threads, v \in Versions : replied[t][v] <= 1 + reopened[t][v]

\* The record never holds more pending replies than a later load accepts.
PendingWithinLimit ==
  /\ Cardinality(file.pending) <= MaxPending
  /\ \A s \in Sessions : Cardinality(mem[s].pending) <= MaxPending

\* A file that could not be parsed is neither overwritten nor acted against: no
\* reply, no rerun, no resolution by a run that could not read what was done before.
CorruptStateBlocksMutation ==
  corrupt => /\ file = EmptyRecord
             /\ \A t \in Threads, v \in Versions : replied[t][v] = 0
             /\ \A h \in Heads : attempts[h] = 0

\* Autopilot resolves only threads it answered, in this run or an earlier one, at the
\* version that was triaged; and the record it answered from is still pending.
ResolvesOnlyAnswered ==
  [][\A t \in Threads, s \in Sessions :
       (open[t] /\ ~open'[t] /\ pc[s] = "resolve" /\ at[s] = t /\ pc'[s] # pc[s])
         => /\ replied[t][snap[s].items[t]] >= 1
            /\ <<t, snap[s].items[t]>> \in mem[s].pending]_vars
=============================================================================
