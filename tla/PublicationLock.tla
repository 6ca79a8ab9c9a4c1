-------------------------- MODULE PublicationLock --------------------------
(***************************************************************************)
(* The advisory per-repository file lock that every publication and every  *)
(* landing takes: extensions/shared/publication-lock.ts.                   *)
(*                                                                         *)
(* A lock is a file.  A contender writes a private candidate and links it  *)
(* to the public path, so creation is atomic; it releases by reading the   *)
(* file, comparing the token, and unlinking.  A contender that finds a     *)
(* lock whose process is gone (or a corrupt one past its grace period)     *)
(* removes it under a second lock, the reaper.  Every file-system call and *)
(* every liveness probe is a step of its own, because other processes run  *)
(* between them; calls of one process do not interleave, because the code  *)
(* is synchronous.                                                         *)
(*                                                                         *)
(* An attempt stands for its owner token.  An attempt that left no file    *)
(* behind may be made again, which stands for a new call with a new token. *)
(***************************************************************************)


CONSTANTS
  Attempts,    \* the calls of acquirePublicationLock, named by owner token
  Pids,        \* process identifiers
  ProcessOf,   \* the process an attempt runs in
  NoFile,      \* nothing at the path
  Unsafe,      \* a symlink, a directory, or what lstat or the read failed on
  Corrupt      \* a regular file that parseOwner rejects

ASSUME AttemptAssumption == ProcessOf \in [Attempts -> Pids]

ASSUME ContentsAssumption ==
  /\ NoFile # Unsafe /\ NoFile # Corrupt /\ Unsafe # Corrupt
  /\ NoFile \notin Attempts /\ Unsafe \notin Attempts /\ Corrupt \notin Attempts

VARIABLES
  lockFile,     \* what is at lockPath; an attempt stands for its owner payload
  reaperFile,   \* what is at lockPath.reaper
  alive,        \* the pids for which process.kill(pid, 0) does not say ESRCH
  aged,         \* the corrupt lock file is older than the grace period
  pc,           \* the next step of each attempt
  seen,         \* the last inspectExisting result an attempt acts on
  startedAged,  \* aged when the attempt read its clock (acquiredAt)
  outcome       \* what the attempt returns, or has returned

vars == <<lockFile, reaperFile, alive, aged, pc, seen, startedAged, outcome>>

Contents == {NoFile, Unsafe, Corrupt} \cup Attempts

\* Steps between which the attempt's own process runs nothing else.
ReapSteps == {"recheck", "rejudge", "unlink", "recreate", "unreap"}
SyncSteps == {"create", "inspect", "retry", "judge", "reap", "remove", "removeAgain"}
               \cup ReapSteps
Steps == SyncSteps \cup {"idle", "held", "settled", "crashed"}

Outcomes == {"none", "acquired", "busy", "failed", "released", "leftBehind"}

Init ==
  /\ lockFile \in {NoFile, Unsafe, Corrupt}
  /\ reaperFile \in {NoFile, Corrupt}
  /\ alive = Pids
  /\ aged \in BOOLEAN
  /\ pc = [a \in Attempts |-> "idle"]
  /\ seen = [a \in Attempts |-> NoFile]
  /\ startedAged = [a \in Attempts |-> FALSE]
  /\ outcome = [a \in Attempts |-> "none"]
----------------------------------------------------------------------------
(* The shapes of a step.                                                   *)

\* Attempt a is at step s and its process runs no other attempt's call.
At(a, s) ==
  /\ pc[a] = s
  /\ \A b \in Attempts \ {a} : ProcessOf[b] = ProcessOf[a] => pc[b] \notin SyncSteps

Goto(a, s) == pc' = [pc EXCEPT ![a] = s]

Return(a, result) ==
  /\ Goto(a, "settled")
  /\ outcome' = [outcome EXCEPT ![a] = result]

\* Leave the reaped section with a result: `finally { reaper.release() }` runs first.
ReturnUnderReaper(a, result) ==
  /\ Goto(a, "unreap")
  /\ outcome' = [outcome EXCEPT ![a] = result]

\* What a saw is not used again.
Forget(a) == seen' = [seen EXCEPT ![a] = NoFile]

\* Fault: a corrupt lock file is never reclaimable.
ReclaimableWithoutGrace(a) == seen[a] \in Attempts /\ ProcessOf[seen[a]] \notin alive

\* isReclaimable of what a saw; the pid is probed at the time of the call.
Reclaimable(a) ==
  \/ seen[a] \in Attempts /\ ProcessOf[seen[a]] \notin alive
  \/ seen[a] = Corrupt /\ startedAged[a]

\* Fault: the candidate is renamed over the lock file, which replaces an existing one.
LinksByRename(a, next) ==
  /\ lockFile' = a
  /\ Goto(a, next)
  /\ outcome' = [outcome EXCEPT ![a] = "acquired"]

\* tryAtomicCreate of the lock file: link, EEXIST, or any other error thrown.
\* Links goes on to `next`, where the attempt owns the lock.
Links(a, next) ==
  /\ lockFile = NoFile
  /\ lockFile' = a
  /\ Goto(a, next)
  /\ outcome' = [outcome EXCEPT ![a] = "acquired"]
----------------------------------------------------------------------------
(* acquirePublicationLock                                                  *)

\* inspectExisting: any error but ENOENT makes the file an unsafe one.
Sights == {lockFile, Unsafe}

Begin(a) ==
  /\ At(a, "idle")
  /\ ProcessOf[a] \in alive
  /\ Goto(a, "create")
  /\ startedAged' = [startedAged EXCEPT ![a] = aged]
  /\ UNCHANGED <<lockFile, reaperFile, alive, aged, seen, outcome>>

Create(a) ==
  /\ At(a, "create")
  /\ \/ Links(a, "held")
     \/ /\ lockFile # NoFile
        /\ Goto(a, "inspect")
        /\ UNCHANGED <<lockFile, outcome>>
     \/ Return(a, "failed") /\ UNCHANGED lockFile
  /\ UNCHANGED <<reaperFile, alive, aged, seen, startedAged>>

Inspect(a) ==
  /\ At(a, "inspect")
  /\ \E f \in Sights :
       seen' = [seen EXCEPT ![a] = f] /\ Goto(a, IF f = NoFile THEN "retry" ELSE "judge")
  /\ UNCHANGED <<lockFile, reaperFile, alive, aged, startedAged, outcome>>

RetryCreate(a) ==
  /\ At(a, "retry")
  /\ \/ Links(a, "held")
     \/ lockFile # NoFile /\ Return(a, "busy") /\ UNCHANGED lockFile
     \/ Return(a, "failed") /\ UNCHANGED lockFile
  /\ UNCHANGED <<reaperFile, alive, aged, seen, startedAged>>

Judge(a) ==
  /\ At(a, "judge")
  /\ \/ Reclaimable(a) /\ Goto(a, "reap") /\ UNCHANGED outcome
     \/ ~Reclaimable(a) /\ Return(a, "busy")
  /\ Forget(a)
  /\ UNCHANGED <<lockFile, reaperFile, alive, aged, startedAged>>

\* Fault: the reaper file carries a pid where the owner token belongs.
CreateReaperWithPid(a) ==
  /\ At(a, "reap")
  /\ reaperFile = NoFile /\ reaperFile' = ProcessOf[a] /\ Goto(a, "recheck")
  /\ UNCHANGED <<lockFile, alive, aged, seen, startedAged, outcome>>

\* The reaper lock is never inspected for staleness: an existing one blocks.
CreateReaper(a) ==
  /\ At(a, "reap")
  /\ \/ reaperFile = NoFile /\ reaperFile' = a /\ Goto(a, "recheck") /\ UNCHANGED outcome
     \/ reaperFile # NoFile /\ Return(a, "busy") /\ UNCHANGED reaperFile
     \/ Return(a, "failed") /\ UNCHANGED reaperFile
  /\ UNCHANGED <<lockFile, alive, aged, seen, startedAged>>

\* Fault: the verdict reached before the reaper lock is not reached again under it.
RecheckWithoutVerdict(a) ==
  /\ At(a, "recheck")
  /\ seen' = [seen EXCEPT ![a] = lockFile]
  /\ Goto(a, IF lockFile = NoFile THEN "recreate" ELSE "unlink")
  /\ UNCHANGED <<lockFile, reaperFile, alive, aged, startedAged, outcome>>

Recheck(a) ==
  /\ At(a, "recheck")
  /\ \E f \in Sights :
       seen' = [seen EXCEPT ![a] = f] /\ Goto(a, IF f = NoFile THEN "recreate" ELSE "rejudge")
  /\ UNCHANGED <<lockFile, reaperFile, alive, aged, startedAged, outcome>>

Rejudge(a) ==
  /\ At(a, "rejudge")
  /\ \/ Reclaimable(a) /\ Goto(a, "unlink") /\ UNCHANGED outcome
     \/ ~Reclaimable(a) /\ ReturnUnderReaper(a, "busy")
  /\ Forget(a)
  /\ UNCHANGED <<lockFile, reaperFile, alive, aged, startedAged>>

\* unlinkSync removes whatever is at the path; any error, ENOENT too, blocks.
UnlinkStale(a) ==
  /\ At(a, "unlink")
  /\ lockFile # NoFile
  /\ lockFile' = NoFile
  /\ Goto(a, "recreate")
  /\ UNCHANGED <<reaperFile, alive, aged, seen, startedAged, outcome>>

UnlinkStaleFails(a) ==
  /\ At(a, "unlink")
  /\ ReturnUnderReaper(a, "busy")
  /\ UNCHANGED <<lockFile, reaperFile, alive, aged, seen, startedAged>>

CreateUnderReaper(a) ==
  /\ At(a, "recreate")
  /\ \/ Links(a, "unreap")
     \/ lockFile # NoFile /\ ReturnUnderReaper(a, "busy") /\ UNCHANGED lockFile
     \/ ReturnUnderReaper(a, "failed") /\ UNCHANGED lockFile
  /\ UNCHANGED <<reaperFile, alive, aged, seen, startedAged>>

\* The reaper's release: its result is ignored, so a failure leaves the file.
ReleaseReaper(a) ==
  /\ At(a, "unreap")
  /\ \/ reaperFile = a /\ reaperFile' = NoFile
     \/ UNCHANGED reaperFile
  /\ Goto(a, IF outcome[a] = "acquired" THEN "held" ELSE "settled")
  /\ UNCHANGED <<lockFile, alive, aged, seen, startedAged, outcome>>
----------------------------------------------------------------------------
(* release()                                                               *)

\* A file that is not a's, or that cannot be inspected, is left alone, and that is ok.
InspectForRelease(a) ==
  /\ At(a, "held")
  /\ \E f \in Sights :
       IF f = a THEN Goto(a, "remove") /\ UNCHANGED outcome ELSE Return(a, "released")
  /\ UNCHANGED <<lockFile, reaperFile, alive, aged, seen, startedAged>>

Remove(a) ==
  /\ At(a, "remove") \/ At(a, "removeAgain")
  /\ lockFile' = NoFile
  /\ Return(a, "released")
  /\ UNCHANGED <<reaperFile, alive, aged, seen, startedAged>>

RemoveFails(a) ==
  /\ \/ At(a, "remove") /\ Goto(a, "removeAgain") /\ UNCHANGED outcome
     \/ At(a, "removeAgain") /\ Return(a, "leftBehind")
  /\ UNCHANGED <<lockFile, reaperFile, alive, aged, seen, startedAged>>
----------------------------------------------------------------------------
(* The surroundings: callers that come back, time, and processes.          *)

\* The caller tries again ("Retry after it finishes") with a new token.
CallAgain(a) ==
  /\ pc[a] = "settled"
  /\ lockFile # a /\ reaperFile # a
  /\ Goto(a, "idle")
  /\ outcome' = [outcome EXCEPT ![a] = "none"]
  /\ startedAged' = [startedAged EXCEPT ![a] = FALSE]
  /\ UNCHANGED <<lockFile, reaperFile, alive, aged, seen>>

GracePeriodEnds ==
  /\ ~aged
  /\ aged' = TRUE
  /\ UNCHANGED <<lockFile, reaperFile, alive, pc, seen, startedAged, outcome>>

\* A process ends, by a crash or because it is done; its attempts stop where they are.
Exit(p) ==
  /\ p \in alive
  /\ alive' = alive \ {p}
  /\ pc' = [a \in Attempts |->
              IF ProcessOf[a] = p /\ pc[a] \notin {"idle", "settled"} THEN "crashed" ELSE pc[a]]
  /\ seen' = [a \in Attempts |-> IF ProcessOf[a] = p THEN NoFile ELSE seen[a]]
  /\ UNCHANGED <<lockFile, reaperFile, aged, startedAged, outcome>>

\* The operating system gives a pid out again, to Kstack or to another program.
PidReused(p) ==
  /\ p \notin alive
  /\ alive' = alive \cup {p}
  /\ UNCHANGED <<lockFile, reaperFile, aged, pc, seen, startedAged, outcome>>

Acquisition(a) ==
  \/ Begin(a) \/ Create(a) \/ Inspect(a) \/ RetryCreate(a) \/ Judge(a)
  \/ CreateReaper(a) \/ Recheck(a) \/ Rejudge(a) \/ UnlinkStale(a)
  \/ UnlinkStaleFails(a) \/ CreateUnderReaper(a) \/ ReleaseReaper(a)

Release(a) == InspectForRelease(a) \/ Remove(a) \/ RemoveFails(a)

Calls == \E a \in Attempts : Acquisition(a) \/ Release(a) \/ CallAgain(a)

Next ==
  \/ Calls
  \/ GracePeriodEnds
  \/ \E p \in Pids : Exit(p)
  \/ \E p \in Pids : PidReused(p)

Spec == Init /\ [][Next]_vars
----------------------------------------------------------------------------
(* The condition under which the lock is a lock.  Recheck reads the owner, *)
(* Rejudge probes its pid; between the two another process may finish,     *)
(* release, and exit, and a third may lock.  A calm behaviour has no such  *)
(* exit.                                                                   *)

CalmExit(p) ==
  /\ ~ \E a \in Attempts :
         pc[a] = "rejudge" /\ seen[a] \in Attempts /\ ProcessOf[seen[a]] = p
  /\ Exit(p)

CalmNext ==
  \/ Calls
  \/ GracePeriodEnds
  \/ \E p \in Pids : CalmExit(p)
  \/ \E p \in Pids : PidReused(p)

CalmSpec == Init /\ [][CalmNext]_vars

\* Scheduling for liveness: a running call proceeds, callers come back as long
\* as their process lives, and the file system does not fail a call for ever; that a
\* file cannot be inspected is transient.
Fairness ==
  /\ <>[][ \A a \in Attempts : Inspect(a) \/ Recheck(a) => seen'[a] = lockFile ]_vars
  /\ \A a \in Attempts :
       /\ WF_vars((Acquisition(a) /\ pc[a] # "idle") \/ Release(a) \/ CallAgain(a))
       /\ SF_vars(Begin(a))
       /\ SF_vars(Create(a) /\ outcome'[a] # "failed")
       /\ SF_vars(CreateReaper(a) /\ outcome'[a] # "failed")
       /\ SF_vars(UnlinkStale(a))

FairSpec == CalmSpec /\ Fairness
----------------------------------------------------------------------------
(* What the lock promises.                                                 *)

TypeOK ==
  /\ lockFile \in Contents
  /\ reaperFile \in Contents
  /\ alive \subseteq Pids
  /\ aged \in BOOLEAN
  /\ pc \in [Attempts -> Steps]
  /\ seen \in [Attempts -> Contents]
  /\ startedAged \in [Attempts -> BOOLEAN]
  /\ outcome \in [Attempts -> Outcomes]

\* The caller of a may be publishing or landing.
Holding(a) ==
  \/ pc[a] = "held"
  \/ pc[a] = "unreap" /\ outcome[a] = "acquired"

\* The lock is a's until its unlink: the holder, and the holder that lets go.
Owning(a) == Holding(a) \/ pc[a] \in {"remove", "removeAgain"}

UnderReaper(a) == pc[a] \in ReapSteps

\* Two callers never publish or land in one repository at once.
MutualExclusion ==
  \A a, b \in Attempts : Holding(a) /\ Holding(b) => a = b

\* "does not steal an old lock while its holder is alive" (publication-lock.test.ts):
\* as long as an attempt holds or lets go of the lock, the file is its own.
HolderKeepsItsFile == \A a \in Attempts : Owning(a) => lockFile = a

\* At most one contender is deciding the fate of a stale lock, and the reaper file is its own.
OneReaper == \A a \in Attempts : UnderReaper(a) => reaperFile = a

\* The callers see a mutex: RepositoryMutex, whose holders are the attempts
\* whose caller may be publishing or landing.
LockHolders == {a \in Attempts : Holding(a)}

Mutex == INSTANCE RepositoryMutex WITH Holders <- Attempts, holders <- LockHolders

ImplementsMutex == Mutex!Spec

\* A lock file only ever disappears by its owner's release, or because the
\* reaper found a corrupt one or one whose attempt is over (dead or left behind).
OnlyStaleLocksAreReaped ==
  [][ lockFile # NoFile /\ lockFile' # lockFile
      => \/ lockFile \in Attempts /\ pc[lockFile] \in {"remove", "removeAgain"}
         \/ /\ \E a \in Attempts : pc[a] = "unlink" /\ reaperFile = a
            /\ lockFile = Corrupt \/ pc[lockFile] \in {"crashed", "settled"} ]_vars

\* A lock of a dead process, or a corrupt one past its grace period, does not
\* block the repository for ever, unless the reaper lock was abandoned or no
\* contender is left.
ReaperAbandoned == reaperFile # NoFile /\ ~ \E a \in Attempts : UnderReaper(a) /\ reaperFile = a

NoContender ==
  \A a \in Attempts :
    \/ pc[a] = "crashed"
    \/ ProcessOf[a] \notin alive
    \/ pc[a] = "settled" /\ (lockFile = a \/ reaperFile = a)

StaleLock(f) ==
  /\ lockFile = f
  /\ IF f = Corrupt THEN aged ELSE ProcessOf[f] \notin alive

StaleLockIsReclaimed ==
  \A f \in Attempts \cup {Corrupt} :
    StaleLock(f) ~> (~StaleLock(f) \/ ReaperAbandoned \/ NoContender)
=============================================================================
