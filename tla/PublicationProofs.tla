------------------------- MODULE PublicationProofs -------------------------
(***************************************************************************)
(* The repository publication lock and the transaction that runs under it. *)
(* The lock: type correctness in every behaviour, and its safety in every  *)
(* calm behaviour, for any set of attempts, any set of processes and any   *)
(* assignment of the ones to the others.  The transaction: for any set of  *)
(* transactions, whichever of them ask a user, and any set of repository   *)
(* states, what is applied is what was confirmed, under the lock, and an   *)
(* outcome that claims nothing happened is true.                           *)
(***************************************************************************)
EXTENDS PublicationLock, StackTransaction, TLAPS

Over(a) == pc[a] \in {"crashed", "settled"}

Active(a) == pc[a] \notin {"idle", "settled", "crashed"}

\* A call in progress runs in a live process.
ActiveIsAlive == \A a \in Attempts : Active(a) => ProcessOf[a] \in alive

\* A lock file that names an attempt is that attempt's to remove, or left over.
FileIsOwnedOrLeft == lockFile \in Attempts => Owning(lockFile) \/ Over(lockFile)

\* What the reaper saw, if it is reclaimable now, is still there.
SightIsCurrent ==
  \A a \in Attempts : pc[a] = "rejudge" =>
    /\ seen[a] = Corrupt => lockFile = Corrupt
    /\ seen[a] \in Attempts /\ ProcessOf[seen[a]] \notin alive => lockFile = seen[a]

\* What the reaper is about to unlink belongs to nobody any more.
DoomedFileIsStale ==
  \A a \in Attempts : pc[a] = "unlink" =>
    lockFile = Corrupt \/ (lockFile \in Attempts /\ Over(lockFile))

IInv ==
  /\ TypeOK
  /\ OneReaper
  /\ HolderKeepsItsFile
  /\ ActiveIsAlive
  /\ FileIsOwnedOrLeft
  /\ SightIsCurrent
  /\ DoomedFileIsStale
----------------------------------------------------------------------------
(* Every variable keeps its type, whatever the processes do.               *)
THEOREM TypeCorrect == Spec => []TypeOK
<1>1. Init => TypeOK
  BY DEF Init, TypeOK, Contents, Steps, Outcomes
<1>2. TypeOK /\ [Next]_vars => TypeOK'
  <2> SUFFICES ASSUME TypeOK, [Next]_vars PROVE TypeOK'
    OBVIOUS
  <2> USE DEF TypeOK, Contents, Steps, SyncSteps, ReapSteps, Outcomes, At, Goto,
              Return, ReturnUnderReaper, Links, Forget
  <2>1. ASSUME NEW a \in Attempts, Acquisition(a) PROVE TypeOK'
    <3>1. CASE Begin(a)             BY <3>1 DEF Begin
    <3>2. CASE Create(a)            BY <3>2 DEF Create
    <3>3. CASE Inspect(a)           BY <3>3 DEF Inspect, Sights
    <3>4. CASE RetryCreate(a)       BY <3>4 DEF RetryCreate
    <3>5. CASE Judge(a)             BY <3>5 DEF Judge
    <3>6. CASE CreateReaper(a)      BY <3>6 DEF CreateReaper
    <3>7. CASE Recheck(a)           BY <3>7 DEF Recheck, Sights
    <3>8. CASE Rejudge(a)           BY <3>8 DEF Rejudge
    <3>9. CASE UnlinkStale(a)       BY <3>9 DEF UnlinkStale
    <3>10. CASE UnlinkStaleFails(a) BY <3>10 DEF UnlinkStaleFails
    <3>11. CASE CreateUnderReaper(a) BY <3>11 DEF CreateUnderReaper
    <3>12. CASE ReleaseReaper(a)    BY <3>12 DEF ReleaseReaper
    <3>13. QED
      BY <2>1, <3>1, <3>2, <3>3, <3>4, <3>5, <3>6, <3>7, <3>8, <3>9, <3>10,
         <3>11, <3>12 DEF Acquisition
  <2>2. ASSUME NEW a \in Attempts, Release(a) PROVE TypeOK'
    BY <2>2 DEF Release, InspectForRelease, Remove, RemoveFails
  <2>3. ASSUME NEW a \in Attempts, CallAgain(a) PROVE TypeOK'
    BY <2>3 DEF CallAgain
  <2>4. ASSUME GracePeriodEnds PROVE TypeOK'
    BY <2>4 DEF GracePeriodEnds
  <2>5. ASSUME NEW p \in Pids, Exit(p) PROVE TypeOK'
    BY <2>5 DEF Exit
  <2>6. ASSUME NEW p \in Pids, PidReused(p) PROVE TypeOK'
    BY <2>6 DEF PidReused
  <2>7. CASE UNCHANGED vars
    BY <2>7 DEF vars
  <2>8. QED
    BY <2>1, <2>2, <2>3, <2>4, <2>5, <2>6, <2>7 DEF Next, Calls
<1>3. QED
  BY <1>1, <1>2, PTL DEF Spec
----------------------------------------------------------------------------
LEMMA InitIInv == Init => IInv
BY ContentsAssumption
   DEF Init, IInv, TypeOK, Contents, Steps, Outcomes, OneReaper, UnderReaper, ReapSteps,
   HolderKeepsItsFile, Owning, Holding, ActiveIsAlive, Active, FileIsOwnedOrLeft,
   SightIsCurrent, DoomedFileIsStale

LEMMA CalmStepIInv == IInv /\ TypeOK' /\ [CalmNext]_vars => IInv'
<1> SUFFICES ASSUME IInv, TypeOK', [CalmNext]_vars PROVE IInv'
  OBVIOUS
<1> USE AttemptAssumption, ContentsAssumption
    DEF IInv, TypeOK, Contents, Steps, SyncSteps, ReapSteps, Outcomes, OneReaper, UnderReaper,
        HolderKeepsItsFile, Owning, Holding, ActiveIsAlive, Active, FileIsOwnedOrLeft, Over,
        SightIsCurrent, DoomedFileIsStale,
        At, Goto, Return, ReturnUnderReaper, Links, Forget
<1>1. ASSUME NEW a \in Attempts, Acquisition(a) PROVE IInv'
  <2>1. CASE Begin(a)              BY <2>1 DEF Begin
  <2>2. CASE Create(a)             BY <2>2 DEF Create
  <2>3. CASE Inspect(a)            BY <2>3 DEF Inspect, Sights
  <2>4. CASE RetryCreate(a)        BY <2>4 DEF RetryCreate
  <2>5. CASE Judge(a)              BY <2>5 DEF Judge
  <2>6. CASE CreateReaper(a)       BY <2>6 DEF CreateReaper
  <2>7. CASE Recheck(a)            BY <2>7 DEF Recheck, Sights
  <2>8. CASE Rejudge(a)            BY <2>8 DEF Rejudge, Reclaimable
  <2>9. CASE UnlinkStale(a)        BY <2>9 DEF UnlinkStale
  <2>10. CASE UnlinkStaleFails(a)  BY <2>10 DEF UnlinkStaleFails
  <2>11. CASE CreateUnderReaper(a) BY <2>11 DEF CreateUnderReaper
  <2>12. CASE ReleaseReaper(a)     BY <2>12 DEF ReleaseReaper
  <2>13. QED
    BY <1>1, <2>1, <2>2, <2>3, <2>4, <2>5, <2>6, <2>7, <2>8, <2>9, <2>10,
       <2>11, <2>12 DEF Acquisition
<1>2. ASSUME NEW a \in Attempts, Release(a) PROVE IInv'
  <2>1. CASE InspectForRelease(a) BY <2>1 DEF InspectForRelease, Sights
  <2>2. CASE Remove(a)            BY <2>2 DEF Remove
  <2>3. CASE RemoveFails(a)       BY <2>3 DEF RemoveFails
  <2>4. QED BY <1>2, <2>1, <2>2, <2>3 DEF Release
<1>3. ASSUME NEW a \in Attempts, CallAgain(a) PROVE IInv'
  BY <1>3 DEF CallAgain
<1>4. ASSUME GracePeriodEnds PROVE IInv'
  BY <1>4 DEF GracePeriodEnds
<1>5. ASSUME NEW p \in Pids, CalmExit(p) PROVE IInv'
  BY <1>5 DEF Exit, CalmExit
<1>6. ASSUME NEW p \in Pids, PidReused(p) PROVE IInv'
  BY <1>6 DEF PidReused
<1>7. CASE UNCHANGED vars
  BY <1>7 DEF vars
<1>8. QED
  BY <1>1, <1>2, <1>3, <1>4, <1>5, <1>6, <1>7 DEF CalmNext, Calls
----------------------------------------------------------------------------
LEMMA CalmIsSpec == CalmSpec => Spec
<1>1. [CalmNext]_vars => [Next]_vars
  BY DEF CalmNext, CalmExit, Next
<1>2. QED
  BY <1>1, PTL DEF CalmSpec, Spec

LEMMA CalmInvariant == CalmSpec => []IInv
<1>1. Init => IInv
  BY InitIInv
<1>2. IInv /\ TypeOK' /\ [CalmNext]_vars => IInv'
  BY CalmStepIInv
<1>3. QED
  BY <1>1, <1>2, CalmIsSpec, TypeCorrect, PTL DEF CalmSpec

(* In a calm behaviour two callers never hold the repository lock at once, *)
(* however many contend, crash, come back or find a stale lock.            *)
THEOREM LockExcludes == CalmSpec => []MutualExclusion
<1>1. IInv => MutualExclusion
  BY DEF IInv, HolderKeepsItsFile, Owning, MutualExclusion
<1>2. QED
  BY <1>1, CalmInvariant, PTL

(* In a calm behaviour the file of an attempt that holds or lets go of the *)
(* lock is never taken from it.                                            *)
THEOREM HolderIsNotRobbed == CalmSpec => []HolderKeepsItsFile
<1>1. IInv => HolderKeepsItsFile
  BY DEF IInv
<1>2. QED
  BY <1>1, CalmInvariant, PTL

(* At most one contender at a time decides about a stale lock, with no     *)
(* assumption on when processes end.                                       *)
THEOREM ReapersExclude == Spec => []OneReaper
<1>1. Init => OneReaper
  BY DEF Init, OneReaper, UnderReaper, ReapSteps
<1>2. TypeOK /\ OneReaper /\ [Next]_vars => OneReaper'
  <2> SUFFICES ASSUME TypeOK, OneReaper, [Next]_vars PROVE OneReaper'
    OBVIOUS
  <2> USE ContentsAssumption
      DEF TypeOK, Contents, Steps, SyncSteps, ReapSteps, OneReaper, UnderReaper,
          At, Goto, Return, ReturnUnderReaper, Links
  <2>1. ASSUME NEW a \in Attempts, Acquisition(a) PROVE OneReaper'
    BY <2>1 DEF Acquisition, Begin, Create, Inspect, RetryCreate, Judge, CreateReaper,
                Recheck, Rejudge, UnlinkStale, UnlinkStaleFails, CreateUnderReaper,
                ReleaseReaper
  <2>2. ASSUME NEW a \in Attempts, Release(a) PROVE OneReaper'
    BY <2>2 DEF Release, InspectForRelease, Remove, RemoveFails
  <2>3. ASSUME NEW a \in Attempts, CallAgain(a) PROVE OneReaper'
    BY <2>3 DEF CallAgain
  <2>4. ASSUME GracePeriodEnds \/ UNCHANGED vars \/ \E p \in Pids : Exit(p) \/ PidReused(p)
        PROVE OneReaper'
    BY <2>4 DEF GracePeriodEnds, vars, Exit, PidReused
  <2>5. QED
    BY <2>1, <2>2, <2>3, <2>4 DEF Next, Calls
<1>3. QED
  BY <1>1, <1>2, TypeCorrect, PTL DEF Spec

(* In a calm behaviour a lock file disappears only by its owner's release  *)
(* or because the reaper found it stale.                                   *)
THEOREM OnlyStaleReaped == CalmSpec => OnlyStaleLocksAreReaped
<1> DEFINE Removal ==
      lockFile # NoFile /\ lockFile' # lockFile
      => \/ lockFile \in Attempts /\ pc[lockFile] \in {"remove", "removeAgain"}
         \/ /\ \E a \in Attempts : pc[a] = "unlink" /\ reaperFile = a
            /\ lockFile = Corrupt \/ pc[lockFile] \in {"crashed", "settled"}
<1>1. IInv /\ [CalmNext]_vars => [Removal]_vars
  <2> SUFFICES ASSUME IInv, CalmNext PROVE Removal
    OBVIOUS
  <2>1. ASSUME NEW a \in Attempts, UnlinkStale(a) PROVE Removal
    BY <2>1 DEF UnlinkStale, At, IInv, OneReaper, UnderReaper, ReapSteps, DoomedFileIsStale, Over
  <2>2. ASSUME NEW a \in Attempts, Remove(a) PROVE Removal
    BY <2>2 DEF Remove, At, IInv, HolderKeepsItsFile, Owning
  <2>3. CASE ~ \E a \in Attempts : UnlinkStale(a) \/ Remove(a)
    BY <2>3 DEF CalmNext, Calls, CalmExit, Acquisition, Release, Begin, Create, Links, Inspect, RetryCreate, Judge,
                CreateReaper, Recheck, Rejudge, UnlinkStaleFails, CreateUnderReaper,
                ReleaseReaper, InspectForRelease, RemoveFails, CallAgain, GracePeriodEnds,
                Exit, PidReused
  <2>4. QED
    BY <2>1, <2>2, <2>3
<1>2. QED
  BY <1>1, CalmInvariant, PTL DEF CalmSpec, OnlyStaleLocksAreReaped
----------------------------------------------------------------------------
(* Every calm behaviour of the lock files is a behaviour of the abstract   *)
(* mutex: taking the lock is linking the file, giving it up is the start   *)
(* of the release or the end of the process.                               *)
LEMMA StepRefines ==
  IInv /\ IInv' /\ [CalmNext]_vars => [Mutex!Next]_LockHolders
<1> DEFINE H == LockHolders
<1> SUFFICES ASSUME IInv, IInv', [CalmNext]_vars, H' # H
             PROVE \E h \in Attempts : \/ H = {} /\ H' = {h}
                                       \/ H = {h} /\ H' = {}
  BY DEF Mutex!Next, Mutex!Acquire, Mutex!LetGo
<1>1. \A a, b \in Attempts : Holding(a) /\ Holding(b) => a = b
  BY DEF IInv, HolderKeepsItsFile, Owning
<1>2. \A a, b \in Attempts : Holding(a)' /\ Holding(b)' => a = b
  BY DEF IInv, HolderKeepsItsFile, Owning
<1>3. ~ \E a, b \in Attempts : a # b /\ Holding(a) /\ Holding(b)'
  <2> SUFFICES ASSUME NEW a \in Attempts, NEW b \in Attempts, a # b, Holding(a), Holding(b)'
               PROVE FALSE
    OBVIOUS
  <2>1. lockFile = a /\ lockFile' = b
    BY DEF IInv, HolderKeepsItsFile, Owning
  <2>2. ~Holding(b)
    BY <1>1
  <2>3. CASE \E c \in Attempts : UnlinkStale(c) \/ Remove(c)
    BY <2>1, <2>3, ContentsAssumption DEF UnlinkStale, Remove
  <2>4. CASE ~ \E c \in Attempts : UnlinkStale(c) \/ Remove(c)
    BY <2>1, <2>4, ContentsAssumption
       DEF vars, CalmNext, Calls, CalmExit, Acquisition, Release, Begin, Create, Links, Inspect, RetryCreate, Judge,
           CreateReaper, Recheck, Rejudge, UnlinkStaleFails, CreateUnderReaper,
           ReleaseReaper, InspectForRelease, RemoveFails, CallAgain, GracePeriodEnds,
           Exit, PidReused
  <2>5. QED
    BY <2>3, <2>4
<1>4. H = {} \/ \E h \in Attempts : H = {h}
  BY <1>1 DEF LockHolders
<1>5. H' = {} \/ \E h \in Attempts : H' = {h}
  BY <1>2 DEF LockHolders
<1>6. QED
  BY <1>3, <1>4, <1>5 DEF LockHolders

THEOREM LockImplementsMutex == CalmSpec => ImplementsMutex
<1>1. Init => Mutex!Init
  BY DEF Init, Mutex!Init, LockHolders, Holding
<1>2. QED
  BY <1>1, StepRefines, CalmInvariant, PTL DEF CalmSpec, ImplementsMutex, Mutex!Spec
-----------------------------------------------------------------------------
(* The transaction.                                                        *)

InLock(t) == at[t] \in {"locked", "replanning", "replanned", "applying", "releasing"}

\* The mutex and the program counters agree.
LockIsWhereItShouldBe ==
  /\ \A t \in Transactions : t \in holders <=> InLock(t)
  /\ \A t, u \in holders : t = u

\* How far a transaction has come tells what it knows.
Knowledge ==
  \A t \in Transactions :
    /\ at[t] \in {"locking", "locked", "replanning", "replanned", "applying"} => confirmed[t]
    /\ at[t] \in {"replanned", "applying"} => ~overtaken[t]
    /\ at[t] = "applying" => fresh[t] = planned[t]

\* Only apply changes the repository, and only its own outcomes follow it.
Honesty ==
  \A t \in Transactions :
    /\ at[t] \notin {"releasing", "settled", "crashed"} => settlement[t] = "none"
    /\ touched[t] => /\ at[t] \in {"applying", "releasing", "settled", "crashed"}
                     /\ settlement[t] \in {"none", "applied", "threw"}

TransactionInv == TransactionTypeOK /\ LockIsWhereItShouldBe /\ Knowledge /\ Honesty
----------------------------------------------------------------------------
LEMMA TransactionInitHolds == TransactionInit => TransactionInv
BY TransactionAssumption
   DEF TransactionInit, TransactionInv, TransactionTypeOK, Stages, Settlements, LockIsWhereItShouldBe,
       InLock, Knowledge, Honesty

LEMMA TransactionStepHolds ==
  TransactionInv /\ [TransactionNext]_transactionVars => TransactionInv'
<1> SUFFICES ASSUME TransactionInv, [TransactionNext]_transactionVars PROVE TransactionInv'
  OBVIOUS
<1> USE TransactionAssumption
    DEF TransactionInv, TransactionTypeOK, Stages, Settlements, LockIsWhereItShouldBe, InLock,
        Knowledge, Honesty, Enter, Settle, SettleLocked, RepositoryLock!Acquire, RepositoryLock!LetGo
<1>1. ASSUME NEW t \in Transactions, Step(t) PROVE TransactionInv'
  <2>1. CASE Start(t)        BY <2>1 DEF Start
  <2>2. CASE Plan(t)         BY <2>2 DEF Plan
  <2>3. CASE PlanFails(t)    BY <2>3 DEF PlanFails
  <2>4. CASE Planned(t)
    <3>1. CASE aborted[t]                      BY <2>4, <3>1 DEF Planned
    <3>2. CASE ~aborted[t] /\ t \in Interactive BY <2>4, <3>2 DEF Planned
    <3>3. CASE ~aborted[t] /\ t \notin Interactive
      <4>1. TransactionTypeOK'                 BY <2>4, <3>3 DEF Planned
      <4>2. LockIsWhereItShouldBe'  BY <2>4, <3>3 DEF Planned
      <4>3. Knowledge'              BY <2>4, <3>3 DEF Planned
      <4>4. Honesty'                BY <2>4, <3>3 DEF Planned
      <4>5. QED BY <4>1, <4>2, <4>3, <4>4
    <3>4. QED BY <3>1, <3>2, <3>3
  <2>5. CASE Answer(t)
    <3>1. CASE Enter(t, "locking")
      <4>1. TransactionTypeOK'                 BY ZenonT(60), <2>5, <3>1 DEF Answer
      <4>2. LockIsWhereItShouldBe'  BY <2>5, <3>1 DEF Answer
      <4>3. Knowledge'              BY <2>5, <3>1 DEF Answer
      <4>4. Honesty'                BY <2>5, <3>1 DEF Answer
      <4>5. QED BY <4>1, <4>2, <4>3, <4>4
    <3>2. CASE ~Enter(t, "locking")  BY <2>5, <3>2 DEF Answer
    <3>3. QED BY <3>1, <3>2
  <2>6. CASE Lock(t)         BY <2>6 DEF Lock
  <2>7. CASE Locked(t)       BY <2>7 DEF Locked
  <2>8. CASE Replan(t)       BY <2>8 DEF Replan
  <2>9. CASE ReplanFails(t)  BY <2>9 DEF ReplanFails
  <2>10. CASE Compare(t)     BY <2>10 DEF Compare
  <2>11. CASE Mutate(t)      BY <2>11 DEF Mutate
  <2>12. CASE ApplyReturns(t) BY <2>12 DEF ApplyReturns
  <2>13. CASE ReleaseLock(t)     BY <2>13 DEF ReleaseLock
  <2>14. QED
    BY <1>1, <2>1, <2>2, <2>3, <2>4, <2>5, <2>6, <2>7, <2>8, <2>9, <2>10, <2>11, <2>12,
       <2>13 DEF Step
<1>2. ASSUME NEW t \in Transactions, Abort(t) PROVE TransactionInv'
  BY <1>2 DEF Abort
<1>3. ASSUME NEW t \in Transactions, Crash(t) PROVE TransactionInv'
  BY <1>3 DEF Crash
<1>4. CASE Outsider
  BY <1>4 DEF Outsider
<1>5. CASE UNCHANGED transactionVars
  BY <1>5 DEF transactionVars
<1>6. QED
  BY <1>1, <1>2, <1>3, <1>4, <1>5 DEF TransactionNext

LEMMA TransactionInductive == TransactionSpec => []TransactionInv
BY TransactionInitHolds, TransactionStepHolds, PTL DEF TransactionSpec
----------------------------------------------------------------------------
(* Every variable keeps its type.                                          *)
THEOREM TransactionTypeCorrect == TransactionSpec => []TransactionTypeOK
<1>1. TransactionInv => TransactionTypeOK
  BY DEF TransactionInv
<1>2. QED
  BY <1>1, TransactionInductive, PTL

(* apply only ever runs on the plan that was confirmed, and no other       *)
(* transaction changed the repository since that plan was recomputed.      *)
THEOREM ConfirmedIsApplied == TransactionSpec => []AppliesWhatWasConfirmed
<1>1. TransactionInv => AppliesWhatWasConfirmed
  BY DEF TransactionInv, Knowledge, AppliesWhatWasConfirmed
<1>2. QED
  BY <1>1, TransactionInductive, PTL

(* cancelled, declined, busy, blocked, stale and failed are only reported  *)
(* by the transaction itself when it changed nothing.                      *)
THEOREM SettlementIsHonest == TransactionSpec => []SettledMeansUntouched
<1>1. TransactionInv => SettledMeansUntouched
  BY DEF TransactionInv, Honesty, SettledMeansUntouched
<1>2. QED
  BY <1>1, TransactionInductive, PTL

(* The repository is only changed under the lock, and no dialog is open    *)
(* while it is held.                                                       *)
THEOREM ApplyIsLocked == TransactionSpec => []LockCoversApply
<1>1. TransactionInv => LockCoversApply
  BY DEF TransactionInv, TransactionTypeOK, LockIsWhereItShouldBe, InLock, LockCoversApply
<1>2. QED
  BY <1>1, TransactionInductive, PTL
=============================================================================
