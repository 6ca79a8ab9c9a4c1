------------------------- MODULE StackTransaction -------------------------
(***************************************************************************)
(* The transaction every stack publication and landing runs in:            *)
(* extensions/shared/stack/transaction.ts.  Plan, ask, lock, plan again,   *)
(* compare, apply, release.  Several transactions of one repository run at *)
(* once (sessions, worktrees); each await is a point where the others, the *)
(* abort signal and other programs act.                                    *)
(*                                                                         *)
(* A plan is determined by the repository it was computed from, so a plan  *)
(* identity is a repository state.  The lock is the abstract mutex that    *)
(* PublicationLock implements; it may answer busy at any time, because a   *)
(* left-over lock file blocks too.  What apply does inside is the          *)
(* provider's; here it changes the repository any number of times.         *)
(***************************************************************************)
CONSTANTS
  Transactions,
  Interactive,  \* those with authorization "interactive-confirmation"
  HasUI,        \* those whose context has a UI to confirm in
  Repositories, \* repository states, which are also the identities of plans
  NoPlan

ASSUME TransactionAssumption ==
  /\ Interactive \subseteq Transactions
  /\ HasUI \subseteq Transactions
  /\ NoPlan \notin Repositories

VARIABLES
  at,         \* where each transaction is
  repository, \* the local and remote state that plan() reads and apply() changes
  planned,    \* the plan shown to the user (planned.plan)
  fresh,      \* the plan recomputed under the lock
  confirmed,  \* the user said yes to `planned`, or no one had to be asked
  aborted,    \* the transaction's AbortSignal
  holders,    \* who holds the repository lock
  settlement, \* how the transaction settled
  touched,    \* apply changed the repository
  overtaken   \* another transaction changed the repository since the last plan()

transactionVars ==
  <<at, repository, planned, fresh, confirmed, aborted, holders, settlement, touched, overtaken>>

RepositoryLock == INSTANCE RepositoryMutex WITH Holders <- Transactions

Stages == {"idle", "planning", "planned", "confirming", "locking", "locked",
           "replanning", "replanned", "applying", "releasing", "settled", "crashed"}

\* "applied" is the provider's own outcome; "threw" leaves through an exception.
Settlements == {"none", "blocked", "declined", "busy", "stale", "cancelled", "failed",
                "applied", "threw"}

TransactionInit ==
  /\ at = [t \in Transactions |-> "idle"]
  /\ repository \in Repositories
  /\ planned = [t \in Transactions |-> NoPlan]
  /\ fresh = [t \in Transactions |-> NoPlan]
  /\ confirmed = [t \in Transactions |-> FALSE]
  /\ aborted = [t \in Transactions |-> FALSE]
  /\ holders = {}
  /\ settlement = [t \in Transactions |-> "none"]
  /\ touched = [t \in Transactions |-> FALSE]
  /\ overtaken = [t \in Transactions |-> FALSE]
----------------------------------------------------------------------------
Enter(t, stage) == at' = [at EXCEPT ![t] = stage]

\* settled(...) before the lock, or an exception that leaves through it.
Settle(t, o) == Enter(t, "settled") /\ settlement' = [settlement EXCEPT ![t] = o]

\* The outcome of the locked half; the lock is released on the way out.
SettleLocked(t, o) == Enter(t, "releasing") /\ settlement' = [settlement EXCEPT ![t] = o]

\* The check that follows every await.
IfAborted(t) == aborted[t]

Start(t) ==
  /\ at[t] = "idle"
  /\ \/ t \in Interactive \ HasUI /\ Settle(t, "blocked")
     \/ t \notin Interactive \ HasUI /\ aborted[t] /\ Settle(t, "cancelled")
     \/ /\ t \notin Interactive \ HasUI /\ ~aborted[t]
        /\ Enter(t, "planning") /\ UNCHANGED settlement
  /\ UNCHANGED <<repository, planned, fresh, confirmed, aborted, holders, touched, overtaken>>

\* adapter.plan reads the repository; it may also find blockers or throw.
Plan(t) ==
  /\ at[t] = "planning"
  /\ planned' = [planned EXCEPT ![t] = repository]
  /\ overtaken' = [overtaken EXCEPT ![t] = FALSE]
  /\ Enter(t, "planned")
  /\ UNCHANGED <<repository, fresh, confirmed, aborted, holders, settlement, touched>>

PlanFails(t) ==
  /\ at[t] = "planning"
  /\ \/ Settle(t, IF aborted[t] THEN "cancelled" ELSE "blocked")
     \/ Settle(t, "threw")
  /\ UNCHANGED <<repository, planned, fresh, confirmed, aborted, holders, touched, overtaken>>

Planned(t) ==
  /\ at[t] = "planned"
  /\ \/ aborted[t] /\ Settle(t, "cancelled") /\ UNCHANGED confirmed
     \/ /\ ~aborted[t] /\ t \in Interactive
        /\ Enter(t, "confirming") /\ UNCHANGED <<settlement, confirmed>>
     \/ /\ ~aborted[t] /\ t \notin Interactive
        /\ confirmed' = [confirmed EXCEPT ![t] = TRUE]
        /\ Enter(t, "locking") /\ UNCHANGED settlement
  /\ UNCHANGED <<repository, planned, fresh, aborted, holders, touched, overtaken>>

\* Fault: a declined dialog gets a status of its own that no caller knows.
AnswerIsRefused(t) ==
  /\ at[t] = "confirming"
  /\ Settle(t, "refused") /\ UNCHANGED confirmed
  /\ UNCHANGED <<repository, planned, fresh, aborted, holders, touched, overtaken>>

\* ui.confirm answers yes, answers no, or throws; an abort wins over the answer.
Answer(t) ==
  /\ at[t] = "confirming"
  /\ \/ /\ ~aborted[t]
        /\ confirmed' = [confirmed EXCEPT ![t] = TRUE]
        /\ Enter(t, "locking") /\ UNCHANGED settlement
     \/ /\ Settle(t, IF aborted[t] THEN "cancelled" ELSE "declined")
        /\ UNCHANGED confirmed
     \/ Settle(t, "threw") /\ UNCHANGED confirmed
  /\ UNCHANGED <<repository, planned, fresh, aborted, holders, touched, overtaken>>

\* acquireRepositoryPublicationLock: the identity lookup may fail, the lock may be busy.
Lock(t) ==
  /\ at[t] = "locking"
  /\ \/ RepositoryLock!Acquire(t) /\ Enter(t, "locked") /\ UNCHANGED settlement
     \/ /\ \E o \in {"busy", "failed"} : Settle(t, IF aborted[t] THEN "cancelled" ELSE o)
        /\ UNCHANGED holders
  /\ UNCHANGED <<repository, planned, fresh, confirmed, aborted, touched, overtaken>>

Locked(t) ==
  /\ at[t] = "locked"
  /\ \/ aborted[t] /\ SettleLocked(t, "cancelled")
     \/ ~aborted[t] /\ Enter(t, "replanning") /\ UNCHANGED settlement
  /\ UNCHANGED <<repository, planned, fresh, confirmed, aborted, holders, touched, overtaken>>

Replan(t) ==
  /\ at[t] = "replanning"
  /\ fresh' = [fresh EXCEPT ![t] = repository]
  /\ overtaken' = [overtaken EXCEPT ![t] = FALSE]
  /\ Enter(t, "replanned")
  /\ UNCHANGED <<repository, planned, confirmed, aborted, holders, settlement, touched>>

ReplanFails(t) ==
  /\ at[t] = "replanning"
  /\ \/ SettleLocked(t, IF aborted[t] THEN "cancelled" ELSE "blocked")
     \/ SettleLocked(t, "threw")
  /\ UNCHANGED <<repository, planned, fresh, confirmed, aborted, holders, touched, overtaken>>

\* Fault: the recomputed plan is applied without a look at the one that was confirmed.
CompareNothing(t) ==
  /\ at[t] = "replanned"
  /\ \/ aborted[t] /\ SettleLocked(t, "cancelled")
     \/ ~aborted[t] /\ Enter(t, "applying") /\ UNCHANGED settlement
  /\ UNCHANGED <<repository, planned, fresh, confirmed, aborted, holders, touched, overtaken>>

Compare(t) ==
  /\ at[t] = "replanned"
  /\ \/ aborted[t] /\ SettleLocked(t, "cancelled")
     \/ ~aborted[t] /\ fresh[t] # planned[t] /\ SettleLocked(t, "stale")
     \/ ~aborted[t] /\ fresh[t] = planned[t] /\ Enter(t, "applying") /\ UNCHANGED settlement
  /\ UNCHANGED <<repository, planned, fresh, confirmed, aborted, holders, touched, overtaken>>

\* One mutation of adapter.apply, seen by whoever plans.
Mutate(t) ==
  /\ at[t] = "applying"
  /\ \E r \in Repositories \ {repository} : repository' = r
  /\ touched' = [touched EXCEPT ![t] = TRUE]
  /\ overtaken' = [u \in Transactions |-> u # t \/ overtaken[u]]
  /\ UNCHANGED <<at, planned, fresh, confirmed, aborted, holders, settlement>>

\* Fault: an abort noticed after apply is reported like one noticed before it.
ApplyReturnsCancelled(t) ==
  /\ at[t] = "applying"
  /\ \/ SettleLocked(t, IF aborted[t] THEN "cancelled" ELSE "applied")
     \/ SettleLocked(t, "threw")
  /\ UNCHANGED <<repository, planned, fresh, confirmed, aborted, holders, touched, overtaken>>

ApplyReturns(t) ==
  /\ at[t] = "applying"
  /\ SettleLocked(t, "applied") \/ SettleLocked(t, "threw")
  /\ UNCHANGED <<repository, planned, fresh, confirmed, aborted, holders, touched, overtaken>>

\* Fault: an exception leaves the locked half without a release.
ReleaseUnlessThrown(t) ==
  /\ at[t] = "releasing"
  /\ IF settlement[t] = "threw" THEN UNCHANGED holders ELSE RepositoryLock!LetGo(t)
  /\ Enter(t, "settled")
  /\ UNCHANGED <<repository, planned, fresh, confirmed, aborted, settlement, touched, overtaken>>

\* lock.release(), on the normal path and in the catch.  A release that fails only adds
\* a warning; the file that it leaves behind is PublicationLock's.
ReleaseLock(t) ==
  /\ at[t] = "releasing"
  /\ RepositoryLock!LetGo(t)
  /\ Enter(t, "settled")
  /\ UNCHANGED <<repository, planned, fresh, confirmed, aborted, settlement, touched, overtaken>>
----------------------------------------------------------------------------
(* The surroundings.                                                       *)

Abort(t) ==
  /\ ~aborted[t] /\ at[t] \notin {"settled", "crashed"}
  /\ aborted' = [aborted EXCEPT ![t] = TRUE]
  /\ UNCHANGED <<at, repository, planned, fresh, confirmed, holders, settlement, touched, overtaken>>

\* The process of t dies; its lock file no longer protects anything.
Crash(t) ==
  /\ at[t] \notin {"idle", "settled", "crashed"}
  /\ Enter(t, "crashed")
  /\ holders' = holders \ {t}
  /\ UNCHANGED <<repository, planned, fresh, confirmed, aborted, settlement, touched, overtaken>>

\* An editor, a git command, or somebody on GitHub.
Outsider ==
  /\ \E r \in Repositories \ {repository} : repository' = r
  /\ UNCHANGED <<at, planned, fresh, confirmed, aborted, holders, settlement, touched, overtaken>>

Step(t) ==
  \/ Start(t) \/ Plan(t) \/ PlanFails(t) \/ Planned(t) \/ Answer(t) \/ Lock(t) \/ Locked(t)
  \/ Replan(t) \/ ReplanFails(t) \/ Compare(t) \/ Mutate(t) \/ ApplyReturns(t) \/ ReleaseLock(t)

TransactionNext ==
  \/ \E t \in Transactions : Step(t) \/ Abort(t) \/ Crash(t)
  \/ Outsider

TransactionSpec == TransactionInit /\ [][TransactionNext]_transactionVars

\* Every call returns: git, GitHub, the dialog and the provider's apply, which
\* makes finitely many mutations.
TransactionFairness ==
  \A t \in Transactions : WF_transactionVars(Step(t) /\ ~Mutate(t))

FairTransactions == TransactionSpec /\ TransactionFairness
----------------------------------------------------------------------------
TransactionTypeOK ==
  /\ at \in [Transactions -> Stages]
  /\ repository \in Repositories
  /\ planned \in [Transactions -> Repositories \cup {NoPlan}]
  /\ fresh \in [Transactions -> Repositories \cup {NoPlan}]
  /\ confirmed \in [Transactions -> BOOLEAN]
  /\ aborted \in [Transactions -> BOOLEAN]
  /\ holders \subseteq Transactions
  /\ settlement \in [Transactions -> Settlements]
  /\ touched \in [Transactions -> BOOLEAN]
  /\ overtaken \in [Transactions -> BOOLEAN]

\* What apply acts on is what the user said yes to: a confirmed plan, with the
\* identity of the plan shown, and no other transaction changed the repository
\* after it was recomputed.
AppliesWhatWasConfirmed ==
  \A t \in Transactions :
    at[t] = "applying" => confirmed[t] /\ fresh[t] = planned[t] /\ ~overtaken[t]

\* An outcome the transaction decides itself tells the truth: nothing was changed.
SettledMeansUntouched ==
  \A t \in Transactions :
    settlement[t] \notin {"none", "applied", "threw"} => ~touched[t]

\* The repository is only changed by the holder of its lock, and a transaction
\* never holds the lock while its dialog is open.
LockCoversApply ==
  \A t \in Transactions :
    /\ at[t] = "applying" => holders = {t}
    /\ at[t] \in {"planning", "planned", "confirming"} => t \notin holders

\* The lock comes free again, whichever way the locked half is left.
LockComesFree == \A t \in Transactions : (t \in holders) ~> (t \notin holders)
=============================================================================
