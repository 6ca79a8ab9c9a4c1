SPECIFICATION FairTransactions
CONSTANTS
  t1 = t1
  t2 = t2
  t3 = t3
  r1 = r1
  r2 = r2
  Transactions <- MCTransactions
  Interactive <- MCInteractive
  HasUI <- MCHasUI
  Repositories <- MCRepositories
  NoPlan = NoPlan
INVARIANTS TransactionTypeOK AppliesWhatWasConfirmed SettledMeansUntouched
PROPERTY LockComesFree
