------------------------ MODULE MCStackTransaction ------------------------
(***************************************************************************)
(* Two transactions over two repository states: an interactive one and one *)
(* a model tool authorised; a third that has no UI settles at once.        *)
(***************************************************************************)
EXTENDS StackTransaction, TLC

CONSTANTS t1, t2, t3, r1, r2

MCTransactions == {t1, t2, t3}
MCInteractive == {t1, t3}
MCHasUI == {t1}
MCRepositories == {r1, r2}
=============================================================================
