-------------------------- MODULE RepositoryMutex --------------------------
(***************************************************************************)
(* What the repository lock promises its callers: at any time at most one  *)
(* of them holds it, and a holder gives it up before another gets it.  A   *)
(* holder lets go by releasing or because its process ends.                *)
(***************************************************************************)
CONSTANT Holders
VARIABLE holders

Init == holders = {}

Acquire(h) == holders = {} /\ holders' = {h}

LetGo(h) == holders = {h} /\ holders' = {}

Next == \E h \in Holders : Acquire(h) \/ LetGo(h)

Spec == Init /\ [][Next]_holders
=============================================================================
