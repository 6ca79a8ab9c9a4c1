------------------------- MODULE MCPublicationLock -------------------------
(***************************************************************************)
(* Small instances of PublicationLock: two or three contenders, each in a  *)
(* process of its own.                                                     *)
(***************************************************************************)
EXTENDS PublicationLock, TLC

CONSTANTS a1, a2, a3, p1, p2, p3

MCAttempts == {a1, a2, a3}
MCPids == {p1, p2, p3}
TwoAttempts == {a1, a2}
TwoPids == {p1, p2}
OwnProcesses == a1 :> p1 @@ a2 :> p2 @@ a3 :> p3
\* Attempts with a process each are interchangeable together with it.
Swaps == {f \in Permutations(MCAttempts \cup MCPids) :
            \A a \in MCAttempts : f[a] \in MCAttempts /\ f[ProcessOf[a]] = ProcessOf[f[a]]}

TwoProcesses == a1 :> p1 @@ a2 :> p2
=============================================================================
