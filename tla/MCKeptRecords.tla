-------------------------- MODULE MCKeptRecords --------------------------
(***************************************************************************)
(* One session of PR autopilot after another, and one Pi process after      *)
(* another at an archive: what starts finds what one that died left.  Two   *)
(* parents of two children, two calls over one subagent session, and two    *)
(* processes with a ledger that keeps the events of one day, two seats,     *)
(* a handoff between two models and two efforts, a console over two         *)
(* children, two calls of parallel_agents beside one other run, and two     *)
(* requests over one replacement of the session and its end.                *)
(***************************************************************************)
EXTENDS KeptRecords

CONSTANTS s1, p1, a1, k1, k2, w1, w2, A, B, m1, m2, lo, hi

OneSession == {s1}
OneProcess == {p1}
OneSubagent == {a1}
TwoCalls == {k1, k2}
TwoProcesses == {w1, w2}
TwoSeats == {A, B}
TwoModels == {m1, m2}
TwoEfforts == {lo, hi}
TwoRows == {1, 2}
TwoCallsInOrder == {1, 2}
TasksPerCall == <<2, 1>>
TwoRequests == {"first", "second"}
=============================================================================
