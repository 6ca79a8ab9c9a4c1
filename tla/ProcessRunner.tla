--------------------------- MODULE ProcessRunner ---------------------------
(***************************************************************************)
(* One command of the jj extension: runCommand of                           *)
(* extensions/jj-stacked-prs/process.ts, and what jj.ts, native-stack.ts    *)
(* and github-gateway.ts make of its result.                               *)
(*                                                                         *)
(* The child may exit, ignore the signals for a while, or leave a helper    *)
(* that holds its pipes; abort, timeout and the output cap race with that.  *)
(***************************************************************************)

VARIABLES
  child,     \* "running", or how it ended
  pipes,     \* its stdout and stderr are open
  effect,    \* what the command was to do happened
  aborted,   \* options.signal
  cancelled, timedOut, overflow, killStarted,
  grace,     \* the timer between SIGTERM and SIGKILL
  result     \* the kind the promise resolved with

flags == <<cancelled, timedOut, overflow, killStarted, grace>>
vars == <<child, pipes, effect, aborted, flags, result>>

Exits == {"zero", "nonzero", "signal"}

Init ==
  /\ child = "none" /\ pipes = FALSE /\ effect = FALSE /\ aborted \in BOOLEAN
  /\ cancelled = FALSE /\ timedOut = FALSE /\ overflow = FALSE /\ killStarted = FALSE
  /\ grace = FALSE /\ result = "none"
----------------------------------------------------------------------------
\* stop: once; the child gets SIGTERM now and SIGKILL when the timer is over.
Stop == killStarted' = TRUE /\ grace' = (grace \/ ~killStarted)

\* The signal may have fired before the child was spawned.
Spawn ==
  /\ child = "none" /\ result = "none"
  /\ child' = "running" /\ pipes' = TRUE
  /\ IF aborted THEN cancelled' = TRUE /\ Stop ELSE UNCHANGED <<cancelled, killStarted, grace>>
  /\ UNCHANGED <<effect, aborted, timedOut, overflow, result>>

Finish(kind) == result = "none" /\ result' = kind

SpawnThrows ==
  /\ child = "none" /\ Finish("spawn-failed")
  /\ child' = "never"
  /\ UNCHANGED <<pipes, effect, aborted, flags>>

Unsettled == result = "none" /\ child \notin {"none", "never"}

OnAbort ==
  /\ Unsettled /\ ~aborted
  /\ aborted' = TRUE /\ cancelled' = TRUE /\ Stop
  /\ UNCHANGED <<child, pipes, effect, timedOut, overflow, result>>

OnTimeout ==
  /\ Unsettled /\ ~timedOut
  /\ timedOut' = TRUE /\ Stop
  /\ UNCHANGED <<child, pipes, effect, aborted, cancelled, overflow, result>>

OnData ==
  /\ Unsettled /\ pipes /\ ~overflow
  /\ overflow' = TRUE /\ Stop
  /\ UNCHANGED <<child, pipes, effect, aborted, cancelled, timedOut, result>>

GraceEnds ==
  /\ Unsettled /\ grace /\ grace' = FALSE
  /\ IF child = "running" THEN child' = "signal" ELSE UNCHANGED child
  /\ UNCHANGED <<pipes, effect, aborted, cancelled, timedOut, overflow, killStarted, result>>

\* The handlers' order: the output cap, the abort, the timeout, then the code.
Kind(none, exit) ==
  CASE overflow -> "overflow"
    [] ~overflow /\ cancelled -> "cancelled"
    [] ~overflow /\ ~cancelled /\ timedOut -> "timeout"
    [] OTHER -> CASE exit = "never" -> none
                  [] exit = "signal" -> "uncertain"
                  [] exit = "nonzero" -> "nonzero"
                  [] exit = "zero" -> "ok"

\* The error event: there is no such program, or it could not be killed.
ErrorEvent ==
  /\ Unsettled /\ child = "running"
  /\ \/ ~effect /\ child' = "never" /\ pipes' = FALSE
     \/ killStarted /\ UNCHANGED <<child, pipes>>
  /\ Finish(Kind("spawn-failed", "never"))
  /\ UNCHANGED <<effect, aborted, flags>>

CloseEvent ==
  /\ Unsettled /\ child \in Exits /\ ~pipes
  /\ Finish(Kind("spawn-failed", child))
  /\ UNCHANGED <<child, pipes, effect, aborted, flags>>
----------------------------------------------------------------------------
(* The child.                                                              *)

TakesEffect ==
  /\ child = "running" /\ ~effect /\ effect' = TRUE
  /\ UNCHANGED <<child, pipes, aborted, flags, result>>

\* It may handle the signal, and anything may kill it.
ChildExits(exit) ==
  /\ child = "running" /\ exit \in Exits
  /\ exit = "zero" => effect
  /\ exit = "nonzero" => ~effect \/ killStarted
  /\ child' = exit
  /\ UNCHANGED <<pipes, effect, aborted, flags, result>>

PipesClose ==
  /\ child \in Exits /\ pipes /\ pipes' = FALSE
  /\ UNCHANGED <<child, effect, aborted, flags, result>>

Child == TakesEffect \/ (\E exit \in Exits : ChildExits(exit)) \/ PipesClose

Next ==
  \/ Spawn \/ SpawnThrows \/ OnAbort \/ OnTimeout \/ OnData \/ GraceEnds \/ ErrorEvent \/ CloseEvent
  \/ Child
----------------------------------------------------------------------------
\* toJjError, command and execFromRunner: what the caller is told.
ErrorKind(kind) == IF kind \in {"timeout", "cancelled", "uncertain"} THEN "indeterminate" ELSE "failed"

TypeOK ==
  /\ child \in {"none", "never", "running"} \cup Exits
  /\ {pipes, effect, aborted, cancelled, timedOut, overflow, killStarted, grace} \subseteq BOOLEAN
  /\ result \in {"none", "ok", "nonzero", "spawn-failed", "cancelled", "timeout", "overflow", "uncertain"}

\* A command that is told to have worked did, and one that is told to have
\* failed did nothing, however its end raced the abort, the timeout and the
\* signals.  A command that printed too much is the exception.
ResultIsConclusive ==
  /\ result = "ok" => effect
  /\ result \notin {"none", "ok", "overflow"} /\ ErrorKind(result) = "failed" => ~effect
=============================================================================
