--------------------------- MODULE SubagentSessions ---------------------------
(***************************************************************************)
(* Retained sessions of headless children and the leases that guard them   *)
(* (shared/subagent-sessions.ts, used by ChildRun's runs).                 *)
(*                                                                         *)
(* A run leases its session id with its own pid, spawns the child and puts *)
(* the child's pid into the lease.  A run that ends releases the lease and *)
(* prunes the directory to its cap, oldest first, beside the runs of other *)
(* Pi processes.  Children start in the order of their numbers, which is   *)
(* the order of their file names.                                          *)
(***************************************************************************)
EXTENDS Naturals, FiniteSets

CONSTANTS
  Parents,      \* Pi processes that run children
  MaxChildren,
  Cap,          \* SESSION_CAP
  MaxFaults     \* bound: crashes, children that survive their stop, failed writes

VARIABLES
  alive,    \* parents
  child, owner,
  lease,
  files,    \* the children whose session file is in the directory
  report,   \* what the run's finish reported
  prune,    \* the pruning of each parent
  missed,   \* history: running children taken for dead, as their parent died before it had
            \* named them in a lease, or had only done so after the lease was read
  faults

leaseVars == <<alive, child, owner, lease, files, report, prune, missed, faults>>

Children == 1..MaxChildren
\* `of` is the child whose lease said `read` when it was read.
NoPrune == [step |-> "no", active |-> {}, todo |-> {}, excess |-> 0, of |-> 0, read |-> "none"]

Init ==
  /\ alive = Parents
  /\ child = [c \in Children |-> "none"] /\ owner = [c \in Children |-> CHOOSE p \in Parents : TRUE]
  /\ lease = [c \in Children |-> "none"] /\ files = {}
  /\ report = [c \in Children |-> "none"] /\ prune = [p \in Parents |-> NoPrune]
  /\ missed = {} /\ faults = 0

Fault == faults < MaxFaults /\ faults' = faults + 1
-----------------------------------------------------------------------------
\* prepare() in a parent that is not pruning: a new id, leased before the spawn.
Prepare(p, c) ==
  /\ p \in alive /\ prune[p].step = "no"
  /\ child[c] = "none" /\ \A d \in 1..(c - 1) : child[d] # "none"
  /\ child' = [child EXCEPT ![c] = "prepared"] /\ owner' = [owner EXCEPT ![c] = p]
  /\ lease' = [lease EXCEPT ![c] = "pending"]
  /\ UNCHANGED <<alive, files, report, prune, missed, faults>>

\* The spawn and the lease are in one turn of the parent, which may die between.
Spawn(c) ==
  /\ child[c] = "prepared" /\ owner[c] \in alive /\ prune[owner[c]].step = "no"
  /\ child' = [child EXCEPT ![c] = "running"]
  /\ UNCHANGED <<alive, owner, lease, files, report, prune, missed, faults>>

\* A lease that cannot be written stops the child (ChildRun).
MarkSpawned(c) ==
  /\ child[c] \in {"running", "gone"} /\ lease[c] = "pending" /\ owner[c] \in alive /\ report[c] = "none"
  /\ prune[owner[c]].step = "no" /\ lease' = [lease EXCEPT ![c] = "spawned"]
  /\ UNCHANGED <<alive, child, owner, files, report, prune, missed, faults>>

ChildWrites(c) ==
  /\ child[c] = "running" /\ report[c] = "none" /\ files' = files \cup {c}
  /\ UNCHANGED <<alive, child, owner, lease, report, prune, missed, faults>>

ChildEnds(c) ==
  /\ child[c] = "running" /\ child' = [child EXCEPT ![c] = "gone"]
  /\ UNCHANGED <<alive, owner, lease, files, report, prune, missed, faults>>

\* finish(): also of a run whose child would not be stopped.  The lease may
\* stay when it cannot be unlinked.
Finish(c) ==
  /\ child[c] \in {"prepared", "running", "gone"} /\ owner[c] \in alive /\ prune[owner[c]].step = "no" /\ report[c] = "none"
  /\ child[c] = "running" => lease[c] = "spawned"
  /\ \/ /\ child[c] # "running" /\ lease' = [lease EXCEPT ![c] = "none"] /\ UNCHANGED faults
     \/ /\ child[c] = "running" /\ Fault /\ lease' = [lease EXCEPT ![c] = "none"]
     \/ /\ child[c] # "running" /\ Fault /\ UNCHANGED lease
  /\ child' = [child EXCEPT ![c] = IF @ = "prepared" THEN "gone" ELSE @]
  /\ report' = [report EXCEPT ![c] = IF c \in files THEN "persisted" ELSE "missing"]
  /\ prune' = [prune EXCEPT ![owner[c]].step = "scan"]
  /\ UNCHANGED <<alive, owner, files, missed>>

\* Fault: a lease is live only once it names the child.
SpawnedOnly(c, read) == read = "spawned" /\ child[c] = "running"

\* classifySubagentLeaseReadOnly(): the process that the lease named when it was read lives.
LiveLease(c, read) == \/ read = "pending" /\ owner[c] \in alive
                      \/ read = "spawned" /\ child[c] = "running"

Now(p, record) == prune' = [prune EXCEPT ![p] = record]

\* activeIds(): the leases are listed, and then each is read, in any order.
Scan(p) ==
  /\ p \in alive /\ prune[p].step = "scan"
  /\ Now(p, [NoPrune EXCEPT !.step = "leases", !.todo = {c \in Children : lease[c] # "none"}])
  /\ UNCHANGED <<alive, child, owner, lease, files, report, missed, faults>>

ReadLease(p, c) ==
  /\ p \in alive /\ prune[p].step = "leases" /\ c \in prune[p].todo
  /\ Now(p, [prune[p] EXCEPT !.step = "probe", !.todo = @ \ {c}, !.of = c, !.read = lease[c]])
  /\ UNCHANGED <<alive, child, owner, lease, files, report, missed, faults>>

\* Between the read and the probe the child got its lease and its parent died.
Misses(p) ==
  LET c == prune[p].of IN
  IF prune[p].read = "pending" /\ owner[c] \notin alive /\ lease[c] = "spawned" /\ child[c] = "running"
    THEN {c} ELSE {}

\* The pid is probed; a lease of a dead process is unlinked, whatever it says by then.
Probe(p) ==
  /\ p \in alive /\ prune[p].step = "probe"
  /\ LET c == prune[p].of IN
     IF LiveLease(c, prune[p].read)
       THEN Now(p, [prune[p] EXCEPT !.step = "leases", !.active = @ \cup {c}]) /\ UNCHANGED lease
       ELSE Now(p, [prune[p] EXCEPT !.step = "leases"]) /\ lease' = [lease EXCEPT ![c] = "none"]
  /\ missed' = missed \cup Misses(p)
  /\ UNCHANGED <<alive, child, owner, files, report, faults>>

Excess == IF Cardinality(files) > Cap THEN Cardinality(files) - Cap ELSE 0

\* The files whose child has no live lease are left to look at, oldest first.
List(p) ==
  /\ p \in alive /\ prune[p].step = "leases" /\ prune[p].todo = {}
  /\ Now(p, [prune[p] EXCEPT !.step = "files", !.todo = files \ prune[p].active, !.excess = Excess])
  /\ UNCHANGED <<alive, child, owner, lease, files, report, missed, faults>>

Oldest(p) == CHOOSE c \in prune[p].todo : \A d \in prune[p].todo : c <= d

Stops(p) == prune[p].excess = 0 \/ prune[p].todo = {}

\* isActive(): the lease of a file that is still there is read again.
Recheck(p) ==
  /\ p \in alive /\ prune[p].step = "files" /\ ~Stops(p)
  /\ LET c == Oldest(p) IN
     IF c \in files
       THEN Now(p, [prune[p] EXCEPT !.step = "recheck", !.todo = @ \ {c}, !.of = c, !.read = lease[c]])
       ELSE Now(p, [prune[p] EXCEPT !.todo = @ \ {c}])
  /\ UNCHANGED <<alive, child, owner, lease, files, report, missed, faults>>

Reprobe(p) ==
  /\ p \in alive /\ prune[p].step = "recheck"
  /\ Now(p, [prune[p] EXCEPT !.step = IF LiveLease(prune[p].of, prune[p].read) THEN "files" ELSE "unlink"])
  /\ missed' = missed \cup Misses(p)
  /\ UNCHANGED <<alive, child, owner, lease, files, report, faults>>

\* A file that another process removed by then counts as one less, too.
Unlink(p) ==
  /\ p \in alive /\ prune[p].step = "unlink"
  /\ files' = files \ {prune[p].of}
  /\ Now(p, [prune[p] EXCEPT !.step = "files", !.excess = @ - 1])
  /\ UNCHANGED <<alive, child, owner, lease, report, missed, faults>>

Pruned(p) ==
  /\ p \in alive /\ prune[p].step = "files" /\ Stops(p)
  /\ Now(p, NoPrune)
  /\ UNCHANGED <<alive, child, owner, lease, files, report, missed, faults>>

\* A child that it did not get to name in a lease is left without one.
ParentDies(p) ==
  /\ p \in alive /\ Fault /\ alive' = alive \ {p}
  /\ Now(p, NoPrune)
  /\ missed' = missed \cup {c \in Children : owner[c] = p /\ child[c] = "running" /\ lease[c] = "pending"}
  /\ UNCHANGED <<child, owner, lease, files, report>>
-----------------------------------------------------------------------------
LeaseNext ==
  \/ \E p \in Parents :
       \/ Scan(p) \/ Probe(p) \/ List(p) \/ Recheck(p) \/ Reprobe(p) \/ Unlink(p) \/ Pruned(p) \/ ParentDies(p)
       \/ \E c \in Children : Prepare(p, c) \/ ReadLease(p, c)
  \/ \E c \in Children : Spawn(c) \/ MarkSpawned(c) \/ ChildWrites(c) \/ ChildEnds(c) \/ Finish(c)

LeaseSpec == Init /\ [][LeaseNext]_leaseVars
-----------------------------------------------------------------------------
Leased == {"none", "pending", "spawned"}
Steps == {"no", "scan", "leases", "probe", "files", "recheck", "unlink"}

LeaseTypeOK ==
  /\ alive \subseteq Parents
  /\ child \in [Children -> {"none", "prepared", "running", "gone"}] /\ owner \in [Children -> Parents]
  /\ lease \in [Children -> Leased] /\ files \subseteq Children
  /\ report \in [Children -> {"none", "persisted", "missing"}]
  /\ prune \in [Parents -> [step : Steps, active : SUBSET Children, todo : SUBSET Children,
                            excess : 0..MaxChildren, of : 0..MaxChildren, read : Leased]]
  /\ missed \subseteq Children /\ faults \in 0..MaxFaults

\* Nothing guards a child that runs on after its run was settled with a cleanup error, nor
\* one whose parent died before it named it in a lease, or while a pruning was between its
\* reading of the lease and its probe of the pid.
Unguarded(c) == report[c] # "none" \/ c \in missed

\* The session of a child that runs is not pruned, by whichever process.
LiveIsKept == \A c \in Children : child[c] = "running" /\ c \in files \ files' => Unguarded(c)
LiveSessionSurvives == [][LiveIsKept]_leaseVars
=============================================================================
