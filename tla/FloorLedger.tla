----------------------------- MODULE FloorLedger -----------------------------
(***************************************************************************)
(* What the OpenRouter routing extension records (openrouter-routing/).    *)
(*                                                                         *)
(* A completed generation is observed and later resolved by a background   *)
(* lookup of its service tier.  Each process appends through one queue to  *)
(* the shard of its own id and day; the limits and the retention are those *)
(* of a scope, which processes share without a lock.                       *)
(*                                                                         *)
(* A line is one event, a tick a day.                                      *)
(***************************************************************************)
EXTENDS Naturals, Sequences, FiniteSets

CONSTANTS
  Processes,
  MaxGenerations, \* bound: generations, numbered as they complete
  MaxLines,     \* DEFAULT_MAX_LINES_PER_SHARD
  MaxTotal,     \* DEFAULT_MAX_TOTAL_BYTES, in lines
  Retention,    \* RETENTION_MS, in days
  MaxAttempts,  \* METADATA_MAX_ATTEMPTS
  MaxTime,      \* bound: days
  MaxFaults     \* bound: file operations that fail, repositories not found

VARIABLES
  now,
  scope,     \* the memoized scope of each process
  shards,    \* the events on disk
  queue,     \* the appends of each process, the first one under way
  append,    \* its step, and the day of the shard
  down,      \* shutdown of each process
  lookup,    \* of each generation
  gone,      \* generations whose resolution was rejected or pruned
  faults

vars == <<now, scope, shards, queue, append, down, lookup, gone, faults>>

Generations == 1..MaxGenerations
Days == 0..MaxTime
Tiers == {"flex", "unknown"}
Scopes == {"repository", "directory"}
NoLookup == [step |-> "none", process |-> "none", attempt |-> 0, tier |-> "unknown"]
NoAppend == [step |-> "idle", day |-> 0]

Init ==
  /\ now = 0 /\ scope = [p \in Processes |-> "unresolved"] /\ shards = {}
  /\ queue = [p \in Processes |-> <<>>] /\ append = [p \in Processes |-> NoAppend]
  /\ down = [p \in Processes |-> "no"] /\ lookup = [g \in Generations |-> NoLookup]
  /\ gone = {} /\ faults = 0

Tick ==
  /\ now < MaxTime /\ now' = now + 1
  /\ UNCHANGED <<scope, shards, queue, append, down, lookup, gone, faults>>

Fault == faults < MaxFaults /\ faults' = faults + 1
-----------------------------------------------------------------------------
(* floor-runtime.ts                                                        *)

Event(g, state, tier) == [gen |-> g, state |-> state, tier |-> tier, at |-> now]

Enqueue(p, event) == queue' = [queue EXCEPT ![p] = Append(@, event)]

Look(g, r) == lookup' = [lookup EXCEPT ![g] = r]

\* observeCompletion().  A message without a response id is not looked up, nor
\* is a request that rewrite() sent with a variant.
ObserveCompletion(p, g) ==
  /\ down[p] = "no" /\ lookup[g].step = "none" /\ \A h \in 1..(g - 1) : lookup[h].step # "none"
  /\ Enqueue(p, Event(g, "observed", "unknown"))
  /\ \E step \in {"observing", "over"} : Look(g, [NoLookup EXCEPT !.step = step, !.process = p])
  /\ UNCHANGED <<now, scope, shards, append, down, gone, faults>>

\* A known tier is kept although the shutdown raced it.
Discards(p, tier) == down[p] # "no" /\ tier = "unknown"

\* lookupGenerationTier() and resolveTier(): 404 and failures are tried again,
\* a few times, and not once the shutdown has aborted the lookup.
Lookup(g) ==
  /\ lookup[g].step = "waiting"
  /\ LET p == lookup[g].process IN
     \/ \E tier \in Tiers :
          /\ IF Discards(p, tier) THEN UNCHANGED queue ELSE Enqueue(p, Event(g, "resolved", tier))
          /\ Look(g, [lookup[g] EXCEPT !.step = "over", !.attempt = 0, !.tier = tier])
     \/ /\ lookup[g].attempt + 1 < MaxAttempts /\ down[p] = "no"
        /\ Look(g, [lookup[g] EXCEPT !.attempt = @ + 1]) /\ UNCHANGED queue
  /\ UNCHANGED <<now, scope, shards, append, down, gone, faults>>

Shutdown(p) ==
  /\ down[p] = "no" /\ down' = [down EXCEPT ![p] = "aborting"]
  /\ UNCHANGED <<now, scope, shards, queue, append, lookup, gone, faults>>

\* Pending lookups settle, then the queue is flushed.
Flushed(p) ==
  /\ down[p] = "aborting" /\ queue[p] = <<>>
  /\ \A g \in Generations : lookup[g].process = p => lookup[g].step \in {"none", "over"}
  /\ down' = [down EXCEPT ![p] = "down"]
  /\ UNCHANGED <<now, scope, shards, queue, append, lookup, gone, faults>>
-----------------------------------------------------------------------------
(* floor-ledger.ts                                                         *)

\* A shard expires when its whole day has.
Expired(day) == day + Retention < now

Retained(at) == at + Retention >= now

Scope(k) == {e \in shards : e.scope = k}

Shard(p, d) == {e \in shards : e.process = p /\ e.day = d}

\* pruneOldShards(), of any process.
Prune(k) == {e \in Scope(k) : Expired(e.day)}

\* The append returns to observeCompletion(), which starts the lookup unless
\* the session is going down.
Resolutions(events) == {e.gen : e \in {f \in events : f.state = "resolved"}}

Dequeue(p) ==
  /\ queue' = [queue EXCEPT ![p] = Tail(@)] /\ append' = [append EXCEPT ![p] = NoAppend]
  /\ LET g == Head(queue[p]).gen IN
     IF lookup[g].step # "observing" THEN UNCHANGED lookup
     ELSE Look(g, [lookup[g] EXCEPT !.step = IF down[p] = "no" THEN "waiting" ELSE "over"])

Drop(p) ==
  /\ Dequeue(p)
  /\ gone' = gone \cup Resolutions({Head(queue[p])})

\* resolutionFor(): the first answer stays, also one for want of a repository.
ResolutionFor(p) ==
  IF scope[p] # "unresolved" THEN UNCHANGED <<scope, faults>>
  ELSE \/ scope' = [scope EXCEPT ![p] = "repository"] /\ UNCHANGED faults
       \/ Fault /\ scope' = [scope EXCEPT ![p] = "directory"]

\* appendNow() up to its first file operation: the shard is that of this day.
Resolve(p) ==
  /\ append[p].step = "idle" /\ queue[p] # <<>>
  /\ IF Retained(Head(queue[p]).at)
       THEN append' = [append EXCEPT ![p] = [step |-> "check", day |-> now]]
            /\ ResolutionFor(p) /\ UNCHANGED <<queue, lookup, gone>>
       ELSE Drop(p) /\ UNCHANGED <<scope, faults>>
  /\ UNCHANGED <<now, shards, down>>

\* scopeBytes() and the line.
FitsTotal(k) == Cardinality(Scope(k) \ Prune(k)) + 1 <= MaxTotal

Fits(p) == Cardinality(Shard(p, append[p].day)) < MaxLines /\ FitsTotal(scope[p])

\* appendNow() from the pruning to the decision.
Check(p) ==
  /\ append[p].step = "check"
  /\ shards' = shards \ Prune(scope[p])
  /\ LET pruned == Resolutions(Prune(scope[p]))
     IN \/ /\ Fits(p) /\ append' = [append EXCEPT ![p].step = "write"] /\ gone' = gone \cup pruned
           /\ UNCHANGED <<queue, lookup, faults>>
        \/ /\ \/ ~Fits(p) /\ UNCHANGED faults
              \/ Fault
           /\ Dequeue(p) /\ gone' = gone \cup pruned \cup Resolutions({Head(queue[p])})
  /\ UNCHANGED <<now, scope, down>>

Write(p) ==
  /\ append[p].step = "write"
  /\ LET e == Head(queue[p]) IN
     \/ /\ shards' = shards \cup {[process |-> p, scope |-> scope[p], day |-> append[p].day, gen |-> e.gen,
                                   state |-> e.state, tier |-> e.tier, at |-> e.at]}
        /\ Dequeue(p) /\ UNCHANGED <<gone, faults>>
     \/ Fault /\ Drop(p) /\ UNCHANGED <<shards>>
  /\ UNCHANGED <<now, scope, down>>

\* report(): the queue is flushed and the scope is read, which prunes it.
Report(p) ==
  /\ queue[p] = <<>> /\ scope[p] # "unresolved" /\ Prune(scope[p]) # {}
  /\ shards' = shards \ Prune(scope[p]) /\ gone' = gone \cup Resolutions(Prune(scope[p]))
  /\ UNCHANGED <<now, scope, queue, append, down, lookup, faults>>
-----------------------------------------------------------------------------
LookupStep == \E g \in Generations : Lookup(g)

QueueStep == \E p \in Processes : Flushed(p) \/ Resolve(p) \/ Check(p) \/ Write(p)

Next ==
  \/ Tick \/ LookupStep \/ QueueStep
  \/ \E p \in Processes : Shutdown(p) \/ Report(p)
  \/ \E p \in Processes, g \in Generations : ObserveCompletion(p, g)

Spec == Init /\ [][Next]_vars
-----------------------------------------------------------------------------
Events == [gen : Generations, state : {"observed", "resolved"}, tier : Tiers, at : Days]

TypeOK ==
  /\ now \in Days /\ scope \in [Processes -> Scopes \cup {"unresolved"}]
  /\ \A e \in shards : e.process \in Processes /\ e.scope \in Scopes /\ e.day \in Days /\ e.at \in Days
  /\ \A p \in Processes : \A i \in DOMAIN queue[p] : queue[p][i] \in Events
  /\ append \in [Processes -> [step : {"idle", "check", "write"}, day : Days]]
  /\ down \in [Processes -> {"no", "aborting", "down"}] /\ faults \in 0..MaxFaults
  /\ lookup \in [Generations -> [step : {"none", "observing", "waiting", "over"}, process : Processes \cup {"none"},
                                 attempt : 0..MaxAttempts, tier : Tiers]]

\* generationOutcome(): a known resolution wins over unknown ones.
Outcome(g) ==
  IF \E e \in shards : e.gen = g /\ e.state = "resolved" /\ e.tier # "unknown" THEN "flex" ELSE "unknown"

\* A tier that was looked up is on its way to the ledger or in the reports of
\* its scope, also when the session ended while its lookup was under way, unless
\* the limits, the retention or the file system took it.
TiersAreKept ==
  \A g \in Generations :
    lookup[g].step = "over" /\ g \notin gone =>
      \/ Outcome(g) = lookup[g].tier
      \/ \E i \in DOMAIN queue[lookup[g].process] : queue[lookup[g].process][i].gen = g

\* The limits are checked and then written to, by several processes at once:
\* each but one can exceed the total by the line it was to write.
LimitsHold ==
  /\ \A p \in Processes, d \in Days : Cardinality(Shard(p, d)) <= MaxLines
  /\ \A k \in Scopes : Cardinality(Scope(k)) <= MaxTotal + Cardinality(Processes) - 1

\* Whoever prunes, and however long an append took between choosing its shard
\* and writing to it: what is younger than the retention is not deleted.
RetainedIsKept == \A e \in shards \ shards' : ~Retained(e.at)
PruningKeepsRetained == [][RetainedIsKept]_vars
=============================================================================
