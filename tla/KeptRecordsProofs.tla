-------------------------- MODULE KeptRecordsProofs --------------------------
(***************************************************************************)
(* Proofs about KeptRecords for every value of the constants.  Parts: the  *)
(* record of PR autopilot (ReviewHandling: what it says was done was done, *)
(* one that cannot be read is left alone, and what was done is not done    *)
(* again); the leases of subagent sessions (SubagentSessions: pruning      *)
(* spares the live ones); nested runs (SessionRuns: the run an extension   *)
(* knows of is the one that goes on); and the console of child agents      *)
(* (SubagentConsole: it shows what is there, and stays where the user      *)
(* reads).  At the end, with the parts of KeptPartsProofs: types, records  *)
(* and what is needed, of the whole.                                       *)
(***************************************************************************)
EXTENDS KeptPartsProofs, NaturalsInduction, WellFoundedInduction

(* A run and the record.                                                   *)

\* What triage decides is about an item of the snapshot; a run that has not asked
\* for a triage has none, and before the replies it stands before the first item.
PlanIsTriaged(s) ==
  /\ \A t \in Threads : plan[s].items[t] # "none" => snap[s].items[t] \in Versions
  /\ pc[s] \in {"idle", "refresh", "triage"} => plan[s] = NoPlan
  /\ pc[s] \in {"idle", "refresh", "triage", "rerun", "record", "fix"} => at[s] = 1

\* A reply that is called pending was posted; a thread is inspected and resolved
\* while its reply is pending.
PendingIsPosted(record) == \A p \in record.pending : replied[p[1]][p[2]] >= 1

AnsweredIsPending(s) ==
  /\ PendingIsPosted(mem[s])
  /\ pc[s] \in {"inspect", "resolve"} => at[s] \in Threads \ discussions /\ MatchingPending(s)

\* A run that could not read the record gets to no rerun, and its triage asks for
\* no reply.
CorruptIsLeftAlone(s) ==
  corrupt => /\ pc[s] \notin {"rerun", "record"} /\ mem[s] = EmptyRecord
             /\ \A t \in Threads : plan[s].items[t] \in {"none", "ask"}

RunFits(s) == PlanIsTriaged(s) /\ AnsweredIsPending(s) /\ CorruptIsLeftAlone(s)

ReviewInv ==
  /\ TypeOK /\ CorruptStateBlocksMutation /\ PendingIsPosted(file)
  /\ \A s \in Sessions : RunFits(s)

LEMMA ReviewSets ==
  /\ Threads = 1..NThreads /\ NThreads \in Nat /\ Versions = 0..MaxVersion /\ MaxVersion \in Nat /\ NoVersion = -1
  /\ Heads = 0..MaxHead /\ MaxHead \in Nat /\ MaxCycles \in Nat \ {0} /\ MaxPending \in Nat
BY ReviewAssumption DEF Threads, Versions, NoVersion, Heads

LEMMA ReviewTypes ==
  /\ 0 \in Heads /\ 1 \in 1..(NThreads + 1) /\ 0 \in 0..(MaxCycles - 1)
  /\ NoSnap \in [head : Heads, items : [Threads -> Versions \cup {NoVersion}]]
  /\ NoPlan \in [items : [Threads -> Decisions], code : BOOLEAN]
  /\ EmptyRecord \in Records /\ EmptyRecord.pending = {} /\ EmptyRecord.reruns = {}
  /\ \A t \in Threads : /\ EmptyRecord.handled[t].version = NoVersion
                        /\ NoSnap.items[t] = NoVersion /\ NoPlan.items[t] = "none"
BY ReviewAssumption
DEF Threads, Versions, NoVersion, Heads, NoSnap, NoPlan, EmptyRecord, Records, Decisions

\* The parts of a record, and what an answer makes of them.
LEMMA RecordParts ==
  ASSUME NEW record \in Records
  PROVE  /\ record.pending \in SUBSET (Threads \X Versions) /\ record.reruns \in SUBSET Heads
         /\ \A t \in Threads : record.handled[t].version \in Versions \cup {NoVersion}
BY DEF Records

LEMMA HandledRecords ==
  ASSUME NEW record \in Records, NEW t \in Threads, NEW v \in Versions, NEW ignored \in BOOLEAN
  PROVE  LET new == Handled(record, t, v, ignored)
         IN /\ new \in Records /\ new.pending = record.pending /\ new.reruns = record.reruns
            /\ new.handled[t].version = v
            /\ \A u \in Threads : u # t => new.handled[u] = record.handled[u]
BY DEF Records, Handled

LEMMA SettledRecords ==
  ASSUME NEW record \in Records, NEW t \in Threads, NEW v \in Versions
  PROVE  LET new == Settled(record, t, v)
         IN /\ new \in Records /\ new.pending = {p \in record.pending : p[1] # t} /\ new.reruns = record.reruns
            /\ new.handled[t].version = v
            /\ \A u \in Threads : u # t => new.handled[u] = record.handled[u]
<1> DEFINE left == [record EXCEPT !.pending = {p \in @ : p[1] # t}]
<1>1. /\ left \in Records /\ left.pending = {p \in record.pending : p[1] # t} /\ left.reruns = record.reruns
      /\ left.handled = record.handled
  BY DEF Records
<1>2. Settled(record, t, v) = Handled(left, t, v, FALSE)
  BY DEF Settled
<1> HIDE DEF left
<1>3. LET new == Handled(left, t, v, FALSE)
      IN /\ new \in Records /\ new.pending = left.pending /\ new.reruns = left.reruns
         /\ new.handled[t].version = v
         /\ \A u \in Threads : u # t => new.handled[u] = left.handled[u]
  BY ZenonT(60), <1>1, HandledRecords
<1>4. QED
  BY <1>1, <1>2, <1>3

LEMMA PendingRecords ==
  ASSUME NEW record \in Records, NEW t \in Threads, NEW v \in Versions
  PROVE  LET new == [record EXCEPT !.pending = @ \cup {<<t, v>>}]
         IN /\ new \in Records /\ new.pending = record.pending \cup {<<t, v>>} /\ new.reruns = record.reruns
            /\ new.handled = record.handled
BY DEF Records

\* A rerun that was asked for is recorded.
LEMMA RetriedRecords ==
  ASSUME TypeOK, NEW s \in Sessions
  PROVE  /\ Retried(s) \in Records /\ Retried(s).pending = mem[s].pending /\ Retried(s).handled = mem[s].handled
         /\ Retried(s).reruns = mem[s].reruns \cup {snap[s].head}
<1>1. mem[s] \in Records /\ snap[s].head \in Heads
  BY DEF TypeOK
<1>2. QED
  BY <1>1 DEF Retried, Records

\* What a run has in memory is what it saves, the record that cannot be read apart.
LEMMA SavedRecords == ASSUME ReviewInv, NEW s \in Sessions PROVE Saved(s) = mem[s] /\ mem[s] \in Records
BY DEF ReviewInv, RunFits, CorruptIsLeftAlone, CorruptStateBlocksMutation, Saved, TypeOK
-----------------------------------------------------------------------------
(* How a run moves on.                                                     *)

LEMMA EndTypes ==
  ASSUME TypeOK, NEW s \in Sessions, End(s)
  PROVE  /\ pc' \in [Sessions -> Stages] /\ mem' \in [Sessions -> Records] /\ at' \in [Sessions -> 1..(NThreads + 1)]
         /\ snap' \in [Sessions -> [head : Heads, items : [Threads -> Versions \cup {NoVersion}]]]
         /\ plan' \in [Sessions -> [items : [Threads -> Decisions], code : BOOLEAN]]
         /\ cycle' \in [Sessions -> 0..(MaxCycles - 1)]
         /\ pushed' \in [Sessions -> BOOLEAN] /\ failed' \in [Sessions -> BOOLEAN] /\ aborted' \in [Sessions -> BOOLEAN]
         /\ pc'[s] = "idle" /\ mem'[s] = EmptyRecord /\ at'[s] = 1 /\ snap'[s] = NoSnap /\ plan'[s] = NoPlan
         /\ \A r \in Sessions : r # s => /\ pc'[r] = pc[r] /\ mem'[r] = mem[r] /\ at'[r] = at[r]
                                         /\ snap'[r] = snap[r] /\ plan'[r] = plan[r]
BY ReviewTypes DEF TypeOK, End, Go, Stages

\* A cycle that begins, or the run that ends at their limit.
LEMMA CycleTypes ==
  ASSUME TypeOK, NEW s \in Sessions, NextCycle(s)
  PROVE  /\ pc' \in [Sessions -> Stages] /\ at' \in [Sessions -> 1..(NThreads + 1)]
         /\ snap' \in [Sessions -> [head : Heads, items : [Threads -> Versions \cup {NoVersion}]]]
         /\ plan' \in [Sessions -> [items : [Threads -> Decisions], code : BOOLEAN]]
         /\ cycle' \in [Sessions -> 0..(MaxCycles - 1)]
         /\ pushed' \in [Sessions -> BOOLEAN] /\ failed' \in [Sessions -> BOOLEAN] /\ aborted' \in [Sessions -> BOOLEAN]
         /\ at'[s] = 1 /\ snap'[s] = NoSnap /\ plan'[s] = NoPlan
         /\ \/ pc'[s] = "refresh" /\ cycle[s] + 1 < MaxCycles
            \/ pc'[s] = "idle" /\ cycle[s] + 1 = MaxCycles /\ mem' = [mem EXCEPT ![s] = EmptyRecord]
         /\ \A r \in Sessions : r # s => /\ pc'[r] = pc[r] /\ at'[r] = at[r] /\ snap'[r] = snap[r] /\ plan'[r] = plan[r]
<1>1. CASE End(s) /\ cycle[s] + 1 = MaxCycles
  <2>1. mem' = [mem EXCEPT ![s] = EmptyRecord]
    BY <1>1 DEF End
  <2>2. QED
    BY <1>1, <2>1, EndTypes
<1>2. CASE cycle[s] + 1 < MaxCycles /\ ~(cycle[s] + 1 = MaxCycles)
  <2>1. cycle[s] \in 0..(MaxCycles - 1)
    BY DEF TypeOK
  <2>2. cycle[s] + 1 \in 0..(MaxCycles - 1)
    BY <1>2, <2>1, ReviewSets
  <2>3. /\ pc' = [pc EXCEPT ![s] = "refresh"] /\ cycle' = [cycle EXCEPT ![s] = @ + 1]
        /\ at' = [at EXCEPT ![s] = 1] /\ snap' = [snap EXCEPT ![s] = NoSnap] /\ plan' = [plan EXCEPT ![s] = NoPlan]
        /\ pushed' = [pushed EXCEPT ![s] = FALSE] /\ UNCHANGED <<failed, aborted>>
    BY <1>2 DEF NextCycle, Go
  <2>4. /\ pc' \in [Sessions -> Stages] /\ cycle' \in [Sessions -> 0..(MaxCycles - 1)]
        /\ pushed' \in [Sessions -> BOOLEAN] /\ failed' \in [Sessions -> BOOLEAN] /\ aborted' \in [Sessions -> BOOLEAN]
    BY <2>2, <2>3 DEF TypeOK, Stages
  <2>5. /\ at' \in [Sessions -> 1..(NThreads + 1)]
        /\ snap' \in [Sessions -> [head : Heads, items : [Threads -> Versions \cup {NoVersion}]]]
        /\ plan' \in [Sessions -> [items : [Threads -> Decisions], code : BOOLEAN]]
    BY <2>3, ReviewTypes DEF TypeOK
  <2>6. QED
    BY <1>2, <2>3, <2>4, <2>5 DEF TypeOK
<1>3. QED
  <2>1. cycle[s] \in 0..(MaxCycles - 1) /\ MaxCycles \in Nat \ {0}
    BY ReviewSets DEF TypeOK
  <2>2. QED
    BY <1>1, <1>2, <2>1 DEF NextCycle

\* The next item, or the end of the loop at an item that could not be answered.
LEMMA ItemTypes ==
  ASSUME TypeOK, NEW s \in Sessions, at[s] \in Threads, NEW record \in Records, NextItem(s, record)
  PROVE  /\ pc' \in [Sessions -> Stages] /\ mem' \in [Sessions -> Records] /\ at' \in [Sessions -> 1..(NThreads + 1)]
         /\ UNCHANGED <<snap, plan, cycle, pushed, failed>>
         /\ pc'[s] = "reply" /\ mem'[s] = record /\ at'[s] = at[s] + 1
         /\ \A r \in Sessions : r # s => pc'[r] = pc[r] /\ mem'[r] = mem[r] /\ at'[r] = at[r]
<1>1. at[s] + 1 \in 1..(NThreads + 1)
  BY ReviewSets
<1>2. QED
  BY <1>1 DEF NextItem, TypeOK, Go, Stages

LEMMA StopTypes ==
  ASSUME TypeOK, NEW s \in Sessions, StopReplies(s)
  PROVE  /\ pc' \in [Sessions -> Stages] /\ failed' \in [Sessions -> BOOLEAN]
         /\ UNCHANGED <<mem, at, snap, plan, cycle, pushed>>
         /\ pc'[s] = "save" /\ \A r \in Sessions : r # s => pc'[r] = pc[r]
BY DEF StopReplies, TypeOK, Go, Stages
-----------------------------------------------------------------------------
(* A run changes nothing of another's, and takes back no reply.            *)

LEMMA RunHolds ==
  ASSUME ReviewInv, NEW s \in Sessions, TypeOK', RunFits(s)', UNCHANGED constant,
         \A r \in Sessions : r # s => /\ pc'[r] = pc[r] /\ mem'[r] = mem[r] /\ at'[r] = at[r]
                                      /\ snap'[r] = snap[r] /\ plan'[r] = plan[r],
         \A t \in Threads, v \in Versions : replied'[t][v] >= replied[t][v],
         corrupt => UNCHANGED <<file, replied, attempts>>,
         file'.pending \subseteq file.pending \cup mem[s].pending
  PROVE  ReviewInv'
<1>1. corrupt' = corrupt /\ discussions' = discussions
  BY DEF constant
<1>2. ASSUME NEW t \in Threads, NEW v \in Versions, replied[t][v] >= 1 PROVE replied'[t][v] >= 1
  <2>1. replied[t][v] \in Nat /\ replied'[t][v] \in Nat /\ replied'[t][v] >= replied[t][v]
    BY DEF ReviewInv, TypeOK
  <2>2. QED
    BY <1>2, <2>1
<1>3. ASSUME NEW record \in Records, PendingIsPosted(record), NEW new, new.pending \subseteq record.pending
      PROVE  \A p \in new.pending : replied'[p[1]][p[2]] >= 1
  <2>1. record.pending \subseteq Threads \X Versions
    BY RecordParts
  <2>2. ASSUME NEW p \in new.pending PROVE replied'[p[1]][p[2]] >= 1
    <3>1. p \in record.pending /\ p[1] \in Threads /\ p[2] \in Versions
      BY <1>3, <2>1, <2>2
    <3>2. QED
      BY <1>2, <1>3, <3>1 DEF PendingIsPosted
  <2>3. QED
    BY <2>2
<1>4. file \in Records /\ \A r \in Sessions : mem[r] \in Records /\ PendingIsPosted(mem[r])
  BY DEF ReviewInv, TypeOK, RunFits, AnsweredIsPending
<1>5. PendingIsPosted(file)'
  <2>1. ASSUME NEW p \in file'.pending PROVE replied'[p[1]][p[2]] >= 1
    <3>1. \E record \in {file, mem[s]} : p \in record.pending
      BY <2>1
    <3>2. QED
      BY <1>3, <1>4, <3>1 DEF ReviewInv
  <2>2. QED
    BY <2>1 DEF PendingIsPosted
<1>6. CorruptStateBlocksMutation'
  BY <1>1 DEF ReviewInv, CorruptStateBlocksMutation
<1>7. ASSUME NEW r \in Sessions, r # s PROVE RunFits(r)'
  <2>1. pc'[r] = pc[r] /\ mem'[r] = mem[r] /\ at'[r] = at[r] /\ snap'[r] = snap[r] /\ plan'[r] = plan[r] /\ RunFits(r)
    BY <1>7 DEF ReviewInv
  <2>2. PlanIsTriaged(r)' /\ CorruptIsLeftAlone(r)'
    BY <1>1, <2>1 DEF RunFits, PlanIsTriaged, CorruptIsLeftAlone
  <2>3. PendingIsPosted(mem[r])'
    BY <1>3, <1>4, <2>1 DEF PendingIsPosted
  <2>4. AnsweredIsPending(r)'
    BY <1>1, <2>1, <2>3 DEF RunFits, AnsweredIsPending, MatchingPending, Triaged
  <2>5. QED
    BY <2>2, <2>3, <2>4 DEF RunFits
<1>8. QED
  BY <1>5, <1>6, <1>7 DEF ReviewInv

\* A run that ends has nothing left to fit.
LEMMA EndHolds ==
  ASSUME ReviewInv, NEW s \in Sessions, End(s), UNCHANGED <<constant, version, open, replied, reopened, attempts>>,
         file' \in {file, mem[s], Retried(s)}, corrupt => file' = file,
         head' \in Heads, runs' \in Nat, crashes' \in Nat
  PROVE  ReviewInv'
<1>1. /\ pc'[s] = "idle" /\ mem'[s] = EmptyRecord /\ at'[s] = 1 /\ snap'[s] = NoSnap /\ plan'[s] = NoPlan
      /\ \A r \in Sessions : r # s => /\ pc'[r] = pc[r] /\ mem'[r] = mem[r] /\ at'[r] = at[r]
                                      /\ snap'[r] = snap[r] /\ plan'[r] = plan[r]
  BY EndTypes DEF ReviewInv
<1>2. /\ file' \in Records /\ file'.pending \subseteq file.pending \cup mem[s].pending
  BY RetriedRecords DEF ReviewInv, TypeOK
<1>3. TypeOK'
  <2>1. TypeOK
    BY DEF ReviewInv
  <2>2. QED
    BY <1>2, <2>1, EndTypes DEF TypeOK, constant
<1>4. RunFits(s)'
  BY <1>1, ReviewTypes DEF RunFits, PlanIsTriaged, AnsweredIsPending, PendingIsPosted, CorruptIsLeftAlone
<1>5. \A t \in Threads, v \in Versions : replied'[t][v] >= replied[t][v]
  BY DEF ReviewInv, TypeOK
<1>6. QED
  BY <1>1, <1>2, <1>3, <1>4, <1>5, RunHolds

\* A run that goes on to its next cycle keeps its record, or what it recorded.
LEMMA CycleHolds ==
  ASSUME ReviewInv, NEW s \in Sessions, NextCycle(s), UNCHANGED <<constant, version, open, ghosts>>,
         NEW record \in {mem[s], Retried(s)},
         mem' = [mem EXCEPT ![s] = IF cycle[s] + 1 = MaxCycles THEN EmptyRecord ELSE record],
         file' \in {file, mem[s], Retried(s)}, corrupt => file' = file /\ record = mem[s], head' \in Heads
  PROVE  ReviewInv'
<1>1. TypeOK
  BY DEF ReviewInv
<1>2. /\ at'[s] = 1 /\ snap'[s] = NoSnap /\ plan'[s] = NoPlan /\ pc'[s] \in {"refresh", "idle"}
      /\ \A r \in Sessions : r # s => /\ pc'[r] = pc[r] /\ at'[r] = at[r] /\ snap'[r] = snap[r] /\ plan'[r] = plan[r]
  BY <1>1, CycleTypes
<1>3. /\ record \in Records /\ record.pending = mem[s].pending
      /\ file' \in Records /\ file'.pending \subseteq file.pending \cup mem[s].pending
  BY <1>1, RetriedRecords DEF TypeOK
<1>4. /\ mem' \in [Sessions -> Records] /\ mem'[s] \in {EmptyRecord, record}
      /\ \A r \in Sessions : r # s => mem'[r] = mem[r]
  BY <1>1, <1>3, ReviewTypes DEF TypeOK
<1>5. TypeOK'
  BY <1>1, <1>3, <1>4, CycleTypes DEF TypeOK, constant, ghosts
<1>6. RunFits(s)'
  <2>1. PlanIsTriaged(s)'
    BY <1>2, ReviewTypes DEF PlanIsTriaged
  <2>2. PendingIsPosted(mem[s])'
    <3>1. PendingIsPosted(mem[s]) /\ mem'[s].pending \subseteq mem[s].pending
      BY <1>3, <1>4, ReviewTypes DEF ReviewInv, RunFits, AnsweredIsPending
    <3>2. QED
      BY <3>1 DEF PendingIsPosted, ghosts
  <2>3. CorruptIsLeftAlone(s)'
    BY <1>2, <1>4, ReviewTypes DEF ReviewInv, RunFits, CorruptIsLeftAlone, constant
  <2>4. QED
    BY <1>2, <2>1, <2>2, <2>3 DEF RunFits, AnsweredIsPending
<1>7. \A t \in Threads, v \in Versions : replied'[t][v] >= replied[t][v]
  BY <1>1 DEF TypeOK, ghosts
<1>8. QED
  BY <1>2, <1>3, <1>4, <1>5, <1>6, <1>7, RunHolds DEF ghosts

\* A run that goes on to the next item, or leaves the replies.
LEMMA ItemHolds ==
  ASSUME ReviewInv, NEW s \in Sessions, at[s] \in Threads, pc[s] \in {"reply", "inspect", "resolve"},
         NEW record \in Records, NextItem(s, record),
         record.pending \subseteq mem[s].pending, corrupt => record = EmptyRecord,
         open' \in [Threads -> BOOLEAN], replied' \in [Threads -> [Versions -> Nat]],
         \A t \in Threads, v \in Versions : replied'[t][v] >= replied[t][v], corrupt => replied' = replied,
         UNCHANGED <<file, constant, version, head, aborted, reopened, attempts, runs, crashes>>
  PROVE  ReviewInv'
<1>1. TypeOK /\ RunFits(s)
  BY DEF ReviewInv
<1>2. /\ UNCHANGED <<snap, plan, cycle, pushed, failed>>
      /\ pc'[s] = "reply" /\ mem'[s] = record /\ at'[s] = at[s] + 1
      /\ \A r \in Sessions : r # s => pc'[r] = pc[r] /\ mem'[r] = mem[r] /\ at'[r] = at[r]
  BY <1>1, ItemTypes
<1>3. TypeOK'
  BY <1>1, ItemTypes DEF TypeOK, constant
<1>4. PendingIsPosted(mem[s])'
  <2>1. ASSUME NEW p \in record.pending PROVE replied'[p[1]][p[2]] >= 1
    <3>1. p[1] \in Threads /\ p[2] \in Versions /\ replied[p[1]][p[2]] >= 1
      BY <1>1, <2>1, RecordParts DEF RunFits, AnsweredIsPending, PendingIsPosted
    <3>2. replied'[p[1]][p[2]] >= replied[p[1]][p[2]]
      BY <3>1
    <3>3. replied'[p[1]][p[2]] \in Nat /\ replied[p[1]][p[2]] \in Nat
      BY <1>1, <3>1 DEF TypeOK
    <3>4. QED
      BY <3>1, <3>2, <3>3
  <2>2. QED
    BY <1>2, <2>1 DEF PendingIsPosted
<1>5. RunFits(s)'
  BY <1>1, <1>2, <1>4 DEF RunFits, PlanIsTriaged, AnsweredIsPending, CorruptIsLeftAlone, constant
<1>6. QED
  BY <1>2, <1>3, <1>5, RunHolds

LEMMA StopHolds ==
  ASSUME ReviewInv, NEW s \in Sessions, StopReplies(s), open' \in [Threads -> BOOLEAN],
         UNCHANGED <<file, constant, version, head, aborted, ghosts>>
  PROVE  ReviewInv'
<1>1. TypeOK /\ RunFits(s)
  BY DEF ReviewInv
<1>2. /\ UNCHANGED <<mem, at, snap, plan, cycle, pushed>>
      /\ pc'[s] = "save" /\ \A r \in Sessions : r # s => pc'[r] = pc[r]
  BY <1>1, StopTypes
<1>3. TypeOK'
  BY <1>1, StopTypes DEF TypeOK, constant, ghosts
<1>4. RunFits(s)'
  BY <1>1, <1>2 DEF RunFits, PlanIsTriaged, AnsweredIsPending, PendingIsPosted, CorruptIsLeftAlone, constant, ghosts
<1>5. \A t \in Threads, v \in Versions : replied'[t][v] >= replied[t][v]
  BY <1>1 DEF TypeOK, ghosts
<1>6. QED
  BY <1>2, <1>3, <1>4, <1>5, RunHolds DEF ghosts

\* A run that goes on to another stage with the record it has.
LEMMA StageHolds ==
  ASSUME ReviewInv, NEW s \in Sessions, NEW stage \in Stages, Go(s, stage), TypeOK',
         UNCHANGED <<file, constant, mem, at, replied, reopened>>, corrupt => UNCHANGED attempts,
         \A r \in Sessions : r # s => snap'[r] = snap[r] /\ plan'[r] = plan[r],
         PlanIsTriaged(s)',
         stage \in {"inspect", "resolve"} => at[s] \in Threads \ discussions /\ MatchingPending(s) /\ snap'[s] = snap[s],
         corrupt => stage \notin {"rerun", "record"} /\ \A t \in Threads : plan'[s].items[t] \in {"none", "ask"}
  PROVE  ReviewInv'
<1>1. TypeOK /\ RunFits(s)
  BY DEF ReviewInv
<1>2. pc'[s] = stage /\ \A r \in Sessions : r # s => pc'[r] = pc[r]
  BY <1>1 DEF Go, TypeOK
<1>3. RunFits(s)'
  <2>1. AnsweredIsPending(s)'
    BY <1>1, <1>2 DEF RunFits, AnsweredIsPending, PendingIsPosted, MatchingPending, Triaged, constant
  <2>2. CorruptIsLeftAlone(s)'
    BY <1>1, <1>2 DEF RunFits, CorruptIsLeftAlone, constant
  <2>3. QED
    BY <2>1, <2>2 DEF RunFits
<1>4. \A t \in Threads, v \in Versions : replied'[t][v] >= replied[t][v]
  BY <1>1 DEF TypeOK
<1>5. file'.pending \subseteq file.pending \cup mem[s].pending
  OBVIOUS
<1>6. QED
  BY <1>2, <1>3, <1>4, <1>5, RunHolds
-----------------------------------------------------------------------------
(* Up to the replies.                                                      *)

\* The record is empty, and nothing was done.
LEMMA ReviewInitHolds == ASSUME Init PROVE ReviewInv
<1>1. TypeOK
  <2>1. /\ version \in [Threads -> Versions] /\ open \in [Threads -> BOOLEAN] /\ head \in Heads
        /\ pc \in [Sessions -> Stages] /\ mem \in [Sessions -> Records] /\ at \in [Sessions -> 1..(NThreads + 1)]
    BY ReviewTypes, ReviewSets DEF Init, Stages
  <2>2. /\ snap \in [Sessions -> [head : Heads, items : [Threads -> Versions \cup {NoVersion}]]]
        /\ plan \in [Sessions -> [items : [Threads -> Decisions], code : BOOLEAN]]
        /\ cycle \in [Sessions -> 0..(MaxCycles - 1)]
    BY ReviewTypes DEF Init
  <2>3. /\ replied \in [Threads -> [Versions -> Nat]] /\ reopened \in [Threads -> [Versions -> Nat]]
        /\ attempts \in [Heads -> Nat]
    BY DEF Init
  <2>4. QED
    BY <2>1, <2>2, <2>3, ReviewTypes DEF Init, TypeOK
<1>2. CorruptStateBlocksMutation /\ PendingIsPosted(file)
  BY ReviewTypes DEF Init, CorruptStateBlocksMutation, PendingIsPosted
<1>3. ASSUME NEW s \in Sessions PROVE RunFits(s)
  <2>1. pc[s] = "idle" /\ mem[s] = EmptyRecord /\ at[s] = 1 /\ snap[s] = NoSnap /\ plan[s] = NoPlan
    BY DEF Init
  <2>2. QED
    BY <2>1, ReviewTypes DEF RunFits, PlanIsTriaged, AnsweredIsPending, PendingIsPosted, CorruptIsLeftAlone
<1>4. QED
  BY <1>1, <1>2, <1>3 DEF ReviewInv

\* A run that reads the record.
LEMMA LoadHolds == ASSUME ReviewInv, NEW s \in Sessions, LoadPersistedState(s) PROVE ReviewInv'
<1> DEFINE record == IF corrupt THEN EmptyRecord ELSE file
<1>1. /\ TypeOK /\ RunFits(s) /\ pc[s] = "idle" /\ pc' = [pc EXCEPT ![s] = "refresh"] /\ mem' = [mem EXCEPT ![s] = record]
      /\ runs' = runs + 1
      /\ UNCHANGED <<file, constant, version, open, head, at, snap, plan, cycle, pushed, failed, aborted, replied, reopened,
                     attempts, crashes>>
  BY DEF ReviewInv, LoadPersistedState, Go, github
<1>2. record \in Records /\ PendingIsPosted(record)
  BY <1>1, ReviewTypes DEF ReviewInv, TypeOK, PendingIsPosted
<1>3. /\ pc'[s] = "refresh" /\ mem'[s] = record
      /\ \A r \in Sessions : r # s => pc'[r] = pc[r] /\ mem'[r] = mem[r]
  BY <1>1 DEF TypeOK
<1>4. corrupt => record = EmptyRecord
  OBVIOUS
<1> HIDE DEF record
<1>5. TypeOK'
  <2>1. pc' \in [Sessions -> Stages] /\ mem' \in [Sessions -> Records] /\ runs' \in Nat
    BY <1>1, <1>2 DEF TypeOK, Stages
  <2>2. QED
    BY <1>1, <2>1 DEF TypeOK, constant
<1>6. RunFits(s)'
  BY <1>1, <1>2, <1>3, <1>4
  DEF RunFits, PlanIsTriaged, AnsweredIsPending, PendingIsPosted, CorruptIsLeftAlone, constant
<1>7. \A t \in Threads, v \in Versions : replied'[t][v] >= replied[t][v]
  BY <1>1 DEF TypeOK
<1>8. QED
  BY <1>1, <1>3, <1>5, <1>6, <1>7, RunHolds

\* A run that ends before it changed the record.
LEMMA EndsHold ==
  ASSUME ReviewInv, NEW s \in Sessions, RefreshEnds(s) \/ TriageEnds(s) \/ RerunEnds(s) \/ FixEnds(s) \/ Crash(s)
  PROVE  ReviewInv'
<1>1. head \in Heads /\ runs \in Nat /\ crashes \in Nat
  BY DEF ReviewInv, TypeOK
<1>2. QED
  BY <1>1, EndHolds DEF RefreshEnds, TriageEnds, RerunEnds, FixEnds, Crash, github, ghosts

\* The items of a pull request as it is, those that the record suppresses apart.
LEMMA FetchHolds == ASSUME ReviewInv, NEW s \in Sessions, FetchPRState(s) PROVE ReviewInv'
<1> DEFINE latest == [head |-> head,
                     items |-> [t \in Threads |-> IF open[t] /\ ~Suppressed(mem[s], t) THEN version[t] ELSE NoVersion]]
<1>1. /\ TypeOK /\ RunFits(s) /\ pc[s] = "refresh" /\ Go(s, "triage") /\ snap' = [snap EXCEPT ![s] = latest]
      /\ UNCHANGED <<file, constant, version, open, head, mem, at, plan, cycle, pushed, failed, aborted, ghosts>>
  BY DEF ReviewInv, FetchPRState, github
<1>2. latest \in [head : Heads, items : [Threads -> Versions \cup {NoVersion}]]
  BY <1>1 DEF TypeOK
<1> HIDE DEF latest
<1>3. TypeOK'
  <2>1. /\ pc' \in [Sessions -> Stages]
        /\ snap' \in [Sessions -> [head : Heads, items : [Threads -> Versions \cup {NoVersion}]]]
    BY <1>1, <1>2 DEF TypeOK, Go, Stages
  <2>2. QED
    BY <1>1, <2>1 DEF TypeOK, constant, ghosts
<1>4. plan[s] = NoPlan /\ at[s] = 1 /\ pc'[s] = "triage" /\ \A r \in Sessions : r # s => snap'[r] = snap[r]
  BY <1>1 DEF RunFits, PlanIsTriaged, TypeOK, Go
<1>5. PlanIsTriaged(s)'
  BY <1>1, <1>4, ReviewTypes DEF PlanIsTriaged
<1>6. "triage" \in Stages /\ (corrupt => \A t \in Threads : plan[s].items[t] \in {"none", "ask"})
  BY <1>1 DEF Stages, RunFits, CorruptIsLeftAlone
<1>7. QED
  BY <1>1, <1>3, <1>4, <1>5, <1>6, StageHolds DEF ghosts

\* A head that is pushed is one of the heads.
LEMMA HeadMoves == ASSUME head \in Heads, head' = head \/ (head < MaxHead /\ head' = head + 1) PROVE head' \in Heads
BY ReviewSets

\* The base that moved is merged: another cycle, with the record saved if it was pushed.
LEMMA UpdateHolds == ASSUME ReviewInv, NEW s \in Sessions, UpdateBase(s) PROVE ReviewInv'
<1>1. /\ NextCycle(s) /\ UNCHANGED <<constant, version, open, ghosts>> /\ Saved(s) = mem[s] /\ TypeOK
      /\ \/ head < MaxHead /\ head' = head + 1 /\ file' = Saved(s)
         \/ UNCHANGED <<head, file>>
      /\ mem' = IF cycle[s] + 1 = MaxCycles THEN [mem EXCEPT ![s] = EmptyRecord] ELSE mem
  BY SavedRecords DEF UpdateBase, ReviewInv
<1>2. head' \in Heads /\ file' \in {file, mem[s], Retried(s)}
  <2>1. head \in Heads
    BY <1>1 DEF TypeOK
  <2>2. head' \in Heads
    BY <1>1, <2>1, HeadMoves
  <2>3. QED
    BY <1>1, <2>2
<1>3. mem' = [mem EXCEPT ![s] = IF cycle[s] + 1 = MaxCycles THEN EmptyRecord ELSE mem[s]]
  BY <1>1 DEF TypeOK
<1>4. corrupt => file' = file
  BY <1>1 DEF Saved
<1>5. QED
  BY <1>1, <1>2, <1>3, <1>4, CycleHolds

\* Waiting for checks is no cycle.
LEMMA WatchHolds == ASSUME ReviewInv, NEW s \in Sessions, WatchChecks(s) PROVE ReviewInv'
<1>1. /\ TypeOK /\ RunFits(s) /\ pc[s] = "triage" /\ Go(s, "refresh") /\ snap' = [snap EXCEPT ![s] = NoSnap]
      /\ UNCHANGED <<file, constant, version, open, head, mem, at, plan, cycle, pushed, failed, aborted, ghosts>>
  BY DEF ReviewInv, WatchChecks, github
<1>2. TypeOK'
  <2>1. /\ pc' \in [Sessions -> Stages]
        /\ snap' \in [Sessions -> [head : Heads, items : [Threads -> Versions \cup {NoVersion}]]]
    BY <1>1, ReviewTypes DEF TypeOK, Go, Stages
  <2>2. QED
    BY <1>1, <2>1 DEF TypeOK, constant, ghosts
<1>3. plan[s] = NoPlan /\ at[s] = 1 /\ pc'[s] = "refresh" /\ \A r \in Sessions : r # s => snap'[r] = snap[r]
  BY <1>1 DEF RunFits, PlanIsTriaged, TypeOK, Go
<1>4. PlanIsTriaged(s)'
  BY <1>1, <1>3, ReviewTypes DEF PlanIsTriaged
<1>5. "refresh" \in Stages /\ (corrupt => \A t \in Threads : plan[s].items[t] \in {"none", "ask"})
  BY <1>1 DEF Stages, RunFits, CorruptIsLeftAlone
<1>6. QED
  BY <1>1, <1>2, <1>3, <1>4, <1>5, StageHolds DEF ghosts

\* A triage that a record which cannot be read does not stop asks for nothing.
LEMMA TriageHolds == ASSUME ReviewInv, NEW s \in Sessions, Triage(s) PROVE ReviewInv'
<1>1. /\ TypeOK /\ RunFits(s) /\ pc[s] = "triage"
      /\ UNCHANGED <<file, constant, version, open, head, mem, at, snap, cycle, pushed, failed, aborted, ghosts>>
  BY DEF ReviewInv, Triage, github
<1>2. PICK items \in [Threads -> Decisions], code \in BOOLEAN, flake \in BOOLEAN :
         /\ \A t \in Threads : snap[s].items[t] = NoVersion => items[t] = "none"
         /\ plan' = [plan EXCEPT ![s] = [items |-> items, code |-> code]]
         /\ LET retry == flake /\ snap[s].head \notin mem[s].reruns
            IN ~BlockedByFile(items, retry) /\ Go(s, IF retry THEN "rerun" ELSE "fix")
  BY DEF Triage
<1>3. PICK stage \in {"rerun", "fix"} : Go(s, stage) /\ (corrupt => stage = "fix" /\ ~CommentWork([items |-> items]))
  BY <1>2 DEF BlockedByFile
<1>4. /\ plan'[s].items = items /\ (\A r \in Sessions : r # s => plan'[r] = plan[r])
      /\ plan' \in [Sessions -> [items : [Threads -> Decisions], code : BOOLEAN]]
  BY <1>1, <1>2 DEF TypeOK
<1>5. TypeOK'
  <2>1. pc' \in [Sessions -> Stages]
    BY <1>1, <1>3 DEF TypeOK, Go, Stages
  <2>2. QED
    BY <1>1, <1>4, <2>1 DEF TypeOK, constant, ghosts
<1>6. PlanIsTriaged(s)'
  <2>1. \A t \in Threads : plan'[s].items[t] # "none" => snap'[s].items[t] \in Versions
    <3>1. \A t \in Threads : snap[s].items[t] \in Versions \cup {NoVersion}
      BY <1>1 DEF TypeOK
    <3>2. QED
      BY <1>1, <1>2, <1>4, <3>1
  <2>2. at[s] = 1 /\ pc'[s] = stage
    BY <1>1, <1>3 DEF RunFits, PlanIsTriaged, TypeOK, Go
  <2>3. QED
    BY <1>1, <1>3, <2>1, <2>2 DEF PlanIsTriaged
<1>7. corrupt => stage \notin {"rerun", "record"} /\ \A t \in Threads : plan'[s].items[t] \in {"none", "ask"}
  BY <1>3, <1>4 DEF CommentWork
<1>8. stage \in Stages /\ UNCHANGED <<file, constant, mem, at, replied, reopened>> /\ UNCHANGED attempts
  BY <1>1 DEF Stages, ghosts
<1>9. QED
  BY <1>1, <1>3, <1>4, <1>5, <1>6, <1>7, <1>8, StageHolds

\* A rerun that is sent, whether or not GitHub takes it.
LEMMA RerunHolds == ASSUME ReviewInv, NEW s \in Sessions, RerunFailedRun(s) PROVE ReviewInv'
<1>1. /\ TypeOK /\ RunFits(s) /\ pc[s] = "rerun" /\ attempts' = [attempts EXCEPT ![snap[s].head] = @ + 1]
      /\ (\E refused \in BOOLEAN : failed' = [failed EXCEPT ![s] = refused]) /\ Go(s, "record")
      /\ UNCHANGED <<file, constant, version, open, head, mem, at, snap, plan, cycle, pushed, aborted, replied, reopened, runs,
                     crashes>>
  BY DEF ReviewInv, RerunFailedRun, github
<1>2. TypeOK'
  <2>1. pc' \in [Sessions -> Stages] /\ attempts' \in [Heads -> Nat] /\ failed' \in [Sessions -> BOOLEAN]
    BY <1>1 DEF TypeOK, Go, Stages
  <2>2. QED
    BY <1>1, <2>1 DEF TypeOK, constant
<1>3. ~corrupt /\ at[s] = 1 /\ pc'[s] = "record"
  BY <1>1 DEF RunFits, CorruptIsLeftAlone, PlanIsTriaged, TypeOK, Go
<1>4. PlanIsTriaged(s)'
  BY <1>1, <1>3 DEF RunFits, PlanIsTriaged
<1>5. "record" \in Stages
  BY DEF Stages
<1>6. QED
  BY <1>1, <1>2, <1>3, <1>4, <1>5, StageHolds

\* The attempt is recorded before anything else.
LEMMA RecordHolds == ASSUME ReviewInv, NEW s \in Sessions, RecordRetry(s) PROVE ReviewInv'
<1>1. TypeOK /\ RunFits(s) /\ pc[s] = "record" /\ file' = Retried(s) /\ UNCHANGED <<constant, version, open, head, ghosts>>
  BY DEF ReviewInv, RecordRetry, github
<1>2. ~corrupt /\ head \in Heads /\ runs \in Nat /\ crashes \in Nat
  BY <1>1 DEF RunFits, CorruptIsLeftAlone, TypeOK
<1>3. CASE End(s) /\ aborted[s]
  BY <1>1, <1>2, <1>3, EndHolds DEF ghosts
<1>4. CASE /\ Go(s, "fix") /\ mem' = [mem EXCEPT ![s] = Retried(s)] /\ failed' = [failed EXCEPT ![s] = FALSE]
           /\ UNCHANGED <<at, snap, plan, cycle, pushed, aborted>>
  <2>1. /\ Retried(s) \in Records /\ Retried(s).pending = mem[s].pending
    BY <1>1, RetriedRecords
  <2>2. /\ pc'[s] = "fix" /\ mem'[s] = Retried(s)
        /\ \A r \in Sessions : r # s => pc'[r] = pc[r] /\ mem'[r] = mem[r]
    BY <1>1, <1>4 DEF TypeOK, Go
  <2>3. TypeOK'
    <3>1. pc' \in [Sessions -> Stages] /\ mem' \in [Sessions -> Records] /\ failed' \in [Sessions -> BOOLEAN]
      BY <1>1, <1>4, <2>1 DEF TypeOK, Go, Stages
    <3>2. QED
      BY <1>1, <1>4, <2>1, <3>1 DEF TypeOK, constant, ghosts
  <2>4. RunFits(s)'
    BY <1>1, <1>2, <1>4, <2>1, <2>2
    DEF RunFits, PlanIsTriaged, AnsweredIsPending, PendingIsPosted, CorruptIsLeftAlone, constant, ghosts
  <2>5. \A t \in Threads, v \in Versions : replied'[t][v] >= replied[t][v]
    BY <1>1 DEF TypeOK, ghosts
  <2>6. QED
    BY <1>1, <1>2, <1>4, <2>1, <2>2, <2>3, <2>4, <2>5, RunHolds
<1>5. CASE /\ NextCycle(s)
           /\ mem' = [mem EXCEPT ![s] = IF cycle[s] + 1 = MaxCycles THEN EmptyRecord ELSE Retried(s)]
  BY <1>1, <1>2, <1>5, CycleHolds
<1>6. QED
  BY <1>3, <1>4, <1>5 DEF RecordRetry

\* The fixes that the plan asks for are made, or none is needed.
LEMMA FixHolds == ASSUME ReviewInv, NEW s \in Sessions, Fix(s) PROVE ReviewInv'
<1>1. /\ TypeOK /\ RunFits(s) /\ pc[s] = "fix" /\ Go(s, "reply")
      /\ UNCHANGED <<file, constant, version, open, mem, at, snap, plan, cycle, failed, aborted, ghosts>>
      /\ \/ UNCHANGED <<head, pushed>>
         \/ head < MaxHead /\ head' = head + 1 /\ pushed' = [pushed EXCEPT ![s] = TRUE]
  BY DEF ReviewInv, Fix
<1>2. TypeOK'
  <2>1. head \in Heads /\ pushed \in [Sessions -> BOOLEAN]
    BY <1>1 DEF TypeOK
  <2>2. head' \in Heads
    BY <1>1, <2>1, HeadMoves
  <2>3. pc' \in [Sessions -> Stages] /\ pushed' \in [Sessions -> BOOLEAN]
    BY <1>1, <2>1 DEF TypeOK, Go, Stages
  <2>4. QED
    BY <1>1, <2>2, <2>3 DEF TypeOK, constant, ghosts
<1>3. pc'[s] = "reply"
  BY <1>1 DEF TypeOK, Go
<1>4. PlanIsTriaged(s)'
  BY <1>1, <1>3 DEF RunFits, PlanIsTriaged
<1>5. "reply" \in Stages /\ (corrupt => \A t \in Threads : plan[s].items[t] \in {"none", "ask"})
  BY <1>1 DEF Stages, RunFits, CorruptIsLeftAlone
<1>6. QED
  BY <1>1, <1>2, <1>4, <1>5, StageHolds DEF ghosts
-----------------------------------------------------------------------------
(* The replies.                                                            *)

\* An item whose decision is not "none" is at a version of the snapshot.
LEMMA DecidedItems ==
  ASSUME ReviewInv, NEW s \in Sessions, at[s] \in Threads
  PROVE  /\ Decision(s) # "none" => Triaged(s) \in Versions
         /\ corrupt => Decision(s) \in {"none", "ask"}
         /\ TypeOK /\ RunFits(s) /\ mem[s] \in Records /\ open \in [Threads -> BOOLEAN]
         /\ replied \in [Threads -> [Versions -> Nat]]
         /\ \A t \in Threads, v \in Versions : replied[t][v] >= replied[t][v]
BY DEF ReviewInv, RunFits, PlanIsTriaged, CorruptIsLeftAlone, Decision, Triaged, TypeOK

LEMMA AbortedHolds == ASSUME ReviewInv, NEW s \in Sessions, RepliesAborted(s) \/ ReplyFails(s) PROVE ReviewInv'
<1>1. open \in [Threads -> BOOLEAN]
  BY DEF ReviewInv, TypeOK
<1>2. StopReplies(s) /\ UNCHANGED <<file, constant, version, open, head, aborted, ghosts>>
  BY DEF RepliesAborted, ReplyFails, github
<1>3. QED
  BY <1>1, <1>2, StopHolds

\* An item that is passed over, or ignored for good.
LEMMA PassHolds == ASSUME ReviewInv, NEW s \in Sessions, SkipItem(s) \/ IgnoreItem(s) PROVE ReviewInv'
<1>1. /\ at[s] \in Threads /\ pc[s] = "reply"
      /\ UNCHANGED <<file, constant, version, open, head, aborted, replied, reopened, attempts, runs, crashes>>
  BY DEF SkipItem, IgnoreItem, AtItem, github, ghosts
<1>2. CASE NextItem(s, mem[s])
  BY <1>1, <1>2, DecidedItems, ItemHolds DEF RunFits, CorruptIsLeftAlone
<1>3. CASE StopReplies(s)
  BY <1>1, <1>3, DecidedItems, StopHolds DEF ghosts
<1>4. CASE Decision(s) = "ignore" /\ NextItem(s, Handled(mem[s], at[s], Triaged(s), TRUE))
  <2>1. mem[s] \in Records /\ Triaged(s) \in Versions /\ ~corrupt
    BY <1>1, <1>4, DecidedItems
  <2>2. LET new == Handled(mem[s], at[s], Triaged(s), TRUE)
        IN /\ new \in Records /\ new.pending = mem[s].pending /\ new.reruns = mem[s].reruns
           /\ new.handled[at[s]].version = Triaged(s)
           /\ \A u \in Threads : u # at[s] => new.handled[u] = mem[s].handled[u]
    BY ZenonT(60), <1>1, <2>1, HandledRecords
  <2>3. QED
    BY <1>1, <1>4, <2>1, <2>2, DecidedItems, ItemHolds
<1>5. QED
  BY <1>2, <1>3, <1>4 DEF SkipItem, IgnoreItem

\* A reply is pending from the moment GitHub has it, or its discussion is handled.
LEMMA PostHolds == ASSUME ReviewInv, NEW s \in Sessions, PostReply(s) PROVE ReviewInv'
<1>1. /\ at[s] \in Threads /\ pc[s] = "reply" /\ Decision(s) \in {"fix", "dismiss"}
      /\ replied' = [replied EXCEPT ![at[s]][Triaged(s)] = @ + 1]
      /\ UNCHANGED <<file, constant, version, open, head, aborted, reopened, attempts, runs, crashes>>
  BY DEF PostReply, Answers, AtItem, github
<1>2. /\ Triaged(s) \in Versions /\ ~corrupt /\ TypeOK /\ RunFits(s) /\ mem[s] \in Records /\ open \in [Threads -> BOOLEAN]
      /\ replied \in [Threads -> [Versions -> Nat]]
  BY <1>1, DecidedItems
<1>3. /\ replied' \in [Threads -> [Versions -> Nat]]
      /\ \A t \in Threads, v \in Versions : replied'[t][v] >= replied[t][v]
      /\ replied'[at[s]][Triaged(s)] >= 1
  BY <1>1, <1>2
<1>4. CASE NextItem(s, Handled(mem[s], at[s], Triaged(s), FALSE))
  <2>1. LET new == Handled(mem[s], at[s], Triaged(s), FALSE)
        IN /\ new \in Records /\ new.pending = mem[s].pending /\ new.reruns = mem[s].reruns
           /\ new.handled[at[s]].version = Triaged(s)
           /\ \A u \in Threads : u # at[s] => new.handled[u] = mem[s].handled[u]
    BY ZenonT(60), <1>1, <1>2, HandledRecords
  <2>2. QED
    BY <1>1, <1>2, <1>3, <1>4, <2>1, ItemHolds
<1>5. CASE /\ at[s] \notin discussions /\ Go(s, "inspect")
           /\ mem' = [mem EXCEPT ![s].pending = @ \cup {<<at[s], Triaged(s)>>}]
           /\ UNCHANGED <<at, snap, plan, cycle, pushed, failed>>
  <2> DEFINE record == [mem[s] EXCEPT !.pending = @ \cup {<<at[s], Triaged(s)>>}]
  <2>1. mem' = [mem EXCEPT ![s] = record]
    <3>1. mem' = [mem EXCEPT ![s].pending = @ \cup {<<at[s], Triaged(s)>>}]
      BY <1>5
    <3>2. mem \in [Sessions -> Records] /\ mem[s] \in Records
      BY <1>2 DEF TypeOK
    <3>3. QED
      BY <3>1, <3>2 DEF Records
  <2>2. /\ record \in Records /\ record.pending = mem[s].pending \cup {<<at[s], Triaged(s)>>}
        /\ record.reruns = mem[s].reruns /\ record.handled = mem[s].handled
    <3>1. LET new == [mem[s] EXCEPT !.pending = @ \cup {<<at[s], Triaged(s)>>}]
          IN /\ new \in Records /\ new.pending = mem[s].pending \cup {<<at[s], Triaged(s)>>}
             /\ new.reruns = mem[s].reruns /\ new.handled = mem[s].handled
      <4>1. mem[s] \in Records /\ at[s] \in Threads /\ Triaged(s) \in Versions
        BY <1>1, <1>2
      <4>2. QED
        BY <4>1, PendingRecords
    <3>2. QED
      BY <3>1
  <2> HIDE DEF record
  <2>3. /\ pc'[s] = "inspect" /\ mem'[s] = record
        /\ \A r \in Sessions : r # s => pc'[r] = pc[r] /\ mem'[r] = mem[r]
    BY <1>2, <1>5, <2>1 DEF TypeOK, Go
  <2>4. TypeOK'
    <3>1. pc' \in [Sessions -> Stages] /\ mem' \in [Sessions -> Records]
      <4>1. pc \in [Sessions -> Stages] /\ mem \in [Sessions -> Records] /\ pc' = [pc EXCEPT ![s] = "inspect"]
        BY <1>2, <1>5 DEF TypeOK, Go
      <4>2. QED
        BY <2>1, <2>2, <4>1 DEF Stages
    <3>2. /\ at' \in [Sessions -> 1..(NThreads + 1)] /\ cycle' \in [Sessions -> 0..(MaxCycles - 1)]
          /\ snap' \in [Sessions -> [head : Heads, items : [Threads -> Versions \cup {NoVersion}]]]
          /\ plan' \in [Sessions -> [items : [Threads -> Decisions], code : BOOLEAN]]
          /\ pushed' \in [Sessions -> BOOLEAN] /\ failed' \in [Sessions -> BOOLEAN]
      BY <1>2, <1>5 DEF TypeOK
    <3>3. QED
      BY <1>1, <1>2, <1>3, <3>1, <3>2 DEF TypeOK, constant
  <2>5. PendingIsPosted(mem[s])'
    <3>1. ASSUME NEW p \in record.pending PROVE replied'[p[1]][p[2]] >= 1
      <4>1. CASE p = <<at[s], Triaged(s)>>
        BY <1>3, <4>1
      <4>2. CASE p \in mem[s].pending
        <5>1. p[1] \in Threads /\ p[2] \in Versions /\ replied[p[1]][p[2]] >= 1
          BY <1>2, <4>2, RecordParts DEF RunFits, AnsweredIsPending, PendingIsPosted
        <5>2. replied[p[1]][p[2]] \in Nat /\ replied'[p[1]][p[2]] \in Nat /\ replied'[p[1]][p[2]] >= replied[p[1]][p[2]]
          BY <1>2, <1>3, <5>1
        <5>3. QED
          BY <5>1, <5>2
      <4>3. QED
        BY <2>2, <3>1, <4>1, <4>2
    <3>2. QED
      BY <2>3, <3>1 DEF PendingIsPosted
  <2>6. MatchingPending(s)'
    BY <1>5, <2>2, <2>3 DEF MatchingPending, Triaged
  <2>7. RunFits(s)'
    BY <1>1, <1>2, <1>5, <2>3, <2>5, <2>6 DEF RunFits, PlanIsTriaged, AnsweredIsPending, CorruptIsLeftAlone, constant
  <2>8. QED
    BY <1>1, <1>2, <1>3, <1>5, <2>3, <2>4, <2>7, RunHolds
<1>6. QED
  BY <1>4, <1>5 DEF PostReply

\* A step to another stage of the replies.
LEMMA TurnHolds ==
  ASSUME ReviewInv, NEW s \in Sessions, pc[s] \in {"reply", "inspect"}, NEW stage \in {"inspect", "resolve", "save"}, Go(s, stage),
         UNCHANGED <<file, constant, version, open, head, local, aborted, ghosts>>,
         stage # "save" => at[s] \in Threads \ discussions /\ MatchingPending(s)
  PROVE  ReviewInv'
<1>1. TypeOK /\ RunFits(s)
  BY DEF ReviewInv
<1>2. TypeOK'
  <2>1. pc' \in [Sessions -> Stages]
    BY <1>1 DEF TypeOK, Go, Stages
  <2>2. QED
    BY <1>1, <2>1 DEF TypeOK, constant, ghosts, local
<1>3. pc'[s] = stage
  BY <1>1 DEF TypeOK, Go
<1>4. PlanIsTriaged(s)'
  BY <1>1, <1>3 DEF RunFits, PlanIsTriaged, local
<1>5. stage \in Stages /\ (corrupt => \A t \in Threads : plan[s].items[t] \in {"none", "ask"})
  BY <1>1 DEF Stages, RunFits, CorruptIsLeftAlone
<1>6. QED
  BY <1>1, <1>2, <1>4, <1>5, StageHolds DEF ghosts, local

\* A thread whose reply is pending, and that is settled because it is resolved.
LEMMA SettleHolds ==
  ASSUME ReviewInv, NEW s \in Sessions, pc[s] \in {"inspect", "resolve"}, NextItem(s, Settled(mem[s], at[s], Triaged(s))),
         open' \in [Threads -> BOOLEAN], UNCHANGED <<file, constant, version, head, aborted, ghosts>>
  PROVE  ReviewInv'
<1>1. at[s] \in Threads /\ MatchingPending(s) /\ mem[s] \in Records /\ TypeOK
  BY DEF ReviewInv, RunFits, AnsweredIsPending, TypeOK
<1>2. Triaged(s) \in Versions /\ ~(corrupt /\ mem[s].pending = {})
  BY <1>1, RecordParts DEF MatchingPending
<1>3. ~corrupt
  BY <1>1, <1>2, ReviewTypes DEF ReviewInv, RunFits, CorruptIsLeftAlone, MatchingPending
<1>4. LET new == Settled(mem[s], at[s], Triaged(s))
      IN /\ new \in Records /\ new.pending = {p \in mem[s].pending : p[1] # at[s]} /\ new.reruns = mem[s].reruns
         /\ new.handled[at[s]].version = Triaged(s)
         /\ \A u \in Threads : u # at[s] => new.handled[u] = mem[s].handled[u]
  BY <1>1, <1>2, SettledRecords
<1>5. /\ replied' \in [Threads -> [Versions -> Nat]]
      /\ \A t \in Threads, v \in Versions : replied'[t][v] >= replied[t][v]
      /\ UNCHANGED <<replied, reopened, attempts, runs, crashes>>
  BY <1>1 DEF TypeOK, ghosts
<1>6. QED
  BY <1>1, <1>3, <1>4, <1>5, ItemHolds

\* A thread that is answered is read and resolved.
LEMMA ThreadHolds ==
  ASSUME ReviewInv, NEW s \in Sessions, ReuseReply(s) \/ Inspect(s) \/ ResolveThread(s) \/ InspectOrResolveFails(s) \/ LastItem(s)
  PROVE  ReviewInv'
<1>1. TypeOK /\ open \in [Threads -> BOOLEAN] /\ RunFits(s)
  BY DEF ReviewInv, TypeOK
<1>2. CASE ReuseReply(s)
  BY <1>2, TurnHolds DEF ReuseReply, Answers, AtItem, github
<1>3. CASE Inspect(s)
  <2>1. /\ pc[s] = "inspect" /\ UNCHANGED <<file, constant, version, open, head, aborted, ghosts>>
        /\ at[s] \in Threads \ discussions /\ MatchingPending(s)
    BY <1>1, <1>3 DEF Inspect, github, RunFits, AnsweredIsPending
  <2>2. CASE NextItem(s, Settled(mem[s], at[s], Triaged(s)))
    BY <1>1, <2>1, <2>2, SettleHolds
  <2>3. CASE Go(s, "resolve") /\ UNCHANGED local
    BY <2>1, <2>3, TurnHolds
  <2>4. CASE StopReplies(s)
    BY <1>1, <2>1, <2>4, StopHolds
  <2>5. QED
    BY <1>3, <2>2, <2>3, <2>4 DEF Inspect
<1>4. CASE ResolveThread(s)
  <2>1. open' \in [Threads -> BOOLEAN]
    BY <1>1, <1>4 DEF ResolveThread
  <2>2. QED
    BY <1>4, <2>1, SettleHolds DEF ResolveThread
<1>5. CASE InspectOrResolveFails(s)
  <2>1. open' \in [Threads -> BOOLEAN]
    BY <1>1, <1>5 DEF InspectOrResolveFails
  <2>2. QED
    BY <1>5, <2>1, StopHolds DEF InspectOrResolveFails
<1>6. CASE LastItem(s)
  BY <1>6, TurnHolds DEF LastItem, github
<1>7. QED
  BY <1>2, <1>3, <1>4, <1>5, <1>6

\* What the replies did is saved, whatever became of them.
LEMMA SaveHolds == ASSUME ReviewInv, NEW s \in Sessions, SaveReplies(s) PROVE ReviewInv'
<1>1. /\ TypeOK /\ file' = mem[s] /\ Saved(s) = mem[s] /\ file' = Saved(s)
      /\ UNCHANGED <<constant, version, open, head, ghosts>>
      /\ head \in Heads /\ runs \in Nat /\ crashes \in Nat
  BY SavedRecords DEF SaveReplies, github, ReviewInv, TypeOK
<1>2. corrupt => file' = file
  BY <1>1 DEF Saved
<1>3. CASE End(s)
  BY <1>1, <1>2, <1>3, EndHolds DEF ghosts
<1>4. CASE cycle[s] + 1 < MaxCycles /\ NextCycle(s) /\ UNCHANGED mem
  <2>1. cycle[s] + 1 # MaxCycles
    <3>1. cycle[s] \in 0..(MaxCycles - 1)
      BY <1>1 DEF TypeOK
    <3>2. QED
      BY <1>4, <3>1, ReviewSets
  <2>2. mem' = [mem EXCEPT ![s] = IF cycle[s] + 1 = MaxCycles THEN EmptyRecord ELSE mem[s]]
    BY <1>1, <1>4, <2>1 DEF TypeOK
  <2>3. QED
    BY <1>1, <1>2, <1>4, <2>2, CycleHolds
<1>5. QED
  BY <1>3, <1>4 DEF SaveReplies
-----------------------------------------------------------------------------
(* The user and the reviewers.                                             *)

LEMMA AbortHolds == ASSUME ReviewInv, NEW s \in Sessions, Abort(s) PROVE ReviewInv'
<1>1. aborted' = [aborted EXCEPT ![s] = TRUE] /\ UNCHANGED <<file, constant, github, pc, local, ghosts>>
  BY DEF Abort
<1>2. TypeOK'
  BY <1>1 DEF ReviewInv, TypeOK, constant, github, local, ghosts
<1>3. QED
  BY <1>1, <1>2
  DEF ReviewInv, RunFits, PlanIsTriaged, AnsweredIsPending, PendingIsPosted, CorruptIsLeftAlone, CorruptStateBlocksMutation,
      MatchingPending, Triaged, constant, local, ghosts

LEMMA ReviewerHolds ==
  ASSUME ReviewInv, NEW t \in Threads, Comment(t) \/ ReviewerResolves(t) \/ ReviewerReopens(t)
  PROVE  ReviewInv'
<1>1. /\ TypeOK /\ UNCHANGED <<file, constant, head, pc, local, aborted, replied, attempts, runs, crashes>>
      /\ \/ open' = open /\ reopened' = reopened /\ version[t] < MaxVersion /\ version' = [version EXCEPT ![t] = @ + 1]
         \/ version' = version /\ \E b \in BOOLEAN : open' = [open EXCEPT ![t] = b]
                               /\ reopened' \in {reopened, [reopened EXCEPT ![t][version[t]] = @ + 1]}
  BY DEF ReviewInv, Comment, ReviewerResolves, ReviewerReopens, ghosts
<1>2. version' \in [Threads -> Versions]
  <2>1. version[t] < MaxVersion => version[t] + 1 \in Versions
    <3>1. version[t] \in Versions
      BY <1>1 DEF TypeOK
    <3>2. QED
      BY <3>1, ReviewSets
  <2>2. QED
    BY <1>1, <2>1 DEF TypeOK
<1>3. open' \in [Threads -> BOOLEAN] /\ reopened' \in [Threads -> [Versions -> Nat]]
  <2>1. /\ version[t] \in Versions /\ reopened[t][version[t]] \in Nat /\ reopened[t] \in [Versions -> Nat]
        /\ open \in [Threads -> BOOLEAN] /\ reopened \in [Threads -> [Versions -> Nat]]
    BY <1>1 DEF TypeOK
  <2>2. open' \in [Threads -> BOOLEAN]
    BY <1>1, <2>1
  <2>3. [reopened EXCEPT ![t][version[t]] = @ + 1] \in [Threads -> [Versions -> Nat]]
    BY <2>1
  <2>4. QED
    BY <1>1, <2>1, <2>2, <2>3
<1>4. TypeOK'
  BY <1>1, <1>2, <1>3 DEF TypeOK, constant, local
<1>5. QED
  BY <1>1, <1>4
  DEF ReviewInv, RunFits, PlanIsTriaged, AnsweredIsPending, PendingIsPosted, CorruptIsLeftAlone, CorruptStateBlocksMutation,
      MatchingPending, Triaged, constant, local

LEMMA ReviewHolds == ASSUME ReviewInv, [Next]_vars PROVE ReviewInv'
<1>1. CASE UNCHANGED vars
  <2>1. UNCHANGED <<file, constant, github, pc, local, aborted, ghosts>>
    BY <1>1 DEF vars
  <2>2. TypeOK'
    BY <2>1 DEF ReviewInv, TypeOK, constant, github, local, ghosts
  <2>3. QED
    BY <2>1, <2>2
    DEF ReviewInv, RunFits, PlanIsTriaged, AnsweredIsPending, PendingIsPosted, CorruptIsLeftAlone,
        CorruptStateBlocksMutation, MatchingPending, Triaged, constant, local, ghosts
<1>2. ASSUME NEW s \in Sessions, Session(s) PROVE ReviewInv'
  BY <1>2, LoadHolds, EndsHold, FetchHolds, UpdateHolds, WatchHolds, TriageHolds, RerunHolds, RecordHolds, FixHolds,
     AbortedHolds, PassHolds, PostHolds, ThreadHolds, SaveHolds, AbortHolds
  DEF Session
<1>3. QED
  BY <1>1, <1>2, ReviewerHolds DEF Next
-----------------------------------------------------------------------------
(* Nothing is done twice, by a session that has the record to itself.       *)

\* What is known of the replies: the record in memory while a run goes on.
RecordOf(s) == IF pc[s] = "idle" THEN file ELSE mem[s]

\* Up to the replies memory and file agree; a rerun is in the file at once.
RecordIsRead(s) ==
  /\ pc[s] \in {"refresh", "triage", "rerun", "record", "fix"} => mem[s] = file
  /\ pc[s] # "idle" => mem[s].reruns = file.reruns

\* Versions only grow, so a record or a snapshot is of a version that was there.
RecordFits(record) ==
  /\ \A p \in record.pending : p[1] \notin discussions /\ p[2] <= version[p[1]]
  /\ \A t \in Threads : record.handled[t].version <= version[t]

VersionsAreSeen(s) ==
  /\ RecordFits(file) /\ RecordFits(mem[s])
  /\ \A t \in Threads : (t \in discussions => open[t]) /\ snap[s].items[t] <= version[t]
  /\ pc[s] \in {"idle", "refresh"} => snap[s] = NoSnap

\* An item of the snapshot that the replies have not come to.
Ahead(s, t) == pc[s] # "save" /\ at[s] <= t /\ snap[s].items[t] # NoVersion

DiscussionsAreNew(s) ==
  \A t \in discussions : Ahead(s, t) => RecordOf(s).handled[t].version < snap[s].items[t]

\* An item that has all its answers at a version is known to have them: a
\* discussion as handled, a thread as pending; or the version is past and not to be
\* answered by this run.
Past(s, t, v) ==
  /\ version[t] > v \/ (version[t] = v /\ ~open[t])
  /\ ~(Ahead(s, t) /\ snap[s].items[t] = v)

Known(s, t, v) == IF t \in discussions THEN RecordOf(s).handled[t].version >= v
                                       ELSE <<t, v>> \in RecordOf(s).pending \/ Past(s, t, v)

RepliesAreKept(s) ==
  crashes = 0 => \A t \in Threads, v \in Versions : /\ replied[t][v] <= 1 + reopened[t][v]
                                                    /\ replied[t][v] = 1 + reopened[t][v] => Known(s, t, v)

\* A head that was rerun is in the file, or is about to be.
RerunsAreKept(s) ==
  crashes = 0 =>
    /\ \A h \in Heads : /\ attempts[h] <= 1
                        /\ attempts[h] = 1 => h \in file.reruns \/ (pc[s] = "record" /\ h = snap[s].head)
    /\ pc[s] = "rerun" => snap[s].head \notin mem[s].reruns

DoneOnce(s) == /\ RecordIsRead(s) /\ VersionsAreSeen(s) /\ DiscussionsAreNew(s)
               /\ RepliesAreKept(s) /\ RerunsAreKept(s)

LEMMA OnceTypes ==
  ASSUME ReviewInv, NEW s \in Sessions
  PROVE  /\ file \in Records /\ mem[s] \in Records /\ crashes \in Nat /\ snap[s].head \in Heads
         /\ \A t \in Threads : /\ version[t] \in Versions /\ version[t] \in Nat /\ snap[s].items[t] \in Int /\ t \in Nat
                               /\ file.handled[t].version \in Int /\ mem[s].handled[t].version \in Int
         /\ \A t \in Threads, v \in Versions : replied[t][v] \in Nat /\ reopened[t][v] \in Nat /\ v \in Nat
         /\ at[s] \in Nat /\ discussions \subseteq Threads
         /\ pc[s] \in Stages
         /\ \A h \in Heads : attempts[h] \in Nat
<1>1. TypeOK
  BY DEF ReviewInv
<1>2. Versions \subseteq Nat /\ NoVersion \in Int /\ Threads \subseteq Nat /\ 1..(NThreads + 1) \subseteq Nat
  BY ReviewSets
<1>3. file \in Records /\ mem[s] \in Records /\ crashes \in Nat /\ discussions \subseteq Threads /\ pc[s] \in Stages
  BY <1>1 DEF TypeOK
<1>4. ASSUME NEW t \in Threads PROVE file.handled[t].version \in Int /\ mem[s].handled[t].version \in Int
  <2>1. \A v \in Versions \cup {NoVersion} : v \in Int
    BY <1>2
  <2>2. file.handled[t].version \in Versions \cup {NoVersion} /\ mem[s].handled[t].version \in Versions \cup {NoVersion}
    BY <1>3, <1>4, RecordParts
  <2>3. QED
    BY <2>1, <2>2
<1>5. /\ \A t \in Threads : version[t] \in Versions /\ snap[s].items[t] \in Versions \cup {NoVersion}
      /\ snap[s].head \in Heads
  BY <1>1 DEF TypeOK
<1>6. at[s] \in Nat
  BY <1>1, <1>2 DEF TypeOK
<1>7. /\ \A t \in Threads, v \in Versions : replied[t][v] \in Nat /\ reopened[t][v] \in Nat
      /\ \A h \in Heads : attempts[h] \in Nat
  BY <1>1 DEF TypeOK
<1>8. \A t \in Threads : /\ version[t] \in Versions /\ version[t] \in Nat /\ snap[s].items[t] \in Int /\ t \in Nat
                        /\ file.handled[t].version \in Int /\ mem[s].handled[t].version \in Int
  <2>1. ASSUME NEW t \in Threads
        PROVE  version[t] \in Versions /\ version[t] \in Nat /\ snap[s].items[t] \in Int /\ t \in Nat
    <3>1. version[t] \in Versions /\ snap[s].items[t] \in Versions \cup {NoVersion}
      BY <1>5
    <3>2. \A v \in Versions \cup {NoVersion} : v \in Int
      BY <1>2
    <3>3. version[t] \in Nat /\ t \in Nat
      BY <1>2, <3>1
    <3>4. QED
      BY <3>1, <3>2, <3>3
  <2>2. QED
    BY <1>4, <2>1
<1>9. \A t \in Threads, v \in Versions : replied[t][v] \in Nat /\ reopened[t][v] \in Nat /\ v \in Nat
  BY <1>2, <1>7
<1>10. QED
  BY <1>3, <1>5, <1>6, <1>7, <1>8, <1>9, Zenon

\* A record that has the same answers fits as well; an empty one fits anyway.
LEMMA SameFits ==
  ASSUME ReviewInv, UNCHANGED <<version, discussions>>, NEW record, RecordFits(record), NEW new,
         new.pending = record.pending /\ new.handled = record.handled
  PROVE  /\ \A p \in new.pending : p[1] \notin discussions' /\ p[2] <= version'[p[1]]
         /\ \A t \in Threads : new.handled[t].version <= version'[t]
BY DEF RecordFits

LEMMA EmptyFits == ASSUME ReviewInv PROVE RecordFits(EmptyRecord)
<1>1. \A t \in Threads : version[t] \in Nat
  BY ReviewSets DEF ReviewInv, TypeOK
<1>2. NoVersion = -1
  BY ReviewSets
<1>3. QED
  BY <1>1, <1>2, ReviewTypes DEF RecordFits

\* A step of a run that answers nothing: what is known stays known.
LEMMA RepliesMove ==
  ASSUME ReviewInv, ReviewInv', NEW s \in Sessions, DoneOnce(s),
         UNCHANGED <<version, open, discussions, replied, reopened>>, crashes' = 0 => crashes = 0,
         file' \in {file, mem[s], Retried(s)}, mem'[s] \in {mem[s], file, EmptyRecord, Retried(s)},
         snap'[s] = NoSnap \/ (snap'[s] = snap[s] /\ pc'[s] \notin {"idle", "refresh"}
                               /\ (pc'[s] # "save" => pc[s] # "save" /\ at'[s] >= at[s])),
         crashes' = 0 \/ snap'[s] # NoSnap => /\ RecordOf(s)'.pending = RecordOf(s).pending
                                              /\ RecordOf(s)'.handled = RecordOf(s).handled
  PROVE  VersionsAreSeen(s)' /\ DiscussionsAreNew(s)' /\ RepliesAreKept(s)'
<1>1. /\ at[s] \in Nat /\ at'[s] \in Nat /\ discussions \subseteq Threads
      /\ \A t \in Threads : t \in Nat /\ version[t] \in Nat
  <2>1. at'[s] \in Nat
    <3>1. at'[s] \in 1..(NThreads + 1) /\ NThreads \in Nat
      BY ReviewSets DEF ReviewInv, TypeOK
    <3>2. QED
      BY <3>1
  <2>2. QED
    BY <2>1, OnceTypes
<1>2. RecordFits(file)' /\ RecordFits(mem[s])'
  <2>1. ASSUME NEW new \in {file, mem[s], EmptyRecord, Retried(s)}
        PROVE  /\ \A p \in new.pending : p[1] \notin discussions' /\ p[2] <= version'[p[1]]
               /\ \A t \in Threads : new.handled[t].version <= version'[t]
    <3>1. PICK record \in {file, mem[s], EmptyRecord} : new.pending = record.pending /\ new.handled = record.handled
      BY RetriedRecords DEF ReviewInv
    <3>2. RecordFits(record)
      BY EmptyFits DEF DoneOnce, VersionsAreSeen
    <3>3. QED
      BY <3>1, <3>2, SameFits
  <2>2. file' \in {file, mem[s], EmptyRecord, Retried(s)} /\ mem'[s] \in {file, mem[s], EmptyRecord, Retried(s)}
    OBVIOUS
  <2>3. RecordFits(file)'
    BY <2>1, <2>2 DEF RecordFits
  <2>4. RecordFits(mem[s])'
    BY <2>1, <2>2 DEF RecordFits
  <2>5. QED
    BY <2>3, <2>4
<1>3. VersionsAreSeen(s)'
  <2>1. \A t \in Threads : NoSnap.items[t] <= version[t]
    BY <1>1, ReviewTypes, ReviewSets
  <2>2. QED
    BY <1>2, <2>1 DEF DoneOnce, VersionsAreSeen
<1>4. ASSUME NEW t \in Threads, Ahead(s, t)' PROVE Ahead(s, t) /\ snap'[s] = snap[s] /\ snap'[s] # NoSnap
  <2>1. snap'[s] # NoSnap
    BY <1>4, ReviewTypes DEF Ahead
  <2>2. QED
    BY <1>1, <1>4, <2>1 DEF Ahead
<1>5. DiscussionsAreNew(s)'
  <2>1. ASSUME NEW t \in discussions, Ahead(s, t)' PROVE RecordOf(s)'.handled[t].version < snap'[s].items[t]
    BY <1>1, <1>4, <2>1 DEF DoneOnce, DiscussionsAreNew
  <2>2. QED
    BY <2>1 DEF DiscussionsAreNew
<1>6. RepliesAreKept(s)'
  <2>1. ASSUME crashes' = 0, NEW t \in Threads, NEW v \in Versions, Known(s, t, v) PROVE Known(s, t, v)'
    BY <1>4, <2>1 DEF Known, Past
  <2>2. QED
    BY <2>1 DEF DoneOnce, RepliesAreKept
<1>7. QED
  BY <1>3, <1>5, <1>6

\* A step of a run that asks for no rerun.
LEMMA RerunsMove ==
  ASSUME ReviewInv, ReviewInv', NEW s \in Sessions, DoneOnce(s), UNCHANGED attempts, file'.reruns = file.reruns,
         crashes' = 0 => crashes = 0 /\ (pc[s] # "record" \/ (pc'[s] = pc[s] /\ snap'[s] = snap[s])),
         pc'[s] = "rerun" => snap'[s].head \notin mem'[s].reruns
  PROVE  RerunsAreKept(s)'
BY DEF DoneOnce, RerunsAreKept

\* A run that ends with the record on disk, or that the process did not survive.
LEMMA EndOnce ==
  ASSUME ReviewInv, ReviewInv', NEW s \in Sessions, DoneOnce(s), pc[s] # "idle", End(s),
         UNCHANGED <<version, open, discussions, replied, reopened, attempts>>, file' \in {file, mem[s]},
         crashes' = 0 => crashes = 0 /\ pc[s] # "record" /\ file' = mem[s]
  PROVE  DoneOnce(s)'
<1>1. pc'[s] = "idle" /\ mem'[s] = EmptyRecord /\ snap'[s] = NoSnap
  BY EndTypes DEF ReviewInv
<1>2. file'.reruns = file.reruns
  BY DEF DoneOnce, RecordIsRead
<1>3. VersionsAreSeen(s)' /\ DiscussionsAreNew(s)' /\ RepliesAreKept(s)'
  <2>1. crashes' = 0 => RecordOf(s)' = RecordOf(s)
    BY <1>1 DEF RecordOf
  <2>2. QED
    BY <1>1, <2>1, RepliesMove
<1>4. RerunsAreKept(s)'
  BY <1>1, <1>2, RerunsMove
<1>5. QED
  BY <1>1, <1>3, <1>4 DEF DoneOnce, RecordIsRead

\* A cycle that begins with the record on disk.
LEMMA CycleOnce ==
  ASSUME ReviewInv, ReviewInv', NEW s \in Sessions, DoneOnce(s), pc[s] \notin {"idle", "record"}, NextCycle(s),
         cycle[s] + 1 # MaxCycles => mem' = mem, file' = mem[s],
         UNCHANGED <<version, open, discussions, replied, reopened, attempts, crashes>>
  PROVE  DoneOnce(s)'
<1>1. CASE End(s)
  BY <1>1, EndOnce
<1>2. CASE ~End(s)
  <2>1. snap'[s] = NoSnap /\ pc'[s] = "refresh" /\ mem' = mem
    BY <1>2, CycleTypes DEF NextCycle, ReviewInv
  <2>2. file'.reruns = file.reruns /\ RecordOf(s)' = RecordOf(s)
    BY <2>1 DEF DoneOnce, RecordIsRead, RecordOf
  <2>3. VersionsAreSeen(s)' /\ DiscussionsAreNew(s)' /\ RepliesAreKept(s)'
    BY <2>1, <2>2, RepliesMove
  <2>4. RerunsAreKept(s)'
    BY <2>1, <2>2, RerunsMove
  <2>5. QED
    BY <2>1, <2>3, <2>4 DEF DoneOnce, RecordIsRead
<1>3. QED
  BY <1>1, <1>2

\* A run that goes on with the record and the snapshot it has.
LEMMA StageOnce ==
  ASSUME ReviewInv, ReviewInv', NEW s \in Sessions, DoneOnce(s), pc[s] # "idle", pc'[s] # "idle",
         UNCHANGED <<version, open, discussions, replied, reopened, attempts, crashes, file>>, mem'[s] = mem[s],
         snap'[s] = NoSnap \/ (snap'[s] = snap[s] /\ pc'[s] # "refresh"
                               /\ (pc'[s] # "save" => pc[s] # "save" /\ at'[s] >= at[s])),
         pc[s] # "record" \/ (pc'[s] = pc[s] /\ snap'[s] = snap[s]),
         pc'[s] = "rerun" => snap'[s].head \notin mem'[s].reruns,
         pc'[s] \in {"refresh", "triage", "rerun", "record", "fix"} => pc[s] \in {"refresh", "triage", "rerun", "record", "fix"}
  PROVE  DoneOnce(s)'
<1>1. RecordOf(s)' = RecordOf(s)
  BY DEF RecordOf
<1>2. VersionsAreSeen(s)' /\ DiscussionsAreNew(s)' /\ RepliesAreKept(s)'
  BY <1>1, RepliesMove
<1>3. RerunsAreKept(s)'
  BY RerunsMove
<1>4. QED
  BY <1>2, <1>3 DEF DoneOnce, RecordIsRead

LEMMA LoadOnce ==
  ASSUME ReviewInv, ReviewInv', NEW s \in Sessions, DoneOnce(s), LoadPersistedState(s) PROVE DoneOnce(s)'
<1>1. /\ TypeOK /\ pc[s] = "idle" /\ UNCHANGED <<file, corrupt, discussions, version, open, at, snap, replied, reopened, attempts, crashes>>
      /\ pc' = [pc EXCEPT ![s] = "refresh"] /\ mem' = [mem EXCEPT ![s] = IF corrupt THEN EmptyRecord ELSE file]
  BY DEF ReviewInv, LoadPersistedState, Go, github, constant
<1>2. pc'[s] = "refresh" /\ mem'[s] = file
  BY <1>1 DEF ReviewInv, TypeOK, CorruptStateBlocksMutation
<1>3. snap'[s] = NoSnap
  BY <1>1 DEF DoneOnce, VersionsAreSeen
<1>4. RecordOf(s)' = RecordOf(s)
  BY <1>1, <1>2 DEF RecordOf
<1>5. VersionsAreSeen(s)' /\ DiscussionsAreNew(s)' /\ RepliesAreKept(s)'
  BY <1>1, <1>2, <1>3, <1>4, RepliesMove
<1>6. RerunsAreKept(s)'
  BY <1>1, <1>2, RerunsMove
<1>7. QED
  BY <1>1, <1>2, <1>5, <1>6 DEF DoneOnce, RecordIsRead

LEMMA EndsOnce ==
  ASSUME ReviewInv, ReviewInv', NEW s \in Sessions, DoneOnce(s),
         RefreshEnds(s) \/ TriageEnds(s) \/ RerunEnds(s) \/ FixEnds(s) \/ Crash(s)
  PROVE  DoneOnce(s)'
<1>1. CASE RefreshEnds(s) \/ TriageEnds(s) \/ RerunEnds(s) \/ FixEnds(s)
  <2>1. /\ pc[s] \in {"refresh", "triage", "rerun", "fix"} /\ End(s)
        /\ UNCHANGED <<version, open, discussions, replied, reopened, attempts, file, crashes>>
    BY <1>1 DEF RefreshEnds, TriageEnds, RerunEnds, FixEnds, constant, github, ghosts
  <2>2. file' = mem[s]
    BY <2>1 DEF DoneOnce, RecordIsRead
  <2>3. QED
    BY <2>1, <2>2, EndOnce
<1>2. CASE Crash(s)
  <2>1. /\ pc[s] # "idle" /\ End(s) /\ crashes' = crashes + 1
        /\ UNCHANGED <<version, open, discussions, replied, reopened, attempts, file>>
    BY <1>2 DEF Crash, constant, github
  <2>2. crashes' # 0
    <3>1. crashes \in Nat
      BY OnceTypes
    <3>2. QED
      BY <2>1, <3>1
  <2>3. QED
    BY <2>1, <2>2, EndOnce
<1>3. QED
  BY <1>1, <1>2

\* A snapshot shows no discussion that was handled, and no thread that is resolved.
LEMMA FetchOnce ==
  ASSUME ReviewInv, ReviewInv', NEW s \in Sessions, DoneOnce(s), FetchPRState(s) PROVE DoneOnce(s)'
<1> DEFINE items == [t \in Threads |-> IF open[t] /\ ~Suppressed(mem[s], t) THEN version[t] ELSE NoVersion]
<1>1. /\ TypeOK /\ pc[s] = "refresh" /\ pc'[s] = "triage" /\ snap'[s] = [head |-> head, items |-> items]
      /\ UNCHANGED <<file, discussions, version, open, mem, at, replied, reopened, attempts, crashes>>
  BY DEF ReviewInv, TypeOK, FetchPRState, Go, constant, github, ghosts
<1>2. \A t \in Threads : snap'[s].items[t] = IF open[t] /\ ~Suppressed(mem[s], t) THEN version[t] ELSE NoVersion
  BY <1>1
<1> HIDE DEF items
<1>3. RecordOf(s)' = mem[s] /\ RecordOf(s) = mem[s]
  BY <1>1 DEF RecordOf
<1>4. VersionsAreSeen(s)'
  <2>1. RecordFits(file)' /\ RecordFits(mem[s])'
    BY <1>1 DEF DoneOnce, VersionsAreSeen, RecordFits
  <2>2. \A t \in Threads : snap'[s].items[t] <= version[t]
    <3>1. \A t \in Threads : version[t] \in Nat
      BY OnceTypes
    <3>2. NoVersion = -1
      BY ReviewSets
    <3>3. QED
      BY <1>2, <3>1, <3>2
  <2>3. QED
    BY <1>1, <2>1, <2>2 DEF DoneOnce, VersionsAreSeen
<1>5. DiscussionsAreNew(s)'
  <2>1. ASSUME NEW t \in discussions, Ahead(s, t)' PROVE mem[s].handled[t].version < snap'[s].items[t]
    <3>1. t \in Threads /\ snap'[s].items[t] # NoVersion
      BY <2>1, OnceTypes DEF Ahead
    <3>2. ~Suppressed(mem[s], t) /\ snap'[s].items[t] = version[t]
      BY <1>2, <3>1
    <3>3. ~HasPending(mem[s], t)
      BY <2>1 DEF DoneOnce, VersionsAreSeen, RecordFits, HasPending
    <3>4. mem[s].handled[t].version # version[t] /\ mem[s].handled[t].version <= version[t]
      BY <2>1, <3>1, <3>2, <3>3 DEF Suppressed, DoneOnce, VersionsAreSeen, RecordFits
    <3>5. mem[s].handled[t].version \in Int /\ version[t] \in Nat
      BY <3>1, OnceTypes
    <3>6. QED
      BY <3>2, <3>4, <3>5
  <2>2. QED
    BY <1>1, <1>3, <2>1 DEF DiscussionsAreNew
<1>6. RepliesAreKept(s)'
  <2>1. ASSUME NEW t \in Threads, NEW v \in Versions, Known(s, t, v) PROVE Known(s, t, v)'
    <3>1. Past(s, t, v) => Past(s, t, v)'
      <4>1. ASSUME Past(s, t, v), snap'[s].items[t] = v, v # NoVersion PROVE FALSE
        <5>1. open[t] /\ version[t] = v
          BY <1>2, <4>1
        <5>2. version[t] \in Nat
          BY OnceTypes
        <5>3. QED
          BY <4>1, <5>1, <5>2 DEF Past
      <4>2. QED
        BY <1>1, <4>1 DEF Past, Ahead
    <3>2. QED
      BY <1>1, <1>3, <2>1, <3>1 DEF Known
  <2>2. QED
    BY <1>1, <2>1 DEF DoneOnce, RepliesAreKept
<1>7. RerunsAreKept(s)'
  BY <1>1, RerunsMove
<1>8. QED
  BY <1>1, <1>4, <1>5, <1>6, <1>7 DEF DoneOnce, RecordIsRead

LEMMA UpdateOnce ==
  ASSUME ReviewInv, ReviewInv', NEW s \in Sessions, DoneOnce(s), UpdateBase(s) \/ SaveReplies(s) PROVE DoneOnce(s)'
<1>1. pc[s] \in {"triage", "save"} /\ UNCHANGED <<version, open, discussions, replied, reopened, attempts, crashes>>
  BY DEF UpdateBase, SaveReplies, constant, github, ghosts
<1>2. file' = mem[s]
  <2>1. Saved(s) = mem[s]
    BY SavedRecords
  <2>2. pc[s] = "triage" => mem[s] = file
    BY DEF DoneOnce, RecordIsRead
  <2>3. QED
    BY <2>1, <2>2 DEF UpdateBase, SaveReplies
<1>3. CASE End(s)
  BY <1>1, <1>2, <1>3, EndOnce
<1>4. CASE NextCycle(s) /\ (cycle[s] + 1 # MaxCycles => mem' = mem)
  BY <1>1, <1>2, <1>4, CycleOnce
<1>5. QED
  BY <1>3, <1>4 DEF UpdateBase, SaveReplies

\* A rerun is asked for only on a head that the record does not have.
LEMMA TriageOnce ==
  ASSUME ReviewInv, ReviewInv', NEW s \in Sessions, DoneOnce(s), WatchChecks(s) \/ Triage(s) \/ Fix(s) PROVE DoneOnce(s)'
<1>1. /\ UNCHANGED <<version, open, discussions, replied, reopened, attempts, crashes, file, mem, at>> /\ TypeOK
      /\ pc[s] \in {"triage", "fix"}
  BY DEF WatchChecks, Triage, Fix, constant, github, ghosts, ReviewInv
<1>2. CASE WatchChecks(s)
  <2>1. snap'[s] = NoSnap /\ pc'[s] = "refresh"
    BY <1>1, <1>2 DEF WatchChecks, TypeOK, Go
  <2>2. QED
    BY <1>1, <2>1, StageOnce
<1>3. CASE Triage(s)
  <2>1. snap' = snap
    BY <1>3 DEF Triage
  <2>2. pc'[s] \in {"rerun", "fix"} /\ (pc'[s] = "rerun" => snap[s].head \notin mem[s].reruns)
    <3>1. PICK flake \in BOOLEAN : Go(s, IF flake /\ snap[s].head \notin mem[s].reruns THEN "rerun" ELSE "fix")
      BY <1>3 DEF Triage
    <3>2. QED
      BY <1>1, <3>1 DEF Go, TypeOK
  <2>3. at[s] \in Nat /\ at'[s] >= at[s] /\ pc[s] = "triage"
    BY <1>1, <1>3, OnceTypes DEF Triage
  <2>4. QED
    BY <1>1, <2>1, <2>2, <2>3, StageOnce
<1>4. CASE Fix(s)
  <2>1. snap' = snap /\ pc'[s] = "reply"
    BY <1>1, <1>4 DEF Fix, Go, TypeOK
  <2>2. at[s] \in Nat /\ at'[s] >= at[s] /\ pc[s] = "fix"
    BY <1>1, <1>4, OnceTypes DEF Fix
  <2>3. QED
    BY <1>1, <2>1, <2>2, StageOnce
<1>5. QED
  BY <1>2, <1>3, <1>4

\* The rerun of a head that was not rerun.
LEMMA RerunOnce ==
  ASSUME ReviewInv, ReviewInv', NEW s \in Sessions, DoneOnce(s), RerunFailedRun(s) PROVE DoneOnce(s)'
<1>1. /\ UNCHANGED <<version, open, discussions, replied, reopened, crashes, file, mem, at, snap>> /\ TypeOK
      /\ pc[s] = "rerun" /\ pc'[s] = "record" /\ attempts' = [attempts EXCEPT ![snap[s].head] = @ + 1]
  BY DEF RerunFailedRun, constant, github, ghosts, ReviewInv, TypeOK, Go
<1>2. at[s] \in Nat /\ RecordOf(s)' = RecordOf(s)
  BY <1>1, OnceTypes DEF RecordOf
<1>3. at'[s] >= at[s]
  BY <1>1, <1>2
<1>4. VersionsAreSeen(s)' /\ DiscussionsAreNew(s)' /\ RepliesAreKept(s)'
  BY <1>1, <1>2, <1>3, RepliesMove
<1>5. RerunsAreKept(s)'
  <2>1. ASSUME crashes = 0, NEW h \in Heads
        PROVE  /\ attempts'[h] <= 1
               /\ attempts'[h] = 1 => h \in file.reruns \/ h = snap[s].head
    <3>1. attempts[h] \in Nat /\ attempts[h] <= 1 /\ (attempts[h] = 1 => h \in file.reruns)
      BY <1>1, <2>1, OnceTypes DEF DoneOnce, RerunsAreKept
    <3>2. CASE h = snap[s].head
      <4>1. h \notin file.reruns /\ attempts'[h] = attempts[h] + 1
        BY <1>1, <2>1, <3>2 DEF DoneOnce, RerunsAreKept, RecordIsRead, TypeOK
      <4>2. QED
        BY <3>1, <3>2, <4>1
    <3>3. CASE h # snap[s].head
      BY <1>1, <3>1, <3>3 DEF TypeOK
    <3>4. QED
      BY <3>2, <3>3
  <2>2. QED
    BY <1>1, <2>1 DEF RerunsAreKept
<1>6. QED
  BY <1>1, <1>4, <1>5 DEF DoneOnce, RecordIsRead

\* The rerun is on disk before anything else is done.
LEMMA RecordOnce ==
  ASSUME ReviewInv, ReviewInv', NEW s \in Sessions, DoneOnce(s), RecordRetry(s) PROVE DoneOnce(s)'
<1>1. /\ UNCHANGED <<version, open, discussions, replied, reopened, attempts, crashes>> /\ TypeOK
      /\ pc[s] = "record" /\ file' = Retried(s)
  BY DEF RecordRetry, constant, github, ghosts, ReviewInv
<1>2. /\ Retried(s).pending = mem[s].pending /\ Retried(s).handled = mem[s].handled
      /\ Retried(s).reruns = file.reruns \cup {snap[s].head}
  BY <1>1, RetriedRecords DEF DoneOnce, RecordIsRead
<1>3. /\ \/ pc'[s] = "idle" /\ mem'[s] = EmptyRecord
         \/ pc'[s] \in {"fix", "refresh"} /\ mem'[s] = Retried(s)
      /\ snap'[s] = NoSnap \/ (snap'[s] = snap[s] /\ pc'[s] = "fix" /\ at' = at)
  <2>1. CASE End(s)
    BY <1>1, <2>1, EndTypes
  <2>2. CASE /\ NextCycle(s) /\ ~End(s)
             /\ mem' = [mem EXCEPT ![s] = IF cycle[s] + 1 = MaxCycles THEN EmptyRecord ELSE Retried(s)]
    <3>1. cycle[s] + 1 # MaxCycles
      <4>1. cycle[s] + 1 < MaxCycles /\ cycle[s] \in 0..(MaxCycles - 1) /\ MaxCycles \in Nat
        BY <1>1, <2>2, ReviewSets DEF NextCycle, TypeOK
      <4>2. QED
        BY <4>1
    <3>2. QED
      BY <1>1, <2>2, <3>1, CycleTypes DEF TypeOK
  <2>3. CASE Go(s, "fix") /\ mem' = [mem EXCEPT ![s] = Retried(s)] /\ UNCHANGED <<at, snap>>
    BY <1>1, <2>3 DEF Go, TypeOK
  <2>4. QED
    BY <2>1, <2>2, <2>3 DEF RecordRetry
<1>4. RecordOf(s)'.pending = RecordOf(s).pending /\ RecordOf(s)'.handled = RecordOf(s).handled
  BY <1>1, <1>2, <1>3 DEF RecordOf
<1>5. VersionsAreSeen(s)' /\ DiscussionsAreNew(s)' /\ RepliesAreKept(s)'
  <2>1. at' = at => at'[s] >= at[s]
    BY OnceTypes
  <2>2. QED
    BY <1>1, <1>3, <1>4, <2>1, RepliesMove
<1>6. RerunsAreKept(s)'
  BY <1>1, <1>2, <1>3 DEF DoneOnce, RerunsAreKept
<1>7. QED
  BY <1>1, <1>3, <1>5, <1>6 DEF DoneOnce, RecordIsRead

\* A run that moves on in the replies without an answer, or is told to stop.
LEMMA TurnOnce ==
  ASSUME ReviewInv, ReviewInv', NEW s \in Sessions, DoneOnce(s), UNCHANGED <<open, version>>,
         \/ RepliesAborted(s) \/ ReplyFails(s) \/ SkipItem(s) \/ ReuseReply(s) \/ LastItem(s) \/ Abort(s)
         \/ Inspect(s) /\ (StopReplies(s) \/ UNCHANGED local)
         \/ InspectOrResolveFails(s)
         \/ IgnoreItem(s) /\ StopReplies(s)
  PROVE  DoneOnce(s)'
<1>1. /\ UNCHANGED <<discussions, replied, reopened, attempts, crashes, file, snap>> /\ TypeOK /\ pc[s] # "idle"
      /\ at[s] \in Nat
  BY OnceTypes
  DEF RepliesAborted, ReplyFails, SkipItem, ReuseReply, LastItem, Abort, Inspect, InspectOrResolveFails, IgnoreItem,
      Answers, AtItem, NextItem, StopReplies, constant, github, local, ghosts, ReviewInv
<1>2. /\ \/ pc'[s] \in {"reply", "inspect", "resolve", "save"} /\ pc[s] \in {"reply", "inspect", "resolve"}
         \/ pc' = pc
      /\ mem'[s] = mem[s] /\ at'[s] \in {at[s], at[s] + 1}
  BY <1>1
  DEF RepliesAborted, ReplyFails, SkipItem, ReuseReply, LastItem, Abort, Inspect, InspectOrResolveFails, IgnoreItem,
      Answers, AtItem, NextItem, StopReplies, local, TypeOK, Go
<1>3. at'[s] >= at[s]
  BY <1>1, <1>2
<1>4. /\ pc[s] = "rerun" /\ crashes = 0 => snap[s].head \notin mem[s].reruns
      /\ pc[s] = "refresh" => snap[s] = NoSnap
  BY DEF DoneOnce, RerunsAreKept, VersionsAreSeen
<1>5. RecordOf(s)' = RecordOf(s)
  BY <1>1, <1>2 DEF RecordOf
<1>6. VersionsAreSeen(s)' /\ DiscussionsAreNew(s)' /\ RepliesAreKept(s)'
  BY <1>1, <1>2, <1>3, <1>4, <1>5, RepliesMove
<1>7. RerunsAreKept(s)'
  BY <1>1, <1>2 DEF DoneOnce, RerunsAreKept
<1>8. QED
  BY <1>1, <1>2, <1>6, <1>7 DEF DoneOnce, RecordIsRead

\* The item at hand, with what the snapshot and the record say of it.
LEMMA ItemAtHand ==
  ASSUME ReviewInv, NEW s \in Sessions, DoneOnce(s), at[s] \in Threads, Decision(s) # "none", pc[s] \in {"reply", "inspect", "resolve"}
  PROVE  /\ Triaged(s) \in Versions /\ Triaged(s) \in Nat /\ Triaged(s) <= version[at[s]] /\ mem[s] \in Records
         /\ Ahead(s, at[s]) /\ RecordOf(s) = mem[s] /\ snap[s].items[at[s]] = Triaged(s)
         /\ at[s] \in discussions => mem[s].handled[at[s]].version < Triaged(s)
<1>1. Triaged(s) \in Versions /\ Triaged(s) \in Nat /\ mem[s] \in Records /\ RecordOf(s) = mem[s]
  BY DecidedItems, ReviewSets DEF RecordOf
<1>2. snap[s].items[at[s]] = Triaged(s) /\ Triaged(s) # NoVersion
  BY <1>1, ReviewSets DEF Triaged
<1>3. at[s] \in Nat
  BY OnceTypes
<1>4. Ahead(s, at[s])
  BY <1>2, <1>3 DEF Ahead
<1>5. QED
  BY <1>1, <1>2, <1>4 DEF DoneOnce, VersionsAreSeen, DiscussionsAreNew

\* An item that is handled for good: a discussion that is answered, or an item ignored.
LEMMA HandleOnce ==
  ASSUME ReviewInv, ReviewInv', NEW s \in Sessions, DoneOnce(s), at[s] \in Threads, Decision(s) # "none", pc[s] = "reply",
         NEW ignored \in BOOLEAN, NextItem(s, Handled(mem[s], at[s], Triaged(s), ignored)),
         UNCHANGED <<file, discussions, version, open, reopened, attempts, crashes>>,
         \/ replied' = replied
         \/ at[s] \in discussions /\ replied' = [replied EXCEPT ![at[s]][Triaged(s)] = @ + 1]
  PROVE  DoneOnce(s)'
<1> DEFINE record == Handled(mem[s], at[s], Triaged(s), ignored)
<1>1. /\ Triaged(s) \in Versions /\ Triaged(s) \in Nat /\ Triaged(s) <= version[at[s]] /\ mem[s] \in Records
      /\ Ahead(s, at[s]) /\ RecordOf(s) = mem[s] /\ snap[s].items[at[s]] = Triaged(s)
      /\ at[s] \in discussions => mem[s].handled[at[s]].version < Triaged(s)
  BY ItemAtHand
<1>2. /\ record \in Records /\ record.pending = mem[s].pending /\ record.reruns = mem[s].reruns
      /\ record.handled[at[s]].version = Triaged(s)
      /\ \A u \in Threads : u # at[s] => record.handled[u] = mem[s].handled[u]
  <2>1. LET new == Handled(mem[s], at[s], Triaged(s), ignored)
        IN /\ new \in Records /\ new.pending = mem[s].pending /\ new.reruns = mem[s].reruns
           /\ new.handled[at[s]].version = Triaged(s)
           /\ \A u \in Threads : u # at[s] => new.handled[u] = mem[s].handled[u]
    BY <1>1, HandledRecords
  <2>2. QED
    BY <2>1
<1> HIDE DEF record
<1>3. pc'[s] = "reply" /\ mem'[s] = record /\ at'[s] = at[s] + 1 /\ snap' = snap
  <2>1. NextItem(s, record) /\ TypeOK
    BY DEF record, ReviewInv
  <2>2. QED
    BY <1>2, <2>1, ItemTypes
<1>4. RecordOf(s)' = record
  BY <1>3 DEF RecordOf
<1>5. \A t \in Threads : Ahead(s, t)' => Ahead(s, t) /\ t # at[s]
  <2>1. at[s] \in Nat /\ \A t \in Threads : t \in Nat
    BY OnceTypes
  <2>2. QED
    BY <1>3, <2>1 DEF Ahead
<1>6. VersionsAreSeen(s)'
  <2>1. RecordFits(file)'
    BY DEF DoneOnce, VersionsAreSeen, RecordFits
  <2>2. RecordFits(mem[s])'
    BY <1>1, <1>2, <1>3 DEF DoneOnce, VersionsAreSeen, RecordFits
  <2>3. QED
    BY <1>3, <2>1, <2>2 DEF DoneOnce, VersionsAreSeen
<1>7. DiscussionsAreNew(s)'
  <2>1. discussions \subseteq Threads
    BY OnceTypes
  <2>2. QED
    BY <1>1, <1>2, <1>3, <1>4, <1>5, <2>1 DEF DoneOnce, DiscussionsAreNew
<1>8. RepliesAreKept(s)'
  <2>1. ASSUME crashes = 0, NEW t \in Threads, NEW v \in Versions
        PROVE  replied'[t][v] <= 1 + reopened[t][v] /\ (replied'[t][v] = 1 + reopened[t][v] => Known(s, t, v)')
    <3>1. /\ replied[t][v] \in Nat /\ reopened[t][v] \in Nat /\ v \in Nat /\ mem[s].handled[t].version \in Int
          /\ replied[t][v] <= 1 + reopened[t][v] /\ (replied[t][v] = 1 + reopened[t][v] => Known(s, t, v))
      BY <2>1, OnceTypes DEF DoneOnce, RepliesAreKept
    <3>2. Known(s, t, v) => Known(s, t, v)'
      <4>1. CASE t \in discussions
        <5>1. record.handled[t].version >= mem[s].handled[t].version
          <6>1. CASE t = at[s]
            BY <1>1, <1>2, <3>1, <4>1, <6>1
          <6>2. CASE t # at[s]
            BY <1>2, <3>1, <6>2
          <6>3. QED
            BY <6>1, <6>2
        <5>2. record.handled[t].version \in Int
          BY <1>1, <1>2, <3>1
        <5>3. QED
          BY <1>1, <1>4, <3>1, <4>1, <5>1, <5>2 DEF Known
      <4>2. CASE t \notin discussions
        BY <1>1, <1>2, <1>3, <1>4, <1>5, <4>2 DEF Known, Past
      <4>3. QED
        BY <4>1, <4>2
    <3>3. CASE replied'[t][v] = replied[t][v]
      BY <3>1, <3>2, <3>3
    <3>4. CASE t = at[s] /\ v = Triaged(s) /\ at[s] \in discussions /\ replied' = [replied EXCEPT ![at[s]][Triaged(s)] = @ + 1]
      <4>1. ~Known(s, t, v)
        BY <1>1, <3>1, <3>4 DEF Known
      <4>2. replied'[t][v] = replied[t][v] + 1
        BY <3>4 DEF ReviewInv, TypeOK
      <4>3. Known(s, t, v)'
        BY <1>1, <1>2, <1>4, <3>4 DEF Known
      <4>4. QED
        BY <3>1, <4>1, <4>2, <4>3
    <3>5. QED
      BY <3>3, <3>4 DEF ReviewInv, TypeOK
  <2>2. QED
    BY <2>1 DEF RepliesAreKept
<1>9. RerunsAreKept(s)'
  BY <1>3, RerunsMove
<1>10. QED
  BY <1>2, <1>3, <1>6, <1>7, <1>8, <1>9 DEF DoneOnce, RecordIsRead

\* A thread is answered when no reply to that version is pending, and then one is.
LEMMA PostOnce ==
  ASSUME ReviewInv, ReviewInv', NEW s \in Sessions, DoneOnce(s), at[s] \in Threads \ discussions, Decision(s) # "none",
         pc[s] = "reply", pc'[s] = "inspect", ~MatchingPending(s), NEW record \in Records, mem'[s] = record,
         record.pending = mem[s].pending \cup {<<at[s], Triaged(s)>>} /\ record.handled = mem[s].handled
           /\ record.reruns = mem[s].reruns,
         replied' = [replied EXCEPT ![at[s]][Triaged(s)] = @ + 1],
         UNCHANGED <<file, discussions, version, open, reopened, attempts, crashes, at, snap>>
  PROVE  DoneOnce(s)'
<1>1. /\ Triaged(s) \in Versions /\ Triaged(s) \in Nat /\ Triaged(s) <= version[at[s]] /\ mem[s] \in Records
      /\ Ahead(s, at[s]) /\ RecordOf(s) = mem[s] /\ snap[s].items[at[s]] = Triaged(s)
  BY ItemAtHand
<1>2. RecordOf(s)' = record
  BY DEF RecordOf
<1>3. \A t \in Threads : Ahead(s, t)' => Ahead(s, t)
  BY DEF Ahead
<1>4. VersionsAreSeen(s)'
  <2>1. RecordFits(file)'
    BY DEF DoneOnce, VersionsAreSeen, RecordFits
  <2>2. RecordFits(mem[s])'
    BY <1>1 DEF DoneOnce, VersionsAreSeen, RecordFits
  <2>3. QED
    BY <2>1, <2>2 DEF DoneOnce, VersionsAreSeen
<1>5. DiscussionsAreNew(s)'
  <2>1. discussions \subseteq Threads
    BY OnceTypes
  <2>2. QED
    BY <1>1, <1>2, <1>3, <2>1 DEF DoneOnce, DiscussionsAreNew
<1>6. RepliesAreKept(s)'
  <2>1. ASSUME crashes = 0, NEW t \in Threads, NEW v \in Versions
        PROVE  replied'[t][v] <= 1 + reopened[t][v] /\ (replied'[t][v] = 1 + reopened[t][v] => Known(s, t, v)')
    <3>1. /\ replied[t][v] \in Nat /\ reopened[t][v] \in Nat
          /\ replied[t][v] <= 1 + reopened[t][v] /\ (replied[t][v] = 1 + reopened[t][v] => Known(s, t, v))
      BY <2>1, OnceTypes DEF DoneOnce, RepliesAreKept
    <3>2. Known(s, t, v) => Known(s, t, v)'
      BY <1>1, <1>2, <1>3 DEF Known, Past
    <3>3. CASE replied'[t][v] = replied[t][v]
      BY <3>1, <3>2, <3>3
    <3>4. CASE t = at[s] /\ v = Triaged(s)
      <4>1. ~Known(s, t, v)
        BY <1>1, <3>4 DEF Known, Past, MatchingPending
      <4>2. replied'[t][v] = replied[t][v] + 1
        BY <3>4 DEF ReviewInv, TypeOK
      <4>3. Known(s, t, v)'
        BY <1>2, <3>4 DEF Known
      <4>4. QED
        BY <3>1, <4>1, <4>2, <4>3
    <3>5. QED
      BY <3>3, <3>4 DEF ReviewInv, TypeOK
  <2>2. QED
    BY <2>1 DEF RepliesAreKept
<1>7. RerunsAreKept(s)'
  BY RerunsMove
<1>8. QED
  BY <1>4, <1>5, <1>6, <1>7 DEF DoneOnce, RecordIsRead

\* A thread that is settled is resolved: its pending replies are of versions that are
\* past, and this run is done with it.
LEMMA SettleOnce ==
  ASSUME ReviewInv, ReviewInv', NEW s \in Sessions, DoneOnce(s), pc[s] \in {"inspect", "resolve"},
         NextItem(s, Settled(mem[s], at[s], Triaged(s))), ~open'[at[s]],
         \A t \in Threads : t # at[s] => open'[t] = open[t],
         UNCHANGED <<file, discussions, version, replied, reopened, attempts, crashes>>
  PROVE  DoneOnce(s)'
<1> DEFINE record == Settled(mem[s], at[s], Triaged(s))
<1>1. /\ at[s] \in Threads /\ at[s] \notin discussions /\ mem[s] \in Records /\ TypeOK /\ RecordOf(s) = mem[s]
      /\ <<at[s], Triaged(s)>> \in mem[s].pending
  BY DEF ReviewInv, RunFits, AnsweredIsPending, MatchingPending, TypeOK, RecordOf
<1>2. Triaged(s) \in Versions /\ Triaged(s) <= version[at[s]]
  <2>1. Triaged(s) \in Versions
    BY <1>1, RecordParts
  <2>2. QED
    BY <1>1, <2>1 DEF DoneOnce, VersionsAreSeen, RecordFits
<1>3. /\ record \in Records /\ record.pending = {p \in mem[s].pending : p[1] # at[s]} /\ record.reruns = mem[s].reruns
      /\ record.handled[at[s]].version = Triaged(s)
      /\ \A u \in Threads : u # at[s] => record.handled[u] = mem[s].handled[u]
  <2>1. LET new == Settled(mem[s], at[s], Triaged(s))
        IN /\ new \in Records /\ new.pending = {p \in mem[s].pending : p[1] # at[s]} /\ new.reruns = mem[s].reruns
           /\ new.handled[at[s]].version = Triaged(s)
           /\ \A u \in Threads : u # at[s] => new.handled[u] = mem[s].handled[u]
    BY <1>1, <1>2, SettledRecords
  <2>2. QED
    BY <2>1
<1> HIDE DEF record
<1>4. pc'[s] = "reply" /\ mem'[s] = record /\ at'[s] = at[s] + 1 /\ snap' = snap
  <2>1. NextItem(s, record) /\ TypeOK
    BY <1>1 DEF record
  <2>2. QED
    BY <1>1, <1>3, <2>1, ItemTypes
<1>5. RecordOf(s)' = record
  BY <1>4 DEF RecordOf
<1>6. \A t \in Threads : Ahead(s, t)' => Ahead(s, t) /\ t # at[s]
  <2>1. at[s] \in Nat /\ \A t \in Threads : t \in Nat
    BY OnceTypes
  <2>2. QED
    BY <1>4, <2>1 DEF Ahead
<1>7. VersionsAreSeen(s)'
  <2>1. RecordFits(file)'
    BY DEF DoneOnce, VersionsAreSeen, RecordFits
  <2>2. RecordFits(mem[s])'
    BY <1>2, <1>3, <1>4 DEF DoneOnce, VersionsAreSeen, RecordFits
  <2>3. QED
    BY <1>1, <1>4, <2>1, <2>2 DEF DoneOnce, VersionsAreSeen
<1>8. DiscussionsAreNew(s)'
  <2>1. discussions \subseteq Threads
    BY OnceTypes
  <2>2. QED
    BY <1>1, <1>3, <1>4, <1>5, <1>6, <2>1 DEF DoneOnce, DiscussionsAreNew
<1>9. RepliesAreKept(s)'
  <2>1. ASSUME NEW t \in Threads, NEW v \in Versions, Known(s, t, v) PROVE Known(s, t, v)'
    <3>1. CASE t \in discussions
      BY <1>1, <1>3, <1>5, <2>1, <3>1 DEF Known
    <3>2. CASE t \notin discussions /\ Past(s, t, v)
      <4>1. Past(s, t, v)'
        <5>1. version[t] > v \/ (version[t] = v /\ ~open'[t])
          BY <3>2 DEF Past
        <5>2. QED
          BY <1>4, <1>6, <3>2, <5>1 DEF Past
      <4>2. QED
        BY <3>2, <4>1 DEF Known
    <3>3. CASE t \notin discussions /\ <<t, v>> \in mem[s].pending /\ t # at[s]
      BY <1>3, <1>5, <3>3 DEF Known
    <3>4. CASE t \notin discussions /\ <<t, v>> \in mem[s].pending /\ t = at[s]
      <4>1. v <= version[t] /\ v \in Nat /\ version[t] \in Nat
        BY <3>4, OnceTypes DEF DoneOnce, VersionsAreSeen, RecordFits
      <4>2. Past(s, t, v)'
        BY <1>6, <3>4, <4>1 DEF Past
      <4>3. QED
        BY <3>4, <4>2 DEF Known
    <3>5. QED
      BY <1>1, <2>1, <3>1, <3>2, <3>3, <3>4 DEF Known
  <2>2. QED
    BY <2>1 DEF DoneOnce, RepliesAreKept
<1>10. RerunsAreKept(s)'
  BY <1>4, RerunsMove
<1>11. QED
  BY <1>3, <1>4, <1>7, <1>8, <1>9, <1>10 DEF DoneOnce, RecordIsRead

\* A thread that is resolved by a call that reports a failure, or by a reviewer; a new
\* comment; a thread that is opened again.
LEMMA ThreadsChange ==
  ASSUME ReviewInv, ReviewInv', NEW s \in Sessions, DoneOnce(s), UNCHANGED <<mem, at, snap, file, discussions, replied, attempts, crashes>>,
         pc' = pc \/ (pc[s] = "resolve" /\ pc'[s] = "save"),
         NEW t \in Threads \ discussions,
         \/ UNCHANGED <<version, reopened>> /\ open' = [open EXCEPT ![t] = FALSE]
         \/ /\ open' = [open EXCEPT ![t] = TRUE] /\ version' = version
            /\ reopened' = [reopened EXCEPT ![t][version[t]] = @ + 1]
  PROVE  DoneOnce(s)'
<1>1. TypeOK /\ discussions \subseteq Threads
  BY OnceTypes DEF ReviewInv
<1>2. /\ \A u \in Threads : u # t => open'[u] = open[u]
      /\ open'[t] \in BOOLEAN
  BY <1>1 DEF TypeOK
<1>3. RecordOf(s)' = RecordOf(s) /\ \A u \in Threads : Ahead(s, u)' => Ahead(s, u)
  BY DEF RecordOf, Ahead
<1>4. VersionsAreSeen(s)'
  <2>1. version' = version
    OBVIOUS
  <2>2. RecordFits(file)' /\ RecordFits(mem[s])'
    BY <2>1 DEF DoneOnce, VersionsAreSeen, RecordFits
  <2>3. \A u \in Threads : u \in discussions => open'[u]
    BY <1>2 DEF DoneOnce, VersionsAreSeen
  <2>4. pc'[s] \in {"idle", "refresh"} => snap[s] = NoSnap
    BY DEF DoneOnce, VersionsAreSeen
  <2>5. \A u \in Threads : snap[s].items[u] <= version[u]
    BY DEF DoneOnce, VersionsAreSeen
  <2>6. QED
    BY <2>1, <2>2, <2>3, <2>4, <2>5 DEF VersionsAreSeen
<1>5. DiscussionsAreNew(s)'
  BY <1>1, <1>3 DEF DoneOnce, DiscussionsAreNew
<1>6. RepliesAreKept(s)'
  <2>1. ASSUME NEW u \in Threads, NEW v \in Versions, Known(s, u, v), ~Known(s, u, v)'
        PROVE  u = t /\ v = version[t] /\ reopened' = [reopened EXCEPT ![t][version[t]] = @ + 1]
    <3>1. u \notin discussions /\ Past(s, u, v) /\ ~Past(s, u, v)'
      BY <1>3, <2>1 DEF Known
    <3>2. version' = version /\ snap' = snap
      OBVIOUS
    <3>3. version[u] = v /\ ~open[u] /\ open'[u]
      BY <1>2, <1>3, <3>1, <3>2 DEF Past
    <3>4. u = t
      BY <1>2, <3>3
    <3>5. open' # [open EXCEPT ![t] = FALSE]
      BY <1>1, <3>3, <3>4 DEF TypeOK
    <3>6. QED
      BY <3>3, <3>4, <3>5
  <2>2. ASSUME NEW u \in Threads, NEW v \in Versions PROVE reopened'[u][v] >= reopened[u][v]
    <3>1. reopened \in [Threads -> [Versions -> Nat]] /\ reopened[u][v] \in Nat /\ version[t] \in Versions
      BY <1>1 DEF TypeOK
    <3>2. CASE reopened' = reopened
      BY <3>1, <3>2
    <3>3. CASE reopened' = [reopened EXCEPT ![t][version[t]] = @ + 1]
      <4>1. reopened'[u][v] \in {reopened[u][v], reopened[u][v] + 1}
        BY <3>1, <3>3
      <4>2. QED
        BY <3>1, <4>1
    <3>4. QED
      BY <3>2, <3>3
  <2>3. ASSUME crashes = 0, NEW u \in Threads, NEW v \in Versions
        PROVE  replied[u][v] <= 1 + reopened'[u][v] /\ (replied[u][v] = 1 + reopened'[u][v] => Known(s, u, v)')
    <3>1. /\ replied[u][v] \in Nat /\ reopened[u][v] \in Nat /\ reopened'[u][v] \in Nat /\ reopened'[u][v] >= reopened[u][v]
          /\ replied[u][v] <= 1 + reopened[u][v] /\ (replied[u][v] = 1 + reopened[u][v] => Known(s, u, v))
      <4>1. reopened'[u][v] \in Nat
        BY DEF ReviewInv, TypeOK
      <4>2. QED
        BY <2>2, <2>3, <4>1, OnceTypes DEF DoneOnce, RepliesAreKept
    <3>2. CASE Known(s, u, v)'
      BY <3>1, <3>2
    <3>3. CASE Known(s, u, v) /\ ~Known(s, u, v)'
      <4>1. reopened'[u][v] = reopened[u][v] + 1
        BY <1>1, <2>1, <3>3 DEF TypeOK
      <4>2. QED
        BY <3>1, <4>1
    <3>4. CASE ~Known(s, u, v)
      BY <3>1, <3>4
    <3>5. QED
      BY <3>2, <3>3, <3>4
  <2>4. QED
    BY <2>3 DEF RepliesAreKept
<1>7. RerunsAreKept(s)'
  BY DEF DoneOnce, RerunsAreKept
<1>8. QED
  BY <1>4, <1>5, <1>6, <1>7 DEF DoneOnce, RecordIsRead

LEMMA CommentOnce ==
  ASSUME ReviewInv, ReviewInv', NEW s \in Sessions, DoneOnce(s), NEW t \in Threads, Comment(t) PROVE DoneOnce(s)'
<1>1. /\ UNCHANGED <<file, discussions, open, pc, mem, at, snap, replied, reopened, attempts, crashes>>
      /\ version' = [version EXCEPT ![t] = @ + 1] /\ TypeOK
  BY DEF Comment, constant, local, ghosts, ReviewInv
<1>2. \A u \in Threads : version[u] \in Nat /\ version'[u] \in Nat /\ version'[u] >= version[u]
  <2>1. ASSUME NEW u \in Threads PROVE version[u] \in Nat /\ version'[u] \in {version[u], version[u] + 1}
    BY <1>1, OnceTypes DEF TypeOK
  <2>2. QED
    BY <2>1
<1>3. \A u \in Threads : /\ file.handled[u].version \in Int /\ mem[s].handled[u].version \in Int
                         /\ snap[s].items[u] \in Int
  BY OnceTypes
<1>4. ASSUME NEW record \in {file, mem[s]}
      PROVE  /\ \A p \in record.pending : p[1] \notin discussions' /\ p[2] <= version'[p[1]]
             /\ \A u \in Threads : record.handled[u].version <= version'[u]
  <2>1. record \in Records /\ RecordFits(record)
    BY OnceTypes DEF DoneOnce, VersionsAreSeen
  <2>2. ASSUME NEW p \in record.pending PROVE p[1] \notin discussions' /\ p[2] <= version'[p[1]]
    <3>1. p[1] \in Threads /\ p[2] \in Versions
      BY <2>1, <2>2, RecordParts
    <3>2. p[2] \in Nat
      BY <3>1, ReviewSets
    <3>3. p[2] <= version[p[1]] /\ p[1] \notin discussions
      BY <2>1, <2>2 DEF RecordFits
    <3>4. QED
      BY <1>1, <1>2, <3>1, <3>2, <3>3
  <2>3. ASSUME NEW u \in Threads PROVE record.handled[u].version <= version'[u]
    <3>1. record.handled[u].version \in Int /\ record.handled[u].version <= version[u]
      BY <1>3, <2>1 DEF RecordFits
    <3>2. QED
      BY <1>2, <3>1
  <2>4. QED
    BY <2>2, <2>3
<1>5. VersionsAreSeen(s)'
  <2>1. \A u \in Threads : snap[s].items[u] <= version'[u]
    <3>1. ASSUME NEW u \in Threads PROVE snap[s].items[u] <= version'[u]
      <4>1. snap[s].items[u] <= version[u]
        BY DEF DoneOnce, VersionsAreSeen
      <4>2. QED
        BY <1>2, <1>3, <4>1
    <3>2. QED
      BY <3>1
  <2>2. RecordFits(file)' /\ RecordFits(mem[s])'
    BY <1>1, <1>4 DEF RecordFits
  <2>3. QED
    BY <1>1, <2>1, <2>2 DEF DoneOnce, VersionsAreSeen
<1>6. DiscussionsAreNew(s)'
  BY <1>1 DEF DoneOnce, DiscussionsAreNew, RecordOf, Ahead
<1>7. RepliesAreKept(s)'
  <2>1. ASSUME NEW u \in Threads, NEW v \in Versions, Known(s, u, v) PROVE Known(s, u, v)'
    <3>1. Past(s, u, v) => Past(s, u, v)'
      <4>1. version[u] \in Nat /\ v \in Nat /\ version'[u] \in Nat /\ version'[u] >= version[u]
        BY <1>2, OnceTypes
      <4>2. version[u] > v \/ (version[u] = v /\ ~open[u]) => version'[u] > v \/ (version'[u] = v /\ ~open[u])
        BY <4>1
      <4>3. QED
        BY <1>1, <4>2 DEF Past, Ahead
    <3>2. QED
      BY <1>1, <2>1, <3>1 DEF Known, RecordOf
  <2>2. QED
    BY <1>1, <2>1 DEF DoneOnce, RepliesAreKept
<1>8. RerunsAreKept(s)'
  BY <1>1 DEF DoneOnce, RerunsAreKept
<1>9. QED
  BY <1>1, <1>5, <1>6, <1>7, <1>8 DEF DoneOnce, RecordIsRead

\* Nothing was done when the runs begin.
LEMMA OnceInitHolds == ASSUME Init, NEW s \in Sessions PROVE DoneOnce(s)
<1>1. ReviewInv /\ pc[s] = "idle" /\ mem[s] = EmptyRecord /\ snap[s] = NoSnap /\ file = EmptyRecord
  BY ReviewInitHolds DEF Init
<1>2. \A t \in Threads : version[t] = 0 /\ open[t] /\ NoSnap.items[t] <= 0
  BY ReviewTypes, ReviewSets DEF Init
<1>3. VersionsAreSeen(s)
  BY <1>1, <1>2, EmptyFits DEF VersionsAreSeen
<1>4. DiscussionsAreNew(s)
  <2>1. discussions \subseteq Threads
    BY DEF Init
  <2>2. QED
    BY <1>1, <2>1, ReviewTypes DEF DiscussionsAreNew, Ahead
<1>5. RepliesAreKept(s) /\ RerunsAreKept(s)
  BY <1>1 DEF Init, RepliesAreKept, RerunsAreKept
<1>6. QED
  BY <1>1, <1>3, <1>4, <1>5 DEF DoneOnce, RecordIsRead

\* The replies and the reading of the thread that is answered.
LEMMA ReplyOnce ==
  ASSUME ReviewInv, ReviewInv', NEW s \in Sessions, DoneOnce(s),
         \/ RepliesAborted(s) \/ SkipItem(s) \/ IgnoreItem(s) \/ PostReply(s) \/ ReuseReply(s) \/ ReplyFails(s)
         \/ Inspect(s) \/ ResolveThread(s) \/ InspectOrResolveFails(s) \/ LastItem(s) \/ Abort(s)
  PROVE  DoneOnce(s)'
<1>1. CASE RepliesAborted(s) \/ SkipItem(s) \/ ReuseReply(s) \/ ReplyFails(s) \/ LastItem(s) \/ Abort(s)
  <2>1. UNCHANGED <<open, version>>
    BY <1>1 DEF RepliesAborted, SkipItem, ReuseReply, ReplyFails, LastItem, Abort, github
  <2>2. QED
    BY <1>1, <2>1, TurnOnce
<1>2. CASE IgnoreItem(s)
  <2>1. /\ at[s] \in Threads /\ pc[s] = "reply" /\ Decision(s) = "ignore"
        /\ UNCHANGED <<file, discussions, version, open, replied, reopened, attempts, crashes>>
    BY <1>2 DEF IgnoreItem, AtItem, github, constant, ghosts
  <2>2. CASE StopReplies(s)
    BY <1>2, <2>1, <2>2, TurnOnce
  <2>3. CASE NextItem(s, Handled(mem[s], at[s], Triaged(s), TRUE))
    BY <2>1, <2>3, HandleOnce
  <2>4. QED
    BY <1>2, <2>2, <2>3 DEF IgnoreItem
<1>3. CASE PostReply(s)
  <2>1. /\ at[s] \in Threads /\ pc[s] = "reply" /\ Decision(s) # "none"
        /\ replied' = [replied EXCEPT ![at[s]][Triaged(s)] = @ + 1]
        /\ UNCHANGED <<file, discussions, version, open, reopened, attempts, crashes>>
    BY <1>3 DEF PostReply, Answers, AtItem, github, constant
  <2>2. CASE at[s] \in discussions /\ NextItem(s, Handled(mem[s], at[s], Triaged(s), FALSE))
    BY <2>1, <2>2, HandleOnce
  <2>3. CASE /\ at[s] \notin discussions /\ ~MatchingPending(s) /\ Go(s, "inspect")
             /\ mem' = [mem EXCEPT ![s].pending = @ \cup {<<at[s], Triaged(s)>>}] /\ UNCHANGED <<at, snap>>
    <3> DEFINE record == [mem[s] EXCEPT !.pending = @ \cup {<<at[s], Triaged(s)>>}]
    <3>1. TypeOK /\ mem \in [Sessions -> Records] /\ mem[s] \in Records /\ Triaged(s) \in Versions
      BY <2>1, ItemAtHand DEF ReviewInv, TypeOK
    <3>2. /\ record \in Records /\ record.pending = mem[s].pending \cup {<<at[s], Triaged(s)>>}
          /\ record.reruns = mem[s].reruns /\ record.handled = mem[s].handled
      <4>1. LET new == [mem[s] EXCEPT !.pending = @ \cup {<<at[s], Triaged(s)>>}]
            IN /\ new \in Records /\ new.pending = mem[s].pending \cup {<<at[s], Triaged(s)>>}
               /\ new.reruns = mem[s].reruns /\ new.handled = mem[s].handled
        <5>1. at[s] \in Threads
          BY <2>1
        <5>2. QED
          BY <3>1, <5>1, PendingRecords
      <4>2. QED
        BY <4>1
    <3>3. mem'[s] = record
      <4>1. mem' = [mem EXCEPT ![s].pending = @ \cup {<<at[s], Triaged(s)>>}]
        BY <2>3
      <4>2. QED
        BY <3>1, <4>1 DEF Records
    <3> HIDE DEF record
    <3>4. pc'[s] = "inspect"
      BY <2>3, <3>1 DEF Go, TypeOK
    <3>5. QED
      BY <2>1, <2>3, <3>2, <3>3, <3>4, PostOnce
  <2>4. QED
    BY <1>3, <2>2, <2>3 DEF PostReply
<1>4. CASE Inspect(s)
  <2>1. pc[s] = "inspect" /\ UNCHANGED <<file, discussions, version, open, replied, reopened, attempts, crashes>>
    BY <1>4 DEF Inspect, github, constant, ghosts
  <2>2. CASE ~open[at[s]] /\ NextItem(s, Settled(mem[s], at[s], Triaged(s)))
    BY <2>1, <2>2, SettleOnce
  <2>3. CASE StopReplies(s) \/ UNCHANGED local
    BY <1>4, <2>1, <2>3, TurnOnce
  <2>4. QED
    BY <1>4, <2>2, <2>3 DEF Inspect
<1>5. CASE ResolveThread(s)
  <2>1. /\ pc[s] = "resolve" /\ NextItem(s, Settled(mem[s], at[s], Triaged(s))) /\ open' = [open EXCEPT ![at[s]] = FALSE]
        /\ UNCHANGED <<file, discussions, version, replied, reopened, attempts, crashes>>
    BY <1>5 DEF ResolveThread, constant, ghosts
  <2>2. at[s] \in Threads /\ open \in [Threads -> BOOLEAN]
    BY <2>1 DEF ReviewInv, RunFits, AnsweredIsPending, TypeOK
  <2>3. QED
    BY <2>1, <2>2, SettleOnce
<1>6. CASE InspectOrResolveFails(s)
  <2>1. /\ UNCHANGED <<file, mem, at, snap, discussions, version, replied, reopened, attempts, crashes>>
        /\ Go(s, "save") /\ TypeOK
    BY <1>6 DEF InspectOrResolveFails, StopReplies, constant, ghosts, ReviewInv
  <2>2. CASE UNCHANGED open
    BY <1>6, <2>1, <2>2, TurnOnce
  <2>3. CASE pc[s] = "resolve" /\ open' = [open EXCEPT ![at[s]] = FALSE]
    <3>1. at[s] \in Threads \ discussions
      BY <2>3 DEF ReviewInv, RunFits, AnsweredIsPending
    <3>2. pc'[s] = "save"
      BY <2>1 DEF Go, TypeOK
    <3>3. QED
      BY <2>1, <2>3, <3>1, <3>2, ThreadsChange
  <2>4. QED
    BY <1>6, <2>2, <2>3 DEF InspectOrResolveFails
<1>7. QED
  BY <1>1, <1>2, <1>3, <1>4, <1>5, <1>6

\* Reviewers comment, resolve and open again.
LEMMA ReviewerOnce ==
  ASSUME ReviewInv, ReviewInv', NEW s \in Sessions, DoneOnce(s), NEW t \in Threads, ReviewerResolves(t) \/ ReviewerReopens(t)
  PROVE  DoneOnce(s)'
<1>1. UNCHANGED <<mem, at, snap, file, discussions, replied, attempts, crashes, pc>>
  BY DEF ReviewerResolves, ReviewerReopens, constant, local, ghosts
<1>2. t \notin discussions
  BY DEF ReviewerResolves, ReviewerReopens, DoneOnce, VersionsAreSeen
<1>3. \/ UNCHANGED <<version, reopened>> /\ open' = [open EXCEPT ![t] = FALSE]
      \/ /\ open' = [open EXCEPT ![t] = TRUE] /\ version' = version
         /\ reopened' = [reopened EXCEPT ![t][version[t]] = @ + 1]
  BY DEF ReviewerResolves, ReviewerReopens, ghosts
<1>4. QED
  BY <1>1, <1>2, <1>3, ThreadsChange

LEMMA OnceHolds ==
  ASSUME NEW s, Sessions = {s}, ReviewInv, ReviewInv', DoneOnce(s), [Next]_vars
  PROVE  DoneOnce(s)'
<1>1. CASE UNCHANGED vars
  BY <1>1
  DEF vars, constant, github, local, ghosts, DoneOnce, RecordIsRead, VersionsAreSeen, RecordFits, DiscussionsAreNew,
      RecordOf, Ahead, RepliesAreKept, Known, Past, RerunsAreKept
<1>2. CASE Session(s)
  <2>1. s \in Sessions
    OBVIOUS
  <2>2. QED
    BY <1>2, <2>1, LoadOnce, EndsOnce, FetchOnce, UpdateOnce, TriageOnce, RerunOnce, RecordOnce, ReplyOnce DEF Session
<1>3. ASSUME NEW t \in Threads, Comment(t) \/ ReviewerResolves(t) \/ ReviewerReopens(t) PROVE DoneOnce(s)'
  BY <1>3, CommentOnce, ReviewerOnce
<1>4. QED
  BY <1>1, <1>2, <1>3 DEF Next
-----------------------------------------------------------------------------
(* The record among what is kept.                                          *)

LEMMA ReviewSteps == KeptInit => Init
BY DEF KeptInit

LEMMA ReviewMoves == [KeptNext]_keptVars => [Next]_vars
BY DEF KeptNext, keptVars

\* What a run knows, and what it leaves alone, while reviewers and other sessions go on.
THEOREM ReviewInductive == KeptSpec => []ReviewInv
<1>1. KeptInit => ReviewInv
  BY ReviewSteps, ReviewInitHolds
<1>2. ReviewInv /\ [KeptNext]_keptVars => ReviewInv'
  BY ReviewMoves, ReviewHolds
<1>3. QED
  BY <1>1, <1>2, PTL DEF KeptSpec

\* The variables of the review handling keep their types.
THEOREM ReviewTypeCorrect == KeptSpec => []TypeOK
<1>1. ReviewInv => TypeOK
  BY DEF ReviewInv
<1>2. QED
  BY <1>1, ReviewInductive, PTL

\* A state file that cannot be parsed is neither overwritten nor acted against, by
\* any number of sessions.
THEOREM CorruptFilesAreLeftAlone == KeptSpec => []CorruptStateBlocksMutation
<1>1. ReviewInv => CorruptStateBlocksMutation
  BY DEF ReviewInv
<1>2. QED
  BY <1>1, ReviewInductive, PTL

\* A thread is resolved only after a reply to the version that was triaged, which the
\* record still has as pending; also when other sessions share the record.
THEOREM OnlyAnsweredIsResolved == KeptSpec => ResolvesOnlyAnswered
<1> DEFINE Resolving == \A t \in Threads, s \in Sessions :
       (open[t] /\ ~open'[t] /\ pc[s] = "resolve" /\ at[s] = t /\ pc'[s] # pc[s])
         => /\ replied[t][snap[s].items[t]] >= 1
            /\ <<t, snap[s].items[t]>> \in mem[s].pending
<1>1. ReviewInv => Resolving
  <2>1. ASSUME ReviewInv, NEW s \in Sessions, pc[s] = "resolve"
        PROVE  /\ replied[at[s]][snap[s].items[at[s]]] >= 1
               /\ <<at[s], snap[s].items[at[s]]>> \in mem[s].pending
    <3>1. <<at[s], snap[s].items[at[s]]>> \in mem[s].pending /\ PendingIsPosted(mem[s])
      BY <2>1 DEF ReviewInv, RunFits, AnsweredIsPending, MatchingPending, Triaged
    <3>2. QED
      BY <3>1 DEF PendingIsPosted
  <2>2. QED
    BY <2>1
<1>2. ReviewInv => [Resolving]_vars
  BY <1>1
<1>3. QED
  BY <1>2, ReviewInductive, PTL DEF ResolvesOnlyAnswered

\* A session that has the record of its pull request to itself answers an item once per
\* version and opening, and reruns a head once, through any failures, aborts and later
\* runs, as long as its process does not die.
THEOREM NothingTwice == ASSUME NEW s, Sessions = {s} PROVE KeptSpec => []NothingIsDoneTwice
<1>1. KeptInit => ReviewInv /\ DoneOnce(s)
  BY ReviewSteps, ReviewInitHolds, OnceInitHolds
<1>2. ReviewInv /\ DoneOnce(s) /\ [KeptNext]_keptVars => ReviewInv' /\ DoneOnce(s)'
  BY ReviewMoves, ReviewHolds, OnceHolds
<1>3. DoneOnce(s) => NothingIsDoneTwice
  BY DEF DoneOnce, RepliesAreKept, RerunsAreKept, NothingIsDoneTwice, RerunOncePerHead, ReplyOncePerOpening
<1>4. QED
  BY <1>1, <1>2, <1>3, PTL DEF KeptSpec
-----------------------------------------------------------------------------
(* The leases of subagents.                                                *)

\* What the next step may still do to a lease: the child runs, or is to run, unsettled.
Wanted(c) ==
  \/ child[c] = "prepared" /\ owner[c] \in alive
  \/ child[c] = "running" /\ report[c] = "none" /\ c \notin missed

\* A lease that was read says what the child is or was.
ReadRight(p) ==
  LET r == prune[p] IN
  /\ r.step \notin {"no", "scan"} => \A c \in r.todo : child[c] # "none"
  /\ r.step \in {"probe", "recheck", "unlink"} => r.of \in Leases!Children /\ child[r.of] # "none"
  /\ r.step \in {"probe", "recheck"} =>
       /\ r.read = "none" => ~Wanted(r.of)
       /\ r.read = "spawned" => child[r.of] \in {"running", "gone"}
  /\ r.step = "unlink" => ~Wanted(r.of)
  /\ r.step \in {"recheck", "unlink"} => r.excess # 0

\* A child that is to run, or runs unsettled, has a lease, which names its parent or, once it
\* runs, itself; so a pruning that found none, or one of a dead process, unlinks no session
\* that is wanted.
LeaseInv ==
  /\ Leases!LeaseTypeOK
  /\ \A c \in Leases!Children :
       /\ child[c] = "none" => c \notin leaseFiles /\ lease[c] = "none"
       /\ lease[c] = "spawned" => child[c] \in {"running", "gone"}
       /\ Wanted(c) => lease[c] = "spawned" \/ (lease[c] = "pending" /\ owner[c] \in alive)
  /\ \A p \in Parents : ReadRight(p)

Prunings == [step : Leases!Steps, active : SUBSET Leases!Children, todo : SUBSET Leases!Children,
             excess : 0..MaxChildren, of : 0..MaxChildren, read : Leases!Leased]

LEMMA LeaseTypes ==
  /\ Leases!LeaseTypeOK <=>
       /\ alive \subseteq Parents
       /\ child \in [Leases!Children -> {"none", "prepared", "running", "gone"}]
       /\ owner \in [Leases!Children -> Parents] /\ lease \in [Leases!Children -> Leases!Leased]
       /\ leaseFiles \subseteq Leases!Children /\ report \in [Leases!Children -> {"none", "persisted", "missing"}]
       /\ prune \in [Parents -> Prunings] /\ missed \subseteq Leases!Children /\ faults \in 0..MaxLeaseFaults
  /\ Leases!NoPrune \in Prunings
BY LeasesAssumption DEF Leases!LeaseTypeOK, Prunings, Leases!NoPrune, Leases!Steps, Leases!Leased

LEMMA LeaseInitHolds == ASSUME Leases!Init PROVE LeaseInv
<1>1. (CHOOSE p \in Parents : TRUE) \in Parents
  BY LeasesAssumption
<1>2. Leases!LeaseTypeOK
  BY <1>1, LeaseTypes, LeasesAssumption DEF Leases!Init, Leases!Leased
<1>3. \A p \in Parents : ReadRight(p)
  BY DEF Leases!Init, Leases!NoPrune, ReadRight
<1>4. QED
  BY <1>2, <1>3 DEF Leases!Init, LeaseInv, Wanted

\* A pruning that looks at the directory counts no more files than there are children.
LEMMA ExcessIsBounded == ASSUME LeaseInv PROVE Leases!Excess \in 0..MaxChildren
<1>1. IsFiniteSet(1..MaxChildren) /\ Cardinality(1..MaxChildren) = MaxChildren
  BY LeasesAssumption, FS_Interval
<1>2. leaseFiles \subseteq 1..MaxChildren
  BY DEF LeaseInv, Leases!LeaseTypeOK, Leases!Children
<1>3. Cardinality(leaseFiles) \in Nat /\ Cardinality(leaseFiles) <= MaxChildren
  BY <1>1, <1>2, FS_Subset, FS_CardinalityType
<1>4. Leases!Cardinality(leaseFiles) = Cardinality(leaseFiles)
  BY DEF Leases!Cardinality, Cardinality
<1>5. QED
  BY <1>3, <1>4, LeasesAssumption DEF Leases!Excess

\* Of a child that was started, nothing becomes wanted that was not.
LEMMA ReadingsStay ==
  ASSUME LeaseInv, NEW p \in Parents, prune'[p] = prune[p],
         \A c \in Leases!Children :
           child[c] # "none" => /\ child'[c] # "none"
                                /\ child[c] \in {"running", "gone"} => child'[c] \in {"running", "gone"}
                                /\ ~Wanted(c) => ~Wanted(c)'
  PROVE  ReadRight(p)'
<1>1. ReadRight(p) /\ prune[p].todo \subseteq Leases!Children
  BY LeaseTypes DEF LeaseInv, Prunings
<1> DEFINE r == prune[p]
<1>2. prune'[p] = r
  OBVIOUS
<1> HIDE DEF r
<1>3. QED
  BY <1>1, <1>2 DEF ReadRight, r

\* What a child and its run do to the lease.
LEMMA StartHolds ==
  ASSUME LeaseInv, NEW c \in Leases!Children, NEW p \in Parents, Leases!Prepare(p, c)
  PROVE  LeaseInv'
<1>1. /\ p \in alive /\ child[c] = "none" /\ child' = [child EXCEPT ![c] = "prepared"]
      /\ owner' = [owner EXCEPT ![c] = p] /\ lease' = [lease EXCEPT ![c] = "pending"]
      /\ UNCHANGED <<alive, leaseFiles, report, prune, missed, faults>>
  BY DEF Leases!Prepare
<1>2. Leases!LeaseTypeOK'
  BY <1>1 DEF LeaseInv, Leases!LeaseTypeOK, Leases!Leased
<1>3. ASSUME NEW d \in Leases!Children, d # c
      PROVE  child'[d] = child[d] /\ owner'[d] = owner[d] /\ lease'[d] = lease[d] /\ (Wanted(d)' <=> Wanted(d))
  BY <1>1, <1>3, LeaseTypes DEF LeaseInv, Wanted
<1>4. child'[c] = "prepared" /\ owner'[c] = p /\ lease'[c] = "pending"
  BY <1>1, LeaseTypes DEF LeaseInv
<1>5. ASSUME NEW q \in Parents PROVE ReadRight(q)'
  BY <1>1, <1>3, ReadingsStay
<1>6. ASSUME NEW d \in Leases!Children
      PROVE  /\ (child[d] = "none" => d \notin leaseFiles /\ lease[d] = "none")'
             /\ (lease[d] = "spawned" => child[d] \in {"running", "gone"})'
             /\ (Wanted(d) => lease[d] = "spawned" \/ (lease[d] = "pending" /\ owner[d] \in alive))'
  <2>1. CASE d = c
    BY <1>1, <1>4, <2>1
  <2>2. CASE d # c
    BY <1>1, <1>3, <2>2 DEF LeaseInv
  <2>3. QED
    BY <2>1, <2>2
<1>7. QED
  BY <1>2, <1>5, <1>6 DEF LeaseInv

LEMMA ChildHolds ==
  ASSUME LeaseInv, NEW c \in Leases!Children,
         Leases!Spawn(c) \/ Leases!MarkSpawned(c) \/ Leases!ChildWrites(c) \/ Leases!ChildEnds(c)
  PROVE  LeaseInv'
<1>1. /\ UNCHANGED <<alive, owner, report, prune, missed, faults>> /\ leaseFiles' \subseteq leaseFiles \cup {c}
      /\ child[c] # "none"
  BY DEF Leases!Spawn, Leases!MarkSpawned, Leases!ChildWrites, Leases!ChildEnds
<1>2. \/ child[c] = "prepared" /\ owner[c] \in alive /\ child' = [child EXCEPT ![c] = "running"] /\ lease' = lease
      \/ lease' = [lease EXCEPT ![c] = "spawned"] /\ child' = child /\ child[c] \in {"running", "gone"}
      \/ child' = child /\ lease' = lease
      \/ child' = [child EXCEPT ![c] = "gone"] /\ lease' = lease
  BY DEF Leases!Spawn, Leases!MarkSpawned, Leases!ChildWrites, Leases!ChildEnds
<1>3. Leases!LeaseTypeOK'
  BY <1>1, <1>2 DEF LeaseInv, Leases!LeaseTypeOK, Leases!Leased
<1>4. ASSUME NEW d \in Leases!Children
      PROVE  /\ child[d] # "none" <=> child'[d] # "none"
             /\ child[d] \in {"running", "gone"} => child'[d] \in {"running", "gone"}
             /\ ~Wanted(d) => ~Wanted(d)'
             /\ lease'[d] = "spawned" \/ lease'[d] = lease[d]
             /\ lease'[d] = "spawned" => child'[d] \in {"running", "gone"}
  BY <1>1, <1>2, LeaseTypes DEF LeaseInv, Wanted
<1>5. ASSUME NEW q \in Parents PROVE ReadRight(q)'
  BY <1>1, <1>4, ReadingsStay
<1>6. ASSUME NEW d \in Leases!Children
      PROVE  /\ (child[d] = "none" => d \notin leaseFiles /\ lease[d] = "none")'
             /\ (Wanted(d) => lease[d] = "spawned" \/ (lease[d] = "pending" /\ owner[d] \in alive))'
  <2>1. child'[d] = "none" => d \notin leaseFiles' /\ lease'[d] = "none"
    BY <1>1, <1>4 DEF LeaseInv
  <2>2. QED
    BY <1>1, <1>4, <2>1 DEF LeaseInv
<1>7. QED
  BY <1>3, <1>4, <1>5, <1>6 DEF LeaseInv

LEMMA FaultHolds == ASSUME LeaseInv, Leases!Fault PROVE faults' \in 0..MaxLeaseFaults
BY LeasesAssumption DEF LeaseInv, Leases!LeaseTypeOK, Leases!Fault

LEMMA FinishHolds == ASSUME LeaseInv, NEW c \in Leases!Children, Leases!Finish(c) PROVE LeaseInv'
<1>1. UNCHANGED <<alive, owner, leaseFiles, missed>> /\ (faults' = faults \/ Leases!Fault) /\ child[c] # "none"
  BY DEF Leases!Finish
<1>2. /\ child' = [child EXCEPT ![c] = IF @ = "prepared" THEN "gone" ELSE @]
      /\ report' = [report EXCEPT ![c] = IF c \in leaseFiles THEN "persisted" ELSE "missing"]
      /\ lease' = [lease EXCEPT ![c] = "none"] \/ lease' = lease
      /\ prune[owner[c]].step = "no" /\ prune' = [prune EXCEPT ![owner[c]].step = "scan"]
  BY DEF Leases!Finish
<1>3. prune' \in [Parents -> Prunings]
  BY <1>2, LeaseTypes DEF LeaseInv, Prunings, Leases!Steps
<1>4. /\ child' \in [Leases!Children -> {"none", "prepared", "running", "gone"}]
      /\ lease' \in [Leases!Children -> Leases!Leased]
      /\ report' \in [Leases!Children -> {"none", "persisted", "missing"}] /\ faults' \in 0..MaxLeaseFaults
  BY <1>1, <1>2, FaultHolds, LeaseTypes DEF LeaseInv, Leases!Leased
<1>5. Leases!LeaseTypeOK'
  BY <1>1, <1>3, <1>4, LeaseTypes DEF LeaseInv, Leases!LeaseTypeOK, Prunings
<1>6. ASSUME NEW d \in Leases!Children
      PROVE  /\ child[d] # "none" <=> child'[d] # "none"
             /\ child[d] \in {"running", "gone"} => child'[d] \in {"running", "gone"}
             /\ ~Wanted(d) => ~Wanted(d)'
             /\ lease'[d] = lease[d] \/ lease'[d] = "none"
             /\ d # c => child'[d] = child[d] /\ lease'[d] = lease[d]
  BY <1>1, <1>2, LeaseTypes DEF LeaseInv, Wanted
<1>7. ~Wanted(c)'
  BY <1>1, <1>2, LeaseTypes DEF LeaseInv, Wanted
<1>8. ASSUME NEW q \in Parents PROVE ReadRight(q)'
  <2>1. CASE q = owner[c]
    <3>1. prune'[q].step = "scan"
      BY <1>2, <2>1, LeaseTypes DEF LeaseInv
    <3>2. QED
      BY <3>1 DEF ReadRight
  <2>2. CASE q # owner[c]
    <3>1. prune'[q] = prune[q]
      BY <1>2, <2>2, LeaseTypes DEF LeaseInv
    <3>2. QED
      BY <3>1, <1>6, ReadingsStay
  <2>3. QED
    BY <2>1, <2>2
<1>9. ASSUME NEW d \in Leases!Children
      PROVE  /\ (child[d] = "none" => d \notin leaseFiles /\ lease[d] = "none")'
             /\ (lease[d] = "spawned" => child[d] \in {"running", "gone"})'
             /\ (Wanted(d) => lease[d] = "spawned" \/ (lease[d] = "pending" /\ owner[d] \in alive))'
  <2>1. CASE d = c
    BY <1>1, <1>6, <1>7, <2>1 DEF LeaseInv
  <2>2. CASE d # c
    BY <1>1, <1>6, <2>2 DEF LeaseInv
  <2>3. QED
    BY <2>1, <2>2
<1>10. QED
  BY <1>5, <1>8, <1>9 DEF LeaseInv

\* A pruning's own record, after a step that leaves the children as they are.
LEMMA PruningHolds ==
  ASSUME LeaseInv, NEW p \in Parents, NEW record \in Prunings, Leases!Now(p, record),
         UNCHANGED <<alive, child, owner, report, faults>>, leaseFiles' \subseteq leaseFiles,
         missed \subseteq missed', missed' \subseteq Leases!Children, lease' \in [Leases!Children -> Leases!Leased],
         \A c \in Leases!Children : lease'[c] = lease[c] \/ (lease'[c] = "none" /\ ~Wanted(c)'),
         prune'[p] = record => ReadRight(p)'
  PROVE  LeaseInv'
<1>1. prune' = [prune EXCEPT ![p] = record] /\ prune' \in [Parents -> Prunings]
  BY LeaseTypes DEF LeaseInv, Leases!Now
<1>2. Leases!LeaseTypeOK'
  BY <1>1, LeaseTypes DEF LeaseInv, Leases!LeaseTypeOK, Prunings
<1>3. ASSUME NEW c \in Leases!Children PROVE ~Wanted(c) => ~Wanted(c)'
  BY DEF Wanted
<1>4. ASSUME NEW q \in Parents PROVE ReadRight(q)'
  <2>1. CASE q = p
    BY <1>1, <2>1, LeaseTypes DEF LeaseInv
  <2>2. CASE q # p
    BY <1>1, <1>3, <2>2, ReadingsStay, LeaseTypes DEF LeaseInv
  <2>3. QED
    BY <2>1, <2>2
<1>5. ASSUME NEW c \in Leases!Children
      PROVE  /\ (child[c] = "none" => c \notin leaseFiles /\ lease[c] = "none")'
             /\ (lease[c] = "spawned" => child[c] \in {"running", "gone"})'
             /\ (Wanted(c) => lease[c] = "spawned" \/ (lease[c] = "pending" /\ owner[c] \in alive))'
  BY <1>3 DEF LeaseInv
<1>6. QED
  BY <1>2, <1>4, <1>5 DEF LeaseInv

\* The parts of a pruning's record.
LEMMA PruningTypes ==
  ASSUME NEW r \in Prunings, NEW stage \in Leases!Steps, NEW some \in SUBSET Leases!Children, NEW n \in 0..MaxChildren
  PROVE  /\ r.excess \in 0..MaxChildren /\ r.todo \subseteq Leases!Children /\ r.read \in Leases!Leased
         /\ [r EXCEPT !.todo = some] \in Prunings
         /\ [r EXCEPT !.step = stage, !.todo = some, !.excess = n] \in Prunings
<1>1. r.excess \in 0..MaxChildren /\ r.todo \subseteq Leases!Children /\ r.read \in Leases!Leased
  BY DEF Prunings
<1>2. [r EXCEPT !.todo = some] \in Prunings /\ [r EXCEPT !.step = stage, !.todo = some, !.excess = n] \in Prunings
  BY DEF Prunings
<1>3. QED
  BY <1>1, <1>2

LEMMA ReadingTypes ==
  ASSUME NEW r \in Prunings, NEW stage \in Leases!Steps, NEW some \in SUBSET Leases!Children,
         NEW c \in Leases!Children, NEW said \in Leases!Leased
  PROVE  [r EXCEPT !.step = stage, !.todo = some, !.of = c, !.read = said] \in Prunings
<1>1. c \in 0..MaxChildren
  BY LeasesAssumption DEF Leases!Children
<1>2. QED
  BY <1>1 DEF Prunings

\* The steps that read the leases and the directory.
LEMMA ReadHolds ==
  ASSUME LeaseInv, NEW p \in Parents,
         Leases!Scan(p) \/ Leases!List(p) \/ Leases!Pruned(p) \/ \E c \in Leases!Children : Leases!ReadLease(p, c)
  PROVE  LeaseInv'
<1>1. /\ UNCHANGED <<alive, child, owner, lease, leaseFiles, report, missed, faults>>
      /\ missed \subseteq Leases!Children /\ lease \in [Leases!Children -> Leases!Leased]
      /\ leaseFiles \subseteq Leases!Children
  BY LeaseTypes DEF LeaseInv, Leases!Scan, Leases!List, Leases!Pruned, Leases!ReadLease
<1>2. \A c \in Leases!Children : Wanted(c)' <=> Wanted(c)
  BY <1>1 DEF Wanted
<1>3. prune[p] \in Prunings /\ ReadRight(p) /\ Leases!NoPrune \in Prunings
  BY LeaseTypes DEF LeaseInv
<1>4. CASE Leases!Scan(p)
  <2> DEFINE some == {c \in Leases!Children : lease[c] # "none"}
             record == [Leases!NoPrune EXCEPT !.step = "leases", !.todo = some]
  <2>1. record \in Prunings /\ record.step = "leases" /\ record.todo = some
    BY <1>3 DEF Prunings, Leases!Steps, Leases!NoPrune
  <2>2. Leases!Now(p, record)
    BY <1>4 DEF Leases!Scan
  <2>3. \A c \in some : child'[c] # "none"
    BY <1>1 DEF LeaseInv
  <2> HIDE DEF record, some
  <2>4. prune'[p] = record => ReadRight(p)'
    BY <2>1, <2>3 DEF ReadRight
  <2>5. QED
    BY <1>1, <2>1, <2>2, <2>4, PruningHolds
<1>5. CASE Leases!List(p)
  <2> DEFINE some == leaseFiles \ prune[p].active
             record == [prune[p] EXCEPT !.step = "files", !.todo = some, !.excess = Leases!Excess]
  <2>1. record \in Prunings
    <3>1. some \in SUBSET Leases!Children /\ "files" \in Leases!Steps
      BY <1>1 DEF Leases!Steps
    <3>2. QED
      BY <1>3, <3>1, ExcessIsBounded, PruningTypes
  <2>2. record.step = "files" /\ record.todo = some
    BY <1>3 DEF Prunings
  <2>3. Leases!Now(p, record)
    BY <1>5 DEF Leases!List
  <2>4. \A c \in some : child'[c] # "none"
    BY <1>1 DEF LeaseInv
  <2> HIDE DEF record, some
  <2>5. prune'[p] = record => ReadRight(p)'
    BY <2>2, <2>4 DEF ReadRight
  <2>6. QED
    BY <1>1, <2>1, <2>3, <2>5, PruningHolds
<1>6. CASE Leases!Pruned(p)
  <2>1. Leases!Now(p, Leases!NoPrune)
    BY <1>6 DEF Leases!Pruned
  <2>2. prune'[p] = Leases!NoPrune => ReadRight(p)'
    BY DEF ReadRight, Leases!NoPrune
  <2>3. QED
    BY <1>1, <1>3, <2>1, <2>2, PruningHolds
<1>7. ASSUME NEW c \in Leases!Children, Leases!ReadLease(p, c) PROVE LeaseInv'
  <2> DEFINE record == [prune[p] EXCEPT !.step = "probe", !.todo = prune[p].todo \ {c}, !.of = c, !.read = lease[c]]
  <2>1. Leases!Now(p, record) /\ prune[p].step = "leases" /\ c \in prune[p].todo
    BY <1>7 DEF Leases!ReadLease
  <2>2. record \in Prunings
    <3>1. prune[p].todo \ {c} \in SUBSET Leases!Children /\ lease[c] \in Leases!Leased /\ "probe" \in Leases!Steps
      BY <1>1, <1>3 DEF Prunings, Leases!Steps
    <3>2. QED
      BY <1>3, <3>1, ReadingTypes
  <2>3. record.step = "probe" /\ record.todo = prune[p].todo \ {c} /\ record.of = c /\ record.read = lease[c]
    BY <1>3 DEF Prunings
  <2>4. child[c] # "none" /\ \A d \in record.todo : child'[d] # "none"
    BY <1>1, <1>3, <2>1, <2>3 DEF ReadRight
  <2>5. (lease[c] = "none" => ~Wanted(c)) /\ (lease[c] = "spawned" => child[c] \in {"running", "gone"})
    BY DEF LeaseInv
  <2> HIDE DEF record
  <2>6. prune'[p] = record => ReadRight(p)'
    BY <1>1, <1>2, <2>3, <2>4, <2>5 DEF ReadRight
  <2>7. QED
    BY <1>1, <2>1, <2>2, <2>6, PruningHolds
<1>8. QED
  BY <1>4, <1>5, <1>6, <1>7

\* A process that a lease named, and that is gone by the probe, leaves nothing wanted.
LEMMA ProbedRight ==
  ASSUME LeaseInv, NEW p \in Parents, NEW c \in Leases!Children, c = prune[p].of,
         prune[p].step \in {"probe", "recheck"},
         UNCHANGED <<alive, child, owner, report>>, missed' = missed \cup Leases!Misses(p),
         ~Leases!LiveLease(c, prune[p].read)
  PROVE  ~Wanted(c)'
<1>1. /\ child[c] # "none" /\ prune[p].read \in Leases!Leased
      /\ prune[p].read = "none" => ~Wanted(c)
      /\ prune[p].read = "spawned" => child[c] \in {"running", "gone"}
  BY LeaseTypes DEF LeaseInv, Prunings, ReadRight
<1>2. ~Wanted(c) => ~Wanted(c)'
  BY DEF Wanted
<1>3. CASE prune[p].read = "none"
  BY <1>1, <1>2, <1>3
<1>4. CASE prune[p].read = "spawned"
  BY <1>1, <1>4 DEF Wanted, Leases!LiveLease
<1>5. CASE prune[p].read = "pending" /\ Wanted(c)
  <2>1. owner[c] \notin alive
    BY <1>5 DEF Leases!LiveLease
  <2>2. lease[c] = "spawned" /\ child[c] = "running"
    BY <1>1, <1>5, <2>1 DEF LeaseInv, Wanted
  <2>3. c \in missed'
    BY <1>5, <2>1, <2>2 DEF Leases!Misses
  <2>4. QED
    BY <2>1, <2>3 DEF Wanted
<1>6. QED
  BY <1>1, <1>2, <1>3, <1>4, <1>5 DEF Leases!Leased

\* The steps that probe, and the one that unlinks.
LEMMA ProbeHolds ==
  ASSUME LeaseInv, NEW p \in Parents,
         Leases!Probe(p) \/ Leases!Recheck(p) \/ Leases!Reprobe(p) \/ Leases!Unlink(p)
  PROVE  LeaseInv'
<1>1. /\ UNCHANGED <<alive, child, owner, report, faults>> /\ leaseFiles' \subseteq leaseFiles
      /\ missed \subseteq Leases!Children /\ lease \in [Leases!Children -> Leases!Leased]
  BY LeaseTypes DEF LeaseInv, Leases!Probe, Leases!Recheck, Leases!Reprobe, Leases!Unlink
<1>2. /\ prune[p] \in Prunings /\ ReadRight(p) /\ prune[p].todo \subseteq Leases!Children
      /\ \A record \in Prunings : Leases!Now(p, record) => prune'[p] = record
  BY LeaseTypes DEF LeaseInv, Prunings, Leases!Now
<1>3. prune[p].step \in {"probe", "recheck"} => prune[p].of \in Leases!Children /\ Leases!Misses(p) \subseteq Leases!Children
  BY <1>2 DEF ReadRight, Leases!Misses
<1>4. CASE Leases!Probe(p)
  <2>0. PICK c \in Leases!Children : c = prune[p].of
    BY <1>3, <1>4 DEF Leases!Probe
  <2> DEFINE found == Leases!LiveLease(c, prune[p].read)
             record == IF found THEN [prune[p] EXCEPT !.step = "leases", !.active = prune[p].active \cup {c}]
                                ELSE [prune[p] EXCEPT !.step = "leases"]
  <2>1. /\ prune[p].step = "probe" /\ missed' = missed \cup Leases!Misses(p) /\ Leases!Now(p, record)
        /\ lease' = IF found THEN lease ELSE [lease EXCEPT ![c] = "none"]
    BY <1>4, <2>0 DEF Leases!Probe
  <2>2. record \in Prunings /\ record.step = "leases" /\ record.todo = prune[p].todo
    BY <1>2, <2>1 DEF Prunings, Leases!Steps
  <2>3. ~found => ~Wanted(c)'
    BY <1>1, <2>0, <2>1, ProbedRight
  <2>4. lease' \in [Leases!Children -> Leases!Leased]
    BY <1>1, <2>1 DEF Leases!Leased
  <2>5. \A d \in Leases!Children : lease'[d] = lease[d] \/ (lease'[d] = "none" /\ ~Wanted(d)')
    BY <1>1, <2>1, <2>3
  <2> HIDE DEF record, found
  <2>6. prune'[p] = record => ReadRight(p)'
    BY <1>1, <1>2, <2>1, <2>2 DEF ReadRight
  <2>7. QED
    BY <1>1, <1>3, <2>1, <2>2, <2>4, <2>5, <2>6, PruningHolds
<1>5. CASE Leases!Recheck(p)
  <2>0. PICK c : c = Leases!Oldest(p)
    OBVIOUS
  <2> DEFINE left == prune[p].todo \ {c}
             record == IF c \in leaseFiles
                         THEN [prune[p] EXCEPT !.step = "recheck", !.todo = left, !.of = c, !.read = lease[c]]
                         ELSE [prune[p] EXCEPT !.todo = left]
  <2>1. /\ prune[p].step = "files" /\ prune[p].excess # 0 /\ UNCHANGED <<missed, lease>> /\ Leases!Now(p, record)
    BY <1>5, <2>0 DEF Leases!Recheck, Leases!Stops
  <2>2. c \in leaseFiles => c \in Leases!Children /\ child[c] # "none" /\ lease[c] \in Leases!Leased
    BY <1>1, LeaseTypes DEF LeaseInv
  <2>3. c \in leaseFiles => (lease[c] = "none" => ~Wanted(c)) /\ (lease[c] = "spawned" => child[c] \in {"running", "gone"})
    BY <2>2 DEF LeaseInv
  <2>4. record \in Prunings
    <3>1. left \in SUBSET Leases!Children /\ "recheck" \in Leases!Steps
      BY <1>2 DEF Leases!Steps
    <3>2. [prune[p] EXCEPT !.todo = left] \in Prunings
      BY <1>2, <3>1 DEF Prunings
    <3>3. c \in leaseFiles => [prune[p] EXCEPT !.step = "recheck", !.todo = left, !.of = c, !.read = lease[c]] \in Prunings
      BY <1>2, <2>2, <3>1, ReadingTypes
    <3>4. QED
      BY <3>2, <3>3
  <2>5. /\ record.todo = left /\ record.excess = prune[p].excess
        /\ c \in leaseFiles => record.step = "recheck" /\ record.of = c /\ record.read = lease[c]
        /\ c \notin leaseFiles => record.step = "files"
    BY <1>2, <2>1 DEF Prunings
  <2>6. \A d \in left : child'[d] # "none"
    BY <1>1, <1>2, <2>1 DEF ReadRight
  <2> HIDE DEF record, left
  <2>7. prune'[p] = record => ReadRight(p)'
    <3>1. ~Wanted(c) => ~Wanted(c)'
      BY <1>1, <2>1 DEF Wanted
    <3>2. QED
      BY <1>1, <2>1, <2>2, <2>3, <2>5, <2>6, <3>1 DEF ReadRight
  <2>8. QED
    BY <1>1, <2>1, <2>4, <2>7, PruningHolds
<1>6. CASE Leases!Reprobe(p)
  <2>0. PICK c \in Leases!Children : c = prune[p].of
    BY <1>3, <1>6 DEF Leases!Reprobe
  <2> DEFINE next == IF Leases!LiveLease(c, prune[p].read) THEN "files" ELSE "unlink"
             record == [prune[p] EXCEPT !.step = next]
  <2>1. /\ prune[p].step = "recheck" /\ missed' = missed \cup Leases!Misses(p) /\ Leases!Now(p, record)
        /\ lease' = lease
    BY <1>6, <2>0 DEF Leases!Reprobe
  <2>2. /\ record \in Prunings /\ record.todo = prune[p].todo /\ record.of = c /\ record.step = next
        /\ record.excess = prune[p].excess
    BY <1>2, <2>0 DEF Prunings, Leases!Steps
  <2>3. next = "unlink" => ~Wanted(c)'
    BY <1>1, <2>0, <2>1, ProbedRight
  <2>4. next \in {"files", "unlink"}
    OBVIOUS
  <2> HIDE DEF record, next
  <2>5. prune'[p] = record => ReadRight(p)'
    <3>1. /\ \A d \in record.todo : child'[d] # "none"
          /\ record.of = c /\ child'[c] # "none" /\ record.step \in {"files", "unlink"} /\ record.excess # 0
          /\ record.step = "unlink" => ~Wanted(c)'
      BY <1>1, <1>2, <2>0, <2>1, <2>2, <2>3, <2>4 DEF ReadRight
    <3>2. QED
      BY <3>1 DEF ReadRight
  <2>6. QED
    BY <1>1, <1>3, <2>1, <2>2, <2>5, PruningHolds
<1>7. CASE Leases!Unlink(p)
  <2> DEFINE more == prune[p].excess - 1
             record == [prune[p] EXCEPT !.step = "files", !.excess = more]
  <2>1. prune[p].step = "unlink" /\ UNCHANGED <<missed, lease>> /\ Leases!Now(p, record)
    BY <1>7 DEF Leases!Unlink
  <2>2. more \in 0..MaxChildren
    BY <1>2, <2>1, LeasesAssumption DEF ReadRight, Prunings
  <2>3. record \in Prunings /\ record.todo = prune[p].todo /\ record.step = "files"
    BY <1>2, <2>2 DEF Prunings, Leases!Steps
  <2> HIDE DEF record
  <2>4. prune'[p] = record => ReadRight(p)'
    BY <1>1, <1>2, <2>1, <2>3 DEF ReadRight
  <2>5. QED
    BY <1>1, <2>1, <2>3, <2>4, PruningHolds
<1>8. QED
  BY <1>4, <1>5, <1>6, <1>7

LEMMA DeathHolds == ASSUME LeaseInv, NEW p \in Parents, Leases!ParentDies(p) PROVE LeaseInv'
<1>1. /\ UNCHANGED <<child, owner, lease, leaseFiles, report>> /\ alive' = alive \ {p} /\ Leases!Fault
      /\ prune' = [prune EXCEPT ![p] = Leases!NoPrune]
      /\ missed' = missed \cup {c \in Leases!Children : owner[c] = p /\ child[c] = "running" /\ lease[c] = "pending"}
  BY DEF Leases!ParentDies, Leases!Now
<1>2. prune' \in [Parents -> Prunings] /\ missed' \subseteq Leases!Children
  BY <1>1, LeaseTypes DEF LeaseInv
<1>3. Leases!LeaseTypeOK'
  BY <1>1, <1>2, LeaseTypes, FaultHolds DEF LeaseInv, Leases!LeaseTypeOK, Prunings
<1>4. ASSUME NEW c \in Leases!Children PROVE ~Wanted(c) => ~Wanted(c)'
  BY <1>1 DEF Wanted
<1>5. ASSUME NEW c \in Leases!Children, Wanted(c)'
      PROVE  lease[c] = "spawned" \/ (lease[c] = "pending" /\ owner[c] \in alive')
  BY <1>1, <1>4, <1>5 DEF LeaseInv, Wanted
<1>6. ASSUME NEW q \in Parents PROVE ReadRight(q)'
  <2>1. CASE q = p
    <3>1. prune'[q].step = "no"
      BY <1>1, <2>1, LeaseTypes DEF LeaseInv, Leases!NoPrune
    <3>2. QED
      BY <3>1 DEF ReadRight
  <2>2. CASE q # p
    <3>1. prune'[q] = prune[q]
      BY <1>1, <2>2, LeaseTypes DEF LeaseInv
    <3>2. QED
      BY <1>1, <1>4, <3>1, ReadingsStay
  <2>3. QED
    BY <2>1, <2>2
<1>7. QED
  BY <1>1, <1>3, <1>5, <1>6 DEF LeaseInv

LEMMA LeaseHolds == ASSUME LeaseInv, [Leases!LeaseNext]_leaseVars PROVE LeaseInv'
<1>1. CASE UNCHANGED leaseVars
  <2>1. \A c \in Leases!Children : Wanted(c)' <=> Wanted(c)
    BY <1>1 DEF leaseVars, Wanted
  <2>2. \A p \in Parents : ReadRight(p)'
    BY <1>1, <2>1, ReadingsStay DEF leaseVars
  <2>3. Leases!LeaseTypeOK'
    BY <1>1 DEF leaseVars, LeaseInv, Leases!LeaseTypeOK
  <2>4. QED
    BY <1>1, <2>1, <2>2, <2>3 DEF leaseVars, LeaseInv
<1>2. CASE Leases!LeaseNext
  BY <1>2, StartHolds, ChildHolds, FinishHolds, ReadHolds, ProbeHolds, DeathHolds DEF Leases!LeaseNext
<1>3. QED
  BY <1>1, <1>2

LEMMA LiveStays == ASSUME LeaseInv, [Leases!LeaseNext]_leaseVars PROVE Leases!LiveIsKept
<1>1. SUFFICES ASSUME NEW c \in Leases!Children, child[c] = "running", c \in leaseFiles \ leaseFiles'
               PROVE  Leases!Unguarded(c)
  BY DEF Leases!LiveIsKept
<1>2. PICK p \in Parents : Leases!Unlink(p)
  BY <1>1
  DEF leaseVars, Leases!LeaseNext, Leases!Spawn, Leases!MarkSpawned, Leases!ChildWrites, Leases!ChildEnds,
      Leases!Finish, Leases!Prepare, Leases!Scan, Leases!ReadLease, Leases!Probe, Leases!List, Leases!Recheck,
      Leases!Reprobe, Leases!Pruned, Leases!ParentDies
<1>3. prune[p].step = "unlink" /\ c = prune[p].of
  BY <1>1, <1>2 DEF Leases!Unlink
<1>4. ~Wanted(c)
  BY <1>3 DEF LeaseInv, ReadRight
<1>5. QED
  BY <1>1, <1>4 DEF Wanted, Leases!Unguarded

LEMMA LeasesMove ==
  /\ KeptInit => Leases!Init
  /\ [KeptNext]_keptVars => [Leases!LeaseNext]_leaseVars
BY DEF KeptInit, KeptNext, keptVars

\* What the parents and their children keep about the leases, through deaths and failed
\* writes, while any of them prunes.
THEOREM LeasesInductive == KeptSpec => []LeaseInv
<1>1. LeaseInv /\ [KeptNext]_keptVars => LeaseInv'
  BY LeasesMove, LeaseHolds
<1>2. QED
  BY <1>1, LeasesMove, LeaseInitHolds, PTL DEF KeptSpec

\* Pruning never deletes the session of a child that runs, whatever the cap is, unless the
\* run of the child was settled before it ended, or its parent died before it named it in a
\* lease or between a pruning's reading of its lease and the probe of the pid it read.
THEOREM LiveSessionsAreKept == KeptSpec => [][Leases!LiveIsKept]_keptVars
<1>1. LeaseInv /\ [KeptNext]_keptVars => Leases!LiveIsKept
  BY LeasesMove, LiveStays
<1>2. QED
  BY <1>1, LeasesInductive, PTL DEF KeptSpec
-----------------------------------------------------------------------------
(* The runs of the session.                                                *)

\* A request holds a run where it waits for it, and the one it is in.
HoldsItsRuns(r) ==
  /\ token[r]["autopilot"] # 0 <=> runPc[r] = "driving"
  /\ token[r]["land"] # 0 => runPc[r] \in {"single", "asking", "driving"}
  /\ token[r]["provider"] # 0 => runPc[r] \in {"stack", "single", "asking", "driving"}
  /\ runPc[r] = "single" => token[r]["land"] # 0
  /\ runPc[r] = "stack" => token[r]["provider"] # 0
  /\ runPc[r] = "driving" => asked[r] = token[r]["autopilot"]
  /\ runPc[r] = "driving" /\ token[r]["autopilot"] = life["autopilot"].gen => shown = r

\* What a lifecycle knows of is a run that goes on, of the session that is there.
KnowsItsRun(l) ==
  IF life[l].running
    THEN life[l].active /\ life[l].signal \in Requests /\ token[life[l].signal][l] = life[l].gen
    ELSE life[l].signal = Runs!None

\* A run of this session is the one that its lifecycle knows of; one of an earlier
\* session was aborted.
IsKnown(r, l) ==
  /\ token[r][l] <= life[l].gen
  /\ token[r][l] = life[l].gen => life[l].running /\ life[l].signal = r
  /\ token[r][l] # 0 /\ l \notin cut[r] => token[r][l] = life[l].gen

RunsAreKnown ==
  /\ \A l \in Runs!Lifecycles : KnowsItsRun(l)
  /\ \A r \in Requests, l \in Runs!Lifecycles : IsKnown(r, l)

RunsInv == Runs!TypeOK /\ RunsAreKnown /\ \A r \in Requests : HoldsItsRuns(r)

LifeRecords == [gen : 1..MaxGen, active : BOOLEAN, running : BOOLEAN, signal : Requests \cup {Runs!None}]

LEMMA RunsTypes ==
  Runs!TypeOK <=>
    /\ life \in [Runs!Lifecycles -> LifeRecords]
    /\ stackRun \in Requests \cup {Runs!None} /\ shown \in Requests \cup {Runs!None} /\ cuts \in 0..MaxCuts
    /\ runPc \in [Requests -> {"idle", "resolving", "finding", "routed", "stack", "single", "asking", "driving"}]
    /\ via \in [Requests -> {Runs!None, "land", "tool", "autopilot"}]
    /\ token \in [Requests -> [Runs!Lifecycles -> 0..MaxGen]] /\ asked \in [Requests -> 0..MaxGen]
    /\ cut \in [Requests -> SUBSET (Runs!Lifecycles \cup {"stack", "caller"})]
BY DEF Runs!TypeOK, LifeRecords

LEMMA RunsInitHolds == ASSUME Runs!Init PROVE RunsInv
<1>1. Runs!TypeOK
  BY RunsAssumption DEF Runs!Init, Runs!TypeOK, Runs!Lifecycles, Runs!NotHeld
<1>2. RunsAreKnown
  BY RunsAssumption DEF Runs!Init, RunsAreKnown, KnowsItsRun, IsKnown, Runs!Lifecycles, Runs!NotHeld
<1>3. QED
  BY <1>1, <1>2 DEF RunsInv, HoldsItsRuns, Runs!Init, Runs!Lifecycles, Runs!NotHeld

\* A run that begins.
LEMMA BegunIsKnown ==
  ASSUME RunsInv, NEW l \in Runs!Lifecycles, NEW r \in Requests, Runs!CanBegin(l, life[l].gen), token[r][l] = 0,
         life' = Runs!Begun(l, r), token' = Runs!Holding(l, r), cut' = cut
  PROVE  /\ RunsAreKnown' /\ life' \in [Runs!Lifecycles -> LifeRecords]
         /\ token' \in [Requests -> [Runs!Lifecycles -> 0..MaxGen]]
         /\ \A k \in Runs!Lifecycles : life'[k].gen = life[k].gen
         /\ token'[r][l] # 0 /\ token'[r][l] = life[l].gen
         /\ \A q \in Requests, k \in Runs!Lifecycles : q # r \/ k # l => token'[q][k] = token[q][k]
<1>1. /\ life \in [Runs!Lifecycles -> LifeRecords] /\ token \in [Requests -> [Runs!Lifecycles -> 0..MaxGen]]
      /\ RunsAreKnown
  BY RunsTypes DEF RunsInv
<1>2. ~life[l].running /\ life[l].active
  BY DEF Runs!CanBegin, Runs!IsSessionCurrent
<1>3. life[l] \in LifeRecords /\ life[l].gen \in 1..MaxGen
  BY <1>1 DEF LifeRecords
<1>4. /\ life' = [life EXCEPT ![l] = [life[l] EXCEPT !.running = TRUE, !.signal = r]]
      /\ token' = [token EXCEPT ![r][l] = life[l].gen]
  BY DEF Runs!Begun, Runs!Holding
<1>5. [life[l] EXCEPT !.running = TRUE, !.signal = r] \in LifeRecords
  BY <1>3 DEF LifeRecords
<1>6. life' \in [Runs!Lifecycles -> LifeRecords] /\ token' \in [Requests -> [Runs!Lifecycles -> 0..MaxGen]]
  BY <1>1, <1>3, <1>4, <1>5
<1>7. /\ \A k \in Runs!Lifecycles : k # l => life'[k] = life[k]
      /\ life'[l].gen = life[l].gen /\ life'[l].running /\ life'[l].active /\ life'[l].signal = r
  BY <1>1, <1>2, <1>3, <1>4 DEF LifeRecords
<1>8. /\ token'[r][l] = life[l].gen
      /\ \A q \in Requests, k \in Runs!Lifecycles : q # r \/ k # l => token'[q][k] = token[q][k]
  BY <1>1, <1>4
<1>9. \A k \in Runs!Lifecycles : KnowsItsRun(k)'
  BY <1>1, <1>7, <1>8 DEF RunsAreKnown, KnowsItsRun
<1>10. ASSUME NEW q \in Requests, NEW k \in Runs!Lifecycles PROVE IsKnown(q, k)'
  BY <1>1, <1>2, <1>3, <1>7, <1>8, RunsAssumption DEF RunsAreKnown, IsKnown
<1>11. RunsAreKnown'
  BY <1>9, <1>10 DEF RunsAreKnown
<1>12. QED
  BY <1>3, <1>6, <1>7, <1>8, <1>11

\* A run that ends, and the signals that go with it.
LEMMA LeftIsKnown ==
  ASSUME RunsInv, NEW l \in Runs!Lifecycles, NEW r \in Requests, Runs!Leave(l, r), token[r][l] # 0,
         \A q \in Requests, k \in Runs!Lifecycles : token[q][k] # 0 /\ ~(q = r /\ k = l) /\ k \in cut[q] => k \in cut'[q]
  PROVE  /\ RunsAreKnown' /\ life' \in [Runs!Lifecycles -> LifeRecords]
         /\ token' \in [Requests -> [Runs!Lifecycles -> 0..MaxGen]]
         /\ \A k \in Runs!Lifecycles : life'[k].gen = life[k].gen
         /\ token'[r][l] = 0
         /\ \A q \in Requests, k \in Runs!Lifecycles : q # r \/ k # l => token'[q][k] = token[q][k]
<1>1. /\ life \in [Runs!Lifecycles -> LifeRecords] /\ token \in [Requests -> [Runs!Lifecycles -> 0..MaxGen]]
      /\ RunsAreKnown
  BY RunsTypes DEF RunsInv
<1>2. life[l] \in LifeRecords /\ life[l].gen \in 1..MaxGen
  BY <1>1 DEF LifeRecords
<1>3. token' = [token EXCEPT ![r][l] = 0]
  BY DEF Runs!Leave
<1>4. /\ token' \in [Requests -> [Runs!Lifecycles -> 0..MaxGen]] /\ token'[r][l] = 0
      /\ \A q \in Requests, k \in Runs!Lifecycles : q # r \/ k # l => token'[q][k] = token[q][k]
  BY <1>1, <1>3, RunsAssumption
<1>5. CASE token[r][l] = life[l].gen
  <2>1. life[l].running /\ life[l].signal = r /\ life[l].active
    BY <1>1, <1>5 DEF RunsAreKnown, IsKnown, KnowsItsRun
  <2>2. life' = [life EXCEPT ![l] = [life[l] EXCEPT !.running = FALSE, !.signal = Runs!None]]
    BY <1>5, <2>1 DEF Runs!Leave, Runs!Ended, Runs!IsCurrent, Runs!IsSessionCurrent
  <2>3. [life[l] EXCEPT !.running = FALSE, !.signal = Runs!None] \in LifeRecords
    BY <1>2 DEF LifeRecords
  <2>4. /\ life' \in [Runs!Lifecycles -> LifeRecords]
        /\ \A k \in Runs!Lifecycles : k # l => life'[k] = life[k]
        /\ life'[l].gen = life[l].gen /\ ~life'[l].running /\ life'[l].signal = Runs!None
    BY <1>1, <1>2, <2>2, <2>3 DEF LifeRecords
  <2>5. \A k \in Runs!Lifecycles : KnowsItsRun(k)'
    BY <1>1, <1>4, <2>4 DEF RunsAreKnown, KnowsItsRun
  <2>6. ASSUME NEW q \in Requests, NEW k \in Runs!Lifecycles PROVE IsKnown(q, k)'
    <3>1. CASE k = l /\ q = r
      BY <1>2, <1>4, <2>4, <3>1 DEF IsKnown
    <3>2. CASE k = l /\ q # r
      BY <1>1, <1>2, <1>4, <2>1, <2>4, <3>2 DEF RunsAreKnown, IsKnown
    <3>3. CASE k # l
      BY <1>1, <1>4, <2>4, <3>3 DEF RunsAreKnown, IsKnown
    <3>4. QED
      BY <3>1, <3>2, <3>3
  <2>7. QED
    BY <1>4, <2>4, <2>5, <2>6 DEF RunsAreKnown
<1>6. CASE token[r][l] # life[l].gen
  <2>1. life' = life
    BY <1>6 DEF Runs!Leave, Runs!Ended, Runs!IsCurrent, Runs!IsSessionCurrent
  <2>2. \A k \in Runs!Lifecycles : KnowsItsRun(k)'
    BY <1>1, <1>4, <1>6, <2>1 DEF RunsAreKnown, KnowsItsRun
  <2>3. ASSUME NEW q \in Requests, NEW k \in Runs!Lifecycles PROVE IsKnown(q, k)'
    <3>1. life[k].gen \in 1..MaxGen
      BY <1>1 DEF LifeRecords
    <3>2. QED
      BY <1>1, <1>4, <2>1, <3>1 DEF RunsAreKnown, IsKnown
  <2>4. QED
    BY <1>1, <1>4, <2>1, <2>2, <2>3 DEF RunsAreKnown
<1>7. QED
  BY <1>5, <1>6

\* A session that ends or starts.
LEMMA StoppedIsKnown ==
  ASSUME RunsInv, NEW l \in Runs!Lifecycles, NEW active_ \in BOOLEAN, life[l].gen < MaxGen, life' = Runs!Stopped(l, active_),
         token' = token,
         \A q \in Requests : cut[q] \subseteq cut'[q],
         \A q \in Requests : life[l].signal = q => l \in cut'[q]
  PROVE  /\ RunsAreKnown' /\ life' \in [Runs!Lifecycles -> LifeRecords]
         /\ \A k \in Runs!Lifecycles : life'[k].gen >= life[k].gen
<1>1. /\ life \in [Runs!Lifecycles -> LifeRecords] /\ token \in [Requests -> [Runs!Lifecycles -> 0..MaxGen]]
      /\ RunsAreKnown
  BY RunsTypes DEF RunsInv
<1>2. life[l] \in LifeRecords /\ life[l].gen \in 1..MaxGen /\ life[l].gen + 1 \in 1..MaxGen
  BY <1>1, RunsAssumption DEF LifeRecords
<1>3. /\ \A k \in Runs!Lifecycles : k # l => life'[k] = life[k]
      /\ life'[l] = [gen |-> life[l].gen + 1, active |-> active_, running |-> FALSE, signal |-> Runs!None]
      /\ life' \in [Runs!Lifecycles -> LifeRecords]
  BY <1>1, <1>2 DEF Runs!Stopped, LifeRecords
<1>4. \A k \in Runs!Lifecycles : KnowsItsRun(k)'
  BY <1>1, <1>3 DEF RunsAreKnown, KnowsItsRun
<1>5. ASSUME NEW q \in Requests, NEW k \in Runs!Lifecycles PROVE IsKnown(q, k)'
  <2>1. CASE k = l
    BY <1>1, <1>2, <1>3, <2>1 DEF RunsAreKnown, IsKnown
  <2>2. CASE k # l
    BY <1>1, <1>3, <2>2 DEF RunsAreKnown, IsKnown
  <2>3. QED
    BY <2>1, <2>2
<1>6. \A k \in Runs!Lifecycles : life'[k].gen >= life[k].gen
  <2>1. \A k \in Runs!Lifecycles : life[k].gen \in 1..MaxGen
    BY <1>1 DEF LifeRecords
  <2>2. QED
    BY <1>2, <1>3, <2>1
<1>7. QED
  BY <1>3, <1>4, <1>5, <1>6 DEF RunsAreKnown

\* What neither begins nor ends a run.
LEMMA SameIsKnown ==
  ASSUME RunsInv, UNCHANGED <<life, token>>,
         \A q \in Requests, k \in Runs!Lifecycles : token[q][k] # 0 /\ k \in cut[q] => k \in cut'[q]
  PROVE  RunsAreKnown'
BY DEF RunsInv, RunsAreKnown, KnowsItsRun, IsKnown

LEMMA HoldsSame ==
  ASSUME RunsInv, NEW r \in Requests, runPc'[r] = runPc[r], asked'[r] = asked[r], shown' = shown,
         \A k \in Runs!Lifecycles : token'[r][k] = token[r][k],
         life'["autopilot"].gen >= life["autopilot"].gen
  PROVE  HoldsItsRuns(r)'
<1>1. life["autopilot"].gen \in 1..MaxGen /\ token[r]["autopilot"] \in 0..MaxGen
  BY RunsTypes DEF RunsInv, LifeRecords, Runs!Lifecycles
<1>2. token[r]["autopilot"] <= life["autopilot"].gen
  BY DEF RunsInv, RunsAreKnown, IsKnown, Runs!Lifecycles
<1>3. CASE token[r]["autopilot"] = life'["autopilot"].gen
  <2>1. life'["autopilot"].gen = life["autopilot"].gen
    BY <1>1, <1>2, <1>3
  <2>2. QED
    BY <2>1 DEF RunsInv, HoldsItsRuns, Runs!Lifecycles
<1>4. CASE token[r]["autopilot"] # life'["autopilot"].gen
  BY <1>4 DEF RunsInv, HoldsItsRuns, Runs!Lifecycles
<1>5. QED
  BY <1>3, <1>4

\* Requests that move without a run.
LEMMA AskHolds ==
  ASSUME RunsInv, NEW r \in Requests, Runs!AskLand(r) \/ Runs!RouteLand(r) \/ Runs!AskAutopilot(r) \/ Runs!RefuseAutopilot(r)
  PROVE  RunsInv'
<1>1. /\ UNCHANGED <<life, token, shown, cuts>> /\ runPc[r] \in {"idle", "resolving", "stack", "single", "asking"}
      /\ \A k \in Runs!Lifecycles : token[r][k] = 0 \/ cut' = cut
  <2>1. HoldsItsRuns(r)
    BY DEF RunsInv
  <2>2. CASE Runs!RefuseAutopilot(r)
    BY <2>1, <2>2 DEF HoldsItsRuns, Runs!RefuseAutopilot, Runs!Forget, Runs!Lifecycles, Runs!Outer
  <2>3. CASE Runs!AskLand(r) \/ Runs!RouteLand(r) \/ Runs!AskAutopilot(r)
    BY <2>1, <2>3 DEF HoldsItsRuns, Runs!AskLand, Runs!RouteLand, Runs!AskAutopilot, Runs!Forget, Runs!Lifecycles
  <2>4. QED
    BY <2>2, <2>3
<1>2. cut' = cut \/ cut' = [cut EXCEPT ![r] = {}]
  BY DEF Runs!AskLand, Runs!RouteLand, Runs!AskAutopilot, Runs!RefuseAutopilot, Runs!Forget
<1>3. RunsAreKnown'
  <2>1. cut \in [Requests -> SUBSET (Runs!Lifecycles \cup {"stack", "caller"})]
    BY RunsTypes DEF RunsInv
  <2>2. QED
    BY <1>1, <1>2, <2>1, SameIsKnown
<1>4. Runs!TypeOK'
  <2>1. /\ life' \in [Runs!Lifecycles -> LifeRecords] /\ shown' \in Requests \cup {Runs!None} /\ cuts' \in 0..MaxCuts
        /\ token' \in [Requests -> [Runs!Lifecycles -> 0..MaxGen]]
        /\ cut' \in [Requests -> SUBSET (Runs!Lifecycles \cup {"stack", "caller"})]
    BY <1>1, <1>2, RunsTypes DEF RunsInv
  <2>2. life["autopilot"].gen \in 0..MaxGen
    BY RunsTypes DEF RunsInv, LifeRecords, Runs!Lifecycles
  <2>3. stackRun' \in Requests \cup {Runs!None} /\ asked' \in [Requests -> 0..MaxGen]
    BY <2>2, RunsTypes, RunsAssumption DEF RunsInv, Runs!AskLand, Runs!RouteLand, Runs!AskAutopilot, Runs!RefuseAutopilot
  <2>4. /\ runPc' \in [Requests -> {"idle", "resolving", "finding", "routed", "stack", "single", "asking", "driving"}]
        /\ via' \in [Requests -> {Runs!None, "land", "tool", "autopilot"}]
    BY RunsTypes
    DEF RunsInv, Runs!AskLand, Runs!RouteLand, Runs!AskAutopilot, Runs!RefuseAutopilot, Runs!Forget, Runs!Outer
  <2>5. QED
    BY <2>1, <2>3, <2>4 DEF Runs!TypeOK, LifeRecords
<1>5. ASSUME NEW q \in Requests PROVE HoldsItsRuns(q)'
  <2>1. CASE q # r
    <3>1. runPc'[q] = runPc[q] /\ asked'[q] = asked[q]
      BY <2>1, RunsTypes DEF RunsInv, Runs!AskLand, Runs!RouteLand, Runs!AskAutopilot, Runs!RefuseAutopilot
    <3>2. life["autopilot"].gen \in 1..MaxGen
      BY RunsTypes DEF RunsInv, LifeRecords, Runs!Lifecycles
    <3>3. QED
      BY <1>1, <3>1, <3>2, HoldsSame
  <2>2. CASE q = r
    <3>1. HoldsItsRuns(r)
      BY DEF RunsInv
    <3>2. /\ runPc'[r] # "driving" /\ runPc[r] # "driving"
          /\ \/ runPc[r] \in {"idle", "resolving"} /\ runPc'[r] \notin {"stack", "single"}
             \/ runPc[r] \in {"stack", "single"} /\ runPc'[r] = "asking"
             \/ runPc[r] = "asking" /\ runPc'[r] = Runs!Outer(r)
      BY RunsTypes
      DEF RunsInv, Runs!AskLand, Runs!RouteLand, Runs!AskAutopilot, Runs!RefuseAutopilot, Runs!Outer
    <3>3. QED
      BY <1>1, <2>2, <3>1, <3>2 DEF HoldsItsRuns, Runs!Outer, Runs!Lifecycles
  <2>3. QED
    BY <2>1, <2>2
<1>6. QED
  BY <1>3, <1>4, <1>5 DEF RunsInv

\* Requests that begin a run.
LEMMA BeginHolds ==
  ASSUME RunsInv, NEW r \in Requests, NEW l \in Runs!Lifecycles, Runs!CanBegin(l, life[l].gen),
         life' = Runs!Begun(l, r), token' = Runs!Holding(l, r), UNCHANGED <<asked, cut, cuts>>,
         stackRun' = stackRun, via' = via \/ via' = [via EXCEPT ![r] = "tool"],
         \/ l = "provider" /\ runPc[r] \in {"finding", "idle"} /\ runPc' = [runPc EXCEPT ![r] = "stack"] /\ shown' = shown
         \/ l = "land" /\ runPc[r] \in {"routed", "stack"} /\ runPc' = [runPc EXCEPT ![r] = "single"] /\ shown' = shown
         \/ /\ l = "autopilot" /\ runPc[r] = "asking" /\ runPc' = [runPc EXCEPT ![r] = "driving"]
            /\ shown' = r /\ asked[r] = life[l].gen
  PROVE  RunsInv'
<1>1. HoldsItsRuns(r)
  BY DEF RunsInv
<1>2. token[r][l] = 0
  BY <1>1 DEF HoldsItsRuns
<1>3. /\ RunsAreKnown' /\ life' \in [Runs!Lifecycles -> LifeRecords]
      /\ token' \in [Requests -> [Runs!Lifecycles -> 0..MaxGen]]
      /\ \A k \in Runs!Lifecycles : life'[k].gen = life[k].gen
      /\ token'[r][l] # 0 /\ token'[r][l] = life[l].gen
      /\ \A q \in Requests, k \in Runs!Lifecycles : q # r \/ k # l => token'[q][k] = token[q][k]
  BY <1>2, BegunIsKnown
<1>4. Runs!TypeOK'
  BY <1>3, RunsTypes DEF RunsInv, Runs!TypeOK, LifeRecords
<1>5. ASSUME NEW q \in Requests, q # r PROVE HoldsItsRuns(q)'
  <2>1. runPc'[q] = runPc[q] /\ \A k \in Runs!Lifecycles : token'[q][k] = token[q][k]
    BY <1>3, <1>5, RunsTypes DEF RunsInv
  <2>2. life["autopilot"].gen \in 1..MaxGen /\ life'["autopilot"].gen = life["autopilot"].gen
    BY <1>3, RunsTypes DEF RunsInv, LifeRecords, Runs!Lifecycles
  <2>3. CASE shown' = shown
    BY <2>1, <2>2, <2>3, HoldsSame
  <2>4. CASE l = "autopilot"
    <3>1. token[q]["autopilot"] # life["autopilot"].gen
      BY <2>4 DEF RunsInv, RunsAreKnown, IsKnown, Runs!CanBegin
    <3>2. HoldsItsRuns(q)
      BY DEF RunsInv
    <3>3. QED
      BY <2>1, <2>2, <3>1, <3>2 DEF HoldsItsRuns, Runs!Lifecycles
  <2>5. QED
    BY <2>3, <2>4
<1>6. HoldsItsRuns(r)'
  <2>1. runPc'[r] = IF l = "provider" THEN "stack" ELSE IF l = "land" THEN "single" ELSE "driving"
    BY RunsTypes DEF RunsInv, Runs!Lifecycles
  <2>2. QED
    BY <1>1, <1>3, <2>1 DEF HoldsItsRuns, Runs!Lifecycles
<1>7. QED
  BY <1>3, <1>4, <1>5, <1>6 DEF RunsInv

LEMMA AnswerHolds ==
  ASSUME RunsInv, NEW r \in Requests, runPc[r] \in {"finding", "routed"}, runPc' = [runPc EXCEPT ![r] = "idle"],
         Runs!Forget(r), UNCHANGED <<life, token, asked, shown, cuts>>, stackRun' \in {stackRun, Runs!None}
  PROVE  RunsInv'
<1>1. HoldsItsRuns(r) /\ cut \in [Requests -> SUBSET (Runs!Lifecycles \cup {"stack", "caller"})]
  BY RunsTypes DEF RunsInv
<1>2. \A k \in Runs!Lifecycles : token[r][k] = 0
  BY <1>1 DEF HoldsItsRuns, Runs!Lifecycles
<1>3. RunsAreKnown'
  BY <1>1, <1>2, SameIsKnown DEF Runs!Forget
<1>4. Runs!TypeOK'
  BY RunsTypes DEF RunsInv, Runs!TypeOK, LifeRecords, Runs!Forget
<1>5. ASSUME NEW q \in Requests PROVE HoldsItsRuns(q)'
  <2>1. CASE q # r
    <3>1. runPc'[q] = runPc[q]
      BY <2>1, RunsTypes DEF RunsInv
    <3>2. life["autopilot"].gen \in 1..MaxGen
      BY RunsTypes DEF RunsInv, LifeRecords, Runs!Lifecycles
    <3>3. QED
      BY <3>1, <3>2, HoldsSame
  <2>2. CASE q = r
    <3>1. runPc'[r] = "idle"
      BY RunsTypes DEF RunsInv
    <3>2. QED
      BY <1>2, <2>2, <3>1 DEF HoldsItsRuns, Runs!Lifecycles
  <2>3. QED
    BY <2>1, <2>2
<1>6. QED
  BY <1>3, <1>4, <1>5 DEF RunsInv

LEMMA RequestHolds ==
  ASSUME RunsInv, NEW r \in Requests,
         Runs!RequestStack(r) \/ Runs!AskTool(r) \/ Runs!BeginSingle(r) \/ Runs!BeginAutopilot(r)
  PROVE  RunsInv'
<1> USE DEF Runs!Lifecycles
<1>1. CASE Runs!RequestStack(r)
  <2>1. CASE Runs!CanBegin("provider", life["provider"].gen) /\ runPc' = [runPc EXCEPT ![r] = "stack"]
             /\ life' = Runs!Begun("provider", r) /\ token' = Runs!Holding("provider", r) /\ UNCHANGED <<stackRun, via, cut>>
    BY <1>1, <2>1, BeginHolds DEF Runs!RequestStack
  <2>2. CASE stackRun' = Runs!None /\ runPc' = [runPc EXCEPT ![r] = "idle"] /\ Runs!Forget(r) /\ UNCHANGED <<life, token>>
    BY <1>1, <2>2, AnswerHolds DEF Runs!RequestStack
  <2>3. QED
    BY <1>1, <2>1, <2>2 DEF Runs!RequestStack
<1>2. CASE Runs!AskTool(r)
  BY <1>2, BeginHolds DEF Runs!AskTool
<1>3. CASE Runs!BeginSingle(r)
  <2>1. CASE Runs!CanBegin("land", life["land"].gen) /\ runPc' = [runPc EXCEPT ![r] = "single"]
             /\ life' = Runs!Begun("land", r) /\ token' = Runs!Holding("land", r) /\ UNCHANGED <<via, cut>>
    BY <1>3, <2>1, BeginHolds DEF Runs!BeginSingle
  <2>2. CASE runPc[r] = "routed" /\ runPc' = [runPc EXCEPT ![r] = "idle"] /\ Runs!Forget(r) /\ UNCHANGED <<life, token>>
    BY <1>3, <2>2, AnswerHolds DEF Runs!BeginSingle
  <2>3. QED
    BY <1>3, <2>1, <2>2 DEF Runs!BeginSingle
<1>4. CASE Runs!BeginAutopilot(r)
  <2>1. Runs!CanBegin("autopilot", life["autopilot"].gen) /\ asked[r] = life["autopilot"].gen
    BY <1>4 DEF Runs!BeginAutopilot, Runs!CanBegin, Runs!IsSessionCurrent
  <2>2. QED
    BY <1>4, <2>1, BeginHolds DEF Runs!BeginAutopilot
<1>5. QED
  BY <1>1, <1>2, <1>3, <1>4

\* Requests whose run returns.
LEMMA RunEndHolds ==
  ASSUME RunsInv, NEW r \in Requests, Runs!EndStack(r) \/ Runs!EndSingle(r) \/ Runs!EndAutopilot(r)
  PROVE  RunsInv'
<1> DEFINE l == IF runPc[r] = "stack" THEN "provider" ELSE IF runPc[r] = "single" THEN "land" ELSE "autopilot"
<1>1. HoldsItsRuns(r) /\ cut \in [Requests -> SUBSET (Runs!Lifecycles \cup {"stack", "caller"})]
  BY RunsTypes DEF RunsInv
<1>2. /\ l \in Runs!Lifecycles /\ Runs!Leave(l, r) /\ token[r][l] # 0 /\ UNCHANGED cuts
      /\ runPc[r] \in {"stack", "single", "driving"}
  BY <1>1 DEF Runs!EndStack, Runs!EndSingle, Runs!EndAutopilot, HoldsItsRuns, Runs!Lifecycles
<1>3. \A q \in Requests, k \in Runs!Lifecycles : token[q][k] # 0 /\ ~(q = r /\ k = l) /\ k \in cut[q] => k \in cut'[q]
  <2>1. CASE Runs!EndStack(r)
    <3>1. \A k \in Runs!Lifecycles : k # l => token[r][k] = 0
      BY <1>1, <2>1 DEF Runs!EndStack, HoldsItsRuns, Runs!Lifecycles
    <3>2. \A q \in Requests \ {r} : cut'[q] = cut[q]
      BY <1>1, <2>1 DEF Runs!EndStack, Runs!Forget
    <3>3. QED
      BY <3>1, <3>2
  <2>2. CASE Runs!EndSingle(r)
    <3>1. token[r]["autopilot"] = 0
      BY <1>1, <2>2 DEF Runs!EndSingle, HoldsItsRuns
    <3>2. CASE token[r]["provider"] # 0
      BY <1>1, <2>2, <3>1, <3>2 DEF Runs!EndSingle, Runs!Lifecycles
    <3>3. CASE token[r]["provider"] = 0
      BY <1>1, <2>2, <3>1, <3>3 DEF Runs!EndSingle, Runs!Lifecycles, Runs!Forget
    <3>4. QED
      BY <3>2, <3>3
  <2>3. CASE Runs!EndAutopilot(r)
    <3>1. CASE Runs!Outer(r) = "idle"
      BY <1>1, <2>3, <3>1 DEF Runs!EndAutopilot, Runs!Lifecycles, Runs!Forget, Runs!Outer
    <3>2. CASE Runs!Outer(r) # "idle"
      BY <1>1, <2>3, <3>2 DEF Runs!EndAutopilot, Runs!Lifecycles
    <3>3. QED
      BY <3>1, <3>2
  <2>4. QED
    BY <2>1, <2>2, <2>3
<1>4. /\ RunsAreKnown' /\ life' \in [Runs!Lifecycles -> LifeRecords]
      /\ token' \in [Requests -> [Runs!Lifecycles -> 0..MaxGen]]
      /\ \A k \in Runs!Lifecycles : life'[k].gen = life[k].gen
      /\ token'[r][l] = 0
      /\ \A q \in Requests, k \in Runs!Lifecycles : q # r \/ k # l => token'[q][k] = token[q][k]
  <2> HIDE DEF l
  <2>1. QED
    BY <1>2, <1>3, LeftIsKnown
<1>5. /\ \A q \in Requests \ {r} : runPc'[q] = runPc[q] /\ asked'[q] = asked[q]
      /\ \/ runPc[r] = "stack" /\ runPc'[r] \in {"routed", "idle"} /\ asked'[r] = asked[r]
         \/ /\ runPc[r] = "single" /\ asked'[r] = asked[r]
            /\ runPc'[r] = IF token[r]["provider"] # 0 THEN "stack" ELSE "idle"
         \/ runPc[r] = "driving" /\ runPc'[r] = Runs!Outer(r)
  BY RunsTypes DEF RunsInv, Runs!EndStack, Runs!EndSingle, Runs!EndAutopilot
<1>6. Runs!TypeOK'
  <2>1. /\ cut' \in [Requests -> SUBSET (Runs!Lifecycles \cup {"stack", "caller"})]
        /\ via' \in [Requests -> {Runs!None, "land", "tool", "autopilot"}]
    <3>1. cut \in [Requests -> SUBSET (Runs!Lifecycles \cup {"stack", "caller"})]
      BY <1>1
    <3>2. via \in [Requests -> {Runs!None, "land", "tool", "autopilot"}]
      BY RunsTypes DEF RunsInv
    <3>3. CASE Runs!EndStack(r)
      BY <3>1, <3>2, <3>3 DEF Runs!EndStack, Runs!Forget
    <3>4. CASE Runs!EndSingle(r)
      BY <3>1, <3>2, <3>4 DEF Runs!EndSingle, Runs!Forget
    <3>5. CASE Runs!EndAutopilot(r)
      BY <3>1, <3>2, <3>5 DEF Runs!EndAutopilot, Runs!Forget
    <3>6. QED
      BY <3>3, <3>4, <3>5
  <2>2. /\ runPc' \in [Requests -> {"idle", "resolving", "finding", "routed", "stack", "single", "asking", "driving"}]
        /\ asked' \in [Requests -> 0..MaxGen] /\ stackRun' \in Requests \cup {Runs!None}
        /\ shown' \in Requests \cup {Runs!None}
    <3>1. /\ runPc \in [Requests -> {"idle", "resolving", "finding", "routed", "stack", "single", "asking", "driving"}]
          /\ asked \in [Requests -> 0..MaxGen] /\ stackRun \in Requests \cup {Runs!None}
          /\ shown \in Requests \cup {Runs!None} /\ 0 \in 0..MaxGen
      BY RunsTypes, RunsAssumption DEF RunsInv
    <3>2. CASE Runs!EndStack(r)
      BY <3>1, <3>2 DEF Runs!EndStack
    <3>3. CASE Runs!EndSingle(r)
      BY <3>1, <3>3 DEF Runs!EndSingle
    <3>4. CASE Runs!EndAutopilot(r)
      BY <3>1, <3>4 DEF Runs!EndAutopilot, Runs!Outer
    <3>5. QED
      BY <3>2, <3>3, <3>4
  <2>3. QED
    BY <1>2, <1>4, <2>1, <2>2, RunsTypes DEF RunsInv, Runs!TypeOK, LifeRecords
<1>7. ASSUME NEW q \in Requests, q # r PROVE HoldsItsRuns(q)'
  <2>1. life["autopilot"].gen \in 1..MaxGen /\ life'["autopilot"].gen = life["autopilot"].gen
    BY <1>4, RunsTypes DEF RunsInv, LifeRecords, Runs!Lifecycles
  <2>2. CASE shown' = shown
    BY <1>4, <1>5, <1>7, <2>1, <2>2, HoldsSame
  <2>3. CASE shown' # shown
    <3>1. Runs!IsCurrent("autopilot", token[r]["autopilot"])
      BY <2>3 DEF Runs!EndStack, Runs!EndSingle, Runs!EndAutopilot
    <3>2. token[q]["autopilot"] # life["autopilot"].gen
      BY <1>7, <3>1 DEF RunsInv, RunsAreKnown, IsKnown, Runs!Lifecycles, Runs!IsCurrent, Runs!IsSessionCurrent
    <3>3. HoldsItsRuns(q)
      BY DEF RunsInv
    <3>4. QED
      BY <1>4, <1>5, <1>7, <2>1, <3>2, <3>3 DEF HoldsItsRuns, Runs!Lifecycles
  <2>4. QED
    BY <2>2, <2>3
<1>8. HoldsItsRuns(r)'
  <2>1. CASE runPc[r] = "stack"
    BY <1>1, <1>4, <1>5, <2>1 DEF HoldsItsRuns, Runs!Lifecycles
  <2>2. CASE runPc[r] = "single"
    BY <1>1, <1>4, <1>5, <2>2 DEF HoldsItsRuns, Runs!Lifecycles
  <2>3. CASE runPc[r] = "driving"
    BY <1>1, <1>4, <1>5, <2>3 DEF HoldsItsRuns, Runs!Lifecycles, Runs!Outer
  <2>4. QED
    BY <1>2, <2>1, <2>2, <2>3
<1>9. QED
  BY <1>4, <1>6, <1>7, <1>8 DEF RunsInv

\* Signals, and sessions that end or start.
LEMMA SignalHolds ==
  ASSUME RunsInv, NEW l \in Runs!Lifecycles,
         Runs!Abort(l) \/ Runs!ShutdownSession(l) \/ Runs!StartSession(l) \/ \E r \in Requests : Runs!CallerCancels(r)
  PROVE  RunsInv'
<1>1. /\ UNCHANGED <<stackRun, runPc, via, token, asked, shown>> /\ cuts' \in 0..MaxCuts
      /\ \/ life' = life
         \/ \E active_ \in BOOLEAN : life[l].gen < MaxGen /\ life' = Runs!Stopped(l, active_)
  <2>1. cuts \in 0..MaxCuts /\ MaxCuts \in Nat
    BY RunsTypes, RunsAssumption DEF RunsInv
  <2>2. CASE Runs!Abort(l) \/ \E r \in Requests : Runs!CallerCancels(r)
    BY <2>1, <2>2 DEF Runs!Abort, Runs!CallerCancels
  <2>3. CASE Runs!ShutdownSession(l)
    <3>1. life[l].gen < MaxGen /\ life' = Runs!Stopped(l, FALSE)
      BY <2>3 DEF Runs!ShutdownSession
    <3>2. QED
      BY <2>1, <2>3, <3>1 DEF Runs!ShutdownSession
  <2>4. CASE Runs!StartSession(l)
    <3>1. life[l].gen < MaxGen /\ life' = Runs!Stopped(l, TRUE)
      BY <2>4 DEF Runs!StartSession
    <3>2. QED
      BY <2>1, <2>4, <3>1 DEF Runs!StartSession
  <2>5. QED
    BY <2>2, <2>3, <2>4
<1>2. /\ cut' \in [Requests -> SUBSET (Runs!Lifecycles \cup {"stack", "caller"})]
      /\ \A q \in Requests : cut[q] \subseteq cut'[q]
      /\ life' # life => \A q \in Requests : life[l].signal = q => l \in cut'[q]
  <2>1. cut \in [Requests -> SUBSET (Runs!Lifecycles \cup {"stack", "caller"})]
    BY RunsTypes DEF RunsInv
  <2>2. l # "stack"
    BY DEF Runs!Lifecycles
  <2>3. CASE Runs!Abort(l) \/ \E r \in Requests : Runs!CallerCancels(r)
    BY <2>1, <2>3 DEF Runs!Abort, Runs!CallerCancels, Runs!Cut
  <2>4. CASE Runs!ShutdownSession(l) \/ Runs!StartSession(l)
    <3>1. \E sig : cut' = Runs!Cut(sig) /\ sig[l] = life[l].signal
      <4>1. Runs!Signals(l)[l] = life[l].signal
        BY <2>2 DEF Runs!Signals
      <4>2. CASE Runs!ShutdownSession(l)
        BY <4>1, <4>2 DEF Runs!ShutdownSession
      <4>3. CASE Runs!StartSession(l)
        <5> DEFINE sig == [Runs!Signals(l) EXCEPT !["stack"] = Runs!None]
        <5>1. sig[l] = life[l].signal
          BY <2>2, <4>1 DEF Runs!Signals
        <5>2. cut' = Runs!Cut(sig)
          BY <4>3 DEF Runs!StartSession
        <5> HIDE DEF sig
        <5>3. QED
          BY <5>1, <5>2
      <4>4. QED
        BY <2>4, <4>2, <4>3
    <3>2. PICK sig : cut' = Runs!Cut(sig) /\ sig[l] = life[l].signal
      BY <3>1
    <3>3. QED
      BY <2>1, <3>2 DEF Runs!Cut
  <2>5. QED
    BY <2>3, <2>4
<1>3. /\ RunsAreKnown' /\ life' \in [Runs!Lifecycles -> LifeRecords]
      /\ \A k \in Runs!Lifecycles : life'[k].gen >= life[k].gen
  <2>1. CASE life' = life
    <3>1. \A k \in Runs!Lifecycles : life[k].gen \in 1..MaxGen
      BY RunsTypes DEF RunsInv, LifeRecords
    <3>2. QED
      BY <1>1, <1>2, <2>1, <3>1, SameIsKnown, RunsTypes DEF RunsInv
  <2>2. CASE life' # life
    BY <1>1, <1>2, <2>2, StoppedIsKnown
  <2>3. QED
    BY <2>1, <2>2
<1>4. Runs!TypeOK'
  BY <1>1, <1>2, <1>3, RunsTypes DEF RunsInv, Runs!TypeOK, LifeRecords
<1>5. ASSUME NEW q \in Requests PROVE HoldsItsRuns(q)'
  BY <1>1, <1>3, HoldsSame DEF Runs!Lifecycles
<1>6. QED
  BY <1>3, <1>4, <1>5 DEF RunsInv

LEMMA RunsHold == ASSUME RunsInv, [Runs!Next]_runVars PROVE RunsInv'
<1>1. CASE UNCHANGED runVars
  BY <1>1 DEF runVars, RunsInv, Runs!TypeOK, RunsAreKnown, KnowsItsRun, IsKnown, HoldsItsRuns
<1>2. CASE \E r \in Requests : Runs!CallerCancels(r)
  BY <1>2, SignalHolds DEF Runs!Lifecycles
<1>3. CASE Runs!Next /\ ~\E r \in Requests : Runs!CallerCancels(r)
  BY <1>3, AskHolds, RequestHolds, RunEndHolds, SignalHolds DEF Runs!Next
<1>4. QED
  BY <1>1, <1>2, <1>3

LEMMA RunsServe == ASSUME RunsInv PROVE Runs!LiveRunsAreKnown /\ Runs!BusyIsARun /\ Runs!AutopilotServesItsSession
<1>1. Runs!LiveRunsAreKnown
  BY DEF RunsInv, RunsAreKnown, KnowsItsRun, IsKnown, Runs!LiveRunsAreKnown, Runs!IsCurrent, Runs!IsSessionCurrent
<1>2. Runs!BusyIsARun
  BY DEF RunsInv, RunsAreKnown, KnowsItsRun, Runs!BusyIsARun
<1>3. Runs!AutopilotServesItsSession
  BY DEF RunsInv, RunsAreKnown, IsKnown, HoldsItsRuns, Runs!AutopilotServesItsSession, Runs!Lifecycles,
         Runs!IsCurrent, Runs!IsSessionCurrent
<1>4. QED
  BY <1>1, <1>2, <1>3

LEMMA RunsMove ==
  /\ KeptInit => Runs!Init
  /\ [KeptNext]_keptVars => [Runs!Next]_runVars
BY DEF KeptInit, KeptNext, keptVars

\* What the extensions know of their runs, and the requests of the runs they hold,
\* through sessions that are replaced under them.
THEOREM RunsInductive == KeptSpec => []RunsInv
<1>1. RunsInv /\ [KeptNext]_keptVars => RunsInv'
  BY RunsMove, RunsHold
<1>2. QED
  BY <1>1, RunsMove, RunsInitHolds, PTL DEF KeptSpec

\* A run nobody has aborted is the one its extension knows of, an extension is busy only
\* with a run of its session, and autopilot goes on only in the session it was asked in.
THEOREM RunsServeTheirSession ==
  KeptSpec => [](Runs!LiveRunsAreKnown /\ Runs!BusyIsARun /\ Runs!AutopilotServesItsSession)
<1>1. QED
  BY RunsInductive, RunsServe, PTL
-----------------------------------------------------------------------------
(* The console.  Sums and concatenations are recursive functions: that     *)
(* there are such functions, and what is true of their values, is shown by *)
(* a least counterexample.                                                 *)

\* A nonempty set of natural numbers has a least one.
LEMMA LeastNatural == ASSUME NEW some \in SUBSET Nat, some # {} PROVE \E j \in some : \A k \in some : j <= k
<1> DEFINE R == {p \in Nat \X Nat : p[1] < p[2]}
<1>1. IsWellFoundedOn(R, Nat)
  BY NatLessThanWellFounded DEF OpToRel
<1> HIDE DEF R
<1>2. PICK j \in some : \A k \in some : ~(<<k, j>> \in R)
  BY <1>1, WFMin
<1>3. ASSUME NEW k \in some PROVE j <= k
  <2>1. j \in Nat /\ k \in Nat /\ ~(<<k, j>> \in R)
    BY <1>2
  <2>2. ~(k < j)
    BY <2>1 DEF R
  <2>3. QED
    BY <2>1, <2>2
<1>4. QED
  BY <1>3

LEMMA SumsExist ==
  ASSUME NEW n \in Nat, NEW bs
  PROVE  \E f : f = [i \in 0..n |-> IF i = 0 THEN 0 ELSE f[i - 1] + bs[i]]
<1> DEFINE Bad == {m \in Nat : ~ \E f : f = [i \in 0..m |-> IF i = 0 THEN 0 ELSE f[i - 1] + bs[i]]}
<1>1. SUFFICES ASSUME n \in Bad PROVE FALSE
  OBVIOUS
<1>2. Bad \in SUBSET Nat /\ Bad # {}
  BY <1>1
<1>3. \A m \in Nat : m \notin Bad => \E f : f = [i \in 0..m |-> IF i = 0 THEN 0 ELSE f[i - 1] + bs[i]]
  OBVIOUS
<1>4. \A m \in Bad : ~ \E f : f = [i \in 0..m |-> IF i = 0 THEN 0 ELSE f[i - 1] + bs[i]]
  OBVIOUS
<1> HIDE DEF Bad
<1>5. PICK m \in Bad : \A k \in Bad : m <= k
  BY <1>2, LeastNatural
<1>6. m \in Nat
  BY <1>2
<1>7. CASE m = 0
  <2> DEFINE g == [i \in 0..0 |-> 0]
  <2>1. g = [i \in 0..0 |-> IF i = 0 THEN 0 ELSE g[i - 1] + bs[i]]
    OBVIOUS
  <2> HIDE DEF g
  <2>2. QED
    BY <2>1, <1>4, <1>7
<1>8. CASE m # 0
  <2>1. m - 1 \in Nat /\ ~(m <= m - 1)
    BY <1>6, <1>8
  <2>2. PICK f : f = [i \in 0..(m - 1) |-> IF i = 0 THEN 0 ELSE f[i - 1] + bs[i]]
    BY <2>1, <1>3, <1>5
  <2> DEFINE g == [i \in 0..m |-> IF i = 0 THEN 0 ELSE f[i - 1] + bs[i]]
  <2>3. ASSUME NEW i \in 0..(m - 1) PROVE g[i] = f[i]
    <3>1. i \in 0..m
      BY <2>1, <1>6
    <3>2. g[i] = IF i = 0 THEN 0 ELSE f[i - 1] + bs[i]
      BY <3>1
    <3>3. f[i] = IF i = 0 THEN 0 ELSE f[i - 1] + bs[i]
      BY <2>2
    <3>4. QED
      BY <3>2, <3>3
  <2>4. ASSUME NEW i \in 0..m
        PROVE  (IF i = 0 THEN 0 ELSE f[i - 1] + bs[i]) = (IF i = 0 THEN 0 ELSE g[i - 1] + bs[i])
    <3>1. i # 0 => i - 1 \in 0..(m - 1)
      BY <2>1, <1>6
    <3>2. QED
      BY <3>1, <2>3
  <2>5. g = [i \in 0..m |-> IF i = 0 THEN 0 ELSE g[i - 1] + bs[i]]
    BY <2>4
  <2> HIDE DEF g
  <2>6. QED
    BY <2>5, <1>4
<1>9. QED
  BY <1>7, <1>8

\* The sums, each from the one before.
LEMMA SumsAre ==
  ASSUME NEW bs, NEW n \in Nat, Len(bs) = n
  PROVE  Shown!Sums(bs)[0] = 0 /\ \A i \in 1..n : Shown!Sums(bs)[i] = Shown!Sums(bs)[i - 1] + bs[i]
<1> DEFINE s == Shown!Sums(bs)
<1>1. s = [i \in 0..n |-> IF i = 0 THEN 0 ELSE s[i - 1] + bs[i]]
  BY SumsExist DEF Shown!Sums
<1> HIDE DEF s
<1>2. s[0] = 0
  BY <1>1
<1>3. ASSUME NEW i \in 1..n PROVE s[i] = s[i - 1] + bs[i]
  <2>1. i \in 0..n /\ i # 0
    OBVIOUS
  <2>2. QED
    BY <1>1, <2>1
<1>4. QED
  BY <1>2, <1>3 DEF s

LEMMA SumsAreNatural ==
  ASSUME NEW bs, NEW n \in Nat, Len(bs) = n, \A i \in 1..n : bs[i] \in Nat
  PROVE  \A i \in 0..n : Shown!Sums(bs)[i] \in Nat
<1> DEFINE s == Shown!Sums(bs)
           Bad == {i \in 0..n : s[i] \notin Nat}
<1>1. s[0] = 0 /\ \A i \in 1..n : s[i] = s[i - 1] + bs[i]
  BY SumsAre
<1> HIDE DEF s
<1>2. SUFFICES ASSUME Bad # {} PROVE FALSE
  BY DEF s
<1>3. Bad \in SUBSET Nat /\ (\A i \in Bad : i \in 0..n /\ s[i] \notin Nat) /\ \A i \in 0..n : i \notin Bad => s[i] \in Nat
  OBVIOUS
<1> HIDE DEF Bad
<1>4. PICK m \in Bad : \A k \in Bad : m <= k
  BY <1>2, <1>3, LeastNatural
<1>5. m # 0 /\ m \in 1..n
  BY <1>1, <1>3
<1>6. m - 1 \in 0..n /\ ~(m <= m - 1)
  BY <1>5
<1>7. s[m - 1] \in Nat
  BY <1>3, <1>4, <1>6
<1>8. s[m] = s[m - 1] + bs[m] /\ bs[m] \in Nat
  BY <1>1, <1>5
<1>9. s[m] \in Nat
  BY <1>7, <1>8
<1>10. QED
  BY <1>3, <1>9

LEMMA ConcatExists ==
  ASSUME NEW n \in Nat, NEW ss
  PROVE  \E f : f = [i \in 0..n |-> IF i = 0 THEN <<>> ELSE f[i - 1] \o ss[i]]
<1> DEFINE Bad == {m \in Nat : ~ \E f : f = [i \in 0..m |-> IF i = 0 THEN <<>> ELSE f[i - 1] \o ss[i]]}
<1>1. SUFFICES ASSUME n \in Bad PROVE FALSE
  OBVIOUS
<1>2. Bad \in SUBSET Nat /\ Bad # {}
  BY <1>1
<1>3. \A m \in Nat : m \notin Bad => \E f : f = [i \in 0..m |-> IF i = 0 THEN <<>> ELSE f[i - 1] \o ss[i]]
  OBVIOUS
<1>4. \A m \in Bad : ~ \E f : f = [i \in 0..m |-> IF i = 0 THEN <<>> ELSE f[i - 1] \o ss[i]]
  OBVIOUS
<1> HIDE DEF Bad
<1>5. PICK m \in Bad : \A k \in Bad : m <= k
  BY <1>2, LeastNatural
<1>6. m \in Nat
  BY <1>2
<1>7. CASE m = 0
  <2> DEFINE g == [i \in 0..0 |-> <<>>]
  <2>1. g = [i \in 0..0 |-> IF i = 0 THEN <<>> ELSE g[i - 1] \o ss[i]]
    OBVIOUS
  <2> HIDE DEF g
  <2>2. QED
    BY <2>1, <1>4, <1>7
<1>8. CASE m # 0
  <2>1. m - 1 \in Nat /\ ~(m <= m - 1)
    BY <1>6, <1>8
  <2>2. PICK f : f = [i \in 0..(m - 1) |-> IF i = 0 THEN <<>> ELSE f[i - 1] \o ss[i]]
    BY <2>1, <1>3, <1>5
  <2> DEFINE g == [i \in 0..m |-> IF i = 0 THEN <<>> ELSE f[i - 1] \o ss[i]]
  <2>3. ASSUME NEW i \in 0..(m - 1) PROVE g[i] = f[i]
    <3>1. i \in 0..m
      BY <2>1, <1>6
    <3>2. g[i] = IF i = 0 THEN <<>> ELSE f[i - 1] \o ss[i]
      BY <3>1
    <3>3. f[i] = IF i = 0 THEN <<>> ELSE f[i - 1] \o ss[i]
      BY <2>2
    <3>4. QED
      BY <3>2, <3>3
  <2>4. ASSUME NEW i \in 0..m
        PROVE  (IF i = 0 THEN <<>> ELSE f[i - 1] \o ss[i]) = (IF i = 0 THEN <<>> ELSE g[i - 1] \o ss[i])
    <3>1. i # 0 => i - 1 \in 0..(m - 1)
      BY <2>1, <1>6
    <3>2. QED
      BY <3>1, <2>3
  <2>5. g = [i \in 0..m |-> IF i = 0 THEN <<>> ELSE g[i - 1] \o ss[i]]
    BY <2>4
  <2> HIDE DEF g
  <2>6. QED
    BY <2>5, <1>4
<1>9. QED
  BY <1>7, <1>8

\* Sequences of lines that are each at most twice as long as a number make one that is at
\* most twice as long as their sum.
LEMMA ConcatFits ==
  ASSUME NEW L, NEW n \in Nat, NEW ss, Len(ss) = n, \A i \in 1..n : ss[i] \in Seq(L),
         NEW bs, Len(bs) = n, \A i \in 1..n : bs[i] \in Nat /\ Len(ss[i]) <= 2 * bs[i]
  PROVE  /\ Shown!Concat(ss) \in Seq(L) /\ Len(Shown!Concat(ss)) <= 2 * Shown!Sums(bs)[n]
         /\ n = 0 => Shown!Concat(ss) = <<>>
<1> DEFINE up == CHOOSE f : f = [i \in 0..n |-> IF i = 0 THEN <<>> ELSE f[i - 1] \o ss[i]]
           s == Shown!Sums(bs)
           Fine(i) == up[i] \in Seq(L) /\ Len(up[i]) <= 2 * s[i]
           Bad == {i \in 0..n : ~Fine(i)}
<1>1. Shown!Concat(ss) = up[n]
  BY DEF Shown!Concat
<1>2. up = [i \in 0..n |-> IF i = 0 THEN <<>> ELSE up[i - 1] \o ss[i]]
  BY ConcatExists
<1> HIDE DEF up
<1>3. up[0] = <<>> /\ \A i \in 1..n : up[i] = up[i - 1] \o ss[i]
  <2>1. up[0] = <<>>
    BY <1>2
  <2>2. ASSUME NEW i \in 1..n PROVE up[i] = up[i - 1] \o ss[i]
    <3>1. i \in 0..n /\ i # 0
      OBVIOUS
    <3>2. QED
      BY <1>2, <3>1
  <2>3. QED
    BY <2>1, <2>2
<1>4. s[0] = 0 /\ (\A i \in 1..n : s[i] = s[i - 1] + bs[i]) /\ \A i \in 0..n : s[i] \in Nat
  BY SumsAre, SumsAreNatural
<1> HIDE DEF s
<1>5. Bad = {}
  <2>1. SUFFICES ASSUME Bad # {} PROVE FALSE
    OBVIOUS
  <2>2. Bad \in SUBSET Nat /\ (\A i \in Bad : i \in 0..n /\ ~Fine(i)) /\ \A i \in 0..n : i \notin Bad => Fine(i)
    OBVIOUS
  <2> HIDE DEF Bad
  <2>3. PICK m \in Bad : \A k \in Bad : m <= k
    BY <2>1, <2>2, LeastNatural
  <2>4. Fine(0)
    BY <1>3, <1>4
  <2>5. m \in 1..n
    BY <2>2, <2>4
  <2>6. m - 1 \in 0..n /\ ~(m <= m - 1)
    BY <2>5
  <2>7. Fine(m - 1)
    BY <2>2, <2>3, <2>6
  <2> DEFINE before == up[m - 1]
             more == ss[m]
  <2>8. before \in Seq(L) /\ more \in Seq(L) /\ Len(before) <= 2 * s[m - 1] /\ Len(more) <= 2 * bs[m] /\ up[m] = before \o more
        /\ bs[m] \in Nat /\ s[m - 1] \in Nat /\ s[m] = s[m - 1] + bs[m]
    BY <1>3, <1>4, <2>5, <2>6, <2>7
  <2> HIDE DEF before, more, Fine
  <2>9. up[m] \in Seq(L) /\ Len(up[m]) = Len(before) + Len(more) /\ Len(before) \in Nat /\ Len(more) \in Nat
    BY <2>8, ConcatProperties, LenProperties
  <2>10. Len(up[m]) <= 2 * s[m]
    BY <2>8, <2>9
  <2>11. QED
    BY <2>2, <2>9, <2>10 DEF Fine
<1>6. Fine(n)
  <2>1. n \in 0..n /\ \A i \in 0..n : ~(i \in Bad) => Fine(i)
    OBVIOUS
  <2> HIDE DEF Bad, Fine
  <2>2. QED
    BY <1>5, <2>1
<1>7. QED
  BY <1>1, <1>3, <1>6 DEF s

ShownEntries == [id : Nat, kind : {"note", "tool", "turn", "text"}, turn : Nat, size : Nat, timed : BOOLEAN]
ShownTails == [from : Nat, size : 0..MaxTail]
Transcripts == [entries : Seq(ShownEntries), tail : ShownTails, turn : Nat, evicted : BOOLEAN]

\* The entries of a transcript are in the order of their numbers, which end at n.
Ordered(t, n) ==
  /\ \A i, j \in DOMAIN t.entries : i < j => t.entries[i].id < t.entries[j].id
  /\ \A i \in DOMAIN t.entries : t.entries[i].id <= n

Fits(t) == ~Shown!Over(t) \/ t.entries = <<>>

\* What a report leaves of the entries that were there: each is one of them, but for its time,
\* or is new.
Timed(e) == [e EXCEPT !.timed = TRUE]
Grows(t, u, n) ==
  \A i \in DOMAIN u.entries :
    \/ \E j \in DOMAIN t.entries : u.entries[i] = t.entries[j] \/ u.entries[i] = Timed(t.entries[j])
    \/ u.entries[i].id > n

ByteList(t) == [i \in 1..Len(t.entries) |-> Shown!EntryBytes(t.entries[i])]

LEMMA ListsHaveLength ==
  ASSUME NEW n \in Nat, NEW f, DOMAIN f = 1..n
  PROVE  Len(f) = n
OBVIOUS

LEMMA BytesAreNatural ==
  ASSUME NEW t, t.entries \in Seq(ShownEntries)
  PROVE  /\ Len(ByteList(t)) = Len(t.entries) /\ Len(t.entries) \in Nat
         /\ \A i \in 1..Len(t.entries) : ByteList(t)[i] = Shown!EntryBytes(t.entries[i]) /\ ByteList(t)[i] \in Nat
         /\ Shown!Sums(ByteList(t))[Len(t.entries)] \in Nat
         /\ Shown!TotalBytes(t) = Shown!Sums(ByteList(t))[Len(t.entries)] + t.tail.size
<1> DEFINE n == Len(t.entries)
<1>1. n \in Nat /\ \A i \in 1..n : t.entries[i] \in ShownEntries
  OBVIOUS
<1> HIDE DEF n
<1>2. DOMAIN ByteList(t) = 1..n /\ \A i \in 1..n : ByteList(t)[i] = Shown!EntryBytes(t.entries[i])
  BY DEF ByteList, n
<1>3. Len(ByteList(t)) = n
  BY <1>1, <1>2, ListsHaveLength
<1>4. ASSUME NEW i \in 1..n PROVE ByteList(t)[i] \in Nat
  <2>1. t.entries[i] \in ShownEntries
    BY <1>1
  <2>2. QED
    BY <2>1, <1>2 DEF Shown!EntryBytes, ShownEntries
<1>5. Shown!Sums(ByteList(t))[n] \in Nat
  <2>1. n \in 0..n
    BY <1>1
  <2>2. \A i \in 0..n : Shown!Sums(ByteList(t))[i] \in Nat
    BY <1>1, <1>3, <1>4, SumsAreNatural
  <2>3. QED
    BY <2>1, <2>2
<1>6. Shown!TotalBytes(t) = Shown!Sums(ByteList(t))[n] + t.tail.size
  BY DEF Shown!TotalBytes, ByteList, n
<1>7. QED
  BY <1>1, <1>2, <1>3, <1>4, <1>5, <1>6 DEF n

\* What is dropped is the beginning, and what is left is within the limits or no entry at all.
LEMMA LimitsEnforced ==
  ASSUME NEW t \in Transcripts
  PROVE  \E k \in 0..Len(t.entries) : LET u == Shown!EnforceLimits(t) IN
           /\ u \in Transcripts /\ Fits(u) /\ u.tail = t.tail /\ u.turn = t.turn
           /\ Len(u.entries) = Len(t.entries) - k
           /\ \A i \in 1..Len(u.entries) : u.entries[i] = t.entries[i + k]
<1> DEFINE n == Len(t.entries)
           Without(k) == [t EXCEPT !.entries = SubSeq(t.entries, k + 1, n), !.evicted = t.evicted \/ k > 0]
           enough == {k \in 0..n : k = n \/ ~Shown!Over(Without(k))}
           first == CHOOSE k \in enough : \A j \in enough : k <= j
<1>1. n \in Nat /\ t.entries \in Seq(ShownEntries) /\ t.tail \in ShownTails /\ t.turn \in Nat /\ t.evicted \in BOOLEAN
  BY DEF Transcripts
<1>2. Shown!EnforceLimits(t) = Without(first)
  BY DEF Shown!EnforceLimits
<1> HIDE DEF n, Without
<1>3. enough \subseteq Nat /\ n \in enough
  BY <1>1
<1>4. ASSUME NEW k \in enough PROVE k \in 0..n /\ (k = n \/ ~Shown!Over(Without(k)))
  OBVIOUS
<1> HIDE DEF enough
<1>5. first \in enough
  <2>1. \E k \in enough : \A j \in enough : k <= j
    BY <1>3, LeastNatural
  <2>2. QED
    BY <2>1
<1> HIDE DEF first
<1>6. first \in 0..n /\ (first = n \/ ~Shown!Over(Without(first)))
  BY <1>4, <1>5
<1> USE DEF Without
<1> DEFINE rest == SubSeq(t.entries, first + 1, n)
           u == Without(first)
<1>7. rest \in Seq(ShownEntries) /\ Len(rest) = n - first /\ \A i \in 1..(n - first) : rest[i] = t.entries[i + first]
  <2>1. first + 1 \in Int /\ n \in Int /\ \A i \in (first + 1)..n : t.entries[i] \in ShownEntries
    BY <1>1, <1>6 DEF n
  <2>2. rest \in Seq(ShownEntries)
    BY <2>1, SubSeqProperties
  <2>3. Len(rest) = IF first + 1 <= n THEN n - (first + 1) + 1 ELSE 0
    BY <2>1, SubSeqProperties
  <2>4. \A i \in 1..(n - (first + 1) + 1) : rest[i] = t.entries[(first + 1) + i - 1]
    BY <2>1, SubSeqProperties
  <2> HIDE DEF rest
  <2>5. Len(rest) = n - first
    BY <2>3, <1>1, <1>6
  <2>6. ASSUME NEW i \in 1..(n - first) PROVE rest[i] = t.entries[i + first]
    <3>1. i \in 1..(n - (first + 1) + 1) /\ (first + 1) + i - 1 = i + first
      BY <1>1, <1>6
    <3>2. QED
      BY <3>1, <2>4
  <2>7. QED
    BY <2>2, <2>5, <2>6
<1> HIDE DEF rest
<1>8. u = [t EXCEPT !.entries = rest, !.evicted = t.evicted \/ first > 0]
  BY DEF rest
<1>9. u \in Transcripts /\ u.entries = rest /\ u.tail = t.tail /\ u.turn = t.turn
  BY <1>1, <1>7, <1>8 DEF Transcripts
<1>10. Fits(u)
  <2>1. CASE ~Shown!Over(u)
    BY <2>1 DEF Fits
  <2>2. CASE first = n
    <3>1. Len(rest) = 0
      BY <2>2, <1>1, <1>7
    <3>2. rest = <<>>
      BY <3>1, <1>7
    <3>3. QED
      BY <3>2, <1>9 DEF Fits
  <2>3. QED
    BY <2>1, <2>2, <1>6
<1> HIDE DEF u
<1>11. Shown!EnforceLimits(t) = u
  BY <1>2 DEF u
<1>12. QED
  BY <1>6, <1>7, <1>9, <1>10, <1>11 DEF n

\* An entry that is added comes last, if it is kept.
LEMMA EntryAdded ==
  ASSUME NEW t \in Transcripts, NEW n \in Nat, NEW m \in Nat, Ordered(t, n), n <= m,
         NEW e \in ShownEntries, n < e.id, e.id <= m
  PROVE  LET u == Shown!AddEntry(t, e) IN
           /\ u \in Transcripts /\ Fits(u) /\ Ordered(u, m) /\ u.tail = t.tail /\ u.turn = t.turn
           /\ \A i \in DOMAIN u.entries : u.entries[i] = e \/ \E j \in DOMAIN t.entries : u.entries[i] = t.entries[j]
<1> DEFINE more == Append(t.entries, e)
           longer == [t EXCEPT !.entries = more]
<1>1. t.entries \in Seq(ShownEntries)
  BY DEF Transcripts
<1> DEFINE l == Len(t.entries)
<1>2. /\ l \in Nat /\ DOMAIN t.entries = 1..l /\ more \in Seq(ShownEntries) /\ Len(more) = l + 1
      /\ \A i \in 1..l : more[i] = t.entries[i]
      /\ more[l + 1] = e
  BY <1>1, AppendProperties
<1> HIDE DEF more
<1>3. longer \in Transcripts /\ longer.entries = more /\ longer.tail = t.tail /\ longer.turn = t.turn
  BY <1>2 DEF Transcripts
<1>4. Shown!AddEntry(t, e) = Shown!EnforceLimits(longer)
  BY DEF Shown!AddEntry, more
<1> HIDE DEF longer
<1> DEFINE u == Shown!EnforceLimits(longer)
<1>5. PICK k \in 0..Len(more) :
        /\ u \in Transcripts /\ Fits(u) /\ u.tail = t.tail /\ u.turn = t.turn
        /\ Len(u.entries) = Len(more) - k
        /\ \A i \in 1..Len(u.entries) : u.entries[i] = more[i + k]
  <2>1. PICK k \in 0..Len(longer.entries) :
          /\ u \in Transcripts /\ Fits(u) /\ u.tail = longer.tail /\ u.turn = longer.turn
          /\ Len(u.entries) = Len(longer.entries) - k
          /\ \A i \in 1..Len(u.entries) : u.entries[i] = longer.entries[i + k]
    BY <1>3, LimitsEnforced
  <2> HIDE DEF u
  <2>2. QED
    BY <2>1, <1>3
<1> HIDE DEF u, l
<1>6. u.entries \in Seq(ShownEntries)
  BY <1>5 DEF Transcripts
<1>7. DOMAIN u.entries = 1..(l + 1 - k) /\ k \in 0..(l + 1)
  BY <1>2, <1>5, <1>6, LenProperties
<1>8. \A i \in 1..(l + 1 - k) : u.entries[i] = more[i + k] /\ i + k \in 1..(l + 1)
  BY <1>2, <1>5, <1>7
<1>9. \A i \in 1..l : t.entries[i] \in ShownEntries /\ t.entries[i].id \in Nat /\ t.entries[i].id <= n
  <2>1. ASSUME NEW i \in 1..l PROVE t.entries[i] \in ShownEntries
    BY <1>1, <1>2, ElementOfSeq DEF l
  <2>2. ASSUME NEW i \in 1..l PROVE t.entries[i].id <= n
    BY <1>2 DEF Ordered
  <2>3. QED
    BY <2>1, <2>2 DEF ShownEntries
<1>10. e.id \in Nat
  BY DEF ShownEntries
<1>11. \A i \in 1..(l + 1) : more[i].id \in Nat /\ more[i].id <= m /\ (i \in 1..l \/ more[i] = e) /\ (i \in 1..l => more[i] = t.entries[i])
  <2>1. ASSUME NEW i \in 1..(l + 1) PROVE more[i].id \in Nat /\ more[i].id <= m /\ (i \in 1..l \/ more[i] = e) /\ (i \in 1..l => more[i] = t.entries[i])
    <3>1. i \in 1..l \/ i = l + 1
      BY <1>2
    <3>2. CASE i \in 1..l
      BY <3>2, <1>2, <1>9
    <3>3. CASE i = l + 1
      <4>1. i \notin 1..l /\ more[i] = e
        BY <3>3, <1>2
      <4>2. QED
        BY <4>1, <1>10
    <3>4. QED
      BY <3>1, <3>2, <3>3
  <2>2. QED
    BY <2>1
<1>12. \A i, j \in 1..(l + 1) : i < j => more[i].id < more[j].id
  <2>1. ASSUME NEW i \in 1..(l + 1), NEW j \in 1..(l + 1), i < j PROVE more[i].id < more[j].id
    <3>1. i \in 1..l /\ (j \in 1..l \/ j = l + 1)
      BY <2>1, <1>2
    <3>2. CASE j \in 1..l
      BY <2>1, <3>1, <3>2, <1>2 DEF Ordered, l
    <3>3. CASE j = l + 1
      <4>1. more[i] = t.entries[i] /\ t.entries[i].id <= n /\ more[j] = e /\ t.entries[i].id \in Nat
        BY <3>1, <3>3, <1>2, <1>9
      <4>2. QED
        BY <4>1, <1>10
    <3>4. QED
      BY <3>1, <3>2, <3>3
  <2>2. QED
    BY <2>1
<1>13. Ordered(u, m)
  <2>1. ASSUME NEW i \in 1..(l + 1 - k), NEW j \in 1..(l + 1 - k), i < j PROVE u.entries[i].id < u.entries[j].id
    <3>1. i + k \in 1..(l + 1) /\ j + k \in 1..(l + 1) /\ i + k < j + k
      BY <2>1, <1>2, <1>7, <1>8
    <3>2. QED
      BY <3>1, <1>8, <1>12
  <2>2. ASSUME NEW i \in 1..(l + 1 - k) PROVE u.entries[i].id <= m
    BY <1>8, <1>11
  <2>3. QED
    BY <2>1, <2>2, <1>7 DEF Ordered
<1>14. ASSUME NEW i \in DOMAIN u.entries PROVE u.entries[i] = e \/ \E j \in DOMAIN t.entries : u.entries[i] = t.entries[j]
  BY <1>2, <1>7, <1>8, <1>11
<1>15. QED
  BY <1>4, <1>5, <1>13, <1>14 DEF u

\* What a transcript is after a report, n being the last number before it, and m after it.
Reported(t, u, n, m) == u \in Transcripts /\ Fits(u) /\ Ordered(u, m) /\ Grows(t, u, n)

LEMMA EntryReported ==
  ASSUME NEW t \in Transcripts, NEW n \in Nat, NEW m \in Nat, Ordered(t, n), n <= m,
         NEW e \in ShownEntries, n < e.id, e.id <= m
  PROVE  Reported(t, Shown!AddEntry(t, e), n, m)
<1> DEFINE u == Shown!AddEntry(t, e)
<1>1. /\ u \in Transcripts /\ Fits(u) /\ Ordered(u, m)
      /\ \A i \in DOMAIN u.entries : u.entries[i] = e \/ \E j \in DOMAIN t.entries : u.entries[i] = t.entries[j]
  BY EntryAdded
<1> HIDE DEF u
<1>2. Grows(t, u, n)
  BY <1>1 DEF Grows
<1>3. QED
  BY <1>1, <1>2 DEF Reported, u

\* The tail may go, and with it some of the bytes.
LEMMA TailGoes ==
  ASSUME NEW t \in Transcripts, Fits(t), NEW u, u.entries = t.entries, u.tail = Shown!EmptyTail
  PROVE  Fits(u)
<1>1. t.entries \in Seq(ShownEntries) /\ t.tail.size \in Nat
  BY ConsoleAssumption DEF Transcripts, ShownTails
<1>2. /\ Shown!TotalBytes(t) = Shown!Sums(ByteList(t))[Len(t.entries)] + t.tail.size
      /\ Shown!Sums(ByteList(t))[Len(t.entries)] \in Nat
  BY <1>1, BytesAreNatural
<1>3. ByteList(u) = ByteList(t)
  BY DEF ByteList
<1>4. Shown!TotalBytes(u) = Shown!Sums(ByteList(t))[Len(t.entries)] + u.tail.size
  BY <1>1, <1>3, BytesAreNatural
<1>5. u.tail.size = 0
  BY DEF Shown!EmptyTail
<1>6. Shown!TotalBytes(u) <= Shown!TotalBytes(t) /\ Shown!TotalBytes(u) \in Nat /\ Shown!TotalBytes(t) \in Nat
  <2> DEFINE b == Shown!Sums(ByteList(t))[Len(t.entries)]
  <2>1. b \in Nat /\ Shown!TotalBytes(t) = b + t.tail.size /\ Shown!TotalBytes(u) = b + 0
    BY <1>2, <1>4, <1>5
  <2> HIDE DEF b
  <2>2. QED
    BY <2>1, <1>1
<1>7. Shown!TotalBytes(u) > MaxBytes => Shown!TotalBytes(t) > MaxBytes
  BY <1>6, ConsoleAssumption
<1>8. QED
  BY <1>7 DEF Fits, Shown!Over

TellsInv ==
  /\ transcript \in [ShownChildren -> Transcripts] /\ events \in Nat
  /\ \A c \in ShownChildren : Ordered(transcript[c], 2 * events) /\ Fits(transcript[c])

\* The entries of a transcript, one by one.
LEMMA EntryIds ==
  ASSUME NEW t \in Transcripts
  PROVE  \A i \in DOMAIN t.entries : t.entries[i] \in ShownEntries /\ t.entries[i].id \in Nat
<1>1. t.entries \in Seq(ShownEntries)
  BY DEF Transcripts
<1>2. ASSUME NEW i \in DOMAIN t.entries PROVE t.entries[i] \in ShownEntries
  <2> DEFINE es == t.entries
  <2>1. es \in Seq(ShownEntries) /\ i \in DOMAIN es
    BY <1>1
  <2> HIDE DEF es
  <2>2. i \in 1..Len(es)
    BY <2>1, LenProperties
  <2>3. es[i] \in ShownEntries
    BY <2>1, <2>2, ElementOfSeq
  <2>4. QED
    BY <2>3 DEF es
<1>3. ASSUME NEW e \in ShownEntries PROVE e.id \in Nat
  BY DEF ShownEntries
<1>4. QED
  BY <1>2, <1>3

\* A transcript that is in order up to some number is so up to a later one.
LEMMA OrderedLater ==
  ASSUME NEW t \in Transcripts, NEW n \in Nat, NEW m \in Nat, n <= m, Ordered(t, n)
  PROVE  Ordered(t, m)
<1>1. ASSUME NEW i \in DOMAIN t.entries PROVE t.entries[i].id <= m
  <2>1. t.entries[i].id <= n /\ t.entries[i].id \in Nat
    BY EntryIds DEF Ordered
  <2>2. QED
    BY <2>1
<1>2. QED
  BY <1>1 DEF Ordered

\* A report of child c makes its transcript u.
Reports(c, u) ==
  /\ Reported(transcript[c], u, 2 * events, 2 * events + 2)
  /\ Shown!Report(c, u)

LEMMA EntryIsShown ==
  ASSUME TellsInv, NEW kind \in {"note", "tool", "turn", "text"}, NEW t, t.turn \in Nat, NEW size \in Nat
  PROVE  /\ Shown!Entry(kind, t, size) \in ShownEntries
         /\ Shown!Entry(kind, t, size).id = 2 * events + (IF kind = "text" THEN 1 ELSE 2)
<1>1. events \in Nat
  BY DEF TellsInv
<1> DEFINE k == 2 * events + (IF kind = "text" THEN 1 ELSE 2)
<1>2. k \in Nat
  BY <1>1
<1> HIDE DEF k
<1>3. Shown!Entry(kind, t, size) = [id |-> k, kind |-> kind, turn |-> t.turn, size |-> size, timed |-> FALSE]
  BY DEF Shown!Entry, k
<1>4. QED
  BY <1>2, <1>3 DEF ShownEntries, k

LEMMA NoteReports ==
  ASSUME TellsInv, NEW c \in ShownChildren, Shown!Note(c) \/ Shown!ToolStart(c)
  PROVE  Shown!FlushAndEmit /\ \E u : Reports(c, u)
<1> DEFINE t == transcript[c]
           n == 2 * events
           m == 2 * events + 2
<1>1. t \in Transcripts /\ t.turn \in Nat /\ Ordered(t, n) /\ n \in Nat /\ m \in Nat /\ n <= m /\ n < m
  BY DEF TellsInv, Transcripts
<1>2. PICK kind \in {"note", "tool"} : Shown!FlushAndEmit /\ Shown!Report(c, Shown!AddEntry(t, Shown!Entry(kind, t, 1)))
  BY DEF Shown!Note, Shown!ToolStart
<1> DEFINE e == Shown!Entry(kind, t, 1)
<1>3. e \in ShownEntries /\ e.id = m
  BY <1>1, EntryIsShown
<1> HIDE DEF e, t, n, m
<1>4. Reported(t, Shown!AddEntry(t, e), n, m)
  BY <1>1, <1>3, EntryReported
<1>5. QED
  BY <1>2, <1>4 DEF Reports, e, t, n, m

LEMMA ToolEndReports ==
  ASSUME TellsInv, NEW c \in ShownChildren, Shown!ToolEnd(c)
  PROVE  Shown!FlushAndEmit /\ \E u : Reports(c, u)
<1> DEFINE t == transcript[c]
           n == Len(t.entries)
           u == [t EXCEPT !.entries[n].timed = TRUE]
           ev == 2 * events
<1>1. t \in Transcripts /\ t.entries \in Seq(ShownEntries) /\ Ordered(t, ev) /\ Fits(t) /\ events \in Nat
  BY DEF TellsInv, Transcripts
<1>2. n > 0 /\ n \in Nat /\ t.entries[n].kind = "tool" /\ Shown!Report(c, u) /\ Shown!FlushAndEmit
  BY <1>1 DEF Shown!ToolEnd
<1>3. n \in 1..n /\ DOMAIN t.entries = 1..n /\ t.entries[n] \in ShownEntries /\ \A i \in 1..n : t.entries[i] \in ShownEntries
  BY <1>1, <1>2, ElementOfSeq, LenProperties
<1> DEFINE e == Timed(t.entries[n])
           es == [t.entries EXCEPT ![n] = e]
<1>4. e \in ShownEntries /\ e.id = t.entries[n].id /\ e.kind = "tool"
  BY <1>2, <1>3 DEF Timed, ShownEntries
<1>5. u = [t EXCEPT !.entries = es]
  BY DEF Timed
<1> HIDE DEF u, e, n, t, ev
<1>6. es \in Seq(ShownEntries) /\ Len(es) = n /\ DOMAIN es = 1..n /\ \A j \in 1..n : es[j] = IF j = n THEN e ELSE t.entries[j]
  BY <1>1, <1>3, <1>4, ExceptSeq, LenProperties DEF n
<1>7. \A j \in 1..n : es[j].id = t.entries[j].id /\ Shown!EntryBytes(es[j]) = Shown!EntryBytes(t.entries[j])
  BY <1>2, <1>4, <1>6 DEF Shown!EntryBytes
<1> HIDE DEF es
<1>8. u \in Transcripts /\ u.entries = es /\ u.tail = t.tail
  BY <1>1, <1>5, <1>6 DEF Transcripts
<1>9. Ordered(u, ev)
  BY <1>1, <1>3, <1>6, <1>7, <1>8 DEF Ordered
<1>10. Ordered(u, ev + 2)
  <2>1. ev \in Nat /\ ev + 2 \in Nat /\ ev <= ev + 2
    BY <1>1 DEF ev
  <2>2. QED
    BY <2>1, <1>8, <1>9, OrderedLater
<1>11. Grows(t, u, ev)
  BY <1>3, <1>6, <1>8 DEF Grows, e
<1>12. Fits(u)
  <2>1. ByteList(u) = ByteList(t)
    BY <1>6, <1>7, <1>8 DEF ByteList, n
  <2>2. Shown!TotalBytes(u) = Shown!TotalBytes(t)
    BY <2>1, <1>1, <1>6, <1>8, BytesAreNatural DEF n
  <2>3. t.entries # <<>>
    BY <1>2 DEF n
  <2>4. QED
    BY <2>2, <2>3, <1>1, <1>6, <1>8 DEF Fits, Shown!Over, n
<1>13. QED
  BY <1>2, <1>8, <1>10, <1>11, <1>12 DEF Reports, Reported, t, ev

LEMMA TextReports ==
  ASSUME TellsInv, NEW c \in ShownChildren, Shown!TextDelta(c)
  PROVE  \E u : Reports(c, u)
<1> DEFINE t == transcript[c]
           full == t.tail.size = MaxTail
           longer == [from |-> t.tail.from + (IF full THEN 1 ELSE 0), size |-> IF full THEN MaxTail ELSE t.tail.size + 1]
           w == [t EXCEPT !.tail = longer]
           n == 2 * events
<1>1. t \in Transcripts /\ t.entries \in Seq(ShownEntries) /\ t.tail \in ShownTails /\ Ordered(t, n) /\ events \in Nat
  BY DEF TellsInv, Transcripts
<1>2. Shown!Report(c, Shown!EnforceLimits(w))
  BY DEF Shown!TextDelta
<1>3. longer \in ShownTails
  <2>1. t.tail.from \in Nat /\ t.tail.size \in 0..MaxTail /\ MaxTail \in Nat
    BY <1>1, ConsoleAssumption DEF ShownTails
  <2>2. t.tail.from + (IF full THEN 1 ELSE 0) \in Nat /\ (IF full THEN MaxTail ELSE t.tail.size + 1) \in 0..MaxTail
    BY <2>1
  <2>3. QED
    BY <2>2 DEF ShownTails
<1> HIDE DEF longer
<1>4. w \in Transcripts /\ w.entries = t.entries
  BY <1>1, <1>3 DEF Transcripts
<1> HIDE DEF w, t, n
<1> DEFINE u == Shown!EnforceLimits(w)
<1>5. PICK k \in 0..Len(w.entries) :
        /\ u \in Transcripts /\ Fits(u) /\ Len(u.entries) = Len(w.entries) - k
        /\ \A i \in 1..Len(u.entries) : u.entries[i] = w.entries[i + k]
  BY <1>4, LimitsEnforced
<1> HIDE DEF u
<1>6. /\ DOMAIN u.entries = 1..Len(u.entries) /\ DOMAIN t.entries = 1..Len(t.entries) /\ Len(t.entries) \in Nat /\ Len(u.entries) \in Nat
  <2>1. u.entries \in Seq(ShownEntries)
    BY <1>5 DEF Transcripts
  <2>2. QED
    BY <2>1, <1>1, LenProperties
<1>7. k \in Nat /\ \A i \in DOMAIN u.entries : i \in Nat /\ i + k \in DOMAIN t.entries /\ u.entries[i] = t.entries[i + k]
  BY <1>4, <1>5, <1>6
<1>8. \A i \in DOMAIN t.entries : t.entries[i].id \in Nat /\ t.entries[i].id <= n /\ n \in Nat
  <2>1. n \in Nat
    BY <1>1 DEF n
  <2>2. QED
    BY <2>1, <1>1, EntryIds DEF Ordered
<1>9. Ordered(u, n + 2)
  <2>1. ASSUME NEW i \in DOMAIN u.entries, NEW j \in DOMAIN u.entries, i < j PROVE u.entries[i].id < u.entries[j].id
    <3>1. i + k < j + k
      BY <2>1, <1>7
    <3>2. QED
      BY <3>1, <1>1, <1>7 DEF Ordered
  <2>2. ASSUME NEW i \in DOMAIN u.entries PROVE u.entries[i].id <= n + 2
    <3>1. u.entries[i].id \in Nat /\ u.entries[i].id <= n /\ n \in Nat
      BY <1>7, <1>8
    <3>2. QED
      BY <3>1
  <2>3. QED
    BY <2>1, <2>2 DEF Ordered
<1>10. Grows(t, u, n)
  BY <1>7 DEF Grows
<1>11. QED
  BY <1>2, <1>5, <1>9, <1>10 DEF Reports, Reported, u, t, n

LEMMA TurnReports ==
  ASSUME TellsInv, NEW c \in ShownChildren, Shown!TurnEnd(c)
  PROVE  Shown!FlushAndEmit /\ \E u : Reports(c, u)
<1> DEFINE t == transcript[c]
           n == 2 * events
<1>1. t \in Transcripts /\ t.tail \in ShownTails /\ t.turn \in Nat /\ Ordered(t, n) /\ events \in Nat /\ n \in Nat
  BY DEF TellsInv, Transcripts
<1>2. t.tail.from + t.tail.size \in Nat
  BY <1>1, ConsoleAssumption DEF ShownTails
<1>3. PICK size \in Nat :
        LET said == IF size = 0 THEN t ELSE Shown!AddEntry(t, Shown!Entry("text", t, size))
            closed == Shown!AddEntry(said, Shown!Entry("turn", t, 1))
        IN Shown!Report(c, [closed EXCEPT !.tail = Shown!EmptyTail, !.turn = closed.turn + 1]) /\ Shown!FlushAndEmit
  BY <1>2 DEF Shown!TurnEnd
<1> DEFINE e == Shown!Entry("text", t, size)
           f == Shown!Entry("turn", t, 1)
           said == IF size = 0 THEN t ELSE Shown!AddEntry(t, e)
           closed == Shown!AddEntry(said, f)
           u == [closed EXCEPT !.tail = Shown!EmptyTail, !.turn = closed.turn + 1]
<1>4. e \in ShownEntries /\ e.id = n + 1 /\ f \in ShownEntries /\ f.id = n + 2
  BY <1>1, EntryIsShown
<1>5. Shown!Report(c, u) /\ Shown!FlushAndEmit
  BY <1>3
<1> HIDE DEF e, f, t, n
<1>6. /\ said \in Transcripts /\ Ordered(said, n + 1)
      /\ \A i \in DOMAIN said.entries : said.entries[i] = e \/ \E j \in DOMAIN t.entries : said.entries[i] = t.entries[j]
  <2>1. CASE size = 0
    <3>1. said = t
      BY <2>1
    <3>2. n + 1 \in Nat /\ n <= n + 1
      BY <1>1
    <3>3. Ordered(t, n + 1)
      BY <3>2, <1>1, OrderedLater
    <3> HIDE DEF said
    <3>4. QED
      BY <3>1, <3>3, <1>1
  <2>2. CASE size # 0
    <3>1. said = Shown!AddEntry(t, e)
      BY <2>2
    <3>2. n + 1 \in Nat /\ n <= n + 1 /\ n < e.id /\ e.id <= n + 1
      BY <1>1, <1>4
    <3> HIDE DEF said
    <3>3. QED
      BY <3>1, <3>2, <1>1, <1>4, EntryAdded
  <2>3. QED
    BY <2>1, <2>2
<1> HIDE DEF said
<1>7. /\ closed \in Transcripts /\ Fits(closed) /\ Ordered(closed, n + 2)
      /\ \A i \in DOMAIN closed.entries : closed.entries[i] = f \/ \E j \in DOMAIN said.entries : closed.entries[i] = said.entries[j]
  <2>1. n + 1 \in Nat /\ n + 2 \in Nat /\ n + 1 <= n + 2 /\ n + 1 < f.id /\ f.id <= n + 2
    BY <1>1, <1>4
  <2>2. QED
    BY <2>1, <1>4, <1>6, EntryAdded
<1> HIDE DEF closed
<1>8. u \in Transcripts /\ u.entries = closed.entries /\ u.tail = Shown!EmptyTail
  <2>1. Shown!EmptyTail \in ShownTails
    BY ConsoleAssumption DEF Shown!EmptyTail, ShownTails
  <2>2. closed.turn + 1 \in Nat
    BY <1>7 DEF Transcripts
  <2>3. \A x \in ShownTails, k \in Nat : [closed EXCEPT !.tail = x, !.turn = k] \in Transcripts
                    /\ [closed EXCEPT !.tail = x, !.turn = k].entries = closed.entries
                    /\ [closed EXCEPT !.tail = x, !.turn = k].tail = x
    BY <1>7 DEF Transcripts
  <2>4. QED
    BY <2>1, <2>2, <2>3
<1> HIDE DEF u
<1>9. Fits(u)
  BY <1>7, <1>8, TailGoes
<1>10. Ordered(u, n + 2)
  BY <1>7, <1>8 DEF Ordered
<1>11. Grows(t, u, n)
  <2>1. e.id > n /\ f.id > n
    BY <1>1, <1>4
  <2>2. ASSUME NEW i \in DOMAIN u.entries PROVE u.entries[i] = f \/ u.entries[i] = e \/ \E j \in DOMAIN t.entries : u.entries[i] = t.entries[j]
    BY <1>6, <1>7, <1>8
  <2>3. QED
    BY <2>1, <2>2 DEF Grows
<1>12. QED
  BY <1>5, <1>8, <1>9, <1>10, <1>11 DEF Reports, Reported, t, n

\* A report leaves every transcript within its limits and in its order.
LEMMA ReportTells ==
  ASSUME TellsInv, NEW c \in ShownChildren, NEW u, Reports(c, u)
  PROVE  TellsInv' /\ transcript' = [transcript EXCEPT ![c] = u] /\ \A d \in ShownChildren \ {c} : transcript'[d] = transcript[d]
<1>1. /\ transcript' = [transcript EXCEPT ![c] = u] /\ events' = events + 1 /\ u \in Transcripts
      /\ Fits(u) /\ Ordered(u, 2 * events + 2)
  BY DEF Reports, Reported, Shown!Report
<1>2. /\ transcript \in [ShownChildren -> Transcripts] /\ events \in Nat
      /\ \A d \in ShownChildren : Ordered(transcript[d], 2 * events) /\ Fits(transcript[d])
  BY DEF TellsInv
<1>3. /\ transcript' \in [ShownChildren -> Transcripts] /\ transcript'[c] = u
      /\ \A d \in ShownChildren \ {c} : transcript'[d] = transcript[d]
  BY <1>1, <1>2
<1>4. 2 * events' = 2 * events + 2 /\ events' \in Nat
  BY <1>1, <1>2
<1>5. ASSUME NEW d \in ShownChildren PROVE Ordered(transcript'[d], 2 * events') /\ Fits(transcript'[d])
  <2>1. CASE d = c
    BY <2>1, <1>1, <1>3, <1>4
  <2>2. CASE d # c
    <3> DEFINE t == transcript[d]
    <3>1. transcript'[d] = t /\ Ordered(t, 2 * events) /\ Fits(t) /\ t \in Transcripts
      BY <2>2, <1>2, <1>3
    <3> HIDE DEF t
    <3>2. 2 * events \in Nat /\ 2 * events' \in Nat /\ 2 * events <= 2 * events'
      BY <1>1, <1>2
    <3>3. QED
      BY <3>1, <3>2, OrderedLater
  <2>3. QED
    BY <2>1, <2>2
<1>6. QED
  BY <1>1, <1>3, <1>4, <1>5 DEF TellsInv

\* What a cache holds of an entry is its layout at the width and with the time it was laid out
\* with, and what it holds of the tail is the layout of the tail with that key.
CacheHolds(ca, tr, n) ==
  /\ \A x \in ca.entries : x.id \in Nat /\ x.id <= n
  /\ \A x \in ca.entries, c \in ShownChildren : \A i \in DOMAIN tr[c].entries :
       (x.child = c /\ x.id = tr[c].entries[i].id)
          => x.lines = Shown!FormatTranscriptEntry([tr[c].entries[i] EXCEPT !.timed = x.timed], x.width)
  /\ \A c \in ShownChildren, t \in Transcripts, w \in Shown!Widths :
       ca.live = Shown!LiveKey(c, t, w) => ca.liveLines = Shown!FormatTail(t, w)

LEMMA EmptyCacheHolds ==
  ASSUME NEW tr, NEW n
  PROVE  CacheHolds(Shown!NoCache, tr, n)
<1>1. Shown!NoCache.entries = {} /\ Shown!NoCache.live = [child |-> 0]
  BY DEF Shown!NoCache, Shown!NoLive
<1>2. ASSUME NEW c \in ShownChildren, NEW t, NEW w, [child |-> 0] = Shown!LiveKey(c, t, w) PROVE FALSE
  <2>1. Shown!LiveKey(c, t, w).child = c
    BY DEF Shown!LiveKey
  <2>2. c # 0
    BY ConsoleAssumption
  <2>3. QED
    BY <1>2, <2>1, <2>2
<1>3. QED
  BY <1>1, <1>2 DEF CacheHolds

\* What the entries of a child become when it reports leaves the cache right.
LEMMA CacheOutlivesReport ==
  ASSUME NEW ca, NEW tr \in [ShownChildren -> Transcripts], NEW n \in Nat, CacheHolds(ca, tr, n),
         NEW c \in ShownChildren, NEW u \in Transcripts, Grows(tr[c], u, n), NEW m \in Nat, n <= m
  PROVE  CacheHolds(ca, [tr EXCEPT ![c] = u], m)
<1> DEFINE tu == [tr EXCEPT ![c] = u]
<1>1. tu[c] = u /\ \A d \in ShownChildren \ {c} : tu[d] = tr[d]
  OBVIOUS
<1> HIDE DEF tu
<1>2. ASSUME NEW x \in ca.entries PROVE x.id \in Nat /\ x.id <= m
  <2>1. x.id \in Nat /\ x.id <= n
    BY DEF CacheHolds
  <2>2. QED
    BY <2>1
<1>3. ASSUME NEW x \in ca.entries, NEW d \in ShownChildren, NEW i \in DOMAIN tu[d].entries, x.child = d, x.id = tu[d].entries[i].id
      PROVE  x.lines = Shown!FormatTranscriptEntry([tu[d].entries[i] EXCEPT !.timed = x.timed], x.width)
  <2>1. CASE d # c
    BY <2>1, <1>1, <1>3 DEF CacheHolds
  <2>2. CASE d = c
    <3> DEFINE e == u.entries[i]
               t == tr[c]
    <3>1. x.id = e.id /\ x.id \in Nat /\ x.id <= n /\ i \in DOMAIN u.entries /\ tu[d].entries[i] = e /\ t \in Transcripts
      BY <2>2, <1>1, <1>3 DEF CacheHolds
    <3>2. ~(e.id > n)
      BY <3>1
    <3>3. PICK j \in DOMAIN t.entries : e = t.entries[j] \/ e = Timed(t.entries[j])
      BY <3>1, <3>2 DEF Grows
    <3> HIDE DEF e
    <3>4. t.entries[j] \in ShownEntries
      BY <3>1, EntryIds
    <3>5. e.id = t.entries[j].id /\ [e EXCEPT !.timed = x.timed] = [t.entries[j] EXCEPT !.timed = x.timed]
      BY <3>3, <3>4 DEF Timed, ShownEntries
    <3>6. x.lines = Shown!FormatTranscriptEntry([t.entries[j] EXCEPT !.timed = x.timed], x.width)
      BY <2>2, <1>3, <3>1, <3>5 DEF CacheHolds
    <3>7. QED
      BY <3>1, <3>5, <3>6
  <2>3. QED
    BY <2>1, <2>2
<1>4. QED
  BY <1>2, <1>3 DEF CacheHolds, tu

\* An entry as the cache shows it.
LEMMA EntryIsFresh ==
  ASSUME NEW ca, NEW tr \in [ShownChildren -> Transcripts], NEW n \in Nat, CacheHolds(ca, tr, n),
         NEW c \in ShownChildren, NEW w, NEW i \in DOMAIN tr[c].entries
  PROVE  LET x == Shown!CachedEntry(ca, c, tr[c].entries[i], w) IN
           /\ x.child = c /\ x.id = tr[c].entries[i].id /\ x.width = w /\ x.timed = tr[c].entries[i].timed
           /\ x.lines = Shown!FormatTranscriptEntry(tr[c].entries[i], w)
<1> DEFINE e == tr[c].entries[i]
           hits == {x \in ca.entries : x.child = c /\ x.id = e.id /\ x.width = w /\ x.timed = e.timed}
           x == Shown!CachedEntry(ca, c, e, w)
<1>1. e \in ShownEntries
  BY EntryIds
<1>2. x = IF hits # {} THEN CHOOSE y \in hits : TRUE
          ELSE [child |-> c, id |-> e.id, width |-> w, timed |-> e.timed, lines |-> Shown!FormatTranscriptEntry(e, w)]
  BY DEF Shown!CachedEntry
<1> HIDE DEF x
<1>3. CASE hits # {}
  <2>1. x \in hits
    <3> HIDE DEF hits
    <3>1. QED
      BY <1>2, <1>3
  <2>2. x \in ca.entries /\ x.child = c /\ x.id = e.id /\ x.width = w /\ x.timed = e.timed
    BY <2>1
  <2>3. x.lines = Shown!FormatTranscriptEntry([e EXCEPT !.timed = x.timed], x.width)
    BY <2>2 DEF CacheHolds
  <2> HIDE DEF e
  <2>4. [e EXCEPT !.timed = x.timed] = e
    BY <1>1, <2>2 DEF ShownEntries
  <2>5. QED
    BY <2>2, <2>3, <2>4 DEF e, x
<1>4. CASE hits = {}
  <2> HIDE DEF e, hits
  <2>1. x = [child |-> c, id |-> e.id, width |-> w, timed |-> e.timed, lines |-> Shown!FormatTranscriptEntry(e, w)]
    BY <1>2, <1>4
  <2>2. QED
    BY <2>1 DEF e, x
<1>5. QED
  BY <1>3, <1>4

\* No tail takes no line.
LEMMA NoTailNoLine ==
  ASSUME NEW t \in Transcripts, Shown!NoTail(t), NEW w
  PROVE  Shown!FormatTail(t, w) = <<>>
<1>1. t.tail.size = 0
  BY DEF Shown!NoTail
<1>2. Shown!Wrapped(0, w) = 0
  BY DEF Shown!Wrapped
<1>3. QED
  BY <1>1, <1>2 DEF Shown!FormatTail, Shown!FormatText

\* The tail as the cache shows it.
LEMMA TailIsFresh ==
  ASSUME NEW ca, NEW tr, NEW n, CacheHolds(ca, tr, n), NEW c \in ShownChildren, NEW t \in Transcripts, NEW w \in Shown!Widths
  PROVE  Shown!CachedTail(ca, c, t, w) = Shown!FormatTail(t, w)
BY DEF CacheHolds, Shown!CachedTail

\* What a use of the cache shows is the layout without it.
LEMMA CacheShows ==
  ASSUME NEW ca, NEW tr \in [ShownChildren -> Transcripts], NEW n \in Nat, CacheHolds(ca, tr, n),
         NEW c \in ShownChildren, NEW w \in Shown!Widths
  PROVE  Shown!CachedLines(ca, c, tr[c], w) = Shown!ComputeTranscriptLines(tr[c], w)
<1> DEFINE t == tr[c]
           l == Len(t.entries)
           ours == [i \in 1..l |-> Shown!CachedEntry(ca, c, t.entries[i], w).lines]
           theirs == [i \in 1..l |-> Shown!FormatTranscriptEntry(t.entries[i], w)]
           tail == IF Shown!NoTail(t) THEN <<>> ELSE Shown!CachedTail(ca, c, t, w)
<1>1. t \in Transcripts
  OBVIOUS
<1>2. DOMAIN t.entries = 1..l
  <2>1. t.entries \in Seq(ShownEntries)
    BY <1>1 DEF Transcripts
  <2>2. QED
    BY <2>1, LenProperties
<1>3. \A i \in 1..l : Shown!CachedEntry(ca, c, t.entries[i], w).lines = Shown!FormatTranscriptEntry(t.entries[i], w)
  <2>1. ASSUME NEW i \in 1..l PROVE Shown!CachedEntry(ca, c, t.entries[i], w).lines = Shown!FormatTranscriptEntry(t.entries[i], w)
    <3>1. i \in DOMAIN tr[c].entries
      BY <1>2
    <3> HIDE DEF l, ours, theirs, tail
    <3>2. QED
      BY <3>1, EntryIsFresh
  <2>2. QED
    BY <2>1
<1> HIDE DEF l
<1>4. ours = theirs
  BY <1>3
<1>5. tail = Shown!FormatTail(t, w)
  BY <1>1, NoTailNoLine, TailIsFresh
<1>6. /\ Shown!CachedLines(ca, c, t, w) = Shown!OrPlaceholder(Shown!Notice(t) \o Shown!Concat(ours) \o tail)
      /\ Shown!ComputeTranscriptLines(t, w) = Shown!OrPlaceholder(Shown!Notice(t) \o Shown!Concat(theirs) \o Shown!FormatTail(t, w))
  BY DEF Shown!CachedLines, Shown!ComputeTranscriptLines, l
<1> HIDE DEF ours, theirs, tail, t
<1>7. QED
  BY <1>4, <1>5, <1>6 DEF t

\* What a use of the cache leaves is right.
LEMMA CacheUsed ==
  ASSUME NEW ca, NEW tr \in [ShownChildren -> Transcripts], NEW n \in Nat, CacheHolds(ca, tr, n),
         \A d \in ShownChildren : Ordered(tr[d], n),
         NEW c \in ShownChildren, NEW w \in Shown!Widths
  PROVE  CacheHolds(Shown!CacheAfter(ca, c, tr[c], w), tr, n)
<1> DEFINE t == tr[c]
           after == Shown!CacheAfter(ca, c, t, w)
           new == {Shown!CachedEntry(ca, c, t.entries[i], w) : i \in DOMAIN t.entries}
<1>1. t \in Transcripts
  OBVIOUS
<1>2. /\ after.entries = {x \in ca.entries : x.child # c} \cup new
      /\ after.live = IF Shown!NoTail(t) THEN Shown!NoLive ELSE Shown!LiveKey(c, t, w)
      /\ after.liveLines = IF Shown!NoTail(t) THEN <<>> ELSE Shown!CachedTail(ca, c, t, w)
  BY DEF Shown!CacheAfter
<1>3. ASSUME NEW x \in new
      PROVE  /\ x.id \in Nat /\ x.id <= n
             /\ \A d \in ShownChildren : \A j \in DOMAIN tr[d].entries : (x.child = d /\ x.id = tr[d].entries[j].id)
                  => x.lines = Shown!FormatTranscriptEntry([tr[d].entries[j] EXCEPT !.timed = x.timed], x.width)
  <2>1. PICK i \in DOMAIN t.entries : x = Shown!CachedEntry(ca, c, t.entries[i], w)
    OBVIOUS
  <2> DEFINE e == t.entries[i]
  <2>2. x.child = c /\ x.id = e.id /\ x.width = w /\ x.timed = e.timed /\ x.lines = Shown!FormatTranscriptEntry(e, w)
    BY <2>1, EntryIsFresh
  <2>3. e \in ShownEntries /\ e.id \in Nat /\ e.id <= n
    BY <1>1, EntryIds DEF Ordered
  <2>4. ASSUME NEW j \in DOMAIN t.entries, x.id = t.entries[j].id
        PROVE  t.entries[j] = e
    <3>1. i \in Nat /\ j \in Nat
      <4>1. t.entries \in Seq(ShownEntries)
        BY <1>1 DEF Transcripts
      <4>2. DOMAIN t.entries = 1..Len(t.entries) /\ Len(t.entries) \in Nat
        BY <4>1, LenProperties
      <4>3. QED
        BY <4>2
    <3>2. (i < j => e.id < t.entries[j].id) /\ (j < i => t.entries[j].id < e.id)
      BY DEF Ordered
    <3>3. i = j
      BY <2>2, <2>3, <2>4, <3>1, <3>2
    <3>4. QED
      BY <3>3
  <2> HIDE DEF e
  <2>5. [e EXCEPT !.timed = x.timed] = e
    BY <2>2, <2>3 DEF ShownEntries
  <2> HIDE DEF new
  <2>6. ASSUME NEW d \in ShownChildren, NEW j \in DOMAIN tr[d].entries, x.child = d, x.id = tr[d].entries[j].id
        PROVE  x.lines = Shown!FormatTranscriptEntry([tr[d].entries[j] EXCEPT !.timed = x.timed], x.width)
    <3>1. d = c
      BY <2>2, <2>6
    <3>2. tr[d].entries[j] = e
      BY <3>1, <2>4, <2>6
    <3>3. QED
      BY <3>2, <2>2, <2>5
  <2>7. QED
    BY <2>2, <2>3, <2>6
<1> HIDE DEF new, after
<1>4. ASSUME NEW x \in after.entries PROVE x \in new \/ x \in ca.entries
  BY <1>2
<1>5. ASSUME NEW x \in after.entries PROVE x.id \in Nat /\ x.id <= n
  BY <1>3, <1>4 DEF CacheHolds
<1>6. ASSUME NEW x \in after.entries, NEW d \in ShownChildren, NEW j \in DOMAIN tr[d].entries, x.child = d, x.id = tr[d].entries[j].id
      PROVE  x.lines = Shown!FormatTranscriptEntry([tr[d].entries[j] EXCEPT !.timed = x.timed], x.width)
  BY <1>3, <1>4, <1>6 DEF CacheHolds
<1>7. ASSUME NEW d \in ShownChildren, NEW s \in Transcripts, NEW v \in Shown!Widths, after.live = Shown!LiveKey(d, s, v)
      PROVE  after.liveLines = Shown!FormatTail(s, v)
  <2>1. Shown!LiveKey(d, s, v).child = d /\ Shown!LiveKey(d, s, v).turn = s.turn /\ Shown!LiveKey(d, s, v).tail = s.tail /\ Shown!LiveKey(d, s, v).width = v
    BY DEF Shown!LiveKey
  <2>2. CASE Shown!NoTail(t)
    <3>1. after.live.child = 0
      BY <2>2, <1>2 DEF Shown!NoLive
    <3>2. d # 0
      BY ConsoleAssumption
    <3>3. QED
      BY <3>1, <3>2, <2>1, <1>7
  <2>3. CASE ~Shown!NoTail(t)
    <3>1. after.live = Shown!LiveKey(c, t, w) /\ after.liveLines = Shown!FormatTail(t, w)
      BY <2>3, <1>1, <1>2, TailIsFresh
    <3>2. Shown!LiveKey(c, t, w).turn = t.turn /\ Shown!LiveKey(c, t, w).tail = t.tail /\ Shown!LiveKey(c, t, w).width = w
      BY DEF Shown!LiveKey
    <3>3. s.turn = t.turn /\ s.tail = t.tail /\ v = w
      BY <2>1, <3>1, <3>2, <1>7
    <3>4. QED
      BY <3>1, <3>3 DEF Shown!FormatTail
  <2>4. QED
    BY <2>2, <2>3
<1>8. QED
  BY <1>5, <1>6, <1>7 DEF CacheHolds, after

ShownLines ==
  ({"text"} \X Nat \X Nat \X Shown!Widths) \cup ({"note", "tool", "turn", "text"} \X Nat \X BOOLEAN)
    \cup {<<"evicted">>, <<"empty">>}

LEMMA WrappedTwice ==
  ASSUME NEW n \in Nat, NEW w
  PROVE  Shown!Wrapped(n, w) \in Nat /\ Shown!Wrapped(n, w) <= 2 * n
BY DEF Shown!Wrapped

LEMMA TextTakes ==
  ASSUME NEW turn \in Nat, NEW from \in Nat, NEW size \in Nat, NEW w \in Shown!Widths
  PROVE  /\ Shown!FormatText(turn, from, size, w) \in Seq(ShownLines)
         /\ Len(Shown!FormatText(turn, from, size, w)) <= 2 * size
<1> DEFINE n == Shown!Wrapped(size, w)
           b == Shown!Wrapped(from, w)
           ls == [k \in 1..n |-> <<"text", turn, b + k, w>>]
<1>1. n \in Nat /\ n <= 2 * size /\ b \in Nat
  BY WrappedTwice
<1>2. Shown!FormatText(turn, from, size, w) = ls
  BY DEF Shown!FormatText
<1> HIDE DEF n, b
<1>3. \A k \in 1..n : <<"text", turn, b + k, w>> \in ShownLines
  BY <1>1 DEF ShownLines
<1>4. ls \in Seq(ShownLines) /\ Len(ls) = n
  BY <1>1, <1>3
<1>5. QED
  BY <1>1, <1>2, <1>4

LEMMA EntryTakes ==
  ASSUME NEW e \in ShownEntries, NEW w \in Shown!Widths
  PROVE  /\ Shown!FormatTranscriptEntry(e, w) \in Seq(ShownLines)
         /\ Len(Shown!FormatTranscriptEntry(e, w)) <= 2 * Shown!EntryBytes(e)
<1>1. e.id \in Nat /\ e.kind \in {"note", "tool", "turn", "text"} /\ e.turn \in Nat /\ e.size \in Nat /\ e.timed \in BOOLEAN
  BY DEF ShownEntries
<1>2. CASE e.kind = "text"
  <2>1. Shown!FormatTranscriptEntry(e, w) = Shown!FormatText(e.turn, 0, e.size, w) /\ Shown!EntryBytes(e) = e.size
    BY <1>2 DEF Shown!FormatTranscriptEntry, Shown!EntryBytes
  <2>2. QED
    BY <1>1, <2>1, TextTakes
<1>3. CASE e.kind # "text"
  <2> DEFINE line == <<e.kind, e.id, e.timed>>
  <2>1. Shown!FormatTranscriptEntry(e, w) = <<line>> /\ Shown!EntryBytes(e) = 1
    BY <1>3 DEF Shown!FormatTranscriptEntry, Shown!EntryBytes
  <2>2. line \in ShownLines
    BY <1>1 DEF ShownLines
  <2> HIDE DEF line
  <2>3. QED
    BY <2>1, <2>2
<1>4. QED
  BY <1>2, <1>3

\* The lines of a transcript that is within its limits.
LEMMA LinesTake ==
  ASSUME NEW t \in Transcripts, Fits(t), NEW w \in Shown!Widths
  PROVE  /\ Shown!ComputeTranscriptLines(t, w) \in Seq(ShownLines)
         /\ Len(Shown!ComputeTranscriptLines(t, w)) \in 1..(2 * MaxBytes + 2)
<1> DEFINE n == Len(t.entries)
           parts == [i \in 1..n |-> Shown!FormatTranscriptEntry(t.entries[i], w)]
           middle == Shown!Concat(parts)
           tail == Shown!FormatTail(t, w)
           notice == Shown!Notice(t)
           bytes == Shown!Sums(ByteList(t))[n]
           size == t.tail.size
<1>1. t.entries \in Seq(ShownEntries) /\ t.turn \in Nat /\ t.tail.from \in Nat /\ size \in 0..MaxTail /\ t.evicted \in BOOLEAN
  BY DEF Transcripts, ShownTails
<1>2. /\ n \in Nat /\ Len(ByteList(t)) = n /\ bytes \in Nat /\ Shown!TotalBytes(t) = bytes + size
      /\ \A i \in 1..n : ByteList(t)[i] = Shown!EntryBytes(t.entries[i]) /\ ByteList(t)[i] \in Nat
  BY <1>1, BytesAreNatural
<1>3. MaxBytes \in Nat /\ MaxTail \in Nat /\ MaxTail <= MaxBytes /\ size \in Nat /\ size <= MaxBytes
  <2>1. MaxBytes \in Nat /\ MaxTail \in 0..MaxBytes
    BY ConsoleAssumption
  <2> HIDE DEF size
  <2>2. QED
    BY <2>1, <1>1
<1>4. \A i \in 1..n : parts[i] \in Seq(ShownLines) /\ Len(parts[i]) <= 2 * ByteList(t)[i]
  <2>1. ASSUME NEW i \in 1..n PROVE parts[i] \in Seq(ShownLines) /\ Len(parts[i]) <= 2 * ByteList(t)[i]
    <3>1. t.entries[i] \in ShownEntries
      BY <1>1, <1>2, ElementOfSeq
    <3>2. parts[i] = Shown!FormatTranscriptEntry(t.entries[i], w)
      OBVIOUS
    <3> HIDE DEF parts, n
    <3>3. QED
      BY <1>2, <3>1, <3>2, EntryTakes
  <2>2. QED
    BY <2>1
<1>5. Len(parts) = n
  <2>1. DOMAIN parts = 1..n
    OBVIOUS
  <2> HIDE DEF parts, n
  <2>2. QED
    BY <2>1, <1>2, ListsHaveLength
<1> HIDE DEF parts
<1>6. middle \in Seq(ShownLines) /\ Len(middle) <= 2 * bytes /\ (n = 0 => middle = <<>>)
  <2> HIDE DEF n
  <2>1. QED
    BY <1>2, <1>4, <1>5, ConcatFits
<1>7. tail \in Seq(ShownLines) /\ Len(tail) <= 2 * size
  BY <1>1, <1>3, TextTakes DEF Shown!FormatTail
<1>8. notice \in Seq(ShownLines) /\ Len(notice) <= 1
  <2>1. <<"evicted">> \in ShownLines
    BY DEF ShownLines
  <2>2. \A x \in ShownLines : <<x>> \in Seq(ShownLines) /\ Len(<<x>>) = 1
    OBVIOUS
  <2>3. <<>> \in Seq(ShownLines) /\ Len(<<>>) = 0
    OBVIOUS
  <2>4. QED
    BY <2>1, <2>2, <2>3 DEF Shown!Notice
<1>9. Shown!ComputeTranscriptLines(t, w) = Shown!OrPlaceholder(notice \o middle \o tail)
  BY DEF Shown!ComputeTranscriptLines, parts, n
<1>10. n # 0 => bytes + size <= MaxBytes
  <2>1. CASE t.entries = <<>>
    BY <2>1
  <2>2. CASE ~Shown!Over(t)
    <3>1. ~(bytes + size > MaxBytes)
      BY <2>2, <1>2 DEF Shown!Over
    <3> HIDE DEF bytes, size
    <3>2. QED
      BY <3>1, <1>2, <1>3
  <2>3. QED
    BY <2>1, <2>2 DEF Fits
<1> HIDE DEF n, middle, tail, notice, bytes, size
<1> DEFINE all == notice \o middle \o tail
<1>11. all \in Seq(ShownLines) /\ Len(all) = Len(notice) + Len(middle) + Len(tail)
  <2>1. notice \o middle \in Seq(ShownLines) /\ Len(notice \o middle) = Len(notice) + Len(middle)
    BY <1>6, <1>8, ConcatProperties
  <2>2. QED
    BY <2>1, <1>7, ConcatProperties
<1>12. Len(notice) \in Nat /\ Len(middle) \in Nat /\ Len(tail) \in Nat
  BY <1>6, <1>7, <1>8, LenProperties
<1>13. Len(all) \in Nat /\ Len(all) <= 2 * MaxBytes + 1
  <2>1. CASE n = 0
    <3>1. Len(middle) = 0
      BY <2>1, <1>6
    <3>2. QED
      BY <3>1, <1>3, <1>7, <1>8, <1>11, <1>12
  <2>2. CASE n # 0
    <3>1. bytes + size <= MaxBytes
      BY <2>2, <1>10
    <3>2. QED
      BY <3>1, <1>2, <1>3, <1>6, <1>7, <1>8, <1>11, <1>12
  <2>3. QED
    BY <2>1, <2>2
<1> HIDE DEF all
<1>14. CASE all = <<>>
  <2> DEFINE line == <<"empty">>
  <2>1. Shown!ComputeTranscriptLines(t, w) = <<line>>
    BY <1>9, <1>14 DEF Shown!OrPlaceholder, all
  <2>2. line \in ShownLines
    BY DEF ShownLines
  <2> HIDE DEF line
  <2>3. <<line>> \in Seq(ShownLines) /\ Len(<<line>>) = 1
    BY <2>2
  <2>4. QED
    BY <2>1, <2>3, <1>3
<1>15. CASE all # <<>>
  <2>1. Shown!ComputeTranscriptLines(t, w) = all
    BY <1>9, <1>15 DEF Shown!OrPlaceholder, all
  <2>2. Len(all) # 0
    BY <1>11, <1>15, EmptySeq
  <2>3. Len(all) \in 1..(2 * MaxBytes + 2)
    BY <2>2, <1>3, <1>13
  <2>4. QED
    BY <2>1, <2>3, <1>11
<1>16. QED
  BY <1>14, <1>15

Scrolls == [offset : Shown!Offsets, follow : BOOLEAN, set : BOOLEAN]
Views == [selected : ShownChildren, scroll : [ShownChildren -> Scrolls], counts : [ShownChildren -> Nat],
          width : Shown!Widths, height : Nat]

\* A view whose viewports follow until a key moved them.
Scrolling(v) == v \in Views /\ \A c \in ShownChildren : v.scroll[c].follow \/ v.scroll[c].set

\* Transcripts that are within their limits, and a cache that is right for them.
Laid(ca, tr, n) ==
  /\ tr \in [ShownChildren -> Transcripts] /\ n \in Nat
  /\ \A c \in ShownChildren : Ordered(tr[c], n) /\ Fits(tr[c])
  /\ CacheHolds(ca, tr, n)

LineCount(tr, c, v) == Len(Shown!ComputeTranscriptLines(tr[c], v.width))

\* The first line that was last shown of a child is the first line of its window still.
Stays(v, tr, sn, term, c) ==
  sn[c] # 0 =>
    /\ v.scroll[c].set /\ ~v.scroll[c].follow
    /\ v.width = term.width /\ v.height = term.height
    /\ v.counts[c] \in 1..LineCount(tr, c, v)
    /\ sn[c] = Shown!WindowStart(v.counts[c], v.scroll[c], Shown!BodyHeight(v.height)) + 1

LEMMA BodyIsNatural ==
  ASSUME NEW h \in Nat
  PROVE  Shown!BodyHeight(h) \in Nat
BY DEF Shown!BodyHeight, Shown!Most, Shown!Less

LEMMA CountsAreOffsets ==
  ASSUME NEW ca, NEW tr, NEW n, Laid(ca, tr, n), NEW c \in ShownChildren, NEW v \in Views
  PROVE  /\ LineCount(tr, c, v) \in Nat \ {0} /\ LineCount(tr, c, v) <= 2 * MaxBytes + 2
         /\ \A i \in Nat : i <= LineCount(tr, c, v) => i \in Shown!Offsets
<1>1. tr[c] \in Transcripts /\ Fits(tr[c]) /\ v.width \in Shown!Widths
  BY DEF Laid, Views
<1> DEFINE l == LineCount(tr, c, v)
<1>2. l \in 1..(2 * MaxBytes + 2)
  BY <1>1, LinesTake DEF LineCount
<1> HIDE DEF l
<1>3. l \in Nat \ {0} /\ l <= 2 * MaxBytes + 2 /\ \A i \in Nat : i <= l => i \in Shown!Offsets
  BY <1>2, ConsoleAssumption DEF Shown!Offsets
<1>4. QED
  BY <1>3 DEF l

\* What a new length of child c's transcript makes of the view.
LEMMA AnchoredView ==
  ASSUME NEW ca, ca = shownCache, NEW tr, NEW n, Laid(ca, tr, n), NEW v, Scrolling(v), NEW c \in ShownChildren
  PROVE  LET a == Shown!AnchorScrolledViewport(v, tr, c) IN
         /\ Scrolling(a) /\ a.selected = v.selected /\ a.width = v.width /\ a.height = v.height
         /\ \A d \in ShownChildren \ {c} : a.scroll[d] = v.scroll[d] /\ a.counts[d] = v.counts[d]
         /\ a.scroll[c].set = v.scroll[c].set /\ a.scroll[c].follow = v.scroll[c].follow
         /\ v.scroll[c].set => a.counts[c] = LineCount(tr, c, v)
         /\ (v.scroll[c].set /\ ~v.scroll[c].follow /\ v.counts[c] \in 1..LineCount(tr, c, v))
              => Shown!WindowStart(a.counts[c], a.scroll[c], Shown!BodyHeight(v.height))
                   = Shown!WindowStart(v.counts[c], v.scroll[c], Shown!BodyHeight(v.height))
<1> DEFINE next == LineCount(tr, c, v)
           known == v.counts[c]
           grown == IF known = 0 THEN 0 ELSE Shown!Less(next, known)
           old == v.scroll[c]
           body == Shown!BodyHeight(v.height)
           offset == IF old.follow \/ grown = 0 THEN old.offset
                     ELSE Shown!Least(Shown!Less(next, body), old.offset + grown)
           moved == [v EXCEPT !.counts[c] = next, !.scroll[c].offset = offset]
           a == Shown!AnchorScrolledViewport(v, tr, c)
<1>1. v \in Views /\ \A d \in ShownChildren : v.scroll[d].follow \/ v.scroll[d].set
  BY DEF Scrolling
<1>2. /\ v.scroll \in [ShownChildren -> Scrolls] /\ v.counts \in [ShownChildren -> Nat] /\ v.width \in Shown!Widths
      /\ v.height \in Nat /\ v.selected \in ShownChildren /\ old \in Scrolls /\ known \in Nat
  BY <1>1 DEF Views
<1>3. Len(Shown!Lines(v, tr, c)) = next
  BY <1>2, CacheShows DEF Shown!Lines, Laid, LineCount
<1>4. a = IF ~old.set THEN v ELSE moved
  BY <1>3 DEF Shown!AnchorScrolledViewport
<1>5. next \in Nat \ {0} /\ \A i \in Nat : i <= next => i \in Shown!Offsets
  BY <1>1, CountsAreOffsets
<1>6. body \in Nat
  BY <1>2, BodyIsNatural
<1>7. old.offset \in Shown!Offsets /\ old.offset \in Nat /\ old.follow \in BOOLEAN /\ old.set \in BOOLEAN
  BY <1>2 DEF Scrolls, Shown!Offsets
<1> HIDE DEF next, body, known, a
<1>8. grown \in Nat
  BY <1>2, <1>5 DEF Shown!Less
<1>9. offset \in Shown!Offsets
  <2>1. CASE old.follow \/ grown = 0
    BY <2>1, <1>7
  <2>2. CASE ~(old.follow \/ grown = 0)
    <3> HIDE DEF grown
    <3> DEFINE low == Shown!Less(next, body)
               far == old.offset + grown
    <3>1. low \in Nat /\ low <= next
      BY <1>5, <1>6 DEF Shown!Less
    <3>2. far \in Nat
      BY <1>7, <1>8
    <3> HIDE DEF low, far
    <3>3. Shown!Least(low, far) \in Nat /\ Shown!Least(low, far) <= next
      BY <3>1, <3>2, <1>5 DEF Shown!Least
    <3>4. offset = Shown!Least(low, far)
      BY <2>2 DEF low, far
    <3>5. QED
      BY <3>3, <3>4, <1>5
  <2>3. QED
    BY <2>1, <2>2
<1> HIDE DEF offset
<1>10. CASE ~old.set
  <2>1. a = v
    BY <1>4, <1>10
  <2>2. QED
    BY <2>1, <1>1, <1>10 DEF Scrolling, a, old
<1>11. CASE old.set
  <2>1. a = moved
    BY <1>4, <1>11
  <2> DEFINE new == [old EXCEPT !.offset = offset]
  <2>2. new \in Scrolls /\ new.offset = offset /\ new.set = old.set /\ new.follow = old.follow
    BY <1>2, <1>9 DEF Scrolls
  <2> DEFINE counts == [v.counts EXCEPT ![c] = next]
             scroll == [v.scroll EXCEPT ![c] = new]
  <2>3. counts \in [ShownChildren -> Nat] /\ counts[c] = next /\ \A d \in ShownChildren \ {c} : counts[d] = v.counts[d]
    BY <1>2, <1>5
  <2>4. moved = [v EXCEPT !.counts = counts, !.scroll = scroll]
    OBVIOUS
  <2> HIDE DEF new, moved
  <2>5. scroll \in [ShownChildren -> Scrolls] /\ scroll[c] = new /\ \A d \in ShownChildren \ {c} : scroll[d] = v.scroll[d]
    BY <1>2, <2>2
  <2> HIDE DEF counts, scroll
  <2>6. a \in Views /\ a.counts = counts /\ a.scroll = scroll /\ a.selected = v.selected /\ a.width = v.width /\ a.height = v.height
    BY <1>1, <2>1, <2>3, <2>4, <2>5 DEF Views
  <2>7. \A d \in ShownChildren : a.scroll[d].follow \/ a.scroll[d].set
    BY <1>1, <2>2, <2>5, <2>6, <1>11
  <2>8. ASSUME ~old.follow, known \in 1..next
        PROVE  Shown!WindowStart(next, new, body) = Shown!WindowStart(known, old, body)
    <3>1. known # 0 /\ known <= next
      BY <2>8, <1>2, <1>5
    <3>2. grown = Shown!Less(next, known)
      BY <3>1 DEF grown
    <3>3. new.offset = IF Shown!Less(next, known) = 0 THEN old.offset
                       ELSE Shown!Least(Shown!Less(next, body), old.offset + Shown!Less(next, known))
      BY <3>2, <2>2, <2>8 DEF offset
    <3>4. old.follow = FALSE /\ new.follow = FALSE
      BY <1>7, <2>2, <2>8
    <3>5. next \in Nat /\ known \in Nat /\ known <= next /\ body \in Nat /\ old.offset \in Nat
      BY <3>1, <1>2, <1>5, <1>6, <1>7
    <3> DEFINE far == old.offset
    <3>6. old.offset = far /\ far \in Nat
      BY <3>5
    <3>7. new.offset = IF Shown!Less(next, known) = 0 THEN far
                       ELSE Shown!Least(Shown!Less(next, body), far + Shown!Less(next, known))
      BY <3>3
    <3> HIDE DEF old, far
    <3>8. QED
      <4> HIDE DEF new
      <4>1. Shown!WindowStart(next, new, body) = Shown!Less(Shown!Less(next, body), Shown!Least(new.offset, Shown!Less(next, body)))
        BY <3>4 DEF Shown!WindowStart
      <4>2. Shown!WindowStart(known, old, body) = Shown!Less(Shown!Less(known, body), Shown!Least(far, Shown!Less(known, body)))
        BY <3>4, <3>6 DEF Shown!WindowStart
      <4> DEFINE start == Shown!WindowStart(next, new, body)
                 before == Shown!WindowStart(known, old, body)
                 to == new.offset
      <4>3. /\ start = Shown!Less(Shown!Less(next, body), Shown!Least(to, Shown!Less(next, body)))
            /\ before = Shown!Less(Shown!Less(known, body), Shown!Least(far, Shown!Less(known, body)))
            /\ to = IF Shown!Less(next, known) = 0 THEN far
                    ELSE Shown!Least(Shown!Less(next, body), far + Shown!Less(next, known))
        BY <3>7, <4>1, <4>2
      <4> HIDE DEF start, before, to
      <4>4. start = before
        BY <3>5, <3>6, <4>3 DEF Shown!Less, Shown!Least
      <4>5. QED
        BY <4>4 DEF start, before
  <2>9. Scrolling(a)
    BY <2>6, <2>7 DEF Scrolling
  <2>10. QED
    BY <2>2, <2>3, <2>5, <2>6, <2>8, <2>9 DEF a, next, known, body, old
<1>12. QED
  BY <1>7, <1>10, <1>11

\* What the console keeps of the transcripts, and what it still has to show.
ShowInv ==
  /\ TellsInv
  /\ CacheHolds(shownCache, transcript, 2 * events)
  /\ Scrolling(view)
  /\ timer \in BOOLEAN /\ shownOpen \in BOOLEAN /\ dirty \in BOOLEAN
  /\ terminal \in [width : Shown!Widths, height : Nat]
  /\ seen \in [ShownChildren -> Nat]
  /\ Shown!NothingIsForgotten

\* Where the viewports that were rendered are.
StayInv ==
  /\ \A c \in ShownChildren : Stays(view, transcript, seen, terminal, c) /\ (seen[c] # 0 => shownOpen)
  /\ (~timer /\ seen[view.selected] # 0) => view.counts[view.selected] = LineCount(transcript, view.selected, view)

LEMMA ShownIsLaid ==
  ASSUME ShowInv
  PROVE  Laid(shownCache, transcript, 2 * events)
<1>1. events \in Nat /\ 2 * events \in Nat
  BY DEF ShowInv, TellsInv
<1>2. QED
  BY <1>1 DEF ShowInv, TellsInv, Laid

\* Anchoring child c leaves every viewport where it was, and measures that of c.
LEMMA AnchoringStays ==
  ASSUME NEW ca, ca = shownCache, NEW tr, NEW n, Laid(ca, tr, n), NEW v, Scrolling(v), NEW c \in ShownChildren,
         NEW sn, NEW term, \A d \in ShownChildren : Stays(v, tr, sn, term, d)
  PROVE  LET a == Shown!AnchorScrolledViewport(v, tr, c) IN
         /\ \A d \in ShownChildren : Stays(a, tr, sn, term, d)
         /\ sn[c] # 0 => a.counts[c] = LineCount(tr, c, a)
<1> DEFINE a == Shown!AnchorScrolledViewport(v, tr, c)
<1>1. /\ Scrolling(a) /\ a.selected = v.selected /\ a.width = v.width /\ a.height = v.height
      /\ \A d \in ShownChildren \ {c} : a.scroll[d] = v.scroll[d] /\ a.counts[d] = v.counts[d]
      /\ a.scroll[c].set = v.scroll[c].set /\ a.scroll[c].follow = v.scroll[c].follow
      /\ v.scroll[c].set => a.counts[c] = LineCount(tr, c, v)
      /\ (v.scroll[c].set /\ ~v.scroll[c].follow /\ v.counts[c] \in 1..LineCount(tr, c, v))
           => Shown!WindowStart(a.counts[c], a.scroll[c], Shown!BodyHeight(v.height))
                = Shown!WindowStart(v.counts[c], v.scroll[c], Shown!BodyHeight(v.height))
  BY AnchoredView
<1> HIDE DEF a
<1>2. \A d \in ShownChildren : LineCount(tr, d, a) = LineCount(tr, d, v)
  BY <1>1 DEF LineCount
<1>3. LineCount(tr, c, v) \in 1..LineCount(tr, c, v)
  <2>1. v \in Views
    BY DEF Scrolling
  <2>2. LineCount(tr, c, v) \in Nat \ {0}
    BY <2>1, CountsAreOffsets
  <2>3. QED
    BY <2>2
<1>4. ASSUME NEW d \in ShownChildren PROVE Stays(a, tr, sn, term, d)
  <2>1. CASE d # c
    BY <2>1, <1>1, <1>2 DEF Stays
  <2>2. CASE d = c
    BY <2>2, <1>1, <1>2, <1>3 DEF Stays
  <2>3. QED
    BY <2>1, <2>2
<1>5. sn[c] # 0 => a.counts[c] = LineCount(tr, c, a)
  BY <1>1, <1>2 DEF Stays
<1>6. QED
  BY <1>4, <1>5 DEF a

\* A report keeps the first line of a viewport, or the first line is not that one any more.
LEMMA ReportStays ==
  ASSUME ShowInv, StayInv, NEW c \in ShownChildren, NEW u, Reports(c, u)
  PROVE  /\ seen' \in [ShownChildren -> Nat]
         /\ \A d \in ShownChildren : Stays(view, transcript', seen', terminal, d) /\ (seen'[d] # 0 => seen'[d] = seen[d])
<1> DEFINE old(d) == Shown!ComputeTranscriptLines(transcript[d], view.width)
           new(d) == Shown!ComputeTranscriptLines(transcript'[d], view.width)
           changed(d) == Len(new(d)) < Len(old(d)) \/ \E i \in 1..Shown!Least(seen[d], Len(old(d))) : new(d)[i] # old(d)[i]
<1>1. seen' = [d \in ShownChildren |-> IF changed(d) THEN 0 ELSE seen[d]] /\ seen \in [ShownChildren -> Nat]
  BY DEF Reports, Shown!Report, Shown!StillSeen, ShowInv
<1>2. \A d \in ShownChildren : ~(Len(new(d)) < Len(old(d))) \/ changed(d)
  OBVIOUS
<1> HIDE DEF changed
<1>3. \A d \in ShownChildren : seen'[d] = IF changed(d) THEN 0 ELSE seen[d]
  BY <1>1
<1>4. seen' \in [ShownChildren -> Nat]
  BY <1>1
<1>5. \A d \in ShownChildren : Len(old(d)) = LineCount(transcript, d, view) /\ Len(new(d)) = LineCount(transcript', d, view)
  BY DEF LineCount
<1>6. TellsInv' /\ view \in Views
  BY ReportTells DEF ShowInv, Scrolling
<1>7. ASSUME NEW d \in ShownChildren, seen'[d] # 0 PROVE Stays(view, transcript', seen', terminal, d) /\ seen'[d] = seen[d]
  <2>1. seen'[d] = seen[d] /\ ~(Len(new(d)) < Len(old(d)))
    BY <1>2, <1>3, <1>7
  <2>2. ~(LineCount(transcript', d, view) < LineCount(transcript, d, view))
    BY <2>1, <1>5
  <2>3. LineCount(transcript, d, view) \in Nat
    BY <1>6, ShownIsLaid, CountsAreOffsets
  <2>4. LineCount(transcript', d, view) \in Nat
    <3>1. transcript'[d] \in Transcripts /\ Fits(transcript'[d]) /\ view.width \in Shown!Widths
      BY <1>6 DEF TellsInv, Views
    <3> DEFINE l == LineCount(transcript', d, view)
    <3>2. l \in 1..(2 * MaxBytes + 2)
      BY <3>1, LinesTake DEF LineCount
    <3> HIDE DEF l
    <3>3. l \in Nat
      BY <3>2, ConsoleAssumption
    <3>4. QED
      BY <3>3 DEF l
  <2>5. Stays(view, transcript, seen, terminal, d)
    BY DEF StayInv
  <2>6. view.counts[d] \in 1..LineCount(transcript, d, view) => view.counts[d] \in 1..LineCount(transcript', d, view)
    BY <2>2, <2>3, <2>4
  <2>7. QED
    BY <2>1, <2>5, <2>6, <1>7 DEF Stays
<1>8. ASSUME NEW d \in ShownChildren, seen'[d] = 0 PROVE Stays(view, transcript', seen', terminal, d)
  BY <1>8 DEF Stays
<1>9. QED
  BY <1>4, <1>7, <1>8

\* What a report makes of a child is what the cache still is right for.
LEMMA ReportIsLaid ==
  ASSUME ShowInv, NEW c \in ShownChildren, NEW u, Reports(c, u)
  PROVE  TellsInv' /\ Laid(shownCache, transcript', 2 * events')
<1>1. TellsInv' /\ transcript' = [transcript EXCEPT ![c] = u]
  BY ReportTells DEF ShowInv
<1>2. /\ transcript \in [ShownChildren -> Transcripts] /\ events \in Nat /\ CacheHolds(shownCache, transcript, 2 * events)
  BY DEF ShowInv, TellsInv
<1>3. events' = events + 1 /\ u \in Transcripts /\ Grows(transcript[c], u, 2 * events)
  BY DEF Reports, Reported, Shown!Report
<1>4. 2 * events \in Nat /\ 2 * events' \in Nat /\ 2 * events <= 2 * events'
  BY <1>2, <1>3
<1>5. CacheHolds(shownCache, transcript', 2 * events')
  BY <1>1, <1>2, <1>3, <1>4, CacheOutlivesReport
<1>6. QED
  BY <1>1, <1>4, <1>5 DEF TellsInv, Laid

\* The listener of the store.
LEMMA EmitShows ==
  ASSUME ShowInv, StayInv, NEW tr, tr = transcript', Shown!Emit(tr), TellsInv', Laid(shownCache, tr, 2 * events'),
         \A d \in ShownChildren : Stays(view, tr, seen', terminal', d) /\ (seen'[d] # 0 => seen[d] # 0),
         UNCHANGED <<shownOpen, terminal>>, seen' \in [ShownChildren -> Nat], timer' \in BOOLEAN
  PROVE  ShowInv' /\ StayInv'
<1> DEFINE c == view.selected
           a == Shown!AnchorScrolledViewport(view, tr, c)
<1>1. Scrolling(view) /\ c \in ShownChildren /\ view.width \in Shown!Widths /\ shownOpen \in BOOLEAN /\ dirty \in BOOLEAN
  BY DEF ShowInv, Scrolling, Views
<1>2. terminal' \in [width : Shown!Widths, height : Nat] /\ shownOpen' \in BOOLEAN
  BY DEF ShowInv
<1>3. CASE shownOpen
  <2>1. /\ view' = a /\ dirty' = TRUE
        /\ shownCache' = IF view.scroll[c].set THEN Shown!CacheAfter(shownCache, c, tr[c], view.width) ELSE shownCache
    BY <1>3 DEF Shown!Emit
  <2>2. Scrolling(a) /\ a.selected = c
    BY <1>1, AnchoredView
  <2>3. (\A d \in ShownChildren : Stays(a, tr, seen', terminal', d)) /\ (seen'[c] # 0 => a.counts[c] = LineCount(tr, c, a))
    BY <1>1, AnchoringStays
  <2> HIDE DEF a
  <2>4. CacheHolds(shownCache', tr, 2 * events')
    <3>1. /\ tr \in [ShownChildren -> Transcripts] /\ 2 * events' \in Nat /\ CacheHolds(shownCache, tr, 2 * events')
          /\ \A d \in ShownChildren : Ordered(tr[d], 2 * events')
      BY DEF Laid
    <3> HIDE DEF c
    <3>2. CacheHolds(Shown!CacheAfter(shownCache, c, tr[c], view.width), tr, 2 * events')
      BY <3>1, <1>1, CacheUsed
    <3>3. QED
      BY <3>1, <3>2, <2>1
  <2>5. Shown!NothingIsForgotten'
    BY <2>1 DEF Shown!NothingIsForgotten
  <2>6. ShowInv'
    BY <1>2, <2>1, <2>2, <2>4, <2>5 DEF ShowInv
  <2>7. StayInv'
    BY <1>3, <2>1, <2>2, <2>3 DEF StayInv
  <2>8. QED
    BY <2>6, <2>7
<1>4. CASE ~shownOpen
  <2>1. UNCHANGED <<view, shownCache, dirty>> /\ ~shownOpen'
    BY <1>4 DEF Shown!Emit
  <2>2. \A d \in ShownChildren : seen[d] = 0 /\ seen'[d] = 0
    BY <1>4 DEF StayInv, ShowInv
  <2>3. CacheHolds(shownCache', transcript', 2 * events')
    BY <2>1 DEF Laid
  <2>4. Shown!NothingIsForgotten'
    BY <2>1 DEF Shown!NothingIsForgotten
  <2>5. ShowInv'
    BY <1>1, <1>2, <2>1, <2>3, <2>4 DEF ShowInv
  <2>6. StayInv'
    BY <1>1, <2>1, <2>2 DEF StayInv
  <2>7. QED
    BY <2>5, <2>6
<1>5. QED
  BY <1>1, <1>3, <1>4

LEMMA ReportShows ==
  ASSUME ShowInv, StayInv, NEW c \in ShownChildren, NEW u, Reports(c, u), Shown!FlushAndEmit
  PROVE  ShowInv' /\ StayInv'
<1>1. TellsInv' /\ Laid(shownCache, transcript', 2 * events')
  BY ReportIsLaid
<1>2. UNCHANGED <<shownOpen, terminal>>
  BY DEF Reports, Shown!Report
<1>3. timer' = FALSE /\ Shown!Emit(transcript')
  BY DEF Shown!FlushAndEmit
<1>4. /\ seen' \in [ShownChildren -> Nat]
      /\ \A d \in ShownChildren : Stays(view, transcript', seen', terminal', d) /\ (seen'[d] # 0 => seen[d] # 0)
  BY <1>2, ReportStays
<1>5. timer' \in BOOLEAN
  BY <1>3
<1>6. QED
  BY <1>1, <1>2, <1>3, <1>4, <1>5, EmitShows

LEMMA TextShows ==
  ASSUME ShowInv, StayInv, NEW c \in ShownChildren, Shown!TextDelta(c)
  PROVE  ShowInv' /\ StayInv'
<1>1. PICK u : Reports(c, u)
  BY TextReports DEF ShowInv
<1>2. TellsInv' /\ Laid(shownCache, transcript', 2 * events')
  BY <1>1, ReportIsLaid
<1>3. UNCHANGED <<shownOpen, terminal>>
  BY <1>1 DEF Reports, Shown!Report
<1>4. timer' = (timer \/ shownOpen) /\ UNCHANGED <<view, shownCache, dirty>>
  BY DEF Shown!TextDelta
<1>5. /\ seen' \in [ShownChildren -> Nat]
      /\ \A d \in ShownChildren : Stays(view, transcript', seen', terminal, d) /\ (seen'[d] # 0 => seen'[d] = seen[d])
  BY <1>1, ReportStays
<1>6. timer \in BOOLEAN /\ shownOpen \in BOOLEAN /\ timer' \in BOOLEAN /\ (shownOpen' => timer')
  <2>1. timer \in BOOLEAN /\ shownOpen \in BOOLEAN
    BY DEF ShowInv
  <2>2. QED
    BY <2>1, <1>3, <1>4
<1>7. Shown!NothingIsForgotten'
  BY <1>6 DEF Shown!NothingIsForgotten
<1>8. Scrolling(view') /\ dirty' \in BOOLEAN /\ terminal' \in [width : Shown!Widths, height : Nat] /\ shownOpen' \in BOOLEAN
  BY <1>3, <1>4 DEF ShowInv
<1>9. ShowInv'
  BY <1>2, <1>4, <1>5, <1>6, <1>7, <1>8 DEF ShowInv, Laid
<1>10. \A d \in ShownChildren : seen'[d] # 0 => shownOpen'
  BY <1>3, <1>5 DEF StayInv
<1>11. view'.selected \in ShownChildren
  BY <1>8 DEF Scrolling, Views
<1>12. StayInv'
  BY <1>3, <1>4, <1>5, <1>6, <1>10, <1>11 DEF StayInv
<1>13. QED
  BY <1>9, <1>12

LEMMA TimerShows ==
  ASSUME ShowInv, StayInv, Shown!TimerFires
  PROVE  ShowInv' /\ StayInv'
<1>1. /\ timer' = FALSE /\ Shown!Emit(transcript)
      /\ transcript' = transcript /\ UNCHANGED <<shownOpen, terminal>> /\ seen' = seen /\ events' = events
  BY DEF Shown!TimerFires
<1>2. TellsInv' /\ Laid(shownCache, transcript, 2 * events')
  <2>1. Laid(shownCache, transcript, 2 * events)
    BY ShownIsLaid
  <2>2. TellsInv'
    BY <1>1 DEF ShowInv, TellsInv
  <2>3. QED
    BY <2>1, <2>2, <1>1
<1>3. seen' \in [ShownChildren -> Nat] /\ \A d \in ShownChildren : Stays(view, transcript, seen', terminal', d)
  BY <1>1 DEF ShowInv, StayInv
<1>4. timer' \in BOOLEAN
  BY <1>1
<1>5. QED
  BY <1>1, <1>2, <1>3, <1>4, EmitShows

LEMMA StoreShows ==
  ASSUME ShowInv, StayInv, Shown!Store
  PROVE  ShowInv' /\ StayInv'
<1>1. Talkers \subseteq ShownChildren
  BY ConsoleAssumption
<1>2. CASE Shown!TimerFires
  BY <1>2, TimerShows
<1>3. ASSUME NEW c \in Talkers, Shown!Note(c) \/ Shown!ToolStart(c) PROVE ShowInv' /\ StayInv'
  BY <1>1, <1>3, NoteReports, ReportShows DEF ShowInv
<1>4. ASSUME NEW c \in Talkers, Shown!ToolEnd(c) PROVE ShowInv' /\ StayInv'
  BY <1>1, <1>4, ToolEndReports, ReportShows DEF ShowInv
<1>5. ASSUME NEW c \in Talkers, Shown!TextDelta(c) PROVE ShowInv' /\ StayInv'
  BY <1>1, <1>5, TextShows
<1>6. ASSUME NEW c \in Talkers, Shown!TurnEnd(c) PROVE ShowInv' /\ StayInv'
  BY <1>1, <1>6, TurnReports, ReportShows DEF ShowInv
<1>7. QED
  BY <1>2, <1>3, <1>4, <1>5, <1>6 DEF Shown!Store

\* A view that nobody has scrolled.
LEMMA FreshViewScrolls ==
  Scrolling(Shown!FreshView)
<1> DEFINE v == Shown!FreshView
<1>1. v = [selected |-> 1, scroll |-> [c \in ShownChildren |-> Shown!NoScroll], counts |-> [c \in ShownChildren |-> 0], width |-> "narrow", height |-> 24]
  BY DEF Shown!FreshView
<1>2. Shown!NoScroll \in Scrolls /\ Shown!NoScroll.follow = TRUE
  BY ConsoleAssumption DEF Shown!NoScroll, Scrolls, Shown!Offsets
<1>3. 1 \in ShownChildren
  BY ConsoleAssumption
<1>4. [c \in ShownChildren |-> Shown!NoScroll] \in [ShownChildren -> Scrolls] /\ [c \in ShownChildren |-> 0] \in [ShownChildren -> Nat]
  BY <1>2
<1> HIDE DEF v
<1>5. v \in Views
  BY <1>1, <1>3, <1>4 DEF Views, Shown!Widths
<1>6. \A c \in ShownChildren : v.scroll[c].follow
  BY <1>1, <1>2
<1>7. QED
  BY <1>5, <1>6 DEF Scrolling, v

\* Opening and closing begin anew; closing shows nothing that could be forgotten.
LEMMA OpenShows ==
  ASSUME ShowInv, StayInv, Shown!Open \/ Shown!Close
  PROVE  ShowInv' /\ StayInv'
<1>1. /\ view' = Shown!FreshView /\ shownCache' = Shown!NoCache
      /\ UNCHANGED <<transcript, timer, terminal, events>>
      /\ (shownOpen' = TRUE /\ dirty' = TRUE /\ ~shownOpen /\ seen' = seen) \/ (shownOpen' = FALSE /\ dirty' = FALSE /\ seen' = Shown!Unseen)
  BY DEF Shown!Open, Shown!Close
<1>2. TellsInv' /\ timer' \in BOOLEAN /\ terminal' \in [width : Shown!Widths, height : Nat]
  BY <1>1 DEF ShowInv, TellsInv
<1>3. Scrolling(view') /\ CacheHolds(shownCache', transcript', 2 * events')
  BY <1>1, FreshViewScrolls, EmptyCacheHolds
<1>4. seen' = [c \in ShownChildren |-> 0]
  <2>1. CASE seen' = Shown!Unseen
    BY <2>1 DEF Shown!Unseen
  <2>2. CASE ~shownOpen /\ seen' = seen
    BY <2>2 DEF StayInv, ShowInv
  <2>3. QED
    BY <2>1, <2>2, <1>1
<1>5. seen' \in [ShownChildren -> Nat] /\ \A c \in ShownChildren : seen'[c] = 0
  BY <1>4
<1>6. Shown!NothingIsForgotten' /\ shownOpen' \in BOOLEAN /\ dirty' \in BOOLEAN
  BY <1>1 DEF Shown!NothingIsForgotten
<1>7. ShowInv'
  BY <1>2, <1>3, <1>5, <1>6 DEF ShowInv
<1>8. view'.selected \in ShownChildren
  BY <1>3 DEF Scrolling, Views
<1>9. StayInv'
  BY <1>5, <1>8 DEF StayInv, Stays
<1>10. QED
  BY <1>7, <1>9

LEMMA ResizeShows ==
  ASSUME ShowInv, StayInv, Shown!Resize
  PROVE  ShowInv' /\ StayInv'
<1>1. PICK w \in Shown!Widths, h \in Heights : terminal' = [width |-> w, height |-> h]
  BY DEF Shown!Resize
<1>2. dirty' = shownOpen /\ seen' = [c \in ShownChildren |-> 0] /\ UNCHANGED <<transcript, timer, shownOpen, view, shownCache, events>>
  BY DEF Shown!Resize, Shown!Unseen
<1>3. terminal' \in [width : Shown!Widths, height : Nat]
  BY <1>1, ConsoleAssumption
<1>4. seen' \in [ShownChildren -> Nat] /\ \A c \in ShownChildren : seen'[c] = 0
  BY <1>2
<1>5. Shown!NothingIsForgotten'
  BY <1>2 DEF Shown!NothingIsForgotten
<1>6. /\ TellsInv' /\ timer' \in BOOLEAN /\ shownOpen' \in BOOLEAN /\ dirty' \in BOOLEAN
      /\ Scrolling(view') /\ CacheHolds(shownCache', transcript', 2 * events')
  BY <1>2 DEF ShowInv, TellsInv
<1>7. ShowInv'
  BY <1>3, <1>4, <1>5, <1>6 DEF ShowInv
<1>8. view'.selected \in ShownChildren
  BY <1>6 DEF Scrolling, Views
<1>9. StayInv'
  BY <1>4, <1>8 DEF StayInv, Stays
<1>10. QED
  BY <1>7, <1>9

LEMMA SelectedIsThere ==
  ASSUME NEW c \in ShownChildren, NEW to \in {c + 1, c - 1 + Shown!Cardinality(ShownChildren)}
  PROVE  ((to - 1) % Shown!Cardinality(ShownChildren)) + 1 \in ShownChildren
<1>1. PICK n \in Nat \ {0} : ShownChildren = 1..n
  BY ConsoleAssumption
<1>2. Shown!Cardinality(ShownChildren) = Cardinality(ShownChildren)
  BY DEF Shown!Cardinality, Cardinality
<1>3. 1 \in Int /\ n \in Int
  BY <1>1
<1>4. Cardinality(1..n) = n
  BY <1>1, <1>3, FS_Interval
<1>5. c \in Int /\ to \in {c + 1, c - 1 + n}
  BY <1>1, <1>2, <1>4
<1>6. to - 1 \in Int
  BY <1>1, <1>5
<1> DEFINE k == to - 1
<1>7. k \in Int
  BY <1>6
<1> HIDE DEF k
<1>8. (k % n) \in 0..(n - 1)
  BY <1>1, <1>7
<1>9. (k % n) + 1 \in 1..n
  BY <1>1, <1>8
<1>10. QED
  BY <1>1, <1>2, <1>4, <1>9 DEF k

LEMMA SelectShows ==
  ASSUME ShowInv, StayInv, Shown!Select
  PROVE  ShowInv' /\ StayInv'
<1>1. Scrolling(view) /\ view \in Views /\ view.selected \in ShownChildren
  BY DEF ShowInv, Scrolling, Views
<1>2. /\ shownOpen /\ dirty' = TRUE /\ UNCHANGED <<transcript, timer, shownOpen, terminal, seen, events>>
      /\ \E to \in {view.selected + 1, view.selected - 1 + Shown!Cardinality(ShownChildren)} :
           LET i == ((to - 1) % Shown!Cardinality(ShownChildren)) + 1
               v == Shown!ScrollFor([view EXCEPT !.selected = i], i)
           IN /\ view' = Shown!AnchorScrolledViewport(v, transcript, i)
              /\ shownCache' = Shown!CacheAfter(shownCache, i, transcript[i], view.width)
  BY DEF Shown!Select
<1>3. PICK c \in ShownChildren :
        /\ view' = Shown!AnchorScrolledViewport(Shown!ScrollFor([view EXCEPT !.selected = c], c), transcript, c)
        /\ shownCache' = Shown!CacheAfter(shownCache, c, transcript[c], view.width)
  BY <1>1, <1>2, SelectedIsThere
<1> DEFINE v == Shown!ScrollFor([view EXCEPT !.selected = c], c)
           a == Shown!AnchorScrolledViewport(v, transcript, c)
           set == [view.scroll[c] EXCEPT !.set = TRUE]
           scroll == [view.scroll EXCEPT ![c] = set]
<1>4. v = [view EXCEPT !.selected = c, !.scroll = scroll]
  BY <1>1 DEF Shown!ScrollFor, Views
<1>5. view.scroll \in [ShownChildren -> Scrolls] /\ view.scroll[c] \in Scrolls
  BY <1>1 DEF Views
<1>6. set \in Scrolls /\ set.set = TRUE /\ set.offset = view.scroll[c].offset /\ set.follow = view.scroll[c].follow
  BY <1>5 DEF Scrolls
<1> HIDE DEF set, v, a
<1>7. scroll \in [ShownChildren -> Scrolls] /\ scroll[c] = set /\ \A d \in ShownChildren \ {c} : scroll[d] = view.scroll[d]
  BY <1>5, <1>6
<1> HIDE DEF scroll
<1>8. v \in Views /\ v.selected = c /\ v.scroll = scroll /\ v.counts = view.counts /\ v.width = view.width /\ v.height = view.height
  BY <1>1, <1>4, <1>7 DEF Views
<1>9. Scrolling(v)
  BY <1>1, <1>6, <1>7, <1>8 DEF Scrolling
<1>10. ASSUME NEW d \in ShownChildren PROVE Stays(v, transcript, seen, terminal, d)
  <2>1. Stays(view, transcript, seen, terminal, d) /\ LineCount(transcript, d, v) = LineCount(transcript, d, view)
    BY <1>8 DEF StayInv, LineCount
  <2>2. CASE d # c
    BY <2>1, <2>2, <1>7, <1>8 DEF Stays
  <2>3. CASE d = c
    BY <2>1, <2>3, <1>6, <1>7, <1>8 DEF Stays, Shown!WindowStart
  <2>4. QED
    BY <2>2, <2>3
<1>11. Laid(shownCache, transcript, 2 * events)
  BY ShownIsLaid
<1>12. Scrolling(a) /\ a.selected = c
  BY <1>8, <1>9, <1>11, AnchoredView DEF a
<1>13. (\A d \in ShownChildren : Stays(a, transcript, seen, terminal, d)) /\ (seen[c] # 0 => a.counts[c] = LineCount(transcript, c, a))
  BY <1>9, <1>10, <1>11, AnchoringStays DEF a
<1>14. CacheHolds(shownCache', transcript, 2 * events)
  <2>1. /\ transcript \in [ShownChildren -> Transcripts] /\ 2 * events \in Nat /\ CacheHolds(shownCache, transcript, 2 * events)
        /\ \A d \in ShownChildren : Ordered(transcript[d], 2 * events)
    BY <1>11 DEF Laid
  <2>2. view.width \in Shown!Widths
    BY <1>1 DEF Views
  <2>3. QED
    BY <2>1, <2>2, <1>3, CacheUsed
<1>15. view' = a
  BY <1>3 DEF a, v
<1>16. Shown!NothingIsForgotten'
  BY <1>2 DEF Shown!NothingIsForgotten
<1>17. /\ TellsInv' /\ timer' \in BOOLEAN /\ shownOpen' \in BOOLEAN /\ dirty' \in BOOLEAN
       /\ terminal' \in [width : Shown!Widths, height : Nat] /\ seen' \in [ShownChildren -> Nat]
  BY <1>2 DEF ShowInv, TellsInv
<1>18. ShowInv'
  BY <1>2, <1>12, <1>14, <1>15, <1>16, <1>17 DEF ShowInv
<1>19. StayInv'
  BY <1>2, <1>12, <1>13, <1>15 DEF StayInv
<1>20. QED
  BY <1>18, <1>19

\* The largest distance from the bottom is an offset.
LEMMA FarthestIsOffset ==
  ASSUME ShowInv
  PROVE  /\ Shown!MaxScroll(view) \in Nat
         /\ \A i \in Nat : i <= Shown!MaxScroll(view) => i \in Shown!Offsets
<1> DEFINE c == view.selected
           l == LineCount(transcript, c, view)
           body == Shown!BodyHeight(view.height)
<1>1. view \in Views /\ c \in ShownChildren /\ view.width \in Shown!Widths /\ view.height \in Nat
  BY DEF ShowInv, Scrolling, Views
<1>2. Laid(shownCache, transcript, 2 * events)
  BY ShownIsLaid
<1>3. Len(Shown!Lines(view, transcript, c)) = l
  BY <1>1, <1>2, CacheShows DEF Laid, Shown!Lines, LineCount
<1>4. l \in Nat /\ \A i \in Nat : i <= l => i \in Shown!Offsets
  BY <1>1, <1>2, CountsAreOffsets
<1>5. body \in Nat
  BY <1>1, BodyIsNatural
<1>6. Shown!MaxScroll(view) = Shown!Less(l, body)
  BY <1>3 DEF Shown!MaxScroll
<1> HIDE DEF l, body
<1>7. Shown!Less(l, body) \in Nat /\ Shown!Less(l, body) <= l
  BY <1>4, <1>5 DEF Shown!Less
<1> DEFINE most == Shown!Less(l, body)
<1>8. most \in Nat /\ most <= l /\ Shown!MaxScroll(view) = most
  BY <1>6, <1>7
<1> HIDE DEF most
<1>9. \A i \in Nat : i <= most => i <= l
  BY <1>4, <1>8
<1>10. QED
  BY <1>4, <1>8, <1>9

\* A key that moves a viewport, and what it has measured.
LEMMA ScrolledShows ==
  ASSUME ShowInv, StayInv, NEW offset \in Shown!Offsets, NEW follow \in BOOLEAN, Shown!Scrolled(offset, follow),
         Shown!Measured \/ UNCHANGED shownCache
  PROVE  ShowInv' /\ StayInv'
<1> DEFINE c == view.selected
           new == [offset |-> offset, follow |-> follow, set |-> TRUE]
           scroll == [view.scroll EXCEPT ![c] = new]
<1>1. Scrolling(view) /\ view \in Views /\ c \in ShownChildren /\ view.scroll \in [ShownChildren -> Scrolls] /\ view.width \in Shown!Widths
  BY DEF ShowInv, Scrolling, Views
<1>2. /\ dirty' = TRUE /\ UNCHANGED <<transcript, timer, shownOpen, terminal, events>>
      /\ seen' = [seen EXCEPT ![c] = 0]
      /\ view' = [view EXCEPT !.scroll[c] = new]
  BY DEF Shown!Scrolled
<1>3. view' = [view EXCEPT !.scroll = scroll]
  BY <1>2
<1>4. new \in Scrolls /\ new.set
  BY DEF Scrolls
<1> HIDE DEF new
<1>5. scroll \in [ShownChildren -> Scrolls] /\ scroll[c] = new /\ \A d \in ShownChildren \ {c} : scroll[d] = view.scroll[d]
  BY <1>1, <1>4
<1> HIDE DEF scroll
<1>6. view' \in Views /\ view'.selected = c /\ view'.scroll = scroll /\ view'.counts = view.counts /\ view'.width = view.width /\ view'.height = view.height
  BY <1>1, <1>3, <1>5 DEF Views
<1>7. Scrolling(view')
  BY <1>1, <1>4, <1>5, <1>6 DEF Scrolling
<1>8. seen \in [ShownChildren -> Nat] /\ seen' \in [ShownChildren -> Nat] /\ seen'[c] = 0 /\ \A d \in ShownChildren \ {c} : seen'[d] = seen[d]
  BY <1>1, <1>2 DEF ShowInv
<1>9. ASSUME NEW d \in ShownChildren PROVE Stays(view', transcript', seen', terminal', d) /\ (seen'[d] # 0 => shownOpen')
  <2>1. Stays(view, transcript, seen, terminal, d) /\ (seen[d] # 0 => shownOpen)
    BY DEF StayInv
  <2>2. LineCount(transcript', d, view') = LineCount(transcript, d, view)
    BY <1>2, <1>6 DEF LineCount
  <2>3. CASE d # c
    BY <2>1, <2>2, <2>3, <1>2, <1>5, <1>6, <1>8 DEF Stays
  <2>4. CASE d = c
    BY <2>4, <1>8 DEF Stays
  <2>5. QED
    BY <2>3, <2>4
<1>10. CacheHolds(shownCache', transcript', 2 * events')
  <2>1. Laid(shownCache, transcript, 2 * events)
    BY ShownIsLaid
  <2>2. /\ transcript \in [ShownChildren -> Transcripts] /\ 2 * events \in Nat /\ CacheHolds(shownCache, transcript, 2 * events)
        /\ \A d \in ShownChildren : Ordered(transcript[d], 2 * events)
    BY <2>1 DEF Laid
  <2>3. CASE Shown!Measured
    <3>1. shownCache' = Shown!CacheAfter(shownCache, c, transcript[c], view.width)
      BY <2>3 DEF Shown!Measured
    <3> HIDE DEF c
    <3>2. CacheHolds(Shown!CacheAfter(shownCache, c, transcript[c], view.width), transcript, 2 * events)
      BY <2>2, <1>1, CacheUsed
    <3>3. QED
      BY <3>1, <3>2, <1>2
  <2>4. CASE UNCHANGED shownCache
    BY <2>2, <2>4, <1>2
  <2>5. QED
    BY <2>3, <2>4
<1>11. Shown!NothingIsForgotten'
  BY <1>2 DEF Shown!NothingIsForgotten
<1>12. TellsInv' /\ timer' \in BOOLEAN /\ shownOpen' \in BOOLEAN /\ dirty' \in BOOLEAN /\ terminal' \in [width : Shown!Widths, height : Nat]
  BY <1>2 DEF ShowInv, TellsInv
<1>13. ShowInv'
  BY <1>7, <1>8, <1>10, <1>11, <1>12 DEF ShowInv
<1>14. StayInv'
  BY <1>6, <1>8, <1>9 DEF StayInv
<1>15. QED
  BY <1>13, <1>14

LEMMA KeysShow ==
  ASSUME ShowInv, StayInv, Shown!Keys
  PROVE  ShowInv' /\ StayInv'
<1> DEFINE old == view.scroll[view.selected]
<1>1. old \in Scrolls
  BY DEF ShowInv, Scrolling, Views
<1>2. old.offset \in Shown!Offsets /\ old.offset \in Nat /\ old.follow \in BOOLEAN
  BY <1>1 DEF Scrolls, Shown!Offsets
<1>3. 0 \in Shown!Offsets
  BY ConsoleAssumption DEF Shown!Offsets
<1>4. Shown!PageStep \in Nat
  <2>1. terminal.height \in Nat
    BY DEF ShowInv
  <2> DEFINE body == Shown!BodyHeight(terminal.height)
  <2>2. body \in Nat
    BY <2>1, BodyIsNatural
  <2> HIDE DEF body
  <2>3. Shown!Most(1, Shown!Less(body, 2)) \in Nat
    BY <2>2 DEF Shown!Most, Shown!Less
  <2>4. QED
    BY <2>3 DEF Shown!PageStep, body
<1>5. CASE Shown!Select
  BY <1>5, SelectShows
<1>6. CASE Shown!ScrollUp
  <2>1. PICK by \in {3, Shown!PageStep} : Shown!Scrolled(Shown!Least(Shown!MaxScroll(view), old.offset + by), FALSE) /\ Shown!Measured
    BY <1>6 DEF Shown!ScrollUp
  <2> DEFINE far == old.offset + by
             most == Shown!MaxScroll(view)
  <2>2. far \in Nat
    BY <1>2, <1>4
  <2>3. most \in Nat /\ \A i \in Nat : i <= most => i \in Shown!Offsets
    BY FarthestIsOffset
  <2> HIDE DEF far, most
  <2>4. Shown!Least(most, far) \in Nat /\ Shown!Least(most, far) <= most
    BY <2>2, <2>3 DEF Shown!Least
  <2>5. Shown!Least(most, far) \in Shown!Offsets
    BY <2>3, <2>4
  <2>6. Shown!Scrolled(Shown!Least(most, far), FALSE)
    BY <2>1 DEF most, far
  <2>7. QED
    BY <2>1, <2>5, <2>6, ScrolledShows
<1>7. CASE Shown!ScrollDown
  <2>1. PICK by \in {3, Shown!PageStep} :
          Shown!Scrolled(Shown!Less(old.offset, by), old.follow \/ Shown!Less(old.offset, by) = 0) /\ UNCHANGED shownCache
    BY <1>7 DEF Shown!ScrollDown
  <2> DEFINE offset == Shown!Less(old.offset, by)
             follow == old.follow \/ offset = 0
  <2>2. by \in Nat
    BY <1>4
  <2>3. offset \in Shown!Offsets
    BY <2>2, <1>2, ConsoleAssumption DEF Shown!Less, Shown!Offsets
  <2>4. follow \in BOOLEAN
    BY <1>2
  <2>5. Shown!Scrolled(offset, follow)
    BY <2>1
  <2> HIDE DEF offset, follow
  <2>6. QED
    BY <2>1, <2>3, <2>4, <2>5, ScrolledShows
<1>8. CASE Shown!Home
  <2>1. Shown!Scrolled(Shown!MaxScroll(view), FALSE) /\ Shown!Measured
    BY <1>8 DEF Shown!Home
  <2>2. Shown!MaxScroll(view) \in Shown!Offsets
    BY FarthestIsOffset
  <2>3. QED
    BY <2>1, <2>2, ScrolledShows
<1>9. CASE Shown!End
  <2>1. Shown!Scrolled(0, TRUE) /\ UNCHANGED shownCache
    BY <1>9 DEF Shown!End
  <2>2. QED
    BY <2>1, <1>3, ScrolledShows
<1>10. CASE Shown!ToggleFollow
  <2> DEFINE offset == IF old.follow THEN old.offset ELSE 0
             follow == ~old.follow
  <2>1. Shown!Scrolled(offset, follow) /\ UNCHANGED shownCache
    BY <1>10 DEF Shown!ToggleFollow
  <2>2. offset \in Shown!Offsets /\ follow \in BOOLEAN
    BY <1>2, <1>3
  <2> HIDE DEF offset, follow
  <2>3. QED
    BY <2>1, <2>2, ScrolledShows
<1>11. QED
  BY <1>5, <1>6, <1>7, <1>8, <1>9, <1>10 DEF Shown!Keys

\* A render shows what is there, and measures it.
LEMMA RenderShows ==
  ASSUME ShowInv, StayInv, Shown!Render
  PROVE  ShowInv' /\ StayInv' /\ Shown!StaysAnchored
<1> DEFINE c == view.selected
           lines == Shown!CachedLines(shownCache, c, transcript[c], terminal.width)
           count == Len(lines)
           scroll == view.scroll[c]
           body == Shown!BodyHeight(terminal.height)
           counts == [view.counts EXCEPT ![c] = count]
           top == IF scroll.follow THEN 0 ELSE Shown!WindowStart(count, scroll, body) + 1
<1>1. /\ Scrolling(view) /\ view \in Views /\ c \in ShownChildren /\ view.counts \in [ShownChildren -> Nat]
      /\ view.scroll \in [ShownChildren -> Scrolls] /\ scroll \in Scrolls
      /\ terminal \in [width : Shown!Widths, height : Nat]
      /\ seen \in [ShownChildren -> Nat]
  BY DEF ShowInv, Scrolling, Views
<1>2. terminal.width \in Shown!Widths /\ terminal.height \in Nat
  BY <1>1
<1>3. Laid(shownCache, transcript, 2 * events)
  BY ShownIsLaid
<1>4. /\ transcript \in [ShownChildren -> Transcripts] /\ 2 * events \in Nat /\ CacheHolds(shownCache, transcript, 2 * events)
      /\ \A d \in ShownChildren : Ordered(transcript[d], 2 * events) /\ Fits(transcript[d])
  BY <1>3 DEF Laid
<1>5. lines = Shown!ComputeTranscriptLines(transcript[c], terminal.width)
  BY <1>1, <1>2, <1>4, CacheShows
<1>6. /\ shownOpen /\ dirty' = FALSE /\ UNCHANGED <<transcript, timer, shownOpen, terminal, events>>
      /\ view' = [view EXCEPT !.width = terminal.width, !.height = terminal.height, !.counts = counts]
      /\ shownCache' = Shown!CacheAfter(shownCache, c, transcript[c], terminal.width)
      /\ screen' = [child |-> c, lines |-> Shown!WindowBodyLines(lines, scroll, body)]
      /\ seen' = [seen EXCEPT ![c] = top]
  BY DEF Shown!Render
<1>7. count \in Nat /\ count # 0
  <2>1. transcript[c] \in Transcripts /\ Fits(transcript[c])
    BY <1>1, <1>4
  <2> HIDE DEF lines
  <2>2. count \in 1..(2 * MaxBytes + 2)
    BY <2>1, <1>2, <1>5, LinesTake
  <2> HIDE DEF count
  <2>3. QED
    BY <2>2, ConsoleAssumption
<1>8. top \in Nat
  <2>1. body \in Nat
    BY <1>2, BodyIsNatural
  <2>2. scroll.offset \in Nat /\ scroll.follow \in BOOLEAN
    BY <1>1 DEF Scrolls, Shown!Offsets
  <2> HIDE DEF body, count, scroll
  <2>3. Shown!WindowStart(count, scroll, body) \in Nat
    BY <2>1, <2>2, <1>7 DEF Shown!WindowStart, Shown!Less, Shown!Least
  <2>4. QED
    BY <2>3
<1> HIDE DEF lines, count
<1>9. counts \in [ShownChildren -> Nat] /\ counts[c] = count /\ \A d \in ShownChildren \ {c} : counts[d] = view.counts[d]
  BY <1>1, <1>7
<1> HIDE DEF counts, top, body
<1>10. /\ view' \in Views /\ view'.selected = c /\ view'.scroll = view.scroll /\ view'.counts = counts
       /\ view'.width = terminal.width /\ view'.height = terminal.height
  BY <1>1, <1>2, <1>6, <1>9 DEF Views
<1>11. Scrolling(view')
  BY <1>1, <1>10 DEF Scrolling
<1>12. seen' \in [ShownChildren -> Nat] /\ seen'[c] = top /\ \A d \in ShownChildren \ {c} : seen'[d] = seen[d]
  BY <1>1, <1>6, <1>8
<1>13. CacheHolds(shownCache', transcript', 2 * events')
  <2> HIDE DEF c
  <2>1. CacheHolds(Shown!CacheAfter(shownCache, c, transcript[c], terminal.width), transcript, 2 * events)
    BY <1>1, <1>2, <1>4, CacheUsed
  <2>2. QED
    BY <2>1, <1>6
<1>14. LineCount(transcript', c, view') = count
  BY <1>5, <1>6, <1>10 DEF LineCount, count
<1>15. ASSUME NEW d \in ShownChildren PROVE Stays(view', transcript', seen', terminal', d) /\ (seen'[d] # 0 => shownOpen')
  <2>1. CASE d # c
    <3>1. Stays(view, transcript, seen, terminal, d)
      BY DEF StayInv
    <3>2. seen[d] # 0 => LineCount(transcript', d, view') = LineCount(transcript, d, view)
      BY <3>1, <1>6, <1>10 DEF Stays, LineCount
    <3>3. QED
      BY <2>1, <3>1, <3>2, <1>6, <1>9, <1>10, <1>12 DEF Stays
  <2>2. CASE d = c
    <3>1. seen'[c] # 0 => ~scroll.follow /\ seen'[c] = Shown!WindowStart(count, scroll, body) + 1
      BY <1>12 DEF top
    <3>2. ~scroll.follow => scroll.set
      BY <1>1 DEF Scrolling
    <3>3. count \in 1..count
      BY <1>7
    <3>4. QED
      BY <2>2, <3>1, <3>2, <3>3, <1>6, <1>9, <1>10, <1>14 DEF Stays, body
  <2>3. QED
    BY <2>1, <2>2
<1>16. Shown!NothingIsForgotten'
  <2>1. /\ view'.selected = c /\ view'.scroll[c] = scroll /\ transcript'[c] = transcript[c] /\ terminal' = terminal
        /\ screen' = [child |-> c, lines |-> Shown!WindowBodyLines(Shown!ComputeTranscriptLines(transcript[c], terminal.width), scroll, body)]
    BY <1>5, <1>6, <1>10
  <2> HIDE DEF c, scroll
  <2>2. QED
    BY <2>1 DEF Shown!NothingIsForgotten, body
<1>17. TellsInv' /\ timer' \in BOOLEAN /\ shownOpen' \in BOOLEAN /\ dirty' \in BOOLEAN /\ terminal' \in [width : Shown!Widths, height : Nat]
  BY <1>6 DEF ShowInv, TellsInv
<1>18. ShowInv'
  BY <1>11, <1>12, <1>13, <1>16, <1>17 DEF ShowInv
<1>19. view'.counts[view'.selected] = LineCount(transcript', view'.selected, view')
  BY <1>9, <1>10, <1>14
<1>20. StayInv'
  BY <1>15, <1>19, <1>10 DEF StayInv
<1>21. ASSUME NEW d \in ShownChildren, seen[d] # 0, seen'[d] # 0, ~timer PROVE seen'[d] = seen[d]
  <2>1. CASE d # c
    BY <2>1, <1>12
  <2>2. CASE d = c
    <3>1. Stays(view, transcript, seen, terminal, c) /\ view.counts[c] = LineCount(transcript, c, view)
      BY <2>2, <1>1, <1>21 DEF StayInv
    <3>2. /\ seen[c] = Shown!WindowStart(view.counts[c], scroll, Shown!BodyHeight(view.height)) + 1 /\ ~scroll.follow
          /\ view.width = terminal.width /\ view.height = terminal.height
      BY <2>2, <3>1, <1>21 DEF Stays
    <3>3. LineCount(transcript, c, view) = count
      BY <3>2, <1>5 DEF LineCount, count
    <3>4. QED
      BY <2>2, <3>1, <3>2, <3>3, <1>12 DEF top, body
  <2>3. QED
    BY <2>1, <2>2
<1>22. Shown!StaysAnchored
  BY <1>21 DEF Shown!StaysAnchored
<1>23. QED
  BY <1>18, <1>20, <1>22

LEMMA ConsoleHolds ==
  ASSUME ShowInv, StayInv, [Shown!Next]_shownVars
  PROVE  ShowInv' /\ StayInv' /\ Shown!StaysAnchored
<1>1. seen \in [ShownChildren -> Nat]
  BY DEF ShowInv
<1>2. CASE Shown!Store
  <2>1. ASSUME NEW c \in ShownChildren, seen'[c] # 0 PROVE seen'[c] = seen[c]
    <3>1. CASE Shown!TimerFires
      BY <3>1 DEF Shown!TimerFires
    <3>2. CASE ~Shown!TimerFires
      <4>1. PICK d \in Talkers : Shown!Note(d) \/ Shown!ToolStart(d) \/ Shown!ToolEnd(d) \/ Shown!TextDelta(d) \/ Shown!TurnEnd(d)
        BY <1>2, <3>2 DEF Shown!Store
      <4>2. d \in ShownChildren /\ TellsInv
        BY ConsoleAssumption DEF ShowInv
      <4>3. PICK u : Reports(d, u)
        BY <4>1, <4>2, NoteReports, ToolEndReports, TextReports, TurnReports
      <4>4. QED
        BY <4>2, <4>3, <2>1, ReportStays
    <3>3. QED
      BY <3>1, <3>2
  <2>2. Shown!StaysAnchored
    BY <2>1 DEF Shown!StaysAnchored
  <2>3. QED
    BY <2>2, <1>2, StoreShows
<1>3. CASE Shown!Open \/ Shown!Close
  <2>1. \A c \in ShownChildren : seen'[c] = seen[c] \/ seen'[c] = 0
    BY <1>3 DEF Shown!Open, Shown!Close, Shown!Unseen
  <2>2. Shown!StaysAnchored
    BY <2>1 DEF Shown!StaysAnchored
  <2>3. QED
    BY <2>2, <1>3, OpenShows
<1>4. CASE Shown!Keys
  <2>1. \A c \in ShownChildren : seen'[c] = seen[c] \/ seen'[c] = 0
    <3>1. seen' = seen \/ seen' = [seen EXCEPT ![view.selected] = 0]
      BY <1>4 DEF Shown!Keys, Shown!Select, Shown!ScrollUp, Shown!ScrollDown, Shown!Home, Shown!End, Shown!ToggleFollow, Shown!Scrolled
    <3>2. QED
      BY <3>1, <1>1
  <2>2. Shown!StaysAnchored
    BY <2>1 DEF Shown!StaysAnchored
  <2>3. QED
    BY <2>2, <1>4, KeysShow
<1>5. CASE Shown!Resize
  <2>1. \A c \in ShownChildren : seen'[c] = 0
    BY <1>5 DEF Shown!Resize, Shown!Unseen
  <2>2. Shown!StaysAnchored
    BY <2>1 DEF Shown!StaysAnchored
  <2>3. QED
    BY <2>2, <1>5, ResizeShows
<1>6. CASE Shown!Render
  BY <1>6, RenderShows
<1>7. CASE UNCHANGED shownVars
  <2>1. UNCHANGED <<transcript, timer, shownOpen, terminal, view, shownCache, dirty, screen, seen, events>>
    BY <1>7 DEF shownVars
  <2>2. Shown!NothingIsForgotten'
    BY <2>1 DEF ShowInv, Shown!NothingIsForgotten
  <2>3. ShowInv'
    BY <2>1, <2>2 DEF ShowInv, TellsInv
  <2>4. StayInv'
    BY <2>1 DEF StayInv
  <2>5. Shown!StaysAnchored
    BY <2>1 DEF Shown!StaysAnchored
  <2>6. QED
    BY <2>3, <2>4, <2>5
<1>8. QED
  BY <1>2, <1>3, <1>4, <1>5, <1>6, <1>7 DEF Shown!Next

LEMMA ConsoleInitHolds == ASSUME Shown!Init PROVE ShowInv /\ StayInv
<1> DEFINE t == [entries |-> <<>>, tail |-> Shown!EmptyTail, turn |-> 1, evicted |-> FALSE]
<1>1. /\ transcript = [c \in ShownChildren |-> t] /\ timer = FALSE /\ shownOpen = FALSE /\ dirty = FALSE /\ events = 0
      /\ terminal = [width |-> "wide", height |-> CHOOSE h \in Heights : TRUE]
      /\ view = Shown!FreshView /\ shownCache = Shown!NoCache /\ seen = [c \in ShownChildren |-> 0]
  BY DEF Shown!Init, Shown!Unseen
<1>2. t \in Transcripts
  <2>1. Shown!EmptyTail \in ShownTails
    BY ConsoleAssumption DEF Shown!EmptyTail, ShownTails
  <2>2. <<>> \in Seq(ShownEntries)
    OBVIOUS
  <2>3. QED
    BY <2>1, <2>2 DEF Transcripts
<1>3. t.entries = <<>> /\ DOMAIN t.entries = {}
  OBVIOUS
<1> HIDE DEF t
<1>4. TellsInv
  <2>1. Ordered(t, 2 * events) /\ Fits(t)
    BY <1>3 DEF Ordered, Fits
  <2>2. QED
    BY <2>1, <1>1, <1>2 DEF TellsInv
<1>5. terminal \in [width : Shown!Widths, height : Nat]
  <2>1. (CHOOSE h \in Heights : TRUE) \in Nat
    BY ConsoleAssumption
  <2>2. QED
    BY <2>1, <1>1 DEF Shown!Widths
<1>6. Scrolling(view) /\ CacheHolds(shownCache, transcript, 2 * events)
  BY <1>1, FreshViewScrolls, EmptyCacheHolds
<1>7. Shown!NothingIsForgotten
  BY <1>1 DEF Shown!NothingIsForgotten
<1>8. seen \in [ShownChildren -> Nat] /\ \A c \in ShownChildren : seen[c] = 0
  BY <1>1
<1>9. ShowInv
  BY <1>1, <1>4, <1>5, <1>6, <1>7, <1>8 DEF ShowInv
<1>10. view.selected \in ShownChildren
  BY <1>6 DEF Scrolling, Views
<1>11. StayInv
  BY <1>8, <1>10 DEF StayInv, Stays
<1>12. QED
  BY <1>9, <1>11

\* The sidebar shows the selected block, whatever the blocks, for any number of rows.
LEMMA SidebarLists == Shown!SelectedIsListed
<1> SUFFICES ASSUME NEW body \in 1..5, NEW blocks \in [1..3 -> 3..4], NEW selected \in 1..3
             PROVE  LET window == Shown!WindowSidebarBlocks(blocks, selected, body)
                        label  == 1 + (IF selected > 1 THEN blocks[1] ELSE 0) + (IF selected > 2 THEN blocks[2] ELSE 0)
                        last   == label + Shown!Least(body, blocks[selected]) - 1
                    IN window.from <= label /\ last <= window.to /\ window.to <= blocks[1] + blocks[2] + blocks[3]
  BY DEF Shown!SelectedIsListed
<1> DEFINE s == Shown!Sums(blocks)
           p == blocks[1]
           q == blocks[2]
           r == blocks[3]
<1>1. Len(blocks) = 3
  <2>1. 3 \in Nat /\ DOMAIN blocks = 1..3
    OBVIOUS
  <2>2. QED
    BY <2>1, ListsHaveLength
<1>2. s[0] = 0 /\ s[1] = s[0] + p /\ s[2] = s[1] + q /\ s[3] = s[2] + r
  <2>1. s[0] = 0 /\ \A i \in 1..3 : s[i] = s[i - 1] + blocks[i]
    BY <1>1, SumsAre
  <2> HIDE DEF s
  <2>2. s[1] = s[1 - 1] + p /\ s[2] = s[2 - 1] + q /\ s[3] = s[3 - 1] + r
    BY <2>1
  <2>3. QED
    BY <2>1, <2>2
<1>3. p \in 3..4 /\ q \in 3..4 /\ r \in 3..4
  OBVIOUS
<1> HIDE DEF s
<1>4. s[0] = 0 /\ s[1] = p /\ s[2] = p + q /\ s[3] = p + q + r
  <2> HIDE DEF p, q, r
  <2>1. QED
    BY <1>2, <1>3
<1> DEFINE window == Shown!WindowSidebarBlocks(blocks, selected, body)
           total == p + q + r
           first == IF selected = 1 THEN 0 ELSE IF selected = 2 THEN p ELSE p + q
           own == IF selected = 1 THEN p ELSE IF selected = 2 THEN q ELSE r
           low == Shown!Least(first, Shown!Less(total, body))
           start == IF body < own THEN first ELSE IF first + own > low + body THEN first + own - body ELSE low
<1>5. s[3] = total /\ s[selected - 1] = first /\ s[selected] = first + own /\ blocks[selected] = own
  <2>1. CASE selected = 1
    BY <2>1, <1>3, <1>4
  <2>2. CASE selected = 2
    BY <2>2, <1>3, <1>4
  <2>3. CASE selected = 3
    BY <2>3, <1>3, <1>4
  <2>4. QED
    BY <2>1, <2>2, <2>3
<1>6. window = IF total <= body THEN [from |-> 1, to |-> total] ELSE [from |-> start + 1, to |-> start + body]
  BY <1>1, <1>5 DEF Shown!WindowSidebarBlocks, s
<1> HIDE DEF window
<1>7. /\ window.from = IF total <= body THEN 1 ELSE start + 1
      /\ window.to = IF total <= body THEN total ELSE start + body
  BY <1>6
<1>8. 1 + (IF selected > 1 THEN blocks[1] ELSE 0) + (IF selected > 2 THEN blocks[2] ELSE 0) = first + 1
  BY <1>3
<1> HIDE DEF p, q, r
<1>9. first \in Nat /\ own \in 3..4 /\ total \in Nat /\ first + own <= total /\ total > body
  BY <1>3
<1> HIDE DEF first, own, total
<1> DEFINE top == window.from
           bottom == window.to
<1>10. top = start + 1 /\ bottom = start + body
  BY <1>7, <1>9
<1> HIDE DEF top, bottom
<1>11. top <= first + 1 /\ (first + 1) + Shown!Least(body, own) - 1 <= bottom /\ bottom <= total
  BY <1>9, <1>10 DEF Shown!Least, Shown!Less
<1>12. QED
  BY <1>5, <1>8, <1>11 DEF top, bottom, window, total, p, q, r

\* What the invariant says of the console is what its properties say.
LEMMA ConsoleServes ==
  ASSUME ShowInv
  PROVE  Shown!TypeOK /\ Shown!TranscriptIsBounded /\ Shown!LayoutIsFresh /\ Shown!NothingIsForgotten /\ Shown!SelectedIsListed
<1>1. /\ transcript \in [ShownChildren -> Transcripts] /\ events \in Nat /\ CacheHolds(shownCache, transcript, 2 * events)
      /\ \A c \in ShownChildren : Ordered(transcript[c], 2 * events) /\ Fits(transcript[c])
  BY DEF ShowInv, TellsInv
<1>2. view.selected \in ShownChildren /\ \A c \in ShownChildren : view.scroll[c] \in Scrolls
  BY DEF ShowInv, Scrolling, Views
<1>3. \A c \in ShownChildren : view.scroll[c].offset \in Shown!Offsets
  BY <1>2 DEF Scrolls
<1>4. \A c \in ShownChildren : transcript[c].tail.size \in 0..MaxTail
  BY <1>1 DEF Transcripts, ShownTails
<1>5. Shown!TypeOK
  BY <1>2, <1>3, <1>4 DEF Shown!TypeOK, ShowInv
<1>6. Shown!TranscriptIsBounded
  BY <1>1 DEF Shown!TranscriptIsBounded, Fits, Ordered
<1>7. Shown!LayoutIsFresh
  <2>1. 2 * events \in Nat
    BY <1>1
  <2>2. QED
    BY <2>1, <1>1, CacheShows DEF Shown!LayoutIsFresh
<1>8. QED
  BY <1>5, <1>6, <1>7, SidebarLists DEF ShowInv

LEMMA ConsoleMoves ==
  /\ KeptInit => Shown!Init
  /\ [KeptNext]_keptVars => [Shown!Next]_shownVars
BY DEF KeptInit, KeptNext, keptVars

\* The console of child agents, through output, turns, renders, keys and resizes.
THEOREM ConsoleInductive == KeptSpec => [](ShowInv /\ StayInv)
<1>1. ShowInv /\ StayInv /\ [KeptNext]_keptVars => ShowInv' /\ StayInv'
  BY ConsoleMoves, ConsoleHolds
<1>2. KeptInit => ShowInv /\ StayInv
  BY ConsoleMoves, ConsoleInitHolds
<1>3. QED
  BY <1>1, <1>2, PTL DEF KeptSpec

\* A transcript keeps its order and its limits, what is on the screen is of the bytes that
\* are there, nothing is dropped without a mark, the selected child is in the sidebar, and
\* the lines that the user is reading stay where they are while entries come in.
THEOREM ConsoleShowsWhatIsThere ==
  KeptSpec => /\ [](/\ Shown!TranscriptIsBounded /\ Shown!LayoutIsFresh
                    /\ Shown!NothingIsForgotten /\ Shown!SelectedIsListed)
              /\ [][Shown!StaysAnchored]_keptVars
<1>1. ShowInv /\ StayInv /\ [KeptNext]_keptVars => Shown!StaysAnchored
  BY ConsoleMoves, ConsoleHolds
<1>2. ShowInv => /\ Shown!TranscriptIsBounded /\ Shown!LayoutIsFresh
                 /\ Shown!NothingIsForgotten /\ Shown!SelectedIsListed
  BY ConsoleServes
<1>3. QED
  BY <1>1, <1>2, ConsoleInductive, PTL DEF KeptSpec
-----------------------------------------------------------------------------
(* All parts.                                                              *)

\* Every variable of every part has its type.
THEOREM KeptTypeCorrect == KeptSpec => []KeptTypeOK
<1>1. TypeOK /\ Archive!TypeOK /\ LeaseInv /\ HistoryInv /\ RunsInv =>
        /\ TypeOK /\ Archive!TypeOK /\ Leases!LeaseTypeOK /\ History!TypeOK /\ Runs!TypeOK
  BY DEF LeaseInv, HistoryInv, RunsInv
<1>2. LedgerInv /\ SeatInv /\ HandInv /\ ShowInv /\ PaneInv =>
        /\ Ledger!TypeOK /\ Seating!TypeOK /\ Hand!TypeOK /\ Shown!TypeOK /\ Panes!TypeOK
  BY LedgerServes, SeatServes, HandServes, ConsoleServes, PaneServes
<1>3. /\ TypeOK /\ Archive!TypeOK /\ Leases!LeaseTypeOK /\ History!TypeOK /\ Runs!TypeOK
      /\ Ledger!TypeOK /\ Seating!TypeOK /\ Hand!TypeOK /\ Shown!TypeOK /\ Panes!TypeOK
      => KeptTypeOK
  BY DEF KeptTypeOK
<1>4. QED
  BY <1>1, <1>2, <1>3, ReviewTypeCorrect, ArchiveIsTyped, LeasesInductive, HistoryInductive,
     LedgerInductive, SeatsInductive, HandoffInductive, ConsoleInductive, PanesInductive,
     RunsInductive, PTL

\* What a record says can be read is there, and what is shown is so, in every part.  One
\* process archives and restores: nothing in the archive keeps two apart.
THEOREM RecordsMatch ==
  ASSUME NEW p, Procs = {p}
  PROVE  KeptSpec => []RecordsMatchTheirSources
<1>1. /\ Archive!ArchivedIsReadable
      /\ History!PagesAreCurrent
      /\ Ledger!TiersAreKept /\ Ledger!LimitsHold
      /\ Seating!AsksGoToTheirSeat
      /\ Hand!HistoryIsCurrent /\ Hand!NewestIsPublished /\ Hand!PromptIsKept
      /\ Shown!TranscriptIsBounded /\ Shown!LayoutIsFresh
      /\ Shown!NothingIsForgotten /\ Shown!SelectedIsListed
      /\ Panes!PanesFollowRuns /\ Panes!OneLiveCall /\ Panes!RowsTellResults
      /\ Runs!LiveRunsAreKnown /\ Runs!BusyIsARun /\ Runs!AutopilotServesItsSession
      => RecordsMatchTheirSources
  BY DEF RecordsMatchTheirSources
<1>2. KeptSpec => []Archive!ArchivedIsReadable
  BY ArchiveServesOneProcess, PTL
<1>3. QED
  BY <1>1, <1>2, PagesStayCurrent, LedgerIsKept, SeatsAreServed, HandoffServes,
     ConsoleShowsWhatIsThere, PanesShowWhatRuns, RunsServeTheirSession, PTL

\* No step of any part deletes or forgets what is still needed.  The archive is served by one
\* process, as above.
THEOREM NeededIsKept ==
  ASSUME NEW p, Procs = {p}
  PROVE  KeptSpec => NeededIsNeverLost
<1> DEFINE Keeps ==
      /\ part = "archive" => Archive!CopyIsKept
      /\ part = "leases" => Leases!LiveIsKept
      /\ part = "ledger" => Ledger!RetainedIsKept
      /\ part = "seats" => Seating!PanesStayAccounted
      /\ part = "handoff" => Hand!SendsReadable /\ Hand!LeavesPredecessor
      /\ part = "console" => Shown!StaysAnchored
      /\ part = "panes" => Panes!RunsOnce
<1>1. /\ Archive!CopyIsKept /\ Leases!LiveIsKept /\ Ledger!RetainedIsKept
      /\ Seating!PanesStayAccounted /\ Hand!SendsReadable /\ Hand!LeavesPredecessor
      /\ Shown!StaysAnchored /\ Panes!RunsOnce
      => Keeps
  OBVIOUS
<1>2. KeptSpec => [][Archive!CopyIsKept]_keptVars
  BY ArchiveServesOneProcess, PTL
<1>3. QED
  BY <1>1, <1>2, LiveSessionsAreKept, LedgerIsKept, SeatsAreServed, HandoffServes,
     ConsoleShowsWhatIsThere, PanesShowWhatRuns, PTL DEF NeededIsNeverLost
=============================================================================
