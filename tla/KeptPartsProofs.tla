--------------------------- MODULE KeptPartsProofs ---------------------------
(***************************************************************************)
(* Proofs about parts of KeptRecords, each for every value of the          *)
(* constants.  Every part has an inductive invariant of its own, that the  *)
(* steps of the other parts leave alone: the index of subagent sessions    *)
(* (SubagentHistory), the session archive (SessionArchive, with one        *)
(* process), the ledger of routed generations (FloorLedger), the seats of  *)
(* a council (CouncilSeats), a handoff (Handoff) and the panes of child    *)
(* agents (AgentPanes).  KeptRecordsProofs has the other parts, and what   *)
(* holds of all.                                                           *)
(***************************************************************************)
EXTENDS KeptRecords, SequenceTheorems, FiniteSetTheorems, TLAPS

(* The index of the sessions.                                              *)

CallRecords ==
  [op : {"none", "search", "read", "raw"}, target : Subagents,
   step : {"idle", "discover", "leases", "bounded", "pending", "stat", "lease", "entries", "ranges", "check", "checklease"},
   at : Subagents, found : [Subagents -> History!Versions], todo : SUBSET Subagents,
   hits : [Subagents -> History!Versions], served : [Subagents -> History!Versions]]

\* Until it reads the entries, a call has nothing to serve.
EarlySteps == {"idle", "discover", "leases", "bounded", "pending", "stat", "lease"}

\* What call k may be at, with the rows new and the torn reads set: what it found,
\* read and serves is of no version that its source has not reached; and an exact
\* read that was not torn goes on with the version it found.
GoodCall(k, r, set, new) ==
  /\ r \in CallRecords
  /\ \A s \in Subagents : r.served[s] # 0 => s \notin leased /\ r.served[s] <= r.found[s]
  /\ \A s \in Subagents : r.hits[s] # 0 => r.found[s] # 0
  /\ r.step \in EarlySteps => r.served = History!Nothing /\ r.hits = History!Nothing
  /\ \A s \in Subagents : source[s] = 0 \/ (r.found[s] <= source[s] /\ r.hits[s] <= source[s])
  /\ r.step = "checklease" => r.hits[r.at] <= r.found[r.at]
  /\ r.op # "search" =>
       /\ r.step \in {"ranges", "checklease"} => r.todo = {r.target}
       /\ r.step = "check" => r.todo \subseteq {r.target}
       /\ r.step = "checklease" => r.at = r.target
  /\ r.op # "search" /\ k \notin set =>
       /\ r.step = "entries" => new[r.target] = r.found[r.target]
       /\ r.step \in {"ranges", "check", "checklease"} => r.hits[r.target] = r.found[r.target]
       /\ r.step = "check" /\ r.todo = {} => r.served[r.target] = r.found[r.target]

GoodRows(new) ==
  /\ new \in [Subagents -> History!Versions] /\ \A s \in leased : new[s] = 0
  /\ \A s \in Subagents : source[s] = 0 \/ new[s] <= source[s]

HistoryInv == History!TypeOK /\ GoodRows(rows) /\ \A k \in Calls : GoodCall(k, call[k], torn, rows)

LEMMA HistoryTypes ==
  /\ History!NoSession \in Subagents /\ History!Nothing \in [Subagents -> History!Versions] /\ History!Idle \in CallRecords
  /\ 0 \in History!Versions /\ 1 \in History!Versions /\ History!Versions \subseteq Nat
  /\ HistoryInv => call \in [Calls -> CallRecords]
<1>1. History!NoSession \in Subagents
  BY HistoryAssumption DEF History!NoSession
<1>2. 0 \in History!Versions /\ 1 \in History!Versions /\ History!Versions \subseteq Nat
  BY HistoryAssumption DEF History!Versions
<1>3. History!Nothing \in [Subagents -> History!Versions]
  BY <1>2 DEF History!Nothing
<1>4. QED
  BY <1>1, <1>2, <1>3 DEF History!Idle, CallRecords, HistoryInv, History!TypeOK

LEMMA IdleIsGood ==
  ASSUME source \in [Subagents -> History!Versions], NEW k \in Calls, NEW set, NEW new
  PROVE  GoodCall(k, History!Idle, set, new)
<1>1. /\ History!Idle.served = History!Nothing /\ History!Idle.found = History!Nothing /\ History!Idle.hits = History!Nothing
      /\ History!Idle.step = "idle"
  BY DEF History!Idle
<1>2. \A s \in Subagents : History!Nothing[s] = 0 /\ source[s] \in Nat
  BY HistoryTypes DEF History!Nothing
<1>3. QED
  BY <1>1, <1>2, HistoryTypes DEF GoodCall

LEMMA HistoryInitHolds == ASSUME History!Init PROVE HistoryInv
<1>1. History!TypeOK
  BY HistoryTypes DEF History!Init, History!TypeOK, CallRecords
<1>2. \A k \in Calls : GoodCall(k, call[k], torn, rows)
  BY <1>1, IdleIsGood DEF History!Init, History!TypeOK
<1>3. GoodRows(rows)
  BY HistoryTypes DEF GoodRows, History!Nothing, History!Init
<1>4. QED
  BY <1>1, <1>2, <1>3 DEF HistoryInv

\* The pages are current in every state of the invariant.
LEMMA HistoryIsCurrent == ASSUME HistoryInv PROVE History!PagesAreCurrent
BY DEF HistoryInv, GoodCall, GoodRows, History!PagesAreCurrent, History!Exact

\* What a step makes of the torn reads.
Tearing == torn' = {k \in Calls : call'[k] # History!Idle /\ (k \in torn \/ History!Tears(k))}

\* A call that goes on with r, and rows that leave out the sessions of living children.
LEMMA CallHolds ==
  ASSUME HistoryInv, NEW k \in Calls, NEW r, GoodCall(k, r, torn, rows'), History!Step(k, r), Tearing,
         UNCHANGED <<source, leased>>, GoodRows(rows')
  PROVE  HistoryInv'
<1>1. call' \in [Calls -> CallRecords] /\ call'[k] = r /\ \A j \in Calls : j # k => call'[j] = call[j]
  BY HistoryTypes DEF History!Step, GoodCall
<1>2. History!TypeOK'
  BY <1>1 DEF HistoryInv, History!TypeOK, CallRecords, History!Versions, GoodRows, Tearing
<1>3. ASSUME NEW j \in Calls PROVE GoodCall(j, call'[j], torn', rows')
  <2>1. j \notin torn' /\ call'[j].step # "idle" => j \notin torn /\ ~History!Tears(j)
    BY DEF Tearing, History!Idle
  <2>2. CASE j = k
    BY <1>1, <2>1, <2>2 DEF GoodCall
  <2>3. CASE j # k
    <3>1. call'[j] = call[j] /\ GoodCall(j, call[j], torn, rows)
      BY <1>1, <2>3 DEF HistoryInv
    <3>2. j \notin torn' /\ call[j].step = "entries" => rows'[call[j].target] = rows[call[j].target]
      BY <2>1, <3>1 DEF History!Tears
    <3>3. QED
      BY <2>1, <3>1, <3>2 DEF GoodCall
  <2>4. QED
    BY <2>2, <2>3
<1>4. GoodRows(rows)'
  BY DEF GoodRows, History!Versions
<1>5. \A j \in Calls : GoodCall(j, call[j], torn, rows)'
  BY <1>3 DEF GoodCall, CallRecords, History!Versions, History!Nothing
<1>6. QED
  BY <1>2, <1>4, <1>5 DEF HistoryInv

\* A call that returns, and one whose step has nothing to serve.
LEMMA ReturnHolds ==
  ASSUME HistoryInv, NEW k \in Calls, History!Returns(k), Tearing, UNCHANGED <<source, leased>>, GoodRows(rows')
  PROVE  HistoryInv'
<1>1. GoodCall(k, History!Idle, torn, rows')
  BY IdleIsGood DEF HistoryInv, History!TypeOK
<1>2. QED
  BY <1>1, CallHolds DEF History!Returns

LEMMA EarlyIsGood ==
  ASSUME HistoryInv, NEW k \in Calls, call[k].step \in EarlySteps,
         NEW r \in CallRecords, r.served = call[k].served, r.hits = call[k].hits, r.step \in EarlySteps \cup {"entries"},
         \A s \in Subagents : source[s] = 0 \/ r.found[s] <= source[s],
         NEW new, r.step = "entries" => new[r.target] = r.found[r.target]
  PROVE  GoodCall(k, r, torn, new)
<1>1. GoodCall(k, call[k], torn, rows) /\ call[k].served = History!Nothing /\ call[k].hits = History!Nothing
  BY DEF HistoryInv, GoodCall
<1>2. \A s \in Subagents : History!Nothing[s] = 0
  BY DEF History!Nothing
<1>3. QED
  BY <1>1, <1>2 DEF GoodCall, EarlySteps

LEMMA HistoryHolds == ASSUME HistoryInv, [History!Next]_historyVars PROVE HistoryInv'
<1>1. CASE UNCHANGED historyVars
  BY <1>1 DEF historyVars, HistoryInv, History!TypeOK, GoodCall, GoodRows, CallRecords, History!Versions, History!Nothing
<1>2. ASSUME NEW s \in Subagents, History!Writes(s) \/ History!ChildEnds(s) \/ History!Pruned(s), Tearing PROVE HistoryInv'
  <2>1. /\ UNCHANGED <<rows, call>> /\ source' \in [Subagents -> History!Versions] /\ leased' \subseteq leased
        /\ source \in [Subagents -> History!Versions] /\ rows \in [Subagents -> History!Versions]
        /\ \A q \in Subagents : source'[q] = 0 \/ (source[q] # 0 /\ source[q] <= source'[q])
    <3>1. /\ source \in [Subagents -> History!Versions] /\ rows \in [Subagents -> History!Versions]
          /\ \A q \in Subagents : source[q] \in Nat
      BY HistoryTypes DEF HistoryInv, History!TypeOK
    <3>2. CASE History!Writes(s)
      <4>1. /\ source[s] \in 1..(MaxWrites - 1) /\ source' = [source EXCEPT ![s] = source[s] + 1]
            /\ UNCHANGED <<leased, rows, call>>
        BY <3>2 DEF History!Writes
      <4>2. source[s] + 1 \in History!Versions /\ source[s] # 0 /\ source[s] <= source[s] + 1
        BY <3>1, <4>1, HistoryAssumption DEF History!Versions
      <4>3. source' \in [Subagents -> History!Versions]
        BY <3>1, <4>1, <4>2
      <4>4. ASSUME NEW q \in Subagents PROVE source'[q] = 0 \/ (source[q] # 0 /\ source[q] <= source'[q])
        BY <3>1, <4>1, <4>2
      <4>5. QED
        BY <3>1, <4>1, <4>3, <4>4
    <3>3. CASE History!ChildEnds(s)
      BY <3>1, <3>3 DEF History!ChildEnds
    <3>4. CASE History!Pruned(s)
      BY <3>1, <3>4, HistoryTypes DEF History!Pruned
    <3>5. QED
      BY <1>2, <3>2, <3>3, <3>4
  <2>2. History!TypeOK'
    BY <1>2, <2>1 DEF HistoryInv, History!TypeOK, Tearing, History!Versions
  <2>3. GoodRows(rows)'
    BY <2>1, HistoryTypes DEF HistoryInv, GoodRows, History!Versions
  <2>4. ASSUME NEW k \in Calls PROVE GoodCall(k, call[k], torn, rows)'
    <3>1. GoodCall(k, call[k], torn, rows) /\ call[k] \in CallRecords
      BY DEF HistoryInv, GoodCall
    <3>2. k \notin torn' /\ call[k].step # "idle" => k \notin torn
      BY <1>2, <2>1 DEF Tearing, History!Idle
    <3>3. \A q \in Subagents : call[k].found[q] \in Nat /\ call[k].hits[q] \in Nat /\ source[q] \in Nat /\ source'[q] \in Nat
      BY <2>1, <3>1, HistoryTypes DEF CallRecords
    <3>4. \A q \in Subagents : source'[q] = 0 \/ (call[k].found[q] <= source'[q] /\ call[k].hits[q] <= source'[q])
      BY <2>1, <3>1, <3>3 DEF GoodCall
    <3>5. call'[k] = call[k] /\ rows' = rows /\ call'[k] \in CallRecords' /\ History!Nothing' = History!Nothing
      BY <2>1, <3>1 DEF CallRecords, History!Versions, History!Nothing
    <3>6. QED
      BY <2>1, <3>1, <3>2, <3>4, <3>5 DEF GoodCall
  <2>5. QED
    BY <2>2, <2>3, <2>4 DEF HistoryInv
<1>3. ASSUME NEW k \in Calls, History!Begin(k) \/ History!CallStep(k), Tearing PROVE HistoryInv'
  <2> DEFINE c == call[k]
  <2>1. /\ c \in CallRecords /\ rows \in [Subagents -> History!Versions] /\ source \in [Subagents -> History!Versions]
        /\ GoodCall(k, c, torn, rows) /\ GoodRows(rows)
        /\ \A s \in Subagents : c.found[s] \in Nat /\ source[s] \in Nat /\ rows[s] \in Nat /\ c.hits[s] \in Nat /\ c.served[s] \in Nat
        /\ \A s \in Subagents : source[s] = 0 \/ c.found[s] <= source[s]
    <3>1. c \in CallRecords /\ rows \in [Subagents -> History!Versions] /\ source \in [Subagents -> History!Versions]
      BY HistoryTypes DEF HistoryInv, History!TypeOK
    <3>2. GoodCall(k, c, torn, rows) /\ GoodRows(rows)
      BY DEF HistoryInv
    <3>3. QED
      BY <3>1, <3>2, HistoryTypes DEF CallRecords, GoodCall
  <2>2. ASSUME NEW set, History!Delete(set) PROVE GoodRows(rows')
    <3>1. rows' = [s \in Subagents |-> IF s \in set THEN 0 ELSE rows[s]]
      BY <2>2 DEF History!Delete
    <3>2. leased \subseteq Subagents
      BY DEF HistoryInv, History!TypeOK
    <3>3. QED
      BY <2>1, <3>1, <3>2, HistoryTypes DEF GoodRows
  <2>3. CASE History!Begin(k)
    <3>1. PICK op \in {"search", "read", "raw"}, s \in Subagents :
            History!Step(k, [History!Idle EXCEPT !.op = op, !.target = s, !.step = "discover"])
      BY <2>3 DEF History!Begin
    <3> DEFINE r == [History!Idle EXCEPT !.op = op, !.target = s, !.step = "discover"]
    <3>2. c = History!Idle /\ UNCHANGED <<source, leased, rows>> /\ c.step = "idle"
      BY <2>3 DEF History!Begin, History!Idle
    <3>3. r \in CallRecords /\ r.served = c.served /\ r.hits = c.hits /\ r.found = c.found /\ r.step = "discover"
      BY <3>2, HistoryTypes DEF History!Idle, CallRecords
    <3>4. History!Step(k, r)
      BY <3>1
    <3> HIDE DEF r
    <3>5. GoodCall(k, r, torn, rows')
      BY <2>1, <3>2, <3>3, EarlyIsGood DEF EarlySteps
    <3>6. QED
      BY <1>3, <2>1, <3>2, <3>4, <3>5, CallHolds
  <2>4. CASE History!Discover(k)
    <3>1. PICK met \in SUBSET History!Scope(k) :
            History!Step(k, [c EXCEPT !.step = IF met = History!Scope(k) THEN "leases" ELSE "bounded",
                                      !.found = [s \in Subagents |-> IF s \in met THEN source[s] ELSE 0]])
      BY <2>4 DEF History!Discover
    <3> DEFINE f == [s \in Subagents |-> IF s \in met THEN source[s] ELSE 0]
               to == IF met = History!Scope(k) THEN "leases" ELSE "bounded"
               r == [c EXCEPT !.step = to, !.found = f]
    <3>2. f \in [Subagents -> History!Versions] /\ to \in {"leases", "bounded"}
          /\ \A s \in Subagents : source[s] = 0 \/ f[s] <= source[s]
      BY <2>1, HistoryTypes
    <3>3. c.step = "discover" /\ UNCHANGED <<source, leased, rows>>
      BY <2>4 DEF History!Discover
    <3>4. History!Step(k, r)
      BY <3>1
    <3> HIDE DEF f, to
    <3>5. r \in CallRecords /\ r.served = c.served /\ r.hits = c.hits /\ r.step \in {"leases", "bounded"} /\ r.found = f
      BY <2>1, <3>2 DEF CallRecords
    <3> HIDE DEF r
    <3>6. GoodCall(k, r, torn, rows')
      BY <3>2, <3>3, <3>5, EarlyIsGood DEF EarlySteps
    <3>7. QED
      BY <1>3, <2>1, <3>3, <3>4, <3>6, CallHolds
  <2>5. CASE History!Leases(k)
    <3> DEFINE f == [s \in Subagents |-> IF History!Active(s) THEN 0 ELSE c.found[s]]
               t == {s \in Subagents : f[s] # 0 /\ ~History!MatchingRow(s, f)}
               to == IF History!Exact(k) /\ t = {} THEN "entries" ELSE "pending"
               drop == {s \in History!Scope(k) : ~History!MatchingRow(s, f) /\ (c.found[s] # 0 \/ c.step = "leases")}
               r == [c EXCEPT !.step = to, !.found = f, !.todo = t]
    <3>1. f \in [Subagents -> History!Versions] /\ t \in SUBSET Subagents
          /\ \A s \in Subagents : source[s] = 0 \/ f[s] <= source[s]
      BY <2>1, HistoryTypes DEF CallRecords
    <3>2. /\ c.step \in {"leases", "bounded"} /\ UNCHANGED <<source, leased>> /\ GoodRows(rows') /\ History!Delete(drop)
          /\ History!Returns(k) \/ (History!Step(k, r) /\ (History!Exact(k) => f[c.target] # 0))
      BY <2>2, <2>5 DEF History!Leases
    <3>3. ASSUME to = "entries", f[c.target] # 0 PROVE rows'[c.target] = f[c.target]
      <4>1. c.target \in Subagents /\ History!MatchingRow(c.target, f)
        BY <2>1, <3>3 DEF CallRecords
      <4>2. rows'[c.target] = rows[c.target]
        BY <3>2, <4>1 DEF History!Delete
      <4>3. QED
        BY <4>1, <4>2 DEF History!MatchingRow
    <3>4. to \in {"entries", "pending"} /\ (to = "entries" => History!Exact(k))
      OBVIOUS
    <3> HIDE DEF f, t, to, drop
    <3>5. /\ r \in CallRecords /\ r.served = c.served /\ r.hits = c.hits /\ r.step = to /\ r.found = f
          /\ r.target = c.target
      BY <2>1, <3>1, <3>4 DEF CallRecords
    <3> HIDE DEF r
    <3>6. (History!Exact(k) => f[c.target] # 0) => GoodCall(k, r, torn, rows')
      BY <3>1, <3>2, <3>3, <3>4, <3>5, EarlyIsGood DEF EarlySteps
    <3>7. QED
      BY <1>3, <3>2, <3>6, CallHolds, ReturnHolds
  <2>6. ASSUME NEW s \in Subagents, History!Gives(k, s), UNCHANGED <<source, leased, rows>>,
               c.step \in {"pending", "stat", "lease"}
        PROVE  HistoryInv'
    <3> DEFINE r == [c EXCEPT !.todo = @ \ {s}, !.step = "pending"]
    <3>1. r \in CallRecords /\ r.served = c.served /\ r.hits = c.hits /\ r.found = c.found /\ r.step = "pending"
      BY <2>1 DEF CallRecords
    <3>2. History!Returns(k) \/ History!Step(k, r)
      BY <2>6 DEF History!Gives
    <3> HIDE DEF r
    <3>3. GoodCall(k, r, torn, rows')
      BY <2>1, <2>6, <3>1, EarlyIsGood DEF EarlySteps
    <3>4. QED
      BY <1>3, <2>1, <2>6, <3>2, <3>3, CallHolds, ReturnHolds
  <2>7. ASSUME NEW s \in Subagents, NEW to \in {"stat", "lease"}, History!Step(k, [c EXCEPT !.step = to, !.at = s]),
               UNCHANGED <<source, leased, rows>>, c.step \in {"pending", "stat"}
        PROVE  HistoryInv'
    <3> DEFINE r == [c EXCEPT !.step = to, !.at = s]
    <3>1. r \in CallRecords /\ r.served = c.served /\ r.hits = c.hits /\ r.found = c.found /\ r.step \in {"stat", "lease"}
      BY <2>1, <2>7 DEF CallRecords
    <3>2. History!Step(k, r)
      BY <2>7
    <3> HIDE DEF r
    <3>3. GoodCall(k, r, torn, rows')
      BY <2>1, <2>7, <3>1, EarlyIsGood DEF EarlySteps
    <3>4. QED
      BY <1>3, <2>1, <2>7, <3>2, <3>3, CallHolds
  <2>8. CASE \E s \in Subagents : History!ReadStable(k, s)
    BY <2>6, <2>7, <2>8 DEF History!ReadStable
  <2>9. CASE History!StatAfter(k)
    <3>1. c.at \in Subagents /\ [c EXCEPT !.step = "lease"] = [c EXCEPT !.step = "lease", !.at = c.at]
      BY <2>1 DEF CallRecords
    <3>2. QED
      BY <2>6, <2>7, <2>9, <3>1 DEF History!StatAfter
  <2>10. CASE History!LeaseAfter(k)
    <3> DEFINE s == c.at  r == [c EXCEPT !.todo = @ \ {s}, !.step = "pending", !.at = History!NoSession]
    <3>1. s \in Subagents /\ c.step = "lease" /\ UNCHANGED <<source, leased>> /\ c.found[s] \in History!Versions
      BY <2>1, <2>10 DEF CallRecords, History!LeaseAfter
    <3>2. r \in CallRecords /\ r.served = c.served /\ r.hits = c.hits /\ r.found = c.found /\ r.step = "pending"
      BY <2>1, HistoryTypes DEF CallRecords
    <3>3. \/ History!Gives(k, s) /\ UNCHANGED rows
          \/ s \notin leased /\ rows' = [rows EXCEPT ![s] = c.found[s]] /\ History!Step(k, r)
      BY <2>10 DEF History!LeaseAfter, History!Active
    <3> HIDE DEF s, r
    <3>4. s \notin leased /\ rows' = [rows EXCEPT ![s] = c.found[s]] => GoodRows(rows')
      BY <2>1, <3>1 DEF GoodRows
    <3>5. GoodCall(k, r, torn, rows')
      BY <2>1, <3>1, <3>2, EarlyIsGood DEF EarlySteps
    <3>6. QED
      BY <1>3, <2>6, <3>1, <3>3, <3>4, <3>5, CallHolds
  <2>11. CASE History!Match(k)
    <3> DEFINE r == [c EXCEPT !.step = "entries"]
    <3>1. /\ r \in CallRecords /\ r.served = c.served /\ r.hits = c.hits /\ r.found = c.found /\ r.step = "entries"
          /\ r.target = c.target
      BY <2>1 DEF CallRecords
    <3>2. /\ c.step = "pending" /\ UNCHANGED <<source, leased, rows>>
          /\ History!Returns(k) \/ (History!Step(k, r) /\ rows'[c.target] = c.found[c.target])
      BY <2>11 DEF History!Match, History!MatchingRow
    <3> HIDE DEF r
    <3>3. rows'[c.target] = c.found[c.target] => GoodCall(k, r, torn, rows')
      BY <2>1, <3>1, <3>2, EarlyIsGood DEF EarlySteps
    <3>4. QED
      BY <1>3, <2>1, <3>2, <3>3, CallHolds, ReturnHolds
  <2>12. CASE History!Query(k)
    <3> DEFINE hits == {s \in History!Scope(k) : rows[s] # 0 /\ c.found[s] # 0}
               h == [s \in Subagents |-> IF s \in hits THEN rows[s] ELSE 0]
               to == IF c.op = "raw" THEN "ranges" ELSE "check"
               t == IF History!Exact(k) THEN History!Scope(k) ELSE hits
               r == [c EXCEPT !.step = to, !.todo = t, !.hits = h]
    <3>1. /\ h \in [Subagents -> History!Versions] /\ t \in SUBSET Subagents /\ to \in {"ranges", "check"}
          /\ \A s \in Subagents : (source[s] = 0 \/ h[s] <= source[s]) /\ (h[s] # 0 => c.found[s] # 0)
          /\ c.op # "search" => t = {c.target}
      BY <2>1, HistoryTypes DEF CallRecords, History!Scope, History!Exact, GoodRows
    <3>2. c.step = "entries" \/ (c.step = "pending" /\ c.op = "search")
      BY <2>12 DEF History!Query, History!Exact
    <3>3. UNCHANGED <<source, leased, rows>> /\ (History!Returns(k) \/ History!Step(k, r))
      BY <2>12 DEF History!Query, History!Hits
    <3>4. ASSUME c.op # "search", k \notin torn PROVE h[c.target] = c.found[c.target]
      <4>1. c.target \in Subagents /\ rows[c.target] = c.found[c.target] /\ c.target \in History!Scope(k)
        BY <2>1, <3>2, <3>4 DEF CallRecords, GoodCall, History!Scope, History!Exact
      <4>2. QED
        BY <4>1
    <3>5. to = "ranges" => c.op # "search"
      OBVIOUS
    <3> HIDE DEF hits, h, to, t
    <3>6. /\ r \in CallRecords /\ r.served = c.served /\ r.step = to /\ r.hits = h /\ r.todo = t
          /\ r.op = c.op /\ r.found = c.found /\ r.target = c.target
      BY <2>1, <3>1 DEF CallRecords
    <3> HIDE DEF r
    <3>7. GoodCall(k, r, torn, rows')
      BY <2>1, <3>1, <3>4, <3>6 DEF GoodCall, EarlySteps
    <3>8. QED
      BY <1>3, <2>1, <3>3, <3>7, CallHolds, ReturnHolds
  <2>13. CASE History!ReadRanges(k)
    <3> DEFINE r == [c EXCEPT !.step = "check"]
    <3>1. /\ c.step = "ranges" /\ UNCHANGED <<source, leased>>
          /\ \/ History!Step(k, r) /\ UNCHANGED rows
             \/ History!Returns(k) /\ \E set : History!Delete(set)
      BY <2>13 DEF History!ReadRanges
    <3>2. /\ r \in CallRecords /\ r.step = "check" /\ r.op = c.op /\ r.found = c.found /\ r.hits = c.hits /\ r.served = c.served
          /\ r.todo = c.todo /\ r.target = c.target
      BY <2>1 DEF CallRecords
    <3> HIDE DEF r
    <3>3. GoodCall(k, r, torn, rows')
      BY <2>1, <3>1, <3>2 DEF GoodCall, EarlySteps
    <3>4. QED
      BY <1>3, <2>1, <2>2, <3>1, <3>3, CallHolds, ReturnHolds
  <2>14. ASSUME NEW s \in Subagents, History!Refuses(k, s), UNCHANGED <<source, leased>>, c.step \in {"check", "checklease"}
         PROVE  HistoryInv'
    <3> DEFINE r == [c EXCEPT !.todo = @ \ {s}, !.step = "check"]
    <3>1. GoodRows(rows') /\ (History!Returns(k) \/ (History!Step(k, r) /\ c.op = "search"))
      BY <2>2, <2>14 DEF History!Refuses, History!Exact
    <3>2. /\ r \in CallRecords /\ r.step = "check" /\ r.op = c.op /\ r.found = c.found /\ r.hits = c.hits /\ r.served = c.served
      BY <2>1 DEF CallRecords
    <3> HIDE DEF r
    <3>3. c.op = "search" => GoodCall(k, r, torn, rows')
      BY <2>1, <3>2 DEF GoodCall, EarlySteps
    <3>4. QED
      BY <1>3, <2>14, <3>1, <3>3, CallHolds, ReturnHolds
  <2>15. CASE \E s \in Subagents : History!CheckStat(k, s)
    <3>1. PICK s \in Subagents : History!CheckStat(k, s)
      BY <2>15
    <3> DEFINE r == [c EXCEPT !.step = "checklease", !.at = s]
    <3>2. /\ c.step = "check" /\ s \in c.todo /\ UNCHANGED <<source, leased>>
          /\ (History!Step(k, r) /\ UNCHANGED rows /\ source[s] = c.found[s]) \/ History!Refuses(k, s)
      BY <3>1 DEF History!CheckStat, History!Signed
    <3>3. /\ r \in CallRecords /\ r.step = "checklease" /\ r.op = c.op /\ r.found = c.found /\ r.hits = c.hits /\ r.served = c.served
          /\ r.todo = c.todo /\ r.target = c.target /\ r.at = s
      BY <2>1 DEF CallRecords
    <3> HIDE DEF r
    <3>4. ASSUME source[s] = c.found[s] PROVE GoodCall(k, r, torn, rows')
      <4>1. c.op # "search" => s = c.target /\ c.todo = {c.target}
        BY <2>1, <3>2 DEF GoodCall
      <4>2. c.hits[s] <= c.found[s]
        <5>1. c.hits[s] \in Nat /\ (c.hits[s] # 0 => c.found[s] # 0) /\ (source[s] = 0 \/ c.hits[s] <= source[s])
          BY <2>1, HistoryTypes DEF GoodCall, CallRecords
        <5>2. QED
          BY <3>4, <5>1
      <4>3. \A q \in Subagents :
              /\ r.served[q] # 0 => q \notin leased /\ r.served[q] <= r.found[q]
              /\ source[q] = 0 \/ (r.found[q] <= source[q] /\ r.hits[q] <= source[q])
        BY <2>1, <3>3 DEF GoodCall
      <4>4. QED
        BY <2>1, <3>2, <3>3, <4>1, <4>2, <4>3 DEF GoodCall, EarlySteps
    <3>5. QED
      BY <1>3, <2>1, <2>14, <3>2, <3>4, CallHolds
  <2>16. CASE History!CheckLease(k)
    <3> DEFINE s == c.at  r == [c EXCEPT !.step = "check", !.at = History!NoSession, !.todo = @ \ {s}, !.served[s] = c.hits[s]]
    <3>1. s \in Subagents /\ c.step = "checklease" /\ UNCHANGED <<source, leased>>
      BY <2>1, <2>16 DEF CallRecords, History!CheckLease
    <3>2. CASE s \in leased
      BY <2>14, <2>16, <3>1, <3>2 DEF History!CheckLease, History!Active
    <3>3. CASE s \notin leased
      <4>1. History!Step(k, r) /\ rows' = rows
        BY <2>16, <3>3 DEF History!CheckLease, History!Active
      <4>2. r \in CallRecords /\ r.op = c.op /\ r.found = c.found /\ r.hits = c.hits /\ r.step = "check" /\ r.target = c.target
            /\ r.served = [c.served EXCEPT ![s] = c.hits[s]] /\ r.todo = c.todo \ {s}
        BY <2>1, <3>1, HistoryTypes DEF CallRecords
      <4>3. c.hits[s] <= c.found[s] /\ (c.op # "search" => s = c.target /\ c.todo = {c.target})
        BY <2>1, <3>1 DEF GoodCall
      <4> HIDE DEF r, s
      <4>4. \A q \in Subagents : r.served[q] # 0 => q \notin leased /\ r.served[q] <= r.found[q]
        BY <2>1, <3>1, <3>3, <4>2, <4>3 DEF CallRecords, GoodCall
      <4>5. c.op # "search" /\ k \notin torn => r.served[r.target] = r.found[r.target]
        BY <2>1, <3>1, <4>2, <4>3 DEF CallRecords, GoodCall
      <4>6. c.op # "search" => r.todo = {}
        BY <4>2, <4>3
      <4>7. GoodCall(k, r, torn, rows')
        BY <2>1, <3>1, <4>2, <4>4, <4>5, <4>6 DEF GoodCall, EarlySteps
      <4>8. QED
        BY <1>3, <2>1, <3>1, <4>1, <4>7, CallHolds
    <3>4. QED
      BY <3>2, <3>3
  <2>17. CASE History!Serve(k)
    BY <1>3, <2>1, <2>17, ReturnHolds DEF History!Serve
  <2>18. QED
    BY <1>3, <2>3, <2>4, <2>5, <2>8, <2>9, <2>10, <2>11, <2>12, <2>13, <2>15, <2>16, <2>17 DEF History!CallStep
<1>4. QED
  BY <1>1, <1>2, <1>3 DEF History!Next, Tearing

LEMMA HistoryMoves ==
  /\ KeptInit => History!Init
  /\ [KeptNext]_keptVars => [History!Next]_historyVars
BY DEF KeptInit, KeptNext, keptVars
-----------------------------------------------------------------------------
(* The archive of a session.                                               *)

ProcRecords ==
  [pc : Archive!PCs, open : BOOLEAN, kind : {"archive", "restore"},
   by : {"user", "journal", "pending"}, text : 0..MaxText, held : 0..MaxText]

LEMMA ArchiveTypes ==
  /\ MaxText \in Nat \ {0} /\ MaxDeaths \in Nat /\ 0 \in 0..MaxText /\ 1 \in 0..MaxText
  /\ Archive!Off \in ProcRecords /\ Archive!NoRow \in Archive!Rows
BY ArchiveAssumption DEF Archive!Off, ProcRecords, Archive!NoRow, Archive!Rows, Archive!PCs

\* Where a process goes.
LEMMA GotoType ==
  ASSUME Archive!TypeOK, NEW p \in Procs, NEW pc_ \in Archive!PCs, Archive!Goto(p, pc_)
  PROVE  proc' \in [Procs -> ProcRecords]
BY DEF Archive!TypeOK, Archive!Goto, ProcRecords

LEMMA OverType == ASSUME Archive!TypeOK, NEW p \in Procs, Archive!Over(p) PROVE proc' \in [Procs -> ProcRecords]
<1> DEFINE r == IF proc[p].held = 0 THEN [Archive!Off EXCEPT !.pc = "idle", !.open = proc[p].open]
                ELSE [Archive!Off EXCEPT !.pc = "check", !.text = proc[p].held]
<1>1. r \in ProcRecords
  BY ArchiveTypes DEF Archive!TypeOK, ProcRecords, Archive!PCs
<1>2. proc' = [proc EXCEPT ![p] = r]
  BY DEF Archive!Over
<1>3. proc \in [Procs -> ProcRecords]
  BY DEF Archive!TypeOK, ProcRecords
<1> HIDE DEF r
<1>4. QED
  BY <1>1, <1>2, <1>3

LEMMA ThrowType ==
  ASSUME Archive!TypeOK, NEW p \in Procs, Archive!Finish(p)
  PROVE  proc' \in [Procs -> ProcRecords]
BY GotoType, OverType DEF Archive!Finish, Archive!PCs

LEMMA MarkType == ASSUME Archive!TypeOK, Archive!MarkError PROVE row' \in Archive!Rows
BY DEF Archive!TypeOK, Archive!MarkError, Archive!Rows

LEMMA ArchiveTypeStarts == ASSUME Archive!Init PROVE Archive!TypeOK
BY ArchiveTypes DEF Archive!Init, Archive!TypeOK, ProcRecords, Archive!Files, Archive!Rows, Archive!NoRow, Archive!Places

LEMMA ArchiveTypeHolds == ASSUME Archive!TypeOK, [Archive!Next]_archiveVars PROVE Archive!TypeOK'
<1>1. CASE UNCHANGED archiveVars
  BY <1>1 DEF archiveVars, Archive!TypeOK
<1>2. ASSUME NEW p \in Procs,
             Archive!SessionStarts(p) \/ Archive!Quit(p) \/ Archive!Crash(p) \/ Archive!AppendEntry(p)
             \/ Archive!Command(p) \/ Archive!Recovery(p) \/ Archive!Move(p)
      PROVE  Archive!TypeOK'
  <2>1. /\ files \in [Archive!Places -> Archive!Files] /\ row \in Archive!Rows /\ journal \in 0..MaxText
        /\ proc \in [Procs -> ProcRecords] /\ archiveCrashes \in 0..MaxDeaths
    BY DEF Archive!TypeOK, ProcRecords
  <2>2. /\ proc[p].pc \in Archive!PCs /\ proc[p].open \in BOOLEAN /\ proc[p].text \in 0..MaxText
        /\ proc[p].held \in 0..MaxText /\ proc[p].kind \in {"archive", "restore"}
    BY <2>1 DEF ProcRecords
  <2> SUFFICES /\ files' \in [Archive!Places -> Archive!Files] /\ row' \in Archive!Rows /\ journal' \in 0..MaxText
               /\ proc' \in [Procs -> ProcRecords] /\ archiveCrashes' \in 0..MaxDeaths
    BY DEF Archive!TypeOK, ProcRecords
  <2>3. \A r \in ProcRecords : [proc EXCEPT ![p] = r] \in [Procs -> ProcRecords]
    BY <2>1
  <2>4. row.text \in 0..MaxText /\ \A place \in Archive!Places : files[place] # NoFile => files[place].text \in 0..MaxText
    BY <2>1 DEF Archive!Rows, Archive!Files
  <2>5. \A text \in 0..MaxText : Archive!Import(text) => row' \in Archive!Rows
    BY <2>1 DEF Archive!Import, Archive!Rows
  <2>6. Archive!DeleteRow => row' \in Archive!Rows /\ journal' \in 0..MaxText
    BY ArchiveTypes DEF Archive!DeleteRow
  <2>7. "active" \in Archive!Places /\ "archive" \in Archive!Places
    BY DEF Archive!Places
  <2>8. CASE Archive!SessionStarts(p) \/ Archive!Quit(p) \/ Archive!Crash(p)
    <3>1. UNCHANGED <<files, row, journal>>
      BY <2>8 DEF Archive!SessionStarts, Archive!Quit, Archive!Crash
    <3>2. archiveCrashes' \in 0..MaxDeaths
      <4>1. archiveCrashes' = archiveCrashes \/ (archiveCrashes < MaxDeaths /\ archiveCrashes' = archiveCrashes + 1)
        BY <2>8 DEF Archive!SessionStarts, Archive!Quit, Archive!Crash
      <4>2. QED
        BY <2>1, <4>1, ArchiveTypes
    <3>3. proc' \in [Procs -> ProcRecords]
      <4>1. CASE Archive!SessionStarts(p)
        <5>1. PICK open_ \in BOOLEAN : proc' = [proc EXCEPT ![p].pc = "journal", ![p].open = open_]
          BY <4>1 DEF Archive!SessionStarts, Archive!Begin, Archive!Parses, Archive!Alone
        <5> DEFINE r == [proc[p] EXCEPT !.pc = "journal", !.open = open_]
        <5>2. r \in ProcRecords
          BY <2>1 DEF ProcRecords, Archive!PCs
        <5>3. proc' = [proc EXCEPT ![p] = r]
          BY <2>1, <5>1 DEF ProcRecords
        <5> HIDE DEF r
        <5>4. QED
          BY <2>3, <5>2, <5>3
      <4>2. CASE Archive!Quit(p) \/ Archive!Crash(p)
        BY <2>3, <4>2, ArchiveTypes DEF Archive!Quit, Archive!Crash
      <4>3. QED
        BY <2>8, <4>1, <4>2
    <3>4. QED
      BY <2>1, <3>1, <3>2, <3>3
  <2>9. CASE Archive!AppendEntry(p)
    <3>1. UNCHANGED <<row, journal, proc, archiveCrashes>>
      BY <2>9 DEF Archive!AppendEntry
    <3>2. files' \in [Archive!Places -> Archive!Files]
      <4> DEFINE f == files["active"]
      <4>1. f \in Archive!Files
        BY <2>1, <2>7
      <4> DEFINE g == IF f = NoFile THEN [text |-> 0, ro |-> FALSE]
                      ELSE IF f.text = 0 THEN f ELSE [f EXCEPT !.text = f.text + 1]
      <4>2. files' = [files EXCEPT !["active"] = g] /\ (f # NoFile => f.text < MaxText)
        BY <2>9 DEF Archive!AppendEntry, Archive!Exists, Archive!Fragment
      <4>3. g \in Archive!Files
        BY <4>1, <4>2, ArchiveTypes DEF Archive!Files
      <4>4. QED
        BY <2>1, <4>2, <4>3
    <3>3. QED
      BY <2>1, <3>1, <3>2
  <2>10. CASE Archive!Command(p)
    <3>1. UNCHANGED <<files, archiveCrashes>>
      BY <2>10 DEF Archive!Command, Archive!Stage, Archive!Confirmed, Archive!ImportPending, Archive!Switched,
         Archive!SwitchCancelled, Archive!ChooseRestore, Archive!BeginRestore, Archive!PlanRebuild, Archive!ApplyRebuild
    <3>2. row' \in Archive!Rows /\ journal' \in 0..MaxText
      BY <2>1, <2>2, <2>4, <2>5, <2>6, <2>10
         DEF Archive!Command, Archive!Stage, Archive!Confirmed, Archive!ImportPending, Archive!Switched,
         Archive!SwitchCancelled, Archive!ChooseRestore, Archive!BeginRestore, Archive!PlanRebuild, Archive!ApplyRebuild
    <3>3. proc' \in [Procs -> ProcRecords]
      <4>1. CASE \/ Archive!Over(p)
                 \/ \E pc_ \in Archive!PCs : Archive!Goto(p, pc_)
        BY <4>1, OverType, GotoType
      <4>2. CASE Archive!Stage(p) \/ Archive!PlanRebuild(p)
        <5>1. PICK place \in Archive!Places, pc_ \in Archive!PCs :
                files[place] # NoFile /\ proc' = [proc EXCEPT ![p] = [@ EXCEPT !.pc = pc_, !.text = files[place].text]]
          BY <2>7, <4>2 DEF Archive!Stage, Archive!PlanRebuild, Archive!Parses, Archive!Exists, Archive!PCs
        <5>2. QED
          BY <2>1, <2>4, <5>1 DEF ProcRecords
      <4>3. CASE Archive!Switched(p)
        BY <2>1, <2>2, <4>3, ArchiveTypes DEF Archive!Switched, Archive!Off, ProcRecords, Archive!PCs
      <4>4. CASE Archive!BeginRestore(p)
        <5> DEFINE r == [proc[p] EXCEPT !.pc = "check", !.kind = "restore", !.text = row.text]
        <5>1. r \in ProcRecords
          BY <2>1, <2>4 DEF ProcRecords, Archive!PCs
        <5>2. Archive!Over(p) \/ proc' = [proc EXCEPT ![p] = r]
          BY <4>4 DEF Archive!BeginRestore
        <5> HIDE DEF r
        <5>3. QED
          BY <2>3, <4>1, <5>1, <5>2
      <4>5. CASE Archive!Confirmed(p) \/ Archive!ImportPending(p) \/ Archive!SwitchCancelled(p) \/ Archive!ChooseRestore(p)
                 \/ Archive!ApplyRebuild(p)
        BY <4>1, <4>5 DEF Archive!Confirmed, Archive!ImportPending, Archive!SwitchCancelled, Archive!ChooseRestore,
           Archive!ApplyRebuild, Archive!PCs
      <4>6. QED
        BY <2>10, <4>2, <4>3, <4>4, <4>5 DEF Archive!Command
    <3>4. QED
      BY <2>1, <3>1, <3>2, <3>3
  <2>11. CASE Archive!Recovery(p)
    <3>1. UNCHANGED <<files, archiveCrashes, journal>> /\ row' \in Archive!Rows
      BY <2>1, <2>11, MarkType DEF Archive!Recovery, Archive!ReconcileJournal, Archive!ReconcilePending
    <3>2. \/ Archive!Over(p)
          \/ \E pc_ \in Archive!PCs : Archive!Goto(p, pc_)
          \/ \E pc_ \in Archive!PCs, kind_ \in {"archive", "restore"}, by_ \in {"user", "journal", "pending"}, text \in 0..MaxText :
               proc' = [proc EXCEPT ![p] = [@ EXCEPT !.pc = pc_, !.kind = kind_, !.by = by_, !.text = text]]
      <4>1. CASE Archive!ReconcileJournal(p)
        BY <2>1, <4>1 DEF Archive!ReconcileJournal, Archive!PCs
      <4>2. CASE Archive!ReconcilePending(p)
        BY <2>4, <4>2 DEF Archive!ReconcilePending, Archive!PCs
      <4>3. QED
        BY <2>11, <4>1, <4>2 DEF Archive!Recovery
    <3>3. proc' \in [Procs -> ProcRecords]
      <4>1. ASSUME NEW pc_ \in Archive!PCs, NEW kind_ \in {"archive", "restore"}, NEW by_ \in {"user", "journal", "pending"},
                   NEW text \in 0..MaxText
            PROVE  [proc[p] EXCEPT !.pc = pc_, !.kind = kind_, !.by = by_, !.text = text] \in ProcRecords
        BY <2>1 DEF ProcRecords
      <4>2. CASE \E pc_ \in Archive!PCs, kind_ \in {"archive", "restore"}, by_ \in {"user", "journal", "pending"}, text \in 0..MaxText :
               proc' = [proc EXCEPT ![p] = [@ EXCEPT !.pc = pc_, !.kind = kind_, !.by = by_, !.text = text]]
        <5>1. PICK pc_ \in Archive!PCs, kind_ \in {"archive", "restore"}, by_ \in {"user", "journal", "pending"}, text \in 0..MaxText :
               proc' = [proc EXCEPT ![p] = [@ EXCEPT !.pc = pc_, !.kind = kind_, !.by = by_, !.text = text]]
          BY <4>2
        <5> DEFINE r == [proc[p] EXCEPT !.pc = pc_, !.kind = kind_, !.by = by_, !.text = text]
        <5>2. r \in ProcRecords /\ proc' = [proc EXCEPT ![p] = r]
          BY <4>1, <5>1
        <5> HIDE DEF r
        <5>3. QED
          BY <2>3, <5>2
      <4>3. QED
        BY <3>2, <4>2, OverType, GotoType
    <3>4. QED
      BY <2>1, <3>1, <3>3
  <2>12. CASE Archive!Move(p)
    <3>1. archiveCrashes' = archiveCrashes
      BY <2>12 DEF Archive!Move, Archive!CheckMove, Archive!DropSource, Archive!Rename, Archive!VerifyMove, Archive!CopyAcross,
         Archive!UnlinkSource, Archive!Chmod, Archive!Commit
    <3>2. Archive!Throw(p) => proc' \in [Procs -> ProcRecords] /\ row' \in Archive!Rows /\ journal' = journal
      BY <2>1, ThrowType, MarkType DEF Archive!Throw
    <3>3. proc' \in [Procs -> ProcRecords] /\ row' \in Archive!Rows /\ journal' \in 0..MaxText
      <4>1. \/ Archive!Throw(p)
            \/ (\E pc_ \in Archive!PCs : Archive!Goto(p, pc_)) /\ UNCHANGED <<row, journal>>
            \/ Archive!DeleteRow /\ Archive!Finish(p)
            \/ row' = [row EXCEPT !.state = "archived"] /\ UNCHANGED journal /\ Archive!Finish(p)
        BY <2>12 DEF Archive!Move, Archive!CheckMove, Archive!DropSource, Archive!Rename, Archive!VerifyMove, Archive!CopyAcross,
           Archive!UnlinkSource, Archive!Chmod, Archive!Commit, Archive!PCs
      <4>2. [row EXCEPT !.state = "archived"] \in Archive!Rows
        BY <2>1 DEF Archive!Rows
      <4>3. QED
        BY <2>1, <2>6, <3>2, <4>1, <4>2, GotoType, ThrowType
    <3>4. files' \in [Archive!Places -> Archive!Files]
      <4>1. Archive!From(p) \in Archive!Places /\ Archive!To(p) \in Archive!Places
        BY <2>7 DEF Archive!From, Archive!To
      <4>2. NoFile \in Archive!Files /\ files[Archive!From(p)] \in Archive!Files /\ files[Archive!To(p)] \in Archive!Files
        BY <2>1, <4>1 DEF Archive!Files
      <4>3. \A a, b \in Archive!Files : /\ [files EXCEPT ![Archive!From(p)] = a] \in [Archive!Places -> Archive!Files]
                                         /\ [files EXCEPT ![Archive!To(p)] = a] \in [Archive!Places -> Archive!Files]
                                         /\ [files EXCEPT ![Archive!From(p)] = a, ![Archive!To(p)] = b] \in [Archive!Places -> Archive!Files]
                                         /\ [files EXCEPT ![Archive!To(p)] = b, ![Archive!From(p)] = a] \in [Archive!Places -> Archive!Files]
        BY <2>1, <4>1
      <4>4. CASE Archive!Chmod(p)
        <5>1. \/ files' = files
              \/ \E ro_ \in BOOLEAN : files[Archive!To(p)] # NoFile /\ files' = [files EXCEPT ![Archive!To(p)].ro = ro_]
          BY <4>4 DEF Archive!Chmod, Archive!Exists
        <5>2. QED
          BY <2>1, <4>1, <4>2, <5>1 DEF Archive!Files
      <4>5. CASE ~Archive!Chmod(p)
        BY <2>1, <2>12, <4>2, <4>3, <4>5 DEF Archive!Move, Archive!CheckMove, Archive!DropSource, Archive!Rename, Archive!VerifyMove,
           Archive!CopyAcross, Archive!UnlinkSource, Archive!Commit, Archive!Remove
      <4>6. QED
        BY <4>4, <4>5
    <3>5. QED
      BY <2>1, <3>1, <3>3, <3>4
  <2>13. QED
    BY <1>2, <2>8, <2>9, <2>10, <2>11, <2>12
<1>3. QED
  BY <1>1, <1>2 DEF Archive!Next

\* Where a process is in the move of a file, while no other one moves it.
AtItsMove(p) ==
  LET c == proc[p]  from == Archive!From(p)  to == Archive!To(p) IN
  /\ c.pc \in {"off", "idle", "confirm", "import", "switching", "begin", "planned", "journal"} => c.kind = "archive"
  /\ c.pc \in {"drop", "dropCopied", "unlink"} => Archive!Has(from, c.text) /\ Archive!Has(to, c.text)
  /\ c.pc = "unlink" => c.kind = "archive"
  /\ c.pc \in {"rename", "copy"} => Archive!Has(from, c.text) /\ ~Archive!Exists(to)
  /\ c.pc \in {"verify", "chmod", "commit"} => Archive!Has(to, c.text)
  /\ c.pc = "commit" /\ c.kind = "archive" => files["archive"].ro
  /\ c.pc \in {"check", "drop", "rename", "verify", "copy", "dropCopied", "chmod", "commit"} /\ c.kind = "restore" => journal # 0
  /\ c.pc \in {"confirm", "import", "switching", "planned"} => c.text # 0

RowHasText == row.state # "none" => row.text # 0

MoveInv == Archive!TypeOK /\ Archive!ArchivedIsReadable /\ RowHasText /\ \A p \in Procs : AtItsMove(p)

LEMMA MoveInitHolds == ASSUME Archive!Init PROVE MoveInv
<1>1. \A p \in Procs : proc[p].pc = "off" /\ proc[p].kind = "archive"
  BY DEF Archive!Init, Archive!Off
<1>2. row.state = "none"
  BY DEF Archive!Init, Archive!NoRow
<1>3. QED
  BY <1>1, <1>2, ArchiveTypeStarts DEF MoveInv, Archive!ArchivedIsReadable, RowHasText, AtItsMove

\* What the process p has in hand.
LEMMA InHand ==
  ASSUME MoveInv, NEW p \in Procs
  PROVE  /\ proc \in [Procs -> ProcRecords] /\ files \in [Archive!Places -> Archive!Files] /\ row \in Archive!Rows
         /\ journal \in 0..MaxText /\ proc[p] \in ProcRecords
         /\ Archive!From(p) \in {"active", "archive"} /\ Archive!To(p) \in {"active", "archive"} /\ Archive!From(p) # Archive!To(p)
         /\ (proc[p].kind = "archive" => Archive!To(p) = "archive" /\ Archive!From(p) = "active")
         /\ (proc[p].kind = "restore" => Archive!To(p) = "active" /\ Archive!From(p) = "archive")
BY DEF MoveInv, Archive!TypeOK, ProcRecords, Archive!From, Archive!To

\* An operation that is over, or has failed, moves nothing.
LEMMA OverIsNoMove ==
  ASSUME MoveInv, NEW p \in Procs, Archive!Over(p)
  PROVE  AtItsMove(p)'
<1>1. proc'[p].kind = "archive" /\ proc'[p].pc \in {"idle", "check"}
  BY InHand DEF Archive!Over, Archive!Off
<1>2. QED
  BY <1>1 DEF AtItsMove

LEMMA FinishIsNoMove ==
  ASSUME MoveInv, NEW p \in Procs, Archive!Finish(p)
  PROVE  AtItsMove(p)'
<1>1. CASE Archive!Over(p)
  BY <1>1, OverIsNoMove
<1>2. CASE Archive!Goto(p, "pending")
  <2>1. proc'[p].pc = "pending"
    BY <1>2, InHand DEF Archive!Goto, ProcRecords
  <2>2. QED
    BY <2>1 DEF AtItsMove
<1>3. QED
  BY <1>1, <1>2 DEF Archive!Finish

\* A failure changes no file and no journal, and archives nothing.
LEMMA ThrowHolds ==
  ASSUME MoveInv, NEW p \in Procs, Archive!Throw(p), files' = files
  PROVE  Archive!ArchivedIsReadable' /\ RowHasText' /\ AtItsMove(p)'
<1>1. journal' = journal /\ (row' = row \/ (row.state # "none" /\ row' = [row EXCEPT !.state = "error"]))
  BY DEF Archive!Throw, Archive!MarkError
<1>2. row' = row \/ (row.state # "none" /\ row'.state = "error" /\ row'.text = row.text)
  BY <1>1, InHand DEF Archive!Rows
<1>3. QED
  BY <1>1, <1>2, FinishIsNoMove DEF MoveInv, Archive!ArchivedIsReadable, RowHasText, Archive!Throw

LEMMA CommandHolds ==
  ASSUME MoveInv, NEW p \in Procs, Archive!SessionStarts(p) \/ Archive!Quit(p) \/ Archive!Crash(p) \/ Archive!Command(p)
  PROVE  Archive!ArchivedIsReadable' /\ RowHasText' /\ AtItsMove(p)' /\ files' = files
<1>1. files' = files
  BY DEF Archive!SessionStarts, Archive!Quit, Archive!Crash, Archive!Command, Archive!Stage, Archive!Confirmed, Archive!ImportPending, Archive!Switched,
     Archive!SwitchCancelled, Archive!ChooseRestore, Archive!BeginRestore, Archive!PlanRebuild, Archive!ApplyRebuild
<1>2. /\ proc[p] \in ProcRecords /\ AtItsMove(p) /\ RowHasText /\ Archive!ArchivedIsReadable
  BY InHand DEF MoveInv
<1>3. ASSUME NEW text \in Nat, text # 0, Archive!Import(text), UNCHANGED journal PROVE Archive!ArchivedIsReadable' /\ RowHasText'
  BY <1>1, <1>2, <1>3 DEF Archive!Import, Archive!ArchivedIsReadable, RowHasText
<1>4. Archive!DeleteRow => Archive!ArchivedIsReadable' /\ RowHasText'
  BY DEF Archive!DeleteRow, Archive!NoRow, Archive!ArchivedIsReadable, RowHasText
<1>5. UNCHANGED <<row, journal>> => Archive!ArchivedIsReadable' /\ RowHasText'
  BY <1>1, <1>2 DEF Archive!ArchivedIsReadable, RowHasText
<1>6. \A place : Archive!Parses(place) => files[place].text # 0
  BY DEF Archive!Parses, Archive!Fragment
<1>7. ASSUME NEW pc_ \in Archive!PCs, Archive!Goto(p, pc_) PROVE proc'[p] = [proc[p] EXCEPT !.pc = pc_]
  BY <1>7, InHand DEF Archive!Goto
<1>8. CASE Archive!SessionStarts(p)
  <2>1. proc'[p].pc = "journal" /\ proc'[p].kind = proc[p].kind /\ proc[p].pc \in {"off", "idle"}
    BY <1>2, <1>8, InHand DEF Archive!SessionStarts, Archive!Begin, Archive!At, ProcRecords
  <2>2. QED
    BY <1>1, <1>2, <1>5, <1>8, <2>1 DEF AtItsMove, Archive!SessionStarts
<1>9. CASE Archive!Quit(p) \/ Archive!Crash(p)
  <2>1. proc'[p].pc = "off" /\ proc'[p].kind = "archive" /\ UNCHANGED <<row, journal>>
    BY <1>2, <1>9, InHand DEF Archive!Quit, Archive!Crash, Archive!Off
  <2>2. QED
    BY <1>1, <1>2, <1>5, <2>1 DEF AtItsMove
<1>10. CASE Archive!Stage(p) \/ Archive!PlanRebuild(p)
  <2>1. /\ proc'[p].pc \in {"confirm", "import", "planned"} /\ proc'[p].text # 0 /\ proc'[p].kind = proc[p].kind /\ proc[p].pc = "idle"
        /\ UNCHANGED <<row, journal>>
    <3>1. PICK place \in {"active", "archive"}, pc_ \in {"confirm", "import", "planned"} :
            proc' = [proc EXCEPT ![p] = [@ EXCEPT !.pc = pc_, !.text = files[place].text]] /\ Archive!Parses(place)
      BY <1>10 DEF Archive!Stage, Archive!PlanRebuild
    <3>2. proc'[p].pc = pc_ /\ proc'[p].text = files[place].text /\ proc'[p].kind = proc[p].kind
      BY <3>1, InHand DEF ProcRecords
    <3>3. proc[p].pc = "idle" /\ UNCHANGED <<row, journal>>
      BY <1>10 DEF Archive!Stage, Archive!PlanRebuild, Archive!At
    <3>4. QED
      BY <1>6, <3>1, <3>2, <3>3
  <2>2. QED
    BY <1>1, <1>2, <1>5, <2>1 DEF AtItsMove
<1>11. CASE Archive!Confirmed(p)
  <2>1. Archive!Over(p) \/ (proc'[p].pc = "import" /\ proc'[p].kind = proc[p].kind /\ proc'[p].text = proc[p].text /\ proc[p].pc = "confirm")
    BY <1>2, <1>11, InHand DEF Archive!Confirmed, Archive!Goto, Archive!At, ProcRecords
  <2>2. UNCHANGED <<row, journal>>
    BY <1>11 DEF Archive!Confirmed
  <2>3. QED
    BY <1>1, <1>2, <1>5, <2>1, <2>2, OverIsNoMove DEF AtItsMove
<1>12. CASE Archive!ImportPending(p)
  <2>1. proc[p].pc = "import" /\ proc[p].text # 0 /\ proc[p].kind = "archive" /\ proc[p].text \in Nat
    BY <1>2, <1>12 DEF Archive!ImportPending, Archive!At, AtItsMove, ProcRecords
  <2>2. UNCHANGED journal /\ (UNCHANGED row \/ Archive!Import(proc[p].text))
    BY <1>12 DEF Archive!ImportPending
  <2>3. Archive!Over(p) \/ (proc'[p].pc \in {"switching", "check"} /\ proc'[p].kind = "archive" /\ proc'[p].text = proc[p].text)
    BY <1>2, <1>12, <2>1, InHand DEF Archive!ImportPending, Archive!Goto, ProcRecords
  <2>4. QED
    BY <1>1, <1>3, <1>5, <2>1, <2>2, <2>3, OverIsNoMove DEF AtItsMove
<1>13. CASE Archive!Switched(p)
  <2>1. proc'[p].pc = "journal" /\ proc'[p].kind = "archive" /\ UNCHANGED <<row, journal>>
    BY <1>13, InHand DEF Archive!Switched, Archive!Off
  <2>2. QED
    BY <1>1, <1>2, <1>5, <2>1 DEF AtItsMove
<1>14. CASE Archive!SwitchCancelled(p)
  BY <1>1, <1>4, <1>5, <1>14, OverIsNoMove DEF Archive!SwitchCancelled
<1>15. CASE Archive!ChooseRestore(p)
  <2>1. /\ proc'[p].pc = "begin" /\ proc'[p].kind = proc[p].kind /\ proc[p].pc = "idle" /\ UNCHANGED <<row, journal>>
    BY <1>2, <1>15, InHand DEF Archive!ChooseRestore, Archive!Goto, Archive!At, ProcRecords
  <2>2. QED
    BY <1>1, <1>2, <1>5, <2>1 DEF AtItsMove
<1>16. CASE Archive!BeginRestore(p)
  <2>1. row' = row
    BY <1>16 DEF Archive!BeginRestore
  <2>2. CASE Archive!Over(p) /\ UNCHANGED journal
    BY <1>1, <1>5, <2>1, <2>2, OverIsNoMove
  <2>3. CASE row.state = "archived"
    <3>1. journal' = (IF journal = 0 THEN row.text ELSE journal) /\ row.text # 0
      BY <1>2, <1>16, <2>3 DEF Archive!BeginRestore, RowHasText
    <3>2. proc'[p].pc = "check" /\ journal' # 0
      BY <1>2, <1>16, <2>3, <3>1, InHand DEF Archive!BeginRestore, ProcRecords
    <3>3. QED
      BY <1>1, <1>2, <2>1, <3>2 DEF AtItsMove, Archive!ArchivedIsReadable, RowHasText
  <2>4. QED
    BY <1>16, <2>2, <2>3 DEF Archive!BeginRestore
<1>17. CASE Archive!ApplyRebuild(p)
  <2>1. proc[p].pc = "planned" /\ proc[p].text # 0 /\ proc[p].kind = "archive" /\ proc[p].text \in Nat
    BY <1>2, <1>17 DEF Archive!ApplyRebuild, Archive!At, AtItsMove, ProcRecords
  <2>2. UNCHANGED journal
    BY <1>17 DEF Archive!ApplyRebuild
  <2>3. CASE Archive!Over(p) /\ UNCHANGED row
    BY <1>1, <1>5, <2>2, <2>3, OverIsNoMove
  <2>4. CASE Archive!Has("archive", proc[p].text) /\ Archive!Import(proc[p].text) /\ Archive!Goto(p, "chmod")
    <3>1. /\ proc'[p].pc = "chmod" /\ proc'[p].kind = "archive" /\ proc'[p].text = proc[p].text
      BY <1>2, <2>1, <2>4, InHand DEF Archive!Goto, ProcRecords
    <3>2. Archive!Has("archive", proc[p].text)'
      BY <1>1, <2>4, <3>1 DEF Archive!Has, Archive!Exists
    <3>3. AtItsMove(p)'
      BY <3>1, <3>2 DEF AtItsMove, Archive!To
    <3>4. QED
      BY <1>1, <1>3, <2>1, <2>2, <2>4, <3>3
  <2>5. QED
    BY <1>17, <2>3, <2>4 DEF Archive!ApplyRebuild
<1>18. QED
  BY <1>1, <1>8, <1>9, <1>10, <1>11, <1>12, <1>13, <1>14, <1>15, <1>16, <1>17 DEF Archive!Command

LEMMA AppendHolds ==
  ASSUME MoveInv, NEW p \in Procs, Archive!AppendEntry(p)
  PROVE  /\ Archive!ArchivedIsReadable' /\ RowHasText' /\ AtItsMove(p)'
         /\ \A text \in Archive!Texts : Archive!Held(text) /\ ~Archive!Held(text)' => Archive!Held(text + 1)'
<1>1. UNCHANGED <<row, journal, proc>> /\ proc[p].pc \in {"idle", "confirm", "switching"}
  BY DEF Archive!AppendEntry
<1>2. files'["archive"] = files["archive"]
  BY InHand DEF Archive!AppendEntry, Archive!Places
<1>3. Archive!Exists("active") /\ files["active"].text # 0 => Archive!Exists("active")' /\ files'["active"].text = files["active"].text + 1
  <2> DEFINE f == files["active"]  g == [f EXCEPT !.text = f.text + 1]
  <2>1. ASSUME f # NoFile, f.text # 0 PROVE files' = [files EXCEPT !["active"] = g] /\ f.text < MaxText
    BY <2>1 DEF Archive!AppendEntry, Archive!Exists, Archive!Fragment
  <2>2. f # NoFile => f \in [text : 0..MaxText, ro : BOOLEAN]
    BY InHand DEF Archive!Places, Archive!Files
  <2>3. ASSUME f # NoFile, f.text # 0 PROVE g # NoFile /\ g.text = f.text + 1 /\ files'["active"] = g
    <3>1. g \in [text : 0..MaxText, ro : BOOLEAN] /\ g.text = f.text + 1
      BY <2>1, <2>2, <2>3, ArchiveTypes
    <3>2. files'["active"] = g
      BY <2>1, <2>3, InHand DEF Archive!Places
    <3>3. QED
      BY <3>1, <3>2, ArchiveAssumption
  <2>4. QED
    BY <2>3 DEF Archive!Exists
<1>4. \A text \in Archive!Texts : Archive!Held(text) /\ ~Archive!Held(text)' => Archive!Held(text + 1)'
  <2>1. ASSUME NEW text \in Archive!Texts, Archive!Held(text), ~Archive!Held(text)' PROVE Archive!Held(text + 1)'
    <3>1. ~Archive!Has("archive", text) /\ Archive!Has("active", text)
      BY <1>2, <2>1 DEF Archive!Held, Archive!Has, Archive!Exists, Archive!Places
    <3>2. text # 0
      BY DEF Archive!Texts
    <3>3. Archive!Has("active", text + 1)'
      BY <1>3, <3>1, <3>2 DEF Archive!Has, Archive!Exists
    <3>4. QED
      BY <3>3 DEF Archive!Held, Archive!Places
  <2>2. QED
    BY <2>1
<1>5. AtItsMove(p)'
  BY <1>1 DEF AtItsMove, MoveInv
<1>6. QED
  BY <1>1, <1>2, <1>4, <1>5 DEF MoveInv, Archive!ArchivedIsReadable, RowHasText

LEMMA RecoveryHolds ==
  ASSUME MoveInv, NEW p \in Procs, Archive!Recovery(p)
  PROVE  Archive!ArchivedIsReadable' /\ RowHasText' /\ AtItsMove(p)' /\ files' = files
<1>1. files' = files /\ journal' = journal /\ (row' = row \/ Archive!MarkError)
  BY DEF Archive!Recovery, Archive!ReconcileJournal, Archive!ReconcilePending
<1>2. row' = row \/ (row.state # "none" /\ row'.state = "error" /\ row'.text = row.text)
  BY <1>1, InHand DEF Archive!Rows, Archive!MarkError
<1>3. Archive!ArchivedIsReadable' /\ RowHasText'
  BY <1>1, <1>2 DEF MoveInv, Archive!ArchivedIsReadable, RowHasText
<1>4. ASSUME Archive!Goto(p, "pending") PROVE AtItsMove(p)'
  <2>1. proc'[p].pc = "pending"
    BY <1>4, InHand DEF Archive!Goto, ProcRecords
  <2>2. QED
    BY <2>1 DEF AtItsMove
<1>5. CASE Archive!ReconcileJournal(p)
  <2>1. CASE Archive!Goto(p, "pending")
    BY <1>1, <1>3, <1>4, <2>1
  <2>2. CASE journal # 0 /\ proc' = [proc EXCEPT ![p] = [@ EXCEPT !.pc = "check", !.kind = "restore", !.by = "journal", !.text = journal]]
    <3>1. proc'[p].pc = "check"
      BY <2>2, InHand DEF ProcRecords
    <3>2. QED
      BY <1>1, <1>3, <2>2, <3>1 DEF AtItsMove
  <2>3. CASE /\ journal # 0 /\ Archive!Has("active", journal)
             /\ proc' = [proc EXCEPT ![p] = [@ EXCEPT !.pc = "chmod", !.kind = "restore", !.by = "journal", !.text = journal]]
    <3>1. proc'[p].pc = "chmod" /\ proc'[p].kind = "restore" /\ proc'[p].text = journal
      BY <2>3, InHand DEF ProcRecords
    <3>2. Archive!Has("active", journal)'
      BY <1>1, <2>3 DEF Archive!Has, Archive!Exists
    <3>3. AtItsMove(p)'
      BY <1>1, <2>3, <3>1, <3>2 DEF AtItsMove, Archive!To
    <3>4. QED
      BY <1>1, <1>3, <3>3
  <2>4. QED
    BY <1>5, <2>1, <2>2, <2>3 DEF Archive!ReconcileJournal
<1>6. CASE Archive!ReconcilePending(p)
  <2>1. CASE Archive!Over(p)
    BY <1>1, <1>3, <2>1, OverIsNoMove
  <2>2. CASE /\ Archive!Has("archive", row.text) /\ row' = row
             /\ \E pc_ \in {"chmod", "unlink"} :
                  /\ pc_ = "unlink" => Archive!Has("active", row.text)
                  /\ proc' = [proc EXCEPT ![p] = [@ EXCEPT !.pc = pc_, !.kind = "archive", !.by = "pending", !.text = row.text]]
    <3>1. PICK pc_ \in {"chmod", "unlink"} :
                  /\ pc_ = "unlink" => Archive!Has("active", row.text)
                  /\ proc' = [proc EXCEPT ![p] = [@ EXCEPT !.pc = pc_, !.kind = "archive", !.by = "pending", !.text = row.text]]
      BY <2>2
    <3>2. proc'[p].pc = pc_ /\ proc'[p].kind = "archive" /\ proc'[p].text = row.text
      BY <3>1, InHand DEF ProcRecords
    <3>3. Archive!Has("archive", row.text)' /\ (pc_ = "unlink" => Archive!Has("active", row.text)')
      BY <1>1, <2>2, <3>1 DEF Archive!Has, Archive!Exists
    <3>4. Archive!To(p)' = "archive" /\ Archive!From(p)' = "active"
      BY <3>2 DEF Archive!To, Archive!From
    <3>5. AtItsMove(p)'
      BY <2>2, <3>2, <3>3, <3>4 DEF AtItsMove, Archive!Has
    <3>6. QED
      BY <1>1, <1>3, <3>5
  <2>3. QED
    BY <1>6, <2>1, <2>2 DEF Archive!ReconcilePending, Archive!DuplicateMatches
<1>7. QED
  BY <1>5, <1>6 DEF Archive!Recovery

\* The steps of a move, while no other process moves.
LEMMA MoveHolds ==
  ASSUME MoveInv, NEW p \in Procs, Archive!Move(p)
  PROVE  /\ Archive!ArchivedIsReadable' /\ RowHasText' /\ AtItsMove(p)'
         /\ \A text \in Archive!Texts : Archive!Held(text) => Archive!Held(text)'
<1> DEFINE c == proc[p]  from == Archive!From(p)  to == Archive!To(p)
<1>1. /\ proc \in [Procs -> ProcRecords] /\ files \in [Archive!Places -> Archive!Files] /\ row \in Archive!Rows
      /\ c \in ProcRecords /\ journal \in 0..MaxText
      /\ from \in {"active", "archive"} /\ to \in {"active", "archive"} /\ from # to
      /\ (c.kind = "archive" => to = "archive" /\ from = "active")
      /\ (c.kind = "restore" => to = "active" /\ from = "archive")
      /\ AtItsMove(p) /\ RowHasText /\ Archive!ArchivedIsReadable
  BY InHand DEF MoveInv
<1>2. Archive!Places = {"active", "archive"} /\ Archive!Places = {from, to}
  BY <1>1 DEF Archive!Places
<1>3. ASSUME Archive!Throw(p), files' = files
      PROVE  /\ Archive!ArchivedIsReadable' /\ RowHasText' /\ AtItsMove(p)'
             /\ \A text \in Archive!Texts : Archive!Held(text) => Archive!Held(text)'
  BY <1>3, ThrowHolds DEF Archive!Held, Archive!Has, Archive!Exists
<1>4. ASSUME NEW pc_ \in Archive!PCs, Archive!Goto(p, pc_)
      PROVE  /\ proc'[p].pc = pc_ /\ proc'[p].kind = c.kind /\ proc'[p].text = c.text
             /\ Archive!From(p)' = from /\ Archive!To(p)' = to
  <2>1. proc'[p] = [c EXCEPT !.pc = pc_]
    BY <1>1, <1>4 DEF Archive!Goto
  <2>2. proc'[p].pc = pc_ /\ proc'[p].kind = c.kind /\ proc'[p].text = c.text
    BY <1>1, <2>1 DEF ProcRecords
  <2>3. QED
    BY <2>2 DEF Archive!From, Archive!To
<1>5. \A place, text : Archive!Has(place, text) <=> files[place] # NoFile /\ files[place].text = text
  BY DEF Archive!Has, Archive!Exists
<1>6. \A place, text : Archive!Has(place, text)' <=> files'[place] # NoFile /\ files'[place].text = text
  BY DEF Archive!Has, Archive!Exists
<1>7. \A text : /\ (Archive!Held(text) <=> Archive!Has(from, text) \/ Archive!Has(to, text))
                /\ (Archive!Held(text)' <=> \/ files'[from] # NoFile /\ files'[from].text = text
                                            \/ files'[to] # NoFile /\ files'[to].text = text)
  <2> HIDE DEF from, to
  <2>1. QED
    BY <1>2, <1>5, <1>6 DEF Archive!Held
<1>8. \A pc_ \in {"drop", "unlink", "dropCopied", "rename", "copy", "verify", "chmod", "commit"} : pc_ \in Archive!PCs
  BY DEF Archive!PCs
<1>9. ASSUME UNCHANGED <<row, journal>>, row.state = "archived" /\ journal = 0 => files'["archive"] = files["archive"]
      PROVE  Archive!ArchivedIsReadable' /\ RowHasText'
  BY <1>1, <1>9 DEF Archive!ArchivedIsReadable, RowHasText
<1>10. CASE Archive!CheckMove(p)
  <2>1. CASE Archive!Throw(p)
    BY <1>3, <1>10, <2>1 DEF Archive!CheckMove
  <2>2. CASE ~Archive!Throw(p)
    <3>1. PICK pc_ \in {"drop", "rename", "copy"} :
            /\ Archive!Goto(p, pc_) /\ UNCHANGED <<row, journal, files>> /\ Archive!Has(from, c.text) /\ c.pc = "check"
            /\ (pc_ = "drop" => Archive!Has(to, c.text)) /\ (pc_ # "drop" => ~Archive!Exists(to))
      BY <1>10, <2>2 DEF Archive!CheckMove, Archive!SameCopy, Archive!At
    <3>2. proc'[p].pc = pc_ /\ proc'[p].kind = c.kind /\ proc'[p].text = c.text /\ Archive!From(p)' = from /\ Archive!To(p)' = to
      BY <1>4, <1>8, <3>1
    <3>3. AtItsMove(p)'
      BY <1>1, <3>1, <3>2 DEF AtItsMove, Archive!Has, Archive!Exists
    <3>4. QED
      BY <1>9, <3>1, <3>3 DEF Archive!Held, Archive!Has, Archive!Exists
  <2>3. QED
    BY <2>1, <2>2
\* Where the source goes, its text is at the destination.
<1>11. ASSUME c.pc \in {"drop", "dropCopied", "unlink"}, Archive!Remove(p), Archive!Goto(p, "chmod"), UNCHANGED <<row, journal>>
       PROVE  /\ Archive!ArchivedIsReadable' /\ RowHasText' /\ AtItsMove(p)'
              /\ \A text \in Archive!Texts : Archive!Held(text) => Archive!Held(text)'
  <2>1. Archive!Has(from, c.text) /\ Archive!Has(to, c.text) /\ (c.kind = "restore" => journal # 0)
    BY <1>1, <1>11 DEF AtItsMove, ProcRecords
  <2>2. files'[to] = files[to] /\ files'[from] = NoFile
    BY <1>1, <1>2, <1>11 DEF Archive!Remove
  <2>3. proc'[p].pc = "chmod" /\ proc'[p].kind = c.kind /\ proc'[p].text = c.text /\ Archive!To(p)' = to
    BY <1>4, <1>8, <1>11
  <2>4. AtItsMove(p)'
    BY <1>5, <1>6, <1>11, <2>1, <2>2, <2>3 DEF AtItsMove
  <2>5. Archive!ArchivedIsReadable' /\ RowHasText'
    <3>1. c.kind = "archive" => files'["archive"] = files["archive"]
      BY <1>1, <2>2
    <3>2. QED
      BY <1>1, <1>9, <1>11, <2>1, <3>1 DEF ProcRecords
  <2>6. QED
    BY <1>5, <1>6, <1>7, <2>1, <2>2, <2>4, <2>5
<1>12. CASE Archive!DropSource(p)
  BY <1>3, <1>11, <1>12 DEF Archive!DropSource, Archive!At
<1>13. CASE Archive!UnlinkSource(p)
  BY <1>3, <1>11, <1>13 DEF Archive!UnlinkSource, Archive!At
<1>14. CASE Archive!Rename(p) \/ Archive!CopyAcross(p)
  <2>1. CASE Archive!Throw(p) /\ files' = files
    BY <1>3, <2>1
  <2>2. CASE ~(Archive!Throw(p) /\ files' = files)
    <3>1. c.pc \in {"rename", "copy"} /\ UNCHANGED <<row, journal>>
      BY <1>14, <2>2 DEF Archive!Rename, Archive!CopyAcross, Archive!At
    <3>2. Archive!Has(from, c.text) /\ files[to] = NoFile /\ (c.kind = "restore" => journal # 0)
      BY <1>1, <3>1 DEF AtItsMove, ProcRecords, Archive!Exists
    <3>3. PICK pc_ \in {"verify", "dropCopied"} :
            /\ Archive!Goto(p, pc_) /\ files'[to] = files[from]
            /\ files'[from] = IF pc_ = "verify" THEN NoFile ELSE files[from]
      BY <1>1, <1>2, <1>14, <2>2 DEF Archive!Rename, Archive!CopyAcross
    <3>4. proc'[p].pc = pc_ /\ proc'[p].kind = c.kind /\ proc'[p].text = c.text /\ Archive!From(p)' = from /\ Archive!To(p)' = to
      BY <1>4, <1>8, <3>3
    <3>5. AtItsMove(p)'
      BY <1>5, <1>6, <3>1, <3>2, <3>3, <3>4 DEF AtItsMove
    <3>6. ~(row.state = "archived" /\ journal = 0)
      <4>1. [text |-> row.text, ro |-> TRUE] # NoFile
        <5>1. row.text \in 0..MaxText
          BY <1>1 DEF Archive!Rows
        <5>2. [text |-> row.text, ro |-> TRUE] \in [text : 0..MaxText, ro : BOOLEAN]
          BY <5>1
        <5>3. QED
          BY <5>2, ArchiveAssumption
      <4>2. c.kind = "archive" \/ c.kind = "restore"
        BY <1>1 DEF ProcRecords
      <4>3. QED
        BY <1>1, <3>2, <4>1, <4>2 DEF Archive!ArchivedIsReadable
    <3>7. QED
      BY <1>5, <1>6, <1>7, <1>9, <3>1, <3>2, <3>3, <3>5, <3>6
  <2>3. QED
    BY <2>1, <2>2
<1>15. CASE Archive!VerifyMove(p)
  <2>1. c.pc = "verify" /\ Archive!Has(to, c.text) /\ (c.kind = "restore" => journal # 0)
    BY <1>1, <1>15 DEF Archive!VerifyMove, AtItsMove, Archive!At
  <2>2. Archive!Goto(p, "chmod") /\ UNCHANGED <<files, row, journal>>
    BY <1>15, <2>1 DEF Archive!VerifyMove
  <2>3. proc'[p].pc = "chmod" /\ proc'[p].kind = c.kind /\ proc'[p].text = c.text /\ Archive!To(p)' = to
    BY <1>4, <1>8, <2>2
  <2>4. AtItsMove(p)'
    BY <1>5, <1>6, <2>1, <2>2, <2>3 DEF AtItsMove
  <2>5. QED
    BY <1>5, <1>6, <1>7, <1>9, <2>2, <2>4
<1>16. CASE Archive!Chmod(p)
  <2>1. c.pc = "chmod" /\ Archive!Has(to, c.text) /\ (c.kind = "restore" => journal # 0)
    BY <1>1, <1>16 DEF Archive!Chmod, AtItsMove, Archive!At
  <2>2. /\ Archive!Goto(p, "commit") /\ UNCHANGED <<row, journal>>
        /\ files' = [files EXCEPT ![to].ro = (c.kind = "archive")]
    BY <1>16, <2>1 DEF Archive!Chmod, Archive!Has
  <2>3. proc'[p].pc = "commit" /\ proc'[p].kind = c.kind /\ proc'[p].text = c.text /\ Archive!To(p)' = to
    BY <1>4, <1>8, <2>2
  <2>4. files[to] \in [text : 0..MaxText, ro : BOOLEAN] /\ files[to].text = c.text
    BY <1>1, <1>2, <1>5, <2>1 DEF Archive!Files
  <2>5. /\ files'[from] = files[from] /\ files'[to] = [text |-> files[to].text, ro |-> (c.kind = "archive")]
        /\ files'[to] # NoFile
    <3>1. files'[from] = files[from] /\ files'[to] = [files[to] EXCEPT !.ro = (c.kind = "archive")]
      BY <1>1, <1>2, <2>2
    <3>2. files'[to] = [text |-> files[to].text, ro |-> (c.kind = "archive")]
      BY <2>4, <3>1
    <3>3. files'[to] \in [text : 0..MaxText, ro : BOOLEAN]
      BY <2>4, <3>2
    <3>4. QED
      BY <3>1, <3>2, <3>3, ArchiveAssumption
  <2>6. AtItsMove(p)'
    <3>1. c.kind = "archive" => files'["archive"].ro
      <4>1. CASE c.kind = "archive"
        <5>1. to = "archive" /\ files'[to] = [text |-> files[to].text, ro |-> TRUE]
          BY <1>1, <2>5, <4>1
        <5> HIDE DEF to
        <5>2. QED
          BY <5>1
      <4>2. QED
        BY <4>1
    <3>2. c.kind = "restore" => journal' # 0
      BY <2>1, <2>2
    <3>3. QED
      BY <2>3, <2>4, <2>5, <3>1, <3>2 DEF AtItsMove, Archive!Has, Archive!Exists
  <2>7. Archive!ArchivedIsReadable' /\ RowHasText'
    <3>1. CASE c.kind = "restore"
      BY <1>9, <2>1, <2>2, <3>1
    <3>2. CASE c.kind = "archive"
      <4>1. row.state = "archived" /\ journal = 0 => files'["archive"] = [text |-> row.text, ro |-> TRUE]
        <5>1. to = "archive" /\ files'[to] = [text |-> files[to].text, ro |-> TRUE]
          BY <1>1, <2>5, <3>2
        <5> HIDE DEF to
        <5>2. row.state = "archived" /\ journal = 0 => files["archive"].text = row.text
          BY <1>1 DEF Archive!ArchivedIsReadable
        <5>3. QED
          BY <5>1, <5>2
      <4>2. QED
        BY <1>1, <2>2, <4>1 DEF Archive!ArchivedIsReadable, RowHasText
    <3>3. QED
      BY <1>1, <3>1, <3>2 DEF ProcRecords
  <2>8. QED
    BY <1>5, <1>6, <1>7, <2>1, <2>4, <2>5, <2>6, <2>7
<1>17. CASE Archive!Commit(p)
  <2>1. c.pc = "commit" /\ files' = files
    BY <1>17 DEF Archive!Commit, Archive!At
  <2>2. \A text \in Archive!Texts : Archive!Held(text) => Archive!Held(text)'
    BY <2>1 DEF Archive!Held, Archive!Has, Archive!Exists
  <2>3. CASE Archive!DeleteRow /\ Archive!Finish(p)
    BY <2>2, <2>3, FinishIsNoMove DEF Archive!DeleteRow, Archive!NoRow, Archive!ArchivedIsReadable, RowHasText
  <2>4. CASE Archive!Throw(p)
    BY <1>3, <2>1, <2>4
  <2>5. CASE /\ c.kind = "archive" /\ ~Archive!FinalizeRefused(c.text)
             /\ row' = [row EXCEPT !.state = "archived"] /\ UNCHANGED journal /\ Archive!Finish(p)
    <3>1. row'.state = "archived" /\ row'.text = c.text /\ row'.text = row.text /\ row.state # "none"
      BY <1>1, <2>5 DEF Archive!FinalizeRefused, Archive!Rows
    <3>2. files["archive"].ro /\ Archive!Has("archive", c.text)
      BY <1>1, <2>1, <2>5 DEF AtItsMove
    <3>3. files["archive"] = [text |-> c.text, ro |-> TRUE]
      <4>1. files["archive"] \in [text : 0..MaxText, ro : BOOLEAN]
        BY <1>1, <1>2, <1>5, <3>2 DEF Archive!Files
      <4>2. QED
        BY <1>5, <3>2, <4>1
    <3>4. Archive!ArchivedIsReadable' /\ RowHasText'
      BY <1>1, <2>1, <3>1, <3>3 DEF Archive!ArchivedIsReadable, RowHasText
    <3>5. QED
      BY <2>2, <2>5, <3>4, FinishIsNoMove
  <2>6. QED
    BY <1>1, <1>17, <2>3, <2>4, <2>5 DEF Archive!Commit, ProcRecords
<1>18. QED
  BY <1>10, <1>12, <1>13, <1>14, <1>15, <1>16, <1>17 DEF Archive!Move

\* A single process leaves archived sessions readable and takes no last copy away.
LEMMA ArchiveHolds ==
  ASSUME NEW p, Procs = {p}, MoveInv, [Archive!Next]_archiveVars
  PROVE  MoveInv' /\ Archive!CopyIsKept
<1>1. Archive!TypeOK'
  BY ArchiveTypeHolds DEF MoveInv
<1>2. CASE UNCHANGED archiveVars
  <2>1. UNCHANGED <<files, row, journal, proc>>
    BY <1>2 DEF archiveVars
  <2>2. QED
    BY <1>1, <2>1 DEF MoveInv, Archive!ArchivedIsReadable, RowHasText, AtItsMove, Archive!From, Archive!To,
       Archive!Has, Archive!Exists, Archive!CopyIsKept, Archive!Held
<1>3. CASE Archive!Next
  <2>1. /\ Archive!ArchivedIsReadable' /\ RowHasText' /\ AtItsMove(p)'
        /\ \A text \in Archive!Texts : Archive!Held(text) /\ ~Archive!Held(text)' => Archive!Held(text + 1)'
    <3>1. CASE \/ Archive!SessionStarts(p) \/ Archive!Quit(p) \/ Archive!Crash(p) \/ Archive!Command(p)
               \/ Archive!Recovery(p)
      <4>1. Archive!ArchivedIsReadable' /\ RowHasText' /\ AtItsMove(p)' /\ files' = files
        BY <3>1, CommandHolds, RecoveryHolds
      <4>2. QED
        BY <4>1 DEF Archive!Held, Archive!Has, Archive!Exists
    <3>2. CASE Archive!AppendEntry(p)
      BY <3>2, AppendHolds
    <3>3. CASE Archive!Move(p)
      BY <3>3, MoveHolds
    <3>4. QED
      BY <1>3, <3>1, <3>2, <3>3 DEF Archive!Next
  <2>2. QED
    BY <1>1, <2>1 DEF MoveInv, Archive!CopyIsKept
<1>4. QED
  BY <1>2, <1>3

LEMMA ArchiveMoves ==
  /\ KeptInit => Archive!Init
  /\ [KeptNext]_keptVars => [Archive!Next]_archiveVars
BY DEF KeptInit, KeptNext, keptVars
-----------------------------------------------------------------------------
(* The ledger of generations.                                              *)

Lines == [process : Processes, scope : Ledger!Scopes, day : Ledger!Days, gen : Ledger!Generations,
          state : {"observed", "resolved"}, tier : Ledger!Tiers, at : Ledger!Days]

\* The events that a process has to append.
Waiting(p) == {queue[p][i] : i \in DOMAIN queue[p]}

LedgerTypes == Ledger!TypeOK /\ queue \in [Processes -> Seq(Ledger!Events)] /\ shards \subseteq Lines /\ IsFiniteSet(shards)

\* An append is of the first event, whose day was not yet over when its shard was chosen.
AppendsAreUnderWay ==
  /\ \A p \in Processes : append[p].step # "idle" =>
       queue[p] # <<>> /\ scope[p] \in Ledger!Scopes /\ Head(queue[p]).at <= append[p].day /\ append[p].day <= now
  /\ \A p \in Processes : \A e \in Waiting(p) : e.at <= now
  /\ \A e \in shards : e.at <= e.day

\* A tier that is waiting or on disk is what the lookup of its generation answered, and
\* a lookup that is not over has none.
TiersAreAnswers ==
  /\ \A e \in shards : e.state = "resolved" => lookup[e.gen].step = "over" /\ e.tier = lookup[e.gen].tier
  /\ \A p \in Processes : \A e \in Waiting(p) :
       e.state = "resolved" => lookup[e.gen].step = "over" /\ e.tier = lookup[e.gen].tier
  /\ \A g \in Ledger!Generations :
       /\ lookup[g].step # "over" => lookup[g].tier = "unknown"
       /\ lookup[g].step # "none" => lookup[g].process \in Processes

\* A known tier is on disk, waits to be appended by the process that looked it up, or is gone.
KnownTiersAreKept ==
  \A g \in Ledger!Generations :
    lookup[g].step = "over" /\ lookup[g].tier # "unknown" /\ g \notin gone =>
      \/ \E e \in shards : e.gen = g /\ e.state = "resolved"
      \/ \E e \in Waiting(lookup[g].process) : e.gen = g /\ e.state = "resolved"

\* Who has checked the limits and is to write.
Writers(k) == {p \in Processes : append[p].step = "write" /\ scope[p] = k}

\* What a process has checked still holds when it writes; every other that has checked
\* the total meanwhile may exceed it by its line.
WritersFit ==
  /\ \A p \in Processes : append[p].step = "write" => Cardinality(Ledger!Shard(p, append[p].day)) < MaxLines
  /\ \A k \in Ledger!Scopes :
       Cardinality(Ledger!Scope(k)) + Cardinality(Writers(k)) <= MaxTotal + Cardinality(Processes) - 1

\* Each shard, and each scope but for a line of every other process.
WithinLimits ==
  /\ \A p \in Processes, d \in Ledger!Days : Cardinality(Ledger!Shard(p, d)) <= MaxLines
  /\ \A k \in Ledger!Scopes : Cardinality(Ledger!Scope(k)) <= MaxTotal + Cardinality(Processes) - 1

LedgerInv ==
  LedgerTypes /\ AppendsAreUnderWay /\ TiersAreAnswers /\ KnownTiersAreKept /\ WithinLimits /\ WritersFit

LEMMA SameLines == \A some : Ledger!Cardinality(some) = Cardinality(some)
BY DEF Ledger!Cardinality, Cardinality

\* Subsets are finite and no larger.
LEMMA SmallerSet ==
  ASSUME NEW S, IsFiniteSet(S), NEW T, T \subseteq S
  PROVE  IsFiniteSet(T) /\ Cardinality(T) \in Nat /\ Cardinality(S) \in Nat /\ Cardinality(T) <= Cardinality(S)
BY FS_Subset, FS_CardinalityType

LEMMA LedgerInitHolds == ASSUME Ledger!Init PROVE LedgerInv
<1>1. /\ \A p \in Processes : queue[p] = <<>> /\ append[p].step = "idle" /\ Waiting(p) = {}
      /\ shards = {} /\ \A g \in Ledger!Generations : lookup[g].step = "none" /\ lookup[g].tier = "unknown"
  BY DEF Ledger!Init, Ledger!NoAppend, Ledger!NoLookup, Waiting
<1>2. LedgerTypes
  BY <1>1, LedgerAssumption, FS_EmptySet
     DEF Ledger!Init, LedgerTypes, Ledger!TypeOK, Ledger!NoAppend, Ledger!NoLookup, Ledger!Days, Ledger!Tiers
<1>3. WithinLimits /\ WritersFit
  <2>1. (\A p, d : Ledger!Shard(p, d) = {}) /\ \A k : Ledger!Scope(k) = {} /\ Writers(k) = {}
    BY <1>1 DEF Ledger!Shard, Ledger!Scope, Writers
  <2>2. Cardinality({}) = 0 /\ Cardinality(Processes) \in Nat
    BY FS_EmptySet, FS_CardinalityType, LedgerAssumption
  <2>3. WithinLimits
    <3>1. (\A p, d : Cardinality(Ledger!Shard(p, d)) = 0) /\ \A k : Cardinality(Ledger!Scope(k)) = 0
      BY <2>1, <2>2
    <3>2. QED
      BY <2>2, <3>1, LedgerAssumption DEF WithinLimits
  <2>4. WritersFit
    <3>1. \A k \in Ledger!Scopes : Cardinality(Ledger!Scope(k)) = 0 /\ Cardinality(Writers(k)) = 0
      BY <2>1, <2>2
    <3>2. QED
      BY <1>1, <2>2, <3>1, LedgerAssumption DEF WritersFit
  <2>5. QED
    BY <2>3, <2>4
<1>4. QED
  BY <1>1, <1>2, <1>3 DEF LedgerInv, AppendsAreUnderWay, TiersAreAnswers, KnownTiersAreKept

LEMMA InLedger ==
  ASSUME LedgerInv
  PROVE  /\ now \in Ledger!Days /\ Ledger!Days \subseteq Nat /\ scope \in [Processes -> Ledger!Scopes \cup {"unresolved"}]
         /\ append \in [Processes -> [step : {"idle", "check", "write"}, day : Ledger!Days]]
         /\ down \in [Processes -> {"no", "aborting", "down"}] /\ ledgerFaults \in 0..MaxFaults
         /\ lookup \in [Ledger!Generations -> [step : {"none", "observing", "waiting", "over"}, process : Processes \cup {"none"},
                                        attempt : 0..MaxAttempts, tier : Ledger!Tiers]]
         /\ queue \in [Processes -> Seq(Ledger!Events)] /\ shards \subseteq Lines /\ IsFiniteSet(shards)
BY LedgerAssumption DEF LedgerInv, LedgerTypes, Ledger!TypeOK, Ledger!Days

LEMMA WaitingIsTyped == ASSUME LedgerInv PROVE \A p \in Processes : Waiting(p) \subseteq Ledger!Events
<1>1. SUFFICES ASSUME NEW p \in Processes, NEW i \in DOMAIN queue[p] PROVE queue[p][i] \in Ledger!Events
  BY DEF Waiting
<1> DEFINE q == queue[p]
<1>2. q \in Seq(Ledger!Events)
  BY InLedger
<1>3. i \in DOMAIN q
  OBVIOUS
<1> HIDE DEF q
<1>4. q[i] \in Ledger!Events
  BY <1>2, <1>3
<1>5. QED
  BY <1>4 DEF q

\* The first event of a queue, and those after it.
LEMMA FirstWaits ==
  ASSUME LedgerInv, NEW p \in Processes, queue[p] # <<>>
  PROVE  /\ Head(queue[p]) \in Ledger!Events /\ Head(queue[p]) \in Waiting(p) /\ Tail(queue[p]) \in Seq(Ledger!Events)
         /\ Waiting(p) = {Head(queue[p])} \cup {Tail(queue[p])[i] : i \in DOMAIN Tail(queue[p])}
<1> DEFINE q == queue[p]  t == Tail(q)
<1>1. q \in Seq(Ledger!Events) /\ q # <<>>
  BY InLedger
<1> HIDE DEF q
<1>2. Head(q) = q[1] /\ 1 \in DOMAIN q /\ t \in Seq(Ledger!Events) /\ Head(q) \in Ledger!Events
  BY <1>1
<1>3. \A i \in DOMAIN t : i + 1 \in DOMAIN q /\ t[i] = q[i + 1]
  BY <1>1
<1>4. \A i \in DOMAIN q : i = 1 \/ (i - 1 \in DOMAIN t /\ t[i - 1] = q[i])
  BY <1>1
<1> HIDE DEF t
<1>5. {q[i] : i \in DOMAIN q} = {Head(q)} \cup {t[i] : i \in DOMAIN t}
  BY <1>2, <1>3, <1>4
<1>6. QED
  BY <1>2, <1>5 DEF Waiting, q, t

\* One more event waits.
LEMMA EnqueueHolds ==
  ASSUME LedgerInv, NEW p \in Processes, NEW e \in Ledger!Events, Ledger!Enqueue(p, e)
  PROVE  /\ queue' \in [Processes -> Seq(Ledger!Events)]
         /\ \A q \in Processes : Waiting(q)' = IF q = p THEN Waiting(p) \cup {e} ELSE Waiting(q)
         /\ \A q \in Processes : queue[q] # <<>> => queue'[q] # <<>> /\ Head(queue'[q]) = Head(queue[q])
<1> DEFINE q == queue[p]  a == Append(q, e)
<1>1. q \in Seq(Ledger!Events) /\ queue \in [Processes -> Seq(Ledger!Events)] /\ queue' = [queue EXCEPT ![p] = a]
  BY InLedger DEF Ledger!Enqueue
<1> HIDE DEF q
<1>2. a \in Seq(Ledger!Events) /\ a # <<>> /\ (q # <<>> => Head(a) = Head(q))
  BY <1>1
<1>3. DOMAIN a = DOMAIN q \cup {Len(q) + 1} /\ a[Len(q) + 1] = e /\ \A i \in DOMAIN q : a[i] = q[i]
  BY <1>1
<1> HIDE DEF a
<1>4. {a[i] : i \in DOMAIN a} = {q[i] : i \in DOMAIN q} \cup {e}
  BY <1>3
<1>5. QED
  BY <1>1, <1>2, <1>4 DEF Waiting, q

\* The first event is taken off, and a lookup whose event was appended may start.
LEMMA DequeueHolds ==
  ASSUME LedgerInv, NEW p \in Processes, queue[p] # <<>>, Ledger!Dequeue(p)
  PROVE  /\ queue' \in [Processes -> Seq(Ledger!Events)]
         /\ append' = [append EXCEPT ![p] = Ledger!NoAppend]
         /\ append' \in [Processes -> [step : {"idle", "check", "write"}, day : Ledger!Days]]
         /\ lookup' \in [Ledger!Generations -> [step : {"none", "observing", "waiting", "over"}, process : Processes \cup {"none"},
                                        attempt : 0..MaxAttempts, tier : Ledger!Tiers]]
         /\ \A q \in Processes : q # p => queue'[q] = queue[q] /\ Waiting(q)' = Waiting(q)
         /\ Waiting(p)' \subseteq Waiting(p) /\ Waiting(p) \subseteq Waiting(p)' \cup {Head(queue[p])}
         /\ \A g \in Ledger!Generations :
              /\ lookup'[g].process = lookup[g].process /\ lookup'[g].tier = lookup[g].tier
              /\ lookup'[g].step = lookup[g].step \/ (lookup[g].step = "observing" /\ lookup'[g].step \in {"waiting", "over"})
<1> DEFINE t == Tail(queue[p])
<1>1. queue \in [Processes -> Seq(Ledger!Events)] /\ t \in Seq(Ledger!Events) /\ queue' = [queue EXCEPT ![p] = t]
  BY InLedger, FirstWaits DEF Ledger!Dequeue
<1>2. Waiting(p) = {Head(queue[p])} \cup {t[i] : i \in DOMAIN t}
  BY FirstWaits
<1> HIDE DEF t
<1>3. /\ queue' \in [Processes -> Seq(Ledger!Events)]
      /\ \A q \in Processes : q # p => queue'[q] = queue[q] /\ Waiting(q)' = Waiting(q)
      /\ Waiting(p)' \subseteq Waiting(p) /\ Waiting(p) \subseteq Waiting(p)' \cup {Head(queue[p])}
  BY <1>1, <1>2 DEF Waiting
<1>4. append' = [append EXCEPT ![p] = Ledger!NoAppend] /\ append' \in [Processes -> [step : {"idle", "check", "write"}, day : Ledger!Days]]
  BY InLedger, LedgerAssumption DEF Ledger!Dequeue, Ledger!NoAppend, Ledger!Days
<1> DEFINE g == Head(queue[p]).gen
<1>5. g \in Ledger!Generations
  BY FirstWaits DEF Ledger!Events
<1>6. lookup' = lookup \/ \E to \in {"waiting", "over"} : lookup[g].step = "observing" /\ lookup' = [lookup EXCEPT ![g] = [lookup[g] EXCEPT !.step = to]]
  BY DEF Ledger!Dequeue, Ledger!Look
<1> HIDE DEF g
<1>7. /\ lookup' \in [Ledger!Generations -> [step : {"none", "observing", "waiting", "over"}, process : Processes \cup {"none"},
                                         attempt : 0..MaxAttempts, tier : Ledger!Tiers]]
      /\ \A h \in Ledger!Generations :
              /\ lookup'[h].process = lookup[h].process /\ lookup'[h].tier = lookup[h].tier
              /\ lookup'[h].step = lookup[h].step \/ (lookup[h].step = "observing" /\ lookup'[h].step \in {"waiting", "over"})
  <2> DEFINE L == [step : {"none", "observing", "waiting", "over"}, process : Processes \cup {"none"},
                   attempt : 0..MaxAttempts, tier : Ledger!Tiers]
  <2>1. lookup \in [Ledger!Generations -> L]
    BY InLedger
  <2>2. CASE lookup' = lookup
    BY <2>1, <2>2
  <2>3. CASE lookup' # lookup
    <3>1. PICK to \in {"waiting", "over"} : lookup[g].step = "observing" /\ lookup' = [lookup EXCEPT ![g] = [lookup[g] EXCEPT !.step = to]]
      BY <1>6, <2>3
    <3> DEFINE r == [lookup[g] EXCEPT !.step = to]
    <3>2. r \in L /\ r.process = lookup[g].process /\ r.tier = lookup[g].tier /\ r.step = to
      BY <1>5, <2>1
    <3>3. lookup' = [lookup EXCEPT ![g] = r]
      BY <3>1
    <3> HIDE DEF r, L
    <3>4. lookup' \in [Ledger!Generations -> L]
      BY <1>5, <2>1, <3>2, <3>3
    <3>5. QED
      BY <1>5, <2>1, <3>1, <3>2, <3>3, <3>4 DEF L
  <2>4. QED
    BY <2>2, <2>3
<1>8. QED
  BY <1>3, <1>4, <1>7

\* Fewer lines, and no one else about to write.
LEMMA LimitsStay ==
  ASSUME LedgerInv, shards' \subseteq shards,
         \A p \in Processes : append'[p].step = "write" =>
           append[p].step = "write" /\ append'[p].day = append[p].day /\ scope'[p] = scope[p]
  PROVE  WithinLimits' /\ WritersFit'
<1>1. IsFiniteSet(shards) /\ IsFiniteSet(Processes)
  BY InLedger, LedgerAssumption
<1>2. ASSUME NEW p, NEW d
      PROVE  /\ Cardinality(Ledger!Shard(p, d))' <= Cardinality(Ledger!Shard(p, d))
             /\ Cardinality(Ledger!Shard(p, d))' \in Nat /\ Cardinality(Ledger!Shard(p, d)) \in Nat
  <2>1. IsFiniteSet(Ledger!Shard(p, d))
    BY <1>1, SmallerSet DEF Ledger!Shard
  <2>2. Ledger!Shard(p, d)' \subseteq Ledger!Shard(p, d)
    BY DEF Ledger!Shard
  <2>3. QED
    BY <2>1, <2>2, SmallerSet
<1>3. ASSUME NEW k
      PROVE  /\ Cardinality(Ledger!Scope(k))' <= Cardinality(Ledger!Scope(k))
             /\ Cardinality(Writers(k))' <= Cardinality(Writers(k))
             /\ Cardinality(Ledger!Scope(k))' \in Nat /\ Cardinality(Ledger!Scope(k)) \in Nat
             /\ Cardinality(Writers(k))' \in Nat /\ Cardinality(Writers(k)) \in Nat
  <2>1. IsFiniteSet(Ledger!Scope(k)) /\ Ledger!Scope(k)' \subseteq Ledger!Scope(k)
    BY <1>1, SmallerSet DEF Ledger!Scope
  <2>2. IsFiniteSet(Writers(k)) /\ Writers(k)' \subseteq Writers(k)
    BY <1>1, SmallerSet DEF Writers
  <2>3. QED
    BY <2>1, <2>2, SmallerSet
<1>4. Cardinality(Processes) \in Nat /\ MaxTotal \in Nat /\ MaxLines \in Nat
  BY <1>1, FS_CardinalityType, LedgerAssumption
<1>5. WithinLimits'
  <2>1. ASSUME NEW p \in Processes, NEW d \in Ledger!Days PROVE Cardinality(Ledger!Shard(p, d))' <= MaxLines
    BY <1>2, <1>4 DEF LedgerInv, WithinLimits
  <2>2. ASSUME NEW k \in Ledger!Scopes PROVE Cardinality(Ledger!Scope(k))' <= MaxTotal + Cardinality(Processes) - 1
    <3>1. Cardinality(Ledger!Scope(k)) <= MaxTotal + Cardinality(Processes) - 1
      BY DEF LedgerInv, WithinLimits
    <3>2. QED
      BY <1>3, <1>4, <3>1
  <2>3. QED
    BY <2>1, <2>2 DEF WithinLimits
<1>6. WritersFit'
  <2>1. ASSUME NEW p \in Processes, append'[p].step = "write" PROVE Cardinality(Ledger!Shard(p, append[p].day))' < MaxLines
    <3>1. Cardinality(Ledger!Shard(p, append[p].day)) < MaxLines /\ append'[p].day = append[p].day
      BY <2>1 DEF LedgerInv, WritersFit
    <3>2. Ledger!Shard(p, append[p].day)' \subseteq Ledger!Shard(p, append[p].day)
      BY <3>1 DEF Ledger!Shard
    <3>3. IsFiniteSet(Ledger!Shard(p, append[p].day))
      BY <1>1, SmallerSet DEF Ledger!Shard
    <3>4. QED
      BY <1>4, <3>1, <3>2, <3>3, SmallerSet
  <2>2. ASSUME NEW k \in Ledger!Scopes
        PROVE  Cardinality(Ledger!Scope(k))' + Cardinality(Writers(k))' <= MaxTotal + Cardinality(Processes) - 1
    <3>1. Cardinality(Ledger!Scope(k)) + Cardinality(Writers(k)) <= MaxTotal + Cardinality(Processes) - 1
      BY DEF LedgerInv, WritersFit
    <3>2. QED
      BY <1>3, <1>4, <3>1
  <2>3. QED
    BY <2>1, <2>2 DEF WritersFit
<1>7. QED
  BY <1>5, <1>6

\* What is taken from a queue goes to the disk or is gone, and a lookup goes on at most.
LEMMA AnswersStay ==
  ASSUME LedgerInv, gone \subseteq gone',
         \A e \in shards' : e \in shards \/ \E p \in Processes : \E f \in Waiting(p) : f.gen = e.gen /\ f.state = e.state /\ f.tier = e.tier,
         \A e \in shards : e \in shards' \/ (e.state = "resolved" => e.gen \in gone'),
         \A p \in Processes : /\ Waiting(p)' \subseteq Waiting(p)
                              /\ \A e \in Waiting(p) : \/ e \in Waiting(p)'
                                                       \/ e.state = "resolved" => e.gen \in gone'
                                                       \/ \E f \in shards' : f.gen = e.gen /\ f.state = e.state,
         \A g \in Ledger!Generations :
              /\ lookup'[g].process = lookup[g].process /\ lookup'[g].tier = lookup[g].tier
              /\ lookup'[g].step = lookup[g].step \/ (lookup[g].step = "observing" /\ lookup'[g].step \in {"waiting", "over"})
  PROVE  TiersAreAnswers' /\ KnownTiersAreKept'
<1>1. \A p \in Processes : \A e \in Waiting(p) : e.gen \in Ledger!Generations
  BY WaitingIsTyped DEF Ledger!Events
<1>2. \A e \in shards : e.gen \in Ledger!Generations
  BY InLedger DEF Lines
<1>3. TiersAreAnswers'
  <2>1. \A e \in shards : e.state = "resolved" => lookup'[e.gen].step = "over" /\ e.tier = lookup'[e.gen].tier
    BY <1>2 DEF LedgerInv, TiersAreAnswers
  <2>2. \A p \in Processes : \A e \in Waiting(p) :
          e.state = "resolved" => lookup'[e.gen].step = "over" /\ e.tier = lookup'[e.gen].tier
    BY <1>1 DEF LedgerInv, TiersAreAnswers
  <2>3. \A g \in Ledger!Generations :
          /\ lookup'[g].step # "over" => lookup'[g].tier = "unknown"
          /\ lookup'[g].step # "none" => lookup'[g].process \in Processes
    BY DEF LedgerInv, TiersAreAnswers
  <2>4. \A e \in shards' : e.state = "resolved" => lookup'[e.gen].step = "over" /\ e.tier = lookup'[e.gen].tier
    BY <2>1, <2>2
  <2>5. \A p \in Processes : \A e \in Waiting(p)' :
          e.state = "resolved" => lookup'[e.gen].step = "over" /\ e.tier = lookup'[e.gen].tier
    BY <2>2
  <2>6. QED
    BY <2>3, <2>4, <2>5 DEF TiersAreAnswers
<1>4. ASSUME NEW g \in Ledger!Generations, lookup'[g].step = "over", lookup'[g].tier # "unknown", g \notin gone'
      PROVE  \/ \E e \in shards' : e.gen = g /\ e.state = "resolved"
             \/ \E p \in Processes : p = lookup'[g].process /\ \E e \in Waiting(p)' : e.gen = g /\ e.state = "resolved"
  <2>1. lookup[g].step = "over" /\ lookup[g].tier = lookup'[g].tier /\ lookup[g].process \in Processes /\ g \notin gone
    BY <1>4 DEF LedgerInv, TiersAreAnswers
  <2>2. PICK q \in Processes : q = lookup[g].process /\ q = lookup'[g].process
    BY <2>1
  <2>3. \/ \E e \in shards : e.gen = g /\ e.state = "resolved"
        \/ \E e \in Waiting(q) : e.gen = g /\ e.state = "resolved"
    BY <1>4, <2>1, <2>2 DEF LedgerInv, KnownTiersAreKept
  <2>4. CASE \E e \in shards : e.gen = g /\ e.state = "resolved"
    BY <1>4, <2>4
  <2>5. CASE \E e \in Waiting(q) : e.gen = g /\ e.state = "resolved"
    <3>1. PICK e \in Waiting(q) : e.gen = g /\ e.state = "resolved"
      BY <2>5
    <3>2. e \in Waiting(q)' \/ \E f \in shards' : f.gen = e.gen /\ f.state = e.state
      BY <1>4, <3>1
    <3>3. QED
      BY <2>2, <3>1, <3>2
  <2>6. QED
    BY <2>3, <2>4, <2>5
<1>5. KnownTiersAreKept'
  BY <1>4 DEF KnownTiersAreKept, Waiting
<1>6. QED
  BY <1>3, <1>5

\* Time passes, and processes stop.
LEMMA TimeHolds ==
  ASSUME LedgerInv, Ledger!Tick \/ \E p \in Processes : Ledger!Shutdown(p) \/ Ledger!Flushed(p)
  PROVE  LedgerInv' /\ Ledger!RetainedIsKept
<1>1. /\ UNCHANGED <<scope, shards, queue, append, lookup, gone, ledgerFaults>>
      /\ now' \in Ledger!Days /\ now <= now' /\ down' \in [Processes -> {"no", "aborting", "down"}]
  <2>1. now \in Nat /\ MaxTime \in Nat
    BY InLedger, LedgerAssumption
  <2>2. CASE Ledger!Tick
    BY <2>1, <2>2, InLedger DEF Ledger!Tick, Ledger!Days
  <2>3. CASE \E p \in Processes : Ledger!Shutdown(p) \/ Ledger!Flushed(p)
    BY <2>1, <2>3, InLedger DEF Ledger!Shutdown, Ledger!Flushed
  <2>4. QED
    BY <2>2, <2>3
<1>2. \A p : Waiting(p)' = Waiting(p)
  BY <1>1 DEF Waiting
<1>3. LedgerTypes'
  BY <1>1 DEF LedgerInv, LedgerTypes, Ledger!TypeOK
<1>4. AppendsAreUnderWay'
  <2>1. \A p \in Processes : append[p].day \in Nat
    BY InLedger
  <2>2. \A p \in Processes : \A e \in Waiting(p) : e.at \in Nat
    BY WaitingIsTyped, InLedger DEF Ledger!Events
  <2>3. now \in Nat /\ now' \in Nat /\ now <= now'
    BY <1>1, InLedger
  <2>4. \A p \in Processes : append[p].step # "idle" => append[p].day <= now'
    BY <2>1, <2>3 DEF LedgerInv, AppendsAreUnderWay
  <2>5. \A p \in Processes : \A e \in Waiting(p) : e.at <= now'
    BY <2>2, <2>3 DEF LedgerInv, AppendsAreUnderWay
  <2>6. QED
    BY <1>1, <1>2, <2>4, <2>5 DEF LedgerInv, AppendsAreUnderWay
<1>5. TiersAreAnswers' /\ KnownTiersAreKept'
  BY <1>1, <1>2, AnswersStay
<1>6. WithinLimits' /\ WritersFit'
  BY <1>1, LimitsStay
<1>7. Ledger!RetainedIsKept
  BY <1>1 DEF Ledger!RetainedIsKept
<1>8. QED
  BY <1>3, <1>4, <1>5, <1>6, <1>7 DEF LedgerInv

\* Pruning takes lines that are no longer retained.
LEMMA PruneTakesOld ==
  ASSUME LedgerInv, NEW k
  PROVE  \A e \in Ledger!Prune(k) : e \in shards /\ ~Ledger!Retained(e.at)
<1>1. ASSUME NEW e \in Ledger!Prune(k) PROVE e \in shards /\ ~Ledger!Retained(e.at)
  <2>1. e \in shards /\ e.day + Retention < now
    BY DEF Ledger!Prune, Ledger!Scope, Ledger!Expired
  <2>2. e.day \in Nat /\ e.at \in Nat /\ now \in Nat /\ Retention \in Nat
    <3>1. e \in Lines /\ Ledger!Days \subseteq Nat /\ now \in Nat
      BY <2>1, InLedger
    <3>2. QED
      BY <3>1, LedgerAssumption DEF Lines
  <2>3. e.at <= e.day
    BY <2>1 DEF LedgerInv, AppendsAreUnderWay
  <2>4. QED
    BY <2>1, <2>2, <2>3 DEF Ledger!Retained
<1>2. QED
  BY <1>1

LEMMA ReportHolds ==
  ASSUME LedgerInv, NEW p \in Processes, Ledger!Report(p)
  PROVE  LedgerInv' /\ Ledger!RetainedIsKept
<1> DEFINE old == Ledger!Prune(scope[p])
<1>1. /\ shards' = shards \ old /\ gone' = gone \cup Ledger!Resolutions(old)
      /\ UNCHANGED <<now, scope, queue, append, down, lookup, ledgerFaults>>
  BY DEF Ledger!Report
<1>2. \A e \in old : e \in shards /\ ~Ledger!Retained(e.at)
  BY PruneTakesOld
<1>3. \A e \in old : e.state = "resolved" => e.gen \in Ledger!Resolutions(old)
  BY DEF Ledger!Resolutions
<1> HIDE DEF old
<1>4. \A q : Waiting(q)' = Waiting(q)
  BY <1>1 DEF Waiting
<1>5. LedgerTypes'
  <2>1. IsFiniteSet(shards')
    BY <1>1, InLedger, SmallerSet
  <2>2. QED
    BY <1>1, <2>1 DEF LedgerInv, LedgerTypes, Ledger!TypeOK
<1>6. AppendsAreUnderWay'
  BY <1>1, <1>4 DEF LedgerInv, AppendsAreUnderWay
<1>7. TiersAreAnswers' /\ KnownTiersAreKept'
  BY <1>1, <1>3, <1>4, AnswersStay
<1>8. WithinLimits' /\ WritersFit'
  BY <1>1, LimitsStay
<1>9. Ledger!RetainedIsKept
  BY <1>1, <1>2 DEF Ledger!RetainedIsKept
<1>10. QED
  BY <1>5, <1>6, <1>7, <1>8, <1>9 DEF LedgerInv

\* The first event of p is not appended: it is gone.
LEMMA DropHolds ==
  ASSUME LedgerInv, NEW p \in Processes, queue[p] # <<>>, Ledger!Dequeue(p),
         gone \subseteq gone', Ledger!Resolutions({Head(queue[p])}) \subseteq gone',
         shards' \subseteq shards, \A e \in shards \ shards' : (e.state = "resolved" => e.gen \in gone') /\ ~Ledger!Retained(e.at),
         UNCHANGED <<now, scope, down>>, ledgerFaults' \in 0..MaxFaults
  PROVE  LedgerInv' /\ Ledger!RetainedIsKept
<1>1. /\ queue' \in [Processes -> Seq(Ledger!Events)]
      /\ append' = [append EXCEPT ![p] = Ledger!NoAppend]
      /\ append' \in [Processes -> [step : {"idle", "check", "write"}, day : Ledger!Days]]
      /\ lookup' \in [Ledger!Generations -> [step : {"none", "observing", "waiting", "over"}, process : Processes \cup {"none"},
                                        attempt : 0..MaxAttempts, tier : Ledger!Tiers]]
      /\ \A q \in Processes : q # p => queue'[q] = queue[q] /\ Waiting(q)' = Waiting(q)
      /\ Waiting(p)' \subseteq Waiting(p) /\ Waiting(p) \subseteq Waiting(p)' \cup {Head(queue[p])}
      /\ \A g \in Ledger!Generations :
              /\ lookup'[g].process = lookup[g].process /\ lookup'[g].tier = lookup[g].tier
              /\ lookup'[g].step = lookup[g].step \/ (lookup[g].step = "observing" /\ lookup'[g].step \in {"waiting", "over"})
  BY DequeueHolds
<1>2. append'[p].step = "idle" /\ \A q \in Processes : q # p => append'[q] = append[q]
  BY <1>1, InLedger DEF Ledger!NoAppend
<1>3. IsFiniteSet(shards')
  BY InLedger, SmallerSet
<1>4. LedgerTypes'
  <2>1. \A q \in Processes : \A i \in DOMAIN queue'[q] : queue'[q][i] \in Ledger!Events
    BY <1>1
  <2>2. QED
    BY <1>1, <1>3, <2>1 DEF LedgerInv, LedgerTypes, Ledger!TypeOK
<1>5. AppendsAreUnderWay'
  <2>1. ASSUME NEW q \in Processes, append'[q].step # "idle"
        PROVE  queue'[q] # <<>> /\ scope'[q] \in Ledger!Scopes /\ Head(queue'[q]).at <= append'[q].day /\ append'[q].day <= now'
    <3>1. q # p /\ queue'[q] = queue[q] /\ append'[q] = append[q] /\ now' = now /\ scope' = scope
      BY <1>1, <1>2, <2>1
    <3>2. QED
      BY <2>1, <3>1 DEF LedgerInv, AppendsAreUnderWay
  <2>2. \A q \in Processes : \A e \in Waiting(q)' : e.at <= now'
    BY <1>1 DEF LedgerInv, AppendsAreUnderWay
  <2>3. \A e \in shards' : e.at <= e.day
    BY DEF LedgerInv, AppendsAreUnderWay
  <2>4. QED
    BY <2>1, <2>2, <2>3 DEF AppendsAreUnderWay
<1>6. TiersAreAnswers' /\ KnownTiersAreKept'
  <2>1. Head(queue[p]).state = "resolved" => Head(queue[p]).gen \in gone'
    BY DEF Ledger!Resolutions
  <2>2. \A q \in Processes : /\ Waiting(q)' \subseteq Waiting(q)
                             /\ \A e \in Waiting(q) : e \in Waiting(q)' \/ (e.state = "resolved" => e.gen \in gone')
    BY <1>1, <2>1
  <2>3. QED
    BY <1>1, <2>2, AnswersStay
<1>7. WithinLimits' /\ WritersFit'
  BY <1>2, LimitsStay
<1>8. Ledger!RetainedIsKept
  BY DEF Ledger!RetainedIsKept, Ledger!Retained
<1>9. QED
  BY <1>4, <1>5, <1>6, <1>7, <1>8 DEF LedgerInv

\* An append chooses its shard, or the event is too old.
LEMMA ResolveHolds ==
  ASSUME LedgerInv, NEW p \in Processes, Ledger!Resolve(p)
  PROVE  LedgerInv' /\ Ledger!RetainedIsKept
<1> DEFINE a == [step |-> "check", day |-> now]
<1>1. append[p].step = "idle" /\ queue[p] # <<>> /\ UNCHANGED <<now, shards, down>>
  BY DEF Ledger!Resolve
<1>2. CASE Ledger!Drop(p) /\ UNCHANGED <<scope, ledgerFaults>>
  BY <1>1, <1>2, DropHolds, InLedger DEF Ledger!Drop
<1>3. CASE append' = [append EXCEPT ![p] = a] /\ Ledger!ResolutionFor(p) /\ UNCHANGED <<queue, lookup, gone>>
  <2>1. a \in [step : {"idle", "check", "write"}, day : Ledger!Days] /\ a.step = "check" /\ a.day = now
    BY InLedger
  <2> HIDE DEF a
  <2>2. /\ scope' \in [Processes -> Ledger!Scopes \cup {"unresolved"}] /\ scope'[p] \in Ledger!Scopes
        /\ ledgerFaults' \in 0..MaxFaults /\ \A q \in Processes : q # p => scope'[q] = scope[q]
    <3>1. CASE scope[p] # "unresolved"
      BY <1>3, <3>1, InLedger DEF Ledger!ResolutionFor
    <3>2. CASE scope[p] = "unresolved"
      <4>1. \/ scope' = [scope EXCEPT ![p] = "repository"] /\ ledgerFaults' = ledgerFaults
            \/ ledgerFaults < MaxFaults /\ ledgerFaults' = ledgerFaults + 1 /\ scope' = [scope EXCEPT ![p] = "directory"]
        BY <1>3, <3>2 DEF Ledger!ResolutionFor, Ledger!Fault
      <4>2. ledgerFaults' \in 0..MaxFaults
        BY <4>1, InLedger, LedgerAssumption
      <4>3. PICK k \in Ledger!Scopes : scope' = [scope EXCEPT ![p] = k]
        BY <4>1 DEF Ledger!Scopes
      <4>4. QED
        BY <4>2, <4>3, InLedger
    <3>3. QED
      BY <3>1, <3>2
  <2>3. /\ append' \in [Processes -> [step : {"idle", "check", "write"}, day : Ledger!Days]]
        /\ append'[p] = a /\ \A q \in Processes : q # p => append'[q] = append[q]
    BY <1>3, <2>1, InLedger
  <2>4. \A q : Waiting(q)' = Waiting(q)
    BY <1>3 DEF Waiting
  <2>5. LedgerTypes'
    BY <1>1, <1>3, <2>2, <2>3 DEF LedgerInv, LedgerTypes, Ledger!TypeOK
  <2>6. AppendsAreUnderWay'
    <3>1. Head(queue[p]).at <= now /\ now <= now
      <4>1. now \in Nat
        BY InLedger
      <4>2. QED
        BY <1>1, <4>1, FirstWaits DEF LedgerInv, AppendsAreUnderWay
    <3>2. ASSUME NEW q \in Processes, append'[q].step # "idle"
          PROVE  queue'[q] # <<>> /\ scope'[q] \in Ledger!Scopes /\ Head(queue'[q]).at <= append'[q].day /\ append'[q].day <= now'
      <4>1. CASE q = p
        BY <1>1, <1>3, <2>1, <2>2, <2>3, <3>1, <4>1
      <4>2. CASE q # p
        <5>1. append'[q] = append[q] /\ scope'[q] = scope[q] /\ queue' = queue /\ now' = now
          BY <1>1, <1>3, <2>2, <2>3, <4>2
        <5>2. QED
          BY <3>2, <5>1 DEF LedgerInv, AppendsAreUnderWay
      <4>3. QED
        BY <4>1, <4>2
    <3>3. QED
      BY <1>1, <2>4, <3>2 DEF LedgerInv, AppendsAreUnderWay
  <2>7. TiersAreAnswers' /\ KnownTiersAreKept'
    BY <1>1, <1>3, <2>4, AnswersStay
  <2>8. WithinLimits' /\ WritersFit'
    BY <1>1, <2>1, <2>2, <2>3, LimitsStay
  <2>9. Ledger!RetainedIsKept
    BY <1>1 DEF Ledger!RetainedIsKept
  <2>10. QED
    BY <2>5, <2>6, <2>7, <2>8, <2>9 DEF LedgerInv
<1>4. QED
  BY <1>2, <1>3 DEF Ledger!Resolve

\* The pruning, and the decision to write or not.
LEMMA CheckHolds ==
  ASSUME LedgerInv, NEW p \in Processes, Ledger!Check(p)
  PROVE  LedgerInv' /\ Ledger!RetainedIsKept
<1> DEFINE k == scope[p]  old == Ledger!Prune(k)  d == append[p].day
<1>1. append[p].step = "check" /\ shards' = shards \ old /\ UNCHANGED <<now, scope, down>>
  BY DEF Ledger!Check
<1>2. \A e \in old : e \in shards /\ ~Ledger!Retained(e.at)
  BY PruneTakesOld
<1>3. \A e \in old : e.state = "resolved" => e.gen \in Ledger!Resolutions(old)
  BY DEF Ledger!Resolutions
<1>4. queue[p] # <<>> /\ k \in Ledger!Scopes /\ d \in Ledger!Days
  BY <1>1, InLedger DEF LedgerInv, AppendsAreUnderWay
<1>5. CASE /\ ledgerFaults' \in 0..MaxFaults /\ Ledger!Dequeue(p)
           /\ gone' = gone \cup Ledger!Resolutions(old) \cup Ledger!Resolutions({Head(queue[p])})
  <2> HIDE DEF old
  <2>1. shards' \subseteq shards /\ \A e \in shards \ shards' : (e.state = "resolved" => e.gen \in gone') /\ ~Ledger!Retained(e.at)
    BY <1>1, <1>2, <1>3, <1>5
  <2>2. QED
    BY <1>1, <1>4, <1>5, <2>1, DropHolds
<1>6. CASE /\ Ledger!Fits(p) /\ append' = [append EXCEPT ![p].step = "write"] /\ gone' = gone \cup Ledger!Resolutions(old)
           /\ UNCHANGED <<queue, lookup, ledgerFaults>>
  <2>1. Cardinality(Ledger!Shard(p, d)) < MaxLines /\ Cardinality(Ledger!Scope(k) \ old) + 1 <= MaxTotal
    BY <1>6, SameLines DEF Ledger!Fits, Ledger!FitsTotal
  <2>3. old \subseteq shards
    BY <1>2
  <2> HIDE DEF old
  <2>4. /\ append' \in [Processes -> [step : {"idle", "check", "write"}, day : Ledger!Days]]
        /\ append'[p].step = "write" /\ append'[p].day = d /\ \A q \in Processes : q # p => append'[q] = append[q]
    BY <1>6, InLedger
  <2>5. \A q : Waiting(q)' = Waiting(q)
    BY <1>6 DEF Waiting
  <2>6. IsFiniteSet(shards')
    BY <1>1, InLedger, SmallerSet
  <2>7. LedgerTypes'
    BY <1>1, <1>6, <2>4, <2>6 DEF LedgerInv, LedgerTypes, Ledger!TypeOK
  <2>8. AppendsAreUnderWay'
    <3>1. \A q \in Processes : append'[q].day = append[q].day /\ (append'[q].step # "idle" => append[q].step # "idle")
      BY <1>1, <2>4
    <3>2. QED
      BY <1>1, <1>6, <2>5, <3>1 DEF LedgerInv, AppendsAreUnderWay
  <2>9. TiersAreAnswers' /\ KnownTiersAreKept'
    <3>1. \A e \in shards : e \in shards' \/ (e.state = "resolved" => e.gen \in gone')
      BY <1>1, <1>3, <1>6
    <3>2. shards' \subseteq shards /\ gone \subseteq gone' /\ lookup' = lookup
      BY <1>1, <1>6
    <3>3. QED
      BY <2>5, <3>1, <3>2, AnswersStay
  <2>10. IsFiniteSet(shards) /\ IsFiniteSet(Processes) /\ MaxTotal \in Nat /\ MaxLines \in Nat
    BY InLedger, LedgerAssumption
  <2>11. WithinLimits'
    <3>1. ASSUME NEW q \in Processes, NEW e \in Ledger!Days PROVE Cardinality(Ledger!Shard(q, e))' <= MaxLines
      <4>1. Cardinality(Ledger!Shard(q, e)) <= MaxLines
        BY DEF LedgerInv, WithinLimits
      <4>2. IsFiniteSet(Ledger!Shard(q, e)) /\ Ledger!Shard(q, e)' \subseteq Ledger!Shard(q, e)
        BY <1>1, <2>10, SmallerSet DEF Ledger!Shard
      <4>3. QED
        BY <2>10, <4>1, <4>2, SmallerSet
    <3>2. ASSUME NEW j \in Ledger!Scopes PROVE Cardinality(Ledger!Scope(j))' <= MaxTotal + Cardinality(Processes) - 1
      <4>1. Cardinality(Ledger!Scope(j)) <= MaxTotal + Cardinality(Processes) - 1
        BY DEF LedgerInv, WithinLimits
      <4>2. IsFiniteSet(Ledger!Scope(j)) /\ Ledger!Scope(j)' \subseteq Ledger!Scope(j)
        BY <1>1, <2>10, SmallerSet DEF Ledger!Scope
      <4>3. Cardinality(Processes) \in Nat
        BY <2>10, FS_CardinalityType
      <4>4. QED
        BY <2>10, <4>1, <4>2, <4>3, SmallerSet
    <3>3. QED
      BY <3>1, <3>2 DEF WithinLimits
  <2>12. WritersFit'
    <3>1. ASSUME NEW q \in Processes, append'[q].step = "write" PROVE Cardinality(Ledger!Shard(q, append[q].day))' < MaxLines
      <4>1. Cardinality(Ledger!Shard(q, append[q].day)) < MaxLines
        BY <2>1, <2>4, <3>1 DEF LedgerInv, WritersFit
      <4>2. append'[q].day = append[q].day
        BY <2>4
      <4>3. IsFiniteSet(Ledger!Shard(q, append[q].day)) /\ Ledger!Shard(q, append[q].day)' \subseteq Ledger!Shard(q, append[q].day)
        BY <1>1, <2>10, <4>2, SmallerSet DEF Ledger!Shard
      <4>4. QED
        BY <2>10, <4>1, <4>3, SmallerSet
    <3>2. ASSUME NEW j \in Ledger!Scopes
          PROVE  Cardinality(Ledger!Scope(j))' + Cardinality(Writers(j))' <= MaxTotal + Cardinality(Processes) - 1
      <4>1. IsFiniteSet(Ledger!Scope(j)) /\ Ledger!Scope(j)' \subseteq Ledger!Scope(j)
        BY <1>1, <2>10, SmallerSet DEF Ledger!Scope
      <4>2. CASE j = k
        <5>1. Cardinality(Ledger!Scope(j))' + 1 <= MaxTotal /\ Cardinality(Ledger!Scope(j))' \in Nat
          <6>1. Ledger!Scope(j)' = Ledger!Scope(k) \ old
            BY <1>1, <4>2 DEF Ledger!Scope
          <6>2. Cardinality(Ledger!Scope(j)') + 1 <= MaxTotal
            BY <2>1, <6>1
          <6>3. QED
            BY <4>1, <6>2, SmallerSet
        <5>2. Writers(j)' \subseteq Processes
          BY DEF Writers
        <5>3. Cardinality(Writers(j))' <= Cardinality(Processes) /\ Cardinality(Writers(j))' \in Nat /\ Cardinality(Processes) \in Nat
          BY <2>10, <5>2, SmallerSet
        <5>4. QED
          BY <2>10, <5>1, <5>3
      <4>3. CASE j # k
        <5>1. Writers(j)' = Writers(j)
          BY <1>1, <2>4, <4>3 DEF Writers
        <5>2. Cardinality(Ledger!Scope(j)) + Cardinality(Writers(j)) <= MaxTotal + Cardinality(Processes) - 1
          BY DEF LedgerInv, WritersFit
        <5>3. IsFiniteSet(Writers(j))
          BY <2>10, SmallerSet DEF Writers
        <5>4. Cardinality(Writers(j)) \in Nat /\ Cardinality(Processes) \in Nat
          BY <2>10, <5>3, FS_CardinalityType
        <5>5. QED
          BY <2>10, <4>1, <5>1, <5>2, <5>4, SmallerSet
      <4>4. QED
        BY <4>2, <4>3
    <3>3. \A q \in Processes : append'[q].day = append[q].day
      BY <1>1, <2>4
    <3>4. QED
      BY <3>1, <3>2, <3>3 DEF WritersFit
  <2>13. Ledger!RetainedIsKept
    BY <1>1, <1>2 DEF Ledger!RetainedIsKept
  <2>14. QED
    BY <2>7, <2>8, <2>9, <2>11, <2>12, <2>13 DEF LedgerInv
<1>7. QED
  <2>1. CASE ledgerFaults' = ledgerFaults \/ Ledger!Fault
    <3>1. ledgerFaults' \in 0..MaxFaults
      BY <2>1, InLedger, LedgerAssumption DEF Ledger!Fault
    <3>2. QED
      BY <1>5, <1>6, <3>1 DEF Ledger!Check
  <2>2. QED
    BY <1>6, <2>1 DEF Ledger!Check

\* A line is added: its shard and its scope have one more, and one process less is to write.
LEMMA AddedFits ==
  ASSUME LedgerInv, NEW p \in Processes, NEW line, append[p].step = "write", line.process = p, line.day = append[p].day,
         line.scope = scope[p], scope[p] \in Ledger!Scopes, shards' = shards \cup {line}, scope' = scope,
         append'[p].step = "idle", \A q \in Processes : q # p => append'[q] = append[q]
  PROVE  WithinLimits' /\ WritersFit'
<1>1. IsFiniteSet(shards) /\ IsFiniteSet(Processes) /\ MaxTotal \in Nat /\ MaxLines \in Nat /\ Cardinality(Processes) \in Nat
  BY InLedger, LedgerAssumption, FS_CardinalityType
<1>2. ASSUME NEW T, IsFiniteSet(T)
      PROVE  /\ IsFiniteSet(T \cup {line}) /\ Cardinality(T) \in Nat /\ Cardinality(T \cup {line}) \in Nat
             /\ Cardinality(T \cup {line}) <= Cardinality(T) + 1
  <2>1. /\ IsFiniteSet(T \cup {line}) /\ Cardinality(T) \in Nat
        /\ Cardinality(T \cup {line}) = IF line \in T THEN Cardinality(T) ELSE Cardinality(T) + 1
    BY <1>2, FS_AddElement, FS_CardinalityType
  <2> DEFINE n == Cardinality(T)  m == Cardinality(T \cup {line})
  <2>2. n \in Nat /\ (m = n \/ m = n + 1)
    BY <2>1
  <2> HIDE DEF n, m
  <2>3. m \in Nat /\ m <= n + 1
    BY <2>2
  <2>4. QED
    BY <2>1, <2>3 DEF n, m
<1>3. ASSUME NEW q \in Processes, NEW d PROVE IsFiniteSet(Ledger!Shard(q, d)) /\ Cardinality(Ledger!Shard(q, d)) \in Nat
  <2>1. Ledger!Shard(q, d) \subseteq shards
    BY DEF Ledger!Shard
  <2>2. QED
    BY <1>1, <2>1, SmallerSet
<1>4. ASSUME NEW k
      PROVE  /\ IsFiniteSet(Ledger!Scope(k)) /\ IsFiniteSet(Writers(k))
             /\ Cardinality(Ledger!Scope(k)) \in Nat /\ Cardinality(Writers(k)) \in Nat
  <2>1. Ledger!Scope(k) \subseteq shards /\ Writers(k) \subseteq Processes
    BY DEF Ledger!Scope, Writers
  <2>2. QED
    BY <1>1, <2>1, SmallerSet
<1>5. ASSUME NEW q \in Processes, NEW d PROVE Ledger!Shard(q, d)' = Ledger!Shard(q, d) \/ (q = p /\ d = append[p].day /\ Ledger!Shard(q, d)' = Ledger!Shard(q, d) \cup {line})
  BY DEF Ledger!Shard
<1>6. ASSUME NEW k PROVE /\ k # scope[p] => Ledger!Scope(k)' = Ledger!Scope(k) /\ Writers(k)' = Writers(k)
                         /\ k = scope[p] => /\ Ledger!Scope(k)' = Ledger!Scope(k) \cup {line}
                                            /\ Writers(k)' = Writers(k) \ {p} /\ p \in Writers(k)
  BY DEF Ledger!Scope, Writers
<1>7. ASSUME NEW k \in Ledger!Scopes
      PROVE  /\ Cardinality(Ledger!Scope(k))' + Cardinality(Writers(k))' <= MaxTotal + Cardinality(Processes) - 1
             /\ Cardinality(Ledger!Scope(k))' \in Nat /\ Cardinality(Writers(k))' \in Nat
  <2>1. Cardinality(Ledger!Scope(k)) + Cardinality(Writers(k)) <= MaxTotal + Cardinality(Processes) - 1
    BY DEF LedgerInv, WritersFit
  <2>2. CASE k # scope[p]
    BY <1>4, <1>6, <2>1, <2>2
  <2>3. CASE k = scope[p]
    <3>1. Cardinality(Writers(k) \ {p}) = Cardinality(Writers(k)) - 1
      BY <1>4, <1>6, <2>3, FS_RemoveElement
    <3>2. Cardinality(Ledger!Scope(k) \cup {line}) <= Cardinality(Ledger!Scope(k)) + 1 /\ Cardinality(Ledger!Scope(k) \cup {line}) \in Nat
      BY <1>2, <1>4
    <3>3. IsFiniteSet(Writers(k) \ {p}) /\ Cardinality(Writers(k) \ {p}) \in Nat
      BY <1>4, SmallerSet
    <3>4. Ledger!Scope(k)' = Ledger!Scope(k) \cup {line} /\ Writers(k)' = Writers(k) \ {p}
      BY <1>6, <2>3
    <3> DEFINE n == Cardinality(Ledger!Scope(k))  m == Cardinality(Writers(k))  n1 == Cardinality(Ledger!Scope(k) \cup {line})
               m1 == Cardinality(Writers(k) \ {p})
    <3>5. n \in Nat /\ m \in Nat /\ n1 \in Nat /\ m1 \in Nat /\ m1 = m - 1 /\ n1 <= n + 1 /\ n + m <= MaxTotal + Cardinality(Processes) - 1
      BY <1>4, <2>1, <3>1, <3>2, <3>3
    <3>6. Cardinality(Ledger!Scope(k))' = n1 /\ Cardinality(Writers(k))' = m1
      BY <3>4
    <3> HIDE DEF n, m, n1, m1
    <3>7. QED
      BY <1>1, <3>5, <3>6
  <2>4. QED
    BY <2>2, <2>3
<1>8. WithinLimits'
  <2>1. ASSUME NEW q \in Processes, NEW d \in Ledger!Days PROVE Cardinality(Ledger!Shard(q, d))' <= MaxLines
    <3>1. Cardinality(Ledger!Shard(q, d)) <= MaxLines
      BY DEF LedgerInv, WithinLimits
    <3>2. CASE q = p /\ d = append[p].day
      <4>1. Cardinality(Ledger!Shard(q, d)) < MaxLines
        BY <3>2 DEF LedgerInv, WritersFit
      <4>2. Cardinality(Ledger!Shard(q, d) \cup {line}) <= Cardinality(Ledger!Shard(q, d)) + 1 /\ Cardinality(Ledger!Shard(q, d) \cup {line}) \in Nat
        BY <1>2, <1>3
      <4>3. Cardinality(Ledger!Shard(q, d) \cup {line}) <= MaxLines
        BY <1>1, <1>3, <4>1, <4>2
      <4>4. QED
        BY <1>5, <3>1, <4>3
    <3>3. CASE ~(q = p /\ d = append[p].day)
      BY <1>5, <3>1, <3>3
    <3>4. QED
      BY <3>2, <3>3
  <2>2. ASSUME NEW k \in Ledger!Scopes PROVE Cardinality(Ledger!Scope(k))' <= MaxTotal + Cardinality(Processes) - 1
    BY <1>1, <1>7
  <2>3. QED
    BY <2>1, <2>2 DEF WithinLimits
<1>9. WritersFit'
  <2>1. ASSUME NEW q \in Processes, append'[q].step = "write" PROVE \E d : d = append'[q].day /\ Cardinality(Ledger!Shard(q, d)') < MaxLines
    <3>1. q # p /\ append'[q] = append[q]
      BY <2>1
    <3>2. Cardinality(Ledger!Shard(q, append[q].day)) < MaxLines
      BY <2>1, <3>1 DEF LedgerInv, WritersFit
    <3>3. PICK d : d = append[q].day /\ d = append'[q].day
      BY <3>1
    <3>4. Ledger!Shard(q, d)' = Ledger!Shard(q, d)
      BY <1>5, <3>1
    <3>5. QED
      BY <3>2, <3>3, <3>4
  <2>2. ASSUME NEW q \in Processes, append'[q].step = "write" PROVE Cardinality({x \in shards' : x.process = q /\ x.day = append'[q].day}) < MaxLines
    BY <2>1, <2>2 DEF Ledger!Shard
  <2>3. QED
    BY <1>7, <2>2 DEF WritersFit, Ledger!Shard
<1>10. QED
  BY <1>8, <1>9

LEMMA WriteHolds ==
  ASSUME LedgerInv, NEW p \in Processes, Ledger!Write(p)
  PROVE  LedgerInv' /\ Ledger!RetainedIsKept
<1> DEFINE e == Head(queue[p])
           line == [process |-> p, scope |-> scope[p], day |-> append[p].day, gen |-> e.gen, state |-> e.state,
                    tier |-> e.tier, at |-> e.at]
<1>1. append[p].step = "write" /\ UNCHANGED <<now, scope, down>>
  BY DEF Ledger!Write
<1>2. /\ queue[p] # <<>> /\ scope[p] \in Ledger!Scopes /\ e.at <= append[p].day /\ append[p].day <= now
      /\ append[p].day \in Ledger!Days /\ e \in Ledger!Events /\ e \in Waiting(p)
  BY <1>1, InLedger, FirstWaits DEF LedgerInv, AppendsAreUnderWay
<1>3. CASE Ledger!Fault /\ Ledger!Drop(p) /\ UNCHANGED shards
  <2>1. ledgerFaults' \in 0..MaxFaults
    BY <1>3, InLedger, LedgerAssumption DEF Ledger!Fault
  <2>2. QED
    BY <1>1, <1>2, <1>3, <2>1, DropHolds DEF Ledger!Drop
<1>4. CASE shards' = shards \cup {line} /\ Ledger!Dequeue(p) /\ UNCHANGED <<gone, ledgerFaults>>
  <2>1. e.gen \in Ledger!Generations /\ e.state \in {"observed", "resolved"} /\ e.tier \in Ledger!Tiers /\ e.at \in Ledger!Days
    BY <1>2 DEF Ledger!Events
  <2> HIDE DEF e
  <2>2. /\ line \in Lines /\ line.process = p /\ line.day = append[p].day /\ line.scope = scope[p] /\ line.at <= line.day
        /\ line.gen = e.gen /\ line.state = e.state /\ line.tier = e.tier
    BY <1>2, <2>1 DEF Lines
  <2> HIDE DEF line
  <2>3. /\ queue' \in [Processes -> Seq(Ledger!Events)]
        /\ append' = [append EXCEPT ![p] = Ledger!NoAppend]
        /\ append' \in [Processes -> [step : {"idle", "check", "write"}, day : Ledger!Days]]
        /\ lookup' \in [Ledger!Generations -> [step : {"none", "observing", "waiting", "over"}, process : Processes \cup {"none"},
                                        attempt : 0..MaxAttempts, tier : Ledger!Tiers]]
        /\ \A q \in Processes : q # p => queue'[q] = queue[q] /\ Waiting(q)' = Waiting(q)
        /\ Waiting(p)' \subseteq Waiting(p) /\ Waiting(p) \subseteq Waiting(p)' \cup {e}
        /\ \A g \in Ledger!Generations :
              /\ lookup'[g].process = lookup[g].process /\ lookup'[g].tier = lookup[g].tier
              /\ lookup'[g].step = lookup[g].step \/ (lookup[g].step = "observing" /\ lookup'[g].step \in {"waiting", "over"})
    BY <1>2, <1>4, DequeueHolds DEF e
  <2>4. append'[p].step = "idle" /\ \A q \in Processes : q # p => append'[q] = append[q]
    BY <2>3, InLedger DEF Ledger!NoAppend
  <2>5. LedgerTypes'
    <3>1. shards' \subseteq Lines /\ IsFiniteSet(shards')
      BY <1>4, <2>2, InLedger, FS_AddElement
    <3>2. \A q \in Processes : \A i \in DOMAIN queue'[q] : queue'[q][i] \in Ledger!Events
      BY <2>3
    <3>3. \A x \in shards' : x.process \in Processes /\ x.scope \in Ledger!Scopes /\ x.day \in Ledger!Days /\ x.at \in Ledger!Days
      BY <3>1 DEF Lines
    <3>4. QED
      BY <1>1, <1>4, <2>3, <3>1, <3>2, <3>3, InLedger DEF LedgerTypes, Ledger!TypeOK
  <2>6. AppendsAreUnderWay'
    <3>1. ASSUME NEW q \in Processes, append'[q].step # "idle"
          PROVE  queue'[q] # <<>> /\ scope'[q] \in Ledger!Scopes /\ Head(queue'[q]).at <= append'[q].day /\ append'[q].day <= now'
      <4>1. q # p /\ queue'[q] = queue[q] /\ append'[q] = append[q] /\ now' = now /\ scope' = scope
        BY <1>1, <2>3, <2>4, <3>1
      <4>2. QED
        BY <3>1, <4>1 DEF LedgerInv, AppendsAreUnderWay
    <3>2. \A q \in Processes : \A x \in Waiting(q)' : x.at <= now'
      <4>1. \A q \in Processes : Waiting(q)' \subseteq Waiting(q)
        BY <2>3
      <4>2. \A q \in Processes : \A x \in Waiting(q) : x.at <= now
        BY DEF LedgerInv, AppendsAreUnderWay
      <4>3. QED
        BY <1>1, <4>1, <4>2
    <3>3. \A x \in shards' : x.at <= x.day
      BY <1>4, <2>2 DEF LedgerInv, AppendsAreUnderWay
    <3>4. QED
      BY <3>1, <3>2, <3>3 DEF AppendsAreUnderWay
  <2>7. TiersAreAnswers' /\ KnownTiersAreKept'
    <3>1. \A x \in shards' : x \in shards \/ \E q \in Processes : \E f \in Waiting(q) : f.gen = x.gen /\ f.state = x.state /\ f.tier = x.tier
      BY <1>2, <1>4, <2>2
    <3>2. \A q \in Processes : /\ Waiting(q)' \subseteq Waiting(q)
                               /\ \A x \in Waiting(q) : x \in Waiting(q)' \/ \E f \in shards' : f.gen = x.gen /\ f.state = x.state
      <4>1. line \in shards'
        BY <1>4
      <4>2. QED
        BY <2>2, <2>3, <4>1
    <3>3. \A x \in shards : x \in shards'
      BY <1>4
    <3>4. gone \subseteq gone'
      BY <1>4
    <3>5. QED
      BY <2>3, <3>1, <3>2, <3>3, <3>4, AnswersStay
  <2>8. WithinLimits' /\ WritersFit'
    BY <1>1, <1>2, <1>4, <2>2, <2>4, AddedFits
  <2>9. Ledger!RetainedIsKept
    BY <1>4 DEF Ledger!RetainedIsKept
  <2>10. QED
    BY <2>5, <2>6, <2>7, <2>8, <2>9 DEF LedgerInv
<1>5. QED
  BY <1>3, <1>4 DEF Ledger!Write

Lookups == [step : {"none", "observing", "waiting", "over"}, process : Processes \cup {"none"},
            attempt : 0..MaxAttempts, tier : Ledger!Tiers]

\* The lookup of one generation, of which nothing resolved is waiting or on disk, goes on, and its
\* process may have an event more to append.
LEMMA LookHolds ==
  ASSUME LedgerInv, NEW g \in Ledger!Generations, NEW p \in Processes, NEW r \in Lookups, NEW e \in Ledger!Events,
         lookup[g].step # "over", Ledger!Look(g, r), r.process = p, r.step # "over" => r.tier = "unknown",
         e.gen = g, e.at = now, e.state = "resolved" => r.step = "over" /\ e.tier = r.tier,
         \/ Ledger!Enqueue(p, e) /\ (e.state = "resolved" \/ r.tier = "unknown")
         \/ UNCHANGED queue /\ r.tier = "unknown",
         UNCHANGED <<now, scope, shards, append, down, gone, ledgerFaults>>
  PROVE  LedgerInv' /\ Ledger!RetainedIsKept
<1>1. /\ queue' \in [Processes -> Seq(Ledger!Events)]
      /\ \A q \in Processes : Waiting(q)' = Waiting(q) \/ (q = p /\ Waiting(q)' = Waiting(q) \cup {e})
      /\ \A q \in Processes : queue[q] # <<>> => queue'[q] # <<>> /\ Head(queue'[q]) = Head(queue[q])
      /\ (e \in Waiting(p)' /\ e.state = "resolved") \/ r.tier = "unknown"
  <2>1. CASE Ledger!Enqueue(p, e) /\ (e.state = "resolved" \/ r.tier = "unknown")
    BY <2>1, EnqueueHolds
  <2>2. CASE UNCHANGED queue /\ r.tier = "unknown"
    BY <2>2, InLedger DEF Waiting
  <2>3. QED
    BY <2>1, <2>2
<1>2. /\ lookup' \in [Ledger!Generations -> Lookups] /\ lookup'[g] = r
      /\ \A h \in Ledger!Generations : h # g => lookup'[h] = lookup[h]
  BY InLedger DEF Ledger!Look, Lookups
<1>3. LedgerTypes'
  <2>1. \A q \in Processes : \A i \in DOMAIN queue'[q] : queue'[q][i] \in Ledger!Events
    BY <1>1
  <2>2. lookup' \in [Ledger!Generations -> [step : {"none", "observing", "waiting", "over"}, process : Processes \cup {"none"},
                                        attempt : 0..MaxAttempts, tier : Ledger!Tiers]]
    BY <1>2 DEF Lookups
  <2>3. QED
    BY <1>1, <2>1, <2>2 DEF LedgerInv, LedgerTypes, Ledger!TypeOK
<1>4. AppendsAreUnderWay'
  <2>1. now \in Nat
    BY InLedger
  <2>2. \A q \in Processes : \A x \in Waiting(q)' : x.at <= now'
    <3>1. ASSUME NEW q \in Processes, NEW x, x \in Waiting(q)' PROVE x.at <= now
      <4>1. x \in Waiting(q) \/ x = e
        BY <1>1, <3>1
      <4>2. QED
        BY <2>1, <4>1 DEF LedgerInv, AppendsAreUnderWay
    <3>2. QED
      BY <3>1
  <2>3. \A q \in Processes : append'[q].step # "idle" =>
          queue'[q] # <<>> /\ scope'[q] \in Ledger!Scopes /\ Head(queue'[q]).at <= append'[q].day /\ append'[q].day <= now'
    BY <1>1 DEF LedgerInv, AppendsAreUnderWay
  <2>4. QED
    BY <2>2, <2>3 DEF LedgerInv, AppendsAreUnderWay
<1>5. TiersAreAnswers'
  <2>1. \A x \in shards : x.gen \in Ledger!Generations /\ (x.state = "resolved" => x.gen # g)
    BY InLedger DEF LedgerInv, TiersAreAnswers, Lines
  <2>2. \A q \in Processes : \A x \in Waiting(q) : x.gen \in Ledger!Generations /\ (x.state = "resolved" => x.gen # g)
    BY WaitingIsTyped DEF LedgerInv, TiersAreAnswers, Ledger!Events
  <2>3. \A x \in shards' : x.state = "resolved" => lookup'[x.gen].step = "over" /\ x.tier = lookup'[x.gen].tier
    BY <1>2, <2>1 DEF LedgerInv, TiersAreAnswers
  <2>4. ASSUME NEW q \in Processes, NEW x, x \in Waiting(q)', x.state = "resolved"
        PROVE  lookup'[x.gen].step = "over" /\ x.tier = lookup'[x.gen].tier
    <3>1. x \in Waiting(q) \/ x = e
      BY <1>1, <2>4
    <3>2. CASE x \in Waiting(q)
      BY <1>2, <2>2, <2>4, <3>2 DEF LedgerInv, TiersAreAnswers
    <3>3. CASE x = e
      BY <1>2, <2>4, <3>3
    <3>4. QED
      BY <3>1, <3>2, <3>3
  <2>5. \A h \in Ledger!Generations :
          /\ lookup'[h].step # "over" => lookup'[h].tier = "unknown"
          /\ lookup'[h].step # "none" => lookup'[h].process \in Processes
    BY <1>2 DEF LedgerInv, TiersAreAnswers
  <2>6. QED
    BY <2>3, <2>4, <2>5 DEF TiersAreAnswers
<1>6. KnownTiersAreKept'
  <2>1. ASSUME NEW h \in Ledger!Generations, lookup'[h].step = "over", lookup'[h].tier # "unknown", h \notin gone'
        PROVE  \/ \E x \in shards' : x.gen = h /\ x.state = "resolved"
               \/ \E q \in Processes : q = lookup'[h].process /\ \E x \in Waiting(q)' : x.gen = h /\ x.state = "resolved"
    <3>1. CASE h = g
      BY <1>1, <1>2, <2>1, <3>1
    <3>2. CASE h # g
      <4>1. lookup'[h] = lookup[h] /\ h \notin gone
        BY <1>2, <2>1, <3>2
      <4>2. PICK q \in Processes : q = lookup[h].process
        BY <2>1, <4>1 DEF LedgerInv, TiersAreAnswers
      <4>3. \/ \E x \in shards : x.gen = h /\ x.state = "resolved"
            \/ \E x \in Waiting(q) : x.gen = h /\ x.state = "resolved"
        BY <2>1, <4>1, <4>2 DEF LedgerInv, KnownTiersAreKept
      <4>4. Waiting(q) \subseteq Waiting(q)'
        BY <1>1
      <4>5. QED
        BY <4>1, <4>2, <4>3, <4>4
    <3>3. QED
      BY <3>1, <3>2
  <2>2. QED
    BY <2>1 DEF KnownTiersAreKept, Waiting
<1>7. WithinLimits' /\ WritersFit'
  BY LimitsStay
<1>8. Ledger!RetainedIsKept
  BY DEF Ledger!RetainedIsKept
<1>9. QED
  BY <1>3, <1>4, <1>5, <1>6, <1>7, <1>8 DEF LedgerInv

LEMMA ObserveHolds ==
  ASSUME LedgerInv, NEW p \in Processes, NEW g \in Ledger!Generations, Ledger!ObserveCompletion(p, g)
  PROVE  LedgerInv' /\ Ledger!RetainedIsKept
<1> DEFINE e == Ledger!Event(g, "observed", "unknown")
<1>1. PICK to \in {"observing", "over"} : Ledger!Look(g, [Ledger!NoLookup EXCEPT !.step = to, !.process = p])
  BY DEF Ledger!ObserveCompletion
<1> DEFINE r == [Ledger!NoLookup EXCEPT !.step = to, !.process = p]
<1>2. e \in Ledger!Events /\ e.gen = g /\ e.at = now /\ e.state = "observed"
  BY InLedger DEF Ledger!Event, Ledger!Events, Ledger!Tiers
<1>3. r \in Lookups /\ r.process = p /\ r.tier = "unknown"
  <2> DEFINE L == [step : {"none", "observing", "waiting", "over"}, process : Processes \cup {"none"}, attempt : 0..MaxAttempts, tier : Ledger!Tiers]
  <2>1. 0 \in 0..MaxAttempts
    BY LedgerAssumption
  <2>2. Ledger!NoLookup \in L /\ Ledger!NoLookup.tier = "unknown"
    BY <2>1 DEF Ledger!NoLookup, Ledger!Tiers
  <2> HIDE DEF Ledger!NoLookup
  <2>3. r \in L /\ r.process = p /\ r.tier = "unknown"
    BY <2>2
  <2>4. QED
    BY <2>3 DEF Lookups
<1>4. lookup[g].step = "none" /\ Ledger!Enqueue(p, e) /\ Ledger!Look(g, r)
      /\ UNCHANGED <<now, scope, shards, append, down, gone, ledgerFaults>>
  BY <1>1 DEF Ledger!ObserveCompletion
<1> HIDE DEF e, r
<1>5. QED
  BY <1>2, <1>3, <1>4, LookHolds

LEMMA LookupHolds ==
  ASSUME LedgerInv, NEW g \in Ledger!Generations, Ledger!Lookup(g)
  PROVE  LedgerInv' /\ Ledger!RetainedIsKept
<1>1. lookup[g].step = "waiting" /\ lookup[g] \in Lookups /\ UNCHANGED <<now, scope, shards, append, down, gone, ledgerFaults>>
  BY InLedger DEF Ledger!Lookup, Lookups
<1>2. PICK p \in Processes : p = lookup[g].process
  BY <1>1 DEF LedgerInv, TiersAreAnswers
<1>3. CASE \E tier \in Ledger!Tiers :
             /\ IF Ledger!Discards(p, tier) THEN UNCHANGED queue ELSE Ledger!Enqueue(p, Ledger!Event(g, "resolved", tier))
             /\ Ledger!Look(g, [lookup[g] EXCEPT !.step = "over", !.attempt = 0, !.tier = tier])
  <2>1. PICK tier \in Ledger!Tiers :
             /\ IF Ledger!Discards(p, tier) THEN UNCHANGED queue ELSE Ledger!Enqueue(p, Ledger!Event(g, "resolved", tier))
             /\ Ledger!Look(g, [lookup[g] EXCEPT !.step = "over", !.attempt = 0, !.tier = tier])
    BY <1>3
  <2> DEFINE e == Ledger!Event(g, "resolved", tier)  r == [lookup[g] EXCEPT !.step = "over", !.attempt = 0, !.tier = tier]
  <2>2. e \in Ledger!Events /\ e.gen = g /\ e.at = now /\ e.state = "resolved" /\ e.tier = tier
    BY InLedger DEF Ledger!Event, Ledger!Events
  <2>3. r \in Lookups /\ r.process = p /\ r.tier = tier /\ r.step = "over"
    <3>1. 0 \in 0..MaxAttempts
      BY LedgerAssumption
    <3>2. r \in Lookups /\ r.tier = tier /\ r.step = "over" /\ r.process = lookup[g].process
      BY <1>1, <3>1 DEF Lookups
    <3>3. QED
      BY <1>2, <3>2
  <2>4. Ledger!Enqueue(p, e) \/ (UNCHANGED queue /\ tier = "unknown")
    BY <2>1 DEF Ledger!Discards
  <2>5. Ledger!Look(g, r)
    BY <2>1
  <2> HIDE DEF e, r
  <2>6. QED
    BY <1>1, <2>2, <2>3, <2>4, <2>5, LookHolds
<1>4. CASE /\ lookup[g].attempt + 1 < MaxAttempts
           /\ Ledger!Look(g, [lookup[g] EXCEPT !.attempt = lookup[g].attempt + 1]) /\ UNCHANGED queue
  <2> DEFINE e == Ledger!Event(g, "observed", "unknown")  r == [lookup[g] EXCEPT !.attempt = lookup[g].attempt + 1]
  <2>1. e \in Ledger!Events /\ e.gen = g /\ e.at = now /\ e.state = "observed"
    BY InLedger DEF Ledger!Event, Ledger!Events, Ledger!Tiers
  <2>2. lookup[g].tier = "unknown"
    BY <1>1 DEF LedgerInv, TiersAreAnswers
  <2>3. lookup[g].attempt + 1 \in 0..MaxAttempts
    BY <1>1, <1>4, LedgerAssumption DEF Lookups
  <2>4. r \in Lookups /\ r.process = p /\ r.tier = "unknown" /\ r.step = "waiting"
    BY <1>1, <1>2, <2>2, <2>3 DEF Lookups
  <2>5. Ledger!Look(g, r)
    BY <1>4
  <2> HIDE DEF e, r
  <2>6. QED
    BY <1>1, <1>4, <2>1, <2>4, <2>5, LookHolds
<1>5. QED
  BY <1>2, <1>3, <1>4 DEF Ledger!Lookup

LEMMA LedgerHolds == ASSUME LedgerInv, [Ledger!Next]_ledgerVars PROVE LedgerInv' /\ Ledger!RetainedIsKept
<1>1. CASE UNCHANGED ledgerVars
  <2>1. UNCHANGED <<now, scope, shards, queue, append, down, lookup, gone, ledgerFaults>>
    BY <1>1 DEF ledgerVars
  <2>2. \A p : Waiting(p)' = Waiting(p)
    BY <2>1 DEF Waiting
  <2>3. LedgerTypes' /\ AppendsAreUnderWay'
    BY <2>1, <2>2 DEF LedgerInv, LedgerTypes, Ledger!TypeOK, AppendsAreUnderWay
  <2>4. TiersAreAnswers' /\ KnownTiersAreKept'
    BY <2>1, <2>2, AnswersStay
  <2>5. WithinLimits' /\ WritersFit' /\ Ledger!RetainedIsKept
    BY <2>1, LimitsStay DEF Ledger!RetainedIsKept
  <2>6. QED
    BY <2>3, <2>4, <2>5 DEF LedgerInv
<1>2. CASE Ledger!Next
  BY <1>2, TimeHolds, ReportHolds, ResolveHolds, CheckHolds, WriteHolds, ObserveHolds, LookupHolds
     DEF Ledger!Next, Ledger!LookupStep, Ledger!QueueStep
<1>3. QED
  BY <1>1, <1>2

LEMMA LedgerServes == ASSUME LedgerInv PROVE Ledger!TypeOK /\ Ledger!TiersAreKept /\ Ledger!LimitsHold
<1>1. Ledger!LimitsHold
  BY SameLines DEF LedgerInv, WithinLimits, Ledger!LimitsHold
<1>2. ASSUME NEW g \in Ledger!Generations, lookup[g].step = "over", g \notin gone
      PROVE  \/ Ledger!Outcome(g) = lookup[g].tier
             \/ \E i \in DOMAIN queue[lookup[g].process] : queue[lookup[g].process][i].gen = g
  <2>1. CASE lookup[g].tier = "unknown"
    <3>1. \A e \in shards : e.gen = g /\ e.state = "resolved" => e.tier = "unknown"
      BY <2>1 DEF LedgerInv, TiersAreAnswers
    <3>2. QED
      BY <2>1, <3>1 DEF Ledger!Outcome
  <2>2. CASE lookup[g].tier # "unknown"
    <3>1. lookup[g].tier = "flex"
      BY <2>2, InLedger DEF Ledger!Tiers
    <3>2. CASE \E e \in shards : e.gen = g /\ e.state = "resolved"
      BY <2>2, <3>1, <3>2 DEF LedgerInv, TiersAreAnswers, Ledger!Outcome
    <3>3. CASE \E e \in Waiting(lookup[g].process) : e.gen = g /\ e.state = "resolved"
      BY <3>3 DEF Waiting
    <3>4. QED
      BY <1>2, <2>2, <3>2, <3>3 DEF LedgerInv, KnownTiersAreKept
  <2>3. QED
    BY <2>1, <2>2
<1>3. QED
  BY <1>1, <1>2 DEF Ledger!TiersAreKept, LedgerInv, LedgerTypes

LEMMA LedgerMoves ==
  /\ KeptInit => Ledger!Init
  /\ [KeptNext]_keptVars => [Ledger!Next]_ledgerVars
BY DEF KeptInit, KeptNext, keptVars
-----------------------------------------------------------------------------
(* The panes of a council's seats.                                         *)

AgentRecords == [pane : Seating!Panes, status : {"none", "prompt", "idle"}]

\* A pane that is closed, or that an open may not close.
LeftAlone(pane) == pane \in seatOpen /\ pane # 0 => pane = caller \/ tab[pane] = "away"

\* Panes are numbered as they are split, agents run in split ones, and an agent that runs in
\* the pane a record names for its seat is there by every newer record.
SeatIsKnown(s) ==
  /\ agents[s].status # "none" => agents[s].pane # 0
  /\ agents[s].pane <= opened /\ manifest[s].pane <= opened /\ seatMem[s].pane <= opened /\ snapshot[s].pane <= opened
  /\ agents[s].status # "none" /\ agents[s].pane = snapshot[s].pane => agents[s].pane = manifest[s].pane
  /\ command # "none" /\ agents[s].status # "none" /\ agents[s].pane = manifest[s].pane => agents[s].pane = seatMem[s].pane

\* What a command changed of the manifest leaves the pane that is recorded alone, and a seat is
\* started while no agent runs there.
SeatIsBooked(s) ==
  /\ command # "none" => seatMem[s].pane = manifest[s].pane \/ LeftAlone(manifest[s].pane)
  /\ command = "reconcile" => seatMem[s].pane = manifest[s].pane
  /\ command \in {"reconcile", "start"} /\ s \in starting /\ (command = "start" => s \notin todo) =>
       agents[s].status = "none" /\ seatMem[s].pane = manifest[s].pane /\ LeftAlone(manifest[s].pane)

SeatFits(s) == SeatIsKnown(s) /\ SeatIsBooked(s)

SeatInv ==
  /\ Seating!TypeOK /\ (command = "none" => seatMem = Seating!NoManifest /\ starting = {})
  /\ \A s \in Seats : SeatFits(s)

LEMMA SeatTypes ==
  ASSUME SeatInv
  PROVE  /\ agents \in [Seats -> AgentRecords] /\ manifest \in [Seats -> Seating!Records] /\ seatMem \in [Seats -> Seating!Records]
         /\ snapshot \in [Seats -> Seating!Records] /\ tab \in [Seating!Panes -> {"home", "away"}]
         /\ opened \in 0..MaxPanes /\ seatOpen \subseteq 0..opened /\ caller \in Seating!Panes /\ 0 \in Seating!Panes
         /\ MaxPanes \in Nat /\ Seating!Panes = 0..MaxPanes /\ seatOpen \subseteq Seating!Panes
         /\ humans \in 0..MaxHuman /\ mishaps \in 0..MaxMishaps /\ MaxHuman \in Nat /\ MaxMishaps \in Nat
         /\ todo \subseteq Seats /\ starting \subseteq Seats /\ command \in {"none", "reconcile", "start", "close"}
BY SeatsAssumption DEF SeatInv, Seating!TypeOK, AgentRecords, Seating!Panes

LEMMA SeatRecords ==
  /\ Seating!Vanished \in AgentRecords /\ Seating!Unseated \in Seating!Records
  /\ Seating!NoManifest \in [Seats -> Seating!Records] /\ Seating!FreshManifest \in [Seats -> Seating!Records]
  /\ \A s \in Seats : Seating!NoManifest[s].pane = 0 /\ Seating!FreshManifest[s].pane = 0 /\ Seating!NoManifest[s].state = "none"
  /\ Seating!Vanished.status = "none" /\ Seating!Vanished.pane = 0 /\ Seating!Unseated.pane = 0
BY SeatsAssumption DEF Seating!Vanished, Seating!Unseated, Seating!NoManifest, Seating!FreshManifest, AgentRecords, Seating!Records, Seating!Panes

LEMMA SeatInitHolds == ASSUME Seating!Init PROVE SeatInv
<1>1. /\ \A s \in Seats : agents[s].status = "none" /\ agents[s].pane = 0 /\ manifest[s].pane = 0 /\ seatMem[s].pane = 0 /\ snapshot[s].pane = 0
      /\ opened = 0 /\ command = "none" /\ starting = {} /\ seatMem = Seating!NoManifest
  BY SeatRecords DEF Seating!Init
<1>2. Seating!TypeOK
  <2>1. 0 \in Seating!Panes /\ 0 \in 0..MaxHuman /\ 0 \in 0..MaxMishaps /\ 0 \in 0..0
    BY SeatsAssumption DEF Seating!Panes
  <2>2. QED
    BY <2>1, SeatRecords DEF Seating!Init, Seating!TypeOK, AgentRecords
<1>3. QED
  BY <1>1, <1>2 DEF SeatInv, SeatFits, SeatIsKnown, SeatIsBooked

\* The human closes panes, moves them and quits agents; a prompt is answered.
LEMMA HumanHolds ==
  ASSUME SeatInv, Seating!HumanActs \/ \E s \in Seats : Seating!HumanAnswersPrompt(s)
  PROVE  SeatInv' /\ Seating!PanesStayAccounted
<1>1. UNCHANGED <<opened, manifest, seatMem, command, caller, todo, starting, snapshot, mishaps>>
  BY DEF Seating!HumanActs, Seating!HumanAnswersPrompt
<1>2. /\ agents' \in [Seats -> AgentRecords]
      /\ \A s \in Seats : /\ agents'[s].status # "none" => agents[s].status # "none" /\ agents'[s].pane = agents[s].pane
                          /\ agents'[s].pane = agents[s].pane \/ agents'[s].pane = 0
      /\ seatOpen' \subseteq seatOpen /\ tab' \in [Seating!Panes -> {"home", "away"}]
      /\ \A p \in Seating!Panes : tab[p] = "away" => tab'[p] = "away"
      /\ humans' \in 0..MaxHuman /\ (humans' = humans => seatOpen' = seatOpen)
  <2>1. CASE \E s \in Seats : Seating!HumanAnswersPrompt(s)
    BY <2>1, SeatTypes DEF Seating!HumanAnswersPrompt, AgentRecords
  <2>2. CASE Seating!HumanActs
    <3>1. humans' \in 0..MaxHuman /\ humans' # humans
      BY <2>2, SeatTypes DEF Seating!HumanActs
    <3>2. CASE \E s \in Seats : agents' = [agents EXCEPT ![s] = Seating!Vanished] /\ UNCHANGED <<tab, seatOpen>>
      BY <3>1, <3>2, SeatTypes, SeatRecords
    <3>3. CASE \E p \in seatOpen \ {0} : seatOpen' = seatOpen \ {p} /\ agents' = Seating!Without(p) /\ UNCHANGED tab
      BY <3>1, <3>3, SeatTypes, SeatRecords DEF Seating!Without
    <3>4. CASE \E p \in seatOpen \ {0} : tab' = [tab EXCEPT ![p] = "away"] /\ UNCHANGED <<agents, seatOpen>>
      BY <3>1, <3>4, SeatTypes
    <3>5. QED
      BY <2>2, <3>2, <3>3, <3>4 DEF Seating!HumanActs
  <2>3. QED
    BY <2>1, <2>2
<1>3. Seating!TypeOK'
  BY <1>1, <1>2 DEF SeatInv, Seating!TypeOK, AgentRecords
<1>4. ASSUME NEW pane \in Seating!Panes, LeftAlone(pane) PROVE LeftAlone(pane)'
  BY <1>1, <1>2, <1>4 DEF LeftAlone
<1>5. ASSUME NEW s \in Seats PROVE SeatFits(s)'
  <2>1. SeatFits(s) /\ manifest[s].pane \in Seating!Panes /\ opened \in Nat
    BY SeatTypes DEF SeatInv, Seating!Records
  <2>2. SeatIsKnown(s)'
    BY <1>1, <1>2, <2>1 DEF SeatFits, SeatIsKnown
  <2>3. LeftAlone(manifest[s].pane) => LeftAlone(manifest[s].pane)'
    <3>1. PICK q \in Seating!Panes : q = manifest[s].pane
      BY <2>1
    <3>2. QED
      BY <1>1, <1>4, <3>1 DEF LeftAlone
  <2>4. SeatIsBooked(s)'
    BY <1>1, <1>2, <2>1, <2>3 DEF SeatFits, SeatIsBooked
  <2>5. QED
    BY <2>2, <2>4 DEF SeatFits
<1>6. Seating!PanesStayAccounted
  <2>1. Seating!Recorded' = Seating!Recorded
    BY <1>1 DEF Seating!Recorded
  <2>2. QED
    BY <1>1, <1>2, <2>1 DEF Seating!PanesStayAccounted
<1>7. QED
  BY <1>1, <1>3, <1>5, <1>6 DEF SeatInv

\* The pane that is recorded for a seat, by its name in this state.
LEMMA LeftByName ==
  ASSUME SeatInv, NEW s \in Seats, UNCHANGED <<tab, caller>>, manifest'[s].pane = manifest[s].pane,
         \A p \in seatOpen' : p \in seatOpen \/ p > opened
  PROVE  LeftAlone(manifest[s].pane) => LeftAlone(manifest[s].pane)'
<1>1. manifest[s].pane \in Nat /\ opened \in Nat /\ manifest[s].pane <= opened
  BY SeatTypes DEF SeatInv, SeatFits, SeatIsKnown, Seating!Records
<1>2. \A p \in Nat : p <= opened => ~(p > opened)
  BY <1>1
<1>3. manifest[s].pane \in seatOpen' => manifest[s].pane \in seatOpen
  BY <1>1, <1>2
<1>4. QED
  BY <1>3 DEF LeftAlone

\* A command ends, with what it changed of the manifest or without.
LEMMA SeatEndHolds ==
  ASSUME SeatInv, Seating!End, command # "none", UNCHANGED <<agents, tab, seatOpen, opened, snapshot, humans>>, mishaps' \in 0..MaxMishaps,
         (manifest' = manifest /\ (mishaps' = mishaps => command = "reconcile")) \/ manifest' = seatMem
  PROVE  SeatInv' /\ Seating!PanesStayAccounted
<1>1. /\ command' = "none" /\ caller' = 0 /\ todo' = {} /\ starting' = {} /\ seatMem' = Seating!NoManifest
      /\ \A s \in Seats : seatMem'[s].pane = 0
  BY SeatRecords DEF Seating!End
<1>2. \A s \in Seats : manifest'[s].pane = manifest[s].pane \/ manifest'[s].pane = seatMem[s].pane
  OBVIOUS
<1>3. Seating!TypeOK'
  BY <1>1, SeatTypes, SeatRecords DEF SeatInv, Seating!TypeOK
<1>4. ASSUME NEW s \in Seats PROVE SeatFits(s)'
  <2>1. SeatIsKnown(s) /\ opened \in Nat
    BY SeatTypes DEF SeatInv, SeatFits
  <2>2. SeatIsKnown(s)'
    BY <1>1, <1>2, <2>1 DEF SeatIsKnown
  <2>3. QED
    BY <1>1, <2>2 DEF SeatFits, SeatIsBooked
<1>5. Seating!PanesStayAccounted
  <2>1. ASSUME mishaps' = mishaps, NEW p \in seatOpen \ {0}, p \in Seating!Recorded
        PROVE  p \in Seating!Recorded' \/ p = caller \/ tab[p] = "away"
    <3>1. PICK s \in Seats : p = manifest[s].pane \/ p = seatMem[s].pane
      BY <2>1 DEF Seating!Recorded
    <3>2. SeatIsBooked(s)
      BY DEF SeatInv, SeatFits
    <3>3. CASE manifest' = seatMem
      BY <2>1, <3>1, <3>2, <3>3 DEF SeatIsBooked, LeftAlone, Seating!Recorded
    <3>4. CASE manifest' = manifest /\ command = "reconcile"
      BY <2>1, <3>1, <3>2, <3>4 DEF SeatIsBooked, Seating!Recorded
    <3>5. QED
      BY <2>1, <3>3, <3>4
  <2>2. QED
    BY <2>1 DEF Seating!PanesStayAccounted
<1>6. QED
  BY <1>1, <1>3, <1>4, <1>5 DEF SeatInv

\* A command begins with the manifest as it is, or with a fresh one; a round reads it.
LEMMA SeatBeginHolds ==
  ASSUME SeatInv, Seating!OpenBegins \/ Seating!CloseBegins \/ Seating!CreateSeatAsker
  PROVE  SeatInv' /\ Seating!PanesStayAccounted
<1>1. UNCHANGED <<agents, tab, seatOpen, opened, humans, mishaps>>
  BY DEF Seating!OpenBegins, Seating!CloseBegins, Seating!CreateSeatAsker, Seating!herdrVars
<1>2. CASE Seating!CreateSeatAsker
  <2>1. snapshot' = manifest /\ UNCHANGED <<manifest, seatMem, command, caller, todo, starting>>
    BY <1>2 DEF Seating!CreateSeatAsker
  <2>2. Seating!TypeOK'
    BY <1>1, <2>1, SeatTypes DEF SeatInv, Seating!TypeOK
  <2>3. ASSUME NEW s \in Seats PROVE SeatFits(s)'
    <3>1. SeatIsKnown(s) /\ SeatIsBooked(s)
      BY DEF SeatInv, SeatFits
    <3>2. SeatIsKnown(s)'
      BY <1>1, <2>1, <3>1 DEF SeatIsKnown
    <3>3. SeatIsBooked(s)'
      BY <1>1, <2>1, <3>1 DEF SeatIsBooked, LeftAlone
    <3>4. QED
      BY <3>2, <3>3 DEF SeatFits
  <2>4. Seating!PanesStayAccounted
    BY <1>1, <2>1 DEF Seating!PanesStayAccounted, Seating!Recorded
  <2>5. QED
    BY <2>1, <2>2, <2>3, <2>4 DEF SeatInv
<1>3. CASE Seating!OpenBegins \/ Seating!CloseBegins
  <2>1. /\ command = "none" /\ UNCHANGED snapshot /\ todo' = Seats /\ starting' = {}
        /\ \E from \in Seating!Callers : caller' = from
        /\ command' \in {"reconcile", "close"} /\ seatMem' = manifest'
        /\ manifest' = manifest \/ (manifest = Seating!NoManifest /\ manifest' = Seating!FreshManifest)
    BY <1>3 DEF Seating!OpenBegins, Seating!CloseBegins, Seating!Begin
  <2>2. /\ caller' \in Seating!Panes /\ manifest' \in [Seats -> Seating!Records]
        /\ \A s \in Seats : manifest'[s].pane = manifest[s].pane /\ seatMem'[s].pane = manifest[s].pane /\ seatMem[s].pane = 0
    BY <2>1, SeatTypes, SeatRecords DEF SeatInv, Seating!Callers
  <2>3. Seating!TypeOK'
    BY <1>1, <2>1, <2>2 DEF SeatInv, Seating!TypeOK
  <2>4. ASSUME NEW s \in Seats PROVE SeatFits(s)'
    <3>1. SeatIsKnown(s)
      BY DEF SeatInv, SeatFits
    <3>2. SeatIsKnown(s)'
      BY <1>1, <2>1, <2>2, <3>1 DEF SeatIsKnown
    <3>3. SeatIsBooked(s)'
      BY <2>1, <2>2 DEF SeatIsBooked
    <3>4. QED
      BY <3>2, <3>3 DEF SeatFits
  <2>5. Seating!PanesStayAccounted
    <3>1. \A p : p # 0 /\ p \in Seating!Recorded => p \in Seating!Recorded'
      BY <2>2 DEF Seating!Recorded
    <3>2. QED
      BY <1>1, <2>1, <3>1 DEF Seating!PanesStayAccounted
  <2>6. QED
    BY <2>1, <2>3, <2>4, <2>5 DEF SeatInv
<1>4. QED
  BY <1>2, <1>3

LEMMA FailIsBounded == ASSUME SeatInv, Seating!CanFail \/ UNCHANGED mishaps PROVE mishaps' \in 0..MaxMishaps
BY SeatTypes DEF Seating!CanFail

LEMMA ReconcileHolds ==
  ASSUME SeatInv, NEW s \in Seats, Seating!Reconcile(s)
  PROVE  SeatInv' /\ Seating!PanesStayAccounted
<1>1. command = "reconcile" /\ UNCHANGED <<tab, opened, manifest, snapshot, humans>>
  BY DEF Seating!Reconcile
<1>2. CASE (Seating!CanFail \/ UNCHANGED mishaps) /\ Seating!End /\ UNCHANGED <<seatOpen, agents>>
  BY <1>1, <1>2, SeatEndHolds, FailIsBounded
<1>3. CASE /\ agents[s].status # "none" /\ ~Seating!Misplaced(s)
           /\ seatMem' = [seatMem EXCEPT ![s] = Seating!Adopted(s)] /\ todo' = todo \ {s}
           /\ UNCHANGED <<command, caller, starting, seatOpen, agents, mishaps>>
  <2>1. Seating!Adopted(s) \in Seating!Records /\ Seating!Adopted(s).pane = seatMem[s].pane
    BY SeatTypes DEF Seating!Adopted, Seating!Records
  <2>2. seatMem' \in [Seats -> Seating!Records] /\ \A t \in Seats : seatMem'[t].pane = seatMem[t].pane
    BY <1>3, <2>1, SeatTypes
  <2>3. Seating!TypeOK'
    BY <1>1, <1>3, <2>2, SeatTypes DEF SeatInv, Seating!TypeOK
  <2>4. ASSUME NEW t \in Seats PROVE SeatFits(t)'
    BY <1>1, <1>3, <2>2 DEF SeatInv, SeatFits, SeatIsKnown, SeatIsBooked, LeftAlone
  <2>5. Seating!Recorded' = Seating!Recorded
    BY <1>1, <2>2 DEF Seating!Recorded
  <2>6. QED
    BY <1>1, <1>3, <2>3, <2>4, <2>5 DEF SeatInv, Seating!PanesStayAccounted
<1>4. CASE /\ agents[s].status = "none"
           /\ seatOpen' = IF Seating!StalePane(s) THEN seatOpen \ {seatMem[s].pane} ELSE seatOpen
           /\ UNCHANGED agents
           /\ todo' = todo \ {s} /\ starting' = starting \cup {s}
           /\ UNCHANGED <<command, caller, seatMem, mishaps>>
  <2>1. seatOpen' \subseteq seatOpen /\ \A p \in seatOpen \ seatOpen' : p # 0 /\ p # caller
    BY <1>4 DEF Seating!StalePane, Seating!Closable
  <2>2. LeftAlone(manifest[s].pane)' /\ seatMem[s].pane = manifest[s].pane
    <3>1. seatMem[s].pane = manifest[s].pane /\ manifest[s].pane \in Seating!Panes
      BY <1>1, SeatTypes DEF SeatInv, SeatFits, SeatIsBooked, Seating!Records
    <3>2. seatMem[s].pane \in seatOpen' /\ seatMem[s].pane # 0 => seatMem[s].pane = caller \/ tab[seatMem[s].pane] = "away"
      BY <1>4, <3>1, SeatTypes DEF Seating!StalePane, Seating!Closable
    <3>3. QED
      BY <1>1, <1>4, <3>1, <3>2 DEF LeftAlone
  <2>3. Seating!TypeOK'
    BY <1>1, <1>4, <2>1, SeatTypes DEF SeatInv, Seating!TypeOK
  <2>4. ASSUME NEW t \in Seats PROVE SeatFits(t)'
    <3>1. SeatIsKnown(t) /\ SeatIsBooked(t)
      BY DEF SeatInv, SeatFits
    <3>2. LeftAlone(manifest[t].pane) => LeftAlone(manifest[t].pane)'
      BY <1>1, <1>4, <2>1, LeftByName
    <3>3. SeatIsKnown(t)'
      BY <1>1, <1>4, <3>1 DEF SeatIsKnown
    <3>4. SeatIsBooked(t)'
      BY <1>1, <1>4, <2>2, <3>1, <3>2 DEF SeatIsBooked
    <3>5. QED
      BY <3>3, <3>4 DEF SeatFits
  <2>5. Seating!Recorded' = Seating!Recorded
    BY <1>1, <1>4 DEF Seating!Recorded
  <2>6. QED
    BY <1>1, <1>4, <2>1, <2>3, <2>4, <2>5 DEF SeatInv, Seating!PanesStayAccounted
<1>5. QED
  BY <1>2, <1>3, <1>4 DEF Seating!Reconcile

\* What was changed is saved, and the command ends or starts the seats it found empty, or one less.
LEMMA SeatSaveHolds ==
  ASSUME SeatInv, Seating!Reconciled \/ Seating!Closed \/ \E s \in Seats : Seating!StartSaved(s)
  PROVE  SeatInv' /\ Seating!PanesStayAccounted
<1>1. command # "none" /\ manifest' = seatMem /\ UNCHANGED <<agents, tab, seatOpen, opened, snapshot, humans, mishaps>>
  BY DEF Seating!Reconciled, Seating!Closed, Seating!StartSaved, Seating!herdrVars
<1>2. CASE Seating!End
  BY <1>1, <1>2, SeatEndHolds, SeatTypes
<1>3. CASE /\ UNCHANGED <<seatMem, caller, todo>> /\ command' = "start" /\ starting' \subseteq starting
           /\ (command = "reconcile" /\ todo = {}) \/ command = "start"
  <2>1. Seating!TypeOK'
    BY <1>1, <1>3, SeatTypes DEF SeatInv, Seating!TypeOK
  <2>2. ASSUME NEW s \in Seats PROVE SeatFits(s)'
    <3>1. SeatIsKnown(s) /\ SeatIsBooked(s)
      BY DEF SeatInv, SeatFits
    <3>2. SeatIsKnown(s)'
      BY <1>1, <1>3, <3>1 DEF SeatIsKnown
    <3>3. s \in starting' /\ s \notin todo' => agents[s].status = "none" /\ seatMem[s].pane = manifest[s].pane /\ LeftAlone(manifest[s].pane)
      BY <1>3, <3>1 DEF SeatIsBooked
    <3>4. seatMem[s].pane = manifest[s].pane /\ LeftAlone(manifest[s].pane) => LeftAlone(manifest[s].pane)'
      BY <1>1, <1>3 DEF LeftAlone
    <3>5. SeatIsBooked(s)'
      BY <1>1, <1>3, <3>3, <3>4 DEF SeatIsBooked
    <3>6. QED
      BY <3>2, <3>5 DEF SeatFits
  <2>3. Seating!PanesStayAccounted
    <3>1. ASSUME NEW p \in seatOpen \ {0}, p \in Seating!Recorded PROVE p \in Seating!Recorded' \/ p = caller \/ tab[p] = "away"
      <4>1. PICK s \in Seats : p = manifest[s].pane \/ p = seatMem[s].pane
        BY <3>1 DEF Seating!Recorded
      <4>2. SeatIsBooked(s)
        BY DEF SeatInv, SeatFits
      <4>3. QED
        BY <1>1, <3>1, <4>1, <4>2 DEF SeatIsBooked, LeftAlone, Seating!Recorded
    <3>2. QED
      BY <1>1, <3>1 DEF Seating!PanesStayAccounted
  <2>4. QED
    BY <1>3, <2>1, <2>2, <2>3 DEF SeatInv
<1>4. QED
  BY <1>2, <1>3 DEF Seating!Reconciled, Seating!Closed, Seating!StartSaved

\* A pane is split for a seat and its agent may run there, or nothing was started.
LEMMA SeatStartHolds ==
  ASSUME SeatInv, NEW s \in Seats, Seating!StartSeat(s)
  PROVE  SeatInv' /\ Seating!PanesStayAccounted
<1>1. /\ command = "start" /\ s \in starting /\ s \notin todo /\ todo' = todo \cup {s}
      /\ UNCHANGED <<tab, manifest, command, caller, starting, snapshot, humans>>
  BY DEF Seating!StartSeat
<1>2. agents[s].status = "none" /\ seatMem[s].pane = manifest[s].pane /\ LeftAlone(manifest[s].pane)
  BY <1>1 DEF SeatInv, SeatFits, SeatIsBooked
<1>3. \E rec \in Seating!Records :
        /\ seatMem' = [seatMem EXCEPT ![s] = rec] /\ opened' \in 0..MaxPanes /\ mishaps' \in 0..MaxMishaps
        /\ \/ /\ opened' = opened + 1 /\ seatOpen' = seatOpen \cup {opened'} /\ rec.pane = opened'
              /\ \/ UNCHANGED agents
                 \/ \E a \in AgentRecords : a.pane = opened' /\ agents' = [agents EXCEPT ![s] = a]
           \/ UNCHANGED <<agents, seatOpen, opened>> /\ mishaps' # mishaps /\ rec.pane = 0
  <2>1. CASE /\ opened < MaxPanes /\ opened' = opened + 1
             /\ \E status \in {"idle", "prompt", "none"} :
                  /\ agents' = IF status = "none" THEN agents ELSE [agents EXCEPT ![s] = [pane |-> opened', status |-> status]]
                  /\ seatMem' = [seatMem EXCEPT ![s] = IF status = "idle" THEN [state |-> "ready", pane |-> opened']
                                                       ELSE Seating!RecordsFailed(s, opened')]
             /\ seatOpen' = seatOpen \cup {opened'} /\ UNCHANGED mishaps
    <3>1. opened' \in 0..MaxPanes /\ opened' \in Seating!Panes /\ mishaps' \in 0..MaxMishaps
      BY <2>1, SeatTypes
    <3>2. PICK status \in {"idle", "prompt", "none"} :
                  /\ agents' = IF status = "none" THEN agents ELSE [agents EXCEPT ![s] = [pane |-> opened', status |-> status]]
                  /\ seatMem' = [seatMem EXCEPT ![s] = IF status = "idle" THEN [state |-> "ready", pane |-> opened']
                                                       ELSE Seating!RecordsFailed(s, opened')]
      BY <2>1
    <3> DEFINE rec == IF status = "idle" THEN [state |-> "ready", pane |-> opened'] ELSE Seating!RecordsFailed(s, opened')
               a == [pane |-> opened', status |-> status]
    <3>3. rec \in Seating!Records /\ rec.pane = opened'
      BY <3>1 DEF Seating!RecordsFailed, Seating!Records
    <3>4. a \in AgentRecords /\ a.pane = opened'
      BY <3>1 DEF AgentRecords
    <3>5. seatMem' = [seatMem EXCEPT ![s] = rec] /\ (agents' = agents \/ agents' = [agents EXCEPT ![s] = a])
      BY <3>2
    <3> HIDE DEF rec, a
    <3>6. QED
      BY <2>1, <3>1, <3>3, <3>4, <3>5
  <2>2. CASE Seating!CanFail /\ seatMem' = [seatMem EXCEPT ![s] = Seating!Unseated] /\ UNCHANGED <<agents, seatOpen, opened>>
    <3>1. mishaps' # mishaps
      BY <2>2, SeatTypes DEF Seating!CanFail
    <3>2. mishaps' \in 0..MaxMishaps
      BY <2>2, FailIsBounded
    <3>3. QED
      BY <2>2, <3>1, <3>2, SeatTypes, SeatRecords
  <2>3. QED
    BY <2>1, <2>2 DEF Seating!StartSeat
<1>4. PICK rec \in Seating!Records :
        /\ seatMem' = [seatMem EXCEPT ![s] = rec] /\ opened' \in 0..MaxPanes /\ mishaps' \in 0..MaxMishaps
        /\ \/ /\ opened' = opened + 1 /\ seatOpen' = seatOpen \cup {opened'} /\ rec.pane = opened'
              /\ \/ UNCHANGED agents
                 \/ \E a \in AgentRecords : a.pane = opened' /\ agents' = [agents EXCEPT ![s] = a]
           \/ UNCHANGED <<agents, seatOpen, opened>> /\ mishaps' # mishaps /\ rec.pane = 0
  BY <1>3
<1>5. /\ seatMem' \in [Seats -> Seating!Records] /\ seatMem'[s] = rec /\ \A t \in Seats : t # s => seatMem'[t] = seatMem[t]
      /\ agents' \in [Seats -> AgentRecords] /\ \A t \in Seats : t # s => agents'[t] = agents[t]
  BY <1>4, SeatTypes
<1>6. opened \in Nat /\ opened' \in Nat /\ opened <= opened' /\ seatOpen' \subseteq 0..opened' /\ \A p \in seatOpen' : p \in seatOpen \/ p > opened
  BY <1>4, SeatTypes
<1>7. Seating!TypeOK'
  BY <1>1, <1>4, <1>5, <1>6, SeatTypes DEF SeatInv, Seating!TypeOK, AgentRecords, Seating!Panes
<1>8. ASSUME NEW t \in Seats PROVE SeatFits(t)'
  <2>1. SeatIsKnown(t) /\ SeatIsBooked(t) /\ manifest[t].pane \in Nat /\ snapshot[t].pane \in Nat /\ agents[t].pane \in Nat /\ seatMem[t].pane \in Nat
    BY SeatTypes DEF SeatInv, SeatFits, Seating!Records, AgentRecords
  <2>2. LeftAlone(manifest[t].pane) => LeftAlone(manifest[t].pane)'
    BY <1>1, <1>6, LeftByName
  <2>3. CASE t # s
    <3>1. SeatIsKnown(t)'
      BY <1>1, <1>5, <1>6, <2>1, <2>3 DEF SeatIsKnown
    <3>2. SeatIsBooked(t)'
      BY <1>1, <1>5, <2>1, <2>2, <2>3 DEF SeatIsBooked
    <3>3. QED
      BY <3>1, <3>2 DEF SeatFits
  <2>4. CASE t = s
    <3>1. SeatIsBooked(t)'
      BY <1>1, <1>2, <2>2, <2>4 DEF SeatIsBooked
    <3>2. CASE \E a \in AgentRecords : opened' = opened + 1 /\ rec.pane = opened' /\ a.pane = opened' /\ agents' = [agents EXCEPT ![s] = a]
      <4>1. agents'[t].pane = opened + 1 /\ seatMem'[t].pane = opened + 1
        BY <1>5, <2>4, <3>2, SeatTypes
      <4>2. SeatIsKnown(t)'
        BY <1>1, <1>6, <2>1, <3>2, <4>1 DEF SeatIsKnown
      <4>3. QED
        BY <3>1, <4>2 DEF SeatFits
    <3>3. CASE agents' = agents
      <4>1. agents'[t].status = "none" /\ agents'[t] = agents[t]
        BY <1>2, <2>4, <3>3
      <4>2. seatMem'[t].pane <= opened'
        <5>1. rec.pane = opened' \/ rec.pane = 0
          BY <1>4
        <5>2. QED
          BY <1>5, <1>6, <2>4, <5>1
      <4>3. SeatIsKnown(t)'
        BY <1>1, <1>6, <2>1, <4>1, <4>2 DEF SeatIsKnown
      <4>4. QED
        BY <3>1, <4>3 DEF SeatFits
    <3>4. QED
      BY <1>4, <3>2, <3>3
  <2>5. QED
    BY <2>3, <2>4
<1>9. Seating!PanesStayAccounted
  <2>1. ASSUME mishaps' = mishaps, NEW p \in seatOpen' \ {0}, p \in Seating!Recorded \cup (seatOpen' \ seatOpen)
        PROVE  p \in Seating!Recorded'
    <3>1. rec.pane = opened' /\ seatOpen' = seatOpen \cup {opened'}
      BY <1>4, <2>1
    <3>2. CASE p \in seatOpen' \ seatOpen
      BY <1>5, <3>1, <3>2 DEF Seating!Recorded
    <3>3. CASE p \in Seating!Recorded
      <4>1. PICK t \in Seats : p = manifest[t].pane \/ p = seatMem[t].pane
        BY <3>3 DEF Seating!Recorded
      <4>2. CASE p = manifest[t].pane
        BY <1>1, <4>1, <4>2 DEF Seating!Recorded
      <4>3. CASE p = seatMem[t].pane
        BY <1>1, <1>2, <1>5, <4>1, <4>3 DEF Seating!Recorded
      <4>4. QED
        BY <4>1, <4>2, <4>3
    <3>4. QED
      BY <2>1, <3>2, <3>3
  <2>2. seatOpen \subseteq seatOpen'
    BY <1>4
  <2>3. QED
    BY <2>1, <2>2 DEF Seating!PanesStayAccounted
<1>10. QED
  BY <1>1, <1>7, <1>8, <1>9 DEF SeatInv

LEMMA CloseSeatHolds ==
  ASSUME SeatInv, NEW s \in Seats, Seating!CloseSeat(s)
  PROVE  SeatInv' /\ Seating!PanesStayAccounted
<1>1. command = "close" /\ UNCHANGED <<tab, opened, manifest, snapshot, humans>>
  BY DEF Seating!CloseSeat
<1>2. CASE todo' = todo \ {s} /\ UNCHANGED <<seatOpen, agents, seatMem, command, caller, starting, mishaps>>
  <2>1. Seating!TypeOK'
    BY <1>1, <1>2, SeatTypes DEF SeatInv, Seating!TypeOK
  <2>2. ASSUME NEW t \in Seats PROVE SeatFits(t)'
    BY <1>1, <1>2 DEF SeatInv, SeatFits, SeatIsKnown, SeatIsBooked, LeftAlone
  <2>3. QED
    BY <1>1, <1>2, <2>1, <2>2 DEF SeatInv, Seating!PanesStayAccounted, Seating!Recorded
<1>3. CASE Seating!CanFail /\ Seating!End /\ UNCHANGED <<seatOpen, agents>>
  <2>1. mishaps' # mishaps
    BY <1>3, SeatTypes DEF Seating!CanFail
  <2>2. QED
    BY <1>1, <1>3, <2>1, SeatEndHolds, FailIsBounded
<1>4. CASE /\ Seating!Closable(seatMem[s].pane) /\ seatOpen' = seatOpen \ {seatMem[s].pane} /\ agents' = Seating!Without(seatMem[s].pane)
           /\ seatMem' = [seatMem EXCEPT ![s] = Seating!Unseated] /\ todo' = todo \ {s}
           /\ UNCHANGED <<command, caller, starting, mishaps>>
  <2> DEFINE pane == seatMem[s].pane
  <2>1. pane # 0 /\ pane # caller /\ pane \notin seatOpen' /\ seatOpen' \subseteq seatOpen /\ \A p \in seatOpen \ seatOpen' : p = pane
    BY <1>4 DEF Seating!Closable
  <2>2. /\ agents' \in [Seats -> AgentRecords] /\ \A t \in Seats : agents'[t] = agents[t] \/ (agents'[t].status = "none" /\ agents'[t].pane = 0)
        /\ \A t \in Seats : agents'[t].status # "none" => agents'[t] = agents[t] /\ agents[t].pane # pane
    BY <1>4, SeatTypes, SeatRecords DEF Seating!Without
  <2>3. /\ seatMem' \in [Seats -> Seating!Records] /\ seatMem'[s].pane = 0 /\ \A t \in Seats : t # s => seatMem'[t] = seatMem[t]
    BY <1>4, SeatTypes, SeatRecords
  <2>4. Seating!TypeOK'
    BY <1>1, <1>4, <2>1, <2>2, <2>3, SeatTypes DEF SeatInv, Seating!TypeOK, AgentRecords
  <2>5. ASSUME NEW t \in Seats PROVE SeatFits(t)'
    <3>1. SeatIsKnown(t) /\ SeatIsBooked(t) /\ opened \in Nat
      BY SeatTypes DEF SeatInv, SeatFits
    <3>2. LeftAlone(manifest[t].pane) => LeftAlone(manifest[t].pane)'
      BY <1>1, <1>4, <2>1, LeftByName
    <3>3. SeatIsKnown(t)'
      <4>1. agents'[t].pane <= opened' /\ seatMem'[t].pane <= opened' /\ manifest'[t].pane <= opened' /\ snapshot'[t].pane <= opened'
        BY <1>1, <2>2, <2>3, <3>1 DEF SeatIsKnown
      <4>2. CASE agents'[t].status = "none"
        BY <4>1, <4>2 DEF SeatIsKnown
      <4>3. CASE agents'[t].status # "none"
        <5>1. agents'[t] = agents[t] /\ agents[t].pane # pane
          BY <2>2, <4>3
        <5>2. agents[t].pane = manifest[t].pane => agents[t].pane = seatMem[t].pane
          BY <1>1, <3>1, <4>3, <5>1 DEF SeatIsKnown
        <5>3. agents[t].pane = manifest[t].pane => agents[t].pane = seatMem'[t].pane
          BY <2>3, <5>1, <5>2
        <5>4. QED
          BY <1>1, <3>1, <4>1, <4>3, <5>1, <5>3 DEF SeatIsKnown
      <4>4. QED
        BY <4>2, <4>3
    <3>4. SeatIsBooked(t)'
      <4>1. seatMem'[t].pane = manifest[t].pane \/ LeftAlone(manifest[t].pane)'
        <5>1. CASE t # s \/ LeftAlone(manifest[t].pane)
          BY <1>1, <2>3, <3>1, <3>2, <5>1 DEF SeatIsBooked
        <5>2. CASE t = s /\ manifest[t].pane = pane
          BY <1>1, <2>1, <5>2 DEF LeftAlone
        <5>3. QED
          BY <1>1, <3>1, <5>1, <5>2 DEF SeatIsBooked
      <4>2. QED
        BY <1>1, <1>4, <4>1 DEF SeatIsBooked
    <3>5. QED
      BY <3>3, <3>4 DEF SeatFits
  <2>6. Seating!PanesStayAccounted
    <3>1. ASSUME NEW p \in seatOpen', p \in Seating!Recorded PROVE p \in Seating!Recorded'
      <4>1. p # pane
        BY <2>1, <3>1
      <4>2. PICK t \in Seats : p = manifest[t].pane \/ p = seatMem[t].pane
        BY <3>1 DEF Seating!Recorded
      <4>3. QED
        BY <1>1, <2>3, <4>1, <4>2 DEF Seating!Recorded
    <3>2. QED
      BY <2>1, <3>1 DEF Seating!PanesStayAccounted
  <2>7. QED
    BY <1>1, <1>4, <2>4, <2>5, <2>6 DEF SeatInv
<1>5. QED
  BY <1>2, <1>3, <1>4 DEF Seating!CloseSeat

LEMMA CommandDiesHolds == ASSUME SeatInv, Seating!CommandDies PROVE SeatInv' /\ Seating!PanesStayAccounted
<1>1. /\ command # "none" /\ mishaps' = mishaps + 1 /\ mishaps < MaxMishaps /\ Seating!End
      /\ UNCHANGED <<agents, tab, seatOpen, opened, manifest, snapshot, humans>>
  BY DEF Seating!CommandDies, Seating!herdrVars
<1>2. mishaps' \in 0..MaxMishaps /\ mishaps' # mishaps
  BY <1>1, SeatTypes
<1>3. QED
  BY <1>1, <1>2, SeatEndHolds

LEMMA SeatHolds == ASSUME SeatInv, [Seating!Next]_seatVars PROVE SeatInv' /\ Seating!PanesStayAccounted
<1>1. CASE UNCHANGED seatVars
  <2>1. UNCHANGED <<agents, tab, seatOpen, opened, manifest, seatMem, command, caller, todo, starting, snapshot, humans, mishaps>>
    BY <1>1 DEF seatVars
  <2>2. QED
    BY <2>1 DEF SeatInv, Seating!TypeOK, SeatFits, SeatIsKnown, SeatIsBooked, LeftAlone, Seating!PanesStayAccounted, Seating!Recorded
<1>2. CASE Seating!Next
  BY <1>2, HumanHolds, SeatBeginHolds, SeatSaveHolds, CommandDiesHolds, ReconcileHolds, SeatStartHolds, CloseSeatHolds DEF Seating!Next
<1>3. QED
  BY <1>1, <1>2

LEMMA SeatServes == ASSUME SeatInv PROVE Seating!TypeOK /\ Seating!AsksGoToTheirSeat
BY DEF SeatInv, SeatFits, SeatIsKnown, Seating!AsksGoToTheirSeat, Seating!Asks, Seating!Found

LEMMA SeatMoves ==
  /\ KeptInit => Seating!Init
  /\ [KeptNext]_keptVars => [Seating!Next]_seatVars
BY DEF KeptInit, KeptNext, keptVars
-----------------------------------------------------------------------------
(* A handed-off session and its predecessor.                               *)

Choices == [model : Models \cup {NoChoice, Hand!Inherited}, effort : Efforts \cup {NoChoice}]

Plans == [archive : BOOLEAN, access : Hand!Accesses \cup {"none"}, model : Models \cup {NoChoice, Hand!Inherited}, effort : Efforts \cup {NoChoice}]

Readings == [at : {"idle", "stat", "active", "row", "archive"}, stat : Nat, since : Nat, shown : Nat]

Cachings == [place : {"none", "active", "archive"}, stat : Nat, version : Nat]

HandTypes ==
  /\ Hand!TypeOK /\ runtimes \in [Hand!Both -> SUBSET (1..MaxRuntimes)] /\ published \in [Hand!Both -> 0..MaxRuntimes]
  /\ handPlan \in Plans /\ chosen \in [Hand!Both -> Choices] /\ linked \in BOOLEAN
  /\ reader \in Readings /\ cache \in Cachings

\* Before the switch the replacement is not linked, after it it is; a session that was to be
\* archived goes on once it is.
CommandGoesOn ==
  /\ step \in {"idle", "check", "stage", "switch"} => ~linked
  /\ step \in {"finalize", "model", "effort", "report", "submit"} => linked
  /\ step \in {"stage", "finalize"} => handPlan.archive
  /\ step \in {"model", "effort", "report", "submit"} /\ handPlan.archive => finalized

\* What was checked holds until somebody touches the files.
CheckedIsThere ==
  ~touched =>
    /\ step \in {"switch", "model", "effort", "report", "submit"} /\ ~handPlan.archive => Hand!ActiveReads
    /\ step \in {"model", "effort", "report", "submit"} /\ handPlan.archive => catalog = "archived" /\ artifact # 0

\* An artifact is what the active file last was, which never comes back; a reader has, and the
\* cache holds, no less than what was there when it looked.
ReaderIsCurrent ==
  /\ active # 0 => artifact = 0
  /\ cache.stat <= cache.version
  /\ reader.at # "idle" => /\ active # 0 => reader.since <= active
                           /\ artifact # 0 => reader.since <= artifact
  /\ reader.at \in {"active", "archive"} => reader.since <= reader.stat
  /\ reader.at = "active" /\ active # 0 => reader.stat <= active
  /\ reader.at = "archive" => artifact # 0 /\ reader.stat = artifact
  /\ Hand!HistoryIsCurrent

HandInv ==
  HandTypes /\ CommandGoesOn /\ CheckedIsThere /\ ReaderIsCurrent /\ Hand!NewestIsPublished /\ Hand!PromptIsKept

\* The actions that a step of the handoff may be.
HandStep == Hand!SendsReadable /\ Hand!LeavesPredecessor

LEMMA HandInitHolds == ASSUME Hand!Init PROVE HandInv
<1>1. /\ active = 1 /\ artifact = 0 /\ step = "idle" /\ linked = FALSE /\ finalized = FALSE /\ reader = Hand!NoCall /\ cache = Hand!NoCache
      /\ handPlan = Hand!NoPlan /\ told = "none" /\ editor = "none" /\ sent = FALSE /\ catalog = "none"
  BY DEF Hand!Init
<1>2. /\ runtimes \in [Hand!Both -> SUBSET (1..MaxRuntimes)] /\ published \in [Hand!Both -> 0..MaxRuntimes]
      /\ \A s \in Hand!Both : MaxRuntimes \notin runtimes[s]
  BY HandoffAssumption DEF Hand!Init, Hand!Both
<1>3. chosen \in [Hand!Both -> Choices]
  <2>1. PICK m \in Models \cup {NoChoice}, e \in Efforts :
          chosen = [old |-> [model |-> Hand!Inherited, effort |-> e], new |-> [model |-> m, effort |-> e]]
    BY DEF Hand!Init
  <2> DEFINE o == [model |-> Hand!Inherited, effort |-> e]  n == [model |-> m, effort |-> e]
  <2>2. o \in Choices /\ n \in Choices
    BY DEF Choices
  <2>3. chosen = [old |-> o, new |-> n]
    BY <2>1
  <2> HIDE DEF o, n
  <2>4. QED
    BY <2>2, <2>3 DEF Hand!Both
<1>4. reader \in Readings /\ cache \in Cachings /\ handPlan \in Plans /\ cache.stat = 0 /\ cache.version = 0 /\ reader.at = "idle" /\ reader.shown = 0
  BY <1>1 DEF Hand!NoCall, Hand!NoCache, Hand!NoPlan, Readings, Cachings, Plans
<1>5. Hand!TypeOK
  <2>1. active \in 0..MaxEntries /\ artifact \in 0..MaxEntries
    BY <1>1, HandoffAssumption
  <2>2. handPlan.access \in Hand!Accesses \cup {"none"}
    BY <1>4 DEF Plans
  <2>3. QED
    BY <1>1, <1>2, <2>1, <2>2 DEF Hand!TypeOK
<1>6. HandTypes
  BY <1>1, <1>2, <1>3, <1>4, <1>5 DEF HandTypes
<1>7. ReaderIsCurrent
  <2>1. 0 <= 0
    OBVIOUS
  <2>2. QED
    BY <1>1, <1>4, <2>1 DEF ReaderIsCurrent, Hand!HistoryIsCurrent
<1>8. CommandGoesOn /\ CheckedIsThere /\ Hand!NewestIsPublished /\ Hand!PromptIsKept
  BY <1>1, <1>2 DEF CommandGoesOn, CheckedIsThere, Hand!NewestIsPublished, Hand!PromptIsKept
<1>9. QED
  BY <1>6, <1>7, <1>8 DEF HandInv

\* The files go on as the archive and their writers let them.
FilesGoOn ==
  \/ UNCHANGED <<active, artifact>>
  \/ active # 0 /\ active' \in Nat /\ active <= active' /\ UNCHANGED artifact
  \/ active # 0 /\ active' = 0 /\ artifact' \in {artifact, active}

LEMMA ReaderStays ==
  ASSUME HandInv, FilesGoOn, reader' = reader, cache' = cache \/ cache' = Hand!NoCache
  PROVE  ReaderIsCurrent'
<1>1. active \in Nat /\ artifact \in Nat /\ reader \in Readings /\ cache \in Cachings
  BY HandoffAssumption DEF HandInv, HandTypes, Hand!TypeOK
<1>2. cache'.stat <= cache'.version
  <2>1. Hand!NoCache.stat = 0 /\ Hand!NoCache.version = 0
    BY DEF Hand!NoCache
  <2>2. QED
    BY <2>1 DEF HandInv, ReaderIsCurrent
<1>3. reader.since \in Nat /\ reader.stat \in Nat /\ reader.shown \in Nat
  BY <1>1 DEF Readings
<1>4. QED
  BY <1>1, <1>2, <1>3 DEF HandInv, ReaderIsCurrent, Hand!HistoryIsCurrent, FilesGoOn

\* Runtimes start and end.
LEMMA RuntimesHold ==
  ASSUME HandInv, Hand!RuntimeStarts \/ Hand!RuntimeEnds
  PROVE  HandInv' /\ HandStep
<1>1. UNCHANGED <<active, artifact, catalog, big, chosen, handPlan, linked, finalized, told, editor, sent, step, reader, cache, touched, others>>
  BY DEF Hand!RuntimeStarts, Hand!RuntimeEnds, Hand!files, Hand!command, Hand!reading, Hand!events
<1>2. /\ runtimes \in [Hand!Both -> SUBSET (1..MaxRuntimes)] /\ published \in [Hand!Both -> 0..MaxRuntimes] /\ "new" \in Hand!Both
      /\ MaxRuntimes \in Nat \ {0, 1} /\ Hand!NewestIsPublished
  BY HandoffAssumption DEF HandInv, HandTypes, Hand!Both
<1>3. /\ runtimes' \in [Hand!Both -> SUBSET (1..MaxRuntimes)] /\ published' \in [Hand!Both -> 0..MaxRuntimes] /\ Hand!NewestIsPublished'
  <2>1. CASE Hand!RuntimeStarts
    <3>1. PICK r \in 2..MaxRuntimes : Hand!Starts("new", r)
      BY <2>1 DEF Hand!RuntimeStarts
    <3>2. /\ runtimes' = [runtimes EXCEPT !["new"] = runtimes["new"] \cup {r}] /\ published' = [published EXCEPT !["new"] = r]
          /\ \A q \in runtimes["new"] : q < r
      BY <3>1 DEF Hand!Starts, Hand!Bind
    <3>3. r \in 1..MaxRuntimes /\ (MaxRuntimes \in runtimes["new"] => MaxRuntimes < r)
      BY <1>2, <3>2
    <3>4. QED
      BY <1>2, <3>2, <3>3 DEF Hand!NewestIsPublished
  <2>2. CASE Hand!RuntimeEnds
    <3>1. PICK r \in runtimes["new"] : Hand!Ends("new", r)
      BY <2>2 DEF Hand!RuntimeEnds
    <3>2. /\ runtimes' = [runtimes EXCEPT !["new"] = runtimes["new"] \ {r}]
          /\ published' = [published EXCEPT !["new"] = IF published["new"] = r THEN 0 ELSE published["new"]]
      BY <3>1 DEF Hand!Ends, Hand!Unbind
    <3>3. QED
      BY <1>2, <3>2 DEF Hand!NewestIsPublished
  <2>3. QED
    BY <2>1, <2>2
<1>4. HandTypes'
  BY <1>1, <1>3 DEF HandInv, HandTypes, Hand!TypeOK
<1>5. ReaderIsCurrent'
  BY <1>1, ReaderStays DEF FilesGoOn
<1>6. CommandGoesOn' /\ CheckedIsThere' /\ Hand!PromptIsKept' /\ HandStep
  BY <1>1 DEF HandInv, CommandGoesOn, CheckedIsThere, Hand!ActiveReads, Hand!PromptIsKept, HandStep, Hand!SendsReadable, Hand!LeavesPredecessor
<1>7. QED
  BY <1>3, <1>4, <1>5, <1>6 DEF HandInv

\* Others write, remove and archive the predecessor's file.
LEMMA OthersHold ==
  ASSUME HandInv, Hand!Appends \/ Hand!Deletes \/ Hand!OthersArchive \/ Hand!Recovers
  PROVE  HandInv' /\ HandStep
<1>1. UNCHANGED <<big, runtimes, published, chosen, handPlan, linked, finalized, told, editor, sent, step, reader, cache>>
  BY DEF Hand!Appends, Hand!Deletes, Hand!OthersArchive, Hand!Others, Hand!Recovers, Hand!runs, Hand!command, Hand!reading
<1>2. active \in 0..MaxEntries /\ artifact \in 0..MaxEntries /\ MaxEntries \in Nat
  BY HandoffAssumption DEF HandInv, HandTypes, Hand!TypeOK
<1>3. /\ active' \in 0..MaxEntries /\ artifact' \in 0..MaxEntries /\ catalog' \in {"none", "pending", "archived"} /\ FilesGoOn
      /\ touched' \/ (touched' = touched /\ UNCHANGED <<active, artifact>> /\ catalog' = "archived")
  <2>1. catalog \in {"none", "pending", "archived"}
    BY DEF HandInv, HandTypes, Hand!TypeOK
  <2>2. CASE Hand!Appends
    BY <1>2, <2>1, <2>2 DEF Hand!Appends, Hand!Others, FilesGoOn
  <2>3. CASE Hand!Deletes
    BY <1>2, <2>1, <2>3 DEF Hand!Deletes, Hand!Others, FilesGoOn
  <2>4. CASE Hand!OthersArchive
    BY <1>2, <2>1, <2>4 DEF Hand!OthersArchive, Hand!Others, FilesGoOn
  <2>5. CASE Hand!Recovers
    BY <1>2, <2>5 DEF Hand!Recovers, Hand!events, FilesGoOn
  <2>6. QED
    BY <2>2, <2>3, <2>4, <2>5
<1>4. HandTypes'
  BY <1>1, <1>3 DEF HandInv, HandTypes, Hand!TypeOK
<1>5. ReaderIsCurrent'
  BY <1>1, <1>3, ReaderStays
<1>6. CommandGoesOn' /\ CheckedIsThere' /\ Hand!NewestIsPublished' /\ Hand!PromptIsKept' /\ HandStep
  BY <1>1, <1>3 DEF HandInv, CommandGoesOn, CheckedIsThere, Hand!ActiveReads, Hand!NewestIsPublished, Hand!PromptIsKept, HandStep,
     Hand!SendsReadable, Hand!LeavesPredecessor
<1>7. QED
  BY <1>4, <1>5, <1>6 DEF HandInv

\* What a step of the command leaves alone but for the files, the cache, the choices and itself.
LEMMA CommandMoves ==
  ASSUME HandInv, FilesGoOn, reader' = reader, cache' = cache \/ cache' = Hand!NoCache,
         UNCHANGED <<big, runtimes, published>>,
         active' \in 0..MaxEntries, artifact' \in 0..MaxEntries, catalog' \in {"none", "pending", "archived"},
         handPlan' \in Plans, chosen' \in [Hand!Both -> Choices], linked' \in BOOLEAN, editor' \in {"none"} \cup Hand!Both, sent' \in BOOLEAN,
         told' \in {"none", "rejected", "cancelled", "pending", "warned", "started", "ready", "doubt"}
  PROVE  HandTypes' /\ ReaderIsCurrent' /\ Hand!NewestIsPublished'
<1>1. HandTypes'
  <2>1. handPlan'.access \in Hand!Accesses \cup {"none"}
    BY DEF Plans
  <2>2. cache' \in Cachings
    BY DEF HandInv, HandTypes, Hand!NoCache, Cachings
  <2>3. QED
    BY <2>1, <2>2 DEF HandInv, HandTypes, Hand!TypeOK
<1>2. ReaderIsCurrent'
  BY ReaderStays
<1>3. Hand!NewestIsPublished'
  BY DEF HandInv, Hand!NewestIsPublished
<1>4. QED
  BY <1>1, <1>2, <1>3

LEMMA HandParts ==
  ASSUME HandInv
  PROVE  /\ active \in 0..MaxEntries /\ artifact \in 0..MaxEntries /\ catalog \in {"none", "pending", "archived"} /\ MaxEntries \in Nat
         /\ handPlan \in Plans /\ chosen \in [Hand!Both -> Choices] /\ linked \in BOOLEAN
         /\ editor \in {"none"} \cup Hand!Both /\ sent \in BOOLEAN /\ runtimes \in [Hand!Both -> SUBSET (1..MaxRuntimes)]
         /\ published \in [Hand!Both -> 0..MaxRuntimes]
         /\ told \in {"none", "rejected", "cancelled", "pending", "warned", "started", "ready", "doubt"}
         /\ CommandGoesOn /\ CheckedIsThere /\ ReaderIsCurrent /\ Hand!PromptIsKept
BY HandoffAssumption DEF HandInv, HandTypes, Hand!TypeOK

\* From the arguments to the switch.
LEMMA BeforeSwitchHolds ==
  ASSUME HandInv, Hand!Begin \/ Hand!Preflight \/ Hand!Stage \/ Hand!Vetoed
  PROVE  HandInv' /\ HandStep
<1>1. UNCHANGED <<active, artifact, big, runtimes, published, chosen, reader, linked, finalized, sent>> /\ FilesGoOn
  BY DEF Hand!Begin, Hand!Preflight, Hand!Stage, Hand!Vetoed, Hand!files, Hand!runs, Hand!reading, Hand!events, FilesGoOn
<1>2. HandStep
  BY <1>1, HandParts DEF HandStep, Hand!SendsReadable, Hand!LeavesPredecessor
<1>3. CASE Hand!Begin
  <2>1. step = "idle" /\ UNCHANGED <<catalog, cache, told, editor>>
    BY <1>3 DEF Hand!Begin, Hand!files, Hand!reading
  <2>2. PICK archive \in BOOLEAN, access \in Hand!Accesses, m \in Hand!Named, e \in Efforts \cup {NoChoice} :
          /\ handPlan' = Hand!BuildHandoffPlan(archive, access, m, e) /\ Hand!Goto(IF archive THEN "stage" ELSE "check")
    BY <1>3 DEF Hand!Begin
  <2>3. chosen["old"].model \in Models \cup {NoChoice, Hand!Inherited} /\ chosen["old"].effort \in Efforts \cup {NoChoice}
    <3>1. chosen["old"] \in Choices
      BY HandParts DEF Hand!Both
    <3>2. QED
      BY <3>1 DEF Choices
  <2>4. handPlan' \in Plans /\ handPlan'.archive = archive /\ step' = IF archive THEN "stage" ELSE "check"
    BY <2>2, <2>3 DEF Hand!BuildHandoffPlan, Hand!Named, Plans, Hand!Goto
  <2>5. HandTypes' /\ ReaderIsCurrent' /\ Hand!NewestIsPublished'
    BY <1>1, <2>1, <2>4, HandParts, CommandMoves
  <2>6. CommandGoesOn' /\ CheckedIsThere' /\ Hand!PromptIsKept'
    BY <1>1, <2>1, <2>4, HandParts DEF CommandGoesOn, CheckedIsThere, Hand!PromptIsKept
  <2>7. QED
    BY <1>2, <2>5, <2>6 DEF HandInv
<1>4. CASE Hand!Preflight
  <2>1. step = "check" /\ cache' = Hand!NoCache /\ UNCHANGED <<catalog, handPlan>>
    BY <1>4 DEF Hand!Preflight, Hand!files
  <2>2. \/ Hand!ActiveReads /\ step' = "switch" /\ UNCHANGED <<told, editor>>
        \/ step' = "done" /\ told' = "rejected" /\ editor' = "old"
    BY <1>4 DEF Hand!Preflight, Hand!Goto
  <2>3. HandTypes' /\ ReaderIsCurrent' /\ Hand!NewestIsPublished'
    BY <1>1, <2>1, <2>2, HandParts, CommandMoves DEF Hand!Both
  <2>4. CommandGoesOn' /\ CheckedIsThere' /\ Hand!PromptIsKept'
    BY <1>1, <2>1, <2>2, HandParts DEF CommandGoesOn, CheckedIsThere, Hand!PromptIsKept, Hand!ActiveReads
  <2>5. QED
    BY <1>2, <2>3, <2>4 DEF HandInv
<1>5. CASE Hand!Stage
  <2>1. step = "stage" /\ UNCHANGED <<cache, handPlan, editor>>
    BY <1>5 DEF Hand!Stage, Hand!reading
  <2>2. \/ step' = "switch" /\ catalog' = "pending" /\ UNCHANGED told
        \/ step' = "done" /\ told' = "rejected" /\ UNCHANGED catalog
    BY <1>5 DEF Hand!Stage, Hand!Goto
  <2>3. HandTypes' /\ ReaderIsCurrent' /\ Hand!NewestIsPublished'
    BY <1>1, <2>1, <2>2, HandParts, CommandMoves
  <2>4. CommandGoesOn' /\ CheckedIsThere' /\ Hand!PromptIsKept'
    BY <1>1, <2>1, <2>2, HandParts DEF CommandGoesOn, CheckedIsThere, Hand!PromptIsKept, Hand!ActiveReads
  <2>5. QED
    BY <1>2, <2>3, <2>4 DEF HandInv
<1>6. CASE Hand!Vetoed
  <2>1. step = "switch" /\ UNCHANGED <<cache, handPlan, editor>> /\ step' = "done" /\ told' = "cancelled" /\ catalog' \in {"none", catalog}
    BY <1>6 DEF Hand!Vetoed, Hand!reading, Hand!Goto
  <2>2. HandTypes' /\ ReaderIsCurrent' /\ Hand!NewestIsPublished'
    BY <1>1, <2>1, HandParts, CommandMoves
  <2>3. CommandGoesOn' /\ CheckedIsThere' /\ Hand!PromptIsKept'
    BY <1>1, <2>1, HandParts DEF CommandGoesOn, CheckedIsThere, Hand!PromptIsKept, Hand!ActiveReads
  <2>4. QED
    BY <1>2, <2>2, <2>3 DEF HandInv
<1>7. QED
  BY <1>3, <1>4, <1>5, <1>6

\* The replacement's session starts.
LEMMA NewSessionHolds ==
  ASSUME HandInv, Hand!NewSession
  PROVE  HandInv' /\ HandStep
<1>1. /\ step = "switch" /\ linked' = TRUE /\ step' = (IF handPlan.archive THEN "finalize" ELSE "model")
      /\ UNCHANGED <<active, artifact, catalog, big, chosen, reader, cache, handPlan, finalized, told, editor, sent, touched>>
  BY DEF Hand!NewSession, Hand!Goto, Hand!files, Hand!reading, Hand!events
<1>2. MaxRuntimes \in Nat \ {0, 1} /\ 1 \in 1..MaxRuntimes /\ 0 \in 0..MaxRuntimes /\ 1 \in 0..MaxRuntimes
  BY HandoffAssumption
<1>3. /\ runtimes' \in [Hand!Both -> SUBSET (1..MaxRuntimes)] /\ published' \in [Hand!Both -> 0..MaxRuntimes] /\ Hand!NewestIsPublished'
  BY <1>2 DEF Hand!NewSession, Hand!NewestIsPublished
<1>4. HandTypes'
  BY <1>1, <1>3 DEF HandInv, HandTypes, Hand!TypeOK
<1>5. ReaderIsCurrent'
  BY <1>1, ReaderStays DEF FilesGoOn
<1>6. CommandGoesOn' /\ CheckedIsThere' /\ Hand!PromptIsKept'
  BY <1>1, HandParts DEF CommandGoesOn, CheckedIsThere, Hand!PromptIsKept, Hand!ActiveReads, Plans
<1>7. HandStep
  BY <1>1, HandParts DEF HandStep, Hand!SendsReadable, Hand!LeavesPredecessor
<1>8. QED
  BY <1>3, <1>4, <1>5, <1>6, <1>7 DEF HandInv

LEMMA FinalizeHolds ==
  ASSUME HandInv, Hand!Finalize
  PROVE  HandInv' /\ HandStep
<1>1. /\ step = "finalize" /\ UNCHANGED <<big, runtimes, published, chosen, reader, cache, touched, handPlan, linked, editor, sent>>
      /\ step' = (IF finalized' THEN "model" ELSE "done")
  BY DEF Hand!Finalize, Hand!Goto, Hand!Continues, Hand!runs, Hand!reading, Hand!events
<1>2. PICK moved \in BOOLEAN, committed \in BOOLEAN :
       /\ (committed => moved) /\ (moved => active # 0 /\ ~touched)
       /\ active' = IF moved THEN 0 ELSE active
       /\ artifact' = IF moved THEN active ELSE artifact
       /\ catalog' = IF committed THEN "archived" ELSE catalog
       /\ finalized' = committed
       /\ told' = IF committed THEN told ELSE "pending"
  BY DEF Hand!Finalize
<1>3. FilesGoOn /\ active' \in 0..MaxEntries /\ artifact' \in 0..MaxEntries
  BY <1>2, HandParts DEF FilesGoOn
<1>4. HandTypes' /\ ReaderIsCurrent' /\ Hand!NewestIsPublished'
  BY <1>1, <1>2, <1>3, HandParts, CommandMoves
<1>5. handPlan.archive /\ linked
  BY <1>1, HandParts DEF CommandGoesOn
<1>6. CommandGoesOn' /\ Hand!PromptIsKept'
  BY <1>1, <1>5 DEF CommandGoesOn, Hand!PromptIsKept
<1>7. CheckedIsThere'
  BY <1>1, <1>2, <1>5 DEF CheckedIsThere
<1>8. HandStep
  BY <1>1, HandParts DEF HandStep, Hand!SendsReadable, Hand!LeavesPredecessor
<1>9. QED
  BY <1>4, <1>6, <1>7, <1>8 DEF HandInv

\* The model, the effort, the report and the prompt.
LEMMA SelectionHolds ==
  ASSUME HandInv, Hand!SetModel \/ Hand!SetEffort
  PROVE  HandInv' /\ HandStep
<1>1. /\ UNCHANGED <<active, artifact, catalog, big, runtimes, published, reader, cache, touched, handPlan, linked, finalized, told, editor, sent>>
      /\ step \in {"model", "effort"} /\ step' \in {"effort", "report"} /\ FilesGoOn
  BY DEF Hand!SetModel, Hand!SetEffort, Hand!Goto, Hand!files, Hand!runs, Hand!reading, Hand!events, FilesGoOn
<1>2. chosen' \in [Hand!Both -> Choices] /\ chosen'["old"] = chosen["old"]
  <2>1. "old" \in Hand!Both /\ "new" \in Hand!Both /\ chosen \in [Hand!Both -> Choices] /\ handPlan \in Plans
    BY HandParts DEF Hand!Both
  <2>2. chosen' = chosen \/ \E ch \in Choices : chosen' = [chosen EXCEPT !["new"] = ch]
    <3>1. CASE Hand!SetModel
      <4>1. chosen' = chosen \/ chosen' = [chosen EXCEPT !["new"] = [chosen["new"] EXCEPT !.model = handPlan.model]]
        BY <3>1 DEF Hand!SetModel, Hand!ReplacementApi
      <4>2. [chosen["new"] EXCEPT !.model = handPlan.model] \in Choices
        BY <2>1 DEF Choices, Plans
      <4>3. QED
        BY <4>1, <4>2
    <3>2. CASE Hand!SetEffort
      <4>1. chosen' = chosen \/ \E e \in Efforts : chosen' = [chosen EXCEPT !["new"] = [chosen["new"] EXCEPT !.effort = e]]
        BY <3>2 DEF Hand!SetEffort, Hand!ReplacementApi
      <4>2. \A e \in Efforts : [chosen["new"] EXCEPT !.effort = e] \in Choices
        BY <2>1 DEF Choices
      <4>3. QED
        BY <4>1, <4>2
    <3>3. QED
      BY <3>1, <3>2
  <2>3. QED
    BY <2>1, <2>2
<1>3. HandTypes' /\ ReaderIsCurrent' /\ Hand!NewestIsPublished'
  BY <1>1, <1>2, HandParts, CommandMoves
<1>4. CommandGoesOn' /\ CheckedIsThere' /\ Hand!PromptIsKept'
  BY <1>1, HandParts DEF CommandGoesOn, CheckedIsThere, Hand!PromptIsKept, Hand!ActiveReads
<1>5. HandStep
  BY <1>1, <1>2, HandParts DEF HandStep, Hand!SendsReadable, Hand!LeavesPredecessor
<1>6. QED
  BY <1>3, <1>4, <1>5 DEF HandInv

LEMMA SubmitHolds ==
  ASSUME HandInv, Hand!Report \/ Hand!Submit
  PROVE  HandInv' /\ HandStep
<1>1. UNCHANGED <<active, artifact, catalog, big, runtimes, published, chosen, reader, cache, touched, linked, finalized>> /\ FilesGoOn
  BY DEF Hand!Report, Hand!Submit, Hand!Quiet, Hand!files, Hand!runs, Hand!reading, Hand!events, FilesGoOn
<1>2. CASE Hand!Report
  <2>1. step = "report" /\ step' = "submit" /\ told' \in {"warned", "started"} /\ UNCHANGED <<handPlan, editor, sent>>
    BY <1>2 DEF Hand!Report, Hand!Goto
  <2>2. HandTypes' /\ ReaderIsCurrent' /\ Hand!NewestIsPublished'
    BY <1>1, <2>1, HandParts, CommandMoves
  <2>3. CommandGoesOn' /\ CheckedIsThere' /\ Hand!PromptIsKept' /\ HandStep
    BY <1>1, <2>1, HandParts DEF CommandGoesOn, CheckedIsThere, Hand!PromptIsKept, Hand!ActiveReads, HandStep, Hand!SendsReadable, Hand!LeavesPredecessor
  <2>4. QED
    BY <2>2, <2>3 DEF HandInv
<1>3. CASE Hand!Submit
  <2>1. /\ step = "submit" /\ step' = "done" /\ handPlan' = [handPlan EXCEPT !.model = NoChoice, !.effort = NoChoice]
        /\ \/ editor' = "new" /\ told' = "ready" /\ UNCHANGED sent
           \/ UNCHANGED editor /\ sent' = TRUE /\ UNCHANGED told
           \/ UNCHANGED editor /\ sent' \in BOOLEAN /\ told' = "doubt"
    BY <1>3 DEF Hand!Submit, Hand!Goto
  <2>2. handPlan' \in Plans /\ handPlan'.archive = handPlan.archive
    BY <2>1, HandParts DEF Plans
  <2>3. HandTypes' /\ ReaderIsCurrent' /\ Hand!NewestIsPublished'
    BY <1>1, <2>1, <2>2, HandParts, CommandMoves DEF Hand!Both
  <2>4. CommandGoesOn' /\ CheckedIsThere' /\ Hand!PromptIsKept'
    BY <1>1, <2>1, <2>2, HandParts DEF CommandGoesOn, CheckedIsThere, Hand!PromptIsKept, Hand!ActiveReads
  <2>5. HandStep
    <3>1. linked /\ (handPlan.archive => finalized)
      BY <2>1, HandParts DEF CommandGoesOn
    <3>2. ~touched => Hand!Reachable
      BY <2>1, HandParts DEF CheckedIsThere, Hand!Reachable, Hand!ActiveReads, Plans
    <3>3. QED
      BY <1>1, <3>1, <3>2 DEF HandStep, Hand!SendsReadable, Hand!LeavesPredecessor
  <2>6. QED
    BY <2>3, <2>4, <2>5 DEF HandInv
<1>4. QED
  BY <1>2, <1>3

\* An answer ends a call.
LEMMA Answered ==
  ASSUME HandInv, NEW v \in Nat, Hand!Answer(v)
  PROVE  reader' \in Readings /\ reader'.at = "idle" /\ reader'.shown = v /\ reader'.since = reader.since
<1>1. reader.since \in Nat /\ Hand!NoCall \in Readings /\ Hand!NoCall.at = "idle"
  BY DEF HandInv, HandTypes, Readings, Hand!NoCall
<1> HIDE DEF Hand!NoCall
<1>2. QED
  BY <1>1 DEF Hand!Answer, Readings

\* What a read shows is the cached version of what stat told, or one that is there by now.
LEMMA CachedHolds ==
  ASSUME HandInv, NEW place \in {"active", "archive"}, NEW v \in Nat, Hand!ReadCached(place, v),
         reader.at \in {"active", "archive"}, reader.since <= reader.stat, v # 0 => reader.stat <= v
  PROVE  /\ reader' \in Readings /\ cache' \in Cachings /\ reader'.at = "idle"
         /\ reader'.since <= reader'.shown /\ cache'.stat <= cache'.version
<1>1. reader \in Readings /\ cache \in Cachings /\ cache.stat <= cache.version
  BY DEF HandInv, HandTypes, ReaderIsCurrent
<1>2. reader.stat \in Nat /\ reader.since \in Nat /\ cache.stat \in Nat /\ cache.version \in Nat
  BY <1>1 DEF Readings, Cachings
<1>3. CASE Hand!Cached(place)
  <2>1. Hand!Answer(cache.version) /\ cache' = cache /\ cache.stat = reader.stat
    BY <1>3 DEF Hand!ReadCached, Hand!Cached
  <2>2. QED
    BY <1>1, <1>2, <2>1, Answered
<1>4. CASE ~Hand!Cached(place)
  <2>1. v # 0 /\ Hand!Answer(v) /\ cache' = [place |-> place, stat |-> reader.stat, version |-> v]
    BY <1>4 DEF Hand!ReadCached
  <2>2. cache' \in Cachings /\ cache'.stat <= cache'.version
    BY <1>2, <2>1 DEF Cachings
  <2>3. QED
    BY <1>2, <2>1, <2>2, Answered
<1>5. QED
  BY <1>3, <1>4

\* A call of the history tools.
LEMMA ReadingHolds ==
  ASSUME HandInv, Hand!ReadHistory \/ Hand!StatActive \/ Hand!ReadActive \/ Hand!GetRow \/ Hand!ReadArchived
  PROVE  HandInv' /\ HandStep
<1>1. UNCHANGED <<active, artifact, catalog, big, runtimes, published, chosen, handPlan, linked, finalized, told, editor, sent, step, touched>>
  BY DEF Hand!ReadHistory, Hand!StatActive, Hand!ReadActive, Hand!GetRow, Hand!ReadArchived, Hand!files, Hand!runs, Hand!command, Hand!events
<1>2. /\ active \in Nat /\ artifact \in Nat /\ reader \in Readings /\ cache \in Cachings /\ ReaderIsCurrent
      /\ reader.since \in Nat /\ reader.stat \in Nat /\ reader.shown \in Nat
  BY HandoffAssumption DEF HandInv, HandTypes, Hand!TypeOK, Readings
<1>3. Hand!NoCall \in Readings /\ Hand!NoCall.at = "idle" /\ Hand!NoCall.shown = 0
  BY DEF Hand!NoCall, Readings
<1>4. reader' \in Readings /\ cache' \in Cachings /\ ReaderIsCurrent'
  <2>1. CASE reader' = Hand!NoCall /\ cache' = cache
    BY <1>1, <1>2, <1>3, <2>1 DEF ReaderIsCurrent, Hand!HistoryIsCurrent
  <2>2. CASE Hand!ReadHistory
    <3>1. reader' = [at |-> "stat", stat |-> 0, since |-> Hand!Latest, shown |-> 0] /\ cache' = cache
      BY <2>2 DEF Hand!ReadHistory
    <3>2. Hand!Latest \in Nat /\ (active # 0 => Hand!Latest <= active) /\ (artifact # 0 => Hand!Latest <= artifact)
      BY <1>2 DEF Hand!Latest, ReaderIsCurrent
    <3> HIDE DEF Hand!Latest
    <3>3. QED
      BY <1>1, <1>2, <3>1, <3>2 DEF ReaderIsCurrent, Hand!HistoryIsCurrent, Readings
  <2>3. CASE reader.at \in {"stat", "active"} /\ active = 0 /\ reader' = [reader EXCEPT !.at = "row"] /\ cache' = cache
    <3>1. reader' \in Readings /\ reader'.at = "row" /\ reader'.since = reader.since /\ reader'.shown = reader.shown /\ reader'.stat = reader.stat
      BY <1>2, <2>3 DEF Readings
    <3>2. QED
      BY <1>1, <1>2, <2>3, <3>1 DEF ReaderIsCurrent, Hand!HistoryIsCurrent
  <2>4. CASE reader.at = "stat" /\ active # 0 /\ reader' = [reader EXCEPT !.at = "active", !.stat = active] /\ cache' = cache
    <3>1. reader' \in Readings /\ reader'.at = "active" /\ reader'.since = reader.since /\ reader'.shown = reader.shown /\ reader'.stat = active
      BY <1>2, <2>4 DEF Readings
    <3>2. QED
      BY <1>1, <1>2, <2>4, <3>1 DEF ReaderIsCurrent, Hand!HistoryIsCurrent
  <2>5. CASE reader.at = "row" /\ artifact # 0 /\ reader' = [reader EXCEPT !.at = "archive", !.stat = artifact] /\ cache' = cache
    <3>1. reader' \in Readings /\ reader'.at = "archive" /\ reader'.since = reader.since /\ reader'.shown = reader.shown /\ reader'.stat = artifact
      BY <1>2, <2>5 DEF Readings
    <3>2. QED
      BY <1>1, <1>2, <2>5, <3>1 DEF ReaderIsCurrent, Hand!HistoryIsCurrent
  <2>6. CASE reader.at = "archive" /\ Hand!Answer(reader.stat) /\ cache' = cache
    <3>1. reader.since <= reader.stat
      BY <1>2, <2>6 DEF ReaderIsCurrent
    <3>2. reader' \in Readings /\ reader'.at = "idle" /\ reader'.shown = reader.stat /\ reader'.since = reader.since
      BY <1>2, <2>6, Answered
    <3>3. QED
      BY <1>1, <1>2, <2>6, <3>1, <3>2 DEF ReaderIsCurrent, Hand!HistoryIsCurrent
  <2>7. CASE \/ reader.at = "active" /\ Hand!ReadCached("active", active)
             \/ reader.at = "archive" /\ Hand!ReadCached("archive", artifact)
    <3>1. reader' \in Readings /\ cache' \in Cachings /\ reader'.at = "idle" /\ reader'.since <= reader'.shown /\ cache'.stat <= cache'.version
      BY <1>2, <2>7, CachedHolds DEF ReaderIsCurrent
    <3>2. reader'.since \in Nat /\ reader'.shown \in Nat
      BY <3>1 DEF Readings
    <3>3. QED
      BY <1>1, <1>2, <3>1, <3>2 DEF ReaderIsCurrent, Hand!HistoryIsCurrent
  <2>8. QED
    BY <2>1, <2>2, <2>3, <2>4, <2>5, <2>6, <2>7
       DEF Hand!StatActive, Hand!ReadActive, Hand!GetRow, Hand!ReadArchived, Hand!Throws, Hand!ActiveReads
<1>5. HandTypes'
  BY <1>1, <1>4 DEF HandInv, HandTypes, Hand!TypeOK
<1>6. CommandGoesOn' /\ CheckedIsThere' /\ Hand!NewestIsPublished' /\ Hand!PromptIsKept' /\ HandStep
  BY <1>1 DEF HandInv, CommandGoesOn, CheckedIsThere, Hand!ActiveReads, Hand!NewestIsPublished, Hand!PromptIsKept, HandStep,
     Hand!SendsReadable, Hand!LeavesPredecessor
<1>7. QED
  BY <1>4, <1>5, <1>6 DEF HandInv

LEMMA HandHolds == ASSUME HandInv, [Hand!Next]_handVars PROVE HandInv' /\ HandStep
<1>1. CASE UNCHANGED handVars
  <2>1. UNCHANGED <<active, artifact, catalog, big, runtimes, published, chosen, handPlan, step, linked, finalized, told, editor, sent, reader, cache, touched, others>>
    BY <1>1 DEF handVars
  <2>2. HandTypes'
    BY <2>1 DEF HandInv, HandTypes, Hand!TypeOK
  <2>3. ReaderIsCurrent'
    BY <2>1, ReaderStays DEF FilesGoOn
  <2>4. CommandGoesOn' /\ CheckedIsThere' /\ Hand!NewestIsPublished' /\ Hand!PromptIsKept' /\ HandStep
    BY <2>1 DEF HandInv, CommandGoesOn, CheckedIsThere, Hand!ActiveReads, Hand!NewestIsPublished, Hand!PromptIsKept, HandStep,
       Hand!SendsReadable, Hand!LeavesPredecessor
  <2>5. QED
    BY <2>2, <2>3, <2>4 DEF HandInv
<1>2. CASE Hand!Next
  BY <1>2, RuntimesHold, BeforeSwitchHolds, NewSessionHolds, FinalizeHolds, SelectionHolds, SubmitHolds, ReadingHolds, OthersHold DEF Hand!Next
<1>3. QED
  BY <1>1, <1>2

LEMMA HandServes == ASSUME HandInv PROVE Hand!TypeOK /\ Hand!HistoryIsCurrent /\ Hand!NewestIsPublished /\ Hand!PromptIsKept
BY DEF HandInv, HandTypes, ReaderIsCurrent

LEMMA HandMoves ==
  /\ KeptInit => Hand!Init
  /\ [KeptNext]_keptVars => [Hand!Next]_handVars
BY DEF KeptInit, KeptNext, keptVars
-----------------------------------------------------------------------------
\* The agent panes: the host's runs, each once, and what it shows of them.
AllRuns == ToolCalls \cup OtherRuns
Held == {paneRuns[i] : i \in DOMAIN paneRuns}
EachOnce(rs) == \A i, j \in DOMAIN rs : rs[i] = rs[j] => i = j

HostInv ==
  /\ tui \in BOOLEAN
  /\ paneRuns \in Seq(AllRuns)
  /\ EachOnce(paneRuns)
  /\ disposed \subseteq AllRuns /\ ticking \subseteq AllRuns /\ console \subseteq AllRuns
  /\ mounted \in {0} \cup AllRuns
  /\ Panes!PanesFollowRuns

LEMMA RunIsNamed == 0 \notin AllRuns
BY PanesAssumption DEF AllRuns

\* The active run is one that is held, unless there is none.
LEMMA ActiveIsHeld ==
  ASSUME NEW rs \in Seq(AllRuns)
  PROVE  /\ rs = <<>> => Panes!Active(rs) = 0
         /\ rs # <<>> => /\ Len(rs) \in DOMAIN rs /\ Panes!Active(rs) = rs[Len(rs)]
                         /\ Panes!Active(rs) \in AllRuns
<1>1. rs # <<>> => Len(rs) \in 1..Len(rs)
  OBVIOUS
<1>2. DOMAIN rs = 1..Len(rs) /\ \A i \in 1..Len(rs) : rs[i] \in AllRuns
  OBVIOUS
<1>3. QED
  BY <1>1, <1>2 DEF Panes!Active

\* A run that is taken out is gone, the others stay in their order, and the last stays last.
LEMMA SplicedOut ==
  ASSUME NEW rs \in Seq(AllRuns), EachOnce(rs), NEW r
  PROVE  /\ Panes!Without(rs, r) \in Seq(AllRuns)
         /\ EachOnce(Panes!Without(rs, r))
         /\ {Panes!Without(rs, r)[i] : i \in DOMAIN Panes!Without(rs, r)} = {rs[i] : i \in DOMAIN rs} \ {r}
         /\ rs # <<>> /\ Panes!Active(rs) # r => Panes!Active(Panes!Without(rs, r)) = Panes!Active(rs)
<1> DEFINE out == Panes!Without(rs, r)
<1>0. Len(rs) \in Nat /\ DOMAIN rs = 1..Len(rs) /\ \A i \in 1..Len(rs) : rs[i] \in AllRuns
  OBVIOUS
<1>1. CASE \A i \in DOMAIN rs : rs[i] # r
  <2>1. out = rs
    BY <1>1 DEF Panes!Without
  <2>2. QED
    BY <2>1, <1>1
<1>2. CASE \E i \in DOMAIN rs : rs[i] = r
  <2> DEFINE k == CHOOSE i \in DOMAIN rs : rs[i] = r /\ \A j \in 1..(i - 1) : rs[j] # r
  <2>1. PICK m \in DOMAIN rs : rs[m] = r
    BY <1>2
  <2>2. \A j \in 1..(m - 1) : rs[j] # r
    BY <2>1, <1>0 DEF EachOnce
  <2>3. k \in 1..Len(rs) /\ rs[k] = r
    BY <2>1, <2>2, <1>0
  <2>4. out = [i \in 1..(Len(rs) - 1) |-> IF i < k THEN rs[i] ELSE rs[i + 1]]
    BY <1>2 DEF Panes!Without
  <2> HIDE DEF k, out
  <2>5. Len(rs) - 1 \in Nat /\ k \in Nat
    BY <2>3, <1>0
  <2>6. \A i \in 1..(Len(rs) - 1) : out[i] = (IF i < k THEN rs[i] ELSE rs[i + 1])
    BY <2>4
  <2>7. \A i \in 1..(Len(rs) - 1) : out[i] \in AllRuns
    BY <2>6, <1>0, <2>5
  <2>8. out \in Seq(AllRuns)
    <3>1. out \in [1..(Len(rs) - 1) -> AllRuns]
      BY <2>4, <2>7
    <3>2. PICK n \in Nat : n = Len(rs) - 1
      BY <2>5
    <3>3. out \in [1..n -> AllRuns]
      BY <3>1, <3>2
    <3>4. QED
      BY <3>3, IsASeq
  <2>9. DOMAIN out = 1..(Len(rs) - 1) /\ Len(out) = Len(rs) - 1
    BY <2>4, <2>5, <2>8
  <2>10. EachOnce(out)
    <3>1. SUFFICES ASSUME NEW i \in 1..(Len(rs) - 1), NEW j \in 1..(Len(rs) - 1), out[i] = out[j]
                   PROVE  i = j
      BY <2>9 DEF EachOnce
    <3>2. (IF i < k THEN i ELSE i + 1) \in 1..Len(rs) /\ (IF j < k THEN j ELSE j + 1) \in 1..Len(rs)
      BY <2>5, <1>0
    <3>3. rs[IF i < k THEN i ELSE i + 1] = rs[IF j < k THEN j ELSE j + 1]
      BY <3>1, <2>6
    <3>4. (IF i < k THEN i ELSE i + 1) = (IF j < k THEN j ELSE j + 1)
      BY <3>2, <3>3, <1>0 DEF EachOnce
    <3>5. QED
      BY <3>4, <2>5
  <2>11. {out[i] : i \in DOMAIN out} \subseteq {rs[i] : i \in DOMAIN rs} \ {r}
    <3>1. SUFFICES ASSUME NEW i \in 1..(Len(rs) - 1)
                   PROVE  out[i] \in {rs[j] : j \in DOMAIN rs} /\ out[i] # r
      BY <2>9
    <3>2. PICK j \in 1..Len(rs) : j = IF i < k THEN i ELSE i + 1
      BY <2>5, <1>0
    <3>3. out[i] = rs[j] /\ j # k
      BY <3>2, <2>6, <2>5
    <3>4. QED
      BY <3>3, <2>3, <1>0 DEF EachOnce
  <2>12. {rs[i] : i \in DOMAIN rs} \ {r} \subseteq {out[i] : i \in DOMAIN out}
    <3>1. SUFFICES ASSUME NEW j \in 1..Len(rs), rs[j] # r
                   PROVE  \E i \in 1..(Len(rs) - 1) : out[i] = rs[j]
      BY <2>9, <1>0
    <3>2. j # k
      BY <3>1, <2>3
    <3>3. CASE j < k
      <4>1. j \in 1..(Len(rs) - 1)
        BY <3>3, <2>3, <1>0
      <4>2. QED
        BY <4>1, <2>6, <3>3
    <3>4. CASE j > k
      <4>1. j - 1 \in 1..(Len(rs) - 1) /\ ~(j - 1 < k) /\ (j - 1) + 1 = j
        BY <3>4, <2>3, <1>0
      <4>2. QED
        BY <4>1, <2>6
    <3>5. QED
      BY <3>2, <3>3, <3>4, <2>5
  <2>13. ASSUME rs # <<>>, Panes!Active(rs) # r PROVE Panes!Active(out) = Panes!Active(rs)
    <3>1. Panes!Active(rs) = rs[Len(rs)] /\ Len(rs) # k
      BY <2>13, <2>3, ActiveIsHeld
    <3>2. Len(rs) - 1 \in 1..(Len(rs) - 1) /\ ~(Len(rs) - 1 < k) /\ (Len(rs) - 1) + 1 = Len(rs)
      <4>1. PICK n \in Nat : n = Len(rs) /\ k \in 1..n /\ n # k
        BY <3>1, <2>3, <1>0
      <4>2. n - 1 \in 1..(n - 1) /\ ~(n - 1 < k) /\ (n - 1) + 1 = n
        BY <4>1
      <4>3. QED
        BY <4>1, <4>2
    <3>3. out[Len(rs) - 1] = rs[Len(rs)] /\ out # <<>>
      BY <3>2, <2>6, <2>9
    <3>4. QED
      BY <3>1, <3>3, <2>8, <2>9, ActiveIsHeld
  <2>14. QED
    BY <2>8, <2>10, <2>11, <2>12, <2>13 DEF out
<1>3. QED
  BY <1>1, <1>2

LEMMA PaneStartHolds ==
  ASSUME HostInv, NEW r \in AllRuns, r \notin Held, r \notin disposed, tui, tui' = tui, Panes!StartRun(r)
  PROVE  HostInv' /\ r \in Held' /\ Held \subseteq Held' /\ disposed' = disposed
<1>1. /\ paneRuns' = Append(paneRuns, r) /\ console' = console \ {Panes!Active(paneRuns)}
      /\ ticking' = ticking \cup {r} /\ mounted' = Panes!Active(paneRuns') /\ disposed' = disposed
  BY DEF Panes!StartRun, Panes!RenderActive
<1>2. paneRuns \in Seq(AllRuns) /\ EachOnce(paneRuns) /\ ticking = Held
  BY DEF HostInv, Panes!PanesFollowRuns, Held
<1>3. /\ paneRuns' \in Seq(AllRuns) /\ Len(paneRuns') = Len(paneRuns) + 1
      /\ DOMAIN paneRuns = 1..Len(paneRuns) /\ DOMAIN paneRuns' = 1..(Len(paneRuns) + 1)
      /\ paneRuns'[Len(paneRuns) + 1] = r /\ \A i \in 1..Len(paneRuns) : paneRuns'[i] = paneRuns[i]
      /\ Len(paneRuns) \in Nat
  BY <1>1, <1>2
<1>4. Held' = Held \cup {r}
  <2>1. Len(paneRuns) + 1 \in 1..(Len(paneRuns) + 1) /\ 1..(Len(paneRuns) + 1) = (1..Len(paneRuns)) \cup {Len(paneRuns) + 1}
    BY <1>3
  <2>2. QED
    BY <1>3, <2>1 DEF Held
<1>5. EachOnce(paneRuns')
  <2>1. \A i \in 1..Len(paneRuns) : paneRuns[i] # r
    BY <1>3 DEF Held
  <2>2. QED
    BY <2>1, <1>2, <1>3 DEF EachOnce
<1>6. console' = {}
  BY <1>1 DEF HostInv, Panes!PanesFollowRuns
<1>7. mounted' \in AllRuns
  BY <1>1, <1>3, ActiveIsHeld DEF Panes!Active
<1>8. Panes!PanesFollowRuns'
  BY <1>1, <1>2, <1>4, <1>6 DEF HostInv, Panes!PanesFollowRuns, Held
<1>9. QED
  BY <1>1, <1>2, <1>3, <1>4, <1>5, <1>6, <1>7, <1>8 DEF HostInv

LEMMA DisposeHolds ==
  ASSUME HostInv, NEW r \in AllRuns, tui' = tui, Panes!DisposeRun(r)
  PROVE  HostInv' /\ Held' = Held \ {r} /\ disposed' = disposed \cup {r}
<1>1. CASE r \in disposed
  <2>1. UNCHANGED <<paneRuns, disposed, ticking, console, mounted>>
    BY <1>1 DEF Panes!DisposeRun
  <2>2. r \notin Held
    BY <1>1 DEF HostInv, Panes!PanesFollowRuns, Held
  <2>3. Held' = Held
    BY <2>1 DEF Held
  <2>4. HostInv'
    BY <2>1 DEF HostInv, Panes!PanesFollowRuns, EachOnce
  <2>5. QED
    BY <2>1, <2>2, <2>3, <2>4, <1>1
<1>2. CASE r \notin disposed
  <2>1. /\ disposed' = disposed \cup {r} /\ ticking' = ticking \ {r} /\ console' = console \ {r}
        /\ paneRuns' = Panes!Without(paneRuns, r)
        /\ mounted' = IF tui THEN Panes!Active(paneRuns') ELSE 0
    BY <1>2 DEF Panes!DisposeRun, Panes!RenderActive
  <2>2. paneRuns \in Seq(AllRuns) /\ EachOnce(paneRuns)
    BY DEF HostInv
  <2>3. paneRuns' \in Seq(AllRuns) /\ EachOnce(paneRuns') /\ Held' = Held \ {r}
    BY <2>1, <2>2, SplicedOut DEF Held
  <2>4. mounted' \in {0} \cup AllRuns
    BY <2>1, <2>3, ActiveIsHeld
  <2>5. console' \subseteq {Panes!Active(paneRuns')} \ {0}
    <3>1. console \subseteq {Panes!Active(paneRuns)} \ {0}
      BY DEF HostInv, Panes!PanesFollowRuns
    <3>2. CASE Panes!Active(paneRuns) = r
      BY <3>1, <3>2, <2>1
    <3>3. CASE paneRuns = <<>>
      BY <3>1, <3>3, <2>1, <2>2, ActiveIsHeld
    <3>4. CASE paneRuns # <<>> /\ Panes!Active(paneRuns) # r
      BY <3>1, <3>4, <2>1, <2>2, SplicedOut
    <3>5. QED
      BY <3>2, <3>3, <3>4
  <2>6. Panes!PanesFollowRuns'
    BY <2>1, <2>3, <2>5 DEF HostInv, Panes!PanesFollowRuns, Held
  <2>7. QED
    BY <2>1, <2>3, <2>4, <2>6 DEF HostInv
<1>3. QED
  BY <1>1, <1>2

LEMMA StillHolds ==
  ASSUME HostInv, tui' = tui, Panes!NoHostStep
  PROVE  HostInv' /\ Held' = Held /\ disposed' = disposed
<1>1. UNCHANGED <<paneRuns, disposed, ticking, console, mounted>>
  BY DEF Panes!NoHostStep
<1>2. QED
  BY <1>1 DEF HostInv, Panes!PanesFollowRuns, EachOnce, Held

PaneStates == {"waiting", "running"} \cup Panes!Ended
PaneCalls == [stage : {"idle", "refused", "running", "returned"}, aborted : BOOLEAN, tasks : Nat, limit : Nat, next : Nat]
PaneChildren == [state : PaneStates, turns : Nat]
PaneRows == [status : {"none", "queued"} \cup PaneStates, turns : Nat, cost : Nat]

PaneTypes ==
  /\ paneActive \in {0} \cup ToolCalls /\ shutdown \in {"no", "host"}
  /\ paneCall \in [ToolCalls -> PaneCalls]
  /\ paneChild \in [ToolCalls -> [Panes!Tasks -> PaneChildren]]
  /\ paneRow \in [ToolCalls -> [Panes!Tasks -> PaneRows]]
  /\ cost \in [ToolCalls -> [Panes!Tasks -> Nat]]

\* A call has taken its tasks in order, up to the next; one that has not started has neither
\* a run nor anything in its rows.
TaskInv(c, i) ==
  /\ paneChild[c][i].state = "waiting" => paneChild[c][i].turns = 0
  /\ paneCall[c].stage = "idle" =>
       /\ paneChild[c][i].state = "waiting" /\ paneRow[c][i].turns = 0
       /\ paneRow[c][i].cost = 0 /\ cost[c][i] = 0
  /\ i \in Panes!TasksOf(c) => (i < paneCall[c].next <=> paneChild[c][i].state # "waiting")

CallInv(c) ==
  /\ paneCall[c].tasks <= MaxTasks[c]
  /\ paneCall[c].next \in 1..(paneCall[c].tasks + 1)
  /\ paneCall[c].stage \in {"idle", "refused"} => paneCall[c].tasks = 0
  /\ paneCall[c].stage = "idle" => c \notin Held /\ c \notin disposed
  /\ paneCall[c].stage = "returned" => paneCall[c].next > paneCall[c].tasks /\ Panes!Running(c) = {}
  /\ Cardinality(Panes!Running(c)) <= paneCall[c].limit

\* What the dashboard says of a task.
RowTells(c, i) ==
  /\ paneRow[c][i].status = (IF paneChild[c][i].state = "waiting" THEN "queued" ELSE paneChild[c][i].state)
  /\ paneRow[c][i].turns = paneChild[c][i].turns
  /\ paneRow[c][i].cost = cost[c][i]

ToolInv ==
  /\ PaneTypes
  /\ \A c \in ToolCalls : CallInv(c)
  /\ \A c \in ToolCalls : \A i \in Panes!Tasks : TaskInv(c, i)
  /\ tui => \A c \in ToolCalls : \A i \in Panes!TasksOf(c) : RowTells(c, i)

PaneInv == HostInv /\ ToolInv /\ Panes!OneLiveCall

LEMMA PaneCounts == \A s : Panes!Cardinality(s) = Cardinality(s)
BY DEF Panes!Cardinality, Cardinality, Panes!IsFiniteSet, IsFiniteSet

\* Tasks are numbered, and a call's are among them.
LEMMA TasksAreNumbered ==
  /\ Panes!Tasks \subseteq Nat \ {0}
  /\ \A c \in ToolCalls : \A i \in Nat : 1 <= i /\ i <= MaxTasks[c] => i \in Panes!Tasks
<1>1. \A c \in ToolCalls : MaxTasks[c] \in Nat \ {0}
  BY PanesAssumption
<1>2. QED
  BY <1>1 DEF Panes!Tasks

LEMMA TasksOfCall ==
  ASSUME PaneTypes, NEW c \in ToolCalls, CallInv(c)
  PROVE  Panes!TasksOf(c) \subseteq Panes!Tasks /\ Panes!TasksOf(c) = 1..paneCall[c].tasks
<1>1. paneCall[c].tasks \in Nat /\ MaxTasks[c] \in Nat
  BY PanesAssumption DEF PaneTypes, PaneCalls
<1>2. Panes!TasksOf(c) = 1..paneCall[c].tasks
  BY DEF Panes!TasksOf
<1>3. \A i \in 1..paneCall[c].tasks : i \in Nat /\ 1 <= i /\ i <= MaxTasks[c]
  BY <1>1 DEF CallInv
<1>4. QED
  BY <1>2, <1>3, TasksAreNumbered

LEMMA RunningIsFinite ==
  ASSUME PaneTypes, NEW c \in ToolCalls
  PROVE  IsFiniteSet(Panes!Running(c)) /\ Cardinality(Panes!Running(c)) \in Nat
<1>1. paneCall[c].tasks \in Nat
  BY DEF PaneTypes, PaneCalls
<1>2. IsFiniteSet(1..paneCall[c].tasks)
  BY <1>1, FS_Interval
<1>3. Panes!Running(c) \subseteq 1..paneCall[c].tasks
  BY DEF Panes!Running, Panes!TasksOf
<1>4. QED
  BY <1>2, <1>3, FS_Subset, FS_CardinalityType

\* What is true of a call that a step leaves alone.
LEMMA SameCall ==
  ASSUME ToolInv, NEW c \in ToolCalls, PaneTypes', tui' = tui,
         \/ paneCall'[c] = paneCall[c]
         \/ paneCall'[c] = [paneCall[c] EXCEPT !.aborted = TRUE],
         paneChild'[c] = paneChild[c], paneRow'[c] = paneRow[c], cost'[c] = cost[c],
         paneCall[c].stage = "idle" => c \notin Held' /\ c \notin disposed'
  PROVE  /\ CallInv(c)' /\ \A i \in Panes!Tasks : TaskInv(c, i)'
         /\ tui' => \A i \in Panes!TasksOf(c)' : RowTells(c, i)'
<1>1. /\ paneCall'[c].stage = paneCall[c].stage /\ paneCall'[c].tasks = paneCall[c].tasks
      /\ paneCall'[c].limit = paneCall[c].limit /\ paneCall'[c].next = paneCall[c].next
  BY DEF ToolInv, PaneTypes, PaneCalls
<1>2. CallInv(c) /\ \A i \in Panes!Tasks : TaskInv(c, i)
  BY DEF ToolInv
<1>3. Panes!TasksOf(c)' = Panes!TasksOf(c)
  BY <1>1 DEF Panes!TasksOf
<1>4. Panes!Running(c)' = Panes!Running(c)
  BY <1>3 DEF Panes!Running
<1>5. CallInv(c)'
  BY <1>1, <1>2, <1>4 DEF CallInv
<1>6. ASSUME NEW i \in Panes!Tasks PROVE TaskInv(c, i)'
  BY <1>1, <1>2, <1>3 DEF TaskInv
<1>7. ASSUME NEW i \in Panes!TasksOf(c), tui PROVE RowTells(c, i)'
  <2>1. RowTells(c, i)
    BY <1>7 DEF ToolInv
  <2>2. QED
    BY <2>1 DEF RowTells
<1>8. QED
  BY <1>3, <1>5, <1>6, <1>7

\* A step of one call, and of none.
LEMMA OneCallSteps ==
  ASSUME ToolInv, NEW c \in ToolCalls, PaneTypes', tui' = tui,
         \A d \in ToolCalls \ {c} :
           /\ paneCall'[d] = paneCall[d] /\ paneChild'[d] = paneChild[d]
           /\ paneRow'[d] = paneRow[d] /\ cost'[d] = cost[d]
           /\ paneCall[d].stage = "idle" => d \notin Held' /\ d \notin disposed',
         CallInv(c)', \A i \in Panes!Tasks : TaskInv(c, i)',
         tui => \A i \in Panes!TasksOf(c)' : RowTells(c, i)'
  PROVE  ToolInv'
<1>1. ASSUME NEW d \in ToolCalls
      PROVE  /\ CallInv(d)' /\ \A i \in Panes!Tasks : TaskInv(d, i)'
             /\ tui' => \A i \in Panes!TasksOf(d)' : RowTells(d, i)'
  <2>1. CASE d = c
    BY <2>1
  <2>2. CASE d # c
    <3>1. d \in ToolCalls \ {c}
      BY <2>2
    <3>2. QED
      BY <3>1, SameCall
  <2>3. QED
    BY <2>1, <2>2
<1>2. QED
  BY <1>1 DEF ToolInv

LEMMA NoTaskSteps ==
  ASSUME ToolInv, PaneTypes', tui' = tui, UNCHANGED <<paneChild, paneRow, cost>>,
         \A d \in ToolCalls :
           /\ paneCall'[d] = paneCall[d] \/ paneCall'[d] = [paneCall[d] EXCEPT !.aborted = TRUE]
           /\ paneCall[d].stage = "idle" => d \notin Held' /\ d \notin disposed'
  PROVE  ToolInv'
<1>1. ASSUME NEW d \in ToolCalls
      PROVE  /\ CallInv(d)' /\ \A i \in Panes!Tasks : TaskInv(d, i)'
             /\ tui' => \A i \in Panes!TasksOf(d)' : RowTells(d, i)'
  BY SameCall
<1>2. QED
  BY <1>1 DEF ToolInv

\* Aborting a call changes its mark alone.
LEMMA AbortTypes ==
  ASSUME PaneTypes, NEW r
  PROVE  /\ Panes!Abort(r) \in [ToolCalls -> PaneCalls]
         /\ \A d \in ToolCalls : /\ Panes!Abort(r)[d] = paneCall[d] \/ Panes!Abort(r)[d] = [paneCall[d] EXCEPT !.aborted = TRUE]
                                 /\ Panes!Abort(r)[d].stage = paneCall[d].stage
                                 /\ paneCall[d].aborted => Panes!Abort(r)[d].aborted
                                 /\ r = d => Panes!Abort(r)[d].aborted
<1>1. paneCall \in [ToolCalls -> PaneCalls]
  BY DEF PaneTypes
<1>2. CASE r \notin ToolCalls
  BY <1>1, <1>2 DEF Panes!Abort
<1>3. CASE r \in ToolCalls
  <2>1. Panes!Abort(r) = [paneCall EXCEPT ![r].aborted = TRUE]
    BY <1>3 DEF Panes!Abort
  <2>2. Panes!Abort(r)[r] = [paneCall[r] EXCEPT !.aborted = TRUE] /\ paneCall[r] \in PaneCalls
    BY <2>1, <1>1, <1>3
  <2>3. [paneCall[r] EXCEPT !.aborted = TRUE] \in PaneCalls
    BY <2>2 DEF PaneCalls
  <2>4. Panes!Abort(r)[r].aborted = TRUE /\ Panes!Abort(r)[r].stage = paneCall[r].stage
    BY <2>2 DEF PaneCalls
  <2>5. \A d \in ToolCalls : d # r => Panes!Abort(r)[d] = paneCall[d]
    BY <2>1, <1>1
  <2>6. Panes!Abort(r) \in [ToolCalls -> PaneCalls]
    BY <2>1, <2>2, <2>3, <1>1
  <2>7. QED
    BY <2>2, <2>4, <2>5, <2>6
<1>4. QED
  BY <1>2, <1>3

\* A step in which no child moves runs none again.
LEMMA ChildrenStand ==
  ASSUME UNCHANGED paneChild, \A c \in ToolCalls : paneCall'[c].tasks = paneCall[c].tasks
  PROVE  Panes!RunsOnce
<1>1. ASSUME NEW c \in ToolCalls PROVE Panes!Running(c)' = Panes!Running(c)
  BY DEF Panes!Running, Panes!TasksOf
<1>2. QED
  BY <1>1 DEF Panes!RunsOnce

\* The user looks at the active run, or away.
LEMMA PaneLookHolds == ASSUME PaneInv, Panes!OpenActive \/ Panes!ConsoleCloses PROVE PaneInv' /\ Panes!RunsOnce
<1>1. UNCHANGED <<tui, paneActive, paneCall, paneChild, paneRow, cost, paneRuns, disposed, ticking, mounted, shutdown>>
  BY DEF Panes!OpenActive, Panes!ConsoleCloses
<1>2. HostInv'
  <2>1. CASE Panes!OpenActive
    <3>1. paneRuns # <<>> /\ console' = console \cup {Panes!Active(paneRuns)}
      BY <2>1 DEF Panes!OpenActive
    <3>2. Panes!Active(paneRuns) \in AllRuns /\ Panes!Active(paneRuns) # 0
      BY <3>1, ActiveIsHeld, RunIsNamed DEF PaneInv, HostInv
    <3>3. Panes!PanesFollowRuns'
      BY <1>1, <3>1, <3>2 DEF PaneInv, HostInv, Panes!PanesFollowRuns
    <3>4. console' \subseteq AllRuns
      BY <3>1, <3>2 DEF PaneInv, HostInv
    <3>5. QED
      BY <1>1, <3>3, <3>4 DEF PaneInv, HostInv, EachOnce
  <2>2. CASE Panes!ConsoleCloses
    <3>1. console' \subseteq console
      BY <2>2 DEF Panes!ConsoleCloses
    <3>2. QED
      BY <1>1, <3>1 DEF PaneInv, HostInv, Panes!PanesFollowRuns
  <2>3. QED
    BY <2>1, <2>2
<1>3. Held' = Held
  BY <1>1 DEF Held
<1>4. PaneTypes'
  BY <1>1 DEF PaneInv, ToolInv, PaneTypes
<1>5. ToolInv'
  BY <1>1, <1>3, <1>4, NoTaskSteps DEF PaneInv, ToolInv, CallInv
<1>6. Panes!OneLiveCall'
  BY <1>1 DEF PaneInv, Panes!OneLiveCall
<1>7. QED
  BY <1>1, <1>2, <1>5, <1>6, ChildrenStand DEF PaneInv

\* What aborting a call leaves true.
LEMMA PaneAbortHolds ==
  ASSUME PaneInv, NEW r, paneCall' = Panes!Abort(r), HostInv', tui' = tui, Held' = Held, disposed' = disposed,
         UNCHANGED <<paneActive, paneChild, paneRow, cost, paneRuns, shutdown>>
  PROVE  PaneInv' /\ Panes!RunsOnce
<1>1. PaneTypes
  BY DEF PaneInv, ToolInv
<1>2. PaneTypes'
  BY <1>1, AbortTypes DEF PaneTypes
<1>3. ToolInv'
  BY <1>1, <1>2, AbortTypes, NoTaskSteps DEF PaneInv, ToolInv, CallInv
<1>4. Panes!OneLiveCall'
  <2>1. \A c \in ToolCalls : paneCall'[c].stage = paneCall[c].stage /\ (paneCall[c].aborted => paneCall'[c].aborted)
    BY <1>1, AbortTypes
  <2>2. QED
    BY <2>1 DEF PaneInv, Panes!OneLiveCall
<1>5. \A c \in ToolCalls : paneCall'[c].tasks = paneCall[c].tasks
  <2>1. ASSUME NEW c \in ToolCalls PROVE paneCall'[c].tasks = paneCall[c].tasks
    <3>1. paneCall'[c] = paneCall[c] \/ paneCall'[c] = [paneCall[c] EXCEPT !.aborted = TRUE]
      BY <1>1, AbortTypes
    <3>2. paneCall[c] \in PaneCalls
      BY <1>1 DEF PaneTypes
    <3>3. QED
      BY <3>1, <3>2 DEF PaneCalls
  <2>2. QED
    BY <2>1
<1>6. QED
  BY <1>3, <1>4, <1>5, ChildrenStand DEF PaneInv

LEMMA AborterHolds ==
  ASSUME PaneInv, Panes!AbortActive \/ \E c \in ToolCalls : Panes!CallerCancels(c)
  PROVE  PaneInv' /\ Panes!RunsOnce
<1>1. /\ UNCHANGED <<tui, paneActive, paneChild, paneRow, cost, paneRuns, disposed, ticking, console, mounted, shutdown, shutdowns>>
      /\ \E r : paneCall' = Panes!Abort(r)
  BY DEF Panes!AbortActive, Panes!CallerCancels
<1>2. Panes!NoHostStep
  BY <1>1 DEF Panes!NoHostStep
<1>3. HostInv' /\ Held' = Held
  BY <1>1, <1>2, StillHolds DEF PaneInv
<1>4. PICK r : paneCall' = Panes!Abort(r)
  BY <1>1
<1>5. QED
  BY <1>1, <1>3, <1>4, PaneAbortHolds

\* A shutdown ends every run, and then the call that is under way is aborted.
LEMMA ResetHolds == ASSUME PaneInv, Panes!ResetSession PROVE PaneInv' /\ Panes!RunsOnce
<1>1. /\ UNCHANGED <<tui, paneActive, paneCall, paneChild, paneRow, cost>>
      /\ shutdown' = "host" /\ mounted' = 0 /\ paneRuns' = <<>>
      /\ disposed' = disposed \cup Held /\ ticking' = ticking \ Held /\ console' = console \ Held
  BY DEF Panes!ResetSession, Held
<1>2. /\ paneRuns \in Seq(AllRuns) /\ ticking = Held /\ console \subseteq {Panes!Active(paneRuns)} \ {0}
      /\ disposed \subseteq AllRuns /\ tui \in BOOLEAN
  BY DEF PaneInv, HostInv, Panes!PanesFollowRuns, Held
<1>3. Held \subseteq AllRuns
  BY <1>2 DEF Held
<1>4. console \subseteq Held
  <2>1. CASE paneRuns = <<>>
    BY <2>1, <1>2, ActiveIsHeld
  <2>2. CASE paneRuns # <<>>
    BY <2>2, <1>2, ActiveIsHeld DEF Held
  <2>3. QED
    BY <2>1, <2>2
<1>5. Held' = {} /\ ticking' = {} /\ console' = {} /\ paneRuns' \in Seq(AllRuns) /\ DOMAIN paneRuns' = {}
  BY <1>1, <1>2, <1>4 DEF Held
<1>6. Panes!Active(paneRuns') = 0
  BY <1>1 DEF Panes!Active
<1>7. HostInv'
  <2>1. Panes!PanesFollowRuns'
    BY <1>1, <1>2, <1>5, <1>6 DEF Panes!PanesFollowRuns
  <2>2. QED
    BY <1>1, <1>2, <1>3, <1>5, <2>1 DEF HostInv, EachOnce
<1>8. PaneTypes'
  BY <1>1 DEF PaneInv, ToolInv, PaneTypes
<1>9. ToolInv'
  BY <1>1, <1>5, <1>8, NoTaskSteps DEF PaneInv, ToolInv, CallInv
<1>10. Panes!OneLiveCall'
  BY <1>1 DEF PaneInv, Panes!OneLiveCall
<1>11. QED
  BY <1>1, <1>7, <1>9, <1>10, ChildrenStand DEF PaneInv

LEMMA ShutdownHolds == ASSUME PaneInv, Panes!AbortOnShutdown PROVE PaneInv' /\ Panes!RunsOnce
<1>1. /\ UNCHANGED <<tui, paneChild, paneRow, cost, paneRuns, disposed, ticking, console, mounted>>
      /\ shutdown' = "no" /\ paneActive' = 0
      /\ paneCall' = IF paneActive = 0 THEN paneCall ELSE Panes!Abort(paneActive)
  BY DEF Panes!AbortOnShutdown
<1>2. PaneTypes /\ Panes!NoHostStep
  BY <1>1 DEF PaneInv, ToolInv, Panes!NoHostStep
<1>3. HostInv' /\ Held' = Held
  BY <1>1, <1>2, StillHolds DEF PaneInv
<1>4. /\ paneCall' \in [ToolCalls -> PaneCalls]
      /\ \A d \in ToolCalls : /\ paneCall'[d] = paneCall[d] \/ paneCall'[d] = [paneCall[d] EXCEPT !.aborted = TRUE]
                              /\ paneCall'[d].stage = paneCall[d].stage
                              /\ paneCall[d].aborted => paneCall'[d].aborted
                              /\ paneActive = d => paneCall'[d].aborted
  <2>1. 0 \notin ToolCalls
    BY PanesAssumption
  <2>2. CASE paneActive = 0
    BY <2>1, <2>2, <1>1, <1>2 DEF PaneTypes
  <2>3. CASE paneActive # 0
    BY <2>3, <1>1, <1>2, AbortTypes
  <2>4. QED
    BY <2>2, <2>3
<1>5. PaneTypes'
  BY <1>1, <1>2, <1>4 DEF PaneTypes
<1>6. ToolInv'
  BY <1>1, <1>3, <1>4, <1>5, NoTaskSteps DEF PaneInv, ToolInv, CallInv
<1>7. Panes!OneLiveCall'
  BY <1>1, <1>4 DEF PaneInv, Panes!OneLiveCall
<1>8. \A c \in ToolCalls : paneCall'[c].tasks = paneCall[c].tasks
  BY <1>2, <1>4 DEF PaneTypes, PaneCalls
<1>9. QED
  BY <1>1, <1>3, <1>6, <1>7, <1>8, ChildrenStand DEF PaneInv

\* Another extension's run is no call's.
LEMMA OtherHolds ==
  ASSUME PaneInv, NEW r \in OtherRuns, Panes!OtherStarts(r) \/ Panes!OtherEnds(r)
  PROVE  PaneInv' /\ Panes!RunsOnce
<1>1. UNCHANGED <<tui, paneActive, paneCall, paneChild, paneRow, cost, shutdown>>
  BY DEF Panes!OtherStarts, Panes!OtherEnds
<1>2. r \in AllRuns /\ r \notin ToolCalls
  BY PanesAssumption DEF AllRuns
<1>3. HostInv' /\ Held' \subseteq Held \cup {r} /\ disposed' \subseteq disposed \cup {r} /\ Held \subseteq Held' \cup {r}
  <2>1. CASE Panes!OtherStarts(r)
    <3>1. tui /\ r \notin disposed /\ r \notin Held /\ Panes!StartRun(r)
      BY <2>1 DEF Panes!OtherStarts, Held
    <3>2. HostInv' /\ Held \subseteq Held' /\ disposed' = disposed /\ paneRuns' = Append(paneRuns, r)
      BY <1>1, <1>2, <3>1, PaneStartHolds DEF PaneInv, Panes!StartRun
    <3>3. Held' \subseteq Held \cup {r}
      BY <3>2 DEF PaneInv, HostInv, Held
    <3>4. QED
      BY <3>2, <3>3
  <2>2. CASE Panes!OtherEnds(r)
    <3>1. Panes!DisposeRun(r)
      BY <2>2 DEF Panes!OtherEnds
    <3>2. QED
      BY <1>1, <1>2, <3>1, DisposeHolds DEF PaneInv
  <2>3. QED
    BY <2>1, <2>2
<1>4. PaneTypes'
  BY <1>1 DEF PaneInv, ToolInv, PaneTypes
<1>5. ToolInv'
  BY <1>1, <1>2, <1>3, <1>4, NoTaskSteps DEF PaneInv, ToolInv, CallInv
<1>6. Panes!OneLiveCall'
  <2>1. \A c \in ToolCalls : c \in Held => c \in Held'
    BY <1>2, <1>3
  <2>2. QED
    BY <1>1, <2>1 DEF PaneInv, Panes!OneLiveCall, Held
<1>7. QED
  BY <1>1, <1>3, <1>5, <1>6, ChildrenStand DEF PaneInv

LEMMA NoTasksRun == ASSUME NEW c \in ToolCalls, paneCall[c].tasks = 0 PROVE Panes!TasksOf(c) = {} /\ Panes!Running(c) = {}
<1>1. 1..0 = {}
  OBVIOUS
<1>2. QED
  BY <1>1 DEF Panes!TasksOf, Panes!Running

\* A call is refused while another is under way.
LEMMA RefusalHolds == ASSUME PaneInv, NEW c \in ToolCalls, Panes!Execute(c), paneActive # 0 PROVE PaneInv' /\ Panes!RunsOnce
<1>1. /\ UNCHANGED <<tui, paneActive, paneChild, paneRow, cost, shutdown, shutdowns>> /\ Panes!NoHostStep
      /\ paneCall' = [paneCall EXCEPT ![c].stage = "refused"] /\ paneCall[c].stage = "idle"
  BY DEF Panes!Execute
<1>2. HostInv' /\ Held' = Held /\ disposed' = disposed /\ UNCHANGED paneRuns
  BY <1>1, StillHolds DEF PaneInv, Panes!NoHostStep
<1>3. PaneTypes /\ CallInv(c) /\ paneCall[c].tasks = 0
  BY <1>1 DEF PaneInv, ToolInv, CallInv
<1>4. /\ paneCall'[c] = [paneCall[c] EXCEPT !.stage = "refused"] /\ paneCall[c] \in PaneCalls
      /\ \A d \in ToolCalls \ {c} : paneCall'[d] = paneCall[d]
  BY <1>1, <1>3 DEF PaneTypes
<1>5. /\ paneCall'[c] \in PaneCalls /\ paneCall'[c].stage = "refused" /\ paneCall'[c].tasks = 0
      /\ paneCall'[c].next = paneCall[c].next /\ paneCall'[c].limit = paneCall[c].limit
  BY <1>3, <1>4 DEF PaneCalls
<1>6. paneCall' \in [ToolCalls -> PaneCalls]
  BY <1>1, <1>3, <1>4, <1>5 DEF PaneTypes
<1>7. PaneTypes'
  BY <1>1, <1>3, <1>6 DEF PaneTypes
<1>8. Panes!TasksOf(c)' = {} /\ Panes!Running(c)' = {} /\ Panes!Running(c) = {}
  <2>1. 1..0 = {}
    OBVIOUS
  <2>2. QED
    BY <2>1, <1>3, <1>5 DEF Panes!TasksOf, Panes!Running
<1>9. CallInv(c)'
  BY <1>3, <1>5, <1>8 DEF CallInv
<1>10. \A i \in Panes!Tasks : TaskInv(c, i)'
  BY <1>1, <1>5, <1>8 DEF PaneInv, ToolInv, TaskInv
<1>11. ToolInv'
  BY <1>1, <1>2, <1>4, <1>7, <1>8, <1>9, <1>10, OneCallSteps DEF PaneInv, ToolInv, CallInv
<1>12. Panes!OneLiveCall'
  BY <1>1, <1>2, <1>4, <1>5 DEF PaneInv, Panes!OneLiveCall
<1>13. \A d \in ToolCalls : paneCall'[d].tasks = paneCall[d].tasks
  BY <1>3, <1>4, <1>5
<1>14. QED
  BY <1>1, <1>2, <1>11, <1>12, <1>13, ChildrenStand DEF PaneInv

\* A call starts: its run is shown, and its tasks are queued.
LEMMA PaneCallHolds == ASSUME PaneInv, NEW c \in ToolCalls, Panes!Execute(c), paneActive = 0 PROVE PaneInv' /\ Panes!RunsOnce
<1>1. PICK n \in 1..MaxTasks[c], k \in Panes!Tasks, cancelled \in BOOLEAN :
        /\ paneCall' = [paneCall EXCEPT ![c] = [stage |-> "running", aborted |-> cancelled, tasks |-> n,
                                                limit |-> Panes!Least(k, n), next |-> 1]]
        /\ paneRow' = IF tui THEN Panes!AddRow(c, n) ELSE paneRow
  BY DEF Panes!Execute
<1>2. /\ UNCHANGED <<tui, paneChild, cost, shutdown, shutdowns>> /\ paneActive' = c /\ shutdown = "no"
      /\ paneCall[c].stage = "idle" /\ IF tui THEN Panes!StartRun(c) ELSE Panes!NoHostStep
  BY DEF Panes!Execute
<1>3. PaneTypes /\ CallInv(c) /\ (\A i \in Panes!Tasks : TaskInv(c, i)) /\ tui \in BOOLEAN
  BY DEF PaneInv, ToolInv, HostInv
<1>4. HostInv' /\ Held \subseteq Held' /\ Held' \subseteq Held \cup {c} /\ disposed' = disposed /\ (tui => c \in Held')
  <2>1. c \in AllRuns /\ c \notin Held /\ c \notin disposed
    BY <1>2, <1>3 DEF AllRuns, CallInv
  <2>2. CASE tui
    <3>1. HostInv' /\ Held \subseteq Held' /\ c \in Held' /\ disposed' = disposed /\ paneRuns' = Append(paneRuns, c)
      BY <1>2, <2>1, <2>2, PaneStartHolds DEF PaneInv, Panes!StartRun
    <3>2. Held' \subseteq Held \cup {c}
      BY <3>1 DEF PaneInv, HostInv, Held
    <3>3. QED
      BY <3>1, <3>2
  <2>3. CASE ~tui
    BY <1>2, <2>3, StillHolds DEF PaneInv
  <2>4. QED
    BY <1>3, <2>2, <2>3
<1>5. n \in Nat /\ k \in Nat /\ 1 <= n /\ n <= MaxTasks[c] /\ MaxTasks[c] \in Nat /\ Panes!Least(k, n) \in Nat
  BY TasksAreNumbered, PanesAssumption DEF Panes!Least
<1>6. /\ paneCall'[c] = [stage |-> "running", aborted |-> cancelled, tasks |-> n, limit |-> Panes!Least(k, n), next |-> 1]
      /\ paneCall'[c] \in PaneCalls
      /\ \A d \in ToolCalls \ {c} : paneCall'[d] = paneCall[d]
  BY <1>1, <1>3, <1>5 DEF PaneTypes, PaneCalls
<1>7. paneCall' \in [ToolCalls -> PaneCalls]
  BY <1>1, <1>3, <1>6 DEF PaneTypes
<1>8. \A i \in Panes!Tasks : paneChild[c][i].state = "waiting" /\ paneChild'[c][i].state = "waiting"
  BY <1>2, <1>3 DEF TaskInv
<1>9. ASSUME tui
      PROVE  /\ paneRow' \in [ToolCalls -> [Panes!Tasks -> PaneRows]]
             /\ \A d \in ToolCalls \ {c} : paneRow'[d] = paneRow[d]
             /\ \A i \in Panes!Tasks : i <= n => paneRow'[c][i].status = "queued" /\ paneRow'[c][i].turns = 0 /\ paneRow'[c][i].cost = 0
  <2> DEFINE made == [i \in Panes!Tasks |-> IF i <= n THEN [paneRow[c][i] EXCEPT !.status = "queued"] ELSE paneRow[c][i]]
  <2>1. paneRow' = [paneRow EXCEPT ![c] = made] /\ paneRow \in [ToolCalls -> [Panes!Tasks -> PaneRows]]
    BY <1>1, <1>3, <1>9 DEF Panes!AddRow, PaneTypes
  <2>2. ASSUME NEW i \in Panes!Tasks
        PROVE  made[i] \in PaneRows /\ (i <= n => made[i].status = "queued" /\ made[i].turns = 0 /\ made[i].cost = 0)
    <3>1. paneRow[c][i] \in PaneRows /\ paneRow[c][i].turns = 0 /\ paneRow[c][i].cost = 0
      BY <1>2, <1>3, <2>1 DEF TaskInv
    <3>2. made[i] = IF i <= n THEN [paneRow[c][i] EXCEPT !.status = "queued"] ELSE paneRow[c][i]
      OBVIOUS
    <3>3. [paneRow[c][i] EXCEPT !.status = "queued"] \in PaneRows
      BY <3>1 DEF PaneRows
    <3> HIDE DEF made
    <3>4. QED
      BY <3>1, <3>2, <3>3 DEF PaneRows
  <2>3. made \in [Panes!Tasks -> PaneRows]
    BY <2>2
  <2> HIDE DEF made
  <2>4. QED
    BY <2>1, <2>2, <2>3
<1>10. PaneTypes'
  BY <1>1, <1>2, <1>3, <1>7, <1>9 DEF PaneTypes
<1>11. Panes!TasksOf(c)' = 1..n /\ 1..n \subseteq Panes!Tasks
  BY <1>5, <1>6, TasksAreNumbered DEF Panes!TasksOf
<1>12. Panes!Running(c)' = {} /\ Panes!Running(c) = {}
  <2>1. Panes!Running(c)' = {}
    BY <1>8, <1>11 DEF Panes!Running
  <2>2. Panes!Running(c) = {}
    BY <1>2, <1>3, NoTasksRun DEF CallInv
  <2>3. QED
    BY <2>1, <2>2
<1>13. CallInv(c)'
  <2>1. /\ paneCall'[c].stage = "running" /\ paneCall'[c].tasks = n
        /\ paneCall'[c].limit = Panes!Least(k, n) /\ paneCall'[c].next = 1
    BY <1>6
  <2>2. Panes!Least(k, n) >= 0 /\ Cardinality({}) = 0
    BY <1>5, FS_EmptySet
  <2>3. 1 \in 1..(n + 1)
    BY <1>5
  <2>4. QED
    BY <1>5, <1>12, <2>1, <2>2, <2>3 DEF CallInv
<1>14. \A i \in Panes!Tasks : TaskInv(c, i)'
  <2>1. ASSUME NEW i \in Panes!Tasks PROVE TaskInv(c, i)'
    <3>1. paneCall'[c].stage = "running" /\ paneCall'[c].next = 1
      BY <1>6
    <3>2. i \in Nat \ {0}
      BY TasksAreNumbered
    <3>3. ~(i < 1)
      BY <3>2
    <3>4. QED
      BY <1>2, <1>3, <1>8, <3>1, <3>3 DEF TaskInv
  <2>2. QED
    BY <2>1
<1>15. tui => \A i \in Panes!TasksOf(c)' : RowTells(c, i)'
  <2>1. ASSUME tui, NEW i \in 1..n PROVE RowTells(c, i)'
    <3>1. i \in Panes!Tasks /\ i <= n
      BY <1>5, <1>11
    <3>2. paneRow'[c][i].status = "queued" /\ paneRow'[c][i].turns = 0 /\ paneRow'[c][i].cost = 0
      BY <1>9, <2>1, <3>1
    <3>3. paneChild'[c][i].state = "waiting" /\ paneChild'[c][i].turns = 0 /\ cost'[c][i] = 0
      BY <1>2, <1>3, <1>8, <3>1 DEF TaskInv
    <3>4. QED
      BY <3>2, <3>3 DEF RowTells
  <2>2. QED
    BY <2>1, <1>11
<1>16. ToolInv'
  <2>1. ASSUME NEW d \in ToolCalls \ {c}
        PROVE  /\ paneCall'[d] = paneCall[d] /\ paneChild'[d] = paneChild[d]
               /\ paneRow'[d] = paneRow[d] /\ cost'[d] = cost[d]
               /\ paneCall[d].stage = "idle" => d \notin Held' /\ d \notin disposed'
    BY <1>1, <1>2, <1>3, <1>4, <1>6, <1>9 DEF PaneInv, ToolInv, CallInv
  <2>2. QED
    BY <1>2, <1>10, <1>13, <1>14, <1>15, <2>1, OneCallSteps DEF PaneInv
<1>17. Panes!OneLiveCall'
  <2>1. ASSUME NEW d \in ToolCalls \ {c} PROVE ~(paneCall'[d].stage = "running" /\ ~paneCall'[d].aborted)
    <3>1. d # 0
      BY PanesAssumption
    <3>2. QED
      BY <1>6, <3>1 DEF PaneInv, Panes!OneLiveCall
  <2>2. tui' => \E i \in DOMAIN paneRuns' : paneRuns'[i] = c
    BY <1>2, <1>4 DEF Held
  <2>3. QED
    BY <1>2, <2>1, <2>2 DEF Panes!OneLiveCall
<1>18. Panes!RunsOnce
  <2>1. ASSUME NEW d \in ToolCalls PROVE Panes!Running(d)' \subseteq Panes!Running(d)
    <3>1. CASE d = c
      BY <3>1, <1>12
    <3>2. CASE d # c
      BY <3>2, <1>2, <1>6 DEF Panes!Running, Panes!TasksOf
    <3>3. QED
      BY <3>1, <3>2
  <2>2. QED
    BY <1>2, <2>1 DEF Panes!RunsOnce
<1>19. QED
  BY <1>4, <1>16, <1>17, <1>18 DEF PaneInv

\* A task is taken in its turn, to run or, after an abort, not to.
LEMMA TakeHolds == ASSUME PaneInv, NEW c \in ToolCalls, Panes!TakeTask(c) PROVE PaneInv' /\ Panes!RunsOnce
<1> DEFINE t == paneCall[c].next
           s == IF paneCall[c].aborted THEN "aborted" ELSE "running"
<1>1. /\ UNCHANGED <<tui, paneActive, cost, shutdown, shutdowns>> /\ Panes!NoHostStep
      /\ paneCall[c].stage = "running" /\ t <= paneCall[c].tasks
      /\ Panes!Cardinality(Panes!Running(c)) < paneCall[c].limit
      /\ paneCall' = [paneCall EXCEPT ![c].next = t + 1]
      /\ paneChild' = [paneChild EXCEPT ![c][t].state = s]
      /\ paneRow' = IF tui THEN IF paneCall[c].aborted THEN Panes!Complete(c, t, "aborted", 0) ELSE Panes!MarkRunning(c, t)
                    ELSE paneRow
  BY DEF Panes!TakeTask
<1>2. HostInv' /\ Held' = Held /\ disposed' = disposed /\ UNCHANGED paneRuns
  BY <1>1, StillHolds DEF PaneInv, Panes!NoHostStep
<1>3. PaneTypes /\ CallInv(c) /\ (\A i \in Panes!Tasks : TaskInv(c, i)) /\ tui \in BOOLEAN
  BY DEF PaneInv, ToolInv, HostInv
<1>4. paneCall[c] \in PaneCalls /\ paneChild[c] \in [Panes!Tasks -> PaneChildren] /\ paneRow[c] \in [Panes!Tasks -> PaneRows]
      /\ cost[c] \in [Panes!Tasks -> Nat]
  BY <1>3 DEF PaneTypes
<1>5. t \in Nat /\ paneCall[c].tasks \in Nat /\ 1 <= t /\ t \in Panes!TasksOf(c) /\ t \in Panes!Tasks
      /\ Panes!TasksOf(c) = 1..paneCall[c].tasks /\ Panes!TasksOf(c) \subseteq Panes!Tasks
  <2>1. Panes!TasksOf(c) = 1..paneCall[c].tasks /\ Panes!TasksOf(c) \subseteq Panes!Tasks
    BY <1>3, TasksOfCall
  <2>2. t \in Nat /\ paneCall[c].tasks \in Nat /\ 1 <= t
    BY <1>3, <1>4 DEF PaneCalls, CallInv
  <2>3. QED
    BY <1>1, <2>1, <2>2
<1> HIDE DEF t
<1>6. /\ paneCall'[c] = [paneCall[c] EXCEPT !.next = t + 1] /\ \A d \in ToolCalls \ {c} : paneCall'[d] = paneCall[d]
  BY <1>1, <1>3 DEF PaneTypes
<1>7. /\ paneCall'[c] \in PaneCalls /\ paneCall'[c].stage = "running" /\ paneCall'[c].tasks = paneCall[c].tasks
      /\ paneCall'[c].next = t + 1 /\ paneCall'[c].limit = paneCall[c].limit /\ paneCall'[c].aborted = paneCall[c].aborted
  <2>1. paneCall[c] \in PaneCalls /\ paneCall[c].stage = "running" /\ t + 1 \in Nat
    BY <1>1, <1>4, <1>5
  <2>2. QED
    BY <1>6, <2>1 DEF PaneCalls
<1>8. s \in PaneStates /\ s # "waiting" /\ (s = "running" => ~paneCall[c].aborted)
  BY DEF PaneStates, Panes!Ended
<1> HIDE DEF s
<1>9. /\ paneChild'[c] = [paneChild[c] EXCEPT ![t].state = s] /\ \A d \in ToolCalls \ {c} : paneChild'[d] = paneChild[d]
  BY <1>1, <1>3 DEF PaneTypes
<1>10. /\ \A i \in Panes!Tasks : i # t => paneChild'[c][i] = paneChild[c][i]
       /\ paneChild'[c][t] = [paneChild[c][t] EXCEPT !.state = s] /\ paneChild[c][t] \in PaneChildren
  BY <1>4, <1>5, <1>9
<1>11. paneChild'[c][t].state = s /\ paneChild'[c][t].turns = paneChild[c][t].turns /\ paneChild'[c][t] \in PaneChildren
  BY <1>8, <1>10 DEF PaneChildren
<1>12. paneChild[c][t].state = "waiting" /\ paneChild[c][t].turns = 0
  <2>1. ~(t < paneCall[c].next)
    BY <1>5 DEF t
  <2>2. QED
    BY <2>1, <1>3, <1>5 DEF TaskInv
<1>13. ASSUME tui
       PROVE  /\ paneRow' \in [ToolCalls -> [Panes!Tasks -> PaneRows]]
              /\ \A d \in ToolCalls \ {c} : paneRow'[d] = paneRow[d]
              /\ \A i \in Panes!Tasks : i # t => paneRow'[c][i] = paneRow[c][i]
              /\ paneRow'[c][t].status = s /\ paneRow'[c][t].turns = 0 /\ paneRow'[c][t].cost = cost[c][t]
  <2>1. /\ paneRow[c][t] \in PaneRows /\ paneRow \in [ToolCalls -> [Panes!Tasks -> PaneRows]]
        /\ paneRow[c][t].turns = 0 /\ paneRow[c][t].cost = cost[c][t] /\ cost[c][t] \in Nat
    <3>1. RowTells(c, t)
      BY <1>5, <1>13 DEF PaneInv, ToolInv
    <3>2. QED
      BY <3>1, <1>3, <1>4, <1>5, <1>12 DEF RowTells, PaneTypes
  <2>2. PICK x \in PaneRows : /\ paneRow' = [paneRow EXCEPT ![c][t] = x]
                              /\ x.status = s /\ x.turns = 0 /\ x.cost = cost[c][t]
    <3>1. CASE paneCall[c].aborted
      <4> DEFINE x == [status |-> "aborted", turns |-> 0, cost |-> cost[c][t]]
      <4>1. x \in PaneRows
        BY <2>1 DEF PaneRows, PaneStates, Panes!Ended
      <4>2. paneRow' = [paneRow EXCEPT ![c][t] = x]
        BY <1>1, <1>13, <3>1 DEF Panes!Complete
      <4>3. QED
        BY <4>1, <4>2, <3>1 DEF s
    <3>2. CASE ~paneCall[c].aborted
      <4> DEFINE x == [paneRow[c][t] EXCEPT !.status = "running"]
      <4>1. x \in PaneRows /\ x.status = "running" /\ x.turns = 0 /\ x.cost = cost[c][t]
        BY <2>1 DEF PaneRows, PaneStates
      <4>2. paneRow' = [paneRow EXCEPT ![c][t].status = "running"]
        BY <1>1, <1>13, <3>2 DEF Panes!MarkRunning
      <4>3. paneRow' = [paneRow EXCEPT ![c][t] = x]
        BY <4>2
      <4> HIDE DEF x
      <4>4. QED
        BY <4>1, <4>3, <3>2 DEF s
    <3>3. QED
      BY <3>1, <3>2
  <2>3. QED
    BY <2>1, <2>2, <1>4, <1>5
<1>14. PaneTypes'
  <2>1. paneCall' \in [ToolCalls -> PaneCalls]
    BY <1>1, <1>3, <1>6, <1>7 DEF PaneTypes
  <2>2. paneChild' \in [ToolCalls -> [Panes!Tasks -> PaneChildren]]
    <3>1. paneChild'[c] \in [Panes!Tasks -> PaneChildren]
      BY <1>4, <1>9, <1>10, <1>11
    <3>2. QED
      BY <1>1, <1>3, <1>9, <3>1 DEF PaneTypes
  <2>3. paneRow' \in [ToolCalls -> [Panes!Tasks -> PaneRows]]
    BY <1>1, <1>3, <1>13 DEF PaneTypes
  <2>4. QED
    BY <1>1, <1>3, <2>1, <2>2, <2>3 DEF PaneTypes
<1>15. Panes!TasksOf(c)' = Panes!TasksOf(c)
  BY <1>7 DEF Panes!TasksOf
<1>16. Panes!Running(c)' = Panes!Running(c) \cup (IF s = "running" THEN {t} ELSE {})
  BY <1>5, <1>10, <1>11, <1>12, <1>15 DEF Panes!Running
<1>17. CallInv(c)'
  <2>1. Cardinality(Panes!Running(c)') <= paneCall[c].limit
    <3>1. IsFiniteSet(Panes!Running(c)) /\ Cardinality(Panes!Running(c)) \in Nat /\ Cardinality(Panes!Running(c)) < paneCall[c].limit
      BY <1>1, <1>3, RunningIsFinite, PaneCounts
    <3>2. paneCall[c].limit \in Nat
      BY <1>4 DEF PaneCalls
    <3>3. t \notin Panes!Running(c)
      BY <1>12 DEF Panes!Running
    <3>4. Cardinality(Panes!Running(c) \cup {t}) = Cardinality(Panes!Running(c)) + 1
      BY <3>1, <3>3, FS_AddElement
    <3>5. CASE s = "running"
      BY <3>1, <3>2, <3>4, <3>5, <1>16
    <3>6. CASE s # "running"
      <4>1. Panes!Running(c)' = Panes!Running(c)
        BY <3>6, <1>16
      <4>2. QED
        BY <4>1, <3>1, <3>2
    <3>7. QED
      BY <3>5, <3>6
  <2>2. t + 1 \in 1..(paneCall[c].tasks + 1)
    BY <1>1, <1>5
  <2>3. QED
    BY <1>3, <1>7, <2>1, <2>2 DEF CallInv
<1>18. ASSUME NEW i \in Panes!Tasks PROVE TaskInv(c, i)'
  <2>1. CASE i = t
    <3>1. t < t + 1
      BY <1>5
    <3>2. QED
      BY <2>1, <3>1, <1>7, <1>8, <1>11 DEF TaskInv
  <2>2. CASE i # t
    <3>1. TaskInv(c, i) /\ i \in Nat
      BY <1>3, TasksAreNumbered
    <3>2. i < t + 1 <=> i < t
      BY <3>1, <2>2, <1>5
    <3>3. QED
      BY <2>2, <3>1, <3>2, <1>7, <1>10, <1>15 DEF TaskInv, t
  <2>3. QED
    BY <2>1, <2>2
<1>19. tui => \A i \in Panes!TasksOf(c)' : RowTells(c, i)'
  <2>1. ASSUME tui, NEW i \in Panes!TasksOf(c) PROVE RowTells(c, i)'
    <3>1. CASE i = t
      BY <2>1, <3>1, <1>1, <1>8, <1>11, <1>12, <1>13 DEF RowTells
    <3>2. CASE i # t
      <4>1. RowTells(c, i) /\ i \in Panes!Tasks
        BY <2>1, <1>5 DEF PaneInv, ToolInv
      <4>2. QED
        BY <4>1, <3>2, <2>1, <1>1, <1>10, <1>13 DEF RowTells
    <3>3. QED
      BY <3>1, <3>2
  <2>2. QED
    BY <2>1, <1>15
<1>20. ToolInv'
  <2>1. ASSUME NEW d \in ToolCalls \ {c}
        PROVE  /\ paneCall'[d] = paneCall[d] /\ paneChild'[d] = paneChild[d]
               /\ paneRow'[d] = paneRow[d] /\ cost'[d] = cost[d]
               /\ paneCall[d].stage = "idle" => d \notin Held' /\ d \notin disposed'
    BY <1>1, <1>2, <1>3, <1>6, <1>9, <1>13 DEF PaneInv, ToolInv, CallInv
  <2>2. QED
    BY <1>1, <1>14, <1>17, <1>18, <1>19, <2>1, OneCallSteps DEF PaneInv
<1>21. Panes!OneLiveCall'
  <2>1. \A d \in ToolCalls : paneCall'[d].stage = paneCall[d].stage /\ paneCall'[d].aborted = paneCall[d].aborted
    BY <1>1, <1>6, <1>7
  <2>2. QED
    BY <1>1, <1>2, <2>1 DEF PaneInv, Panes!OneLiveCall
<1>22. Panes!RunsOnce
  <2>1. ASSUME NEW d \in ToolCalls, NEW i \in Panes!Tasks
        PROVE  /\ paneChild[d][i].state \in Panes!Ended => paneChild'[d][i] = paneChild[d][i]
               /\ i \in Panes!Running(d)' \ Panes!Running(d) => ~paneCall[d].aborted
    <3>1. CASE d = c
      BY <3>1, <1>8, <1>10, <1>12, <1>16 DEF Panes!Ended
    <3>2. CASE d # c
      BY <3>2, <1>6, <1>9 DEF Panes!Running, Panes!TasksOf
    <3>3. QED
      BY <3>1, <3>2
  <2>2. QED
    BY <2>1 DEF Panes!RunsOnce
<1>23. QED
  BY <1>2, <1>20, <1>21, <1>22 DEF PaneInv

\* A child that runs becomes x, and the dashboard is told y, with the cost z.
ChildSteps(c, t, x, y, z) ==
  /\ t \in Panes!Running(c) /\ Panes!NoHostStep /\ UNCHANGED <<tui, paneActive, paneCall, shutdown>>
  /\ x \in PaneChildren /\ x.state \in {"running"} \cup Panes!Ended
  /\ paneChild' = [paneChild EXCEPT ![c][t] = x]
  /\ y \in PaneRows /\ z \in Nat /\ y.status = x.state /\ y.turns = x.turns /\ y.cost = z
  /\ tui => paneRow' = [paneRow EXCEPT ![c][t] = y] /\ cost' = [cost EXCEPT ![c][t] = z]
  /\ ~tui => UNCHANGED <<paneRow, cost>>

\* A child that runs ends a turn or ends, and the dashboard is told.
LEMMA ChildMoves ==
  ASSUME PaneInv, NEW c \in ToolCalls, NEW t, NEW x, NEW y, NEW z, ChildSteps(c, t, x, y, z)
  PROVE  PaneInv' /\ Panes!RunsOnce
<1>0. /\ t \in Panes!Running(c) /\ Panes!NoHostStep /\ UNCHANGED <<tui, paneActive, paneCall, shutdown>>
      /\ x \in PaneChildren /\ x.state \in {"running"} \cup Panes!Ended
      /\ paneChild' = [paneChild EXCEPT ![c][t] = x]
      /\ y \in PaneRows /\ z \in Nat /\ y.status = x.state /\ y.turns = x.turns /\ y.cost = z
      /\ tui => paneRow' = [paneRow EXCEPT ![c][t] = y] /\ cost' = [cost EXCEPT ![c][t] = z]
      /\ ~tui => UNCHANGED <<paneRow, cost>>
  BY DEF ChildSteps
<1>1. HostInv' /\ Held' = Held /\ disposed' = disposed /\ UNCHANGED paneRuns
  BY <1>0, StillHolds DEF PaneInv, Panes!NoHostStep
<1>2. PaneTypes /\ CallInv(c) /\ (\A i \in Panes!Tasks : TaskInv(c, i)) /\ tui \in BOOLEAN
  BY <1>0 DEF PaneInv, ToolInv, HostInv
<1>3. paneCall[c] \in PaneCalls /\ paneChild[c] \in [Panes!Tasks -> PaneChildren] /\ paneRow[c] \in [Panes!Tasks -> PaneRows]
      /\ cost[c] \in [Panes!Tasks -> Nat]
  BY <1>0, <1>2 DEF PaneTypes
<1>4. t \in Panes!TasksOf(c) /\ t \in Panes!Tasks /\ Panes!TasksOf(c) \subseteq Panes!Tasks /\ paneChild[c][t].state = "running"
  BY <1>0, <1>2, TasksOfCall DEF Panes!Running
<1>5. x.state \in PaneStates /\ x.state # "waiting"
  BY <1>0 DEF PaneStates, Panes!Ended
<1>6. paneCall[c].stage \notin {"idle", "returned"}
  <2>1. Panes!Running(c) # {}
    BY <1>0
  <2>2. QED
    BY <1>0, <2>1, <1>2, <1>4 DEF CallInv, TaskInv
<1>7. /\ paneChild'[c] = [paneChild[c] EXCEPT ![t] = x] /\ \A d \in ToolCalls \ {c} : paneChild'[d] = paneChild[d]
      /\ \A i \in Panes!Tasks : i # t => paneChild'[c][i] = paneChild[c][i]
      /\ paneChild'[c][t] = x /\ paneChild' \in [ToolCalls -> [Panes!Tasks -> PaneChildren]]
  BY <1>0, <1>2, <1>3, <1>4 DEF PaneTypes
<1>8. ASSUME tui
      PROVE  /\ paneRow' \in [ToolCalls -> [Panes!Tasks -> PaneRows]] /\ cost' \in [ToolCalls -> [Panes!Tasks -> Nat]]
             /\ \A d \in ToolCalls \ {c} : paneRow'[d] = paneRow[d] /\ cost'[d] = cost[d]
             /\ \A i \in Panes!Tasks : i # t => paneRow'[c][i] = paneRow[c][i] /\ cost'[c][i] = cost[c][i]
             /\ paneRow'[c][t] = y /\ cost'[c][t] = z
  <2>1. /\ paneRow' \in [ToolCalls -> [Panes!Tasks -> PaneRows]]
        /\ \A d \in ToolCalls \ {c} : paneRow'[d] = paneRow[d]
        /\ \A i \in Panes!Tasks : i # t => paneRow'[c][i] = paneRow[c][i]
        /\ paneRow'[c][t] = y
    <3>1. paneRow' = [paneRow EXCEPT ![c][t] = y] /\ paneRow \in [ToolCalls -> [Panes!Tasks -> PaneRows]]
      BY <1>0, <1>8, <1>2 DEF PaneTypes
    <3>2. QED
      BY <1>0, <3>1, <1>3, <1>4
  <2>2. /\ cost' \in [ToolCalls -> [Panes!Tasks -> Nat]]
        /\ \A d \in ToolCalls \ {c} : cost'[d] = cost[d]
        /\ \A i \in Panes!Tasks : i # t => cost'[c][i] = cost[c][i]
        /\ cost'[c][t] = z
    <3>1. cost' = [cost EXCEPT ![c][t] = z] /\ cost \in [ToolCalls -> [Panes!Tasks -> Nat]]
      BY <1>0, <1>8, <1>2 DEF PaneTypes
    <3>2. QED
      BY <1>0, <3>1, <1>3, <1>4
  <2>3. QED
    BY <1>0, <2>1, <2>2
<1>9. PaneTypes'
  BY <1>0, <1>2, <1>7, <1>8 DEF PaneTypes
<1>10. Panes!TasksOf(c)' = Panes!TasksOf(c)
  BY <1>0 DEF Panes!TasksOf
<1>11. Panes!Running(c)' \subseteq Panes!Running(c)
  BY <1>0, <1>4, <1>7, <1>10 DEF Panes!Running
<1>12. CallInv(c)'
  <2>1. Cardinality(Panes!Running(c)') <= Cardinality(Panes!Running(c)) /\ Cardinality(Panes!Running(c)') \in Nat
        /\ Cardinality(Panes!Running(c)) \in Nat
    BY <1>0, <1>2, <1>11, RunningIsFinite, FS_Subset, FS_CardinalityType
  <2>2. paneCall[c].limit \in Nat
    BY <1>0, <1>3 DEF PaneCalls
  <2>3. Cardinality(Panes!Running(c)') <= paneCall[c].limit
    BY <1>0, <1>2, <2>1, <2>2 DEF CallInv
  <2>4. QED
    BY <1>0, <1>1, <1>2, <1>6, <2>3 DEF CallInv
<1>13. ASSUME NEW i \in Panes!Tasks PROVE TaskInv(c, i)'
  <2>1. TaskInv(c, i)
    BY <1>0, <1>2
  <2>2. CASE i = t
    BY <1>0, <2>1, <2>2, <1>4, <1>5, <1>6, <1>7, <1>10 DEF TaskInv
  <2>3. CASE i # t
    BY <1>0, <2>1, <2>3, <1>6, <1>7, <1>10 DEF TaskInv
  <2>4. QED
    BY <1>0, <2>2, <2>3
<1>14. tui => \A i \in Panes!TasksOf(c)' : RowTells(c, i)'
  <2>1. ASSUME tui, NEW i \in Panes!TasksOf(c) PROVE RowTells(c, i)'
    <3>1. CASE i = t
      BY <1>0, <2>1, <3>1, <1>5, <1>7, <1>8 DEF RowTells
    <3>2. CASE i # t
      <4>1. RowTells(c, i) /\ i \in Panes!Tasks
        BY <1>0, <2>1, <1>4 DEF PaneInv, ToolInv
      <4>2. QED
        BY <1>0, <4>1, <3>2, <2>1, <1>7, <1>8 DEF RowTells
    <3>3. QED
      BY <1>0, <3>1, <3>2
  <2>2. QED
    BY <1>0, <2>1, <1>10
<1>15. ToolInv'
  <2>1. ASSUME NEW d \in ToolCalls \ {c}
        PROVE  /\ paneCall'[d] = paneCall[d] /\ paneChild'[d] = paneChild[d]
               /\ paneRow'[d] = paneRow[d] /\ cost'[d] = cost[d]
               /\ paneCall[d].stage = "idle" => d \notin Held' /\ d \notin disposed'
    BY <1>0, <1>1, <1>2, <1>7, <1>8 DEF PaneInv, ToolInv, CallInv
  <2>2. QED
    BY <1>0, <1>9, <1>12, <1>13, <1>14, <2>1, OneCallSteps DEF PaneInv
<1>16. Panes!OneLiveCall'
  BY <1>0, <1>1 DEF PaneInv, Panes!OneLiveCall
<1>17. Panes!RunsOnce
  <2>1. ASSUME NEW d \in ToolCalls, NEW i \in Panes!Tasks
        PROVE  /\ paneChild[d][i].state \in Panes!Ended => paneChild'[d][i] = paneChild[d][i]
               /\ i \in Panes!Running(d)' \ Panes!Running(d) => ~paneCall[d].aborted
    <3>1. CASE d = c
      BY <1>0, <3>1, <1>4, <1>7, <1>11 DEF Panes!Ended
    <3>2. CASE d # c
      BY <1>0, <3>2, <1>7 DEF Panes!Running, Panes!TasksOf
    <3>3. QED
      BY <1>0, <3>1, <3>2
  <2>2. QED
    BY <1>0, <2>1 DEF Panes!RunsOnce
<1>18. QED
  BY <1>0, <1>1, <1>15, <1>16, <1>17 DEF PaneInv

LEMMA PaneTurnHolds ==
  ASSUME PaneInv, NEW c \in ToolCalls, NEW t \in Panes!Tasks, Panes!ChildTurns(c, t)
  PROVE  PaneInv' /\ Panes!RunsOnce
<1> DEFINE k == paneChild[c][t].turns + 1
           z == cost[c][t] + 1
<1>1. /\ t \in Panes!Running(c) /\ Panes!NoHostStep /\ UNCHANGED <<tui, paneActive, paneCall, shutdown>>
      /\ paneChild' = [paneChild EXCEPT ![c][t].turns = k]
      /\ IF tui THEN cost' = [cost EXCEPT ![c][t] = z] /\ paneRow' = Panes!Progress(c, t, k, z) ELSE UNCHANGED <<cost, paneRow>>
  BY DEF Panes!ChildTurns
<1>2. PaneTypes /\ CallInv(c) /\ tui \in BOOLEAN
  BY DEF PaneInv, ToolInv, HostInv
<1>3. paneChild[c][t] \in PaneChildren /\ cost[c][t] \in Nat
  BY <1>2 DEF PaneTypes
<1>4. k \in Nat /\ z \in Nat
  BY <1>3 DEF PaneChildren
<1> HIDE DEF k, z
<1> DEFINE x == [paneChild[c][t] EXCEPT !.turns = k]
           y == [status |-> "running", turns |-> k, cost |-> z]
<1>5. paneChild[c][t].state = "running" /\ t \in Panes!TasksOf(c)
  BY <1>1 DEF Panes!Running
<1>6. x \in PaneChildren /\ x.state = "running" /\ x.turns = k
  BY <1>3, <1>4, <1>5 DEF PaneChildren
<1>7. y \in PaneRows /\ y.status = "running" /\ y.turns = k /\ y.cost = z
  BY <1>4 DEF PaneRows, PaneStates
<1>8. paneChild' = [paneChild EXCEPT ![c][t] = x]
  BY <1>1
<1>9. tui => paneRow' = [paneRow EXCEPT ![c][t] = y]
  <2>1. ASSUME tui PROVE paneRow[c][t].status = "running"
    <3>1. RowTells(c, t)
      BY <2>1, <1>5 DEF PaneInv, ToolInv
    <3>2. QED
      BY <3>1, <1>5 DEF RowTells
  <2>2. QED
    BY <1>1, <2>1 DEF Panes!Progress
<1> HIDE DEF x, y
<1>10. x.state \in {"running"} \cup Panes!Ended /\ y.status = x.state /\ y.turns = x.turns
  BY <1>6, <1>7
<1>11. /\ tui => paneRow' = [paneRow EXCEPT ![c][t] = y] /\ cost' = [cost EXCEPT ![c][t] = z]
       /\ ~tui => UNCHANGED <<paneRow, cost>>
  BY <1>1, <1>9
<1>12. x \in PaneChildren /\ y \in PaneRows /\ y.cost = z
  BY <1>6, <1>7
<1>13. ChildSteps(c, t, x, y, z)
  BY <1>1, <1>4, <1>8, <1>10, <1>11, <1>12 DEF ChildSteps
<1>14. QED
  BY <1>13, ChildMoves

LEMMA PaneEndHolds ==
  ASSUME PaneInv, NEW c \in ToolCalls, NEW t \in Panes!Tasks, Panes!ChildEnds(c, t)
  PROVE  PaneInv' /\ Panes!RunsOnce
<1>1. PICK s \in Panes!Ended : /\ paneChild' = [paneChild EXCEPT ![c][t].state = s]
                               /\ paneRow' = IF tui THEN Panes!Complete(c, t, s, paneChild[c][t].turns) ELSE paneRow
  BY DEF Panes!ChildEnds, Panes!Ended
<1>2. t \in Panes!Running(c) /\ Panes!NoHostStep /\ UNCHANGED <<tui, paneActive, paneCall, shutdown, cost>>
  BY DEF Panes!ChildEnds
<1>3. PaneTypes /\ tui \in BOOLEAN
  BY DEF PaneInv, ToolInv, HostInv
<1>4. paneChild[c][t] \in PaneChildren /\ cost[c][t] \in Nat /\ paneChild[c][t].turns \in Nat /\ s \in PaneStates
      /\ cost \in [ToolCalls -> [Panes!Tasks -> Nat]]
  BY <1>3 DEF PaneTypes, PaneChildren, PaneStates
<1> DEFINE x == [paneChild[c][t] EXCEPT !.state = s]
           y == [status |-> s, turns |-> paneChild[c][t].turns, cost |-> cost[c][t]]
<1>5. x \in PaneChildren /\ x.state = s /\ x.turns = paneChild[c][t].turns
  BY <1>4 DEF PaneChildren
<1>6. y \in PaneRows /\ y.status = s /\ y.turns = paneChild[c][t].turns /\ y.cost = cost[c][t]
  BY <1>4 DEF PaneRows
<1>7. paneChild' = [paneChild EXCEPT ![c][t] = x]
  BY <1>1
<1>8. (tui => paneRow' = [paneRow EXCEPT ![c][t] = y]) /\ (~tui => paneRow' = paneRow)
  BY <1>1 DEF Panes!Complete
<1>9. cost' = [cost EXCEPT ![c][t] = cost[c][t]]
  BY <1>2, <1>4
<1> HIDE DEF x, y
<1>10. x.state \in {"running"} \cup Panes!Ended /\ y.status = x.state /\ y.turns = x.turns
  BY <1>5, <1>6
<1>11. /\ tui => paneRow' = [paneRow EXCEPT ![c][t] = y] /\ cost' = [cost EXCEPT ![c][t] = cost[c][t]]
       /\ ~tui => UNCHANGED <<paneRow, cost>>
  BY <1>2, <1>8, <1>9
<1>12. x \in PaneChildren /\ y \in PaneRows /\ y.cost = cost[c][t] /\ cost[c][t] \in Nat
  BY <1>4, <1>5, <1>6
<1>13. ChildSteps(c, t, x, y, cost[c][t])
  BY <1>2, <1>7, <1>10, <1>11, <1>12 DEF ChildSteps
<1>14. QED
  BY <1>13, ChildMoves

\* A call returns with every task over; its run goes, and no other.
LEMMA PaneReturnHolds == ASSUME PaneInv, NEW c \in ToolCalls, Panes!Return(c) PROVE PaneInv' /\ Panes!RunsOnce
<1>1. /\ UNCHANGED <<tui, paneChild, paneRow, cost, shutdown, shutdowns>>
      /\ paneCall[c].stage = "running" /\ paneCall[c].next > paneCall[c].tasks /\ Panes!Running(c) = {}
      /\ paneCall' = [paneCall EXCEPT ![c].stage = "returned"]
      /\ paneActive' = IF paneActive = c THEN 0 ELSE paneActive
      /\ IF tui THEN Panes!DisposeRun(c) ELSE Panes!NoHostStep
  BY DEF Panes!Return
<1>2. PaneTypes /\ CallInv(c) /\ tui \in BOOLEAN
  BY DEF PaneInv, ToolInv, HostInv
<1>3. HostInv' /\ Held' \subseteq Held /\ Held \subseteq Held' \cup {c} /\ disposed' \subseteq disposed \cup {c}
  <2>1. CASE tui
    BY <1>1, <2>1, DisposeHolds DEF PaneInv, AllRuns
  <2>2. CASE ~tui
    BY <1>1, <2>2, StillHolds DEF PaneInv
  <2>3. QED
    BY <1>2, <2>1, <2>2
<1>4. /\ paneCall'[c] = [paneCall[c] EXCEPT !.stage = "returned"] /\ paneCall[c] \in PaneCalls
      /\ \A d \in ToolCalls \ {c} : paneCall'[d] = paneCall[d]
  BY <1>1, <1>2 DEF PaneTypes
<1>5. /\ paneCall'[c] \in PaneCalls /\ paneCall'[c].stage = "returned" /\ paneCall'[c].tasks = paneCall[c].tasks
      /\ paneCall'[c].next = paneCall[c].next /\ paneCall'[c].limit = paneCall[c].limit
  BY <1>4 DEF PaneCalls
<1>6. PaneTypes'
  <2>1. paneCall' \in [ToolCalls -> PaneCalls]
    BY <1>1, <1>2, <1>4, <1>5 DEF PaneTypes
  <2>2. QED
    BY <1>1, <1>2, <2>1 DEF PaneTypes
<1>7. Panes!TasksOf(c)' = Panes!TasksOf(c) /\ Panes!Running(c)' = Panes!Running(c)
  BY <1>1, <1>5 DEF Panes!TasksOf, Panes!Running
<1>8. CallInv(c)'
  BY <1>1, <1>2, <1>5, <1>7 DEF CallInv
<1>9. \A i \in Panes!Tasks : TaskInv(c, i)'
  BY <1>1, <1>5, <1>7 DEF PaneInv, ToolInv, TaskInv
<1>10. tui => \A i \in Panes!TasksOf(c)' : RowTells(c, i)'
  <2>1. ASSUME tui, NEW i \in Panes!TasksOf(c) PROVE RowTells(c, i)'
    <3>1. RowTells(c, i)
      BY <2>1 DEF PaneInv, ToolInv
    <3>2. QED
      BY <3>1, <1>1 DEF RowTells
  <2>2. QED
    BY <2>1, <1>7
<1>11. ToolInv'
  <2>1. ASSUME NEW d \in ToolCalls \ {c}
        PROVE  /\ paneCall'[d] = paneCall[d] /\ paneChild'[d] = paneChild[d]
               /\ paneRow'[d] = paneRow[d] /\ cost'[d] = cost[d]
               /\ paneCall[d].stage = "idle" => d \notin Held' /\ d \notin disposed'
    BY <1>1, <1>3, <1>4 DEF PaneInv, ToolInv, CallInv
  <2>2. QED
    BY <1>1, <1>6, <1>8, <1>9, <1>10, <2>1, OneCallSteps DEF PaneInv
<1>12. Panes!OneLiveCall'
  <2>1. ASSUME NEW d \in ToolCalls \ {c}, paneCall'[d].stage = "running", ~paneCall'[d].aborted
        PROVE  paneActive' = d /\ (tui' /\ shutdown' = "no" => \E i \in DOMAIN paneRuns' : paneRuns'[i] = d)
    <3>1. paneActive = d /\ (tui /\ shutdown = "no" => d \in Held)
      BY <1>4, <2>1 DEF PaneInv, Panes!OneLiveCall, Held
    <3>2. d \in Held => d \in Held'
      BY <1>3
    <3>3. QED
      BY <1>1, <3>1, <3>2 DEF Held
  <2>2. QED
    BY <1>5, <2>1 DEF Panes!OneLiveCall
<1>13. \A d \in ToolCalls : paneCall'[d].tasks = paneCall[d].tasks
  BY <1>4, <1>5
<1>14. QED
  BY <1>1, <1>3, <1>11, <1>12, <1>13, ChildrenStand DEF PaneInv

LEMMA PaneHolds == ASSUME PaneInv, [Panes!Next]_paneVars PROVE PaneInv' /\ Panes!RunsOnce
<1>1. CASE UNCHANGED paneVars
  <2>1. UNCHANGED <<tui, paneActive, paneCall, paneChild, paneRow, cost, paneRuns, disposed, ticking, console, mounted, shutdown>>
    BY <1>1 DEF paneVars
  <2>2. HostInv'
    BY <2>1 DEF PaneInv, HostInv, Panes!PanesFollowRuns, EachOnce
  <2>3. Held' = Held
    BY <2>1 DEF Held
  <2>4. PaneTypes'
    BY <2>1 DEF PaneInv, ToolInv, PaneTypes
  <2>5. ToolInv'
    BY <2>1, <2>3, <2>4, NoTaskSteps DEF PaneInv, ToolInv, CallInv
  <2>6. Panes!OneLiveCall'
    BY <2>1 DEF PaneInv, Panes!OneLiveCall
  <2>7. QED
    BY <2>1, <2>2, <2>5, <2>6, ChildrenStand DEF PaneInv
<1>2. CASE Panes!Host
  <2>1. CASE Panes!OpenActive \/ Panes!ConsoleCloses
    BY <2>1, PaneLookHolds
  <2>2. CASE Panes!AbortActive
    BY <2>2, AborterHolds
  <2>3. CASE Panes!ResetSession
    BY <2>3, ResetHolds
  <2>4. CASE Panes!AbortOnShutdown
    BY <2>4, ShutdownHolds
  <2>5. CASE \E r \in OtherRuns : Panes!OtherStarts(r) \/ Panes!OtherEnds(r)
    BY <2>5, OtherHolds
  <2>6. QED
    BY <1>2, <2>1, <2>2, <2>3, <2>4, <2>5 DEF Panes!Host
<1>3. CASE Panes!Tool
  <2>1. PICK c \in ToolCalls :
          \/ Panes!Execute(c) \/ Panes!CallerCancels(c) \/ Panes!TakeTask(c) \/ Panes!Return(c)
          \/ \E i \in Panes!Tasks : Panes!ChildTurns(c, i) \/ Panes!ChildEnds(c, i)
    BY <1>3 DEF Panes!Tool
  <2>2. CASE Panes!Execute(c)
    BY <2>2, RefusalHolds, PaneCallHolds
  <2>3. CASE Panes!CallerCancels(c)
    BY <2>3, AborterHolds
  <2>4. CASE Panes!TakeTask(c)
    BY <2>4, TakeHolds
  <2>5. CASE Panes!Return(c)
    BY <2>5, PaneReturnHolds
  <2>6. CASE \E i \in Panes!Tasks : Panes!ChildTurns(c, i) \/ Panes!ChildEnds(c, i)
    BY <2>6, PaneTurnHolds, PaneEndHolds
  <2>7. QED
    BY <2>1, <2>2, <2>3, <2>4, <2>5, <2>6
<1>4. QED
  BY <1>1, <1>2, <1>3 DEF Panes!Next

LEMMA PaneServes ==
  ASSUME PaneInv
  PROVE  Panes!TypeOK /\ Panes!PanesFollowRuns /\ Panes!OneLiveCall /\ Panes!RowsTellResults
<1>1. PaneTypes /\ \A c \in ToolCalls : CallInv(c)
  BY DEF PaneInv, ToolInv
<1>2. ASSUME NEW c \in ToolCalls PROVE paneCall[c].next \in 1..(MaxTasks[c] + 1)
  <2>1. paneCall[c].tasks \in Nat /\ MaxTasks[c] \in Nat /\ paneCall[c].tasks <= MaxTasks[c] /\ paneCall[c].next \in 1..(paneCall[c].tasks + 1)
    BY <1>1, PanesAssumption DEF PaneTypes, PaneCalls, CallInv
  <2>2. QED
    BY <2>1
<1>3. Panes!TypeOK
  BY <1>1, <1>2 DEF PaneInv, HostInv, AllRuns, PaneTypes, Panes!TypeOK
<1>4. ASSUME NEW c \in ToolCalls
      PROVE  /\ Panes!Cardinality(Panes!Running(c)) <= paneCall[c].limit
             /\ paneCall[c].stage = "returned" => \A i \in Panes!TasksOf(c) : paneChild[c][i].state \in Panes!Ended
  <2>1. ASSUME paneCall[c].stage = "returned", NEW i \in Panes!TasksOf(c) PROVE paneChild[c][i].state \in Panes!Ended
    <3>1. i \in Panes!Tasks /\ paneCall[c].next > paneCall[c].tasks /\ i \in 1..paneCall[c].tasks /\ i \notin Panes!Running(c)
      BY <1>1, <2>1, TasksOfCall DEF CallInv
    <3>2. paneCall[c].next \in Nat /\ paneCall[c].tasks \in Nat /\ paneChild[c][i].state \in PaneStates
      BY <1>1, <3>1 DEF PaneTypes, PaneCalls, PaneChildren
    <3>3. i < paneCall[c].next
      BY <3>1, <3>2
    <3>4. paneChild[c][i].state # "waiting"
      BY <3>1, <3>3 DEF PaneInv, ToolInv, TaskInv
    <3>5. paneChild[c][i].state # "running"
      BY <3>1, <2>1 DEF Panes!Running
    <3>6. QED
      BY <3>2, <3>4, <3>5 DEF PaneStates
  <2>2. QED
    BY <1>1, <2>1, PaneCounts DEF CallInv
<1>5. Panes!RowsTellResults
  <2>1. tui => \A c \in ToolCalls : \A i \in Panes!TasksOf(c) : RowTells(c, i)
    BY DEF PaneInv, ToolInv
  <2>2. QED
    BY <1>4, <2>1 DEF Panes!RowsTellResults, RowTells
<1>6. QED
  BY <1>3, <1>5 DEF PaneInv, HostInv

LEMMA PaneMoves ==
  /\ KeptInit => Panes!Init
  /\ [KeptNext]_keptVars => [Panes!Next]_paneVars
BY DEF KeptInit, KeptNext, keptVars

LEMMA PaneInitHolds == ASSUME Panes!Init PROVE PaneInv
<1>1. /\ tui \in BOOLEAN /\ paneActive = 0 /\ paneRuns = <<>> /\ disposed = {} /\ ticking = {} /\ console = {}
      /\ mounted = 0 /\ shutdown = "no"
  BY DEF Panes!Init
<1>2. /\ paneCall = [c \in ToolCalls |-> [stage |-> "idle", aborted |-> FALSE, tasks |-> 0, limit |-> 1, next |-> 1]]
      /\ paneChild = [c \in ToolCalls |-> [i \in Panes!Tasks |-> [state |-> "waiting", turns |-> 0]]]
      /\ paneRow = [c \in ToolCalls |-> [i \in Panes!Tasks |-> [status |-> "none", turns |-> 0, cost |-> 0]]]
      /\ cost = [c \in ToolCalls |-> [i \in Panes!Tasks |-> 0]]
  BY DEF Panes!Init
<1>3. paneRuns \in Seq(AllRuns) /\ DOMAIN paneRuns = {} /\ Held = {} /\ Panes!Active(paneRuns) = 0
  BY <1>1 DEF Held, Panes!Active
<1>4. HostInv
  BY <1>1, <1>3 DEF HostInv, Held, EachOnce, Panes!PanesFollowRuns
<1>5. PaneTypes
  <2>1. [stage |-> "idle", aborted |-> FALSE, tasks |-> 0, limit |-> 1, next |-> 1] \in PaneCalls
    BY DEF PaneCalls
  <2>2. [state |-> "waiting", turns |-> 0] \in PaneChildren
    BY DEF PaneChildren, PaneStates
  <2>3. [status |-> "none", turns |-> 0, cost |-> 0] \in PaneRows
    BY DEF PaneRows
  <2>4. QED
    BY <1>1, <1>2, <2>1, <2>2, <2>3 DEF PaneTypes
<1>6. ASSUME NEW c \in ToolCalls
      PROVE  CallInv(c) /\ (\A i \in Panes!Tasks : TaskInv(c, i)) /\ Panes!TasksOf(c) = {}
  <2>1. /\ paneCall[c].stage = "idle" /\ paneCall[c].tasks = 0 /\ paneCall[c].limit = 1 /\ paneCall[c].next = 1
    BY <1>2
  <2>2. Panes!TasksOf(c) = {} /\ Panes!Running(c) = {}
    BY <2>1, NoTasksRun
  <2>3. Cardinality(Panes!Running(c)) = 0 /\ MaxTasks[c] \in Nat
    BY <2>2, FS_EmptySet, PanesAssumption
  <2>4. CallInv(c)
    BY <1>1, <1>3, <2>1, <2>3 DEF CallInv
  <2>5. \A i \in Panes!Tasks : TaskInv(c, i)
    BY <1>2, <2>1, <2>2 DEF TaskInv
  <2>6. QED
    BY <2>2, <2>4, <2>5
<1>7. ToolInv
  BY <1>5, <1>6 DEF ToolInv
<1>8. Panes!OneLiveCall
  BY <1>2 DEF Panes!OneLiveCall
<1>9. QED
  BY <1>4, <1>7, <1>8 DEF PaneInv
-----------------------------------------------------------------------------
(* What holds of the parts.                                                *)

\* What the index of subagent sessions says, through writes and reads under way.
THEOREM HistoryInductive == KeptSpec => []HistoryInv
<1>1. HistoryInv /\ [KeptNext]_keptVars => HistoryInv'
  BY HistoryMoves, HistoryHolds
<1>2. QED
  BY <1>1, HistoryMoves, HistoryInitHolds, PTL DEF KeptSpec

\* A page of a subagent's session is of the bytes that were indexed.
THEOREM PagesStayCurrent == KeptSpec => []History!PagesAreCurrent
<1>1. HistoryInv => History!PagesAreCurrent
  BY HistoryIsCurrent
<1>2. QED
  BY <1>1, HistoryInductive, PTL

\* The variables of the archive, with any number of processes.
THEOREM ArchiveIsTyped == KeptSpec => []Archive!TypeOK
<1>1. Archive!TypeOK /\ [KeptNext]_keptVars => Archive!TypeOK'
  BY ArchiveMoves, ArchiveTypeHolds
<1>2. QED
  BY <1>1, ArchiveMoves, ArchiveTypeStarts, PTL DEF KeptSpec

\* A process that archives and restores alone, dies in between and recovers: an archived
\* session has its bytes, read-only, and the last copy of a session is never taken away.
THEOREM ArchiveServesOneProcess ==
  ASSUME NEW p, Procs = {p}
  PROVE  KeptSpec => []Archive!ArchivedIsReadable /\ [][Archive!CopyIsKept]_keptVars
<1>1. MoveInv /\ [KeptNext]_keptVars => MoveInv' /\ Archive!CopyIsKept
  BY ArchiveMoves, ArchiveHolds
<1>2. KeptInit => MoveInv
  BY ArchiveMoves, MoveInitHolds
<1>3. MoveInv => Archive!ArchivedIsReadable
  BY DEF MoveInv
<1>4. QED
  BY <1>1, <1>2, <1>3, PTL DEF KeptSpec

\* The ledger, through processes that append to it, prune it and end at any point.
THEOREM LedgerInductive == KeptSpec => []LedgerInv
<1>1. LedgerInv /\ [KeptNext]_keptVars => LedgerInv'
  BY LedgerMoves, LedgerHolds
<1>2. QED
  BY <1>1, LedgerMoves, LedgerInitHolds, PTL DEF KeptSpec

\* A tier that was looked up is on its way to the ledger or in it, unless it was taken for a
\* reason; the ledger is within its limits; and nothing still retained is pruned.
THEOREM LedgerIsKept ==
  KeptSpec => [](Ledger!TiersAreKept /\ Ledger!LimitsHold) /\ [][Ledger!RetainedIsKept]_keptVars
<1>1. LedgerInv /\ [KeptNext]_keptVars => Ledger!RetainedIsKept
  BY LedgerMoves, LedgerHolds
<1>2. LedgerInv => Ledger!TiersAreKept /\ Ledger!LimitsHold
  BY LedgerServes
<1>3. QED
  BY <1>1, <1>2, LedgerInductive, PTL DEF KeptSpec

\* The seats of a council, through commands that start, ask, refresh and end, and the user.
THEOREM SeatsInductive == KeptSpec => []SeatInv
<1>1. SeatInv /\ [KeptNext]_keptVars => SeatInv'
  BY SeatMoves, SeatHolds
<1>2. QED
  BY <1>1, SeatMoves, SeatInitHolds, PTL DEF KeptSpec

\* A council asks an agent only in the pane of its seat, and a pane split for a seat stays
\* in the manifest, or with the command that is still to write it, until it is closed.
THEOREM SeatsAreServed ==
  KeptSpec => []Seating!AsksGoToTheirSeat /\ [][Seating!PanesStayAccounted]_keptVars
<1>1. SeatInv /\ [KeptNext]_keptVars => Seating!PanesStayAccounted
  BY SeatMoves, SeatHolds
<1>2. SeatInv => Seating!AsksGoToTheirSeat
  BY SeatServes
<1>3. QED
  BY <1>1, <1>2, SeatsInductive, PTL DEF KeptSpec

\* A handoff, from the plan to the predecessor that the replacement reads.
THEOREM HandoffInductive == KeptSpec => []HandInv
<1>1. HandInv /\ [KeptNext]_keptVars => HandInv'
  BY HandMoves, HandHolds
<1>2. QED
  BY <1>1, HandMoves, HandInitHolds, PTL DEF KeptSpec

\* The replacement reads nothing older than what was there, through the API that published
\* it; the edited prompt is where the user finds it; a prompt is sent only with its history
\* readable, and the predecessor's records are left alone.
THEOREM HandoffServes ==
  KeptSpec => /\ [](Hand!HistoryIsCurrent /\ Hand!NewestIsPublished /\ Hand!PromptIsKept)
              /\ [][Hand!SendsReadable /\ Hand!LeavesPredecessor]_keptVars
<1>1. HandInv /\ [KeptNext]_keptVars => Hand!SendsReadable /\ Hand!LeavesPredecessor
  BY HandMoves, HandHolds DEF HandStep
<1>2. HandInv => Hand!HistoryIsCurrent /\ Hand!NewestIsPublished /\ Hand!PromptIsKept
  BY HandServes
<1>3. QED
  BY <1>1, <1>2, HandoffInductive, PTL DEF KeptSpec

\* The panes of child agents, through calls, shutdowns and runs of other extensions.
THEOREM PanesInductive == KeptSpec => []PaneInv
<1>1. PaneInv /\ [KeptNext]_keptVars => PaneInv'
  BY PaneMoves, PaneHolds
<1>2. QED
  BY <1>1, PaneMoves, PaneInitHolds, PTL DEF KeptSpec

\* The widget and its console show the run that started last of those that are not over; of
\* two calls with children the older is being aborted; the dashboard says what became of each
\* task; and no task runs twice, or starts after an abort.
THEOREM PanesShowWhatRuns ==
  KeptSpec => /\ [](Panes!PanesFollowRuns /\ Panes!OneLiveCall /\ Panes!RowsTellResults)
              /\ [][Panes!RunsOnce]_keptVars
<1>1. PaneInv /\ [KeptNext]_keptVars => Panes!RunsOnce
  BY PaneMoves, PaneHolds
<1>2. PaneInv => Panes!PanesFollowRuns /\ Panes!OneLiveCall /\ Panes!RowsTellResults
  BY PaneServes
<1>3. QED
  BY <1>1, <1>2, PanesInductive, PTL DEF KeptSpec
=============================================================================
