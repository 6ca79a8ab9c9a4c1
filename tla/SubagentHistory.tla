---------------------------- MODULE SubagentHistory ----------------------------
(***************************************************************************)
(* Search and exact reads over retained child sessions, and the cache they *)
(* share (session-archive/subagent-history*.ts).                           *)
(*                                                                         *)
(* A call takes an inventory of the sources, each with its stat signature; *)
(* drops the rows that do not match; reads pending sources between two     *)
(* validations; serves from the cache and validates the sources again.     *)
(* Other calls run beside it, of this or of another Pi process, and so do  *)
(* children, prunings (SubagentSessions) and a human who reopens a session *)
(* without a lease.  A validation looks at the signature, then the lease.  *)
(* An exact read matches the row in one statement and takes its entries in *)
(* another, with no transaction around the two: the calls it is torn by    *)
(* are kept in a history variable.                                         *)
(*                                                                         *)
(* A source is its version, which is also its signature and what its row   *)
(* and its pages hold; 0 is none.                                          *)
(***************************************************************************)
EXTENDS Naturals

CONSTANTS
  Sessions,
  Calls,
  MaxVersion  \* bound: how often a source is written

VARIABLES
  source,
  leased,  \* sessions whose lease is live or uncertain
  rows,    \* the cache
  call,
  torn     \* history: exact reads whose row changed after they had matched it

vars == <<source, leased, rows, call, torn>>

Versions == 0..MaxVersion
Nothing == [s \in Sessions |-> 0]
NoSession == CHOOSE s \in Sessions : TRUE
Idle == [op |-> "none", target |-> NoSession, step |-> "idle", at |-> NoSession, found |-> Nothing,
         todo |-> {}, hits |-> Nothing, served |-> Nothing]

Init ==
  /\ source = [s \in Sessions |-> 1] /\ leased \in SUBSET Sessions
  /\ rows = Nothing /\ call = [k \in Calls |-> Idle] /\ torn = {}
-----------------------------------------------------------------------------
(* The sources.                                                            *)

Writes(s) ==
  /\ source[s] \in 1..(MaxVersion - 1) /\ source' = [source EXCEPT ![s] = @ + 1]
  /\ UNCHANGED <<leased, rows, call>>

ChildEnds(s) == s \in leased /\ leased' = leased \ {s} /\ UNCHANGED <<source, rows, call>>

Pruned(s) ==
  /\ s \notin leased /\ source[s] # 0 /\ source' = [source EXCEPT ![s] = 0]
  /\ UNCHANGED <<leased, rows, call>>
-----------------------------------------------------------------------------

\* classifyLease(): an uncertain lease is a live one.
Active(s) == s \in leased

Step(k, r) == call' = [call EXCEPT ![k] = r]

\* A call that returns without content.
Returns(k) == Step(k, Idle)

Delete(set) == rows' = [s \in Sessions |-> IF s \in set THEN 0 ELSE rows[s]]

Exact(k) == call[k].op # "search"

Scope(k) == IF Exact(k) THEN {call[k].target} ELSE Sessions

Begin(k) ==
  /\ call[k] = Idle
  /\ \E op \in {"search", "read", "raw"}, s \in Sessions :
       /\ op = "search" => s = NoSession
       /\ Step(k, [Idle EXCEPT !.op = op, !.target = s, !.step = "discover"])
  /\ UNCHANGED <<source, leased, rows>>

\* discoverSubagentHistory(): a scan that reached its limit misses sources.
Discover(k) ==
  /\ call[k].step = "discover"
  /\ \E seen \in SUBSET Scope(k) :
       Step(k, [call[k] EXCEPT !.step = IF seen = Scope(k) THEN "leases" ELSE "bounded",
                               !.found = [s \in Sessions |-> IF s \in seen THEN source[s] ELSE 0]])
  /\ UNCHANGED <<source, leased, rows>>

\* Fault: a cached row of the same file is taken for a current one.
SameFile(s, found) == rows[s] # 0 /\ found[s] # 0

MatchingRow(s, found) == rows[s] # 0 /\ rows[s] = found[s]

\* Sessions whose lease is live, rows of other versions and, after a full
\* scan, rows without a source are dropped.
Leases(k) ==
  /\ call[k].step \in {"leases", "bounded"}
  /\ LET found == [s \in Sessions |-> IF Active(s) THEN 0 ELSE call[k].found[s]]
         dropped == {s \in Scope(k) : ~MatchingRow(s, found)
                                      /\ (call[k].found[s] # 0 \/ call[k].step = "leases")}
     IN /\ Delete(dropped)
        /\ IF Exact(k) /\ found[call[k].target] = 0
             THEN Returns(k)
             ELSE LET todo == {s \in Sessions : found[s] # 0 /\ ~MatchingRow(s, found)} IN
                  Step(k, [call[k] EXCEPT !.step = IF Exact(k) /\ todo = {} THEN "entries" ELSE "pending",
                                          !.found = found, !.todo = todo])
  /\ UNCHANGED <<source, leased>>

\* A source that was not read stably stays pending, and so does one beyond the
\* work budget; an exact read returns.
Gives(k, s) == IF Exact(k) THEN Returns(k) ELSE Step(k, [call[k] EXCEPT !.todo = @ \ {s}, !.step = "pending"])

Signed(k, s) == source[s] = call[k].found[s]

ReadStable(k, s) ==
  /\ call[k].step = "pending" /\ s \in call[k].todo
  /\ \/ Gives(k, s)
     \/ Signed(k, s) /\ ~Active(s) /\ Step(k, [call[k] EXCEPT !.step = "stat", !.at = s])
  /\ UNCHANGED <<source, leased, rows>>

\* The bytes are read and parsed; the source is validated again.
StatAfter(k) ==
  /\ call[k].step = "stat"
  /\ IF Signed(k, call[k].at) THEN Step(k, [call[k] EXCEPT !.step = "lease"]) ELSE Gives(k, call[k].at)
  /\ UNCHANGED <<source, leased, rows>>

LeaseAfter(k) ==
  /\ call[k].step = "lease"
  /\ LET s == call[k].at IN
     IF ~Active(s)
       THEN /\ rows' = [rows EXCEPT ![s] = call[k].found[s]]
            /\ Step(k, [call[k] EXCEPT !.todo = @ \ {s}, !.step = "pending", !.at = NoSession])
       ELSE Gives(k, s) /\ UNCHANGED rows
  /\ UNCHANGED <<source, leased>>

\* After its replacement the row is read again, and must match.
Match(k) ==
  /\ call[k].step = "pending" /\ call[k].todo = {} /\ Exact(k)
  /\ IF MatchingRow(call[k].target, call[k].found) THEN Step(k, [call[k] EXCEPT !.step = "entries"]) ELSE Returns(k)
  /\ UNCHANGED <<source, leased, rows>>

\* A search takes the rows of the files it found.
Hits(k) == {s \in Scope(k) : rows[s] # 0 /\ call[k].found[s] # 0}

\* The entries are read.  An exact read takes the ones that its session has by
\* now, be it none.
Query(k) ==
  /\ \/ call[k].step = "entries"
     \/ call[k].step = "pending" /\ call[k].todo = {} /\ ~Exact(k)
  /\ IF ~Exact(k) /\ Hits(k) = {}
       THEN Returns(k)
       ELSE Step(k, [call[k] EXCEPT !.step = IF call[k].op = "raw" THEN "ranges" ELSE "check",
                                    !.todo = IF Exact(k) THEN Scope(k) ELSE Hits(k),
                                    !.hits = [s \in Sessions |-> IF s \in Hits(k) THEN rows[s] ELSE 0]])
  /\ UNCHANGED <<source, leased, rows>>

\* Raw entries are read from the source, by the ranges of the cached ones.
ReadRanges(k) ==
  /\ call[k].step = "ranges"
  /\ LET s == call[k].target IN
     IF Signed(k, s) /\ ~Active(s)
       THEN Step(k, [call[k] EXCEPT !.step = "check"]) /\ UNCHANGED rows
       ELSE Delete({s}) /\ Returns(k)
  /\ UNCHANGED <<source, leased>>

\* A source that became ineligible loses its row; an exact read ends there.
Refuses(k, s) ==
  Delete({s}) /\ IF Exact(k) THEN Returns(k) ELSE Step(k, [call[k] EXCEPT !.todo = @ \ {s}, !.step = "check"])

CheckStat(k, s) ==
  /\ call[k].step = "check" /\ s \in call[k].todo
  /\ IF Signed(k, s) THEN Step(k, [call[k] EXCEPT !.step = "checklease", !.at = s]) /\ UNCHANGED rows
                     ELSE Refuses(k, s)
  /\ UNCHANGED <<source, leased>>

CheckLease(k) ==
  /\ call[k].step = "checklease"
  /\ LET s == call[k].at IN
     IF Active(s)
       THEN Refuses(k, s)
       ELSE /\ Step(k, [call[k] EXCEPT !.step = "check", !.at = NoSession, !.todo = @ \ {s}, !.served[s] = call[k].hits[s]])
            /\ UNCHANGED rows
  /\ UNCHANGED <<source, leased>>

Serve(k) == call[k].step = "check" /\ call[k].todo = {} /\ Returns(k) /\ UNCHANGED <<source, leased, rows>>
-----------------------------------------------------------------------------
CallStep(k) ==
  \/ Discover(k) \/ Leases(k) \/ StatAfter(k) \/ LeaseAfter(k) \/ Match(k) \/ Query(k) \/ ReadRanges(k)
  \/ CheckLease(k) \/ Serve(k) \/ \E s \in Sessions : ReadStable(k, s) \/ CheckStat(k, s)

\* Another call changes the row that k has matched.
Tears(k) == call[k].step = "entries" /\ call'[k] = call[k] /\ rows'[call[k].target] # rows[call[k].target]

Next ==
  /\ \/ \E s \in Sessions : Writes(s) \/ ChildEnds(s) \/ Pruned(s)
     \/ \E k \in Calls : Begin(k) \/ CallStep(k)
  /\ torn' = {k \in Calls : call'[k] # Idle /\ (k \in torn \/ Tears(k))}

Spec == Init /\ [][Next]_vars
-----------------------------------------------------------------------------
TypeOK ==
  /\ source \in [Sessions -> Versions] /\ leased \subseteq Sessions /\ rows \in [Sessions -> Versions] /\ torn \subseteq Calls
  /\ call \in [Calls -> [op : {"none", "search", "read", "raw"}, target : Sessions,
                         step : {"idle", "discover", "leases", "bounded", "pending", "stat", "lease", "entries", "ranges", "check", "checklease"},
                         at : Sessions, found : [Sessions -> Versions], todo : SUBSET Sessions,
                         hits : [Sessions -> Versions], served : [Sessions -> Versions]]]

\* A page shows nothing newer than the version that its call found and validated
\* last, whatever other calls wrote into the cache meanwhile; and no session is in
\* the cache, nor served, before its child ended.  A page of an exact read shows
\* that very version, unless the row changed between the match and the entries:
\* then the page is of an older version, or empty.
PagesAreCurrent ==
  /\ \A k \in Calls, s \in Sessions :
       call[k].served[s] # 0 => s \notin leased /\ call[k].served[s] <= call[k].found[s]
  /\ \A k \in Calls :
       Exact(k) /\ call[k].step = "check" /\ call[k].todo = {} /\ k \notin torn
         => call[k].served[call[k].target] = call[k].found[call[k].target]
  /\ \A s \in leased : rows[s] = 0
=============================================================================
