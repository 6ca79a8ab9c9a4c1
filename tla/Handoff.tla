------------------------------ MODULE Handoff ------------------------------
(***************************************************************************)
(* /handoff: a replacement session that reads its predecessor on demand    *)
(* (handoff/command.ts), the registry through which the predecessor's      *)
(* handler sets the replacement's model (handoff/replacement-selection-     *)
(* api.ts), and the reading of the linked history, from the active file or *)
(* from the archive (handoff/transcript.ts, handoff/history-*.ts).         *)
(*                                                                         *)
(* The predecessor "old" is one file: a version, which is also what stat   *)
(* tells of it, 0 when it is not there.  Its archive is the part of        *)
(* SessionArchive that a handoff sees.  A runtime of a session is a number.*)
(***************************************************************************)
EXTENDS Naturals, FiniteSets

CONSTANTS
  Models, Efforts,
  MaxVersion,   \* bound on the writes to the predecessor's file
  MaxRuntimes,  \* bound on the runtimes of a session
  MaxOthers,    \* bound on what others do
  NoChoice      \* no model, no effort

VARIABLES
  active, artifact,   \* the version at each place
  catalog,            \* the row's state
  big,                \* over the limit of the active reader
  runtimes, published, \* of each session: those that live, and the registry
  chosen,             \* of each session: the model and the effort
  plan,               \* the arguments, the tools and the expected selection
  step,
  linked,             \* the replacement names its predecessor
  finalized,
  told,               \* the last notice that matters
  editor,             \* the session whose editor holds the edited prompt
  sent,
  reader, cache,      \* a call of the history tools, and transcriptCache
  touched, others     \* others changed the predecessor's files since its check

files == <<active, artifact, catalog>>
runs == <<runtimes, published>>
command == <<plan, linked, finalized, told, editor, sent>>
reading == <<reader, cache>>
events == <<touched, others>>
handoffVars == <<files, big, runs, chosen, command, step, reading, events>>

Both == {"old", "new"}
Inherited == CHOOSE m \in Models : TRUE
NoPlan == [archive |-> FALSE, access |-> "none", model |-> NoChoice, effort |-> NoChoice]
NoCache == [place |-> "none", stat |-> 0, version |-> 0]
NoCall == [at |-> "idle", stat |-> 0, since |-> 0, shown |-> 0]

Init ==
  /\ active = 1 /\ artifact = 0 /\ catalog = "none" /\ big \in BOOLEAN
  /\ runtimes = [s \in Both |-> IF s = "old" THEN {1} ELSE {}]
  /\ published = [s \in Both |-> IF s = "old" THEN 1 ELSE 0]
  /\ \E m \in Models \cup {NoChoice}, e \in Efforts :
       chosen = [old |-> [model |-> Inherited, effort |-> e], new |-> [model |-> m, effort |-> e]]
  /\ plan = NoPlan /\ step = "idle" /\ linked = FALSE /\ finalized = FALSE
  /\ told = "none" /\ editor = "none" /\ sent = FALSE
  /\ reader = NoCall /\ cache = NoCache /\ touched = FALSE /\ others = 0

-----------------------------------------------------------------------------
(* The runtimes of a session and the registry *)

Bind(s, r) == published' = [published EXCEPT ![s] = r]

\* session_start.
Starts(s, r) ==
  /\ \A q \in runtimes[s] \cup {published[s]} : q < r
  /\ runtimes' = [runtimes EXCEPT ![s] = @ \cup {r}]
  /\ Bind(s, r)

\* unbindReplacementSelectionApi(): not what a newer runtime has published.
Unbind(s, r) == published' = [published EXCEPT ![s] = IF @ = r THEN 0 ELSE @]

Ends(s, r) ==
  /\ r \in runtimes[s] /\ runtimes' = [runtimes EXCEPT ![s] = @ \ {r}]
  /\ Unbind(s, r)

\* A reload, or another runtime of the same session: its start may come before the end.
RuntimeStarts ==
  /\ runtimes["new"] # {} /\ \E r \in 2..MaxRuntimes : Starts("new", r)
  /\ UNCHANGED <<files, big, chosen, command, step, reading, events>>

RuntimeEnds ==
  /\ Cardinality(runtimes["new"]) > 1 /\ \E r \in runtimes["new"] : Ends("new", r)
  /\ UNCHANGED <<files, big, chosen, command, step, reading, events>>

-----------------------------------------------------------------------------
(* The command *)

Goto(next) == step' = next
Quiet == UNCHANGED <<files, big, runs, chosen, reading, events>>

\* readActiveTranscript(): a regular file within the limit.
ActiveReads == active # 0 /\ ~big

\* What the replacement's tools can read: they are the predecessor's.
Tools == {"read_handoff_history", "search_handoff_history", "read", "bash", "grep"}
SelectHistoryAccess(tools) ==
  CASE "read_handoff_history" \in tools -> "handoff"
    [] "read_handoff_history" \notin tools /\ {"read", "bash"} \cap tools # {} -> "file"
    [] tools \subseteq {"search_handoff_history", "grep"} ->
         IF "search_handoff_history" \in tools THEN "search" ELSE "unavailable"

\* Without such a tool the command stops before the editor.
Accesses == {SelectHistoryAccess(tools) : tools \in SUBSET Tools} \ {"unavailable"}

\* A source that is to stay active is read before the editor opens.
PreparedSource(archive) == archive \/ ActiveReads

\* resolveHandoffModelSelection(): a reference names one model of the catalogue, or the
\* command stops.
Named == Models \cup {NoChoice}

\* buildHandoffPlan(): what is not named is the predecessor's.
BuildHandoffPlan(archive, access, m, e) ==
  [archive |-> archive, access |-> access,
   model |-> IF m = NoChoice THEN chosen["old"].model ELSE m,
   effort |-> IF e = NoChoice THEN chosen["old"].effort ELSE e]

\* The arguments name at most one model, perhaps with an effort, the source is there to be
\* read, some tool can read it, and the editor is saved; else nothing happened.
Begin ==
  /\ step = "idle"
  /\ \E archive \in BOOLEAN, access \in Accesses, m \in Named, e \in Efforts \cup {NoChoice} :
       /\ PreparedSource(archive)
       /\ e # NoChoice => m # NoChoice
       /\ plan' = BuildHandoffPlan(archive, access, m, e)
       /\ Goto(IF archive THEN "stage" ELSE "check")
  /\ touched' = FALSE
  /\ UNCHANGED <<files, big, runs, chosen, reading, others, linked, finalized, told, editor, sent>>

\* The source is checked again, and the edited prompt kept if it cannot be read.
Preflight ==
  /\ step = "check"
  /\ cache' = NoCache /\ touched' = FALSE
  /\ IF ActiveReads
       THEN Goto("switch") /\ UNCHANGED <<told, editor>>
       ELSE Goto("done") /\ told' = "rejected" /\ editor' = "old"
  /\ UNCHANGED <<files, big, runs, chosen, reader, others, plan, linked, finalized, sent>>

\* archiveCurrentSession() imports the session as pending, or refuses.
Stage ==
  /\ step = "stage"
  /\ \/ /\ active # 0 /\ catalog \in {"none", "pending"}
        /\ catalog' = "pending" /\ touched' = FALSE /\ Goto("switch") /\ UNCHANGED told
     \/ Goto("done") /\ told' = "rejected" /\ UNCHANGED <<catalog, touched>>
  /\ UNCHANGED <<active, artifact, big, runs, chosen, reading, others, plan, linked, finalized, editor, sent>>

\* Pi ends the old runtime, sets the new session up and starts its runtime, which may lack
\* this extension; or another extension vetoes, and the pending row is discarded.
NewSession ==
  /\ step = "switch"
  /\ linked' = TRUE
  /\ runtimes' = [s \in Both |-> IF s = "old" THEN {} ELSE {1}]
  /\ \E bound \in {0, 1} : published' = [s \in Both |-> IF s = "old" THEN 0 ELSE bound]
  /\ Goto(IF plan.archive THEN "finalize" ELSE "model")
  /\ UNCHANGED <<files, big, chosen, reading, events, plan, finalized, told, editor, sent>>

Vetoed ==
  /\ step = "switch"
  /\ catalog' = IF plan.archive /\ catalog = "pending" THEN "none" ELSE catalog
  /\ Goto("done") /\ told' = "cancelled"
  /\ UNCHANGED <<active, artifact, big, runs, chosen, reading, events, plan, linked, finalized, editor, sent>>

Continues == IF finalized' THEN "model" ELSE "done"

\* The move and the row's last state, of which the first may happen alone; nothing more is
\* done after a failure but to tell of it.
Finalize ==
  /\ step = "finalize"
  /\ \E moved \in BOOLEAN, committed \in BOOLEAN :
       /\ (committed => moved) /\ (moved => active # 0 /\ ~touched) /\ (committed => catalog = "pending")
       /\ active' = IF moved THEN 0 ELSE active
       /\ artifact' = IF moved THEN active ELSE artifact
       /\ catalog' = IF committed THEN "archived" ELSE catalog
       /\ finalized' = committed
       /\ told' = IF committed THEN told ELSE "pending"
  /\ Goto(Continues)
  /\ UNCHANGED <<big, runs, chosen, reading, events, plan, linked, editor, sent>>

-----------------------------------------------------------------------------
(* The replacement's selection and its first prompt *)

\* getReplacementSelectionApi(): the session the API sets, if one is published.
ReplacementApi == {s \in {"new"} : published[s] # 0}

\* What is not chosen is left alone.  setModel() may refuse, for want of credentials, or fail.
SetModel ==
  /\ step = "model"
  /\ Goto(IF ReplacementApi = {} THEN "report" ELSE "effort")
  /\ \/ /\ plan.model \notin {NoChoice, chosen["new"].model}
        /\ \E s \in ReplacementApi : chosen' = [chosen EXCEPT ![s].model = plan.model]
     \/ UNCHANGED chosen
  /\ UNCHANGED <<files, big, runs, reading, events, plan, linked, finalized, told, editor, sent>>

\* setThinkingLevel() is clamped to what the model has, or fails.
SetEffort ==
  /\ step = "effort" /\ Goto("report")
  /\ \/ /\ plan.effort # NoChoice
        /\ \E s \in ReplacementApi, e \in Efforts : chosen' = [chosen EXCEPT ![s].effort = e]
     \/ UNCHANGED chosen
  /\ UNCHANGED <<files, big, runs, reading, events, plan, linked, finalized, told, editor, sent>>

Mismatch ==
  /\ chosen["new"].model # NoChoice
  /\ \/ plan.model \notin {NoChoice, chosen["new"].model}
     \/ plan.effort \notin {NoChoice, chosen["new"].effort}

Report ==
  /\ step = "report" /\ Goto("submit")
  /\ told' = IF Mismatch THEN "warned" ELSE "started"
  /\ Quiet /\ UNCHANGED <<plan, linked, finalized, editor, sent>>

\* Without a model or its credentials the prompt is left in the editor.  A submission that
\* fails may have been taken.
Submit ==
  /\ step = "submit" /\ Goto("done")
  /\ plan' = [plan EXCEPT !.model = NoChoice, !.effort = NoChoice]
  /\ \/ editor' = "new" /\ told' = "ready" /\ UNCHANGED sent
     \/ /\ chosen["new"].model # NoChoice
        /\ \/ sent' = TRUE /\ UNCHANGED told
           \/ sent' \in BOOLEAN /\ told' = "doubt"
        /\ UNCHANGED editor
  /\ Quiet /\ UNCHANGED <<linked, finalized>>

-----------------------------------------------------------------------------
(* The history tools of the replacement *)

\* What a reader that begins now is to show: no older version.
Latest == IF active # 0 THEN active ELSE artifact

Answer(version) == reader' = [NoCall EXCEPT !.shown = version, !.since = reader.since]
Throws == reader' = NoCall

\* loadHandoffTranscript(), of the session the newest handoff entry names: a call of the
\* replacement's agent.
ReadHistory ==
  /\ linked /\ step = "done" /\ reader.at = "idle"
  /\ reader' = [at |-> "stat", stat |-> 0, since |-> Latest, shown |-> 0]
  /\ UNCHANGED <<files, big, runs, chosen, command, step, cache, events>>

\* readActiveTranscript(): what is not there is looked for in the archive.
StatActive ==
  /\ reader.at = "stat"
  /\ \/ active = 0 /\ reader' = [reader EXCEPT !.at = "row"]
     \/ active # 0 /\ big /\ Throws
     \/ ActiveReads /\ reader' = [reader EXCEPT !.at = "active", !.stat = active]
  /\ UNCHANGED <<files, big, runs, chosen, command, step, cache, events>>

Cached(place) == cache.place = place /\ cache.stat = reader.stat

\* readCached(): the cache is of this path and this stat, or the file is read, by now
\* perhaps another version or gone.
ReadCached(place, version) ==
  IF Cached(place)
    THEN Answer(cache.version) /\ UNCHANGED cache
    ELSE /\ version # 0
         /\ cache' = [place |-> place, stat |-> reader.stat, version |-> version] /\ Answer(version)

ReadActive ==
  /\ reader.at = "active"
  /\ \/ ReadCached("active", active)
     \/ ~Cached("active") /\ active = 0 /\ reader' = [reader EXCEPT !.at = "row"] /\ UNCHANGED cache
  /\ UNCHANGED <<files, big, runs, chosen, command, step, events>>

\* withArchivedSessionDb(): only a finalized session is read.
GetRow ==
  /\ reader.at = "row"
  /\ IF catalog = "archived" /\ artifact # 0
       THEN reader' = [reader EXCEPT !.at = "archive", !.stat = artifact]
       ELSE Throws
  /\ UNCHANGED <<files, big, runs, chosen, command, step, cache, events>>

\* An artifact over the limit is read from the rows of the archive.
ReadArchived ==
  /\ reader.at = "archive"
  /\ \/ big /\ Answer(reader.stat) /\ UNCHANGED cache
     \/ ~big /\ ReadCached("archive", artifact)
     \/ artifact = 0 /\ Throws /\ UNCHANGED cache
  /\ UNCHANGED <<files, big, runs, chosen, command, step, events>>

-----------------------------------------------------------------------------
(* Others: a user who resumes, removes or archives the predecessor, here or elsewhere *)

Others ==
  /\ others < MaxOthers /\ others' = others + 1 /\ touched' = TRUE
  /\ UNCHANGED <<big, runs, chosen, command, step, reading>>

Appends == Others /\ active \in 1..(MaxVersion - 1) /\ active' = active + 1 /\ UNCHANGED <<artifact, catalog>>

Deletes == Others /\ active # 0 /\ active' = 0 /\ UNCHANGED <<artifact, catalog>>

OthersArchive ==
  /\ Others /\ active # 0 /\ catalog # "archived"
  /\ active' = 0 /\ artifact' = active /\ catalog' \in {"pending", "archived"}

\* reconcile() of the next session that starts.
Recovers ==
  /\ catalog = "pending" /\ active = 0 /\ artifact # 0 /\ step # "finalize"
  /\ catalog' = "archived"
  /\ UNCHANGED <<active, artifact, big, runs, chosen, command, step, reading, events>>

Next ==
  \/ RuntimeStarts \/ RuntimeEnds
  \/ Begin \/ Preflight \/ Stage \/ NewSession \/ Vetoed \/ Finalize
  \/ SetModel \/ SetEffort \/ Report \/ Submit
  \/ ReadHistory \/ StatActive \/ ReadActive \/ GetRow \/ ReadArchived
  \/ Appends \/ Deletes \/ OthersArchive \/ Recovers

HandoffSpec == Init /\ [][Next]_handoffVars
-----------------------------------------------------------------------------
TypeOK ==
  /\ active \in 0..MaxVersion /\ artifact \in 0..MaxVersion /\ catalog \in {"none", "pending", "archived"}
  /\ \A s \in Both : runtimes[s] \subseteq 1..MaxRuntimes /\ published[s] \in 0..MaxRuntimes
  /\ editor \in {"none"} \cup Both /\ sent \in BOOLEAN /\ plan.access \in Accesses \cup {"none"}
  /\ told \in {"none", "rejected", "cancelled", "pending", "warned", "started", "ready", "doubt"}

\* Readable with what the prompt tells the replacement to use: the tools find the session in
\* either place, a file is where the prompt says it is.
Reachable ==
  IF plan.access = "file"
    THEN IF plan.archive THEN artifact # 0 ELSE active # 0
    ELSE ActiveReads \/ (catalog = "archived" /\ artifact # 0)

\* A prompt is sent only in a session that names its predecessor; with --archive, only once
\* that is archived; and, if nobody touched its files since they were checked, when they can
\* be read in the way that the prompt says.
SendsReadable ==
  (~sent /\ sent') => /\ linked /\ (plan.archive => finalized)
                      /\ ~touched => Reachable
SentIsReadable == [][SendsReadable]_handoffVars

\* A default handoff that was not vetoed keeps the edited prompt: it was submitted or is in
\* the editor of the session the user is in.
PromptIsKept ==
  (step = "done" /\ ~plan.archive /\ told # "cancelled") =>
    sent \/ told = "doubt" \/ editor = (IF linked THEN "new" ELSE "old")

\* The runtime that started last of all is published while it lives, whatever ends before
\* it; and the predecessor keeps its model and its effort.
NewestIsPublished == \A s \in Both : MaxRuntimes \in runtimes[s] => published[s] = MaxRuntimes
LeavesPredecessor == chosen'["old"] = chosen["old"]
PredecessorIsUnchanged == [][LeavesPredecessor]_handoffVars

\* A reader never shows a version older than the one that was there when it began.
HistoryIsCurrent == reader.shown # 0 => reader.shown >= reader.since
=============================================================================
