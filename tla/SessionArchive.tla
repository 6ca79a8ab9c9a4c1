--------------------------- MODULE SessionArchive ---------------------------
(***************************************************************************)
(* The archive of finished sessions (extensions/session-archive): one      *)
(* session, its file among Pi's active sessions and in the archive, its    *)
(* row in the SQLite catalog, and the Pi processes that archive, restore,  *)
(* reconcile and index it, each of which may die between two steps.        *)
(*                                                                         *)
(* The file system and SQLite cannot commit together: a row is pending     *)
(* before its file moves and archived afterwards, and a journal row        *)
(* announces a restore.  A step is one transaction, or the checks of a     *)
(* file and the call on it that follows them at once; a transaction is     *)
(* atomic (BEGIN IMMEDIATE).                                               *)
(*                                                                         *)
(* A text is the number of a state of the session: appending makes the     *)
(* next.  A hash is the text it is of.  A process that appends to a file   *)
(* which was moved away under it makes a file without a header: a          *)
(* fragment, which does not parse.                                         *)
(***************************************************************************)
EXTENDS Naturals

CONSTANTS
  Procs,       \* the Pi processes
  MaxText,     \* bound: texts of the session
  MaxCrashes,  \* bound: deaths of a process in the middle of something
  NoFile

VARIABLES
  files,   \* "active": the file Pi lists, "archive": its archived copy
  row,     \* the row of the session in archive_sessions
  journal, \* the hash in its row of archive_restore_journal, or 0
  proc,    \* per process
  crashes

vars == <<files, row, journal, proc, crashes>>

Fragment == 0
Texts == 1..MaxText
Places == {"active", "archive"}
Rows == [state : {"none", "pending", "archived", "error"}, text : 0..MaxText]
NoRow == [state |-> "none", text |-> 0]
PCs == {"off", "idle", "confirm", "import", "switching", "begin", "planned", "journal", "pending",
        "unlink", "check", "drop", "rename", "verify", "copy", "dropCopied", "chmod", "commit"}

\* open: the session is the current one of the process.  kind, by, text: what is
\* moved, on whose behalf and the hash it must have.  held: the archive that a
\* reconciliation in the same process interrupted.
Off == [pc |-> "off", open |-> FALSE, kind |-> "archive", by |-> "user", text |-> 0, held |-> 0]

Init ==
  /\ files = [place \in Places |-> IF place = "active" THEN [text |-> 1, ro |-> FALSE] ELSE NoFile]
  /\ row = NoRow /\ journal = 0
  /\ proc = [p \in Procs |-> Off] /\ crashes = 0

Exists(place) == files[place] # NoFile
Has(place, text) == Exists(place) /\ files[place].text = text
Parses(place) == Exists(place) /\ files[place].text # Fragment

At(p, pc) == proc[p].pc = pc
Goto(p, pc) == proc' = [proc EXCEPT ![p].pc = pc]

\* The user works on the session in one Pi at a time: "Continue only if none is
\* open in another Pi process" (registration.ts).  Recovery is not the user's.
Commanding(p) ==
  \/ proc[p].open \/ proc[p].held # 0
  \/ proc[p].by = "user" /\ proc[p].pc \notin {"off", "idle", "journal", "pending"}

Alone(p) == \A q \in Procs \ {p} : ~Commanding(q)

\* The operation of p is over: it goes on with what a reconciliation interrupted.
Over(p) ==
  proc' = [proc EXCEPT ![p] =
             IF proc[p].held = 0 THEN [Off EXCEPT !.pc = "idle", !.open = proc[p].open]
             ELSE [Off EXCEPT !.pc = "check", !.text = proc[p].held]]

\* A restore that recovery finishes is followed by the pending rows.
Finish(p) == IF proc[p].by = "journal" THEN Goto(p, "pending") ELSE Over(p)

MarkError == row' = IF row.state = "none" THEN row ELSE [row EXCEPT !.state = "error"]

\* An exception: recovery marks the row, a command reports it.
Throw(p) ==
  /\ Finish(p)
  /\ IF proc[p].by = "journal" THEN MarkError ELSE UNCHANGED row
  /\ UNCHANGED journal
-----------------------------------------------------------------------------
(* Pi                                                                      *)

\* A process starts, or changes its current session: session_start reconciles.
Begin(p, pc, open) == proc' = [proc EXCEPT ![p].pc = pc, ![p].open = open]

SessionStarts(p) ==
  /\ At(p, "off") \/ At(p, "idle")
  /\ \E open \in {FALSE} \cup {Parses("active") /\ Alone(p)} : Begin(p, "journal", open)
  /\ UNCHANGED <<files, row, journal, crashes>>

Quit(p) ==
  /\ At(p, "idle") /\ proc' = [proc EXCEPT ![p] = Off]
  /\ UNCHANGED <<files, row, journal, crashes>>

Crash(p) ==
  /\ ~At(p, "off") /\ ~At(p, "idle") /\ crashes < MaxCrashes
  /\ proc' = [proc EXCEPT ![p] = Off] /\ crashes' = crashes + 1
  /\ UNCHANGED <<files, row, journal>>

\* The open session is appended to while its process awaits something.
AppendEntry(p) ==
  /\ proc[p].open /\ proc[p].pc \in {"idle", "confirm", "switching"}
  /\ files' = [files EXCEPT !["active"] =
                 IF ~Exists("active") THEN [text |-> Fragment, ro |-> FALSE]
                 ELSE IF @.text = Fragment THEN @ ELSE [@ EXCEPT !.text = files["active"].text + 1]]
  /\ Exists("active") => ~files["active"].ro /\ files["active"].text < MaxText
  /\ UNCHANGED <<row, journal, proc, crashes>>
-----------------------------------------------------------------------------
(* archive-store.ts: the transactions                                      *)

\* The hashes a row of the catalog lets an import bring.
ImportRefused(text) == row.state \in {"pending", "archived"} /\ row.text # text

Import(text) == row' = IF row.state = "archived" THEN row ELSE [state |-> "pending", text |-> text]

FinalizeRefused(text) == row.state \notin {"pending", "archived"} \/ row.text # text

\* Deleting the row deletes its journal row too.
DeleteRow == row' = NoRow /\ journal' = 0
-----------------------------------------------------------------------------
(* archive-ops.ts: archiveCurrentSession, archiveInactiveSession           *)

\* stageSession.  Archiving the open session is confirmed first.
Stage(p) ==
  /\ At(p, "idle") /\ Alone(p) /\ Parses("active")
  /\ proc' = [proc EXCEPT ![p] = [@ EXCEPT !.pc = IF proc[p].open THEN "confirm" ELSE "import",
                                           !.text = files["active"].text]]
  /\ UNCHANGED <<files, row, journal, crashes>>

Confirmed(p) ==
  /\ At(p, "confirm")
  /\ Goto(p, "import") \/ Over(p)
  /\ UNCHANGED <<files, row, journal, crashes>>

\* An inactive session that is archived already is rejected; the current one
\* goes on to the switch.
ImportPending(p) ==
  /\ At(p, "import")
  /\ LET text == proc[p].text IN
       IF ImportRefused(text) \/ (~proc[p].open /\ row.state = "archived")
         THEN Over(p) /\ UNCHANGED row
         ELSE Import(text) /\ Goto(p, IF proc[p].open THEN "switching" ELSE "check")
  /\ UNCHANGED <<files, journal, crashes>>

\* The new session starts, and with it a reconciliation, before the file moves.
Switched(p) ==
  /\ At(p, "switching")
  /\ proc' = [proc EXCEPT ![p] = [Off EXCEPT !.pc = "journal", !.held = proc[p].text]]
  /\ UNCHANGED <<files, row, journal, crashes>>

\* discardPendingImport: only the row this command wrote.
SwitchCancelled(p) ==
  /\ At(p, "switching") /\ Over(p)
  /\ IF row = [state |-> "pending", text |-> proc[p].text] THEN DeleteRow ELSE UNCHANGED <<row, journal>>
  /\ UNCHANGED <<files, crashes>>
-----------------------------------------------------------------------------
(* archive-ops.ts: restoreArchivedSession                                  *)

\* /sessions shows the row unless the session is listed as active, and the copy
\* must pass the integrity check.
ChooseRestore(p) ==
  /\ At(p, "idle") /\ Alone(p) /\ row.state = "archived" /\ ~Parses("active")
  /\ Has("archive", row.text)
  /\ Goto(p, "begin")
  /\ UNCHANGED <<files, row, journal, crashes>>

\* A journal row that is there already is kept.
BeginRestore(p) ==
  /\ At(p, "begin")
  /\ IF row.state = "archived"
       THEN /\ journal' = IF journal = 0 THEN row.text ELSE journal
            /\ proc' = [proc EXCEPT ![p] = [@ EXCEPT !.pc = "check", !.kind = "restore", !.text = row.text]]
       ELSE Over(p) /\ UNCHANGED journal
  /\ UNCHANGED <<files, row, crashes>>
-----------------------------------------------------------------------------
(* rebuild.ts                                                              *)

PlanRebuild(p) ==
  /\ At(p, "idle") /\ Alone(p) /\ Parses("archive") /\ journal = 0 /\ row.state = "none"
  /\ proc' = [proc EXCEPT ![p] = [@ EXCEPT !.pc = "planned", !.text = files["archive"].text]]
  /\ UNCHANGED <<files, row, journal, crashes>>

ApplyRebuild(p) ==
  /\ At(p, "planned")
  /\ IF Has("archive", proc[p].text) /\ ~ImportRefused(proc[p].text)
       THEN Import(proc[p].text) /\ Goto(p, "chmod")
       ELSE Over(p) /\ UNCHANGED row
  /\ UNCHANGED <<files, journal, crashes>>
-----------------------------------------------------------------------------
(* reconcile.ts                                                            *)

\* The restore whose journal row is there, if any; the pending row afterwards.
ReconcileJournal(p) ==
  /\ At(p, "journal")
  /\ LET recover(pc) ==
           /\ proc' = [proc EXCEPT ![p] = [@ EXCEPT !.pc = pc, !.kind = "restore", !.by = "journal", !.text = journal]]
           /\ UNCHANGED row
     IN CASE journal = 0 -> Goto(p, "pending") /\ UNCHANGED row
          [] journal # 0 /\ Exists("archive") -> recover("check")
          [] journal # 0 /\ ~Exists("archive") /\ Has("active", journal) -> recover("chmod")
          [] OTHER -> Goto(p, "pending") /\ MarkError
  /\ UNCHANGED <<files, journal, crashes>>

DuplicateMatches == Has("active", row.text)

ReconcilePending(p) ==
  /\ At(p, "pending")
  /\ LET recover(pc) ==
           /\ proc' = [proc EXCEPT ![p] = [@ EXCEPT !.pc = pc, !.kind = "archive", !.by = "pending", !.text = row.text]]
           /\ UNCHANGED row
         give_up == Over(p) /\ MarkError
         leave == Over(p) /\ UNCHANGED row
     IN CASE row.state # "pending" -> leave
          [] row.state = "pending" /\ ~Exists("archive") ->
               IF Exists("active") THEN leave ELSE give_up
          [] row.state = "pending" /\ Exists("archive") ->
               IF ~Has("archive", row.text) THEN give_up
               ELSE IF ~Exists("active") THEN recover("chmod")
               ELSE IF ~DuplicateMatches THEN give_up
               ELSE IF proc[p].open THEN leave
               ELSE recover("unlink")
  /\ UNCHANGED <<files, journal, crashes>>
-----------------------------------------------------------------------------
(* archive-files.ts: moveVerifiedFile                                      *)

From(p) == IF proc[p].kind = "archive" THEN "active" ELSE "archive"
To(p) == IF proc[p].kind = "archive" THEN "archive" ELSE "active"

SameCopy(p) == Has(To(p), proc[p].text)

\* The source is moved by rename, or copied when that fails across file systems.
CheckMove(p) ==
  /\ At(p, "check")
  /\ IF ~Has(From(p), proc[p].text) \/ (Exists(To(p)) /\ ~SameCopy(p))
       THEN Throw(p)
       ELSE /\ IF Exists(To(p)) THEN Goto(p, "drop") ELSE \E way \in {"rename", "copy"} : Goto(p, way)
            /\ UNCHANGED <<row, journal>>
  /\ UNCHANGED <<files, crashes>>

Remove(p) == files' = [files EXCEPT ![From(p)] = NoFile]

\* The destination holds the bytes already.
DropSource(p) ==
  /\ At(p, "drop")
  /\ IF Has(From(p), proc[p].text)
       THEN Remove(p) /\ Goto(p, "chmod") /\ UNCHANGED <<row, journal>>
       ELSE Throw(p) /\ UNCHANGED files
  /\ UNCHANGED crashes

Rename(p) ==
  /\ At(p, "rename")
  /\ IF Exists(From(p))
       THEN /\ files' = [files EXCEPT ![To(p)] = files[From(p)], ![From(p)] = NoFile]
            /\ Goto(p, "verify") /\ UNCHANGED <<row, journal>>
       ELSE Throw(p) /\ UNCHANGED files
  /\ UNCHANGED crashes

\* The moved file is verified, and moved back when it is another.
VerifyMove(p) ==
  /\ At(p, "verify")
  /\ IF Has(To(p), proc[p].text)
       THEN Goto(p, "chmod") /\ UNCHANGED <<files, row, journal>>
       ELSE /\ files' = IF Exists(To(p)) THEN [files EXCEPT ![From(p)] = files[To(p)], ![To(p)] = NoFile]
                        ELSE files
            /\ Throw(p)
  /\ UNCHANGED crashes

\* Across devices: a temporary copy is verified with its source, then renamed.
CopyAcross(p) ==
  /\ At(p, "copy")
  /\ IF Has(From(p), proc[p].text)
       THEN /\ files' = [files EXCEPT ![To(p)] = files[From(p)]]
            /\ Goto(p, "dropCopied") /\ UNCHANGED <<row, journal>>
       ELSE Throw(p) /\ UNCHANGED files
  /\ UNCHANGED crashes

\* The source is unlinked, after a copy across devices or as the duplicate of a
\* pending row.
UnlinkSource(p) ==
  /\ At(p, "dropCopied") \/ At(p, "unlink")
  /\ IF Exists(From(p))
       THEN Remove(p) /\ Goto(p, "chmod") /\ UNCHANGED <<row, journal>>
       ELSE Throw(p) /\ UNCHANGED files
  /\ UNCHANGED crashes

\* Archived files are read-only, restored ones writable again.
Chmod(p) ==
  /\ At(p, "chmod")
  /\ IF Exists(To(p))
       THEN /\ files' = [files EXCEPT ![To(p)].ro = (proc[p].kind = "archive")]
            /\ Goto(p, "commit") /\ UNCHANGED <<row, journal>>
       ELSE Throw(p) /\ UNCHANGED files
  /\ UNCHANGED crashes

\* finalizeArchived or finishRestore.
Commit(p) ==
  /\ At(p, "commit")
  /\ IF proc[p].kind = "restore" THEN DeleteRow /\ Finish(p)
     ELSE IF FinalizeRefused(proc[p].text) THEN Throw(p)
     ELSE row' = [row EXCEPT !.state = "archived"] /\ UNCHANGED journal /\ Finish(p)
  /\ UNCHANGED <<files, crashes>>
-----------------------------------------------------------------------------
Recovery(p) == ReconcileJournal(p) \/ ReconcilePending(p)

Move(p) ==
  \/ CheckMove(p) \/ DropSource(p) \/ Rename(p) \/ VerifyMove(p)
  \/ CopyAcross(p) \/ UnlinkSource(p) \/ Chmod(p) \/ Commit(p)

Command(p) ==
  \/ Stage(p) \/ Confirmed(p) \/ ImportPending(p) \/ Switched(p) \/ SwitchCancelled(p)
  \/ ChooseRestore(p) \/ BeginRestore(p)
  \/ PlanRebuild(p) \/ ApplyRebuild(p)

Next == \E p \in Procs :
  \/ SessionStarts(p) \/ Quit(p) \/ Crash(p) \/ AppendEntry(p)
  \/ Command(p) \/ Recovery(p) \/ Move(p)

Spec == Init /\ [][Next]_vars
-----------------------------------------------------------------------------
Files == [text : 0..MaxText, ro : BOOLEAN] \cup {NoFile}

TypeOK ==
  /\ files \in [Places -> Files] /\ row \in Rows /\ journal \in 0..MaxText
  /\ proc \in [Procs -> [pc : PCs, open : BOOLEAN, kind : {"archive", "restore"},
                         by : {"user", "journal", "pending"}, text : 0..MaxText, held : 0..MaxText]]
  /\ crashes \in 0..MaxCrashes

Held(text) == \E place \in Places : Has(place, text)

\* "Every step preserves at least one complete JSONL copy" (README): no step takes
\* the last copy of a text away but the append that makes the next text of it.
CopyIsKept == \A text \in Texts : Held(text) /\ ~Held(text)' => Held(text + 1)'
KeepsACopy == [][CopyIsKept]_vars

\* An archived row can be read: unless a restore is under way, its file is in the
\* archive with the bytes that were indexed, and read-only.
ArchivedIsReadable ==
  row.state = "archived" /\ journal = 0 => files["archive"] = [text |-> row.text, ro |-> TRUE]
=============================================================================
