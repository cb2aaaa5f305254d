------------------------------- MODULE EntityDB -------------------------------
(***************************************************************************)
(* The subscriber database and what uses it:                               *)
(*   the daemon  loads /root/db.tsv, answers registrations                 *)
(*               (react_mm2_locupd) and group attachments                  *)
(*               (react_mm7_grpid), enrols unknown identities and saves    *)
(*               the file, and polls its modification time (sw/tetra_db.c, *)
(*               sw/tetra_attach_daemon.c); it may crash and be restarted; *)
(*   editors     requests of the web interface that add or remove a row    *)
(*               (sw/web/cgi-bin/entities.cgi); they share one temporary   *)
(*               file.                                                     *)
(*                                                                         *)
(* A row is an identity with its profile; profile 0 permits registration,  *)
(* the others are all zero.  A system call is one step, and so is reading, *)
(* writing or renaming a whole file.  The clock counts the seconds of      *)
(* st_mtime; a renamed file keeps the time at which it was written.        *)
(*                                                                         *)
(* SkipsFirstRow, KeptOnFailure, InPlace and StatAfterRead are faulty      *)
(* variants that the model does not use.                                   *)
(***************************************************************************)
EXTENDS Integers, FiniteSets, Sequences, SequencesExt

CONSTANTS
  Issis, Gssis,
  Default,     \* M2_FALLBACK_GILA_GSSI
  Slots,       \* the slots of the table, an interval from 0
  Editors,
  Profiles,    \* those an editor gives
  MaxTime, MaxEdits, MaxDemands, MaxCrashes,
  SaveFails,   \* whether a save may fail with an error
  WriteFails   \* whether the disk may be full while the rows are written

Ids == Issis \cup Gssis
NoRow == <<>>
Rows == Ids \X (Profiles \cup {0})
Tables == [Slots -> Rows \cup {NoRow}]
NoFile == [rows |-> [s \in Slots |-> NoRow], mtime |-> -1, whole |-> TRUE]

Empty(t) == [rows |-> [s \in Slots |-> NoRow], mtime |-> t, whole |-> FALSE]

ASSUME DbAssumption ==
  /\ Issis \cap Gssis = {} /\ Default \notin Issis
  /\ IsFiniteSet(Slots) /\ Slots \subseteq Nat /\ Slots # {}
  /\ Profiles \subseteq 0..5
  /\ MaxTime \in Nat /\ MaxEdits \in Nat /\ MaxDemands \in Nat
  /\ MaxCrashes \in Nat /\ SaveFails \in BOOLEAN /\ WriteFails \in BOOLEAN

VARIABLES
  file,    \* /root/db.tsv
  tmp,     \* <path>.tmp of the daemon
  new,     \* /tmp/db.tsv.NEW of the editors
  time,
  pc,      \* where the daemon is
  ram,     \* g_db.entries with slot_used
  memo,    \* g_db.mtime
  seen,    \* the time tetra_db_reload has just read
  job,     \* the demand it answers
  slot,    \* the slot tetra_db_alloc is filling
  replies, \* the replies sent
  edit,    \* what each editor is doing
  edits, demands, crashes,
  raced,   \* history: the file was replaced unseen since it was last read
  marred   \* history: a save met a full disk or two requests overlapped

daemonVars == <<tmp, pc, ram, memo, seen, job, slot, replies, demands>>
vars == <<file, new, time, daemonVars, edit, edits, crashes, raced, marred>>

-----------------------------------------------------------------------------
(* Tables.                                                                 *)

Used(t) == {s \in Slots : t[s] # NoRow}
Free(t) == Slots \ Used(t)
Lowest(S) == CHOOSE s \in S : \A x \in S : s <= x
With(t, id) == {s \in Used(t) : t[s][1] = id}
SkipsFirstRow(t, id) == \E s \in Used(t) \ {0} : t[s][1] = id
Known(t, id) == With(t, id) # {}
Members(t) == {t[s][1] : s \in Used(t)}

-----------------------------------------------------------------------------
(* The daemon's use of the file.                                           *)

(* tetra_db_load reads, then asks for the time. *)
Load ==
  /\ pc = "off"
  /\ pc' = "loaded"
  /\ ram' = file.rows
  /\ memo' = -1
  /\ raced' = FALSE
  /\ UNCHANGED <<file, new, time, tmp, seen, job, slot, replies, edit, edits,
                 demands, crashes, marred>>

LoadStat ==
  /\ pc = "loaded"
  /\ pc' = "ready"
  /\ memo' = file.mtime
  /\ UNCHANGED <<file, new, time, tmp, ram, seen, job, slot, replies, edit,
                 edits, demands, crashes, raced, marred>>

(* tetra_db_reload asks for the time, then reads if it is another one. *)
ReloadStat ==
  /\ pc = "ready"
  /\ file.mtime # memo
  /\ seen' = file.mtime
  /\ pc' = "reload"
  /\ UNCHANGED <<file, new, time, tmp, ram, memo, job, slot, replies, edit,
                 edits, demands, crashes, raced, marred>>

(* The poll that finds the remembered time changes nothing. *)
ReloadSame ==
  /\ pc = "ready"
  /\ file.mtime = memo
  /\ UNCHANGED vars

StatAfterRead == file.mtime
Remembered == seen

Reload ==
  /\ pc = "reload"
  /\ ram' = file.rows
  /\ raced' = FALSE
  /\ pc' = "reloaded"
  /\ UNCHANGED <<file, new, time, tmp, memo, seen, job, slot, replies, edit,
                 edits, demands, crashes, marred>>

Reloaded ==
  /\ pc = "reloaded"
  /\ memo' = Remembered
  /\ pc' = "ready"
  /\ UNCHANGED <<file, new, time, tmp, ram, seen, job, slot, replies, edit,
                 edits, demands, crashes, raced, marred>>

-----------------------------------------------------------------------------
(* Demands.  A job lists the identities to resolve, the issi of a          *)
(* registration first.                                                     *)

NoJob == [kind |-> "none"]

Receive(kind, i, groups, allowIssi, allowGssi) ==
  /\ pc = "ready"
  /\ demands < MaxDemands
  /\ demands' = demands + 1
  /\ job' = [kind |-> kind, to |-> i,
             todo |-> IF kind = "mm2" THEN <<i>> \o groups ELSE groups,
             allow |-> (IF allowIssi THEN Issis ELSE {})
                       \cup (IF allowGssi THEN Gssis ELSE {}),
             tried |-> FALSE, ok |-> TRUE, got |-> {}]
  /\ pc' = "react"
  /\ UNCHANGED <<file, new, time, tmp, ram, memo, seen, slot, replies, edit,
                 edits, crashes, raced, marred>>

(* U-LOCATION UPDATE DEMAND carries one group at most, U-ATTACH/DETACH     *)
(* GROUP IDENTITY up to three; here up to two.                             *)
ReceiveDemand ==
  \E i \in Issis, allowIssi, allowGssi \in BOOLEAN :
    \/ \E groups \in {<<>>} \cup {<<g>> : g \in Gssis} :
         Receive("mm2", i, groups, allowIssi, allowGssi)
    \/ \E groups \in {<<g>> : g \in Gssis} \cup (Gssis \X Gssis) :
         Receive("mm7", i, groups, allowIssi, allowGssi)

Subject == Head(job.todo)
MayEnrol(id) == id \in job.allow /\ ~job.tried /\ Free(ram) # {}

(* tetra_db_alloc takes the first free slot in memory. *)
Alloc ==
  /\ pc = "react" /\ job.todo # <<>>
  /\ ~Known(ram, Subject) /\ MayEnrol(Subject)
  /\ slot' = Lowest(Free(ram))
  /\ ram' = [ram EXCEPT ![slot'] = <<Subject, 0>>]
  /\ job' = [job EXCEPT !.tried = TRUE]
  /\ pc' = "save"
  /\ UNCHANGED <<file, new, time, tmp, memo, seen, replies, edit, edits,
                 demands, crashes, raced, marred>>

(* The next identity: resolved, or not and never to be. *)
Resolve ==
  /\ pc = "react" /\ job.todo # <<>>
  /\ Known(ram, Subject) \/ ~MayEnrol(Subject)
  /\ job' = [job EXCEPT
               !.todo = Tail(@), !.tried = FALSE,
               !.ok = @ /\ (Subject \in Issis => Known(ram, Subject)),
               !.got = IF Subject \in Gssis /\ Known(ram, Subject)
                       THEN @ \cup {Subject} ELSE @]
  /\ UNCHANGED <<file, new, time, tmp, pc, ram, memo, seen, slot, replies, edit,
                 edits, demands, crashes, raced, marred>>

(* A registration names the group it granted, or the default group; a      *)
(* reject names none.                                                      *)
Granted == IF ~job.ok THEN {} ELSE IF job.got = {} THEN {Default} ELSE job.got

Reply ==
  /\ pc = "react" /\ job.todo = <<>>
  /\ replies' =
       IF job.kind = "mm2"
       THEN replies \cup {[kind |-> "mm2", to |-> job.to, ok |-> job.ok, groups |-> Granted]}
       ELSE IF job.got = {} THEN replies
       ELSE replies \cup {[kind |-> "mm7", to |-> job.to, ok |-> TRUE, groups |-> Granted]}
  /\ job' = NoJob
  /\ pc' = "ready"
  /\ UNCHANGED <<file, new, time, tmp, ram, memo, seen, slot, edit, edits,
                 demands, crashes, raced, marred>>

-----------------------------------------------------------------------------
(* save_tsv.                                                               *)

KeptOnFailure == ram
RolledBack == [ram EXCEPT ![slot] = NoRow]

SaveFailed ==
  /\ SaveFails
  /\ pc \in {"save", "rename"}
  /\ ram' = RolledBack
  /\ pc' = "react"
  /\ tmp' = IF pc = "rename" THEN NoFile ELSE tmp
  /\ UNCHANGED <<file, new, time, memo, seen, job, slot, replies, edit,
                 edits, demands, crashes, raced, marred>>

InPlace(t) == file' = t
Aside(t) == file' = file

SaveOpen ==
  /\ pc = "save"
  /\ tmp' = Empty(time)
  /\ Aside(tmp')
  /\ pc' = "write"
  /\ UNCHANGED <<new, time, ram, memo, seen, job, slot, replies, edit, edits,
                 demands, crashes, raced, marred>>

(* What fprintf, fflush and fsync return is not looked at. *)
SaveWrite ==
  /\ pc = "write"
  /\ \/ tmp' = [rows |-> ram, mtime |-> time, whole |-> TRUE] /\ marred' = marred
     \/ WriteFails /\ tmp' = [tmp EXCEPT !.mtime = time] /\ marred' = TRUE
  /\ Aside(tmp')
  /\ pc' = "rename"
  /\ UNCHANGED <<new, time, ram, memo, seen, job, slot, replies, edit, edits,
                 demands, crashes, raced>>

(* An editor that still writes to the file that is replaced writes in vain. *)
Replaced(w) ==
  [e \in Editors |->
     IF w[e].op = "fill" /\ w[e].at = "file" THEN [w[e] EXCEPT !.at = "gone"]
     ELSE w[e]]

SaveRename ==
  /\ pc = "rename"
  /\ file' = tmp
  /\ tmp' = NoFile
  /\ pc' = "stat"
  /\ edit' = Replaced(edit)
  /\ UNCHANGED <<new, time, ram, memo, seen, job, slot, replies, edits, demands,
                 crashes, raced, marred>>

Refreshed == file.mtime

SaveStat ==
  /\ pc = "stat"
  /\ memo' = Refreshed
  /\ pc' = "react"
  /\ UNCHANGED <<file, new, time, tmp, ram, seen, job, slot, replies, edit,
                 edits, demands, crashes, raced, marred>>

(* The daemon dies and is started again. *)
Crash ==
  /\ pc # "off" /\ crashes < MaxCrashes
  /\ crashes' = crashes + 1
  /\ pc' = "off"
  /\ ram' = [s \in Slots |-> NoRow] /\ memo' = -1 /\ seen' = -1
  /\ job' = NoJob /\ slot' = 0
  /\ UNCHANGED <<file, tmp, new, time, replies, edit, edits, demands, raced, marred>>

-----------------------------------------------------------------------------
(* The web interface.                                                      *)

Idle == [op |-> "idle"]

(* The daemon's next look at the time may take it for one it knows.        *)
Unseen(mtime) == pc \in {"loaded", "stat"} \/ mtime \in {memo, seen}

(* add: a slot without a row, chosen by the request or by next_free_slot.  *)
EditAdd(e, s, id, p) ==
  /\ edit[e] = Idle /\ edits < MaxEdits
  /\ file.rows[s] = NoRow
  /\ edits' = edits + 1
  /\ edit' = [edit EXCEPT ![e] = [op |-> "add", row |-> <<id, p>>, slot |-> s]]
  /\ UNCHANGED <<file, new, time, daemonVars, crashes, raced, marred>>

EditDel(e, s) ==
  /\ edit[e] = Idle /\ edits < MaxEdits
  /\ file.rows[s] # NoRow
  /\ edits' = edits + 1
  /\ edit' = [edit EXCEPT ![e] = [op |-> "del", row |-> NoRow, slot |-> s]]
  /\ UNCHANGED <<file, new, time, daemonVars, crashes, raced, marred>>

(* write_atomic opens the one temporary file there is, whoever else is     *)
(* writing it; "at" is where the file an editor has open is by now.        *)
Moved(w) ==
  [e \in Editors |->
     IF w[e].op # "fill" THEN w[e]
     ELSE [w[e] EXCEPT !.at = IF @ = "new" THEN "file" ELSE "gone"]]

Overlaps(e) == \E o \in Editors \ {e} : edit[o].op \in {"fill", "move"}

EditOpen(e) ==
  /\ edit[e].op \in {"add", "del"}
  /\ new' = Empty(time)
  /\ edit' = [edit EXCEPT ![e] = [op |-> "fill", row |-> @.row,
                                  slot |-> @.slot, at |-> "new"]]
  /\ marred' = (marred \/ Overlaps(e))
  /\ UNCHANGED <<file, time, daemonVars, edits, crashes, raced>>

(* The rows of the file with the one of the slot replaced.                 *)
EditWrite(e) ==
  /\ edit[e].op = "fill"
  /\ LET text == [rows |-> [file.rows EXCEPT ![edit[e].slot] = edit[e].row],
                  mtime |-> time, whole |-> TRUE]
     IN  /\ new' = IF edit[e].at = "new" THEN text ELSE new
         /\ file' = IF edit[e].at = "file" THEN text ELSE file
         /\ raced' = IF edit[e].at = "file" THEN Unseen(time) ELSE raced
  /\ edit' = [edit EXCEPT ![e] = [op |-> "move"]]
  /\ UNCHANGED <<time, daemonVars, edits, crashes, marred>>

(* Without the temporary file mv fails, and the request with it.           *)
EditMove(e) ==
  /\ edit[e].op = "move"
  /\ file' = IF new = NoFile THEN file ELSE new
  /\ new' = NoFile
  /\ edit' = [(IF new = NoFile THEN edit ELSE Moved(edit)) EXCEPT ![e] = Idle]
  /\ raced' = IF new = NoFile THEN raced ELSE Unseen(new.mtime)
  /\ UNCHANGED <<time, daemonVars, edits, crashes, marred>>

-----------------------------------------------------------------------------

Second ==
  /\ time < MaxTime
  /\ time' = time + 1
  /\ UNCHANGED <<file, new, daemonVars, edit, edits, crashes, raced, marred>>

(* The file is seeded with one subscriber. *)
Init ==
  /\ \E i \in Issis :
       file = [rows |-> [s \in Slots |-> IF s = 0 THEN <<i, 0>> ELSE NoRow],
               mtime |-> 0, whole |-> TRUE]
  /\ tmp = NoFile /\ new = NoFile /\ time = 0
  /\ pc = "off" /\ ram = [s \in Slots |-> NoRow] /\ memo = -1 /\ seen = -1
  /\ job = NoJob /\ slot = 0 /\ replies = {}
  /\ edit = [e \in Editors |-> Idle]
  /\ edits = 0 /\ demands = 0 /\ crashes = 0 /\ raced = FALSE
  /\ marred = FALSE

DaemonStep ==
  \/ Load \/ LoadStat \/ ReloadSame \/ ReloadStat \/ Reload \/ Reloaded
  \/ Alloc \/ Resolve \/ Reply
  \/ SaveOpen \/ SaveWrite \/ SaveRename \/ SaveStat

EditorStep ==
  \E e \in Editors :
    \/ \E s \in Slots, id \in Ids, p \in Profiles : EditAdd(e, s, id, p)
    \/ \E s \in Slots : EditDel(e, s)
    \/ EditOpen(e)
    \/ EditWrite(e)
    \/ EditMove(e)

Next == DaemonStep \/ ReceiveDemand \/ SaveFailed \/ Crash \/ EditorStep \/ Second

Spec == Init /\ [][Next]_vars

-----------------------------------------------------------------------------
(* Properties.                                                             *)

(* tetra_db.c save_tsv, "Atomic write": a crash at any point of a save, or *)
(* a save that fails, never leaves half a file for the next start to read, *)
(* and neither do web requests, until the disk is full or two requests     *)
(* overlap.                                                                *)
FileWhole == marred \/ file.whole

(* tetra_db_alloc: no identity is entered twice, though it looks for it in *)
(* memory, which a crash forgets and a reload replaces; as long as nobody  *)
(* edits the file.                                                         *)
NoTwice == edits = 0 => \A id \in Ids : Cardinality(With(ram, id)) <= 1

(* react_mm2_locupd, react_mm7_grpid: a subscriber whose registration was  *)
(* accepted and a group that was granted are in the file, whatever crashed *)
(* or failed before or since, unless the disk was full or an editor took   *)
(* them out.                                                               *)
AcceptedOnDisk ==
  ~marred /\ edits = 0 =>
    \A r \in replies :
      /\ r.groups \ {Default} \subseteq Members(file.rows)
      /\ r.kind = "mm2" /\ r.ok => r.to \in Members(file.rows)

(* tetra_db_reload: when the poll will find the remembered time, memory is *)
(* the file, unless an editor's file took its place with that very time or *)
(* in the gap of tetra_db_load or save_tsv between the content and its     *)
(* time, or the file was cut short by a full disk.                         *)
EditSeen ==
  pc = "ready" /\ memo = file.mtime /\ file.whole /\ ~raced => ram = file.rows
=============================================================================
