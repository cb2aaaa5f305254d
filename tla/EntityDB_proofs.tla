--------------------------- MODULE EntityDB_proofs ---------------------------
(***************************************************************************)
(* Theorems about the subscriber database, for every number of slots,      *)
(* identities, demands, crashes and editors: the file is never half        *)
(* written, memory that the poll takes for the file is the file, no        *)
(* identity is entered twice, and what was granted is in the file.         *)
(***************************************************************************)
EXTENDS EntityDB, FiniteSetTheorems, SequenceTheorems, WellFoundedInduction,
        TLAPS

-----------------------------------------------------------------------------
(* The file is whole.                                                      *)

(* Until then, what the daemon is about to rename is whole; the editors'   *)
(* file is, too, unless an editor has it open, and an editor that has a    *)
(* file open has that one and works alone.                                 *)
InWork(w, e) == w[e].op \in {"fill", "move"}

Clean ==
  /\ file.whole = TRUE
  /\ pc = "rename" => tmp.whole = TRUE
  /\ edit = [e \in Editors |-> edit[e]]
  /\ new.whole = TRUE \/ \E e \in Editors : edit[e].op = "fill"
  /\ \A e \in Editors : edit[e].op = "fill" => edit[e].at = "new"
  /\ \A d, e \in Editors : InWork(edit, d) /\ InWork(edit, e) => d = e

WholeInv == marred = TRUE \/ Clean

LEMMA WholeInit == Init => WholeInv
  BY DEF Init, WholeInv, Clean, InWork, NoFile, Idle

(* What the editors hold is not touched by the daemon. *)
LEMMA OthersKeep ==
  ASSUME WholeInv, Clean => file'.whole = TRUE, UNCHANGED <<new, edit, marred>>,
         Clean => (pc' = "rename" => tmp'.whole = TRUE)
  PROVE  WholeInv'
  BY DEF WholeInv, Clean, InWork

(* A full disk is remembered. *)
LEMMA MarredStays == ASSUME marred = TRUE, [Next]_vars PROVE marred' = TRUE
  BY DEF Next, DaemonStep, EditorStep, ReceiveDemand, Receive, Load, LoadStat,
     ReloadStat, ReloadSame, Reload, Reloaded, Alloc, Resolve, Reply, SaveOpen,
     SaveWrite, SaveRename, SaveStat, SaveFailed, Crash, EditAdd, EditDel,
     EditOpen, EditWrite, EditMove, Second, vars

(* Every step keeps it. *)
LEMMA WholeStep == ASSUME WholeInv, [Next]_vars PROVE WholeInv'
<1>0. CASE marred = TRUE
  BY <1>0, MarredStays DEF WholeInv
<1> SUFFICES ASSUME marred # TRUE, Clean PROVE WholeInv'
  BY <1>0 DEF WholeInv
<1>1. CASE DaemonStep
  <2>1. CASE Load \/ LoadStat \/ ReloadStat \/ ReloadSame \/ Reload \/ Reloaded
    BY <2>1, OthersKeep DEF Load, LoadStat, ReloadStat, ReloadSame, Reload,
       Reloaded, vars, daemonVars, Clean
  <2>2. CASE Alloc \/ Resolve \/ Reply
    BY <2>2, OthersKeep DEF Alloc, Resolve, Reply, Clean
  <2>3. CASE SaveOpen
    BY <2>3, OthersKeep DEF SaveOpen, Aside, Clean
  <2>4. CASE SaveWrite
    <3>1. CASE tmp' = [rows |-> ram, mtime |-> time, whole |-> TRUE] /\ marred' = marred
      BY <2>4, <3>1, OthersKeep DEF SaveWrite, Aside, Clean
    <3>2. CASE marred' = TRUE
      BY <3>2 DEF WholeInv
    <3> QED BY <2>4, <3>1, <3>2 DEF SaveWrite
  <2>5. CASE SaveRename
    <3>1. edit' = edit
      BY <2>5 DEF SaveRename, Replaced, Clean
    <3> QED BY <2>5, <3>1, OthersKeep DEF SaveRename, Clean
  <2>6. CASE SaveStat
    BY <2>6, OthersKeep DEF SaveStat, Clean
  <2> QED BY <1>1, <2>1, <2>2, <2>3, <2>4, <2>5, <2>6 DEF DaemonStep
<1>2. CASE ReceiveDemand
  BY <1>2, OthersKeep DEF ReceiveDemand, Receive, Clean
<1>3. CASE SaveFailed
  BY <1>3, OthersKeep DEF SaveFailed, Clean
<1>4. CASE Crash
  BY <1>4, OthersKeep DEF Crash, Clean
<1>5. CASE EditorStep
  <2> PICK e \in Editors :
        \/ \E s \in Slots, id \in Ids, p \in Profiles : EditAdd(e, s, id, p)
        \/ \E s \in Slots : EditDel(e, s)
        \/ EditOpen(e)
        \/ EditWrite(e)
        \/ EditMove(e)
    BY <1>5 DEF EditorStep
  <2>1. CASE (\E s \in Slots, id \in Ids, p \in Profiles : EditAdd(e, s, id, p))
             \/ (\E s \in Slots : EditDel(e, s))
    <3>1. PICK r : /\ edit[e] = Idle
                   /\ edit' = [edit EXCEPT ![e] = r]
                   /\ r.op \in {"add", "del"}
                   /\ UNCHANGED <<file, new, tmp, pc, marred>>
      BY <2>1 DEF EditAdd, EditDel, daemonVars
    <3> QED BY <3>1 DEF WholeInv, Clean, InWork, Idle
  <2>2. CASE EditOpen(e)
    <3>1. CASE Overlaps(e)
      BY <2>2, <3>1 DEF EditOpen, WholeInv
    <3>2. CASE ~Overlaps(e)
      <4>1. \A o \in Editors : o # e => ~InWork(edit, o) /\ edit'[o] = edit[o]
        BY <2>2, <3>2 DEF Overlaps, InWork, EditOpen, Clean
      <4>2. edit'[e].op = "fill" /\ edit'[e].at = "new"
        BY <2>2 DEF EditOpen, Clean
      <4> QED BY <2>2, <4>1, <4>2 DEF EditOpen, Clean, WholeInv, InWork, daemonVars
    <3> QED BY <3>1, <3>2
  <2>3. CASE EditWrite(e)
    <3>1. \A o \in Editors : o # e => edit[o].op # "fill" /\ edit'[o] = edit[o]
      BY <2>3 DEF EditWrite, Clean, InWork
    <3>2. edit'[e].op = "move" /\ edit[e].at = "new"
      BY <2>3 DEF EditWrite, Clean
    <3>3. \A o \in Editors : InWork(edit', o) => InWork(edit, o)
      BY <2>3, <3>1, <3>2 DEF EditWrite, InWork
    <3> QED BY <2>3, <3>1, <3>2, <3>3 DEF EditWrite, Clean, WholeInv, InWork, daemonVars
  <2>4. CASE EditMove(e)
    <3>1. \A o \in Editors : edit[o].op # "fill"
      BY <2>4 DEF EditMove, Clean, InWork
    <3>2. Moved(edit) = edit /\ new.whole = TRUE
      BY <3>1 DEF Moved, Clean
    <3>3. edit' = [edit EXCEPT ![e] = Idle]
      BY <2>4, <3>2 DEF EditMove
    <3> QED BY <2>4, <3>1, <3>2, <3>3 DEF EditMove, Clean, WholeInv, InWork,
               NoFile, Idle, daemonVars
  <2> QED BY <2>1, <2>2, <2>3, <2>4
<1>6. CASE Second
  BY <1>6, OthersKeep DEF Second, daemonVars, Clean
<1>7. CASE UNCHANGED vars
  BY <1>7, OthersKeep DEF vars, daemonVars, Clean
<1> QED BY <1>1, <1>2, <1>3, <1>4, <1>5, <1>6, <1>7 DEF Next

(* save_tsv and write_atomic: neither a crash nor a failing save leaves    *)
(* half a file, nor does a web request at any moment of them, until the    *)
(* disk is full or requests overlap.                                       *)
THEOREM FileIsWhole == Spec => []FileWhole
<1>1. WholeInv /\ [Next]_vars => WholeInv'
  BY WholeStep
<1>2. WholeInv => FileWhole
  BY DEF WholeInv, Clean, FileWhole
<1> QED BY WholeInit, <1>1, <1>2, PTL DEF Spec

-----------------------------------------------------------------------------
(* Memory and the file.                                                    *)

IsTable(t) == t = [s \in Slots |-> t[s]]

TablesOK ==
  IsTable(ram) /\ IsTable(file.rows) /\ IsTable(tmp.rows) /\ IsTable(new.rows)

Saving == pc \in {"save", "write", "rename"}

(* While the table is being saved, slot is the row that was just entered.  *)
Entered == Saving => slot \in Slots

(* What is about to be renamed is memory, unless it was cut short.         *)
CopyTrue ==
  /\ pc = "write" => tmp = Empty(tmp.mtime)
  /\ pc = "rename" => (tmp.whole => tmp.rows = ram)

(* No editor's file came unseen and the file is not cut short.             *)
Plain == file.whole /\ ~raced

(* Wherever the daemon will compare times, a time that it will take for    *)
(* the one of its memory is the time of its memory: of memory as it was    *)
(* before the row that is being saved.                                     *)
Mirrors ==
  /\ pc = "loaded" /\ ~raced => ram = file.rows
  /\ pc \in {"ready", "react"} /\ memo = file.mtime /\ Plain => ram = file.rows
  /\ pc = "reloaded" /\ seen = file.mtime /\ Plain => ram = file.rows
  /\ Saving /\ memo = file.mtime /\ Plain => RolledBack = file.rows
  /\ pc = "stat" /\ Plain => ram = file.rows

SeenInv == TablesOK /\ Entered /\ CopyTrue /\ Mirrors

(* The lowest of some slots is one of them.                                *)
LEMMA LowestIn ==
  ASSUME NEW S \in SUBSET Slots, S # {}
  PROVE  Lowest(S) \in S
<1> DEFINE Lt == {p \in Nat \X Nat : p[1] < p[2]}
<1>1. IsWellFoundedOn(Lt, Nat) /\ S \subseteq Nat
  BY NatLessThanWellFounded, DbAssumption DEF OpToRel
<1> HIDE DEF Lt
<1>2. PICK m \in S : \A n \in S : <<n, m>> \notin Lt
  BY <1>1, WFMin
<1>3. \A n \in S : ~(n < m)
  BY <1>1, <1>2 DEF Lt
<1>4. \A n \in S : m <= n
  BY <1>1, <1>3
<1>. QED
  BY <1>4 DEF Lowest

(* A row entered in a free slot and taken out again leaves no trace.       *)
LEMMA EnterAndRollBack ==
  ASSUME IsTable(ram), Alloc
  PROVE  /\ slot' \in Slots /\ slot' \in Free(ram)
         /\ IsTable(ram') /\ RolledBack' = ram
<1>1. slot' \in Free(ram) /\ slot' \in Slots
  BY LowestIn DEF Alloc, MayEnrol, Free
<1>2. ram[slot'] = NoRow /\ ram' = [ram EXCEPT ![slot'] = <<Subject, 0>>]
  BY <1>1 DEF Alloc, Free, Used
<1>. QED
  BY <1>1, <1>2 DEF IsTable, RolledBack

LEMMA EmptyTables ==
  /\ IsTable([s \in Slots |-> NoRow]) /\ IsTable(NoFile.rows)
  /\ \A t : IsTable(Empty(t).rows) /\ ~Empty(t).whole /\ Empty(t).mtime = t
  BY DEF IsTable, NoFile, Empty

LEMMA SeenInit == Init => SeenInv
<1> SUFFICES ASSUME Init PROVE SeenInv
  OBVIOUS
<1>1. IsTable(file.rows)
  BY DEF Init, IsTable
<1>2. TablesOK
  BY <1>1, EmptyTables DEF Init, TablesOK
<1>. QED
  BY <1>2 DEF Init, SeenInv, Entered, CopyTrue, Mirrors, Saving

(* Loading and polling.                                                    *)
LEMMA SeenPoll ==
  ASSUME SeenInv,
         \/ Load \/ LoadStat \/ ReloadStat \/ Reload \/ Reloaded \/ SaveStat
         \/ ReceiveDemand \/ Resolve \/ Reply \/ Second \/ UNCHANGED vars
  PROVE  SeenInv'
<1> USE DEF SeenInv, TablesOK, Entered, CopyTrue, Mirrors, Saving, Plain,
            RolledBack
<1>1. CASE Load
  BY <1>1 DEF Load
<1>2. CASE LoadStat
  BY <1>2 DEF LoadStat
<1>3. CASE ReloadStat
  BY <1>3 DEF ReloadStat
<1>4. CASE Reload
  BY <1>4 DEF Reload
<1>5. CASE Reloaded
  BY <1>5 DEF Reloaded, Remembered
<1>6. CASE SaveStat
  BY <1>6 DEF SaveStat, Refreshed
<1>7. CASE ReceiveDemand
  BY <1>7 DEF ReceiveDemand, Receive
<1>8. CASE Resolve
  BY <1>8 DEF Resolve
<1>9. CASE Reply
  BY <1>9 DEF Reply
<1>10. CASE Second
  BY <1>10 DEF Second, daemonVars
<1>11. CASE UNCHANGED vars
  BY <1>11 DEF vars, daemonVars
<1>. QED
  BY <1>1, <1>2, <1>3, <1>4, <1>5, <1>6, <1>7, <1>8, <1>9, <1>10, <1>11

(* Entering a row and saving the table.                                    *)
LEMMA SeenSave ==
  ASSUME SeenInv,
         Alloc \/ SaveOpen \/ SaveWrite \/ SaveRename \/ SaveFailed \/ Crash
  PROVE  SeenInv'
<1> USE DEF SeenInv, TablesOK, Entered, CopyTrue, Mirrors, Saving, Plain
<1>1. CASE Alloc
  BY <1>1, EnterAndRollBack DEF Alloc
<1>2. CASE SaveOpen
  BY <1>2, EmptyTables DEF SaveOpen, Aside, RolledBack
<1>3. CASE SaveWrite
  <2>1. CASE tmp' = [rows |-> ram, mtime |-> time, whole |-> TRUE]
    BY <1>3, <2>1 DEF SaveWrite, Aside, RolledBack
  <2>2. CASE tmp' = [tmp EXCEPT !.mtime = time]
    <3>1. PICK t : tmp = Empty(t)
      BY <1>3 DEF SaveWrite
    <3>2. tmp' = Empty(time)
      BY <2>2, <3>1, Zenon DEF Empty
    <3>. QED
      BY <1>3, <3>2, EmptyTables DEF SaveWrite, Aside, RolledBack
  <2>. QED
    BY <1>3, <2>1, <2>2 DEF SaveWrite
<1>4. CASE SaveRename
  BY <1>4, EmptyTables DEF SaveRename
<1>5. CASE SaveFailed
  BY <1>5, EmptyTables DEF SaveFailed, RolledBack, IsTable
<1>6. CASE Crash
  BY <1>6, EmptyTables DEF Crash
<1>. QED
  BY <1>1, <1>2, <1>3, <1>4, <1>5, <1>6

(* A file that comes from an editor is known to have come, or bears a time *)
(* that the daemon will not take for the one of its memory.                *)
LEMMA SeenReplaced ==
  ASSUME SeenInv, NEW f, IsTable(f.rows), IsTable(new'.rows),
         file' = f, raced' = Unseen(f.mtime), UNCHANGED daemonVars
  PROVE  SeenInv'
  BY DEF SeenInv, TablesOK, Entered, CopyTrue, Mirrors, Saving, Plain, Unseen,
         daemonVars, RolledBack

LEMMA SeenKept ==
  ASSUME SeenInv, IsTable(new'.rows), UNCHANGED <<file, raced, daemonVars>>
  PROVE  SeenInv'
  BY DEF SeenInv, TablesOK, Entered, CopyTrue, Mirrors, Saving, Plain,
         daemonVars, RolledBack

LEMMA SeenEdit ==
  ASSUME SeenInv, EditorStep
  PROVE  SeenInv'
<1> PICK e \in Editors :
      \/ \E s \in Slots, id \in Ids, p \in Profiles : EditAdd(e, s, id, p)
      \/ \E s \in Slots : EditDel(e, s)
      \/ EditOpen(e)
      \/ EditWrite(e)
      \/ EditMove(e)
  BY DEF EditorStep
<1>1. IsTable(new.rows) /\ IsTable(file.rows)
  BY DEF SeenInv, TablesOK
<1>2. CASE \E s \in Slots, id \in Ids, p \in Profiles : EditAdd(e, s, id, p)
  BY <1>1, <1>2, SeenKept DEF EditAdd
<1>3. CASE \E s \in Slots : EditDel(e, s)
  BY <1>1, <1>3, SeenKept DEF EditDel
<1>4. CASE EditOpen(e)
  BY <1>4, EmptyTables, SeenKept DEF EditOpen
<1>5. CASE EditWrite(e)
  <2> DEFINE text == [rows |-> [file.rows EXCEPT ![edit[e].slot] = edit[e].row],
                      mtime |-> time, whole |-> TRUE]
  <2>1. IsTable(text.rows) /\ text.mtime = time
    BY <1>1 DEF IsTable
  <2>2. /\ new' = IF edit[e].at = "new" THEN text ELSE new
        /\ file' = IF edit[e].at = "file" THEN text ELSE file
        /\ raced' = IF edit[e].at = "file" THEN Unseen(time) ELSE raced
        /\ UNCHANGED daemonVars
    BY <1>5 DEF EditWrite
  <2> HIDE DEF text
  <2>3. CASE edit[e].at = "file"
    BY <1>1, <2>1, <2>2, <2>3, SeenReplaced
  <2>4. CASE edit[e].at # "file"
    BY <1>1, <2>1, <2>2, <2>4, SeenKept
  <2>. QED
    BY <2>3, <2>4
<1>6. CASE EditMove(e)
  <2>1. IsTable(new'.rows)
    BY <1>6, EmptyTables DEF EditMove
  <2>2. CASE new = NoFile
    BY <1>6, <2>1, <2>2, SeenKept DEF EditMove
  <2>3. CASE new # NoFile
    BY <1>1, <1>6, <2>1, <2>3, SeenReplaced DEF EditMove
  <2>. QED
    BY <2>2, <2>3
<1>. QED
  BY <1>2, <1>3, <1>4, <1>5, <1>6

LEMMA SeenStep == ASSUME SeenInv, [Next]_vars PROVE SeenInv'
  BY SeenPoll, SeenSave, SeenEdit DEF Next, DaemonStep, ReloadSame

(* tetra_db_reload goes by the second of the last change: the tables that  *)
(* bear the time it remembers are the tables it holds, but for the races   *)
(* and the full disk that the property names.                              *)
THEOREM EditSeenCorrect == Spec => []EditSeen
<1>1. SeenInv /\ [Next]_vars => SeenInv'
  BY SeenStep
<1>2. SeenInv => EditSeen
  BY DEF SeenInv, Mirrors, Plain, EditSeen
<1>. QED
  BY SeenInit, <1>1, <1>2, PTL DEF Spec

-----------------------------------------------------------------------------
(* While nobody has edited the file.                                       *)

Undisturbed == new = NoFile /\ \A e \in Editors : edit[e] = Idle

QuietInv == edits \in Nat /\ (edits = 0 => Undisturbed)

OtherStep == DaemonStep \/ ReceiveDemand \/ SaveFailed \/ Crash \/ Second

LEMMA QuietInit == Init => QuietInv
  BY DEF Init, QuietInv, Undisturbed

(* An editor that does not begin now must have begun before.               *)
LEMMA EditorsCount ==
  ASSUME QuietInv, EditorStep
  PROVE  edits' \in Nat /\ edits' # 0
<1> PICK e \in Editors :
      \/ \E s \in Slots, id \in Ids, p \in Profiles : EditAdd(e, s, id, p)
      \/ \E s \in Slots : EditDel(e, s)
      \/ EditOpen(e)
      \/ EditWrite(e)
      \/ EditMove(e)
  BY DEF EditorStep
<1>1. CASE (\E s \in Slots, id \in Ids, p \in Profiles : EditAdd(e, s, id, p))
           \/ (\E s \in Slots : EditDel(e, s))
  <2>1. edits' = edits + 1
    BY <1>1 DEF EditAdd, EditDel
  <2>. QED
    BY <2>1 DEF QuietInv
<1>2. CASE EditOpen(e) \/ EditWrite(e) \/ EditMove(e)
  <2>1. edit[e].op \in {"add", "del", "fill", "move"} /\ edits' = edits
    BY <1>2 DEF EditOpen, EditWrite, EditMove
  <2>. QED
    BY <2>1 DEF QuietInv, Undisturbed, Idle
<1>. QED
  BY <1>1, <1>2

LEMMA OthersQuiet ==
  ASSUME QuietInv, OtherStep \/ UNCHANGED vars
  PROVE  edits' = edits /\ QuietInv'
<1>1. edits' = edits /\ new' = new /\ (edit' = edit \/ edit' = Replaced(edit))
  BY DEF OtherStep, DaemonStep, ReceiveDemand, Receive, Load, LoadStat,
     ReloadStat, ReloadSame, Reload, Reloaded, Alloc, Resolve, Reply, SaveOpen,
     SaveWrite, SaveRename, SaveStat, SaveFailed, Crash, Second, vars
<1>. QED
  BY <1>1 DEF QuietInv, Undisturbed, Replaced, Idle

LEMMA QuietStep == ASSUME QuietInv, [Next]_vars PROVE QuietInv'
  BY EditorsCount, OthersQuiet DEF QuietInv, Next, OtherStep

(* An invariant of the time before the first edit needs to survive only    *)
(* the daemon's steps.                                                     *)
LEMMA BeforeEdits ==
  ASSUME QuietInv, [Next]_vars, edits' = 0
  PROVE  edits = 0 /\ Undisturbed /\ (OtherStep \/ UNCHANGED vars)
<1>1. ~EditorStep
  BY EditorsCount
<1>. QED
  BY <1>1, OthersQuiet DEF QuietInv, Next, OtherStep

-----------------------------------------------------------------------------
(* No identity twice.                                                      *)

NoDup(t) == \A s, u \in Used(t) : t[s][1] = t[u][1] => s = u

TablesNoDup == NoDup(ram) /\ NoDup(file.rows) /\ NoDup(tmp.rows)

TwiceInv == edits = 0 => TablesNoDup

LEMMA EmptyNoDup ==
  /\ NoDup([s \in Slots |-> NoRow]) /\ NoDup(NoFile.rows)
  /\ \A t : NoDup(Empty(t).rows)
  BY DEF NoDup, Used, NoFile, Empty

(* An identity is entered when no row has it.                              *)
LEMMA EnterNoDup ==
  ASSUME IsTable(ram), NoDup(ram), Alloc
  PROVE  NoDup(ram')
<1>1. slot' \in Free(ram) /\ ram' = [ram EXCEPT ![slot'] = <<Subject, 0>>]
  BY EnterAndRollBack DEF Alloc
<1>2. \A s \in Used(ram) : ram[s][1] # Subject
  BY DEF Alloc, Known, With
<1>3. \A s \in Slots : s # slot' => ram'[s] = ram[s]
  BY <1>1 DEF IsTable
<1>4. slot' \in Slots /\ ram'[slot'] = <<Subject, 0>>
  BY <1>1, EnterAndRollBack DEF IsTable
<1>5. \A s \in Used(ram') : s = slot' \/ s \in Used(ram)
  BY <1>3 DEF Used
<1>. QED
  BY <1>2, <1>3, <1>4, <1>5 DEF NoDup, Used

LEMMA RollBackNoDup ==
  ASSUME IsTable(ram), NoDup(ram)
  PROVE  NoDup(RolledBack)
  BY DEF IsTable, NoDup, Used, RolledBack

LEMMA TwiceInit == Init => TwiceInv
<1> SUFFICES ASSUME Init PROVE TablesNoDup
  BY DEF TwiceInv
<1>1. NoDup(file.rows)
  BY DEF Init, NoDup, Used
<1>. QED
  BY <1>1, EmptyNoDup DEF Init, TablesNoDup

LEMMA TwiceStep ==
  ASSUME TwiceInv, QuietInv, SeenInv, [Next]_vars
  PROVE  TwiceInv'
<1> SUFFICES ASSUME edits' = 0
             PROVE  TablesNoDup'
  BY DEF TwiceInv
<1>1. TablesNoDup /\ IsTable(ram) /\ (OtherStep \/ UNCHANGED vars)
  BY BeforeEdits DEF TwiceInv, SeenInv, TablesOK
<1> USE <1>1 DEF TablesNoDup
<1>2. CASE Alloc
  BY <1>2, EnterNoDup DEF Alloc
<1>3. CASE SaveWrite
  <2>1. CASE tmp' = [rows |-> ram, mtime |-> time, whole |-> TRUE]
    BY <1>3, <2>1 DEF SaveWrite, Aside
  <2>2. CASE tmp' = [tmp EXCEPT !.mtime = time]
    <3>1. PICK t : tmp = Empty(t)
      BY <1>3 DEF SaveWrite, SeenInv, CopyTrue
    <3>2. tmp' = Empty(time)
      BY <2>2, <3>1, Zenon DEF Empty
    <3>. QED
      BY <1>3, <3>2, EmptyNoDup DEF SaveWrite, Aside
  <2>. QED
    BY <1>3, <2>1, <2>2 DEF SaveWrite
<1>4. CASE Load \/ Reload
  BY <1>4 DEF Load, Reload
<1>5. CASE SaveOpen
  BY <1>5, EmptyNoDup DEF SaveOpen, Aside
<1>6. CASE SaveRename
  BY <1>6, EmptyNoDup DEF SaveRename
<1>7. CASE SaveFailed
  BY <1>7, EmptyNoDup, RollBackNoDup DEF SaveFailed
<1>8. CASE Crash
  BY <1>8, EmptyNoDup DEF Crash
<1>9. CASE \/ LoadStat \/ ReloadStat \/ ReloadSame \/ Reloaded \/ Resolve
           \/ Reply \/ SaveStat \/ ReceiveDemand \/ Second \/ UNCHANGED vars
  <2>1. UNCHANGED <<ram, file, tmp>>
    BY <1>9 DEF LoadStat, ReloadStat, ReloadSame, Reloaded, Resolve, Reply,
       SaveStat, ReceiveDemand, Receive, Second, vars, daemonVars
  <2>. QED
    BY <2>1
<1>. QED
  BY <1>2, <1>3, <1>4, <1>5, <1>6, <1>7, <1>8, <1>9
  DEF OtherStep, DaemonStep

(* A table without duplicates lists an identity once at most.              *)
LEMMA NoDupMeans ==
  ASSUME NEW id, NoDup(ram)
  PROVE  Cardinality(With(ram, id)) <= 1
<1>1. CASE With(ram, id) = {}
  <2>1. Cardinality(With(ram, id)) = 0
    BY <1>1, FS_EmptySet, Zenon
  <2>. QED
    BY <2>1
<1>2. CASE With(ram, id) # {}
  <2>1. PICK s : s \in With(ram, id)
    BY <1>2
  <2>2. With(ram, id) = {s}
    BY <2>1 DEF With, NoDup
  <2>3. Cardinality(With(ram, id)) = 1
    BY <2>2, FS_Singleton, Zenon
  <2>. QED
    BY <2>3
<1>. QED
  BY <1>1, <1>2

(* The three invariants of the files and tables together.                  *)
LEMMA TablesCorrect == Spec => [](SeenInv /\ QuietInv /\ TwiceInv)
<1>1. Init => SeenInv /\ QuietInv /\ TwiceInv
  BY SeenInit, QuietInit, TwiceInit
<1>2. SeenInv /\ QuietInv /\ TwiceInv /\ [Next]_vars
      => (SeenInv /\ QuietInv /\ TwiceInv)'
  BY SeenStep, QuietStep, TwiceStep
<1>. QED
  BY <1>1, <1>2, PTL DEF Spec

(* tetra_db_alloc looks for the identity in the table in memory, which a   *)
(* crash forgets and a reload replaces, and yet that table never has one   *)
(* twice while nobody edits the file.                                      *)
THEOREM NoTwiceCorrect == Spec => []NoTwice
<1>1. TwiceInv => NoTwice
  BY NoDupMeans DEF TwiceInv, TablesNoDup, NoTwice
<1>. QED
  BY <1>1, TablesCorrect, PTL

-----------------------------------------------------------------------------
(* What was granted is in the file.                                        *)

Jobs == [kind : {"mm2", "mm7"}, to : Issis, todo : Seq(Ids),
         allow : SUBSET Ids, tried : BOOLEAN, ok : BOOLEAN, got : SUBSET Gssis]

InJob == pc \in {"react", "save", "write", "rename", "stat"}

(* Without editors memory is the file but for the row that is being saved. *)
Same ==
  /\ pc \in {"loaded", "ready", "reload", "reloaded", "react", "stat"} =>
       ram = file.rows
  /\ Saving => RolledBack = file.rows
  /\ pc = "rename" => tmp.rows = ram

(* The groups granted so far are in the file; so is the subscriber of a    *)
(* registration that is still good, or it is about to be looked for.       *)
JobBacked ==
  /\ job.got \subseteq Members(file.rows)
  /\ job.kind = "mm2" /\ job.ok =>
       \/ job.to \in Members(file.rows)
       \/ job.todo # <<>> /\ Subject = job.to

RepliesBacked ==
  \A r \in replies :
    /\ r.groups \ {Default} \subseteq Members(file.rows)
    /\ r.kind = "mm2" /\ r.ok => r.to \in Members(file.rows)

GrantInv ==
  /\ InJob => job \in Jobs
  /\ ~marred /\ edits = 0 => Same /\ RepliesBacked /\ (InJob => JobBacked)

LEMMA GrantInit == Init => GrantInv
  BY DEF Init, GrantInv, InJob, Same, Saving, RepliesBacked

(* A demand begins with its subscriber, if it is a registration.           *)
LEMMA ReceiveJob ==
  ASSUME NEW kind \in {"mm2", "mm7"}, NEW i \in Issis, NEW groups \in Seq(Ids),
         NEW ai \in BOOLEAN, NEW ag \in BOOLEAN, Receive(kind, i, groups, ai, ag)
  PROVE  /\ job' \in Jobs /\ job'.got = {}
         /\ kind = "mm2" => job'.todo # <<>> /\ Head(job'.todo) = job'.to
         /\ job'.kind = kind
<1>1. <<i>> \in Seq(Ids) /\ Len(<<i>>) = 1 /\ <<i>>[1] = i
  BY DEF Ids
<1> DEFINE all == <<i>> \o groups
<1>2. all \in Seq(Ids) /\ Len(all) >= 1 /\ all[1] = i
  BY <1>1, ConcatProperties
<1>3. all # <<>> /\ Head(all) = i
  BY <1>2
<1> HIDE DEF all
<1>4. job' = [kind |-> kind, to |-> i,
              todo |-> IF kind = "mm2" THEN all ELSE groups,
              allow |-> (IF ai THEN Issis ELSE {}) \cup (IF ag THEN Gssis ELSE {}),
              tried |-> FALSE, ok |-> TRUE, got |-> {}]
  BY DEF Receive, all
<1>5. (IF ai THEN Issis ELSE {}) \cup (IF ag THEN Gssis ELSE {}) \in SUBSET Ids
  BY DEF Ids
<1>. QED
  BY <1>2, <1>3, <1>4, <1>5 DEF Jobs

LEMMA ReceiveDemandJob ==
  ASSUME ReceiveDemand
  PROVE  /\ job' \in Jobs /\ job'.got = {}
         /\ job'.kind = "mm2" => job'.todo # <<>> /\ Head(job'.todo) = job'.to
         /\ pc = "ready" /\ UNCHANGED <<ram, file, replies>> /\ pc' = "react"
<1>1. PICK i \in Issis, ai \in BOOLEAN, ag \in BOOLEAN :
        \/ \E groups \in {<<>>} \cup {<<g>> : g \in Gssis} :
             Receive("mm2", i, groups, ai, ag)
        \/ \E groups \in {<<g>> : g \in Gssis} \cup (Gssis \X Gssis) :
             Receive("mm7", i, groups, ai, ag)
  BY DEF ReceiveDemand
<1>2. \A groups \in {<<>>} \cup {<<g>> : g \in Gssis} \cup (Gssis \X Gssis) :
        groups \in Seq(Ids)
  <2>1. <<>> \in Seq(Ids) /\ \A g \in Gssis : <<g>> \in Seq(Ids)
    BY DEF Ids
  <2>2. \A p \in Gssis \X Gssis : p \in Seq(Ids)
    <3>1. \A p \in Gssis \X Gssis : p = <<p[1], p[2]>>
      OBVIOUS
    <3>2. \A g, h \in Gssis : <<g, h>> \in Seq(Ids)
      BY DEF Ids
    <3>. QED
      BY <3>1, <3>2
  <2>. QED
    BY <2>1, <2>2, Zenon
<1>3. PICK kind \in {"mm2", "mm7"}, groups \in Seq(Ids) :
        Receive(kind, i, groups, ai, ag)
  BY <1>1, <1>2
<1>. QED
  BY <1>3, ReceiveJob DEF Receive

(* What resolving an identity does to the job.                             *)
LEMMA ResolveJob ==
  ASSUME job \in Jobs, Resolve, ram = file.rows, JobBacked
  PROVE  JobBacked'
<1>1. /\ job'.todo = Tail(job.todo) /\ job'.to = job.to /\ job'.kind = job.kind
      /\ job'.ok = (job.ok /\ (Subject \in Issis => Known(ram, Subject)))
      /\ job'.got = IF Subject \in Gssis /\ Known(ram, Subject)
                    THEN job.got \cup {Subject} ELSE job.got
      /\ file' = file
  BY DEF Resolve, Jobs
<1>2. Known(ram, Subject) => Subject \in Members(file.rows)
  BY DEF Known, With, Members
<1>3. job'.got \subseteq Members(file.rows)
  BY <1>1, <1>2 DEF JobBacked
<1>4. ASSUME job'.kind = "mm2", job'.ok
      PROVE  job'.to \in Members(file.rows)
  <2>1. job.ok /\ (Subject \in Issis => Known(ram, Subject))
    BY <1>1, <1>4
  <2>. QED
    BY <1>1, <1>2, <1>4, <2>1 DEF JobBacked, Jobs
<1>. QED
  BY <1>1, <1>3, <1>4 DEF JobBacked

LEMMA JobTyped ==
  ASSUME InJob => job \in Jobs, [Next]_vars
  PROVE  InJob' => job' \in Jobs
<1> SUFFICES ASSUME InJob' PROVE job' \in Jobs
  OBVIOUS
<1>1. CASE Alloc
  BY <1>1 DEF Alloc, InJob, Jobs
<1>2. CASE Resolve
  <2>1. job \in Jobs /\ job.todo # <<>>
    BY <1>2 DEF Resolve, InJob
  <2>2. Tail(job.todo) \in Seq(Ids) /\ Subject \in Ids
    BY <2>1, HeadTailProperties DEF Jobs, Subject
  <2>. QED
    BY <1>2, <2>1, <2>2 DEF Resolve, Jobs
<1>3. CASE ReceiveDemand
  BY <1>3, ReceiveDemandJob
<1>4. CASE \/ Load \/ LoadStat \/ ReloadStat \/ ReloadSame \/ Reload \/ Reloaded
           \/ Reply \/ SaveOpen \/ SaveWrite \/ SaveRename \/ SaveStat
           \/ SaveFailed \/ Crash \/ EditorStep \/ Second \/ UNCHANGED vars
  <2>1. InJob /\ job' = job
    BY <1>4 DEF InJob, Load, LoadStat, ReloadStat, ReloadSame, Reload, Reloaded,
       Reply, SaveOpen, SaveWrite, SaveRename, SaveStat, SaveFailed, Crash,
       EditorStep, EditAdd, EditDel, EditOpen, EditWrite, EditMove, Second,
       vars, daemonVars
  <2>. QED
    BY <2>1
<1>. QED
  BY <1>1, <1>2, <1>3, <1>4 DEF Next, DaemonStep

(* The reply names what the job has.                                       *)
LEMMA ReplyBacked ==
  ASSUME Reply, job \in Jobs, JobBacked, RepliesBacked
  PROVE  RepliesBacked'
<1>1. /\ file' = file
      /\ job.got \subseteq Members(file.rows)
      /\ job.kind = "mm2" /\ job.ok => job.to \in Members(file.rows)
  BY DEF Reply, JobBacked
<1>2. Granted \ {Default} \subseteq Members(file.rows)
  BY <1>1 DEF Granted
<1>3. \A r \in replies' :
        \/ r \in replies
        \/ r.groups = Granted /\ r.to = job.to
           /\ (r.kind = "mm2" /\ r.ok => job.kind = "mm2" /\ job.ok)
  BY DEF Reply
<1>. QED
  BY <1>1, <1>2, <1>3 DEF RepliesBacked

(* What the file gains, the replies and the job keep.                      *)
LEMMA BackedGrows ==
  ASSUME RepliesBacked, replies' = replies,
         Members(file.rows) \subseteq Members(file'.rows)
  PROVE  /\ RepliesBacked'
         /\ JobBacked /\ job' = job => JobBacked'
  BY DEF RepliesBacked, JobBacked, Subject

LEMMA RowsOfFile ==
  ASSUME Saving, Same, IsTable(ram), slot \in Slots
  PROVE  Members(file.rows) \subseteq Members(ram)
<1>1. RolledBack = file.rows
  BY DEF Same
<1>2. \A s \in Slots : s # slot => RolledBack[s] = ram[s]
  BY DEF RolledBack, IsTable
<1>3. RolledBack[slot] = NoRow
  BY DEF RolledBack, IsTable
<1>. QED
  BY <1>1, <1>2, <1>3 DEF Members, Used

LEMMA GrantStep ==
  ASSUME GrantInv, QuietInv, SeenInv, [Next]_vars
  PROVE  GrantInv'
<1> SUFFICES ASSUME ~marred', edits' = 0
             PROVE  Same' /\ RepliesBacked' /\ (InJob' => JobBacked')
  BY JobTyped DEF GrantInv
<1>1. edits = 0 /\ (OtherStep \/ UNCHANGED vars)
  BY BeforeEdits
<1>2. ~marred
  BY <1>1 DEF OtherStep, DaemonStep, ReceiveDemand, Receive, Load, LoadStat,
     ReloadStat, ReloadSame, Reload, Reloaded, Alloc, Resolve, Reply, SaveOpen,
     SaveWrite, SaveRename, SaveStat, SaveFailed, Crash, Second, vars
<1>3. Same /\ RepliesBacked /\ (InJob => JobBacked /\ job \in Jobs)
  BY <1>1, <1>2 DEF GrantInv
<1>4. IsTable(ram) /\ (Saving => slot \in Slots)
  BY DEF SeenInv, TablesOK, Entered
<1>5. CASE \/ Load \/ LoadStat \/ ReloadStat \/ ReloadSame \/ Reload \/ Reloaded
           \/ SaveOpen \/ SaveStat \/ Crash \/ Second \/ UNCHANGED vars
  <2>1. UNCHANGED <<file, replies>> /\ (InJob' => InJob /\ job' = job)
    BY <1>5 DEF InJob, Load, LoadStat, ReloadStat, ReloadSame, Reload, Reloaded,
       SaveOpen, Aside, SaveStat, Crash, Second, vars, daemonVars
  <2>2. Same'
    BY <1>3, <1>5 DEF Same, Saving, RolledBack, Load, LoadStat, ReloadStat,
       ReloadSame, Reload, Reloaded, SaveOpen, Aside, SaveStat, Crash, Second,
       vars, daemonVars
  <2>. QED
    BY <1>3, <2>1, <2>2, BackedGrows
<1>6. CASE ReceiveDemand
  BY <1>3, <1>6, ReceiveDemandJob
  DEF Same, Saving, RepliesBacked, JobBacked, Subject
<1>7. CASE Alloc
  <2>1. /\ UNCHANGED <<file, replies>> /\ pc = "react" /\ pc' = "save"
        /\ RolledBack' = ram
    BY <1>4, <1>7, EnterAndRollBack DEF Alloc
  <2>2. /\ job'.todo = job.todo /\ job'.to = job.to /\ job'.kind = job.kind
        /\ job'.ok = job.ok /\ job'.got = job.got
    BY <1>3, <1>7, <2>1 DEF Alloc, InJob, Jobs
  <2>. QED
    BY <1>3, <2>1, <2>2 DEF Same, Saving, InJob, JobBacked, RepliesBacked, Subject
<1>8. CASE Resolve
  BY <1>3, <1>8, ResolveJob DEF Resolve, Same, Saving, InJob, RepliesBacked
<1>9. CASE Reply
  BY <1>3, <1>9, ReplyBacked DEF Reply, Same, Saving, InJob
<1>10. CASE SaveWrite
  <2>1. /\ UNCHANGED <<file, replies, job, ram, slot>> /\ pc = "write"
        /\ pc' = "rename" /\ tmp'.rows = ram
    BY <1>10 DEF SaveWrite, Aside
  <2>. QED
    BY <1>3, <2>1 DEF Same, Saving, RolledBack, InJob, JobBacked, RepliesBacked,
       Subject
<1>11. CASE SaveRename
  <2>1. /\ UNCHANGED <<replies, job, ram>> /\ pc = "rename" /\ pc' = "stat"
        /\ file' = tmp
    BY <1>11 DEF SaveRename
  <2>2. file'.rows = ram
    BY <1>3, <2>1 DEF Same
  <2>3. Members(file.rows) \subseteq Members(file'.rows)
    BY <1>3, <1>4, <2>1, <2>2, RowsOfFile DEF Saving
  <2>. QED
    BY <1>3, <2>1, <2>2, <2>3, BackedGrows DEF Same, Saving, InJob
<1>12. CASE SaveFailed
  <2>1. /\ UNCHANGED <<file, replies, job>> /\ Saving /\ pc' = "react"
        /\ ram' = RolledBack
    BY <1>12 DEF SaveFailed, Saving
  <2>. QED
    BY <1>3, <2>1, BackedGrows DEF Same, Saving, InJob
<1>. QED
  BY <1>1, <1>5, <1>6, <1>7, <1>8, <1>9, <1>10, <1>11, <1>12
  DEF OtherStep, DaemonStep

(* react_mm2_locupd, react_mm7_grpid: a subscriber whose registration was  *)
(* accepted and a group that was granted are in the file, whatever save    *)
(* failed and wherever the daemon died, as long as the disk is not full    *)
(* and nobody edits the file.                                              *)
THEOREM AcceptedOnDiskCorrect == Spec => []AcceptedOnDisk
<1>1. GrantInv => AcceptedOnDisk
  BY DEF GrantInv, RepliesBacked, AcceptedOnDisk
<1>2. SeenInv /\ QuietInv /\ GrantInv /\ [Next]_vars => GrantInv'
  BY GrantStep
<1>. QED
  BY GrantInit, <1>1, <1>2, TablesCorrect, PTL DEF Spec

=============================================================================
