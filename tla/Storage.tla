---------------------------- MODULE Storage ----------------------------
(***************************************************************************)
(* The legacy kernel's file store (src/boot.asm): the directory and the    *)
(* file cells in RAM, the two snapshot slots on the floppy, saving and     *)
(* removing a file with rollback, the three-phase snapshot commit, power   *)
(* loss between and during sector writes, and recovery at boot.            *)
(*                                                                         *)
(* The kernel is one thread: an operation changes RAM at once, then        *)
(* storage_save writes sectors.  The only points another event can take    *)
(* effect at are the writes, so those are the steps:                       *)
(*   invalidate  the zero header is written over the target slot,          *)
(*   payload     the cells are written, one step per cell,                 *)
(*   commit      the new header is written.                                *)
(* A write that exhausts disk_transfer's retries may have left the old     *)
(* sector, the new one or neither; so may a write the power failed in.     *)
(***************************************************************************)
EXTENDS SnapshotSlots

VARIABLES
  disk,         \* the two slots on the floppy
  header,       \* FILES_HEADER
  cell,         \* FILES_DATA
  active,       \* active_slot ("none" is 0xff)
  generation,   \* active_generation
  pc,           \* where the kernel is
  op,           \* the operation in progress
  index,        \* save_file_index or remove_index
  headerBackup, \* HEADER_BACKUP
  cellBackup,   \* FILE_BACKUP
  cursor,       \* the next cell storage_write_payload writes
  reply         \* what the last operation told the user (carry, save_error)

ram == <<header, cell, active, generation>>
job == <<op, index, headerBackup, cellBackup, cursor>>
vars == <<disk, ram, pc, job, reply>>

Saving == pc \in {"invalidate", "payload", "commit"}

TypeOK ==
  /\ disk \in Disk
  /\ header \in Header
  /\ cell \in [Index -> Cell]
  /\ active \in SlotName \cup {"none"}
  /\ generation \in Gen
  /\ pc \in {"off", "idle", "invalidate", "payload", "commit"}
  /\ op \in {"none", "save", "remove"}
  /\ index \in Index
  /\ headerBackup \in Header
  /\ cellBackup \in Cell
  /\ cursor \in Index
  /\ reply \in {"none", "ok", "full", "failed"}

-----------------------------------------------------------------------------
(* Initial states.  The floppy is new, or an older image was migrated onto  *)
(* it, which leaves a NIX2 record or nothing in each slot.  The machine is  *)
(* off; RAM and the job registers hold nothing that is read before boot.    *)

PowerOff ==
  /\ header = EmptyHeader
  /\ cell = ZeroCells
  /\ active = "none"
  /\ generation = 0
  /\ pc = "off"
  /\ reply = "none"

NoJob ==
  /\ op = "none"
  /\ index = 0
  /\ headerBackup = EmptyHeader
  /\ cellBackup = Empty
  /\ cursor = 0

FloppySlots ==
  { [header |-> NoHeader, cell |-> [ZeroCells EXCEPT ![0] = c]] : c \in {Empty, Torn} }
  \cup { [header |-> LegacyHeader(g, c), cell |-> [ZeroCells EXCEPT ![0] = c]] :
         g \in Gen, c \in Sum }

Init ==
  /\ disk \in [SlotName -> FloppySlots]
  /\ PowerOff
  /\ NoJob

-----------------------------------------------------------------------------
(* Boot: storage_load. *)

Boot(badHeader, badPayload) ==
  LET s == ChooseSlot(disk, badHeader, badPayload)
  IN  /\ pc = "off"
      /\ pc' = "idle"
      /\ active' = s
      /\ header' = IF s = "none" THEN EmptyHeader ELSE LoadedHeader(disk[s])
      /\ cell' = IF s = "none" THEN ZeroCells ELSE LoadedCells(disk[s])
      /\ generation' = IF s = "none" THEN 0 ELSE disk[s].header.gen
      /\ UNCHANGED <<disk, job, reply>>

-----------------------------------------------------------------------------
(* The operations, up to their call of storage_save. *)

Found(n) == {i \in Used(header) : header.entry[i].name = n}

FindFile(n) == CHOOSE i \in Found(n) : \A j \in Found(n) : i <= j

StartJob(o, i) ==
  /\ pc' = "invalidate"
  /\ op' = o
  /\ index' = i
  /\ headerBackup' = header
  /\ cellBackup' = cell[i]
  /\ cursor' = 0
  /\ reply' = "none"
  /\ UNCHANGED <<disk, active, generation>>

(* file_save: the named file gets content c, in its own cell or in a new one *)
(* after the last.                                                           *)
SaveFile(n, c) ==
  LET i == IF Found(n) # {} THEN FindFile(n) ELSE header.count
  IN  /\ pc = "idle"
      /\ Found(n) # {} \/ header.count < MaxFiles
      /\ header' = [header EXCEPT !.count = IF Found(n) # {} THEN @ ELSE @ + 1,
                                  !.entry[i] = [name |-> n, sum |-> c]]
      /\ cell' = [cell EXCEPT ![i] = c]
      /\ StartJob("save", i)

(* file_save, .full: no free entry. *)
RefuseFull(n) ==
  /\ pc = "idle"
  /\ Found(n) = {}
  /\ header.count >= MaxFiles
  /\ reply' = "full"
  /\ UNCHANGED <<disk, ram, pc, job>>

(* file_remove: later entries and cells move down, the last is cleared. *)
Compact(f, i, last, blank) ==
  [j \in Index |-> IF j < i THEN f[j]
                   ELSE IF j < last THEN f[j + 1]
                   ELSE IF j = last THEN blank ELSE f[j]]

RemoveFile(n) ==
  LET i == FindFile(n)
      last == header.count - 1
  IN  /\ pc = "idle"
      /\ Found(n) # {}
      /\ header' = [header EXCEPT !.count = last,
                                  !.entry = Compact(@, i, last, NoEntry)]
      /\ cell' = Compact(cell, i, last, Empty)
      /\ StartJob("remove", i)

-----------------------------------------------------------------------------
(* storage_save. *)

(* Mutant: the active slot is overwritten. *)
Target_Active == IF active = "B" THEN "B" ELSE "A"

Target == IF active = "A" THEN "B" ELSE "A"

(* Mutant: the generation of the loaded snapshot is kept. *)
NewHeader_SameGeneration == [header EXCEPT !.gen = generation]

NewHeader ==
  [header EXCEPT !.gen = IF active = "none" THEN generation ELSE IncGen(generation)]

(* The job registers are dead once the operation returns. *)
DropJob ==
  /\ op' = "none"
  /\ index' = 0
  /\ headerBackup' = EmptyHeader
  /\ cellBackup' = Empty
  /\ cursor' = 0

EndJob(answer) ==
  /\ pc' = "idle"
  /\ reply' = answer
  /\ DropJob

(* file_save_rollback, and the undoing of a removal: the cells that moved    *)
(* down move up again and the removed one returns.                           *)
(* Mutant: only the directory is restored. *)
UndoneCells_DirectoryOnly == cell

UndoneCells ==
  IF op = "save"
  THEN [cell EXCEPT ![index] = cellBackup]
  ELSE [j \in Index |-> IF j = index THEN cellBackup
                        ELSE IF index < j /\ j < headerBackup.count
                             THEN cell[j - 1] ELSE cell[j]]

Fail ==
  /\ header' = headerBackup
  /\ cell' = UndoneCells
  /\ EndJob("failed")
  /\ UNCHANGED <<active, generation>>

(* The states a failed or torn write of a sector can leave behind. *)
HeaderWrites(new) == {disk[Target].header, new, NoHeader}
CellWrites(new) == {disk[Target].cell[cursor], new, Torn}

PutHeader(h) == disk' = [disk EXCEPT ![Target].header = h]
PutCell(c) == disk' = [disk EXCEPT ![Target].cell[cursor] = c]

(* Mutant: the old header of the target stays while its cells are replaced. *)
Invalidate_Skipped ==
  /\ pc = "invalidate"
  /\ pc' = "payload"
  /\ UNCHANGED <<disk, ram, job, reply>>

Invalidate ==
  /\ pc = "invalidate"
  /\ PutHeader(NoHeader)
  /\ pc' = "payload"
  /\ UNCHANGED <<ram, job, reply>>

InvalidateFails ==
  /\ pc = "invalidate"
  /\ \E h \in HeaderWrites(NoHeader) : PutHeader(h)
  /\ Fail

(* Mutant: the payload loop starts over instead of ending. *)
WriteCell_Endless ==
  /\ pc = "payload"
  /\ PutCell(cell[cursor])
  /\ cursor' = IF cursor = MaxFiles - 1 THEN 0 ELSE cursor + 1
  /\ UNCHANGED <<ram, pc, op, index, headerBackup, cellBackup, reply>>

WriteCell ==
  /\ pc = "payload"
  /\ PutCell(cell[cursor])
  /\ IF cursor = MaxFiles - 1
     THEN pc' = "commit" /\ cursor' = 0
     ELSE pc' = "payload" /\ cursor' = cursor + 1
  /\ UNCHANGED <<ram, op, index, headerBackup, cellBackup, reply>>

WriteCellFails ==
  /\ pc = "payload"
  /\ \E c \in CellWrites(cell[cursor]) : PutCell(c)
  /\ Fail

Commit ==
  /\ pc = "commit"
  /\ PutHeader(NewHeader)
  /\ header' = NewHeader
  /\ active' = Target
  /\ generation' = NewHeader.gen
  /\ EndJob("ok")
  /\ UNCHANGED cell

(* Mutant: the carry of the last header write is not looked at. *)
CommitFails_Unchecked ==
  /\ pc = "commit"
  /\ \E h \in HeaderWrites(NewHeader) : PutHeader(h)
  /\ header' = NewHeader
  /\ active' = Target
  /\ generation' = NewHeader.gen
  /\ EndJob("ok")
  /\ UNCHANGED cell

CommitFails ==
  /\ pc = "commit"
  /\ \E h \in HeaderWrites(NewHeader) : PutHeader(h)
  /\ Fail

-----------------------------------------------------------------------------
(* Power loss, and the reboot command when the kernel is idle.  The sector   *)
(* being written may be torn; everything in RAM is gone.                     *)

Crash ==
  /\ pc # "off"
  /\ CASE pc = "idle" -> disk' = disk
       [] pc = "invalidate" -> \E h \in HeaderWrites(NoHeader) : PutHeader(h)
       [] pc = "payload" -> \E c \in CellWrites(cell[cursor]) : PutCell(c)
       [] pc = "commit" -> \E h \in HeaderWrites(NewHeader) : PutHeader(h)
  /\ header' = EmptyHeader
  /\ cell' = ZeroCells
  /\ active' = "none"
  /\ generation' = 0
  /\ pc' = "off"
  /\ reply' = "none"
  /\ DropJob

-----------------------------------------------------------------------------

Operation ==
  \/ \E n \in Names, c \in Sum : SaveFile(n, c)
  \/ \E n \in Names : RefuseFull(n)
  \/ \E n \in Names : RemoveFile(n)

SaveStep ==
  \/ Invalidate
  \/ InvalidateFails
  \/ WriteCell
  \/ WriteCellFails
  \/ Commit
  \/ CommitFails

Next ==
  \/ Boot({}, {})
  \/ Operation
  \/ SaveStep
  \/ Crash

Spec == Init /\ [][Next]_vars

(* The kernel runs: a save that has started keeps taking steps, because      *)
(* disk_transfer returns after at most three tries.  Nothing is assumed of   *)
(* the user, of the power or of the drive's answers.                         *)
FairSpec == Spec /\ WF_vars(SaveStep)

=============================================================================
