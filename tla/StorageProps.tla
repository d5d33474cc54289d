-------------------------- MODULE StorageProps --------------------------
(***************************************************************************)
(* What the file store of Storage must satisfy, and that it implements     *)
(* AtomicStore.                                                            *)
(***************************************************************************)
EXTENDS Storage

(* The files the user sees. *)
Visible == IF Saving THEN Files(headerBackup) ELSE Files(header)

(* A boot shows exactly the files the user was last told are saved: after an *)
(* acknowledged operation, and after a boot, the snapshot storage_load would *)
(* choose holds the directory the kernel presents (storage_save's commit     *)
(* record against storage_load's choice by generation).                      *)
AckedIsDurable ==
  pc = "idle" /\ reply \in {"none", "ok"} => RecoveredFiles(disk) = Files(header)

(* A directory names no file twice and describes the cells it is read with. *)
Intact(h, cells) ==
  /\ UniqueNames(h)
  /\ \A i \in Used(h) : h.entry[i].name # NoName /\ Matches(cells[i], h.entry[i].sum)

(* The directory in RAM always describes the cells in RAM, so that an open   *)
(* shows what was saved; and if the operation in progress fails, undoing it  *)
(* gives a directory that describes the cells again (file_save_rollback and  *)
(* the shift back in file_remove).                                           *)
MemoryIntact ==
  /\ Intact(header, cell)
  /\ Saving => Intact(headerBackup, UndoneCells)

(* A valid header on the floppy vouches for its payload: no order of         *)
(* failures, torn writes and reboots leaves a slot that passes the header    *)
(* check with a payload that fails.                                          *)
HeadersVouch == \A s \in SlotName : HeaderValid(disk[s]) => PayloadValid(disk[s])

(* A save never touches the snapshot it may have to fall back to.            *)
FallbackKept ==
  [][pc # "off" /\ active # "none" => disk'[active] = disk[active]]_vars

(* A save that has begun is answered, unless the power fails.                *)
SaveAnswered == Saving ~> ~Saving

-----------------------------------------------------------------------------
(* The inductive invariant behind the safety theorems of StorageProofs.     *)

Kinds == header.kind = "nix3" /\ headerBackup.kind = "nix3"

(* The header the last boot or commit left in RAM. *)
Committed == IF Saving THEN headerBackup ELSE header

(* The active slot on the floppy is the snapshot RAM was loaded from or last *)
(* committed to.  With no active slot nothing was loadable, and slot B, which *)
(* the first save does not write, has no header to compete with it.           *)
ActiveHolds ==
  pc # "off" =>
    IF active = "none"
    THEN Committed = EmptyHeader /\ ~HeaderValid(disk["B"])
    ELSE /\ HeaderValid(disk[active])
         /\ Committed = LoadedHeader(disk[active])
         /\ generation = disk[active].header.gen

(* Every valid header describes a directory RAM could be loaded from. *)
Loadable ==
  \A s \in SlotName :
    HeaderValid(disk[s]) => Intact(LoadedHeader(disk[s]), LoadedCells(disk[s]))

(* The target has no header between the first and the last write, and the    *)
(* cells before the cursor are written.                                      *)
TargetOpen ==
  /\ pc = "invalidate" => cursor = 0
  /\ pc \in {"payload", "commit"} =>
       /\ ~HeaderValid(disk[Target])
       /\ \A i \in Index :
            pc = "commit" \/ i < cursor => disk[Target].cell[i] = cell[i]

(* What the user was last told is saved is what a boot prefers. *)
ActivePreferred ==
  pc = "idle" /\ reply \in {"none", "ok"} => BootSlot(disk) = active

IInv ==
  /\ TypeOK
  /\ Kinds
  /\ HeadersVouch
  /\ MemoryIntact
  /\ Loadable
  /\ ActiveHolds
  /\ TargetOpen
  /\ ActivePreferred

-----------------------------------------------------------------------------
(* The store implements AtomicStore. *)
Atomic ==
  INSTANCE AtomicStore WITH
    Values   <- Sum,
    Capacity <- MaxFiles,
    mem      <- IF pc = "off" THEN NoFiles ELSE Visible,
    attempt  <- IF Saving THEN Files(header) ELSE NoFiles,
    stable   <- RecoveredFiles(disk),
    phase    <- IF pc = "off" THEN "down" ELSE IF Saving THEN "saving" ELSE "up",
    answer   <- reply

ImplementsAtomicStore == Atomic!Spec

=============================================================================
