-------------------------- MODULE StorageMedia --------------------------
(***************************************************************************)
(* The file store of Storage on a floppy that goes bad.  While the machine *)
(* is off a sector may decay for good; and a boot may find sectors it      *)
(* cannot read although a later boot can (disk_transfer gives up after     *)
(* three tries).  Two history variables record what the properties relate: *)
(* the slots holding decayed sectors, and the files that were saved before *)
(* the last acknowledged operation.                                        *)
(***************************************************************************)
EXTENDS StorageProps

CONSTANTS
  MaxBadSlots,    \* how many slots may be bad at once
  TransientReads  \* whether a boot may fail to read a slot that is sound

ASSUME MediaAssumption ==
  MaxBadSlots \in 0 .. 2 /\ TransientReads \in BOOLEAN

VARIABLES
  decayed,   \* the slots with decayed sectors, until they are rewritten
  previous   \* [known, files]: what was saved before the last acknowledged save

mediaVars == <<vars, decayed, previous>>

NoPrevious == [known |-> FALSE, files |-> NoFiles]

MediaInit == Init /\ decayed = {} /\ previous = NoPrevious

-----------------------------------------------------------------------------

DamagedSlots(slot) ==
  {[slot EXCEPT !.header = NoHeader]}
  \cup {[slot EXCEPT !.cell[i] = Torn] : i \in Index}

Decay(s) ==
  /\ pc = "off"
  /\ Cardinality(decayed \cup {s}) <= MaxBadSlots
  /\ decayed' = decayed \cup {s}
  /\ \E slot \in DamagedSlots(disk[s]) : disk' = [disk EXCEPT ![s] = slot]
  /\ UNCHANGED <<ram, pc, job, reply, previous>>

(* A boot with at most MaxBadSlots slots bad, for good or just this time. *)
MediaBoot ==
  /\ \E badHeader, badPayload \in SUBSET SlotName :
       /\ ~TransientReads => badHeader = {} /\ badPayload = {}
       /\ Cardinality(decayed \cup badHeader \cup badPayload) <= MaxBadSlots
       /\ Boot(badHeader, badPayload)
  /\ previous' = NoPrevious
  /\ UNCHANGED decayed

MediaOperation ==
  /\ Operation
  /\ previous' = IF pc' = "idle" THEN previous ELSE NoPrevious
  /\ UNCHANGED decayed

MediaSaveStep ==
  /\ SaveStep
  /\ IF reply' = "ok"
     THEN /\ previous' = [known |-> active # "none", files |-> Files(headerBackup)]
          /\ decayed' = decayed \ {Target}
     ELSE UNCHANGED <<decayed, previous>>

MediaCrash == Crash /\ previous' = NoPrevious /\ UNCHANGED decayed

MediaNext ==
  \/ MediaBoot
  \/ MediaOperation
  \/ MediaSaveStep
  \/ MediaCrash
  \/ \E s \in SlotName : Decay(s)

MediaSpec == MediaInit /\ [][MediaNext]_mediaVars

-----------------------------------------------------------------------------

(* The files of an acknowledged save are what the next clean boot shows,     *)
(* whatever the boot before had to fall back from: a snapshot written by     *)
(* storage_save is never outranked by one it was meant to replace.           *)
SavesSurvive ==
  pc = "idle" /\ reply = "ok" => RecoveredFiles(disk) = Files(header)

(* When the newest snapshot is damaged anywhere, a boot shows the files      *)
(* saved before it, or still the newest ones if no file's bytes are hit      *)
(* (storage_load's fallback to the other slot).                              *)
DamageRecoversPrevious ==
  pc = "idle" /\ previous.known =>
    \A slot \in DamagedSlots(disk[active]) :
      RecoveredFiles([disk EXCEPT ![active] = slot]) =
        IF Sound(slot) THEN Files(header) ELSE previous.files

=============================================================================
