------------------------- MODULE StorageProofs -------------------------
(***************************************************************************)
(* Proofs of the safety properties of StorageProps, of its refinement of   *)
(* AtomicStore, and of the properties of StorageMedia and LegacyExport on  *)
(* a floppy that goes bad, for every set of names and contents, every      *)
(* directory size and every width of the generation.                       *)
(***************************************************************************)
EXTENDS LegacyExport, FiniteSetTheorems, WellFoundedInduction, TLAPS

-----------------------------------------------------------------------------
(* Generations. *)

(* The generation storage_save gives a new snapshot is a word. *)
LEMMA IncGenType == \A g \in Gen : IncGen(g) \in Gen
BY SlotsAssumption DEF Gen, IncGen

(* Of two snapshots whose generations are consecutive words, storage_load's  *)
(* comparison prefers the later one whichever slot holds it, wrap included.  *)
LEMMA NewerWins ==
  \A g \in Gen : AFirst(IncGen(g), g) /\ ~AFirst(g, IncGen(g))
BY SlotsAssumption DEF Gen, IncGen, AFirst, SubGen

-----------------------------------------------------------------------------
(* The choice of a slot. *)

(* storage_load loads a slot only if its header and its payload are valid. *)
LEMMA ChooseSound ==
  ASSUME NEW d, NEW bh, NEW bp
  PROVE  LET s == ChooseSlot(d, bh, bp)
         IN  s # "none" => s \in SlotName /\ Sound(d[s])
BY DEF ChooseSlot, Sound, SlotName

(* If every valid header vouches for its payload, a boot without read errors *)
(* comes up empty only if neither slot has a valid header.                   *)
LEMMA BootNone ==
  ASSUME NEW d, \A s \in SlotName : HeaderValid(d[s]) => PayloadValid(d[s]),
         BootSlot(d) = "none"
  PROVE  ~HeaderValid(d["A"]) /\ ~HeaderValid(d["B"])
BY DEF BootSlot, ChooseSlot, Preferred, Other, SlotName

(* A sound slot is the one booted if the other has no header or the          *)
(* generation before it.                                                     *)
LEMMA BootNewest ==
  ASSUME NEW d, NEW t \in SlotName, Sound(d[t]),
         d[Other(t)].header.gen \in Gen,
         HeaderValid(d[Other(t)]) => d[t].header.gen = IncGen(d[Other(t)].header.gen)
  PROVE  BootSlot(d) = t
BY NewerWins DEF BootSlot, ChooseSlot, Preferred, Other, SlotName, Sound

-----------------------------------------------------------------------------
(* Types. *)

LEMMA ConstantTypes ==
  /\ 0 \in Index /\ 0 \in Gen
  /\ NoEntry \in Entry
  /\ NoEntries \in [Index -> Entry]
  /\ NoHeader \in Header
  /\ EmptyHeader \in Header
  /\ ZeroCells \in [Index -> Cell]
<1>1. 0 \in Index /\ 0 \in Gen
  BY SlotsAssumption DEF Index, Gen
<1>2. NoEntry \in Entry
  BY DEF NoEntry, Entry, Sum
<1>3. NoEntries \in [Index -> Entry]
  BY <1>2 DEF NoEntries
<1>4. NoHeader \in Header
  BY <1>1, <1>3, SlotsAssumption DEF NoHeader, Header
<1>5. EmptyHeader \in Header
  BY <1>4 DEF EmptyHeader, Header
<1>6. ZeroCells \in [Index -> Cell]
  BY DEF ZeroCells, Cell
<1> QED
  BY <1>1, <1>2, <1>3, <1>4, <1>5, <1>6

LEMMA LegacyHeaderType ==
  ASSUME NEW g \in Gen, NEW c \in Sum
  PROVE  LegacyHeader(g, c) \in Header
<1>1. [name |-> DefaultName, sum |-> c] \in Entry
  BY SlotsAssumption DEF Entry
<1>2. [NoEntries EXCEPT ![0] = [name |-> DefaultName, sum |-> c]] \in [Index -> Entry]
  BY <1>1, ConstantTypes
<1> QED
  BY <1>2, SlotsAssumption DEF LegacyHeader, Header

(* What storage_load leaves in RAM has the type of a directory and cells. *)
LEMMA LoadedType ==
  ASSUME NEW slot \in Slot
  PROVE  LoadedHeader(slot) \in Header /\ LoadedCells(slot) \in [Index -> Cell]
<1>1. LoadedHeader(slot) \in Header
  BY DEF LoadedHeader, Slot, Header
<1>2. slot.header.entry[0].sum \in Cell
  BY ConstantTypes DEF Slot, Header, Entry, Sum, Cell
<1>3. LoadedCells(slot) \in [Index -> Cell]
  BY <1>2, ConstantTypes DEF LoadedCells, Slot
<1> QED
  BY <1>1, <1>3

(* Removing an element of a fixed array leaves an array of the same type. *)
LEMMA CompactType ==
  ASSUME NEW T, NEW f \in [Index -> T], NEW blank \in T,
         NEW i \in Index, NEW last \in Index
  PROVE  Compact(f, i, last, blank) \in [Index -> T]
<1>1. \A j \in Index : j < last => j + 1 \in Index
  BY SlotsAssumption DEF Index
<1> QED
  BY <1>1 DEF Compact

(* file_find returns an index of the directory holding the name. *)
LEMMA FindFileFinds ==
  ASSUME TypeOK, NEW n, Found(n) # {}
  PROVE  FindFile(n) \in Found(n) /\ FindFile(n) \in Index /\ FindFile(n) < header.count
<1>1. Found(n) \subseteq Index /\ Found(n) \subseteq Nat
  BY DEF Found, Used, Index
<1>2. \E i \in Found(n) : \A j \in Found(n) : ~ (<<j, i>> \in OpToRel(<, Nat))
  BY <1>1, WFMin, NatLessThanWellFounded
<1>3. \A j, i \in Nat : j < i => <<j, i>> \in OpToRel(<, Nat)
  BY Zenon DEF OpToRel
<1>4. \E i \in Found(n) : \A j \in Found(n) : ~ (j < i)
  BY <1>1, <1>2, <1>3, Zenon
<1>5. \E i \in Found(n) : \A j \in Found(n) : i <= j
  BY <1>1, <1>4
<1> QED
  BY <1>1, <1>5 DEF FindFile, Found, Used

-----------------------------------------------------------------------------
(* Type correctness. *)

LEMMA TargetType == Target \in SlotName
BY DEF Target, SlotName

LEMMA NewHeaderType ==
  ASSUME TypeOK
  PROVE  NewHeader \in Header /\ NewHeader.gen \in Gen
<1>1. (IF active = "none" THEN generation ELSE IncGen(generation)) \in Gen
  BY IncGenType DEF TypeOK
<1> QED
  BY <1>1 DEF NewHeader, Header, TypeOK

LEMMA UndoneCellsType ==
  ASSUME TypeOK
  PROVE  UndoneCells \in [Index -> Cell]
<1>1. CASE op = "save"
  BY <1>1 DEF UndoneCells, TypeOK
<1>2. CASE op # "save"
  <2>1. index \in Index
    BY DEF TypeOK
  <2>2. \A j \in Index : IF j = index THEN cellBackup \in Cell
                         ELSE IF index < j /\ j < headerBackup.count
                              THEN cell[j - 1] \in Cell ELSE cell[j] \in Cell
    <3>1. \A j \in Index : index < j => j - 1 \in Index
      BY <2>1, SlotsAssumption DEF Index
    <3> QED
      BY <3>1 DEF TypeOK
  <2> QED
    BY <1>2, <2>2 DEF UndoneCells
<1> QED
  BY <1>1, <1>2

(* Every write of storage_save, whatever it leaves, keeps the floppy typed. *)
LEMMA WritesTyped ==
  ASSUME TypeOK
  PROVE  /\ \A new \in Header : HeaderWrites(new) \subseteq Header
         /\ \A new \in Cell : CellWrites(new) \subseteq Cell
         /\ \A h \in Header : PutHeader(h) => disk' \in Disk
         /\ \A c \in Cell : PutCell(c) => disk' \in Disk
<1> USE TargetType
<1>1. \A new \in Header : HeaderWrites(new) \subseteq Header
  BY ConstantTypes DEF HeaderWrites, TypeOK, Disk, Slot
<1>2. \A new \in Cell : CellWrites(new) \subseteq Cell
  BY DEF CellWrites, TypeOK, Disk, Slot, Cell
<1>3. \A h \in Header : PutHeader(h) => disk' \in Disk
  BY DEF PutHeader, TypeOK, Disk, Slot
<1>4. \A c \in Cell : PutCell(c) => disk' \in Disk
  BY DEF PutCell, TypeOK, Disk, Slot
<1> QED
  BY <1>1, <1>2, <1>3, <1>4

LEMMA InitType == Init => TypeOK
<1> SUFFICES ASSUME Init PROVE TypeOK
  OBVIOUS
<1>1. \A c \in Cell : [ZeroCells EXCEPT ![0] = c] \in [Index -> Cell]
  BY ConstantTypes
<1>2. Sum \subseteq Cell /\ {Empty, Torn} \subseteq Cell
  BY DEF Sum, Cell
<1>3. FloppySlots \subseteq Slot
  BY <1>1, <1>2, ConstantTypes, LegacyHeaderType DEF FloppySlots, Slot
<1> QED
  BY <1>3, ConstantTypes DEF Init, PowerOff, NoJob, TypeOK, Disk, Cell

LEMMA FailType ==
  ASSUME TypeOK, Fail, disk' \in Disk
  PROVE  TypeOK'
BY UndoneCellsType, ConstantTypes DEF Fail, EndJob, DropJob, TypeOK, Cell

(* A boot, whatever sectors it cannot read, leaves typed RAM. *)
LEMMA BootType ==
  ASSUME TypeOK, NEW badHeader, NEW badPayload, Boot(badHeader, badPayload)
  PROVE  TypeOK'
<1> DEFINE s == ChooseSlot(disk, badHeader, badPayload)
<1>1. s \in SlotName \cup {"none"}
  BY ChooseSound
<1>2. s # "none" => disk[s] \in Slot /\ disk[s].header.gen \in Gen
  BY <1>1 DEF TypeOK, Disk, Slot, Header
<1>3. header' \in Header /\ cell' \in [Index -> Cell]
  BY <1>2, LoadedType, ConstantTypes DEF Boot
<1>4. active' \in SlotName \cup {"none"} /\ generation' \in Gen
  BY <1>1, <1>2, ConstantTypes DEF Boot
<1> QED
  BY <1>3, <1>4 DEF Boot, TypeOK, job

(* Every step preserves the types. *)
LEMMA NextType == TypeOK /\ [Next]_vars => TypeOK'
<1> SUFFICES ASSUME TypeOK, [Next]_vars PROVE TypeOK'
  OBVIOUS
<1>1. CASE Boot({}, {})
  BY <1>1, BootType
<1>2. ASSUME NEW n \in Names, NEW c \in Sum, SaveFile(n, c)
      PROVE  TypeOK'
  <2> DEFINE i == IF Found(n) # {} THEN FindFile(n) ELSE header.count
             count == IF Found(n) # {} THEN header.count ELSE header.count + 1
  <2>1. i \in Index
    <3>1. CASE Found(n) # {}
      BY <3>1, FindFileFinds
    <3>2. CASE Found(n) = {}
      <4>1. header.count < MaxFiles
        BY <1>2, <3>2 DEF SaveFile
      <4>2. header.count \in 0 .. MaxFiles
        BY DEF TypeOK, Header
      <4> QED
        BY <3>2, <4>1, <4>2, SlotsAssumption DEF Index
    <3> QED
      BY <3>1, <3>2
  <2>2. count \in 0 .. MaxFiles
    BY <1>2, SlotsAssumption DEF SaveFile, TypeOK, Header
  <2>3. [name |-> n, sum |-> c] \in Entry /\ c \in Cell
    BY DEF Entry, Sum, Cell
  <2>4. header' \in Header
    BY <1>2, <2>1, <2>2, <2>3 DEF SaveFile, TypeOK, Header
  <2>5. cell' \in [Index -> Cell] /\ cell[i] \in Cell
    BY <1>2, <2>1, <2>3 DEF SaveFile, TypeOK
  <2> QED
    BY <1>2, <2>1, <2>4, <2>5, ConstantTypes DEF SaveFile, StartJob, TypeOK
<1>3. ASSUME NEW n \in Names, RefuseFull(n)
      PROVE  TypeOK'
  BY <1>3 DEF RefuseFull, TypeOK, ram, job
<1>4. ASSUME NEW n \in Names, RemoveFile(n)
      PROVE  TypeOK'
  <2> DEFINE i == FindFile(n)
             last == header.count - 1
  <2>1. i \in Index /\ i < header.count
    BY <1>4, FindFileFinds DEF RemoveFile
  <2>2. last \in Index /\ last \in 0 .. MaxFiles
    BY <2>1, SlotsAssumption DEF TypeOK, Header, Index
  <2>3. header.entry \in [Index -> Entry] /\ cell \in [Index -> Cell] /\ Empty \in Cell
    BY DEF TypeOK, Header, Cell
  <2>4. Compact(header.entry, i, last, NoEntry) \in [Index -> Entry]
    BY <2>1, <2>2, <2>3, ConstantTypes, CompactType
  <2>5. Compact(cell, i, last, Empty) \in [Index -> Cell]
    BY <2>1, <2>2, <2>3, CompactType
  <2>6. header' \in Header
    BY <1>4, <2>2, <2>4 DEF RemoveFile, TypeOK, Header
  <2>7. cell' \in [Index -> Cell] /\ cell[i] \in Cell
    BY <1>4, <2>1, <2>3, <2>5 DEF RemoveFile
  <2> QED
    BY <1>4, <2>1, <2>6, <2>7, ConstantTypes DEF RemoveFile, StartJob, TypeOK
<1>5. CASE Invalidate
  BY <1>5, WritesTyped, ConstantTypes DEF Invalidate, TypeOK, ram, job
<1>6. CASE InvalidateFails
  BY <1>6, FailType, WritesTyped, ConstantTypes DEF InvalidateFails
<1>7. CASE WriteCell
  <2>1. cell[cursor] \in Cell
    BY DEF TypeOK
  <2>2. disk' \in Disk
    BY <1>7, <2>1, WritesTyped DEF WriteCell
  <2>3. cursor' \in Index /\ pc' \in {"payload", "commit"}
    BY <1>7, ConstantTypes, SlotsAssumption DEF WriteCell, TypeOK, Index
  <2> QED
    BY <1>7, <2>2, <2>3 DEF WriteCell, TypeOK, ram
<1>8. CASE WriteCellFails
  <2>1. cell[cursor] \in Cell
    BY DEF TypeOK
  <2> QED
    BY <1>8, <2>1, FailType, WritesTyped DEF WriteCellFails
<1>9. CASE Commit
  BY <1>9, NewHeaderType, TargetType, WritesTyped, ConstantTypes
     DEF Commit, EndJob, DropJob, TypeOK, Cell
<1>10. CASE CommitFails
  BY <1>10, NewHeaderType, FailType, WritesTyped DEF CommitFails
<1>11. CASE Crash
  <2>1. cell[cursor] \in Cell
    BY DEF TypeOK
  <2>2. disk' \in Disk
    BY <1>11, <2>1, NewHeaderType, WritesTyped, ConstantTypes DEF Crash, TypeOK
  <2> QED
    BY <1>11, <2>2, ConstantTypes DEF Crash, DropJob, TypeOK, Cell
<1>12. CASE UNCHANGED vars
  BY <1>12 DEF vars, ram, job, TypeOK
<1> QED
  BY <1>1, <1>2, <1>3, <1>4, <1>5, <1>6, <1>7, <1>8, <1>9, <1>10, <1>11, <1>12
     DEF Next, Operation, SaveStep

(* Every reachable state of the file store is well typed. *)
THEOREM TypeCorrect == Spec => []TypeOK
<1>1. Init => TypeOK
  BY InitType
<1>2. TypeOK /\ [Next]_vars => TypeOK'
  BY NextType
<1> QED
  BY <1>1, <1>2, PTL DEF Spec

-----------------------------------------------------------------------------
(* Directories and the cells they describe. *)

(* What makes a directory intact is its entries, not its kind or generation. *)
LEMMA IntactSame ==
  ASSUME NEW h, NEW k, NEW cells, NEW other,
         h.count = k.count, h.entry = k.entry, Used(h) = Used(k),
         \A i \in Used(h) : cells[i] = other[i],
         Intact(h, cells)
  PROVE  Intact(k, other)
BY DEF Intact, UniqueNames

LEMMA EmptyIntact == ASSUME NEW cells PROVE Intact(EmptyHeader, cells)
<1>1. EmptyHeader.count = 0
  BY DEF EmptyHeader, NoHeader
<1>2. Used(EmptyHeader) = {}
  BY <1>1, SlotsAssumption DEF Used, Index
<1> QED
  BY <1>2 DEF Intact, UniqueNames

(* file_save: storing a file in its own cell, or in the first unused one,    *)
(* keeps the directory intact.                                               *)
LEMMA SaveIntact ==
  ASSUME TypeOK, Intact(header, cell), NEW n \in Names, NEW c \in Sum,
         SaveFile(n, c)
  PROVE  Intact(header', cell')
<1> DEFINE new == Found(n) = {}
           i == IF Found(n) # {} THEN FindFile(n) ELSE header.count
<1>1. header.count \in 0 .. MaxFiles /\ header.entry \in [Index -> Entry]
  BY DEF TypeOK, Header
<1>2. i \in Index
  <2>1. CASE Found(n) # {}
    BY <2>1, FindFileFinds
  <2>2. CASE Found(n) = {}
    <3>1. header.count < MaxFiles
      BY <2>2 DEF SaveFile
    <3> QED
      BY <1>1, <2>2, <3>1, SlotsAssumption DEF Index
  <2> QED
    BY <2>1, <2>2
<1>3. /\ header'.entry = [header.entry EXCEPT ![i] = [name |-> n, sum |-> c]]
      /\ header'.count = IF new THEN header.count + 1 ELSE header.count
      /\ cell' = [cell EXCEPT ![i] = c]
  BY DEF SaveFile, TypeOK, Header
<1>4. /\ header'.entry[i] = [name |-> n, sum |-> c] /\ cell'[i] = c
      /\ \A j \in Index : j # i => header'.entry[j] = header.entry[j] /\ cell'[j] = cell[j]
  BY <1>1, <1>2, <1>3 DEF TypeOK
<1>5. \A j \in Used(header') : j \in Index /\ (j # i => j \in Used(header))
  <2>1. CASE new
    BY <1>1, <1>3, <2>1 DEF Used, Index
  <2>2. CASE ~new
    BY <1>3, <2>2 DEF Used
  <2> QED
    BY <2>1, <2>2
<1>6. \A j \in Used(header) : j # i => header.entry[j].name # n
  <2>1. CASE new
    BY <2>1 DEF Found
  <2>2. CASE ~new
    <3>1. i \in Found(n)
      BY <2>2, FindFileFinds
    <3> QED
      BY <3>1 DEF Found, Intact, UniqueNames
  <2> QED
    BY <2>1, <2>2
<1>7. UniqueNames(header')
  BY <1>4, <1>5, <1>6 DEF UniqueNames, Intact
<1>8. \A j \in Used(header') :
        header'.entry[j].name # NoName /\ Matches(cell'[j], header'.entry[j].sum)
  BY <1>4, <1>5, SlotsAssumption DEF Intact, Matches
<1> QED
  BY <1>7, <1>8 DEF Intact

(* file_remove: moving the later entries and their cells down together       *)
(* keeps the directory intact.                                               *)
LEMMA RemoveIntact ==
  ASSUME TypeOK, Intact(header, cell), NEW n \in Names, RemoveFile(n)
  PROVE  Intact(header', cell')
<1> DEFINE i == FindFile(n)
           last == header.count - 1
           Old(j) == IF j < i THEN j ELSE j + 1
<1>1. header.count \in 0 .. MaxFiles /\ header.entry \in [Index -> Entry]
  BY DEF TypeOK, Header
<1>2. i \in Index /\ i < header.count
  BY FindFileFinds DEF RemoveFile
<1>3. /\ header'.entry = Compact(header.entry, i, last, NoEntry)
      /\ header'.count = last
      /\ cell' = Compact(cell, i, last, Empty)
  BY DEF RemoveFile, TypeOK, Header
<1>4. \A j \in Used(header') : j \in Index /\ j < last
  BY <1>3 DEF Used
<1>5. \A j \in Used(header') : Old(j) \in Used(header)
  BY <1>1, <1>2, <1>4, SlotsAssumption DEF Used, Index
<1>6. \A j \in Used(header') :
        header'.entry[j] = header.entry[Old(j)] /\ cell'[j] = cell[Old(j)]
  BY <1>3, <1>4 DEF Compact
<1>7. \A j, k \in Used(header') : Old(j) = Old(k) => j = k
  BY <1>2, <1>4 DEF Index
<1> HIDE DEF Old, last, i
<1>8. UniqueNames(header')
  BY <1>5, <1>6, <1>7 DEF Intact, UniqueNames
<1>9. \A j \in Used(header') :
        header'.entry[j].name # NoName /\ Matches(cell'[j], header'.entry[j].sum)
  BY <1>5, <1>6 DEF Intact
<1> QED
  BY <1>8, <1>9 DEF Intact

(* Undoing an operation that has only changed RAM gives the cells back:      *)
(* file_save_rollback restores one cell, the removal's rollback moves the    *)
(* cells up again.                                                           *)
LEMMA UndoRestores ==
  ASSUME TypeOK, NEW n \in Names, NEW c \in Sum, SaveFile(n, c) \/ RemoveFile(n)
  PROVE  UndoneCells' = cell /\ headerBackup' = header
<1>1. CASE SaveFile(n, c)
  <2>1. PICK i : /\ cell' = [cell EXCEPT ![i] = c]
                 /\ StartJob("save", i)
    BY <1>1 DEF SaveFile
  <2>2. op' = "save" /\ index' = i /\ cellBackup' = cell[i] /\ headerBackup' = header
    BY <2>1 DEF StartJob
  <2>3. cell \in [Index -> Cell]
    BY DEF TypeOK
  <2>4. [cell' EXCEPT ![i] = cell[i]] = cell
    BY <2>1, <2>3
  <2> QED
    BY <2>2, <2>4 DEF UndoneCells
<1>2. CASE RemoveFile(n)
  <2> DEFINE i == FindFile(n)
             last == header.count - 1
             undone(j) == IF j = i THEN cell[i]
                          ELSE IF i < j /\ j < header.count THEN cell'[j - 1]
                          ELSE cell'[j]
  <2>1. i \in Index /\ i < header.count
    BY <1>2, FindFileFinds DEF RemoveFile
  <2>2. header.count \in 0 .. MaxFiles /\ cell \in [Index -> Cell]
    BY DEF TypeOK, Header
  <2>3. cell' = Compact(cell, i, last, Empty)
    BY <1>2 DEF RemoveFile
  <2>4. op' = "remove" /\ index' = i /\ cellBackup' = cell[i] /\ headerBackup' = header
    BY <1>2 DEF RemoveFile, StartJob
  <2>5. UndoneCells' = [j \in Index |-> undone(j)]
    BY <2>4 DEF UndoneCells
  <2>6. ASSUME NEW j \in Index PROVE undone(j) = cell[j]
    <3>1. CASE j = i
      BY <3>1
    <3>2. CASE i < j /\ j < header.count
      <4>1. j - 1 \in Index /\ ~(j - 1 < i) /\ j - 1 < last /\ (j - 1) + 1 = j
        BY <2>1, <2>2, <3>2, SlotsAssumption DEF Index
      <4>2. cell'[j - 1] = cell[(j - 1) + 1]
        BY <2>3, <4>1 DEF Compact
      <4> QED
        BY <3>2, <4>1, <4>2, <2>1 DEF Index
    <3>3. CASE j # i /\ ~(i < j /\ j < header.count)
      BY <2>1, <2>2, <2>3, <3>3 DEF Compact, Index
    <3> QED
      BY <3>1, <3>2, <3>3
  <2> QED
    BY <2>2, <2>4, <2>5, <2>6
<1> QED
  BY <1>1, <1>2

-----------------------------------------------------------------------------
(* The inductive invariant. *)

(* A write changes nothing but its slot, and never the active one. *)
LEMMA TargetInactive == active # "none" => Target # active
BY DEF Target

LEMMA WritesLocal ==
  ASSUME TypeOK
  PROVE  /\ \A h : PutHeader(h) =>
                /\ \A s \in SlotName : s # Target => disk'[s] = disk[s]
                /\ disk'[Target].header = h
                /\ disk'[Target].cell = disk[Target].cell
         /\ \A c : PutCell(c) =>
                /\ \A s \in SlotName : s # Target => disk'[s] = disk[s]
                /\ disk'[Target].header = disk[Target].header
                /\ disk'[Target].cell = [disk[Target].cell EXCEPT ![cursor] = c]
BY TargetType DEF PutHeader, PutCell, TypeOK, Disk, Slot

LEMMA NoHeaderInvalid ==
  ASSUME NEW slot, slot.header = NoHeader PROVE ~HeaderValid(slot)
BY DEF HeaderValid, NoHeader

(* A slot whose header goes, or does not change while its cells do not       *)
(* either, keeps vouching.                                                   *)
LEMMA SlotKept ==
  ASSUME NEW old, NEW new, ~HeaderValid(new) \/ new = old
  PROVE  /\ (HeaderValid(old) => PayloadValid(old)) => (HeaderValid(new) => PayloadValid(new))
         /\ (HeaderValid(old) => Intact(LoadedHeader(old), LoadedCells(old)))
              => (HeaderValid(new) => Intact(LoadedHeader(new), LoadedCells(new)))
OBVIOUS

(* A committed slot holds the directory and the cells in RAM, and is sound. *)
LEMMA CommittedSlot ==
  ASSUME TypeOK, Kinds, MemoryIntact, TargetOpen, pc = "commit", PutHeader(NewHeader)
  PROVE  LET slot == disk'[Target]
         IN  /\ slot.header = NewHeader
             /\ LoadedHeader(slot) = NewHeader
             /\ Sound(slot)
             /\ Intact(LoadedHeader(slot), LoadedCells(slot))
             /\ Intact(NewHeader, cell)
<1> DEFINE slot == disk'[Target]
<1>1. TypeOK /\ Kinds /\ MemoryIntact /\ TargetOpen
  OBVIOUS
<1>2. slot.header = NewHeader /\ slot.cell = disk[Target].cell
  BY <1>1, WritesLocal
<1>3. \A i \in Index : slot.cell[i] = cell[i]
  BY <1>1, <1>2 DEF TargetOpen
<1>4. NewHeader.kind = "nix3" /\ NewHeader.count = header.count
      /\ NewHeader.entry = header.entry /\ Used(NewHeader) = Used(header)
  BY <1>1 DEF NewHeader, Kinds, TypeOK, Header, Used
<1>5. NewHeader \in Header
  BY <1>1, NewHeaderType
<1>6. LoadedHeader(slot) = NewHeader
  BY <1>2, <1>4, <1>5 DEF LoadedHeader, Header
<1>7. LoadedCells(slot) = slot.cell
  BY <1>2, <1>4 DEF LoadedCells
<1>8. Intact(NewHeader, cell)
  BY <1>1, <1>4, IntactSame DEF MemoryIntact
<1>9. Used(NewHeader) \subseteq Index
  BY DEF Used
<1>10. Intact(NewHeader, slot.cell)
  BY <1>3, <1>8, <1>9, IntactSame
<1>11. Sound(slot)
  BY <1>2, <1>4, <1>10 DEF Sound, HeaderValid, PayloadValid, Intact
<1> QED
  BY <1>2, <1>6, <1>7, <1>8, <1>10, <1>11

LEMMA InitIInv == Init => IInv
<1> SUFFICES ASSUME Init PROVE IInv
  OBVIOUS
<1>1. TypeOK
  BY InitType
<1>2. Kinds /\ pc = "off" /\ ~Saving
  BY DEF Init, PowerOff, NoJob, Kinds, EmptyHeader, NoHeader, Saving
<1>3. MemoryIntact
  BY <1>2, EmptyIntact DEF MemoryIntact, Init, PowerOff
<1>4. ASSUME NEW s \in SlotName, HeaderValid(disk[s])
      PROVE  PayloadValid(disk[s]) /\ Intact(LoadedHeader(disk[s]), LoadedCells(disk[s]))
  <2>1. disk[s] \in FloppySlots
    BY DEF Init
  <2>2. ~ \E c \in {Empty, Torn} :
            disk[s] = [header |-> NoHeader, cell |-> [ZeroCells EXCEPT ![0] = c]]
    BY <1>4, NoHeaderInvalid
  <2>3. PICK g \in Gen, c \in Sum :
          disk[s] = [header |-> LegacyHeader(g, c), cell |-> [ZeroCells EXCEPT ![0] = c]]
    BY <2>1, <2>2 DEF FloppySlots
  <2>4. /\ disk[s].header.kind = "nix2"
        /\ disk[s].header.count = 1
        /\ disk[s].header.entry[0] = [name |-> DefaultName, sum |-> c]
        /\ disk[s].cell[0] = c
    BY <2>3, ConstantTypes DEF LegacyHeader
  <2>5. Used(disk[s].header) = {0}
    BY <2>4, SlotsAssumption DEF Used, Index
  <2>6. PayloadValid(disk[s])
    BY <2>4, <2>5 DEF PayloadValid, Matches
  <2>7. LET h == LoadedHeader(disk[s])
        IN  h.count = 1 /\ h.entry[0] = [name |-> DefaultName, sum |-> c]
    <3>1. disk[s].header \in Header
      BY <1>1 DEF TypeOK, Disk, Slot
    <3> QED
      BY <2>4, <3>1 DEF LoadedHeader, Header
  <2>8. Used(LoadedHeader(disk[s])) = {0}
    BY <2>7, SlotsAssumption DEF Used, Index
  <2>9. LoadedCells(disk[s])[0] = c
    BY <2>4, ConstantTypes DEF LoadedCells
  <2>10. Intact(LoadedHeader(disk[s]), LoadedCells(disk[s]))
    BY <2>7, <2>8, <2>9, SlotsAssumption DEF Intact, UniqueNames, Matches
  <2> QED
    BY <2>6, <2>10
<1> QED
  BY <1>1, <1>2, <1>3, <1>4
     DEF IInv, HeadersVouch, Loadable, ActiveHolds, TargetOpen, ActivePreferred

(* What a failed write leaves: RAM as before the operation, the active slot  *)
(* untouched, and no new header unless the kept cells match it.              *)
LEMMA FailIInv ==
  ASSUME IInv, Saving, Fail, TypeOK', HeadersVouch', Loadable',
         \A s \in SlotName : s # Target => disk'[s] = disk[s]
  PROVE  IInv'
<1>1. /\ header' = headerBackup /\ cell' = UndoneCells
      /\ headerBackup' = EmptyHeader /\ pc' = "idle" /\ reply' = "failed"
      /\ active' = active /\ generation' = generation
  BY DEF Fail, EndJob, DropJob
<1>2. ~Saving'
  BY <1>1 DEF Saving
<1>3. Kinds'
  BY <1>1 DEF IInv, Kinds, EmptyHeader, NoHeader
<1>4. MemoryIntact'
  BY <1>1, <1>2 DEF IInv, MemoryIntact
<1>5. Committed' = Committed
  BY <1>1, <1>2 DEF Committed
<1>6. active # "none" => disk'[active] = disk[active]
  BY TargetInactive DEF IInv, TypeOK
<1>7. active = "none" => disk'["B"] = disk["B"]
  BY DEF Target, SlotName
<1>8. ActiveHolds'
  BY <1>1, <1>5, <1>6, <1>7 DEF IInv, ActiveHolds, Saving
<1>9. TargetOpen' /\ ActivePreferred'
  BY <1>1 DEF TargetOpen, ActivePreferred
<1> QED
  BY <1>3, <1>4, <1>8, <1>9 DEF IInv

(* Whatever the writes of storage_save leave in the target, done, failed or  *)
(* torn, no slot has a valid header over a payload that is not its own.      *)
LEMMA WritesVouch ==
  ASSUME IInv,
         \/ pc = "invalidate" /\ \E h \in HeaderWrites(NoHeader) : PutHeader(h)
         \/ pc = "payload" /\ \E c \in CellWrites(cell[cursor]) : PutCell(c)
         \/ pc = "commit" /\ \E h \in HeaderWrites(NewHeader) : PutHeader(h)
  PROVE  /\ HeadersVouch' /\ Loadable'
         /\ \A s \in SlotName : s # Target => disk'[s] = disk[s]
<1> USE TargetType
<1>1. TypeOK
  BY DEF IInv
<1>2. \A s \in SlotName : s # Target => disk'[s] = disk[s]
  BY <1>1, WritesLocal
<1>3. PutHeader(disk[Target].header) => disk' = disk
  BY <1>1 DEF PutHeader, TypeOK, Disk, Slot
<1>4. \/ disk'[Target] = disk[Target]
      \/ ~HeaderValid(disk'[Target])
      \/ pc = "commit" /\ PutHeader(NewHeader)
  <2>1. CASE \E h \in HeaderWrites(NoHeader) : PutHeader(h)
    <3>1. PutHeader(disk[Target].header) \/ PutHeader(NoHeader)
      BY <2>1 DEF HeaderWrites
    <3> QED
      BY <1>1, <1>3, <3>1, WritesLocal, NoHeaderInvalid
  <2>2. CASE pc = "payload" /\ \E c \in CellWrites(cell[cursor]) : PutCell(c)
    BY <1>1, <2>2, WritesLocal DEF IInv, TargetOpen, HeaderValid
  <2>3. CASE pc = "commit" /\ \E h \in HeaderWrites(NewHeader) : PutHeader(h)
    <3>1. PutHeader(disk[Target].header) \/ PutHeader(NoHeader) \/ PutHeader(NewHeader)
      BY <2>3 DEF HeaderWrites
    <3> QED
      BY <1>1, <1>3, <2>3, <3>1, WritesLocal, NoHeaderInvalid
  <2> QED
    BY <2>1, <2>2, <2>3
<1>5. ASSUME NEW s \in SlotName, HeaderValid(disk'[s])
      PROVE  PayloadValid(disk'[s]) /\ Intact(LoadedHeader(disk'[s]), LoadedCells(disk'[s]))
  <2>1. CASE disk'[s] = disk[s]
    BY <1>5, <2>1 DEF IInv, HeadersVouch, Loadable
  <2>2. CASE disk'[s] # disk[s]
    <3>1. s = Target /\ pc = "commit" /\ PutHeader(NewHeader)
      BY <1>2, <1>4, <1>5, <2>2
    <3> QED
      BY <3>1, CommittedSlot DEF IInv, Sound
  <2> QED
    BY <2>1, <2>2
<1> QED
  BY <1>2, <1>5 DEF HeadersVouch, Loadable

(* An operation that starts leaves the floppy alone and can be undone. *)
LEMMA StartIInv ==
  ASSUME IInv, TypeOK', NEW n \in Names, NEW c \in Sum, SaveFile(n, c) \/ RemoveFile(n)
  PROVE  IInv'
<1>1. TypeOK /\ Kinds /\ MemoryIntact /\ pc = "idle" /\ ~Saving
  BY DEF IInv, SaveFile, RemoveFile, Saving
<1>2. /\ pc' = "invalidate" /\ cursor' = 0 /\ disk' = disk
      /\ active' = active /\ generation' = generation
  BY DEF SaveFile, RemoveFile, StartJob
<1>3. UndoneCells' = cell /\ headerBackup' = header
  BY <1>1, UndoRestores
<1>4. header'.kind = header.kind
  BY <1>1 DEF SaveFile, RemoveFile, TypeOK, Header
<1>5. Kinds'
  BY <1>1, <1>3, <1>4 DEF Kinds
<1>6. MemoryIntact'
  <2>1. Intact(header', cell')
    BY <1>1, SaveIntact, RemoveIntact DEF MemoryIntact
  <2> QED
    BY <1>1, <1>3, <2>1 DEF MemoryIntact
<1>7. Committed' = Committed
  BY <1>1, <1>2, <1>3 DEF Committed, Saving
<1>8. ActiveHolds'
  BY <1>1, <1>2, <1>7 DEF IInv, ActiveHolds
<1>9. TargetOpen' /\ ActivePreferred'
  BY <1>2 DEF TargetOpen, ActivePreferred
<1>10. HeadersVouch' /\ Loadable'
  BY <1>2 DEF IInv, HeadersVouch, Loadable
<1> QED
  BY <1>5, <1>6, <1>8, <1>9, <1>10 DEF IInv

LEMMA BootIInv ==
  ASSUME IInv, TypeOK', Boot({}, {})
  PROVE  IInv'
<1> DEFINE s == ChooseSlot(disk, {}, {})
<1>1. /\ pc' = "idle" /\ active' = s /\ disk' = disk /\ headerBackup' = headerBackup
      /\ header' = (IF s = "none" THEN EmptyHeader ELSE LoadedHeader(disk[s]))
      /\ cell' = (IF s = "none" THEN ZeroCells ELSE LoadedCells(disk[s]))
      /\ generation' = (IF s = "none" THEN 0 ELSE disk[s].header.gen)
  BY DEF Boot, job
<1>2. ~Saving' /\ Committed' = header'
  BY <1>1 DEF Saving, Committed
<1>3. s # "none" => s \in SlotName /\ HeaderValid(disk[s])
  BY ChooseSound DEF Sound
<1>4. s = "none" => ~HeaderValid(disk["B"])
  BY BootNone DEF IInv, HeadersVouch, BootSlot
<1>5. Kinds'
  <2>1. s # "none" => disk[s].header \in Header
    BY <1>3 DEF IInv, TypeOK, Disk, Slot
  <2> QED
    BY <1>1, <2>1 DEF IInv, Kinds, EmptyHeader, NoHeader, LoadedHeader, Header
<1>6. MemoryIntact'
  BY <1>1, <1>2, <1>3, EmptyIntact DEF IInv, Loadable, MemoryIntact
<1>7. ActiveHolds'
  BY <1>1, <1>2, <1>3, <1>4 DEF ActiveHolds
<1>8. TargetOpen' /\ ActivePreferred'
  BY <1>1 DEF TargetOpen, ActivePreferred, BootSlot
<1>9. HeadersVouch' /\ Loadable'
  BY <1>1 DEF IInv, HeadersVouch, Loadable
<1> QED
  BY <1>5, <1>6, <1>7, <1>8, <1>9 DEF IInv

(* The first write of storage_save leaves the target without a header, each  *)
(* write of the payload leaves one cell more as it is in RAM.                *)
LEMMA InvalidateOpens ==
  ASSUME TypeOK, TargetOpen, Invalidate
  PROVE  TargetOpen'
<1>1. /\ pc = "invalidate" /\ pc' = "payload" /\ PutHeader(NoHeader)
      /\ UNCHANGED <<cell, active, cursor>>
  BY DEF Invalidate, ram, job
<1>2. Target' = Target /\ ~HeaderValid(disk'[Target])
  BY <1>1, WritesLocal, NoHeaderInvalid DEF Target
<1>3. cursor = 0
  BY <1>1 DEF TargetOpen
<1> QED
  BY <1>1, <1>2, <1>3 DEF TargetOpen, Index

LEMMA CellOpens ==
  ASSUME TypeOK, TargetOpen, WriteCell
  PROVE  TargetOpen'
<1>1. /\ pc = "payload" /\ pc' \in {"payload", "commit"} /\ PutCell(cell[cursor])
      /\ UNCHANGED <<cell, active>>
      /\ IF cursor = MaxFiles - 1 THEN pc' = "commit"
         ELSE pc' = "payload" /\ cursor' = cursor + 1
  BY DEF WriteCell, ram
<1>2. Target' = Target
  BY <1>1 DEF Target
<1>3. /\ disk'[Target].header = disk[Target].header
      /\ disk'[Target].cell = [disk[Target].cell EXCEPT ![cursor] = cell[cursor]]
  BY <1>1, WritesLocal
<1>4. /\ ~HeaderValid(disk[Target])
      /\ \A i \in Index : i < cursor => disk[Target].cell[i] = cell[i]
  BY <1>1 DEF TargetOpen
<1>5. ~HeaderValid(disk'[Target])
  BY <1>3, <1>4 DEF HeaderValid
<1>6. cursor \in Index /\ disk[Target].cell \in [Index -> Cell]
  BY TargetType DEF TypeOK, Disk, Slot
<1>7. \A i \in Index : i <= cursor => disk'[Target].cell[i] = cell[i]
  <2> SUFFICES ASSUME NEW i \in Index, i <= cursor PROVE disk'[Target].cell[i] = cell[i]
    OBVIOUS
  <2>1. CASE i = cursor
    BY <1>3, <1>6, <2>1
  <2>2. CASE i # cursor
    <3>1. i < cursor
      BY <1>6, <2>2 DEF Index
    <3> QED
      BY <1>3, <1>4, <1>6, <2>2, <3>1
  <2> QED
    BY <2>1, <2>2
<1>8. \A i \in Index : pc' = "commit" \/ i < cursor' => i <= cursor
  BY <1>1, <1>6, SlotsAssumption DEF Index
<1>9. TargetOpen'
  BY <1>1, <1>2, <1>5, <1>7, <1>8 DEF TargetOpen
<1> QED
  BY <1>9

LEMMA InvalidateIInv ==
  ASSUME IInv, TypeOK', Invalidate
  PROVE  IInv'
<1>1. /\ pc = "invalidate" /\ pc' = "payload" /\ PutHeader(NoHeader)
      /\ UNCHANGED <<header, cell, active, generation, op, index, headerBackup,
                     cellBackup, cursor, reply>>
  BY DEF Invalidate, ram, job
<1>2. Saving /\ Saving' /\ UndoneCells' = UndoneCells /\ Target' = Target
      /\ Committed' = Committed
  BY <1>1 DEF Saving, UndoneCells, Target, Committed
<1>3. HeadersVouch' /\ Loadable' /\ \A s \in SlotName : s # Target => disk'[s] = disk[s]
  BY <1>1, WritesVouch DEF HeaderWrites
<1>4. Kinds' /\ MemoryIntact'
  BY <1>1, <1>2 DEF IInv, Kinds, MemoryIntact
<1>5. ActiveHolds'
  BY <1>1, <1>2, <1>3, TargetInactive DEF IInv, TypeOK, ActiveHolds, Target, SlotName
<1>6. TargetOpen'
  BY InvalidateOpens DEF IInv
<1>7. ActivePreferred'
  BY <1>1 DEF ActivePreferred
<1> QED
  BY <1>3, <1>4, <1>5, <1>6, <1>7 DEF IInv

LEMMA WriteCellIInv ==
  ASSUME IInv, TypeOK', WriteCell
  PROVE  IInv'
<1>1. /\ pc = "payload" /\ pc' \in {"payload", "commit"} /\ PutCell(cell[cursor])
      /\ UNCHANGED <<header, cell, active, generation, op, index, headerBackup,
                     cellBackup, reply>>
      /\ IF cursor = MaxFiles - 1 THEN pc' = "commit"
         ELSE pc' = "payload" /\ cursor' = cursor + 1
  BY DEF WriteCell, ram
<1>2. Saving /\ Saving' /\ UndoneCells' = UndoneCells /\ Target' = Target
      /\ Committed' = Committed
  BY <1>1 DEF Saving, UndoneCells, Target, Committed
<1>3. HeadersVouch' /\ Loadable' /\ \A s \in SlotName : s # Target => disk'[s] = disk[s]
  BY <1>1, WritesVouch DEF CellWrites
<1>4. Kinds' /\ MemoryIntact'
  BY <1>1, <1>2 DEF IInv, Kinds, MemoryIntact
<1>5. ActiveHolds'
  BY <1>1, <1>2, <1>3, TargetInactive DEF IInv, TypeOK, ActiveHolds, Target, SlotName
<1>6. TargetOpen'
  BY CellOpens DEF IInv
<1>7. ActivePreferred'
  BY <1>1 DEF ActivePreferred
<1> QED
  BY <1>3, <1>4, <1>5, <1>6, <1>7 DEF IInv

LEMMA CommitIInv ==
  ASSUME IInv, TypeOK', Commit
  PROVE  IInv'
<1>1. /\ pc = "commit" /\ PutHeader(NewHeader) /\ header' = NewHeader
      /\ active' = Target /\ generation' = NewHeader.gen
      /\ pc' = "idle" /\ headerBackup' = EmptyHeader /\ cell' = cell
  BY DEF Commit, EndJob, DropJob
<1>2. HeadersVouch' /\ Loadable' /\ \A s \in SlotName : s # Target => disk'[s] = disk[s]
  BY <1>1, WritesVouch DEF HeaderWrites
<1>3. /\ disk'[Target].header = NewHeader
      /\ LoadedHeader(disk'[Target]) = NewHeader
      /\ Sound(disk'[Target])
      /\ Intact(NewHeader, cell)
  BY <1>1, CommittedSlot DEF IInv
<1>4. ~Saving' /\ Committed' = NewHeader
  BY <1>1 DEF Saving, Committed
<1>5. TypeOK /\ Target \in SlotName /\ Target # "none"
  BY TargetType DEF IInv, Target
<1>6. Kinds'
  BY <1>1, <1>5 DEF IInv, Kinds, NewHeader, EmptyHeader, NoHeader, TypeOK, Header
<1>7. MemoryIntact'
  BY <1>1, <1>3, <1>4 DEF MemoryIntact
<1>8. ActiveHolds'
  BY <1>1, <1>3, <1>4, <1>5 DEF ActiveHolds, Sound
<1>9. BootSlot(disk') = Target
  <2>1. Other(Target) \in SlotName /\ Other(Target) # Target
    BY <1>5 DEF Other, SlotName
  <2>2. disk'[Other(Target)] = disk[Other(Target)]
    BY <1>2, <2>1
  <2>3. disk[Other(Target)].header.gen \in Gen
    BY <1>5, <2>1 DEF TypeOK, Disk, Slot, Header
  <2>4. CASE active = "none"
    <3>1. Other(Target) = "B" /\ ~HeaderValid(disk["B"])
      BY <1>1, <2>4 DEF IInv, ActiveHolds, Other, Target
    <3> QED
      BY <1>3, <1>5, <2>2, <2>3, <3>1, BootNewest
  <2>5. CASE active # "none"
    <3>1. Other(Target) = active
      BY <1>5, <2>5 DEF Other, Target, TypeOK, SlotName
    <3>2. generation = disk[active].header.gen
      BY <1>1, <2>5 DEF IInv, ActiveHolds
    <3>3. NewHeader.gen = IncGen(generation)
      BY <1>5, <2>5 DEF NewHeader, TypeOK, Header
    <3> QED
      BY <1>3, <1>5, <2>2, <2>3, <3>1, <3>2, <3>3, BootNewest
  <2> QED
    BY <2>4, <2>5
<1>10. TargetOpen' /\ ActivePreferred'
  BY <1>1, <1>9 DEF TargetOpen, ActivePreferred
<1> QED
  BY <1>2, <1>6, <1>7, <1>8, <1>10 DEF IInv

LEMMA CrashIInv ==
  ASSUME IInv, TypeOK', Crash
  PROVE  IInv'
<1>1. /\ header' = EmptyHeader /\ headerBackup' = EmptyHeader /\ pc' = "off"
  BY DEF Crash, DropJob
<1>2. ~Saving'
  BY <1>1 DEF Saving
<1>3. HeadersVouch' /\ Loadable'
  <2>1. CASE pc = "idle"
    BY <2>1 DEF Crash, IInv, HeadersVouch, Loadable
  <2>2. CASE pc # "idle"
    BY <2>2, WritesVouch DEF Crash, IInv, TypeOK
  <2> QED
    BY <2>1, <2>2
<1>4. Kinds' /\ MemoryIntact'
  BY <1>1, <1>2, EmptyIntact DEF Kinds, MemoryIntact, EmptyHeader, NoHeader
<1>5. ActiveHolds' /\ TargetOpen' /\ ActivePreferred'
  BY <1>1 DEF ActiveHolds, TargetOpen, ActivePreferred
<1> QED
  BY <1>3, <1>4, <1>5 DEF IInv

LEMMA NextIInv == IInv /\ [Next]_vars => IInv'
<1> SUFFICES ASSUME IInv, [Next]_vars PROVE IInv'
  OBVIOUS
<1>1. TypeOK'
  BY NextType DEF IInv
<1>2. CASE Boot({}, {})
  BY <1>1, <1>2, BootIInv
<1>3. ASSUME NEW n \in Names, NEW c \in Sum, SaveFile(n, c) PROVE IInv'
  BY <1>1, <1>3, StartIInv
<1>4. ASSUME NEW n \in Names, RemoveFile(n) PROVE IInv'
  <2>1. Empty \in Sum
    BY DEF Sum
  <2> QED
    BY <1>1, <1>4, <2>1, StartIInv
<1>5. ASSUME NEW n \in Names, RefuseFull(n) PROVE IInv'
  <2>1. UNCHANGED <<disk, header, cell, active, generation, pc, op, index,
                    headerBackup, cellBackup, cursor>> /\ reply' = "full"
    BY <1>5 DEF RefuseFull, ram, job
  <2> QED
    BY <1>1, <2>1 DEF IInv, Kinds, HeadersVouch, MemoryIntact, Loadable, ActiveHolds,
         TargetOpen, ActivePreferred, Saving, UndoneCells, Committed, Target
<1>6. CASE Invalidate
  BY <1>1, <1>6, InvalidateIInv
<1>7. CASE InvalidateFails
  BY <1>1, <1>7, WritesVouch, FailIInv DEF InvalidateFails, Saving
<1>8. CASE WriteCell
  BY <1>1, <1>8, WriteCellIInv
<1>9. CASE WriteCellFails
  BY <1>1, <1>9, WritesVouch, FailIInv DEF WriteCellFails, Saving
<1>10. CASE Commit
  BY <1>1, <1>10, CommitIInv
<1>11. CASE CommitFails
  BY <1>1, <1>11, WritesVouch, FailIInv DEF CommitFails, Saving
<1>12. CASE Crash
  BY <1>1, <1>12, CrashIInv
<1>13. CASE UNCHANGED vars
  BY <1>1, <1>13 DEF vars, ram, job, IInv, Kinds, HeadersVouch, MemoryIntact, Loadable,
       ActiveHolds, TargetOpen, ActivePreferred, Saving, UndoneCells, Committed, Target
<1> QED
  BY <1>2, <1>3, <1>4, <1>5, <1>6, <1>7, <1>8, <1>9, <1>10, <1>11, <1>12, <1>13
     DEF Next, Operation, SaveStep

-----------------------------------------------------------------------------
(* The theorems. *)

LEMMA Invariance == Spec => []IInv
<1>1. Init => IInv
  BY InitIInv
<1>2. IInv /\ [Next]_vars => IInv'
  BY NextIInv
<1> QED
  BY <1>1, <1>2, PTL DEF Spec

(* No order of failed writes, torn sectors and reboots leaves a slot that    *)
(* passes the header check of storage_load over a payload that fails it.     *)
THEOREM HeadersVouchAlways == Spec => []HeadersVouch
<1>1. IInv => HeadersVouch
  BY DEF IInv
<1> QED
  BY <1>1, Invariance, PTL

(* The directory in RAM always describes the cells in RAM, and undoing the   *)
(* operation in progress (file_save_rollback, file_remove's .failed) would   *)
(* give a directory that describes its cells.                                *)
THEOREM MemoryIntactAlways == Spec => []MemoryIntact
<1>1. IInv => MemoryIntact
  BY DEF IInv
<1> QED
  BY <1>1, Invariance, PTL

(* What file_save and file_remove acknowledge, and what a boot shows, is     *)
(* what the next boot shows.                                                 *)
THEOREM AckedIsDurableAlways == Spec => []AckedIsDurable
<1>1. IInv => AckedIsDurable
  <2> SUFFICES ASSUME IInv, pc = "idle", reply \in {"none", "ok"}
               PROVE  RecoveredFiles(disk) = Files(header)
    BY DEF AckedIsDurable
  <2>1. BootSlot(disk) = active /\ header = Committed
    BY DEF IInv, ActivePreferred, Committed, Saving
  <2>2. CASE active = "none"
    <3>1. header = EmptyHeader
      BY <2>1, <2>2 DEF IInv, ActiveHolds
    <3>2. Used(header) = {}
      BY <3>1, SlotsAssumption DEF EmptyHeader, NoHeader, Used, Index
    <3>3. {header.entry[i].name : i \in {}} = {}
      OBVIOUS
    <3>4. Listing(header.entry, {}) = NoFiles
      BY <3>3 DEF Listing, NoFiles
    <3> QED
      BY <2>1, <2>2, <3>2, <3>4 DEF RecoveredFiles, Files
  <2>3. CASE active # "none"
    <3>1. header = LoadedHeader(disk[active]) /\ active \in SlotName
      BY <2>1, <2>3 DEF IInv, ActiveHolds, TypeOK
    <3>2. disk[active].header \in Header
      BY <3>1 DEF IInv, TypeOK, Disk, Slot
    <3>3. header.count = disk[active].header.count /\ header.entry = disk[active].header.entry
      BY <3>1, <3>2 DEF LoadedHeader, Header
    <3>4. Used(header) = Used(disk[active].header)
      BY <3>3 DEF Used
    <3>6. Files(header) = Files(disk[active].header)
      BY <3>3, <3>4 DEF Files
    <3> QED
      BY <2>1, <2>3, <3>6 DEF RecoveredFiles
  <2> QED
    BY <2>2, <2>3
<1> QED
  BY <1>1, Invariance, PTL

(* While the kernel runs it never writes the slot it loaded or last          *)
(* committed, so a save that fails or is cut short can be fallen back from.  *)
THEOREM FallbackKeptAlways == Spec => FallbackKept
<1>1. TypeOK /\ [Next]_vars =>
        (pc # "off" /\ active # "none" => disk'[active] = disk[active])
  <2> SUFFICES ASSUME TypeOK, [Next]_vars, pc # "off", active # "none"
               PROVE  disk'[active] = disk[active]
    OBVIOUS
  <2>1. active \in SlotName /\ Target # active
    BY TargetInactive DEF TypeOK
  <2>2. (\E h : PutHeader(h)) \/ (\E c : PutCell(c)) => disk'[active] = disk[active]
    BY <2>1, WritesLocal
  <2>3. \/ disk' = disk
        \/ \E h : PutHeader(h)
        \/ \E c : PutCell(c)
    BY DEF Next, Boot, Operation, SaveStep, SaveFile, RemoveFile, RefuseFull, StartJob,
           Invalidate, InvalidateFails, WriteCell, WriteCellFails, Commit, CommitFails,
           Crash, vars, TypeOK
  <2> QED
    BY <2>2, <2>3
<1>2. Spec => [][TypeOK /\ [Next]_vars]_vars
  BY TypeCorrect, PTL DEF Spec
<1> QED
  BY <1>1, TypeCorrect, PTL DEF Spec, FallbackKept

-----------------------------------------------------------------------------
(* The files a directory presents.                                           *)

NamesIn(h) == {h.entry[i].name : i \in Used(h)}

(* A directory with distinct names gives every name the content of its entry. *)
LEMMA FilesAre ==
  ASSUME NEW h, UniqueNames(h)
  PROVE  /\ DOMAIN Files(h) = NamesIn(h)
         /\ Files(h) = [n \in NamesIn(h) |-> Files(h)[n]]
         /\ \A i \in Used(h) : Files(h)[h.entry[i].name] = h.entry[i].sum
<1>1. Files(h) = [n \in NamesIn(h) |->
                    h.entry[CHOOSE i \in Used(h) : h.entry[i].name = n].sum]
  BY DEF Files, Listing, NamesIn
<1>2. ASSUME NEW i \in Used(h)
      PROVE  (CHOOSE j \in Used(h) : h.entry[j].name = h.entry[i].name) = i
  BY DEF UniqueNames
<1>3. \A i \in Used(h) : h.entry[i].name \in NamesIn(h)
  BY DEF NamesIn
<1>4. ASSUME NEW i \in Used(h)
      PROVE  Files(h)[h.entry[i].name] = h.entry[i].sum
  <2> DEFINE n == h.entry[i].name
             j == CHOOSE k \in Used(h) : h.entry[k].name = n
  <2>1. n \in NamesIn(h) /\ j = i
    BY <1>2, <1>3
  <2>2. Files(h)[n] = h.entry[j].sum
    BY <1>1, <2>1
  <2> QED BY <2>1, <2>2
<1> QED BY <1>1, <1>4

(* Two functions on the same names with the same contents are the same.      *)
LEMMA SameFiles ==
  ASSUME NEW f, NEW g, NEW S, f = [n \in S |-> f[n]], g = [n \in S |-> g[n]],
         \A n \in S : f[n] = g[n]
  PROVE  f = g
<1>1. [n \in S |-> f[n]] = [n \in S |-> g[n]]
  OBVIOUS
<1> QED BY <1>1

(* As many names as entries. *)
LEMMA NamesCounted ==
  ASSUME NEW h \in Header, UniqueNames(h)
  PROVE  /\ IsFiniteSet(NamesIn(h)) /\ Cardinality(NamesIn(h)) = h.count
         /\ Cardinality(Used(h)) = h.count
<1> DEFINE f == [i \in Used(h) |-> h.entry[i].name]
<1>1. h.count \in 0 .. MaxFiles /\ h.count \in Nat
  BY SlotsAssumption DEF Header
<1>2. Used(h) = 0 .. (h.count - 1)
  BY <1>1, SlotsAssumption DEF Used, Index
<1>3. IsFiniteSet(Used(h)) /\ Cardinality(Used(h)) = h.count
  <2>1. 0 \in Int /\ h.count - 1 \in Int
    BY <1>1
  <2>2. /\ IsFiniteSet(0 .. (h.count - 1))
        /\ Cardinality(0 .. (h.count - 1))
             = IF 0 > h.count - 1 THEN 0 ELSE (h.count - 1) - 0 + 1
    BY <2>1, FS_Interval
  <2> QED BY <1>1, <1>2, <2>2
<1>4. f \in Bijection(Used(h), NamesIn(h))
  <2>1. f \in [Used(h) -> NamesIn(h)]
    BY DEF NamesIn
  <2>2. \A i, j \in Used(h) : f[i] = f[j] => i = j
    BY DEF UniqueNames
  <2>3. \A n \in NamesIn(h) : \E i \in Used(h) : f[i] = n
    BY DEF NamesIn
  <2> QED BY <2>1, <2>2, <2>3 DEF Bijection, Injection, Surjection, IsInjective
<1>5. ExistsBijection(Used(h), NamesIn(h))
  BY <1>4 DEF ExistsBijection
<1> QED BY <1>3, <1>5, FS_Bijection

LEMMA CardinalitySame == \A S : Atomic!Cardinality(S) = Cardinality(S)
BY DEF Atomic!Cardinality, Cardinality

(* An intact directory presents a file map of AtomicStore. *)
LEMMA FilesTyped ==
  ASSUME NEW h \in Header, NEW cells, Intact(h, cells)
  PROVE  Files(h) \in Atomic!FileMaps
<1>1. UniqueNames(h)
  BY DEF Intact
<1>2. NamesIn(h) \subseteq Names
  BY DEF Intact, NamesIn, Used, Header, Entry
<1>3. Cardinality(NamesIn(h)) <= MaxFiles
  BY <1>1, NamesCounted, SlotsAssumption DEF Header
<1>4. ASSUME NEW n \in NamesIn(h) PROVE Files(h)[n] \in Sum
  <2>1. PICK i \in Used(h) : n = h.entry[i].name
    BY DEF NamesIn
  <2>2. h.entry[i].sum \in Sum
    BY DEF Used, Header, Entry
  <2> QED BY <1>1, <2>1, <2>2, FilesAre
<1>5. Files(h) \in [NamesIn(h) -> Sum]
  BY <1>1, <1>4, FilesAre
<1>6. NamesIn(h) \in {T \in SUBSET Names : Cardinality(T) <= MaxFiles}
  BY <1>2, <1>3
<1> DEFINE D == {T \in SUBSET Names : Cardinality(T) <= MaxFiles}
<1>7. Atomic!FileMaps = UNION {[S -> Sum] : S \in D}
  BY CardinalitySame DEF Atomic!FileMaps
<1> HIDE DEF D
<1>8. [NamesIn(h) -> Sum] \in {[S -> Sum] : S \in D}
  BY <1>6 DEF D
<1> QED BY <1>5, <1>7, <1>8

(* The files do not depend on a header's kind or generation. *)
LEMMA FilesSame ==
  ASSUME NEW h, NEW k, h.count = k.count, h.entry = k.entry
  PROVE  Files(h) = Files(k)
<1>1. Used(h) = Used(k)
  BY DEF Used
<1> QED BY <1>1 DEF Files

LEMMA LoadedFiles ==
  ASSUME NEW slot \in Slot
  PROVE  Files(LoadedHeader(slot)) = Files(slot.header)
<1>1. slot.header \in Header
  BY DEF Slot
<1>2. /\ LoadedHeader(slot).count = slot.header.count
      /\ LoadedHeader(slot).entry = slot.header.entry
  BY <1>1 DEF LoadedHeader, Header
<1> QED BY <1>2, FilesSame

LEMMA NoFilesInEmpty == Files(EmptyHeader) = NoFiles /\ NoFiles = Atomic!NoFiles
<1>1. Used(EmptyHeader) = {}
  BY SlotsAssumption DEF EmptyHeader, NoHeader, Used, Index
<1>2. {EmptyHeader.entry[i].name : i \in {}} = {}
  OBVIOUS
<1>3. Listing(EmptyHeader.entry, {}) = NoFiles
  BY <1>2 DEF Listing, NoFiles
<1> QED BY <1>1, <1>3 DEF Files, NoFiles, Atomic!NoFiles

(* file_save gives the directory with the named file's new content. *)
LEMMA SaveFiles ==
  ASSUME TypeOK, Intact(header, cell), NEW n \in Names, NEW c \in Sum,
         SaveFile(n, c)
  PROVE  Files(header') = Atomic!With(Files(header), n, c)
<1> DEFINE new == Found(n) = {}
           i == IF Found(n) # {} THEN FindFile(n) ELSE header.count
           W == Atomic!With(Files(header), n, c)
<1>1. header.count \in 0 .. MaxFiles /\ header.entry \in [Index -> Entry]
  BY DEF TypeOK, Header
<1>2. UniqueNames(header) /\ UniqueNames(header')
  BY SaveIntact DEF Intact
<1>3. i \in Index
  <2>1. CASE Found(n) # {}
    BY <2>1, FindFileFinds
  <2>2. CASE Found(n) = {}
    <3>1. header.count < MaxFiles
      BY <2>2 DEF SaveFile
    <3> QED
      BY <1>1, <2>2, <3>1, SlotsAssumption DEF Index
  <2> QED
    BY <2>1, <2>2
<1>4. /\ header'.entry[i] = [name |-> n, sum |-> c]
      /\ \A j \in Index : j # i => header'.entry[j] = header.entry[j]
      /\ header'.count = IF new THEN header.count + 1 ELSE header.count
  BY <1>1, <1>3 DEF SaveFile, TypeOK, Header
<1>5. Used(header') = Used(header) \cup {i}
  <2>1. CASE new
    BY <1>1, <1>3, <1>4, <2>1 DEF Used, Index
  <2>2. CASE ~new
    <3>1. i \in Used(header)
      BY <2>2, FindFileFinds DEF Found
    <3> QED BY <1>4, <2>2, <3>1 DEF Used
  <2> QED BY <2>1, <2>2
<1>6. ~new => i \in Used(header) /\ header.entry[i].name = n
  BY FindFileFinds DEF Found
<1>7. new => i \notin Used(header)
  BY <1>1 DEF Used, Index
<1>8. Used(header) \subseteq Index
  BY DEF Used
<1> HIDE DEF i, new
<1>9. NamesIn(header') = NamesIn(header) \cup {n}
  <2>1. ASSUME NEW m \in NamesIn(header') PROVE m \in NamesIn(header) \cup {n}
    <3>1. PICK j \in Used(header') : m = header'.entry[j].name
      BY DEF NamesIn
    <3> QED BY <1>4, <1>5, <1>8, <3>1 DEF NamesIn
  <2>2. ASSUME NEW m \in NamesIn(header) PROVE m \in NamesIn(header')
    <3>1. PICK j \in Used(header) : m = header.entry[j].name
      BY DEF NamesIn
    <3>2. CASE j = i
      BY <1>4, <1>5, <1>6, <1>7, <3>1, <3>2 DEF NamesIn
    <3>3. CASE j # i
      BY <1>4, <1>5, <1>8, <3>1, <3>3 DEF NamesIn
    <3> QED BY <3>2, <3>3
  <2>3. n \in NamesIn(header')
    BY <1>4, <1>5 DEF NamesIn
  <2> QED BY <2>1, <2>2, <2>3
<1>10. /\ W = [m \in NamesIn(header') |-> W[m]]
       /\ W[n] = c
       /\ \A m \in NamesIn(header) : m # n => W[m] = Files(header)[m]
  BY <1>2, <1>9, FilesAre DEF Atomic!With
<1> HIDE DEF W
<1>11. ASSUME NEW m \in NamesIn(header') PROVE Files(header')[m] = W[m]
  <2>1. PICK j \in Used(header') : m = header'.entry[j].name
    BY DEF NamesIn
  <2>2. Files(header')[m] = header'.entry[j].sum
    BY <1>2, <2>1, FilesAre
  <2>3. CASE j = i
    BY <1>4, <1>10, <2>1, <2>2, <2>3
  <2>4. CASE j # i
    <3>1. j \in Used(header) /\ header'.entry[j] = header.entry[j]
      BY <1>4, <1>5, <1>8, <2>4
    <3>2. m \in NamesIn(header) /\ Files(header)[m] = header.entry[j].sum
      BY <1>2, <2>1, <3>1, FilesAre DEF NamesIn
    <3>3. m # n
      BY <1>2, <1>4, <1>5, <2>1, <2>4 DEF UniqueNames
    <3> QED BY <1>10, <2>2, <3>1, <3>2, <3>3
  <2> QED BY <2>3, <2>4
<1>12. Files(header') = [m \in NamesIn(header') |-> Files(header')[m]]
  BY <1>2, FilesAre
<1>13. Files(header') = W
  BY ONLY <1>10, <1>11, <1>12, SameFiles
<1> QED BY <1>13 DEF W

(* file_remove gives the directory without the named file. *)
LEMMA RemoveFiles ==
  ASSUME TypeOK, Intact(header, cell), NEW n \in Names, RemoveFile(n)
  PROVE  Files(header') =
           Atomic!Restrict(Files(header), DOMAIN Files(header) \ {n})
<1> DEFINE i == FindFile(n)
           last == header.count - 1
           Old(j) == IF j < i THEN j ELSE j + 1
           R == Atomic!Restrict(Files(header), DOMAIN Files(header) \ {n})
<1>1. header.count \in 0 .. MaxFiles /\ header.entry \in [Index -> Entry]
  BY DEF TypeOK, Header
<1>2. UniqueNames(header) /\ UniqueNames(header')
  BY RemoveIntact DEF Intact
<1>3. /\ i \in Index /\ i < header.count /\ i \in Used(header)
      /\ header.entry[i].name = n
  BY FindFileFinds DEF RemoveFile, Found
<1>4. /\ header'.entry = Compact(header.entry, i, last, NoEntry)
      /\ header'.count = last
  BY DEF RemoveFile, TypeOK, Header
<1>5. \A j \in Used(header') : j \in Index /\ j < last
  BY <1>4 DEF Used
<1>6. \A j \in Used(header') : Old(j) \in Used(header) \ {i}
  BY <1>1, <1>3, <1>5, SlotsAssumption DEF Used, Index
<1>7. \A j \in Used(header') : header'.entry[j] = header.entry[Old(j)]
  BY <1>4, <1>5 DEF Compact
<1>8. \A k \in Used(header) \ {i} : \E j \in Used(header') : Old(j) = k
  <2> SUFFICES ASSUME NEW k \in Used(header) \ {i}
               PROVE  \E j \in Used(header') : Old(j) = k
    OBVIOUS
  <2>1. k \in Index /\ k < header.count /\ k # i /\ k \in Int /\ i \in Int
    BY <1>3 DEF Used, Index
  <2>2. CASE k < i
    <3>1. k \in Used(header')
      BY <1>1, <1>3, <1>4, <2>1, <2>2 DEF Used, Index
    <3> QED BY <2>2, <3>1
  <2>3. CASE k > i
    <3>1. k - 1 \in Used(header')
      <4>1. k - 1 \in Index /\ k - 1 < header.count - 1
        BY <1>1, <1>3, <2>1, <2>3, SlotsAssumption DEF Index
      <4> QED BY <1>4, <4>1 DEF Used
    <3>2. ~(k - 1 < i) /\ (k - 1) + 1 = k
      BY <2>1, <2>3
    <3> QED BY <3>1, <3>2
  <2> QED BY <2>1, <2>2, <2>3
<1> HIDE DEF Old, last, i
<1>9. NamesIn(header') = NamesIn(header) \ {n}
  <2>1. ASSUME NEW m \in NamesIn(header') PROVE m \in NamesIn(header) \ {n}
    <3>1. PICK j \in Used(header') : m = header'.entry[j].name
      BY DEF NamesIn
    <3>2. Old(j) \in Used(header) /\ Old(j) # i /\ m = header.entry[Old(j)].name
      BY <1>6, <1>7, <3>1
    <3> QED BY <1>2, <1>3, <3>2 DEF NamesIn, UniqueNames
  <2>2. ASSUME NEW m \in NamesIn(header) \ {n} PROVE m \in NamesIn(header')
    <3>1. PICK k \in Used(header) : m = header.entry[k].name
      BY DEF NamesIn
    <3>2. k # i
      BY <1>3, <3>1
    <3>3. PICK j \in Used(header') : Old(j) = k
      BY <1>8, <3>2
    <3> QED BY <1>7, <3>1, <3>3 DEF NamesIn
  <2> QED BY <2>1, <2>2
<1>10. /\ R = [m \in NamesIn(header') |-> R[m]]
       /\ \A m \in NamesIn(header') : R[m] = Files(header)[m]
  BY <1>2, <1>9, FilesAre DEF Atomic!Restrict
<1> HIDE DEF R
<1>11. ASSUME NEW m \in NamesIn(header') PROVE Files(header')[m] = R[m]
  <2>1. PICK j \in Used(header') : m = header'.entry[j].name
    BY DEF NamesIn
  <2>2. Files(header')[m] = header'.entry[j].sum
    BY <1>2, <2>1, FilesAre
  <2>3. Old(j) \in Used(header) /\ header'.entry[j] = header.entry[Old(j)]
    BY <1>6, <1>7
  <2>4. Files(header)[m] = header.entry[Old(j)].sum
    BY <1>2, <2>1, <2>3, FilesAre
  <2> QED BY <1>10, <2>2, <2>3, <2>4
<1>12. Files(header') = [m \in NamesIn(header') |-> Files(header')[m]]
  BY <1>2, FilesAre
<1>13. Files(header') = R
  BY ONLY <1>10, <1>11, <1>12, SameFiles
<1> QED BY <1>13 DEF R

-----------------------------------------------------------------------------
(* What each write leaves on the floppy.                                     *)

(* storage_save: with no header in the target, a boot falls back to the files *)
(* before the operation.                                                     *)
LEMMA FallsBack ==
  ASSUME IInv, Saving, ~HeaderValid(disk'[Target]),
         \A s \in SlotName : s # Target => disk'[s] = disk[s]
  PROVE  RecoveredFiles(disk') = Files(headerBackup)
<1>1. TypeOK /\ HeadersVouch /\ ActiveHolds /\ pc # "off" /\ Committed = headerBackup
  BY DEF IInv, Saving, Committed
<1>2. active \in SlotName \cup {"none"}
  BY <1>1 DEF TypeOK
<1>3. CASE active = "none"
  <2>1. headerBackup = EmptyHeader /\ ~HeaderValid(disk["B"])
    BY <1>1, <1>3 DEF ActiveHolds
  <2>2. Target = "A"
    BY <1>3 DEF Target
  <2>3. ~HeaderValid(disk'["A"]) /\ ~HeaderValid(disk'["B"])
    BY <2>1, <2>2 DEF SlotName
  <2>4. BootSlot(disk') = "none"
    BY <2>3 DEF BootSlot, ChooseSlot, Preferred, Other, SlotName
  <2> QED BY <2>1, <2>4, NoFilesInEmpty DEF RecoveredFiles
<1>4. CASE active # "none"
  <2>1. /\ active \in SlotName /\ HeaderValid(disk[active])
        /\ headerBackup = LoadedHeader(disk[active])
    BY <1>1, <1>2, <1>4 DEF ActiveHolds
  <2>2. Sound(disk[active])
    BY <1>1, <2>1 DEF HeadersVouch, Sound
  <2>3. disk'[active] = disk[active] /\ Target = Other(active)
    BY <1>4, <2>1, TargetInactive DEF Target, Other, SlotName
  <2>4. BootSlot(disk') = active
    BY <2>1, <2>2, <2>3 DEF BootSlot, ChooseSlot, Preferred, Other, SlotName, Sound
  <2>5. disk[active] \in Slot
    BY <1>1, <2>1 DEF TypeOK, Disk
  <2>6. Files(headerBackup) = Files(disk[active].header)
    BY <2>1, <2>5, LoadedFiles
  <2> QED BY <1>4, <2>3, <2>4, <2>6 DEF RecoveredFiles
<1> QED BY <1>3, <1>4

(* The new header makes the target the slot a boot prefers. *)
LEMMA CommitBoots ==
  ASSUME IInv, pc = "commit", PutHeader(NewHeader)
  PROVE  RecoveredFiles(disk') = Files(header)
<1>1. TypeOK /\ Target \in SlotName /\ Target # "none"
  BY TargetType DEF IInv, Target
<1>2. disk'[Target].header = NewHeader /\ Sound(disk'[Target])
  BY CommittedSlot DEF IInv
<1>3. Other(Target) \in SlotName /\ Other(Target) # Target
  BY <1>1 DEF Other, SlotName
<1>4. disk'[Other(Target)] = disk[Other(Target)]
  BY <1>1, <1>3, WritesLocal
<1>5. disk[Other(Target)].header.gen \in Gen
  BY <1>1, <1>3 DEF TypeOK, Disk, Slot, Header
<1>6. HeaderValid(disk'[Other(Target)]) =>
        disk'[Target].header.gen = IncGen(disk'[Other(Target)].header.gen)
  <2>1. CASE active = "none"
    <3>1. Other(Target) = "B" /\ ~HeaderValid(disk["B"])
      BY <2>1 DEF IInv, ActiveHolds, Other, Target
    <3> QED BY <1>4, <3>1
  <2>2. CASE active # "none"
    <3>1. Other(Target) = active
      BY <1>1, <2>2 DEF Other, Target, TypeOK, SlotName
    <3>2. generation = disk[active].header.gen
      BY <2>2 DEF IInv, ActiveHolds
    <3>3. NewHeader.gen = IncGen(generation)
      BY <1>1, <2>2 DEF NewHeader, TypeOK, Header
    <3> QED BY <1>2, <1>4, <3>1, <3>2, <3>3
  <2> QED BY <2>1, <2>2
<1>7. BootSlot(disk') = Target
  BY <1>1, <1>2, <1>4, <1>5, <1>6, BootNewest
<1>8. NewHeader.count = header.count /\ NewHeader.entry = header.entry
  BY <1>1 DEF NewHeader, TypeOK, Header
<1>9. Files(NewHeader) = Files(header)
  BY <1>8, FilesSame
<1> QED BY <1>1, <1>2, <1>7, <1>9 DEF RecoveredFiles

(* A write, done, failed or torn, leaves the files a boot would show, those   *)
(* before the operation or, once the new header is written, those after it.  *)
LEMMA WriteOutcomes ==
  ASSUME IInv,
         \/ pc = "invalidate" /\ \E h \in HeaderWrites(NoHeader) : PutHeader(h)
         \/ pc = "payload" /\ \E c \in CellWrites(cell[cursor]) : PutCell(c)
         \/ pc = "commit" /\ \E h \in HeaderWrites(NewHeader) : PutHeader(h)
  PROVE  RecoveredFiles(disk') \in
           {RecoveredFiles(disk), Files(headerBackup), Files(header)}
<1>1. TypeOK /\ Saving
  BY DEF IInv, Saving
<1>2. \A s \in SlotName : s # Target => disk'[s] = disk[s]
  BY <1>1, WritesLocal
<1>3. PutHeader(disk[Target].header) => disk' = disk
  BY <1>1, TargetType DEF PutHeader, TypeOK, Disk, Slot
<1>4. CASE PutHeader(disk[Target].header)
  BY <1>3, <1>4
<1>5. CASE PutHeader(NoHeader)
  <2>1. ~HeaderValid(disk'[Target])
    BY <1>1, <1>5, WritesLocal, NoHeaderInvalid
  <2> QED BY <1>1, <1>2, <2>1, FallsBack
<1>6. CASE pc = "payload" /\ \E c \in CellWrites(cell[cursor]) : PutCell(c)
  <2>1. ~HeaderValid(disk'[Target])
    BY <1>1, <1>6, WritesLocal DEF IInv, TargetOpen, HeaderValid
  <2> QED BY <1>1, <1>2, <2>1, FallsBack
<1>7. CASE pc = "commit" /\ PutHeader(NewHeader)
  BY <1>7, CommitBoots
<1> QED BY <1>4, <1>5, <1>6, <1>7 DEF HeaderWrites

-----------------------------------------------------------------------------
(* Every step is a step of AtomicStore. *)

LEMMA InitAtomic == Init => Atomic!Init
<1> SUFFICES ASSUME Init PROVE Atomic!Init
  OBVIOUS
<1>1. IInv /\ pc = "off" /\ ~Saving /\ reply = "none"
  BY InitIInv DEF Init, PowerOff, Saving
<1>2. RecoveredFiles(disk) \in Atomic!FileMaps
  <2>1. CASE BootSlot(disk) = "none"
    BY <2>1, NoFilesInEmpty, ConstantTypes, EmptyIntact, FilesTyped DEF RecoveredFiles
  <2>2. CASE BootSlot(disk) # "none"
    <3> DEFINE s == BootSlot(disk)
    <3>1. s \in SlotName /\ HeaderValid(disk[s])
      BY <2>2, ChooseSound DEF BootSlot, Sound
    <3>2. disk[s] \in Slot /\ LoadedHeader(disk[s]) \in Header
      BY <1>1, <3>1, LoadedType DEF IInv, TypeOK, Disk
    <3>3. Intact(LoadedHeader(disk[s]), LoadedCells(disk[s]))
      BY <1>1, <3>1 DEF IInv, Loadable
    <3>4. Files(LoadedHeader(disk[s])) \in Atomic!FileMaps
      BY <3>2, <3>3, FilesTyped
    <3> QED BY <2>2, <3>2, <3>4, LoadedFiles DEF RecoveredFiles
  <2> QED BY <2>1, <2>2
<1> QED BY <1>1, <1>2, NoFilesInEmpty DEF Atomic!Init

LEMMA BootAtomic ==
  ASSUME IInv, Boot({}, {})
  PROVE  Atomic!Recover
<1> DEFINE s == BootSlot(disk)
<1>1. /\ pc = "off" /\ pc' = "idle" /\ disk' = disk /\ reply' = reply
      /\ header' = (IF s = "none" THEN EmptyHeader ELSE LoadedHeader(disk[s]))
  BY DEF Boot, BootSlot
<1>2. s # "none" => disk[s] \in Slot
  BY ChooseSound DEF BootSlot, IInv, TypeOK, Disk
<1>3. Files(header') = RecoveredFiles(disk)
  BY <1>1, <1>2, NoFilesInEmpty, LoadedFiles DEF RecoveredFiles
<1>4. ~Saving /\ ~Saving' /\ Visible' = Files(header')
  BY <1>1 DEF Saving, Visible
<1> QED BY <1>1, <1>3, <1>4 DEF Atomic!Recover

LEMMA StartAtomic ==
  ASSUME IInv, NEW n \in Names, NEW c \in Sum, SaveFile(n, c) \/ RemoveFile(n)
  PROVE  /\ pc = "idle" /\ ~Saving /\ Visible = Files(header)
         /\ Atomic!Begin(Files(header'))
<1>1. /\ pc = "idle" /\ pc' = "invalidate" /\ disk' = disk /\ reply' = "none"
      /\ headerBackup' = header
  BY DEF SaveFile, RemoveFile, StartJob
<1>2. ~Saving /\ Saving' /\ Visible = Files(header) /\ Visible' = Files(header)
  BY <1>1 DEF Saving, Visible
<1> QED BY <1>1, <1>2 DEF Atomic!Begin

LEMMA SaveAtomic ==
  ASSUME IInv, NEW n \in Names, NEW c \in Sum, SaveFile(n, c)
  PROVE  Atomic!Put(n, c)
<1>1. /\ pc = "idle" /\ ~Saving /\ Visible = Files(header)
      /\ Atomic!Begin(Files(header'))
  BY StartAtomic
<1>2. TypeOK /\ Intact(header, cell) /\ UniqueNames(header) /\ header \in Header
  BY DEF IInv, MemoryIntact, TypeOK, Intact
<1>3. Files(header') = Atomic!With(Files(header), n, c)
  BY <1>2, SaveFiles
<1>4. n \in DOMAIN Files(header) \/ Cardinality(DOMAIN Files(header)) < MaxFiles
  <2>1. CASE Found(n) # {}
    <3>1. n \in NamesIn(header)
      BY <2>1 DEF Found, NamesIn
    <3> QED BY <1>2, <3>1, FilesAre
  <2>2. CASE Found(n) = {}
    <3>1. header.count < MaxFiles
      BY <2>2 DEF SaveFile
    <3> QED BY <1>2, <3>1, FilesAre, NamesCounted
  <2> QED BY <2>1, <2>2
<1> QED BY <1>1, <1>3, <1>4, CardinalitySame DEF Atomic!Put

LEMMA RemoveAtomic ==
  ASSUME IInv, NEW n \in Names, RemoveFile(n)
  PROVE  Atomic!Remove(n)
<1>0. Empty \in Sum
  BY DEF Sum
<1>1. /\ pc = "idle" /\ ~Saving /\ Visible = Files(header)
      /\ Atomic!Begin(Files(header'))
  BY <1>0, StartAtomic
<1>2. TypeOK /\ Intact(header, cell) /\ UniqueNames(header)
  BY DEF IInv, MemoryIntact, Intact
<1>3. Files(header') =
        Atomic!Restrict(Files(header), DOMAIN Files(header) \ {n})
  BY <1>2, RemoveFiles
<1>4. n \in DOMAIN Files(header)
  <2>1. n \in NamesIn(header)
    BY DEF RemoveFile, Found, NamesIn
  <2> QED BY <1>2, <2>1, FilesAre
<1> QED BY <1>1, <1>3, <1>4 DEF Atomic!Remove

LEMMA RefuseAtomic ==
  ASSUME IInv, NEW n \in Names, RefuseFull(n)
  PROVE  Atomic!Refuse(n)
<1>1. /\ pc = "idle" /\ ~Saving /\ Visible = Files(header) /\ reply' = "full"
      /\ UNCHANGED <<disk, header, headerBackup, pc>>
  BY DEF RefuseFull, Saving, Visible, ram, job
<1>2. ~Saving' /\ Visible' = Visible
  BY <1>1 DEF Saving, Visible
<1>3. UniqueNames(header) /\ header \in Header
  BY DEF IInv, MemoryIntact, TypeOK, Intact
<1>4. n \notin DOMAIN Files(header)
  <2>1. n \notin NamesIn(header)
    BY DEF RefuseFull, Found, NamesIn
  <2> QED BY <1>3, <2>1, FilesAre
<1>5. Cardinality(DOMAIN Files(header)) >= MaxFiles
  BY <1>3, FilesAre, NamesCounted DEF RefuseFull
<1> QED BY <1>1, <1>2, <1>4, <1>5, CardinalitySame DEF Atomic!Refuse

(* The invalidation and the payload, done: a boot still falls back. *)
LEMMA WritingAtomic ==
  ASSUME IInv, Invalidate \/ WriteCell
  PROVE  Atomic!Settle
<1>1. /\ pc \in {"invalidate", "payload"} /\ pc' \in {"payload", "commit"}
      /\ UNCHANGED <<header, headerBackup, reply>>
      /\ PutHeader(NoHeader) \/ (pc = "payload" /\ PutCell(cell[cursor]))
  BY DEF Invalidate, WriteCell, ram, job
<1>2. TypeOK /\ Saving /\ Saving' /\ Visible = Files(headerBackup)
      /\ Visible' = Files(headerBackup)
  BY <1>1 DEF IInv, Saving, Visible
<1>3. \A s \in SlotName : s # Target => disk'[s] = disk[s]
  BY <1>1, <1>2, WritesLocal
<1>4. ~HeaderValid(disk'[Target])
  BY <1>1, <1>2, WritesLocal, NoHeaderInvalid DEF IInv, TargetOpen, HeaderValid
<1>5. RecoveredFiles(disk') = Files(headerBackup)
  BY <1>2, <1>3, <1>4, FallsBack
<1>6. pc # "off" /\ pc' # "off"
  BY <1>1
<1> QED BY <1>1, <1>2, <1>5, <1>6 DEF Atomic!Settle

LEMMA CommitAtomic ==
  ASSUME IInv, Commit
  PROVE  Atomic!Ack
<1>1. /\ pc = "commit" /\ PutHeader(NewHeader) /\ header' = NewHeader
      /\ pc' = "idle" /\ reply' = "ok"
  BY DEF Commit, EndJob
<1>2. TypeOK /\ Saving /\ ~Saving' /\ Visible' = Files(header')
  BY <1>1 DEF IInv, Saving, Visible
<1>3. RecoveredFiles(disk') = Files(header)
  BY <1>1, CommitBoots
<1>4. NewHeader.count = header.count /\ NewHeader.entry = header.entry
  BY <1>2 DEF NewHeader, TypeOK, Header
<1>5. Files(header') = Files(header)
  BY <1>1, <1>4, FilesSame
<1> QED BY <1>1, <1>2, <1>3, <1>5, NoFilesInEmpty DEF Atomic!Ack, Atomic!Finish

LEMMA FailAtomic ==
  ASSUME IInv, InvalidateFails \/ WriteCellFails \/ CommitFails
  PROVE  Atomic!Nack
<1>1. /\ pc \in {"invalidate", "payload", "commit"} /\ header' = headerBackup
      /\ pc' = "idle" /\ reply' = "failed"
  BY DEF InvalidateFails, WriteCellFails, CommitFails, Fail, EndJob
<1>2. /\ Saving /\ ~Saving' /\ Visible = Files(headerBackup)
      /\ Visible' = Files(headerBackup)
  BY <1>1 DEF Saving, Visible
<1>3. RecoveredFiles(disk') \in
        {RecoveredFiles(disk), Files(headerBackup), Files(header)}
  BY WriteOutcomes DEF InvalidateFails, WriteCellFails, CommitFails
<1> QED BY <1>1, <1>2, <1>3, NoFilesInEmpty DEF Atomic!Nack, Atomic!Finish

LEMMA CrashAtomic ==
  ASSUME IInv, Crash
  PROVE  Atomic!PowerLoss
<1>1. pc # "off" /\ pc' = "off" /\ reply' = "none"
  BY DEF Crash
<1>2. ~Saving'
  BY <1>1 DEF Saving
<1>3. CASE pc = "idle"
  <2>1. disk' = disk /\ ~Saving
    BY <1>3 DEF Crash, Saving
  <2> QED BY <1>1, <1>2, <1>3, <2>1, NoFilesInEmpty DEF Atomic!PowerLoss
<1>4. CASE pc # "idle"
  <2>1. Saving /\ Visible = Files(headerBackup)
    BY <1>1, <1>4 DEF IInv, TypeOK, Saving, Visible
  <2>2. RecoveredFiles(disk') \in
          {RecoveredFiles(disk), Files(headerBackup), Files(header)}
    BY <1>4, <2>1, WriteOutcomes DEF Crash, Saving
  <2> QED BY <1>1, <1>2, <2>1, <2>2, NoFilesInEmpty DEF Atomic!PowerLoss
<1> QED BY <1>3, <1>4

LEMMA NextAtomic == IInv /\ [Next]_vars => [Atomic!Next]_(Atomic!vars)
<1> SUFFICES ASSUME IInv, [Next]_vars PROVE [Atomic!Next]_(Atomic!vars)
  OBVIOUS
<1>1. CASE Next
  <2>1. CASE Boot({}, {})
    BY <2>1, BootAtomic DEF Atomic!Next
  <2>2. CASE Operation
    BY <2>2, SaveAtomic, RemoveAtomic, RefuseAtomic DEF Operation, Atomic!Next
  <2>3. CASE SaveStep
    BY <2>3, WritingAtomic, CommitAtomic, FailAtomic DEF SaveStep, Atomic!Next
  <2>4. CASE Crash
    BY <2>4, CrashAtomic DEF Atomic!Next
  <2> QED BY <1>1, <2>1, <2>2, <2>3, <2>4 DEF Next
<1>2. CASE UNCHANGED vars
  BY <1>2 DEF vars, ram, job, Atomic!vars, Visible, Saving
<1> QED BY <1>1, <1>2

(* The file store does what AtomicStore promises: an operation takes effect  *)
(* for the user and for the next boot at once, or the user is told that it   *)
(* failed and keeps the files; and at every instant a boot would show the    *)
(* files before the operation or those after it.                             *)
THEOREM StoreIsAtomic == Spec => ImplementsAtomicStore
<1>1. Init => Atomic!Init
  BY InitAtomic
<1>2. IInv /\ [Next]_vars => [Atomic!Next]_(Atomic!vars)
  BY NextAtomic
<1> QED
  BY <1>1, <1>2, Invariance, PTL DEF Spec, ImplementsAtomicStore, Atomic!Spec

-----------------------------------------------------------------------------
(* A floppy that goes bad.  No header vouches for its payload any more; what *)
(* is left of IInv is what a boot checks for itself, and the form of the     *)
(* directories: a header that passes its CRC was written by storage_save, or *)
(* is a NIX2 record.                                                         *)

DirectoryOK(h) ==
  h.kind # "none" =>
    /\ UniqueNames(h)
    /\ \A i \in Used(h) : h.entry[i].name # NoName
    /\ h.kind = "nix2" => h.count = 1

Directories == \A s \in SlotName : DirectoryOK(disk[s].header)

DirInv == TypeOK /\ Kinds /\ MemoryIntact /\ Directories

(* A sound slot loads a directory that describes its cells. *)
LEMMA SoundIntact ==
  ASSUME NEW slot \in Slot, DirectoryOK(slot.header), Sound(slot)
  PROVE  Intact(LoadedHeader(slot), LoadedCells(slot))
<1> DEFINE h == slot.header
           k == LoadedHeader(slot)
<1>1. h \in Header /\ k.count = h.count /\ k.entry = h.entry
  BY DEF Slot, LoadedHeader, Header
<1>2. Used(k) = Used(h)
  BY <1>1 DEF Used
<1>3. /\ h.kind \in {"nix2", "nix3"} /\ UniqueNames(h)
      /\ \A i \in Used(h) : h.entry[i].name # NoName /\ Matches(slot.cell[i], h.entry[i].sum)
      /\ h.kind = "nix2" => h.count = 1
  BY <1>1 DEF DirectoryOK, Sound, HeaderValid, PayloadValid, Header
<1>4. UniqueNames(k)
  BY <1>1, <1>2, <1>3 DEF UniqueNames
<1>5. ASSUME NEW i \in Used(k) PROVE Matches(LoadedCells(slot)[i], k.entry[i].sum)
  <2>1. CASE h.kind = "nix2"
    <3>1. i = 0
      BY <1>1, <1>3, <1>5, <2>1, SlotsAssumption DEF Used, Index
    <3>2. LoadedCells(slot)[0] = h.entry[0].sum
      BY <2>1, ConstantTypes DEF LoadedCells
    <3> QED BY <1>1, <3>1, <3>2 DEF Matches
  <2>2. CASE h.kind # "nix2"
    BY <1>1, <1>2, <1>3, <2>2 DEF LoadedCells
  <2> QED BY <2>1, <2>2
<1>6. \A i \in Used(k) : k.entry[i].name # NoName
  BY <1>1, <1>2, <1>3
<1> QED BY <1>4, <1>5, <1>6 DEF Intact

(* If one slot can be loaded and the other cannot, a boot loads the one. *)
LEMMA BootOnlySound ==
  ASSUME NEW d, NEW t \in SlotName, Sound(d[t]), ~Sound(d[Other(t)])
  PROVE  BootSlot(d) = t
BY DEF BootSlot, ChooseSlot, Preferred, Other, SlotName, Sound

(* A boot comes up empty only if neither slot can be loaded. *)
LEMMA BootNoneSound ==
  ASSUME NEW d, BootSlot(d) = "none"
  PROVE  ~Sound(d["A"]) /\ ~Sound(d["B"])
BY DEF BootSlot, ChooseSlot, Preferred, Other, SlotName, Sound

(* What decays stays in the form of a slot, and no new directory appears. *)
LEMMA DamageTyped ==
  ASSUME NEW slot \in Slot, NEW bad \in DamagedSlots(slot)
  PROVE  /\ bad \in Slot
         /\ bad.header \in {NoHeader, slot.header}
         /\ HeaderValid(bad) => bad.header = slot.header
<1>1. CASE bad = [slot EXCEPT !.header = NoHeader]
  BY <1>1, ConstantTypes DEF Slot, HeaderValid, NoHeader
<1>2. ASSUME NEW i \in Index, bad = [slot EXCEPT !.cell[i] = Torn]
      PROVE  bad \in Slot /\ bad.header = slot.header
  BY <1>2 DEF Slot, Cell
<1> QED BY <1>1, <1>2 DEF DamagedSlots

(* Undoing, storing and removing keep the directory and its cells together,  *)
(* whatever is on the floppy.                                                *)
LEMMA MemoryStep ==
  ASSUME TypeOK, Kinds, MemoryIntact, Operation \/ SaveStep \/ Crash
  PROVE  Kinds' /\ MemoryIntact'
<1>1. ASSUME NEW n \in Names, NEW c \in Sum, SaveFile(n, c) \/ RemoveFile(n)
      PROVE  Kinds' /\ MemoryIntact'
  <2>1. UndoneCells' = cell /\ headerBackup' = header
    BY <1>1, UndoRestores
  <2>2. header'.kind = header.kind
    BY <1>1 DEF SaveFile, RemoveFile, TypeOK, Header
  <2>3. Intact(header', cell')
    BY <1>1, SaveIntact, RemoveIntact DEF MemoryIntact
  <2> QED BY <2>1, <2>2, <2>3 DEF Kinds, MemoryIntact
<1>2. ASSUME NEW n \in Names, RefuseFull(n)
      PROVE  Kinds' /\ MemoryIntact'
  <2>1. UNCHANGED <<header, cell, pc, op, index, headerBackup, cellBackup>>
    BY <1>2 DEF RefuseFull, ram, job
  <2> QED BY <2>1 DEF Kinds, MemoryIntact, Saving, UndoneCells
<1>3. CASE Invalidate \/ WriteCell
  <2>1. /\ UNCHANGED <<header, cell, op, index, headerBackup, cellBackup>>
        /\ Saving
    BY <1>3 DEF Invalidate, WriteCell, Saving, ram, job
  <2> QED BY <2>1 DEF Kinds, MemoryIntact, UndoneCells
<1>4. CASE InvalidateFails \/ WriteCellFails \/ CommitFails
  <2>1. /\ header' = headerBackup /\ cell' = UndoneCells /\ pc' = "idle"
        /\ headerBackup' = EmptyHeader /\ Saving
    BY <1>4 DEF InvalidateFails, WriteCellFails, CommitFails, Fail, EndJob, DropJob, Saving
  <2> QED BY <2>1 DEF Kinds, MemoryIntact, Saving, EmptyHeader, NoHeader
<1>5. CASE Commit
  <2>1. /\ header' = NewHeader /\ cell' = cell /\ pc' = "idle"
        /\ headerBackup' = EmptyHeader
    BY <1>5 DEF Commit, EndJob, DropJob
  <2>2. /\ NewHeader.kind = "nix3" /\ NewHeader.count = header.count
        /\ NewHeader.entry = header.entry /\ Used(NewHeader) = Used(header)
    BY DEF NewHeader, Kinds, TypeOK, Header, Used
  <2>3. Intact(NewHeader, cell)
    BY <2>2, IntactSame DEF MemoryIntact
  <2> QED BY <2>1, <2>2, <2>3 DEF Kinds, MemoryIntact, Saving, EmptyHeader, NoHeader
<1>6. CASE Crash
  <2>1. header' = EmptyHeader /\ headerBackup' = EmptyHeader /\ pc' = "off"
    BY <1>6 DEF Crash, DropJob
  <2> QED BY <2>1, EmptyIntact DEF Kinds, MemoryIntact, Saving, EmptyHeader, NoHeader
<1>7. Empty \in Sum
  BY DEF Sum
<1> QED
  BY <1>1, <1>2, <1>3, <1>4, <1>5, <1>6, <1>7 DEF Operation, SaveStep

(* What storage_save writes as a header is the directory in RAM. *)
LEMMA NewDirectory ==
  ASSUME TypeOK, Kinds, MemoryIntact
  PROVE  DirectoryOK(NewHeader)
<1>1. /\ NewHeader.kind = "nix3" /\ NewHeader.count = header.count
      /\ NewHeader.entry = header.entry /\ Used(NewHeader) = Used(header)
  BY DEF NewHeader, Kinds, TypeOK, Header, Used
<1>2. Intact(NewHeader, cell)
  BY <1>1, IntactSame DEF MemoryIntact
<1> QED BY <1>1, <1>2 DEF DirectoryOK, Intact

(* The steps of Storage by what they do to the floppy: nothing, or one write *)
(* of a header or of a cell in the target slot.                              *)
LEMMA Writes ==
  ASSUME TypeOK, Operation \/ SaveStep \/ Crash
  PROVE  \/ disk' = disk
         \/ pc # "off" /\ \E h \in {disk[Target].header, NoHeader, NewHeader} : PutHeader(h)
         \/ pc # "off" /\ \E c : PutCell(c)
<1>1. Operation => disk' = disk
  BY DEF Operation, SaveFile, RemoveFile, RefuseFull, StartJob
<1>2. ASSUME SaveStep
      PROVE  \/ \E h \in {disk[Target].header, NoHeader, NewHeader} : PutHeader(h)
             \/ \E c : PutCell(c)
  BY <1>2 DEF SaveStep, Invalidate, InvalidateFails, WriteCell, WriteCellFails, Commit,
              CommitFails, HeaderWrites
<1>3. ASSUME Crash
      PROVE  \/ disk' = disk
             \/ \E h \in {disk[Target].header, NoHeader, NewHeader} : PutHeader(h)
             \/ \E c : PutCell(c)
  <2>1. pc \in {"idle", "invalidate", "payload", "commit"}
    BY <1>3 DEF Crash, TypeOK
  <2>2. CASE pc = "idle"
    BY <1>3, <2>2 DEF Crash
  <2>3. CASE pc = "payload"
    BY <1>3, <2>3 DEF Crash
  <2>4. CASE pc = "invalidate"
    BY <1>3, <2>4 DEF Crash, HeaderWrites
  <2>5. CASE pc = "commit"
    BY <1>3, <2>5 DEF Crash, HeaderWrites
  <2> QED BY <2>1, <2>2, <2>3, <2>4, <2>5
<1>4. SaveStep \/ Crash => pc # "off"
  BY DEF SaveStep, Invalidate, InvalidateFails, WriteCell, WriteCellFails, Commit,
         CommitFails, Crash
<1> QED BY <1>1, <1>2, <1>3, <1>4

LEMMA DirectoriesStep ==
  ASSUME DirInv, Operation \/ SaveStep \/ Crash
  PROVE  Directories'
<1>1. TypeOK /\ Directories /\ DirectoryOK(NewHeader) /\ DirectoryOK(NoHeader)
  BY NewDirectory DEF DirInv, DirectoryOK, NoHeader
<1>2. CASE disk' = disk
  BY <1>1, <1>2 DEF Directories
<1>3. ASSUME NEW h \in {disk[Target].header, NoHeader, NewHeader}, PutHeader(h)
      PROVE  Directories'
  <2>1. DirectoryOK(h)
    BY <1>1, <1>3, TargetType DEF Directories
  <2>2. /\ disk'[Target].header = h
        /\ \A s \in SlotName : s # Target => disk'[s] = disk[s]
    BY <1>1, <1>3, WritesLocal
  <2> QED BY <1>1, <2>1, <2>2 DEF Directories
<1>4. ASSUME NEW c, PutCell(c) PROVE Directories'
  <2>1. /\ disk'[Target].header = disk[Target].header
        /\ \A s \in SlotName : s # Target => disk'[s] = disk[s]
    BY <1>1, <1>4, WritesLocal
  <2> QED BY <1>1, <2>1 DEF Directories
<1> QED BY <1>1, <1>2, <1>3, <1>4, Writes

(* A boot loads a sound slot or nothing, whatever it cannot read. *)
LEMMA BootMemory ==
  ASSUME DirInv, NEW badHeader, NEW badPayload, Boot(badHeader, badPayload)
  PROVE  Kinds' /\ MemoryIntact'
<1> DEFINE s == ChooseSlot(disk, badHeader, badPayload)
<1>1. /\ pc' = "idle" /\ headerBackup' = headerBackup
      /\ header' = (IF s = "none" THEN EmptyHeader ELSE LoadedHeader(disk[s]))
      /\ cell' = (IF s = "none" THEN ZeroCells ELSE LoadedCells(disk[s]))
  BY DEF Boot, job
<1>2. s # "none" => s \in SlotName /\ Sound(disk[s])
  BY ChooseSound
<1>3. s # "none" => /\ disk[s] \in Slot
                    /\ Intact(LoadedHeader(disk[s]), LoadedCells(disk[s]))
  BY <1>2, SoundIntact DEF DirInv, TypeOK, Disk, Directories
<1>4. Kinds'
  BY <1>1, <1>3 DEF DirInv, Kinds, EmptyHeader, NoHeader, LoadedHeader, Slot, Header
<1>5. MemoryIntact'
  BY <1>1, <1>3, EmptyIntact DEF MemoryIntact, Saving
<1> QED BY <1>4, <1>5

LEMMA InitDirectories == Init => DirInv
<1> SUFFICES ASSUME Init PROVE DirInv
  OBVIOUS
<1>1. TypeOK /\ Kinds /\ MemoryIntact
  BY InitIInv DEF IInv
<1>2. ASSUME NEW s \in SlotName PROVE DirectoryOK(disk[s].header)
  <2>1. disk[s] \in FloppySlots
    BY DEF Init
  <2>2. CASE disk[s].header = NoHeader
    BY <2>2 DEF DirectoryOK, NoHeader
  <2>3. ASSUME NEW g \in Gen, NEW c \in Sum, disk[s].header = LegacyHeader(g, c)
        PROVE  DirectoryOK(disk[s].header)
    <3> DEFINE h == LegacyHeader(g, c)
    <3>1. h.count = 1 /\ h.entry[0] = [name |-> DefaultName, sum |-> c]
      BY ConstantTypes DEF LegacyHeader
    <3>2. Used(h) = {0}
      BY <3>1, SlotsAssumption DEF Used, Index
    <3> HIDE DEF h
    <3>3. DirectoryOK(h)
      BY <3>1, <3>2, SlotsAssumption DEF DirectoryOK, UniqueNames
    <3> QED BY <2>3, <3>3 DEF h
  <2> QED BY <2>1, <2>2, <2>3 DEF FloppySlots
<1> QED BY <1>1, <1>2 DEF DirInv, Directories

LEMMA DecayTyped ==
  ASSUME TypeOK, NEW s \in SlotName, Decay(s)
  PROVE  /\ disk' \in Disk
         /\ \A t \in SlotName : disk'[t].header \in {NoHeader, disk[t].header}
         /\ UNCHANGED <<header, cell, active, generation, pc, op, index, headerBackup,
                        cellBackup, cursor, reply, previous>>
<1>1. PICK bad \in DamagedSlots(disk[s]) : disk' = [disk EXCEPT ![s] = bad]
  BY DEF Decay
<1>2. disk \in Disk /\ disk[s] \in Slot
  BY DEF TypeOK, Disk
<1>3. bad \in Slot /\ bad.header \in {NoHeader, disk[s].header}
  BY <1>2, DamageTyped
<1>4. /\ disk' \in Disk
      /\ \A t \in SlotName : disk'[t].header \in {NoHeader, disk[t].header}
  BY <1>1, <1>2, <1>3 DEF Disk
<1>5. UNCHANGED <<ram, pc, job, reply, previous>>
  BY DEF Decay
<1> QED BY <1>4, <1>5 DEF ram, job

LEMMA NextDirectories == DirInv /\ [MediaNext]_mediaVars => DirInv'
<1> SUFFICES ASSUME DirInv, [MediaNext]_mediaVars PROVE DirInv'
  OBVIOUS
<1>0. TypeOK /\ Kinds /\ MemoryIntact /\ Directories
  BY DEF DirInv
<1>1. CASE MediaBoot
  <2>1. PICK bh \in SUBSET SlotName, bp \in SUBSET SlotName : Boot(bh, bp)
    BY <1>1 DEF MediaBoot
  <2>2. disk' = disk
    BY <2>1 DEF Boot
  <2>3. TypeOK' /\ Kinds' /\ MemoryIntact'
    BY <1>0, <2>1, BootType, BootMemory
  <2> QED BY <1>0, <2>2, <2>3 DEF DirInv, Directories
<1>2. ASSUME Operation \/ SaveStep \/ Crash PROVE DirInv'
  <2>1. TypeOK'
    BY <1>0, <1>2, NextType DEF Next
  <2>2. Kinds' /\ MemoryIntact'
    BY <1>0, <1>2, MemoryStep
  <2>3. Directories'
    BY <1>2, DirectoriesStep
  <2> QED BY <2>1, <2>2, <2>3 DEF DirInv
<1>3. ASSUME NEW s \in SlotName, Decay(s) PROVE DirInv'
  <2>1. /\ disk' \in Disk
        /\ \A t \in SlotName : disk'[t].header \in {NoHeader, disk[t].header}
        /\ UNCHANGED <<header, cell, active, generation, pc, op, index, headerBackup,
                       cellBackup, cursor, reply>>
    BY <1>0, <1>3, DecayTyped
  <2>2. TypeOK'
    BY <1>0, <2>1 DEF TypeOK
  <2>3. Kinds' /\ MemoryIntact'
    BY <1>0, <2>1 DEF Kinds, MemoryIntact, Saving, UndoneCells
  <2>4. DirectoryOK(NoHeader)
    BY DEF DirectoryOK, NoHeader
  <2>5. Directories'
    BY <1>0, <2>1, <2>4 DEF Directories
  <2> QED BY <2>2, <2>3, <2>5 DEF DirInv
<1>4. CASE UNCHANGED mediaVars
  <2>1. UNCHANGED vars
    BY <1>4 DEF mediaVars
  <2>2. TypeOK'
    BY <1>0, <2>1, NextType
  <2> QED
    BY <1>0, <2>1, <2>2 DEF vars, ram, job, DirInv, Kinds, MemoryIntact, Directories,
         Saving, UndoneCells
<1> QED
  BY <1>1, <1>2, <1>3, <1>4 DEF MediaNext, MediaOperation, MediaSaveStep, MediaCrash

LEMMA DirectoriesAlways == MediaSpec => []DirInv
<1>1. MediaInit => DirInv
  BY InitDirectories DEF MediaInit
<1>2. DirInv /\ [MediaNext]_mediaVars => DirInv'
  BY NextDirectories
<1> QED BY <1>1, <1>2, PTL DEF MediaSpec

-----------------------------------------------------------------------------
(* The exporter.                                                             *)

(* parse_record accepts what storage_load can load, and only that.           *)
LEMMA RecordIsSound ==
  ASSUME DotNames = {}, NEW slot \in Slot, DirectoryOK(slot.header)
  PROVE  ParseRecord(slot) <=> Sound(slot)
<1> DEFINE h == slot.header
<1>1. CASE h.kind = "none"
  BY <1>1 DEF ParseRecord, Sound, HeaderValid
<1>2. CASE h.kind # "none"
  <2>1. h \in Header /\ UniqueNames(h) /\ \A i \in Used(h) : h.entry[i].name # NoName
    BY <1>2 DEF DirectoryOK, Slot
  <2>2. Cardinality(NamesIn(h)) = Cardinality(Used(h))
    BY <2>1, NamesCounted
  <2>3. NamesIn(h) \cap (DotNames \cup {NoName}) = {}
    BY <2>1 DEF NamesIn
  <2>4. ParseRecord(slot) <=> \A i \in Used(h) : Matches(slot.cell[i], h.entry[i].sum)
    BY <1>2, <2>2, <2>3 DEF ParseRecord, NamesIn
  <2>5. Sound(slot) <=> \A i \in Used(h) : Matches(slot.cell[i], h.entry[i].sum)
    BY <1>2, <2>1 DEF Sound, HeaderValid, PayloadValid
  <2> QED BY <2>4, <2>5
<1> QED BY <1>1, <1>2

(* Of the slots it can load the kernel boots the one the exporter takes.     *)
LEMMA ExportIsBoot ==
  ASSUME NEW d, \A s \in SlotName : ParseRecord(d[s]) <=> Sound(d[s])
  PROVE  IF ExportSlot(d) \in {"empty", "error"}
         THEN BootSlot(d) = "none"
         ELSE ExportSlot(d) = BootSlot(d) /\ BootSlot(d) # "none"
<1> DEFINE valid == {s \in SlotName : ParseRecord(d[s])}
<1>1. valid = {s \in SlotName : Sound(d[s])}
  OBVIOUS
<1>2. CASE valid = {}
  <2>1. ExportSlot(d) \in {"empty", "error"}
    BY <1>2 DEF ExportSlot
  <2>2. BootSlot(d) = "none"
    BY <1>1, <1>2, ChooseSound DEF BootSlot
  <2> QED BY <2>1, <2>2
<1>3. CASE "B" \notin valid /\ valid # {}
  <2>1. Sound(d["A"]) /\ ~Sound(d["B"])
    BY <1>1, <1>3 DEF SlotName
  <2>2. BootSlot(d) = "A"
    BY <2>1, BootOnlySound DEF SlotName, Other
  <2>3. ExportSlot(d) = "A"
    BY <1>3 DEF ExportSlot
  <2> QED BY <2>2, <2>3
<1>4. CASE "B" \in valid /\ "A" \notin valid
  <2>1. Sound(d["B"]) /\ ~Sound(d["A"])
    BY <1>1, <1>4 DEF SlotName
  <2>2. BootSlot(d) = "B"
    BY <2>1, BootOnlySound DEF SlotName, Other
  <2>3. ExportSlot(d) = "B"
    BY <1>4 DEF ExportSlot
  <2> QED BY <2>2, <2>3
<1>5. CASE "B" \in valid /\ "A" \in valid
  <2> DEFINE newer == AFirst(d["A"].header.gen, d["B"].header.gen)
  <2>1. Sound(d["A"]) /\ Sound(d["B"])
    BY <1>1, <1>5
  <2>2. BootSlot(d) = IF newer THEN "A" ELSE "B"
    BY <2>1 DEF BootSlot, ChooseSlot, Preferred, Other, SlotName, Sound
  <2>3. ExportSlot(d) = IF newer THEN "A" ELSE "B"
    BY <1>5 DEF ExportSlot
  <2> QED BY <2>2, <2>3
<1> QED BY <1>2, <1>3, <1>4, <1>5

(* The host exporter exports exactly the files a boot of the kernel would    *)
(* show, and none only where the kernel comes up empty, on every floppy that *)
(* the kernel, power loss, decay and unreadable sectors can produce, if no   *)
(* file is called "." or "..".                                               *)
THEOREM ExporterAgreesAlways ==
  ASSUME DotNames = {}
  PROVE  MediaSpec => []ExporterAgrees
<1>1. DirInv => ExporterAgrees
  <2> SUFFICES ASSUME DirInv PROVE ExporterAgrees
    OBVIOUS
  <2>1. \A s \in SlotName : ParseRecord(disk[s]) <=> Sound(disk[s])
    BY RecordIsSound DEF DirInv, TypeOK, Disk, Directories
  <2> QED BY <2>1, ExportIsBoot DEF ExporterAgrees, RecoveredFiles
<1> QED BY <1>1, DirectoriesAlways, PTL

-----------------------------------------------------------------------------
(* A floppy that decays, read without errors.                                *)

(* The active slot can be loaded and holds what RAM was loaded from or last  *)
(* committed to.  With no active slot nothing could be loaded, and slot B,   *)
(* which the first save does not write, still cannot be.                     *)
ActiveSound ==
  pc # "off" =>
    IF active = "none"
    THEN Committed = EmptyHeader /\ ~Sound(disk["B"])
    ELSE /\ Sound(disk[active])
         /\ Committed = LoadedHeader(disk[active])
         /\ generation = disk[active].header.gen

(* After an acknowledged save the other slot is sound, one generation older, *)
(* and holds the files saved before.                                         *)
PreviousHolds ==
  previous.known =>
    LET old == disk[Other(active)]
    IN  /\ pc = "idle" /\ active # "none" /\ Sound(old)
        /\ Files(old.header) = previous.files
        /\ disk[active].header.gen = IncGen(old.header.gen)

Unanswered == Saving => reply = "none"

MediaInv ==
  /\ DirInv
  /\ ActiveSound
  /\ TargetOpen
  /\ ActivePreferred
  /\ Unanswered
  /\ PreviousHolds

LEMMA InitMediaInv == MediaInit => MediaInv
<1> SUFFICES ASSUME MediaInit PROVE MediaInv
  OBVIOUS
<1>1. DirInv /\ pc = "off" /\ ~Saving /\ ~previous.known
  BY InitDirectories DEF MediaInit, Init, PowerOff, Saving, NoPrevious
<1> QED
  BY <1>1 DEF MediaInv, ActiveSound, TargetOpen, ActivePreferred, Unanswered, PreviousHolds

LEMMA BootMedia ==
  ASSUME ~TransientReads, MediaInv, DirInv', MediaBoot
  PROVE  MediaInv'
<1> DEFINE s == BootSlot(disk)
<1>1. Boot({}, {}) /\ ~previous'.known
  BY DEF MediaBoot, NoPrevious
<1>2. /\ pc' = "idle" /\ active' = s /\ disk' = disk
      /\ header' = (IF s = "none" THEN EmptyHeader ELSE LoadedHeader(disk[s]))
      /\ generation' = (IF s = "none" THEN 0 ELSE disk[s].header.gen)
  BY <1>1 DEF Boot, BootSlot
<1>3. ~Saving' /\ Committed' = header'
  BY <1>2 DEF Saving, Committed
<1>4. IF s = "none" THEN ~Sound(disk["B"]) ELSE Sound(disk[s])
  BY BootNoneSound, ChooseSound DEF BootSlot
<1>5. ActiveSound'
  BY <1>2, <1>3, <1>4 DEF ActiveSound
<1>6. TargetOpen' /\ ActivePreferred' /\ Unanswered' /\ PreviousHolds'
  BY <1>1, <1>2, <1>3 DEF TargetOpen, ActivePreferred, BootSlot, Unanswered, PreviousHolds
<1> QED BY <1>5, <1>6 DEF MediaInv

LEMMA OperationMedia ==
  ASSUME MediaInv, DirInv', MediaOperation
  PROVE  MediaInv'
<1>1. /\ Operation /\ TypeOK
      /\ previous' = IF pc' = "idle" THEN previous ELSE NoPrevious
  BY DEF MediaOperation, MediaInv, DirInv
<1>2. ASSUME NEW n \in Names, NEW c \in Sum, SaveFile(n, c) \/ RemoveFile(n)
      PROVE  MediaInv'
  <2>1. /\ pc = "idle" /\ pc' = "invalidate" /\ cursor' = 0 /\ disk' = disk
        /\ active' = active /\ generation' = generation
        /\ headerBackup' = header /\ reply' = "none"
    BY <1>2 DEF SaveFile, RemoveFile, StartJob
  <2>2. ~previous'.known
    BY <1>1, <2>1 DEF NoPrevious
  <2>3. Committed' = Committed
    BY <2>1 DEF Committed, Saving
  <2>4. ActiveSound'
    BY <2>1, <2>3 DEF MediaInv, ActiveSound
  <2>5. TargetOpen' /\ ActivePreferred' /\ Unanswered' /\ PreviousHolds'
    BY <2>1, <2>2 DEF TargetOpen, ActivePreferred, Unanswered, PreviousHolds
  <2> QED BY <2>4, <2>5 DEF MediaInv
<1>3. ASSUME NEW n \in Names, RefuseFull(n)
      PROVE  MediaInv'
  <2>1. /\ pc = "idle" /\ reply' = "full"
        /\ UNCHANGED <<disk, header, cell, active, generation, pc, headerBackup, cursor>>
    BY <1>3 DEF RefuseFull, ram, job
  <2>2. previous' = previous
    BY <1>1, <2>1
  <2>3. ActiveSound' /\ PreviousHolds'
    BY <2>1, <2>2 DEF MediaInv, ActiveSound, Committed, Saving, PreviousHolds
  <2>4. TargetOpen' /\ ActivePreferred' /\ Unanswered'
    BY <2>1 DEF TargetOpen, ActivePreferred, Unanswered, Saving
  <2> QED BY <2>3, <2>4 DEF MediaInv
<1>4. Empty \in Sum
  BY DEF Sum
<1> QED BY <1>1, <1>2, <1>3, <1>4 DEF Operation

(* Whatever a write leaves in the target, the active slot is as it was, and  *)
(* so is slot B while there is none.                                         *)
LEMMA WritesAside ==
  ASSUME TypeOK, Operation \/ SaveStep \/ Crash
  PROVE  /\ active # "none" => disk'[active] = disk[active]
         /\ active = "none" => disk'["B"] = disk["B"]
<1>1. \A s \in SlotName : s # Target => disk'[s] = disk[s]
  BY Writes, WritesLocal
<1>2. active # "none" => active \in SlotName /\ active # Target
  BY TargetInactive DEF TypeOK
<1>3. active = "none" => "B" \in SlotName /\ "B" # Target
  BY DEF Target, SlotName
<1> QED BY <1>1, <1>2, <1>3

LEMMA SaveStepMedia ==
  ASSUME MediaInv, DirInv', MediaSaveStep, reply' # "ok"
  PROVE  MediaInv'
<1>1. TypeOK /\ SaveStep /\ previous' = previous
  BY DEF MediaSaveStep, MediaInv, DirInv
<1>2. Saving /\ pc # "off" /\ pc # "idle"
  BY <1>1 DEF SaveStep, Invalidate, InvalidateFails, WriteCell, WriteCellFails, Commit,
              CommitFails, Saving
<1>3. ~previous.known /\ PreviousHolds'
  BY <1>1, <1>2 DEF MediaInv, PreviousHolds
<1>4. /\ active # "none" => disk'[active] = disk[active]
      /\ active = "none" => disk'["B"] = disk["B"]
  BY <1>1, WritesAside
<1>5. CASE Invalidate \/ WriteCell
  <2>1. /\ UNCHANGED <<header, active, generation, headerBackup, reply>>
        /\ pc' \in {"payload", "commit"}
    BY <1>5 DEF Invalidate, WriteCell, ram, job
  <2>2. Committed' = Committed
    BY <1>2, <2>1 DEF Committed, Saving
  <2>3. ActiveSound'
    BY <1>2, <1>4, <2>1, <2>2 DEF MediaInv, ActiveSound
  <2>4. TargetOpen'
    BY <1>1, <1>5, InvalidateOpens, CellOpens DEF MediaInv
  <2>5. ActivePreferred' /\ Unanswered'
    BY <1>2, <2>1 DEF ActivePreferred, MediaInv, Unanswered
  <2> QED BY <1>3, <2>3, <2>4, <2>5 DEF MediaInv
<1>6. CASE InvalidateFails \/ WriteCellFails \/ CommitFails
  <2>1. /\ header' = headerBackup /\ pc' = "idle" /\ reply' = "failed"
        /\ active' = active /\ generation' = generation
    BY <1>6 DEF InvalidateFails, WriteCellFails, CommitFails, Fail, EndJob
  <2>2. ~Saving' /\ Committed' = Committed
    BY <1>2, <2>1 DEF Committed, Saving
  <2>3. ActiveSound'
    BY <1>2, <1>4, <2>1, <2>2 DEF MediaInv, ActiveSound
  <2>4. TargetOpen' /\ ActivePreferred' /\ Unanswered'
    BY <2>1, <2>2 DEF TargetOpen, ActivePreferred, Unanswered
  <2> QED BY <1>3, <2>3, <2>4 DEF MediaInv
<1>7. ~Commit
  BY DEF Commit, EndJob
<1> QED BY <1>1, <1>5, <1>6, <1>7 DEF SaveStep

LEMMA CommitMedia ==
  ASSUME MediaInv, DirInv', MediaSaveStep, reply' = "ok"
  PROVE  MediaInv'
<1>1. /\ TypeOK /\ Kinds /\ MemoryIntact /\ TargetOpen /\ SaveStep
      /\ previous' = [known |-> active # "none", files |-> Files(headerBackup)]
  BY DEF MediaSaveStep, MediaInv, DirInv
<1>2. Commit
  BY <1>1 DEF MediaInv, Unanswered, Saving, SaveStep, Invalidate, InvalidateFails,
     WriteCell, WriteCellFails, CommitFails, Fail, EndJob
<1>3. /\ pc = "commit" /\ PutHeader(NewHeader) /\ header' = NewHeader
      /\ active' = Target /\ generation' = NewHeader.gen /\ pc' = "idle"
  BY <1>2 DEF Commit, EndJob
<1>4. /\ disk'[Target].header = NewHeader /\ Sound(disk'[Target])
      /\ LoadedHeader(disk'[Target]) = NewHeader
  BY <1>1, <1>3, CommittedSlot
<1>5. Target \in SlotName /\ Target # "none" /\ ~Saving'
  BY <1>3, TargetType DEF Target, Saving
<1>6. ActiveSound'
  BY <1>3, <1>4, <1>5 DEF ActiveSound, Committed
<1>7. /\ active # "none" => disk'[active] = disk[active]
      /\ active = "none" => disk'["B"] = disk["B"]
  BY <1>1, WritesAside
<1>8. CASE active = "none"
  <2>1. Other(Target) = "B" /\ ~Sound(disk'["B"])
    BY <1>3, <1>7, <1>8 DEF MediaInv, ActiveSound, Other, Target
  <2>2. BootSlot(disk') = Target
    BY <1>4, <1>5, <2>1, BootOnlySound
  <2>3. ActivePreferred' /\ PreviousHolds'
    BY <1>1, <1>3, <1>8, <2>2 DEF ActivePreferred, PreviousHolds
  <2> QED BY <1>3, <1>5, <1>6, <2>3 DEF MediaInv, TargetOpen, Unanswered
<1>9. CASE active # "none"
  <2>1. active \in SlotName /\ Other(Target) = active
    BY <1>1, <1>9 DEF TypeOK, SlotName, Other, Target
  <2>2. /\ disk'[active] = disk[active] /\ Sound(disk[active])
        /\ headerBackup = LoadedHeader(disk[active])
        /\ generation = disk[active].header.gen
    BY <1>3, <1>7, <1>9 DEF MediaInv, ActiveSound, Committed, Saving
  <2>3. disk[active] \in Slot /\ disk[active].header.gen \in Gen
    BY <1>1, <2>1 DEF TypeOK, Disk, Slot, Header
  <2>4. NewHeader.gen = IncGen(disk[active].header.gen)
    BY <1>1, <1>9, <2>2 DEF NewHeader, TypeOK, Header
  <2>5. BootSlot(disk') = Target
    BY <1>4, <1>5, <2>1, <2>2, <2>3, <2>4, BootNewest
  <2>6. Files(disk[active].header) = Files(headerBackup)
    BY <2>2, <2>3, LoadedFiles
  <2>7. ActivePreferred' /\ PreviousHolds'
    BY <1>1, <1>3, <1>4, <1>5, <2>1, <2>2, <2>4, <2>5, <2>6
       DEF ActivePreferred, PreviousHolds
  <2> QED BY <1>3, <1>5, <1>6, <2>7 DEF MediaInv, TargetOpen, Unanswered
<1> QED BY <1>8, <1>9

LEMMA OffMedia ==
  ASSUME DirInv', pc' = "off", ~previous'.known
  PROVE  MediaInv'
BY DEF MediaInv, ActiveSound, TargetOpen, ActivePreferred, Unanswered, PreviousHolds, Saving

LEMMA NextMediaInv ==
  ASSUME ~TransientReads
  PROVE  MediaInv /\ [MediaNext]_mediaVars => MediaInv'
<1> SUFFICES ASSUME MediaInv, [MediaNext]_mediaVars PROVE MediaInv'
  OBVIOUS
<1>1. DirInv'
  BY NextDirectories DEF MediaInv
<1>2. CASE MediaBoot
  BY <1>1, <1>2, BootMedia
<1>3. CASE MediaOperation
  BY <1>1, <1>3, OperationMedia
<1>4. CASE MediaSaveStep
  BY <1>1, <1>4, SaveStepMedia, CommitMedia
<1>5. CASE MediaCrash
  <2>1. pc' = "off" /\ ~previous'.known
    BY <1>5 DEF MediaCrash, Crash, NoPrevious
  <2> QED BY <1>1, <2>1, OffMedia
<1>6. ASSUME NEW s \in SlotName, Decay(s) PROVE MediaInv'
  <2>1. TypeOK /\ pc = "off" /\ ~previous.known
    BY <1>6 DEF Decay, MediaInv, DirInv, PreviousHolds
  <2>2. pc' = pc /\ previous' = previous
    BY <1>6, <2>1, DecayTyped
  <2> QED BY <1>1, <2>1, <2>2, OffMedia
<1>7. CASE UNCHANGED mediaVars
  BY <1>1, <1>7 DEF mediaVars, vars, ram, job, MediaInv, ActiveSound, TargetOpen,
     ActivePreferred, Unanswered, PreviousHolds, Saving, Committed, Target
<1> QED BY <1>2, <1>3, <1>4, <1>5, <1>6, <1>7 DEF MediaNext

LEMMA MediaAlways == ASSUME ~TransientReads PROVE MediaSpec => []MediaInv
<1>1. MediaInit => MediaInv
  BY InitMediaInv
<1>2. MediaInv /\ [MediaNext]_mediaVars => MediaInv'
  BY NextMediaInv
<1> QED BY <1>1, <1>2, PTL DEF MediaSpec

(* The files in RAM are those of the active slot. *)
LEMMA HeaderFiles ==
  ASSUME MediaInv, pc = "idle"
  PROVE  Files(header) = IF active = "none" THEN NoFiles ELSE Files(disk[active].header)
<1>1. Committed = header /\ TypeOK
  BY DEF Committed, Saving, MediaInv, DirInv
<1>2. CASE active = "none"
  BY <1>1, <1>2, NoFilesInEmpty DEF MediaInv, ActiveSound
<1>3. CASE active # "none"
  <2>1. disk[active] \in Slot
    BY <1>1, <1>3 DEF TypeOK, Disk
  <2> QED BY <1>1, <1>3, <2>1, LoadedFiles DEF MediaInv, ActiveSound
<1> QED BY <1>2, <1>3

(* The files of an acknowledged save are what the next boot shows, though a  *)
(* boot before it had to fall back from a damaged snapshot to an older one,  *)
(* as long as a sector that can be read once can be read again: the run      *)
(* storage_read_fault shows that the condition is needed.                    *)
THEOREM SavesSurviveAlways ==
  ASSUME ~TransientReads
  PROVE  MediaSpec => []SavesSurvive
<1>1. MediaInv => SavesSurvive
  BY HeaderFiles DEF SavesSurvive, RecoveredFiles, MediaInv, ActivePreferred
<1> QED BY <1>1, MediaAlways, PTL

(* When the snapshot of the last acknowledged save is damaged anywhere, a    *)
(* boot shows the files saved before it, or still the newest ones if no      *)
(* file's bytes are hit.                                                     *)
THEOREM DamageRecoversPreviousAlways ==
  ASSUME ~TransientReads
  PROVE  MediaSpec => []DamageRecoversPrevious
<1>1. MediaInv => DamageRecoversPrevious
  <2> SUFFICES ASSUME MediaInv, pc = "idle", previous.known,
                      NEW bad \in DamagedSlots(disk[active])
               PROVE  RecoveredFiles([disk EXCEPT ![active] = bad]) =
                        IF Sound(bad) THEN Files(header) ELSE previous.files
    BY DEF DamageRecoversPrevious
  <2> DEFINE d == [disk EXCEPT ![active] = bad]
             other == Other(active)
  <2>1. /\ TypeOK /\ active \in SlotName /\ Sound(disk[other])
        /\ Files(disk[other].header) = previous.files
        /\ disk[active].header.gen = IncGen(disk[other].header.gen)
    BY DEF MediaInv, DirInv, TypeOK, PreviousHolds
  <2>2. other \in SlotName /\ other # active /\ Other(other) = active
    BY <2>1 DEF Other, SlotName
  <2>3. d[active] = bad /\ d[other] = disk[other]
    BY <2>1, <2>2 DEF TypeOK, Disk
  <2>4. disk[active] \in Slot /\ disk[other].header.gen \in Gen
    BY <2>1, <2>2 DEF TypeOK, Disk, Slot, Header
  <2>5. HeaderValid(bad) => bad.header = disk[active].header
    BY <2>4, DamageTyped
  <2> HIDE DEF d, other
  <2>6. CASE Sound(bad)
    <3>1. bad.header = disk[active].header
      BY <2>5, <2>6 DEF Sound
    <3>2. BootSlot(d) = active
      BY <2>1, <2>2, <2>3, <2>4, <2>6, <3>1, BootNewest DEF other
    <3>3. RecoveredFiles(d) = Files(disk[active].header)
      BY <2>1, <2>3, <3>1, <3>2 DEF RecoveredFiles, SlotName
    <3> QED BY <2>1, <2>6, <3>3, HeaderFiles DEF d, SlotName
  <2>7. CASE ~Sound(bad)
    <3>1. BootSlot(d) = other
      BY <2>1, <2>2, <2>3, <2>7, BootOnlySound
    <3>2. RecoveredFiles(d) = previous.files
      BY <2>1, <2>2, <2>3, <3>1 DEF RecoveredFiles, SlotName
    <3> QED BY <2>7, <3>2 DEF d
  <2> QED BY <2>6, <2>7
<1> QED BY <1>1, MediaAlways, PTL
=============================================================================
