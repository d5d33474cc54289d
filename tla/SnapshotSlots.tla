------------------------- MODULE SnapshotSlots -------------------------
(***************************************************************************)
(* The two alternating snapshot slots of the legacy floppy, and the rules  *)
(* by which the kernel reads them at boot (storage_load and its helpers in *)
(* src/boot.asm).  A slot is one header sector followed by MaxFiles fixed  *)
(* cells of file data.  This module has no variables: the kernel           *)
(* (Storage) and the host exporter (LegacyExport) both read slots.         *)
(*                                                                         *)
(* Abstractions.  A file's bytes are one value.  CRC-16 with a length is   *)
(* taken as an ideal digest, so an entry's `sum' is the content it was     *)
(* computed from; a sector whose CRC or magic is wrong is NoHeader, and a  *)
(* cell holding anything but a stored content is Torn.                     *)
(***************************************************************************)
EXTENDS Integers, FiniteSets

CONSTANTS
  Names,        \* the normalised file names in use
  DefaultName,  \* UNTITLED.TXT, the name a NIX2 document is imported under
  NoName,       \* the name bytes of an unused directory entry
  Contents,     \* the non-empty file contents in use
  Empty,        \* a file of length 0; also a cell of zeros
  Torn,         \* a cell holding a mixture of two writes, or decayed bytes
  MaxFiles,     \* FILE_COUNT_MAX
  HalfGen       \* half the range of the 16-bit generation (0x8000)

ASSUME SlotsAssumption ==
  /\ DefaultName \in Names
  /\ NoName \notin Names
  /\ Empty \notin Contents
  /\ Torn \notin Contents
  /\ Torn # Empty
  /\ MaxFiles \in Nat \ {0}
  /\ HalfGen \in Nat \ {0, 1}

-----------------------------------------------------------------------------
(* Generations are words that wrap around. *)

Gen == 0 .. (2 * HalfGen - 1)

(* Mutant: the generation is counted in a wider register. *)
IncGen_NoWrap(g) == g + 1

IncGen(g) == IF g = 2 * HalfGen - 1 THEN 0 ELSE g + 1

SubGen(g, h) == IF g >= h THEN g - h ELSE g - h + 2 * HalfGen

(* Mutant: the generations are compared without their difference. *)
AFirst_Unsigned(genA, genB) == genA >= genB

(* cmp ax, 0x8000 / jbe .a_first, with ax = genA - genB. *)
AFirst(genA, genB) == SubGen(genA, genB) <= HalfGen

-----------------------------------------------------------------------------
(* Headers, cells and slots. *)

Index == 0 .. (MaxFiles - 1)

Sum == Contents \cup {Empty}

Cell == Contents \cup {Empty, Torn}

Entry == [name : Names \cup {NoName}, sum : Sum]

NoEntry == [name |-> NoName, sum |-> Empty]

Header ==
  [kind : {"none", "nix2", "nix3"}, gen : Gen, count : 0 .. MaxFiles,
   entry : [Index -> Entry]]

NoEntries == [i \in Index |-> NoEntry]

(* A zeroed header sector, or one whose magic, bounds or CRC are wrong. *)
NoHeader == [kind |-> "none", gen |-> 0, count |-> 0, entry |-> NoEntries]

(* The header files_initialize builds in FILES_HEADER. *)
EmptyHeader == [NoHeader EXCEPT !.kind = "nix3"]

(* A NIX2 record describes one unnamed document; the name is the importer's. *)
LegacyHeader(g, content) ==
  [kind |-> "nix2", gen |-> g, count |-> 1,
   entry |-> [NoEntries EXCEPT ![0] = [name |-> DefaultName, sum |-> content]]]

ZeroCells == [i \in Index |-> Empty]

Slot == [header : Header, cell : [Index -> Cell]]

SlotName == {"A", "B"}

Other(s) == IF s = "A" THEN "B" ELSE "A"

Disk == [SlotName -> Slot]

Used(header) == {i \in Index : i < header.count}

-----------------------------------------------------------------------------
(* Validation. *)

HeaderValid(slot) == slot.header.kind # "none"

(* A zero-length file passes its CRC whatever its cell holds. *)
Matches(cell, sum) == sum = Empty \/ cell = sum

PayloadValid(slot) ==
  \A i \in Used(slot.header) :
    /\ slot.header.kind = "nix3" => slot.header.entry[i].name # NoName
    /\ Matches(slot.cell[i], slot.header.entry[i].sum)

Sound(slot) == HeaderValid(slot) /\ PayloadValid(slot)

-----------------------------------------------------------------------------
(* What storage_load chooses: the preferred slot of those whose header is   *)
(* valid, the other one if the first cannot be loaded, "none" if neither    *)
(* can.  badHeader and badPayload are the slots whose header or payload     *)
(* sectors cannot be read during this boot.                                 *)

Preferred(disk, headers) ==
  IF "A" \in headers /\
     ("B" \notin headers \/ AFirst(disk["A"].header.gen, disk["B"].header.gen))
  THEN "A" ELSE "B"

(* Mutant: the preferred slot is the only one tried. *)
ChooseSlot_NoFallback(disk, badHeader, badPayload) ==
  LET headers == {s \in SlotName \ badHeader : HeaderValid(disk[s])}
      first == Preferred(disk, headers)
  IN  IF first \in headers \ badPayload /\ PayloadValid(disk[first])
      THEN first ELSE "none"

ChooseSlot(disk, badHeader, badPayload) ==
  LET headers == {s \in SlotName \ badHeader : HeaderValid(disk[s])}
      loads(s) == s \in headers \ badPayload /\ PayloadValid(disk[s])
      first == Preferred(disk, headers)
  IN  IF loads(first) THEN first
      ELSE IF loads(Other(first)) THEN Other(first)
      ELSE "none"

(* The slot a boot whose reads all succeed would load. *)
BootSlot(disk) == ChooseSlot(disk, {}, {})

(* FILES_HEADER and FILES_DATA after loading a slot.  Importing a NIX2       *)
(* document zero-fills everything after its bytes.                           *)
LoadedHeader(slot) == [slot.header EXCEPT !.kind = "nix3"]

LoadedCells(slot) ==
  IF slot.header.kind = "nix2"
  THEN [ZeroCells EXCEPT ![0] = slot.header.entry[0].sum]
  ELSE slot.cell

-----------------------------------------------------------------------------
(* The files a directory presents: a function from name to content.  This   *)
(* is the user's view of a snapshot and is what AtomicStore keeps.          *)

UniqueNames(header) ==
  \A i, j \in Used(header) : header.entry[i].name = header.entry[j].name => i = j

Listing(entry, used) ==
  [n \in {entry[i].name : i \in used} |->
     entry[CHOOSE i \in used : entry[i].name = n].sum]

Files(header) == Listing(header.entry, Used(header))

NoFiles == [n \in {} |-> Empty]

(* What a clean boot would show. *)
RecoveredFiles(disk) ==
  IF BootSlot(disk) = "none" THEN NoFiles ELSE Files(disk[BootSlot(disk)].header)

=============================================================================
