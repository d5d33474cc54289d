-------------------------- MODULE LegacyExport --------------------------
(***************************************************************************)
(* The host exporter's reading of a legacy floppy (parse_record and        *)
(* recover_files of tools/export_legacy_files.py), against the kernel's.   *)
(* The exporter is a pure function of the image, so it is checked on every *)
(* floppy the kernel, power loss and decay of StorageMedia can produce.    *)
(***************************************************************************)
EXTENDS StorageMedia

CONSTANT
  DotNames  \* "." and "..": filename_normalize accepts them, parse_record does not

ASSUME ExportAssumption == DotNames \subseteq Names

(* parse_record: NIX2 and NIX3 records alike need their checksums; a NIX3    *)
(* directory also needs distinct names that a directory can hold.            *)
ParseRecord(slot) ==
  LET used == Used(slot.header)
      names == {slot.header.entry[i].name : i \in used}
  IN  /\ slot.header.kind # "none"
      /\ \A i \in used : Matches(slot.cell[i], slot.header.entry[i].sum)
      /\ slot.header.kind = "nix3" =>
           /\ names \cap (DotNames \cup {NoName}) = {}
           /\ Cardinality(names) = Cardinality(used)

(* A slot all of whose bytes are zero. *)
BlankSlot(slot) == slot.header = NoHeader /\ slot.cell = ZeroCells

(* Mutant: the exporter compares the generations as plain numbers. *)
ExportSlot_NoWrap(d) ==
  LET valid == {s \in SlotName : ParseRecord(d[s])}
  IN  IF valid = {} THEN "error"
      ELSE IF "B" \notin valid THEN "A"
      ELSE IF "A" \in valid /\ d["A"].header.gen >= d["B"].header.gen THEN "A"
      ELSE "B"

(* recover_files: the slot whose files are exported, "empty" for a floppy    *)
(* that was never used, "error" if there is something and none of it valid.  *)
ExportSlot(d) ==
  LET valid == {s \in SlotName : ParseRecord(d[s])}
  IN  IF valid = {}
      THEN IF \A s \in SlotName : BlankSlot(d[s]) THEN "empty" ELSE "error"
      ELSE IF "B" \notin valid
           THEN "A"
      ELSE IF "A" \in valid /\ AFirst(d["A"].header.gen, d["B"].header.gen)
           THEN "A"
      ELSE "B"

(* The exporter and a boot of the kernel agree on every floppy: it exports   *)
(* exactly the files the kernel would show, and exports none only where the  *)
(* kernel comes up empty ("Match the BIOS kernel", export_legacy_files.py).  *)
ExporterAgrees ==
  LET s == ExportSlot(disk)
  IN  IF s \in {"empty", "error"}
      THEN BootSlot(disk) = "none"
      ELSE Files(disk[s].header) = RecoveredFiles(disk)

=============================================================================
