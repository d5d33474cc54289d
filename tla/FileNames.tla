----------------------------- MODULE FileNames -----------------------------
(***************************************************************************)
(* The five places that decide what a filename is: filename_normalize on   *)
(* what the user typed, storage_validate_files and package_header_valid on *)
(* a field read from the floppy (src/boot.asm), package_filename when the  *)
(* image is built (tools/build_image.py), and parse_record when files are  *)
(* exported (tools/export_legacy_files.py).                                *)
(*                                                                         *)
(* A text is fed byte by byte; each prefix of it is taken as a typed name  *)
(* and, when it is NameSize bytes long, as a filename field.  The alphabet *)
(* has the bytes the five treat differently: the four of ".BAS", a small   *)
(* letter, a byte no name may have and NUL.                                *)
(***************************************************************************)
EXTENDS Naturals, Sequences, SequencesExt

CONSTANT NameSize  \* FILE_NAME_SIZE, one more than the longest name

ASSUME NameSizeAssumption == NameSize \in Nat \ {0}

VARIABLE text

Alphabet == {"B", "A", "S", ".", "b", "?", "NUL"}

(* What a name may have once small letters are capitals. *)
NameBytes == {"B", "A", "S", "."}

Capital(c) == IF c = "b" THEN "B" ELSE c

Invalid == <<"invalid">>

(* filename_normalize.  A NUL ends what was typed. *)
End(typed) ==
  CHOOSE i \in 1..Len(typed) + 1 :
    /\ i = Len(typed) + 1 \/ typed[i] = "NUL"
    /\ \A j \in 1..i - 1 : typed[j] # "NUL"

Capitals(typed) == [i \in 1..End(typed) - 1 |-> Capital(typed[i])]

(* Mutant: a name may fill its field, and no NUL ends it. *)
Normalize_FullField(typed) ==
  LET name == Capitals(typed)
  IN  IF Len(name) \in 1..NameSize /\ \A i \in 1..Len(name) : name[i] \in NameBytes
      THEN name ELSE Invalid

Normalize(typed) ==
  LET name == Capitals(typed)
  IN  IF Len(name) \in 1..NameSize - 1 /\ \A i \in 1..Len(name) : name[i] \in NameBytes
      THEN name ELSE Invalid

Padded(name) == [i \in 1..NameSize |-> IF i <= Len(name) THEN name[i] ELSE "NUL"]

(* storage_validate_files: not empty, and a NUL within the field. *)
StoredName(field) == field[1] # "NUL" /\ \E i \in 1..NameSize : field[i] = "NUL"

(* package_header_valid, one byte of the field at a time.  `at' is the part *)
(* of the routine that reads the next byte, `length' is BX.                 *)
PackageStep(s, c) ==
  CASE s.at = "name" /\ c = "NUL" -> [s EXCEPT !.at = "padding"]
    [] s.at = "name" /\ c # "NUL" ->
         IF s.length < NameSize - 1 /\ c \in NameBytes
         THEN [s EXCEPT !.length = @ + 1] ELSE [s EXCEPT !.at = "invalid"]
    [] s.at = "padding" -> IF c = "NUL" THEN s ELSE [s EXCEPT !.at = "invalid"]
    [] OTHER -> s

HasSuffix(name) == Len(name) >= 4 /\ SubSeq(name, Len(name) - 3, Len(name)) = <<".", "B", "A", "S">>

(* Mutant: the suffix takes a sixth byte. *)
PackageName_TooLong(field) ==
  LET s == FoldLeft(PackageStep, [at |-> "name", length |-> 0], field)
  IN  s.at = "padding" /\ s.length >= 6 /\ HasSuffix(SubSeq(field, 1, s.length))

(* Mutant: the padding behind the name is not looked at. *)
PackageName_AnyPadding(field) ==
  LET s == FoldLeft(LAMBDA r, c : IF r.at = "padding" THEN r ELSE PackageStep(r, c),
                    [at |-> "name", length |-> 0], field)
  IN  s.at = "padding" /\ s.length >= 4 /\ HasSuffix(SubSeq(field, 1, s.length))

PackageName(field) ==
  LET s == FoldLeft(PackageStep, [at |-> "name", length |-> 0], field)
  IN  s.at = "padding" /\ s.length >= 5 /\ HasSuffix(SubSeq(field, 1, s.length))

(* partition at the first NUL, as the two Python tools do. *)
Partition(field) == SelectInSeq(field, LAMBDA c : c = "NUL")

HostName(field) == SubSeq(field, 1, Partition(field) - 1)

HostField(field) ==
  /\ Partition(field) > 1
  /\ \A i \in Partition(field)..NameSize : field[i] = "NUL"
  /\ \A i \in 1..Partition(field) - 1 : field[i] \in NameBytes

(* build_image.package_filename. *)
BuilderName(field) == HostField(field) /\ HasSuffix(HostName(field))

(* export_legacy_files.parse_record. *)
ExporterName(field) == HostField(field) /\ HostName(field) \notin {<<".">>, <<".", ".">>}

-----------------------------------------------------------------------------

NameInit == text = <<>>

NameNext == Len(text) < NameSize /\ \E c \in Alphabet : text' = Append(text, c)

NameSpec == NameInit /\ [][NameNext]_text

Typed == Normalize(text)

IsField == Len(text) = NameSize

(* A name the user can type is stored, survives the check at the next boot *)
(* and names the same file when it is typed as `files' lists it; except    *)
(* for the names "." and "..", it can also be exported.                    *)
TypedNamesKept ==
  Typed # Invalid =>
    /\ Normalize(Typed) = Typed
    /\ StoredName(Padded(Typed))
    /\ ExporterName(Padded(Typed)) \/ Typed \in {<<".">>, <<".", ".">>}

(* The kernel lists what the builder lets into the image: every package it   *)
(* lists can be asked for by that name, will be stored under it, and comes   *)
(* from a field the builder accepts; and it refuses no field that the        *)
(* builder accepts, which would make the whole catalog unavailable, except   *)
(* for a package that is named by its suffix only.                           *)
CatalogNamesAgree ==
  IsField =>
    /\ PackageName(text) =>
         /\ Normalize(text) = HostName(text)
         /\ Padded(Normalize(text)) = text
         /\ BuilderName(text)
    /\ BuilderName(text) =>
         PackageName(text) \/ HostName(text) = <<".", "B", "A", "S">>

=============================================================================
