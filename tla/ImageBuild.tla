--------------------------- MODULE ImageBuild ---------------------------
(***************************************************************************)
(* tools/build_image.py and the kernel that reads its work: the builder    *)
(* checks the base image, the two modules and the package catalog, puts    *)
(* them together and writes the floppy image; the kernel (src/boot.asm)    *)
(* checks the module it loads and every package header again, in its own   *)
(* way.  A slot of the catalog is blank or has a name and at most one      *)
(* defect; a checksum is known by what it was computed from.               *)
(***************************************************************************)
EXTENDS Naturals, Sequences, FiniteSets, SequencesExt

CONSTANTS
  PackageNames,  \* the names packages may have
  PackageSlots   \* PACKAGE_SLOTS

ASSUME ImageAssumption == PackageSlots \in Nat \ {0}

VARIABLES
  base,     \* the base image: "good", or what is wrong with it
  modules,  \* the printer and the BASIC module, likewise
  slots,    \* the package catalog, slot by slot
  output,   \* the image file: NoOutput, a short one, or an image
  packing   \* what build_image does next, or how it ended

imageVars == <<base, modules, slots, output, packing>>

HeaderDefects == {"signature", "reserved", "header checksum", "filename field",
                  "only a suffix", "no source", "long source"}
SourceDefects == {"not ASCII", "line ends", "source checksum", "padding"}

Blank == [defect |-> "none", name |-> "blank"]
LateBytes == [defect |-> "blank header only", name |-> "blank"]
Package(n, d) == [defect |-> d, name |-> n]
Slot == {Blank, LateBytes}
        \cup {Package(n, d) : n \in PackageNames, d \in {"none"} \cup HeaderDefects \cup SourceDefects}

BaseFaults == {"short", "no BIOS signature", "module region", "unused sectors"}
ModuleFaults == {"empty", "long", "signature", "checksum field"}
Modules == {"printer", "BASIC"}
GoodModules == [m \in Modules |-> "good"]

NoOutput == [boot |-> "none"]
ShortOutput == [boot |-> "short"]

-----------------------------------------------------------------------------
(* The builder. *)

Checksum(data) == <<"CRC", data>>

BlankField == <<>>

(* What a module brings in its checksum field. *)
ModuleField(module) == IF module = "checksum field" THEN <<"other">> ELSE BlankField

(* The checksum is computed over the field as it came, and then put there.   *)
ModuleSlot(module) ==
  [module |-> module, checksum |->
     Checksum([module |-> module, checksum |-> ModuleField(module)])]

(* Mutant: one step of validate_package_catalog that does not compare the   *)
(* name with the names before it.                                           *)
BuilderStep_Repeats(s, slot) ==
  IF slot = Blank THEN [s EXCEPT !.empty = TRUE]
  ELSE [names |-> Append(s.names, slot.name), empty |-> s.empty,
        sound |-> /\ s.sound /\ ~s.empty
                  /\ slot.defect \in {"none", "only a suffix"}]

BuilderStep(s, slot) ==
  IF slot = Blank THEN [s EXCEPT !.empty = TRUE]
  ELSE [names |-> Append(s.names, slot.name), empty |-> s.empty,
        sound |-> /\ s.sound /\ ~s.empty
                  /\ slot.defect \in {"none", "only a suffix"}
                  /\ ~Contains(s.names, slot.name)]

Validated(catalog) ==
  FoldLeft(BuilderStep, [names |-> <<>>, empty |-> FALSE, sound |-> TRUE], catalog)

CatalogAccepted(catalog) ==
  Len(catalog) = PackageSlots /\ Validated(catalog).sound /\ Validated(catalog).names # <<>>

ImageInit ==
  /\ \/ base \in {"good"} \cup BaseFaults /\ modules = GoodModules
     \/ base = "good" /\ modules \in {[GoodModules EXCEPT ![m] = f] : m \in Modules, f \in ModuleFaults}
  /\ slots = <<>> /\ output = NoOutput /\ packing = "catalog"

(* The catalog the build is given; any catalog when the other inputs are     *)
(* good, and else one without defects.                                       *)
NextSlot ==
  /\ packing = "catalog" /\ Len(slots) < PackageSlots
  /\ \E slot \in Slot :
       /\ (base = "good" /\ modules = GoodModules) \/ slot.defect = "none"
       /\ slots' = Append(slots, slot)
  /\ UNCHANGED <<base, modules, output, packing>>

(* Mutant: build_module_slot takes a module whose checksum field is used.     *)
BuildCheck_AnyField ==
  /\ packing = "catalog"
  /\ packing' = IF /\ base = "good" /\ CatalogAccepted(slots)
                   /\ \A m \in Modules : modules[m] \in {"good", "checksum field"}
                THEN "open" ELSE "refused"
  /\ UNCHANGED <<base, modules, slots, output>>

BuildCheck ==
  /\ packing = "catalog"
  /\ packing' = IF base = "good" /\ modules = GoodModules /\ CatalogAccepted(slots)
                THEN "open" ELSE "refused"
  /\ UNCHANGED <<base, modules, slots, output>>

(* write_bytes empties the file first. *)
OutputOpen ==
  /\ packing = "open"
  /\ output' = ShortOutput /\ packing' = "write"
  /\ UNCHANGED <<base, modules, slots>>

OutputWrite ==
  /\ packing = "write"
  /\ output' = [boot |-> base, catalog |-> slots, modules |-> [m \in Modules |-> ModuleSlot(modules[m])]]
  /\ packing' = "done"
  /\ UNCHANGED <<base, modules, slots>>

(* A call raises or the process is killed. *)
BuildFails ==
  /\ packing \in {"open", "write"}
  /\ packing' = "failed"
  /\ UNCHANGED <<base, modules, slots, output>>

ImageNext == NextSlot \/ BuildCheck \/ OutputOpen \/ OutputWrite \/ BuildFails

ImageSpec == ImageInit /\ [][ImageNext]_imageVars

-----------------------------------------------------------------------------
(* The kernel. *)

(* The field is blank while the kernel computes the checksum.                *)
ModuleLoads(slot) ==
  /\ slot.module \notin {"signature", "empty", "long"}
  /\ slot.checksum = Checksum([slot EXCEPT !.checksum = BlankField])

(* package_load_header *)
HeaderOf(slot) ==
  CASE slot = Blank -> "empty"
    [] slot.defect \in HeaderDefects \/ slot = LateBytes -> "invalid"
    [] OTHER -> "package"

(* The scan that command_pkg_list and package_find share. *)
KernelStep(s, slot) ==
  CASE HeaderOf(slot) = "empty" -> [s EXCEPT !.index = @ + 1]
    [] HeaderOf(slot) = "package" /\ Len(s.names) = s.index ->
         [s EXCEPT !.index = @ + 1, !.names = Append(@, slot.name)]
    [] OTHER -> [s EXCEPT !.index = @ + 1, !.error = TRUE]

Scan(catalog) ==
  FoldLeft(KernelStep, [index |-> 0, names |-> <<>>, error |-> FALSE], catalog)

(* package_find, and the checksum command_pkg_install compares.             *)
Installs(catalog, n) ==
  LET found == {i \in 1 .. Len(Scan(catalog).names) : Scan(catalog).names[i] = n}
  IN  /\ ~Scan(catalog).error /\ Cardinality(found) = 1
      /\ \A i \in found : catalog[i].defect # "source checksum"

(* An image that the builder has written works for the kernel: both modules  *)
(* are loaded, `pkg list' shows the packages the builder named, and each of  *)
(* them can be found and installed; except that one package called only      *)
(* ".BAS", which the builder lets through and the kernel does not, makes the *)
(* whole catalog unavailable.                                                *)
ImageWorks ==
  output \notin {NoOutput, ShortOutput} =>
    /\ \A m \in Modules : ModuleLoads(output.modules[m])
    /\ \/ \E i \in DOMAIN output.catalog : output.catalog[i].defect = "only a suffix"
       \/ /\ ~Scan(output.catalog).error
          /\ Scan(output.catalog).names = Validated(output.catalog).names
          /\ \A i \in DOMAIN Scan(output.catalog).names :
               Installs(output.catalog, Scan(output.catalog).names[i])

=============================================================================
