------------------------- MODULE RuntimePrepare -------------------------
(***************************************************************************)
(* tools/prepare_runtime_image.py: `make run' refreshes the system part of *)
(* the user's floppy image from the template, keeps the two save slots,    *)
(* and boots a machine that saves into them.  The new image is moved over  *)
(* the old one; a machine that is running keeps the file it has opened.    *)
(* The preparation may raise or be killed, the template may be short       *)
(* because it is just being written, the machine may be stopped in a save. *)
(***************************************************************************)
EXTENDS Integers

CONSTANTS
  Editions,  \* what the template's system part may be
  MaxSaves,  \* the user saves this often (a bound)
  Overlap    \* whether images are prepared while a machine runs

ASSUME PrepareAssumption == MaxSaves \in Nat /\ Overlap \in BOOLEAN

VARIABLES
  template,   \* build/legacy/nixodria.img: an edition, "none" or "short"
  floppy,     \* .nixodria/nixodria.img
  machine,    \* "off", "on" or "saving"
  drive,      \* the image the machine has opened
  shared,     \* whether that is still the file at the path
  saved,      \* the last save that was reported to the user
  preparing,  \* what the preparation does next, or how it ended
  read        \* the template and the floppy it has read

userVars == <<floppy, machine, drive, shared, saved>>
prepareVars == <<template, userVars, preparing, read>>

NoFloppy == [layout |-> "none"]
BadFloppy == [layout |-> "bad"]
Floppy(l, s, a, b) == [layout |-> l, system |-> s, slotA |-> a, slotB |-> b]

Torn == -1    \* a slot whose save was cut short
Unused == 0   \* a blank slot, else the number of the save it holds
Newest(i) == IF i.slotA > i.slotB THEN i.slotA ELSE i.slotB

PrepareEnded == {"idle", "ready", "refused"}

PrepareInit ==
  /\ template \in Editions \cup {"none"}
  /\ \E s \in Editions :
       floppy \in {NoFloppy, BadFloppy, Floppy("old", s, 1, Unused), Floppy("new", s, Unused, 1)}
  /\ machine = "off" /\ drive = NoFloppy /\ shared = FALSE
  /\ saved = (IF floppy \in {NoFloppy, BadFloppy} THEN 0 ELSE 1)
  /\ preparing = "idle" /\ read = [template |-> "none", floppy |-> NoFloppy]

-----------------------------------------------------------------------------

(* Mutant: the second slot is taken from the template. *)
Combined_OneSlot ==
  IF read.floppy = NoFloppy THEN Floppy("new", read.template, Unused, Unused)
  ELSE Floppy("new", read.template, read.floppy.slotA, Unused)

(* Both layouts give their two slots to the template's. *)
Combined ==
  IF read.floppy = NoFloppy THEN Floppy("new", read.template, Unused, Unused)
  ELSE Floppy("new", read.template, read.floppy.slotA, read.floppy.slotB)

(* read_image *)
PrepareTemplate ==
  /\ preparing \in PrepareEnded /\ (Overlap \/ machine = "off")
  /\ IF template \in Editions
     THEN preparing' = "read" /\ read' = [read EXCEPT !.template = template]
     ELSE preparing' = "refused" /\ UNCHANGED read
  /\ UNCHANGED <<template, userVars>>

(* read_runtime_image: another size, no signature, or a link. *)
PrepareRead ==
  /\ preparing = "read"
  /\ IF floppy = BadFloppy
     THEN preparing' = "refused" /\ UNCHANGED read
     ELSE preparing' = "combine" /\ read' = [read EXCEPT !.floppy = floppy]
  /\ UNCHANGED <<template, userVars>>

(* An image that would not change is left alone. *)
PrepareCombine ==
  /\ preparing = "combine"
  /\ preparing' = IF Combined = read.floppy THEN "ready" ELSE "replace"
  /\ UNCHANGED <<template, userVars, read>>

PrepareReplace ==
  /\ preparing = "replace"
  /\ floppy' = Combined /\ shared' = FALSE /\ preparing' = "ready"
  /\ drive' = IF shared THEN floppy ELSE drive
  /\ UNCHANGED <<template, machine, saved, read>>

(* A call raises, or the process is killed, before the new image is there. *)
PrepareFails ==
  /\ preparing \notin PrepareEnded
  /\ preparing' = "refused"
  /\ UNCHANGED <<template, userVars, read>>

(* The template is built again; its file is short for a while. *)
TemplateBuilt ==
  /\ template' \in Editions \cup {"none", "short"}
  /\ UNCHANGED <<userVars, preparing, read>>

-----------------------------------------------------------------------------
(* The machine.  A save goes to the slot that does not hold the newest one. *)

Drive == IF shared THEN floppy ELSE drive

Writes(image) ==
  IF shared THEN floppy' = image /\ UNCHANGED drive ELSE drive' = image /\ UNCHANGED floppy

InOlder(image, value) ==
  IF image.slotA >= image.slotB THEN [image EXCEPT !.slotB = value]
  ELSE [image EXCEPT !.slotA = value]

MachineBoot ==
  /\ machine = "off" /\ preparing = "ready" /\ floppy \notin {NoFloppy, BadFloppy}
  /\ machine' = "on" /\ shared' = TRUE /\ drive' = NoFloppy
  /\ UNCHANGED <<template, floppy, saved, preparing, read>>

SaveStart ==
  /\ machine = "on" /\ saved < MaxSaves
  /\ machine' = "saving" /\ Writes(InOlder(Drive, Torn))
  /\ UNCHANGED <<template, shared, saved, preparing, read>>

SaveEnd ==
  /\ machine = "saving"
  /\ machine' = "on" /\ Writes(InOlder(Drive, saved + 1)) /\ saved' = saved + 1
  /\ UNCHANGED <<template, shared, preparing, read>>

MachineStop ==
  /\ machine # "off"
  /\ machine' = "off" /\ shared' = FALSE /\ drive' = NoFloppy
  /\ UNCHANGED <<template, floppy, saved, preparing, read>>

PrepareNext ==
  \/ PrepareTemplate \/ PrepareRead \/ PrepareCombine \/ PrepareReplace \/ PrepareFails
  \/ TemplateBuilt
  \/ MachineBoot \/ SaveStart \/ SaveEnd \/ MachineStop

PrepareSpec == PrepareInit /\ [][PrepareNext]_prepareVars

-----------------------------------------------------------------------------

(* Refreshing the image "preserves every saved file": the last save that was *)
(* reported is the newest one in the image at the path, at every moment.     *)
SavesKept == saved > 0 => floppy \notin {NoFloppy, BadFloppy} /\ Newest(floppy) = saved

=============================================================================
