---------------------------- MODULE UtmExport ----------------------------
(***************************************************************************)
(* tools/export_utm.py: exports of the image or of the runtime disk to one *)
(* UTM draft path.  qemu-img takes the disk locks (no -U), so it refuses a*)
(* disk that a guest is running on and keeps a guest from starting while it*)
(* converts.  What a conversion reads first and what it reads last are two *)
(* steps.                                                                  *)
(***************************************************************************)
EXTENDS RuntimePublish

CONSTANT Exporters

ASSUME ExportersAssumption == {"nobody", "others"} \cap Exporters = {}

VARIABLES
  utm,  \* [by, of]: who put something at the draft's path, and what
  draft,  \* each export's temporary directory
  ex,      \* what each export does next
  from     \* the disk each export reads: "image" or "runtime"

exportVars == <<utm, draft, ex, from>>

(* A draft: what its disk was first and last read from, and which of its    *)
(* two files are written.                                                    *)
Reading(d, n) == [disk |-> d, work |-> n]
NoReading == Reading(NoImage, 0)
NoBundle == [first |-> NoReading, last |-> NoReading, files |-> {}]

NoUtm == [by |-> "nobody", of |-> NoBundle]
ForeignUtm == [by |-> "others", of |-> NoBundle]

ExportResting == {"idle", "done", "failed"}

ExportInit ==
  /\ utm = NoUtm
  /\ draft = [e \in Exporters |-> NoBundle]
  /\ ex = [e \in Exporters |-> "idle"]
  /\ from = [e \in Exporters |-> "image"]

Goto(e, place) == ex' = [ex EXCEPT ![e] = place]

SourceExists(e) ==
  IF from[e] = "image" THEN built # NoImage ELSE runtime # Absent

(* Mutant: qemu-img is told to ignore the locks. *)
Locked_Ignored(e) == FALSE

Locked(e) == from[e] = "runtime" /\ guest # {}

(* What reading the source gives now.  An image that is replaced stays the   *)
(* file that was opened.                                                     *)
SourceNow(e) ==
  IF from[e] = "image" THEN Reading(built, 0) ELSE Reading(runtime.of.disk, work)

ExportStart(e) ==
  /\ ex[e] \in ExportResting
  /\ \E source \in {"image", "runtime"} : from' = [from EXCEPT ![e] = source]
  /\ Goto(e, IF utm # NoUtm THEN "failed" ELSE "inspect")
  /\ UNCHANGED <<utm, draft, launchVars>>

(* is_file, inspect_image, then mkdtemp. *)
ExportInspect(e) ==
  /\ ex[e] = "inspect"
  /\ Goto(e, IF SourceExists(e) /\ ~Locked(e) THEN "convert" ELSE "failed")
  /\ UNCHANGED <<utm, draft, from, launchVars>>

(* qemu-img convert opens the source and holds it until it has ended. *)
ConvertOpen(e) ==
  /\ ex[e] = "convert"
  /\ IF SourceExists(e) /\ ~Locked(e)
     THEN /\ draft' = [draft EXCEPT ![e].first = SourceNow(e)]
          /\ converting' = IF from[e] = "runtime" THEN converting \cup {e} ELSE converting
          /\ Goto(e, "converting")
     ELSE Goto(e, "raised") /\ UNCHANGED <<draft, converting>>
  /\ UNCHANGED <<utm, from, built, runtime, work, copies, la, guest>>

ConvertClose(e) ==
  /\ ex[e] = "converting"
  /\ draft' = [draft EXCEPT
       ![e].last = IF from[e] = "image" THEN draft[e].first ELSE SourceNow(e),
       ![e].files = {"disk"}]
  /\ converting' = converting \ {e}
  /\ Goto(e, "check")
  /\ UNCHANGED <<utm, from, built, runtime, work, copies, la, guest>>

(* inspect_image(standalone), qemu-img check, config.plist. *)
ExportConfigure(e) ==
  /\ ex[e] = "check"
  /\ draft' = [draft EXCEPT ![e].files = @ \cup {"config"}]
  /\ Goto(e, "publish")
  /\ UNCHANGED <<utm, from, launchVars>>

(* publish_exclusively: the temporary directory becomes the draft. *)
Publish(e) ==
  /\ ex[e] = "publish"
  /\ IF utm = NoUtm
     THEN /\ utm' = [by |-> e, of |-> draft[e]]
          /\ draft' = [draft EXCEPT ![e] = NoBundle]
          /\ Goto(e, "published")
     ELSE Goto(e, "raised") /\ UNCHANGED <<utm, draft>>
  /\ UNCHANGED <<from, launchVars>>

(* A command fails or the user interrupts: the lock goes with qemu-img. *)
ExportRaise(e) ==
  /\ ex[e] \in {"convert", "converting", "check", "publish"}
  /\ converting' = converting \ {e}
  /\ Goto(e, "raised")
  /\ UNCHANGED <<utm, draft, from, built, runtime, work, copies, la, guest>>

(* finally: what is left of the temporary directory is removed. *)
ExportCleanup(e) ==
  /\ ex[e] \in {"published", "raised"}
  /\ draft' = [draft EXCEPT ![e] = NoBundle]
  /\ Goto(e, IF ex[e] = "published" THEN "done" ELSE "failed")
  /\ UNCHANGED <<utm, from, launchVars>>

(* Killed: the hidden temporary directory stays behind. *)
ExportKill(e) ==
  /\ ex[e] \notin ExportResting
  /\ converting' = converting \ {e}
  /\ draft' = [draft EXCEPT ![e] = NoBundle]
  /\ Goto(e, "idle")
  /\ UNCHANGED <<utm, from, built, runtime, work, copies, la, guest>>

UtmPlaced ==
  /\ utm = NoUtm
  /\ utm' = ForeignUtm
  /\ UNCHANGED <<draft, ex, from, launchVars>>

ExportNext ==
  \/ \E e \in Exporters :
       \/ ExportStart(e) \/ ExportInspect(e) \/ ConvertOpen(e) \/ ConvertClose(e)
       \/ ExportConfigure(e) \/ Publish(e)
       \/ ExportRaise(e) \/ ExportCleanup(e) \/ ExportKill(e)
  \/ UtmPlaced

=============================================================================
