------------------------- MODULE RuntimePublish -------------------------
(***************************************************************************)
(* prepare_runtime and main of tools/build_system.py: any number of        *)
(* launchers (`run', `update' and `runtime') that need the writable disk   *)
(* nixodria-rust.qcow2, each of which may be killed or fail anywhere,      *)
(* while SystemBuild replaces the image by another finished one, `make     *)
(* clean' removes it and others put something at the disk's path.  QEMU    *)
(* locks the disk it runs on.                                              *)
(***************************************************************************)
EXTENDS Naturals

CONSTANTS
  Images,     \* the images that a build has finished
  NoImage,
  Launchers,
  MaxWork     \* how often a guest writes to the disk (a bound)

ASSUME LaunchAssumption ==
  /\ MaxWork \in Nat
  /\ NoImage \notin Images
  /\ {"nobody", "others", "link"} \cap Launchers = {}

VARIABLES
  built,       \* build/system/nixodria.qcow2
  runtime,     \* [by, of]: who put something at the runtime's path, and what
  work,        \* how often a guest has written to it
  copies,   \* each launcher's .nixodria-rust-* file
  la,          \* what each launcher does next
  guest,       \* the launchers whose QEMU is running
  converting   \* the exports that hold a read lock on the runtime

launchVars == <<built, runtime, work, copies, la, guest, converting>>

NoArtifact == [disk |-> NoImage, whole |-> FALSE]
Absent == [by |-> "nobody", of |-> NoArtifact]

(* What somebody else may put there: a disk of his own or a symbolic link. *)
Placed == {[by |-> "others", of |-> NoArtifact], [by |-> "link", of |-> NoArtifact]}

IsLink == runtime.by = "link"

LaunchResting == {"idle", "ready", "running", "failed"}

LaunchInit ==
  /\ built = NoImage
  /\ runtime = Absent /\ work = 0
  /\ copies = [l \in Launchers |-> NoArtifact]
  /\ la = [l \in Launchers |-> "idle"]
  /\ guest = {} /\ converting = {}

-----------------------------------------------------------------------------

(* Up to mkstemp, whose file no other process knows. *)
LaunchStart(l) ==
  /\ la[l] \in LaunchResting \ {"running"}
  /\ la' = [la EXCEPT ![l] =
       IF IsLink THEN "failed"
       ELSE IF runtime # Absent THEN "ready"
       ELSE IF built = NoImage THEN "failed"
       ELSE "open"]
  /\ UNCHANGED <<built, runtime, work, copies, guest, converting>>

(* The copy reads the file that is opened here, also when the image is       *)
(* replaced meanwhile.                                                       *)
LaunchOpen(l) ==
  /\ la[l] = "open"
  /\ IF built = NoImage
     THEN la' = [la EXCEPT ![l] = "raised"] /\ UNCHANGED copies
     ELSE /\ copies' = [copies EXCEPT ![l] = [disk |-> built, whole |-> FALSE]]
          /\ la' = [la EXCEPT ![l] = "copy"]
  /\ UNCHANGED <<built, runtime, work, guest, converting>>

LaunchCopy(l) ==
  /\ la[l] = "copy"
  /\ copies' = [copies EXCEPT ![l].whole = TRUE]
  /\ la' = [la EXCEPT ![l] = "link"]
  /\ UNCHANGED <<built, runtime, work, guest, converting>>

(* Mutant: the copy is renamed to the runtime. *)
LaunchLink_Rename(l) ==
  /\ la[l] = "link"
  /\ runtime' = [by |-> l, of |-> copies[l]]
  /\ la' = [la EXCEPT ![l] = "linked"]
  /\ UNCHANGED <<built, work, copies, guest, converting>>

(* os.link does not replace what is there. *)
LaunchLink(l) ==
  /\ la[l] = "link"
  /\ IF runtime = Absent
     THEN /\ runtime' = [by |-> l, of |-> copies[l]]
          /\ la' = [la EXCEPT ![l] = "linked"]
     ELSE /\ la' = [la EXCEPT ![l] = IF IsLink THEN "raised" ELSE "linked"]
          /\ UNCHANGED runtime
  /\ UNCHANGED <<built, work, copies, guest, converting>>

LaunchUnlink(l) ==
  /\ la[l] \in {"linked", "raised"}
  /\ copies' = [copies EXCEPT ![l] = NoArtifact]
  /\ la' = [la EXCEPT ![l] = IF la[l] = "linked" THEN "ready" ELSE "failed"]
  /\ UNCHANGED <<built, runtime, work, guest, converting>>

LaunchRaise(l) ==
  /\ la[l] \in {"open", "copy", "link"}
  /\ la' = [la EXCEPT ![l] = "raised"]
  /\ UNCHANGED <<built, runtime, work, copies, guest, converting>>

(* Killed: the temporary file stays behind under a name nobody uses again.   *)
LaunchKill(l) ==
  /\ la[l] \notin LaunchResting
  /\ la' = [la EXCEPT ![l] = "idle"]
  /\ copies' = [copies EXCEPT ![l] = NoArtifact]
  /\ UNCHANGED <<built, runtime, work, guest, converting>>

-----------------------------------------------------------------------------
(* The machine: `run' becomes QEMU, `update' starts it. *)

GuestStart(l) ==
  /\ la[l] = "ready"
  /\ IF guest = {} /\ converting = {}
     THEN guest' = {l} /\ la' = [la EXCEPT ![l] = "running"]
     ELSE la' = [la EXCEPT ![l] = "failed"] /\ UNCHANGED guest
  /\ UNCHANGED <<built, runtime, work, copies, converting>>

GuestWrite(l) ==
  /\ l \in guest /\ work < MaxWork
  /\ work' = work + 1
  /\ UNCHANGED <<built, runtime, copies, la, guest, converting>>

GuestStop(l) ==
  /\ l \in guest
  /\ guest' = guest \ {l} /\ la' = [la EXCEPT ![l] = "idle"]
  /\ UNCHANGED <<built, runtime, work, copies, converting>>

(* build_system.build and `make clean'. *)
Rebuild ==
  /\ built' \in Images \cup {NoImage}
  /\ UNCHANGED <<runtime, work, copies, la, guest, converting>>

(* A user restores a disk of his own, or makes a link to one. *)
RuntimePlaced ==
  /\ runtime = Absent
  /\ runtime' \in Placed
  /\ UNCHANGED <<built, work, copies, la, guest, converting>>

LaunchNext ==
  \/ \E l \in Launchers :
       \/ LaunchStart(l) \/ LaunchOpen(l) \/ LaunchCopy(l) \/ LaunchLink(l) \/ LaunchUnlink(l)
       \/ LaunchRaise(l) \/ LaunchKill(l)
       \/ GuestStart(l) \/ GuestWrite(l) \/ GuestStop(l)
  \/ Rebuild
  \/ RuntimePlaced

=============================================================================
