-------------------------- MODULE SystemBuild --------------------------
(***************************************************************************)
(* `make': build, create_toolchain and checked_iso of                      *)
(* tools/build_system.py, one build at a time in a checkout whose sources  *)
(* are edited meanwhile.  The files are the cached installer and its       *)
(* download, the cached toolchain disk and the unfinished one, the partial *)
(* system image, the image and the stamp that says which sources it was    *)
(* built from.  Every call may raise; the process may be killed between    *)
(* any two calls; `make clean' and a user who moves an unfinished disk     *)
(* aside come in between builds.                                           *)
(***************************************************************************)
EXTENDS Integers

CONSTANTS
  MaxEdits,  \* the sources are edited this often (a bound)
  Contents   \* what the sources say after that many edits, as fingerprint() sees it

ASSUME BuildAssumption == MaxEdits \in Nat /\ DOMAIN Contents = 0 .. MaxEdits

VARIABLES
  sources,     \* the edition of the checkout's sources
  iso,         \* the cached installer
  download,    \* its .download file
  toolchain,   \* toolchain-<lock>.qcow2
  unfinished,  \* toolchain-<lock>.partial.qcow2
  partial,     \* nixodria.partial.qcow2
  image,       \* nixodria.qcow2
  stamp,       \* source.sha256: the edition it is the fingerprint of
  at,          \* what build() does next, or how it ended
  wanted       \* the edition fingerprint() read when build() started

caches == <<iso, download, toolchain, unfinished>>
outputs == <<partial, image, stamp>>
buildVars == <<sources, caches, outputs, at, wanted>>

Edition == 0 .. MaxEdits

(* No stamp, or one cut short: no fingerprint equals it. *)
NoStamp == -1

Disk == [stage : {"none", "part", "base", "built"}, edition : Edition]
NoDisk == [stage |-> "none", edition |-> 0]
Part(e) == [stage |-> "part", edition |-> e]

Resting == {"idle", "current", "built", "failed"}
Fetching == {"download", "verify"}
Making == {"toolchain", "install", "keep", "base", "copy", "serve", "compile",
           "check", "replace", "stamp", "stamping"}

BuildInit ==
  /\ sources = 0
  /\ iso \in {"none", "wrong", "pinned"}
  /\ download = "none" /\ toolchain = "none" /\ unfinished = "none"
  /\ partial = NoDisk /\ image = NoDisk /\ stamp = NoStamp
  /\ at = "idle" /\ wanted = 0

-----------------------------------------------------------------------------
(* build() up to the decision that there is something to do. *)

UpToDate == image # NoDisk /\ stamp # NoStamp /\ Contents[stamp] = Contents[sources]

BuildStart ==
  /\ at \in Resting
  /\ wanted' = sources
  /\ at' = IF UpToDate THEN "current" ELSE "iso"
  /\ UNCHANGED <<sources, caches, outputs>>

(* checked_iso *)
IsoCached ==
  /\ at = "iso" /\ iso = "pinned"
  /\ at' = "toolchain"
  /\ UNCHANGED <<sources, caches, outputs, wanted>>

IsoOpen ==
  /\ at = "iso" /\ iso # "pinned"
  /\ download' = "part" /\ at' = "download"
  /\ UNCHANGED <<sources, iso, toolchain, unfinished, outputs, wanted>>

IsoDownload ==
  /\ at = "download"
  /\ download' \in {"wrong", "pinned"} /\ at' = "verify"
  /\ UNCHANGED <<sources, iso, toolchain, unfinished, outputs, wanted>>

IsoVerify ==
  /\ at = "verify"
  /\ IF download = "pinned"
     THEN iso' = download /\ at' = "toolchain"
     ELSE iso' = iso /\ at' = "failed"
  /\ download' = "none"
  /\ UNCHANGED <<sources, toolchain, unfinished, outputs, wanted>>

-----------------------------------------------------------------------------
(* create_toolchain, after checked_iso *)

ToolchainCached ==
  /\ at = "toolchain" /\ toolchain # "none"
  /\ at' = "base"
  /\ UNCHANGED <<sources, caches, outputs, wanted>>

ToolchainRefused ==
  /\ at = "toolchain" /\ toolchain = "none" /\ unfinished # "none"
  /\ at' = "failed"
  /\ UNCHANGED <<sources, caches, outputs, wanted>>

ToolchainCreate ==
  /\ at = "toolchain" /\ toolchain = "none" /\ unfinished = "none"
  /\ unfinished' = "part" /\ at' = "install"
  /\ UNCHANGED <<sources, iso, download, toolchain, outputs, wanted>>

(* The guest has run setup-disk with status 0 and powered off. *)
ToolchainInstall ==
  /\ at = "install"
  /\ unfinished' = "installed" /\ at' = "keep"
  /\ UNCHANGED <<sources, iso, download, toolchain, outputs, wanted>>

ToolchainKeep ==
  /\ at = "keep"
  /\ toolchain' = unfinished /\ unfinished' = "none" /\ at' = "base"
  /\ UNCHANGED <<sources, iso, download, outputs, wanted>>

-----------------------------------------------------------------------------
(* build() from the toolchain to the stamp *)

BuildRefused ==
  /\ at = "base" /\ partial # NoDisk
  /\ at' = "failed"
  /\ UNCHANGED <<sources, caches, outputs, wanted>>

CopyOpen ==
  /\ at = "base" /\ partial = NoDisk
  /\ partial' = Part(0) /\ at' = "copy"
  /\ UNCHANGED <<sources, caches, image, stamp, wanted>>

BuildCopy ==
  /\ at = "copy"
  /\ partial' = [stage |-> IF toolchain = "installed" THEN "base" ELSE "part", edition |-> 0]
  /\ at' = "serve"
  /\ UNCHANGED <<sources, caches, image, stamp, wanted>>

(* install_sources: the sources as they are now go to the guest. *)
BuildServe ==
  /\ at = "serve"
  /\ partial' = Part(sources) /\ at' = "compile"
  /\ UNCHANGED <<sources, caches, image, stamp, wanted>>

(* install.sh and poweroff have ended well. *)
BuildCompile ==
  /\ at = "compile"
  /\ partial' = [partial EXCEPT !.stage = "built"] /\ at' = "check"
  /\ UNCHANGED <<sources, caches, image, stamp, wanted>>

QemuCheck ==
  /\ at = "check"
  /\ at' = "replace"
  /\ UNCHANGED <<sources, caches, outputs, wanted>>

BuildReplace ==
  /\ at = "replace"
  /\ image' = partial /\ partial' = NoDisk /\ at' = "stamp"
  /\ UNCHANGED <<sources, caches, stamp, wanted>>

(* write_text empties the file before it writes. *)
StampOpen ==
  /\ at = "stamp"
  /\ stamp' = NoStamp /\ at' = "stamping"
  /\ UNCHANGED <<sources, caches, partial, image, wanted>>

(* Mutant: the sources are fingerprinted again when the build has ended. *)
StampWrite_Now ==
  /\ at = "stamping"
  /\ stamp' = sources /\ at' = "built"
  /\ UNCHANGED <<sources, caches, partial, image, wanted>>

StampWrite ==
  /\ at = "stamping"
  /\ stamp' = wanted /\ at' = "built"
  /\ UNCHANGED <<sources, caches, partial, image, wanted>>

-----------------------------------------------------------------------------

(* Mutant: the partial image is put in place when the guest fails. *)
BuildRaise_Published ==
  /\ at \in Making \cup Fetching
  /\ at' = "failed"
  /\ download' = IF at \in Fetching THEN "none" ELSE download
  /\ IF at = "compile" THEN image' = partial /\ partial' = NoDisk
     ELSE UNCHANGED <<image, partial>>
  /\ UNCHANGED <<sources, iso, toolchain, unfinished, stamp, wanted>>

(* A call raises.  The download is removed, every unfinished disk stays. *)
BuildRaise ==
  /\ at \in Making \cup Fetching
  /\ at' = "failed"
  /\ download' = IF at \in Fetching THEN "none" ELSE download
  /\ UNCHANGED <<sources, iso, toolchain, unfinished, outputs, wanted>>

(* The process is killed. *)
BuildKill ==
  /\ at \notin Resting
  /\ at' = "idle"
  /\ UNCHANGED <<sources, caches, outputs, wanted>>

BuildEdit ==
  /\ sources < MaxEdits
  /\ sources' = sources + 1
  /\ UNCHANGED <<caches, outputs, at, wanted>>

(* `make clean', which may be interrupted. *)
BuildClean ==
  /\ at \in Resting
  /\ \E gone \in SUBSET {"partial", "image", "stamp"} :
       /\ partial' = IF "partial" \in gone THEN NoDisk ELSE partial
       /\ image' = IF "image" \in gone THEN NoDisk ELSE image
       /\ stamp' = IF "stamp" \in gone THEN NoStamp ELSE stamp
  /\ at' = "idle"
  /\ UNCHANGED <<sources, caches, wanted>>

(* "move it aside before retrying" *)
MoveAside ==
  /\ at \in Resting
  /\ unfinished' = "none" /\ partial' = NoDisk
  /\ UNCHANGED <<sources, iso, download, toolchain, image, stamp, at, wanted>>

BuildStep ==
  \/ BuildStart \/ IsoCached \/ IsoOpen \/ IsoDownload \/ IsoVerify
  \/ ToolchainCached \/ ToolchainRefused \/ ToolchainCreate \/ ToolchainInstall \/ ToolchainKeep
  \/ BuildRefused \/ CopyOpen \/ BuildCopy \/ BuildServe \/ BuildCompile \/ QemuCheck \/ BuildReplace
  \/ StampOpen \/ StampWrite
  \/ BuildRaise \/ BuildKill

BuildNext == BuildStep \/ BuildEdit \/ BuildClean \/ MoveAside

BuildSpec == BuildInit /\ [][BuildNext]_buildVars

-----------------------------------------------------------------------------

(* Whatever raises or is killed, no disk that a guest has not finished and   *)
(* closed is ever the cached toolchain or the image, and no guest is         *)
(* installed from an unverified installer ("A partial image ... is never     *)
(* selected as a bootable cache or allowed to replace a previous successful  *)
(* build", create_toolchain).                                                *)
OnlyFinishedDisks ==
  /\ toolchain \in {"none", "installed"}
  /\ image # NoDisk => image.stage = "built"
  /\ at \in Making => iso = "pinned"

(* When build() answers that the image is current, the image was built from  *)
(* what the sources say, unless they were edited while it was being built:   *)
(* the stamp then names the sources before the edit (fingerprint() is taken  *)
(* before install_sources).  It never vouches for sources newer than the     *)
(* image's, whatever crashed, was cleaned or was edited back.                *)
CurrentIsTrue ==
  /\ at = "current" =>
       /\ image # NoDisk
       /\ Contents[image.edition] = Contents[wanted] \/ stamp < image.edition
  /\ image # NoDisk => stamp <= image.edition

=============================================================================
