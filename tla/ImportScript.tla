-------------------------- MODULE ImportScript --------------------------
(***************************************************************************)
(* The shell script that import_script of tools/import_legacy_files.py     *)
(* writes, as the guest's shell carries it out: an archive and a staging   *)
(* directory from mktemp, the download and its checks, sync, the move to   *)
(* the destination that never replaces, the test whether it moved, sync.   *)
(* Commands fail, signals come between commands, somebody else makes the   *)
(* destination meanwhile, and the power goes: what was not synced by then  *)
(* is on the disk, in part, or not at all.                                 *)
(***************************************************************************)
EXTENDS Naturals

VARIABLES
  sh,        \* the script's next command; "none" before it starts, "ended"
  code,      \* its exit status
  named,     \* which of $archive and $stage hold a name
  archive,   \* the file in /tmp: "none", "wrong" or "right"
  stage,     \* the staging directory: "none", "part" or "whole"
  dest,      \* [by, of]: what is at the destination
  safe,      \* the staged files have reached the disk
  disk,      \* what the disk has at the destination
  signalled  \* a signal was trapped

shell == <<sh, code, named>>
scriptVars == <<shell, archive, stage, dest, safe, disk, signalled>>

Nowhere == [by |-> "nobody", of |-> "nothing"]
Elsewhere == [by |-> "others", of |-> "something"]
Imported(content) == [by |-> "import", of |-> content]

Trapped == {"archive", "stage", "wget", "verify", "tar", "manifest",
            "sync", "move", "test", "settle"}

ScriptInit ==
  /\ sh = "none" /\ code = 0 /\ named = {}
  /\ archive = "none" /\ stage = "none"
  /\ dest = Nowhere /\ safe = FALSE /\ disk = Nowhere
  /\ signalled = FALSE

-----------------------------------------------------------------------------

(* set -e: a command that fails ends the script by way of its EXIT trap. *)
ExitWith(status) == sh' = "exit" /\ code' = status
ScriptGoes(next) == sh' = next /\ code' = code
Test(ok, next) == IF ok THEN ScriptGoes(next) ELSE ExitWith(1)

(* Before the trap is set: the destination must be free. *)
ScriptCheck ==
  /\ sh = "check"
  /\ \/ dest = Nowhere /\ sh' = "archive" /\ code' = code
     \/ sh' = "ended" /\ code' = 1
  /\ UNCHANGED <<named, archive, stage, dest, safe, disk, signalled>>

ScriptArchive ==
  /\ sh = "archive" /\ ScriptGoes("stage")
  /\ archive' = "wrong" /\ named' = named \cup {"archive"}
  /\ UNCHANGED <<stage, dest, safe, disk, signalled>>

ScriptStage ==
  /\ sh = "stage" /\ ScriptGoes("wget")
  /\ stage' = "part" /\ named' = named \cup {"stage"}
  /\ UNCHANGED <<archive, dest, safe, disk, signalled>>

ScriptWget ==
  /\ sh = "wget" /\ ScriptGoes("verify")
  /\ archive' \in {"wrong", "right"}
  /\ UNCHANGED <<named, stage, dest, safe, disk, signalled>>

ScriptVerify ==
  /\ sh = "verify" /\ Test(archive = "right", "tar")
  /\ UNCHANGED <<named, archive, stage, dest, safe, disk, signalled>>

(* The archive or the directory is gone after a signal. *)
ScriptTar ==
  /\ sh = "tar" /\ Test(archive = "right" /\ stage # "none", "manifest")
  /\ stage' \in IF stage = "none" THEN {"none"} ELSE {"part", "whole"}
  /\ safe' = FALSE
  /\ UNCHANGED <<named, archive, dest, disk, signalled>>

ScriptManifest ==
  /\ sh = "manifest" /\ Test(stage = "whole", "sync")
  /\ UNCHANGED <<named, archive, stage, dest, safe, disk, signalled>>

Synced == safe' = TRUE /\ disk' = dest

(* Mutant: the staged files are not written out before the move. *)
ScriptSync_None ==
  /\ sh = "sync" /\ ScriptGoes("move")
  /\ UNCHANGED <<named, archive, stage, dest, safe, disk, signalled>>

ScriptSync ==
  /\ sh = "sync" /\ ScriptGoes("move")
  /\ Synced
  /\ UNCHANGED <<named, archive, stage, dest, signalled>>

(* Mutant: $stage is cleared before it is known that the move happened. *)
ScriptMove_Forgets ==
  /\ sh = "move" /\ Test(stage # "none", "test")
  /\ IF stage # "none" /\ dest = Nowhere
     THEN dest' = Imported(stage) /\ stage' = "none"
     ELSE UNCHANGED <<dest, stage>>
  /\ named' = named \ {"stage"}
  /\ UNCHANGED <<archive, safe, disk, signalled>>

(* mv -nT: nothing is moved, and no error, where the destination exists. *)
ScriptMove ==
  /\ sh = "move" /\ Test(stage # "none", "test")
  /\ IF stage # "none" /\ dest = Nowhere
     THEN dest' = Imported(stage) /\ stage' = "none"
     ELSE UNCHANGED <<dest, stage>>
  /\ UNCHANGED <<named, archive, safe, disk, signalled>>

(* Mutant: the script believes that mv has moved. *)
ScriptTest_Skipped ==
  /\ sh = "test" /\ ScriptGoes("settle")
  /\ named' = named \ {"stage"}
  /\ UNCHANGED <<archive, stage, dest, safe, disk, signalled>>

ScriptTest ==
  /\ sh = "test" /\ Test(stage = "none", "settle")
  /\ named' = IF stage = "none" THEN named \ {"stage"} ELSE named
  /\ UNCHANGED <<archive, stage, dest, safe, disk, signalled>>

ScriptSettle ==
  /\ sh = "settle" /\ ExitWith(0)
  /\ Synced
  /\ UNCHANGED <<named, archive, stage, dest, signalled>>

ScriptFails ==
  /\ sh \in Trapped /\ ExitWith(1)
  /\ UNCHANGED <<named, archive, stage, dest, safe, disk, signalled>>

Cleanup ==
  /\ archive' = IF "archive" \in named THEN "none" ELSE archive
  /\ stage' = IF "stage" \in named THEN "none" ELSE stage

ScriptExit ==
  /\ sh = "exit" /\ sh' = "ended"
  /\ Cleanup
  /\ UNCHANGED <<code, named, dest, safe, disk, signalled>>

(* HUP, INT or TERM runs the trap, and the script goes on behind it. *)
ScriptSignal ==
  /\ sh \in Trapped
  /\ Cleanup /\ signalled' = TRUE
  /\ UNCHANGED <<shell, dest, safe, disk>>

ScriptStep ==
  \/ ScriptCheck \/ ScriptArchive \/ ScriptStage \/ ScriptWget \/ ScriptVerify
  \/ ScriptTar \/ ScriptManifest \/ ScriptSync \/ ScriptMove \/ ScriptTest
  \/ ScriptSettle \/ ScriptFails \/ ScriptExit \/ ScriptSignal

-----------------------------------------------------------------------------
(* What comes from outside the script. *)

ScriptStarts ==
  /\ sh' = "check" /\ code' = 0 /\ named' = {}
  /\ UNCHANGED <<archive, stage, dest, safe, disk, signalled>>

(* Somebody else makes the destination. *)
Appears ==
  /\ dest = Nowhere
  /\ dest' = Elsewhere
  /\ UNCHANGED <<shell, archive, stage, safe, disk, signalled>>

(* The next guest knows neither the script nor its temporary names. *)
Forgotten ==
  /\ sh' = "none" /\ code' = 0 /\ named' = {}
  /\ archive' = "none" /\ stage' = "none" /\ safe' = FALSE

(* poweroff unmounts the file system. *)
Unmounted == disk' = dest /\ dest' = dest /\ Forgotten /\ UNCHANGED signalled

(* The rename may be on the disk or not, and the files that were not synced *)
(* may be cut short.                                                        *)
Survivors ==
  IF dest # disk /\ dest.by = "import" /\ ~safe THEN {dest, Imported("part")} ELSE {dest}

PowerLost ==
  /\ disk' \in {disk} \cup Survivors
  /\ dest' = disk'
  /\ Forgotten /\ UNCHANGED signalled

=============================================================================
