-------------------------- MODULE LegacyImport --------------------------
(***************************************************************************)
(* tools/import_legacy_files.py: import_files makes a bundle of the saved  *)
(* files, serves it, and drives a guest through three prompts, the import  *)
(* script as its one command, and poweroff (GuestSession).  The guest      *)
(* works on that command by taking the script's steps (ImportScript);      *)
(* when QEMU dies, or is killed by the end of the session, the guest's     *)
(* power goes.  The user may try again on the same disk.                   *)
(***************************************************************************)
EXTENDS GuestSession, ImportScript

VARIABLES
  bundle,  \* the temporary archive: "none", "whole" or "changed"
  report   \* what main has reported: "nothing", "ready" or "refused"

importVars == <<sessionVars, scriptVars, bundle, report>>

Script == PowerOff - 1  \* the line that carries the script

ImportInit ==
  /\ host = "check" /\ step = 1 /\ failed = FALSE /\ busy = Booting
  /\ qemu = "off" /\ ran = {} /\ console = <<>> /\ lines = <<>>
  /\ ScriptInit
  /\ bundle = "none" /\ report = "nothing"

-----------------------------------------------------------------------------
(* import_files up to the guest *)

BeforeGuest(next) ==
  /\ host' = next
  /\ UNCHANGED <<step, console, lines, busy, qemu, ran, scriptVars, report>>

ImportRefused ==
  /\ host \in {"check", "bundle"}
  /\ BeforeGuest("closed") /\ failed' = TRUE
  /\ UNCHANGED bundle

CheckedRuntime ==
  /\ host = "check" /\ BeforeGuest("bundle")
  /\ UNCHANGED <<bundle, failed>>

BuildBundle ==
  /\ host = "bundle" /\ BeforeGuest("serve")
  /\ bundle' = "whole"
  /\ UNCHANGED failed

BundleChanged ==
  /\ host = "serve" /\ bundle = "whole"
  /\ bundle' = "changed"
  /\ UNCHANGED <<sessionVars, scriptVars, report>>

(* serve_bundle compares what it will serve; then QEMU is started. *)
ServeBundle ==
  /\ host = "serve"
  /\ IF bundle = "whole"
     THEN host' = "expect" /\ qemu' = "running" /\ UNCHANGED failed
     ELSE host' = "closed" /\ failed' = TRUE /\ UNCHANGED qemu
  /\ UNCHANGED <<step, console, lines, busy, ran, scriptVars, bundle, report>>

(* main *)
ImportReport ==
  /\ host = "closed" /\ report = "nothing"
  /\ report' = IF failed THEN "refused" ELSE "ready"
  /\ UNCHANGED <<sessionVars, scriptVars, bundle>>

ImportAgain ==
  /\ host = "closed" /\ report # "nothing"
  /\ host' = "check" /\ step' = 1 /\ failed' = FALSE /\ busy' = Booting
  /\ qemu' = "off" /\ ran' = {} /\ console' = <<>> /\ lines' = <<>>
  /\ bundle' = "none" /\ report' = "nothing" /\ signalled' = FALSE
  /\ UNCHANGED <<shell, archive, stage, dest, safe, disk>>

ImportHost ==
  \/ ImportRefused \/ CheckedRuntime \/ BuildBundle \/ BundleChanged \/ ServeBundle
  \/ ImportReport \/ ImportAgain

-----------------------------------------------------------------------------
(* The session's steps, and what they do to the guest's disk. *)

GuestEnds == IF qemu' = "exit" THEN Unmounted ELSE PowerLost

ImportConversation ==
  /\ SessionNext
  /\ busy = Script /\ busy' = Idle =>
       sh = "ended" /\ <<Script, code>> \in ran'
  /\ IF qemu = "running" /\ qemu' # "running" THEN GuestEnds
     ELSE IF busy # Script /\ busy' = Script THEN ScriptStarts
     ELSE UNCHANGED scriptVars
  /\ UNCHANGED <<bundle, report>>

ImportWork ==
  /\ qemu = "running"
  /\ ScriptStep \/ Appears
  /\ UNCHANGED <<sessionVars, bundle, report>>

ImportNext == ImportHost \/ ImportConversation \/ ImportWork

ImportSpec == ImportInit /\ [][ImportNext]_importVars

-----------------------------------------------------------------------------

Destination == INSTANCE CreateOnce WITH
  path <- disk, told <- [p \in {"import"} |-> report],
  Process <- {"import"}, Whole <- {"whole"}, Own <- FALSE

(* Whatever fails, is signalled, dies or loses power, and however often the  *)
(* import is tried again, the disk gets the whole import at once or nothing, *)
(* never in place of what somebody else put there, and success is reported   *)
(* only when the destination exists (import_script's sync, mv -nT, sync).    *)
ImportCreatedOnce == Destination!OnceSpec

(* "Legacy files are available inside Nixodria" (main): unless a signal came *)
(* in, the report means that these files are at the destination, all of      *)
(* them, and that they outlive a power loss.                                 *)
ImportedMeansThere == report = "ready" /\ ~signalled => disk = Imported("whole")

(* However the script ends, on its own, on a failure or through signals,     *)
(* neither its archive nor its staging directory is left in the guest.       *)
NothingLeftBehind == sh = "ended" => archive = "none" /\ stage = "none"

=============================================================================
