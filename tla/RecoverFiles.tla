-------------------------- MODULE RecoverFiles --------------------------
(***************************************************************************)
(* export_files of tools/export_legacy_files.py: the saved files of a      *)
(* legacy image go, one after the other, into a directory that the export  *)
(* itself makes.  A call may raise and Ctrl-C may come between any two of  *)
(* them, also between making a file and noting that it was made; then the  *)
(* export removes what it noted.  The process may be killed.  Others make  *)
(* files in the directory, or have it there already.                       *)
(***************************************************************************)
EXTENDS Naturals, FiniteSets

CONSTANT SavedFiles  \* the image's files are 1 .. SavedFiles, 0 is another name

ASSUME RecoverAssumption == SavedFiles \in Nat

VARIABLES
  doing,    \* the export's next call, or how it ended
  folder,   \* the destination: "none", or a directory, "ours" or "theirs"
  entries,  \* for each name: "absent", "theirs", or ours: "empty", "part", "whole"
  nth,      \* the file being written
  made,     \* created
  opened,   \* directory is not None
  written   \* the files the export has noted

outside == <<folder, entries>>
noted == <<made, opened, written>>
recoverVars == <<doing, outside, nth, noted>>

FileName == 0 .. SavedFiles
Ours == {"empty", "part", "whole"}
Empty == [f \in FileName |-> "absent"]

Ended == {"failed", "copied", "killed"}
InTry == {"mkdir", "created", "open", "file", "record", "write", "flush", "sync"}

RecoverInit ==
  /\ doing = "read" /\ folder \in {"none", "theirs"}
  /\ entries \in {Empty} \cup IF folder = "theirs" THEN {[Empty EXCEPT ![0] = "theirs"]} ELSE {}
  /\ nth = 1 /\ made = FALSE /\ opened = FALSE /\ written = {}

-----------------------------------------------------------------------------

(* read_legacy_image and recover_files, then open_parent: they find what they *)
(* want or refuse, and change nothing.                                        *)
RecoverRead ==
  /\ doing = "read" /\ doing' \in {"parent", "failed"}
  /\ UNCHANGED <<outside, nth, noted>>

RecoverParent ==
  /\ doing = "parent" /\ doing' \in {"mkdir", "failed"}
  /\ UNCHANGED <<outside, nth, noted>>

(* Mutant: an existing directory will do. *)
RecoverMkdir_Exists ==
  /\ doing = "mkdir"
  /\ folder' = (IF folder = "none" THEN "ours" ELSE folder) /\ doing' = "created"
  /\ UNCHANGED <<entries, nth, noted>>

RecoverMkdir ==
  /\ doing = "mkdir" /\ folder = "none"
  /\ folder' = "ours" /\ doing' = "created"
  /\ UNCHANGED <<entries, nth, noted>>

RecoverCreated ==
  /\ doing = "created"
  /\ made' = TRUE /\ doing' = "open"
  /\ UNCHANGED <<outside, nth, opened, written>>

RecoverOpen ==
  /\ doing = "open"
  /\ opened' = TRUE /\ doing' = "file"
  /\ UNCHANGED <<outside, nth, made, written>>

FileCreate ==
  /\ doing = "file" /\ nth \in 1 .. SavedFiles /\ entries[nth] = "absent"
  /\ entries' = [entries EXCEPT ![nth] = "empty"] /\ doing' = "record"
  /\ UNCHANGED <<folder, nth, noted>>

(* Mutant: a file is noted when it has been written. *)
FileRecord_Late ==
  /\ doing = "record" /\ doing' = "write"
  /\ written' = written \cup {nth - 1}
  /\ UNCHANGED <<outside, nth, made, opened>>

FileRecord ==
  /\ doing = "record" /\ doing' = "write"
  /\ written' = written \cup {nth}
  /\ UNCHANGED <<outside, nth, made, opened>>

FileWrite ==
  /\ doing = "write"
  /\ entries' = [entries EXCEPT ![nth] = "part"] /\ doing' = "flush"
  /\ UNCHANGED <<folder, nth, noted>>

FileFlush ==
  /\ doing = "flush"
  /\ entries' = [entries EXCEPT ![nth] = "whole"]
  /\ nth' = nth + 1 /\ doing' = "file"
  /\ UNCHANGED <<folder, noted>>

RecoverSync ==
  /\ doing = "file" /\ nth > SavedFiles
  /\ doing' = "sync"
  /\ UNCHANGED <<outside, nth, noted>>

RecoverDone ==
  /\ doing = "sync"
  /\ doing' = "copied"
  /\ UNCHANGED <<outside, nth, noted>>

-----------------------------------------------------------------------------

(* A call raises, or Ctrl-C. *)
RecoverRaise ==
  /\ doing \in InTry
  /\ doing' = "unlink"
  /\ UNCHANGED <<outside, nth, noted>>

RecoverUnlink ==
  /\ doing = "unlink"
  /\ entries' = [f \in FileName |->
                   IF opened /\ f \in written THEN "absent" ELSE entries[f]]
  /\ doing' = "rmdir"
  /\ UNCHANGED <<folder, nth, noted>>

RecoverRmdir ==
  /\ doing = "rmdir"
  /\ folder' = IF made /\ entries = Empty THEN "none" ELSE folder
  /\ doing' = "failed"
  /\ UNCHANGED <<entries, nth, noted>>

RecoverKill ==
  /\ doing \notin Ended
  /\ doing' = "killed"
  /\ UNCHANGED <<outside, nth, noted>>

RecoverStep ==
  \/ RecoverRead \/ RecoverParent \/ RecoverMkdir \/ RecoverCreated \/ RecoverOpen
  \/ FileCreate \/ FileRecord \/ FileWrite \/ FileFlush \/ RecoverSync \/ RecoverDone
  \/ RecoverRaise \/ RecoverUnlink \/ RecoverRmdir \/ RecoverKill

(* Others make the directory, or a file in it. *)
OthersMake ==
  /\ IF folder # "none"
     THEN /\ \E f \in FileName :
               entries[f] = "absent" /\ entries' = [entries EXCEPT ![f] = "theirs"]
          /\ UNCHANGED folder
     ELSE folder' = "theirs" /\ UNCHANGED entries
  /\ UNCHANGED <<doing, nth, noted>>

(* The next export finds what this one left and did not make it. *)
RecoverAgain ==
  /\ doing \in Ended
  /\ doing' = "read" /\ nth' = 1
  /\ made' = FALSE /\ opened' = FALSE /\ written' = {}
  /\ folder' = IF folder = "ours" THEN "theirs" ELSE folder
  /\ entries' = [f \in FileName |-> IF entries[f] \in Ours THEN "theirs" ELSE entries[f]]

RecoverNext == RecoverStep \/ OthersMake \/ RecoverAgain

RecoverSpec == RecoverInit /\ [][RecoverNext]_recoverVars

-----------------------------------------------------------------------------

(* "copied": every saved file is in the directory, whole and the export's    *)
(* own.  "failed": at most one file of the export is left, the one it had    *)
(* made and not yet noted when Ctrl-C came, and nothing is in that file.     *)
ExportedMeansWhole ==
  /\ doing = "copied" => folder = "ours" /\ \A f \in 1 .. SavedFiles : entries[f] = "whole"
  /\ doing = "failed" =>
       LET left == {f \in FileName : entries[f] \in Ours}
       IN  Cardinality(left) <= 1 /\ \A f \in left : entries[f] = "empty"

(* "existing paths are untouched": what the export did not make, a directory *)
(* that was there or files others make in its own one, survives every step   *)
(* of the export and of its cleanup ("Only remove files created by this      *)
(* invocation in its newly created directory").                              *)
OthersKept ==
  [][/\ folder = "theirs" => folder' = "theirs"
     /\ folder' = "none" => \A f \in FileName : entries[f] # "theirs"
     /\ \A f \in FileName : entries[f] = "theirs" => entries'[f] = "theirs"]_recoverVars

=============================================================================
