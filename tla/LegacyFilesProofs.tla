------------------------ MODULE LegacyFilesProofs ------------------------
(***************************************************************************)
(* What the host's tools promise about the files that a user has saved on  *)
(* a legacy floppy.                                                        *)
(*                                                                         *)
(* The export copies them whole and touches nobody else's (RecoverFiles),  *)
(* for any number of files.  The refresh of the runtime image loses none   *)
(* of them (RuntimePrepare), for any number of saves, as long as no image  *)
(* is prepared under a machine that is running.                            *)
(*                                                                         *)
(* The import puts them on the guest's disk (LegacyImport).  It is a       *)
(* conversation with the guest, for any number of prompts and commands: as *)
(* long as no exception is on its way, the two sides are in lock step, one *)
(* line is under way, everything before it was carried out with status 0,  *)
(* and the console holds nothing but that line's echo and its answer.  The *)
(* last command is the import script: that the script ended with status 0  *)
(* says what is on the disk, and that the conversation ended well says     *)
(* that it did.                                                            *)
(***************************************************************************)
EXTENDS RecoverFiles, RuntimePrepare, LegacyImport, Integers, FiniteSetTheorems, SequenceTheorems,
        TLAPS

-----------------------------------------------------------------------------
(* The export and the refresh. *)

Before == {"read", "parent", "mkdir"}
Opening == {"created", "open"}
Copying == {"file", "record", "write", "flush", "sync", "copied"}
Removed == {"rmdir", "failed"}

RecoverTypeOK ==
  /\ doing \in Before \cup Opening \cup Copying \cup Removed \cup {"unlink", "killed"}
  /\ folder \in {"none", "ours", "theirs"}
  /\ entries \in [FileName -> {"absent", "theirs"} \cup Ours]
  /\ nth \in 1 .. SavedFiles + 1
  /\ made \in BOOLEAN /\ opened \in BOOLEAN
  /\ written \subseteq FileName

(* Whose the directory is, and that nothing is in none.  *)
FolderIsOurs ==
  /\ folder = "none" => \A f \in FileName : entries[f] = "absent"
  /\ folder # "ours" => \A f \in FileName : entries[f] \notin Ours
  /\ doing \in Before => folder # "ours" /\ ~made /\ ~opened /\ written = {} /\ nth = 1
  /\ doing \in Opening => (\A f \in FileName : entries[f] \notin Ours) /\ written = {} /\ nth = 1
  /\ doing \in Opening \cup Copying => folder = "ours"
  /\ doing \in Copying => opened
  /\ made /\ doing # "failed" => folder = "ours"

(* What is noted is the export's own; what is not is the one empty file.     *)
NotedIsOurs ==
  /\ doing \notin Removed \cup {"killed"} =>
       \A f \in FileName :
         /\ f \in written => entries[f] \in Ours
         /\ entries[f] \in Ours /\ f \notin written => f = nth /\ entries[f] = "empty"
         /\ entries[f] \in Ours => opened
  /\ doing \in Removed => \A f \in FileName : entries[f] \in Ours => f = nth /\ entries[f] = "empty"

WrittenWhole ==
  /\ doing \in Copying => \A f \in 1 .. nth - 1 : entries[f] = "whole"
  /\ doing \in {"record", "write", "flush"} => nth \in 1 .. SavedFiles
  /\ doing \in {"write", "flush"} => nth \in written
  /\ doing = "record" => entries[nth] = "empty"
  /\ doing \in {"sync", "copied"} => nth > SavedFiles

RecoverInv == RecoverTypeOK /\ FolderIsOurs /\ NotedIsOurs /\ WrittenWhole

-----------------------------------------------------------------------------

LEMMA NamesOfFiles ==
  /\ SavedFiles \in Nat /\ 0 \in FileName /\ 1 .. SavedFiles \subseteq FileName
  /\ \A f \in FileName : f \in Int
BY RecoverAssumption DEF FileName

LEMMA RecoverInitial == RecoverInit => RecoverInv
<1>. SUFFICES ASSUME RecoverInit PROVE RecoverInv
  OBVIOUS
<1>. USE NamesOfFiles
<1>1. /\ doing = "read" /\ folder \in {"none", "theirs"} /\ nth = 1 /\ ~made /\ ~opened /\ written = {}
      /\ made \in BOOLEAN /\ opened \in BOOLEAN
  BY DEF RecoverInit
<1>2. /\ entries \in [FileName -> {"absent", "theirs"}]
      /\ folder = "none" => \A f \in FileName : entries[f] = "absent"
  BY DEF RecoverInit, Empty
<1>3. \A f \in FileName : entries[f] \notin Ours
  BY <1>2 DEF Ours
<1>4. RecoverTypeOK
  BY <1>1, <1>2 DEF RecoverTypeOK, Before
<1>5. FolderIsOurs
  BY <1>1, <1>2, <1>3 DEF FolderIsOurs, Before, Opening, Copying
<1>6. NotedIsOurs /\ WrittenWhole
  BY <1>1, <1>3 DEF NotedIsOurs, WrittenWhole, Copying, Removed
<1>. QED BY <1>4, <1>5, <1>6 DEF RecoverInv

(* The calls of the export that leave the directory alone, and how it ends.  *)
LEMMA RecoverGoes ==
  ASSUME RecoverInv, UNCHANGED <<folder, entries, nth>>,
         \/ RecoverRead \/ RecoverParent \/ RecoverCreated \/ RecoverOpen \/ FileRecord
         \/ RecoverSync \/ RecoverDone \/ RecoverRaise \/ RecoverKill
  PROVE  RecoverInv'
<1>. USE NamesOfFiles DEF RecoverInv
<1>1. CASE RecoverRead \/ RecoverParent
  <2>1. /\ doing \in Before /\ doing' \in Before \cup {"failed"} /\ UNCHANGED <<made, opened, written>>
    BY <1>1 DEF RecoverRead, RecoverParent, noted, Before
  <2>2. /\ \A f \in FileName : entries[f] \notin Ours
        /\ folder # "ours" /\ ~made /\ ~opened /\ written = {} /\ nth = 1
    BY <2>1 DEF FolderIsOurs
  <2>3. RecoverTypeOK'
    BY <2>1 DEF RecoverTypeOK, Removed
  <2>4. FolderIsOurs'
    BY <2>1, <2>2 DEF FolderIsOurs, Before, Opening, Copying
  <2>5. NotedIsOurs' /\ WrittenWhole'
    BY <2>1, <2>2 DEF NotedIsOurs, WrittenWhole, Before, Copying, Removed
  <2>. QED BY <2>3, <2>4, <2>5
<1>2. CASE RecoverCreated \/ RecoverOpen
  <2>1. /\ doing \in Opening /\ doing' \in {"open", "file"} /\ written' = written
        /\ made' \in BOOLEAN /\ opened' \in BOOLEAN /\ (doing' = "file" => opened')
    BY <1>2 DEF RecoverCreated, RecoverOpen, RecoverTypeOK, Opening
  <2>2. (\A f \in FileName : entries[f] \notin Ours) /\ written = {} /\ nth = 1 /\ folder = "ours"
    BY <2>1 DEF FolderIsOurs
  <2>3. RecoverTypeOK'
    BY <2>1 DEF RecoverTypeOK, Opening, Copying
  <2>4. FolderIsOurs'
    BY <2>1, <2>2 DEF FolderIsOurs, Before, Opening, Copying
  <2>5. NotedIsOurs' /\ WrittenWhole'
    BY <2>1, <2>2 DEF NotedIsOurs, WrittenWhole, Copying, Removed
  <2>. QED BY <2>3, <2>4, <2>5
<1>3. CASE FileRecord
  BY <1>3 DEF FileRecord, outside, RecoverTypeOK, FolderIsOurs, NotedIsOurs, WrittenWhole, Ours,
     Before, Opening, Copying, Removed
<1>4. CASE RecoverSync \/ RecoverDone
  BY <1>4 DEF RecoverSync, RecoverDone, outside, noted, RecoverTypeOK, FolderIsOurs, NotedIsOurs, WrittenWhole,
     Before, Opening, Copying, Removed
<1>5. CASE RecoverRaise
  <2>1. doing \in InTry /\ doing' = "unlink" /\ UNCHANGED <<made, opened, written>>
    BY <1>5 DEF RecoverRaise, noted
  <2>2. doing \notin Removed \cup {"killed"} /\ doing # "failed"
    BY <2>1 DEF InTry, Removed
  <2>3. RecoverTypeOK'
    BY <2>1 DEF RecoverTypeOK
  <2>4. FolderIsOurs' /\ WrittenWhole'
    BY <2>1, <2>2 DEF FolderIsOurs, WrittenWhole, Before, Opening, Copying
  <2>5. NotedIsOurs'
    BY <2>1, <2>2 DEF NotedIsOurs, Removed
  <2>. QED BY <2>3, <2>4, <2>5
<1>6. CASE RecoverKill
  <2>1. doing \notin Ended /\ doing' = "killed" /\ UNCHANGED <<made, opened, written>>
    BY <1>6 DEF RecoverKill, noted
  <2>2. RecoverTypeOK' /\ NotedIsOurs' /\ WrittenWhole'
    BY <2>1 DEF RecoverTypeOK, NotedIsOurs, WrittenWhole, Copying, Removed
  <2>3. FolderIsOurs'
    BY <2>1 DEF FolderIsOurs, Before, Opening, Copying, Ended
  <2>. QED BY <2>2, <2>3
<1>. QED BY <1>1, <1>2, <1>3, <1>4, <1>5, <1>6

(* The calls that change the directory or a file in it.                      *)
LEMMA RecoverChanges ==
  ASSUME RecoverInv,
         \/ RecoverMkdir \/ FileCreate \/ FileWrite \/ FileFlush \/ RecoverUnlink \/ RecoverRmdir
  PROVE  RecoverInv'
<1>. USE NamesOfFiles DEF RecoverInv
<1>1. CASE RecoverMkdir
  BY <1>1 DEF RecoverMkdir, noted, RecoverTypeOK, FolderIsOurs, NotedIsOurs, WrittenWhole,
     Before, Opening, Copying, Removed
<1>2. CASE FileCreate
  <2>1. /\ doing = "file" /\ doing' = "record" /\ nth \in 1 .. SavedFiles /\ nth \in FileName
        /\ entries[nth] = "absent" /\ entries' = [entries EXCEPT ![nth] = "empty"]
        /\ UNCHANGED <<folder, nth, made, opened, written>>
    BY <1>2 DEF FileCreate, noted
  <2>2. entries' \in [FileName -> {"absent", "theirs"} \cup Ours] /\ entries'[nth] = "empty"
        /\ \A f \in FileName \ {nth} : entries'[f] = entries[f]
    BY <2>1 DEF RecoverTypeOK, Ours
  <2>3. RecoverTypeOK'
    BY <2>1, <2>2 DEF RecoverTypeOK, Copying
  <2>4. FolderIsOurs'
    BY <2>1, <2>2 DEF FolderIsOurs, Before, Opening, Copying
  <2>5. NotedIsOurs'
    BY <2>1, <2>2 DEF NotedIsOurs, FolderIsOurs, Removed, Copying, Ours
  <2>6. WrittenWhole'
    BY <2>1, <2>2 DEF WrittenWhole, Copying
  <2>. QED BY <2>3, <2>4, <2>5, <2>6
<1>3. CASE FileWrite
  <2>1. /\ doing = "write" /\ doing' = "flush" /\ nth \in 1 .. SavedFiles /\ nth \in FileName /\ nth \in written
        /\ entries' = [entries EXCEPT ![nth] = "part"] /\ UNCHANGED <<folder, nth, made, opened, written>>
    BY <1>3 DEF FileWrite, noted, WrittenWhole
  <2>2. entries' \in [FileName -> {"absent", "theirs"} \cup Ours] /\ entries'[nth] = "part"
        /\ \A f \in FileName \ {nth} : entries'[f] = entries[f]
    BY <2>1 DEF RecoverTypeOK, Ours
  <2>3. RecoverTypeOK'
    BY <2>1, <2>2 DEF RecoverTypeOK, Copying
  <2>4. FolderIsOurs'
    BY <2>1, <2>2 DEF FolderIsOurs, Before, Opening, Copying
  <2>5. NotedIsOurs'
    BY <2>1, <2>2 DEF NotedIsOurs, FolderIsOurs, Removed, Copying, Ours
  <2>6. WrittenWhole'
    BY <2>1, <2>2 DEF WrittenWhole, Copying
  <2>. QED BY <2>3, <2>4, <2>5, <2>6
<1>4. CASE FileFlush
  <2>1. /\ doing = "flush" /\ doing' = "file" /\ nth \in 1 .. SavedFiles /\ nth \in FileName /\ nth \in written
        /\ entries' = [entries EXCEPT ![nth] = "whole"] /\ nth' = nth + 1
        /\ UNCHANGED <<folder, made, opened, written>>
    BY <1>4 DEF FileFlush, noted, WrittenWhole
  <2>2. entries' \in [FileName -> {"absent", "theirs"} \cup Ours] /\ entries'[nth] = "whole"
        /\ \A f \in FileName \ {nth} : entries'[f] = entries[f]
    BY <2>1 DEF RecoverTypeOK, Ours
  <2>3. RecoverTypeOK'
    BY <2>1, <2>2 DEF RecoverTypeOK, Copying
  <2>4. FolderIsOurs'
    BY <2>1, <2>2 DEF FolderIsOurs, Before, Opening, Copying
  <2>5. NotedIsOurs'
    BY <2>1, <2>2 DEF NotedIsOurs, FolderIsOurs, Removed, Copying, Ours
  <2>6. WrittenWhole'
    BY <2>1, <2>2 DEF WrittenWhole, Copying
  <2>. QED BY <2>3, <2>4, <2>5, <2>6
<1>5. CASE RecoverUnlink
  <2>1. /\ doing = "unlink" /\ doing' = "rmdir" /\ UNCHANGED <<folder, nth, made, opened, written>>
        /\ entries' = [f \in FileName |-> IF opened /\ f \in written THEN "absent" ELSE entries[f]]
    BY <1>5 DEF RecoverUnlink, noted
  <2>2. entries' \in [FileName -> {"absent", "theirs"} \cup Ours]
        /\ \A f \in FileName : entries'[f] = IF opened /\ f \in written THEN "absent" ELSE entries[f]
    BY <2>1 DEF RecoverTypeOK
  <2>3. RecoverTypeOK'
    BY <2>1, <2>2 DEF RecoverTypeOK, Removed
  <2>4. FolderIsOurs'
    BY <2>1, <2>2 DEF FolderIsOurs, Before, Opening, Copying, Ours
  <2>5. NotedIsOurs'
    BY <2>1, <2>2 DEF NotedIsOurs, Removed, Ours
  <2>6. WrittenWhole'
    BY <2>1, <2>2 DEF WrittenWhole, Copying
  <2>. QED BY <2>3, <2>4, <2>5, <2>6
<1>6. CASE RecoverRmdir
  <2>1. /\ doing = "rmdir" /\ doing' = "failed" /\ UNCHANGED <<entries, nth, made, opened, written>>
        /\ folder' = IF made /\ entries = Empty THEN "none" ELSE folder
    BY <1>6 DEF RecoverRmdir, noted
  <2>2. folder' = folder \/ (folder' = "none" /\ \A f \in FileName : entries[f] = "absent")
    BY <2>1 DEF Empty
  <2>3. RecoverTypeOK' /\ NotedIsOurs' /\ WrittenWhole'
    BY <2>1, <2>2 DEF RecoverTypeOK, NotedIsOurs, WrittenWhole, Removed, Copying
  <2>4. FolderIsOurs'
    BY <2>1, <2>2 DEF FolderIsOurs, Before, Opening, Copying, Ours
  <2>. QED BY <2>3, <2>4
<1>. QED BY <1>1, <1>2, <1>3, <1>4, <1>5, <1>6

LEMMA OthersKeepInv ==
  ASSUME RecoverInv, OthersMake PROVE RecoverInv'
<1>. USE NamesOfFiles DEF RecoverInv
<1>0. UNCHANGED <<doing, nth, made, opened, written>>
  BY DEF OthersMake, noted
<1>1. CASE folder # "none"
  <2>1. PICK g \in FileName : entries[g] = "absent" /\ entries' = [entries EXCEPT ![g] = "theirs"]
    BY <1>1 DEF OthersMake
  <2>2. folder' = folder
    BY <1>1 DEF OthersMake
  <2>3. /\ entries' \in [FileName -> {"absent", "theirs"} \cup Ours] /\ entries'[g] = "theirs"
        /\ \A f \in FileName \ {g} : entries'[f] = entries[f]
        /\ entries[g] \notin Ours /\ "theirs" \notin Ours /\ entries[g] # "whole" /\ entries[g] # "empty"
    BY <2>1 DEF RecoverTypeOK, Ours
  <2>4. RecoverTypeOK'
    BY <1>0, <2>2, <2>3 DEF RecoverTypeOK
  <2>5. FolderIsOurs'
    BY <1>0, <1>1, <2>2, <2>3 DEF FolderIsOurs
  <2>6. NotedIsOurs'
    BY <1>0, <2>3 DEF NotedIsOurs
  <2>7. WrittenWhole'
    <3>1. \A f \in 1 .. nth - 1 : f \in FileName
      BY DEF RecoverTypeOK, FileName
    <3>2. doing = "record" => nth \in FileName
      BY DEF WrittenWhole
    <3>. QED BY <1>0, <2>1, <2>3, <3>1, <3>2 DEF WrittenWhole
  <2>. QED BY <2>4, <2>5, <2>6, <2>7
<1>2. CASE folder = "none"
  <2>1. folder' = "theirs" /\ entries' = entries /\ \A f \in FileName : entries[f] \notin Ours
    BY <1>2 DEF OthersMake, FolderIsOurs
  <2>2. RecoverTypeOK' /\ NotedIsOurs' /\ WrittenWhole'
    BY <1>0, <2>1 DEF RecoverTypeOK, NotedIsOurs, WrittenWhole
  <2>3. FolderIsOurs'
    BY <1>0, <1>2, <2>1 DEF FolderIsOurs
  <2>. QED BY <2>2, <2>3
<1>. QED BY <1>1, <1>2

LEMMA AgainKeepsInv ==
  ASSUME RecoverInv, RecoverAgain PROVE RecoverInv'
<1>. USE NamesOfFiles DEF RecoverInv
<1>1. /\ doing' = "read" /\ nth' = 1 /\ ~made' /\ ~opened' /\ written' = {}
      /\ made' \in BOOLEAN /\ opened' \in BOOLEAN
      /\ folder' = IF folder = "ours" THEN "theirs" ELSE folder
      /\ entries' = [f \in FileName |-> IF entries[f] \in Ours THEN "theirs" ELSE entries[f]]
  BY DEF RecoverAgain
<1>2. /\ entries' \in [FileName -> {"absent", "theirs"}]
      /\ \A f \in FileName : entries'[f] = IF entries[f] \in Ours THEN "theirs" ELSE entries[f]
  BY <1>1 DEF RecoverTypeOK
<1>3. \A f \in FileName : entries'[f] \notin Ours
  BY <1>2 DEF Ours
<1>4. folder' = "none" => \A f \in FileName : entries'[f] = "absent"
  BY <1>1, <1>2 DEF FolderIsOurs, Ours
<1>5. RecoverTypeOK'
  BY <1>1, <1>2 DEF RecoverTypeOK, Before
<1>6. FolderIsOurs'
  BY <1>1, <1>3, <1>4 DEF FolderIsOurs, RecoverTypeOK, Before, Opening, Copying
<1>7. NotedIsOurs' /\ WrittenWhole'
  BY <1>1, <1>3 DEF NotedIsOurs, WrittenWhole, Copying, Removed
<1>. QED BY <1>5, <1>6, <1>7

LEMMA RecoverStepKeeps == RecoverInv /\ [RecoverNext]_recoverVars => RecoverInv'
<1>1. ASSUME RecoverInv, UNCHANGED recoverVars PROVE RecoverInv'
  BY <1>1 DEF recoverVars, outside, noted, RecoverInv, RecoverTypeOK, FolderIsOurs, NotedIsOurs, WrittenWhole
<1>2. ASSUME \/ RecoverRead \/ RecoverParent \/ RecoverCreated \/ RecoverOpen \/ FileRecord
             \/ RecoverSync \/ RecoverDone \/ RecoverRaise \/ RecoverKill
      PROVE  UNCHANGED <<folder, entries, nth>>
  BY <1>2 DEF RecoverRead, RecoverParent, RecoverCreated, RecoverOpen, FileRecord, RecoverSync, RecoverDone,
     RecoverRaise, RecoverKill, outside
<1>. QED
  BY <1>1, <1>2, RecoverGoes, RecoverChanges, OthersKeepInv, AgainKeepsInv DEF RecoverNext, RecoverStep

(* An export that reports success left every saved file whole in its own     *)
(* directory, and one that reports failure left at most one empty file       *)
(* there, for every number of files.                                         *)
THEOREM ExportedMeansWholeAlways == RecoverSpec => []ExportedMeansWhole
<1>1. ASSUME RecoverInv PROVE ExportedMeansWhole
  <2>1. ASSUME doing = "copied" PROVE folder = "ours" /\ \A f \in 1 .. SavedFiles : entries[f] = "whole"
    <3>1. 1 .. SavedFiles \subseteq 1 .. nth - 1
      BY <1>1, <2>1, NamesOfFiles DEF RecoverInv, WrittenWhole, RecoverTypeOK
    <3>. QED BY <1>1, <2>1, <3>1 DEF RecoverInv, WrittenWhole, FolderIsOurs, Copying
  <2>2. ASSUME doing = "failed"
        PROVE  LET left == {f \in FileName : entries[f] \in Ours}
               IN  Cardinality(left) <= 1 /\ \A f \in left : entries[f] = "empty"
    <3>. DEFINE left == {f \in FileName : entries[f] \in Ours}
    <3>1. \A f \in left : f = nth /\ entries[f] = "empty"
      BY <1>1, <2>2 DEF RecoverInv, NotedIsOurs, Removed
    <3>2. left = {} \/ left = {nth}
      BY <3>1
    <3>3. Cardinality({}) = 0 /\ Cardinality({nth}) = 1
      BY FS_EmptySet, FS_Singleton
    <3>. HIDE DEF left
    <3>4. Cardinality(left) <= 1
      BY <3>2, <3>3
    <3>. QED BY <3>1, <3>4 DEF left
  <2>. QED BY <2>1, <2>2 DEF ExportedMeansWhole
<1>. QED BY <1>1, RecoverInitial, RecoverStepKeeps, PTL DEF RecoverSpec

(* What the export did not make survives each of its steps, however often it *)
(* is tried and whoever makes files meanwhile, for every number of files.    *)
THEOREM OthersAreKept == RecoverSpec => OthersKept
<1>. DEFINE Kept ==
       /\ folder = "theirs" => folder' = "theirs"
       /\ folder' = "none" => \A f \in FileName : entries[f] # "theirs"
       /\ \A f \in FileName : entries[f] = "theirs" => entries'[f] = "theirs"
<1>1. ASSUME RecoverInv, [RecoverNext]_recoverVars PROVE [Kept]_recoverVars
  <2>. USE NamesOfFiles
  <2>. SUFFICES ASSUME RecoverNext PROVE Kept
    BY <1>1
  <2>0. folder = "none" => \A f \in FileName : entries[f] # "theirs"
    BY <1>1 DEF RecoverInv, FolderIsOurs
  <2>1. CASE \/ RecoverRead \/ RecoverParent \/ RecoverCreated \/ RecoverOpen \/ FileRecord
             \/ RecoverSync \/ RecoverDone \/ RecoverRaise \/ RecoverKill
    BY <2>0, <2>1 DEF RecoverRead, RecoverParent, RecoverCreated, RecoverOpen, FileRecord, RecoverSync, RecoverDone,
       RecoverRaise, RecoverKill, outside
  <2>2. CASE RecoverMkdir
    BY <2>2 DEF RecoverMkdir
  <2>3. CASE FileCreate
    BY <1>1, <2>0, <2>3 DEF FileCreate, RecoverInv, RecoverTypeOK
  <2>4. CASE FileWrite \/ FileFlush
    <3>1. nth \in FileName /\ folder' = folder /\ entries[nth] \in Ours
      BY <1>1, <2>4 DEF FileWrite, FileFlush, RecoverInv, WrittenWhole, NotedIsOurs, Removed
    <3>2. \A f \in FileName \ {nth} : entries'[f] = entries[f]
      BY <1>1, <2>4 DEF FileWrite, FileFlush, RecoverInv, RecoverTypeOK
    <3>3. entries[nth] # "theirs"
      BY <3>1 DEF Ours
    <3>. QED BY <2>0, <3>1, <3>2, <3>3
  <2>5. CASE RecoverUnlink
    <3>1. \A f \in written : entries[f] \in Ours
      BY <1>1, <2>5 DEF RecoverInv, RecoverTypeOK, NotedIsOurs, Removed, RecoverUnlink
    <3>2. folder' = folder /\ \A f \in FileName : entries'[f] = IF opened /\ f \in written THEN "absent" ELSE entries[f]
      BY <2>5 DEF RecoverUnlink
    <3>3. \A f \in written : entries[f] # "theirs"
      BY <3>1 DEF Ours
    <3>. QED BY <2>0, <3>2, <3>3
  <2>6. CASE RecoverRmdir
    <3>1. /\ doing = "rmdir" /\ entries' = entries
          /\ folder' = IF made /\ entries = Empty THEN "none" ELSE folder
      BY <2>6 DEF RecoverRmdir
    <3>2. made => folder = "ours"
      BY <1>1, <3>1 DEF RecoverInv, FolderIsOurs
    <3>3. entries = Empty => \A f \in FileName : entries[f] # "theirs"
      BY DEF Empty
    <3>. QED BY <2>0, <3>1, <3>2, <3>3
  <2>7. CASE OthersMake
    BY <1>1, <2>0, <2>7 DEF OthersMake, RecoverInv, RecoverTypeOK
  <2>8. CASE RecoverAgain
    <3>1. /\ folder' = IF folder = "ours" THEN "theirs" ELSE folder
          /\ \A f \in FileName : entries'[f] = IF entries[f] \in Ours THEN "theirs" ELSE entries[f]
      BY <2>8 DEF RecoverAgain
    <3>. QED BY <2>0, <3>1
  <2>. QED BY <2>1, <2>2, <2>3, <2>4, <2>5, <2>6, <2>7, <2>8 DEF RecoverNext, RecoverStep
<1>. HIDE DEF Kept
<1>2. RecoverSpec => [][Kept]_recoverVars
  BY <1>1, RecoverInitial, RecoverStepKeeps, PTL DEF RecoverSpec
<1>. QED BY <1>2 DEF OthersKept, Kept

-----------------------------------------------------------------------------
(* RuntimePrepare with no image prepared under a running machine. *)

AnyTemplate == Editions \cup {"none", "short"}
FloppyRecord == [layout : {"old", "new"}, system : AnyTemplate, slotA : Int, slotB : Int]
AnyFloppy == {NoFloppy, BadFloppy} \cup FloppyRecord

PrepareTypeOK ==
  /\ template \in AnyTemplate
  /\ floppy \in AnyFloppy /\ drive \in AnyFloppy
  /\ machine \in {"off", "on", "saving"} /\ shared \in BOOLEAN /\ saved \in Nat
  /\ preparing \in PrepareEnded \cup {"read", "combine", "replace"}
  /\ read \in [template : AnyTemplate, floppy : AnyFloppy]

(* The newest slot is the last save that was reported; a slot that is torn   *)
(* or older is the other one.                                                *)
NewestIsSaved == (saved > 0 => floppy \in FloppyRecord) /\ (floppy \in FloppyRecord => Newest(floppy) = saved)

(* A machine works on the image at the path, and nothing is prepared then;   *)
(* what was read is what will be replaced.                                   *)
OneAtATime ==
  /\ shared <=> machine # "off"
  /\ shared => floppy \in FloppyRecord
  /\ machine # "off" => preparing \in PrepareEnded
  /\ preparing \in {"combine", "replace"} => read.floppy = floppy /\ floppy # BadFloppy

PrepareInv == PrepareTypeOK /\ NewestIsSaved /\ OneAtATime

(* Both layouts are floppies, and nothing else is. *)
LEMMA FloppyForms ==
  /\ NoFloppy \notin FloppyRecord /\ BadFloppy \notin FloppyRecord
  /\ \A l \in {"old", "new"}, s \in AnyTemplate, a, b \in Int :
       LET i == Floppy(l, s, a, b)
       IN  i \in FloppyRecord /\ i.slotA = a /\ i.slotB = b
  /\ \A i \in FloppyRecord : i.slotA \in Int /\ i.slotB \in Int
BY DEF FloppyRecord, NoFloppy, BadFloppy, Floppy

(* A save overwrites the slot that does not hold the newest one.             *)
LEMMA OlderSlot ==
  ASSUME NEW i \in FloppyRecord, NEW v \in Int
  PROVE  /\ InOlder(i, v) \in FloppyRecord
         /\ v <= Newest(i) => Newest(InOlder(i, v)) = Newest(i)
         /\ v >= Newest(i) => Newest(InOlder(i, v)) = v
<1>1. CASE i.slotA >= i.slotB
  <2>1. /\ InOlder(i, v) \in FloppyRecord
        /\ InOlder(i, v).slotA = i.slotA /\ InOlder(i, v).slotB = v
    BY <1>1 DEF InOlder, FloppyRecord
  <2>2. Newest(i) = i.slotA
    BY <1>1, FloppyForms DEF Newest
  <2>. QED BY <1>1, <2>1, <2>2, FloppyForms DEF Newest
<1>2. CASE ~ (i.slotA >= i.slotB)
  <2>1. /\ InOlder(i, v) \in FloppyRecord
        /\ InOlder(i, v).slotB = i.slotB /\ InOlder(i, v).slotA = v
    BY <1>2 DEF InOlder, FloppyRecord
  <2>2. Newest(i) = i.slotB
    BY <1>2, FloppyForms DEF Newest
  <2>. QED BY <1>2, <2>1, <2>2, FloppyForms DEF Newest
<1>. QED BY <1>1, <1>2

(* The refreshed image has both slots of the old one, or two blank ones.     *)
LEMMA CombinedKeepsSlots ==
  ASSUME read \in [template : AnyTemplate, floppy : AnyFloppy], read.floppy # BadFloppy
  PROVE  /\ Combined \in FloppyRecord
         /\ read.floppy = NoFloppy => Newest(Combined) = 0
         /\ read.floppy # NoFloppy => read.floppy \in FloppyRecord /\ Newest(Combined) = Newest(read.floppy)
<1>1. read.template \in AnyTemplate /\ read.floppy \in AnyFloppy
  OBVIOUS
<1>2. CASE read.floppy = NoFloppy
  BY <1>1, <1>2, FloppyForms DEF Combined, Newest, Unused
<1>3. CASE read.floppy # NoFloppy
  <2>1. read.floppy \in FloppyRecord
    BY <1>1, <1>3 DEF AnyFloppy
  <2>2. Combined = Floppy("new", read.template, read.floppy.slotA, read.floppy.slotB)
    BY <1>3 DEF Combined
  <2>. QED BY <1>1, <1>3, <2>1, <2>2, FloppyForms DEF Newest
<1>. QED BY <1>2, <1>3

LEMMA PrepareInitial == PrepareInit => PrepareInv
<1>. SUFFICES ASSUME PrepareInit PROVE PrepareInv
  OBVIOUS
<1>1. /\ template \in AnyTemplate /\ machine = "off" /\ shared = FALSE /\ drive = NoFloppy
      /\ preparing = "idle" /\ read = [template |-> "none", floppy |-> NoFloppy]
      /\ saved = IF floppy \in {NoFloppy, BadFloppy} THEN 0 ELSE 1
  BY DEF PrepareInit, AnyTemplate
<1>2. PICK s \in Editions :
        floppy \in {NoFloppy, BadFloppy, Floppy("old", s, 1, Unused), Floppy("new", s, Unused, 1)}
  BY DEF PrepareInit
<1>3. floppy \in AnyFloppy /\ (floppy \in FloppyRecord => Newest(floppy) = 1)
  BY <1>2, FloppyForms DEF AnyFloppy, AnyTemplate, Newest, Unused
<1>4. PrepareTypeOK
  BY <1>1, <1>3 DEF PrepareTypeOK, AnyFloppy, AnyTemplate, PrepareEnded
<1>5. NewestIsSaved
  BY <1>1, <1>3, FloppyForms DEF NewestIsSaved, AnyFloppy
<1>6. OneAtATime
  BY <1>1 DEF OneAtATime, PrepareEnded
<1>. QED BY <1>4, <1>5, <1>6 DEF PrepareInv

LEMMA PrepareStepKeeps == ~Overlap /\ PrepareInv /\ [PrepareNext]_prepareVars => PrepareInv'
<1>. SUFFICES ASSUME ~Overlap, PrepareInv, [PrepareNext]_prepareVars PROVE PrepareInv'
  OBVIOUS
<1>. USE DEF PrepareInv
<1>0. /\ read.template \in AnyTemplate /\ read.floppy \in AnyFloppy
      /\ floppy \in FloppyRecord => floppy \notin {NoFloppy, BadFloppy}
      /\ floppy \notin {NoFloppy, BadFloppy} => floppy \in FloppyRecord
  BY FloppyForms DEF PrepareTypeOK, AnyFloppy
<1>1. CASE PrepareTemplate \/ PrepareRead
  <2>1. /\ UNCHANGED <<template, floppy, machine, drive, shared, saved>>
        /\ machine = "off"
        /\ \/ preparing' = "refused" /\ read' = read
           \/ preparing' = "read" /\ read' = [read EXCEPT !.template = template]
           \/ preparing' = "combine" /\ read' = [read EXCEPT !.floppy = floppy] /\ floppy # BadFloppy
    BY <1>1 DEF PrepareTemplate, PrepareRead, userVars, OneAtATime, PrepareEnded
  <2>2. /\ read' \in [template : AnyTemplate, floppy : AnyFloppy]
        /\ preparing' = "combine" => read'.floppy = floppy
    BY <2>1 DEF PrepareTypeOK
  <2>3. PrepareTypeOK'
    BY <2>1, <2>2 DEF PrepareTypeOK, PrepareEnded
  <2>4. NewestIsSaved' /\ OneAtATime'
    BY <2>1, <2>2 DEF NewestIsSaved, OneAtATime
  <2>. QED BY <2>3, <2>4
<1>2. CASE PrepareCombine \/ PrepareFails
  <2>1. /\ UNCHANGED <<template, floppy, machine, drive, shared, saved, read>>
        /\ preparing \notin PrepareEnded
        /\ preparing' \in PrepareEnded \/ (preparing' = "replace" /\ preparing = "combine")
    BY <1>2 DEF PrepareCombine, PrepareFails, userVars, PrepareEnded
  <2>. QED BY <2>1 DEF PrepareTypeOK, NewestIsSaved, OneAtATime, PrepareEnded
<1>3. CASE PrepareReplace
  <2>1. /\ preparing = "replace" /\ preparing' = "ready" /\ floppy' = Combined /\ shared' = FALSE
        /\ drive' = IF shared THEN floppy ELSE drive
        /\ UNCHANGED <<template, machine, saved, read>>
    BY <1>3 DEF PrepareReplace
  <2>2. machine = "off" /\ ~shared /\ read.floppy = floppy /\ floppy # BadFloppy
    BY <2>1 DEF OneAtATime, PrepareEnded
  <2>3. Combined \in FloppyRecord /\ Newest(Combined) = saved
    <3>1. CASE floppy = NoFloppy
      <4>1. saved = 0
        BY <1>0, <3>1, FloppyForms DEF NewestIsSaved, PrepareTypeOK
      <4>. QED BY <2>2, <3>1, <4>1, CombinedKeepsSlots DEF PrepareTypeOK
    <3>2. CASE floppy # NoFloppy
      BY <1>0, <2>2, <3>2, CombinedKeepsSlots DEF NewestIsSaved, PrepareTypeOK
    <3>. QED BY <3>1, <3>2
  <2>4. PrepareTypeOK'
    BY <2>1, <2>2, <2>3 DEF PrepareTypeOK, PrepareEnded, AnyFloppy
  <2>5. NewestIsSaved' /\ OneAtATime'
    BY <2>1, <2>2, <2>3 DEF NewestIsSaved, OneAtATime, PrepareEnded
  <2>. QED BY <2>4, <2>5
<1>4. CASE TemplateBuilt
  BY <1>4 DEF TemplateBuilt, userVars, PrepareTypeOK, AnyTemplate, NewestIsSaved, OneAtATime
<1>5. CASE MachineBoot \/ MachineStop
  <2>1. /\ UNCHANGED <<template, floppy, saved, preparing, read>> /\ drive' = NoFloppy
        /\ \/ machine' = "on" /\ shared' = TRUE /\ preparing = "ready" /\ floppy \in FloppyRecord
           \/ machine' = "off" /\ shared' = FALSE
    BY <1>0, <1>5 DEF MachineBoot, MachineStop
  <2>. QED BY <2>1 DEF PrepareTypeOK, AnyFloppy, NewestIsSaved, OneAtATime, PrepareEnded
<1>6. CASE SaveStart \/ SaveEnd
  <2>1. shared /\ floppy \in FloppyRecord /\ machine # "off" /\ Newest(floppy) = saved /\ saved \in Nat
    BY <1>6 DEF SaveStart, SaveEnd, OneAtATime, NewestIsSaved, PrepareTypeOK
  <2>2. PICK v \in Int :
          /\ (v < saved /\ saved' = saved) \/ (v = saved + 1 /\ saved' = saved + 1)
          /\ floppy' = InOlder(floppy, v) /\ drive' = drive
    <3>1. CASE SaveStart
      <4>1. saved' = saved /\ floppy' = InOlder(floppy, -1) /\ drive' = drive
        BY <2>1, <3>1 DEF SaveStart, Writes, Drive, Torn
      <4>. QED BY <2>1, <4>1
    <3>2. CASE SaveEnd
      <4>1. saved' = saved + 1 /\ floppy' = InOlder(floppy, saved + 1) /\ drive' = drive
        BY <2>1, <3>2 DEF SaveEnd, Writes, Drive
      <4>. QED BY <2>1, <4>1
    <3>. QED BY <1>6, <3>1, <3>2
  <2>3. floppy' \in FloppyRecord /\ Newest(floppy') = saved'
    BY <2>1, <2>2, OlderSlot
  <2>4. machine' \in {"on", "saving"} /\ UNCHANGED <<template, shared, preparing, read>>
    BY <1>6 DEF SaveStart, SaveEnd
  <2>5. PrepareTypeOK'
    BY <2>1, <2>2, <2>3, <2>4 DEF PrepareTypeOK, AnyFloppy
  <2>6. NewestIsSaved'
    BY <2>3 DEF NewestIsSaved
  <2>7. OneAtATime'
    BY <2>1, <2>3, <2>4 DEF OneAtATime, PrepareEnded
  <2>. QED BY <2>5, <2>6, <2>7
<1>7. CASE UNCHANGED prepareVars
  BY <1>7 DEF prepareVars, userVars, PrepareTypeOK, NewestIsSaved, OneAtATime
<1>. QED BY <1>1, <1>2, <1>3, <1>4, <1>5, <1>6, <1>7 DEF PrepareNext

(* The last save that was reported is the newest one in the user's image     *)
(* through every refresh, failure and torn save, for any number of saves, if *)
(* no image is prepared while a machine runs.  With such a preparation it is *)
(* not so.                                                                   *)
THEOREM SavesKeptAlways ==
  ASSUME ~Overlap PROVE PrepareSpec => []SavesKept
<1>0. PrepareInv /\ [PrepareNext]_prepareVars => PrepareInv'
  BY PrepareStepKeeps
<1>1. PrepareInv => SavesKept
  BY FloppyForms DEF PrepareInv, NewestIsSaved, SavesKept
<1>. QED BY <1>0, <1>1, PrepareInitial, PTL DEF PrepareSpec

-----------------------------------------------------------------------------
(* The import. *)

(* The lines up to the n-th, each carried out with status 0. *)
Done(n) == (1 .. n) \X {0}

(* Where the line under way is.  *)
BootsFirst == step = 1 /\ busy = Booting /\ lines = <<>> /\ console = <<>> /\ ran = {}
Prompted == step = 1 /\ busy = Idle /\ lines = <<>> /\ console = <<Answer(1, 0)>> /\ ran = {}
Sent ==
  /\ step \in 2 .. PowerOff + 1
  /\ busy = Idle /\ lines = <<step - 1>> /\ console = <<>> /\ ran = Done(step - 2)
BeingRead ==
  /\ step \in 2 .. PowerOff + 1
  /\ busy = step - 1 /\ lines = <<>> /\ console = <<Echo(step - 1)>> /\ ran = Done(step - 2)
Answered(status) ==
  /\ step \in 2 .. PowerOff
  /\ busy = Idle /\ lines = <<>> /\ console = <<Echo(step - 1), Answer(step, status)>>
  /\ ran = Done(step - 2) \cup {<<step - 1, status>>}

(* The guest has powered itself off; poweroff is answered or it is not. *)
Halted ==
  /\ step = PowerOff + 1 /\ qemu = "exit" /\ ran = Done(PowerOff)
  /\ console \in {<<>>, <<Echo(PowerOff)>>, <<Echo(PowerOff), Answer(PowerOff + 1, 0)>>}

InTurn ==
  \/ /\ host = "expect" /\ qemu \in {"running", "died"}
     /\ BootsFirst \/ Prompted \/ Sent \/ BeingRead \/ \E status \in {0, 1} : Answered(status)
  \/ host \in {"expect", "wait", "close", "closed"} /\ Halted

SessionInv ==
  /\ failed \in BOOLEAN
  /\ host = "raise" => failed
  /\ ~failed => InTurn
  /\ host = "closed" => qemu # "running"

-----------------------------------------------------------------------------

LEMMA SessionNumbers ==
  /\ Prompts \in Nat \ {0} /\ Commands \in Nat \ {0} /\ PowerOff \in Nat
  /\ PowerOff > Prompts /\ PowerOff >= 2 /\ Idle = PowerOff + 1 /\ Booting = 0
  /\ \A n \in Nat : IsCommand(n) <=> n >= Prompts /\ n < PowerOff
BY SessionAssumption DEF PowerOff, Idle, Booting, IsCommand

LEMMA Appended ==
  ASSUME NEW a, NEW b
  PROVE  Append(<<>>, a) = <<a>> /\ Append(<<a>>, b) = <<a, b>>
<1>0. Append(<<>>, a) = <<a>>
  OBVIOUS
<1>1. <<a>> \in Seq({a, b}) /\ b \in {a, b} /\ Len(<<a>>) = 1 /\ <<a>>[1] = a
  OBVIOUS
<1>. DEFINE s == Append(<<a>>, b)
            t == <<a, b>>
<1>2. s \in Seq({a, b}) /\ Len(s) = 2 /\ s[1] = a /\ s[2] = b
  BY <1>1
<1>3. t \in Seq({a, b}) /\ Len(t) = 2 /\ t[1] = a /\ t[2] = b
  OBVIOUS
<1>. HIDE DEF s, t
<1>4. \A i \in 1 .. Len(s) : s[i] = t[i]
  BY <1>2, <1>3
<1>5. s = t
  BY <1>2, <1>3, <1>4, SeqEqual
<1>. QED BY <1>0, <1>5 DEF s, t

LEMMA TokenKinds ==
  /\ \A n, s : Echo(n).kind = "echo" /\ Answer(n, s).kind # "echo" /\ Answer(n, s).status = s
  /\ \A n, s, t : Answer(n, s).kind = Answer(n, t).kind
BY DEF Echo, Answer

(* What is carried out next extends what was carried out with status 0. *)
LEMMA DoneGrows ==
  ASSUME NEW n \in Nat
  PROVE  Done(n) \cup {<<n + 1, 0>>} = Done(n + 1)
BY DEF Done

LEMMA SessionInitial == SessionInit => SessionInv
BY DEF SessionInit, SessionInv, InTurn, BootsFirst

(* What expect finds: nothing behind an echo alone, and else the answer,     *)
(* behind which nothing is left.                                             *)
LEMMA NothingFound == console \in {<<>>, <<Echo(step - 1)>>} => Found = {}
BY TokenKinds DEF Found, Matches

LEMMA AnswerFound ==
  ASSUME NEW status,
         console \in {<<Answer(step, status)>>, <<Echo(step - 1), Answer(step, status)>>}
  PROVE  Found # {} /\ console[First].status = status /\ Rest = <<>>
<1>1. CASE console = <<Answer(step, status)>>
  <2>1. Len(console) = 1 /\ console[1] = Answer(step, status)
    BY <1>1
  <2>2. Found = {1}
    BY <2>1, TokenKinds DEF Found, Matches
  <2>3. First = 1
    BY <2>2 DEF First
  <2>4. Rest = <<>>
    BY <1>1, <2>1, <2>3 DEF Rest
  <2>. QED BY <2>1, <2>2, <2>3, <2>4, TokenKinds
<1>2. CASE console = <<Echo(step - 1), Answer(step, status)>>
  <2>1. Len(console) = 2 /\ console[1] = Echo(step - 1) /\ console[2] = Answer(step, status)
    BY <1>2
  <2>2. Found = {2}
    BY <2>1, TokenKinds DEF Found, Matches
  <2>3. First = 2
    BY <2>2 DEF First
  <2>4. Rest = <<>>
    BY <1>2, <2>1, <2>3 DEF Rest
  <2>. QED BY <2>1, <2>2, <2>3, <2>4, TokenKinds
<1>. QED BY <1>1, <1>2

(* Only a session that has failed can raise, so a raised one is not in turn. *)
LEMMA FailedIsEnough ==
  ASSUME failed' = TRUE, host' # "closed" PROVE SessionInv'
BY DEF SessionInv

LEMMA ExpectKeeps ==
  ASSUME SessionInv, Expect PROVE SessionInv'
<1>. USE SessionNumbers
<1>1. /\ host = "expect" /\ Found # {} /\ console' = Rest /\ UNCHANGED <<busy, qemu, ran>>
      /\ failed \in BOOLEAN /\ (~failed => InTurn)
  BY DEF Expect, SessionInv
<1>2. host' \in {"expect", "wait", "raise"} /\ failed' \in BOOLEAN /\ (host' = "raise" => failed')
  BY <1>1 DEF Expect
<1>3. CASE failed'
  BY <1>2, <1>3 DEF SessionInv
<1>4. CASE ~failed'
  <2>1. ~failed /\ InTurn
    BY <1>1, <1>4 DEF Expect
  <2>2. CASE step > PowerOff
    <3>1. host' = "wait" /\ UNCHANGED <<step, failed, lines>>
      BY <2>2 DEF Expect
    <3>2. step = PowerOff + 1 /\ Halted
      <4>1. ~ (BootsFirst \/ Prompted \/ Sent \/ BeingRead \/ \E status \in {0, 1} : Answered(status))
        BY <1>1, <2>2, NothingFound DEF BootsFirst, Prompted, Sent, BeingRead, Answered
      <4>. QED BY <2>1, <4>1 DEF InTurn, Halted
    <3>3. console = <<Echo(step - 1), Answer(step, 0)>>
      BY <1>1, <3>2, NothingFound DEF Halted
    <3>4. console' = <<>>
      BY <1>1, <3>3, AnswerFound
    <3>5. Halted'
      BY <1>1, <3>1, <3>2, <3>4 DEF Halted
    <3>. QED BY <1>2, <3>1, <3>5 DEF SessionInv, InTurn
  <2>3. CASE step <= PowerOff
    <3>0. step \in Int /\ ~ (step > PowerOff)
      BY <2>1, <2>3 DEF InTurn, BootsFirst, Prompted, Sent, BeingRead, Answered, Halted
    <3>1. /\ console[First].status = 0
          /\ lines' = Append(lines, step) /\ step' = step + 1 /\ UNCHANGED <<host, failed>>
      BY <1>4, <3>0 DEF Expect
    <3>2. ~Halted
      BY <3>0 DEF Halted
    <3>3. /\ qemu \in {"running", "died"}
          /\ BootsFirst \/ Prompted \/ Sent \/ BeingRead \/ \E status \in {0, 1} : Answered(status)
      BY <2>1, <3>2 DEF InTurn
    <3>4. ~BootsFirst /\ ~Sent /\ ~BeingRead
      BY <1>1, NothingFound DEF BootsFirst, Sent, BeingRead
    <3>5. CASE Prompted
      <4>1. console' = <<>>
        BY <1>1, <3>5, AnswerFound DEF Prompted
      <4>2. Sent'
        BY <1>1, <3>1, <3>5, <4>1 DEF Prompted, Sent, Done
      <4>. QED BY <1>1, <1>2, <3>1, <3>3, <4>2 DEF SessionInv, InTurn
    <3>6. CASE \E status \in {0, 1} : Answered(status)
      <4>1. PICK status \in {0, 1} : Answered(status)
        BY <3>6
      <4>2. console' = <<>> /\ status = 0
        BY <1>1, <3>1, <4>1, AnswerFound DEF Answered
      <4>3. ran = Done(step - 1)
        <5>1. step - 2 \in Nat /\ step - 2 + 1 = step - 1
          BY <4>1 DEF Answered
        <5>2. ran = Done(step - 2) \cup {<<step - 1, 0>>}
          BY <4>1, <4>2 DEF Answered
        <5>. QED BY <5>1, <5>2, DoneGrows
      <4>4. lines' = <<step>> /\ step + 1 \in 2 .. PowerOff + 1 /\ step + 1 - 1 = step /\ step + 1 - 2 = step - 1
        BY <2>3, <3>1, <4>1 DEF Answered
      <4>5. Sent'
        BY <1>1, <3>1, <4>1, <4>2, <4>3, <4>4 DEF Answered, Sent
      <4>. QED BY <1>1, <1>2, <3>1, <3>3, <4>5 DEF SessionInv, InTurn
    <3>. QED BY <3>3, <3>4, <3>5, <3>6
  <2>. QED
    <3>1. step \in Int
      BY <2>1 DEF InTurn, BootsFirst, Prompted, Sent, BeingRead, Answered, Halted
    <3>. QED BY <2>2, <2>3, <3>1
<1>. QED BY <1>2, <1>3, <1>4

LEMMA HostKeeps ==
  ASSUME SessionInv, GiveUp \/ Raised \/ Wait \/ Close PROVE SessionInv'
<1>. USE SessionNumbers
<1>1. CASE GiveUp
  <2>1. CASE host' = "raise"
    BY <1>1, <2>1, FailedIsEnough DEF GiveUp
  <2>2. CASE host' # "raise"
    <3>1. /\ host = "expect" /\ host' = "close" /\ qemu = "exit"
          /\ UNCHANGED <<failed, step, console, lines, busy, qemu, ran>>
      BY <1>1, <2>2 DEF GiveUp, Eof
    <3>2. ~failed => Halted
      BY <3>1 DEF SessionInv, InTurn
    <3>3. ~failed' => Halted'
      BY <3>1, <3>2 DEF Halted
    <3>. QED BY <3>1, <3>3 DEF SessionInv, InTurn
  <2>. QED BY <2>1, <2>2
<1>2. CASE Raised
  BY <1>2, FailedIsEnough DEF Raised, SessionInv
<1>3. CASE Wait
  <2>1. /\ host = "wait" /\ host' = "close" /\ failed' = (failed \/ qemu # "exit")
        /\ UNCHANGED <<step, console, lines, busy, qemu, ran>>
    BY <1>3 DEF Wait
  <2>2. failed' \in BOOLEAN /\ (~failed' => Halted)
    BY <2>1 DEF SessionInv, InTurn
  <2>3. ~failed' => Halted'
    BY <2>1, <2>2 DEF Halted
  <2>. QED BY <2>1, <2>2, <2>3 DEF SessionInv, InTurn
<1>4. CASE Close
  <2>1. /\ host = "close" /\ host' = "closed" /\ qemu' # "running" /\ (qemu = "exit" => qemu' = "exit")
        /\ UNCHANGED <<step, failed, console, lines, busy, ran>>
    BY <1>4 DEF Close
  <2>2. ~failed => Halted
    BY <2>1 DEF SessionInv, InTurn
  <2>3. ~failed' => Halted'
    BY <2>1, <2>2 DEF Halted
  <2>. QED BY <2>1, <2>3 DEF SessionInv, InTurn
<1>. QED BY <1>1, <1>2, <1>3, <1>4

(* The guest's steps move one line along, and do not touch the host.         *)
LEMMA GuestKeeps ==
  ASSUME SessionInv, GuestNext PROVE SessionInv'
<1>. USE SessionNumbers
<1>1. UNCHANGED <<host, step, failed>> /\ qemu = "running" /\ host # "closed"
  BY DEF GuestNext, Boots, Reads, Answers, Halts, Dies, SessionInv
<1>2. SUFFICES ASSUME ~failed PROVE InTurn'
  BY <1>1, <1>2 DEF SessionInv
<1>3. /\ host = "expect"
      /\ BootsFirst \/ Prompted \/ Sent \/ BeingRead \/ \E status \in {0, 1} : Answered(status)
  BY <1>1, <1>2 DEF SessionInv, InTurn, Halted
<1>4. CASE Boots
  <2>0. BootsFirst
    BY <1>3, <1>4 DEF Boots, BootsFirst, Prompted, Sent, BeingRead, Answered
  <2>1. BootsFirst /\ console' = <<Answer(1, 0)>>
    BY <1>4, <2>0, Appended DEF Boots, BootsFirst
  <2>2. Prompted'
    BY <1>1, <1>4, <2>1 DEF Boots, BootsFirst, Prompted
  <2>. QED BY <1>1, <1>3, <1>4, <2>2 DEF Boots, InTurn
<1>5. CASE Reads
  <2>1. Sent
    BY <1>3, <1>5 DEF Reads, BootsFirst, Prompted, Sent, BeingRead, Answered
  <2>2. busy' = step - 1 /\ lines' = <<>> /\ console' = <<Echo(step - 1)>> /\ UNCHANGED <<qemu, ran>>
    BY <1>5, <2>1 DEF Reads, Sent
  <2>3. BeingRead'
    BY <1>1, <2>1, <2>2 DEF Sent, BeingRead
  <2>. QED BY <1>1, <1>3, <2>2, <2>3 DEF InTurn
<1>6. ASSUME NEW status \in {0, 1}, Answers(status) PROVE InTurn'
  <2>1. BeingRead /\ step - 1 < PowerOff
    BY <1>3, <1>6 DEF Answers, BootsFirst, Prompted, Sent, BeingRead, Answered, Line
  <2>2. /\ console' = <<Echo(step - 1), Answer(step, status)>>
        /\ ran' = ran \cup {<<step - 1, status>>} /\ busy' = Idle /\ UNCHANGED <<lines, qemu>>
    <3>1. busy = step - 1 /\ console = <<Echo(step - 1)>> /\ busy + 1 = step
      BY <2>1 DEF BeingRead
    <3>2. /\ console' = Append(console, Answer(busy + 1, status))
          /\ ran' = ran \cup {<<busy, status>>} /\ busy' = Idle /\ UNCHANGED <<lines, qemu>>
      BY <1>6 DEF Answers
    <3>3. Append(<<Echo(step - 1)>>, Answer(step, status)) = <<Echo(step - 1), Answer(step, status)>>
      BY Appended
    <3>4. console' = <<Echo(step - 1), Answer(step, status)>>
      BY <3>1, <3>2, <3>3
    <3>. QED BY <3>1, <3>2, <3>4
  <2>3. Answered(status)'
    BY <1>1, <2>1, <2>2 DEF BeingRead, Answered
  <2>. QED BY <1>1, <1>3, <2>2, <2>3 DEF InTurn
<1>7. CASE Halts
  <2>1. BeingRead /\ step = PowerOff + 1 /\ console = <<Echo(PowerOff)>> /\ ran = Done(PowerOff - 1)
    BY <1>3, <1>7 DEF Halts, BootsFirst, Prompted, Sent, BeingRead, Answered
  <2>2. ran' = Done(PowerOff)
    <3>1. PowerOff - 1 \in Nat /\ PowerOff - 1 + 1 = PowerOff
      OBVIOUS
    <3>2. ran' = Done(PowerOff - 1) \cup {<<PowerOff, 0>>}
      BY <1>7, <2>1 DEF Halts
    <3>. QED BY <3>1, <3>2, DoneGrows
  <2>3. console' \in {<<Echo(PowerOff)>>, <<Echo(PowerOff), Answer(PowerOff + 1, 0)>>}
    BY <1>7, <2>1 DEF Halts
  <2>4. Halted'
    BY <1>1, <1>7, <2>1, <2>2, <2>3 DEF Halts, Halted
  <2>. QED BY <1>1, <1>3, <2>4 DEF InTurn
<1>8. CASE Dies
  <2>1. UNCHANGED <<console, lines, busy, ran>> /\ qemu' = "died"
    BY <1>8 DEF Dies
  <2>2. (BootsFirst \/ Prompted \/ Sent \/ BeingRead \/ \E status \in {0, 1} : Answered(status))'
    BY <1>1, <1>3, <2>1 DEF BootsFirst, Prompted, Sent, BeingRead, Answered
  <2>. QED BY <1>1, <1>3, <2>1, <2>2 DEF InTurn
<1>. QED BY <1>4, <1>5, <1>6, <1>7, <1>8 DEF GuestNext

LEMMA SessionStepKeeps == SessionInv /\ [SessionNext]_sessionVars => SessionInv'
<1>1. ASSUME SessionInv, UNCHANGED sessionVars PROVE SessionInv'
  BY <1>1 DEF sessionVars, SessionInv, InTurn, BootsFirst, Prompted, Sent, BeingRead, Answered, Halted
<1>. QED BY <1>1, ExpectKeeps, HostKeeps, GuestKeeps DEF SessionNext, HostNext

LEMMA SessionInvIsTrue == SessionInv => SessionTrue
BY DEF SessionInv, InTurn, Halted, SessionTrue, Done, Line

(* A session that ends without an exception ran every line with status 0 and *)
(* in turn and the guest powered itself off, for every number of prompts and *)
(* commands; no QEMU outlives its session.                                   *)
THEOREM SessionTrueAlways == SessionSpec => []SessionTrue
BY SessionInitial, SessionStepKeeps, SessionInvIsTrue, PTL DEF SessionSpec

-----------------------------------------------------------------------------
(* The script. *)

Whole == Imported("whole")
Places == {Nowhere, Elsewhere, Whole}
Staging == {"archive", "stage", "wget", "verify", "tar", "manifest", "sync", "move"}

ScriptTypeOK ==
  /\ sh \in {"none", "check", "exit", "ended"} \cup Trapped
  /\ code \in {0, 1} /\ safe \in BOOLEAN /\ signalled \in BOOLEAN
  /\ stage \in {"none", "part", "whole"}
  /\ dest \in Places /\ disk \in Places

(* What the trap has to remove has a name, and is there only in between.     *)
TrapKnows ==
  /\ archive # "none" => "archive" \in named
  /\ stage # "none" => "stage" \in named
  /\ sh \in Trapped \ {"archive"} => "archive" \in named
  /\ sh \in {"none", "check", "ended"} => archive = "none" /\ stage = "none"

(* What is on the disk stays, and what is not yet on it is safe to lose the  *)
(* power with.                                                               *)
SafeToLosePower ==
  /\ disk # Nowhere => dest = disk
  /\ sh = "move" => safe
  /\ dest # disk /\ dest = Whole => safe
  /\ sh \in Staging => dest # Whole

(* What the script knows after each command, unless a signal came in.  *)
ScriptKnows ==
  /\ sh \in {"sync", "move"} => stage \in {"none", "whole"} /\ (~signalled => stage = "whole")
  /\ sh \in {"test", "settle"} => dest # Nowhere
  /\ sh = "test" /\ ~signalled /\ stage = "none" => dest = Whole
  /\ sh = "settle" /\ ~signalled => dest = Whole
  /\ sh \in {"exit", "ended"} /\ code = 0 => disk = dest /\ disk # Nowhere /\ (~signalled => disk = Whole)

ScriptInv == ScriptTypeOK /\ TrapKnows /\ SafeToLosePower /\ ScriptKnows

LEMMA PlacesDiffer ==
  /\ Nowhere # Elsewhere /\ Nowhere # Whole /\ Elsewhere # Whole
  /\ Nowhere.by # "import" /\ Elsewhere.by # "import" /\ Whole.by = "import"
BY DEF Nowhere, Elsewhere, Whole, Imported

LEMMA ScriptInitial == ScriptInit => ScriptInv
BY PlacesDiffer
  DEF ScriptInit, ScriptInv, ScriptTypeOK, TrapKnows, SafeToLosePower, ScriptKnows, Places, Staging, Trapped

(* Up to the move the script changes what is in /tmp and in staging.         *)
LEMMA StagingKeeps ==
  ASSUME ScriptInv,
         \/ ScriptCheck \/ ScriptArchive \/ ScriptStage \/ ScriptWget \/ ScriptVerify
         \/ ScriptTar \/ ScriptManifest
  PROVE  ScriptInv'
<1>. USE PlacesDiffer DEF ScriptInv
<1>1. CASE ScriptCheck
  BY <1>1 DEF ScriptCheck, ScriptTypeOK, TrapKnows, SafeToLosePower, ScriptKnows, Staging, Trapped
<1>2. CASE ScriptArchive \/ ScriptStage \/ ScriptWget
  <2>1. /\ sh \in {"archive", "stage", "wget"} /\ sh' \in {"stage", "wget", "verify"} /\ code' = code
        /\ UNCHANGED <<dest, safe, disk, signalled>>
    BY <1>2 DEF ScriptArchive, ScriptStage, ScriptWget, ScriptGoes
  <2>2. /\ stage' \in {"none", "part", "whole"}
        /\ archive' # "none" => "archive" \in named'
        /\ stage' # "none" => "stage" \in named'
        /\ "archive" \in named'
    <3>1. CASE ScriptArchive
      BY <3>1 DEF ScriptArchive, ScriptTypeOK, TrapKnows
    <3>2. CASE ScriptStage \/ ScriptWget
      BY <3>2 DEF ScriptStage, ScriptWget, ScriptTypeOK, TrapKnows, Trapped
    <3>. QED BY <1>2, <3>1, <3>2
  <2>3. ScriptTypeOK' /\ TrapKnows'
    BY <2>1, <2>2 DEF ScriptTypeOK, TrapKnows, Trapped
  <2>4. SafeToLosePower' /\ ScriptKnows'
    BY <2>1 DEF SafeToLosePower, ScriptKnows, Staging
  <2>. QED BY <2>3, <2>4
<1>3. CASE ScriptVerify
  BY <1>3 DEF ScriptVerify, Test, ScriptGoes, ExitWith,
     ScriptTypeOK, TrapKnows, SafeToLosePower, ScriptKnows, Staging, Trapped
<1>4. CASE ScriptTar
  <2>1. /\ sh = "tar" /\ safe' = FALSE /\ UNCHANGED <<named, archive, dest, disk, signalled>>
        /\ stage' \in {"none", "part", "whole"} /\ (stage' # "none" => stage # "none")
        /\ (sh' = "manifest" /\ code' = code) \/ (sh' = "exit" /\ code' = 1)
    <3>1. (sh' = "manifest" /\ code' = code) \/ (sh' = "exit" /\ code' = 1)
      BY <1>4 DEF ScriptTar, Test, ScriptGoes, ExitWith
    <3>. QED BY <1>4, <3>1 DEF ScriptTar
  <2>2. dest # Whole
    BY <2>1 DEF SafeToLosePower, Staging
  <2>3. ScriptTypeOK' /\ TrapKnows'
    BY <2>1 DEF ScriptTypeOK, TrapKnows, Trapped
  <2>4. SafeToLosePower' /\ ScriptKnows'
    BY <2>1, <2>2 DEF SafeToLosePower, ScriptKnows, Staging
  <2>. QED BY <2>3, <2>4
<1>5. CASE ScriptManifest
  BY <1>5 DEF ScriptManifest, Test, ScriptGoes, ExitWith,
     ScriptTypeOK, TrapKnows, SafeToLosePower, ScriptKnows, Staging, Trapped
<1>. QED BY <1>1, <1>2, <1>3, <1>4, <1>5

LEMMA MovingKeeps ==
  ASSUME ScriptInv,
         \/ ScriptSync \/ ScriptMove \/ ScriptTest \/ ScriptSettle \/ ScriptFails \/ ScriptExit \/ ScriptSignal
  PROVE  ScriptInv'
<1>. USE PlacesDiffer DEF ScriptInv
<1>1. CASE ScriptSync
  BY <1>1 DEF ScriptSync, ScriptGoes, Synced,
     ScriptTypeOK, TrapKnows, SafeToLosePower, ScriptKnows, Staging, Trapped
<1>2. CASE ScriptMove
  <2>1. /\ sh = "move" /\ safe /\ dest # Whole /\ stage \in {"none", "whole"} /\ (~signalled => stage = "whole")
        /\ UNCHANGED <<named, archive, safe, disk, signalled>>
    BY <1>2 DEF ScriptMove, SafeToLosePower, ScriptKnows, Staging
  <2>2. CASE stage # "none" /\ dest = Nowhere
    <3>1. /\ sh' = "test" /\ code' = code /\ dest' = Whole /\ stage' = "none" /\ disk = Nowhere
      BY <1>2, <2>1, <2>2 DEF ScriptMove, Test, ScriptGoes, SafeToLosePower, Whole
    <3>. QED BY <2>1, <3>1 DEF ScriptTypeOK, TrapKnows, SafeToLosePower, ScriptKnows, Places, Staging, Trapped
  <2>3. CASE ~ (stage # "none" /\ dest = Nowhere)
    <3>1. /\ UNCHANGED <<dest, stage>>
          /\ \/ sh' = "test" /\ code' = code /\ stage # "none" /\ dest # Nowhere
             \/ sh' = "exit" /\ code' = 1
      BY <1>2, <2>3 DEF ScriptMove, Test, ScriptGoes, ExitWith
    <3>. QED BY <2>1, <3>1 DEF ScriptTypeOK, TrapKnows, SafeToLosePower, ScriptKnows, Places, Staging, Trapped
  <2>. QED BY <2>2, <2>3
<1>3. CASE ScriptTest
  BY <1>3 DEF ScriptTest, Test, ScriptGoes, ExitWith,
     ScriptTypeOK, TrapKnows, SafeToLosePower, ScriptKnows, Staging, Trapped
<1>4. CASE ScriptSettle
  BY <1>4 DEF ScriptSettle, ExitWith, Synced,
     ScriptTypeOK, TrapKnows, SafeToLosePower, ScriptKnows, Staging, Trapped
<1>5. CASE ScriptFails
  BY <1>5 DEF ScriptFails, ExitWith,
     ScriptTypeOK, TrapKnows, SafeToLosePower, ScriptKnows, Staging, Trapped
<1>6. CASE ScriptExit
  BY <1>6 DEF ScriptExit, Cleanup,
     ScriptTypeOK, TrapKnows, SafeToLosePower, ScriptKnows, Staging, Trapped
<1>7. CASE ScriptSignal
  BY <1>7 DEF ScriptSignal, Cleanup, shell,
     ScriptTypeOK, TrapKnows, SafeToLosePower, ScriptKnows, Staging, Trapped
<1>. QED BY <1>1, <1>2, <1>3, <1>4, <1>5, <1>6, <1>7

LEMMA AroundKeeps ==
  ASSUME ScriptInv
  PROVE  /\ ScriptStarts /\ sh \in {"none", "ended"} => ScriptInv'
         /\ Appears => ScriptInv'
         /\ Unmounted \/ PowerLost =>
              ScriptInv' /\ sh' = "none" /\ dest' = disk' /\ (disk # Nowhere => disk' = disk)
              /\ signalled' = signalled
<1>. USE PlacesDiffer DEF ScriptInv
<1>1. ASSUME ScriptStarts, sh \in {"none", "ended"} PROVE ScriptInv'
  BY <1>1 DEF ScriptStarts, ScriptTypeOK, TrapKnows, SafeToLosePower, ScriptKnows, Staging, Trapped
<1>2. ASSUME Appears PROVE ScriptInv'
  BY <1>2 DEF Appears, shell, ScriptTypeOK, TrapKnows, SafeToLosePower, ScriptKnows, Places, Staging, Trapped
<1>3. ASSUME Unmounted \/ PowerLost
      PROVE  ScriptInv' /\ sh' = "none" /\ dest' = disk' /\ (disk # Nowhere => disk' = disk) /\ signalled' = signalled
  <2>1. Survivors = {dest}
    <3>1. ~ (dest # disk /\ dest.by = "import" /\ ~safe)
      BY DEF SafeToLosePower, ScriptTypeOK, Places
    <3>. QED BY <3>1 DEF Survivors
  <2>2. /\ dest' = disk' /\ disk' \in {disk, dest} /\ signalled' = signalled
        /\ sh' = "none" /\ code' = 0 /\ named' = {} /\ archive' = "none" /\ stage' = "none" /\ safe' = FALSE
    BY <1>3, <2>1 DEF Unmounted, PowerLost, Forgotten
  <2>3. disk # Nowhere => disk' = disk
    BY <2>2 DEF SafeToLosePower
  <2>4. ScriptInv'
    BY <2>2 DEF ScriptTypeOK, TrapKnows, SafeToLosePower, ScriptKnows, Staging, Trapped
  <2>. QED BY <2>2, <2>3, <2>4
<1>. QED BY <1>1, <1>2, <1>3

(* The script's own steps never take from the disk what is there.  *)
LEMMA DiskStays ==
  ASSUME ScriptInv, ScriptStep \/ Appears PROVE disk # Nowhere => disk' = disk
BY DEF ScriptStep, Appears, ScriptCheck, ScriptArchive, ScriptStage, ScriptWget, ScriptVerify, ScriptTar,
   ScriptManifest, ScriptSync, Synced, ScriptMove, ScriptTest, ScriptSettle, ScriptFails, ScriptExit, ScriptSignal,
   ScriptInv, SafeToLosePower

-----------------------------------------------------------------------------
(* The import. *)

Preparing == {"check", "bundle", "serve"}

(* Before there is a guest nothing was said; then there is a session.        *)
ImportTalks ==
  IF host \in Preparing THEN BootsFirst /\ failed = FALSE /\ qemu = "off" ELSE SessionInv

(* The script runs while the guest works on its line, and only then.         *)
ScriptRuns ==
  /\ qemu # "running" => sh = "none"
  /\ sh \notin {"none", "ended"} => busy = Script

(* A session that carried the script out with status 0, and did not fail.    *)
ScriptTold ==
  ~failed /\ <<Script, 0>> \in ran => disk # Nowhere /\ (~signalled => disk = Whole)

ReportTold ==
  /\ report \in {"nothing", "ready", "refused"}
  /\ report # "nothing" => host = "closed"
  /\ report = "ready" => ~failed

ImportInv == ImportTalks /\ ScriptInv /\ ScriptRuns /\ ScriptTold /\ ReportTold

LEMMA ScriptLine ==
  /\ Script \in Nat /\ Script >= 1 /\ Script < PowerOff /\ Script # Idle /\ Script # Booting /\ Idle # Booting
  /\ Script \in Line /\ PowerOff # Script /\ PowerOff # Idle
BY SessionNumbers DEF Script, Line

LEMMA ImportInitial == ImportInit => ImportInv
BY ScriptInitial, PlacesDiffer
  DEF ImportInit, ImportInv, ImportTalks, Preparing, BootsFirst, ScriptRuns, ScriptTold, ReportTold, ScriptInit

(* Python's part before the guest and after it.                              *)
LEMMA ImportHostKeeps ==
  ASSUME ImportInv, ImportHost PROVE ImportInv'
<1>. USE DEF ImportInv
<1>0. host \in Preparing => BootsFirst /\ failed = FALSE /\ qemu = "off" /\ ran = {} /\ report = "nothing"
  BY DEF ImportTalks, BootsFirst, ReportTold, Preparing
<1>1. CASE ImportRefused \/ CheckedRuntime \/ BuildBundle \/ ServeBundle
  <2>1. /\ host \in Preparing /\ UNCHANGED <<step, console, lines, busy, ran, scriptVars, report>>
        /\ \/ host' \in Preparing /\ failed' = failed /\ qemu' = qemu
           \/ host' = "expect" /\ failed' = failed /\ qemu' = "running"
           \/ host' = "closed" /\ failed' = TRUE /\ qemu' = qemu
    BY <1>1 DEF ImportRefused, CheckedRuntime, BuildBundle, ServeBundle, BeforeGuest, Preparing
  <2>2. BootsFirst'
    BY <1>0, <2>1 DEF BootsFirst
  <2>3. ImportTalks'
    <3>1. CASE host' \in Preparing
      BY <1>0, <2>1, <2>2, <3>1 DEF ImportTalks, Preparing
    <3>2. CASE host' = "expect"
      BY <1>0, <2>1, <2>2, <3>2 DEF ImportTalks, Preparing, SessionInv, InTurn
    <3>3. CASE host' = "closed"
      BY <1>0, <2>1, <3>3 DEF ImportTalks, Preparing, SessionInv
    <3>. QED BY <2>1, <3>1, <3>2, <3>3
  <2>4. ScriptInv' /\ ScriptTold'
    BY <1>0, <2>1 DEF scriptVars, shell, ScriptInv, ScriptTypeOK, TrapKnows, SafeToLosePower, ScriptKnows, ScriptTold
  <2>5. ScriptRuns' /\ ReportTold'
    BY <1>0, <2>1 DEF scriptVars, shell, ScriptRuns, ReportTold
  <2>. QED BY <2>3, <2>4, <2>5
<1>2. CASE BundleChanged
  BY <1>2 DEF BundleChanged, sessionVars, scriptVars, shell, ImportTalks, BootsFirst, SessionInv, InTurn, Prompted,
     Sent, BeingRead, Answered, Halted, ScriptInv, ScriptTypeOK, TrapKnows, SafeToLosePower, ScriptKnows,
     ScriptRuns, ScriptTold, ReportTold
<1>3. CASE ImportReport
  BY <1>3 DEF ImportReport, sessionVars, scriptVars, shell, ImportTalks, BootsFirst, SessionInv, InTurn, Prompted,
     Sent, BeingRead, Answered, Halted, ScriptInv, ScriptTypeOK, TrapKnows, SafeToLosePower, ScriptKnows,
     ScriptRuns, ScriptTold, ReportTold
<1>4. CASE ImportAgain
  <2>1. /\ host = "closed" /\ host' = "check" /\ step' = 1 /\ failed' = FALSE /\ busy' = Booting
        /\ qemu' = "off" /\ ran' = {} /\ console' = <<>> /\ lines' = <<>> /\ report' = "nothing" /\ signalled' = FALSE
        /\ UNCHANGED <<sh, code, named, archive, stage, dest, safe, disk>>
    BY <1>4 DEF ImportAgain, shell
  <2>2. sh = "none"
    BY <2>1 DEF ImportTalks, SessionInv, Preparing, ScriptRuns
  <2>3. ImportTalks'
    BY <2>1 DEF ImportTalks, BootsFirst, Preparing
  <2>4. ScriptInv'
    BY <2>1, <2>2 DEF ScriptInv, ScriptTypeOK, TrapKnows, SafeToLosePower, ScriptKnows, Trapped
  <2>5. ScriptRuns' /\ ScriptTold' /\ ReportTold'
    BY <2>1, <2>2 DEF ScriptRuns, ScriptTold, ReportTold
  <2>. QED BY <2>3, <2>4, <2>5
<1>. QED BY <1>1, <1>2, <1>3, <1>4 DEF ImportHost

(* The guest works on the script.                                            *)
LEMMA ImportWorkKeeps ==
  ASSUME ImportInv, ImportWork PROVE ImportInv'
<1>. USE DEF ImportInv
<1>1. qemu = "running" /\ (ScriptStep \/ Appears) /\ UNCHANGED <<sessionVars, report>>
  BY DEF ImportWork
<1>2. ScriptInv'
  BY <1>1, StagingKeeps, MovingKeeps, AroundKeeps DEF ScriptStep
<1>3. ImportTalks'
  BY <1>1 DEF sessionVars, ImportTalks, BootsFirst, SessionInv, InTurn, Prompted, Sent, BeingRead, Answered, Halted
<1>4. sh' # sh => sh \notin {"none", "ended"}
  BY <1>1 DEF ScriptStep, Appears, shell, ScriptCheck, ScriptArchive, ScriptStage, ScriptWget, ScriptVerify, ScriptTar,
     ScriptManifest, ScriptSync, ScriptMove, ScriptTest, ScriptSettle, ScriptFails, ScriptExit, ScriptSignal, Trapped
<1>5. ScriptRuns' /\ ReportTold'
  BY <1>1, <1>4 DEF sessionVars, ScriptRuns, ReportTold
<1>6. disk # Nowhere => disk' = disk
  BY <1>1, DiskStays
<1>7. signalled => signalled'
  BY <1>1 DEF ScriptStep, Appears, ScriptCheck, ScriptArchive, ScriptStage, ScriptWget, ScriptVerify, ScriptTar,
     ScriptManifest, ScriptSync, ScriptMove, ScriptTest, ScriptSettle, ScriptFails, ScriptExit, ScriptSignal
<1>8. ScriptTold'
  BY <1>1, <1>6, <1>7 DEF sessionVars, ScriptTold
<1>. QED BY <1>2, <1>3, <1>5, <1>8

(* What a step of the conversation does to the guest and what it was told.   *)
LEMMA Conversing ==
  ASSUME SessionInv, SessionNext
  PROVE  /\ host \notin Preparing => host' \notin Preparing
         /\ ~failed' => ~failed
         /\ host # "closed"
         /\ busy' # busy => qemu = "running" /\ qemu' = "running" /\ (busy' = Idle \/ busy = Idle)
         /\ qemu' # qemu => qemu = "running" /\ busy' = busy
         /\ \/ ran' = ran
            \/ \E status \in {0, 1} : Answers(status)
            \/ ran' = ran \cup {<<PowerOff, 0>>}
<1>1. CASE HostNext
  <2>1. busy' = busy /\ ran' = ran
    BY <1>1 DEF HostNext, Expect, GiveUp, Raised, Wait, Close
  <2>2. /\ host # "closed" /\ host' \in {"expect", "wait", "close", "closed", "raise"}
        /\ qemu' # qemu => qemu = "running"
    BY <1>1 DEF HostNext, Expect, GiveUp, Raised, Wait, Close
  <2>3. ~failed' => ~failed
    BY <1>1 DEF HostNext, Expect, GiveUp, Raised, Wait, Close
  <2>. QED BY <2>1, <2>2, <2>3 DEF Preparing
<1>2. CASE GuestNext
  <2>1. UNCHANGED <<host, failed>> /\ qemu = "running"
    BY <1>2 DEF GuestNext, Boots, Reads, Answers, Halts, Dies
  <2>2. host # "closed"
    BY <2>1 DEF SessionInv
  <2>3. /\ busy' # busy => qemu' = qemu /\ (busy' = Idle \/ busy = Idle)
        /\ qemu' # qemu => busy' = busy
    BY <1>2 DEF GuestNext, Boots, Reads, Answers, Halts, Dies
  <2>4. \/ ran' = ran
        \/ \E status \in {0, 1} : Answers(status)
        \/ ran' = ran \cup {<<PowerOff, 0>>}
    BY <1>2 DEF GuestNext, Boots, Reads, Halts, Dies
  <2>. QED BY <2>1, <2>2, <2>3, <2>4
<1>. QED BY <1>1, <1>2 DEF SessionNext

LEMMA ConversationKeeps ==
  ASSUME ImportInv, ImportConversation PROVE ImportInv'
<1>. USE ScriptLine DEF ImportInv
<1>1. /\ SessionNext /\ report' = report
      /\ busy = Script /\ busy' = Idle => sh = "ended" /\ <<Script, code>> \in ran'
      /\ IF qemu = "running" /\ qemu' # "running" THEN GuestEnds
         ELSE IF busy # Script /\ busy' = Script THEN ScriptStarts
         ELSE UNCHANGED scriptVars
  BY DEF ImportConversation
<1>2. host \notin Preparing /\ SessionInv
  <2>1. host \in Preparing => FALSE
    BY <1>1 DEF ImportTalks, Preparing, SessionNext, HostNext, GuestNext, Expect, GiveUp, Raised, Wait, Close,
       Boots, Reads, Answers, Halts, Dies
  <2>. QED BY <2>1 DEF ImportTalks
<1>3. SessionInv'
  BY <1>1, <1>2, SessionStepKeeps
<1>4. ImportTalks' /\ ReportTold'
  BY <1>1, <1>2, <1>3, Conversing DEF ImportTalks, ReportTold
<1>5. /\ disk # Nowhere => disk' = disk
      /\ signalled' = signalled
      /\ ScriptInv'
      /\ ScriptRuns'
  <2>1. CASE qemu = "running" /\ qemu' # "running"
    BY <1>1, <2>1, AroundKeeps DEF GuestEnds, ScriptRuns
  <2>2. CASE ~ (qemu = "running" /\ qemu' # "running") /\ busy # Script /\ busy' = Script
    <3>1. ScriptStarts /\ sh \in {"none", "ended"}
      BY <1>1, <2>2 DEF ScriptRuns
    <3>2. ScriptInv' /\ disk' = disk /\ signalled' = signalled
      BY <3>1, AroundKeeps DEF ScriptStarts
    <3>3. qemu' = "running"
      <4>1. busy' # busy
        BY <2>2
      <4>. QED BY <1>1, <1>2, <4>1, Conversing
    <3>. QED BY <2>2, <3>2, <3>3 DEF ScriptRuns
  <2>3. CASE ~ (qemu = "running" /\ qemu' # "running") /\ ~ (busy # Script /\ busy' = Script)
    <3>1. UNCHANGED scriptVars
      BY <1>1, <2>3
    <3>2. ScriptInv' /\ disk' = disk /\ signalled' = signalled
      BY <3>1 DEF scriptVars, shell, ScriptInv, ScriptTypeOK, TrapKnows, SafeToLosePower, ScriptKnows
    <3>3. qemu' # "running" => qemu # "running"
      BY <2>3
    <3>4. sh \notin {"none", "ended"} => busy' = Script
      <4>1. ASSUME busy = Script, busy' # Script PROVE sh = "ended"
        <5>1. busy' = Idle
          <6>1. busy' # busy /\ busy # Idle
            BY <4>1
          <6>. QED BY <1>1, <1>2, <6>1, Conversing
        <5>. QED BY <1>1, <4>1, <5>1
      <4>. QED BY <3>1, <4>1 DEF ScriptRuns, scriptVars, shell
    <3>. QED BY <3>1, <3>2, <3>3, <3>4 DEF ScriptRuns, scriptVars, shell
  <2>. QED BY <2>1, <2>2, <2>3
<1>6. ScriptTold'
  <2>. SUFFICES ASSUME ~failed', <<Script, 0>> \in ran'
                PROVE  disk' # Nowhere /\ (~signalled' => disk' = Whole)
    BY DEF ScriptTold
  <2>1. ~failed
    BY <1>1, <1>2, Conversing
  <2>2. CASE <<Script, 0>> \in ran
    BY <1>5, <2>1, <2>2 DEF ScriptTold
  <2>3. CASE <<Script, 0>> \notin ran
    <3>1. PICK status \in {0, 1} : Answers(status)
      <4>1. <<PowerOff, 0>> # <<Script, 0>>
        OBVIOUS
      <4>2. ran' # ran /\ ran' # ran \cup {<<PowerOff, 0>>}
        BY <2>3, <4>1
      <4>. QED BY <1>1, <1>2, <4>2, Conversing, Zenon
    <3>2. busy = Script /\ status = 0 /\ busy' = Idle /\ ran' = ran \cup {<<Script, 0>>}
      BY <2>3, <3>1 DEF Answers
    <3>3. sh = "ended" /\ <<Script, code>> \in ran'
      BY <1>1, <3>2
    <3>4. ran = Done(step - 2)
      BY <1>2, <2>1, <3>1, <3>2, SessionNumbers
        DEF SessionInv, InTurn, BootsFirst, Prompted, Sent, BeingRead, Answered, Halted, Answers
    <3>5. code = 0
      BY <3>2, <3>3, <3>4 DEF Done
    <3>6. disk # Nowhere /\ (~signalled => disk = Whole)
      BY <3>3, <3>5 DEF ScriptInv, ScriptKnows
    <3>. QED BY <1>5, <3>6
  <2>. QED BY <2>2, <2>3
<1>. QED BY <1>4, <1>5, <1>6

LEMMA ImportStepKeeps == ImportInv /\ [ImportNext]_importVars => ImportInv'
<1>1. ASSUME ImportInv, UNCHANGED importVars PROVE ImportInv'
  BY <1>1 DEF importVars, sessionVars, scriptVars, shell, ImportInv, ImportTalks, BootsFirst, SessionInv, InTurn,
     Prompted, Sent, BeingRead, Answered, Halted, ScriptInv, ScriptTypeOK, TrapKnows, SafeToLosePower, ScriptKnows,
     ScriptRuns, ScriptTold, ReportTold
<1>. QED BY <1>1, ImportHostKeeps, ConversationKeeps, ImportWorkKeeps DEF ImportNext

(* A session that has ended well ran the script. *)
LEMMA ReportMeansScript ==
  ASSUME ImportInv, host = "closed", ~failed PROVE disk # Nowhere /\ (~signalled => disk = Whole)
<1>1. SessionTrue
  BY SessionInvIsTrue DEF ImportInv, ImportTalks, Preparing
<1>2. ran = Line \X {0}
  BY <1>1 DEF SessionTrue
<1>3. <<Script, 0>> \in ran
  BY <1>2, ScriptLine
<1>. QED BY <1>3 DEF ImportInv, ScriptTold

(* Also in the import a conversation that ends well ran every line.          *)
THEOREM ImportSessionTrue == ImportSpec => []SessionTrue
<1>1. ImportInv => SessionTrue
  BY SessionInvIsTrue DEF ImportInv, ImportTalks, Preparing, SessionTrue
<1>. QED BY <1>1, ImportInitial, ImportStepKeeps, PTL DEF ImportSpec

(* However the script ends, neither its archive nor its staging directory is *)
(* left in the guest.                                                        *)
THEOREM NothingIsLeftBehind == ImportSpec => []NothingLeftBehind
<1>1. ImportInv => NothingLeftBehind
  BY DEF ImportInv, ScriptInv, TrapKnows, NothingLeftBehind
<1>. QED BY <1>1, ImportInitial, ImportStepKeeps, PTL DEF ImportSpec

(* A successful report means that the files are at the destination, whole,   *)
(* and that they outlive a power loss, unless a signal came in; for every    *)
(* number of prompts and of commands before the script.                      *)
THEOREM ImportedIsThere == ImportSpec => []ImportedMeansThere
<1>1. ImportInv => ImportedMeansThere
  BY ReportMeansScript DEF ImportInv, ReportTold, ImportedMeansThere, Whole
<1>. QED BY <1>1, ImportInitial, ImportStepKeeps, PTL DEF ImportSpec

LEMMA ImportStepImplements ==
  ImportInv /\ ImportInv' /\ [ImportNext]_importVars => [Destination!OnceNext]_(Destination!onceVars)
<1>. SUFFICES ASSUME ImportInv, ImportInv', [ImportNext]_importVars
              PROVE  [Destination!OnceNext]_(Destination!onceVars)
  OBVIOUS
<1>1. ASSUME disk' = disk, report' = report PROVE UNCHANGED Destination!onceVars
  BY <1>1 DEF Destination!onceVars
<1>2. ASSUME disk' # disk, report' = report PROVE Destination!OnceNext
  <2>1. disk = Nowhere
    <3>1. CASE ImportConversation
      <4>1. UNCHANGED scriptVars \/ ScriptStarts \/ Unmounted \/ PowerLost
        BY <3>1 DEF ImportConversation, GuestEnds
      <4>. QED BY <1>2, <4>1, AroundKeeps DEF scriptVars, ScriptStarts, ImportInv
    <3>2. CASE ImportWork
      BY <1>2, <3>2, DiskStays DEF ImportWork, ImportInv
    <3>3. CASE ImportHost \/ UNCHANGED importVars
      BY <1>2, <3>3 DEF ImportHost, ImportRefused, CheckedRuntime, BuildBundle, BundleChanged, ServeBundle, BeforeGuest,
         ImportReport, ImportAgain, importVars, scriptVars
    <3>. QED BY <3>1, <3>2, <3>3 DEF ImportNext
  <2>2. disk' \in {Elsewhere, Whole}
    BY <1>2, <2>1 DEF ImportInv, ScriptInv, ScriptTypeOK, Places
  <2>3. CASE disk' = Elsewhere
    <3>1. Destination!Place
      BY <1>2, <2>1, <2>3 DEF Destination!Place, Destination!Nothing, Destination!Foreign, Nowhere, Elsewhere
    <3>. QED BY <3>1 DEF Destination!OnceNext
  <2>4. CASE disk' = Whole
    <3>1. Destination!Create("import")
      BY <1>2, <2>1, <2>4 DEF Destination!Create, Destination!Nothing, Nowhere, Whole, Imported
    <3>. QED BY <3>1 DEF Destination!OnceNext
  <2>. QED BY <2>2, <2>3, <2>4
<1>3. ASSUME report' # report PROVE Destination!OnceNext
  <2>1. ImportReport \/ ImportAgain
    BY <1>3 DEF ImportNext, ImportHost, ImportRefused, CheckedRuntime, BuildBundle, BundleChanged, ServeBundle,
       BeforeGuest, ImportConversation, ImportWork, importVars
  <2>2. disk' = disk /\ report' \in {"nothing", "ready", "refused"}
    BY <2>1 DEF ImportReport, ImportAgain, scriptVars
  <2>. DEFINE tells == [p \in {"import"} |-> report]
  <2>3. tells' = [tells EXCEPT !["import"] = report']
    OBVIOUS
  <2>4. CASE report' = "ready"
    <3>1. disk # Nowhere
      BY <2>1, <2>4, ReportMeansScript DEF ImportReport, ImportAgain
    <3>2. Destination!Ready("import")
      BY <2>2, <2>3, <2>4, <3>1 DEF Destination!Ready, Destination!Nothing, Nowhere
    <3>. QED BY <3>2 DEF Destination!OnceNext
  <2>5. CASE report' = "refused"
    <3>1. Destination!Refuse("import")
      BY <2>2, <2>3, <2>5 DEF Destination!Refuse
    <3>. QED BY <3>1 DEF Destination!OnceNext
  <2>6. CASE report' = "nothing"
    <3>1. Destination!Again("import")
      BY <2>2, <2>3, <2>6 DEF Destination!Again
    <3>. QED BY <3>1 DEF Destination!OnceNext
  <2>. QED BY <2>2, <2>4, <2>5, <2>6
<1>. QED BY <1>1, <1>2, <1>3

(* The disk gets the whole import at once or nothing, never in place of what *)
(* somebody else put there, and success is reported only when the            *)
(* destination exists, however often an import is tried and wherever it      *)
(* fails, is signalled, dies or loses power.                                 *)
THEOREM ImportIsCreatedOnce == ImportSpec => ImportCreatedOnce
<1>1. ImportInit => Destination!OnceInit
  BY DEF ImportInit, ScriptInit, Destination!OnceInit, Destination!Nothing, Nowhere
<1>. QED
  BY <1>1, ImportInitial, ImportStepKeeps, ImportStepImplements, PTL
    DEF ImportSpec, ImportCreatedOnce, Destination!OnceSpec

=============================================================================
