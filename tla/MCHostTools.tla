--------------------------- MODULE MCHostTools ---------------------------
(* The programs under tools/ share no state that one module would not cover: *)
(* one of them is chosen and takes all the steps, the others keep their       *)
(* first state.                                                               *)
EXTENDS SystemBuild, RustDisks, LegacyImport, RecoverFiles,
        ImageBuild, CatalogFetch, RuntimePrepare, FileNames

CONSTANTS i1, i2, l1, l2, e1, f1, f2, r1, r2

VARIABLE tool

toolVars == <<tool, buildVars, diskVars, importVars, recoverVars,
              imageVars, fetchVars, prepareVars, text>>

Tools == {"make", "disks", "import", "export", "image", "fetch", "prepare", "names"}

(* The sources are edited, and edited back. *)
MCContents == [e \in 0 .. MaxEdits |-> e % 2]

ToolInit ==
  /\ tool \in Tools
  /\ BuildInit /\ (tool # "make" => iso = "none")
  /\ DisksInit
  /\ ImportInit
  /\ RecoverInit /\ (tool # "export" => folder = "none")
  /\ ImageInit /\ (tool # "image" => base = "good" /\ modules = GoodModules)
  /\ FetchInit /\ (tool # "fetch" => lock = r1)
  /\ PrepareInit /\ (tool # "prepare" => template = "none" /\ floppy = NoFloppy)
  /\ NameInit

ToolNext ==
  /\ UNCHANGED tool
  /\ \/ tool = "make" /\ BuildNext
     \/ tool # "make" /\ UNCHANGED buildVars
  /\ \/ tool = "disks" /\ DisksNext
     \/ tool # "disks" /\ UNCHANGED diskVars
  /\ \/ tool = "import" /\ ImportNext
     \/ tool # "import" /\ UNCHANGED importVars
  /\ \/ tool = "export" /\ RecoverNext
     \/ tool # "export" /\ UNCHANGED recoverVars
  /\ \/ tool = "image" /\ ImageNext
     \/ tool # "image" /\ UNCHANGED imageVars
  /\ \/ tool = "fetch" /\ FetchNext
     \/ tool # "fetch" /\ UNCHANGED fetchVars
  /\ \/ tool = "prepare" /\ PrepareNext
     \/ tool # "prepare" /\ UNCHANGED prepareVars
  /\ \/ tool = "names" /\ NameNext
     \/ tool # "names" /\ UNCHANGED text

ToolSpec == ToolInit /\ [][ToolNext]_toolVars

=============================================================================
