---------------------------- MODULE RustDisks ----------------------------
(***************************************************************************)
(* The users of the Rust system's disks together: launchers copy the image *)
(* to the runtime and run it while exports convert either of them.         *)
(***************************************************************************)
EXTENDS UtmExport

diskVars == <<launchVars, exportVars>>

DisksInit == LaunchInit /\ ExportInit

DisksNext ==
  \/ LaunchNext /\ UNCHANGED exportVars
  \/ ExportNext

DisksSpec == DisksInit /\ [][DisksNext]_diskVars

-----------------------------------------------------------------------------
(* The refinement mappings. *)

(* A whole disk: an image copied to its end. *)
WholeDisks == [disk : Images, whole : {TRUE}]

(* A whole bundle has both files, and its disk was read while nothing wrote  *)
(* to it.                                                                    *)
WholeBundles ==
  {[first |-> r, last |-> r, files |-> {"disk", "config"}] :
     r \in [disk : Images \cup {NoImage}, work : 0 .. MaxWork]}

At(p, place, nothing) ==
  IF place = nothing THEN [by |-> "nobody", of |-> "nothing"]
  ELSE IF place.by \in p THEN place
  ELSE [by |-> "others", of |-> "something"]

TellRuntime == [l \in Launchers |->
  CASE la[l] \in {"ready", "running"} -> "ready"
    [] la[l] = "failed" -> "refused"
    [] OTHER -> "nothing"]

TellBundle == [e \in Exporters |->
  CASE ex[e] = "done" -> "ready" [] ex[e] = "failed" -> "refused" [] OTHER -> "nothing"]

Runtime == INSTANCE CreateOnce WITH
  Process <- Launchers, Whole <- WholeDisks, Own <- FALSE,
  path <- At(Launchers, runtime, Absent), told <- TellRuntime

Bundle == INSTANCE CreateOnce WITH
  Process <- Exporters, Whole <- WholeBundles, Own <- TRUE,
  path <- At(Exporters, utm, NoUtm), told <- TellBundle

(* Concurrent launchers never replace the runtime disk nor publish less than *)
(* a whole image, whoever wins and wherever one is killed ("Publish only a   *)
(* complete copy. link is exclusive", prepare_runtime); who is told that the *)
(* disk is ready finds one.                                                  *)
RuntimeCreatedOnce == Runtime!OnceSpec

(* A bundle appears whole and once, taken from a disk at rest, and an export *)
(* that reports success made it (export, publish_exclusively).               *)
BundleCreatedOnce == Bundle!OnceSpec

=============================================================================
