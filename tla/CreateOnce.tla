--------------------------- MODULE CreateOnce ---------------------------
(***************************************************************************)
(* What a tool promises that makes something new at a path where nothing   *)
(* may be lost: prepare_runtime, the UTM exporter and the legacy importer. *)
(* The path holds nothing until one whole artifact appears there in one    *)
(* step, and keeps what it holds, also when somebody else put it there; a  *)
(* tool that reports success finds something there, and its own work if    *)
(* the tool promises that.                                                 *)
(***************************************************************************)
CONSTANTS
  Process,  \* the runs of the tool
  Whole,    \* the artifacts that are complete
  Own       \* whether success means that the artifact is the process's own

VARIABLES
  path,  \* [by, of]: what is at the path
  told   \* what each process has reported: "nothing", "ready" or "refused"

onceVars == <<path, told>>

Nothing == [by |-> "nobody", of |-> "nothing"]
Foreign == [by |-> "others", of |-> "something"]

OnceInit == path = Nothing /\ told = [p \in Process |-> "nothing"]

Create(p) ==
  /\ path = Nothing
  /\ \E a \in Whole : path' = [by |-> p, of |-> a]
  /\ UNCHANGED told

Place == path = Nothing /\ path' = Foreign /\ UNCHANGED told

Ready(p) ==
  /\ path # Nothing
  /\ Own => path.by = p
  /\ told' = [told EXCEPT ![p] = "ready"]
  /\ UNCHANGED path

Refuse(p) == told' = [told EXCEPT ![p] = "refused"] /\ UNCHANGED path

Again(p) == told' = [told EXCEPT ![p] = "nothing"] /\ UNCHANGED path

OnceNext == Place \/ \E p \in Process : Create(p) \/ Ready(p) \/ Refuse(p) \/ Again(p)

OnceSpec == OnceInit /\ [][OnceNext]_onceVars

=============================================================================
