-------------------------- MODULE CatalogFetch --------------------------
(***************************************************************************)
(* tools/fetch_package_catalog.py: runs of it that share the lock file and *)
(* the cached catalog.  The lock pins a release; the cache is used if it   *)
(* is the pinned one, else the release is downloaded, compared and moved   *)
(* over the cache from a temporary file.  Meanwhile the lock is edited,    *)
(* the cache is damaged, calls raise and runs are killed.                  *)
(***************************************************************************)
CONSTANTS
  Fetchers,  \* runs of the program
  Releases   \* catalogs that a lock can pin

VARIABLES
  lock,       \* what the lock file pins, or "malformed"
  pinned,     \* all that it has ever pinned
  cache,      \* the cached catalog: a release, "none", "damaged" or "link"
  fetching,   \* for each run: what it does next, or how it ended
  pin,        \* the release it read from the lock
  data,       \* what it has downloaded
  staged   \* the runs whose temporary file exists

files == <<lock, pinned, cache>>
fetchVars == <<files, fetching, pin, data, staged>>

Garbage == "garbage"
Unusable == {"none", "damaged", "link"}
FetchEnded == {"idle", "verified", "fetched", "refused", "killed"}

ASSUME FetchAssumption == Releases \cap (Unusable \cup {"malformed", Garbage}) = {}

FetchInit ==
  /\ lock \in Releases /\ pinned = {lock} /\ cache = "none"
  /\ fetching = [f \in Fetchers |-> "idle"]
  /\ pin = [f \in Fetchers |-> Garbage] /\ data = [f \in Fetchers |-> Garbage]
  /\ staged = {}

FetchGoes(f, next) == fetching' = [fetching EXCEPT ![f] = next]

-----------------------------------------------------------------------------

(* The cache must not be a link; then read_lock. *)
FetchStart(f) ==
  /\ fetching[f] \in FetchEnded
  /\ IF cache # "link" /\ lock \in Releases
     THEN FetchGoes(f, "cached") /\ pin' = [pin EXCEPT ![f] = lock]
     ELSE FetchGoes(f, "refused") /\ UNCHANGED pin
  /\ UNCHANGED <<files, data, staged>>

(* The cache will do, or a download is needed; chmod may fail. *)
FetchCached(f) ==
  /\ fetching[f] = "cached"
  /\ IF cache = pin[f] THEN FetchGoes(f, "verified") \/ FetchGoes(f, "refused")
     ELSE FetchGoes(f, "download")
  /\ UNCHANGED <<files, pin, data, staged>>

FetchDownload(f) ==
  /\ fetching[f] = "download"
  /\ \E d \in Releases \cup {Garbage} : data' = [data EXCEPT ![f] = d]
  /\ FetchGoes(f, "validate")
  /\ UNCHANGED <<files, pin, staged>>

(* Mutant: any release of the catalog will do. *)
FetchValidate_Size(f) ==
  /\ fetching[f] = "validate"
  /\ FetchGoes(f, IF data[f] # Garbage THEN "create" ELSE "refused")
  /\ UNCHANGED <<files, pin, data, staged>>

FetchValidate(f) ==
  /\ fetching[f] = "validate"
  /\ FetchGoes(f, IF data[f] = pin[f] THEN "create" ELSE "refused")
  /\ UNCHANGED <<files, pin, data, staged>>

(* replace_atomically *)
FetchCreate(f) ==
  /\ fetching[f] = "create"
  /\ staged' = staged \cup {f} /\ FetchGoes(f, "replace")
  /\ UNCHANGED <<files, pin, data>>

FetchReplace(f) ==
  /\ fetching[f] = "replace"
  /\ cache' = data[f] /\ staged' = staged \ {f} /\ FetchGoes(f, "fetched")
  /\ UNCHANGED <<lock, pinned, pin, data>>

FetchRaise(f) ==
  /\ fetching[f] \in {"download", "create", "replace"}
  /\ staged' = staged \ {f} /\ FetchGoes(f, "refused")
  /\ UNCHANGED <<files, pin, data>>

(* The name of a temporary file that a killed run leaves is not used again. *)
FetchKill(f) ==
  /\ fetching[f] \notin FetchEnded
  /\ staged' = staged \ {f} /\ FetchGoes(f, "killed")
  /\ UNCHANGED <<files, pin, data>>

LockEdit ==
  /\ \E r \in Releases \cup {"malformed"} :
       lock' = r /\ pinned' = pinned \cup ({r} \cap Releases)
  /\ UNCHANGED <<cache, fetching, pin, data, staged>>

CacheSpoiled ==
  /\ cache' \in Unusable
  /\ UNCHANGED <<lock, pinned, fetching, pin, data, staged>>

FetchStep(f) ==
  \/ FetchStart(f) \/ FetchCached(f) \/ FetchDownload(f) \/ FetchValidate(f)
  \/ FetchCreate(f) \/ FetchReplace(f) \/ FetchRaise(f) \/ FetchKill(f)

FetchNext == LockEdit \/ CacheSpoiled \/ \E f \in Fetchers : FetchStep(f)

FetchSpec == FetchInit /\ [][FetchNext]_fetchVars

-----------------------------------------------------------------------------

(* Whatever the server sends, however runs interleave with each other and    *)
(* with edits of the lock, the cache is never a catalog that no lock pinned, *)
(* nor a part of one, and a run that is not killed leaves no temporary file. *)
CatalogPinned ==
  /\ cache \in Unusable \cup pinned
  /\ \A f \in staged : fetching[f] = "replace"

=============================================================================
