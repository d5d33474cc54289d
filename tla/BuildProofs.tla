--------------------------- MODULE BuildProofs ---------------------------
(***************************************************************************)
(* The promises of the tools that build, for every value of the constants. *)
(* SystemBuild: disks in use are finished and the answer "system image is  *)
(* current" is true, for any number of edits and whatever the sources say  *)
(* after them.  The stamp is compared with the image by their editions: it *)
(* is never younger than the edition that the build in progress wanted,    *)
(* and what is served is never older.                                      *)
(* CatalogFetch: the cached catalog is one that the lock pinned.  A run    *)
(* moves over the cache only what it compared with its own pin, and its    *)
(* pin is something that the lock has pinned, perhaps before an edit.      *)
(* FileNames: the names the user can type and the names in the catalog,    *)
(* for every size of the field.  Text and loop over it grow together, and  *)
(* what package_header_valid has read says which fields it can still be.   *)
(* ImageBuild: what the builder has written works for the kernel, for any  *)
(* number of slots.  Builder and kernel go over the slots in two loops,    *)
(* and as long as the builder objects to nothing they find the same.       *)
(***************************************************************************)
EXTENDS SystemBuild, CatalogFetch, FileNames, ImageBuild, FiniteSetTheorems, SequenceTheorems,
        TLAPS

Compiled == {"compile", "check", "replace"}
Stamping == {"stamp", "stamping"}

BuildTypeOK ==
  /\ sources \in Edition /\ wanted \in Edition
  /\ stamp \in Edition \cup {NoStamp}
  /\ partial \in Disk /\ image \in Disk
  /\ at \in Resting \cup {"iso"} \cup Fetching \cup Making

(* What is finished, and when.  *)
DisksFinished ==
  /\ OnlyFinishedDisks
  /\ at = "keep" => unfinished = "installed"
  /\ at \in {"check", "replace"} => partial.stage = "built"

(* In which order the editions stand. *)
EditionsOrdered ==
  /\ wanted <= sources
  /\ stamp <= sources
  /\ at \notin Resting => stamp <= wanted
  /\ at \in Compiled => wanted <= partial.edition
  /\ at \in Stamping => wanted <= image.edition

BuildInv == BuildTypeOK /\ DisksFinished /\ EditionsOrdered /\ CurrentIsTrue

-----------------------------------------------------------------------------

LEMMA EditionIsInt == Edition \subseteq Int /\ 0 \in Edition /\ \A e \in Edition : NoStamp < e
BY BuildAssumption DEF Edition, NoStamp

LEMMA DiskForms ==
  /\ NoDisk \in Disk /\ NoDisk.stage = "none"
  /\ \A d \in Disk : d.edition \in Edition
  /\ \A e \in Edition, s \in {"none", "part", "base", "built"} :
       /\ [stage |-> s, edition |-> e] \in Disk
       /\ [stage |-> s, edition |-> e].stage = s
       /\ [stage |-> s, edition |-> e].edition = e
BY EditionIsInt DEF NoDisk, Disk

LEMMA BuiltForm ==
  ASSUME NEW d \in Disk
  PROVE  /\ [d EXCEPT !.stage = "built"] \in Disk
         /\ [d EXCEPT !.stage = "built"].stage = "built"
         /\ [d EXCEPT !.stage = "built"].edition = d.edition
BY DEF Disk

LEMMA BuildInitial == BuildInit => BuildInv
BY EditionIsInt
  DEF BuildInit, BuildInv, BuildTypeOK, DisksFinished, EditionsOrdered, CurrentIsTrue,
      OnlyFinishedDisks, Disk, NoDisk, NoStamp, Resting, Making, Compiled, Stamping

(* What each step of a build, an edit, a clean-up or a kill keeps.           *)
LEMMA BuildStepKeeps == BuildInv /\ [BuildNext]_buildVars => BuildInv'
<1>. SUFFICES ASSUME BuildInv, [BuildNext]_buildVars PROVE BuildInv'
  OBVIOUS
<1>. USE EditionIsInt DEF BuildInv, BuildTypeOK
<1>0. /\ sources \in Int /\ wanted \in Int /\ stamp \in Int
      /\ partial.edition \in Edition /\ image.edition \in Int
  <2>1. partial.edition \in Edition /\ image.edition \in Edition
    BY DiskForms
  <2>2. stamp \in Edition \/ stamp = -1
    BY DEF NoStamp
  <2>3. \A e \in Edition : e \in Int
    BY BuildAssumption DEF Edition
  <2>4. stamp \in Int
    BY <2>2, <2>3
  <2>. QED BY <2>1, <2>3, <2>4
<1>1. CASE BuildStart
  <2>1. image # NoDisk /\ UpToDate => \/ Contents[image.edition] = Contents[sources]
                                      \/ stamp < image.edition
    <3>. SUFFICES ASSUME image # NoDisk, UpToDate, ~ (stamp < image.edition)
                  PROVE  Contents[image.edition] = Contents[sources]
      OBVIOUS
    <3>1. stamp <= image.edition
      BY DEF CurrentIsTrue
    <3>2. stamp = image.edition
      BY <1>0, <3>1
    <3>. QED BY <3>2 DEF UpToDate
  <2>2. /\ sources' = sources /\ stamp' = stamp /\ image' = image /\ partial' = partial
        /\ toolchain' = toolchain /\ wanted' = sources /\ iso' = iso
        /\ at' = IF UpToDate THEN "current" ELSE "iso"
    BY <1>1 DEF BuildStart, caches, outputs
  <2>3. BuildTypeOK'
    BY <2>2 DEF Resting
  <2>4. DisksFinished'
    BY <2>2 DEF DisksFinished, OnlyFinishedDisks, Making
  <2>5. EditionsOrdered'
    BY <2>2 DEF EditionsOrdered, Resting, Compiled, Stamping
  <2>6. CurrentIsTrue'
    <3>1. UpToDate => image # NoDisk
      BY DEF UpToDate
    <3>. QED BY <2>1, <2>2, <3>1 DEF CurrentIsTrue
  <2>. QED BY <2>3, <2>4, <2>5, <2>6
<1>2. CASE IsoCached \/ IsoOpen \/ IsoDownload \/ IsoVerify
  BY <1>2 DEF IsoCached, IsoOpen, IsoDownload, IsoVerify, caches, outputs, DisksFinished,
     OnlyFinishedDisks, EditionsOrdered, CurrentIsTrue, Resting, Fetching, Making, Compiled, Stamping
<1>3. CASE ToolchainCached \/ ToolchainRefused \/ ToolchainCreate \/ ToolchainInstall \/ ToolchainKeep
  BY <1>3 DEF ToolchainCached, ToolchainRefused, ToolchainCreate, ToolchainInstall, ToolchainKeep,
     caches, outputs, DisksFinished,
     OnlyFinishedDisks, EditionsOrdered, CurrentIsTrue, Resting, Fetching, Making, Compiled, Stamping
<1>4. CASE BuildRefused \/ QemuCheck
  BY <1>4 DEF BuildRefused, QemuCheck, caches, outputs, DisksFinished,
     OnlyFinishedDisks, EditionsOrdered, CurrentIsTrue, Resting, Fetching, Making, Compiled, Stamping
<1>5. ASSUME at \in {"base", "copy", "serve", "compile"}, at' \in {"copy", "serve", "compile", "check"},
             UNCHANGED <<sources, iso, toolchain, unfinished, image, stamp, wanted>>,
             partial' \in Disk,
             at' = "compile" => partial'.edition = sources,
             at' = "check" => partial'.stage = "built" /\ partial'.edition = partial.edition /\ at = "compile"
      PROVE  BuildInv'
  <2>1. BuildTypeOK' /\ DisksFinished'
    BY <1>5 DEF DisksFinished, OnlyFinishedDisks, Resting, Making
  <2>2. EditionsOrdered'
    BY <1>0, <1>5 DEF EditionsOrdered, Resting, Compiled, Stamping
  <2>3. CurrentIsTrue'
    BY <1>5 DEF CurrentIsTrue
  <2>. QED BY <2>1, <2>2, <2>3
<1>5a. CASE CopyOpen
  BY <1>5, <1>5a, DiskForms DEF CopyOpen, Part, caches
<1>5b. CASE BuildCopy
  BY <1>5, <1>5b, DiskForms DEF BuildCopy, caches
<1>5c. CASE BuildServe
  BY <1>5, <1>5c, DiskForms DEF BuildServe, Part, caches
<1>5d. CASE BuildCompile
  BY <1>5, <1>5d, BuiltForm DEF BuildCompile, caches
<1>6. CASE BuildReplace
  <2>1. /\ at = "replace" /\ at' = "stamp" /\ image' = partial /\ partial' = NoDisk
        /\ UNCHANGED <<sources, iso, toolchain, unfinished, stamp, wanted>>
    BY <1>6 DEF BuildReplace, caches
  <2>2. wanted <= image'.edition /\ stamp <= wanted /\ image'.edition \in Int
    BY <1>0, <2>1 DEF EditionsOrdered, Compiled, Resting
  <2>3. stamp <= image'.edition
    BY <1>0, <2>2
  <2>4. BuildTypeOK' /\ DisksFinished'
    BY <2>1, DiskForms DEF DisksFinished, OnlyFinishedDisks, Making
  <2>5. EditionsOrdered'
    BY <2>1, <2>2 DEF EditionsOrdered, Resting, Compiled, Stamping
  <2>6. CurrentIsTrue'
    BY <2>1, <2>3 DEF CurrentIsTrue
  <2>. QED BY <2>4, <2>5, <2>6
<1>7. CASE StampOpen \/ StampWrite
  <2>1. /\ at \in Stamping /\ at' \in {"stamping", "built"} /\ stamp' \in {NoStamp, wanted}
        /\ UNCHANGED <<sources, iso, toolchain, unfinished, partial, image, wanted>>
    BY <1>7 DEF StampOpen, StampWrite, Stamping, caches
  <2>2. wanted <= image.edition /\ stamp' <= wanted /\ stamp' \in Int
    BY <1>0, <2>1 DEF EditionsOrdered, NoStamp
  <2>3. stamp' <= image.edition /\ stamp' <= sources
    BY <1>0, <2>2 DEF EditionsOrdered
  <2>4. BuildTypeOK' /\ DisksFinished'
    BY <2>1 DEF DisksFinished, OnlyFinishedDisks, Making, Stamping, Resting
  <2>5. EditionsOrdered'
    BY <2>1, <2>2, <2>3 DEF EditionsOrdered, Compiled
  <2>6. CurrentIsTrue'
    BY <2>1, <2>3 DEF CurrentIsTrue
  <2>. QED BY <2>4, <2>5, <2>6
<1>8. CASE BuildRaise \/ BuildKill
  BY <1>8 DEF BuildRaise, BuildKill,
     caches, outputs, DisksFinished,
     OnlyFinishedDisks, EditionsOrdered, CurrentIsTrue, Resting, Fetching, Making, Compiled, Stamping
<1>9. CASE BuildEdit
  <2>1. /\ sources' = sources + 1 /\ sources' \in Edition
        /\ UNCHANGED <<iso, toolchain, unfinished, partial, image, stamp, at, wanted>>
    BY <1>9, BuildAssumption DEF BuildEdit, Edition, caches, outputs
  <2>2. wanted <= sources' /\ stamp <= sources'
    BY <1>0, <2>1 DEF EditionsOrdered
  <2>3. BuildTypeOK' /\ DisksFinished' /\ CurrentIsTrue'
    BY <2>1 DEF DisksFinished, OnlyFinishedDisks, CurrentIsTrue
  <2>4. EditionsOrdered'
    BY <2>1, <2>2 DEF EditionsOrdered
  <2>. QED BY <2>3, <2>4
<1>10. CASE BuildClean \/ MoveAside
  <2>1. /\ at \in Resting /\ at' \in {at, "idle"} /\ UNCHANGED <<sources, iso, toolchain, wanted>>
        /\ partial' \in {partial, NoDisk}
    BY <1>10 DEF BuildClean, MoveAside, caches
  <2>2. /\ image' \in {image, NoDisk} /\ stamp' \in {stamp, NoStamp}
        /\ at' = "idle" \/ (image' = image /\ stamp' = stamp)
    <3>1. CASE BuildClean
      <4>1. PICK gone \in SUBSET {"partial", "image", "stamp"} :
              /\ image' = IF "image" \in gone THEN NoDisk ELSE image
              /\ stamp' = IF "stamp" \in gone THEN NoStamp ELSE stamp
        BY <3>1, Zenon DEF BuildClean
      <4>2. image' \in {image, NoDisk}
        BY <4>1, Zenon
      <4>3. stamp' \in {stamp, NoStamp}
        BY <4>1, Zenon
      <4>4. at' = "idle"
        BY <3>1, Zenon DEF BuildClean
      <4>. QED BY <4>2, <4>3, <4>4
    <3>2. CASE MoveAside
      BY <3>2 DEF MoveAside
    <3>. QED BY <1>10, <3>1, <3>2
  <2>3. stamp' \in Int /\ stamp' <= stamp /\ stamp' <= sources
    BY <1>0, <2>2 DEF EditionsOrdered, NoStamp
  <2>4. BuildTypeOK' /\ DisksFinished'
    BY <2>1, <2>2, DiskForms DEF DisksFinished, OnlyFinishedDisks, Resting, Making
  <2>5. EditionsOrdered'
    BY <2>1, <2>3 DEF EditionsOrdered, Resting, Compiled, Stamping
  <2>6. image' # NoDisk => stamp' <= image'.edition
    BY <1>0, <2>2, <2>3 DEF CurrentIsTrue
  <2>7. CurrentIsTrue'
    BY <2>1, <2>2, <2>6 DEF CurrentIsTrue
  <2>. QED BY <2>4, <2>5, <2>7
<1>11. CASE UNCHANGED buildVars
  BY <1>11 DEF buildVars, caches, outputs, DisksFinished, OnlyFinishedDisks, EditionsOrdered, CurrentIsTrue
<1>. QED
  BY <1>1, <1>2, <1>3, <1>4, <1>5a, <1>5b, <1>5c, <1>5d, <1>6, <1>7, <1>8, <1>9, <1>10, <1>11 DEF BuildNext, BuildStep

(* No disk is in use that a guest has not finished, and no installer that    *)
(* was not verified, however often sources change and builds die.            *)
THEOREM FinishedDisksAlways == BuildSpec => []OnlyFinishedDisks
<1>1. BuildInv => OnlyFinishedDisks
  BY DEF BuildInv, DisksFinished
<1>. QED BY <1>1, BuildInitial, BuildStepKeeps, PTL DEF BuildSpec

(* "system image is current" is true, and the stamp never vouches for        *)
(* sources newer than the image's, for any number of edits whatever they     *)
(* make the sources say.                                                     *)
THEOREM CurrentAlways == BuildSpec => []CurrentIsTrue
<1>1. BuildInv => CurrentIsTrue
  BY DEF BuildInv
<1>. QED BY <1>1, BuildInitial, BuildStepKeeps, PTL DEF BuildSpec

-----------------------------------------------------------------------------
(* CatalogFetch *)

(* A run that is past read_lock, and one that is past validate_catalog.  *)
Pinning == {"cached", "download", "validate", "create", "replace"}
DataChecked == {"create", "replace"}

FetchTypeOK ==
  /\ pinned \subseteq Releases
  /\ staged \subseteq Fetchers
  /\ fetching \in [Fetchers -> FetchEnded \cup Pinning]
  /\ pin \in [Fetchers -> Releases \cup {Garbage}]
  /\ data \in [Fetchers -> Releases \cup {Garbage}]

LockWasPinned == lock \in pinned \cup {"malformed"}

PinWasPinned == \A f \in Fetchers : fetching[f] \in Pinning => pin[f] \in pinned

DataIsPin == \A f \in Fetchers : fetching[f] \in DataChecked => data[f] = pin[f]

FetchInv == FetchTypeOK /\ LockWasPinned /\ PinWasPinned /\ DataIsPin /\ CatalogPinned

-----------------------------------------------------------------------------

LEMMA FetchInitial == FetchInit => FetchInv
BY FetchAssumption
  DEF FetchInit, FetchInv, FetchTypeOK, LockWasPinned, PinWasPinned, DataIsPin, CatalogPinned,
      FetchEnded, Pinning, DataChecked, Unusable

(* A step of one run leaves the others where they are; so it is enough to    *)
(* look at its own data, and at the cache.                                   *)
LEMMA RunKeeps ==
  ASSUME FetchInv, NEW f \in Fetchers, NEW next \in FetchEnded \cup Pinning,
         FetchGoes(f, next),
         lock' = lock, pinned' = pinned,
         pin' \in [Fetchers -> Releases \cup {Garbage}],
         data' \in [Fetchers -> Releases \cup {Garbage}],
         \A g \in Fetchers \ {f} : pin'[g] = pin[g] /\ data'[g] = data[g],
         next \in Pinning => pin'[f] \in pinned,
         next \in DataChecked => data'[f] = pin'[f],
         cache' \in Unusable \cup pinned,
         next = "replace" => staged' = staged \cup {f},
         next # "replace" => staged' = staged \ {f}
  PROVE  FetchInv'
<1>. USE DEF FetchInv
<1>1. (\A g \in Fetchers \ {f} : fetching'[g] = fetching[g]) /\ fetching'[f] = next
  BY DEF FetchGoes, FetchTypeOK
<1>2. FetchTypeOK'
  <2>1. staged' \subseteq Fetchers
    BY DEF FetchTypeOK
  <2>2. fetching' \in [Fetchers -> FetchEnded \cup Pinning]
    BY DEF FetchTypeOK, FetchGoes
  <2>. QED BY <2>1, <2>2 DEF FetchTypeOK
<1>3. LockWasPinned'
  BY DEF LockWasPinned
<1>4. PinWasPinned'
  BY <1>1 DEF PinWasPinned
<1>5. DataIsPin'
  BY <1>1 DEF DataIsPin
<1>6. CatalogPinned'
  BY <1>1 DEF CatalogPinned, FetchTypeOK
<1>. QED BY <1>2, <1>3, <1>4, <1>5, <1>6

(* A run whose data and pin do not change. *)
LEMMA RunMoves ==
  ASSUME FetchInv, NEW f \in Fetchers, NEW next \in FetchEnded \cup Pinning,
         FetchGoes(f, next),
         UNCHANGED <<lock, pinned, pin, data>>,
         next \in Pinning => fetching[f] \in Pinning,
         next \in DataChecked => data[f] = pin[f],
         cache' \in Unusable \cup pinned,
         next = "replace" => staged' = staged \cup {f},
         next # "replace" => staged' = staged \ {f}
  PROVE  FetchInv'
<1>1. /\ pin' \in [Fetchers -> Releases \cup {Garbage}]
      /\ data' \in [Fetchers -> Releases \cup {Garbage}]
  BY DEF FetchInv, FetchTypeOK
<1>2. next \in Pinning => pin[f] \in pinned
  BY DEF FetchInv, PinWasPinned
<1>. QED BY <1>1, <1>2, RunKeeps

(* What each step of a run, an edit of the lock and damage to the cache keep. *)
LEMMA FetchStepKeeps == FetchInv /\ [FetchNext]_fetchVars => FetchInv'
<1>. SUFFICES ASSUME FetchInv, [FetchNext]_fetchVars PROVE FetchInv'
  OBVIOUS
<1>0. cache \in Unusable \cup pinned /\ \A f \in staged : fetching[f] = "replace"
  BY DEF FetchInv, CatalogPinned
<1>1. ASSUME NEW f \in Fetchers, FetchStep(f) PROVE FetchInv'
  <2>0. fetching[f] # "replace" => staged \ {f} = staged
    BY <1>0
  <2>1. CASE FetchStart(f)
    <3>0. staged \ {f} = staged
      BY <2>0, <2>1 DEF FetchStart, FetchEnded
    <3>1. CASE FetchGoes(f, "refused") /\ UNCHANGED pin
      BY <1>0, <2>1, <3>0, <3>1, RunMoves DEF FetchStart, FetchEnded, Pinning, DataChecked, files
    <3>2. CASE FetchGoes(f, "cached") /\ pin' = [pin EXCEPT ![f] = lock] /\ lock \in Releases
      <4>1. lock \in pinned
        BY <3>2, FetchAssumption DEF FetchInv, LockWasPinned
      <4>2. /\ pin' \in [Fetchers -> Releases \cup {Garbage}] /\ pin'[f] = lock
            /\ data' \in [Fetchers -> Releases \cup {Garbage}] /\ data' = data
            /\ \A g \in Fetchers \ {f} : pin'[g] = pin[g]
        BY <2>1, <3>2 DEF FetchInv, FetchTypeOK, FetchStart
      <4>. QED BY <1>0, <2>1, <3>0, <3>2, <4>1, <4>2, RunKeeps DEF FetchStart, FetchEnded, Pinning, DataChecked, files
    <3>. QED BY <2>1, <3>1, <3>2 DEF FetchStart
  <2>2. CASE FetchCached(f)
    BY <1>0, <2>0, <2>2, RunMoves DEF FetchCached, FetchEnded, Pinning, DataChecked, files
  <2>3. CASE FetchDownload(f)
    <3>1. PICK d \in Releases \cup {Garbage} : data' = [data EXCEPT ![f] = d]
      BY <2>3 DEF FetchDownload
    <3>2. /\ pin[f] \in pinned /\ pin' = pin /\ pin' \in [Fetchers -> Releases \cup {Garbage}]
          /\ data' \in [Fetchers -> Releases \cup {Garbage}]
          /\ \A g \in Fetchers \ {f} : data'[g] = data[g]
      BY <2>3, <3>1 DEF FetchInv, FetchTypeOK, PinWasPinned, FetchDownload, Pinning
    <3>. QED BY <1>0, <2>0, <2>3, <3>1, <3>2, RunKeeps DEF FetchDownload, Pinning, DataChecked, files
  <2>4. CASE FetchValidate(f)
    BY <1>0, <2>0, <2>4, RunMoves DEF FetchValidate, FetchEnded, Pinning, DataChecked, files
  <2>5. CASE FetchCreate(f)
    <3>1. data[f] = pin[f]
      BY <2>5 DEF FetchInv, DataIsPin, FetchCreate, DataChecked
    <3>. QED BY <1>0, <2>5, <3>1, RunMoves DEF FetchCreate, Pinning, files
  <2>6. CASE FetchReplace(f)
    <3>1. data[f] = pin[f] /\ pin[f] \in pinned
      BY <2>6 DEF FetchInv, DataIsPin, PinWasPinned, FetchReplace, DataChecked, Pinning
    <3>. QED BY <2>6, <3>1, RunMoves DEF FetchReplace, FetchEnded, Pinning, DataChecked
  <2>7. CASE FetchRaise(f)
    BY <1>0, <2>7, RunMoves DEF FetchRaise, FetchEnded, Pinning, DataChecked, files
  <2>8. CASE FetchKill(f)
    BY <1>0, <2>8, RunMoves DEF FetchKill, FetchEnded, Pinning, DataChecked, files
  <2>. QED BY <1>1, <2>1, <2>2, <2>3, <2>4, <2>5, <2>6, <2>7, <2>8 DEF FetchStep
<1>2. CASE LockEdit
  <2>1. PICK r \in Releases \cup {"malformed"} : lock' = r /\ pinned' = pinned \cup ({r} \cap Releases)
    BY <1>2 DEF LockEdit
  <2>2. pinned \subseteq pinned' /\ pinned' \subseteq Releases /\ UNCHANGED <<cache, fetching, pin, data, staged>>
    BY <1>2, <2>1 DEF LockEdit, FetchInv, FetchTypeOK
  <2>3. LockWasPinned'
    BY <2>1 DEF LockWasPinned
  <2>. QED BY <2>2, <2>3 DEF FetchInv, FetchTypeOK, PinWasPinned, DataIsPin, CatalogPinned
<1>3. CASE CacheSpoiled
  BY <1>3 DEF CacheSpoiled, FetchInv, FetchTypeOK, LockWasPinned, PinWasPinned, DataIsPin, CatalogPinned
<1>4. CASE UNCHANGED fetchVars
  BY <1>4 DEF fetchVars, files, FetchInv, FetchTypeOK, LockWasPinned, PinWasPinned, DataIsPin, CatalogPinned
<1>. QED BY <1>1, <1>2, <1>3, <1>4 DEF FetchNext

(* The cached catalog is one that the lock pinned, whole, and no temporary   *)
(* file is left by a run that was not killed, for every number of runs that  *)
(* share the cache.                                                          *)
THEOREM CatalogPinnedAlways == FetchSpec => []CatalogPinned
<1>1. FetchInv => CatalogPinned
  BY DEF FetchInv
<1>. QED BY <1>1, FetchInitial, FetchStepKeeps, PTL DEF FetchSpec

-----------------------------------------------------------------------------
(* Filenames.  What package_header_valid has read decides what it says     *)
(* next; FoldFacts turns the loop over the field into steps of the text.   *)

Field0 == [at |-> "name", length |-> 0]

Headers == INSTANCE FoldFacts WITH Op <- PackageStep, Base <- Field0

HeaderRead(t) == Headers!Fold(t)

(* k bytes of a name, and NULs behind them. *)
NameThenNULs(t, k) ==
  /\ \A i \in 1..k : t[i] \in NameBytes
  /\ \A i \in k + 1..Len(t) : t[i] = "NUL"

ReadName(t) ==
  /\ HeaderRead(t) \in [at : {"name", "padding", "invalid"}, length : Nat]
  /\ HeaderRead(t).at = "name" =>
       /\ HeaderRead(t).length = Len(t) /\ Len(t) <= NameSize - 1
       /\ NameThenNULs(t, Len(t))
  /\ HeaderRead(t).at = "padding" =>
       /\ HeaderRead(t).length < Len(t) /\ HeaderRead(t).length <= NameSize - 1
       /\ NameThenNULs(t, HeaderRead(t).length)
  /\ HeaderRead(t).at = "invalid" =>
       \A k \in 0..Len(t) : k <= NameSize - 1 => ~NameThenNULs(t, k)

NameInv == text \in Seq(Alphabet) /\ Len(text) <= NameSize /\ ReadName(text)

LEMMA NameBytesAre ==
  /\ NameBytes \subseteq Alphabet /\ "NUL" \in Alphabet
  /\ "NUL" \notin NameBytes /\ \A c \in NameBytes : Capital(c) = c
BY Zenon DEF NameBytes, Alphabet, Capital

LEMMA TextForm ==
  ASSUME NEW t \in Seq(Alphabet)
  PROVE  Len(t) \in Nat /\ t \in [1..Len(t) -> Alphabet]
BY LenProperties

LEMMA HeaderReadIs ==
  ASSUME NEW t
  PROVE  FoldLeft(PackageStep, [at |-> "name", length |-> 0], t) = HeaderRead(t)
BY Zenon DEF HeaderRead, Field0, FoldLeft, MapThenFoldSet, Max,
   Headers!Fold, Headers!FoldLeft, Headers!MapThenFoldSet, Headers!Max

LEMMA ReadNothing == ReadName(<<>>)
<1>1. HeaderRead(<<>>) = Field0
  BY Headers!FoldEmpty DEF HeaderRead
<1>. QED BY <1>1, NameSizeAssumption DEF ReadName, NameThenNULs, Field0

LEMMA ReadOneMore ==
  ASSUME NEW t \in Seq(Alphabet), NEW c \in Alphabet, ReadName(t)
  PROVE  ReadName(Append(t, c))
<1>. DEFINE u == Append(t, c)
            s == HeaderRead(t)
            r == HeaderRead(u)
<1>1. /\ Len(t) \in Nat /\ Len(u) = Len(t) + 1 /\ u[Len(t) + 1] = c
      /\ \A i \in 1..Len(t) : u[i] = t[i]
  BY AppendProperties, LenProperties
<1>2. r = PackageStep(s, c)
  BY Headers!FoldAppend DEF HeaderRead
<1>3. /\ s \in [at : {"name", "padding", "invalid"}, length : Nat]
      /\ s.at = "name" => s.length = Len(t) /\ Len(t) <= NameSize - 1 /\ NameThenNULs(t, Len(t))
      /\ s.at = "padding" =>
           s.length < Len(t) /\ s.length <= NameSize - 1 /\ NameThenNULs(t, s.length)
      /\ s.at = "invalid" => \A k \in 0..Len(t) : k <= NameSize - 1 => ~NameThenNULs(t, k)
  BY DEF ReadName
<1>. HIDE DEF u, s, r
<1>4. \A k \in 0..Len(t) : NameThenNULs(u, k) <=> NameThenNULs(t, k) /\ c = "NUL"
  BY <1>1 DEF NameThenNULs
<1>5. NameThenNULs(u, Len(u)) <=> NameThenNULs(t, Len(t)) /\ c \in NameBytes
  BY <1>1 DEF NameThenNULs
<1>6. \A k \in 0..Len(u) : k = Len(u) \/ k \in 0..Len(t)
  BY <1>1
<1>7. CASE s.at = "name" /\ c = "NUL"
  <2>1. r = [s EXCEPT !.at = "padding"]
    BY <1>2, <1>7 DEF PackageStep
  <2>2. r \in [at : {"name", "padding", "invalid"}, length : Nat] /\ r.at = "padding" /\ r.length = Len(t)
    BY <1>3, <1>7, <2>1
  <2>3. NameThenNULs(u, Len(t))
    BY <1>1, <1>3, <1>4, <1>7
  <2>. QED BY <1>1, <1>3, <1>7, <2>2, <2>3 DEF ReadName, u, r
<1>8. CASE s.at = "name" /\ c # "NUL" /\ s.length < NameSize - 1 /\ c \in NameBytes
  <2>1. r = [s EXCEPT !.length = @ + 1]
    BY <1>2, <1>8 DEF PackageStep
  <2>2. r \in [at : {"name", "padding", "invalid"}, length : Nat] /\ r.at = "name" /\ r.length = Len(t) + 1
    BY <1>3, <1>8, <2>1
  <2>3. NameThenNULs(u, Len(u))
    BY <1>3, <1>5, <1>8
  <2>4. Len(u) <= NameSize - 1
    BY <1>1, <1>3, <1>8, NameSizeAssumption
  <2>. QED BY <1>1, <2>2, <2>3, <2>4 DEF ReadName, u, r
<1>9. CASE \/ s.at = "name" /\ c # "NUL" /\ ~(s.length < NameSize - 1 /\ c \in NameBytes)
           \/ s.at = "padding" /\ c # "NUL"
           \/ s.at = "invalid"
  <2>1. r = [s EXCEPT !.at = "invalid"]
    BY <1>2, <1>3, <1>9 DEF PackageStep
  <2>2. r \in [at : {"name", "padding", "invalid"}, length : Nat] /\ r.at = "invalid"
    BY <1>3, <2>1
  <2>3. \A k \in 0..Len(t) : k <= NameSize - 1 => ~NameThenNULs(u, k)
    BY <1>3, <1>4, <1>9
  <2>4. Len(u) <= NameSize - 1 => ~NameThenNULs(u, Len(u))
    <3>1. CASE s.at = "name"
      BY <1>1, <1>3, <1>5, <1>9, <3>1, NameSizeAssumption
    <3>2. CASE s.at = "padding"
      <4>1. t[s.length + 1] = "NUL" /\ s.length + 1 \in 1..Len(t)
        BY <1>1, <1>3, <3>2 DEF NameThenNULs
      <4>. QED BY <1>5, <4>1, NameBytesAre DEF NameThenNULs
    <3>3. CASE s.at = "invalid"
      <4>1. Len(t) \in 0..Len(t)
        BY <1>1
      <4>. QED BY <1>1, <1>3, <1>5, <3>3, <4>1, NameSizeAssumption
    <3>. QED BY <1>9, <3>1, <3>2, <3>3
  <2>. QED BY <1>6, <2>2, <2>3, <2>4 DEF ReadName, u, r
<1>10. CASE s.at = "padding" /\ c = "NUL"
  <2>1. r = s
    BY <1>2, <1>10 DEF PackageStep
  <2>2. NameThenNULs(u, s.length)
    BY <1>1, <1>3, <1>4, <1>10
  <2>. QED BY <1>1, <1>3, <1>10, <2>1, <2>2 DEF ReadName, u, r
<1>. QED BY <1>3, <1>7, <1>8, <1>9, <1>10 DEF u

LEMMA NameInitial == NameInit => NameInv
BY ReadNothing, NameSizeAssumption DEF NameInit, NameInv

LEMMA NameSteps == NameInv /\ [NameNext]_text => NameInv'
<1>. SUFFICES ASSUME NameInv, NameNext PROVE NameInv'
  BY DEF NameInv, ReadName, HeaderRead, NameThenNULs
<1>1. PICK c \in Alphabet : text' = Append(text, c)
  BY DEF NameNext
<1>2. text' \in Seq(Alphabet) /\ Len(text') = Len(text) + 1 /\ Len(text) \in Nat
  BY <1>1, AppendProperties, LenProperties DEF NameInv
<1>3. ReadName(text')
  BY <1>1, ReadOneMore DEF NameInv
<1>4. Len(text') <= NameSize
  BY <1>2, NameSizeAssumption DEF NameNext
<1>. QED BY <1>2, <1>3, <1>4 DEF NameInv, ReadName, HeaderRead, NameThenNULs

LEMMA NameInvariance == NameSpec => []NameInv
BY NameInitial, NameSteps, PTL DEF NameSpec

(* Where a name ends. *)

LEMMA EndIs ==
  ASSUME NEW t \in Seq(Alphabet)
  PROVE  /\ End(t) \in 1..Len(t) + 1
         /\ End(t) = Len(t) + 1 \/ t[End(t)] = "NUL"
         /\ \A j \in 1..End(t) - 1 : t[j] # "NUL"
<1>. DEFINE T == {i \in 1..Len(t) + 1 : i = Len(t) + 1 \/ t[i] = "NUL"}
<1>1. Len(t) \in Nat /\ Len(t) + 1 \in T /\ T \subseteq Nat
  BY TextForm
<1>2. \E m \in T : \A j \in T : m <= j
  <2>. HIDE DEF T
  <2>. QED BY <1>1, Headers!LeastNumber
<1>3. PICK m \in T : \A j \in T : m <= j
  BY <1>2
<1>4. /\ m \in 1..Len(t) + 1
      /\ m = Len(t) + 1 \/ t[m] = "NUL"
      /\ \A j \in 1..m - 1 : t[j] # "NUL"
  BY <1>1, <1>3
<1>. QED BY <1>4 DEF End

(* The place of the first NUL. *)
LEMMA PartitionIs ==
  ASSUME NEW t \in Seq(Alphabet)
  PROVE  \/ Partition(t) = 0 /\ \A i \in 1..Len(t) : t[i] # "NUL"
         \/ /\ Partition(t) \in 1..Len(t) /\ t[Partition(t)] = "NUL"
            /\ \A j \in 1..Partition(t) - 1 : t[j] # "NUL"
<1>. DEFINE I == {i \in 1..Len(t) : t[i] = "NUL"}
<1>1. Partition(t) = IF I # {} THEN Min(I) ELSE 0
  BY DEF Partition, SelectInSeq
<1>2. Len(t) \in Nat /\ I \subseteq Nat
  BY TextForm
<1>3. I # {} => Min(I) \in I /\ \A j \in I : Min(I) <= j
  <2>. HIDE DEF I
  <2>1. ASSUME I # {} PROVE \E m \in I : \A j \in I : m <= j
    BY <1>2, <2>1, Headers!LeastNumber
  <2>. QED BY <2>1 DEF Min
<1>4. CASE I = {}
  BY <1>1, <1>4
<1>5. CASE I # {}
  <2>1. Partition(t) \in I /\ \A j \in I : Partition(t) <= j
    BY <1>1, <1>3, <1>5
  <2>2. \A j \in 1..Partition(t) - 1 : j \in 1..Len(t) /\ ~(Partition(t) <= j)
    BY <1>2, <2>1
  <2>. QED BY <2>1, <2>2
<1>. QED BY <1>4, <1>5

(* Every name that is typed. *)
LEMMA NormalizeIs ==
  ASSUME NEW t \in Seq(Alphabet), Normalize(t) # Invalid
  PROVE  /\ Normalize(t) = Capitals(t) /\ Normalize(t) \in Seq(NameBytes)
         /\ Len(Normalize(t)) \in 1..NameSize - 1
<1>1. Capitals(t) = [i \in 1..End(t) - 1 |-> Capital(t[i])] /\ End(t) \in 1..Len(t) + 1
      /\ Len(t) \in Nat
  BY EndIs, TextForm DEF Capitals
<1>2. /\ Normalize(t) = Capitals(t) /\ Len(Capitals(t)) \in 1..NameSize - 1
      /\ \A i \in 1..Len(Capitals(t)) : Capitals(t)[i] \in NameBytes
  BY DEF Normalize
<1>3. Len(Capitals(t)) = End(t) - 1
  BY <1>1
<1>4. Capitals(t) \in Seq(NameBytes)
  <2>1. End(t) - 1 \in Nat /\ DOMAIN Capitals(t) = 1..End(t) - 1
    BY <1>1
  <2>2. Capitals(t) \in [1..End(t) - 1 -> NameBytes]
    BY <1>1, <1>2, <1>3
  <2>. QED BY <2>1, <2>2, SeqDef
<1>. QED BY <1>2, <1>4

(* A text without NULs or small letters is typed as it is. *)
LEMMA NameIsNormal ==
  ASSUME NEW n \in Seq(NameBytes), Len(n) \in 1..NameSize - 1
  PROVE  Normalize(n) = n
<1>1. n \in Seq(Alphabet) /\ n \in [1..Len(n) -> NameBytes] /\ Len(n) \in Nat
  <2>1. Len(n) \in Nat /\ n \in [1..Len(n) -> NameBytes]
    BY LenProperties
  <2>2. n \in [1..Len(n) -> Alphabet]
    BY <2>1, NameBytesAre
  <2>. QED BY <2>1, <2>2, SeqDef
<1>2. End(n) = Len(n) + 1
  <2>1. End(n) = Len(n) + 1 \/ (End(n) \in 1..Len(n) /\ n[End(n)] = "NUL")
    BY <1>1, EndIs
  <2>. QED BY <1>1, <2>1, NameBytesAre
<1>3. Capitals(n) = n
  BY <1>1, <1>2, NameBytesAre DEF Capitals
<1>. QED BY <1>1, <1>3 DEF Normalize

LEMMA PaddedIs ==
  ASSUME NEW n \in Seq(NameBytes), Len(n) \in 1..NameSize - 1
  PROVE  /\ Padded(n) \in Seq(Alphabet) /\ Len(Padded(n)) = NameSize
         /\ NameThenNULs(Padded(n), Len(n)) /\ \A i \in 1..Len(n) : Padded(n)[i] = n[i]
<1>1. Len(n) \in Nat /\ n \in [1..Len(n) -> NameBytes]
  BY LenProperties
<1>2. Padded(n) \in [1..NameSize -> Alphabet] /\ NameSize \in Nat
  BY <1>1, NameBytesAre, NameSizeAssumption DEF Padded
<1>3. Padded(n) \in Seq(Alphabet) /\ Len(Padded(n)) = NameSize
  BY <1>2
<1>4. \A i \in 1..NameSize : Padded(n)[i] = IF i <= Len(n) THEN n[i] ELSE "NUL"
  BY DEF Padded
<1>5. 1..Len(n) \subseteq 1..NameSize /\ Len(n) + 1..NameSize \subseteq 1..NameSize
  BY <1>1, <1>2
<1>6. \A i \in 1..Len(n) : Padded(n)[i] = n[i]
  BY <1>1, <1>4, <1>5
<1>7. \A i \in Len(n) + 1..NameSize : Padded(n)[i] = "NUL"
  BY <1>1, <1>2, <1>4, <1>5
<1>. QED BY <1>1, <1>3, <1>6, <1>7 DEF NameThenNULs

(* A field that holds a name and NULs behind it, as the host reads it. *)
LEMMA FieldOfName ==
  ASSUME NEW t \in Seq(Alphabet), Len(t) = NameSize, NEW k \in 1..NameSize - 1,
         NameThenNULs(t, k)
  PROVE  Partition(t) = k + 1 /\ HostField(t) /\ HostName(t) = SubSeq(t, 1, k)
<1>1. NameSize \in Nat /\ t[k + 1] = "NUL" /\ k + 1 \in 1..Len(t)
  BY NameSizeAssumption DEF NameThenNULs
<1>2. \A i \in 1..k : t[i] # "NUL"
  BY NameBytesAre DEF NameThenNULs
<1>3. Partition(t) = k + 1
  BY <1>1, <1>2, PartitionIs
<1>. QED BY <1>1, <1>3 DEF HostField, HostName, NameThenNULs

LEMMA NameOfField ==
  ASSUME NEW t \in Seq(Alphabet), Len(t) = NameSize, HostField(t)
  PROVE  \E k \in 1..NameSize - 1 : NameThenNULs(t, k)
<1>1. Partition(t) \in 1..NameSize /\ Partition(t) > 1
  BY PartitionIs DEF HostField
<1>2. Partition(t) - 1 \in 1..NameSize - 1 /\ NameSize \in Nat
  BY <1>1, NameSizeAssumption
<1>3. NameThenNULs(t, Partition(t) - 1)
  BY <1>1, <1>2 DEF HostField, NameThenNULs
<1>. QED BY <1>2, <1>3

(* For every length of a name: one that the user can type is typed again   *)
(* as it is listed, storage_validate_files accepts its field, and so does  *)
(* the exporter, "." and ".." excepted.                                    *)
THEOREM TypedNamesKeptAlways == NameSpec => []TypedNamesKept
<1>1. NameInv => TypedNamesKept
  <2>. SUFFICES ASSUME NameInv, Typed # Invalid
                PROVE  /\ Normalize(Typed) = Typed
                       /\ StoredName(Padded(Typed))
                       /\ ExporterName(Padded(Typed)) \/ Typed \in {<<".">>, <<".", ".">>}
    BY Zenon DEF TypedNamesKept
  <2>1. Typed \in Seq(NameBytes) /\ Len(Typed) \in 1..NameSize - 1 /\ Len(Typed) \in Nat
    BY NormalizeIs DEF Typed, NameInv
  <2>2. Normalize(Typed) = Typed
    BY <2>1, NameIsNormal
  <2>3. /\ Padded(Typed) \in Seq(Alphabet) /\ Len(Padded(Typed)) = NameSize
        /\ NameThenNULs(Padded(Typed), Len(Typed))
        /\ \A i \in 1..Len(Typed) : Padded(Typed)[i] = Typed[i]
    BY <2>1, PaddedIs
  <2>4. StoredName(Padded(Typed))
    <3>1. Padded(Typed)[1] # "NUL"
      BY <2>1, <2>3, NameBytesAre DEF NameThenNULs
    <3>2. Padded(Typed)[NameSize] = "NUL" /\ NameSize \in 1..NameSize
      BY <2>1, <2>3, NameSizeAssumption DEF NameThenNULs
    <3>. QED BY <3>1, <3>2 DEF StoredName
  <2>5. HostField(Padded(Typed)) /\ HostName(Padded(Typed)) = SubSeq(Padded(Typed), 1, Len(Typed))
    BY <2>1, <2>3, FieldOfName
  <2>6. SubSeq(Padded(Typed), 1, Len(Typed)) = Typed
    BY <2>1, <2>3, NameSizeAssumption
  <2>. QED BY <2>2, <2>4, <2>5, <2>6, Zenon DEF ExporterName
<1>. QED BY <1>1, NameInvariance, PTL

(* For every size of the field: the kernel lists a package only if the     *)
(* builder lets it in, under a name the user can type, and refuses none    *)
(* that the builder lets in, but for one called only ".BAS".               *)
THEOREM CatalogNamesAgreeAlways == NameSpec => []CatalogNamesAgree
<1>. DEFINE s == HeaderRead(text)
<1>1. PackageName(text) <=> s.at = "padding" /\ s.length >= 5 /\ HasSuffix(SubSeq(text, 1, s.length))
  BY HeaderReadIs, Zenon DEF PackageName
<1>2. ASSUME NameInv, IsField, PackageName(text)
      PROVE  /\ Normalize(text) = HostName(text)
             /\ Padded(Normalize(text)) = text
             /\ BuilderName(text)
  <2>1. /\ text \in Seq(Alphabet) /\ Len(text) = NameSize /\ NameSize \in Nat
        /\ s.at = "padding" /\ s.length \in 5..NameSize - 1 /\ NameThenNULs(text, s.length)
        /\ HasSuffix(SubSeq(text, 1, s.length))
    BY <1>1, <1>2, NameSizeAssumption DEF NameInv, IsField, ReadName
  <2>. HIDE DEF s
  <2>2. PICK k \in 5..NameSize - 1 : k = s.length
    BY <2>1
  <2>3. /\ k \in 1..NameSize - 1 /\ NameThenNULs(text, k)
        /\ HasSuffix(SubSeq(text, 1, k))
    BY <2>1, <2>2
  <2>4. HostField(text) /\ HostName(text) = SubSeq(text, 1, k)
    BY <2>1, <2>3, FieldOfName
  <2>5. text \in [1..NameSize -> Alphabet]
    BY <2>1, TextForm
  <2>6. SubSeq(text, 1, k) = [i \in 1..k |-> text[i]]
    BY <2>1, <2>3, <2>5
  <2>7. Capitals(text) = SubSeq(text, 1, k)
    <3>1. End(text) = k + 1
      <4>1. text[k + 1] = "NUL" /\ k + 1 \in 1..Len(text)
        BY <2>1, <2>3 DEF NameThenNULs
      <4>2. \A i \in 1..k : text[i] # "NUL"
        BY <2>3, NameBytesAre DEF NameThenNULs
      <4>3. /\ End(text) \in 1..Len(text) + 1
            /\ End(text) = Len(text) + 1 \/ text[End(text)] = "NUL"
            /\ \A j \in 1..End(text) - 1 : text[j] # "NUL"
        BY <2>1, EndIs
      <4>. QED BY <2>1, <2>3, <4>1, <4>2, <4>3
    <3>2. \A i \in 1..k : Capital(text[i]) = text[i]
      BY <2>3, NameBytesAre DEF NameThenNULs
    <3>3. Capitals(text) = [i \in 1..k |-> Capital(text[i])]
      BY <2>3, <3>1 DEF Capitals
    <3>. QED BY <2>6, <3>2, <3>3
  <2>8. Normalize(text) = SubSeq(text, 1, k)
    <3>1. Len(SubSeq(text, 1, k)) = k /\ \A i \in 1..k : SubSeq(text, 1, k)[i] \in NameBytes
      BY <2>3, <2>6 DEF NameThenNULs
    <3>. QED BY <2>3, <2>7, <3>1 DEF Normalize
  <2>9. Padded(SubSeq(text, 1, k)) = text
    <3>1. Len(SubSeq(text, 1, k)) = k /\ \A i \in 1..k : SubSeq(text, 1, k)[i] = text[i]
      BY <2>3, <2>6
    <3>2. Padded(SubSeq(text, 1, k)) =
            [i \in 1..NameSize |-> IF i <= k THEN SubSeq(text, 1, k)[i] ELSE "NUL"]
      BY <3>1 DEF Padded
    <3>3. \A i \in 1..NameSize : text[i] = IF i <= k THEN SubSeq(text, 1, k)[i] ELSE "NUL"
      BY <2>1, <2>3, <3>1 DEF NameThenNULs
    <3>. QED BY <2>5, <3>2, <3>3
  <2>. QED BY <2>3, <2>4, <2>8, <2>9 DEF BuilderName
<1>3. ASSUME NameInv, IsField, BuilderName(text)
      PROVE  PackageName(text) \/ HostName(text) = <<".", "B", "A", "S">>
  <2>1. text \in Seq(Alphabet) /\ Len(text) = NameSize /\ NameSize \in Nat
    BY <1>3, NameSizeAssumption DEF NameInv, IsField
  <2>2. PICK k \in 1..NameSize - 1 : NameThenNULs(text, k)
    BY <1>3, <2>1, NameOfField DEF BuilderName
  <2>3. HostName(text) = SubSeq(text, 1, k) /\ HasSuffix(HostName(text))
    BY <1>3, <2>1, <2>2, FieldOfName DEF BuilderName
  <2>4. s.at = "padding"
    <3>1. s.at \in {"name", "padding", "invalid"}
      BY <1>3 DEF NameInv, ReadName
    <3>2. s.at # "invalid"
      BY <1>3, <2>1, <2>2 DEF NameInv, ReadName
    <3>3. s.at # "name"
      BY <1>3, <2>1 DEF NameInv, ReadName
    <3>. QED BY <3>1, <3>2, <3>3
  <2>5. s.length \in Nat /\ s.length < Len(text) /\ NameThenNULs(text, s.length)
    BY <1>3, <2>4 DEF NameInv, ReadName
  <2>. HIDE DEF s
  <2>6. s.length = k
    <3>1. CASE s.length < k
      <4>1. text[s.length + 1] = "NUL" /\ text[s.length + 1] \in NameBytes
        BY <2>1, <2>2, <2>5, <3>1 DEF NameThenNULs
      <4>. QED BY <4>1, NameBytesAre
    <3>2. CASE s.length > k
      <4>1. text[k + 1] = "NUL" /\ text[k + 1] \in NameBytes
        BY <2>1, <2>2, <2>5, <3>2 DEF NameThenNULs
      <4>. QED BY <4>1, NameBytesAre
    <3>. QED BY <2>5, <3>1, <3>2
  <2>7. Len(HostName(text)) = k
    BY <2>1, <2>2, <2>3
  <2>8. k >= 4
    BY <2>3, <2>7 DEF HasSuffix
  <2>9. CASE k >= 5
    BY <1>1, <2>3, <2>4, <2>6, <2>9
  <2>10. CASE k = 4
    <3>1. SubSeq(HostName(text), k - 3, k) = <<".", "B", "A", "S">>
      BY <2>3, <2>7 DEF HasSuffix
    <3>2. SubSeq(HostName(text), 1, 4) = HostName(text)
      BY <2>1, <2>3, <2>7, <2>10
    <3>3. k - 3 = 1
      BY <2>10
    <3>. QED BY <2>10, <3>1, <3>2, <3>3, Zenon
  <2>. QED BY <2>8, <2>9, <2>10
<1>4. NameInv => CatalogNamesAgree
  BY <1>2, <1>3, Zenon DEF CatalogNamesAgree
<1>. QED BY <1>4, NameInvariance, PTL

-----------------------------------------------------------------------------
(* The image.  The builder's validation and the kernel's scan go over the  *)
(* same slots; FoldFacts turns both loops into steps of the catalog.       *)

Validation0 == [names |-> <<>>, empty |-> FALSE, sound |-> TRUE]
Scan0 == [index |-> 0, names |-> <<>>, error |-> FALSE]

Builders == INSTANCE FoldFacts WITH Op <- BuilderStep, Base <- Validation0
Kernels == INSTANCE FoldFacts WITH Op <- KernelStep, Base <- Scan0

OnlySuffix == "only a suffix"
SlotName == PackageNames \cup {"blank"}
Defect == {Blank.defect, LateBytes.defect, "none"} \cup HeaderDefects \cup SourceDefects

(* What the validation and the scan have found in the slots. *)
Validations == [names : Seq(SlotName), empty : BOOLEAN, sound : BOOLEAN]
Scannings == [index : Nat, names : Seq(SlotName), error : BOOLEAN]

NamesOfSlots(names, c) ==
  /\ Len(names) <= Len(c)
  /\ \A i \in 1..Len(names) : names[i] = c[i].name /\ c[i].defect \in {"none", OnlySuffix}
  /\ \A i, j \in 1..Len(names) : names[i] = names[j] => i = j

(* v is the validation of the catalog c, s its scan.  A sound catalog has  *)
(* its packages first; the scan finds the same, if the kernel accepts all  *)
(* the names.                                                              *)
BothRead(c, v, s) ==
  /\ v \in Validations /\ s \in Scannings /\ s.index = Len(c)
  /\ v.sound => NamesOfSlots(v.names, c)
  /\ v.sound /\ ~v.empty => Len(v.names) = Len(c)
  /\ v.sound /\ (\A i \in 1..Len(c) : c[i].defect # OnlySuffix) => ~s.error /\ s.names = v.names

(* What is written is what was checked. *)
Packed ==
  /\ packing = "catalog" => output = NoOutput
  /\ packing \in {"open", "write"} => modules = GoodModules /\ CatalogAccepted(slots)
  /\ output \notin {NoOutput, ShortOutput} =>
       /\ modules = GoodModules /\ CatalogAccepted(slots)
       /\ output = [boot |-> base, catalog |-> slots,
                    modules |-> [m \in Modules |-> ModuleSlot(modules[m])]]

ImageInv == slots \in Seq(Slot) /\ BothRead(slots, Validated(slots), Scan(slots)) /\ Packed

LEMMA ValidatedIs ==
  ASSUME NEW c
  PROVE  Validated(c) = Builders!Fold(c)
BY Zenon DEF Validated, Validation0, FoldLeft, MapThenFoldSet, Max,
   Builders!Fold, Builders!FoldLeft, Builders!MapThenFoldSet, Builders!Max

LEMMA ScanIs ==
  ASSUME NEW c
  PROVE  Scan(c) = Kernels!Fold(c)
BY Zenon DEF Scan, Scan0, FoldLeft, MapThenFoldSet, Max,
   Kernels!Fold, Kernels!FoldLeft, Kernels!MapThenFoldSet, Kernels!Max

LEMMA BuilderStepIs ==
  ASSUME NEW v, NEW slot
  PROVE  /\ slot = Blank => BuilderStep(v, slot) = [v EXCEPT !.empty = TRUE]
         /\ slot # Blank =>
              BuilderStep(v, slot) =
                [names |-> Append(v.names, slot.name), empty |-> v.empty,
                 sound |-> /\ v.sound /\ ~v.empty
                           /\ slot.defect \in {"none", OnlySuffix}
                           /\ ~Contains(v.names, slot.name)]
BY Zenon DEF BuilderStep, OnlySuffix

LEMMA SoundDefects == "none" # OnlySuffix /\ "source checksum" \notin {"none", OnlySuffix}
BY Zenon DEF OnlySuffix

LEMMA HeaderOfIs ==
  ASSUME NEW slot
  PROVE  /\ slot = Blank => HeaderOf(slot) = "empty"
         /\ slot # Blank /\ slot.defect = "none" => HeaderOf(slot) = "package"
<1>1. "none" \notin HeaderDefects /\ LateBytes.defect # "none" /\ Blank.defect = "none"
  BY Zenon DEF HeaderDefects, LateBytes, Blank
<1>. QED BY <1>1 DEF HeaderOf

(* The three ways in which a scan goes on. *)
Passed(s) == [s EXCEPT !.index = @ + 1]
Listed(s, n) == [s EXCEPT !.index = @ + 1, !.names = Append(@, n)]
Stopped(s) == [s EXCEPT !.index = @ + 1, !.error = TRUE]

LEMMA KernelStepIs ==
  ASSUME NEW s, NEW slot
  PROVE  /\ HeaderOf(slot) = "empty" => KernelStep(s, slot) = Passed(s)
         /\ HeaderOf(slot) = "package" /\ Len(s.names) = s.index =>
              KernelStep(s, slot) = Listed(s, slot.name)
         /\ \/ KernelStep(s, slot) = Passed(s)
            \/ KernelStep(s, slot) = Listed(s, slot.name)
            \/ KernelStep(s, slot) = Stopped(s)
BY DEF KernelStep, Passed, Listed, Stopped

LEMMA ScanForms ==
  ASSUME NEW s \in Scannings, NEW n \in SlotName
  PROVE  /\ Passed(s) \in Scannings /\ Passed(s).index = s.index + 1
         /\ Passed(s).names = s.names /\ Passed(s).error = s.error
         /\ Listed(s, n) \in Scannings /\ Listed(s, n).index = s.index + 1
         /\ Listed(s, n).names = Append(s.names, n) /\ Listed(s, n).error = s.error
         /\ Stopped(s) \in Scannings /\ Stopped(s).index = s.index + 1
<1>1. /\ Passed(s) \in Scannings /\ Passed(s).index = s.index + 1
      /\ Passed(s).names = s.names /\ Passed(s).error = s.error
  BY DEF Passed, Scannings
<1>2. Append(s.names, n) \in Seq(SlotName)
  BY AppendProperties DEF Scannings
<1>3. ASSUME NEW p \in Scannings
      PROVE  /\ [p EXCEPT !.error = TRUE] \in Scannings
             /\ [p EXCEPT !.error = TRUE].index = p.index
             /\ [p EXCEPT !.names = Append(s.names, n)] \in Scannings
             /\ [p EXCEPT !.names = Append(s.names, n)].index = p.index
             /\ [p EXCEPT !.names = Append(s.names, n)].names = Append(s.names, n)
             /\ [p EXCEPT !.names = Append(s.names, n)].error = p.error
  BY <1>2 DEF Scannings
<1>4. Stopped(s) = [Passed(s) EXCEPT !.error = TRUE]
  BY DEF Stopped, Passed
<1>5. Listed(s, n) = [Passed(s) EXCEPT !.names = Append(@, n)]
  BY DEF Listed, Passed
<1>6. Listed(s, n) = [Passed(s) EXCEPT !.names = Append(s.names, n)]
  BY <1>1, <1>5
<1>. QED BY <1>1, <1>3, <1>4, <1>6

LEMMA SlotForm ==
  ASSUME NEW slot \in Slot
  PROVE  slot.name \in SlotName
<1>1. Blank.name \in SlotName /\ LateBytes.name \in SlotName
  BY Zenon DEF Blank, LateBytes, SlotName
<1>2. \A n \in PackageNames : \A d : Package(n, d).name \in SlotName
  BY Zenon DEF Package, SlotName
<1>3. slot = Blank \/ slot = LateBytes \/ \E n \in PackageNames : \E d : slot = Package(n, d)
  BY DEF Slot
<1>. QED BY <1>1, <1>2, <1>3

LEMMA ReadNoSlot == BothRead(<<>>, Validated(<<>>), Scan(<<>>))
<1>1. Validated(<<>>) = Validation0 /\ Scan(<<>>) = Scan0
  BY ValidatedIs, ScanIs, Builders!FoldEmpty, Kernels!FoldEmpty
<1>2. Validation0 \in Validations /\ Scan0 \in Scannings
  BY DEF Validation0, Scan0, Validations, Scannings
<1>3. /\ Validation0.names = <<>> /\ Validation0.empty = FALSE /\ Scan0.index = 0
      /\ Scan0.error = FALSE /\ Scan0.names = <<>>
  BY DEF Validation0, Scan0
<1>4. NamesOfSlots(<<>>, <<>>) /\ Len(<<>>) = 0
  BY DEF NamesOfSlots
<1>. QED BY <1>1, <1>2, <1>3, <1>4 DEF BothRead

LEMMA ReadNextSlot ==
  ASSUME NEW c \in Seq(Slot), NEW slot \in Slot, BothRead(c, Validated(c), Scan(c))
  PROVE  BothRead(Append(c, slot), Validated(Append(c, slot)), Scan(Append(c, slot)))
<1>. DEFINE d == Append(c, slot)
            v == Validated(c)
            s == Scan(c)
            w == Validated(d)
            t == Scan(d)
<1>1. /\ Len(c) \in Nat /\ Len(d) = Len(c) + 1 /\ d[Len(c) + 1] = slot
      /\ \A i \in 1..Len(c) : d[i] = c[i]
  BY AppendProperties, LenProperties
<1>2. w = BuilderStep(v, slot) /\ t = KernelStep(s, slot)
  BY ValidatedIs, ScanIs, Builders!FoldAppend, Kernels!FoldAppend
<1>3. BothRead(c, v, s)
  OBVIOUS
<1>4. slot.name \in SlotName
  BY SlotForm
<1>. SUFFICES BothRead(d, w, t)
  OBVIOUS
<1>. HIDE DEF d, v, s, w, t
<1>5. /\ v \in Validations /\ s \in Scannings /\ s.index = Len(c)
      /\ v.names \in Seq(SlotName) /\ Len(v.names) \in Nat
      /\ v.empty \in BOOLEAN /\ v.sound \in BOOLEAN
      /\ v.sound => NamesOfSlots(v.names, c)
      /\ v.sound /\ ~v.empty => Len(v.names) = Len(c)
      /\ v.sound /\ (\A i \in 1..Len(c) : c[i].defect # OnlySuffix) => ~s.error /\ s.names = v.names
  BY <1>3, LenProperties DEF BothRead, Validations
<1>6. t \in Scannings /\ t.index = Len(d)
  <2>1. t = Passed(s) \/ t = Listed(s, slot.name) \/ t = Stopped(s)
    BY <1>2, KernelStepIs, Zenon
  <2>2. t \in Scannings /\ t.index = s.index + 1
    BY <1>4, <1>5, <2>1, ScanForms
  <2>. QED BY <1>1, <1>5, <2>2
<1>7. (\A i \in 1..Len(d) : d[i].defect # OnlySuffix) =>
        slot.defect # OnlySuffix /\ \A i \in 1..Len(c) : c[i].defect # OnlySuffix
  <2>1. Len(c) + 1 \in 1..Len(d) /\ 1..Len(c) \subseteq 1..Len(d)
    BY <1>1
  <2>. QED BY <1>1, <2>1
<1>8. CASE slot = Blank
  <2>1. w = [v EXCEPT !.empty = TRUE] /\ t = Passed(s)
    BY <1>2, <1>8, BuilderStepIs, HeaderOfIs, KernelStepIs
  <2>2. w \in Validations /\ w.names = v.names /\ w.empty /\ w.sound = v.sound
        /\ t.error = s.error /\ t.names = s.names
    BY <1>4, <1>5, <2>1, ScanForms DEF Validations
  <2>3. w.sound => NamesOfSlots(w.names, d)
    BY <1>1, <1>5, <2>2 DEF NamesOfSlots
  <2>. QED BY <1>5, <1>6, <1>7, <2>2, <2>3 DEF BothRead
<1>9. CASE slot # Blank
  <2>. DEFINE names == Append(v.names, slot.name)
              sound == /\ v.sound /\ ~v.empty
                       /\ slot.defect \in {"none", OnlySuffix}
                       /\ ~Contains(v.names, slot.name)
  <2>1. w = [names |-> names, empty |-> v.empty, sound |-> sound]
    BY <1>2, <1>9, BuilderStepIs
  <2>2. /\ names \in Seq(SlotName) /\ Len(names) = Len(v.names) + 1
        /\ names[Len(v.names) + 1] = slot.name
        /\ \A i \in 1..Len(v.names) : names[i] = v.names[i]
    BY <1>4, <1>5, AppendProperties
  <2>3. w \in Validations /\ w.names = names /\ w.empty = v.empty /\ (w.sound <=> sound)
    BY <1>5, <2>1, <2>2 DEF Validations
  <2>4. ASSUME sound PROVE NamesOfSlots(names, d) /\ Len(names) = Len(d)
    <3>1. Len(v.names) = Len(c) /\ NamesOfSlots(v.names, c)
      BY <1>5, <2>4
    <3>2. \A i \in 1..Len(c) : v.names[i] # slot.name
      BY <2>4, <3>1 DEF Contains
    <3>3. slot.defect \in {"none", OnlySuffix}
      BY <2>4
    <3>. HIDE DEF names, sound
    <3>4. Len(names) = Len(d) /\ \A i \in 1..Len(names) : i = Len(d) \/ i \in 1..Len(c)
      BY <1>1, <2>2, <3>1
    <3>. QED BY <1>1, <2>2, <3>1, <3>2, <3>3, <3>4 DEF NamesOfSlots
  <2>5. ASSUME sound, \A i \in 1..Len(d) : d[i].defect # OnlySuffix
        PROVE  ~t.error /\ t.names = names
    <3>1. ~s.error /\ s.names = v.names /\ Len(v.names) = Len(c)
      BY <1>5, <1>7, <2>5
    <3>2. HeaderOf(slot) = "package"
      BY <1>7, <1>9, <2>5, HeaderOfIs
    <3>3. t = Listed(s, slot.name)
      <4>1. Len(s.names) = s.index
        BY <1>5, <3>1
      <4>. QED BY <1>2, <3>2, <4>1, KernelStepIs, Zenon
    <3>. QED BY <1>4, <1>5, <3>1, <3>3, ScanForms
  <2>. HIDE DEF names, sound
  <2>. QED BY <1>6, <2>3, <2>4, <2>5 DEF BothRead
<1>. QED BY <1>8, <1>9

LEMMA ImageInitial == ImageInit => ImageInv
<1>. SUFFICES ASSUME ImageInit PROVE ImageInv
  OBVIOUS
<1>1. slots = <<>> /\ output = NoOutput /\ packing = "catalog"
  BY Zenon DEF ImageInit
<1>. QED BY <1>1, ReadNoSlot DEF ImageInv, Packed

LEMMA ImageSteps == ImageInv /\ [ImageNext]_imageVars => ImageInv'
<1>. SUFFICES ASSUME ImageInv, [ImageNext]_imageVars PROVE ImageInv'
  OBVIOUS
<1>0. ASSUME slots' = slots PROVE slots' \in Seq(Slot) /\ BothRead(slots', Validated(slots'), Scan(slots'))
  BY <1>0 DEF ImageInv
<1>1. CASE NextSlot
  <2>1. PICK slot \in Slot : slots' = Append(slots, slot)
    BY <1>1 DEF NextSlot
  <2>2. BothRead(slots', Validated(slots'), Scan(slots')) /\ slots' \in Seq(Slot)
    BY <2>1, ReadNextSlot DEF ImageInv
  <2>3. packing = "catalog" /\ output = NoOutput /\ UNCHANGED <<output, packing>>
    BY <1>1 DEF NextSlot, ImageInv, Packed
  <2>. QED BY <2>2, <2>3 DEF ImageInv, Packed
<1>2. CASE BuildCheck
  <2>1. packing = "catalog" /\ output = NoOutput /\ UNCHANGED <<slots, output, modules>>
    BY <1>2 DEF BuildCheck, ImageInv, Packed
  <2>2. packing' = "open" => modules' = GoodModules /\ CatalogAccepted(slots')
    BY <1>2, <2>1 DEF BuildCheck
  <2>3. packing' # "catalog" /\ packing' # "write"
    BY <1>2 DEF BuildCheck
  <2>. QED BY <1>0, <2>1, <2>2, <2>3 DEF ImageInv, Packed
<1>3. CASE OutputOpen
  BY <1>0, <1>3 DEF OutputOpen, ImageInv, Packed
<1>4. CASE OutputWrite
  BY <1>0, <1>4 DEF OutputWrite, ImageInv, Packed
<1>5. CASE BuildFails
  BY <1>0, <1>5 DEF BuildFails, ImageInv, Packed
<1>6. CASE UNCHANGED imageVars
  BY <1>0, <1>6 DEF imageVars, ImageInv, Packed
<1>. QED BY <1>1, <1>2, <1>3, <1>4, <1>5, <1>6 DEF ImageNext

LEMMA GoodModuleLoads == ModuleLoads(ModuleSlot("good"))
<1>1. ModuleField("good") = BlankField
  BY Zenon DEF ModuleField
<1>. QED BY <1>1 DEF ModuleLoads, ModuleSlot

(* For every number of slots and any names: the kernel loads both modules  *)
(* of an image that the builder has written, lists the packages that the   *)
(* builder named, and finds and installs each of them, unless one of them  *)
(* is called only ".BAS".                                                  *)
THEOREM ImageWorksAlways == ImageSpec => []ImageWorks
<1>1. ImageInv => ImageWorks
  <2>. SUFFICES ASSUME ImageInv, output \notin {NoOutput, ShortOutput}
                PROVE  /\ \A m \in Modules : ModuleLoads(output.modules[m])
                       /\ \/ \E i \in DOMAIN output.catalog :
                               output.catalog[i].defect = OnlySuffix
                          \/ /\ ~Scan(output.catalog).error
                             /\ Scan(output.catalog).names = Validated(output.catalog).names
                             /\ \A i \in DOMAIN Scan(output.catalog).names :
                                  Installs(output.catalog, Scan(output.catalog).names[i])
    BY Zenon DEF ImageWorks, OnlySuffix
  <2>1. /\ modules = GoodModules /\ CatalogAccepted(slots)
        /\ output = [boot |-> base, catalog |-> slots,
                     modules |-> [m \in Modules |-> ModuleSlot(modules[m])]]
    BY DEF ImageInv, Packed
  <2>2. output.catalog = slots /\ output.modules = [m \in Modules |-> ModuleSlot("good")]
    BY <2>1 DEF GoodModules
  <2>3. \A m \in Modules : ModuleLoads(output.modules[m])
    BY <2>2, GoodModuleLoads
  <2>. DEFINE v == Validated(slots)
              s == Scan(slots)
  <2>4. BothRead(slots, v, s) /\ v.sound /\ DOMAIN slots = 1..Len(slots)
    BY <2>1, LenProperties DEF ImageInv, CatalogAccepted
  <2>5. ASSUME \A i \in DOMAIN slots : slots[i].defect # OnlySuffix
        PROVE  ~s.error /\ s.names = v.names /\ \A i \in DOMAIN s.names : Installs(slots, s.names[i])
    <3>. HIDE DEF v, s
    <3>1. ~s.error /\ s.names = v.names /\ s.names \in Seq(SlotName) /\ NamesOfSlots(s.names, slots)
      BY <2>4, <2>5 DEF BothRead, Validations
    <3>2. DOMAIN s.names = 1..Len(s.names)
      BY <3>1, LenProperties
    <3>3. ASSUME NEW i \in 1..Len(s.names) PROVE Installs(slots, s.names[i])
      <4>. DEFINE found == {j \in 1..Len(s.names) : s.names[j] = s.names[i]}
      <4>1. found = {i}
        BY <3>1 DEF NamesOfSlots
      <4>2. Cardinality(found) = 1
        BY <4>1, FS_Singleton
      <4>3. \A j \in found : slots[j].defect # "source checksum"
        <5>1. slots[i].defect \in {"none", OnlySuffix}
          BY <3>1 DEF NamesOfSlots
        <5>. QED BY <4>1, <5>1, SoundDefects, Zenon
      <4>. QED BY <3>1, <4>2, <4>3, Zenon DEF Installs, s
    <3>. QED BY <3>1, <3>2, <3>3
  <2>. QED BY <2>2, <2>3, <2>5, Zenon
<1>2. ImageSpec => []ImageInv
  BY ImageInitial, ImageSteps, PTL DEF ImageSpec
<1>. QED BY <1>1, <1>2, PTL

=============================================================================
