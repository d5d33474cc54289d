------------------------- MODULE RustDisksProofs -------------------------
(***************************************************************************)
(* Launchers and exports create their disk and their draft once, for any   *)
(* number of them: RustDisks implements CreateOnce under both of its       *)
(* refinement mappings.  What must be known before a link or a publication *)
(* is that the artifact in hand is whole, and that takes the disk locks: a *)
(* draft is of one moment because no guest runs while one is converted.    *)
(***************************************************************************)
EXTENDS RustDisks, TLAPS

LaunchPlace == LaunchResting \cup {"open", "copy", "link", "linked", "raised"}
ExportPlace ==
  ExportResting \cup {"inspect", "convert", "converting", "check", "publish", "published", "raised"}

AnyImage == Images \cup {NoImage}
Copies == [disk : AnyImage, whole : BOOLEAN]
Readings == [disk : AnyImage, work : 0 .. MaxWork]
Drafts == [first : Readings, last : Readings, files : SUBSET {"disk", "config"}]

LaunchTypeOK ==
  /\ built \in AnyImage /\ work \in 0 .. MaxWork
  /\ runtime \in {Absent} \cup Placed \cup [by : Launchers, of : WholeDisks]
  /\ copies \in [Launchers -> Copies]
  /\ la \in [Launchers -> LaunchPlace]

CopiesWhole ==
  \A l \in Launchers :
    /\ la[l] = "copy" => copies[l].disk \in Images
    /\ la[l] = "link" => copies[l] \in WholeDisks
    /\ la[l] \in {"linked", "ready", "running"} => runtime # Absent

LaunchInv == LaunchTypeOK /\ CopiesWhole

ExportTypeOK ==
  /\ utm \in {NoUtm, ForeignUtm} \cup [by : Exporters, of : WholeBundles]
  /\ draft \in [Exporters -> Drafts]
  /\ ex \in [Exporters -> ExportPlace]
  /\ from \in [Exporters -> {"image", "runtime"}]
  /\ converting \subseteq Exporters

Converts(e) == ex[e] = "converting" /\ from[e] = "runtime"

OneMoment ==
  \A e \in Exporters :
    /\ Converts(e) => e \in converting /\ runtime # Absent
                      /\ draft[e].first = Reading(runtime.of.disk, work)
    /\ ex[e] = "check" => draft[e].first = draft[e].last /\ draft[e].files = {"disk"}
    /\ ex[e] = "publish" => draft[e] \in WholeBundles
    /\ ex[e] = "published" => utm.by = e

LocksHeld == converting # {} => guest = {}

ExportInv == ExportTypeOK /\ OneMoment /\ LocksHeld

-----------------------------------------------------------------------------
(* The disk.  Its steps at the level of the promise.  *)

LEMMA RuntimeForms ==
  /\ Absent.by \notin Launchers /\ Absent \notin Placed
  /\ \A l \in Launchers, a \in WholeDisks :
       LET r == [by |-> l, of |-> a] IN r # Absent /\ r.by = l /\ r.by # "link"
                                        /\ r \in [by : Launchers, of : WholeDisks]
  /\ \A r \in Placed : r.by \notin Launchers
  /\ \A r \in [by : Launchers, of : WholeDisks] : r.by \in Launchers /\ r # Absent
BY LaunchAssumption DEF Absent, Placed

LEMMA CopyForms ==
  /\ NoArtifact \in Copies
  /\ \A d \in AnyImage : [disk |-> d, whole |-> FALSE] \in Copies /\ [disk |-> d, whole |-> FALSE].disk = d
  /\ \A c \in Copies : /\ [c EXCEPT !.whole = TRUE] \in Copies
                       /\ c.disk \in Images => [c EXCEPT !.whole = TRUE] \in WholeDisks
BY DEF NoArtifact, Copies, AnyImage, WholeDisks

(* A launcher goes to v, and has w in its temporary file.                    *)
LEMMA LauncherKeeps ==
  ASSUME LaunchInv, NEW l \in Launchers, NEW v \in LaunchPlace, NEW w \in Copies,
         la' = [la EXCEPT ![l] = v], copies' = [copies EXCEPT ![l] = w],
         built' \in AnyImage, work' \in 0 .. MaxWork,
         runtime' = runtime \/ (runtime = Absent /\ runtime' \in [by : Launchers, of : WholeDisks]),
         v = "copy" => w.disk \in Images,
         v = "link" => w \in WholeDisks,
         v \in {"linked", "ready", "running"} => runtime' # Absent
  PROVE  LaunchInv'
<1>. USE DEF LaunchInv
<1>1. LaunchTypeOK'
  BY DEF LaunchTypeOK
<1>2. /\ la'[l] = v /\ copies'[l] = w
      /\ \A k \in Launchers \ {l} : la'[k] = la[k] /\ copies'[k] = copies[k]
  BY DEF LaunchTypeOK
<1>3. runtime # Absent => runtime' # Absent
  OBVIOUS
<1>4. CopiesWhole'
  BY <1>2, <1>3 DEF CopiesWhole
<1>. QED BY <1>1, <1>4

LEMMA LauncherGoes ==
  ASSUME LaunchInv, NEW l \in Launchers, NEW v \in LaunchPlace \ {"copy", "link"},
         la' = [la EXCEPT ![l] = v], UNCHANGED <<built, work, copies, runtime>>,
         v \in {"linked", "ready", "running"} => runtime # Absent
  PROVE  LaunchInv'
<1>1. copies[l] \in Copies /\ copies' = [copies EXCEPT ![l] = copies[l]]
  BY DEF LaunchInv, LaunchTypeOK
<1>2. built' \in AnyImage /\ work' \in 0 .. MaxWork
  BY DEF LaunchInv, LaunchTypeOK
<1>. QED BY <1>1, <1>2, LauncherKeeps

LEMMA LaunchInitial == LaunchInit => LaunchInv
BY CopyForms, LaunchAssumption
  DEF LaunchInit, LaunchInv, LaunchTypeOK, CopiesWhole, AnyImage, LaunchPlace, LaunchResting

LEMMA LaunchStepKeeps == LaunchInv /\ LaunchNext => LaunchInv'
<1>. SUFFICES ASSUME LaunchInv, LaunchNext PROVE LaunchInv'
  OBVIOUS
<1>0. /\ built \in AnyImage /\ work \in 0 .. MaxWork
      /\ \A l \in Launchers : copies[l] \in Copies /\ copies' = copies => copies' = [copies EXCEPT ![l] = copies[l]]
  BY DEF LaunchInv, LaunchTypeOK
<1>1. ASSUME NEW l \in Launchers, LaunchStart(l) PROVE LaunchInv'
  <2>1. PICK v \in LaunchPlace \ {"copy", "link"} :
          la' = [la EXCEPT ![l] = v] /\ (v \in {"linked", "ready", "running"} => runtime # Absent)
    <3>1. {"failed", "open", "ready"} \subseteq LaunchPlace \ {"copy", "link"}
      BY DEF LaunchPlace, LaunchResting
    <3>. DEFINE v == IF IsLink THEN "failed"
                     ELSE IF runtime # Absent THEN "ready"
                     ELSE IF built = NoImage THEN "failed"
                     ELSE "open"
    <3>2. la' = [la EXCEPT ![l] = v]
      BY <1>1 DEF LaunchStart
    <3>3. v \in {"failed", "open", "ready"} /\ (v = "ready" => runtime # Absent)
      OBVIOUS
    <3>4. v \in LaunchPlace \ {"copy", "link"} /\ (v \in {"linked", "ready", "running"} => runtime # Absent)
      BY <3>1, <3>3
    <3>. HIDE DEF v
    <3>. QED BY <3>2, <3>4
  <2>. QED BY <1>1, <2>1, LauncherGoes DEF LaunchStart
<1>2. ASSUME NEW l \in Launchers, LaunchOpen(l) PROVE LaunchInv'
  <2>1. CASE built = NoImage
    BY <1>2, <2>1, LauncherGoes DEF LaunchOpen, LaunchPlace
  <2>2. CASE built # NoImage
    <3>1. /\ la' = [la EXCEPT ![l] = "copy"] /\ copies' = [copies EXCEPT ![l] = [disk |-> built, whole |-> FALSE]]
          /\ UNCHANGED <<built, work, runtime>> /\ "copy" \in LaunchPlace
      BY <1>2, <2>2 DEF LaunchOpen, LaunchPlace
    <3>2. [disk |-> built, whole |-> FALSE] \in Copies /\ [disk |-> built, whole |-> FALSE].disk \in Images
      BY <1>0, <2>2, CopyForms DEF AnyImage
    <3>. QED BY <1>0, <3>1, <3>2, LauncherKeeps
  <2>. QED BY <2>1, <2>2
<1>3. ASSUME NEW l \in Launchers, LaunchCopy(l) PROVE LaunchInv'
  <2>. DEFINE w == [copies[l] EXCEPT !.whole = TRUE]
  <2>1. /\ la' = [la EXCEPT ![l] = "link"] /\ copies' = [copies EXCEPT ![l] = w]
        /\ UNCHANGED <<built, work, runtime>> /\ "link" \in LaunchPlace
    BY <1>3 DEF LaunchCopy, LaunchPlace
  <2>2. w \in Copies /\ w \in WholeDisks
    BY <1>3, CopyForms DEF LaunchCopy, LaunchInv, CopiesWhole, LaunchTypeOK
  <2>. QED BY <1>0, <2>1, <2>2, LauncherKeeps
<1>4. ASSUME NEW l \in Launchers, LaunchLink(l) PROVE LaunchInv'
  <2>1. CASE runtime = Absent
    <3>1. /\ la' = [la EXCEPT ![l] = "linked"] /\ runtime' = [by |-> l, of |-> copies[l]]
          /\ UNCHANGED <<built, work, copies>> /\ "linked" \in LaunchPlace
      BY <1>4, <2>1 DEF LaunchLink, LaunchPlace
    <3>2. copies[l] \in WholeDisks /\ copies[l] \in Copies
      BY <1>4 DEF LaunchLink, LaunchInv, CopiesWhole, LaunchTypeOK
    <3>3. copies' = [copies EXCEPT ![l] = copies[l]]
      BY <3>1 DEF LaunchInv, LaunchTypeOK
    <3>4. runtime' # Absent /\ runtime' \in [by : Launchers, of : WholeDisks]
      BY <3>1, <3>2, RuntimeForms
    <3>. QED BY <1>0, <2>1, <3>1, <3>2, <3>3, <3>4, LauncherKeeps
  <2>2. CASE runtime # Absent
    <3>1. PICK v \in LaunchPlace \ {"copy", "link"} : la' = [la EXCEPT ![l] = v]
      BY <1>4, <2>2 DEF LaunchLink, LaunchPlace
    <3>. QED BY <1>4, <2>2, <3>1, LauncherGoes DEF LaunchLink
  <2>. QED BY <2>1, <2>2
<1>5. ASSUME NEW l \in Launchers, LaunchUnlink(l) PROVE LaunchInv'
  <2>1. PICK v \in LaunchPlace \ {"copy", "link"} :
          la' = [la EXCEPT ![l] = v] /\ (v = "ready" => la[l] = "linked") /\ v \notin {"linked", "running"}
    <3>1. {"failed", "ready"} \subseteq LaunchPlace \ {"copy", "link"}
      BY DEF LaunchPlace, LaunchResting
    <3>. DEFINE v == IF la[l] = "linked" THEN "ready" ELSE "failed"
    <3>2. la' = [la EXCEPT ![l] = v]
      BY <1>5 DEF LaunchUnlink
    <3>3. v \in {"failed", "ready"} /\ (v = "ready" => la[l] = "linked")
      OBVIOUS
    <3>. HIDE DEF v
    <3>. QED BY <3>1, <3>2, <3>3
  <2>2. v \in {"linked", "ready", "running"} => runtime' # Absent
    BY <1>5, <2>1 DEF LaunchInv, CopiesWhole, LaunchUnlink
  <2>3. copies' = [copies EXCEPT ![l] = NoArtifact] /\ NoArtifact \in Copies /\ UNCHANGED <<built, work, runtime>>
    BY <1>5, CopyForms DEF LaunchUnlink
  <2>. QED BY <1>0, <2>1, <2>2, <2>3, LauncherKeeps
<1>6. ASSUME NEW l \in Launchers, LaunchRaise(l) PROVE LaunchInv'
  BY <1>6, LauncherGoes DEF LaunchRaise, LaunchPlace
<1>7. ASSUME NEW l \in Launchers, LaunchKill(l) PROVE LaunchInv'
  <2>1. /\ la' = [la EXCEPT ![l] = "idle"] /\ copies' = [copies EXCEPT ![l] = NoArtifact]
        /\ NoArtifact \in Copies /\ UNCHANGED <<built, work, runtime>> /\ "idle" \in LaunchPlace
    BY <1>7, CopyForms DEF LaunchKill, LaunchPlace, LaunchResting
  <2>. QED BY <1>0, <2>1, LauncherKeeps
<1>8. ASSUME NEW l \in Launchers, GuestStart(l) PROVE LaunchInv'
  <2>1. PICK v \in LaunchPlace \ {"copy", "link"} : la' = [la EXCEPT ![l] = v]
    BY <1>8 DEF GuestStart, LaunchPlace, LaunchResting
  <2>2. runtime # Absent
    BY <1>8 DEF GuestStart, LaunchInv, CopiesWhole
  <2>. QED BY <1>8, <2>1, <2>2, LauncherGoes DEF GuestStart
<1>9. ASSUME NEW l \in Launchers, GuestWrite(l) PROVE LaunchInv'
  <2>1. work' \in 0 .. MaxWork
    BY <1>0, <1>9, LaunchAssumption DEF GuestWrite
  <2>. QED BY <1>9, <2>1 DEF GuestWrite, LaunchInv, LaunchTypeOK, CopiesWhole
<1>10. ASSUME NEW l \in Launchers, GuestStop(l) PROVE LaunchInv'
  BY <1>10, LauncherGoes DEF GuestStop, LaunchPlace, LaunchResting
<1>11. CASE Rebuild
  BY <1>11 DEF Rebuild, LaunchInv, LaunchTypeOK, CopiesWhole, AnyImage
<1>12. CASE RuntimePlaced
  <2>1. runtime = Absent /\ runtime' \in Placed /\ runtime' # Absent /\ UNCHANGED <<built, work, copies, la>>
    BY <1>12, RuntimeForms DEF RuntimePlaced
  <2>. QED BY <2>1 DEF LaunchInv, LaunchTypeOK, CopiesWhole
<1>. QED BY <1>1, <1>2, <1>3, <1>4, <1>5, <1>6, <1>7, <1>8, <1>9, <1>10, <1>11, <1>12 DEF LaunchNext

(* What a launcher at a place has reported. *)
Says(place) ==
  CASE place \in {"ready", "running"} -> "ready"
    [] place = "failed" -> "refused"
    [] OTHER -> "nothing"

RuntimePath == At(Launchers, runtime, Absent)

LEMMA Reported ==
  ASSUME LaunchInv, NEW l \in Launchers, NEW v, la' = [la EXCEPT ![l] = v]
  PROVE  TellRuntime' = [TellRuntime EXCEPT ![l] = Says(v)] /\ TellRuntime[l] = Says(la[l])
<1>1. TellRuntime = [k \in Launchers |-> Says(la[k])]
  BY DEF TellRuntime, Says
<1>2. TellRuntime' = [k \in Launchers |-> Says(la'[k])]
  BY DEF TellRuntime, Says
<1>3. \A k \in Launchers : la'[k] = IF k = l THEN v ELSE la[k]
  BY DEF LaunchInv, LaunchTypeOK
<1>. QED BY <1>1, <1>2, <1>3

LEMMA RuntimePaths ==
  ASSUME LaunchInv
  PROVE  /\ runtime = Absent => RuntimePath = Runtime!Nothing
         /\ runtime # Absent => RuntimePath # Runtime!Nothing
         /\ runtime \in Placed => RuntimePath = Runtime!Foreign
BY RuntimeForms, LaunchAssumption DEF RuntimePath, At, Runtime!Nothing, Runtime!Foreign, LaunchInv, LaunchTypeOK

(* A launcher that leaves the disk alone answers, or says no more than it    *)
(* did.                                                                      *)
LEMMA RuntimeAnswer ==
  ASSUME LaunchInv, NEW l \in Launchers, NEW v, la' = [la EXCEPT ![l] = v], runtime' = runtime,
         v \in {"ready", "running"} => runtime # Absent
  PROVE  Runtime!OnceNext
<1>1. UNCHANGED RuntimePath
  BY DEF RuntimePath, At
<1>2. TellRuntime' = [TellRuntime EXCEPT ![l] = Says(v)]
  BY Reported
<1>3. CASE v \in {"ready", "running"}
  <2>1. RuntimePath # Runtime!Nothing
    BY <1>3, RuntimePaths
  <2>2. Runtime!Ready(l)
    BY <1>1, <1>2, <1>3, <2>1 DEF Runtime!Ready, RuntimePath, Says
  <2>. QED BY <2>2 DEF Runtime!OnceNext
<1>4. CASE v = "failed"
  <2>1. Runtime!Refuse(l)
    BY <1>1, <1>2, <1>4 DEF Runtime!Refuse, RuntimePath, Says
  <2>. QED BY <2>1 DEF Runtime!OnceNext
<1>5. CASE v \notin {"ready", "running", "failed"}
  <2>1. Runtime!Again(l)
    BY <1>1, <1>2, <1>5 DEF Runtime!Again, RuntimePath, Says
  <2>. QED BY <2>1 DEF Runtime!OnceNext
<1>. QED BY <1>3, <1>4, <1>5

LEMMA RuntimeStepImplements ==
  ASSUME LaunchInv, LaunchNext
  PROVE  [Runtime!OnceNext]_(Runtime!onceVars)
<1>1. ASSUME NEW l \in Launchers, LaunchStart(l) PROVE Runtime!OnceNext
  <2>. DEFINE v == IF IsLink THEN "failed"
                   ELSE IF runtime # Absent THEN "ready"
                   ELSE IF built = NoImage THEN "failed"
                   ELSE "open"
  <2>1. la' = [la EXCEPT ![l] = v] /\ runtime' = runtime
    BY <1>1 DEF LaunchStart
  <2>2. v \in {"ready", "running"} => runtime # Absent
    OBVIOUS
  <2>. HIDE DEF v
  <2>. QED BY <2>1, <2>2, RuntimeAnswer
<1>2. ASSUME NEW l \in Launchers, LaunchOpen(l) \/ LaunchCopy(l) \/ LaunchRaise(l) \/ LaunchKill(l) \/ GuestStop(l)
      PROVE  Runtime!OnceNext
  <2>1. PICK v \in {"raised", "copy", "link", "idle"} : la' = [la EXCEPT ![l] = v] /\ runtime' = runtime
    BY <1>2 DEF LaunchOpen, LaunchCopy, LaunchRaise, LaunchKill, GuestStop
  <2>. QED BY <2>1, RuntimeAnswer
<1>3. ASSUME NEW l \in Launchers, LaunchLink(l) PROVE Runtime!OnceNext
  <2>1. CASE runtime = Absent
    <3>1. la[l] = "link" /\ la' = [la EXCEPT ![l] = "linked"] /\ runtime' = [by |-> l, of |-> copies[l]]
      BY <1>3, <2>1 DEF LaunchLink
    <3>2. copies[l] \in WholeDisks
      BY <3>1 DEF LaunchInv, CopiesWhole
    <3>3. RuntimePath' = runtime' /\ RuntimePath = Runtime!Nothing
      <4>1. runtime' # Absent /\ runtime'.by = l
        BY <3>1, <3>2, RuntimeForms
      <4>. QED BY <2>1, <4>1 DEF RuntimePath, At, Runtime!Nothing
    <3>4. TellRuntime' = TellRuntime
      <4>1. TellRuntime' = [TellRuntime EXCEPT ![l] = Says("linked")] /\ TellRuntime[l] = Says("link")
        BY <3>1, Reported
      <4>2. Says("linked") = Says("link")
        BY DEF Says
      <4>. QED BY <4>1, <4>2 DEF TellRuntime
    <3>5. Runtime!Create(l)
      BY <3>1, <3>2, <3>3, <3>4 DEF Runtime!Create, RuntimePath
    <3>. QED BY <3>5 DEF Runtime!OnceNext
  <2>2. CASE runtime # Absent
    <3>1. PICK v \in {"raised", "linked"} : la' = [la EXCEPT ![l] = v] /\ runtime' = runtime
      BY <1>3, <2>2 DEF LaunchLink
    <3>. QED BY <3>1, RuntimeAnswer
  <2>. QED BY <2>1, <2>2
<1>4. ASSUME NEW l \in Launchers, LaunchUnlink(l) PROVE Runtime!OnceNext
  <2>1. PICK v \in {"ready", "failed"} :
          la' = [la EXCEPT ![l] = v] /\ runtime' = runtime /\ (v = "ready" => la[l] = "linked")
    BY <1>4 DEF LaunchUnlink
  <2>2. v = "ready" => runtime # Absent
    BY <2>1 DEF LaunchInv, CopiesWhole
  <2>. QED BY <2>1, <2>2, RuntimeAnswer
<1>5. ASSUME NEW l \in Launchers, GuestStart(l) PROVE Runtime!OnceNext
  <2>1. PICK v \in {"running", "failed"} : la' = [la EXCEPT ![l] = v] /\ runtime' = runtime
    BY <1>5 DEF GuestStart
  <2>2. runtime # Absent
    BY <1>5 DEF GuestStart, LaunchInv, CopiesWhole
  <2>. QED BY <2>1, <2>2, RuntimeAnswer
<1>6. ASSUME UNCHANGED <<runtime, la>> PROVE UNCHANGED Runtime!onceVars
  BY <1>6 DEF Runtime!onceVars, At, TellRuntime
<1>7. CASE RuntimePlaced
  <2>1. runtime = Absent /\ runtime' \in Placed /\ UNCHANGED la
    BY <1>7 DEF RuntimePlaced
  <2>2. RuntimePath = Runtime!Nothing /\ RuntimePath' = Runtime!Foreign
    BY <2>1, RuntimeForms DEF RuntimePath, At, Runtime!Nothing, Runtime!Foreign
  <2>3. Runtime!Place
    BY <2>1, <2>2 DEF Runtime!Place, RuntimePath, TellRuntime
  <2>. QED BY <2>3 DEF Runtime!OnceNext
<1>8. CASE Rebuild \/ \E l \in Launchers : GuestWrite(l)
  BY <1>6, <1>8 DEF Rebuild, GuestWrite
<1>. QED BY <1>1, <1>2, <1>3, <1>4, <1>5, <1>7, <1>8 DEF LaunchNext

-----------------------------------------------------------------------------
(* The draft. *)

LEMMA DraftForms ==
  /\ NoReading \in Readings /\ NoBundle \in Drafts
  /\ \A d \in AnyImage, n \in 0 .. MaxWork : Reading(d, n) \in Readings
  /\ \A b \in Drafts : b.first \in Readings /\ b.last \in Readings
BY LaunchAssumption DEF NoReading, NoBundle, Reading, Readings, Drafts, AnyImage

LEMMA DraftParts ==
  ASSUME NEW b \in Drafts, NEW r \in Readings
  PROVE  /\ [b EXCEPT !.first = r] \in Drafts /\ [b EXCEPT !.first = r].first = r
         /\ LET c == [b EXCEPT !.last = r, !.files = {"disk"}]
            IN  c \in Drafts /\ c.first = b.first /\ c.last = r /\ c.files = {"disk"}
         /\ b.first = b.last /\ b.files = {"disk"} =>
              LET c == [b EXCEPT !.files = @ \cup {"config"}]
              IN  c \in Drafts /\ c \in WholeBundles
<1>1. b = [first |-> b.first, last |-> b.last, files |-> b.files] /\ b.files \subseteq {"disk", "config"}
      /\ b.first \in Readings /\ b.last \in Readings
  BY DEF Drafts
<1>2. ASSUME b.first = b.last, b.files = {"disk"}
      PROVE  LET c == [b EXCEPT !.files = @ \cup {"config"}] IN c \in Drafts /\ c \in WholeBundles
  <2>. DEFINE c == [b EXCEPT !.files = @ \cup {"config"}]
  <2>1. c = [first |-> b.first, last |-> b.first, files |-> {"disk", "config"}]
    BY <1>1, <1>2
  <2>2. c \in WholeBundles
    BY <1>1, <2>1 DEF WholeBundles, Readings, AnyImage
  <2>3. c \in Drafts
    BY <1>1, <2>1 DEF Drafts
  <2>. QED BY <2>2, <2>3
<1>3. [b EXCEPT !.first = r] \in Drafts /\ [b EXCEPT !.first = r].first = r
  BY <1>1 DEF Drafts
<1>4. LET c == [b EXCEPT !.last = r, !.files = {"disk"}]
      IN  c \in Drafts /\ c.first = b.first /\ c.last = r /\ c.files = {"disk"}
  BY <1>1 DEF Drafts
<1>. QED BY <1>2, <1>3, <1>4

LEMMA UtmForms ==
  /\ NoUtm.by \notin Exporters /\ ForeignUtm # NoUtm /\ ForeignUtm.by \notin Exporters
  /\ \A e \in Exporters, b \in WholeBundles :
       LET u == [by |-> e, of |-> b] IN u # NoUtm /\ u.by = e /\ u \in [by : Exporters, of : WholeBundles]
  /\ \A u \in [by : Exporters, of : WholeBundles] : u # NoUtm /\ u.by \in Exporters
BY ExportersAssumption DEF NoUtm, ForeignUtm

(* An export goes to v, with w in its temporary directory, and may take the  *)
(* lock; no guest writes meanwhile.                                          *)
LEMMA ExporterKeeps ==
  ASSUME ExportInv, NEW e \in Exporters, NEW v \in ExportPlace, NEW w \in Drafts,
         ex' = [ex EXCEPT ![e] = v], draft' = [draft EXCEPT ![e] = w],
         NEW source \in {"image", "runtime"}, from' = [from EXCEPT ![e] = source],
         utm' = utm \/ (utm = NoUtm /\ utm' \in [by : Exporters, of : WholeBundles]),
         UNCHANGED <<runtime, work, guest>>,
         converting' \in {converting \cup {e}, converting \ {e}},
         e \in converting' => guest = {},
         v = "converting" /\ source = "runtime" =>
           e \in converting' /\ runtime # Absent /\ w.first = Reading(runtime.of.disk, work),
         v = "check" => w.first = w.last /\ w.files = {"disk"},
         v = "publish" => w \in WholeBundles,
         v = "published" => utm'.by = e
  PROVE  ExportInv'
<1>. USE DEF ExportInv
<1>1. ExportTypeOK'
  BY DEF ExportTypeOK
<1>2. /\ ex'[e] = v /\ draft'[e] = w /\ from'[e] = source
      /\ \A k \in Exporters \ {e} : /\ ex'[k] = ex[k] /\ draft'[k] = draft[k] /\ from'[k] = from[k]
                                    /\ (k \in converting' <=> k \in converting)
  BY DEF ExportTypeOK
<1>3. \A k \in Exporters : utm.by = k => utm'.by = k
  BY UtmForms DEF OneMoment
<1>4. OneMoment'
  <2>. SUFFICES ASSUME NEW k \in Exporters
                PROVE  (/\ Converts(k) => k \in converting /\ runtime # Absent
                                          /\ draft[k].first = Reading(runtime.of.disk, work)
                        /\ ex[k] = "check" => draft[k].first = draft[k].last /\ draft[k].files = {"disk"}
                        /\ ex[k] = "publish" => draft[k] \in WholeBundles
                        /\ ex[k] = "published" => utm.by = k)'
    BY DEF OneMoment
  <2>1. CASE k = e
    BY <1>2, <2>1 DEF Converts, Reading
  <2>2. CASE k # e
    BY <1>2, <1>3, <2>2 DEF OneMoment, Converts, Reading
  <2>. QED BY <2>1, <2>2
<1>5. LocksHeld'
  BY DEF LocksHeld
<1>. QED BY <1>1, <1>4, <1>5

(* An export goes on, and keeps its directory or forgets it.                 *)
LEMMA ExporterGoes ==
  ASSUME ExportInv, NEW e \in Exporters,
         NEW v \in ExportPlace \ {"converting", "check", "publish", "published"},
         ex' = [ex EXCEPT ![e] = v], draft' = draft \/ draft' = [draft EXCEPT ![e] = NoBundle],
         NEW source \in {"image", "runtime"}, from' = [from EXCEPT ![e] = source],
         UNCHANGED <<utm, runtime, work, guest>>,
         converting' \in {converting, converting \ {e}}
  PROVE  ExportInv'
<1>1. PICK w \in Drafts : draft' = [draft EXCEPT ![e] = w]
  <2>1. draft[e] \in Drafts /\ draft = [draft EXCEPT ![e] = draft[e]]
    BY DEF ExportInv, ExportTypeOK
  <2>. QED BY <2>1, DraftForms
<1>2. converting' \in {converting \cup {e}, converting \ {e}} /\ (e \in converting' => guest = {})
  BY DEF ExportInv, LocksHeld
<1>. QED BY <1>1, <1>2, ExporterKeeps

LEMMA SourceKept ==
  ASSUME ExportInv, NEW e \in Exporters, from' = from
  PROVE  from[e] \in {"image", "runtime"} /\ from' = [from EXCEPT ![e] = from[e]]
BY DEF ExportInv, ExportTypeOK

LEMMA ExportInitial == DisksInit => ExportInv
BY DraftForms DEF DisksInit, LaunchInit, ExportInit, ExportInv, ExportTypeOK, OneMoment, LocksHeld, Converts,
   ExportPlace, ExportResting

LEMMA ExportStepKeeps ==
  ASSUME LaunchInv, ExportInv, ExportNext PROVE ExportInv'
<1>0. \A e \in Exporters : draft[e] \in Drafts /\ (draft' = draft => draft' = [draft EXCEPT ![e] = draft[e]])
  BY DEF ExportInv, ExportTypeOK
<1>1. ASSUME NEW e \in Exporters, ExportStart(e) PROVE ExportInv'
  <2>1. PICK source \in {"image", "runtime"} : from' = [from EXCEPT ![e] = source]
    BY <1>1 DEF ExportStart
  <2>2. PICK v \in ExportPlace \ {"converting", "check", "publish", "published"} : ex' = [ex EXCEPT ![e] = v]
    <3>1. {"failed", "inspect"} \subseteq ExportPlace \ {"converting", "check", "publish", "published"}
      BY DEF ExportPlace, ExportResting
    <3>2. PICK v \in {"failed", "inspect"} : ex' = [ex EXCEPT ![e] = v]
      BY <1>1 DEF ExportStart, Goto
    <3>. QED BY <3>1, <3>2
  <2>3. UNCHANGED <<utm, draft, runtime, work, guest, converting>>
    BY <1>1 DEF ExportStart, launchVars
  <2>. QED BY <2>1, <2>2, <2>3, ExporterGoes
<1>2. ASSUME NEW e \in Exporters, ExportInspect(e) PROVE ExportInv'
  <2>1. PICK v \in ExportPlace \ {"converting", "check", "publish", "published"} : ex' = [ex EXCEPT ![e] = v]
    <3>1. {"failed", "convert"} \subseteq ExportPlace \ {"converting", "check", "publish", "published"}
      BY DEF ExportPlace, ExportResting
    <3>2. PICK v \in {"failed", "convert"} : ex' = [ex EXCEPT ![e] = v]
      BY <1>2 DEF ExportInspect, Goto
    <3>. QED BY <3>1, <3>2
  <2>2. UNCHANGED <<utm, draft, from, runtime, work, guest, converting>>
    BY <1>2 DEF ExportInspect, launchVars
  <2>. QED BY <2>1, <2>2, SourceKept, ExporterGoes
<1>3. ASSUME NEW e \in Exporters, ConvertOpen(e) PROVE ExportInv'
  <2>1. UNCHANGED <<utm, from, built, runtime, work, la, guest>>
    BY <1>3 DEF ConvertOpen
  <2>2. CASE ~ (SourceExists(e) /\ ~Locked(e))
    <3>1. ex' = [ex EXCEPT ![e] = "raised"] /\ UNCHANGED <<draft, converting>>
      BY <1>3, <2>2 DEF ConvertOpen, Goto
    <3>2. "raised" \in ExportPlace \ {"converting", "check", "publish", "published"}
      BY DEF ExportPlace
    <3>. QED BY <2>1, <3>1, <3>2, SourceKept, ExporterGoes
  <2>3. CASE SourceExists(e) /\ ~Locked(e)
    <3>1. /\ ex' = [ex EXCEPT ![e] = "converting"] /\ draft' = [draft EXCEPT ![e].first = SourceNow(e)]
          /\ converting' = IF from[e] = "runtime" THEN converting \cup {e} ELSE converting
      BY <1>3, <2>3 DEF ConvertOpen, Goto
    <3>2. SourceNow(e) \in Readings
      <4>1. from[e] # "image" => runtime.of.disk \in AnyImage
        <5>1. ASSUME from[e] # "image" PROVE runtime \in Placed \cup [by : Launchers, of : WholeDisks]
          BY <2>3, <5>1 DEF SourceExists, LaunchInv, LaunchTypeOK
        <5>2. \A r \in Placed : r.of.disk \in AnyImage
          BY DEF Placed, NoArtifact, AnyImage
        <5>3. \A r \in [by : Launchers, of : WholeDisks] : r.of.disk \in AnyImage
          BY DEF WholeDisks, AnyImage
        <5>. QED BY <5>1, <5>2, <5>3
      <4>. QED BY <4>1, LaunchAssumption, DraftForms DEF SourceNow, LaunchInv, LaunchTypeOK
    <3>. DEFINE w == [draft[e] EXCEPT !.first = SourceNow(e)]
    <3>3. w \in Drafts /\ w.first = SourceNow(e)
      BY <1>0, <3>2, DraftParts
    <3>4. draft' = [draft EXCEPT ![e] = w]
      BY <3>1
    <3>5. from[e] = "runtime" =>
            /\ e \in converting' /\ runtime # Absent /\ w.first = Reading(runtime.of.disk, work) /\ guest = {}
      BY <2>3, <3>1, <3>3 DEF SourceExists, Locked, SourceNow
    <3>6. converting' \in {converting \cup {e}, converting \ {e}} /\ (e \in converting' => guest = {})
      BY <3>1, <3>5 DEF ExportInv, LocksHeld
    <3>7. "converting" \in ExportPlace
      BY DEF ExportPlace
    <3>8. from[e] \in {"image", "runtime"} /\ from' = [from EXCEPT ![e] = from[e]]
      BY <2>1, SourceKept
    <3>9. ex' = [ex EXCEPT ![e] = "converting"] /\ UNCHANGED <<utm, runtime, work, guest>>
      BY <2>1, <3>1
    <3>10. w \in Drafts /\ (from[e] = "runtime" =>
              e \in converting' /\ runtime # Absent /\ w.first = Reading(runtime.of.disk, work))
      BY <3>3, <3>5
    <3>. HIDE DEF w
    <3>. QED BY <3>4, <3>6, <3>7, <3>8, <3>9, <3>10, ExporterKeeps
  <2>. QED BY <2>2, <2>3
<1>4. ASSUME NEW e \in Exporters, ConvertClose(e) PROVE ExportInv'
  <2>. DEFINE r == IF from[e] = "image" THEN draft[e].first ELSE SourceNow(e)
              w == [draft[e] EXCEPT !.last = r, !.files = {"disk"}]
  <2>1. /\ UNCHANGED <<utm, from, built, runtime, work, la, guest>>
        /\ ex[e] = "converting" /\ ex' = [ex EXCEPT ![e] = "check"]
        /\ converting' = converting \ {e}
    BY <1>4 DEF ConvertClose, Goto
  <2>2. draft' = [draft EXCEPT ![e] = w]
    BY <1>4 DEF ConvertClose
  <2>3. r = draft[e].first /\ r \in Readings
    <3>1. draft[e].first \in Readings
      BY <1>0, DraftForms
    <3>2. from[e] # "image" => draft[e].first = SourceNow(e)
      <4>1. from[e] # "image" => Converts(e)
        BY <2>1, SourceKept DEF Converts
      <4>. QED BY <4>1 DEF ExportInv, OneMoment, SourceNow
    <3>. QED BY <3>1, <3>2
  <2>. HIDE DEF r
  <2>4. w \in Drafts /\ w.first = w.last /\ w.files = {"disk"}
    <3>1. draft[e] \in Drafts
      BY <1>0
    <3>2. w \in Drafts /\ w.first = draft[e].first /\ w.last = r /\ w.files = {"disk"}
      BY <2>3, <3>1, DraftParts
    <3>. QED BY <2>3, <3>2
  <2>5. "check" \in ExportPlace
    BY DEF ExportPlace
  <2>. HIDE DEF w
  <2>. QED BY <2>1, <2>2, <2>4, <2>5, SourceKept, ExporterKeeps
<1>5. ASSUME NEW e \in Exporters, ExportConfigure(e) PROVE ExportInv'
  <2>. DEFINE w == [draft[e] EXCEPT !.files = @ \cup {"config"}]
  <2>1. /\ ex[e] = "check" /\ ex' = [ex EXCEPT ![e] = "publish"] /\ draft' = [draft EXCEPT ![e] = w]
        /\ UNCHANGED <<utm, from, built, runtime, work, la, guest, converting>>
    BY <1>5 DEF ExportConfigure, Goto, launchVars
  <2>2. w \in Drafts /\ w \in WholeBundles
    <3>1. draft[e].first = draft[e].last /\ draft[e].files = {"disk"} /\ draft[e].first \in Readings
      BY <1>0, <2>1, DraftForms DEF ExportInv, OneMoment
    <3>. QED BY <1>0, <3>1, DraftParts
  <2>3. converting' \in {converting \cup {e}, converting \ {e}} /\ (e \in converting' => guest = {})
    BY <2>1 DEF ExportInv, LocksHeld
  <2>4. "publish" \in ExportPlace
    BY DEF ExportPlace
  <2>. HIDE DEF w
  <2>. QED BY <2>1, <2>2, <2>3, <2>4, SourceKept, ExporterKeeps
<1>6. ASSUME NEW e \in Exporters, Publish(e) PROVE ExportInv'
  <2>1. ex[e] = "publish" /\ UNCHANGED <<from, built, runtime, work, la, guest, converting>>
    BY <1>6 DEF Publish, launchVars
  <2>2. CASE utm = NoUtm
    <3>1. /\ utm' = [by |-> e, of |-> draft[e]] /\ draft' = [draft EXCEPT ![e] = NoBundle]
          /\ ex' = [ex EXCEPT ![e] = "published"]
      BY <1>6, <2>2 DEF Publish, Goto
    <3>2. draft[e] \in WholeBundles
      BY <2>1 DEF ExportInv, OneMoment
    <3>3. utm' \in [by : Exporters, of : WholeBundles] /\ utm'.by = e
      BY <3>1, <3>2, UtmForms
    <3>4. converting' \in {converting \cup {e}, converting \ {e}} /\ (e \in converting' => guest = {})
      BY <2>1 DEF ExportInv, LocksHeld
    <3>5. "published" \in ExportPlace /\ NoBundle \in Drafts
      BY DraftForms DEF ExportPlace
    <3>. QED BY <2>1, <2>2, <3>1, <3>3, <3>4, <3>5, SourceKept, ExporterKeeps
  <2>3. CASE utm # NoUtm
    <3>1. ex' = [ex EXCEPT ![e] = "raised"] /\ UNCHANGED <<utm, draft>>
      BY <1>6, <2>3 DEF Publish, Goto
    <3>2. "raised" \in ExportPlace \ {"converting", "check", "publish", "published"}
      BY DEF ExportPlace
    <3>. QED BY <2>1, <3>1, <3>2, SourceKept, ExporterGoes
  <2>. QED BY <2>2, <2>3
<1>7. ASSUME NEW e \in Exporters, ExportRaise(e) PROVE ExportInv'
  <2>1. /\ ex' = [ex EXCEPT ![e] = "raised"] /\ converting' = converting \ {e}
        /\ UNCHANGED <<utm, draft, from, runtime, work, guest>>
    BY <1>7 DEF ExportRaise, Goto
  <2>2. "raised" \in ExportPlace \ {"converting", "check", "publish", "published"}
    BY DEF ExportPlace
  <2>. QED BY <2>1, <2>2, SourceKept, ExporterGoes
<1>8. ASSUME NEW e \in Exporters, ExportCleanup(e) PROVE ExportInv'
  <2>1. PICK v \in ExportPlace \ {"converting", "check", "publish", "published"} : ex' = [ex EXCEPT ![e] = v]
    <3>1. {"failed", "done"} \subseteq ExportPlace \ {"converting", "check", "publish", "published"}
      BY DEF ExportPlace, ExportResting
    <3>2. PICK v \in {"failed", "done"} : ex' = [ex EXCEPT ![e] = v]
      BY <1>8 DEF ExportCleanup, Goto
    <3>. QED BY <3>1, <3>2
  <2>2. draft' = [draft EXCEPT ![e] = NoBundle] /\ UNCHANGED <<utm, from, runtime, work, guest, converting>>
    BY <1>8 DEF ExportCleanup, launchVars
  <2>. QED BY <2>1, <2>2, SourceKept, ExporterGoes
<1>9. ASSUME NEW e \in Exporters, ExportKill(e) PROVE ExportInv'
  <2>1. /\ ex' = [ex EXCEPT ![e] = "idle"] /\ converting' = converting \ {e}
        /\ draft' = [draft EXCEPT ![e] = NoBundle] /\ UNCHANGED <<utm, from, runtime, work, guest>>
    BY <1>9 DEF ExportKill, Goto
  <2>2. "idle" \in ExportPlace \ {"converting", "check", "publish", "published"}
    BY DEF ExportPlace, ExportResting
  <2>. QED BY <2>1, <2>2, SourceKept, ExporterGoes
<1>10. CASE UtmPlaced
  <2>1. utm = NoUtm /\ utm' = ForeignUtm /\ UNCHANGED <<draft, ex, from, runtime, work, guest, converting>>
    BY <1>10 DEF UtmPlaced, launchVars
  <2>2. \A e \in Exporters : ex[e] # "published"
    BY <2>1, UtmForms DEF ExportInv, OneMoment
  <2>. QED BY <2>1, <2>2 DEF ExportInv, ExportTypeOK, OneMoment, LocksHeld, Converts, Reading
<1>. QED BY <1>1, <1>2, <1>3, <1>4, <1>5, <1>6, <1>7, <1>8, <1>9, <1>10 DEF ExportNext

(* What launchers do leaves exports their moment: a guest starts, and so     *)
(* writes, only while nothing is converted.                                  *)
LEMMA LaunchKeepsExports ==
  ASSUME LaunchInv, ExportInv, LaunchNext, UNCHANGED exportVars PROVE ExportInv'
<1>1. UNCHANGED <<utm, draft, ex, from, converting>>
  BY DEF exportVars, LaunchNext, LaunchStart, LaunchOpen, LaunchCopy, LaunchLink, LaunchUnlink, LaunchRaise,
     LaunchKill, GuestStart, GuestWrite, GuestStop, Rebuild, RuntimePlaced
<1>2. converting # {} => guest' = {} /\ work' = work
  BY DEF ExportInv, LocksHeld, LaunchNext, LaunchStart, LaunchOpen, LaunchCopy, LaunchLink, LaunchUnlink,
     LaunchRaise, LaunchKill, GuestStart, GuestWrite, GuestStop, Rebuild, RuntimePlaced
<1>3. runtime # Absent => runtime' = runtime
  BY DEF LaunchNext, LaunchStart, LaunchOpen, LaunchCopy, LaunchLink, LaunchUnlink,
     LaunchRaise, LaunchKill, GuestStart, GuestWrite, GuestStop, Rebuild, RuntimePlaced
<1>4. ExportTypeOK'
  BY <1>1 DEF ExportInv, ExportTypeOK
<1>5. OneMoment'
  BY <1>1, <1>2, <1>3 DEF ExportInv, OneMoment, Converts, Reading
<1>6. LocksHeld'
  BY <1>1, <1>2 DEF LocksHeld
<1>. QED BY <1>4, <1>5, <1>6 DEF ExportInv

LEMMA ExportKeepsLaunches ==
  ASSUME LaunchInv, ExportNext PROVE LaunchInv' /\ UNCHANGED <<runtime, la>>
<1>1. UNCHANGED <<built, runtime, work, copies, la>>
  BY DEF ExportNext, ExportStart, ExportInspect, ConvertOpen, ConvertClose, ExportConfigure, Publish, ExportRaise,
     ExportCleanup, ExportKill, UtmPlaced, launchVars
<1>. QED BY <1>1 DEF LaunchInv, LaunchTypeOK, CopiesWhole

(* What an export at a place has reported. *)
ExportSays(place) ==
  CASE place = "done" -> "ready" [] place = "failed" -> "refused" [] OTHER -> "nothing"

BundlePath == At(Exporters, utm, NoUtm)

LEMMA ExportReported ==
  ASSUME ExportInv, NEW e \in Exporters, NEW v, ex' = [ex EXCEPT ![e] = v]
  PROVE  TellBundle' = [TellBundle EXCEPT ![e] = ExportSays(v)] /\ TellBundle[e] = ExportSays(ex[e])
<1>1. TellBundle = [k \in Exporters |-> ExportSays(ex[k])]
  BY DEF TellBundle, ExportSays
<1>2. TellBundle' = [k \in Exporters |-> ExportSays(ex'[k])]
  BY DEF TellBundle, ExportSays
<1>3. \A k \in Exporters : ex'[k] = IF k = e THEN v ELSE ex[k]
  BY DEF ExportInv, ExportTypeOK
<1>. QED BY <1>1, <1>2, <1>3

LEMMA BundleAnswer ==
  ASSUME ExportInv, NEW e \in Exporters, NEW v, ex' = [ex EXCEPT ![e] = v], utm' = utm,
         v = "done" => utm.by = e
  PROVE  Bundle!OnceNext
<1>1. UNCHANGED BundlePath
  BY DEF BundlePath, At
<1>2. TellBundle' = [TellBundle EXCEPT ![e] = ExportSays(v)]
  BY ExportReported
<1>3. CASE v = "done"
  <2>1. utm # NoUtm /\ utm.by = e
    BY <1>3, UtmForms
  <2>2. BundlePath = utm /\ utm # Bundle!Nothing
    BY <2>1, ExportersAssumption DEF BundlePath, At, Bundle!Nothing
  <2>3. Bundle!Ready(e)
    BY <1>1, <1>2, <1>3, <2>1, <2>2 DEF Bundle!Ready, BundlePath, ExportSays
  <2>. QED BY <2>3 DEF Bundle!OnceNext
<1>4. CASE v = "failed"
  <2>1. Bundle!Refuse(e)
    BY <1>1, <1>2, <1>4 DEF Bundle!Refuse, BundlePath, ExportSays
  <2>. QED BY <2>1 DEF Bundle!OnceNext
<1>5. CASE v \notin {"done", "failed"}
  <2>1. Bundle!Again(e)
    BY <1>1, <1>2, <1>5 DEF Bundle!Again, BundlePath, ExportSays
  <2>. QED BY <2>1 DEF Bundle!OnceNext
<1>. QED BY <1>3, <1>4, <1>5

LEMMA BundleStepImplements ==
  ASSUME ExportInv, ExportNext PROVE Bundle!OnceNext
<1>1. ASSUME NEW e \in Exporters,
             \/ ExportStart(e) \/ ExportInspect(e) \/ ConvertOpen(e) \/ ConvertClose(e)
             \/ ExportConfigure(e) \/ ExportRaise(e) \/ ExportKill(e)
      PROVE  Bundle!OnceNext
  <2>1. PICK v : ex' = [ex EXCEPT ![e] = v] /\ utm' = utm /\ v # "done"
    BY <1>1 DEF ExportStart, ExportInspect, ConvertOpen, ConvertClose, ExportConfigure, ExportRaise, ExportKill, Goto
  <2>. QED BY <2>1, BundleAnswer
<1>2. ASSUME NEW e \in Exporters, Publish(e) PROVE Bundle!OnceNext
  <2>1. CASE utm = NoUtm
    <3>1. /\ ex[e] = "publish" /\ ex' = [ex EXCEPT ![e] = "published"] /\ utm' = [by |-> e, of |-> draft[e]]
      BY <1>2, <2>1 DEF Publish, Goto
    <3>2. draft[e] \in WholeBundles
      BY <3>1 DEF ExportInv, OneMoment
    <3>3. BundlePath' = utm' /\ BundlePath = Bundle!Nothing
      <4>1. utm' # NoUtm /\ utm'.by = e
        BY <3>1, <3>2, UtmForms
      <4>. QED BY <2>1, <4>1 DEF BundlePath, At, Bundle!Nothing
    <3>4. TellBundle' = TellBundle
      <4>1. TellBundle' = [TellBundle EXCEPT ![e] = ExportSays("published")] /\ TellBundle[e] = ExportSays("publish")
        BY <3>1, ExportReported
      <4>2. ExportSays("published") = ExportSays("publish")
        BY DEF ExportSays
      <4>. QED BY <4>1, <4>2 DEF TellBundle
    <3>5. Bundle!Create(e)
      BY <3>1, <3>2, <3>3, <3>4 DEF Bundle!Create, BundlePath
    <3>. QED BY <3>5 DEF Bundle!OnceNext
  <2>2. CASE utm # NoUtm
    <3>1. ex' = [ex EXCEPT ![e] = "raised"] /\ utm' = utm
      BY <1>2, <2>2 DEF Publish, Goto
    <3>. QED BY <3>1, BundleAnswer
  <2>. QED BY <2>1, <2>2
<1>3. ASSUME NEW e \in Exporters, ExportCleanup(e) PROVE Bundle!OnceNext
  <2>1. PICK v : ex' = [ex EXCEPT ![e] = v] /\ utm' = utm /\ (v = "done" => ex[e] = "published")
    <3>. DEFINE v == IF ex[e] = "published" THEN "done" ELSE "failed"
    <3>1. ex' = [ex EXCEPT ![e] = v] /\ utm' = utm
      BY <1>3 DEF ExportCleanup, Goto
    <3>2. v = "done" => ex[e] = "published"
      OBVIOUS
    <3>. HIDE DEF v
    <3>. QED BY <3>1, <3>2
  <2>2. v = "done" => utm.by = e
    BY <2>1 DEF ExportInv, OneMoment
  <2>. QED BY <2>1, <2>2, BundleAnswer
<1>4. CASE UtmPlaced
  <2>1. utm = NoUtm /\ utm' = ForeignUtm /\ UNCHANGED ex
    BY <1>4 DEF UtmPlaced
  <2>2. BundlePath = Bundle!Nothing /\ BundlePath' = Bundle!Foreign
    BY <2>1, UtmForms DEF BundlePath, At, Bundle!Nothing, Bundle!Foreign
  <2>3. Bundle!Place
    BY <2>1, <2>2 DEF Bundle!Place, BundlePath, TellBundle
  <2>. QED BY <2>3 DEF Bundle!OnceNext
<1>. QED BY <1>1, <1>2, <1>3, <1>4 DEF ExportNext

-----------------------------------------------------------------------------

DisksInv == LaunchInv /\ ExportInv

LEMMA DisksInitial == DisksInit => DisksInv
BY LaunchInitial, ExportInitial DEF DisksInit, DisksInv

LEMMA DisksStepKeeps == DisksInv /\ [DisksNext]_diskVars => DisksInv'
<1>1. ASSUME DisksInv, UNCHANGED diskVars PROVE DisksInv'
  BY <1>1 DEF DisksInv, diskVars, launchVars, exportVars, LaunchInv, LaunchTypeOK, CopiesWhole,
     ExportInv, ExportTypeOK, OneMoment, LocksHeld, Converts, Reading
<1>. QED BY <1>1, LaunchStepKeeps, LaunchKeepsExports, ExportStepKeeps, ExportKeepsLaunches DEF DisksInv, DisksNext

(* Launchers never replace the writable disk nor publish less than a whole   *)
(* image, and a launcher that is told the disk is ready finds one, for every *)
(* number of launchers, images and exports.                                  *)
THEOREM RuntimeIsCreatedOnce == DisksSpec => RuntimeCreatedOnce
<1>1. DisksInit => Runtime!OnceInit
  <2>1. LaunchInit => TellRuntime = [l \in Launchers |-> "nothing"]
    BY DEF LaunchInit, TellRuntime
  <2>2. LaunchInit => At(Launchers, runtime, Absent) = Runtime!Nothing
    BY DEF LaunchInit, At, Runtime!Nothing
  <2>. QED BY <2>1, <2>2 DEF DisksInit, Runtime!OnceInit
<1>2. DisksInv /\ [DisksNext]_diskVars => [Runtime!OnceNext]_(Runtime!onceVars)
  <2>1. ASSUME UNCHANGED <<runtime, la>> PROVE UNCHANGED Runtime!onceVars
    BY <2>1 DEF Runtime!onceVars, At, TellRuntime
  <2>2. UNCHANGED diskVars => UNCHANGED <<runtime, la>>
    BY DEF diskVars, launchVars
  <2>. QED BY <2>1, <2>2, RuntimeStepImplements, ExportKeepsLaunches DEF DisksInv, DisksNext
<1>. QED BY <1>1, <1>2, DisksInitial, DisksStepKeeps, PTL DEF DisksSpec, RuntimeCreatedOnce, Runtime!OnceSpec

(* A UTM draft appears whole and once, from a disk as it was at one moment,  *)
(* and an export that reports success made it, for every number of exports   *)
(* and of launchers whose guests write to the disk.                          *)
THEOREM BundleIsCreatedOnce == DisksSpec => BundleCreatedOnce
<1>1. DisksInit => Bundle!OnceInit
  <2>1. ExportInit => TellBundle = [e \in Exporters |-> "nothing"]
    BY DEF ExportInit, TellBundle
  <2>2. ExportInit => At(Exporters, utm, NoUtm) = Bundle!Nothing
    BY DEF ExportInit, At, Bundle!Nothing
  <2>. QED BY <2>1, <2>2 DEF DisksInit, Bundle!OnceInit
<1>2. DisksInv /\ [DisksNext]_diskVars => [Bundle!OnceNext]_(Bundle!onceVars)
  <2>1. ASSUME UNCHANGED <<utm, ex>> PROVE UNCHANGED Bundle!onceVars
    BY <2>1 DEF Bundle!onceVars, At, TellBundle
  <2>2. UNCHANGED diskVars \/ UNCHANGED exportVars => UNCHANGED <<utm, ex>>
    BY DEF diskVars, exportVars
  <2>. QED BY <2>1, <2>2, BundleStepImplements DEF DisksInv, DisksNext
<1>. QED BY <1>1, <1>2, DisksInitial, DisksStepKeeps, PTL DEF DisksSpec, BundleCreatedOnce, Bundle!OnceSpec

=============================================================================
