--------------------------- MODULE BundlesProofs ---------------------------
(***************************************************************************)
(* Proofs about uploads, bundles and overlays, for any numbers of ids,     *)
(* manifests, callers, turns and skills: an overlay belongs to a turn that *)
(* a worker runs, or was left by one, a Codex child for tools that serves  *)
(* has its overlay, and what a turn runs on is a whole snapshot within the *)
(* limits.                                                                 *)
(***************************************************************************)
EXTENDS Bundles, FiniteSetTheorems, TLAPS

(* A call that has passed its check carries a manifest.                    *)
UploadsNamed == \A p \in Uploaders : upload[p].at # "idle" => upload[p].manifest \in Contents

OverlayInPlace ==
  \A t \in Turns :
    /\ overlay[t] # Nothing <=> at[t] \in InOverlay \/ t \in left
    /\ t \in left => at[t] = "over"

(* What is known of a turn's bundle, by how far the turn has come.         *)
BundleKnown ==
  \A t \in Turns :
    /\ at[t] \notin {"new", "over"} => of[t].id \in Ids /\ of[t].source # Nothing
    /\ at[t] \in {"accepting", "resolved", "recorded"} \union InOverlay =>
         of[t].manifest \in Contents

ToolsServe ==
  /\ \A t \in tools :
       /\ at[t] \in {"running", "released", "closing", "closed", "over"}
       /\ t \notin closing => at[t] \in {"running", "released"}
       /\ of[t].manifest \in Hosted
  /\ ~up => tools = {}

(* From its end until its clean-up, a snapshot is whole.                   *)
SnapshotsWhole ==
  \A t \in Turns :
    at[t] \in {"materialized", "running", "released"} =>
      overlay[t].whole /\ SnapshotEnds(overlay[t])

BundlesInv ==
  /\ TypeOK
  /\ UploadsNamed
  /\ OverlayInPlace
  /\ BundleKnown
  /\ ToolsServe
  /\ SnapshotsWhole

USE DEF InOverlay

LEMMA BundlesInit == Init => BundlesInv
<1> USE BundlesAssumption
<1>1. ASSUME Init PROVE BundlesInv
  <2>1. mounted \in [Ids -> Contents \union {Nothing}]
    BY <1>1 DEF Init
  <2>2. at \in [Turns -> {"new"}] /\ of \in [Turns -> {NoBundle}] /\ overlay \in [Turns -> {Nothing}]
    BY <1>1 DEF Init
  <2>3. overlay \in [Turns -> Overlays \union {Nothing}]
    BY <1>1 DEF Init
  <2>4. /\ record \in [Ids -> {Nothing} \union [source : {"mount", "inline"}, digest : Contents]]
        /\ file \in [Contents -> {"absent", "torn", "whole"}]
    BY <1>1 DEF Init
  <2>5. /\ upload \in [Uploaders ->
             [at : {"idle", "checked", "opening", "writing", "recording"},
              manifest : Contents \union {Nothing}]]
        /\ of \in [Turns -> [id : Ids \union {Nothing}, source : {"mount", "inline", Nothing},
                             manifest : Contents \union {Nothing}]]
    BY <1>1 DEF Init, Idle, NoBundle
  <2>6. TypeOK
    <3>1. up \in BOOLEAN /\ crashed \in BOOLEAN
      BY <1>1, Zenon DEF Init
    <3>3. remounts \in 0..MaxRemounts /\ left \subseteq Turns /\ tools \subseteq Turns /\ closing \subseteq tools
      BY <1>1 DEF Init
    <3>2. \A t \in Turns : overlay[t] = Nothing
      BY <1>1 DEF Init
    <3> QED
      BY <2>1, <2>2, <2>3, <2>4, <2>5, <3>1, <3>2, <3>3 DEF TypeOK
  <2>7. UploadsNamed /\ OverlayInPlace /\ BundleKnown
    BY <1>1 DEF Init, UploadsNamed, OverlayInPlace, BundleKnown, Idle
  <2>8. ToolsServe /\ SnapshotsWhole
    BY <1>1 DEF Init, ToolsServe, SnapshotsWhole
  <2> QED
    BY <2>6, <2>7, <2>8 DEF BundlesInv
<1> QED
  BY <1>1

UploadStages == {"idle", "checked", "opening", "writing", "recording"}
TurnStages ==
  {"new", "submitting", "accepting", "queued", "resolving", "resolved", "recorded", "over"}
    \union InOverlay

(* The steps that change one turn or one upload keep the types of both.    *)
LEMMA UploadMoves ==
  ASSUME TypeOK, NEW p \in Uploaders, NEW where \in UploadStages, UploadAt(p, where)
  PROVE  /\ upload' \in [Uploaders -> [at : UploadStages, manifest : Contents \union {Nothing}]]
         /\ upload' = [upload EXCEPT ![p] = [at |-> where, manifest |-> upload[p].manifest]]
<1>1. upload \in [Uploaders -> [at : UploadStages, manifest : Contents \union {Nothing}]]
  BY DEF TypeOK, UploadStages
<1>2. [upload[p] EXCEPT !.at = where] = [at |-> where, manifest |-> upload[p].manifest]
  BY <1>1
<1>3. upload' = [upload EXCEPT ![p] = [at |-> where, manifest |-> upload[p].manifest]]
  BY <1>2 DEF UploadAt
<1> QED
  BY <1>1, <1>3

LEMMA TurnMoves ==
  ASSUME TypeOK, NEW t \in Turns, NEW where \in TurnStages, TurnAt(t, where)
  PROVE  at' \in [Turns -> TurnStages]
  BY DEF TypeOK, TurnAt, TurnStages

(* An overlay is a directory, and a directory is something.                *)
LEMMA OverlayTypes ==
  ASSUME TypeOK,
         NEW t \in Turns, NEW o \in Overlays, overlay' = [overlay EXCEPT ![t] = o],
         Len(o.copied) <= Len(o.walk)
  PROVE  /\ overlay' \in [Turns -> Overlays \union {Nothing}]
         /\ \A s \in Turns : overlay'[s] # Nothing => Len(overlay'[s].copied) <= Len(overlay'[s].walk)
         /\ o # Nothing
  BY BundlesAssumption DEF TypeOK

(* An overlay that is removed is gone, or stays as a directory of its turn. *)
LEMMA RemovedOrLeft ==
  ASSUME BundlesInv, NEW t \in Turns, at[t] \in InOverlay, Emptied(t) \/ LeftOver(t)
  PROVE  /\ overlay' \in [Turns -> Overlays \union {Nothing}]
         /\ \A s \in Turns : overlay'[s] # Nothing => Len(overlay'[s].copied) <= Len(overlay'[s].walk)
         /\ left' \in SUBSET Turns
         /\ \A s \in Turns \ {t} : overlay'[s] = overlay[s] /\ (s \in left' <=> s \in left)
         /\ overlay'[t] # Nothing <=> t \in left'
<1> USE BundlesAssumption DEF BundlesInv
<1>1. CASE Emptied(t)
  BY <1>1 DEF Emptied, TypeOK, OverlayInPlace
<1>2. CASE LeftOver(t)
  <2> DEFINE o == [overlay[t] EXCEPT !.whole = FALSE]
  <2>1. overlay[t] \in Overlays /\ Len(overlay[t].copied) <= Len(overlay[t].walk)
    BY DEF TypeOK, OverlayInPlace
  <2>2. o \in Overlays /\ o.walk = overlay[t].walk /\ o.copied = overlay[t].copied
    BY <2>1 DEF Overlays
  <2>3. Len(o.copied) <= Len(o.walk)
    <3> HIDE DEF o
    <3> QED
      BY <2>1, <2>2
  <2>4. overlay' = [overlay EXCEPT ![t] = o]
    BY <1>2 DEF LeftOver
  <2> HIDE DEF o
  <2>5. /\ overlay' \in [Turns -> Overlays \union {Nothing}]
        /\ \A s \in Turns : overlay'[s] # Nothing => Len(overlay'[s].copied) <= Len(overlay'[s].walk)
        /\ o # Nothing
    BY <2>2, <2>3, <2>4, OverlayTypes
  <2> QED
    BY <1>2, <2>4, <2>5 DEF LeftOver, TypeOK
<1> QED
  BY <1>1, <1>2

(* It leaves nothing else to be proved but what became of the turn.        *)
LEMMA RemovalStep ==
  ASSUME BundlesInv, NEW t \in Turns, at[t] \in InOverlay \ {"running", "released"},
         Emptied(t) \/ LeftOver(t), TurnAt(t, "over"),
         UNCHANGED <<hostVars, record, uploadVars, of, toolVars>>
  PROVE  BundlesInv'
<1> USE BundlesAssumption DEF BundlesInv
<1> DEFINE Kept ==
     /\ overlay' \in [Turns -> Overlays \union {Nothing}]
     /\ \A s \in Turns : overlay'[s] # Nothing => Len(overlay'[s].copied) <= Len(overlay'[s].walk)
     /\ left' \in SUBSET Turns
     /\ \A s \in Turns \ {t} : overlay'[s] = overlay[s] /\ (s \in left' <=> s \in left)
     /\ overlay'[t] # Nothing <=> t \in left'
<1>1. Kept
  BY RemovedOrLeft
<1>2. /\ at' \in [Turns -> TurnStages]
      /\ at'[t] = "over" /\ \A s \in Turns \ {t} : at'[s] = at[s]
  BY TurnMoves DEF TurnStages, TurnAt, TypeOK
<1>3. UNCHANGED <<up, crashed, remounts, mounted, record, file, upload, of, tools, closing>>
  BY DEF hostVars, uploadVars, toolVars
<1>4. TypeOK'
  BY <1>1, <1>2, <1>3 DEF TypeOK, TurnStages
<1>5. UploadsNamed' /\ BundleKnown'
  BY <1>2, <1>3 DEF UploadsNamed, BundleKnown
<1>6. OverlayInPlace'
  BY <1>1, <1>2 DEF OverlayInPlace
<1>7. ToolsServe'
  BY <1>2, <1>3 DEF ToolsServe, TypeOK
<1>8. SnapshotsWhole'
  BY <1>1, <1>2 DEF SnapshotsWhole, SnapshotEnds, HasSkillFile
<1> QED
  BY <1>4, <1>5, <1>6, <1>7, <1>8

(* Steps of an upload.                                                     *)
LEMMA UploadStep ==
  ASSUME BundlesInv, NEW p \in Uploaders,
         (\E d \in Contents : BeginUpload(p, d)) \/ LookForFile(p) \/ OpenFile(p)
  PROVE  BundlesInv'
<1> USE BundlesAssumption DEF BundlesInv
<1>1. TypeOK'
  <2>1. CASE \E d \in Contents : BeginUpload(p, d)
    BY <2>1 DEF TypeOK, BeginUpload, hostVars, turnVars, toolVars
  <2>2. CASE LookForFile(p)
    <3>1. PICK w \in {"opening", "recording"} : UploadAt(p, w)
      BY <2>2 DEF LookForFile
    <3>2. upload' \in [Uploaders -> [at : UploadStages, manifest : Contents \union {Nothing}]]
      BY <3>1, UploadMoves DEF UploadStages
    <3> QED
      BY <2>2, <3>2 DEF TypeOK, LookForFile, UploadStages, hostVars, turnVars, toolVars
  <2>3. CASE OpenFile(p)
    <3>1. upload' \in [Uploaders -> [at : UploadStages, manifest : Contents \union {Nothing}]]
      BY <2>3, UploadMoves DEF OpenFile, UploadStages
    <3> QED
      BY <2>3, <3>1 DEF TypeOK, OpenFile, UploadStages, hostVars, turnVars, toolVars
  <2> QED
    BY <2>1, <2>2, <2>3
<1>2. UploadsNamed'
  <2>1. CASE \E d \in Contents : BeginUpload(p, d)
    BY <2>1 DEF TypeOK, UploadsNamed, BeginUpload
  <2>2. CASE LookForFile(p) \/ OpenFile(p)
    <3>1. PICK w \in {"opening", "recording", "writing"} : UploadAt(p, w)
      BY <2>2 DEF LookForFile, OpenFile
    <3>2. upload' = [upload EXCEPT ![p] = [at |-> w, manifest |-> upload[p].manifest]]
      BY <3>1, UploadMoves DEF UploadStages
    <3>3. upload[p].at # "idle"
      BY <2>2 DEF LookForFile, OpenFile
    <3> QED
      BY <3>2, <3>3 DEF UploadsNamed, TypeOK
  <2> QED
    BY <2>1, <2>2
<1>3. OverlayInPlace'
  BY DEF TypeOK, OverlayInPlace, BeginUpload, LookForFile, OpenFile, UploadAt, Idle,
     hostVars, turnVars, toolVars
<1>4. BundleKnown'
  BY DEF TypeOK, BundleKnown, BeginUpload, LookForFile, OpenFile, UploadAt, Idle,
     hostVars, turnVars, toolVars
<1>5. ToolsServe'
  BY DEF TypeOK, BundleKnown, ToolsServe, BeginUpload, LookForFile, OpenFile,
     UploadAt, Idle, hostVars, turnVars, toolVars
<1>6. SnapshotsWhole'
  BY DEF TypeOK, OverlayInPlace, SnapshotsWhole, BeginUpload, LookForFile, OpenFile,
     UploadAt, Idle, hostVars, turnVars, toolVars
<1> QED
  BY <1>1, <1>2, <1>3, <1>4, <1>5, <1>6

(* The file is written, or not, and the record with it.                    *)
LEMMA UploadEndStep ==
  ASSUME BundlesInv, NEW p \in Uploaders, WriteFile(p) \/ RecordUpload(p)
  PROVE  BundlesInv'
<1> USE BundlesAssumption DEF BundlesInv
<1>1. TypeOK'
  <2>1. CASE WriteFile(p)
    <3>1. upload' \in [Uploaders -> [at : UploadStages, manifest : Contents \union {Nothing}]]
      <4>1. CASE UploadAt(p, "recording")
        BY <4>1, UploadMoves DEF UploadStages
      <4>2. CASE upload' = [upload EXCEPT ![p] = Idle]
        BY <4>2 DEF TypeOK, Idle, UploadStages
      <4> QED
        BY <2>1, <4>1, <4>2 DEF WriteFile
    <3>2. file' \in [Contents -> {"absent", "torn", "whole"}]
      BY <2>1 DEF WriteFile, TypeOK
    <3> QED
      BY <2>1, <3>1, <3>2 DEF TypeOK, WriteFile, UploadStages, hostVars, turnVars, toolVars
  <2>2. CASE RecordUpload(p)
    <3>1. upload[p].manifest \in Contents
      BY <2>2 DEF RecordUpload, UploadsNamed
    <3>2. Inline(upload[p].manifest) \in [source : {"mount", "inline"}, digest : Contents]
      BY <3>1 DEF Inline
    <3>3. record' \in [Ids -> {Nothing} \union [source : {"mount", "inline"}, digest : Contents]]
      BY <2>2, <3>2 DEF RecordUpload, TypeOK
    <3>4. upload' \in [Uploaders -> [at : UploadStages, manifest : Contents \union {Nothing}]]
      BY <2>2 DEF RecordUpload, TypeOK, Idle, UploadStages
    <3> QED
      BY <2>2, <3>3, <3>4 DEF TypeOK, RecordUpload, UploadStages, hostVars, turnVars, toolVars
  <2> QED
    BY <2>1, <2>2
<1>2. UploadsNamed'
  <2>1. CASE UploadAt(p, "recording") /\ upload[p].at # "idle"
    <3>1. upload' = [upload EXCEPT ![p] = [at |-> "recording", manifest |-> upload[p].manifest]]
      BY <2>1, UploadMoves DEF UploadStages
    <3> QED
      BY <2>1, <3>1 DEF UploadsNamed, TypeOK
  <2>2. CASE upload' = [upload EXCEPT ![p] = Idle]
    BY <2>2 DEF UploadsNamed, TypeOK, Idle
  <2> QED
    BY <2>1, <2>2 DEF WriteFile, RecordUpload
<1>3. OverlayInPlace'
  BY DEF TypeOK, OverlayInPlace, WriteFile, RecordUpload, UploadAt, Idle, Inline,
     hostVars, turnVars, toolVars
<1>4. BundleKnown'
  BY DEF TypeOK, BundleKnown, WriteFile, RecordUpload, UploadAt, Idle, Inline,
     hostVars, turnVars, toolVars
<1>5. ToolsServe'
  BY DEF TypeOK, BundleKnown, ToolsServe, WriteFile, RecordUpload, UploadAt, Idle,
     Inline, hostVars, turnVars, toolVars
<1>6. SnapshotsWhole'
  BY DEF TypeOK, OverlayInPlace, SnapshotsWhole, WriteFile, RecordUpload, UploadAt,
     Idle, Inline, hostVars, turnVars, toolVars
<1> QED
  BY <1>1, <1>2, <1>3, <1>4, <1>5, <1>6

(* A bundle is looked up, at submission and again at execution.            *)
LEMMA FindStep ==
  ASSUME BundlesInv, NEW t \in Turns, (\E b \in Ids : Submit(t, b)) \/ Run(t)
  PROVE  BundlesInv'
<1> USE BundlesAssumption DEF BundlesInv
<1>1. PICK b \in Ids, loading \in {"submitting", "resolving"} :
        Find(t, b, loading) /\ at[t] \in {"new", "queued"}
  BY DEF Submit, Run, TypeOK, BundleKnown
<1>2. /\ UNCHANGED <<up, crashed, remounts, mounted, record, file, upload, overlay, left, tools, closing>>
      /\ \/ at' = [at EXCEPT ![t] = "over"] /\ UNCHANGED of
         \/ /\ at' = [at EXCEPT ![t] = loading] /\ Found(b) # Nothing
            /\ of' = [of EXCEPT ![t] =
                 [id |-> b, source |-> Found(b),
                  manifest |-> IF Found(b) = "inline" THEN record[b].digest ELSE Nothing]]
  BY <1>1 DEF Find, Refuse, TurnAt, hostVars, uploadVars, toolVars
<1>3. /\ Found(b) \in {"mount", "inline", Nothing}
      /\ Found(b) = "inline" /\ Found(b) # Nothing => record[b].digest \in Contents
  BY DEF Found, TypeOK
<1>4. /\ \A v \in Turns \ {t} : at'[v] = at[v] /\ of'[v] = of[v]
      /\ \/ at'[t] = "over"
         \/ at'[t] = loading /\ of'[t].id = b /\ of'[t].source = Found(b) /\ Found(b) # Nothing
  BY <1>2 DEF TypeOK
<1>5. TypeOK'
  <2>1. of' \in [Turns -> [id : Ids \union {Nothing}, source : {"mount", "inline", Nothing},
                           manifest : Contents \union {Nothing}]]
    BY <1>2, <1>3 DEF TypeOK
  <2>2. at' \in [Turns -> {"new", "submitting", "accepting", "queued", "resolving",
                           "resolved", "recorded", "over"} \union InOverlay]
    BY <1>2 DEF TypeOK
  <2> QED
    BY <1>2, <2>1, <2>2 DEF TypeOK
<1>6. UploadsNamed'
  BY <1>2 DEF UploadsNamed
<1>7. OverlayInPlace'
  BY <1>1, <1>2, <1>4 DEF OverlayInPlace
<1>8. BundleKnown'
  BY <1>1, <1>4 DEF BundleKnown
<1>9. ToolsServe'
  <2>1. \A v \in tools : v \in Turns /\ v # t
    BY <1>1 DEF TypeOK, ToolsServe
  <2> QED
    BY <1>2, <1>4, <2>1 DEF ToolsServe
<1>10. SnapshotsWhole'
  <2>1. \A v \in Turns : at'[v] \in {"materialized", "running", "released"} =>
                        at[v] = at'[v] /\ overlay'[v] = overlay[v]
    BY <1>2, <1>4
  <2> QED
    BY <2>1 DEF SnapshotsWhole, SnapshotEnds
<1> QED
  BY <1>5, <1>6, <1>7, <1>8, <1>9, <1>10

(* Its manifest is loaded, and recorded.                                   *)
LEMMA LoadStep ==
  ASSUME BundlesInv, NEW t \in Turns, Load(t) \/ RecordResolved(t)
  PROVE  BundlesInv'
<1> USE BundlesAssumption DEF BundlesInv
<1>1. TypeOK'
  <2>1. CASE Load(t)
    <3>1. at' \in [Turns -> TurnStages]
      BY <2>1 DEF Load, Refuse, TurnAt, TypeOK, TurnStages
    <3>2. Loaded(t) \in Contents \union {Nothing}
      BY <2>1 DEF Load, Loaded, TypeOK, BundleKnown
    <3>3. of' \in [Turns -> [id : Ids \union {Nothing}, source : {"mount", "inline", Nothing},
                             manifest : Contents \union {Nothing}]]
      <4>1. CASE of' = [of EXCEPT ![t].manifest = Loaded(t)] /\ Loaded(t) # Nothing
        <5> DEFINE R == [id : Ids \union {Nothing}, source : {"mount", "inline", Nothing},
                         manifest : Contents \union {Nothing}]
        <5>1. of \in [Turns -> R]
          BY DEF TypeOK
        <5>2. [of[t] EXCEPT !.manifest = Loaded(t)] \in R
          BY <3>2, <5>1
        <5>3. of' = [of EXCEPT ![t] = [of[t] EXCEPT !.manifest = Loaded(t)]]
          BY <4>1
        <5> HIDE DEF R
        <5>4. of' \in [Turns -> R]
          BY <5>1, <5>2, <5>3
        <5> QED
          BY <5>4 DEF R
      <4>2. CASE UNCHANGED of
        BY <4>2 DEF TypeOK
      <4> QED
        BY <2>1, <4>1, <4>2 DEF Load, Refuse
    <3>4. UNCHANGED <<up, crashed, remounts, mounted, record, file, upload, overlay, left, tools, closing>>
      BY <2>1 DEF Load, Refuse, hostVars, uploadVars, toolVars
    <3> QED
      BY <3>1, <3>3, <3>4 DEF TypeOK, TurnStages
  <2>2. CASE RecordResolved(t)
    <3>1. of[t].manifest \in Contents /\ of[t].source \in {"mount", "inline"}
      BY <2>2 DEF RecordResolved, BundleKnown, TypeOK
    <3>2. record' \in [Ids -> {Nothing} \union [source : {"mount", "inline"}, digest : Contents]]
      BY <2>2, <3>1 DEF RecordResolved, TypeOK
    <3>3. at' \in [Turns -> TurnStages]
      BY <2>2, TurnMoves DEF RecordResolved, TurnStages
    <3> QED
      BY <2>2, <3>2, <3>3 DEF TypeOK, RecordResolved, TurnStages, hostVars, uploadVars, toolVars
  <2> QED
    BY <2>1, <2>2
<1>2. UploadsNamed'
  BY DEF TypeOK, UploadsNamed, Load, RecordResolved, Loaded, Refuse, TurnAt, hostVars,
     uploadVars, toolVars
<1>3. OverlayInPlace'
  BY DEF TypeOK, OverlayInPlace, Load, RecordResolved, Loaded, Refuse, TurnAt,
     hostVars, uploadVars, toolVars
<1>4. BundleKnown'
  BY DEF TypeOK, BundleKnown, Load, RecordResolved, Loaded, Refuse, TurnAt, hostVars,
     uploadVars, toolVars
<1>5. ToolsServe'
  <2>1. t \notin tools
    BY DEF TypeOK, ToolsServe, Load, RecordResolved
  <2>2. UNCHANGED <<up, tools, closing>>
    BY DEF Load, RecordResolved, hostVars, toolVars
  <2>3. \A v \in tools : at'[v] = at[v] /\ of'[v] = of[v]
    BY <2>1 DEF TypeOK, Load, RecordResolved, Refuse, TurnAt
  <2> QED
    BY <2>2, <2>3 DEF ToolsServe
<1>6. SnapshotsWhole'
  BY DEF TypeOK, OverlayInPlace, SnapshotsWhole, Load, RecordResolved, Loaded, Refuse,
     TurnAt, hostVars, uploadVars, toolVars
<1> QED
  BY <1>1, <1>2, <1>3, <1>4, <1>5, <1>6

(* A directory that is begun, filled or finished is its turn's overlay.    *)
LEMMA OverlayGrows ==
  ASSUME BundlesInv, NEW t \in Turns, at[t] \in {"recorded", "copying"},
         NEW o \in Overlays, Len(o.copied) <= Len(o.walk),
         overlay' = [overlay EXCEPT ![t] = o],
         NEW to \in {"copying", "materialized"}, at' = [at EXCEPT ![t] = to],
         to = "materialized" => o.whole /\ SnapshotEnds(o),
         UNCHANGED <<hostVars, record, uploadVars, of, left, toolVars>>
  PROVE  BundlesInv'
<1> USE BundlesAssumption DEF BundlesInv
<1>1. /\ overlay' \in [Turns -> Overlays \union {Nothing}]
      /\ \A s \in Turns : overlay'[s] # Nothing => Len(overlay'[s].copied) <= Len(overlay'[s].walk)
      /\ o # Nothing
  BY OverlayTypes
<1>2. /\ overlay'[t] = o /\ \A s \in Turns \ {t} : overlay'[s] = overlay[s]
      /\ at' \in [Turns -> TurnStages]
      /\ at'[t] = to /\ \A s \in Turns \ {t} : at'[s] = at[s]
  BY DEF TypeOK, TurnStages
<1>3. UNCHANGED <<up, crashed, remounts, mounted, record, file, upload, of, left, tools, closing>>
  BY DEF hostVars, uploadVars, toolVars
<1>4. TypeOK'
  BY <1>1, <1>2, <1>3 DEF TypeOK, TurnStages
<1>5. UploadsNamed' /\ BundleKnown'
  BY <1>2, <1>3 DEF UploadsNamed, BundleKnown
<1>6. OverlayInPlace'
  BY <1>1, <1>2, <1>3 DEF OverlayInPlace
<1>7. ToolsServe'
  BY <1>2, <1>3 DEF ToolsServe, TypeOK
<1>8. SnapshotsWhole'
  <2>1. \A s \in Turns \ {t} : overlay'[s] = overlay[s] /\ at'[s] = at[s]
    BY <1>2
  <2>2. at'[t] \in {"materialized", "running", "released"} =>
          overlay'[t].whole /\ SnapshotEnds(overlay'[t])
    BY <1>2
  <2> QED
    BY <2>1, <2>2 DEF SnapshotsWhole, SnapshotEnds, HasSkillFile
<1> QED
  BY <1>4, <1>5, <1>6, <1>7, <1>8

(* A turn that moves on where overlays are neither made nor needed.        *)
LEMMA TurnMovesOn ==
  ASSUME BundlesInv, NEW t \in Turns, NEW to \in TurnStages, TurnAt(t, to),
         t \notin left,
         at[t] \in InOverlay <=> to \in InOverlay,
         at[t] \notin {"new", "over"} \/ to = "over",
         to \in {"materialized", "running", "released"} =>
           at[t] \in {"materialized", "running", "released"},
         to \in {"accepting", "resolved", "recorded"} =>
           at[t] \in {"accepting", "resolved", "recorded"} \union InOverlay,
         t \in tools => to \in {"running", "released"} \/ (t \in closing /\ to \in {"closing", "closed", "over"}),
         UNCHANGED <<hostVars, record, uploadVars, of, overlay, left, toolVars>>
  PROVE  BundlesInv'
<1> USE DEF BundlesInv
<1>1. /\ at' \in [Turns -> TurnStages]
      /\ at'[t] = to /\ \A s \in Turns \ {t} : at'[s] = at[s]
  BY TurnMoves DEF TurnAt, TypeOK, TurnStages
<1>2. UNCHANGED <<up, crashed, remounts, mounted, record, file, upload, of, overlay, left, tools, closing>>
  BY DEF hostVars, uploadVars, toolVars
<1>3. TypeOK'
  BY <1>1, <1>2 DEF TypeOK, TurnStages
<1>4. UploadsNamed' /\ BundleKnown'
  BY <1>1, <1>2 DEF UploadsNamed, BundleKnown
<1>5. OverlayInPlace'
  BY <1>1, <1>2 DEF OverlayInPlace
<1>6. ToolsServe'
  <2>1. \A s \in tools \ {t} : s \in Turns \ {t}
    BY DEF TypeOK
  <2>2. t \in tools =>
          /\ to \in {"running", "released", "closing", "closed", "over"}
          /\ t \notin closing => to \in {"running", "released"}
    OBVIOUS
  <2> QED
    BY <1>1, <1>2, <2>1, <2>2 DEF ToolsServe
<1>7. SnapshotsWhole'
  BY <1>1, <1>2 DEF SnapshotsWhole, SnapshotEnds, HasSkillFile
<1> QED
  BY <1>3, <1>4, <1>5, <1>6, <1>7

(* An overlay is begun, or its directory cannot be made.                   *)
LEMMA BeginStep ==
  ASSUME BundlesInv, NEW t \in Turns, BeginOverlay(t)
  PROVE  BundlesInv'
<1>1. CASE \E w \in Walks :
             /\ overlay' = [overlay EXCEPT ![t] = [walk |-> w, copied |-> <<>>, whole |-> FALSE]]
             /\ TurnAt(t, "copying")
  <2>1. PICK w \in Walks :
          overlay' = [overlay EXCEPT ![t] = [walk |-> w, copied |-> <<>>, whole |-> FALSE]]
    BY <1>1
  <2> DEFINE o == [walk |-> w, copied |-> <<>>, whole |-> FALSE]
  <2>2. o \in Overlays /\ Len(o.copied) <= Len(o.walk)
    <3>1. w \in Seq(Entries)
      BY BundlesAssumption
    <3>2. Len(w) \in Nat
      BY <3>1
    <3> QED
      BY <3>2 DEF Overlays
  <2>3. at' = [at EXCEPT ![t] = "copying"] /\ at[t] = "recorded"
    BY <1>1 DEF BeginOverlay, TurnAt
  <2>4. UNCHANGED <<hostVars, record, uploadVars, of, left, toolVars>>
    BY DEF BeginOverlay
  <2> HIDE DEF o
  <2>5. overlay' = [overlay EXCEPT ![t] = o]
    BY <2>1 DEF o
  <2> QED
    BY <2>2, <2>3, <2>4, <2>5, OverlayGrows
<1>2. CASE TurnAt(t, "over") /\ UNCHANGED overlay
  <2>1. at[t] = "recorded" /\ UNCHANGED <<hostVars, record, uploadVars, of, left, toolVars>>
    BY DEF BeginOverlay
  <2>2. t \notin left /\ t \notin tools
    BY <2>1 DEF BundlesInv, OverlayInPlace, ToolsServe
  <2> QED
    BY <1>2, <2>1, <2>2, TurnMovesOn DEF TurnStages
<1> QED
  BY <1>1, <1>2 DEF BeginOverlay

AddsEntry(t, read) ==
  overlay' = [overlay EXCEPT ![t].copied =
    Append(@, [overlay[t].walk[Len(overlay[t].copied) + 1] EXCEPT !.size = read])]

(* One more entry of the walk is in the copy.                              *)
CopiedEntry(t) ==
  /\ UNCHANGED <<at, left>>
  /\ Len(overlay[t].copied) < Len(overlay[t].walk)
  /\ \E read \in Nat : AddsEntry(t, read)

LEMMA EntryCopiedOrNot ==
  ASSUME BundlesInv, NEW t \in Turns, CopyEntry(t)
  PROVE  CopiedEntry(t) \/ Removal(t)
<1> USE DEF BundlesInv
<1> DEFINE o == overlay[t]
           entry == o.walk[Len(o.copied) + 1]
<1>1. o \in Overlays
  BY BundlesAssumption DEF CopyEntry, OverlayInPlace, TypeOK
<1>2. Len(o.copied) < Len(o.walk) /\ Len(o.copied) \in Nat
  BY <1>1 DEF CopyEntry, Overlays
<1>3. entry \in Entries
  BY <1>1, <1>2, BundlesAssumption DEF Overlays
<1>4. {entry.size} \union (IF entry.kind = "file" THEN {entry.size + 1} ELSE {}) \subseteq Nat
  BY <1>3 DEF Entries
<1> HIDE DEF entry
<1>5. PICK read \in Nat :
         IF Allowed(o.copied, entry, read)
         THEN /\ overlay' = [overlay EXCEPT ![t].copied = Append(@, [entry EXCEPT !.size = read])]
              /\ UNCHANGED <<at, left>>
         ELSE Removal(t)
  BY <1>4 DEF CopyEntry, entry
<1>6. CASE Removal(t)
  BY <1>6
<1>7. CASE /\ UNCHANGED <<at, left>>
           /\ overlay' = [overlay EXCEPT ![t].copied = Append(@, [entry EXCEPT !.size = read])]
  <2>1. UNCHANGED <<at, left>> /\ Len(o.copied) < Len(o.walk)
    BY <1>2, <1>7
  <2>2. AddsEntry(t, read)
    BY <1>7 DEF AddsEntry, entry
  <2> QED
    BY <2>1, <2>2 DEF CopiedEntry
<1> QED
  BY <1>5, <1>6, <1>7

LEMMA EntryCopied ==
  ASSUME BundlesInv, NEW t \in Turns, CopyEntry(t), CopiedEntry(t)
  PROVE  \E o \in Overlays :
           overlay' = [overlay EXCEPT ![t] = o] /\ Len(o.copied) <= Len(o.walk)
<1> USE DEF BundlesInv
<1> DEFINE o == overlay[t]
           entry == o.walk[Len(o.copied) + 1]
<1>1. o \in Overlays
  BY BundlesAssumption DEF CopyEntry, OverlayInPlace, TypeOK
<1>2. Len(o.copied) < Len(o.walk) /\ Len(o.copied) \in Nat /\ Len(o.walk) \in Nat
  BY <1>1, BundlesAssumption DEF CopiedEntry, Overlays
<1>3. entry \in Entries
  BY <1>1, <1>2, BundlesAssumption DEF Overlays
<1>4. PICK read \in Nat :
        overlay' = [overlay EXCEPT ![t].copied = Append(@, [entry EXCEPT !.size = read])]
  BY DEF CopiedEntry, AddsEntry
<1> DEFINE new == [entry EXCEPT !.size = read]
           copied == Append(o.copied, new)
           next == [o EXCEPT !.copied = copied]
<1>5. new \in Entries
  BY <1>3 DEF Entries
<1>6. copied \in Seq(Entries) /\ Len(copied) = Len(o.copied) + 1
  <2> HIDE DEF new
  <2>1. o.copied \in Seq(Entries)
    BY <1>1 DEF Overlays
  <2> QED
    BY <1>5, <2>1
<1>7. next = [walk |-> o.walk, copied |-> copied, whole |-> o.whole]
  <2> HIDE DEF copied
  <2> QED
    BY <1>1 DEF Overlays
<1>8. next \in Overlays /\ Len(next.copied) <= Len(next.walk)
  <2> HIDE DEF copied, next
  <2>1. next.copied = copied /\ next.walk = o.walk
    BY <1>7
  <2> QED
    BY <1>1, <1>2, <1>6, <1>7, <2>1 DEF Overlays
<1>9. overlay' = [overlay EXCEPT ![t] = next]
  BY <1>4
<1> QED
  BY <1>8, <1>9

(* An entry is copied, or ends the attempt.                                *)
LEMMA CopyStep ==
  ASSUME BundlesInv, NEW t \in Turns, CopyEntry(t)
  PROVE  BundlesInv'
<1>1. at[t] = "copying" /\ UNCHANGED <<hostVars, record, uploadVars, of, toolVars>>
  BY DEF CopyEntry
<1>2. CASE CopiedEntry(t)
  <2>1. PICK o \in Overlays : overlay' = [overlay EXCEPT ![t] = o] /\ Len(o.copied) <= Len(o.walk)
    BY <1>2, EntryCopied
  <2>2. at' = [at EXCEPT ![t] = "copying"] /\ UNCHANGED left
    BY <1>1, <1>2 DEF CopiedEntry, BundlesInv, TypeOK
  <2> QED
    BY <1>1, <2>1, <2>2, OverlayGrows
<1>3. CASE Removal(t)
  BY <1>1, <1>3, RemovalStep DEF Removal
<1> QED
  BY <1>2, <1>3, EntryCopiedOrNot

(* The overlay is written to its end.                                      *)
Materialized(t) ==
  /\ SnapshotEnds(overlay[t])
  /\ overlay' = [overlay EXCEPT ![t].whole = TRUE]
  /\ TurnAt(t, "materialized")
  /\ UNCHANGED left

LEMMA SnapshotKept ==
  ASSUME BundlesInv, NEW t \in Turns, EndOverlay(t), Materialized(t)
  PROVE  \E o \in Overlays :
           /\ overlay' = [overlay EXCEPT ![t] = o]
           /\ Len(o.copied) <= Len(o.walk) /\ o.whole /\ SnapshotEnds(o)
<1> USE DEF BundlesInv
<1> DEFINE o == overlay[t]
           next == [o EXCEPT !.whole = TRUE]
<1>1. o \in Overlays /\ Len(o.copied) <= Len(o.walk)
  BY BundlesAssumption DEF EndOverlay, OverlayInPlace, TypeOK
<1>2. next.walk = o.walk /\ next.copied = o.copied /\ next.whole = TRUE
  BY <1>1 DEF Overlays
<1>3. next \in Overlays
  BY <1>1 DEF Overlays
<1>4. SnapshotEnds(next)
  BY <1>2 DEF Materialized, SnapshotEnds, HasSkillFile
<1>5. overlay' = [overlay EXCEPT ![t] = next]
  BY DEF Materialized
<1> QED
  BY <1>1, <1>2, <1>3, <1>4, <1>5

(* The snapshot is accepted, or goes with the attempt.                     *)
LEMMA EndStep ==
  ASSUME BundlesInv, NEW t \in Turns, EndOverlay(t)
  PROVE  BundlesInv'
<1>1. at[t] = "copying" /\ UNCHANGED <<hostVars, record, uploadVars, of, toolVars>>
  BY DEF EndOverlay
<1>2. CASE Materialized(t)
  <2>1. PICK o \in Overlays :
          /\ overlay' = [overlay EXCEPT ![t] = o]
          /\ Len(o.copied) <= Len(o.walk) /\ o.whole /\ SnapshotEnds(o)
    BY <1>2, SnapshotKept
  <2>2. at' = [at EXCEPT ![t] = "materialized"] /\ UNCHANGED left
    BY <1>2 DEF Materialized, TurnAt
  <2> QED
    BY <1>1, <2>1, <2>2, OverlayGrows
<1>3. CASE Removal(t)
  BY <1>1, <1>3, RemovalStep DEF Removal
<1> QED
  BY <1>2, <1>3 DEF EndOverlay, Materialized

(* A child is checked out, with the tools of the bundle or without.        *)
LEMMA CheckOutStep ==
  ASSUME BundlesInv, up, NEW t \in Turns, CheckOut(t)
  PROVE  BundlesInv'
<1> USE BundlesAssumption DEF BundlesInv
<1>0. /\ at[t] = "materialized"
      /\ UNCHANGED <<up, crashed, remounts, mounted, record, file, upload, of, overlay, left, closing>>
  BY DEF CheckOut, hostVars, uploadVars
<1>1. t \notin tools /\ t \notin left
  BY <1>0 DEF ToolsServe, OverlayInPlace
<1>2. PICK to \in {"running", "closed"} :
        /\ at' = [at EXCEPT ![t] = to]
        /\ \/ UNCHANGED tools
           \/ tools' = tools \union {t} /\ of[t].manifest \in Hosted /\ to = "running"
  BY DEF CheckOut, HostsTools, TurnAt
<1>3. /\ at' \in [Turns -> TurnStages]
      /\ at'[t] = to /\ \A s \in Turns \ {t} : at'[s] = at[s]
  BY <1>2 DEF TypeOK, TurnStages
<1>4. TypeOK'
  BY <1>0, <1>2, <1>3 DEF TypeOK, TurnStages
<1>5. UploadsNamed' /\ BundleKnown' /\ OverlayInPlace'
  BY <1>0, <1>1, <1>3 DEF UploadsNamed, BundleKnown, OverlayInPlace
<1>6. ToolsServe'
  <2>1. \A s \in tools : s # t /\ s \in Turns
    BY <1>1 DEF TypeOK
  <2>2. \A s \in tools' : s \in tools \/ (s = t /\ of[t].manifest \in Hosted /\ to = "running")
    BY <1>2
  <2> QED
    BY <1>0, <1>3, <2>1, <2>2 DEF ToolsServe
<1>7. SnapshotsWhole'
  BY <1>0, <1>3 DEF SnapshotsWhole, SnapshotEnds, HasSkillFile
<1> QED
  BY <1>4, <1>5, <1>6, <1>7

(* The worker leaves the turn, and tells its child to close.               *)
LEMMA CloseStep ==
  ASSUME BundlesInv, up, NEW t \in Turns, Leave(t) \/ CloseTools(t)
  PROVE  BundlesInv'
<1> USE DEF BundlesInv
<1>0. UNCHANGED <<up, crashed, remounts, mounted, record, file, upload, of, overlay, left, tools>>
  BY DEF Leave, CloseTools, hostVars, uploadVars, toolVars
<1>1. PICK to \in {"released", "closing", "closed"} :
        /\ at' = [at EXCEPT ![t] = to]
        /\ at[t] = IF to = "released" THEN "running" ELSE "released"
        /\ closing' = IF to = "closing" THEN closing \union {t} ELSE closing
        /\ to = "closing" => t \in tools
        /\ to = "closed" => t \notin tools \ closing
  BY DEF Leave, CloseTools, TurnAt, toolVars
<1>2. /\ at' \in [Turns -> TurnStages]
      /\ at'[t] = to /\ \A s \in Turns \ {t} : at'[s] = at[s]
  BY <1>1 DEF TypeOK, TurnStages
<1>3. TypeOK'
  BY <1>0, <1>1, <1>2 DEF TypeOK, TurnStages
<1>4. UploadsNamed' /\ BundleKnown' /\ OverlayInPlace'
  BY <1>0, <1>1, <1>2 DEF UploadsNamed, BundleKnown, OverlayInPlace
<1>5. ToolsServe'
  <2>1. \A s \in tools \ {t} : s \in Turns \ {t} /\ (s \in closing' <=> s \in closing)
    BY <1>1 DEF TypeOK
  <2>2. t \in tools /\ t \notin closing' => to = "released"
    BY <1>1
  <2> QED
    BY <1>0, <1>2, <2>1, <2>2 DEF ToolsServe
<1>6. SnapshotsWhole'
  BY <1>0, <1>1, <1>2 DEF SnapshotsWhole, SnapshotEnds, HasSkillFile
<1> QED
  BY <1>3, <1>4, <1>5, <1>6

(* Its close returns or raises, and its overlay is removed or left.        *)
LEMMA LeaveStep ==
  ASSUME BundlesInv, NEW t \in Turns, AwaitTools(t) \/ CleanUp(t)
  PROVE  BundlesInv'
<1>1. /\ at[t] \in {"closing", "closed"}
      /\ UNCHANGED <<hostVars, record, uploadVars, of, toolVars>>
  BY DEF AwaitTools, CleanUp
<1>2. CASE t \notin tools /\ TurnAt(t, "closed") /\ UNCHANGED <<overlay, left>>
  <2>1. t \notin left
    BY <1>1 DEF BundlesInv, OverlayInPlace
  <2> QED
    BY <1>1, <1>2, <2>1, TurnMovesOn DEF TurnStages
<1>3. CASE (Emptied(t) \/ LeftOver(t)) /\ TurnAt(t, "over")
  BY <1>1, <1>3, RemovalStep
<1> QED
  BY <1>2, <1>3 DEF AwaitTools, CleanUp, Removal

(* Another thread tells a child to close, or it ends.                      *)
LEMMA ChildStep ==
  ASSUME BundlesInv, NEW t \in Turns, CloseElsewhere(t) \/ ToolsExit(t)
  PROVE  BundlesInv'
<1> USE DEF BundlesInv
<1>1. UNCHANGED <<up, crashed, remounts, mounted, record, file, upload, at, of, overlay, left>>
  BY DEF CloseElsewhere, ToolsExit, hostVars, uploadVars
<1>2. /\ tools' \subseteq tools /\ closing' \subseteq tools'
      /\ \A s \in tools' : s \notin closing' => s \notin closing
  BY DEF CloseElsewhere, ToolsExit, TypeOK
<1>3. TypeOK'
  BY <1>1, <1>2 DEF TypeOK
<1>4. UploadsNamed' /\ BundleKnown' /\ OverlayInPlace'
  BY <1>1 DEF UploadsNamed, BundleKnown, OverlayInPlace
<1>5. ToolsServe'
  BY <1>1, <1>2 DEF ToolsServe
<1>6. SnapshotsWhole'
  BY <1>1 DEF SnapshotsWhole, SnapshotEnds, HasSkillFile
<1> QED
  BY <1>3, <1>4, <1>5, <1>6

(* The host changes a mount; the broker ends and starts.                   *)
LEMMA HostStep ==
  ASSUME BundlesInv, (\E b \in Ids : Remount(b)) \/ Crash \/ Start
  PROVE  BundlesInv'
<1> USE BundlesAssumption DEF BundlesInv
<1>1. TypeOK'
  <2>1. CASE \E b \in Ids : Remount(b)
    BY <2>1 DEF TypeOK, Remount, uploadVars, turnVars, toolVars
  <2>2. CASE Crash
    BY <2>2 DEF TypeOK, Crash, Idle
  <2>3. CASE Start
    <3>1. at' \in [Turns -> TurnStages]
      BY <2>3 DEF Start, TurnStages, TypeOK
    <3>2. overlay' \in [Turns -> Overlays \union {Nothing}] /\ \A t \in Turns : overlay'[t] = Nothing
      BY <2>3 DEF Start, Swept
    <3> QED
      BY <2>3, <3>1, <3>2 DEF TypeOK, Start, TurnStages, uploadVars, toolVars
  <2> QED
    BY <2>1, <2>2, <2>3
<1>2. UploadsNamed'
  BY DEF TypeOK, UploadsNamed, Remount, Crash, Start, Swept, Idle, hostVars,
     uploadVars, turnVars, toolVars
<1>3. OverlayInPlace'
  BY DEF TypeOK, OverlayInPlace, Remount, Crash, Start, Swept, Idle, hostVars,
     uploadVars, turnVars, toolVars
<1>4. BundleKnown'
  BY DEF TypeOK, BundleKnown, Remount, Crash, Start, Swept, Idle, hostVars,
     uploadVars, turnVars, toolVars
<1>5. ToolsServe'
  BY DEF TypeOK, BundleKnown, ToolsServe, Remount, Crash, Start, Swept, Idle,
     hostVars, uploadVars, turnVars, toolVars
<1>6. SnapshotsWhole'
  BY DEF TypeOK, OverlayInPlace, SnapshotsWhole, Remount, Crash, Start, Swept, Idle,
     hostVars, uploadVars, turnVars, toolVars
<1> QED
  BY <1>1, <1>2, <1>3, <1>4, <1>5, <1>6

LEMMA BundlesStutter == ASSUME BundlesInv, UNCHANGED vars PROVE BundlesInv'
  BY DEF BundlesInv, TypeOK, UploadsNamed, OverlayInPlace, BundleKnown, ToolsServe,
     SnapshotsWhole, SnapshotEnds, HasSkillFile, vars, hostVars, uploadVars, turnVars, toolVars

LEMMA BundlesNext == BundlesInv /\ [Next]_vars => BundlesInv'
<1> SUFFICES ASSUME BundlesInv, [Next]_vars PROVE BundlesInv'
  OBVIOUS
<1>1. CASE UNCHANGED vars
  BY <1>1, BundlesStutter
<1>2. ASSUME NEW p \in Uploaders, Upload(p) PROVE BundlesInv'
  BY <1>2, UploadStep, UploadEndStep DEF Upload
<1>3. ASSUME NEW t \in Turns, up, Turn(t) \/ CloseElsewhere(t) \/ ToolsExit(t) PROVE BundlesInv'
  <2>1. CASE \E b \in Ids : Submit(t, b)
    BY <2>1, FindStep
  <2>2. CASE Run(t)
    BY <2>2, FindStep
  <2>3. CASE Load(t) \/ RecordResolved(t)
    BY <2>3, LoadStep
  <2>4. CASE BeginOverlay(t) \/ CopyEntry(t) \/ EndOverlay(t)
    BY <2>4, BeginStep, CopyStep, EndStep
  <2>5. CASE CheckOut(t) \/ Leave(t) \/ CloseTools(t)
    BY <1>3, <2>5, CheckOutStep, CloseStep
  <2>6. CASE AwaitTools(t) \/ CleanUp(t) \/ CloseElsewhere(t) \/ ToolsExit(t)
    BY <2>6, LeaveStep, ChildStep
  <2> QED
    BY <1>3, <2>1, <2>2, <2>3, <2>4, <2>5, <2>6 DEF Turn
<1>4. CASE (\E b \in Ids : Remount(b)) \/ Crash \/ Start
  BY <1>4, HostStep
<1> QED
  BY <1>1, <1>2, <1>3, <1>4 DEF Next

(* Every bundle, upload and overlay is of its type, and the parts above    *)
(* hold of them, in every state.                                           *)
THEOREM BundlesInvariant == Spec => []BundlesInv
  BY BundlesInit, BundlesNext, PTL DEF Spec

(* The mounts, records, files, uploads, turns and overlays keep their types *)
(* (accept_inline, resolve, materialize_with_provenance, _run_turn).       *)
THEOREM TypeCorrect == Spec => []TypeOK
<1>1. BundlesInv => TypeOK
  BY DEF BundlesInv
<1> QED
  BY <1>1, BundlesInvariant, PTL

(* While the broker serves, an overlay is that of a turn whose worker is   *)
(* between its materialization and its clean-up, or one whose removal      *)
(* failed or was not reached since the last start: no failed copy, failed  *)
(* checkout or crash leaves another (materialize_with_provenance,          *)
(* cleanup_overlay, _run_turn, BrokerServices.build).                      *)
THEOREM OverlaysCleaned == Spec => []OverlaysBelongToTurns
<1>1. BundlesInv => OverlaysBelongToTurns
  BY DEF BundlesInv, OverlaysBelongToTurns, OverlayInPlace
<1> QED
  BY <1>1, BundlesInvariant, PTL

(* A Codex child for hosted tools that no thread has told to close has the *)
(* overlay it was started with, whole, and one runs only for a manifest    *)
(* that declares tools (mcp_servers_for_bundle, close_client, _run_turn).  *)
THEOREM ToolsKeepTheirOverlay == Spec => []ToolsHaveTheirOverlay
<1>1. BundlesInv => ToolsHaveTheirOverlay
  BY DEF BundlesInv, ToolsHaveTheirOverlay, ToolsServe, OverlayInPlace,
     SnapshotsWhole, TypeOK
<1> QED
  BY <1>1, BundlesInvariant, PTL

-----------------------------------------------------------------------------
(* The counters of snapshot_skill_directory: what one more entry adds to   *)
(* the entries of a kind and to the bytes.                                 *)
LEMMA EntriesCounted ==
  ASSUME NEW c \in Seq(Entries), NEW kind
  PROVE  /\ Of(c, kind) \subseteq 1 .. Len(c)
         /\ IsFiniteSet(Of(c, kind)) /\ Count(c, kind) \in Nat
<1>1. Len(c) \in Nat /\ Of(c, kind) \subseteq 1 .. Len(c)
  BY DEF Of
<1>2. IsFiniteSet(1 .. Len(c))
  BY <1>1, FS_Interval
<1>3. IsFiniteSet(Of(c, kind))
  BY <1>1, <1>2, FS_Subset
<1> QED
  BY <1>1, <1>3, FS_CardinalityType DEF Count

LEMMA OneMoreEntry ==
  ASSUME NEW c \in Seq(Entries), NEW e \in Entries, NEW kind
  PROVE  /\ Of(Append(c, e), kind) = IF e.kind = kind THEN Of(c, kind) \union {Len(c) + 1} ELSE Of(c, kind)
         /\ Count(Append(c, e), kind) = IF e.kind = kind THEN Count(c, kind) + 1 ELSE Count(c, kind)
<1>1. /\ Len(c) \in Nat /\ DOMAIN c = 1 .. Len(c)
      /\ DOMAIN Append(c, e) = 1 .. Len(c) + 1
      /\ \A i \in 1 .. Len(c) : Append(c, e)[i] = c[i]
      /\ Append(c, e)[Len(c) + 1] = e
  OBVIOUS
<1>2. Of(Append(c, e), kind) = IF e.kind = kind THEN Of(c, kind) \union {Len(c) + 1} ELSE Of(c, kind)
  BY <1>1 DEF Of
<1>3. IsFiniteSet(Of(c, kind)) /\ Len(c) + 1 \notin Of(c, kind)
  BY <1>1, EntriesCounted
<1>4. Cardinality(Of(c, kind) \union {Len(c) + 1}) = Cardinality(Of(c, kind)) + 1
  BY <1>3, FS_AddElement
<1> QED
  BY <1>2, <1>4 DEF Count

LEMMA BytesOfEntry ==
  ASSUME NEW n, NEW size \in Nat
  PROVE  IsFiniteSet({n} \X (1 .. size)) /\ Cardinality({n} \X (1 .. size)) = size
<1>1. IsFiniteSet({n}) /\ Cardinality({n}) = 1
  BY FS_Singleton
<1>2. IsFiniteSet(1 .. size) /\ Cardinality(1 .. size) = size
  BY FS_Interval
<1>3. /\ IsFiniteSet({n} \X (1 .. size))
      /\ Cardinality({n} \X (1 .. size)) = Cardinality({n}) * Cardinality(1 .. size)
  BY <1>1, <1>2, FS_Product
<1> QED
  BY <1>1, <1>2, <1>3

(* A copy whose files are within their limit has finitely many bytes.      *)
LEMMA BytesCounted ==
  ASSUME NEW c \in Seq(Entries), \A i \in Of(c, "file") : c[i].size <= MaxFileBytes
  PROVE  IsFiniteSet(BytesOf(c)) /\ Bytes(c) \in Nat
<1>1. Len(c) \in Nat /\ MaxFileBytes \in Nat
  BY BundlesAssumption
<1>2. IsFiniteSet(1 .. Len(c)) /\ IsFiniteSet(1 .. MaxFileBytes)
  BY <1>1, FS_Interval
<1>3. IsFiniteSet((1 .. Len(c)) \X (1 .. MaxFileBytes))
  BY <1>2, FS_Product
<1>4. BytesOf(c) \subseteq (1 .. Len(c)) \X (1 .. MaxFileBytes)
  <2> SUFFICES ASSUME NEW i \in Of(c, "file"), NEW b \in 1 .. c[i].size
               PROVE  i \in 1 .. Len(c) /\ b \in 1 .. MaxFileBytes
    BY DEF BytesOf
  <2>1. i \in 1 .. Len(c) /\ c[i] \in Entries
    BY EntriesCounted
  <2>2. c[i].size \in Nat /\ c[i].size <= MaxFileBytes
    BY <2>1 DEF Entries
  <2> QED
    BY <2>1, <2>2, <1>1
<1>5. IsFiniteSet(BytesOf(c))
  BY <1>3, <1>4, FS_Subset
<1> QED
  BY <1>5, FS_CardinalityType DEF Bytes

LEMMA MoreBytes ==
  ASSUME NEW c \in Seq(Entries), \A i \in Of(c, "file") : c[i].size <= MaxFileBytes,
         NEW e \in Entries
  PROVE  Bytes(Append(c, e)) = IF e.kind = "file" THEN Bytes(c) + e.size ELSE Bytes(c)
<1> DEFINE n == Len(c) + 1
           d == Append(c, e)
<1>1. /\ Len(c) \in Nat
      /\ \A i \in 1 .. Len(c) : d[i] = c[i]
      /\ d[n] = e
  OBVIOUS
<1>2. Of(c, "file") \subseteq 1 .. Len(c)
  BY EntriesCounted
<1>3. Of(d, "file") = IF e.kind = "file" THEN Of(c, "file") \union {n} ELSE Of(c, "file")
  BY OneMoreEntry
<1> HIDE DEF d, n
<1>4. \A i \in Of(c, "file") : d[i].size = c[i].size
  BY <1>1, <1>2
<1>5. CASE e.kind # "file"
  <2>1. BytesOf(d) = BytesOf(c)
    BY <1>3, <1>4, <1>5 DEF BytesOf
  <2> QED
    BY <2>1, <1>5 DEF Bytes, d
<1>6. CASE e.kind = "file"
  <2> DEFINE B == {n} \X (1 .. e.size)
  <2>1. BytesOf(d) = BytesOf(c) \union B
    BY <1>1, <1>3, <1>4, <1>6 DEF BytesOf
  <2>2. BytesOf(c) \intersect B = {}
    <3>1. n \notin Of(c, "file")
      BY <1>1, <1>2 DEF n
    <3> QED
      BY <3>1 DEF BytesOf
  <2>3. IsFiniteSet(B) /\ Cardinality(B) = e.size
    <3>1. e.size \in Nat
      BY DEF Entries
    <3> QED
      BY <3>1, BytesOfEntry
  <2>4. IsFiniteSet(BytesOf(c)) /\ Bytes(c) \in Nat
    BY BytesCounted
  <2> HIDE DEF B
  <2>5. Cardinality(BytesOf(c) \union B) = Cardinality(BytesOf(c)) + Cardinality(B) - Cardinality({})
    BY <2>2, <2>3, <2>4, FS_Union
  <2>6. Cardinality({}) = 0
    BY FS_EmptySet
  <2>7. e.size \in Nat
    BY DEF Entries
  <2> QED
    BY <2>1, <2>3, <2>4, <2>5, <2>6, <2>7, <1>6 DEF Bytes, d
<1> QED
  BY <1>5, <1>6

LEMMA EmptyFits == WithinLimits(<<>>)
<1>1. Of(<<>>, "file") = {} /\ Of(<<>>, "directory") = {} /\ Of(<<>>, "link") = {}
  BY DEF Of
<1>2. BytesOf(<<>>) = {}
  BY <1>1 DEF BytesOf
<1>3. Cardinality({}) = 0
  BY FS_EmptySet
<1>4. MaxFiles \in Nat /\ MaxDirectories \in Nat \ {0} /\ MaxTotalBytes \in Nat
  BY BundlesAssumption
<1>5. DOMAIN <<>> = {}
  OBVIOUS
<1>6. \A kind : kind \in {"file", "directory", "link"} => Count(<<>>, kind) = 0
  BY <1>1, <1>3 DEF Count
<1>7. Bytes(<<>>) = 0
  BY <1>2, <1>3 DEF Bytes
<1> QED
  BY <1>1, <1>4, <1>5, <1>6, <1>7 DEF WithinLimits

(* What may be copied after a copy within the limits keeps it within them. *)
LEMMA AllowedFits ==
  ASSUME NEW c \in Seq(Entries), WithinLimits(c), NEW entry \in Entries, NEW read \in Nat,
         Allowed(c, entry, read)
  PROVE  WithinLimits(Append(c, [entry EXCEPT !.size = read]))
<1> DEFINE e == [entry EXCEPT !.size = read]
           d == Append(c, e)
<1>1. /\ e \in Entries /\ e.kind = entry.kind /\ e.depth = entry.depth /\ e.size = read
      /\ e.kind \in {"file", "directory", "link"}
  BY DEF Entries
<1> HIDE DEF e
<1>2. /\ Len(c) \in Nat /\ DOMAIN d = 1 .. Len(c) + 1 /\ DOMAIN c = 1 .. Len(c)
      /\ \A i \in 1 .. Len(c) : d[i] = c[i]
      /\ d[Len(c) + 1] = e
  BY <1>1
<1>3. \A i \in Of(c, "file") : c[i].size <= MaxFileBytes
  BY DEF WithinLimits
<1>4. \A kind : Count(d, kind) = IF e.kind = kind THEN Count(c, kind) + 1 ELSE Count(c, kind)
  BY <1>1, OneMoreEntry
<1>5. \A kind : Count(c, kind) \in Nat
  BY EntriesCounted
<1>6. Bytes(d) = IF e.kind = "file" THEN Bytes(c) + read ELSE Bytes(c)
  BY <1>1, <1>3, MoreBytes
<1>7. Of(d, "file") = IF e.kind = "file" THEN Of(c, "file") \union {Len(c) + 1} ELSE Of(c, "file")
  BY <1>1, OneMoreEntry
<1>8. Of(c, "file") \subseteq 1 .. Len(c)
  BY EntriesCounted
<1> HIDE DEF d
<1>9. Count(d, "file") <= MaxFiles
  BY <1>1, <1>4, <1>5 DEF WithinLimits, Allowed
<1>10. Count(d, "directory") + 1 <= MaxDirectories
  BY <1>1, <1>4, <1>5 DEF WithinLimits, Allowed
<1>11. Count(d, "link") = 0
  BY <1>1, <1>4, <1>5 DEF WithinLimits, Allowed
<1>12. Bytes(d) <= MaxTotalBytes
  BY <1>1, <1>6 DEF WithinLimits, Allowed
<1>13. \A i \in DOMAIN d : d[i].depth <= MaxDepth
  BY <1>1, <1>2 DEF WithinLimits, Allowed
<1>14. \A i \in Of(d, "file") : d[i].size <= MaxFileBytes
  BY <1>1, <1>2, <1>3, <1>7, <1>8 DEF Allowed
<1> QED
  BY <1>9, <1>10, <1>11, <1>12, <1>13, <1>14 DEF WithinLimits, d, e

(* A copy is within the limits from its beginning to the end of the turn.  *)
SnapshotsFit ==
  \A t \in Turns :
    at[t] \in {"copying", "materialized", "running"} => WithinLimits(overlay[t].copied)

LEMMA FitsOn ==
  ASSUME SnapshotsFit,
         \A s \in Turns : at'[s] \in {"copying", "materialized", "running"} =>
           /\ at[s] \in {"copying", "materialized", "running"}
           /\ overlay'[s].copied = overlay[s].copied
  PROVE  SnapshotsFit'
<1> SUFFICES ASSUME NEW s \in Turns, at'[s] \in {"copying", "materialized", "running"}
             PROVE  WithinLimits(overlay[s].copied)'
  BY DEF SnapshotsFit
<1>1. WithinLimits(overlay[s].copied)
  BY DEF SnapshotsFit
<1>2. overlay'[s].copied = overlay[s].copied
  OBVIOUS
<1> QED
  BY <1>1, <1>2 DEF WithinLimits, Count, Bytes, BytesOf, Of

(* The step of one turn leaves the copies of the others.                   *)
LEMMA FitsForOne ==
  ASSUME SnapshotsFit, NEW t \in Turns, NEW c, WithinLimits(c),
         \A s \in Turns \ {t} : at'[s] = at[s] /\ overlay'[s] = overlay[s],
         overlay'[t].copied = c
  PROVE  SnapshotsFit'
<1> SUFFICES ASSUME NEW s \in Turns, at'[s] \in {"copying", "materialized", "running"}
             PROVE  WithinLimits(overlay[s].copied)'
  BY DEF SnapshotsFit
<1>1. \E d : WithinLimits(d) /\ overlay'[s].copied = d
  BY DEF SnapshotsFit
<1> QED
  BY <1>1 DEF WithinLimits, Count, Bytes, BytesOf, Of

(* A turn that is over has none to fit.                                    *)
LEMMA FitsRemoved ==
  ASSUME TypeOK, SnapshotsFit, NEW t \in Turns, Emptied(t) \/ LeftOver(t), TurnAt(t, "over")
  PROVE  SnapshotsFit'
<1>1. at'[t] = "over" /\ \A s \in Turns \ {t} : at'[s] = at[s] /\ overlay'[s] = overlay[s]
  BY DEF Emptied, LeftOver, TurnAt, TypeOK
<1> QED
  BY <1>1, FitsOn

LEMMA FitsCopy ==
  ASSUME BundlesInv, SnapshotsFit, NEW t \in Turns, CopyEntry(t)
  PROVE  SnapshotsFit'
<1> USE DEF BundlesInv
<1> DEFINE o == overlay[t]
           entry == o.walk[Len(o.copied) + 1]
<1>1. o \in Overlays /\ at[t] = "copying"
  BY BundlesAssumption DEF CopyEntry, OverlayInPlace, TypeOK
<1>2. Len(o.copied) < Len(o.walk) /\ Len(o.copied) \in Nat /\ o.copied \in Seq(Entries)
  BY <1>1 DEF CopyEntry, Overlays
<1>3. entry \in Entries
  BY <1>1, <1>2, BundlesAssumption DEF Overlays
<1>4. {entry.size} \union (IF entry.kind = "file" THEN {entry.size + 1} ELSE {}) \subseteq Nat
  BY <1>3 DEF Entries
<1> HIDE DEF entry
<1>5. PICK read \in Nat :
         IF Allowed(o.copied, entry, read)
         THEN /\ overlay' = [overlay EXCEPT ![t].copied = Append(@, [entry EXCEPT !.size = read])]
              /\ UNCHANGED <<at, left>>
         ELSE Removal(t)
  BY <1>4 DEF CopyEntry, entry
<1>6. CASE Removal(t)
  BY <1>6, FitsRemoved DEF Removal
<1>7. CASE /\ Allowed(o.copied, entry, read) /\ UNCHANGED at
           /\ overlay' = [overlay EXCEPT ![t].copied = Append(@, [entry EXCEPT !.size = read])]
  <2> DEFINE c == Append(o.copied, [entry EXCEPT !.size = read])
  <2>1. WithinLimits(o.copied)
    BY <1>1 DEF SnapshotsFit
  <2>2. WithinLimits(c)
    BY <2>1, <1>2, <1>3, <1>7, AllowedFits
  <2> HIDE DEF c
  <2>3. overlay' = [overlay EXCEPT ![t].copied = c]
    BY <1>7 DEF c
  <2>4. overlay'[t].copied = c /\ \A s \in Turns \ {t} : at'[s] = at[s] /\ overlay'[s] = overlay[s]
    BY <2>3, <1>1, <1>7 DEF TypeOK, Overlays
  <2> QED
    BY <2>2, <2>4, FitsForOne
<1> QED
  BY <1>5, <1>6, <1>7

LEMMA FitsStep ==
  ASSUME BundlesInv, SnapshotsFit, [Next]_vars
  PROVE  SnapshotsFit'
<1>t. TypeOK
  BY DEF BundlesInv
<1>u. ASSUME UNCHANGED <<at, overlay>> PROVE SnapshotsFit'
  BY <1>u, FitsOn
<1>1. CASE UNCHANGED vars
  BY <1>1, <1>u DEF vars, turnVars
<1>2. ASSUME NEW p \in Uploaders, Upload(p) PROVE SnapshotsFit'
  BY <1>2, <1>u DEF Upload, BeginUpload, LookForFile, OpenFile, WriteFile, RecordUpload, turnVars
<1>3. ASSUME NEW t \in Turns, Turn(t) \/ CloseElsewhere(t) \/ ToolsExit(t) PROVE SnapshotsFit'
  <2>m. ASSUME NEW to, TurnAt(t, to), UNCHANGED overlay,
               to \in {"copying", "materialized", "running"} =>
                 at[t] \in {"copying", "materialized", "running"}
        PROVE  SnapshotsFit'
    BY <2>m, <1>t, FitsOn DEF TurnAt, TypeOK
  <2>1. CASE (\E b \in Ids : Submit(t, b)) \/ Run(t)
    <3>1. UNCHANGED overlay
          /\ (TurnAt(t, "over") \/ TurnAt(t, "submitting") \/ TurnAt(t, "resolving"))
      BY <2>1 DEF Submit, Run, Find, Refuse
    <3> QED
      BY <3>1, <2>m
  <2>2. CASE Load(t)
    <3>1. UNCHANGED overlay
          /\ (TurnAt(t, "over") \/ TurnAt(t, "accepting") \/ TurnAt(t, "resolved"))
      BY <2>2 DEF Load, Refuse
    <3> QED
      BY <3>1, <2>m
  <2>3. CASE RecordResolved(t)
    <3>1. UNCHANGED overlay /\ (TurnAt(t, "queued") \/ TurnAt(t, "recorded"))
      BY <2>3 DEF RecordResolved
    <3> QED
      BY <3>1, <2>m
  <2>4. CASE BeginOverlay(t)
    <3>1. CASE TurnAt(t, "over") /\ UNCHANGED overlay
      BY <3>1, <2>m
    <3>2. ASSUME NEW w \in Walks, TurnAt(t, "copying"),
                 overlay' = [overlay EXCEPT ![t] = [walk |-> w, copied |-> <<>>, whole |-> FALSE]]
          PROVE  SnapshotsFit'
      <4>1. overlay'[t].copied = <<>>
        BY <3>2, <1>t DEF TypeOK
      <4>2. \A s \in Turns \ {t} : at'[s] = at[s] /\ overlay'[s] = overlay[s]
        BY <3>2, <1>t DEF TurnAt, TypeOK
      <4> QED
        BY <4>1, <4>2, EmptyFits, FitsForOne
    <3> QED
      BY <2>4, <3>1, <3>2 DEF BeginOverlay
  <2>5. CASE CopyEntry(t)
    BY <2>5, FitsCopy
  <2>6. CASE EndOverlay(t)
    <3>1. CASE overlay' = [overlay EXCEPT ![t].whole = TRUE] /\ TurnAt(t, "materialized")
      <4>1. overlay[t] \in Overlays /\ at[t] = "copying"
        BY <2>6, BundlesAssumption DEF EndOverlay, BundlesInv, OverlayInPlace, TypeOK
      <4>2. \A s \in Turns : overlay'[s].copied = overlay[s].copied
        BY <3>1, <4>1, <1>t DEF TypeOK, Overlays
      <4> QED
        BY <3>1, <4>1, <4>2, <1>t, FitsOn DEF TurnAt, TypeOK
    <3>2. CASE Removal(t)
      BY <3>2, <1>t, FitsRemoved DEF Removal
    <3> QED
      BY <2>6, <3>1, <3>2 DEF EndOverlay
  <2>7. CASE CheckOut(t)
    <3>1. at[t] = "materialized" /\ UNCHANGED overlay /\ (TurnAt(t, "running") \/ TurnAt(t, "closed"))
      BY <2>7 DEF CheckOut
    <3> QED
      BY <3>1, <2>m
  <2>8. CASE Leave(t) \/ CloseTools(t)
    <3>1. UNCHANGED overlay
          /\ (TurnAt(t, "released") \/ TurnAt(t, "closing") \/ TurnAt(t, "closed"))
      BY <2>8 DEF Leave, CloseTools
    <3> QED
      BY <3>1, <2>m
  <2>9. CASE AwaitTools(t) \/ CleanUp(t)
    <3>1. CASE TurnAt(t, "closed") /\ UNCHANGED overlay
      BY <3>1, <2>m
    <3>2. CASE (Emptied(t) \/ LeftOver(t)) /\ TurnAt(t, "over")
      BY <3>2, <1>t, FitsRemoved
    <3> QED
      BY <2>9, <3>1, <3>2 DEF AwaitTools, CleanUp, Removal
  <2>10. CASE CloseElsewhere(t) \/ ToolsExit(t)
    BY <2>10, <1>u DEF CloseElsewhere, ToolsExit
  <2> QED
    BY <1>3, <2>1, <2>2, <2>3, <2>4, <2>5, <2>6, <2>7, <2>8, <2>9, <2>10 DEF Turn
<1>4. CASE (\E b \in Ids : Remount(b)) \/ Crash
  BY <1>4, <1>u DEF Remount, Crash, turnVars
<1>5. CASE Start
  BY <1>5, FitsOn DEF Start
<1> QED
  BY <1>1, <1>2, <1>3, <1>4, <1>5 DEF Next

(* What a turn runs on is whole and within every limit: a manifest that was*)
(* loaded, and a snapshot of every entry of its skill whose files,         *)
(* directories, depth and bytes, counted as they were read, are those that *)
(* the limits allow, also when files grew meanwhile (resolve,              *)
(* materialize_with_provenance, _snapshot_directory, _snapshot_file).      *)
THEOREM RunsOnWholeBundles == Spec => []RunsWholeBundles
<1>1. Init => BundlesInv /\ SnapshotsFit
  BY BundlesInit DEF Init, SnapshotsFit
<1>2. BundlesInv /\ SnapshotsFit /\ [Next]_vars => (BundlesInv /\ SnapshotsFit)'
  BY BundlesNext, FitsStep
<1>3. BundlesInv /\ SnapshotsFit => RunsWholeBundles
  <2> SUFFICES ASSUME BundlesInv, SnapshotsFit, NEW t \in Turns, at[t] \in {"materialized", "running"}
               PROVE  Complete(t) /\ WithinLimits(overlay[t].copied)
    BY DEF RunsWholeBundles
  <2>1. Complete(t)
    BY DEF BundlesInv, Complete, BundleKnown, OverlayInPlace, SnapshotsWhole
  <2>2. WithinLimits(overlay[t].copied)
    BY DEF SnapshotsFit
  <2> QED
    BY <2>1, <2>2
<1> QED
  BY <1>1, <1>2, <1>3, PTL DEF Spec

=============================================================================
