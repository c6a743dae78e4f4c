------------------------------ MODULE Bundles ------------------------------
(***************************************************************************)
(* The bundles of codex_broker/bundles.py: ids that resolve to a mounted   *)
(* manifest or to an inline one that a caller uploaded, and the overlay    *)
(* directory a worker materializes for the time of one turn.               *)
(*                                                                         *)
(* An upload checks the record of the id, then the file, then writes both, *)
(* with no lock around it. A turn resolves its bundle twice: when it is    *)
(* submitted, and again when a worker takes it. The overlay is filled      *)
(* entry by entry from a directory the host mounts, under limits, and is   *)
(* removed by the worker, unless the removal fails or the close before it  *)
(* raises, or by the next start of the broker. The Codex child of a bundle *)
(* with hosted tools is closed by the worker, or by another thread before. *)
(***************************************************************************)
EXTENDS Naturals, Sequences, FiniteSets

CONSTANTS
  Ids,         \* bundle ids
  Contents,    \* manifests, each with its digest
  IdOf,        \* [Contents -> Ids], the id a manifest names itself
  Hosted,      \* the manifests that declare hosted tools
  Uploaders,   \* HTTP threads with an inline bundle
  Turns,
  Walks,       \* the skill directories a snapshot may meet, in the order of
               \* its traversal: sequences of entries
  MaxFiles, MaxDirectories, MaxDepth, MaxFileBytes, MaxTotalBytes,
  MaxRemounts, \* bound: how often the host changes its mounts
  Nothing

(* An entry of a skill directory, and a snapshot under way.                *)
Entries == [kind : {"file", "directory", "link"}, depth : Nat, size : Nat, skillFile : BOOLEAN]
Overlays == [walk : Walks, copied : Seq(Entries), whole : BOOLEAN]

ASSUME BundlesAssumption ==
  /\ Hosted \subseteq Contents
  /\ IdOf \in [Contents -> Ids]
  /\ Nothing \notin Contents \union Ids \union Overlays
  /\ Walks \subseteq Seq(Entries)
  /\ {MaxFiles, MaxDirectories, MaxDepth, MaxFileBytes, MaxTotalBytes} \subseteq Nat \ {0}
  /\ MaxRemounts \in Nat

VARIABLES
  up,          \* the broker runs
  crashed,     \* bound: one crash
  remounts,
  mounted,     \* [Ids -> Contents or Nothing], what the host mounts
  record,      \* table bundles: [Ids -> source and digest, or Nothing]
  file,        \* inline_root/<digest>/bundle.json: absent, torn, whole
  upload,      \* [Uploaders -> where the call is, and its manifest]
  at,          \* [Turns -> where the turn is]
  of,          \* [Turns -> its id, the source found, the manifest loaded]
  overlay,     \* overlay_root/<turn>: [Turns -> directory or Nothing]
  left,        \* history: the turns whose overlay was not removed
  tools,       \* the turns whose own Codex child, for hosted tools, runs
  closing      \* those of them that a thread has told to close

uploadVars == <<file, upload>>
toolVars == <<tools, closing>>
turnVars == <<at, of, overlay, left, toolVars>>
hostVars == <<up, crashed, remounts, mounted>>
vars == <<hostVars, record, uploadVars, turnVars>>

Idle == [at |-> "idle", manifest |-> Nothing]
NoBundle == [id |-> Nothing, source |-> Nothing, manifest |-> Nothing]

Init ==
  /\ up = TRUE /\ crashed = FALSE /\ remounts = 0
  /\ mounted \in {m \in [Ids -> Contents \union {Nothing}] :
                   \A b \in Ids : m[b] # Nothing => IdOf[m[b]] = b}
  /\ record = [b \in Ids |-> Nothing]
  /\ file = [d \in Contents |-> "absent"]
  /\ upload = [p \in Uploaders |-> Idle]
  /\ at = [t \in Turns |-> "new"]
  /\ of = [t \in Turns |-> NoBundle]
  /\ overlay = [t \in Turns |-> Nothing]
  /\ left = {} /\ tools = {} /\ closing = {}

-----------------------------------------------------------------------------
(* accept_inline                                                           *)

Inline(d) == [source |-> "inline", digest |-> d]

UploadAt(p, where) == upload' = [upload EXCEPT ![p].at = where]

(* A mounted id cannot be taken, nor one with another source or digest.    *)
Available(d) ==
  mounted[IdOf[d]] = Nothing /\ record[IdOf[d]] \in {Nothing, Inline(d)}

BeginUpload(p, d) ==
  /\ upload[p] = Idle
  /\ Available(d)
  /\ upload' = [upload EXCEPT ![p] = [at |-> "checked", manifest |-> d]]
  /\ UNCHANGED <<hostVars, record, file, turnVars>>

LookForFile(p) ==
  /\ upload[p].at = "checked"
  /\ UploadAt(p, IF file[upload[p].manifest] = "absent" THEN "opening" ELSE "recording")
  /\ UNCHANGED <<hostVars, record, file, turnVars>>

(* write_text truncates the file, also one written since.                  *)
OpenFile(p) ==
  /\ upload[p].at = "opening"
  /\ file' = [file EXCEPT ![upload[p].manifest] = "torn"]
  /\ UploadAt(p, "writing")
  /\ UNCHANGED <<hostVars, record, turnVars>>

WriteFile(p) ==
  /\ upload[p].at = "writing"
  /\ \/ /\ file' = [file EXCEPT ![upload[p].manifest] = "whole"]
        /\ UploadAt(p, "recording")
     \/ /\ upload' = [upload EXCEPT ![p] = Idle]   \* the volume is full
        /\ UNCHANGED file
  /\ UNCHANGED <<hostVars, record, turnVars>>

RecordUpload(p) ==
  /\ upload[p].at = "recording"
  /\ record' = [record EXCEPT ![IdOf[upload[p].manifest]] = Inline(upload[p].manifest)]
  /\ upload' = [upload EXCEPT ![p] = Idle]
  /\ UNCHANGED <<hostVars, file, turnVars>>

-----------------------------------------------------------------------------
(* resolve, from _start_turn and from _run_turn                            *)

TurnAt(t, where) == at' = [at EXCEPT ![t] = where]

(* A refused submission leaves nothing; a refused run fails its turn.      *)
Refuse(t) == TurnAt(t, "over") /\ UNCHANGED <<of, record>>

Found(b) ==
  IF mounted[b] # Nothing THEN "mount"
  ELSE IF record[b] # Nothing /\ record[b].source = "inline" /\ file[record[b].digest] # "absent"
  THEN "inline" ELSE Nothing

Find(t, b, loading) ==
  /\ \/ Found(b) = Nothing /\ Refuse(t)
     \/ /\ Found(b) # Nothing
        /\ of' = [of EXCEPT ![t] =
             [id |-> b, source |-> Found(b),
              manifest |-> IF Found(b) = "inline" THEN record[b].digest ELSE Nothing]]
        /\ TurnAt(t, loading)
        /\ UNCHANGED record
  /\ UNCHANGED <<hostVars, uploadVars, overlay, left, toolVars>>

Submit(t, b) == at[t] = "new" /\ Find(t, b, "submitting")
Run(t) == at[t] = "queued" /\ Find(t, of[t].id, "resolving")

(* The file is read after it was found: it may have been replaced, removed *)
(* or not be complete. What was loaded is recorded under the id.           *)
Loaded(t) ==
  IF of[t].source = "mount" THEN mounted[of[t].id]
  ELSE IF file[of[t].manifest] = "whole" THEN of[t].manifest ELSE Nothing

Load(t) ==
  /\ at[t] \in {"submitting", "resolving"}
  /\ \/ Loaded(t) = Nothing /\ Refuse(t)
     \/ /\ Loaded(t) # Nothing
        /\ of' = [of EXCEPT ![t].manifest = Loaded(t)]
        /\ TurnAt(t, IF at[t] = "submitting" THEN "accepting" ELSE "resolved")
        /\ UNCHANGED record
  /\ UNCHANGED <<hostVars, uploadVars, overlay, left, toolVars>>

RecordResolved(t) ==
  /\ at[t] \in {"accepting", "resolved"}
  /\ record' = [record EXCEPT ![of[t].id] = [source |-> of[t].source, digest |-> of[t].manifest]]
  /\ TurnAt(t, IF at[t] = "accepting" THEN "queued" ELSE "recorded")
  /\ UNCHANGED <<hostVars, uploadVars, of, overlay, left, toolVars>>

-----------------------------------------------------------------------------
(* materialize_with_provenance and snapshot_skill_directory                *)

(* The entries of a kind, and the bytes of the files: the place in the file *)
(* of each. Of what has been copied, file_count, directory_count and       *)
(* total_bytes are the numbers of these.                                   *)
Of(c, kind) == {i \in DOMAIN c : c[i].kind = kind}
BytesOf(c) == UNION {{i} \X (1 .. c[i].size) : i \in Of(c, "file")}

Count(c, kind) == Cardinality(Of(c, kind))
Bytes(c) == Cardinality(BytesOf(c))

(* Mutant of Allowed: only the size reported by the open file is judged.   *)
AllowedByStat(copied, entry, read) ==
  /\ entry.depth <= MaxDepth
  /\ entry.kind # "link"
  /\ entry.kind = "directory" => Count(copied, "directory") + 2 <= MaxDirectories
  /\ entry.kind = "file" =>
       /\ Count(copied, "file") + 1 <= MaxFiles
       /\ entry.size <= MaxFileBytes

(* An entry may be copied after what has been copied: the counts include   *)
(* the entry and the directory itself, a file is judged by the size it has *)
(* when it is opened and again by the bytes that were read.                *)
Allowed(copied, entry, read) ==
  /\ entry.depth <= MaxDepth
  /\ entry.kind # "link"
  /\ entry.kind = "directory" => Count(copied, "directory") + 2 <= MaxDirectories
  /\ entry.kind = "file" =>
       /\ Count(copied, "file") + 1 <= MaxFiles
       /\ entry.size <= MaxFileBytes
       /\ read <= MaxFileBytes
       /\ Bytes(copied) + read <= MaxTotalBytes

(* Mutant of Emptied: the files are removed, the directory is not.         *)
EmptiedOnly(t) ==
  /\ overlay' = [overlay EXCEPT ![t] = [walk |-> Nothing, copied |-> <<>>, whole |-> FALSE]]
  /\ UNCHANGED left

Emptied(t) == overlay' = [overlay EXCEPT ![t] = Nothing] /\ UNCHANGED left

(* rmtree raises, or is not reached: what is left of the directory stays.  *)
LeftOver(t) ==
  /\ overlay' = [overlay EXCEPT ![t].whole = FALSE]
  /\ left' = left \union {t}

(* cleanup_overlay, and with it the worker's part in this turn.            *)
Removal(t) == (Emptied(t) \/ LeftOver(t)) /\ TurnAt(t, "over")

(* The directory is made before the try: a full volume leaves none.        *)
BeginOverlay(t) ==
  /\ at[t] = "recorded"
  /\ \/ /\ \E w \in Walks :
            overlay' = [overlay EXCEPT ![t] = [walk |-> w, copied |-> <<>>, whole |-> FALSE]]
        /\ TurnAt(t, "copying")
     \/ TurnAt(t, "over") /\ UNCHANGED overlay
  /\ UNCHANGED <<hostVars, record, uploadVars, of, left, toolVars>>

(* A file may have grown by one since its size was read.                   *)
CopyEntry(t) ==
  /\ at[t] = "copying"
  /\ LET o == overlay[t] IN
       /\ Len(o.copied) < Len(o.walk)
       /\ LET entry == o.walk[Len(o.copied) + 1] IN
            \E read \in {entry.size} \union (IF entry.kind = "file" THEN {entry.size + 1} ELSE {}) :
              IF Allowed(o.copied, entry, read)
              THEN /\ overlay' = [overlay EXCEPT ![t].copied = Append(@, [entry EXCEPT !.size = read])]
                   /\ UNCHANGED <<at, left>>
              ELSE Removal(t)   \* except Exception
  /\ UNCHANGED <<hostVars, record, uploadVars, of, toolVars>>

HasSkillFile(copied) == \E i \in DOMAIN copied : copied[i].skillFile /\ copied[i].kind = "file"

(* The snapshot is accepted: every entry was met, a SKILL.md among them.   *)
SnapshotEnds(o) == Len(o.copied) = Len(o.walk) /\ HasSkillFile(o.copied)

(* Prompts, instructions, tool declarations and the MCP configuration end  *)
(* the overlay; a full volume can end it before.                           *)
EndOverlay(t) ==
  /\ at[t] = "copying"
  /\ \/ /\ SnapshotEnds(overlay[t])
        /\ overlay' = [overlay EXCEPT ![t].whole = TRUE]
        /\ TurnAt(t, "materialized")
        /\ UNCHANGED left
     \/ Removal(t)
  /\ UNCHANGED <<hostVars, record, uploadVars, of, toolVars>>

-----------------------------------------------------------------------------
(* the rest of _run_turn                                                   *)

(* mcp_servers_for_bundle: a manifest with hosted tools adds a server whose *)
(* command line names the overlay, so that the child is this turn's own.   *)
HostsTools(t) == of[t].manifest \in Hosted

(* Binding, cwd or checkout can fail.                                      *)
CheckOut(t) ==
  /\ at[t] = "materialized"
  /\ \/ /\ tools' = IF HostsTools(t) THEN tools \union {t} ELSE tools
        /\ TurnAt(t, "running")
     \/ TurnAt(t, "closed") /\ UNCHANGED tools
  /\ UNCHANGED <<hostVars, record, uploadVars, of, overlay, left, closing>>

(* completed, failed, interrupted or timed out: the worker leaves          *)
Leave(t) ==
  /\ at[t] = "running"
  /\ TurnAt(t, "released")
  /\ UNCHANGED <<hostVars, record, uploadVars, of, overlay, left, toolVars>>

(* Mutant of CloseTools: the child goes back to the pool like any other.   *)
ToolsReturned(t) ==
  /\ at[t] = "released"
  /\ TurnAt(t, "closed")
  /\ UNCHANGED <<hostVars, record, uploadVars, of, overlay, left, toolVars>>

(* close_client. A close that another thread has begun returns at once,    *)
(* though the child may still run for seconds.                             *)
CloseTools(t) ==
  /\ at[t] = "released"
  /\ \/ /\ t \in tools \ closing
        /\ closing' = closing \union {t}
        /\ TurnAt(t, "closing")
     \/ /\ t \notin tools \ closing
        /\ TurnAt(t, "closed")
        /\ UNCHANGED closing
  /\ UNCHANGED <<hostVars, record, uploadVars, of, overlay, left, tools>>

(* The worker that closes waits for the child, terminates it, kills it; the *)
(* wait after that can raise, and then nothing is cleaned up.              *)
AwaitTools(t) ==
  /\ at[t] = "closing"
  /\ \/ t \notin tools /\ TurnAt(t, "closed") /\ UNCHANGED <<overlay, left>>
     \/ t \in tools /\ TurnAt(t, "over") /\ LeftOver(t)
  /\ UNCHANGED <<hostVars, record, uploadVars, of, toolVars>>

CleanUp(t) ==
  /\ at[t] = "closed"
  /\ Removal(t)
  /\ UNCHANGED <<hostVars, record, uploadVars, of, toolVars>>

-----------------------------------------------------------------------------
(* Other threads, the environment and a restart.                           *)

(* A logout, a deletion, the pool's sweep or its closing closes the child. *)
CloseElsewhere(t) ==
  /\ t \in tools
  /\ closing' = closing \union {t}
  /\ UNCHANGED <<hostVars, record, uploadVars, at, of, overlay, left, tools>>

(* The child ends, told to or on its own.                                  *)
ToolsExit(t) ==
  /\ t \in tools
  /\ tools' = tools \ {t}
  /\ closing' = closing \ {t}
  /\ UNCHANGED <<hostVars, record, uploadVars, at, of, overlay, left>>

Remount(b) ==
  /\ remounts < MaxRemounts
  /\ remounts' = remounts + 1
  /\ \E d \in {c \in Contents : IdOf[c] = b} \union {Nothing} :
       mounted' = [mounted EXCEPT ![b] = d]
  /\ UNCHANGED <<up, crashed, record, uploadVars, turnVars>>

(* The children end with the broker; its files stay.                       *)
Crash ==
  /\ ~crashed
  /\ crashed' = TRUE /\ up' = FALSE
  /\ tools' = {} /\ closing' = {}
  /\ upload' = [p \in Uploaders |-> Idle]
  /\ UNCHANGED <<remounts, mounted, record, file, at, of, overlay, left>>

(* services.build: the turns are recovered as interrupted, and overlay_root *)
(* is emptied before the broker serves; where that fails, it does not serve. *)
SweptNothing == overlay

Swept == [t \in Turns |-> Nothing]

Start ==
  /\ ~up
  /\ up' = TRUE
  /\ at' = [t \in Turns |-> IF at[t] = "new" THEN "new" ELSE "over"]
  /\ overlay' = Swept
  /\ left' = {}
  /\ UNCHANGED <<crashed, remounts, mounted, record, uploadVars, of, toolVars>>

Upload(p) ==
  \/ \E d \in Contents : BeginUpload(p, d)
  \/ LookForFile(p) \/ OpenFile(p) \/ WriteFile(p) \/ RecordUpload(p)

Turn(t) ==
  \/ \E b \in Ids : Submit(t, b)
  \/ Run(t) \/ Load(t) \/ RecordResolved(t)
  \/ BeginOverlay(t) \/ CopyEntry(t) \/ EndOverlay(t)
  \/ CheckOut(t) \/ Leave(t) \/ CloseTools(t) \/ AwaitTools(t) \/ CleanUp(t)

Next ==
  \/ /\ up
     /\ \/ \E p \in Uploaders : Upload(p)
        \/ \E t \in Turns : Turn(t) \/ CloseElsewhere(t) \/ ToolsExit(t)
        \/ Crash
  \/ \E b \in Ids : Remount(b)
  \/ Start

Spec == Init /\ [][Next]_vars

-----------------------------------------------------------------------------
(* Properties                                                              *)

InOverlay == {"copying", "materialized", "running", "released", "closing", "closed"}

(* Mounts, records, files, uploads, turns and overlays keep their types,   *)
(* and no snapshot has more entries than the directory it was taken of.    *)
TypeOK ==
  /\ up \in BOOLEAN /\ crashed \in BOOLEAN /\ remounts \in 0..MaxRemounts
  /\ mounted \in [Ids -> Contents \union {Nothing}]
  /\ record \in [Ids -> {Nothing} \union [source : {"mount", "inline"}, digest : Contents]]
  /\ file \in [Contents -> {"absent", "torn", "whole"}]
  /\ upload \in [Uploaders ->
       [at : {"idle", "checked", "opening", "writing", "recording"},
        manifest : Contents \union {Nothing}]]
  /\ at \in [Turns -> {"new", "submitting", "accepting", "queued", "resolving",
                       "resolved", "recorded", "over"} \union InOverlay]
  /\ of \in [Turns -> [id : Ids \union {Nothing}, source : {"mount", "inline", Nothing},
                       manifest : Contents \union {Nothing}]]
  /\ overlay \in [Turns -> Overlays \union {Nothing}]
  /\ \A t \in Turns : overlay[t] # Nothing => Len(overlay[t].copied) <= Len(overlay[t].walk)
  /\ left \subseteq Turns /\ tools \subseteq Turns /\ closing \subseteq tools

(* README, "The overlay contains only disposable bundle material and is    *)
(* removed when the turn ends": while the broker serves, an overlay exists *)
(* only for a turn whose worker is between its materialization and its     *)
(* clean-up, or for one whose removal failed or was not reached. No failed *)
(* copy, failed checkout or crash leaves another, and a start leaves none. *)
OverlaysBelongToTurns ==
  up => \A t \in Turns : overlay[t] # Nothing <=> at[t] \in InOverlay \/ t \in left

(* The Codex child of a turn with hosted tools is that turn's own: its     *)
(* command line names files of the overlay. It is started only for a       *)
(* manifest that declares tools, and one that nobody has told to close has *)
(* the whole overlay: the worker never removes it under a child that still *)
(* serves, whoever closes the child. One that is closing may outlive it.   *)
ToolsHaveTheirOverlay ==
  \A t \in tools :
    /\ of[t].manifest \in Hosted
    /\ t \notin closing => overlay[t] # Nothing /\ overlay[t].whole

(* What a turn runs on is complete: a snapshot of every entry of the skill,*)
(* without links and within every limit also when files grew meanwhile,    *)
(* and a manifest that was loaded, never the torn file of a failed upload. *)
WithinLimits(c) ==
  /\ Count(c, "file") <= MaxFiles
  /\ Count(c, "directory") + 1 <= MaxDirectories
  /\ Count(c, "link") = 0
  /\ Bytes(c) <= MaxTotalBytes
  /\ \A i \in DOMAIN c : c[i].depth <= MaxDepth
  /\ \A i \in Of(c, "file") : c[i].size <= MaxFileBytes

Complete(t) ==
  /\ of[t].manifest \in Contents
  /\ overlay[t] # Nothing /\ overlay[t].whole
  /\ SnapshotEnds(overlay[t])

RunsWholeBundles ==
  \A t \in Turns :
    at[t] \in {"materialized", "running"} => Complete(t) /\ WithinLimits(overlay[t].copied)

=============================================================================
