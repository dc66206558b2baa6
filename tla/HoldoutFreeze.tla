----------------------------- MODULE HoldoutFreeze -----------------------------
(***************************************************************************)
(* The freeze of the holdout: src/eval/holdout.js and scripts/                *)
(* holdout-manifest.js.  People edit the datasets, the oracle controls and the   *)
(* manifest; `npm run holdout-manifest` compares them, and with --write records   *)
(* the holdout of now under a note.                                          *)
(*                                                                         *)
(* A hash of a value is the value.  A text is [words, outside, quoted]: what it   *)
(* says, and its white space outside and inside quotes.  The fields of a case     *)
(* that no two fingerprints treat differently are one field each.               *)
(***************************************************************************)
EXTENDS Naturals, Sequences, SequencesExt, FiniteSets, FiniteSetsExt, Functions

CONSTANTS
    DatasetNames,   \* a sequence: the order in which the datasets are read
    CaseIds,        \* of cases: numbers, in the order of the controls index
    Values,         \* what a field of a case may hold
    FirstDatasets,  \* FirstDatasets[d][id]: its cases
    FirstControls,  \* FirstControls[id]: controls written for a case
    CaseEdits,      \* pairs of a field and a value an author gives it
    ControlEdits,   \* pairs of a case and its new controls, or NoControls
    NoControls,
    MaxEdits        \* edits of datasets, controls and manifest together

Texts == [words : Values, outside : Values, quoted : Values]
CaseRecords ==
    [split : Values, question : Texts, gold : Texts, labels : Values, pins : Values, intent : Values, notes : Values]
ControlEntries == [for : Values, intent : Values, sql : Texts, note : Values]
IsFile(file, entries) == DOMAIN file \subseteq CaseIds /\ file \in [DOMAIN file -> entries]
AreDatasets(files) ==
    /\ files \in [Range(DatasetNames) -> Range(files)]
    /\ \A d \in Range(DatasetNames) : IsFile(files[d], CaseRecords)

ASSUME FreezeAssumption ==
    /\ CaseIds \subseteq Nat /\ DatasetNames \in Seq(Range(DatasetNames)) /\ MaxEdits \in Nat
    /\ AreDatasets(FirstDatasets) /\ IsFile(FirstControls, ControlEntries)
    /\ CaseEdits \subseteq
           ({"split", "labels", "pins", "intent", "notes"} \X Values) \cup ({"question", "gold"} \X Texts)
    /\ ControlEdits \subseteq CaseIds \X (ControlEntries \cup {NoControls}) /\ NoControls \notin ControlEntries

VARIABLES
    caseFiles,   \* the datasets
    controlFile, \* the oracle controls
    manifest,    \* [version, entries, fingerprint, history], or NoManifest
    checkSaid,   \* what the last command said: "ok", "problems", or "" if something was edited since
    handEdits,   \* of the manifest, since a write put it right
    edits

freezeVars == <<caseFiles, controlFile, manifest, checkSaid, handEdits, edits>>

NoManifest == [version |-> 0, entries |-> <<>>, fingerprint |-> <<>>, history |-> <<>>]

-----------------------------------------------------------------------------
(* Fingerprints.  A case is [split, question, gold, labels, pins, intent,       *)
(* notes]; controls are [for, intent, sql, note], for the gold they were          *)
(* written for.                                                              *)

NormalizeSqlText(text) == text.words
FreezeSqlText(text) == <<text.words, text.quoted>>

\* The suite's notion of one definition.
CaseDefinition(c) ==
    <<NormalizeSqlText(c.question), NormalizeSqlText(c.gold), c.split, c.labels, c.pins, c.intent>>

\* Its own, or those of a case of the same intent and gold: [by, stale, sql].
ResolveCaseControls(id, c, cs) ==
    LET gold == NormalizeSqlText(c.gold)
        kin == {k \in DOMAIN cs : cs[k].intent = c.intent /\ cs[k].for = gold}
    IN  IF id \in DOMAIN cs
        THEN [by |-> "id", stale |-> cs[id].for # gold, sql |-> IF cs[id].for = gold THEN {cs[id].sql} ELSE {}]
        ELSE IF kin # {} THEN [by |-> "intent", stale |-> FALSE, sql |-> {cs[Min(kin)].sql}]
        ELSE [by |-> "none", stale |-> FALSE, sql |-> {}]

ControlsFingerprint(id, c, cs) ==
    LET found == ResolveCaseControls(id, c, cs) IN
    IF found.by = "none" THEN <<>> ELSE <<found.by, found.stale, {FreezeSqlText(s) : s \in found.sql}>>

MeasurementFingerprint(c) == <<c.split, c.labels>>
DefinitionFingerprint(c) == <<CaseDefinition(c), FreezeSqlText(c.gold)>>

HoldoutManifestEntry(id, c, in, cs) ==
    [datasets |-> in,
     intentId |-> c.intent,
     question |-> NormalizeSqlText(c.question),
     scoring |-> NormalizeSqlText(c.gold),
     measurement |-> MeasurementFingerprint(c),
     definition |-> DefinitionFingerprint(c),
     controls |-> ControlsFingerprint(id, c, cs)]

\* The places of the datasets that hold id as a holdout case.
Holding(files, id) ==
    {n \in DOMAIN DatasetNames :
        LET cases == files[DatasetNames[n]] IN id \in DOMAIN cases /\ cases[id].split = "holdout"}
HoldoutIds(files) == {id \in CaseIds : Holding(files, id) # {}}
DatasetsOf(files, id) == {DatasetNames[n] : n \in Holding(files, id)}
FirstOf(files, id) == files[DatasetNames[Min(Holding(files, id))]][id]
LastOf(files, id) == files[DatasetNames[Max(Holding(files, id))]][id]

\* One entry for an id, with the definition of the last dataset that holds it.
ComputeHoldoutEntries(files, cs) ==
    [id \in HoldoutIds(files) |-> HoldoutManifestEntry(id, LastOf(files, id), DatasetsOf(files, id), cs)]

ComparedFields == {"datasets", "intentId", "question", "scoring", "measurement", "definition", "controls"}

Fingerprinted(entries, fields) == [id \in DOMAIN entries |-> Restrict(entries[id], fields)]

FingerprintWithoutDatasets(entries) == Fingerprinted(entries, ComparedFields \ {"datasets"})   \* Faulty.

HoldoutEntriesFingerprint(entries) == Fingerprinted(entries, ComparedFields)

-----------------------------------------------------------------------------
(* The command.                                                             *)

IsNoted(m) == m.history # <<>> /\ Last(m.history).fingerprint = m.fingerprint /\ Last(m.history).note # ""

CompareHoldoutManifest(m, entries) ==
    /\ m # NoManifest /\ m.version = 2
    /\ m.fingerprint = HoldoutEntriesFingerprint(m.entries) /\ IsNoted(m)
    /\ DOMAIN m.entries = DOMAIN entries
    /\ \A id \in DOMAIN entries, f \in ComparedFields : m.entries[id][f] = entries[id][f]

Unchanged(previous, entries) ==
    previous.history # <<>> /\ Last(previous.history).fingerprint = HoldoutEntriesFingerprint(entries)

\* Refused when a change has no note, or a note no change.
MayBuild(previous, entries, note) == Unchanged(previous, entries) <=> note = ""

\* `of` is no field of the file: it is what an evaluation read when the note was written.
BuildHoldoutManifest(previous, entries, note, of) ==
    LET new == [fingerprint |-> HoldoutEntriesFingerprint(entries), note |-> note, of |-> of] IN
    [version |-> 2, entries |-> entries, fingerprint |-> new.fingerprint,
     history |-> IF Unchanged(previous, entries) THEN previous.history ELSE Append(previous.history, new)]

-----------------------------------------------------------------------------
(* What an evaluation and verify-dataset make of the holdout, if the suite      *)
(* takes the datasets: the cases with the words of their questions, the golds      *)
(* up to the white space that the server skips, and the controls that apply.      *)

DefinitionsOf(files, id) == {files[d][id] : d \in {e \in DOMAIN files : id \in DOMAIN files[e]}}
Agree(files, id) ==
    \A c, e \in DefinitionsOf(files, id) : CaseDefinition(c) = CaseDefinition(e) /\ c.gold.quoted = e.gold.quoted

Meant(text) == [text EXCEPT !.outside = "one"]
MeasuredCase(c) == [c EXCEPT !.question = @.words, !.gold = Meant(@), !.notes = ""]
MeasuredControls(found) == [found EXCEPT !.sql = {Meant(s) : s \in found.sql}]
Measured(files, cs) ==
    [agreed |-> \A id \in HoldoutIds(files) : Agree(files, id),
     holdout |->
        [id \in HoldoutIds(files) |->
            [in |-> DatasetsOf(files, id),
             case |-> MeasuredCase(FirstOf(files, id)),
             controls |-> MeasuredControls(ResolveCaseControls(id, FirstOf(files, id), cs))]]]

\* What they are at present.
Entries == ComputeHoldoutEntries(caseFiles, controlFile)
MeasuredNow == Measured(caseFiles, controlFile)

-----------------------------------------------------------------------------
FreezeInit ==
    /\ caseFiles = FirstDatasets /\ controlFile = FirstControls /\ manifest = NoManifest
    /\ checkSaid = "" /\ handEdits = {} /\ edits = 0

Put(file, id, entry) == [k \in DOMAIN file \cup {id} |-> IF k = id THEN entry ELSE file[k]]

Edited == edits < MaxEdits /\ edits' = edits + 1 /\ checkSaid' = ""

\* An author changes a field of a case, in one dataset or wherever it is.
EditCase(id, edit, where) ==
    /\ Edited
    /\ \A d \in where : id \in DOMAIN caseFiles[d]
    /\ caseFiles' = [d \in DOMAIN caseFiles |-> IF d \in where THEN [caseFiles[d] EXCEPT ![id][edit[1]] = edit[2]] ELSE caseFiles[d]]
    /\ caseFiles' # caseFiles
    /\ UNCHANGED <<controlFile, manifest, handEdits>>

RemoveCase(id, d) ==
    /\ Edited /\ id \in DOMAIN caseFiles[d]
    /\ caseFiles' = [caseFiles EXCEPT ![d] = Restrict(@, DOMAIN caseFiles[d] \ {id})]
    /\ UNCHANGED <<controlFile, manifest, handEdits>>

CopyCase(id, from, to) ==
    /\ Edited /\ id \in DOMAIN caseFiles[from] \ DOMAIN caseFiles[to]
    /\ caseFiles' = [caseFiles EXCEPT ![to] = Put(@, id, caseFiles[from][id])]
    /\ UNCHANGED <<controlFile, manifest, handEdits>>

EditControls(edit) ==
    /\ Edited
    /\ controlFile' = IF edit[2] = NoControls THEN Restrict(controlFile, DOMAIN controlFile \ {edit[1]})
                      ELSE Put(controlFile, edit[1], edit[2])
    /\ controlFile' # controlFile
    /\ UNCHANGED <<caseFiles, manifest, handEdits>>

\* The manifest is made to look right: its entries, its fingerprint, its version, or its last note.
EditManifest(what) ==
    /\ Edited /\ manifest # NoManifest
    /\ manifest' = CASE what = "entries" -> [manifest EXCEPT !.entries = Entries]
                     [] what = "fingerprint" -> [manifest EXCEPT !.fingerprint = HoldoutEntriesFingerprint(Entries)]
                     [] what = "version" -> [manifest EXCEPT !.version = 1]
                     [] what = "drop" -> [manifest EXCEPT !.history = SubSeq(@, 1, Len(@) - 1)]
                     [] what = "blank" -> [manifest EXCEPT !.history = [i \in DOMAIN @ |->
                                              IF i = Len(manifest.history) THEN [manifest.history[i] EXCEPT !.note = ""]
                                              ELSE manifest.history[i]]]
    /\ manifest' # manifest
    /\ handEdits' = handEdits \cup {what}
    /\ UNCHANGED <<caseFiles, controlFile>>

CheckManifest ==
    /\ checkSaid' = IF CompareHoldoutManifest(manifest, Entries) THEN "ok" ELSE "problems"
    /\ UNCHANGED <<caseFiles, controlFile, manifest, handEdits, edits>>

WriteManifest(note) ==
    /\ MayBuild(manifest, Entries, note)
    /\ manifest' = BuildHoldoutManifest(manifest, Entries, note, MeasuredNow)
    /\ handEdits' = IF Last(manifest'.history).note = "" THEN {"blank"} ELSE {}
    /\ checkSaid' = ""
    /\ UNCHANGED <<caseFiles, controlFile, edits>>

FreezeNext ==
    \/ \E id \in UNION {DOMAIN caseFiles[d] : d \in DOMAIN caseFiles}, d, e \in DOMAIN caseFiles :
          \/ \E edit \in CaseEdits : EditCase(id, edit, {d, e})
          \/ RemoveCase(id, d)
          \/ CopyCase(id, d, e)
    \/ \E edit \in ControlEdits : EditControls(edit)
    \/ \E what \in {"entries", "fingerprint", "version", "drop", "blank"} : EditManifest(what)
    \/ CheckManifest
    \/ \E note \in {"", "why"} : WriteManifest(note)
FreezeSpec == FreezeInit /\ [][FreezeNext]_freezeVars

-----------------------------------------------------------------------------
(* The freeze holds: a check passes only for the holdout that the last note was  *)
(* written for, whatever was edited, recorded, taken back or written by hand in     *)
(* between; it complains only of a difference or of a manifest edited by hand; and   *)
(* one of the two forms of --write always puts things right, except that of a       *)
(* note that was blanked by hand nobody can write another.                       *)
FreezeHolds ==
    LET noted == Last(manifest.history).of
        agreed == MeasuredNow.agreed /\ noted.agreed
    IN
    /\ checkSaid = "ok" /\ agreed => MeasuredNow.holdout = noted.holdout
    /\ checkSaid = "problems" /\ manifest # NoManifest /\ handEdits = {} /\ agreed => MeasuredNow.holdout # noted.holdout
    /\ (manifest.history # <<>> /\ Last(manifest.history).note = "")
       \/ \E note \in {"", "why"} :
             /\ MayBuild(manifest, Entries, note)
             /\ CompareHoldoutManifest(BuildHoldoutManifest(manifest, Entries, note, <<>>), Entries)
==============================================================================
