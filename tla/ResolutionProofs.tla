-------------------------- MODULE ResolutionProofs --------------------------
(***************************************************************************)
(* Resolution for every set of definition files, every record, every number *)
(* of epochs and whatever files the consumer holds: a record of the current *)
(* or of the prior epoch never becomes an event under another definition    *)
(* than the one it was written under.  Two facts carry the proof: the hash  *)
(* check cannot be passed by, and the boundary the control block publishes  *)
(* tells the records of its epoch from all earlier ones.                    *)
(***************************************************************************)
EXTENDS Resolution, TLAPS

-----------------------------------------------------------------------------
(* The hash check.                                                          *)

\* FirstOf reports a defect that comes first in a list of three.
LEMMA FirstOfThree ==
    ASSUME NEW a, NEW b, NEW c, FirstOf(<<a, b, c>>) = Ok
    PROVE  a = Ok
<1> DEFINE v == <<a, b, c>>
           bad == {i \in DOMAIN v : v[i] # Ok}
<1> SUFFICES ASSUME a # Ok PROVE FALSE
  OBVIOUS
<1>1. DOMAIN v = 1 .. 3 /\ v[1] = a
  OBVIOUS
<1>2. 1 \in bad /\ \A i \in bad : i >= 1
  BY <1>1
<1>3. Min(bad) \in bad
  BY <1>2 DEF Min
<1>4. FirstOf(v) = v[Min(bad)]
  BY <1>2 DEF FirstOf
<1> QED
  BY <1>3, <1>4

\* A record resolves only under a definition with the hash of its epoch.
LEMMA ResolvedMeansHash ==
    ASSUME NEW rec, NEW abs, NEW snap, NEW definitions,
           resolve_record(rec, abs, snap, definitions).kind = "Resolved"
    PROVE  selected_definition(EpochOf(abs, snap), definitions).version
               = SelectedHash(EpochOf(abs, snap), snap)
<1> DEFINE epoch == EpochOf(abs, snap)
           definition == selected_definition(epoch, definitions)
           expected == SelectedHash(epoch, snap)
           refusal == Refusal(rec, definition, expected)
<1>1. refusal = Ok
  BY DEF resolve_record, placeholder, Ok
<1>2. definition # NoDefinition
  BY <1>1 DEF Refusal, Ok
<1>3. verify_definition_hash(definition, expected) = Ok
  BY <1>1, <1>2, FirstOfThree DEF Refusal
<1> QED
  BY <1>3 DEF verify_definition_hash, compute_content_hash, Ok

\* An event document comes from a resolution that resolved.
LEMMA EventMeansResolved ==
    ASSUME NEW resolution, NEW context,
           document_from_resolution(resolution, context).kind = "Event"
    PROVE  resolution.kind = "Resolved"
BY DEF document_from_resolution, placeholder_document_from_record

-----------------------------------------------------------------------------
(* The inductive invariant.                                                 *)

\* The published hashes are those of the open epoch and of the one before it.
SnapshotNamesEpochs ==
    /\ head_abs \in Nat /\ snapshot.epoch_first_abs \in 0 .. head_abs
    /\ epochs \in Seq({input.first} \cup input.later)
    /\ snapshot.epoch_id = Len(epochs) /\ snapshot.epoch_id >= 1
    /\ snapshot.definition_hash = File(epochs[snapshot.epoch_id]).version
    /\ snapshot.epoch_id > 1 =>
         snapshot.prev_definition_hash = File(epochs[snapshot.epoch_id - 1]).version

\* The boundary of the open epoch tells its records from all earlier ones.
BoundarySplits ==
    written # Unwritten =>
        /\ written.abs \in 0 .. head_abs - 1
        /\ written.epoch_id \in 1 .. snapshot.epoch_id
        /\ written.epoch_id = snapshot.epoch_id <=> written.abs >= snapshot.epoch_first_abs

\* The consumer's copy of the control block is the one the record was found under.
SeenIsPublished == seen # Unseen => seen = snapshot /\ written # Unwritten

\* A document is made of what was seen, and an event only behind the hash check.
EventChecked ==
    document # NoDocument =>
        /\ seen # Unseen
        /\ MadeEvent => File(UsedName).version = SelectedHash(EpochOf(written.abs, seen), seen)

ResolutionInv == SnapshotNamesEpochs /\ BoundarySplits /\ SeenIsPublished /\ EventChecked

-----------------------------------------------------------------------------
(* Every step preserves it.                                                 *)

\* The first snapshot names the first epoch, and nothing is written yet.
LEMMA InitInv == ResolutionInit => ResolutionInv
<1> SUFFICES ASSUME ResolutionInit PROVE ResolutionInv
  OBVIOUS
<1>1. SnapshotNamesEpochs
  BY DEF ResolutionInit, SnapshotNamesEpochs, compute_content_hash
<1>2. BoundarySplits /\ SeenIsPublished /\ EventChecked
  BY DEF ResolutionInit, BoundarySplits, SeenIsPublished, EventChecked
<1> QED
  BY <1>1, <1>2 DEF ResolutionInv

\* The record goes to the open epoch, at or behind its first offset.
LEMMA WritePreserves == ResolutionInv /\ write_record => ResolutionInv'
<1> SUFFICES ASSUME ResolutionInv, write_record PROVE ResolutionInv'
  OBVIOUS
<1> USE DEF ResolutionInv
<1>1. SnapshotNamesEpochs'
  BY DEF SnapshotNamesEpochs, write_record, File
<1>2. BoundarySplits'
  BY DEF SnapshotNamesEpochs, BoundarySplits, write_record
<1>3. SeenIsPublished' /\ seen = Unseen /\ seen' = Unseen
  BY DEF SeenIsPublished, write_record
<1>4. EventChecked'
  BY <1>3 DEF EventChecked, write_record
<1> QED
  BY <1>1, <1>2, <1>3, <1>4

\* A new epoch starts at the head: a record written before lies below its boundary,
\* and the hash of the epoch that was open becomes the prior one (PublishEpoch).
LEMMA OpenPreserves ==
    ASSUME NEW name \in input.later, ResolutionInv, open_epoch(name)
    PROVE  ResolutionInv'
<1> USE DEF ResolutionInv
<1>1. SnapshotNamesEpochs'
  <2>1. /\ epochs' = Append(epochs, name) /\ input' = input
        /\ Len(epochs') = Len(epochs) + 1
        /\ epochs' \in Seq({input'.first} \cup input'.later)
        /\ epochs'[Len(epochs) + 1] = name
        /\ epochs'[Len(epochs)] = epochs[Len(epochs)]
    BY DEF SnapshotNamesEpochs, open_epoch
  <2>2. /\ snapshot'.epoch_id = Len(epochs) + 1
        /\ snapshot'.epoch_first_abs = head_abs /\ head_abs' = head_abs + 1
        /\ snapshot'.definition_hash = File(name).version
        /\ snapshot'.prev_definition_hash = File(epochs[Len(epochs)]).version
    BY DEF SnapshotNamesEpochs, open_epoch, PublishEpoch, compute_content_hash
  <2> QED
    BY <2>1, <2>2 DEF SnapshotNamesEpochs, File
<1>2. BoundarySplits'
  BY DEF SnapshotNamesEpochs, BoundarySplits, open_epoch, PublishEpoch
<1>3. SeenIsPublished' /\ EventChecked'
  BY DEF SeenIsPublished, EventChecked, open_epoch
<1> QED
  BY <1>1, <1>2, <1>3

\* The consumer copies what is published.
LEMMA PollPreserves == ResolutionInv /\ poll_snapshot => ResolutionInv'
<1> SUFFICES ASSUME ResolutionInv, poll_snapshot PROVE ResolutionInv'
  OBVIOUS
<1> USE DEF ResolutionInv
<1>1. SnapshotNamesEpochs' /\ BoundarySplits'
  BY DEF SnapshotNamesEpochs, BoundarySplits, poll_snapshot, File
<1>2. SeenIsPublished' /\ EventChecked'
  BY DEF SeenIsPublished, EventChecked, poll_snapshot
<1> QED
  BY <1>1, <1>2

\* The one step that makes a document: resolve_record, then document_from_resolution.
LEMMA DocumentPreserves ==
    ASSUME NEW names, ResolutionInv, make_document(names)
    PROVE  ResolutionInv'
<1> USE DEF ResolutionInv
<1>1. SnapshotNamesEpochs' /\ BoundarySplits'
  BY DEF SnapshotNamesEpochs, BoundarySplits, make_document, File
<1>2. SeenIsPublished'
  BY DEF SeenIsPublished, make_document
<1>3. EventChecked'
  <2> DEFINE resolution == resolve_record(input.rec, written.abs, seen, DefinitionSet(names))
  <2>1. seen' # Unseen
    BY DEF make_document
  <2>2. ASSUME MadeEvent'
        PROVE  File(UsedName)'.version = SelectedHash(EpochOf(written.abs, seen), seen)'
    <3>1. document_from_resolution(resolution, RecordDocumentContext).kind = "Event"
      BY <2>2 DEF make_document, MadeEvent
    <3>2. resolution.kind = "Resolved"
      BY <3>1, EventMeansResolved
    <3>3. selected_definition(EpochOf(written.abs, seen), DefinitionSet(names)).version
              = SelectedHash(EpochOf(written.abs, seen), seen)
      BY <3>2, ResolvedMeansHash
    <3>4. File(UsedName)' = selected_definition(EpochOf(written.abs, seen), DefinitionSet(names))
      BY DEF make_document, UsedName, selected_definition, DefinitionSet, File, EpochOf
    <3> QED
      BY <3>3, <3>4 DEF make_document
  <2> QED
    BY <2>1, <2>2 DEF EventChecked
<1> QED
  BY <1>1, <1>2, <1>3

\* A record of the current or of the prior epoch never becomes an event under another
\* definition than the one in force when it was written, whatever files exist and
\* whichever of them the consumer holds (resolve_record, epoch.rs snapshots).
THEOREM ResolvedUnderOwn == ResolutionSpec => []NeverUnderAnother
<1>1. ResolutionInit => ResolutionInv
  BY InitInv
<1>2. ResolutionInv /\ [ResolutionNext]_resolutionVars => ResolutionInv'
  <2> SUFFICES ASSUME ResolutionInv, [ResolutionNext]_resolutionVars
               PROVE  ResolutionInv'
    OBVIOUS
  <2>1. CASE write_record
    BY <2>1, WritePreserves
  <2>2. CASE \E name \in input.later : open_epoch(name)
    BY <2>2, OpenPreserves
  <2>3. CASE poll_snapshot
    BY <2>3, PollPreserves
  <2>4. CASE \E names \in input.holdings : make_document(names)
    BY <2>4, DocumentPreserves
  <2>5. CASE Done \/ UNCHANGED resolutionVars
    <3>1. UNCHANGED resolutionVars
      BY <2>5 DEF Done
    <3> QED
      BY <3>1 DEF resolutionVars, ResolutionInv, SnapshotNamesEpochs, BoundarySplits,
                  SeenIsPublished, EventChecked, MadeEvent, UsedName, File
  <2> QED
    BY <2>1, <2>2, <2>3, <2>4, <2>5 DEF ResolutionNext
<1>3. ResolutionInv => NeverUnderAnother
  <2> SUFFICES ASSUME ResolutionInv, Recent, MadeEvent
               PROVE  File(UsedName).version = File(OwnName).version
    BY DEF NeverUnderAnother
  <2>1. document # NoDocument
    BY DEF MadeEvent, NoDocument, None
  <2>2. /\ seen = snapshot /\ written # Unwritten
        /\ File(UsedName).version = SelectedHash(EpochOf(written.abs, snapshot), snapshot)
    BY <2>1 DEF ResolutionInv, EventChecked, SeenIsPublished
  <2>3. written.epoch_id \in {snapshot.epoch_id, snapshot.epoch_id - 1}
    BY <2>2 DEF Recent, ResolutionInv, BoundarySplits, SnapshotNamesEpochs
  <2>4. CASE written.epoch_id = snapshot.epoch_id
    BY <2>2, <2>4 DEF ResolutionInv, BoundarySplits, SnapshotNamesEpochs, OwnName,
                      SelectedHash, EpochOf
  <2>5. CASE written.epoch_id = snapshot.epoch_id - 1
    BY <2>2, <2>5 DEF ResolutionInv, BoundarySplits, SnapshotNamesEpochs, OwnName,
                      SelectedHash, EpochOf
  <2> QED
    BY <2>3, <2>4, <2>5
<1> QED
  BY <1>1, <1>2, <1>3, PTL DEF ResolutionSpec
=============================================================================
