----------------------- MODULE UpdateTransactionProofs -----------------------
(***************************************************************************)
(* Proofs about the transactional install, for every set of images, number *)
(* of components, attempts and generations, and for both kinds of device.  *)
(*                                                                         *)
(* The journal is seen through the register that it implements: MediaCell  *)
(* is the record that open returns now, DiskCell the one it would return   *)
(* after the loss of every unflushed write, and JobCell the one that       *)
(* commit_record is writing.  The first part says what the install needs   *)
(* of the journal (View and JournalEffects) and shows that CallerInv is    *)
(* then inductive; the second part takes what is needed from               *)
(* TransactionJournalProofs.                                               *)
(***************************************************************************)
EXTENDS UpdateTransaction, TLAPS

MediaCell == Journal!Cell(media)
DiskCell == Journal!Cell(disk)
JobCell == Journal!Digest(job.rec)

Cells == Journal!Digests
GenesisCell == [gen |-> 1, val |-> [target |-> 0, meta |-> Provisioned(0, Factory)]]

CellEntry(cell, s) == cell.val.meta.slots[s]

\* The metadata of a record is valid, of the generation of the record, and the
\* target was changed last.
Coherent(cell) ==
    /\ MetadataIsValid(cell.val.meta)
    /\ cell.val.meta.gen = cell.gen
    /\ cell.val.meta.slots[cell.val.target].gen = cell.gen

CoherenceInv ==
    /\ MediaCell # Blank => Coherent(MediaCell)
    /\ DiskCell # Blank => Coherent(DiskCell)
    /\ pc # "idle" => Coherent(JobCell)

\* A record is one legal edge after another.
Follows(next, cell) ==
    \E slot \in Slots, state \in SlotStates, image \in Images, attempts \in {0, Attempts} :
        next.val.meta \in Transitions(cell.val.meta, slot, state, image, attempts)

BeforeSelector == {"record_write", "record_flush", "record_readback", "selector_write"}

HistoryInv ==
    /\ IF DiskCell = Blank THEN MediaCell \in {Blank, GenesisCell}
       ELSE /\ MediaCell # Blank
            /\ MediaCell = DiskCell \/ Follows(MediaCell, DiskCell)
    /\ pc \in BeforeSelector =>
          IF MediaCell = Blank THEN JobCell = GenesisCell ELSE Follows(JobCell, MediaCell)

Vouched == {"VERIFIED", "PENDING", "CONFIRMED"}

\* The component ranges hold every image that the record vouches for.
Matches(cell, content) ==
    \A s \in Slots : CellEntry(cell, s).state \in Vouched
                        => Complete(content[s], CellEntry(cell, s).image)

\* A device that may keep any unflushed write needs the crossed pairs too.
PayloadInv ==
    /\ DiskCell = Blank => Complete(payload[0], Factory) /\ Complete(payloadDisk[0], Factory)
    /\ MediaCell # Blank => Matches(MediaCell, payload)
    /\ DiskCell # Blank => Matches(DiskCell, payloadDisk)
    /\ pc # "idle" => Matches(JobCell, payload)
    /\ CacheModel = "subset" =>
          /\ MediaCell # Blank => Matches(MediaCell, payloadDisk)
          /\ DiskCell # Blank => Matches(DiskCell, payload)
          /\ pc # "idle" => Matches(JobCell, payloadDisk)

\* Where the call in progress is, and what it relies on.
CallInv ==
    /\ call.phase = "commit" <=> pc # "idle"
    /\ CacheModel = "subset" /\ call # NoCall => ~failed
    /\ pc # "idle" /\ CellEntry(JobCell, call.slot).state = "STAGING"
          => CellEntry(JobCell, call.slot).image = call.image
    /\ call.phase \in {"erase", "write", "flush", "readback"} =>
          /\ MediaCell # Blank
          /\ CellEntry(MediaCell, call.slot).state = "STAGING"
          /\ CellEntry(MediaCell, call.slot).image = call.image
    /\ call.phase \in {"erase", "write", "flush"} => call.checked = {}
    /\ call.phase = "readback" =>
          /\ payload = payloadDisk
          /\ \A c \in call.checked : payload[call.slot][c] = call.image

RangeInv ==
    /\ payload \in Payloads
    /\ payloadDisk \in Payloads
    /\ call \in Calls \cup {NoCall}

CallerInv == RangeInv /\ CoherenceInv /\ HistoryInv /\ PayloadInv /\ CallInv

-----------------------------------------------------------------------------
(* What the install needs of the journal.                                  *)

SameCells == MediaCell' = MediaCell /\ DiskCell' = DiskCell

\* Open returns the register value, and nothing is unflushed between two calls
\* on a device that may tear what is.
View ==
    /\ MediaCell # Blank => MediaCell \in Cells
    /\ DiskCell # Blank => DiskCell \in Cells
    /\ pc # "idle" => JobCell \in Cells
    /\ CacheModel = "subset" /\ pc = "idle" /\ ~failed => MediaCell = DiskCell
    /\ Journal!Open(media, acked) = "ok" => MediaCell # Blank
    /\ Journal!Open(media, 0) = "ok" <=> MediaCell # Blank
    /\ Journal!Open(disk, 0) = "ok" <=> DiskCell # Blank
    /\ MediaCell # Blank => /\ Journal!Snapshot(media).gen = MediaCell.gen
                            /\ Journal!Snapshot(media).val = MediaCell.val
    /\ DiskCell # Blank => /\ Journal!Snapshot(disk).gen = DiskCell.gen
                           /\ Journal!Snapshot(disk).val = DiskCell.val

InstallInv == View /\ CallerInv

\* initialize starts on an empty register, and commit_record on its value.
StartEffect ==
    \A val \in Contents : Journal!Initialize(val) \/ Journal!Commit(val) =>
        /\ SameCells
        /\ pc = "idle" /\ pc' = "record_write"
        /\ failed' = failed
        /\ CacheModel = "subset" => ~failed
        /\ Journal!Initialize(val) => MediaCell = Blank /\ JobCell' = [gen |-> 1, val |-> val]
        /\ Journal!Commit(val) => /\ MediaCell # Blank
                                  /\ JobCell' = [gen |-> MediaCell.gen + 1, val |-> val]

\* Only the selector write changes the value, from the durable one to the job's.
WriteEffect ==
    Journal!RecordWrite \/ Journal!RecordReadback \/ Journal!SelectorWrite =>
        /\ DiskCell' = DiskCell /\ JobCell' = JobCell /\ failed' = failed
        /\ pc \in BeforeSelector /\ pc' # "idle"
        /\ MediaCell' = MediaCell \/ (MediaCell' = JobCell /\ MediaCell = DiskCell)
        /\ pc' \in BeforeSelector => MediaCell' = MediaCell

\* A flush makes the visible value durable.
FlushEffect ==
    Journal!RecordFlush \/ Journal!SelectorFlush =>
        /\ DiskCell' = MediaCell /\ MediaCell' = MediaCell
        /\ JobCell' = JobCell /\ failed' = failed
        /\ pc # "idle" /\ pc' # "idle"
        /\ pc' \in BeforeSelector => pc \in BeforeSelector

\* commit_record returns OK with the value it was given.
ReopenEffect ==
    Journal!Reopen =>
        /\ SameCells /\ failed' = failed
        /\ pc # "idle" /\ pc' = "idle"
        /\ MediaCell = JobCell /\ MediaCell # Blank

\* A commit that fails leaves the value as it was, or its own unflushed.
FailEffect ==
    Journal!Fail \/ Journal!ShortWrite =>
        /\ DiskCell' = DiskCell
        /\ pc # "idle" /\ pc' = "idle"
        /\ \/ MediaCell' = MediaCell
           \/ MediaCell' = JobCell /\ MediaCell = DiskCell /\ pc \in BeforeSelector

\* A power cut leaves the visible or the durable value, and the durable one
\* on a device that keeps only what was flushed.
CutEffect ==
    Journal!PowerCut =>
        /\ MediaCell' = DiskCell'
        /\ DiskCell' \in {MediaCell, DiskCell}
        /\ CacheModel = "reference" => DiskCell' = DiskCell
        /\ pc' = "idle"

JournalEffects ==
    StartEffect /\ WriteEffect /\ FlushEffect /\ ReopenEffect /\ FailEffect /\ CutEffect

-----------------------------------------------------------------------------
(* The metadata of the records.                                            *)

\* What ribon_update_slot_metadata_transition returns: one slot is changed,
\* along an allowed edge, to the state and the image that were asked for.
LEMMA TransitionFacts ==
    ASSUME NEW m \in Metadata, NEW slot \in Slots, NEW state \in SlotStates,
           NEW image \in Images, NEW attempts \in {0, Attempts},
           NEW next \in Transitions(m, slot, state, image, attempts)
    PROVE  /\ next \in Metadata /\ MetadataIsValid(next)
           /\ next.slots[slot].gen = next.gen
           /\ next.slots[slot].state = state /\ next.slots[slot].image = image
           /\ \A s \in Slots \ {slot} : next.slots[s] = m.slots[s]
           /\ state \in {"PENDING", "CONFIRMED"} =>
                 m.slots[slot].state \in Vouched /\ m.slots[slot].image = image
<1>1. /\ next = Successor(m, slot, state, image, attempts)
      /\ TransitionIsAllowed(m, slot, state, image, attempts)
      /\ MetadataIsValid(next)
  BY ZenonT(30) DEF Transitions
<1>2. /\ m.gen < MaxGeneration /\ <<m.slots[slot].state, state>> \in AllowedEdges
      /\ state # "STAGING" => image = m.slots[slot].image
  BY <1>1, ZenonT(30) DEF TransitionIsAllowed
<1>3. attempts \in 0 .. MaxAttempts
  BY RequestAssumption, AttemptsAssumption
<1>4. /\ m.gen \in 1 .. MaxGeneration /\ m.active \in Slots
      /\ m.pending \in Slots \cup {NoSlot} /\ m.slots \in [Slots -> Entries]
      /\ m.gen + 1 \in 1 .. MaxGeneration
  BY <1>2, MetadataGenerationAssumption DEF Metadata
<1> DEFINE entry == [state |-> state, gen |-> m.gen + 1, attempts |-> attempts, image |-> image]
<1>5. next.slots = [m.slots EXCEPT ![slot] = entry]
  BY <1>1, <1>2, <1>4, ZenonT(30) DEF Successor
<1>6. entry \in Entries
  BY <1>3, <1>4 DEF Entries
<1>7. next.slots \in [Slots -> Entries] /\ next.slots[slot] = entry
  BY <1>4, <1>5, <1>6, ZenonT(30)
<1>8. next \in Metadata /\ next.gen = m.gen + 1
  <2>1. /\ next.gen = m.gen + 1 /\ next.active \in Slots
        /\ next.pending \in Slots \cup {NoSlot}
    BY <1>1, <1>4, ZenonT(30) DEF Successor
  <2>2. next = [gen |-> next.gen, active |-> next.active, pending |-> next.pending,
                slots |-> next.slots]
    BY <1>1, ZenonT(30) DEF Successor
  <2> QED
    BY <1>4, <1>7, <2>1, <2>2, ZenonT(30) DEF Metadata
<1>9. \A s \in Slots \ {slot} : next.slots[s] = m.slots[s]
  BY <1>4, <1>5, ZenonT(30)
<1>10. state \in {"PENDING", "CONFIRMED"} => m.slots[slot].state \in Vouched
  BY <1>2, ZenonT(30) DEF AllowedEdges, Vouched
<1> QED
  BY <1>1, <1>2, <1>7, <1>8, <1>9, <1>10

\* The record of a provisioned device.
LEMMA GenesisFacts ==
    /\ GenesisCell.val \in Contents
    /\ Coherent(GenesisCell)
    /\ \A s \in Slots : CellEntry(GenesisCell, s).state \in Vouched
                            => s = 0 /\ CellEntry(GenesisCell, s).image = Factory
    /\ \A s \in Slots : CellEntry(GenesisCell, s).state # "STAGING"
<1> DEFINE meta == Provisioned(0, Factory)
<1>1. /\ GenesisCell.val.meta = meta /\ GenesisCell.gen = 1 /\ GenesisCell.val.target = 0
      /\ GenesisCell.val = [target |-> 0, meta |-> meta]
  BY ZenonT(30) DEF GenesisCell
<1>2. /\ meta.gen = 1 /\ meta.active = 0 /\ meta.pending = NoSlot
      /\ meta.slots[0] = [state |-> "CONFIRMED", gen |-> 1, image |-> Factory, attempts |-> 0]
      /\ meta.slots[1] = EmptyEntry
      /\ meta.slots \in [Slots -> {meta.slots[0], meta.slots[1]}]
  BY DEF Provisioned, Slots
<1>3. meta.slots[0] \in Entries /\ meta.slots[1] \in Entries
  BY <1>2, FactoryAssumption, MetadataGenerationAssumption, AttemptsAssumption
     DEF Entries, EmptyEntry, SlotStates
<1>4. meta \in Metadata
  <2>1. meta.slots \in [Slots -> Entries]
    BY <1>2, <1>3, ZenonT(30)
  <2> QED
    BY <1>2, <2>1, MetadataGenerationAssumption DEF Metadata, Provisioned, Slots
<1>5. MetadataIsValid(meta)
  <2>1. {s \in Slots : meta.slots[s].state = "PENDING"} = {}
    BY <1>2 DEF Slots, EmptyEntry
  <2>2. \A s \in Slots : EntryIsValid(meta.slots[s], meta.gen)
    BY <1>2, FactoryAssumption, ImageAssumption DEF Slots, EntryIsValid, EmptyEntry
  <2> QED
    BY <1>2, <2>1, <2>2 DEF MetadataIsValid
<1>6. GenesisCell.val \in Contents
  BY <1>1, <1>4, ZenonT(30) DEF Contents, Slots
<1>7. Coherent(GenesisCell)
  BY <1>1, <1>2, <1>5 DEF Coherent
<1> QED
  BY <1>1, <1>2, <1>6, <1>7 DEF CellEntry, Slots, EmptyEntry, Vouched

-----------------------------------------------------------------------------
(* The calls of the install.                                               *)

\* The metadata of a record that can be read.
LEMMA CurrentFacts ==
    ASSUME InstallInv, MediaCell # Blank
    PROVE  /\ Current = MediaCell.val /\ MediaCell.val.meta \in Metadata
           /\ \A s \in Slots : Entry(s) = CellEntry(MediaCell, s)
           /\ \A s \in Slots : CellEntry(MediaCell, s).state # "EMPTY"
                                  => CellEntry(MediaCell, s).image \in Images
<1>1. Current = MediaCell.val
  BY ZenonT(30) DEF InstallInv, View, Current
<1>2. MediaCell.val.meta \in Metadata
  BY ZenonT(30) DEF InstallInv, View, Cells, Journal!Digests, Contents
<1>3. MetadataIsValid(MediaCell.val.meta)
  BY ZenonT(30) DEF InstallInv, CallerInv, CoherenceInv, Coherent
<1>4. \A s \in Slots : CellEntry(MediaCell, s).state # "EMPTY"
                           => CellEntry(MediaCell, s).image \in Images
  BY <1>2, <1>3, ZenonT(30) DEF MetadataIsValid, EntryIsValid, CellEntry, Metadata, Entries
<1> QED
  BY <1>1, <1>2, <1>4, ZenonT(30) DEF Entry, CellEntry

\* The fields of a call at its start.
LEMMA AtFacts ==
    ASSUME NEW phase \in Phases, NEW slot \in Slots, NEW image \in Images
    PROVE  /\ At(phase, slot, image) \in Calls
           /\ At(phase, slot, image).phase = phase /\ At(phase, slot, image).slot = slot
           /\ At(phase, slot, image).image = image /\ At(phase, slot, image).checked = {}
           /\ At(phase, slot, image) # NoCall /\ NoCall.phase = "none"
  BY ComponentAssumption DEF At, Calls, Components, NoCall, Phases

\* A call commits a transition of the current metadata: a VERIFIED record only
\* of a slot whose components were all read back.
CommitCall(slot, state, image, next) ==
    /\ CommitRecord(slot, next)
    /\ call' \in Calls /\ call'.phase = "commit" /\ call'.slot = slot
    /\ state = "STAGING" => call'.image = image
    /\ state = "VERIFIED" => payload = payloadDisk /\ Complete(payload[slot], image)

CommitCalls ==
    \E slot \in Slots, state \in SlotStates, image \in Images, attempts \in {0, Attempts} :
        \E next \in Transitions(Current.meta, slot, state, image, attempts) :
            CommitCall(slot, state, image, next)

\* install_transactionally on a slot that holds nothing or something old.
LEMMA StartInstallCommits ==
    ASSUME InstallInv, NEW slot \in Slots, NEW image \in Images, StartInstall(slot, image)
    PROVE  CommitCalls
<1>1. PICK next \in Transitions(Current.meta, slot, "STAGING", image, 0) :
          CommitRecord(slot, next)
  BY ZenonT(30) DEF StartInstall
<1>2. call' = At("commit", slot, image)
  BY ZenonT(30) DEF StartInstall
<1>3. call' \in Calls /\ call'.phase = "commit" /\ call'.slot = slot /\ call'.image = image
  BY <1>2, AtFacts DEF Phases
<1> QED
  BY <1>1, <1>3, ZenonT(30) DEF CommitCalls, CommitCall, SlotStates

\* confirm_pending for the exact pending identity.
LEMMA ConfirmPendingCommits ==
    ASSUME InstallInv, NEW slot \in Slots, NEW image \in Images, ConfirmPending(slot, image)
    PROVE  CommitCalls
<1>1. PICK next \in Transitions(Current.meta, slot, "CONFIRMED", image, 0) :
          CommitRecord(slot, next)
  BY ZenonT(30) DEF ConfirmPending
<1>2. call' = At("commit", slot, image)
  BY ZenonT(30) DEF ConfirmPending
<1>3. call' \in Calls /\ call'.phase = "commit" /\ call'.slot = slot
  BY <1>2, AtFacts DEF Phases
<1> QED
  BY <1>1, <1>3, ZenonT(30) DEF CommitCalls, CommitCall, SlotStates

\* What a payload call relies on: the slot it works on is STAGING in the
\* visible record, so there is a durable record, and none vouches for it.
LEMMA PayloadCallFacts ==
    ASSUME InstallInv, call.phase \in {"erase", "write", "flush", "readback"}
    PROVE  /\ call \in Calls /\ call.slot \in Slots /\ call.comp \in Components
           /\ call.image \in Images /\ call # NoCall
           /\ pc = "idle" /\ MediaCell # Blank /\ DiskCell # Blank
           /\ CellEntry(MediaCell, call.slot).state = "STAGING"
           /\ CellEntry(MediaCell, call.slot).image = call.image
           /\ CacheModel = "subset" => ~failed /\ MediaCell = DiskCell
<1>1. call \in Calls /\ call # NoCall
  BY DEF InstallInv, CallerInv, RangeInv, NoCall
<1>2. /\ pc = "idle" /\ MediaCell # Blank
      /\ CellEntry(MediaCell, call.slot).state = "STAGING"
      /\ CellEntry(MediaCell, call.slot).image = call.image
      /\ CacheModel = "subset" => ~failed
  BY <1>1, ZenonT(30) DEF InstallInv, CallerInv, CallInv
<1>3. call.slot \in Slots /\ call.comp \in Components /\ call.image \in Images
  BY <1>1, ZenonT(30) DEF Calls
<1>4. DiskCell # Blank
  BY <1>2, <1>3, GenesisFacts, ZenonT(30) DEF InstallInv, CallerInv, HistoryInv
<1>5. CacheModel = "subset" => MediaCell = DiskCell
  BY <1>2, ZenonT(30) DEF InstallInv, View
<1> QED
  BY <1>1, <1>2, <1>3, <1>4, <1>5, ZenonT(30)

\* Every component was read back when the VERIFIED record is committed.
LEMMA CommitVerifiedCommits == InstallInv /\ CommitVerified => CommitCalls
<1> SUFFICES ASSUME InstallInv, CommitVerified PROVE CommitCalls
  BY ZenonT(30)
<1>1. PICK next \in Transitions(Current.meta, call.slot, "VERIFIED", call.image, 0) :
          CommitRecord(call.slot, next)
  BY ZenonT(30) DEF CommitVerified
<1>2. /\ call.phase = "readback" /\ call.checked = Components
      /\ call' = [call EXCEPT !.phase = "commit"]
  BY ZenonT(30) DEF CommitVerified
<1>3. /\ call \in Calls /\ call.slot \in Slots /\ call.image \in Images
      /\ payload = payloadDisk /\ Complete(payload[call.slot], call.image)
  BY <1>2, PayloadCallFacts, ZenonT(30) DEF InstallInv, CallerInv, CallInv, Complete
<1>4. call' \in Calls /\ call'.phase = "commit" /\ call'.slot = call.slot
  BY <1>2, <1>3, ZenonT(30) DEF Calls, Phases
<1> QED
  BY <1>1, <1>3, <1>4, ZenonT(30) DEF CommitCalls, CommitCall, SlotStates

\* A VERIFIED record is followed by a PENDING record of the same image.
LEMMA CommitPendingCommits == InstallInv /\ CommitPending => CommitCalls
<1> SUFFICES ASSUME InstallInv, CommitPending PROVE CommitCalls
  BY ZenonT(30)
<1> DEFINE image == Entry(call.slot).image
<1>1. PICK next \in Transitions(Current.meta, call.slot, "PENDING", image, Attempts) :
          CommitRecord(call.slot, next)
  BY ZenonT(30) DEF CommitPending
<1>2. /\ call.phase = "pending" /\ Entry(call.slot).state = "VERIFIED"
      /\ call' = [call EXCEPT !.phase = "commit"]
  BY ZenonT(30) DEF CommitPending
<1>3. call \in Calls /\ call.slot \in Slots
  BY <1>2 DEF InstallInv, CallerInv, RangeInv, NoCall, Calls
<1>4. MediaCell # Blank
  BY <1>1, ZenonT(30) DEF InstallInv, View, CommitRecord, Journal!Commit
<1>5. image \in Images
  BY <1>2, <1>3, <1>4, CurrentFacts, ZenonT(30)
<1>6. call' \in Calls /\ call'.phase = "commit" /\ call'.slot = call.slot
  BY <1>2, <1>3, ZenonT(30) DEF Calls, Phases
<1> QED
  BY <1>1, <1>3, <1>5, <1>6, ZenonT(30) DEF CommitCalls, CommitCall, SlotStates

\* The value that is committed can be recorded, and what becomes of the slots.
LEMMA CommitFacts ==
    ASSUME InstallInv, NEW slot \in Slots, NEW state \in SlotStates, NEW image \in Images,
           NEW attempts \in {0, Attempts},
           NEW next \in Transitions(Current.meta, slot, state, image, attempts),
           CommitRecord(slot, next)
    PROVE  /\ [target |-> slot, meta |-> next] \in Contents
           /\ MediaCell # Blank /\ next.gen = MediaCell.gen + 1
           /\ next \in Transitions(MediaCell.val.meta, slot, state, image, attempts)
           /\ MetadataIsValid(next)
           /\ next.slots[slot].gen = next.gen
           /\ next.slots[slot].state = state /\ next.slots[slot].image = image
           /\ \A s \in Slots \ {slot} : next.slots[s] = CellEntry(MediaCell, s)
           /\ state \in {"PENDING", "CONFIRMED"} =>
                 /\ CellEntry(MediaCell, slot).state \in Vouched
                 /\ CellEntry(MediaCell, slot).image = image
<1>1. /\ Journal!Commit([target |-> slot, meta |-> next])
      /\ next.gen = Journal!Snapshot(media).gen + 1
  BY ZenonT(30) DEF CommitRecord
<1>2. MediaCell # Blank
  BY <1>1, ZenonT(30) DEF InstallInv, View, Journal!Commit
<1>3. /\ Current.meta = MediaCell.val.meta /\ MediaCell.val.meta \in Metadata
      /\ Journal!Snapshot(media).gen = MediaCell.gen
  BY <1>2, CurrentFacts, ZenonT(30) DEF InstallInv, View
<1>4. /\ next \in Metadata /\ MetadataIsValid(next)
      /\ next.slots[slot].gen = next.gen
      /\ next.slots[slot].state = state /\ next.slots[slot].image = image
      /\ \A s \in Slots \ {slot} : next.slots[s] = MediaCell.val.meta.slots[s]
      /\ state \in {"PENDING", "CONFIRMED"} =>
            /\ MediaCell.val.meta.slots[slot].state \in Vouched
            /\ MediaCell.val.meta.slots[slot].image = image
  BY <1>3, TransitionFacts
<1>5. [target |-> slot, meta |-> next] \in Contents
  BY <1>4, ZenonT(30) DEF Contents
<1> QED
  BY <1>1, <1>2, <1>3, <1>4, <1>5, ZenonT(30) DEF CellEntry

\* The start of a commit.
LEMMA CommitKeeps == InstallInv /\ StartEffect /\ CommitCalls => CallerInv'
<1> SUFFICES ASSUME InstallInv, StartEffect, CommitCalls PROVE CallerInv'
  BY ZenonT(30)
<1>1. PICK slot \in Slots, state \in SlotStates, image \in Images, attempts \in {0, Attempts} :
          \E next \in Transitions(Current.meta, slot, state, image, attempts) :
              CommitCall(slot, state, image, next)
  BY ZenonT(30) DEF CommitCalls
<1>2. PICK next \in Transitions(Current.meta, slot, state, image, attempts) :
          CommitCall(slot, state, image, next)
  BY <1>1, ZenonT(30)
<1>3. /\ CommitRecord(slot, next)
      /\ call' \in Calls /\ call'.phase = "commit" /\ call'.slot = slot
      /\ state = "STAGING" => call'.image = image
      /\ state = "VERIFIED" => payload = payloadDisk /\ Complete(payload[slot], image)
  BY <1>2, ZenonT(30) DEF CommitCall
<1> DEFINE val == [target |-> slot, meta |-> next]
           new == [gen |-> MediaCell.gen + 1, val |-> val]
<1>4. /\ val \in Contents /\ MediaCell # Blank /\ next.gen = MediaCell.gen + 1
      /\ next \in Transitions(MediaCell.val.meta, slot, state, image, attempts)
      /\ MetadataIsValid(next)
      /\ next.slots[slot].gen = next.gen
      /\ next.slots[slot].state = state /\ next.slots[slot].image = image
      /\ \A s \in Slots \ {slot} : next.slots[s] = CellEntry(MediaCell, s)
      /\ state \in {"PENDING", "CONFIRMED"} =>
            /\ CellEntry(MediaCell, slot).state \in Vouched
            /\ CellEntry(MediaCell, slot).image = image
  BY <1>3, CommitFacts
<1>5. Journal!Commit(val) /\ payload' = payload /\ payloadDisk' = payloadDisk
  BY <1>3, ZenonT(30) DEF CommitRecord
<1>6. /\ MediaCell' = MediaCell /\ DiskCell' = DiskCell
      /\ pc = "idle" /\ pc' = "record_write" /\ failed' = failed
      /\ CacheModel = "subset" => ~failed
      /\ JobCell' = new
  BY <1>4, <1>5, ZenonT(30) DEF StartEffect, SameCells
<1>7. /\ new.gen = next.gen /\ new.val.meta = next /\ new.val.target = slot
      /\ \A s \in Slots : CellEntry(new, s) = next.slots[s]
  BY <1>4, ZenonT(30) DEF CellEntry
<1>8. CoherenceInv'
  <2>1. Coherent(new)
    BY <1>4, <1>7, ZenonT(30) DEF Coherent
  <2> QED
    BY <1>4, <1>6, <2>1, ZenonT(30) DEF InstallInv, CallerInv, CoherenceInv
<1>9. HistoryInv'
  <2>1. Follows(new, MediaCell)
    BY <1>4, <1>7, ZenonT(30) DEF Follows
  <2> QED
    BY <1>4, <1>6, <2>1, ZenonT(30) DEF InstallInv, CallerInv, HistoryInv
<1>10. ASSUME NEW content, Matches(MediaCell, content),
              state = "VERIFIED" => Complete(content[slot], image)
       PROVE  Matches(new, content)
  <2> SUFFICES ASSUME NEW s \in Slots, next.slots[s].state \in Vouched
               PROVE  Complete(content[s], next.slots[s].image)
    BY <1>7, ZenonT(30) DEF Matches
  <2>1. CASE s # slot
    BY <1>4, <1>10, <2>1, ZenonT(30) DEF Matches
  <2>2. CASE s = slot
    BY <1>4, <1>10, <2>2, ZenonT(30) DEF Matches, Vouched
  <2> QED
    BY <2>1, <2>2, ZenonT(30)
<1>11. PayloadInv'
  <2>1. Matches(new, payload)
    BY <1>3, <1>4, <1>10, ZenonT(30) DEF InstallInv, CallerInv, PayloadInv
  <2>2. CacheModel = "subset" => Matches(new, payloadDisk)
    BY <1>3, <1>4, <1>10, ZenonT(30) DEF InstallInv, CallerInv, PayloadInv
  <2> QED
    BY <1>4, <1>5, <1>6, <2>1, <2>2, ZenonT(30) DEF InstallInv, CallerInv, PayloadInv
<1>12. CallInv'
  BY <1>3, <1>4, <1>6, <1>7, ZenonT(30) DEF CallInv
<1> QED
  BY <1>3, <1>5, <1>8, <1>9, <1>11, <1>12, ZenonT(30) DEF InstallInv, CallerInv, RangeInv

\* Provisioning: the factory image is in slot 0 of a device without a record.
LEMMA InitializeKeeps == InstallInv /\ StartEffect /\ Initialize => CallerInv'
<1> SUFFICES ASSUME InstallInv, StartEffect, Initialize PROVE CallerInv'
  BY ZenonT(30)
<1>1. /\ Journal!Initialize(GenesisCell.val) /\ call' = At("commit", 0, Factory)
      /\ payload' = payload /\ payloadDisk' = payloadDisk
  BY ZenonT(30) DEF Initialize, GenesisCell
<1>2. /\ MediaCell' = MediaCell /\ DiskCell' = DiskCell
      /\ pc = "idle" /\ pc' = "record_write" /\ failed' = failed
      /\ CacheModel = "subset" => ~failed
      /\ MediaCell = Blank /\ JobCell' = [gen |-> 1, val |-> GenesisCell.val]
  BY <1>1, GenesisFacts, ZenonT(30) DEF StartEffect, SameCells
<1>3. JobCell' = GenesisCell
  BY <1>2, ZenonT(30) DEF GenesisCell
<1>4. /\ call' \in Calls /\ call'.phase = "commit" /\ call'.slot = 0
  BY <1>1, FactoryAssumption, ComponentAssumption DEF At, Calls, Phases, Slots, Components
<1>5. DiskCell = Blank
  BY <1>2, ZenonT(30) DEF InstallInv, CallerInv, HistoryInv
<1>6. Matches(GenesisCell, payload) /\ Matches(GenesisCell, payloadDisk)
  BY <1>5, GenesisFacts, ZenonT(30) DEF InstallInv, CallerInv, PayloadInv, Matches
<1>7. CoherenceInv' /\ HistoryInv'
  BY <1>2, <1>3, GenesisFacts, ZenonT(30) DEF InstallInv, CallerInv, CoherenceInv, HistoryInv
<1>8. PayloadInv'
  BY <1>1, <1>2, <1>3, <1>5, <1>6, ZenonT(30) DEF InstallInv, CallerInv, PayloadInv
<1>9. CallInv'
  BY <1>2, <1>3, <1>4, GenesisFacts, ZenonT(30) DEF CallInv, Slots
<1> QED
  BY <1>1, <1>2, <1>4, <1>7, <1>8, <1>9, ZenonT(30) DEF InstallInv, CallerInv, RangeInv

\* Steps that change neither the journal nor a component range.
LEMMA QuietKeeps ==
    ASSUME InstallInv, UNCHANGED <<journalVars, payload, payloadDisk>>
    PROVE  /\ CoherenceInv' /\ HistoryInv' /\ PayloadInv'
           /\ MediaCell' = MediaCell /\ pc' = pc /\ failed' = failed
           /\ JobCell' = JobCell /\ payload' = payload /\ payloadDisk' = payloadDisk
<1>1. /\ MediaCell' = MediaCell /\ DiskCell' = DiskCell /\ JobCell' = JobCell
      /\ pc' = pc /\ failed' = failed /\ payload' = payload /\ payloadDisk' = payloadDisk
  BY ZenonT(30) DEF journalVars, MediaCell, DiskCell, JobCell
<1>2. CoherenceInv' /\ HistoryInv'
  BY <1>1, ZenonT(60) DEF InstallInv, CallerInv, CoherenceInv, HistoryInv
<1>3. PayloadInv'
  BY <1>1, ZenonT(60) DEF InstallInv, CallerInv, PayloadInv
<1> QED
  BY <1>1, <1>2, <1>3, ZenonT(30)

\* A resumed install goes on from the record it finds.
LEMMA ResumeKeeps ==
    ASSUME InstallInv, NEW slot \in Slots, NEW image \in Images,
           ResumeStaging(slot, image) \/ ResumeVerified(slot, image)
    PROVE  CallerInv'
<1>1. /\ UNCHANGED <<journalVars, payload, payloadDisk>> /\ Opened
      /\ \/ /\ call' = At("erase", slot, image)
            /\ Entry(slot).state = "STAGING" /\ Entry(slot).image = image
         \/ call' = At("pending", slot, image)
  BY ZenonT(30) DEF ResumeStaging, ResumeVerified
<1>2. /\ CoherenceInv' /\ HistoryInv' /\ PayloadInv'
      /\ MediaCell' = MediaCell /\ pc' = pc /\ failed' = failed
      /\ payload' = payload /\ payloadDisk' = payloadDisk
  BY <1>1, QuietKeeps, ZenonT(30)
<1>3. /\ pc = "idle" /\ MediaCell # Blank /\ (CacheModel = "subset" => ~failed)
  BY <1>1, DeviceAssumption, ZenonT(30) DEF InstallInv, View, Opened, Journal!MayCall, Journal!Idle
<1>4. Entry(slot) = CellEntry(MediaCell, slot)
  BY <1>3, CurrentFacts, ZenonT(30)
<1>5. /\ call' \in Calls /\ call'.phase \in {"erase", "pending"} /\ call'.slot = slot
      /\ call'.image = image /\ call'.checked = {}
      /\ call'.phase = "erase" => Entry(slot).state = "STAGING" /\ Entry(slot).image = image
  BY <1>1, AtFacts DEF Phases
<1>6. CallInv'
  BY <1>2, <1>3, <1>4, <1>5, ZenonT(30) DEF CallInv
<1> QED
  BY <1>2, <1>5, <1>6, ZenonT(30) DEF InstallInv, CallerInv, RangeInv

-----------------------------------------------------------------------------
(* The payload loops.                                                      *)

\* An erase or a write, complete or not, changes only a range that no record
\* vouches for.
LEMMA PayloadWriteKeeps ==
    ASSUME InstallInv, call.phase \in {"erase", "write"},
           NEW bytes \in Images \cup {Blank, Torn},
           payload' = [payload EXCEPT ![call.slot][call.comp] = bytes],
           payloadDisk' = payloadDisk, MediaCell' = MediaCell, DiskCell' = DiskCell, pc' = pc
    PROVE  payload' \in Payloads /\ PayloadInv'
<1>1. /\ call.slot \in Slots /\ call.comp \in Components
      /\ pc = "idle" /\ MediaCell # Blank /\ DiskCell # Blank
      /\ CellEntry(MediaCell, call.slot).state = "STAGING"
      /\ CacheModel = "subset" => MediaCell = DiskCell
  BY PayloadCallFacts, ZenonT(30)
<1>2. payload \in Payloads
  BY ZenonT(30) DEF InstallInv, CallerInv, RangeInv
<1>3. payload' \in Payloads /\ \A s \in Slots \ {call.slot} : payload'[s] = payload[s]
  BY <1>1, <1>2, ZenonT(30) DEF Payloads
<1>4. Matches(MediaCell, payload')
  <2>1. Matches(MediaCell, payload)
    BY <1>1, ZenonT(30) DEF InstallInv, CallerInv, PayloadInv
  <2> QED
    BY <1>1, <1>3, <2>1, ZenonT(30) DEF Matches, Vouched
<1>5. PayloadInv'
  BY <1>1, <1>4, ZenonT(30) DEF InstallInv, CallerInv, PayloadInv
<1> QED
  BY <1>3, <1>5, ZenonT(30)

\* Journal and component ranges after a step of the payload loops.
LEMMA CellsKeep ==
    ASSUME InstallInv, call.phase \in {"erase", "write"}, UNCHANGED journalVars
    PROVE  /\ CoherenceInv' /\ HistoryInv'
           /\ MediaCell' = MediaCell /\ DiskCell' = DiskCell /\ pc' = pc /\ failed' = failed
<1>1. /\ MediaCell' = MediaCell /\ DiskCell' = DiskCell
      /\ pc' = pc /\ failed' = failed /\ JobCell' = JobCell
  BY ZenonT(30) DEF journalVars, MediaCell, DiskCell, JobCell
<1> QED
  BY <1>1, ZenonT(60) DEF InstallInv, CallerInv, CoherenceInv, HistoryInv

\* An erase before the write of a component.
LEMMA EraseComponentKeeps == InstallInv /\ EraseComponent => CallerInv'
<1> SUFFICES ASSUME InstallInv, EraseComponent PROVE CallerInv'
  BY ZenonT(30)
<1>1. /\ call.phase = "erase" /\ UNCHANGED journalVars /\ payloadDisk' = payloadDisk
      /\ payload' = [payload EXCEPT ![call.slot][call.comp] = Blank]
      /\ call' = [call EXCEPT !.phase = "write"]
  BY ZenonT(30) DEF EraseComponent
<1>2. /\ CoherenceInv' /\ HistoryInv'
      /\ MediaCell' = MediaCell /\ DiskCell' = DiskCell /\ pc' = pc /\ failed' = failed
  BY <1>1, CellsKeep, ZenonT(30)
<1>3. payload' \in Payloads /\ PayloadInv'
  BY <1>1, <1>2, PayloadWriteKeeps, ZenonT(60)
<1>4. /\ call \in Calls /\ call # NoCall /\ pc = "idle" /\ (CacheModel = "subset" => ~failed)
      /\ MediaCell # Blank /\ CellEntry(MediaCell, call.slot).state = "STAGING"
      /\ CellEntry(MediaCell, call.slot).image = call.image /\ call.checked = {}
  BY <1>1, PayloadCallFacts, ZenonT(30) DEF InstallInv, CallerInv, CallInv
<1>5. /\ call' \in Calls /\ call'.phase = "write" /\ call'.slot = call.slot
      /\ call'.image = call.image /\ call'.checked = call.checked
  BY <1>1, <1>4, ZenonT(30) DEF Calls, Phases
<1>6. CallInv'
  BY <1>2, <1>4, <1>5, ZenonT(30) DEF CallInv
<1> QED
  BY <1>1, <1>2, <1>3, <1>5, <1>6, ZenonT(30) DEF InstallInv, CallerInv, RangeInv

\* The write, and the next component of the loop.
LEMMA WriteComponentKeeps == InstallInv /\ WriteComponent => CallerInv'
<1> SUFFICES ASSUME InstallInv, WriteComponent PROVE CallerInv'
  BY ZenonT(30)
<1>1. /\ call.phase = "write" /\ UNCHANGED journalVars /\ payloadDisk' = payloadDisk
      /\ \E bytes \in Journal!Stored(call.image) :
            payload' = [payload EXCEPT ![call.slot][call.comp] = bytes]
      /\ call' = IF call.comp < LastComponent
                 THEN [call EXCEPT !.phase = "erase", !.comp = @ + 1]
                 ELSE [call EXCEPT !.phase = "flush"]
  BY ZenonT(60) DEF WriteComponent
<1>2. /\ CoherenceInv' /\ HistoryInv'
      /\ MediaCell' = MediaCell /\ DiskCell' = DiskCell /\ pc' = pc /\ failed' = failed
  BY <1>1, CellsKeep, ZenonT(30)
<1>3. /\ call \in Calls /\ call # NoCall /\ pc = "idle" /\ (CacheModel = "subset" => ~failed)
      /\ MediaCell # Blank /\ CellEntry(MediaCell, call.slot).state = "STAGING"
      /\ CellEntry(MediaCell, call.slot).image = call.image /\ call.checked = {}
      /\ call.image \in Images
  BY <1>1, PayloadCallFacts, ZenonT(30) DEF InstallInv, CallerInv, CallInv
<1>4. payload' \in Payloads /\ PayloadInv'
  BY <1>1, <1>2, <1>3, PayloadWriteKeeps, ZenonT(60) DEF Journal!Stored
<1>5. /\ call' \in Calls /\ call'.phase \in {"erase", "flush"} /\ call'.slot = call.slot
      /\ call'.image = call.image /\ call'.checked = call.checked
  <2>1. CASE call.comp < LastComponent
    <3>1. call.comp \in Components
      BY <1>3, ZenonT(30) DEF Calls
    <3>2. call.comp + 1 \in Components
      BY <2>1, <3>1, ComponentAssumption DEF Components
    <3> QED
      BY <1>1, <1>3, <2>1, <3>2, ZenonT(60) DEF Calls, Phases
  <2>2. CASE ~(call.comp < LastComponent)
    BY <1>1, <1>3, <2>2, ZenonT(30) DEF Calls, Phases
  <2> QED
    BY <2>1, <2>2, ZenonT(30)
<1>6. CallInv'
  BY <1>2, <1>3, <1>5, ZenonT(30) DEF CallInv
<1> QED
  BY <1>1, <1>2, <1>4, <1>5, <1>6, ZenonT(30) DEF InstallInv, CallerInv, RangeInv

\* The flush makes the components and the record durable together.
LEMMA PayloadFlushKeeps == InstallInv /\ PayloadFlush => CallerInv'
<1> SUFFICES ASSUME InstallInv, PayloadFlush PROVE CallerInv'
  BY ZenonT(30)
<1>1. /\ call.phase = "flush" /\ payloadDisk' = payload /\ payload' = payload
      /\ disk' = media /\ media' = media /\ pc' = pc /\ job' = job
      /\ failed' = failed /\ acked' = acked
      /\ call' = [call EXCEPT !.phase = "readback", !.comp = 1]
  BY ZenonT(30) DEF PayloadFlush
<1>2. /\ call \in Calls /\ call # NoCall /\ pc = "idle" /\ (CacheModel = "subset" => ~failed)
      /\ MediaCell # Blank /\ CellEntry(MediaCell, call.slot).state = "STAGING"
      /\ CellEntry(MediaCell, call.slot).image = call.image /\ call.checked = {}
  BY <1>1, PayloadCallFacts, ZenonT(30) DEF InstallInv, CallerInv, CallInv
<1>3. MediaCell' = MediaCell /\ DiskCell' = MediaCell
  BY <1>1, ZenonT(30) DEF MediaCell, DiskCell
<1>4. CoherenceInv' /\ HistoryInv'
  BY <1>1, <1>2, <1>3, ZenonT(30) DEF InstallInv, CallerInv, CoherenceInv, HistoryInv, BeforeSelector
<1>5. PayloadInv'
  BY <1>1, <1>2, <1>3, ZenonT(30) DEF InstallInv, CallerInv, PayloadInv
<1>6. /\ call' \in Calls /\ call'.phase = "readback" /\ call'.slot = call.slot
      /\ call'.image = call.image /\ call'.checked = {}
  <2>1. 1 \in Components
    BY ComponentAssumption DEF Components
  <2> QED
    BY <1>1, <1>2, <2>1, ZenonT(60) DEF Calls, Phases
<1>7. CallInv'
  BY <1>1, <1>2, <1>3, <1>6, ZenonT(30) DEF CallInv
<1> QED
  BY <1>1, <1>3, <1>4, <1>5, <1>6, <1>7, ZenonT(30) DEF InstallInv, CallerInv, RangeInv

\* A component counts as checked when its image was read from it.
LEMMA ReadbackComponentKeeps == InstallInv /\ ReadbackComponent => CallerInv'
<1> SUFFICES ASSUME InstallInv, ReadbackComponent PROVE CallerInv'
  BY ZenonT(30)
<1>1. /\ call.phase = "readback" /\ payload[call.slot][call.comp] = call.image
      /\ call' = [call EXCEPT !.checked = @ \cup {call.comp},
                              !.comp = IF @ < LastComponent THEN @ + 1 ELSE @]
      /\ UNCHANGED <<journalVars, payload, payloadDisk>>
  BY ZenonT(30) DEF ReadbackComponent
<1>2. /\ CoherenceInv' /\ HistoryInv' /\ PayloadInv'
      /\ MediaCell' = MediaCell /\ pc' = pc /\ failed' = failed
      /\ payload' = payload /\ payloadDisk' = payloadDisk
  BY <1>1, QuietKeeps, ZenonT(30)
<1>3. /\ call \in Calls /\ call # NoCall /\ pc = "idle" /\ (CacheModel = "subset" => ~failed)
      /\ MediaCell # Blank /\ CellEntry(MediaCell, call.slot).state = "STAGING"
      /\ CellEntry(MediaCell, call.slot).image = call.image /\ call.comp \in Components
      /\ payload = payloadDisk /\ \A c \in call.checked : payload[call.slot][c] = call.image
  BY <1>1, PayloadCallFacts, ZenonT(30) DEF InstallInv, CallerInv, CallInv
<1>4. (IF call.comp < LastComponent THEN call.comp + 1 ELSE call.comp) \in Components
  BY <1>3, ComponentAssumption DEF Components
<1>5. /\ call' \in Calls /\ call'.phase = "readback" /\ call'.slot = call.slot
      /\ call'.image = call.image /\ call'.checked = call.checked \cup {call.comp}
  BY <1>1, <1>3, <1>4, ZenonT(60) DEF Calls, Phases
<1>6. CallInv'
  BY <1>1, <1>2, <1>3, <1>5, ZenonT(30) DEF CallInv
<1> QED
  BY <1>1, <1>2, <1>5, <1>6, ZenonT(30) DEF InstallInv, CallerInv, RangeInv

-----------------------------------------------------------------------------
(* Journal steps under a call, failures and power cuts.                    *)

\* The job becomes visible, and no payload is in flight.
LEMMA JournalWriteKeeps == InstallInv /\ WriteEffect /\ JournalWrite => CallerInv'
<1> SUFFICES ASSUME InstallInv, WriteEffect, JournalWrite PROVE CallerInv'
  BY ZenonT(30)
<1>1. /\ Journal!RecordWrite \/ Journal!RecordReadback \/ Journal!SelectorWrite
      /\ payload' = payload /\ payloadDisk' = payloadDisk /\ call' = call
  BY ZenonT(30) DEF JournalWrite
<1>2. /\ DiskCell' = DiskCell /\ JobCell' = JobCell /\ failed' = failed
      /\ pc \in BeforeSelector /\ pc' # "idle"
      /\ MediaCell' = MediaCell \/ (MediaCell' = JobCell /\ MediaCell = DiskCell)
      /\ pc' \in BeforeSelector => MediaCell' = MediaCell
  BY <1>1, ZenonT(30) DEF WriteEffect
<1>3. pc # "idle" /\ call.phase = "commit"
  BY <1>2, ZenonT(30) DEF BeforeSelector, InstallInv, CallerInv, CallInv
<1>4. CoherenceInv'
  BY <1>2, <1>3, ZenonT(30) DEF InstallInv, CallerInv, CoherenceInv
<1>5. HistoryInv'
  <2>1. CASE MediaCell' = MediaCell
    BY <1>2, <2>1, ZenonT(60) DEF InstallInv, CallerInv, HistoryInv
  <2>2. CASE MediaCell' = JobCell /\ MediaCell = DiskCell /\ pc' \notin BeforeSelector
    <3>1. JobCell # Blank
      BY <1>3, BytesAssumption, ZenonT(30) DEF InstallInv, View, Cells
    <3>2. IF DiskCell = Blank THEN JobCell = GenesisCell ELSE Follows(JobCell, DiskCell)
      BY <1>2, <2>2, ZenonT(30) DEF InstallInv, CallerInv, HistoryInv
    <3> QED
      BY <1>2, <2>2, <3>1, <3>2, ZenonT(60) DEF HistoryInv
  <2> QED
    BY <1>2, <2>1, <2>2, ZenonT(30)
<1>6. PayloadInv'
  BY <1>1, <1>2, <1>3, ZenonT(60) DEF InstallInv, CallerInv, PayloadInv
<1>7. CallInv'
  BY <1>1, <1>2, <1>3, ZenonT(30) DEF InstallInv, CallerInv, CallInv
<1> QED
  BY <1>1, <1>2, <1>4, <1>5, <1>6, <1>7, ZenonT(30) DEF InstallInv, CallerInv, RangeInv

\* The flush of a commit covers the component ranges too.
LEMMA JournalFlushKeeps == InstallInv /\ FlushEffect /\ JournalFlush => CallerInv'
<1> SUFFICES ASSUME InstallInv, FlushEffect, JournalFlush PROVE CallerInv'
  BY ZenonT(30)
<1>1. /\ Journal!RecordFlush \/ Journal!SelectorFlush
      /\ payload' = payload /\ payloadDisk' = payload /\ call' = call
  BY ZenonT(30) DEF JournalFlush
<1>2. /\ DiskCell' = MediaCell /\ MediaCell' = MediaCell
      /\ JobCell' = JobCell /\ failed' = failed
      /\ pc # "idle" /\ pc' # "idle"
      /\ pc' \in BeforeSelector => pc \in BeforeSelector
  BY <1>1, ZenonT(30) DEF FlushEffect
<1>3. call.phase = "commit"
  BY <1>2, ZenonT(30) DEF InstallInv, CallerInv, CallInv
<1>4. CoherenceInv' /\ HistoryInv'
  BY <1>2, ZenonT(60) DEF InstallInv, CallerInv, CoherenceInv, HistoryInv
<1>5. MediaCell = Blank => Complete(payload[0], Factory)
  BY ZenonT(30) DEF InstallInv, CallerInv, HistoryInv, PayloadInv
<1>6. PayloadInv'
  BY <1>1, <1>2, <1>5, ZenonT(60) DEF InstallInv, CallerInv, PayloadInv
<1>7. CallInv'
  BY <1>1, <1>2, <1>3, ZenonT(30) DEF InstallInv, CallerInv, CallInv
<1> QED
  BY <1>1, <1>2, <1>4, <1>6, <1>7, ZenonT(30) DEF InstallInv, CallerInv, RangeInv

\* The call goes on from the record it committed, which names its image.
LEMMA JournalReopenKeeps == InstallInv /\ ReopenEffect /\ JournalReopen => CallerInv'
<1> SUFFICES ASSUME InstallInv, ReopenEffect, JournalReopen PROVE CallerInv'
  BY ZenonT(30)
<1>1. /\ Journal!Reopen /\ payload' = payload /\ payloadDisk' = payloadDisk
      /\ call' = CASE Entry(call.slot).state = "STAGING" -> At("erase", call.slot, call.image)
                   [] Entry(call.slot).state = "VERIFIED" -> At("pending", call.slot, call.image)
                   [] OTHER -> NoCall
  BY ZenonT(30) DEF JournalReopen
<1>2. /\ MediaCell' = MediaCell /\ DiskCell' = DiskCell /\ failed' = failed
      /\ pc # "idle" /\ pc' = "idle"
      /\ MediaCell = JobCell /\ MediaCell # Blank
  BY <1>1, ZenonT(30) DEF ReopenEffect, SameCells
<1>3. /\ call \in Calls /\ call # NoCall /\ call.slot \in Slots /\ call.image \in Images
      /\ CacheModel = "subset" => ~failed
  BY <1>2 DEF InstallInv, CallerInv, RangeInv, CallInv, NoCall, Calls
<1>4. Entry(call.slot) = CellEntry(MediaCell, call.slot)
  BY <1>2, <1>3, CurrentFacts, ZenonT(30)
<1>5. Entry(call.slot).state = "STAGING" => CellEntry(MediaCell, call.slot).image = call.image
  BY <1>2, <1>4, ZenonT(30) DEF InstallInv, CallerInv, CallInv
<1>6. CoherenceInv' /\ HistoryInv' /\ PayloadInv'
  BY <1>1, <1>2, ZenonT(60) DEF InstallInv, CallerInv, CoherenceInv, HistoryInv, PayloadInv, BeforeSelector
<1>7. /\ call' \in Calls \cup {NoCall}
      /\ call'.phase \in {"erase", "pending", "none"}
      /\ call'.phase = "erase" =>
            /\ call'.slot = call.slot /\ call'.image = call.image /\ call'.checked = {}
            /\ Entry(call.slot).state = "STAGING"
  <2>1. CASE Entry(call.slot).state = "STAGING"
    BY <1>1, <1>3, <2>1, AtFacts DEF Phases
  <2>2. CASE Entry(call.slot).state = "VERIFIED"
    BY <1>1, <1>3, <2>2, AtFacts DEF Phases
  <2>3. CASE Entry(call.slot).state \notin {"STAGING", "VERIFIED"}
    BY <1>1, <2>3, ZenonT(30) DEF NoCall
  <2> QED
    BY <2>1, <2>2, <2>3, ZenonT(30)
<1>8. CallInv'
  BY <1>2, <1>3, <1>4, <1>5, <1>7, ZenonT(30) DEF CallInv
<1> QED
  BY <1>1, <1>2, <1>6, <1>7, <1>8, ZenonT(30) DEF InstallInv, CallerInv, RangeInv

\* A step that ends the call.
LEMMA NoCallFacts ==
    ASSUME call' = NoCall, pc' = "idle"
    PROVE  CallInv'
<1>1. call'.phase = "none"
  BY ZenonT(30) DEF NoCall
<1> QED
  BY <1>1, ZenonT(30) DEF CallInv

\* A failed commit leaves the old record or the new one.
LEMMA JournalFailKeeps == InstallInv /\ FailEffect /\ JournalFail => CallerInv'
<1> SUFFICES ASSUME InstallInv, FailEffect, JournalFail PROVE CallerInv'
  BY ZenonT(30)
<1>1. /\ Journal!Fail \/ Journal!ShortWrite
      /\ payload' = payload /\ payloadDisk' = payloadDisk /\ call' = NoCall
  BY ZenonT(30) DEF JournalFail
<1>2. /\ DiskCell' = DiskCell
      /\ pc # "idle" /\ pc' = "idle"
      /\ \/ MediaCell' = MediaCell
         \/ MediaCell' = JobCell /\ MediaCell = DiskCell /\ pc \in BeforeSelector
  BY <1>1, ZenonT(30) DEF FailEffect
<1>3. CoherenceInv'
  BY <1>2, ZenonT(60) DEF InstallInv, CallerInv, CoherenceInv
<1>4. HistoryInv'
  <2>1. CASE MediaCell' = MediaCell
    BY <1>2, <2>1, ZenonT(60) DEF InstallInv, CallerInv, HistoryInv, BeforeSelector
  <2>2. CASE MediaCell' = JobCell /\ MediaCell = DiskCell /\ pc \in BeforeSelector
    <3>1. JobCell # Blank
      BY <1>2, BytesAssumption, ZenonT(30) DEF InstallInv, View, Cells
    <3>2. IF DiskCell = Blank THEN JobCell = GenesisCell ELSE Follows(JobCell, DiskCell)
      BY <2>2, ZenonT(30) DEF InstallInv, CallerInv, HistoryInv
    <3> QED
      BY <1>2, <2>2, <3>1, <3>2, ZenonT(60) DEF HistoryInv, BeforeSelector
  <2> QED
    BY <1>2, <2>1, <2>2, ZenonT(30)
<1>5. PayloadInv'
  BY <1>1, <1>2, ZenonT(60) DEF InstallInv, CallerInv, PayloadInv
<1> QED
  BY <1>1, <1>2, <1>3, <1>4, <1>5, NoCallFacts, ZenonT(30) DEF InstallInv, CallerInv, RangeInv

\* A payload call that fails may tear the range it works on.
LEMMA PayloadFailKeeps == InstallInv /\ PayloadFail => CallerInv'
<1> SUFFICES ASSUME InstallInv, PayloadFail PROVE CallerInv'
  BY ZenonT(30)
<1>1. /\ pc = "idle" /\ call' = NoCall /\ failed' = TRUE
      /\ media' = media /\ disk' = disk /\ pc' = pc /\ job' = job /\ acked' = acked
      /\ payloadDisk' = payloadDisk
      /\ \/ payload' = payload
         \/ /\ call.phase \in {"erase", "write"}
            /\ payload' = [payload EXCEPT ![call.slot][call.comp] = Torn]
  BY ZenonT(30) DEF PayloadFail, Journal!Idle
<1>2. MediaCell' = MediaCell /\ DiskCell' = DiskCell
  BY <1>1, ZenonT(30) DEF MediaCell, DiskCell
<1>3. CoherenceInv' /\ HistoryInv'
  BY <1>1, <1>2, ZenonT(60) DEF InstallInv, CallerInv, CoherenceInv, HistoryInv, BeforeSelector
<1>4. payload' \in Payloads /\ PayloadInv'
  <2>1. CASE payload' = payload
    BY <1>1, <1>2, <2>1, ZenonT(60) DEF InstallInv, CallerInv, PayloadInv, RangeInv
  <2>2. CASE payload' # payload
    BY <1>1, <1>2, <2>2, PayloadWriteKeeps, ZenonT(30)
  <2> QED
    BY <2>1, <2>2, ZenonT(30)
<1> QED
  BY <1>1, <1>2, <1>3, <1>4, NoCallFacts, ZenonT(30) DEF InstallInv, CallerInv, RangeInv

\* What a power cut leaves of the component ranges: all that was flushed, and
\* of the rest nothing on the one device and anything on the other.
LEMMA PowerCutPayload ==
    ASSUME InstallInv, PowerCut
    PROVE  /\ payload' = payloadDisk' /\ payloadDisk' \in Payloads
           /\ CacheModel = "reference" => payloadDisk' = payloadDisk
           /\ \A s \in Slots, c \in Components :
                 payload[s][c] = payloadDisk[s][c] => payloadDisk'[s][c] = payload[s][c]
<1>1. PICK lost \in SUBSET Dirty, torn \in SUBSET Dirty :
          /\ lost \cap torn = {}
          /\ CacheModel = "reference" => lost = Dirty
          /\ payloadDisk' = [s \in Slots |-> [c \in Components |->
                IF <<s, c>> \in torn THEN Torn
                ELSE IF <<s, c>> \in lost THEN payloadDisk[s][c]
                ELSE payload[s][c]]]
  BY ZenonT(60) DEF PowerCut
<1>2. payload' = payloadDisk'
  BY ZenonT(30) DEF PowerCut
<1>3. payload \in Payloads /\ payloadDisk \in Payloads
  BY ZenonT(30) DEF InstallInv, CallerInv, RangeInv
<1>4. \A s \in Slots, c \in Components :
          <<s, c>> \in Dirty <=> payload[s][c] # payloadDisk[s][c]
  BY ZenonT(30) DEF Dirty
<1>5. \A s \in Slots, c \in Components :
          payloadDisk'[s][c] = IF <<s, c>> \in torn THEN Torn
                               ELSE IF <<s, c>> \in lost THEN payloadDisk[s][c]
                               ELSE payload[s][c]
  BY <1>1, ZenonT(30)
<1>6. payloadDisk' \in Payloads
  BY <1>1, <1>3, ZenonT(30) DEF Payloads
<1>7. ASSUME CacheModel = "reference" PROVE payloadDisk' = payloadDisk
  <2>1. torn = {} /\ lost = Dirty
    BY <1>1, <1>7, ZenonT(30)
  <2>2. \A s \in Slots, c \in Components : payloadDisk'[s][c] = payloadDisk[s][c]
    BY <1>4, <1>5, <2>1, ZenonT(60)
  <2>3. \A s \in Slots : payloadDisk'[s] = payloadDisk[s]
    BY <1>3, <1>6, <2>2 DEF Payloads
  <2> QED
    BY <1>3, <1>6, <2>3 DEF Payloads
<1>8. \A s \in Slots, c \in Components :
          payload[s][c] = payloadDisk[s][c] => payloadDisk'[s][c] = payload[s][c]
  BY <1>1, <1>4, <1>5, ZenonT(30)
<1> QED
  BY <1>2, <1>6, <1>7, <1>8, ZenonT(30)

\* What survives a power cut is a record and what it vouches for.
LEMMA PowerCutKeeps == InstallInv /\ CutEffect /\ PowerCut => CallerInv'
<1> SUFFICES ASSUME InstallInv, CutEffect, PowerCut PROVE CallerInv'
  BY ZenonT(30)
<1>1. /\ MediaCell' = DiskCell' /\ DiskCell' \in {MediaCell, DiskCell}
      /\ CacheModel = "reference" => DiskCell' = DiskCell
      /\ pc' = "idle" /\ call' = NoCall
  BY ZenonT(30) DEF CutEffect, PowerCut
<1>2. /\ payload' = payloadDisk' /\ payloadDisk' \in Payloads
      /\ CacheModel = "reference" => payloadDisk' = payloadDisk
      /\ \A s \in Slots, c \in Components :
            payload[s][c] = payloadDisk[s][c] => payloadDisk'[s][c] = payload[s][c]
  BY PowerCutPayload, ZenonT(30)
<1>3. CoherenceInv' /\ HistoryInv'
  BY <1>1, ZenonT(60) DEF InstallInv, CallerInv, CoherenceInv, HistoryInv, BeforeSelector
<1>4. ASSUME NEW cell, Matches(cell, payload), Matches(cell, payloadDisk)
      PROVE  Matches(cell, payloadDisk')
  BY <1>2, <1>4 DEF Matches, Complete
<1>5. DiskCell' = Blank => Complete(payloadDisk'[0], Factory)
  <2>1. DiskCell' = Blank => DiskCell = Blank
    BY <1>1, ZenonT(30) DEF InstallInv, CallerInv, HistoryInv
  <2> QED
    BY <1>2, <2>1, ZenonT(30) DEF InstallInv, CallerInv, PayloadInv, Complete, Slots
<1>6. DiskCell' # Blank => Matches(DiskCell', payloadDisk')
  <2>1. CASE CacheModel = "reference"
    BY <1>1, <1>2, <2>1, ZenonT(30) DEF InstallInv, CallerInv, PayloadInv
  <2>2. CASE CacheModel = "subset"
    BY <1>1, <1>4, <2>2 DEF InstallInv, CallerInv, PayloadInv
  <2> QED
    BY <2>1, <2>2, DeviceAssumption, ZenonT(30)
<1>7. PayloadInv'
  BY <1>1, <1>2, <1>5, <1>6, ZenonT(60) DEF PayloadInv
<1> QED
  BY <1>1, <1>2, <1>3, <1>7, NoCallFacts, ZenonT(30) DEF InstallInv, CallerInv, RangeInv
-----------------------------------------------------------------------------
(* The install, given what it needs of the journal.                        *)

\* A device without a record holds the factory image in slot 0.
LEMMA InitCaller == Init => CallerInv
<1> SUFFICES ASSUME Init PROVE CallerInv
  BY ZenonT(30)
<1>1. Journal!Init /\ call = NoCall /\ payloadDisk = payload
      /\ payload = [s \in Slots |-> [c \in Components |-> IF s = 0 THEN Factory ELSE Blank]]
  BY ZenonT(30) DEF Init
<1>2. MediaCell = Blank /\ DiskCell = Blank /\ pc = "idle"
  <2>1. /\ \A i \in {0, 1} : media.sel[i] = Blank
        /\ disk = media /\ pc = "idle"
    BY <1>1, ZenonT(30) DEF Journal!Init, Journal!Slots, Journal!Idle
  <2>2. Journal!Open(media, 0) # "ok"
    BY <2>1, ZenonT(30) DEF Journal!Open, Journal!ValidSelectors, Journal!Slots
  <2> QED
    BY <2>1, <2>2, ZenonT(30) DEF MediaCell, DiskCell, Journal!Cell
<1>3. payload \in Payloads /\ Complete(payload[0], Factory)
  BY <1>1, FactoryAssumption, ZenonT(30) DEF Payloads, Complete, Slots
<1>4. CoherenceInv /\ HistoryInv /\ PayloadInv
  BY <1>1, <1>2, <1>3, ZenonT(30) DEF CoherenceInv, HistoryInv, PayloadInv, BeforeSelector
<1>5. CallInv
  BY <1>1, <1>2, ZenonT(30) DEF CallInv, NoCall
<1> QED
  BY <1>1, <1>3, <1>4, <1>5, ZenonT(30) DEF CallerInv, RangeInv

\* Every step of the install keeps CallerInv.
LEMMA CallerStep ==
    ASSUME InstallInv, JournalEffects, [Next]_vars
    PROVE  CallerInv'
<1> USE DEF JournalEffects
<1>1. CASE UNCHANGED vars
  <2>1. UNCHANGED <<journalVars, payload, payloadDisk>> /\ call' = call
    BY <1>1, ZenonT(30) DEF vars, journalVars
  <2>2. /\ CoherenceInv' /\ HistoryInv' /\ PayloadInv'
        /\ MediaCell' = MediaCell /\ pc' = pc /\ failed' = failed
        /\ JobCell' = JobCell /\ payload' = payload /\ payloadDisk' = payloadDisk
    BY <2>1, QuietKeeps, ZenonT(30)
  <2>3. CallInv' /\ RangeInv'
    BY <2>1, <2>2, ZenonT(60) DEF InstallInv, CallerInv, CallInv, RangeInv
  <2> QED
    BY <2>2, <2>3, ZenonT(30) DEF CallerInv
<1>2. CASE Initialize \/ JournalFail \/ PayloadFail \/ PowerCut
  BY <1>2, InitializeKeeps, JournalFailKeeps, PayloadFailKeeps, PowerCutKeeps, ZenonT(30)
<1>3. ASSUME NEW slot \in Slots, NEW image \in Images,
             \/ StartInstall(slot, image) \/ ResumeStaging(slot, image)
             \/ ResumeVerified(slot, image) \/ ConfirmPending(slot, image)
      PROVE  CallerInv'
  BY <1>3, StartInstallCommits, ResumeKeeps, ConfirmPendingCommits, CommitKeeps, ZenonT(30)
<1>4. CASE InstallStep
  BY <1>4, EraseComponentKeeps, WriteComponentKeeps, PayloadFlushKeeps,
     ReadbackComponentKeeps, CommitVerifiedCommits, CommitPendingCommits, CommitKeeps,
     JournalWriteKeeps, JournalFlushKeeps, JournalReopenKeeps, ZenonT(30) DEF InstallStep
<1> QED
  BY <1>1, <1>2, <1>3, <1>4, ZenonT(30) DEF Next

\* Between commits the install flushes a journal that has a value, or fails.
CallerMove ==
    /\ pc = "idle"
    /\ media' = media /\ pc' = pc /\ job' = job /\ acked' = acked
    /\ \/ disk' = disk /\ failed' = TRUE
       \/ disk' = media /\ failed' = failed /\ MediaCell # Blank

\* What the install does to the journal is what the journal's module allows,
\* or such a move.
LEMMA JournalMoves ==
    ASSUME InstallInv, [Next]_vars
    PROVE  \/ \E val \in Contents : Journal!Initialize(val) \/ Journal!Commit(val)
           \/ Journal!RecordWrite \/ Journal!RecordFlush \/ Journal!RecordReadback
           \/ Journal!SelectorWrite \/ Journal!SelectorFlush \/ Journal!Reopen
           \/ Journal!Fail \/ Journal!ShortWrite \/ Journal!PowerCut
           \/ UNCHANGED journalVars
           \/ CallerMove
<1>1. ASSUME CommitCalls PROVE \E val \in Contents : Journal!Commit(val)
  <2>1. PICK slot \in Slots, state \in SlotStates, image \in Images, attempts \in {0, Attempts} :
            \E next \in Transitions(Current.meta, slot, state, image, attempts) :
                CommitCall(slot, state, image, next)
    BY <1>1, ZenonT(30) DEF CommitCalls
  <2>2. PICK next \in Transitions(Current.meta, slot, state, image, attempts) :
            CommitCall(slot, state, image, next)
    BY <2>1, ZenonT(30)
  <2>3. CommitRecord(slot, next)
    BY <2>2, ZenonT(30) DEF CommitCall
  <2>4. [target |-> slot, meta |-> next] \in Contents
    BY <2>3, CommitFacts, ZenonT(30)
  <2> QED
    BY <2>3, <2>4, ZenonT(30) DEF CommitRecord
<1>2. Initialize => \E val \in Contents : Journal!Initialize(val)
  BY GenesisFacts, ZenonT(30) DEF Initialize, GenesisCell
<1>3. ASSUME NEW slot \in Slots, NEW image \in Images,
             \/ StartInstall(slot, image) \/ ResumeStaging(slot, image)
             \/ ResumeVerified(slot, image) \/ ConfirmPending(slot, image)
      PROVE  CommitCalls \/ UNCHANGED journalVars
  BY <1>3, StartInstallCommits, ConfirmPendingCommits, ZenonT(30) DEF ResumeStaging, ResumeVerified
<1>4. CommitVerified \/ CommitPending => CommitCalls
  BY CommitVerifiedCommits, CommitPendingCommits, ZenonT(30)
<1>5. EraseComponent \/ WriteComponent \/ ReadbackComponent => UNCHANGED journalVars
  BY ZenonT(30) DEF EraseComponent, WriteComponent, ReadbackComponent
<1>6. PayloadFail => CallerMove
  BY ZenonT(30) DEF PayloadFail, CallerMove, Journal!Idle
<1>7. PayloadFlush => CallerMove
  BY PayloadCallFacts, ZenonT(30) DEF PayloadFlush, CallerMove
<1>8. UNCHANGED vars => UNCHANGED journalVars
  BY ZenonT(30) DEF vars, journalVars
<1> QED
  BY <1>1, <1>2, <1>3, <1>4, <1>5, <1>6, <1>7, <1>8, ZenonT(30) DEF Next, InstallStep, JournalWrite, JournalFlush, JournalReopen, JournalFail, PowerCut

\* The durable record changes only to the visible one.
LEMMA DurableMoves ==
    ASSUME InstallInv, JournalEffects, [Next]_vars
    PROVE  DiskCell' \in {DiskCell, MediaCell}
<1>1. CASE disk' = disk
  BY <1>1, ZenonT(30) DEF DiskCell
<1>2. CASE Journal!RecordFlush \/ Journal!SelectorFlush
  BY <1>2, ZenonT(30) DEF JournalEffects, FlushEffect
<1>3. CASE Journal!PowerCut
  BY <1>3, ZenonT(30) DEF JournalEffects, CutEffect
<1>4. CASE CallerMove
  BY <1>4, ZenonT(30) DEF CallerMove, DiskCell, MediaCell
<1>5. (\E val \in Contents : Journal!Initialize(val) \/ Journal!Commit(val)) => disk' = disk
  BY ZenonT(30) DEF Journal!Initialize, Journal!Commit
<1>6. Journal!RecordWrite \/ Journal!RecordReadback \/ Journal!SelectorWrite
          \/ Journal!Reopen => disk' = disk
  BY ZenonT(30) DEF Journal!RecordWrite, Journal!RecordReadback, Journal!SelectorWrite, Journal!Reopen
<1>7. Journal!Fail \/ Journal!ShortWrite \/ UNCHANGED journalVars => disk' = disk
  BY ZenonT(30) DEF Journal!Fail, Journal!ShortWrite, journalVars
<1> QED
  BY <1>1, <1>2, <1>3, <1>4, <1>5, <1>6, <1>7, JournalMoves, ZenonT(30)

\* The invariant says that what is readable is vouched for and coherent.
LEMMA RecordsAreGood == InstallInv => PayloadMatchesState /\ RecordsAreCoherent
<1> SUFFICES ASSUME InstallInv PROVE PayloadMatchesState /\ RecordsAreCoherent
  BY ZenonT(30)
<1>1. Journal!Open(media, 0) = "ok" =>
          /\ Matches(MediaCell, payload) /\ Journal!Snapshot(media).val = MediaCell.val
  BY ZenonT(30) DEF InstallInv, View, CallerInv, PayloadInv
<1>2. Journal!Open(disk, 0) = "ok" =>
          /\ Matches(DiskCell, payloadDisk) /\ Journal!Snapshot(disk).val = DiskCell.val
  BY ZenonT(30) DEF InstallInv, View, CallerInv, PayloadInv
<1>3. PayloadMatchesState
  BY <1>1, <1>2 DEF PayloadMatchesState, Matches, CellEntry, Vouched
<1>4. RecordsAreCoherent
  BY ZenonT(30) DEF InstallInv, View, CallerInv, CoherenceInv, Coherent, RecordsAreCoherent
<1> QED
  BY <1>3, <1>4, ZenonT(30)

\* What DurableHistoryIsLegal says of a step.
LegalMove ==
    Journal!Open(disk, 0) = "ok" =>
        /\ Journal!Open(disk, 0)' = "ok"
        /\ \/ DurableMeta' = DurableMeta
           \/ \E slot \in Slots, state \in SlotStates, image \in Images,
                 attempts \in {0, Attempts} :
                 DurableMeta' \in Transitions(DurableMeta, slot, state, image, attempts)

\* The visible record is the durable one or one edge after it.
LEMMA DurableStep ==
    ASSUME InstallInv, InstallInv', JournalEffects, [Next]_vars
    PROVE  LegalMove
<1> SUFFICES ASSUME Journal!Open(disk, 0) = "ok"
             PROVE  /\ Journal!Open(disk, 0)' = "ok"
                    /\ \/ DurableMeta' = DurableMeta
                       \/ \E slot \in Slots, state \in SlotStates, image \in Images,
                             attempts \in {0, Attempts} :
                             DurableMeta' \in Transitions(DurableMeta, slot, state, image, attempts)
  BY ZenonT(30) DEF LegalMove
<1>1. DiskCell # Blank /\ DurableMeta = DiskCell.val.meta
  BY ZenonT(30) DEF InstallInv, View, DurableMeta
<1>2. DiskCell' # Blank /\ (DiskCell' = DiskCell \/ Follows(DiskCell', DiskCell))
  BY <1>1, DurableMoves, ZenonT(30) DEF InstallInv, CallerInv, HistoryInv
<1>3. Journal!Open(disk, 0)' = "ok" /\ DurableMeta' = DiskCell'.val.meta
  BY <1>2, ZenonT(30) DEF InstallInv, View, DurableMeta
<1>4. CASE DiskCell' = DiskCell
  BY <1>1, <1>3, <1>4, ZenonT(30)
<1>5. CASE Follows(DiskCell', DiskCell)
  BY <1>1, <1>3, <1>5, ZenonT(30) DEF Follows
<1> QED
  BY <1>2, <1>3, <1>4, <1>5, ZenonT(30)
-----------------------------------------------------------------------------
(* The journal of the install is the one TransactionJournalProofs is about. *)

JP == INSTANCE TransactionJournalProofs WITH Value <- Contents

\* Its invariants.
JournalInv == JP!IInv /\ JP!RInv

\* What the media can hold, by either name.
LEMMA SameSets ==
    /\ Journal!Digests = JP!Digests
    /\ Journal!Records = JP!Records
    /\ Journal!Selectors = JP!Selectors
<1>1. Journal!Digests = JP!Digests
  BY ZenonT(30) DEF Journal!Digests, JP!Digests, Journal!Generations, JP!Generations
<1> QED
  BY <1>1, ZenonT(30) DEF Journal!Records, JP!Records, Journal!Selectors, JP!Selectors,
         Journal!Generations, JP!Generations, Journal!Slots, JP!Slots

\* What that module assumes of its constants.
LEMMA JournalAssumptions ==
    /\ MaxGeneration \in Nat \ {0}
    /\ Blank # Torn /\ Blank \notin Contents /\ Torn \notin Contents
    /\ \A bytes \in {Blank, Torn} :
          bytes \notin JP!Records /\ bytes \notin JP!Selectors /\ bytes \notin JP!Digests
    /\ /\ CacheModel \in {"reference", "subset"}
       /\ RetryWithoutReset \in BOOLEAN
       /\ CacheModel = "subset" => ~RetryWithoutReset
  BY SameSets, MetadataGenerationAssumption, BytesAssumption, DeviceAssumption, ZenonT(60)

\* What open returns, by either name.
LEMMA SameOpen ==
    ASSUME NEW m, NEW minimum
    PROVE  /\ Journal!Open(m, minimum) = JP!Open(m, minimum)
           /\ Journal!Snapshot(m) = JP!Snapshot(m)
  BY ZenonT(60) DEF Journal!Open, Journal!Snapshot, Journal!ValidSelectors, Journal!Newest,
         Journal!SelectsRecord, Journal!Digest, Journal!Slots,
         JP!Open, JP!Snapshot, JP!ValidSelectors, JP!Newest, JP!SelectsRecord,
         JP!Digest, JP!Slots

\* The start of a commit, by either name.
LEMMA SameStart ==
    ASSUME NEW val
    PROVE  /\ Journal!Init <=> JP!Init
           /\ Journal!Initialize(val) <=> JP!Initialize(val)
           /\ Journal!Commit(val) <=> JP!Commit(val)
<1>1. Journal!Init <=> JP!Init
  BY ZenonT(30) DEF Journal!Init, JP!Init, Journal!Slots, JP!Slots, Journal!Idle, JP!Idle,
         Journal!NoJob, JP!NoJob
<1>2. Journal!Initialize(val) <=> JP!Initialize(val)
  BY SameOpen, ZenonT(30) DEF Journal!Initialize, JP!Initialize, Journal!MayCall, JP!MayCall,
         Journal!Idle, JP!Idle, Journal!NewRecord, JP!NewRecord
<1>3. Journal!Newest(media) = JP!Newest(media)
  BY ZenonT(30) DEF Journal!Newest, JP!Newest, Journal!ValidSelectors, JP!ValidSelectors,
         Journal!Slots, JP!Slots
<1>4. Journal!Commit(val) <=> JP!Commit(val)
  BY SameOpen, <1>3, ZenonT(30) DEF Journal!Commit, JP!Commit, Journal!MayCall, JP!MayCall,
         Journal!Idle, JP!Idle, Journal!NewRecord, JP!NewRecord, Journal!Digest, JP!Digest
<1> QED
  BY <1>1, <1>2, <1>4, ZenonT(30)

\* The provider calls of a commit, by either name.
LEMMA SameSteps ==
    /\ Journal!RecordWrite <=> JP!RecordWrite
    /\ Journal!RecordFlush <=> JP!RecordFlush
    /\ Journal!RecordReadback <=> JP!RecordReadback
    /\ Journal!SelectorWrite <=> JP!SelectorWrite
    /\ Journal!SelectorFlush <=> JP!SelectorFlush
    /\ Journal!Reopen <=> JP!Reopen
    /\ Journal!Fail <=> JP!Fail
    /\ Journal!ShortWrite <=> JP!ShortWrite
    /\ Journal!PowerCut <=> JP!PowerCut
<1> USE DEF Journal!Idle, JP!Idle, Journal!NoJob, JP!NoJob
<1>1. /\ Journal!RecordWrite <=> JP!RecordWrite
      /\ Journal!SelectorWrite <=> JP!SelectorWrite
  BY ZenonT(30) DEF Journal!RecordWrite, JP!RecordWrite, Journal!SelectorWrite, JP!SelectorWrite,
         Journal!Stored, JP!Stored, Journal!NewSelector, JP!NewSelector,
         Journal!Digest, JP!Digest
<1>2. /\ Journal!RecordFlush <=> JP!RecordFlush
      /\ Journal!RecordReadback <=> JP!RecordReadback
      /\ Journal!SelectorFlush <=> JP!SelectorFlush
  BY ZenonT(30) DEF Journal!RecordFlush, JP!RecordFlush, Journal!RecordReadback, JP!RecordReadback,
         Journal!SelectorFlush, JP!SelectorFlush
<1>3. Journal!Reopen <=> JP!Reopen
  BY SameOpen, ZenonT(30) DEF Journal!Reopen, JP!Reopen, Journal!Digest, JP!Digest
<1>4. /\ Journal!Fail <=> JP!Fail
      /\ Journal!ShortWrite <=> JP!ShortWrite
  BY ZenonT(30) DEF Journal!Fail, JP!Fail, Journal!ShortWrite, JP!ShortWrite
<1>5. Journal!PowerCut <=> JP!PowerCut
  BY ZenonT(30) DEF Journal!PowerCut, JP!PowerCut, Journal!Survivors, JP!Survivors,
         Journal!Slots, JP!Slots
<1> QED
  BY <1>1, <1>2, <1>3, <1>4, <1>5, ZenonT(30)

\* The register, by either name.
LEMMA SameCell ==
    /\ MediaCell = JP!Cell(media) /\ MediaCell' = JP!Cell(media')
    /\ DiskCell = JP!Cell(disk) /\ DiskCell' = JP!Cell(disk')
    /\ JobCell = JP!Digest(job.rec) /\ JobCell' = JP!Digest(job'.rec)
    /\ Cells = JP!Digests
<1>1. ASSUME NEW m PROVE Journal!Cell(m) = JP!Cell(m)
  BY SameOpen, ZenonT(30) DEF Journal!Cell, JP!Cell, Journal!Digest, JP!Digest
<1> QED
  BY <1>1, ZenonT(30) DEF MediaCell, DiskCell, JobCell, Cells, Journal!Digest, JP!Digest,
         Journal!Digests, JP!Digests, Journal!Generations, JP!Generations

-----------------------------------------------------------------------------
(* The journal gives the install what it needs.                            *)

\* Every step of the journal keeps its invariants.
LEMMA JournalKeeps ==
    ASSUME JournalInv, [JP!Next]_(JP!vars)
    PROVE  JournalInv'
<1>1. JP!IInv'
  BY JournalAssumptions, JP!StepPreserves, ZenonT(30) DEF JournalInv
<1> QED
  BY <1>1, JournalAssumptions, JP!StepMaps, ZenonT(30) DEF JournalInv

\* The register is what open returns.
LEMMA ViewHolds == JournalInv => View
<1> SUFFICES ASSUME JournalInv PROVE View
  BY ZenonT(30)
<1>1. JP!TypeOK /\ JP!JobInv /\ JP!SubsetInv
  BY ZenonT(30) DEF JournalInv, JP!IInv
<1>2. media \in JP!Media /\ disk \in JP!Media /\ acked \in Nat /\ failed \in BOOLEAN
      /\ pc \in JP!Steps \cup {JP!Idle}
  BY <1>1, JournalAssumptions, SMTT(30) DEF JP!TypeOK
<1>3. /\ MediaCell # Blank => MediaCell \in Cells
      /\ DiskCell # Blank => DiskCell \in Cells
  BY <1>2, JournalAssumptions, JP!OpenIsCell, SameCell, ZenonT(30)
<1>4. pc # "idle" => job.rec \in JP!Records
  BY <1>1, ZenonT(30) DEF JP!JobInv, JP!Jobs, JP!Idle
<1>5. pc # "idle" => JobCell \in Cells
  BY <1>4, SameCell, ZenonT(30) DEF JP!Digest, JP!Digests, JP!Records
<1>6. CacheModel = "subset" /\ pc = "idle" /\ ~failed => media = disk
  BY <1>1, ZenonT(30) DEF JP!SubsetInv, JP!Idle
<1>7. \A m \in {media, disk} :
          /\ JP!Open(m, 0) = "ok" <=> JP!Cell(m) # Blank
          /\ JP!Cell(m) # Blank => /\ JP!Cell(m).gen = JP!Snapshot(m).gen
                                   /\ JP!Cell(m).val = JP!Snapshot(m).val
          /\ \A minimum \in Nat : JP!Open(m, minimum) = "ok" => JP!Cell(m) # Blank
  BY <1>2, JournalAssumptions, JP!OpenIsCell, ZenonT(60)
<1>8. /\ Journal!Open(media, acked) = "ok" => MediaCell # Blank
      /\ Journal!Open(media, 0) = "ok" <=> MediaCell # Blank
      /\ Journal!Open(disk, 0) = "ok" <=> DiskCell # Blank
  BY <1>2, <1>7, SameOpen, SameCell, ZenonT(60)
<1>9. /\ MediaCell # Blank => /\ Journal!Snapshot(media).gen = MediaCell.gen
                              /\ Journal!Snapshot(media).val = MediaCell.val
      /\ DiskCell # Blank => /\ Journal!Snapshot(disk).gen = DiskCell.gen
                             /\ Journal!Snapshot(disk).val = DiskCell.val
  BY <1>7, SameOpen, SameCell, ZenonT(60)
<1>10. CacheModel = "subset" /\ pc = "idle" /\ ~failed => MediaCell = DiskCell
  BY <1>6, SameCell, ZenonT(60)
<1> QED
  BY <1>3, <1>5, <1>8, <1>9, <1>10, ZenonT(60) DEF View

\* initialize starts on an empty register, and commit_record on its value.
LEMMA StartEffectHolds == JournalInv => StartEffect
<1> SUFFICES ASSUME JournalInv, NEW val \in Contents,
                    Journal!Initialize(val) \/ Journal!Commit(val)
             PROVE  /\ SameCells
                    /\ pc = "idle" /\ pc' = "record_write"
                    /\ failed' = failed
                    /\ CacheModel = "subset" => ~failed
                    /\ Journal!Initialize(val) => MediaCell = Blank /\ JobCell' = [gen |-> 1, val |-> val]
                    /\ Journal!Commit(val) => /\ MediaCell # Blank
                                              /\ JobCell' = [gen |-> MediaCell.gen + 1, val |-> val]
  BY ZenonT(30) DEF StartEffect
<1>1. JP!Initialize(val) \/ JP!Commit(val)
  BY SameStart, ZenonT(30)
<1>3. /\ media' = media /\ disk' = disk /\ failed' = failed
      /\ pc = "idle" /\ pc' = "record_write" /\ (failed => RetryWithoutReset)
  BY <1>1, ZenonT(30) DEF JP!Initialize, JP!Commit, JP!MayCall, JP!Idle
<1>4. SameCells
  BY <1>3, SameCell, ZenonT(30) DEF SameCells
<1>5. /\ JP!Initialize(val) => /\ JP!Cell(media) = Blank
                               /\ JP!Digest(job'.rec) = [gen |-> 1, val |-> val]
      /\ JP!Commit(val) => /\ JP!Cell(media) # Blank
                           /\ JP!Digest(job'.rec) = [gen |-> JP!Cell(media).gen + 1, val |-> val]
  BY JournalAssumptions, JP!StartAndEnd, ZenonT(30) DEF JournalInv
<1> QED
  BY <1>3, <1>4, <1>5, SameStart, DeviceAssumption, SameCell, ZenonT(30)

\* Only the selector write changes the value, from the durable one to the job's.
LEMMA WriteEffectHolds == JournalInv => WriteEffect
<1> SUFFICES ASSUME JournalInv,
                    Journal!RecordWrite \/ Journal!RecordReadback \/ Journal!SelectorWrite
             PROVE  /\ DiskCell' = DiskCell /\ JobCell' = JobCell /\ failed' = failed
                    /\ pc \in BeforeSelector /\ pc' # "idle"
                    /\ MediaCell' = MediaCell \/ (MediaCell' = JobCell /\ MediaCell = DiskCell)
                    /\ pc' \in BeforeSelector => MediaCell' = MediaCell
  BY ZenonT(30) DEF WriteEffect
<1>1. JP!RecordWrite \/ JP!RecordReadback \/ JP!SelectorWrite
  BY SameSteps, ZenonT(30)
<1>2. JournalInv'
  BY <1>1, JournalKeeps, ZenonT(30) DEF JP!Next, JP!CommitStep
<1>3. /\ disk' = disk /\ job' = job /\ failed' = failed
      /\ \/ JP!RecordWrite /\ pc = "record_write" /\ pc' = "record_flush"
         \/ media' = media /\ pc = "record_readback" /\ pc' = "selector_write"
         \/ JP!SelectorWrite /\ pc = "selector_write" /\ pc' = "selector_flush"
  BY <1>1, ZenonT(30) DEF JP!RecordWrite, JP!RecordReadback, JP!SelectorWrite
<1>4. /\ JP!RecordWrite => JP!Cell(media') = JP!Cell(media)
      /\ JP!SelectorWrite => /\ JP!Cell(media') \in {JP!Cell(media), JP!Digest(job.rec)}
                             /\ JP!Cell(disk) = JP!Cell(media)
  BY <1>2, JournalAssumptions, JP!CellSteps, ZenonT(30) DEF JournalInv
<1>5. DiskCell' = DiskCell /\ JobCell' = JobCell
  BY <1>3, SameCell, ZenonT(30)
<1>6. /\ MediaCell' = MediaCell \/ (MediaCell' = JobCell /\ MediaCell = DiskCell)
      /\ pc' \in BeforeSelector => MediaCell' = MediaCell
  BY <1>3, <1>4, SameCell, ZenonT(30) DEF BeforeSelector
<1> QED
  BY <1>3, <1>5, <1>6, ZenonT(30) DEF BeforeSelector

\* A flush makes the visible value durable.
LEMMA FlushEffectHolds == JournalInv => FlushEffect
<1> SUFFICES ASSUME JournalInv, Journal!RecordFlush \/ Journal!SelectorFlush
             PROVE  /\ DiskCell' = MediaCell /\ MediaCell' = MediaCell
                    /\ JobCell' = JobCell /\ failed' = failed
                    /\ pc # "idle" /\ pc' # "idle"
                    /\ pc' \in BeforeSelector => pc \in BeforeSelector
  BY ZenonT(30) DEF FlushEffect
<1>1. JP!RecordFlush \/ JP!SelectorFlush
  BY SameSteps, ZenonT(30)
<1>3. /\ disk' = media /\ media' = media /\ job' = job /\ failed' = failed
      /\ \/ pc = "record_flush" /\ pc' = "record_readback"
         \/ pc = "selector_flush" /\ pc' = "reopen"
  BY <1>1, ZenonT(30) DEF JP!RecordFlush, JP!SelectorFlush
<1> QED
  BY <1>3, SameCell, ZenonT(30) DEF BeforeSelector

\* commit_record returns OK with the value it was given.
LEMMA ReopenEffectHolds == JournalInv => ReopenEffect
<1> SUFFICES ASSUME JournalInv, Journal!Reopen
             PROVE  /\ SameCells /\ failed' = failed
                    /\ pc # "idle" /\ pc' = "idle"
                    /\ MediaCell = JobCell /\ MediaCell # Blank
  BY ZenonT(30) DEF ReopenEffect
<1>1. JP!Reopen
  BY SameSteps, ZenonT(30)
<1>3. media' = media /\ disk' = disk /\ failed' = failed /\ pc = "reopen" /\ pc' = "idle"
  BY <1>1, ZenonT(30) DEF JP!Reopen, JP!Idle
<1>4. JP!Cell(media) = JP!Digest(job.rec) /\ JP!Cell(media) # Blank
  BY <1>1, JournalAssumptions, JP!StartAndEnd, ZenonT(60) DEF JournalInv
<1> QED
  BY <1>3, <1>4, SameCell, ZenonT(30) DEF SameCells

\* A commit that fails leaves the value as it was, or its own unflushed.
LEMMA FailEffectHolds == JournalInv => FailEffect
<1> SUFFICES ASSUME JournalInv, Journal!Fail \/ Journal!ShortWrite
             PROVE  /\ DiskCell' = DiskCell
                    /\ pc # "idle" /\ pc' = "idle"
                    /\ \/ MediaCell' = MediaCell
                       \/ MediaCell' = JobCell /\ MediaCell = DiskCell /\ pc \in BeforeSelector
  BY ZenonT(30) DEF FailEffect
<1>1. JP!Fail \/ JP!ShortWrite
  BY SameSteps, ZenonT(30)
<1>2. JournalInv'
  BY <1>1, JournalKeeps, ZenonT(30) DEF JP!Next
<1>3. /\ disk' = disk /\ pc' = "idle" /\ pc # "idle"
      /\ \/ media' = media
         \/ JP!ShortWrite /\ pc \in {"record_write", "selector_write"}
  BY <1>1, ZenonT(30) DEF JP!Fail, JP!ShortWrite, JP!Idle
<1>4. /\ JP!ShortWrite /\ pc = "record_write" => JP!Cell(media') = JP!Cell(media)
      /\ JP!ShortWrite /\ pc = "selector_write" =>
            /\ JP!Cell(media') \in {JP!Cell(media), JP!Digest(job.rec)}
            /\ JP!Cell(disk) = JP!Cell(media)
  BY <1>2, JournalAssumptions, JP!CellSteps, ZenonT(30) DEF JournalInv
<1>5. DiskCell' = DiskCell
  BY <1>3, SameCell, ZenonT(30)
<1>6. media' = media => MediaCell' = MediaCell
  BY SameCell, ZenonT(60)
<1>7. JP!ShortWrite /\ pc \in {"record_write", "selector_write"} =>
          \/ MediaCell' = MediaCell
          \/ MediaCell' = JobCell /\ MediaCell = DiskCell /\ pc \in BeforeSelector
  BY <1>4, SameCell, ZenonT(60) DEF BeforeSelector
<1> QED
  BY <1>3, <1>5, <1>6, <1>7, ZenonT(60)

\* A power cut leaves the visible or the durable value, and the durable one
\* on a device that keeps only what was flushed.
LEMMA CutEffectHolds == JournalInv => CutEffect
<1> SUFFICES ASSUME JournalInv, Journal!PowerCut
             PROVE  /\ MediaCell' = DiskCell'
                    /\ DiskCell' \in {MediaCell, DiskCell}
                    /\ CacheModel = "reference" => DiskCell' = DiskCell
                    /\ pc' = "idle"
  BY ZenonT(30) DEF CutEffect
<1>1. JP!PowerCut
  BY SameSteps, ZenonT(30)
<1>2. JournalInv'
  BY <1>1, JournalKeeps, ZenonT(30) DEF JP!Next
<1>3. /\ JP!Cell(disk') \in {JP!Cell(media), JP!Cell(disk)} /\ media' = disk'
      /\ CacheModel = "reference" => disk' = disk
  BY <1>1, <1>2, JournalAssumptions, JP!CellSteps, ZenonT(30) DEF JournalInv
<1>4. pc' = "idle"
  BY <1>1, ZenonT(30) DEF JP!PowerCut, JP!Idle
<1> QED
  BY <1>3, <1>4, SameCell, ZenonT(30)

\* Together.
LEMMA EffectsHold == JournalInv => JournalEffects
  BY StartEffectHolds, WriteEffectHolds, FlushEffectHolds, ReopenEffectHolds,
     FailEffectHolds, CutEffectHolds, ZenonT(30) DEF JournalEffects

\* The install keeps the invariants of the journal.
LEMMA JournalStep ==
    ASSUME JournalInv, InstallInv, [Next]_vars
    PROVE  JournalInv'
<1>1. CASE CallerMove
  BY <1>1, SameCell, JournalAssumptions, JP!CallerSteps, ZenonT(60) DEF JournalInv, CallerMove, JP!Idle
<1>2. CASE UNCHANGED journalVars
  BY <1>2, JournalKeeps, ZenonT(30) DEF journalVars, JP!vars
<1>3. ASSUME NEW val \in Contents, Journal!Initialize(val) \/ Journal!Commit(val)
      PROVE  JournalInv'
  BY <1>3, SameStart, JournalKeeps, ZenonT(30) DEF JP!Next
<1>4. CASE \/ Journal!RecordWrite \/ Journal!RecordFlush \/ Journal!RecordReadback
           \/ Journal!SelectorWrite \/ Journal!SelectorFlush \/ Journal!Reopen
           \/ Journal!Fail \/ Journal!ShortWrite \/ Journal!PowerCut
  BY <1>4, SameSteps, JournalKeeps, ZenonT(30) DEF JP!Next, JP!CommitStep
<1> QED
  BY <1>1, <1>2, <1>3, <1>4, JournalMoves, ZenonT(30)

-----------------------------------------------------------------------------
(* Theorems.                                                               *)

\* The journal of a fresh device is in its initial state.
LEMMA InitKeeps == Init => JournalInv /\ CallerInv
<1>1. Init => JP!Init
  BY SameStart, ZenonT(30) DEF Init
<1>2. Init => JournalInv
  BY <1>1, JournalAssumptions, JP!InitEstablishes, JP!InitMaps, ZenonT(30) DEF JournalInv
<1> QED
  BY <1>2, InitCaller, ZenonT(30)

\* The two invariants are inductive together.
LEMMA InstallInvariance == Spec => [](JournalInv /\ CallerInv)
<1>1. JournalInv /\ CallerInv => InstallInv /\ JournalEffects
  BY ViewHolds, EffectsHold, ZenonT(30) DEF InstallInv
<1>2. JournalInv /\ CallerInv /\ [Next]_vars => JournalInv' /\ CallerInv'
  BY <1>1, JournalStep, CallerStep, ZenonT(30)
<1> QED
  BY InitKeeps, <1>2, PTL DEF Spec

\* Journal, component ranges and the call in progress stay within their
\* types: no record, of any resumed or failed call, leaves its encoding.
THEOREM InstallTypes == Spec => []TypeOK
<1>1. JournalInv /\ CallerInv => TypeOK
  <2> SUFFICES ASSUME JournalInv, CallerInv PROVE TypeOK
    BY ZenonT(30)
  <2>1. JP!TypeOK
    BY ZenonT(30) DEF JournalInv, JP!IInv
  <2>2. Journal!Media = JP!Media /\ Journal!Jobs = JP!Jobs
    BY SameSets, ZenonT(60) DEF Journal!Media, JP!Media, Journal!Jobs, JP!Jobs,
       Journal!Slots, JP!Slots
  <2>3. Journal!TypeOK
    BY <2>1, <2>2, ZenonT(60) DEF Journal!TypeOK, JP!TypeOK, Journal!Steps, JP!Steps,
       Journal!Idle, JP!Idle, Journal!NoJob, JP!NoJob
  <2> QED
    BY <2>3, ZenonT(30) DEF CallerInv, RangeInv, TypeOK
<1> QED
  BY <1>1, InstallInvariance, PTL

\* Whatever call failed, however the install was resumed and whatever a power
\* cut left, a slot that a readable record calls VERIFIED, PENDING or CONFIRMED
\* holds every component of its image (install_transactionally).
THEOREM PayloadIsVouchedFor == Spec => []PayloadMatchesState
<1>1. JournalInv /\ CallerInv => PayloadMatchesState
  BY ViewHolds, RecordsAreGood, ZenonT(30) DEF InstallInv
<1> QED
  BY <1>1, InstallInvariance, PTL

\* Every record that open can return carries valid metadata of its own
\* generation and names the slot that was changed last (commit_record).
THEOREM RecordsCohere == Spec => []RecordsAreCoherent
<1>1. JournalInv /\ CallerInv => RecordsAreCoherent
  BY ViewHolds, RecordsAreGood, ZenonT(30) DEF InstallInv
<1> QED
  BY <1>1, InstallInvariance, PTL

\* The durable slot metadata only moves one legal edge at a time: no power
\* cut, failed call, retry or resumed install skips, repeats or undoes a
\* transition, nor makes the journal unreadable.
THEOREM DurableMetadataMovesLegally == Spec => DurableHistoryIsLegal
<1>1. JournalInv /\ CallerInv => View /\ InstallInv /\ JournalEffects
  BY ViewHolds, EffectsHold, ZenonT(30) DEF InstallInv
<1>2. JournalInv /\ CallerInv /\ InstallInv' /\ [Next]_vars => [LegalMove]_disk
  BY <1>1, DurableStep, ZenonT(30)
<1> QED
  BY <1>1, <1>2, InstallInvariance, PTL DEF Spec, DurableHistoryIsLegal, LegalMove
=============================================================================
