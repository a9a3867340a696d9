----------------------- MODULE ProtectedJournalProofs -----------------------
(***************************************************************************)
(* ProtectedJournal: types, the monotonic floor and the refinement of      *)
(* DurableRegister, for all values of the constants and both cache models. *)
(***************************************************************************)
EXTENDS ProtectedJournal, TLAPS

\* Slot n holds the committed record and the other slot nothing that open
\* could take for it: an older selector at most, and no record of the same
\* generation.
Live(m, n) ==
    /\ m.rec[n] \in Records /\ Decodes(m.rec[n].val)
    /\ m.sel[n] = [slot |-> n, gen |-> m.rec[n].gen, digest |-> m.rec[n]]
    /\ m.sel[1 - n] \notin Undecodable => m.sel[1 - n].gen < m.rec[n].gen
    /\ m.rec[1 - n] \notin Undecodable => m.rec[1 - n].gen # m.rec[n].gen

\* No commit was completed here.
Fresh(m) == m.sel[0] \in Undecodable /\ m.sel[1] = Blank /\ m.rec[1] = Blank

\* What an operation may do to the floor and to the attempts of a trial.
FloorStep(old, new) ==
    /\ \/ new.floor = old.floor
       \/ /\ old.kind = "TRIAL"
          /\ new.floor = old.pending
          /\ new.floor = old.floor + 1
    /\ old.kind = "TRIAL" /\ new.kind = "TRIAL" => new.attempts <= old.attempts

BeforeSelector == {"record_write", "record_flush", "record_readback", "selector_write"}

\* commit_record replaces the record that is live in the other slot.
CommitJob ==
    /\ Live(media, 1 - job.slot)
    /\ job.rec.gen = media.rec[1 - job.slot].gen + 1
    /\ FloorStep(media.rec[1 - job.slot].val, job.rec.val)

\* commit_record provisions an empty domain.
InitJob == Fresh(media) /\ media.sel[0] = Blank /\ job.slot = 0 /\ job.rec.gen = 1

JobInv ==
    pc # Idle =>
        /\ job \in Jobs /\ Decodes(job.rec.val)
        /\ pc \in BeforeSelector => CommitJob \/ InitJob
        /\ pc = "selector_write" => media.rec[job.slot] = job.rec

\* The readable and the durable contents of a domain are the same commit or
\* the readable one is its successor.
MediaInv ==
    /\ \A m \in {media, disk} : Fresh(m) \/ \E n \in Slots : Live(m, n)
    /\ Fresh(disk) => media.sel[1] = Blank
    /\ \A k \in Slots : Live(disk, k) =>
          \E n \in Slots : /\ Live(media, n)
                           /\ \/ media.rec[n] = disk.rec[k]
                              \/ FloorStep(disk.rec[k].val, media.rec[n].val)

SyncedInv == pc \in {"record_readback", "selector_write", "reopen"} => media = disk

\* Where every unflushed write may be lost or torn: nothing is unflushed when
\* a call may start, and otherwise only one object is, in the slot that is
\* not live.
OneDirtyObject ==
    \/ media = disk
    \/ media.sel = disk.sel /\ \A k \in Slots : Live(disk, k) => media.rec[k] = disk.rec[k]
    \/ media.rec = disk.rec /\ \A k \in Slots : Live(disk, k) =>
          /\ media.sel[k] = disk.sel[k]
          /\ media.sel[1 - k] = Torn \/ Live(media, 1 - k)

SubsetInv ==
    CacheModel = "subset" =>
        /\ pc = "record_write" \/ (pc = Idle /\ ~failed) => media = disk
        /\ OneDirtyObject

IInv == TypeOK /\ JobInv /\ MediaInv /\ SyncedInv /\ SubsetInv

-----------------------------------------------------------------------------
(* The operations.                                                         *)

\* A state that an operation commits.
Sound(st, next) == next \in States /\ Decodes(next) /\ FloorStep(st, next)

\* begin_trial starts from a confirmed state and leaves its floor.
LEMMA BeginTrialIsSound ==
    ASSUME NEW st \in States, Decodes(st), NEW candidate, NEW attempts \in 0 .. MaxTrialAttempts,
           NEW binding \in Bindings \cup {NoBinding}, NEW aseq \in 0 .. MaxAttemptSequence,
           NEW next \in BeginTrial(st, candidate, attempts, binding, aseq)
    PROVE  Sound(st, next)
<1>1. /\ next = Trial(st.floor, attempts, binding, aseq)
      /\ st.kind = "CONFIRMED" /\ st.floor < MaxSequence
      /\ binding = NoBinding <=> aseq = 0
  BY ZenonT(30) DEF BeginTrial
<1>2. st.floor \in 0 .. MaxSequence /\ st.floor + 1 \in 0 .. MaxSequence
  BY <1>1, SequenceAssumption DEF States
<1>3. next \in States
  BY <1>1, <1>2, ZenonT(30) DEF Trial, States
<1> QED
  BY <1>1, <1>2, <1>3 DEF Trial, Sound, Decodes, FloorStep

\* rebind_trial_attempt keeps the attempts of the trial.
LEMMA RebindIsSound ==
    ASSUME NEW st \in States, Decodes(st), NEW pending,
           NEW binding \in Bindings, NEW aseq \in 1 .. MaxAttemptSequence,
           NEW next \in RebindTrialAttempt(st, pending, binding, aseq)
    PROVE  Sound(st, next)
<1>1. /\ next = Trial(st.floor, st.attempts, binding, aseq)
      /\ st.kind = "TRIAL" /\ binding # NoBinding
  BY ZenonT(30) DEF RebindTrialAttempt
<1>2. /\ st.floor \in 0 .. MaxSequence /\ st.floor < MaxSequence
      /\ st.floor + 1 \in 0 .. MaxSequence
      /\ st.attempts \in 0 .. MaxTrialAttempts
  BY <1>1, SequenceAssumption, ZenonT(30) DEF States, Decodes
<1>3. next \in States
  BY <1>1, <1>2, SequenceAssumption DEF Trial, States
<1> QED
  BY <1>1, <1>2, <1>3, SequenceAssumption DEF Trial, Sound, Decodes, FloorStep

\* consume_trial_attempt takes one attempt.
LEMMA ConsumeIsSound ==
    ASSUME NEW st \in States, Decodes(st), NEW pending,
           NEW next \in ConsumeTrialAttempt(st, pending)
    PROVE  Sound(st, next)
<1>1. /\ next = [st EXCEPT !.attempts = st.attempts - 1]
      /\ st.kind = "TRIAL" /\ st.attempts # 0
  BY ZenonT(30) DEF ConsumeTrialAttempt
<1>2. st.attempts \in 0 .. MaxTrialAttempts /\ st.attempts - 1 \in 0 .. MaxTrialAttempts
  BY <1>1, SequenceAssumption DEF States
<1>3. /\ next.kind = st.kind /\ next.floor = st.floor /\ next.pending = st.pending
      /\ next.attempts = st.attempts - 1 /\ next.aseq = st.aseq /\ next.binding = st.binding
  BY <1>1, ZenonT(30) DEF States
<1>4. next \in States
  BY <1>1, <1>2, ZenonT(30) DEF States
<1> QED
  BY <1>1, <1>2, <1>3, <1>4, SequenceAssumption DEF Sound, Decodes, FloorStep

\* confirm and confirm_bound raise the floor to the sequence on trial.
LEMMA ConfirmIsSound ==
    ASSUME NEW st \in States, Decodes(st), NEW pending \in 0 .. MaxSequence, NEW next,
           \/ next \in ConfirmUnbound(st, pending)
           \/ \E binding \in Bindings, aseq \in 1 .. MaxAttemptSequence :
                 next \in ConfirmBound(st, pending, binding, aseq)
    PROVE  Sound(st, next)
<1>1. /\ st.kind = "TRIAL" /\ st.pending = pending
      /\ \E binding \in Bindings \cup {NoBinding}, aseq \in 0 .. MaxAttemptSequence :
            /\ next = Confirmed(pending, binding, aseq)
            /\ binding = NoBinding <=> aseq = 0
  <2>1. CASE next \in ConfirmUnbound(st, pending)
    BY <2>1, SequenceAssumption DEF ConfirmUnbound
  <2>2. ASSUME NEW binding \in Bindings, NEW aseq \in 1 .. MaxAttemptSequence,
               next \in ConfirmBound(st, pending, binding, aseq)
        PROVE  /\ st.kind = "TRIAL" /\ st.pending = pending
               /\ next = Confirmed(pending, binding, aseq)
               /\ binding # NoBinding /\ aseq # 0 /\ aseq \in 0 .. MaxAttemptSequence
    BY <2>2, SequenceAssumption DEF ConfirmBound
  <2> QED
    BY <2>1, <2>2, ZenonT(30)
<1>2. PICK binding \in Bindings \cup {NoBinding}, aseq \in 0 .. MaxAttemptSequence :
          /\ next = Confirmed(pending, binding, aseq)
          /\ binding = NoBinding <=> aseq = 0
  BY <1>1, ZenonT(30)
<1>3. pending = st.floor + 1
  BY <1>1, ZenonT(30) DEF Decodes
<1>4. next \in States
  BY <1>2, SequenceAssumption DEF Confirmed, States
<1> QED
  BY <1>1, <1>2, <1>3, <1>4, ZenonT(30) DEF Confirmed, Sound, Decodes, FloorStep

\* fail_trial goes back to the floor.
LEMMA FailIsSound ==
    ASSUME NEW st \in States, Decodes(st), NEW next \in FailTrial(st)
    PROVE  Sound(st, next)
<1>1. next = Confirmed(st.floor, st.binding, st.aseq) /\ st.kind = "TRIAL"
  BY ZenonT(30) DEF FailTrial
<1>2. next \in States
  BY <1>1, SequenceAssumption DEF Confirmed, States
<1> QED
  BY <1>1, <1>2, ZenonT(30) DEF Confirmed, Sound, Decodes, FloorStep

-----------------------------------------------------------------------------
(* What open sees.                                                         *)

\* The other slot.
LEMMA OtherSlot ==
    ASSUME NEW i \in Slots
    PROVE  /\ 1 - i \in Slots /\ 1 - i # i /\ 1 - (1 - i) = i
           /\ \A j \in Slots : j = i \/ j = 1 - i
  BY DEF Slots

\* Records and selectors decode.
LEMMA ObjectsDecode ==
    /\ \A r \in Records : r \notin Undecodable /\ r.gen \in Nat
    /\ \A s \in Selectors : s \notin Undecodable /\ s.gen \in Nat
  BY ObjectAssumption DEF Records, Selectors

\* open returns the record of the live slot.
LEMMA OpenOfLive ==
    ASSUME NEW m \in Media, NEW n \in Slots, Live(m, n)
    PROVE  /\ Open(m) = "ok" /\ SelectedSlot(m) = n
           /\ Snapshot(m) = m.rec[n]
           /\ Cell(m) = m.rec[n] /\ Cell(m) # Blank
           /\ m.rec[n] \in Records /\ m.rec[n].val \in States /\ m.rec[n].gen \in Nat
           /\ m.sel[n] \in Selectors
<1>1. /\ m.rec[n] \in Records /\ m.rec[n].val \in States /\ m.rec[n].gen \in Nat
      /\ m.rec[n] \notin Undecodable /\ m.rec[n].gen \in 1 .. MaxGeneration
  BY ObjectsDecode, ZenonT(30) DEF Live, Records
<1>2. /\ m.sel[n] \in Selectors /\ m.sel[n] \notin Undecodable
      /\ m.sel[n].slot = n /\ m.sel[n].gen = m.rec[n].gen /\ m.sel[n].digest = m.rec[n]
  <2>1. m.sel[n] \in Selectors
    BY <1>1 DEF Live, Selectors
  <2> QED
    BY <2>1, ObjectsDecode DEF Live
<1>3. /\ m.sel[1 - n] \notin Undecodable => /\ m.sel[1 - n].gen < m.sel[n].gen
                                            /\ m.sel[1 - n].gen \in Nat
      /\ m.rec[1 - n] \notin Undecodable => m.rec[1 - n].gen # m.rec[n].gen
  <2>1. m.sel[1 - n] \notin Undecodable => m.sel[1 - n] \in Selectors
    BY OtherSlot, ZenonT(30) DEF Media, Undecodable
  <2> QED
    BY <1>2, <2>1, ObjectsDecode, ZenonT(30) DEF Live
<1>4. DecodedSelectors(m) = IF m.sel[1 - n] \in Undecodable THEN {n} ELSE Slots
  BY <1>2, OtherSlot DEF DecodedSelectors
<1>5. SelectedSelector(m) = n
  BY <1>2, <1>3, <1>4, <1>1 DEF SelectedSelector, Slots
<1>6. SelectedSlot(m) = n /\ Snapshot(m) = m.rec[n]
  BY <1>2, <1>5, ZenonT(30) DEF SelectedSlot, Snapshot
<1>7. Open(m) = "ok"
  <2>1. DecodedSelectors(m) # {}
    BY <1>4, ZenonT(30) DEF Slots
  <2>2. ~(DecodedSelectors(m) = Slots /\ m.sel[0].gen = m.sel[1].gen /\ m.sel[0] # m.sel[1])
    BY <1>1, <1>2, <1>3, <1>4 DEF Slots
  <2>3. RecordDecodes(m, n)
    BY <1>1, ZenonT(30) DEF RecordDecodes, Live
  <2>4. ~(RecordDecodes(m, 1 - n) /\ m.rec[1 - n].gen = m.rec[n].gen)
    BY <1>3, ZenonT(30) DEF RecordDecodes
  <2> QED
    BY <1>2, <1>5, <1>6, <2>1, <2>2, <2>3, <2>4, ZenonT(30) DEF Open
<1> QED
  BY <1>1, <1>2, <1>6, <1>7, ZenonT(30) DEF Cell, Undecodable

\* open finds nothing in a domain without a commit.
LEMMA OpenOfFresh ==
    ASSUME NEW m, Fresh(m)
    PROVE  /\ Open(m) # "ok" /\ Cell(m) = Blank
           /\ Open(m) = "uninitialized" => m.sel[0] = Blank
           /\ \A n \in Slots : ~Live(m, n)
<1>1. DecodedSelectors(m) = {}
  BY ZenonT(30) DEF DecodedSelectors, Fresh, Undecodable, Slots
<1>2. Open(m) = IF \A i \in Slots : m.sel[i] = Blank THEN "uninitialized" ELSE "corrupt"
  BY <1>1, ZenonT(30) DEF Open
<1>3. ASSUME NEW n \in Slots, Live(m, n) PROVE FALSE
  <2>1. m.sel[n] \in Selectors
    BY <1>3 DEF Live, Selectors, Records
  <2> QED
    BY <2>1, ObjectsDecode, ZenonT(30) DEF Fresh, Undecodable, Slots
<1> QED
  BY <1>2, <1>3, ZenonT(30) DEF Cell, Slots

\* At most one slot is live.
LEMMA LiveIsUnique ==
    ASSUME NEW m \in Media, NEW n \in Slots, NEW k \in Slots, Live(m, n), Live(m, k)
    PROVE  n = k
  BY OpenOfLive

-----------------------------------------------------------------------------
(* Writes and power cuts.                                                  *)

PutRecord(m, i, bytes) == [m EXCEPT !.rec[i] = bytes]
PutSelector(m, i, bytes) == [m EXCEPT !.sel[i] = bytes]
SelectorOf(i, r) == [slot |-> i, gen |-> r.gen, digest |-> r]

\* The record stands in its slot and follows the live one, or is the first.
Succeeds(m, i, r) ==
    /\ m.rec[i] = r /\ Decodes(r.val)
    /\ \/ Live(m, 1 - i) /\ r.gen = m.rec[1 - i].gen + 1
       \/ Fresh(m) /\ i = 0

\* What writing a record does to the domain.
RecordWritten(m, w, i, bytes) ==
    /\ w \in Media /\ w.sel = m.sel
    /\ w.rec[i] = bytes /\ w.rec[1 - i] = m.rec[1 - i]
    /\ Live(m, 1 - i) /\ (bytes = Torn \/ bytes.gen # m.rec[1 - i].gen) => Live(w, 1 - i)
    /\ Fresh(m) /\ i = 0 => Fresh(w)

\* What writing a selector does to the domain.
SelectorWritten(m, w, i, bytes) ==
    /\ w \in Media /\ w.rec = m.rec
    /\ w.sel[i] = bytes /\ w.sel[1 - i] = m.sel[1 - i]
    /\ bytes # Torn => Live(w, i)
    /\ bytes = Torn /\ Live(m, 1 - i) => Live(w, 1 - i)
    /\ bytes = Torn /\ Fresh(m) /\ i = 0 => Fresh(w)

\* Writing a record, completely or not, into a slot that is not live.
LEMMA RecordWriteKeeps ==
    ASSUME NEW m \in Media, NEW i \in Slots, NEW bytes \in Records \cup {Torn},
           NEW w, w = PutRecord(m, i, bytes)
    PROVE  RecordWritten(m, w, i, bytes)
<1>1. /\ w \in Media /\ w.sel = m.sel
      /\ w.rec[i] = bytes /\ w.rec[1 - i] = m.rec[1 - i]
  BY OtherSlot, ZenonT(30) DEF Media, PutRecord
<1>2. ASSUME Live(m, 1 - i), bytes = Torn \/ bytes.gen # m.rec[1 - i].gen
      PROVE  Live(w, 1 - i)
  BY <1>1, <1>2, OtherSlot, ZenonT(30) DEF Live, Undecodable
<1>3. ASSUME Fresh(m), i = 0 PROVE Fresh(w)
  BY <1>1, <1>3 DEF Fresh
<1> QED
  BY <1>1, <1>2, <1>3, ZenonT(30) DEF RecordWritten

\* Writing a selector, completely or not, over one that is not live.
LEMMA SelectorWriteKeeps ==
    ASSUME NEW m \in Media, NEW i \in Slots, NEW r \in Records,
           NEW bytes, bytes = SelectorOf(i, r) \/ bytes = Torn,
           NEW w, w = PutSelector(m, i, bytes),
           Succeeds(m, i, r)
    PROVE  SelectorWritten(m, w, i, bytes)
<1>1. SelectorOf(i, r) \in Selectors
  BY ZenonT(30) DEF Selectors, Records, SelectorOf
<1>2. /\ w \in Media /\ w.rec = m.rec
      /\ w.sel[i] = bytes /\ w.sel[1 - i] = m.sel[1 - i]
  BY <1>1, OtherSlot, ZenonT(30) DEF Media, PutSelector
<1>3. ASSUME bytes # Torn PROVE Live(w, i)
  <2>1. CASE Live(m, 1 - i) /\ r.gen = m.rec[1 - i].gen + 1
    <3>1. /\ m.rec[1 - i].gen \in Nat /\ m.sel[1 - i] \in Selectors
          /\ m.sel[1 - i].gen = m.rec[1 - i].gen
      BY <2>1, OtherSlot, OpenOfLive DEF Live
    <3> QED
      BY <1>2, <1>3, <2>1, <3>1 DEF Live, SelectorOf, Succeeds
  <2>2. CASE Fresh(m) /\ i = 0
    BY <1>2, <1>3, <2>2 DEF Live, Fresh, Undecodable, SelectorOf, Succeeds
  <2> QED
    BY <2>1, <2>2, ZenonT(30) DEF Succeeds
<1>4. ASSUME bytes = Torn, Live(m, 1 - i) PROVE Live(w, 1 - i)
  BY <1>2, <1>4, OtherSlot, ZenonT(30) DEF Live, Undecodable
<1>5. ASSUME bytes = Torn, Fresh(m), i = 0 PROVE Fresh(w)
  BY <1>2, <1>5 DEF Fresh, Undecodable
<1> QED
  BY <1>2, <1>3, <1>4, <1>5, ZenonT(30) DEF SelectorWritten

\* A power cut leaves every object old, new or torn; the reference model
\* leaves the old ones.
LEMMA PowerCutType ==
    ASSUME TypeOK, PowerCut
    PROVE  /\ disk' \in Media /\ media' = disk'
           /\ \A i \in Slots : /\ disk'.rec[i] \in {disk.rec[i], media.rec[i], Torn}
                               /\ disk'.sel[i] \in {disk.sel[i], media.sel[i], Torn}
                               /\ disk.rec[i] = media.rec[i] => disk'.rec[i] = disk.rec[i]
                               /\ disk.sel[i] = media.sel[i] => disk'.sel[i] = disk.sel[i]
           /\ CacheModel = "reference" => disk' = disk
<1>1. PICK r0 \in Survivors(disk.rec[0], media.rec[0]),
           r1 \in Survivors(disk.rec[1], media.rec[1]),
           s0 \in Survivors(disk.sel[0], media.sel[0]),
           s1 \in Survivors(disk.sel[1], media.sel[1]) :
           disk' = [rec |-> [i \in Slots |-> IF i = 0 THEN r0 ELSE r1],
                    sel |-> [i \in Slots |-> IF i = 0 THEN s0 ELSE s1]]
  BY ZenonT(30) DEF PowerCut
<1>2. \A old, new : /\ Survivors(old, new) \subseteq {old, new, Torn}
                    /\ CacheModel = "reference" \/ old = new => Survivors(old, new) = {old}
  BY ZenonT(30) DEF Survivors
<1>3. /\ disk'.rec = [i \in Slots |-> IF i = 0 THEN r0 ELSE r1]
      /\ disk'.sel = [i \in Slots |-> IF i = 0 THEN s0 ELSE s1]
      /\ disk'.rec[0] = r0 /\ disk'.rec[1] = r1
      /\ disk'.sel[0] = s0 /\ disk'.sel[1] = s1
  BY <1>1 DEF Slots
<1>4. \A i \in Slots : /\ disk'.rec[i] \in {disk.rec[i], media.rec[i], Torn}
                       /\ disk'.sel[i] \in {disk.sel[i], media.sel[i], Torn}
  BY <1>1, <1>2, <1>3, ZenonT(30) DEF Slots
<1>5. \A i \in Slots : /\ disk.rec[i] = media.rec[i] => disk'.rec[i] = disk.rec[i]
                       /\ disk.sel[i] = media.sel[i] => disk'.sel[i] = disk.sel[i]
  BY <1>1, <1>2, <1>3 DEF Slots
<1>6. disk' \in Media
  <2>1. \A i \in Slots : /\ disk'.rec[i] \in Records \cup {Blank, Torn}
                         /\ disk'.sel[i] \in Selectors \cup {Blank, Torn}
    BY <1>4, ZenonT(30) DEF TypeOK, Media
  <2>2. /\ disk'.rec \in [Slots -> Records \cup {Blank, Torn}]
        /\ disk'.sel \in [Slots -> Selectors \cup {Blank, Torn}]
    BY <1>3, <2>1, ZenonT(30)
  <2> QED
    BY <1>1, <2>2, ZenonT(30) DEF Media
<1>7. ASSUME CacheModel = "reference" PROVE disk' = disk
  <2>1. \A i \in Slots : disk'.rec[i] = disk.rec[i] /\ disk'.sel[i] = disk.sel[i]
    BY <1>1, <1>2, <1>3, <1>7 DEF Slots
  <2>2. disk'.rec = disk.rec /\ disk'.sel = disk.sel
    BY <1>6, <2>1 DEF TypeOK, Media
  <2> QED
    BY <1>6, <2>2 DEF TypeOK, Media
<1> QED
  BY <1>4, <1>5, <1>6, <1>7, ZenonT(30) DEF PowerCut

-----------------------------------------------------------------------------
(* The invariant is inductive, and every step is one of the register.      *)

\* The step that DurableRegister takes, if any.
Maps == [Register!Next]_(Register!vars)

\* The durable part of FloorIsMonotonic.
FloorKept ==
    \A k \in Slots : Live(disk, k) =>
        \E n \in Slots : /\ Live(disk', n)
                         /\ \/ disk'.rec[n] = disk.rec[k]
                            \/ FloorStep(disk.rec[k].val, disk'.rec[n].val)

\* A step of the journal in three respects.
Good == IInv' /\ Maps /\ FloorKept

\* The erased domain.
LEMMA InitEstablishes == Init => IInv /\ Register!Init
<1> SUFFICES ASSUME Init PROVE IInv /\ Register!Init
  BY ZenonT(30)
<1> USE DEF Init
<1>1. media \in Media
  <2>1. /\ media.rec \in [Slots -> Records \cup {Blank, Torn}]
        /\ media.sel \in [Slots -> Selectors \cup {Blank, Torn}]
    BY ZenonT(30)
  <2> QED
    BY <2>1, ZenonT(30) DEF Media
<1>2. TypeOK
  <2>1. failed \in BOOLEAN
    BY Zenon
  <2>2. acked \in 0 .. MaxGeneration
    BY ProvisionAssumption
  <2> QED
    BY <1>1, <2>1, <2>2, Zenon DEF TypeOK
<1>3. Fresh(media) /\ Fresh(disk)
  BY ZenonT(30) DEF Fresh, Undecodable, Slots
<1>4. \A k \in Slots : ~Live(disk, k)
  BY <1>3, OpenOfFresh, ZenonT(30)
<1>5. MediaInv
  BY <1>3, <1>4, ZenonT(30) DEF MediaInv, Fresh
<1>6. IInv
  BY <1>2, <1>5, ZenonT(30) DEF IInv, JobInv, SyncedInv, SubsetInv, OneDirtyObject, Idle
<1>7. Cell(media) = Blank /\ Cell(disk) = Blank
  BY <1>3, OpenOfFresh, ZenonT(30)
<1> QED
  BY <1>6, <1>7, ZenonT(30) DEF Register!Init

\* Steps that leave the contents alone.
LEMMA QuietStep ==
    ASSUME IInv, TypeOK', JobInv', SyncedInv', media' = media, disk' = disk, acked' = acked,
           CacheModel = "subset" =>
               (pc' = "record_write" \/ (pc' = Idle /\ ~failed') => media = disk)
    PROVE  Good
<1>1. MediaInv'
  BY ZenonT(60) DEF IInv, MediaInv, Fresh, Live
<1>2. OneDirtyObject => OneDirtyObject'
  BY ZenonT(60) DEF OneDirtyObject, Live
<1>3. SubsetInv'
  BY <1>2, ZenonT(30) DEF IInv, SubsetInv
<1>4. Maps
  BY ZenonT(30) DEF Maps, Register!vars
<1>5. FloorKept
  BY ZenonT(30) DEF FloorKept, Live
<1> QED
  BY <1>1, <1>3, <1>4, <1>5, ZenonT(30) DEF Good, IInv

\* An operation starts from the live record with a sound successor.
LEMMA StartGood ==
    ASSUME IInv, Opened, NEW results,
           \A next \in results : Sound(Current, next),
           Operate(results)
    PROVE  Good
<1>1. /\ media \in Media /\ pc = Idle /\ failed \in BOOLEAN /\ (failed => RetryWithoutReset)
      /\ Open(media) = "ok"
  BY ZenonT(30) DEF IInv, TypeOK, Opened, MayCall
<1>2. PICK n \in Slots : Live(media, n)
  BY <1>1, OpenOfFresh, ZenonT(30) DEF IInv, MediaInv
<1>3. /\ SelectedSlot(media) = n /\ Snapshot(media) = media.rec[n]
      /\ media.rec[n] \in Records /\ media.rec[n].gen \in Nat
  BY <1>1, <1>2, OpenOfLive, ZenonT(30)
<1>4. PICK val \in results :
          /\ job' = [rec |-> [gen |-> media.rec[n].gen + 1, val |-> val], slot |-> 1 - n]
          /\ pc' = "record_write"
          /\ media' = media /\ disk' = disk /\ failed' = failed /\ acked' = acked
          /\ media.rec[n].gen < MaxGeneration
  BY <1>3, ZenonT(30) DEF Operate, StartCommit
<1>5. Sound(media.rec[n].val, val)
  BY <1>3, <1>4, ZenonT(30) DEF Current
<1>6. /\ job'.rec = [gen |-> media.rec[n].gen + 1, val |-> val] /\ job'.slot = 1 - n
      /\ job'.rec \in Records
  BY <1>3, <1>4, <1>5, ProvisionAssumption DEF Records, Sound
<1>7. job' \in Jobs
  BY <1>2, <1>4, <1>6, OtherSlot, ZenonT(30) DEF Jobs
<1>8. CommitJob'
  <2>1. 1 - job'.slot = n
    BY <1>6, OtherSlot, ZenonT(30)
  <2>2. Live(media', n)
    BY <1>2, <1>4, ZenonT(30)
  <2> QED
    BY <1>4, <1>5, <1>6, <2>1, <2>2, ZenonT(30) DEF CommitJob, Sound
<1>9. JobInv'
  BY <1>4, <1>5, <1>6, <1>7, <1>8, ZenonT(30) DEF JobInv, Sound, Idle
<1>10. TypeOK'
  BY <1>4, <1>7, Zenon DEF IInv, TypeOK, Steps
<1>11. CacheModel = "subset" => media = disk
  BY <1>1, ProviderAssumption, ZenonT(30) DEF IInv, SubsetInv
<1>12. SyncedInv'
  BY <1>4, ZenonT(30) DEF SyncedInv
<1> QED
  BY <1>4, <1>9, <1>10, <1>11, <1>12, QuietStep, ZenonT(30)

\* ribon_protected_state_initialize starts the first commit.
LEMMA InitializeGood == ASSUME IInv, Initialize PROVE Good
<1>1. /\ media \in Media /\ pc = Idle /\ failed \in BOOLEAN /\ (failed => RetryWithoutReset)
      /\ Open(media) = "uninitialized"
  BY ZenonT(30) DEF IInv, TypeOK, Initialize, MayCall
<1>2. Fresh(media) /\ media.sel[0] = Blank
  BY <1>1, OpenOfFresh, OpenOfLive, ZenonT(30) DEF IInv, MediaInv
<1>3. /\ job' = [rec |-> [gen |-> 1, val |-> Confirmed(FirstFloor, NoBinding, 0)], slot |-> 0]
      /\ pc' = "record_write"
      /\ media' = media /\ disk' = disk /\ failed' = failed /\ acked' = acked
  BY ZenonT(30) DEF Initialize, StartCommit
<1>4. Confirmed(FirstFloor, NoBinding, 0) \in States /\ Decodes(Confirmed(FirstFloor, NoBinding, 0))
  BY ProvisionAssumption, SequenceAssumption DEF Confirmed, States, Decodes
<1>5. job' \in Jobs
  BY <1>3, <1>4, ProvisionAssumption DEF Jobs, Records, Slots
<1>6. JobInv'
  BY <1>2, <1>3, <1>4, <1>5, ZenonT(30) DEF JobInv, InitJob, Fresh, Idle
<1>7. TypeOK'
  BY <1>3, <1>5, Zenon DEF IInv, TypeOK, Steps
<1>8. CacheModel = "subset" => media = disk
  BY <1>1, ProviderAssumption, ZenonT(30) DEF IInv, SubsetInv
<1>9. SyncedInv'
  BY <1>3, ZenonT(30) DEF SyncedInv
<1> QED
  BY <1>3, <1>6, <1>7, <1>8, <1>9, QuietStep, ZenonT(30)

\* The operations on a domain that is open.
LEMMA OperationGood ==
    ASSUME IInv, BeginUnbound \/ BeginBound \/ Rebind \/ Consume \/ Confirm \/ Fail
    PROVE  Good
<1>1. Opened /\ media \in Media
  BY ZenonT(30) DEF BeginUnbound, BeginBound, Rebind, Consume, Confirm, Fail, IInv, TypeOK
<1>2. PICK n \in Slots : Live(media, n)
  BY <1>1, OpenOfFresh, ZenonT(30) DEF IInv, MediaInv, Opened
<1>3. Current \in States /\ Decodes(Current)
  BY <1>1, <1>2, OpenOfLive, ZenonT(30) DEF Current, Live
<1>4. NoBinding \in Bindings \cup {NoBinding} /\ 0 \in 0 .. MaxAttemptSequence
  BY SequenceAssumption
<1>5. CASE BeginUnbound
  <2>1. PICK candidate \in 0 .. MaxSequence, attempts \in 0 .. MaxTrialAttempts :
            Operate(BeginTrial(Current, candidate, attempts, NoBinding, 0))
    BY <1>5, ZenonT(30) DEF BeginUnbound
  <2>2. \A next \in BeginTrial(Current, candidate, attempts, NoBinding, 0) : Sound(Current, next)
    BY <1>3, <1>4, BeginTrialIsSound, ZenonT(30)
  <2> QED
    BY <1>1, <2>1, <2>2, StartGood, ZenonT(30)
<1>6. CASE BeginBound
  <2>1. PICK candidate \in 0 .. MaxSequence, attempts \in 0 .. MaxTrialAttempts,
             binding \in Bindings, aseq \in 1 .. MaxAttemptSequence :
            Operate(BeginTrial(Current, candidate, attempts, binding, aseq))
    BY <1>6, ZenonT(30) DEF BeginBound
  <2>2. aseq \in 0 .. MaxAttemptSequence /\ binding \in Bindings \cup {NoBinding}
    BY SequenceAssumption
  <2>3. \A next \in BeginTrial(Current, candidate, attempts, binding, aseq) : Sound(Current, next)
    BY <1>3, <2>2, BeginTrialIsSound, ZenonT(30)
  <2> QED
    BY <1>1, <2>1, <2>3, StartGood, ZenonT(30)
<1>7. CASE Rebind
  <2>1. PICK pending \in 0 .. MaxSequence, binding \in Bindings,
             aseq \in 1 .. MaxAttemptSequence :
            Operate(RebindTrialAttempt(Current, pending, binding, aseq))
    BY <1>7, ZenonT(30) DEF Rebind
  <2>2. \A next \in RebindTrialAttempt(Current, pending, binding, aseq) : Sound(Current, next)
    BY <1>3, RebindIsSound, ZenonT(30)
  <2> QED
    BY <1>1, <2>1, <2>2, StartGood, ZenonT(30)
<1>8. CASE Consume
  <2>1. PICK pending \in 0 .. MaxSequence : Operate(ConsumeTrialAttempt(Current, pending))
    BY <1>8, ZenonT(30) DEF Consume
  <2>2. \A next \in ConsumeTrialAttempt(Current, pending) : Sound(Current, next)
    BY <1>3, ConsumeIsSound, ZenonT(30)
  <2> QED
    BY <1>1, <2>1, <2>2, StartGood, ZenonT(30)
<1>9. CASE Confirm
  <2>1. PICK pending \in 0 .. MaxSequence :
            \/ Operate(ConfirmUnbound(Current, pending))
            \/ \E binding \in Bindings, aseq \in 1 .. MaxAttemptSequence :
                  Operate(ConfirmBound(Current, pending, binding, aseq))
    BY <1>9, ZenonT(30) DEF Confirm
  <2>2. \A next \in ConfirmUnbound(Current, pending) : Sound(Current, next)
    BY <1>3, ConfirmIsSound, ZenonT(30)
  <2>3. ASSUME NEW binding \in Bindings, NEW aseq \in 1 .. MaxAttemptSequence,
               Operate(ConfirmBound(Current, pending, binding, aseq))
        PROVE  Good
    <3>1. \A next \in ConfirmBound(Current, pending, binding, aseq) : Sound(Current, next)
      BY <1>3, ConfirmIsSound, ZenonT(30)
    <3> QED
      BY <1>1, <2>3, <3>1, StartGood, ZenonT(30)
  <2>4. CASE Operate(ConfirmUnbound(Current, pending))
    BY <1>1, <2>2, <2>4, StartGood, ZenonT(30)
  <2> QED
    BY <2>1, <2>3, <2>4, ZenonT(30)
<1>10. CASE Fail
  <2>1. \A next \in FailTrial(Current) : Sound(Current, next)
    BY <1>3, FailIsSound, ZenonT(30)
  <2> QED
    BY <1>1, <1>10, <2>1, StartGood, ZenonT(30) DEF Fail
<1> QED
  BY <1>5, <1>6, <1>7, <1>8, <1>9, <1>10, ZenonT(30)

\* A record write that completes, or that fails and may tear the record.
RecordStep(bytes) ==
    /\ pc = "record_write"
    /\ bytes \in {job.rec, Torn}
    /\ media' = PutRecord(media, job.slot, bytes)
    /\ disk' = disk /\ acked' = acked
    /\ \/ pc' = "record_flush" /\ job' = job /\ failed' = failed
       \/ pc' = Idle /\ job' = NoJob /\ failed' = TRUE

\* The record write of a commit, complete or torn, changes nothing that open
\* sees.
LEMMA RecordWriteGood ==
    ASSUME IInv, NEW bytes, RecordStep(bytes)
    PROVE  Good
<1>1. /\ media \in Media /\ disk \in Media /\ job \in Jobs /\ Decodes(job.rec.val)
      /\ job.slot \in Slots /\ job.rec \in Records /\ (CommitJob \/ InitJob)
  BY ZenonT(30) DEF RecordStep, IInv, TypeOK, JobInv, BeforeSelector, Idle, Jobs
<1>2. bytes \in Records \cup {Torn}
  BY <1>1, ZenonT(30) DEF RecordStep
<1>3. /\ media' \in Media /\ media'.sel = media.sel
      /\ media'.rec[job.slot] = bytes /\ media'.rec[1 - job.slot] = media.rec[1 - job.slot]
      /\ Live(media, 1 - job.slot) /\ (bytes = Torn \/ bytes.gen # media.rec[1 - job.slot].gen)
            => Live(media', 1 - job.slot)
      /\ Fresh(media) /\ job.slot = 0 => Fresh(media')
  <2>1. RecordWritten(media, media', job.slot, bytes)
    BY <1>1, <1>2, RecordWriteKeeps, ZenonT(30) DEF RecordStep
  <2> QED
    BY <2>1, ZenonT(30) DEF RecordWritten
<1>4. ASSUME CommitJob PROVE Live(media, 1 - job.slot) /\ Live(media', 1 - job.slot)
  <2>1. Live(media, 1 - job.slot) /\ job.rec.gen = media.rec[1 - job.slot].gen + 1
    BY <1>4, ZenonT(30) DEF CommitJob
  <2>2. media.rec[1 - job.slot].gen \in Nat
    BY <1>1, <2>1, OtherSlot, OpenOfLive, ZenonT(30)
  <2> QED
    BY <1>3, <2>1, <2>2 DEF RecordStep
<1>5. ASSUME InitJob PROVE Fresh(media) /\ Fresh(media') /\ job.slot = 0
  BY <1>3, <1>5, ZenonT(30) DEF InitJob
<1>6. TypeOK'
  <2>1. failed' \in BOOLEAN
    BY Zenon DEF RecordStep, IInv, TypeOK
  <2> QED
    BY <1>1, <1>3, <2>1, Zenon DEF RecordStep, IInv, TypeOK, Steps
<1>7. JobInv'
  <2>1. ASSUME pc' # Idle PROVE pc' = "record_flush" /\ job' = job
    BY <2>1, ZenonT(30) DEF RecordStep
  <2>2. ASSUME pc' # Idle, CommitJob PROVE CommitJob'
    BY <1>3, <1>4, <2>1, <2>2, ZenonT(30) DEF CommitJob
  <2>3. ASSUME pc' # Idle, InitJob PROVE InitJob'
    BY <1>3, <1>5, <2>1, <2>3, ZenonT(30) DEF InitJob
  <2> QED
    BY <1>1, <2>1, <2>2, <2>3, ZenonT(30) DEF JobInv
<1>8. MediaInv'
  <2>1. Fresh(media') \/ \E n \in Slots : Live(media', n)
    BY <1>1, <1>4, <1>5, OtherSlot, ZenonT(30)
  <2>2. \A k \in Slots : Live(disk, k) =>
          \E n \in Slots : /\ Live(media', n)
                           /\ \/ media'.rec[n] = disk.rec[k]
                              \/ FloorStep(disk.rec[k].val, media'.rec[n].val)
    <3> SUFFICES ASSUME NEW k \in Slots, Live(disk, k)
                 PROVE  \E n \in Slots : /\ Live(media', n)
                           /\ \/ media'.rec[n] = disk.rec[k]
                              \/ FloorStep(disk.rec[k].val, media'.rec[n].val)
      BY ZenonT(30)
    <3>1. PICK n \in Slots : /\ Live(media, n)
                             /\ \/ media.rec[n] = disk.rec[k]
                                \/ FloorStep(disk.rec[k].val, media.rec[n].val)
      BY ZenonT(30) DEF IInv, MediaInv
    <3>2. CommitJob
      BY <1>1, <1>5, <3>1, OpenOfFresh, ZenonT(30)
    <3>3. n = 1 - job.slot
      BY <1>1, <1>4, <3>1, <3>2, LiveIsUnique, OtherSlot, ZenonT(30)
    <3> QED
      BY <1>3, <1>4, <3>1, <3>2, <3>3, ZenonT(30)
  <2>3. Fresh(disk) => media'.sel[1] = Blank
    BY <1>3, ZenonT(30) DEF IInv, MediaInv
  <2> QED
    BY <2>1, <2>2, <2>3, ZenonT(30) DEF RecordStep, IInv, MediaInv
<1>9. SyncedInv'
  BY ZenonT(30) DEF RecordStep, SyncedInv, Idle
<1>10. SubsetInv'
  <2> SUFFICES ASSUME CacheModel = "subset" PROVE OneDirtyObject'
    BY ZenonT(30) DEF RecordStep, SubsetInv, Idle
  <2>1. media = disk
    BY ZenonT(30) DEF RecordStep, IInv, SubsetInv
  <2>2. ASSUME NEW k \in Slots, Live(disk, k) PROVE media'.rec[k] = disk.rec[k]
    <3>1. CommitJob
      BY <1>1, <1>5, <2>1, <2>2, OpenOfFresh, ZenonT(30)
    <3>2. k = 1 - job.slot
      BY <1>1, <1>4, <2>1, <2>2, <3>1, LiveIsUnique, OtherSlot, ZenonT(30)
    <3> QED
      BY <1>3, <2>1, <3>2, ZenonT(30)
  <2> QED
    BY <1>3, <2>1, <2>2, ZenonT(30) DEF RecordStep, OneDirtyObject
<1>11. Maps
  <2>1. Cell(media') = Cell(media)
    <3>1. CASE CommitJob
      <4>1. 1 - job.slot \in Slots
        BY <1>1, OtherSlot, ZenonT(30)
      <4>2. Cell(media) = media.rec[1 - job.slot]
        BY <1>1, <1>4, <3>1, <4>1, OpenOfLive, ZenonT(30)
      <4>3. Cell(media') = media'.rec[1 - job.slot]
        BY <1>3, <1>4, <3>1, <4>1, OpenOfLive, ZenonT(30)
      <4> QED
        BY <1>3, <4>2, <4>3, ZenonT(30)
    <3>2. CASE InitJob
      BY <1>5, <3>2, OpenOfFresh, ZenonT(30)
    <3> QED
      BY <1>1, <3>1, <3>2, ZenonT(30)
  <2> QED
    BY <2>1, ZenonT(30) DEF RecordStep, Maps, Register!vars
<1>12. FloorKept
  BY ZenonT(30) DEF RecordStep, FloorKept
<1> QED
  BY <1>6, <1>7, <1>8, <1>9, <1>10, <1>11, <1>12, ZenonT(30) DEF Good, IInv

\* A job carries the generation after the one that open sees.
LEMMA JobGeneration ==
    ASSUME media \in Media, job.slot \in Slots, CommitJob \/ InitJob
    PROVE  /\ Register!Generation(Cell(media)) \in Nat
           /\ job.rec.gen = Register!Generation(Cell(media)) + 1
<1>1. CASE CommitJob
  <2>1. 1 - job.slot \in Slots /\ Live(media, 1 - job.slot)
    BY <1>1, OtherSlot, ZenonT(30) DEF CommitJob
  <2>2. /\ Cell(media) = media.rec[1 - job.slot] /\ Cell(media) # Blank
        /\ media.rec[1 - job.slot].gen \in Nat
    BY <2>1, OpenOfLive, ZenonT(30)
  <2>3. job.rec.gen = media.rec[1 - job.slot].gen + 1
    BY <1>1, ZenonT(30) DEF CommitJob
  <2> QED
    BY <2>2, <2>3, ZenonT(30) DEF Register!Generation
<1>2. CASE InitJob
  BY <1>2, OpenOfFresh DEF InitJob, Register!Generation
<1> QED
  BY <1>1, <1>2, ZenonT(30)

\* A selector write that completes, or that fails and tears the selector.
SelectorStep(bytes) ==
    /\ pc = "selector_write"
    /\ bytes \in {SelectorOf(job.slot, job.rec), Torn}
    /\ media' = PutSelector(media, job.slot, bytes)
    /\ disk' = disk /\ acked' = acked
    /\ \/ pc' = "selector_flush" /\ job' = job /\ failed' = failed
       \/ pc' = Idle /\ job' = NoJob /\ failed' = TRUE

\* The selector write of a commit is the write of the register, or leaves
\* what open sees when it is torn.
LEMMA SelectorWriteGood ==
    ASSUME IInv, NEW bytes, SelectorStep(bytes)
    PROVE  Good
<1>1. /\ media \in Media /\ disk \in Media /\ job \in Jobs /\ Decodes(job.rec.val)
      /\ job.slot \in Slots /\ job.rec \in Records /\ (CommitJob \/ InitJob)
      /\ media = disk /\ media.rec[job.slot] = job.rec
  BY ZenonT(30) DEF SelectorStep, IInv, TypeOK, JobInv, BeforeSelector, Idle, Jobs, SyncedInv
<1>2. /\ media' \in Media /\ media'.rec = media.rec
      /\ media'.sel[job.slot] = bytes /\ media'.sel[1 - job.slot] = media.sel[1 - job.slot]
      /\ bytes # Torn => Live(media', job.slot)
      /\ bytes = Torn /\ Live(media, 1 - job.slot) => Live(media', 1 - job.slot)
      /\ bytes = Torn /\ Fresh(media) /\ job.slot = 0 => Fresh(media')
  <2>1. /\ Succeeds(media, job.slot, job.rec)
        /\ media \in Media /\ job.slot \in Slots /\ job.rec \in Records
    BY <1>1, ZenonT(30) DEF CommitJob, InitJob, Succeeds
  <2>2. SelectorWritten(media, media', job.slot, bytes)
    BY <2>1, SelectorWriteKeeps, ZenonT(30) DEF SelectorStep
  <2> QED
    BY <2>2, ZenonT(30) DEF SelectorWritten
<1>3. ASSUME NEW k \in Slots, Live(disk, k)
      PROVE  CommitJob /\ k = 1 - job.slot /\ job.slot = 1 - k
  <2>1. CommitJob
    BY <1>1, <1>3, OpenOfFresh, ZenonT(30) DEF InitJob
  <2> QED
    BY <1>1, <1>3, <2>1, LiveIsUnique, OtherSlot, ZenonT(30) DEF CommitJob
<1>4. TypeOK'
  <2>1. failed' \in BOOLEAN
    BY Zenon DEF SelectorStep, IInv, TypeOK
  <2> QED
    BY <1>1, <1>2, <2>1, Zenon DEF SelectorStep, IInv, TypeOK, Steps
<1>5. JobInv'
  BY <1>1, ZenonT(30) DEF SelectorStep, JobInv, BeforeSelector, Idle
<1>6. MediaInv'
  <2>1. Fresh(media') \/ \E n \in Slots : Live(media', n)
    BY <1>1, <1>2, OtherSlot, ZenonT(30) DEF CommitJob, InitJob
  <2>2. Fresh(disk) => media'.sel[1] = Blank
    <3> SUFFICES ASSUME Fresh(disk) PROVE media'.sel[1] = Blank
      BY ZenonT(30)
    <3>1. InitJob
      BY <1>1, OpenOfFresh, OtherSlot, ZenonT(30) DEF CommitJob
    <3> QED
      BY <1>1, <1>2, <3>1 DEF InitJob, Fresh
  <2>3. ASSUME NEW k \in Slots, Live(disk, k)
        PROVE  \E n \in Slots : /\ Live(media', n)
                                /\ \/ media'.rec[n] = disk.rec[k]
                                   \/ FloorStep(disk.rec[k].val, media'.rec[n].val)
    <3>1. CommitJob /\ k = 1 - job.slot
      BY <1>3, <2>3, ZenonT(30)
    <3>2. CASE bytes = Torn
      BY <1>1, <1>2, <2>3, <3>1, <3>2, ZenonT(30)
    <3>3. CASE bytes # Torn
      BY <1>1, <1>2, <3>1, <3>3, ZenonT(60) DEF CommitJob
    <3> QED
      BY <3>2, <3>3, ZenonT(30)
  <2> QED
    BY <2>1, <2>2, <2>3, ZenonT(30) DEF SelectorStep, IInv, MediaInv
<1>7. SyncedInv'
  BY ZenonT(30) DEF SelectorStep, SyncedInv, Idle
<1>8. SubsetInv'
  <2>1. ASSUME NEW k \in Slots, Live(disk, k)
        PROVE  /\ media'.sel[k] = disk.sel[k]
               /\ media'.sel[1 - k] = Torn \/ Live(media', 1 - k)
    BY <1>1, <1>2, <1>3, <2>1, ZenonT(30)
  <2>2. OneDirtyObject'
    BY <1>1, <1>2, <2>1, ZenonT(30) DEF SelectorStep, OneDirtyObject
  <2> QED
    BY <2>2, ZenonT(30) DEF SelectorStep, SubsetInv, Idle
<1>9. Maps
  <2>1. CASE bytes = Torn
    <3>1. Cell(media') = Cell(media)
      <4>1. CASE CommitJob
        <5>1. 1 - job.slot \in Slots /\ Live(media, 1 - job.slot)
          BY <1>1, <4>1, OtherSlot, ZenonT(30) DEF CommitJob
        <5>2. Cell(media) = media.rec[1 - job.slot]
          BY <1>1, <5>1, OpenOfLive, ZenonT(30)
        <5>3. Cell(media') = media'.rec[1 - job.slot]
          BY <1>2, <2>1, <5>1, OpenOfLive, ZenonT(30)
        <5> QED
          BY <1>2, <5>2, <5>3, ZenonT(30)
      <4>2. CASE InitJob
        BY <1>2, <2>1, <4>2, OpenOfFresh, ZenonT(30) DEF InitJob
      <4> QED
        BY <1>1, <4>1, <4>2, ZenonT(30)
    <3> QED
      BY <3>1, ZenonT(30) DEF SelectorStep, Maps, Register!vars
  <2>2. CASE bytes # Torn
    <3>1. Cell(media') = job.rec
      BY <1>1, <1>2, <2>2, OpenOfLive, ZenonT(30)
    <3>2. /\ Register!Generation(Cell(media)) \in Nat
          /\ job.rec.gen = Register!Generation(Cell(media)) + 1
      BY <1>1, JobGeneration, ZenonT(30)
    <3>3. /\ job.rec \in [gen : {job.rec.gen}, val : States]
          /\ job.rec.gen \in 1 .. MaxGeneration /\ MaxGeneration \in Nat
      <4>1. job.rec \in Records
        BY <1>1, ZenonT(30)
      <4> QED
        BY <4>1, ProvisionAssumption, ZenonT(30) DEF Records
    <3>5. Register!Write
      BY <1>1, <3>1, <3>2, <3>3 DEF SelectorStep, Register!Write
    <3> QED
      BY <3>5, ZenonT(30) DEF Maps, Register!Next
  <2> QED
    BY <2>1, <2>2, ZenonT(30)
<1>10. FloorKept
  BY ZenonT(30) DEF SelectorStep, FloorKept
<1> QED
  BY <1>4, <1>5, <1>6, <1>7, <1>8, <1>9, <1>10, ZenonT(30) DEF Good, IInv

\* A flush makes the commit that open sees durable.
LEMMA FlushGood == ASSUME IInv, Flush PROVE Good
<1>1. /\ disk' = media /\ media' = media /\ job' = job /\ failed' = failed /\ acked' = acked
      /\ \/ pc = "record_flush" /\ pc' = "record_readback"
         \/ pc = "selector_flush" /\ pc' = "reopen"
  BY ZenonT(30) DEF Flush
<1>2. TypeOK'
  BY <1>1, Zenon DEF IInv, TypeOK, Steps
<1>3. JobInv'
  BY <1>1, ZenonT(30) DEF IInv, JobInv, CommitJob, InitJob, BeforeSelector, Idle
<1>4. MediaInv'
  <2>1. Fresh(media) \/ \E n \in Slots : Live(media, n)
    BY ZenonT(30) DEF IInv, MediaInv
  <2>2. Fresh(media) => media.sel[1] = Blank
    BY ZenonT(30) DEF Fresh
  <2> QED
    BY <1>1, <2>1, <2>2, ZenonT(30) DEF MediaInv
<1>5. SyncedInv' /\ SubsetInv'
  BY <1>1, ZenonT(30) DEF SyncedInv, SubsetInv, OneDirtyObject
<1>6. Maps
  BY <1>1, ZenonT(30) DEF Maps, Register!Next, Register!Sync
<1>7. FloorKept
  BY <1>1, ZenonT(30) DEF IInv, MediaInv, FloorKept
<1> QED
  BY <1>2, <1>3, <1>4, <1>5, <1>6, <1>7, ZenonT(30) DEF Good, IInv

\* The readback compares the record that the selector will commit.
LEMMA ReadbackGood == ASSUME IInv, RecordReadback PROVE Good
<1>1. /\ pc = "record_readback" /\ media.rec[job.slot] = job.rec /\ pc' = "selector_write"
      /\ media' = media /\ disk' = disk /\ job' = job /\ failed' = failed /\ acked' = acked
  BY ZenonT(30) DEF RecordReadback
<1>2. TypeOK'
  BY <1>1, Zenon DEF IInv, TypeOK, Steps
<1>3. JobInv'
  BY <1>1, ZenonT(60) DEF IInv, JobInv, CommitJob, InitJob, Live, Fresh, BeforeSelector, Idle
<1>4. SyncedInv'
  BY <1>1, ZenonT(30) DEF IInv, SyncedInv
<1> QED
  BY <1>1, <1>2, <1>3, <1>4, QuietStep, ZenonT(30) DEF Idle

\* The reopen acknowledges a durable commit.
LEMMA ReopenGood == ASSUME IInv, Reopen PROVE Good
<1>1. /\ pc = "reopen" /\ Open(media) = "ok" /\ Snapshot(media).gen = job.rec.gen
      /\ acked' = job.rec.gen /\ pc' = Idle /\ job' = NoJob
      /\ media' = media /\ disk' = disk /\ failed' = failed
  BY ZenonT(30) DEF Reopen
<1>2. media = disk /\ media \in Media /\ job \in Jobs
  BY <1>1, ZenonT(30) DEF IInv, SyncedInv, TypeOK, JobInv, Idle
<1>3. acked' \in 0 .. MaxGeneration
  BY <1>1, <1>2, ProvisionAssumption DEF Jobs, Records
<1>4. TypeOK'
  BY <1>1, <1>3, Zenon DEF IInv, TypeOK
<1>5. JobInv' /\ SyncedInv'
  BY <1>1, ZenonT(30) DEF JobInv, SyncedInv, Idle
<1>6. MediaInv'
  BY <1>1, ZenonT(60) DEF IInv, MediaInv, Fresh, Live
<1>7. SubsetInv'
  BY <1>1, <1>2, ZenonT(30) DEF SubsetInv, OneDirtyObject
<1>8. Maps
  <2>1. PICK n \in Slots : Live(media, n)
    BY <1>1, OpenOfFresh, ZenonT(30) DEF IInv, MediaInv
  <2>2. Cell(media) # Blank /\ Cell(media) = Snapshot(media)
    BY <1>2, <2>1, OpenOfLive, ZenonT(30)
  <2>3. Register!Acknowledge
    BY <1>1, <1>2, <2>2, ZenonT(30) DEF Register!Acknowledge
  <2> QED
    BY <2>3, ZenonT(30) DEF Maps, Register!Next
<1>9. FloorKept
  BY <1>1, ZenonT(30) DEF FloorKept
<1> QED
  BY <1>4, <1>5, <1>6, <1>7, <1>8, <1>9, ZenonT(30) DEF Good, IInv

\* A call that fails leaves what open sees.
LEMMA CallFailsGood == ASSUME IInv, CallFails PROVE Good
<1>1. /\ pc # Idle /\ pc' = Idle /\ job' = NoJob /\ failed' = TRUE
      /\ disk' = disk /\ acked' = acked
  BY ZenonT(30) DEF CallFails
<1>2. CASE media' = media
  <2>1. TypeOK'
    <3>1. failed' \in BOOLEAN
      BY <1>1, Zenon
    <3> QED
      BY <1>1, <1>2, <3>1, Zenon DEF IInv, TypeOK
  <2>2. JobInv' /\ SyncedInv'
    BY <1>1, ZenonT(30) DEF JobInv, SyncedInv, Idle
  <2> QED
    BY <1>1, <1>2, <2>1, <2>2, QuietStep, ZenonT(30) DEF Idle
<1>3. CASE pc = "record_write" /\ media' = [media EXCEPT !.rec[job.slot] = Torn]
  <2>1. media' = PutRecord(media, job.slot, Torn)
    BY <1>3, ZenonT(30) DEF PutRecord
  <2> QED
    BY <1>1, <1>3, <2>1, RecordWriteGood, ZenonT(30) DEF RecordStep
<1>4. CASE pc = "selector_write" /\ media' = [media EXCEPT !.sel[job.slot] = Torn]
  <2>1. media' = PutSelector(media, job.slot, Torn)
    BY <1>4, ZenonT(30) DEF PutSelector
  <2> QED
    BY <1>1, <1>4, <2>1, SelectorWriteGood, ZenonT(30) DEF SelectorStep
<1> QED
  BY <1>2, <1>3, <1>4, ZenonT(30) DEF CallFails

\* A power cut leaves the readable or the durable commit whole.
LEMMA PowerCutLeaves ==
    ASSUME IInv, PowerCut
    PROVE  \/ disk' = media
           \/ Fresh(disk) /\ Fresh(disk')
           \/ \E k \in Slots : /\ Live(disk, k) /\ Live(disk', k)
                               /\ disk'.rec[k] = disk.rec[k]
<1>1. /\ media \in Media /\ disk \in Media /\ disk' \in Media
      /\ \A i \in Slots : /\ disk'.rec[i] \in {disk.rec[i], media.rec[i], Torn}
                          /\ disk'.sel[i] \in {disk.sel[i], media.sel[i], Torn}
                          /\ disk.rec[i] = media.rec[i] => disk'.rec[i] = disk.rec[i]
                          /\ disk.sel[i] = media.sel[i] => disk'.sel[i] = disk.sel[i]
      /\ CacheModel = "reference" => disk' = disk
  BY PowerCutType, ZenonT(30) DEF IInv, TypeOK
<1>2. Fresh(disk) \/ \E k \in Slots : Live(disk, k)
  BY ZenonT(30) DEF IInv, MediaInv
<1>3. \A a, b \in Media : (\A i \in Slots : a.rec[i] = b.rec[i] /\ a.sel[i] = b.sel[i]) => a = b
  <2> SUFFICES ASSUME NEW a \in Media, NEW b \in Media,
                      \A i \in Slots : a.rec[i] = b.rec[i] /\ a.sel[i] = b.sel[i]
               PROVE  a = b
    BY ZenonT(30)
  <2>1. a.rec = b.rec /\ a.sel = b.sel
    BY DEF Media
  <2> QED
    BY <2>1 DEF Media
<1>4. CASE disk' = disk
  BY <1>2, <1>4, ZenonT(30)
<1>5. CASE CacheModel = "subset" /\ media = disk
  <2>1. disk' = disk
    BY <1>1, <1>3, <1>5, ZenonT(30)
  <2> QED
    BY <1>4, <2>1, ZenonT(30)
<1>6. CASE /\ media.sel = disk.sel
           /\ \A k \in Slots : Live(disk, k) => media.rec[k] = disk.rec[k]
  <2>1. disk'.sel = disk.sel
    BY <1>1, <1>6 DEF Media
  <2>2. CASE Fresh(disk)
    <3>1. \A n \in Slots : ~Live(media, n)
      <4> SUFFICES ASSUME NEW n \in Slots, Live(media, n) PROVE FALSE
        BY ZenonT(30)
      <4>1. media.sel[n] \in Selectors
        BY <1>1, OpenOfLive, ZenonT(30)
      <4> QED
        BY <1>6, <2>2, <4>1, ObjectsDecode, ZenonT(30) DEF Fresh, Undecodable, Slots
    <3>2. Fresh(media)
      BY <3>1, ZenonT(30) DEF IInv, MediaInv
    <3>3. disk'.rec[1] = Blank
      BY <1>1, <2>2, <3>2, ZenonT(30) DEF Fresh, Slots
    <3> QED
      BY <2>1, <2>2, <3>3, ZenonT(30) DEF Fresh
  <2>3. ASSUME NEW k \in Slots, Live(disk, k)
        PROVE  Live(disk', k) /\ disk'.rec[k] = disk.rec[k]
    <3>1. 1 - k \in Slots
      BY OtherSlot, ZenonT(30)
    <3>2. media.rec[k] = disk.rec[k] /\ disk'.rec[k] = disk.rec[k]
      BY <1>1, <1>6, <2>3, ZenonT(30)
    <3>3. PICK n \in Slots : Live(media, n)
      BY <2>3, ZenonT(30) DEF IInv, MediaInv
    <3>4. n = k
      <4>1. SUFFICES ASSUME n = 1 - k PROVE FALSE
        BY OtherSlot, ZenonT(30)
      <4>2. /\ media.sel[n] \in Selectors /\ media.sel[n].gen = media.rec[n].gen
            /\ disk.sel[k] \in Selectors /\ disk.sel[k].gen = disk.rec[k].gen
            /\ media.rec[n].gen \in Nat /\ disk.rec[k].gen \in Nat
        <5>1. media.sel[n] \in Selectors /\ media.rec[n].gen \in Nat
          BY <1>1, <3>3, OpenOfLive, ZenonT(30)
        <5>2. disk.sel[k] \in Selectors /\ disk.rec[k].gen \in Nat
          BY <1>1, <2>3, OpenOfLive, ZenonT(30)
        <5> QED
          BY <2>3, <3>3, <5>1, <5>2 DEF Live
      <4>3. disk.sel[n].gen < disk.sel[k].gen
        BY <1>6, <2>3, <4>1, <4>2, ObjectsDecode, ZenonT(60) DEF Live
      <4>4. media.sel[k].gen < media.sel[n].gen
        BY <1>6, <3>3, <4>1, <4>2, ObjectsDecode, OtherSlot, ZenonT(30) DEF Live
      <4> QED
        BY <1>6, <4>2, <4>3, <4>4
    <3>5. disk'.rec[1 - k] \notin Undecodable => disk'.rec[1 - k].gen # disk.rec[k].gen
      BY <1>1, <2>3, <3>1, <3>2, <3>3, <3>4, ZenonT(30) DEF Live, Undecodable
    <3> QED
      BY <2>1, <2>3, <3>2, <3>5, ZenonT(30) DEF Live
  <2> QED
    BY <1>2, <2>2, <2>3, ZenonT(30)
<1>7. CASE /\ media.rec = disk.rec
           /\ \A k \in Slots : Live(disk, k) =>
                 /\ media.sel[k] = disk.sel[k]
                 /\ media.sel[1 - k] = Torn \/ Live(media, 1 - k)
  <2>1. disk'.rec = disk.rec
    BY <1>1, <1>7, SMTT(30) DEF Media
  <2>2. CASE Fresh(disk)
    <3>1. disk.sel[1] = Blank /\ media.sel[1] = Blank /\ disk'.sel[1] = Blank
      BY <1>1, <2>2, ZenonT(30) DEF IInv, MediaInv, Fresh, Slots
    <3>2. disk'.sel[0] \in {disk.sel[0], media.sel[0], Torn}
      BY <1>1, ZenonT(30) DEF Slots
    <3>3. CASE disk'.sel[0] \in Undecodable
      BY <2>1, <2>2, <3>1, <3>3, ZenonT(30) DEF Fresh
    <3>4. CASE disk'.sel[0] = media.sel[0]
      <4>1. \A i \in Slots : disk'.rec[i] = media.rec[i] /\ disk'.sel[i] = media.sel[i]
        BY <1>7, <2>1, <3>1, <3>4, ZenonT(30) DEF Slots
      <4> QED
        BY <1>1, <1>3, <4>1, ZenonT(30)
    <3> QED
      BY <2>2, <3>2, <3>3, <3>4, ZenonT(30) DEF Fresh, Undecodable
  <2>3. ASSUME NEW k \in Slots, Live(disk, k)
        PROVE  disk' = media \/ (Live(disk', k) /\ disk'.rec[k] = disk.rec[k])
    <3>1. /\ disk'.sel[k] = disk.sel[k] /\ media.sel[k] = disk.sel[k]
          /\ disk'.sel[1 - k] \in {disk.sel[1 - k], media.sel[1 - k], Torn}
      BY <1>1, <1>7, <2>3, OtherSlot, ZenonT(30)
    <3>2. CASE disk'.sel[1 - k] \in {disk.sel[1 - k], Torn}
      BY <2>1, <2>3, <3>1, <3>2, ZenonT(30) DEF Live, Undecodable
    <3>3. CASE disk'.sel[1 - k] = media.sel[1 - k]
      <4>1. \A i \in Slots : disk'.rec[i] = media.rec[i] /\ disk'.sel[i] = media.sel[i]
        BY <1>7, <2>1, <3>1, <3>3, OtherSlot, ZenonT(30)
      <4> QED
        BY <1>1, <1>3, <4>1, ZenonT(30)
    <3> QED
      BY <3>1, <3>2, <3>3, ZenonT(30)
  <2> QED
    BY <1>2, <2>2, <2>3, ZenonT(30)
<1> QED
  BY <1>1, <1>4, <1>5, <1>6, <1>7, ProviderAssumption, ZenonT(30) DEF IInv, SubsetInv, OneDirtyObject

\* A power cut is one of the register and keeps the floor.
LEMMA PowerCutGood == ASSUME IInv, PowerCut PROVE Good
<1>1. /\ media' = disk' /\ pc' = Idle /\ job' = NoJob /\ failed' = FALSE /\ acked' = acked
      /\ media \in Media /\ disk \in Media /\ disk' \in Media
  BY PowerCutType, ZenonT(60) DEF PowerCut, IInv, TypeOK
<1>2. \/ disk' = media
      \/ Fresh(disk) /\ Fresh(disk')
      \/ \E k \in Slots : Live(disk, k) /\ Live(disk', k) /\ disk'.rec[k] = disk.rec[k]
  BY PowerCutLeaves, ZenonT(30)
<1>3. TypeOK'
  <2>1. failed' \in BOOLEAN
    BY <1>1, Zenon
  <2> QED
    BY <1>1, <2>1, Zenon DEF IInv, TypeOK
<1>4. JobInv' /\ SyncedInv' /\ SubsetInv'
  BY <1>1, ZenonT(60) DEF JobInv, SyncedInv, SubsetInv, OneDirtyObject, Idle
<1>5. MediaInv'
  <2>1. Fresh(disk') \/ \E n \in Slots : Live(disk', n)
    BY <1>2, ZenonT(30) DEF IInv, MediaInv
  <2>2. Fresh(disk') => disk'.sel[1] = Blank
    BY ZenonT(30) DEF Fresh
  <2> QED
    BY <1>1, <2>1, <2>2, ZenonT(30) DEF MediaInv
<1>6. Maps
  <2>1. Cell(disk') \in {Cell(media), Cell(disk)}
    BY <1>1, <1>2, OpenOfLive, OpenOfFresh, ZenonT(30)
  <2>2. Register!PowerCut
    BY <1>1, <2>1, ZenonT(30) DEF Register!PowerCut
  <2> QED
    BY <2>2, ZenonT(30) DEF Maps, Register!Next
<1>7. FloorKept
  <2> SUFFICES ASSUME NEW k \in Slots, Live(disk, k)
               PROVE  \E n \in Slots : /\ Live(disk', n)
                                       /\ \/ disk'.rec[n] = disk.rec[k]
                                          \/ FloorStep(disk.rec[k].val, disk'.rec[n].val)
    BY ZenonT(30) DEF FloorKept
  <2>1. CASE disk' = media
    BY <2>1, ZenonT(30) DEF IInv, MediaInv
  <2>2. ASSUME NEW j \in Slots, Live(disk, j), Live(disk', j), disk'.rec[j] = disk.rec[j]
        PROVE  Live(disk', k) /\ disk'.rec[k] = disk.rec[k]
    BY <1>1, <2>2, LiveIsUnique, ZenonT(30)
  <2> QED
    BY <1>2, <2>1, <2>2, OpenOfFresh, ZenonT(30)
<1> QED
  BY <1>3, <1>4, <1>5, <1>6, <1>7, ZenonT(30) DEF Good, IInv

\* Every step keeps the invariant, is a step of the register or a stutter, and
\* keeps the floor.
LEMMA StepGood == ASSUME IInv, [Next]_vars PROVE Good
<1>1. CASE RecordWrite
  <2>1. PICK bytes \in Stored(job.rec) : media' = [media EXCEPT !.rec[job.slot] = bytes]
    BY <1>1, ZenonT(30) DEF RecordWrite
  <2>2. bytes \in {job.rec, Torn} /\ media' = PutRecord(media, job.slot, bytes)
    BY <2>1, ZenonT(30) DEF Stored, PutRecord
  <2> QED
    BY <1>1, <2>2, RecordWriteGood, ZenonT(30) DEF RecordStep, RecordWrite
<1>2. CASE SelectorWrite
  <2>1. PICK bytes \in Stored([slot |-> job.slot, gen |-> job.rec.gen, digest |-> job.rec]) :
            media' = [media EXCEPT !.sel[job.slot] = bytes]
    BY <1>2, ZenonT(30) DEF SelectorWrite
  <2>2. /\ bytes = SelectorOf(job.slot, job.rec) \/ bytes = Torn
        /\ media' = PutSelector(media, job.slot, bytes)
    BY <2>1, ZenonT(30) DEF Stored, PutSelector, SelectorOf
  <2> QED
    BY <1>2, <2>2, SelectorWriteGood, ZenonT(30) DEF SelectorStep, SelectorWrite
<1>3. CASE UNCHANGED vars
  <2>1. TypeOK' /\ JobInv' /\ SyncedInv'
    BY <1>3, Zenon DEF vars, IInv, TypeOK, JobInv, CommitJob, InitJob, Live, Fresh, SyncedInv
  <2>2. SubsetInv
    BY ZenonT(30) DEF IInv
  <2> QED
    BY <1>3, <2>1, <2>2, QuietStep, ZenonT(30) DEF vars, SubsetInv
<1> QED
  BY <1>1, <1>2, <1>3, InitializeGood, OperationGood, FlushGood, ReadbackGood, ReopenGood,
     CallFailsGood, PowerCutGood, ZenonT(30) DEF Next

-----------------------------------------------------------------------------
(* Theorems.                                                               *)

\* Every reachable state of a protected domain satisfies the inductive
\* invariant.
THEOREM ProtectedInvariance == Spec => []IInv
<1>1. IInv /\ [Next]_vars => IInv'
  BY StepGood, ZenonT(30) DEF Good
<1> QED
  BY <1>1, InitEstablishes, PTL DEF Spec

\* Records, selectors, the pending job and the acknowledged generation stay
\* within their encodings; transition_record refuses the successor of the
\* last generation.
THEOREM ProtectedTypes == Spec => []TypeOK
<1>1. IInv => TypeOK
  BY ZenonT(30) DEF IInv
<1> QED
  BY <1>1, ProtectedInvariance, PTL

\* The floor that survives power cuts never falls, rises only by confirming
\* the sequence on trial, and a trial gets no attempts back: for any sequence
\* and generation limit, any bindings, both cache models, and any commits
\* that were cut.
THEOREM ProtectedFloor == Spec => FloorIsMonotonic
<1>1. ASSUME IInv, [Next]_vars, Open(disk) = "ok"
      PROVE  /\ Open(disk') = "ok"
             /\ \/ Snapshot(disk').val.floor = Snapshot(disk).val.floor
                \/ /\ Snapshot(disk).val.kind = "TRIAL"
                   /\ Snapshot(disk').val.floor = Snapshot(disk).val.pending
                   /\ Snapshot(disk').val.floor = Snapshot(disk).val.floor + 1
             /\ Snapshot(disk).val.kind = "TRIAL" /\ Snapshot(disk').val.kind = "TRIAL"
                   => Snapshot(disk').val.attempts <= Snapshot(disk).val.attempts
  <2>1. FloorKept /\ disk' \in Media /\ disk \in Media
    BY <1>1, StepGood, ZenonT(30) DEF Good, IInv, TypeOK
  <2>2. PICK k \in Slots : Live(disk, k)
    BY <1>1, OpenOfFresh, ZenonT(30) DEF IInv, MediaInv
  <2>3. PICK n \in Slots : /\ Live(disk', n)
                           /\ \/ disk'.rec[n] = disk.rec[k]
                              \/ FloorStep(disk.rec[k].val, disk'.rec[n].val)
    BY <2>1, <2>2, ZenonT(30) DEF FloorKept
  <2>4. /\ Snapshot(disk) = disk.rec[k] /\ Snapshot(disk') = disk'.rec[n] /\ Open(disk') = "ok"
        /\ disk.rec[k].val \in States
    BY <2>1, <2>2, <2>3, OpenOfLive, ZenonT(30)
  <2>5. disk.rec[k].val.attempts \in Nat
    BY <2>4, SequenceAssumption, SMTT(30) DEF States
  <2> QED
    BY <2>3, <2>4, <2>5 DEF FloorStep
<1>2. IInv /\ [Next]_vars =>
          [Open(disk) = "ok" =>
             /\ Open(disk)' = "ok"
             /\ \/ DurableState'.floor = DurableState.floor
                \/ /\ DurableState.kind = "TRIAL"
                   /\ DurableState'.floor = DurableState.pending
                   /\ DurableState'.floor = DurableState.floor + 1
             /\ DurableState.kind = "TRIAL" /\ DurableState'.kind = "TRIAL"
                   => DurableState'.attempts <= DurableState.attempts]_disk
  BY <1>1, ZenonT(30) DEF DurableState
<1> QED
  BY <1>2, ProtectedInvariance, PTL DEF Spec, FloorIsMonotonic

\* Seen through ribon_protected_state_open, commit_record with its provider
\* calls, failures, short writes and power cuts is one atomic numbered write
\* of a logical state.
THEOREM ProtectedRefinesRegister == Spec => ImplementsRegister
<1>1. IInv /\ [Next]_vars => [Register!Next]_(Register!vars)
  BY StepGood, ZenonT(30) DEF Good, Maps
<1>2. Init => Register!Init
  BY InitEstablishes, ZenonT(30)
<1> QED
  BY <1>1, <1>2, ProtectedInvariance, PTL DEF Spec, ImplementsRegister, Register!Spec
=============================================================================
