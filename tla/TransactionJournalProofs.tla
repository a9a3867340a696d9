---------------------- MODULE TransactionJournalProofs ----------------------
(***************************************************************************)
(* TransactionJournal: type correctness, that an acknowledged commit       *)
(* survives every failure and power cut, and that the journal implements   *)
(* DurableRegister, for all values of the constants and both cache models. *)
(***************************************************************************)
EXTENDS TransactionJournal, TLAPS

Bad == {Blank, Torn}

\* Selector n is the one that open follows, and its record is complete.
Live(m, n) ==
    /\ m.sel[n] \notin Bad
    /\ m.sel[1 - n] \notin Bad => m.sel[1 - n].gen < m.sel[n].gen
    /\ SelectsRecord(m, n)

BeforeSelector == {"record_write", "record_flush", "record_readback", "selector_write"}
AfterSelector == {"selector_flush", "reopen"}

\* commit_record works on top of the live selector 1 - job.sslot.
CommitJob ==
    /\ media.sel[1 - job.sslot] \notin Bad
    /\ media.sel[1 - job.sslot].slot = 1 - job.rslot
    /\ SelectsRecord(media, 1 - job.sslot)
    /\ job.rec.gen = media.sel[1 - job.sslot].gen + 1
    /\ pc \in BeforeSelector =>
          (media.sel[job.sslot] \notin Bad
              => media.sel[job.sslot].gen < media.sel[1 - job.sslot].gen)
    /\ pc \in AfterSelector =>
          media.sel[job.sslot] \in {Torn, NewSelector(job.rslot, job.rec)}

\* commit_record provisions an empty journal.
InitJob ==
    /\ job.rslot = 0 /\ job.sslot = 0 /\ job.rec.gen = 1
    /\ media.sel[1] = Blank
    /\ pc \in BeforeSelector => media.sel[0] = Blank
    /\ pc \in AfterSelector => media.sel[0] \in {Torn, NewSelector(0, job.rec)}

JobInv ==
    pc # Idle =>
        /\ job \in Jobs
        /\ CommitJob \/ InitJob
        /\ pc \in {"selector_write"} \cup AfterSelector => media.rec[job.rslot] = job.rec

\* A provider read never returns less than what is durable.
MediaInv ==
    \A k \in Slots : Live(disk, k) =>
        \E n \in Slots : Live(media, n) /\ media.sel[n].gen >= disk.sel[k].gen

AckInv ==
    acked > 0 => \E k \in Slots : Live(disk, k) /\ disk.sel[k].gen >= acked

FlushedInv == pc = "reopen" => media = disk

\* Where every unflushed write may be lost or torn: nothing is unflushed when
\* a call may start, and otherwise only one range is, either the record slot
\* that the live durable selector k does not name or the other selector.
OneDirtyRange(k) ==
    \/ media = disk
    \/ /\ media.sel = disk.sel
       /\ media.rec[disk.sel[k].slot] = disk.rec[disk.sel[k].slot]
    \/ /\ media.rec = disk.rec
       /\ media.sel[k] = disk.sel[k]
       /\ \/ media.sel[1 - k] = Torn
          \/ /\ media.sel[1 - k] \notin Bad
             /\ SelectsRecord(media, 1 - k)
             /\ media.sel[1 - k].gen > disk.sel[k].gen

SubsetInv ==
    CacheModel = "subset" =>
        /\ \/ pc \in {"record_write", "record_readback", "selector_write"}
           \/ pc = Idle /\ ~failed
           => media = disk
        /\ \A k \in Slots : Live(disk, k) => OneDirtyRange(k)

IInv == TypeOK /\ JobInv /\ MediaInv /\ AckInv /\ FlushedInv /\ SubsetInv

-----------------------------------------------------------------------------
(* What open sees.                                                         *)

\* open returns OK exactly when one selector is live and not below the floor
\* that the caller gives.
LEMMA OpenIsLive ==
    ASSUME NEW m \in Media, NEW minimum \in Nat
    PROVE  Open(m, minimum) = "ok" <=>
               Live(m, Newest(m)) /\ m.sel[Newest(m)].gen >= minimum
<1>1. CASE 0 \notin ValidSelectors(m) /\ 1 \notin ValidSelectors(m)
  <2>1. ValidSelectors(m) = {} /\ Newest(m) = 1
    BY <1>1, ZenonT(30) DEF ValidSelectors, Slots, Newest
  <2>2. m.sel[1] \in Bad
    BY <1>1, ZenonT(30) DEF ValidSelectors, Slots, Bad
  <2> QED
    BY <2>1, <2>2, ZenonT(30) DEF Open, Live
<1>2. CASE 0 \in ValidSelectors(m) \/ 1 \in ValidSelectors(m)
  <2>1. ValidSelectors(m) # {}
    BY <1>2, ZenonT(30)
  <2>2. ValidSelectors(m) = Slots <=> m.sel[0] \notin Bad /\ m.sel[1] \notin Bad
    BY ZenonT(30) DEF ValidSelectors, Slots, Bad
  <2>3. Newest(m) \in Slots /\ m.sel[Newest(m)] \notin Bad
    BY <1>2, ZenonT(30) DEF ValidSelectors, Newest, Slots, Bad
  <2>4. \A i \in Slots : m.sel[i] \notin Bad => m.sel[i].gen \in Nat
    BY DEF Media, Selectors, Generations, Bad
  <2>5. Live(m, Newest(m)) <=>
            /\ ~(ValidSelectors(m) = Slots /\ m.sel[0].gen = m.sel[1].gen)
            /\ SelectsRecord(m, Newest(m))
    BY <1>2, <2>2, <2>3, <2>4 DEF Live, Newest, ValidSelectors, Slots, Bad
  <2>6. m.sel[Newest(m)].gen < minimum <=> ~(m.sel[Newest(m)].gen >= minimum)
    BY <2>3, <2>4
  <2> QED
    BY <2>1, <2>5, <2>6, ZenonT(30) DEF Open
<1> QED
  BY <1>1, <1>2, ZenonT(30)

\* At most one selector is live, and it is the one that open picks.
LEMMA LiveIsNewest ==
    ASSUME NEW m \in Media, NEW n \in Slots, Live(m, n)
    PROVE  Newest(m) = n
<1>1. \A i \in Slots : m.sel[i] \notin Bad => m.sel[i].gen \in Nat
  BY DEF Media, Selectors, Generations, Bad
<1> QED
  BY <1>1 DEF Live, Newest, ValidSelectors, Slots, Bad

\* The selector of a record is well formed and is not mistaken for zero or
\* damaged bytes, nor is the record.
LEMMA SelectorOfRecord ==
    ASSUME NEW r \in Records, NEW i \in Slots
    PROVE  /\ NewSelector(i, r) \in Selectors
           /\ NewSelector(i, r) \notin Bad
           /\ r \notin Bad
           /\ NewSelector(i, r).slot = i
           /\ NewSelector(i, r).gen = r.gen
<1>1. Digest(r) \in Digests
  BY ZenonT(30) DEF Digest, Digests, Records
<1>2. NewSelector(i, r) \in Selectors
  BY <1>1, ZenonT(30) DEF NewSelector, Selectors, Records
<1> QED
  BY <1>2, DecodeAssumption, ZenonT(30) DEF Bad, NewSelector

\* A selector made for a record selects that record where it was written.
LEMMA SelectorSelects ==
    ASSUME NEW m, NEW r \in Records, NEW i \in Slots, NEW n \in Slots,
           m.sel[n] = NewSelector(i, r), m.rec[i] = r
    PROVE  SelectsRecord(m, n)
  BY SelectorOfRecord DEF SelectsRecord, NewSelector, Bad

\* Writing one range leaves well-formed media.
LEMMA WriteRecordType ==
    ASSUME NEW m \in Media, NEW i \in Slots, NEW r \in Records \cup Bad
    PROVE  /\ [m EXCEPT !.rec[i] = r] \in Media
           /\ [m EXCEPT !.rec[i] = r].sel = m.sel
           /\ [m EXCEPT !.rec[i] = r].rec[i] = r
           /\ \A j \in Slots : j # i => [m EXCEPT !.rec[i] = r].rec[j] = m.rec[j]
  BY ZenonT(30) DEF Media, Bad

\* Writing a selector keeps the medium well formed.
LEMMA WriteSelectorType ==
    ASSUME NEW m \in Media, NEW i \in Slots, NEW r \in Selectors \cup Bad
    PROVE  /\ [m EXCEPT !.sel[i] = r] \in Media
           /\ [m EXCEPT !.sel[i] = r].rec = m.rec
           /\ [m EXCEPT !.sel[i] = r].sel[i] = r
           /\ \A j \in Slots : j # i => [m EXCEPT !.sel[i] = r].sel[j] = m.sel[j]
  BY ZenonT(30) DEF Media, Bad

\* A power cut leaves well-formed media, each range old, new or torn; the
\* reference model leaves the old ones.
LEMMA PowerCutType ==
    ASSUME TypeOK, PowerCut
    PROVE  /\ disk' \in Media /\ media' = disk'
           /\ \A i \in Slots : /\ disk'.rec[i] \in {disk.rec[i], media.rec[i], Torn}
                               /\ disk'.sel[i] \in {disk.sel[i], media.sel[i], Torn}
                               /\ disk.rec[i] = media.rec[i] => disk'.rec[i] = disk.rec[i]
                               /\ disk.sel[i] = media.sel[i] => disk'.sel[i] = disk.sel[i]
           /\ CacheModel = "reference" => disk' = disk
<1>1. PICK r0 \in Survivors(disk.rec[0], media.rec[0]),
           r1 \in Survivors(disk.rec[1], media.rec[1]),
           s0 \in Survivors(disk.sel[0], media.sel[0]),
           s1 \in Survivors(disk.sel[1], media.sel[1]) :
           disk' = [rec |-> [i \in Slots |-> IF i = 0 THEN r0 ELSE r1],
                    sel |-> [i \in Slots |-> IF i = 0 THEN s0 ELSE s1]]
  BY ZenonT(30) DEF PowerCut
<1>2. \A old, new : Survivors(old, new) \subseteq {old, new, Torn}
  BY ZenonT(30) DEF Survivors
<1>3. \A old, new : CacheModel = "reference" \/ old = new => Survivors(old, new) = {old}
  BY ZenonT(30) DEF Survivors
<1>4. /\ disk'.rec = [i \in Slots |-> IF i = 0 THEN r0 ELSE r1]
      /\ disk'.sel = [i \in Slots |-> IF i = 0 THEN s0 ELSE s1]
  BY <1>1, ZenonT(30)
<1>5. /\ disk'.rec[0] = r0 /\ disk'.rec[1] = r1
      /\ disk'.sel[0] = s0 /\ disk'.sel[1] = s1
  BY <1>4 DEF Slots
<1>6. \A i \in Slots : /\ disk'.rec[i] \in {disk.rec[i], media.rec[i], Torn}
                       /\ disk'.sel[i] \in {disk.sel[i], media.sel[i], Torn}
  BY <1>1, <1>2, <1>5, ZenonT(30) DEF Slots
<1>7. \A i \in Slots : /\ disk.rec[i] = media.rec[i] => disk'.rec[i] = disk.rec[i]
                       /\ disk.sel[i] = media.sel[i] => disk'.sel[i] = disk.sel[i]
  BY <1>1, <1>3, <1>5 DEF Slots
<1>8. disk' \in Media
  <2>1. \A i \in Slots : /\ disk'.rec[i] \in Records \cup {Blank, Torn}
                         /\ disk'.sel[i] \in Selectors \cup {Blank, Torn}
    BY <1>6, ZenonT(30) DEF TypeOK, Media
  <2>2. /\ disk'.rec \in [Slots -> Records \cup {Blank, Torn}]
        /\ disk'.sel \in [Slots -> Selectors \cup {Blank, Torn}]
    BY <2>1, <1>4, ZenonT(30)
  <2> QED
    BY <2>2, <1>1, ZenonT(30) DEF Media
<1>9. ASSUME CacheModel = "reference" PROVE disk' = disk
  <2>1. \A i \in Slots : disk'.rec[i] = disk.rec[i] /\ disk'.sel[i] = disk.sel[i]
    BY <1>1, <1>3, <1>5, <1>9 DEF Slots
  <2>2. disk'.rec = disk.rec /\ disk'.sel = disk.sel
    BY <2>1, <1>8 DEF TypeOK, Media
  <2> QED
    BY <2>2, <1>8 DEF TypeOK, Media
<1> QED
  BY <1>6, <1>7, <1>8, <1>9, ZenonT(30) DEF PowerCut

-----------------------------------------------------------------------------
(* The invariant is inductive.                                             *)

\* The erased medium satisfies the invariant.
LEMMA InitEstablishes == Init => IInv
<1> SUFFICES ASSUME Init PROVE IInv
  BY ZenonT(30)
<1> USE DEF Init
<1>1. TypeOK
  <2>1. /\ media.rec \in [Slots -> Records \cup {Blank, Torn}]
        /\ media.sel \in [Slots -> Selectors \cup {Blank, Torn}]
    BY ZenonT(30)
  <2>2. media \in Media
    BY <2>1, ZenonT(30) DEF Media
  <2>3. failed \in BOOLEAN
    BY ZenonT(60)
  <2>4. acked \in 0 .. MaxGeneration
    BY GenerationAssumption
  <2> QED
    BY <2>2, <2>3, <2>4, Zenon DEF TypeOK
<1>2. \A k \in Slots : ~Live(disk, k)
  BY ZenonT(30) DEF Live, Bad
<1> QED
  BY <1>1, <1>2 DEF IInv, JobInv, MediaInv, AckInv, FlushedInv, SubsetInv, Idle

\* Starting a commit, provisioning or not, sets up the job.
LEMMA StartPreserves ==
    ASSUME IInv, NEW val \in Value, Initialize(val) \/ Commit(val)
    PROVE  IInv'
<1> USE DEF IInv
<1>1. /\ pc = Idle /\ pc' = "record_write"
      /\ media' = media /\ disk' = disk /\ acked' = acked /\ failed' = failed
      /\ failed => RetryWithoutReset
  BY ZenonT(30) DEF Initialize, Commit, MayCall
<1>2. CacheModel = "subset" => media = disk
  BY <1>1, CallerAssumption, ZenonT(30) DEF SubsetInv, TypeOK
<1>3. CASE Initialize(val)
  <2>1. job' = [rec |-> NewRecord(1, val, Blank), rslot |-> 0, sslot |-> 0]
    BY <1>3, ZenonT(30) DEF Initialize
  <2>2. job' \in Jobs
    BY <2>1, GenerationAssumption DEF Jobs, Records, NewRecord, Slots, Generations
  <2>3. media.sel[0] = Blank /\ media.sel[1] = Blank
    BY <1>3, ZenonT(30) DEF Initialize, Open, Slots
  <2>4. InitJob'
    BY <1>1, <2>1, <2>3, ZenonT(30) DEF InitJob, AfterSelector, NewRecord
  <2>5. JobInv' /\ TypeOK'
    BY <1>1, <2>2, <2>4, ZenonT(30) DEF JobInv, TypeOK, Idle, AfterSelector, Steps
  <2> QED
    BY <1>1, <1>2, <2>5, ZenonT(60) DEF MediaInv, AckInv, FlushedInv, SubsetInv, Live,
       SelectsRecord, OneDirtyRange
<1>4. CASE Commit(val)
  <2> DEFINE n == Newest(media)
             current == Snapshot(media)
  <2>1. Live(media, n) /\ n \in Slots
    <3>1. Open(media, acked) = "ok"
      BY <1>4, ZenonT(30) DEF Commit
    <3>2. acked \in Nat /\ media \in Media
      BY DEF TypeOK
    <3> QED
      BY <3>1, <3>2, OpenIsLive, ZenonT(30) DEF Newest, Slots
  <2>2. media.sel[n] \in Selectors
    BY <2>1, ZenonT(30) DEF TypeOK, Media, Live, Bad
  <2>3. /\ current = media.rec[media.sel[n].slot]
        /\ current \in Records /\ current.gen = media.sel[n].gen
    BY <2>1, <2>2, ZenonT(30) DEF Live, SelectsRecord, Snapshot, TypeOK, Media, Selectors
  <2>4. /\ current.gen < MaxGeneration
        /\ job' = [rec |-> NewRecord(current.gen + 1, val, Digest(current)),
                   rslot |-> 1 - media.sel[n].slot, sslot |-> 1 - n]
    BY <1>4, ZenonT(30) DEF Commit
  <2>5. Digest(current) \in Digests
    BY <2>3, ZenonT(30) DEF Digest, Digests, Records
  <2>6. job'.rec \in Records /\ job'.rec.gen = media.sel[n].gen + 1
    BY <2>3, <2>4, <2>5, GenerationAssumption DEF NewRecord, Records, Generations
  <2>7. /\ job'.rslot \in Slots /\ job'.sslot \in Slots
        /\ 1 - job'.sslot = n /\ 1 - job'.rslot = media.sel[n].slot
    BY <2>1, <2>2, <2>4 DEF Slots, Selectors
  <2>8. job' \in Jobs
    BY <2>4, <2>6, <2>7, ZenonT(30) DEF Jobs
  <2>9. CommitJob'
    BY <1>1, <2>1, <2>6, <2>7, <2>4, ZenonT(30) DEF CommitJob, Live, AfterSelector, SelectsRecord, Slots
  <2>10. JobInv' /\ TypeOK'
    BY <1>1, <2>8, <2>9, ZenonT(30) DEF JobInv, TypeOK, Idle, AfterSelector, Steps
  <2> QED
    BY <1>1, <1>2, <2>10, ZenonT(60) DEF MediaInv, AckInv, FlushedInv, SubsetInv, Live,
       SelectsRecord, OneDirtyRange
<1> QED
  BY <1>3, <1>4, ZenonT(30)

\* The record goes to the slot that the live selector does not name.
LEMMA RecordWriteKeepsLive ==
    ASSUME IInv, pc = "record_write", NEW n \in Slots, Live(media, n),
           media'.sel = media.sel,
           \A j \in Slots : j # job.rslot => media'.rec[j] = media.rec[j]
    PROVE  /\ Live(media', n)
           /\ CommitJob
           /\ n = 1 - job.sslot
           /\ media.sel[n].slot # job.rslot
<1> USE DEF IInv
<1>1. job \in Jobs /\ (CommitJob \/ InitJob) /\ job.rslot \in Slots /\ job.sslot \in Slots
  BY ZenonT(30) DEF JobInv, Idle, Jobs
<1>2. media.sel[n] \in Selectors /\ media \in Media
  BY ZenonT(30) DEF Live, Bad, Media, TypeOK
<1>3. CommitJob
  BY <1>1, ZenonT(30) DEF InitJob, Live, Bad, BeforeSelector, Slots
<1>4. Live(media, 1 - job.sslot) /\ 1 - job.sslot \in Slots
  BY <1>1, <1>3 DEF CommitJob, Live, BeforeSelector, Slots
<1>5. n = 1 - job.sslot
  BY <1>2, <1>4, LiveIsNewest, ZenonT(30)
<1>6. media.sel[n].slot = 1 - job.rslot
  BY <1>3, <1>5, ZenonT(30) DEF CommitJob
<1>7. media.sel[n].slot # job.rslot /\ media.sel[n].slot \in Slots
  BY <1>1, <1>2, <1>6 DEF Slots, Selectors
<1> QED
  BY <1>3, <1>5, <1>7, ZenonT(30) DEF Live, SelectsRecord

\* Writing the inactive record leaves the selected one alone.
LEMMA RecordWritePreserves ==
    ASSUME IInv,
           NEW bytes \in Records \cup {Torn},
           pc = "record_write",
           media' = [media EXCEPT !.rec[job.rslot] = bytes],
           disk' = disk, acked' = acked,
           \/ pc' = "record_flush" /\ job' = job /\ failed' = failed
           \/ pc' = Idle /\ job' = NoJob /\ failed' = TRUE
    PROVE  IInv'
<1> USE DEF IInv
<1>1. job \in Jobs /\ (CommitJob \/ InitJob) /\ job.rslot \in Slots /\ job.sslot \in Slots
  BY ZenonT(30) DEF JobInv, Idle, Jobs
<1>2. /\ media \in Media /\ media' \in Media /\ media'.sel = media.sel
      /\ media'.rec[job.rslot] = bytes
      /\ \A j \in Slots : j # job.rslot => media'.rec[j] = media.rec[j]
  BY <1>1, WriteRecordType DEF TypeOK, Bad
<1>3. TypeOK'
  BY <1>1, <1>2, ZenonT(60) DEF TypeOK, Steps, Idle, NoJob
<1>4. \A n \in Slots : Live(media, n) =>
          /\ Live(media', n)
          /\ n = 1 - job.sslot
          /\ media.sel[n].slot # job.rslot
  BY <1>1, <1>2, RecordWriteKeepsLive, ZenonT(30)
<1>5. JobInv'
  <2>1. CASE pc' = Idle
    BY <2>1, ZenonT(30) DEF JobInv
  <2>2. CASE pc' = "record_flush" /\ job' = job
    <3>1. CASE InitJob
      BY <1>1, <1>2, <2>2, <3>1, ZenonT(30) DEF JobInv, InitJob, BeforeSelector, AfterSelector
    <3>2. CASE CommitJob
      <4>1. Live(media, 1 - job.sslot) /\ 1 - job.sslot \in Slots
        BY <1>1, <3>2 DEF CommitJob, Live, BeforeSelector, Slots
      <4>2. Live(media', 1 - job.sslot)
        BY <1>4, <4>1, ZenonT(30)
      <4>3. CommitJob'
        BY <1>2, <2>2, <3>2, <4>2, ZenonT(30) DEF CommitJob, Live, BeforeSelector, AfterSelector
      <4> QED
        BY <1>1, <2>2, <4>3, ZenonT(30) DEF JobInv, AfterSelector
    <3> QED
      BY <1>1, <3>1, <3>2, ZenonT(30)
  <2> QED
    BY <2>1, <2>2, ZenonT(30)
<1>6. MediaInv'
  BY <1>2, <1>4, ZenonT(60) DEF MediaInv, Live, SelectsRecord
<1>7. AckInv' /\ FlushedInv'
  BY ZenonT(30) DEF AckInv, FlushedInv, Live, SelectsRecord, Idle
<1>8. SubsetInv'
  <2> SUFFICES ASSUME CacheModel = "subset", NEW k \in Slots, Live(disk, k)
               PROVE  OneDirtyRange(k)'
    BY ZenonT(30) DEF SubsetInv, Idle, Live, SelectsRecord
  <2>1. media = disk
    BY ZenonT(30) DEF SubsetInv
  <2> QED
    BY <1>2, <1>4, <2>1, ZenonT(30) DEF OneDirtyRange, Media, Live, Selectors, Bad
<1> QED
  BY <1>3, <1>5, <1>6, <1>7, <1>8, ZenonT(30)

\* The selector that is not live receives a greater generation, or is torn.
LEMMA SelectorWritePreserves ==
    ASSUME IInv,
           NEW bytes \in {NewSelector(job.rslot, job.rec), Torn},
           pc = "selector_write",
           media' = [media EXCEPT !.sel[job.sslot] = bytes],
           disk' = disk, acked' = acked,
           \/ pc' = "selector_flush" /\ job' = job /\ failed' = failed
           \/ pc' = Idle /\ job' = NoJob /\ failed' = TRUE
    PROVE  IInv'
<1> USE DEF IInv
<1>1. /\ job \in Jobs /\ (CommitJob \/ InitJob) /\ job.rslot \in Slots /\ job.sslot \in Slots
      /\ job.rec \in Records /\ media.rec[job.rslot] = job.rec
      /\ 1 - job.sslot \in Slots
  BY DEF JobInv, Idle, Jobs, Slots
<1>2. /\ NewSelector(job.rslot, job.rec) \in Selectors
      /\ NewSelector(job.rslot, job.rec) \notin Bad
      /\ NewSelector(job.rslot, job.rec).slot = job.rslot
      /\ NewSelector(job.rslot, job.rec).gen = job.rec.gen
      /\ job.rec.gen \in Nat
  BY <1>1, SelectorOfRecord DEF Records, Generations
<1>3. /\ media \in Media /\ media' \in Media /\ media'.rec = media.rec
      /\ media'.sel[job.sslot] = bytes
      /\ media'.sel[1 - job.sslot] = media.sel[1 - job.sslot]
  <2>1. bytes \in Selectors \cup Bad /\ 1 - job.sslot # job.sslot
    BY <1>1, <1>2 DEF Bad, Slots
  <2> QED
    BY <1>1, <2>1, WriteSelectorType DEF TypeOK
<1>4. TypeOK'
  BY <1>1, <1>3, ZenonT(60) DEF TypeOK, Steps, Idle, NoJob
<1>5. bytes # Torn => /\ media'.sel[job.sslot] \notin Bad
                      /\ media'.sel[job.sslot].gen = job.rec.gen
                      /\ SelectsRecord(media', job.sslot)
  BY <1>1, <1>2, <1>3, SelectorSelects, ZenonT(60)
<1>6. ASSUME NEW n \in Slots, Live(media, n)
      PROVE  /\ CommitJob
             /\ n = 1 - job.sslot
             /\ media'.sel[n] = media.sel[n]
             /\ SelectsRecord(media', n)
             /\ media.sel[n].gen \in Nat
             /\ job.rec.gen > media.sel[n].gen
             /\ 1 - n = job.sslot
             /\ bytes = Torn => Live(media', n)
             /\ bytes # Torn => Live(media', job.sslot)
  <2>1. CommitJob
    BY <1>1, <1>6, ZenonT(30) DEF InitJob, Live, Bad, BeforeSelector, Slots
  <2>2. Live(media, 1 - job.sslot)
    BY <1>1, <2>1 DEF CommitJob, Live, BeforeSelector, Slots
  <2>3. n = 1 - job.sslot /\ 1 - n = job.sslot
    BY <1>1, <1>3, <1>6, <2>2, LiveIsNewest, SMTT(30) DEF Slots
  <2>4. media'.sel[n] = media.sel[n] /\ SelectsRecord(media', n)
    BY <1>3, <1>6, <2>3, ZenonT(30) DEF Live, SelectsRecord
  <2>5. media.sel[n].gen \in Nat /\ job.rec.gen > media.sel[n].gen
    <3>1. media.sel[n] \in Selectors
      BY <1>3, <1>6, ZenonT(30) DEF Live, Media, Bad
    <3> QED
      BY <2>1, <2>3, <3>1 DEF CommitJob, Selectors, Generations
  <2>6. bytes = Torn => Live(media', n)
    BY <1>3, <1>6, <2>3, <2>4, ZenonT(30) DEF Live, Bad
  <2>7. bytes # Torn => Live(media', job.sslot)
    BY <1>3, <1>5, <2>3, <2>4, <2>5, ZenonT(30) DEF Live
  <2> QED
    BY <2>1, <2>3, <2>4, <2>5, <2>6, <2>7, ZenonT(30)
<1>7. JobInv'
  <2>1. CASE pc' = Idle
    BY <2>1, ZenonT(30) DEF JobInv
  <2>2. CASE pc' = "selector_flush" /\ job' = job
    <3>1. CommitJob => CommitJob'
      BY <1>3, <2>2, ZenonT(60) DEF CommitJob, BeforeSelector, AfterSelector, SelectsRecord, NewSelector, Digest
    <3>2. InitJob => InitJob'
      BY <1>3, <2>2 DEF InitJob, BeforeSelector, AfterSelector, NewSelector, Digest
    <3> QED
      BY <1>1, <1>3, <2>2, <3>1, <3>2, ZenonT(30) DEF JobInv
  <2> QED
    BY <2>1, <2>2, ZenonT(30)
<1>8. MediaInv'
  <2> SUFFICES ASSUME NEW k \in Slots, Live(disk, k)
               PROVE  \E n \in Slots : Live(media', n) /\ media'.sel[n].gen >= disk.sel[k].gen
    BY ZenonT(60) DEF MediaInv, Live, SelectsRecord
  <2>1. PICK n \in Slots : Live(media, n) /\ media.sel[n].gen >= disk.sel[k].gen
    BY ZenonT(30) DEF MediaInv
  <2>2. disk.sel[k].gen \in Nat
    BY DEF Live, TypeOK, Media, Bad, Selectors, Generations
  <2>3. CASE bytes = Torn
    BY <1>6, <2>1, <2>3, ZenonT(30)
  <2>4. CASE bytes # Torn
    BY <1>1, <1>2, <1>5, <1>6, <2>1, <2>2, <2>4, SMTT(30)
  <2> QED
    BY <2>3, <2>4, ZenonT(30)
<1>9. AckInv' /\ FlushedInv'
  BY ZenonT(30) DEF AckInv, FlushedInv, Live, SelectsRecord, Idle
<1>10. SubsetInv'
  <2> SUFFICES ASSUME CacheModel = "subset", NEW k \in Slots, Live(disk, k)
               PROVE  OneDirtyRange(k)'
    BY ZenonT(30) DEF SubsetInv, Idle, Live, SelectsRecord
  <2>1. media = disk
    BY ZenonT(30) DEF SubsetInv
  <2>2. 1 - k = job.sslot /\ media'.sel[k] = disk.sel[k] /\ job.rec.gen > disk.sel[k].gen
    BY <1>6, <2>1, ZenonT(30)
  <2> QED
    BY <1>3, <1>5, <2>1, <2>2, ZenonT(30) DEF OneDirtyRange
<1> QED
  BY <1>4, <1>7, <1>8, <1>9, <1>10, ZenonT(30)

\* A flush makes the readable contents the durable ones.
LEMMA FlushPreserves ==
    ASSUME IInv, RecordFlush \/ SelectorFlush
    PROVE  IInv'
<1> USE DEF IInv
<1>1. /\ media' = media /\ disk' = media /\ job' = job /\ failed' = failed
      /\ acked' = acked
      /\ \/ pc = "record_flush" /\ pc' = "record_readback"
         \/ pc = "selector_flush" /\ pc' = "reopen"
  BY ZenonT(30) DEF RecordFlush, SelectorFlush
<1>2. TypeOK'
  BY <1>1, ZenonT(30) DEF TypeOK, Steps
<1>3. JobInv'
  BY <1>1, ZenonT(60) DEF JobInv, CommitJob, InitJob, BeforeSelector, AfterSelector, Idle,
     SelectsRecord
<1>4. AckInv'
  <2> SUFFICES ASSUME acked > 0
               PROVE  \E n \in Slots : Live(media, n) /\ media.sel[n].gen >= acked
    BY <1>1, ZenonT(30) DEF AckInv, Live, SelectsRecord
  <2>1. PICK k \in Slots : Live(disk, k) /\ disk.sel[k].gen >= acked
    BY ZenonT(30) DEF AckInv
  <2>2. PICK n \in Slots : Live(media, n) /\ media.sel[n].gen >= disk.sel[k].gen
    BY <2>1, ZenonT(30) DEF MediaInv
  <2>3. disk.sel[k].gen \in Nat /\ media.sel[n].gen \in Nat /\ acked \in Nat
    BY <2>1, <2>2 DEF Live, TypeOK, Media, Bad, Selectors, Generations
  <2> QED
    BY <2>1, <2>2, <2>3
<1>5. MediaInv'
  <2>1. \A n \in Slots : Live(media, n) => media.sel[n].gen \in Nat
    BY DEF Live, TypeOK, Media, Bad, Selectors, Generations
  <2>2. \A k \in Slots : Live(media, k) =>
            \E n \in Slots : Live(media, n) /\ media.sel[n].gen >= media.sel[k].gen
    BY <2>1
  <2> QED
    BY <1>1, <2>2, Zenon DEF MediaInv, Live, SelectsRecord, Digest
<1>6. FlushedInv' /\ SubsetInv'
  BY <1>1, ZenonT(30) DEF FlushedInv, SubsetInv, OneDirtyRange
<1> QED
  BY <1>2, <1>3, <1>4, <1>5, <1>6, ZenonT(30)

\* The readback compares the record, and changes nothing.
LEMMA ReadbackPreserves ==
    ASSUME IInv, RecordReadback
    PROVE  IInv'
<1> USE DEF IInv, RecordReadback
<1>1. TypeOK'
  BY ZenonT(30) DEF TypeOK, Steps
<1>2. JobInv'
  BY ZenonT(60) DEF JobInv, CommitJob, InitJob, BeforeSelector, AfterSelector, Idle, SelectsRecord
<1>3. MediaInv' /\ AckInv' /\ FlushedInv'
  BY ZenonT(60) DEF MediaInv, AckInv, FlushedInv, Live, SelectsRecord
<1>4. SubsetInv'
  BY ZenonT(30) DEF SubsetInv, OneDirtyRange, Live, SelectsRecord
<1> QED
  BY <1>1, <1>2, <1>3, <1>4, ZenonT(30)

\* The reopened snapshot is durable when the commit is acknowledged.
LEMMA ReopenPreserves ==
    ASSUME IInv, Reopen
    PROVE  IInv'
<1> USE DEF IInv
<1>1. /\ pc = "reopen" /\ pc' = Idle /\ job' = NoJob /\ acked' = job.rec.gen
      /\ media' = media /\ disk' = disk /\ failed' = failed
      /\ media = disk
  BY ZenonT(30) DEF Reopen, FlushedInv
<1>2. job.rec.gen \in 1 .. MaxGeneration
  BY <1>1, ZenonT(30) DEF JobInv, Jobs, Records, Generations, Idle
<1>3. TypeOK'
  BY <1>1, <1>2, GenerationAssumption, SMTT(30) DEF TypeOK
<1>4. AckInv'
  <2> DEFINE n == Newest(media)
  <2>1. n \in Slots /\ Live(media, n)
    <3>1. Open(media, acked) = "ok" /\ acked \in Nat /\ media \in Media
      BY SMTT(30) DEF Reopen, TypeOK
    <3> QED
      BY <3>1, OpenIsLive, ZenonT(30) DEF Newest, Slots
  <2>2. media.sel[n].gen = job.rec.gen
    BY <2>1, ZenonT(30) DEF Reopen, Snapshot, Live, SelectsRecord
  <2>3. Live(disk, n) /\ disk.sel[n].gen >= job.rec.gen
    BY <1>1, <1>2, <2>1, <2>2, SMTT(30)
  <2> QED
    BY <1>1, <2>1, <2>3, ZenonT(60) DEF AckInv, Live, SelectsRecord
<1>5. JobInv' /\ MediaInv' /\ FlushedInv'
  BY <1>1, ZenonT(60) DEF JobInv, MediaInv, FlushedInv, Live, SelectsRecord, Idle
<1>6. SubsetInv'
  BY <1>1, ZenonT(30) DEF SubsetInv, OneDirtyRange
<1> QED
  BY <1>3, <1>4, <1>5, <1>6, ZenonT(30)

\* A failed call changes no media.
LEMMA FailPreserves ==
    ASSUME IInv, Fail
    PROVE  IInv'
<1> USE DEF IInv, Fail
<1>1. TypeOK'
  BY ZenonT(30) DEF TypeOK
<1>2. JobInv' /\ MediaInv' /\ AckInv' /\ FlushedInv'
  BY ZenonT(60) DEF JobInv, MediaInv, AckInv, FlushedInv, Live, SelectsRecord, Idle
<1>3. SubsetInv'
  BY ZenonT(60) DEF SubsetInv, OneDirtyRange, Live, SelectsRecord, Idle
<1> QED
  BY <1>1, <1>2, <1>3, ZenonT(30)

\* A power cut keeps the live durable selector and its record, or finds the
\* visible one, of greater generation, complete.
LEMMA PowerCutKeepsLive ==
    ASSUME IInv, PowerCut, NEW k \in Slots, Live(disk, k)
    PROVE  \E n \in Slots :
               /\ Live(disk', n)
               /\ disk'.sel[n].gen >= disk.sel[k].gen
               /\ \/ disk'.sel[n] = disk.sel[k]
                  \/ Live(media, n) /\ disk'.sel[n] = media.sel[n]
<1> USE DEF IInv
<1>0. /\ disk.sel[k] \in Selectors /\ disk.sel[k].gen \in Nat
      /\ disk.sel[k].slot \in Slots /\ 1 - k \in Slots /\ 1 - (1 - k) = k
  BY DEF Live, TypeOK, Media, Bad, Selectors, Generations, Slots
<1>1. CASE CacheModel = "reference"
  BY <1>0, <1>1, PowerCutType
<1>2. CASE media = disk
  <2>1. \A i \in Slots : disk'.sel[i] = disk.sel[i] /\ disk'.rec[i] = disk.rec[i]
    BY <1>2, PowerCutType, ZenonT(30)
  <2>2. Live(disk', k)
    BY <1>0, <2>1, ZenonT(30) DEF Live, SelectsRecord
  <2> QED
    BY <1>0, <2>1, <2>2
<1>3. CASE /\ media.sel = disk.sel
           /\ media.rec[disk.sel[k].slot] = disk.rec[disk.sel[k].slot]
  <2>1. /\ \A i \in Slots : disk'.sel[i] = disk.sel[i]
        /\ disk'.rec[disk.sel[k].slot] = disk.rec[disk.sel[k].slot]
    BY <1>0, <1>3, PowerCutType, ZenonT(30)
  <2>2. Live(disk', k)
    BY <1>0, <2>1, ZenonT(30) DEF Live, SelectsRecord
  <2> QED
    BY <1>0, <2>1, <2>2
<1>4. CASE /\ media.rec = disk.rec
           /\ media.sel[k] = disk.sel[k]
           /\ \/ media.sel[1 - k] = Torn
              \/ /\ media.sel[1 - k] \notin Bad
                 /\ SelectsRecord(media, 1 - k)
                 /\ media.sel[1 - k].gen > disk.sel[k].gen
  <2>1. /\ \A i \in Slots : disk'.rec[i] = disk.rec[i] /\ media.rec[i] = disk.rec[i]
        /\ disk'.sel[k] = disk.sel[k]
        /\ disk'.sel[1 - k] \in {disk.sel[1 - k], media.sel[1 - k], Torn}
    BY <1>0, <1>4, PowerCutType, ZenonT(30)
  <2>2. SelectsRecord(disk', k)
    BY <1>0, <2>1, ZenonT(30) DEF Live, SelectsRecord
  <2>3. CASE disk'.sel[1 - k] \in {disk.sel[1 - k], Torn}
    <3>1. Live(disk', k)
      BY <1>0, <2>1, <2>2, <2>3, ZenonT(30) DEF Live, Bad
    <3> QED
      BY <1>0, <2>1, <3>1
  <2>4. CASE disk'.sel[1 - k] = media.sel[1 - k] /\ media.sel[1 - k] # Torn
    <3>1. /\ media.sel[1 - k] \notin Bad
          /\ SelectsRecord(media, 1 - k)
          /\ media.sel[1 - k].gen > disk.sel[k].gen
      BY <1>4, <2>4, ZenonT(30)
    <3>2. media.sel[1 - k] \in Selectors
      BY <1>0, <3>1, ZenonT(30) DEF TypeOK, Media, Bad
    <3>3. media.sel[1 - k].slot \in Slots /\ media.sel[1 - k].gen \in Nat
      BY <3>2, SMTT(30) DEF Selectors, Generations
    <3>4. SelectsRecord(disk', 1 - k)
      BY <2>1, <2>4, <3>1, <3>3, ZenonT(30) DEF SelectsRecord
    <3>5. Live(disk', 1 - k)
      BY <1>0, <2>1, <2>4, <3>1, <3>4, ZenonT(30) DEF Live
    <3>6. Live(media, 1 - k)
      BY <1>0, <1>4, <3>1, ZenonT(30) DEF Live
    <3> QED
      BY <1>0, <2>4, <3>1, <3>3, <3>5, <3>6
  <2> QED
    BY <2>1, <2>3, <2>4, ZenonT(30)
<1>5. CacheModel = "reference" \/ OneDirtyRange(k)
  BY CallerAssumption, ZenonT(30) DEF SubsetInv
<1> QED
  BY <1>1, <1>2, <1>3, <1>4, <1>5, ZenonT(30) DEF OneDirtyRange

\* A power cut leaves one of the selectors the invariant allows.
LEMMA PowerCutPreserves ==
    ASSUME IInv, PowerCut
    PROVE  IInv'
<1> USE DEF IInv
<1>1. /\ pc' = Idle /\ job' = NoJob /\ failed' = FALSE /\ acked' = acked
      /\ media' = disk' /\ disk' \in Media
  BY PowerCutType, ZenonT(60) DEF PowerCut
<1>2. TypeOK'
  BY <1>1, ZenonT(60) DEF TypeOK
<1>3. ASSUME NEW k \in Slots, Live(disk, k)
      PROVE  \E n \in Slots : Live(disk', n) /\ disk'.sel[n].gen >= disk.sel[k].gen
  BY <1>3, PowerCutKeepsLive, ZenonT(30)
<1>4. AckInv'
  <2> SUFFICES ASSUME acked > 0
               PROVE  \E n \in Slots : Live(disk', n) /\ disk'.sel[n].gen >= acked
    BY <1>1, ZenonT(30) DEF AckInv, Live, SelectsRecord
  <2>1. PICK k \in Slots : Live(disk, k) /\ disk.sel[k].gen >= acked
    BY ZenonT(30) DEF AckInv
  <2>2. PICK n \in Slots : Live(disk', n) /\ disk'.sel[n].gen >= disk.sel[k].gen
    BY <1>3, <2>1, ZenonT(30)
  <2>3. disk.sel[k].gen \in Nat /\ disk'.sel[n].gen \in Nat /\ acked \in Nat
    BY <1>1, <2>1, <2>2 DEF Live, TypeOK, Media, Bad, Selectors, Generations
  <2> QED
    BY <2>1, <2>2, <2>3, SMTT(30)
<1>5. MediaInv'
  <2>1. \A n \in Slots : Live(disk', n) => disk'.sel[n].gen \in Nat
    BY <1>1 DEF Live, Media, Bad, Selectors, Generations
  <2>2. \A k \in Slots : Live(disk', k) =>
            \E n \in Slots : Live(disk', n) /\ disk'.sel[n].gen >= disk'.sel[k].gen
    BY <2>1
  <2> QED
    BY <1>1, <2>2, Zenon DEF MediaInv, Live, SelectsRecord, Digest
<1>6. JobInv' /\ FlushedInv' /\ SubsetInv'
  BY <1>1, ZenonT(30) DEF JobInv, FlushedInv, SubsetInv, OneDirtyRange, Idle
<1> QED
  BY <1>2, <1>4, <1>5, <1>6, ZenonT(30)

\* Every step keeps the invariant.
LEMMA StepPreserves ==
    ASSUME IInv, [Next]_vars
    PROVE  IInv'
<1>1. CASE UNCHANGED vars
  <2> USE <1>1 DEF vars, IInv
  <2>1. TypeOK' /\ JobInv'
    BY ZenonT(60) DEF TypeOK, JobInv, CommitJob, InitJob, SelectsRecord
  <2>2. MediaInv' /\ AckInv' /\ FlushedInv' /\ SubsetInv'
    BY ZenonT(60) DEF MediaInv, AckInv, FlushedInv, SubsetInv, OneDirtyRange, Live, SelectsRecord
  <2> QED
    BY <2>1, <2>2, ZenonT(30)
<1>2. ASSUME NEW val \in Value, Initialize(val) \/ Commit(val) PROVE IInv'
  BY <1>2, StartPreserves, ZenonT(30)
<1>3. CASE RecordWrite
  <2>1. PICK bytes \in Stored(job.rec) : media' = [media EXCEPT !.rec[job.rslot] = bytes]
    BY <1>3, ZenonT(30) DEF RecordWrite
  <2>2. job.rec \in Records
    BY <1>3, ZenonT(30) DEF RecordWrite, IInv, JobInv, Jobs, Idle
  <2>3. bytes \in Records \cup {Torn}
    BY <2>1, <2>2, ZenonT(30) DEF Stored
  <2> QED
    BY <1>3, <2>1, <2>3, RecordWritePreserves, ZenonT(30) DEF RecordWrite
<1>4. CASE SelectorWrite
  <2>1. PICK bytes \in Stored(NewSelector(job.rslot, job.rec)) :
            media' = [media EXCEPT !.sel[job.sslot] = bytes]
    BY <1>4, ZenonT(30) DEF SelectorWrite
  <2>2. bytes \in {NewSelector(job.rslot, job.rec), Torn}
    BY <2>1, ZenonT(30) DEF Stored
  <2> QED
    BY <1>4, <2>1, <2>2, SelectorWritePreserves, ZenonT(30) DEF SelectorWrite
<1>5. CASE ShortWrite
  BY <1>5, RecordWritePreserves, SelectorWritePreserves, ZenonT(30) DEF ShortWrite
<1> QED
  BY <1>1, <1>2, <1>3, <1>4, <1>5, FlushPreserves, ReadbackPreserves,
     ReopenPreserves, FailPreserves, PowerCutPreserves, ZenonT(30) DEF Next, CommitStep

-----------------------------------------------------------------------------
(* Theorems.                                                               *)

\* Every reachable state of the journal, of any size and in both cache
\* models, satisfies the inductive invariant.
THEOREM Invariance == Spec => []IInv
<1>1. IInv /\ [Next]_vars => IInv'
  BY StepPreserves, ZenonT(30)
<1> QED
  BY <1>1, InitEstablishes, PTL DEF Spec

\* Records, selectors, the pending job and the acknowledged generation stay
\* within their encodings; no generation exceeds MaxGeneration, because
\* commit_record refuses the successor of UINT64_MAX.
THEOREM TypeCorrect == Spec => []TypeOK
<1>1. IInv => TypeOK
  BY ZenonT(30) DEF IInv
<1> QED
  BY <1>1, Invariance, PTL

\* Once commit_record has returned OK, ribon_update_transaction_open succeeds
\* at the acknowledged generation or above, from the volatile and from the
\* durable contents, after any failed call, short write or power cut.
THEOREM AcknowledgedCommitsSurvive == Spec => []AcknowledgedSurvives
<1>1. IInv => AcknowledgedSurvives
  <2> SUFFICES ASSUME IInv, acked > 0
               PROVE  Open(media, acked) = "ok" /\ Open(disk, acked) = "ok"
    BY ZenonT(30) DEF AcknowledgedSurvives
  <2>1. acked \in Nat /\ media \in Media /\ disk \in Media
    BY DEF IInv, TypeOK
  <2>2. PICK k \in Slots : Live(disk, k) /\ disk.sel[k].gen >= acked
    BY ZenonT(30) DEF IInv, AckInv
  <2>3. PICK n \in Slots : Live(media, n) /\ media.sel[n].gen >= disk.sel[k].gen
    BY <2>2, ZenonT(30) DEF IInv, MediaInv
  <2>4. disk.sel[k].gen \in Nat /\ media.sel[n].gen \in Nat
    BY <2>1, <2>2, <2>3 DEF Live, Media, Bad, Selectors, Generations
  <2>5. Newest(disk) = k /\ Newest(media) = n
    BY <2>1, <2>2, <2>3, LiveIsNewest, ZenonT(30)
  <2> QED
    BY <2>1, <2>2, <2>3, <2>4, <2>5, OpenIsLive
<1> QED
  BY <1>1, Invariance, PTL

-----------------------------------------------------------------------------
(***************************************************************************)
(* The refinement: TransactionJournal implements DurableRegister, and in   *)
(* the reference flush model never leaves a corrupt disk.                  *)
(***************************************************************************)

NoLive(m) == \A k \in Slots : ~Live(m, k)

\* From the readback of the record to the write of the selector nothing is
\* unflushed: the value that the commit replaces is durable.
SyncedInv == pc \in {"record_readback", "selector_write"} => media = disk

\* A disk without a live selector is that of a journal whose first commit has
\* not become durable.
FreshInv ==
    NoLive(disk) =>
        /\ media.sel[1] = Blank /\ disk.sel[1] = Blank
        /\ disk.sel[0] \in Bad
        /\ media.sel[0] \in Bad \/ Live(media, 0)
        /\ CacheModel = "subset" => media.sel = disk.sel \/ media.rec = disk.rec
        /\ CacheModel = "reference" => disk.sel[0] = Blank

\* A selector that the reference model reports as written is complete.
WrittenInv ==
    CacheModel = "reference" /\ pc \in AfterSelector => Live(media, job.sslot)

RInv == SyncedInv /\ FreshInv /\ WrittenInv

-----------------------------------------------------------------------------
(* The register value of media.                                            *)

\* A live selector's digest is the register value.
LEMMA CellOfLive ==
    ASSUME NEW m \in Media, NEW n \in Slots, Live(m, n)
    PROVE  /\ Cell(m) = m.sel[n].digest
           /\ Cell(m) \in Digests
           /\ Cell(m) # Blank
           /\ Cell(m).gen = m.sel[n].gen
<1>1. Newest(m) = n
  BY LiveIsNewest, ZenonT(30)
<1>2. m.sel[n] \in Selectors /\ m.sel[n].digest \in Digests /\ m.sel[n].gen \in Nat
  BY DEF Live, Bad, Media, Selectors, Generations
<1>3. Open(m, 0) = "ok"
  BY <1>1, <1>2, OpenIsLive
<1>4. Digest(m.rec[m.sel[n].slot]) = m.sel[n].digest
      /\ m.rec[m.sel[n].slot].gen = m.sel[n].gen
  BY ZenonT(30) DEF Live, SelectsRecord
<1>5. Cell(m) = Digest(m.rec[m.sel[n].slot])
  BY <1>1, <1>3, ZenonT(30) DEF Cell, Snapshot
<1> QED
  BY <1>2, <1>4, <1>5, DecodeAssumption DEF Digest

\* A medium without a live selector is the empty register.
LEMMA CellOfNone ==
    ASSUME NEW m \in Media, NoLive(m)
    PROVE  Cell(m) = Blank
<1>1. Newest(m) \in Slots
  BY ZenonT(30) DEF Newest, Slots
<1>2. Open(m, 0) # "ok"
  BY <1>1, OpenIsLive, ZenonT(30) DEF NoLive
<1> QED
  BY <1>2, ZenonT(30) DEF Cell

\* Media that agree on a live selector have the same register value.
LEMMA CellAgrees ==
    ASSUME NEW m1 \in Media, NEW m2 \in Media, NEW n1 \in Slots, NEW n2 \in Slots,
           Live(m1, n1), Live(m2, n2), m1.sel[n1] = m2.sel[n2]
    PROVE  Cell(m1) = Cell(m2)
  BY CellOfLive, ZenonT(30)

-----------------------------------------------------------------------------
(* The provider calls.  Each lemma states what the call does to RInv and   *)
(* to the register value.                                                  *)

\* A job that is not provisioning works on top of a live selector.
LEMMA JobOfLive ==
    ASSUME IInv, pc \in BeforeSelector
    PROVE  /\ job \in Jobs /\ job.rslot \in Slots /\ job.sslot \in Slots
           /\ \/ CommitJob /\ Live(media, 1 - job.sslot) /\ 1 - job.sslot \in Slots
              \/ InitJob /\ media.sel[0] = Blank /\ media.sel[1] = Blank
<1>1. /\ job \in Jobs /\ job.rslot \in Slots /\ job.sslot \in Slots
      /\ CommitJob \/ InitJob
  BY ZenonT(30) DEF IInv, JobInv, Idle, Jobs, BeforeSelector
<1>2. ASSUME CommitJob PROVE Live(media, 1 - job.sslot) /\ 1 - job.sslot \in Slots
  BY <1>1, <1>2 DEF CommitJob, Live, Slots
<1>3. ASSUME InitJob PROVE media.sel[0] = Blank /\ media.sel[1] = Blank
  BY <1>3, ZenonT(30) DEF InitJob
<1> QED
  BY <1>1, <1>2, <1>3, ZenonT(30)

\* Writing the spare record slot, completely or not, is invisible.
LEMMA RecordWriteMaps ==
    ASSUME IInv, IInv', RInv,
           NEW bytes \in Records \cup {Torn},
           pc = "record_write",
           media' = [media EXCEPT !.rec[job.rslot] = bytes],
           disk' = disk,
           pc' \in {"record_flush", Idle}
    PROVE  RInv' /\ Cell(media') = Cell(media)
<1>1. /\ job \in Jobs /\ job.rslot \in Slots
      /\ \/ \E n \in Slots : Live(media, n)
         \/ media.sel[0] = Blank /\ media.sel[1] = Blank
  BY JobOfLive, ZenonT(30) DEF BeforeSelector
<1>2. /\ media \in Media /\ media' \in Media /\ media'.sel = media.sel
      /\ \A j \in Slots : j # job.rslot => media'.rec[j] = media.rec[j]
  BY <1>1, WriteRecordType DEF IInv, TypeOK, Bad
<1>3. \A n \in Slots : Live(media, n) => Live(media', n)
  BY <1>2, RecordWriteKeepsLive, ZenonT(30)
<1>4. Cell(media') = Cell(media)
  <2>1. CASE \E n \in Slots : Live(media, n)
    BY <1>2, <1>3, <2>1, CellAgrees, ZenonT(60)
  <2>2. CASE media.sel[0] = Blank /\ media.sel[1] = Blank
    <3>1. NoLive(media) /\ NoLive(media')
      BY <1>2, <2>2, ZenonT(30) DEF NoLive, Live, Bad, Slots
    <3> QED
      BY <1>2, <3>1, CellOfNone, ZenonT(30)
  <2> QED
    BY <1>1, <2>1, <2>2, ZenonT(30)
<1>5. CacheModel = "subset" => media = disk
  BY ZenonT(30) DEF IInv, SubsetInv
<1>6. FreshInv'
  BY <1>2, <1>3, <1>5, ZenonT(60) DEF RInv, FreshInv, NoLive, Live, SelectsRecord, Slots
<1> QED
  BY <1>4, <1>6, ZenonT(30) DEF RInv, SyncedInv, WrittenInv, AfterSelector, Idle

\* A flush makes the visible value durable.
LEMMA FlushMaps ==
    ASSUME IInv, RInv, RecordFlush \/ SelectorFlush
    PROVE  RInv'
<1>1. /\ disk' = media /\ media' = media /\ job' = job
      /\ \/ pc = "record_flush" /\ pc' = "record_readback"
         \/ pc = "selector_flush" /\ pc' = "reopen"
  BY ZenonT(30) DEF RecordFlush, SelectorFlush
<1>2. SyncedInv'
  BY <1>1, ZenonT(30) DEF SyncedInv
<1>3. WrittenInv'
  BY <1>1, ZenonT(30) DEF RInv, WrittenInv, AfterSelector, Live, SelectsRecord
<1>4. ASSUME NoLive(media)
      PROVE  /\ media.sel[1] = Blank /\ media.sel[0] \in Bad
             /\ CacheModel = "reference" => media.sel[0] = Blank
  <2>1. NoLive(disk)
    BY <1>4, ZenonT(30) DEF NoLive, IInv, MediaInv
  <2>2. media.sel[1] = Blank /\ media.sel[0] \in Bad
    BY <1>4, <2>1, ZenonT(30) DEF RInv, FreshInv, NoLive, Slots
  <2>3. CASE pc = "record_flush"
    BY <1>4, <2>2, <2>3, JobOfLive, ZenonT(30) DEF NoLive, BeforeSelector
  <2>4. CASE pc = "selector_flush"
    <3>1. job.sslot \in Slots
      BY <2>4, ZenonT(30) DEF IInv, JobInv, Jobs, Idle
    <3> QED
      BY <1>4, <2>2, <2>4, <3>1, ZenonT(30) DEF NoLive, RInv, WrittenInv, AfterSelector
  <2> QED
    BY <1>1, <2>3, <2>4, ZenonT(30)
<1>5. FreshInv'
  BY <1>1, <1>4, ZenonT(30) DEF FreshInv, NoLive, Live, SelectsRecord
<1> QED
  BY <1>2, <1>3, <1>5, ZenonT(30) DEF RInv

\* Writing the selector is the register's numbered write, and invisible when
\* the selector is damaged.
LEMMA SelectorWriteMaps ==
    ASSUME IInv, IInv', RInv,
           NEW bytes \in {NewSelector(job.rslot, job.rec), Torn},
           pc = "selector_write",
           media' = [media EXCEPT !.sel[job.sslot] = bytes],
           disk' = disk, acked' = acked,
           \/ /\ pc' = "selector_flush" /\ job' = job
              /\ CacheModel = "reference" => bytes # Torn
           \/ pc' = Idle
    PROVE  /\ RInv'
           /\ \/ Cell(media') = Cell(media)
              \/ Register!Write /\ Cell(media') = Digest(job.rec)
           /\ media = disk
<1>1. /\ job \in Jobs /\ job.rslot \in Slots /\ job.sslot \in Slots
      /\ \/ CommitJob /\ Live(media, 1 - job.sslot)
         \/ InitJob /\ media.sel[0] = Blank /\ media.sel[1] = Blank
      /\ 1 - job.sslot \in Slots /\ 1 - job.sslot # job.sslot
      /\ 1 - (1 - job.sslot) = job.sslot
  BY JobOfLive DEF BeforeSelector, Slots
<1>2. /\ job.rec \in Records /\ media.rec[job.rslot] = job.rec
      /\ job.rec.gen \in Generations /\ job.rec.val \in Value
  BY <1>1, ZenonT(30) DEF IInv, JobInv, Jobs, Idle, Records
<1>3. /\ NewSelector(job.rslot, job.rec) \in Selectors
      /\ NewSelector(job.rslot, job.rec) \notin Bad
      /\ NewSelector(job.rslot, job.rec).gen = job.rec.gen
      /\ NewSelector(job.rslot, job.rec).digest = Digest(job.rec)
  BY <1>1, <1>2, SelectorOfRecord, ZenonT(30) DEF NewSelector
<1>4. /\ media \in Media /\ media' \in Media /\ disk \in Media
      /\ media'.rec = media.rec
      /\ media'.sel[job.sslot] = bytes
      /\ media'.sel[1 - job.sslot] = media.sel[1 - job.sslot]
  <2>1. bytes \in Selectors \cup Bad
    BY <1>3, ZenonT(30) DEF Bad
  <2>2. media \in Media /\ disk \in Media
    BY ZenonT(30) DEF IInv, TypeOK
  <2> QED
    BY <1>1, <2>1, <2>2, WriteSelectorType, SMTT(30)
<1>5. media = disk
  BY ZenonT(30) DEF RInv, SyncedInv
<1>6. ASSUME bytes # Torn PROVE Live(media', job.sslot)
  <2>1. bytes = NewSelector(job.rslot, job.rec)
    BY <1>6, ZenonT(30)
  <2>2. SelectsRecord(media', job.sslot)
    BY <1>1, <1>2, <1>4, <2>1, SelectorSelects, ZenonT(60)
  <2>3. media.sel[1 - job.sslot] \notin Bad => media.sel[1 - job.sslot].gen < job.rec.gen
    <3>1. CASE CommitJob /\ Live(media, 1 - job.sslot)
      <4>1. media.sel[1 - job.sslot].gen \in Nat
        BY <1>1, <1>4, <3>1 DEF Live, Media, Selectors, Generations, Bad
      <4> QED
        BY <3>1, <4>1 DEF CommitJob
    <3>2. CASE InitJob /\ media.sel[0] = Blank /\ media.sel[1] = Blank
      BY <1>1, <3>2, ZenonT(30) DEF Bad, Slots
    <3> QED
      BY <1>1, <3>1, <3>2, ZenonT(30)
  <2> QED
    BY <1>3, <1>4, <2>1, <2>2, <2>3, ZenonT(30) DEF Live
<1>7. ASSUME bytes = Torn PROVE Cell(media') = Cell(media)
  <2>1. CASE CommitJob /\ Live(media, 1 - job.sslot)
    <3>1. SelectsRecord(media', 1 - job.sslot)
      BY <1>4, <2>1, ZenonT(60) DEF Live, SelectsRecord
    <3>2. Live(media', 1 - job.sslot)
      BY <1>1, <1>4, <1>7, <2>1, <3>1, ZenonT(30) DEF Live, Bad
    <3> QED
      BY <1>1, <1>4, <2>1, <3>2, CellAgrees, ZenonT(60)
  <2>2. CASE InitJob /\ media.sel[0] = Blank /\ media.sel[1] = Blank
    <3>1. NoLive(media) /\ NoLive(media')
      BY <1>1, <1>4, <1>7, <2>2, ZenonT(30) DEF NoLive, Live, Bad, Slots
    <3> QED
      BY <1>4, <3>1, CellOfNone, ZenonT(30)
  <2> QED
    BY <1>1, <2>1, <2>2, ZenonT(30)
<1>8. ASSUME bytes # Torn PROVE Register!Write /\ Cell(media') = Digest(job.rec)
  <2>1. Cell(media') = Digest(job.rec)
    <3>1. media'.sel[job.sslot].digest = Digest(job.rec)
      BY <1>3, <1>4, <1>8, ZenonT(30)
    <3>2. Live(media', job.sslot)
      BY <1>6, <1>8, ZenonT(30)
    <3>3. Cell(media') = media'.sel[job.sslot].digest
      BY <1>1, <1>4, <3>2, CellOfLive, ZenonT(60)
    <3> QED
      BY <3>1, <3>3, ZenonT(30)
  <2>2. job.rec.gen = Register!Generation(Cell(media)) + 1
        /\ Register!Generation(Cell(media)) \in Nat
    <3>1. CASE CommitJob /\ Live(media, 1 - job.sslot)
      <4>1. media.sel[1 - job.sslot].gen \in Nat
        BY <1>1, <1>4, <3>1 DEF Live, Media, Selectors, Generations, Bad
      <4>2. Cell(media) # Blank /\ Cell(media).gen = media.sel[1 - job.sslot].gen
        BY <1>1, <1>4, <3>1, CellOfLive, ZenonT(30)
      <4> QED
        BY <3>1, <4>1, <4>2, ZenonT(30) DEF CommitJob, Register!Generation
    <3>2. CASE InitJob /\ media.sel[0] = Blank /\ media.sel[1] = Blank
      <4>1. NoLive(media)
        BY <3>2, ZenonT(30) DEF NoLive, Live, Bad, Slots
      <4>2. Cell(media) = Blank
        BY <1>4, <4>1, CellOfNone, ZenonT(30)
      <4> QED
        BY <3>2, <4>2 DEF InitJob, Register!Generation
    <3> QED
      BY <1>1, <3>1, <3>2, ZenonT(30)
  <2>3. Register!Generation(Cell(media)) < MaxGeneration
    BY <1>2, <2>2, GenerationAssumption DEF Generations
  <2>4. Cell(media') \in [gen : {Register!Generation(Cell(media)) + 1}, val : Value]
    BY <1>2, <2>1, <2>2 DEF Digest
  <2> QED
    BY <1>5, <1>8, <2>1, <2>3, <2>4, ZenonT(30) DEF Register!Write
<1>9. FreshInv'
  <2> SUFFICES ASSUME NoLive(disk)
               PROVE  FreshInv'
    BY ZenonT(60) DEF FreshInv, NoLive, Live, SelectsRecord
  <2>1. InitJob /\ media.sel[0] = Blank /\ media.sel[1] = Blank /\ job.sslot = 0
    BY <1>1, <1>5, ZenonT(30) DEF NoLive, InitJob
  <2>2. media'.sel[0] \in Bad \/ Live(media', 0)
    BY <1>4, <1>6, <2>1, ZenonT(30) DEF Bad
  <2>3. media'.sel[1] = Blank
    BY <1>4, <2>1, SMTT(30)
  <2> QED
    BY <1>4, <1>5, <2>1, <2>2, <2>3, ZenonT(30) DEF FreshInv, Bad
<1>10. SyncedInv' /\ WrittenInv'
  BY <1>6, ZenonT(30) DEF SyncedInv, WrittenInv, AfterSelector, Idle, Live, SelectsRecord
<1> QED
  BY <1>5, <1>7, <1>8, <1>9, <1>10, ZenonT(30) DEF RInv

\* A power cut leaves the visible or the durable value.
LEMMA PowerCutMaps ==
    ASSUME IInv, IInv', RInv, PowerCut
    PROVE  RInv' /\ Register!PowerCut
<1>1. /\ media \in Media /\ disk \in Media /\ disk' \in Media
      /\ media' = disk' /\ pc' = Idle /\ acked' = acked
  <2>1. TypeOK
    BY ZenonT(30) DEF IInv
  <2>2. media \in Media /\ disk \in Media
    BY <2>1, ZenonT(30) DEF TypeOK
  <2> QED
    BY <2>1, <2>2, PowerCutType, ZenonT(60) DEF PowerCut
<1>2. SyncedInv' /\ WrittenInv'
  BY <1>1, ZenonT(30) DEF SyncedInv, WrittenInv, AfterSelector, Idle
<1>3. ASSUME NEW k \in Slots, Live(disk, k)
      PROVE  /\ ~NoLive(disk')
             /\ Cell(disk') \in {Cell(media), Cell(disk)}
  <2>1. PICK n \in Slots : /\ Live(disk', n)
                           /\ \/ disk'.sel[n] = disk.sel[k]
                              \/ Live(media, n) /\ disk'.sel[n] = media.sel[n]
    BY <1>3, PowerCutKeepsLive, ZenonT(30)
  <2>2. CASE disk'.sel[n] = disk.sel[k]
    BY <1>1, <1>3, <2>1, <2>2, CellAgrees, ZenonT(30) DEF NoLive
  <2>3. CASE Live(media, n) /\ disk'.sel[n] = media.sel[n]
    BY <1>1, <2>1, <2>3, CellAgrees, ZenonT(30) DEF NoLive
  <2> QED
    BY <2>1, <2>2, <2>3, ZenonT(30)
<1>4. ASSUME NoLive(disk)
      PROVE  /\ disk'.sel[1] = Blank
             /\ \/ disk'.sel[0] \in Bad
                \/ Live(media, 0) /\ Live(disk', 0) /\ disk'.sel[0] = media.sel[0]
             /\ CacheModel = "reference" => disk'.sel[0] = Blank
  <2>1. /\ media.sel[1] = Blank /\ disk.sel[1] = Blank
        /\ disk.sel[0] \in Bad
        /\ media.sel[0] \in Bad \/ Live(media, 0)
        /\ CacheModel = "subset" => media.sel = disk.sel \/ media.rec = disk.rec
        /\ CacheModel = "reference" => disk.sel[0] = Blank
    BY <1>4, ZenonT(30) DEF RInv, FreshInv
  <2>2. CASE CacheModel = "reference"
    BY <2>1, <2>2, PowerCutType, ZenonT(30) DEF IInv
  <2>3. CASE CacheModel = "subset"
    <3>1. /\ disk'.sel[1] = Blank
          /\ disk'.sel[0] \in {disk.sel[0], media.sel[0], Torn}
      BY <2>1, PowerCutType, ZenonT(30) DEF IInv, Slots
    <3>2. ASSUME disk'.sel[0] \notin Bad
          PROVE  Live(media, 0) /\ Live(disk', 0) /\ disk'.sel[0] = media.sel[0]
      <4>1. /\ disk'.sel[0] = media.sel[0] /\ media.sel[0] \notin Bad
            /\ Live(media, 0) /\ media.rec = disk.rec
        BY <2>1, <2>3, <3>1, <3>2, ZenonT(30) DEF Bad
      <4>2. media.sel[0].slot \in Slots
        BY <1>1, <4>1, ZenonT(30) DEF Media, Selectors, Bad, Slots
      <4>3. disk'.rec[media.sel[0].slot] = media.rec[media.sel[0].slot]
        BY <4>1, <4>2, PowerCutType DEF IInv
      <4>4. SelectsRecord(disk', 0)
        BY <4>1, <4>3, ZenonT(30) DEF Live, SelectsRecord
      <4> QED
        BY <3>1, <4>1, <4>4 DEF Live, Bad
    <3> QED
      BY <2>3, <3>1, <3>2, ZenonT(30)
  <2> QED
    BY <2>2, <2>3, CallerAssumption, ZenonT(30)
<1>5. FreshInv'
  <2> SUFFICES ASSUME NoLive(disk')
               PROVE  FreshInv'
    BY ZenonT(30) DEF FreshInv, NoLive, Live, SelectsRecord
  <2>1. NoLive(disk)
    BY <1>3, ZenonT(30) DEF NoLive
  <2>2. ~Live(disk', 0)
    BY ZenonT(30) DEF NoLive, Slots
  <2> QED
    BY <1>1, <1>4, <2>1, <2>2, ZenonT(30) DEF FreshInv
<1>6. Cell(disk') \in {Cell(media), Cell(disk)}
  <2>1. CASE NoLive(disk)
    <3>1. CASE disk'.sel[0] \in Bad
      <4>1. NoLive(disk')
        BY <1>4, <2>1, <3>1, ZenonT(30) DEF NoLive, Live, Bad, Slots
      <4> QED
        BY <1>1, <2>1, <4>1, CellOfNone, ZenonT(30)
    <3>2. CASE Live(media, 0) /\ Live(disk', 0) /\ disk'.sel[0] = media.sel[0]
      BY <1>1, <3>2, CellAgrees, ZenonT(30) DEF Slots
    <3> QED
      BY <1>4, <2>1, <3>1, <3>2, ZenonT(30)
  <2> QED
    BY <1>3, <2>1, ZenonT(30) DEF NoLive
<1> QED
  BY <1>1, <1>2, <1>5, <1>6, ZenonT(30) DEF RInv, Register!PowerCut

\* commit_record returns OK for a durable value only.
LEMMA ReopenMaps ==
    ASSUME IInv, Reopen
    PROVE  Register!Acknowledge
<1>1. media = disk /\ media \in Media
  BY ZenonT(30) DEF IInv, FlushedInv, TypeOK, Reopen
<1>2. job.rec.gen \in Nat /\ acked \in Nat
  BY DEF IInv, JobInv, Jobs, Records, Generations, Idle, Reopen, TypeOK
<1>3. Newest(media) \in Slots /\ Live(media, Newest(media))
  BY <1>1, <1>2, OpenIsLive, ZenonT(30) DEF Reopen, Newest, Slots
<1>4. Cell(media) # Blank /\ Cell(media).gen = media.sel[Newest(media)].gen
  BY <1>1, <1>3, CellOfLive, ZenonT(30)
<1>5. media.sel[Newest(media)].gen = job.rec.gen
  BY <1>3, ZenonT(30) DEF Reopen, Snapshot, Live, SelectsRecord
<1> QED
  BY <1>1, <1>4, <1>5, ZenonT(30) DEF Reopen, Register!Acknowledge

\* Every step of the journal is a step of the register or none.
LEMMA StepMaps ==
    ASSUME IInv, IInv', RInv, [Next]_vars
    PROVE  RInv' /\ [Register!Next]_(Register!vars)
<1> USE DEF Register!Next, Register!vars
<1>1. ASSUME media' = media, disk' = disk, acked' = acked,
             \/ pc' = pc /\ job' = job
             \/ pc' \in {Idle, "record_write"}
             \/ pc = "record_readback" /\ pc' = "selector_write"
      PROVE  RInv' /\ [Register!Next]_(Register!vars)
  <2>1. FreshInv'
    BY <1>1, ZenonT(60) DEF RInv, FreshInv, NoLive, Live, SelectsRecord
  <2>2. SyncedInv' /\ WrittenInv'
    BY <1>1, ZenonT(60) DEF RInv, SyncedInv, WrittenInv, AfterSelector, Idle, Live, SelectsRecord
  <2>3. Cell(media') = Cell(media) /\ Cell(disk') = Cell(disk)
    BY <1>1, ZenonT(30)
  <2> QED
    BY <1>1, <2>1, <2>2, <2>3, ZenonT(30) DEF RInv
<1>2. ASSUME NEW val \in Value, Initialize(val) \/ Commit(val)
      PROVE  RInv' /\ [Register!Next]_(Register!vars)
  BY <1>1, <1>2, ZenonT(30) DEF Initialize, Commit
<1>3. ASSUME UNCHANGED vars \/ RecordReadback \/ Fail
      PROVE  RInv' /\ [Register!Next]_(Register!vars)
  BY <1>1, <1>3, ZenonT(30) DEF vars, RecordReadback, Fail
<1>4. CASE RecordWrite \/ (ShortWrite /\ pc = "record_write")
  <2>1. job.rec \in Records
    BY <1>4, ZenonT(30) DEF RecordWrite, IInv, JobInv, Jobs, Idle
  <2>2. \E bytes \in Records \cup {Torn} : media' = [media EXCEPT !.rec[job.rslot] = bytes]
    BY <1>4, <2>1, ZenonT(30) DEF RecordWrite, ShortWrite, Stored
  <2>3. /\ pc = "record_write" /\ pc' \in {"record_flush", Idle}
        /\ disk' = disk /\ acked' = acked
    BY <1>4, ZenonT(30) DEF RecordWrite, ShortWrite
  <2>4. RInv' /\ Cell(media') = Cell(media)
    BY <2>2, <2>3, RecordWriteMaps, ZenonT(30)
  <2> QED
    BY <2>3, <2>4, ZenonT(30)
<1>5. CASE SelectorWrite \/ (ShortWrite /\ pc = "selector_write")
  <2>1. /\ pc = "selector_write"
        /\ disk' = disk /\ acked' = acked
    BY <1>5, ZenonT(30) DEF SelectorWrite, ShortWrite
  <2>2. \E bytes \in {NewSelector(job.rslot, job.rec), Torn} :
            /\ media' = [media EXCEPT !.sel[job.sslot] = bytes]
            /\ \/ /\ pc' = "selector_flush" /\ job' = job
                  /\ CacheModel = "reference" => bytes # Torn
               \/ pc' = Idle
    <3>1. CASE SelectorWrite
      <4>1. PICK bytes \in Stored(NewSelector(job.rslot, job.rec)) :
                media' = [media EXCEPT !.sel[job.sslot] = bytes]
        BY <3>1, ZenonT(30) DEF SelectorWrite
      <4>2. job.rec \in Records /\ job.rslot \in Slots
        BY <3>1, ZenonT(30) DEF SelectorWrite, IInv, JobInv, Jobs, Idle
      <4>3. NewSelector(job.rslot, job.rec) # Torn
        BY <4>2, SelectorOfRecord, ZenonT(30) DEF Bad
      <4>4. bytes \in {NewSelector(job.rslot, job.rec), Torn}
            /\ (CacheModel = "reference" => bytes # Torn)
        BY <4>1, <4>3, ZenonT(30) DEF Stored
      <4> QED
        BY <3>1, <4>1, <4>4, ZenonT(30) DEF SelectorWrite
    <3>2. CASE ShortWrite /\ pc = "selector_write"
      BY <3>2, ZenonT(30) DEF ShortWrite
    <3> QED
      BY <1>5, <3>1, <3>2, ZenonT(30)
  <2>3. RInv' /\ (Cell(media') = Cell(media) \/ Register!Write)
    BY <2>1, <2>2, SelectorWriteMaps, ZenonT(30)
  <2> QED
    BY <2>1, <2>3, ZenonT(30)
<1>6. CASE RecordFlush \/ SelectorFlush
  <2>1. media' = media /\ disk' = media /\ acked' = acked
    BY <1>6, ZenonT(30) DEF RecordFlush, SelectorFlush
  <2>2. Register!Sync
    BY <2>1, ZenonT(30) DEF Register!Sync
  <2> QED
    BY <1>6, <2>2, FlushMaps, ZenonT(30)
<1>7. CASE Reopen
  <2>1. media' = media /\ disk' = disk /\ pc' = Idle
    BY <1>7, ZenonT(30) DEF Reopen
  <2>2. FreshInv' /\ SyncedInv' /\ WrittenInv'
    BY <2>1, ZenonT(60) DEF RInv, FreshInv, NoLive, Live, SelectsRecord, SyncedInv, WrittenInv,
                AfterSelector, Idle
  <2> QED
    BY <1>7, <2>2, ReopenMaps, ZenonT(30) DEF RInv
<1>8. CASE PowerCut
  BY <1>8, PowerCutMaps, ZenonT(30)
<1>9. ShortWrite => pc \in {"record_write", "selector_write"}
  BY ZenonT(30) DEF ShortWrite
<1> QED
  BY <1>2, <1>3, <1>4, <1>5, <1>6, <1>7, <1>8, <1>9, ZenonT(30) DEF Next, CommitStep

-----------------------------------------------------------------------------
(* Theorems.                                                               *)

\* The erased medium is the initial register.
LEMMA InitMaps == Init => RInv /\ Register!Init
<1> SUFFICES ASSUME Init
             PROVE  RInv /\ Register!Init
  BY ZenonT(30)
<1>1. /\ media \in Media /\ disk = media /\ pc = Idle /\ acked = 0
      /\ media.sel[0] = Blank /\ media.sel[1] = Blank
  BY ZenonT(30) DEF Init, Media, Slots
<1>2. NoLive(media)
  BY <1>1, ZenonT(30) DEF NoLive, Live, Bad, Slots
<1>3. Cell(media) = Blank
  BY <1>1, <1>2, CellOfNone, ZenonT(30)
<1>4. RInv
  BY <1>1, ZenonT(30) DEF RInv, SyncedInv, FreshInv, WrittenInv, AfterSelector, Idle, Bad
<1> QED
  BY <1>1, <1>3, <1>4, ZenonT(30) DEF Register!Init

\* The invariants of the refinement hold in every state.
LEMMA RefinementInvariance == Spec => [](IInv /\ RInv)
<1>1. IInv /\ RInv /\ [Next]_vars => (IInv /\ RInv)'
  BY StepPreserves, StepMaps, ZenonT(30)
<1> QED
  BY <1>1, InitEstablishes, InitMaps, PTL DEF Spec

\* Seen through ribon_update_transaction_open, commit_record with its six
\* provider calls, its failures, short writes and power cuts is one atomic
\* numbered write, for any set of record contents, any generation limit and
\* both cache models.
THEOREM JournalRefinesRegister == Spec => ImplementsRegister
<1>1. IInv /\ RInv /\ IInv' /\ RInv' /\ [Next]_vars => [Register!Next]_(Register!vars)
  BY StepMaps, ZenonT(30)
<1>2. Init => Register!Init
  BY InitMaps, ZenonT(30)
<1> QED
  BY <1>1, <1>2, RefinementInvariance, PTL DEF Spec, ImplementsRegister, Register!Spec

\* In the reference flush model ribon_update_transaction_open finds after
\* every power cycle a journal that is uninitialized or complete.
THEOREM ReferenceDiskNeverCorrupt == Spec => []ReferenceNeverCorrupt
<1>1. IInv /\ RInv => ReferenceNeverCorrupt
  <2> SUFFICES ASSUME IInv, RInv, CacheModel = "reference"
               PROVE  Open(disk, acked) \in {"uninitialized", "ok"}
    BY ZenonT(30) DEF ReferenceNeverCorrupt
  <2>1. disk \in Media /\ acked \in Nat
    BY DEF IInv, TypeOK
  <2>2. CASE NoLive(disk)
    <3>1. \A i \in Slots : disk.sel[i] = Blank
      BY <2>2, ZenonT(30) DEF RInv, FreshInv, Slots
    <3>2. ValidSelectors(disk) = {}
      BY <3>1, ZenonT(30) DEF ValidSelectors
    <3> QED
      BY <3>1, <3>2, ZenonT(30) DEF Open
  <2>3. ASSUME NEW k \in Slots, Live(disk, k)
        PROVE  Open(disk, acked) = "ok"
    <3>1. Newest(disk) = k /\ disk.sel[k].gen \in Nat
      BY <2>1, <2>3, LiveIsNewest DEF Live, Media, Bad, Selectors, Generations
    <3>2. disk.sel[k].gen >= acked
      <4>1. CASE acked = 0
        BY <3>1, <4>1
      <4>2. CASE acked > 0
        <5>1. PICK j \in Slots : Live(disk, j) /\ disk.sel[j].gen >= acked
          BY <4>2, ZenonT(30) DEF IInv, AckInv
        <5> QED
          BY <2>1, <3>1, <5>1, LiveIsNewest, ZenonT(30)
      <4> QED
        BY <2>1, <4>1, <4>2
    <3> QED
      BY <2>1, <2>3, <3>1, <3>2, OpenIsLive, ZenonT(30)
  <2> QED
    BY <2>2, <2>3, ZenonT(30) DEF NoLive
<1> QED
  BY <1>1, RefinementInvariance, PTL

-----------------------------------------------------------------------------
(***************************************************************************)
(* What the operations mean to a caller that only sees the register value. *)
(* UpdateTransactionProofs builds on these facts.                          *)
(***************************************************************************)

\* open succeeds exactly on media that have a value, and returns that value.
LEMMA OpenIsCell ==
    ASSUME NEW m \in Media
    PROVE  /\ Open(m, 0) = "ok" <=> Cell(m) # Blank
           /\ Cell(m) # Blank => /\ Cell(m) \in Digests
                                 /\ Cell(m).gen = Snapshot(m).gen
                                 /\ Cell(m).val = Snapshot(m).val
           /\ \A minimum \in Nat : /\ Open(m, minimum) = "ok" => Cell(m) # Blank
                                   /\ Open(m, minimum) = "uninitialized" => Cell(m) = Blank
<1>1. Newest(m) \in Slots
  BY ZenonT(30) DEF Newest, Slots
<1>2. ASSUME NEW minimum \in Nat, Open(m, minimum) = "ok"
      PROVE  Live(m, Newest(m))
  BY <1>2, OpenIsLive, ZenonT(30)
<1>3. ASSUME Live(m, Newest(m))
      PROVE  /\ Cell(m) # Blank /\ Cell(m) \in Digests /\ Open(m, 0) = "ok"
             /\ Cell(m) = Digest(Snapshot(m))
  <2>1. Cell(m) # Blank /\ Cell(m) \in Digests
    BY <1>1, <1>3, CellOfLive, ZenonT(30)
  <2> QED
    BY <2>1, ZenonT(30) DEF Cell
<1>4. ASSUME NEW minimum \in Nat, Open(m, minimum) = "uninitialized"
      PROVE  Cell(m) = Blank
  <2>1. ValidSelectors(m) = {}
    BY <1>4, ZenonT(30) DEF Open
  <2>2. Open(m, 0) # "ok"
    BY <2>1, ZenonT(30) DEF Open
  <2> QED
    BY <2>2, ZenonT(30) DEF Cell
<1>5. Cell(m) # Blank => Open(m, 0) = "ok"
  BY ZenonT(30) DEF Cell
<1>6. \A r : Digest(r).gen = r.gen /\ Digest(r).val = r.val
  BY ZenonT(30) DEF Digest
<1> QED
  BY <1>2, <1>3, <1>4, <1>5, <1>6, ZenonT(30)

\* A call starts on the value that open returns, and ends with its own.
LEMMA StartAndEnd ==
    ASSUME IInv, NEW val
    PROVE  /\ Initialize(val) => /\ Cell(media) = Blank
                                 /\ Digest(job'.rec) = [gen |-> 1, val |-> val]
           /\ Commit(val) => /\ Cell(media) # Blank
                             /\ Digest(job'.rec) = [gen |-> Cell(media).gen + 1, val |-> val]
           /\ Reopen => Cell(media) = Digest(job.rec) /\ Cell(media) # Blank
<1>1. media \in Media /\ acked \in Nat
  BY DEF IInv, TypeOK
<1>2. ASSUME Initialize(val)
      PROVE  Cell(media) = Blank /\ Digest(job'.rec) = [gen |-> 1, val |-> val]
  <2>1. Open(media, acked) = "uninitialized" /\ job'.rec = NewRecord(1, val, Blank)
    BY <1>2, ZenonT(30) DEF Initialize
  <2> QED
    BY <1>1, <2>1, OpenIsCell DEF Digest, NewRecord
<1>3. ASSUME Commit(val)
      PROVE  /\ Cell(media) # Blank
             /\ Digest(job'.rec) = [gen |-> Cell(media).gen + 1, val |-> val]
  <2>1. /\ Open(media, acked) = "ok"
        /\ job'.rec = NewRecord(Snapshot(media).gen + 1, val, Digest(Snapshot(media)))
    BY <1>3, ZenonT(30) DEF Commit
  <2>2. Cell(media) # Blank /\ Cell(media).gen = Snapshot(media).gen
    BY <1>1, <2>1, OpenIsCell, ZenonT(30)
  <2> QED
    BY <2>1, <2>2 DEF Digest, NewRecord
<1>4. ASSUME Reopen PROVE Cell(media) = Digest(job.rec) /\ Cell(media) # Blank
  <2>1. Open(media, acked) = "ok" /\ Digest(Snapshot(media)) = Digest(job.rec)
    BY <1>4, ZenonT(30) DEF Reopen
  <2>2. Cell(media) # Blank
    BY <1>1, <2>1, OpenIsCell, ZenonT(30)
  <2> QED
    BY <2>1, <2>2, ZenonT(30) DEF Cell
<1> QED
  BY <1>2, <1>3, <1>4, ZenonT(30)

\* Only the selector write changes the value that is read, and a power cut
\* leaves the value that was read or the one that was durable.
LEMMA CellSteps ==
    ASSUME IInv, IInv', RInv
    PROVE  /\ RecordWrite \/ (ShortWrite /\ pc = "record_write")
                => Cell(media') = Cell(media) /\ disk' = disk
           /\ SelectorWrite \/ (ShortWrite /\ pc = "selector_write")
                => /\ Cell(media') \in {Cell(media), Digest(job.rec)}
                   /\ Cell(disk) = Cell(media) /\ disk' = disk
           /\ PowerCut => /\ Cell(disk') \in {Cell(media), Cell(disk)} /\ media' = disk'
                          /\ CacheModel = "reference" => disk' = disk
<1>1. ASSUME RecordWrite \/ (ShortWrite /\ pc = "record_write")
      PROVE  Cell(media') = Cell(media) /\ disk' = disk
  <2>1. job.rec \in Records
    BY <1>1, ZenonT(30) DEF RecordWrite, IInv, JobInv, Jobs, Idle
  <2>2. \E bytes \in Records \cup {Torn} : media' = [media EXCEPT !.rec[job.rslot] = bytes]
    BY <1>1, <2>1, ZenonT(30) DEF RecordWrite, ShortWrite, Stored
  <2>3. pc = "record_write" /\ pc' \in {"record_flush", Idle} /\ disk' = disk
    BY <1>1, ZenonT(30) DEF RecordWrite, ShortWrite
  <2> QED
    BY <2>2, <2>3, RecordWriteMaps, ZenonT(30)
<1>2. ASSUME SelectorWrite \/ (ShortWrite /\ pc = "selector_write")
      PROVE  /\ Cell(media') \in {Cell(media), Digest(job.rec)}
             /\ Cell(disk) = Cell(media) /\ disk' = disk
  <2>1. job.rec \in Records /\ job.rslot \in Slots
    BY <1>2, ZenonT(30) DEF SelectorWrite, IInv, JobInv, Jobs, Idle
  <2>2. NewSelector(job.rslot, job.rec) # Torn
    BY <2>1, SelectorOfRecord, ZenonT(30) DEF Bad
  <2>3. PICK bytes \in {NewSelector(job.rslot, job.rec), Torn} :
            /\ media' = [media EXCEPT !.sel[job.sslot] = bytes]
            /\ \/ /\ pc' = "selector_flush" /\ job' = job
                  /\ CacheModel = "reference" => bytes # Torn
               \/ pc' = Idle
    <3>1. CASE SelectorWrite
      <4>1. PICK bytes \in Stored(NewSelector(job.rslot, job.rec)) :
                media' = [media EXCEPT !.sel[job.sslot] = bytes]
        BY <3>1, ZenonT(30) DEF SelectorWrite
      <4>2. bytes \in {NewSelector(job.rslot, job.rec), Torn}
            /\ (CacheModel = "reference" => bytes # Torn)
        BY <4>1, <2>2, ZenonT(30) DEF Stored
      <4> QED
        BY <3>1, <4>1, <4>2, ZenonT(30) DEF SelectorWrite
    <3>2. CASE ShortWrite /\ pc = "selector_write"
      BY <3>2, ZenonT(30) DEF ShortWrite
    <3> QED
      BY <1>2, <3>1, <3>2, ZenonT(30)
  <2>4. pc = "selector_write" /\ disk' = disk /\ acked' = acked
    BY <1>2, ZenonT(30) DEF SelectorWrite, ShortWrite
  <2>5. /\ Cell(media') = Cell(media) \/ Cell(media') = Digest(job.rec)
        /\ media = disk
    BY <2>3, <2>4, SelectorWriteMaps, ZenonT(30)
  <2> QED
    BY <2>4, <2>5, ZenonT(30)
<1>3. ASSUME PowerCut
      PROVE  /\ Cell(disk') \in {Cell(media), Cell(disk)} /\ media' = disk'
             /\ CacheModel = "reference" => disk' = disk
  <2>1. Register!PowerCut
    BY <1>3, PowerCutMaps, ZenonT(30)
  <2>2. Cell(disk') \in {Cell(media), Cell(disk)}
    BY <2>1, ZenonT(30) DEF Register!PowerCut
  <2>3. ASSUME CacheModel = "reference" PROVE disk' = disk
    <3>1. disk \in Media
      BY ZenonT(30) DEF IInv, TypeOK
    <3>2. disk' = [rec |-> [i \in Slots |-> IF i = 0 THEN disk.rec[0] ELSE disk.rec[1]],
                   sel |-> [i \in Slots |-> IF i = 0 THEN disk.sel[0] ELSE disk.sel[1]]]
      BY <1>3, <2>3, ZenonT(30) DEF PowerCut, Survivors
    <3> QED
      BY <3>1, <3>2, ZenonT(30) DEF Media, Slots
  <2> QED
    BY <1>3, <2>2, <2>3, ZenonT(30) DEF PowerCut
<1> QED
  BY <1>1, <1>2, <1>3, ZenonT(30)

\* Between two commits the caller may flush a journal that has a value, and
\* may fail in calls of its own.
LEMMA CallerSteps ==
    ASSUME IInv, RInv, pc = Idle,
           media' = media, pc' = pc, job' = job, acked' = acked,
           \/ disk' = disk /\ failed' = TRUE
           \/ disk' = media /\ failed' = failed /\ Cell(media) # Blank
    PROVE  IInv' /\ RInv'
<1>1. TypeOK' /\ JobInv'
  BY ZenonT(60) DEF IInv, TypeOK, JobInv
<1>2. CASE disk' = disk /\ failed' = TRUE
  <2>1. MediaInv' /\ AckInv' /\ FlushedInv'
    BY <1>2, ZenonT(60) DEF IInv, MediaInv, AckInv, FlushedInv
  <2>2. SubsetInv'
    BY <1>2, ZenonT(60) DEF IInv, SubsetInv, OneDirtyRange, Idle
  <2>3. RInv'
    BY <1>2, ZenonT(60) DEF RInv, SyncedInv, FreshInv, WrittenInv
  <2> QED
    BY <1>1, <2>1, <2>2, <2>3, ZenonT(30) DEF IInv
<1>3. CASE disk' = media /\ failed' = failed /\ Cell(media) # Blank
  <2>1. media \in Media /\ disk \in Media /\ acked \in Nat
    BY DEF IInv, TypeOK
  <2>2. ~NoLive(media)
    BY <1>3, <2>1, CellOfNone, ZenonT(30)
  <2>3. \A m \in Media, n \in Slots : Live(m, n) => m.sel[n].gen \in Nat
    BY DEF Live, Media, Bad, Selectors, Generations
  <2>4. MediaInv'
    <3> SUFFICES ASSUME NEW k \in Slots, Live(media, k)
                 PROVE  \E n \in Slots : Live(media, n) /\ media.sel[n].gen >= media.sel[k].gen
      BY <1>3, ZenonT(60) DEF MediaInv
    <3> QED
      BY <2>1, <2>3
  <2>5. acked > 0 => \E k \in Slots : Live(media, k) /\ media.sel[k].gen >= acked
    BY <2>1, <2>3 DEF IInv, MediaInv, AckInv
  <2>6. AckInv'
    BY <1>3, <2>5, ZenonT(60) DEF AckInv
  <2>7. FlushedInv' /\ SubsetInv'
    BY <1>3, ZenonT(60) DEF FlushedInv, SubsetInv, OneDirtyRange
  <2>8. RInv'
    BY <1>3, <2>2, ZenonT(30) DEF RInv, SyncedInv, FreshInv, WrittenInv, AfterSelector, Idle
  <2> QED
    BY <1>1, <2>4, <2>6, <2>7, <2>8, ZenonT(30) DEF IInv
<1> QED
  BY <1>2, <1>3, ZenonT(60)
=============================================================================
