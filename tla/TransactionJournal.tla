------------------------- MODULE TransactionJournal -------------------------
(***************************************************************************)
(* The selector-committed journal of src/update/transaction.c: two record  *)
(* slots and two selector slots on a storage provider with a volatile      *)
(* cache.  commit_record writes the record slot that the newest selector   *)
(* does not name, flushes, reads it back, writes the older selector,       *)
(* flushes and reopens.  Every provider call may fail, the fault observer  *)
(* may interrupt before and after every call, and power may be lost        *)
(* between any two calls.                                                  *)
(*                                                                         *)
(* What a record carries (target slot and slot metadata) is one opaque     *)
(* value of the set Value.  A SHA-256 digest is collision free, so it is   *)
(* modelled by what it covers.                                             *)
(***************************************************************************)
EXTENDS Naturals

CONSTANTS
    Value,             \* contents of a record: metadata and target slot
    Blank,             \* media bytes that are all zero
    Torn,              \* media bytes that fail the magic, SHA-256 or CRC32C
    MaxGeneration,     \* stands for UINT64_MAX
    CacheModel,        \* "reference": only a flush reaches the disk;
                       \* "subset": a power cut may keep or tear any
                       \*           unflushed write, and a write that
                       \*           succeeds may hold damaged bytes
    RetryWithoutReset  \* the caller may start again after a failed call
                       \* without a power cycle

ASSUME GenerationAssumption == MaxGeneration \in Nat \ {0}

ASSUME ContentAssumption ==
    /\ Blank # Torn
    /\ Blank \notin Value
    /\ Torn \notin Value

(***************************************************************************)
(* A provider that tears unflushed writes is only used by callers that     *)
(* reset after a failed call; the reference flush model of the power-cut   *)
(* tests allows both kinds of caller.                                      *)
(***************************************************************************)
ASSUME CallerAssumption ==
    /\ CacheModel \in {"reference", "subset"}
    /\ RetryWithoutReset \in BOOLEAN
    /\ CacheModel = "subset" => ~RetryWithoutReset

VARIABLES
    media,   \* what a provider read returns (volatile contents)
    disk,    \* what survives a power cut
    pc,      \* the next provider call of commit_record, or "idle"
    job,     \* the record and the selector that commit_record writes
    failed,  \* a call failed since the last power cycle
    acked    \* generation of the last commit that returned OK; the product
             \* supplies it as minimum_generation

vars == <<media, disk, pc, job, failed, acked>>

-----------------------------------------------------------------------------
(* Records and selectors.                                                  *)

Slots == {0, 1}
Generations == 1 .. MaxGeneration

Digests == [gen : Generations, val : Value]
Digest(record) == [gen |-> record.gen, val |-> record.val]

Records == [gen : Generations, val : Value, pred : Digests \cup {Blank}]
Selectors == [slot : Slots, gen : Generations, digest : Digests,
              pred : Digests \cup {Blank}]

\* Zero and damaged bytes decode neither as a record nor as a selector, and
\* no record has the all-zero digest.
ASSUME DecodeAssumption ==
    \A bytes \in {Blank, Torn} :
        bytes \notin Records /\ bytes \notin Selectors /\ bytes \notin Digests

Media == [rec : [Slots -> Records \cup {Blank, Torn}],
          sel : [Slots -> Selectors \cup {Blank, Torn}]]

NewRecord(gen, val, pred) == [gen |-> gen, val |-> val, pred |-> pred]

NewSelector(slot, record) ==
    [slot |-> slot, gen |-> record.gen, digest |-> Digest(record),
     pred |-> record.pred]

-----------------------------------------------------------------------------
(* ribon_update_transaction_open as a function of the media it reads.      *)

ValidSelectors(m) == {i \in Slots : m.sel[i] \notin {Blank, Torn}}

\* The only valid selector, or the one of greater generation.
Newest(m) ==
    IF 0 \notin ValidSelectors(m) THEN 1
    ELSE IF 1 \notin ValidSelectors(m) THEN 0
    ELSE IF m.sel[1].gen > m.sel[0].gen THEN 1 ELSE 0

\* The selected record decodes and is the one the selector was made for.
SelectsRecord(m, i) ==
    LET selector == m.sel[i]
        record == m.rec[selector.slot]
    IN  /\ record \notin {Blank, Torn}
        /\ record.gen = selector.gen
        /\ record.pred = selector.pred
        /\ Digest(record) = selector.digest

Open(m, minimum) ==
    IF ValidSelectors(m) = {}
    THEN IF \A i \in Slots : m.sel[i] = Blank THEN "uninitialized" ELSE "corrupt"
    ELSE IF ValidSelectors(m) = Slots /\ m.sel[0].gen = m.sel[1].gen THEN "conflict"
    ELSE IF m.sel[Newest(m)].gen < minimum THEN "replay"
    ELSE IF SelectsRecord(m, Newest(m)) THEN "ok" ELSE "corrupt"

Snapshot(m) == m.rec[m.sel[Newest(m)].slot]

-----------------------------------------------------------------------------
Idle == "idle"
Steps == {"record_write", "record_flush", "record_readback",
          "selector_write", "selector_flush", "reopen"}
NoJob == [rec |-> Blank, rslot |-> 0, sslot |-> 0]
Jobs == [rec : Records, rslot : Slots, sslot : Slots]

Init ==
    /\ media = [rec |-> [i \in Slots |-> Blank], sel |-> [i \in Slots |-> Blank]]
    /\ disk = media
    /\ pc = Idle
    /\ job = NoJob
    /\ failed = FALSE
    /\ acked = 0

MayCall == pc = Idle /\ (failed => RetryWithoutReset)

\* initialize: only an uninitialized journal gets generation 1 in slots 0/0.
Initialize(val) ==
    /\ MayCall
    /\ Open(media, acked) = "uninitialized"
    /\ job' = [rec |-> NewRecord(1, val, Blank), rslot |-> 0, sslot |-> 0]
    /\ pc' = "record_write"
    /\ UNCHANGED <<media, disk, failed, acked>>

\* Mutant of Commit: the live record slot is used again.
CommitInPlace(val) ==
    /\ MayCall
    /\ Open(media, acked) = "ok"
    /\ LET current == Snapshot(media)
       IN  /\ current.gen < MaxGeneration
           /\ job' = [rec |-> NewRecord(current.gen + 1, val, Digest(current)),
                      rslot |-> media.sel[Newest(media)].slot,
                      sslot |-> 1 - Newest(media)]
    /\ pc' = "record_write"
    /\ UNCHANGED <<media, disk, failed, acked>>

\* The head of commit_record for a successor of the current snapshot.
Commit(val) ==
    /\ MayCall
    /\ Open(media, acked) = "ok"
    /\ LET current == Snapshot(media)
       IN  /\ current.gen < MaxGeneration
           /\ job' = [rec |-> NewRecord(current.gen + 1, val, Digest(current)),
                      rslot |-> 1 - media.sel[Newest(media)].slot,
                      sslot |-> 1 - Newest(media)]
    /\ pc' = "record_write"
    /\ UNCHANGED <<media, disk, failed, acked>>

\* What a write that the provider reports as complete can leave.  Damaged
\* bytes are what the readback and the reopen are there to notice.
Stored(bytes) == IF CacheModel = "reference" THEN {bytes} ELSE {bytes, Torn}

RecordWrite ==
    /\ pc = "record_write"
    /\ \E bytes \in Stored(job.rec) :
          media' = [media EXCEPT !.rec[job.rslot] = bytes]
    /\ pc' = "record_flush"
    /\ UNCHANGED <<disk, job, failed, acked>>

RecordFlush ==
    /\ pc = "record_flush"
    /\ disk' = media
    /\ pc' = "record_readback"
    /\ UNCHANGED <<media, job, failed, acked>>

RecordReadback ==
    /\ pc = "record_readback"
    /\ media.rec[job.rslot] = job.rec
    /\ pc' = "selector_write"
    /\ UNCHANGED <<media, disk, job, failed, acked>>

SelectorWrite ==
    /\ pc = "selector_write"
    /\ \E bytes \in Stored(NewSelector(job.rslot, job.rec)) :
          media' = [media EXCEPT !.sel[job.sslot] = bytes]
    /\ pc' = "selector_flush"
    /\ UNCHANGED <<disk, job, failed, acked>>

\* Mutant of SelectorFlush: the commit is acknowledged unflushed.
SelectorNotFlushed ==
    /\ pc = "selector_flush"
    /\ pc' = "reopen"
    /\ UNCHANGED <<media, disk, job, failed, acked>>

SelectorFlush ==
    /\ pc = "selector_flush"
    /\ disk' = media
    /\ pc' = "reopen"
    /\ UNCHANGED <<media, job, failed, acked>>

Reopen ==
    /\ pc = "reopen"
    /\ Open(media, acked) = "ok"
    /\ Snapshot(media).gen = job.rec.gen
    /\ Digest(Snapshot(media)) = Digest(job.rec)
    /\ acked' = job.rec.gen
    /\ pc' = Idle
    /\ job' = NoJob
    /\ UNCHANGED <<media, disk, failed>>

\* A provider call fails without effect, a comparison fails, or the observer
\* interrupts before or after a call: commit_record returns an error.
Fail ==
    /\ pc # Idle
    /\ pc' = Idle
    /\ job' = NoJob
    /\ failed' = TRUE
    /\ UNCHANGED <<media, disk, acked>>

\* The provider transfers fewer bytes than asked: SHORT_IO.
ShortWrite ==
    /\ \/ /\ pc = "record_write"
          /\ media' = [media EXCEPT !.rec[job.rslot] = Torn]
       \/ /\ pc = "selector_write"
          /\ media' = [media EXCEPT !.sel[job.sslot] = Torn]
    /\ pc' = Idle
    /\ job' = NoJob
    /\ failed' = TRUE
    /\ UNCHANGED <<disk, acked>>

\* What a power cut can leave of a range with durable contents old and
\* unflushed contents new.
Survivors(old, new) ==
    IF CacheModel = "reference" \/ old = new THEN {old} ELSE {old, new, Torn}

PowerCut ==
    /\ \E r0 \in Survivors(disk.rec[0], media.rec[0]),
          r1 \in Survivors(disk.rec[1], media.rec[1]),
          s0 \in Survivors(disk.sel[0], media.sel[0]),
          s1 \in Survivors(disk.sel[1], media.sel[1]) :
          disk' = [rec |-> [i \in Slots |-> IF i = 0 THEN r0 ELSE r1],
                   sel |-> [i \in Slots |-> IF i = 0 THEN s0 ELSE s1]]
    /\ media' = disk'
    /\ pc' = Idle
    /\ job' = NoJob
    /\ failed' = FALSE
    /\ UNCHANGED acked

CommitStep == RecordWrite \/ RecordFlush \/ RecordReadback
                \/ SelectorWrite \/ SelectorFlush \/ Reopen

Next ==
    \/ \E val \in Value : Initialize(val) \/ Commit(val)
    \/ CommitStep
    \/ Fail
    \/ ShortWrite
    \/ PowerCut

Spec == Init /\ [][Next]_vars

-----------------------------------------------------------------------------
(* Properties.                                                             *)

TypeOK ==
    /\ media \in Media
    /\ disk \in Media
    /\ pc \in Steps \cup {Idle}
    /\ job \in Jobs \cup {NoJob}
    /\ failed \in BOOLEAN
    /\ acked \in 0 .. MaxGeneration

\* Once a commit has returned OK, whatever fails or loses power later, the
\* journal opens, from the volatile and from the durable contents, and never
\* below the acknowledged generation: ribon_update_transaction_open returns
\* neither CORRUPT nor CONFLICT nor REPLAY.
AcknowledgedSurvives ==
    acked > 0 => /\ Open(media, acked) = "ok"
                 /\ Open(disk, acked) = "ok"

\* In the reference flush model a power cycle always finds a journal that is
\* uninitialized or complete, whatever call of whatever commit the power cut,
\* the provisioning of generation 1 included: open never returns CORRUPT.
ReferenceNeverCorrupt ==
    CacheModel = "reference" => Open(disk, acked) \in {"uninitialized", "ok"}

-----------------------------------------------------------------------------
(* The journal implements DurableRegister.                                 *)

\* The register value that a caller of open obtains from these media.
Cell(m) == IF Open(m, 0) = "ok" THEN Digest(Snapshot(m)) ELSE Blank

Register == INSTANCE DurableRegister WITH
    None <- Blank, current <- Cell(media), durable <- Cell(disk),
    promised <- acked

\* Seen through open, the six provider calls of commit_record with their
\* failures and power cuts are one atomic numbered write: callers see the old
\* value or the new one, in generation order, and an acknowledged value is
\* durable.
ImplementsRegister == Register!Spec
=============================================================================
