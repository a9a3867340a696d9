-------------------------- MODULE ProtectedJournal --------------------------
(***************************************************************************)
(* The redundant commit protocol of src/security/protected_state.c under   *)
(* the operations of ProtectedRecords: two record and two selector objects *)
(* in a domain of a provider with pending writes.  A record and the        *)
(* selector that commits it share their slot number.  Every provider call  *)
(* may fail and power may be lost between any two calls.                   *)
(***************************************************************************)
EXTENDS ProtectedRecords

CONSTANTS
    Blank,              \* an object that is all zero
    Torn,               \* an object that fails to decode
    MaxGeneration,      \* stands for UINT64_MAX
    FirstFloor,         \* floor that the domain is provisioned with
    CacheModel,         \* "reference" or "subset", as in TransactionJournal
    RetryWithoutReset   \* the caller reopens and goes on after a failure
                        \* without a power cycle

ASSUME ProvisionAssumption ==
    /\ MaxGeneration \in Nat \ {0}
    /\ FirstFloor \in 0 .. MaxSequence

ASSUME ProviderAssumption ==
    /\ CacheModel \in {"reference", "subset"}
    /\ RetryWithoutReset \in BOOLEAN
    /\ CacheModel = "subset" => ~RetryWithoutReset

VARIABLES
    media,   \* objects as provider reads return them
    disk,    \* objects that survive a power cut
    pc,      \* the next provider call of commit_record, or "idle"
    job,     \* the record that commit_record writes, and its slot
    failed,  \* a call failed since the last power cycle
    acked    \* generation of the last commit that returned OK

vars == <<media, disk, pc, job, failed, acked>>

-----------------------------------------------------------------------------
Slots == {0, 1}

Records == [gen : 1 .. MaxGeneration, val : States]

\* A selector carries the SHA-256 of its record: what the digest covers.
Selectors == [slot : Slots, gen : 1 .. MaxGeneration, digest : Records]

Media == [rec : [Slots -> Records \cup {Blank, Torn}],
          sel : [Slots -> Selectors \cup {Blank, Torn}]]

Undecodable == {Blank, Torn}

\* Zero and damaged bytes decode neither as a record nor as a selector.
ASSUME ObjectAssumption ==
    /\ Blank # Torn
    /\ \A bytes \in Undecodable : bytes \notin Records /\ bytes \notin Selectors

DecodedSelectors(m) == {i \in Slots : m.sel[i] \notin Undecodable}

SelectedSelector(m) ==
    IF DecodedSelectors(m) = Slots
    THEN IF m.sel[1].gen > m.sel[0].gen THEN 1 ELSE 0
    ELSE IF 0 \in DecodedSelectors(m) THEN 0 ELSE 1

SelectedSlot(m) == m.sel[SelectedSelector(m)].slot

RecordDecodes(m, i) == m.rec[i] \notin Undecodable /\ Decodes(m.rec[i].val)

\* ribon_protected_state_open
Open(m) ==
    IF DecodedSelectors(m) = {}
    THEN IF \A i \in Slots : m.sel[i] = Blank THEN "uninitialized" ELSE "corrupt"
    ELSE IF /\ DecodedSelectors(m) = Slots
            /\ m.sel[0].gen = m.sel[1].gen
            /\ m.sel[0] # m.sel[1] THEN "conflict"
    ELSE LET selector == m.sel[SelectedSelector(m)]
             index == SelectedSlot(m)
         IN  IF \/ ~RecordDecodes(m, index)
                \/ selector.gen # m.rec[index].gen
                \/ selector.digest # m.rec[index] THEN "corrupt"
             ELSE IF /\ RecordDecodes(m, 1 - index)
                     /\ m.rec[1 - index].gen = m.rec[index].gen
                     /\ m.rec[1 - index] # m.rec[index] THEN "conflict"
             ELSE "ok"

Snapshot(m) == m.rec[SelectedSlot(m)]

-----------------------------------------------------------------------------
Idle == "idle"
Steps == {"record_write", "record_flush", "record_readback",
          "selector_write", "selector_flush", "reopen"}
NoJob == [rec |-> Blank, slot |-> 0]
Jobs == [rec : Records, slot : Slots]

Init ==
    /\ media = [rec |-> [i \in Slots |-> Blank], sel |-> [i \in Slots |-> Blank]]
    /\ disk = media
    /\ pc = Idle
    /\ job = NoJob
    /\ failed = FALSE
    /\ acked = 0

MayCall == pc = Idle /\ (failed => RetryWithoutReset)

\* commit_record starts.
StartCommit(slot, gen, val) ==
    /\ job' = [rec |-> [gen |-> gen, val |-> val], slot |-> slot]
    /\ pc' = "record_write"
    /\ UNCHANGED <<media, disk, failed, acked>>

Initialize ==
    /\ MayCall
    /\ Open(media) = "uninitialized"
    /\ StartCommit(0, 1, Confirmed(FirstFloor, NoBinding, 0))

\* Mutant of Operate: the generation may run past its limit.
OperateOverflows(results) ==
    \E val \in results :
        StartCommit(1 - SelectedSlot(media), Snapshot(media).gen + 1, val)

\* transition_record to one of the results of an operation.
Operate(results) ==
    /\ Snapshot(media).gen < MaxGeneration
    /\ \E val \in results :
          StartCommit(1 - SelectedSlot(media), Snapshot(media).gen + 1, val)

Opened == MayCall /\ Open(media) = "ok"
Current == Snapshot(media).val

BeginUnbound ==
    /\ Opened
    /\ \E candidate \in 0 .. MaxSequence, attempts \in 0 .. MaxTrialAttempts :
          Operate(BeginTrial(Current, candidate, attempts, NoBinding, 0))

BeginBound ==
    /\ Opened
    /\ \E candidate \in 0 .. MaxSequence, attempts \in 0 .. MaxTrialAttempts,
          binding \in Bindings, aseq \in 1 .. MaxAttemptSequence :
          Operate(BeginTrial(Current, candidate, attempts, binding, aseq))

Rebind ==
    /\ Opened
    /\ \E pending \in 0 .. MaxSequence, binding \in Bindings,
          aseq \in 1 .. MaxAttemptSequence :
          Operate(RebindTrialAttempt(Current, pending, binding, aseq))

Consume ==
    /\ Opened
    /\ \E pending \in 0 .. MaxSequence : Operate(ConsumeTrialAttempt(Current, pending))

Confirm ==
    /\ Opened
    /\ \E pending \in 0 .. MaxSequence :
          \/ Operate(ConfirmUnbound(Current, pending))
          \/ \E binding \in Bindings, aseq \in 1 .. MaxAttemptSequence :
                Operate(ConfirmBound(Current, pending, binding, aseq))

Fail ==
    /\ Opened
    /\ Operate(FailTrial(Current))

-----------------------------------------------------------------------------
(* commit_record, provider failures and power cuts.                        *)

\* What a write that the provider reports as complete can leave.
Stored(bytes) == IF CacheModel = "reference" THEN {bytes} ELSE {bytes, Torn}

RecordWrite ==
    /\ pc = "record_write"
    /\ \E bytes \in Stored(job.rec) :
          media' = [media EXCEPT !.rec[job.slot] = bytes]
    /\ pc' = "record_flush"
    /\ UNCHANGED <<disk, job, failed, acked>>

\* Mutant of Flush: the commit is acknowledged unflushed.
FlushRecordOnly ==
    /\ \/ pc = "record_flush" /\ pc' = "record_readback" /\ disk' = media
       \/ pc = "selector_flush" /\ pc' = "reopen" /\ disk' = disk
    /\ UNCHANGED <<media, job, failed, acked>>

Flush ==
    /\ \/ pc = "record_flush" /\ pc' = "record_readback"
       \/ pc = "selector_flush" /\ pc' = "reopen"
    /\ disk' = media
    /\ UNCHANGED <<media, job, failed, acked>>

RecordReadback ==
    /\ pc = "record_readback"
    /\ media.rec[job.slot] = job.rec
    /\ pc' = "selector_write"
    /\ UNCHANGED <<media, disk, job, failed, acked>>

SelectorWrite ==
    /\ pc = "selector_write"
    /\ \E bytes \in Stored([slot |-> job.slot, gen |-> job.rec.gen, digest |-> job.rec]) :
          media' = [media EXCEPT !.sel[job.slot] = bytes]
    /\ pc' = "selector_flush"
    /\ UNCHANGED <<disk, job, failed, acked>>

Reopen ==
    /\ pc = "reopen"
    /\ Open(media) = "ok"
    /\ Snapshot(media).gen = job.rec.gen
    /\ SelectedSlot(media) = job.slot
    /\ acked' = job.rec.gen
    /\ pc' = Idle
    /\ job' = NoJob
    /\ UNCHANGED <<media, disk, failed>>

\* A provider call fails, with a short write or without effect, or a
\* comparison fails.
CallFails ==
    /\ pc # Idle
    /\ \/ UNCHANGED media
       \/ pc = "record_write" /\ media' = [media EXCEPT !.rec[job.slot] = Torn]
       \/ pc = "selector_write" /\ media' = [media EXCEPT !.sel[job.slot] = Torn]
    /\ pc' = Idle
    /\ job' = NoJob
    /\ failed' = TRUE
    /\ UNCHANGED <<disk, acked>>

Survivors(old, new) ==
    IF CacheModel = "reference" \/ old = new THEN {old} ELSE {old, new, Torn}

PowerCut ==
    /\ \E r0 \in Survivors(disk.rec[0], media.rec[0]),
          r1 \in Survivors(disk.rec[1], media.rec[1]),
          s0 \in Survivors(disk.sel[0], media.sel[0]),
          s1 \in Survivors(disk.sel[1], media.sel[1]) :
          disk' = [rec |-> [i \in Slots |-> IF i = 0 THEN r0 ELSE r1],
                   sel |-> [i \in Slots |-> IF i = 0 THEN s0 ELSE s1]]
    /\ media' = disk'
    /\ pc' = Idle
    /\ job' = NoJob
    /\ failed' = FALSE
    /\ UNCHANGED acked

Next ==
    \/ Initialize
    \/ BeginUnbound \/ BeginBound \/ Rebind \/ Consume \/ Confirm \/ Fail
    \/ RecordWrite \/ Flush \/ RecordReadback \/ SelectorWrite \/ Reopen
    \/ CallFails
    \/ PowerCut

Spec == Init /\ [][Next]_vars

-----------------------------------------------------------------------------
(* Properties.                                                             *)

TypeOK ==
    /\ media \in Media
    /\ disk \in Media
    /\ pc \in Steps \cup {Idle}
    /\ job \in Jobs \cup {NoJob}
    /\ failed \in BOOLEAN
    /\ acked \in 0 .. MaxGeneration

DurableState == Snapshot(disk).val

\* Whatever the callers do and wherever commits are cut, the durable floor
\* never falls, rises by one and only to the sequence that was on trial, and
\* a trial that goes on never gets attempts back.
FloorIsMonotonic ==
    [][Open(disk) = "ok" =>
          /\ Open(disk)' = "ok"
          /\ \/ DurableState'.floor = DurableState.floor
             \/ /\ DurableState.kind = "TRIAL"
                /\ DurableState'.floor = DurableState.pending
                /\ DurableState'.floor = DurableState.floor + 1
          /\ DurableState.kind = "TRIAL" /\ DurableState'.kind = "TRIAL"
                => DurableState'.attempts <= DurableState.attempts]_disk

-----------------------------------------------------------------------------
Cell(m) == IF Open(m) = "ok" THEN Snapshot(m) ELSE Blank

Register == INSTANCE DurableRegister WITH
    Value <- States, None <- Blank, current <- Cell(media),
    durable <- Cell(disk), promised <- acked

\* Seen through open, commit_record with its failures and power cuts is one
\* atomic numbered write of a logical state: the promise the update journal
\* makes too, kept with another slot scheme and other conflict rules.
ImplementsRegister == Register!Spec
=============================================================================
