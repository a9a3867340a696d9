-------------------------- MODULE UpdateTransaction --------------------------
(***************************************************************************)
(* The transactional install of src/update/transaction.c over the signed   *)
(* bundle installer of src/update/installer.c: a STAGING record, the       *)
(* component payloads, a VERIFIED record and a PENDING record, each record *)
(* committed through TransactionJournal on the same storage provider, with *)
(* resume after a failure or a power cut at any provider call; and the     *)
(* confirmation of a pending slot.                                         *)
(*                                                                         *)
(* Signature, product and layout checks are outside: Images are the        *)
(* identities whose manifest is authorized.  The backing range of a        *)
(* component holds the image it was written from, Blank (erased) or Torn.  *)
(***************************************************************************)
EXTENDS SlotMetadata

CONSTANTS
    Factory,            \* the image that the device is provisioned with
    LastComponent,      \* components are numbered 1 .. LastComponent
    Attempts,           \* pending_attempts of an install request
    Blank, Torn, CacheModel, RetryWithoutReset   \* see TransactionJournal

ASSUME FactoryAssumption == Factory \in Images
ASSUME ComponentAssumption == LastComponent \in Nat \ {0}
ASSUME RequestAssumption == Attempts \in 1 .. MaxAttempts

Components == 1 .. LastComponent

\* What a journal record carries.
Contents == [target : Slots, meta : Metadata]

VARIABLES
    media, disk, pc, job, failed, acked,   \* see TransactionJournal
    payload,      \* component ranges as a provider read returns them
    payloadDisk,  \* component ranges that survive a power cut
    call          \* the API call in progress and where it is

journalVars == <<media, disk, pc, job, failed, acked>>
vars == <<media, disk, pc, job, failed, acked, payload, payloadDisk, call>>

Journal == INSTANCE TransactionJournal WITH Value <- Contents

\* Zero and damaged bytes are neither contents, records, selectors nor digests.
ASSUME BytesAssumption ==
    /\ Blank # Torn
    /\ \A bytes \in {Blank, Torn} :
          /\ bytes \notin Contents /\ bytes \notin Journal!Digests
          /\ bytes \notin Journal!Records /\ bytes \notin Journal!Selectors

\* A device that tears unflushed writes is used by callers that reset.
ASSUME DeviceAssumption ==
    /\ CacheModel \in {"reference", "subset"}
    /\ RetryWithoutReset \in BOOLEAN
    /\ CacheModel = "subset" => ~RetryWithoutReset

Payloads == [Slots -> [Components -> Images \cup {Blank, Torn}]]

NoCall == [phase |-> "none", slot |-> 0, image |-> NoImage, comp |-> 0, checked |-> {}]

Phases == {"commit", "erase", "write", "flush", "readback", "pending"}

\* comp: the component index of the write loop;
\* checked: the components whose readback digest has been compared.
Calls == [phase : Phases, slot : Slots, image : Images,
          comp : Components, checked : SUBSET Components]

At(phase, slot, image) ==
    [phase |-> phase, slot |-> slot, image |-> image, comp |-> 1, checked |-> {}]

-----------------------------------------------------------------------------
Init ==
    /\ Journal!Init
    /\ payload = [s \in Slots |-> [c \in Components |-> IF s = 0 THEN Factory ELSE Blank]]
    /\ payloadDisk = payload
    /\ call = NoCall

\* A new API call starts by opening the journal.
Opened ==
    /\ call = NoCall
    /\ Journal!MayCall
    /\ Journal!Open(media, acked) = "ok"

Current == Journal!Snapshot(media).val
Entry(slot) == Current.meta.slots[slot]

\* commit_record: metadata and journal generation must advance together.
CommitRecord(slot, next) ==
    /\ next.gen = Journal!Snapshot(media).gen + 1
    /\ Journal!Commit([target |-> slot, meta |-> next])
    /\ UNCHANGED <<payload, payloadDisk>>

Initialize ==
    /\ call = NoCall
    /\ Journal!Initialize([target |-> 0, meta |-> Provisioned(0, Factory)])
    /\ call' = At("commit", 0, Factory)
    /\ UNCHANGED <<payload, payloadDisk>>

\* Mutant of StartInstall: the state of the slot is not checked.
StartInstallAnyState(slot, image) ==
    /\ Opened
    /\ slot # Current.meta.active
    /\ Current.meta.gen < MaxGeneration
    /\ CommitRecord(slot, Successor(Current.meta, slot, "STAGING", image, 0))
    /\ call' = At("commit", slot, image)

\* install_transactionally on a slot that holds nothing or something old.
StartInstall(slot, image) ==
    /\ Opened
    /\ slot # Current.meta.active
    /\ Entry(slot).state \in {"EMPTY", "BAD", "CONFIRMED"}
    /\ \E next \in Transitions(Current.meta, slot, "STAGING", image, 0) :
          CommitRecord(slot, next)
    /\ call' = At("commit", slot, image)

\* Mutant of ResumeStaging: a VERIFIED slot is written again.
ResumeStagingOrVerified(slot, image) ==
    /\ Opened
    /\ slot # Current.meta.active
    /\ Entry(slot).state \in {"STAGING", "VERIFIED"} /\ Entry(slot).image = image
    /\ call' = At("erase", slot, image)
    /\ UNCHANGED <<journalVars, payload, payloadDisk>>

\* install_transactionally finds its own STAGING record: payload again.
ResumeStaging(slot, image) ==
    /\ Opened
    /\ slot # Current.meta.active
    /\ Entry(slot).state = "STAGING" /\ Entry(slot).image = image
    /\ call' = At("erase", slot, image)
    /\ UNCHANGED <<journalVars, payload, payloadDisk>>

\* Mutant of ResumeVerified: the call goes back to the readback.
ResumeVerifiedAtReadback(slot, image) ==
    /\ Opened
    /\ slot # Current.meta.active
    /\ Entry(slot).state = "VERIFIED" /\ Entry(slot).image = image
    /\ call' = At("readback", slot, image)
    /\ UNCHANGED <<journalVars, payload, payloadDisk>>

\* install_transactionally finds its own VERIFIED record.  (Its own PENDING
\* record ends the call at once, a record of another identity is refused.)
ResumeVerified(slot, image) ==
    /\ Opened
    /\ slot # Current.meta.active
    /\ Entry(slot).state = "VERIFIED" /\ Entry(slot).image = image
    /\ call' = At("pending", slot, image)
    /\ UNCHANGED <<journalVars, payload, payloadDisk>>

\* confirm_pending for the exact pending identity.
ConfirmPending(slot, image) ==
    /\ Opened
    /\ Current.target = slot
    /\ Current.meta.pending = slot
    /\ Entry(slot).state = "PENDING" /\ Entry(slot).image = image
    /\ \E next \in Transitions(Current.meta, slot, "CONFIRMED", image, 0) :
          CommitRecord(slot, next)
    /\ call' = At("commit", slot, image)

-----------------------------------------------------------------------------
(* The payload loops of install_signed_bundle.                             *)

\* The component is read from the bundle and its digest compared before.
EraseComponent ==
    /\ call.phase = "erase"
    /\ payload' = [payload EXCEPT ![call.slot][call.comp] = Blank]
    /\ call' = [call EXCEPT !.phase = "write"]
    /\ UNCHANGED <<journalVars, payloadDisk>>

\* Mutant of WriteComponent: the loop bound is off by one.
WriteOneTooMany ==
    /\ call.phase = "write"
    /\ \E bytes \in Journal!Stored(call.image) :
          payload' = [payload EXCEPT ![call.slot][call.comp] = bytes]
    /\ call' = IF call.comp <= LastComponent
               THEN [call EXCEPT !.phase = "erase", !.comp = @ + 1]
               ELSE [call EXCEPT !.phase = "flush"]
    /\ UNCHANGED <<journalVars, payloadDisk>>

WriteComponent ==
    /\ call.phase = "write"
    /\ \E bytes \in Journal!Stored(call.image) :
          payload' = [payload EXCEPT ![call.slot][call.comp] = bytes]
    /\ call' = IF call.comp < LastComponent
               THEN [call EXCEPT !.phase = "erase", !.comp = @ + 1]
               ELSE [call EXCEPT !.phase = "flush"]
    /\ UNCHANGED <<journalVars, payloadDisk>>

\* The provider flush covers the journal region too.
PayloadFlush ==
    /\ call.phase = "flush"
    /\ payloadDisk' = payload
    /\ disk' = media
    /\ call' = [call EXCEPT !.phase = "readback", !.comp = 1]
    /\ UNCHANGED <<media, pc, job, failed, acked, payload>>

ReadbackComponent ==
    /\ call.phase = "readback"
    /\ call.comp \notin call.checked
    /\ payload[call.slot][call.comp] = call.image
    /\ call' = [call EXCEPT !.checked = @ \cup {call.comp},
                            !.comp = IF @ < LastComponent THEN @ + 1 ELSE @]
    /\ UNCHANGED <<journalVars, payload, payloadDisk>>

\* Every component is verified: install_signed_bundle returns the VERIFIED
\* metadata, which install_transactionally commits.
CommitVerified ==
    /\ call.phase = "readback"
    /\ call.checked = Components
    /\ pc = Journal!Idle
    /\ \E next \in Transitions(Current.meta, call.slot, "VERIFIED", call.image, 0) :
          CommitRecord(call.slot, next)
    /\ call' = [call EXCEPT !.phase = "commit"]

CommitPending ==
    /\ call.phase = "pending"
    /\ Entry(call.slot).state = "VERIFIED"
    /\ \E next \in Transitions(Current.meta, call.slot, "PENDING",
                               Entry(call.slot).image, Attempts) :
          CommitRecord(call.slot, next)
    /\ call' = [call EXCEPT !.phase = "commit"]

-----------------------------------------------------------------------------
(* Journal steps under a call, failures and power cuts.                    *)

JournalWrite ==
    /\ Journal!RecordWrite \/ Journal!RecordReadback \/ Journal!SelectorWrite
    /\ UNCHANGED <<payload, payloadDisk, call>>

JournalFlush ==
    /\ Journal!RecordFlush \/ Journal!SelectorFlush
    /\ payloadDisk' = payload
    /\ UNCHANGED <<payload, call>>

\* commit_record returns OK and the call goes on from the state it committed.
JournalReopen ==
    /\ Journal!Reopen
    /\ call' = CASE Entry(call.slot).state = "STAGING" -> At("erase", call.slot, call.image)
                 [] Entry(call.slot).state = "VERIFIED" -> At("pending", call.slot, call.image)
                 [] OTHER -> NoCall
    /\ UNCHANGED <<payload, payloadDisk>>

\* A journal call fails, with a short write or without effect.
JournalFail ==
    /\ Journal!Fail \/ Journal!ShortWrite
    /\ call' = NoCall
    /\ UNCHANGED <<payload, payloadDisk>>

\* A payload read, erase, write, flush or comparison fails, or the observer
\* interrupts; an erase or a write may have changed part of its range.
PayloadFail ==
    /\ call # NoCall /\ pc = Journal!Idle
    /\ \/ UNCHANGED payload
       \/ /\ call.phase \in {"erase", "write"}
          /\ payload' = [payload EXCEPT ![call.slot][call.comp] = Torn]
    /\ call' = NoCall
    /\ failed' = TRUE
    /\ UNCHANGED <<media, disk, pc, job, acked, payloadDisk>>

\* The component ranges with unflushed contents.
Dirty == {r \in Slots \X Components : payload[r[1]][r[2]] # payloadDisk[r[1]][r[2]]}

PowerCut ==
    /\ Journal!PowerCut
    /\ \E lost \in SUBSET Dirty, torn \in SUBSET Dirty :
          /\ lost \cap torn = {}
          /\ CacheModel = "reference" => lost = Dirty
          /\ payloadDisk' = [s \in Slots |-> [c \in Components |->
                IF <<s, c>> \in torn THEN Torn
                ELSE IF <<s, c>> \in lost THEN payloadDisk[s][c]
                ELSE payload[s][c]]]
    /\ payload' = payloadDisk'
    /\ call' = NoCall

InstallStep ==
    \/ EraseComponent \/ WriteComponent \/ PayloadFlush \/ ReadbackComponent
    \/ CommitVerified \/ CommitPending
    \/ JournalWrite \/ JournalFlush \/ JournalReopen

Next ==
    \/ Initialize
    \/ \E slot \in Slots, image \in Images :
          \/ StartInstall(slot, image) \/ ResumeStaging(slot, image)
          \/ ResumeVerified(slot, image) \/ ConfirmPending(slot, image)
    \/ InstallStep
    \/ JournalFail
    \/ PayloadFail
    \/ PowerCut

Spec == Init /\ [][Next]_vars

(***************************************************************************)
(* A call in progress runs on; the product resets after a failed call, and *)
(* at every boot offers the bundle of an unfinished install again.         *)
(***************************************************************************)
Fairness ==
    /\ WF_vars(InstallStep)
    /\ WF_vars(failed /\ PowerCut)
    /\ WF_vars(\E slot \in Slots, image \in Images :
                  ResumeStaging(slot, image) \/ ResumeVerified(slot, image))

FairSpec == Spec /\ Fairness

-----------------------------------------------------------------------------
(* Properties.                                                             *)

TypeOK ==
    /\ Journal!TypeOK
    /\ payload \in Payloads
    /\ payloadDisk \in Payloads
    /\ call \in Calls \cup {NoCall}

Complete(content, image) == \A c \in Components : content[c] = image

\* A slot that a readable journal calls VERIFIED, PENDING or CONFIRMED holds
\* every component of its image, in what is read now and in what a power cut
\* would leave: install_transactionally never lets a record get ahead of the
\* payload it vouches for, nor touches a slot that a record still vouches
\* for, whatever call failed and however the install was resumed.
PayloadMatchesState ==
    \A view \in {<<media, payload>>, <<disk, payloadDisk>>} :
        Journal!Open(view[1], 0) = "ok" =>
            \A s \in Slots :
                LET entry == Journal!Snapshot(view[1]).val.meta.slots[s]
                IN  entry.state \in {"VERIFIED", "PENDING", "CONFIRMED"}
                        => Complete(view[2][s], entry.image)

\* Every record that open can return carries valid metadata of its own
\* generation, and the slot it names as target is the one it last changed:
\* commit_record's generation check and confirm_pending's target check never
\* refuse a legal successor.
RecordsAreCoherent ==
    \A m \in {media, disk} : Journal!Open(m, 0) = "ok" =>
        LET record == Journal!Snapshot(m)
        IN  /\ MetadataIsValid(record.val.meta)
            /\ record.val.meta.gen = record.gen
            /\ record.val.meta.slots[record.val.target].gen = record.gen

DurableMeta == Journal!Snapshot(disk).val.meta

\* The durable slot metadata only moves one legal edge at a time: a power cut
\* or a resumed call never skips, repeats or undoes a transition nor makes the
\* journal unreadable, and the active slot changes only to the image that was
\* pending.
DurableHistoryIsLegal ==
    [][Journal!Open(disk, 0) = "ok" =>
          /\ Journal!Open(disk, 0)' = "ok"
          /\ \/ DurableMeta' = DurableMeta
             \/ \E slot \in Slots, state \in SlotStates, image \in Images,
                   attempts \in {0, Attempts} :
                   DurableMeta' \in Transitions(DurableMeta, slot, state, image, attempts)]_disk

Fault == JournalFail \/ PayloadFail \/ (~failed /\ PowerCut)

Unfinished(slot, image) ==
    /\ Journal!Open(disk, 0) = "ok"
    /\ DurableMeta.slots[slot].image = image
    /\ DurableMeta.slots[slot].state \in {"STAGING", "VERIFIED"}

IsPending(slot, image) ==
    /\ Journal!Open(disk, 0) = "ok"
    /\ DurableMeta.slots[slot].image = image
    /\ DurableMeta.slots[slot].state = "PENDING"

\* Once faults stop, a started install that the product keeps resuming
\* reaches PENDING: no failure or power cut leaves the journal or the slot in
\* a state from which install_transactionally cannot finish.
InstallConverges ==
    \A slot \in Slots, image \in Images :
        <>[][~Fault]_vars => (Unfinished(slot, image) ~> IsPending(slot, image))

=============================================================================
