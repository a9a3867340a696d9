-------------------------- MODULE BootConfirmation --------------------------
(***************************************************************************)
(* The boot-attempt and confirmation engine of src/update/confirmation.c   *)
(* over the two journals: begin_attempt opens or rebinds a trial in the    *)
(* protected state and consumes an attempt before the candidate runs;      *)
(* accept raises the protected floor and then confirms the pending slot of *)
(* the update journal.  The two commits of either call are separate, and   *)
(* power may be lost, or a commit may report an error although it took     *)
(* effect, between them.                                                   *)
(*                                                                         *)
(* Each journal is the atomic register that TransactionJournal and         *)
(* ProtectedJournal implement; a failed commit is followed by a reset, as  *)
(* the contracts ask of the caller, so the step after a commit either      *)
(* happens or is replaced by Reset.                                        *)
(*                                                                         *)
(* An envelope is what the candidate signs for the attempt it was started  *)
(* with: slot, manifest, nonce and attempt sequence.  Once signed it may   *)
(* be delivered late, more than once or never.                             *)
(***************************************************************************)
EXTENDS Naturals, FiniteSets

CONSTANTS
    Images, NoImage, Factory,
    Sequence,            \* manifest_sequence of every image
    Nonces,              \* values of the nonce source, which may repeat
    Attempts,            \* maximum_attempts and pending_attempts
    MaxAttempts,         \* the limit on attempts in both journals
    MaxGeneration, MaxSequence, MaxAttemptSequence,
    NoBinding

ASSUME ProductAssumption ==
    /\ Factory \in Images /\ NoImage \notin Images
    /\ Attempts \in 1 .. MaxAttempts
    /\ Sequence \in [Images -> 1 .. MaxSequence]
ASSUME LimitAssumption ==
    /\ MaxAttempts \in Nat /\ MaxSequence \in Nat /\ MaxAttemptSequence \in Nat
    /\ MaxGeneration \in Nat \ {0}

Slots == {0, 1}

\* binding_digest: the digest is what it covers.
Bindings == [slot : Slots, image : Images, nonce : Nonces,
             aseq : 1 .. MaxAttemptSequence]
ASSUME DigestAssumption == NoBinding \notin Bindings

VARIABLES
    meta,         \* slot metadata of the update journal
    prot,         \* state of the protected journal
    call,         \* the call between its two commits, or the running candidate
    envelopes,    \* signed envelopes in existence
    started,      \* bindings of all attempts that were transferred to
    transfers     \* transfers in the current trial

vars == <<meta, prot, call, envelopes, started, transfers>>

Update == INSTANCE SlotMetadata
Protected == INSTANCE ProtectedRecords WITH MaxTrialAttempts <- MaxAttempts

NoCall == [phase |-> "none", binding |-> NoBinding]
Calls == [phase : {"consume", "transfer", "running", "confirm"}, binding : Bindings]

Init ==
    /\ meta = Update!Provisioned(0, Factory)
    /\ prot = Protected!Confirmed(Sequence[Factory], NoBinding, 0)
    /\ call = NoCall
    /\ envelopes = {}
    /\ started = {}
    /\ transfers = 0

-----------------------------------------------------------------------------
(* The update journal's own calls, one commit each.                        *)

InstallCommit(slot, image, state, attempts) ==
    /\ call = NoCall
    /\ meta' \in Update!Transitions(meta, slot, state, image, attempts)
    /\ UNCHANGED <<prot, call, envelopes, started, transfers>>

\* The next record of install_transactionally.
Install(slot, image) ==
    \/ /\ meta.slots[slot].state \in {"EMPTY", "BAD", "CONFIRMED"}
       /\ InstallCommit(slot, image, "STAGING", 0)
    \/ /\ meta.slots[slot].state = "STAGING"
       /\ InstallCommit(slot, image, "VERIFIED", 0)
    \/ /\ meta.slots[slot].state = "VERIFIED"
       /\ InstallCommit(slot, image, "PENDING", Attempts)

-----------------------------------------------------------------------------
(* begin_attempt.                                                          *)

PendingIdentityMatches(slot, image) ==
    /\ meta.pending = slot
    /\ meta.slots[slot].state = "PENDING"
    /\ meta.slots[slot].image = image

\* Mutant of BeginAttempt: the attempt sequence may run past its limit.
BeginAttemptOverflows(slot, image, nonce) ==
    /\ call = NoCall
    /\ PendingIdentityMatches(slot, image)
    /\ meta.slots[slot].attempts = Attempts
    /\ LET aseq == prot.aseq + 1
           binding == [slot |-> slot, image |-> image, nonce |-> nonce, aseq |-> aseq]
       IN  /\ \/ prot' \in Protected!BeginTrial(prot, Sequence[image], Attempts,
                                                binding, aseq)
              \/ prot' \in Protected!RebindTrialAttempt(prot, Sequence[image],
                                                        binding, aseq)
           /\ call' = [phase |-> "consume", binding |-> binding]
    /\ UNCHANGED <<meta, envelopes, started, transfers>>

\* A new binding for the next attempt sequence is committed.
BeginAttempt(slot, image, nonce) ==
    /\ call = NoCall
    /\ PendingIdentityMatches(slot, image)
    /\ meta.slots[slot].attempts = Attempts
    /\ prot.aseq < MaxAttemptSequence
    /\ LET aseq == prot.aseq + 1
           binding == [slot |-> slot, image |-> image, nonce |-> nonce, aseq |-> aseq]
       IN  /\ \/ /\ prot.kind = "CONFIRMED"
                 /\ prot' \in Protected!BeginTrial(prot, Sequence[image], Attempts,
                                                   binding, aseq)
                 /\ transfers' = 0
              \/ /\ prot.kind = "TRIAL" /\ prot.pending = Sequence[image]
                 /\ prot' \in Protected!RebindTrialAttempt(prot, Sequence[image],
                                                           binding, aseq)
                 /\ UNCHANGED transfers
           /\ call' = [phase |-> "consume", binding |-> binding]
    /\ UNCHANGED <<meta, envelopes, started>>

\* The attempt is consumed and begin_attempt returns OK.
ConsumeAttempt ==
    /\ call.phase = "consume"
    /\ prot' \in Protected!ConsumeTrialAttempt(prot, Sequence[call.binding.image])
    /\ prot'.binding = call.binding
    /\ prot'.aseq = call.binding.aseq
    /\ call' = [call EXCEPT !.phase = "transfer"]
    /\ UNCHANGED <<meta, envelopes, started, transfers>>

\* The product transfers control to the candidate.
Transfer ==
    /\ call.phase = "transfer"
    /\ call' = [call EXCEPT !.phase = "running"]
    /\ started' = started \cup {call.binding}
    /\ transfers' = transfers + 1
    /\ UNCHANGED <<meta, prot, envelopes>>

\* The running candidate reports health for its attempt.
SignEnvelope ==
    /\ call.phase = "running"
    /\ call.binding \notin envelopes
    /\ envelopes' = envelopes \cup {call.binding}
    /\ UNCHANGED <<meta, prot, call, started, transfers>>

-----------------------------------------------------------------------------
(* accept.                                                                 *)

UpdateIsConfirmed(slot, image) ==
    /\ meta.active = slot
    /\ meta.pending = Update!NoSlot
    /\ meta.slots[slot].state = "CONFIRMED"
    /\ meta.slots[slot].image = image

\* Mutant of Acceptable: a confirmed attempt is refused as a replay.
AcceptableOnce(envelope) ==
    /\ \/ UpdateIsConfirmed(envelope.slot, envelope.image)
       \/ PendingIdentityMatches(envelope.slot, envelope.image)
    /\ prot.aseq = envelope.aseq
    /\ prot.binding = envelope
    /\ prot.kind = "TRIAL" /\ prot.pending = Sequence[envelope.image]

\* The checks of accept before its first commit.
Acceptable(envelope) ==
    /\ \/ UpdateIsConfirmed(envelope.slot, envelope.image)
       \/ PendingIdentityMatches(envelope.slot, envelope.image)
    /\ prot.aseq = envelope.aseq
    /\ prot.binding = envelope
    /\ \/ prot.kind = "TRIAL" /\ prot.pending = Sequence[envelope.image]
       \/ prot.kind = "CONFIRMED" /\ prot.floor = Sequence[envelope.image]

\* Mutant of AcceptProtected: the floor is left to a later call.
AcceptWithoutFloor(envelope) ==
    /\ call = NoCall
    /\ Acceptable(envelope)
    /\ call' = [phase |-> "confirm", binding |-> envelope]
    /\ UNCHANGED <<meta, prot, envelopes, started, transfers>>

\* Mutant of AcceptProtected: the envelope's attempt is not compared.
AcceptAnyAttempt(envelope) ==
    /\ call = NoCall
    /\ PendingIdentityMatches(envelope.slot, envelope.image)
    /\ prot.kind = "TRIAL" /\ prot.pending = Sequence[envelope.image]
    /\ prot' = Protected!Confirmed(prot.pending, envelope, envelope.aseq)
    /\ call' = [phase |-> "confirm", binding |-> envelope]
    /\ UNCHANGED <<meta, envelopes, started, transfers>>

\* confirm_bound: commits, or finds the attempt confirmed already.
AcceptProtected(envelope) ==
    /\ call = NoCall
    /\ Acceptable(envelope)
    /\ LET seq == Sequence[envelope.image]
       IN  \/ /\ Protected!IsConfirmedBound(prot, seq, envelope, envelope.aseq)
              /\ UNCHANGED prot
           \/ prot' \in Protected!ConfirmBound(prot, seq, envelope, envelope.aseq)
    /\ call' = [phase |-> "confirm", binding |-> envelope]
    /\ UNCHANGED <<meta, envelopes, started, transfers>>

\* confirm_pending: finds the slot confirmed already, or commits.
AcceptUpdate ==
    /\ call.phase = "confirm"
    /\ LET slot == call.binding.slot
           image == call.binding.image
       IN  \/ /\ UpdateIsConfirmed(slot, image)
              /\ UNCHANGED meta
           \/ /\ PendingIdentityMatches(slot, image)
              /\ meta' \in Update!Transitions(meta, slot, "CONFIRMED", image, 0)
    /\ call' = NoCall
    /\ UNCHANGED <<prot, envelopes, started, transfers>>

-----------------------------------------------------------------------------
\* Policy gives the trial up.
FailTrial ==
    /\ call = NoCall
    /\ prot' \in Protected!FailTrial(prot)
    /\ UNCHANGED <<meta, call, envelopes, started, transfers>>

\* Power is lost, the candidate resets, or a commit reports an error.
Reset ==
    /\ call # NoCall
    /\ call' = NoCall
    /\ UNCHANGED <<meta, prot, envelopes, started, transfers>>

Next ==
    \/ \E slot \in Slots, image \in Images :
          \/ Install(slot, image)
          \/ \E nonce \in Nonces : BeginAttempt(slot, image, nonce)
    \/ ConsumeAttempt
    \/ Transfer
    \/ SignEnvelope
    \/ \E envelope \in envelopes : AcceptProtected(envelope)
    \/ AcceptUpdate
    \/ FailTrial
    \/ Reset

Spec == Init /\ [][Next]_vars

\* The product keeps the envelope and offers it at every boot; accept runs on.
Fairness ==
    /\ WF_vars(\E envelope \in envelopes : AcceptProtected(envelope))
    /\ WF_vars(AcceptUpdate)

FairSpec == Spec /\ Fairness

-----------------------------------------------------------------------------
(* Properties.                                                             *)

TypeOK ==
    /\ meta \in Update!Metadata
    /\ prot \in Protected!States
    /\ call \in Calls \cup {NoCall}
    /\ envelopes \subseteq Bindings
    /\ started \subseteq Bindings
    /\ transfers \in Nat

ActiveSequence == Sequence[meta.slots[meta.active].image]

\* The floor was raised for the pending image and the update journal does not
\* know yet: accept was cut between its two commits.
HalfConfirmed ==
    /\ meta.pending # Update!NoSlot
    /\ prot.kind = "CONFIRMED"
    /\ prot.floor = Sequence[meta.slots[meta.pending].image]
    /\ prot.floor = ActiveSequence + 1

\* The active slot holds the image of the confirmed floor, so the confirmed
\* image is neither refused as a rollback nor ahead of the floor; except in
\* the window between the two commits of accept.
JournalsAgree == prot.floor = ActiveSequence \/ HalfConfirmed

\* A trial is transferred to at most maximum_attempts times, however often
\* begin_attempt is cut between its two commits or run again.
AttemptBudget == transfers <= Attempts

\* No two started attempts share an attempt sequence, even if the nonce source
\* repeats itself and trials fail and are opened again: an envelope names one
\* boot.
AttemptsAreFresh ==
    \A x, y \in started : x.aseq = y.aseq => x = y

\* The floor is raised only by the envelope of the last attempt that was
\* started, and a slot becomes active only if an attempt of its image signed
\* an envelope and the floor already stands at its sequence: late, duplicated
\* and stale envelopes confirm nothing.
OnlyHealthyAttemptsConfirm ==
    [][/\ prot'.floor # prot.floor =>
             /\ prot.binding \in envelopes
             /\ \A x \in started : x.aseq <= prot.binding.aseq
       /\ meta'.active # meta.active =>
             /\ prot.floor = ActiveSequence'
             /\ \E e \in envelopes :
                   /\ e.slot = meta'.active
                   /\ e.image = meta'.slots[meta'.active].image]_vars

\* If accept is not cut for ever, the half-confirmed window closes with the
\* pending image active.
HalfConfirmedCloses ==
    <>[][~(Reset /\ call.phase = "confirm")]_vars =>
        \A slot \in Slots : (HalfConfirmed /\ meta.pending = slot) ~> meta.active = slot

\* update-authority.md: the rollback sequence is verified before the write,
\* and with a confirmed floor N a new pending candidate is exactly N + 1.
PendingIsSuccessor ==
    [][meta.pending = Update!NoSlot /\ meta'.pending # Update!NoSlot
          => Sequence[meta'.slots[meta'.pending].image] = prot.floor + 1]_meta
=============================================================================
