----------------------- MODULE BootConfirmationProofs -----------------------
(***************************************************************************)
(* Proofs about boot attempts and their confirmation, for every set of     *)
(* images and nonces and every limit.                                      *)
(*                                                                         *)
(* The inductive invariant CInv says what the call between its two commits *)
(* may rely on (CallInv), that the attempt sequence of the protected state *)
(* is the latest of all attempts (SequenceInv), and that an attempt is     *)
(* paid before its transfer (BudgetInv); JournalsAgree needs the first.    *)
(***************************************************************************)
EXTENDS BootConfirmation, TLAPS

\* Both journals hold objects that their decoders accept.
Stored ==
    /\ TypeOK
    /\ Update!MetadataIsValid(meta)
    /\ Protected!Decodes(prot)

\* Between its two commits a call finds both journals as it left them.
CallInv ==
    /\ call.phase \in {"consume", "transfer", "running"} =>
          /\ prot.kind = "TRIAL"
          /\ prot.binding = call.binding
    /\ call.phase = "confirm" =>
          /\ call.binding \in envelopes
          /\ prot.kind = "CONFIRMED"
          /\ prot.floor = Sequence[call.binding.image]

\* The attempt sequence in the protected state is that of its binding, and no
\* attempt was started with a later one, or with the same for another binding.
SequenceInv ==
    /\ AttemptsAreFresh
    /\ prot.binding # NoBinding => prot.aseq = prot.binding.aseq
    /\ \A x \in started : /\ x.aseq <= prot.aseq
                          /\ x.aseq = prot.aseq => x = prot.binding
    /\ call.phase \in {"consume", "transfer"} => \A x \in started : x.aseq < prot.aseq

\* From consume to transfer one attempt is paid and not transferred to yet.
BudgetInv ==
    /\ AttemptBudget
    /\ prot.kind = "TRIAL" => transfers + prot.attempts <= Attempts
    /\ call.phase = "transfer" => transfers + prot.attempts + 1 <= Attempts

CInv == Stored /\ CallInv /\ SequenceInv /\ BudgetInv /\ JournalsAgree

-----------------------------------------------------------------------------

\* What a slot transition leaves alone and what it changes.
LEMMA TransitionFacts ==
    ASSUME NEW m \in Update!Metadata, NEW slot \in Slots, NEW image \in Images,
           NEW state \in Update!SlotStates, NEW attempts \in 0 .. MaxAttempts,
           NEW next \in Update!Transitions(m, slot, state, image, attempts)
    PROVE  /\ next \in Update!Metadata
           /\ Update!MetadataIsValid(next)
           /\ slot # m.active
           /\ next.slots[m.active] = m.slots[m.active]
           /\ next.active = IF state = "CONFIRMED" THEN slot ELSE m.active
           /\ state # "STAGING" => image = m.slots[slot].image
           /\ next.slots[slot].image = image
  <1> USE ProductAssumption, LimitAssumption
  <1>1. /\ next = Update!Successor(m, slot, state, image, attempts)
        /\ Update!TransitionIsAllowed(m, slot, state, image, attempts)
        /\ Update!MetadataIsValid(next)
    BY ZenonT(30) DEF Update!Transitions
  <1>2. /\ slot # m.active /\ m.gen < MaxGeneration
        /\ state # "STAGING" => image = m.slots[slot].image
    BY <1>1, ZenonT(30) DEF Update!TransitionIsAllowed
  <1>3. m.slots \in [Slots -> Update!Entries] /\ m.gen \in 1 .. MaxGeneration
        /\ m.active \in Slots /\ m.pending \in Slots \cup {Update!NoSlot}
    BY ZenonT(30) DEF Update!Metadata, Update!Slots, Slots
  <1> DEFINE entry == [state |-> state, gen |-> m.gen + 1, attempts |-> attempts,
                       image |-> IF state = "STAGING" THEN image ELSE m.slots[slot].image]
  <1>4. entry \in Update!Entries
    BY <1>2, <1>3 DEF Update!Entries
  <1>5. next.slots = [m.slots EXCEPT ![slot] = entry] /\ next.gen = m.gen + 1
        /\ next.active = (IF state = "CONFIRMED" THEN slot ELSE m.active)
        /\ next.pending \in Slots \cup {Update!NoSlot}
    BY <1>1, <1>3, ZenonT(30) DEF Update!Successor
  <1>6. next.slots \in [Slots -> Update!Entries]
    BY <1>3, <1>4, <1>5, ZenonT(30)
  <1>7. next \in Update!Metadata
    BY <1>1, <1>2, <1>3, <1>5, <1>6 DEF Update!Metadata, Update!Successor, Update!Slots, Slots
  <1>8. next.slots[m.active] = m.slots[m.active] /\ next.slots[slot].image = image
    BY <1>2, <1>3, <1>5
  <1> QED
    BY <1>1, <1>2, <1>5, <1>7, <1>8, ZenonT(30)

\* A pending slot is not the active one, and is the only slot that is PENDING.
LEMMA PendingSlot ==
    ASSUME Stored, meta.pending # Update!NoSlot
    PROVE  /\ meta.pending \in Slots /\ meta.active \in Slots
           /\ meta.pending # meta.active
           /\ meta.slots[meta.pending].state = "PENDING"
  <1>1. meta.pending \in Slots /\ meta.active \in Slots
    BY ZenonT(30) DEF Stored, TypeOK, Update!Metadata, Update!Slots, Slots
  <1>2. /\ {s \in Slots : meta.slots[s].state = "PENDING"} = {meta.pending}
        /\ meta.pending # meta.active
    BY ZenonT(30) DEF Stored, Update!MetadataIsValid, Update!Slots, Slots
  <1> QED
    BY <1>1, <1>2, ZenonT(30)

\* The states that the operations on the protected journal commit.
LEMMA ProtectedFacts ==
    ASSUME NEW st \in Protected!States, Protected!Decodes(st)
    PROVE  /\ \A seq \in Nat, b \in Bindings, a \in 1 .. MaxAttemptSequence :
                \A next \in Protected!BeginTrial(st, seq, Attempts, b, a) :
                  /\ next \in Protected!States /\ Protected!Decodes(next)
                  /\ st.kind = "CONFIRMED" /\ seq = st.floor + 1
                  /\ next.kind = "TRIAL" /\ next.floor = st.floor
                  /\ next.attempts = Attempts /\ next.binding = b /\ next.aseq = a
           /\ \A seq \in Nat, b \in Bindings, a \in 1 .. MaxAttemptSequence :
                \A next \in Protected!RebindTrialAttempt(st, seq, b, a) :
                  /\ next \in Protected!States /\ Protected!Decodes(next)
                  /\ st.kind = "TRIAL"
                  /\ next.kind = "TRIAL" /\ next.floor = st.floor
                  /\ next.attempts = st.attempts /\ next.binding = b /\ next.aseq = a
           /\ \A seq : \A next \in Protected!ConsumeTrialAttempt(st, seq) :
                  /\ next \in Protected!States /\ Protected!Decodes(next)
                  /\ st.kind = "TRIAL" /\ st.attempts # 0
                  /\ next.kind = "TRIAL" /\ next.floor = st.floor
                  /\ next.attempts = st.attempts - 1
                  /\ next.binding = st.binding /\ next.aseq = st.aseq
           /\ \A seq \in Nat, b \in Bindings, a \in 1 .. MaxAttemptSequence :
                \A next \in Protected!ConfirmBound(st, seq, b, a) :
                  /\ next \in Protected!States /\ Protected!Decodes(next)
                  /\ st.kind = "TRIAL" /\ seq = st.floor + 1 /\ st.binding = b /\ st.aseq = a
                  /\ next.kind = "CONFIRMED" /\ next.floor = seq
                  /\ next.binding = b /\ next.aseq = a
           /\ \A next \in Protected!FailTrial(st) :
                  /\ next \in Protected!States /\ Protected!Decodes(next)
                  /\ st.kind = "TRIAL"
                  /\ next.kind = "CONFIRMED" /\ next.floor = st.floor
                  /\ next.binding = st.binding /\ next.aseq = st.aseq
  <1> USE ProductAssumption, LimitAssumption, DigestAssumption
      DEF Protected!States, Protected!Decodes
  <1>1. \A seq \in Nat, b \in Bindings, a \in 1 .. MaxAttemptSequence :
          \A next \in Protected!BeginTrial(st, seq, Attempts, b, a) :
            /\ next \in Protected!States /\ Protected!Decodes(next)
            /\ st.kind = "CONFIRMED" /\ seq = st.floor + 1
            /\ next.kind = "TRIAL" /\ next.floor = st.floor
            /\ next.attempts = Attempts /\ next.binding = b /\ next.aseq = a
    BY DEF Protected!BeginTrial, Protected!Trial
  <1>2. \A seq \in Nat, b \in Bindings, a \in 1 .. MaxAttemptSequence :
          \A next \in Protected!RebindTrialAttempt(st, seq, b, a) :
            /\ next \in Protected!States /\ Protected!Decodes(next)
            /\ st.kind = "TRIAL"
            /\ next.kind = "TRIAL" /\ next.floor = st.floor
            /\ next.attempts = st.attempts /\ next.binding = b /\ next.aseq = a
    BY DEF Protected!RebindTrialAttempt, Protected!Trial
  <1>3. ASSUME NEW seq, NEW next \in Protected!ConsumeTrialAttempt(st, seq)
        PROVE  /\ next \in Protected!States /\ Protected!Decodes(next)
               /\ st.kind = "TRIAL" /\ st.attempts # 0
               /\ next.kind = "TRIAL" /\ next.floor = st.floor
               /\ next.attempts = st.attempts - 1
               /\ next.binding = st.binding /\ next.aseq = st.aseq
    BY DEF Protected!ConsumeTrialAttempt
  <1>4. \A seq \in Nat, b \in Bindings, a \in 1 .. MaxAttemptSequence :
          \A next \in Protected!ConfirmBound(st, seq, b, a) :
            /\ next \in Protected!States /\ Protected!Decodes(next)
            /\ st.kind = "TRIAL" /\ seq = st.floor + 1 /\ st.binding = b /\ st.aseq = a
            /\ next.kind = "CONFIRMED" /\ next.floor = seq
            /\ next.binding = b /\ next.aseq = a
    BY DEF Protected!ConfirmBound, Protected!Confirmed
  <1>5. \A next \in Protected!FailTrial(st) :
            /\ next \in Protected!States /\ Protected!Decodes(next)
            /\ st.kind = "TRIAL"
            /\ next.kind = "CONFIRMED" /\ next.floor = st.floor
            /\ next.binding = st.binding /\ next.aseq = st.aseq
    BY DEF Protected!FailTrial, Protected!Confirmed
  <1> QED
    BY <1>1, <1>2, <1>3, <1>4, <1>5, ZenonT(30)

\* The numbers of a state.
LEMMA Numbers ==
    ASSUME Stored
    PROVE  /\ prot \in Protected!States /\ Protected!Decodes(prot)
           /\ prot.aseq \in Nat /\ prot.attempts \in Nat /\ prot.floor \in Nat
           /\ transfers \in Nat /\ Attempts \in Nat
           /\ \A image \in Images : Sequence[image] \in Nat
           /\ \A x \in started : x \in Bindings /\ x.aseq \in Nat
           /\ call = NoCall => call.phase = "none"
           /\ call # NoCall => call.binding \in Bindings /\ call.binding.image \in Images
                               /\ call.binding.slot \in Slots
           /\ NoCall.phase = "none" /\ call.phase = "none" => call = NoCall
  BY ProductAssumption, LimitAssumption
  DEF Stored, TypeOK, Protected!States, Bindings, Calls, NoCall

\* The next record of an install changes the inactive slot only.
LEMMA InstallStep ==
    ASSUME CInv, NEW slot \in Slots, NEW image \in Images, Install(slot, image)
    PROVE  CInv'
  <1> USE DEF CInv
  <1>1. /\ call = NoCall /\ UNCHANGED <<prot, call, envelopes, started, transfers>>
        /\ meta.slots[slot].state # "PENDING"
        /\ \E state \in {"STAGING", "VERIFIED", "PENDING"}, attempts \in {0, Attempts} :
              meta' \in Update!Transitions(meta, slot, state, image, attempts)
    BY ZenonT(30) DEF Install, InstallCommit
  <1>2. /\ meta' \in Update!Metadata /\ Update!MetadataIsValid(meta)'
        /\ slot # meta.active /\ meta'.active = meta.active
        /\ meta'.slots[meta.active] = meta.slots[meta.active]
    <2>1. PICK state \in {"STAGING", "VERIFIED", "PENDING"}, attempts \in {0, Attempts} :
              meta' \in Update!Transitions(meta, slot, state, image, attempts)
      BY <1>1, ZenonT(30)
    <2>2. state \in Update!SlotStates /\ attempts \in 0 .. MaxAttempts /\ state # "CONFIRMED"
      BY ProductAssumption, LimitAssumption DEF Update!SlotStates
    <2>3. meta \in Update!Metadata
      BY ZenonT(30) DEF Stored, TypeOK
    <2> QED
      BY <2>1, <2>2, <2>3, TransitionFacts
  <1>3. Stored'
    BY <1>1, <1>2, ZenonT(30) DEF Stored, TypeOK
  <1>4. meta.pending = Update!NoSlot
    BY <1>1, <1>2, PendingSlot, ZenonT(30) DEF Slots
  <1>5. JournalsAgree'
    BY <1>1, <1>2, <1>4, ZenonT(30) DEF JournalsAgree, HalfConfirmed, ActiveSequence
  <1>6. CallInv' /\ SequenceInv' /\ BudgetInv'
    BY <1>1, ZenonT(30) DEF CallInv, SequenceInv, BudgetInv, AttemptsAreFresh, AttemptBudget
  <1> QED
    BY <1>3, <1>5, <1>6, ZenonT(30)

\* begin_attempt binds a sequence that no attempt has used.
LEMMA BeginAttemptStep ==
    ASSUME CInv, NEW slot \in Slots, NEW image \in Images, NEW nonce \in Nonces,
           BeginAttempt(slot, image, nonce)
    PROVE  CInv'
  <1> USE DEF CInv
  <1> DEFINE aseq == prot.aseq + 1
             binding == [slot |-> slot, image |-> image, nonce |-> nonce, aseq |-> aseq]
  <1>1. /\ call = NoCall /\ UNCHANGED <<meta, envelopes, started>>
        /\ call' = [phase |-> "consume", binding |-> binding]
        /\ PendingIdentityMatches(slot, image)
        /\ prot.aseq < MaxAttemptSequence
    BY ZenonT(30) DEF BeginAttempt
  <1>2. binding \in Bindings /\ aseq \in 1 .. MaxAttemptSequence /\ aseq > prot.aseq
    BY <1>1, Numbers, LimitAssumption DEF Bindings
  <1>3. /\ prot' \in Protected!States /\ Protected!Decodes(prot)'
        /\ prot'.kind = "TRIAL" /\ prot'.floor = prot.floor
        /\ prot'.binding = binding /\ prot'.aseq = aseq
        /\ \/ /\ prot.kind = "CONFIRMED" /\ Sequence[image] = prot.floor + 1
              /\ prot'.attempts = Attempts /\ transfers' = 0
           \/ /\ prot.kind = "TRIAL"
              /\ prot'.attempts = prot.attempts /\ transfers' = transfers
    <2>1. CASE /\ prot' \in Protected!BeginTrial(prot, Sequence[image], Attempts, binding, aseq)
               /\ transfers' = 0
      BY <1>2, <2>1, Numbers, ProtectedFacts
    <2>2. CASE /\ prot' \in Protected!RebindTrialAttempt(prot, Sequence[image], binding, aseq)
               /\ transfers' = transfers
      BY <1>2, <2>2, Numbers, ProtectedFacts
    <2> QED
      BY <2>1, <2>2, ZenonT(30) DEF BeginAttempt
  <1>4. Stored'
    <2>1. call' \in Calls /\ transfers' \in Nat
      BY <1>1, <1>2, <1>3, Numbers DEF Calls
    <2> QED
      BY <1>1, <1>3, <2>1, ZenonT(30) DEF Stored, TypeOK
  <1>5. CallInv'
    BY <1>1, <1>3, ZenonT(30) DEF CallInv
  <1>6. SequenceInv'
    <2>1. \A x \in started : x.aseq < aseq
      BY <1>2, Numbers DEF SequenceInv
    <2>2. binding.aseq = aseq
      BY ZenonT(30)
    <2>3. \A x \in started : x.aseq \in Nat
      BY Numbers, ZenonT(30)
    <2> QED
      BY <1>1, <1>2, <1>3, <2>1, <2>2, <2>3 DEF SequenceInv, AttemptsAreFresh
  <1>7. BudgetInv'
    BY <1>1, <1>3, Numbers DEF BudgetInv, AttemptBudget
  <1>8. JournalsAgree'
    <2>1. /\ Sequence[image] \in Nat
          /\ Sequence[image] = Sequence[meta.slots[meta.pending].image]
      BY <1>1, Numbers, ZenonT(30) DEF PendingIdentityMatches
    <2>2. ~HalfConfirmed
      BY <1>3, <2>1, Numbers DEF HalfConfirmed
    <2> QED
      BY <1>1, <1>3, <2>2, ZenonT(30) DEF JournalsAgree, ActiveSequence
  <1> QED
    BY <1>4, <1>5, <1>6, <1>7, <1>8, ZenonT(30)

\* consume_trial_attempt pays the attempt before begin_attempt returns.
LEMMA ConsumeAttemptStep ==
    ASSUME CInv, ConsumeAttempt
    PROVE  CInv'
  <1> USE DEF CInv
  <1>1. /\ call.phase = "consume" /\ UNCHANGED <<meta, envelopes, started, transfers>>
        /\ call # NoCall
    BY DEF ConsumeAttempt, NoCall
  <1>2. /\ prot' \in Protected!States /\ Protected!Decodes(prot)'
        /\ prot.kind = "TRIAL" /\ prot.attempts # 0
        /\ prot'.kind = "TRIAL" /\ prot'.floor = prot.floor
        /\ prot'.attempts = prot.attempts - 1
        /\ prot'.binding = prot.binding /\ prot'.aseq = prot.aseq
    BY Numbers, ProtectedFacts DEF ConsumeAttempt
  <1>3. call \in Calls
    BY <1>1, ZenonT(30) DEF Stored, TypeOK
  <1>4. call' \in Calls /\ call'.phase = "transfer" /\ call'.binding = call.binding
    BY <1>3, ZenonT(30) DEF ConsumeAttempt, Calls
  <1>5. Stored'
    BY <1>1, <1>2, <1>4, ZenonT(30) DEF Stored, TypeOK
  <1>6. CallInv'
    BY <1>1, <1>2, <1>4, ZenonT(30) DEF CallInv
  <1>7. SequenceInv'
    BY <1>1, <1>2, <1>4, ZenonT(30) DEF SequenceInv, AttemptsAreFresh
  <1>8. BudgetInv'
    BY <1>1, <1>2, <1>4, Numbers DEF BudgetInv, AttemptBudget
  <1>9. JournalsAgree'
    BY <1>1, <1>2, ZenonT(30) DEF JournalsAgree, HalfConfirmed, ActiveSequence
  <1> QED
    BY <1>5, <1>6, <1>7, <1>8, <1>9, ZenonT(30)

\* The transfer is the one that was paid.
LEMMA TransferStep ==
    ASSUME CInv, Transfer
    PROVE  CInv'
  <1> USE DEF CInv
  <1>1. /\ call.phase = "transfer" /\ UNCHANGED <<meta, prot, envelopes>>
        /\ started' = started \cup {call.binding} /\ transfers' = transfers + 1
        /\ call # NoCall
    BY DEF Transfer, NoCall
  <1>2. call \in Calls
    BY <1>1, ZenonT(30) DEF Stored, TypeOK
  <1>3. call' \in Calls /\ call'.phase = "running" /\ call'.binding = call.binding
    BY <1>2, ZenonT(30) DEF Transfer, Calls
  <1>4. Stored'
    BY <1>1, <1>2, <1>3, Numbers DEF Stored, TypeOK
  <1>5. CallInv'
    BY <1>1, <1>3, ZenonT(30) DEF CallInv
  <1>6. SequenceInv'
    <2>1. /\ call.binding \in Bindings /\ prot.binding = call.binding
          /\ prot.aseq = call.binding.aseq
      BY <1>1, Numbers, DigestAssumption, ZenonT(30) DEF CallInv, SequenceInv
    <2>2. \A x \in started : x.aseq < prot.aseq /\ x.aseq \in Nat
      BY <1>1, Numbers, ZenonT(30) DEF SequenceInv
    <2>3. AttemptsAreFresh'
      BY <1>1, <2>1, <2>2, Numbers DEF SequenceInv, AttemptsAreFresh
    <2>4. \A x \in started' : x.aseq <= prot.aseq /\ (x.aseq = prot.aseq => x = prot.binding)
      BY <1>1, <2>1, <2>2, Numbers
    <2> QED
      BY <1>1, <1>3, <2>1, <2>3, <2>4, ZenonT(30) DEF SequenceInv
  <1>7. BudgetInv'
    BY <1>1, <1>3, Numbers DEF BudgetInv, AttemptBudget
  <1>8. JournalsAgree'
    BY <1>1, ZenonT(30) DEF JournalsAgree, HalfConfirmed, ActiveSequence
  <1> QED
    BY <1>4, <1>5, <1>6, <1>7, <1>8, ZenonT(30)

\* A candidate signs for its own attempt.
LEMMA SignEnvelopeStep ==
    ASSUME CInv, SignEnvelope
    PROVE  CInv'
  <1> USE DEF CInv
  <1>1. /\ call.phase = "running" /\ UNCHANGED <<meta, prot, call, started, transfers>>
        /\ envelopes' = envelopes \cup {call.binding} /\ call # NoCall
    BY DEF SignEnvelope, NoCall
  <1>2. Stored'
    BY <1>1, Numbers, ZenonT(30) DEF Stored, TypeOK
  <1>3. CallInv' /\ SequenceInv' /\ BudgetInv' /\ JournalsAgree'
    BY <1>1, ZenonT(30) DEF CallInv, SequenceInv, BudgetInv, JournalsAgree, HalfConfirmed,
                ActiveSequence, AttemptsAreFresh, AttemptBudget
  <1> QED
    BY <1>2, <1>3, ZenonT(30)

\* The first commit of accept: already there, or made now for the latest attempt.
LEMMA AcceptFacts ==
    ASSUME CInv, NEW envelope \in envelopes, AcceptProtected(envelope)
    PROVE  /\ call = NoCall /\ UNCHANGED <<meta, envelopes, started, transfers>>
           /\ call' = [phase |-> "confirm", binding |-> envelope]
           /\ prot'.kind = "CONFIRMED" /\ prot'.floor = Sequence[envelope.image]
           /\ \/ prot' = prot
              \/ /\ prot' \in Protected!States /\ Protected!Decodes(prot)'
                 /\ prot.kind = "TRIAL" /\ Sequence[envelope.image] = prot.floor + 1
                 /\ prot.binding = envelope
                 /\ prot'.binding = prot.binding /\ prot'.aseq = prot.aseq
                 /\ PendingIdentityMatches(envelope.slot, envelope.image)
  <1> USE DEF CInv
  <1> DEFINE seq == Sequence[envelope.image]
  <1>1. /\ envelope \in Bindings /\ envelope.aseq \in 1 .. MaxAttemptSequence
        /\ envelope.image \in Images /\ seq \in Nat
    BY Numbers, ZenonT(30) DEF Stored, TypeOK, Bindings
  <1>2. /\ call = NoCall /\ UNCHANGED <<meta, envelopes, started, transfers>>
        /\ call' = [phase |-> "confirm", binding |-> envelope]
        /\ Acceptable(envelope)
    BY ZenonT(30) DEF AcceptProtected
  <1>3. CASE Protected!IsConfirmedBound(prot, seq, envelope, envelope.aseq) /\ UNCHANGED prot
    BY <1>2, <1>3, ZenonT(30) DEF Protected!IsConfirmedBound, Protected!Confirmed
  <1>4. CASE prot' \in Protected!ConfirmBound(prot, seq, envelope, envelope.aseq)
    <2>1. /\ prot' \in Protected!States /\ Protected!Decodes(prot)'
          /\ prot.kind = "TRIAL" /\ seq = prot.floor + 1
          /\ prot.binding = envelope /\ prot.aseq = envelope.aseq
          /\ prot'.kind = "CONFIRMED" /\ prot'.floor = seq
          /\ prot'.binding = envelope /\ prot'.aseq = envelope.aseq
      BY <1>1, <1>4, Numbers, ProtectedFacts, SMTT(30)
    <2>2. prot.floor = ActiveSequence /\ prot.floor \in Nat
      BY <2>1, Numbers, ZenonT(30) DEF JournalsAgree, HalfConfirmed
    <2>3. ~UpdateIsConfirmed(envelope.slot, envelope.image)
      BY <2>1, <2>2 DEF UpdateIsConfirmed, ActiveSequence
    <2>4. PendingIdentityMatches(envelope.slot, envelope.image)
      BY <1>2, <2>3, ZenonT(30) DEF Acceptable
    <2> QED
      BY <1>2, <2>1, <2>4, ZenonT(30)
  <1> QED
    BY <1>3, <1>4, ZenonT(30) DEF AcceptProtected

\* accept raises the floor for the pending image and no other.
LEMMA AcceptProtectedStep ==
    ASSUME CInv, NEW envelope \in envelopes, AcceptProtected(envelope)
    PROVE  CInv'
  <1> USE DEF CInv
  <1>1. envelope \in Bindings /\ envelope.slot \in Slots
    BY ZenonT(30) DEF Stored, TypeOK, Bindings
  <1>2. Stored'
    <2>1. call' \in Calls
      BY <1>1, AcceptFacts DEF Calls
    <2> QED
      BY <2>1, AcceptFacts, ZenonT(30) DEF Stored, TypeOK
  <1>3. CallInv'
    BY AcceptFacts DEF CallInv
  <1>4. SequenceInv'
    BY AcceptFacts DEF SequenceInv, AttemptsAreFresh
  <1>5. BudgetInv'
    BY AcceptFacts DEF BudgetInv, AttemptBudget
  <1>6. JournalsAgree'
    <2>1. CASE prot' = prot
      BY <2>1, AcceptFacts, ZenonT(30) DEF JournalsAgree, HalfConfirmed, ActiveSequence
    <2>2. CASE prot' # prot
      <3>1. prot.floor = ActiveSequence
        BY <2>2, AcceptFacts, ZenonT(30) DEF JournalsAgree, HalfConfirmed
      <3>2. meta.pending = envelope.slot /\ meta.pending # Update!NoSlot
            /\ meta.slots[meta.pending].image = envelope.image
        BY <1>1, <2>2, AcceptFacts DEF PendingIdentityMatches, Update!NoSlot, Slots
      <3> QED
        BY <2>2, <3>1, <3>2, AcceptFacts, ZenonT(30) DEF JournalsAgree, HalfConfirmed, ActiveSequence
    <2> QED
      BY <2>1, <2>2, ZenonT(30)
  <1> QED
    BY <1>2, <1>3, <1>4, <1>5, <1>6, ZenonT(30)

\* The second commit of accept makes the image of the floor the active one.
LEMMA AcceptUpdateStep ==
    ASSUME CInv, AcceptUpdate
    PROVE  /\ CInv'
           /\ meta'.active # meta.active =>
                 /\ prot.floor = ActiveSequence'
                 /\ \E e \in envelopes : /\ e.slot = meta'.active
                                         /\ e.image = meta'.slots[meta'.active].image
  <1> USE DEF CInv
  <1> DEFINE slot == call.binding.slot
             image == call.binding.image
  <1>1. /\ call.phase = "confirm" /\ call # NoCall /\ call' = NoCall
        /\ UNCHANGED <<prot, envelopes, started, transfers>>
        /\ call'.phase = "none"
    BY DEF AcceptUpdate, NoCall
  <1>2. slot \in Slots /\ image \in Images /\ call.binding \in envelopes
        /\ prot.floor = Sequence[image]
    BY <1>1, Numbers, ZenonT(30) DEF CallInv
  <1>3. \/ meta' = meta
        \/ /\ meta' \in Update!Metadata /\ Update!MetadataIsValid(meta)'
           /\ meta'.active = slot /\ meta'.slots[slot].image = image
    <2>1. CASE meta' \in Update!Transitions(meta, slot, "CONFIRMED", image, 0)
      <3>1. /\ "CONFIRMED" \in Update!SlotStates /\ 0 \in 0 .. MaxAttempts
            /\ meta \in Update!Metadata
        BY LimitAssumption DEF Update!SlotStates, Stored, TypeOK
      <3> QED
        BY <1>2, <2>1, <3>1, TransitionFacts
    <2> QED
      BY <2>1, ZenonT(30) DEF AcceptUpdate
  <1>4. Stored'
    BY <1>1, <1>3, ZenonT(30) DEF Stored, TypeOK
  <1>5. CallInv' /\ SequenceInv' /\ BudgetInv'
    BY <1>1, ZenonT(30) DEF CallInv, SequenceInv, BudgetInv, AttemptsAreFresh, AttemptBudget
  <1>6. JournalsAgree'
    BY <1>1, <1>2, <1>3, ZenonT(30) DEF JournalsAgree, HalfConfirmed, ActiveSequence
  <1>7. meta'.active # meta.active =>
           /\ prot.floor = ActiveSequence'
           /\ \E e \in envelopes : /\ e.slot = meta'.active
                                   /\ e.image = meta'.slots[meta'.active].image
    BY <1>2, <1>3, ZenonT(30) DEF ActiveSequence
  <1> QED
    BY <1>4, <1>5, <1>6, <1>7, ZenonT(30)

\* A failed trial keeps the attempt sequence.
LEMMA FailTrialStep ==
    ASSUME CInv, FailTrial
    PROVE  CInv' /\ prot'.floor = prot.floor
  <1> USE DEF CInv
  <1>1. call = NoCall /\ UNCHANGED <<meta, call, envelopes, started, transfers>>
    BY ZenonT(30) DEF FailTrial
  <1>2. /\ prot' \in Protected!States /\ Protected!Decodes(prot)'
        /\ prot.kind = "TRIAL" /\ prot'.kind = "CONFIRMED" /\ prot'.floor = prot.floor
        /\ prot'.binding = prot.binding /\ prot'.aseq = prot.aseq
    BY Numbers, ProtectedFacts DEF FailTrial
  <1>3. call.phase = "none"
    BY <1>1, Numbers, ZenonT(30)
  <1>4. Stored'
    BY <1>1, <1>2, ZenonT(30) DEF Stored, TypeOK
  <1>5. CallInv' /\ SequenceInv' /\ BudgetInv'
    BY <1>1, <1>2, <1>3, ZenonT(30) DEF CallInv, SequenceInv, BudgetInv, AttemptsAreFresh, AttemptBudget
  <1>6. JournalsAgree'
    BY <1>1, <1>2, ZenonT(30) DEF JournalsAgree, HalfConfirmed, ActiveSequence
  <1> QED
    BY <1>2, <1>4, <1>5, <1>6, ZenonT(30)

\* A reset forgets the call and nothing else.
LEMMA ResetStep ==
    ASSUME CInv, Reset
    PROVE  CInv'
  <1> USE DEF CInv
  <1>1. /\ UNCHANGED <<meta, prot, envelopes, started, transfers>>
        /\ call' = NoCall /\ call'.phase = "none"
    BY ZenonT(30) DEF Reset, NoCall
  <1>2. Stored'
    BY <1>1, ZenonT(30) DEF Stored, TypeOK
  <1>3. CallInv' /\ SequenceInv' /\ BudgetInv' /\ JournalsAgree'
    BY <1>1, ZenonT(30) DEF CallInv, SequenceInv, BudgetInv, JournalsAgree, HalfConfirmed,
                ActiveSequence, AttemptsAreFresh, AttemptBudget
  <1> QED
    BY <1>2, <1>3, ZenonT(30)

-----------------------------------------------------------------------------

\* The provisioned device satisfies the invariant.
LEMMA InitHolds == Init => CInv
  <1> SUFFICES ASSUME Init PROVE CInv
    BY ZenonT(30)
  <1> USE ProductAssumption, LimitAssumption DEF Init
  <1>1. /\ meta.active = 0 /\ meta.pending = Update!NoSlot /\ meta.gen = 1
        /\ meta.slots[0] = [state |-> "CONFIRMED", gen |-> 1, image |-> Factory, attempts |-> 0]
        /\ meta.slots[1] = Update!EmptyEntry
    BY DEF Update!Provisioned, Update!Slots
  <1>2. meta \in Update!Metadata
    <2>1. /\ [state |-> "CONFIRMED", gen |-> 1, image |-> Factory, attempts |-> 0] \in Update!Entries
          /\ Update!EmptyEntry \in Update!Entries
      BY DEF Update!Entries, Update!EmptyEntry, Update!SlotStates
    <2> QED
      BY <2>1 DEF Update!Provisioned, Update!Metadata, Update!Slots, Update!NoSlot
  <1>3. Update!MetadataIsValid(meta)
    <2>1. \A s \in Update!Slots : Update!EntryIsValid(meta.slots[s], meta.gen)
      BY <1>1 DEF Update!EntryIsValid, Update!EmptyEntry, Update!Slots
    <2>2. {s \in Update!Slots : meta.slots[s].state = "PENDING"} = {}
      BY <1>1 DEF Update!EmptyEntry, Update!Slots
    <2> QED
      BY <1>1, <2>1, <2>2 DEF Update!MetadataIsValid
  <1>4. /\ prot \in Protected!States /\ Protected!Decodes(prot)
        /\ prot.kind = "CONFIRMED" /\ prot.binding = NoBinding
        /\ prot.floor = Sequence[Factory]
    BY DEF Protected!Confirmed, Protected!States, Protected!Decodes
  <1>5. Stored
    BY <1>2, <1>3, <1>4, ZenonT(30) DEF Stored, TypeOK
  <1>6. CallInv /\ SequenceInv /\ BudgetInv
    BY <1>4 DEF CallInv, SequenceInv, BudgetInv, AttemptsAreFresh, AttemptBudget, NoCall
  <1>7. JournalsAgree
    BY <1>1, <1>4 DEF JournalsAgree, ActiveSequence
  <1> QED
    BY <1>5, <1>6, <1>7, ZenonT(30) DEF CInv

\* Every step preserves it.
LEMMA StepHolds == CInv /\ [Next]_vars => CInv'
  <1> SUFFICES ASSUME CInv, [Next]_vars PROVE CInv'
    BY ZenonT(30)
  <1>1. CASE UNCHANGED vars
    BY <1>1, ZenonT(30) DEF vars, CInv, Stored, TypeOK, CallInv, SequenceInv, BudgetInv, JournalsAgree,
                HalfConfirmed, ActiveSequence, AttemptsAreFresh, AttemptBudget
  <1> QED
    BY <1>1, InstallStep, BeginAttemptStep, ConsumeAttemptStep, TransferStep, SignEnvelopeStep,
       AcceptProtectedStep, AcceptUpdateStep, FailTrialStep, ResetStep, ZenonT(30) DEF Next

\* It holds in every state.
LEMMA ConfirmationInvariant == Spec => []CInv
  BY InitHolds, StepHolds, PTL DEF Spec

\* What the two journals, the running call and the envelopes hold stays in
\* its encoding, for every limit; no counter passes its limit
\* (begin_attempt).
THEOREM ConfirmationTypes == Spec => []TypeOK
  <1>1. CInv => TypeOK
    BY ZenonT(30) DEF CInv, Stored
  <1> QED
    BY <1>1, ConfirmationInvariant, PTL

\* The confirmed floor is the sequence of the active image, or accept was cut
\* between its two commits and the pending image is the one of the floor
\* (ribon_boot_confirmation_accept).
THEOREM JournalsStayTogether == Spec => []JournalsAgree
  <1>1. CInv => JournalsAgree
    BY ZenonT(30) DEF CInv
  <1> QED
    BY <1>1, ConfirmationInvariant, PTL

\* No trial is transferred to more often than it has attempts
\* (ribon_boot_confirmation_begin_attempt).
THEOREM BudgetIsKept == Spec => []AttemptBudget
  <1>1. CInv => AttemptBudget
    BY ZenonT(30) DEF CInv, BudgetInv
  <1> QED
    BY <1>1, ConfirmationInvariant, PTL

\* An attempt sequence names one boot, whatever the nonce source returns and
\* however often trials fail and open again (begin_attempt, fail_trial).
THEOREM SequencesAreFresh == Spec => []AttemptsAreFresh
  <1>1. CInv => AttemptsAreFresh
    BY ZenonT(30) DEF CInv, SequenceInv
  <1> QED
    BY <1>1, ConfirmationInvariant, PTL

\* Only the envelope of the latest attempt raises the floor, and only an image
\* at the floor that signed an envelope becomes active: late, repeated and
\* stale envelopes confirm nothing (accept).
THEOREM StaleEnvelopesConfirmNothing == Spec => OnlyHealthyAttemptsConfirm
  <1> DEFINE Step ==
        /\ prot'.floor # prot.floor =>
              /\ prot.binding \in envelopes
              /\ \A x \in started : x.aseq <= prot.binding.aseq
        /\ meta'.active # meta.active =>
              /\ prot.floor = ActiveSequence'
              /\ \E e \in envelopes :
                    /\ e.slot = meta'.active
                    /\ e.image = meta'.slots[meta'.active].image
  <1>1. CInv /\ [Next]_vars => [Step]_vars
    <2> SUFFICES ASSUME CInv, Next PROVE Step
      BY ZenonT(30)
    <2>n. prot \in Protected!States /\ Protected!Decodes(prot) /\ meta \in Update!Metadata
      BY ZenonT(30) DEF CInv, Stored, TypeOK
    <2>1. ASSUME NEW slot \in Slots, NEW image \in Images, Install(slot, image) PROVE Step
      <3>1. PICK state \in {"STAGING", "VERIFIED", "PENDING"}, attempts \in {0, Attempts} :
                meta' \in Update!Transitions(meta, slot, state, image, attempts)
        BY <2>1, ZenonT(30) DEF Install, InstallCommit
      <3>2. state \in Update!SlotStates /\ attempts \in 0 .. MaxAttempts /\ state # "CONFIRMED"
        BY ProductAssumption, LimitAssumption DEF Update!SlotStates
      <3>3. meta'.active = meta.active
        BY <2>n, <3>1, <3>2, TransitionFacts, SMTT(30)
      <3> QED
        BY <2>1, <3>3, ZenonT(30) DEF Install, InstallCommit
    <2>2. ASSUME NEW slot \in Slots, NEW image \in Images, NEW nonce \in Nonces,
                 BeginAttempt(slot, image, nonce)
          PROVE  Step
      <3>1. prot'.floor = prot.floor
        BY <2>2 DEF BeginAttempt, Protected!BeginTrial, Protected!RebindTrialAttempt,
                    Protected!Trial
      <3> QED
        BY <2>2, <3>1, ZenonT(30) DEF BeginAttempt
    <2>3. CASE ConsumeAttempt
      BY <2>n, <2>3, ProtectedFacts DEF ConsumeAttempt
    <2>4. CASE Transfer \/ SignEnvelope \/ Reset
      BY <2>4, ZenonT(30) DEF Transfer, SignEnvelope, Reset
    <2>5. ASSUME NEW envelope \in envelopes, AcceptProtected(envelope) PROVE Step
      <3>1. CASE prot' = prot
        BY <2>5, <3>1, AcceptFacts, ZenonT(30)
      <3>2. CASE prot' # prot
        <4>1. prot.binding = envelope /\ meta' = meta
          BY <2>5, <3>2, AcceptFacts, ZenonT(30)
        <4>2. prot.aseq = prot.binding.aseq
          BY <4>1, DigestAssumption, ZenonT(30) DEF CInv, Stored, TypeOK, SequenceInv
        <4> QED
          BY <4>1, <4>2, ZenonT(30) DEF CInv, SequenceInv
      <3> QED
        BY <3>1, <3>2, ZenonT(30)
    <2>6. CASE AcceptUpdate
      BY <2>6, AcceptUpdateStep, ZenonT(30) DEF AcceptUpdate
    <2>7. CASE FailTrial
      BY <2>7, FailTrialStep, ZenonT(30) DEF FailTrial
    <2> QED
      BY <2>1, <2>2, <2>3, <2>4, <2>5, <2>6, <2>7, ZenonT(30) DEF Next
  <1> QED
    BY <1>1, ConfirmationInvariant, PTL DEF Spec, OnlyHealthyAttemptsConfirm

=============================================================================
