-------------------------- MODULE ProtectedRecords --------------------------
(***************************************************************************)
(* The rollback state of one domain, src/security/protected_state.c: which *)
(* logical states a record can carry, and what each operation makes of the *)
(* current one.  An operation is the set of states that it commits: one    *)
(* state, or none when it returns an error.                                *)
(***************************************************************************)
EXTENDS Naturals

CONSTANTS
    MaxSequence,        \* UINT64_MAX as a rollback sequence
    MaxAttemptSequence, \* UINT64_MAX as an attempt sequence
    MaxTrialAttempts,   \* RIBON_PROTECTED_STATE_MAX_TRIAL_ATTEMPTS
    Bindings,           \* boot-attempt binding digests
    NoBinding           \* the all-zero digest

ASSUME SequenceAssumption ==
    /\ MaxSequence \in Nat
    /\ MaxAttemptSequence \in Nat
    /\ MaxTrialAttempts \in Nat \ {0}
ASSUME BindingAssumption == NoBinding \notin Bindings

States == [kind : {"CONFIRMED", "TRIAL"}, floor : 0 .. MaxSequence,
           pending : 0 .. MaxSequence, attempts : 0 .. MaxTrialAttempts,
           aseq : 0 .. MaxAttemptSequence, binding : Bindings \cup {NoBinding}]

\* The checks of record_decode on a record's fields.
Decodes(st) ==
    /\ st.binding = NoBinding <=> st.aseq = 0
    /\ \/ st.kind = "CONFIRMED" /\ st.pending = 0 /\ st.attempts = 0
       \/ /\ st.kind = "TRIAL"
          /\ st.floor < MaxSequence /\ st.pending = st.floor + 1
          /\ st.attempts <= MaxTrialAttempts

Confirmed(floor, binding, aseq) ==
    [kind |-> "CONFIRMED", floor |-> floor, pending |-> 0, attempts |-> 0,
     aseq |-> aseq, binding |-> binding]

Trial(floor, attempts, binding, aseq) ==
    [kind |-> "TRIAL", floor |-> floor, pending |-> floor + 1,
     attempts |-> attempts, aseq |-> aseq, binding |-> binding]

\* begin_trial, unbound with NoBinding and 0, bound otherwise.
BeginTrial(st, candidate, attempts, binding, aseq) ==
    {next \in {Trial(st.floor, attempts, binding, aseq)} :
        /\ st.kind = "CONFIRMED"
        /\ st.floor < MaxSequence
        /\ candidate = st.floor + 1
        /\ attempts \in 1 .. MaxTrialAttempts
        /\ binding = NoBinding <=> aseq = 0}

\* Mutant of RebindTrialAttempt: the attempts start again.
RebindWithFreshAttempts(st, pending, binding, aseq) ==
    {next \in {Trial(st.floor, MaxTrialAttempts, binding, aseq)} :
        /\ binding # NoBinding
        /\ st.kind = "TRIAL"
        /\ st.pending = pending
        /\ st.attempts # 0
        /\ aseq > st.aseq}

\* rebind_trial_attempt
RebindTrialAttempt(st, pending, binding, aseq) ==
    {next \in {Trial(st.floor, st.attempts, binding, aseq)} :
        /\ binding # NoBinding
        /\ st.kind = "TRIAL"
        /\ st.pending = pending
        /\ st.attempts # 0
        /\ aseq > st.aseq}

\* consume_trial_attempt
ConsumeTrialAttempt(st, pending) ==
    {next \in {[st EXCEPT !.attempts = @ - 1]} :
        /\ st.kind = "TRIAL"
        /\ st.pending = pending
        /\ st.attempts # 0}

\* confirm: unbound trials only; the attempt history restarts at zero.
ConfirmUnbound(st, pending) ==
    {next \in {Confirmed(pending, NoBinding, 0)} :
        /\ st.kind = "TRIAL"
        /\ st.pending = pending
        /\ st.binding = NoBinding /\ st.aseq = 0}

\* confirm_bound returns OK without a commit.
IsConfirmedBound(st, pending, binding, aseq) ==
    st = Confirmed(pending, binding, aseq)

\* confirm_bound commits.
ConfirmBound(st, pending, binding, aseq) ==
    {next \in {Confirmed(pending, binding, aseq)} :
        /\ binding # NoBinding /\ aseq # 0
        /\ st.kind = "TRIAL"
        /\ st.pending = pending
        /\ st.aseq = aseq
        /\ st.binding = binding}

\* Mutant of FailTrial: the attempt history is dropped.
FailTrialAndForget(st) ==
    {next \in {Confirmed(st.floor, NoBinding, 0)} : st.kind = "TRIAL"}

\* Mutant of FailTrial: the pending sequence is not reset.
FailTrialKeepsPending(st) ==
    {next \in {[st EXCEPT !.kind = "CONFIRMED", !.attempts = 0]} : st.kind = "TRIAL"}

\* fail_trial
FailTrial(st) ==
    {next \in {Confirmed(st.floor, st.binding, st.aseq)} : st.kind = "TRIAL"}
=============================================================================
