--------------------------- MODULE PolicyExecution ---------------------------
(***************************************************************************)
(* The execution of a signed policy by                                     *)
(* src/plugins/policy/ribos/adapter.c: one request is authorised against   *)
(* the protected rollback state, runs in the VM and commits the boot       *)
(* transaction it was made for; every failure goes to factory recovery.    *)
(*                                                                         *)
(* The product makes requests, prepares transactions, and confirms or      *)
(* gives up trials between them; every provider may fail, power may be     *)
(* lost anywhere, and a commit of the protected state may report an error  *)
(* although later calls see the new state, which may or may not be         *)
(* durable.  The protected state is the register that ProtectedJournal     *)
(* implements, the run of the VM is one of the outcomes that PolicyVm      *)
(* shows, and commit_attempt and quiesce_environment are the calls of      *)
(* BootTransaction.  Trials here are the unbound ones.                     *)
(***************************************************************************)
EXTENDS ProtectedRecords

VARIABLES
    prot,     \* state of the protected journal that open returns
    durable,  \* state that it returns after a power cut
    boot,     \* the boot transaction with the arena of its Core context
    request,  \* RibonRibosPolicyRequest, while phase is not "idle"
    adapter,  \* RibonRibosAdapterContext
    granted,  \* history: attempts the open trial was begun with
    runs      \* history: VM runs under the authority of that trial

policyVars == <<prot, durable, boot, request, adapter, granted, runs>>

PolicyStages == {"CAPTURE", "PREPARE_PROTOCOL", "COMMIT_ATTEMPT", "QUIESCE_ENVIRONMENT", "FAILED"}
Activations == {"EXISTING", "START_TRIAL"}
Authorities == {"NONE", "CONFIRMED", "TRIAL"}
Failures == {"NONE", "MALFORMED", "IDENTITY", "MODE_USAGE", "SIGNATURE", "KEY_POLICY",
             "STATE_UNAVAILABLE", "STATE_INVALID", "ROLLBACK", "VERIFIER"}
PolicyStatuses == {"OK", "BAD_ARGUMENT", "BAD_BINDING", "MISSING_SERVICE",
                   "ARENA_EXHAUSTED", "AUTHORIZATION", "VERIFICATION", "VM_FAULT",
                   "POLICY_ERROR", "ACTION_REJECTED", "COMMIT_FAILED", "QUIESCE_FAILED"}
Phases == {"idle", "validate", "authorize", "begin", "decide", "consume", "prepare",
           "execute", "faulted", "action", "commit", "quiesce", "done"}

\* recovery tells whether the binding has a factory_recovery callback, receipt
\* whether the call has room for one.
Requests == [activation : Activations, sequence : 0 .. MaxSequence,
             attempts : 0 .. MaxTrialAttempts + 1, recovery : BOOLEAN, receipt : BOOLEAN]

\* actions and vmRuns are histories of the transaction.
PolicyTransactions == [stage : PolicyStages, used : BOOLEAN, vmRuns : Nat, actions : Nat]

NewTxn(stage) == [stage |-> stage, used |-> FALSE, vmRuns |-> 0, actions |-> 0]

\* opened is a history: the rollback authority was decided on a state that opened.
Adapters == [phase : Phases, status : PolicyStatuses, failure : Failures,
             authority : Authorities, notified : Nat, consumed : BOOLEAN, opened : BOOLEAN]

NewAdapter(phase) ==
    [phase |-> phase, status |-> "BAD_ARGUMENT", failure |-> "NONE",
     authority |-> "NONE", notified |-> 0, consumed |-> FALSE, opened |-> FALSE]

NoRequest == [activation |-> "EXISTING", sequence |-> 0, attempts |-> 0,
              recovery |-> FALSE, receipt |-> FALSE]

PolicyInit ==
    /\ \E floor \in 0 .. MaxSequence : prot = Confirmed(floor, NoBinding, 0)
    /\ durable = prot
    /\ boot = NewTxn("CAPTURE")
    /\ request = NoRequest
    /\ adapter = NewAdapter("idle")
    /\ granted = 0 /\ runs = 0

\* Between requests.
AtRest == adapter.phase \in {"idle", "done"}

\* notify_recovery
Notified(a) == IF a.notified # 0 \/ ~request.recovery THEN a.notified ELSE a.notified + 1

\* ribon_ribos_fail, with the receipt filled in
Fail(status) ==
    adapter' = [adapter EXCEPT !.phase = "done", !.status = status,
                               !.notified = Notified(adapter)]

\* authorization_reject, which ribos_authorize_artifact_v1 passes on
Rejected(a, failure) ==
    [a EXCEPT !.phase = "done", !.status = "AUTHORIZATION",
              !.failure = IF @ = "NONE" THEN failure ELSE @,
              !.notified = Notified(a)]

Reject(failure) == adapter' = Rejected(adapter, failure)

Enter(phase) == adapter' = [adapter EXCEPT !.phase = phase]

-----------------------------------------------------------------------------
\* The product, between requests

\* The product prepares another transaction over a new arena; preparation may fail.
PrepareTransaction ==
    /\ AtRest
    /\ \E stage \in {"PREPARE_PROTOCOL", "FAILED"} : boot' = NewTxn(stage)
    /\ UNCHANGED <<prot, durable, request, adapter, granted, runs>>

\* A transition of the protected state to one of the states returns OK.
Commits(states) == prot' \in states /\ durable' = prot'

\* It returns an error: it was refused or failed before its record was flushed,
\* which makes an earlier commit durable; or it failed before its selector was
\* written, or with the selector visible, flushed or not.
CommitErrs(states) ==
    \/ UNCHANGED <<prot, durable>>
    \/ states # {} /\ prot' = prot /\ durable' = prot
    \/ prot' \in states /\ durable' \in {prot, prot'}

\* policy_confirm
PolicyConfirm(sequence) ==
    /\ AtRest
    /\ CommitErrs(ConfirmUnbound(prot, sequence))
    /\ UNCHANGED <<boot, request, adapter, granted, runs>>

\* policy_fail_trial
PolicyFailTrial ==
    /\ AtRest
    /\ CommitErrs(FailTrial(prot))
    /\ UNCHANGED <<boot, request, adapter, granted, runs>>

-----------------------------------------------------------------------------
\* ribon_ribos_policy_execute

\* Mutant of ArgumentsAreValid: the Core context is not validated again.
ArgumentsAreValidAnyArena == boot.stage = "PREPARE_PROTOCOL"

\* core_context_validate asks for an arena nobody has used.
ArgumentsAreValid == ~boot.used /\ boot.stage = "PREPARE_PROTOCOL"

\* A request arrives; one without a receipt returns BAD_ARGUMENT at once and
\* notifies nobody.
PolicyExecute(r) ==
    /\ AtRest
    /\ request' = r
    /\ adapter' = NewAdapter(IF r.receipt THEN "validate" ELSE "done")
    /\ UNCHANGED <<prot, durable, boot, granted, runs>>

\* Arguments, selected plugin, artifact size, binding, watchdog, and the
\* workspace of the authorizer; an allocation over the budget has been made.
Validate ==
    /\ adapter.phase = "validate"
    /\ \/ /\ \E status \in {"BAD_ARGUMENT", "BAD_BINDING"} : Fail(status)
          /\ UNCHANGED boot
       \/ /\ ArgumentsAreValid /\ request.recovery
          /\ Fail("MISSING_SERVICE")
          /\ UNCHANGED boot
       \/ /\ ArgumentsAreValid /\ request.recovery
          /\ \E used \in BOOLEAN : boot' = [boot EXCEPT !.used = used]
          /\ Fail("ARENA_EXHAUSTED")
       \/ /\ ArgumentsAreValid /\ request.recovery
          /\ boot' = [boot EXCEPT !.used = TRUE]
          /\ Enter("authorize")
    /\ UNCHANGED <<prot, durable, request, granted, runs>>

ActivationIsValid ==
    IF request.activation = "EXISTING" THEN request.attempts = 0
    ELSE request.attempts \in 1 .. MaxTrialAttempts

StartsTrial ==
    /\ request.activation = "START_TRIAL"
    /\ prot.kind = "CONFIRMED"
    /\ prot.floor # MaxSequence
    /\ request.sequence = prot.floor + 1

\* authorize_signed up to the first commit: identity, activation, trust message,
\* key policy, signature, open, and the preflight of a new trial
Authorize ==
    /\ adapter.phase = "authorize"
    /\ \/ \E failure \in {"MALFORMED", "IDENTITY"} : Reject(failure)
       \/ ~ActivationIsValid /\ Reject("ROLLBACK")
       \/ /\ ActivationIsValid
          /\ \/ \E failure \in {"MODE_USAGE", "SIGNATURE", "KEY_POLICY",
                                "STATE_UNAVAILABLE", "STATE_INVALID"} : Reject(failure)
             \/ request.activation = "EXISTING" /\ Enter("decide")
             \/ request.activation = "START_TRIAL" /\ ~StartsTrial /\ Reject("ROLLBACK")
             \/ StartsTrial /\ Reject("VERIFIER")
             \/ StartsTrial /\ Enter("begin")
    /\ UNCHANGED <<prot, durable, boot, request, granted, runs>>

\* begin_trial
BeginTrialStep ==
    /\ adapter.phase = "begin"
    /\ LET next == BeginTrial(prot, request.sequence, request.attempts, NoBinding, 0)
       IN  \/ Commits(next) /\ Enter("decide")
           \/ CommitErrs(next) /\ Reject("STATE_INVALID")
    /\ granted' = IF prot' = prot THEN granted ELSE request.attempts
    /\ runs' = IF prot' = prot THEN runs ELSE 0
    /\ UNCHANGED <<boot, request>>

\* Mutant of Authority: a trial hides the confirmed policy.
AuthorityOfTrialOnly(st, sequence) ==
    CASE st.kind = "TRIAL" ->
            IF sequence = st.pending /\ st.attempts # 0 THEN "TRIAL" ELSE "NONE"
      [] OTHER -> IF sequence = st.floor THEN "CONFIRMED" ELSE "NONE"

\* protected_state_authorize
Authority(st, sequence) ==
    IF sequence = st.floor THEN "CONFIRMED"
    ELSE IF st.kind = "TRIAL" /\ sequence = st.pending /\ st.attempts # 0 THEN "TRIAL"
    ELSE "NONE"

\* The decision, from a second open; a confirmed policy needs no commit.  An
\* open that fails for another reason than its provider is a ROLLBACK, too.
Decide ==
    /\ adapter.phase = "decide"
    /\ \/ \E failure \in {"STATE_UNAVAILABLE", "ROLLBACK"} : Reject(failure)
       \/ LET authority == Authority(prot, request.sequence)
              opened == [adapter EXCEPT !.opened = TRUE]
          IN  IF authority = "NONE" THEN adapter' = Rejected(opened, "ROLLBACK")
              ELSE adapter' = [opened EXCEPT
                       !.authority = authority,
                       !.phase = IF authority = "TRIAL" THEN "consume" ELSE "prepare"]
    /\ UNCHANGED <<prot, durable, boot, request, granted, runs>>

\* Mutant of ConsumeAttempt: the status of the commit is not looked at.
ConsumeAttemptUnchecked ==
    /\ adapter.phase = "consume"
    /\ CommitErrs(ConsumeTrialAttempt(prot, request.sequence))
    /\ Enter("prepare")
    /\ UNCHANGED <<boot, request, granted, runs>>

\* consume_trial_attempt, before the VM runs
ConsumeAttempt ==
    /\ adapter.phase = "consume"
    /\ LET next == ConsumeTrialAttempt(prot, request.sequence)
       IN  \/ Commits(next) /\ Enter("prepare")
           \/ CommitErrs(next) /\ Reject("STATE_INVALID")
    /\ UNCHANGED <<boot, request, granted, runs>>

\* Workspaces, verification and storage; then policy_execute_v1 starts.
PrepareRun ==
    /\ adapter.phase = "prepare"
    /\ \/ /\ \E status \in {"ARENA_EXHAUSTED", "VERIFICATION"} : Fail(status)
          /\ UNCHANGED <<boot, runs>>
       \/ /\ Enter("execute")
          /\ boot' = [boot EXCEPT !.vmRuns = @ + 1]
          /\ runs' = IF adapter.authority = "TRIAL" THEN runs + 1 ELSE runs
    /\ UNCHANGED <<prot, durable, request, granted>>

\* The VM returns an action or a policy error, refuses to start, or faults and
\* calls vm_recovery.
Execute ==
    /\ adapter.phase = "execute"
    /\ \/ Enter("action")
       \/ Fail("POLICY_ERROR")
       \/ Fail("VM_FAULT")
       \/ adapter' = [adapter EXCEPT !.phase = "faulted", !.notified = Notified(adapter)]
    /\ UNCHANGED <<prot, durable, boot, request, granted, runs>>

\* policy_execute_v1 returns after a fault.
ExecuteFaulted ==
    /\ adapter.phase = "faulted"
    /\ Fail("VM_FAULT")
    /\ UNCHANGED <<prot, durable, boot, request, granted, runs>>

\* validate_boot_action and boot_action_consume
ValidateAction ==
    /\ adapter.phase = "action"
    /\ \/ /\ Fail("ACTION_REJECTED")
          /\ UNCHANGED boot
       \/ /\ adapter' = [adapter EXCEPT !.phase = "commit", !.consumed = TRUE]
          /\ boot' = [boot EXCEPT !.actions = @ + 1]
    /\ UNCHANGED <<prot, durable, request, granted, runs>>

\* commit_attempt
Commit ==
    /\ adapter.phase = "commit"
    /\ \/ /\ boot' = [boot EXCEPT !.stage = "COMMIT_ATTEMPT"]
          /\ Enter("quiesce")
       \/ /\ boot' = [boot EXCEPT !.stage = "FAILED"]
          /\ Fail("COMMIT_FAILED")
    /\ UNCHANGED <<prot, durable, request, granted, runs>>

\* quiesce_environment, and the COMPLETE receipt
Quiesce ==
    /\ adapter.phase = "quiesce"
    /\ \/ /\ boot' = [boot EXCEPT !.stage = "QUIESCE_ENVIRONMENT"]
          /\ adapter' = [adapter EXCEPT !.phase = "done", !.status = "OK"]
       \/ /\ boot' = [boot EXCEPT !.stage = "FAILED"]
          /\ Fail("QUIESCE_FAILED")
    /\ UNCHANGED <<prot, durable, request, granted, runs>>

-----------------------------------------------------------------------------
\* Power is lost: the visible or the durable state survives, or the new one
\* of a commit under way.
PolicyPowerCut ==
    /\ boot' = NewTxn("CAPTURE")
    /\ request' = NoRequest
    /\ adapter' = NewAdapter("idle")
    /\ \/ /\ Commits({prot, durable})
          /\ UNCHANGED <<granted, runs>>
       \/ /\ adapter.phase = "begin"
          /\ Commits(BeginTrial(prot, request.sequence, request.attempts, NoBinding, 0))
          /\ granted' = request.attempts /\ runs' = 0
       \/ /\ adapter.phase = "consume"
          /\ Commits(ConsumeTrialAttempt(prot, request.sequence))
          /\ UNCHANGED <<granted, runs>>

RequestStep ==
    \/ Validate \/ Authorize \/ BeginTrialStep \/ Decide \/ ConsumeAttempt \/ PrepareRun
    \/ Execute \/ ExecuteFaulted \/ ValidateAction \/ Commit \/ Quiesce

PolicyNext ==
    \/ PrepareTransaction
    \/ \E sequence \in 0 .. MaxSequence : PolicyConfirm(sequence)
    \/ PolicyFailTrial
    \/ \E r \in Requests : PolicyExecute(r)
    \/ RequestStep
    \/ PolicyPowerCut

PolicySpec == PolicyInit /\ [][PolicyNext]_policyVars

-----------------------------------------------------------------------------

\* Types of the execution.
PolicyTypeOK ==
    /\ \A st \in {prot, durable} : st \in States /\ Decodes(st)
    /\ boot \in PolicyTransactions
    /\ request \in Requests
    /\ adapter \in Adapters
    /\ granted \in 0 .. MaxTrialAttempts
    /\ runs \in Nat

(***************************************************************************)
(* A candidate never runs on trial more often than its trial was granted   *)
(* attempts, and the attempts that this or a later boot may still use are  *)
(* what is left: whatever commits fail, take effect unreported, are lost   *)
(* afterwards or are cut, the attempt of a run was paid durably before the *)
(* run (authorize_signed).                                                 *)
(***************************************************************************)
RunsWithinGrant ==
    /\ runs <= granted
    /\ \A st \in {prot, durable} : st.kind = "TRIAL" => runs + st.attempts <= granted

(***************************************************************************)
(* Every request that fails notifies factory recovery exactly once, also   *)
(* when the VM notified it first, and a request that returns OK never did  *)
(* (ribon_ribos_fail, vm_recovery); the exceptions are a request without a *)
(* recovery callback and a call without room for a receipt.  A request     *)
(* that fails for its rollback authority never reached the VM.             *)
(***************************************************************************)
RecoveryOnce ==
    adapter.phase = "done" =>
        /\ adapter.notified =
              IF adapter.status # "OK" /\ request.recovery /\ request.receipt THEN 1 ELSE 0
        /\ adapter.failure # "NONE" => adapter.status = "AUTHORIZATION"

(***************************************************************************)
(* A transaction is run for at most once and committed by the one action   *)
(* that run produced.  A request that consumed its action leaves the       *)
(* transaction closed or failed, never ready for another policy, and a     *)
(* request that failed earlier leaves an arena that no second request      *)
(* accepts (core_context_validate, commit_attempt).                        *)
(***************************************************************************)
OneActionPerTransaction ==
    /\ boot.vmRuns <= 1
    /\ boot.actions <= boot.vmRuns
    /\ boot.stage \in {"COMMIT_ATTEMPT", "QUIESCE_ENVIRONMENT"} => boot.actions = 1
    /\ (adapter.phase = "done" /\ adapter.consumed) =>
          /\ boot.stage # "COMMIT_ATTEMPT"
          /\ boot.actions = 1 => boot.stage # "PREPARE_PROTOCOL"

(***************************************************************************)
(* The confirmed policy stays executable: a well-formed request for the    *)
(* confirmed floor is never refused as a rollback when the state opens, in *)
(* no state of a trial, exhausted ones included                            *)
(* (protected_state_authorize).                                            *)
(***************************************************************************)
FloorIsNeverRefused ==
    [][(/\ adapter.failure = "NONE" /\ adapter'.failure = "ROLLBACK" /\ adapter'.opened
        /\ request.activation = "EXISTING" /\ request.attempts = 0)
            => request.sequence # prot.floor]_policyVars

(***************************************************************************)
(* The durable floor never goes back, and moves by one, to a successor     *)
(* that was on trial.  The floor that requests see moves up by             *)
(* policy_confirm alone, when no request is under way, and back only to    *)
(* the durable state.                                                      *)
(***************************************************************************)
FloorMovesByConfirm ==
    [][/\ durable'.floor # durable.floor => /\ \E st \in {prot, durable} : st.kind = "TRIAL"
                                            /\ durable'.floor = durable.floor + 1
       /\ prot'.floor > prot.floor => /\ AtRest /\ prot.kind = "TRIAL"
                                      /\ prot'.floor = prot.floor + 1
       /\ prot'.floor < prot.floor => prot' = durable]_policyVars

=============================================================================
