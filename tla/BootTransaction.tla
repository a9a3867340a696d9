--------------------------- MODULE BootTransaction ---------------------------
(***************************************************************************)
(* The boot transaction of src/common/boot.c with the UEFI closure of      *)
(* src/environments/uefi-app: prepare reads the image and builds a         *)
(* handoff, commit_attempt makes the attempt record durable, the exit loop *)
(* rebuilds the handoff from the final memory map until ExitBootServices   *)
(* accepts the map key, quiesce closes the environment and transfer enters *)
(* the kernel; a managed image is launched instead by execute_terminal.    *)
(*                                                                         *)
(* The caller may make the calls in any order and on any transaction, the  *)
(* firmware may change its memory map at any moment before the exit, every *)
(* provider may fail, and power may be lost anywhere.  A memory map is its *)
(* version; an attempt record is the number of its transaction, 0 when the *)
(* bytes are no complete record.                                           *)
(***************************************************************************)
EXTENDS Naturals

CONSTANTS
    MaxRetries,         \* limits.max_retries
    MaxHandoff,         \* limits.max_handoff_bytes
    ArtifactSizes,      \* sizes prepare_handoff may produce
    ExitAttempts,       \* RIBON_UEFI_EXIT_ATTEMPTS
    MaxMap,             \* bound: versions of the firmware's map in one boot
    MaxTransactions     \* bound: transactions initialised over all boots

ASSUME LimitAssumption ==
    /\ MaxRetries \in Nat /\ MaxHandoff \in Nat
    /\ ArtifactSizes \subseteq Nat
    /\ ExitAttempts \in Nat \ {0}
    /\ MaxMap \in Nat \ {0} /\ MaxTransactions \in Nat

Kinds == {"DIRECT_ENTRY", "MANAGED_IMAGE"}

\* RibonBootLifecycleStage; prepare is observable only while it reads
\* (LOAD_IMAGE), and a zeroed transaction is no transaction.
Stages == {"ZEROED", "CAPTURE", "LOAD_IMAGE", "PREPARE_PROTOCOL", "COMMIT_ATTEMPT",
           "QUIESCE_ENVIRONMENT", "EXECUTE_TERMINAL", "TRANSFER", "FAILED"}

\* Where and why a transaction may fail, as its receipt tells.
FailureStages == {"NONE", "CAPTURE", "VALIDATE_PRODUCT", "NORMALIZE_ENVIRONMENT",
                  "SELECT_SOURCE", "VERIFY_MANIFEST", "LOAD_IMAGE", "PREPARE_PROTOCOL",
                  "COMMIT_ATTEMPT", "QUIESCE_ENVIRONMENT", "EXECUTE_TERMINAL"}

FailureReasons == {"NONE", "BAD_INPUT", "PRODUCT", "BUDGET", "TIMEOUT", "SOURCE",
                   "IMAGE", "PROTOCOL", "COMMIT", "QUIESCE", "TERMINAL"}

NoReceipt == [stage |-> "NONE", reason |-> "NONE"]

VARIABLES
    txn,        \* the RibonBootTransaction
    call,       \* the step the API call in progress is about to take, or "none"
    handoff,    \* map version the handoff buffer describes, 0 for none
    media,      \* attempt record as the metadata service reads it back
    disk,       \* attempt record that a power cut leaves
    firmware,   \* boot services live, and the version of the memory map
    captured,   \* map version of the captured environment and of map_key
    exits,      \* attempts the exit loop has used
    control     \* who runs

vars == <<txn, call, handoff, media, disk, firmware, captured, exits, control>>

\* A transaction object filled with zeros.
Zeroed(id) ==
    [id |-> id, stage |-> "ZEROED", protocol |-> "NONE", request |-> "NONE",
     retries |-> 0, output |-> 0, receipt |-> NoReceipt]

Init ==
    /\ txn = Zeroed(0)
    /\ call = "none"
    /\ handoff = 0 /\ media = 0 /\ disk = 0
    /\ firmware = [live |-> TRUE, map |-> 1]
    /\ captured = 0
    /\ exits = 0
    /\ control = "ribon"

BootFail(t, stage, reason) ==
    [t EXCEPT !.stage = "FAILED", !.receipt = [stage |-> stage, reason |-> reason]]

\* An API call may be made.
Idle == control = "ribon" /\ call = "none"

-----------------------------------------------------------------------------
(* ribon_boot_transaction_initialize                                       *)

Initialize(kind) ==
    /\ Idle
    /\ txn.id < MaxTransactions
    /\ \/ txn' = [Zeroed(txn.id + 1) EXCEPT !.stage = "CAPTURE", !.protocol = kind]
       \/ txn' = Zeroed(txn.id + 1)
    /\ UNCHANGED <<call, handoff, media, disk, firmware, captured, exits, control>>

-----------------------------------------------------------------------------
(* boot_prepare_protocol_plan: the transactions and handoff buffers it may *)
(* leave when it builds an artifact of the given size from environment     *)
(* map.                                                                    *)

\* Deadline, terminal request and prepared entry, once the handoff is built.
SealPlan(t, size, built) ==
    {[txn |-> BootFail(t, "PREPARE_PROTOCOL", "TIMEOUT"), handoff |-> built],
     [txn |-> BootFail([t EXCEPT !.request = "NONE"], "PREPARE_PROTOCOL", "PROTOCOL"),
      handoff |-> built],
     [txn |-> [t EXCEPT !.stage = "PREPARE_PROTOCOL", !.request = t.protocol,
                        !.output = t.output + size],
      handoff |-> built]}

\* max_handoff_bytes bounds all the artifacts of a transaction together.
\* Mutant of OverBudget: only the artifact at hand is compared.
OverBudgetOfOne(t, size) == size > MaxHandoff

OverBudget(t, size) == size > MaxHandoff \/ t.output > MaxHandoff - size

PreparePlan(t, map, size) ==
    {[txn |-> BootFail(t, "PREPARE_PROTOCOL", reason), handoff |-> handoff] :
        reason \in {"TIMEOUT"} \cup (IF firmware.live THEN {"PROTOCOL"} ELSE {})}
    \cup
    IF ~firmware.live THEN {}
    ELSE IF t.protocol = "MANAGED_IMAGE" THEN SealPlan(t, 0, handoff)
    ELSE {[txn |-> BootFail(t, "PREPARE_PROTOCOL", reason), handoff |-> 0] :
             reason \in {"BUDGET", "PROTOCOL"}}
         \cup
         IF OverBudget(t, size)
         THEN {[txn |-> BootFail(t, "PREPARE_PROTOCOL", "BUDGET"), handoff |-> map]}
         ELSE SealPlan(t, size, map)

-----------------------------------------------------------------------------
(* ribon_boot_transaction_prepare                                          *)

PrepareFailures ==
    {<<"VALIDATE_PRODUCT", "PRODUCT">>, <<"NORMALIZE_ENVIRONMENT", "BAD_INPUT">>,
     <<"SELECT_SOURCE", "BUDGET">>, <<"VERIFY_MANIFEST", "BAD_INPUT">>,
     <<"LOAD_IMAGE", "TIMEOUT">>}

\* The checks up to the first read of the source.
Prepare ==
    /\ Idle
    /\ \/ /\ txn' = BootFail(txn, "CAPTURE", "BAD_INPUT")
          /\ UNCHANGED call
       \/ /\ txn.stage = "CAPTURE"
          /\ \E f \in PrepareFailures :
                /\ captured = 0 => f[1] \in {"VALIDATE_PRODUCT", "NORMALIZE_ENVIRONMENT"}
                /\ txn' = BootFail(txn, f[1], f[2])
          /\ UNCHANGED call
       \/ /\ txn.stage = "CAPTURE" /\ captured # 0
          /\ firmware.live
          /\ txn' = [txn EXCEPT !.stage = "LOAD_IMAGE"]
          /\ call' = "read"
    /\ UNCHANGED <<handoff, media, disk, firmware, captured, exits, control>>

\* Mutant of ReadSource: the retry counter starts over at the limit.
ReadSourceForever ==
    /\ call = "read"
    /\ \/ /\ call' = "analyze"
          /\ UNCHANGED txn
       \/ /\ txn' = [txn EXCEPT !.retries = (@ + 1) % (MaxRetries + 1)]
          /\ UNCHANGED call
    /\ UNCHANGED <<handoff, media, disk, firmware, captured, exits, control>>

ReadSource ==
    /\ call = "read"
    /\ \/ /\ call' = "analyze"
          /\ UNCHANGED txn
       \/ /\ txn.retries < MaxRetries
          /\ txn' = [txn EXCEPT !.retries = @ + 1]
          /\ UNCHANGED call
       \/ /\ txn.retries >= MaxRetries
          /\ txn' = BootFail(txn, "LOAD_IMAGE", "SOURCE")
          /\ call' = "none"
    /\ UNCHANGED <<handoff, media, disk, firmware, captured, exits, control>>

\* Deadline, image analysis, component budget, and the protocol plan.
AnalyzeImage(size) ==
    /\ call = "analyze"
    /\ call' = "none"
    /\ \/ /\ \E reason \in {"TIMEOUT", "IMAGE", "BUDGET"} :
                txn' = BootFail(txn, "LOAD_IMAGE", reason)
          /\ UNCHANGED handoff
       \/ \E result \in PreparePlan(txn, captured, size) :
             txn' = result.txn /\ handoff' = result.handoff
    /\ UNCHANGED <<media, disk, firmware, captured, exits, control>>

-----------------------------------------------------------------------------
(* ribon_boot_transaction_commit_attempt                                   *)

CommitAttempt ==
    /\ Idle
    /\ \/ /\ txn.stage # "PREPARE_PROTOCOL"
          /\ txn' = BootFail(txn, "COMMIT_ATTEMPT", "BAD_INPUT")
          /\ UNCHANGED call
       \/ /\ txn.stage = "PREPARE_PROTOCOL"
          /\ txn' = BootFail(txn, "COMMIT_ATTEMPT", "COMMIT")
          /\ UNCHANGED call
       \/ /\ txn.stage = "PREPARE_PROTOCOL" /\ firmware.live
          /\ call' = "write"
          /\ UNCHANGED txn
    /\ UNCHANGED <<handoff, media, disk, firmware, captured, exits, control>>

\* A failed write may leave part of the record behind.
WriteRecord ==
    /\ call = "write"
    /\ \/ /\ media' = txn.id
          /\ call' = "flush"
          /\ UNCHANGED txn
       \/ /\ media' \in {media, 0}
          /\ txn' = BootFail(txn, "COMMIT_ATTEMPT", "COMMIT")
          /\ call' = "none"
    /\ UNCHANGED <<handoff, disk, firmware, captured, exits, control>>

\* Mutant of FlushRecord: the status of the flush is not looked at.
FlushRecordUnchecked ==
    /\ call = "flush"
    /\ call' = "none"
    /\ disk' \in {disk, media}
    /\ txn' = [txn EXCEPT !.stage = "COMMIT_ATTEMPT"]
    /\ UNCHANGED <<handoff, media, firmware, captured, exits, control>>

\* A failed flush, or one past the deadline, fails the transaction whether or
\* not the record reached the disk.
FlushRecord ==
    /\ call = "flush"
    /\ call' = "none"
    /\ \/ /\ disk' = media
          /\ txn' = [txn EXCEPT !.stage = "COMMIT_ATTEMPT"]
       \/ /\ disk' \in {disk, media}
          /\ txn' = BootFail(txn, "COMMIT_ATTEMPT", "COMMIT")
    /\ UNCHANGED <<handoff, media, firmware, captured, exits, control>>

-----------------------------------------------------------------------------
(* ribon_boot_transaction_refresh_after_commit, with the captured          *)
(* environment.                                                            *)

RefreshResults(size) ==
    {[txn |-> BootFail(txn, "COMMIT_ATTEMPT", "BAD_INPUT"), handoff |-> handoff]}
    \cup
    IF txn.stage # "COMMIT_ATTEMPT" \/ txn.request # "DIRECT_ENTRY" \/ captured = 0
    THEN {}
    ELSE {IF r.txn.stage = "FAILED" THEN r
          ELSE [r EXCEPT !.txn.stage = "COMMIT_ATTEMPT"] :
             r \in PreparePlan(txn, captured, size)}

RefreshAfterCommit(size) ==
    /\ Idle
    /\ \E result \in RefreshResults(size) :
          txn' = result.txn /\ handoff' = result.handoff
    /\ UNCHANGED <<call, media, disk, firmware, captured, exits, control>>

-----------------------------------------------------------------------------
(* ribon_boot_transaction_quiesce_environment and transfer.                *)

\* The UEFI provider agrees only when boot services are closed.
QuiesceEnvironment ==
    /\ Idle
    /\ txn' = CASE txn.stage # "COMMIT_ATTEMPT" ->
                     BootFail(txn, "QUIESCE_ENVIRONMENT", "BAD_INPUT")
              [] txn.stage = "COMMIT_ATTEMPT" /\ txn.request # "DIRECT_ENTRY" ->
                     BootFail(txn, "EXECUTE_TERMINAL", "TERMINAL")
              [] txn.stage = "COMMIT_ATTEMPT" /\ txn.request = "DIRECT_ENTRY"
                    /\ firmware.live ->
                     BootFail(txn, "QUIESCE_ENVIRONMENT", "QUIESCE")
              [] OTHER -> [txn EXCEPT !.stage = "QUIESCE_ENVIRONMENT"]
    /\ UNCHANGED <<call, handoff, media, disk, firmware, captured, exits, control>>

\* Control never comes back: the kernel runs, or the processor halts.
Transfer ==
    /\ Idle
    /\ IF txn.stage = "QUIESCE_ENVIRONMENT" /\ txn.request = "DIRECT_ENTRY"
       THEN /\ txn' = [txn EXCEPT !.stage = "TRANSFER"]
            /\ control' = "kernel"
       ELSE /\ control' = "halted"
            /\ UNCHANGED txn
    /\ UNCHANGED <<call, handoff, media, disk, firmware, captured, exits>>

-----------------------------------------------------------------------------
(* ribon_boot_transaction_execute_terminal                                 *)

\* The launcher starts the child, or fails before StartImage.
ExecuteTerminal ==
    /\ Idle
    /\ \/ /\ txn.stage # "COMMIT_ATTEMPT" \/ txn.request # "MANAGED_IMAGE"
          /\ txn' = BootFail(txn, "EXECUTE_TERMINAL", "BAD_INPUT")
          /\ UNCHANGED control
       \/ /\ txn.stage = "COMMIT_ATTEMPT" /\ txn.request = "MANAGED_IMAGE"
          /\ txn' = BootFail(txn, "EXECUTE_TERMINAL", "TERMINAL")
          /\ UNCHANGED control
       \/ /\ txn.stage = "COMMIT_ATTEMPT" /\ txn.request = "MANAGED_IMAGE"
          /\ firmware.live
          /\ txn' = [txn EXCEPT !.stage = "EXECUTE_TERMINAL"]
          /\ control' = "child"
    /\ UNCHANGED <<call, handoff, media, disk, firmware, captured, exits>>

\* Mutant of ChildReturns: a returned launch may be tried again.
ChildReturnsToCommit ==
    /\ control = "child"
    /\ control' = "ribon"
    /\ txn' = [txn EXCEPT !.stage = "COMMIT_ATTEMPT"]
    /\ UNCHANGED <<call, handoff, media, disk, firmware, captured, exits>>

\* StartImage returns; there is no successful return.
ChildReturns ==
    /\ control = "child"
    /\ control' = "ribon"
    /\ txn' = BootFail(txn, "EXECUTE_TERMINAL", "TERMINAL")
    /\ UNCHANGED <<call, handoff, media, disk, firmware, captured, exits>>

-----------------------------------------------------------------------------
(* ribon_uefi_app_capture_environment and the loop of                      *)
(* ribon_uefi_app_exit_boot_services.                                      *)

CaptureEnvironment ==
    /\ Idle
    /\ firmware.live
    /\ captured' = firmware.map
    /\ UNCHANGED <<txn, call, handoff, media, disk, firmware, exits, control>>

EnterExit ==
    /\ Idle
    /\ firmware.live
    /\ exits' = 0
    /\ call' = "capture"
    /\ UNCHANGED <<txn, handoff, media, disk, firmware, captured, control>>

\* Mutant of ExitCapture: the loop only takes the new key, not the new map.
ExitCaptureSkipsRefresh ==
    /\ call = "capture"
    /\ captured' = firmware.map
    /\ call' = IF exits = 0 THEN "refresh" ELSE "exit"
    /\ UNCHANGED <<txn, handoff, media, disk, firmware, exits, control>>

ExitCapture ==
    /\ call = "capture"
    /\ \/ captured' = firmware.map /\ call' = "refresh"
       \/ captured' \in {captured, firmware.map} /\ call' = "none"
    /\ UNCHANGED <<txn, handoff, media, disk, firmware, exits, control>>

ExitRefresh(size) ==
    /\ call = "refresh"
    /\ \E result \in RefreshResults(size) :
          /\ txn' = result.txn /\ handoff' = result.handoff
          /\ call' = IF result.txn.stage = "FAILED" THEN "none" ELSE "exit"
    /\ UNCHANGED <<media, disk, firmware, captured, exits, control>>

\* The firmware accepts the key of its current map only, and may refuse that too.
ExitBootServices ==
    /\ call = "exit"
    /\ \/ /\ captured = firmware.map
          /\ firmware' = [firmware EXCEPT !.live = FALSE]
          /\ call' = "none"
          /\ UNCHANGED exits
       \/ /\ exits' = exits + 1
          /\ call' = IF exits' < ExitAttempts THEN "capture" ELSE "none"
          /\ UNCHANGED firmware
       \/ /\ call' = "none"      \* any other firmware error
          /\ UNCHANGED <<firmware, exits>>
    /\ UNCHANGED <<txn, handoff, media, disk, captured, control>>

-----------------------------------------------------------------------------
(* The firmware, and power.                                                *)

\* An event handler allocates or frees memory.
ChangeMap ==
    /\ control # "halted"
    /\ firmware.live /\ firmware.map < MaxMap
    /\ firmware' = [firmware EXCEPT !.map = @ + 1]
    /\ UNCHANGED <<txn, call, handoff, media, disk, captured, exits, control>>

\* A record not yet flushed may or may not survive, nor need it be complete
\* when power is lost within the write.
PowerCut ==
    /\ disk' \in {disk, media} \cup (IF call = "write" THEN {0, txn.id} ELSE {})
    /\ media' = disk'
    /\ txn' = Zeroed(txn.id)
    /\ call' = "none"
    /\ handoff' = 0 /\ captured' = 0 /\ exits' = 0
    /\ firmware' = [live |-> TRUE, map |-> 1]
    /\ control' = "ribon"

ApiCall ==
    \/ \E kind \in Kinds : Initialize(kind)
    \/ Prepare \/ CommitAttempt
    \/ \E size \in ArtifactSizes : RefreshAfterCommit(size)
    \/ QuiesceEnvironment \/ Transfer \/ ExecuteTerminal
    \/ CaptureEnvironment \/ EnterExit

\* The call in progress goes on.
CallStep ==
    \/ ReadSource \/ WriteRecord \/ FlushRecord \/ ExitCapture \/ ExitBootServices
    \/ \E size \in ArtifactSizes : AnalyzeImage(size) \/ ExitRefresh(size)

Next == ApiCall \/ CallStep \/ ChildReturns \/ ChangeMap \/ PowerCut

Spec == Init /\ [][Next]_vars

\* Once entered, a call goes on: nothing else runs on the processor.
FairSpec == Spec /\ WF_vars(CallStep)

-----------------------------------------------------------------------------

Transactions ==
    [id : 0 .. MaxTransactions, stage : Stages, protocol : Kinds \cup {"NONE"},
     request : Kinds \cup {"NONE"}, retries : 0 .. MaxRetries, output : Nat,
     receipt : [stage : FailureStages, reason : FailureReasons]]

\* Every variable keeps the type of the C field or of the abstraction.
TypeOK ==
    /\ txn \in Transactions
    /\ call \in {"none", "read", "analyze", "write", "flush", "capture", "refresh", "exit"}
    /\ handoff \in 0 .. MaxMap
    /\ media \in 0 .. MaxTransactions /\ disk \in 0 .. MaxTransactions
    /\ firmware \in [live : BOOLEAN, map : 1 .. MaxMap]
    /\ captured \in 0 .. MaxMap
    /\ exits \in 0 .. ExitAttempts
    /\ control \in {"ribon", "kernel", "child", "halted"}

\* The kernel or the managed child runs only after the attempt record of its
\* own transaction is durable: whatever the caller's order of calls and
\* whichever write or flush failed before, a power cut during the attempt
\* leaves its record (commit_attempt before transfer and execute_terminal).
AttemptPrecedesControl ==
    control \in {"kernel", "child"} => disk = txn.id

\* The kernel is entered with boot services closed and with a handoff built
\* from the very map whose key ExitBootServices accepted, although the map
\* may have changed between every two steps of the exit loop.
FinalMapHandedOver ==
    control = "kernel" => ~firmware.live /\ handoff = firmware.map

\* All artifacts a transaction ever built, refreshes included, stay within
\* max_handoff_bytes (the subtraction in boot_prepare_protocol_plan does not
\* wrap and no refresh escapes the accounting).
OutputWithinBudget == txn.output <= MaxHandoff

Rank == [s \in Stages |->
    CASE s = "ZEROED" -> 0 [] s = "CAPTURE" -> 1 [] s = "LOAD_IMAGE" -> 2
      [] s = "PREPARE_PROTOCOL" -> 3 [] s = "COMMIT_ATTEMPT" -> 4
      [] s \in {"QUIESCE_ENVIRONMENT", "EXECUTE_TERMINAL"} -> 5
      [] s = "TRANSFER" -> 6 [] s = "FAILED" -> 7]

\* Within one boot a transaction's stage never moves back, so no transaction
\* reads its source, commits, or launches its child a second time, and a
\* failed one stays failed.
StageAdvances ==
    [][txn'.id = txn.id /\ txn'.stage # "ZEROED"
          => Rank[txn.stage] <= Rank[txn'.stage]]_vars

\* Every call comes back to its caller: the retries of the source and of
\* ExitBootServices are bounded even if each of them fails.
CallReturns == call # "none" ~> call = "none"

=============================================================================
