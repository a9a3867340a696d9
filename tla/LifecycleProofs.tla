--------------------------- MODULE LifecycleProofs ---------------------------
(***************************************************************************)
(* Proofs about the two lifecycles of one boot: the stages of the boot     *)
(* transaction, and the phases of the policy request that commits it.  The *)
(* two state machines have no variable in common.                          *)
(*                                                                         *)
(* BootTransaction, for every retry limit, budget, number of exit          *)
(* attempts, map version and transaction: IInv adds to the invariants of   *)
(* the runs what links the stage of the transaction, the call in progress, *)
(* the attempt record and the memory map.                                  *)
(*                                                                         *)
(* PolicyExecution, for every number of sequences and attempts: the        *)
(* properties speak of a request that is over; the inductive invariant     *)
(* says how far each phase of a request has got: which attempt is paid and *)
(* not yet run (Paid), what was done to the transaction (Progress), and    *)
(* whether recovery has been notified (Quiet).                             *)
(***************************************************************************)
EXTENDS BootTransaction, PolicyExecution, TLAPS

\* The stage a call in progress, and the one who runs, rely on.
CallInv ==
    /\ call # "none" => control = "ribon" /\ firmware.live
    /\ call \in {"read", "analyze"} => txn.stage = "LOAD_IMAGE"
    /\ call \in {"write", "flush"} => txn.stage = "PREPARE_PROTOCOL"
    /\ control = "kernel" => txn.stage = "TRANSFER"
    /\ control = "child" => txn.stage = "EXECUTE_TERMINAL"
    /\ txn.request \in {"NONE", txn.protocol}

\* From COMMIT_ATTEMPT on, the record of this transaction is on disk.
RecordInv ==
    /\ call = "flush" => media = txn.id
    /\ txn.stage \in {"COMMIT_ATTEMPT", "QUIESCE_ENVIRONMENT", "EXECUTE_TERMINAL",
                      "TRANSFER"} => disk = txn.id

\* The handoff describes the captured map when its key is offered, and the
\* final map from the moment boot services are closed.
MapInv ==
    /\ call = "exit" =>
          /\ txn.stage = "COMMIT_ATTEMPT" /\ txn.request = "DIRECT_ENTRY"
          /\ handoff = captured
    /\ txn.stage = "COMMIT_ATTEMPT" /\ txn.request = "DIRECT_ENTRY" /\ ~firmware.live
          => handoff = firmware.map
    /\ txn.stage \in {"QUIESCE_ENVIRONMENT", "TRANSFER"}
          => ~firmware.live /\ handoff = firmware.map

\* The exit loop has an attempt left while it runs.
LoopInv == call \in {"capture", "refresh", "exit"} => exits < ExitAttempts

IInv == TypeOK /\ OutputWithinBudget /\ CallInv /\ RecordInv /\ MapInv /\ LoopInv

-----------------------------------------------------------------------------
(* What the two operators that build a plan may return.                    *)

\* boot_fail changes the stage and the receipt only.
LEMMA BootFailFacts ==
    ASSUME NEW t \in Transactions, NEW s \in FailureStages, NEW r \in FailureReasons
    PROVE  /\ BootFail(t, s, r) \in Transactions
           /\ BootFail(t, s, r).stage = "FAILED"
           /\ BootFail(t, s, r).id = t.id
           /\ BootFail(t, s, r).protocol = t.protocol
           /\ BootFail(t, s, r).request = t.request
           /\ BootFail(t, s, r).retries = t.retries
           /\ BootFail(t, s, r).output = t.output
BY ZenonT(60) DEF BootFail, Transactions, Stages

\* A result of the plan builder for transaction t and environment map.
PlanResult(r, t, map) ==
    /\ r \in [txn : Transactions, handoff : 0 .. MaxMap]
    /\ r.txn.id = t.id /\ r.txn.protocol = t.protocol
    /\ r.txn.request \in {"NONE", t.protocol}
    /\ r.txn.output <= MaxHandoff
    /\ \/ r.txn.stage = "FAILED"
       \/ /\ r.txn.stage = "PREPARE_PROTOCOL" /\ firmware.live
          /\ r.txn.request = t.protocol
          /\ t.protocol = "DIRECT_ENTRY" => r.handoff = map

\* A failure is a PlanResult, whatever the handoff buffer holds.
LEMMA FailedPlanFacts ==
    ASSUME NEW t, NEW u \in Transactions, u.id = t.id, u.protocol = t.protocol,
           u.request \in {"NONE", t.protocol}, u.output <= MaxHandoff,
           NEW map, NEW h \in 0 .. MaxMap, NEW reason \in FailureReasons
    PROVE  PlanResult([txn |-> BootFail(u, "PREPARE_PROTOCOL", reason), handoff |-> h],
                      t, map)
<1> DEFINE f == BootFail(u, "PREPARE_PROTOCOL", reason)
<1>1. /\ f \in Transactions /\ f.stage = "FAILED" /\ f.id = u.id
      /\ f.protocol = u.protocol /\ f.request = u.request /\ f.output = u.output
  BY BootFailFacts, ZenonT(30) DEF FailureStages
<1> HIDE DEF f
<1>2. PlanResult([txn |-> f, handoff |-> h], t, map)
  BY <1>1, ZenonT(30) DEF PlanResult
<1> QED BY <1>2, ZenonT(30) DEF f

\* The common end of the builder keeps to PlanResult.
LEMMA SealPlanFacts ==
    ASSUME LimitAssumption,
           NEW t \in Transactions, t.request \in {"NONE", t.protocol},
           t.output <= MaxHandoff, firmware.live,
           NEW map, NEW size \in Nat, t.output + size <= MaxHandoff,
           NEW built \in 0 .. MaxMap, t.protocol = "DIRECT_ENTRY" => built = map,
           NEW r \in SealPlan(t, size, built)
    PROVE  PlanResult(r, t, map)
<1> DEFINE cleared == [t EXCEPT !.request = "NONE"]
           sealed == [t EXCEPT !.stage = "PREPARE_PROTOCOL", !.request = t.protocol,
                               !.output = t.output + size]
<1>1. /\ cleared \in Transactions /\ cleared.id = t.id
      /\ cleared.protocol = t.protocol /\ cleared.request = "NONE"
      /\ cleared.output = t.output
  BY ZenonT(30) DEF Transactions
<1>2. /\ sealed \in Transactions /\ sealed.id = t.id
      /\ sealed.protocol = t.protocol /\ sealed.request = t.protocol
      /\ sealed.stage = "PREPARE_PROTOCOL" /\ sealed.output = t.output + size
  <2>1. t.output + size \in Nat /\ t.protocol \in Kinds \cup {"NONE"}
    BY DEF Transactions
  <2> QED BY <2>1, ZenonT(60) DEF Transactions, Stages
<1>3. CASE r = [txn |-> BootFail(t, "PREPARE_PROTOCOL", "TIMEOUT"), handoff |-> built]
  <2>1. "TIMEOUT" \in FailureReasons
    BY ZenonT(30) DEF FailureReasons
  <2> QED BY <1>3, <2>1, FailedPlanFacts, ZenonT(30)
<1>4. CASE r = [txn |-> BootFail(cleared, "PREPARE_PROTOCOL", "PROTOCOL"),
                handoff |-> built]
  <2> HIDE DEF cleared
  <2>1. "PROTOCOL" \in FailureReasons
    BY ZenonT(30) DEF FailureReasons
  <2>2. cleared.request \in {"NONE", t.protocol} /\ cleared.output <= MaxHandoff
    BY <1>1, ZenonT(30)
  <2> QED BY <1>1, <1>4, <2>1, <2>2, FailedPlanFacts, ZenonT(30)
<1>5. CASE r = [txn |-> sealed, handoff |-> built]
  <2> HIDE DEF sealed
  <2> QED BY <1>2, <1>5, ZenonT(30) DEF PlanResult
<1> QED BY <1>3, <1>4, <1>5, ZenonT(30) DEF SealPlan

\* Every result of boot_prepare_protocol_plan: it fails, or boot services are
\* live, the budget holds and a direct entry's handoff describes the map.
LEMMA PreparePlanFacts ==
    ASSUME LimitAssumption,
           NEW t \in Transactions, t.request \in {"NONE", t.protocol},
           t.output <= MaxHandoff, firmware.live \in BOOLEAN,
           handoff \in 0 .. MaxMap,
           NEW map \in 0 .. MaxMap, NEW size \in ArtifactSizes,
           NEW r \in PreparePlan(t, map, size)
    PROVE  PlanResult(r, t, map)
<1>1. size \in Nat /\ 0 \in 0 .. MaxMap /\ t.output \in Nat /\ MaxHandoff \in Nat
  BY DEF LimitAssumption, Transactions
<1>2. ASSUME NEW reason \in FailureReasons, NEW h \in 0 .. MaxMap,
             r = [txn |-> BootFail(t, "PREPARE_PROTOCOL", reason), handoff |-> h]
      PROVE  PlanResult(r, t, map)
  BY <1>2, FailedPlanFacts, ZenonT(30)
<1>3. CASE firmware.live /\ t.protocol = "MANAGED_IMAGE" /\ r \in SealPlan(t, 0, handoff)
  BY <1>1, <1>3, SealPlanFacts
<1>4. CASE firmware.live /\ ~OverBudget(t, size) /\ r \in SealPlan(t, size, map)
  <2>1. t.output + size <= MaxHandoff
    BY <1>1, <1>4 DEF OverBudget
  <2> QED BY <1>1, <1>4, <2>1, SealPlanFacts, ZenonT(30)
<1>5. \/ \E reason \in {"TIMEOUT", "PROTOCOL", "BUDGET"}, h \in {handoff, 0, map} :
           r = [txn |-> BootFail(t, "PREPARE_PROTOCOL", reason), handoff |-> h]
      \/ firmware.live /\ t.protocol = "MANAGED_IMAGE" /\ r \in SealPlan(t, 0, handoff)
      \/ firmware.live /\ ~OverBudget(t, size) /\ r \in SealPlan(t, size, map)
  BY Zenon DEF PreparePlan
<1>6. CASE \E reason \in {"TIMEOUT", "PROTOCOL", "BUDGET"}, h \in {handoff, 0, map} :
              r = [txn |-> BootFail(t, "PREPARE_PROTOCOL", reason), handoff |-> h]
  <2>1. PICK reason \in {"TIMEOUT", "PROTOCOL", "BUDGET"}, h \in {handoff, 0, map} :
           r = [txn |-> BootFail(t, "PREPARE_PROTOCOL", reason), handoff |-> h]
    BY <1>6, ZenonT(30)
  <2>2. reason \in FailureReasons /\ h \in 0 .. MaxMap
    BY <1>1, ZenonT(30) DEF FailureReasons
  <2> QED BY <1>2, <2>1, <2>2, ZenonT(30)
<1> QED BY <1>3, <1>4, <1>5, <1>6, ZenonT(30)

-----------------------------------------------------------------------------
(* Every way of failing leaves the invariant.                              *)

\* What the other variables must satisfy for their types.
RestTypeOK ==
    /\ call \in {"none", "read", "analyze", "write", "flush", "capture", "refresh", "exit"}
    /\ handoff \in 0 .. MaxMap
    /\ media \in 0 .. MaxTransactions /\ disk \in 0 .. MaxTransactions
    /\ firmware \in [live : BOOLEAN, map : 1 .. MaxMap]
    /\ captured \in 0 .. MaxMap
    /\ exits \in 0 .. ExitAttempts
    /\ control \in {"ribon", "kernel", "child", "halted"}

\* A step that fails the transaction and returns to the caller keeps IInv.
LEMMA FailStep ==
    ASSUME IInv, NEW s \in FailureStages, NEW r \in FailureReasons,
           txn' = BootFail(txn, s, r), RestTypeOK', call' = "none", control' = "ribon"
    PROVE  IInv'
<1>1. /\ txn \in Transactions /\ txn.output <= MaxHandoff
      /\ txn.request \in {"NONE", txn.protocol}
  BY ZenonT(30) DEF IInv, TypeOK, OutputWithinBudget, CallInv
<1> DEFINE f == BootFail(txn, s, r)
<1>2. /\ f \in Transactions /\ f.stage = "FAILED" /\ f.output = txn.output
      /\ f.request = txn.request /\ f.protocol = txn.protocol
  BY <1>1, BootFailFacts, ZenonT(30)
<1> HIDE DEF f
<1>3. txn' = f
  BY ZenonT(30) DEF f
<1>4. /\ txn' \in Transactions /\ txn'.stage = "FAILED" /\ txn'.output <= MaxHandoff
      /\ txn'.request \in {"NONE", txn'.protocol}
  BY <1>1, <1>2, <1>3, ZenonT(30)
<1> QED
  BY <1>4, ZenonT(30) DEF IInv, TypeOK, RestTypeOK, OutputWithinBudget, CallInv, RecordInv,
              MapInv, LoopInv

-----------------------------------------------------------------------------
(* Initial state and steps.                                                *)

\* Before the first call nothing is prepared or recorded.
LEMMA InitIInv == Init => IInv
BY LimitAssumption
   DEF Init, Zeroed, NoReceipt, LimitAssumption, IInv, TypeOK, Transactions, Stages,
       FailureStages, FailureReasons, OutputWithinBudget, CallInv, RecordInv,
       MapInv, LoopInv

\* A zeroed transaction is well formed and has consumed nothing.
LEMMA ZeroedFacts ==
    ASSUME NEW id \in 0 .. MaxTransactions
    PROVE  /\ Zeroed(id) \in Transactions /\ Zeroed(id).id = id
           /\ Zeroed(id).stage = "ZEROED" /\ Zeroed(id).protocol = "NONE"
           /\ Zeroed(id).request = "NONE" /\ Zeroed(id).output = 0
<1>1. NoReceipt \in [stage : FailureStages, reason : FailureReasons]
  BY ZenonT(30) DEF NoReceipt, FailureStages, FailureReasons
<1> QED BY <1>1, LimitAssumption DEF Zeroed, Transactions, Stages, LimitAssumption

\* Initialize starts a transaction that has promised nothing yet.
LEMMA InitializeStep ==
    ASSUME IInv, NEW kind \in Kinds, Initialize(kind)
    PROVE  IInv'
<1>1. txn.id + 1 \in 0 .. MaxTransactions
  BY LimitAssumption DEF IInv, TypeOK, Transactions, Initialize, LimitAssumption
<1> DEFINE z == Zeroed(txn.id + 1)
<1>2. z \in Transactions /\ z.stage = "ZEROED" /\ z.request = "NONE" /\ z.output = 0
  BY <1>1, ZeroedFacts, ZenonT(30)
<1>3. txn' = z \/ txn' = [z EXCEPT !.stage = "CAPTURE", !.protocol = kind]
  BY ZenonT(30) DEF Initialize
<1> HIDE DEF z
<1>4. /\ txn' \in Transactions /\ txn'.stage \in {"CAPTURE", "ZEROED"}
      /\ txn'.output = 0 /\ txn'.request = "NONE"
  BY <1>2, <1>3, ZenonT(60) DEF Transactions, Stages
<1> QED
  BY <1>4, LimitAssumption
  DEF IInv, TypeOK, OutputWithinBudget, CallInv, RecordInv,
      MapInv, LoopInv, Initialize, Idle,
      LimitAssumption

\* prepare starts a transaction without an attempt or an artifact.
LEMMA PrepareStep ==
    ASSUME IInv, Prepare
    PROVE  IInv'
<1>1. RestTypeOK' /\ control' = "ribon"
  BY ZenonT(30) DEF IInv, TypeOK, Prepare, Idle, RestTypeOK
<1>2. CASE txn' = BootFail(txn, "CAPTURE", "BAD_INPUT") /\ UNCHANGED call
  BY <1>1, <1>2, FailStep, ZenonT(30) DEF Prepare, Idle, FailureStages, FailureReasons
<1>3. CASE /\ \E f \in PrepareFailures : txn' = BootFail(txn, f[1], f[2])
           /\ UNCHANGED call
  BY <1>1, <1>3, FailStep
  DEF Prepare, Idle, PrepareFailures, FailureStages, FailureReasons
<1>4. CASE /\ firmware.live /\ call' = "read"
           /\ txn' = [txn EXCEPT !.stage = "LOAD_IMAGE"]
  <2>1. /\ txn' \in Transactions /\ txn'.stage = "LOAD_IMAGE"
        /\ txn'.output = txn.output /\ txn'.request = txn.request
        /\ txn'.protocol = txn.protocol
    BY <1>4, ZenonT(30) DEF IInv, TypeOK, Transactions, Stages
  <2> QED
    BY <1>1, <1>4, <2>1, ZenonT(30)
    DEF IInv, TypeOK, RestTypeOK, OutputWithinBudget, CallInv, RecordInv,
        MapInv, LoopInv,
        Prepare, Idle
<1> QED BY <1>2, <1>3, <1>4, ZenonT(30) DEF Prepare

\* A read of the source counts against its retries only.
LEMMA ReadSourceStep ==
    ASSUME IInv, ReadSource
    PROVE  IInv'
<1>1. /\ call' \in {"read", "analyze", "none"} => RestTypeOK'
      /\ control' = "ribon" /\ txn.stage = "LOAD_IMAGE"
  BY ZenonT(30) DEF IInv, TypeOK, CallInv, ReadSource, RestTypeOK
<1>2. CASE call' = "analyze" /\ UNCHANGED txn
  BY <1>1, <1>2, ZenonT(30)
  DEF IInv, TypeOK, RestTypeOK, OutputWithinBudget, CallInv, RecordInv,
      MapInv, LoopInv, ReadSource
<1>3. CASE /\ txn.retries < MaxRetries /\ UNCHANGED call
           /\ txn' = [txn EXCEPT !.retries = @ + 1]
  <2>1. txn.retries + 1 \in 0 .. MaxRetries
    BY <1>3, LimitAssumption DEF IInv, TypeOK, Transactions, LimitAssumption
  <2>2. /\ txn' \in Transactions /\ txn'.stage = txn.stage
        /\ txn'.output = txn.output /\ txn'.request = txn.request
        /\ txn'.protocol = txn.protocol
    BY <1>3, <2>1, ZenonT(30) DEF IInv, TypeOK, Transactions
  <2> QED
    BY <1>1, <1>3, <2>2, ZenonT(30)
    DEF IInv, TypeOK, RestTypeOK, OutputWithinBudget, CallInv, RecordInv,
        MapInv, LoopInv, ReadSource
<1>4. CASE txn' = BootFail(txn, "LOAD_IMAGE", "SOURCE") /\ call' = "none"
  BY <1>1, <1>4, FailStep, ZenonT(30) DEF FailureStages, FailureReasons
<1> QED BY <1>2, <1>3, <1>4, ZenonT(30) DEF ReadSource

\* The first artifact of a transaction is charged to the budget.
LEMMA AnalyzeImageStep ==
    ASSUME IInv, NEW size \in ArtifactSizes, AnalyzeImage(size)
    PROVE  IInv'
<1>1. CASE /\ \E reason \in {"TIMEOUT", "IMAGE", "BUDGET"} :
                 txn' = BootFail(txn, "LOAD_IMAGE", reason)
           /\ UNCHANGED handoff
  <2>1. RestTypeOK' /\ call' = "none" /\ control' = "ribon"
    BY <1>1, ZenonT(30) DEF IInv, TypeOK, CallInv, AnalyzeImage, RestTypeOK
  <2> QED BY <1>1, <2>1, FailStep, ZenonT(30) DEF FailureStages, FailureReasons
<1>2. CASE \E result \in PreparePlan(txn, captured, size) :
              txn' = result.txn /\ handoff' = result.handoff
  <2>1. PICK result \in PreparePlan(txn, captured, size) :
           txn' = result.txn /\ handoff' = result.handoff
    BY <1>2, ZenonT(30)
  <2>2. PlanResult(result, txn, captured)
    BY LimitAssumption, PreparePlanFacts, ZenonT(30)
    DEF IInv, TypeOK, OutputWithinBudget, CallInv
  <2>3. /\ txn' \in Transactions /\ handoff' \in 0 .. MaxMap
        /\ txn'.stage \in {"FAILED", "PREPARE_PROTOCOL"}
        /\ txn'.request \in {"NONE", txn'.protocol} /\ txn'.output <= MaxHandoff
    BY <2>1, <2>2, ZenonT(30) DEF PlanResult
  <2> QED
    BY <2>3, ZenonT(30)
    DEF IInv, TypeOK, OutputWithinBudget, CallInv, RecordInv,
        MapInv, LoopInv, AnalyzeImage
<1> QED BY <1>1, <1>2, ZenonT(30) DEF AnalyzeImage

\* commit_attempt only starts to write the record.
LEMMA CommitAttemptStep ==
    ASSUME IInv, CommitAttempt
    PROVE  IInv'
<1>1. CASE /\ \E reason \in {"BAD_INPUT", "COMMIT"} :
                 txn' = BootFail(txn, "COMMIT_ATTEMPT", reason)
           /\ UNCHANGED call
  <2>1. RestTypeOK' /\ call' = "none" /\ control' = "ribon"
    BY <1>1, ZenonT(30) DEF IInv, TypeOK, CommitAttempt, Idle, RestTypeOK
  <2> QED BY <1>1, <2>1, FailStep, ZenonT(30) DEF FailureStages, FailureReasons
<1>2. CASE /\ txn.stage = "PREPARE_PROTOCOL" /\ firmware.live
           /\ call' = "write" /\ UNCHANGED txn
  BY <1>2, ZenonT(30)
  DEF IInv, TypeOK, OutputWithinBudget, CallInv, RecordInv,
      MapInv, LoopInv, CommitAttempt, Idle
<1> QED BY <1>1, <1>2, ZenonT(30) DEF CommitAttempt

\* The record is written for the transaction in progress.
LEMMA WriteRecordStep ==
    ASSUME IInv, WriteRecord
    PROVE  IInv'
<1>1. CASE media' = txn.id /\ call' = "flush" /\ UNCHANGED txn
  <2>1. txn.id \in 0 .. MaxTransactions
    BY ZenonT(30) DEF IInv, TypeOK, Transactions
  <2> QED
    BY <1>1, <2>1, ZenonT(30)
    DEF IInv, TypeOK, OutputWithinBudget, CallInv, RecordInv,
        MapInv, LoopInv, WriteRecord
<1>2. CASE /\ media' \in {media, 0} /\ call' = "none"
           /\ txn' = BootFail(txn, "COMMIT_ATTEMPT", "COMMIT")
  <2>1. RestTypeOK' /\ control' = "ribon"
    BY <1>2, LimitAssumption
    DEF IInv, TypeOK, CallInv, WriteRecord, RestTypeOK, LimitAssumption
  <2> QED BY <1>2, <2>1, FailStep, ZenonT(30) DEF FailureStages, FailureReasons
<1> QED BY <1>1, <1>2, ZenonT(30) DEF WriteRecord

\* The stage moves past the commit only with the record flushed.
LEMMA FlushRecordStep ==
    ASSUME IInv, FlushRecord
    PROVE  IInv'
<1>1. RestTypeOK' /\ call' = "none" /\ control' = "ribon"
  BY ZenonT(30) DEF IInv, TypeOK, CallInv, FlushRecord, RestTypeOK
<1>2. CASE disk' = media /\ txn' = [txn EXCEPT !.stage = "COMMIT_ATTEMPT"]
  <2>1. /\ txn' \in Transactions /\ txn'.stage = "COMMIT_ATTEMPT" /\ txn'.id = txn.id
        /\ txn'.output = txn.output /\ txn'.request = txn.request
        /\ txn'.protocol = txn.protocol
    BY <1>2, ZenonT(30) DEF IInv, TypeOK, Transactions, Stages
  <2>2. disk' = txn'.id /\ firmware' = firmware /\ firmware.live
    BY <1>2, <2>1, ZenonT(30) DEF IInv, RecordInv, CallInv, FlushRecord
  <2> QED
    BY <1>1, <2>1, <2>2, ZenonT(30)
    DEF IInv, TypeOK, RestTypeOK, OutputWithinBudget, CallInv, RecordInv,
        MapInv, LoopInv
<1>3. CASE txn' = BootFail(txn, "COMMIT_ATTEMPT", "COMMIT")
  BY <1>1, <1>3, FailStep, ZenonT(30) DEF FailureStages, FailureReasons
<1> QED BY <1>2, <1>3, ZenonT(30) DEF FlushRecord

\* A refresh fails, or leaves a committed transaction with live boot services
\* and a handoff of the captured map.
LEMMA RefreshFacts ==
    ASSUME IInv, NEW size \in ArtifactSizes, NEW r \in RefreshResults(size)
    PROVE  /\ r.txn \in Transactions /\ r.handoff \in 0 .. MaxMap
           /\ r.txn.id = txn.id /\ r.txn.output <= MaxHandoff
           /\ r.txn.request \in {"NONE", r.txn.protocol}
           /\ \/ r.txn.stage = "FAILED"
              \/ /\ txn.stage = "COMMIT_ATTEMPT" /\ r.txn.stage = "COMMIT_ATTEMPT"
                 /\ firmware.live /\ r.handoff = captured
                 /\ r.txn.request = "DIRECT_ENTRY"
<1>1. /\ txn \in Transactions /\ handoff \in 0 .. MaxMap /\ captured \in 0 .. MaxMap
      /\ firmware.live \in BOOLEAN /\ txn.output <= MaxHandoff
      /\ txn.request \in {"NONE", txn.protocol}
  BY ZenonT(30) DEF IInv, TypeOK, OutputWithinBudget, CallInv
<1>2. CASE r = [txn |-> BootFail(txn, "COMMIT_ATTEMPT", "BAD_INPUT"), handoff |-> handoff]
  <2> DEFINE f == BootFail(txn, "COMMIT_ATTEMPT", "BAD_INPUT")
  <2>1. /\ f \in Transactions /\ f.stage = "FAILED" /\ f.id = txn.id
        /\ f.output = txn.output /\ f.request = txn.request /\ f.protocol = txn.protocol
    BY <1>1, BootFailFacts, ZenonT(30) DEF FailureStages, FailureReasons
  <2> HIDE DEF f
  <2>2. r = [txn |-> f, handoff |-> handoff]
    BY <1>2, ZenonT(30) DEF f
  <2> QED BY <1>1, <2>1, <2>2, ZenonT(30)
<1>3. CASE /\ txn.stage = "COMMIT_ATTEMPT" /\ txn.request = "DIRECT_ENTRY"
           /\ \E p \in PreparePlan(txn, captured, size) :
                 r = IF p.txn.stage = "FAILED" THEN p
                     ELSE [p EXCEPT !.txn.stage = "COMMIT_ATTEMPT"]
  <2>1. PICK p \in PreparePlan(txn, captured, size) :
           r = IF p.txn.stage = "FAILED" THEN p
               ELSE [p EXCEPT !.txn.stage = "COMMIT_ATTEMPT"]
    BY <1>3, ZenonT(60)
  <2>2. PlanResult(p, txn, captured)
    BY <1>1, LimitAssumption, PreparePlanFacts, ZenonT(30)
  <2>3. txn.protocol = "DIRECT_ENTRY"
    BY <1>1, <1>3, ZenonT(30)
  <2>4. CASE p.txn.stage = "FAILED"
    BY <2>1, <2>2, <2>4, ZenonT(30) DEF PlanResult
  <2>5. CASE p.txn.stage # "FAILED"
    <3> DEFINE t == [p.txn EXCEPT !.stage = "COMMIT_ATTEMPT"]
    <3>1. /\ p \in [txn : Transactions, handoff : 0 .. MaxMap]
          /\ p.txn.id = txn.id /\ p.txn.output <= MaxHandoff
          /\ p.txn.request = "DIRECT_ENTRY" /\ p.txn.protocol = "DIRECT_ENTRY"
          /\ firmware.live /\ p.handoff = captured
      BY <2>2, <2>3, <2>5, ZenonT(30) DEF PlanResult
    <3>2. /\ t \in Transactions /\ t.stage = "COMMIT_ATTEMPT" /\ t.id = p.txn.id
          /\ t.output = p.txn.output /\ t.request = p.txn.request
          /\ t.protocol = p.txn.protocol
      BY <3>1, ZenonT(30) DEF Transactions, Stages
    <3>3. r.txn = t /\ r.handoff = p.handoff
      BY <2>1, <2>5, <3>1, ZenonT(30)
    <3> HIDE DEF t
    <3> QED BY <1>3, <3>1, <3>2, <3>3, ZenonT(60)
  <2> QED BY <2>4, <2>5, ZenonT(30)
<1> QED BY <1>2, <1>3, ZenonT(30) DEF RefreshResults

\* A refresh after the commit is charged to the budget and keeps the record.
LEMMA RefreshAfterCommitStep ==
    ASSUME IInv, NEW size \in ArtifactSizes, RefreshAfterCommit(size)
    PROVE  IInv'
<1>1. PICK r \in RefreshResults(size) : txn' = r.txn /\ handoff' = r.handoff
  BY ZenonT(30) DEF RefreshAfterCommit
<1> QED
  BY <1>1, RefreshFacts, ZenonT(30)
  DEF IInv, TypeOK, OutputWithinBudget, CallInv, RecordInv,
      MapInv, LoopInv, RefreshAfterCommit, Idle

\* A refresh in the exit loop hands over the map just captured.
LEMMA ExitRefreshStep ==
    ASSUME IInv, NEW size \in ArtifactSizes, ExitRefresh(size)
    PROVE  IInv'
<1>1. PICK r \in RefreshResults(size) :
         /\ txn' = r.txn /\ handoff' = r.handoff
         /\ call' = IF r.txn.stage = "FAILED" THEN "none" ELSE "exit"
  BY ZenonT(30) DEF ExitRefresh
<1> QED
  BY <1>1, RefreshFacts
  DEF IInv, TypeOK, OutputWithinBudget, CallInv, RecordInv, MapInv, LoopInv, ExitRefresh

\* quiesce advances a committed direct entry only, with boot services closed.
LEMMA QuiesceEnvironmentStep ==
    ASSUME IInv, QuiesceEnvironment
    PROVE  IInv'
<1>1. RestTypeOK' /\ call' = "none" /\ control' = "ribon"
  BY ZenonT(30) DEF IInv, TypeOK, QuiesceEnvironment, Idle, RestTypeOK
<1>2. CASE \E s \in FailureStages, r \in FailureReasons : txn' = BootFail(txn, s, r)
  BY <1>1, <1>2, FailStep, ZenonT(30)
<1>3. CASE /\ txn.stage = "COMMIT_ATTEMPT" /\ txn.request = "DIRECT_ENTRY"
           /\ ~firmware.live
           /\ txn' = [txn EXCEPT !.stage = "QUIESCE_ENVIRONMENT"]
  <2>1. /\ txn' \in Transactions /\ txn'.stage = "QUIESCE_ENVIRONMENT"
        /\ txn'.id = txn.id /\ txn'.output = txn.output /\ txn'.request = txn.request
        /\ txn'.protocol = txn.protocol
    BY <1>3, ZenonT(30) DEF IInv, TypeOK, Transactions, Stages
  <2> QED
    BY <1>1, <1>3, <2>1, ZenonT(30)
    DEF IInv, TypeOK, RestTypeOK, OutputWithinBudget, CallInv, RecordInv,
        MapInv, LoopInv,
        QuiesceEnvironment
<1>4. firmware.live \in BOOLEAN
  BY ZenonT(30) DEF IInv, TypeOK
<1> QED
  BY <1>2, <1>3, <1>4, ZenonT(30) DEF QuiesceEnvironment, FailureStages, FailureReasons

\* transfer enters the kernel of a quiesced transaction only.
LEMMA TransferStep ==
    ASSUME IInv, Transfer
    PROVE  IInv'
<1>1. CASE /\ txn.stage = "QUIESCE_ENVIRONMENT" /\ control' = "kernel"
           /\ txn' = [txn EXCEPT !.stage = "TRANSFER"]
  <2>1. /\ txn' \in Transactions /\ txn'.stage = "TRANSFER"
        /\ txn'.id = txn.id /\ txn'.output = txn.output /\ txn'.request = txn.request
        /\ txn'.protocol = txn.protocol
    BY <1>1, ZenonT(30) DEF IInv, TypeOK, Transactions, Stages
  <2> QED
    BY <1>1, <2>1, ZenonT(30)
    DEF IInv, TypeOK, OutputWithinBudget, CallInv, RecordInv,
        MapInv, LoopInv, Transfer, Idle
<1>2. CASE control' = "halted" /\ UNCHANGED txn
  BY <1>2, ZenonT(30)
  DEF IInv, TypeOK, OutputWithinBudget, CallInv, RecordInv,
      MapInv, LoopInv, Transfer, Idle
<1> QED BY <1>1, <1>2, ZenonT(30) DEF Transfer

\* execute_terminal starts the child of a committed transaction only.
LEMMA ExecuteTerminalStep ==
    ASSUME IInv, ExecuteTerminal
    PROVE  IInv'
<1>1. CASE /\ \E reason \in {"BAD_INPUT", "TERMINAL"} :
                 txn' = BootFail(txn, "EXECUTE_TERMINAL", reason)
           /\ UNCHANGED control
  <2>1. RestTypeOK' /\ call' = "none" /\ control' = "ribon"
    BY <1>1, ZenonT(30) DEF IInv, TypeOK, ExecuteTerminal, Idle, RestTypeOK
  <2> QED BY <1>1, <2>1, FailStep, ZenonT(30) DEF FailureStages, FailureReasons
<1>2. CASE /\ txn.stage = "COMMIT_ATTEMPT" /\ control' = "child"
           /\ txn' = [txn EXCEPT !.stage = "EXECUTE_TERMINAL"]
  <2>1. /\ txn' \in Transactions /\ txn'.stage = "EXECUTE_TERMINAL"
        /\ txn'.id = txn.id /\ txn'.output = txn.output /\ txn'.request = txn.request
        /\ txn'.protocol = txn.protocol
    BY <1>2, ZenonT(30) DEF IInv, TypeOK, Transactions, Stages
  <2> QED
    BY <1>2, <2>1, ZenonT(30)
    DEF IInv, TypeOK, OutputWithinBudget, CallInv, RecordInv,
        MapInv, LoopInv, ExecuteTerminal, Idle
<1> QED BY <1>1, <1>2, ZenonT(30) DEF ExecuteTerminal

\* A child that returns fails its transaction.
LEMMA ChildReturnsStep ==
    ASSUME IInv, ChildReturns
    PROVE  IInv'
<1>1. RestTypeOK' /\ call' = "none" /\ control' = "ribon"
  BY ZenonT(30) DEF IInv, TypeOK, CallInv, ChildReturns, RestTypeOK
<1> QED BY <1>1, FailStep, ZenonT(30) DEF ChildReturns, FailureStages, FailureReasons

\* The steps of the exit loop other than the refresh, and the firmware's own.
LEMMA FirmwareStep ==
    ASSUME IInv,
           \/ CaptureEnvironment \/ EnterExit \/ ExitCapture
           \/ ExitBootServices \/ ChangeMap
    PROVE  IInv'
<1>1. CASE CaptureEnvironment
  BY <1>1
  DEF IInv, TypeOK, OutputWithinBudget, CallInv, RecordInv,
      MapInv, LoopInv, CaptureEnvironment, Idle
<1>2. CASE EnterExit
  BY <1>2, LimitAssumption
  DEF IInv, TypeOK, OutputWithinBudget, CallInv, RecordInv,
      MapInv, LoopInv, EnterExit, Idle,
      LimitAssumption
<1>3. CASE ExitCapture
  BY <1>3
  DEF IInv, TypeOK, OutputWithinBudget, CallInv, RecordInv, MapInv, LoopInv, ExitCapture
<1>4. CASE ExitBootServices
  <2>1. CASE /\ captured = firmware.map /\ call' = "none"
             /\ firmware' = [firmware EXCEPT !.live = FALSE] /\ UNCHANGED exits
    BY <1>4, <2>1, ZenonT(60)
    DEF IInv, TypeOK, OutputWithinBudget, CallInv, RecordInv,
        MapInv, LoopInv, ExitBootServices
  <2>2. CASE /\ exits' = exits + 1 /\ UNCHANGED firmware
             /\ call' = IF exits' < ExitAttempts THEN "capture" ELSE "none"
    <3>1. exits' \in 0 .. ExitAttempts
      BY <1>4, <2>2, LimitAssumption
      DEF IInv, TypeOK, LoopInv, LimitAssumption, ExitBootServices
    <3> QED
      BY <1>4, <2>2, <3>1, ZenonT(30)
      DEF IInv, TypeOK, OutputWithinBudget, CallInv, RecordInv, MapInv, LoopInv,
          ExitBootServices
  <2>3. CASE call' = "none" /\ UNCHANGED <<firmware, exits>>
    BY <1>4, <2>3, ZenonT(30)
    DEF IInv, TypeOK, OutputWithinBudget, CallInv, RecordInv,
        MapInv, LoopInv, ExitBootServices
  <2> QED BY <1>4, <2>1, <2>2, <2>3, ZenonT(30) DEF ExitBootServices
<1>5. CASE ChangeMap
  <2>1. firmware' \in [live : BOOLEAN, map : 1 .. MaxMap] /\ firmware'.live /\ firmware.live
    BY <1>5, LimitAssumption DEF IInv, TypeOK, ChangeMap, LimitAssumption
  <2> QED
    BY <1>5, <2>1, ZenonT(30)
    DEF IInv, TypeOK, OutputWithinBudget, CallInv, RecordInv, MapInv, LoopInv, ChangeMap
<1> QED BY <1>1, <1>2, <1>3, <1>4, <1>5, ZenonT(30)

\* A power cut keeps what was flushed and ends the transaction.
LEMMA PowerCutStep ==
    ASSUME IInv, PowerCut
    PROVE  IInv'
<1>1. txn.id \in 0 .. MaxTransactions
  BY ZenonT(30) DEF IInv, TypeOK, Transactions
<1>2. disk' \in 0 .. MaxTransactions
  BY <1>1, LimitAssumption DEF IInv, TypeOK, PowerCut, LimitAssumption
<1>3. /\ txn' \in Transactions /\ txn'.stage = "ZEROED" /\ txn'.request = "NONE"
      /\ txn'.output = 0
  BY <1>1, ZeroedFacts, ZenonT(30) DEF PowerCut
<1> QED
  BY <1>2, <1>3, LimitAssumption
  DEF IInv, TypeOK, OutputWithinBudget, CallInv, RecordInv, MapInv, LoopInv, PowerCut,
      LimitAssumption

\* No step leaves IInv.
LEMMA NextIInv ==
    ASSUME IInv, [Next]_vars
    PROVE  IInv'
<1>1. CASE UNCHANGED vars
  BY <1>1, ZenonT(30)
  DEF vars, IInv, TypeOK, OutputWithinBudget, CallInv, RecordInv, MapInv, LoopInv
<1>2. CASE ApiCall
  BY <1>2, InitializeStep, PrepareStep, CommitAttemptStep, RefreshAfterCommitStep,
     QuiesceEnvironmentStep, TransferStep, ExecuteTerminalStep, FirmwareStep, ZenonT(30)
  DEF ApiCall
<1>3. CASE CallStep
  BY <1>3, ReadSourceStep, AnalyzeImageStep, WriteRecordStep, FlushRecordStep,
     ExitRefreshStep, FirmwareStep, ZenonT(30)
  DEF CallStep
<1> QED BY <1>1, <1>2, <1>3, ChildReturnsStep, FirmwareStep, PowerCutStep, ZenonT(30) DEF Next

\* IInv is an invariant of every instance.
THEOREM Invariance == Spec => []IInv
BY InitIInv, NextIInv, PTL DEF Spec

\* The kernel or the child runs only with the attempt record of its own
\* transaction on disk (commit_attempt before transfer and execute_terminal).
THEOREM AttemptIsDurable == Spec => []AttemptPrecedesControl
<1>1. IInv => AttemptPrecedesControl
  BY ZenonT(30) DEF IInv, CallInv, RecordInv, AttemptPrecedesControl
<1> QED BY <1>1, Invariance, PTL

\* The kernel is entered with the map that ExitBootServices accepted
\* (ribon_uefi_app_exit_boot_services, for any number of attempts).
THEOREM HandoffIsFinal == Spec => []FinalMapHandedOver
<1>1. IInv => FinalMapHandedOver
  BY ZenonT(30) DEF IInv, CallInv, MapInv, FinalMapHandedOver
<1> QED BY <1>1, Invariance, PTL

\* max_handoff_bytes bounds everything a transaction builds
\* (boot_prepare_protocol_plan), and every variable keeps its type.
THEOREM BudgetHolds == Spec => [](TypeOK /\ OutputWithinBudget)
<1>1. IInv => TypeOK /\ OutputWithinBudget
  BY ZenonT(30) DEF IInv
<1> QED BY <1>1, Invariance, PTL

-----------------------------------------------------------------------------
(* The stage of a transaction never moves back.                            *)

\* What StageAdvances says of one step.
Advances ==
    txn'.id = txn.id /\ txn'.stage # "ZEROED" => Rank[txn.stage] <= Rank[txn'.stage]

\* The order of the stages.
LEMMA RankFacts ==
    /\ Rank["CAPTURE"] = 1 /\ Rank["LOAD_IMAGE"] = 2 /\ Rank["PREPARE_PROTOCOL"] = 3
    /\ Rank["COMMIT_ATTEMPT"] = 4 /\ Rank["QUIESCE_ENVIRONMENT"] = 5
    /\ Rank["EXECUTE_TERMINAL"] = 5 /\ Rank["TRANSFER"] = 6 /\ Rank["FAILED"] = 7
    /\ \A s \in Stages : Rank[s] \in 0 .. 7
BY DEF Rank, Stages

\* A step of the lifecycle: same transaction and stage, failure, or the next
\* stage.
LEMMA AdvanceCases ==
    ASSUME TypeOK,
           \/ txn' = txn \/ txn'.id # txn.id \/ txn'.stage \in {"FAILED", "ZEROED"}
           \/ txn'.stage = txn.stage
           \/ txn.stage = "CAPTURE" /\ txn'.stage = "LOAD_IMAGE"
           \/ txn.stage = "LOAD_IMAGE" /\ txn'.stage = "PREPARE_PROTOCOL"
           \/ txn.stage = "PREPARE_PROTOCOL" /\ txn'.stage = "COMMIT_ATTEMPT"
           \/ /\ txn.stage = "COMMIT_ATTEMPT"
              /\ txn'.stage \in {"QUIESCE_ENVIRONMENT", "EXECUTE_TERMINAL"}
           \/ txn.stage = "QUIESCE_ENVIRONMENT" /\ txn'.stage = "TRANSFER"
    PROVE  Advances
<1>1. txn.stage \in Stages
  BY ZenonT(30) DEF TypeOK, Transactions
<1> QED BY <1>1, RankFacts DEF Advances

\* boot_fail puts FAILED into the stage whatever the transaction was.
LEMMA FailAdvances ==
    ASSUME TypeOK, NEW s, NEW r, txn' = BootFail(txn, s, r)
    PROVE  Advances
<1>1. txn'.stage = "FAILED"
  BY ZenonT(30) DEF TypeOK, Transactions, BootFail
<1> QED BY <1>1, AdvanceCases, ZenonT(30)

\* No step moves the stage back unless it ends the boot.
LEMMA NextAdvances ==
    ASSUME IInv, Next
    PROVE  Advances
<1>0. TypeOK /\ txn \in Transactions
  BY ZenonT(30) DEF IInv, TypeOK
<1>1. ASSUME NEW kind \in Kinds, Initialize(kind) PROVE Advances
  <2> DEFINE z == Zeroed(txn.id + 1)
  <2>1. txn.id \in Nat /\ txn.id + 1 \in 0 .. MaxTransactions
    BY <1>0, <1>1, LimitAssumption DEF Initialize, Transactions, LimitAssumption
  <2>2. z \in Transactions /\ z.id = txn.id + 1
    BY <2>1, ZeroedFacts, ZenonT(30)
  <2>3. txn' = z \/ txn' = [z EXCEPT !.stage = "CAPTURE", !.protocol = kind]
    BY <1>1, ZenonT(30) DEF Initialize
  <2> HIDE DEF z
  <2>4. txn'.id = txn.id + 1
    BY <2>2, <2>3, ZenonT(60) DEF Transactions
  <2> QED BY <1>0, <2>1, <2>4, AdvanceCases
<1>2. CASE Prepare
  <2>1. CASE txn.stage = "CAPTURE" /\ txn' = [txn EXCEPT !.stage = "LOAD_IMAGE"]
    <3>1. txn'.stage = "LOAD_IMAGE"
      BY <1>0, <2>1, ZenonT(30) DEF Transactions
    <3> QED BY <1>0, <2>1, <3>1, AdvanceCases, ZenonT(30)
  <2> QED BY <1>0, <1>2, <2>1, FailAdvances, ZenonT(30) DEF Prepare
<1>3. CASE CommitAttempt \/ WriteRecord \/ ChildReturns
  BY <1>0, <1>3, FailAdvances, AdvanceCases, ZenonT(30) DEF CommitAttempt, WriteRecord, ChildReturns
<1>4. CASE ReadSource
  <2>1. CASE txn' = [txn EXCEPT !.retries = @ + 1]
    <3>1. txn'.stage = txn.stage
      BY <1>0, <2>1, ZenonT(30) DEF Transactions
    <3> QED BY <1>0, <3>1, AdvanceCases, ZenonT(30)
  <2> QED BY <1>0, <1>4, <2>1, FailAdvances, AdvanceCases, ZenonT(30) DEF ReadSource
<1>5. ASSUME NEW size \in ArtifactSizes, AnalyzeImage(size) PROVE Advances
  <2>1. txn.stage = "LOAD_IMAGE"
    BY <1>5, ZenonT(30) DEF IInv, CallInv, AnalyzeImage
  <2>2. CASE \E result \in PreparePlan(txn, captured, size) : txn' = result.txn
    <3>1. PICK result \in PreparePlan(txn, captured, size) : txn' = result.txn
      BY <2>2, ZenonT(30)
    <3>2. PlanResult(result, txn, captured)
      BY LimitAssumption, PreparePlanFacts, ZenonT(30)
      DEF IInv, TypeOK, OutputWithinBudget, CallInv
    <3>3. txn'.stage \in {"FAILED", "PREPARE_PROTOCOL"}
      BY <3>1, <3>2, ZenonT(30) DEF PlanResult
    <3> QED BY <1>0, <2>1, <3>3, AdvanceCases, ZenonT(30)
  <2> QED BY <1>0, <1>5, <2>2, FailAdvances, ZenonT(30) DEF AnalyzeImage
<1>6. ASSUME NEW size \in ArtifactSizes, RefreshAfterCommit(size) \/ ExitRefresh(size)
      PROVE  Advances
  <2>1. PICK r \in RefreshResults(size) : txn' = r.txn
    BY <1>6, ZenonT(30) DEF RefreshAfterCommit, ExitRefresh
  <2>2. txn'.stage = "FAILED" \/ txn'.stage = txn.stage
    BY <2>1, RefreshFacts, ZenonT(30)
  <2> QED BY <1>0, <2>2, AdvanceCases, ZenonT(30)
<1>7. CASE FlushRecord
  <2>1. txn.stage = "PREPARE_PROTOCOL"
    BY <1>7, ZenonT(30) DEF IInv, CallInv, FlushRecord
  <2>2. CASE txn' = [txn EXCEPT !.stage = "COMMIT_ATTEMPT"]
    <3>1. txn'.stage = "COMMIT_ATTEMPT"
      BY <1>0, <2>2, ZenonT(30) DEF Transactions
    <3> QED BY <1>0, <2>1, <3>1, AdvanceCases, ZenonT(30)
  <2> QED BY <1>0, <1>7, <2>2, FailAdvances, ZenonT(30) DEF FlushRecord
<1>8. CASE QuiesceEnvironment
  <2>1. CASE /\ txn.stage = "COMMIT_ATTEMPT"
             /\ txn' = [txn EXCEPT !.stage = "QUIESCE_ENVIRONMENT"]
    <3>1. txn'.stage = "QUIESCE_ENVIRONMENT"
      BY <1>0, <2>1, ZenonT(30) DEF Transactions
    <3> QED BY <1>0, <2>1, <3>1, AdvanceCases, ZenonT(30)
  <2>2. \/ \E s, r : txn' = BootFail(txn, s, r)
        \/ txn.stage = "COMMIT_ATTEMPT" /\ txn' = [txn EXCEPT !.stage = "QUIESCE_ENVIRONMENT"]
    BY <1>8, ZenonT(30) DEF QuiesceEnvironment
  <2> QED BY <1>0, <2>1, <2>2, FailAdvances, ZenonT(30)
<1>9. CASE Transfer
  <2>1. CASE txn.stage = "QUIESCE_ENVIRONMENT" /\ txn' = [txn EXCEPT !.stage = "TRANSFER"]
    <3>1. txn'.stage = "TRANSFER"
      BY <1>0, <2>1, ZenonT(30) DEF Transactions
    <3> QED BY <1>0, <2>1, <3>1, AdvanceCases, ZenonT(30)
  <2> QED BY <1>0, <1>9, <2>1, AdvanceCases, ZenonT(30) DEF Transfer
<1>10. CASE ExecuteTerminal
  <2>1. CASE txn.stage = "COMMIT_ATTEMPT" /\ txn' = [txn EXCEPT !.stage = "EXECUTE_TERMINAL"]
    <3>1. txn'.stage = "EXECUTE_TERMINAL"
      BY <1>0, <2>1, ZenonT(30) DEF Transactions
    <3> QED BY <1>0, <2>1, <3>1, AdvanceCases, ZenonT(30)
  <2> QED BY <1>0, <1>10, <2>1, FailAdvances, ZenonT(30) DEF ExecuteTerminal
<1>11. CASE CaptureEnvironment \/ EnterExit \/ ExitCapture \/ ExitBootServices \/ ChangeMap
  BY <1>0, <1>11, AdvanceCases, ZenonT(30)
  DEF CaptureEnvironment, EnterExit, ExitCapture, ExitBootServices, ChangeMap
<1>12. CASE PowerCut
  <2>1. txn'.stage = "ZEROED"
    BY <1>12, ZenonT(30) DEF PowerCut, Zeroed
  <2> QED BY <1>0, <2>1, AdvanceCases, ZenonT(30)
<1> QED
  BY <1>1, <1>2, <1>3, <1>4, <1>5, <1>6, <1>7, <1>8, <1>9, <1>10, <1>11, <1>12, ZenonT(30)
  DEF Next, ApiCall, CallStep

\* Within one boot no transaction repeats a stage it has left: it commits one
\* attempt, launches one child, and once failed stays failed.
THEOREM StageNeverMovesBack == Spec => StageAdvances
<1>1. ASSUME IInv, [Next]_vars PROVE [Advances]_vars
  BY <1>1, NextAdvances, ZenonT(30)
<1>2. IInv /\ [Next]_vars
         => [txn'.id = txn.id /\ txn'.stage # "ZEROED"
                => Rank[txn.stage] <= Rank[txn'.stage]]_vars
  BY <1>1, ZenonT(30) DEF Advances
<1> QED BY <1>2, Invariance, PTL DEF Spec, StageAdvances

-----------------------------------------------------------------------------
(* The execution of a signed policy.                                       *)

\* From consume_trial_attempt to the run, one paid attempt is not run yet, and
\* no power cut can give it back.
Paid ==
    /\ RunsWithinGrant
    /\ adapter.phase = "consume" => adapter.authority = "TRIAL"
    /\ adapter.phase = "prepare" /\ adapter.authority = "TRIAL" =>
          \A st \in {prot, durable} : runs + 1 + st.attempts <= granted

\* The durable floor is the visible one, or a confirmation is not durable yet.
Behind ==
    \/ prot.floor = durable.floor
    \/ /\ durable.kind = "TRIAL" /\ prot.kind = "CONFIRMED"
       /\ prot.floor = durable.floor + 1

\* What the transaction of the current request has been through.
Progress ==
    /\ OneActionPerTransaction
    /\ ~boot.used => boot.vmRuns = 0
    /\ adapter.consumed => adapter.phase \in {"commit", "quiesce", "done"}
    /\ adapter.phase \in {"idle", "validate", "done"} =>
          /\ boot.stage # "COMMIT_ATTEMPT"
          /\ boot.actions = 1 => boot.stage # "PREPARE_PROTOCOL"
    /\ adapter.phase \in {"authorize", "begin", "decide", "consume", "prepare"} =>
          /\ boot.used /\ boot.vmRuns = 0
          /\ boot.stage = "PREPARE_PROTOCOL"
    /\ adapter.phase \in {"execute", "faulted", "action"} =>
          /\ boot.used /\ boot.vmRuns = 1 /\ boot.actions = 0
          /\ boot.stage = "PREPARE_PROTOCOL"
    /\ adapter.phase \in {"commit", "quiesce"} =>
          boot.used /\ boot.vmRuns = 1 /\ boot.actions = 1

\* Before the end of a request only vm_recovery has notified.
Quiet ==
    /\ RecoveryOnce
    /\ adapter.phase # "done" => adapter.failure = "NONE"
    /\ adapter.phase = "faulted" => adapter.notified = IF request.recovery THEN 1 ELSE 0
    /\ adapter.phase \notin {"faulted", "done"} => adapter.notified = 0
    /\ adapter.phase \notin {"idle", "done"} => request.receipt
    /\ adapter.phase \in {"idle", "validate", "authorize", "begin", "decide"} => ~adapter.opened

-----------------------------------------------------------------------------

\* Every operation on the rollback state commits a record that decodes.
LEMMA OperationsDecode ==
    ASSUME NEW st \in States, Decodes(st)
    PROVE  /\ \A s, a : \A next \in BeginTrial(st, s, a, NoBinding, 0) :
                  next \in States /\ Decodes(next) /\ next.kind = "TRIAL"
                  /\ next.attempts = a /\ next.floor = st.floor /\ st.kind = "CONFIRMED"
                  /\ a \in 1 .. MaxTrialAttempts
           /\ \A s : \A next \in ConsumeTrialAttempt(st, s) :
                  next \in States /\ Decodes(next) /\ next.kind = "TRIAL"
                  /\ next.attempts = st.attempts - 1 /\ st.kind = "TRIAL"
                  /\ st.attempts \in Nat /\ st.attempts # 0 /\ next.floor = st.floor
           /\ \A s : \A next \in ConfirmUnbound(st, s) :
                  next \in States /\ Decodes(next) /\ next.kind = "CONFIRMED"
                  /\ st.kind = "TRIAL" /\ next.floor = st.floor + 1
           /\ \A next \in FailTrial(st) :
                  next \in States /\ Decodes(next) /\ next.kind = "CONFIRMED"
                  /\ next.floor = st.floor
  <1> USE SequenceAssumption DEF States, Decodes
  <1>1. \A s, a : \A next \in BeginTrial(st, s, a, NoBinding, 0) :
            next \in States /\ Decodes(next) /\ next.kind = "TRIAL"
            /\ next.attempts = a /\ next.floor = st.floor /\ st.kind = "CONFIRMED"
            /\ a \in 1 .. MaxTrialAttempts
    BY DEF BeginTrial, Trial
  <1>2. \A s : \A next \in ConsumeTrialAttempt(st, s) :
            next \in States /\ Decodes(next) /\ next.kind = "TRIAL"
            /\ next.attempts = st.attempts - 1 /\ st.kind = "TRIAL"
            /\ st.attempts \in Nat /\ st.attempts # 0 /\ next.floor = st.floor
    BY DEF ConsumeTrialAttempt
  <1>3. \A s : \A next \in ConfirmUnbound(st, s) :
            next \in States /\ Decodes(next) /\ next.kind = "CONFIRMED"
            /\ st.kind = "TRIAL" /\ next.floor = st.floor + 1
    BY DEF ConfirmUnbound, Confirmed
  <1>4. \A next \in FailTrial(st) :
            next \in States /\ Decodes(next) /\ next.kind = "CONFIRMED"
            /\ next.floor = st.floor
    BY DEF FailTrial, Confirmed
  <1> QED
    BY <1>1, <1>2, <1>3, <1>4, ZenonT(30)

\* What a transition that returns, with or without an error, does to the
\* visible and to the durable state.
LEMMA CommitCases ==
    ASSUME NEW states, Commits(states) \/ CommitErrs(states)
    PROVE  \/ prot' = prot /\ durable' \in {prot, durable}
           \/ prot' \in states /\ durable' \in {prot, prot'}
  BY ZenonT(30) DEF Commits, CommitErrs

\* It leaves states that decode.
LEMMA CommitDecodes ==
    ASSUME PolicyTypeOK, NEW states, Commits(states) \/ CommitErrs(states),
           \A st \in states : st \in States /\ Decodes(st)
    PROVE  \A st \in {prot', durable'} : st \in States /\ Decodes(st)
  BY CommitCases, ZenonT(30) DEF PolicyTypeOK

\* The ways a request ends or goes on keep the type of the adapter.
LEMMA AdapterType ==
    ASSUME PolicyTypeOK
    PROVE  /\ \A status \in PolicyStatuses : Fail(status) => adapter' \in Adapters
           /\ \A failure \in Failures : Reject(failure) => adapter' \in Adapters
           /\ \A phase \in Phases : Enter(phase) => adapter' \in Adapters
           /\ \A phase \in Phases : NewAdapter(phase) \in Adapters
  <1> USE DEF PolicyTypeOK, Adapters
  <1>1. Notified(adapter) \in Nat
    BY DEF Notified
  <1>2. "done" \in Phases /\ "AUTHORIZATION" \in PolicyStatuses /\ "NONE" \in Failures
        /\ "BAD_ARGUMENT" \in PolicyStatuses /\ "NONE" \in Authorities
    BY ZenonT(30) DEF Phases, PolicyStatuses, Failures, Authorities
  <1>3. \A status \in PolicyStatuses : Fail(status) => adapter' \in Adapters
    BY <1>1, <1>2, ZenonT(60) DEF Fail
  <1>4. \A failure \in Failures : Reject(failure) => adapter' \in Adapters
    BY <1>1, <1>2, ZenonT(60) DEF Reject, Rejected
  <1>5. \A phase \in Phases : Enter(phase) => adapter' \in Adapters
    BY ZenonT(30) DEF Enter
  <1>6. \A phase \in Phases : NewAdapter(phase) \in Adapters
    BY <1>2, ZenonT(30) DEF NewAdapter
  <1> QED
    BY <1>3, <1>4, <1>5, <1>6, ZenonT(30)

\* Every step keeps the types; in particular every committed state decodes.
LEMMA TypesStep == PolicyTypeOK /\ [PolicyNext]_policyVars => PolicyTypeOK'
  <1> SUFFICES ASSUME PolicyTypeOK, [PolicyNext]_policyVars PROVE PolicyTypeOK'
    BY ZenonT(30)
  <1>1. \A stage \in PolicyStages : NewTxn(stage) \in PolicyTransactions
    BY ZenonT(30) DEF NewTxn, PolicyTransactions
  <1>2. NoRequest \in Requests
    BY SequenceAssumption DEF NoRequest, Requests, Activations
  <1>3. "done" \in Phases /\ "idle" \in Phases /\ "validate" \in Phases
    BY ZenonT(30) DEF Phases
  <1>4. CASE PrepareTransaction
    BY <1>1, <1>4, ZenonT(30) DEF PolicyTypeOK, PrepareTransaction, PolicyStages
  <1>5. ASSUME NEW sequence \in 0 .. MaxSequence, PolicyConfirm(sequence) PROVE PolicyTypeOK'
    <2>1. prot \in States /\ Decodes(prot)
      BY ZenonT(30) DEF PolicyTypeOK
    <2>2. \A st \in {prot', durable'} : st \in States /\ Decodes(st)
      <3>1. \A st \in ConfirmUnbound(prot, sequence) : st \in States /\ Decodes(st)
        BY <2>1, OperationsDecode, ZenonT(30)
      <3>2. CommitErrs(ConfirmUnbound(prot, sequence))
        BY <1>5, ZenonT(30) DEF PolicyConfirm
      <3> QED
        BY <3>1, <3>2, CommitDecodes, ZenonT(30)
    <2> QED
      BY <1>5, <2>2, ZenonT(30) DEF PolicyTypeOK, PolicyConfirm
  <1>6. CASE PolicyFailTrial
    <2>1. prot \in States /\ Decodes(prot)
      BY ZenonT(30) DEF PolicyTypeOK
    <2>2. \A st \in {prot', durable'} : st \in States /\ Decodes(st)
      BY <1>6, <2>1, CommitDecodes, OperationsDecode, ZenonT(30) DEF PolicyFailTrial
    <2> QED
      BY <1>6, <2>2, ZenonT(30) DEF PolicyTypeOK, PolicyFailTrial
  <1>7. ASSUME NEW r \in Requests, PolicyExecute(r) PROVE PolicyTypeOK'
    BY <1>3, <1>7, AdapterType, ZenonT(30) DEF PolicyTypeOK, PolicyExecute
  <1>8. CASE Validate
    <2>1. adapter' \in Adapters
      BY <1>8, AdapterType, ZenonT(30) DEF Validate, PolicyStatuses, Phases
    <2>2. boot' \in PolicyTransactions
      BY <1>8, ZenonT(60) DEF Validate, PolicyTypeOK, PolicyTransactions
    <2> QED
      BY <1>8, <2>1, <2>2, ZenonT(30) DEF Validate, PolicyTypeOK
  <1>9. CASE Authorize
    <2>1. adapter' \in Adapters
      BY <1>9, AdapterType, ZenonT(30) DEF Authorize, Failures, Phases
    <2> QED
      BY <1>9, <2>1, ZenonT(30) DEF Authorize, PolicyTypeOK
  <1>10. CASE BeginTrialStep
    <2>1. adapter' \in Adapters
      BY <1>10, AdapterType, ZenonT(30) DEF BeginTrialStep, Failures, Phases
    <2>2. /\ \A st \in {prot', durable'} : st \in States /\ Decodes(st)
          /\ prot' # prot => request.attempts \in 1 .. MaxTrialAttempts
      <3>1. prot \in States /\ Decodes(prot)
        BY ZenonT(30) DEF PolicyTypeOK
      <3> DEFINE next == BeginTrial(prot, request.sequence, request.attempts, NoBinding, 0)
      <3>2. Commits(next) \/ CommitErrs(next)
        BY <1>10, ZenonT(30) DEF BeginTrialStep
      <3>3. \A st \in next : /\ st \in States /\ Decodes(st)
                              /\ request.attempts \in 1 .. MaxTrialAttempts
        BY <3>1, OperationsDecode, ZenonT(30)
      <3> HIDE DEF next
      <3>4. \A st \in {prot', durable'} : st \in States /\ Decodes(st)
        BY <3>2, <3>3, CommitDecodes, ZenonT(30)
      <3> QED
        BY <3>2, <3>3, <3>4, CommitCases, ZenonT(30)
    <2> QED
      BY <1>10, <2>1, <2>2, SequenceAssumption DEF BeginTrialStep, PolicyTypeOK
  <1>11. CASE Decide
    <2> DEFINE opened == [adapter EXCEPT !.opened = TRUE]
    <2>a. opened \in Adapters /\ Notified(opened) \in Nat
      <3>1. opened \in Adapters
        BY ZenonT(30) DEF PolicyTypeOK, Adapters
      <3> HIDE DEF opened
      <3>2. opened.notified \in Nat
        BY <3>1, ZenonT(30) DEF Adapters
      <3> QED
        BY <3>1, <3>2, SMTT(30) DEF Notified
    <2> HIDE DEF opened
    <2>1. /\ \A failure \in {"STATE_UNAVAILABLE", "ROLLBACK"} : Reject(failure) => adapter' \in Adapters
          /\ Rejected(opened, "ROLLBACK") \in Adapters
      <3>1. \A failure \in {"STATE_UNAVAILABLE", "ROLLBACK"} : Reject(failure) => adapter' \in Adapters
        BY AdapterType, ZenonT(30) DEF Failures
      <3>2. "done" \in Phases /\ "AUTHORIZATION" \in PolicyStatuses /\ "ROLLBACK" \in Failures
        BY ZenonT(30) DEF Phases, PolicyStatuses, Failures
      <3> QED
        BY <2>a, <3>1, <3>2, ZenonT(60) DEF Rejected, Adapters
    <2>2. \A authority \in Authorities, phase \in Phases :
             [opened EXCEPT !.authority = authority, !.phase = phase] \in Adapters
      BY <2>a, ZenonT(60) DEF Adapters
    <2>3. Authority(prot, request.sequence) \in Authorities
      BY ZenonT(30) DEF Authority, Authorities
    <2>4. adapter' \in Adapters
      BY <1>11, <2>1, <2>2, <2>3, ZenonT(60) DEF Decide, Phases, opened
    <2> QED
      BY <1>11, <2>4, ZenonT(30) DEF Decide, PolicyTypeOK
  <1>12. CASE ConsumeAttempt
    <2>1. adapter' \in Adapters
      BY <1>12, AdapterType, ZenonT(30) DEF ConsumeAttempt, Failures, Phases
    <2>2. \A st \in {prot', durable'} : st \in States /\ Decodes(st)
      <3>1. prot \in States /\ Decodes(prot)
        BY ZenonT(30) DEF PolicyTypeOK
      <3> DEFINE next == ConsumeTrialAttempt(prot, request.sequence)
      <3>2. Commits(next) \/ CommitErrs(next)
        BY <1>12, ZenonT(30) DEF ConsumeAttempt
      <3>3. \A st \in next : st \in States /\ Decodes(st)
        BY <3>1, OperationsDecode, ZenonT(30)
      <3> HIDE DEF next
      <3> QED
        BY <3>2, <3>3, CommitDecodes, ZenonT(30)
    <2> QED
      BY <1>12, <2>1, <2>2, ZenonT(30) DEF ConsumeAttempt, PolicyTypeOK
  <1>13. CASE PrepareRun
    <2>1. adapter' \in Adapters
      BY <1>13, AdapterType, ZenonT(30) DEF PrepareRun, PolicyStatuses, Phases
    <2>2. boot' \in PolicyTransactions /\ runs' \in Nat
      BY <1>13 DEF PrepareRun, PolicyTypeOK, PolicyTransactions
    <2> QED
      BY <1>13, <2>1, <2>2, ZenonT(30) DEF PrepareRun, PolicyTypeOK
  <1>14. CASE Execute
    <2>1. Notified(adapter) \in Nat
      BY DEF Notified, PolicyTypeOK, Adapters
    <2>2. CASE adapter' = [adapter EXCEPT !.phase = "faulted", !.notified = Notified(adapter)]
      BY <1>14, <2>1, <2>2, ZenonT(60) DEF Execute, PolicyTypeOK, Adapters, Phases
    <2>3. CASE Enter("action") \/ Fail("POLICY_ERROR") \/ Fail("VM_FAULT")
      <3>1. adapter' \in Adapters
        BY <2>3, AdapterType, ZenonT(30) DEF PolicyStatuses, Phases
      <3> QED
        BY <1>14, <3>1, ZenonT(30) DEF Execute, PolicyTypeOK
    <2> QED
      BY <1>14, <2>2, <2>3, ZenonT(30) DEF Execute
  <1>15. CASE ExecuteFaulted
    <2>1. adapter' \in Adapters
      BY <1>15, AdapterType, ZenonT(30) DEF ExecuteFaulted, PolicyStatuses
    <2> QED
      BY <1>15, <2>1, ZenonT(30) DEF ExecuteFaulted, PolicyTypeOK
  <1>16. CASE ValidateAction
    <2>1. adapter' \in Adapters
      <3>1. /\ "ACTION_REJECTED" \in PolicyStatuses /\ "OK" \in PolicyStatuses
            /\ "commit" \in Phases /\ "done" \in Phases
        BY ZenonT(30) DEF PolicyStatuses, Phases
      <3>2. CASE Fail("ACTION_REJECTED")
        BY <3>1, <3>2, AdapterType, Zenon
      <3>3. CASE adapter' = [adapter EXCEPT !.phase = "commit", !.consumed = TRUE]
        BY <3>1, <3>3, ZenonT(60) DEF PolicyTypeOK, Adapters
      <3> QED
        BY <1>16, <3>2, <3>3, Zenon DEF ValidateAction
    <2>2. boot' \in PolicyTransactions
      BY <1>16 DEF ValidateAction, PolicyTypeOK, PolicyTransactions
    <2> QED
      BY <1>16, <2>1, <2>2, ZenonT(30) DEF ValidateAction, PolicyTypeOK
  <1>17. CASE Commit
    <2>1. adapter' \in Adapters
      BY <1>17, AdapterType, ZenonT(30) DEF Commit, PolicyStatuses, Phases
    <2>2. boot' \in PolicyTransactions
      BY <1>17, ZenonT(30) DEF Commit, PolicyTypeOK, PolicyTransactions, PolicyStages
    <2> QED
      BY <1>17, <2>1, <2>2, ZenonT(30) DEF Commit, PolicyTypeOK
  <1>18. CASE Quiesce
    <2>1. adapter' \in Adapters
      <3>1. /\ "QUIESCE_FAILED" \in PolicyStatuses /\ "OK" \in PolicyStatuses
            /\ "commit" \in Phases /\ "done" \in Phases
        BY ZenonT(30) DEF PolicyStatuses, Phases
      <3>2. CASE Fail("QUIESCE_FAILED")
        BY <3>1, <3>2, AdapterType, Zenon
      <3>3. CASE adapter' = [adapter EXCEPT !.phase = "done", !.status = "OK"]
        BY <3>1, <3>3, ZenonT(60) DEF PolicyTypeOK, Adapters
      <3> QED
        BY <1>18, <3>2, <3>3, Zenon DEF Quiesce
    <2>2. boot' \in PolicyTransactions
      BY <1>18, ZenonT(30) DEF Quiesce, PolicyTypeOK, PolicyTransactions, PolicyStages
    <2> QED
      BY <1>18, <2>1, <2>2, ZenonT(30) DEF Quiesce, PolicyTypeOK
  <1>19. CASE PolicyPowerCut
    <2>1. prot \in States /\ Decodes(prot) /\ durable \in States /\ Decodes(durable)
      BY ZenonT(30) DEF PolicyTypeOK
    <2>2. /\ prot' \in States /\ Decodes(prot)' /\ durable' = prot'
          /\ \/ granted' = granted /\ runs' = runs
             \/ granted' = request.attempts /\ runs' = 0 /\ request.attempts \in 1 .. MaxTrialAttempts
      BY <1>19, <2>1, OperationsDecode, ZenonT(30) DEF PolicyPowerCut, Commits
    <2>3. \A st \in {prot', durable'} : st \in States /\ Decodes(st)
      BY <2>2, ZenonT(30)
    <2>4. granted' \in 0 .. MaxTrialAttempts /\ runs' \in Nat
      BY <2>2, SequenceAssumption DEF PolicyTypeOK
    <2>5. boot' \in PolicyTransactions /\ request' \in Requests /\ adapter' \in Adapters
      BY <1>1, <1>2, <1>3, <1>19, AdapterType, ZenonT(30) DEF PolicyPowerCut, PolicyStages
    <2> QED
      BY <2>3, <2>4, <2>5, ZenonT(30) DEF PolicyTypeOK
  <1>20. CASE UNCHANGED policyVars
    BY <1>20, ZenonT(30) DEF PolicyTypeOK, policyVars
  <1> QED
    BY <1>4, <1>5, <1>6, <1>7, <1>8, <1>9, <1>10, <1>11, <1>12, <1>13, <1>14, <1>15,
       <1>16, <1>17, <1>18, <1>19, <1>20, ZenonT(30) DEF PolicyNext, RequestStep

\* How a request ends and goes on, field by field.
LEMMA AdapterFields ==
    ASSUME PolicyTypeOK
    PROVE  /\ \A status : Fail(status) =>
                  /\ adapter'.phase = "done" /\ adapter'.status = status
                  /\ adapter'.notified = Notified(adapter)
                  /\ adapter'.failure = adapter.failure
                  /\ adapter'.consumed = adapter.consumed
                  /\ adapter'.opened = adapter.opened
           /\ \A failure : Reject(failure) =>
                  /\ adapter'.phase = "done" /\ adapter'.status = "AUTHORIZATION"
                  /\ adapter'.notified = Notified(adapter)
                  /\ adapter'.failure = IF adapter.failure = "NONE" THEN failure
                                        ELSE adapter.failure
                  /\ adapter'.consumed = adapter.consumed
                  /\ adapter'.opened = adapter.opened
           /\ \A phase : Enter(phase) =>
                  /\ adapter'.phase = phase /\ adapter'.status = adapter.status
                  /\ adapter'.notified = adapter.notified
                  /\ adapter'.failure = adapter.failure
                  /\ adapter'.authority = adapter.authority
                  /\ adapter'.consumed = adapter.consumed
                  /\ adapter'.opened = adapter.opened
  BY ZenonT(60) DEF PolicyTypeOK, Adapters, Fail, Reject, Rejected, Enter

\* The decision rejects the request, or goes on with its authority; it rejects
\* a request on a state that opened for want of authority alone.
LEMMA DecideFields ==
    ASSUME PolicyTypeOK, Decide
    PROVE  /\ adapter'.consumed = adapter.consumed
           /\ \/ /\ adapter'.phase = "done" /\ adapter'.status = "AUTHORIZATION"
                 /\ adapter'.notified = Notified(adapter)
                 /\ \/ adapter'.opened = adapter.opened
                    \/ Authority(prot, request.sequence) = "NONE"
              \/ /\ Authority(prot, request.sequence) # "NONE"
                 /\ adapter'.authority = Authority(prot, request.sequence)
                 /\ adapter'.phase = IF adapter'.authority = "TRIAL" THEN "consume" ELSE "prepare"
                 /\ adapter'.notified = adapter.notified
                 /\ adapter'.failure = adapter.failure
  <1> DEFINE authority == Authority(prot, request.sequence)
             opened == [adapter EXCEPT !.opened = TRUE]
  <1>1. CASE \E failure : Reject(failure)
    BY <1>1, AdapterFields, ZenonT(30)
  <1>2. CASE adapter' = Rejected(opened, "ROLLBACK") /\ authority = "NONE"
    <2>1. Notified(opened) = Notified(adapter)
      BY ZenonT(30) DEF Notified, PolicyTypeOK, Adapters
    <2> QED
      BY <1>2, <2>1, ZenonT(60) DEF Rejected, PolicyTypeOK, Adapters
  <1>3. CASE adapter' = [opened EXCEPT !.authority = authority,
                                       !.phase = IF authority = "TRIAL" THEN "consume" ELSE "prepare"]
             /\ authority # "NONE"
    BY <1>3, ZenonT(60) DEF PolicyTypeOK, Adapters
  <1> QED
    BY <1>1, <1>2, <1>3, ZenonT(30) DEF Decide

\* The attempt of a run is paid before the run, whatever commits fail or are cut.
LEMMA PaidStep == PolicyTypeOK /\ Paid /\ [PolicyNext]_policyVars => Paid'
  <1> SUFFICES ASSUME PolicyTypeOK, Paid, [PolicyNext]_policyVars PROVE Paid'
    BY ZenonT(30)
  <1>t. /\ runs \in Nat /\ granted \in Nat /\ runs <= granted
        /\ prot \in States /\ Decodes(prot) /\ prot.attempts \in Nat /\ durable.attempts \in Nat
        /\ prot.kind = "TRIAL" => runs + prot.attempts <= granted
        /\ durable.kind = "TRIAL" => runs + durable.attempts <= granted
    BY SequenceAssumption DEF PolicyTypeOK, States, Paid, RunsWithinGrant
  <1>1. CASE PrepareTransaction
    BY <1>1, ZenonT(30) DEF PrepareTransaction, Paid, RunsWithinGrant
  <1>2. ASSUME NEW sequence \in 0 .. MaxSequence, PolicyConfirm(sequence) PROVE Paid'
    <2>1. /\ prot' = prot \/ prot'.kind = "CONFIRMED"
          /\ durable' \in {prot, durable, prot'}
      <3>1. \A st \in ConfirmUnbound(prot, sequence) : st.kind = "CONFIRMED"
        BY <1>t, OperationsDecode, SMTT(30)
      <3>2. CommitErrs(ConfirmUnbound(prot, sequence))
        BY <1>2, ZenonT(30) DEF PolicyConfirm
      <3> QED
        BY <3>1, <3>2, CommitCases, ZenonT(30)
    <2> QED
      BY <1>2, <1>t, <2>1 DEF PolicyConfirm, AtRest, Paid, RunsWithinGrant
  <1>3. CASE PolicyFailTrial
    <2>1. /\ prot' = prot \/ prot'.kind = "CONFIRMED"
          /\ durable' \in {prot, durable, prot'}
      BY <1>3, <1>t, CommitCases, OperationsDecode, ZenonT(30) DEF PolicyFailTrial
    <2> QED
      BY <1>3, <1>t, <2>1 DEF PolicyFailTrial, AtRest, Paid, RunsWithinGrant
  <1>4. ASSUME NEW r \in Requests, PolicyExecute(r) PROVE Paid'
    BY <1>4, ZenonT(30) DEF PolicyExecute, NewAdapter, Paid, RunsWithinGrant
  <1>5. CASE Validate
    BY <1>5, AdapterFields, SMTT(30) DEF Validate, Paid, RunsWithinGrant
  <1>6. CASE Authorize
    BY <1>6, AdapterFields DEF Authorize, Paid, RunsWithinGrant
  <1>7. CASE BeginTrialStep
    <2>1. adapter'.phase \in {"decide", "done"}
      BY <1>7, AdapterFields, ZenonT(30) DEF BeginTrialStep
    <2>2. \/ prot' = prot /\ durable' \in {prot, durable}
          \/ /\ prot'.attempts = request.attempts /\ request.attempts \in 1 .. MaxTrialAttempts
             /\ prot'.kind = "TRIAL" /\ prot.kind = "CONFIRMED" /\ durable' \in {prot, prot'}
      <3> DEFINE next == BeginTrial(prot, request.sequence, request.attempts, NoBinding, 0)
      <3>1. Commits(next) \/ CommitErrs(next)
        BY <1>7, ZenonT(30) DEF BeginTrialStep
      <3>2. \A st \in next : /\ st.attempts = request.attempts /\ st.kind = "TRIAL"
                              /\ prot.kind = "CONFIRMED"
                              /\ request.attempts \in 1 .. MaxTrialAttempts
        BY <1>t, OperationsDecode, SMTT(30)
      <3> HIDE DEF next
      <3> QED
        BY <3>1, <3>2, CommitCases, ZenonT(30)
    <2> QED
      BY <1>7, <1>t, <2>1, <2>2, SequenceAssumption, SMTT(30) DEF BeginTrialStep, Paid, RunsWithinGrant
  <1>8. CASE Decide
    <2>1. \/ adapter'.phase = "done"
          \/ adapter'.phase = "consume" /\ adapter'.authority = "TRIAL"
          \/ adapter'.phase = "prepare" /\ adapter'.authority # "TRIAL"
      BY <1>8, DecideFields, ZenonT(30)
    <2> QED
      BY <1>8, <2>1, ZenonT(30) DEF Decide, Paid, RunsWithinGrant
  <1>9. CASE ConsumeAttempt
    <2>1. /\ adapter'.phase \in {"prepare", "done"}
          /\ \/ prot' = prot /\ durable' \in {prot, durable} /\ adapter'.phase = "done"
             \/ /\ prot' \in ConsumeTrialAttempt(prot, request.sequence)
                /\ durable' \in {prot, prot'}
                /\ adapter'.phase = "prepare" => durable' = prot'
      BY <1>9, AdapterFields, ZenonT(30) DEF ConsumeAttempt, Commits, CommitErrs
    <2>2. prot' \in ConsumeTrialAttempt(prot, request.sequence) =>
             /\ prot'.kind = "TRIAL" /\ prot.kind = "TRIAL"
             /\ prot'.attempts = prot.attempts - 1 /\ prot.attempts # 0
      BY <1>t, OperationsDecode, SMTT(30)
    <2> QED
      BY <1>9, <1>t, <2>1, <2>2, SMTT(30) DEF ConsumeAttempt, Paid, RunsWithinGrant
  <1>10. CASE PrepareRun
    <2>1. adapter'.phase \in {"done", "execute"}
      BY <1>10, AdapterFields, ZenonT(30) DEF PrepareRun
    <2> QED
      BY <1>10, <1>t, <2>1 DEF PrepareRun, Paid, RunsWithinGrant
  <1>11. CASE Execute
    <2>1. adapter'.phase \in {"action", "done", "faulted"}
      BY <1>11, AdapterFields, ZenonT(60) DEF Execute, PolicyTypeOK, Adapters
    <2> QED
      BY <1>11, <2>1, ZenonT(30) DEF Execute, Paid, RunsWithinGrant
  <1>12. CASE ExecuteFaulted
    BY <1>12, AdapterFields, ZenonT(30) DEF ExecuteFaulted, Paid, RunsWithinGrant
  <1>13. CASE ValidateAction
    <2>1. adapter'.phase \in {"done", "commit"}
      BY <1>13, AdapterFields, ZenonT(60) DEF ValidateAction, PolicyTypeOK, Adapters
    <2> QED
      BY <1>13, <2>1, ZenonT(30) DEF ValidateAction, Paid, RunsWithinGrant
  <1>14. CASE Commit
    BY <1>14, AdapterFields DEF Commit, Paid, RunsWithinGrant
  <1>15. CASE Quiesce
    <2>1. adapter'.phase = "done"
      BY <1>15, AdapterFields, ZenonT(60) DEF Quiesce, PolicyTypeOK, Adapters
    <2> QED
      BY <1>15, <2>1, ZenonT(30) DEF Quiesce, Paid, RunsWithinGrant
  <1>16. CASE PolicyPowerCut
    <2>1. adapter'.phase = "idle"
      BY <1>16, ZenonT(30) DEF PolicyPowerCut, NewAdapter
    <2>2. /\ durable' = prot'
          /\ \/ /\ granted' = granted /\ runs' = runs
                /\ \/ prot' \in {prot, durable}
                   \/ /\ prot.kind = "TRIAL" /\ prot.attempts # 0
                      /\ prot'.attempts = prot.attempts - 1
             \/ /\ granted' = request.attempts /\ runs' = 0
                /\ prot'.attempts = request.attempts
                /\ request.attempts \in 1 .. MaxTrialAttempts
      <3>1. \A st \in BeginTrial(prot, request.sequence, request.attempts, NoBinding, 0) :
               st.attempts = request.attempts /\ request.attempts \in 1 .. MaxTrialAttempts
        BY <1>t, OperationsDecode, SMTT(30)
      <3>2. \A st \in ConsumeTrialAttempt(prot, request.sequence) :
               /\ prot.kind = "TRIAL" /\ prot.attempts # 0
               /\ st.attempts = prot.attempts - 1
        BY <1>t, OperationsDecode, SMTT(30)
      <3> QED
        BY <1>16, <3>1, <3>2, ZenonT(30) DEF PolicyPowerCut, Commits
    <2> QED
      BY <1>t, <2>1, <2>2, SequenceAssumption, SMTT(30) DEF Paid, RunsWithinGrant
  <1>17. CASE UNCHANGED policyVars
    BY <1>17, ZenonT(30) DEF policyVars, Paid, RunsWithinGrant
  <1> QED
    BY <1>1, <1>2, <1>3, <1>4, <1>5, <1>6, <1>7, <1>8, <1>9, <1>10, <1>11, <1>12, <1>13,
       <1>14, <1>15, <1>16, <1>17, ZenonT(30) DEF PolicyNext, RequestStep

\* Every step leaves the transaction as far as its phase says.
LEMMA ProgressStep == PolicyTypeOK /\ Progress /\ [PolicyNext]_policyVars => Progress'
  <1> SUFFICES ASSUME PolicyTypeOK, Progress, [PolicyNext]_policyVars PROVE Progress'
    BY ZenonT(30)
  <1> USE DEF Progress, OneActionPerTransaction
  <1>t. boot \in PolicyTransactions /\ adapter \in Adapters
    BY ZenonT(30) DEF PolicyTypeOK
  <1>1. CASE PrepareTransaction
    BY <1>1 DEF PrepareTransaction, NewTxn, AtRest
  <1>2. ASSUME NEW sequence \in 0 .. MaxSequence, PolicyConfirm(sequence) PROVE Progress'
    BY <1>2, ZenonT(30) DEF PolicyConfirm
  <1>3. CASE PolicyFailTrial
    BY <1>3, ZenonT(30) DEF PolicyFailTrial
  <1>4. ASSUME NEW r \in Requests, PolicyExecute(r) PROVE Progress'
    BY <1>4, ZenonT(30) DEF PolicyExecute, NewAdapter, AtRest
  <1>5. CASE Validate
    <2>1. /\ adapter.phase = "validate" /\ adapter'.consumed = adapter.consumed
          /\ \/ adapter'.phase = "done" /\ boot' = boot
             \/ /\ adapter'.phase \in {"done", "authorize"} /\ ArgumentsAreValid
                /\ adapter'.phase = "authorize" => boot'.used
                /\ boot'.stage = boot.stage /\ boot'.vmRuns = boot.vmRuns
                /\ boot'.actions = boot.actions
      BY <1>5, <1>t, AdapterFields, ZenonT(30) DEF Validate, PolicyTransactions
    <2> QED
      BY <1>t, <2>1, ZenonT(30) DEF ArgumentsAreValid, PolicyTransactions, Adapters
  <1>6. CASE Authorize
    <2>1. /\ adapter.phase = "authorize" /\ adapter'.consumed = adapter.consumed
          /\ adapter'.phase \in {"done", "decide", "begin"} /\ boot' = boot
      BY <1>6, AdapterFields, ZenonT(30) DEF Authorize
    <2> QED
      BY <1>t, <2>1, SMTT(30) DEF PolicyTransactions, Adapters
  <1>7. CASE BeginTrialStep
    <2>1. /\ adapter.phase = "begin" /\ adapter'.consumed = adapter.consumed
          /\ adapter'.phase \in {"done", "decide"} /\ boot' = boot
      BY <1>7, AdapterFields, ZenonT(60) DEF BeginTrialStep
    <2> QED
      BY <1>t, <2>1, SMTT(30) DEF PolicyTransactions, Adapters
  <1>8. CASE Decide
    <2>1. /\ adapter.phase = "decide" /\ adapter'.consumed = adapter.consumed
          /\ adapter'.phase \in {"done", "consume", "prepare"} /\ boot' = boot
      BY <1>8, DecideFields, ZenonT(30) DEF Decide
    <2> QED
      BY <1>t, <2>1, SMTT(30) DEF PolicyTransactions, Adapters
  <1>9. CASE ConsumeAttempt
    <2>1. /\ adapter.phase = "consume" /\ adapter'.consumed = adapter.consumed
          /\ adapter'.phase \in {"done", "prepare"} /\ boot' = boot
      BY <1>9, AdapterFields, ZenonT(30) DEF ConsumeAttempt
    <2> QED
      BY <1>t, <2>1, SMTT(30) DEF PolicyTransactions, Adapters
  <1>10. CASE PrepareRun
    <2>1. /\ adapter.phase = "prepare" /\ adapter'.consumed = adapter.consumed
          /\ \/ adapter'.phase = "done" /\ boot' = boot
             \/ /\ adapter'.phase = "execute"
                /\ boot' = [boot EXCEPT !.vmRuns = @ + 1]
      BY <1>10, AdapterFields, ZenonT(30) DEF PrepareRun
    <2> QED
      BY <1>t, <2>1 DEF PolicyTransactions, Adapters
  <1>11. CASE Execute
    <2>1. /\ adapter.phase = "execute" /\ adapter'.consumed = adapter.consumed
          /\ adapter'.phase \in {"done", "action", "faulted"} /\ boot' = boot
      BY <1>11, <1>t, AdapterFields, ZenonT(60) DEF Execute, Adapters
    <2> QED
      BY <1>t, <2>1 DEF PolicyTransactions, Adapters
  <1>12. CASE ExecuteFaulted
    <2>1. /\ adapter.phase = "faulted" /\ adapter'.consumed = adapter.consumed
          /\ adapter'.phase = "done" /\ boot' = boot
      BY <1>12, AdapterFields, ZenonT(30) DEF ExecuteFaulted
    <2> QED
      BY <1>t, <2>1, SMTT(30) DEF PolicyTransactions, Adapters
  <1>13. CASE ValidateAction
    <2>1. /\ adapter.phase = "action"
          /\ \/ adapter'.phase = "done" /\ boot' = boot /\ adapter'.consumed = adapter.consumed
             \/ adapter'.phase = "commit" /\ boot' = [boot EXCEPT !.actions = @ + 1]
      BY <1>13, <1>t, AdapterFields, ZenonT(60) DEF ValidateAction, Adapters
    <2> QED
      BY <1>t, <2>1 DEF PolicyTransactions, Adapters
  <1>14. CASE Commit
    <2>1. /\ adapter.phase = "commit"
          /\ \/ adapter'.phase = "quiesce" /\ boot' = [boot EXCEPT !.stage = "COMMIT_ATTEMPT"]
             \/ adapter'.phase = "done" /\ boot' = [boot EXCEPT !.stage = "FAILED"]
      BY <1>14, AdapterFields, ZenonT(30) DEF Commit
    <2> QED
      BY <1>t, <2>1, ZenonT(30) DEF PolicyTransactions, Adapters
  <1>15. CASE Quiesce
    <2>1. /\ adapter.phase = "quiesce" /\ adapter'.phase = "done"
          /\ \/ boot' = [boot EXCEPT !.stage = "QUIESCE_ENVIRONMENT"]
             \/ boot' = [boot EXCEPT !.stage = "FAILED"]
      BY <1>15, <1>t, AdapterFields, ZenonT(60) DEF Quiesce, Adapters
    <2> QED
      BY <1>t, <2>1, ZenonT(30) DEF PolicyTransactions, Adapters
  <1>16. CASE PolicyPowerCut
    BY <1>16, SMTT(30) DEF PolicyPowerCut, NewTxn, NewAdapter
  <1>17. CASE UNCHANGED policyVars
    BY <1>17, ZenonT(30) DEF policyVars
  <1> QED
    BY <1>1, <1>2, <1>3, <1>4, <1>5, <1>6, <1>7, <1>8, <1>9, <1>10, <1>11, <1>12, <1>13,
       <1>14, <1>15, <1>16, <1>17, ZenonT(60) DEF PolicyNext, RequestStep

\* Every step keeps count of the notifications of the current request.
LEMMA QuietStep == PolicyTypeOK /\ Quiet /\ [PolicyNext]_policyVars => Quiet'
  <1> SUFFICES ASSUME PolicyTypeOK, Quiet, [PolicyNext]_policyVars PROVE Quiet'
    BY ZenonT(30)
  <1> USE DEF Quiet, RecoveryOnce
  <1>t. adapter \in Adapters
    BY ZenonT(30) DEF PolicyTypeOK
  <1>f. ASSUME NEW status, Fail(status), status # "OK", request' = request,
               adapter.phase \notin {"idle", "done"}
        PROVE  Quiet'
    <2>1. adapter'.notified = IF request.recovery THEN 1 ELSE 0
      BY <1>f, <1>t, AdapterFields, SMTT(30) DEF Notified, Adapters
    <2> QED
      BY <1>f, <2>1, AdapterFields, ZenonT(30)
  <1>d. ASSUME adapter'.phase = "done", adapter'.status = "AUTHORIZATION",
               adapter'.notified = Notified(adapter), request' = request,
               adapter.phase \notin {"idle", "done", "faulted"}
        PROVE  Quiet'
    <2>1. adapter'.notified = IF request.recovery THEN 1 ELSE 0
      BY <1>d, <1>t, SMTT(30) DEF Notified, Adapters
    <2> QED
      BY <1>d, <2>1, ZenonT(30)
  <1>r. ASSUME NEW failure, Reject(failure), request' = request,
               adapter.phase \notin {"idle", "done", "faulted"}
        PROVE  Quiet'
    BY <1>d, <1>r, AdapterFields, ZenonT(30)
  <1>e. ASSUME NEW phase \in Phases \ {"idle", "validate", "done", "faulted"}, Enter(phase),
               adapter.phase \notin {"idle", "done", "faulted"}, request' = request,
               \/ adapter.phase \in {"validate", "authorize", "begin"}
               \/ phase \notin {"authorize", "begin", "decide"}
        PROVE  Quiet'
    BY <1>e, AdapterFields, ZenonT(30)
  <1>1. CASE PrepareTransaction
    BY <1>1, ZenonT(30) DEF PrepareTransaction
  <1>2. ASSUME NEW sequence \in 0 .. MaxSequence, PolicyConfirm(sequence) PROVE Quiet'
    BY <1>2, ZenonT(30) DEF PolicyConfirm
  <1>3. CASE PolicyFailTrial
    BY <1>3, ZenonT(30) DEF PolicyFailTrial
  <1>4. ASSUME NEW r \in Requests, PolicyExecute(r) PROVE Quiet'
    BY <1>4, ZenonT(30) DEF PolicyExecute, NewAdapter
  <1>5. CASE Validate
    BY <1>5, <1>f, <1>e, ZenonT(30) DEF Validate, Phases
  <1>6. CASE Authorize
    BY <1>6, <1>r, <1>e, ZenonT(30) DEF Authorize, Phases
  <1>7. CASE BeginTrialStep
    BY <1>7, <1>r, <1>e, ZenonT(30) DEF BeginTrialStep, Phases
  <1>8. CASE Decide
    <2>1. CASE /\ adapter'.phase = "done" /\ adapter'.status = "AUTHORIZATION"
               /\ adapter'.notified = Notified(adapter)
      BY <1>8, <2>1, <1>d, ZenonT(30) DEF Decide
    <2>2. CASE /\ adapter'.phase \in {"consume", "prepare"}
               /\ adapter'.notified = adapter.notified /\ adapter'.failure = adapter.failure
      BY <1>8, <2>2, ZenonT(30) DEF Decide
    <2> QED
      BY <1>8, <2>1, <2>2, DecideFields, ZenonT(30)
  <1>9. CASE ConsumeAttempt
    BY <1>9, <1>r, <1>e, ZenonT(30) DEF ConsumeAttempt, Phases
  <1>10. CASE PrepareRun
    BY <1>10, <1>f, <1>e, ZenonT(30) DEF PrepareRun, Phases
  <1>11. CASE Execute
    <2>1. CASE adapter' = [adapter EXCEPT !.phase = "faulted", !.notified = Notified(adapter)]
      BY <1>11, <2>1, <1>t, SMTT(30) DEF Execute, Notified, Adapters
    <2> QED
      BY <1>11, <2>1, <1>f, <1>e, ZenonT(30) DEF Execute, Phases
  <1>12. CASE ExecuteFaulted
    BY <1>12, <1>f, ZenonT(30) DEF ExecuteFaulted
  <1>13. CASE ValidateAction
    <2>1. CASE adapter' = [adapter EXCEPT !.phase = "commit", !.consumed = TRUE]
      BY <1>13, <2>1, <1>t, ZenonT(30) DEF ValidateAction, Adapters
    <2> QED
      BY <1>13, <2>1, <1>f, ZenonT(30) DEF ValidateAction
  <1>14. CASE Commit
    BY <1>14, <1>f, <1>e, ZenonT(30) DEF Commit, Phases
  <1>15. CASE Quiesce
    <2>1. CASE adapter' = [adapter EXCEPT !.phase = "done", !.status = "OK"]
      BY <1>15, <2>1, <1>t, ZenonT(30) DEF Quiesce, Adapters
    <2> QED
      BY <1>15, <2>1, <1>f, ZenonT(30) DEF Quiesce
  <1>16. CASE PolicyPowerCut
    BY <1>16, ZenonT(30) DEF PolicyPowerCut, NewAdapter
  <1>17. CASE UNCHANGED policyVars
    BY <1>17, ZenonT(30) DEF policyVars
  <1> QED
    BY <1>1, <1>2, <1>3, <1>4, <1>5, <1>6, <1>7, <1>8, <1>9, <1>10, <1>11, <1>12, <1>13,
       <1>14, <1>15, <1>16, <1>17, ZenonT(60) DEF PolicyNext, RequestStep

\* What a step may do to the floors.
FloorStep ==
    /\ durable'.floor # durable.floor => /\ \E st \in {prot, durable} : st.kind = "TRIAL"
                                         /\ durable'.floor = durable.floor + 1
    /\ prot'.floor > prot.floor => /\ AtRest /\ prot.kind = "TRIAL"
                                   /\ prot'.floor = prot.floor + 1
    /\ prot'.floor < prot.floor => prot' = durable

\* A transition that keeps the floor, or confirms between requests, does so
\* whatever it returns.
LEMMA CommitMovesFloor ==
    ASSUME PolicyTypeOK, Behind, NEW states, Commits(states) \/ CommitErrs(states),
           \A st \in states : \/ st.floor = prot.floor
                              \/ /\ AtRest /\ prot.kind = "TRIAL"
                                 /\ st.kind = "CONFIRMED" /\ st.floor = prot.floor + 1
    PROVE  Behind' /\ FloorStep
  <1>1. prot.floor \in Nat /\ durable.floor \in Nat
    BY SequenceAssumption DEF PolicyTypeOK, States
  <1>2. prot.kind \in {"CONFIRMED", "TRIAL"} /\ durable.kind \in {"CONFIRMED", "TRIAL"}
    BY ZenonT(30) DEF PolicyTypeOK, States
  <1>3. CASE prot' = prot /\ durable' \in {prot, durable}
    BY <1>1, <1>3, SMTT(30) DEF Behind, FloorStep
  <1>4. CASE prot' \in states /\ durable' \in {prot, prot'}
    <2>1. \/ prot'.floor = prot.floor
          \/ /\ AtRest /\ prot.kind = "TRIAL"
             /\ prot'.kind = "CONFIRMED" /\ prot'.floor = prot.floor + 1
      BY <1>4, ZenonT(30)
    <2> QED
      BY <1>1, <1>4, <2>1, SMTT(30) DEF Behind, FloorStep
  <1> QED
    BY <1>3, <1>4, CommitCases, ZenonT(30)

\* Every step moves the floors as it may.
LEMMA FloorStepHolds ==
    PolicyTypeOK /\ Behind /\ [PolicyNext]_policyVars => Behind' /\ [FloorStep]_policyVars
  <1> SUFFICES ASSUME PolicyTypeOK, Behind, [PolicyNext]_policyVars
               PROVE  Behind' /\ [FloorStep]_policyVars
    BY ZenonT(30)
  <1>t. /\ prot \in States /\ Decodes(prot) /\ prot.floor \in Nat /\ durable.floor \in Nat
    BY SequenceAssumption DEF PolicyTypeOK, States
  <1>k. ASSUME prot' = prot, durable' = durable PROVE Behind' /\ FloorStep
    BY <1>k, <1>t DEF Behind, FloorStep
  <1>1. ASSUME NEW sequence \in 0 .. MaxSequence, PolicyConfirm(sequence)
        PROVE  Behind' /\ FloorStep
    <2>1. \A st \in ConfirmUnbound(prot, sequence) :
             prot.kind = "TRIAL" /\ st.kind = "CONFIRMED" /\ st.floor = prot.floor + 1
      BY <1>t, OperationsDecode, SMTT(30)
    <2>2. AtRest /\ CommitErrs(ConfirmUnbound(prot, sequence))
      BY <1>1, ZenonT(30) DEF PolicyConfirm
    <2> QED
      BY <2>1, <2>2, CommitMovesFloor, ZenonT(30)
  <1>2. CASE PolicyFailTrial
    <2>1. \A st \in FailTrial(prot) : st.floor = prot.floor
      BY <1>t, OperationsDecode, SMTT(30)
    <2>2. CommitErrs(FailTrial(prot))
      BY <1>2, ZenonT(30) DEF PolicyFailTrial
    <2> QED
      BY <2>1, <2>2, CommitMovesFloor, ZenonT(30)
  <1>3. CASE BeginTrialStep
    <2> DEFINE next == BeginTrial(prot, request.sequence, request.attempts, NoBinding, 0)
    <2>1. Commits(next) \/ CommitErrs(next)
      BY <1>3, ZenonT(30) DEF BeginTrialStep
    <2>2. \A st \in next : st.floor = prot.floor
      BY <1>t, OperationsDecode, SMTT(30)
    <2> HIDE DEF next
    <2> QED
      BY <2>1, <2>2, CommitMovesFloor, ZenonT(30)
  <1>4. CASE ConsumeAttempt
    <2> DEFINE next == ConsumeTrialAttempt(prot, request.sequence)
    <2>1. Commits(next) \/ CommitErrs(next)
      BY <1>4, ZenonT(30) DEF ConsumeAttempt
    <2>2. \A st \in next : st.floor = prot.floor
      BY <1>t, OperationsDecode, SMTT(30)
    <2> HIDE DEF next
    <2> QED
      BY <2>1, <2>2, CommitMovesFloor, ZenonT(30)
  <1>5. CASE PolicyPowerCut
    <2>1. /\ durable' = prot'
          /\ prot' \in {prot, durable} \/ prot'.floor = prot.floor
      <3>1. /\ \A st \in BeginTrial(prot, request.sequence, request.attempts, NoBinding, 0) : st.floor = prot.floor
            /\ \A st \in ConsumeTrialAttempt(prot, request.sequence) : st.floor = prot.floor
        BY <1>t, OperationsDecode, SMTT(30)
      <3> QED
        BY <1>5, <3>1, ZenonT(30) DEF PolicyPowerCut, Commits
    <2> QED
      BY <1>t, <2>1, SMTT(30) DEF Behind, FloorStep
  <1>6. CASE \/ PrepareTransaction \/ \E r \in Requests : PolicyExecute(r)
             \/ Validate \/ Authorize \/ Decide \/ PrepareRun \/ Execute
             \/ ExecuteFaulted \/ ValidateAction \/ Commit \/ Quiesce
    <2>1. prot' = prot /\ durable' = durable
      BY <1>6, ZenonT(30) DEF PrepareTransaction, PolicyExecute, Validate, Authorize, Decide,
                  PrepareRun, Execute, ExecuteFaulted, ValidateAction, Commit, Quiesce
    <2> QED
      BY <1>k, <2>1, ZenonT(30)
  <1>7. CASE UNCHANGED policyVars
    BY <1>7, ZenonT(30) DEF policyVars, Behind
  <1> QED
    BY <1>1, <1>2, <1>3, <1>4, <1>5, <1>6, <1>7, ZenonT(30) DEF PolicyNext, RequestStep

-----------------------------------------------------------------------------

\* The inductive invariant of the execution.
EInv == PolicyTypeOK /\ Paid /\ Behind /\ Progress /\ Quiet

\* A provisioned domain before the first request satisfies it.
LEMMA InitHolds == PolicyInit => EInv
  <1> SUFFICES ASSUME PolicyInit PROVE EInv
    BY ZenonT(30)
  <1> USE SequenceAssumption DEF PolicyInit, NewTxn, NewAdapter
  <1>1. prot \in States /\ Decodes(prot) /\ prot.kind = "CONFIRMED"
    BY SMTT(30) DEF Confirmed, States, Decodes
  <1>2. boot \in PolicyTransactions /\ adapter \in Adapters
    BY ZenonT(30) DEF PolicyTransactions, Adapters, PolicyStages, Phases, PolicyStatuses, Failures, Authorities
  <1>3. request \in Requests
    BY SMTT(30) DEF NoRequest, Requests, Activations
  <1>4. PolicyTypeOK
    BY <1>1, <1>2, <1>3, SMTT(30) DEF PolicyTypeOK
  <1>8. Behind
    BY ZenonT(30) DEF Behind
  <1>5. Paid
    BY <1>1, SMTT(30) DEF Paid, RunsWithinGrant
  <1>6. Progress
    BY SMTT(30) DEF Progress, OneActionPerTransaction
  <1>7. Quiet
    BY ZenonT(30) DEF Quiet, RecoveryOnce
  <1> QED
    BY <1>4, <1>5, <1>6, <1>7, <1>8, ZenonT(30) DEF EInv

\* It holds in every state.
LEMMA ExecutionInvariant == PolicySpec => []EInv
  <1>1. EInv /\ [PolicyNext]_policyVars => EInv'
    BY TypesStep, PaidStep, FloorStepHolds, ProgressStep, QuietStep, ZenonT(30) DEF EInv
  <1> QED
    BY InitHolds, <1>1, PTL DEF PolicySpec

\* Every state of the rollback domain that a request, a confirmation or a power
\* cut leaves decodes, and the counters stay in their ranges (record_decode).
THEOREM ExecutionTypes == PolicySpec => []PolicyTypeOK
  <1>1. EInv => PolicyTypeOK
    BY ZenonT(30) DEF EInv
  <1> QED
    BY <1>1, ExecutionInvariant, PTL

\* A trial policy runs at most as often as its trial was granted attempts, for
\* every grant, by the visible and by the durable state, and whatever commits
\* fail, take effect unreported or are lost in a power cut (authorize_signed).
THEOREM RunsArePaid == PolicySpec => []RunsWithinGrant
  <1>1. EInv => RunsWithinGrant
    BY ZenonT(30) DEF EInv, Paid
  <1> QED
    BY <1>1, ExecutionInvariant, PTL

\* A transaction is run for once and takes the one action of that run
\* (core_context_validate, commit_attempt).
THEOREM OneAction == PolicySpec => []OneActionPerTransaction
  <1>1. EInv => OneActionPerTransaction
    BY ZenonT(30) DEF EInv, Progress
  <1> QED
    BY <1>1, ExecutionInvariant, PTL

\* A request that fails notifies factory recovery exactly once if it came with a
\* recovery callback and a receipt, and one that succeeds never does
\* (notify_recovery).
THEOREM NotifiedAtMostOnce == PolicySpec => []RecoveryOnce
  <1>1. EInv => RecoveryOnce
    BY ZenonT(30) DEF EInv, Quiet
  <1> QED
    BY <1>1, ExecutionInvariant, PTL

\* The policy of the confirmed floor is never refused as a rollback on a state
\* that opens (protected_state_authorize).
THEOREM FloorIsServed == PolicySpec => FloorIsNeverRefused
  <1> DEFINE Step == (/\ adapter.failure = "NONE" /\ adapter'.failure = "ROLLBACK" /\ adapter'.opened
                      /\ request.activation = "EXISTING" /\ request.attempts = 0)
                         => request.sequence # prot.floor
  <1>1. EInv /\ [PolicyNext]_policyVars => [Step]_policyVars
    <2> SUFFICES ASSUME PolicyTypeOK, Quiet, PolicyNext, adapter.failure = "NONE",
                        adapter'.failure = "ROLLBACK", adapter'.opened,
                        request.activation = "EXISTING", request.attempts = 0
                 PROVE  request.sequence # prot.floor
      BY ZenonT(30) DEF EInv
    <2>1. CASE Decide
      <3>1. ~adapter.opened
        BY <2>1, ZenonT(30) DEF Decide, Quiet
      <3>2. Authority(prot, request.sequence) = "NONE"
        BY <2>1, <3>1, DecideFields, ZenonT(30)
      <3> QED
        BY <3>2, ZenonT(30) DEF Authority
    <2>2. CASE Authorize
      <3>1. \A failure : Reject(failure) => adapter'.failure = failure
        BY AdapterFields, ZenonT(30)
      <3>2. \A phase : Enter(phase) => adapter'.failure = "NONE"
        BY AdapterFields, ZenonT(30)
      <3> QED
        BY <2>2, <3>1, <3>2, ZenonT(30) DEF Authorize, ActivationIsValid, StartsTrial
    <2>3. CASE BeginTrialStep \/ ConsumeAttempt
      <3>1. Reject("STATE_INVALID") \/ Enter("decide") \/ Enter("prepare")
        BY <2>3, ZenonT(30) DEF BeginTrialStep, ConsumeAttempt
      <3>2. \A failure : Reject(failure) => adapter'.failure = failure
        BY AdapterFields, ZenonT(30)
      <3>3. \A phase : Enter(phase) => adapter'.failure = "NONE"
        BY AdapterFields, ZenonT(30)
      <3> QED
        BY <3>1, <3>2, <3>3, ZenonT(30)
    <2>4. CASE Validate \/ PrepareRun \/ ExecuteFaulted \/ Commit
      BY <2>4, AdapterFields, ZenonT(30) DEF Validate, PrepareRun, ExecuteFaulted, Commit
    <2>5. CASE Execute \/ ValidateAction \/ Quiesce
      BY <2>5, AdapterFields, ZenonT(60) DEF Execute, ValidateAction, Quiesce, PolicyTypeOK, Adapters
    <2>6. CASE PolicyPowerCut \/ \E r \in Requests : PolicyExecute(r)
      BY <2>6, SMTT(30) DEF PolicyPowerCut, PolicyExecute, NewAdapter
    <2>7. CASE PrepareTransaction \/ PolicyFailTrial
               \/ \E sequence \in 0 .. MaxSequence : PolicyConfirm(sequence)
      BY <2>7, ZenonT(30) DEF PrepareTransaction, PolicyFailTrial, PolicyConfirm
    <2> QED
      BY <2>1, <2>2, <2>3, <2>4, <2>5, <2>6, <2>7, ZenonT(30) DEF PolicyNext, RequestStep
  <1> QED
    BY <1>1, ExecutionInvariant, PTL DEF PolicySpec, FloorIsNeverRefused

\* The durable floor never falls and moves by one, to a successor that was on
\* trial; the floor that requests see moves up between requests only and falls
\* only to the durable one (policy_confirm).
THEOREM FloorMovesForward == PolicySpec => FloorMovesByConfirm
  <1>1. EInv /\ [PolicyNext]_policyVars => [FloorStep]_policyVars
    BY FloorStepHolds, ZenonT(30) DEF EInv
  <1>2. [FloorStep]_policyVars =>
           [/\ durable'.floor # durable.floor => /\ \E st \in {prot, durable} : st.kind = "TRIAL"
                                                 /\ durable'.floor = durable.floor + 1
            /\ prot'.floor > prot.floor => /\ AtRest /\ prot.kind = "TRIAL"
                                           /\ prot'.floor = prot.floor + 1
            /\ prot'.floor < prot.floor => prot' = durable]_policyVars
    BY ZenonT(30) DEF FloorStep
  <1> QED
    BY <1>1, <1>2, ExecutionInvariant, PTL DEF PolicySpec, FloorMovesByConfirm

=============================================================================
