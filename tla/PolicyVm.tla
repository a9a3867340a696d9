------------------------------ MODULE PolicyVm ------------------------------
(***************************************************************************)
(* One execution of a policy by the Ribos VM: the dispatch of helper calls *)
(* (language/ribos/vm/src/runtime/helpers.c) over the generation handles,  *)
(* and the terminal outcome of the run (terminal.c).                       *)
(*                                                                         *)
(* The bytecode is any sequence of helper calls with arguments of the      *)
(* declared types that ends in a return or a fault: the runtime checks the *)
(* terminal rules again instead of relying on the verifier, so they are    *)
(* not assumed here.  A helper call is one step per handle operation, in   *)
(* the order of dispatch_internal; the callback of the embedder is one     *)
(* step that makes any choice its accessors allow: it may return an object *)
(* that a handle already names, one it just marked as transferred, or raw  *)
(* bytes for a COPY handle.  The VM cannot refuse that; reused records the *)
(* objects it happened to, and what the VM promises is stated of the rest. *)
(***************************************************************************)
EXTENDS HandleTable, Sequences

CONSTANTS
    Helpers,      \* stable ids of the helper contract
    NoHelper,     \* RIBOS_VM_INVALID_ID
    Contract,     \* what the contract says of each of them
    MaxCalls,     \* helper calls that the limits of the run allow
    Payloads,     \* contents of a boot action
    ZeroPayload,  \* the output region after output_zero
    ErrorPayload  \* the payload of a policy error

HelperContracts ==
    [params : Seq(Types),     \* types of the handle arguments
     consumes : Nat,          \* transition_parameter, 0 for none
     result : Types \cup {NoType},
     fallible : BOOLEAN,      \* the result is a Result with an error type
     effect : {"NONE", "JOURNALED", "TERMINAL"}]

ASSUME ContractAssumption ==
    /\ Contract \in [Helpers -> HelperContracts]
    /\ \A h \in Helpers :
          /\ Contract[h].consumes \in 0 .. Len(Contract[h].params)
          /\ Contract[h].effect = "TERMINAL" =>
                Contract[h].result = NoType /\ ~Contract[h].fallible
ASSUME PolicyAssumption ==
    /\ NoHelper \notin Helpers
    /\ MaxCalls \in Nat
    /\ {ZeroPayload, ErrorPayload} \cap Payloads = {}

\* prepared_expected_transition
Transition(h) ==
    LET c == Contract[h]
    IN  CASE c.effect = "TERMINAL" /\ c.consumes # 0 -> "TERMINAL_CONSUME"
          [] c.effect = "TERMINAL" /\ c.consumes = 0 -> "NONE"
          [] c.effect # "TERMINAL" /\ c.consumes # 0 ->
                IF c.result = NoType THEN "CONSUME" ELSE "REPLACE"
          [] OTHER -> IF c.result \in Types \ CopyTypes THEN "CREATE" ELSE "NONE"

VARIABLES
    vm,        \* the interpreter: "running", "faulted", or "closed" by an outcome
    slots,     \* tokens in the slots of the program, with their static types
    calls,     \* consumed helper calls
    phase,     \* how far dispatch_internal is, "idle" between calls
    call,      \* RibosVmHelperCall
    terminal,  \* RibosVmTerminalSnapshot
    output,    \* the bounded output region
    drops,     \* history: how often an object was released to its drop callback
    given,     \* history: objects the callbacks ever passed to the VM
    reused,    \* history: objects they passed although they had given them away
    transferred, \* history: objects marked as transferred to the outside
    reported,  \* history: the worst journal state any callback reported
    recoveries \* history: calls of factory_recovery

callVars == <<vm, slots, calls, phase, call>>
outcomeVars == <<terminal, output, recoveries>>
objectVars == <<drops, given, reused, transferred, reported>>
vars == <<handleVars, callVars, outcomeVars, objectVars>>

Tokens == [index : Indices, generation : 1 .. MaxGeneration, type : Types]
Phases == {"idle", "prepare", "callback", "close", "release"}
Statuses == {"OK", "POLICY_ERROR", "CONTRACT_FAULT"}
ResultKinds == {"NONE", "VALUE", "HANDLE", "ERROR"}
Outcomes == {"ACTION_SEALED", "POLICY_ERROR", "VM_FAULT", "ACTION_CONSUMED"}

\* RIBOS_VM_JOURNAL_RECEIPT_*, in their numeric order
NoReceipt == 0
Committed == 1
Uncertain == 3

NoCall ==
    [helper |-> NoHelper, args |-> <<>>, next |-> 1, fault |-> FALSE,
     status |-> "CONTRACT_FAULT", result |-> "NONE", pending |-> NoObject,
     transferred |-> FALSE, journal |-> NoReceipt, payload |-> ZeroPayload]

Helper == Contract[call.helper]

Init ==
    /\ HandleInit
    /\ vm = "running" /\ slots = {} /\ calls = 0
    /\ phase = "idle" /\ call = NoCall
    /\ terminal = [state |-> "EXECUTING", journal |-> NoReceipt]
    /\ output = ZeroPayload
    /\ recoveries = 0
    /\ drops = [o \in Objects |-> 0]
    /\ given = {} /\ reused = {} /\ transferred = {} /\ reported = NoReceipt

\* The objects that an operation releases; the drop callback runs where the
\* embedder gave one.
Dropped(objects) == [o \in Objects |-> IF o \in objects THEN drops[o] + 1 ELSE drops[o]]

-----------------------------------------------------------------------------
\* A helper call

\* The call passes the checks before the callback and consumes its budget.
Dispatch(h, args) ==
    /\ vm = "running" /\ phase = "idle"
    /\ calls < MaxCalls
    /\ calls' = calls + 1
    /\ phase' = "prepare"
    /\ call' = [NoCall EXCEPT !.helper = h, !.args = args]
    /\ UNCHANGED <<handleVars, vm, slots, outcomeVars, objectVars>>

\* The call is refused before the callback (capability, mode, byte limits,
\* clock, deadline, call budget), or any other instruction faults.
Fault ==
    /\ vm = "running" /\ phase = "idle"
    /\ vm' = "faulted"
    /\ UNCHANGED <<handleVars, slots, calls, phase, call, outcomeVars, objectVars>>

Argument == call.args[call.next]
Consumes == call.next = Helper.consumes

\* Mutant of PrepareConsume: the slot keeps the token.
PrepareConsumeKeepsSlot ==
    /\ phase = "prepare" /\ call.next <= Len(call.args) /\ Consumes
    /\ ConsumeBegin(Argument.index, Argument.generation, Argument.type)
    /\ call' = [call EXCEPT !.next = @ + 1]
    /\ UNCHANGED <<vm, slots, calls, phase, outcomeVars, objectVars>>

\* prepare_handles: the argument of the transition is consumed and its slot is moved
PrepareConsume ==
    /\ phase = "prepare" /\ call.next <= Len(call.args) /\ Consumes
    /\ ConsumeBegin(Argument.index, Argument.generation, Argument.type)
    /\ slots' = slots \ {Argument}
    /\ call' = [call EXCEPT !.next = @ + 1]
    /\ UNCHANGED <<vm, calls, phase, outcomeVars, objectVars>>

\* prepare_handles: every other handle argument is borrowed
PrepareBorrow ==
    /\ phase = "prepare" /\ call.next <= Len(call.args) /\ ~Consumes
    /\ BorrowBegin(Argument.index, Argument.generation, Argument.type)
    /\ call' = [call EXCEPT !.next = @ + 1]
    /\ UNCHANGED <<vm, slots, calls, phase, outcomeVars, objectVars>>

\* prepare_handles fails; the arguments before this one are borrowed or consumed
PrepareFails ==
    /\ phase = "prepare" /\ call.next <= Len(call.args)
    /\ \/ ~Accepts(Argument.index, Argument.generation, Argument.type)
       \/ /\ Consumes
          /\ \/ Argument.type \in CopyTypes
             \/ ~CanAdvance(Argument.generation)
    /\ call' = [call EXCEPT !.fault = TRUE]
    /\ phase' = "close"
    /\ UNCHANGED <<handleVars, vm, slots, calls, outcomeVars, objectVars>>

Invoke ==
    /\ phase = "prepare" /\ call.next = Len(call.args) + 1
    /\ phase' = "callback"
    /\ UNCHANGED <<handleVars, vm, slots, calls, call, outcomeVars, objectVars>>

\* The results that set_success_value, set_success_handle and set_policy_error
\* let the callback choose.
ResultsAllowed ==
    {"NONE"}
      \cup {r \in {"VALUE"} : Transition(call.helper) \notin {"CREATE", "REPLACE"}}
      \cup {r \in {"HANDLE"} : Helper.result # NoType}
      \cup {r \in {"ERROR"} : Helper.fallible}

\* set_success_handle takes any object that is not null.
ObjectsAllowed(result) == IF result = "HANDLE" THEN Objects ELSE {NoObject}

\* set_success_value takes any bytes for a COPY handle.  Bytes that are no token
\* are refused like a token that nothing has.
BytesAllowed(result) ==
    IF result = "VALUE" /\ Helper.result # NoType
    THEN {{t} : t \in {t \in Tokens : t.type = Helper.result}}
    ELSE {{}}

\* Of the objects that were passed before, a callback gives away again only the
\* one it consumed, and that only in its place and while it is not transferred.
Reuses(object, marked) ==
    /\ object \in given
    /\ \/ marked
       \/ Transition(call.helper) # "REPLACE"
       \/ \A l \in leases : l.object # object

\* The journal states, and the payloads, that the effect of the helper allows.
JournalsAllowed == IF Helper.effect = "JOURNALED" THEN NoReceipt .. Uncertain ELSE {NoReceipt}
PayloadsAllowed(result) ==
    IF result = "VALUE" /\ Helper.effect = "TERMINAL" THEN Payloads ELSE {ZeroPayload}

\* What the callback leaves in the call, with what the clock and the budgets
\* say after it returned.
Answer(status, result, object, journal, payload, marked, overrun) ==
    /\ marked => leases # {}
    /\ call' = [call EXCEPT !.status = status, !.result = result,
                            !.pending = object, !.journal = journal,
                            !.payload = payload, !.transferred = marked,
                            !.fault = overrun]
    /\ given' = given \cup ({object} \ {NoObject})
    /\ reused' = reused \cup {o \in {object} : Reuses(o, marked)}
    /\ transferred' = transferred \cup {l.object : l \in {l \in leases : marked}}
    /\ reported' = IF journal > reported THEN journal ELSE reported

\* binding->invoke
Callback ==
    /\ phase = "callback"
    /\ \E status \in Statuses, result \in ResultsAllowed, journal \in JournalsAllowed,
          marked \in BOOLEAN, overrun \in BOOLEAN :
       \E object \in ObjectsAllowed(result), payload \in PayloadsAllowed(result) :
          Answer(status, result, object, journal, payload, marked, overrun)
    /\ \E bytes \in BytesAllowed(call'.result) : slots' = slots \cup bytes
    /\ phase' = "close"
    /\ UNCHANGED <<handleVars, vm, calls, outcomeVars, drops>>

\* close_borrows
CloseBorrow ==
    /\ phase = "close"
    /\ \E b \in borrows : BorrowEnd(b)
    /\ UNCHANGED <<callVars, outcomeVars, objectVars>>

\* The receipt that the effect of the helper requires is missing or contradicts
\* the status.
ReceiptIsWrong ==
    /\ Helper.effect = "JOURNALED"
    /\ \/ call.journal = NoReceipt
       \/ call.status = "OK" /\ call.journal # Committed

CallFaults == call.fault \/ ReceiptIsWrong

\* commit_result: the status of the callback and the result it set disagree
Mismatch ==
    /\ ~CallFaults
    /\ \/ call.status = "POLICY_ERROR" /\ call.result # "ERROR"
       \/ call.status = "OK" /\ call.result \notin {"VALUE", "HANDLE"}

\* The call ends without a handle, so a consumed argument is finished.
FinishesConsume ==
    \/ CallFaults
    \/ /\ ~Mismatch
       /\ ~(call.status = "OK" /\ call.result = "HANDLE")

Closed == phase = "close" /\ borrows = {}

\* finish_consume: drop or transfer; a drop that fails is an embedder fault
FinishConsume ==
    /\ Closed /\ FinishesConsume
    /\ \E l \in leases, dropFails \in BOOLEAN :
          /\ ConsumeFinish(l)
          /\ drops' = Dropped(IF call.transferred THEN {} ELSE {l.object})
          /\ dropFails => ~call.transferred
          /\ call' = [call EXCEPT !.fault = CallFaults \/ dropFails]
    /\ phase' = "release"
    /\ UNCHANGED <<vm, slots, calls, outcomeVars, given, reused, transferred, reported>>

\* finish_consume without a lease, and commit_result when status and result
\* disagree: a lease is then left to the fault cleanup
FinishNothing ==
    /\ Closed
    /\ Mismatch \/ (FinishesConsume /\ leases = {})
    /\ call' = [call EXCEPT !.fault = CallFaults \/ Mismatch]
    /\ phase' = "release"
    /\ UNCHANGED <<handleVars, vm, slots, calls, outcomeVars, objectVars>>

Returns == Closed /\ ~CallFaults /\ call.status = "OK" /\ call.result = "HANDLE"

\* The token of the new handle, written to the result slot.
NewToken == {[index |-> g.index, generation |-> g.generation, type |-> g.type] :
                g \in issued' \ issued}

\* commit_result of REPLACE
CommitReplace ==
    /\ Returns /\ Transition(call.helper) = "REPLACE"
    /\ \E l \in leases : ConsumeReplace(l, Helper.result, call.pending)
    /\ slots' = slots \cup NewToken
    /\ call' = [call EXCEPT !.pending = NoObject]
    /\ phase' = "release"
    /\ UNCHANGED <<vm, calls, outcomeVars, objectVars>>

\* Mutant of CommitCreate: the pending handle is not cleared.
CommitCreateKeepsPending ==
    /\ Returns /\ Transition(call.helper) # "REPLACE"
    /\ Create(Helper.result, call.pending)
    /\ slots' = slots \cup NewToken
    /\ phase' = "release"
    /\ UNCHANGED <<vm, calls, call, outcomeVars, objectVars>>

\* commit_result of CREATE, or of a COPY handle
CommitCreate ==
    /\ Returns /\ Transition(call.helper) # "REPLACE"
    /\ Create(Helper.result, call.pending)
    /\ slots' = slots \cup NewToken
    /\ call' = [call EXCEPT !.pending = NoObject]
    /\ phase' = "release"
    /\ UNCHANGED <<vm, calls, outcomeVars, objectVars>>

\* consume_replace refuses the type, or create finds no free record
CommitFails ==
    /\ Returns
    /\ IF Transition(call.helper) = "REPLACE"
       THEN \E l \in leases : Helper.result \in CopyTypes \cup {l.type}
       ELSE \A i \in Indices : ~IsFree(i)
    /\ call' = [call EXCEPT !.fault = TRUE]
    /\ phase' = "release"
    /\ UNCHANGED <<handleVars, vm, slots, calls, outcomeVars, objectVars>>

\* What record_action asks of the receipt of a TERMINAL helper.
ActionIsRecorded ==
    /\ terminal.state = "EXECUTING"
    /\ call.status = "OK"
    /\ call.result = "VALUE"

\* Mutant of WorstReceipt: the last receipt counts.
WorstReceiptLast(old, new) == new

\* record_journal keeps the worst state
WorstReceipt(old, new) == IF new > old THEN new ELSE old

\* release_pending_handle, the receipt of the call and record_helper
Release ==
    /\ phase = "release"
    /\ drops' = Dropped({call.pending})
    /\ LET records == ~call.fault /\ Helper.effect # "NONE"
           stored == IF Helper.effect = "TERMINAL" THEN ActionIsRecorded
                                                   ELSE terminal.state = "EXECUTING"
       IN  /\ vm' = IF \/ call.fault
                       \/ call.status = "CONTRACT_FAULT"
                       \/ records /\ ~stored
                    THEN "faulted" ELSE "running"
           /\ IF records /\ stored /\ Helper.effect = "TERMINAL"
              THEN /\ terminal' = [terminal EXCEPT !.state = "ACTION_PENDING"]
                   /\ output' = call.payload
              ELSE /\ terminal' = IF records /\ stored
                                  THEN [terminal EXCEPT !.journal =
                                            WorstReceipt(@, call.journal)]
                                  ELSE terminal
                   /\ UNCHANGED output
    /\ phase' = "idle"
    /\ call' = NoCall
    /\ UNCHANGED <<handleVars, slots, calls, recoveries, given, reused, transferred, reported>>

-----------------------------------------------------------------------------
\* The end of the run

\* finalize_return of Result.Ok, with seal_return_fault when it is refused
ReturnOk(payload) ==
    /\ vm = "running" /\ phase = "idle"
    /\ IF terminal.state = "ACTION_PENDING" /\ payload = output
       THEN /\ vm' = "closed"
            /\ terminal' = [terminal EXCEPT !.state = "ACTION_SEALED"]
       ELSE /\ vm' = "faulted"
            /\ UNCHANGED terminal
    /\ UNCHANGED <<handleVars, slots, calls, phase, call, output, recoveries, objectVars>>

\* finalize_return of Result.Err
ReturnErr ==
    /\ vm = "running" /\ phase = "idle"
    /\ IF terminal.state = "EXECUTING"
       THEN /\ vm' = "closed"
            /\ terminal' = [terminal EXCEPT !.state = "POLICY_ERROR"]
            /\ output' = ErrorPayload
       ELSE /\ vm' = "faulted"
            /\ UNCHANGED <<terminal, output>>
    /\ UNCHANGED <<handleVars, slots, calls, phase, call, recoveries, objectVars>>

\* What the cleanup releases; only a reused object is in two records.
Droppable == {host[i].object : i \in {i \in Indices : table[i].lifecycle \in Live}}

\* Mutant of CloseFault: recovery is notified and the output is left.
CloseFaultKeepsOutput ==
    /\ vm = "faulted"
    /\ FaultCleanup
    /\ drops' = Dropped(Droppable)
    /\ terminal' = [terminal EXCEPT !.state = "VM_FAULT"]
    /\ recoveries' = recoveries + 1
    /\ vm' = "closed"
    /\ UNCHANGED <<slots, calls, phase, call, output, given, reused, transferred, reported>>

\* Mutant of CloseFault: the records are revoked at their own generation.
CloseFaultSameGeneration ==
    /\ vm = "faulted"
    /\ table' = [i \in Indices |->
                    IF table[i].lifecycle \in Live
                    THEN Record(table[i].generation, "REVOKED", NoType) ELSE table[i]]
    /\ host' = [i \in Indices |-> Clear]
    /\ borrows' = {} /\ leases' = {} /\ UNCHANGED issued
    /\ drops' = Dropped(Droppable)
    /\ terminal' = [terminal EXCEPT !.state = "VM_FAULT"]
    /\ output' = ZeroPayload
    /\ recoveries' = recoveries + 1
    /\ vm' = "closed"
    /\ UNCHANGED <<slots, calls, phase, call, given, reused, transferred, reported>>

\* close_fault
CloseFault ==
    /\ vm = "faulted"
    /\ FaultCleanup
    /\ drops' = Dropped(Droppable)
    /\ terminal' = [terminal EXCEPT !.state = "VM_FAULT"]
    /\ output' = ZeroPayload
    /\ recoveries' = recoveries + 1
    /\ vm' = "closed"
    /\ UNCHANGED <<slots, calls, phase, call, given, reused, transferred, reported>>

\* ribos_vm_boot_action_consume_v1 with the sealed action
ConsumeAction ==
    /\ vm = "closed" /\ terminal.state = "ACTION_SEALED"
    /\ terminal' = [terminal EXCEPT !.state = "ACTION_CONSUMED"]
    /\ output' = ZeroPayload
    /\ UNCHANGED <<handleVars, callVars, recoveries, objectVars>>

Arguments(h) ==
    {args \in [1 .. Len(Contract[h].params) -> slots] :
        \A n \in DOMAIN args : args[n].type = Contract[h].params[n]}

Run ==
    \/ \E h \in Helpers : \E args \in Arguments(h) : Dispatch(h, args)
    \/ Fault
    \/ PrepareConsume
    \/ PrepareBorrow
    \/ PrepareFails
    \/ Invoke
    \/ Callback
    \/ CloseBorrow
    \/ FinishConsume
    \/ FinishNothing
    \/ CommitReplace
    \/ CommitCreate
    \/ CommitFails
    \/ Release
    \/ \E payload \in Payloads : ReturnOk(payload)
    \/ ReturnErr
    \/ CloseFault

Next == Run \/ ConsumeAction

Spec == Init /\ [][Next]_vars

-----------------------------------------------------------------------------

\* Types of the run.
TypeOK ==
    /\ HandleTypeOK
    /\ vm \in {"running", "faulted", "closed"}
    /\ slots \subseteq Tokens
    /\ calls \in 0 .. MaxCalls
    /\ phase \in Phases
    /\ call.helper \in Helpers \cup {NoHelper}
    /\ call.status \in Statuses /\ call.result \in ResultKinds
    /\ call.pending \in Objects \cup {NoObject}
    /\ terminal.state \in Outcomes \cup {"EXECUTING", "ACTION_PENDING"}
    /\ terminal.journal \in NoReceipt .. Uncertain
    /\ output \in Payloads \cup {ZeroPayload, ErrorPayload}

(***************************************************************************)
(* A handle that the policy can use, or that a callback has borrowed,      *)
(* names an object that was neither dropped nor transferred, unless a      *)
(* callback passed that object a second time: whatever callbacks do with   *)
(* other objects, the VM never leads a token back to an object it has      *)
(* released (commit_result, finish_consume, release_pending_handle).       *)
(***************************************************************************)
UsableObjectsExist ==
    \A i \in Indices :
        (table[i].lifecycle \in {"AVAILABLE", "BORROWED"} /\ host[i].object \notin reused)
            => /\ drops[host[i].object] = 0
               /\ host[i].object \notin transferred

(***************************************************************************)
(* The VM never forks authority: two records name the same object only     *)
(* when a callback passed it twice.  And a slot of a type that is not COPY *)
(* holds a token only of a handle that still exists or that this call is   *)
(* consuming, whatever the callbacks pass: a verified program cannot meet  *)
(* a stale token (prepare_handles, commit_result).                         *)
(***************************************************************************)
AuthorityIsUnique ==
    /\ \A i, j \in Indices :
          (/\ {table[i].lifecycle, table[j].lifecycle} \subseteq Live
           /\ host[i].object = host[j].object
           /\ host[i].object \notin reused)
              => i = j
    /\ vm = "running" =>
          \A t \in slots : t.type \notin CopyTypes =>
              /\ table[t.index].generation = t.generation
              /\ table[t.index].type = t.type
              /\ table[t.index].lifecycle \in {"AVAILABLE", "BORROWED"}

(***************************************************************************)
(* The outcome table of the terminal contract.  A boot action is sealed    *)
(* with the payload its helper produced and without a recovery             *)
(* notification, a policy error has none either, and a fault notifies      *)
(* recovery once, leaves no payload, no record and no host binding, also   *)
(* when it struck inside a helper call or after the action was pending     *)
(* (finalize_return, close_fault).                                         *)
(***************************************************************************)
OutcomeIsClosed ==
    /\ vm # "closed" => recoveries = 0 /\ terminal.state \notin Outcomes
    /\ vm = "closed" =>
        CASE terminal.state = "ACTION_SEALED" -> recoveries = 0 /\ output \in Payloads
          [] terminal.state = "ACTION_CONSUMED" -> recoveries = 0 /\ output = ZeroPayload
          [] terminal.state = "POLICY_ERROR" -> recoveries = 0 /\ output = ErrorPayload
          [] terminal.state = "VM_FAULT" ->
                /\ recoveries = 1
                /\ output = ZeroPayload
                /\ \A i \in Indices :
                      host[i] = Clear /\ table[i].lifecycle \in {"EMPTY", "REVOKED"}
          [] OTHER -> FALSE

(***************************************************************************)
(* The snapshot of a run that did not fault holds the worst journal state  *)
(* that a helper reported, so a later COMMITTED receipt does not hide an   *)
(* UNCERTAIN one from reconciliation (record_journal).                     *)
(***************************************************************************)
JournalKeepsWorst ==
    (vm = "running" /\ phase = "idle") \/ terminal.state \in Outcomes \ {"VM_FAULT"}
        => terminal.journal = reported

OutcomeStays ==
    vm = "closed" => /\ terminal.state = "ACTION_SEALED"
                     /\ terminal'.state = "ACTION_CONSUMED"
                     /\ recoveries' = recoveries

\* Nothing sealed is unsealed, and a closed run changes only by the one
\* consumption of its action (boot_action_consume).
OutcomeIsFinal == [][OutcomeStays]_vars

\* The drop callback runs at most once for an object that the callbacks passed
\* once (finish_consume, release_pending_handle, fault_cleanup).
DropsOnce == \A o \in Objects \ reused : drops[o] <= 1

\* Every step is an operation of the handle table or leaves it alone.
RefinesHandles == HandleSpec

=============================================================================
