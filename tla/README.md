# Ribon: TLA+ specifications, model checking and proofs

Ribon is a boot loader and firmware framework with signed A/B updates,
protected rollback state and a policy language (Ribos).  This directory holds
TLA+ modules for the part of it whose correctness depends on what survives a
power cut or on what firmware does in between: the update journal, the
transactional install and the slot storage under it, the protected rollback
state, the boot-attempt confirmation, the boot transaction, the recovery
network fetch, and the execution of a signed policy with the handles and the
outcome of its virtual machine.  TLC checks the modules on small instances;
TLAPS proves the central results for every instance.

Paths below are relative to the repository root.

## Inventory

| Part | Code | State | Operations |
| --- | --- | --- | --- |
| Update transaction journal | `src/update/transaction.c` | two record slots, two selector slots, the provider's cache | `open`, `initialize`, `commit_record` |
| Slot metadata | `src/update/storage.c` | generation, active and pending slot, one entry per slot | `ribon_update_slot_metadata_transition` |
| Transactional install | `src/update/transaction.c`, `src/update/installer.c` | the journal, the component ranges of the slots | `install_prepare`, `install_signed_bundle`, `install_transactionally`, `confirm_pending` |
| Protected rollback state | `src/security/protected_state.c` | two records, two selectors per domain: floor, trial, attempts, attempt binding | `initialize`, `begin_trial`, `begin_bound_trial`, `rebind_trial_attempt`, `consume_trial_attempt`, `confirm`, `confirm_bound`, `fail_trial`, `authorize` |
| Boot attempts and confirmation | `src/update/confirmation.c` | both journals, signed envelopes | `begin_attempt`, `accept` |
| Manifest, key policy, signatures | `src/update/manifest.c`, `src/security/key_policy.c`, `src/security/signature.c` | none that persists | `authorize`, `verify` |
| Slot storage and layout | `src/update/storage.c`, `src/update/installer.c` | layout, slot handles, the bytes of the medium | layout calculation, `open_inactive_slot`, ranged write and erase, erase, write and readback of an install |
| Boot lifecycle | `src/common/boot.c`, `src/environments/uefi-app/uefi_app.c` | transaction stage, receipt and budgets, handoff, attempt record, memory map | `initialize`, `prepare`, `commit_attempt`, `refresh_after_commit`, `quiesce_environment`, `execute_terminal`, `transfer`, `exit_boot_services` |
| Core | `src/core/*.c` | service directory, plugin registry, arenas | registration, sealing, lookup, start and stop |
| Recovery network | `src/common/net/recovery.c`, `src/common/net/tftp.c`, `src/environments/uefi-app/recovery_network.c` | a TFTP session, the staging buffers, the ticks left | `fetch` with its retries, the packet guard, the SNP and the PXE transport |
| Ribos policy adapter | `src/plugins/policy/ribos/adapter.c` | the rollback state, a boot transaction, a request | `policy_execute`, `policy_confirm`, `policy_fail_trial` |
| Ribos virtual machine | `language/ribos/vm/src/runtime/` | handle records, host table, borrows, leases, the terminal outcome | handle operations, the dispatch of a helper call, `finalize_return`, `close_fault`, `boot_action_consume` |
| Ribos compiler and verifier | `language/ribos/` | none that persists | translation, verification |
| Protocols, image formats, file systems, environments, arch | `src/protocols`, `src/image-formats`, `src/filesystems`, `src/environments`, `src/arch` | mostly none | parsing and platform access |

How they interact: the product boots, opens both journals, and either installs
a bundle (journal records and payload on one storage provider), starts a boot
attempt of the pending slot (two protected commits, then transfer of control),
or accepts the health envelope of an earlier attempt (one protected commit,
then one journal commit).  The bundle may come from the recovery network.  A
signed policy may decide what is booted: it is authorised against the rollback
state, pays for its run if it is on trial, runs in the virtual machine, and its
action commits a boot transaction.  Any boot, of an update or not, is one boot
transaction.  Only the firmware's event handlers and the network run beside
this code; the difficulty is that any call may be the last one before a power
cut, that an error does not say whether the call took effect, that what was written may be
lost or torn until a flush returned, and that the memory map may change until
boot services are closed.

What makes it hard, and is therefore modelled: power cuts between any two
provider calls; failed and short writes; caches that lose, keep or tear
unflushed data; writes that report success and hold damaged bytes; retries in
the same session; resumed installs; a call cut between the commits it makes to
two journals; envelopes delivered late, twice or after they were superseded;
calls in any order on a boot transaction; a memory map that changes inside the
exit loop; frames that are lost, repeated, delayed or left over from an earlier
attempt; slot handles and policy tokens that outlive what they were issued for;
callbacks that fail, overrun or disagree with themselves in the middle of a
helper call; sums that would wrap; counters at their limit.  `PROJECT.json` lists the hazards line by line.

## Modules

| Module | Models | Composition |
| --- | --- | --- |
| `DurableRegister` | the promise of a journal: numbered writes that become visible, then durable, then acknowledged | abstract specification |
| `TransactionJournal` | `transaction.c`: `open` as a function of the media; one action per provider call of `commit_record` | implements `DurableRegister` |
| `TransactionJournalProofs` | the inductive invariant of `TransactionJournal`, and the proof that it implements `DurableRegister` | |
| `SlotMetadata` | `storage.c`: validity of slot metadata and its transition function, as operators | |
| `UpdateTransaction` | install, resume and confirm at provider-call granularity | extends `SlotMetadata`, instantiates `TransactionJournal` |
| `UpdateTransactionProofs` | the inductive invariant of the install over the journal's register, and what follows from it | instantiates `TransactionJournalProofs` |
| `ProtectedRecords` | `protected_state.c`: what each operation makes of a rollback state, as operators | |
| `ProtectedJournal` | the operations on a step-level `commit_record` | extends `ProtectedRecords`, implements `DurableRegister` |
| `ProtectedJournalProofs` | the inductive invariant of `ProtectedJournal`, the floor, and the proof that it implements `DurableRegister` | |
| `BootConfirmation` | `begin_attempt` and `accept` over both journals | instantiates `SlotMetadata` and `ProtectedRecords` |
| `BootTransaction` | `boot.c`: every call on a boot transaction, with the exit loop of `uefi_app.c` | |
| `BootConfirmationProofs` | the inductive invariant of `BootConfirmation` and what follows from it | |
| `UpdateLayout` | `storage.c`: layout calculation and validity with their overflow checks; `manifest.c`: the range rules of components, as operators | |
| `SlotStorage` | `storage.c` and `installer.c` byte by byte: handles, range resolution, the payload of an install | extends `SlotMetadata` and `UpdateLayout` |
| `SlotStorageProofs` | the transition function of `SlotMetadata`; the inductive invariant of `SlotStorage` and what follows from it | |
| `RecoveryFetch` | `recovery.c`, `tftp.c`, `recovery_network.c`: fetches of several objects against a server and a network | |
| `RecoveryFetchProofs` | the inductive invariant of `RecoveryFetch` and what follows from it | |
| `HandleTable` | `handles.c`: one action per handle operation | abstract specification of what a run does with handles |
| `PolicyVm` | `helpers.c` and `terminal.c`: one step per handle operation of a helper call, and the outcome of the run | extends `HandleTable`, implements `HandleSpec` |
| `PolicyProofs` | the inductive invariants of `HandleTable` and `PolicyVm`, the refinement, the outcome of a run, and who owns the embedder's objects during it | |
| `PolicyExecution` | `adapter.c`: a request from its arguments to the quiesced environment | extends `ProtectedRecords` |
| `LifecycleProofs` | the inductive invariants of `BootTransaction` and of `PolicyExecution` and what follows from them | extends both |
| `MC*` | constants of the instances; those of the journals also choose between two devices | |

### Correspondence

*Media.*  `media` is what a provider read returns, `disk` what survives a power
cut.  A flush copies `media` to `disk`.  `CacheModel` chooses the provider:

- `"reference"` is the flush model of the repository's power-cut tests
  (`tests/update/`): writes are volatile and exact, a power cut returns to the
  last flush.  Callers may retry without a reset (`RetryWithoutReset`).
- `"subset"` is a weaker device: at a power cut each unflushed range may be
  old, new or torn, and a write that reports success may hold damaged bytes.
  Callers reset after a failed call; without that, two unflushed ranges of
  different commits could survive in the wrong order, which no journal of this
  shape can exclude.

*Bytes.*  A range is a decoded record or selector, `Blank` (all zero) or `Torn`
(fails magic, SHA-256 or CRC32C).  A digest is what it covers; the digest of an
update record leaves out the predecessor digest, which `open` compares
separately, so that digests do not nest without end.

*Control.*  `pc` and `job` are the position and the local variables of
`commit_record`; `call` is the same for the API call around it.  Each action is
everything between two provider calls.  A failed call (`Fail`, `ShortWrite`,
`JournalFail`, `PayloadFail`, `CallFails`) also stands for an interruption by
the transaction observer and for a failed comparison.

*Slot metadata.*  The identity of an image (image generation, manifest, image
set and layout digest) is one element of `Images`.  `Transitions(...)` is the
set of results of `ribon_update_slot_metadata_transition`: one successor, or
none when it returns an error.  The operations of `ProtectedRecords` have the
same form.

*Install.*  Journal and payload share one provider, as in
`targets/x86_64-uefi-update-recovery/entry.c`, so each flush covers both.
`minimum_generation` of the journal is the last acknowledged generation, the
strongest floor a product can supply.  Manifest authorization and range
arithmetic are outside: `Images` are the authorized identities.

*Confirmation.*  Each journal is the atomic register that its own module is
shown to implement.  A commit that takes effect and reports an error is the
commit followed by `Reset`.  An envelope is the attempt binding it was signed
for.  The record's target slot is left out, because a record that holds a
PENDING slot always targets it (`RecordsAreCoherent`).  `Transfer` and
`SignEnvelope` are the product and the candidate, external to `src/`.
The nonce source may repeat itself.

*Boot transaction.*  `txn` is the transaction object and `call` the position
inside the call in progress; a call without a provider step in which something
else can happen is one action.  The caller is not the product's `entry.c` but
any caller: all calls are enabled whenever no call is in progress, so that the
stage checks of `boot.c` carry the properties.  A memory map is its version and
the handoff buffer is the version it was built from; `captured` stands for the
captured environment and for `map_key`, which are read together.  The firmware
accepts the key of its current map only and may refuse that too.  Boot services
that are closed make the timer fail, so that no plan is built and nothing is
committed afterwards.  Deadlines may be met or missed at any check.  An attempt
record is the number of its transaction.  Its provider is the service contract
of `commit_attempt`: a flush that returns OK makes the record durable.  (The
UEFI application's built-in provider keeps the record in memory and satisfies
this only for resets that keep memory; `update_storage.c` has one that writes.)
`post_exit` and the placement of segments are left out.

*Two devices.*  `MCTransactionJournal`, `MCUpdateTransaction` and
`MCProtectedJournal` add a variable `device` that is chosen once: the module
itself with the `"reference"` cache, or an instance of it with the `"subset"`
cache.  One run covers both.

*Slot storage.*  A byte of the medium is named by image, component and index, so
that a misplaced byte differs from the right one.  Words have `WordBits` bits;
every addition of the code that is checked for overflow is checked here against
`MaxWord`, and in the range resolution a sum that is not refused wraps
(`CanAdd`, `Sum64`).  `held` is the slot handle some caller keeps; `OpenSlot` may open
it at any time and `WriteInactive` and `EraseInactive` may use it at any later
time, after the metadata has moved on or the slot was installed to.  `work` is the position of `install_signed_bundle`; a provider
that refuses a call leaves the slot STAGING (`Abandon`).  The layout's identity
digest is the layout.

*Recovery fetch.*  `client` is the position in `snp_fetch_once` with the guard
of the session, its port and the ticks left; `net` the frames under way, each
of which may be received again or never unless the deployment is `reliable`;
`server` the TFTP server's sessions (external).  `staging` and `receipt` are what
the caller sees.  A poll takes one tick, as `poll_stall` does; the deadline of
an attempt is the share that `ribon_recovery_network_fetch` gives it.  A block
number is compared in 16 bits, as the wire carries it (`LastBlock`).
`disturbed` says that the fetch had a reason to fail: it is true from the start
on a network that may lose and repeat frames, and becomes true when a firmware
call fails, time runs out or the server refuses.

*Handles.*  An operation of `handles.c` that returns an error changes nothing, so
its action is not enabled.  `issued` is a history of every token with what it
was issued for; a token is accepted by index, generation and type, as in
`ribos_vm_handle_record_from_token`.

*Policy run.*  `phase` is the position in `ribos_vm_helper_dispatch_internal_v1`:
preparing the arguments one by one, the callback, closing the borrows one by
one, committing the result, releasing.  The callback makes any choice its
accessors accept: any object as a handle, an object it has passed before or has
just marked as transferred included; a value in place of a handle where the
transition is not CREATE or REPLACE, which for a COPY handle writes any bytes
into the slot (`BytesAllowed`); a status that does not fit its result; a missing
or wrong journal receipt; an overrun.  The bytecode is any sequence of calls
with arguments of the declared types that ends in a return or a fault.  `drops`,
`given` and `transferred` are histories of what became of the embedder's
objects, `reported` and `recoveries` of what the callbacks reported and of the
recovery calls.

The VM cannot tell whether an object is new.  `reused` is a history of the
objects that a callback passed a second time, other than in the place of the one
it consumed, and the promises about objects (`UsableObjectsExist`, the first
half of `AuthorityIsUnique`, `DropsOnce`) are made for the others: passing an
object once is the embedder's side of the bargain.  The fixtures keep it only as
long as a policy calls `slot.image` once, since
`src/environments/host/ribos_policy.c:288` and
`products/validation/ribos-qemu/product.c:779` return the same image object each
time.  What a callback does with one object never excuses the VM with another,
and the second half of `AuthorityIsUnique`, about the slots of the policy, holds
whatever callbacks pass.  It leaves out COPY types, whose tokens may outlive
their record and may be written as bytes; `TokensDenote` covers them.

*Policy execution.*  The rollback state is the register that `ProtectedJournal`
implements, as it is read (`prot`) and as a power cut leaves it (`durable`).  A
commit that returns OK is both.  One that returns an error changed nothing, or
flushed its record and with it an earlier commit, or left its selector visible,
durable or not (`CommitErrs`); a power cut goes back to what is durable or keeps
what is visible.  When the state does not open for the decision the code reports
STATE_UNAVAILABLE or ROLLBACK (`adapter.c:684`); `opened` is a history that says
it did.  A request may lack the recovery callback, and without a receipt it is
refused without a notification (`adapter.c:982`).  The run of the VM is one of the outcomes of `PolicyVm`, and
`commit_attempt` and `quiesce_environment` are the calls of `BootTransaction`
reduced to success or failure.  `granted` and `runs` are histories of the open
trial.  `runs` counts the runs under trial authority: after a confirmation that
is visible and not durable the policy runs as the confirmed one, without an
attempt, and a power cut can still return to the trial.  Names that `BootTransaction` has too begin with `Policy` here
(`PolicySpec`, `PolicyTypeOK`), so that one proof module can extend both.

### Mutants

An operator whose comment begins with "Mutant of" is a plausible defect of the
definition that follows it, used to show that a property can fail.
`PROJECT.json` says which property each one breaks.

## Runs

| Run | Properties | Bounds | Shows |
| --- | --- | --- | --- |
| `journal` | `AcknowledgedSurvives`, `ImplementsRegister` | 2 values, 5 generations, both devices | the update journal keeps every acknowledged commit and is an atomic register |
| `install` | `TypeOK`, `PayloadMatchesState`, `RecordsAreCoherent`, `DurableHistoryIsLegal`, `ReferenceConverges` | 2 images, 2 components, 9 generations, both devices | no record gets ahead of its payload; the durable metadata moves one legal edge at a time; on the reference device a started install that is resumed becomes PENDING once faults stop |
| `protected` | `TypeOK`, `FloorIsMonotonic`, `ImplementsRegister` | 2 bindings, 4 generations, both devices | every order of rollback operations keeps the floor monotonic and gives no attempt back; the domain is an atomic register |
| `confirmation` | `TypeOK`, `JournalsAgree`, `AttemptBudget`, `AttemptsAreFresh`, `OnlyHealthyAttemptsConfirm`, `HalfConfirmedCloses` | 4 images with sequences 1, 2, 2, 3; 2 nonces; 2 attempts; 9 generations; attempt sequence up to 5 | the two journals agree except in the window inside `accept`, which redelivery of the envelope closes |
| `boot` | `AttemptPrecedesControl`, `FinalMapHandedOver`, `OutputWithinBudget`, `StageAdvances`, `CallReturns` | 2 transactions, 4 map versions, 3 exit attempts, 1 retry, artifacts of 1 or 2 in a budget of 5 | control leaves only after the attempt is durable and with the final map, budgets hold, stages never move back, every call returns |
| `slot_storage` | `BackingsApart`, `VerifiedContent`, `WritesStagedSlotOnly` | 6-bit words, 4 alignments of write and erase, 2 bundles, 6 generations, calls at 3 offsets with 3 sizes | whatever handle is used, only bytes of the staged slot change, and a verified slot holds its components and zero tails |
| `fetch` | `TypeOK`, `ExactReceipt`, `WipedOnFailure`, `FailsForAReason`, `FetchReturns` | 2 objects of up to 5 bytes, blocks of 1 or 2, block numbers up to 4, up to 1 retry, 12 deployments of both transports | a receipt covers the whole object and nothing else; a failed fetch leaves a wiped buffer; a fetch that nothing disturbed succeeds; a fetch returns |
| `policy_vm` | `TypeOK`, `UsableObjectsExist`, `AuthorityIsUnique`, `OutcomeIsClosed`, `JournalKeepsWorst`, `TokensDenote`, `RefinesHandles` | 7 helpers, 3 handle types, 3 objects, 2 entries, 3 generations, 5 calls | a token reaches what it was issued for; an object that callbacks pass once exists as long as a token reaches it and has one holder; an outcome is closed and carries the worst receipt |
| `policy_execution` | `PolicyTypeOK`, `RunsWithinGrant`, `OneActionPerTransaction`, `FloorIsNeverRefused` | sequences up to 2, up to 2 attempts | a trial policy runs at most as often as granted, a transaction takes one action, the policy of the floor is never refused when the state opens |

The bounds are large enough for the cases that matter.  Four generations
rewrite every record and selector slot of a journal at least once and put a
commit on top of an interrupted one.  Nine metadata generations are two
complete installs with confirmation, so both slots are installed to and an old
CONFIRMED slot is overwritten.  Two components distinguish a complete payload
from a partial one.  Images `second` and `sibling` have the same sequence, so
an envelope for one can meet a trial of the other.  Four map versions let
the key be refused at all three attempts of the exit loop, and a budget of 5
runs out within the refreshes of one transaction.  With words of six bits the
offsets and sizes of direct calls include ones whose sum wraps, and the bundles
one whose components are apart until they are rounded to the write alignment.
Objects of two blocks, three server sessions and one retry are enough for a
block of an earlier attempt to arrive in a later one, and block numbers reach
their limit.  Two handle entries run out within five helper calls, and three
generations let an entry be bound again and be retired at its limit; three
objects let a callback pass a new one, an old one and the one it consumed.
(`policy_double_drop` has four generations, four objects and six calls.)  The limit
of every counter is reached, which exercises the overflow checks.  Symmetry is
used for record values, bindings and the embedder's objects, which are compared
only for equality; the
runs with liveness properties (`install`, `confirmation`, `boot`, `fetch`) use
no symmetry.

Distinct states: `confirmation` 344,537, `fetch` 333,668, `protected` 259,560,
`policy_vm` 277,438, `policy_execution` 158,398, `boot` 137,060, `slot_storage`
109,464, `install` 61,767, `journal` 9,960.  On two cores `protected` takes
three minutes, `policy_vm` two, `install` and `slot_storage` a minute and a half,
and the others less.

Deadlock is checked except where the system may really stop.  In the
confirmation runs an image whose sequence is not the successor of the floor
stays PENDING with nothing left to do (see the findings); `slot_storage` ends
when the metadata generation is used up, and a policy run ends with its outcome.

Fairness, in the runs with a liveness property only (`install`,
`confirmation`, `boot` and `fetch`): a call in progress continues (the code
is straight-line and every provider call returns), which is all that `boot` and
`fetch` assume (the server and the network owe nothing); after a failed call the
product resets and offers the bundle, or the envelope, again at the next boot,
which is how `targets/x86_64-uefi-update-recovery/entry.c` runs.  Nothing is
assumed about the order or the number of faults; the properties speak of
behaviours in which faults stop.

`CallReturns` says less about the exit loop than about the retries of a source:
each refresh of the plan uses up output budget, so the loop would end without
its limit of attempts too.

### Disagreements with the documents

Three runs state what a contract document or a header says and are violated by
what the code does:

- `confirmation_sequence` (`PendingIsSuccessor`): `update-authority.md` has the
  rollback sequence verified before the write and a pending candidate at
  exactly floor + 1.  `install_transactionally` never reads the floor.
- `fetch_exact` (`ExactReceipt`): `recovery.h` calls `bytes_received` the exact
  number of bytes and `recovery-network-surface.md` ends a transfer with a DATA
  shorter than the *negotiated* block.  The guard assumes the requested block
  size without an option acknowledgement, so the first block of a server that
  ignores the option and sends 512 bytes completes the transfer.  In the
  `fetch` run such a server uses the requested size.  The same assumption fails
  with a server that negotiates a smaller block when the client retries: every
  attempt for an object uses the same client port (`recovery_network.c:649`),
  so a late DATA 1 of an earlier attempt can come before the new option
  acknowledgement and is measured against the requested size.  The proof of
  `FetchIsExact` found this; its hypothesis `SizesAgree` excludes both cases,
  and the deployments of the `fetch` run satisfy it.
- `policy_double_drop` (`DropsOnce`): `ribos-typed-helper-dispatch-v1.md` and
  `ribos-generation-handles-v1.md` have the drop callback called at most once
  for an object.  A replacing helper that returns the object it consumed and
  whose call then faults has it dropped twice.

Further differences were read in the code and have no run of their own:

- `boot_fail` overwrites the receipt of a transaction that has already failed
  (`src/common/boot.c:58`), which `boot-update-recovery-model.md:55` has fixed.
- `install_signed_bundle` flushes the payload before its readback
  (`src/update/installer.c:389`, as `update-authority.md` says);
  `transaction-journal-v1.md:153` has the readback first.
- `rebind_trial_attempt` rebinds a trial that was opened unbound
  (`src/security/protected_state.c:671`); `protected-state-journal-v1.md:164`
  has the mixture refused.  `FloorIsMonotonic` shows that no attempt is won.
- Frames that are not for the client use up no deadline
  (`recovery_network.c:686`), although `recovery.h` gives one per object;
  `FetchReturns` therefore assumes traffic that ends.
- A repeated option acknowledgement ends the attempt as malformed, which is not
  retried (`tftp.c:81`).
- A callback whose status and result disagree leaves its lease to the fault
  cleanup, which drops the object even if the callback marked it as transferred
  (`helpers.c:997`).
- A component is rounded to the write alignment before it is erased
  (`installer.c:350`).  With a larger erase alignment, an install whose rounded
  ranges are not multiples of it is refused in the erase.
- A callback of a helper that returns a COPY handle may answer with bytes instead
  (`helpers.c:675` refuses only CREATE and REPLACE), although
  `ribos-typed-helper-dispatch-v1.md:146` has a result class that does not fit
  the transition end in a contract fault.  A token made up in this way is
  accepted only if it is that of a current handle of its type (`TokensDenote`).
- `policy_confirm` does not ask whether the pending policy ever ran
  (`adapter.c:1344`).

## Proofs

| Module | Theorems | For every |
| --- | --- | --- |
| `TransactionJournalProofs` | `TypeCorrect`, `AcknowledgedCommitsSurvive` (`AcknowledgedSurvives`), `JournalRefinesRegister` (`ImplementsRegister`), `ReferenceDiskNeverCorrupt` | set of values, generation limit, cache model |
| `UpdateTransactionProofs` | `InstallTypes`, `PayloadIsVouchedFor` (`PayloadMatchesState`), `RecordsCohere` (`RecordsAreCoherent`), `DurableMetadataMovesLegally` (`DurableHistoryIsLegal`) | set of images, number of components and attempts, generation limit, cache model |
| `ProtectedJournalProofs` | `ProtectedTypes`, `ProtectedFloor` (`FloorIsMonotonic`), `ProtectedRefinesRegister` (`ImplementsRegister`) | set of bindings, sequence, attempt and generation limit, cache model |
| `BootConfirmationProofs` | `ConfirmationTypes`, `JournalsStayTogether` (`JournalsAgree`), `BudgetIsKept` (`AttemptBudget`), `SequencesAreFresh` (`AttemptsAreFresh`), `StaleEnvelopesConfirmNothing` (`OnlyHealthyAttemptsConfirm`) | set of images with any sequences, set of nonces, limit |
| `SlotStorageProofs` | `AllowedTransitionIsValid`, `StorageTypes`, `StagedSlotOnly` (`WritesStagedSlotOnly`), `VerifiedStays` (`VerifiedContent`), `ComponentsStayApart` (`BackingsApart`) | word size, set of devices, bundles and calls |
| `LifecycleProofs` | of boots: `AttemptIsDurable` (`AttemptPrecedesControl`), `HandoffIsFinal` (`FinalMapHandedOver`), `BudgetHolds` (`OutputWithinBudget`), `StageNeverMovesBack` (`StageAdvances`); of policies: `ExecutionTypes`, `RunsArePaid` (`RunsWithinGrant`), `OneAction` (`OneActionPerTransaction`), `NotifiedAtMostOnce` (`RecoveryOnce`), `FloorIsServed` (`FloorIsNeverRefused`), `FloorMovesForward` (`FloorMovesByConfirm`) | retry limit, budget, set of artifact sizes, exit attempts, map versions; sequence and attempt limits, set of bindings |
| `PolicyProofs` | `TokensNeverLie` (`TokensDenote` and `LeasesStand`), `GenerationsNeverReturn` (`GenerationsAdvance`), `PolicyRefinesHandles` (`RefinesHandles`), `OutcomesAreClosed` (`OutcomeIsClosed`), `WorstReceiptIsKept` (`JournalKeepsWorst`), `OutcomesAreFinal`, `PolicyTypes`, `UsableHandlesNameObjects` (`UsableObjectsExist`), `AuthorityNeverForks` (`AuthorityIsUnique`) | table size, generation limit, set of objects, helper contracts |
| `RecoveryFetchProofs` | `FetchTypes`, `FailedFetchIsWiped` (`WipedOnFailure`), `FetchIsExact` (`ExactReceipt`, when `SizesAgree`), `FailuresHaveReasons` (`FailsForAReason`) | set of deployments (block size, retries, deadline, limits, objects, server, transport), buffer size, block numbers, number of server sessions |

The parentheses name the property of the specification that a theorem proves.

A leaf that Zenon can prove names it (`ZenonT(30)`); the others, mostly
arithmetic, are left to SMT.  This matters for time: the translation to SMT gets
slower with every leaf of a module that uses it.  The largest module,
`RecoveryFetchProofs`, takes eleven minutes from nothing, the others one to four.

### Update journal

The journal proofs assume what `TransactionJournal` does: the generation limit is
positive, `Blank` and `Torn` are different and decode neither as a record nor
as a selector nor equal a digest, and a caller on a tearing provider resets after a failure.

`AcknowledgedSurvives` is not inductive: it does not say why the record that a
commit writes is not the one that matters.  The invariant `IInv` adds

- `JobInv`: a commit in progress works on top of the *live* selector (the newest
  one, with a complete record) and writes the other record slot and the other
  selector; after the readback the record is in place;
- `MediaInv`: whatever is durable and live is visible at that generation or a
  later one;
- `AckInv`: an acknowledged generation is covered by a live durable selector;
- `FlushedInv`: nothing is unflushed at the reopen;
- `SubsetInv`: on a tearing provider at most one range is unflushed, and it is
  either the record slot that the live durable selector does not name, or the
  other selector, torn or complete with a greater generation.

`OpenIsLive` connects the invariant with the code: `open` returns OK exactly
when the newest selector is live and not below the floor.  There is one lemma
per action, and `StepPreserves` combines them.

The refinement needs `RInv` besides `IInv`:

- `SyncedInv`: from the readback to the write of the selector nothing is
  unflushed, so that the value a commit replaces is durable;
- `FreshInv`: a disk without a live selector is that of a journal whose first
  commit is not durable yet; nothing else can make `open` fail;
- `WrittenInv`: in the reference model a selector that was written is live.

The register value of media with a live selector is the digest in that selector
(`CellOfLive`), so each action is mapped by asking what it does to the live
selectors: writing the record is a stutter, writing the selector is `Write`, a
flush is `Sync`, the reopen is `Acknowledge`, and a power cut is `PowerCut`.

### Transactional install

The install is proved in two parts.  The first never looks into the journal: it
sees the record that `open` returns now (`MediaCell`), the one it would return
after the loss of every unflushed write (`DiskCell`) and the one being written
(`JobCell`).  `View` and `JournalEffects` say what the journal owes the install:
only the selector write changes the visible record, and then from a durable one
to the job's; a flush makes it durable; a failed commit leaves either; a power
cut leaves one of the two.  From these, `CallerStep` shows that `CallerInv` is
kept:

- `CoherenceInv`: each of the three records has valid metadata of its own
  generation and a target that it changed last;
- `HistoryInv`: the visible record is the durable one or one legal transition
  after it, and the one being written is one transition after the visible;
- `PayloadInv`: the ranges hold every image that a record vouches for, readable
  and durable; on a tearing device also crosswise, because a power cut there may
  keep the new record with the old payload or the reverse;
- `CallInv`: a payload call works on a slot that is STAGING in the visible
  record, its readback runs on flushed bytes, and what was checked is right.

`PayloadMatchesState` is not inductive: it says nothing of the record being
written nor of the crosswise pairs.  A slot leaves the vouched states with its STAGING record, which is durable before the first
erase; a VERIFIED record is written only after the flush and the readback.  The
second part instantiates `TransactionJournalProofs` and derives `View` and each
effect from its `IInv` and `RInv` (`ViewHolds`, `EffectsHold`), so the conclusion
`InstallInvariance` takes nothing about the journal for granted.

`AllowedTransitionIsValid`: a transition that passes the argument checks of
`ribon_update_slot_metadata_transition` yields well-formed, valid metadata, so
the validity check at its end never fires.

### Protected journal

`FloorIsMonotonic` speaks of the disk only, and needs to know that the commit
under way is a legal step from what is durable.  `IInv` adds

- `JobInv`: a commit writes the slot that is not live, of the next generation,
  with a state that is one operation after the live one (`FloorStep`); or it
  provisions an empty domain;
- `MediaInv`: both views are empty or have a live slot, and the visible state is
  the durable one or one operation after it;
- `SyncedInv`: nothing is unflushed at the readback, at the selector write and at
  the reopen;
- `SubsetInv`: on a tearing device one object at most is unflushed, in the slot
  that is not live.

One lemma per rollback operation (`BeginTrialIsSound` and its siblings) shows
that what it commits decodes and is a `FloorStep`.  The refinement then reads the
register off the live slot, as for the update journal.

### Boot transaction and policy execution

The invariant of the boot transaction links what the code keeps apart:
`CallInv` says which stage each call in progress and each holder of control
relies on, `RecordInv` that from COMMIT_ATTEMPT on the durable record is the
transaction's own, `MapInv` that the handoff describes the captured map when its
key is offered and the final map once boot services are closed, and `LoopInv`
that the exit loop has an attempt left.  `PreparePlanFacts` and `RefreshFacts`
say what the plan builder may return; `FailStep` disposes of every error path.
The only assumption is that the limits are natural numbers.

The invariant of the policy execution, `EInv`, adds that from the consumed
attempt to the run one attempt is paid and not run, in the visible and in the
durable state (`Paid`), that the durable floor is the visible one or one
confirmation behind it (`Behind`), what the
transaction has been through at each phase (`Progress`), and when recovery may
have been notified (`Quiet`).

### Confirmation and slot storage

`CInv` of the confirmation adds that both journals decode (`Stored`), that
between its two commits a call finds them as it left them (`CallInv`), that the
attempt sequence on record is that of its binding and that no attempt was
started with a later one (`SequenceInv`), and that one attempt is paid before
its transfer (`BudgetInv`).

`IInv` of the slot storage adds that the layout is valid, that an install works
on a STAGING slot (`WorkIsStaged`), that an image in the metadata fits the
layout (`BundlesFit`) and that a verified image is on a device of the layout's
capacity (`VerifiedOnDevice`).

### Policy run

`HInv` says that every token ever issued is of a past generation or denotes its
object; `PInv` what a call in progress holds; `CInv`, `OInv` and `JInv` what a
call has answered, what the outcome is before it is closed, and which receipts
it covers.  By `PolicyRefinesHandles` the results about the handle table hold of
a run.

`UsableObjectsExist` and `AuthorityIsUnique` need each other and more, since an
object passes from a record to the call and to another record.  `AInv` adds
the following, where `ObjectsStand` and `PendingInv` speak of the objects that
are not in `reused`:

- `GivenInv`: no record, token or call holds an object that was not given, and
  one that was not given yet is unspent;
- `ObjectsStand`: until the callback has returned, a record that is consumed
  still has its object;
- `LeaseInv`: there is one lease at most, an in-flight record has it, and it
  outlives the commit of the result only in a call that faults or is terminal;
- `PendingInv`: an object that the call is about to bind exists, and the only
  record that may own it is the one being replaced;
- `SlotsInv`: a slot of a running program, of a type that is not COPY, holds a
  current token.

### Recovery fetch

The properties speak of receipts; what makes them true is on the wire and in
the guard while an attempt runs.  `FetchInv` has four parts, each used by the
next:

- `WireInv`: the server numbers its sessions and never sends a block beyond the
  object or the last block number (`ServerInv`); a frame under way is a request,
  a refusal, the option acknowledgement of a session or one of the blocks it has
  sent, with that block's bytes, or an acknowledgement that the client may have
  made (`NetInv`); the guard's counters stay in range (`GuardInv`).
- `BufferInv`: fetches go in the order of the objects, the buffer of an object
  whose turn has not come is zero, and so is that of a fetch that failed.
- `ExactInv`: if `SizesAgree`, an attempt is locked to a session of its own
  object and block size once a packet was accepted, and its buffer holds exactly
  the prefix of the object that the guard has counted (`ProgressInv`).  With one
  attempt per object only the session that the client is locked to ever gets an
  acknowledgement, so no DATA precedes the option acknowledgement
  (`OneAttemptInv`), and nothing is requested before its fetch (`RequestInv`).
- `TurnInv`: while nothing disturbed the fetch, client and server alternate:
  the client is about to ask, waits for a session, takes turns with the one
  session of its object (one acknowledgement or one block is under way, and both
  agree on its number), or is about to finish.  `FailsForAReason` needs this,
  because it is what excludes an unexpected packet, and with it every error path
  of the guard that is not a limit or a fault.

`SizesAgree` says that no DATA can reach a guard that assumes another block size:
the transport is PXE, which measures nothing, or servers use the requested size,
or there are no retries and servers acknowledge the option.  Without it
`ExactReceipt` is false (`fetch_exact`).  The other three theorems do not assume
it.

The proofs do not expand the client's code at every step.  `ClientMoves` and its
lemmas reduce each action to a few moves (wait, end the attempt, start one, send,
take a packet, succeed), `ServerMoves` does it for the server, and the parts of
the invariant are shown for the moves.

### Assumptions

The proofs assume what the modules name with ASSUME, and TLC evaluates on the
instances: limits are natural numbers, the absent values are not members of the
sets they are absent from, and devices, bundles, deployments and helper contracts
have their types; a server's blocks are not larger than the requested ones.  Those of the journals say that `Blank` and `Torn` are different from each
other and from whatever decodes (`DecodeAssumption`, `BytesAssumption`,
`ObjectAssumption`), and that a caller on a tearing device resets after a failure
(`CallerAssumption`, `DeviceAssumption`, `ProviderAssumption`).

Proved without a run of their own: `TypeOK` of the boot transaction, the update
journal and the slot storage, `ReferenceNeverCorrupt`, `LeasesStand`,
`GenerationsAdvance`, `OutcomeIsFinal`, `RecoveryOnce` and
`FloorMovesByConfirm`.

Only model-checked: liveness (`CallReturns`, `ReferenceConverges`,
`HalfConfirmedCloses`, `FetchReturns`), since fairness and ENABLED are outside the
prover's reach.  Every safety property of a passing run has a theorem.

## Further work

1. `core/service_directory.c`, `core/registry.c` and `core/plugin.c`: an abstract
   directory and its implementation.
2. `security/key_policy.c`, and the deadline arithmetic and relocatable placement
   of `common/boot.c`, as operators.

## Not modelled

Byte-level codecs (what they protect against is `Torn`), SHA-256, CRC32C and
signatures (collision-free and unforgeable), image and file-system parsing,
protocol handoff structures, architecture code, the Ribos compiler and
verifier, and generated code: parsing and translation without state that
outlives a call.  Of the virtual machine, the instructions other than helper
calls; of the recovery network, opening the transport; of the policy adapter,
the host fixture and the extension services.  The core's directory, registry
and arenas and the key policy could be modelled and are not yet.  The reasons
are in the component list of `PROJECT.json`.
