----------------------------- MODULE HandleTable -----------------------------
(***************************************************************************)
(* The generation handles of the Ribos VM                                  *)
(* (language/ribos/vm/src/runtime/handles.c).  A policy holds a token, an  *)
(* index and a generation; the record in the VM arena and the entry of the *)
(* embedder's host table at that index say what the token names.           *)
(*                                                                         *)
(* An operation that returns an error leaves both tables as they are, so   *)
(* its action is simply not enabled.  The move count of a record is left   *)
(* out: it never exceeds the generation, whose limit is met first.  Of the *)
(* two ownership classes that are not COPY only the drop callback differs, *)
(* which is the embedder's.                                                *)
(***************************************************************************)
EXTENDS Naturals, FiniteSets

CONSTANTS
    Capacity,       \* capacity of the host table, and number of records
    MaxGeneration,  \* stands for UINT32_MAX
    Objects,        \* objects of the embedder
    NoObject,       \* a null trusted_object
    Types,          \* opaque handle types
    CopyTypes,      \* those with RIBOS_SCHEMA_OWNERSHIP_COPY
    NoType          \* the type_id of a record that is empty or revoked

ASSUME CapacityAssumption == Capacity \in Nat
ASSUME GenerationAssumption == MaxGeneration \in Nat \ {0}
ASSUME ObjectAssumption == NoObject \notin Objects
ASSUME HandleTypeAssumption == CopyTypes \subseteq Types /\ NoType \notin Types

VARIABLES
    table,    \* the records of the VM arena
    host,     \* the entries of the embedder's host table
    borrows,  \* RibosVmHandleBorrow values that were begun and not ended
    leases,   \* RibosVmHandleConsumeLease values that were not finished
    issued    \* history: every token handed out, with what it was issued for

handleVars == <<table, host, borrows, leases, issued>>

Indices == 1 .. Capacity

Lifecycles == {"EMPTY", "AVAILABLE", "BORROWED", "IN_FLIGHT", "REVOKED"}
Live == {"AVAILABLE", "BORROWED", "IN_FLIGHT"}

Records == [generation : 0 .. MaxGeneration, lifecycle : Lifecycles,
            type : Types \cup {NoType}]
Bindings == [generation : 0 .. MaxGeneration, object : Objects \cup {NoObject}]

\* A token with what it was issued for; borrows and leases have the same fields.
Grants == [index : Indices, generation : 1 .. MaxGeneration, type : Types,
           object : Objects]

Record(generation, lifecycle, type) ==
    [generation |-> generation, lifecycle |-> lifecycle, type |-> type]
Binding(generation, object) == [generation |-> generation, object |-> object]
Grant(i, generation, type, object) ==
    [index |-> i, generation |-> generation, type |-> type, object |-> object]

\* host_entry_clear
Clear == Binding(0, NoObject)

\* Mutant of CanAdvance: the limit itself can advance.
CanAdvanceOffByOne(generation) == generation <= MaxGeneration

\* next_generation
CanAdvance(generation) == generation < MaxGeneration

\* host_entry_is_bound
IsBound(i, generation) ==
    host[i].object # NoObject /\ host[i].generation = generation

\* record_from_token for an AVAILABLE record
Accepts(i, generation, type) ==
    /\ table[i].lifecycle = "AVAILABLE"
    /\ table[i].generation = generation
    /\ table[i].type = type
    /\ IsBound(i, generation)

\* what create asks of the record it takes
IsFree(i) ==
    /\ table[i].lifecycle \in {"EMPTY", "REVOKED"}
    /\ host[i] = Clear
    /\ CanAdvance(table[i].generation)

\* The generation after g, or g itself at the limit.
Advanced(g) == IF CanAdvance(g) THEN g + 1 ELSE g

-----------------------------------------------------------------------------

HandleInit ==
    /\ table = [i \in Indices |-> Record(0, "EMPTY", NoType)]
    /\ host = [i \in Indices |-> Clear]
    /\ borrows = {}
    /\ leases = {}
    /\ issued = {}

Bind(i, generation, type, object) ==
    /\ table' = [table EXCEPT ![i] = Record(generation, "AVAILABLE", type)]
    /\ host' = [host EXCEPT ![i] = Binding(generation, object)]
    /\ issued' = issued \cup {Grant(i, generation, type, object)}

\* ribos_vm_handle_create_v1: the first free record
Create(type, object) ==
    \E i \in Indices :
        /\ IsFree(i)
        /\ \A j \in 1 .. i - 1 : ~IsFree(j)
        /\ Bind(i, Advanced(table[i].generation), type, object)
        /\ UNCHANGED <<borrows, leases>>

\* ribos_vm_handle_borrow_begin_v1: the generation stays
BorrowBegin(i, generation, type) ==
    /\ Accepts(i, generation, type)
    /\ table' = [table EXCEPT ![i].lifecycle = "BORROWED"]
    /\ borrows' = borrows \cup {Grant(i, generation, type, host[i].object)}
    /\ UNCHANGED <<host, leases, issued>>

\* what borrow_end asks of the record the borrow names
BorrowStands(b) ==
    /\ table[b.index] = Record(b.generation, "BORROWED", b.type)
    /\ host[b.index] = Binding(b.generation, b.object)

\* ribos_vm_handle_borrow_end_v1
BorrowEnd(b) ==
    /\ BorrowStands(b)
    /\ table' = [table EXCEPT ![b.index].lifecycle = "AVAILABLE"]
    /\ borrows' = borrows \ {b}
    /\ UNCHANGED <<host, leases, issued>>

\* ribos_vm_handle_move_v1; the move of a COPY handle returns the same token
Move(i, generation, type) ==
    /\ Accepts(i, generation, type)
    /\ type \notin CopyTypes
    /\ CanAdvance(generation)
    /\ Bind(i, generation + 1, type, host[i].object)
    /\ UNCHANGED <<borrows, leases>>

\* Mutant of ConsumeBegin: the generation stays until the consume ends.
ConsumeBeginSameGeneration(i, generation, type) ==
    /\ Accepts(i, generation, type)
    /\ type \notin CopyTypes
    /\ CanAdvance(generation)
    /\ table' = [table EXCEPT ![i] = Record(generation, "IN_FLIGHT", type)]
    /\ leases' = leases \cup {Grant(i, generation, type, host[i].object)}
    /\ UNCHANGED <<host, borrows, issued>>

\* ribos_vm_handle_consume_begin_v1: the token is stale before the callback runs
ConsumeBegin(i, generation, type) ==
    /\ Accepts(i, generation, type)
    /\ type \notin CopyTypes
    /\ CanAdvance(generation)
    /\ table' = [table EXCEPT ![i] = Record(generation + 1, "IN_FLIGHT", type)]
    /\ host' = [host EXCEPT ![i] = Binding(generation + 1, host[i].object)]
    /\ leases' = leases \cup {Grant(i, generation + 1, type, host[i].object)}
    /\ UNCHANGED <<borrows, issued>>

\* consume_lease_record
LeaseStands(l) ==
    /\ table[l.index] = Record(l.generation, "IN_FLIGHT", l.type)
    /\ host[l.index] = Binding(l.generation, l.object)

\* record_revoke
Revoked(record) == Record(Advanced(record.generation), "REVOKED", NoType)

RevokeRecord(i) ==
    /\ table' = [table EXCEPT ![i] = Revoked(table[i])]
    /\ host' = [host EXCEPT ![i] = Clear]

\* ribos_vm_handle_consume_finish_v1, for both dispositions
ConsumeFinish(l) ==
    /\ LeaseStands(l)
    /\ RevokeRecord(l.index)
    /\ leases' = leases \ {l}
    /\ UNCHANGED <<borrows, issued>>

\* ribos_vm_handle_consume_replace_v1: the generation of the lease becomes a token
ConsumeReplace(l, type, object) ==
    /\ LeaseStands(l)
    /\ type # l.type
    /\ type \notin CopyTypes
    /\ Bind(l.index, l.generation, type, object)
    /\ leases' = leases \ {l}
    /\ UNCHANGED borrows

\* ribos_vm_handle_revoke_v1
Revoke(i, generation) ==
    /\ \E type \in Types : Accepts(i, generation, type)
    /\ RevokeRecord(i)
    /\ UNCHANGED <<borrows, leases, issued>>

\* ribos_vm_handle_fault_cleanup_v1: the borrows and leases end with the run
FaultCleanup ==
    /\ table' = [i \in Indices |-> IF table[i].lifecycle \in Live
                                   THEN Revoked(table[i]) ELSE table[i]]
    /\ host' = [i \in Indices |-> Clear]
    /\ borrows' = {}
    /\ leases' = {}
    /\ UNCHANGED issued

HandleNext ==
    \/ \E type \in Types, object \in Objects : Create(type, object)
    \/ \E i \in Indices, generation \in 1 .. MaxGeneration, type \in Types :
          \/ BorrowBegin(i, generation, type)
          \/ Move(i, generation, type)
          \/ ConsumeBegin(i, generation, type)
    \/ \E b \in borrows : BorrowEnd(b)
    \/ \E l \in leases : ConsumeFinish(l)
    \/ \E l \in leases, type \in Types, object \in Objects :
          ConsumeReplace(l, type, object)
    \/ \E i \in Indices, generation \in 1 .. MaxGeneration : Revoke(i, generation)
    \/ FaultCleanup

HandleSpec == HandleInit /\ [][HandleNext]_handleVars

-----------------------------------------------------------------------------

\* Types of the handle tables.
HandleTypeOK ==
    /\ table \in [Indices -> Records]
    /\ host \in [Indices -> Bindings]
    /\ borrows \subseteq Grants
    /\ leases \subseteq Grants
    /\ issued \subseteq Grants

(***************************************************************************)
(* A token that a lookup accepts names the object it was issued for, with  *)
(* the type it was issued with, whatever became of its index in between:   *)
(* record_from_token never takes a stale token for a new object, not even  *)
(* when the generation reached its limit.                                  *)
(***************************************************************************)
TokensDenote ==
    \A g \in issued : \A type \in Types :
        Accepts(g.index, g.generation, type) =>
            type = g.type /\ host[g.index].object = g.object

(***************************************************************************)
(* An object that is borrowed, or held by a lease, stays bound to its      *)
(* index until the borrow or the lease ends: no other operation moves,     *)
(* replaces or revokes it meanwhile.                                       *)
(***************************************************************************)
LeasesStand ==
    /\ \A b \in borrows : BorrowStands(b)
    /\ \A l \in leases : LeaseStands(l)

\* The generation of a record never goes back, and a record whose generation
\* reached the limit and was revoked is never used again (handle_create).
GenerationsAdvance ==
    [][\A i \in Indices :
          /\ table'[i].generation >= table[i].generation
          /\ (table[i].lifecycle = "REVOKED" /\ ~CanAdvance(table[i].generation))
                => table'[i] = table[i]]_handleVars
=============================================================================
