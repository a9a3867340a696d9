---------------------------- MODULE PolicyProofs ----------------------------
(***************************************************************************)
(* Proofs about the generation handles and about the runs that use them.   *)
(*                                                                         *)
(* HInv strengthens the properties of the handle table: the generation of  *)
(* a token never exceeds that of its record, a token of the current        *)
(* generation was issued for what the record holds now, and a record in    *)
(* flight has a generation for which no token was issued yet.              *)
(*                                                                         *)
(* The second part is about the objects behind the handles: no object      *)
(* that a live handle names was dropped or transferred, and one handle     *)
(* names an object that is not COPY.                                       *)
(*                                                                         *)
(* AInv says who may hold an object: the VM knows only objects it was      *)
(* given, one record owns an object that is not COPY, a run between two    *)
(* calls has no lease and a call has at most one, and the pending object   *)
(* of a call is owned by no record but, when it is replaced in place, the  *)
(* one in flight.                                                          *)
(***************************************************************************)
EXTENDS PolicyVm, TLAPS

\* A record that is live has a host binding of its generation.
LiveAreBound ==
    \A i \in Indices : table[i].lifecycle \in Live =>
        /\ table[i].type \in Types
        /\ table[i].generation # 0
        /\ host[i].object \in Objects
        /\ host[i].generation = table[i].generation

IssuedIsPast ==
    \A g \in issued :
        /\ g.generation <= table[g.index].generation
        /\ g.generation = table[g.index].generation =>
              /\ table[g.index].lifecycle # "IN_FLIGHT"
              /\ table[g.index].lifecycle \in {"AVAILABLE", "BORROWED"} =>
                    table[g.index].type = g.type /\ host[g.index].object = g.object

HInv == HandleTypeOK /\ LiveAreBound /\ IssuedIsPast /\ LeasesStand

-----------------------------------------------------------------------------

\* Advanced stays within the limit and never goes back.
LEMMA AdvancedType ==
    ASSUME NEW g \in 0 .. MaxGeneration
    PROVE  /\ Advanced(g) \in 0 .. MaxGeneration
           /\ Advanced(g) >= g
           /\ CanAdvance(g) => Advanced(g) = g + 1 /\ Advanced(g) \in 1 .. MaxGeneration
  BY GenerationAssumption DEF Advanced, CanAdvance

\* The fields of the records that the operations build.
LEMMA RecordFields ==
    /\ \A g, l, t : /\ Record(g, l, t).generation = g
                    /\ Record(g, l, t).lifecycle = l
                    /\ Record(g, l, t).type = t
    /\ \A g, o : Binding(g, o).generation = g /\ Binding(g, o).object = o
    /\ \A i, g, t, o : /\ Grant(i, g, t, o).index = i
                       /\ Grant(i, g, t, o).generation = g
                       /\ Grant(i, g, t, o).type = t
                       /\ Grant(i, g, t, o).object = o
  BY ZenonT(30) DEF Record, Binding, Grant

\* The initial tables satisfy the invariant.
LEMMA HandleInitHolds == HandleInit => HInv
  <1> SUFFICES ASSUME HandleInit PROVE HInv
    BY ZenonT(30)
  <1> USE GenerationAssumption, CapacityAssumption
  <1>1. HandleTypeOK
    BY DEF HandleInit, HandleTypeOK, Records, Bindings, Record, Binding, Clear, Lifecycles
  <1>2. LiveAreBound
    BY ZenonT(30) DEF HandleInit, LiveAreBound, Record, Live
  <1>3. IssuedIsPast /\ LeasesStand
    BY ZenonT(30) DEF HandleInit, IssuedIsPast, LeasesStand
  <1> QED
    BY <1>1, <1>2, <1>3, ZenonT(30) DEF HInv

\* Bind at an index that no borrow or lease but the given lease names, with a
\* generation that no token of that index has.
LEMMA BindHolds ==
    ASSUME HInv, NEW i \in Indices, NEW generation \in 1 .. MaxGeneration,
           NEW type \in Types, NEW object \in Objects,
           Bind(i, generation, type, object),
           generation >= table[i].generation,
           \A g \in issued : g.index = i => g.generation < generation,
           borrows' \subseteq borrows, leases' \subseteq leases,
           \A b \in borrows' \cup leases' : b.index # i
    PROVE  HInv'
  <1>0. /\ table' = [table EXCEPT ![i] = Record(generation, "AVAILABLE", type)]
        /\ host' = [host EXCEPT ![i] = Binding(generation, object)]
        /\ issued' = issued \cup {Grant(i, generation, type, object)}
    BY ZenonT(30) DEF Bind
  <1>1. HandleTypeOK'
    BY <1>0 DEF HInv, HandleTypeOK, Records, Bindings, Grants, Record, Binding,
                Grant, Lifecycles
  <1>2. LiveAreBound'
    BY <1>0, ObjectAssumption
       DEF HInv, HandleTypeOK, LiveAreBound, Record, Binding, Live
  <1>3. IssuedIsPast'
    <2> SUFFICES ASSUME NEW g \in issued'
                 PROVE  /\ g.generation <= table'[g.index].generation
                        /\ g.generation = table'[g.index].generation =>
                              /\ table'[g.index].lifecycle # "IN_FLIGHT"
                              /\ table'[g.index].lifecycle \in {"AVAILABLE", "BORROWED"} =>
                                    /\ table'[g.index].type = g.type
                                    /\ host'[g.index].object = g.object
      BY ZenonT(30) DEF IssuedIsPast
    <2>1. CASE g = Grant(i, generation, type, object)
      BY <2>1, <1>0 DEF HInv, HandleTypeOK, Grant, Record, Binding
    <2>2. CASE g \in issued /\ g.index = i
      <3>1. g.generation < generation /\ g.generation \in Nat
        BY <2>2 DEF HInv, HandleTypeOK, Grants
      <3> QED
        BY <2>2, <3>1, <1>0 DEF HInv, HandleTypeOK, Record
    <2>3. CASE g \in issued /\ g.index # i
      BY <2>3, <1>0, ZenonT(30) DEF HInv, HandleTypeOK, IssuedIsPast, Grants
    <2> QED
      BY <2>1, <2>2, <2>3, <1>0, ZenonT(30)
  <1>4. LeasesStand'
    BY <1>0, ZenonT(30) DEF HInv, HandleTypeOK, LeasesStand, BorrowStands, LeaseStands, Grants
  <1> QED
    BY <1>1, <1>2, <1>3, <1>4, ZenonT(30) DEF HInv

\* A step that only changes the lifecycle of a record between AVAILABLE and
\* BORROWED keeps what the tokens say.
LEMMA MarkHolds ==
    ASSUME HInv, NEW i \in Indices, NEW lifecycle \in {"AVAILABLE", "BORROWED"},
           table[i].lifecycle \in {"AVAILABLE", "BORROWED"},
           table' = [table EXCEPT ![i].lifecycle = lifecycle],
           UNCHANGED <<host, issued>>
    PROVE  /\ table' \in [Indices -> Records]
           /\ LiveAreBound' /\ IssuedIsPast'
  <1>1. /\ table' \in [Indices -> Records]
        /\ table'[i].lifecycle = lifecycle
        /\ table'[i].generation = table[i].generation
        /\ table'[i].type = table[i].type
        /\ \A j \in Indices : j # i => table'[j] = table[j]
    BY ZenonT(30) DEF HInv, HandleTypeOK, Records, Lifecycles
  <1>2. LiveAreBound'
    BY <1>1, ZenonT(30) DEF HInv, HandleTypeOK, LiveAreBound, Live
  <1>3. IssuedIsPast'
    BY <1>1 DEF HInv, HandleTypeOK, IssuedIsPast, Grants
  <1> QED
    BY <1>1, <1>2, <1>3, ZenonT(30)

\* Revoking the records in a set, and clearing their host entries and perhaps
\* others that are not live.
LEMMA RevokeHolds ==
    ASSUME HInv, NEW S \in SUBSET Indices, NEW C \in SUBSET Indices, S \subseteq C,
           \A i \in C \ S : table[i].lifecycle \notin Live,
           table' = [i \in Indices |-> IF i \in S THEN Revoked(table[i]) ELSE table[i]],
           host' = [i \in Indices |-> IF i \in C THEN Clear ELSE host[i]],
           UNCHANGED issued,
           borrows' \subseteq borrows, leases' \subseteq leases,
           \A b \in borrows' \cup leases' : b.index \notin C
    PROVE  HInv'
  <1>1. \A i \in S : /\ Revoked(table[i]).generation \in 0 .. MaxGeneration
                     /\ Revoked(table[i]).generation >= table[i].generation
                     /\ Revoked(table[i]).lifecycle = "REVOKED"
                     /\ Revoked(table[i]) \in Records
    <2> TAKE i \in S
    <2>1. table[i].generation \in 0 .. MaxGeneration
      BY ZenonT(30) DEF HInv, HandleTypeOK, Records
    <2> QED
      BY <2>1, AdvancedType, ZenonT(30) DEF Revoked, Record, Records, Lifecycles
  <1>2. HandleTypeOK'
    BY <1>1, GenerationAssumption DEF HInv, HandleTypeOK, Bindings, Clear, Binding
  <1>3. LiveAreBound'
    BY <1>1, ZenonT(30) DEF HInv, LiveAreBound, Live
  <1>4. IssuedIsPast'
    <2> SUFFICES ASSUME NEW g \in issued
                 PROVE  /\ g.generation <= table'[g.index].generation
                        /\ g.generation = table'[g.index].generation =>
                              /\ table'[g.index].lifecycle # "IN_FLIGHT"
                              /\ table'[g.index].lifecycle \in {"AVAILABLE", "BORROWED"} =>
                                    /\ table'[g.index].type = g.type
                                    /\ host'[g.index].object = g.object
      BY ZenonT(30) DEF IssuedIsPast
    <2>1. /\ g.index \in Indices /\ g.generation \in Nat
          /\ g.generation <= table[g.index].generation
          /\ table[g.index].generation \in Nat
      BY DEF HInv, HandleTypeOK, IssuedIsPast, Grants, Records
    <2>2. CASE g.index \in S
      <3>1. table'[g.index] = Revoked(table[g.index])
        BY <2>1, <2>2, ZenonT(30)
      <3> QED
        BY <2>1, <2>2, <3>1, <1>1
    <2>3. CASE g.index \notin S
      <3>1. table'[g.index] = table[g.index]
        BY <2>1, <2>3, ZenonT(30)
      <3>2. CASE g.index \in C
        BY <2>1, <2>3, <3>1, <3>2, ZenonT(30) DEF HInv, IssuedIsPast, Live
      <3>3. CASE g.index \notin C
        BY <2>1, <3>1, <3>3, ZenonT(30) DEF HInv, IssuedIsPast
      <3> QED
        BY <3>2, <3>3, ZenonT(30)
    <2> QED
      BY <2>2, <2>3, ZenonT(30)
  <1>5. LeasesStand'
    BY ZenonT(30) DEF HInv, HandleTypeOK, LeasesStand, BorrowStands, LeaseStands, Grants
  <1> QED
    BY <1>2, <1>3, <1>4, <1>5, ZenonT(30) DEF HInv

-----------------------------------------------------------------------------
\* One lemma per operation of the handle table.

\* The records that borrows and leases name.
LEMMA LeaseFacts ==
    ASSUME HInv
    PROVE  /\ \A b \in borrows : b \in Grants /\ table[b.index].lifecycle = "BORROWED"
           /\ \A l \in leases : l \in Grants /\ table[l.index].lifecycle = "IN_FLIGHT"
  <1>1. ASSUME NEW b \in borrows
        PROVE  b \in Grants /\ table[b.index].lifecycle = "BORROWED"
    <2>1. b \in Grants /\ table[b.index] = Record(b.generation, "BORROWED", b.type)
      BY ZenonT(30) DEF HInv, HandleTypeOK, LeasesStand, BorrowStands
    <2> QED
      BY <2>1 DEF Record
  <1>2. ASSUME NEW l \in leases
        PROVE  l \in Grants /\ table[l.index].lifecycle = "IN_FLIGHT"
    <2>1. l \in Grants /\ table[l.index] = Record(l.generation, "IN_FLIGHT", l.type)
      BY ZenonT(30) DEF HInv, HandleTypeOK, LeasesStand, LeaseStands
    <2> QED
      BY <2>1 DEF Record
  <1> QED
    BY <1>1, <1>2, ZenonT(30)

\* What is known of a record that accepts a token.
LEMMA AcceptedFacts ==
    ASSUME HInv, NEW i \in Indices, NEW generation, NEW type \in Types,
           Accepts(i, generation, type)
    PROVE  /\ table[i].lifecycle = "AVAILABLE" /\ table[i].generation = generation
           /\ table[i].type = type
           /\ generation \in 1 .. MaxGeneration
           /\ host[i].object \in Objects
           /\ host[i] = Binding(generation, host[i].object)
           /\ \A b \in borrows \cup leases : b.index # i
  <1>1. /\ table[i].lifecycle = "AVAILABLE" /\ table[i].generation = generation
        /\ table[i].type = type /\ host[i].generation = generation
    BY ZenonT(30) DEF Accepts, IsBound
  <1>2. generation \in 1 .. MaxGeneration /\ host[i].object \in Objects
    BY <1>1, GenerationAssumption DEF HInv, LiveAreBound, Live, HandleTypeOK, Records
  <1>3. host[i] = Binding(generation, host[i].object)
    BY <1>1, ZenonT(30) DEF HInv, HandleTypeOK, Bindings, Binding
  <1>4. \A b \in borrows \cup leases : b.index # i
    BY <1>1, LeaseFacts, ZenonT(30)
  <1> QED
    BY <1>1, <1>2, <1>3, <1>4, ZenonT(30)

\* Create takes a record that no borrow or lease names.
LEMMA CreateHolds ==
    ASSUME HInv, NEW type \in Types, NEW object \in Objects, Create(type, object)
    PROVE  HInv'
  <1>1. PICK i \in Indices :
           /\ IsFree(i)
           /\ Bind(i, Advanced(table[i].generation), type, object)
           /\ UNCHANGED <<borrows, leases>>
    BY ZenonT(30) DEF Create
  <1> DEFINE next == Advanced(table[i].generation)
  <1>2. table[i].generation \in 0 .. MaxGeneration
    BY ZenonT(30) DEF HInv, HandleTypeOK, Records
  <1>3. next \in 1 .. MaxGeneration /\ next = table[i].generation + 1
    BY <1>1, <1>2, AdvancedType, ZenonT(30) DEF IsFree
  <1>4. \A g \in issued : g.index = i => g.generation < next
    BY <1>2, <1>3 DEF HInv, HandleTypeOK, Grants, IssuedIsPast
  <1>5. \A b \in borrows' \cup leases' : b.index # i
    BY <1>1, LeaseFacts, ZenonT(30) DEF IsFree
  <1>6. next >= table[i].generation
    BY <1>2, <1>3
  <1>7. Bind(i, next, type, object) /\ borrows' \subseteq borrows /\ leases' \subseteq leases
    BY <1>1, ZenonT(30)
  <1> HIDE DEF next
  <1> QED
    BY <1>3, <1>4, <1>5, <1>6, <1>7, BindHolds, ZenonT(30)

\* A borrow is taken of a record that nothing else names.
LEMMA BorrowBeginHolds ==
    ASSUME HInv, NEW i \in Indices, NEW generation \in 1 .. MaxGeneration,
           NEW type \in Types, BorrowBegin(i, generation, type)
    PROVE  HInv'
  <1> DEFINE b0 == Grant(i, generation, type, host[i].object)
  <1>1. /\ Accepts(i, generation, type)
        /\ table' = [table EXCEPT ![i].lifecycle = "BORROWED"]
        /\ borrows' = borrows \cup {b0}
        /\ UNCHANGED <<host, leases, issued>>
    BY ZenonT(30) DEF BorrowBegin
  <1>2. /\ table[i].lifecycle = "AVAILABLE" /\ table[i].generation = generation
        /\ table[i].type = type
        /\ host[i].object \in Objects
        /\ host[i] = Binding(generation, host[i].object)
        /\ \A b \in borrows \cup leases : b.index # i
    BY <1>1, AcceptedFacts, ZenonT(30)
  <1>3. table' \in [Indices -> Records] /\ LiveAreBound' /\ IssuedIsPast'
    BY <1>1, <1>2, MarkHolds, ZenonT(60)
  <1>4. b0 \in Grants
    BY <1>2, ZenonT(30) DEF Grants, Grant
  <1>5. HandleTypeOK'
    BY <1>1, <1>3, <1>4, ZenonT(30) DEF HInv, HandleTypeOK
  <1>6. table'[i] = Record(generation, "BORROWED", type)
    BY <1>1, <1>2, ZenonT(30) DEF HInv, HandleTypeOK, Records, Record
  <1>7. b0.index = i /\ b0.generation = generation /\ b0.type = type
            /\ b0.object = host[i].object
    BY ZenonT(30) DEF Grant
  <1>8. \A b \in borrows \cup leases : table'[b.index] = table[b.index]
    BY <1>1, <1>2, ZenonT(30) DEF HInv, HandleTypeOK, Grants
  <1>9. LeasesStand'
    BY <1>1, <1>2, <1>6, <1>7, <1>8, ZenonT(30) DEF HInv, LeasesStand, BorrowStands, LeaseStands
  <1> QED
    BY <1>3, <1>5, <1>9, ZenonT(30) DEF HInv

\* A borrow ends; the record it names is named by nothing else.
LEMMA BorrowEndHolds ==
    ASSUME HInv, NEW b \in borrows, BorrowEnd(b)
    PROVE  HInv'
  <1>1. /\ BorrowStands(b)
        /\ table' = [table EXCEPT ![b.index].lifecycle = "AVAILABLE"]
        /\ borrows' = borrows \ {b}
        /\ UNCHANGED <<host, leases, issued>>
    BY ZenonT(30) DEF BorrowEnd
  <1>2. b \in Grants /\ b.index \in Indices
    BY ZenonT(30) DEF HInv, HandleTypeOK, Grants
  <1>3. table[b.index].lifecycle = "BORROWED"
    BY <1>1 DEF BorrowStands, Record
  <1>4. table' \in [Indices -> Records] /\ LiveAreBound' /\ IssuedIsPast'
    BY <1>1, <1>2, <1>3, MarkHolds, ZenonT(60)
  <1>5. HandleTypeOK'
    BY <1>1, <1>4, ZenonT(30) DEF HInv, HandleTypeOK
  <1>6. ASSUME NEW c \in borrows, c.index = b.index PROVE c = b
    <2>1. c \in Grants /\ BorrowStands(c)
      BY ZenonT(30) DEF HInv, HandleTypeOK, LeasesStand
    <2>2. /\ c.generation = b.generation /\ c.type = b.type
          /\ c.object = b.object
      BY <2>1, <1>1, <1>6 DEF BorrowStands, Record, Binding
    <2> QED
      BY <2>1, <2>2, <1>2, <1>6 DEF Grants
  <1>7. \A l \in leases : l.index # b.index
    BY <1>3, LeaseFacts, ZenonT(30)
  <1>8. \A c \in borrows' \cup leases' : table'[c.index] = table[c.index]
    <2> TAKE c \in borrows' \cup leases'
    <2>1. c.index # b.index /\ c.index \in Indices
      BY <1>1, <1>6, <1>7, ZenonT(30) DEF HInv, HandleTypeOK, Grants
    <2> QED
      BY <2>1, <1>1, ZenonT(30) DEF HInv, HandleTypeOK
  <1>9. LeasesStand'
    BY <1>1, <1>8, ZenonT(30) DEF HInv, LeasesStand, BorrowStands, LeaseStands
  <1> QED
    BY <1>4, <1>5, <1>9, ZenonT(30) DEF HInv

\* Move issues a token of a generation that no token has.
LEMMA MoveHolds ==
    ASSUME HInv, NEW i \in Indices, NEW generation \in 1 .. MaxGeneration,
           NEW type \in Types, Move(i, generation, type)
    PROVE  HInv'
  <1>1. /\ Accepts(i, generation, type) /\ generation < MaxGeneration
        /\ Bind(i, generation + 1, type, host[i].object)
        /\ UNCHANGED <<borrows, leases>>
    BY ZenonT(30) DEF Move, CanAdvance
  <1>2. /\ table[i].generation = generation
        /\ host[i].object \in Objects
        /\ \A b \in borrows \cup leases : b.index # i
    BY <1>1, AcceptedFacts, ZenonT(30)
  <1> DEFINE next == generation + 1
             object == host[i].object
  <1>3. next \in 1 .. MaxGeneration /\ next >= table[i].generation
    BY <1>1, <1>2, GenerationAssumption
  <1>4. \A g \in issued : g.index = i => g.generation < next
    BY <1>2 DEF HInv, HandleTypeOK, Grants, IssuedIsPast
  <1>5. /\ Bind(i, next, type, object) /\ object \in Objects
        /\ borrows' \subseteq borrows /\ leases' \subseteq leases
        /\ \A b \in borrows' \cup leases' : b.index # i
    BY <1>1, <1>2, ZenonT(30)
  <1> HIDE DEF next, object
  <1> QED
    BY <1>3, <1>4, <1>5, BindHolds, ZenonT(30)

\* The lease has a generation of its own, and no token has it.
LEMMA ConsumeBeginHolds ==
    ASSUME HInv, NEW i \in Indices, NEW generation \in 1 .. MaxGeneration,
           NEW type \in Types, ConsumeBegin(i, generation, type)
    PROVE  HInv'
  <1> DEFINE next == generation + 1
             object == host[i].object
             l0 == Grant(i, next, type, object)
  <1>1. /\ Accepts(i, generation, type) /\ generation < MaxGeneration
        /\ table' = [table EXCEPT ![i] = Record(next, "IN_FLIGHT", type)]
        /\ host' = [host EXCEPT ![i] = Binding(next, object)]
        /\ leases' = leases \cup {l0}
        /\ UNCHANGED <<borrows, issued>>
    BY ZenonT(30) DEF ConsumeBegin, CanAdvance
  <1>2. /\ table[i].generation = generation
        /\ object \in Objects
        /\ \A b \in borrows \cup leases : b.index # i
    BY <1>1, AcceptedFacts, ZenonT(30)
  <1>3. next \in 1 .. MaxGeneration /\ next > generation /\ next # 0
    BY <1>1, GenerationAssumption
  <1>4. l0 \in Grants /\ l0.index = i /\ l0.generation = next /\ l0.type = type
            /\ l0.object = object
    BY <1>2, <1>3, ZenonT(30) DEF Grants, Grant
  <1> HIDE DEF next, object, l0
  <1>5. /\ table'[i] = Record(next, "IN_FLIGHT", type)
        /\ host'[i] = Binding(next, object)
        /\ \A j \in Indices : j # i => table'[j] = table[j] /\ host'[j] = host[j]
    BY <1>1, ZenonT(30) DEF HInv, HandleTypeOK
  <1>6. HandleTypeOK'
    BY <1>1, <1>2, <1>3, <1>4 DEF HInv, HandleTypeOK, Records, Bindings, Record,
                                   Binding, Lifecycles
  <1>7. LiveAreBound'
    BY <1>2, <1>3, <1>5, SMTT(30) DEF HInv, LiveAreBound, Record, Binding
  <1>8. IssuedIsPast'
    <2> SUFFICES ASSUME NEW g \in issued
                 PROVE  /\ g.generation <= table'[g.index].generation
                        /\ g.generation = table'[g.index].generation =>
                              /\ table'[g.index].lifecycle # "IN_FLIGHT"
                              /\ table'[g.index].lifecycle \in {"AVAILABLE", "BORROWED"} =>
                                    /\ table'[g.index].type = g.type
                                    /\ host'[g.index].object = g.object
      BY <1>1, ZenonT(30) DEF IssuedIsPast
    <2>1. /\ g.index \in Indices /\ g.generation \in Nat
          /\ g.generation <= table[g.index].generation
      BY DEF HInv, HandleTypeOK, IssuedIsPast, Grants
    <2>2. CASE g.index = i
      <3>1. table'[g.index].generation = next
        BY <2>2, <1>5 DEF Record
      <3>2. g.generation < next
        BY <2>1, <2>2, <1>2, <1>3, SMTT(30)
      <3> QED
        BY <3>1, <3>2, <2>1, <1>3
    <2>3. CASE g.index # i
      BY <2>1, <2>3, <1>5, ZenonT(30) DEF HInv, IssuedIsPast
    <2> QED
      BY <2>2, <2>3, ZenonT(30)
  <1>9. LeasesStand'
    <2>1. \A b \in borrows \cup leases :
              table'[b.index] = table[b.index] /\ host'[b.index] = host[b.index]
      BY <1>2, <1>5, LeaseFacts, ZenonT(30) DEF Grants
    <2> QED
      BY <2>1, <1>1, <1>4, <1>5 DEF HInv, LeasesStand, BorrowStands, LeaseStands
  <1> QED
    BY <1>6, <1>7, <1>8, <1>9, ZenonT(30) DEF HInv

\* At most one lease, and no borrow, names an index.
LEMMA LeaseIsAlone ==
    ASSUME HInv, NEW l \in leases
    PROVE  /\ l \in Grants /\ l.index \in Indices
           /\ table[l.index].lifecycle = "IN_FLIGHT"
           /\ table[l.index].generation = l.generation
           /\ \A c \in borrows \cup (leases \ {l}) : c.index # l.index
  <1>1. l \in Grants /\ l.index \in Indices /\ LeaseStands(l)
    BY ZenonT(30) DEF HInv, HandleTypeOK, Grants, LeasesStand
  <1>2. /\ table[l.index].lifecycle = "IN_FLIGHT"
        /\ table[l.index].generation = l.generation
    BY <1>1 DEF LeaseStands, Record
  <1>3. ASSUME NEW c \in leases, c.index = l.index PROVE c = l
    <2>1. c \in Grants /\ LeaseStands(c)
      BY ZenonT(30) DEF HInv, HandleTypeOK, LeasesStand
    <2>2. c.generation = l.generation /\ c.type = l.type /\ c.object = l.object
      BY <2>1, <1>1, <1>3 DEF LeaseStands, Record, Binding
    <2> QED
      BY <2>1, <2>2, <1>1, <1>3 DEF Grants
  <1>4. \A b \in borrows : b.index # l.index
    BY <1>2, LeaseFacts, ZenonT(30)
  <1> QED
    BY <1>1, <1>2, <1>3, <1>4, ZenonT(30)

\* Revoking one record that nothing but the removed lease names.
LEMMA RevokeRecordHolds ==
    ASSUME HInv, NEW i \in Indices, RevokeRecord(i), UNCHANGED issued,
           borrows' \subseteq borrows, leases' \subseteq leases,
           \A b \in borrows' \cup leases' : b.index # i
    PROVE  HInv'
  <1>1. table' = [j \in Indices |-> IF j \in {i} THEN Revoked(table[j]) ELSE table[j]]
    BY ZenonT(60) DEF RevokeRecord, HInv, HandleTypeOK
  <1>2. host' = [j \in Indices |-> IF j \in {i} THEN Clear ELSE host[j]]
    BY ZenonT(60) DEF RevokeRecord, HInv, HandleTypeOK
  <1> DEFINE S == {i}
  <1>3. S \in SUBSET Indices /\ S \subseteq S
    BY ZenonT(30)
  <1>4. \A b \in borrows' \cup leases' : b.index \notin S
    BY ZenonT(30)
  <1>5. \A j \in S \ S : table[j].lifecycle \notin Live
    BY ZenonT(30)
  <1>6. /\ table' = [j \in Indices |-> IF j \in S THEN Revoked(table[j]) ELSE table[j]]
        /\ host' = [j \in Indices |-> IF j \in S THEN Clear ELSE host[j]]
    BY <1>1, <1>2, ZenonT(30)
  <1> HIDE DEF S
  <1> QED
    BY <1>3, <1>4, <1>5, <1>6, RevokeHolds, ZenonT(30)

\* The end of a consume revokes the record of its lease.
LEMMA ConsumeFinishHolds ==
    ASSUME HInv, NEW l \in leases, ConsumeFinish(l)
    PROVE  HInv'
  <1>1. /\ RevokeRecord(l.index) /\ leases' = leases \ {l}
        /\ borrows' = borrows /\ UNCHANGED issued
    BY ZenonT(30) DEF ConsumeFinish
  <1>2. l.index \in Indices /\ \A c \in borrows' \cup leases' : c.index # l.index
    BY <1>1, LeaseIsAlone, ZenonT(30)
  <1> QED
    BY <1>1, <1>2, RevokeRecordHolds, ZenonT(30)

\* A replacement issues the generation of the lease, which no token has.
LEMMA ConsumeReplaceHolds ==
    ASSUME HInv, NEW l \in leases, NEW type \in Types, NEW object \in Objects,
           ConsumeReplace(l, type, object)
    PROVE  HInv'
  <1>1. /\ Bind(l.index, l.generation, type, object)
        /\ leases' = leases \ {l} /\ borrows' = borrows
    BY ZenonT(30) DEF ConsumeReplace
  <1>2. /\ l \in Grants /\ l.index \in Indices
        /\ table[l.index].lifecycle = "IN_FLIGHT"
        /\ table[l.index].generation = l.generation
        /\ \A c \in borrows' \cup leases' : c.index # l.index
    BY <1>1, LeaseIsAlone, ZenonT(30)
  <1>3. l.generation \in 1 .. MaxGeneration /\ l.generation >= table[l.index].generation
    BY <1>2, GenerationAssumption DEF Grants
  <1>4. \A g \in issued : g.index = l.index => g.generation < l.generation
    <2> TAKE g \in issued
    <2> HAVE g.index = l.index
    <2>1. g.generation \in Nat /\ l.generation \in Nat
      BY <1>2 DEF HInv, HandleTypeOK, Grants
    <2>2. g.generation <= l.generation /\ g.generation # l.generation
      BY <1>2, ZenonT(30) DEF HInv, IssuedIsPast
    <2> QED
      BY <2>1, <2>2
  <1> QED
    BY <1>1, <1>2, <1>3, <1>4, BindHolds, ZenonT(30)

\* Revoke takes a record that accepts a token.
LEMMA RevokeOneHolds ==
    ASSUME HInv, NEW i \in Indices, NEW generation \in 1 .. MaxGeneration,
           Revoke(i, generation)
    PROVE  HInv'
  <1>1. /\ \E type \in Types : Accepts(i, generation, type)
        /\ RevokeRecord(i)
        /\ borrows' = borrows /\ leases' = leases /\ UNCHANGED issued
    BY ZenonT(30) DEF Revoke
  <1>2. \A b \in borrows \cup leases : b.index # i
    BY <1>1, AcceptedFacts, ZenonT(30)
  <1> QED
    BY <1>1, <1>2, RevokeRecordHolds, ZenonT(30)

\* The cleanup ends everything.
LEMMA FaultCleanupHolds ==
    ASSUME HInv, FaultCleanup
    PROVE  HInv'
  <1> DEFINE S == {i \in Indices : table[i].lifecycle \in Live}
             C == Indices
  <1>1. S \in SUBSET Indices /\ C \in SUBSET Indices /\ S \subseteq C
    BY ZenonT(30)
  <1>2. \A i \in C \ S : table[i].lifecycle \notin Live
    BY ZenonT(30)
  <1>3. /\ table' = [i \in Indices |-> IF i \in S THEN Revoked(table[i]) ELSE table[i]]
        /\ host' = [i \in Indices |-> IF i \in C THEN Clear ELSE host[i]]
    BY ZenonT(30) DEF FaultCleanup
  <1>4. /\ UNCHANGED issued /\ borrows' \subseteq borrows /\ leases' \subseteq leases
        /\ \A b \in borrows' \cup leases' : b.index \notin C
    BY ZenonT(30) DEF FaultCleanup
  <1> HIDE DEF S, C
  <1> QED
    BY <1>1, <1>2, <1>3, <1>4, RevokeHolds, ZenonT(30)

\* Every step of the handle table keeps the invariant.
LEMMA HandleStepHolds == HInv /\ [HandleNext]_handleVars => HInv'
  <1> SUFFICES ASSUME HInv, [HandleNext]_handleVars PROVE HInv'
    BY ZenonT(30)
  <1>1. CASE UNCHANGED handleVars
    BY <1>1, ZenonT(30) DEF handleVars, HInv, HandleTypeOK, LiveAreBound, IssuedIsPast, LeasesStand,
                BorrowStands, LeaseStands
  <1>2. ASSUME NEW type \in Types, NEW object \in Objects, Create(type, object)
        PROVE  HInv'
    BY <1>2, CreateHolds, ZenonT(30)
  <1>3. ASSUME NEW i \in Indices, NEW generation \in 1 .. MaxGeneration,
               NEW type \in Types,
               \/ BorrowBegin(i, generation, type)
               \/ Move(i, generation, type)
               \/ ConsumeBegin(i, generation, type)
        PROVE  HInv'
    BY <1>3, BorrowBeginHolds, MoveHolds, ConsumeBeginHolds, ZenonT(30)
  <1>4. ASSUME NEW b \in borrows, BorrowEnd(b) PROVE HInv'
    BY <1>4, BorrowEndHolds, ZenonT(30)
  <1>5. ASSUME NEW l \in leases, ConsumeFinish(l) PROVE HInv'
    BY <1>5, ConsumeFinishHolds, ZenonT(30)
  <1>6. ASSUME NEW l \in leases, NEW type \in Types, NEW object \in Objects,
               ConsumeReplace(l, type, object)
        PROVE  HInv'
    BY <1>6, ConsumeReplaceHolds, ZenonT(30)
  <1>7. ASSUME NEW i \in Indices, NEW generation \in 1 .. MaxGeneration,
               Revoke(i, generation)
        PROVE  HInv'
    BY <1>7, RevokeOneHolds, ZenonT(30)
  <1>8. CASE FaultCleanup
    BY <1>8, FaultCleanupHolds, ZenonT(30)
  <1> QED
    BY <1>1, <1>2, <1>3, <1>4, <1>5, <1>6, <1>7, <1>8, ZenonT(30) DEF HandleNext

\* The invariant gives the properties of the handle table.
LEMMA HInvSuffices == HInv => HandleTypeOK /\ TokensDenote /\ LeasesStand
  <1> SUFFICES ASSUME HInv PROVE HandleTypeOK /\ TokensDenote /\ LeasesStand
    BY ZenonT(30)
  <1>1. ASSUME NEW g \in issued, NEW type \in Types, Accepts(g.index, g.generation, type)
        PROVE  type = g.type /\ host[g.index].object = g.object
    <2>1. /\ table[g.index].lifecycle = "AVAILABLE" /\ table[g.index].generation = g.generation
          /\ table[g.index].type = type
      BY <1>1, ZenonT(30) DEF Accepts
    <2> QED
      BY <2>1, ZenonT(30) DEF HInv, IssuedIsPast
  <1> QED
    BY <1>1, ZenonT(30) DEF HInv, TokensDenote

\* What a step of the handle table does to the record of an index.
LEMMA GenerationStep ==
    ASSUME HInv, HandleNext, NEW j \in Indices
    PROVE  /\ table'[j].generation >= table[j].generation
           /\ (table[j].lifecycle = "REVOKED" /\ ~CanAdvance(table[j].generation))
                 => table'[j] = table[j]
  <1>0. /\ \A i \in Indices : table[i].generation \in 0 .. MaxGeneration
        /\ table \in [Indices -> Records]
    BY ZenonT(30) DEF HInv, HandleTypeOK, Records
  <1> DEFINE Goal == /\ table'[j].generation >= table[j].generation
                     /\ (table[j].lifecycle = "REVOKED" /\ ~CanAdvance(table[j].generation))
                           => table'[j] = table[j]
  <1>a. ASSUME NEW i \in Indices, NEW record,
               table' = [table EXCEPT ![i] = record],
               record.generation >= table[i].generation,
               table[i].lifecycle # "REVOKED" \/ CanAdvance(table[i].generation)
        PROVE  Goal
    BY <1>0, <1>a
  <1>b. \A i \in Indices : /\ Revoked(table[i]).generation >= table[i].generation
                           /\ table[i].lifecycle \in Live => table[i].lifecycle # "REVOKED"
    BY <1>0, AdvancedType, ZenonT(30) DEF Revoked, Record, Live
  <1>2. ASSUME NEW type \in Types, NEW object \in Objects, Create(type, object)
        PROVE  Goal
    <2>1. PICK i \in Indices :
             /\ IsFree(i)
             /\ Bind(i, Advanced(table[i].generation), type, object)
      BY <1>2, ZenonT(30) DEF Create
    <2> DEFINE record == Record(Advanced(table[i].generation), "AVAILABLE", type)
    <2>2. record.generation >= table[i].generation
      BY <1>0, AdvancedType, ZenonT(30) DEF Record
    <2>3. table' = [table EXCEPT ![i] = record] /\ CanAdvance(table[i].generation)
      BY <2>1, ZenonT(30) DEF Bind, IsFree
    <2> HIDE DEF record, Goal
    <2> QED
      BY <2>2, <2>3, <1>a, ZenonT(60)
  <1>3. ASSUME NEW i \in Indices, NEW generation \in 1 .. MaxGeneration,
               NEW type \in Types, BorrowBegin(i, generation, type)
        PROVE  Goal
    BY <1>0, <1>3 DEF BorrowBegin, Accepts, Records
  <1>4. ASSUME NEW i \in Indices, NEW generation \in 1 .. MaxGeneration,
               NEW type \in Types, Move(i, generation, type)
        PROVE  Goal
    <2> DEFINE record == Record(generation + 1, "AVAILABLE", type)
    <2>1. /\ table' = [table EXCEPT ![i] = record] /\ table[i].lifecycle # "REVOKED"
          /\ table[i].generation = generation
      BY <1>4, ZenonT(30) DEF Move, Bind, Accepts
    <2>2. record.generation >= table[i].generation
      BY <2>1 DEF Record
    <2> HIDE DEF record, Goal
    <2> QED
      BY <2>1, <2>2, <1>a, ZenonT(60)
  <1>5. ASSUME NEW i \in Indices, NEW generation \in 1 .. MaxGeneration,
               NEW type \in Types, ConsumeBegin(i, generation, type)
        PROVE  Goal
    <2> DEFINE record == Record(generation + 1, "IN_FLIGHT", type)
    <2>1. /\ table' = [table EXCEPT ![i] = record] /\ table[i].lifecycle # "REVOKED"
          /\ table[i].generation = generation
      BY <1>5, ZenonT(30) DEF ConsumeBegin, Accepts
    <2>2. record.generation >= table[i].generation
      BY <2>1 DEF Record
    <2> HIDE DEF record, Goal
    <2> QED
      BY <2>1, <2>2, <1>a, ZenonT(60)
  <1>6. ASSUME NEW b \in borrows, BorrowEnd(b) PROVE Goal
    <2>1. b.index \in Indices /\ table[b.index].lifecycle = "BORROWED"
      BY LeaseFacts, ZenonT(30) DEF Grants
    <2> QED
      BY <1>0, <1>6, <2>1 DEF BorrowEnd, Records
  <1>7. ASSUME NEW l \in leases, ConsumeFinish(l) PROVE Goal
    <2>1. /\ l.index \in Indices /\ table[l.index].lifecycle = "IN_FLIGHT"
          /\ table' = [table EXCEPT ![l.index] = Revoked(table[l.index])]
      BY <1>7, LeaseIsAlone, ZenonT(30) DEF ConsumeFinish, RevokeRecord
    <2> HIDE DEF Goal
    <2> QED
      BY <2>1, <1>a, <1>b, ZenonT(60)
  <1>8. ASSUME NEW l \in leases, NEW type \in Types, NEW object \in Objects,
               ConsumeReplace(l, type, object)
        PROVE  Goal
    <2> DEFINE record == Record(l.generation, "AVAILABLE", type)
    <2>1. /\ l.index \in Indices /\ table[l.index].lifecycle = "IN_FLIGHT"
          /\ table[l.index].generation = l.generation
          /\ table' = [table EXCEPT ![l.index] = record]
      BY <1>8, LeaseIsAlone, ZenonT(30) DEF ConsumeReplace, Bind
    <2>2. record.generation >= table[l.index].generation
      BY <2>1, <1>0 DEF Record
    <2> HIDE DEF record, Goal
    <2> QED
      BY <2>1, <2>2, <1>a, ZenonT(60)
  <1>9. ASSUME NEW i \in Indices, NEW generation \in 1 .. MaxGeneration,
               Revoke(i, generation)
        PROVE  Goal
    <2>1. /\ table[i].lifecycle # "REVOKED"
          /\ table' = [table EXCEPT ![i] = Revoked(table[i])]
      BY <1>9, ZenonT(30) DEF Revoke, RevokeRecord, Accepts
    <2> HIDE DEF Goal
    <2> QED
      BY <2>1, <1>a, <1>b, ZenonT(60)
  <1>10. CASE FaultCleanup
    BY <1>0, <1>b, <1>10 DEF FaultCleanup
  <1> QED
    BY <1>2, <1>3, <1>4, <1>5, <1>6, <1>7, <1>8, <1>9, <1>10, ZenonT(60) DEF HandleNext

\* The handle table keeps its invariant.
LEMMA HInvHolds == HandleSpec => []HInv
  BY HandleInitHolds, HandleStepHolds, PTL DEF HandleSpec

(***************************************************************************)
(* However its operations are interleaved, for every capacity and every    *)
(* generation limit: an accepted token names what it was issued for, and   *)
(* what is borrowed or leased stays bound (handles.c).                     *)
(***************************************************************************)
THEOREM TokensNeverLie == HandleSpec => []TokensDenote /\ []LeasesStand
  BY HInvHolds, HInvSuffices, PTL

\* Generations never go back and a retired record stays retired (handle_create).
THEOREM GenerationsNeverReturn == HandleSpec => GenerationsAdvance
  <1> DEFINE Step == \A i \in Indices :
                        /\ table'[i].generation >= table[i].generation
                        /\ (table[i].lifecycle = "REVOKED" /\ ~CanAdvance(table[i].generation))
                              => table'[i] = table[i]
  <1>1. HInv /\ [HandleNext]_handleVars => [Step]_handleVars
    BY GenerationStep, ZenonT(30)
  <1>2. (HandleSpec => [][Step]_handleVars) <=> (HandleSpec => GenerationsAdvance)
    BY ZenonT(30) DEF GenerationsAdvance
  <1> HIDE DEF Step
  <1> QED
    BY <1>1, <1>2, HInvHolds, PTL DEF HandleSpec

-----------------------------------------------------------------------------
(***************************************************************************)
(* The dispatch of helper calls uses the handle table only through its     *)
(* operations.  The arguments of a call are tokens of the program, and a   *)
(* success handle has a type and an object, because set_success_handle     *)
(* refuses any other; PInv says so at every step of a call.                *)
(***************************************************************************)

CallFields == {"helper", "args", "next", "fault", "status", "result", "pending",
               "transferred", "journal", "payload"}

PInv ==
    /\ DOMAIN call = CallFields
    /\ slots \subseteq Tokens
    /\ call.args \in Seq(Tokens)
    /\ call.next \in Nat \ {0}
    /\ phase # "idle" => call.helper \in Helpers
    /\ phase = "prepare" => call.result = "NONE"
    /\ (phase = "close" /\ call.result = "HANDLE") =>
          Contract[call.helper].result \in Types /\ call.pending \in Objects

\* The initial call has no arguments.
LEMMA PInvInit == Init => PInv
  BY DEF Init, PInv, NoCall, CallFields, Tokens

\* A step of the run is a step of the handle table, or leaves it alone.
LEMMA PolicyStepIsHandleStep ==
    ASSUME PInv, HandleTypeOK, [Next]_vars
    PROVE  [HandleNext]_handleVars
  <1>1. CASE UNCHANGED vars
    BY <1>1, ZenonT(30) DEF vars
  <1>2. ASSUME phase = "prepare", call.next <= Len(call.args)
        PROVE  /\ Argument.index \in Indices
               /\ Argument.generation \in 1 .. MaxGeneration
               /\ Argument.type \in Types
    <2>1. call.args[call.next] \in Tokens
      BY <1>2 DEF PInv
    <2> QED
      BY <2>1, ZenonT(30) DEF Argument, Tokens
  <1>3. CASE PrepareConsume
    BY <1>2, <1>3, ZenonT(30) DEF PrepareConsume, HandleNext
  <1>4. CASE PrepareBorrow
    BY <1>2, <1>4, ZenonT(30) DEF PrepareBorrow, HandleNext
  <1>5. CASE CloseBorrow
    BY <1>5, ZenonT(30) DEF CloseBorrow, HandleNext
  <1>6. CASE FinishConsume
    BY <1>6, ZenonT(30) DEF FinishConsume, HandleNext
  <1>7. ASSUME Returns PROVE Helper.result \in Types /\ call.pending \in Objects
    BY <1>7, ZenonT(60) DEF Returns, Closed, PInv, Helper
  <1>8. CASE CommitReplace
    BY <1>7, <1>8, ZenonT(30) DEF CommitReplace, HandleNext
  <1>9. CASE CommitCreate
    BY <1>7, <1>9, ZenonT(30) DEF CommitCreate, HandleNext
  <1>10. CASE CloseFault
    BY <1>10, ZenonT(30) DEF CloseFault, HandleNext
  <1>11. CASE \/ \E h \in Helpers : \E args \in Arguments(h) : Dispatch(h, args)
              \/ Fault \/ PrepareFails \/ Invoke \/ Callback \/ FinishNothing
              \/ CommitFails \/ Release
              \/ \E payload \in Payloads : ReturnOk(payload)
              \/ ReturnErr \/ ConsumeAction
    BY <1>11, ZenonT(60) DEF Dispatch, Fault, PrepareFails, Invoke, Callback, FinishNothing,
                 CommitFails, Release, ReturnOk, ReturnErr, ConsumeAction
  <1> QED
    BY <1>1, <1>3, <1>4, <1>5, <1>6, <1>8, <1>9, <1>10, <1>11, ZenonT(30) DEF Next, Run

\* The result that the callback sets is one its contract has.
LEMMA CallbackResult ==
    ASSUME PInv, HandleTypeOK, phase = "callback", NEW result \in ResultsAllowed,
           NEW object \in ObjectsAllowed(result), result = "HANDLE"
    PROVE  Contract[call.helper].result \in Types /\ object \in Objects
  <1>1. call.helper \in Helpers
    BY ZenonT(30) DEF PInv
  <1>2. Contract[call.helper].result \in Types \cup {NoType}
    BY <1>1, ContractAssumption, ZenonT(30) DEF HelperContracts
  <1>3. Contract[call.helper].result # NoType
    BY ZenonT(30) DEF ResultsAllowed, Helper
  <1>4. object \in Objects
    BY ZenonT(30) DEF ObjectsAllowed
  <1> QED
    BY <1>2, <1>3, <1>4, ZenonT(30)

\* Every step of the run keeps PInv.
LEMMA PInvStep ==
    ASSUME PInv, HandleTypeOK, HandleTypeOK', [Next]_vars
    PROVE  PInv'
  <1>0. /\ DOMAIN call = CallFields /\ slots \subseteq Tokens
        /\ call.args \in Seq(Tokens) /\ call.next \in Nat \ {0}
    BY ZenonT(30) DEF PInv
  <1>1. CASE UNCHANGED vars
    BY <1>1, ZenonT(60) DEF vars, callVars, PInv
  <1>2. ASSUME NEW h \in Helpers, NEW args \in Arguments(h), Dispatch(h, args)
        PROVE  PInv'
    <2>1. args \in Seq(Tokens)
      <3>1. args \in [1 .. Len(Contract[h].params) -> slots] /\ Contract[h].params \in Seq(Types)
        BY ContractAssumption, ZenonT(30) DEF Arguments, HelperContracts
      <3>2. Len(Contract[h].params) \in Nat
        BY <3>1
      <3> QED
        BY <3>1, <3>2, <1>0, SMTT(30)
    <2>2. /\ phase' = "prepare" /\ slots' = slots
          /\ call' = [NoCall EXCEPT !.helper = h, !.args = args]
      BY <1>2, ZenonT(30) DEF Dispatch
    <2>3. /\ DOMAIN call' = CallFields /\ call'.args = args /\ call'.next = 1
          /\ call'.helper = h /\ call'.result = "NONE"
      BY <2>2, ZenonT(30) DEF NoCall, CallFields
    <2> QED
      BY <2>1, <2>2, <2>3, <1>0 DEF PInv
  <1>3. CASE PrepareConsume \/ PrepareBorrow
    <2>1. /\ phase = "prepare" /\ phase' = phase /\ slots' \subseteq slots
          /\ call' = [call EXCEPT !.next = call.next + 1]
      BY <1>3, ZenonT(30) DEF PrepareConsume, PrepareBorrow
    <2>2. /\ DOMAIN call' = CallFields /\ call'.args = call.args
          /\ call'.next = call.next + 1
          /\ call'.helper = call.helper /\ call'.result = call.result
      BY <2>1, <1>0, ZenonT(30) DEF CallFields
    <2> QED
      BY <2>1, <2>2, <1>0 DEF PInv
  <1>4. CASE PrepareFails
    <2>1. /\ phase = "prepare" /\ phase' = "close" /\ slots' = slots
          /\ call' = [call EXCEPT !.fault = TRUE]
      BY <1>4, ZenonT(30) DEF PrepareFails
    <2>2. /\ DOMAIN call' = CallFields /\ call'.args = call.args
          /\ call'.next = call.next
          /\ call'.helper = call.helper /\ call'.result = call.result
      BY <2>1, <1>0, ZenonT(30) DEF CallFields
    <2> QED
      BY <2>1, <2>2, <1>0, ZenonT(30) DEF PInv
  <1>5. CASE Invoke
    BY <1>5, ZenonT(30) DEF Invoke, PInv
  <1>6. CASE Callback
    <2>1. PICK status \in Statuses, result \in ResultsAllowed, journal \in JournalsAllowed,
               marked \in BOOLEAN, overrun \in BOOLEAN :
             \E object \in ObjectsAllowed(result), payload \in PayloadsAllowed(result) :
                Answer(status, result, object, journal, payload, marked, overrun)
      BY <1>6, Zenon DEF Callback
    <2>2. PICK object \in ObjectsAllowed(result), payload \in PayloadsAllowed(result) :
                Answer(status, result, object, journal, payload, marked, overrun)
      BY <2>1, Zenon
    <2>a. call' = [call EXCEPT !.status = status, !.result = result,
                               !.pending = object, !.journal = journal,
                               !.payload = payload, !.transferred = marked,
                               !.fault = overrun]
      BY <2>2, ZenonT(30) DEF Answer
    <2>3. /\ DOMAIN call' = CallFields /\ call'.args = call.args
          /\ call'.next = call.next /\ call'.helper = call.helper
          /\ call'.result = result /\ call'.pending = object
      BY <2>a, <1>0, ZenonT(30) DEF CallFields
    <2>4. phase = "callback" /\ phase' = "close" /\ slots' \subseteq Tokens
      <3>1. \E bytes \in BytesAllowed(call'.result) : slots' = slots \cup bytes
        BY <1>6, ZenonT(30) DEF Callback
      <3>2. \A bytes \in BytesAllowed(call'.result) : bytes \subseteq Tokens
        BY ZenonT(30) DEF BytesAllowed
      <3> QED
        BY <1>0, <1>6, <3>1, <3>2, ZenonT(30) DEF Callback
    <2>5. result = "HANDLE" => Contract[call.helper].result \in Types /\ object \in Objects
      BY <2>4, CallbackResult, ZenonT(30)
    <2> QED
      BY <2>3, <2>4, <2>5, <1>0, ZenonT(30) DEF PInv
  <1>7. CASE CloseBorrow
    BY <1>7, ZenonT(30) DEF CloseBorrow, callVars, PInv
  <1>8. ASSUME phase = "close", phase' = "release", slots' \subseteq Tokens,
               \/ \E fault : call' = [call EXCEPT !.fault = fault]
               \/ call' = [call EXCEPT !.pending = NoObject]
        PROVE  PInv'
    <2>1. /\ DOMAIN call' = CallFields /\ call'.args = call.args
          /\ call'.next = call.next /\ call'.helper = call.helper
      BY <1>8, <1>0, ZenonT(30) DEF CallFields
    <2> QED
      BY <2>1, <1>8, <1>0, ZenonT(30) DEF PInv
  <1>9. CASE FinishConsume
    BY <1>0, <1>8, <1>9, ZenonT(60) DEF FinishConsume, Closed
  <1>10. CASE FinishNothing
    BY <1>0, <1>8, <1>10, ZenonT(60) DEF FinishNothing, Closed
  <1>11. CASE CommitFails
    BY <1>0, <1>8, <1>11, ZenonT(60) DEF CommitFails, Returns, Closed
  <1>12. NewToken \subseteq Tokens
    <2>1. \A g \in issued' : g \in Grants
      BY Zenon DEF HandleTypeOK
    <2>2. \A g \in Grants :
              [index |-> g.index, generation |-> g.generation, type |-> g.type] \in Tokens
      BY ZenonT(30) DEF Grants, Tokens
    <2> QED
      BY <2>1, <2>2, Zenon DEF NewToken
  <1>13. CASE CommitReplace \/ CommitCreate
    BY <1>0, <1>8, <1>12, <1>13, ZenonT(30) DEF CommitReplace, CommitCreate, Returns, Closed
  <1>14. CASE Release
    <2>1. phase' = "idle" /\ call' = NoCall /\ slots' = slots
      BY <1>14, ZenonT(30) DEF Release
    <2>2. /\ DOMAIN call' = CallFields /\ call'.args = <<>> /\ call'.next = 1
      BY <2>1, ZenonT(60) DEF NoCall, CallFields
    <2>3. call'.args \in Seq(Tokens) /\ call'.next \in Nat \ {0}
      BY <2>2
    <2>4. phase' = "idle" /\ slots' \subseteq Tokens
      BY <2>1, <1>0, ZenonT(30)
    <2>5. phase' # "prepare" /\ phase' # "close"
      BY <2>4, ZenonT(30)
    <2> QED
      BY <2>2, <2>3, <2>4, <2>5, Zenon DEF PInv
  <1>15. CASE \/ Fault \/ ReturnErr \/ CloseFault \/ ConsumeAction
              \/ \E payload \in Payloads : ReturnOk(payload)
    BY <1>15, ZenonT(30) DEF Fault, ReturnErr, CloseFault, ConsumeAction, ReturnOk, callVars, PInv
  <1> QED
    BY <1>1, <1>2, <1>3, <1>4, <1>5, <1>6, <1>7, <1>9, <1>10, <1>11, <1>13, <1>14, <1>15, ZenonT(30) DEF Next, Run

\* Both invariants hold in every run of a policy.
LEMMA PolicyInvariant == Spec => [](HInv /\ PInv) /\ [][[HandleNext]_handleVars]_vars
  <1>1. Init => HInv /\ PInv
    BY HandleInitHolds, PInvInit, ZenonT(30) DEF Init
  <1>2. HInv /\ PInv /\ [Next]_vars => [HandleNext]_handleVars
    BY PolicyStepIsHandleStep, ZenonT(30) DEF HInv
  <1>3. HInv /\ PInv /\ [Next]_vars => HInv' /\ PInv'
    <2> SUFFICES ASSUME HInv, PInv, [Next]_vars PROVE HInv' /\ PInv'
      BY ZenonT(30)
    <2>1. HInv'
      BY <1>2, HandleStepHolds, ZenonT(30)
    <2> QED
      BY <2>1, PInvStep, ZenonT(30) DEF HInv
  <1>4. [HandleNext]_handleVars => [[HandleNext]_handleVars]_vars
    BY ZenonT(30)
  <1> QED
    BY <1>1, <1>2, <1>3, <1>4, PTL DEF Spec

(***************************************************************************)
(* A run of a policy is a behaviour of the handle table, whatever helpers  *)
(* it calls and whatever their callbacks do: what is proved of the handle  *)
(* operations holds in every run (helpers.c, terminal.c).                  *)
(***************************************************************************)
THEOREM PolicyRefinesHandles == Spec => RefinesHandles
  <1>1. Init => HandleInit
    BY ZenonT(30) DEF Init
  <1>2. HInv /\ PInv /\ [Next]_vars => [HandleNext]_handleVars
    BY PolicyStepIsHandleStep, ZenonT(30) DEF HInv
  <1> QED
    BY <1>1, <1>2, PolicyInvariant, PTL DEF Spec, RefinesHandles, HandleSpec

-----------------------------------------------------------------------------
(***************************************************************************)
(* The outcome of a run.  CInv says what the callback of the current call  *)
(* left behind, OInv what the terminal snapshot, the output region and the *)
(* recovery notifications are before the run is closed, and JInv what      *)
(* receipts the snapshot covers.                                           *)
(***************************************************************************)

Answered == phase \in {"close", "release"}

CInv ==
    /\ phase = "prepare" \/ phase = "callback" => call.journal = NoReceipt /\ call.result = "NONE"
    /\ call.journal \in NoReceipt .. Uncertain
    /\ (Answered /\ Helper.effect # "JOURNALED") => call.journal = NoReceipt
    /\ (Answered /\ Helper.effect = "TERMINAL" /\ call.result = "VALUE")
          => call.payload \in Payloads

OInv ==
    /\ vm \in {"running", "faulted", "closed"}
    /\ vm # "running" => phase = "idle"
    /\ vm # "closed" => terminal.state \in {"EXECUTING", "ACTION_PENDING"}
    /\ (vm # "closed" /\ terminal.state = "ACTION_PENDING") => output \in Payloads
    /\ DOMAIN terminal = {"state", "journal"}
    /\ OutcomeIsClosed

JInv ==
    /\ terminal.journal \in NoReceipt .. Uncertain
    /\ reported \in NoReceipt .. Uncertain
    /\ (vm = "running" /\ ~Answered) => terminal.journal = reported
    /\ Answered => reported = WorstReceipt(terminal.journal, call.journal)
    /\ (vm = "closed" /\ terminal.state # "VM_FAULT") => terminal.journal = reported

\* The invariants hold before the first instruction.
LEMMA OutcomeInit == Init => CInv /\ OInv /\ JInv
  <1> SUFFICES ASSUME Init PROVE CInv /\ OInv /\ JInv
    BY ZenonT(30)
  <1>1. /\ vm = "running" /\ phase = "idle" /\ recoveries = 0 /\ reported = NoReceipt
        /\ call.journal = NoReceipt /\ terminal.state = "EXECUTING"
        /\ terminal.journal = NoReceipt /\ DOMAIN terminal = {"state", "journal"}
    BY ZenonT(60) DEF Init, NoCall
  <1> QED
    BY <1>1 DEF CInv, OInv, JInv, Answered, OutcomeIsClosed, NoReceipt, Uncertain, Outcomes

\* Every step keeps what is known of the current call.
LEMMA CallStep ==
    ASSUME PInv, CInv, [Next]_vars
    PROVE  CInv'
  <1>0. DOMAIN call = CallFields
    BY ZenonT(60) DEF PInv
  <1> USE DEF NoReceipt, Uncertain
  <1>1. CASE UNCHANGED vars
    BY <1>1, ZenonT(60) DEF vars, callVars, CInv, Answered, Helper
  <1>2. ASSUME NEW h \in Helpers, NEW args \in Arguments(h), Dispatch(h, args)
        PROVE  CInv'
    <2>1. phase' = "prepare" /\ call'.journal = NoReceipt /\ call'.result = "NONE"
      BY <1>2, ZenonT(30) DEF Dispatch, NoCall
    <2>2. phase' # "callback" /\ ~Answered'
      BY <2>1, ZenonT(30) DEF Answered
    <2>3. call'.journal \in NoReceipt .. Uncertain
      BY <2>1
    <2> QED
      BY <2>1, <2>2, <2>3, Zenon DEF CInv
  <1>3. CASE PrepareConsume \/ PrepareBorrow
    <2>1. /\ phase = "prepare" /\ phase' = phase
          /\ call'.journal = call.journal /\ call'.result = call.result
      BY <1>0, <1>3, ZenonT(30) DEF PrepareConsume, PrepareBorrow, CallFields
    <2> QED
      BY <2>1, ZenonT(60) DEF CInv, Answered
  <1>4. CASE PrepareFails
    <2>1. /\ phase = "prepare" /\ phase' = "close"
          /\ call'.journal = call.journal /\ call'.result = call.result
      BY <1>0, <1>4, ZenonT(30) DEF PrepareFails, CallFields
    <2> QED
      BY <2>1, ZenonT(30) DEF CInv, Answered
  <1>5. CASE Invoke
    BY <1>5, ZenonT(30) DEF Invoke, CInv, Answered
  <1>6. CASE Callback
    <2>1. PICK status \in Statuses, result \in ResultsAllowed, journal \in JournalsAllowed,
               marked \in BOOLEAN, overrun \in BOOLEAN :
             \E object \in ObjectsAllowed(result), payload \in PayloadsAllowed(result) :
                Answer(status, result, object, journal, payload, marked, overrun)
      BY <1>6, Zenon DEF Callback
    <2>2. PICK object \in ObjectsAllowed(result), payload \in PayloadsAllowed(result) :
                Answer(status, result, object, journal, payload, marked, overrun)
      BY <2>1, Zenon
    <2>3. /\ call'.helper = call.helper /\ call'.journal = journal
          /\ call'.result = result /\ call'.payload = payload
      BY <1>0, <2>2, ZenonT(30) DEF Answer, CallFields
    <2>4. phase' = "close" /\ Helper' = Helper
      BY <1>6, <2>3, ZenonT(60) DEF Callback, Helper
    <2> QED
      BY <2>3, <2>4 DEF CInv, Answered, JournalsAllowed, PayloadsAllowed
  <1>7. CASE CloseBorrow
    BY <1>7, ZenonT(30) DEF CloseBorrow, callVars, CInv, Answered, Helper
  <1>8. CASE FinishConsume \/ FinishNothing \/ CommitReplace \/ CommitCreate \/ CommitFails
    <2>1. /\ phase = "close" /\ phase' = "release"
          /\ \/ \E fault : call' = [call EXCEPT !.fault = fault]
             \/ call' = [call EXCEPT !.pending = NoObject]
      BY <1>8, ZenonT(60) DEF FinishConsume, FinishNothing, CommitReplace, CommitCreate, CommitFails,
                  Returns, Closed
    <2>2. /\ call'.helper = call.helper /\ call'.journal = call.journal
          /\ call'.result = call.result /\ call'.payload = call.payload
      BY <1>0, <2>1, ZenonT(30) DEF CallFields
    <2>3. Helper' = Helper
      BY <2>2, ZenonT(30) DEF Helper
    <2> QED
      BY <2>1, <2>2, <2>3, ZenonT(30) DEF CInv, Answered
  <1>9. CASE Release
    <2>1. phase' = "idle" /\ call'.journal = NoReceipt
      BY <1>9, ZenonT(30) DEF Release, NoCall
    <2> QED
      BY <2>1 DEF CInv, Answered
  <1>10. CASE \/ Fault \/ ReturnErr \/ CloseFault \/ ConsumeAction
              \/ \E payload \in Payloads : ReturnOk(payload)
    BY <1>10, ZenonT(30) DEF Fault, ReturnErr, CloseFault, ConsumeAction, ReturnOk, callVars, CInv,
                 Answered, Helper
  <1> QED
    BY <1>1, <1>2, <1>3, <1>4, <1>5, <1>6, <1>7, <1>8, <1>9, <1>10, ZenonT(30) DEF Next, Run

\* The steps of a call between its dispatch and its release.
InCall ==
    \/ PrepareConsume \/ PrepareBorrow \/ PrepareFails \/ Invoke \/ Callback \/ CloseBorrow
    \/ FinishConsume \/ FinishNothing \/ CommitReplace \/ CommitCreate \/ CommitFails

\* A step inside a call touches neither the outcome nor the state of the run.
LEMMA InCallFrame ==
    ASSUME InCall
    PROVE  phase # "idle" /\ vm' = vm /\ UNCHANGED <<terminal, output, recoveries>>
  BY ZenonT(30) DEF InCall, PrepareConsume, PrepareBorrow, PrepareFails, Invoke, Callback, CloseBorrow,
         FinishConsume, FinishNothing, CommitReplace, CommitCreate, CommitFails, Returns,
         Closed, callVars, outcomeVars

\* Every step keeps what is known of the outcome.
LEMMA OutcomeStep ==
    ASSUME HInv, CInv, OInv, [Next]_vars
    PROVE  OInv'
  <1>1. CASE UNCHANGED vars
    <2>1. UNCHANGED <<vm, phase, terminal, output, recoveries, host, table>>
      BY <1>1, ZenonT(30) DEF vars, callVars, outcomeVars, handleVars
    <2> QED
      BY <2>1, ZenonT(30) DEF OInv, OutcomeIsClosed
  <1>2. CASE InCall \/ \E h \in Helpers : \E args \in Arguments(h) : Dispatch(h, args)
    <2>1. vm = "running" /\ vm' = vm /\ UNCHANGED <<terminal, output, recoveries>>
      BY <1>2, InCallFrame, ZenonT(60) DEF OInv, Dispatch, outcomeVars
    <2> QED
      BY <2>1, ZenonT(30) DEF OInv, OutcomeIsClosed
  <1>3. CASE Fault
    <2>1. /\ vm = "running" /\ phase = "idle" /\ vm' = "faulted" /\ phase' = phase
          /\ UNCHANGED <<terminal, output, recoveries>>
      BY <1>3, ZenonT(30) DEF Fault, outcomeVars
    <2> QED
      BY <2>1, ZenonT(30) DEF OInv, OutcomeIsClosed
  <1>4. CASE Release
    <2>1. /\ vm = "running" /\ phase = "release" /\ phase' = "idle"
          /\ vm' \in {"faulted", "running"} /\ recoveries' = recoveries
      BY <1>4, ZenonT(30) DEF Release, OInv
    <2>2. \/ /\ terminal' = [terminal EXCEPT !.state = "ACTION_PENDING"]
             /\ output' = call.payload
             /\ Helper.effect = "TERMINAL" /\ call.result = "VALUE"
          \/ /\ \E j : terminal' = [terminal EXCEPT !.journal = j]
             /\ output' = output
          \/ UNCHANGED <<terminal, output>>
      BY <1>4, ZenonT(30) DEF Release, ActionIsRecorded
    <2>3. /\ DOMAIN terminal' = {"state", "journal"}
          /\ \/ terminal'.state = "ACTION_PENDING" /\ output' \in Payloads
             \/ terminal'.state = terminal.state /\ output' = output
      BY <2>1, <2>2, ZenonT(30) DEF OInv, CInv, Answered
    <2> QED
      BY <2>1, <2>3, ZenonT(30) DEF OInv, OutcomeIsClosed, Outcomes
  <1>5. ASSUME NEW payload \in Payloads, ReturnOk(payload) PROVE OInv'
    <2>1. /\ vm = "running" /\ phase = "idle" /\ phase' = phase
          /\ output' = output /\ recoveries' = recoveries
      BY <1>5, ZenonT(30) DEF ReturnOk
    <2>2. CASE terminal.state = "ACTION_PENDING" /\ payload = output
      <3>1. vm' = "closed" /\ terminal' = [terminal EXCEPT !.state = "ACTION_SEALED"]
        BY <1>5, <2>2, ZenonT(30) DEF ReturnOk
      <3>2. terminal'.state = "ACTION_SEALED" /\ DOMAIN terminal' = {"state", "journal"}
        BY <3>1, ZenonT(30) DEF OInv
      <3> QED
        BY <2>1, <2>2, <3>1, <3>2, ZenonT(30) DEF OInv, OutcomeIsClosed
    <2>3. CASE ~(terminal.state = "ACTION_PENDING" /\ payload = output)
      <3>1. vm' = "faulted" /\ terminal' = terminal
        BY <1>5, <2>3, ZenonT(30) DEF ReturnOk
      <3> QED
        BY <2>1, <3>1, ZenonT(30) DEF OInv, OutcomeIsClosed
    <2> QED
      BY <2>2, <2>3, ZenonT(30)
  <1>6. CASE ReturnErr
    <2>1. vm = "running" /\ phase = "idle" /\ phase' = phase /\ recoveries' = recoveries
      BY <1>6, ZenonT(30) DEF ReturnErr
    <2>2. CASE terminal.state = "EXECUTING"
      <3>1. /\ vm' = "closed" /\ terminal' = [terminal EXCEPT !.state = "POLICY_ERROR"]
            /\ output' = ErrorPayload
        BY <1>6, <2>2, ZenonT(30) DEF ReturnErr
      <3>2. terminal'.state = "POLICY_ERROR" /\ DOMAIN terminal' = {"state", "journal"}
        BY <3>1, ZenonT(30) DEF OInv
      <3> QED
        BY <2>1, <3>1, <3>2, ZenonT(30) DEF OInv, OutcomeIsClosed
    <2>3. CASE terminal.state # "EXECUTING"
      <3>1. vm' = "faulted" /\ terminal' = terminal /\ output' = output
        BY <1>6, <2>3, ZenonT(30) DEF ReturnErr
      <3> QED
        BY <2>1, <3>1, ZenonT(30) DEF OInv, OutcomeIsClosed
    <2> QED
      BY <2>2, <2>3, ZenonT(30)
  <1>7. CASE CloseFault
    <2>1. /\ vm = "faulted" /\ vm' = "closed" /\ phase' = phase /\ output' = ZeroPayload
          /\ terminal' = [terminal EXCEPT !.state = "VM_FAULT"]
          /\ recoveries' = recoveries + 1 /\ FaultCleanup
      BY <1>7, ZenonT(30) DEF CloseFault
    <2>2. terminal'.state = "VM_FAULT" /\ DOMAIN terminal' = {"state", "journal"}
      BY <2>1, ZenonT(30) DEF OInv
    <2>3. recoveries' = 1
      BY <2>1 DEF OInv, OutcomeIsClosed
    <2>4. \A i \in Indices : host'[i] = Clear /\ table'[i].lifecycle \in {"EMPTY", "REVOKED"}
      BY <2>1, ZenonT(30) DEF FaultCleanup, HInv, HandleTypeOK, Records, Lifecycles, Live, Revoked, Record
    <2> QED
      BY <2>1, <2>2, <2>3, <2>4, ZenonT(30) DEF OInv, OutcomeIsClosed
  <1>8. CASE ConsumeAction
    <2>1. /\ vm = "closed" /\ terminal.state = "ACTION_SEALED"
          /\ terminal' = [terminal EXCEPT !.state = "ACTION_CONSUMED"]
          /\ output' = ZeroPayload /\ recoveries' = recoveries
          /\ vm' = vm /\ phase' = phase
      BY <1>8, ZenonT(30) DEF ConsumeAction, callVars
    <2>2. terminal'.state = "ACTION_CONSUMED" /\ DOMAIN terminal' = {"state", "journal"}
      BY <2>1, ZenonT(30) DEF OInv
    <2> QED
      BY <2>1, <2>2, ZenonT(30) DEF OInv, OutcomeIsClosed
  <1> QED
    BY <1>1, <1>2, <1>3, <1>4, <1>5, <1>6, <1>7, <1>8, ZenonT(30) DEF Next, Run, InCall

\* Every step keeps what is known of the receipts.
LEMMA JournalStep ==
    ASSUME PInv, CInv, OInv, JInv, [Next]_vars
    PROVE  JInv'
  <1>0. /\ terminal.journal \in NoReceipt .. Uncertain /\ reported \in NoReceipt .. Uncertain
        /\ DOMAIN terminal = {"state", "journal"} /\ DOMAIN call = CallFields
        /\ call.journal \in NoReceipt .. Uncertain
    BY ZenonT(60) DEF JInv, OInv, CInv, PInv
  <1> USE DEF NoReceipt, Uncertain
  <1>1. CASE UNCHANGED vars
    BY <1>1, ZenonT(30) DEF vars, callVars, outcomeVars, objectVars, JInv, Answered
  <1>2. CASE \/ PrepareConsume \/ PrepareBorrow \/ Invoke
             \/ \E h \in Helpers : \E args \in Arguments(h) : Dispatch(h, args)
    <2>1. /\ ~Answered /\ phase' \in {"prepare", "callback"} /\ vm' = vm
          /\ UNCHANGED <<terminal, reported>>
      BY <1>2, ZenonT(60) DEF PrepareConsume, PrepareBorrow, Invoke, Dispatch, Answered, outcomeVars,
                  objectVars
    <2> QED
      BY <2>1, ZenonT(30) DEF JInv, Answered
  <1>3. CASE PrepareFails
    <2>1. /\ phase = "prepare" /\ phase' = "close" /\ vm' = vm
          /\ UNCHANGED <<terminal, reported>> /\ call'.journal = call.journal
      BY <1>0, <1>3, ZenonT(30) DEF PrepareFails, outcomeVars, objectVars, CallFields
    <2>2. vm = "running" /\ call.journal = NoReceipt
      BY <2>1, ZenonT(30) DEF OInv, CInv
    <2> QED
      BY <1>0, <2>1, <2>2 DEF JInv, Answered, WorstReceipt
  <1>4. CASE Callback
    <2>1. PICK status \in Statuses, result \in ResultsAllowed, journal \in JournalsAllowed,
               marked \in BOOLEAN, overrun \in BOOLEAN :
             \E object \in ObjectsAllowed(result), payload \in PayloadsAllowed(result) :
                Answer(status, result, object, journal, payload, marked, overrun)
      BY <1>4, Zenon DEF Callback
    <2>2. PICK object \in ObjectsAllowed(result), payload \in PayloadsAllowed(result) :
                Answer(status, result, object, journal, payload, marked, overrun)
      BY <2>1, Zenon
    <2>3. /\ call'.journal = journal
          /\ reported' = IF journal > reported THEN journal ELSE reported
      BY <1>0, <2>2, ZenonT(30) DEF Answer, CallFields
    <2>4. /\ phase = "callback" /\ phase' = "close" /\ vm' = vm /\ terminal' = terminal
          /\ vm = "running"
      BY <1>4, ZenonT(30) DEF Callback, outcomeVars, OInv
    <2>5. journal \in NoReceipt .. Uncertain
      BY SMTT(30) DEF JournalsAllowed
    <2>6. terminal.journal = reported
      BY <2>4, ZenonT(30) DEF JInv, Answered
    <2> QED
      BY <1>0, <2>3, <2>4, <2>5, <2>6, ZenonT(30) DEF JInv, Answered, WorstReceipt
  <1>5. CASE CloseBorrow
    BY <1>5, ZenonT(30) DEF CloseBorrow, callVars, outcomeVars, objectVars, JInv, Answered
  <1>6. CASE FinishConsume \/ FinishNothing \/ CommitReplace \/ CommitCreate \/ CommitFails
    <2>1. /\ phase = "close" /\ phase' = "release" /\ vm' = vm
          /\ UNCHANGED <<terminal, reported>>
          /\ \/ \E fault : call' = [call EXCEPT !.fault = fault]
             \/ call' = [call EXCEPT !.pending = NoObject]
      BY <1>6, ZenonT(60) DEF FinishConsume, FinishNothing, CommitReplace, CommitCreate, CommitFails,
                  Returns, Closed, outcomeVars, objectVars
    <2>2. call'.journal = call.journal
      BY <1>0, <2>1, ZenonT(30) DEF CallFields
    <2> QED
      BY <2>1, <2>2, ZenonT(30) DEF JInv, Answered
  <1>7. CASE Release
    <2> DEFINE records == ~call.fault /\ Helper.effect # "NONE"
               stored == IF Helper.effect = "TERMINAL" THEN ActionIsRecorded
                                                       ELSE terminal.state = "EXECUTING"
    <2>1. /\ phase = "release" /\ phase' = "idle" /\ reported' = reported
          /\ vm' = IF call.fault \/ call.status = "CONTRACT_FAULT" \/ (records /\ ~stored)
                   THEN "faulted" ELSE "running"
          /\ IF records /\ stored /\ Helper.effect = "TERMINAL"
             THEN terminal' = [terminal EXCEPT !.state = "ACTION_PENDING"]
             ELSE terminal' = IF records /\ stored
                              THEN [terminal EXCEPT !.journal =
                                       WorstReceipt(terminal.journal, call.journal)]
                              ELSE terminal
      BY <1>7, ZenonT(30) DEF Release
    <2>2. reported = WorstReceipt(terminal.journal, call.journal)
      BY <2>1, ZenonT(30) DEF JInv, Answered
    <2>3. Helper.effect # "JOURNALED" => reported = terminal.journal
      BY <1>0, <2>1, <2>2, SMTT(30) DEF CInv, Answered, WorstReceipt
    <2>4. terminal'.journal \in {terminal.journal, reported}
      BY <1>0, <2>1, <2>2, ZenonT(30)
    <2>5. vm' = "running" => terminal'.journal = reported
      <3> HAVE vm' = "running"
      <3>1. ~call.fault /\ ~(records /\ ~stored)
        BY <2>1, ZenonT(30)
      <3>2. CASE Helper.effect = "JOURNALED"
        BY <1>0, <2>1, <2>2, <3>1, <3>2, ZenonT(30)
      <3>3. CASE Helper.effect # "JOURNALED"
        BY <2>3, <2>4, <3>3, ZenonT(30)
      <3> QED
        BY <3>2, <3>3, ZenonT(30)
    <2>6. vm' # "closed"
      BY <2>1, ZenonT(30)
    <2> QED
      BY <1>0, <2>1, <2>4, <2>5, <2>6, ZenonT(30) DEF JInv, Answered
  <1>8. CASE Fault \/ ReturnErr \/ \E payload \in Payloads : ReturnOk(payload)
    <2>1. /\ vm = "running" /\ phase = "idle" /\ phase' = phase /\ reported' = reported
          /\ vm' \in {"faulted", "closed"}
          /\ terminal' = terminal \/ \E state : terminal' = [terminal EXCEPT !.state = state]
      BY <1>8, ZenonT(30) DEF Fault, ReturnErr, ReturnOk, objectVars, outcomeVars
    <2>2. terminal'.journal = terminal.journal
      BY <1>0, <2>1, ZenonT(30)
    <2> QED
      BY <1>0, <2>1, <2>2, ZenonT(30) DEF JInv, Answered
  <1>9. CASE CloseFault \/ ConsumeAction
    <2>1. /\ vm # "running" /\ phase' = phase /\ reported' = reported /\ vm' = "closed"
          /\ \/ terminal' = [terminal EXCEPT !.state = "VM_FAULT"]
             \/ /\ terminal' = [terminal EXCEPT !.state = "ACTION_CONSUMED"]
                /\ vm = "closed" /\ terminal.state = "ACTION_SEALED"
      BY <1>9, ZenonT(30) DEF CloseFault, ConsumeAction, callVars, objectVars
    <2>2. /\ terminal'.journal = terminal.journal
          /\ \/ terminal'.state = "VM_FAULT"
             \/ vm = "closed" /\ terminal.state = "ACTION_SEALED"
      BY <1>0, <2>1, ZenonT(30)
    <2>3. ~Answered
      BY <2>1, ZenonT(30) DEF OInv, Answered
    <2> QED
      BY <1>0, <2>1, <2>2, <2>3, ZenonT(30) DEF JInv, Answered
  <1> QED
    BY <1>1, <1>2, <1>3, <1>4, <1>5, <1>6, <1>7, <1>8, <1>9, ZenonT(30) DEF Next, Run

\* The outcome of a run and its receipts, in every state.
LEMMA OutcomeInvariant == Spec => [](CInv /\ OInv /\ JInv)
  <1>1. HInv /\ PInv /\ CInv /\ OInv /\ JInv /\ [Next]_vars => CInv' /\ OInv' /\ JInv'
    BY CallStep, OutcomeStep, JournalStep, ZenonT(30)
  <1> QED
    BY <1>1, OutcomeInit, PolicyInvariant, PTL DEF Spec

(***************************************************************************)
(* Every run closes with one of the four outcomes of the terminal          *)
(* contract: an action with the payload its helper produced, a policy      *)
(* error, or a fault that notified recovery once and left nothing bound    *)
(* (finalize_return, close_fault, boot_action_consume).                    *)
(***************************************************************************)
THEOREM OutcomesAreClosed == Spec => []OutcomeIsClosed
  <1>1. OInv => OutcomeIsClosed
    BY ZenonT(30) DEF OInv
  <1> QED
    BY <1>1, OutcomeInvariant, PTL

\* The snapshot of a run that did not fault covers every receipt (record_journal).
THEOREM WorstReceiptIsKept == Spec => []JournalKeepsWorst
  <1>1. CInv /\ OInv /\ JInv => JournalKeepsWorst
    BY ZenonT(30) DEF CInv, OInv, JInv, JournalKeepsWorst, Outcomes, Answered
  <1> QED
    BY <1>1, OutcomeInvariant, PTL

\* A closed run changes only by the consumption of its action (boot_action_consume).
THEOREM OutcomesAreFinal == Spec => OutcomeIsFinal
  <1>1. OInv /\ [Next]_vars => [OutcomeStays]_vars
    <2> SUFFICES ASSUME OInv, [Next]_vars PROVE [OutcomeStays]_vars
      BY ZenonT(30)
    <2>1. CASE UNCHANGED vars
      BY <2>1, ZenonT(30)
    <2>2. CASE vm # "closed"
      BY <2>2, ZenonT(30) DEF OutcomeStays
    <2>3. CASE vm = "closed" /\ ConsumeAction
      BY <2>3, ZenonT(30) DEF ConsumeAction, OInv, OutcomeStays
    <2>4. CASE vm = "closed" /\ Run
      <3>1. ~InCall /\ ~Release
        BY <2>4, InCallFrame, ZenonT(30) DEF OInv, Release
      <3> QED
        BY <2>4, <3>1, ZenonT(30) DEF Run, InCall, Dispatch, Fault, ReturnOk, ReturnErr, CloseFault
    <2> QED
      BY <2>1, <2>2, <2>3, <2>4, ZenonT(30) DEF Next
  <1> QED
    BY <1>1, OutcomeInvariant, PTL DEF Spec, OutcomeIsFinal

-----------------------------------------------------------------------------
(* The objects behind the handles.  An object that a callback handed over  *)
(* again (reused) is outside what these invariants say: the helper frame   *)
(* does not look for one.                                                  *)

Owns(i) == table[i].lifecycle \in Live /\ host[i].object \notin reused
Usable(i) == table[i].lifecycle \in {"AVAILABLE", "BORROWED"} /\ host[i].object \notin reused
Exists(o) == drops[o] = 0 /\ o \notin transferred

GivenInv ==
    /\ drops \in [Objects -> Nat]
    /\ given \subseteq Objects
    /\ \A i \in Indices : host[i].object \in given \cup {NoObject}
    /\ \A g \in issued : g.object \in given
    /\ call.pending \in given \cup {NoObject}
    /\ \A o \in Objects \ given : Exists(o)

OwnersAreUnique ==
    \A i, j \in Indices : Owns(i) /\ Owns(j) /\ host[i].object = host[j].object => i = j

ObjectsStand ==
    /\ \A i \in Indices : Usable(i) => Exists(host[i].object)
    /\ phase \in {"prepare", "callback"} =>
          \A i \in Indices : Owns(i) => Exists(host[i].object)

LeaseInv ==
    /\ \A l \in leases : l.type \notin CopyTypes
    /\ \A l, k \in leases : l = k
    /\ \A i \in Indices : table[i].lifecycle = "IN_FLIGHT" => \E l \in leases : l.index = i
    /\ leases # {} /\ vm = "running" => phase # "idle" /\ Helper.consumes # 0
    /\ leases # {} /\ phase = "prepare" => call.next > Helper.consumes
    /\ leases # {} /\ phase = "release" =>
          call.fault \/ (Helper.effect = "TERMINAL" /\ call.result = "HANDLE")

\* The call has an object that it will hand to a record or drop.
HasPending == call.pending # NoObject /\ call.pending \notin reused

PendingInv ==
    /\ phase \in {"prepare", "callback"} => call.pending = NoObject
    /\ phase = "close" /\ HasPending =>
          /\ Exists(call.pending)
          /\ \A i \in Indices : Owns(i) /\ host[i].object = call.pending =>
                /\ Transition(call.helper) = "REPLACE"
                /\ \E l \in leases : l.index = i
    /\ phase = "release" /\ HasPending =>
          \A i \in Indices : Usable(i) => host[i].object # call.pending

SlotsInv ==
    vm = "running" =>
        \A t \in slots : t.type \notin CopyTypes =>
            /\ table[t.index].generation = t.generation
            /\ table[t.index].type = t.type
            /\ table[t.index].lifecycle \in {"AVAILABLE", "BORROWED"}

AInv == GivenInv /\ OwnersAreUnique /\ ObjectsStand /\ LeaseInv /\ PendingInv /\ SlotsInv

\* The fields of the call after an update of one of them.
LEMMA CallUpdate ==
    ASSUME PInv
    PROVE  /\ \A fault : call' = [call EXCEPT !.fault = fault] =>
                 /\ call'.helper = call.helper /\ call'.next = call.next
                 /\ call'.status = call.status /\ call'.result = call.result
                 /\ call'.pending = call.pending /\ call'.fault = fault
           /\ call' = [call EXCEPT !.pending = NoObject] =>
                 /\ call'.helper = call.helper /\ call'.next = call.next
                 /\ call'.status = call.status /\ call'.result = call.result
                 /\ call'.pending = NoObject /\ call'.fault = call.fault
           /\ call' = [call EXCEPT !.next = call.next + 1] =>
                 /\ call'.helper = call.helper /\ call'.next = call.next + 1
                 /\ call'.status = call.status /\ call'.result = call.result
                 /\ call'.pending = call.pending /\ call'.fault = call.fault
  BY ZenonT(30) DEF PInv, CallFields

\* The record of a lease owns its object and cannot be used.
LEMMA LeaseOwns ==
    ASSUME HInv, LeaseInv, NEW l \in leases
    PROVE  /\ l.index \in Indices /\ l.generation \in 1 .. MaxGeneration /\ l.type \in Types
           /\ table[l.index].lifecycle = "IN_FLIGHT" /\ table[l.index].type = l.type
           /\ table[l.index].generation = l.generation
           /\ host[l.index].object = l.object /\ l.object \in Objects
           /\ l.object \notin reused => Owns(l.index)
           /\ ~Usable(l.index)
  <1>1. /\ l \in Grants /\ l.type \notin CopyTypes
        /\ table[l.index] = Record(l.generation, "IN_FLIGHT", l.type)
        /\ host[l.index] = Binding(l.generation, l.object)
    BY ZenonT(30) DEF HInv, HandleTypeOK, LeasesStand, LeaseStands, LeaseInv
  <1>2. /\ table[l.index].lifecycle = "IN_FLIGHT" /\ table[l.index].type = l.type
        /\ table[l.index].generation = l.generation
        /\ host[l.index].object = l.object
    BY <1>1 DEF Record, Binding
  <1> QED
    BY <1>1, <1>2, ZenonT(30) DEF Grants, Owns, Usable, Live

\* What is pending when a call is closed is out of the program's reach.
LEMMA PendingIsUnreachable ==
    ASSUME HInv, AInv, phase = "close", HasPending
    PROVE  \A i \in Indices : Usable(i) => host[i].object # call.pending
  <1> SUFFICES ASSUME NEW i \in Indices, Usable(i), host[i].object = call.pending PROVE FALSE
    BY ZenonT(30)
  <1>1. Owns(i)
    BY ZenonT(30) DEF Owns, Usable, Live
  <1>2. PICK l \in leases : l.index = i
    BY <1>1, ZenonT(30) DEF AInv, PendingInv
  <1> QED
    BY <1>2, LeaseOwns, ZenonT(30) DEF AInv

\* The part of the invariant about the place in the call.
CallInv ==
    /\ leases # {} /\ vm = "running" => phase # "idle" /\ Helper.consumes # 0
    /\ leases # {} /\ phase = "prepare" => call.next > Helper.consumes
    /\ leases # {} /\ phase = "release" =>
          call.fault \/ (Helper.effect = "TERMINAL" /\ call.result = "HANDLE")

\* Steps that change no record but to borrow it or to end its borrow.
LEMMA QuietAuthority ==
    ASSUME AInv, HInv, PInv, OInv,
           \A j \in Indices :
               /\ table'[j].type = table[j].type /\ table'[j].generation = table[j].generation
               /\ \/ table'[j].lifecycle = table[j].lifecycle
                  \/ {table[j].lifecycle, table'[j].lifecycle} \subseteq {"AVAILABLE", "BORROWED"},
           host' = host, leases' = leases, issued' = issued, slots' = slots,
           drops' = drops, given' = given, reused' = reused, transferred' = transferred,
           vm' = "running" => vm = "running",
           phase' \in {"prepare", "callback"} =>
               phase \in {"prepare", "callback"} \/ (vm = "running" /\ phase = "idle"),
           call'.pending \in {call.pending, NoObject},
           CallInv', PendingInv'
    PROVE  AInv'
  <1>1. \A j \in Indices : /\ Owns(j)' = Owns(j) /\ Usable(j)' = Usable(j)
                           /\ table'[j].lifecycle = "IN_FLIGHT" <=> table[j].lifecycle = "IN_FLIGHT"
                           /\ table[j].lifecycle \in {"AVAILABLE", "BORROWED"} =>
                                 table'[j].lifecycle \in {"AVAILABLE", "BORROWED"}
    BY ZenonT(30) DEF Owns, Usable, Live
  <1>2. \A o : Exists(o)' = Exists(o)
    BY ZenonT(30) DEF Exists
  <1>3. GivenInv'
    BY <1>2, ZenonT(30) DEF AInv, GivenInv
  <1>4. OwnersAreUnique'
    BY <1>1, ZenonT(30) DEF AInv, OwnersAreUnique
  <1>5. ObjectsStand'
    <2>1. \A i \in Indices : Usable(i)' => Exists(host[i].object)'
      BY <1>1, <1>2, ZenonT(30) DEF AInv, ObjectsStand
    <2>2. ASSUME vm = "running", phase = "idle", NEW i \in Indices, Owns(i)
          PROVE  Exists(host[i].object)
      <3>1. leases = {}
        BY <2>2, ZenonT(30) DEF AInv, LeaseInv
      <3>2. table[i].lifecycle # "IN_FLIGHT"
        BY <3>1, ZenonT(30) DEF AInv, LeaseInv
      <3> QED
        BY <2>2, <3>2, ZenonT(30) DEF Owns, Usable, Live, AInv, ObjectsStand
    <2>3. ASSUME phase' \in {"prepare", "callback"}, NEW i \in Indices, Owns(i)'
          PROVE  Exists(host[i].object)'
      <3>1. Owns(i)
        BY <1>1, <2>3, ZenonT(30)
      <3>2. Exists(host[i].object)
        BY <2>2, <2>3, <3>1, ZenonT(30) DEF AInv, ObjectsStand
      <3> QED
        BY <1>2, <3>2, ZenonT(30) DEF Exists
    <2> QED
      BY <2>1, <2>3, ZenonT(30) DEF ObjectsStand
  <1>6. LeaseInv'
    BY <1>1, ZenonT(30) DEF AInv, LeaseInv, CallInv
  <1>7. SlotsInv'
    <2> SUFFICES ASSUME vm = "running", NEW t \in slots, t.type \notin CopyTypes
                 PROVE  /\ table'[t.index].generation = t.generation
                        /\ table'[t.index].type = t.type
                        /\ table'[t.index].lifecycle \in {"AVAILABLE", "BORROWED"}
      BY ZenonT(30) DEF SlotsInv
    <2>1. /\ table[t.index].generation = t.generation /\ table[t.index].type = t.type
          /\ table[t.index].lifecycle \in {"AVAILABLE", "BORROWED"}
      BY ZenonT(30) DEF AInv, SlotsInv
    <2>2. t.index \in Indices
      BY ZenonT(30) DEF PInv, Tokens
    <2> QED
      BY <1>1, <2>1, <2>2, ZenonT(30)
  <1> QED
    BY <1>3, <1>4, <1>5, <1>6, <1>7, ZenonT(30) DEF AInv

\* The steps of a call that leave the records alone.
LEMMA QuietCallSteps ==
    ASSUME AInv, HInv, PInv, OInv,
           \/ \E h \in Helpers : \E args \in Arguments(h) : Dispatch(h, args)
           \/ PrepareFails \/ Invoke \/ FinishNothing \/ CommitFails
    PROVE  AInv'
  <1>1. /\ table' = table /\ host' = host /\ leases' = leases /\ issued' = issued
        /\ slots' = slots /\ drops' = drops /\ given' = given /\ reused' = reused /\ transferred' = transferred
        /\ vm' = vm
    BY ZenonT(60) DEF Dispatch, PrepareFails, Invoke, FinishNothing, CommitFails,
                  handleVars, objectVars
  <1>2. /\ LeaseInv /\ PendingInv /\ vm \in {"running", "faulted", "closed"}
        /\ vm # "running" => phase = "idle"
    BY ZenonT(30) DEF AInv, OInv
  <1>3. ASSUME NEW h \in Helpers, NEW args \in Arguments(h), Dispatch(h, args)
        PROVE  AInv'
    <2>1. /\ phase = "idle" /\ vm = "running" /\ phase' = "prepare"
          /\ call'.pending = NoObject
      BY <1>3, ZenonT(60) DEF Dispatch, NoCall
    <2>2. leases = {}
      BY <1>2, <2>1, ZenonT(30) DEF LeaseInv
    <2>3. CallInv' /\ PendingInv'
      BY <1>1, <2>1, <2>2, ZenonT(60) DEF CallInv, PendingInv
    <2> QED
      BY <1>1, <2>1, <2>3, QuietAuthority, ZenonT(30)
  <1>4. CASE PrepareFails
    <2>1. /\ phase = "prepare" /\ phase' = "close" /\ call'.helper = call.helper
          /\ call'.pending = call.pending
      BY <1>4, CallUpdate, ZenonT(30) DEF PrepareFails
    <2>2. call'.pending = NoObject /\ Helper' = Helper
      BY <1>2, <2>1, ZenonT(30) DEF PendingInv, Helper
    <2>3. CallInv' /\ PendingInv'
      BY <1>1, <1>2, <2>1, <2>2, ZenonT(60) DEF CallInv, LeaseInv, PendingInv, HasPending
    <2> QED
      BY <1>1, <2>1, <2>3, QuietAuthority, ZenonT(30)
  <1>5. CASE Invoke
    <2>1. phase = "prepare" /\ phase' = "callback" /\ call' = call
      BY <1>5, ZenonT(30) DEF Invoke
    <2>2. CallInv' /\ PendingInv'
      BY <1>1, <1>2, <2>1, ZenonT(60) DEF CallInv, LeaseInv, PendingInv, HasPending, Helper
    <2> QED
      BY <1>1, <2>1, <2>2, QuietAuthority, ZenonT(60)
  <1>6. CASE FinishNothing \/ CommitFails
    <2>1. /\ phase = "close" /\ phase' = "release" /\ call'.helper = call.helper
          /\ call'.pending = call.pending
      BY <1>6, CallUpdate, ZenonT(30) DEF FinishNothing, CommitFails, Returns, Closed
    <2>2. Helper' = Helper /\ HasPending' = HasPending
      BY <1>1, <2>1, ZenonT(60) DEF Helper, HasPending
    <2>3. leases # {} => call'.fault
      BY <1>6, CallUpdate, ZenonT(60) DEF FinishNothing, CommitFails
    <2>4. CallInv'
      BY <1>1, <1>2, <2>1, <2>2, <2>3, ZenonT(60) DEF CallInv, LeaseInv
    <2>5. PendingInv'
      BY <1>1, <2>1, <2>2, PendingIsUnreachable, ZenonT(60) DEF PendingInv, Usable
    <2> QED
      BY <1>1, <2>1, <2>4, <2>5, QuietAuthority, ZenonT(60)
  <1> QED
    BY <1>3, <1>4, <1>5, <1>6, ZenonT(30)

\* The steps between calls that leave the records alone.
LEMMA QuietRunSteps ==
    ASSUME AInv, HInv, PInv, OInv,
           \/ Fault \/ ReturnErr \/ ConsumeAction
           \/ \E payload \in Payloads : ReturnOk(payload)
    PROVE  AInv'
  <1>1. /\ table' = table /\ host' = host /\ leases' = leases /\ issued' = issued
        /\ slots' = slots /\ drops' = drops /\ given' = given /\ reused' = reused /\ transferred' = transferred
        /\ call' = call /\ phase' = phase /\ phase = "idle"
    BY ZenonT(60) DEF Fault, ReturnErr, ConsumeAction, ReturnOk, handleVars, callVars,
                  objectVars, OInv
  <1>2. vm' # "running"
    BY ZenonT(30) DEF Fault, ReturnErr, ConsumeAction, ReturnOk, callVars
  <1>3. CallInv' /\ PendingInv'
    BY <1>1, <1>2, ZenonT(60) DEF CallInv, PendingInv
  <1> QED
    BY <1>1, <1>2, <1>3, QuietAuthority, ZenonT(60)

\* Borrows begin and end.
LEMMA BorrowSteps ==
    ASSUME AInv, HInv, PInv, OInv, PrepareBorrow \/ CloseBorrow
    PROVE  AInv'
  <1>1. /\ host' = host /\ leases' = leases /\ issued' = issued
        /\ slots' = slots /\ drops' = drops /\ given' = given /\ reused' = reused /\ transferred' = transferred
        /\ vm' = vm /\ phase' = phase
    BY ZenonT(60) DEF PrepareBorrow, CloseBorrow, BorrowBegin, BorrowEnd, handleVars,
                  callVars, objectVars
  <1>2. LeaseInv /\ PendingInv
    BY ZenonT(30) DEF AInv
  <1>3. CASE PrepareBorrow
    <2>1. /\ phase = "prepare" /\ call.next <= Len(call.args)
          /\ BorrowBegin(Argument.index, Argument.generation, Argument.type)
          /\ call' = [call EXCEPT !.next = call.next + 1]
      BY <1>3, ZenonT(30) DEF PrepareBorrow
    <2>2. Argument \in Tokens
      BY <2>1 DEF PInv, Argument
    <2>3. Argument.index \in Indices
      BY <2>2, ZenonT(30) DEF Tokens
    <2>4. /\ table[Argument.index].lifecycle = "AVAILABLE"
          /\ table' = [table EXCEPT ![Argument.index].lifecycle = "BORROWED"]
      BY <2>1, ZenonT(30) DEF BorrowBegin, Accepts
    <2>5. \A j \in Indices :
             /\ table'[j].type = table[j].type /\ table'[j].generation = table[j].generation
             /\ \/ table'[j].lifecycle = table[j].lifecycle
                \/ {table[j].lifecycle, table'[j].lifecycle} \subseteq {"AVAILABLE", "BORROWED"}
      BY <2>3, <2>4, ZenonT(30) DEF HInv, HandleTypeOK, Records
    <2>6. /\ call'.helper = call.helper /\ call'.next = call.next + 1
          /\ call'.pending = call.pending
      BY <2>1, CallUpdate, ZenonT(30)
    <2>7. Helper' = Helper /\ Helper.consumes \in Nat /\ call.next \in Nat
      <3>1. call.helper \in Helpers
        BY <2>1, ZenonT(30) DEF PInv
      <3> QED
        BY <2>6, <3>1, ContractAssumption, ZenonT(30) DEF Helper, HelperContracts, PInv
    <2>8. CallInv' /\ PendingInv'
      BY <1>1, <1>2, <2>1, <2>6, <2>7, SMTT(30) DEF CallInv, LeaseInv, PendingInv
    <2> QED
      BY <1>1, <2>1, <2>5, <2>6, <2>8, QuietAuthority, ZenonT(30)
  <1>4. CASE CloseBorrow
    <2>1. /\ phase = "close" /\ call' = call
          /\ \E b \in borrows : BorrowEnd(b)
      BY <1>4, ZenonT(30) DEF CloseBorrow, callVars
    <2>2. PICK b \in borrows : BorrowEnd(b)
      BY <2>1, ZenonT(30)
    <2>3. b.index \in Indices /\ table[b.index].lifecycle = "BORROWED"
      BY LeaseFacts, ZenonT(30) DEF Grants
    <2>4. table' = [table EXCEPT ![b.index].lifecycle = "AVAILABLE"]
      BY <2>2, ZenonT(30) DEF BorrowEnd
    <2>5. \A j \in Indices :
             /\ table'[j].type = table[j].type /\ table'[j].generation = table[j].generation
             /\ \/ table'[j].lifecycle = table[j].lifecycle
                \/ {table[j].lifecycle, table'[j].lifecycle} \subseteq {"AVAILABLE", "BORROWED"}
      BY <2>3, <2>4, ZenonT(30) DEF HInv, HandleTypeOK, Records
    <2>6. \A j \in Indices : Owns(j)' = Owns(j)
      BY <1>1, <2>5, ZenonT(30) DEF Owns, Live
    <2>7. CallInv' /\ Helper' = Helper /\ HasPending' = HasPending
      BY <1>1, <1>2, <2>1, ZenonT(30) DEF CallInv, LeaseInv, Helper, HasPending
    <2>8. PendingInv'
      BY <1>1, <1>2, <2>1, <2>6, <2>7, ZenonT(30) DEF PendingInv, Exists
    <2> QED
      BY <1>1, <2>1, <2>5, <2>7, <2>8, QuietAuthority, ZenonT(30)
  <1> QED
    BY <1>3, <1>4, ZenonT(30)

\* A consumed argument: its record keeps the object, the program loses the
\* token.
LEMMA PrepareConsumeStep ==
    ASSUME AInv, HInv, PInv, OInv, PrepareConsume
    PROVE  AInv'
  <1> DEFINE a == Argument.index
             gen == Argument.generation
             type == Argument.type
             lease == Grant(a, gen + 1, type, host[a].object)
  <1>1. /\ phase = "prepare" /\ phase' = phase /\ call.next <= Len(call.args)
        /\ call.next = Helper.consumes
        /\ ConsumeBegin(a, gen, type)
        /\ slots' = slots \ {Argument}
        /\ call' = [call EXCEPT !.next = call.next + 1]
        /\ vm' = vm /\ drops' = drops /\ given' = given /\ reused' = reused /\ transferred' = transferred
    BY ZenonT(30) DEF PrepareConsume, Consumes, objectVars
  <1>2. Argument \in Tokens
    BY <1>1 DEF PInv, Argument
  <1>3. a \in Indices /\ type \in Types /\ gen \in 1 .. MaxGeneration
    BY <1>2, ZenonT(30) DEF Tokens
  <1>4. /\ Accepts(a, gen, type) /\ type \notin CopyTypes
        /\ table' = [table EXCEPT ![a] = Record(gen + 1, "IN_FLIGHT", type)]
        /\ host' = [host EXCEPT ![a] = Binding(gen + 1, host[a].object)]
        /\ leases' = leases \cup {lease} /\ issued' = issued
    BY <1>1, ZenonT(30) DEF ConsumeBegin
  <1>5. /\ table[a].lifecycle = "AVAILABLE" /\ table[a].type = type
        /\ table[a].generation = gen /\ host[a].object \in Objects
    BY <1>3, <1>4, AcceptedFacts
  <1>6. /\ call'.helper = call.helper /\ call'.next = call.next + 1
        /\ call'.pending = call.pending /\ Helper' = Helper
    BY <1>1, CallUpdate, ZenonT(30) DEF Helper
  <1>7. Helper.consumes \in Nat /\ call.next \in Nat \ {0} /\ vm = "running"
    <2>1. call.helper \in Helpers
      BY <1>1, ZenonT(30) DEF PInv
    <2> QED
      BY <1>1, <2>1, ContractAssumption, ZenonT(30) DEF Helper, HelperContracts, PInv, OInv
  <1>8. leases = {}
    BY <1>1, <1>7, SMTT(30) DEF AInv, LeaseInv
  <1>9. \A j \in Indices : /\ j # a => table'[j] = table[j] /\ host'[j] = host[j]
                           /\ host'[j].object = host[j].object
    BY <1>3, <1>4, ZenonT(30) DEF HInv, HandleTypeOK, Binding
  <1>10. /\ table'[a].lifecycle = "IN_FLIGHT" /\ table'[a].type = type
    BY <1>3, <1>4, ZenonT(30) DEF HInv, HandleTypeOK, Record
  <1>11. \A j \in Indices : Owns(j)' = Owns(j) /\ (Usable(j)' => Usable(j))
    <2> SUFFICES ASSUME NEW j \in Indices
                 PROVE  Owns(j)' = Owns(j) /\ (Usable(j)' => Usable(j))
      BY ZenonT(30)
    <2>1. (host[j].object \notin reused)' = (host[j].object \notin reused)
      BY <1>1, <1>9, ZenonT(30)
    <2>2. CASE j = a
      BY <1>5, <1>10, <2>1, <2>2, ZenonT(60) DEF Owns, Usable, Live
    <2>3. CASE j # a
      BY <1>9, <2>1, <2>3, ZenonT(60) DEF Owns, Usable
    <2> QED
      BY <2>2, <2>3, ZenonT(30)
  <1>12. \A o : Exists(o)' = Exists(o)
    BY <1>1, ZenonT(30) DEF Exists
  <1>13. GivenInv'
    BY <1>1, <1>4, <1>6, <1>9, <1>12, ZenonT(30) DEF AInv, GivenInv
  <1>14. OwnersAreUnique'
    BY <1>9, <1>11, ZenonT(60) DEF AInv, OwnersAreUnique
  <1>15. ObjectsStand'
    BY <1>1, <1>9, <1>11, <1>12, ZenonT(30) DEF AInv, ObjectsStand, Exists
  <1>16. LeaseInv'
    <2>1. leases' = {lease} /\ lease.index = a /\ lease.type = type
      BY <1>4, <1>8, ZenonT(30) DEF Grant
    <2>2. ASSUME NEW i \in Indices, table'[i].lifecycle = "IN_FLIGHT" PROVE i = a
      BY <1>8, <1>9, <2>2, ZenonT(60) DEF AInv, LeaseInv
    <2>3. CallInv'
      BY <1>1, <1>6, <1>7 DEF CallInv
    <2> QED
      BY <1>4, <2>1, <2>2, <2>3, ZenonT(60) DEF LeaseInv, CallInv
  <1>17. PendingInv'
    BY <1>1, <1>6, ZenonT(30) DEF AInv, PendingInv
  <1>18. SlotsInv'
    <2> SUFFICES ASSUME NEW t \in slots, t # Argument, t.type \notin CopyTypes
                 PROVE  /\ table'[t.index].generation = t.generation
                        /\ table'[t.index].type = t.type
                        /\ table'[t.index].lifecycle \in {"AVAILABLE", "BORROWED"}
      BY <1>1, ZenonT(30) DEF SlotsInv
    <2>1. t \in Tokens /\ t.index \in Indices
      BY ZenonT(30) DEF PInv, Tokens
    <2>2. /\ table[t.index].generation = t.generation /\ table[t.index].type = t.type
          /\ table[t.index].lifecycle \in {"AVAILABLE", "BORROWED"}
      BY <1>7, ZenonT(30) DEF AInv, SlotsInv
    <2>3. t.index # a
      BY <1>2, <1>5, <2>1, <2>2 DEF Tokens
    <2> QED
      BY <1>9, <2>1, <2>2, <2>3, ZenonT(30)
  <1> QED
    BY <1>13, <1>14, <1>15, <1>16, <1>17, <1>18, ZenonT(30) DEF AInv

\* The callback hands over an object nobody owns, or the one it consumed and
\* did not mark as transferred; any other counts as reused from here on.
LEMMA CallbackStep ==
    ASSUME AInv, HInv, PInv, OInv, Callback
    PROVE  AInv'
  <1>1. PICK status \in Statuses, result \in ResultsAllowed, journal \in JournalsAllowed,
             marked \in BOOLEAN, overrun \in BOOLEAN :
           \E object \in ObjectsAllowed(result), payload \in PayloadsAllowed(result) :
              Answer(status, result, object, journal, payload, marked, overrun)
    BY Zenon DEF Callback
  <1>2. PICK object \in ObjectsAllowed(result), payload \in PayloadsAllowed(result) :
              Answer(status, result, object, journal, payload, marked, overrun)
    BY <1>1, Zenon
  <1> DEFINE consumed == {l.object : l \in leases}
  <1>3. /\ phase = "callback" /\ phase' = "close" /\ vm' = vm
        /\ table' = table /\ host' = host /\ leases' = leases /\ issued' = issued
        /\ drops' = drops
    BY ZenonT(30) DEF Callback, handleVars
  <1>4. /\ given' = given \cup ({object} \ {NoObject})
        /\ reused' = reused \cup {o \in {object} : Reuses(o, marked)}
        /\ transferred' = transferred \cup {l.object : l \in {l \in leases : marked}}
    BY <1>2, ZenonT(30) DEF Answer
  <1>5. /\ call'.helper = call.helper /\ call'.pending = object /\ Helper' = Helper
        /\ call'.result = result
    <2>1. call' = [call EXCEPT !.status = status, !.result = result,
                               !.pending = object, !.journal = journal,
                               !.payload = payload, !.transferred = marked,
                               !.fault = overrun]
      BY <1>2, ZenonT(30) DEF Answer
    <2>2. call'.helper = call.helper /\ call'.pending = object /\ call'.result = result
      BY <2>1, ZenonT(30) DEF PInv, CallFields
    <2> QED
      BY <2>2, ZenonT(30) DEF Helper
  <1>6. /\ vm = "running" /\ LeaseInv /\ GivenInv
        /\ \A i \in Indices : Owns(i) => Exists(host[i].object)
    BY <1>3, ZenonT(30) DEF AInv, ObjectsStand, OInv
  <1>7. /\ object \in Objects \cup {NoObject}
        /\ \/ object \in {NoObject} \cup reused'
           \/ object \in Objects \ given
           \/ /\ ~marked /\ Transition(call.helper) = "REPLACE"
              /\ \E l \in leases : object = l.object
    BY <1>4, ZenonT(30) DEF ObjectsAllowed, Reuses
  <1>8. \A l \in leases : /\ l.index \in Indices /\ ~Usable(l.index)
                          /\ host[l.index].object = l.object /\ l.object \in Objects
                          /\ l.object \in given
                          /\ l.object \notin reused => Owns(l.index) /\ Exists(l.object)
    BY <1>6, LeaseOwns, ObjectAssumption, SMTT(30) DEF GivenInv
  <1>9. \A o : o \notin reused' => o \notin reused
    BY <1>4, ZenonT(30)
  <1>10. \A i \in Indices : (Owns(i)' => Owns(i)) /\ (Usable(i)' => Usable(i))
    BY <1>3, <1>9, ZenonT(30) DEF Owns, Usable
  <1>11. \A o : o \notin consumed => Exists(o)' = Exists(o)
    BY <1>3, <1>4, ZenonT(30) DEF Exists
  <1>12. GivenInv'
    <2>1. \A o \in Objects \ given' : Exists(o)'
      BY <1>4, <1>6, <1>8, <1>11, SMTT(30) DEF GivenInv
    <2>2. given' \subseteq Objects /\ object \in given' \cup {NoObject}
      BY <1>4, <1>6, <1>7, ZenonT(30) DEF GivenInv
    <2> QED
      BY <1>3, <1>4, <1>5, <1>6, <2>1, <2>2, ZenonT(30) DEF GivenInv
  <1>13. OwnersAreUnique'
    BY <1>3, <1>10, ZenonT(30) DEF AInv, OwnersAreUnique
  <1>14. ObjectsStand'
    <2> SUFFICES ASSUME NEW i \in Indices, Usable(i) PROVE Exists(host[i].object)'
      BY <1>3, <1>10, ZenonT(30) DEF ObjectsStand
    <2>1. Owns(i) /\ Exists(host[i].object)
      BY <1>6, ZenonT(30) DEF Owns, Usable, Live
    <2>2. host[i].object \notin consumed
      <3> SUFFICES ASSUME NEW l \in leases, host[i].object = l.object PROVE FALSE
        BY ZenonT(30)
      <3>1. i = l.index
        BY <1>8, <2>1, ZenonT(30) DEF AInv, OwnersAreUnique, Usable
      <3> QED
        BY <1>8, <3>1, ZenonT(30)
    <2>3. Exists(host[i].object)' = (drops'[host[i].object] = 0 /\ host[i].object \notin transferred')
      BY <1>3, ZenonT(30) DEF Exists
    <2> QED
      BY <1>3, <1>4, <2>1, <2>2, <2>3, ZenonT(30) DEF Exists
  <1>15. LeaseInv'
    BY <1>3, <1>5, <1>6, ZenonT(60) DEF LeaseInv
  <1>16. PendingInv'
    <2> SUFFICES ASSUME object # NoObject, object \notin reused'
                 PROVE  /\ drops[object] = 0 /\ object \notin transferred'
                        /\ \A i \in Indices : Owns(i) /\ host[i].object = object =>
                              /\ Transition(call.helper) = "REPLACE"
                              /\ \E l \in leases : l.index = i
      BY <1>3, <1>5, <1>10, ZenonT(60) DEF PendingInv, HasPending, Exists
    <2>1. CASE object \in Objects \ given
      <3>1. Exists(object) /\ object \notin consumed
        <4>1. Exists(object)
          BY <1>6, <2>1, ZenonT(30) DEF GivenInv
        <4> QED
          BY <1>8, <2>1, <4>1, ZenonT(30)
      <3>2. \A i \in Indices : host[i].object # object
        BY <1>6, <2>1, ZenonT(60) DEF GivenInv
      <3> QED
        BY <1>4, <3>1, <3>2, ZenonT(60) DEF Exists
    <2>2. ASSUME ~marked, Transition(call.helper) = "REPLACE", NEW l \in leases, object = l.object
          PROVE  /\ drops[object] = 0 /\ object \notin transferred'
                 /\ \A i \in Indices : Owns(i) /\ host[i].object = object => l.index = i
      <3>1. Exists(object) /\ Owns(l.index)
        BY <1>8, <1>9, <2>2, ZenonT(30)
      <3>2. transferred' = transferred
        BY <1>4, <2>2, ZenonT(30)
      <3>3. \A i \in Indices : Owns(i) /\ host[i].object = object => l.index = i
        BY <1>8, <2>2, <3>1, ZenonT(30) DEF AInv, OwnersAreUnique
      <3> QED
        BY <3>1, <3>2, <3>3, ZenonT(30) DEF Exists
    <2> QED
      BY <1>7, <2>1, <2>2, ZenonT(60)
  <1>17. SlotsInv'
    <2>1. PICK bytes \in BytesAllowed(call'.result) : slots' = slots \cup bytes
      BY Zenon DEF Callback
    <2>2. ASSUME NEW t \in bytes PROVE t.type \in CopyTypes
      <3>1. /\ call'.result = "VALUE" /\ Helper.result # NoType /\ t.type = Helper.result
        BY <1>5, <2>1, <2>2, ZenonT(30) DEF BytesAllowed
      <3>2. Transition(call.helper) \notin {"CREATE", "REPLACE"}
        BY <1>5, <3>1, ZenonT(30) DEF ResultsAllowed
      <3>3. /\ call.helper \in Helpers /\ Helper.result \in Types \cup {NoType}
            /\ Helper.effect # "TERMINAL"
        BY <1>3, <3>1, ContractAssumption, ZenonT(30) DEF PInv, Helper, HelperContracts
      <3> QED
        BY <3>1, <3>2, <3>3, ZenonT(30) DEF Transition, Helper
    <2> QED
      BY <1>3, <2>1, <2>2, ZenonT(30) DEF AInv, SlotsInv
  <1> QED
    BY <1>12, <1>13, <1>14, <1>15, <1>16, <1>17, ZenonT(30) DEF AInv

\* Dropping objects that were given.
LEMMA DroppedFacts ==
    ASSUME GivenInv, NEW objects, objects \cap Objects \subseteq given, drops' = Dropped(objects)
    PROVE  /\ drops' \in [Objects -> Nat]
           /\ \A o \in Objects : o \notin objects => drops'[o] = drops[o]
           /\ \A o \in Objects \ given : drops'[o] = drops[o]
  BY SMTT(30) DEF GivenInv, Dropped

\* A token in a slot of the program names another record than a lease.
LEMMA SlotsAvoidLeases ==
    ASSUME AInv, HInv, PInv, vm = "running", NEW t \in slots, t.type \notin CopyTypes
    PROVE  /\ t.index \in Indices /\ table[t.index].generation = t.generation
           /\ table[t.index].type = t.type
           /\ table[t.index].lifecycle \in {"AVAILABLE", "BORROWED"}
           /\ \A l \in leases : l.index # t.index
  <1>1. /\ table[t.index].generation = t.generation /\ table[t.index].type = t.type
        /\ table[t.index].lifecycle \in {"AVAILABLE", "BORROWED"}
    BY ZenonT(30) DEF AInv, SlotsInv
  <1>2. t.index \in Indices
    BY ZenonT(30) DEF PInv, Tokens
  <1>3. \A l \in leases : table[l.index].lifecycle = "IN_FLIGHT"
    BY LeaseFacts, ZenonT(30)
  <1> QED
    BY <1>1, <1>2, <1>3, ZenonT(30)

\* A consume that is finished drops or leaves an object that no record owns
\* any more.
LEMMA FinishConsumeStep ==
    ASSUME AInv, HInv, PInv, OInv, FinishConsume
    PROVE  AInv'
  <1>1. PICK l \in leases, dropFails \in BOOLEAN :
          /\ ConsumeFinish(l)
          /\ drops' = Dropped(IF call.transferred THEN {} ELSE {l.object})
          /\ call' = [call EXCEPT !.fault = CallFaults \/ dropFails]
    BY Zenon DEF FinishConsume
  <1>2. /\ phase = "close" /\ phase' = "release" /\ vm' = vm /\ slots' = slots
        /\ given' = given /\ reused' = reused /\ transferred' = transferred
    BY ZenonT(30) DEF FinishConsume, Closed
  <1>3. /\ table' = [table EXCEPT ![l.index] = Revoked(table[l.index])]
        /\ host' = [host EXCEPT ![l.index] = Clear]
        /\ leases' = leases \ {l} /\ issued' = issued
    BY <1>1, ZenonT(30) DEF ConsumeFinish, RevokeRecord
  <1>4. /\ call'.helper = call.helper /\ call'.pending = call.pending
        /\ Helper' = Helper /\ HasPending' = HasPending
    <2>1. call'.helper = call.helper /\ call'.pending = call.pending
      BY <1>1, CallUpdate, ZenonT(30)
    <2> QED
      BY <1>2, <2>1, ZenonT(30) DEF Helper, HasPending
  <1>5. /\ l.index \in Indices /\ (l.object \notin reused => Owns(l.index)) /\ ~Usable(l.index)
        /\ host[l.index].object = l.object /\ l.object \in given /\ l.object \in Objects
        /\ vm = "running" /\ GivenInv /\ LeaseInv
    BY <1>2, LeaseOwns, ObjectAssumption, SMTT(30) DEF AInv, GivenInv, OInv
  <1>6. leases' = {}
    BY <1>3, <1>5, ZenonT(30) DEF LeaseInv
  <1>7. /\ table'[l.index].lifecycle = "REVOKED" /\ host'[l.index].object = NoObject
        /\ \A j \in Indices : j # l.index => table'[j] = table[j] /\ host'[j] = host[j]
    BY <1>3, <1>5, ZenonT(60) DEF HInv, HandleTypeOK, Revoked, Record, Clear, Binding
  <1>8. /\ ~Owns(l.index)' /\ ~Usable(l.index)'
        /\ \A j \in Indices : j # l.index => Owns(j)' = Owns(j) /\ Usable(j)' = Usable(j)
    BY <1>2, <1>7, ZenonT(60) DEF Owns, Usable, Live
  <1>9. /\ drops' \in [Objects -> Nat]
        /\ \A o \in Objects : o # l.object => drops'[o] = drops[o]
        /\ \A o \in Objects \ given : drops'[o] = drops[o]
    <2> DEFINE objects == IF call.transferred THEN {} ELSE {l.object}
    <2>1. objects \cap Objects \subseteq given /\ \A o : o # l.object => o \notin objects
      BY <1>5, ZenonT(30)
    <2> QED
      BY <1>1, <1>5, <2>1, DroppedFacts, ZenonT(60)
  <1>10. GivenInv'
    <2>1. \A o \in Objects \ given : Exists(o)'
      BY <1>2, <1>5, <1>9, ZenonT(60) DEF GivenInv, Exists
    <2> QED
      BY <1>2, <1>3, <1>4, <1>5, <1>7, <1>9, <2>1, ZenonT(60) DEF GivenInv
  <1>11. OwnersAreUnique'
    BY <1>7, <1>8, ZenonT(30) DEF AInv, OwnersAreUnique
  <1>12. ObjectsStand'
    <2> SUFFICES ASSUME NEW i \in Indices, Usable(i)'
                 PROVE  drops'[host'[i].object] = 0 /\ host'[i].object \notin transferred'
      BY <1>2, ZenonT(30) DEF ObjectsStand, Exists
    <2>1. i # l.index /\ Usable(i) /\ host'[i] = host[i]
      BY <1>7, <1>8, ZenonT(30)
    <2>2. Owns(i) /\ Exists(host[i].object)
      BY <2>1, ZenonT(30) DEF Owns, Usable, Live, AInv, ObjectsStand
    <2>3. host[i].object # l.object
      BY <1>5, <2>1, <2>2, ZenonT(30) DEF AInv, OwnersAreUnique, Usable
    <2>4. host[i].object \in Objects
      BY <2>1, ZenonT(30) DEF HInv, LiveAreBound, Usable, Live
    <2> QED
      BY <1>2, <1>9, <2>1, <2>2, <2>3, <2>4, ZenonT(30) DEF Exists
  <1>13. LeaseInv'
    <2>1. \A i \in Indices : table'[i].lifecycle # "IN_FLIGHT"
      <3> SUFFICES ASSUME NEW i \in Indices, table'[i].lifecycle = "IN_FLIGHT" PROVE FALSE
        BY ZenonT(30)
      <3>1. i # l.index /\ table[i].lifecycle = "IN_FLIGHT"
        BY <1>7, ZenonT(30)
      <3> QED
        BY <1>5, <3>1, ZenonT(30) DEF LeaseInv
    <2> QED
      BY <1>6, <2>1, ZenonT(30) DEF LeaseInv
  <1>14. PendingInv'
    <2>1. ASSUME HasPending, NEW i \in Indices, Usable(i)' PROVE host'[i].object # call'.pending
      BY <1>2, <1>4, <1>7, <1>8, <2>1, PendingIsUnreachable, ZenonT(60)
    <2> QED
      BY <1>2, <1>4, <2>1, ZenonT(30) DEF PendingInv
  <1>15. SlotsInv'
    BY <1>2, <1>5, <1>7, SlotsAvoidLeases, ZenonT(30) DEF SlotsInv
  <1> QED
    BY <1>10, <1>11, <1>12, <1>13, <1>14, <1>15, ZenonT(30) DEF AInv

\* The token that Bind issues.
LEMMA NewTokenFacts ==
    ASSUME NEW i, NEW generation, NEW type, NEW object,
           issued' = issued \cup {Grant(i, generation, type, object)}, NEW t \in NewToken
    PROVE  t.index = i /\ t.generation = generation /\ t.type = type
  BY DEF NewToken, Grant

\* REPLACE hands the pending object to the record in flight.
LEMMA CommitReplaceStep ==
    ASSUME AInv, HInv, PInv, OInv, CommitReplace
    PROVE  AInv'
  <1> DEFINE type == Helper.result
             P == call.pending
  <1>1. PICK l \in leases : ConsumeReplace(l, type, P)
    BY ZenonT(30) DEF CommitReplace
  <1>2. /\ phase = "close" /\ phase' = "release" /\ vm' = vm /\ slots' = slots \cup NewToken
        /\ given' = given /\ reused' = reused /\ transferred' = transferred /\ drops' = drops
        /\ call' = [call EXCEPT !.pending = NoObject] /\ call.result = "HANDLE"
    BY ZenonT(30) DEF CommitReplace, Returns, Closed, objectVars
  <1>3. /\ table' = [table EXCEPT ![l.index] = Record(l.generation, "AVAILABLE", type)]
        /\ host' = [host EXCEPT ![l.index] = Binding(l.generation, P)]
        /\ issued' = issued \cup {Grant(l.index, l.generation, type, P)}
        /\ leases' = leases \ {l} /\ type \notin CopyTypes
    BY <1>1, ZenonT(60) DEF ConsumeReplace, Bind
  <1>4. call'.helper = call.helper /\ call'.pending = NoObject
    BY <1>2, CallUpdate, ZenonT(30)
  <1>5. /\ l.index \in Indices /\ vm = "running" /\ GivenInv /\ LeaseInv
    BY <1>2, LeaseOwns, ZenonT(30) DEF AInv, OInv
  <1>6. P \in Objects /\ P \in given
    BY <1>2, <1>5, ObjectAssumption, ZenonT(30) DEF PInv, GivenInv
  <1>7. ASSUME P \notin reused
        PROVE  /\ Exists(P)
               /\ \A i \in Indices : Owns(i) /\ host[i].object = P => i = l.index
    <2>1. HasPending
      BY <1>6, <1>7, ObjectAssumption, ZenonT(30) DEF HasPending
    <2>2. /\ Exists(P)
          /\ \A i \in Indices : Owns(i) /\ host[i].object = P => \E k \in leases : k.index = i
      BY <1>2, <2>1, ZenonT(30) DEF AInv, PendingInv
    <2> QED
      BY <1>5, <2>2, ZenonT(60) DEF LeaseInv
  <1>8. leases' = {}
    BY <1>3, <1>5, ZenonT(60) DEF LeaseInv
  <1>9. /\ table'[l.index].lifecycle = "AVAILABLE" /\ table'[l.index].type = type
        /\ table'[l.index].generation = l.generation /\ host'[l.index].object = P
        /\ \A j \in Indices : j # l.index => table'[j] = table[j] /\ host'[j] = host[j]
    BY <1>3, <1>5, ZenonT(30) DEF HInv, HandleTypeOK, Record, Binding
  <1>10. /\ Owns(l.index)' => P \notin reused
         /\ Usable(l.index)' => P \notin reused
         /\ \A j \in Indices : j # l.index => Owns(j)' = Owns(j) /\ Usable(j)' = Usable(j)
    BY <1>2, <1>9, ZenonT(60) DEF Owns, Usable
  <1>11. \A o : Exists(o)' = Exists(o)
    BY <1>2, ZenonT(30) DEF Exists
  <1>12. GivenInv'
    <2>1. \A g \in issued' : g.object \in given
      BY <1>3, <1>5, <1>6, SMTT(30) DEF GivenInv, Grant
    <2> QED
      BY <1>2, <1>4, <1>5, <1>6, <1>9, <1>11, <2>1, ZenonT(30) DEF GivenInv
  <1>13. OwnersAreUnique'
    BY <1>7, <1>9, <1>10 DEF AInv, OwnersAreUnique
  <1>14. ObjectsStand'
    <2> SUFFICES ASSUME NEW i \in Indices, Usable(i)' PROVE Exists(host'[i].object)
      BY <1>2, ZenonT(30) DEF ObjectsStand, Exists
    <2> QED
      BY <1>7, <1>9, <1>10, ZenonT(30) DEF AInv, ObjectsStand
  <1>15. LeaseInv'
    <2>1. \A i \in Indices : table'[i].lifecycle # "IN_FLIGHT"
      <3> SUFFICES ASSUME NEW i \in Indices, table'[i].lifecycle = "IN_FLIGHT" PROVE FALSE
        BY ZenonT(30)
      <3>1. i # l.index /\ table[i].lifecycle = "IN_FLIGHT"
        BY <1>9, ZenonT(30)
      <3> QED
        BY <1>5, <3>1, ZenonT(30) DEF LeaseInv
    <2> QED
      BY <1>8, <2>1, ZenonT(30) DEF LeaseInv
  <1>16. PendingInv'
    BY <1>2, <1>4, ZenonT(30) DEF PendingInv, HasPending
  <1>17. SlotsInv'
    <2>1. ASSUME NEW t \in slots, t.type \notin CopyTypes
          PROVE  /\ table'[t.index].generation = t.generation
                 /\ table'[t.index].type = t.type
                 /\ table'[t.index].lifecycle \in {"AVAILABLE", "BORROWED"}
      BY <1>5, <1>9, <2>1, SlotsAvoidLeases, ZenonT(30)
    <2>2. ASSUME NEW t \in NewToken
          PROVE  t.index = l.index /\ t.generation = l.generation /\ t.type = type
      BY <1>3, NewTokenFacts, SMTT(30)
    <2> QED
      BY <1>2, <1>9, <2>1, <2>2, ZenonT(30) DEF SlotsInv
  <1> QED
    BY <1>12, <1>13, <1>14, <1>15, <1>16, <1>17, ZenonT(30) DEF AInv

\* Every other commit hands the pending object to a free record.
LEMMA CommitCreateStep ==
    ASSUME AInv, HInv, PInv, OInv, CommitCreate
    PROVE  AInv'
  <1> DEFINE type == Helper.result
             P == call.pending
  <1>1. /\ phase = "close" /\ phase' = "release" /\ vm' = vm /\ slots' = slots \cup NewToken
        /\ given' = given /\ reused' = reused /\ transferred' = transferred /\ drops' = drops
        /\ call' = [call EXCEPT !.pending = NoObject] /\ call.result = "HANDLE"
        /\ Transition(call.helper) # "REPLACE" /\ Create(type, P)
    BY ZenonT(30) DEF CommitCreate, Returns, Closed, objectVars
  <1>2. PICK a \in Indices :
          /\ IsFree(a)
          /\ Bind(a, Advanced(table[a].generation), type, P)
          /\ leases' = leases
    BY <1>1, ZenonT(30) DEF Create
  <1> DEFINE gen == Advanced(table[a].generation)
  <1>3. /\ table' = [table EXCEPT ![a] = Record(gen, "AVAILABLE", type)]
        /\ host' = [host EXCEPT ![a] = Binding(gen, P)]
        /\ issued' = issued \cup {Grant(a, gen, type, P)}
        /\ table[a].lifecycle \in {"EMPTY", "REVOKED"}
    BY <1>2, ZenonT(30) DEF Bind, IsFree
  <1>4. /\ call'.helper = call.helper /\ call'.pending = NoObject
        /\ call'.result = "HANDLE" /\ Helper' = Helper
    BY <1>1, CallUpdate, ZenonT(30) DEF Helper
  <1>5. vm = "running" /\ GivenInv /\ LeaseInv /\ call.helper \in Helpers
    BY <1>1, ZenonT(30) DEF AInv, OInv, PInv
  <1>6. P \in Objects /\ P \in given /\ type \in Types /\ type # NoType
    BY <1>1, <1>5, ObjectAssumption, HandleTypeAssumption, ZenonT(30) DEF PInv, GivenInv, Helper
  <1>7. ASSUME P \notin reused
        PROVE  /\ Exists(P)
               /\ \A i \in Indices : Owns(i) => host[i].object # P
    <2>1. HasPending
      BY <1>6, <1>7, ObjectAssumption, ZenonT(30) DEF HasPending
    <2> QED
      BY <1>1, <2>1, ZenonT(30) DEF AInv, PendingInv
  <1>8. /\ table'[a].lifecycle = "AVAILABLE" /\ table'[a].type = type
        /\ table'[a].generation = gen /\ host'[a].object = P
        /\ \A j \in Indices : j # a => table'[j] = table[j] /\ host'[j] = host[j]
    BY <1>3, ZenonT(30) DEF HInv, HandleTypeOK, Record, Binding
  <1>9. /\ Owns(a)' => P \notin reused
        /\ Usable(a)' => P \notin reused
        /\ \A j \in Indices : j # a => Owns(j)' = Owns(j) /\ Usable(j)' = Usable(j)
    BY <1>1, <1>8, ZenonT(30) DEF Owns, Usable
  <1>10. \A o : Exists(o)' = Exists(o)
    BY <1>1, ZenonT(30) DEF Exists
  <1>11. GivenInv'
    <2>1. \A g \in issued' : g.object \in given
      BY <1>3, <1>5, <1>6, SMTT(30) DEF GivenInv, Grant
    <2> QED
      BY <1>1, <1>4, <1>5, <1>6, <1>8, <1>10, <2>1, ZenonT(30) DEF GivenInv
  <1>12. OwnersAreUnique'
    BY <1>7, <1>8, <1>9 DEF AInv, OwnersAreUnique
  <1>13. ObjectsStand'
    <2> SUFFICES ASSUME NEW i \in Indices, Usable(i)' PROVE Exists(host'[i].object)
      BY <1>1, ZenonT(30) DEF ObjectsStand, Exists
    <2> QED
      BY <1>7, <1>8, <1>9, ZenonT(30) DEF AInv, ObjectsStand
  <1>14. LeaseInv'
    <2>1. \A i \in Indices : table'[i].lifecycle = "IN_FLIGHT" => \E l \in leases : l.index = i
      BY <1>5, <1>8, ZenonT(60) DEF LeaseInv
    <2>2. ASSUME leases # {} PROVE Helper.effect = "TERMINAL" /\ Helper.consumes # 0
      <3>1. Helper.consumes # 0
        BY <1>5, <2>2, ZenonT(30) DEF LeaseInv
      <3>2. Helper.effect # "TERMINAL" => Transition(call.helper) = "REPLACE"
        BY <1>6, <3>1, ZenonT(30) DEF Transition, Helper
      <3> QED
        BY <1>1, <3>1, <3>2, ZenonT(30)
    <2> QED
      BY <1>1, <1>2, <1>4, <1>5, <2>1, <2>2, ZenonT(30) DEF LeaseInv
  <1>15. PendingInv'
    BY <1>1, <1>4, ZenonT(30) DEF PendingInv, HasPending
  <1>16. SlotsInv'
    <2>1. ASSUME NEW t \in slots, t.type \notin CopyTypes
          PROVE  /\ table'[t.index].generation = t.generation
                 /\ table'[t.index].type = t.type
                 /\ table'[t.index].lifecycle \in {"AVAILABLE", "BORROWED"}
      BY <1>3, <1>5, <1>8, <2>1, SlotsAvoidLeases, ZenonT(60)
    <2>2. ASSUME NEW t \in NewToken
          PROVE  t.index = a /\ t.generation = gen /\ t.type = type
      BY <1>3, NewTokenFacts, SMTT(30)
    <2> QED
      BY <1>1, <1>8, <2>1, <2>2, ZenonT(30) DEF SlotsInv
  <1> QED
    BY <1>11, <1>12, <1>13, <1>14, <1>15, <1>16, ZenonT(30) DEF AInv

\* The release drops what is still pending; a call that kept its lease
\* faults.
LEMMA ReleaseStep ==
    ASSUME AInv, HInv, PInv, OInv, Release
    PROVE  AInv'
  <1> DEFINE objects == {call.pending}
  <1>1. /\ phase = "release" /\ phase' = "idle" /\ call' = NoCall /\ drops' = Dropped(objects)
        /\ table' = table /\ host' = host /\ leases' = leases /\ issued' = issued
        /\ slots' = slots /\ given' = given /\ reused' = reused /\ transferred' = transferred
    BY ZenonT(30) DEF Release, handleVars
  <1>2. /\ vm = "running" /\ GivenInv /\ LeaseInv /\ PendingInv
        /\ vm' \in {"faulted", "running"}
    BY <1>1, ZenonT(30) DEF AInv, OInv, Release
  <1>3. leases # {} => vm' = "faulted"
    <2> SUFFICES ASSUME leases # {} PROVE vm' = "faulted"
      BY ZenonT(30)
    <2>1. call.fault \/ (Helper.effect = "TERMINAL" /\ call.result = "HANDLE")
      BY <1>1, <1>2, ZenonT(30) DEF LeaseInv
    <2>2. CASE call.fault
      BY <2>2, ZenonT(30) DEF Release
    <2>3. CASE Helper.effect = "TERMINAL" /\ call.result = "HANDLE"
      BY <2>3, ZenonT(30) DEF Release, ActionIsRecorded
    <2> QED
      BY <2>1, <2>2, <2>3, ZenonT(30)
  <1>4. call'.pending = NoObject
    BY <1>1, ZenonT(30) DEF NoCall
  <1>5. /\ drops' \in [Objects -> Nat]
        /\ \A o \in Objects : o \notin objects => drops'[o] = drops[o]
        /\ \A o \in Objects \ given : drops'[o] = drops[o]
    <2>1. objects \cap Objects \subseteq given
      BY <1>2, ObjectAssumption, ZenonT(30) DEF GivenInv
    <2> QED
      BY <1>1, <1>2, <2>1, DroppedFacts, ZenonT(60)
  <1>6. \A j \in Indices : Owns(j)' = Owns(j) /\ Usable(j)' = Usable(j)
    BY <1>1, ZenonT(30) DEF Owns, Usable
  <1>7. GivenInv'
    <2>1. \A o \in Objects \ given : Exists(o)'
      BY <1>1, <1>2, <1>5, ZenonT(60) DEF GivenInv, Exists
    <2> QED
      BY <1>1, <1>2, <1>4, <1>5, <2>1, ZenonT(60) DEF GivenInv
  <1>8. OwnersAreUnique'
    BY <1>1, <1>6, ZenonT(30) DEF AInv, OwnersAreUnique
  <1>9. ObjectsStand'
    <2> SUFFICES ASSUME NEW i \in Indices, Usable(i)
                 PROVE  drops'[host[i].object] = 0 /\ host[i].object \notin transferred
      BY <1>1, <1>6, ZenonT(30) DEF ObjectsStand, Exists
    <2>1. Exists(host[i].object) /\ host[i].object \in Objects
      BY ZenonT(30) DEF AInv, ObjectsStand, HInv, LiveAreBound, Usable, Live
    <2>2. host[i].object \notin objects
      <3> SUFFICES ASSUME host[i].object \in objects PROVE FALSE
        BY ZenonT(60)
      <3>1. HasPending /\ host[i].object = call.pending
        BY <2>1, ObjectAssumption, ZenonT(60) DEF HasPending, Usable
      <3> QED
        BY <1>1, <1>2, <3>1, ZenonT(60) DEF PendingInv
    <2> QED
      BY <1>5, <2>1, <2>2, ZenonT(60) DEF Exists
  <1>10. LeaseInv'
    BY <1>1, <1>2, <1>3, ZenonT(60) DEF LeaseInv
  <1>11. PendingInv'
    BY <1>1, ZenonT(30) DEF PendingInv
  <1>12. SlotsInv'
    BY <1>1, <1>2, ZenonT(60) DEF AInv, SlotsInv
  <1> QED
    BY <1>7, <1>8, <1>9, <1>10, <1>11, <1>12, ZenonT(30) DEF AInv

\* The cleanup of a fault leaves no record that owns anything.
LEMMA CloseFaultStep ==
    ASSUME AInv, HInv, PInv, OInv, CloseFault
    PROVE  AInv'
  <1>1. /\ vm = "faulted" /\ vm' = "closed" /\ phase' = phase /\ call' = call
        /\ drops' = Dropped(Droppable) /\ slots' = slots
        /\ given' = given /\ reused' = reused /\ transferred' = transferred /\ issued' = issued /\ leases' = {}
        /\ table' = [i \in Indices |-> IF table[i].lifecycle \in Live
                                       THEN Revoked(table[i]) ELSE table[i]]
        /\ host' = [i \in Indices |-> Clear]
    BY ZenonT(30) DEF CloseFault, FaultCleanup
  <1>2. phase = "idle" /\ GivenInv
    BY <1>1, ZenonT(30) DEF AInv, OInv
  <1>3. \A i \in Indices : /\ host'[i].object = NoObject /\ table'[i].lifecycle \notin Live
                           /\ ~Owns(i)' /\ ~Usable(i)'
    <2>1. \A i \in Indices : host'[i].object = NoObject /\ table'[i].lifecycle \notin Live
      BY <1>1, ZenonT(60) DEF Clear, Binding, Revoked, Record, Live
    <2> QED
      BY <2>1, ZenonT(30) DEF Owns, Usable, Live
  <1>4. /\ drops' \in [Objects -> Nat]
        /\ \A o \in Objects \ given : drops'[o] = drops[o]
    <2>1. Droppable \cap Objects \subseteq given
      BY <1>2, ObjectAssumption, ZenonT(30) DEF Droppable, GivenInv
    <2> QED
      BY <1>1, <1>2, <2>1, DroppedFacts, ZenonT(60)
  <1>5. GivenInv'
    <2>1. \A o \in Objects \ given : Exists(o)'
      BY <1>1, <1>2, <1>4, ZenonT(60) DEF GivenInv, Exists
    <2> QED
      BY <1>1, <1>2, <1>3, <1>4, <2>1, ZenonT(60) DEF GivenInv
  <1>6. OwnersAreUnique' /\ ObjectsStand'
    BY <1>1, <1>2, <1>3, ZenonT(30) DEF OwnersAreUnique, ObjectsStand
  <1>7. LeaseInv'
    BY <1>1, <1>3, ZenonT(60) DEF LeaseInv, Live
  <1>8. PendingInv' /\ SlotsInv'
    BY <1>1, <1>2, ZenonT(60) DEF PendingInv, SlotsInv
  <1> QED
    BY <1>5, <1>6, <1>7, <1>8, ZenonT(30) DEF AInv

\* Nothing was given before the first instruction.
LEMMA AuthorityInit == Init => AInv
  <1> SUFFICES ASSUME Init PROVE AInv
    BY ZenonT(30)
  <1>1. /\ \A i \in Indices : table[i].lifecycle = "EMPTY" /\ host[i].object = NoObject
        /\ leases = {} /\ issued = {} /\ slots = {} /\ given = {} /\ transferred = {}
        /\ drops = [o \in Objects |-> 0] /\ phase = "idle" /\ call.pending = NoObject
    BY ZenonT(60) DEF Init, HandleInit, Record, Clear, Binding, NoCall
  <1>2. \A i \in Indices : ~Owns(i) /\ ~Usable(i)
    BY <1>1, ZenonT(60) DEF Owns, Usable, Live
  <1> QED
    BY <1>1, <1>2, ZenonT(60) DEF AInv, GivenInv, Exists, OwnersAreUnique, ObjectsStand, LeaseInv,
                  PendingInv, SlotsInv

\* Every step keeps the authority over objects.
LEMMA AuthorityStep == ASSUME AInv, HInv, PInv, OInv, [Next]_vars PROVE AInv'
  <1>1. CASE UNCHANGED vars
    <2>1. /\ table' = table /\ host' = host /\ leases' = leases /\ issued' = issued
          /\ slots' = slots /\ drops' = drops /\ given' = given /\ reused' = reused /\ transferred' = transferred
          /\ vm' = vm /\ phase' = phase /\ call' = call
      BY <1>1, ZenonT(30) DEF vars, handleVars, callVars, objectVars
    <2>2. CallInv' /\ PendingInv'
      BY <2>1, ZenonT(60) DEF AInv, LeaseInv, CallInv, PendingInv, Helper, HasPending, Exists, Owns, Usable
    <2> QED
      BY <2>1, <2>2, QuietAuthority, ZenonT(30)
  <1> QED
    BY <1>1, QuietCallSteps, QuietRunSteps, BorrowSteps, PrepareConsumeStep, CallbackStep,
       FinishConsumeStep, CommitReplaceStep, CommitCreateStep, ReleaseStep, CloseFaultStep, ZenonT(30) DEF Next, Run

\* The types that no other invariant states.
TInv ==
    /\ calls \in 0 .. MaxCalls
    /\ phase \in Phases
    /\ call.helper \in Helpers \cup {NoHelper}
    /\ call.status \in Statuses /\ call.result \in ResultKinds
    /\ output \in Payloads \cup {ZeroPayload, ErrorPayload}

\* Every step keeps the types of the run.
LEMMA TypesStep == ASSUME TInv, PInv, CInv, [Next]_vars PROVE TInv'
  <1> USE DEF TInv
  <1>1. CASE UNCHANGED vars
    BY <1>1, ZenonT(30) DEF vars, callVars, outcomeVars
  <1>2. ASSUME NEW h \in Helpers, NEW args \in Arguments(h), Dispatch(h, args)
        PROVE  TInv'
    <2>1. /\ calls < MaxCalls /\ calls' = calls + 1 /\ phase' = "prepare" /\ output' = output
          /\ call'.helper = h /\ call'.status = "CONTRACT_FAULT" /\ call'.result = "NONE"
      BY <1>2, ZenonT(30) DEF Dispatch, NoCall, outcomeVars
    <2>2. calls' \in 0 .. MaxCalls
      BY <2>1, PolicyAssumption, SMTT(30)
    <2> QED
      BY <2>1, <2>2, ZenonT(30) DEF Phases, Statuses, ResultKinds
  <1>3. CASE Callback
    <2>1. PICK status \in Statuses, result \in ResultsAllowed, journal \in JournalsAllowed,
               marked \in BOOLEAN, overrun \in BOOLEAN :
             \E object \in ObjectsAllowed(result), payload \in PayloadsAllowed(result) :
                Answer(status, result, object, journal, payload, marked, overrun)
      BY <1>3, Zenon DEF Callback
    <2>2. PICK object \in ObjectsAllowed(result), payload \in PayloadsAllowed(result) :
                Answer(status, result, object, journal, payload, marked, overrun)
      BY <2>1, Zenon
    <2>3. call' = [call EXCEPT !.status = status, !.result = result,
                               !.pending = object, !.journal = journal,
                               !.payload = payload, !.transferred = marked,
                               !.fault = overrun]
      BY <2>2, ZenonT(30) DEF Answer
    <2>4. call'.helper = call.helper /\ call'.status = status /\ call'.result = result
      BY <2>3, ZenonT(30) DEF PInv, CallFields
    <2>5. phase' = "close" /\ calls' = calls /\ output' = output
      BY <1>3, ZenonT(30) DEF Callback, outcomeVars
    <2>6. result \in ResultKinds
      BY ZenonT(30) DEF ResultsAllowed, ResultKinds
    <2> QED
      BY <2>4, <2>5, <2>6, ZenonT(60) DEF Phases
  <1>4. CASE PrepareConsume \/ PrepareBorrow \/ PrepareFails \/ FinishConsume \/ FinishNothing
             \/ CommitReplace \/ CommitCreate \/ CommitFails
    <2>1. /\ phase' \in {"prepare", "close", "release"} /\ calls' = calls /\ output' = output
          /\ \/ \E fault : call' = [call EXCEPT !.fault = fault]
             \/ call' = [call EXCEPT !.pending = NoObject]
             \/ call' = [call EXCEPT !.next = call.next + 1]
      BY <1>4, ZenonT(60) DEF PrepareConsume, PrepareBorrow, PrepareFails, FinishConsume, FinishNothing,
                  CommitReplace, CommitCreate, CommitFails, outcomeVars
    <2>2. /\ call'.helper = call.helper /\ call'.status = call.status
          /\ call'.result = call.result
      BY <2>1, CallUpdate, ZenonT(30)
    <2> QED
      BY <2>1, <2>2, ZenonT(30) DEF Phases
  <1>5. CASE Release
    <2>1. /\ phase = "release" /\ phase' = "idle" /\ calls' = calls /\ call' = NoCall
      BY <1>5, ZenonT(30) DEF Release
    <2>2. output' = output \/ output' \in Payloads
      BY <1>5, <2>1, ZenonT(30) DEF Release, ActionIsRecorded, CInv, Answered
    <2>3. /\ call'.helper = NoHelper /\ call'.status = "CONTRACT_FAULT"
          /\ call'.result = "NONE"
      BY <2>1, ZenonT(30) DEF NoCall
    <2> QED
      BY <2>1, <2>2, <2>3, ZenonT(30) DEF Phases, Statuses, ResultKinds
  <1>6. CASE \/ Invoke \/ CloseBorrow \/ Fault \/ ReturnErr \/ CloseFault \/ ConsumeAction
             \/ \E payload \in Payloads : ReturnOk(payload)
    <2>1. /\ phase' \in {phase, "callback"} /\ calls' = calls /\ call' = call
          /\ output' \in {output, ZeroPayload, ErrorPayload}
      BY <1>6, ZenonT(30) DEF Invoke, CloseBorrow, Fault, ReturnErr, CloseFault, ConsumeAction, ReturnOk,
                  callVars, outcomeVars
    <2> QED
      BY <2>1, ZenonT(30) DEF Phases
  <1> QED
    BY <1>1, <1>2, <1>3, <1>4, <1>5, <1>6, ZenonT(60) DEF Next, Run

\* All invariants of a run hold together.
LEMMA RunInvariant == Spec => [](HInv /\ PInv /\ CInv /\ OInv /\ JInv /\ AInv /\ TInv)
  <1>1. Init => AInv /\ TInv
    <2> SUFFICES ASSUME Init PROVE TInv
      BY AuthorityInit, ZenonT(30)
    <2>1. /\ calls = 0 /\ phase = "idle" /\ output = ZeroPayload /\ call = NoCall
      BY ZenonT(30) DEF Init
    <2>2. /\ call.helper = NoHelper /\ call.status = "CONTRACT_FAULT" /\ call.result = "NONE"
      BY <2>1, ZenonT(30) DEF NoCall
    <2> QED
      BY <2>1, <2>2, PolicyAssumption DEF TInv, Phases, Statuses, ResultKinds
  <1>2. HInv /\ PInv /\ CInv /\ OInv /\ AInv /\ TInv /\ [Next]_vars => AInv' /\ TInv'
    BY AuthorityStep, TypesStep, ZenonT(30)
  <1> QED
    BY <1>1, <1>2, PolicyInvariant, OutcomeInvariant, PTL DEF Spec

\* The tables, the call, the terminal snapshot and the output region of a run
\* stay within their types: no generation passes its limit, no call its
\* budget, and a terminal state is one of the contract (helpers.c, terminal.c).
THEOREM PolicyTypes == Spec => []TypeOK
  <1>1. HInv /\ PInv /\ OInv /\ JInv /\ AInv /\ TInv => TypeOK
    <2> SUFFICES ASSUME HInv, PInv, OInv, JInv, AInv, TInv PROVE TypeOK
      BY ZenonT(30)
    <2>1. terminal.state \in Outcomes \cup {"EXECUTING", "ACTION_PENDING"}
      BY ZenonT(30) DEF OInv, OutcomeIsClosed, Outcomes
    <2>2. call.pending \in Objects \cup {NoObject}
      BY ZenonT(30) DEF AInv, GivenInv
    <2> QED
      BY <2>1, <2>2, ZenonT(60) DEF HInv, PInv, OInv, JInv, TInv, TypeOK
  <1> QED
    BY <1>1, RunInvariant, PTL

\* Whatever contract the helpers have and whatever their callbacks answer, a
\* handle that a policy can use never names an object that was dropped or
\* transferred, unless a callback handed that object over a second time
\* (commit_result, finish_consume, release_pending_handle).
THEOREM UsableHandlesNameObjects == Spec => []UsableObjectsExist
  <1>1. AInv => UsableObjectsExist
    BY ZenonT(60) DEF AInv, ObjectsStand, Usable, Exists, UsableObjectsExist
  <1> QED
    BY <1>1, RunInvariant, PTL

\* No two records own one object, unless a callback handed that object over
\* a second time, and the affine tokens that a running program holds are
\* current: slots lose a token before its record changes and gain one only
\* with it (prepare_handles, commit_result).
THEOREM AuthorityNeverForks == Spec => []AuthorityIsUnique
  <1>1. AInv => AuthorityIsUnique
    <2> SUFFICES ASSUME AInv PROVE AuthorityIsUnique
      BY ZenonT(30)
    <2>1. ASSUME NEW i \in Indices, NEW j \in Indices,
                 {table[i].lifecycle, table[j].lifecycle} \subseteq Live,
                 host[i].object = host[j].object, host[i].object \notin reused
          PROVE  i = j
      <3>1. Owns(i) /\ Owns(j)
        BY <2>1, ZenonT(30) DEF Owns
      <3> QED
        BY <2>1, <3>1, ZenonT(30) DEF AInv, OwnersAreUnique
    <2> QED
      BY <2>1, ZenonT(30) DEF AInv, SlotsInv, AuthorityIsUnique
  <1> QED
    BY <1>1, RunInvariant, PTL
=============================================================================
