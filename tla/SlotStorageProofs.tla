-------------------------- MODULE SlotStorageProofs --------------------------
(***************************************************************************)
(* SlotStorage and the slot metadata it works on: the checks of a metadata *)
(* transition imply that its result is valid; for every device, bundle and *)
(* caller, the storage writes into the staged slot only, components do not *)
(* destroy each other, and what was verified stays.                        *)
(***************************************************************************)
EXTENDS SlotStorage, TLAPS

-----------------------------------------------------------------------------
(* Metadata transitions *)

\* The slot that is not active is the only one that can be pending.
LEMMA OnlyInactivePends ==
    ASSUME NEW m \in Metadata, MetadataIsValid(m), NEW slot \in Slots, slot # m.active
    PROVE  /\ m.pending \in {slot, NoSlot}
           /\ m.slots[slot].state # "PENDING" => m.pending = NoSlot
<1>1. m.pending = NoSlot \/ m.pending \in {s \in Slots : m.slots[s].state = "PENDING"}
  BY ZenonT(30) DEF MetadataIsValid
<1>2. m.pending \in Slots => m.pending # m.active
  BY DEF MetadataIsValid, Slots, NoSlot
<1>3. m.active \in Slots
  BY ZenonT(30) DEF Metadata
<1> QED
  BY <1>1, <1>2, <1>3, ZenonT(30) DEF Slots

\* ribon_update_slot_metadata_transition never refuses the metadata that it
\* built for a transition that passed its argument checks: the second
\* metadata_is_valid call is redundant, so an allowed transition always has
\* its one successor, which is again valid.
THEOREM AllowedTransitionIsValid ==
    ASSUME NEW m \in Metadata, NEW slot \in Slots, NEW state \in SlotStates,
           NEW image \in Images, NEW attempts \in 0 .. MaxAttempts,
           TransitionIsAllowed(m, slot, state, image, attempts)
    PROVE  /\ Successor(m, slot, state, image, attempts) \in Metadata
           /\ Transitions(m, slot, state, image, attempts)
                  = {Successor(m, slot, state, image, attempts)}
<1> DEFINE next == Successor(m, slot, state, image, attempts)
           entry == next.slots[slot]
<1>1. /\ MetadataIsValid(m) /\ slot # m.active /\ m.gen < MaxGeneration
      /\ <<m.slots[slot].state, state>> \in AllowedEdges
      /\ state = "PENDING" <=> attempts # 0
      /\ state = "PENDING" => m.pending = NoSlot
  BY ZenonT(30) DEF TransitionIsAllowed
<1>2. /\ m.gen \in 1 .. MaxGeneration /\ m.active \in Slots
      /\ m.pending \in Slots \cup {NoSlot} /\ m.slots \in [Slots -> Entries]
      /\ m.slots[slot] \in Entries
  BY ZenonT(30) DEF Metadata
<1>3. m.gen + 1 \in 1 .. MaxGeneration /\ m.gen \in Nat
  BY <1>1, <1>2, MetadataGenerationAssumption
<1>4. /\ state \in {"STAGING", "VERIFIED", "PENDING", "CONFIRMED", "BAD"}
      /\ state # "STAGING" => m.slots[slot].state \in {"STAGING", "VERIFIED", "PENDING"}
      /\ state = "STAGING" => m.slots[slot].state # "PENDING"
      /\ state = "VERIFIED" => m.slots[slot].state = "STAGING"
  BY <1>1, ZenonT(30) DEF AllowedEdges
<1>5. /\ next.gen = m.gen + 1
      /\ next.active = IF state = "CONFIRMED" THEN slot ELSE m.active
      /\ next.pending = CASE state = "PENDING" -> slot
                          [] state \in {"CONFIRMED", "BAD"} -> NoSlot
                          [] OTHER -> m.pending
      /\ \A s \in Slots : s # slot => next.slots[s] = m.slots[s]
      /\ entry = [state |-> state, gen |-> m.gen + 1, attempts |-> attempts,
                  image |-> IF state = "STAGING" THEN image ELSE m.slots[slot].image]
  BY <1>2, ZenonT(30) DEF Successor
<1>6. EntryIsValid(m.slots[slot], m.gen) /\ m.slots[m.active].state = "CONFIRMED"
  BY <1>1, ZenonT(30) DEF MetadataIsValid
<1>7. (IF state = "STAGING" THEN image ELSE m.slots[slot].image) \in Images
  BY <1>2, <1>4, <1>6, ImageAssumption, ZenonT(30) DEF EntryIsValid, Entries
<1>8. entry \in Entries /\ EntryIsValid(entry, m.gen + 1)
  <2>1. entry.state # "EMPTY" /\ entry.gen = m.gen + 1 /\ entry.image \in Images
        /\ entry.state = state /\ entry.attempts = attempts
    BY <1>4, <1>5, <1>7
  <2>2. EntryIsValid(entry, m.gen + 1)
    BY <1>1, <1>3, <2>1, ImageAssumption DEF EntryIsValid
  <2>3. entry \in Entries
    BY <1>3, <1>5, <1>7 DEF Entries
  <2> QED
    BY <2>2, <2>3, ZenonT(30)
<1>9. \A s \in Slots : s # slot => EntryIsValid(next.slots[s], m.gen + 1)
  <2> SUFFICES ASSUME NEW s \in Slots, s # slot
               PROVE  EntryIsValid(m.slots[s], m.gen + 1)
    BY <1>5, ZenonT(30)
  <2>1. EntryIsValid(m.slots[s], m.gen) /\ m.slots[s].gen \in Nat
    BY <1>1, <1>2, MetadataGenerationAssumption DEF MetadataIsValid, Entries
  <2> QED
    BY <1>3, <2>1 DEF EntryIsValid
<1>10. next.slots[next.active].state = "CONFIRMED" /\ next.active \in Slots
  BY <1>1, <1>2, <1>5, <1>6
<1>11. IF next.pending = NoSlot
       THEN {s \in Slots : next.slots[s].state = "PENDING"} = {}
       ELSE /\ {s \in Slots : next.slots[s].state = "PENDING"} = {next.pending}
            /\ next.pending # next.active
  <2>1. \A s \in Slots : s = slot \/ s = m.active
    BY <1>1, <1>2, ZenonT(30) DEF Slots
  <2>2. \A s \in Slots : next.slots[s].state = "PENDING" <=> s = slot /\ state = "PENDING"
    BY <1>5, <1>6, <2>1
  <2>3. CASE state = "PENDING"
    BY <1>1, <1>5, <2>2, <2>3 DEF Slots, NoSlot
  <2>4. CASE state # "PENDING"
    <3>1. next.pending = NoSlot
      <4>1. CASE state \in {"CONFIRMED", "BAD"}
        BY <1>5, <2>4, <4>1, ZenonT(30)
      <4>2. CASE state \in {"STAGING", "VERIFIED"}
        <5>1. m.slots[slot].state # "PENDING"
          BY <1>4, <4>2, ZenonT(30)
        <5>2. m.pending = NoSlot
          BY <1>1, <5>1, OnlyInactivePends, ZenonT(30)
        <5> QED
          BY <1>5, <4>2, <5>2, ZenonT(30)
      <4> QED
        BY <1>4, <2>4, <4>1, <4>2, ZenonT(30)
    <3> QED
      BY <2>2, <2>4, <3>1, ZenonT(30)
  <2> QED
    BY <2>3, <2>4, ZenonT(30)
<1>12. MetadataIsValid(next)
  BY <1>3, <1>5, <1>8, <1>9, <1>10, <1>11 DEF MetadataIsValid
<1>13. next \in Metadata
  <2>1. next.slots \in [Slots -> Entries]
    <3>1. next.slots = [m.slots EXCEPT ![slot] = entry]
      BY <1>2, ZenonT(30) DEF Successor
    <3> QED
      BY <1>2, <1>8, <3>1, ZenonT(30)
  <2>2. next.pending \in Slots \cup {NoSlot}
    BY <1>2, <1>5, ZenonT(30)
  <2>3. next = [gen |-> next.gen, active |-> next.active, pending |-> next.pending,
                slots |-> next.slots]
    BY ZenonT(30) DEF Successor
  <2> HIDE DEF next, entry
  <2> QED
    BY <1>3, <1>5, <1>10, <2>1, <2>2, <2>3, ZenonT(30) DEF Metadata
<1> QED
  BY <1>12, <1>13, ZenonT(30) DEF Transitions

-----------------------------------------------------------------------------
(* Alignment *)

\* An alignment that power_of_two accepts is not zero.
LEMMA AlignmentIsPositive == \A a \in PowersOfTwo : a \in Nat \ {0}
BY StorageAssumption DEF PowersOfTwo

\* What division leaves over.
LEMMA Division ==
    ASSUME NEW x \in Nat, NEW a \in Nat \ {0}
    PROVE  /\ x \div a \in Nat
           /\ (x \div a) * a <= x
           /\ x < (x \div a) * a + a
           /\ x % a = 0 => x = (x \div a) * a
BY Z3

\* A multiple leaves no remainder.
LEMMA Multiple ==
    ASSUME NEW q \in Nat, NEW a \in Nat \ {0}
    PROVE  q * a \in Nat /\ (q * a) % a = 0
BY Z3

\* align_up returns the least multiple that is not below its argument.
LEMMA AlignUpFacts ==
    ASSUME NEW x \in Nat, NEW a \in PowersOfTwo
    PROVE  /\ AlignUp(x, a) \in Nat
           /\ AlignUp(x, a) >= x
           /\ AlignUp(x, a) < x + a
           /\ IsAligned(AlignUp(x, a), a)
<1>1. a \in Nat \ {0} /\ x + (a - 1) \in Nat
  BY AlignmentIsPositive
<1> DEFINE q == (x + (a - 1)) \div a
<1>2. q \in Nat /\ q * a <= x + (a - 1) /\ x + (a - 1) < q * a + a
  BY <1>1, Division, ZenonT(30)
<1> HIDE DEF q
<1>3. q * a \in Nat /\ (q * a) % a = 0
  BY <1>1, <1>2, Multiple, ZenonT(60)
<1>4. q * a >= x /\ q * a < x + a
  <2> DEFINE m == q * a
  <2>1. m \in Nat /\ m <= x + (a - 1) /\ x + (a - 1) < m + a
    BY <1>2, <1>3, ZenonT(30)
  <2> HIDE DEF m
  <2>2. m >= x /\ m < x + a
    BY <1>1, <2>1
  <2> QED
    BY <2>2, ZenonT(30) DEF m
<1> QED
  BY <1>3, <1>4, ZenonT(30) DEF AlignUp, IsAligned, q

\* Multiples that are less than one apart are in order.
LEMMA MultiplesInOrder ==
    ASSUME NEW p \in Int, NEW q \in Int, NEW a \in Nat \ {0}, p * a < q * a + a
    PROVE  p * a <= q * a
<1>1. p <= q
  BY Z3
<1> QED
  BY <1>1, Z3

\* A component that starts at a multiple of the alignment is not reached by
\* the rounded size of one before it.
LEMMA RoundedBefore ==
    ASSUME NEW o1 \in Nat, NEW e1 \in Nat, NEW o2 \in Nat, NEW a \in PowersOfTwo,
           IsAligned(o1, a), IsAligned(o2, a), o1 + e1 <= o2
    PROVE  o1 + AlignUp(e1, a) <= o2
<1>1. a \in Nat \ {0}
  BY AlignmentIsPositive, ZenonT(30)
<1> DEFINE up == AlignUp(e1, a)
<1>2. up \in Nat /\ up < e1 + a /\ up % a = 0
  BY AlignUpFacts, ZenonT(30) DEF IsAligned
<1> HIDE DEF up
<1>3. PICK p \in Nat : o1 = p * a
  BY <1>1, Division, ZenonT(60) DEF IsAligned
<1>4. PICK q \in Nat : o2 = q * a
  BY <1>1, Division, ZenonT(60) DEF IsAligned
<1>5. PICK r \in Nat : up = r * a
  BY <1>1, <1>2, Division, ZenonT(60)
<1>6. (p + r) * a = o1 + up
  BY <1>1, <1>3, <1>5, Z3
<1>7. o1 + up < o2 + a
  BY <1>1, <1>2
<1>8. (p + r) * a <= q * a
  BY <1>1, <1>4, <1>6, <1>7, MultiplesInOrder
<1> QED
  BY <1>4, <1>6, <1>8, ZenonT(30) DEF up

\* Ranges that do not overlap still do not when their sizes are rounded up.
LEMMA RoundedRangesApart ==
    ASSUME NEW o1 \in Nat, NEW e1 \in Nat, NEW o2 \in Nat, NEW e2 \in Nat,
           NEW a \in PowersOfTwo, e1 # 0, e2 # 0,
           IsAligned(o1, a), IsAligned(o2, a), ~RangesOverlap(o1, e1, o2, e2)
    PROVE  ~RangesOverlap(o1, AlignUp(e1, a), o2, AlignUp(e2, a))
<1>1. AlignUp(e1, a) \in Nat /\ AlignUp(e2, a) \in Nat
  BY AlignUpFacts, ZenonT(30)
<1>2. o1 + e1 <= o2 \/ o2 + e2 <= o1
  BY DEF RangesOverlap
<1>3. CASE o1 + e1 <= o2
  <2>1. o1 + AlignUp(e1, a) <= o2
    BY <1>3, RoundedBefore, ZenonT(30)
  <2> QED
    BY <2>1, <1>1 DEF RangesOverlap
<1>4. CASE o2 + e2 <= o1
  <2>1. o2 + AlignUp(e2, a) <= o1
    BY <1>4, RoundedBefore, ZenonT(30)
  <2> QED
    BY <2>1, <1>1 DEF RangesOverlap
<1> QED
  BY <1>2, <1>3, <1>4, ZenonT(30)

-----------------------------------------------------------------------------
(* Layout *)

\* A layout that was calculated is valid.
LEMMA CalculatedIsValid ==
    ASSUME NEW in \in LayoutInputs, CalculateStatus(in) = "ok"
    PROVE  /\ CalculatedLayout(in) \in LayoutType
           /\ LayoutIsValid(CalculatedLayout(in))
<1>1. /\ InputIsValid(in)
      /\ ~(Ends(AlignedRequests(in))[Trailing] > in.capacity)
      /\ LayoutIsValid(CalculatedLayout(in))
  BY ZenonT(30) DEF CalculateStatus
<1>2. in.alignment \in PowersOfTwo
  BY <1>1, ZenonT(30) DEF InputIsValid
<1>3. \A r \in Regions : Requested(in)[r] \in Nat
  BY DEF Requested, Regions, LayoutInputs
<1> DEFINE aligned == AlignedRequests(in)
<1>4. aligned \in [Regions -> Nat]
  BY <1>2, <1>3, AlignUpFacts, ZenonT(30) DEF AlignedRequests
<1>5. \A l \in [Regions -> Nat] : \A r \in Regions :
          Ends(l)[r] \in Nat /\ Ends(l)[r] >= l[r]
  BY DEF Ends, Regions
<1>6. Rest(in) \in Nat
  <2> HIDE DEF aligned
  <2>1. Rest(in) = in.capacity - (Ends(aligned)[Trailing] - aligned[Trailing])
    BY ZenonT(30) DEF Rest, aligned
  <2>2. Ends(aligned)[Trailing] <= in.capacity
    BY <1>1, <1>4, <1>5 DEF aligned, LayoutInputs, Trailing, Regions
  <2>3. aligned[Trailing] \in Nat /\ Ends(aligned)[Trailing] \in Nat /\ in.capacity \in Nat
    BY <1>4, <1>5 DEF LayoutInputs, Trailing, Regions
  <2> QED
    BY <2>1, <2>2, <2>3
<1> DEFINE length == [aligned EXCEPT ![Trailing] = AlignUp(Rest(in), in.alignment)]
<1>7. length \in [Regions -> Nat]
  BY <1>2, <1>4, <1>6, AlignUpFacts, ZenonT(60)
<1>8. [r \in Regions |-> Ends(length)[r] - length[r]] \in [Regions -> Nat]
  <2> HIDE DEF length
  <2>1. \A r \in Regions : Ends(length)[r] - length[r] \in Nat
    BY <1>5, <1>7
  <2> QED
    BY <2>1, ZenonT(30)
<1>9. CalculatedLayout(in) =
          [capacity |-> in.capacity, alignment |-> in.alignment,
           offset |-> [r \in Regions |-> Ends(length)[r] - length[r]],
           length |-> length]
  BY ZenonT(30) DEF CalculatedLayout
<1>10. in.capacity \in Nat /\ in.alignment \in Nat
  BY ZenonT(30) DEF LayoutInputs
<1> QED
  <2> HIDE DEF length
  <2> QED
    BY <1>1, <1>7, <1>8, <1>9, <1>10 DEF LayoutType

\* The slots of a valid layout are apart.
LEMMA SlotsApart ==
    ASSUME NEW l \in LayoutType, LayoutIsValid(l)
    PROVE  l.offset[SlotA] + l.length[SlotA] <= l.offset[SlotB]
<1>1. /\ l.offset[6] = l.offset[5] + l.length[5]
      /\ l.offset[7] = l.offset[6] + l.length[6]
  BY DEF LayoutIsValid, Regions
<1>2. /\ l.offset[5] \in Nat /\ l.length[5] \in Nat
      /\ l.length[6] \in Nat
  BY DEF LayoutType, Regions
<1> QED
  BY <1>1, <1>2 DEF SlotA, SlotB

\* Where the components of an accepted bundle are in a slot.
LEMMA AcceptedFits ==
    ASSUME NEW l \in LayoutType, LayoutIsValid(l),
           NEW components \in Seq(ComponentType), LayoutAccepts(l, components),
           NEW i \in DOMAIN components, NEW slot \in Slots
    PROVE  /\ components[i] \in ComponentType
           /\ components[i].exact # 0
           /\ components[i].offset + components[i].exact <= l.length[SlotRegion(slot)]
<1> DEFINE c == components[i]
<1>1. c \in ComponentType
  OBVIOUS
<1>2. c.exact # 0 /\ c.exact <= c.maximum
  BY ZenonT(30) DEF LayoutAccepts, ComponentsAreValid
<1> DEFINE end == AlignUp(c.offset + c.maximum, l.alignment)
<1>3. end <= l.length[SlotA] /\ end <= l.length[SlotB]
  BY ZenonT(30) DEF LayoutAccepts
<1>4. c.offset \in Nat /\ c.exact \in Nat /\ c.maximum \in Nat
  BY <1>1, ZenonT(30) DEF ComponentType
<1>5. end \in Nat /\ end >= c.offset + c.maximum
  <2>1. l.alignment \in PowersOfTwo
    BY ZenonT(30) DEF LayoutIsValid
  <2>2. c.offset + c.maximum \in Nat
    BY <1>4
  <2> QED
    BY <2>1, <2>2, AlignUpFacts, ZenonT(60)
<1>6. l.length[SlotRegion(slot)] \in Nat /\ end <= l.length[SlotRegion(slot)]
  <2>1. SlotA \in Regions /\ SlotB \in Regions
    BY DEF Regions, SlotA, SlotB
  <2> HIDE DEF end
  <2> QED
    BY <2>1, <1>3, ZenonT(30) DEF LayoutType, SlotRegion
<1> HIDE DEF c, end
<1>7. c.offset + c.exact <= l.length[SlotRegion(slot)]
  BY <1>2, <1>4, <1>5, <1>6, SMTT(30)
<1> QED
  BY <1>1, <1>2, <1>7, ZenonT(30) DEF c

-----------------------------------------------------------------------------
(* The inductive invariant *)

WorkIsStaged ==
    work.pc # "idle" =>
        /\ metadata.slots[work.slot].state = "STAGING"
        /\ Image \in DOMAIN Bundles
        /\ work.index \in DOMAIN Bundles[Image]

BundlesFit ==
    \A s \in Slots : metadata.slots[s].image \in DOMAIN Bundles =>
        LayoutAccepts(layout, Bundles[metadata.slots[s].image])

VerifiedOnDevice ==
    \A s \in Slots :
        /\ metadata.slots[s].state \in {"VERIFIED", "PENDING", "CONFIRMED"}
        /\ metadata.slots[s].image \in DOMAIN Bundles
        => device.capacity = layout.capacity

IInv ==
    /\ TypeOK
    /\ LayoutIsValid(layout)
    /\ WorkIsStaged
    /\ BundlesFit
    /\ VerifiedOnDevice
    /\ VerifiedContent

\* Facts about the variables that several steps need.
LEMMA StateFacts ==
    ASSUME IInv
    PROVE  /\ device \in Providers
           /\ \A s \in Slots : /\ layout.offset[SlotRegion(s)] \in Nat
                                /\ layout.length[SlotRegion(s)] \in Nat
                                /\ layout.offset[SlotRegion(s)]
                                       + layout.length[SlotRegion(s)] <= layout.capacity
           /\ layout.capacity \in Nat
<1>1. device \in Providers
  BY StorageAssumption DEF IInv, TypeOK
<1>2. \A s \in Slots : SlotRegion(s) \in Regions
  BY DEF SlotRegion, Regions, SlotA, SlotB
<1> QED
  BY <1>1, <1>2, ZenonT(60) DEF IInv, TypeOK, LayoutType, LayoutIsValid

\* The two slots of the medium share no byte.
LEMMA RegionsApart ==
    ASSUME IInv, NEW s \in Slots, NEW t \in Slots, s # t,
           NEW b \in RegionBytes(s)
    PROVE  b \notin RegionBytes(t)
<1>1. layout.offset[SlotA] + layout.length[SlotA] <= layout.offset[SlotB]
  BY SlotsApart, ZenonT(30) DEF IInv, TypeOK
<1>2. /\ layout.offset[SlotA] \in Nat /\ layout.length[SlotA] \in Nat
      /\ layout.offset[SlotB] \in Nat /\ layout.length[SlotB] \in Nat
  BY StateFacts DEF Slots, SlotRegion
<1>3. (s = 0 /\ t = 1) \/ (s = 1 /\ t = 0)
  BY ZenonT(30) DEF Slots
<1> QED
  BY <1>1, <1>2, <1>3 DEF RegionBytes, SlotRegion

\* A byte of a component is a byte of the slot and of the medium.
LEMMA ByteInside ==
    ASSUME NEW start \in Nat, NEW length \in Nat, NEW offset \in Nat,
           NEW exact \in Nat, NEW capacity \in Nat, NEW k \in 0 .. exact - 1,
           offset + exact <= length, start + length <= capacity
    PROVE  /\ start + offset + k \in start .. start + length - 1
           /\ start + offset + k \in 0 .. capacity - 1
OBVIOUS

\* Verified content depends on the bytes of the verified components only.
LEMMA ContentKept ==
    ASSUME IInv, UNCHANGED <<layout, metadata>>,
           \A s \in Slots, b \in DOMAIN media :
               metadata.slots[s].state # "STAGING" /\ b \in RegionBytes(s)
                   => media'[b] = media[b]
    PROVE  VerifiedContent'
<1> SUFFICES ASSUME NEW s \in Slots,
                    metadata.slots[s].state \in {"VERIFIED", "PENDING", "CONFIRMED"},
                    metadata.slots[s].image \in DOMAIN Bundles,
                    NEW i \in DOMAIN Bundles[metadata.slots[s].image],
                    NEW k \in 0 .. Bundles[metadata.slots[s].image][i].exact - 1
             PROVE  media'[layout.offset[SlotRegion(s)]
                               + Bundles[metadata.slots[s].image][i].offset + k]
                        = <<metadata.slots[s].image, i, k>>
  BY ZenonT(60) DEF VerifiedContent, Holds
<1> DEFINE c == Bundles[metadata.slots[s].image][i]
           start == layout.offset[SlotRegion(s)]
           length == layout.length[SlotRegion(s)]
           b == start + c.offset + k
<1>1. /\ Bundles[metadata.slots[s].image] \in Seq(ComponentType)
      /\ LayoutAccepts(layout, Bundles[metadata.slots[s].image])
      /\ layout \in LayoutType /\ LayoutIsValid(layout)
  BY StorageAssumption, ZenonT(30) DEF IInv, BundlesFit, TypeOK
<1>2. /\ c \in ComponentType
      /\ c.offset + c.exact <= length
  BY <1>1, AcceptedFits, ZenonT(30)
<1>3. /\ start \in Nat /\ length \in Nat
      /\ start + length <= device.capacity /\ device.capacity \in Nat
  BY StateFacts, ZenonT(30) DEF IInv, VerifiedOnDevice
<1>4. c.offset \in Nat /\ c.exact \in Nat /\ k \in 0 .. c.exact - 1
  BY <1>2, ZenonT(30) DEF ComponentType
<1>5. media[b] = <<metadata.slots[s].image, i, k>>
  BY ZenonT(60) DEF IInv, VerifiedContent, Holds
<1>6. DOMAIN media = 0 .. device.capacity - 1 /\ RegionBytes(s) = start .. start + length - 1
  BY ZenonT(30) DEF IInv, TypeOK, RegionBytes
<1>7. b \in RegionBytes(s) /\ b \in DOMAIN media
  <2> HIDE DEF c, start, length
  <2> QED
    BY <1>2, <1>3, <1>4, <1>6, ByteInside, ZenonT(60)
<1> HIDE DEF b
<1>8. media'[b] = media[b]
  BY <1>7, ZenonT(30)
<1> QED
  BY <1>5, <1>8, ZenonT(60) DEF b

\* A store through a handle that resolves changes bytes of its slot only, so
\* it keeps what was verified.
LEMMA StoreKeeps ==
    ASSUME IInv, UNCHANGED <<device, layout, metadata>>,
           NEW h, h.slot \in Slots, NEW offset \in Nat, NEW size \in Nat,
           NEW alignment, Resolves(h, offset, size, alignment),
           NEW n \in 0 .. size, NEW bytes, \A k \in 0 .. n - 1 : bytes[k] \in Bytes,
           media' = Stored(Resolved(h, offset), n, bytes)
    PROVE  /\ media' \in [0 .. device.capacity - 1 -> Bytes]
           /\ VerifiedContent'
           /\ ChangesStagedSlotOnly
<1> DEFINE at == Resolved(h, offset)
<1>1. /\ HandleIsValid(h)
      /\ offset + size <= layout.length[SlotRegion(h.slot)]
      /\ layout.offset[SlotRegion(h.slot)] + offset <= MaxWord
  BY ZenonT(30) DEF Resolves, RangeFits, CanAdd, Sum64
<1>2. /\ layout.offset[SlotRegion(h.slot)] \in Nat
      /\ layout.length[SlotRegion(h.slot)] \in Nat
  BY StateFacts, ZenonT(30)
<1>3. at = layout.offset[SlotRegion(h.slot)] + offset /\ at \in Nat
  BY <1>1, <1>2 DEF Resolved, Sum64
<1>4. /\ media \in [0 .. device.capacity - 1 -> Bytes]
      /\ DOMAIN media = 0 .. device.capacity - 1
      /\ device.capacity \in Nat
  BY StateFacts, ZenonT(30) DEF IInv, TypeOK, Providers
<1> HIDE DEF at
<1>5. \A b \in DOMAIN media : media'[b] =
          IF b >= at /\ b < at + n THEN bytes[b - at] ELSE media[b]
  BY ZenonT(30) DEF Stored, at
<1>6. \A b \in DOMAIN media : media'[b] # media[b] => b \in RegionBytes(h.slot)
  <2> SUFFICES ASSUME NEW b \in 0 .. device.capacity - 1, b >= at, b < at + n
               PROVE  b \in RegionBytes(h.slot)
    BY <1>4, <1>5, ZenonT(30)
  <2> DEFINE start == layout.offset[SlotRegion(h.slot)]
             length == layout.length[SlotRegion(h.slot)]
  <2>1. RegionBytes(h.slot) = start .. start + length - 1
    BY ZenonT(30) DEF RegionBytes
  <2> HIDE DEF start, length
  <2>2. /\ start \in Nat /\ length \in Nat /\ offset + size <= length
        /\ at = start + offset
    BY <1>1, <1>2, <1>3, ZenonT(30) DEF start, length
  <2> QED
    BY <2>1, <2>2
<1>7. media' \in [0 .. device.capacity - 1 -> Bytes]
  <2>1. \A b \in 0 .. device.capacity - 1 : media'[b] \in Bytes
    <3> TAKE b \in 0 .. device.capacity - 1
    <3>0. b \in Int /\ at \in Int /\ n \in Int
      BY <1>3, <1>4
    <3>1. b >= at /\ b < at + n => b - at \in 0 .. n - 1
      BY <3>0
    <3> QED
      BY <3>1, <1>4, <1>5, ZenonT(30)
  <2> QED
    BY <2>1, <1>4, ZenonT(60) DEF Stored
<1>8. h.slot # metadata.active /\ metadata.slots[h.slot].state = "STAGING"
  BY <1>1, ZenonT(60) DEF HandleIsValid
<1>9. ChangesStagedSlotOnly
  BY <1>6, <1>8, ZenonT(30) DEF ChangesStagedSlotOnly
<1>10. VerifiedContent'
  BY <1>6, <1>8, RegionsApart, ContentKept, ZenonT(30)
<1> QED
  BY <1>7, <1>9, <1>10, ZenonT(30)

\* What a transition makes of the slots.
LEMMA TransitionFacts ==
    ASSUME IInv, NEW slot \in Slots, NEW state \in SlotStates,
           NEW image \in Images \cup {NoImage}, NEW attempts \in 0 .. MaxAttempts,
           NEW next \in Transitions(metadata, slot, state, image, attempts)
    PROVE  /\ next \in Metadata
           /\ \A s \in Slots \ {slot} : next.slots[s] = metadata.slots[s]
           /\ next.slots[slot].state = state
           /\ next.slots[slot].image =
                  IF state = "STAGING" THEN image ELSE metadata.slots[slot].image
           /\ <<metadata.slots[slot].state, state>> \in AllowedEdges
<1>1. /\ next = Successor(metadata, slot, state, image, attempts)
      /\ TransitionIsAllowed(metadata, slot, state, image, attempts)
  BY ZenonT(30) DEF Transitions
<1>2. metadata \in Metadata /\ metadata.slots \in [Slots -> Entries]
  BY ZenonT(30) DEF IInv, TypeOK, Metadata
<1>3. image \in Images /\ <<metadata.slots[slot].state, state>> \in AllowedEdges
  BY <1>1, ZenonT(30) DEF TransitionIsAllowed
<1>4. next \in Metadata
  BY <1>1, <1>2, <1>3, AllowedTransitionIsValid, ZenonT(30)
<1>5. /\ \A s \in Slots \ {slot} : next.slots[s] = metadata.slots[s]
      /\ next.slots[slot] =
             [state |-> state, gen |-> metadata.gen + 1, attempts |-> attempts,
              image |-> IF state = "STAGING" THEN image ELSE metadata.slots[slot].image]
  BY <1>1, <1>2, ZenonT(30) DEF Successor
<1> QED
  BY <1>3, <1>4, <1>5

\* What a slot holds depends on the layout and the medium only.
LEMMA HoldsUnchanged ==
    ASSUME UNCHANGED <<layout, media>>, NEW s \in Slots, NEW image,
           Holds(s, image)
    PROVE  Holds(s, image)'
BY ZenonT(60) DEF Holds

\* Steps that leave metadata, layout and medium alone.
LEMMA SessionStep ==
    ASSUME IInv, UNCHANGED <<device, layout, metadata, media>>
    PROVE  /\ LayoutIsValid(layout)' /\ BundlesFit' /\ VerifiedOnDevice'
           /\ VerifiedContent' /\ ChangesStagedSlotOnly
BY HoldsUnchanged, ZenonT(30) DEF IInv, BundlesFit, VerifiedOnDevice, VerifiedContent,
                      ChangesStagedSlotOnly

-----------------------------------------------------------------------------
(* The steps *)

\* A provisioned device has nothing staged, so the invariant holds at first.
LEMMA InitIInv == Init => IInv
<1> SUFFICES ASSUME Init PROVE IInv
  BY ZenonT(30)
<1>1. PICK d \in Devices : /\ CalculateStatus(d.input) = "ok"
                           /\ layout = CalculatedLayout(d.input)
                           /\ device = d.provider
  BY ZenonT(30) DEF Init
<1>2. layout \in LayoutType /\ LayoutIsValid(layout)
  BY <1>1, StorageAssumption, CalculatedIsValid, ZenonT(30)
<1>3. PICK a \in Slots, image \in Images \ DOMAIN Bundles : metadata = Provisioned(a, image)
  BY ZenonT(30) DEF Init
<1>4. EmptyEntry \in Entries
  BY AttemptsAssumption, MetadataGenerationAssumption
     DEF EmptyEntry, Entries, SlotStates
<1>5. [state |-> "CONFIRMED", gen |-> 1, image |-> image, attempts |-> 0] \in Entries
  BY AttemptsAssumption, MetadataGenerationAssumption DEF Entries, SlotStates
<1>6. metadata \in Metadata
  BY <1>3, <1>4, <1>5, MetadataGenerationAssumption DEF Metadata, Provisioned
<1>7. \A s \in Slots : metadata.slots[s].image \in {image, NoImage}
  BY <1>3, ZenonT(30) DEF Provisioned, EmptyEntry
<1>8. \A s \in Slots : metadata.slots[s].image \notin DOMAIN Bundles
  BY <1>7, StorageAssumption, ImageAssumption, ZenonT(30)
<1>9. Old \in Bytes
  BY ZenonT(30) DEF Old, Bytes
<1>10. TypeOK
  <2>1. held \in [slot : Slots, gen : 0 .. MaxGeneration, here : BOOLEAN]
    BY MetadataGenerationAssumption DEF Init, NoHandle, Slots
  <2>2. work \in [pc : {"idle", "erase", "write", "readback"}, slot : Slots, index : Nat]
    BY ZenonT(30) DEF Init, Idle, Slots
  <2>3. media \in [0 .. device.capacity - 1 -> Bytes]
    BY <1>9, ZenonT(30) DEF Init
  <2> QED
    BY <2>1, <2>2, <2>3, <1>1, <1>2, <1>6, ZenonT(30) DEF TypeOK
<1> QED
  BY <1>2, <1>8, <1>10, ZenonT(30)
     DEF IInv, WorkIsStaged, BundlesFit, VerifiedOnDevice, VerifiedContent, Init, Idle

\* A slot is staged again: it is not verified any more.
LEMMA PrepareStep ==
    ASSUME IInv, NEW slot \in Slots, NEW image \in DOMAIN Bundles,
           Prepare(slot, image)
    PROVE  IInv' /\ ChangesStagedSlotOnly
<1>1. PICK next \in Transitions(metadata, slot, "STAGING", image, 0) : metadata' = next
  BY ZenonT(30) DEF Prepare
<1>2. image \in Images /\ 0 \in 0 .. MaxAttempts /\ "STAGING" \in SlotStates
  BY StorageAssumption, AttemptsAssumption DEF SlotStates
<1>3. /\ metadata' \in Metadata
      /\ \A s \in Slots \ {slot} : metadata'.slots[s] = metadata.slots[s]
      /\ metadata'.slots[slot].state = "STAGING"
      /\ metadata'.slots[slot].image = image
  <2>1. ASSUME NEW state \in SlotStates, NEW attempts \in 0 .. MaxAttempts,
               NEW m \in Transitions(metadata, slot, state, image, attempts)
        PROVE  /\ m \in Metadata
               /\ \A s \in Slots \ {slot} : m.slots[s] = metadata.slots[s]
               /\ m.slots[slot].state = state
               /\ state = "STAGING" => m.slots[slot].image = image
    <3>1. image \in Images \cup {NoImage}
      BY <1>2, ZenonT(30)
    <3>2. /\ m \in Metadata
          /\ \A s \in Slots \ {slot} : m.slots[s] = metadata.slots[s]
          /\ m.slots[slot].state = state
          /\ m.slots[slot].image =
                 IF state = "STAGING" THEN image ELSE metadata.slots[slot].image
          /\ <<metadata.slots[slot].state, state>> \in AllowedEdges
      BY <3>1, TransitionFacts, Zenon
    <3> QED
      BY <3>2, ZenonT(30)
  <2>2. /\ next \in Metadata
        /\ \A s \in Slots \ {slot} : next.slots[s] = metadata.slots[s]
        /\ next.slots[slot].state = "STAGING"
        /\ next.slots[slot].image = image
    BY <1>2, <2>1
  <2> QED
    BY <1>1, <2>2, ZenonT(30)
<1>4. /\ work.pc = "idle" /\ LayoutAccepts(layout, Bundles[image])
      /\ UNCHANGED <<device, layout, held, media, work>>
  BY ZenonT(30) DEF Prepare
<1>5. TypeOK' /\ LayoutIsValid(layout)' /\ WorkIsStaged'
  BY <1>3, <1>4, ZenonT(30) DEF IInv, TypeOK, WorkIsStaged
<1>6. BundlesFit' /\ VerifiedOnDevice'
  BY <1>3, <1>4, ZenonT(30) DEF IInv, BundlesFit, VerifiedOnDevice
<1>7. VerifiedContent'
  BY <1>3, <1>4, HoldsUnchanged, ZenonT(30) DEF IInv, VerifiedContent
<1> QED
  BY <1>4, <1>5, <1>6, <1>7, ZenonT(30) DEF IInv, ChangesStagedSlotOnly

\* A slot that becomes PENDING or CONFIRMED was verified.
LEMMA AdvanceStep ==
    ASSUME IInv, NEW slot \in Slots, NEW state \in SlotStates, Advance(slot, state)
    PROVE  IInv' /\ ChangesStagedSlotOnly
<1> DEFINE image == metadata.slots[slot].image
           attempts == IF state = "PENDING" THEN 1 ELSE 0
<1>1. PICK next \in Transitions(metadata, slot, state, image, attempts) : metadata' = next
  BY ZenonT(30) DEF Advance
<1>2. image \in Images \cup {NoImage} /\ attempts \in 0 .. MaxAttempts
  BY AttemptsAssumption DEF IInv, TypeOK, Metadata, Entries
<1>3. state \in {"PENDING", "CONFIRMED", "BAD"} /\ work.pc = "idle"
      /\ UNCHANGED <<device, layout, held, media, work>>
  BY ZenonT(30) DEF Advance
<1> HIDE DEF attempts
<1>4. /\ metadata' \in Metadata
      /\ \A s \in Slots \ {slot} : metadata'.slots[s] = metadata.slots[s]
      /\ metadata'.slots[slot].state = state
      /\ metadata'.slots[slot].image = metadata.slots[slot].image
      /\ <<metadata.slots[slot].state, state>> \in AllowedEdges
  BY <1>1, <1>2, <1>3, TransitionFacts, SMTT(30)
<1>5. state # "BAD" => metadata.slots[slot].state \in {"VERIFIED", "PENDING"}
  BY <1>3, <1>4, ZenonT(30) DEF AllowedEdges
<1>6. TypeOK' /\ LayoutIsValid(layout)' /\ WorkIsStaged'
  BY <1>3, <1>4, ZenonT(30) DEF IInv, TypeOK, WorkIsStaged
<1>7. BundlesFit' /\ VerifiedOnDevice'
  BY <1>3, <1>4, <1>5, ZenonT(30) DEF IInv, BundlesFit, VerifiedOnDevice
<1>8. VerifiedContent'
  BY <1>3, <1>4, <1>5, HoldsUnchanged, ZenonT(30) DEF IInv, VerifiedContent
<1> QED
  BY <1>3, <1>6, <1>7, <1>8, ZenonT(30) DEF IInv, ChangesStagedSlotOnly

\* Another caller stores through the handle that it keeps, if that is valid.
LEMMA CallerStep ==
    ASSUME IInv, NEW offset \in CallOffsets, NEW size \in CallSizes,
           WriteInactive(held, offset, size) \/ EraseInactive(held, offset, size)
    PROVE  IInv' /\ ChangesStagedSlotOnly
<1>1. UNCHANGED <<device, layout, metadata, held, work>>
  BY ZenonT(30) DEF WriteInactive, EraseInactive
<1>2. PICK byte \in {Junk, Erased}, n \in 0 .. size, alignment \in Nat :
          /\ Resolves(held, offset, size, alignment)
          /\ media' = Stored(Resolved(held, offset), n, [k \in 0 .. n - 1 |-> byte])
  <2>1. device.write \in Nat /\ device.erase \in Nat
    <3>1. device.write \in PowersOfTwo /\ device.erase \in PowersOfTwo
      BY StateFacts, ZenonT(30) DEF Providers
    <3>2. PowersOfTwo \subseteq 1 .. MaxWord
      BY Zenon DEF PowersOfTwo
    <3>3. MaxWord \in Nat
      BY StorageAssumption, Zenon
    <3> HIDE DEF MaxWord
    <3>4. 1 .. MaxWord \subseteq Nat
      BY <3>3, SMT
    <3> QED
      BY <3>1, <3>2, <3>4, Zenon
  <2>2. CASE WriteInactive(held, offset, size)
    BY <2>1, <2>2, ZenonT(60) DEF WriteInactive
  <2>3. CASE EraseInactive(held, offset, size)
    BY <2>1, <2>3, ZenonT(60) DEF EraseInactive
  <2> QED
    BY <2>2, <2>3, ZenonT(60)
<1>3. byte \in Bytes
  BY DEF Junk, Erased, Bytes
<1>4. offset \in Nat /\ size \in Nat /\ held.slot \in Slots
  BY StorageAssumption, ZenonT(30) DEF IInv, TypeOK
<1> DEFINE bytes == [k \in 0 .. n - 1 |-> byte]
<1>5. \A k \in 0 .. n - 1 : bytes[k] \in Bytes
  BY <1>3, ZenonT(30)
<1> HIDE DEF bytes
<1>6. /\ media' \in [0 .. device.capacity - 1 -> Bytes]
      /\ VerifiedContent' /\ ChangesStagedSlotOnly
  BY <1>1, <1>2, <1>4, <1>5, StoreKeeps, ZenonT(60) DEF bytes
<1>7. TypeOK' /\ LayoutIsValid(layout)' /\ WorkIsStaged'
  BY <1>1, <1>6, ZenonT(30) DEF IInv, TypeOK, WorkIsStaged, Image
<1>8. BundlesFit' /\ VerifiedOnDevice'
  BY <1>1, ZenonT(60) DEF IInv, BundlesFit, VerifiedOnDevice
<1> QED
  BY <1>6, <1>7, <1>8, ZenonT(30) DEF IInv

\* Opening a slot, here or elsewhere, and starting to install it.
LEMMA OpenStep ==
    ASSUME IInv, NEW slot \in Slots,
           \/ OpenSlot(slot)
           \/ Install(slot)
           \/ \E gen \in 1 .. MaxGeneration : OpenElsewhere(slot, gen)
    PROVE  IInv' /\ ChangesStagedSlotOnly
<1>1. UNCHANGED <<device, layout, metadata, media>>
  BY ZenonT(60) DEF OpenSlot, Install, OpenElsewhere
<1>2. /\ LayoutIsValid(layout)' /\ BundlesFit' /\ VerifiedOnDevice'
      /\ VerifiedContent' /\ ChangesStagedSlotOnly
  BY <1>1, SessionStep, ZenonT(30)
<1>3. metadata.gen \in 0 .. MaxGeneration
  BY SMTT(30) DEF IInv, TypeOK, Metadata
<1>4. CASE OpenSlot(slot)
  <2>1. held' = [slot |-> slot, gen |-> metadata.gen, here |-> TRUE] /\ work' = work
    BY <1>4, ZenonT(30) DEF OpenSlot, HandleFor
  <2>2. held' \in [slot : Slots, gen : 0 .. MaxGeneration, here : BOOLEAN]
    BY <2>1, <1>3, ZenonT(30)
  <2> QED
    BY <1>1, <1>2, <2>1, <2>2, ZenonT(60) DEF IInv, TypeOK, WorkIsStaged, Image
<1>5. CASE \E gen \in 1 .. MaxGeneration : OpenElsewhere(slot, gen)
  <2>1. PICK gen \in 1 .. MaxGeneration :
            held' = [slot |-> slot, gen |-> gen, here |-> FALSE] /\ work' = work
    BY <1>5, ZenonT(60) DEF OpenElsewhere
  <2>2. gen \in 0 .. MaxGeneration
    BY MetadataGenerationAssumption
  <2>3. held' \in [slot : Slots, gen : 0 .. MaxGeneration, here : BOOLEAN]
    BY <2>1, <2>2, ZenonT(30)
  <2> QED
    BY <1>1, <1>2, <2>1, <2>3, ZenonT(30) DEF IInv, TypeOK, WorkIsStaged, Image
<1>6. CASE Install(slot)
  <2>1. /\ work' = [pc |-> "erase", slot |-> slot, index |-> 1]
        /\ held' = held
        /\ metadata.slots[slot].state = "STAGING"
        /\ metadata.slots[slot].image \in DOMAIN Bundles
    BY <1>6, ZenonT(30) DEF Install, CanOpen
  <2>2. 1 \in DOMAIN Bundles[metadata.slots[slot].image]
    BY <2>1, StorageAssumption
  <2>3. TypeOK'
    BY <1>1, <2>1, ZenonT(30) DEF IInv, TypeOK
  <2>4. WorkIsStaged'
    BY <1>1, <2>1, <2>2, ZenonT(30) DEF WorkIsStaged, Image
  <2> QED
    BY <1>2, <2>3, <2>4, ZenonT(30) DEF IInv
<1> QED
  BY <1>4, <1>5, <1>6, ZenonT(30)

\* Every provider operation of the installer goes through the handle that it
\* opened; its bytes are bytes of the component or fill bytes.
LEMMA InstallerStores ==
    ASSUME IInv, InstallErase \/ InstallWrite
    PROVE  \/ UNCHANGED <<device, layout, metadata, media>>
           \/ /\ media' \in [0 .. device.capacity - 1 -> Bytes]
              /\ VerifiedContent' /\ ChangesStagedSlotOnly
              /\ UNCHANGED <<device, layout, metadata>>
<1> DEFINE c == Component
           h == WorkHandle
           erased == [k \in 0 .. Backing(c) - 1 |-> Erased]
           scratch == Scratch(Image, work.index)
<1>1. /\ Image \in DOMAIN Bundles /\ work.index \in DOMAIN Bundles[Image]
      /\ work.index \in Nat
      /\ UNCHANGED <<device, layout, metadata>>
  BY ZenonT(30) DEF IInv, WorkIsStaged, InstallErase, InstallWrite, TypeOK
<1>2. c \in ComponentType
  BY <1>1, StorageAssumption DEF Component
<1>3. c.offset \in Nat /\ c.exact \in Nat
  BY <1>2, ZenonT(30) DEF ComponentType
<1>4. device.write \in PowersOfTwo
  BY StateFacts, ZenonT(30) DEF Providers
<1>5. Backing(c) \in Nat
  BY <1>3, <1>4, AlignUpFacts, ZenonT(30) DEF Backing
<1>6. h.slot \in Slots
  BY ZenonT(30) DEF WorkHandle, HandleFor, IInv, TypeOK
<1>7. \A k \in 0 .. Backing(c) - 1 : erased[k] \in Bytes
  BY ZenonT(30) DEF Erased, Bytes
<1>8. \A k \in 0 .. Backing(c) - 1 : scratch[k] \in Bytes
  <2> TAKE k \in 0 .. Backing(c) - 1
  <2>1. k \in Nat
    BY <1>5
  <2>2. <<Image, work.index, k>> \in Bytes /\ ZeroByte \in Bytes
    BY <1>1, <2>1, StorageAssumption, ZenonT(30) DEF ZeroByte, Bytes
  <2> QED
    BY <2>2, ZenonT(30) DEF Scratch, Component
<1>9. \/ media' = media
      \/ \E n \in 0 .. Backing(c), bytes \in {erased, scratch},
            alignment \in {device.write, device.erase} :
             /\ Resolves(h, c.offset, Backing(c), alignment)
             /\ media' = Stored(Resolved(h, c.offset), n, bytes)
  <2>1. Backing(c) \in 0 .. Backing(c)
    BY <1>5
  <2>2. CASE InstallErase
    BY <2>1, <2>2, ZenonT(30) DEF InstallErase
  <2>3. CASE InstallWrite
    BY <2>1, <2>3, ZenonT(30) DEF InstallWrite
  <2> QED
    BY <2>2, <2>3, ZenonT(60)
<1>10. CASE media' = media
  BY <1>1, <1>10, ZenonT(30)
<1>11. ASSUME NEW n \in 0 .. Backing(c), NEW bytes \in {erased, scratch},
              NEW alignment \in {device.write, device.erase},
              Resolves(h, c.offset, Backing(c), alignment),
              media' = Stored(Resolved(h, c.offset), n, bytes)
       PROVE  /\ media' \in [0 .. device.capacity - 1 -> Bytes]
              /\ VerifiedContent' /\ ChangesStagedSlotOnly
  <2> HIDE DEF c, h, erased, scratch
  <2>1. \A k \in 0 .. n - 1 : bytes[k] \in Bytes
    <3>1. \A k \in 0 .. n - 1 : k \in 0 .. Backing(c) - 1
      BY <1>5
    <3> QED
      BY <3>1, <1>7, <1>8, ZenonT(30)
  <2> QED
    BY <1>1, <1>3, <1>5, <1>6, <1>11, <2>1, StoreKeeps, ZenonT(30)
<1> QED
  BY <1>1, <1>9, <1>10, <1>11, ZenonT(60)

\* The installer stays on the slot that it stages, or gives up.
LEMMA InstallerStep ==
    ASSUME IInv, InstallErase \/ InstallWrite
    PROVE  IInv' /\ ChangesStagedSlotOnly
<1>1. /\ VerifiedContent' /\ ChangesStagedSlotOnly
      /\ media' \in [0 .. device.capacity - 1 -> Bytes]
      /\ UNCHANGED <<device, layout, metadata>>
  BY InstallerStores, SessionStep, ZenonT(30) DEF IInv, TypeOK
<1>2. held' = held /\ work.pc # "idle"
  BY ZenonT(30) DEF InstallErase, InstallWrite
<1>3. /\ work.slot \in Slots
      /\ work.index \in Nat
      /\ work \in [pc : {"idle", "erase", "write", "readback"}, slot : Slots, index : Nat]
      /\ Image \in DOMAIN Bundles /\ work.index \in DOMAIN Bundles[Image]
  BY <1>2, ZenonT(30) DEF IInv, TypeOK, WorkIsStaged
<1>4. \/ work' = Idle
      \/ work' = [work EXCEPT !.pc = "write"]
      \/ work' = [work EXCEPT !.pc = "readback"]
      \/ /\ work' = [work EXCEPT !.pc = "erase", !.index = @ + 1]
         /\ \E i \in DOMAIN Bundles[Image] : i > work.index
  BY ZenonT(30) DEF InstallErase, InstallWrite, Abandon
<1>5. (\E i \in DOMAIN Bundles[Image] : i > work.index)
          => work.index + 1 \in DOMAIN Bundles[Image]
  <2>1. PICK n \in Nat : DOMAIN Bundles[Image] = 1 .. n
    BY <1>3, StorageAssumption
  <2> QED
    BY <2>1, <1>3
<1> DEFINE Type == [pc : {"idle", "erase", "write", "readback"}, slot : Slots, index : Nat]
<1>6. /\ work' \in Type
      /\ work'.pc # "idle" => /\ work'.slot = work.slot
                              /\ work'.index \in DOMAIN Bundles[Image]
  <2>1. CASE work' = Idle
    BY <2>1, ZenonT(30) DEF Idle, Slots
  <2>2. CASE work' = [work EXCEPT !.pc = "write"] \/ work' = [work EXCEPT !.pc = "readback"]
    BY <2>2, <1>3, ZenonT(30)
  <2>3. CASE /\ work' = [work EXCEPT !.pc = "erase", !.index = @ + 1]
             /\ \E i \in DOMAIN Bundles[Image] : i > work.index
    <3>1. work' = [work EXCEPT !.pc = "erase", !.index = work.index + 1]
      BY <2>3, <1>3, ZenonT(30)
    <3>2. work.index + 1 \in Nat
      BY <1>3
    <3>3. work' \in Type
      BY <3>1, <3>2, <1>3, ZenonT(60)
    <3>4. work'.slot = work.slot /\ work'.index = work.index + 1
      BY <3>1, <1>3, ZenonT(30)
    <3> QED
      BY <3>3, <3>4, <1>5, <2>3, ZenonT(30)
  <2> QED
    BY <1>4, <2>1, <2>2, <2>3, ZenonT(30)
<1>8. TypeOK'
  BY <1>1, <1>2, <1>6, ZenonT(30) DEF IInv, TypeOK
<1>9. WorkIsStaged'
  BY <1>1, <1>2, <1>6, ZenonT(30) DEF IInv, WorkIsStaged, Image
<1>10. LayoutIsValid(layout)' /\ BundlesFit' /\ VerifiedOnDevice'
  BY <1>1, ZenonT(30) DEF IInv, BundlesFit, VerifiedOnDevice
<1> QED
  BY <1>1, <1>8, <1>9, <1>10, ZenonT(30) DEF IInv

\* A slot becomes VERIFIED only after its components were read back.
LEMMA ReadbackStep ==
    ASSUME IInv, InstallReadback
    PROVE  IInv' /\ ChangesStagedSlotOnly
<1>1. /\ work' = Idle /\ UNCHANGED <<device, layout, held, media>>
      /\ work.pc # "idle"
  BY ZenonT(30) DEF InstallReadback, Abandon
<1>2. work' \in [pc : {"idle", "erase", "write", "readback"}, slot : Slots, index : Nat]
      /\ work'.pc = "idle"
  BY <1>1, ZenonT(30) DEF Idle, Slots
<1>3. ChangesStagedSlotOnly
  BY <1>1, ZenonT(30) DEF ChangesStagedSlotOnly
<1>4. CASE UNCHANGED metadata
  <2>1. /\ LayoutIsValid(layout)' /\ BundlesFit' /\ VerifiedOnDevice' /\ VerifiedContent'
    BY <1>1, <1>4, SessionStep, ZenonT(30)
  <2> QED
    BY <1>1, <1>2, <1>3, <1>4, <2>1, ZenonT(30) DEF IInv, TypeOK, WorkIsStaged
<1>5. CASE /\ \A i \in DOMAIN Bundles[Image] :
                  LET c == Bundles[Image][i]
                  IN  /\ Resolves(WorkHandle, c.offset, Backing(c), device.read)
                      /\ ReadsBack(Image, i)
           /\ \E next \in Transitions(metadata, work.slot, "VERIFIED", Image, 0) :
                  metadata' = next
  <2> DEFINE slot == work.slot
             image == metadata.slots[work.slot].image
  <2>1. /\ image = Image /\ image \in DOMAIN Bundles /\ image \in Images
        /\ work.index \in DOMAIN Bundles[image] /\ slot \in Slots
    BY <1>1, StorageAssumption, ZenonT(30) DEF IInv, TypeOK, WorkIsStaged, Image
  <2>2. PICK next \in Transitions(metadata, slot, "VERIFIED", image, 0) : metadata' = next
    BY <1>5, <2>1, ZenonT(30)
  <2>3. 0 \in 0 .. MaxAttempts /\ "VERIFIED" \in SlotStates
    BY AttemptsAssumption, SMTT(30) DEF SlotStates
  <2>4. /\ metadata' \in Metadata
        /\ \A s \in Slots \ {slot} : metadata'.slots[s] = metadata.slots[s]
        /\ metadata'.slots[slot].state = "VERIFIED"
        /\ metadata'.slots[slot].image = image
    <3>1. ASSUME NEW state \in SlotStates, NEW attempts \in 0 .. MaxAttempts,
                 NEW m \in Transitions(metadata, slot, state, image, attempts)
          PROVE  /\ m \in Metadata
                 /\ \A s \in Slots \ {slot} : m.slots[s] = metadata.slots[s]
                 /\ m.slots[slot].state = state
                 /\ m.slots[slot].image = image
      <4> HIDE DEF slot
      <4>1. image \in Images \cup {NoImage} /\ slot \in Slots
        BY <2>1, ZenonT(30)
      <4>2. /\ m \in Metadata
            /\ \A s \in Slots \ {slot} : m.slots[s] = metadata.slots[s]
            /\ m.slots[slot].state = state
            /\ m.slots[slot].image =
                   IF state = "STAGING" THEN image ELSE metadata.slots[slot].image
            /\ <<metadata.slots[slot].state, state>> \in AllowedEdges
        BY <4>1, TransitionFacts, Zenon
      <4> QED
        BY <4>2, ZenonT(30) DEF slot
    <3>2. /\ next \in Metadata
          /\ \A s \in Slots \ {slot} : next.slots[s] = metadata.slots[s]
          /\ next.slots[slot].state = "VERIFIED"
          /\ next.slots[slot].image = image
      BY <2>2, <2>3, <3>1, ZenonT(30)
    <3> QED
      BY <2>2, <3>2, ZenonT(30)
  <2>5. Holds(slot, image)
    <3> SUFFICES ASSUME NEW i \in DOMAIN Bundles[image],
                        NEW k \in 0 .. Bundles[image][i].exact - 1
                 PROVE  media[layout.offset[SlotRegion(slot)] + Bundles[image][i].offset + k]
                            = <<image, i, k>>
      BY ZenonT(60) DEF Holds
    <3> DEFINE c == Bundles[image][i]
    <3>1. c \in ComponentType
      BY <2>1, StorageAssumption, SMTT(30)
    <3>2. c.exact \in Nat /\ device.write \in PowersOfTwo
      BY <3>1, StateFacts, ZenonT(30) DEF ComponentType, Providers
    <3>3. Backing(c) \in Nat /\ Backing(c) >= c.exact
      BY <3>2, AlignUpFacts, ZenonT(60) DEF Backing
    <3>4. k \in 0 .. Backing(c) - 1 /\ k < c.exact
      <4> DEFINE backing == Backing(c)
                 exact == c.exact
      <4>1. k \in 0 .. exact - 1 /\ exact \in Nat /\ backing \in Nat /\ backing >= exact
        BY <3>2, <3>3, ZenonT(60)
      <4> HIDE DEF backing, exact
      <4>2. k \in 0 .. backing - 1 /\ k < exact
        BY <4>1, SMTT(30)
      <4> QED
        BY <4>2, ZenonT(30) DEF backing, exact
    <3>5. ReadsBack(image, i)
      BY <1>5, <2>1, ZenonT(30)
    <3>6. Resolves(WorkHandle, c.offset, Backing(c), device.read)
      BY <1>5, <2>1, ZenonT(30)
    <3>7. Resolved(WorkHandle, c.offset) = layout.offset[SlotRegion(slot)] + c.offset
      BY <3>6, ZenonT(60) DEF Resolves, RangeFits, CanAdd, Resolved, Sum64, WorkHandle, HandleFor
    <3> QED
      BY <3>4, <3>5, <3>7, ZenonT(60) DEF ReadsBack
  <2>6. device.capacity = layout.capacity
    BY <1>5, <2>1, ZenonT(30) DEF Resolves, HandleIsValid, SessionIsValid
  <2>7. VerifiedContent'
    BY <1>1, <2>4, <2>5, HoldsUnchanged, ZenonT(30) DEF IInv, VerifiedContent
  <2>8. BundlesFit' /\ VerifiedOnDevice' /\ LayoutIsValid(layout)'
    BY <1>1, <2>4, <2>6, ZenonT(30) DEF IInv, BundlesFit, VerifiedOnDevice
  <2> QED
    BY <1>1, <1>2, <1>3, <2>4, <2>7, <2>8, ZenonT(30) DEF IInv, TypeOK, WorkIsStaged
<1> QED
  BY <1>4, <1>5, ZenonT(30) DEF InstallReadback

\* Every step keeps the invariant and changes the staged slot only.
LEMMA NextStep ==
    ASSUME IInv, [Next]_vars
    PROVE  IInv' /\ [ChangesStagedSlotOnly]_vars
<1>1. CASE UNCHANGED vars
  <2>1. /\ LayoutIsValid(layout)' /\ BundlesFit' /\ VerifiedOnDevice' /\ VerifiedContent'
    BY <1>1, SessionStep, ZenonT(30) DEF vars
  <2> QED
    BY <1>1, <2>1, ZenonT(30) DEF vars, IInv, TypeOK, WorkIsStaged, Image
<1>2. CASE \E slot \in Slots, image \in DOMAIN Bundles : Prepare(slot, image)
  BY <1>2, PrepareStep, ZenonT(30)
<1>3. CASE \E slot \in Slots, state \in SlotStates : Advance(slot, state)
  BY <1>3, AdvanceStep, ZenonT(30)
<1>4. CASE \E slot \in Slots : OpenSlot(slot) \/ Install(slot)
  BY <1>4, OpenStep, ZenonT(30)
<1>5. CASE \E slot \in Slots, gen \in 1 .. MaxGeneration : OpenElsewhere(slot, gen)
  BY <1>5, OpenStep, ZenonT(30)
<1>6. CASE \E offset \in CallOffsets, size \in CallSizes :
              WriteInactive(held, offset, size) \/ EraseInactive(held, offset, size)
  BY <1>6, CallerStep, ZenonT(30)
<1>7. CASE InstallErase \/ InstallWrite
  BY <1>7, InstallerStep, ZenonT(30)
<1>8. CASE InstallReadback
  BY <1>8, ReadbackStep, ZenonT(30)
<1> QED
  BY <1>1, <1>2, <1>3, <1>4, <1>5, <1>6, <1>7, <1>8, ZenonT(30) DEF Next

-----------------------------------------------------------------------------
(* The theorems *)

\* The invariant gives room to the zero tails of components.
LEMMA InvariantKeepsApart == IInv => BackingsApart
<1> SUFFICES ASSUME IInv, work.pc # "idle",
                    NEW i \in DOMAIN Bundles[Image], NEW j \in DOMAIN Bundles[Image],
                    i # j,
                    IsAligned(Bundles[Image][i].offset, device.write),
                    IsAligned(Bundles[Image][j].offset, device.write)
             PROVE  ~RangesOverlap(Bundles[Image][i].offset, Backing(Bundles[Image][i]),
                                   Bundles[Image][j].offset, Backing(Bundles[Image][j]))
  BY ZenonT(30) DEF BackingsApart, Resolves, RangeIsAligned
<1> DEFINE c == Bundles[Image][i]
           d == Bundles[Image][j]
<1>1. Image \in DOMAIN Bundles /\ work.slot \in Slots
  BY ZenonT(30) DEF IInv, WorkIsStaged, TypeOK
<1>2. LayoutAccepts(layout, Bundles[Image])
  BY <1>1, ZenonT(30) DEF IInv, BundlesFit, Image
<1>3. c \in ComponentType /\ d \in ComponentType
  BY <1>1, StorageAssumption, SMTT(30)
<1>4. /\ c.exact # 0 /\ d.exact # 0
      /\ ~RangesOverlap(c.offset, c.exact, d.offset, d.exact)
  BY <1>2, ZenonT(30) DEF LayoutAccepts, ComponentsAreValid
<1>5. device.write \in PowersOfTwo
  BY StateFacts, ZenonT(30) DEF Providers
<1> HIDE DEF c, d
<1>6. /\ c.offset \in Nat /\ c.exact \in Nat
      /\ d.offset \in Nat /\ d.exact \in Nat
  BY <1>3, ZenonT(30) DEF ComponentType
<1>7. ~RangesOverlap(c.offset, AlignUp(c.exact, device.write),
                     d.offset, AlignUp(d.exact, device.write))
  BY <1>4, <1>5, <1>6, RoundedRangesApart, ZenonT(30) DEF c, d
<1> QED
  BY <1>7, ZenonT(30) DEF c, d, Backing

\* The inductive invariant holds in every state.
LEMMA IInvHolds == Spec => []IInv
<1>1. Init => IInv
  BY InitIInv, ZenonT(30)
<1>2. IInv /\ [Next]_vars => IInv'
  BY NextStep, ZenonT(30)
<1> QED
  BY <1>1, <1>2, PTL DEF Spec

\* The variables of the storage session keep their types, and the generation
\* never passes its limit.
THEOREM StorageTypes == Spec => []TypeOK
<1>1. IInv => TypeOK
  BY ZenonT(30) DEF IInv
<1> QED
  BY <1>1, IInvHolds, PTL

\* Whatever the device, the bundles and the other callers of the storage,
\* ribon_update_storage_write_inactive, _erase_inactive and the installer
\* change bytes of the inactive slot in STAGING only.
THEOREM StagedSlotOnly == Spec => WritesStagedSlotOnly
<1>1. IInv /\ [Next]_vars => [ChangesStagedSlotOnly]_vars
  BY NextStep, ZenonT(30)
<1> QED
  BY <1>1, IInvHolds, PTL DEF Spec, WritesStagedSlotOnly

\* A slot that was verified keeps the bytes that were read back, for every
\* handle that anyone kept.
THEOREM VerifiedStays == Spec => []VerifiedContent
<1>1. IInv => VerifiedContent
  BY ZenonT(30) DEF IInv
<1> QED
  BY <1>1, IInvHolds, PTL

\* A manifest whose exact ranges are apart and whose offsets the storage
\* accepts has room for the zero tails of all its components.
THEOREM ComponentsStayApart == Spec => []BackingsApart
<1>1. IInv => BackingsApart
  BY InvariantKeepsApart, ZenonT(30)
<1> QED
  BY <1>1, IInvHolds, PTL
=============================================================================
