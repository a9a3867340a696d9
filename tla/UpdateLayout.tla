---------------------------- MODULE UpdateLayout ----------------------------
(***************************************************************************)
(* The A/B media layout of src/update/storage.c: how                       *)
(* ribon_update_layout_calculate divides a medium into regions, what a     *)
(* valid layout is, and when its slots can hold a manifest's components.   *)
(* Words have WordBits bits.                                               *)
(***************************************************************************)
EXTENDS Integers

CONSTANTS
    WordBits,       \* stands for 64
    MetadataBytes   \* RIBON_UPDATE_SLOT_METADATA_BYTES

\* UINT64_MAX
MaxWord == 2 ^ WordBits - 1

\* RibonUpdateLayoutRegionKind, and those that matter by name
Regions == 1 .. 11
SlotA == 5
SlotB == 7
SlotMetadataRegion == 9
Trailing == 11

\* slot_region
SlotRegion(slot) == IF slot = 0 THEN SlotA ELSE SlotB

\* power_of_two
PowersOfTwo == {a \in 1 .. MaxWord : \E n \in 0 .. WordBits - 1 : a = 2 ^ n}

IsAligned(x, alignment) == x % alignment = 0

\* align_up_u64: it fails when the sum overflows.
CanAlignUp(x, alignment) == x + (alignment - 1) <= MaxWord
AlignUp(x, alignment) == ((x + (alignment - 1)) \div alignment) * alignment

\* What the regions are asked to hold, in the order of the regions
Requested(in) ==
    <<in.boot, in.gap, in.recovery, in.gap, in.payload, in.gap, in.payload,
      in.gap, in.metadata, in.journal, in.trailing>>

\* Argument checks of ribon_update_layout_calculate
InputIsValid(in) ==
    /\ in.capacity # 0
    /\ in.alignment \in PowersOfTwo
    /\ \A r \in Regions : Requested(in)[r] # 0
    /\ in.metadata >= 2 * MetadataBytes

\* The end of each region when regions of these lengths follow each other
Ends(l) ==
    LET e2 == l[1] + l[2]
        e3 == e2 + l[3]
        e4 == e3 + l[4]
        e5 == e4 + l[5]
        e6 == e5 + l[6]
        e7 == e6 + l[7]
        e8 == e7 + l[8]
        e9 == e8 + l[9]
        e10 == e9 + l[10]
    IN  <<l[1], e2, e3, e4, e5, e6, e7, e8, e9, e10, e10 + l[11]>>

LayoutType == [capacity : Nat, alignment : Nat,
               offset : [Regions -> Nat], length : [Regions -> Nat]]

\* layout_is_structurally_valid
LayoutIsValid(l) ==
    /\ l.capacity # 0
    /\ l.alignment \in PowersOfTwo
    /\ \A r \in Regions :
           /\ l.length[r] # 0
           /\ l.offset[r] = IF r = 1 THEN 0 ELSE l.offset[r - 1] + l.length[r - 1]
           /\ IsAligned(l.offset[r], l.alignment)
           /\ IsAligned(l.length[r], l.alignment)
           /\ l.offset[r] + l.length[r] <= l.capacity
    /\ l.offset[Trailing] + l.length[Trailing] = l.capacity
    /\ l.length[SlotMetadataRegion] >= 2 * MetadataBytes
    /\ l.length[SlotA] = l.length[SlotB]

(***************************************************************************)
(* ribon_update_layout_calculate: the requested sizes are rounded up, the  *)
(* last region takes the rest of the medium, and layout_append places the  *)
(* regions one after the other, rounding again.                            *)
(***************************************************************************)
AlignedRequests(in) ==
    [r \in Regions |-> AlignUp(Requested(in)[r], in.alignment)]

\* trailing
Rest(in) ==
    in.capacity - (Ends(AlignedRequests(in))[Trailing]
                       - AlignedRequests(in)[Trailing])

CalculatedLayout(in) ==
    LET length == [AlignedRequests(in) EXCEPT
                      ![Trailing] = AlignUp(Rest(in), in.alignment)]
    IN  [capacity |-> in.capacity, alignment |-> in.alignment,
         offset |-> [r \in Regions |-> Ends(length)[r] - length[r]],
         length |-> length]

CalculateStatus(in) ==
    IF ~InputIsValid(in) THEN "invalid"
    ELSE IF \E r \in Regions :
                \/ ~CanAlignUp(Requested(in)[r], in.alignment)
                \/ Ends(AlignedRequests(in))[r] > MaxWord
    THEN "overflow"
    ELSE IF Ends(AlignedRequests(in))[Trailing] > in.capacity THEN "capacity"
    ELSE IF ~IsAligned(Rest(in), in.alignment) THEN "alignment"
    ELSE IF \/ ~CanAlignUp(Rest(in), in.alignment)
            \/ Ends(CalculatedLayout(in).length)[Trailing] > in.capacity
    THEN "capacity"
    ELSE IF ~LayoutIsValid(CalculatedLayout(in)) THEN "invalid"
    ELSE "ok"

-----------------------------------------------------------------------------
(* A manifest's components: offset and exact size in the bundle, and the
   maximum size that the slot must have room for *)

\* ribon_update_ranges_overlap
RangesOverlap(offset1, size1, offset2, size2) ==
    offset1 < offset2 + size2 /\ offset2 < offset1 + size1

\* The checks of ribon_update_manifest_open on the ranges of components
ComponentsAreValid(components) ==
    /\ \A i \in DOMAIN components :
           LET c == components[i]
           IN  /\ c.exact # 0 /\ c.exact <= c.maximum
               /\ c.offset + c.exact <= MaxWord
    /\ \A i, j \in DOMAIN components :
           i # j => ~RangesOverlap(components[i].offset, components[i].exact,
                                   components[j].offset, components[j].exact)

\* ribon_update_manifest_required_slot_bytes and
\* ribon_update_layout_accepts_manifest
LayoutAccepts(l, components) ==
    /\ ComponentsAreValid(components)
    /\ \A i \in DOMAIN components :
           LET end == components[i].offset + components[i].maximum
           IN  /\ end <= MaxWord
               /\ CanAlignUp(end, l.alignment)
               /\ AlignUp(end, l.alignment) <= l.length[SlotA]
               /\ AlignUp(end, l.alignment) <= l.length[SlotB]
=============================================================================
