----------------------------- MODULE SlotStorage -----------------------------
(***************************************************************************)
(* Slot storage of src/update/storage.c, byte by byte: sessions, handles   *)
(* that are bound to a slot and a metadata generation, range resolution    *)
(* and the read, write and erase operations; and the installer of          *)
(* src/update/installer.c, which is their caller, beside any other caller  *)
(* that keeps a handle for too long.                                       *)
(*                                                                         *)
(* A byte is <<image, i, k>>, byte k of component i of an image, or one of *)
(* the bytes of no component below.                                        *)
(***************************************************************************)
EXTENDS SlotMetadata, UpdateLayout, Sequences

CONSTANTS
    Devices,       \* layout inputs, each with the geometry of the provider
    Bundles,       \* the components of the images that can be installed
    OtherLayout,   \* images that were installed under another layout
    CallOffsets,   \* arguments of the other callers
    CallSizes

\* RibonUpdateLayoutInput
LayoutInputs ==
    [capacity : Nat, alignment : Nat, gap : Nat, boot : Nat, recovery : Nat,
     payload : Nat, metadata : Nat, journal : Nat, trailing : Nat]

\* Providers that ribon_update_storage_provider_is_valid accepts
Providers ==
    [capacity : Nat, read : PowersOfTwo, write : PowersOfTwo,
     erase : PowersOfTwo, transfer : Nat]

ComponentType == [offset : Nat, exact : Nat, maximum : Nat]

ASSUME StorageAssumption ==
    /\ MaxWord \in Nat
    /\ MetadataBytes \in Nat
    /\ \A d \in Devices : d.input \in LayoutInputs /\ d.provider \in Providers
    /\ CallOffsets \subseteq Nat
    /\ CallSizes \subseteq Nat
    /\ DOMAIN Bundles \subseteq Images
    /\ \A image \in DOMAIN Bundles :
           Bundles[image] \in Seq(ComponentType) \ {<<>>}

VARIABLES
    device,    \* the provider: capacity, alignments and largest transfer
    layout,    \* the layout that was calculated for the device
    metadata,  \* the slot metadata of the session
    held,      \* the handle that a caller other than the installer keeps
    media,     \* the bytes of the medium
    work       \* locals of ribon_update_install_signed_bundle

vars == <<device, layout, metadata, held, media, work>>

-----------------------------------------------------------------------------
Old == <<NoImage, 0, 0>>
Erased == <<NoImage, 0, 1>>
ZeroByte == <<NoImage, 0, 2>>
Junk == <<NoImage, 0, 3>>

RegionBytes(slot) ==
    LET r == SlotRegion(slot)
    IN  layout.offset[r] .. layout.offset[r] + layout.length[r] - 1

\* ribon_update_storage_session_is_valid
SessionIsValid ==
    /\ LayoutIsValid(layout)
    /\ MetadataIsValid(metadata)
    /\ device.capacity = layout.capacity
    /\ \A s \in Slots :
           /\ metadata.slots[s].state # "EMPTY" =>
                  metadata.slots[s].image \notin OtherLayout
           /\ \A a \in {device.read, device.write, device.erase} :
                  /\ IsAligned(layout.offset[SlotRegion(s)], a)
                  /\ IsAligned(layout.length[SlotRegion(s)], a)

\* ribon_update_storage_open_inactive_slot
CanOpen(slot) ==
    /\ SessionIsValid
    /\ slot # metadata.active
    /\ metadata.slots[slot].state = "STAGING"

\* here: the media identity and layout digest of this session
NoHandle == [slot |-> 0, gen |-> 0, here |-> FALSE]
HandleFor(slot) == [slot |-> slot, gen |-> metadata.gen, here |-> TRUE]

\* handle_is_valid
HandleIsValid(h) ==
    /\ SessionIsValid
    /\ h.slot # metadata.active
    /\ metadata.slots[h.slot].state = "STAGING"
    /\ h.gen = metadata.gen
    /\ h.here

\* Mutant: offset and size need not be aligned.
RangeIsAlignedAlways(offset, size, alignment) == TRUE

RangeIsAligned(offset, size, alignment) ==
    IsAligned(offset, alignment) /\ IsAligned(size, alignment)

\* Mutant: the carry is not looked at.
CanAddAlways(left, right) == TRUE

\* add_u64 succeeds
CanAdd(left, right) == left + right <= MaxWord

\* The sum of two words is a word.
Sum64(left, right) ==
    IF left + right <= MaxWord THEN left + right ELSE left + right - (MaxWord + 1)

RangeFits(slot, offset, size) ==
    /\ size <= device.transfer
    /\ CanAdd(offset, size)
    /\ Sum64(offset, size) <= layout.length[SlotRegion(slot)]
    /\ CanAdd(layout.offset[SlotRegion(slot)], offset)

\* resolve_range succeeds
Resolves(h, offset, size, alignment) ==
    /\ HandleIsValid(h)
    /\ size # 0
    /\ RangeIsAligned(offset, size, alignment)
    /\ RangeFits(h.slot, offset, size)

\* The media offset that it returns
Resolved(h, offset) == Sum64(layout.offset[SlotRegion(h.slot)], offset)

(***************************************************************************)
(* The medium after the provider stored the first n bytes at an offset; an *)
(* operation that fails may have stored some of them.                      *)
(***************************************************************************)
Stored(offset, n, bytes) ==
    [b \in DOMAIN media |->
        IF b >= offset /\ b < offset + n THEN bytes[b - offset] ELSE media[b]]

-----------------------------------------------------------------------------
(* Metadata *)

\* A slot is staged: ribon_update_install_prepare, with the metadata that the
\* transaction journal then commits.
Prepare(slot, image) ==
    /\ work.pc = "idle"
    /\ LayoutAccepts(layout, Bundles[image])
    /\ \E next \in Transitions(metadata, slot, "STAGING", image, 0) :
           metadata' = next
    /\ UNCHANGED <<device, layout, held, media, work>>

\* The later transitions of a slot, made by the boot path and the transaction
Advance(slot, state) ==
    /\ work.pc = "idle"
    /\ state \in {"PENDING", "CONFIRMED", "BAD"}
    /\ \E next \in Transitions(metadata, slot, state, metadata.slots[slot].image,
                               IF state = "PENDING" THEN 1 ELSE 0) :
           metadata' = next
    /\ UNCHANGED <<device, layout, held, media, work>>

-----------------------------------------------------------------------------
(* Callers of the storage operations *)

OpenSlot(slot) ==
    /\ work.pc = "idle"
    /\ CanOpen(slot)
    /\ held' = HandleFor(slot)
    /\ UNCHANGED <<device, layout, metadata, media, work>>

\* A handle of a session on another medium or with another layout
OpenElsewhere(slot, gen) ==
    /\ work.pc = "idle"
    /\ held' = [slot |-> slot, gen |-> gen, here |-> FALSE]
    /\ UNCHANGED <<device, layout, metadata, media, work>>

\* ribon_update_storage_write_inactive
WriteInactive(h, offset, size) ==
    /\ work.pc = "idle"
    /\ Resolves(h, offset, size, device.write)
    /\ \E n \in 0 .. size :
           media' = Stored(Resolved(h, offset), n, [k \in 0 .. n - 1 |-> Junk])
    /\ UNCHANGED <<device, layout, metadata, held, work>>

\* ribon_update_storage_erase_inactive
EraseInactive(h, offset, size) ==
    /\ work.pc = "idle"
    /\ Resolves(h, offset, size, device.erase)
    /\ \E n \in 0 .. size :
           media' = Stored(Resolved(h, offset), n, [k \in 0 .. n - 1 |-> Erased])
    /\ UNCHANGED <<device, layout, metadata, held, work>>

-----------------------------------------------------------------------------
(* ribon_update_install_signed_bundle *)

Idle == [pc |-> "idle", slot |-> 0, index |-> 0]

Image == metadata.slots[work.slot].image
Component == Bundles[Image][work.index]
WorkHandle == HandleFor(work.slot)

\* backing_size
Backing(c) == AlignUp(c.exact, device.write)

\* The scratch buffer: the component and a zero tail
Scratch(image, i) ==
    [k \in 0 .. Backing(Bundles[image][i]) - 1 |->
        IF k < Bundles[image][i].exact THEN <<image, i, k>> ELSE ZeroByte]

\* The plan for a slot in STAGING resumes it; the handle is opened.
Install(slot) ==
    /\ work.pc = "idle"
    /\ CanOpen(slot)
    /\ metadata.slots[slot].image \in DOMAIN Bundles
    /\ LayoutAccepts(layout, Bundles[metadata.slots[slot].image])
    /\ work' = [pc |-> "erase", slot |-> slot, index |-> 1]
    /\ UNCHANGED <<device, layout, metadata, held, media>>

\* Any error ends the call.
Abandon == work' = Idle

\* The checks before a component is read from the bundle
BackingFits(c) ==
    CanAlignUp(c.exact, device.write) /\ Backing(c) <= device.transfer

InstallErase ==
    /\ work.pc = "erase"
    /\ LET c == Component
           at == Resolved(WorkHandle, c.offset)
           erased == [k \in 0 .. Backing(c) - 1 |-> Erased]
       IN  IF /\ BackingFits(c)
              /\ Resolves(WorkHandle, c.offset, Backing(c), device.erase)
           THEN \/ /\ media' = Stored(at, Backing(c), erased)
                   /\ work' = [work EXCEPT !.pc = "write"]
                \/ /\ \E n \in 0 .. Backing(c) : media' = Stored(at, n, erased)
                   /\ Abandon
           ELSE UNCHANGED media /\ Abandon
    /\ UNCHANGED <<device, layout, metadata, held>>

InstallWrite ==
    /\ work.pc = "write"
    /\ LET c == Component
           at == Resolved(WorkHandle, c.offset)
           bytes == Scratch(Image, work.index)
       IN  IF Resolves(WorkHandle, c.offset, Backing(c), device.write)
           THEN \/ /\ media' = Stored(at, Backing(c), bytes)
                   /\ work' = IF \E i \in DOMAIN Bundles[Image] : i > work.index
                              THEN [work EXCEPT !.pc = "erase", !.index = @ + 1]
                              ELSE [work EXCEPT !.pc = "readback"]
                \/ /\ \E n \in 0 .. Backing(c) : media' = Stored(at, n, bytes)
                   /\ Abandon
           ELSE UNCHANGED media /\ Abandon
    /\ UNCHANGED <<device, layout, metadata, held>>

\* What reading a component returns is the component and its zero tail.
ReadsBack(image, i) ==
    LET c == Bundles[image][i]
        at == Resolved(WorkHandle, c.offset)
    IN  \A k \in 0 .. Backing(c) - 1 :
            media[at + k] = IF k < c.exact THEN <<image, i, k>> ELSE ZeroByte

\* After the flush every component is read back; the slot is VERIFIED when
\* all are right.  A call of the provider may fail.
InstallReadback ==
    /\ work.pc = "readback"
    /\ \/ /\ \A i \in DOMAIN Bundles[Image] :
                 LET c == Bundles[Image][i]
                 IN  /\ Resolves(WorkHandle, c.offset, Backing(c), device.read)
                     /\ ReadsBack(Image, i)
          /\ \E next \in Transitions(metadata, work.slot, "VERIFIED", Image, 0) :
                 metadata' = next
       \/ UNCHANGED metadata
    /\ Abandon
    /\ UNCHANGED <<device, layout, held, media>>

-----------------------------------------------------------------------------
Init ==
    /\ \E d \in Devices :
           /\ CalculateStatus(d.input) = "ok"
           /\ layout = CalculatedLayout(d.input)
           /\ device = d.provider
    /\ \E s \in Slots, image \in Images \ DOMAIN Bundles :
           metadata = Provisioned(s, image)
    /\ held = NoHandle
    /\ media = [b \in 0 .. device.capacity - 1 |-> Old]
    /\ work = Idle

Next ==
    \/ \E slot \in Slots, image \in DOMAIN Bundles : Prepare(slot, image)
    \/ \E slot \in Slots, state \in SlotStates : Advance(slot, state)
    \/ \E slot \in Slots : OpenSlot(slot) \/ Install(slot)
    \/ \E slot \in Slots, gen \in 1 .. MaxGeneration : OpenElsewhere(slot, gen)
    \/ \E offset \in CallOffsets, size \in CallSizes :
           WriteInactive(held, offset, size) \/ EraseInactive(held, offset, size)
    \/ InstallErase \/ InstallWrite \/ InstallReadback

Spec == Init /\ [][Next]_vars

-----------------------------------------------------------------------------
(* Properties *)

Bytes == ((Images \cup {NoImage}) \X Nat \X Nat)

\* The variables have their types.
TypeOK ==
    /\ device \in {d.provider : d \in Devices}
    /\ layout \in LayoutType
    /\ metadata \in Metadata
    /\ held \in [slot : Slots, gen : 0 .. MaxGeneration, here : BOOLEAN]
    /\ media \in [0 .. device.capacity - 1 -> Bytes]
    /\ work \in [pc : {"idle", "erase", "write", "readback"}, slot : Slots,
                 index : Nat]

\* Components of the bundle being installed whose ranges the storage accepts
\* are apart, zero tails included: writing one never destroys another.  The
\* manifest only promises that the exact sizes do not overlap.
BackingsApart ==
    work.pc # "idle" =>
        \A i, j \in DOMAIN Bundles[Image] :
            LET c == Bundles[Image][i]
                d == Bundles[Image][j]
            IN  /\ i # j
                /\ Resolves(WorkHandle, c.offset, Backing(c), device.write)
                /\ Resolves(WorkHandle, d.offset, Backing(d), device.write)
                => ~RangesOverlap(c.offset, Backing(c), d.offset, Backing(d))

\* The slot holds the components of the image.
Holds(s, image) ==
    \A i \in DOMAIN Bundles[image] :
        LET c == Bundles[image][i]
        IN  \A k \in 0 .. c.exact - 1 :
                media[layout.offset[SlotRegion(s)] + c.offset + k] = <<image, i, k>>

\* A slot that was verified holds the components of its image, until it is
\* staged again: whoever kept a handle cannot change it any more.
VerifiedContent ==
    \A s \in Slots :
        LET entry == metadata.slots[s]
        IN  /\ entry.state \in {"VERIFIED", "PENDING", "CONFIRMED"}
            /\ entry.image \in DOMAIN Bundles
            => Holds(s, entry.image)

\* A step changes bytes of the inactive slot only, and only while it is
\* STAGING: never the active slot, the boot loader, the recovery image, the
\* metadata, the journal or a gap.
ChangesStagedSlotOnly ==
    \A b \in DOMAIN media : media'[b] # media[b] =>
        \E s \in Slots : /\ s # metadata.active
                         /\ metadata.slots[s].state = "STAGING"
                         /\ b \in RegionBytes(s)

\* Every step of the installer and of any other caller of the storage.
WritesStagedSlotOnly == [][ChangesStagedSlotOnly]_vars
=============================================================================
