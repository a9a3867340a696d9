---------------------------- MODULE SlotMetadata ----------------------------
(***************************************************************************)
(* The A/B slot metadata of src/update/storage.c: what a valid metadata    *)
(* object is and which successor ribon_update_slot_metadata_transition     *)
(* makes of it.  The identity of an image (image generation, manifest,     *)
(* image-set and layout digest) is one element of Images.                  *)
(***************************************************************************)
EXTENDS Naturals, FiniteSets

CONSTANTS
    Images,         \* identities that a signed manifest can have
    NoImage,        \* the all-zero identity of an empty slot
    MaxAttempts,    \* METADATA_MAX_BOOT_ATTEMPTS
    MaxGeneration   \* stands for UINT64_MAX

ASSUME ImageAssumption == NoImage \notin Images
ASSUME AttemptsAssumption == MaxAttempts \in Nat \ {0}
ASSUME MetadataGenerationAssumption == MaxGeneration \in Nat \ {0}

Slots == {0, 1}
NoSlot == 2  \* RIBON_UPDATE_SLOT_NONE

SlotStates == {"EMPTY", "STAGING", "VERIFIED", "PENDING", "CONFIRMED", "BAD"}

Entries == [state : SlotStates, gen : 0 .. MaxGeneration,
            image : Images \cup {NoImage}, attempts : 0 .. MaxAttempts]

Metadata == [gen : 1 .. MaxGeneration, active : Slots,
             pending : Slots \cup {NoSlot}, slots : [Slots -> Entries]]

EmptyEntry == [state |-> "EMPTY", gen |-> 0, image |-> NoImage, attempts |-> 0]

\* slot_entry_is_valid
EntryIsValid(entry, generation) ==
    IF entry.state = "EMPTY"
    THEN entry = EmptyEntry
    ELSE /\ entry.gen # 0 /\ entry.gen <= generation
         /\ entry.image # NoImage
         /\ entry.state = "PENDING" <=> entry.attempts # 0

\* metadata_is_valid
MetadataIsValid(m) ==
    /\ m.gen # 0
    /\ m.slots[m.active].state = "CONFIRMED"
    /\ \A s \in Slots : EntryIsValid(m.slots[s], m.gen)
    /\ LET pending == {s \in Slots : m.slots[s].state = "PENDING"}
       IN  IF m.pending = NoSlot THEN pending = {}
           ELSE pending = {m.pending} /\ m.pending # m.active

\* Mutant of AllowedEdges: a slot can become PENDING without being verified.
AllowedEdgesUnverified ==
    ({"EMPTY", "BAD", "CONFIRMED"} \X {"STAGING"})
        \cup {<<"STAGING", "VERIFIED">>, <<"STAGING", "PENDING">>,
              <<"VERIFIED", "PENDING">>, <<"PENDING", "CONFIRMED">>}
        \cup ({"STAGING", "VERIFIED", "PENDING"} \X {"BAD"})

\* transition_is_allowed
AllowedEdges ==
    ({"EMPTY", "BAD", "CONFIRMED"} \X {"STAGING"})
        \cup {<<"STAGING", "VERIFIED">>, <<"VERIFIED", "PENDING">>,
              <<"PENDING", "CONFIRMED">>}
        \cup ({"STAGING", "VERIFIED", "PENDING"} \X {"BAD"})

\* The checks ribon_update_slot_metadata_transition makes of its arguments.
TransitionIsAllowed(m, slot, state, image, attempts) ==
    /\ MetadataIsValid(m)
    /\ slot # m.active
    /\ image # NoImage
    /\ m.gen < MaxGeneration
    /\ <<m.slots[slot].state, state>> \in AllowedEdges
    /\ IF state = "PENDING" THEN attempts # 0 /\ m.pending = NoSlot
                            ELSE attempts = 0
    /\ state # "STAGING" => image = m.slots[slot].image

\* Mutant of Successor: the changed entry keeps its old generation.
SuccessorWithStaleEntry(m, slot, state, image, attempts) ==
    [gen |-> m.gen + 1,
     active |-> IF state = "CONFIRMED" THEN slot ELSE m.active,
     pending |-> CASE state = "PENDING" -> slot
                   [] state \in {"CONFIRMED", "BAD"} -> NoSlot
                   [] OTHER -> m.pending,
     slots |-> [m.slots EXCEPT ![slot] =
                  [state |-> state, gen |-> m.gen, attempts |-> attempts,
                   image |-> IF state = "STAGING" THEN image ELSE @.image]]]

\* The successor that it then builds.
Successor(m, slot, state, image, attempts) ==
    [gen |-> m.gen + 1,
     active |-> IF state = "CONFIRMED" THEN slot ELSE m.active,
     pending |-> CASE state = "PENDING" -> slot
                   [] state \in {"CONFIRMED", "BAD"} -> NoSlot
                   [] OTHER -> m.pending,
     slots |-> [m.slots EXCEPT ![slot] =
                  [state |-> state, gen |-> m.gen + 1, attempts |-> attempts,
                   image |-> IF state = "STAGING" THEN image ELSE @.image]]]

\* The metadata that the transition returns: the successor, when the checks
\* pass and the object that was built is valid again; nothing otherwise.
Transitions(m, slot, state, image, attempts) ==
    {next \in {Successor(m, slot, state, image, attempts)} :
        /\ TransitionIsAllowed(m, slot, state, image, attempts)
        /\ MetadataIsValid(next)}

\* The metadata that ribon_update_transaction_initialize accepts for a fresh
\* device: one confirmed slot, the other empty.
Provisioned(active, image) ==
    [gen |-> 1, active |-> active, pending |-> NoSlot,
     slots |-> [s \in Slots |->
                  IF s = active
                  THEN [state |-> "CONFIRMED", gen |-> 1, image |-> image,
                        attempts |-> 0]
                  ELSE EmptyEntry]]
=============================================================================
