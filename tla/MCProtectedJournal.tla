------------------------- MODULE MCProtectedJournal -------------------------
(* Two boot-attempt bindings, interchangeable, on either device: one that  *)
(* keeps what was flushed, with callers that go on after a failure, and    *)
(* one that tears what was not, with callers that reset.                   *)
EXTENDS ProtectedJournal, TLC

CONSTANTS b1, b2

MCBindings == {b1, b2}
BindingSymmetry == Permutations(MCBindings)

VARIABLE device

Tearing == INSTANCE ProtectedJournal WITH CacheModel <- "subset", RetryWithoutReset <- FALSE

MCInit == Init /\ device \in {"reference", "subset"}

MCNext ==
    \/ device = "reference" /\ Next /\ UNCHANGED device
    \/ device = "subset" /\ Tearing!Next /\ UNCHANGED device

MCSpec == MCInit /\ [][MCNext]_<<vars, device>>
=============================================================================
