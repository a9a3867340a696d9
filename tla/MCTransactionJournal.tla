----------------------- MODULE MCTransactionJournal -----------------------
(* TransactionJournal on two record values and five generations, on either *)
(* device: one that keeps what was flushed, with callers that go on after  *)
(* a failure, and one that tears what was not, with callers that reset.    *)
EXTENDS TransactionJournal, TLC

CONSTANTS v1, v2

MCValue == {v1, v2}
ValueSymmetry == Permutations(MCValue)

VARIABLE device

Tearing == INSTANCE TransactionJournal WITH CacheModel <- "subset", RetryWithoutReset <- FALSE

MCInit == Init /\ device \in {"reference", "subset"}

MCNext ==
    \/ device = "reference" /\ Next /\ UNCHANGED device
    \/ device = "subset" /\ Tearing!Next /\ UNCHANGED device

MCSpec == MCInit /\ [][MCNext]_<<vars, device>>
=============================================================================
