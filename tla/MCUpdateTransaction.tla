------------------------ MODULE MCUpdateTransaction ------------------------
(* Two images: the device is provisioned with one, and either can be       *)
(* installed.  The device keeps what was flushed, with callers that go on  *)
(* after a failure, or it tears what was not, with callers that reset.     *)
EXTENDS UpdateTransaction

CONSTANTS factory, update

MCImages == {factory, update}

VARIABLE device

Tearing == INSTANCE UpdateTransaction WITH CacheModel <- "subset", RetryWithoutReset <- FALSE

MCInit == Init /\ device \in {"reference", "subset"}

MCNext ==
    \/ device = "reference" /\ Next /\ UNCHANGED device
    \/ device = "subset" /\ Tearing!Next /\ UNCHANGED device

mcVars == <<vars, device>>

\* Fairness, of the reference device.
MCFairness ==
    /\ WF_mcVars(device = "reference" /\ InstallStep /\ UNCHANGED device)
    /\ WF_mcVars(device = "reference" /\ failed /\ PowerCut /\ UNCHANGED device)
    /\ WF_mcVars(/\ device = "reference"
                 /\ \E slot \in Slots, image \in Images :
                       ResumeStaging(slot, image) \/ ResumeVerified(slot, image)
                 /\ UNCHANGED device)

MCSpec == MCInit /\ [][MCNext]_mcVars /\ MCFairness

\* On a device that keeps what it was told to write, a started install that the
\* product keeps resuming reaches PENDING once faults stop: no failure or power
\* cut leaves the journal or the slot in a state from which
\* install_transactionally cannot finish.
ReferenceConverges == device = "reference" => InstallConverges
=============================================================================
