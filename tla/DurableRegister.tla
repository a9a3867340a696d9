--------------------------- MODULE DurableRegister ---------------------------
(***************************************************************************)
(* What the update journal promises its callers: a register whose writes   *)
(* are numbered 1, 2, 3, ...  A write first becomes visible (current), then *)
(* durable, and is acknowledged only when it is durable.  A power cut      *)
(* leaves the visible or the durable value, never a mixture, an older one  *)
(* or none.                                                                *)
(***************************************************************************)
EXTENDS Naturals

CONSTANTS Value, None, MaxGeneration

VARIABLES
    current,  \* the [gen, val] that open returns now, or None
    durable,  \* the [gen, val] that open returns after a power cut, or None
    promised  \* generation of the last acknowledged write

vars == <<current, durable, promised>>

Init == current = None /\ durable = None /\ promised = 0

Generation(cell) == IF cell = None THEN 0 ELSE cell.gen

\* A write is numbered after the value it replaces, which is durable.
Write ==
    /\ current = durable
    /\ Generation(current) < MaxGeneration
    /\ current' \in [gen : {Generation(current) + 1}, val : Value]
    /\ UNCHANGED <<durable, promised>>

Sync ==
    /\ durable' = current
    /\ UNCHANGED <<current, promised>>

Acknowledge ==
    /\ current # None
    /\ durable = current
    /\ promised' = current.gen
    /\ UNCHANGED <<current, durable>>

PowerCut ==
    /\ \E cell \in {current, durable} : current' = cell /\ durable' = cell
    /\ UNCHANGED promised

Next == Write \/ Sync \/ Acknowledge \/ PowerCut

Spec == Init /\ [][Next]_vars
=============================================================================
