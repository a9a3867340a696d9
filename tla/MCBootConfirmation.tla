------------------------- MODULE MCBootConfirmation -------------------------
(* The factory image, its successor, another image of the same sequence,   *)
(* and the image after that.                                               *)
EXTENDS BootConfirmation, TLC

CONSTANTS factory, second, sibling, third, n1, n2

MCImages == {factory, second, sibling, third}
MCSequence == factory :> 1 @@ second :> 2 @@ sibling :> 2 @@ third :> 3
MCNonces == {n1, n2}
=============================================================================
