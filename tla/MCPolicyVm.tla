----------------------------- MODULE MCPolicyVm -----------------------------
EXTENDS PolicyVm, TLC

CONSTANTS slot, image, verified

H(params, consumes, result, fallible, effect) ==
    [params |-> params, consumes |-> consumes, result |-> result,
     fallible |-> fallible, effect |-> effect]

\* The shapes of helpers that a product schema can declare.
MCContract ==
    "slot_selected" :> H(<<>>, 0, slot, FALSE, "NONE")
    @@ "slot_compare" :> H(<<slot, slot>>, 0, NoType, FALSE, "NONE")
    @@ "ota_install" :> H(<<slot>>, 0, NoType, TRUE, "JOURNALED")
    @@ "slot_image" :> H(<<slot>>, 0, image, FALSE, "NONE")
    @@ "image_verify" :> H(<<image>>, 1, verified, TRUE, "NONE")
    @@ "image_store" :> H(<<image>>, 1, NoType, TRUE, "JOURNALED")
    @@ "boot_slot" :> H(<<slot, verified>>, 2, NoType, FALSE, "TERMINAL")

MCHelpers == DOMAIN MCContract

\* No object is told from another.
ObjectSymmetry == Permutations(Objects)
=============================================================================
