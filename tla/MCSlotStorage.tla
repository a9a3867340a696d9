---------------------------- MODULE MCSlotStorage ----------------------------
EXTENDS SlotStorage, TLC

CONSTANTS image1, image2, factory, foreign, none

MCImages == {image1, image2, factory, foreign}

Component1 == [offset |-> 0, exact |-> 1, maximum |-> 2]
Component2 == [offset |-> 2, exact |-> 2, maximum |-> 2]
\* exact sizes apart, but not rounded to the write alignment
Unaligned == [offset |-> 1, exact |-> 1, maximum |-> 1]

MCBundles == image1 :> <<Component1, Component2>> @@ image2 :> <<Component1, Unaligned>>

Input(alignment, payload, trailing, capacity) ==
    [alignment |-> alignment, gap |-> 1, boot |-> 2, recovery |-> 1,
     payload |-> payload, metadata |-> 2, journal |-> 1,
     trailing |-> trailing, capacity |-> capacity]

Device(input, write, erase) ==
    [input |-> input,
     provider |-> [capacity |-> input.capacity, read |-> 1, write |-> write,
                   erase |-> erase, transfer |-> 4]]

MCDevices ==
    {Device(Input(2, 3, 1, 26), g[1], g[2]) : g \in {<<1, 1>>, <<2, 2>>, <<1, 2>>, <<2, 4>>}}
=============================================================================
