---------------------------- MODULE MCBootMemory ----------------------------
EXTENDS BootLoader

\* A unit is half a block.  Low memory belongs to the firmware; the loader's
\* image is above the kernel's place; there may be reserved memory, or a hole,
\* in the middle, or the image may lie where the kernel will be.
Ledger(image, hole) ==
    [u \in 0 .. 8 |-> IF u = 0 THEN "bootServices"
                      ELSE IF u \in image THEN "loaderCode"
                      ELSE IF u \in hole THEN "reserved"
                      ELSE "conventional"]

\* Two descriptors of one type side by side.
MCCuts == {3}

MCMaps == {Ledger({8}, {}), Ledger({4}, {6, 7}), Ledger({2}, {})}

\* Neither ascending nor descending.
MCRank == [u \in 0 .. 8 |-> (u * 2 + 1) % 9]
=============================================================================
