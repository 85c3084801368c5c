----------------------------- MODULE PageFrames -----------------------------
(***************************************************************************)
(* The physical page allocator of malloc.c once pmm_init has filled its    *)
(* list, and its three users: igpu_init takes pages for page tables and    *)
(* the command ring at boot and keeps them, the heap takes runs of pages   *)
(* and keeps them, the shell command igputest takes two pages and frees    *)
(* both.  A page is 2 MB; a frame number stands for an address.  All of    *)
(* them run on the boot core, one after the other.                         *)
(*                                                                         *)
(* The list is an array used as a stack by single-page requests, and       *)
(* scanned from the bottom, in array order, by requests for several        *)
(* pages.  Pages are in memory-map order at first, and in whatever order   *)
(* they were freed in later.                                               *)
(***************************************************************************)
EXTENDS Naturals, FiniteSets

CONSTANTS Frames,         \* the frames pmm_init put in the list
          MaxFreeBlocks,  \* MAX_FREE_BLOCKS, the length of the array
          MaxRun          \* bound: the most pages one heap request asks for

ASSUME FramesAssumption ==
    /\ Frames \subseteq Nat /\ IsFiniteSet(Frames)
    /\ MaxFreeBlocks \in Nat /\ Cardinality(Frames) <= MaxFreeBlocks
    /\ MaxRun \in Nat

VARIABLES
    free_blocks,  \* the array, up to the count
    count,        \* free_blocks_count
    holder,       \* per frame: who believes the page is theirs, or "pmm"
    test          \* the two pages of the igputest in progress, or <<>>

vars == <<free_blocks, count, holder, test>>

\* The order is the memory map's, which nothing sorts.
Init == /\ count = Cardinality(Frames)
        /\ free_blocks \in
             {s \in [0 .. (count - 1) -> Frames] :
                /\ \A i, j \in 0 .. (count - 1) : s[i] = s[j] => i = j
                /\ {s[i] : i \in 0 .. (count - 1)} = Frames}
        /\ holder = [f \in Frames |-> "pmm"]
        /\ test = <<>>

-----------------------------------------------------------------------------
(* The allocator's three entry points, on the list. *)

Top == free_blocks[count - 1]

\* pmm_alloc_page, n times: the top n entries go.
Pop(n) == /\ n <= count
          /\ count' = count - n
          /\ free_blocks' = [i \in 0 .. (count - n - 1) |-> free_blocks[i]]

\* pmm_alloc_contiguous: one page is popped; several are the first n entries,
\* from the bottom, that follow each other in memory.
\* (mutant) the comparison of the last pair is left out.
IsRunShort(i, n) == \A j \in 0 .. (n - 2) :
                        free_blocks[i + j] = free_blocks[i] + j

IsRun(i, n) == \A j \in 0 .. (n - 1) :
                   free_blocks[i + j] = free_blocks[i] + j

GrantedAt(n, i) ==
    /\ i + n <= count
    /\ IF n = 1 THEN i = count - 1
       ELSE IsRun(i, n) /\ \A k \in 0 .. (i - 1) : ~IsRun(k, n)

\* (mutant) the shift starts one entry late.
CutRunLate(i, n) == /\ count' = count - n
                    /\ free_blocks' =
                         [k \in 0 .. (count - n - 1) |->
                            free_blocks[IF k <= i THEN k ELSE k + n]]

CutRun(i, n) == /\ count' = count - n
                /\ free_blocks' = [k \in 0 .. (count - n - 1) |->
                                     free_blocks[IF k < i THEN k ELSE k + n]]

\* pmm_free_page on each page of a sequence: a full list drops the page.
Push(f, g) ==
    LET room == MaxFreeBlocks - count
        kept == IF room >= 2 THEN 2 ELSE room
    IN  /\ count' = count + kept
        /\ free_blocks' = [i \in 0 .. (count + kept - 1) |->
                             IF i < count THEN free_blocks[i]
                             ELSE IF i = count THEN f ELSE g]

-----------------------------------------------------------------------------
(* The users. *)

\* igpu_init, before the first malloc: the emulator's page tables, and with a
\* GPU the ring and as many further tables as its BARs need.  (That igputest
\* comes later still is not said.)
IgpuTakes == /\ count > 0 /\ test = <<>>
             /\ \A f \in Frames : holder[f] # "heap"
             /\ Pop(1)
             /\ holder' = [holder EXCEPT ![Top] = "igpu"]
             /\ UNCHANGED test

\* request_space: the heap takes the n pages from the address it is given on.
HeapTakes(n, i) ==
    /\ test = <<>> /\ GrantedAt(n, i)
    /\ CutRun(i, n)
    /\ holder' = [f \in Frames |->
                    IF f \in free_blocks[i] .. (free_blocks[i] + n - 1)
                    THEN "heap" ELSE holder[f]]
    /\ UNCHANGED test

\* (mutant) only the first of the two pages is tested for NULL, which is
\* address 0.
TestTakesOne ==
    /\ test = <<>> /\ count >= 1
    /\ LET w == Top
           c == IF count >= 2 THEN free_blocks[count - 2] ELSE 0
       IN  /\ test' = <<w, c>>
           /\ holder' = [f \in Frames |->
                           IF f \in {w, c} THEN "test" ELSE holder[f]]
    /\ Pop(IF count >= 2 THEN 2 ELSE 1)

\* igputest: the weights page first, then the control page.  With one page
\* left it frees that one again and gives up, which changes nothing.
TestTakes == /\ test = <<>> /\ count >= 2
             /\ LET w == Top
                    c == free_blocks[count - 2]
                IN  /\ test' = <<w, c>>
                    /\ holder' = [holder EXCEPT ![w] = "test", ![c] = "test"]
             /\ Pop(2)

\* It frees them in the order in which it took them.
TestFrees == /\ test # <<>>
             /\ Push(test[1], test[2])
             /\ holder' = [holder EXCEPT ![test[1]] = "pmm",
                                         ![test[2]] = "pmm"]
             /\ test' = <<>>

Next == \/ IgpuTakes
        \/ \E n \in 1 .. MaxRun, i \in 0 .. (count - 1) : HeapTakes(n, i)
        \/ TestTakes \/ TestFrees

Spec == Init /\ [][Next]_vars

-----------------------------------------------------------------------------
(* Properties. *)

Index == 0 .. (count - 1)

\* The variables' types; igputest works with two pages of the list.
TypeOK == /\ count \in 0 .. MaxFreeBlocks
          /\ free_blocks \in [Index -> Frames]
          /\ holder \in [Frames -> {"pmm", "igpu", "heap", "test"}]
          /\ test \in {<<>>} \cup (Frames \X Frames)

\* The list holds every page nobody has, once, and no other: no page is handed
\* out twice, none is lost, and the silent drop of pmm_free_page on a full
\* list is never reached.
ListIsExact ==
    /\ \A i, j \in Index : free_blocks[i] = free_blocks[j] => i = j
    /\ {free_blocks[i] : i \in Index} = {f \in Frames : holder[f] = "pmm"}

\* The pages igputest will free are the ones it took.
TestHolds ==
    {f \in Frames : holder[f] = "test"} =
        (IF test = <<>> THEN {} ELSE {test[1], test[2]})

\* The allocator gives each frame to one user at a time.
Abstract == INSTANCE FrameSet WITH Users <- {"igpu", "heap", "test"}

ImplementsFrameSet == Abstract!Spec

=============================================================================
