-------------------------------- MODULE Heap --------------------------------
(***************************************************************************)
(* The heap of malloc.c over the page allocator: malloc, free, realloc.    *)
(*                                                                         *)
(* The heap is one list of blocks.  A block is a header followed by its    *)
(* payload.  When no free block is large enough, a fresh run of pages is   *)
(* taken and becomes one block at the END of the list, wherever the pages  *)
(* lie.  free joins every block with its successor IN THE LIST when both   *)
(* are free.  Pages are never returned.                                    *)
(*                                                                         *)
(* Everything runs on the boot core; between heap calls the shell may run  *)
(* igputest, which reorders the page list.  Memory is measured in words of *)
(* eight bytes; what blocks contain is left out.                           *)
(***************************************************************************)
EXTENDS Naturals, SequencesExt

CONSTANTS Frames, MaxFreeBlocks, MaxRun,   \* see PageFrames
          PageSize,   \* words in a page
          Header,     \* words in a struct malloc_header
          Align,      \* words a request is rounded up to
          Requests,   \* the sizes asked for
          MaxLive     \* bound: blocks in use at a time

VARIABLES
    free_blocks, count, holder, test,   \* the page allocator
    heap,       \* the list from heap_start: [addr, size, free] of each block
    live        \* what callers hold: [ptr, size] of each allocation

pageVars == <<free_blocks, count, holder, test>>
vars == <<pageVars, heap, live>>

Pages == INSTANCE PageFrames

ASSUME HeapAssumption ==
    /\ Pages!FramesAssumption
    /\ PageSize \in Nat /\ Header \in Nat \ {0} /\ Align \in Nat \ {0}
    /\ Header + Align <= PageSize
    /\ Requests \subseteq Nat \ {0} /\ MaxLive \in Nat

Init == Pages!Init /\ heap = <<>> /\ live = {}

-----------------------------------------------------------------------------
(* The list. *)

Rounded(size) == ((size + Align - 1) \div Align) * Align

Payload(b) == b.addr + Header
Past(b) == Payload(b) + b.size

\* The first block that will do, or 0.
FirstFit(s) == SelectInSeq(heap, LAMBDA b : b.free /\ b.size >= s)

\* (mutant) the new header takes nothing away from what is left over.
CarveKeepsHeader(i, s) ==
    LET b == heap[i]
        rest == [addr |-> Payload(b) + s, size |-> b.size - s, free |-> TRUE]
    IN  IF b.size >= s + Header + Align
        THEN SubSeq(heap, 1, i - 1)
             \o <<[b EXCEPT !.size = s, !.free = FALSE], rest>>
             \o SubSeq(heap, i + 1, Len(heap))
        ELSE [heap EXCEPT ![i].free = FALSE]

\* Block i is taken; what is left over becomes a block of its own if there is
\* room for a header and the smallest payload.
Carve(i, s) ==
    LET b == heap[i]
        rest == [addr |-> Payload(b) + s, size |-> b.size - s - Header,
                 free |-> TRUE]
    IN  IF b.size >= s + Header + Align
        THEN SubSeq(heap, 1, i - 1)
             \o <<[b EXCEPT !.size = s, !.free = FALSE], rest>>
             \o SubSeq(heap, i + 1, Len(heap))
        ELSE [heap EXCEPT ![i].free = FALSE]

\* (mutant) the division rounds down.
PagesNeededBelow(s) == (s + Header) \div PageSize

\* request_space: n pages from frame f as one block.
PagesNeeded(s) == (s + Header + PageSize - 1) \div PageSize

\* (mutant) the header is not counted.
RegionWhole(f, n) == [addr |-> f * PageSize, size |-> n * PageSize,
                      free |-> FALSE]

Region(f, n) == [addr |-> f * PageSize, size |-> n * PageSize - Header,
                 free |-> FALSE]

\* (mutant) nothing is joined.
JoinNever(list, b) == Append(list, b)

\* (mutant) a free block swallows its successor, free or not.
JoinNext(list, b) ==
    IF list # <<>> /\ Last(list).free
    THEN [list EXCEPT ![Len(list)].size = @ + Header + b.size]
    ELSE Append(list, b)

\* (mutant) a free block is joined to whatever precedes it.
JoinAny(list, b) ==
    IF list # <<>> /\ b.free
    THEN [list EXCEPT ![Len(list)].size = @ + Header + b.size]
    ELSE Append(list, b)

\* free's walk from heap_start.  A block that has swallowed its successor is
\* compared with the next one again.
Join(list, b) ==
    IF list # <<>> /\ Last(list).free /\ b.free
    THEN [list EXCEPT ![Len(list)].size = @ + Header + b.size]
    ELSE Append(list, b)

Coalesce(list) ==
    LET joined[n \in 0 .. Len(list)] ==
          IF n = 0 THEN <<>> ELSE Join(joined[n - 1], list[n])
    IN  joined[Len(list)]

Released(list, ptr) ==
    Coalesce([i \in DOMAIN list |->
                IF Payload(list[i]) = ptr THEN [list[i] EXCEPT !.free = TRUE]
                                          ELSE list[i]])

-----------------------------------------------------------------------------
(* The calls. *)

\* malloc returns a pointer: After is what the caller goes on to do with the
\* list, and Owned what is in use when it is done.  When there is neither a
\* block nor a run of pages malloc returns NULL and nothing changes.
Obtain(s, After(_), Owned(_)) ==
    LET i == FirstFit(s)
        n == PagesNeeded(s)
    IN  \/ /\ i # 0
           /\ heap' = After(Carve(i, s))
           /\ live' = Owned(Payload(heap[i]))
           /\ UNCHANGED pageVars
        \/ /\ i = 0
           /\ \E k \in 0 .. (count - 1) :
                 /\ Pages!HeapTakes(n, k)
                 /\ heap' = After(Append(heap, Region(free_blocks[k], n)))
                 /\ live' = Owned(Payload(Region(free_blocks[k], n)))

Malloc(size) ==
    /\ test = <<>> /\ Cardinality(live) < MaxLive
    /\ Obtain(Rounded(size), LAMBDA list : list,
              LAMBDA p : live \cup {[ptr |-> p, size |-> size]})

Free(a) ==
    /\ test = <<>>
    /\ heap' = Released(heap, a.ptr)
    /\ live' = live \ {a}
    /\ UNCHANGED pageVars

\* realloc keeps a block that is large enough; otherwise it obtains a new one
\* and frees the old.
BlockOf(a) == heap[SelectInSeq(heap, LAMBDA b : Payload(b) = a.ptr)]

ReallocInPlace(a, size) ==
    /\ test = <<>> /\ BlockOf(a).size >= size
    /\ live' = (live \ {a}) \cup {[ptr |-> a.ptr, size |-> size]}
    /\ UNCHANGED <<pageVars, heap>>

ReallocMoves(a, size) ==
    /\ test = <<>> /\ BlockOf(a).size < size
    /\ Obtain(Rounded(size), LAMBDA list : Released(list, a.ptr),
              LAMBDA p : (live \ {a}) \cup {[ptr |-> p, size |-> size]})

IgpuTest == (Pages!TestTakes \/ Pages!TestFrees) /\ UNCHANGED <<heap, live>>

Next == \/ \E size \in Requests : Malloc(size)
        \/ \E a \in live : Free(a)
        \/ \E a \in live, size \in Requests :
              ReallocInPlace(a, size) \/ ReallocMoves(a, size)
        \/ IgpuTest

Spec == Init /\ [][Next]_vars

-----------------------------------------------------------------------------
(* Properties. *)

Block == [addr : Nat, size : Nat, free : BOOLEAN]
Blocks == {heap[i] : i \in DOMAIN heap}
HeapFrames == {f \in Frames : holder[f] = "heap"}

TypeOK == Pages!TypeOK /\ heap \in Seq(Block) /\ live \in SUBSET [ptr : Nat, size : Nat]

\* What callers hold and what the list has in use are the same blocks, one
\* each, and each is as large as was asked for.
LiveIsInUse ==
    /\ {Payload(b) : b \in {c \in Blocks : ~c.free}} = {a.ptr : a \in live}
    /\ \A a, b \in live : a.ptr = b.ptr => a = b
    /\ \A a \in live : BlockOf(a).size >= a.size

\* free leaves no two free blocks side by side in the list, and malloc never
\* creates them.
NoFreeNeighbours ==
    \A i \in 1 .. (Len(heap) - 1) : ~(heap[i].free /\ heap[i + 1].free)

\* The words in a list of blocks, headers included.
Words(list) ==
    LET total[n \in 0 .. Len(list)] ==
          IF n = 0 THEN 0 ELSE total[n - 1] + Header + list[n].size
    IN  total[Len(list)]

\* Splitting and joining lose no memory: the blocks account for every word of
\* the pages the heap has taken.
WordsAreConserved == Words(heap) = Cardinality(HeapFrames) * PageSize

\* A block in use stays where it is, and as large as it is, until its holder
\* gives it up.
LiveBlocksStay ==
    [][\A a \in live \cap live' : BlockOf(a)' = BlockOf(a)]_vars
=============================================================================
