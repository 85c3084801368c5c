------------------------------ MODULE HeapUse -------------------------------
(***************************************************************************)
(* The heap as the kernel uses it.  gguf_init mallocs the model's buffers  *)
(* and never frees them; gguf_generate mallocs two scratch arrays of the   *)
(* vocabulary's length for every token and frees both before the next; the *)
(* shell may run igputest between two prompts.                             *)
(***************************************************************************)
EXTENDS Heap

CONSTANTS BootRequests,   \* the sizes gguf_init asks for, in order
          Scratch         \* words in one scratch array

ASSUME UseAssumption ==
    BootRequests \in Seq(Nat \ {0}) /\ Scratch \in Nat \ {0}

VARIABLES
    step,      \* where the boot core stands
    todo,      \* the buffers gguf_init has still to ask for
    probs,     \* gguf_generate's two arrays: sets of at most one allocation,
    indices,   \* empty for NULL
    warm       \* a token has been sampled from both arrays

useVars == <<vars, step, todo, probs, indices, warm>>

UseInit == /\ Init
           /\ step = "boot" /\ todo = BootRequests
           /\ probs = {} /\ indices = {} /\ warm = FALSE

\* malloc has neither a block nor a run of pages, and returns NULL.
MallocFails(size) ==
    /\ test = <<>> /\ FirstFit(Rounded(size)) = 0
    /\ \A k \in 0 .. (count - 1) : ~Pages!GrantedAt(PagesNeeded(Rounded(size)), k)
    /\ UNCHANGED vars

Asks(size) == Malloc(size) \/ MallocFails(size)
Got == live' \ live

\* Most of gguf_init's buffers are used without a test for NULL.
BootMalloc == /\ step = "boot" /\ todo # <<>>
              /\ Asks(Head(todo)) /\ todo' = Tail(todo)
              /\ UNCHANGED <<step, probs, indices, warm>>

BootDone == /\ step = "boot" /\ todo = <<>> /\ step' = "shell"
            /\ UNCHANGED <<vars, todo, probs, indices, warm>>

ShellTest == /\ step = "shell" /\ IgpuTest
             /\ UNCHANGED <<step, todo, probs, indices, warm>>

MallocProbs == /\ step = "shell" /\ step' = "probs"
               /\ Asks(Scratch) /\ probs' = Got
               /\ UNCHANGED <<todo, indices, warm>>

MallocIndices == /\ step = "probs" /\ step' = "sample"
                 /\ Asks(Scratch) /\ indices' = Got
                 /\ UNCHANGED <<todo, probs, warm>>

\* (mutant) probs is not freed.
FreeProbsForgets == /\ step = "sample" /\ step' = "free"
                    /\ UNCHANGED vars
                    /\ probs' = {}
                    /\ warm' = (warm \/ (probs # {} /\ indices # {}))
                    /\ UNCHANGED <<todo, indices>>

\* With one of them NULL the token is picked greedily; the other is freed.
FreeProbs == /\ step = "sample" /\ step' = "free"
             /\ IF probs = {} THEN UNCHANGED vars ELSE \E a \in probs : Free(a)
             /\ probs' = {}
             /\ warm' = (warm \/ (probs # {} /\ indices # {}))
             /\ UNCHANGED <<todo, indices>>

\* (mutant) indices is not freed.
FreeIndicesForgets == /\ step = "free" /\ step' = "shell"
                      /\ UNCHANGED vars
                      /\ indices' = {}
                      /\ UNCHANGED <<todo, probs, warm>>

FreeIndices == /\ step = "free" /\ step' = "shell"
               /\ IF indices = {} THEN UNCHANGED vars
                                  ELSE \E a \in indices : Free(a)
               /\ indices' = {}
               /\ UNCHANGED <<todo, probs, warm>>

UseNext == BootMalloc \/ BootDone \/ ShellTest \/ MallocProbs \/ MallocIndices
           \/ FreeProbs \/ FreeIndices

UseSpec == UseInit /\ [][UseNext]_useVars

-----------------------------------------------------------------------------
(* Properties. *)

InUse == {b \in Blocks : ~b.free}

\* What is stored of a block: its header, by malloc, and the payload, by the
\* kernel, if the block is in use.
Stored(b) == IF b.free THEN Payload(b) ELSE Past(b)

\* Every word that malloc or the kernel stores in a block lies in a page the
\* heap has taken, and no two blocks share one.  free does make blocks that
\* run out of their pages; the scratch arrays are cut from the front of them,
\* and malloc leaves the header of the rest behind the second.
StoredInOwnPages ==
    /\ \A b \in Blocks :
          (b.addr \div PageSize) .. ((Stored(b) - 1) \div PageSize)
              \subseteq HeapFrames
    /\ \A i, j \in DOMAIN heap :
          i # j => \/ Stored(heap[i]) <= heap[j].addr
                   \/ Stored(heap[j]) <= heap[i].addr

\* Between two tokens only the model's buffers are in use.
NothingLeaks ==
    step = "shell" => /\ probs = {} /\ indices = {}
                      /\ Cardinality(live) <= Len(BootRequests)
                      /\ Cardinality(InUse) = Cardinality(live)

\* Once one token has had its two arrays, no token takes another page, nor is
\* refused its arrays.
WarmHeapSuffices ==
    [][warm => /\ UNCHANGED holder \/ step = "shell"
               /\ HeapFrames' = HeapFrames
               /\ step = "probs" => indices' # {}
               /\ step = "shell" /\ step' = "probs" => probs' # {}]_useVars
=============================================================================
