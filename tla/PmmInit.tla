------------------------------ MODULE PmmInit -------------------------------
(***************************************************************************)
(* pmm_init of malloc.c: the walk over the memory map that fills           *)
(* free_blocks, the list PageFrames starts from.                           *)
(*                                                                         *)
(* Addresses are counted in units that divide a 2 MB block; a range is     *)
(* [start, end).  The three boot protocols differ in how the map and the   *)
(* modules are found (BootLoader); the walk is the same in all of them.    *)
(***************************************************************************)
EXTENDS Integers, Sequences, FiniteSets

CONSTANTS FrameUnits,     \* PAGE_SIZE_2MB, in units
          LowEnd,         \* 0x100000
          KernelEnd,      \* the linker's _kernel_end
          MaxFreeBlocks,  \* MAX_FREE_BLOCKS
          DefaultBlocks,  \* blocks listed when there is no map: 64
          Rank            \* by start address: the firmware's order of the map

ASSUME PmmAssumption ==
    /\ FrameUnits \in Nat \ {0}
    /\ LowEnd \in Nat /\ KernelEnd \in Nat /\ LowEnd < KernelEnd
    /\ MaxFreeBlocks \in Nat /\ DefaultBlocks \in 0 .. MaxFreeBlocks

VARIABLES
    phase,        \* "loader", "pmm", "kernel"; "returned" to the firmware;
                  \* "undone": a call through NULL
    entries,      \* the map the kernel was given
    hasMap,       \* FALSE: multiboot without a memory map
    modules,      \* ranges of the model and the instruct file, or of the initrd
    todo,         \* entries the walk has not come to
    current,      \* the entry being cut into blocks, as a set of at most one
    block,        \* the loop's block
    free_blocks   \* the list

pmmVars == <<todo, current, block, free_blocks>>

Stretch(s, n) == [start |-> s, end |-> s + n]
In(a, r) == r.start <= a /\ a < r.end

RoundUp(a) == ((a + FrameUnits - 1) \div FrameUnits) * FrameUnits
RoundDown(a) == (a \div FrameUnits) * FrameUnits

\* (mutant) the module's last byte is taken for its end.
SkipsModuleShort(b) == \/ b < LowEnd \/ b < KernelEnd
                       \/ \E m \in modules : m.start <= b /\ b + 1 < m.end

\* What the loop passes over: it looks at a block's first byte only.
Skips(b) == \/ b < LowEnd \/ b < KernelEnd
            \/ \E m \in modules : In(b, m)

\* (mutant) the start is rounded the wrong way.
EnterEntryDown(e) ==
    /\ phase = "pmm" /\ hasMap /\ current = {}
    /\ e \in todo /\ \A o \in todo : Rank[e.start] <= Rank[o.start]
    /\ todo' = todo \ {e}
    /\ current' = IF e.usable THEN {e} ELSE {}
    /\ block' = RoundDown(e.start)
    /\ UNCHANGED <<phase, free_blocks>>

\* The entries come in the order the firmware has them.
EnterEntry(e) ==
    /\ phase = "pmm" /\ hasMap /\ current = {}
    /\ e \in todo /\ \A o \in todo : Rank[e.start] <= Rank[o.start]
    /\ todo' = todo \ {e}
    /\ current' = IF e.usable THEN {e} ELSE {}
    /\ block' = RoundUp(e.start)
    /\ UNCHANGED <<phase, free_blocks>>

ListBlock(e) ==
    /\ phase = "pmm" /\ e \in current /\ block < RoundDown(e.end)
    /\ ~ Skips(block) /\ Len(free_blocks) < MaxFreeBlocks
    /\ free_blocks' = Append(free_blocks, block)
    /\ block' = block + FrameUnits
    /\ UNCHANGED <<phase, todo, current>>

SkipBlock(e) ==
    /\ phase = "pmm" /\ e \in current /\ block < RoundDown(e.end)
    /\ Skips(block)
    /\ block' = block + FrameUnits
    /\ UNCHANGED <<phase, todo, current, free_blocks>>

\* The loop's condition fails, or the list is full: the next entry is tried
\* all the same.
LeaveEntry(e) ==
    /\ phase = "pmm" /\ e \in current
    /\ \/ block >= RoundDown(e.end)
       \/ ~ Skips(block) /\ Len(free_blocks) = MaxFreeBlocks
    /\ current' = {}
    /\ UNCHANGED <<phase, todo, block, free_blocks>>

EndOfMap == /\ phase = "pmm" /\ hasMap /\ todo = {} /\ current = {}
            /\ phase' = "kernel"
            /\ UNCHANGED pmmVars

\* No map: blocks behind the kernel and the module, RAM or not.
GuessMap ==
    /\ phase = "pmm" /\ ~ hasMap
    /\ LET ends == {KernelEnd} \cup {m.end : m \in modules}
           first == RoundUp(CHOOSE a \in ends : \A b \in ends : b <= a)
       IN  free_blocks' = [i \in 1 .. DefaultBlocks |->
                             first + (i - 1) * FrameUnits]
    /\ phase' = "kernel"
    /\ UNCHANGED <<todo, current, block>>

PmmInit == /\ \/ \E e \in todo : EnterEntry(e)
              \/ \E e \in current :
                     ListBlock(e) \/ SkipBlock(e) \/ LeaveEntry(e)
              \/ EndOfMap \/ GuessMap
           /\ UNCHANGED <<entries, hasMap, modules>>

-----------------------------------------------------------------------------
(* Properties. *)

Listed == {free_blocks[i] : i \in DOMAIN free_blocks}
Frame(b) == b .. (b + FrameUnits - 1)

Aligned(b) == b % FrameUnits = 0

\* The blocks the map promises: whole in one usable entry, beginning behind
\* the kernel and in no module.
Due == {b \in UNION {e.start .. e.end : e \in {f \in entries : f.usable}} :
           /\ Aligned(b) /\ KernelEnd <= b /\ \A m \in modules : ~ In(b, m)
           /\ \E e \in entries :
                 e.usable /\ e.start <= b /\ b + FrameUnits <= e.end}

\* With a map, the allocator starts from what PageFrames starts from: a list
\* without repetition, of promised blocks only, and of all of them unless the
\* array is full.
ListMatchesMap ==
    /\ Len(free_blocks) <= MaxFreeBlocks
    /\ phase = "kernel" /\ hasMap =>
        /\ Cardinality(Listed) = Len(free_blocks)
        /\ Listed \subseteq Due
        /\ Listed = Due \/ Len(free_blocks) = MaxFreeBlocks

\* From the first block boundary in it on, a module is the allocator's in no
\* block, and no block overlaps the kernel.
ModuleBodiesAreKept ==
    phase = "kernel" =>
        \A b \in Listed :
            /\ KernelEnd <= b
            /\ \A m \in modules : \A a \in Frame(b) :
                  In(a, m) => a < RoundUp(m.start)

\* No module is the allocator's at all.  The loop looks at a block's first
\* byte only (malloc.c:70), so one that ends in a module's head is listed.
ModulesAreKept ==
    phase = "kernel" =>
        \A b \in Listed : \A m \in modules : \A a \in Frame(b) : ~ In(a, m)
=============================================================================
