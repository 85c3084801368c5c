----------------------------- MODULE BootLoader -----------------------------
(***************************************************************************)
(* From power-on to a filled page list: efi_main of bootloader.c beside    *)
(* the firmware it runs on, or GRUB with a multiboot header, and pmm_init  *)
(* (PmmInit) on what they hand over.                                       *)
(*                                                                         *)
(* types is the firmware's ledger, contents what was written where.  A     *)
(* boot service that fails ends efi_main, except where the code goes on.   *)
(* The firmware changes its ledger by itself too; that is modelled from    *)
(* the first GetMemoryMap on, since before it a change only makes another  *)
(* map to start from.                                                      *)
(***************************************************************************)
EXTENDS PmmInit

CONSTANTS MemEnd,        \* memory is 0 .. MemEnd - 1
          ReservedEnd,   \* 0x1100000: what the loader reserves for the kernel
          MemoryMaps,    \* ledgers the machine may start with
          Cuts,          \* where the firmware keeps neighbours of a type apart
          ModelSizes, InstructSizes,   \* in units
          ChunkUnits,    \* 32 MB, what one read asks for
          MaxEntries,    \* mmap_entries: 128
          MaxTries,      \* retries: 3
          MaxChanges     \* bound: ledger changes after the first GetMemoryMap

Units == 0 .. MemEnd - 1
Usable == {"conventional", "loaderCode", "loaderData", "bootServices"}
Types == Usable \cup {"reserved"}

ASSUME LoaderAssumption ==
    /\ MemEnd \in Nat /\ ReservedEnd \in 0 .. MemEnd /\ KernelEnd <= ReservedEnd
    /\ MemoryMaps \subseteq [Units -> Types] /\ Cuts \subseteq Units
    /\ Rank \in [Units -> Nat]
    /\ \A a, b \in Units : Rank[a] = Rank[b] => a = b
    /\ ModelSizes \subseteq Nat \ {0} /\ InstructSizes \subseteq Nat \ {0}
    /\ ChunkUnits \in Nat \ {0} /\ MaxEntries \in Nat
    /\ MaxTries \in Nat \ {0} /\ MaxChanges \in Nat

VARIABLES
    step,       \* where efi_main is
    types,      \* per unit: the firmware's type
    contents,   \* per unit: what was last written there
    model,      \* model_phys_addr, model_size
    left,       \* bytes_left
    reserved,   \* whether AllocatePages granted 1 MB to 17 MB
    keyIsFresh, \* map_key is the firmware's
    retries,    \* tries left
    changes     \* ledger changes so far

loaderVars == <<step, types, contents, model, left, reserved,
                keyIsFresh, retries, changes>>
vars == <<phase, entries, hasMap, modules, pmmVars, loaderVars>>

-----------------------------------------------------------------------------
(* The firmware. *)

Free(r) == r.end <= MemEnd /\ \A u \in Units :
                                  In(u, r) => types[u] = "conventional"
Mark(r, t) == [u \in Units |-> IF In(u, r) THEN t ELSE types[u]]
Write(r, c) == [u \in Units |-> IF In(u, r) THEN c ELSE contents[u]]

\* GetMemoryMap's descriptors, in an order of the firmware's; efi_main copies
\* the first MaxEntries and makes usable or not of their types.
Run(s, e) == /\ s < e /\ \A u \in s .. (e - 1) : types[u] = types[s]
             /\ \A u \in (s + 1) .. (e - 1) : u \notin Cuts
             /\ s > 0 => types[s - 1] # types[s] \/ s \in Cuts
             /\ e < MemEnd => types[e] # types[s] \/ e \in Cuts

\* (mutant) runtime memory is taken for usable.
DescriptorsOfAll ==
    {[start |-> p[1], end |-> p[2], usable |-> TRUE] :
        p \in {q \in Units \X (1 .. MemEnd) : Run(q[1], q[2])}}

Descriptors ==
    {[start |-> p[1], end |-> p[2], usable |-> types[p[1]] \in Usable] :
        p \in {q \in Units \X (1 .. MemEnd) : Run(q[1], q[2])}}

FirstEntries ==
    {d \in Descriptors :
        Cardinality({o \in Descriptors : Rank[o.start] < Rank[d.start]})
            < MaxEntries}

-----------------------------------------------------------------------------
(* efi_main. *)

At(s) == phase = "loader" /\ step = s
Goes(s) == step' = s /\ UNCHANGED <<phase, hasMap, pmmVars>>

\* The steps at which a failing service ends it; what was allocated stays.
Refuse == /\ phase = "loader"
          /\ step \in {"scan", "open", "read", "kernel", "copy", "buffer", "map"}
          /\ phase' = "returned"
          /\ UNCHANGED <<entries, hasMap, modules, pmmVars, loaderVars>>

\* The chosen file's volume is opened again, unchecked: if it cannot be had
\* there is no root to call Open through.
LoseVolume == /\ At("scan") /\ phase' = "undone"
              /\ UNCHANGED <<entries, hasMap, modules, pmmVars, loaderVars>>

\* The volumes are searched, a key pressed, the file opened and measured.
SelectModel(size) ==
    /\ At("scan") /\ Goes("open")
    /\ left' = size
    /\ UNCHANGED <<types, contents, model, reserved, keyIsFresh, retries,
                   changes, entries, modules>>

AllocateModel(s) ==
    LET r == Stretch(s, left) IN
    /\ At("open") /\ Free(r) /\ Goes("read")
    /\ model' = r /\ types' = Mark(r, "loaderData")
    /\ UNCHANGED <<contents, left, reserved, keyIsFresh, retries, changes,
                   entries, modules>>

\* (mutant) every read writes to the buffer's beginning.
ReadChunkAtStart(n) ==
    /\ At("read") /\ n <= ChunkUnits /\ n <= left
    /\ contents' = Write(Stretch(model.start, n), "model")
    /\ left' = left - n
    /\ IF n = left THEN Goes("instruct") /\ modules' = {model}
                   ELSE Goes("read") /\ UNCHANGED modules
    /\ UNCHANGED <<types, model, reserved, keyIsFresh, retries, changes,
                   entries>>

\* A read may bring less than was asked for.
ReadChunk(n) ==
    /\ At("read") /\ n <= ChunkUnits /\ n <= left
    /\ contents' = Write(Stretch(model.end - left, n), "model")
    /\ left' = left - n
    /\ IF n = left THEN Goes("instruct") /\ modules' = {model}
                   ELSE Goes("read") /\ UNCHANGED modules
    /\ UNCHANGED <<types, model, reserved, keyIsFresh, retries, changes,
                   entries>>

\* The companion file is optional: no failure ends the boot.  One read, whose
\* length is not looked at; a failing one leaves its pages allocated.
NoInstruct ==
    /\ At("instruct") /\ Goes("kernel")
    /\ UNCHANGED <<types, contents, model, left, reserved, keyIsFresh, retries,
                   changes, entries, modules>>

LoadInstruct(s, size, got, ok) ==
    LET r == Stretch(s, size) IN
    /\ At("instruct") /\ Free(r) /\ got <= size /\ Goes("kernel")
    /\ types' = Mark(r, "loaderData")
    /\ contents' = Write(Stretch(s, got), "instruct")
    /\ modules' = IF ok THEN modules \cup {r} ELSE modules
    /\ UNCHANGED <<model, left, reserved, keyIsFresh, retries, changes, entries>>

\* AllocatePages(AllocateAddress): its status is not looked at.
KernelRange == Stretch(LowEnd, ReservedEnd - LowEnd)

ReserveKernel ==
    /\ At("kernel") /\ Goes("copy")
    /\ reserved' = Free(KernelRange)
    /\ types' = IF reserved' THEN Mark(KernelRange, "loaderCode") ELSE types
    /\ UNCHANGED <<contents, model, left, keyIsFresh, retries, changes,
                   entries, modules>>

\* The segments and their zeroed ends fill the memory up to _kernel_end.
CopySegments ==
    /\ At("copy") /\ Goes("buffer")
    /\ contents' = Write(Stretch(LowEnd, KernelEnd - LowEnd), "kernel")
    /\ UNCHANGED <<types, model, left, reserved, keyIsFresh, retries, changes,
                   entries, modules>>

AllocateMapBuffer(s) ==
    LET r == Stretch(s, 1) IN
    /\ At("buffer") /\ Free(r) /\ Goes("map")
    /\ types' = Mark(r, "loaderData")
    /\ contents' = Write(r, "map")
    /\ UNCHANGED <<model, left, reserved, keyIsFresh, retries, changes,
                   entries, modules>>

GetMemoryMap ==
    /\ At("map") /\ Goes("exit")
    /\ entries' = FirstEntries
    /\ keyIsFresh' = TRUE
    /\ UNCHANGED <<types, contents, model, left, reserved, retries, changes,
                   modules>>

ChangeLedger(u, t) ==
    /\ At("exit") /\ changes < MaxChanges
    /\ \/ types[u] = "conventional" /\ t \in {"bootServices", "reserved"}
       \/ types[u] = "bootServices" /\ t = "conventional"
    /\ types' = [types EXCEPT ![u] = t]
    /\ keyIsFresh' = FALSE /\ changes' = changes + 1
    /\ UNCHANGED <<phase, hasMap, entries, modules, pmmVars,
                   step, contents, model, left, reserved, retries>>

\* The map is fetched again for its key, which may fail unnoticed; the entries
\* are those of the first.
ExitFails ==
    /\ At("exit") /\ ~ keyIsFresh
    /\ keyIsFresh' \in BOOLEAN
    /\ retries' = retries - 1
    /\ phase' = IF retries = 1 THEN "returned" ELSE phase
    /\ UNCHANGED <<hasMap, entries, modules, pmmVars,
                   step, types, contents, model, left, reserved, changes>>

ExitSucceeds ==
    /\ At("exit") /\ keyIsFresh
    /\ phase' = "pmm" /\ todo' = entries
    /\ UNCHANGED <<hasMap, entries, modules, current, block, free_blocks,
                   loaderVars>>

-----------------------------------------------------------------------------
(* GRUB: kernel and module lie in memory the map calls available; the map  *)
(* itself may be missing.                                                  *)

Grub(s, size, map) ==
    LET r == Stretch(s, size) IN
    /\ At("grub") /\ Free(r) /\ KernelEnd <= s
    /\ phase' = "pmm"
    /\ modules' = IF size = 0 THEN {} ELSE {r}
    /\ contents' = Write(r, "module")
    /\ hasMap' = map
    /\ entries' = IF map THEN Descriptors ELSE {}
    /\ todo' = entries'
    /\ UNCHANGED <<current, block, free_blocks, step, types, model, left,
                   reserved, keyIsFresh, retries, changes>>

-----------------------------------------------------------------------------
Init == /\ phase = "loader" /\ step \in {"scan", "grub"}
        /\ types \in MemoryMaps
        /\ contents = [u \in Units |-> IF types[u] = "loaderCode" THEN "loader"
                                       ELSE "nothing"]
        /\ model = Stretch(0, 0) /\ left = 0 /\ reserved = FALSE
        /\ keyIsFresh = FALSE /\ retries = MaxTries /\ changes = 0
        /\ entries = {} /\ hasMap = TRUE /\ modules = {}
        /\ todo = {} /\ current = {} /\ block = 0 /\ free_blocks = <<>>

EfiMain ==
    \/ Refuse \/ LoseVolume
    \/ \E n \in ModelSizes : SelectModel(n)
    \/ \E s \in Units : AllocateModel(s) \/ AllocateMapBuffer(s)
    \/ \E n \in 1 .. left : ReadChunk(n)
    \/ NoInstruct
    \/ \E s \in Units, n \in InstructSizes, ok \in BOOLEAN :
          \E got \in 0 .. n : LoadInstruct(s, n, got, ok)
    \/ ReserveKernel \/ CopySegments \/ GetMemoryMap
    \/ ExitFails \/ ExitSucceeds

Next == \/ EfiMain
        \/ \E u \in Units, t \in Types : ChangeLedger(u, t)
        \/ \E s \in Units, n \in InstructSizes \cup {0}, map \in BOOLEAN :
              Grub(s, n, map)
        \/ PmmInit /\ UNCHANGED loaderVars

Spec == Init /\ [][Next]_vars

-----------------------------------------------------------------------------
(* Properties. *)

Entries == [start : Units, end : 1 .. MemEnd, usable : BOOLEAN]
Steps == {"scan", "open", "read", "instruct", "kernel", "copy", "buffer",
          "map", "exit", "grub"}

TypeOK ==
    /\ phase \in {"loader", "pmm", "kernel", "returned", "undone"}
    /\ step \in Steps
    /\ hasMap \in BOOLEAN /\ reserved \in BOOLEAN /\ keyIsFresh \in BOOLEAN
    /\ types \in [Units -> Types]
    /\ contents \in [Units -> {"nothing", "loader", "model", "instruct",
                               "kernel", "map", "module"}]
    /\ entries \subseteq Entries /\ todo \subseteq entries
    /\ current \subseteq entries
    /\ model.start \in Nat /\ model.end \in 0 .. MemEnd /\ left \in Nat
    /\ \A m \in modules : m.start \in Units /\ m.end \in 1 .. MemEnd
    /\ retries \in 0 .. MaxTries /\ changes \in 0 .. MaxChanges
    /\ block \in Nat /\ Len(free_blocks) <= MaxFreeBlocks
    /\ \A i \in DOMAIN free_blocks : free_blocks[i] \in Nat

\* What the page list holds is memory the firmware has given up for good, if
\* ExitBootServices accepted the map key of the map that was parsed.
FramesAreRam ==
    phase = "kernel" /\ hasMap /\ retries = MaxTries =>
        \A b \in Listed : \A a \in Frame(b) :
            a \in Units /\ types[a] \in Usable

\* The same however often it was tried.  The loader fetches the map again
\* (bootloader.c:469) but hands over the entries of the first.
UsableIsUsable ==
    phase = "kernel" /\ hasMap =>
        \A b \in Listed : \A a \in Frame(b) : types[a] \in Usable

\* When the kernel is entered the whole model is where boot_info says, and
\* the loader's image, which boot_info is part of, is untouched, provided the
\* reservation whose status the code ignores was granted.
ModelArrivesWhole ==
    phase \in {"pmm", "kernel"} /\ step = "exit" /\ reserved =>
        /\ model \in modules
        /\ \A u \in Units :
              /\ In(u, model) => contents[u] = "model"
              /\ types[u] = "loaderCode" /\ ~ In(u, KernelRange) =>
                     contents[u] = "loader"
=============================================================================
