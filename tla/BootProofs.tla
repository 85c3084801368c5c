----------------------------- MODULE BootProofs -----------------------------
(***************************************************************************)
(* That pmm_init lists whole usable frames, none of a module from its      *)
(* first block boundary on, and each block the map promises once, in       *)
(* whatever order the map comes; and that the model reaches the kernel     *)
(* whole if the kernel's place was granted; for any memory map, any sizes  *)
(* and any behaviour of the firmware.                                      *)
(***************************************************************************)
EXTENDS BootLoader, FiniteSetTheorems, TLAPS

-----------------------------------------------------------------------------
(* Rounding. *)

LEMMA Division ==
    ASSUME NEW a \in Int
    PROVE  /\ a \div FrameUnits \in Int
           /\ (a \div FrameUnits) * FrameUnits <= a
           /\ a < (a \div FrameUnits) * FrameUnits + FrameUnits
BY PmmAssumption

LEMMA RoundsUp ==
    ASSUME NEW a \in Int
    PROVE  RoundUp(a) \in Int /\ a <= RoundUp(a) /\ Aligned(RoundUp(a))
<1> DEFINE q == (a + FrameUnits - 1) \div FrameUnits
<1>1. FrameUnits \in Int /\ FrameUnits > 0 /\ a + FrameUnits - 1 \in Int
  BY PmmAssumption
<1>2. q \in Int /\ a + FrameUnits - 1 < q * FrameUnits + FrameUnits
  BY <1>1, Division
<1>3. RoundUp(a) = q * FrameUnits
  BY DEF RoundUp
<1> HIDE DEF q
<1>4. q * FrameUnits \in Int
  BY <1>1, <1>2
<1>5. (q * FrameUnits) % FrameUnits = 0
  BY <1>1, <1>2
<1>6. QED
  BY <1>1, <1>2, <1>3, <1>4, <1>5 DEF Aligned

\* A block that begins before the last whole block's end, ends before it.
LEMMA BlockFits ==
    ASSUME NEW b \in Int, NEW e \in Int, Aligned(b), b < RoundDown(e)
    PROVE  b + FrameUnits <= e
<1> DEFINE j == e \div FrameUnits
           k == b \div FrameUnits
<1>1. FrameUnits \in Int /\ FrameUnits > 0
  BY PmmAssumption
<1>2. j \in Int /\ k \in Int /\ j * FrameUnits <= e /\ b < j * FrameUnits
  BY Division DEF RoundDown
<1>3. b = k * FrameUnits
  BY <1>1 DEF Aligned
<1> HIDE DEF j, k
<1>4. k < j
  <2>1. SUFFICES ASSUME k >= j PROVE FALSE
    BY <1>2
  <2>2. (k - j) * FrameUnits >= 0
    BY <2>1, <1>1, <1>2
  <2>3. (k - j) * FrameUnits = k * FrameUnits - j * FrameUnits
    BY <1>1, <1>2
  <2>4. k * FrameUnits \in Int /\ j * FrameUnits \in Int
    BY <1>1, <1>2
  <2>5. QED
    BY <2>2, <2>3, <2>4, <1>2, <1>3
<1>5. (j - k - 1) * FrameUnits >= 0
  BY <1>1, <1>2, <1>4
<1>6. (j - k - 1) * FrameUnits = j * FrameUnits - k * FrameUnits - FrameUnits
  BY <1>1, <1>2
<1>7. k * FrameUnits \in Int /\ j * FrameUnits \in Int
  BY <1>1, <1>2
<1>8. QED
  BY <1>1, <1>2, <1>3, <1>5, <1>6, <1>7

LEMMA AlignedNext ==
    ASSUME NEW a \in Int, NEW b \in Int, Aligned(a), Aligned(b), a < b
    PROVE  a + FrameUnits <= b
<1> DEFINE j == a \div FrameUnits
           k == b \div FrameUnits
<1>1. FrameUnits \in Int /\ FrameUnits > 0
  BY PmmAssumption
<1>2. j \in Int /\ k \in Int /\ a = j * FrameUnits /\ b = k * FrameUnits
  BY <1>1 DEF Aligned
<1> HIDE DEF j, k
<1>3. j < k
  <2>1. SUFFICES ASSUME j >= k PROVE FALSE
    BY <1>2
  <2>2. (j - k) * FrameUnits >= 0
    BY <2>1, <1>1, <1>2
  <2>3. (j - k) * FrameUnits = j * FrameUnits - k * FrameUnits
    BY <1>1, <1>2
  <2>4. QED
    BY <2>2, <2>3, <1>2
<1>4. (k - j - 1) * FrameUnits >= 0
  BY <1>1, <1>2, <1>3
<1>5. (k - j - 1) * FrameUnits = k * FrameUnits - j * FrameUnits - FrameUnits
  BY <1>1, <1>2
<1>6. QED
  BY <1>1, <1>2, <1>4, <1>5

\* Every later block is aligned too.
LEMMA AlignedLater ==
    ASSUME NEW a \in Int, NEW i \in Int
    PROVE  Aligned(RoundUp(a) + i * FrameUnits)
<1> DEFINE q == (a + FrameUnits - 1) \div FrameUnits
<1>1. FrameUnits \in Int /\ FrameUnits > 0 /\ a + FrameUnits - 1 \in Int
  BY PmmAssumption
<1>2. q \in Int
  BY <1>1, Division
<1>3. RoundUp(a) = q * FrameUnits
  BY DEF RoundUp
<1> HIDE DEF q
<1>4. q * FrameUnits + i * FrameUnits = (q + i) * FrameUnits /\ q + i \in Int
  BY <1>1, <1>2
<1>5. \A j \in Int : (j * FrameUnits) % FrameUnits = 0
  BY <1>1
<1>6. QED
  BY <1>3, <1>4, <1>5 DEF Aligned

-----------------------------------------------------------------------------
(* The invariant. *)

Ranges == [start : Int, end : Int, usable : BOOLEAN]

\* What the loader hands over, and the walk's place in it.
Handed ==
    /\ entries \subseteq Ranges /\ todo \subseteq entries
    /\ current \subseteq entries
    /\ left \in Int /\ model.start \in Int /\ model.end \in Int
    /\ \A m \in modules : m.start \in Int /\ m.end \in Int
    /\ hasMap \in BOOLEAN
    /\ ~ hasMap => phase # "loader" /\ \E r : modules \subseteq {r}
    /\ \A e \in current : /\ e.usable /\ block \in Int
                          /\ Aligned(block) /\ e.start <= block
    /\ phase = "loader" => free_blocks = <<>> /\ todo = {} /\ current = {}

Behind(b) == /\ b \in Int /\ KernelEnd <= b
             /\ \A m \in modules : ~ In(b, m)

Promised(b) == \E e \in entries : /\ e.usable /\ e.start <= b
                                  /\ b + FrameUnits <= e.end

ListIsGood ==
    /\ free_blocks \in Seq(Int)
    /\ \A i \in DOMAIN free_blocks :
          /\ Behind(free_blocks[i]) /\ Aligned(free_blocks[i])
          /\ hasMap => Promised(free_blocks[i])

\* The map that was parsed is the firmware's as long as its key is accepted.
MapIsCurrent ==
    /\ retries \in Int /\ retries <= MaxTries
    /\ (/\ hasMap /\ retries = MaxTries
        /\ phase \in {"pmm", "kernel"} \/ (At("exit") /\ keyIsFresh))
       => entries \subseteq Descriptors

BootInv == Handed /\ ListIsGood /\ MapIsCurrent

LEMMA DescriptorsAreRanges == Descriptors \subseteq Ranges
<1>1. Units \subseteq Int /\ 1 .. MemEnd \subseteq Int
  BY LoaderAssumption DEF Units
<1>2. ASSUME NEW d \in Descriptors PROVE d \in Ranges
  <2>1. PICK p \in Units \X (1 .. MemEnd) :
           d = [start |-> p[1], end |-> p[2], usable |-> types[p[1]] \in Usable]
    BY <1>2 DEF Descriptors
  <2>2. p[1] \in Int /\ p[2] \in Int
    BY <1>1
  <2>3. (types[p[1]] \in Usable) \in BOOLEAN
    OBVIOUS
  <2>4. QED
    BY <2>1, <2>2, <2>3 DEF Ranges
<1>3. QED
  BY <1>2

LEMMA BootInit == Init => BootInv
<1> SUFFICES ASSUME Init PROVE BootInv
  OBVIOUS
<1>1. Handed
  BY DEF Init, Handed, Stretch
<1>2. ListIsGood
  BY DEF Init, ListIsGood
<1>3. MapIsCurrent
  BY LoaderAssumption DEF Init, MapIsCurrent, At
<1>4. QED
  BY <1>1, <1>2, <1>3 DEF BootInv

\* A step of the loader lists nothing.
LEMMA LoaderLists ==
    ASSUME BootInv, phase = "loader", UNCHANGED free_blocks
    PROVE  ListIsGood'
<1>1. free_blocks' = <<>>
  BY DEF BootInv, Handed
<1>2. QED
  BY <1>1 DEF ListIsGood

\* Neither does it touch the walk; these steps do not touch the map either.
LEMMA LoaderSteps ==
    ASSUME BootInv, phase = "loader", UNCHANGED <<entries, hasMap, pmmVars, retries>>,
           phase' \in {phase, "returned", "undone"},
           step # "exit", phase' = "loader" => step' # "exit",
           left' \in Int, model'.start \in Int, model'.end \in Int,
           \A m \in modules' : m.start \in Int /\ m.end \in Int
    PROVE  BootInv'
<1>1. ListIsGood'
  BY LoaderLists DEF pmmVars
<1>2. Handed'
  BY DEF BootInv, Handed, pmmVars
<1>3. MapIsCurrent'
  BY DEF BootInv, MapIsCurrent, At
<1>4. QED
  BY <1>1, <1>2, <1>3 DEF BootInv

LEMMA UnitsAreInts == Units \subseteq Int
BY LoaderAssumption DEF Units

LEMMA LoaderNext ==
    ASSUME BootInv, EfiMain
    PROVE  BootInv'
<1>1. /\ phase = "loader" /\ left \in Int /\ model.start \in Int
      /\ model.end \in Int
      /\ \A m \in modules : m.start \in Int /\ m.end \in Int
      /\ hasMap \in BOOLEAN
  BY DEF BootInv, Handed, EfiMain, Refuse, SelectModel, AllocateModel,
         AllocateMapBuffer, ReadChunk, NoInstruct, LoadInstruct, ReserveKernel,
         CopySegments, GetMemoryMap, ExitFails, ExitSucceeds, LoseVolume, At
<1>2. CASE Refuse \/ LoseVolume
  <2>1. step # "exit" /\ phase' \in {"returned", "undone"} /\ step' = step
        /\ UNCHANGED <<entries, hasMap, pmmVars, modules, left, model, retries>>
    BY <1>2 DEF Refuse, LoseVolume, At, loaderVars
  <2>2. QED
    BY <1>1, <2>1, LoaderSteps
<1>3. CASE \/ \E n \in ModelSizes : SelectModel(n)
           \/ \E s \in Units : AllocateMapBuffer(s)
           \/ NoInstruct \/ ReserveKernel \/ CopySegments
  <2>1. left' \in Int
    BY <1>1, <1>3, LoaderAssumption
       DEF SelectModel, AllocateMapBuffer, NoInstruct, ReserveKernel,
           CopySegments
  <2>2. step # "exit" /\ phase' = phase /\ step' # "exit"
        /\ UNCHANGED <<entries, hasMap, pmmVars, modules, model, retries>>
    BY <1>3 DEF SelectModel, AllocateMapBuffer, NoInstruct, ReserveKernel,
                CopySegments, Goes, At
  <2>3. QED
    BY <1>1, <2>1, <2>2, LoaderSteps
<1>4. ASSUME NEW s \in Units, AllocateModel(s) PROVE BootInv'
  <2>1. model'.start \in Int /\ model'.end \in Int
    BY <1>1, <1>4, UnitsAreInts DEF AllocateModel, Stretch
  <2>2. step # "exit" /\ phase' = phase /\ step' # "exit"
        /\ UNCHANGED <<entries, hasMap, pmmVars, modules, left, retries>>
    BY <1>4 DEF AllocateModel, Goes, At
  <2>3. QED
    BY <1>1, <2>1, <2>2, LoaderSteps
<1>5. ASSUME NEW n \in 1 .. left, ReadChunk(n) PROVE BootInv'
  <2>1. left' \in Int /\ \A m \in modules' : m.start \in Int /\ m.end \in Int
    BY <1>1, <1>5 DEF ReadChunk
  <2>2. step # "exit" /\ phase' = phase /\ step' # "exit"
        /\ UNCHANGED <<entries, hasMap, pmmVars, model, retries>>
    BY <1>5 DEF ReadChunk, Goes, At
  <2>3. QED
    BY <1>1, <2>1, <2>2, LoaderSteps
<1>6. ASSUME NEW s \in Units, NEW n \in InstructSizes, NEW ok \in BOOLEAN,
             NEW got \in 0 .. n, LoadInstruct(s, n, got, ok)
      PROVE  BootInv'
  <2>1. \A m \in modules' : m.start \in Int /\ m.end \in Int
    <3>1. s \in Int /\ n \in Int
      BY UnitsAreInts, LoaderAssumption
    <3>2. Stretch(s, n).start \in Int /\ Stretch(s, n).end \in Int
      BY <3>1 DEF Stretch
    <3>3. QED
      BY <1>1, <1>6, <3>2 DEF LoadInstruct
  <2>2. step # "exit" /\ phase' = phase /\ step' # "exit"
        /\ UNCHANGED <<entries, hasMap, pmmVars, model, left, retries>>
    BY <1>6 DEF LoadInstruct, Goes, At
  <2>3. QED
    BY <1>1, <2>1, <2>2, LoaderSteps
<1>7. CASE GetMemoryMap
  <2>1. entries' \subseteq Descriptors /\ types' = types
    BY <1>7 DEF GetMemoryMap, FirstEntries
  <2>2. Descriptors' = Descriptors
    BY <2>1 DEF Descriptors, Run
  <2>3. UNCHANGED <<phase, hasMap, pmmVars, left, model, modules, retries>>
    BY <1>7 DEF GetMemoryMap, Goes
  <2>4. Handed'
    BY <1>1, <2>1, <2>3, DescriptorsAreRanges DEF BootInv, Handed, pmmVars
  <2>5. MapIsCurrent'
    BY <2>1, <2>2, <2>3 DEF BootInv, MapIsCurrent
  <2>6. QED
    BY <1>1, <2>3, <2>4, <2>5, LoaderLists DEF BootInv, pmmVars
<1>8. CASE ExitFails
  <2>1. retries' = retries - 1
        /\ phase' \in {"loader", "returned"}
        /\ UNCHANGED <<hasMap, entries, modules, pmmVars, left, model>>
    BY <1>1, <1>8 DEF ExitFails
  <2>2. Handed'
    BY <1>1, <2>1 DEF BootInv, Handed, pmmVars
  <2>3. MapIsCurrent'
    BY <2>1, LoaderAssumption DEF BootInv, MapIsCurrent
  <2>4. QED
    BY <1>1, <2>1, <2>2, <2>3, LoaderLists DEF BootInv, pmmVars
<1>9. CASE ExitSucceeds
  <2>1. /\ phase' = "pmm" /\ todo' = entries /\ At("exit") /\ keyIsFresh
        /\ UNCHANGED <<hasMap, entries, modules, current, block, free_blocks,
                       types, left, model, retries>>
    BY <1>9 DEF ExitSucceeds, loaderVars
  <2>2. Handed'
    BY <1>1, <2>1 DEF BootInv, Handed
  <2>3. Descriptors' = Descriptors
    BY <2>1 DEF Descriptors, Run
  <2>4. MapIsCurrent'
    BY <1>1, <2>1, <2>3 DEF BootInv, MapIsCurrent
  <2>5. QED
    BY <1>1, <2>1, <2>2, <2>4, LoaderLists DEF BootInv
<1>10. QED
  BY <1>2, <1>3, <1>4, <1>5, <1>6, <1>7, <1>8, <1>9 DEF EfiMain

LEMMA FirmwareNext ==
    ASSUME BootInv, NEW u \in Units, NEW t \in Types, ChangeLedger(u, t)
    PROVE  BootInv'
<1>1. /\ phase = "loader" /\ keyIsFresh' = FALSE
      /\ UNCHANGED <<phase, hasMap, entries, modules, pmmVars, step, model, left,
                     retries>>
  BY DEF ChangeLedger, At
<1>2. Handed'
  BY <1>1 DEF BootInv, Handed, pmmVars
<1>3. MapIsCurrent'
  BY <1>1 DEF BootInv, MapIsCurrent
<1>4. QED
  BY <1>1, <1>2, <1>3, LoaderLists DEF BootInv, pmmVars

LEMMA GrubNext ==
    ASSUME BootInv, NEW s \in Units, NEW n \in InstructSizes \cup {0},
           NEW map \in BOOLEAN, Grub(s, n, map)
    PROVE  BootInv'
<1> DEFINE r == Stretch(s, n)
<1>1. /\ phase = "loader" /\ phase' = "pmm" /\ modules' \subseteq {r}
      /\ hasMap' = map /\ entries' = (IF map THEN Descriptors ELSE {})
      /\ todo' = entries'
      /\ UNCHANGED <<current, block, free_blocks, types, model, left, retries>>
  BY DEF Grub, At
<1>2. r.start \in Int /\ r.end \in Int
  BY UnitsAreInts, LoaderAssumption DEF Stretch
<1>3. Handed'
  BY <1>1, <1>2, DescriptorsAreRanges DEF BootInv, Handed
<1>4. Descriptors' = Descriptors
  BY <1>1 DEF Descriptors, Run
<1>5. MapIsCurrent'
  BY <1>1, <1>4 DEF BootInv, MapIsCurrent
<1>6. QED
  BY <1>1, <1>3, <1>5, LoaderLists DEF BootInv

-----------------------------------------------------------------------------
(* The walk. *)

LEMMA WalkNext ==
    ASSUME BootInv, PmmInit, UNCHANGED loaderVars
    PROVE  BootInv'
<1>1. /\ phase = "pmm"
      /\ UNCHANGED <<entries, hasMap, modules, types, left, model, retries>>
      /\ Handed /\ ListIsGood
  BY DEF BootInv, PmmInit, EnterEntry, ListBlock, SkipBlock, LeaveEntry,
         EndOfMap, GuessMap, loaderVars
<1>2. Descriptors' = Descriptors
  BY <1>1 DEF Descriptors, Run
<1>3. phase' \in {"pmm", "kernel"}
  BY <1>1 DEF PmmInit, EnterEntry, ListBlock, SkipBlock, LeaveEntry, EndOfMap,
              GuessMap
<1>4. MapIsCurrent'
  BY <1>1, <1>2, <1>3 DEF BootInv, MapIsCurrent
<1>5. FrameUnits \in Int /\ FrameUnits > 0
  BY PmmAssumption
<1>6. ASSUME NEW e \in todo, EnterEntry(e) PROVE BootInv'
  <2>1. e \in Ranges
    BY <1>1 DEF Handed
  <2>2. RoundUp(e.start) \in Int /\ e.start <= RoundUp(e.start)
        /\ Aligned(RoundUp(e.start))
    BY <2>1, RoundsUp DEF Ranges
  <2>3. /\ todo' = todo \ {e} /\ current' = (IF e.usable THEN {e} ELSE {})
        /\ block' = RoundUp(e.start) /\ UNCHANGED free_blocks
    BY <1>6 DEF EnterEntry
  <2>4. Handed'
    BY <1>1, <1>3, <2>2, <2>3 DEF Handed
  <2>5. ListIsGood'
    BY <1>1, <2>3 DEF ListIsGood, Behind, Promised
  <2>6. QED
    BY <1>4, <2>4, <2>5 DEF BootInv
<1>7. ASSUME NEW e \in current, ListBlock(e) \/ SkipBlock(e) PROVE BootInv'
  <2>1. /\ e \in Ranges /\ e.usable /\ e \in entries
        /\ block \in Int /\ Aligned(block) /\ e.start <= block
    BY <1>1 DEF Handed
  <2>2. block + FrameUnits \in Int /\ block <= block + FrameUnits
        /\ Aligned(block + FrameUnits)
    <3>1. (block + FrameUnits) % FrameUnits = 0
      <4>1. PICK k \in Int : block = k * FrameUnits
        BY <2>1, <1>5 DEF Aligned
      <4>2. block + FrameUnits = (k + 1) * FrameUnits
        BY <4>1, <1>5
      <4>3. ((k + 1) * FrameUnits) % FrameUnits = 0
        BY <1>5
      <4>4. QED
        BY <4>2, <4>3
    <3>2. QED
      BY <2>1, <1>5, <3>1 DEF Aligned
  <2>3. todo' = todo /\ current' = current /\ block' = block + FrameUnits
    BY <1>7 DEF ListBlock, SkipBlock
  <2>4. \A o \in current : o.start <= block + FrameUnits
    <3>1. \A o \in current : o.start \in Int /\ o.start <= block
      BY <1>1 DEF Handed, Ranges
    <3>2. QED
      BY <3>1, <2>1, <2>2
  <2>5. Handed'
    BY <1>1, <1>3, <2>2, <2>3, <2>4 DEF Handed
  <2>6. CASE SkipBlock(e)
    <3>1. UNCHANGED free_blocks
      BY <2>6 DEF SkipBlock
    <3>2. ListIsGood'
      BY <1>1, <3>1 DEF ListIsGood, Behind, Promised
    <3>3. QED
      BY <1>4, <2>5, <3>2 DEF BootInv
  <2>7. CASE ListBlock(e)
    <3>1. /\ block < RoundDown(e.end) /\ ~ Skips(block)
          /\ free_blocks' = Append(free_blocks, block)
      BY <2>7 DEF ListBlock
    <3>2. block + FrameUnits <= e.end
      BY <2>1, <3>1, BlockFits DEF Ranges
    <3>3. Promised(block)
      BY <2>1, <3>2 DEF Promised
    <3>4. Behind(block) /\ Aligned(block)
      BY <2>1, <3>1, PmmAssumption DEF Skips, Behind
    <3>5. /\ free_blocks' \in Seq(Int)
          /\ \A i \in DOMAIN free_blocks' :
                \/ free_blocks'[i] = block
                \/ /\ i \in DOMAIN free_blocks
                   /\ free_blocks'[i] = free_blocks[i]
      BY <1>1, <2>1, <3>1 DEF ListIsGood
    <3>6. ASSUME NEW i \in DOMAIN free_blocks'
          PROVE  /\ Behind(free_blocks'[i]) /\ Aligned(free_blocks'[i])
                 /\ hasMap => Promised(free_blocks'[i])
      BY <1>1, <3>3, <3>4, <3>5 DEF ListIsGood
    <3>7. ListIsGood'
      BY <1>1, <3>5, <3>6 DEF ListIsGood, Behind, Promised
    <3>8. QED
      BY <1>4, <2>5, <3>7 DEF BootInv
  <2>8. QED
    BY <1>7, <2>6, <2>7
<1>8. ASSUME NEW e \in current, LeaveEntry(e) PROVE BootInv'
  <2>1. current' = {} /\ UNCHANGED <<todo, block, free_blocks>>
    BY <1>8 DEF LeaveEntry
  <2>2. Handed'
    BY <1>1, <1>3, <2>1 DEF Handed
  <2>3. ListIsGood'
    BY <1>1, <2>1 DEF ListIsGood, Behind, Promised
  <2>4. QED
    BY <1>4, <2>2, <2>3 DEF BootInv
<1>9. CASE EndOfMap
  <2>1. UNCHANGED <<todo, current, block, free_blocks>>
    BY <1>9 DEF EndOfMap, pmmVars
  <2>2. Handed'
    BY <1>1, <1>3, <2>1 DEF Handed
  <2>3. ListIsGood'
    BY <1>1, <2>1 DEF ListIsGood, Behind, Promised
  <2>4. QED
    BY <1>4, <2>2, <2>3 DEF BootInv
<1>10. CASE GuessMap
  <2> DEFINE ends == {KernelEnd} \cup {m.end : m \in modules}
             top == CHOOSE a \in ends : \A b \in ends : b <= a
  <2>1. ~ hasMap /\ UNCHANGED <<todo, current, block>>
        /\ free_blocks' = [i \in 1 .. DefaultBlocks |->
                             RoundUp(top) + (i - 1) * FrameUnits]
    BY <1>10 DEF GuessMap
  <2>2. PICK r : modules \subseteq {r}
    BY <1>1, <2>1 DEF Handed
  <2>3. \A m \in modules : m.start \in Int /\ m.end \in Int
    BY <1>1 DEF Handed
  <2>4. KernelEnd \in Int
    BY PmmAssumption
  <2>5. \E a \in ends : \A b \in ends : b <= a
    <3>1. CASE r \in modules /\ KernelEnd <= r.end
      BY <2>2, <2>3, <2>4, <3>1
    <3>2. CASE ~ (r \in modules /\ KernelEnd <= r.end)
      BY <2>2, <2>3, <2>4, <3>2
    <3>3. QED
      BY <3>1, <3>2
  <2>6. top \in ends /\ \A b \in ends : b <= top
    BY <2>5
  <2>7. top \in Int /\ KernelEnd <= top /\ \A m \in modules : m.end <= top
    BY <2>3, <2>4, <2>6
  <2> HIDE DEF top, ends
  <2>8. RoundUp(top) \in Int /\ top <= RoundUp(top)
    BY <2>7, RoundsUp
  <2>9. ASSUME NEW i \in 1 .. DefaultBlocks
        PROVE  /\ Behind(RoundUp(top) + (i - 1) * FrameUnits)
               /\ Aligned(RoundUp(top) + (i - 1) * FrameUnits)
    <3>1. i \in Int /\ i - 1 >= 0 /\ i - 1 \in Int
      BY PmmAssumption
    <3>2. (i - 1) * FrameUnits \in Int /\ (i - 1) * FrameUnits >= 0
      BY <3>1, <1>5
    <3>3. \A x \in Int : x >= 0 => Behind(RoundUp(top) + x)
      BY <2>3, <2>4, <2>7, <2>8 DEF Behind, In
    <3>4. Aligned(RoundUp(top) + (i - 1) * FrameUnits)
      BY <2>7, <3>1, AlignedLater
    <3>5. QED
      BY <3>2, <3>3, <3>4
  <2>10. ListIsGood'
    <3>1. DefaultBlocks \in Nat
      BY PmmAssumption
    <3>2. \A i \in 1 .. DefaultBlocks :
             RoundUp(top) + (i - 1) * FrameUnits \in Int
      BY <2>9 DEF Behind
    <3>3. free_blocks' \in Seq(Int) /\ DOMAIN free_blocks' = 1 .. DefaultBlocks
      BY <2>1, <3>1, <3>2
    <3>4. QED
      BY <1>1, <2>1, <2>9, <3>3 DEF ListIsGood, Behind
  <2>11. Handed'
    BY <1>1, <1>3, <2>1 DEF Handed
  <2>12. QED
    BY <1>4, <2>10, <2>11 DEF BootInv
<1>11. QED
  BY <1>6, <1>7, <1>8, <1>9, <1>10 DEF PmmInit

LEMMA BootNext == BootInv /\ [Next]_vars => BootInv'
<1> SUFFICES ASSUME BootInv, [Next]_vars PROVE BootInv'
  OBVIOUS
<1>1. CASE EfiMain
  BY <1>1, LoaderNext
<1>2. ASSUME NEW u \in Units, NEW t \in Types, ChangeLedger(u, t) PROVE BootInv'
  BY <1>2, FirmwareNext
<1>3. ASSUME NEW s \in Units, NEW n \in InstructSizes \cup {0},
             NEW map \in BOOLEAN, Grub(s, n, map)
      PROVE  BootInv'
  BY <1>3, GrubNext
<1>4. CASE PmmInit /\ UNCHANGED loaderVars
  BY <1>4, WalkNext
<1>5. CASE UNCHANGED vars
  <2>1. Descriptors' = Descriptors
    BY <1>5 DEF vars, loaderVars, Descriptors, Run
  <2>2. QED
    BY <1>5, <2>1 DEF vars, loaderVars, pmmVars, BootInv, Handed, ListIsGood,
       Behind, Promised, MapIsCurrent, At
<1>6. QED
  BY <1>1, <1>2, <1>3, <1>4, <1>5 DEF Next

-----------------------------------------------------------------------------
(* The theorems. *)

\* pmm_init: a listed block lies behind the kernel, and nothing of a module
\* from the first block boundary in it on is in one, with a map or without.
\* Of the bytes before that boundary nothing is said (see ModulesAreKept).
THEOREM ModulesKeepTheirBodies == Spec => []ModuleBodiesAreKept
<1>1. ASSUME BootInv PROVE ModuleBodiesAreKept
  <2>1. SUFFICES ASSUME NEW i \in DOMAIN free_blocks
                 PROVE  /\ KernelEnd <= free_blocks[i]
                        /\ \A m \in modules : \A a \in Frame(free_blocks[i]) :
                              In(a, m) => a < RoundUp(m.start)
    BY DEF ModuleBodiesAreKept, Listed
  <2> PICK b : b = free_blocks[i]
    OBVIOUS
  <2>2. Behind(b) /\ Aligned(b) /\ b \in Int /\ FrameUnits \in Int
    BY <1>1, PmmAssumption DEF BootInv, ListIsGood, Behind
  <2>3. ASSUME NEW m \in modules, NEW a \in Frame(b), In(a, m)
        PROVE  a < RoundUp(m.start)
    <3>1. m.start \in Int /\ m.end \in Int
      BY <1>1 DEF BootInv, Handed
    <3>2. a \in Int /\ b <= a /\ a < b + FrameUnits
      BY <2>2 DEF Frame
    <3>3. b < m.start
      BY <2>2, <2>3, <3>1, <3>2 DEF Behind, In
    <3>4. /\ RoundUp(m.start) \in Int /\ m.start <= RoundUp(m.start)
          /\ Aligned(RoundUp(m.start))
      BY <3>1, RoundsUp
    <3>5. b < RoundUp(m.start)
      BY <2>2, <3>1, <3>3, <3>4
    <3>6. b + FrameUnits <= RoundUp(m.start)
      BY <2>2, <3>4, <3>5, AlignedNext
    <3>7. QED
      BY <2>2, <3>2, <3>4, <3>6
  <2>4. QED
    BY <2>2, <2>3 DEF Behind
<1>2. QED
  BY <1>1, BootInit, BootNext, PTL DEF Spec

\* efi_main and pmm_init: when ExitBootServices accepted the key of the map
\* that was parsed, every address of a listed block is memory of a usable type
\* in the ledger the firmware left behind; however that ledger looked.
THEOREM ListedFramesAreRam == Spec => []FramesAreRam
<1>1. ASSUME BootInv PROVE FramesAreRam
  <2>1. SUFFICES ASSUME phase = "kernel", hasMap, retries = MaxTries,
                        NEW i \in DOMAIN free_blocks,
                        NEW a \in Frame(free_blocks[i])
                 PROVE  a \in Units /\ types[a] \in Usable
    BY DEF FramesAreRam, Listed
  <2>2. PICK e \in entries : /\ e.usable /\ e.start <= free_blocks[i]
                             /\ free_blocks[i] + FrameUnits <= e.end
    BY <1>1, <2>1 DEF BootInv, ListIsGood, Promised
  <2>3. e \in Descriptors /\ free_blocks[i] \in Int /\ FrameUnits \in Int
    BY <1>1, <2>1, PmmAssumption DEF BootInv, MapIsCurrent, ListIsGood, Behind
  <2>4. PICK p \in Units \X (1 .. MemEnd) :
           /\ Run(p[1], p[2])
           /\ e = [start |-> p[1], end |-> p[2],
                   usable |-> types[p[1]] \in Usable]
    BY <2>3 DEF Descriptors
  <2>5. /\ e.start = p[1] /\ e.end = p[2] /\ types[p[1]] \in Usable
        /\ p[1] \in Units /\ p[2] \in 1 .. MemEnd
    BY <2>2, <2>4
  <2>6. a \in Int /\ p[1] <= a /\ a <= p[2] - 1
    <3>1. p[1] \in Int /\ p[2] \in Int
      <4>1. 1 .. MemEnd \subseteq Int
        BY LoaderAssumption
      <4>2. QED
        BY <2>5, <4>1, UnitsAreInts
    <3>2. a \in Int /\ free_blocks[i] <= a /\ a < free_blocks[i] + FrameUnits
      BY <2>3 DEF Frame
    <3>3. QED
      BY <2>2, <2>3, <2>5, <3>1, <3>2
  <2>7. a \in Units /\ a \in p[1] .. (p[2] - 1)
    BY <2>5, <2>6, LoaderAssumption DEF Units
  <2>8. types[a] = types[p[1]]
    BY <2>4, <2>7 DEF Run
  <2>9. QED
    BY <2>5, <2>7, <2>8
<1>2. QED
  BY <1>1, BootInit, BootNext, PTL DEF Spec

-----------------------------------------------------------------------------
(* The list is the map's. *)

\* No block begins between an entry's start and the walk's first block.
LEMMA RoundsUpLeast ==
    ASSUME NEW a \in Int, NEW b \in Int, Aligned(b), a <= b
    PROVE  RoundUp(a) <= b
<1> DEFINE q == (a + FrameUnits - 1) \div FrameUnits
<1>1. FrameUnits \in Int /\ FrameUnits > 0 /\ a + FrameUnits - 1 \in Int
  BY PmmAssumption
<1>2. q \in Int /\ q * FrameUnits <= a + FrameUnits - 1
  BY <1>1, Division
<1>3. RoundUp(a) = q * FrameUnits
  BY DEF RoundUp
<1> HIDE DEF q
<1>4. RoundUp(a) \in Int /\ Aligned(RoundUp(a))
  BY RoundsUp
<1>5. RoundUp(a) < b + FrameUnits
  BY <1>1, <1>2, <1>3, <1>4
<1>6. SUFFICES ASSUME b < RoundUp(a) PROVE FALSE
  BY <1>4
<1>7. b + FrameUnits <= RoundUp(a)
  BY <1>4, <1>6, AlignedNext
<1>8. QED
  BY <1>1, <1>4, <1>5, <1>7

\* A block that ends before an entry does is one the walk comes to.
LEMMA RoundsDownGreatest ==
    ASSUME NEW b \in Int, NEW e \in Int, b + FrameUnits <= e
    PROVE  b < RoundDown(e) /\ RoundDown(e) \in Int
<1> DEFINE q == e \div FrameUnits
<1>1. FrameUnits \in Int /\ FrameUnits > 0
  BY PmmAssumption
<1>2. q \in Int /\ e < q * FrameUnits + FrameUnits
  BY Division
<1> HIDE DEF q
<1>3. q * FrameUnits \in Int
  BY <1>1, <1>2
<1>4. b < q * FrameUnits
  BY <1>1, <1>2, <1>3
<1>5. QED
  BY <1>3, <1>4 DEF RoundDown, q

\* The firmware's descriptors have nothing in common.
Apart == \A d, e \in entries :
            /\ d.start < d.end
            /\ d = e \/ d.end <= e.start \/ e.end <= d.start

LEMMA DescriptorsApart ==
    ASSUME NEW d \in Descriptors, NEW e \in Descriptors
    PROVE  /\ d.start < d.end
           /\ d = e \/ d.end <= e.start \/ e.end <= d.start
<1>1. Units \subseteq Int /\ 1 .. MemEnd \subseteq Int /\ MemEnd \in Int
      /\ \A y \in 1 .. MemEnd : y <= MemEnd
      /\ \A x : x \in Units <=> x \in Int /\ 0 <= x /\ x < MemEnd
  BY LoaderAssumption DEF Units
<1>2. PICK p \in Units \X (1 .. MemEnd) :
         /\ Run(p[1], p[2])
         /\ d = [start |-> p[1], end |-> p[2], usable |-> types[p[1]] \in Usable]
  BY DEF Descriptors
<1>3. PICK q \in Units \X (1 .. MemEnd) :
         /\ Run(q[1], q[2])
         /\ e = [start |-> q[1], end |-> q[2], usable |-> types[q[1]] \in Usable]
  BY DEF Descriptors
<1> PICK s, t, u, v : s = p[1] /\ t = p[2] /\ u = q[1] /\ v = q[2]
  OBVIOUS
<1>4. /\ s \in Units /\ t \in 1 .. MemEnd /\ u \in Units /\ v \in 1 .. MemEnd
      /\ s \in Int /\ t \in Int /\ u \in Int /\ v \in Int
      /\ d.start = s /\ d.end = t /\ e.start = u /\ e.end = v
  BY <1>1, <1>2, <1>3
<1>5. /\ s < t /\ u < v
      /\ \A x \in s .. (t - 1) : types[x] = types[s]
      /\ \A x \in u .. (v - 1) : types[x] = types[u]
      /\ \A x \in (s + 1) .. (t - 1) : x \notin Cuts
      /\ \A x \in (u + 1) .. (v - 1) : x \notin Cuts
      /\ s > 0 => types[s - 1] # types[s] \/ s \in Cuts
      /\ u > 0 => types[u - 1] # types[u] \/ u \in Cuts
      /\ t < MemEnd => types[t] # types[s] \/ t \in Cuts
      /\ v < MemEnd => types[v] # types[u] \/ v \in Cuts
  BY <1>2, <1>3 DEF Run
<1>6. CASE s = u
  <2>1. t = v
    <3>1. CASE t < v
      <4>1. t \in u .. (v - 1) /\ t < MemEnd /\ t \in (u + 1) .. (v - 1)
        BY <3>1, <1>1, <1>4, <1>5, <1>6
      <4>2. QED
        BY <4>1, <1>5, <1>6
    <3>2. CASE v < t
      <4>1. v \in s .. (t - 1) /\ v < MemEnd /\ v \in (s + 1) .. (t - 1)
        BY <3>2, <1>1, <1>4, <1>5, <1>6
      <4>2. QED
        BY <4>1, <1>5, <1>6
    <3>3. QED
      BY <3>1, <3>2, <1>4
  <2>2. QED
    BY <2>1, <1>2, <1>3, <1>4, <1>5, <1>6
<1>7. CASE s < u
  <2>1. SUFFICES ASSUME u < t PROVE FALSE
    BY <1>4, <1>5
  <2>2. u \in s .. (t - 1) /\ u - 1 \in s .. (t - 1) /\ u > 0
        /\ u \in (s + 1) .. (t - 1)
    BY <2>1, <1>1, <1>4, <1>7
  <2>3. QED
    BY <2>2, <1>5
<1>8. CASE u < s
  <2>1. SUFFICES ASSUME s < v PROVE FALSE
    BY <1>4, <1>5
  <2>2. s \in u .. (v - 1) /\ s - 1 \in u .. (v - 1) /\ s > 0
        /\ s \in (u + 1) .. (v - 1)
    BY <2>1, <1>1, <1>4, <1>8
  <2>3. QED
    BY <2>2, <1>5
<1>9. QED
  BY <1>4, <1>6, <1>7, <1>8

Fits(b, e) == e.start <= b /\ b + FrameUnits <= e.end

\* No block is listed twice, and none that the walk has still to come to.
InOrder ==
    /\ \A i \in DOMAIN free_blocks :
          /\ \A j \in DOMAIN free_blocks :
                free_blocks[i] = free_blocks[j] => i = j
          /\ \A o \in todo : ~ Fits(free_blocks[i], o)
          /\ \A e \in current : Fits(free_blocks[i], e) => free_blocks[i] < block
    /\ current \cap todo = {}
    /\ \A e \in current, f \in current : e = f

DueIn(b, e) == /\ b \in Int /\ Aligned(b) /\ Behind(b)
               /\ e \in entries /\ e.usable /\ e.start <= b
               /\ b + FrameUnits <= e.end

\* A block that is due is listed, unless the list is full or the walk has
\* still to come to it.
NoneForgotten ==
    \A b, e : DueIn(b, e) =>
        \/ Len(free_blocks) = MaxFreeBlocks
        \/ b \in Listed
        \/ e \in todo
        \/ e \in current /\ block <= b

WalkInv ==
    /\ BootInv /\ Apart /\ Len(free_blocks) <= MaxFreeBlocks
    /\ hasMap => InOrder
    /\ hasMap /\ phase \in {"pmm", "kernel"} => NoneForgotten
    /\ hasMap /\ phase = "kernel" => todo = {} /\ current = {}

\* With nothing listed and nothing begun there is nothing out of order.
LEMMA NothingListed ==
    ASSUME free_blocks = <<>>, current = {}
    PROVE  InOrder /\ Len(free_blocks) <= MaxFreeBlocks
<1>1. DOMAIN free_blocks = {} /\ Len(free_blocks) = 0
  OBVIOUS
<1>2. QED
  BY <1>1, PmmAssumption DEF InOrder

LEMMA WalkInit == Init => WalkInv
<1> SUFFICES ASSUME Init PROVE WalkInv
  OBVIOUS
<1>1. BootInv /\ InOrder /\ Len(free_blocks) <= MaxFreeBlocks
  BY BootInit, NothingListed DEF Init
<1>2. Apart /\ phase = "loader"
  BY DEF Init, Apart
<1>3. QED
  BY <1>1, <1>2 DEF WalkInv

LEMMA EntriesHandedOver ==
    ASSUME WalkInv, [Next]_vars, phase = "loader"
    PROVE  WalkInv'
<1>1. BootInv' /\ free_blocks = <<>> /\ current = {}
  BY BootNext DEF WalkInv, BootInv, Handed
<1>2. /\ free_blocks' = <<>> /\ current' = {}
      /\ entries' = entries \/ entries' \subseteq Descriptors
      /\ \/ phase' \in {"loader", "returned", "undone"}
         \/ phase' = "pmm" /\ todo' = entries'
  <2>1. CASE EfiMain
    BY <1>1, <2>1 DEF EfiMain, Refuse, SelectModel, AllocateModel,
       AllocateMapBuffer, ReadChunk, NoInstruct, LoadInstruct, ReserveKernel,
       CopySegments, GetMemoryMap, ExitFails, ExitSucceeds, LoseVolume, Goes,
       pmmVars, At, FirstEntries, loaderVars
  <2>2. CASE \E u \in Units, t \in Types : ChangeLedger(u, t)
    BY <1>1, <2>2 DEF ChangeLedger, pmmVars, At
  <2>3. CASE \E s \in Units, n \in InstructSizes \cup {0}, map \in BOOLEAN :
                Grub(s, n, map)
    BY <1>1, <2>3 DEF Grub
  <2>4. ~ PmmInit
    BY DEF PmmInit, EnterEntry, ListBlock, SkipBlock, LeaveEntry, EndOfMap,
           GuessMap
  <2>5. CASE UNCHANGED vars
    BY <1>1, <2>5 DEF vars, pmmVars
  <2>6. QED
    BY <2>1, <2>2, <2>3, <2>4, <2>5 DEF Next
<1>3. InOrder' /\ Len(free_blocks') <= MaxFreeBlocks
  <2>1. DOMAIN free_blocks' = {} /\ Len(free_blocks') = 0
    BY <1>2
  <2>2. QED
    BY <1>2, <2>1, PmmAssumption DEF InOrder
<1>4. Apart'
  BY <1>2, DescriptorsApart DEF WalkInv, Apart
<1>5. phase' = "pmm" => NoneForgotten'
  BY <1>2 DEF NoneForgotten, DueIn
<1>6. QED
  BY <1>1, <1>2, <1>3, <1>4, <1>5 DEF WalkInv

\* What a step of the walk leaves as it is.
LEMMA DueStays ==
    ASSUME UNCHANGED <<entries, modules>>
    PROVE  Apart' = Apart /\ \A b, e : DueIn(b, e)' = DueIn(b, e)
BY DEF Apart, DueIn, Behind

LEMMA WalkEnter ==
    ASSUME WalkInv, BootInv', UNCHANGED <<entries, hasMap, modules>>,
           NEW e \in todo, EnterEntry(e)
    PROVE  WalkInv'
<1>1. /\ phase' = "pmm" /\ free_blocks' = free_blocks /\ current = {} /\ hasMap
      /\ todo' = todo \ {e} /\ current' = (IF e.usable THEN {e} ELSE {})
      /\ block' = RoundUp(e.start) /\ phase = "pmm"
  BY DEF EnterEntry
<1>2. /\ InOrder /\ NoneForgotten /\ Apart /\ e \in entries /\ todo \subseteq entries
      /\ entries \subseteq Ranges /\ Handed /\ ListIsGood
  BY <1>1 DEF WalkInv, BootInv, Handed
<1>3. e.start \in Int /\ e.end \in Int /\ e.start < e.end
      /\ \A o \in entries : o.start \in Int /\ o.end \in Int /\ o.start < o.end
  BY <1>2 DEF Apart, Ranges
<1>6. InOrder'
  <2>1. \A i \in DOMAIN free_blocks : ~ Fits(free_blocks[i], e)
    BY <1>2 DEF InOrder
  <2>2. QED
    BY <2>1, <1>1, <1>2 DEF InOrder, Fits
<1>7. NoneForgotten'
  <2>1. SUFFICES ASSUME NEW b, NEW f, DueIn(b, f)
                 PROVE  \/ Len(free_blocks) = MaxFreeBlocks \/ b \in Listed
                        \/ f \in todo'
                        \/ f \in current' /\ block' <= b
    BY <1>1, DueStays DEF NoneForgotten, Listed
  <2>2. CASE f # e
    BY <2>1, <2>2, <1>1, <1>2 DEF NoneForgotten
  <2>3. CASE f = e
    <3>1. RoundUp(e.start) <= b
      BY <2>1, <2>3, <1>3, RoundsUpLeast DEF DueIn
    <3>2. QED
      BY <3>1, <2>1, <2>3, <1>1 DEF DueIn
  <2>4. QED
    BY <2>2, <2>3
<1>8. QED
  BY <1>1, <1>2, <1>6, <1>7, DueStays DEF WalkInv

LEMMA WalkStep ==
    ASSUME WalkInv, BootInv', UNCHANGED <<entries, hasMap, modules>>,
           NEW e \in current, ListBlock(e) \/ SkipBlock(e), hasMap
    PROVE  WalkInv'
<1>1. /\ phase' = "pmm" /\ phase = "pmm" /\ block' = block + FrameUnits
      /\ todo' = todo /\ current' = current
  BY DEF ListBlock, SkipBlock
<1>2. InOrder /\ NoneForgotten /\ Apart /\ Handed /\ ListIsGood
      /\ entries \subseteq Ranges
  BY <1>1 DEF WalkInv, BootInv, Handed
<1>3. /\ block \in Int /\ Aligned(block) /\ e.usable /\ e \in entries
      /\ e.start <= block /\ e.start \in Int /\ e.end \in Int /\ current = {e}
      /\ block < RoundDown(e.end)
  BY <1>2 DEF Handed, Ranges, InOrder, ListBlock, SkipBlock
<1>4. block + FrameUnits <= e.end /\ FrameUnits \in Int /\ FrameUnits > 0
  BY <1>3, BlockFits, PmmAssumption
<1>5. \A b, f : DueIn(b, f) /\ block <= b => b = block \/ block + FrameUnits <= b
  BY <1>3, AlignedNext DEF DueIn
<1>6. Fits(block, e) /\ \A o \in todo : ~ Fits(block, o)
  <2>1. Fits(block, e)
    BY <1>3, <1>4 DEF Fits
  <2>2. ASSUME NEW o \in todo PROVE ~ Fits(block, o)
    <3>1. o.start \in Int /\ o.end \in Int /\ o \in entries /\ o # e
      BY <1>2, <1>3 DEF Handed, Ranges, InOrder
    <3>2. e.end <= o.start \/ o.end <= e.start
      BY <3>1, <1>2, <1>3 DEF Apart
    <3>3. QED
      BY <3>1, <3>2, <1>3, <1>4 DEF Fits
  <2>3. QED
    BY <2>1, <2>2
<1>7. \A i \in DOMAIN free_blocks :
         /\ free_blocks[i] \in Int
         /\ Fits(free_blocks[i], e) => free_blocks[i] < block
  BY <1>2, <1>3 DEF ListIsGood, Behind, InOrder
<1>8. CASE SkipBlock(e)
  <2>1. free_blocks' = free_blocks /\ Skips(block)
    BY <1>8 DEF SkipBlock
  <2>2. \A f : ~ DueIn(block, f)
    BY <2>1, <1>3, PmmAssumption DEF Skips, DueIn, Behind
  <2>3. InOrder'
    <3>1. \A i \in DOMAIN free_blocks :
             Fits(free_blocks[i], e) => free_blocks[i] < block + FrameUnits
      BY <1>3, <1>4, <1>7
    <3>2. QED
      BY <3>1, <2>1, <1>1, <1>2, <1>3 DEF InOrder, Fits
  <2>4. NoneForgotten'
    <3>1. SUFFICES ASSUME NEW b, NEW f, DueIn(b, f)
                   PROVE  \/ Len(free_blocks) = MaxFreeBlocks \/ b \in Listed
                          \/ f \in todo
                          \/ f \in current /\ block + FrameUnits <= b
      BY <1>1, <2>1, DueStays DEF NoneForgotten, Listed
    <3>2. QED
      BY <3>1, <2>2, <1>2, <1>5 DEF NoneForgotten
  <2>5. QED
    BY <1>1, <1>2, <2>1, <2>3, <2>4, DueStays DEF WalkInv
<1>9. CASE ListBlock(e)
  <2>1. free_blocks' = Append(free_blocks, block) /\ Len(free_blocks) < MaxFreeBlocks
    BY <1>9 DEF ListBlock
  <2>2. /\ Len(free_blocks) \in Nat /\ Len(free_blocks') = Len(free_blocks) + 1
        /\ DOMAIN free_blocks = 1 .. Len(free_blocks)
        /\ DOMAIN free_blocks' = 1 .. Len(free_blocks) + 1
        /\ \A i \in DOMAIN free_blocks : free_blocks'[i] = free_blocks[i]
        /\ free_blocks'[Len(free_blocks) + 1] = block
    BY <2>1, <1>2, <1>3 DEF ListIsGood
  <2>3. \A i \in DOMAIN free_blocks' :
           \/ i \in DOMAIN free_blocks /\ free_blocks'[i] = free_blocks[i]
           \/ i = Len(free_blocks) + 1 /\ free_blocks'[i] = block
    BY <2>2
  <2>4. InOrder'
    <3>1. \A i \in DOMAIN free_blocks' :
             /\ \A o \in todo : ~ Fits(free_blocks'[i], o)
             /\ Fits(free_blocks'[i], e) => free_blocks'[i] < block + FrameUnits
      <4>1. SUFFICES ASSUME NEW i \in DOMAIN free_blocks'
                     PROVE  /\ \A o \in todo : ~ Fits(free_blocks'[i], o)
                            /\ Fits(free_blocks'[i], e) =>
                                  free_blocks'[i] < block + FrameUnits
        OBVIOUS
      <4>2. CASE i \in DOMAIN free_blocks /\ free_blocks'[i] = free_blocks[i]
        BY <4>2, <1>2, <1>3, <1>4, <1>7 DEF InOrder
      <4>3. CASE free_blocks'[i] = block
        BY <4>3, <1>3, <1>4, <1>6
      <4>4. QED
        BY <4>2, <4>3, <2>3
    <3>2. \A i \in DOMAIN free_blocks : free_blocks[i] # block
      BY <1>3, <1>6, <1>7
    <3>3. \A i, j \in DOMAIN free_blocks' :
             free_blocks'[i] = free_blocks'[j] => i = j
      BY <2>3, <3>2, <1>2 DEF InOrder
    <3>4. QED
      BY <3>1, <3>3, <1>1, <1>2, <1>3 DEF InOrder, Fits
  <2>5. NoneForgotten'
    <3>1. SUFFICES ASSUME NEW b, NEW f, DueIn(b, f)
                   PROVE  \/ b \in Listed'
                          \/ f \in todo
                          \/ f \in current /\ block + FrameUnits <= b
      BY <1>1, DueStays DEF NoneForgotten
    <3>2. Listed \subseteq Listed' /\ block \in Listed'
      <4>1. Len(free_blocks) + 1 \in DOMAIN free_blocks'
            /\ DOMAIN free_blocks \subseteq DOMAIN free_blocks'
        BY <2>2
      <4>2. QED
        BY <4>1, <2>2 DEF Listed
    <3>3. Len(free_blocks) # MaxFreeBlocks
      <4>1. \A n \in Nat : n < MaxFreeBlocks => n # MaxFreeBlocks
        BY PmmAssumption
      <4>2. QED
        BY <4>1, <2>1, <2>2
    <3>4. QED
      BY <3>1, <3>2, <3>3, <1>2, <1>5 DEF NoneForgotten
  <2>6. Len(free_blocks') <= MaxFreeBlocks
    BY <2>1, <2>2, PmmAssumption
  <2>7. QED
    BY <1>1, <1>2, <2>4, <2>5, <2>6, DueStays DEF WalkInv
<1>10. QED
  BY <1>8, <1>9

LEMMA WalkLeave ==
    ASSUME WalkInv, BootInv', UNCHANGED <<entries, hasMap, modules>>,
           NEW e \in current, LeaveEntry(e), hasMap
    PROVE  WalkInv'
<1>1. /\ phase' = "pmm" /\ phase = "pmm" /\ current' = {}
      /\ UNCHANGED <<todo, block, free_blocks>>
      /\ \/ block >= RoundDown(e.end)
         \/ ~ Skips(block) /\ Len(free_blocks) = MaxFreeBlocks
  BY DEF LeaveEntry
<1>2. InOrder /\ NoneForgotten /\ Apart /\ Handed /\ entries \subseteq Ranges
  BY <1>1 DEF WalkInv, BootInv, Handed
<1>3. block \in Int /\ e.end \in Int /\ current = {e}
  BY <1>2 DEF Handed, Ranges, InOrder
<1>4. InOrder'
  BY <1>1, <1>2 DEF InOrder
<1>5. NoneForgotten'
  <2>1. SUFFICES ASSUME NEW b, NEW f, DueIn(b, f),
                        Len(free_blocks) # MaxFreeBlocks
                 PROVE  b \in Listed \/ f \in todo
    BY <1>1, DueStays DEF NoneForgotten, Listed
  <2>2. CASE f \in current /\ block <= b
    <3>1. b \in Int /\ b + FrameUnits <= e.end
      BY <2>1, <2>2, <1>3 DEF DueIn
    <3>2. b < RoundDown(e.end) /\ RoundDown(e.end) \in Int
      BY <3>1, <1>3, RoundsDownGreatest
    <3>3. FALSE
      BY <2>1, <2>2, <3>1, <3>2, <1>1, <1>3
    <3>4. QED
      BY <3>3
  <2>3. QED
    BY <2>1, <2>2, <1>2 DEF NoneForgotten
<1>6. QED
  BY <1>1, <1>2, <1>4, <1>5, DueStays DEF WalkInv

LEMMA WalkNextInv == WalkInv /\ [Next]_vars => WalkInv'
<1> SUFFICES ASSUME WalkInv, [Next]_vars PROVE WalkInv'
  OBVIOUS
<1>1. BootInv' /\ Handed
  BY BootNext DEF WalkInv, BootInv
<1>2. CASE phase = "loader"
  BY <1>2, EntriesHandedOver
<1>3. CASE UNCHANGED vars
  BY <1>1, <1>3 DEF vars, pmmVars, WalkInv, Apart, InOrder, Fits, NoneForgotten,
                    DueIn, Behind, Listed
<1>4. CASE PmmInit
  <2>1. UNCHANGED <<entries, hasMap, modules>>
    BY <1>4 DEF PmmInit
  <2>2. ASSUME NEW e \in todo, EnterEntry(e) PROVE WalkInv'
    BY <1>1, <2>1, <2>2, WalkEnter
  <2>3. ASSUME NEW e \in current, ~ hasMap, ListBlock(e) \/ SkipBlock(e) \/ LeaveEntry(e)
        PROVE  WalkInv'
    <3>1. Len(free_blocks') <= MaxFreeBlocks
      <4>1. CASE ListBlock(e)
        <5>1. free_blocks \in Seq(Int) /\ block \in Int
          BY <1>1 DEF WalkInv, BootInv, Handed, ListIsGood
        <5>2. /\ Len(free_blocks') = Len(free_blocks) + 1
              /\ Len(free_blocks) \in Nat /\ Len(free_blocks) < MaxFreeBlocks
          BY <4>1, <5>1 DEF ListBlock
        <5>3. QED
          BY <5>2, PmmAssumption
      <4>2. CASE SkipBlock(e) \/ LeaveEntry(e)
        BY <4>2 DEF SkipBlock, LeaveEntry, WalkInv
      <4>3. QED
        BY <2>3, <4>1, <4>2
    <3>2. QED
      BY <1>1, <2>1, <2>3, <3>1, DueStays DEF WalkInv
  <2>4. ASSUME NEW e \in current, hasMap, ListBlock(e) \/ SkipBlock(e) \/ LeaveEntry(e)
        PROVE  WalkInv'
    BY <1>1, <2>1, <2>4, WalkStep, WalkLeave
  <2>5. CASE EndOfMap
    <3>1. /\ phase = "pmm" /\ phase' = "kernel" /\ hasMap /\ todo = {}
          /\ current = {} /\ UNCHANGED <<todo, current, block, free_blocks>>
      BY <2>5 DEF EndOfMap, pmmVars
    <3>2. InOrder' /\ NoneForgotten' /\ Len(free_blocks') <= MaxFreeBlocks
      BY <2>1, <3>1, DueStays DEF WalkInv, InOrder, Fits, NoneForgotten, Listed
    <3>3. QED
      BY <1>1, <2>1, <3>1, <3>2, DueStays DEF WalkInv
  <2>6. CASE GuessMap
    <3>1. ~ hasMap /\ \E f : free_blocks' = [i \in 1 .. DefaultBlocks |-> f[i]]
      <4> DEFINE ends == {KernelEnd} \cup {m.end : m \in modules}
                 top == CHOOSE a \in ends : \A b \in ends : b <= a
      <4>1. free_blocks' = [i \in 1 .. DefaultBlocks |->
                              RoundUp(top) + (i - 1) * FrameUnits]
        BY <2>6 DEF GuessMap
      <4> HIDE DEF top
      <4>2. free_blocks' = [i \in 1 .. DefaultBlocks |-> free_blocks'[i]]
        BY <4>1
      <4>3. PICK f : f = free_blocks'
        OBVIOUS
      <4>4. free_blocks' = [i \in 1 .. DefaultBlocks |-> f[i]]
        BY <4>2, <4>3
      <4>5. ~ hasMap
        BY <2>6 DEF GuessMap
      <4>6. QED
        BY <4>4, <4>5
    <3>2. PICK f : free_blocks' = [i \in 1 .. DefaultBlocks |-> f[i]]
      BY <3>1
    <3>3. DefaultBlocks \in Nat /\ DefaultBlocks <= MaxFreeBlocks
      BY PmmAssumption
    <3>4. Len(free_blocks') = DefaultBlocks
      BY <3>2, <3>3
    <3>5. QED
      BY <1>1, <2>1, <3>1, <3>3, <3>4, DueStays DEF WalkInv
  <2>7. QED
    BY <1>4, <2>2, <2>3, <2>4, <2>5, <2>6 DEF PmmInit
<1>5. CASE ~ PmmInit /\ phase # "loader" /\ Next
  BY <1>5 DEF Next, EfiMain, Refuse, SelectModel, AllocateModel,
     AllocateMapBuffer, ReadChunk, NoInstruct, LoadInstruct, ReserveKernel,
     CopySegments, GetMemoryMap, ExitFails, ExitSucceeds, LoseVolume, ChangeLedger,
     Grub, At
<1>6. QED
  BY <1>2, <1>3, <1>4, <1>5 DEF Next

\* pmm_init: with a map the list holds no block twice, only blocks the map
\* promises, and all of them unless the array is full.
THEOREM ListIsTheMap == Spec => []ListMatchesMap
<1>1. ASSUME WalkInv PROVE ListMatchesMap
  <2>1. SUFFICES ASSUME phase = "kernel", hasMap
                 PROVE  /\ Cardinality(Listed) = Len(free_blocks)
                        /\ Listed \subseteq Due
                        /\ Listed = Due \/ Len(free_blocks) = MaxFreeBlocks
    BY <1>1 DEF WalkInv, ListMatchesMap
  <2>2. InOrder /\ NoneForgotten /\ todo = {} /\ current = {} /\ ListIsGood /\ Handed
    BY <1>1, <2>1 DEF WalkInv, BootInv
  <2>3. /\ Len(free_blocks) \in Nat /\ DOMAIN free_blocks = 1 .. Len(free_blocks)
        /\ \A i \in DOMAIN free_blocks : free_blocks[i] \in Int
    BY <2>2 DEF ListIsGood
  <2>4. Cardinality(Listed) = Len(free_blocks)
    <3> PICK n \in Nat : n = Len(free_blocks) /\ DOMAIN free_blocks = 1 .. n
      BY <2>3
    <3>1. \A i, j \in 1 .. n : free_blocks[i] = free_blocks[j] => i = j
      BY <2>2, <2>3 DEF InOrder
    <3> DEFINE f == [i \in 1 .. n |-> free_blocks[i]]
    <3>2. f \in Bijection(1 .. n, Listed)
      <4>1. f \in [1 .. n -> Listed] /\ \A t \in Listed : \E i \in 1 .. n : f[i] = t
        BY DEF Listed
      <4>2. \A i, j \in 1 .. n : f[i] = f[j] => i = j
        BY <3>1
      <4>3. QED
        BY <4>1, <4>2 DEF Bijection, Injection, Surjection, IsInjective
    <3>3. IsFiniteSet(1 .. n) /\ Cardinality(1 .. n) = n
      <4>1. 1 \in Int /\ n \in Int
        OBVIOUS
      <4>2. IsFiniteSet(1 .. n)
            /\ Cardinality(1 .. n) = IF 1 > n THEN 0 ELSE n - 1 + 1
        BY <4>1, FS_Interval
      <4>3. QED
        BY <4>2
    <3>4. ExistsBijection(1 .. n, Listed)
      BY <3>2 DEF ExistsBijection
    <3>5. QED
      BY <3>3, <3>4, FS_Bijection
  <2>5. ASSUME NEW b \in Listed PROVE b \in Due
    <3>1. PICK i \in DOMAIN free_blocks : b = free_blocks[i]
      BY DEF Listed
    <3>2. Behind(b) /\ Promised(b) /\ Aligned(b)
      BY <2>1, <2>2, <3>1 DEF ListIsGood
    <3>3. PICK e \in entries : e.usable /\ e.start <= b /\ b + FrameUnits <= e.end
      BY <3>2 DEF Promised
    <3>4. b \in e.start .. e.end
      BY <3>2, <3>3, <2>2, PmmAssumption DEF Behind, Handed, Ranges
    <3>5. QED
      BY <3>2, <3>3, <3>4 DEF Due, Behind
  <2>6. ASSUME Len(free_blocks) # MaxFreeBlocks, NEW b \in Due PROVE b \in Listed
    <3>1. \E e \in entries : b \in e.start .. e.end
      BY DEF Due
    <3>2. b \in Int
      BY <3>1, <2>2 DEF Handed, Ranges
    <3>3. /\ Aligned(b) /\ KernelEnd <= b /\ \A m \in modules : ~ In(b, m)
          /\ \E e \in entries : e.usable /\ e.start <= b /\ b + FrameUnits <= e.end
      BY DEF Due
    <3>4. \E e : DueIn(b, e)
      BY <3>2, <3>3 DEF DueIn, Behind
    <3>5. QED
      BY <3>4, <2>2, <2>6 DEF NoneForgotten
  <2>7. QED
    BY <2>4, <2>5, <2>6
<1>2. QED
  BY <1>1, WalkInit, WalkNextInv, PTL DEF Spec

-----------------------------------------------------------------------------
(* The model arrives. *)

Holding == {"read", "instruct", "kernel", "copy", "buffer", "map", "exit"}

\* The model's first bytes are in place, up to address a.
Arrived(a) == \A u \in Units : In(u, model) /\ u < a => contents[u] = "model"

\* The loader's image is as it was, outside the kernel's place.
ImageIsWhole == \A u \in Units : types[u] = "loaderCode" /\ ~ In(u, KernelRange)
                                    => contents[u] = "loader"
ModelIsHeld == \A u \in Units : In(u, model) => types[u] = "loaderData"

\* What the two ranges hold, and who is on record for them: the loader's for
\* the model, and for the kernel's place if its reservation was granted.
LoadInv ==
    /\ DOMAIN types = Units
    /\ left \in Int /\ model.start \in Int /\ model.end \in Int
    /\ ImageIsWhole
    /\ reserved => \A u \in Units : In(u, KernelRange) => types[u] = "loaderCode"
    /\ step \in Holding => ModelIsHeld
    /\ step = "read" => model.start <= model.end - left /\ Arrived(model.end - left)
    /\ step \in Holding \ {"read"} =>
          /\ model \in modules
          /\ reserved \/ step \in {"instruct", "kernel", "copy"} => Arrived(model.end)

LEMMA LoadInit == Init => LoadInv
<1> SUFFICES ASSUME Init PROVE LoadInv
  OBVIOUS
<1>1. DOMAIN types = Units
  BY LoaderAssumption DEF Init
<1>2. ImageIsWhole
  BY DEF Init, ImageIsWhole
<1>3. QED
  BY <1>1, <1>2 DEF Init, LoadInv, Holding, Stretch

\* What is taken for a range of free memory is no part of the loader's image,
\* the model or the kernel's place.
LEMMA Taking ==
    ASSUME LoadInv, NEW r, Free(r), NEW t, t # "loaderCode", types' = Mark(r, t),
           NEW q, \A u \in Units : In(u, q) => In(u, r),
           NEW c, contents' = contents \/ contents' = Write(q, c)
    PROVE  /\ DOMAIN types' = Units
           /\ \A u \in Units : In(u, r) => types'[u] = t
           /\ \A u \in Units : types[u] \in {"loaderCode", "loaderData"} =>
                 types'[u] = types[u] /\ contents'[u] = contents[u]
           /\ ImageIsWhole'
           /\ UNCHANGED reserved =>
                 (reserved' => \A u \in Units :
                                  In(u, KernelRange) => types'[u] = "loaderCode")
<1>1. /\ DOMAIN types' = Units
      /\ \A u \in Units : types'[u] = IF In(u, r) THEN t ELSE types[u]
  BY DEF Mark
<1>2. \A u \in Units : In(u, r) => types[u] = "conventional"
  BY DEF Free
<1>3. ASSUME NEW u \in Units, types[u] \in {"loaderCode", "loaderData"}
      PROVE  types'[u] = types[u] /\ contents'[u] = contents[u]
  <2>1. ~ In(u, r) /\ ~ In(u, q)
    BY <1>2, <1>3
  <2>2. QED
    BY <2>1, <1>1 DEF Write
<1>4. \A u \in Units : types'[u] = "loaderCode" => types[u] = "loaderCode"
  BY <1>1
<1>5. ImageIsWhole'
  BY <1>3, <1>4 DEF LoadInv, ImageIsWhole, KernelRange
<1>6. QED
  BY <1>1, <1>3, <1>5 DEF LoadInv

\* A range of free memory is taken when the model is in place already.
LEMMA TakingBesideModel ==
    ASSUME LoadInv, step \in Holding \ {"read"}, step' \in Holding \ {"read"},
           step' \in {"instruct", "kernel", "copy"} => step \in {"instruct", "kernel", "copy"},
           NEW r, Free(r), types' = Mark(r, "loaderData"),
           NEW q, \A u \in Units : In(u, q) => In(u, r),
           NEW c, contents' = Write(q, c),
           UNCHANGED <<model, left, reserved>>, model \in modules'
    PROVE  LoadInv'
<1>1. /\ DOMAIN types' = Units
      /\ \A u \in Units : types[u] \in {"loaderCode", "loaderData"} =>
            types'[u] = types[u] /\ contents'[u] = contents[u]
      /\ ImageIsWhole'
      /\ reserved' => \A u \in Units : In(u, KernelRange) => types'[u] = "loaderCode"
  <2>1. "loaderData" # "loaderCode"
    OBVIOUS
  <2>2. QED
    BY <2>1, Taking
<1>2. ModelIsHeld /\ \A u \in Units : In(u, model) => types'[u] = "loaderData"
  BY <1>1 DEF LoadInv, ModelIsHeld
<1>3. ModelIsHeld'
  BY <1>2 DEF ModelIsHeld
<1>4. reserved' \/ step' \in {"instruct", "kernel", "copy"} => Arrived(model.end)'
  BY <1>1, <1>2 DEF LoadInv, Arrived, ModelIsHeld
<1>5. KernelRange' = KernelRange
  BY DEF KernelRange, Stretch
<1>6. QED
  BY <1>1, <1>3, <1>4, <1>5 DEF LoadInv

LEMMA LoadAllocateModel ==
    ASSUME LoadInv, NEW s \in Units, AllocateModel(s)
    PROVE  LoadInv'
<1> PICK r : r = Stretch(s, left)
  OBVIOUS
<1>1. /\ Free(r) /\ model' = r /\ types' = Mark(r, "loaderData") /\ step' = "read"
      /\ UNCHANGED <<contents, left, reserved>>
  BY DEF AllocateModel, Goes
<1>2. /\ DOMAIN types' = Units
      /\ \A u \in Units : In(u, r) => types'[u] = "loaderData"
      /\ ImageIsWhole'
      /\ reserved' => \A u \in Units : In(u, KernelRange) => types'[u] = "loaderCode"
  <2>1. "loaderData" # "loaderCode"
    OBVIOUS
  <2>2. \A u \in Units : In(u, r) => In(u, r)
    OBVIOUS
  <2>3. QED
    BY <2>1, <2>2, <1>1, Taking
<1>3. s \in Int /\ left \in Int /\ r.start = s /\ r.end = s + left
  BY UnitsAreInts DEF LoadInv, Stretch
<1>4. r.end - left = s
  BY <1>3
<1>5. Units \subseteq Int
  BY UnitsAreInts
<1>6. ModelIsHeld'
  BY <1>1, <1>2 DEF ModelIsHeld
<1>7. Arrived(model.end - left)'
  BY <1>1, <1>3, <1>4, <1>5 DEF Arrived, In
<1>8. QED
  BY <1>1, <1>2, <1>3, <1>4, <1>6, <1>7 DEF LoadInv, Holding, KernelRange

LEMMA LoadReadChunk ==
    ASSUME LoadInv, NEW n \in 1 .. left, ReadChunk(n)
    PROVE  LoadInv'
<1> PICK a : a = model.end - left
  OBVIOUS
<1>1. /\ step = "read" /\ contents' = Write(Stretch(a, n), "model")
      /\ left' = left - n /\ UNCHANGED <<types, model, reserved>>
      /\ \/ n = left /\ step' = "instruct" /\ modules' = {model}
         \/ n # left /\ step' = "read"
  BY DEF ReadChunk, At, Goes
<1>2. /\ left \in Int /\ model.start \in Int /\ model.end \in Int /\ a \in Int
      /\ n \in Int /\ n >= 1 /\ n <= left /\ model.start <= a
      /\ Arrived(a) /\ ModelIsHeld /\ a + n <= model.end
  BY <1>1 DEF LoadInv, Holding
<1>3. \A u \in Units : u \in Int /\ (In(u, Stretch(a, n)) <=> a <= u /\ u < a + n)
  BY UnitsAreInts DEF In, Stretch
<1>4. \A u \in Units : contents'[u] = IF a <= u /\ u < a + n THEN "model"
                                      ELSE contents[u]
  BY <1>1, <1>3 DEF Write
<1>5. ImageIsWhole'
  <2>1. \A u \in Units : a <= u /\ u < a + n => In(u, model)
    BY <1>2, <1>3 DEF In
  <2>2. \A u \in Units : types[u] = "loaderCode" => contents'[u] = contents[u]
    BY <2>1, <1>2, <1>4 DEF ModelIsHeld
  <2>3. QED
    BY <2>2, <1>1 DEF LoadInv, ImageIsWhole, KernelRange
<1>6. \A u \in Units : In(u, model) /\ u < a + n => contents'[u] = "model"
  BY <1>2, <1>3, <1>4 DEF Arrived
<1>7. ModelIsHeld'
  BY <1>1, <1>2 DEF ModelIsHeld
<1>8. /\ left' \in Int /\ model'.end - left' = a + n
      /\ model.start <= a + n
  BY <1>1, <1>2
<1>9. CASE n = left
  <2>1. a + n = model.end /\ step' = "instruct" /\ modules' = {model}
    BY <1>1, <1>2, <1>9
  <2>2. Arrived(model.end)'
    BY <2>1, <1>1, <1>6 DEF Arrived
  <2>3. QED
    BY <2>1, <2>2, <1>1, <1>5, <1>7, <1>8 DEF LoadInv, Holding, KernelRange
<1>10. CASE n # left
  <2>1. step' = "read"
    BY <1>1, <1>10
  <2>2. Arrived(model.end - left)'
    BY <1>1, <1>6, <1>8 DEF Arrived
  <2>3. QED
    BY <2>1, <2>2, <1>1, <1>2, <1>5, <1>7, <1>8 DEF LoadInv, Holding, KernelRange
<1>11. QED
  BY <1>9, <1>10

LEMMA LoadReserveKernel ==
    ASSUME LoadInv, ReserveKernel
    PROVE  LoadInv'
<1>1. /\ step = "kernel" /\ step' = "copy" /\ reserved' = Free(KernelRange)
      /\ types' = (IF reserved' THEN Mark(KernelRange, "loaderCode") ELSE types)
      /\ UNCHANGED <<contents, model, left, modules>>
  BY DEF ReserveKernel, At, Goes
<1>2. ModelIsHeld /\ Arrived(model.end) /\ model \in modules
      /\ DOMAIN types = Units /\ ImageIsWhole
  BY <1>1 DEF LoadInv, Holding
<1>3. DOMAIN types' = Units /\ Arrived(model.end)'
  BY <1>1, <1>2 DEF Mark, Arrived
<1>4. CASE ~ reserved'
  <2>1. types' = types
    BY <1>1, <1>4
  <2>2. ModelIsHeld' /\ ImageIsWhole'
    BY <2>1, <1>1, <1>2 DEF ModelIsHeld, ImageIsWhole, KernelRange
  <2>3. QED
    BY <2>2, <1>1, <1>2, <1>3, <1>4 DEF LoadInv, Holding
<1>5. CASE reserved'
  <2>1. \A u \in Units : In(u, KernelRange) => types[u] = "conventional"
    BY <1>1, <1>5 DEF Free
  <2>2. \A u \in Units : types'[u] = IF In(u, KernelRange) THEN "loaderCode"
                                     ELSE types[u]
    BY <1>1, <1>5 DEF Mark
  <2>3. ModelIsHeld'
    BY <2>1, <2>2, <1>1, <1>2 DEF ModelIsHeld
  <2>4. ImageIsWhole'
    BY <2>2, <1>1, <1>2 DEF ImageIsWhole, KernelRange
  <2>5. (\A u \in Units : In(u, KernelRange) => types[u] = "loaderCode")'
    BY <2>2 DEF KernelRange
  <2>6. QED
    BY <2>3, <2>4, <2>5, <1>1, <1>2, <1>3 DEF LoadInv, Holding
<1>6. QED
  BY <1>4, <1>5

LEMMA LoadCopySegments ==
    ASSUME LoadInv, CopySegments
    PROVE  LoadInv'
<1> PICK k : k = Stretch(LowEnd, KernelEnd - LowEnd)
  OBVIOUS
<1>1. /\ step = "copy" /\ step' = "buffer" /\ contents' = Write(k, "kernel")
      /\ UNCHANGED <<types, model, left, reserved, modules>>
  BY DEF CopySegments, At, Goes
<1>2. ModelIsHeld /\ Arrived(model.end) /\ model \in modules
      /\ DOMAIN types = Units /\ ImageIsWhole
  BY <1>1 DEF LoadInv, Holding
<1>3. \A u \in Units : In(u, k) => In(u, KernelRange)
  <2>1. LowEnd \in Int /\ KernelEnd \in Int /\ ReservedEnd \in Int
        /\ KernelEnd <= ReservedEnd
    BY PmmAssumption, LoaderAssumption
  <2>2. /\ k.start = LowEnd /\ k.end = KernelEnd
        /\ KernelRange.start = LowEnd /\ KernelRange.end = ReservedEnd
    BY <2>1 DEF Stretch, KernelRange
  <2>3. QED
    BY <2>1, <2>2, UnitsAreInts DEF In
<1>4. \A u \in Units : contents'[u] = IF In(u, k) THEN "kernel" ELSE contents[u]
  BY <1>1 DEF Write
<1>5. ImageIsWhole' /\ ModelIsHeld'
  BY <1>1, <1>2, <1>3, <1>4 DEF ImageIsWhole, ModelIsHeld, KernelRange
<1>6. reserved' => Arrived(model.end)'
  <2>1. SUFFICES ASSUME reserved PROVE Arrived(model.end)'
    BY <1>1
  <2>2. \A u \in Units : In(u, k) => types[u] = "loaderCode"
    BY <2>1, <1>3 DEF LoadInv
  <2>3. \A u \in Units : In(u, model) => ~ In(u, k)
    BY <2>2, <1>2 DEF ModelIsHeld
  <2>4. QED
    BY <2>3, <1>1, <1>2, <1>4 DEF Arrived
<1>7. QED
  BY <1>1, <1>2, <1>5, <1>6 DEF LoadInv, Holding, KernelRange

\* Ledger and memory stay, and the model with them.
LEMMA LoadSame ==
    ASSUME LoadInv, UNCHANGED <<types, contents, model, reserved>>, left' \in Int,
           \/ step' = step /\ left' = left
           \/ step' \notin Holding
           \/ step = "instruct" /\ step' = "kernel"
           \/ step \in Holding \ {"read"} /\ step' \in {"map", "exit"},
           modules' = modules
    PROVE  LoadInv'
<1>1. ImageIsWhole' = ImageIsWhole /\ ModelIsHeld' = ModelIsHeld
      /\ \A a : Arrived(a)' = Arrived(a)
      /\ KernelRange' = KernelRange
  BY DEF ImageIsWhole, ModelIsHeld, Arrived, KernelRange
<1>2. /\ DOMAIN types' = Units /\ model'.start \in Int /\ model'.end \in Int
      /\ left' \in Int /\ ImageIsWhole'
      /\ (reserved => \A u \in Units : In(u, KernelRange) => types[u] = "loaderCode")'
  BY <1>1 DEF LoadInv
<1>3. step' \in Holding => ModelIsHeld'
  BY <1>1 DEF LoadInv, Holding
<1>4. step' = "read" => model'.start <= model'.end - left'
                        /\ Arrived(model.end - left)'
  BY <1>1 DEF LoadInv, Holding, Arrived
<1>5. step' \in Holding \ {"read"} =>
          /\ model' \in modules'
          /\ reserved' \/ step' \in {"instruct", "kernel", "copy"} => Arrived(model.end)'
  BY <1>1 DEF LoadInv, Holding, Arrived
<1>6. QED
  BY <1>2, <1>3, <1>4, <1>5 DEF LoadInv

LEMMA LoadEfiMain ==
    ASSUME LoadInv, EfiMain
    PROVE  LoadInv'
<1>1. CASE Refuse \/ LoseVolume
  <2>1. UNCHANGED <<types, contents, model, reserved, left, step, modules>>
    BY <1>1 DEF Refuse, LoseVolume, loaderVars
  <2>2. QED
    BY <2>1, LoadSame DEF LoadInv
<1>2. ASSUME NEW n \in ModelSizes, SelectModel(n) PROVE LoadInv'
  <2>1. /\ UNCHANGED <<types, contents, model, reserved, modules>>
        /\ left' \in Int /\ step' \notin Holding
    BY <1>2, LoaderAssumption DEF SelectModel, Goes, Holding
  <2>2. QED
    BY <2>1, LoadSame
<1>3. ASSUME NEW s \in Units, AllocateModel(s) PROVE LoadInv'
  BY <1>3, LoadAllocateModel
<1>4. ASSUME NEW s \in Units, AllocateMapBuffer(s) PROVE LoadInv'
  <2> PICK r : r = Stretch(s, 1)
    OBVIOUS
  <2>1. /\ Free(r) /\ types' = Mark(r, "loaderData") /\ contents' = Write(r, "map")
        /\ step = "buffer" /\ step' = "map"
        /\ UNCHANGED <<model, left, reserved, modules>>
    BY <1>4 DEF AllocateMapBuffer, At, Goes
  <2>2. /\ step \in Holding \ {"read"} /\ step' \in Holding \ {"read"}
        /\ step' \notin {"instruct", "kernel", "copy"}
    BY <2>1 DEF Holding
  <2>3. model \in modules'
    BY <2>1, <2>2 DEF LoadInv
  <2>4. \A u \in Units : In(u, r) => In(u, r)
    OBVIOUS
  <2>5. QED
    BY <2>1, <2>2, <2>3, <2>4, TakingBesideModel
<1>5. ASSUME NEW n \in 1 .. left, ReadChunk(n) PROVE LoadInv'
  BY <1>5, LoadReadChunk
<1>6. CASE NoInstruct \/ GetMemoryMap
  <2>1. /\ UNCHANGED <<types, contents, model, reserved, left, modules>>
        /\ \/ step = "instruct" /\ step' = "kernel"
           \/ step \in Holding \ {"read"} /\ step' \in {"map", "exit"}
    BY <1>6 DEF NoInstruct, GetMemoryMap, Goes, At, Holding
  <2>2. QED
    BY <2>1, LoadSame DEF LoadInv
<1>7. ASSUME NEW s \in Units, NEW n \in InstructSizes, NEW ok \in BOOLEAN,
             NEW got \in 0 .. n, LoadInstruct(s, n, got, ok)
      PROVE  LoadInv'
  <2> PICK r : r = Stretch(s, n)
    OBVIOUS
  <2> PICK q : q = Stretch(s, got)
    OBVIOUS
  <2>1. /\ Free(r) /\ types' = Mark(r, "loaderData")
        /\ contents' = Write(q, "instruct")
        /\ step = "instruct" /\ step' = "kernel"
        /\ UNCHANGED <<model, left, reserved>> /\ modules \subseteq modules'
    BY <1>7 DEF LoadInstruct, At, Goes
  <2>2. /\ step \in Holding \ {"read"} /\ step' \in Holding \ {"read"}
        /\ step \in {"instruct", "kernel", "copy"}
    BY <2>1 DEF Holding
  <2>3. model \in modules'
    BY <2>1, <2>2 DEF LoadInv
  <2>4. \A u \in Units : In(u, q) => In(u, r)
    <3>1. n \in Int /\ s \in Int /\ got <= n /\ got \in Int
      BY UnitsAreInts, LoaderAssumption
    <3>2. r.start = s /\ r.end = s + n /\ q.start = s /\ q.end = s + got
      BY DEF Stretch
    <3>3. QED
      BY <3>1, <3>2, UnitsAreInts DEF In
  <2>5. QED
    BY <2>1, <2>2, <2>3, <2>4, TakingBesideModel
<1>8. CASE ReserveKernel
  BY <1>8, LoadReserveKernel
<1>9. CASE CopySegments
  BY <1>9, LoadCopySegments
<1>10. CASE ExitFails \/ ExitSucceeds
  <2>1. UNCHANGED <<types, contents, model, reserved, left, step, modules>>
    BY <1>10 DEF ExitFails, ExitSucceeds, loaderVars
  <2>2. QED
    BY <2>1, LoadSame DEF LoadInv
<1>11. QED
  BY <1>1, <1>2, <1>3, <1>4, <1>5, <1>6, <1>7, <1>8, <1>9, <1>10 DEF EfiMain

\* The firmware takes back neither what the loader holds nor what it is.
LEMMA LoadChangeLedger ==
    ASSUME LoadInv, NEW u \in Units, NEW t \in Types, ChangeLedger(u, t)
    PROVE  LoadInv'
<1>1. /\ types[u] \notin {"loaderCode", "loaderData"} /\ t # "loaderCode"
      /\ types' = [types EXCEPT ![u] = t]
      /\ UNCHANGED <<step, contents, model, left, reserved, modules>>
  BY DEF ChangeLedger
<1>2. /\ DOMAIN types' = Units
      /\ \A v \in Units : types[v] \in {"loaderCode", "loaderData"} =>
                             types'[v] = types[v]
      /\ \A v \in Units : types'[v] = "loaderCode" => types[v] = "loaderCode"
  BY <1>1 DEF LoadInv
<1>3. ImageIsWhole'
  BY <1>1, <1>2 DEF LoadInv, ImageIsWhole, KernelRange
<1>4. step' \in Holding => ModelIsHeld'
  BY <1>1, <1>2 DEF LoadInv, ModelIsHeld
<1>5. \A a : Arrived(a)' = Arrived(a)
  BY <1>1 DEF Arrived
<1>6. Arrived(model.end)' = Arrived(model.end)
      /\ Arrived(model.end - left)' = Arrived(model.end - left)
  BY <1>1 DEF Arrived
<1>7. (reserved => \A v \in Units : In(v, KernelRange) => types[v] = "loaderCode")'
  BY <1>1, <1>2 DEF LoadInv, KernelRange
<1>8. QED
  BY <1>1, <1>2, <1>3, <1>4, <1>6, <1>7 DEF LoadInv

LEMMA LoadGrub ==
    ASSUME LoadInv, NEW s \in Units, NEW n, NEW map, Grub(s, n, map)
    PROVE  LoadInv'
<1> PICK r : r = Stretch(s, n)
  OBVIOUS
<1>1. /\ Free(r) /\ contents' = Write(r, "module") /\ step = "grub"
      /\ UNCHANGED <<step, types, model, left, reserved>>
  BY DEF Grub, At
<1>2. step' \notin Holding
  BY <1>1 DEF Holding
<1>3. \A u \in Units : In(u, r) => types[u] = "conventional"
  BY <1>1 DEF Free
<1>4. \A u \in Units : types[u] = "loaderCode" => contents'[u] = contents[u]
  BY <1>1, <1>3 DEF Write
<1>5. ImageIsWhole'
  BY <1>1, <1>4 DEF LoadInv, ImageIsWhole, KernelRange
<1>6. QED
  BY <1>1, <1>2, <1>5 DEF LoadInv, Holding, KernelRange

LEMMA LoadNext == LoadInv /\ [Next]_vars => LoadInv'
<1> SUFFICES ASSUME LoadInv, [Next]_vars PROVE LoadInv'
  OBVIOUS
<1>1. CASE EfiMain
  BY <1>1, LoadEfiMain
<1>2. ASSUME NEW u \in Units, NEW t \in Types, ChangeLedger(u, t) PROVE LoadInv'
  BY <1>2, LoadChangeLedger
<1>3. ASSUME NEW s \in Units, NEW n \in InstructSizes \cup {0},
             NEW map \in BOOLEAN, Grub(s, n, map)
      PROVE  LoadInv'
  BY <1>3, LoadGrub
<1>4. CASE \/ PmmInit /\ UNCHANGED loaderVars
           \/ UNCHANGED vars
  <2>1. UNCHANGED <<types, contents, model, reserved, left, step, modules>>
    BY <1>4 DEF PmmInit, loaderVars, vars
  <2>2. QED
    BY <2>1, LoadSame DEF LoadInv
<1>5. QED
  BY <1>1, <1>2, <1>3, <1>4 DEF Next

\* efi_main: when the kernel is entered the whole model lies where boot_info
\* says, in however many reads it came, and no allocation, copy or change of
\* the firmware's has touched it or the loader's image, if the kernel's place
\* was granted.
THEOREM ModelIsWhole == Spec => []ModelArrivesWhole
<1>1. ASSUME LoadInv PROVE ModelArrivesWhole
  <2>1. SUFFICES ASSUME step = "exit", reserved
                 PROVE  /\ model \in modules
                        /\ \A u \in Units :
                              /\ In(u, model) => contents[u] = "model"
                              /\ types[u] = "loaderCode" /\ ~ In(u, KernelRange)
                                    => contents[u] = "loader"
    BY DEF ModelArrivesWhole
  <2>2. model \in modules /\ Arrived(model.end) /\ ImageIsWhole
    BY <1>1, <2>1 DEF LoadInv, Holding
  <2>3. QED
    BY <2>2 DEF Arrived, ImageIsWhole, In
<1>2. QED
  BY <1>1, LoadInit, LoadNext, PTL DEF Spec
=============================================================================
