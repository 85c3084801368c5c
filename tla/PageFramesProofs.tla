-------------------------- MODULE PageFramesProofs --------------------------
(***************************************************************************)
(* Proofs about PageFrames, for any finite set of frames, any order of the *)
(* list and any array long enough for them.                                *)
(***************************************************************************)
EXTENDS PageFrames, FiniteSetTheorems, TLAPS

FreeSet == {f \in Frames : holder[f] = "pmm"}

\* The count is what keeps the array from overflowing: it is the number of
\* frames nobody holds, and igputest holds two different ones.
IInv == /\ TypeOK /\ ListIsExact /\ TestHolds
        /\ count = Cardinality(FreeSet)
        /\ test # <<>> => test \in Frames \X Frames /\ test[1] # test[2]

LEMMA FreeSetFinite ==
    /\ IsFiniteSet(FreeSet) /\ Cardinality(FreeSet) \in Nat
    /\ Cardinality(FreeSet) <= Cardinality(Frames)
<1>1. FreeSet \in SUBSET Frames
  BY DEF FreeSet
<1>2. QED
  BY <1>1, FramesAssumption, FS_Subset, FS_CardinalityType

LEMMA InitIInv == Init => IInv
<1> SUFFICES ASSUME Init PROVE IInv
  OBVIOUS
<1>1. FreeSet = Frames
  BY DEF Init, FreeSet
<1>2. count \in Nat /\ count <= MaxFreeBlocks
  BY FramesAssumption, FS_CardinalityType DEF Init
<1>3. TypeOK
  BY <1>2, FramesAssumption DEF Init, TypeOK, Index
<1>4. TestHolds /\ test = <<>>
  BY DEF Init, TestHolds
<1>5. {free_blocks[i] : i \in Index} = Frames
  BY DEF Init, Index
<1>6. QED
  BY <1>1, <1>3, <1>4, <1>5 DEF Init, IInv, ListIsExact, Index

\* Removing the run of n entries at i: what is left is the rest of the list.
LEMMA CutFacts ==
    ASSUME IInv, NEW n \in Nat \ {0}, NEW i \in Index, i + n <= count, CutRun(i, n),
           NEW taken, taken = {free_blocks[k] : k \in i .. (i + n - 1)}
    PROVE  /\ count' \in Nat /\ count' = count - n
           /\ free_blocks' \in [Index' -> Frames]
           /\ \A a, b \in Index' : free_blocks'[a] = free_blocks'[b] => a = b
           /\ {free_blocks'[k] : k \in Index'} = FreeSet \ taken
           /\ taken \subseteq FreeSet
<1> USE DEF Index
<1>0. /\ count \in Nat /\ free_blocks \in [0 .. (count - 1) -> Frames]
      /\ \A a, b \in 0 .. (count - 1) : free_blocks[a] = free_blocks[b] => a = b
      /\ FreeSet = {free_blocks[k] : k \in 0 .. (count - 1)}
  BY FramesAssumption DEF IInv, TypeOK, ListIsExact, FreeSet
<1>1. count \in Nat /\ i \in Nat /\ count' = count - n /\ count' \in Nat
  BY <1>0 DEF CutRun
<1> DEFINE from(k) == IF k < i THEN k ELSE k + n
<1>2. \A k \in 0 .. (count' - 1) :
         /\ free_blocks'[k] = free_blocks[from(k)]
         /\ from(k) \in 0 .. (count - 1) /\ from(k) \notin i .. (i + n - 1)
  BY <1>0, <1>1 DEF CutRun
<1>3. free_blocks' \in [0 .. (count' - 1) -> Frames]
  BY <1>0, <1>1, <1>2 DEF CutRun
<1>4. \A a, b \in 0 .. (count' - 1) : free_blocks'[a] = free_blocks'[b] => a = b
  <2> SUFFICES ASSUME NEW a \in 0 .. (count' - 1), NEW b \in 0 .. (count' - 1),
                      free_blocks'[a] = free_blocks'[b]
               PROVE  a = b
    OBVIOUS
  <2>1. from(a) = from(b)
    <3> HIDE DEF from
    <3>1. QED
      BY <1>0, <1>2
  <2>2. QED
    BY <2>1, <1>1
<1>5. \A m \in (0 .. (count - 1)) \ (i .. (i + n - 1)) :
         \E k \in 0 .. (count' - 1) : from(k) = m
  <2> TAKE m \in (0 .. (count - 1)) \ (i .. (i + n - 1))
  <2>1. CASE m < i
    BY <2>1, <1>1
  <2>2. CASE ~(m < i)
    <3>1. m - n \in 0 .. (count' - 1) /\ from(m - n) = m
      BY <2>2, <1>1
    <3>2. QED
      BY <3>1
  <2>3. QED
    BY <2>1, <2>2
<1>6. taken \subseteq FreeSet
  <2>1. i .. (i + n - 1) \subseteq 0 .. (count - 1)
    BY <1>1
  <2> HIDE DEF from
  <2>2. QED
    BY <2>1, <1>0
<1>7. \A k \in 0 .. (count - 1) :
         free_blocks[k] \in taken <=> k \in i .. (i + n - 1)
  BY <1>0, <1>1
<1>8. {free_blocks'[k] : k \in 0 .. (count' - 1)} = FreeSet \ taken
  <2>1. ASSUME NEW k \in 0 .. (count' - 1)
        PROVE  free_blocks'[k] \in FreeSet \ taken
    <3>1. free_blocks'[k] = free_blocks[from(k)] /\ from(k) \in 0 .. (count - 1)
          /\ from(k) \notin i .. (i + n - 1)
      BY <1>2
    <3> HIDE DEF from
    <3>2. free_blocks[from(k)] \notin taken
      BY <3>1, <1>7
    <3>3. QED
      BY <3>1, <3>2, <1>0
  <2>2. ASSUME NEW x \in FreeSet \ taken
        PROVE  x \in {free_blocks'[k] : k \in 0 .. (count' - 1)}
    <3>1. PICK m \in 0 .. (count - 1) : x = free_blocks[m]
      BY <1>0
    <3>2. m \notin i .. (i + n - 1)
      BY <3>1, <1>7
    <3>3. PICK k \in 0 .. (count' - 1) : from(k) = m
      BY <3>2, <1>5
    <3>4. QED
      BY <3>1, <3>3, <1>2
  <2>3. QED
    BY <2>1, <2>2
<1>9. QED
  BY <1>1, <1>3, <1>4, <1>6, <1>8

LEMMA IgpuPreserves == IInv /\ IgpuTakes => IInv'
<1> SUFFICES ASSUME IInv, IgpuTakes PROVE IInv'
  OBVIOUS
<1>1. count \in Nat \ {0} /\ count - 1 \in Index /\ Top \in Frames
      /\ free_blocks[count - 1] = Top
  BY DEF IInv, TypeOK, IgpuTakes, Index, Top
<1>2. CutRun(count - 1, 1)
  BY <1>1 DEF IgpuTakes, Pop, CutRun
<1> DEFINE taken == {free_blocks[k] : k \in (count - 1) .. (count - 1 + 1 - 1)}
<1>3. taken = {Top}
  BY <1>1
<1>4. /\ count' \in Nat /\ count' = count - 1
      /\ free_blocks' \in [Index' -> Frames]
      /\ \A a, b \in Index' : free_blocks'[a] = free_blocks'[b] => a = b
      /\ {free_blocks'[k] : k \in Index'} = FreeSet \ {Top}
      /\ Top \in FreeSet
  <2> HIDE DEF taken
  <2>1. 1 \in Nat \ {0} /\ (count - 1) + 1 <= count
    BY <1>1
  <2>2. QED
    BY <1>1, <1>2, <1>3, <2>1, CutFacts DEF taken
<1>5. FreeSet' = FreeSet \ {Top}
  BY <1>1 DEF IInv, TypeOK, IgpuTakes, FreeSet
<1>6. count' = Cardinality(FreeSet')
  BY <1>4, <1>5, FreeSetFinite, FS_RemoveElement DEF IInv
<1>7. TypeOK'
  BY <1>4, <1>1, FramesAssumption DEF IInv, TypeOK, IgpuTakes
<1>8. ListIsExact'
  BY <1>4, <1>5 DEF ListIsExact, FreeSet
<1>9. TestHolds'
  BY <1>1 DEF IInv, TypeOK, TestHolds, IgpuTakes
<1>10. QED
  BY <1>6, <1>7, <1>8, <1>9 DEF IInv, IgpuTakes

LEMMA HeapPreserves ==
    ASSUME NEW n \in Nat \ {0}, NEW i \in 0 .. (count - 1),
           IInv, HeapTakes(n, i)
    PROVE  /\ IInv'
           /\ free_blocks[i] .. (free_blocks[i] + n - 1) \subseteq FreeSet
<1> DEFINE lo == free_blocks[i]
           run == lo .. (lo + n - 1)
           taken == {free_blocks[k] : k \in i .. (i + n - 1)}
<1>1. /\ count \in Nat /\ i \in Index /\ n \in Nat \ {0} /\ i + n <= count
      /\ lo \in Frames /\ lo \in Nat
  <2>1. count \in Nat
    BY FramesAssumption DEF IInv, TypeOK
  <2>2. n \in Nat \ {0}
    OBVIOUS
  <2>3. i \in Index /\ free_blocks[i] \in Frames
    BY DEF IInv, TypeOK, Index
  <2>4. QED
    BY <2>1, <2>2, <2>3, FramesAssumption DEF HeapTakes, GrantedAt
<1>2. \A j \in 0 .. (n - 1) : free_blocks[i + j] = lo + j
  BY <1>1 DEF HeapTakes, GrantedAt, IsRun
<1>3. taken = run
  <2>1. \A k \in i .. (i + n - 1) : free_blocks[k] = lo + (k - i)
    <3> TAKE k \in i .. (i + n - 1)
    <3>1. k - i \in 0 .. (n - 1) /\ i + (k - i) = k
      BY <1>1
    <3>2. QED
      BY <3>1, <1>2
  <2>2. ASSUME NEW x \in run PROVE x \in taken
    <3>1. i + (x - lo) \in i .. (i + n - 1) /\ free_blocks[i + (x - lo)] = x
      BY <1>1, <2>1
    <3>2. QED
      BY <3>1
  <2>3. ASSUME NEW k \in i .. (i + n - 1) PROVE free_blocks[k] \in run
    BY <2>1, <1>1
  <2>4. QED
    BY <2>2, <2>3
<1>4. /\ count' \in Nat /\ count' = count - n
      /\ free_blocks' \in [Index' -> Frames]
      /\ \A a, b \in Index' : free_blocks'[a] = free_blocks'[b] => a = b
      /\ {free_blocks'[k] : k \in Index'} = FreeSet \ taken
      /\ taken \subseteq FreeSet
  <2>1. CutRun(i, n)
    BY DEF HeapTakes
  <2> HIDE DEF taken
  <2>2. QED
    BY <1>1, <2>1, CutFacts DEF taken
<1>5. FreeSet' = FreeSet \ run
  BY <1>3, <1>4 DEF HeapTakes, FreeSet
<1>6. count' = Cardinality(FreeSet')
  <2>1. Cardinality(run) = n
    <3>1. lo \in Int /\ lo + n - 1 \in Int /\ ~(lo > lo + n - 1)
          /\ (lo + n - 1) - lo + 1 = n
      BY <1>1
    <3> DEFINE hi == lo + n - 1
    <3> HIDE DEF lo, hi
    <3>2. Cardinality(lo .. hi) = IF lo > hi THEN 0 ELSE hi - lo + 1
      BY <3>1, FS_Interval DEF hi
    <3>3. QED
      BY <3>1, <3>2 DEF hi
  <2>2. FreeSet \cap run = run
    BY <1>3, <1>4
  <2>3. QED
    <3> HIDE DEF run
    <3>1. Cardinality(FreeSet \ run)
            = Cardinality(FreeSet) - Cardinality(FreeSet \cap run)
      BY FreeSetFinite, FS_Difference
    <3>2. count = Cardinality(FreeSet)
      BY DEF IInv
    <3>3. QED
      BY <3>1, <3>2, <1>4, <1>5, <2>1, <2>2
<1>7. holder' \in [Frames -> {"pmm", "igpu", "heap", "test"}] /\ test' = test
  BY DEF IInv, TypeOK, HeapTakes
<1>8. TypeOK'
  BY <1>1, <1>4, <1>7, FramesAssumption DEF IInv, TypeOK
<1>9. ListIsExact'
  BY <1>3, <1>4, <1>5 DEF ListIsExact, FreeSet
<1>10. TestHolds'
  <2>1. \A f \in Frames : holder'[f] # "test"
    BY DEF IInv, TestHolds, HeapTakes
  <2>2. test' = <<>>
    BY DEF HeapTakes
  <2>3. QED
    BY <2>1, <2>2 DEF TestHolds
<1>11. QED
  BY <1>3, <1>4, <1>6, <1>8, <1>9, <1>10 DEF IInv, HeapTakes

LEMMA TestTakesPreserves ==
    ASSUME IInv, TestTakes
    PROVE  /\ IInv'
           /\ Top \in FreeSet /\ free_blocks[count - 2] \in FreeSet
           /\ Top # free_blocks[count - 2]
<1> DEFINE w == Top
           c == free_blocks[count - 2]
           taken == {free_blocks[k] : k \in (count - 2) .. (count - 2 + 2 - 1)}
<1>1. count \in Nat /\ count - 2 \in Index /\ count - 1 \in Index
      /\ w \in Frames /\ c \in Frames /\ w = free_blocks[count - 1]
  BY DEF IInv, TypeOK, TestTakes, Index, Top
<1>2. w # c
  BY <1>1 DEF IInv, ListIsExact
<1>3. taken = {w, c}
  <2>1. (count - 2) .. (count - 2 + 2 - 1) = {count - 2, count - 1}
    BY <1>1
  <2>2. QED
    BY <2>1, <1>1
<1>4. CutRun(count - 2, 2)
  <2>1. 2 <= count /\ count' = count - 2
        /\ free_blocks' = [k \in 0 .. (count - 2 - 1) |-> free_blocks[k]]
    BY DEF TestTakes, Pop
  <2>2. [k \in 0 .. (count - 2 - 1) |-> free_blocks[k]]
          = [k \in 0 .. (count - 2 - 1) |->
               free_blocks[IF k < count - 2 THEN k ELSE k + 2]]
    BY <1>1
  <2>3. QED
    BY <2>1, <2>2 DEF CutRun
<1>5. /\ count' \in Nat /\ count' = count - 2
      /\ free_blocks' \in [Index' -> Frames]
      /\ \A a, b \in Index' : free_blocks'[a] = free_blocks'[b] => a = b
      /\ {free_blocks'[k] : k \in Index'} = FreeSet \ taken
      /\ taken \subseteq FreeSet
  <2>1. 2 \in Nat \ {0} /\ (count - 2) + 2 <= count
    BY <1>1
  <2> HIDE DEF taken
  <2>2. QED
    BY <1>1, <1>4, <2>1, CutFacts DEF taken
<1>6. /\ test' = <<w, c>>
      /\ holder' = [holder EXCEPT ![w] = "test", ![c] = "test"]
  BY DEF TestTakes
<1>7. FreeSet' = (FreeSet \ {w}) \ {c}
  BY <1>1, <1>6 DEF IInv, TypeOK, FreeSet
<1>8. count' = Cardinality(FreeSet')
  <2>1. Cardinality(FreeSet \ {w}) = Cardinality(FreeSet) - 1
        /\ IsFiniteSet(FreeSet \ {w})
    <3>1. w \in FreeSet
      BY <1>3, <1>5
    <3> HIDE DEF w
    <3>2. QED
      BY <3>1, FreeSetFinite, FS_RemoveElement
  <2>2. Cardinality((FreeSet \ {w}) \ {c}) = Cardinality(FreeSet \ {w}) - 1
    <3>1. c \in FreeSet \ {w}
      BY <1>2, <1>3, <1>5
    <3> HIDE DEF w, c
    <3>2. QED
      BY <3>1, <2>1, FS_RemoveElement
  <2>3. QED
    BY <1>5, <1>7, <2>1, <2>2, FreeSetFinite DEF IInv
<1>9. TypeOK'
  <2>1. count' \in 0 .. MaxFreeBlocks
    BY <1>1, <1>5, FramesAssumption DEF IInv, TypeOK
  <2>2. test' \in Frames \X Frames
    BY <1>1, <1>6
  <2>3. QED
    BY <2>1, <2>2, <1>1, <1>5, <1>6 DEF IInv, TypeOK
<1>10. ListIsExact'
  BY <1>3, <1>5, <1>7 DEF ListIsExact, FreeSet
<1>11. TestHolds'
  <2>1. \A f \in Frames : holder[f] # "test"
    BY DEF IInv, TestHolds, TestTakes
  <2>2. test' # <<>> /\ test'[1] = w /\ test'[2] = c
    BY <1>6
  <2>3. QED
    BY <1>1, <1>6, <2>1, <2>2 DEF IInv, TypeOK, TestHolds
<1>12. QED
  BY <1>1, <1>2, <1>3, <1>5, <1>6, <1>8, <1>9, <1>10, <1>11 DEF IInv

LEMMA TestFreesPreserves == IInv /\ TestFrees => IInv'
<1> SUFFICES ASSUME IInv, TestFrees PROVE IInv'
  OBVIOUS
<1> DEFINE w == test[1]
           c == test[2]
<1>1. /\ w \in Frames /\ c \in Frames /\ w # c
      /\ holder[w] = "test" /\ holder[c] = "test"
  BY DEF IInv, TestHolds, TestFrees
<1>2. count \in Nat
  BY FramesAssumption DEF IInv, TypeOK
<1>3. FreeSet' = (FreeSet \cup {w}) \cup {c}
  BY <1>1 DEF IInv, TypeOK, FreeSet, TestFrees
<1>4. Cardinality(FreeSet') = count + 2 /\ Cardinality(FreeSet') <= MaxFreeBlocks
  <2>1. w \notin FreeSet /\ c \notin FreeSet \cup {w}
    BY <1>1 DEF FreeSet
  <2>2. Cardinality(FreeSet \cup {w}) = count + 1 /\ IsFiniteSet(FreeSet \cup {w})
    <3>1. count = Cardinality(FreeSet)
      BY DEF IInv
    <3> HIDE DEF w, c
    <3>2. QED
      BY <3>1, <2>1, FreeSetFinite, FS_AddElement
  <2>3. Cardinality((FreeSet \cup {w}) \cup {c}) = count + 2
    <3> HIDE DEF w, c
    <3>1. Cardinality((FreeSet \cup {w}) \cup {c}) = Cardinality(FreeSet \cup {w}) + 1
      BY <2>1, <2>2, FS_AddElement
    <3>2. QED
      BY <3>1, <2>2, <1>2
  <2>4. FreeSet' \in SUBSET Frames
    BY DEF FreeSet
  <2>5. Cardinality(FreeSet') <= Cardinality(Frames)
    BY <2>4, FramesAssumption, FS_Subset
  <2>6. Cardinality(Frames) \in Nat
    BY FramesAssumption, FS_CardinalityType
  <2>7. QED
    BY <1>2, <1>3, <2>3, <2>5, <2>6, FramesAssumption
<1>5. /\ count' = count + 2
      /\ free_blocks' = [k \in 0 .. (count + 1) |->
                           IF k < count THEN free_blocks[k]
                           ELSE IF k = count THEN w ELSE c]
  <2>1. MaxFreeBlocks - count >= 2
    BY <1>2, <1>4, FramesAssumption
  <2>2. Push(w, c)
    BY DEF TestFrees
  <2>3. QED
    BY <1>2, <2>1, <2>2, FramesAssumption DEF Push
<1>6. free_blocks' \in [Index' -> Frames]
  BY <1>1, <1>2, <1>5 DEF IInv, TypeOK, Index
<1>7. TypeOK'
  BY <1>1, <1>2, <1>4, <1>5, <1>6, FramesAssumption DEF IInv, TypeOK, TestFrees
<1>8. \A k \in Index : free_blocks[k] \in FreeSet
  BY DEF IInv, ListIsExact, FreeSet
<1>9. w \notin FreeSet /\ c \notin FreeSet
  BY <1>1 DEF FreeSet
<1>10. \A a, b \in Index' : free_blocks'[a] = free_blocks'[b] => a = b
  <2>1. \A a, b \in Index : free_blocks[a] = free_blocks[b] => a = b
    BY DEF IInv, ListIsExact
  <2>2. QED
    BY <2>1, <1>1, <1>2, <1>5, <1>8, <1>9 DEF Index
<1>11. {free_blocks'[k] : k \in Index'} = FreeSet'
  <2>1. \A k \in Index' : free_blocks'[k] \in FreeSet'
    BY <1>2, <1>3, <1>5, <1>8 DEF Index
  <2>2. ASSUME NEW f \in FreeSet' PROVE f \in {free_blocks'[k] : k \in Index'}
    <3>1. CASE f \in FreeSet
      <4>1. PICK k \in Index : f = free_blocks[k]
        BY <3>1 DEF IInv, ListIsExact, FreeSet
      <4>2. k \in Index' /\ free_blocks'[k] = f
        BY <4>1, <1>2, <1>5 DEF Index
      <4>3. QED
        BY <4>2
    <3>2. CASE f = w
      <4>1. count \in Index' /\ free_blocks'[count] = f
        BY <3>2, <1>2, <1>5 DEF Index
      <4>2. QED
        BY <4>1
    <3>3. CASE f = c
      <4>1. count + 1 \in Index' /\ free_blocks'[count + 1] = f
        BY <3>3, <1>2, <1>5 DEF Index
      <4>2. QED
        BY <4>1
    <3>4. QED
      BY <3>1, <3>2, <3>3, <1>3
  <2>3. QED
    BY <2>1, <2>2
<1>12. ListIsExact'
  BY <1>10, <1>11 DEF ListIsExact, FreeSet
<1>13. TestHolds'
  BY <1>1 DEF IInv, TypeOK, TestHolds, TestFrees
<1>14. QED
  BY <1>4, <1>5, <1>7, <1>12, <1>13 DEF IInv, TestFrees

LEMMA Invariance == Spec => []IInv
<1>1. IInv /\ [Next]_vars => IInv'
  <2>1. IInv /\ UNCHANGED vars => IInv'
    BY DEF IInv, TypeOK, ListIsExact, TestHolds, FreeSet, Index, vars
  <2>2. QED
    <3>1. ASSUME IInv, NEW n \in 1 .. MaxRun, NEW i \in 0 .. (count - 1),
                 HeapTakes(n, i)
          PROVE  IInv'
      <4>1. n \in Nat \ {0}
        BY FramesAssumption
      <4>2. QED
        BY <3>1, <4>1, HeapPreserves
    <3>2. QED
      BY <2>1, <3>1, IgpuPreserves, TestTakesPreserves, TestFreesPreserves
         DEF Next
<1>2. QED
  BY InitIInv, <1>1, PTL DEF Spec

\* The count never leaves the array, and every entry is a managed page.
THEOREM TypeCorrect == Spec => []TypeOK
<1>1. IInv => TypeOK
  BY DEF IInv
<1>2. QED
  BY Invariance, <1>1, PTL

\* No page is in two hands, lost, or listed twice, whatever the map's order
\* and however requests and igputests alternate.
THEOREM ListExact == Spec => []ListIsExact
<1>1. IInv => ListIsExact
  BY DEF IInv
<1>2. QED
  BY Invariance, <1>1, PTL

\* The list implements the set of frames with one holder each.
THEOREM ListImplementsFrameSet == Spec => ImplementsFrameSet
<1>1. Init => Abstract!Init
  BY DEF Init, Abstract!Init
<1>2. IInv /\ [Next]_vars => [Abstract!Next]_holder
  <2> SUFFICES ASSUME IInv, Next PROVE Abstract!Next
    BY DEF vars
  <2>1. CASE IgpuTakes
    <3>1. Top \in Frames /\ holder[Top] = "pmm" /\ Top \in Nat
      <4>1. count \in Nat /\ count > 0
        BY <2>1, FramesAssumption DEF IInv, TypeOK, IgpuTakes
      <4>2. count - 1 \in Index /\ free_blocks \in [Index -> Frames]
        BY <4>1 DEF IInv, TypeOK, Index
      <4>3. Top \in Frames /\ Top \in {free_blocks[k] : k \in Index}
        BY <4>2 DEF Top
      <4>4. QED
        BY <4>3, FramesAssumption DEF IInv, ListIsExact
    <3>2. Top .. Top = {Top}
      BY <3>1
    <3>3. Abstract!Grant("igpu", Top, Top)
      <4>1. holder' = [holder EXCEPT ![Top] = "igpu"] /\ DOMAIN holder = Frames
            /\ holder = [f \in Frames |-> holder[f]]
        BY <2>1 DEF IgpuTakes, IInv, TypeOK
      <4>2. holder' = [f \in Frames |-> IF f \in Top .. Top THEN "igpu" ELSE holder[f]]
        BY <3>1, <3>2, <4>1
      <4>3. QED
        BY <3>1, <3>2, <4>2 DEF Abstract!Grant, Abstract!IsFree
    <3>4. QED
      BY <3>1, <3>3 DEF Abstract!Next
  <2>2. ASSUME NEW n \in 1 .. MaxRun, NEW i \in 0 .. (count - 1), HeapTakes(n, i)
        PROVE  Abstract!Next
    <3> DEFINE lo == free_blocks[i]
               hi == lo + n - 1
    <3>1. lo .. hi \subseteq FreeSet
      <4>1. n \in Nat \ {0}
        BY FramesAssumption
      <4>2. QED
        BY <2>2, <4>1, HeapPreserves
    <3>2. lo \in Nat /\ lo \in Frames
      BY FramesAssumption DEF IInv, TypeOK, Index
    <3>3. hi \in lo .. hi /\ lo <= hi
      BY <3>2, FramesAssumption
    <3>4. Abstract!Grant("heap", lo, hi)
      BY <2>2, <3>1, <3>3 DEF HeapTakes, FreeSet, Abstract!Grant, Abstract!IsFree
    <3>5. hi \in Frames
      BY <3>1, <3>3 DEF FreeSet
    <3> HIDE DEF lo, hi
    <3>6. QED
      BY <3>2, <3>4, <3>5 DEF Abstract!Next
  <2>3. CASE TestTakes
    <3>1. Abstract!GrantPair("test", Top, free_blocks[count - 2])
      BY <2>3, TestTakesPreserves DEF TestTakes, FreeSet, Abstract!GrantPair,
         Abstract!IsFree
    <3>2. QED
      BY <2>3, <3>1, TestTakesPreserves DEF Abstract!Next, FreeSet
  <2>4. CASE TestFrees
    <3>1. test[1] \in Frames /\ test[2] \in Frames
          /\ {f \in Frames : holder[f] = "test"} = {test[1], test[2]}
      BY <2>4 DEF IInv, TestHolds, TestFrees
    <3>2. Abstract!Return("test")
      BY <2>4, <3>1 DEF TestFrees, IInv, TypeOK, Abstract!Return
    <3>3. QED
      BY <3>2 DEF Abstract!Next
  <2>5. QED
    BY <2>1, <2>2, <2>3, <2>4 DEF Next
<1>3. QED
  BY Invariance, <1>1, <1>2, PTL DEF Spec, ImplementsFrameSet, Abstract!Spec
=============================================================================
