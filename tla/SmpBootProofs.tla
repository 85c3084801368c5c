--------------------------- MODULE SmpBootProofs ----------------------------
(***************************************************************************)
(* Proofs about SmpBoot, for every number of cores lapic_ids can hold and  *)
(* every choice of dead cores.                                             *)
(***************************************************************************)
EXTENDS SmpBoot, FiniteSetTheorems, TLAPS

\* The two counters are the sizes of two sets of cores, and the indices drawn
\* are the numbers below the next one, each drawn once.
Counters == /\ cores_ready = 1 + Cardinality(Reported)
            /\ ap_stack_index = 1 + Cardinality(Indexed)

Drawn == /\ \A c \in Indexed : index[c] \in 1 .. (ap_stack_index - 1)
         /\ \A c, d \in Indexed : index[c] = index[d] => c = d
         /\ \A c \in Aps : ap[c] = "emulator" => index[c] = EmulatorCore

\* What the boot core remembers lies between what it has counted and what has
\* been reported, for as long as it needs it.
Count == /\ total_cores <= cores_ready
         /\ bsp \in {"wake", "wait", "check"} =>
               total_cores <= prev_cores /\ prev_cores <= cores_ready

\* No core is woken twice.
Ahead == \A c \in Aps : c > i \/ (c = i /\ bsp \in {"next", "wake"})
                            => ap[c] = "halted"

IInv == TypeOK /\ Counters /\ Drawn /\ Count /\ Ahead

LEMMA SetsOfCores ==
    ASSUME NEW S \in SUBSET Aps
    PROVE  /\ IsFiniteSet(S) /\ Cardinality(S) \in Nat
           /\ Cardinality(S) <= MaxListed - 1
           /\ \A c \in Aps \ S : /\ Cardinality(S \cup {c}) = Cardinality(S) + 1
                                 /\ Cardinality(S) < MaxListed - 1
<1>1. IsFiniteSet(Aps) /\ Cardinality(Aps) \in Nat
      /\ Cardinality(Aps) <= MaxListed - 1
  <2>1. Listed \in Nat /\ Listed <= 32
    BY ListedAssumption DEF MaxListed
  <2>2. IsFiniteSet(1 .. (Listed - 1))
        /\ Cardinality(1 .. (Listed - 1)) =
             IF 1 > Listed - 1 THEN 0 ELSE (Listed - 1) - 1 + 1
    BY <2>1, FS_Interval
  <2>3. QED
    BY <2>1, <2>2 DEF Aps, MaxListed
<1>2. \A T \in SUBSET Aps :
         /\ IsFiniteSet(T) /\ Cardinality(T) \in Nat
         /\ Cardinality(T) <= Cardinality(Aps)
  BY <1>1, FS_Subset, FS_CardinalityType
<1>3. \A c \in Aps \ S : Cardinality(S \cup {c}) = Cardinality(S) + 1
  BY <1>2, FS_AddElement
<1>4. \A c \in Aps \ S : S \cup {c} \in SUBSET Aps
  OBVIOUS
<1>5. QED
  BY <1>1, <1>2, <1>3, <1>4 DEF MaxListed

LEMMA InitIInv == Init => IInv
<1> SUFFICES ASSUME Init PROVE IInv
  OBVIOUS
<1>1. Reported = {} /\ Indexed = {}
  BY DEF Init, Reported, Indexed
<1>2. Cardinality({}) = 0
  BY FS_EmptySet
<1>3. TypeOK
  BY DEF Init, TypeOK, MaxListed
<1>4. Counters /\ Drawn /\ Count /\ Ahead
  BY <1>1, <1>2 DEF Init, Counters, Drawn, Count, Ahead
<1>5. QED
  BY <1>3, <1>4 DEF IInv

\* A step of the boot core that wakes nobody leaves the sets alone.
LEMMA NextIInv == IInv /\ [Next]_vars => IInv'
<1> SUFFICES ASSUME IInv, [Next]_vars PROVE IInv'
  OBVIOUS
<1>0. TypeOK /\ Counters /\ Drawn /\ Count /\ Ahead
  BY DEF IInv
<1>i. \A k \in Aps : k \in 1 .. MaxListed /\ k + 1 \in 1 .. MaxListed
  BY ListedAssumption DEF Aps, MaxListed
<1>1. CASE Remember
  <2>1. bsp' = "wake" /\ i \in Aps /\ prev_cores' = cores_ready
        /\ UNCHANGED <<i, total_cores, cores_ready, ap_stack_index,
                       ap, index, dead>>
    BY <1>0, <1>1, ListedAssumption DEF Remember, TypeOK, Aps, MaxListed
  <2>2. TypeOK'
    BY <1>0, <2>1 DEF TypeOK, MaxListed
  <2>3. Counters' /\ Drawn'
    BY <1>0, <2>1 DEF Counters, Drawn, Reported, Indexed
  <2>4. Count' /\ Ahead'
    BY <1>0, <1>1, <2>1 DEF Remember, Count, Ahead, TypeOK, MaxListed
  <2>5. QED
    BY <2>2, <2>3, <2>4 DEF IInv
<1>2. CASE WakeupAp
  <2>1. bsp' = "wait" /\ i \in Aps /\ ap' = [ap EXCEPT ![i] = "woken"]
        /\ UNCHANGED <<i, prev_cores, total_cores, cores_ready,
                       ap_stack_index, index, dead>>
    BY <1>0, <1>2 DEF WakeupAp, TypeOK
  <2>2. TypeOK'
    BY <1>0, <2>1 DEF TypeOK
  <2>3. ap[i] = "halted"
    BY <1>0, <1>2, <2>1 DEF Ahead, WakeupAp
  <2>4. Reported' = Reported /\ Indexed' = Indexed
    BY <1>0, <2>1, <2>3 DEF TypeOK, Reported, Indexed
  <2>5. Counters' /\ Drawn'
    BY <1>0, <2>1, <2>4 DEF Counters, Drawn, TypeOK
  <2>6. Count'
    BY <1>0, <1>2, <2>1 DEF Count, WakeupAp
  <2>7. Ahead'
    BY <1>0, <1>i, <2>1 DEF Ahead, TypeOK
  <2>8. QED
    BY <2>2, <2>5, <2>6, <2>7 DEF IInv
<1>3. CASE SeesReady \/ TimesOut
  <2>1. bsp = "wait" /\ bsp' = "check"
        /\ UNCHANGED <<i, prev_cores, total_cores, cores_ready,
                       ap_stack_index, ap, index, dead>>
    BY <1>3 DEF SeesReady, TimesOut
  <2>2. TypeOK' /\ Count' /\ Ahead'
    BY <1>0, <2>1 DEF TypeOK, Count, Ahead
  <2>3. Counters' /\ Drawn'
    BY <1>0, <2>1 DEF Counters, Drawn, Reported, Indexed
  <2>4. QED
    BY <2>2, <2>3 DEF IInv
<1>4. CASE CountCore
  <2>1. bsp = "check" /\ bsp' = "next" /\ i \in Aps /\ i' = i + 1
        /\ UNCHANGED <<prev_cores, cores_ready, ap_stack_index, ap, index, dead>>
    BY <1>0, <1>4 DEF CountCore, TypeOK
  <2>2. total_cores' \in 1 .. MaxListed /\ total_cores' <= cores_ready
    BY <1>0, <1>4 DEF CountCore, TypeOK, Count, MaxListed
  <2>3. TypeOK'
    BY <1>0, <1>i, <2>1, <2>2 DEF TypeOK
  <2>4. Counters' /\ Drawn'
    BY <1>0, <2>1 DEF Counters, Drawn, Reported, Indexed
  <2>5. Count' /\ Ahead'
    BY <1>0, <1>i, <2>1, <2>2 DEF Count, Ahead, TypeOK, MaxListed
  <2>6. QED
    BY <2>3, <2>4, <2>5 DEF IInv
<1>5. CASE GoOn
  <2>1. bsp' = "shell"
        /\ UNCHANGED <<i, prev_cores, total_cores, cores_ready,
                       ap_stack_index, ap, index, dead>>
    BY <1>5 DEF GoOn
  <2>2. TypeOK' /\ Count' /\ Ahead'
    BY <1>0, <2>1 DEF TypeOK, Count, Ahead
  <2>3. Counters' /\ Drawn'
    BY <1>0, <2>1 DEF Counters, Drawn, Reported, Indexed
  <2>4. QED
    BY <2>2, <2>3 DEF IInv
<1>6. ASSUME NEW c \in Aps, Report(c) PROVE IInv'
  <2>1. /\ ap[c] = "woken" /\ ap' = [ap EXCEPT ![c] = "counted"]
        /\ UNCHANGED <<bsp, i, prev_cores, total_cores, ap_stack_index,
                       index, dead>>
    BY <1>6 DEF Report, bspVars
  <2>2. Reported' = Reported \cup {c} /\ Indexed' = Indexed
        /\ c \in Aps \ Reported
    BY <1>0, <2>1 DEF TypeOK, Reported, Indexed
  <2>3. /\ Cardinality(Reported') = Cardinality(Reported) + 1
        /\ Cardinality(Reported) < MaxListed - 1
        /\ Cardinality(Reported) \in Nat
    BY <2>2, SetsOfCores, Reported \in SUBSET Aps DEF Reported
  <2>4. cores_ready' = cores_ready + 1 /\ cores_ready' \in 1 .. MaxListed
    BY <1>0, <1>6, <2>3 DEF Report, Counters, MaxListed
  <2>5. TypeOK'
    BY <1>0, <2>1, <2>4 DEF TypeOK
  <2>6. Counters'
    BY <1>0, <2>1, <2>2, <2>3, <2>4 DEF Counters
  <2>7. Drawn'
    BY <1>0, <2>1, <2>2 DEF Drawn, TypeOK
  <2>8. Count' /\ Ahead'
    BY <1>0, <2>1, <2>4 DEF Count, Ahead, TypeOK, MaxListed
  <2>9. QED
    BY <2>5, <2>6, <2>7, <2>8 DEF IInv
<1>7. ASSUME NEW c \in Aps, DrawIndex(c) PROVE IInv'
  <2>1. /\ ap[c] = "counted" /\ ap' = [ap EXCEPT ![c] = "stack"]
        /\ index' = [index EXCEPT ![c] = ap_stack_index]
        /\ ap_stack_index' = ap_stack_index + 1
        /\ UNCHANGED <<bsp, i, prev_cores, total_cores, cores_ready, dead>>
    BY <1>7 DEF DrawIndex, bspVars
  <2>2. Reported' = Reported /\ Indexed' = Indexed \cup {c}
        /\ c \in Aps \ Indexed
    BY <1>0, <2>1 DEF TypeOK, Reported, Indexed
  <2>3. /\ Cardinality(Indexed') = Cardinality(Indexed) + 1
        /\ Cardinality(Indexed) < MaxListed - 1
        /\ Cardinality(Indexed) \in Nat
    BY <2>2, SetsOfCores, Indexed \in SUBSET Aps DEF Indexed
  <2>4. /\ ap_stack_index \in 1 .. (MaxListed - 1)
        /\ ap_stack_index' \in 1 .. MaxListed
    BY <1>0, <2>1, <2>3 DEF Counters, MaxListed
  <2>5. TypeOK'
    BY <1>0, <2>1, <2>4 DEF TypeOK, MaxListed
  <2>6. Counters'
    BY <1>0, <2>1, <2>2, <2>3 DEF Counters
  <2>7. Drawn'
    <3>1. \A d \in Indexed : index'[d] = index[d] /\ index[d] < ap_stack_index
      BY <1>0, <2>1, <2>2, <2>4 DEF Drawn, TypeOK, Indexed, MaxListed
    <3>2. index'[c] = ap_stack_index
      BY <1>0, <2>1 DEF TypeOK
    <3>3. \A d \in Indexed' : index'[d] \in 1 .. (ap_stack_index' - 1)
      BY <1>0, <2>1, <2>2, <2>4, <3>1, <3>2 DEF Drawn, MaxListed
    <3>4. \A d, e \in Indexed' : index'[d] = index'[e] => d = e
      BY <1>0, <2>2, <2>4, <3>1, <3>2 DEF Drawn, MaxListed
    <3>5. \A d \in Aps : ap'[d] = "emulator" => index'[d] = EmulatorCore
      BY <1>0, <2>1 DEF Drawn, TypeOK
    <3>6. QED
      BY <3>3, <3>4, <3>5 DEF Drawn
  <2>8. Count' /\ Ahead'
    BY <1>0, <2>1 DEF Count, Ahead, TypeOK
  <2>9. QED
    BY <2>5, <2>6, <2>7, <2>8 DEF IInv
<1>8. ASSUME NEW c \in Aps, ApMain(c) PROVE IInv'
  <2>1. /\ ap[c] = "stack"
        /\ ap' = [ap EXCEPT ![c] =
                    IF index[c] = EmulatorCore THEN "emulator" ELSE "worker"]
        /\ UNCHANGED <<bsp, i, prev_cores, total_cores, cores_ready,
                       ap_stack_index, index, dead>>
    BY <1>8 DEF ApMain, bspVars
  <2>2. Reported' = Reported /\ Indexed' = Indexed
    BY <1>0, <2>1 DEF TypeOK, Reported, Indexed
  <2>3. TypeOK'
    BY <1>0, <2>1 DEF TypeOK
  <2>4. Counters' /\ Count' /\ Ahead'
    BY <1>0, <2>1, <2>2 DEF Counters, Count, Ahead, TypeOK
  <2>5. Drawn'
    BY <1>0, <2>1, <2>2 DEF Drawn, TypeOK
  <2>6. QED
    BY <2>3, <2>4, <2>5 DEF IInv
<1>9. CASE UNCHANGED vars
  BY <1>0, <1>9 DEF vars, bspVars, IInv, TypeOK, Counters, Drawn, Count,
                    Ahead, Reported, Indexed
<1>10. QED
  BY <1>1, <1>2, <1>3, <1>4, <1>5, <1>6, <1>7, <1>8, <1>9
     DEF Next, BspStep, ApStep

LEMMA Invariance == Spec => []IInv
<1>1. QED
  BY InitIInv, NextIInv, PTL DEF Spec

-----------------------------------------------------------------------------
(* The theorems. *)

\* The variables keep their types: neither cores_ready nor the index overflows.
THEOREM TypeCorrect == Spec => []TypeOK
<1>1. IInv => TypeOK
  BY DEF IInv
<1>2. QED
  BY <1>1, Invariance, PTL

\* With as many cores as lapic_ids holds, no two share a stack and none runs
\* past ap_stacks: one array's length is what makes the other long enough.
THEOREM StacksNeverOverlap == Spec => []StacksApart
<1>1. ASSUME IInv PROVE StacksApart
  <2>1. \A c \in Indexed : index[c] \in 1 .. 31
    BY <1>1 DEF IInv, Drawn, TypeOK, MaxListed
  <2>2. \A c \in Indexed : StackTop(c) <= StackArea
    BY <2>1 DEF StackTop, StackBase, StackArea, StackSize
  <2>3. ASSUME NEW c \in Indexed, NEW d \in Indexed, c # d
        PROVE  StackTop(c) <= StackBase(d) \/ StackTop(d) <= StackBase(c)
    <3>1. index[c] # index[d]
      BY <1>1, <2>3 DEF IInv, Drawn
    <3>2. index[c] + 1 <= index[d] \/ index[d] + 1 <= index[c]
      BY <2>1, <3>1
    <3>3. QED
      BY <2>1, <3>2 DEF StackTop, StackBase, StackSize
  <2>4. QED
    BY <2>2, <2>3 DEF StacksApart
<1>2. QED
  BY <1>1, Invariance, PTL

\* At most one core runs igpu_run_simulated.
THEOREM EmulatorUnique == Spec => []OneEmulator
<1>1. ASSUME IInv PROVE OneEmulator
  <2>1. \A c \in Aps : ap[c] = "emulator" => c \in Indexed
    BY DEF Indexed
  <2>2. QED
    BY <1>1, <2>1 DEF IInv, Drawn, OneEmulator
<1>2. QED
  BY <1>1, Invariance, PTL

\* kmain's count of active cores never exceeds the cores that have reported.
THEOREM CountNeverExceeds == Spec => []CountIsEarned
<1>1. IInv => CountIsEarned
  BY DEF IInv, Counters, Count, CountIsEarned
<1>2. QED
  BY <1>1, Invariance, PTL
=============================================================================
