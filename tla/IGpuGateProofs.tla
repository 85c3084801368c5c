--------------------------- MODULE IGpuGateProofs ---------------------------
(***************************************************************************)
(* Proofs about IGpuGate, for any gates, jobs, contents and core count.    *)
(***************************************************************************)
EXTENDS IGpuGate, TLAPS

LEMMA JobFacts ==
    ASSUME NEW j \in Jobs
    PROVE  /\ j["rows"] \in Nat \ {0}
           /\ j["input"] \in Inputs /\ j["output"] \in Outputs
           /\ 0 .. (j["rows"] - 1) \subseteq Rows
           /\ \A f \in Field : j[f] \in Word
           /\ \A x \in Contents, r \in Rows : Dot(j["weights"], x, r) \in Element
BY GateAssumption DEF Inputs, Outputs, Rows, Word, Element

LEMMA InitIInv == Init => IInv
<1> SUFFICES ASSUME Init PROVE IInv
  OBVIOUS
<1>1. TypeOK
  <2>1. NoWords \in [Field -> Word] /\ [r \in Rows |-> Null] \in [Rows -> Element]
    BY DEF NoWords, Word, Element
  <2>2. cur \in Gates /\ active \in Gates \cup {Null} /\ ptr \in Gates \cup {Null}
        /\ egate \in Gates \cup {Null}
    BY DEF Init, Gates
  <2>3. owner \in [Gates -> {"CPU", "GPU"}]
    BY DEF Init
  <2>4. page \in [TestGates -> {"free", "test", "heap"}]
    BY DEF Init
  <2>5. status \in [Gates -> {"IDLE", "PROCESSING", "COMPLETE"}]
    BY DEF Init
  <2>6. desc \in [Gates -> [Field -> Word]] /\ out \in [Outputs -> [Rows -> Element]]
        /\ reg \in [Field -> Word]
    BY <2>1 DEF Init
  <2>7. job \in Jobs /\ row = 0 /\ 0 \in 0 .. job["rows"]
    BY JobFacts DEF Init
  <2>8. \E j \in Jobs : row \in 0 .. j["rows"]
    BY <2>7
  <2>9. QED
    BY <2>2, <2>3, <2>4, <2>5, <2>6, <2>7, <2>8 DEF Init, TypeOK
<1>2. QED
  BY <1>1, GateAssumption DEF Init, IInv, CpuInv, EmulatorInv,
     ServesTheSubmittedGate, ReturnsTheProduct, Published, Submitted, Working,
     InCall

\* One lemma for the type and one for each half of the rest.
LEMMA TypePreserved == IInv /\ [Next]_vars => TypeOK'
<1> SUFFICES ASSUME IInv, [Next]_vars PROVE TypeOK'
  OBVIOUS
<1> USE DEF IInv, TypeOK
<1>1. ASSUME NEW g \in TestGates, NEW j \in TestJobs, StartTest(g, j)
      PROVE  TypeOK'
  BY <1>1, GateAssumption DEF StartTest, emuVars, Gates, Jobs, Element, Inputs, Outputs
<1>2. CASE StartLlm
  BY <1>2 DEF StartLlm, memVars, emuVars
<1>3. ASSUME NEW j \in MatVecJobs, NEW x \in Contents, CallMatVec(j, x)
      PROVE  TypeOK'
  BY <1>3 DEF CallMatVec, emuVars, Gates, Jobs, Inputs
<1>4. CASE ResetGate
  BY <1>4 DEF ResetGate, emuVars
<1>5. ASSUME NEW f \in Field, StoreWord(f)
      PROVE  TypeOK'
  <2>1. job[f] \in Word
    BY JobFacts
  <2>2. QED
    BY <1>5, <2>1 DEF StoreWord, emuVars
<1>6. CASE Publish
  BY <1>6 DEF Publish, emuVars
<1>7. CASE MarkProcessing
  BY <1>7 DEF MarkProcessing, emuVars
<1>8. CASE HandOver
  BY <1>8 DEF HandOver, emuVars
<1>9. CASE PressKey
  BY <1>9 DEF PressKey, memVars, emuVars
<1>10. CASE WaitReturns
  BY <1>10 DEF WaitReturns, memVars, emuVars
<1>11. CASE FreePages
  BY <1>11 DEF FreePages, memVars, emuVars
<1>12. ASSUME NEW g \in TestGates, HeapTakes(g)
       PROVE  TypeOK'
  BY <1>12 DEF HeapTakes, memVars, emuVars
<1>13. ASSUME NEW g \in TestGates, NEW w \in {"CPU", "GPU"}, HeapWrites(g, w)
       PROVE  TypeOK'
  BY <1>13 DEF HeapWrites, cpuVars, emuVars
<1>14. CASE EndLlm
  BY <1>14 DEF EndLlm, memVars, emuVars
<1>15. CASE LoadGate
  BY <1>15 DEF LoadGate, cpuVars, memVars
<1>16. CASE TestOwner
  BY <1>16 DEF TestOwner, cpuVars, memVars
<1>17. CASE ReloadGate
  BY <1>17 DEF ReloadGate, cpuVars, memVars, NoWords, Word
<1>18. ASSUME NEW f \in Field, ReadWord(f)
       PROVE  TypeOK'
  BY <1>18 DEF ReadWord, cpuVars, memVars, ServesTheSubmittedGate, Working
<1>19. CASE StartRows
  <2>1. 0 \in 0 .. job["rows"]
    BY JobFacts
  <2>2. QED
    BY <1>19, <2>1 DEF StartRows, cpuVars, memVars
<1>20. CASE ComputeRow
  <2>1. /\ \A f \in Field : reg[f] = job[f]
        /\ row \in 0 .. (job["rows"] - 1)
    BY <1>20, JobFacts DEF ComputeRow, EmulatorInv, Field
  <2>2. /\ reg["output"] \in Outputs /\ row \in Rows
        /\ Dot(reg["weights"], vec[reg["input"]], row) \in Element
    BY <2>1, JobFacts DEF Field
  <2>3. row' \in 0 .. job["rows"]
    BY <1>20, <2>1, JobFacts DEF ComputeRow
  <2>4. QED
    BY <1>20, <2>2, <2>3 DEF ComputeRow, cpuVars
<1>21. CASE Complete
  BY <1>21 DEF Complete, cpuVars
<1>22. CASE Release
  BY <1>22 DEF Release, cpuVars
<1>23. CASE UNCHANGED vars
  BY <1>23 DEF vars, cpuVars, memVars, emuVars
<1>24. QED
  BY <1>1, <1>2, <1>3, <1>4, <1>5, <1>6, <1>7, <1>8, <1>9, <1>10, <1>11, <1>12,
     <1>13, <1>14, <1>15, <1>16, <1>17, <1>18, <1>19, <1>20, <1>21, <1>22,
     <1>23 DEF Next, CpuStep, CpuChoice, EmulatorStep

LEMMA CpuPreserved == IInv /\ [Next]_vars => CpuInv'
<1> SUFFICES ASSUME IInv, [Next]_vars PROVE CpuInv'
  OBVIOUS
<1> USE GateAssumption DEF IInv, TypeOK, CpuInv, EmulatorInv, ServesTheSubmittedGate, Published, Submitted, InCall, Working, Gates
<1>1. ASSUME NEW g \in TestGates, NEW j \in TestJobs, StartTest(g, j)
      PROVE  CpuInv'
  BY <1>1 DEF StartTest, emuVars
<1>2. CASE StartLlm
  BY <1>2 DEF StartLlm, memVars, emuVars
<1>3. ASSUME NEW j \in MatVecJobs, NEW x \in Contents, CallMatVec(j, x)
      PROVE  CpuInv'
  BY <1>3 DEF CallMatVec, emuVars
<1>4. CASE ResetGate
  BY <1>4 DEF ResetGate, emuVars
<1>5. ASSUME NEW f \in Field, StoreWord(f)
      PROVE  CpuInv'
  BY <1>5 DEF StoreWord, emuVars
<1>6. CASE Publish
  BY <1>6 DEF Publish, emuVars
<1>7. CASE MarkProcessing
  BY <1>7 DEF MarkProcessing, emuVars
<1>8. CASE HandOver
  BY <1>8 DEF HandOver, emuVars
<1>9. CASE PressKey
  BY <1>9 DEF PressKey, memVars, emuVars
<1>10. CASE WaitReturns
  BY <1>10 DEF WaitReturns, memVars, emuVars
<1>11. CASE FreePages
  BY <1>11 DEF FreePages, memVars, emuVars
<1>12. ASSUME NEW g \in TestGates, HeapTakes(g)
      PROVE  CpuInv'
  BY <1>12 DEF HeapTakes, memVars, emuVars
<1>13. ASSUME NEW g \in TestGates, NEW w \in {"CPU", "GPU"}, HeapWrites(g, w)
      PROVE  CpuInv'
  BY <1>13 DEF HeapWrites, cpuVars, emuVars
<1>14. CASE EndLlm
  BY <1>14 DEF EndLlm, memVars, emuVars
<1>15. CASE LoadGate
  BY <1>15 DEF LoadGate, cpuVars, memVars
<1>16. CASE TestOwner
  BY <1>16 DEF TestOwner, cpuVars, memVars
<1>17. CASE ReloadGate
  BY <1>17 DEF ReloadGate, cpuVars, memVars
<1>18. ASSUME NEW f \in Field, ReadWord(f)
      PROVE  CpuInv'
  BY <1>18 DEF ReadWord, cpuVars, memVars
<1>19. CASE StartRows
  BY <1>19 DEF StartRows, cpuVars, memVars
<1>20. CASE ComputeRow
  BY <1>20 DEF ComputeRow, cpuVars
<1>21. CASE Complete
  BY <1>21 DEF Complete, cpuVars
<1>22. CASE Release
  BY <1>22 DEF Release, cpuVars
<1>23. CASE UNCHANGED vars
  BY <1>23 DEF vars, cpuVars, memVars, emuVars
<1>24. QED
  BY <1>1, <1>2, <1>3, <1>4, <1>5, <1>6, <1>7, <1>8, <1>9, <1>10, <1>11, <1>12, <1>13, <1>14, <1>15, <1>16, <1>17, <1>18, <1>19, <1>20, <1>21, <1>22, <1>23
     DEF Next, CpuStep, CpuChoice, EmulatorStep

LEMMA ServesPreserved == IInv /\ [Next]_vars => ServesTheSubmittedGate'
<1> SUFFICES ASSUME IInv, [Next]_vars PROVE ServesTheSubmittedGate'
  OBVIOUS
<1> USE GateAssumption DEF IInv, TypeOK, CpuInv, EmulatorInv, ServesTheSubmittedGate, Published, Submitted, InCall, Working, Gates
<1>1. ASSUME NEW g \in TestGates, NEW j \in TestJobs, StartTest(g, j)
      PROVE  ServesTheSubmittedGate'
  BY <1>1 DEF StartTest, emuVars
<1>2. CASE StartLlm
  BY <1>2 DEF StartLlm, memVars, emuVars
<1>3. ASSUME NEW j \in MatVecJobs, NEW x \in Contents, CallMatVec(j, x)
      PROVE  ServesTheSubmittedGate'
  BY <1>3 DEF CallMatVec, emuVars
<1>4. CASE ResetGate
  BY <1>4 DEF ResetGate, emuVars
<1>5. ASSUME NEW f \in Field, StoreWord(f)
      PROVE  ServesTheSubmittedGate'
  BY <1>5 DEF StoreWord, emuVars
<1>6. CASE Publish
  BY <1>6 DEF Publish, emuVars
<1>7. CASE MarkProcessing
  BY <1>7 DEF MarkProcessing, emuVars
<1>8. CASE HandOver
  BY <1>8 DEF HandOver, emuVars
<1>9. CASE PressKey
  BY <1>9 DEF PressKey, memVars, emuVars
<1>10. CASE WaitReturns
  BY <1>10 DEF WaitReturns, memVars, emuVars
<1>11. CASE FreePages
  BY <1>11 DEF FreePages, memVars, emuVars
<1>12. ASSUME NEW g \in TestGates, HeapTakes(g)
      PROVE  ServesTheSubmittedGate'
  BY <1>12 DEF HeapTakes, memVars, emuVars
<1>13. ASSUME NEW g \in TestGates, NEW w \in {"CPU", "GPU"}, HeapWrites(g, w)
      PROVE  ServesTheSubmittedGate'
  BY <1>13 DEF HeapWrites, cpuVars, emuVars
<1>14. CASE EndLlm
  BY <1>14 DEF EndLlm, memVars, emuVars
<1>15. CASE LoadGate
  BY <1>15 DEF LoadGate, cpuVars, memVars
<1>16. CASE TestOwner
  BY <1>16 DEF TestOwner, cpuVars, memVars
<1>17. CASE ReloadGate
  BY <1>17 DEF ReloadGate, cpuVars, memVars
<1>18. ASSUME NEW f \in Field, ReadWord(f)
      PROVE  ServesTheSubmittedGate'
  BY <1>18 DEF ReadWord, cpuVars, memVars
<1>19. CASE StartRows
  BY <1>19 DEF StartRows, cpuVars, memVars
<1>20. CASE ComputeRow
  BY <1>20 DEF ComputeRow, cpuVars
<1>21. CASE Complete
  BY <1>21 DEF Complete, cpuVars
<1>22. CASE Release
  BY <1>22 DEF Release, cpuVars
<1>23. CASE UNCHANGED vars
  BY <1>23 DEF vars, cpuVars, memVars, emuVars
<1>24. QED
  BY <1>1, <1>2, <1>3, <1>4, <1>5, <1>6, <1>7, <1>8, <1>9, <1>10, <1>11, <1>12, <1>13, <1>14, <1>15, <1>16, <1>17, <1>18, <1>19, <1>20, <1>21, <1>22, <1>23
     DEF Next, CpuStep, CpuChoice, EmulatorStep

LEMMA EmulatorPreserved == IInv /\ [Next]_vars => EmulatorInv'
<1> SUFFICES ASSUME IInv, [Next]_vars PROVE EmulatorInv'
  OBVIOUS
<1> USE GateAssumption DEF IInv, TypeOK, CpuInv, EmulatorInv, ServesTheSubmittedGate, Published, Submitted, InCall, Working, Gates
<1>1. ASSUME NEW g \in TestGates, NEW j \in TestJobs, StartTest(g, j)
      PROVE  EmulatorInv'
  BY <1>1 DEF StartTest, emuVars
<1>2. CASE StartLlm
  BY <1>2 DEF StartLlm, memVars, emuVars
<1>3. ASSUME NEW j \in MatVecJobs, NEW x \in Contents, CallMatVec(j, x)
      PROVE  EmulatorInv'
  BY <1>3 DEF CallMatVec, emuVars
<1>4. CASE ResetGate
  BY <1>4 DEF ResetGate, emuVars
<1>5. ASSUME NEW f \in Field, StoreWord(f)
      PROVE  EmulatorInv'
  BY <1>5 DEF StoreWord, emuVars
<1>6. CASE Publish
  BY <1>6 DEF Publish, emuVars
<1>7. CASE MarkProcessing
  BY <1>7 DEF MarkProcessing, emuVars
<1>8. CASE HandOver
  BY <1>8 DEF HandOver, emuVars
<1>9. CASE PressKey
  BY <1>9 DEF PressKey, memVars, emuVars
<1>10. CASE WaitReturns
  BY <1>10 DEF WaitReturns, memVars, emuVars
<1>11. CASE FreePages
  BY <1>11 DEF FreePages, memVars, emuVars
<1>12. ASSUME NEW g \in TestGates, HeapTakes(g)
      PROVE  EmulatorInv'
  BY <1>12 DEF HeapTakes, memVars, emuVars
<1>13. ASSUME NEW g \in TestGates, NEW w \in {"CPU", "GPU"}, HeapWrites(g, w)
      PROVE  EmulatorInv'
  BY <1>13 DEF HeapWrites, cpuVars, emuVars
<1>14. CASE EndLlm
  BY <1>14 DEF EndLlm, memVars, emuVars
<1>15. CASE LoadGate
  BY <1>15 DEF LoadGate, cpuVars, memVars
<1>16. CASE TestOwner
  BY <1>16 DEF TestOwner, cpuVars, memVars
<1>17. CASE ReloadGate
  BY <1>17 DEF ReloadGate, cpuVars, memVars
<1>18. ASSUME NEW f \in Field, ReadWord(f)
      PROVE  EmulatorInv'
  BY <1>18 DEF ReadWord, cpuVars, memVars
<1>19. CASE StartRows
  BY <1>19 DEF StartRows, cpuVars, memVars
<1>20. CASE ComputeRow
  <2>1. /\ \A f \in Field : reg[f] = job[f]
        /\ row \in 0 .. (job["rows"] - 1)
    BY <1>20, JobFacts DEF ComputeRow, Field
  <2>2. job["output"] \in Outputs /\ row \in Rows /\ job["rows"] \in Nat
    BY <2>1, JobFacts
  <2>3. out' = [out EXCEPT ![job["output"]][row] =
                  Dot(job["weights"], vec[job["input"]], row)]
    BY <1>20, <2>1 DEF ComputeRow, Field
  <2>4. /\ job' = job /\ vec' = vec /\ reg' = reg /\ epc' = "rows"
        /\ row' = row + 1
    BY <1>20 DEF ComputeRow, cpuVars
  <2>5. \A r \in 0 .. (row' - 1) :
           out'[job["output"]][r] = Dot(job["weights"], vec[job["input"]], r)
    <3> TAKE r \in 0 .. (row' - 1)
    <3>1. CASE r = row
      BY <3>1, <2>2, <2>3
    <3>2. CASE r # row
      <4>1. r \in 0 .. (row - 1)
        BY <3>2, <2>4
      <4>2. out[job["output"]][r] = Dot(job["weights"], vec[job["input"]], r)
        BY <4>1, <1>20 DEF ComputeRow
      <4>3. QED
        BY <3>2, <4>2, <2>2, <2>3
    <3>3. QED
      BY <3>1, <3>2
  <2>6. row' \in 0 .. job["rows"]
    BY <2>1, <2>2, <2>4
  <2>7. QED
    BY <2>1, <2>4, <2>5, <2>6
<1>21. CASE Complete
  <2>1. egate = cur /\ row = job["rows"] /\ epc' = "release" /\ UNCHANGED <<job, row, reg, out, vec, cur>>
    BY <1>21 DEF Complete, cpuVars, Field
  <2>2. status'[cur] = "COMPLETE"
    BY <1>21, <2>1 DEF Complete
  <2>3. /\ \A f \in Field : reg[f] = job[f]
        /\ row \in 0 .. job["rows"]
        /\ \A r \in 0 .. (row - 1) :
              out[job["output"]][r] =
                  Dot(job["weights"], vec[job["input"]], r)
    BY <1>21 DEF Complete
  <2>4. QED
    BY <2>1, <2>2, <2>3
<1>22. CASE Release
  BY <1>22 DEF Release, cpuVars
<1>23. CASE UNCHANGED vars
  BY <1>23 DEF vars, cpuVars, memVars, emuVars
<1>24. QED
  BY <1>1, <1>2, <1>3, <1>4, <1>5, <1>6, <1>7, <1>8, <1>9, <1>10, <1>11, <1>12, <1>13, <1>14, <1>15, <1>16, <1>17, <1>18, <1>19, <1>20, <1>21, <1>22, <1>23
     DEF Next, CpuStep, CpuChoice, EmulatorStep

LEMMA ReturnsPreserved == IInv /\ [Next]_vars => ReturnsTheProduct'
<1> SUFFICES ASSUME IInv, [Next]_vars PROVE ReturnsTheProduct'
  OBVIOUS
<1> USE GateAssumption DEF IInv, TypeOK, CpuInv, EmulatorInv, ServesTheSubmittedGate, ReturnsTheProduct, Published, Submitted, InCall, Working, Gates
<1>1. ASSUME NEW g \in TestGates, NEW j \in TestJobs, StartTest(g, j)
      PROVE  ReturnsTheProduct'
  BY <1>1 DEF StartTest, emuVars
<1>2. CASE StartLlm
  BY <1>2 DEF StartLlm, memVars, emuVars
<1>3. ASSUME NEW j \in MatVecJobs, NEW x \in Contents, CallMatVec(j, x)
      PROVE  ReturnsTheProduct'
  BY <1>3 DEF CallMatVec, emuVars
<1>4. CASE ResetGate
  BY <1>4 DEF ResetGate, emuVars
<1>5. ASSUME NEW f \in Field, StoreWord(f)
      PROVE  ReturnsTheProduct'
  BY <1>5 DEF StoreWord, emuVars
<1>6. CASE Publish
  BY <1>6 DEF Publish, emuVars
<1>7. CASE MarkProcessing
  BY <1>7 DEF MarkProcessing, emuVars
<1>8. CASE HandOver
  BY <1>8 DEF HandOver, emuVars
<1>9. CASE PressKey
  BY <1>9 DEF PressKey, memVars, emuVars
<1>10. CASE WaitReturns
  BY <1>10 DEF WaitReturns, memVars, emuVars
<1>11. CASE FreePages
  BY <1>11 DEF FreePages, memVars, emuVars
<1>12. ASSUME NEW g \in TestGates, HeapTakes(g)
      PROVE  ReturnsTheProduct'
  BY <1>12 DEF HeapTakes, memVars, emuVars
<1>13. ASSUME NEW g \in TestGates, NEW w \in {"CPU", "GPU"}, HeapWrites(g, w)
      PROVE  ReturnsTheProduct'
  BY <1>13 DEF HeapWrites, cpuVars, emuVars
<1>14. CASE EndLlm
  BY <1>14 DEF EndLlm, memVars, emuVars
<1>15. CASE LoadGate
  BY <1>15 DEF LoadGate, cpuVars, memVars
<1>16. CASE TestOwner
  BY <1>16 DEF TestOwner, cpuVars, memVars
<1>17. CASE ReloadGate
  BY <1>17 DEF ReloadGate, cpuVars, memVars
<1>18. ASSUME NEW f \in Field, ReadWord(f)
      PROVE  ReturnsTheProduct'
  BY <1>18 DEF ReadWord, cpuVars, memVars
<1>19. CASE StartRows
  BY <1>19 DEF StartRows, cpuVars, memVars
<1>20. CASE ComputeRow
  BY <1>20 DEF ComputeRow, cpuVars
<1>21. CASE Complete
  BY <1>21 DEF Complete, cpuVars
<1>22. CASE Release
  BY <1>22 DEF Release, cpuVars
<1>23. CASE UNCHANGED vars
  BY <1>23 DEF vars, cpuVars, memVars, emuVars
<1>24. QED
  BY <1>1, <1>2, <1>3, <1>4, <1>5, <1>6, <1>7, <1>8, <1>9, <1>10, <1>11, <1>12, <1>13, <1>14, <1>15, <1>16, <1>17, <1>18, <1>19, <1>20, <1>21, <1>22, <1>23
     DEF Next, CpuStep, CpuChoice, EmulatorStep

-----------------------------------------------------------------------------
LEMMA Invariance == Spec => []IInv
<1>1. IInv /\ [Next]_vars => IInv'
  BY TypePreserved, CpuPreserved, ServesPreserved, EmulatorPreserved,
     ReturnsPreserved DEF IInv
<1>2. QED
  BY InitIInv, <1>1, PTL DEF Spec

\* Whatever the gates, the jobs and the number of cores, every variable keeps
\* its type.
THEOREM TypeCorrect == Spec => []TypeOK
<1>1. IInv => TypeOK
  BY DEF IInv
<1>2. QED
  BY Invariance, <1>1, PTL

\* The emulator core never works on a gate other than the one the boot core
\* has submitted and waits for, although it loads g_active_gate twice and the
\* published address may lie in memory that has been freed and reused.
THEOREM ServesSubmitted == Spec => []ServesTheSubmittedGate
<1>1. IInv => ServesTheSubmittedGate
  BY DEF IInv
<1>2. QED
  BY Invariance, <1>1, PTL

\* When igpu_wait_math can return, the output buffer holds the whole product
\* that was asked for.
THEOREM ReturnsProduct == Spec => []ReturnsTheProduct
<1>1. IInv => ReturnsTheProduct
  BY DEF IInv
<1>2. QED
  BY Invariance, <1>1, PTL

\* No word of a gate the emulator may serve, nor the vector it names, changes
\* before the gate is given back.
THEOREM DescriptorStable == Spec => DescriptorIsStable
<1>1. IInv /\ [Next]_vars =>
        [active # Null /\ owner[active] = "GPU"
           => UNCHANGED <<active, desc>> /\ UNCHANGED vec]_vars
  <2> SUFFICES ASSUME IInv, Next, active # Null, owner[active] = "GPU"
               PROVE  UNCHANGED <<active, desc, vec>>
    OBVIOUS
  <2>1. Submitted
    BY DEF IInv, CpuInv
  <2>2. QED
    BY <2>1 DEF Next, CpuStep, CpuChoice, EmulatorStep, Submitted, StartTest,
       StartLlm, CallMatVec, ResetGate, StoreWord, Publish, MarkProcessing,
       HandOver, PressKey, WaitReturns, FreePages, HeapTakes, HeapWrites,
       EndLlm, LoadGate, TestOwner, ReloadGate, ReadWord, StartRows,
       ComputeRow, Complete, Release, cpuVars, memVars, emuVars
<1>2. QED
  BY Invariance, <1>1, PTL DEF Spec, DescriptorIsStable

-----------------------------------------------------------------------------
(* The refinement.                                                         *)

LEMMA AnswerFacts ==
    ASSUME NEW j \in Jobs, NEW x \in Contents
    PROVE  /\ CallOf(j, x) \in CallSet /\ CallOf(j, x) # Null
           /\ Answer[CallOf(j, x)] =
                [r \in 0 .. (j["rows"] - 1) |-> Dot(j["weights"], x, r)]
           /\ Answer[CallOf(j, x)] # Null
<1>1. CallOf(j, x) \in CallSet
  BY DEF CallSet
<1>2. Answer[CallOf(j, x)] =
        [r \in 0 .. (j["rows"] - 1) |-> Dot(j["weights"], x, r)]
  BY <1>1 DEF Answer, CallOf
<1>3. QED
  BY <1>1, <1>2, NullAssumption

\* Every step of the two cores is a step of the atomic product or none of its
\* business: a caller sees one call at a time, answered whole.
THEOREM GateImplementsMatVec == Spec => MatVecSafety
<1> DEFINE theCall == IF InCall THEN CallOf(job, vec[job["input"]]) ELSE Null
           theAnswer == IF Submitted /\ owner[cur] = "CPU"
                        THEN [r \in 0 .. (job["rows"] - 1) |->
                                out[job["output"]][r]]
                        ELSE Null
<1>1. Init => Abstract!Init
  BY DEF Init, Abstract!Init, InCall, Submitted
<1>2. IInv /\ [Next]_vars => [Abstract!Next]_(Abstract!vars)
  <2> SUFFICES ASSUME IInv, [Next]_vars
               PROVE  Abstract!Next \/ UNCHANGED <<theCall, theAnswer>>
    BY DEF Abstract!vars
  <2> USE DEF IInv, TypeOK
  <2>0. job \in Jobs /\ vec[job["input"]] \in Contents
    BY JobFacts
  <2>1. ASSUME NEW j \in Jobs, NEW x \in Contents, ~InCall,
               pc' = "reset", job' = j, vec' = [vec EXCEPT ![j["input"]] = x]
        PROVE  Abstract!Next
    <3>1. vec'[job'["input"]] = x
      BY <2>1, JobFacts
    <3>2. theCall = Null /\ theCall' = CallOf(j, x)
      BY <2>1, <3>1 DEF InCall
    <3>3. theAnswer = Null /\ theAnswer' = Null
      BY <2>1 DEF InCall, Submitted
    <3>4. Abstract!Ask(CallOf(j, x))
      BY <3>2, <3>3 DEF Abstract!Ask
    <3>5. QED
      BY <3>4, AnswerFacts DEF Abstract!Next
  <2>2. ASSUME NEW g \in TestGates, NEW j \in TestJobs, StartTest(g, j)
        PROVE  Abstract!Next
    BY <2>2, <2>1, GateAssumption DEF StartTest, Jobs, InCall
  <2>3. ASSUME NEW j \in MatVecJobs, NEW x \in Contents, CallMatVec(j, x)
        PROVE  Abstract!Next
    BY <2>3, <2>1 DEF CallMatVec, Jobs, InCall
  <2>4. CASE WaitReturns
    <3>1. theAnswer # Null
      <4>1. theAnswer = Answer[CallOf(job, vec[job["input"]])]
        BY <2>4, <2>0, AnswerFacts DEF WaitReturns, ReturnsTheProduct, Submitted
      <4>2. QED
        BY <4>1, <2>0, AnswerFacts
    <3>2. theCall' = Null /\ theAnswer' = Null
      BY <2>4 DEF WaitReturns, InCall, Submitted
    <3>3. QED
      BY <3>1, <3>2 DEF Abstract!Return, Abstract!Next
  <2>5. CASE Release
    <3>1. Submitted /\ egate = cur /\ owner[cur] = "GPU" /\ row = job["rows"]
      BY <2>5 DEF Release, ServesTheSubmittedGate, Working, EmulatorInv
    <3>2. UNCHANGED <<pc, cur, job, vec, out>> /\ owner'[cur] = "CPU"
      BY <2>5, <3>1 DEF Release, cpuVars
    <3>3. \A r \in 0 .. (job["rows"] - 1) :
             out[job["output"]][r] = Dot(job["weights"], vec[job["input"]], r)
      BY <2>5, <3>1 DEF Release, EmulatorInv
    <3>4. theAnswer' = Answer[CallOf(job, vec[job["input"]])]
      <4>1. theAnswer' = [r \in 0 .. (job["rows"] - 1) |-> out[job["output"]][r]]
        BY <3>1, <3>2 DEF Submitted
      <4>2. [r \in 0 .. (job["rows"] - 1) |-> out[job["output"]][r]]
              = [r \in 0 .. (job["rows"] - 1) |->
                   Dot(job["weights"], vec[job["input"]], r)]
        BY <3>3
      <4>3. QED
        BY <4>1, <4>2, <2>0, AnswerFacts
    <3>5. theCall = CallOf(job, vec[job["input"]]) /\ theCall' = theCall
      BY <3>1, <3>2 DEF InCall, Submitted
    <3>6. theAnswer = Null
      BY <3>1
    <3>7. QED
      BY <3>4, <3>5, <3>6, <2>0, AnswerFacts DEF Abstract!Compute, Abstract!Next
  <2>6. CASE ComputeRow
    <3>1. owner[cur] = "GPU"
      BY <2>6 DEF ComputeRow, ServesTheSubmittedGate, Working
    <3>2. QED
      BY <2>6, <3>1 DEF ComputeRow, cpuVars, Submitted, InCall
  <2>7. CASE HandOver
    BY <2>7 DEF HandOver, Submitted, InCall, emuVars
  <2>8. ASSUME UNCHANGED <<cur, job, vec, out>>, InCall' = InCall,
               Submitted' = Submitted, Submitted => owner'[cur] = owner[cur]
        PROVE  UNCHANGED <<theCall, theAnswer>>
    BY <2>8
  <2>9. CASE StartLlm \/ PressKey \/ FreePages \/ EndLlm
    BY <2>9, <2>8 DEF StartLlm, PressKey, FreePages, EndLlm, InCall, Submitted,
       memVars
  <2>10. ASSUME \/ ResetGate \/ \E f \in Field : StoreWord(f)
                \/ Publish \/ MarkProcessing
         PROVE  UNCHANGED <<theCall, theAnswer>>
    BY <2>10 DEF ResetGate, StoreWord, Publish, MarkProcessing, InCall,
       Submitted
  <2>11. ASSUME NEW g \in TestGates,
                HeapTakes(g) \/ \E w \in {"CPU", "GPU"} : HeapWrites(g, w)
         PROVE  UNCHANGED <<theCall, theAnswer>>
    BY <2>11 DEF HeapTakes, HeapWrites, InCall, Submitted, memVars, cpuVars
  <2>12. CASE LoadGate \/ TestOwner \/ ReloadGate \/ StartRows \/ Complete
    BY <2>12, <2>8 DEF LoadGate, TestOwner, ReloadGate, StartRows, Complete,
       InCall, Submitted, cpuVars, memVars
  <2>13. ASSUME NEW f \in Field, ReadWord(f)
         PROVE  UNCHANGED <<theCall, theAnswer>>
    BY <2>13, <2>8 DEF ReadWord, InCall, Submitted, cpuVars, memVars
  <2>14. CASE UNCHANGED vars
    BY <2>14, <2>8 DEF vars, InCall, Submitted, cpuVars, memVars
  <2>15. QED
    BY <2>2, <2>3, <2>4, <2>5, <2>6, <2>7, <2>9, <2>10, <2>11, <2>12, <2>13,
       <2>14 DEF Next, CpuStep, CpuChoice, EmulatorStep
<1>3. QED
  BY Invariance, <1>1, <1>2, PTL DEF Spec, MatVecSafety
=============================================================================
