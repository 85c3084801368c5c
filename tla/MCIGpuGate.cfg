SPECIFICATION Spec
CONSTANTS
    MatmulGate = matmul
    matmul = matmul
    t1 = t1
    t2 = t2
    wq = wq
    wtest = wtest
    wv = wv
    bufA = bufA
    bufB = bufB
    ibuf = ibuf
    obuf = obuf
    x = x
    y = y
    Null = Null
    TestGates = {t1, t2}
    MatVecJobs <- MCMatVecJobs
    TestJobs <- MCTestJobs
    Contents = {x, y}
    Ones = x
    NumCores = 4
INVARIANTS TypeOK ServesTheSubmittedGate ReturnsTheProduct
PROPERTIES DescriptorIsStable WaitEnds ImplementsMatVec
