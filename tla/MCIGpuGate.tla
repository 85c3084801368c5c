----------------------------- MODULE MCIGpuGate -----------------------------
EXTENDS IGpuGate

CONSTANTS matmul, t1, t2, wq, wv, wtest, bufA, bufB, ibuf, obuf, x, y

JobOf(w, i, o, n) ==
    [weights |-> w, input |-> i, output |-> o, rows |-> n]

\* Two products of the transformer, of different heights, and the one of
\* igputest.
MCMatVecJobs == {JobOf(wq, bufA, bufB, 2), JobOf(wv, bufA, bufB, 1)}
MCTestJobs == {JobOf(wtest, ibuf, obuf, 2)}
=============================================================================
