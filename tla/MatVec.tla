------------------------------- MODULE MatVec -------------------------------
(***************************************************************************)
(* What a caller of mat_vec_mul is promised: one call at a time, and the   *)
(* call answers with the whole product of the matrix and the vector named  *)
(* in the call, as if it had been computed in a single step.  IGpuGate     *)
(* implements this with a shared descriptor, two cores and no lock.        *)
(***************************************************************************)
CONSTANTS Calls,        \* what can be asked for
          Product,      \* the answer each call deserves, a function on Calls
          None          \* no call, no answer

VARIABLES call,         \* the call in progress, or None
          answer        \* its answer once computed, or None

vars == <<call, answer>>

Init == call = None /\ answer = None

Ask(c) == call = None /\ call' = c /\ UNCHANGED answer

Compute == /\ call # None /\ answer = None
           /\ answer' = Product[call]
           /\ UNCHANGED call

Return == /\ answer # None
          /\ call' = None /\ answer' = None

Next == (\E c \in Calls : Ask(c)) \/ Compute \/ Return

Spec == Init /\ [][Next]_vars /\ WF_vars(Compute)
=============================================================================
