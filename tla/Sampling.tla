------------------------------ MODULE Sampling ------------------------------
(***************************************************************************)
(* How gguf_generate of gguf.c draws a token: quicksort_logits on the      *)
(* probabilities and the token numbers beside them, the smallest prefix    *)
(* that holds nine tenths of the weight, and a draw from it.               *)
(*                                                                         *)
(* A weight stands for exp of a logit less the greatest one, over the      *)
(* temperature.  gguf.c's exp is a polynomial that stops at the nineteenth *)
(* power: it keeps the order of the logits and gives the greatest a        *)
(* positive weight, but it is negative below about -6.5, so weights are    *)
(* integers, their sums exact, and the comparisons multiplied out.  The    *)
(* sort is a step per turn of its outer loop; its recursion is a stack of  *)
(* ranges to sort.                                                         *)
(***************************************************************************)
EXTENDS Integers, Sequences, FiniteSets

CONSTANT NoToken
ASSUME SamplingAssumption == NoToken \notin Nat

VARIABLES
    weight,            \* exp's answer, by token
    probs, indices,    \* the two arrays
    calls,             \* ranges still to be sorted, the next one first
    part,              \* the partition in progress, a set of at most one
    chosen             \* next_token

sampleVars == <<weight, probs, indices, calls, part, chosen>>

Cells == DOMAIN probs
Last == Cardinality(Cells) - 1

Sum(f, n) == LET s[k \in 0 .. n] == IF k = 0 THEN 0 ELSE s[k - 1] + f[k - 1]
             IN  s[n]
SumOf(w) == Sum(w, Cardinality(DOMAIN w))
Total == SumOf(weight)

\* probs after the division by sum_exp, times the size of that sum: a negative
\* sum turns every sign round, and the order of the tokens with it.
Shares(w) == IF SumOf(w) < 0 THEN [t \in DOMAIN w |-> - w[t]] ELSE w

Call(l, r) == [left |-> l, right |-> r]

EnterCall ==
    /\ calls # <<>> /\ part = {}
    /\ calls' = Tail(calls)
    /\ LET c == Head(calls) IN
       part' = IF c.left >= c.right THEN {}
               ELSE {[left |-> c.left, right |-> c.right,
                      i |-> c.left, j |-> c.right,
                      pivot |-> probs[(c.left + c.right) \div 2]]}
    /\ UNCHANGED <<weight, probs, indices, chosen>>

\* (mutant) the scan goes past the pivot.
StopsUpPast(p) == {k \in Cells : p.i <= k /\ probs[k] < p.pivot}

\* Where the two scans stop; nothing but the values stops them.
StopsUp(p) == {k \in Cells : p.i <= k /\ probs[k] <= p.pivot}
StopsDown(p) == {k \in Cells : k <= p.j /\ probs[k] >= p.pivot}
Least(S) == CHOOSE k \in S : \A o \in S : k <= o
Greatest(S) == CHOOSE k \in S : \A o \in S : o <= k

Swapped(f, a, b) == [f EXCEPT ![a] = f[b], ![b] = f[a]]

\* (mutant) the tokens do not move with their probabilities.
TurnWithoutIndices(p) ==
    LET a == Least(StopsUp(p))
        b == Greatest(StopsDown(p))
    IN  /\ p \in part /\ p.i <= p.j
        /\ IF a <= b
           THEN /\ probs' = Swapped(probs, a, b)
                /\ part' = {[p EXCEPT !.i = a + 1, !.j = b - 1]}
           ELSE /\ part' = {[p EXCEPT !.i = a, !.j = b]}
                /\ UNCHANGED probs
        /\ UNCHANGED <<weight, indices, calls, chosen>>

Turn(p) ==
    LET a == Least(StopsUp(p))
        b == Greatest(StopsDown(p))
    IN  /\ p \in part /\ p.i <= p.j
        /\ IF a <= b
           THEN /\ probs' = Swapped(probs, a, b)
                /\ indices' = Swapped(indices, a, b)
                /\ part' = {[p EXCEPT !.i = a + 1, !.j = b - 1]}
           ELSE /\ part' = {[p EXCEPT !.i = a, !.j = b]}
                /\ UNCHANGED <<probs, indices>>
        /\ UNCHANGED <<weight, calls, chosen>>

Divide(p) ==
    /\ p \in part /\ p.i > p.j
    /\ part' = {}
    /\ calls' = <<Call(p.left, p.j), Call(p.i, p.right)>> \o calls
    /\ UNCHANGED <<weight, probs, indices, chosen>>

-----------------------------------------------------------------------------
(* The draw. *)

\* n_candidates: counted until nine tenths are reached.
IsEnough(n) == 10 * Sum(probs, n) >= 9 * (IF Total < 0 THEN - Total ELSE Total)
Candidate(n) == /\ n \in 1 .. Last + 1
                /\ \A m \in 1 .. n - 1 : ~ IsEnough(m)
                /\ IsEnough(n) \/ n = Last + 1

\* r stands for the random number times twice the prefix's weight: twice, so
\* that there is one strictly inside every candidate's share.
Draw(n, r) ==
    LET hits == {k \in 0 .. n - 1 : r <= 2 * Sum(probs, k + 1)}
    IN  /\ calls = <<>> /\ part = {} /\ Candidate(n) /\ r < 2 * Sum(probs, n)
        /\ chosen' = indices[IF hits = {} THEN n - 1 ELSE Least(hits)]
        /\ UNCHANGED <<weight, probs, indices, calls, part>>

\* Without memory for one of the arrays: the first of the likeliest.
Greedy(w) == Least({t \in DOMAIN w : \A o \in DOMAIN w : w[o] <= w[t]})

-----------------------------------------------------------------------------
(* Properties. *)

WeightOf(S) == Sum([k \in DOMAIN weight |-> IF k \in S THEN weight[k] ELSE 0],
                   Cardinality(DOMAIN weight))

\* The scans stop inside the range being sorted, though no bound stops them.
ScansStop ==
    \A p \in part :
        p.i <= p.j => /\ \E k \in StopsUp(p) : k <= p.right
                     /\ \E k \in StopsDown(p) : p.left <= k

\* As long as the weights add up to more than nothing, what is drawn is one of
\* the likeliest tokens that together hold nine tenths of them: the tokens
\* likelier than it hold less.
NucleusSampled ==
    chosen # NoToken /\ Total > 0 =>
        /\ weight[chosen] > 0
        /\ 10 * WeightOf({t \in DOMAIN weight : weight[t] > weight[chosen]})
              < 9 * Total

\* Where top_p cuts the tokens off, the likelier ones are kept: any that is
\* likelier than the drawn one comes before it.
LikelierFirst ==
    chosen # NoToken =>
        \A j, k \in Cells :
            indices[j] = chosen /\ weight[indices[k]] > weight[chosen] => k < j
=============================================================================
