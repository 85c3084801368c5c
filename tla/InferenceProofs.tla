--------------------------- MODULE InferenceProofs --------------------------
(***************************************************************************)
(* Proofs about Inference, for any model file, vocabulary, prompt, context *)
(* and number of commands: the caches hold this command's text, the sort   *)
(* stays in its arrays and loses no token, the token that is drawn is one  *)
(* of the likeliest while exp's answers add up to more than nothing, the   *)
(* buffers are as long as they are reached into, the tokens spell the      *)
(* prompt, and a short prompt's tokens fit their array.                    *)
(***************************************************************************)
EXTENDS Inference, SequenceTheorems, FiniteSetTheorems, WellFoundedInduction,
        TLAPS

-----------------------------------------------------------------------------
(* Sequences whose elements are not looked at. *)

IsSeq(s) == \E S : s \in Seq(S)

LEMMA Appended ==
    ASSUME NEW s, IsSeq(s), NEW e
    PROVE  /\ IsSeq(Append(s, e)) /\ Len(s) \in Nat
           /\ Len(Append(s, e)) = Len(s) + 1
           /\ \A k \in 1 .. Len(s) : Append(s, e)[k] = s[k]
           /\ Append(s, e)[Len(s) + 1] = e
<1>1. PICK S : s \in Seq(S)
  BY DEF IsSeq
<1>2. s \in Seq(S \cup {e})
  BY <1>1, SeqMonotonic
<1>3. e \in S \cup {e}
  OBVIOUS
<1>4. QED
  BY <1>2, <1>3, AppendProperties, LenProperties DEF IsSeq

LEMMA Concatenated ==
    ASSUME NEW s, IsSeq(s), NEW u, IsSeq(u)
    PROVE  /\ Len(s) \in Nat /\ Len(u) \in Nat
           /\ Len(s \o u) = Len(s) + Len(u)
           /\ \A k \in 1 .. Len(s) + Len(u) :
                 (s \o u)[k] = IF k <= Len(s) THEN s[k] ELSE u[k - Len(s)]
<1>1. PICK S : s \in Seq(S)
  BY DEF IsSeq
<1>2. PICK T : u \in Seq(T)
  BY DEF IsSeq
<1>3. s \in Seq(S \cup T) /\ u \in Seq(S \cup T)
  BY <1>1, <1>2, SeqMonotonic
<1>4. QED
  BY <1>3, ConcatProperties, LenProperties

LEMMA ShortSequences ==
    /\ IsSeq(<<>>) /\ Len(<<>>) = 0
    /\ \A e : IsSeq(<<e>>) /\ Len(<<e>>) = 1
<1>1. IsSeq(<<>>) /\ Len(<<>>) = 0
  <2>1. <<>> \in Seq({})
    BY EmptySeq
  <2>2. QED
    BY <2>1, EmptySeq DEF IsSeq
<1>2. ASSUME NEW e PROVE IsSeq(<<e>>) /\ Len(<<e>>) = 1
  <2>1. <<e>> \in Seq({e})
    OBVIOUS
  <2>2. QED
    BY <2>1 DEF IsSeq
<1>3. QED
  BY <1>1, <1>2

-----------------------------------------------------------------------------
(* The least and the greatest of a bounded set. *)

LEMMA LeastOf ==
    ASSUME NEW S \in SUBSET Int, S # {}, NEW low \in Int,
           \A k \in S : low <= k
    PROVE  Least(S) \in S /\ \A k \in S : Least(S) <= k
<1> DEFINE T == {k - low : k \in S}
           Less == OpToRel(<, Nat)
<1>1. \A x : x \in T <=> \E k \in S : x = k - low
  OBVIOUS
<1>2. \A k \in S : k - low \in Nat
  OBVIOUS
<1> HIDE DEF T
<1>3. T \subseteq Nat /\ T # {}
  BY <1>1, <1>2
<1>4. \A u, v \in Nat : u < v => <<u, v>> \in Less
  BY Zenon DEF OpToRel
<1> HIDE DEF Less
<1>5. PICK x \in T : \A y \in T : ~ (<<y, x>> \in Less)
  <2>1. IsWellFoundedOn(Less, Nat)
    BY NatLessThanWellFounded DEF Less
  <2>2. QED
    BY <1>3, <2>1, WFMin
<1>6. \A y \in T : x <= y
  <2>1. \A y \in T : ~ (y < x)
    BY ONLY <1>3, <1>4, <1>5, Zenon
  <2>2. QED
    BY <1>3, <2>1
<1>7. PICK k \in S : x = k - low
  BY <1>1
<1>8. \A o \in S : k <= o
  BY <1>1, <1>2, <1>6, <1>7
<1>9. QED
  BY <1>7, <1>8 DEF Least

LEMMA GreatestOf ==
    ASSUME NEW S \in SUBSET Int, S # {}, NEW high \in Int,
           \A k \in S : k <= high
    PROVE  Greatest(S) \in S /\ \A k \in S : k <= Greatest(S)
<1> DEFINE T == {high - k : k \in S}
           Less == OpToRel(<, Nat)
<1>1. \A x : x \in T <=> \E k \in S : x = high - k
  OBVIOUS
<1>2. \A k \in S : high - k \in Nat
  OBVIOUS
<1> HIDE DEF T
<1>3. T \subseteq Nat /\ T # {}
  BY <1>1, <1>2
<1>4. \A u, v \in Nat : u < v => <<u, v>> \in Less
  BY Zenon DEF OpToRel
<1> HIDE DEF Less
<1>5. PICK x \in T : \A y \in T : ~ (<<y, x>> \in Less)
  <2>1. IsWellFoundedOn(Less, Nat)
    BY NatLessThanWellFounded DEF Less
  <2>2. QED
    BY <1>3, <2>1, WFMin
<1>6. \A y \in T : x <= y
  <2>1. \A y \in T : ~ (y < x)
    BY ONLY <1>3, <1>4, <1>5, Zenon
  <2>2. QED
    BY <1>3, <2>1
<1>7. PICK k \in S : x = high - k
  BY <1>1
<1>8. \A o \in S : o <= k
  BY <1>1, <1>2, <1>6, <1>7
<1>9. QED
  BY <1>7, <1>8 DEF Greatest

-----------------------------------------------------------------------------
(* The sort stays in its arrays. *)

\* A range to sort: empty, or within the arrays.
InArrays(c) == /\ c.left \in Int /\ c.right \in Int
               /\ c.left < c.right => c.left .. c.right \subseteq Cells

Arrays == /\ Cells \subseteq Int /\ DOMAIN indices = Cells
          /\ \A k \in Cells : probs[k] \in Int

\* The tokens are all there, each beside its own share.
NoTokenLost ==
    \A t \in Cells : \E k \in Cells : /\ indices[k] = t
                                      /\ probs[k] = Shares(weight)[t]

Ranges == IsSeq(calls) /\ \A n \in 1 .. Len(calls) : InArrays(calls[n])

IsPart(p) == p \in [left : Int, right : Int, i : Int, j : Int, pivot : Int]

Partition(p) ==
    /\ IsPart(p) /\ InArrays(p) /\ p.left < p.right /\ p.pivot \in Int
    /\ p.i \in Int /\ p.j \in Int /\ p.left <= p.i /\ p.j <= p.right
    /\ p.i <= p.j => /\ \E k \in p.i .. p.right : probs[k] <= p.pivot
                     /\ \E k \in p.left .. p.j : probs[k] >= p.pivot

LEMMA ScansMeet ==
    ASSUME Arrays, NEW p \in part, Partition(p), p.i <= p.j
    PROVE  LET a == Least(StopsUp(p))
               b == Greatest(StopsDown(p))
           IN  /\ a \in p.i .. p.right /\ probs[a] <= p.pivot
               /\ b \in p.left .. p.j /\ probs[b] >= p.pivot
               /\ a \in Cells /\ b \in Cells
               /\ \E k \in StopsUp(p) : k <= p.right
               /\ \E k \in StopsDown(p) : p.left <= k
<1> USE DEF Arrays, Partition, InArrays
<1>1. PICK u \in p.i .. p.right : probs[u] <= p.pivot
  OBVIOUS
<1>2. PICK d \in p.left .. p.j : probs[d] >= p.pivot
  OBVIOUS
<1>3. u \in StopsUp(p) /\ StopsUp(p) \subseteq Int
      /\ \A k \in StopsUp(p) : p.i <= k
  <2>1. u \in Cells /\ p.i <= u
    BY <1>1
  <2>2. u \in StopsUp(p)
    BY <2>1, <1>1 DEF StopsUp
  <2>3. StopsUp(p) \subseteq Cells
    BY DEF StopsUp
  <2>4. \A k \in StopsUp(p) : p.i <= k
    BY DEF StopsUp
  <2>5. QED
    BY <2>2, <2>3, <2>4
<1>4. d \in StopsDown(p) /\ StopsDown(p) \subseteq Int
      /\ \A k \in StopsDown(p) : k <= p.j
  <2>1. d \in Cells /\ d <= p.j
    BY <1>2
  <2>2. d \in StopsDown(p)
    BY <2>1, <1>2 DEF StopsDown
  <2>3. StopsDown(p) \subseteq Cells
    BY DEF StopsDown
  <2>4. \A k \in StopsDown(p) : k <= p.j
    BY DEF StopsDown
  <2>5. QED
    BY <2>2, <2>3, <2>4
<1>5. /\ Least(StopsUp(p)) \in StopsUp(p)
      /\ \A k \in StopsUp(p) : Least(StopsUp(p)) <= k
  <2>1. StopsUp(p) \in SUBSET Int /\ StopsUp(p) # {} /\ p.i \in Int
    BY <1>3
  <2>2. QED
    BY <2>1, <1>3, LeastOf
<1>6. /\ Greatest(StopsDown(p)) \in StopsDown(p)
      /\ \A k \in StopsDown(p) : k <= Greatest(StopsDown(p))
  <2>1. StopsDown(p) \in SUBSET Int /\ StopsDown(p) # {} /\ p.j \in Int
    BY <1>4
  <2>2. QED
    BY <2>1, <1>4, GreatestOf
<1>7. Least(StopsUp(p)) <= u /\ d <= Greatest(StopsDown(p))
  BY <1>3, <1>4, <1>5, <1>6
<1>8. Least(StopsUp(p)) \in Int /\ Greatest(StopsDown(p)) \in Int
  BY <1>3, <1>4, <1>5, <1>6
<1>9. /\ Least(StopsUp(p)) \in Cells /\ p.i <= Least(StopsUp(p))
      /\ probs[Least(StopsUp(p))] <= p.pivot
  BY <1>5 DEF StopsUp
<1>10. /\ Greatest(StopsDown(p)) \in Cells /\ Greatest(StopsDown(p)) <= p.j
       /\ probs[Greatest(StopsDown(p))] >= p.pivot
  BY <1>6 DEF StopsDown
<1>11. /\ Least(StopsUp(p)) \in p.i .. p.right
       /\ Greatest(StopsDown(p)) \in p.left .. p.j
  BY <1>1, <1>2, <1>7, <1>8, <1>9, <1>10
<1>12. u <= p.right /\ p.left <= d
  OBVIOUS
<1>13. QED
  BY <1>3, <1>4, <1>9, <1>10, <1>11, <1>12


-----------------------------------------------------------------------------
(* Induction, over the set of the numbers for which something holds. *)

LEMMA SetInduction ==
    ASSUME NEW S, 0 \in S, \A n \in Nat : n \in S => n + 1 \in S
    PROVE  Nat \subseteq S
<1> DEFINE T == {n \in Nat : n \notin S}
<1>1. SUFFICES ASSUME T # {} PROVE FALSE
  OBVIOUS
<1>2. T \in SUBSET Int /\ \A k \in T : 0 <= k
  OBVIOUS
<1>3. Least(T) \in T /\ \A k \in T : Least(T) <= k
  BY <1>1, <1>2, LeastOf
<1> DEFINE m == Least(T)
<1>4. m \in Nat /\ m \notin S /\ \A k \in Nat : k \notin S => m <= k
  BY <1>3
<1> HIDE DEF m, T
<1>5. m # 0 /\ m - 1 \in Nat /\ m - 1 + 1 = m
  BY <1>4
<1>6. m - 1 \in S
  BY <1>4, <1>5
<1>7. QED
  BY <1>4, <1>5, <1>6

-----------------------------------------------------------------------------
(* Sums. *)

\* The function Sum is defined by, on 0 .. n.
IsSum(s, f, n) ==
    s = [k \in 0 .. n |-> IF k = 0 THEN 0 ELSE s[k - 1] + f[k - 1]]

LEMMA SumExists == ASSUME NEW f PROVE \A n \in Nat : \E s : IsSum(s, f, n)
<1> DEFINE S == {n \in Nat : \E s : IsSum(s, f, n)}
<1>1. 0 \in S
  <2>1. IsSum([k \in 0 .. 0 |-> 0], f, 0)
    BY DEF IsSum
  <2>2. QED
    BY <2>1
<1>2. ASSUME NEW n \in Nat, n \in S PROVE n + 1 \in S
  <2>1. PICK s : IsSum(s, f, n)
    BY <1>2
  <2> DEFINE t == [k \in 0 .. n + 1 |-> IF k = n + 1 THEN s[n] + f[n] ELSE s[k]]
  <2>2. \A k \in 0 .. n : t[k] = s[k]
    OBVIOUS
  <2>3. \A k \in 0 .. n : s[k] = IF k = 0 THEN 0 ELSE s[k - 1] + f[k - 1]
    BY <2>1 DEF IsSum
  <2>4. t[n + 1] = t[n] + f[n]
    BY <2>2
  <2>5. \A k \in 0 .. n + 1 :
           t[k] = IF k = 0 THEN 0 ELSE t[k - 1] + f[k - 1]
    <3>1. ASSUME NEW k \in 0 .. n
          PROVE  t[k] = IF k = 0 THEN 0 ELSE t[k - 1] + f[k - 1]
      <4>1. k # 0 => k - 1 \in 0 .. n
        OBVIOUS
      <4>2. QED
        BY <2>2, <2>3, <4>1
    <3>2. n + 1 # 0 /\ n + 1 - 1 = n
      OBVIOUS
    <3> HIDE DEF t
    <3>3. QED
      BY <2>4, <3>1, <3>2
  <2>6. t = [k \in 0 .. n + 1 |-> t[k]]
    OBVIOUS
  <2> HIDE DEF t
  <2>7. IsSum(t, f, n + 1)
    BY <2>5, <2>6 DEF IsSum
  <2>8. QED
    BY <2>7
<1> HIDE DEF S
<1>3. Nat \subseteq S
  BY <1>1, <1>2, SetInduction
<1>4. QED
  BY <1>3 DEF S

LEMMA SumsAgree ==
    ASSUME NEW f, NEW n \in Nat, NEW m \in 0 .. n, NEW s, IsSum(s, f, n),
           NEW t, IsSum(t, f, m)
    PROVE  s[m] = t[m]
<1> DEFINE S == {k \in Nat : k <= m => s[k] = t[k]}
<1>1. /\ \A k \in 0 .. n : s[k] = IF k = 0 THEN 0 ELSE s[k - 1] + f[k - 1]
      /\ \A k \in 0 .. m : t[k] = IF k = 0 THEN 0 ELSE t[k - 1] + f[k - 1]
  BY DEF IsSum
<1>2. 0 \in S
  BY <1>1
<1>3. ASSUME NEW k \in Nat, k \in S PROVE k + 1 \in S
  <2>1. CASE k + 1 <= m
    <3>1. k + 1 \in 0 .. m /\ k + 1 \in 0 .. n /\ k + 1 # 0 /\ k + 1 - 1 = k
          /\ k <= m
      BY <2>1
    <3>2. s[k + 1] = s[k] + f[k] /\ t[k + 1] = t[k] + f[k]
      BY <1>1, <3>1
    <3>3. QED
      BY <1>3, <3>1, <3>2
  <2>2. CASE ~ (k + 1 <= m)
    BY <2>2
  <2>3. QED
    BY <2>1, <2>2
<1> HIDE DEF S
<1>4. m \in S
  BY <1>2, <1>3, SetInduction
<1>5. QED
  BY <1>4 DEF S

LEMMA SumIs ==
    ASSUME NEW f, NEW n \in Nat, NEW s, IsSum(s, f, n)
    PROVE  Sum(f, n) = s[n]
<1>1. \E t : IsSum(t, f, n)
  OBVIOUS
<1> DEFINE t == CHOOSE t : IsSum(t, f, n)
<1>2. IsSum(t, f, n)
  BY <1>1
<1>3. Sum(f, n) = t[n]
  BY DEF Sum, IsSum
<1> HIDE DEF t
<1>4. t[n] = s[n]
  BY <1>2, SumsAgree
<1>5. QED
  BY <1>3, <1>4

LEMMA SumStep ==
    ASSUME NEW f
    PROVE  /\ Sum(f, 0) = 0
           /\ \A n \in Nat : Sum(f, n + 1) = Sum(f, n) + f[n]
<1>1. Sum(f, 0) = 0
  <2>1. PICK s : IsSum(s, f, 0)
    BY SumExists
  <2>2. s[0] = 0
    BY <2>1 DEF IsSum
  <2>3. QED
    BY <2>1, <2>2, SumIs
<1>2. ASSUME NEW n \in Nat PROVE Sum(f, n + 1) = Sum(f, n) + f[n]
  <2>1. PICK s : IsSum(s, f, n + 1)
    BY SumExists
  <2>2. PICK t : IsSum(t, f, n)
    BY SumExists
  <2>3. s[n] = t[n]
    BY <2>1, <2>2, SumsAgree
  <2>4. s[n + 1] = s[n] + f[n]
    <3>1. n + 1 \in 0 .. n + 1 /\ n + 1 # 0 /\ n + 1 - 1 = n
      OBVIOUS
    <3>2. QED
      BY <2>1, <3>1 DEF IsSum
  <2>5. QED
    BY <2>1, <2>2, <2>3, <2>4, SumIs
<1>3. QED
  BY <1>1, <1>2

LEMMA SumIsOf ==
    ASSUME NEW T, 0 \in T, \A x, y \in T : x + y \in T,
           NEW f, NEW n \in Nat, \A k \in 0 .. n - 1 : f[k] \in T
    PROVE  \A m \in 0 .. n : Sum(f, m) \in T
<1> DEFINE S == {m \in Nat : m <= n => Sum(f, m) \in T}
<1>1. 0 \in S
  BY SumStep
<1>2. ASSUME NEW m \in Nat, m \in S PROVE m + 1 \in S
  <2>1. CASE m + 1 <= n
    <3>1. m \in 0 .. n - 1 /\ Sum(f, m) \in T /\ f[m] \in T
      BY <1>2, <2>1
    <3>2. Sum(f, m + 1) = Sum(f, m) + f[m]
      BY SumStep
    <3>3. QED
      BY <3>1, <3>2
  <2>2. QED
    BY <2>1
<1> HIDE DEF S
<1>3. Nat \subseteq S
  BY <1>1, <1>2, SetInduction
<1>4. QED
  BY <1>3 DEF S

LEMMA SumIsInt ==
    ASSUME NEW f, NEW n \in Nat, \A k \in 0 .. n - 1 : f[k] \in Int
    PROVE  \A m \in 0 .. n : Sum(f, m) \in Int
<1>1. 0 \in Int /\ \A x, y \in Int : x + y \in Int
  OBVIOUS
<1>2. QED
  BY <1>1, SumIsOf

LEMMA SumIsNat ==
    ASSUME NEW f, NEW n \in Nat, \A k \in 0 .. n - 1 : f[k] \in Nat
    PROVE  \A m \in 0 .. n : Sum(f, m) \in Nat
<1>1. 0 \in Nat /\ \A x, y \in Nat : x + y \in Nat
  OBVIOUS
<1>2. QED
  BY <1>1, SumIsOf

\* A sum grows with what is added up, and with how much of it there is: g is
\* at least f as far as f goes, and f adds nothing after h.
LEMMA SumBounded ==
    ASSUME NEW f, NEW g, NEW n \in Nat, NEW h \in 0 .. n,
           \A k \in 0 .. n - 1 : f[k] \in Int /\ g[k] \in Int,
           \A k \in 0 .. h - 1 : f[k] <= g[k],
           \A k \in h .. n - 1 : f[k] = 0
    PROVE  Sum(f, n) <= Sum(g, h)
<1> DEFINE S == {m \in Nat : m <= n =>
                    Sum(f, m) <= Sum(g, IF m <= h THEN m ELSE h)}
<1>1. 0 \in S
  BY SumStep
<1>2. ASSUME NEW m \in Nat, m \in S PROVE m + 1 \in S
  <2>1. SUFFICES ASSUME m + 1 <= n
                 PROVE  Sum(f, m + 1) <= Sum(g, IF m + 1 <= h THEN m + 1 ELSE h)
    OBVIOUS
  <2>2. Sum(f, m) <= Sum(g, IF m <= h THEN m ELSE h)
    BY <1>2, <2>1
  <2>3. m \in 0 .. n /\ h \in Nat /\ m \in 0 .. n - 1
    BY <2>1
  <2>4. /\ Sum(f, m) \in Int /\ f[m] \in Int /\ g[m] \in Int
        /\ Sum(g, m) \in Int /\ Sum(g, h) \in Int
    BY <2>3, SumIsInt
  <2>5. /\ Sum(f, m + 1) = Sum(f, m) + f[m]
        /\ Sum(g, m + 1) = Sum(g, m) + g[m]
    BY SumStep
  <2>6. CASE m + 1 <= h
    <3>1. m \in 0 .. h - 1 /\ m <= h
      BY <2>6, <2>3
    <3>2. f[m] <= g[m]
      BY <3>1
    <3>3. QED
      BY <2>2, <2>4, <2>5, <2>6, <3>1, <3>2
  <2>7. CASE ~ (m + 1 <= h)
    <3>1. m \in h .. n - 1 /\ (m <= h => m = h)
      BY <2>7, <2>3
    <3>2. f[m] = 0
      BY <3>1
    <3>3. QED
      BY <2>2, <2>4, <2>5, <2>7, <3>1, <3>2
  <2>8. QED
    BY <2>6, <2>7
<1> HIDE DEF S
<1>3. n \in S
  BY <1>1, <1>2, SetInduction
<1>4. QED
  BY <1>3 DEF S

\* Exchanging two summands changes nothing.
LEMMA SumSwapped ==
    ASSUME NEW f, NEW g, NEW n \in Nat, NEW a \in 0 .. n - 1, NEW b \in 0 .. n - 1,
           \A k \in 0 .. n - 1 : f[k] \in Int,
           g[a] = f[b], g[b] = f[a],
           \A k \in (0 .. n - 1) \ {a, b} : g[k] = f[k]
    PROVE  Sum(g, n) = Sum(f, n)
<1> DEFINE S == {m \in Nat : m <= n =>
                    Sum(g, m) = Sum(f, m)
                                + (IF a < m THEN f[b] - f[a] ELSE 0)
                                + (IF b < m THEN f[a] - f[b] ELSE 0)}
<1>1. 0 \in S
  BY SumStep
<1>2. f[a] \in Int /\ f[b] \in Int
  OBVIOUS
<1>3. ASSUME NEW m \in Nat, m \in S PROVE m + 1 \in S
  <2>1. SUFFICES ASSUME m + 1 <= n
                 PROVE  Sum(g, m + 1) = Sum(f, m + 1)
                            + (IF a < m + 1 THEN f[b] - f[a] ELSE 0)
                            + (IF b < m + 1 THEN f[a] - f[b] ELSE 0)
    OBVIOUS
  <2>2. Sum(g, m) = Sum(f, m) + (IF a < m THEN f[b] - f[a] ELSE 0)
                              + (IF b < m THEN f[a] - f[b] ELSE 0)
    BY <1>3, <2>1
  <2>3. m \in 0 .. n /\ m \in 0 .. n - 1
    BY <2>1
  <2>4. Sum(f, m) \in Int /\ f[m] \in Int
    BY <2>3, SumIsInt
  <2>5. /\ Sum(f, m + 1) = Sum(f, m) + f[m]
        /\ Sum(g, m + 1) = Sum(g, m) + g[m]
    BY SumStep
  <2>6. CASE m = a /\ m = b
    BY <1>2, <2>2, <2>4, <2>5, <2>6
  <2>7. CASE m = a /\ m # b
    BY <1>2, <2>2, <2>4, <2>5, <2>7
  <2>8. CASE m # a /\ m = b
    BY <1>2, <2>2, <2>4, <2>5, <2>8
  <2>9. CASE m # a /\ m # b
    <3>1. g[m] = f[m] /\ (a < m <=> a < m + 1) /\ (b < m <=> b < m + 1)
      BY <2>3, <2>9
    <3>2. QED
      BY <1>2, <2>2, <2>4, <2>5, <3>1
  <2>10. QED
    BY <2>6, <2>7, <2>8, <2>9
<1> HIDE DEF S
<1>4. n \in S
  BY <1>1, <1>3, SetInduction
<1>5. Sum(f, n) \in Int
  <2>1. n \in 0 .. n
    OBVIOUS
  <2>2. QED
    BY <2>1, SumIsInt
<1>6. QED
  BY <1>2, <1>4, <1>5 DEF S

LEMMA SharesAre ==
    ASSUME NEW w
    PROVE  /\ DOMAIN Shares(w) = DOMAIN w \/ Shares(w) = w
           /\ \A t \in DOMAIN w : w[t] \in Int => Shares(w)[t] \in Int
           /\ ~ (SumOf(w) < 0) => Shares(w) = w
BY DEF Shares

-----------------------------------------------------------------------------
(* The sort sorts. *)

InRange(x, r) == r.left <= x /\ x <= r.right

\* The ranges still to be sorted have nothing in common.
RangesApart ==
    /\ \A m, n \in 1 .. Len(calls), x \in Cells :
          m # n => ~ (InRange(x, calls[m]) /\ InRange(x, calls[n]))
    /\ \A p \in part, n \in 1 .. Len(calls), x \in Cells :
          ~ (InRange(x, p) /\ InRange(x, calls[n]))
    /\ \A p, q \in part : p = q

InOneCall(x, y) ==
    \E n \in 1 .. Len(calls) : InRange(x, calls[n]) /\ InRange(y, calls[n])
InOnePart(x, y) == \E p \in part : InRange(x, p) /\ InRange(y, p)

\* Two cells are in order already, unless both are in one such range.
Ordered ==
    \A x, y \in Cells :
        x < y => probs[x] >= probs[y] \/ InOneCall(x, y) \/ InOnePart(x, y)

\* What the scans of a partition have passed is on its side of the pivot.
Halves ==
    \A p \in part, k \in Cells :
        InRange(k, p) => /\ k < p.i => probs[k] >= p.pivot
                         /\ k > p.j => probs[k] <= p.pivot

SortOrder == RangesApart /\ Ordered /\ Halves

SortTypes == Arrays /\ Ranges /\ \A p \in part : Partition(p)

LEMMA OrderEnterCall ==
    ASSUME SortTypes, SortOrder, EnterCall
    PROVE  SortOrder'
<1> DEFINE c == Head(calls)
<1>1. Arrays /\ Ranges /\ calls # <<>> /\ part = {}
  BY DEF SortTypes, EnterCall
<1>2. probs' = probs /\ calls' = Tail(calls) /\ Cells' = Cells
  BY DEF EnterCall, Cells
<1>3. PICK S : calls \in Seq(S)
  BY <1>1 DEF Ranges, IsSeq
<1>4. /\ Len(Tail(calls)) = Len(calls) - 1
      /\ \A n \in 1 .. Len(Tail(calls)) : Tail(calls)[n] = calls[n + 1]
      /\ Len(calls) \in Nat /\ Len(calls) > 0 /\ c = calls[1]
  BY <1>1, <1>3, HeadTailProperties, EmptySeq, LenProperties
<1>5. /\ \A n \in 1 .. Len(calls') :
            /\ n + 1 \in 1 .. Len(calls) /\ n + 1 # 1
            /\ calls'[n] = calls[n + 1]
      /\ 1 \in 1 .. Len(calls)
  BY <1>2, <1>4
<1>6. ASSUME NEW p \in part'
      PROVE  /\ ~ (c.left >= c.right)
             /\ p.left = c.left /\ p.right = c.right /\ p.i = c.left
             /\ p.j = c.right
  BY DEF EnterCall
<1>7. RangesApart'
  <2>1. ASSUME NEW m \in 1 .. Len(calls'), NEW n \in 1 .. Len(calls'),
               NEW x \in Cells, m # n
        PROVE  ~ (InRange(x, calls'[m]) /\ InRange(x, calls'[n]))
    <3>1. m + 1 # n + 1
      BY <2>1, <1>2, <1>4
    <3>2. QED
      BY <3>1, <1>5 DEF SortOrder, RangesApart
  <2>2. ASSUME NEW p \in part', NEW n \in 1 .. Len(calls'), NEW x \in Cells
        PROVE  ~ (InRange(x, p) /\ InRange(x, calls'[n]))
    BY <1>4, <1>5, <1>6 DEF SortOrder, RangesApart, InRange
  <2>3. \A p, q \in part' : p = q
    BY DEF EnterCall
  <2>4. QED
    BY <1>2, <2>1, <2>2, <2>3 DEF RangesApart
<1>8. Ordered'
  <2>1. SUFFICES ASSUME NEW x \in Cells, NEW y \in Cells, x < y,
                        ~ (probs[x] >= probs[y])
                 PROVE  InOneCall(x, y)' \/ InOnePart(x, y)'
    BY <1>2 DEF Ordered
  <2>2. PICK n \in 1 .. Len(calls) :
           InRange(x, calls[n]) /\ InRange(y, calls[n])
    BY <2>1, <1>1 DEF SortOrder, Ordered, InOneCall, InOnePart
  <2>3. CASE n = 1
    <3>1. x \in Int /\ y \in Int /\ c.left \in Int /\ c.right \in Int
      BY <1>1, <1>4, <1>5 DEF Arrays, Ranges, InArrays
    <3>2. c.left <= x /\ y <= c.right
      BY <2>2, <2>3, <1>4 DEF InRange
    <3>3. ~ (c.left >= c.right)
      BY <2>1, <3>1, <3>2
    <3>4. \E p \in part' : p.left = c.left /\ p.right = c.right
      BY <3>3 DEF EnterCall
    <3>5. QED
      BY <2>2, <2>3, <3>4, <1>4 DEF InOnePart, InRange
  <2>4. CASE n # 1
    <3>1. n - 1 \in 1 .. Len(calls') /\ n - 1 + 1 = n
      BY <2>4, <1>2, <1>4
    <3>2. calls'[n - 1] = calls[n]
      BY <3>1, <1>5
    <3>3. QED
      BY <2>2, <3>1, <3>2 DEF InOneCall
  <2>5. QED
    BY <2>3, <2>4
<1>9. Halves'
  <2>1. SUFFICES ASSUME NEW p \in part', NEW k \in Cells, InRange(k, p)
                 PROVE  ~ (k < p.i) /\ ~ (k > p.j)
    BY <1>2 DEF Halves
  <2>2. k \in Int /\ p.i \in Int /\ p.j \in Int /\ p.i = p.left /\ p.j = p.right
    BY <1>1, <1>4, <1>5, <1>6 DEF Arrays, Ranges, InArrays
  <2>3. QED
    BY <2>1, <2>2 DEF InRange
<1>10. QED
  BY <1>7, <1>8, <1>9 DEF SortOrder

\* The values of the cells that one turn of the loop leaves in a range.
LEMMA OrderTurn ==
    ASSUME SortTypes, SortOrder, NEW p, Turn(p)
    PROVE  SortOrder'
<1> DEFINE a == Least(StopsUp(p))
           b == Greatest(StopsDown(p))
<1>1. p \in part /\ p.i <= p.j /\ Partition(p) /\ Arrays /\ calls' = calls
  BY DEF SortTypes, Turn
<1>2. /\ a \in p.i .. p.right /\ b \in p.left .. p.j /\ a \in Cells /\ b \in Cells
      /\ probs[a] <= p.pivot /\ probs[b] >= p.pivot
  BY <1>1, ScansMeet
<1>3. /\ p.left \in Int /\ p.right \in Int /\ p.i \in Int /\ p.j \in Int
      /\ p.pivot \in Int /\ p.left <= p.i /\ p.j <= p.right
  BY <1>1 DEF Partition, InArrays
<1>4. \A k \in Cells : k \in Int /\ probs[k] \in Int
  BY <1>1 DEF Arrays
<1>5. a \in Int /\ b \in Int /\ InRange(a, p) /\ InRange(b, p)
  BY <1>2, <1>3 DEF InRange
<1>6. \A k \in Cells : p.i <= k /\ k < a => probs[k] >= p.pivot
  <2>1. SUFFICES ASSUME NEW k \in Cells, p.i <= k, k < a,
                        ~ (probs[k] >= p.pivot)
                 PROVE  FALSE
    OBVIOUS
  <2>2. probs[k] <= p.pivot
    BY <2>1, <1>3, <1>4
  <2>3. k \in StopsUp(p)
    BY <2>1, <2>2 DEF StopsUp
  <2>4. StopsUp(p) \in SUBSET Int /\ \A o \in StopsUp(p) : p.i <= o
    BY <1>4 DEF StopsUp
  <2>5. a <= k
    BY <2>3, <2>4, <1>3, LeastOf
  <2>6. QED
    BY <2>1, <2>5, <1>4, <1>5
<1>7. \A k \in Cells : b < k /\ k <= p.j => probs[k] <= p.pivot
  <2>1. SUFFICES ASSUME NEW k \in Cells, b < k, k <= p.j,
                        ~ (probs[k] <= p.pivot)
                 PROVE  FALSE
    OBVIOUS
  <2>2. probs[k] >= p.pivot
    BY <2>1, <1>3, <1>4
  <2>3. k \in StopsDown(p)
    BY <2>1, <2>2 DEF StopsDown
  <2>4. StopsDown(p) \in SUBSET Int /\ \A o \in StopsDown(p) : o <= p.j
    BY <1>4 DEF StopsDown
  <2>5. k <= b
    BY <2>3, <2>4, <1>3, GreatestOf
  <2>6. QED
    BY <2>1, <2>5, <1>4, <1>5
<1>8. \A k \in Cells : InRange(k, p) =>
          /\ k < a => probs[k] >= p.pivot
          /\ k > b => probs[k] <= p.pivot
  <2>1. SUFFICES ASSUME NEW k \in Cells, InRange(k, p)
                 PROVE  /\ k < a => probs[k] >= p.pivot
                        /\ k > b => probs[k] <= p.pivot
    OBVIOUS
  <2>2. /\ k < p.i => probs[k] >= p.pivot
        /\ k > p.j => probs[k] <= p.pivot
    BY <2>1, <1>1 DEF SortOrder, Halves
  <2>3. QED
    BY <2>2, <1>3, <1>4, <1>6, <1>7
<1>9. \E q \in part' :
        /\ part' = {q} /\ q.left = p.left /\ q.right = p.right
        /\ q.pivot = p.pivot
        /\ q.i = (IF a <= b THEN a + 1 ELSE a)
        /\ q.j = (IF a <= b THEN b - 1 ELSE b)
  <2>1. IsPart(p)
    BY <1>1 DEF Partition
  <2>2. \A u, v : LET q == [p EXCEPT !.i = u, !.j = v] IN
           /\ q.left = p.left /\ q.right = p.right /\ q.pivot = p.pivot
           /\ q.i = u /\ q.j = v
    BY <2>1 DEF IsPart
  <2>3. CASE a <= b
    <3> PICK q : q = [p EXCEPT !.i = a + 1, !.j = b - 1]
      OBVIOUS
    <3>1. part' = {q}
      BY <2>3 DEF Turn
    <3>2. /\ q.left = p.left /\ q.right = p.right /\ q.pivot = p.pivot
          /\ q.i = a + 1 /\ q.j = b - 1
      BY <2>2
    <3>3. QED
      BY <3>1, <3>2, <2>3
  <2>4. CASE ~ (a <= b)
    <3> PICK q : q = [p EXCEPT !.i = a, !.j = b]
      OBVIOUS
    <3>1. part' = {q}
      BY <2>4 DEF Turn
    <3>2. /\ q.left = p.left /\ q.right = p.right /\ q.pivot = p.pivot
          /\ q.i = a /\ q.j = b
      BY <2>2
    <3>3. QED
      BY <3>1, <3>2, <2>4
  <2>5. QED
    BY <2>3, <2>4
<1>10. PICK q \in part' :
        /\ part' = {q} /\ q.left = p.left /\ q.right = p.right
        /\ q.pivot = p.pivot
        /\ q.i = (IF a <= b THEN a + 1 ELSE a)
        /\ q.j = (IF a <= b THEN b - 1 ELSE b)
  BY <1>9
<1>11. /\ Cells' = Cells
       /\ \A k \in Cells \ {a, b} : probs'[k] = probs[k]
       /\ a <= b => probs'[a] = probs[b] /\ probs'[b] = probs[a]
       /\ ~ (a <= b) => probs' = probs
  BY <1>2, <1>1 DEF Turn, Swapped, Cells
<1>12. \A x : InRange(x, q) <=> InRange(x, p)
  BY <1>10 DEF InRange
<1> HIDE DEF a, b
<1>13. RangesApart'
  BY <1>1, <1>10, <1>11, <1>12 DEF SortOrder, RangesApart
<1>14. Ordered'
  <2>1. SUFFICES ASSUME NEW x \in Cells, NEW y \in Cells, x < y,
                        ~ InOneCall(x, y)', ~ InOnePart(x, y)'
                 PROVE  probs'[x] >= probs'[y]
    BY <1>11 DEF Ordered
  <2>2. ~ InOneCall(x, y) /\ ~ InOnePart(x, y)
    BY <2>1, <1>1, <1>10, <1>12 DEF InOneCall, InOnePart, SortOrder, RangesApart
  <2>3. ~ (InRange(x, p) /\ InRange(y, p))
    BY <2>2, <1>1 DEF InOnePart
  <2>4. \A u, v \in Cells : InRange(u, p) /\ ~ InRange(v, p) =>
           /\ u < v => probs[u] >= probs[v]
           /\ v < u => probs[v] >= probs[u]
    <3>1. SUFFICES ASSUME NEW u \in Cells, NEW v \in Cells, InRange(u, p),
                          ~ InRange(v, p)
                   PROVE  /\ u < v => probs[u] >= probs[v]
                          /\ v < u => probs[v] >= probs[u]
      OBVIOUS
    <3>2. /\ ~ InOneCall(u, v) /\ ~ InOnePart(u, v)
          /\ ~ InOneCall(v, u) /\ ~ InOnePart(v, u)
      BY <3>1, <1>1 DEF InOneCall, InOnePart, SortOrder, RangesApart
    <3>3. QED
      BY <3>2 DEF SortOrder, Ordered
  <2>5. CASE ~ InRange(x, p) /\ ~ InRange(y, p)
    <3>1. x \notin {a, b} /\ y \notin {a, b}
      BY <2>5, <1>5
    <3>2. probs'[x] = probs[x] /\ probs'[y] = probs[y]
      BY <3>1, <1>11
    <3>3. QED
      BY <2>1, <2>2, <3>2 DEF SortOrder, Ordered
  <2>6. CASE InRange(x, p) /\ ~ InRange(y, p)
    <3>1. y \notin {a, b} /\ a < y /\ b < y
      BY <2>1, <2>6, <1>3, <1>4, <1>5 DEF InRange
    <3>2. probs'[y] = probs[y]
      BY <3>1, <1>11
    <3>3. probs'[x] \in {probs[x], probs[a], probs[b]}
      BY <1>11
    <3>4. probs[x] >= probs[y] /\ probs[a] >= probs[y] /\ probs[b] >= probs[y]
      BY <2>1, <2>4, <2>6, <3>1, <1>2, <1>5
    <3>5. QED
      BY <3>2, <3>3, <3>4
  <2>7. CASE ~ InRange(x, p) /\ InRange(y, p)
    <3>1. x \notin {a, b} /\ x < a /\ x < b
      BY <2>1, <2>7, <1>3, <1>4, <1>5 DEF InRange
    <3>2. probs'[x] = probs[x]
      BY <3>1, <1>11
    <3>3. probs'[y] \in {probs[y], probs[a], probs[b]}
      BY <1>11
    <3>4. probs[x] >= probs[y] /\ probs[x] >= probs[a] /\ probs[x] >= probs[b]
      BY <2>1, <2>4, <2>7, <3>1, <1>2, <1>5
    <3>5. QED
      BY <3>2, <3>3, <3>4
  <2>8. QED
    BY <2>3, <2>5, <2>6, <2>7
<1>15. Halves'
  <2>1. SUFFICES ASSUME NEW k \in Cells, InRange(k, p)
                 PROVE  /\ k < q.i => probs'[k] >= p.pivot
                        /\ k > q.j => probs'[k] <= p.pivot
    BY <1>10, <1>11, <1>12 DEF Halves
  <2>2. CASE ~ (a <= b)
    BY <2>1, <2>2, <1>8, <1>10, <1>11
  <2>3. CASE a <= b
    <3>1. q.i = a + 1 /\ q.j = b - 1
      BY <2>3, <1>10
    <3>2. ASSUME k < a + 1 PROVE probs'[k] >= p.pivot
      <4>1. CASE k = a
        BY <4>1, <2>3, <1>2, <1>11
      <4>2. CASE k # a
        <5>1. k < a /\ k # b
          BY <3>2, <4>2, <2>3, <1>4, <1>5
        <5>2. QED
          BY <5>1, <4>2, <2>1, <1>8, <1>11
      <4>3. QED
        BY <4>1, <4>2
    <3>3. ASSUME k > b - 1 PROVE probs'[k] <= p.pivot
      <4>1. CASE k = b
        BY <4>1, <2>3, <1>2, <1>11
      <4>2. CASE k # b
        <5>1. k > b /\ k # a
          BY <3>3, <4>2, <2>3, <1>4, <1>5
        <5>2. QED
          BY <5>1, <4>2, <2>1, <1>8, <1>11
      <4>3. QED
        BY <4>1, <4>2
    <3>4. QED
      BY <3>1, <3>2, <3>3
  <2>4. QED
    BY <2>2, <2>3
<1>16. QED
  BY <1>13, <1>14, <1>15 DEF SortOrder

LEMMA OrderDivide ==
    ASSUME SortTypes, SortOrder, NEW p, Divide(p)
    PROVE  SortOrder'
<1> DEFINE l == Call(p.left, p.j)
           r == Call(p.i, p.right)
<1>1. p \in part /\ p.i > p.j /\ Partition(p) /\ Arrays /\ Ranges
  BY DEF SortTypes, Divide
<1>2. probs' = probs /\ part' = {} /\ calls' = <<l, r>> \o calls
      /\ Cells' = Cells
  BY DEF Divide, Cells
<1>3. /\ p.left \in Int /\ p.right \in Int /\ p.i \in Int /\ p.j \in Int
      /\ p.pivot \in Int /\ p.left <= p.i /\ p.j <= p.right
  BY <1>1 DEF Partition, InArrays
<1>4. \A k \in Cells : k \in Int /\ probs[k] \in Int
  BY <1>1 DEF Arrays
<1>5. \A x : /\ InRange(x, l) <=> p.left <= x /\ x <= p.j
             /\ InRange(x, r) <=> p.i <= x /\ x <= p.right
  BY DEF InRange, Call
<1>6. \A x \in Cells : /\ InRange(x, l) => InRange(x, p) /\ ~ InRange(x, r)
                       /\ InRange(x, r) => InRange(x, p)
  BY <1>1, <1>3, <1>4, <1>5 DEF InRange
<1>7. PICK S : calls \in Seq(S)
  BY <1>1 DEF Ranges, IsSeq
<1>8. calls \in Seq(S \cup {l, r}) /\ <<l, r>> \in Seq(S \cup {l, r})
      /\ Len(<<l, r>>) = 2 /\ <<l, r>>[1] = l /\ <<l, r>>[2] = r
  BY <1>7, SeqMonotonic
<1>9. /\ Len(calls) \in Nat /\ Len(calls') = 2 + Len(calls)
      /\ \A n \in 1 .. 2 + Len(calls) :
            calls'[n] = IF n <= 2 THEN <<l, r>>[n] ELSE calls[n - 2]
  BY <1>2, <1>8, ConcatProperties, LenProperties
<1>10. /\ 1 \in 1 .. Len(calls') /\ 2 \in 1 .. Len(calls')
       /\ calls'[1] = l /\ calls'[2] = r
       /\ \A n \in 1 .. Len(calls) : n + 2 \in 1 .. Len(calls')
                                     /\ calls'[n + 2] = calls[n]
       /\ \A n \in 1 .. Len(calls') :
             \/ n = 1 \/ n = 2
             \/ n - 2 \in 1 .. Len(calls) /\ calls'[n] = calls[n - 2] /\ n > 2
  <2>1. ASSUME NEW n \in 1 .. Len(calls)
        PROVE  n + 2 \in 1 .. Len(calls') /\ calls'[n + 2] = calls[n]
    <3>1. n + 2 \in 1 .. 2 + Len(calls) /\ ~ (n + 2 <= 2) /\ n + 2 - 2 = n
      BY <1>9
    <3>2. QED
      BY <3>1, <1>9
  <2>2. 1 \in 1 .. 2 + Len(calls) /\ 2 \in 1 .. 2 + Len(calls)
    BY <1>9
  <2>3. QED
    BY <2>1, <2>2, <1>8, <1>9
<1> HIDE DEF l, r
<1>11. RangesApart'
  <2>1. ASSUME NEW m \in 1 .. Len(calls'), NEW n \in 1 .. Len(calls'),
               NEW x \in Cells, m # n,
               InRange(x, calls'[m]), InRange(x, calls'[n])
        PROVE  FALSE
    <3>1. \A k \in 1 .. Len(calls) : InRange(x, p) => ~ InRange(x, calls[k])
      BY <1>1 DEF SortOrder, RangesApart
    <3>2. CASE m \in {1, 2} /\ n \in {1, 2}
      BY <2>1, <3>2, <1>6, <1>10
    <3>3. CASE m \in {1, 2} /\ n \notin {1, 2}
      BY <2>1, <3>1, <3>3, <1>6, <1>10
    <3>4. CASE m \notin {1, 2} /\ n \in {1, 2}
      BY <2>1, <3>1, <3>4, <1>6, <1>10
    <3>5. CASE m \notin {1, 2} /\ n \notin {1, 2}
      <4>1. /\ m - 2 \in 1 .. Len(calls) /\ calls'[m] = calls[m - 2]
            /\ n - 2 \in 1 .. Len(calls) /\ calls'[n] = calls[n - 2]
            /\ m - 2 # n - 2
        BY <2>1, <3>5, <1>9, <1>10
      <4>2. QED
        BY <2>1, <4>1 DEF SortOrder, RangesApart
    <3>6. QED
      BY <3>2, <3>3, <3>4, <3>5
  <2>2. QED
    BY <2>1, <1>2 DEF RangesApart
<1>12. Ordered'
  <2>1. SUFFICES ASSUME NEW x \in Cells, NEW y \in Cells, x < y,
                        ~ (probs[x] >= probs[y])
                 PROVE  InOneCall(x, y)'
    BY <1>2 DEF Ordered
  <2>2. CASE InOneCall(x, y)
    BY <2>2, <1>10 DEF InOneCall
  <2>3. CASE InOnePart(x, y)
    <3>1. InRange(x, p) /\ InRange(y, p)
      BY <2>3, <1>1 DEF InOnePart, SortOrder, RangesApart
    <3>2. /\ x < p.i => probs[x] >= p.pivot
          /\ y > p.j => probs[y] <= p.pivot
      BY <3>1, <1>1 DEF SortOrder, Halves
    <3>3. y <= p.j \/ p.i <= x
      BY <2>1, <3>2, <1>3, <1>4
    <3>4. \/ InRange(x, l) /\ InRange(y, l)
          \/ InRange(x, r) /\ InRange(y, r)
      BY <2>1, <3>1, <3>3, <1>3, <1>4, <1>5 DEF InRange
    <3>5. QED
      BY <3>4, <1>10 DEF InOneCall
  <2>4. QED
    BY <2>1, <2>2, <2>3 DEF SortOrder, Ordered
<1>13. Halves'
  BY <1>2 DEF Halves
<1>14. QED
  BY <1>11, <1>12, <1>13 DEF SortOrder

-----------------------------------------------------------------------------
(* The draw. *)

\* The tokens of a set weigh in the arrays what they weigh in the answer, if
\* the answer weighs more than nothing.
Weighed ==
    /\ Last \in Nat /\ Cells = 0 .. Last
    /\ DOMAIN weight = Cells /\ DOMAIN indices = Cells
    /\ \A k \in Cells : /\ weight[k] \in Int /\ indices[k] \in Cells
                        /\ probs[k] = Shares(weight)[indices[k]]
    /\ Total > 0 => \A S \in SUBSET Cells :
          Sum([k \in Cells |-> IF indices[k] \in S THEN probs[k] ELSE 0], Last + 1)
          = WeightOf(S)
    /\ \E t \in Cells : weight[t] > 0

LEMMA WeighedSame ==
    ASSUME Weighed, UNCHANGED <<weight, probs, indices>>
    PROVE  Weighed'
BY DEF Weighed, WeightOf, Total, Cells, Last

LEMMA WeighedNumbers ==
    ASSUME Weighed
    PROVE  /\ Last \in Nat /\ Cells = 0 .. Last /\ Cells \subseteq Nat
           /\ \A k \in Cells : /\ weight[k] \in Int /\ probs[k] \in Int
                               /\ indices[k] \in Cells
                               /\ probs[k] = Shares(weight)[indices[k]]
           /\ Total \in Int
           /\ \E N \in Nat : /\ N = Last + 1 /\ Cells = 0 .. N - 1
                            /\ Cardinality(DOMAIN weight) = N
<1>1. Last \in Nat /\ Cells = 0 .. Last /\ DOMAIN weight = Cells
  BY DEF Weighed
<1>2. Cells \subseteq Nat
  BY <1>1
<1>3. \A k \in Cells : /\ weight[k] \in Int /\ indices[k] \in Cells
                      /\ probs[k] = Shares(weight)[indices[k]]
  BY DEF Weighed
<1>4. \A k \in Cells : probs[k] \in Int
  BY <1>1, <1>3, SharesAre
<1>5. Cardinality(0 .. Last) = Last + 1
  <2>1. Last >= 0 /\ Last - 0 + 1 = Last + 1
    BY <1>1
  <2>2. 0 \in Int /\ Last \in Int
    BY <1>1
  <2>3. Cardinality(0 .. Last) = IF 0 > Last THEN 0 ELSE Last - 0 + 1
    BY <2>2, FS_Interval
  <2>4. QED
    BY <1>1, <2>1, <2>3
<1>6. Last + 1 \in Nat /\ 0 .. (Last + 1) - 1 = 0 .. Last
  BY <1>1
<1>7. Total \in Int
  <2>1. \A m \in 0 .. Last + 1 : Sum(weight, m) \in Int
    BY <1>1, <1>3, <1>6, SumIsInt
  <2>2. Last + 1 \in 0 .. Last + 1
    BY <1>6
  <2>3. QED
    BY <2>1, <2>2, <1>1, <1>5 DEF Total, SumOf
<1>8. QED
  BY <1>1, <1>2, <1>3, <1>4, <1>5, <1>6, <1>7

LEMMA WeighedTurn ==
    ASSUME Weighed, SortTypes, NEW p, Turn(p)
    PROVE  Weighed'
<1> PICK a : a = Least(StopsUp(p))
  OBVIOUS
<1> PICK b : b = Greatest(StopsDown(p))
  OBVIOUS
<1>1. p \in part /\ p.i <= p.j /\ Partition(p) /\ Arrays
  BY DEF SortTypes, Turn
<1>2. a \in Cells /\ b \in Cells
  BY <1>1, ScansMeet
<1>3. weight' = weight
  BY DEF Turn
<1>4. CASE ~ (a <= b)
  <2>1. UNCHANGED <<weight, probs, indices>>
    BY <1>4 DEF Turn
  <2>2. QED
    BY <2>1, WeighedSame
<1>5. CASE a <= b
  <2>1. probs' = Swapped(probs, a, b) /\ indices' = Swapped(indices, a, b)
    BY <1>5 DEF Turn
  <2>2. /\ DOMAIN probs' = Cells /\ DOMAIN indices' = Cells
        /\ probs'[a] = probs[b] /\ probs'[b] = probs[a]
        /\ indices'[a] = indices[b] /\ indices'[b] = indices[a]
        /\ \A k \in Cells \ {a, b} : probs'[k] = probs[k] /\ indices'[k] = indices[k]
    BY <2>1, <1>1, <1>2 DEF Swapped, Cells, Arrays
  <2>3. Cells' = Cells /\ Last' = Last
    BY <2>2 DEF Cells, Last
  <2>4. \A k \in Cells : /\ indices'[k] \in Cells
                          /\ probs'[k] = Shares(weight)[indices'[k]]
    <3>1. \A k \in Cells : /\ indices[k] \in Cells
                            /\ probs[k] = Shares(weight)[indices[k]]
      BY WeighedNumbers
    <3>2. QED
      BY <2>2, <3>1, <1>2
  <2>5. ASSUME NEW S \in SUBSET Cells, Total > 0
        PROVE  Sum([k \in Cells |-> IF indices'[k] \in S THEN probs'[k] ELSE 0],
                   Last + 1) = WeightOf(S)
    <3> DEFINE f == [k \in Cells |-> IF indices[k] \in S THEN probs[k] ELSE 0]
               g == [k \in Cells |-> IF indices'[k] \in S THEN probs'[k] ELSE 0]
    <3>1. PICK N \in Nat : N = Last + 1 /\ Cells = 0 .. N - 1
      BY WeighedNumbers
    <3>2. g[a] = f[b] /\ g[b] = f[a]
      BY <1>2, <2>2
    <3>3. \A k \in Cells \ {a, b} : g[k] = f[k]
      BY <2>2
    <3>4. \A k \in Cells : f[k] \in Int
      BY WeighedNumbers
    <3> HIDE DEF f, g
    <3>5. Sum(g, N) = Sum(f, N)
      BY <1>2, <3>1, <3>2, <3>3, <3>4, SumSwapped
    <3>6. Sum(f, Last + 1) = WeightOf(S)
      BY <2>5 DEF Weighed, f
    <3>7. QED
      BY <3>1, <3>5, <3>6 DEF g
  <2>6. Total' = Total /\ \A S : WeightOf(S)' = WeightOf(S)
    BY <1>3 DEF WeightOf, Total
  <2>7. /\ Last \in Nat /\ Cells = 0 .. Last /\ DOMAIN weight = Cells
        /\ \A k \in Cells : weight[k] \in Int
        /\ \E t \in Cells : weight[t] > 0
    BY DEF Weighed
  <2>8. QED
    BY <1>3, <2>2, <2>3, <2>4, <2>5, <2>6, <2>7 DEF Weighed
<1>6. QED
  BY <1>4, <1>5

\* The draw names a cell before the cut, the first whose running sum reaches r.
LEMMA DrawIsACell ==
    ASSUME Weighed, NEW n, NEW r \in Int, Draw(n, r)
    PROVE  /\ n \in 1 .. Last + 1 /\ weight' = weight
           /\ UNCHANGED <<probs, indices>>
           /\ \A k \in 0 .. Last :
                 /\ k \in Nat /\ Sum(probs, k) \in Int
                 /\ Sum(probs, k + 1) = Sum(probs, k) + probs[k]
           /\ \E h \in Cells :
                 /\ h \in 0 .. n - 1 /\ chosen' = indices[h]
                 /\ r <= 2 * Sum(probs, h + 1)
                 /\ h # 0 => ~ (r <= 2 * Sum(probs, h))
<1>1. calls = <<>> /\ part = {} /\ Candidate(n) /\ r < 2 * Sum(probs, n)
      /\ weight' = weight
  BY DEF Draw
<1>2. /\ Last \in Nat /\ n \in 1 .. Last + 1 /\ n \in Nat /\ Cells = 0 .. Last
      /\ \A k \in Cells : probs[k] \in Int /\ k \in Int
  <2>1. Last \in Nat /\ n \in 1 .. Last + 1
    BY <1>1, WeighedNumbers DEF Candidate
  <2>2. QED
    BY <2>1, WeighedNumbers
<1> PICK N \in Nat : /\ N = Last + 1 /\ Cells = 0 .. N - 1
                     /\ Cardinality(DOMAIN weight) = N
  BY WeighedNumbers
<1>3. \A k \in 0 .. Last : /\ k \in Nat /\ Sum(probs, k) \in Int
                           /\ Sum(probs, k + 1) = Sum(probs, k) + probs[k]
  <2>1. \A k \in 0 .. N : Sum(probs, k) \in Int
    BY <1>2, SumIsInt
  <2>2. \A k \in 0 .. Last : k \in Nat /\ k \in 0 .. N
    BY <1>2
  <2>3. QED
    BY <2>1, <2>2, SumStep
<1> DEFINE hits == {k \in 0 .. n - 1 : r <= 2 * Sum(probs, k + 1)}
<1>4. n - 1 \in hits
  <2>1. n - 1 + 1 = n /\ n - 1 \in 0 .. n - 1 /\ n - 1 \in 0 .. Last
    BY <1>2
  <2>2. Sum(probs, n - 1) \in Int /\ probs[n - 1] \in Int
        /\ Sum(probs, n - 1 + 1) = Sum(probs, n - 1) + probs[n - 1]
    BY <2>1, <1>2, <1>3
  <2>3. Sum(probs, n) \in Int
    BY <2>1, <2>2
  <2>4. QED
    BY <2>1, <2>3, <1>1
<1> PICK h : h = Least(hits)
  OBVIOUS
<1>5. h \in hits /\ \A k \in hits : h <= k
  <2>1. hits \in SUBSET Int /\ \A k \in hits : 0 <= k
    OBVIOUS
  <2>2. hits # {}
    BY <1>4
  <2> HIDE DEF hits
  <2>3. QED
    BY <2>1, <2>2, LeastOf
<1>6. chosen' = indices[h]
  BY <1>4 DEF Draw
<1>7. h \in 0 .. n - 1 /\ h \in Cells /\ h \in Nat /\ r <= 2 * Sum(probs, h + 1)
  BY <1>2, <1>5
<1>8. h # 0 => ~ (r <= 2 * Sum(probs, h))
  <2>1. SUFFICES ASSUME h # 0, r <= 2 * Sum(probs, h) PROVE FALSE
    OBVIOUS
  <2>2. h - 1 + 1 = h /\ h - 1 \in 0 .. n - 1
    BY <2>1, <1>2, <1>7
  <2>3. h - 1 \in hits
    BY <2>1, <2>2
  <2>4. QED
    BY <2>3, <1>5, <1>7
<1> HIDE DEF hits
<1>9. UNCHANGED <<probs, indices>>
  BY DEF Draw
<1>10. QED
  BY <1>1, <1>2, <1>3, <1>6, <1>7, <1>8, <1>9

\* The draw comes when the arrays are sorted: what is before a candidate holds
\* less than nine tenths, and no token likelier than it comes after it.
LEMMA DrawIsNucleus ==
    ASSUME SortTypes, SortOrder, NoTokenLost, Weighed,
           NEW n, NEW r \in Int, Draw(n, r), Total > 0
    PROVE  NucleusSampled'
<1>1. calls = <<>> /\ part = {} /\ Candidate(n) /\ weight' = weight
  BY DEF Draw
<1>2. /\ Last \in Nat /\ n \in 1 .. Last + 1 /\ n \in Nat /\ Cells = 0 .. Last
      /\ \A k \in Cells : probs[k] \in Int /\ k \in Int
      /\ Shares(weight) = weight
  <2>1. Last \in Nat /\ n \in 1 .. Last + 1
    BY DrawIsACell, WeighedNumbers
  <2>2. Total \in Int
    BY WeighedNumbers
  <2>3. Shares(weight) = weight
    BY <2>2, SharesAre DEF Total
  <2>4. QED
    BY <2>1, <2>3, WeighedNumbers
<1> PICK N \in Nat : /\ N = Last + 1 /\ Cells = 0 .. N - 1
                     /\ Cardinality(DOMAIN weight) = N
  BY WeighedNumbers
<1>3. \A x, y \in Cells : x <= y => probs[x] >= probs[y]
  <2>1. SUFFICES ASSUME NEW x \in Cells, NEW y \in Cells, x <= y
                 PROVE  probs[x] >= probs[y]
    OBVIOUS
  <2>2. CASE x = y
    BY <2>2, <1>2
  <2>3. CASE x # y
    <3>1. x < y
      BY <2>1, <2>3, <1>2
    <3>2. ~ InOneCall(x, y) /\ ~ InOnePart(x, y)
      BY <1>1, ShortSequences DEF InOneCall, InOnePart
    <3>3. QED
      BY <3>1, <3>2 DEF SortOrder, Ordered
  <2>4. QED
    BY <2>2, <2>3
<1>4. \A k \in 0 .. Last : /\ k \in Nat /\ Sum(probs, k) \in Int
                           /\ Sum(probs, k + 1) = Sum(probs, k) + probs[k]
  BY DrawIsACell
<1> PICK h \in Cells : /\ h \in 0 .. n - 1 /\ chosen' = indices[h]
                       /\ r <= 2 * Sum(probs, h + 1)
                       /\ h # 0 => ~ (r <= 2 * Sum(probs, h))
  BY DrawIsACell
<1>8. h \in 0 .. n - 1 /\ h \in Cells /\ h \in Nat /\ h \in 0 .. Last
  BY <1>2
<1>10. probs[h] > 0
  <2>1. CASE h = 0
    <3>1. PICK t \in Cells : weight[t] > 0
      BY DEF Weighed
    <3>2. PICK k \in Cells : probs[k] = weight[t]
      BY <3>1, <1>2 DEF NoTokenLost
    <3>3. 0 <= k /\ probs[0] >= probs[k]
      BY <1>2, <1>3, <1>8, <2>1
    <3>4. QED
      BY <3>1, <3>2, <3>3, <2>1, <1>2, <1>8
  <2>2. CASE h # 0
    BY <2>2, <1>2, <1>4, <1>8
  <2>3. QED
    BY <2>1, <2>2
<1>11. Total \in Int /\ Total > 0
  BY WeighedNumbers
<1>12. 10 * Sum(probs, h) < 9 * Total
  <2>1. CASE h = 0
    BY <2>1, <1>11, SumStep
  <2>2. CASE h # 0
    <3>1. h \in 1 .. n - 1
      BY <2>2, <1>8
    <3>2. ~ IsEnough(h)
      BY <3>1, <1>1 DEF Candidate
    <3>3. QED
      BY SMTT(30), <3>2, <1>2, <1>4, <1>8, <1>11 DEF IsEnough
  <2>3. QED
    BY <2>1, <2>2
<1> PICK c : c = indices[h]
  OBVIOUS
<1>13. c \in Cells /\ weight[c] = probs[h]
  BY <1>2, <1>8 DEF Weighed
<1> DEFINE Likelier == {t \in DOMAIN weight : weight[t] > weight[c]}
           f == [k \in Cells |-> IF indices[k] \in Likelier THEN probs[k] ELSE 0]
<1>14. WeightOf(Likelier) = Sum(f, N)
  <2>1. Likelier \in SUBSET Cells /\ N = Last + 1
    BY DEF Weighed
  <2>2. QED
    BY <2>1, <1>11 DEF Weighed
<1>15. \A k \in Cells : /\ f[k] \in Int
                        /\ k < h => f[k] <= probs[k]
                        /\ h <= k => f[k] = 0
  <2>1. SUFFICES ASSUME NEW k \in Cells
                 PROVE  /\ f[k] \in Int
                        /\ k < h => f[k] <= probs[k]
                        /\ h <= k => f[k] = 0
    OBVIOUS
  <2>2. f[k] \in {probs[k], 0}
    OBVIOUS
  <2>3. CASE h <= k
    <3>1. probs[k] <= probs[h]
      BY <2>3, <1>2, <1>3, <1>8
    <3>2. weight[indices[k]] = probs[k]
      BY <1>2 DEF Weighed
    <3>3. ~ (weight[indices[k]] > weight[c])
      BY <3>1, <3>2, <1>2, <1>8, <1>13
    <3>4. QED
      BY <2>3, <3>3, <1>2, <1>8
  <2>4. CASE ~ (h <= k)
    <3>1. k <= h /\ k < h
      BY <2>4, <1>2, <1>8
    <3>2. probs[k] >= probs[h] /\ probs[k] \in Int /\ probs[h] \in Int
      BY <3>1, <1>2, <1>3, <1>8
    <3>3. QED
      BY <2>2, <2>4, <3>1, <3>2, <1>10
  <2>5. QED
    BY <2>3, <2>4
<1> HIDE DEF f
<1>16. Sum(f, N) <= Sum(probs, h)
  <2>1. h \in 0 .. N
    BY <1>2, <1>8
  <2>2. /\ \A k \in 0 .. h - 1 : f[k] <= probs[k]
        /\ \A k \in h .. N - 1 : f[k] = 0
    BY <2>1, <1>8, <1>15
  <2>3. \A k \in 0 .. N - 1 : f[k] \in Int /\ probs[k] \in Int
    BY <1>2, <1>15
  <2>4. QED
    BY <2>1, <2>2, <2>3, SumBounded
<1>17. Sum(f, N) \in Int
  <2>1. N \in 0 .. N /\ \A k \in 0 .. N - 1 : f[k] \in Int
    BY <1>15
  <2>2. QED
    BY <2>1, SumIsInt
<1>18. 10 * WeightOf(Likelier) < 9 * Total
  BY SMTT(30), <1>4, <1>8, <1>2, <1>11, <1>12, <1>14, <1>16, <1>17
<1>19. chosen' = c /\ weight[c] > 0
  BY <1>10, <1>13
<1>20. \A S : WeightOf(S)' = WeightOf(S)
  BY <1>1 DEF WeightOf
<1>21. Total' = Total
  BY <1>1 DEF Total
<1>22. QED
  BY <1>1, <1>18, <1>19, <1>20, <1>21 DEF NucleusSampled

\* Without memory for the arrays: no token is likelier than the one taken.
LEMMA GreedyIsLikeliest ==
    ASSUME NEW w, NEW N \in Nat, DOMAIN w = 0 .. N - 1,
           \A k \in 0 .. N - 1 : w[k] \in Int,
           NEW some \in 0 .. N - 1, w[some] > 0
    PROVE  /\ Greedy(w) \in 0 .. N - 1
           /\ \A o \in 0 .. N - 1 : w[o] <= w[Greedy(w)]
<1> DEFINE S == {m \in Nat : m < N => \E t \in 0 .. m : \A o \in 0 .. m : w[o] <= w[t]}
           Likeliest == {t \in DOMAIN w : \A o \in DOMAIN w : w[o] <= w[t]}
<1>1. 0 \in S
  <2>1. SUFFICES ASSUME 0 < N PROVE \E t \in 0 .. 0 : \A o \in 0 .. 0 : w[o] <= w[t]
    OBVIOUS
  <2>2. w[0] \in Int /\ 0 \in 0 .. 0 /\ \A o \in 0 .. 0 : o = 0
    BY <2>1
  <2>3. \A o \in 0 .. 0 : w[o] <= w[0]
    BY <2>2
  <2>4. QED
    BY <2>2, <2>3
<1>2. ASSUME NEW m \in Nat, m \in S PROVE m + 1 \in S
  <2>1. SUFFICES ASSUME m + 1 < N
                 PROVE  \E t \in 0 .. m + 1 : \A o \in 0 .. m + 1 : w[o] <= w[t]
    OBVIOUS
  <2>2. PICK t \in 0 .. m : \A o \in 0 .. m : w[o] <= w[t]
    BY <1>2, <2>1
  <2>3. /\ \A o \in 0 .. m + 1 : o \in 0 .. m \/ o = m + 1
        /\ \A o \in 0 .. m : o \in 0 .. m + 1 /\ w[o] \in Int
        /\ m + 1 \in 0 .. m + 1 /\ w[m + 1] \in Int /\ w[t] \in Int
    BY <2>1
  <2>4. CASE w[m + 1] <= w[t]
    <3>1. \A o \in 0 .. m + 1 : w[o] <= w[t]
      BY <2>2, <2>3, <2>4
    <3>2. QED
      BY <3>1, <2>3
  <2>5. CASE ~ (w[m + 1] <= w[t])
    <3>1. \A o \in 0 .. m + 1 : w[o] <= w[m + 1]
      BY SMTT(30), <2>2, <2>3, <2>5
    <3>2. QED
      BY <3>1, <2>3
  <2>6. QED
    BY <2>4, <2>5
<1> HIDE DEF S
<1>3. N - 1 \in S /\ N - 1 \in Nat /\ N - 1 < N
  <2>1. Nat \subseteq S
    BY <1>1, <1>2, SetInduction
  <2>2. N - 1 \in Nat /\ N - 1 < N
    OBVIOUS
  <2>3. QED
    BY <2>1, <2>2
<1>4. Likeliest # {}
  BY <1>3 DEF S
<1>5. Likeliest \in SUBSET Int /\ 0 \in Int /\ \A k \in Likeliest : 0 <= k
  OBVIOUS
<1> HIDE DEF Likeliest
<1>6. Least(Likeliest) \in Likeliest
  BY <1>4, <1>5, LeastOf
<1>7. QED
  BY <1>6 DEF Greedy, Likeliest

LEMMA NothingLikelier ==
    ASSUME NEW w, NEW N \in Nat, DOMAIN w = 0 .. N - 1,
           \A k \in 0 .. N - 1 : w[k] \in Int,
           NEW some \in 0 .. N - 1, w[some] > 0, Sum(w, N) > 0,
           NEW c \in 0 .. N - 1, \A o \in 0 .. N - 1 : w[o] <= w[c]
    PROVE  LET likelier == {t \in DOMAIN w : w[t] > w[c]}
           IN  /\ w[c] > 0
               /\ 10 * Sum([k \in DOMAIN w |-> IF k \in likelier THEN w[k] ELSE 0], N)
                  < 9 * Sum(w, N)
<1> DEFINE likelier == {t \in DOMAIN w : w[t] > w[c]}
           f == [k \in DOMAIN w |-> IF k \in likelier THEN w[k] ELSE 0]
<1>1. w[c] > 0
  BY SMT
<1>2. \A k \in 0 .. N - 1 : f[k] = 0
  BY SMT
<1> HIDE DEF f
<1>3. Sum(f, N) = 0
  <2>1. 0 \in 0 .. N /\ N \in 0 .. N
    OBVIOUS
  <2>2. \A k \in 0 .. N - 1 : f[k] \in {0}
    BY <1>2
  <2>3. 0 \in {0} /\ \A x, y \in {0} : x + y \in {0}
    OBVIOUS
  <2>4. \A m \in 0 .. N : Sum(f, m) \in {0}
    BY <2>2, <2>3, SumIsOf
  <2>5. QED
    BY <2>1, <2>4
<1>4. Sum(w, N) \in Int
  <2>1. N \in 0 .. N
    OBVIOUS
  <2>2. QED
    BY <2>1, SumIsInt
<1>5. QED
  BY <1>1, <1>3, <1>4 DEF f

-----------------------------------------------------------------------------
(* Where a command is. *)

Progress ==
    /\ IsSeq(tokens) /\ IsSeq(output) /\ pos \in Nat
    /\ phase \in {"boot", "shell", "tokenize", "undone"} \/ Running
    /\ phase \in {"tokenize", "prefill"} => output = <<>>
    /\ phase = "tokenize" => pos = 0
    /\ phase = "prefill" => pos < Len(tokens)

\* The part of CacheHoldsHistory that is not about the rows.
Located ==
    Running => /\ phase # "prefill" => Len(History) = pos + 1
               /\ last_token = History[pos + 1]

CacheInv == Progress /\ Located

\* While the prompt is run, the history is the prompt.
LEMMA PromptIsHistory ==
    ASSUME IsSeq(tokens), output = <<>>
    PROVE  /\ Len(tokens) \in Nat /\ Len(History) = Len(tokens)
           /\ \A k \in 1 .. Len(tokens) : History[k] = tokens[k]
BY Concatenated, ShortSequences DEF History

LEMMA CacheInit == Init => CacheInv
BY ShortSequences DEF Init, CacheInv, Progress, Located, Running

LEMMA CacheStartPrefill == CacheInv /\ StartPrefill => CacheInv'
<1> SUFFICES ASSUME CacheInv, StartPrefill PROVE CacheInv'
  OBVIOUS
<1> USE DEF CacheInv, Progress, StartPrefill, tokenVars
<1>1. CASE tokens = <<>>
  BY <1>1 DEF Located, Running
<1>2. CASE tokens # <<>>
  <2>1. IsSeq(tokens) /\ output = <<>> /\ pos = 0
    BY DEF Running
  <2>2. Len(tokens) \in Nat /\ Len(tokens) > 0 /\ Head(tokens) = tokens[1]
    <3>1. PICK S : tokens \in Seq(S)
      BY DEF IsSeq
    <3>2. QED
      BY <3>1, <1>2, EmptySeq, LenProperties
  <2>3. History[1] = tokens[1]
    BY <2>1, <2>2, PromptIsHistory
  <2>4. tokens' = tokens /\ output' = output /\ pos' = pos /\ History' = History
        /\ phase' = "prefill" /\ last_token' = Head(tokens)
    BY <1>2 DEF History
  <2>5. Located'
    BY <2>1, <2>2, <2>3, <2>4 DEF Located, Running
  <2>6. QED
    BY <2>1, <2>2, <2>4, <2>5 DEF Running
<1>3. QED
  BY <1>1, <1>2

LEMMA CachePrefill == CacheInv /\ Prefill => CacheInv'
<1> SUFFICES ASSUME CacheInv, Prefill PROVE CacheInv'
  OBVIOUS
<1> USE DEF CacheInv, Progress, Prefill, tokenVars
<1>1. /\ IsSeq(tokens) /\ output = <<>> /\ Len(tokens) \in Nat
      /\ Len(History) = Len(tokens)
      /\ \A k \in 1 .. Len(tokens) : History[k] = tokens[k]
  BY PromptIsHistory
<1>2. History' = History /\ tokens' = tokens /\ output' = output
      /\ phase' = phase
  BY DEF History
<1>3. /\ pos \in Nat /\ pos < Len(tokens) - 1
      /\ last_token' = History[pos + 2] /\ pos' = pos + 1
      /\ tokens[pos + 1] = History[pos + 1]
  BY <1>1
<1>4. Located'
  BY <1>2, <1>3 DEF Located, Running
<1>5. QED
  BY <1>1, <1>2, <1>3, <1>4 DEF Running

LEMMA CacheStartGenerate == CacheInv /\ StartGenerate => CacheInv'
<1> SUFFICES ASSUME CacheInv, StartGenerate PROVE CacheInv'
  OBVIOUS
<1> USE DEF CacheInv, Progress, StartGenerate, tokenVars
<1>1. IsSeq(tokens) /\ Len(tokens) \in Nat /\ Len(History) = pos + 1
  BY PromptIsHistory
<1>2. History' = History /\ pos' = pos
      /\ last_token' = last_token
  BY DEF History
<1>3. Located'
  BY <1>1, <1>2 DEF Located, Running
<1>4. QED
  BY <1>1, <1>3 DEF Running

LEMMA CacheGenerate ==
    ASSUME CacheInv, NEW w, NEW enough, Generate(w, enough)
    PROVE  CacheInv'
<1> USE DEF CacheInv, Progress, Generate, tokenVars
<1>1. History' = History /\ pos' = pos /\ last_token' = last_token
      /\ phase' = "sample" /\ tokens' = tokens /\ output' = output
  BY DEF History
<1>2. Len(History) = pos + 1 /\ last_token = History[pos + 1]
  BY DEF Located, Running
<1>3. Located'
  BY <1>1, <1>2 DEF Located, Running
<1>4. QED
  BY <1>1, <1>3 DEF Running

LEMMA CachePrintToken == CacheInv /\ PrintToken => CacheInv'
<1> SUFFICES ASSUME CacheInv, PrintToken PROVE CacheInv'
  OBVIOUS
<1> USE DEF CacheInv, Progress, PrintToken, Emit, tokenVars
<1>1. /\ IsSeq(tokens) /\ IsSeq(output) /\ pos \in Nat
      /\ tokens' = tokens /\ output' = Append(output, chosen)
      /\ pos' = pos + 1 /\ last_token' = chosen
      /\ phase' \in {"shell", "generate"}
  OBVIOUS
<1>2. IsSeq(output')
  BY <1>1, Appended
<1>3. Len(History) = pos + 1
  BY DEF Located, Running
<1>4. /\ Len(tokens) \in Nat /\ Len(output) \in Nat
      /\ Len(tokens) + Len(output) = pos + 1 /\ Len(History') = pos + 2
      /\ \A k \in 1 .. pos + 1 : History'[k] = History[k]
      /\ History'[pos + 2] = chosen
  BY <1>1, <1>2, <1>3, Appended, Concatenated DEF History
<1>5. Located'
  BY <1>1, <1>3, <1>4 DEF Located, Running
<1>6. QED
  BY <1>1, <1>2, <1>5 DEF Running

LEMMA CacheNext == CacheInv /\ [Next]_vars => CacheInv'
<1> SUFFICES ASSUME CacheInv, [Next]_vars PROVE CacheInv'
  OBVIOUS
<1> USE DEF CacheInv, Progress
<1>1. CASE Boot
  BY <1>1 DEF Boot, NotRunning, runVars, BuildTable, tokenVars, StartShell,
              Located, Running
<1>2. ASSUME NEW prompt \in Prompts, StartLlm(prompt) PROVE CacheInv'
  BY <1>2, ShortSequences DEF StartLlm, StartTokens, Located, Running
<1>3. CASE Tokenize
  BY <1>3, Appended DEF Tokenize, TokenizeStep, runVars, Located,
                        Running
<1>4. CASE StartPrefill
  BY <1>4, CacheStartPrefill
<1>5. CASE Prefill
  BY <1>5, CachePrefill
<1>6. CASE StartGenerate
  BY <1>6, CacheStartGenerate
<1>7. ASSUME NEW w, NEW enough, Generate(w, enough) PROVE CacheInv'
  BY <1>7, CacheGenerate
<1>8. CASE Sample \/ UNCHANGED vars
  <2>1. UNCHANGED <<tokenVars, runVars>>
    BY <1>8 DEF Sample, vars
  <2>2. QED
    BY <2>1 DEF tokenVars, runVars, Located, Running, History
<1>9. CASE Stop
  BY <1>9 DEF Stop, tokenVars, Located, Running
<1>10. CASE PrintToken
  BY <1>10, CachePrintToken
<1>11. QED
  BY <1>1, <1>2, <1>3, <1>4, <1>5, <1>6, <1>7, <1>8, <1>9, <1>10
     DEF Next, Llm

-----------------------------------------------------------------------------
(* The sort. *)

\* The file's numbers, as far as the sort depends on them.
VocabSize == /\ pairs \in Seq(Pairs)
             /\ DOMAIN params = DOMAIN Defaults /\ params.vocab_size \in Int

Forgotten == probs = <<>> /\ indices = <<>> /\ calls = <<>> /\ part = {}

SortInv == /\ VocabSize /\ Arrays /\ NoTokenLost /\ Ranges
           /\ \A p \in part : Partition(p)
           /\ phase = "sample" \/ Forgotten

LEMMA SortTurn ==
    ASSUME SortInv, NEW p, Turn(p), UNCHANGED <<modelVars, phase>>
    PROVE  SortInv'
<1> DEFINE a == Least(StopsUp(p))
           b == Greatest(StopsDown(p))
<1>1. /\ p \in part /\ p.i <= p.j /\ Partition(p) /\ Arrays /\ NoTokenLost
      /\ Ranges /\ VocabSize /\ part # {}
  BY DEF SortInv, Turn
<1>2. /\ a \in p.i .. p.right /\ probs[a] <= p.pivot
      /\ b \in p.left .. p.j /\ probs[b] >= p.pivot
      /\ a \in Cells /\ b \in Cells
  BY <1>1, ScansMeet
<1>3. weight' = weight /\ calls' = calls /\ phase' = "sample" /\ phase = "sample"
      /\ VocabSize'
  BY <1>1 DEF SortInv, Forgotten, Turn, modelVars, VocabSize
<1>4. p.left \in Int /\ p.right \in Int /\ p.i \in Int /\ p.j \in Int
      /\ p.pivot \in Int /\ p.left <= p.i /\ p.j <= p.right
      /\ p.left .. p.right \subseteq Cells /\ p.left < p.right
  BY <1>1 DEF Partition, InArrays
<1>5. CASE a <= b
  <2> PICK q : q = [p EXCEPT !.i = a + 1, !.j = b - 1]
    OBVIOUS
  <2>1. /\ probs' = Swapped(probs, a, b) /\ indices' = Swapped(indices, a, b)
        /\ part' = {q}
    BY <1>5 DEF Turn
  <2>2. /\ DOMAIN probs' = Cells /\ DOMAIN indices' = Cells
        /\ probs'[a] = probs[b] /\ probs'[b] = probs[a]
        /\ indices'[a] = indices[b] /\ indices'[b] = indices[a]
        /\ \A k \in Cells \ {a, b} : probs'[k] = probs[k] /\ indices'[k] = indices[k]
    BY <2>1, <1>1, <1>2 DEF Swapped, Cells, Arrays
  <2>3. Arrays'
    BY <2>2, <1>1, <1>2 DEF Arrays, Cells
  <2>4. NoTokenLost'
    <3>1. SUFFICES ASSUME NEW t \in Cells
                   PROVE  \E k \in Cells : /\ indices'[k] = t
                                           /\ probs'[k] = Shares(weight)[t]
      BY <2>2, <1>3 DEF NoTokenLost, Cells
    <3>2. PICK k \in Cells : indices[k] = t /\ probs[k] = Shares(weight)[t]
      BY <1>1 DEF NoTokenLost
    <3>3. CASE k = a
      BY <3>2, <3>3, <2>2, <1>2
    <3>4. CASE k = b
      BY <3>2, <3>4, <2>2, <1>2
    <3>5. CASE k \notin {a, b}
      BY <3>2, <3>5, <2>2
    <3>6. QED
      BY <3>3, <3>4, <3>5
  <2>5. Cells' = Cells
    BY <2>2 DEF Cells
  <2>6. Ranges'
    BY <2>5, <1>1, <1>3 DEF Ranges, InArrays
  <2>7. /\ q.left = p.left /\ q.right = p.right /\ q.pivot = p.pivot
        /\ q.i = a + 1 /\ q.j = b - 1
    BY <1>1 DEF Partition, IsPart
  <2>8. Partition(q)'
    <3>1. a \in Int /\ b \in Int
      BY <1>2, <1>4
    <3>2. probs'[b] <= p.pivot /\ probs'[a] >= p.pivot
      BY <2>2, <1>2
    <3>3. q.i <= q.j => /\ b \in q.i .. q.right /\ a \in q.left .. q.j
      BY <2>7, <3>1, <1>2, <1>4
    <3>4. InArrays(q)' /\ IsPart(q)
      <4>1. IsPart(q)
        <5>1. IsPart(p)
          BY <1>1 DEF Partition
        <5>2. \A u, v \in Int : IsPart([p EXCEPT !.i = u, !.j = v])
          BY <5>1 DEF IsPart
        <5>3. a + 1 \in Int /\ b - 1 \in Int
          BY <3>1
        <5>4. QED
          BY <5>2, <5>3
      <4>2. q.left \in Int /\ q.right \in Int
        BY <4>1 DEF IsPart
      <4>3. q.left .. q.right \subseteq Cells'
        BY <2>5, <2>7, <1>4
      <4>4. QED
        BY <4>1, <4>2, <4>3 DEF InArrays
    <3>5. q.i <= q.j => /\ \E k \in q.i .. q.right : probs'[k] <= q.pivot
                        /\ \E k \in q.left .. q.j : probs'[k] >= q.pivot
      BY <2>7, <3>2, <3>3
    <3>6. q.left < q.right /\ q.left <= q.i /\ q.j <= q.right
      BY <2>7, <3>1, <1>2, <1>4
    <3>7. QED
      BY <2>7, <3>1, <3>4, <3>5, <3>6, <1>4 DEF Partition, IsPart
  <2>9. QED
    BY <2>1, <2>3, <2>4, <2>6, <2>8, <1>3 DEF SortInv
<1>6. CASE ~ (a <= b)
  <2> PICK q : q = [p EXCEPT !.i = a, !.j = b]
    OBVIOUS
  <2>1. probs' = probs /\ indices' = indices /\ part' = {q}
    BY <1>6 DEF Turn
  <2>2. /\ q.left = p.left /\ q.right = p.right /\ q.pivot = p.pivot
        /\ q.i = a /\ q.j = b
    BY <1>1 DEF Partition, IsPart
  <2>3. Cells' = Cells /\ Arrays' /\ NoTokenLost' /\ Ranges'
    BY <2>1, <1>1, <1>3 DEF Cells, Arrays, NoTokenLost, Ranges, InArrays
  <2>4. Partition(q)'
    <3>1. a \in Int /\ b \in Int
      BY <1>2, <1>4
    <3>2. InArrays(q)' /\ IsPart(q)
      BY <2>2, <2>3, <3>1, <1>1, <1>4 DEF InArrays, IsPart, Partition
    <3>3. q.left < q.right /\ q.left <= q.i /\ q.j <= q.right /\ q.i > q.j
      BY <2>2, <3>1, <1>2, <1>4, <1>6
    <3>4. QED
      BY <2>2, <3>1, <3>2, <3>3, <1>4 DEF Partition, IsPart
  <2>5. QED
    BY <2>1, <2>3, <2>4, <1>3 DEF SortInv
<1>7. QED
  BY <1>5, <1>6

LEMMA SortEnterCall ==
    ASSUME SortInv, EnterCall, UNCHANGED <<modelVars, phase>>
    PROVE  SortInv'
<1> DEFINE c == Head(calls)
<1>1. /\ Arrays /\ NoTokenLost /\ Ranges /\ VocabSize /\ calls # <<>>
      /\ phase = "sample"
  BY DEF SortInv, EnterCall, Forgotten
<1>2. probs' = probs /\ indices' = indices /\ weight' = weight
      /\ calls' = Tail(calls) /\ phase' = phase
  BY DEF EnterCall
<1>3. PICK S : calls \in Seq(S)
  BY <1>1 DEF Ranges, IsSeq
<1>4. /\ Tail(calls) \in Seq(S) /\ Len(Tail(calls)) = Len(calls) - 1
      /\ \A n \in 1 .. Len(Tail(calls)) : Tail(calls)[n] = calls[n + 1]
      /\ Len(calls) \in Nat /\ Len(calls) > 0 /\ c = calls[1]
  BY <1>1, <1>3, HeadTailProperties, EmptySeq, LenProperties
<1>5. InArrays(c)
  BY <1>1, <1>4 DEF Ranges
<1>6. VocabSize' /\ Arrays' /\ NoTokenLost' /\ Cells' = Cells
  BY <1>1, <1>2 DEF VocabSize, modelVars, Arrays, NoTokenLost, Cells
<1>7. Ranges'
  BY <1>1, <1>2, <1>4, <1>6 DEF Ranges, IsSeq, InArrays
<1>8. ASSUME NEW p \in part' PROVE Partition(p)'
  <2> DEFINE m == (c.left + c.right) \div 2
  <2>1. /\ ~ (c.left >= c.right)
        /\ p = [left |-> c.left, right |-> c.right, i |-> c.left,
                j |-> c.right, pivot |-> probs[m]]
    BY DEF EnterCall
  <2>2. /\ c.left \in Int /\ c.right \in Int /\ c.left < c.right
        /\ c.left .. c.right \subseteq Cells
    BY <2>1, <1>5 DEF InArrays
  <2>3. m \in c.left .. c.right
    BY <2>2
  <2>4. probs[m] \in Int
    BY <2>2, <2>3, <1>1 DEF Arrays
  <2>5. /\ p.left = c.left /\ p.right = c.right /\ p.i = c.left
        /\ p.j = c.right /\ p.pivot = probs[m] /\ IsPart(p)
    BY <2>1, <2>2, <2>4 DEF IsPart
  <2>6. InArrays(p)'
    BY <2>2, <2>5, <1>6 DEF InArrays
  <2>7. /\ \E k \in p.i .. p.right : probs'[k] <= p.pivot
        /\ \E k \in p.left .. p.j : probs'[k] >= p.pivot
    BY <2>3, <2>4, <2>5, <1>2
  <2>8. QED
    BY <2>2, <2>4, <2>5, <2>6, <2>7 DEF Partition
<1>9. QED
  BY <1>1, <1>2, <1>6, <1>7, <1>8 DEF SortInv

LEMMA SortDivide ==
    ASSUME SortInv, NEW p, Divide(p), UNCHANGED <<modelVars, phase>>
    PROVE  SortInv'
<1> DEFINE l == Call(p.left, p.j)
           r == Call(p.i, p.right)
<1>1. /\ Arrays /\ NoTokenLost /\ Ranges /\ VocabSize /\ phase = "sample"
      /\ Partition(p) /\ p.i > p.j
  BY DEF SortInv, Divide, Forgotten
<1>2. probs' = probs /\ indices' = indices /\ weight' = weight /\ part' = {}
      /\ calls' = <<l, r>> \o calls /\ phase' = phase
  BY DEF Divide
<1>3. VocabSize' /\ Arrays' /\ NoTokenLost' /\ Cells' = Cells
  BY <1>1, <1>2 DEF VocabSize, modelVars, Arrays, NoTokenLost, Cells
<1>4. InArrays(l) /\ InArrays(r)
  BY <1>1 DEF Partition, InArrays, Call
<1>5. PICK S : calls \in Seq(S)
  BY <1>1 DEF Ranges, IsSeq
<1>6. calls \in Seq(S \cup {l, r}) /\ <<l, r>> \in Seq(S \cup {l, r})
      /\ Len(<<l, r>>) = 2 /\ <<l, r>>[1] = l /\ <<l, r>>[2] = r
  BY <1>5, SeqMonotonic
<1>7. /\ calls' \in Seq(S \cup {l, r}) /\ Len(calls') = 2 + Len(calls)
      /\ \A n \in 1 .. 2 + Len(calls) :
            calls'[n] = IF n <= 2 THEN <<l, r>>[n] ELSE calls[n - 2]
      /\ Len(calls) \in Nat
  BY <1>2, <1>6, ConcatProperties, LenProperties
<1>8. \A n \in 1 .. Len(calls') : InArrays(calls'[n])
  <2>1. SUFFICES ASSUME NEW n \in 1 .. Len(calls') PROVE InArrays(calls'[n])
    OBVIOUS
  <2>2. CASE n = 1
    BY <2>2, <1>4, <1>6, <1>7
  <2>3. CASE n = 2
    BY <2>3, <1>4, <1>6, <1>7
  <2>4. CASE n > 2
    <3>1. n - 2 \in 1 .. Len(calls) /\ calls'[n] = calls[n - 2]
      BY <2>4, <1>7
    <3>2. QED
      BY <3>1, <1>1 DEF Ranges
  <2>5. QED
    BY <2>2, <2>3, <2>4, <1>7
<1>9. Ranges'
  BY <1>3, <1>7, <1>8 DEF Ranges, IsSeq, InArrays
<1>10. QED
  BY <1>1, <1>2, <1>3, <1>9 DEF SortInv

LEMMA SortGenerate ==
    ASSUME SortInv, NEW w \in [Ids -> Weights], NEW enough \in BOOLEAN,
           Generate(w, enough)
    PROVE  SortInv'
<1>1. VocabSize /\ Forgotten
  BY DEF SortInv, Generate
<1>2. VocabSize' /\ part' = {} /\ phase' = "sample" /\ weight' = w
  BY <1>1 DEF VocabSize, Generate, modelVars, Forgotten
<1>3. CASE enough
  <2> PICK n : n = params.vocab_size
    OBVIOUS
  <2> DEFINE c == Call(0, n - 1)
  <2>1. probs' = Shares(w) /\ indices' = [t \in Ids |-> t] /\ calls' = <<c>>
    BY <1>3 DEF Generate
  <2>2. Ids = 0 .. n - 1 /\ n \in Int /\ Cells' = Ids /\ DOMAIN indices' = Ids
    BY <2>1, <1>1, SharesAre DEF Ids, VocabSize, Cells
  <2>3. \A k \in Ids : Shares(w)[k] \in Int
    <3>1. Weights \subseteq Int
      BY InferenceAssumption
    <3>2. QED
      BY <3>1, SharesAre
  <2>4. Arrays' /\ NoTokenLost'
    BY <2>1, <2>2, <2>3, <1>2 DEF Arrays, NoTokenLost, Cells
  <2>5. InArrays(c)'
    BY <2>2 DEF InArrays, Call
  <2>6. Ranges'
    BY <2>1, <2>5, ShortSequences DEF Ranges
  <2>7. QED
    BY <1>2, <2>4, <2>6 DEF SortInv
<1>4. CASE ~ enough
  <2>1. probs' = <<>> /\ indices' = <<>> /\ calls' = <<>>
    BY <1>1, <1>4 DEF Generate, Forgotten
  <2>2. QED
    BY <1>2, <2>1, ShortSequences
       DEF SortInv, Arrays, NoTokenLost, Ranges, Cells
<1>5. QED
  BY <1>3, <1>4

\* With nothing to sort there is nothing to lose.
LEMMA SortForgotten == VocabSize /\ Forgotten => SortInv
BY ShortSequences DEF Forgotten, SortInv, Arrays, NoTokenLost, Ranges, Cells

LEMMA SortBoot == SortInv /\ Boot => SortInv'
<1> SUFFICES ASSUME SortInv, Boot PROVE SortInv'
  OBVIOUS
<1>1. phase = "boot" /\ Forgotten /\ VocabSize
  BY DEF Boot, StartShell, SortInv
<1>2. Forgotten'
  BY <1>1 DEF Boot, NotRunning, StartShell, sampleVars, Forgotten
<1>3. VocabSize'
  <2>1. CASE ReadPair
    <3>1. PICK key \in {"tokens"} \cup DOMAIN Defaults \cup {"scores", "other"} :
             /\ Head(pairs).key = key
             /\ key = "tokens" => Head(pairs).value \in Seq(Seq(0 .. 255))
             /\ key # "tokens" => Head(pairs).value \in Int
      <4>1. Head(pairs) \in Pairs
        BY <2>1, <1>1, HeadTailProperties DEF ReadPair, VocabSize
      <4>2. CASE Head(pairs) \in [key : {"tokens"}, value : Seq(Seq(0 .. 255))]
        BY <4>2
      <4>3. CASE Head(pairs) \in
                     [key : DOMAIN Defaults \cup {"scores", "other"}, value : Int]
        <5>1. "tokens" \notin DOMAIN Defaults \cup {"scores", "other"}
          BY DEF Defaults
        <5>2. QED
          BY <4>3, <5>1
      <4>4. QED
        BY <4>1, <4>2, <4>3 DEF Pairs
    <3>2. pairs' \in Seq(Pairs)
      BY <2>1, <1>1, HeadTailProperties DEF ReadPair, VocabSize
    <3>3. "vocab_size" \in DOMAIN Defaults
      BY DEF Defaults
    <3>4. CASE key = "tokens"
      <4>1. params' = [params EXCEPT !.vocab_size = Len(Head(pairs).value)]
        BY <2>1, <3>1, <3>4 DEF ReadPair
      <4>2. Len(Head(pairs).value) \in Int
        BY <3>1, <3>4, LenProperties
      <4>3. QED
        BY <4>1, <4>2, <3>2, <3>3, <1>1 DEF VocabSize
    <3>5. CASE key # "tokens"
      <4>1. params' = IF key \in DOMAIN params
                      THEN [params EXCEPT ![key] = Head(pairs).value]
                      ELSE params
        BY <2>1, <3>1, <3>5 DEF ReadPair
      <4>2. QED
        BY <4>1, <3>1, <3>2, <3>3, <3>5, <1>1 DEF VocabSize
    <3>6. QED
      BY <3>4, <3>5
  <2>2. CASE AllocateBuffers
    <3>1. params' = [params EXCEPT !.head_count_kv = params'.head_count_kv,
                                   !.context_length = params'.context_length]
          /\ pairs' = pairs
      BY <2>2, <1>1 DEF AllocateBuffers, VocabSize, Defaults
    <3>2. QED
      BY <3>1, <1>1 DEF VocabSize, Defaults
  <2>3. CASE BuildTable
    BY <2>3, <1>1 DEF BuildTable, VocabSize, Defaults
  <2>4. CASE StartShell
    BY <2>4, <1>1 DEF StartShell, modelVars, VocabSize
  <2>5. QED
    BY <2>1, <2>2, <2>3, <2>4 DEF Boot
<1>4. Arrays' /\ NoTokenLost' /\ Ranges'
  BY <1>2, ShortSequences DEF Forgotten, Arrays, NoTokenLost, Ranges, Cells
<1>5. QED
  BY <1>2, <1>3, <1>4 DEF SortInv, Forgotten

LEMMA SortInit == Init => SortInv
<1> SUFFICES ASSUME Init PROVE SortInv
  OBVIOUS
<1>1. pairs \in Seq(Pairs)
  <2>1. CASE file = NoFile
    BY <2>1, EmptySeq DEF Init, ModelInit
  <2>2. CASE file # NoFile
    BY <2>2, ModelAssumption DEF Init, ModelInit
  <2>3. QED
    BY <2>1, <2>2
<1>2. VocabSize
  BY <1>1 DEF Init, ModelInit, VocabSize, Defaults
<1>3. Forgotten
  BY DEF Init, Forgotten
<1>4. QED
  BY <1>2, <1>3, SortForgotten

LEMMA SortNext == SortInv /\ [Next]_vars => SortInv'
<1> SUFFICES ASSUME SortInv, [Next]_vars PROVE SortInv'
  OBVIOUS
<1>1. CASE Boot
  BY <1>1, SortBoot
<1>2. CASE Sample
  <2>1. UNCHANGED <<modelVars, phase>>
    BY <1>2 DEF Sample, runVars
  <2>2. CASE EnterCall
    BY <2>1, <2>2, SortEnterCall
  <2>3. ASSUME NEW p, Turn(p) PROVE SortInv'
    BY <2>1, <2>3, SortTurn
  <2>4. ASSUME NEW p, Divide(p) PROVE SortInv'
    BY <2>1, <2>4, SortDivide
  <2>5. ASSUME NEW n, NEW r, Draw(n, r) PROVE SortInv'
    BY <2>1, <2>5 DEF Draw, modelVars, SortInv, VocabSize, Arrays, NoTokenLost,
       Ranges, InArrays, Partition, Forgotten, Cells
  <2>6. QED
    BY <1>2, <2>2, <2>3, <2>4, <2>5 DEF Sample
<1>3. ASSUME NEW w \in [Ids -> Weights], NEW enough \in BOOLEAN,
             Generate(w, enough)
      PROVE  SortInv'
  BY <1>3, SortGenerate
<1>4. CASE Stop \/ PrintToken
  <2>1. Forgotten' /\ VocabSize'
    BY <1>4 DEF Stop, PrintToken, Emit, ForgetSample, Forgotten, modelVars,
                VocabSize, SortInv
  <2>2. QED
    BY <2>1, ShortSequences DEF Forgotten, SortInv, Arrays, NoTokenLost, Ranges,
           Cells
<1>5. ASSUME \/ Tokenize \/ StartPrefill \/ Prefill \/ StartGenerate
             \/ \E prompt \in Prompts : StartLlm(prompt)
             \/ UNCHANGED vars
      PROVE  SortInv'
  <2>1. UNCHANGED <<modelVars, sampleVars>>
        /\ (phase = "sample" => phase' = "sample")
    BY <1>5 DEF Tokenize, StartPrefill, Prefill, StartGenerate, StartLlm, vars,
                runVars
  <2>2. QED
    BY <2>1 DEF modelVars, sampleVars, SortInv, VocabSize, Arrays, NoTokenLost,
       Ranges, InArrays, Partition, Forgotten, Cells
<1>6. QED
  BY <1>1, <1>2, <1>3, <1>4, <1>5 DEF Next, Llm

\* quicksort_logits: the scans stop within the range they sort, though no
\* bound stops them, and every token stays in the arrays beside its own
\* probability; for any number of tokens and any weights.
THEOREM SortStaysInItsArrays == Spec => [](ScansStop /\ NoTokenLost)
<1>1. ASSUME SortInv PROVE ScansStop /\ NoTokenLost
  <2>1. ScansStop
    BY <1>1, ScansMeet DEF ScansStop, SortInv
  <2>2. QED
    BY <1>1, <2>1 DEF SortInv
<1>2. QED
  BY <1>1, SortInit, SortNext, PTL DEF Spec

-----------------------------------------------------------------------------
(* The draw. *)

DrawInv == /\ SortInv /\ NucleusSampled
           /\ phase = "sample" \/ chosen = NoToken
           /\ phase = "sample" /\ chosen = NoToken => SortOrder /\ Weighed

\* What Generate hands to the sort: one range over all the tokens.
LEMMA DrawGenerate ==
    ASSUME DrawInv, NEW w \in [Ids -> Weights], NEW enough \in BOOLEAN,
           Generate(w, enough)
    PROVE  DrawInv'
<1>1. SortInv' /\ VocabSize /\ Forgotten
  BY SortGenerate DEF DrawInv, SortInv, Generate
<1>2. weight' = w /\ phase' = "sample" /\ part' = {}
  BY <1>1 DEF Generate, Forgotten
<1>3. PICK some \in Ids : w[some] > 0
  BY DEF Generate
<1> PICK N : N = params.vocab_size
  OBVIOUS
<1>4. N \in Nat /\ N - 1 \in Nat /\ Ids = 0 .. N - 1 /\ DOMAIN w = 0 .. N - 1
  <2>1. N \in Int /\ Ids = 0 .. N - 1
    BY <1>1 DEF VocabSize, Ids
  <2>2. QED
    BY <2>1, <1>3
<1>5. \A k \in 0 .. N - 1 : w[k] \in Int
  <2>1. Weights \subseteq Int
    BY InferenceAssumption
  <2>2. QED
    BY <2>1, <1>4
<1>6. Cardinality(0 .. N - 1) = N
  <2>1. 0 \in Int /\ N - 1 \in Int /\ ~ (0 > N - 1) /\ N - 1 - 0 + 1 = N
    BY <1>4
  <2>2. Cardinality(0 .. N - 1) = IF 0 > N - 1 THEN 0 ELSE N - 1 - 0 + 1
    BY <2>1, FS_Interval
  <2>3. QED
    BY <2>1, <2>2
<1>7. CASE enough
  <2>1. /\ probs' = Shares(w) /\ indices' = [t \in Ids |-> t] /\ chosen' = NoToken
        /\ calls' = <<Call(0, N - 1)>>
    BY <1>7 DEF Generate
  <2>2. Cells' = 0 .. N - 1 /\ Last' = N - 1
    <3>1. DOMAIN Shares(w) = 0 .. N - 1
      BY <1>4, SharesAre
    <3>2. QED
      BY <2>1, <3>1, <1>4, <1>6 DEF Cells, Last
  <2>3. RangesApart'
    <3>1. Len(calls') = 1
      BY <2>1, ShortSequences
    <3>2. QED
      BY <3>1, <1>2 DEF RangesApart
  <2>4. Ordered'
    <3>1. SUFFICES ASSUME NEW x \in 0 .. N - 1, NEW y \in 0 .. N - 1
                   PROVE  InOneCall(x, y)'
      BY <2>2 DEF Ordered
    <3>2. InRange(x, calls'[1]) /\ InRange(y, calls'[1])
      BY <2>1 DEF Call, InRange
    <3>3. 1 \in 1 .. Len(calls')
      BY <2>1, ShortSequences
    <3>4. QED
      BY <3>2, <3>3 DEF InOneCall
  <2>5. Halves'
    BY <1>2 DEF Halves
  <2>6. Weighed'
    <3>1. \A k \in 0 .. N - 1 : indices'[k] = k
      BY <2>1, <1>4
    <3>2. Total' \in Int
      <4>1. \A m \in 0 .. N : Sum(w, m) \in Int
        BY <1>4, <1>5, SumIsInt
      <4>2. N \in 0 .. N
        BY <1>4
      <4>3. QED
        BY <4>1, <4>2, <1>2, <1>4, <1>6 DEF Total, SumOf
    <3>3. ASSUME NEW S, Total' > 0
          PROVE  [k \in 0 .. N - 1 |-> IF indices'[k] \in S THEN probs'[k] ELSE 0]
                 = [k \in DOMAIN w |-> IF k \in S THEN w[k] ELSE 0]
      <4>1. probs' = w
        BY <2>1, <3>3, <3>2, <1>2, SharesAre DEF Total
      <4>2. QED
        BY <3>1, <4>1, <1>4
    <3>4. \A S : WeightOf(S)' = Sum([k \in DOMAIN w |-> IF k \in S THEN w[k] ELSE 0], N)
      BY <1>2, <1>4, <1>6 DEF WeightOf
    <3>5. N - 1 + 1 = N
      BY <1>4
    <3>6. Total' > 0 => \A S \in SUBSET Cells' :
             Sum([k \in Cells' |-> IF indices'[k] \in S THEN probs'[k] ELSE 0],
                 Last' + 1) = WeightOf(S)'
      BY <3>3, <3>4, <3>5, <2>2
    <3>7. DOMAIN indices' = Cells' /\ DOMAIN weight' = Cells'
      BY <2>1, <2>2, <1>2, <1>4
    <3>8. \A k \in Cells' : /\ weight'[k] \in Int /\ indices'[k] \in Cells'
                           /\ probs'[k] = Shares(weight')[indices'[k]]
      BY <3>1, <2>1, <2>2, <1>2, <1>5
    <3>9. Last' \in Nat /\ Cells' = 0 .. Last' /\ \E t \in Cells' : weight'[t] > 0
      BY <2>2, <1>2, <1>3, <1>4
    <3>10. QED
      BY <3>6, <3>7, <3>8, <3>9 DEF Weighed
  <2>7. NucleusSampled'
    BY <2>1 DEF NucleusSampled
  <2>8. QED
    BY <1>1, <1>2, <2>1, <2>3, <2>4, <2>5, <2>6, <2>7 DEF DrawInv, SortOrder
<1>8. CASE ~ enough
  <2> PICK c : c = Greedy(w)
    OBVIOUS
  <2>1. chosen' = c
    BY <1>8 DEF Generate
  <2>2. c \in 0 .. N - 1 /\ \A o \in 0 .. N - 1 : w[o] <= w[c]
    BY <1>3, <1>4, <1>5, GreedyIsLikeliest
  <2>3. chosen' # NoToken
    BY <2>1, <2>2, SamplingAssumption
  <2>4. Sum(w, N) > 0 =>
        /\ w[c] > 0
        /\ 10 * Sum([k \in DOMAIN w |-> IF k \in {t \in DOMAIN w : w[t] > w[c]}
                                       THEN w[k] ELSE 0], N)
           < 9 * Sum(w, N)
    BY <1>3, <1>4, <1>5, <2>2, NothingLikelier
  <2>5. NucleusSampled'
    BY <1>2, <1>4, <1>6, <2>1, <2>4 DEF NucleusSampled, WeightOf, Total, SumOf
  <2>6. QED
    BY <1>1, <1>2, <2>3, <2>5 DEF DrawInv
<1>9. QED
  BY <1>7, <1>8

LEMMA DrawInit == Init => DrawInv
BY SortInit DEF Init, DrawInv, NucleusSampled

LEMMA DrawNext == DrawInv /\ [Next]_vars => DrawInv'
<1> SUFFICES ASSUME DrawInv, [Next]_vars PROVE DrawInv'
  OBVIOUS
<1>1. SortInv'
  BY SortNext DEF DrawInv
<1>2. CASE Sample
  <2>1. /\ SortTypes /\ NoTokenLost /\ SortOrder /\ Weighed
        /\ phase = "sample" /\ phase' = "sample" /\ chosen = NoToken
    BY <1>2 DEF Sample, DrawInv, SortInv, SortTypes, runVars
  <2>2. CASE EnterCall
    <3>1. chosen' = chosen /\ UNCHANGED <<weight, probs, indices>>
      BY <2>2 DEF EnterCall
    <3>2. QED
      BY <1>1, <2>1, <2>2, <3>1, OrderEnterCall, WeighedSame
         DEF DrawInv, NucleusSampled
  <2>3. ASSUME NEW p \in part, Turn(p) PROVE DrawInv'
    <3>1. chosen' = chosen
      BY <2>3 DEF Turn
    <3>2. QED
      BY <1>1, <2>1, <2>3, <3>1, OrderTurn, WeighedTurn DEF DrawInv, NucleusSampled
  <2>4. ASSUME NEW p \in part, Divide(p) PROVE DrawInv'
    <3>1. chosen' = chosen /\ UNCHANGED <<weight, probs, indices>>
      BY <2>4 DEF Divide
    <3>2. QED
      BY <1>1, <2>1, <2>4, <3>1, OrderDivide, WeighedSame DEF DrawInv, NucleusSampled
  <2>5. ASSUME NEW n \in 1 .. params.vocab_size,
               NEW r \in 0 .. 2 * Sum(probs, n), Draw(n, r)
        PROVE  DrawInv'
    <3>1. weight' = weight /\ chosen' \in Cells
      <4>1. r \in Int
        BY <2>5
      <4>2. /\ weight' = weight
            /\ \E h \in Cells : chosen' = indices[h]
        BY <2>1, <2>5, <4>1, DrawIsACell
      <4>3. QED
        BY <2>1, <4>2, WeighedNumbers
    <3>2. chosen' # NoToken
      BY <2>1, <3>1, WeighedNumbers, SamplingAssumption
    <3>3. NucleusSampled'
      <4>1. CASE Total > 0
        BY <2>1, <2>5, <4>1, DrawIsNucleus
      <4>2. CASE ~ (Total > 0)
        BY <3>1, <4>2 DEF NucleusSampled, Total
      <4>3. QED
        BY <4>1, <4>2
    <3>4. QED
      BY <1>1, <2>1, <3>2, <3>3 DEF DrawInv
  <2>6. QED
    BY <1>2, <2>2, <2>3, <2>4, <2>5 DEF Sample
<1>3. ASSUME NEW w \in [Ids -> Weights], NEW enough \in BOOLEAN,
             Generate(w, enough)
      PROVE  DrawInv'
  BY <1>3, DrawGenerate
<1>4. CASE Stop \/ PrintToken
  <2>1. chosen' = NoToken /\ phase' # "sample"
    BY <1>4 DEF Stop, PrintToken, Emit, ForgetSample
  <2>2. QED
    BY <1>1, <2>1 DEF DrawInv, NucleusSampled
<1>5. CASE Boot \/ StartPrefill \/ Prefill \/ StartGenerate
  <2>1. chosen' = chosen /\ phase # "sample" /\ phase' # "sample"
    BY <1>5 DEF Boot, NotRunning, StartShell, StartPrefill, Prefill,
                StartGenerate, sampleVars, runVars
  <2>2. QED
    BY <1>1, <2>1 DEF DrawInv, NucleusSampled
<1>6. CASE Tokenize \/ \E prompt \in Prompts : StartLlm(prompt)
  <2>1. chosen' = chosen /\ phase # "sample" /\ phase' # "sample"
    BY <1>6 DEF Tokenize, StartLlm, sampleVars, runVars
  <2>2. QED
    BY <1>1, <2>1 DEF DrawInv, NucleusSampled
<1>7. CASE UNCHANGED vars
  BY <1>1, <1>7 DEF vars, sampleVars, runVars, DrawInv, NucleusSampled, Total,
     WeightOf, SortOrder, RangesApart, Ordered, Halves, InOneCall, InOnePart,
     Weighed, Cells, Last
<1>8. QED
  BY <1>2, <1>3, <1>4, <1>5, <1>6, <1>7 DEF Next, Llm

\* gguf_generate: where exp's answers add up to more than nothing, a drawn token
\* is one of the likeliest that together hold nine tenths of the weight, however
\* the random number falls; some of the answers may be negative, and the array
\* must be sorted when the draw comes.
THEOREM DrawnTokenIsLikely == Spec => []NucleusSampled
<1>1. DrawInv => NucleusSampled
  BY DEF DrawInv
<1>2. QED
  BY <1>1, DrawInit, DrawNext, PTL DEF Spec
-----------------------------------------------------------------------------
(* The buffers. *)

Counts == {"block_count", "context_length", "embedding_length",
           "feed_forward_length", "head_count", "head_count_kv", "vocab_size"}

\* Counts are unsigned, and one is there that gguf_init can divide by.
Usable(ps) ==
    /\ ps \in Seq(Pairs)
    /\ \A n \in 1 .. Len(ps) : /\ ps[n].key \in Counts => ps[n].value \in Nat
                               /\ ps[n].key = "head_count" => ps[n].value # 0

NamesHeads(ps) == \E n \in 1 .. Len(ps) : ps[n].key = "head_count"

\* The files that can be loaded.
FilesUsable == \A f \in Files : /\ Usable(f.pairs) /\ NamesHeads(f.pairs)
                                /\ f.q_norm \in Nat /\ f.k_norm \in Nat

Counted == /\ DOMAIN params = DOMAIN Defaults
           /\ \A k \in Counts : params[k] \in Nat

\* While pairs are read, the head count has come or is still to come.
Reading == /\ file \in Files /\ Usable(pairs)
           /\ params.head_count # 0 \/ NamesHeads(pairs)

Wants(b) == Wanted(b, head_dim_q, head_dim, params.context_length)

\* What AllocateBuffers leaves: every buffer is what was asked for, or NULL.
Sized == /\ params.head_count # 0 /\ params.head_count_kv # 0
         /\ head_dim \in Nat /\ head_dim_q \in Nat
         /\ \A b \in Buffers : size[b] \in {Null, Wants(b)}
         /\ \/ Wants("k_cache") + Wants("v_cache") <= MaxCache
            \/ params.context_length = MinContext

SizeInv ==
    /\ Counted
    /\ stage = "pairs" => Reading
    /\ \/ \A b \in Buffers : size[b] = Null
       \/ stage # "pairs" /\ Sized
    /\ phase \in {"tokenize", "prefill", "generate", "sample"}
          => \A b \in Buffers : size[b] # Null
    /\ phase \in {"generate", "sample"}
          => pos < Len(tokens) \/ pos < params.context_length

LEMMA Monotone == ASSUME NEW i \in Nat, NEW j \in Nat, NEW k \in Nat, i <= j
                  PROVE  k * i <= k * j
OBVIOUS

LEMMA Quotient ==
    ASSUME NEW n \in Nat, NEW d \in Nat, d # 0
    PROVE  n \div d \in Nat /\ d * (n \div d) <= n
OBVIOUS

LEMMA PowerIsBelow ==
    ASSUME NEW n \in Nat
    PROVE  PowerBelow(n) \in Nat /\ (PowerBelow(n) <= n \/ PowerBelow(n) = 1)
<1> DEFINE powers == {p \in 1 .. n : \E k \in 0 .. 30 : p = 2^k} \cup {1}
<1>1. powers \in SUBSET Int /\ 1 \in powers
      /\ \A p \in powers : p \in Nat /\ (p <= n \/ p = 1) /\ p <= n + 1
  OBVIOUS
<1>2. PowerBelow(n) = Greatest(powers)
  BY DEF PowerBelow, Greatest
<1> HIDE DEF powers
<1>3. Greatest(powers) \in powers
  BY <1>1, GreatestOf
<1>4. QED
  BY <1>1, <1>2, <1>3

\* Reducing the context keeps both caches below their limit, if it may.
LEMMA CachesFit ==
    ASSUME Counted, NEW kv \in Nat
    PROVE  LET c == Context(kv)
               n == params.block_count * c * kv
           IN  c \in Nat /\ (n + n <= MaxCache \/ c = MinContext)
<1> DEFINE row == 2 * params.block_count * kv
           most == PowerBelow(MaxCache \div row)
<1>1. /\ params.block_count \in Nat /\ params.context_length \in Nat
      /\ row \in Nat
  BY DEF Counted, Counts
<1>2. \A c \in Nat : params.block_count * c * kv + params.block_count * c * kv
                     = row * c
  BY <1>1
<1>3. CASE row * params.context_length <= MaxCache
  <2>1. Context(kv) = params.context_length
    BY <1>3 DEF Context
  <2>2. QED
    BY <1>1, <1>2, <1>3, <2>1
<1>4. CASE ~ (row * params.context_length <= MaxCache)
  <2>1. Context(kv) = IF most < MinContext THEN MinContext ELSE most
    BY <1>4 DEF Context
  <2>2. MaxCache \in Nat /\ MinContext \in Nat \ {0}
    BY ModelAssumption
  <2>3. row # 0
    <3>1. 0 * params.context_length = 0
      BY <1>1
    <3>2. QED
      BY <1>4, <2>2, <3>1
  <2> HIDE DEF row
  <2>4. MaxCache \div row \in Nat /\ row * (MaxCache \div row) <= MaxCache
    BY <1>1, <2>2, <2>3, Quotient
  <2>5. most \in Nat /\ (most <= MaxCache \div row \/ most = 1)
    BY <2>4, PowerIsBelow
  <2> HIDE DEF most
  <2>6. CASE most < MinContext
    BY <2>1, <2>2, <2>6
  <2>7. CASE ~ (most < MinContext)
    <3>1. Context(kv) = most
      BY <2>1, <2>7
    <3>2. CASE most = 1
      BY <2>2, <2>7, <3>1, <3>2
    <3>3. CASE most <= MaxCache \div row
      <4>1. row * most <= row * (MaxCache \div row)
        BY <1>1, <2>4, <2>5, <3>3, Monotone
      <4>2. row * most <= MaxCache
        <5>1. row * most \in Int /\ row * (MaxCache \div row) \in Int
          BY <1>1, <2>4, <2>5
        <5>2. QED
          BY <2>2, <2>4, <4>1, <5>1
      <4>3. params.block_count * most * kv + params.block_count * most * kv
            <= MaxCache
        BY <1>2, <2>5, <4>2
      <4>4. QED
        BY <2>5, <3>1, <4>3
    <3>4. QED
      BY <2>5, <3>2, <3>3
  <2>8. QED
    BY <2>6, <2>7
<1>5. QED
  BY <1>3, <1>4

LEMMA SizeInit == FilesUsable /\ Init => SizeInv
<1> SUFFICES ASSUME FilesUsable, Init PROVE SizeInv
  OBVIOUS
<1>1. Counted
  BY DEF Init, ModelInit, Counted, Counts, Defaults
<1>2. stage = "pairs" => Reading
  BY DEF Init, ModelInit, FilesUsable, Reading
<1>3. QED
  BY <1>1, <1>2 DEF Init, ModelInit, SizeInv

LEMMA SizeReadPair ==
    ASSUME SizeInv, ReadPair, phase = "boot", UNCHANGED runVars
    PROVE  SizeInv'
<1> DEFINE first == Head(pairs)
<1>1. /\ Counted /\ Reading /\ pairs # <<>> /\ Usable(pairs)
      /\ \A b \in Buffers : size[b] = Null
      /\ pairs' = Tail(pairs) /\ file' = file /\ size' = size
  BY DEF SizeInv, ReadPair, Reading
<1>2. /\ pairs \in Seq(Pairs) /\ first \in Pairs /\ first = pairs[1]
      /\ Len(pairs) \in Nat \ {0} /\ pairs' \in Seq(Pairs)
      /\ Len(pairs') = Len(pairs) - 1
      /\ \A n \in 1 .. Len(pairs') : pairs'[n] = pairs[n + 1]
  BY <1>1, HeadTailProperties, EmptySeq, LenProperties DEF Usable
<1>3. Usable(pairs')
  <2>1. \A n \in 1 .. Len(pairs') : n + 1 \in 1 .. Len(pairs)
    BY <1>2
  <2>2. QED
    BY <1>1, <1>2, <2>1 DEF Usable
<1>4. /\ first.key \in Counts => first.value \in Nat
      /\ first.key = "head_count" => first.value # 0
  BY <1>1, <1>2 DEF Usable
<1>5. /\ Counts \subseteq DOMAIN Defaults /\ "tokens" \notin DOMAIN Defaults
      /\ "head_count" \in Counts /\ "vocab_size" \in Counts
  BY DEF Counts, Defaults
<1>6. CASE first.key = "tokens"
  <2>1. params' = [params EXCEPT !.vocab_size = Len(first.value)]
    BY <1>6 DEF ReadPair
  <2>2. Len(first.value) \in Nat
    <3>1. first.value \in Seq(Seq(0 .. 255))
      <4>1. ~ (first \in [key : DOMAIN Defaults \cup {"scores", "other"},
                         value : Int])
        BY <1>5, <1>6
      <4>2. first \in [key : {"tokens"}, value : Seq(Seq(0 .. 255))]
        BY <1>2, <4>1 DEF Pairs
      <4>3. QED
        BY <4>2
    <3>2. QED
      BY <3>1, LenProperties
  <2>3. Counted' /\ params'.head_count = params.head_count
    BY <1>1, <1>5, <2>1, <2>2 DEF Counted
  <2>4. params.head_count = 0 => NamesHeads(pairs')
    <3>1. ASSUME NEW n \in 1 .. Len(pairs), pairs[n].key = "head_count"
          PROVE  n # 1 /\ n - 1 \in 1 .. Len(pairs') /\ pairs'[n - 1] = pairs[n]
      BY <3>1, <1>2, <1>6
    <3>2. QED
      BY <1>1, <3>1 DEF Reading, NamesHeads
  <2>5. QED
    BY <1>1, <1>3, <2>3, <2>4 DEF SizeInv, ReadPair, Reading, runVars
<1>7. CASE first.key # "tokens"
  <2>1. params' = IF first.key \in DOMAIN params
                  THEN [params EXCEPT ![first.key] = first.value]
                  ELSE params
    BY <1>7 DEF ReadPair
  <2>2. Counted'
    BY <1>1, <1>4, <2>1 DEF Counted
  <2>3. params'.head_count # 0 \/ NamesHeads(pairs')
    <3>1. CASE first.key = "head_count"
      BY <1>1, <1>4, <1>5, <2>1, <3>1 DEF Counted
    <3>2. CASE first.key # "head_count"
      <4>1. params'.head_count = params.head_count
        BY <1>1, <1>5, <2>1, <3>2 DEF Counted
      <4>2. ASSUME NEW n \in 1 .. Len(pairs), pairs[n].key = "head_count"
            PROVE  n - 1 \in 1 .. Len(pairs') /\ pairs'[n - 1] = pairs[n]
        BY <4>2, <1>2, <3>2
      <4>3. QED
        BY <1>1, <4>1, <4>2 DEF Reading, NamesHeads
    <3>3. QED
      BY <3>1, <3>2
  <2>4. QED
    BY <1>1, <1>3, <2>2, <2>3 DEF SizeInv, ReadPair, Reading, runVars
<1>8. QED
  BY <1>6, <1>7

LEMMA SizeAllocate ==
    ASSUME FilesUsable, SizeInv, AllocateBuffers, phase = "boot",
           UNCHANGED runVars
    PROVE  SizeInv'
<1> DEFINE hq == HeadDim(file.q_norm, params.head_count)
           hd == HeadDim(file.k_norm, KvHeads)
           c == Context(KvHeads * hd)
<1>1. /\ Counted /\ file \in Files /\ pairs = <<>> /\ params.head_count # 0
      /\ head_dim_q' = hq /\ head_dim' = hd
      /\ params' = [params EXCEPT !.head_count_kv = KvHeads,
                                  !.context_length = c]
      /\ size' = [b \in Buffers |->
                     IF b \in failing \/ Wanted(b, hq, hd, c) = 0 THEN Null
                     ELSE Wanted(b, hq, hd, c)]
      /\ stage' # "pairs"
  <2>1. Reading /\ pairs = <<>> /\ Counted
    BY DEF SizeInv, AllocateBuffers
  <2>2. ~ NamesHeads(pairs)
    BY <2>1, EmptySeq DEF NamesHeads
  <2>3. QED
    BY <2>1, <2>2 DEF AllocateBuffers, Reading
<1>2. /\ params.head_count \in Nat \ {0} /\ params.head_count_kv \in Nat
      /\ params.embedding_length \in Nat
      /\ file.q_norm \in Nat /\ file.k_norm \in Nat
  BY <1>1 DEF Counted, Counts, FilesUsable
<1>3. KvHeads \in Nat \ {0}
  BY <1>2 DEF KvHeads
<1>4. \A norm \in Nat, heads \in Nat \ {0} : HeadDim(norm, heads) \in Nat
  BY <1>2, Quotient DEF HeadDim
<1>5. hq \in Nat /\ hd \in Nat
  BY <1>2, <1>3, <1>4
<1> HIDE DEF hq, hd
<1>6. /\ c \in Nat
      /\ LET n == params.block_count * c * (KvHeads * hd)
         IN  n + n <= MaxCache \/ c = MinContext
  <2>1. KvHeads * hd \in Nat
    BY <1>3, <1>5
  <2>2. QED
    BY <1>1, <2>1, CachesFit
<1> HIDE DEF c
<1>7. /\ params'.head_count_kv = KvHeads /\ params'.context_length = c
      /\ \A k \in DOMAIN Defaults \ {"head_count_kv", "context_length"} :
            params'[k] = params[k]
      /\ DOMAIN params' = DOMAIN Defaults
      /\ {"block_count", "embedding_length", "feed_forward_length",
          "head_count", "vocab_size"}
         \subseteq DOMAIN Defaults \ {"head_count_kv", "context_length"}
  BY <1>1 DEF Counted, Defaults
<1>8. Counted'
  <2>1. \A k \in Counts : params'[k] \in Nat
    BY <1>1, <1>3, <1>6, <1>7 DEF Counted, Counts
  <2>2. QED
    BY <1>7, <2>1 DEF Counted
<1>9. KvHeads' = KvHeads
  BY <1>3, <1>7 DEF KvHeads
<1>10. \A b \in Buffers : Wants(b)' = Wanted(b, hq, hd, c)
  BY <1>1, <1>7, <1>9 DEF Wants, Wanted, hq, hd
<1>11. \A b \in Buffers : size'[b] \in {Null, Wants(b)'}
  BY <1>1, <1>10 DEF hq, hd, c
<1>12. \/ Wants("k_cache")' + Wants("v_cache")' <= MaxCache
       \/ c = MinContext
  <2>1. /\ Wants("k_cache")' = params.block_count * c * (KvHeads * hd)
        /\ Wants("v_cache")' = params.block_count * c * (KvHeads * hd)
    BY <1>10 DEF Buffers, Wanted
  <2>2. QED
    BY <1>6, <2>1
<1>13. Sized'
  BY <1>1, <1>2, <1>3, <1>5, <1>7, <1>11, <1>12 DEF Sized, hq, hd
<1>14. QED
  BY <1>1, <1>8, <1>13 DEF SizeInv, runVars

LEMMA SizeNext ==
    FilesUsable /\ CacheInv /\ SizeInv /\ [Next]_vars => SizeInv'
<1> SUFFICES ASSUME FilesUsable, CacheInv, SizeInv, [Next]_vars PROVE SizeInv'
  OBVIOUS
<1>1. CASE Boot
  <2>1. phase = "boot"
    BY <1>1 DEF Boot, StartShell
  <2>2. CASE ReadPair /\ NotRunning
    BY <2>1, <2>2, SizeReadPair DEF NotRunning
  <2>3. CASE AllocateBuffers /\ NotRunning
    BY <2>1, <2>3, SizeAllocate DEF NotRunning
  <2>4. CASE BuildTable /\ NotRunning
    <3>1. /\ stage' \in {"loaded", "undone"} /\ stage = "table" /\ phase' = phase
          /\ UNCHANGED <<size, head_dim, head_dim_q>>
      BY <2>4 DEF BuildTable, NotRunning, runVars
    <3>2. /\ DOMAIN params' = DOMAIN params
          /\ \A k \in DOMAIN params \ {"add_bos_token"} : params'[k] = params[k]
          /\ Counts \subseteq DOMAIN params \ {"add_bos_token"}
      BY <2>4 DEF BuildTable, SizeInv, Counted, Counts, Defaults
    <3>3. Counted'
      BY <3>2 DEF SizeInv, Counted
    <3>4. KvHeads' = KvHeads /\ params'.context_length = params.context_length
          /\ params'.head_count = params.head_count
          /\ params'.head_count_kv = params.head_count_kv
      BY <3>2 DEF KvHeads, Counts
    <3>5. \A b \in Buffers : Wants(b)' = Wants(b)
      BY <3>1, <3>2, <3>4 DEF Wants, Wanted, Counts
    <3>6. Sized => Sized'
      BY <3>1, <3>4, <3>5 DEF Sized, Buffers
    <3>7. QED
      BY <2>1, <3>1, <3>3, <3>6 DEF SizeInv
  <2>5. CASE StartShell
    BY <2>1, <2>5 DEF StartShell, modelVars, SizeInv, Counted, Reading, Sized,
                      Wants, Wanted, KvHeads
  <2>6. QED
    BY <1>1, <2>2, <2>3, <2>4, <2>5 DEF Boot
<1>2. ASSUME UNCHANGED <<stage, file, pairs, params, size, head_dim, head_dim_q>>,
             phase' \in {"tokenize", "prefill", "generate", "sample"}
                => \A b \in Buffers : size[b] # Null,
             phase' \in {"generate", "sample"}
                => pos' < Len(tokens') \/ pos' < params.context_length
      PROVE  SizeInv'
  BY <1>2 DEF SizeInv, Counted, Reading, Sized, Wants, Wanted, KvHeads
<1>3. ASSUME NEW prompt \in Prompts, StartLlm(prompt) PROVE SizeInv'
  BY <1>2, <1>3 DEF StartLlm, CanRun, modelVars
<1>4. CASE Tokenize
  BY <1>2, <1>4 DEF Tokenize, modelVars, runVars, SizeInv
<1>5. CASE StartPrefill
  BY <1>2, <1>5 DEF StartPrefill, modelVars, SizeInv
<1>6. CASE Prefill
  BY <1>2, <1>6 DEF Prefill, modelVars, SizeInv
<1>7. CASE StartGenerate
  <2>1. pos' < Len(tokens')
    BY <1>7, PromptIsHistory DEF StartGenerate, tokenVars, CacheInv, Progress
  <2>2. QED
    BY <1>2, <1>7, <2>1 DEF StartGenerate, modelVars, SizeInv
<1>8. ASSUME NEW w, NEW enough, Generate(w, enough) PROVE SizeInv'
  BY <1>2, <1>8 DEF Generate, modelVars, tokenVars, SizeInv
<1>9. CASE Sample \/ UNCHANGED vars
  BY <1>2, <1>9 DEF Sample, vars, modelVars, tokenVars, runVars, SizeInv
<1>10. CASE Stop
  BY <1>2, <1>10 DEF Stop, modelVars
<1>11. CASE PrintToken
  <2>1. pos' = pos + 1 /\ pos \in Nat /\ params.context_length \in Nat
    BY <1>11 DEF PrintToken, Emit, CacheInv, Progress, SizeInv, Counted, Counts
  <2>2. phase' = "generate" => pos' < params.context_length
    BY <1>11, <2>1 DEF PrintToken, Emit
  <2>3. phase' \in {"shell", "generate"} /\ phase = "sample"
        /\ UNCHANGED modelVars
    BY <1>11 DEF PrintToken, Emit
  <2>4. QED
    BY <1>2, <2>2, <2>3 DEF modelVars, SizeInv
<1>12. QED
  BY <1>1, <1>3, <1>4, <1>5, <1>6, <1>7, <1>8, <1>9, <1>10, <1>11
     DEF Next, Llm

-----------------------------------------------------------------------------
(* The caches' rows. *)

\* Within the context no row belongs to two layers or to two positions.
LEMMA RowsApart ==
    ASSUME NEW n \in Nat, NEW l \in Int, NEW m \in Int,
           NEW p \in 0 .. n - 1, NEW q \in 0 .. n - 1, l * n + p = m * n + q
    PROVE  l = m /\ p = q
<1>1. ASSUME NEW i \in Int, NEW j \in Int, NEW a \in 0 .. n - 1,
             NEW b \in 0 .. n - 1, i < j
      PROVE  i * n + a < j * n + b
  <2>1. j - i - 1 \in Nat
    BY <1>1
  <2>2. (j - i - 1) * n >= 0
    BY <2>1, Monotone
  <2>3. (j - i - 1) * n = j * n - i * n - n
    OBVIOUS
  <2>4. j * n \in Int /\ i * n \in Int
    OBVIOUS
  <2>5. QED
    BY <2>2, <2>3, <2>4
<1>2. ~ (l < m)
  <2>1. SUFFICES ASSUME l < m PROVE FALSE
    OBVIOUS
  <2>2. l * n + p < m * n + q
    BY <1>1, <2>1
  <2>3. l * n + p \in Int
    OBVIOUS
  <2>4. QED
    BY <2>2, <2>3
<1>3. ~ (m < l)
  <2>1. SUFFICES ASSUME m < l PROVE FALSE
    OBVIOUS
  <2>2. m * n + q < l * n + p
    BY <1>1, <2>1
  <2>3. l * n + p \in Int
    OBVIOUS
  <2>4. QED
    BY <2>2, <2>3
<1>4. l = m
  BY <1>2, <1>3
<1>5. l * n \in Int /\ p \in Int /\ q \in Int
  OBVIOUS
<1>6. QED
  BY <1>4, <1>5

\* A row of each layer is filled at this position, and no other is touched.
LEMMA ForwardFills ==
    ASSUME params.context_length \in Nat, pos \in Nat,
           pos < params.context_length, NEW token, Forward(token)
    PROVE  /\ \A l \in Layers :
                 /\ Row(l, pos) \in DOMAIN cache'
                 /\ cache'[Row(l, pos)] = Filled(l, token)
           /\ \A l \in Layers, p \in 0 .. pos - 1 :
                 Row(l, p) \in DOMAIN cache =>
                    /\ Row(l, p) \in DOMAIN cache'
                    /\ cache'[Row(l, p)] = cache[Row(l, p)]
<1> DEFINE writers(r) == {l \in Layers : Row(l, pos) = r}
           rows == DOMAIN cache \cup {Row(l, pos) : l \in Layers}
<1>1. cache' = [r \in rows |-> IF writers(r) = {} THEN cache[r]
                               ELSE Filled(Greatest(writers(r)), token)]
  BY DEF Forward
<1>2. \A l, m \in Layers, p \in 0 .. pos :
         Row(l, pos) = Row(m, p) => l = m /\ pos = p
  <2>1. SUFFICES ASSUME NEW l \in Layers, NEW m \in Layers, NEW p \in 0 .. pos,
                        Row(l, pos) = Row(m, p)
                 PROVE  l = m /\ pos = p
    OBVIOUS
  <2>2. l \in Int /\ m \in Int
    BY DEF Layers
  <2>3. /\ pos \in 0 .. params.context_length - 1
        /\ p \in 0 .. params.context_length - 1
    OBVIOUS
  <2>4. QED
    BY <2>1, <2>2, <2>3, RowsApart DEF Row
<1> HIDE DEF rows
<1>3. ASSUME NEW l \in Layers
      PROVE  /\ Row(l, pos) \in DOMAIN cache'
             /\ cache'[Row(l, pos)] = Filled(l, token)
  <2>1. pos \in 0 .. pos
    OBVIOUS
  <2>2. writers(Row(l, pos)) = {l}
    BY <1>2, <2>1
  <2>3. Greatest({l}) = l
    <3>1. l \in Int
      BY DEF Layers
    <3>2. QED
      BY <3>1 DEF Greatest
  <2>4. Row(l, pos) \in rows
    BY DEF rows
  <2>5. QED
    BY <1>1, <2>2, <2>3, <2>4
<1>4. ASSUME NEW l \in Layers, NEW p \in 0 .. pos - 1, Row(l, p) \in DOMAIN cache
      PROVE  /\ Row(l, p) \in DOMAIN cache'
             /\ cache'[Row(l, p)] = cache[Row(l, p)]
  <2>1. p \in 0 .. pos /\ pos # p
    OBVIOUS
  <2>2. writers(Row(l, p)) = {}
    BY <1>2, <2>1
  <2>3. Row(l, p) \in rows
    BY <1>4 DEF rows
  <2>4. QED
    BY <1>1, <2>2, <2>3
<1>5. QED
  BY <1>3, <1>4

RowsInv == Len(tokens) <= params.context_length => RowsHoldHistory

\* A pass at a position adds that position's rows to those before it.
LEMMA RowsForward ==
    ASSUME SizeInv, CacheInv, RowsInv, pos \in Nat,
           Len(tokens) <= params.context_length,
           phase \in {"prefill", "generate"},
           Forward(History[pos + 1]), History' = History, params' = params
    PROVE  \A l \in Layers, p \in 0 .. pos :
              /\ Row(l, p) \in DOMAIN cache'
              /\ cache'[Row(l, p)] = Filled(l, History[p + 1])
<1>1. params.context_length \in Nat
  BY DEF SizeInv, Counted, Counts
<1>2. pos < params.context_length
  <2>1. pos < Len(tokens) \/ pos < params.context_length
    BY DEF SizeInv, CacheInv, Progress
  <2>2. Len(tokens) \in Nat
    BY ShortSequences DEF CacheInv, Progress, IsSeq
  <2>3. QED
    BY <1>1, <2>1, <2>2
<1>3. \A l \in Layers, p \in 0 .. pos - 1 :
         /\ Row(l, p) \in DOMAIN cache
         /\ cache[Row(l, p)] = Filled(l, History[p + 1])
  BY DEF RowsInv, RowsHoldHistory, Running
<1>4. SUFFICES ASSUME NEW l \in Layers, NEW p \in 0 .. pos
               PROVE  /\ Row(l, p) \in DOMAIN cache'
                      /\ cache'[Row(l, p)] = Filled(l, History[p + 1])
  OBVIOUS
<1>5. CASE p = pos
  BY <1>1, <1>2, <1>5, ForwardFills
<1>6. CASE p # pos
  <2>1. p \in 0 .. pos - 1
    BY <1>6
  <2>2. QED
    BY <1>1, <1>2, <1>3, <2>1, ForwardFills
<1>7. QED
  BY <1>5, <1>6

LEMMA RowsNext == SizeInv /\ CacheInv /\ RowsInv /\ [Next]_vars => RowsInv'
<1> SUFFICES ASSUME SizeInv, CacheInv, RowsInv, [Next]_vars,
                    (Len(tokens) <= params.context_length)', Running'
             PROVE  RowsHoldHistory'
  BY DEF RowsInv, RowsHoldHistory
<1>1. pos \in Nat
  BY DEF CacheInv, Progress
<1>2. CASE Boot \/ Tokenize \/ Stop \/ \E prompt \in Prompts : StartLlm(prompt)
  BY <1>2 DEF Boot, StartShell, NotRunning, runVars, Tokenize, Stop, StartLlm,
              Running
<1>3. ASSUME UNCHANGED <<tokens, output, params>>
      PROVE  /\ History' = History /\ Layers' = Layers
             /\ Len(tokens) <= params.context_length
             /\ \A l, p : Row(l, p)' = Row(l, p)
  BY <1>3 DEF History, Layers, Row
<1>4. CASE StartPrefill
  <2>1. pos' = 0 /\ phase' = "prefill"
    BY <1>4 DEF StartPrefill, CacheInv, Progress, Running
  <2>2. QED
    BY <2>1 DEF RowsHoldHistory
<1>5. CASE Prefill
  <2>1. /\ UNCHANGED <<tokens, output, params>> /\ phase = "prefill"
        /\ phase' = "prefill" /\ pos' = pos + 1 /\ Forward(tokens[pos + 1])
    BY <1>5 DEF Prefill, tokenVars, modelVars
  <2>2. tokens[pos + 1] = History[pos + 1]
    <3>1. pos + 1 \in 1 .. Len(tokens)
      BY <1>1, <1>5, PromptIsHistory DEF Prefill, CacheInv, Progress
    <3>2. QED
      BY <3>1, <2>1, PromptIsHistory DEF CacheInv, Progress
  <2>3. \A l \in Layers, p \in 0 .. pos :
           /\ Row(l, p) \in DOMAIN cache'
           /\ cache'[Row(l, p)] = Filled(l, History[p + 1])
    BY <1>1, <1>3, <2>1, <2>2, RowsForward
  <2>4. (IF phase' = "sample" THEN pos' ELSE pos' - 1) = pos
    BY <1>1, <2>1
  <2>5. QED
    BY <1>3, <2>1, <2>3, <2>4 DEF RowsHoldHistory, Filled
<1>6. ASSUME NEW w, NEW enough, Generate(w, enough) PROVE RowsHoldHistory'
  <2>1. /\ UNCHANGED <<tokens, output, params>> /\ phase = "generate"
        /\ phase' = "sample" /\ pos' = pos /\ Forward(last_token)
    BY <1>6 DEF Generate, tokenVars, modelVars
  <2>2. last_token = History[pos + 1]
    BY <2>1 DEF CacheInv, Located, Running
  <2>3. \A l \in Layers, p \in 0 .. pos :
           /\ Row(l, p) \in DOMAIN cache'
           /\ cache'[Row(l, p)] = Filled(l, History[p + 1])
    BY <1>1, <1>3, <2>1, <2>2, RowsForward
  <2>4. QED
    BY <1>3, <2>1, <2>3 DEF RowsHoldHistory, Filled
<1>7. CASE StartGenerate
  <2>1. /\ UNCHANGED <<tokens, output, params, cache, pos>> /\ phase = "prefill"
        /\ phase' = "generate"
    BY <1>7 DEF StartGenerate, tokenVars, modelVars
  <2>2. RowsHoldHistory
    BY <1>3, <2>1 DEF RowsInv
  <2>3. QED
    BY <1>3, <2>1, <2>2 DEF RowsHoldHistory, Running, Filled
<1>8. CASE Sample \/ UNCHANGED vars
  <2>1. UNCHANGED <<tokens, output, params, cache, pos, phase>>
    BY <1>8 DEF Sample, vars, tokenVars, modelVars, runVars
  <2>2. RowsHoldHistory
    BY <1>3, <2>1 DEF RowsInv
  <2>3. QED
    BY <1>3, <2>1, <2>2 DEF RowsHoldHistory, Running, Filled
<1>9. CASE PrintToken
  <2>1. /\ UNCHANGED <<tokens, params, cache>> /\ phase = "sample"
        /\ pos' = pos + 1 /\ phase' = "generate"
        /\ output' = Append(output, chosen)
    BY <1>9 DEF PrintToken, Emit, tokenVars, modelVars, Running
  <2>2. /\ IsSeq(tokens) /\ IsSeq(output) /\ Len(History) = pos + 1
    BY <2>1 DEF CacheInv, Progress, Located, Running
  <2>3. IsSeq(output')
    BY <2>1, <2>2, Appended
  <2>4. \A k \in 1 .. pos + 1 : History'[k] = History[k]
    BY <1>1, <2>1, <2>2, <2>3, Appended, Concatenated DEF History
  <2>5. /\ Layers' = Layers /\ Len(tokens) <= params.context_length
        /\ \A l, p : Row(l, p)' = Row(l, p)
    BY <2>1 DEF Layers, Row
  <2>6. \A l \in Layers, p \in 0 .. pos :
           /\ Row(l, p) \in DOMAIN cache
           /\ cache[Row(l, p)] = Filled(l, History[p + 1])
    BY <2>1, <2>5 DEF RowsInv, RowsHoldHistory, Running
  <2>7. /\ (IF phase' = "sample" THEN pos' ELSE pos' - 1) = pos
        /\ \A p \in 0 .. pos : History'[p + 1] = History[p + 1]
    <3>1. (IF phase' = "sample" THEN pos' ELSE pos' - 1) = pos
      BY <1>1, <2>1
    <3>2. \A p \in 0 .. pos : p + 1 \in 1 .. pos + 1
      BY <1>1
    <3>3. QED
      BY <2>4, <3>1, <3>2
  <2>8. QED
    BY <2>1, <2>5, <2>6, <2>7 DEF RowsHoldHistory, Filled
<1>10. QED
  BY <1>2, <1>4, <1>5, <1>6, <1>7, <1>8, <1>9 DEF Next, Llm

\* transformer_forward and gguf_generate: with a file whose counts are those of
\* a model, and as long as the prompt's tokens are no more than the context, each
\* row of the caches that a forward pass reads is that of its layer and of this
\* command's token at that position, however many commands came before; and the
\* token run next is the last there is.
THEOREM CacheIsHistory == FilesUsable => (Spec => []CacheHoldsHistory)
<1> SUFFICES ASSUME FilesUsable PROVE Spec => []CacheHoldsHistory
  OBVIOUS
<1>1. Init => CacheInv /\ SizeInv /\ RowsInv
  BY CacheInit, SizeInit DEF Init, RowsInv, RowsHoldHistory, Running
<1>2. CacheInv /\ SizeInv /\ RowsInv /\ [Next]_vars
         => CacheInv' /\ SizeInv' /\ RowsInv'
  BY CacheNext, SizeNext, RowsNext
<1>3. CacheInv /\ RowsInv => CacheHoldsHistory
  BY DEF CacheInv, Located, RowsInv, CacheHoldsHistory
<1>4. QED
  BY <1>1, <1>2, <1>3, PTL DEF Spec

-----------------------------------------------------------------------------
(* How far the buffers are reached into. *)

LEMMA Within == ASSUME NEW S \in SUBSET Int, S # {}, NEW n \in Int,
                       \A k \in S : k <= n
                PROVE  Greatest(S) \in Int /\ Greatest(S) <= n
BY GreatestOf

\* Groups of heads that divide evenly share all the K heads, and no other.
LEMMA GroupsCover ==
    ASSUME NEW heads \in Nat \ {0}, NEW kv \in Nat \ {0}, heads % kv = 0
    PROVE  (heads - 1) \div (heads \div kv) + 1 = kv
<1> DEFINE group == heads \div kv
<1>1. group \in Nat /\ heads = kv * group
  OBVIOUS
<1> HIDE DEF group
<1>2. group # 0
  BY <1>1
<1>3. kv * group = (kv - 1) * group + group
  BY <1>1
<1>4. heads - 1 = (kv - 1) * group + (group - 1)
  BY <1>1, <1>3
<1>5. \A q \in Nat, g \in Nat \ {0} : (q * g + (g - 1)) \div g = q
  OBVIOUS
<1>6. (heads - 1) \div group = kv - 1
  BY <1>1, <1>2, <1>4, <1>5
<1>7. QED
  BY <1>6 DEF group

\* One layer's rows of the last layer: up to position p of c.
LEMMA LastLayer ==
    ASSUME NEW layers \in Nat, NEW c \in Nat, NEW row \in Nat, NEW p \in Nat,
           p < c
    PROVE  (layers - 1) * c * row + p * row + row <= layers * c * row
<1>1. (p + 1) * row <= c * row
  BY Monotone
<1>2. (layers - 1) * c * row = layers * c * row - c * row
  OBVIOUS
<1>3. (p + 1) * row = p * row + row
  OBVIOUS
<1>4. layers * c * row \in Int /\ c * row \in Int /\ p * row \in Int
  OBVIOUS
<1>5. QED
  BY <1>1, <1>2, <1>3, <1>4

\* The conclusion of BuffersHold for one buffer at a time.
LEMMA ExtentFits ==
    ASSUME Counted, Sized, Fits, pos \in Nat, pos < params.context_length,
           NEW b \in Buffers
    PROVE  Extent(b, pos) <= Wants(b)
<1> DEFINE heads == params.head_count
           kv == params.head_count_kv
           group == heads \div kv
           row == kv * head_dim
           c == params.context_length
           before == (params.block_count - 1) * c * row
<1>1. /\ heads \in Nat \ {0} /\ kv \in Nat \ {0} /\ KvHeads = kv
      /\ head_dim \in Nat /\ head_dim_q \in Nat /\ c \in Nat
      /\ params.block_count \in Nat /\ params.embedding_length \in Nat
      /\ params.vocab_size \in Nat /\ params.feed_forward_length \in Nat
  BY DEF Counted, Counts, Sized, KvHeads
<1>2. /\ heads % kv = 0 /\ head_dim % 2 = 0 /\ head_dim_q % 2 = 0
      /\ head_dim <= head_dim_q /\ params.embedding_length <= heads * head_dim_q
      /\ params.vocab_size >= LoggedLogits
  BY DEF Fits
<1>3. row \in Nat
  BY <1>1
<1>4. CASE b \in {"x", "x_norm", "gate", "up", "ffn"}
  BY <1>1, <1>4 DEF Extent, Wants, Wanted
<1>5. CASE b \in {"k", "v", "scores", "attn_out"}
  BY <1>1, <1>2, <1>3, <1>5 DEF Extent, Wants, Wanted
<1>6. CASE b = "q"
  <2> DEFINE S == {heads * head_dim_q + (head_dim_q % 2),
                   (heads - 1) * head_dim_q + head_dim,
                   params.embedding_length}
  <2>1. Extent(b, pos) = Greatest(S) /\ Wants(b) = heads * head_dim_q
    BY <1>6 DEF Extent, Wants, Wanted
  <2>2. heads * head_dim_q \in Int
        /\ (heads - 1) * head_dim_q = heads * head_dim_q - head_dim_q
    BY <1>1
  <2>3. /\ heads * head_dim_q + (head_dim_q % 2) = heads * head_dim_q
        /\ (heads - 1) * head_dim_q + head_dim \in Int
        /\ (heads - 1) * head_dim_q + head_dim <= heads * head_dim_q
    <3>1. \A n \in Int : n + 0 = n /\ n - head_dim_q + head_dim \in Int
                          /\ n - head_dim_q + head_dim <= n
      BY <1>1, <1>2
    <3>2. QED
      BY <1>2, <2>2, <3>1
  <2>4. S \in SUBSET Int /\ S # {} /\ \A k \in S : k <= heads * head_dim_q
    BY <1>1, <1>2, <2>2, <2>3
  <2> HIDE DEF S
  <2>5. QED
    BY <2>1, <2>2, <2>4, Within
<1>7. CASE b = "logits"
  <2> DEFINE S == {params.vocab_size, LoggedLogits}
  <2>1. Extent(b, pos) = Greatest(S) /\ Wants(b) = params.vocab_size
    BY <1>7 DEF Extent, Wants, Wanted
  <2>2. S \in SUBSET Int /\ S # {} /\ \A k \in S : k <= params.vocab_size
    BY <1>1, <1>2, InferenceAssumption
  <2> HIDE DEF S
  <2>3. QED
    BY <1>1, <2>1, <2>2, Within
<1>8. CASE b \in {"k_cache", "v_cache"}
  <2> DEFINE shared == ((heads - 1) \div group + 1) * head_dim
             S == {row, shared}
  <2>1. /\ Extent(b, pos) = before + pos * row + Greatest(S)
        /\ Wants(b) = params.block_count * c * row
    BY <1>1, <1>8 DEF Extent, Wants, Wanted
  <2>2. shared = row
    BY <1>1, <1>2, GroupsCover
  <2> HIDE DEF shared, row
  <2>3. Greatest(S) <= row /\ Greatest(S) \in Int
    BY <1>3, <2>2, Within
  <2>4. before + pos * row + row <= params.block_count * c * row
    BY <1>1, <1>3, LastLayer
  <2>5. before \in Int /\ pos * row \in Int /\ params.block_count * c * row \in Int
    BY <1>1, <1>3
  <2> HIDE DEF S, before
  <2>6. QED
    BY <1>3, <2>1, <2>3, <2>4, <2>5
<1>9. QED
  BY <1>4, <1>5, <1>6, <1>7, <1>8 DEF Buffers

LEMMA SizesHold ==
    CacheInv /\ SizeInv /\ Len(tokens) <= TokenSlots => BuffersHold
<1> SUFFICES ASSUME CacheInv, SizeInv, Len(tokens) <= TokenSlots,
                    phase \in {"prefill", "generate"}
             PROVE  /\ Fits => \A b \in Buffers : Extent(b, pos) <= size[b]
                    /\ \/ size["k_cache"] + size["v_cache"] <= MaxCache
                       \/ params.context_length = MinContext
  BY DEF BuffersHold
<1>1. Counted /\ Sized /\ \A b \in Buffers : size[b] = Wants(b)
  <2>1. \A b \in Buffers : size[b] # Null
    BY DEF SizeInv
  <2>2. Sized
    BY <2>1 DEF SizeInv, Buffers
  <2>3. QED
    BY <2>1, <2>2 DEF SizeInv, Sized
<1>2. ASSUME Fits PROVE pos \in Nat /\ pos < params.context_length
  <2>1. pos \in Nat /\ Len(tokens) \in Nat
    BY ShortSequences DEF CacheInv, Progress, IsSeq
  <2>2. pos < Len(tokens) \/ pos < params.context_length
    BY DEF SizeInv, CacheInv, Progress
  <2>3. TokenSlots \in Nat /\ params.context_length \in Nat
        /\ params.context_length >= TokenSlots
    BY <1>1, <1>2, InferenceAssumption DEF Fits, Counted, Counts
  <2>4. QED
    BY <2>1, <2>2, <2>3
<1>3. Fits => \A b \in Buffers : Extent(b, pos) <= size[b]
  BY <1>1, <1>2, ExtentFits
<1>4. QED
  BY <1>1, <1>3 DEF Sized, Buffers

\* transformer_forward and gguf_generate: with a file whose counts are those
\* of a model, while the prompt's tokens fit the array they are written to, no
\* access leaves its buffer, and the caches stay below their limit or the
\* context is the least there is.
THEOREM BuffersAreLargeEnough ==
    FilesUsable => (Spec => [](Len(tokens) <= TokenSlots => BuffersHold))
<1> SUFFICES ASSUME FilesUsable
             PROVE  Spec => [](Len(tokens) <= TokenSlots => BuffersHold)
  OBVIOUS
<1>1. Init => CacheInv /\ SizeInv
  BY CacheInit, SizeInit
<1>2. CacheInv /\ SizeInv /\ [Next]_vars => CacheInv' /\ SizeInv'
  BY CacheNext, SizeNext
<1>3. CacheInv /\ SizeInv => (Len(tokens) <= TokenSlots => BuffersHold)
  BY SizesHold
<1>4. QED
  BY <1>1, <1>2, <1>3, PTL DEF Spec

-----------------------------------------------------------------------------
(* Functions defined step by step: there is one, whatever the step. *)

\* s is a, and then at each k what G makes of k and the value before.
Stepwise(s, n, a, G, V) ==
    s \in [0 .. n -> V] /\ s[0] = a /\ \A k \in 1 .. n : s[k] = G[<<k, s[k - 1]>>]

Closed(V, G) == \A k \in Nat : \A v \in V : G[<<k, v>>] \in V

LEMMA StepwiseExists ==
    ASSUME NEW V, NEW a \in V, NEW G, Closed(V, G), NEW n \in Nat
    PROVE  \E s : Stepwise(s, n, a, G, V)
<1> DEFINE S == {m \in Nat : \E s : Stepwise(s, m, a, G, V)}
<1>1. 0 \in S
  <2>1. Stepwise([k \in 0 .. 0 |-> a], 0, a, G, V)
    BY DEF Stepwise
  <2>2. QED
    BY <2>1
<1>2. ASSUME NEW m \in Nat, m \in S PROVE m + 1 \in S
  <2>1. PICK s : Stepwise(s, m, a, G, V)
    BY <1>2
  <2> DEFINE e == G[<<m + 1, s[m]>>]
             t == [k \in 0 .. m + 1 |-> IF k = m + 1 THEN e ELSE s[k]]
  <2>2. s \in [0 .. m -> V] /\ e \in V
    BY <2>1 DEF Stepwise, Closed
  <2> HIDE DEF e
  <2>3. t \in [0 .. m + 1 -> V] /\ t[m + 1] = e /\ \A k \in 0 .. m : t[k] = s[k]
    BY <2>2
  <2> HIDE DEF t
  <2>4. t[0] = a
    BY <2>1, <2>3 DEF Stepwise
  <2>5. ASSUME NEW k \in 1 .. m + 1 PROVE t[k] = G[<<k, t[k - 1]>>]
    <3>1. CASE k = m + 1
      <4>1. k - 1 = m /\ m \in 0 .. m
        BY <3>1
      <4>2. QED
        BY <2>3, <3>1, <4>1 DEF e
    <3>2. CASE k # m + 1
      <4>1. k \in 1 .. m /\ k \in 0 .. m /\ k - 1 \in 0 .. m
        BY <3>2
      <4>2. QED
        BY <2>1, <2>3, <4>1 DEF Stepwise
    <3>3. QED
      BY <3>1, <3>2
  <2>6. Stepwise(t, m + 1, a, G, V)
    BY <2>3, <2>4, <2>5 DEF Stepwise
  <2>7. QED
    BY <2>6
<1> HIDE DEF S
<1>3. Nat \subseteq S
  BY <1>1, <1>2, SetInduction
<1>4. n \in S
  BY <1>3
<1>5. QED
  BY <1>4 DEF S

-----------------------------------------------------------------------------
(* The vocabulary. *)

LEMMA HashIsBucket == \A s \in Seq(Int) : Hash(s) \in 0 .. HashSize - 1
<1> SUFFICES ASSUME NEW s \in Seq(Int) PROVE Hash(s) \in 0 .. HashSize - 1
  OBVIOUS
<1> DEFINE V == 0 .. HashSize - 1
           L == Len(s)
           start == 5381 % HashSize
           G == [x \in Nat \X V |-> IF x[1] \in 1 .. L
                                    THEN (x[2] * 33 + s[x[1]]) % HashSize
                                    ELSE start]
           IsHash(h) == h = [k \in 0 .. L |->
                               IF k = 0 THEN start
                               ELSE (h[k - 1] * 33 + s[k]) % HashSize]
<1>1. HashSize \in Nat \ {0} /\ L \in Nat /\ \A k \in 1 .. L : s[k] \in Int
  BY TokenizerAssumption, LenProperties
<1>2. \A n \in Int : n % HashSize \in V
  BY <1>1
<1>3. start \in V
  BY <1>2
<1> HIDE DEF start
<1>4. ASSUME NEW k \in Nat, NEW v \in V PROVE G[<<k, v>>] \in V
  <2>1. G[<<k, v>>] = IF k \in 1 .. L THEN (v * 33 + s[k]) % HashSize ELSE start
    OBVIOUS
  <2>2. v \in Int
    BY <1>1
  <2>3. k \in 1 .. L => v * 33 + s[k] \in Int
    BY <1>1, <2>2
  <2> HIDE DEF G, V, L
  <2>4. QED
    BY <1>2, <1>3, <2>1, <2>3
<1>5. PICK h : Stepwise(h, L, start, G, V)
  <2> HIDE DEF G, V, L
  <2>1. Closed(V, G)
    BY <1>4 DEF Closed
  <2>2. QED
    BY <1>1, <1>3, <2>1, StepwiseExists
<1>6. \A k \in 1 .. L : h[k] = (h[k - 1] * 33 + s[k]) % HashSize
  <2>1. SUFFICES ASSUME NEW k \in 1 .. L
                 PROVE  h[k] = (h[k - 1] * 33 + s[k]) % HashSize
    OBVIOUS
  <2> HIDE DEF V, L
  <2>2. k \in Nat /\ k - 1 \in 0 .. L
    BY <1>1
  <2>3. h[k - 1] \in V
    BY <1>5, <2>2 DEF Stepwise
  <2>4. G[<<k, h[k - 1]>>] = (h[k - 1] * 33 + s[k]) % HashSize
    BY <2>2, <2>3
  <2>5. QED
    BY <1>5, <2>2, <2>4 DEF Stepwise
<1>7. IsHash(h)
  <2>1. \A k \in 0 .. L : h[k] = IF k = 0 THEN start
                                 ELSE (h[k - 1] * 33 + s[k]) % HashSize
    BY <1>1, <1>5, <1>6 DEF Stepwise
  <2>2. h = [k \in 0 .. L |-> h[k]]
    BY <1>5 DEF Stepwise
  <2>3. QED
    BY <2>1, <2>2
<1> DEFINE c == CHOOSE c : IsHash(c)
<1>8. IsHash(c)
  BY <1>7
<1>9. Hash(s) = c[L]
  BY DEF Hash, start
<1> HIDE DEF c
<1>10. c[L] \in V
  <2>1. L = 0 => c[L] = start
    BY <1>1, <1>8
  <2>2. \A k \in 0 .. L : c[k] \in Int => (k # L => c[k + 1] \in V)
    <3>1. SUFFICES ASSUME NEW k \in 0 .. L, c[k] \in Int, k # L
                   PROVE  c[k + 1] \in V
      OBVIOUS
    <3> HIDE DEF L, c
    <3>2. k + 1 \in 0 .. L /\ k + 1 # 0 /\ k + 1 - 1 = k /\ k + 1 \in 1 .. L
      BY <1>1, <3>1
    <3>3. c[k + 1] = (c[k] * 33 + s[k + 1]) % HashSize
      BY <1>8, <3>2
    <3>4. c[k] * 33 + s[k + 1] \in Int
      BY <1>1, <3>2, <3>1
    <3>5. QED
      BY <1>2, <3>3, <3>4
  <2> DEFINE S == {k \in Nat : k <= L => c[k] \in V}
  <2>3. 0 \in S
    BY <1>1, <1>3, <1>8
  <2>4. ASSUME NEW k \in Nat, k \in S PROVE k + 1 \in S
    <3>1. CASE k + 1 <= L
      <4>1. k \in 0 .. L /\ k # L /\ c[k] \in Int
        BY <1>1, <2>4, <3>1
      <4>2. QED
        BY <2>2, <4>1
    <3>2. CASE ~ (k + 1 <= L)
      BY <3>2
    <3>3. QED
      BY <3>1, <3>2
  <2> HIDE DEF S
  <2>5. L \in S
    BY <1>1, <2>3, <2>4, SetInduction
  <2>6. QED
    BY <1>1, <2>5 DEF S
<1>11. QED
  BY <1>9, <1>10

\* What find_token_by_str relies on: the count is that of the strings.
VocabCounted == params.vocab_size = Len(vocab) /\ vocab \in Seq(Seq(0 .. 255))

LEMMA StringsAreBytes ==
    ASSUME VocabCounted
    PROVE  /\ params.vocab_size \in Nat
           /\ \A t \in Ids : String(t) \in Seq(0 .. 255) /\ String(t) \in Seq(Int)
<1>1. params.vocab_size \in Nat /\ DOMAIN vocab = 1 .. params.vocab_size
      /\ \A n \in 1 .. params.vocab_size : vocab[n] \in Seq(0 .. 255)
  BY LenProperties DEF VocabCounted
<1>2. ASSUME NEW t \in Ids
      PROVE  String(t) \in Seq(0 .. 255) /\ String(t) \in Seq(Int)
  <2>1. t + 1 \in 1 .. params.vocab_size
    BY <1>1, <1>2 DEF Ids
  <2>2. String(t) \in Seq(0 .. 255)
    BY <1>1, <2>1 DEF String
  <2>3. 0 .. 255 \subseteq Int
    OBVIOUS
  <2>4. QED
    BY <2>2, <2>3, SeqMonotonic
<1>3. QED
  BY <1>1, <1>2

\* c has the tokens below n with hash h, and no other.
InBucket(c, n, h) ==
    /\ c \in Seq(Ids)
    /\ \A k \in 1 .. Len(c) : Hash(String(c[k])) = h
    /\ \A t \in 0 .. n - 1 : Hash(String(t)) = h => \E k \in 1 .. Len(c) : c[k] = t

LEMMA ChainIsBucket ==
    ASSUME VocabCounted, NEW h
    PROVE  InBucket(Chain(h), params.vocab_size, h)
<1> DEFINE N == params.vocab_size
           V == Seq(Ids)
           G == [x \in Nat \X V |->
                   IF x[1] \in 1 .. N
                   THEN IF Hash(String(x[1] - 1)) = h THEN <<x[1] - 1>> \o x[2]
                        ELSE x[2]
                   ELSE <<>>]
           IsChain(c) == c = [t \in (-1) .. N - 1 |->
                                IF t = -1 THEN <<>>
                                ELSE IF Hash(String(t)) = h THEN <<t>> \o c[t - 1]
                                ELSE c[t - 1]]
<1>1. N \in Nat /\ Ids = 0 .. N - 1
  BY StringsAreBytes DEF Ids
<1>2. <<>> \in V /\ \A t \in Ids : <<t>> \in V
  BY EmptySeq
<1>3. Closed(V, G)
  <2>1. SUFFICES ASSUME NEW k \in Nat, NEW v \in V PROVE G[<<k, v>>] \in V
    BY DEF Closed
  <2>2. k \in 1 .. N => k - 1 \in Ids
    BY <1>1
  <2>3. k \in 1 .. N => <<k - 1>> \o v \in V
    BY <1>2, <2>2, ConcatProperties
  <2>4. QED
    BY <1>2, <2>3
<1>4. PICK s : Stepwise(s, N, <<>>, G, V)
  <2> HIDE DEF G, V, N
  <2>1. QED
    BY <1>1, <1>2, <1>3, StepwiseExists
<1> DEFINE d == [t \in (-1) .. N - 1 |-> s[t + 1]]
<1>5. IsChain(d)
  <2>1. d[-1] = <<>>
    BY <1>1, <1>4 DEF Stepwise
  <2>2. ASSUME NEW t \in 0 .. N - 1
        PROVE  d[t] = IF Hash(String(t)) = h THEN <<t>> \o d[t - 1] ELSE d[t - 1]
    <3>1. /\ t + 1 \in 1 .. N /\ t + 1 \in Nat /\ t + 1 - 1 = t
          /\ t \in 0 .. N /\ t - 1 + 1 = t /\ t - 1 \in -1 .. N - 1
          /\ t \in -1 .. N - 1
      BY <1>1, <2>2
    <3> HIDE DEF V, G, N
    <3>2. s[t] \in V /\ s[t + 1] = G[<<t + 1, s[t]>>]
      BY <1>4, <3>1 DEF Stepwise
    <3>3. d[t] = s[t + 1] /\ d[t - 1] = s[t]
      BY <3>1
    <3>4. G[<<t + 1, s[t]>>] = IF Hash(String(t)) = h THEN <<t>> \o s[t] ELSE s[t]
      BY <3>1, <3>2 DEF G
    <3>5. QED
      BY <3>2, <3>3, <3>4
  <2>3. d = [t \in (-1) .. N - 1 |-> d[t]]
    OBVIOUS
  <2> HIDE DEF d
  <2>4. \A t \in (-1) .. N - 1 : t # -1 => t \in 0 .. N - 1
    BY <1>1
  <2>5. QED
    BY <2>1, <2>2, <2>3, <2>4
<1> DEFINE c == CHOOSE c : IsChain(c)
<1>6. IsChain(c)
  BY <1>5
<1>7. Chain(h) = c[N - 1]
  BY DEF Chain
<1> HIDE DEF c
<1>8. c[-1] = <<>> /\ \A t \in 0 .. N - 1 :
         c[t] = IF Hash(String(t)) = h THEN <<t>> \o c[t - 1] ELSE c[t - 1]
  <2>1. -1 \in -1 .. N - 1 /\ \A t \in 0 .. N - 1 : t \in -1 .. N - 1 /\ t # -1
    BY <1>1
  <2>2. QED
    BY <1>6, <2>1
<1> DEFINE S == {n \in Nat : n <= N => InBucket(c[n - 1], n, h)}
<1>9. 0 \in S
  <2>1. 0 - 1 = -1 /\ Len(<<>>) = 0 /\ <<>> \in Seq(Ids)
    BY EmptySeq
  <2>2. InBucket(<<>>, 0, h)
    BY <2>1 DEF InBucket
  <2>3. c[0 - 1] = <<>>
    BY <1>8, <2>1
  <2>4. QED
    BY <2>2, <2>3
<1>10. ASSUME NEW n \in Nat, n \in S PROVE n + 1 \in S
  <2>1. SUFFICES ASSUME n + 1 <= N PROVE InBucket(c[n], n + 1, h)
    <3>1. n + 1 - 1 = n
      OBVIOUS
    <3>2. QED
      BY <3>1
  <2>2. n \in 0 .. N - 1 /\ n \in Ids /\ n <= N
    BY <1>1, <2>1
  <2> PICK b : b = c[n - 1]
    OBVIOUS
  <2>3. InBucket(b, n, h) /\ b \in Seq(Ids) /\ Len(b) \in Nat
    BY <1>10, <2>2, LenProperties DEF InBucket
  <2>4. CASE Hash(String(n)) = h
    <3> DEFINE e == <<n>> \o b
    <3>1. c[n] = e
      BY <1>8, <2>2, <2>4
    <3>2. /\ e \in Seq(Ids) /\ Len(e) = Len(b) + 1 /\ e[1] = n
          /\ \A k \in 1 .. Len(b) : e[k + 1] = b[k]
      <4>1. <<n>> \in Seq(Ids) /\ Len(<<n>>) = 1
        BY <2>2
      <4>2. e \in Seq(Ids) /\ Len(e) = Len(b) + 1
            /\ \A k \in 1 .. Len(b) + 1 :
                  e[k] = IF k <= 1 THEN <<n>>[k] ELSE b[k - 1]
        BY <4>1, <2>3, ConcatProperties
      <4>3. /\ 1 \in 1 .. Len(b) + 1 /\ 1 <= 1 /\ <<n>>[1] = n
            /\ \A k \in 1 .. Len(b) : /\ k + 1 \in 1 .. Len(b) + 1
                                     /\ ~ (k + 1 <= 1) /\ k + 1 - 1 = k
        BY <2>3
      <4> HIDE DEF e
      <4>4. e[1] = n
        BY <4>2, <4>3
      <4>5. ASSUME NEW k \in 1 .. Len(b) PROVE e[k + 1] = b[k]
        BY <4>2, <4>3
      <4>6. QED
        BY <4>2, <4>4, <4>5
    <3> HIDE DEF e
    <3>3. \A k \in 1 .. Len(e) : Hash(String(e[k])) = h
      <4>1. SUFFICES ASSUME NEW k \in 1 .. Len(e) PROVE Hash(String(e[k])) = h
        OBVIOUS
      <4>2. k = 1 \/ (k - 1 \in 1 .. Len(b) /\ k = (k - 1) + 1)
        BY <2>3, <3>2
      <4>3. \A o \in 1 .. Len(b) : Hash(String(b[o])) = h
        BY <2>3 DEF InBucket
      <4>4. CASE k = 1
        BY <2>4, <3>2, <4>4
      <4>5. CASE k - 1 \in 1 .. Len(b) /\ k = (k - 1) + 1
        <5>1. e[k] = b[k - 1]
          BY <3>2, <4>5
        <5>2. QED
          BY <4>3, <4>5, <5>1
      <4>6. QED
        BY <4>2, <4>4, <4>5
    <3>4. ASSUME NEW t \in 0 .. n + 1 - 1, Hash(String(t)) = h
          PROVE  \E k \in 1 .. Len(e) : e[k] = t
      <4>1. CASE t = n
        <5>1. 1 \in 1 .. Len(e)
          BY <2>3, <3>2
        <5>2. QED
          BY <3>2, <4>1, <5>1
      <4>2. CASE t # n
        <5>1. t \in 0 .. n - 1
          BY <4>2, <3>4
        <5>2. PICK k \in 1 .. Len(b) : b[k] = t
          BY <2>3, <3>4, <5>1 DEF InBucket
        <5>3. k + 1 \in 1 .. Len(e) /\ e[k + 1] = t
          BY <2>3, <3>2, <5>2
        <5>4. QED
          BY <5>3
      <4>3. QED
        BY <4>1, <4>2
    <3>5. QED
      BY <3>1, <3>2, <3>3, <3>4 DEF InBucket
  <2>5. CASE Hash(String(n)) # h
    <3>1. c[n] = b
      BY <1>8, <2>2, <2>5
    <3>2. \A t \in 0 .. n + 1 - 1 : t = n \/ t \in 0 .. n - 1
      OBVIOUS
    <3>3. QED
      BY <2>3, <2>5, <3>1, <3>2 DEF InBucket
  <2>6. QED
    BY <2>4, <2>5
<1> HIDE DEF S
<1>11. N \in S
  BY <1>1, <1>9, <1>10, SetInduction
<1>12. InBucket(c[N - 1], N, h)
  <2>1. N <= N
    BY <1>1
  <2>2. QED
    BY <1>11, <2>1 DEF S
<1>13. QED
  BY <1>1, <1>7, <1>12

TableIsVocab ==
    \/ table = <<>>
    \/ \A h \in 0 .. HashSize - 1 : InBucket(table[h], params.vocab_size, h)

\* find_token_by_str finds a string of the vocabulary, with the table or
\* without it, and misses none.
LEMMA FindIsHas ==
    ASSUME VocabCounted, TableIsVocab, NEW s \in Seq(Int)
    PROVE  /\ Find(s) # -1 => Find(s) \in Ids /\ String(Find(s)) = s
           /\ Find(s) # -1 <=> Has(s)
<1> DEFINE c == Candidates(s)
           hits == {k \in DOMAIN c : String(c[k]) = s}
<1>1. params.vocab_size \in Nat /\ Ids = 0 .. params.vocab_size - 1
  BY StringsAreBytes DEF Ids
<1>2. /\ c \in Seq(Ids)
      /\ \A t \in Ids : String(t) = s => \E k \in 1 .. Len(c) : c[k] = t
  <2>1. CASE table = <<>>
    <3>1. c = [k \in 1 .. params.vocab_size |-> k - 1]
      BY <2>1 DEF Candidates, VocabCounted
    <3>2. \A k \in 1 .. params.vocab_size : k - 1 \in Ids
      BY <1>1
    <3>3. c \in Seq(Ids) /\ Len(c) = params.vocab_size
      <4>1. c \in [1 .. params.vocab_size -> Ids]
        BY <3>1, <3>2
      <4> HIDE DEF c
      <4>2. c \in Seq(Ids)
        BY <1>1, <4>1
      <4>3. DOMAIN c = 1 .. params.vocab_size
        BY <4>1
      <4>4. QED
        BY <1>1, <4>2, <4>3, LenProperties
    <3>4. \A t \in Ids : t + 1 \in 1 .. params.vocab_size /\ t + 1 - 1 = t
      BY <1>1
    <3> HIDE DEF c
    <3>5. ASSUME NEW t \in Ids PROVE t + 1 \in 1 .. Len(c) /\ c[t + 1] = t
      <4>1. c[t + 1] = t + 1 - 1
        BY <1>1, <3>1, <3>4
      <4>2. QED
        BY <3>3, <3>4, <4>1
    <3>6. QED
      BY <3>3, <3>5
  <2>2. CASE table # <<>>
    <3>1. c = table[Hash(s)]
      BY <2>2 DEF Candidates
    <3>2. InBucket(c, params.vocab_size, Hash(s))
      BY <2>2, <3>1, HashIsBucket DEF TableIsVocab
    <3>3. QED
      BY <1>1, <3>2 DEF InBucket
  <2>3. QED
    BY <2>1, <2>2
<1> HIDE DEF c
<1>3. Len(c) \in Nat /\ DOMAIN c = 1 .. Len(c) /\ \A k \in 1 .. Len(c) : c[k] \in Ids
  BY <1>2, LenProperties, ElementOfSeq
<1>4. Find(s) = IF hits = {} THEN -1 ELSE c[Least(hits)]
  BY DEF Find, Least, c
<1>5. hits = {} \/ Least(hits) \in hits
  <2>1. hits \in SUBSET Int /\ \A k \in hits : 1 <= k
    BY <1>3
  <2> HIDE DEF hits
  <2>2. QED
    BY <2>1, LeastOf
<1>6. hits = {} <=> ~ Has(s)
  BY <1>2, <1>3 DEF Has
<1>7. CASE hits = {}
  BY <1>4, <1>6, <1>7
<1>8. CASE hits # {}
  <2>1. Find(s) = c[Least(hits)] /\ Least(hits) \in hits
    BY <1>4, <1>5, <1>8
  <2>2. Find(s) \in Ids /\ String(Find(s)) = s
    BY <1>3, <2>1
  <2>3. Find(s) # -1
    BY <1>1, <2>2
  <2>4. QED
    BY <1>6, <1>8, <2>2, <2>3
<1>9. QED
  BY <1>7, <1>8

-----------------------------------------------------------------------------
(* The text a command is given. *)

LEMMA PreparedBytes ==
    \A b \in 1 .. 255 : Prepared(b) \in Seq(0 .. 255)
<1> SUFFICES ASSUME NEW b \in 1 .. 255 PROVE Prepared(b) \in Seq(0 .. 255)
  OBVIOUS
<1>1. Mark \in Seq(0 .. 255)
  BY DEF Mark
<1>2. <<b>> \in Seq(0 .. 255)
  OBVIOUS
<1>3. \A u \in 0 .. 511 : Encoded(u) \in Seq(0 .. 255)
  <2>1. SUFFICES ASSUME NEW u \in 0 .. 511 PROVE Encoded(u) \in Seq(0 .. 255)
    OBVIOUS
  <2>2. 192 + (u \div 64) \in 0 .. 255 /\ 128 + (u % 64) \in 0 .. 255
    OBVIOUS
  <2>3. u <= 127 => u \in 0 .. 255
    OBVIOUS
  <2>4. CASE u <= 127
    BY <2>3, <2>4 DEF Encoded
  <2>5. CASE ~ (u <= 127)
    <3>1. Encoded(u) = <<192 + (u \div 64), 128 + (u % 64)>>
      BY <2>5 DEF Encoded
    <3>2. PICK d \in 0 .. 255 : d = 192 + (u \div 64)
      BY <2>2
    <3>3. PICK e \in 0 .. 255 : e = 128 + (u % 64)
      BY <2>2
    <3>4. Encoded(u) = <<d, e>>
      BY <3>1, <3>2, <3>3
    <3>5. <<d, e>> \in Seq(0 .. 255)
      OBVIOUS
    <3>6. QED
      BY <3>4, <3>5
  <2>6. QED
    BY <2>4, <2>5
<1>4. CodePoint(b) \in 0 .. 511
  BY DEF CodePoint
<1>5. QED
  BY <1>1, <1>2, <1>3, <1>4 DEF Prepared

\* How long preprocess_text makes a byte, at most, and a prompt with a mark in
\* front: a visible character stays a byte.
Width(b) == IF b \in 33 .. 126 THEN 1 ELSE 3
Cost(prompt) ==
    3 + Sum([k \in 0 .. Len(prompt) - 1 |-> Width(prompt[k + 1])], Len(prompt))

LEMMA CostIsNat == \A prompt \in Prompts : Cost(prompt) \in Nat
<1> SUFFICES ASSUME NEW prompt \in Prompts PROVE Cost(prompt) \in Nat
  OBVIOUS
<1> DEFINE L == Len(prompt)
           g == [k \in 0 .. L - 1 |-> Width(prompt[k + 1])]
<1>1. L \in Nat
  BY InferenceAssumption, LenProperties
<1>2. \A k \in 0 .. L - 1 : g[k] \in Nat
  BY DEF Width
<1>3. L \in 0 .. L
  BY <1>1
<1>4. Cost(prompt) = 3 + Sum(g, L)
  BY DEF Cost
<1> HIDE DEF g, L
<1>5. Sum(g, L) \in Nat
  BY <1>1, <1>2, <1>3, SumIsNat
<1>6. QED
  BY <1>4, <1>5

LEMMA PreparedLength == \A b \in 1 .. 255 : Len(Prepared(b)) <= Width(b)
<1> SUFFICES ASSUME NEW b \in 1 .. 255 PROVE Len(Prepared(b)) <= Width(b)
  OBVIOUS
<1>1. /\ \A c : Len(<<c>>) = 1
      /\ \A c, d : Len(<<c, d>>) = 2
      /\ Len(Mark) = 3
  BY DEF Mark
<1>2. Width(b) \in {1, 3} /\ (b \in 33 .. 126 => Width(b) = 1)
      /\ (b \notin 33 .. 126 => Width(b) = 3)
  BY DEF Width
<1>3. \A u : Len(Encoded(u)) \in {1, 2} /\ (u <= 127 => Len(Encoded(u)) = 1)
  BY <1>1 DEF Encoded
<1>4. b \in 33 .. 126 => CodePoint(b) = b /\ b <= 127 /\ b # Space
  BY DEF CodePoint, Space
<1>5. CASE b \in 33 .. 126
  <2>1. Len(Prepared(b)) = 1
    BY <1>1, <1>3, <1>4, <1>5 DEF Prepared
  <2>2. QED
    BY <1>2, <1>5, <2>1
<1>6. CASE b \notin 33 .. 126
  <2>1. Len(Prepared(b)) \in {1, 2, 3}
    BY <1>1, <1>3 DEF Prepared
  <2>2. Width(b) = 3
    BY <1>2, <1>6
  <2> PICK n : n = Len(Prepared(b))
    OBVIOUS
  <2>3. n <= 3
    BY <2>1
  <2>4. QED
    BY <2>2, <2>3
<1>7. QED
  BY <1>5, <1>6

LEMMA PreparedFits ==
    \A b : Len(Prepared(b)) <= IF is_sentencepiece THEN 3 ELSE 2
<1>1. /\ \A c : Len(<<c>>) = 1
      /\ \A c, d : Len(<<c, d>>) = 2
      /\ Len(Mark) = 3
  BY DEF Mark
<1>2. ASSUME NEW u PROVE Len(Encoded(u)) \in {1, 2}
  BY <1>1 DEF Encoded
<1> SUFFICES ASSUME NEW b
             PROVE  Len(Prepared(b)) <= IF is_sentencepiece THEN 3 ELSE 2
  OBVIOUS
<1>3. CASE is_sentencepiece
  <2>1. Len(Prepared(b)) = 1 \/ Len(Prepared(b)) = 3
    BY <1>1, <1>3 DEF Prepared
  <2> PICK n : n = Len(Prepared(b))
    OBVIOUS
  <2>2. n <= 3
    BY <2>1
  <2>3. QED
    BY <1>3, <2>2
<1>4. CASE ~ is_sentencepiece
  <2>1. Len(Prepared(b)) \in {1, 2}
    BY <1>2, <1>4 DEF Prepared
  <2> PICK n : n = Len(Prepared(b))
    OBVIOUS
  <2>2. n <= 2
    BY <2>1
  <2>3. QED
    BY <1>4, <2>2
<1>5. QED
  BY <1>3, <1>4

LEMMA PreprocessIsBytes ==
    ASSUME NEW prompt \in Prompts
    PROVE  /\ Preprocess(prompt) \in Seq(0 .. 255)
           /\ Len(Preprocess(prompt)) <= Cost(prompt)
           /\ Len(Preprocess(prompt)) < MaxText
<1> DEFINE V == Seq(0 .. 255)
           L == Len(prompt)
           start == IF is_sentencepiece /\ prompt[1] # Space THEN Mark ELSE <<>>
           limit == MaxText - (IF is_sentencepiece THEN 4 ELSE 3)
           More(v, k) == IF Len(v) < limit THEN v \o Prepared(prompt[k]) ELSE v
           G == [x \in Nat \X V |-> IF x[1] \in 1 .. L THEN More(x[2], x[1])
                                    ELSE x[2]]
           IsText(f) == f = [k \in 0 .. L |-> IF k = 0 THEN start
                                              ELSE More(f[k - 1], k)]
           g == [k \in 0 .. L - 1 |-> Width(prompt[k + 1])]
<1>1. /\ L \in Nat /\ \A k \in 1 .. L : Prepared(prompt[k]) \in V
      /\ \A k \in 1 .. L : Len(Prepared(prompt[k])) <= Width(prompt[k])
  <2>1. prompt \in Seq(1 .. 255)
    BY InferenceAssumption
  <2>2. L \in Nat /\ \A k \in 1 .. L : prompt[k] \in 1 .. 255
    BY <2>1, LenProperties, ElementOfSeq
  <2> HIDE DEF L, V
  <2>3. QED
    BY <2>2, PreparedBytes, PreparedLength DEF V
<1>2. \A k \in 0 .. L : Sum(g, k) \in Nat
  <2>1. \A k \in 0 .. L - 1 : g[k] \in Nat
    BY DEF Width
  <2> HIDE DEF g, L
  <2>2. QED
    BY <1>1, <2>1, SumIsNat
<1>3. start \in V /\ Len(start) <= 3 /\ Len(start) < MaxText
  <2>1. /\ <<>> \in V /\ Mark \in V /\ Len(<<>>) <= 3 /\ Len(Mark) <= 3
        /\ Len(<<>>) < MaxText /\ Len(Mark) < MaxText
    BY TokenizerAssumption DEF Mark
  <2> HIDE DEF V
  <2>2. CASE is_sentencepiece /\ prompt[1] # Space
    BY <2>1, <2>2
  <2>3. CASE ~ (is_sentencepiece /\ prompt[1] # Space)
    BY <2>1, <2>3
  <2>4. QED
    BY <2>2, <2>3
<1> HIDE DEF start
<1>4. \A v \in V, w \in V : v \o w \in V
  BY ConcatProperties
<1>5. Closed(V, G)
  <2>1. SUFFICES ASSUME NEW k \in Nat, NEW v \in V PROVE G[<<k, v>>] \in V
    BY DEF Closed
  <2>2. G[<<k, v>>] = IF k \in 1 .. L THEN More(v, k) ELSE v
    OBVIOUS
  <2> HIDE DEF G, V, L
  <2>3. QED
    BY <1>1, <1>4, <2>2
<1>6. PICK s : Stepwise(s, L, start, G, V)
  <2> HIDE DEF G, V, L
  <2>1. QED
    BY <1>1, <1>3, <1>5, StepwiseExists
<1>7. IsText(s)
  <2>1. ASSUME NEW k \in 1 .. L PROVE s[k] = More(s[k - 1], k)
    <3> HIDE DEF G, V, L, More
    <3>1. k \in Nat /\ k - 1 \in 0 .. L
      BY <1>1, <2>1
    <3>2. s[k - 1] \in V /\ s[k] = G[<<k, s[k - 1]>>]
      BY <1>6, <3>1 DEF Stepwise
    <3>3. QED
      BY <3>1, <3>2 DEF G
  <2>2. s[0] = start /\ s = [k \in 0 .. L |-> s[k]]
    BY <1>6 DEF Stepwise
  <2>3. \A k \in 0 .. L : k = 0 \/ k \in 1 .. L
    OBVIOUS
  <2> HIDE DEF L, More
  <2>4. QED
    BY <2>1, <2>2, <2>3
<1> DEFINE f == CHOOSE f : IsText(f)
<1>8. IsText(f)
  BY <1>7
<1>9. Preprocess(prompt) = f[L]
  BY DEF Preprocess, start
<1> HIDE DEF f
<1> DEFINE S == {k \in Nat : k <= L => /\ f[k] \in V /\ Len(f[k]) < MaxText
                                      /\ Len(f[k]) <= 3 + Sum(g, k)}
<1>10. 0 \in S
  <2>1. f[0] = start
    BY <1>1, <1>8
  <2>2. Sum(g, 0) = 0
    BY SumStep
  <2> HIDE DEF g, V, L
  <2>3. QED
    BY <1>3, <2>1, <2>2
<1>11. ASSUME NEW k \in Nat, k \in S PROVE k + 1 \in S
  <2>1. SUFFICES ASSUME k + 1 <= L
                 PROVE  /\ f[k + 1] \in V /\ Len(f[k + 1]) < MaxText
                        /\ Len(f[k + 1]) <= 3 + Sum(g, k + 1)
    OBVIOUS
  <2>2. k + 1 \in 0 .. L /\ k + 1 \in 1 .. L /\ k + 1 # 0 /\ k + 1 - 1 = k /\ k <= L
    BY <1>1, <2>1
  <2>3. f[k + 1] = More(f[k], k + 1)
    <3>1. \A o \in 0 .. L : f[o] = IF o = 0 THEN start ELSE More(f[o - 1], o)
      BY <1>8
    <3> HIDE DEF L, More
    <3>2. ASSUME NEW o \in 0 .. L, o # 0, o - 1 = k PROVE f[o] = More(f[k], o)
      BY <3>1, <3>2
    <3> PICK o : o = k + 1
      OBVIOUS
    <3>3. o \in 0 .. L /\ o # 0 /\ o - 1 = k
      BY <2>2
    <3>4. f[o] = More(f[k], o)
      BY <3>2, <3>3
    <3>5. QED
      BY <3>4
  <2>4. f[k] \in V /\ Prepared(prompt[k + 1]) \in V /\ f[k + 1] \in V
    BY <1>1, <1>4, <1>11, <2>2, <2>3
  <2>5. /\ Len(f[k]) \in Nat /\ Len(Prepared(prompt[k + 1])) \in Nat
        /\ Len(f[k + 1]) = IF Len(f[k]) < limit
                           THEN Len(f[k]) + Len(Prepared(prompt[k + 1]))
                           ELSE Len(f[k])
    BY <2>3, <2>4, ConcatProperties, LenProperties
  <2>6. Sum(g, k + 1) = Sum(g, k) + Width(prompt[k + 1])
    <3>1. Sum(g, k + 1) = Sum(g, k) + g[k]
      BY SumStep
    <3>2. k \in 0 .. L - 1
      BY <1>1, <2>2
    <3>3. g[k] = Width(prompt[k + 1])
      BY <3>2
    <3>4. QED
      BY <3>1, <3>3
  <2>7. /\ Sum(g, k) \in Nat /\ Width(prompt[k + 1]) \in Nat
        /\ Len(Prepared(prompt[k + 1])) <= Width(prompt[k + 1])
        /\ Len(f[k]) <= 3 + Sum(g, k) /\ Len(f[k]) < MaxText
    <3>1. k \in 0 .. L
      BY <1>1, <2>2
    <3>2. QED
      BY <1>1, <1>11, <1>2, <2>2, <3>1 DEF Width
  <2> HIDE DEF g, V, L
  <2>8. Len(f[k + 1]) <= 3 + Sum(g, k + 1)
    <3>1. \A m \in Nat, n \in Nat, c \in Nat, d \in Nat :
             m <= 3 + c /\ n <= d => m + n <= 3 + (c + d) /\ m <= 3 + (c + d)
      OBVIOUS
    <3> HIDE DEF limit
    <3>2. Len(f[k + 1]) <= 3 + (Sum(g, k) + Width(prompt[k + 1]))
      BY <2>5, <2>7, <3>1
    <3>3. QED
      BY <2>6, <3>2
  <2>9. Len(f[k + 1]) < MaxText
    <3> DEFINE n == Len(Prepared(prompt[k + 1]))
    <3>1. n \in Nat /\ n <= IF is_sentencepiece THEN 3 ELSE 2
      BY <2>5, PreparedFits
    <3> HIDE DEF n
    <3>2. Len(f[k]) \in Nat /\ Len(f[k]) < MaxText /\ MaxText \in Nat
      BY <2>5, <2>7, TokenizerAssumption
    <3>3. Len(f[k]) < limit => Len(f[k]) + n < MaxText
      <4>1. CASE is_sentencepiece
        BY <3>1, <3>2, <4>1
      <4>2. CASE ~ is_sentencepiece
        BY <3>1, <3>2, <4>2
      <4>3. QED
        BY <4>1, <4>2
    <3> HIDE DEF limit
    <3>4. QED
      BY <2>5, <3>2, <3>3 DEF n
  <2>10. QED
    BY <2>4, <2>8, <2>9
<1> HIDE DEF S
<1>12. L \in S
  BY <1>1, <1>10, <1>11, SetInduction
<1>13. QED
  <2>1. L <= L
    BY <1>1
  <2>2. Cost(prompt) = 3 + Sum(g, L)
    BY DEF Cost
  <2> HIDE DEF g, V, L
  <2>3. f[L] \in V /\ Len(f[L]) < MaxText /\ Len(f[L]) <= 3 + Sum(g, L)
    BY <1>12, <2>1 DEF S
  <2>4. QED
    BY <1>9, <2>2, <2>3 DEF V

-----------------------------------------------------------------------------
(* One token of the text. *)

LEMMA PrefixOfPrefix ==
    ASSUME NEW s \in Seq(Int), NEW t \in Seq(Int), NEW u \in Seq(Int),
           IsPrefixOf(s, t), IsPrefixOf(t, u), Len(s) # 0
    PROVE  IsPrefixOf(s, u)
<1>1. /\ Len(s) \in Nat \ {0} /\ Len(t) \in Nat /\ Len(u) \in Nat
      /\ Len(s) <= Len(t) /\ Len(t) <= Len(u)
      /\ SubSeq(t, 1, Len(s)) = s /\ SubSeq(u, 1, Len(t)) = t
  BY LenProperties DEF IsPrefixOf
<1>2. SubSeq(SubSeq(u, 1, Len(t)), 1, Len(s)) = SubSeq(u, 1, Len(s))
  <2> DEFINE n == Len(s)
             m == Len(t)
  <2>1. /\ 1 \in 1 .. Len(u) /\ m \in 1 .. Len(u) /\ 1 \in 1 .. m - 1 + 1
        /\ n \in 1 .. m - 1 + 1 /\ 1 + 1 - 1 = 1 /\ 1 + n - 1 = n
    BY <1>1
  <2> HIDE DEF n, m
  <2>2. SubSeq(SubSeq(u, 1, m), 1, n) = SubSeq(u, 1 + 1 - 1, 1 + n - 1)
    BY <2>1, SubSeqOfSubSeq
  <2>3. QED
    BY <2>1, <2>2 DEF n, m
<1>3. QED
  BY SMTT(30), <1>1, <1>2 DEF IsPrefixOf

\* The text, and how far tokenize has come in it.
InText == /\ preprocessed \in Seq(0 .. 255) /\ Len(preprocessed) < MaxText
          /\ at \in 0 .. Len(preprocessed)

LEMMA RestOfText ==
    ASSUME InText
    PROVE  /\ Len(preprocessed) \in Nat /\ at \in Nat
           /\ Rest(at) \in Seq(0 .. 255) /\ Rest(at) \in Seq(Int)
           /\ Len(Rest(at)) = Len(preprocessed) - at
           /\ \A l \in 1 .. Len(preprocessed) - at :
                 /\ Piece(l) \in Seq(Int) /\ Len(Piece(l)) = l
                 /\ Piece(l) = SubSeq(Rest(at), 1, l)
           /\ at < Len(preprocessed) =>
                 /\ Rest(at) # <<>> /\ Head(Rest(at)) = preprocessed[at + 1]
                 /\ preprocessed[at + 1] \in 0 .. 255
<1> DEFINE L == Len(preprocessed)
<1>1. L \in Nat /\ at \in Nat /\ at <= L /\ \A k \in 1 .. L : preprocessed[k] \in 0 .. 255
  BY LenProperties, ElementOfSeq DEF InText
<1>0. /\ \A k \in 1 .. L : preprocessed[k] \in Int
      /\ at < L => preprocessed[at + 1] \in 0 .. 255
  <2>1. \A j \in 0 .. 255 : j \in Int
    OBVIOUS
  <2>2. at < L => at + 1 \in 1 .. L
    BY <1>1
  <2> HIDE DEF L
  <2>3. QED
    BY <1>1, <2>1, <2>2
<1>2. /\ Rest(at) \in Seq(0 .. 255) /\ Len(Rest(at)) = L - at
      /\ \A k \in 1 .. L - at : Rest(at)[k] = preprocessed[at + k]
  <2>1. at + 1 \in Int /\ L \in Int /\ \A k \in at + 1 .. L : preprocessed[k] \in 0 .. 255
    BY <1>1
  <2>2. /\ Rest(at) \in Seq(0 .. 255)
        /\ Len(Rest(at)) = IF at + 1 <= L THEN L - (at + 1) + 1 ELSE 0
        /\ \A k \in 1 .. L - (at + 1) + 1 : Rest(at)[k] = preprocessed[at + 1 + k - 1]
    BY <2>1, SubSeqProperties DEF Rest
  <2>3. Len(Rest(at)) = L - at
    BY <1>1, <2>2
  <2>4. ASSUME NEW k \in 1 .. L - at PROVE Rest(at)[k] = preprocessed[at + k]
    <3>1. k \in 1 .. L - (at + 1) + 1 /\ at + 1 + k - 1 = at + k
      BY <1>1
    <3>2. QED
      BY <2>2, <3>1
  <2>5. QED
    BY <2>2, <2>3, <2>4
<1>3. ASSUME NEW l \in 1 .. L - at
      PROVE  /\ Piece(l) \in Seq(Int) /\ Len(Piece(l)) = l
             /\ Piece(l) = SubSeq(Rest(at), 1, l)
  <2>1. /\ at + 1 \in Int /\ at + l \in Int /\ l \in Nat /\ at + 1 <= at + l
        /\ at + l - (at + 1) + 1 = l
        /\ \A k \in at + 1 .. at + l : k \in 1 .. L
    BY <1>1, <1>3
  <2>7. \A k \in at + 1 .. at + l : preprocessed[k] \in Int
    BY <1>0, <2>1
  <2>2. Piece(l) \in Seq(Int) /\ Len(Piece(l)) = l
    <3> DEFINE m == at + 1
               n == at + l
    <3>1. m \in Int /\ n \in Int /\ m <= n /\ n - m + 1 = l
      <4>1. at \in Int /\ l \in Int /\ l >= 1
        BY <1>1, <2>1, <1>3
      <4>2. QED
        BY <4>1
    <3>4. \A k \in m .. n : preprocessed[k] \in Int
      BY <2>7
    <3> HIDE DEF L, m, n
    <3>2. /\ SubSeq(preprocessed, m, n) \in Seq(Int)
          /\ Len(SubSeq(preprocessed, m, n)) = IF m <= n THEN n - m + 1 ELSE 0
      BY <3>1, <3>4, SubSeqProperties
    <3>3. QED
      <4>1. Piece(l) = SubSeq(preprocessed, m, n)
        BY DEF Piece, m, n
      <4>2. QED
        BY <3>1, <3>2, <4>1
  <2>3. /\ at + 1 \in 1 .. L /\ L \in 1 .. L /\ 1 \in 1 .. L - (at + 1) + 1
        /\ l \in 1 .. L - (at + 1) + 1
        /\ at + 1 + 1 - 1 = at + 1 /\ at + 1 + l - 1 = at + l
    BY <1>1, <1>3
  <2>4. SubSeq(SubSeq(preprocessed, at + 1, L), 1, l)
        = SubSeq(preprocessed, at + 1 + 1 - 1, at + 1 + l - 1)
    <3>1. preprocessed \in Seq(0 .. 255)
      BY DEF InText
    <3> HIDE DEF L
    <3>2. QED
      BY SMTT(30), <2>3, <3>1, SubSeqOfSubSeq
  <2>5. Piece(l) = SubSeq(Rest(at), 1, l)
    BY <2>3, <2>4 DEF Piece, Rest
  <2>6. QED
    BY <2>1, <2>2, <2>5
<1>4. Rest(at) \in Seq(Int)
  <2>1. 0 .. 255 \subseteq Int
    OBVIOUS
  <2>2. QED
    BY <1>2, <2>1, SeqMonotonic
<1>5. ASSUME at < L PROVE Rest(at) # <<>> /\ Head(Rest(at)) = preprocessed[at + 1]
  <2>1. 1 \in 1 .. L - at /\ Len(Rest(at)) # 0
    BY <1>1, <1>2, <1>5
  <2>2. Rest(at) # <<>> /\ Head(Rest(at)) = Rest(at)[1]
    BY <1>2, <2>1, EmptySeq
  <2>3. QED
    BY <1>2, <2>1, <2>2
<1>6. QED
  BY <1>0, <1>1, <1>2, <1>3, <1>4, <1>5

\* The longest match is one, and lies within the text.
LEMMA LongestMatches ==
    ASSUME InText, Matches # {}
    PROVE  LET longest == CHOOSE l \in Matches : \A o \in Matches : o <= l
           IN  /\ longest \in 1 .. Len(preprocessed) - at
               /\ longest \in Matches /\ Find(Piece(longest)) # -1
<1>1. Len(preprocessed) - at \in Int /\ Matches \in SUBSET Int
      /\ \A l \in Matches : l <= Len(preprocessed) - at
  BY RestOfText DEF Matches
<1>2. Greatest(Matches) \in Matches
  BY <1>1, GreatestOf
<1>3. Greatest(Matches) = CHOOSE l \in Matches : \A o \in Matches : o <= l
  BY DEF Greatest
<1>4. QED
  BY <1>2, <1>3 DEF Matches

LEMMA NextTokenAdvances ==
    ASSUME InText, at < Len(preprocessed)
    PROVE  NextToken.len \in 1 .. Len(preprocessed) - at
<1>1. CASE Matches # {}
  BY <1>1, LongestMatches DEF NextToken
<1>2. CASE Matches = {}
  BY <1>2, RestOfText DEF NextToken
<1>3. QED
  BY <1>1, <1>2

LEMMA NameIsBytes == \A b \in 0 .. 255 : ByteName(b) \in Seq(Int)
<1> SUFFICES ASSUME NEW b \in 0 .. 255 PROVE ByteName(b) \in Seq(Int)
  OBVIOUS
<1>1. b \div 16 \in Int /\ b % 16 \in Int
  OBVIOUS
<1>2. \A d \in Int : Digit(d) \in Int
  BY DEF Digit
<1>3. Digit(b \div 16) \in Int /\ Digit(b % 16) \in Int
  BY <1>1, <1>2
<1>4. QED
  BY <1>3 DEF ByteName

LEMMA NextTokenIsId ==
    ASSUME InText, at < Len(preprocessed), VocabCounted, TableIsVocab
    PROVE  NextToken.id \in Ids \cup {params.unk_token_id}
<1> DEFINE named == Find(ByteName(preprocessed[at + 1]))
<1>1. named # -1 => named \in Ids
  <2>1. preprocessed[at + 1] \in 0 .. 255
    BY RestOfText
  <2>2. QED
    BY <2>1, NameIsBytes, FindIsHas
<1>2. ASSUME NEW l \in Matches PROVE Find(Piece(l)) \in Ids
  <2>1. l \in 1 .. Len(preprocessed) - at /\ Find(Piece(l)) # -1
    BY <1>2 DEF Matches
  <2>2. QED
    BY <2>1, RestOfText, FindIsHas
<1>3. CASE Matches # {}
  BY <1>2, <1>3, LongestMatches DEF NextToken
<1>4. CASE Matches = {}
  BY <1>1, <1>4 DEF NextToken
<1>5. QED
  BY <1>3, <1>4

\* Where a token's string begins, one does that tokenize can look up.
Covered == \A t \in Ids : \E u \in Ids : /\ Len(String(u)) \in 1 .. MaxMatch
                                         /\ IsPrefixOf(String(u), String(t))

LEMMA NextTokenSpells ==
    ASSUME InText, at < Len(preprocessed), VocabCounted, TableIsVocab, Covered
    PROVE  NextToken.len \in Widths(NextToken.id, at)
<1> DEFINE rest == Rest(at)
           longest == CHOOSE l \in Matches : \A o \in Matches : o <= l
           named == Find(ByteName(preprocessed[at + 1]))
<1>1. CASE Matches # {}
  <2> DEFINE t == Find(Piece(longest))
  <2>1. /\ NextToken.id = t /\ NextToken.len = longest
        /\ longest \in 1 .. Len(preprocessed) - at /\ t # -1
    BY <1>1, LongestMatches DEF NextToken
  <2> HIDE DEF longest
  <2>2. t \in Ids /\ String(t) = Piece(longest)
    BY <2>1, RestOfText, FindIsHas
  <2>3. /\ Len(Piece(longest)) = longest /\ longest <= Len(rest)
        /\ SubSeq(rest, 1, longest) = Piece(longest)
    BY <2>1, RestOfText
  <2> HIDE DEF t, rest
  <2>4. IsPrefixOf(String(t), rest) /\ Len(String(t)) = longest
    BY <2>2, <2>3 DEF IsPrefixOf
  <2>5. QED
    BY <2>1, <2>4 DEF Widths, rest
<1>2. CASE Matches = {}
  <2>1. \A u \in Ids : ~ IsPrefixOf(String(u), rest)
    <3>1. SUFFICES ASSUME NEW t \in Ids, IsPrefixOf(String(t), rest) PROVE FALSE
      OBVIOUS
    <3>2. PICK u \in Ids : /\ Len(String(u)) \in 1 .. MaxMatch
                           /\ IsPrefixOf(String(u), String(t))
      BY DEF Covered
    <3>3. String(u) \in Seq(Int) /\ String(t) \in Seq(Int) /\ rest \in Seq(Int)
      BY StringsAreBytes, RestOfText
    <3> DEFINE l == Len(String(u))
    <3>4. l \in Nat /\ l # 0 /\ l <= MaxMatch
      BY <3>2, TokenizerAssumption
    <3>5. IsPrefixOf(String(u), rest)
      BY <3>1, <3>2, <3>3, <3>4, PrefixOfPrefix
    <3>6. l <= Len(preprocessed) - at /\ SubSeq(rest, 1, l) = String(u)
      BY <3>5, RestOfText DEF IsPrefixOf
    <3>7. l \in 1 .. Len(preprocessed) - at
      BY <3>4, <3>6, RestOfText
    <3>8. Piece(l) = String(u)
      BY <3>6, <3>7, RestOfText
    <3>9. Find(Piece(l)) # -1
      BY <3>2, <3>3, <3>8, FindIsHas DEF Has
    <3>10. QED
      BY <1>2, <3>4, <3>7, <3>9 DEF Matches
  <2>2. rest # <<>> /\ Head(rest) = preprocessed[at + 1]
    BY RestOfText
  <2>3. /\ NextToken.len = 1
        /\ NextToken.id = IF is_sentencepiece /\ named # -1 THEN named
                          ELSE params.unk_token_id
    BY <1>2 DEF NextToken
  <2>4. /\ named # -1 => named \in Ids /\ String(named) = ByteName(Head(rest))
        /\ named # -1 <=> Has(ByteName(Head(rest)))
    <3>1. preprocessed[at + 1] \in 0 .. 255
      BY RestOfText
    <3>2. QED
      BY <2>2, <3>1, NameIsBytes, FindIsHas
  <2> HIDE DEF named, rest
  <2>5. QED
    BY <2>1, <2>2, <2>3, <2>4 DEF Widths, rest
<1>3. QED
  BY <1>1, <1>2

-----------------------------------------------------------------------------
(* The text and its tokens. *)

\* The start token, if there is one, and the one for an unknown byte exist.
IdsUsable == /\ params.unk_token_id \in Ids
             /\ params.add_bos_token # 0 => params.bos_token_id \in Ids

\* There are offsets, from the text's start to where tokenize has come, that
\* lie a width of the token between them apart.
Spelled ==
    LET skip == Len(StartTokens)
        n == Len(tokens) - skip
    IN  \E o : /\ o[0] = 0 /\ o[n] = at
               /\ \A k \in 1 .. n :
                     \E w \in Widths(tokens[k + skip], o[k - 1]) :
                        o[k] = o[k - 1] + w

\* What gguf_init leaves tokenize to work with.
Stages == /\ stage \in {"pairs", "table", "loaded", "failed", "undone"}
          /\ phase # "boot" => stage \in {"loaded", "failed"}
          /\ stage \in {"pairs", "table"} => table = <<>>
          /\ vocab \in Seq(Seq(0 .. 255))
          /\ VocabCounted => TableIsVocab

\* Either no command has come, or tokenize has come this far with the last one.
Fresh == /\ phase \in {"boot", "shell"}
         /\ tokens = <<>> /\ preprocessed = <<>> /\ at = 0
Underway == /\ phase # "boot"
            /\ Len(tokens) \in Len(StartTokens) .. Len(StartTokens) + at
            /\ VocabCounted /\ Covered => Spelled

TextInv == /\ Stages /\ InText
           /\ Fresh \/ Underway
           /\ VocabCounted /\ IdsUsable =>
                 \A k \in 1 .. Len(tokens) : tokens[k] \in Ids

\* What is printed, and how much of it.
RunInv ==
    /\ visible \in BOOLEAN /\ steps \in 0 .. MaxTokens /\ Len(output) = steps
    /\ phase = "boot" => output = <<>>
    /\ phase \in {"tokenize", "prefill", "generate", "sample"}
          => steps < MaxTokens
    /\ \A k \in 1 .. Len(output) : output[k] \in Ids
    /\ chosen # NoToken => chosen \in Ids
    /\ phase = "sample" /\ chosen = NoToken => Cells = Ids

LEMMA WidthsStay ==
    ASSUME UNCHANGED <<params, vocab, is_sentencepiece, preprocessed>>
    PROVE  \A t, p : Widths(t, p)' = Widths(t, p)
BY DEF Widths, IsPrefixOf, String, Rest, Ids, Has

LEMMA SpelledStays ==
    ASSUME UNCHANGED tokenVars, params' = params, vocab' = vocab, Spelled
    PROVE  Spelled'
<1>1. StartTokens' = StartTokens /\ tokens' = tokens /\ at' = at
  BY DEF tokenVars, StartTokens
<1>2. \A t, p : Widths(t, p)' = Widths(t, p)
  BY WidthsStay DEF tokenVars
<1>3. QED
  BY <1>1, <1>2 DEF Spelled

LEMMA SpelledGrows ==
    ASSUME InText, at < Len(preprocessed), VocabCounted, TableIsVocab, Covered,
           IsSeq(tokens), Len(StartTokens) \in Nat,
           Len(tokens) >= Len(StartTokens),
           Spelled, TokenizeStep, params' = params, vocab' = vocab
    PROVE  Spelled'
<1>1. PICK skip : skip = Len(StartTokens)
  OBVIOUS
<1>2. PICK n : n = Len(tokens) - skip
  OBVIOUS
<1>3. StartTokens' = StartTokens
  BY DEF StartTokens
<1>4. \A t, p : Widths(t, p)' = Widths(t, p)
  BY WidthsStay DEF TokenizeStep
<1>5. PICK w : w = NextToken.len
  OBVIOUS
<1>6. PICK i : i = NextToken.id
  OBVIOUS
<1>7. /\ w \in Widths(i, at) /\ at' = at + w /\ tokens' = Append(tokens, i)
  BY <1>5, <1>6, NextTokenSpells DEF TokenizeStep
<1>8. /\ Len(tokens) \in Nat /\ Len(tokens') = Len(tokens) + 1
      /\ \A k \in 1 .. Len(tokens) : tokens'[k] = tokens[k]
      /\ tokens'[Len(tokens) + 1] = i
  BY <1>7, Appended
<1>9. PICK o : /\ o[0] = 0 /\ o[n] = at
               /\ \A k \in 1 .. n : \E x \in Widths(tokens[k + skip], o[k - 1]) :
                     o[k] = o[k - 1] + x
  BY <1>1, <1>2 DEF Spelled
<1>10. n \in Nat /\ skip \in Nat /\ Len(tokens) = n + skip
  BY <1>8, <1>1, <1>2
<1>11. PICK u : u = [k \in 0 .. n + 1 |-> IF k = n + 1 THEN at + w ELSE o[k]]
  OBVIOUS
<1>12. u[n + 1] = at + w /\ \A k \in 0 .. n : u[k] = o[k]
  BY <1>10, <1>11
<1>13. u[0] = 0 /\ 0 \in 0 .. n
  BY <1>9, <1>10, <1>12
<1>14. ASSUME NEW k \in 1 .. n + 1
       PROVE  \E x \in Widths(tokens'[k + skip], u[k - 1]) : u[k] = u[k - 1] + x
  <2>1. CASE k = n + 1
    <3>1. /\ k - 1 = n /\ n \in 0 .. n /\ k + skip = Len(tokens) + 1
      BY <1>10, <2>1
    <3>2. u[k - 1] = at /\ u[k] = at + w /\ tokens'[k + skip] = i
      BY <1>8, <1>9, <1>12, <2>1, <3>1
    <3>3. QED
      BY <1>7, <3>2
  <2>2. CASE k # n + 1
    <3>1. /\ k \in 1 .. n /\ k \in 0 .. n /\ k - 1 \in 0 .. n
          /\ k + skip \in 1 .. Len(tokens)
      BY <1>10, <2>2
    <3>2. u[k - 1] = o[k - 1] /\ u[k] = o[k] /\ tokens'[k + skip] = tokens[k + skip]
      BY <1>8, <1>12, <3>1
    <3>3. QED
      BY <1>9, <3>1, <3>2
  <2>3. QED
    BY <2>1, <2>2
<1>15. Len(tokens') - skip = n + 1
  BY <1>8, <1>10
<1>16. PICK T : T = tokens'
  OBVIOUS
<1>17. /\ u[0] = 0 /\ u[Len(T) - skip] = at'
       /\ \A k \in 1 .. Len(T) - skip :
             \E x \in Widths(T[k + skip], u[k - 1])' : u[k] = u[k - 1] + x
  <2>1. u[0] = 0 /\ u[Len(T) - skip] = at'
    BY <1>7, <1>12, <1>13, <1>15, <1>16
  <2>2. \A k \in 1 .. n + 1 :
           \E x \in Widths(T[k + skip], u[k - 1]) : u[k] = u[k - 1] + x
    BY <1>14, <1>16
  <2>3. QED
    BY <1>4, <1>15, <1>16, <2>1, <2>2
<1>18. /\ u[(Len(tokens) - Len(StartTokens))'] = at'
       /\ \A k \in 1 .. (Len(tokens) - Len(StartTokens))' :
             \E x \in Widths(tokens[k + Len(StartTokens)], u[k - 1])' :
                u[k] = u[k - 1] + x
  BY <1>1, <1>3, <1>16, <1>17
<1>19. QED
  BY <1>17, <1>18 DEF Spelled

LEMMA TextInit == Init => TextInv
<1> SUFFICES ASSUME Init PROVE TextInv
  OBVIOUS
<1>1. Stages
  BY EmptySeq DEF Init, ModelInit, Stages, TableIsVocab
<1>2. InText /\ Fresh
  BY EmptySeq, TokenizerAssumption DEF Init, InText, Fresh
<1>3. QED
  BY <1>1, <1>2 DEF TextInv, Fresh

LEMMA TextBoot == SortInv /\ TextInv /\ Boot => TextInv'
<1> SUFFICES ASSUME SortInv, TextInv, Boot PROVE TextInv'
  OBVIOUS
<1>1. phase = "boot" /\ Fresh /\ Stages /\ InText /\ VocabSize
  BY DEF Boot, StartShell, TextInv, Underway, SortInv
<1>2. phase' \in {"boot", "shell"} /\ UNCHANGED <<tokens, preprocessed, at>>
  BY <1>1 DEF Boot, NotRunning, StartShell, runVars, tokenVars, BuildTable
<1>3. InText' /\ Fresh'
  BY <1>1, <1>2 DEF InText, Fresh
<1>4. Stages'
  <2>1. CASE ReadPair /\ UNCHANGED tokenVars /\ NotRunning
    <3>1. stage = "pairs" /\ stage' \in {"pairs", "undone"} /\ table = <<>>
          /\ table' = table /\ phase' = phase
      BY <2>1, <1>1 DEF ReadPair, Stages, tokenVars, NotRunning, runVars
    <3>2. vocab' \in Seq(Seq(0 .. 255))
      <4>1. Head(pairs) \in Pairs
        BY <2>1, <1>1, HeadTailProperties DEF ReadPair, VocabSize
      <4>2. ASSUME Head(pairs).key = "tokens"
            PROVE  Head(pairs).value \in Seq(Seq(0 .. 255))
        <5>1. ~ (Head(pairs) \in [key : DOMAIN Defaults \cup {"scores", "other"},
                                   value : Int])
          BY <4>2 DEF Defaults
        <5>2. Head(pairs) \in [key : {"tokens"}, value : Seq(Seq(0 .. 255))]
          BY <4>1, <5>1 DEF Pairs
        <5>3. QED
          BY <5>2
      <4>3. QED
        BY <2>1, <1>1, <4>2, EmptySeq DEF ReadPair, Stages
    <3>3. QED
      BY <1>1, <3>1, <3>2 DEF Stages, TableIsVocab
  <2>2. CASE AllocateBuffers /\ UNCHANGED tokenVars /\ NotRunning
    BY <2>2, <1>1 DEF AllocateBuffers, Stages, tokenVars, NotRunning, runVars,
                      TableIsVocab
  <2>3. CASE BuildTable /\ NotRunning
    <3>1. /\ stage = "table" /\ stage' \in {"loaded", "undone"} /\ table = <<>>
          /\ vocab' = vocab /\ phase' = phase
      BY <2>3, <1>1 DEF BuildTable, Stages, NotRunning, runVars
    <3>2. params'.vocab_size = params.vocab_size
      BY <2>3, <1>1 DEF BuildTable, VocabSize, Defaults
    <3>3. ASSUME VocabCounted' PROVE TableIsVocab'
      <4>1. VocabCounted
        BY <3>1, <3>2, <3>3 DEF VocabCounted
      <4>2. CASE table' = <<>>
        BY <4>2 DEF TableIsVocab
      <4>3. CASE table' = [h \in 0 .. HashSize - 1 |-> Chain(h)]
        <5>1. ASSUME NEW h \in 0 .. HashSize - 1
              PROVE  InBucket(table[h], params.vocab_size, h)'
          <6>1. PICK c : c = Chain(h)
            OBVIOUS
          <6>2. InBucket(c, params.vocab_size, h)
            BY <4>1, <6>1, ChainIsBucket
          <6>3. table'[h] = c
            BY <4>3, <6>1
          <6>4. QED
            BY <3>1, <3>2, <6>2, <6>3 DEF InBucket, Ids, String
        <5>2. QED
          BY <5>1 DEF TableIsVocab
      <4>4. QED
        BY <2>3, <3>1, <4>2, <4>3 DEF BuildTable
    <3>4. QED
      BY <1>1, <3>1, <3>3 DEF Stages
  <2>4. CASE StartShell
    BY <2>4, <1>1 DEF StartShell, Stages, modelVars, tokenVars, VocabCounted,
                      TableIsVocab, InBucket, String, Ids
  <2>5. QED
    BY <2>1, <2>2, <2>3, <2>4 DEF Boot
<1>5. QED
  BY <1>3, <1>4 DEF TextInv, Fresh

\* A step that leaves the model and the text alone.
LEMMA TextStays ==
    ASSUME TextInv, UNCHANGED <<modelVars, tokenVars>>,
           phase' = phase \/ (phase' # "boot" /\ Underway)
    PROVE  TextInv'
<1>1. /\ UNCHANGED <<stage, params, vocab, table, is_sentencepiece, preprocessed,
                     at, tokens>>
  BY DEF modelVars, tokenVars
<1>2. Stages'
  BY <1>1 DEF TextInv, Stages, Underway, VocabCounted, TableIsVocab, InBucket,
              String, Ids
<1>3. InText'
  BY <1>1 DEF TextInv, InText
<1>4. Underway => Underway'
  <2>1. SUFFICES ASSUME Underway PROVE Underway'
    OBVIOUS
  <2>2. StartTokens' = StartTokens
    BY <1>1 DEF StartTokens
  <2>3. VocabCounted' /\ Covered' => Spelled
    BY <1>1, <2>1 DEF Underway, VocabCounted, Covered, IsPrefixOf, String, Ids
  <2>4. QED
    BY <1>1, <2>1, <2>2, <2>3, SpelledStays DEF Underway
<1>5. Fresh /\ phase' = phase => Fresh'
  BY <1>1 DEF Fresh
<1>6. VocabCounted' /\ IdsUsable'
         => \A k \in 1 .. Len(tokens') : tokens'[k] \in Ids'
  BY <1>1 DEF TextInv, VocabCounted, IdsUsable, Ids
<1>7. QED
  BY <1>2, <1>3, <1>4, <1>5, <1>6 DEF TextInv

LEMMA StartTokensAre ==
    /\ StartTokens = <<>> \/ StartTokens = <<params.bos_token_id>>
    /\ Len(StartTokens) \in {0, 1}
    /\ params.add_bos_token = 0 => StartTokens = <<>>
BY EmptySeq DEF StartTokens

LEMMA TextStartLlm ==
    ASSUME TextInv, NEW prompt \in Prompts, StartLlm(prompt)
    PROVE  TextInv'
<1>1. /\ UNCHANGED <<stage, params, vocab, table, is_sentencepiece>>
      /\ preprocessed' = Preprocess(prompt) /\ at' = 0 /\ tokens' = StartTokens
      /\ phase = "shell" /\ phase' # "boot"
  BY DEF StartLlm, modelVars
<1>2. Stages'
  BY <1>1 DEF TextInv, Stages, VocabCounted, TableIsVocab, InBucket, String, Ids
<1>3. InText'
  <2>1. preprocessed' \in Seq(0 .. 255) /\ Len(preprocessed') < MaxText
    BY <1>1, PreprocessIsBytes
  <2>2. QED
    BY <1>1, <2>1, LenProperties DEF InText
<1>4. StartTokens' = StartTokens /\ Len(StartTokens) \in {0, 1}
  BY <1>1, StartTokensAre DEF StartTokens
<1>5. Spelled'
  <2>1. PICK o : o = [k \in {0} |-> 0]
    OBVIOUS
  <2>2. o[0] = 0 /\ (Len(tokens) - Len(StartTokens))' = 0 /\ at' = 0
    BY <1>1, <1>4, <2>1
  <2>3. QED
    BY <2>2 DEF Spelled
<1>6. Underway'
  BY <1>1, <1>4, <1>5 DEF Underway
<1>7. ASSUME IdsUsable' PROVE \A k \in 1 .. Len(tokens') : tokens'[k] \in Ids'
  BY <1>1, <1>7, StartTokensAre DEF IdsUsable, Ids
<1>8. QED
  BY <1>2, <1>3, <1>6, <1>7 DEF TextInv

LEMMA TextTokenize ==
    ASSUME CacheInv, TextInv, Tokenize
    PROVE  TextInv'
<1>1. /\ UNCHANGED <<stage, params, vocab, table, is_sentencepiece, preprocessed,
                     phase>>
      /\ phase = "tokenize" /\ at < Len(preprocessed) /\ TokenizeStep
  BY DEF Tokenize, TokenizeStep, modelVars, runVars
<1>2. PICK i : i = NextToken.id
  OBVIOUS
<1>3. PICK w : w = NextToken.len
  OBVIOUS
<1>4. /\ tokens' = Append(tokens, i) /\ at' = at + w
      /\ w \in 1 .. Len(preprocessed) - at /\ IsSeq(tokens)
  BY <1>1, <1>2, <1>3, NextTokenAdvances DEF TokenizeStep, TextInv, CacheInv,
     Progress
<1>5. /\ Len(tokens) \in Nat /\ Len(tokens') = Len(tokens) + 1
      /\ \A k \in 1 .. Len(tokens) : tokens'[k] = tokens[k]
      /\ tokens'[Len(tokens) + 1] = i
  BY <1>4, Appended
<1>6. Underway /\ InText /\ Stages
  BY <1>1 DEF TextInv, Fresh
<1>7. at \in Nat /\ Len(preprocessed) \in Nat /\ Len(StartTokens) \in Nat
  BY <1>6, StartTokensAre, LenProperties DEF InText
<1>8. Stages'
  BY <1>1, <1>6 DEF Stages, VocabCounted, TableIsVocab, InBucket, String, Ids
<1>9. InText'
  BY <1>1, <1>4, <1>6, <1>7 DEF InText
<1>10. Underway'
  <2>1. StartTokens' = StartTokens
    BY <1>1 DEF StartTokens
  <2>2. Len(tokens') \in Len(StartTokens) .. Len(StartTokens) + at'
    BY <1>4, <1>5, <1>6, <1>7 DEF Underway
  <2>3. ASSUME VocabCounted', Covered' PROVE Spelled'
    <3>1. VocabCounted /\ Covered
      BY <1>1, <2>3 DEF VocabCounted, Covered, IsPrefixOf, String, Ids
    <3>2. Spelled /\ TableIsVocab /\ Len(tokens) >= Len(StartTokens)
      BY <1>5, <1>6, <1>7, <3>1 DEF Underway, Stages
    <3>3. QED
      BY <1>1, <1>4, <1>6, <1>7, <3>1, <3>2, SpelledGrows
  <2>4. QED
    BY <1>1, <2>1, <2>2, <2>3 DEF Underway
<1>11. ASSUME VocabCounted', IdsUsable'
       PROVE  \A k \in 1 .. Len(tokens') : tokens'[k] \in Ids'
  <2>1. VocabCounted /\ IdsUsable /\ Ids' = Ids
    BY <1>1, <1>11 DEF VocabCounted, IdsUsable, Ids
  <2>2. i \in Ids
    BY <1>1, <1>2, <1>6, <2>1, NextTokenIsId DEF Stages, IdsUsable
  <2>3. \A k \in 1 .. Len(tokens) : tokens[k] \in Ids
    BY <2>1 DEF TextInv
  <2>4. \A k \in 1 .. Len(tokens) + 1 : k \in 1 .. Len(tokens) \/ k = Len(tokens) + 1
    BY <1>5
  <2>5. QED
    BY <1>5, <2>1, <2>2, <2>3, <2>4
<1>12. QED
  BY <1>8, <1>9, <1>10, <1>11 DEF TextInv

LEMMA TextNext ==
    SortInv /\ CacheInv /\ TextInv /\ [Next]_vars => TextInv'
<1> SUFFICES ASSUME SortInv, CacheInv, TextInv, [Next]_vars PROVE TextInv'
  OBVIOUS
<1>1. CASE Boot
  BY <1>1, TextBoot
<1>2. CASE \E prompt \in Prompts : StartLlm(prompt)
  BY <1>2, TextStartLlm
<1>3. CASE Tokenize
  BY <1>3, TextTokenize
<1>4. CASE StartPrefill \/ Prefill \/ StartGenerate \/ Sample \/ Stop \/ PrintToken
           \/ \E w \in [Ids -> Weights], enough \in BOOLEAN : Generate(w, enough)
  <2>1. /\ UNCHANGED <<modelVars, tokenVars>>
        /\ phase \in {"tokenize", "prefill", "generate", "sample"}
        /\ phase' # "boot"
    BY <1>4 DEF StartPrefill, Prefill, StartGenerate, Sample, Stop, PrintToken,
       Emit, Generate, runVars
  <2>2. Underway
    BY <2>1 DEF TextInv, Fresh
  <2>3. QED
    BY <2>1, <2>2, TextStays
<1>5. CASE UNCHANGED vars
  BY <1>5, TextStays DEF vars, runVars
<1>6. QED
  BY <1>1, <1>2, <1>3, <1>4, <1>5 DEF Next, Llm

-----------------------------------------------------------------------------
(* What is spelled is within reach. *)

\* The function Reach is defined by, on 0 .. n.
IsReach(r, n) ==
    r = [k \in 0 .. n |->
            IF k = 0 THEN {0}
            ELSE UNION {{o + w : w \in Widths(tokens[k + Len(StartTokens)], o)} :
                           o \in r[k - 1]}]

LEMMA ReachExists == \A n \in Nat : \E r : IsReach(r, n)
<1> DEFINE S == {n \in Nat : \E r : IsReach(r, n)}
           Beyond(k, A) ==
               UNION {{o + w : w \in Widths(tokens[k + Len(StartTokens)], o)} :
                         o \in A}
<1>1. 0 \in S
  <2>1. IsReach([k \in 0 .. 0 |-> {0}], 0)
    BY DEF IsReach
  <2>2. QED
    BY <2>1
<1>2. ASSUME NEW n \in Nat, n \in S PROVE n + 1 \in S
  <2>1. PICK s : IsReach(s, n)
    BY <1>2
  <2>2. \A k \in 0 .. n : s[k] = IF k = 0 THEN {0} ELSE Beyond(k, s[k - 1])
    BY <2>1 DEF IsReach
  <2> HIDE DEF Beyond
  <2> DEFINE t == [k \in 0 .. n + 1 |->
                      IF k = n + 1 THEN Beyond(n + 1, s[n]) ELSE s[k]]
  <2>3. t[n + 1] = Beyond(n + 1, s[n]) /\ \A k \in 0 .. n : t[k] = s[k]
    OBVIOUS
  <2>4. t = [k \in 0 .. n + 1 |-> t[k]]
    OBVIOUS
  <2> HIDE DEF t
  <2>5. ASSUME NEW k \in 0 .. n + 1
        PROVE  t[k] = IF k = 0 THEN {0} ELSE Beyond(k, t[k - 1])
    <3>1. CASE k = n + 1
      <4>1. k # 0 /\ k - 1 = n /\ n \in 0 .. n
        BY <3>1
      <4>2. QED
        BY <2>3, <3>1, <4>1
    <3>2. CASE k # n + 1
      <4>1. k \in 0 .. n /\ (k # 0 => k - 1 \in 0 .. n)
        BY <3>2
      <4>2. QED
        BY <2>2, <2>3, <4>1
    <3>3. QED
      BY <3>1, <3>2
  <2>6. t = [k \in 0 .. n + 1 |-> IF k = 0 THEN {0} ELSE Beyond(k, t[k - 1])]
    BY <2>4, <2>5
  <2>7. IsReach(t, n + 1)
    BY <2>6 DEF IsReach, Beyond
  <2>8. QED
    BY <2>7
<1> HIDE DEF S
<1>3. Nat \subseteq S
  BY <1>1, <1>2, SetInduction
<1>4. QED
  BY <1>3 DEF S

LEMMA SpelledIsReach ==
    ASSUME Spelled, Len(tokens) - Len(StartTokens) \in Nat
    PROVE  at \in Reach
<1> DEFINE skip == Len(StartTokens)
<1>1. PICK n : n = Len(tokens) - skip
  OBVIOUS
<1>2. n \in Nat
  BY <1>1
<1> DEFINE r == CHOOSE r : IsReach(r, n)
<1>3. IsReach(r, n)
  BY <1>2, ReachExists
<1>4. Reach = r[n]
  BY <1>1 DEF Reach, IsReach
<1> HIDE DEF r
<1>5. /\ r[0] = {0}
      /\ \A k \in 1 .. n :
            r[k] = UNION {{o + w : w \in Widths(tokens[k + skip], o)} :
                             o \in r[k - 1]}
  <2>1. \A k \in 0 .. n :
           r[k] = IF k = 0 THEN {0}
                  ELSE UNION {{o + w : w \in Widths(tokens[k + skip], o)} :
                                 o \in r[k - 1]}
    <3> DEFINE Beyond(k, A) ==
                   UNION {{o + w : w \in Widths(tokens[k + skip], o)} : o \in A}
    <3>1. r = [k \in 0 .. n |-> IF k = 0 THEN {0} ELSE Beyond(k, r[k - 1])]
      BY <1>3 DEF IsReach
    <3> HIDE DEF Beyond
    <3>2. \A k \in 0 .. n : r[k] = IF k = 0 THEN {0} ELSE Beyond(k, r[k - 1])
      BY <3>1
    <3>3. QED
      BY <3>2 DEF Beyond
  <2>2. 0 \in 0 .. n /\ \A k \in 1 .. n : k \in 0 .. n /\ k # 0
    BY <1>2
  <2>3. QED
    BY <2>1, <2>2
<1>6. PICK o : /\ o[0] = 0 /\ o[n] = at
               /\ \A k \in 1 .. n : \E w \in Widths(tokens[k + skip], o[k - 1]) :
                     o[k] = o[k - 1] + w
  BY <1>1 DEF Spelled
<1> DEFINE S == {k \in Nat : k <= n => o[k] \in r[k]}
<1>7. 0 \in S
  BY <1>5, <1>6
<1>8. ASSUME NEW k \in Nat, k \in S PROVE k + 1 \in S
  <2>1. SUFFICES ASSUME k + 1 <= n PROVE o[k + 1] \in r[k + 1]
    OBVIOUS
  <2>2. PICK j : j = k + 1
    OBVIOUS
  <2>3. j \in 1 .. n /\ j - 1 = k /\ o[k] \in r[k]
    BY <1>2, <1>8, <2>1, <2>2
  <2>4. PICK w \in Widths(tokens[j + skip], o[k]) : o[j] = o[k] + w
    BY <1>6, <2>3
  <2>5. r[j] = UNION {{p + x : x \in Widths(tokens[j + skip], p)} : p \in r[k]}
    BY <1>5, <2>3
  <2>6. QED
    BY <2>2, <2>3, <2>4, <2>5
<1> HIDE DEF S
<1>9. n \in S
  BY <1>2, <1>7, <1>8, SetInduction
<1>10. QED
  BY <1>2, <1>4, <1>6, <1>9 DEF S

\* tokenize: as long as the count of tokens is that of the strings, and each
\* begins with one that can be looked up, the tokens spell what has been read
\* of the prompt, with the table or without it.
THEOREM TokensSpell ==
    Spec => [](params.vocab_size = Len(vocab) /\ Covered => TokensSpellPrompt)
<1>1. Init => SortInv /\ CacheInv /\ TextInv
  BY SortInit, CacheInit, TextInit
<1>2. SortInv /\ CacheInv /\ TextInv /\ [Next]_vars
         => SortInv' /\ CacheInv' /\ TextInv'
  BY SortNext, CacheNext, TextNext
<1>3. TextInv => (params.vocab_size = Len(vocab) /\ Covered => TokensSpellPrompt)
  <2>1. SUFFICES ASSUME TextInv, params.vocab_size = Len(vocab), Covered,
                        preprocessed # <<>>
                 PROVE  at \in Reach
    BY DEF TokensSpellPrompt
  <2>2. Underway /\ VocabCounted
    BY <2>1 DEF TextInv, Fresh, Stages, VocabCounted
  <2>3. Spelled /\ Len(tokens) - Len(StartTokens) \in Nat
    <3>1. Len(StartTokens) \in Nat /\ at \in Nat
      BY <2>1, StartTokensAre, LenProperties DEF TextInv, InText
    <3>2. QED
      BY <2>1, <2>2, <3>1 DEF Underway
  <2>4. QED
    BY <2>3, SpelledIsReach
<1>4. QED
  BY <1>1, <1>2, <1>3, PTL DEF Spec

\* A text shorter than the array leaves room for the start token.
LEMMA TextFits ==
    ASSUME TextInv, Len(preprocessed) < TokenSlots
    PROVE  Len(tokens) <= TokenSlots
<1>1. /\ Len(StartTokens) \in {0, 1} /\ TokenSlots \in Nat \ {0}
      /\ Len(preprocessed) \in Nat /\ at \in 0 .. Len(preprocessed)
  BY StartTokensAre, LenProperties, InferenceAssumption DEF TextInv, InText
<1>2. CASE Fresh
  BY <1>1, <1>2, EmptySeq DEF Fresh
<1>3. CASE Underway
  <2>1. PICK s \in {0, 1} : s = Len(StartTokens)
    BY <1>1
  <2>2. Len(tokens) \in s .. s + at
    BY <1>3, <2>1 DEF Underway
  <2>3. QED
    BY <1>1, <2>2
<1>4. QED
  BY <1>2, <1>3 DEF TextInv

\* tokenize: with a text shorter than the array it writes, no token is written
\* behind the array's end.
THEOREM ShortTextFits ==
    Spec => [](Len(preprocessed) < TokenSlots => Len(tokens) <= TokenSlots)
<1>1. Init => SortInv /\ CacheInv /\ TextInv
  BY SortInit, CacheInit, TextInit
<1>2. SortInv /\ CacheInv /\ TextInv /\ [Next]_vars
         => SortInv' /\ CacheInv' /\ TextInv'
  BY SortNext, CacheNext, TextNext
<1>3. TextInv => (Len(preprocessed) < TokenSlots => Len(tokens) <= TokenSlots)
  BY TextFits
<1>4. QED
  BY <1>1, <1>2, <1>3, PTL DEF Spec

-----------------------------------------------------------------------------
(* The types of what the engine keeps. *)

LEMMA RunInit == Init => RunInv
<1> SUFFICES ASSUME Init PROVE RunInv
  OBVIOUS
<1>1. output = <<>> /\ Len(output) = 0 /\ 0 \in 0 .. MaxTokens
  BY EmptySeq, InferenceAssumption DEF Init
<1>2. QED
  BY <1>1 DEF Init, RunInv

\* A step that leaves what RunInv speaks of, but for the phase.
LEMMA RunStays ==
    ASSUME RunInv, UNCHANGED <<params, output, steps, chosen>>,
           visible' \in BOOLEAN,
           phase' # "boot",
           phase' \in {"tokenize", "prefill", "generate"}
              => phase \in {"tokenize", "prefill", "generate"},
           phase' = "sample" => phase = "sample" /\ Cells' = Cells
    PROVE  RunInv'
BY DEF RunInv, Ids

LEMMA RunGenerate ==
    ASSUME VocabSize, RunInv, NEW w \in [Ids -> Weights], NEW enough \in BOOLEAN,
           Generate(w, enough)
    PROVE  RunInv'
<1>1. /\ UNCHANGED <<params, output, steps, visible>> /\ phase = "generate"
      /\ phase' = "sample" /\ Ids' = Ids
  BY DEF Generate, modelVars, Ids
<1>2. CASE enough
  <2>1. chosen' = NoToken /\ probs' = Shares(w)
    BY <1>2 DEF Generate
  <2>2. Cells' = Ids
    BY <2>1, SharesAre DEF Cells
  <2>3. QED
    BY <1>1, <2>1, <2>2 DEF RunInv
<1>3. CASE ~ enough
  <2>1. PICK some \in Ids : w[some] > 0
    BY DEF Generate
  <2>2. params.vocab_size \in Nat /\ Ids = 0 .. params.vocab_size - 1
    BY <2>1 DEF VocabSize, Ids
  <2>3. \A k \in Ids : w[k] \in Int
    BY InferenceAssumption
  <2>4. chosen' = Greedy(w) /\ Greedy(w) \in Ids
    BY <1>3, <2>1, <2>2, <2>3, GreedyIsLikeliest DEF Generate
  <2>5. chosen' # NoToken
    BY <2>2, <2>4, SamplingAssumption
  <2>6. QED
    BY <1>1, <2>4, <2>5 DEF RunInv
<1>4. QED
  BY <1>2, <1>3

LEMMA RunSample == DrawInv /\ RunInv /\ Sample => RunInv'
<1> SUFFICES ASSUME DrawInv, RunInv, Sample PROVE RunInv'
  OBVIOUS
<1>1. /\ UNCHANGED <<params, output, steps, visible, phase>>
      /\ chosen = NoToken /\ phase = "sample" /\ Cells = Ids /\ Ids' = Ids
      /\ SortTypes /\ NoTokenLost /\ SortOrder /\ Weighed
  BY DEF Sample, modelVars, runVars, RunInv, DrawInv, SortInv, SortTypes, Ids
<1>2. ASSUME chosen' = chosen, Cells' = Cells PROVE RunInv'
  BY <1>1, <1>2, RunStays DEF RunInv
<1>3. CASE EnterCall
  BY <1>2, <1>3 DEF EnterCall, Cells
<1>4. ASSUME NEW p \in part, Turn(p) PROVE RunInv'
  BY <1>2, <1>4 DEF Turn, Swapped, Cells
<1>5. ASSUME NEW p \in part, Divide(p) PROVE RunInv'
  BY <1>2, <1>5 DEF Divide, Cells
<1>6. ASSUME NEW n \in 1 .. params.vocab_size,
             NEW r \in 0 .. 2 * Sum(probs, n), Draw(n, r)
      PROVE  RunInv'
  <2>1. chosen' \in Cells
    BY <1>1, <1>6, DrawIsACell, WeighedNumbers
  <2>2. chosen' # NoToken
    BY <1>1, <2>1, WeighedNumbers, SamplingAssumption
  <2>3. QED
    BY <1>1, <2>1, <2>2 DEF RunInv
<1>7. QED
  BY <1>3, <1>4, <1>5, <1>6 DEF Sample

LEMMA RunPrintToken == CacheInv /\ RunInv /\ PrintToken => RunInv'
<1> SUFFICES ASSUME CacheInv, RunInv, PrintToken PROVE RunInv'
  OBVIOUS
<1>1. /\ phase = "sample" /\ chosen # NoToken /\ chosen' = NoToken
      /\ output' = Append(output, chosen) /\ steps' = steps + 1
      /\ params' = params /\ visible' \in BOOLEAN
      /\ phase' = IF pos + 1 >= params.context_length \/ steps + 1 = MaxTokens
                  THEN "shell" ELSE "generate"
  BY DEF PrintToken, Emit, ForgetSample, modelVars
<1>2. /\ IsSeq(output) /\ chosen \in Ids /\ Len(output) = steps
      /\ steps \in 0 .. MaxTokens /\ steps < MaxTokens
      /\ \A k \in 1 .. Len(output) : output[k] \in Ids
  BY <1>1 DEF CacheInv, Progress, RunInv
<1>3. /\ Len(output) \in Nat /\ Len(output') = Len(output) + 1
      /\ \A k \in 1 .. Len(output) : output'[k] = output[k]
      /\ output'[Len(output) + 1] = chosen
  BY <1>1, <1>2, Appended
<1>4. /\ steps' \in 0 .. MaxTokens /\ Len(output') = steps'
      /\ steps' < MaxTokens \/ steps' = MaxTokens
  BY <1>1, <1>2, <1>3, InferenceAssumption
<1>5. \A k \in 1 .. Len(output') : output'[k] \in Ids
  <2>1. \A k \in 1 .. Len(output') : k \in 1 .. Len(output) \/ k = Len(output) + 1
    BY <1>3
  <2>2. QED
    BY <1>2, <1>3, <2>1
<1>6. phase' \in {"shell", "generate"} /\ (phase' = "generate" => steps' < MaxTokens)
  BY <1>1, <1>4
<1>7. Ids' = Ids
  BY <1>1 DEF Ids
<1>8. QED
  BY <1>1, <1>4, <1>5, <1>6, <1>7 DEF RunInv

LEMMA RunBoot == DrawInv /\ RunInv /\ Boot => RunInv'
<1> SUFFICES ASSUME DrawInv, RunInv, Boot PROVE RunInv'
  OBVIOUS
<1>1. phase = "boot" /\ phase' \in {"boot", "shell"} /\ chosen = NoToken
      /\ UNCHANGED <<chosen, output, steps, visible>> /\ output = <<>>
  BY DEF Boot, StartShell, NotRunning, sampleVars, runVars, DrawInv, RunInv
<1>2. Len(output) = 0
  BY <1>1, EmptySeq
<1>3. \A k \in 1 .. Len(output') : output'[k] \in Ids'
  BY <1>1, <1>2
<1>4. QED
  BY <1>1, <1>3 DEF RunInv

LEMMA RunNext ==
    CacheInv /\ DrawInv /\ RunInv /\ [Next]_vars => RunInv'
<1> SUFFICES ASSUME CacheInv, DrawInv, RunInv, [Next]_vars PROVE RunInv'
  OBVIOUS
<1>1. CASE Boot
  BY <1>1, RunBoot
<1>2. ASSUME NEW prompt \in Prompts, StartLlm(prompt) PROVE RunInv'
  <2>1. /\ params' = params /\ chosen' = chosen /\ visible' = visible
        /\ output' = <<>> /\ steps' = 0 /\ phase' \in {"tokenize", "undone"}
    BY <1>2 DEF StartLlm, modelVars, sampleVars
  <2>2. Len(output') = 0 /\ 0 \in 0 .. MaxTokens /\ 0 < MaxTokens
    BY <2>1, EmptySeq, InferenceAssumption
  <2>3. QED
    BY <2>1, <2>2 DEF RunInv, Ids
<1>3. CASE Tokenize \/ StartPrefill \/ Prefill \/ StartGenerate
  BY <1>3, RunStays DEF Tokenize, StartPrefill, Prefill, StartGenerate,
     modelVars, sampleVars, runVars, RunInv
<1>4. ASSUME NEW w \in [Ids -> Weights], NEW enough \in BOOLEAN,
             Generate(w, enough)
      PROVE  RunInv'
  BY <1>4, RunGenerate DEF DrawInv, SortInv
<1>5. CASE Sample
  BY <1>5, RunSample
<1>6. CASE Stop
  BY <1>6 DEF Stop, ForgetSample, modelVars, RunInv, Ids
<1>7. CASE PrintToken
  BY <1>7, RunPrintToken
<1>8. CASE UNCHANGED vars
  BY <1>8 DEF vars, modelVars, sampleVars, runVars, RunInv, Ids, Cells
<1>9. QED
  BY <1>1, <1>2, <1>3, <1>4, <1>5, <1>6, <1>7, <1>8 DEF Next, Llm

LEMMA SizesAreLengths ==
    SizeInv => \A b \in Buffers : size[b] \in Nat \cup {Null}
<1> SUFFICES ASSUME SizeInv, NEW b \in Buffers, size[b] # Null
             PROVE  size[b] \in Nat
  OBVIOUS
<1>1. Sized /\ Counted /\ size[b] = Wants(b)
  BY DEF SizeInv, Sized
<1>2. /\ params.block_count \in Nat /\ params.context_length \in Nat
      /\ params.embedding_length \in Nat /\ params.feed_forward_length \in Nat
      /\ params.head_count \in Nat /\ params.head_count_kv \in Nat
      /\ params.vocab_size \in Nat /\ head_dim \in Nat /\ head_dim_q \in Nat
  BY <1>1 DEF Counted, Counts, Sized
<1>3. \A j \in Nat, k \in Nat : j * k \in Nat
  OBVIOUS
<1>4. /\ KvHeads * head_dim \in Nat /\ params.head_count * head_dim_q \in Nat
      /\ params.head_count * head_dim \in Nat
      /\ params.block_count * params.context_length \in Nat
  BY <1>2, <1>3 DEF KvHeads
<1>5. params.block_count * params.context_length * (KvHeads * head_dim) \in Nat
  BY <1>3, <1>4
<1>6. QED
  BY <1>1, <1>2, <1>4, <1>5 DEF Wants, Wanted, Buffers

\* The engine keeps to its types, for a file whose counts and ids are those of
\* a model and a text that is shorter than the tokens array: every token is of
\* the vocabulary, the answer is no longer than allowed, and so on.
THEOREM TypeCorrect ==
    FilesUsable =>
        (Spec => [](/\ params.vocab_size = Len(vocab) /\ IdsUsable
                    /\ Len(preprocessed) < TokenSlots
                    => TypeOK))
<1> SUFFICES ASSUME FilesUsable
             PROVE  Spec => [](/\ params.vocab_size = Len(vocab) /\ IdsUsable
                               /\ Len(preprocessed) < TokenSlots
                               => TypeOK)
  OBVIOUS
<1> DEFINE I == CacheInv /\ DrawInv /\ SizeInv /\ TextInv /\ RunInv
<1>1. Init => I
  BY CacheInit, DrawInit, SizeInit, TextInit, RunInit
<1>2. I /\ [Next]_vars => I'
  BY CacheNext, DrawNext, SizeNext, TextNext, RunNext DEF DrawInv
<1>3. I => (/\ params.vocab_size = Len(vocab) /\ IdsUsable
            /\ Len(preprocessed) < TokenSlots
            => TypeOK)
  <2>1. SUFFICES ASSUME I, params.vocab_size = Len(vocab), IdsUsable,
                        Len(preprocessed) < TokenSlots
                 PROVE  TypeOK
    OBVIOUS
  <2>2. stage \in {"pairs", "table", "loaded", "failed", "undone"}
    BY <2>1 DEF TextInv, Stages
  <2>3. Running \/ phase \in {"boot", "shell", "tokenize", "undone"}
    BY <2>1 DEF CacheInv, Progress
  <2>4. \A b \in Buffers : size[b] \in Nat \cup {Null}
    BY <2>1, SizesAreLengths
  <2>5. /\ at \in 0 .. Len(preprocessed) /\ Len(preprocessed) < MaxText
        /\ Len(tokens) <= TokenSlots
    BY <2>1, TextFits DEF TextInv, InText
  <2>6. \A k \in DOMAIN History : History[k] \in Ids
    <3>1. /\ \A k \in 1 .. Len(tokens) : tokens[k] \in Ids
          /\ \A k \in 1 .. Len(output) : output[k] \in Ids
          /\ IsSeq(tokens) /\ IsSeq(output)
      BY <2>1 DEF TextInv, Stages, VocabCounted, RunInv, CacheInv, Progress
    <3>2. /\ Len(tokens) \in Nat /\ Len(output) \in Nat
          /\ DOMAIN History = 1 .. Len(tokens) + Len(output)
          /\ \A k \in 1 .. Len(tokens) + Len(output) :
                History[k] = IF k <= Len(tokens) THEN tokens[k]
                             ELSE output[k - Len(tokens)]
      BY <3>1, Concatenated DEF History
    <3>3. QED
      BY SMTT(30), <3>1, <3>2
  <2>7. pos \in Nat /\ steps \in 0 .. MaxTokens /\ Len(output) = steps
        /\ chosen \in Ids \cup {NoToken} /\ visible \in BOOLEAN
    BY <2>1 DEF CacheInv, Progress, RunInv
  <2>8. ScansStop /\ NoTokenLost
    BY <2>1, ScansMeet DEF ScansStop, DrawInv, SortInv
  <2>9. QED
    BY <2>2, <2>3, <2>4, <2>5, <2>6, <2>7, <2>8 DEF TypeOK, NoTokenLost
<1>4. QED
  BY <1>1, <1>2, <1>3, PTL DEF Spec

\* The prompts leave room, however few of their bytes share a token: what is
\* not a visible character is counted threefold.
PromptsShort == \A prompt \in Prompts : Cost(prompt) < TokenSlots

TextIsPrompt == preprocessed = <<>> \/ \E prompt \in Prompts :
                                          Len(preprocessed) <= Cost(prompt)

LEMMA TextIsPromptNext == TextIsPrompt /\ [Next]_vars => TextIsPrompt'
<1> SUFFICES ASSUME TextIsPrompt, [Next]_vars PROVE TextIsPrompt'
  OBVIOUS
<1>1. ASSUME NEW prompt \in Prompts, StartLlm(prompt) PROVE TextIsPrompt'
  BY <1>1, PreprocessIsBytes DEF StartLlm, TextIsPrompt
<1>2. ASSUME preprocessed' = preprocessed PROVE TextIsPrompt'
  BY <1>2 DEF TextIsPrompt
<1>3. CASE Boot
  BY <1>2, <1>3 DEF Boot, BuildTable, StartShell, tokenVars
<1>4. CASE Llm
  <2>1. preprocessed' = preprocessed
    BY <1>4 DEF Llm, Tokenize, TokenizeStep, StartPrefill, Prefill,
       StartGenerate, Generate, Sample, Stop, PrintToken, Emit, tokenVars
  <2>2. QED
    BY <1>2, <2>1
<1>5. CASE UNCHANGED vars
  BY <1>2, <1>5 DEF vars, tokenVars
<1>6. QED
  BY <1>1, <1>3, <1>4, <1>5 DEF Next

\* gguf_generate and transformer_forward: with prompts short enough, for a file
\* whose counts are those of a model, the tokens array and every buffer are as
\* long as they are reached into, in every state.
THEOREM ShortPromptsStayInBuffers ==
    FilesUsable /\ PromptsShort
        => (Spec => [](Len(tokens) <= TokenSlots /\ BuffersHold))
<1> SUFFICES ASSUME FilesUsable, PromptsShort
             PROVE  Spec => [](Len(tokens) <= TokenSlots /\ BuffersHold)
  OBVIOUS
<1> DEFINE I == SortInv /\ CacheInv /\ SizeInv /\ TextInv /\ TextIsPrompt
<1>1. Init => I
  BY SortInit, CacheInit, SizeInit, TextInit DEF Init, TextIsPrompt
<1>2. I /\ [Next]_vars => I'
  BY SortNext, CacheNext, SizeNext, TextNext, TextIsPromptNext
<1>3. I => Len(tokens) <= TokenSlots /\ BuffersHold
  <2>1. SUFFICES ASSUME I PROVE Len(tokens) <= TokenSlots /\ BuffersHold
    OBVIOUS
  <2>2. Len(preprocessed) < TokenSlots
    <3>1. CASE preprocessed = <<>>
      BY <3>1, EmptySeq, InferenceAssumption
    <3>2. ASSUME NEW prompt \in Prompts, Len(preprocessed) <= Cost(prompt)
          PROVE  Len(preprocessed) < TokenSlots
      <4>1. Cost(prompt) < TokenSlots /\ TokenSlots \in Int
        BY InferenceAssumption DEF PromptsShort
      <4>2. Len(preprocessed) \in Int /\ Cost(prompt) \in Int
        BY <2>1, LenProperties, CostIsNat DEF TextInv, InText
      <4> PICK c : c = Cost(prompt)
        OBVIOUS
      <4>3. QED
        BY <3>2, <4>1, <4>2
    <3>3. QED
      BY <2>1, <3>1, <3>2 DEF TextIsPrompt
  <2>3. Len(tokens) <= TokenSlots
    BY <2>1, <2>2, TextFits
  <2>4. QED
    BY <2>1, <2>3, SizesHold
<1>4. QED
  BY <1>1, <1>2, <1>3, PTL DEF Spec
=============================================================================
