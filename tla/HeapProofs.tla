----------------------------- MODULE HeapProofs -----------------------------
(***************************************************************************)
(* Theorems about the heap, for any callers: TypeOK, NoFreeNeighbours and  *)
(* WordsAreConserved hold for all values of the constants, by the          *)
(* invariant Basic, which describes the list alone.  Where the blocks lie  *)
(* in memory depends on what is asked for: run heap_use_long shows it going*)
(* wrong, and HeapUseProofs is about the calls the kernel makes.           *)
(***************************************************************************)
EXTENDS Heap, SequenceTheorems, FiniteSetTheorems, WellFoundedInduction, TLAPS

-----------------------------------------------------------------------------
(* Numbers. *)

LEMMA LeastExists ==
    ASSUME NEW S \in SUBSET Nat, S # {}
    PROVE  \E m \in S : \A k \in S : m <= k
<1> DEFINE Less == OpToRel(<, Nat)
<1>1. \A u, v \in Nat : u < v => <<u, v>> \in Less
  BY Zenon DEF OpToRel
<1>2. IsWellFoundedOn(Less, Nat)
  BY NatLessThanWellFounded
<1> HIDE DEF Less
<1>3. PICK m \in S : \A k \in S : ~ (<<k, m>> \in Less)
  BY <1>2, WFMin
<1>4. \A k \in S : ~ (k < m)
  BY ONLY <1>1, <1>3, S \in SUBSET Nat, Zenon
<1>5. QED
  BY <1>4

\* Induction, over the set of the numbers for which something holds.
LEMMA SetInduction ==
    ASSUME NEW S, 0 \in S, \A n \in Nat : n \in S => n + 1 \in S
    PROVE  Nat \subseteq S
<1> DEFINE T == {n \in Nat : n \notin S}
<1>1. SUFFICES ASSUME T # {} PROVE FALSE
  OBVIOUS
<1>2. T \in SUBSET Nat
  OBVIOUS
<1> HIDE DEF T
<1>3. PICK m \in T : \A k \in T : m <= k
  BY <1>1, <1>2, LeastExists
<1> USE DEF T
<1>4. m \in Nat /\ m \notin S /\ \A k \in Nat : k \notin S => m <= k
  BY <1>3
<1> HIDE DEF T
<1>5. m # 0 /\ m - 1 \in Nat /\ m - 1 + 1 = m
  BY <1>4
<1>6. m - 1 \in S
  BY <1>4, <1>5
<1>7. QED
  BY <1>4, <1>5, <1>6

\* What SelectInSeq finds is the first that will do.
LEMMA MinOf ==
    ASSUME NEW I \in SUBSET Nat, I # {}
    PROVE  Min(I) \in I /\ \A i \in I : Min(I) <= i
<1>1. PICK m \in I : \A i \in I : m <= i
  BY LeastExists
<1>2. QED
  BY <1>1 DEF Min

-----------------------------------------------------------------------------
(* Lists of blocks. *)

LEMMA ListFacts ==
    ASSUME NEW list \in Seq(Block)
    PROVE  /\ Len(list) \in Nat /\ DOMAIN list = 1 .. Len(list)
           /\ \A i \in 1 .. Len(list) :
                 /\ list[i] \in Block /\ list[i].addr \in Nat
                 /\ list[i].size \in Nat /\ list[i].free \in BOOLEAN
           /\ Len(list) = 0 <=> list = <<>>
<1>1. Len(list) \in Nat /\ DOMAIN list = 1 .. Len(list)
  BY LenProperties
<1>2. \A i \in 1 .. Len(list) : list[i] \in Block
  BY ElementOfSeq
<1>3. Len(list) = 0 <=> list = <<>>
  BY EmptySeq
<1>4. QED
  BY <1>1, <1>2, <1>3 DEF Block

LEMMA Appended ==
    ASSUME NEW list \in Seq(Block), NEW b \in Block
    PROVE  /\ Append(list, b) \in Seq(Block)
           /\ Len(list) \in Nat /\ Len(Append(list, b)) = Len(list) + 1
           /\ \A i \in 1 .. Len(list) : Append(list, b)[i] = list[i]
           /\ Append(list, b)[Len(list) + 1] = b
BY AppendProperties, ListFacts

\* The last block, made longer.
Longer(list, words) == [list EXCEPT ![Len(list)].size = @ + words]

LEMMA Lengthened ==
    ASSUME NEW list \in Seq(Block), list # <<>>, NEW words \in Nat
    PROVE  /\ Longer(list, words) \in Seq(Block)
           /\ Len(Longer(list, words)) = Len(list)
           /\ \A i \in 1 .. Len(list) - 1 : Longer(list, words)[i] = list[i]
           /\ LET b == list[Len(list)]
              IN  Longer(list, words)[Len(list)]
                    = [addr |-> b.addr, size |-> b.size + words, free |-> b.free]
<1> DEFINE N == Len(list)
           b == list[N]
           c == [addr |-> b.addr, size |-> b.size + words, free |-> b.free]
<1>1. N \in Nat /\ N >= 1 /\ N \in 1 .. N /\ b \in Block
  BY ListFacts
<1>2. c \in Block /\ c = [b EXCEPT !.size = @ + words]
  BY <1>1 DEF Block
<1>3. Longer(list, words) = [list EXCEPT ![N] = [b EXCEPT !.size = @ + words]]
  BY DEF Longer
<1>4. Longer(list, words) = [list EXCEPT ![N] = c]
  BY <1>2, <1>3
<1> HIDE DEF c
<1>5. /\ Longer(list, words) \in Seq(Block)
      /\ Len(Longer(list, words)) = N
      /\ \A i \in 1 .. N : Longer(list, words)[i] = IF i = N THEN c ELSE list[i]
  BY <1>1, <1>2, <1>4, ExceptSeq
<1>6. QED
  BY <1>1, <1>5 DEF c

-----------------------------------------------------------------------------
(* free's walk, block by block. *)

\* The function Coalesce is defined by.
IsJoined(f, list, N) ==
    f = [n \in 0 .. N |-> IF n = 0 THEN <<>> ELSE Join(f[n - 1], list[n])]

LEMMA JoinedExists ==
    ASSUME NEW list PROVE \A N \in Nat : \E f : IsJoined(f, list, N)
<1> DEFINE S == {N \in Nat : \E f : IsJoined(f, list, N)}
<1>1. 0 \in S
  <2>1. IsJoined([k \in 0 .. 0 |-> <<>>], list, 0)
    BY DEF IsJoined
  <2>2. QED
    BY <2>1
<1>2. ASSUME NEW N \in Nat, N \in S PROVE N + 1 \in S
  <2>1. PICK f : IsJoined(f, list, N)
    BY <1>2
  <2> DEFINE g == [k \in 0 .. N + 1 |->
                     IF k = N + 1 THEN Join(f[N], list[N + 1]) ELSE f[k]]
  <2>2. \A k \in 0 .. N : g[k] = f[k]
    OBVIOUS
  <2>3. \A k \in 0 .. N : f[k] = IF k = 0 THEN <<>> ELSE Join(f[k - 1], list[k])
    BY <2>1 DEF IsJoined
  <2>4. g[N + 1] = Join(g[N], list[N + 1])
    BY <2>2
  <2>5. \A k \in 0 .. N + 1 :
           g[k] = IF k = 0 THEN <<>> ELSE Join(g[k - 1], list[k])
    <3>1. ASSUME NEW k \in 0 .. N
          PROVE  g[k] = IF k = 0 THEN <<>> ELSE Join(g[k - 1], list[k])
      <4>1. k # 0 => k - 1 \in 0 .. N
        OBVIOUS
      <4> HIDE DEF g
      <4>2. QED
        BY <2>2, <2>3, <4>1
    <3>2. N + 1 # 0 /\ N + 1 - 1 = N
      OBVIOUS
    <3> HIDE DEF g
    <3>3. QED
      BY <2>4, <3>1, <3>2
  <2>6. g = [k \in 0 .. N + 1 |-> g[k]]
    OBVIOUS
  <2> HIDE DEF g
  <2>7. IsJoined(g, list, N + 1)
    BY <2>5, <2>6 DEF IsJoined
  <2>8. QED
    BY <2>7
<1> HIDE DEF S
<1>3. Nat \subseteq S
  BY <1>1, <1>2, SetInduction
<1>4. QED
  BY <1>3 DEF S

\* A walk over the list, and where it ends.
LEMMA CoalesceWalk ==
    ASSUME NEW list \in Seq(Block)
    PROVE  \E f : /\ f[0] = <<>>
                  /\ \A n \in 1 .. Len(list) : f[n] = Join(f[n - 1], list[n])
                  /\ Coalesce(list) = f[Len(list)]
<1>1. Len(list) \in Nat
  BY ListFacts
<1>2. \E f : IsJoined(f, list, Len(list))
  BY <1>1, JoinedExists
<1> DEFINE f == CHOOSE f : IsJoined(f, list, Len(list))
<1>3. IsJoined(f, list, Len(list))
  BY <1>2
<1>4. Coalesce(list) = f[Len(list)]
  BY DEF Coalesce, IsJoined
<1> HIDE DEF f
<1>5. f[0] = <<>> /\ \A n \in 1 .. Len(list) : f[n] = Join(f[n - 1], list[n])
  BY <1>1, <1>3 DEF IsJoined
<1>6. QED
  BY <1>4, <1>5

LEMMA JoinIs ==
    ASSUME NEW list \in Seq(Block), NEW b \in Block
    PROVE  Join(list, b) =
             IF list # <<>> /\ list[Len(list)].free /\ b.free
             THEN Longer(list, Header + b.size) ELSE Append(list, b)
<1>1. CASE list # <<>> /\ list[Len(list)].free /\ b.free
  <2>1. Join(list, b) = [list EXCEPT ![Len(list)].size = @ + Header + b.size]
    BY <1>1 DEF Join, Last
  <2>2. Len(list) \in 1 .. Len(list) /\ list[Len(list)].size \in Nat
        /\ Header \in Nat /\ b.size \in Nat
    BY <1>1, ListFacts, HeapAssumption DEF Block
  <2>3. list[Len(list)].size + Header + b.size
          = list[Len(list)].size + (Header + b.size)
    BY <2>2
  <2>4. QED
    BY <1>1, <2>1, <2>3 DEF Longer
<1>2. CASE ~ (list # <<>> /\ list[Len(list)].free /\ b.free)
  BY <1>2 DEF Join, Last
<1>3. QED
  BY <1>1, <1>2

-----------------------------------------------------------------------------
(* Words. *)

\* The function Words is defined by.
IsTotal(t, list, N) ==
    t = [n \in 0 .. N |-> IF n = 0 THEN 0 ELSE t[n - 1] + Header + list[n].size]

LEMMA TotalExists ==
    ASSUME NEW list PROVE \A N \in Nat : \E t : IsTotal(t, list, N)
<1> DEFINE S == {N \in Nat : \E t : IsTotal(t, list, N)}
<1>1. 0 \in S
  <2>1. IsTotal([k \in 0 .. 0 |-> 0], list, 0)
    BY DEF IsTotal
  <2>2. QED
    BY <2>1
<1>2. ASSUME NEW N \in Nat, N \in S PROVE N + 1 \in S
  <2>1. PICK t : IsTotal(t, list, N)
    BY <1>2
  <2> DEFINE u == [k \in 0 .. N + 1 |->
                     IF k = N + 1 THEN t[N] + Header + list[N + 1].size ELSE t[k]]
  <2>2. \A k \in 0 .. N : u[k] = t[k]
    OBVIOUS
  <2>3. \A k \in 0 .. N :
           t[k] = IF k = 0 THEN 0 ELSE t[k - 1] + Header + list[k].size
    BY <2>1 DEF IsTotal
  <2>4. u[N + 1] = u[N] + Header + list[N + 1].size
    BY <2>2
  <2>5. \A k \in 0 .. N + 1 :
           u[k] = IF k = 0 THEN 0 ELSE u[k - 1] + Header + list[k].size
    <3>1. ASSUME NEW k \in 0 .. N
          PROVE  u[k] = IF k = 0 THEN 0 ELSE u[k - 1] + Header + list[k].size
      <4>1. k # 0 => k - 1 \in 0 .. N
        OBVIOUS
      <4> HIDE DEF u
      <4>2. QED
        BY <2>2, <2>3, <4>1
    <3>2. N + 1 # 0 /\ N + 1 - 1 = N
      OBVIOUS
    <3> HIDE DEF u
    <3>3. QED
      BY <2>4, <3>1, <3>2
  <2>6. u = [k \in 0 .. N + 1 |-> u[k]]
    OBVIOUS
  <2> HIDE DEF u
  <2>7. IsTotal(u, list, N + 1)
    BY <2>5, <2>6 DEF IsTotal
  <2>8. QED
    BY <2>7
<1> HIDE DEF S
<1>3. Nat \subseteq S
  BY <1>1, <1>2, SetInduction
<1>4. QED
  BY <1>3 DEF S

\* Running totals of a list.
Running(t, list) ==
    /\ t[0] = 0
    /\ \A n \in 1 .. Len(list) : t[n] = t[n - 1] + Header + list[n].size

LEMMA RunningTotals ==
    ASSUME NEW list \in Seq(Block)
    PROVE  \E t : Running(t, list) /\ Words(list) = t[Len(list)]
<1>1. Len(list) \in Nat
  BY ListFacts
<1>2. \E t : IsTotal(t, list, Len(list))
  BY <1>1, TotalExists
<1> DEFINE t == CHOOSE t : IsTotal(t, list, Len(list))
<1>3. IsTotal(t, list, Len(list))
  BY <1>2
<1>4. Words(list) = t[Len(list)]
  BY DEF Words, IsTotal
<1> HIDE DEF t
<1>5. Running(t, list)
  BY <1>1, <1>3 DEF IsTotal, Running
<1>6. QED
  BY <1>4, <1>5

LEMMA WordsAre ==
    ASSUME NEW list \in Seq(Block), NEW t, Running(t, list)
    PROVE  /\ Words(list) = t[Len(list)] /\ Words(list) \in Nat
           /\ \A n \in 0 .. Len(list) : t[n] \in Nat
<1>1. PICK u : Running(u, list) /\ Words(list) = u[Len(list)]
  BY RunningTotals
<1> DEFINE S == {n \in Nat : n <= Len(list) => t[n] = u[n] /\ t[n] \in Nat}
<1>2. Len(list) \in Nat /\ Header \in Nat
      /\ \A n \in 1 .. Len(list) : list[n].size \in Nat
  BY ListFacts, HeapAssumption
<1>3. 0 \in S
  BY <1>1 DEF Running
<1>4. ASSUME NEW n \in Nat, n \in S PROVE n + 1 \in S
  <2>1. SUFFICES ASSUME n + 1 <= Len(list)
                 PROVE  t[n + 1] = u[n + 1] /\ t[n + 1] \in Nat
    OBVIOUS
  <2>2. n + 1 \in 1 .. Len(list) /\ n + 1 - 1 = n /\ n <= Len(list)
    BY <1>2, <2>1
  <2>3. t[n + 1] = t[n] + Header + list[n + 1].size
        /\ u[n + 1] = u[n] + Header + list[n + 1].size
    BY <1>1, <2>2 DEF Running
  <2>4. QED
    BY <1>2, <1>4, <2>2, <2>3
<1> HIDE DEF S
<1>5. Nat \subseteq S
  BY <1>3, <1>4, SetInduction
<1>6. \A n \in 0 .. Len(list) : t[n] = u[n] /\ t[n] \in Nat
  BY <1>2, <1>5 DEF S
<1>7. QED
  BY <1>1, <1>2, <1>6

LEMMA WordsAppended ==
    ASSUME NEW list \in Seq(Block), NEW b \in Block
    PROVE  Words(Append(list, b)) = Words(list) + Header + b.size
<1>1. PICK t : Running(t, list)
  BY RunningTotals
<1> DEFINE N == Len(list)
           m == Append(list, b)
           u == [n \in 0 .. N + 1 |-> IF n = N + 1 THEN t[N] + Header + b.size
                                                   ELSE t[n]]
<1>2. /\ N \in Nat /\ Len(m) = N + 1 /\ m \in Seq(Block)
      /\ \A n \in 1 .. N : m[n] = list[n]
      /\ m[N + 1] = b
  BY Appended
<1>3. \A n \in 1 .. N : t[n] = t[n - 1] + Header + list[n].size
  BY <1>1 DEF Running
<1>4. t[0] = 0 /\ Words(list) = t[N]
  BY <1>1, WordsAre DEF Running
<1>5. u[0] = 0 /\ u[N + 1] = t[N] + Header + b.size
      /\ \A n \in 0 .. N : u[n] = t[n]
  BY <1>2, <1>4
<1> HIDE DEF u, m, N
<1>6. \A n \in 1 .. N + 1 : u[n] = u[n - 1] + Header + m[n].size
  <2> TAKE n \in 1 .. N + 1
  <2>1. CASE n = N + 1
    <3>1. n - 1 = N /\ N \in 0 .. N
      BY <1>2, <2>1
    <3>2. QED
      BY <1>2, <1>5, <2>1, <3>1
  <2>2. CASE n # N + 1
    <3>1. n \in 1 .. N /\ n \in 0 .. N /\ n - 1 \in 0 .. N
      BY <1>2, <2>2
    <3>2. QED
      BY <1>2, <1>3, <1>5, <3>1
  <2>3. QED
    BY <2>1, <2>2
<1>7. Running(u, m)
  BY <1>2, <1>5, <1>6 DEF Running
<1>8. Words(m) = u[N + 1]
  BY <1>2, <1>7, WordsAre
<1>9. QED
  BY <1>4, <1>5, <1>8 DEF m

LEMMA WordsLengthened ==
    ASSUME NEW list \in Seq(Block), list # <<>>, NEW words \in Nat
    PROVE  Words(Longer(list, words)) = Words(list) + words
<1>1. PICK t : Running(t, list)
  BY RunningTotals
<1> DEFINE N == Len(list)
           m == Longer(list, words)
           u == [n \in 0 .. N |-> IF n = N THEN t[N] + words ELSE t[n]]
<1>2. /\ N \in Nat /\ N >= 1 /\ Len(m) = N /\ m \in Seq(Block)
      /\ \A n \in 1 .. N - 1 : m[n] = list[n]
      /\ m[N].size = list[N].size + words
      /\ \A n \in 1 .. N : list[n].size \in Nat
  <2>1. N \in Nat /\ N >= 1 /\ \A n \in 1 .. N : list[n].size \in Nat
    BY ListFacts
  <2>2. /\ Len(m) = N /\ m \in Seq(Block)
        /\ \A n \in 1 .. N - 1 : m[n] = list[n]
    BY Lengthened
  <2>3. m[N] = [addr |-> list[N].addr, size |-> list[N].size + words,
                free |-> list[N].free]
    BY Lengthened
  <2>4. m[N].size = list[N].size + words
    BY <2>3
  <2>5. QED
    BY <2>1, <2>2, <2>4
<1>3. \A n \in 1 .. N : t[n] = t[n - 1] + Header + list[n].size
  BY <1>1 DEF Running
<1>4. t[0] = 0 /\ Words(list) = t[N] /\ \A n \in 0 .. N : t[n] \in Nat
  BY <1>1, WordsAre DEF Running
<1>5. u[0] = 0 /\ u[N] = t[N] + words /\ \A n \in 0 .. N - 1 : u[n] = t[n]
  BY <1>2, <1>4
<1> HIDE DEF u, m, N
<1>6. \A n \in 1 .. N : u[n] = u[n - 1] + Header + m[n].size
  <2> TAKE n \in 1 .. N
  <2>1. n - 1 \in 0 .. N - 1 /\ n - 1 \in 0 .. N /\ Header \in Nat
    BY <1>2, HeapAssumption
  <2>2. t[n] = t[n - 1] + Header + list[n].size /\ u[n - 1] = t[n - 1]
        /\ t[n - 1] \in Nat /\ list[n].size \in Nat
    BY <1>2, <1>3, <1>4, <1>5, <2>1
  <2>3. CASE n = N
    BY <1>2, <1>5, <2>1, <2>2, <2>3
  <2>4. CASE n # N
    <3>1. n \in 1 .. N - 1 /\ n \in 0 .. N - 1
      BY <1>2, <2>4
    <3>2. QED
      BY <1>2, <1>5, <2>2, <3>1
  <2>5. QED
    BY <2>3, <2>4
<1>7. Running(u, m)
  BY <1>2, <1>5, <1>6 DEF Running
<1>8. Words(m) = u[N]
  BY <1>2, <1>7, WordsAre
<1>9. QED
  BY <1>4, <1>5, <1>8 DEF m

LEMMA WordsSame ==
    ASSUME NEW list \in Seq(Block), NEW m \in Seq(Block), Len(m) = Len(list),
           \A n \in 1 .. Len(list) : m[n].size = list[n].size
    PROVE  Words(m) = Words(list)
<1>1. PICK t : Running(t, list)
  BY RunningTotals
<1>2. Running(t, m)
  BY <1>1 DEF Running
<1>3. QED
  BY <1>1, <1>2, WordsAre

\* Block i becomes two blocks.
LEMMA WordsSplit ==
    ASSUME NEW list \in Seq(Block), NEW m \in Seq(Block), NEW i \in 1 .. Len(list),
           Len(m) = Len(list) + 1,
           \A n \in 1 .. i - 1 : m[n] = list[n],
           \A n \in i + 2 .. Len(m) : m[n] = list[n - 1],
           m[i].size + Header + m[i + 1].size = list[i].size
    PROVE  Words(m) = Words(list)
<1>1. PICK t : Running(t, list)
  BY RunningTotals
<1> DEFINE N == Len(list)
           u == [n \in 0 .. N + 1 |->
                   IF n < i THEN t[n]
                   ELSE IF n = i THEN t[i - 1] + Header + m[i].size ELSE t[n - 1]]
<1>2. /\ N \in Nat /\ Header \in Nat /\ i \in Nat /\ i - 1 \in 0 .. N
      /\ i \in 1 .. N /\ i \in 0 .. N
      /\ \A n \in 1 .. N : list[n].size \in Nat
      /\ \A n \in 1 .. N + 1 : m[n].size \in Nat
  <2>1. /\ N \in Nat /\ \A n \in 1 .. N : list[n].size \in Nat
        /\ \A n \in 1 .. Len(m) : m[n].size \in Nat
    BY ListFacts
  <2>2. QED
    BY <2>1, HeapAssumption
<1>3. \A n \in 1 .. N : t[n] = t[n - 1] + Header + list[n].size
  BY <1>1 DEF Running
<1>4. t[0] = 0 /\ Words(list) = t[N] /\ \A n \in 0 .. N : t[n] \in Nat
  BY <1>1, WordsAre DEF Running
<1>5. /\ \A n \in 0 .. i - 1 : u[n] = t[n]
      /\ u[i] = t[i - 1] + Header + m[i].size
      /\ \A n \in i + 1 .. N + 1 : u[n] = t[n - 1]
  BY <1>2
<1>6. i \in 1 .. N /\ Len(m) = N + 1
  OBVIOUS
<1> HIDE DEF u, N
<1>7. \A n \in 1 .. N + 1 : u[n] = u[n - 1] + Header + m[n].size
  <2> TAKE n \in 1 .. N + 1
  <2>1. CASE n < i
    <3>1. n \in 0 .. i - 1 /\ n - 1 \in 0 .. i - 1 /\ n \in 1 .. i - 1
          /\ n \in 1 .. N
      BY <1>2, <2>1
    <3>2. QED
      BY <1>3, <1>5, <3>1
  <2>2. CASE n = i
    <3>1. i - 1 \in 0 .. i - 1
      BY <1>2
    <3>2. QED
      BY <1>5, <2>2, <3>1
  <2>3. CASE n = i + 1
    <3>1. n \in i + 1 .. N + 1 /\ n - 1 = i
      BY <1>2, <2>3
    <3>2. u[n] = t[i] /\ u[n - 1] = t[i - 1] + Header + m[i].size
      BY <1>5, <3>1
    <3>3. t[i] = t[i - 1] + Header + list[i].size /\ t[i - 1] \in Nat
      BY <1>2, <1>3, <1>4
    <3>4. m[i].size \in Nat /\ m[i + 1].size \in Nat
      BY <1>2
    <3>5. m[i].size + Header + m[i + 1].size = list[i].size /\ m[n] = m[i + 1]
      BY <2>3
    <3>6. t[i] = t[i - 1] + Header + (m[i].size + Header + m[i + 1].size)
      BY <3>3, <3>5
    <3>7. t[i] = (t[i - 1] + Header + m[i].size) + Header + m[i + 1].size
      <4>1. PICK a \in Nat : a = t[i - 1]
        BY <3>3
      <4>2. PICK c \in Nat : c = m[i].size
        BY <3>4
      <4>3. PICK d \in Nat : d = m[i + 1].size
        BY <3>4
      <4>4. t[i] = a + Header + (c + Header + d)
        BY <3>6, <4>1, <4>2, <4>3
      <4>5. t[i] = (a + Header + c) + Header + d
        BY <4>4, HeapAssumption
      <4>6. QED
        BY <4>1, <4>2, <4>3, <4>5
    <3>8. QED
      BY <3>2, <3>5, <3>7
  <2>4. CASE n > i + 1
    <3>1. n \in i + 1 .. N + 1 /\ n - 1 \in i + 1 .. N + 1 /\ n - 1 \in 1 .. N
          /\ n \in i + 2 .. Len(m)
      BY <1>2, <1>6, <2>4
    <3>2. u[n] = t[n - 1] /\ u[n - 1] = t[n - 1 - 1] /\ m[n] = list[n - 1]
      BY <1>5, <3>1
    <3>3. t[n - 1] = t[n - 1 - 1] + Header + list[n - 1].size
      BY <1>3, <3>1
    <3>4. QED
      BY <3>2, <3>3
  <2>5. QED
    BY <1>2, <2>1, <2>2, <2>3, <2>4
<1>8. u[0] = 0
  <2>1. 0 \in 0 .. i - 1
    BY <1>2
  <2>2. QED
    BY <1>4, <1>5, <2>1
<1>9. Running(u, m)
  BY <1>6, <1>7, <1>8 DEF Running
<1>10. Words(m) = u[N + 1]
  BY <1>6, <1>9, WordsAre
<1>11. u[N + 1] = t[N]
  <2>1. PICK n \in i + 1 .. N + 1 : n = N + 1 /\ n - 1 = N
    <3>1. N \in Nat /\ i \in Nat /\ i <= N
      BY <1>2
    <3>2. N + 1 \in i + 1 .. N + 1 /\ (N + 1) - 1 = N
      BY <3>1
    <3>3. QED
      BY <3>2
  <2>2. u[n] = t[n - 1]
    BY <1>5
  <2>3. QED
    BY <2>1, <2>2
<1>12. QED
  BY <1>1, <1>4, <1>10, <1>11

LEMMA EmptyWords == <<>> \in Seq(Block) /\ Words(<<>>) = 0
<1>1. <<>> \in Seq(Block) /\ Len(<<>>) = 0
  BY EmptySeq
<1> DEFINE t == [n \in {0} |-> 0]
<1>2. t[0] = 0 /\ Running(t, <<>>)
  BY <1>1 DEF Running
<1> HIDE DEF t
<1>3. QED
  BY <1>1, <1>2, WordsAre

-----------------------------------------------------------------------------
(* What the operations on the list do to it. *)

NoFree(list) ==
    \A i \in 1 .. Len(list) - 1 : ~ (list[i].free /\ list[i + 1].free)

LEMMA JoinKeeps ==
    ASSUME NEW list \in Seq(Block), NoFree(list), NEW b \in Block
    PROVE  /\ Join(list, b) \in Seq(Block) /\ NoFree(Join(list, b))
           /\ Words(Join(list, b)) = Words(list) + Header + b.size
<1>1. Header \in Nat /\ b.size \in Nat /\ Len(list) \in Nat
      /\ Words(list) \in Nat
  BY HeapAssumption, ListFacts, RunningTotals, WordsAre DEF Block
<1>2. CASE list # <<>> /\ list[Len(list)].free /\ b.free
  <2> DEFINE w == Header + b.size
             m == Longer(list, w)
  <2>1. w \in Nat /\ Join(list, b) = m
    BY <1>1, <1>2, JoinIs
  <2>2. /\ m \in Seq(Block) /\ Len(m) = Len(list)
        /\ \A i \in 1 .. Len(list) - 1 : m[i] = list[i]
    BY <1>2, <2>1, Lengthened
  <2>3. m[Len(list)].free = list[Len(list)].free
    <3>1. m[Len(list)] = [addr |-> list[Len(list)].addr,
                          size |-> list[Len(list)].size + w,
                          free |-> list[Len(list)].free]
      BY <1>2, <2>1, Lengthened
    <3>2. QED
      BY <3>1
  <2>4. Words(m) = Words(list) + w
    BY <1>2, <2>1, WordsLengthened
  <2> HIDE DEF m
  <2>5. NoFree(m)
    <3> SUFFICES ASSUME NEW i \in 1 .. Len(list) - 1
                 PROVE  ~ (m[i].free /\ m[i + 1].free)
      BY <2>2 DEF NoFree
    <3>1. ~ (list[i].free /\ list[i + 1].free) /\ m[i] = list[i]
      BY <2>2 DEF NoFree
    <3>2. m[i + 1].free = list[i + 1].free
      <4>1. i + 1 = Len(list) \/ i + 1 \in 1 .. Len(list) - 1
        BY <1>1
      <4>2. QED
        BY <2>2, <2>3, <4>1
    <3>3. QED
      BY <3>1, <3>2
  <2>6. QED
    BY <1>1, <2>1, <2>2, <2>4, <2>5
<1>3. CASE ~ (list # <<>> /\ list[Len(list)].free /\ b.free)
  <2> DEFINE m == Append(list, b)
  <2>1. /\ Join(list, b) = m /\ m \in Seq(Block) /\ Len(m) = Len(list) + 1
        /\ \A i \in 1 .. Len(list) : m[i] = list[i]
        /\ m[Len(list) + 1] = b
    BY <1>3, JoinIs, Appended
  <2>2. Words(m) = Words(list) + Header + b.size
    BY WordsAppended
  <2> HIDE DEF m
  <2>3. NoFree(m)
    <3> SUFFICES ASSUME NEW i \in 1 .. Len(list)
                 PROVE  ~ (m[i].free /\ m[i + 1].free)
      BY <1>1, <2>1 DEF NoFree
    <3>1. CASE i = Len(list)
      <4>1. list # <<>>
        BY <1>1, ListFacts
      <4>2. QED
        BY <1>3, <2>1, <3>1, <4>1
    <3>2. CASE i # Len(list)
      <4>1. i \in 1 .. Len(list) - 1 /\ i + 1 \in 1 .. Len(list)
        BY <1>1, <3>2
      <4>2. QED
        BY <2>1, <4>1 DEF NoFree
    <3>3. QED
      BY <3>1, <3>2
  <2>4. QED
    BY <2>1, <2>2, <2>3
<1>4. QED
  BY <1>2, <1>3

LEMMA CoalesceKeeps ==
    ASSUME NEW list \in Seq(Block)
    PROVE  /\ Coalesce(list) \in Seq(Block) /\ NoFree(Coalesce(list))
           /\ Words(Coalesce(list)) = Words(list)
<1>1. PICK f : /\ f[0] = <<>>
               /\ \A n \in 1 .. Len(list) : f[n] = Join(f[n - 1], list[n])
               /\ Coalesce(list) = f[Len(list)]
  BY CoalesceWalk
<1>2. PICK t : Running(t, list) /\ Words(list) = t[Len(list)]
  BY RunningTotals
<1> DEFINE S == {n \in Nat : n <= Len(list) =>
                   f[n] \in Seq(Block) /\ NoFree(f[n]) /\ Words(f[n]) = t[n]}
<1>3. Len(list) \in Nat /\ \A n \in 1 .. Len(list) : list[n] \in Block
  BY ListFacts
<1>4. 0 \in S
  <2>1. NoFree(<<>>)
    BY EmptySeq DEF NoFree
  <2>2. QED
    BY <1>1, <1>2, <2>1, EmptyWords DEF Running
<1>5. ASSUME NEW n \in Nat, n \in S PROVE n + 1 \in S
  <2>1. SUFFICES ASSUME n + 1 <= Len(list)
                 PROVE  /\ f[n + 1] \in Seq(Block) /\ NoFree(f[n + 1])
                        /\ Words(f[n + 1]) = t[n + 1]
    OBVIOUS
  <2>2. n + 1 \in 1 .. Len(list) /\ n + 1 - 1 = n /\ n <= Len(list)
    BY <1>3, <2>1
  <2>3. f[n] \in Seq(Block) /\ NoFree(f[n]) /\ Words(f[n]) = t[n]
    BY <1>5, <2>2
  <2>4. f[n + 1] = Join(f[n], list[n + 1]) /\ list[n + 1] \in Block
    BY <1>1, <1>3, <2>2
  <2>5. t[n + 1] = t[n] + Header + list[n + 1].size
    BY <1>2, <2>2 DEF Running
  <2>6. QED
    BY <2>3, <2>4, <2>5, JoinKeeps
<1> HIDE DEF S
<1>6. Nat \subseteq S
  BY <1>4, <1>5, SetInduction
<1>7. QED
  BY <1>1, <1>2, <1>3, <1>6 DEF S

\* free's first step: the block at ptr is free.
Marked(list, ptr) ==
    [i \in DOMAIN list |->
       IF Payload(list[i]) = ptr THEN [list[i] EXCEPT !.free = TRUE] ELSE list[i]]

LEMMA MarkedIs ==
    ASSUME NEW list \in Seq(Block), NEW ptr
    PROVE  /\ Marked(list, ptr) \in Seq(Block) /\ Len(Marked(list, ptr)) = Len(list)
           /\ \A i \in 1 .. Len(list) :
                 /\ Marked(list, ptr)[i].addr = list[i].addr
                 /\ Marked(list, ptr)[i].size = list[i].size
                 /\ Payload(list[i]) = ptr => Marked(list, ptr)[i].free
                 /\ Payload(list[i]) # ptr => Marked(list, ptr)[i] = list[i]
<1> DEFINE m == Marked(list, ptr)
<1>1. PICK N \in Nat : N = Len(list)
  BY ListFacts
<1>2. DOMAIN list = 1 .. N /\ \A i \in 1 .. N : list[i] \in Block
  BY <1>1, ListFacts
<1>3. m = [i \in 1 .. N |-> m[i]]
  BY <1>2 DEF Marked
<1>4. ASSUME NEW i \in 1 .. N
      PROVE  /\ m[i] \in Block
             /\ m[i].addr = list[i].addr /\ m[i].size = list[i].size
             /\ Payload(list[i]) = ptr => m[i].free
             /\ Payload(list[i]) # ptr => m[i] = list[i]
  <2>1. m[i] = IF Payload(list[i]) = ptr THEN [list[i] EXCEPT !.free = TRUE]
                                         ELSE list[i]
    BY <1>2 DEF Marked
  <2>2. list[i] \in Block
    BY <1>2
  <2> HIDE DEF m
  <2>3. CASE Payload(list[i]) = ptr
    <3>1. m[i] = [list[i] EXCEPT !.free = TRUE]
      BY <2>1, <2>3
    <3>2. QED
      BY <2>2, <2>3, <3>1 DEF Block
  <2>4. CASE Payload(list[i]) # ptr
    BY <2>1, <2>2, <2>4
  <2>5. QED
    BY <2>3, <2>4
<1> HIDE DEF m
<1>5. m \in [1 .. N -> Block]
  BY <1>3, <1>4
<1>6. m \in Seq(Block)
  BY <1>5, SeqDef
<1>7. Len(m) = N
  <2>1. DOMAIN m = 1 .. N
    BY <1>5
  <2>2. PICK M \in Nat : M = Len(m) /\ DOMAIN m = 1 .. M
    BY <1>6, LenProperties
  <2>3. CASE N < M
    <3>1. M \in 1 .. M /\ M \notin 1 .. N
      BY <2>3
    <3>2. QED
      BY <2>1, <2>2, <3>1
  <2>4. CASE M < N
    <3>1. N \in 1 .. N /\ N \notin 1 .. M
      BY <2>4
    <3>2. QED
      BY <2>1, <2>2, <3>1
  <2>5. QED
    BY <2>2, <2>3, <2>4
<1>8. QED
  BY <1>1, <1>4, <1>6, <1>7 DEF m

LEMMA ReleasedKeeps ==
    ASSUME NEW list \in Seq(Block), NEW ptr
    PROVE  /\ Released(list, ptr) \in Seq(Block) /\ NoFree(Released(list, ptr))
           /\ Words(Released(list, ptr)) = Words(list)
<1>1. Released(list, ptr) = Coalesce(Marked(list, ptr))
  BY DEF Released, Marked
<1>2. Marked(list, ptr) \in Seq(Block) /\ Len(Marked(list, ptr)) = Len(list)
  BY MarkedIs
<1>3. \A i \in 1 .. Len(list) : Marked(list, ptr)[i].size = list[i].size
  BY MarkedIs
<1>4. Words(Marked(list, ptr)) = Words(list)
  BY <1>2, <1>3, WordsSame
<1>5. QED
  BY <1>1, <1>2, <1>4, CoalesceKeeps

LEMMA Concatenated ==
    ASSUME NEW l \in Seq(Block), NEW r \in Seq(Block)
    PROVE  /\ l \o r \in Seq(Block) /\ Len(l \o r) = Len(l) + Len(r)
           /\ \A n \in 1 .. Len(l) : (l \o r)[n] = l[n]
           /\ \A n \in Len(l) + 1 .. Len(l) + Len(r) : (l \o r)[n] = r[n - Len(l)]
<1>1. Len(l) \in Nat /\ Len(r) \in Nat
  BY ListFacts
<1>2. /\ l \o r \in Seq(Block) /\ Len(l \o r) = Len(l) + Len(r)
      /\ \A n \in 1 .. Len(l) + Len(r) :
            (l \o r)[n] = IF n <= Len(l) THEN l[n] ELSE r[n - Len(l)]
  BY ConcatProperties
<1>3. QED
  BY <1>1, <1>2

LEMMA BlockChanged ==
    ASSUME NEW b \in Block, NEW s \in Nat
    PROVE  /\ LET c == [b EXCEPT !.size = s, !.free = FALSE]
              IN  c \in Block /\ c.addr = b.addr /\ c.size = s /\ ~ c.free
           /\ LET d == [b EXCEPT !.free = FALSE]
              IN  d \in Block /\ d.addr = b.addr /\ d.size = b.size /\ ~ d.free
BY DEF Block

\* malloc's split: the block is taken, and the rest follows it.
LEMMA CarveIs ==
    ASSUME heap \in Seq(Block), NEW i \in 1 .. Len(heap), NEW s \in Nat,
           heap[i].size >= s
    PROVE  LET m == Carve(i, s)
               N == Len(heap)
           IN  /\ m \in Seq(Block)
               /\ \/ /\ heap[i].size >= s + Header + Align
                     /\ Len(m) = N + 1
                     /\ \A n \in 1 .. i - 1 : m[n] = heap[n]
                     /\ \A n \in i + 2 .. N + 1 : m[n] = heap[n - 1]
                     /\ m[i].addr = heap[i].addr /\ m[i].size = s /\ ~ m[i].free
                     /\ m[i + 1].addr = Payload(heap[i]) + s
                     /\ m[i + 1].size >= Align /\ m[i + 1].free
                     /\ s + Header + m[i + 1].size = heap[i].size
                  \/ /\ ~ (heap[i].size >= s + Header + Align)
                     /\ Len(m) = N
                     /\ \A n \in 1 .. N : n # i => m[n] = heap[n]
                     /\ m[i].addr = heap[i].addr /\ m[i].size = heap[i].size
                     /\ ~ m[i].free
<1>0. PICK N \in Nat : N = Len(heap)
  BY ListFacts
<1> DEFINE b == heap[i]
           m == Carve(i, s)
           c == [b EXCEPT !.size = s, !.free = FALSE]
           d == [b EXCEPT !.free = FALSE]
           rest == [addr |-> Payload(b) + s, size |-> b.size - s - Header,
                    free |-> TRUE]
<1>1. /\ N \in Nat /\ i \in 1 .. N /\ \A n \in 1 .. N : heap[n] \in Block
      /\ b \in Block /\ b.addr \in Nat /\ b.size \in Nat /\ b.size >= s
  BY <1>0, ListFacts
<1>2. Header \in Nat /\ Align \in Nat \ {0}
  BY HeapAssumption
<1>3. CASE b.size >= s + Header + Align
  <2> DEFINE front == SubSeq(heap, 1, i - 1)
             back == SubSeq(heap, i + 1, N)
             mid == <<c, rest>>
  <2>1. m = front \o mid \o back
    BY <1>0, <1>3 DEF Carve
  <2>2. c \in Block /\ c.addr = b.addr /\ c.size = s /\ ~ c.free
        /\ rest \in Block /\ rest.size >= Align
        /\ s + Header + rest.size = b.size
    <3>1. /\ b.size - s - Header \in Nat /\ b.size - s - Header >= Align
          /\ s + Header + (b.size - s - Header) = b.size
          /\ b.addr + Header + s \in Nat
      <4>1. PICK y \in Nat : y = b.size
        BY <1>1
      <4>2. PICK x \in Nat : x = b.addr
        BY <1>1
      <4>3. /\ y - s - Header \in Nat /\ y - s - Header >= Align
            /\ s + Header + (y - s - Header) = y
            /\ x + Header + s \in Nat
        BY <1>2, <1>3, <4>1
      <4>4. QED
        BY <4>1, <4>2, <4>3
    <3>2. c \in Block /\ c.addr = b.addr /\ c.size = s /\ ~ c.free
      BY <1>1, BlockChanged
    <3> HIDE DEF c
    <3>3. QED
      BY <1>1, <3>1, <3>2 DEF Block, Payload
  <2>3. /\ front \in Seq(Block) /\ Len(front) = i - 1
        /\ \A n \in 1 .. i - 1 : front[n] = heap[n]
    <3>1. 1 \in Int /\ i - 1 \in Int /\ \A n \in 1 .. i - 1 : heap[n] \in Block
      BY <1>1
    <3>2. /\ front \in Seq(Block)
          /\ Len(front) = IF 1 <= i - 1 THEN (i - 1) - 1 + 1 ELSE 0
          /\ \A n \in 1 .. (i - 1) - 1 + 1 : front[n] = heap[1 + n - 1]
      BY <3>1, SubSeqProperties
    <3>3. QED
      BY <1>1, <3>2
  <2>4. /\ back \in Seq(Block) /\ Len(back) = N - i
        /\ \A n \in 1 .. N - i : back[n] = heap[i + n]
    <3>1. i + 1 \in Int /\ N \in Int /\ \A n \in i + 1 .. N : heap[n] \in Block
      BY <1>1
    <3>2. /\ back \in Seq(Block)
          /\ Len(back) = IF i + 1 <= N THEN N - (i + 1) + 1 ELSE 0
          /\ \A n \in 1 .. N - (i + 1) + 1 : back[n] = heap[(i + 1) + n - 1]
      BY <3>1, SubSeqProperties
    <3>3. QED
      BY <1>1, <3>2
  <2> HIDE DEF c, rest
  <2>5. mid \in Seq(Block) /\ Len(mid) = 2 /\ mid[1] = c /\ mid[2] = rest
    BY <2>2
  <2> HIDE DEF front, back, mid, m
  <2>6. /\ front \o mid \in Seq(Block) /\ Len(front \o mid) = i + 1
        /\ \A n \in 1 .. i - 1 : (front \o mid)[n] = front[n]
        /\ (front \o mid)[i] = c /\ (front \o mid)[i + 1] = rest
    <3>1. /\ front \o mid \in Seq(Block) /\ Len(front \o mid) = (i - 1) + 2
          /\ \A n \in 1 .. i - 1 : (front \o mid)[n] = front[n]
          /\ \A n \in (i - 1) + 1 .. (i - 1) + 2 :
                (front \o mid)[n] = mid[n - (i - 1)]
      <4> HIDE DEF Block
      <4>1. front \in Seq(Block) /\ mid \in Seq(Block)
        BY <2>3, <2>5
      <4>2. /\ front \o mid \in Seq(Block)
            /\ Len(front \o mid) = Len(front) + Len(mid)
            /\ \A n \in 1 .. Len(front) : (front \o mid)[n] = front[n]
            /\ \A n \in Len(front) + 1 .. Len(front) + Len(mid) :
                  (front \o mid)[n] = mid[n - Len(front)]
        BY <4>1, Concatenated
      <4>3. QED
        BY <4>2, <2>3, <2>5
    <3>2. /\ i \in (i - 1) + 1 .. (i - 1) + 2 /\ i - (i - 1) = 1
          /\ i + 1 \in (i - 1) + 1 .. (i - 1) + 2 /\ (i + 1) - (i - 1) = 2
      BY <1>1
    <3>3. (front \o mid)[i] = mid[i - (i - 1)]
          /\ (front \o mid)[i + 1] = mid[(i + 1) - (i - 1)]
      BY <3>1, <3>2
    <3>4. (front \o mid)[i] = c /\ (front \o mid)[i + 1] = rest
      BY <2>5, <3>2, <3>3
    <3>5. (i - 1) + 2 = i + 1
      BY <1>1
    <3>6. QED
      BY <3>1, <3>4, <3>5
  <2>7. /\ m \in Seq(Block) /\ Len(m) = N + 1
        /\ \A n \in 1 .. i + 1 : m[n] = (front \o mid)[n]
        /\ \A n \in i + 2 .. N + 1 : m[n] = back[n - (i + 1)]
    <3>1. /\ m \in Seq(Block) /\ Len(m) = (i + 1) + (N - i)
          /\ \A n \in 1 .. i + 1 : m[n] = (front \o mid)[n]
          /\ \A n \in (i + 1) + 1 .. (i + 1) + (N - i) : m[n] = back[n - (i + 1)]
      <4> DEFINE l == front \o mid
      <4>1. l \in Seq(Block) /\ back \in Seq(Block) /\ m = l \o back
        BY <2>1, <2>4, <2>6
      <4>2. Len(l) = i + 1 /\ Len(back) = N - i
        BY <2>4, <2>6
      <4> HIDE DEF l
      <4>3. /\ l \o back \in Seq(Block)
            /\ Len(l \o back) = Len(l) + Len(back)
            /\ \A n \in 1 .. Len(l) : (l \o back)[n] = l[n]
            /\ \A n \in Len(l) + 1 .. Len(l) + Len(back) :
                  (l \o back)[n] = back[n - Len(l)]
        BY <4>1, Concatenated
      <4>4. QED
        BY <4>1, <4>2, <4>3 DEF l
    <3>2. (i + 1) + 1 = i + 2 /\ (i + 1) + (N - i) = N + 1
      BY <1>1
    <3>3. QED
      BY <3>1, <3>2
  <2>8. ASSUME NEW n \in 1 .. i - 1 PROVE m[n] = heap[n]
    <3>1. n \in 1 .. i + 1
      BY <1>1
    <3>2. QED
      BY <2>3, <2>6, <2>7, <3>1
  <2>9. m[i] = c /\ m[i + 1] = rest
    <3>1. i \in 1 .. i + 1 /\ i + 1 \in 1 .. i + 1
      BY <1>1
    <3>2. QED
      BY <2>6, <2>7, <3>1
  <2>10. ASSUME NEW n \in i + 2 .. N + 1 PROVE m[n] = heap[n - 1]
    <3>1. n - (i + 1) \in 1 .. N - i /\ i + (n - (i + 1)) = n - 1
      BY <1>1
    <3>2. m[n] = back[n - (i + 1)]
      BY <2>7
    <3>3. back[n - (i + 1)] = heap[i + (n - (i + 1))]
      BY <2>4, <3>1
    <3>4. QED
      BY <3>1, <3>2, <3>3
  <2>11. /\ m[i].addr = b.addr /\ m[i].size = s /\ ~ m[i].free
         /\ m[i + 1].addr = Payload(b) + s /\ m[i + 1].size >= Align
         /\ m[i + 1].free /\ s + Header + m[i + 1].size = b.size
    BY <2>2, <2>9 DEF rest
  <2>12. QED
    BY <1>0, <1>3, <2>7, <2>8, <2>10, <2>11 DEF m
<1>4. CASE ~ (b.size >= s + Header + Align)
  <2>1. m = [heap EXCEPT ![i] = d]
    BY <1>4 DEF Carve
  <2>2. d \in Block /\ d.addr = b.addr /\ d.size = b.size /\ ~ d.free
    BY <1>1, BlockChanged
  <2> HIDE DEF d, m
  <2>3. /\ m \in Seq(Block) /\ Len(m) = N
        /\ \A n \in 1 .. N : m[n] = IF n = i THEN d ELSE heap[n]
    BY <1>0, <2>1, <2>2, ExceptSeq
  <2>4. m[i].addr = b.addr /\ m[i].size = b.size /\ ~ m[i].free
    BY <1>1, <2>2, <2>3
  <2>5. QED
    BY <1>0, <1>4, <2>3, <2>4 DEF m
<1>5. QED
  BY <1>3, <1>4

LEMMA CarveKeeps ==
    ASSUME heap \in Seq(Block), NoFree(heap), NEW i \in 1 .. Len(heap),
           NEW s \in Nat, heap[i].size >= s, heap[i].free
    PROVE  /\ Carve(i, s) \in Seq(Block) /\ NoFree(Carve(i, s))
           /\ Words(Carve(i, s)) = Words(heap)
<1> DEFINE N == Len(heap)
           m == Carve(i, s)
<1>1. N \in Nat /\ i \in 1 .. N /\ Header \in Nat
      /\ \A n \in 1 .. N : heap[n].size \in Nat
  BY ListFacts, HeapAssumption
<1>2. m \in Seq(Block)
  BY CarveIs
<1>3. \A n \in 1 .. N - 1 : ~ (heap[n].free /\ heap[n + 1].free)
  BY DEF NoFree
<1>4. CASE /\ Len(m) = N + 1
           /\ \A n \in 1 .. i - 1 : m[n] = heap[n]
           /\ \A n \in i + 2 .. N + 1 : m[n] = heap[n - 1]
           /\ m[i].addr = heap[i].addr /\ m[i].size = s /\ ~ m[i].free
           /\ m[i + 1].addr = Payload(heap[i]) + s
           /\ m[i + 1].size >= Align /\ m[i + 1].free
           /\ s + Header + m[i + 1].size = heap[i].size
  <2> HIDE DEF m
  <2>1. Words(m) = Words(heap)
    <3>1. m[i].size + Header + m[i + 1].size = heap[i].size
      BY <1>4
    <3>2. QED
      BY <1>1, <1>2, <1>4, <3>1, WordsSplit
  <2>2. NoFree(m)
    <3> SUFFICES ASSUME NEW n \in 1 .. N PROVE ~ (m[n].free /\ m[n + 1].free)
      BY <1>1, <1>4 DEF NoFree
    <3>1. CASE n = i \/ n + 1 = i
      BY <1>4, <3>1
    <3>2. CASE n + 1 < i
      <4>1. n \in 1 .. N - 1 /\ n \in 1 .. i - 1 /\ n + 1 \in 1 .. i - 1
        BY <1>1, <3>2
      <4>2. QED
        BY <1>3, <1>4, <4>1
    <3>3. CASE n = i + 1
      <4>1. i \in 1 .. N - 1 /\ n + 1 \in i + 2 .. N + 1 /\ n + 1 - 1 = i + 1
        BY <1>1, <3>3
      <4>2. m[n + 1] = heap[i + 1]
        BY <1>4, <4>1
      <4>3. QED
        BY <1>3, <4>1, <4>2
    <3>4. CASE n > i + 1
      <4>1. n - 1 \in 1 .. N - 1 /\ n \in i + 2 .. N + 1 /\ n - 1 + 1 = n
            /\ n + 1 \in i + 2 .. N + 1 /\ n + 1 - 1 = n
        BY <1>1, <3>4
      <4>2. m[n] = heap[n - 1] /\ m[n + 1] = heap[n]
        BY <1>4, <4>1
      <4>3. ~ (heap[n - 1].free /\ heap[n - 1 + 1].free)
        BY <1>3, <4>1
      <4>4. QED
        BY <4>1, <4>2, <4>3
    <3>5. QED
      BY <1>1, <3>1, <3>2, <3>3, <3>4
  <2>3. QED
    BY <1>2, <2>1, <2>2 DEF m
<1>5. CASE /\ Len(m) = N
           /\ \A n \in 1 .. N : n # i => m[n] = heap[n]
           /\ m[i].addr = heap[i].addr /\ m[i].size = heap[i].size
           /\ ~ m[i].free
  <2> HIDE DEF m
  <2>1. \A n \in 1 .. N : m[n].size = heap[n].size /\ (m[n].free => heap[n].free)
    BY <1>5
  <2>2. Words(m) = Words(heap)
    BY <1>2, <1>5, <2>1, WordsSame
  <2>3. NoFree(m)
    BY <1>1, <1>3, <1>5, <2>1 DEF NoFree
  <2>4. QED
    BY <1>2, <2>2, <2>3 DEF m
<1>6. QED
  BY <1>4, <1>5, CarveIs

-----------------------------------------------------------------------------
(* Sizes. *)

LEMMA Division ==
    ASSUME NEW a \in Nat, NEW b \in Nat \ {0}
    PROVE  /\ a \div b \in Nat
           /\ (a \div b) * b <= a /\ a < (a \div b) * b + b
OBVIOUS

\* A request is rounded up, and a run of pages holds it and its header.
LEMMA RoundedUp ==
    ASSUME NEW size \in Nat \ {0}
    PROVE  Rounded(size) \in Nat \ {0} /\ Rounded(size) >= size
<1>1. PICK b \in Nat \ {0} : b = Align
  BY HeapAssumption
<1>2. PICK q \in Nat : /\ q = (size + b - 1) \div b
                       /\ q * b <= size + b - 1 /\ size + b - 1 < q * b + b
  <2>1. size + b - 1 \in Nat
    OBVIOUS
  <2>2. QED
    BY <2>1, Division
<1>3. PICK r \in Nat : r = q * b
  OBVIOUS
<1>4. r >= size /\ r # 0
  BY <1>2, <1>3
<1>5. QED
  BY <1>1, <1>2, <1>3, <1>4 DEF Rounded

LEMMA PagesSuffice ==
    ASSUME NEW s \in Nat \ {0}
    PROVE  /\ PagesNeeded(s) \in Nat \ {0}
           /\ PagesNeeded(s) * PageSize \in Nat
           /\ PagesNeeded(s) * PageSize >= s + Header
<1>1. PICK b \in Nat \ {0} : b = PageSize
  BY HeapAssumption
<1>2. PICK h \in Nat : h = Header
  BY HeapAssumption
<1>3. PICK q \in Nat :
         /\ q = (s + h + b - 1) \div b
         /\ q * b <= s + h + b - 1 /\ s + h + b - 1 < q * b + b
  <2>1. s + h + b - 1 \in Nat
    OBVIOUS
  <2>2. QED
    BY <2>1, Division
<1>4. PICK r \in Nat : r = q * b
  OBVIOUS
<1>5. r >= s + h
  BY <1>3, <1>4
<1>6. q # 0
  <2>1. SUFFICES ASSUME q = 0 PROVE FALSE
    OBVIOUS
  <2>2. r = 0
    BY <1>4, <2>1
  <2>3. QED
    BY <1>5, <2>2
<1>7. PagesNeeded(s) = q
  BY <1>1, <1>2, <1>3 DEF PagesNeeded
<1>8. QED
  BY <1>1, <1>2, <1>4, <1>5, <1>6, <1>7

LEMMA FitFacts ==
    ASSUME heap \in Seq(Block), NEW s, FirstFit(s) # 0
    PROVE  /\ FirstFit(s) \in 1 .. Len(heap)
           /\ heap[FirstFit(s)].free /\ heap[FirstFit(s)].size >= s
<1> DEFINE I == {i \in 1 .. Len(heap) : heap[i].free /\ heap[i].size >= s}
<1>1. FirstFit(s) = IF I # {} THEN Min(I) ELSE 0
  BY DEF FirstFit, SelectInSeq
<1>2. I # {}
  BY <1>1
<1>3. I \in SUBSET Nat
  OBVIOUS
<1>4. Min(I) \in I
  <2> HIDE DEF I
  <2>1. QED
    BY <1>2, <1>3, MinOf
<1>5. QED
  BY <1>1, <1>2, <1>4

LEMMA BlockEnds ==
    ASSUME NEW b \in Block
    PROVE  /\ b.addr \in Nat /\ b.size \in Nat /\ Header \in Nat
           /\ Payload(b) = b.addr + Header /\ Past(b) = b.addr + Header + b.size
           /\ Payload(b) \in Nat /\ Past(b) \in Nat
<1>1. PICK x \in Nat : x = b.addr
  BY DEF Block
<1>2. PICK y \in Nat : y = b.size
  BY DEF Block
<1>3. PICK h \in Nat : h = Header
  BY HeapAssumption
<1>4. QED
  BY <1>1, <1>2, <1>3 DEF Payload, Past

\* What lies between two page boundaries lies in the pages between them.
LEMMA WithinPages ==
    ASSUME NEW P \in Nat \ {0}, NEW lo \in Nat, NEW base \in Nat, NEW a \in Nat,
           lo * P <= a, NEW e \in Nat, a < e, e <= base * P
    PROVE  (a \div P) .. ((e - 1) \div P) \subseteq lo .. (base - 1)
<1>1. PICK q \in Nat : q = a \div P /\ q * P <= a /\ a < q * P + P
  BY Division
<1>2. PICK r \in Nat : r = (e - 1) \div P /\ r * P <= e - 1
  <2>1. e - 1 \in Nat
    OBVIOUS
  <2>2. QED
    BY <2>1, Division
<1>3. \A x, y \in Nat : x * P < y * P => x < y
  OBVIOUS
<1>4. lo <= q
  <2>1. lo * P \in Nat /\ q * P \in Nat /\ (q + 1) * P = q * P + P
    OBVIOUS
  <2>2. lo * P < (q + 1) * P
    BY <1>1, <2>1
  <2>3. lo < q + 1
    BY <1>3, <2>2
  <2>4. QED
    BY <2>3
<1>5. r < base
  <2>1. r * P \in Nat /\ base * P \in Nat
    OBVIOUS
  <2>2. r * P < base * P
    BY <1>2, <2>1
  <2>3. QED
    BY <1>3, <2>2
<1>6. QED
  BY <1>1, <1>2, <1>4, <1>5

-----------------------------------------------------------------------------
(* The page allocator's invariant, which PageFramesProofs proves. *)

PP == INSTANCE PageFramesProofs

LEMMA FramesFacts ==
    /\ PP!FramesAssumption /\ Frames \subseteq Nat /\ IsFiniteSet(Frames)
<1>1. PP!FramesAssumption
  BY HeapAssumption DEF Pages!FramesAssumption, PP!FramesAssumption,
     Pages!Cardinality, PP!Cardinality, Pages!IsFiniteSet, PP!IsFiniteSet
<1>2. IsFiniteSet(Frames)
  BY HeapAssumption DEF Pages!FramesAssumption, IsFiniteSet, Pages!IsFiniteSet
<1>3. QED
  BY <1>1, <1>2, HeapAssumption DEF Pages!FramesAssumption

LEMMA PagesInit == Pages!Init => PP!IInv
<1>1. Pages!Init => PP!Init
  BY DEF Pages!Init, PP!Init, Pages!Cardinality, PP!Cardinality
<1>2. QED
  BY <1>1, PP!InitIInv, FramesFacts

\* Every frame in the heap's hands, and no others, has the holder "heap".
LEMMA PagesIgpuTest ==
    ASSUME PP!IInv, IgpuTest
    PROVE  PP!IInv' /\ HeapFrames' = HeapFrames
<1>0. PP!TypeOK /\ PP!ListIsExact /\ PP!TestHolds
  BY DEF PP!IInv
<1>1. CASE Pages!TestTakes
  <2>1. PP!TestTakes
    BY <1>1 DEF Pages!TestTakes, PP!TestTakes, Pages!Pop, PP!Pop, Pages!Top,
       PP!Top
  <2>2. /\ PP!IInv' /\ PP!Top \in PP!FreeSet
        /\ free_blocks[count - 2] \in PP!FreeSet
    BY <2>1, PP!TestTakesPreserves, FramesFacts
  <2>3. holder' = [holder EXCEPT ![PP!Top] = "test",
                                 ![free_blocks[count - 2]] = "test"]
    BY <2>1 DEF PP!TestTakes
  <2>4. HeapFrames' = HeapFrames
    BY <1>0, <2>2, <2>3 DEF HeapFrames, PP!FreeSet, PP!TypeOK
  <2>5. QED
    BY <2>2, <2>4
<1>2. CASE Pages!TestFrees
  <2>1. PP!TestFrees
    BY <1>2 DEF Pages!TestFrees, PP!TestFrees, Pages!Push, PP!Push
  <2>2. PP!IInv'
    BY <2>1, PP!TestFreesPreserves, FramesFacts
  <2>3. holder' = [holder EXCEPT ![test[1]] = "pmm", ![test[2]] = "pmm"]
        /\ test # <<>>
    BY <2>1 DEF PP!TestFrees
  <2>4. holder[test[1]] = "test" /\ holder[test[2]] = "test"
    BY <1>0, <2>3 DEF PP!TestHolds
  <2>5. HeapFrames' = HeapFrames
    BY <1>0, <2>3, <2>4 DEF HeapFrames, PP!TypeOK
  <2>6. QED
    BY <2>2, <2>5
<1>3. QED
  BY <1>1, <1>2 DEF IgpuTest

LEMMA PagesTaken ==
    ASSUME PP!IInv, NEW n \in Nat \ {0}, NEW k \in 0 .. (count - 1),
           Pages!HeapTakes(n, k)
    PROVE  /\ PP!IInv'
           /\ free_blocks[k] \in Nat
           /\ HeapFrames' = HeapFrames \cup (free_blocks[k] .. (free_blocks[k] + n - 1))
           /\ Cardinality(HeapFrames) \in Nat
           /\ Cardinality(HeapFrames') = Cardinality(HeapFrames) + n
<1> DEFINE run == free_blocks[k] .. (free_blocks[k] + n - 1)
<1>1. PP!HeapTakes(n, k)
  BY DEF Pages!HeapTakes, PP!HeapTakes, Pages!GrantedAt, PP!GrantedAt,
     Pages!IsRun, PP!IsRun, Pages!CutRun, PP!CutRun
<1>2. PP!IInv' /\ run \subseteq PP!FreeSet
  BY <1>1, PP!HeapPreserves, FramesFacts
<1>3. free_blocks[k] \in Nat
  BY FramesFacts DEF PP!IInv, PP!TypeOK, PP!Index
<1>4. holder' = [f \in Frames |-> IF f \in run THEN "heap" ELSE holder[f]]
  BY DEF Pages!HeapTakes
<1>5. run \subseteq Frames /\ run \cap HeapFrames = {}
  BY <1>2 DEF PP!FreeSet, HeapFrames
<1>6. HeapFrames' = HeapFrames \cup run
  BY <1>4, <1>5 DEF HeapFrames
<1>7. IsFiniteSet(HeapFrames) /\ Cardinality(HeapFrames) \in Nat
  <2>1. HeapFrames \in SUBSET Frames
    BY DEF HeapFrames
  <2>2. QED
    BY <2>1, FramesFacts, FS_Subset, FS_CardinalityType
<1>8. IsFiniteSet(run) /\ Cardinality(run) = n
  <2>1. PICK lo \in Nat : lo = free_blocks[k]
    BY <1>3
  <2>2. PICK hi \in Int : hi = lo + n - 1
    OBVIOUS
  <2>3. IsFiniteSet(lo .. hi)
        /\ Cardinality(lo .. hi) = IF lo > hi THEN 0 ELSE hi - lo + 1
    BY FS_Interval
  <2>4. ~ (lo > hi) /\ hi - lo + 1 = n
    BY <2>2
  <2>5. QED
    BY <2>1, <2>2, <2>3, <2>4
<1>9. Cardinality(HeapFrames \cup run) = Cardinality(HeapFrames) + n
  <2> HIDE DEF run
  <2>1. Cardinality(HeapFrames \cup run)
          = Cardinality(HeapFrames) + Cardinality(run)
            - Cardinality(HeapFrames \cap run)
    BY <1>7, <1>8, FS_Union
  <2>2. Cardinality(HeapFrames \cap run) = 0
    BY <1>5, FS_EmptySet
  <2>3. QED
    BY <1>7, <1>8, <2>1, <2>2
<1>10. QED
  BY <1>2, <1>3, <1>6, <1>7, <1>9

LEMMA RegionIs ==
    ASSUME NEW f \in Nat, NEW s \in Nat \ {0}
    PROVE  LET r == Region(f, PagesNeeded(s))
           IN  /\ r \in Block /\ r.addr = f * PageSize /\ ~ r.free
               /\ r.size >= s /\ r.size + Header = PagesNeeded(s) * PageSize
               /\ Payload(r) \in Nat
<1>1. PICK n \in Nat : n = PagesNeeded(s)
  BY PagesSuffice
<1>2. PICK w \in Nat : w = n * PageSize /\ w >= s + Header
  BY <1>1, PagesSuffice
<1>3. PICK h \in Nat : h = Header
  BY HeapAssumption
<1>4. PICK a \in Nat : a = f * PageSize
  BY HeapAssumption
<1>5. w - h \in Nat /\ w - h >= s /\ w - h + h = w
  BY <1>2, <1>3
<1>6. Region(f, PagesNeeded(s)) = [addr |-> a, size |-> w - h, free |-> FALSE]
  BY <1>1, <1>2, <1>3, <1>4 DEF Region
<1>7. QED
  BY <1>1, <1>2, <1>3, <1>4, <1>5, <1>6 DEF Block, Payload

-----------------------------------------------------------------------------
(* What holds of every heap, whatever the requests and the memory map. *)

Basic ==
    /\ PP!IInv
    /\ heap \in Seq(Block) /\ live \in SUBSET [ptr : Nat, size : Nat]
    /\ NoFree(heap) /\ WordsAreConserved

LEMMA BasicInit == Init => Basic
<1> SUFFICES ASSUME Init PROVE Basic
  OBVIOUS
<1>1. heap = <<>> /\ live = {} /\ Pages!Init
  BY DEF Init
<1>2. HeapFrames = {}
  BY <1>1 DEF HeapFrames, Pages!Init
<1>3. Cardinality(HeapFrames) * PageSize = 0
  BY <1>2, FS_EmptySet, HeapAssumption
<1>4. NoFree(heap)
  BY <1>1, EmptySeq DEF NoFree
<1>5. QED
  BY <1>1, <1>3, <1>4, EmptyWords, PagesInit DEF Basic, WordsAreConserved

\* A block found in the list, and taken.
LEMMA BasicCarve ==
    ASSUME Basic, NEW s \in Nat \ {0}, FirstFit(s) # 0
    PROVE  LET m == Carve(FirstFit(s), s)
           IN  /\ m \in Seq(Block) /\ NoFree(m) /\ Words(m) = Words(heap)
               /\ Payload(heap[FirstFit(s)]) \in Nat
<1>1. PICK i \in 1 .. Len(heap) : i = FirstFit(s)
  BY FitFacts DEF Basic
<1>2. heap[i].free /\ heap[i].size >= s
  BY <1>1, FitFacts DEF Basic
<1>3. heap[i].addr \in Nat
  BY ListFacts DEF Basic
<1>4. QED
  BY <1>1, <1>2, <1>3, CarveKeeps, HeapAssumption DEF Basic, Payload

\* Pages taken for a block at the end of the list.
LEMMA BasicRegion ==
    ASSUME Basic, NEW s \in Nat \ {0}, NEW k \in 0 .. (count - 1),
           Pages!HeapTakes(PagesNeeded(s), k)
    PROVE  LET r == Region(free_blocks[k], PagesNeeded(s))
               m == Append(heap, r)
           IN  /\ PP!IInv' /\ Payload(r) \in Nat
               /\ m \in Seq(Block) /\ NoFree(m)
               /\ Words(m) = Cardinality(HeapFrames)' * PageSize
<1> DEFINE r == Region(free_blocks[k], PagesNeeded(s))
           m == Append(heap, r)
<1>1. PICK n \in Nat \ {0} : n = PagesNeeded(s)
  BY PagesSuffice
<1>2. /\ PP!IInv' /\ free_blocks[k] \in Nat /\ Cardinality(HeapFrames) \in Nat
      /\ Cardinality(HeapFrames') = Cardinality(HeapFrames) + n
  BY <1>1, PagesTaken DEF Basic
<1>3. r \in Block /\ ~ r.free /\ r.size + Header = n * PageSize
      /\ Payload(r) \in Nat
  BY <1>1, <1>2, RegionIs
<1> HIDE DEF r
<1>4. /\ heap \in Seq(Block) /\ NoFree(heap)
      /\ Words(heap) = Cardinality(HeapFrames) * PageSize
  BY DEF Basic, WordsAreConserved
<1>5. /\ m \in Seq(Block) /\ Len(heap) \in Nat /\ Len(m) = Len(heap) + 1
      /\ \A i \in 1 .. Len(heap) : m[i] = heap[i]
      /\ m[Len(heap) + 1] = r
      /\ Words(m) = Words(heap) + Header + r.size
  BY <1>3, <1>4, Appended, WordsAppended
<1>6. NoFree(m)
  <2> SUFFICES ASSUME NEW i \in 1 .. Len(heap) PROVE ~ (m[i].free /\ m[i + 1].free)
    BY <1>5 DEF NoFree
  <2>1. CASE i = Len(heap)
    BY <1>3, <1>5, <2>1
  <2>2. CASE i # Len(heap)
    <3>1. i \in 1 .. Len(heap) - 1 /\ i + 1 \in 1 .. Len(heap)
      BY <1>5, <2>2
    <3>2. QED
      BY <1>4, <1>5, <3>1 DEF NoFree
  <2>3. QED
    BY <2>1, <2>2
<1>7. Words(m) = Cardinality(HeapFrames)' * PageSize
  <2>1. PICK c \in Nat : c = Cardinality(HeapFrames)
    BY <1>2
  <2>2. PICK b \in Nat : b = PageSize
    BY HeapAssumption
  <2>3. PICK x \in Nat : x = r.size
    BY <1>3 DEF Block
  <2>4. PICK h \in Nat : h = Header
    BY HeapAssumption
  <2>5. Words(m) = c * b + h + x /\ x + h = n * b
    BY <1>3, <1>4, <1>5, <2>1, <2>2, <2>3, <2>4
  <2>6. (c + n) * b = c * b + n * b
    OBVIOUS
  <2>7. c * b \in Nat /\ n * b \in Nat
    OBVIOUS
  <2>8. Words(m) = (c + n) * b
    BY <2>5, <2>6, <2>7
  <2>9. QED
    BY <1>2, <2>1, <2>2, <2>8
<1>8. QED
  BY <1>2, <1>3, <1>5, <1>6, <1>7 DEF r

LEMMA BasicMalloc ==
    ASSUME Basic, NEW size \in Requests, Malloc(size)
    PROVE  Basic'
<1> DEFINE s == Rounded(size)
<1>1. size \in Nat \ {0}
  BY HeapAssumption
<1>2. s \in Nat \ {0}
  BY <1>1, RoundedUp
<1> HIDE DEF s
<1>3. CASE /\ FirstFit(s) # 0
           /\ heap' = Carve(FirstFit(s), s)
           /\ live' = live \cup {[ptr |-> Payload(heap[FirstFit(s)]), size |-> size]}
           /\ UNCHANGED pageVars
  <2>1. /\ heap' \in Seq(Block) /\ NoFree(heap') /\ Words(heap') = Words(heap)
        /\ Payload(heap[FirstFit(s)]) \in Nat
    BY <1>2, <1>3, BasicCarve
  <2>2. PP!IInv' /\ HeapFrames' = HeapFrames
    BY <1>3 DEF Basic, pageVars, PP!IInv, PP!TypeOK, PP!ListIsExact,
       PP!TestHolds, PP!FreeSet, PP!Index, HeapFrames
  <2>3. live' \in SUBSET [ptr : Nat, size : Nat]
    BY <1>1, <1>3, <2>1 DEF Basic
  <2>4. WordsAreConserved'
    BY <2>1, <2>2 DEF Basic, WordsAreConserved
  <2>5. QED
    BY <2>1, <2>2, <2>3, <2>4 DEF Basic
<1>4. ASSUME NEW k \in 0 .. (count - 1),
             Pages!HeapTakes(PagesNeeded(s), k),
             heap' = Append(heap, Region(free_blocks[k], PagesNeeded(s))),
             live' = live \cup
               {[ptr |-> Payload(Region(free_blocks[k], PagesNeeded(s))),
                 size |-> size]}
      PROVE  Basic'
  <2> DEFINE r == Region(free_blocks[k], PagesNeeded(s))
  <2>1. /\ PP!IInv' /\ Payload(r) \in Nat
        /\ heap' \in Seq(Block) /\ NoFree(heap')
        /\ Words(heap') = Cardinality(HeapFrames)' * PageSize
    BY <1>2, <1>4, BasicRegion
  <2>2. live' \in SUBSET [ptr : Nat, size : Nat]
    BY <1>1, <1>4, <2>1 DEF Basic
  <2>3. WordsAreConserved'
    BY <2>1 DEF WordsAreConserved
  <2>4. QED
    BY <2>1, <2>2, <2>3 DEF Basic
<1>5. QED
  BY <1>3, <1>4 DEF Malloc, Obtain, s

LEMMA BasicFree == ASSUME Basic, NEW a \in live, Free(a) PROVE Basic'
<1>1. heap' = Released(heap, a.ptr) /\ live' = live \ {a} /\ UNCHANGED pageVars
  BY DEF Free
<1>2. heap' \in Seq(Block) /\ NoFree(heap') /\ Words(heap') = Words(heap)
  BY <1>1, ReleasedKeeps DEF Basic
<1>3. PP!IInv' /\ HeapFrames' = HeapFrames
  BY <1>1 DEF Basic, pageVars, PP!IInv, PP!TypeOK, PP!ListIsExact,
     PP!TestHolds, PP!FreeSet, PP!Index, HeapFrames
<1>4. WordsAreConserved'
  BY <1>2, <1>3 DEF Basic, WordsAreConserved
<1>5. QED
  BY <1>1, <1>2, <1>3, <1>4 DEF Basic

LEMMA BasicInPlace ==
    ASSUME Basic, NEW a \in live, NEW size \in Requests, ReallocInPlace(a, size)
    PROVE  Basic'
<1>1. /\ live' = (live \ {a}) \cup {[ptr |-> a.ptr, size |-> size]}
      /\ UNCHANGED <<pageVars, heap>>
  BY DEF ReallocInPlace
<1>2. PP!IInv' /\ HeapFrames' = HeapFrames /\ heap' = heap
  BY <1>1 DEF Basic, pageVars, PP!IInv, PP!TypeOK, PP!ListIsExact,
     PP!TestHolds, PP!FreeSet, PP!Index, HeapFrames
<1>3. size \in Nat /\ a.ptr \in Nat
  BY HeapAssumption DEF Basic
<1>4. live' \in SUBSET [ptr : Nat, size : Nat]
  BY <1>1, <1>3 DEF Basic
<1>5. WordsAreConserved' /\ NoFree(heap')
  BY <1>2 DEF Basic, WordsAreConserved
<1>6. QED
  BY <1>2, <1>4, <1>5 DEF Basic

LEMMA BasicMoves ==
    ASSUME Basic, NEW a \in live, NEW size \in Requests, ReallocMoves(a, size)
    PROVE  Basic'
<1> DEFINE s == Rounded(size)
<1>1. size \in Nat \ {0}
  BY HeapAssumption
<1>2. s \in Nat \ {0}
  BY <1>1, RoundedUp
<1> HIDE DEF s
<1>3. CASE /\ FirstFit(s) # 0
           /\ heap' = Released(Carve(FirstFit(s), s), a.ptr)
           /\ live' = (live \ {a}) \cup
                        {[ptr |-> Payload(heap[FirstFit(s)]), size |-> size]}
           /\ UNCHANGED pageVars
  <2> DEFINE m == Carve(FirstFit(s), s)
  <2>1. /\ m \in Seq(Block) /\ Words(m) = Words(heap)
        /\ Payload(heap[FirstFit(s)]) \in Nat
    BY <1>2, <1>3, BasicCarve
  <2> HIDE DEF m
  <2>2. heap' = Released(m, a.ptr)
    BY <1>3 DEF m
  <2>3. heap' \in Seq(Block) /\ NoFree(heap') /\ Words(heap') = Words(heap)
    BY <2>1, <2>2, ReleasedKeeps
  <2>4. PP!IInv' /\ HeapFrames' = HeapFrames
    BY <1>3 DEF Basic, pageVars, PP!IInv, PP!TypeOK, PP!ListIsExact,
       PP!TestHolds, PP!FreeSet, PP!Index, HeapFrames
  <2>5. live' \in SUBSET [ptr : Nat, size : Nat]
    BY <1>1, <1>3, <2>1 DEF Basic
  <2>6. WordsAreConserved'
    BY <2>3, <2>4 DEF Basic, WordsAreConserved
  <2>7. QED
    BY <2>3, <2>4, <2>5, <2>6 DEF Basic
<1>4. ASSUME NEW k \in 0 .. (count - 1),
             Pages!HeapTakes(PagesNeeded(s), k),
             heap' = Released(Append(heap, Region(free_blocks[k], PagesNeeded(s))),
                              a.ptr),
             live' = (live \ {a}) \cup
               {[ptr |-> Payload(Region(free_blocks[k], PagesNeeded(s))),
                 size |-> size]}
      PROVE  Basic'
  <2> DEFINE r == Region(free_blocks[k], PagesNeeded(s))
             m == Append(heap, r)
  <2>1. /\ PP!IInv' /\ Payload(r) \in Nat
        /\ m \in Seq(Block) /\ Words(m) = Cardinality(HeapFrames)' * PageSize
    BY <1>2, <1>4, BasicRegion
  <2>2. live' \in SUBSET [ptr : Nat, size : Nat]
    BY <1>1, <1>4, <2>1 DEF Basic
  <2>3. heap' = Released(m, a.ptr)
    BY <1>4
  <2> HIDE DEF m
  <2>4. heap' \in Seq(Block) /\ NoFree(heap') /\ Words(heap') = Words(m)
    BY <2>1, <2>3, ReleasedKeeps
  <2>5. WordsAreConserved'
    BY <2>1, <2>4 DEF WordsAreConserved
  <2>6. QED
    BY <2>1, <2>2, <2>4, <2>5 DEF Basic
<1>5. QED
  BY <1>3, <1>4 DEF ReallocMoves, Obtain, s

LEMMA BasicIgpuTest == ASSUME Basic, IgpuTest PROVE Basic'
<1>1. PP!IInv' /\ HeapFrames' = HeapFrames
  BY PagesIgpuTest DEF Basic
<1>2. heap' = heap /\ live' = live
  BY DEF IgpuTest
<1>3. QED
  BY <1>1, <1>2 DEF Basic, WordsAreConserved

LEMMA BasicInvariance == Spec => []Basic
<1>1. Basic /\ [Next]_vars => Basic'
  <2>1. Basic /\ UNCHANGED vars => Basic'
    BY DEF vars, Basic, pageVars, PP!IInv, PP!TypeOK, PP!ListIsExact,
       PP!TestHolds, PP!FreeSet, PP!Index, WordsAreConserved, HeapFrames
  <2>2. QED
    BY <2>1, BasicMalloc, BasicFree, BasicInPlace, BasicMoves, BasicIgpuTest
       DEF Next
<1>2. QED
  BY BasicInit, <1>1, PTL DEF Spec

\* The list is a list of blocks, and what callers hold are addresses and sizes,
\* whatever is asked for and however often igputest reorders the pages.
THEOREM TypeCorrect == Spec => []TypeOK
<1>1. Basic => TypeOK
  BY DEF Basic, TypeOK, PP!IInv, PP!TypeOK, Pages!TypeOK, PP!Index, Pages!Index
<1>2. QED
  BY BasicInvariance, <1>1, PTL

\* free's walk joins every pair of free neighbours, and neither malloc's split
\* nor a new region makes one: a single free never needs a second walk.
THEOREM NeighboursAreJoined == Spec => []NoFreeNeighbours
<1>1. Basic => NoFreeNeighbours
  BY DEF Basic, NoFree, NoFreeNeighbours
<1>2. QED
  BY BasicInvariance, <1>1, PTL

\* No split, join or reallocation loses or invents a word: headers and payloads
\* always add up to the pages taken.
THEOREM NoWordIsLost == Spec => []WordsAreConserved
<1>1. Basic => WordsAreConserved
  BY DEF Basic
<1>2. QED
  BY BasicInvariance, <1>1, PTL
=============================================================================
