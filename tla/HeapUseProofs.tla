---------------------------- MODULE HeapUseProofs ---------------------------
(***************************************************************************)
(* Theorems about the kernel's use of the heap, for pages in any order,    *)
(* any buffers of the model and any scratch arrays two of which fit into   *)
(* one page with the header of what is left: what is stored in the blocks  *)
(* stays in the heap's pages and apart, each holder has a block of its own *)
(* that stays as it is, nothing leaks, and the pages of the first token    *)
(* are enough for all others.                                              *)
(***************************************************************************)
EXTENDS HeapUse, HeapProofs

-----------------------------------------------------------------------------
(* The list, as the kernel leaves it. *)

ScratchWords == Rounded(Scratch)

\* Two scratch arrays, their headers and the header of what is left behind
\* them take no more than a page.
Together == 2 * (ScratchWords + Header) + Header <= PageSize

\* From a up to e, whole pages of a set.
Area(a, e, own) ==
    \E f \in Nat, m \in Nat \ {0} :
       /\ f .. (f + m - 1) \subseteq own
       /\ a = f * PageSize /\ e = f * PageSize + m * PageSize

\* The first n blocks are the model's buffers, each in pages of its own.
BuffersLie(list, n, own) ==
    /\ list \in Seq(Block) /\ n \in Nat /\ n <= Len(list)
    /\ \A i \in 1 .. n :
          ~ list[i].free /\ Area(list[i].addr, Past(list[i]), own)
    /\ \A i, j \in 1 .. n :
          i # j => Past(list[i]) <= list[j].addr \/ Past(list[j]) <= list[i].addr

\* The page at p is none of theirs.
Clear(list, n, own, p) ==
    /\ p \in Nat /\ Area(p, p + PageSize, own)
    /\ \A i \in 1 .. n : Past(list[i]) <= p \/ p + PageSize <= list[i].addr

\* The last block ends with the page, or, free, a page's length behind it.
Ends(words, free) ==
    \/ words = PageSize
    \/ words = 2 * PageSize /\ free

Is(b, addr, size, free) == b.addr = addr /\ b.size = size /\ b.free = free

\* What follows them: nothing; one block that begins with a page; a block split
\* in two, the second perhaps longer than the page; two pages; a block split
\* in three.
None(list, n) == Len(list) = n

One(list, n, p, free) ==
    /\ Len(list) = n + 1
    /\ list[n + 1].addr = p /\ list[n + 1].free = free
    /\ Ends(list[n + 1].size + Header, free)

Split(list, n, p, free1, free2) ==
    /\ Len(list) = n + 2
    /\ Is(list[n + 1], p, ScratchWords, free1)
    /\ list[n + 2].addr = p + Header + ScratchWords /\ list[n + 2].free = free2
    /\ Ends(ScratchWords + Header + list[n + 2].size + Header, free2)

Two(list, n, p, q, free1, free2) ==
    /\ Len(list) = n + 2
    /\ list[n + 1].addr = p /\ list[n + 1].free = free1
    /\ list[n + 1].size + Header = PageSize
    /\ list[n + 2].addr = q /\ list[n + 2].free = free2
    /\ list[n + 2].size + Header = PageSize
    /\ p + PageSize <= q \/ q + PageSize <= p

Three(list, n, p, free1, free2) ==
    /\ Len(list) = n + 3
    /\ Is(list[n + 1], p, ScratchWords, free1)
    /\ Is(list[n + 2], p + Header + ScratchWords, ScratchWords, free2)
    /\ list[n + 3].addr = p + 2 * Header + 2 * ScratchWords /\ list[n + 3].free
    /\ Ends(2 * (ScratchWords + Header) + list[n + 3].size + Header, TRUE)

\* Neither array, one, or both are in use; or only the second is left.
Idle(list, n, own) ==
    None(list, n) \/ \E p : Clear(list, n, own, p) /\ One(list, n, p, TRUE)

Fresh(list, n, own) == \E p : Clear(list, n, own, p) /\ One(list, n, p, FALSE)

Cut(list, n, own) ==
    \E p : Clear(list, n, own, p) /\ Split(list, n, p, FALSE, TRUE)

Pair(list, n, own, free1) ==
    \E p : /\ Clear(list, n, own, p)
           /\ \/ Split(list, n, p, free1, FALSE)
              \/ Three(list, n, p, free1, FALSE)
              \/ \E q : Clear(list, n, own, q) /\ Two(list, n, p, q, free1, FALSE)

ScratchAt(list, k) == [ptr |-> Payload(list[k]), size |-> Scratch]

\* The list and the two pointers at each step.
Stands(n) ==
    LET one == {ScratchAt(heap, n + 1)}
        two == {ScratchAt(heap, n + 2)}
    IN  \/ step = "boot" /\ probs = {} /\ indices = {} /\ None(heap, n)
        \/ step = "shell" /\ probs = {} /\ indices = {} /\ Idle(heap, n, HeapFrames)
        \/ /\ step = "probs" /\ indices = {}
           /\ \/ probs = {} /\ Idle(heap, n, HeapFrames)
              \/ probs = one /\ Fresh(heap, n, HeapFrames) /\ ~ warm
              \/ probs = one /\ Cut(heap, n, HeapFrames)
        \/ /\ step = "sample"
           /\ \/ probs = {} /\ indices = {} /\ Idle(heap, n, HeapFrames)
              \/ probs = one /\ indices = {} /\ Fresh(heap, n, HeapFrames)
              \/ /\ probs = {} /\ indices = one
                 /\ Fresh(heap, n, HeapFrames) \/ Cut(heap, n, HeapFrames)
              \/ probs = one /\ indices = two /\ Pair(heap, n, HeapFrames, FALSE)
        \/ /\ step = "free" /\ probs = {}
           /\ \/ indices = {} /\ Idle(heap, n, HeapFrames)
              \/ /\ indices = one
                 /\ Fresh(heap, n, HeapFrames) \/ Cut(heap, n, HeapFrames)
              \/ indices = two /\ Pair(heap, n, HeapFrames, TRUE)

Kept == live \ (probs \cup indices)

\* What is held is the first n blocks, one each.
Sits(held, list, n) ==
    /\ \A a \in held : \E i \in 1 .. n :
          a.ptr = Payload(list[i]) /\ a.size <= list[i].size
    /\ \A i \in 1 .. n : \E a \in held : a.ptr = Payload(list[i])
    /\ \A a, b \in held : a.ptr = b.ptr => a = b

UseInv(n) ==
    /\ PP!IInv /\ BuffersLie(heap, n, HeapFrames)
    /\ todo \in Seq(Nat \ {0}) /\ n + Len(todo) <= Len(BootRequests)
    /\ IsFiniteSet(Kept) /\ Cardinality(Kept) = n
    /\ Sits(Kept, heap, n)
    /\ probs \cup indices \subseteq live
    /\ Stands(n)
    /\ warm => Len(heap) > n

Use == \E n \in Nat : UseInv(n)

-----------------------------------------------------------------------------
(* Sizes and areas. *)

LEMMA SizeFacts ==
    ASSUME Together
    PROVE  /\ PageSize \in Nat \ {0} /\ Header \in Nat /\ Align \in Nat \ {0}
           /\ Header + Align <= PageSize
           /\ Scratch \in Nat \ {0} /\ ScratchWords \in Nat \ {0}
           /\ ScratchWords >= Scratch /\ ScratchWords >= Align
           /\ 2 * ScratchWords + 3 * Header <= PageSize
           /\ 2 * ScratchWords + 2 * Header <= PageSize
           /\ PagesNeeded(ScratchWords) = 1
<1>1. PICK b \in Nat \ {0} : b = PageSize
  BY HeapAssumption
<1>2. PICK h \in Nat : h = Header
  BY HeapAssumption
<1>3. PICK a \in Nat \ {0} : a = Align
  BY HeapAssumption
<1>4. PICK c \in Nat \ {0} : c = Scratch
  BY UseAssumption
<1>5. PICK r \in Nat \ {0} : r = ScratchWords /\ r >= c
  BY <1>4, RoundedUp DEF ScratchWords
<1>6. r >= a
  <2>1. PICK q \in Nat : q = (c + a - 1) \div a /\ c + a - 1 < q * a + a
    <3>1. c + a - 1 \in Nat
      OBVIOUS
    <3>2. QED
      BY <3>1, Division
  <2>2. r = q * a
    BY <1>3, <1>4, <1>5, <2>1 DEF ScratchWords, Rounded
  <2>3. q >= 1
    <3>1. SUFFICES ASSUME q = 0 PROVE FALSE
      OBVIOUS
    <3>2. q * a = 0
      BY <3>1
    <3>3. QED
      BY <2>1, <3>2
  <2>4. (q - 1) * a >= 0 /\ (q - 1) * a = q * a - a /\ q * a \in Nat
    BY <2>3
  <2>5. QED
    BY <2>2, <2>4
<1>7. 2 * r + 3 * h <= b /\ 2 * r + 2 * h <= b
  BY <1>1, <1>2, <1>5 DEF Together
<1>8. (r + h + b - 1) \div b = 1
  <2>1. PICK q \in Nat : /\ q = (r + h + b - 1) \div b
                         /\ q * b <= r + h + b - 1 /\ r + h + b - 1 < q * b + b
    <3>1. r + h + b - 1 \in Nat
      OBVIOUS
    <3>2. QED
      BY <3>1, Division
  <2>2. q # 0
    <3>1. SUFFICES ASSUME q = 0 PROVE FALSE
      OBVIOUS
    <3>2. q * b = 0
      BY <3>1
    <3>3. QED
      BY <2>1, <3>2
  <2>3. ~ (q >= 2)
    <3>1. SUFFICES ASSUME q >= 2 PROVE FALSE
      OBVIOUS
    <3>2. (q - 2) * b >= 0 /\ (q - 2) * b = q * b - 2 * b /\ q * b \in Nat
      BY <3>1
    <3>3. QED
      BY <1>7, <2>1, <3>2
  <2>4. QED
    BY <2>1, <2>2, <2>3
<1>9. PagesNeeded(ScratchWords) = 1
  BY <1>1, <1>2, <1>5, <1>8 DEF PagesNeeded
<1>10. h + a <= b
  BY <1>1, <1>2, <1>3, HeapAssumption
<1>11. QED
  BY <1>1, <1>2, <1>3, <1>4, <1>5, <1>6, <1>7, <1>9, <1>10

LEMMA AreaFacts ==
    ASSUME NEW a, NEW e, NEW own, Area(a, e, own)
    PROVE  a \in Nat /\ e \in Nat /\ a + PageSize <= e
<1>1. PICK b \in Nat : b = PageSize
  BY HeapAssumption
<1>2. PICK f \in Nat, m \in Nat \ {0} : a = f * b /\ e = f * b + m * b
  BY <1>1 DEF Area
<1>3. f * b \in Nat /\ m * b \in Nat /\ (m - 1) * b >= 0 /\ (m - 1) * b = m * b - b
  OBVIOUS
<1>4. QED
  BY <1>1, <1>2, <1>3

LEMMA AreaGrows ==
    ASSUME NEW a, NEW e, NEW own, Area(a, e, own), NEW more, own \subseteq more
    PROVE  Area(a, e, more)
<1>1. PICK f \in Nat, m \in Nat \ {0} :
         /\ f .. (f + m - 1) \subseteq own
         /\ a = f * PageSize /\ e = f * PageSize + m * PageSize
  BY DEF Area
<1>2. f .. (f + m - 1) \subseteq more
  BY <1>1
<1>3. QED
  BY <1>1, <1>2 DEF Area

\* Pages of two sets do not overlap if the sets do not.
LEMMA AreasApart ==
    ASSUME NEW a, NEW e, NEW own, Area(a, e, own),
           NEW b, NEW d, NEW other, Area(b, d, other), own \cap other = {}
    PROVE  e <= b \/ d <= a
<1>1. PICK w \in Nat \ {0} : w = PageSize
  BY HeapAssumption
<1>2. PICK f \in Nat, m \in Nat \ {0} :
         f .. (f + m - 1) \subseteq own /\ a = f * w /\ e = f * w + m * w
  BY <1>1 DEF Area
<1>3. PICK g \in Nat, k \in Nat \ {0} :
         g .. (g + k - 1) \subseteq other /\ b = g * w /\ d = g * w + k * w
  BY <1>1 DEF Area
<1>4. f + m <= g \/ g + k <= f
  <2>1. SUFFICES ASSUME g < f + m, f < g + k PROVE FALSE
    OBVIOUS
  <2>2. CASE f <= g
    <3>1. g \in f .. (f + m - 1) /\ g \in g .. (g + k - 1)
      BY <2>1, <2>2
    <3>2. QED
      BY <1>2, <1>3, <3>1
  <2>3. CASE g < f
    <3>1. f \in f .. (f + m - 1) /\ f \in g .. (g + k - 1)
      BY <2>1, <2>3
    <3>2. QED
      BY <1>2, <1>3, <3>1
  <2>4. QED
    BY <2>2, <2>3
<1>5. f * w \in Nat /\ g * w \in Nat /\ m * w \in Nat /\ k * w \in Nat
  OBVIOUS
<1>6. (g - f - m) * w = g * w - f * w - m * w /\ (f - g - k) * w = f * w - g * w - k * w
  OBVIOUS
<1>7. CASE f + m <= g
  <2>1. (g - f - m) * w >= 0
    BY <1>7
  <2>2. QED
    BY <1>2, <1>3, <1>5, <1>6, <2>1
<1>8. CASE g + k <= f
  <2>1. (f - g - k) * w >= 0
    BY <1>8
  <2>2. QED
    BY <1>2, <1>3, <1>5, <1>6, <2>1
<1>9. QED
  BY <1>4, <1>7, <1>8

\* What lies in an area lies in its pages.
LEMMA AreaSpans ==
    ASSUME NEW a, NEW e, NEW own, Area(a, e, own),
           NEW x \in Nat, NEW y \in Nat, a <= x, x < y, y <= e
    PROVE  (x \div PageSize) .. ((y - 1) \div PageSize) \subseteq own
<1>1. PICK w \in Nat \ {0} : w = PageSize
  BY HeapAssumption
<1>2. PICK f \in Nat, m \in Nat \ {0} :
         f .. (f + m - 1) \subseteq own /\ a = f * w /\ e = f * w + m * w
  BY <1>1 DEF Area
<1>3. PICK g \in Nat : g = f + m
  OBVIOUS
<1>4. g * w = f * w + m * w
  BY <1>3
<1>5. (x \div w) .. ((y - 1) \div w) \subseteq f .. (g - 1)
  BY <1>2, <1>4, WithinPages
<1>6. QED
  BY <1>1, <1>2, <1>3, <1>5

\* An area is longer than a header.
LEMMA AreaBlock ==
    ASSUME NEW b \in Block, NEW own, Area(b.addr, Past(b), own)
    PROVE  /\ b.size >= 1 /\ Payload(b) < Past(b) /\ b.addr <= Payload(b)
           /\ b.addr \in Nat /\ Payload(b) \in Nat /\ Past(b) \in Nat
<1>1. PICK w \in Nat : w = PageSize
  BY HeapAssumption
<1>2. PICK al \in Nat \ {0} : al = Align
  BY HeapAssumption
<1>3. PICK h \in Nat : h = Header /\ h + al <= w
  BY <1>1, <1>2, HeapAssumption
<1>4. PICK x \in Nat : x = b.addr
  BY BlockEnds
<1>5. PICK y \in Nat : y = b.size
  BY BlockEnds
<1>6. Payload(b) = x + h /\ Past(b) = x + h + y
  BY <1>3, <1>4, <1>5, BlockEnds
<1>7. x + w <= Past(b)
  BY <1>1, <1>4, AreaFacts
<1>8. y >= 1
  BY <1>3, <1>6, <1>7
<1>9. QED
  BY <1>4, <1>5, <1>6, <1>8

-----------------------------------------------------------------------------
(* The model's buffers stay where they are. *)

LEMMA BuffersStay ==
    ASSUME NEW list, NEW n, NEW own, BuffersLie(list, n, own),
           NEW m \in Seq(Block), n <= Len(m), \A i \in 1 .. n : m[i] = list[i],
           NEW more, own \subseteq more
    PROVE  /\ BuffersLie(m, n, more)
           /\ \A p : Clear(list, n, own, p) => Clear(m, n, more, p)
<1>1. ASSUME NEW i \in 1 .. n
      PROVE  ~ m[i].free /\ Area(m[i].addr, Past(m[i]), more)
  <2>1. ~ list[i].free /\ Area(list[i].addr, Past(list[i]), own) /\ m[i] = list[i]
    BY DEF BuffersLie
  <2>2. QED
    BY <2>1, AreaGrows
<1>2. ASSUME NEW p, Clear(list, n, own, p) PROVE Clear(m, n, more, p)
  <2>1. p \in Nat /\ Area(p, p + PageSize, more)
    BY <1>2, AreaGrows DEF Clear
  <2>2. QED
    BY <1>2, <2>1 DEF Clear
<1>3. QED
  BY <1>1, <1>2 DEF BuffersLie

LEMMA BufferFacts ==
    ASSUME NEW list, NEW n, NEW own, BuffersLie(list, n, own), NEW i \in 1 .. n
    PROVE  /\ i \in 1 .. Len(list) /\ list[i] \in Block /\ ~ list[i].free
           /\ list[i].size >= 1 /\ Payload(list[i]) < Past(list[i])
           /\ list[i].addr <= Payload(list[i])
           /\ list[i].addr \in Nat /\ Payload(list[i]) \in Nat
           /\ Past(list[i]) \in Nat
<1>1. /\ list \in Seq(Block) /\ n \in Nat /\ n <= Len(list)
      /\ ~ list[i].free /\ Area(list[i].addr, Past(list[i]), own)
  BY DEF BuffersLie
<1>2. i \in 1 .. Len(list)
  BY <1>1, ListFacts
<1>3. list[i] \in Block
  BY <1>1, <1>2, ListFacts
<1>4. QED
  BY <1>1, <1>2, <1>3, AreaBlock

LEMMA BuffersDiffer ==
    ASSUME NEW list, NEW n, NEW own, BuffersLie(list, n, own),
           NEW i \in 1 .. n, NEW j \in 1 .. n, Payload(list[i]) = Payload(list[j])
    PROVE  i = j
<1>1. SUFFICES ASSUME i # j PROVE FALSE
  OBVIOUS
<1>2. Past(list[i]) <= list[j].addr \/ Past(list[j]) <= list[i].addr
  BY <1>1 DEF BuffersLie
<1>3. /\ Payload(list[i]) < Past(list[i]) /\ list[i].addr <= Payload(list[i])
      /\ list[i].addr \in Nat /\ Payload(list[i]) \in Nat /\ Past(list[i]) \in Nat
  BY BufferFacts
<1>4. /\ Payload(list[j]) < Past(list[j]) /\ list[j].addr <= Payload(list[j])
      /\ list[j].addr \in Nat /\ Payload(list[j]) \in Nat /\ Past(list[j]) \in Nat
  BY BufferFacts
<1>5. QED
  BY <1>2, <1>3, <1>4

\* What begins in a clear page is none of the buffers.
LEMMA ClearDiffers ==
    ASSUME NEW list, NEW n, NEW own, BuffersLie(list, n, own),
           NEW p, Clear(list, n, own, p), NEW x \in Nat, p <= x, x < p + PageSize
    PROVE  \A i \in 1 .. n : x # Payload(list[i])
<1> TAKE i \in 1 .. n
<1>1. /\ Payload(list[i]) < Past(list[i]) /\ list[i].addr <= Payload(list[i])
      /\ list[i].addr \in Nat /\ Payload(list[i]) \in Nat /\ Past(list[i]) \in Nat
  BY BufferFacts
<1>2. p \in Nat /\ (Past(list[i]) <= p \/ p + PageSize <= list[i].addr)
  BY DEF Clear
<1>3. PageSize \in Nat
  BY HeapAssumption
<1>4. QED
  BY <1>1, <1>2, <1>3

\* Pages that are new to the heap are clear, and make another buffer.
LEMMA NewPages ==
    ASSUME NEW list, NEW n, NEW own, BuffersLie(list, n, own), NEW new,
           own \cap new = {}, NEW b \in Block, Area(b.addr, Past(b), new),
           Len(list) = n, ~ b.free
    PROVE  /\ BuffersLie(Append(list, b), n + 1, own \cup new)
           /\ Past(b) = b.addr + PageSize
                => Clear(Append(list, b), n, own \cup new, b.addr)
           /\ \A i \in 1 .. n : Past(list[i]) <= b.addr \/ Past(b) <= list[i].addr
<1> DEFINE m == Append(list, b)
<1>1. /\ m \in Seq(Block) /\ n \in Nat /\ Len(m) = n + 1
      /\ \A i \in 1 .. n : m[i] = list[i]
      /\ m[n + 1] = b
  BY Appended DEF BuffersLie
<1> HIDE DEF m
<1>2. ASSUME NEW i \in 1 .. n
      PROVE  Past(list[i]) <= b.addr \/ Past(b) <= list[i].addr
  <2>1. Area(list[i].addr, Past(list[i]), own)
    BY DEF BuffersLie
  <2>2. QED
    BY <2>1, AreasApart
<1>3. Area(b.addr, Past(b), own \cup new)
  BY AreaGrows
<1>4. ASSUME NEW i \in 1 .. n + 1
      PROVE  ~ m[i].free /\ Area(m[i].addr, Past(m[i]), own \cup new)
  <2>1. CASE i = n + 1
    BY <1>1, <1>3, <2>1
  <2>2. CASE i # n + 1
    <3>1. i \in 1 .. n
      BY <1>1, <2>2
    <3>2. ~ list[i].free /\ Area(list[i].addr, Past(list[i]), own)
      BY <3>1 DEF BuffersLie
    <3>3. QED
      BY <1>1, <3>1, <3>2, AreaGrows
  <2>3. QED
    BY <2>1, <2>2
<1>5. ASSUME NEW i \in 1 .. n + 1, NEW j \in 1 .. n + 1, i # j
      PROVE  Past(m[i]) <= m[j].addr \/ Past(m[j]) <= m[i].addr
  <2>1. CASE i = n + 1
    <3>1. j \in 1 .. n
      BY <1>1, <1>5, <2>1
    <3>2. QED
      BY <1>1, <1>2, <2>1, <3>1
  <2>2. CASE j = n + 1
    <3>1. i \in 1 .. n
      BY <1>1, <1>5, <2>2
    <3>2. QED
      BY <1>1, <1>2, <2>2, <3>1
  <2>3. CASE i # n + 1 /\ j # n + 1
    <3>1. i \in 1 .. n /\ j \in 1 .. n
      BY <1>1, <2>3
    <3>2. QED
      BY <1>1, <1>5, <3>1 DEF BuffersLie
  <2>4. QED
    BY <2>1, <2>2, <2>3
<1>6. BuffersLie(m, n + 1, own \cup new)
  <2>1. n + 1 \in Nat /\ n + 1 <= Len(m)
    BY <1>1
  <2>2. QED
    BY <1>1, <1>4, <1>5, <2>1 DEF BuffersLie
<1>7. ASSUME Past(b) = b.addr + PageSize
      PROVE  Clear(m, n, own \cup new, b.addr)
  <2>1. b.addr \in Nat
    BY BlockEnds
  <2>2. QED
    BY <1>1, <1>2, <1>3, <1>7, <2>1 DEF Clear
<1>8. QED
  BY <1>2, <1>6, <1>7 DEF m

-----------------------------------------------------------------------------
(* free's walk over such a list. *)

\* Up to the first two free neighbours the walk changes nothing.
LEMMA CoalescePrefix ==
    ASSUME NEW list \in Seq(Block), NEW f, f[0] = <<>>,
           \A n \in 1 .. Len(list) : f[n] = Join(f[n - 1], list[n]),
           NEW K \in 0 .. Len(list),
           \A i \in 1 .. K - 1 : ~ (list[i].free /\ list[i + 1].free)
    PROVE  /\ f[K] \in Seq(Block) /\ Len(f[K]) = K
           /\ \A i \in 1 .. K : f[K][i] = list[i]
<1> DEFINE Same(n) == /\ f[n] \in Seq(Block) /\ Len(f[n]) = n
                      /\ \A i \in 1 .. n : f[n][i] = list[i]
           S == {n \in Nat : n <= K => Same(n)}
<1>1. Len(list) \in Nat /\ K \in Nat /\ \A n \in 1 .. Len(list) : list[n] \in Block
  BY ListFacts
<1>2. 0 \in S
  <2>1. f[0] \in Seq(Block) /\ Len(f[0]) = 0
    BY EmptyWords, EmptySeq
  <2>2. \A i \in 1 .. 0 : f[0][i] = list[i]
    OBVIOUS
  <2>3. QED
    BY <2>1, <2>2
<1>3. ASSUME NEW n \in Nat, n \in S PROVE n + 1 \in S
  <2>1. SUFFICES ASSUME n + 1 <= K PROVE Same(n + 1)
    OBVIOUS
  <2>2. n + 1 \in 1 .. Len(list) /\ n + 1 - 1 = n /\ n <= K
    BY <1>1, <2>1
  <2>3. Same(n)
    BY <1>3, <2>2
  <2>4. f[n + 1] = Join(f[n], list[n + 1]) /\ list[n + 1] \in Block
    BY <1>1, <2>2
  <2>5. ~ (f[n] # <<>> /\ f[n][Len(f[n])].free /\ list[n + 1].free)
    <3>1. CASE n = 0
      BY <2>3, <3>1, ListFacts
    <3>2. CASE n # 0
      <4>1. n \in 1 .. K - 1 /\ n \in 1 .. n
        BY <1>1, <2>1, <3>2
      <4>2. ~ (list[n].free /\ list[n + 1].free)
        BY <4>1
      <4>3. f[n][Len(f[n])] = list[n]
        BY <2>3, <4>1
      <4>4. QED
        BY <4>2, <4>3
    <3>3. QED
      BY <3>1, <3>2
  <2>6. f[n + 1] = Append(f[n], list[n + 1])
    BY <2>3, <2>4, <2>5, JoinIs
  <2>7. /\ f[n + 1] \in Seq(Block) /\ Len(f[n + 1]) = n + 1
        /\ \A i \in 1 .. n : f[n + 1][i] = f[n][i]
        /\ f[n + 1][n + 1] = list[n + 1]
    BY <2>3, <2>4, <2>6, Appended
  <2>8. ASSUME NEW i \in 1 .. n + 1 PROVE f[n + 1][i] = list[i]
    <3>1. i = n + 1 \/ i \in 1 .. n
      OBVIOUS
    <3>2. QED
      BY <2>3, <2>7, <3>1
  <2>9. QED
    BY <2>7, <2>8
<1> HIDE DEF S
<1>4. Nat \subseteq S
  BY <1>2, <1>3, SetInduction
<1>5. QED
  BY <1>1, <1>4 DEF S

\* With no two free neighbours it changes nothing at all.
LEMMA CoalesceNothing ==
    ASSUME NEW list \in Seq(Block), NoFree(list)
    PROVE  Coalesce(list) = list
<1>1. PICK f : /\ f[0] = <<>>
               /\ \A n \in 1 .. Len(list) : f[n] = Join(f[n - 1], list[n])
               /\ Coalesce(list) = f[Len(list)]
  BY CoalesceWalk
<1>2. Len(list) \in 0 .. Len(list)
  BY ListFacts
<1>3. /\ f[Len(list)] \in Seq(Block) /\ Len(f[Len(list)]) = Len(list)
      /\ \A i \in 1 .. Len(list) : f[Len(list)][i] = list[i]
  BY <1>1, <1>2, CoalescePrefix DEF NoFree
<1>4. QED
  BY <1>1, <1>3, SeqEqual

\* One more free block behind a free one.
LEMMA JoinFree ==
    ASSUME NEW list \in Seq(Block), NEW k \in Nat, Len(list) = k + 1,
           list[k + 1].free, NEW b \in Block, b.free
    PROVE  LET m == Join(list, b)
           IN  /\ m \in Seq(Block) /\ Len(m) = k + 1
               /\ \A i \in 1 .. k : m[i] = list[i]
               /\ m[k + 1].addr = list[k + 1].addr /\ m[k + 1].free
               /\ m[k + 1].size = list[k + 1].size + Header + b.size
<1>1. list # <<>>
  BY ListFacts
<1>2. Join(list, b) = Longer(list, Header + b.size)
  BY <1>1, JoinIs
<1>3. PICK h \in Nat : h = Header
  BY HeapAssumption
<1>4. PICK y \in Nat : y = b.size
  BY DEF Block
<1>5. k + 1 \in 1 .. Len(list)
  OBVIOUS
<1>6. PICK x \in Nat : x = list[k + 1].size
  BY <1>5, ListFacts
<1>7. Header + b.size \in Nat
  BY <1>3, <1>4
<1> DEFINE m == Longer(list, Header + b.size)
<1>8. /\ m \in Seq(Block) /\ Len(m) = Len(list)
      /\ \A i \in 1 .. Len(list) - 1 : m[i] = list[i]
      /\ m[Len(list)] = [addr |-> list[Len(list)].addr,
                         size |-> list[Len(list)].size + (Header + b.size),
                         free |-> list[Len(list)].free]
  BY <1>1, <1>7, Lengthened
<1> HIDE DEF m
<1>9. /\ m[k + 1].addr = list[k + 1].addr /\ m[k + 1].free
      /\ m[k + 1].size = list[k + 1].size + (Header + b.size)
  BY <1>8
<1>10. m[k + 1].size = list[k + 1].size + Header + b.size
  BY <1>3, <1>4, <1>6, <1>9
<1>11. QED
  BY <1>2, <1>8, <1>9, <1>10 DEF m

\* Two or three free blocks at the end of the list become one.
LEMMA CoalesceEnd ==
    ASSUME NEW list \in Seq(Block), NEW n \in Nat, n + 2 <= Len(list),
           Len(list) <= n + 3, \A i \in 1 .. n : ~ list[i].free,
           \A i \in n + 1 .. Len(list) : list[i].free
    PROVE  LET m == Coalesce(list)
               two == list[n + 1].size + Header + list[n + 2].size
           IN  /\ m \in Seq(Block) /\ Len(m) = n + 1
               /\ \A i \in 1 .. n : m[i] = list[i]
               /\ m[n + 1].addr = list[n + 1].addr /\ m[n + 1].free
               /\ m[n + 1].size = IF Len(list) = n + 2 THEN two
                                  ELSE two + Header + list[n + 3].size
<1>1. PICK f : /\ f[0] = <<>>
               /\ \A k \in 1 .. Len(list) : f[k] = Join(f[k - 1], list[k])
               /\ Coalesce(list) = f[Len(list)]
  BY CoalesceWalk
<1>2. Len(list) \in Nat /\ \A i \in 1 .. Len(list) : list[i] \in Block
  BY ListFacts
<1>3. n + 1 \in 0 .. Len(list)
  BY <1>2
<1>4. \A i \in 1 .. n + 1 - 1 : ~ (list[i].free /\ list[i + 1].free)
  OBVIOUS
<1>5. /\ f[n + 1] \in Seq(Block) /\ Len(f[n + 1]) = n + 1
      /\ \A i \in 1 .. n + 1 : f[n + 1][i] = list[i]
  BY <1>1, <1>3, <1>4, CoalescePrefix
<1>6. /\ n + 1 \in 1 .. n + 1 /\ n + 1 \in n + 1 .. Len(list)
      /\ n + 2 \in n + 1 .. Len(list) /\ n + 2 \in 1 .. Len(list)
      /\ n + 2 - 1 = n + 1
  BY <1>2
<1>7. f[n + 1][n + 1] = list[n + 1] /\ list[n + 1].free /\ list[n + 2].free
      /\ list[n + 2] \in Block /\ f[n + 2] = Join(f[n + 1], list[n + 2])
  BY <1>1, <1>2, <1>5, <1>6
<1>8. /\ f[n + 2] \in Seq(Block) /\ Len(f[n + 2]) = n + 1
      /\ \A i \in 1 .. n : f[n + 2][i] = f[n + 1][i]
      /\ f[n + 2][n + 1].addr = list[n + 1].addr /\ f[n + 2][n + 1].free
      /\ f[n + 2][n + 1].size = list[n + 1].size + Header + list[n + 2].size
  BY <1>5, <1>7, JoinFree
<1>9. \A i \in 1 .. n : f[n + 2][i] = list[i]
  BY <1>5, <1>8
<1>10. CASE Len(list) = n + 2
  BY <1>1, <1>8, <1>9, <1>10
<1>11. CASE Len(list) = n + 3
  <2>1. /\ n + 3 \in n + 1 .. Len(list) /\ n + 3 \in 1 .. Len(list)
        /\ n + 3 - 1 = n + 2 /\ n + 3 # n + 2
    BY <1>11
  <2>2. list[n + 3].free /\ list[n + 3] \in Block
        /\ f[n + 3] = Join(f[n + 2], list[n + 3])
    BY <1>1, <1>2, <2>1
  <2>3. /\ f[n + 3] \in Seq(Block) /\ Len(f[n + 3]) = n + 1
        /\ \A i \in 1 .. n : f[n + 3][i] = f[n + 2][i]
        /\ f[n + 3][n + 1].addr = f[n + 2][n + 1].addr /\ f[n + 3][n + 1].free
        /\ f[n + 3][n + 1].size = f[n + 2][n + 1].size + Header + list[n + 3].size
    BY <1>8, <2>2, JoinFree
  <2>4. \A i \in 1 .. n : f[n + 3][i] = list[i]
    BY <1>9, <2>3
  <2>5. QED
    BY <1>1, <1>8, <1>11, <2>1, <2>3, <2>4
<1>12. QED
  BY <1>2, <1>10, <1>11

-----------------------------------------------------------------------------
(* malloc of a scratch array. *)

LEMMA FitNone ==
    ASSUME heap \in Seq(Block), NEW s,
           \A i \in 1 .. Len(heap) : ~ (heap[i].free /\ heap[i].size >= s)
    PROVE  FirstFit(s) = 0
BY FitFacts

LEMMA FitOnly ==
    ASSUME heap \in Seq(Block), NEW s, NEW k \in 1 .. Len(heap),
           heap[k].free, heap[k].size >= s,
           \A i \in 1 .. Len(heap) : i # k => ~ heap[i].free
    PROVE  FirstFit(s) = k
<1> DEFINE I == {i \in 1 .. Len(heap) : heap[i].free /\ heap[i].size >= s}
<1>1. FirstFit(s) = IF I # {} THEN Min(I) ELSE 0
  BY DEF FirstFit, SelectInSeq
<1>2. k \in I
  OBVIOUS
<1>3. I \in SUBSET Nat
  OBVIOUS
<1>4. \A i \in I : i = k
  OBVIOUS
<1> HIDE DEF I
<1>5. Min(I) \in I
  BY <1>2, <1>3, MinOf
<1>6. QED
  BY <1>1, <1>2, <1>4, <1>5

\* The pages of a new block were nobody's in the heap.
LEMMA RegionTaken ==
    ASSUME PP!IInv, NEW s \in Nat \ {0}, NEW k \in 0 .. (count - 1),
           Pages!HeapTakes(PagesNeeded(s), k)
    PROVE  LET b == Region(free_blocks[k], PagesNeeded(s))
           IN  /\ PP!IInv' /\ b \in Block /\ ~ b.free
               /\ b.size + Header = PagesNeeded(s) * PageSize
               /\ \E new : /\ HeapFrames \cap new = {}
                           /\ HeapFrames' = HeapFrames \cup new
                           /\ Area(b.addr, Past(b), new)
<1> DEFINE b == Region(free_blocks[k], PagesNeeded(s))
<1>1. PICK n \in Nat \ {0} : n = PagesNeeded(s)
  BY PagesSuffice
<1>2. PICK f \in Nat : f = free_blocks[k]
  BY <1>1, PagesTaken
<1> DEFINE new == f .. (f + n - 1)
<1>3. PP!IInv' /\ HeapFrames' = HeapFrames \cup new
  BY <1>1, <1>2, PagesTaken
<1>4. PP!HeapTakes(n, k)
  BY <1>1 DEF Pages!HeapTakes, PP!HeapTakes, Pages!GrantedAt, PP!GrantedAt,
     Pages!IsRun, PP!IsRun, Pages!CutRun, PP!CutRun
<1>5. new \subseteq PP!FreeSet
  BY <1>2, <1>4, PP!HeapPreserves, FramesFacts
<1>6. HeapFrames \cap new = {}
  BY <1>5 DEF PP!FreeSet, HeapFrames
<1>7. /\ b \in Block /\ b.addr = f * PageSize /\ ~ b.free
      /\ b.size + Header = n * PageSize
  BY <1>1, <1>2, RegionIs
<1>8. Past(b) = f * PageSize + n * PageSize
  <2>1. PICK w \in Nat : w = n * PageSize
    BY HeapAssumption
  <2>2. PICK a \in Nat : a = f * PageSize
    BY HeapAssumption
  <2>3. PICK h \in Nat : h = Header
    BY HeapAssumption
  <2>4. PICK y \in Nat : y = b.size
    BY <1>7, BlockEnds
  <2> HIDE DEF b
  <2>5. Past(b) = a + h + y /\ y + h = w
    BY <1>7, <2>1, <2>2, <2>3, <2>4, BlockEnds
  <2>6. QED
    BY <2>1, <2>2, <2>5
<1>9. Area(b.addr, Past(b), new)
  BY <1>7, <1>8 DEF Area
<1>10. QED
  BY <1>1, <1>3, <1>6, <1>7, <1>9

\* A page that is new to the heap is clear of everything.
LEMMA NewClear ==
    ASSUME NEW list, NEW n, NEW own, BuffersLie(list, n, own), NEW new,
           own \cap new = {}, NEW b \in Block, Area(b.addr, Past(b), new),
           Past(b) = b.addr + PageSize
    PROVE  LET m == Append(list, b)
           IN  /\ BuffersLie(m, n, own \cup new)
               /\ Clear(m, n, own \cup new, b.addr)
               /\ \A p : Clear(list, n, own, p) =>
                     /\ Clear(m, n, own \cup new, p)
                     /\ p + PageSize <= b.addr \/ b.addr + PageSize <= p
<1> DEFINE m == Append(list, b)
<1>1. list \in Seq(Block) /\ n \in Nat /\ n <= Len(list)
  BY DEF BuffersLie
<1>2. /\ m \in Seq(Block) /\ Len(list) \in Nat /\ Len(m) = Len(list) + 1
      /\ \A i \in 1 .. Len(list) : m[i] = list[i]
  BY <1>1, Appended
<1> HIDE DEF m
<1>3. n <= Len(m) /\ \A i \in 1 .. n : m[i] = list[i]
  BY <1>1, <1>2
<1>4. own \subseteq own \cup new /\ new \subseteq own \cup new
  OBVIOUS
<1>5. /\ BuffersLie(m, n, own \cup new)
      /\ \A p : Clear(list, n, own, p) => Clear(m, n, own \cup new, p)
  BY <1>2, <1>3, <1>4, BuffersStay
<1>6. b.addr \in Nat /\ Area(b.addr, b.addr + PageSize, own \cup new)
  BY <1>4, AreaGrows, BlockEnds
<1>7. ASSUME NEW i \in 1 .. n
      PROVE  Past(m[i]) <= b.addr \/ b.addr + PageSize <= m[i].addr
  <2>1. Area(list[i].addr, Past(list[i]), own) /\ m[i] = list[i]
    BY <1>3 DEF BuffersLie
  <2>2. QED
    BY <2>1, AreasApart
<1>8. Clear(m, n, own \cup new, b.addr)
  BY <1>6, <1>7 DEF Clear
<1>9. ASSUME NEW p, Clear(list, n, own, p)
      PROVE  p + PageSize <= b.addr \/ b.addr + PageSize <= p
  <2>1. Area(p, p + PageSize, own)
    BY <1>9 DEF Clear
  <2>2. QED
    BY <2>1, AreasApart
<1>10. QED
  BY <1>5, <1>8, <1>9 DEF m

\* How malloc may end.
Refused == UNCHANGED vars /\ FirstFit(ScratchWords) = 0

Carved == LET i == FirstFit(ScratchWords)
          IN  /\ i # 0 /\ heap' = Carve(i, ScratchWords)
              /\ live' = live \cup {ScratchAt(heap, i)}
              /\ UNCHANGED pageVars

Paged ==
    /\ FirstFit(ScratchWords) = 0
    /\ \E b \in Block :
          /\ ~ b.free /\ b.size + Header = PageSize /\ Past(b) = b.addr + PageSize
          /\ \E new : /\ HeapFrames \cap new = {}
                      /\ HeapFrames' = HeapFrames \cup new
                      /\ Area(b.addr, Past(b), new)
          /\ heap' = Append(heap, b)
          /\ live' = live \cup {[ptr |-> Payload(b), size |-> Scratch]}

LEMMA PagesSame ==
    ASSUME PP!IInv, UNCHANGED pageVars
    PROVE  PP!IInv' /\ HeapFrames' = HeapFrames /\ holder' = holder
BY DEF pageVars, PP!IInv, PP!TypeOK, PP!ListIsExact, PP!TestHolds,
   PP!FreeSet, PP!Index, HeapFrames

LEMMA AskEnds ==
    ASSUME Together, PP!IInv, heap \in Seq(Block), Asks(Scratch)
    PROVE  PP!IInv' /\ (Refused \/ Carved \/ Paged)
<1>1. CASE MallocFails(Scratch)
  <2>1. UNCHANGED vars /\ FirstFit(ScratchWords) = 0
    BY <1>1 DEF MallocFails, ScratchWords
  <2>2. UNCHANGED pageVars
    BY <2>1 DEF vars
  <2>3. QED
    BY <2>1, <2>2, PagesSame DEF Refused
<1>2. CASE Malloc(Scratch)
  <2>1. CASE Carved
    BY <2>1, PagesSame DEF Carved
  <2>2. ASSUME NEW k \in 0 .. (count - 1), FirstFit(ScratchWords) = 0,
               Pages!HeapTakes(PagesNeeded(ScratchWords), k),
               heap' = Append(heap, Region(free_blocks[k], PagesNeeded(ScratchWords))),
               live' = live \cup
                 {[ptr |-> Payload(Region(free_blocks[k], PagesNeeded(ScratchWords))),
                   size |-> Scratch]}
        PROVE  PP!IInv' /\ Paged
    <3> DEFINE b == Region(free_blocks[k], PagesNeeded(ScratchWords))
    <3>1. ScratchWords \in Nat \ {0} /\ PagesNeeded(ScratchWords) = 1
      BY SizeFacts
    <3>2. /\ PP!IInv' /\ b \in Block /\ ~ b.free
          /\ b.size + Header = PagesNeeded(ScratchWords) * PageSize
          /\ \E new : /\ HeapFrames \cap new = {}
                      /\ HeapFrames' = HeapFrames \cup new
                      /\ Area(b.addr, Past(b), new)
      BY <2>2, <3>1, RegionTaken
    <3>3. heap' = Append(heap, b)
          /\ live' = live \cup {[ptr |-> Payload(b), size |-> Scratch]}
      BY <2>2
    <3> HIDE DEF b
    <3>4. PageSize \in Nat
      BY HeapAssumption
    <3>5. b.size + Header = PageSize
      BY <3>1, <3>2, <3>4
    <3>6. Past(b) = b.addr + PageSize
      BY <3>2, <3>4, <3>5, BlockEnds
    <3>7. QED
      BY <2>2, <3>2, <3>3, <3>5, <3>6 DEF Paged
  <2>3. QED
    BY <1>2, <2>1, <2>2 DEF Malloc, Obtain, ScratchWords, Carved, ScratchAt
<1>3. QED
  BY <1>1, <1>2 DEF Asks

\* Taking a block behind the buffers leaves the buffers alone.
LEMMA CarveBehind ==
    ASSUME NEW n, BuffersLie(heap, n, HeapFrames), NEW k \in n + 1 .. Len(heap),
           heap[k].size >= ScratchWords
    PROVE  LET m == Carve(k, ScratchWords)
           IN  /\ BuffersLie(m, n, HeapFrames)
               /\ \A p : Clear(heap, n, HeapFrames, p) => Clear(m, n, HeapFrames, p)
               /\ m \in Seq(Block)
               /\ \A i \in 1 .. k - 1 : m[i] = heap[i]
               /\ m[k].addr = heap[k].addr /\ m[k].free = FALSE
               /\ IF heap[k].size >= ScratchWords + Header + Align
                  THEN /\ Len(m) = Len(heap) + 1
                       /\ m[k].size = ScratchWords
                       /\ m[k + 1].addr = heap[k].addr + Header + ScratchWords
                       /\ m[k + 1].free = TRUE
                       /\ ScratchWords + Header + m[k + 1].size = heap[k].size
                  ELSE Len(m) = Len(heap) /\ m[k].size = heap[k].size
<1> DEFINE m == Carve(k, ScratchWords)
<1>1. /\ heap \in Seq(Block) /\ n \in Nat /\ n <= Len(heap) /\ Len(heap) \in Nat
      /\ k \in 1 .. Len(heap)
  BY ListFacts DEF BuffersLie
<1>2. ScratchWords \in Nat
  BY UseAssumption, RoundedUp DEF ScratchWords
<1>3. heap[k] \in Block
  BY <1>1, ListFacts
<1>4. Payload(heap[k]) + ScratchWords = heap[k].addr + Header + ScratchWords
  BY <1>3, BlockEnds
<1>5. /\ m \in Seq(Block)
      /\ \/ /\ heap[k].size >= ScratchWords + Header + Align
            /\ Len(m) = Len(heap) + 1
            /\ \A i \in 1 .. k - 1 : m[i] = heap[i]
            /\ m[k].addr = heap[k].addr /\ m[k].size = ScratchWords /\ ~ m[k].free
            /\ m[k + 1].addr = Payload(heap[k]) + ScratchWords
            /\ m[k + 1].free
            /\ ScratchWords + Header + m[k + 1].size = heap[k].size
         \/ /\ ~ (heap[k].size >= ScratchWords + Header + Align)
            /\ Len(m) = Len(heap)
            /\ \A i \in 1 .. Len(heap) : i # k => m[i] = heap[i]
            /\ m[k].addr = heap[k].addr /\ m[k].size = heap[k].size
            /\ ~ m[k].free
  BY <1>1, <1>2, CarveIs
<1> HIDE DEF m
<1>6. \A i \in 1 .. k - 1 : m[i] = heap[i]
  BY <1>1, <1>5
<1>7. n <= Len(m) /\ k \in 1 .. Len(m)
      /\ (heap[k].size >= ScratchWords + Header + Align => k + 1 \in 1 .. Len(m))
  BY <1>1, <1>5
<1>8. m[k].free = FALSE
  BY <1>5, <1>7, ListFacts
<1>9. heap[k].size >= ScratchWords + Header + Align => m[k + 1].free = TRUE
  BY <1>5, <1>7, ListFacts
<1>10. \A i \in 1 .. n : m[i] = heap[i]
  BY <1>1, <1>6
<1>11. /\ BuffersLie(m, n, HeapFrames)
       /\ \A p : Clear(heap, n, HeapFrames, p) => Clear(m, n, HeapFrames, p)
  BY <1>5, <1>7, <1>10, BuffersStay
<1>12. QED
  BY <1>4, <1>5, <1>6, <1>8, <1>9, <1>11 DEF m

Gains(k) == live' = live \cup {ScratchAt(heap', k)}

LEMMA PagedBehind ==
    ASSUME Paged, NEW n, BuffersLie(heap, n, HeapFrames)
    PROVE  /\ BuffersLie(heap', n, HeapFrames')
           /\ Len(heap') = Len(heap) + 1 /\ Len(heap) \in Nat
           /\ \A i \in 1 .. Len(heap) : heap'[i] = heap[i]
           /\ Gains(Len(heap) + 1)
           /\ LET b == heap'[Len(heap) + 1]
              IN  /\ b.free = FALSE /\ b.size + Header = PageSize
                  /\ Clear(heap', n, HeapFrames', b.addr)
                  /\ \A p : Clear(heap, n, HeapFrames, p) =>
                        /\ Clear(heap', n, HeapFrames', p)
                        /\ p + PageSize <= b.addr \/ b.addr + PageSize <= p
<1>1. PICK b \in Block :
            /\ ~ b.free /\ b.size + Header = PageSize /\ Past(b) = b.addr + PageSize
            /\ \E new : /\ HeapFrames \cap new = {}
                        /\ HeapFrames' = HeapFrames \cup new
                        /\ Area(b.addr, Past(b), new)
            /\ heap' = Append(heap, b)
            /\ live' = live \cup {[ptr |-> Payload(b), size |-> Scratch]}
  BY DEF Paged
<1>2. PICK new : /\ HeapFrames \cap new = {}
                 /\ HeapFrames' = HeapFrames \cup new
                 /\ Area(b.addr, Past(b), new)
  BY <1>1
<1>3. /\ BuffersLie(heap', n, HeapFrames') /\ Clear(heap', n, HeapFrames', b.addr)
      /\ \A p : Clear(heap, n, HeapFrames, p) =>
            /\ Clear(heap', n, HeapFrames', p)
            /\ p + PageSize <= b.addr \/ b.addr + PageSize <= p
  BY <1>1, <1>2, NewClear
<1>4. /\ Len(heap) \in Nat /\ Len(heap') = Len(heap) + 1
      /\ \A i \in 1 .. Len(heap) : heap'[i] = heap[i]
      /\ heap'[Len(heap) + 1] = b
  BY <1>1, Appended DEF BuffersLie
<1>5. b.free = FALSE
  BY <1>1 DEF Block
<1>6. QED
  BY <1>1, <1>3, <1>4, <1>5 DEF Gains, ScratchAt

\* malloc does not touch the buffers.
LEMMA AskLeaves ==
    ASSUME Together, PP!IInv, NEW n, BuffersLie(heap, n, HeapFrames), Asks(Scratch)
    PROVE  \A i \in 1 .. n : heap'[i] = heap[i]
<1>1. /\ heap \in Seq(Block) /\ n \in Nat /\ n <= Len(heap) /\ Len(heap) \in Nat
  BY ListFacts DEF BuffersLie
<1>2. Refused \/ Carved \/ Paged
  BY <1>1, AskEnds
<1>3. CASE Refused
  BY <1>3 DEF Refused, vars
<1>4. CASE Paged
  <2>1. \A i \in 1 .. Len(heap) : heap'[i] = heap[i]
    BY <1>4, PagedBehind
  <2>2. \A i \in 1 .. n : i \in 1 .. Len(heap)
    BY <1>1
  <2>3. QED
    BY <2>1, <2>2
<1>5. CASE Carved
  <2>1. PICK k : k = FirstFit(ScratchWords)
    OBVIOUS
  <2>2. k # 0 /\ heap' = Carve(k, ScratchWords)
    BY <1>5, <2>1 DEF Carved
  <2>3. k \in 1 .. Len(heap) /\ heap[k].free /\ heap[k].size >= ScratchWords
    BY <1>1, <2>1, <2>2, FitFacts
  <2>4. ~ (k \in 1 .. n)
    BY <2>3 DEF BuffersLie
  <2>5. k \in n + 1 .. Len(heap)
    BY <1>1, <2>3, <2>4
  <2>6. \A i \in 1 .. k - 1 : heap'[i] = heap[i]
    BY <2>2, <2>3, <2>5, CarveBehind
  <2>7. QED
    BY <1>1, <2>5, <2>6
<1>6. QED
  BY <1>2, <1>3, <1>4, <1>5

LEMMA AskIdle ==
    ASSUME Together, PP!IInv, NEW n, BuffersLie(heap, n, HeapFrames),
           Idle(heap, n, HeapFrames), Asks(Scratch)
    PROVE  /\ PP!IInv' /\ BuffersLie(heap', n, HeapFrames')
           /\ \/ UNCHANGED vars /\ None(heap, n) /\ HeapFrames' = HeapFrames
              \/ Gains(n + 1) /\ None(heap, n) /\ Fresh(heap', n, HeapFrames')
              \/ /\ Gains(n + 1) /\ ~ None(heap, n) /\ Cut(heap', n, HeapFrames')
                 /\ HeapFrames' = HeapFrames /\ holder' = holder
<1>1. heap \in Seq(Block) /\ n \in Nat /\ Len(heap) \in Nat
  BY ListFacts DEF BuffersLie
<1>2. PP!IInv' /\ (Refused \/ Carved \/ Paged)
  BY <1>1, AskEnds
<1>3. \A i \in 1 .. n : ~ heap[i].free
  BY DEF BuffersLie
<1>4. CASE None(heap, n)
  <2>1. Len(heap) = n
    BY <1>4 DEF None
  <2>2. FirstFit(ScratchWords) = 0
    BY <1>1, <1>3, <2>1, FitNone
  <2>3. CASE Refused
    <3>1. UNCHANGED vars /\ UNCHANGED pageVars /\ heap' = heap
      BY <2>3 DEF Refused, vars
    <3>2. HeapFrames' = HeapFrames
      BY <3>1, PagesSame
    <3>3. QED
      BY <1>2, <1>4, <3>1, <3>2
  <2>4. CASE Paged
    <3> DEFINE b == heap'[n + 1]
    <3>1. /\ BuffersLie(heap', n, HeapFrames') /\ Len(heap') = n + 1 /\ Gains(n + 1)
          /\ b.free = FALSE /\ b.size + Header = PageSize
          /\ Clear(heap', n, HeapFrames', b.addr)
      BY <2>1, <2>4, PagedBehind
    <3>2. One(heap', n, b.addr, FALSE)
      BY <3>1 DEF One, Ends
    <3>3. Fresh(heap', n, HeapFrames')
      BY <3>1, <3>2 DEF Fresh
    <3>4. QED
      BY <1>2, <1>4, <3>1, <3>3
  <2>5. ~ Carved
    BY <2>2 DEF Carved
  <2>6. QED
    BY <1>2, <2>3, <2>4, <2>5
<1>5. CASE ~ None(heap, n)
  <2>1. PICK p : Clear(heap, n, HeapFrames, p) /\ One(heap, n, p, TRUE)
    BY <1>5 DEF Idle
  <2>2. /\ Len(heap) = n + 1 /\ heap[n + 1].addr = p /\ heap[n + 1].free
        /\ \/ heap[n + 1].size + Header = PageSize
           \/ heap[n + 1].size + Header = 2 * PageSize
    BY <2>1 DEF One, Ends
  <2>3. n + 1 \in 1 .. Len(heap) /\ n + 1 \in n + 1 .. Len(heap)
    BY <1>1, <2>2
  <2>4. heap[n + 1].size \in Nat
    BY <1>1, <2>3, ListFacts
  <2>5. /\ heap[n + 1].size >= ScratchWords
        /\ heap[n + 1].size >= ScratchWords + Header + Align
    <3>1. PICK y \in Nat : y = heap[n + 1].size
      BY <2>4
    <3>2. y + Header = PageSize \/ y + Header = 2 * PageSize
      BY <2>2, <3>1
    <3>3. y >= ScratchWords /\ y >= ScratchWords + Header + Align
      BY <3>2, SizeFacts
    <3>4. QED
      BY <3>1, <3>3
  <2>6. \A i \in 1 .. Len(heap) : i # n + 1 => ~ heap[i].free
    BY <1>1, <1>3, <2>2
  <2>7. FirstFit(ScratchWords) = n + 1
    BY <1>1, <2>2, <2>3, <2>5, <2>6, FitOnly
  <2>8. Carved
    BY <1>1, <1>2, <2>7 DEF Refused, Paged
  <2>9. /\ heap' = Carve(n + 1, ScratchWords) /\ UNCHANGED pageVars
        /\ live' = live \cup {ScratchAt(heap, n + 1)}
    BY <2>7, <2>8 DEF Carved
  <2>10. HeapFrames' = HeapFrames /\ holder' = holder
    BY <2>9, PagesSame
  <2>11. /\ BuffersLie(heap', n, HeapFrames) /\ Clear(heap', n, HeapFrames, p)
         /\ heap'[n + 1].addr = p /\ heap'[n + 1].free = FALSE
         /\ Len(heap') = n + 1 + 1 /\ heap'[n + 1].size = ScratchWords
         /\ heap'[n + 1 + 1].addr = p + Header + ScratchWords
         /\ heap'[n + 1 + 1].free = TRUE
         /\ ScratchWords + Header + heap'[n + 1 + 1].size = heap[n + 1].size
    BY <2>1, <2>2, <2>3, <2>5, <2>9, CarveBehind
  <2>12. n + 1 + 1 = n + 2
    BY <1>1
  <2>13. Split(heap', n, p, FALSE, TRUE)
    BY <2>2, <2>11, <2>12 DEF Split, Is, Ends
  <2>14. Cut(heap', n, HeapFrames')
    BY <2>10, <2>11, <2>13 DEF Cut
  <2>15. Gains(n + 1)
    BY <2>2, <2>9, <2>11 DEF Gains, ScratchAt, Payload
  <2>16. QED
    BY <1>2, <1>5, <2>10, <2>11, <2>14, <2>15
<1>6. QED
  BY <1>4, <1>5

LEMMA AskFresh ==
    ASSUME Together, PP!IInv, NEW n, BuffersLie(heap, n, HeapFrames),
           Fresh(heap, n, HeapFrames), Asks(Scratch)
    PROVE  /\ PP!IInv' /\ BuffersLie(heap', n, HeapFrames')
           /\ \/ UNCHANGED vars /\ HeapFrames' = HeapFrames
              \/ /\ Gains(n + 2) /\ heap'[n + 1] = heap[n + 1]
                 /\ Pair(heap', n, HeapFrames', FALSE)
<1>1. heap \in Seq(Block) /\ n \in Nat
  BY DEF BuffersLie
<1>2. PP!IInv' /\ (Refused \/ Carved \/ Paged)
  BY <1>1, AskEnds
<1>3. \A i \in 1 .. n : ~ heap[i].free
  BY DEF BuffersLie
<1>4. PICK p : Clear(heap, n, HeapFrames, p) /\ One(heap, n, p, FALSE)
  BY DEF Fresh
<1>5. /\ Len(heap) = n + 1 /\ heap[n + 1].addr = p /\ heap[n + 1].free = FALSE
      /\ heap[n + 1].size + Header = PageSize
  BY <1>4 DEF One, Ends
<1>6. FirstFit(ScratchWords) = 0
  <2>1. \A i \in 1 .. Len(heap) : ~ heap[i].free
    BY <1>1, <1>3, <1>5
  <2>2. QED
    BY <1>1, <2>1, FitNone
<1>7. ~ Carved
  BY <1>6 DEF Carved
<1>8. CASE Refused
  <2>1. UNCHANGED vars /\ UNCHANGED pageVars /\ heap' = heap
    BY <1>8 DEF Refused, vars
  <2>2. HeapFrames' = HeapFrames
    BY <2>1, PagesSame
  <2>3. QED
    BY <1>2, <2>1, <2>2
<1>9. CASE Paged
  <2> DEFINE b == heap'[n + 2]
  <2>1. n + 1 + 1 = n + 2 /\ n + 1 \in 1 .. Len(heap)
    BY <1>1, <1>5
  <2>2. /\ BuffersLie(heap', n, HeapFrames') /\ Len(heap') = n + 2
        /\ heap'[n + 1] = heap[n + 1] /\ Gains(n + 2)
        /\ b.free = FALSE /\ b.size + Header = PageSize
        /\ Clear(heap', n, HeapFrames', b.addr) /\ Clear(heap', n, HeapFrames', p)
        /\ p + PageSize <= b.addr \/ b.addr + PageSize <= p
    BY <1>4, <1>5, <1>9, <2>1, PagedBehind
  <2>3. Two(heap', n, p, b.addr, FALSE, FALSE)
    BY <1>5, <2>2 DEF Two
  <2>4. Pair(heap', n, HeapFrames', FALSE)
    BY <2>2, <2>3 DEF Pair
  <2>5. QED
    BY <1>2, <2>2, <2>4
<1>10. QED
  BY <1>2, <1>7, <1>8, <1>9

LEMMA AskCut ==
    ASSUME Together, PP!IInv, NEW n, BuffersLie(heap, n, HeapFrames),
           Cut(heap, n, HeapFrames), Asks(Scratch)
    PROVE  /\ PP!IInv' /\ BuffersLie(heap', n, HeapFrames')
           /\ HeapFrames' = HeapFrames /\ holder' = holder
           /\ Gains(n + 2) /\ heap'[n + 1] = heap[n + 1]
           /\ Pair(heap', n, HeapFrames', FALSE)
<1>1. heap \in Seq(Block) /\ n \in Nat
  BY DEF BuffersLie
<1>2. PP!IInv' /\ (Refused \/ Carved \/ Paged)
  BY <1>1, AskEnds
<1>3. \A i \in 1 .. n : ~ heap[i].free
  BY DEF BuffersLie
<1>4. PICK p : Clear(heap, n, HeapFrames, p) /\ Split(heap, n, p, FALSE, TRUE)
  BY DEF Cut
<1>5. /\ Len(heap) = n + 2 /\ heap[n + 1].addr = p
      /\ heap[n + 1].size = ScratchWords /\ heap[n + 1].free = FALSE
      /\ heap[n + 2].addr = p + Header + ScratchWords /\ heap[n + 2].free = TRUE
      /\ \/ ScratchWords + Header + heap[n + 2].size + Header = PageSize
         \/ ScratchWords + Header + heap[n + 2].size + Header = 2 * PageSize
  BY <1>4 DEF Split, Is, Ends
<1>6. /\ n + 2 \in 1 .. Len(heap) /\ n + 2 \in n + 1 .. Len(heap)
      /\ n + 1 \in 1 .. n + 2 - 1 /\ n + 2 + 1 = n + 3
  BY <1>1, <1>5
<1>7. PICK y \in Nat : y = heap[n + 2].size
  BY <1>1, <1>6, ListFacts
<1>8. \/ ScratchWords + Header + y + Header = PageSize
      \/ ScratchWords + Header + y + Header = 2 * PageSize
  BY <1>5, <1>7
<1>9. y >= ScratchWords
  BY <1>8, SizeFacts
<1>10. \A i \in 1 .. Len(heap) : i # n + 2 => ~ heap[i].free
  BY <1>1, <1>3, <1>5
<1>11. FirstFit(ScratchWords) = n + 2
  BY <1>1, <1>5, <1>6, <1>7, <1>9, <1>10, FitOnly
<1>12. Carved
  BY <1>1, <1>2, <1>11 DEF Refused, Paged
<1>13. /\ heap' = Carve(n + 2, ScratchWords) /\ UNCHANGED pageVars
       /\ live' = live \cup {ScratchAt(heap, n + 2)}
  BY <1>11, <1>12 DEF Carved
<1>14. HeapFrames' = HeapFrames /\ holder' = holder
  BY <1>13, PagesSame
<1>15. /\ BuffersLie(heap', n, HeapFrames) /\ Clear(heap', n, HeapFrames, p)
       /\ \A i \in 1 .. n + 2 - 1 : heap'[i] = heap[i]
       /\ heap'[n + 2].addr = heap[n + 2].addr /\ heap'[n + 2].free = FALSE
       /\ IF y >= ScratchWords + Header + Align
          THEN /\ Len(heap') = n + 3 /\ heap'[n + 2].size = ScratchWords
               /\ heap'[n + 3].addr = heap[n + 2].addr + Header + ScratchWords
               /\ heap'[n + 3].free = TRUE
               /\ ScratchWords + Header + heap'[n + 3].size = y
          ELSE Len(heap') = n + 2 /\ heap'[n + 2].size = y
  <2>1. /\ BuffersLie(heap', n, HeapFrames) /\ Clear(heap', n, HeapFrames, p)
        /\ \A i \in 1 .. n + 2 - 1 : heap'[i] = heap[i]
        /\ heap'[n + 2].addr = heap[n + 2].addr /\ heap'[n + 2].free = FALSE
        /\ IF heap[n + 2].size >= ScratchWords + Header + Align
           THEN /\ Len(heap') = Len(heap) + 1 /\ heap'[n + 2].size = ScratchWords
                /\ heap'[n + 2 + 1].addr = heap[n + 2].addr + Header + ScratchWords
                /\ heap'[n + 2 + 1].free = TRUE
                /\ ScratchWords + Header + heap'[n + 2 + 1].size = heap[n + 2].size
           ELSE Len(heap') = Len(heap) /\ heap'[n + 2].size = heap[n + 2].size
    <3>1. heap[n + 2].size >= ScratchWords
      BY <1>7, <1>9
    <3>2. PICK k \in n + 1 .. Len(heap) : k = n + 2
      BY <1>6
    <3>3. heap[k].size >= ScratchWords /\ heap' = Carve(k, ScratchWords)
      BY <1>13, <3>1, <3>2
    <3>4. /\ BuffersLie(heap', n, HeapFrames) /\ Clear(heap', n, HeapFrames, p)
          /\ \A i \in 1 .. k - 1 : heap'[i] = heap[i]
          /\ heap'[k].addr = heap[k].addr /\ heap'[k].free = FALSE
          /\ IF heap[k].size >= ScratchWords + Header + Align
             THEN /\ Len(heap') = Len(heap) + 1 /\ heap'[k].size = ScratchWords
                  /\ heap'[k + 1].addr = heap[k].addr + Header + ScratchWords
                  /\ heap'[k + 1].free = TRUE
                  /\ ScratchWords + Header + heap'[k + 1].size = heap[k].size
             ELSE Len(heap') = Len(heap) /\ heap'[k].size = heap[k].size
      BY <1>4, <3>3, CarveBehind
    <3>5. /\ BuffersLie(heap', n, HeapFrames) /\ Clear(heap', n, HeapFrames, p)
          /\ \A i \in 1 .. n + 2 - 1 : heap'[i] = heap[i]
          /\ heap'[n + 2].addr = heap[n + 2].addr /\ heap'[n + 2].free = FALSE
      <4>1. BuffersLie(heap', n, HeapFrames) /\ Clear(heap', n, HeapFrames, p)
        BY <3>4, Zenon
      <4>2. ASSUME NEW i \in 1 .. n + 2 - 1 PROVE heap'[i] = heap[i]
        <5>1. i \in 1 .. k - 1
          BY <1>1, <3>2, SMT
        <5>2. \A j \in 1 .. k - 1 : heap'[j] = heap[j]
          BY <3>4, Zenon
        <5>3. QED
          BY <5>1, <5>2, Zenon
      <4>3. heap'[n + 2].addr = heap[n + 2].addr
        BY <3>2, <3>4, Zenon
      <4>4. heap'[n + 2].free = FALSE
        BY <3>2, <3>4, Zenon
      <4>5. QED
        BY <4>1, <4>2, <4>3, <4>4, Zenon
    <3>6. CASE heap[n + 2].size >= ScratchWords + Header + Align
      <4>1. /\ Len(heap') = Len(heap) + 1 /\ heap'[k].size = ScratchWords
            /\ heap'[k + 1].addr = heap[k].addr + Header + ScratchWords
            /\ heap'[k + 1].free = TRUE
            /\ ScratchWords + Header + heap'[k + 1].size = heap[k].size
        BY <3>2, <3>4, <3>6, Zenon
      <4>2. QED
        BY <3>2, <3>5, <3>6, <4>1, Zenon
    <3>7. CASE ~ (heap[n + 2].size >= ScratchWords + Header + Align)
      <4>1. Len(heap') = Len(heap) /\ heap'[k].size = heap[k].size
        BY <3>2, <3>4, <3>7, Zenon
      <4>2. QED
        BY <3>2, <3>5, <3>7, <4>1, Zenon
    <3>8. QED
      BY <3>6, <3>7, Zenon
  <2>2. Len(heap) = n + 2 /\ Len(heap) + 1 = n + 3 /\ n + 2 + 1 = n + 3
    BY <1>1, <1>5
  <2>3. QED
    BY <1>7, <2>1, <2>2
<1>16. heap'[n + 1] = heap[n + 1]
  BY <1>6, <1>15
<1>17. Gains(n + 2)
  BY <1>13, <1>15 DEF Gains, ScratchAt, Payload
<1>18. CASE y >= ScratchWords + Header + Align
  <2>1. PICK z : z = heap'[n + 3].size
    OBVIOUS
  <2>2. ScratchWords + Header + z = y /\ z \in Nat
    <3>1. heap' \in Seq(Block) /\ n + 3 \in 1 .. Len(heap')
      BY <1>1, <1>15, <1>18 DEF BuffersLie
    <3>2. QED
      BY <1>15, <1>18, <2>1, <3>1, ListFacts
  <2>3. p \in Nat
    BY <1>4 DEF Clear
  <2>4. heap'[n + 3].addr = p + 2 * Header + 2 * ScratchWords
    BY SMTT(30), <1>5, <1>15, <1>18, <2>3, SizeFacts
  <2>5. 2 * (ScratchWords + Header) + z + Header = ScratchWords + Header + y + Header
    BY <2>2, SizeFacts
  <2>6. Ends(2 * (ScratchWords + Header) + z + Header, TRUE)
    BY <1>8, <2>5 DEF Ends
  <2>7. Three(heap', n, p, FALSE, FALSE)
    BY <1>5, <1>15, <1>16, <1>18, <2>1, <2>4, <2>6 DEF Three, Is
  <2>8. Pair(heap', n, HeapFrames', FALSE)
    BY <1>14, <1>15, <2>7 DEF Pair
  <2>9. QED
    BY <1>2, <1>14, <1>15, <1>16, <1>17, <2>8
<1>19. CASE ~ (y >= ScratchWords + Header + Align)
  <2>1. ScratchWords + Header + y + Header = PageSize
    BY <1>8, <1>19, SizeFacts
  <2>2. Split(heap', n, p, FALSE, FALSE)
    BY <1>5, <1>15, <1>16, <1>19, <2>1 DEF Split, Is, Ends
  <2>3. Pair(heap', n, HeapFrames', FALSE)
    BY <1>14, <1>15, <2>2 DEF Pair
  <2>4. QED
    BY <1>2, <1>14, <1>15, <1>16, <1>17, <2>3
<1>20. QED
  BY <1>18, <1>19

-----------------------------------------------------------------------------
(* free of a scratch array. *)

\* In the list the array's block is marked free; it is the only one there.
LEMMA MarkedBehind ==
    ASSUME NEW n, BuffersLie(heap, n, HeapFrames), NEW k \in n + 1 .. Len(heap),
           \A i \in 1 .. Len(heap) : i # k => Payload(heap[i]) # Payload(heap[k])
    PROVE  LET m == Marked(heap, Payload(heap[k]))
           IN  /\ m \in Seq(Block) /\ Len(m) = Len(heap)
               /\ \A i \in 1 .. Len(heap) : i # k => m[i] = heap[i]
               /\ m[k].addr = heap[k].addr /\ m[k].size = heap[k].size
               /\ m[k].free = TRUE
               /\ BuffersLie(m, n, HeapFrames)
               /\ \A p : Clear(heap, n, HeapFrames, p) => Clear(m, n, HeapFrames, p)
<1> DEFINE m == Marked(heap, Payload(heap[k]))
<1>1. /\ heap \in Seq(Block) /\ n \in Nat /\ n <= Len(heap) /\ Len(heap) \in Nat
      /\ k \in 1 .. Len(heap)
  BY ListFacts DEF BuffersLie
<1>2. /\ m \in Seq(Block) /\ Len(m) = Len(heap)
      /\ \A i \in 1 .. Len(heap) :
            /\ m[i].addr = heap[i].addr /\ m[i].size = heap[i].size
            /\ Payload(heap[i]) = Payload(heap[k]) => m[i].free
            /\ Payload(heap[i]) # Payload(heap[k]) => m[i] = heap[i]
  BY <1>1, MarkedIs
<1> HIDE DEF m
<1>3. \A i \in 1 .. Len(heap) : i # k => m[i] = heap[i]
  BY <1>2
<1>4. m[k].free = TRUE
  BY <1>1, <1>2, ListFacts
<1>5. \A i \in 1 .. n : m[i] = heap[i]
  BY <1>1, <1>3
<1>6. /\ BuffersLie(m, n, HeapFrames)
      /\ \A p : Clear(heap, n, HeapFrames, p) => Clear(m, n, HeapFrames, p)
  BY <1>1, <1>2, <1>5, BuffersStay
<1>7. QED
  BY <1>1, <1>2, <1>3, <1>4, <1>6 DEF m

\* The walk over a list with two or three free blocks behind the buffers.
LEMMA CoalesceBehind ==
    ASSUME NEW list, NEW n, NEW own, BuffersLie(list, n, own), NEW p,
           Clear(list, n, own, p), n + 2 <= Len(list), Len(list) <= n + 3,
           \A i \in n + 1 .. Len(list) : list[i].free,
           list[n + 1].addr = p,
           LET two == list[n + 1].size + Header + list[n + 2].size
               sum == IF Len(list) = n + 2 THEN two
                      ELSE two + Header + list[n + 3].size
           IN  sum + Header = PageSize \/ sum + Header = 2 * PageSize
    PROVE  /\ BuffersLie(Coalesce(list), n, own)
           /\ Idle(Coalesce(list), n, own) /\ ~ None(Coalesce(list), n)
           /\ \A i \in 1 .. n : Coalesce(list)[i] = list[i]
<1> DEFINE m == Coalesce(list)
           two == list[n + 1].size + Header + list[n + 2].size
           sum == IF Len(list) = n + 2 THEN two ELSE two + Header + list[n + 3].size
<1>1. list \in Seq(Block) /\ n \in Nat /\ \A i \in 1 .. n : ~ list[i].free
  BY DEF BuffersLie
<1>2. /\ m \in Seq(Block) /\ Len(m) = n + 1
      /\ \A i \in 1 .. n : m[i] = list[i]
      /\ m[n + 1].addr = list[n + 1].addr /\ m[n + 1].free
      /\ m[n + 1].size = sum
  BY <1>1, CoalesceEnd
<1>3. sum + Header = PageSize \/ sum + Header = 2 * PageSize
  OBVIOUS
<1> HIDE DEF m, sum, two
<1>4. BuffersLie(m, n, own) /\ Clear(m, n, own, p)
  <2>1. n <= Len(m) /\ own \subseteq own
    BY <1>1, <1>2
  <2>2. /\ BuffersLie(m, n, own)
        /\ \A q : Clear(list, n, own, q) => Clear(m, n, own, q)
    BY <1>2, <2>1, BuffersStay
  <2>3. QED
    BY <2>2
<1>5. m[n + 1].free = TRUE
  BY <1>1, <1>2, ListFacts
<1>6. One(m, n, p, TRUE) /\ ~ None(m, n)
  BY <1>1, <1>2, <1>3, <1>5 DEF One, Ends, None
<1>7. QED
  BY <1>2, <1>4, <1>6 DEF Idle, m

\* The blocks behind the buffers have payloads of their own.
LEMMA BehindDiffers ==
    ASSUME Together, NEW list, NEW n, NEW own, BuffersLie(list, n, own),
           NEW p, Clear(list, n, own, p), NEW k \in n + 1 .. Len(list),
           \/ list[k].addr = p
           \/ list[k].addr = p + Header + ScratchWords
    PROVE  \A i \in 1 .. n : Payload(list[i]) # Payload(list[k])
<1>1. p \in Nat
  BY DEF Clear
<1>2. PICK x \in Nat : x = Payload(list[k]) /\ p <= x /\ x < p + PageSize
  <2>1. PICK h \in Nat : h = Header
    BY SizeFacts
  <2>2. PICK r \in Nat \ {0} : r = ScratchWords
    BY SizeFacts
  <2>3. PICK w \in Nat : w = PageSize /\ 2 * r + 2 * h <= w
    BY <2>1, <2>2, SizeFacts
  <2>4. Payload(list[k]) = p + h \/ Payload(list[k]) = p + h + r + h
    BY <2>1, <2>2 DEF Payload
  <2>5. QED
    BY <1>1, <2>3, <2>4
<1>3. \A i \in 1 .. n : x # Payload(list[i])
  BY <1>2, ClearDiffers
<1>4. QED
  BY <1>2, <1>3

LEMMA FreshPayload ==
    ASSUME Together, NEW list, NEW n, NEW own, BuffersLie(list, n, own),
           Fresh(list, n, own)
    PROVE  /\ n + 1 \in n + 1 .. Len(list)
           /\ \A i \in 1 .. Len(list) :
                 i # n + 1 => Payload(list[i]) # Payload(list[n + 1])
<1>1. n \in Nat
  BY DEF BuffersLie
<1>2. PICK p : Clear(list, n, own, p) /\ One(list, n, p, FALSE)
  BY DEF Fresh
<1>3. n + 1 \in n + 1 .. Len(list) /\ Len(list) = n + 1 /\ list[n + 1].addr = p
  BY <1>1, <1>2 DEF One
<1>4. \A i \in 1 .. n : Payload(list[i]) # Payload(list[n + 1])
  BY <1>2, <1>3, BehindDiffers
<1>5. \A i \in 1 .. Len(list) : i # n + 1 => i \in 1 .. n
  BY <1>1, <1>3
<1>6. QED
  BY <1>3, <1>4, <1>5

LEMMA CutPayload ==
    ASSUME Together, NEW list, NEW n, NEW own, BuffersLie(list, n, own),
           Cut(list, n, own)
    PROVE  /\ n + 1 \in n + 1 .. Len(list)
           /\ \A i \in 1 .. Len(list) :
                 i # n + 1 => Payload(list[i]) # Payload(list[n + 1])
<1>1. n \in Nat
  BY DEF BuffersLie
<1>2. PICK p : Clear(list, n, own, p) /\ Split(list, n, p, FALSE, TRUE)
  BY DEF Cut
<1>3. /\ n + 1 \in n + 1 .. Len(list) /\ Len(list) = n + 2
      /\ list[n + 1].addr = p /\ list[n + 2].addr = p + Header + ScratchWords
  BY <1>1, <1>2 DEF Split, Is
<1>4. \A i \in 1 .. n : Payload(list[i]) # Payload(list[n + 1])
  BY <1>2, <1>3, BehindDiffers
<1>5. Payload(list[n + 2]) # Payload(list[n + 1])
  <2>1. PICK h \in Nat : h = Header
    BY SizeFacts
  <2>2. PICK r \in Nat \ {0} : r = ScratchWords
    BY SizeFacts
  <2>3. p \in Nat
    BY <1>2 DEF Clear
  <2>4. QED
    BY <1>3, <2>1, <2>2, <2>3 DEF Payload
<1>6. \A i \in 1 .. Len(list) : i # n + 1 => i \in 1 .. n \/ i = n + 2
  BY <1>1, <1>3
<1>7. QED
  BY <1>3, <1>4, <1>5, <1>6

LEMMA PairPayloads ==
    ASSUME Together, NEW list, NEW n, NEW own, BuffersLie(list, n, own),
           NEW free1, Pair(list, n, own, free1)
    PROVE  /\ n + 1 \in n + 1 .. Len(list) /\ n + 2 \in n + 1 .. Len(list)
           /\ \A i \in 1 .. Len(list) :
                 /\ i # n + 1 => Payload(list[i]) # Payload(list[n + 1])
                 /\ i # n + 2 => Payload(list[i]) # Payload(list[n + 2])
<1>1. n \in Nat
  BY DEF BuffersLie
<1>2. PICK h \in Nat : h = Header
  BY SizeFacts
<1>3. PICK r \in Nat \ {0} : r = ScratchWords
  BY SizeFacts
<1>4. PICK w \in Nat : w = PageSize /\ 2 * r + 2 * h <= w
  BY <1>2, <1>3, SizeFacts
<1>5. PICK p : /\ Clear(list, n, own, p)
               /\ \/ Split(list, n, p, free1, FALSE)
                  \/ Three(list, n, p, free1, FALSE)
                  \/ \E q : Clear(list, n, own, q) /\ Two(list, n, p, q, free1, FALSE)
  BY DEF Pair
<1>6. p \in Nat
  BY <1>5 DEF Clear
<1>7. CASE Split(list, n, p, free1, FALSE)
  <2>1. /\ Len(list) = n + 2 /\ list[n + 1].addr = p
        /\ list[n + 2].addr = p + Header + ScratchWords
    BY <1>7 DEF Split, Is
  <2>2. n + 1 \in n + 1 .. Len(list) /\ n + 2 \in n + 1 .. Len(list)
    BY <1>1, <2>1
  <2>3. \A i \in 1 .. n : /\ Payload(list[i]) # Payload(list[n + 1])
                          /\ Payload(list[i]) # Payload(list[n + 2])
    BY <1>5, <2>1, <2>2, BehindDiffers
  <2>4. Payload(list[n + 2]) # Payload(list[n + 1])
    BY <1>2, <1>3, <1>6, <2>1 DEF Payload
  <2>5. \A i \in 1 .. Len(list) : i \in 1 .. n \/ i = n + 1 \/ i = n + 2
    BY <1>1, <2>1
  <2>6. QED
    BY <2>2, <2>3, <2>4, <2>5
<1>8. CASE Three(list, n, p, free1, FALSE)
  <2>1. /\ Len(list) = n + 3 /\ list[n + 1].addr = p
        /\ list[n + 2].addr = p + Header + ScratchWords
        /\ list[n + 3].addr = p + 2 * Header + 2 * ScratchWords
    BY <1>8 DEF Three, Is
  <2>2. n + 1 \in n + 1 .. Len(list) /\ n + 2 \in n + 1 .. Len(list)
    BY <1>1, <2>1
  <2>3. \A i \in 1 .. n : /\ Payload(list[i]) # Payload(list[n + 1])
                          /\ Payload(list[i]) # Payload(list[n + 2])
    BY <1>5, <2>1, <2>2, BehindDiffers
  <2>4. /\ Payload(list[n + 2]) # Payload(list[n + 1])
        /\ Payload(list[n + 3]) # Payload(list[n + 1])
        /\ Payload(list[n + 3]) # Payload(list[n + 2])
    BY <1>2, <1>3, <1>6, <2>1 DEF Payload
  <2>5. \A i \in 1 .. Len(list) : i \in 1 .. n \/ i = n + 1 \/ i = n + 2 \/ i = n + 3
    BY <1>1, <2>1
  <2>6. QED
    BY <2>2, <2>3, <2>4, <2>5
<1>9. ASSUME NEW q, Clear(list, n, own, q), Two(list, n, p, q, free1, FALSE)
      PROVE  /\ n + 1 \in n + 1 .. Len(list) /\ n + 2 \in n + 1 .. Len(list)
             /\ \A i \in 1 .. Len(list) :
                   /\ i # n + 1 => Payload(list[i]) # Payload(list[n + 1])
                   /\ i # n + 2 => Payload(list[i]) # Payload(list[n + 2])
  <2>1. /\ Len(list) = n + 2 /\ list[n + 1].addr = p /\ list[n + 2].addr = q
        /\ p + PageSize <= q \/ q + PageSize <= p
    BY <1>9 DEF Two
  <2>2. n + 1 \in n + 1 .. Len(list) /\ n + 2 \in n + 1 .. Len(list)
    BY <1>1, <2>1
  <2>3. \A i \in 1 .. n : Payload(list[i]) # Payload(list[n + 1])
    BY <1>5, <2>1, <2>2, BehindDiffers
  <2>4. \A i \in 1 .. n : Payload(list[i]) # Payload(list[n + 2])
    BY <1>9, <2>1, <2>2, BehindDiffers
  <2>5. Payload(list[n + 2]) # Payload(list[n + 1])
    <3>1. q \in Nat /\ p # q
      BY <1>3, <1>4, <1>6, <1>9, <2>1 DEF Clear
    <3>2. QED
      BY <1>2, <1>6, <2>1, <3>1 DEF Payload
  <2>6. \A i \in 1 .. Len(list) : i \in 1 .. n \/ i = n + 1 \/ i = n + 2
    BY <1>1, <2>1
  <2>7. QED
    BY <2>2, <2>3, <2>4, <2>5, <2>6
<1>10. QED
  BY <1>5, <1>7, <1>8, <1>9

\* The array alone in its page: the page is left free.
LEMMA FreeFresh ==
    ASSUME Together, NEW n, BuffersLie(heap, n, HeapFrames),
           Fresh(heap, n, HeapFrames)
    PROVE  LET m == Released(heap, Payload(heap[n + 1]))
           IN  /\ BuffersLie(m, n, HeapFrames)
               /\ Idle(m, n, HeapFrames) /\ ~ None(m, n)
               /\ \A i \in 1 .. n : m[i] = heap[i]
<1> DEFINE m == Marked(heap, Payload(heap[n + 1]))
<1>1. n \in Nat /\ \A i \in 1 .. n : ~ heap[i].free
  BY DEF BuffersLie
<1>2. PICK p : Clear(heap, n, HeapFrames, p) /\ One(heap, n, p, FALSE)
  BY DEF Fresh
<1>3. /\ Len(heap) = n + 1 /\ heap[n + 1].addr = p
      /\ heap[n + 1].size + Header = PageSize
  BY <1>2 DEF One, Ends
<1>4. /\ n + 1 \in n + 1 .. Len(heap)
      /\ \A i \in 1 .. Len(heap) : i # n + 1 => Payload(heap[i]) # Payload(heap[n + 1])
  BY FreshPayload
<1>5. /\ m \in Seq(Block) /\ Len(m) = Len(heap)
      /\ \A i \in 1 .. Len(heap) : i # n + 1 => m[i] = heap[i]
      /\ m[n + 1].addr = heap[n + 1].addr /\ m[n + 1].size = heap[n + 1].size
      /\ m[n + 1].free = TRUE
      /\ BuffersLie(m, n, HeapFrames)
      /\ \A q : Clear(heap, n, HeapFrames, q) => Clear(m, n, HeapFrames, q)
  BY <1>4, MarkedBehind
<1>6. Released(heap, Payload(heap[n + 1])) = Coalesce(m)
  BY DEF Released, Marked
<1> HIDE DEF m
<1>7. NoFree(m)
  <2>1. ASSUME NEW i \in 1 .. Len(m) - 1 PROVE ~ m[i].free
    <3>1. i \in 1 .. n
      BY <1>1, <1>3, <1>5
    <3>2. QED
      BY <1>5, <3>1 DEF BuffersLie
  <2>2. QED
    BY <2>1 DEF NoFree
<1>8. Coalesce(m) = m
  BY <1>5, <1>7, CoalesceNothing
<1>9. One(m, n, p, TRUE) /\ ~ None(m, n)
  BY <1>1, <1>3, <1>5 DEF One, Ends, None
<1>10. Idle(m, n, HeapFrames)
  BY <1>2, <1>5, <1>9 DEF Idle
<1>11. \A i \in 1 .. n : m[i] = heap[i]
  BY <1>1, <1>3, <1>5
<1>12. QED
  BY <1>5, <1>6, <1>8, <1>9, <1>10, <1>11

\* The array with a rest behind it: they are joined again.
LEMMA FreeCut ==
    ASSUME Together, NEW n, BuffersLie(heap, n, HeapFrames),
           Cut(heap, n, HeapFrames)
    PROVE  LET m == Released(heap, Payload(heap[n + 1]))
           IN  /\ BuffersLie(m, n, HeapFrames)
               /\ Idle(m, n, HeapFrames) /\ ~ None(m, n)
               /\ \A i \in 1 .. n : m[i] = heap[i]
<1> DEFINE m == Marked(heap, Payload(heap[n + 1]))
<1>1. n \in Nat
  BY DEF BuffersLie
<1>2. PICK p : Clear(heap, n, HeapFrames, p) /\ Split(heap, n, p, FALSE, TRUE)
  BY DEF Cut
<1>3. /\ Len(heap) = n + 2 /\ heap[n + 1].addr = p
      /\ heap[n + 1].size = ScratchWords /\ heap[n + 2].free
      /\ \/ ScratchWords + Header + heap[n + 2].size + Header = PageSize
         \/ ScratchWords + Header + heap[n + 2].size + Header = 2 * PageSize
  BY <1>2 DEF Split, Is, Ends
<1>4. /\ n + 1 \in n + 1 .. Len(heap)
      /\ \A i \in 1 .. Len(heap) : i # n + 1 => Payload(heap[i]) # Payload(heap[n + 1])
  BY CutPayload
<1>5. /\ m \in Seq(Block) /\ Len(m) = Len(heap)
      /\ \A i \in 1 .. Len(heap) : i # n + 1 => m[i] = heap[i]
      /\ m[n + 1].addr = heap[n + 1].addr /\ m[n + 1].size = heap[n + 1].size
      /\ m[n + 1].free = TRUE
      /\ BuffersLie(m, n, HeapFrames)
      /\ \A q : Clear(heap, n, HeapFrames, q) => Clear(m, n, HeapFrames, q)
  BY <1>4, MarkedBehind
<1>6. Released(heap, Payload(heap[n + 1])) = Coalesce(m)
  BY DEF Released, Marked
<1> HIDE DEF m
<1>7. n + 2 \in 1 .. Len(heap) /\ n + 2 # n + 1
  BY <1>1, <1>3
<1>8. m[n + 2] = heap[n + 2]
  BY <1>5, <1>7
<1>9. \A i \in n + 1 .. Len(m) : m[i].free
  BY <1>1, <1>3, <1>5, <1>8
<1>10. n + 2 <= Len(m) /\ Len(m) <= n + 3 /\ Len(m) = n + 2
  BY <1>1, <1>3, <1>5
<1>11. LET two == m[n + 1].size + Header + m[n + 2].size
           sum == IF Len(m) = n + 2 THEN two ELSE two + Header + m[n + 3].size
       IN  sum + Header = PageSize \/ sum + Header = 2 * PageSize
  BY <1>3, <1>5, <1>8, <1>10
<1>12. \A i \in 1 .. n : m[i] = heap[i]
  BY <1>1, <1>3, <1>5
<1>13. /\ BuffersLie(Coalesce(m), n, HeapFrames)
       /\ Idle(Coalesce(m), n, HeapFrames) /\ ~ None(Coalesce(m), n)
       /\ \A i \in 1 .. n : Coalesce(m)[i] = m[i]
  BY <1>2, <1>3, <1>5, <1>9, <1>10, <1>11, CoalesceBehind
<1>14. QED
  BY <1>6, <1>12, <1>13

\* The first of the two arrays: nothing is joined, the second stands behind it.
LEMMA FreeFirst ==
    ASSUME Together, NEW n, BuffersLie(heap, n, HeapFrames),
           Pair(heap, n, HeapFrames, FALSE)
    PROVE  LET m == Released(heap, Payload(heap[n + 1]))
           IN  /\ BuffersLie(m, n, HeapFrames) /\ Pair(m, n, HeapFrames, TRUE)
               /\ m[n + 2] = heap[n + 2]
               /\ \A i \in 1 .. n : m[i] = heap[i]
<1> DEFINE m == Marked(heap, Payload(heap[n + 1]))
<1>1. n \in Nat
  BY DEF BuffersLie
<1>2. PICK p : /\ Clear(heap, n, HeapFrames, p)
               /\ \/ Split(heap, n, p, FALSE, FALSE)
                  \/ Three(heap, n, p, FALSE, FALSE)
                  \/ \E q : /\ Clear(heap, n, HeapFrames, q)
                            /\ Two(heap, n, p, q, FALSE, FALSE)
  BY DEF Pair
<1>3. /\ n + 1 \in n + 1 .. Len(heap) /\ n + 2 \in n + 1 .. Len(heap)
      /\ \A i \in 1 .. Len(heap) : i # n + 1 => Payload(heap[i]) # Payload(heap[n + 1])
  BY PairPayloads
<1>4. /\ m \in Seq(Block) /\ Len(m) = Len(heap)
      /\ \A i \in 1 .. Len(heap) : i # n + 1 => m[i] = heap[i]
      /\ m[n + 1].addr = heap[n + 1].addr /\ m[n + 1].size = heap[n + 1].size
      /\ m[n + 1].free = TRUE
      /\ BuffersLie(m, n, HeapFrames)
      /\ \A q : Clear(heap, n, HeapFrames, q) => Clear(m, n, HeapFrames, q)
  BY <1>3, MarkedBehind
<1>5. Released(heap, Payload(heap[n + 1])) = Coalesce(m)
  BY DEF Released, Marked
<1> HIDE DEF m
<1>6. n + 2 \in 1 .. Len(heap) /\ n + 2 # n + 1
  BY <1>1, <1>3
<1>7. m[n + 2] = heap[n + 2]
  BY <1>4, <1>6
<1>8. heap[n + 2].free = FALSE /\ (Len(heap) = n + 2 \/ Len(heap) = n + 3)
  BY <1>2 DEF Split, Three, Two, Is
<1>9. NoFree(m)
  <2>1. ASSUME NEW i \in 1 .. Len(m) - 1 PROVE ~ (m[i].free /\ m[i + 1].free)
    <3>1. i \in 1 .. n \/ i = n + 1 \/ i = n + 2
      BY <1>1, <1>4, <1>8
    <3>2. CASE i \in 1 .. n
      BY <1>4, <3>2 DEF BuffersLie
    <3>3. CASE i = n + 1
      <4>1. i + 1 = n + 2
        BY <1>1, <3>3
      <4>2. QED
        BY <1>7, <1>8, <4>1
    <3>4. CASE i = n + 2
      BY <1>7, <1>8, <3>4
    <3>5. QED
      BY <3>1, <3>2, <3>3, <3>4
  <2>2. QED
    BY <2>1 DEF NoFree
<1>10. Coalesce(m) = m
  BY <1>4, <1>9, CoalesceNothing
<1>11. \A i \in 1 .. n : m[i] = heap[i]
  BY <1>1, <1>4, <1>8
<1>12. CASE Split(heap, n, p, FALSE, FALSE)
  <2>1. Split(m, n, p, TRUE, FALSE)
    BY <1>4, <1>7, <1>12 DEF Split, Is
  <2>2. Pair(m, n, HeapFrames, TRUE)
    BY <1>2, <1>4, <2>1 DEF Pair
  <2>3. QED
    BY <1>4, <1>5, <1>7, <1>10, <1>11, <2>2
<1>13. CASE Three(heap, n, p, FALSE, FALSE)
  <2>1. n + 3 \in 1 .. Len(heap) /\ n + 3 # n + 1
    BY <1>1, <1>13 DEF Three
  <2>2. m[n + 3] = heap[n + 3]
    BY <1>4, <2>1
  <2>3. Three(m, n, p, TRUE, FALSE)
    BY <1>4, <1>7, <1>13, <2>2 DEF Three, Is
  <2>4. Pair(m, n, HeapFrames, TRUE)
    BY <1>2, <1>4, <2>3 DEF Pair
  <2>5. QED
    BY <1>4, <1>5, <1>7, <1>10, <1>11, <2>4
<1>14. ASSUME NEW q, Clear(heap, n, HeapFrames, q), Two(heap, n, p, q, FALSE, FALSE)
       PROVE  Pair(m, n, HeapFrames, TRUE)
  <2>1. Two(m, n, p, q, TRUE, FALSE)
    BY <1>4, <1>7, <1>14 DEF Two
  <2>2. QED
    BY <1>2, <1>4, <1>14, <2>1 DEF Pair
<1>15. QED
  BY <1>2, <1>4, <1>5, <1>7, <1>10, <1>12, <1>13, <1>14, <1>11

\* The second of the two: everything behind the buffers becomes one block.
LEMMA FreeSecond ==
    ASSUME Together, NEW n, BuffersLie(heap, n, HeapFrames),
           Pair(heap, n, HeapFrames, TRUE)
    PROVE  LET m == Released(heap, Payload(heap[n + 2]))
           IN  /\ BuffersLie(m, n, HeapFrames)
               /\ Idle(m, n, HeapFrames) /\ ~ None(m, n)
               /\ \A i \in 1 .. n : m[i] = heap[i]
<1> DEFINE m == Marked(heap, Payload(heap[n + 2]))
<1>1. n \in Nat
  BY DEF BuffersLie
<1>2. PICK p : /\ Clear(heap, n, HeapFrames, p)
               /\ \/ Split(heap, n, p, TRUE, FALSE)
                  \/ Three(heap, n, p, TRUE, FALSE)
                  \/ \E q : /\ Clear(heap, n, HeapFrames, q)
                            /\ Two(heap, n, p, q, TRUE, FALSE)
  BY DEF Pair
<1>3. /\ n + 1 \in n + 1 .. Len(heap) /\ n + 2 \in n + 1 .. Len(heap)
      /\ \A i \in 1 .. Len(heap) : i # n + 2 => Payload(heap[i]) # Payload(heap[n + 2])
  BY PairPayloads
<1>4. /\ m \in Seq(Block) /\ Len(m) = Len(heap)
      /\ \A i \in 1 .. Len(heap) : i # n + 2 => m[i] = heap[i]
      /\ m[n + 2].addr = heap[n + 2].addr /\ m[n + 2].size = heap[n + 2].size
      /\ m[n + 2].free = TRUE
      /\ BuffersLie(m, n, HeapFrames)
      /\ \A q : Clear(heap, n, HeapFrames, q) => Clear(m, n, HeapFrames, q)
  BY <1>3, MarkedBehind
<1>5. Released(heap, Payload(heap[n + 2])) = Coalesce(m)
  BY DEF Released, Marked
<1> HIDE DEF m
<1>6. n + 1 \in 1 .. Len(heap) /\ n + 1 # n + 2
  BY <1>1, <1>3
<1>7. m[n + 1] = heap[n + 1]
  BY <1>4, <1>6
<1>8. /\ heap[n + 1].addr = p /\ heap[n + 1].free = TRUE
      /\ Len(heap) = n + 2 \/ (Len(heap) = n + 3 /\ heap[n + 3].free)
  <2>1. CASE Split(heap, n, p, TRUE, FALSE)
    BY <2>1 DEF Split, Is
  <2>2. CASE Three(heap, n, p, TRUE, FALSE)
    BY <2>2 DEF Three, Is
  <2>3. ASSUME NEW q, Two(heap, n, p, q, TRUE, FALSE)
        PROVE  /\ heap[n + 1].addr = p /\ heap[n + 1].free = TRUE
               /\ Len(heap) = n + 2
    BY <2>3 DEF Two
  <2>4. QED
    BY <1>2, <2>1, <2>2, <2>3
<1>9. ASSUME Len(heap) = n + 3 PROVE m[n + 3] = heap[n + 3]
  <2>1. n + 3 \in 1 .. Len(heap) /\ n + 3 # n + 2
    BY <1>1, <1>9
  <2>2. QED
    BY <1>4, <2>1
<1>10. \A i \in n + 1 .. Len(m) : m[i].free
  <2> TAKE i \in n + 1 .. Len(m)
  <2>1. i = n + 1 \/ i = n + 2 \/ (i = n + 3 /\ Len(heap) = n + 3)
    <3>1. Len(m) = n + 2 \/ (Len(m) = n + 3 /\ Len(heap) = n + 3)
      BY <1>4, <1>8
    <3>2. QED
      BY <1>1, <3>1
  <2>2. Len(heap) = n + 3 => heap[n + 3].free
    BY <1>1, <1>8
  <2>3. QED
    BY <1>4, <1>7, <1>8, <1>9, <2>1, <2>2
<1>11. n + 2 <= Len(m) /\ Len(m) <= n + 3
  BY <1>1, <1>4, <1>8
<1> DEFINE two == m[n + 1].size + Header + m[n + 2].size
           sum == IF Len(m) = n + 2 THEN two ELSE two + Header + m[n + 3].size
<1>12. sum + Header = PageSize \/ sum + Header = 2 * PageSize
  <2>1. CASE Split(heap, n, p, TRUE, FALSE)
    BY <1>4, <1>7, <2>1 DEF Split, Is, Ends
  <2>2. CASE Three(heap, n, p, TRUE, FALSE)
    <3>1. Len(heap) = n + 3 /\ Len(m) # n + 2
      BY <1>1, <1>4, <2>2 DEF Three
    <3>2. PICK h \in Nat : h = Header
      BY SizeFacts
    <3>3. PICK r \in Nat : r = ScratchWords
      BY SizeFacts
    <3>4. PICK z \in Nat : z = m[n + 3].size
      BY <1>1, <1>4, <3>1, ListFacts
    <3>5. heap[n + 3].size = z /\ heap[n + 1].size = r /\ heap[n + 2].size = r
      BY <1>9, <2>2, <3>1, <3>3, <3>4 DEF Three, Is
    <3>6. 2 * (r + h) + z + h = PageSize \/ 2 * (r + h) + z + h = 2 * PageSize
      BY <2>2, <3>2, <3>3, <3>5 DEF Three, Ends
    <3>7. sum = r + h + r + h + z
      BY <1>4, <1>7, <3>1, <3>2, <3>4, <3>5
    <3>8. sum + Header = 2 * (r + h) + z + h
      BY <3>2, <3>7
    <3>9. QED
      BY <3>6, <3>8
  <2>3. ASSUME NEW q, Two(heap, n, p, q, TRUE, FALSE)
        PROVE  sum + Header = 2 * PageSize
    <3>1. /\ Len(heap) = n + 2
          /\ heap[n + 1].size + Header = PageSize
          /\ heap[n + 2].size + Header = PageSize
      BY <2>3 DEF Two
    <3>2. sum = heap[n + 1].size + Header + heap[n + 2].size
      BY <1>4, <1>7, <3>1
    <3>3. PICK x \in Nat : x = heap[n + 1].size
      BY <1>6, ListFacts DEF BuffersLie
    <3>4. PICK y \in Nat : y = heap[n + 2].size
      BY <1>1, <3>1, ListFacts DEF BuffersLie
    <3>5. PICK h \in Nat : h = Header
      BY SizeFacts
    <3> HIDE DEF sum
    <3>6. QED
      BY <3>1, <3>2, <3>3, <3>4, <3>5
  <2>4. QED
    BY <1>2, <2>1, <2>2, <2>3
<1>13. m[n + 1].addr = p
  BY <1>7, <1>8
<1>14. \A i \in 1 .. n : m[i] = heap[i]
  BY <1>1, <1>4, <1>8
<1>15. /\ BuffersLie(Coalesce(m), n, HeapFrames)
       /\ Idle(Coalesce(m), n, HeapFrames) /\ ~ None(Coalesce(m), n)
       /\ \A i \in 1 .. n : Coalesce(m)[i] = m[i]
  BY <1>2, <1>4, <1>10, <1>11, <1>12, <1>13, CoalesceBehind
<1>16. QED
  BY <1>5, <1>14, <1>15

-----------------------------------------------------------------------------
(* The steps of the kernel. *)

\* A new array is not one that is held already.
LEMMA NotLive ==
    ASSUME NEW n, UseInv(n), NEW k, \A i \in 1 .. n : heap'[i] = heap[i],
           \A i \in 1 .. n : Payload(heap'[i]) # Payload(heap'[k]),
           \A a \in probs \cup indices : a.ptr # Payload(heap'[k])
    PROVE  ScratchAt(heap', k) \notin live
<1>1. SUFFICES ASSUME ScratchAt(heap', k) \in live PROVE FALSE
  OBVIOUS
<1>2. ScratchAt(heap', k).ptr = Payload(heap'[k])
  BY DEF ScratchAt
<1>3. ScratchAt(heap', k) \notin probs \cup indices
  BY <1>2
<1>4. ScratchAt(heap', k) \in Kept
  BY <1>1, <1>3 DEF Kept
<1>5. PICK i \in 1 .. n : ScratchAt(heap', k).ptr = Payload(heap[i])
  BY <1>4 DEF UseInv, Sits
<1>6. Payload(heap'[i]) = Payload(heap[i])
  BY Zenon
<1>7. QED
  BY <1>2, <1>5, <1>6

\* What a step has to show when it leaves the buffers alone.
LEMMA Goes ==
    ASSUME NEW n, UseInv(n), PP!IInv', BuffersLie(heap', n, HeapFrames'),
           \A i \in 1 .. n : heap'[i] = heap[i], todo' = todo, Kept' = Kept,
           probs' \cup indices' \subseteq live', Stands(n)',
           warm' => Len(heap') > n
    PROVE  UseInv(n)'
<1>1. /\ todo \in Seq(Nat \ {0}) /\ n + Len(todo) <= Len(BootRequests)
      /\ IsFiniteSet(Kept) /\ Cardinality(Kept) = n
      /\ Sits(Kept, heap, n)
  BY DEF UseInv
<1>2. Sits(Kept, heap', n)
  BY <1>1 DEF Sits
<1>3. QED
  BY <1>1, <1>2 DEF UseInv

LEMMA IdleLength ==
    ASSUME NEW list, NEW n \in Nat, NEW own, Idle(list, n, own), ~ None(list, n)
    PROVE  Len(list) > n
<1>1. PICK p : One(list, n, p, TRUE)
  BY DEF Idle
<1>2. Len(list) = n + 1
  BY <1>1 DEF One
<1>3. QED
  BY <1>2

\* The first array, or none, or the second when there was no first.
LEMMA AskedFromIdle ==
    ASSUME Together, NEW n, UseInv(n), Idle(heap, n, HeapFrames),
           probs \cup indices = {}, Asks(Scratch)
    PROVE  /\ PP!IInv' /\ BuffersLie(heap', n, HeapFrames')
           /\ \A i \in 1 .. n : heap'[i] = heap[i]
           /\ \/ UNCHANGED vars /\ Idle(heap', n, HeapFrames') /\ ~ warm /\ Got = {}
              \/ /\ ScratchAt(heap', n + 1) \notin live
                 /\ live' = live \cup {ScratchAt(heap', n + 1)}
                 /\ Got = {ScratchAt(heap', n + 1)}
                 /\ \/ Fresh(heap', n, HeapFrames') /\ ~ warm
                    \/ /\ Cut(heap', n, HeapFrames') /\ Len(heap') > n
                       /\ HeapFrames' = HeapFrames /\ holder' = holder
<1>1. /\ PP!IInv /\ BuffersLie(heap, n, HeapFrames) /\ n \in Nat
      /\ (warm => Len(heap) > n)
  BY DEF UseInv, BuffersLie
<1>2. /\ PP!IInv' /\ BuffersLie(heap', n, HeapFrames')
      /\ \/ UNCHANGED vars /\ None(heap, n) /\ HeapFrames' = HeapFrames
         \/ Gains(n + 1) /\ None(heap, n) /\ Fresh(heap', n, HeapFrames')
         \/ /\ Gains(n + 1) /\ ~ None(heap, n) /\ Cut(heap', n, HeapFrames')
            /\ HeapFrames' = HeapFrames /\ holder' = holder
  BY <1>1, AskIdle
<1>3. \A i \in 1 .. n : heap'[i] = heap[i]
  BY <1>1, AskLeaves
<1>4. ASSUME None(heap, n) PROVE ~ warm
  BY <1>1, <1>4 DEF None
<1>5. CASE UNCHANGED vars /\ None(heap, n) /\ HeapFrames' = HeapFrames
  <2>1. heap' = heap /\ live' = live
    BY <1>5 DEF vars
  <2>2. QED
    BY <1>2, <1>3, <1>4, <1>5, <2>1 DEF Got
<1>6. ASSUME Gains(n + 1), \A i \in 1 .. n : Payload(heap'[i]) # Payload(heap'[n + 1])
      PROVE  /\ ScratchAt(heap', n + 1) \notin live
             /\ live' = live \cup {ScratchAt(heap', n + 1)}
             /\ Got = {ScratchAt(heap', n + 1)}
  <2>1. \A a \in probs \cup indices : a.ptr # Payload(heap'[n + 1])
    OBVIOUS
  <2>2. ScratchAt(heap', n + 1) \notin live
    BY <1>3, <1>6, <2>1, NotLive
  <2>3. QED
    BY <1>6, <2>2 DEF Gains, Got
<1>7. CASE Gains(n + 1) /\ None(heap, n) /\ Fresh(heap', n, HeapFrames')
  <2>1. /\ n + 1 \in n + 1 .. Len(heap')
        /\ \A i \in 1 .. Len(heap') :
              i # n + 1 => Payload(heap'[i]) # Payload(heap'[n + 1])
    BY <1>2, <1>7, FreshPayload
  <2>2. \A i \in 1 .. n : i \in 1 .. Len(heap') /\ i # n + 1
    BY <1>1, <2>1
  <2>3. \A i \in 1 .. n : Payload(heap'[i]) # Payload(heap'[n + 1])
    BY <2>1, <2>2
  <2>4. QED
    BY <1>2, <1>3, <1>4, <1>6, <1>7, <2>3
<1>8. CASE /\ Gains(n + 1) /\ ~ None(heap, n) /\ Cut(heap', n, HeapFrames')
           /\ HeapFrames' = HeapFrames /\ holder' = holder
  <2>1. /\ n + 1 \in n + 1 .. Len(heap')
        /\ \A i \in 1 .. Len(heap') :
              i # n + 1 => Payload(heap'[i]) # Payload(heap'[n + 1])
    BY <1>2, <1>8, CutPayload
  <2>2. Len(heap') > n /\ \A i \in 1 .. n : i \in 1 .. Len(heap') /\ i # n + 1
    <3>1. Len(heap') \in Nat
      BY <1>2, ListFacts DEF BuffersLie
    <3>2. QED
      BY <1>1, <2>1, <3>1
  <2>3. \A i \in 1 .. n : Payload(heap'[i]) # Payload(heap'[n + 1])
    BY <2>1, <2>2
  <2>4. QED
    BY <1>2, <1>3, <1>6, <1>8, <2>2, <2>3
<1>9. QED
  BY <1>2, <1>5, <1>7, <1>8

LEMMA StepMallocProbs ==
    ASSUME Together, NEW n, UseInv(n), MallocProbs
    PROVE  /\ UseInv(n)'
           /\ warm => HeapFrames' = HeapFrames /\ holder' = holder /\ probs' # {}
<1>1. /\ step = "shell" /\ step' = "probs" /\ Asks(Scratch) /\ probs' = Got
      /\ todo' = todo /\ indices' = indices /\ warm' = warm
  BY DEF MallocProbs
<1>2. /\ probs = {} /\ indices = {} /\ Idle(heap, n, HeapFrames)
      /\ probs \cup indices \subseteq live /\ (warm => Len(heap) > n)
  BY <1>1 DEF UseInv, Stands
<1>3. /\ PP!IInv' /\ BuffersLie(heap', n, HeapFrames')
      /\ \A i \in 1 .. n : heap'[i] = heap[i]
      /\ \/ UNCHANGED vars /\ Idle(heap', n, HeapFrames') /\ ~ warm /\ Got = {}
         \/ /\ ScratchAt(heap', n + 1) \notin live
            /\ live' = live \cup {ScratchAt(heap', n + 1)}
            /\ Got = {ScratchAt(heap', n + 1)}
            /\ \/ Fresh(heap', n, HeapFrames') /\ ~ warm
               \/ /\ Cut(heap', n, HeapFrames') /\ Len(heap') > n
                  /\ HeapFrames' = HeapFrames /\ holder' = holder
  BY <1>1, <1>2, AskedFromIdle
<1>4. CASE UNCHANGED vars /\ Idle(heap', n, HeapFrames') /\ ~ warm /\ Got = {}
  <2>1. Kept' = Kept /\ probs' \cup indices' \subseteq live'
    BY <1>1, <1>2, <1>4 DEF Kept, vars
  <2>2. Stands(n)'
    BY <1>1, <1>2, <1>4 DEF Stands
  <2>3. QED
    BY <1>1, <1>3, <1>4, <2>1, <2>2, Goes
<1>5. CASE /\ ScratchAt(heap', n + 1) \notin live
           /\ live' = live \cup {ScratchAt(heap', n + 1)}
           /\ Got = {ScratchAt(heap', n + 1)}
           /\ \/ Fresh(heap', n, HeapFrames') /\ ~ warm
              \/ /\ Cut(heap', n, HeapFrames') /\ Len(heap') > n
                 /\ HeapFrames' = HeapFrames /\ holder' = holder
  <2>1. Kept' = Kept /\ probs' \cup indices' \subseteq live'
    BY <1>1, <1>2, <1>5 DEF Kept
  <2>2. Stands(n)'
    BY <1>1, <1>2, <1>5 DEF Stands
  <2>3. warm' => Len(heap') > n
    BY <1>1, <1>5
  <2>4. UseInv(n)'
    BY <1>1, <1>3, <2>1, <2>2, <2>3, Goes
  <2>5. QED
    BY <1>1, <1>5, <2>4
<1>6. QED
  BY <1>3, <1>4, <1>5

\* The second array behind the first.
LEMMA AskedForPair ==
    ASSUME Together, NEW n, UseInv(n), step = "probs", MallocIndices,
           probs = {ScratchAt(heap, n + 1)}, PP!IInv',
           BuffersLie(heap', n, HeapFrames'),
           Gains(n + 2), heap'[n + 1] = heap[n + 1],
           Pair(heap', n, HeapFrames', FALSE)
    PROVE  UseInv(n)' /\ indices' # {}
<1>1. /\ step' = "sample" /\ indices' = Got /\ Asks(Scratch)
      /\ todo' = todo /\ probs' = probs /\ warm' = warm
  BY DEF MallocIndices
<1>2. indices = {} /\ probs \cup indices \subseteq live /\ n \in Nat
      /\ PP!IInv /\ BuffersLie(heap, n, HeapFrames)
  BY DEF UseInv, Stands, BuffersLie
<1>3. \A i \in 1 .. n : heap'[i] = heap[i]
  BY <1>1, <1>2, AskLeaves
<1>4. /\ n + 1 \in n + 1 .. Len(heap') /\ n + 2 \in n + 1 .. Len(heap')
      /\ \A i \in 1 .. Len(heap') :
            i # n + 2 => Payload(heap'[i]) # Payload(heap'[n + 2])
  BY PairPayloads
<1>5. /\ \A i \in 1 .. n : i \in 1 .. Len(heap') /\ i # n + 2
      /\ n + 1 \in 1 .. Len(heap') /\ n + 1 # n + 2 /\ Len(heap') > n
  <2>1. Len(heap') \in Nat
    BY ListFacts DEF BuffersLie
  <2>2. QED
    BY <1>2, <1>4, <2>1
<1>6. \A i \in 1 .. n : Payload(heap'[i]) # Payload(heap'[n + 2])
  BY <1>4, <1>5
<1>7. Payload(heap'[n + 1]) # Payload(heap'[n + 2])
  BY <1>4, <1>5
<1>8. ScratchAt(heap, n + 1) = ScratchAt(heap', n + 1)
      /\ ScratchAt(heap', n + 1).ptr = Payload(heap'[n + 1])
  BY DEF ScratchAt
<1>9. \A a \in probs \cup indices : a.ptr # Payload(heap'[n + 2])
  BY <1>2, <1>7, <1>8
<1>10. ScratchAt(heap', n + 2) \notin live
  BY <1>3, <1>6, <1>9, NotLive
<1>11. live' = live \cup {ScratchAt(heap', n + 2)} /\ Got = {ScratchAt(heap', n + 2)}
  BY <1>10 DEF Gains, Got
<1>12. Kept' = Kept /\ probs' \cup indices' \subseteq live'
  BY <1>1, <1>2, <1>10, <1>11 DEF Kept
<1>13. Stands(n)'
  BY <1>1, <1>8, <1>11 DEF Stands
<1>14. UseInv(n)'
  BY <1>1, <1>3, <1>5, <1>12, <1>13, Goes
<1>15. QED
  BY <1>1, <1>11, <1>14

LEMMA StepMallocIndices ==
    ASSUME Together, NEW n, UseInv(n), MallocIndices
    PROVE  /\ UseInv(n)'
           /\ warm => HeapFrames' = HeapFrames /\ holder' = holder /\ indices' # {}
<1>1. /\ step = "probs" /\ step' = "sample" /\ Asks(Scratch) /\ indices' = Got
      /\ todo' = todo /\ probs' = probs /\ warm' = warm
  BY DEF MallocIndices
<1>2. /\ indices = {}
      /\ \/ probs = {} /\ Idle(heap, n, HeapFrames)
         \/ probs = {ScratchAt(heap, n + 1)} /\ Fresh(heap, n, HeapFrames) /\ ~ warm
         \/ probs = {ScratchAt(heap, n + 1)} /\ Cut(heap, n, HeapFrames)
  BY <1>1 DEF UseInv, Stands
<1>3. /\ PP!IInv /\ BuffersLie(heap, n, HeapFrames) /\ n \in Nat
      /\ probs \cup indices \subseteq live /\ (warm => Len(heap) > n)
  BY DEF UseInv, BuffersLie
<1>4. CASE probs = {} /\ Idle(heap, n, HeapFrames)
  <2>1. /\ PP!IInv' /\ BuffersLie(heap', n, HeapFrames')
        /\ \A i \in 1 .. n : heap'[i] = heap[i]
        /\ \/ UNCHANGED vars /\ Idle(heap', n, HeapFrames') /\ ~ warm /\ Got = {}
           \/ /\ ScratchAt(heap', n + 1) \notin live
              /\ live' = live \cup {ScratchAt(heap', n + 1)}
              /\ Got = {ScratchAt(heap', n + 1)}
              /\ \/ Fresh(heap', n, HeapFrames') /\ ~ warm
                 \/ /\ Cut(heap', n, HeapFrames') /\ Len(heap') > n
                    /\ HeapFrames' = HeapFrames /\ holder' = holder
    BY <1>1, <1>2, <1>4, AskedFromIdle
  <2>2. CASE UNCHANGED vars /\ Idle(heap', n, HeapFrames') /\ ~ warm /\ Got = {}
    <3>1. Kept' = Kept /\ probs' \cup indices' \subseteq live'
      BY <1>1, <1>2, <1>4, <2>2 DEF Kept, vars
    <3>2. Stands(n)'
      BY <1>1, <1>2, <1>4, <2>2 DEF Stands
    <3>3. QED
      BY <1>1, <2>1, <2>2, <3>1, <3>2, Goes
  <2>3. CASE /\ ScratchAt(heap', n + 1) \notin live
             /\ live' = live \cup {ScratchAt(heap', n + 1)}
             /\ Got = {ScratchAt(heap', n + 1)}
             /\ \/ Fresh(heap', n, HeapFrames') /\ ~ warm
                \/ /\ Cut(heap', n, HeapFrames') /\ Len(heap') > n
                   /\ HeapFrames' = HeapFrames /\ holder' = holder
    <3>1. Kept' = Kept /\ probs' \cup indices' \subseteq live'
      BY <1>1, <1>2, <1>4, <2>3 DEF Kept
    <3>2. Stands(n)'
      BY <1>1, <1>4, <2>3 DEF Stands
    <3>3. warm' => Len(heap') > n
      BY <1>1, <2>3
    <3>4. UseInv(n)'
      BY <1>1, <2>1, <3>1, <3>2, <3>3, Goes
    <3>5. QED
      BY <1>1, <2>3, <3>4
  <2>4. QED
    BY <2>1, <2>2, <2>3
<1>5. CASE probs = {ScratchAt(heap, n + 1)} /\ Fresh(heap, n, HeapFrames) /\ ~ warm
  <2>1. /\ PP!IInv' /\ BuffersLie(heap', n, HeapFrames')
        /\ \/ UNCHANGED vars /\ HeapFrames' = HeapFrames
           \/ /\ Gains(n + 2) /\ heap'[n + 1] = heap[n + 1]
              /\ Pair(heap', n, HeapFrames', FALSE)
    BY <1>1, <1>3, <1>5, AskFresh
  <2>2. CASE UNCHANGED vars /\ HeapFrames' = HeapFrames
    <3>1. heap' = heap /\ live' = live /\ indices' = {}
      BY <1>1, <2>2 DEF vars, Got
    <3>2. Kept' = Kept /\ probs' \cup indices' \subseteq live'
      BY <1>1, <1>2, <1>3, <3>1 DEF Kept
    <3>3. Stands(n)'
      BY <1>1, <1>5, <2>2, <3>1 DEF Stands
    <3>4. QED
      BY <1>1, <1>5, <2>1, <3>1, <3>2, <3>3, Goes
  <2>3. CASE /\ Gains(n + 2) /\ heap'[n + 1] = heap[n + 1]
             /\ Pair(heap', n, HeapFrames', FALSE)
    BY <1>1, <1>5, <2>1, <2>3, AskedForPair
  <2>4. QED
    BY <2>1, <2>2, <2>3
<1>6. CASE probs = {ScratchAt(heap, n + 1)} /\ Cut(heap, n, HeapFrames)
  <2>1. /\ PP!IInv' /\ BuffersLie(heap', n, HeapFrames')
        /\ HeapFrames' = HeapFrames /\ holder' = holder
        /\ Gains(n + 2) /\ heap'[n + 1] = heap[n + 1]
        /\ Pair(heap', n, HeapFrames', FALSE)
    BY <1>1, <1>3, <1>6, AskCut
  <2>2. QED
    BY <1>1, <1>6, <2>1, AskedForPair
<1>7. QED
  BY <1>2, <1>4, <1>5, <1>6

\* free of the only array.
LEMMA FreedLast ==
    ASSUME Together, NEW n, UseInv(n), Free(ScratchAt(heap, n + 1)),
           Fresh(heap, n, HeapFrames) \/ Cut(heap, n, HeapFrames)
    PROVE  /\ PP!IInv' /\ BuffersLie(heap', n, HeapFrames')
           /\ \A i \in 1 .. n : heap'[i] = heap[i]
           /\ Idle(heap', n, HeapFrames') /\ Len(heap') > n
           /\ live' = live \ {ScratchAt(heap, n + 1)}
           /\ HeapFrames' = HeapFrames /\ holder' = holder
<1>1. /\ heap' = Released(heap, Payload(heap[n + 1])) /\ UNCHANGED pageVars
      /\ live' = live \ {ScratchAt(heap, n + 1)}
  BY DEF Free, ScratchAt
<1>2. PP!IInv /\ BuffersLie(heap, n, HeapFrames) /\ n \in Nat
  BY DEF UseInv, BuffersLie
<1>3. PP!IInv' /\ HeapFrames' = HeapFrames /\ holder' = holder
  BY <1>1, <1>2, PagesSame
<1>4. /\ BuffersLie(heap', n, HeapFrames)
      /\ Idle(heap', n, HeapFrames) /\ ~ None(heap', n)
      /\ \A i \in 1 .. n : heap'[i] = heap[i]
  <2>1. CASE Fresh(heap, n, HeapFrames)
    BY <1>1, <1>2, <2>1, FreeFresh
  <2>2. CASE Cut(heap, n, HeapFrames)
    BY <1>1, <1>2, <2>2, FreeCut
  <2>3. QED
    BY <2>1, <2>2
<1>5. Len(heap') > n
  BY <1>2, <1>4, IdleLength
<1>6. QED
  BY <1>1, <1>3, <1>4, <1>5

\* free(NULL).
LEMMA FreedNone ==
    ASSUME NEW n, UseInv(n), UNCHANGED vars
    PROVE  /\ PP!IInv' /\ BuffersLie(heap', n, HeapFrames')
           /\ heap' = heap /\ live' = live
           /\ HeapFrames' = HeapFrames /\ holder' = holder
<1>1. heap' = heap /\ live' = live /\ UNCHANGED pageVars
  BY DEF vars
<1>2. PP!IInv /\ BuffersLie(heap, n, HeapFrames)
  BY DEF UseInv
<1>3. PP!IInv' /\ HeapFrames' = HeapFrames /\ holder' = holder
  BY <1>1, <1>2, PagesSame
<1>4. QED
  BY <1>1, <1>2, <1>3

LEMMA StepFreeProbs ==
    ASSUME Together, NEW n, UseInv(n), FreeProbs
    PROVE  UseInv(n)' /\ HeapFrames' = HeapFrames /\ holder' = holder
<1>1. /\ step = "sample" /\ step' = "free" /\ probs' = {}
      /\ IF probs = {} THEN UNCHANGED vars ELSE \E a \in probs : Free(a)
      /\ warm' = (warm \/ (probs # {} /\ indices # {}))
      /\ todo' = todo /\ indices' = indices
  BY DEF FreeProbs
<1> DEFINE one == {ScratchAt(heap, n + 1)}
           two == {ScratchAt(heap, n + 2)}
<1>2. \/ probs = {} /\ indices = {} /\ Idle(heap, n, HeapFrames)
      \/ probs = one /\ indices = {} /\ Fresh(heap, n, HeapFrames)
      \/ /\ probs = {} /\ indices = one
         /\ Fresh(heap, n, HeapFrames) \/ Cut(heap, n, HeapFrames)
      \/ probs = one /\ indices = two /\ Pair(heap, n, HeapFrames, FALSE)
  BY <1>1 DEF UseInv, Stands
<1>3. /\ PP!IInv /\ BuffersLie(heap, n, HeapFrames) /\ n \in Nat
      /\ probs \cup indices \subseteq live /\ (warm => Len(heap) > n)
  BY DEF UseInv, BuffersLie
<1>4. CASE /\ probs = {}
           /\ \/ indices = {} /\ Idle(heap, n, HeapFrames)
              \/ /\ indices = one
                 /\ Fresh(heap, n, HeapFrames) \/ Cut(heap, n, HeapFrames)
  <2>1. /\ PP!IInv' /\ BuffersLie(heap', n, HeapFrames')
        /\ heap' = heap /\ live' = live
        /\ HeapFrames' = HeapFrames /\ holder' = holder
    BY <1>1, <1>4, FreedNone
  <2>2. Kept' = Kept /\ probs' \cup indices' \subseteq live'
    BY <1>1, <1>3, <1>4, <2>1 DEF Kept
  <2>3. Stands(n)'
    BY <1>1, <1>4, <2>1 DEF Stands
  <2>4. warm' => Len(heap') > n
    BY <1>1, <1>3, <1>4, <2>1
  <2>5. UseInv(n)'
    BY <1>1, <2>1, <2>2, <2>3, <2>4, Goes
  <2>6. QED
    BY <2>1, <2>5
<1>5. CASE probs = one /\ indices = {} /\ Fresh(heap, n, HeapFrames)
  <2>1. Free(ScratchAt(heap, n + 1))
    BY <1>1, <1>5
  <2>2. /\ PP!IInv' /\ BuffersLie(heap', n, HeapFrames')
        /\ \A i \in 1 .. n : heap'[i] = heap[i]
        /\ Idle(heap', n, HeapFrames') /\ Len(heap') > n
        /\ live' = live \ {ScratchAt(heap, n + 1)}
        /\ HeapFrames' = HeapFrames /\ holder' = holder
    BY <1>5, <2>1, FreedLast
  <2>3. Kept' = Kept /\ probs' \cup indices' \subseteq live'
    BY <1>1, <1>5, <2>2 DEF Kept
  <2>4. Stands(n)'
    BY <1>1, <1>5, <2>2 DEF Stands
  <2>5. UseInv(n)'
    BY <1>1, <2>2, <2>3, <2>4, Goes
  <2>6. QED
    BY <2>2, <2>5
<1>6. CASE probs = one /\ indices = two /\ Pair(heap, n, HeapFrames, FALSE)
  <2>1. Free(ScratchAt(heap, n + 1))
    BY <1>1, <1>6
  <2>2. /\ heap' = Released(heap, Payload(heap[n + 1])) /\ UNCHANGED pageVars
        /\ live' = live \ {ScratchAt(heap, n + 1)}
    BY <2>1 DEF Free, ScratchAt
  <2>3. PP!IInv' /\ HeapFrames' = HeapFrames /\ holder' = holder
    BY <1>3, <2>2, PagesSame
  <2>4. /\ BuffersLie(heap', n, HeapFrames) /\ Pair(heap', n, HeapFrames, TRUE)
        /\ heap'[n + 2] = heap[n + 2]
        /\ \A i \in 1 .. n : heap'[i] = heap[i]
    BY <1>3, <1>6, <2>2, FreeFirst
  <2>5. n + 2 \in n + 1 .. Len(heap')
    BY <2>4, PairPayloads
  <2>6. Len(heap') > n
    <3>1. Len(heap') \in Nat
      BY <2>4, ListFacts DEF BuffersLie
    <3>2. QED
      BY <1>3, <2>5, <3>1
  <2>7. ScratchAt(heap, n + 1) # ScratchAt(heap, n + 2)
    <3>1. /\ n + 1 \in n + 1 .. Len(heap) /\ n + 2 \in n + 1 .. Len(heap)
          /\ \A i \in 1 .. Len(heap) :
                i # n + 2 => Payload(heap[i]) # Payload(heap[n + 2])
      BY <1>3, <1>6, PairPayloads
    <3>2. n + 1 \in 1 .. Len(heap) /\ n + 1 # n + 2
      BY <1>3, <3>1
    <3>3. Payload(heap[n + 1]) # Payload(heap[n + 2])
      BY <3>1, <3>2
    <3>4. /\ ScratchAt(heap, n + 1).ptr = Payload(heap[n + 1])
          /\ ScratchAt(heap, n + 2).ptr = Payload(heap[n + 2])
      BY DEF ScratchAt
    <3>5. QED
      BY <3>3, <3>4
  <2>8. Kept' = Kept /\ probs' \cup indices' \subseteq live'
    BY <1>1, <1>3, <1>6, <2>2, <2>7 DEF Kept
  <2>9. indices' = {ScratchAt(heap', n + 2)}
    BY <1>1, <1>6, <2>4 DEF ScratchAt
  <2>10. Stands(n)'
    BY <1>1, <2>3, <2>4, <2>9 DEF Stands
  <2>11. BuffersLie(heap', n, HeapFrames')
    BY <2>3, <2>4
  <2>12. UseInv(n)'
    BY <1>1, <2>3, <2>4, <2>6, <2>8, <2>10, <2>11, Goes
  <2>13. QED
    BY <2>3, <2>12
<1>7. QED
  BY <1>2, <1>4, <1>5, <1>6

LEMMA StepFreeIndices ==
    ASSUME Together, NEW n, UseInv(n), FreeIndices
    PROVE  UseInv(n)' /\ HeapFrames' = HeapFrames /\ holder' = holder
<1>1. /\ step = "free" /\ step' = "shell" /\ indices' = {}
      /\ IF indices = {} THEN UNCHANGED vars ELSE \E a \in indices : Free(a)
      /\ todo' = todo /\ probs' = probs /\ warm' = warm
  BY DEF FreeIndices
<1>2. /\ probs = {}
      /\ \/ indices = {} /\ Idle(heap, n, HeapFrames)
         \/ /\ indices = {ScratchAt(heap, n + 1)}
            /\ Fresh(heap, n, HeapFrames) \/ Cut(heap, n, HeapFrames)
         \/ indices = {ScratchAt(heap, n + 2)} /\ Pair(heap, n, HeapFrames, TRUE)
  BY <1>1 DEF UseInv, Stands
<1>3. /\ PP!IInv /\ BuffersLie(heap, n, HeapFrames) /\ n \in Nat
      /\ probs \cup indices \subseteq live /\ (warm => Len(heap) > n)
  BY DEF UseInv, BuffersLie
<1>4. CASE indices = {} /\ Idle(heap, n, HeapFrames)
  <2>1. /\ PP!IInv' /\ BuffersLie(heap', n, HeapFrames')
        /\ heap' = heap /\ live' = live
        /\ HeapFrames' = HeapFrames /\ holder' = holder
    BY <1>1, <1>4, FreedNone
  <2>2. Kept' = Kept /\ probs' \cup indices' \subseteq live'
    BY <1>1, <1>2, <1>4, <2>1 DEF Kept
  <2>3. Stands(n)'
    BY <1>1, <1>2, <1>4, <2>1 DEF Stands
  <2>4. UseInv(n)'
    BY <1>1, <1>3, <2>1, <2>2, <2>3, Goes
  <2>5. QED
    BY <2>1, <2>4
<1>5. ASSUME /\ PP!IInv' /\ BuffersLie(heap', n, HeapFrames')
             /\ \A i \in 1 .. n : heap'[i] = heap[i]
             /\ Idle(heap', n, HeapFrames') /\ Len(heap') > n
             /\ live' = live \ indices
      PROVE  UseInv(n)'
  <2>1. Kept' = Kept /\ probs' \cup indices' \subseteq live'
    BY <1>1, <1>2, <1>5 DEF Kept
  <2>2. Stands(n)'
    BY <1>1, <1>2, <1>5 DEF Stands
  <2>3. QED
    BY <1>1, <1>5, <2>1, <2>2, Goes
<1>6. CASE /\ indices = {ScratchAt(heap, n + 1)}
           /\ Fresh(heap, n, HeapFrames) \/ Cut(heap, n, HeapFrames)
  <2>1. Free(ScratchAt(heap, n + 1))
    BY <1>1, <1>6
  <2>2. /\ PP!IInv' /\ BuffersLie(heap', n, HeapFrames')
        /\ \A i \in 1 .. n : heap'[i] = heap[i]
        /\ Idle(heap', n, HeapFrames') /\ Len(heap') > n
        /\ live' = live \ {ScratchAt(heap, n + 1)}
        /\ HeapFrames' = HeapFrames /\ holder' = holder
    BY <1>6, <2>1, FreedLast
  <2>3. QED
    BY <1>5, <1>6, <2>2
<1>7. CASE indices = {ScratchAt(heap, n + 2)} /\ Pair(heap, n, HeapFrames, TRUE)
  <2>1. Free(ScratchAt(heap, n + 2))
    BY <1>1, <1>7
  <2>2. /\ heap' = Released(heap, Payload(heap[n + 2])) /\ UNCHANGED pageVars
        /\ live' = live \ {ScratchAt(heap, n + 2)}
    BY <2>1 DEF Free, ScratchAt
  <2>3. PP!IInv' /\ HeapFrames' = HeapFrames /\ holder' = holder
    BY <1>3, <2>2, PagesSame
  <2>4. /\ BuffersLie(heap', n, HeapFrames)
        /\ Idle(heap', n, HeapFrames) /\ ~ None(heap', n)
        /\ \A i \in 1 .. n : heap'[i] = heap[i]
    BY <1>3, <1>7, <2>2, FreeSecond
  <2>5. Len(heap') > n
    BY <1>3, <2>4, IdleLength
  <2>6. QED
    BY <1>5, <1>7, <2>2, <2>3, <2>4, <2>5
<1>8. QED
  BY <1>2, <1>4, <1>6, <1>7

\* gguf_init has another buffer, or none.
LEMMA StepBootMalloc ==
    ASSUME NEW n, UseInv(n), BootMalloc
    PROVE  ~ warm /\ (UseInv(n)' \/ UseInv(n + 1)')
<1> DEFINE size == Head(todo)
           s == Rounded(size)
<1>1. /\ step = "boot" /\ step' = "boot" /\ todo # <<>> /\ Asks(size)
      /\ todo' = Tail(todo)
      /\ probs' = probs /\ indices' = indices /\ warm' = warm
  BY DEF BootMalloc
<1>2. /\ probs = {} /\ indices = {} /\ Len(heap) = n /\ ~ warm
  <2>1. probs = {} /\ indices = {} /\ Len(heap) = n /\ (warm => Len(heap) > n)
    BY <1>1 DEF UseInv, Stands, None
  <2>2. n \in Nat
    BY DEF UseInv, BuffersLie
  <2>3. QED
    BY <2>1, <2>2
<1>3. /\ PP!IInv /\ BuffersLie(heap, n, HeapFrames) /\ n \in Nat
      /\ heap \in Seq(Block) /\ \A i \in 1 .. n : ~ heap[i].free
  BY DEF UseInv, BuffersLie
<1>4. /\ todo \in Seq(Nat \ {0}) /\ n + Len(todo) <= Len(BootRequests)
      /\ IsFiniteSet(Kept) /\ Cardinality(Kept) = n
      /\ Sits(Kept, heap, n)
  BY DEF UseInv
<1>5. Kept = live
  BY <1>2 DEF Kept
<1>6. /\ size \in Nat \ {0} /\ Tail(todo) \in Seq(Nat \ {0})
      /\ Len(todo) \in Nat /\ Len(Tail(todo)) = Len(todo) - 1
  BY <1>1, <1>4, HeadTailProperties, LenProperties
<1>7. s \in Nat \ {0}
  BY <1>6, RoundedUp
<1>8. FirstFit(s) = 0
  BY <1>2, <1>3, FitNone
<1> HIDE DEF s
<1>9. Len(BootRequests) \in Nat
  BY UseAssumption, LenProperties
<1>10. CASE MallocFails(size)
  <2>1. heap' = heap /\ live' = live /\ UNCHANGED pageVars
    BY <1>10 DEF MallocFails, vars
  <2>2. PP!IInv' /\ HeapFrames' = HeapFrames
    BY <1>3, <2>1, PagesSame
  <2>3. Kept' = live
    BY <1>1, <1>2, <2>1 DEF Kept
  <2>4. n + Len(todo') <= Len(BootRequests)
    BY <1>1, <1>3, <1>4, <1>6, <1>9
  <2>5. Stands(n)'
    BY <1>1, <1>2, <2>1 DEF Stands, None
  <2>6. UseInv(n)'
    BY <1>1, <1>2, <1>3, <1>4, <1>5, <1>6, <2>1, <2>2, <2>3, <2>4, <2>5
       DEF UseInv
  <2>7. QED
    BY <1>2, <2>6
<1>11. CASE Malloc(size)
  <2>1. PICK k \in 0 .. (count - 1) :
          /\ Pages!HeapTakes(PagesNeeded(s), k)
          /\ heap' = Append(heap, Region(free_blocks[k], PagesNeeded(s)))
          /\ live' = live \cup
               {[ptr |-> Payload(Region(free_blocks[k], PagesNeeded(s))),
                 size |-> size]}
    BY <1>8, <1>11 DEF Malloc, Obtain, s
  <2> DEFINE b == Region(free_blocks[k], PagesNeeded(s))
             a == [ptr |-> Payload(b), size |-> size]
  <2>2. /\ PP!IInv' /\ b \in Block /\ ~ b.free
        /\ \E new : /\ HeapFrames \cap new = {}
                    /\ HeapFrames' = HeapFrames \cup new
                    /\ Area(b.addr, Past(b), new)
    BY <1>3, <1>7, <2>1, RegionTaken
  <2>3. heap' = Append(heap, b) /\ live' = live \cup {a}
    BY <2>1
  <2>16. size <= b.size
    <3>1. PICK z \in Nat \ {0} : z = s /\ size <= z
      BY <1>6, <1>7, RoundedUp DEF s
    <3>2. PagesNeeded(s) * PageSize \in Nat /\ PagesNeeded(s) * PageSize >= z + Header
      BY <3>1, PagesSuffice
    <3>3. b.size + Header = PagesNeeded(s) * PageSize
      BY <1>3, <1>7, <2>1, RegionTaken
    <3>4. b.size \in Nat /\ Header \in Nat
      BY <2>2, BlockEnds
    <3> HIDE DEF b
    <3>5. QED
      BY <1>6, <3>1, <3>2, <3>3, <3>4
  <2> HIDE DEF b
  <2>4. PICK new : /\ HeapFrames \cap new = {}
                   /\ HeapFrames' = HeapFrames \cup new
                   /\ Area(b.addr, Past(b), new)
    BY <2>2
  <2>5. BuffersLie(heap', n + 1, HeapFrames')
    BY <1>2, <1>3, <2>2, <2>3, <2>4, NewPages
  <2>6. /\ Len(heap') = n + 1 /\ heap'[n + 1] = b
        /\ \A i \in 1 .. n : heap'[i] = heap[i]
    BY <1>2, <1>3, <2>2, <2>3, Appended
  <2>7. a \notin live
    <3>1. SUFFICES ASSUME a \in live PROVE FALSE
      OBVIOUS
    <3>2. PICK i \in 1 .. n : a.ptr = Payload(heap[i])
      BY <1>4, <1>5, <3>1 DEF Sits
    <3>3. /\ i \in 1 .. n + 1 /\ n + 1 \in 1 .. n + 1 /\ i # n + 1
      BY <1>3
    <3>4. heap'[i] = heap[i]
      BY <2>6
    <3>5. Payload(heap'[i]) = Payload(heap'[n + 1])
      BY <2>6, <3>2, <3>4
    <3>6. QED
      BY <2>5, <3>3, <3>5, BuffersDiffer
  <2>8. Kept' = Kept \cup {a}
    BY <1>1, <1>2, <1>5, <2>3 DEF Kept
  <2>9. IsFiniteSet(Kept') /\ Cardinality(Kept') = n + 1
    BY <1>4, <1>5, <2>7, <2>8, FS_AddElement
  <2>10. Sits(Kept', heap', n + 1)
    <3>1. n + 1 \in 1 .. n + 1 /\ \A i \in 1 .. n : i \in 1 .. n + 1
      BY <1>3
    <3>2. a.ptr = Payload(b) /\ a.size = size
      OBVIOUS
    <3> HIDE DEF a
    <3>3. \A i \in 1 .. n : Payload(heap[i]) # a.ptr
      <4>1. SUFFICES ASSUME NEW i \in 1 .. n, Payload(heap[i]) = a.ptr
                     PROVE  FALSE
        OBVIOUS
      <4>2. Payload(heap'[i]) = Payload(heap'[n + 1])
        BY <2>6, <3>2, <4>1
      <4>3. i \in 1 .. n + 1 /\ i # n + 1
        BY <1>3
      <4>4. QED
        BY <2>5, <3>1, <4>2, <4>3, BuffersDiffer
    <3>4. ASSUME NEW c \in Kept'
          PROVE  \E i \in 1 .. n + 1 :
                    c.ptr = Payload(heap'[i]) /\ c.size <= heap'[i].size
      <4>1. CASE c = a
        BY <2>16, <2>6, <3>1, <3>2, <4>1
      <4>2. CASE c \in Kept
        BY <1>4, <2>6, <3>1, <4>2 DEF Sits
      <4>3. QED
        BY <2>8, <4>1, <4>2
    <3>5. ASSUME NEW i \in 1 .. n + 1
          PROVE  \E c \in Kept' : c.ptr = Payload(heap'[i])
      <4>1. CASE i = n + 1
        BY <2>6, <2>8, <3>2, <4>1
      <4>2. CASE i # n + 1
        <5>1. i \in 1 .. n
          BY <1>3, <4>2
        <5>2. PICK c \in Kept : c.ptr = Payload(heap[i])
          BY <1>4, <5>1 DEF Sits
        <5>3. QED
          BY <2>6, <2>8, <5>1, <5>2
      <4>3. QED
        BY <4>1, <4>2
    <3>6. ASSUME NEW c \in Kept', NEW d \in Kept', c.ptr = d.ptr
          PROVE  c = d
      <4>1. \A e \in Kept : e.ptr # a.ptr
        BY <1>4, <3>3 DEF Sits
      <4>2. CASE c \in Kept /\ d \in Kept
        BY <1>4, <3>6, <4>2 DEF Sits
      <4>3. CASE c = a \/ d = a
        BY <2>8, <3>6, <4>1, <4>3
      <4>4. QED
        BY <2>8, <4>2, <4>3
    <3>7. QED
      BY <3>4, <3>5, <3>6 DEF Sits
  <2>11. n + 1 + Len(todo') <= Len(BootRequests)
    BY <1>1, <1>3, <1>4, <1>6, <1>9
  <2>12. Stands(n + 1)'
    BY <1>1, <1>2, <2>6 DEF Stands, None
  <2>13. /\ probs' \cup indices' \subseteq live' /\ ~ warm'
         /\ todo' \in Seq(Nat \ {0})
    BY <1>1, <1>2, <1>6
  <2>14. UseInv(n + 1)'
    BY <2>2, <2>5, <2>9, <2>10, <2>11, <2>12, <2>13 DEF UseInv
  <2>15. QED
    BY <1>2, <2>14
<1>12. QED
  BY <1>1, <1>10, <1>11 DEF Asks

LEMMA StepBootDone ==
    ASSUME NEW n, UseInv(n), BootDone
    PROVE  UseInv(n)' /\ HeapFrames' = HeapFrames /\ holder' = holder
<1>1. /\ step = "boot" /\ step' = "shell" /\ UNCHANGED vars
      /\ todo' = todo /\ probs' = probs /\ indices' = indices /\ warm' = warm
  BY DEF BootDone
<1>2. /\ probs = {} /\ indices = {} /\ None(heap, n)
      /\ probs \cup indices \subseteq live /\ (warm => Len(heap) > n)
  BY <1>1 DEF UseInv, Stands
<1>3. /\ PP!IInv' /\ BuffersLie(heap', n, HeapFrames')
      /\ heap' = heap /\ live' = live
      /\ HeapFrames' = HeapFrames /\ holder' = holder
  BY <1>1, FreedNone
<1>4. Kept' = Kept
  BY <1>1, <1>3 DEF Kept
<1>5. Stands(n)'
  BY <1>1, <1>2, <1>3 DEF Stands, Idle
<1>6. UseInv(n)'
  BY <1>1, <1>2, <1>3, <1>4, <1>5, Goes
<1>7. QED
  BY <1>3, <1>6

LEMMA StepShellTest ==
    ASSUME NEW n, UseInv(n), ShellTest
    PROVE  UseInv(n)' /\ HeapFrames' = HeapFrames
<1>1. /\ step = "shell" /\ step' = "shell" /\ IgpuTest
      /\ todo' = todo /\ probs' = probs /\ indices' = indices /\ warm' = warm
  BY DEF ShellTest
<1>2. /\ probs = {} /\ indices = {} /\ Idle(heap, n, HeapFrames)
      /\ probs \cup indices \subseteq live /\ (warm => Len(heap) > n)
      /\ PP!IInv /\ BuffersLie(heap, n, HeapFrames)
  BY <1>1 DEF UseInv, Stands
<1>3. heap' = heap /\ live' = live
  BY <1>1 DEF IgpuTest
<1>4. PP!IInv' /\ HeapFrames' = HeapFrames
  BY <1>1, <1>2, PagesIgpuTest
<1>5. Kept' = Kept
  BY <1>1, <1>3 DEF Kept
<1>6. Stands(n)'
  BY <1>1, <1>2, <1>3, <1>4 DEF Stands
<1>7. UseInv(n)'
  BY <1>1, <1>2, <1>3, <1>4, <1>5, <1>6, Goes
<1>8. QED
  BY <1>4, <1>7

LEMMA StepStutter ==
    ASSUME NEW n, UseInv(n), UNCHANGED useVars
    PROVE  UseInv(n)' /\ HeapFrames' = HeapFrames /\ holder' = holder
<1>1. /\ step' = step /\ UNCHANGED vars
      /\ todo' = todo /\ probs' = probs /\ indices' = indices /\ warm' = warm
  BY DEF useVars
<1>2. /\ probs \cup indices \subseteq live /\ (warm => Len(heap) > n) /\ Stands(n)
  BY DEF UseInv
<1>3. /\ PP!IInv' /\ BuffersLie(heap', n, HeapFrames')
      /\ heap' = heap /\ live' = live
      /\ HeapFrames' = HeapFrames /\ holder' = holder
  BY <1>1, FreedNone
<1>4. Kept' = Kept
  BY <1>1, <1>3 DEF Kept
<1>5. Stands(n)'
  BY <1>1, <1>2, <1>3 DEF Stands
<1>6. UseInv(n)'
  BY <1>1, <1>2, <1>3, <1>4, <1>5, Goes
<1>7. QED
  BY <1>3, <1>6

-----------------------------------------------------------------------------
(* The invariant. *)

LEMMA UseBegins == UseInit => Use
<1> SUFFICES ASSUME UseInit PROVE UseInv(0)
  BY DEF Use
<1>1. /\ heap = <<>> /\ live = {} /\ Pages!Init
      /\ step = "boot" /\ todo = BootRequests
      /\ probs = {} /\ indices = {} /\ warm = FALSE
  BY DEF UseInit, Init
<1>2. heap \in Seq(Block) /\ Len(heap) = 0
  BY <1>1, EmptyWords, EmptySeq
<1>3. BuffersLie(heap, 0, HeapFrames)
  BY <1>2 DEF BuffersLie
<1>4. todo \in Seq(Nat \ {0}) /\ 0 + Len(todo) <= Len(BootRequests)
  BY <1>1, UseAssumption, LenProperties
<1>5. Kept = {} /\ IsFiniteSet(Kept) /\ Cardinality(Kept) = 0
  BY <1>1, FS_EmptySet DEF Kept
<1>6. Stands(0)
  BY <1>1, <1>2 DEF Stands, None
<1>7. Sits(Kept, heap, 0)
  BY <1>5 DEF Sits
<1>8. QED
  BY <1>1, <1>3, <1>4, <1>5, <1>6, <1>7, PagesInit DEF UseInv

\* What no step of a warm heap does.
WarmStep ==
    warm => /\ UNCHANGED holder \/ step = "shell"
            /\ HeapFrames' = HeapFrames
            /\ step = "probs" => indices' # {}
            /\ step = "shell" /\ step' = "probs" => probs' # {}

LEMMA UseStep ==
    ASSUME Together, Use, [UseNext]_useVars
    PROVE  Use' /\ [WarmStep]_useVars
<1>1. PICK n \in Nat : UseInv(n)
  BY DEF Use
<1>2. n + 1 \in Nat
  OBVIOUS
<1>3. CASE BootMalloc
  BY <1>1, <1>2, <1>3, StepBootMalloc DEF Use, WarmStep
<1>4. CASE BootDone
  <2>1. step = "boot"
    BY <1>4 DEF BootDone
  <2>2. QED
    BY <1>1, <1>4, <2>1, StepBootDone DEF Use, WarmStep
<1>5. CASE ShellTest
  <2>1. step = "shell" /\ step' = "shell"
    BY <1>5 DEF ShellTest
  <2>2. QED
    BY <1>1, <1>5, <2>1, StepShellTest DEF Use, WarmStep
<1>6. CASE MallocProbs
  <2>1. step = "shell"
    BY <1>6 DEF MallocProbs
  <2>2. QED
    BY <1>1, <1>6, <2>1, StepMallocProbs DEF Use, WarmStep
<1>7. CASE MallocIndices
  <2>1. step = "probs"
    BY <1>7 DEF MallocIndices
  <2>2. QED
    BY <1>1, <1>7, <2>1, StepMallocIndices DEF Use, WarmStep
<1>8. CASE FreeProbs
  <2>1. step = "sample"
    BY <1>8 DEF FreeProbs
  <2>2. QED
    BY <1>1, <1>8, <2>1, StepFreeProbs DEF Use, WarmStep
<1>9. CASE FreeIndices
  <2>1. step = "free"
    BY <1>9 DEF FreeIndices
  <2>2. QED
    BY <1>1, <1>9, <2>1, StepFreeIndices DEF Use, WarmStep
<1>10. CASE UNCHANGED useVars
  BY <1>1, <1>10, StepStutter DEF Use
<1>11. QED
  BY <1>3, <1>4, <1>5, <1>6, <1>7, <1>8, <1>9, <1>10 DEF UseNext

LEMMA UseInvariance ==
    ASSUME Together PROVE UseSpec => []Use /\ [][WarmStep]_useVars
<1>1. UseInit => Use
  BY UseBegins
<1>2. Use /\ [UseNext]_useVars => Use' /\ [WarmStep]_useVars
  BY UseStep
<1>3. QED
  BY <1>1, <1>2, PTL DEF UseSpec

\* Where what is stored of a block ends.
LEMMA StoredIs ==
    ASSUME NEW b \in Block
    PROVE  /\ Stored(b) \in Nat /\ b.addr \in Nat /\ b.addr < Stored(b)
           /\ Stored(b) <= b.addr + Header + b.size
           /\ b.free => Stored(b) = b.addr + Header
<1>1. PICK h \in Nat \ {0} : h = Header
  BY HeapAssumption
<1>2. PICK x \in Nat, y \in Nat : x = b.addr /\ y = b.size
  BY BlockEnds
<1>3. Payload(b) = x + h /\ Past(b) = x + h + y
  BY <1>1, <1>2, BlockEnds
<1>4. QED
  BY <1>1, <1>2, <1>3 DEF Stored

\* Behind the buffers too, what is stored lies within clear pages, and apart.
LiesBehind(list, n, own) ==
    \A k \in n + 1 .. Len(list) :
       /\ \E p : /\ Clear(list, n, own, p) /\ p <= list[k].addr
                 /\ Stored(list[k]) <= p + PageSize
       /\ \A j \in n + 1 .. Len(list) :
             j # k => \/ Stored(list[k]) <= list[j].addr
                      \/ Stored(list[j]) <= list[k].addr

\* A block that begins with a clear page.
LEMMA LiesOne ==
    ASSUME Together, NEW list, NEW n, NEW own, BuffersLie(list, n, own),
           NEW p, Clear(list, n, own, p), NEW free, One(list, n, p, free)
    PROVE  LiesBehind(list, n, own)
<1>1. n \in Nat /\ list \in Seq(Block) /\ p \in Nat
  BY DEF BuffersLie, Clear
<1>2. PICK h \in Nat : h = Header
  BY SizeFacts
<1>3. PICK w \in Nat : w = PageSize /\ h <= w
  BY <1>2, SizeFacts
<1>4. Len(list) = n + 1 /\ list[n + 1].addr = p /\ list[n + 1] \in Block
      /\ (~ list[n + 1].free => list[n + 1].size + h = w)
  <2>1. Len(list) = n + 1 /\ list[n + 1].addr = p
        /\ (~ list[n + 1].free => list[n + 1].size + h = w)
    BY <1>2, <1>3 DEF One, Ends
  <2>2. n + 1 \in 1 .. Len(list)
    BY <1>1, <2>1
  <2>3. QED
    BY <1>1, <2>1, <2>2, ListFacts
<1>5. PICK y \in Nat : y = list[n + 1].size
  BY <1>4, BlockEnds
<1>6. Stored(list[n + 1]) <= p + w
  BY SMTT(30), <1>1, <1>2, <1>3, <1>4, <1>5, StoredIs
<1>7. \A k \in n + 1 .. Len(list) : k = n + 1
  BY <1>1, <1>4
<1>8. p <= list[n + 1].addr
  BY <1>1, <1>4
<1>9. QED
  BY <1>3, <1>6, <1>7, <1>8 DEF LiesBehind

\* Two pages.
LEMMA LiesTwo ==
    ASSUME Together, NEW list, NEW n, NEW own, BuffersLie(list, n, own),
           NEW p, Clear(list, n, own, p), NEW q, Clear(list, n, own, q),
           NEW free1, NEW free2, Two(list, n, p, q, free1, free2)
    PROVE  LiesBehind(list, n, own)
<1>1. n \in Nat /\ list \in Seq(Block) /\ p \in Nat /\ q \in Nat
  BY DEF BuffersLie, Clear
<1>2. PICK h \in Nat : h = Header
  BY SizeFacts
<1>3. PICK w \in Nat : w = PageSize /\ h <= w
  BY <1>2, SizeFacts
<1>4. /\ Len(list) = n + 2 /\ list[n + 1].addr = p /\ list[n + 2].addr = q
      /\ list[n + 1].size + h = w /\ list[n + 2].size + h = w
      /\ p + w <= q \/ q + w <= p
  BY <1>2, <1>3 DEF Two
<1>5. list[n + 1] \in Block /\ list[n + 2] \in Block
  <2>1. n + 1 \in 1 .. Len(list) /\ n + 2 \in 1 .. Len(list)
    BY <1>1, <1>4
  <2>2. QED
    BY <1>1, <2>1, ListFacts
<1>6. PICK y \in Nat, z \in Nat : y = list[n + 1].size /\ z = list[n + 2].size
  BY <1>5, BlockEnds
<1>7. /\ p <= list[n + 1].addr /\ Stored(list[n + 1]) <= p + w
      /\ q <= list[n + 2].addr /\ Stored(list[n + 2]) <= q + w
  <2>1. /\ Stored(list[n + 1]) <= p + h + y /\ Stored(list[n + 1]) \in Nat
        /\ Stored(list[n + 2]) <= q + h + z /\ Stored(list[n + 2]) \in Nat
    BY <1>2, <1>4, <1>5, <1>6, StoredIs
  <2>2. y + h = w /\ z + h = w
    BY <1>4, <1>6
  <2>3. QED
    BY <1>1, <1>4, <2>1, <2>2
<1>8. \/ Stored(list[n + 1]) <= list[n + 2].addr
      \/ Stored(list[n + 2]) <= list[n + 1].addr
  <2>1. Stored(list[n + 1]) \in Nat /\ Stored(list[n + 2]) \in Nat
    BY <1>5, StoredIs
  <2>2. QED
    BY <1>1, <1>3, <1>4, <1>7, <2>1
<1>9. \A k \in n + 1 .. Len(list) : k = n + 1 \/ k = n + 2
  BY <1>1, <1>4
<1>10. QED
  BY <1>3, <1>7, <1>8, <1>9 DEF LiesBehind

\* A page whose first block is a scratch array's.
LEMMA LiesSplit ==
    ASSUME Together, NEW list, NEW n, NEW own, BuffersLie(list, n, own),
           NEW p, Clear(list, n, own, p), NEW free1, NEW free2,
           Split(list, n, p, free1, free2)
    PROVE  LiesBehind(list, n, own)
<1>1. n \in Nat /\ list \in Seq(Block) /\ p \in Nat
  BY DEF BuffersLie, Clear
<1>2. PICK h \in Nat : h = Header
  BY SizeFacts
<1>3. PICK r \in Nat : r = ScratchWords
  BY SizeFacts
<1>4. PICK w \in Nat : w = PageSize /\ 2 * r + 3 * h <= w
  BY <1>2, <1>3, SizeFacts
<1>5. /\ Len(list) = n + 2 /\ list[n + 1].addr = p /\ list[n + 1].size = r
      /\ list[n + 2].addr = p + h + r
      /\ ~ list[n + 2].free => r + h + list[n + 2].size + h = w
  BY <1>2, <1>3, <1>4 DEF Split, Is, Ends
<1>6. list[n + 1] \in Block /\ list[n + 2] \in Block
  <2>1. n + 1 \in 1 .. Len(list) /\ n + 2 \in 1 .. Len(list)
    BY <1>1, <1>5
  <2>2. QED
    BY <1>1, <2>1, ListFacts
<1>7. PICK z \in Nat : z = list[n + 2].size
  BY <1>6, BlockEnds
<1>8. /\ Stored(list[n + 1]) <= p + h + r /\ Stored(list[n + 1]) \in Nat
      /\ Stored(list[n + 2]) \in Nat
      /\ Stored(list[n + 2]) <= p + h + r + h + z
      /\ list[n + 2].free => Stored(list[n + 2]) = p + h + r + h
  BY <1>2, <1>5, <1>6, <1>7, StoredIs
<1>9. ~ list[n + 2].free => r + h + z + h = w
  BY <1>5, <1>7
<1>10. /\ p <= list[n + 1].addr /\ Stored(list[n + 1]) <= list[n + 2].addr
       /\ Stored(list[n + 1]) <= p + w
       /\ p <= list[n + 2].addr /\ Stored(list[n + 2]) <= p + w
  <2>1. Stored(list[n + 2]) <= p + w
    <3>1. CASE list[n + 2].free
      BY <1>1, <1>4, <1>8, <3>1
    <3>2. CASE ~ list[n + 2].free
      BY <1>1, <1>4, <1>8, <1>9, <3>2
    <3>3. QED
      BY <3>1, <3>2
  <2>2. QED
    BY SMTT(30), <1>1, <1>4, <1>5, <1>8, <2>1
<1>11. \A k \in n + 1 .. Len(list) : k = n + 1 \/ k = n + 2
  BY <1>1, <1>5
<1>12. QED
  BY <1>4, <1>10, <1>11 DEF LiesBehind

\* A page with both of them, and the header of the rest.
LEMMA LiesThree ==
    ASSUME Together, NEW list, NEW n, NEW own, BuffersLie(list, n, own),
           NEW p, Clear(list, n, own, p), NEW free1, NEW free2,
           Three(list, n, p, free1, free2)
    PROVE  LiesBehind(list, n, own)
<1>1. n \in Nat /\ list \in Seq(Block) /\ p \in Nat
  BY DEF BuffersLie, Clear
<1>2. PICK h \in Nat : h = Header
  BY SizeFacts
<1>3. PICK r \in Nat : r = ScratchWords
  BY SizeFacts
<1>4. PICK w \in Nat : w = PageSize /\ 2 * r + 3 * h <= w
  BY <1>2, <1>3, SizeFacts
<1>5. /\ Len(list) = n + 3 /\ list[n + 1].addr = p /\ list[n + 1].size = r
      /\ list[n + 2].addr = p + h + r /\ list[n + 2].size = r
      /\ list[n + 3].addr = p + 2 * h + 2 * r /\ list[n + 3].free
  BY <1>2, <1>3 DEF Three, Is
<1>6. list[n + 1] \in Block /\ list[n + 2] \in Block /\ list[n + 3] \in Block
  <2>1. n + 1 \in 1 .. Len(list) /\ n + 2 \in 1 .. Len(list) /\ n + 3 \in 1 .. Len(list)
    BY <1>1, <1>5
  <2>2. QED
    BY <1>1, <2>1, ListFacts
<1>7. /\ Stored(list[n + 1]) <= p + h + r /\ Stored(list[n + 1]) \in Nat
      /\ Stored(list[n + 2]) <= p + h + r + h + r /\ Stored(list[n + 2]) \in Nat
      /\ Stored(list[n + 3]) = p + 2 * h + 2 * r + h
  BY <1>2, <1>5, <1>6, StoredIs
<1>8. /\ p <= list[n + 1].addr /\ Stored(list[n + 1]) <= list[n + 2].addr
      /\ Stored(list[n + 1]) <= list[n + 3].addr /\ Stored(list[n + 1]) <= p + w
      /\ p <= list[n + 2].addr /\ Stored(list[n + 2]) <= list[n + 3].addr
      /\ Stored(list[n + 2]) <= p + w
      /\ p <= list[n + 3].addr /\ Stored(list[n + 3]) <= p + w
  BY SMTT(30), <1>1, <1>4, <1>5, <1>7
<1>9. \A k \in n + 1 .. Len(list) : k = n + 1 \/ k = n + 2 \/ k = n + 3
  BY <1>1, <1>5
<1>10. QED
  BY <1>4, <1>8, <1>9 DEF LiesBehind

LEMMA UseLies ==
    ASSUME Together, NEW n, UseInv(n)
    PROVE  LiesBehind(heap, n, HeapFrames)
<1>1. BuffersLie(heap, n, HeapFrames) /\ n \in Nat
  BY DEF UseInv, BuffersLie
<1>2. \/ Idle(heap, n, HeapFrames)
      \/ Fresh(heap, n, HeapFrames) \/ Cut(heap, n, HeapFrames)
      \/ \E free1 : Pair(heap, n, HeapFrames, free1)
  <2>1. Stands(n)
    BY DEF UseInv
  <2>2. None(heap, n) => Idle(heap, n, HeapFrames)
    BY DEF Idle
  <2>3. QED
    BY <2>1, <2>2 DEF Stands
<1>3. CASE None(heap, n)
  BY <1>1, <1>3 DEF None, LiesBehind
<1>4. CASE Idle(heap, n, HeapFrames) /\ ~ None(heap, n)
  BY <1>1, <1>4, LiesOne DEF Idle
<1>5. CASE Fresh(heap, n, HeapFrames)
  BY <1>1, <1>5, LiesOne DEF Fresh
<1>6. CASE Cut(heap, n, HeapFrames)
  BY <1>1, <1>6, LiesSplit DEF Cut
<1>7. ASSUME NEW free1, Pair(heap, n, HeapFrames, free1)
      PROVE  LiesBehind(heap, n, HeapFrames)
  BY <1>1, <1>7, LiesSplit, LiesTwo, LiesThree DEF Pair
<1>8. QED
  BY <1>2, <1>3, <1>4, <1>5, <1>6, <1>7

LEMMA UseStaysInPages == ASSUME Together, Use PROVE StoredInOwnPages
<1>1. PICK n \in Nat : UseInv(n)
  BY DEF Use
<1>2. BuffersLie(heap, n, HeapFrames) /\ LiesBehind(heap, n, HeapFrames)
      /\ heap \in Seq(Block)
  BY <1>1, UseLies DEF UseInv, BuffersLie
<1>3. DOMAIN heap = 1 .. Len(heap) /\ Len(heap) \in Nat
      /\ \A i \in 1 .. Len(heap) : heap[i] \in Block
  BY <1>2, ListFacts
<1>4. \A i \in 1 .. Len(heap) : i \in 1 .. n \/ i \in n + 1 .. Len(heap)
  BY <1>1, <1>3
<1>5. \A i \in 1 .. Len(heap) :
        /\ heap[i].addr \in Nat /\ Stored(heap[i]) \in Nat
        /\ heap[i].addr < Stored(heap[i])
  BY <1>3, StoredIs
<1>6. \A i \in 1 .. n : Stored(heap[i]) = Past(heap[i])
  BY <1>2, BufferFacts DEF Stored
<1>7. ASSUME NEW i \in 1 .. Len(heap)
      PROVE  (heap[i].addr \div PageSize) .. ((Stored(heap[i]) - 1) \div PageSize)
                \subseteq HeapFrames
  <2>1. CASE i \in 1 .. n
    <3>1. Area(heap[i].addr, Past(heap[i]), HeapFrames)
      BY <1>2, <2>1 DEF BuffersLie
    <3>2. heap[i].addr <= heap[i].addr /\ Stored(heap[i]) <= Past(heap[i])
      BY <1>5, <1>6, <2>1
    <3>3. QED
      BY <1>5, <3>1, <3>2, AreaSpans
  <2>2. CASE i \in n + 1 .. Len(heap)
    <3>1. PICK p : /\ Clear(heap, n, HeapFrames, p) /\ p <= heap[i].addr
                   /\ Stored(heap[i]) <= p + PageSize
      BY <1>2, <2>2 DEF LiesBehind
    <3>2. Area(p, p + PageSize, HeapFrames)
      BY <3>1 DEF Clear
    <3>3. QED
      BY <1>5, <3>1, <3>2, AreaSpans
  <2>3. QED
    BY <1>4, <2>1, <2>2
<1>8. ASSUME NEW i \in 1 .. n, NEW j \in n + 1 .. Len(heap)
      PROVE  Stored(heap[i]) <= heap[j].addr \/ Stored(heap[j]) <= heap[i].addr
  <2>1. PICK p : /\ Clear(heap, n, HeapFrames, p) /\ p <= heap[j].addr
                 /\ Stored(heap[j]) <= p + PageSize
    BY <1>2 DEF LiesBehind
  <2>2. p \in Nat /\ (Stored(heap[i]) <= p \/ p + PageSize <= heap[i].addr)
    BY <1>6, <2>1 DEF Clear
  <2>3. i \in 1 .. Len(heap) /\ j \in 1 .. Len(heap)
    BY <1>1, <1>2, <1>3 DEF BuffersLie
  <2>4. PageSize \in Nat
    BY HeapAssumption
  <2>5. QED
    BY <1>5, <2>1, <2>2, <2>3, <2>4
<1>9. ASSUME NEW i \in 1 .. Len(heap), NEW j \in 1 .. Len(heap), i # j
      PROVE  Stored(heap[i]) <= heap[j].addr \/ Stored(heap[j]) <= heap[i].addr
  <2>1. CASE i \in 1 .. n /\ j \in 1 .. n
    BY <1>2, <1>6, <1>9, <2>1 DEF BuffersLie
  <2>2. CASE i \in 1 .. n /\ j \in n + 1 .. Len(heap)
    BY <1>8, <2>2
  <2>3. CASE i \in n + 1 .. Len(heap) /\ j \in 1 .. n
    BY <1>8, <2>3
  <2>4. CASE i \in n + 1 .. Len(heap) /\ j \in n + 1 .. Len(heap)
    BY <1>2, <1>9, <2>4 DEF LiesBehind
  <2>5. QED
    BY <1>4, <2>1, <2>2, <2>3, <2>4
<1>10. QED
  BY <1>3, <1>7, <1>9 DEF StoredInOwnPages, Blocks

-----------------------------------------------------------------------------
(* Who holds which block. *)

\* No two blocks have the same payload.
Distinct ==
    /\ heap \in Seq(Block)
    /\ \A i, j \in 1 .. Len(heap) : Payload(heap[i]) = Payload(heap[j]) => i = j

LEMMA PayloadsDiffer == ASSUME Together, Use PROVE Distinct
<1>1. heap \in Seq(Block) /\ StoredInOwnPages
  BY UseStaysInPages DEF Use, UseInv, BuffersLie
<1>2. SUFFICES ASSUME NEW i \in 1 .. Len(heap), NEW j \in 1 .. Len(heap),
                      Payload(heap[i]) = Payload(heap[j]), i # j
               PROVE  FALSE
  BY <1>1 DEF Distinct
<1>3. Stored(heap[i]) <= heap[j].addr \/ Stored(heap[j]) <= heap[i].addr
  BY <1>1, <1>2, ListFacts DEF StoredInOwnPages
<1>4. PICK h \in Nat : h = Header
  BY HeapAssumption
<1>5. /\ heap[i] \in Block /\ heap[j] \in Block
      /\ heap[i].addr \in Nat /\ heap[j].addr \in Nat
  BY <1>1, ListFacts
<1>6. heap[i].addr + h = heap[j].addr + h
  BY <1>2, <1>4 DEF Payload
<1>7. /\ Stored(heap[i]) \in Nat /\ heap[i].addr < Stored(heap[i])
      /\ Stored(heap[j]) \in Nat /\ heap[j].addr < Stored(heap[j])
  BY <1>5, StoredIs
<1>8. QED
  BY <1>3, <1>4, <1>5, <1>6, <1>7

\* The block of a pointer is the one with that payload.
At(list, ptr) == SelectInSeq(list, LAMBDA b : Payload(b) = ptr)

LEMMA Found ==
    ASSUME NEW list \in Seq(Block), NEW k \in 1 .. Len(list),
           \A i \in 1 .. Len(list) : Payload(list[i]) = Payload(list[k]) => i = k,
           NEW ptr, ptr = Payload(list[k])
    PROVE  At(list, ptr) = k
<1> DEFINE I == {i \in 1 .. Len(list) : Payload(list[i]) = ptr}
<1>1. At(list, ptr) = IF I # {} THEN Min(I) ELSE 0
  BY DEF At, SelectInSeq
<1>2. k \in I /\ I \in SUBSET Nat /\ \A i \in I : i = k
  OBVIOUS
<1> HIDE DEF I
<1>3. Min(I) \in I
  BY <1>2, MinOf
<1>4. QED
  BY <1>1, <1>2, <1>3

\* Behind the buffers the blocks in use are those of the arrays, one each.
HoldsBehind(list, n, held) ==
    /\ \A k \in n + 1 .. Len(list) : ~ list[k].free => ScratchAt(list, k) \in held
    /\ \A a \in held : \E k \in n + 1 .. Len(list) :
          a = ScratchAt(list, k) /\ ~ list[k].free /\ Scratch <= list[k].size

LEMMA IdleHolds ==
    ASSUME NEW list, NEW n \in Nat, NEW own, Idle(list, n, own)
    PROVE  HoldsBehind(list, n, {})
<1>1. CASE None(list, n)
  BY <1>1 DEF None, HoldsBehind
<1>2. ASSUME NEW p, One(list, n, p, TRUE) PROVE HoldsBehind(list, n, {})
  <2>1. Len(list) = n + 1 /\ list[n + 1].free
    BY <1>2 DEF One
  <2>2. \A k \in n + 1 .. Len(list) : k = n + 1
    BY <2>1
  <2>3. QED
    BY <2>1, <2>2 DEF HoldsBehind
<1>3. QED
  BY <1>1, <1>2 DEF Idle

LEMMA OneHolds ==
    ASSUME Together, NEW list, NEW n, NEW own, BuffersLie(list, n, own),
           Fresh(list, n, own) \/ Cut(list, n, own)
    PROVE  HoldsBehind(list, n, {ScratchAt(list, n + 1)})
<1>1. n \in Nat /\ list \in Seq(Block)
  BY DEF BuffersLie
<1>2. PICK h \in Nat : h = Header
  BY SizeFacts
<1>3. PICK r \in Nat : r = ScratchWords /\ Scratch \in Nat /\ Scratch <= r
  BY SizeFacts
<1>4. PICK w \in Nat : w = PageSize /\ 2 * r + 2 * h <= w
  BY <1>2, <1>3, SizeFacts
<1>5. CASE Fresh(list, n, own)
  <2>1. /\ Len(list) = n + 1 /\ list[n + 1].free = FALSE
        /\ list[n + 1].size + h = w
    BY <1>2, <1>4, <1>5 DEF Fresh, One, Ends
  <2>2. list[n + 1].size \in Nat /\ n + 1 \in n + 1 .. Len(list)
    BY <1>1, <2>1, ListFacts
  <2>3. Scratch <= list[n + 1].size
    BY <1>3, <1>4, <2>1, <2>2
  <2>4. \A k \in n + 1 .. Len(list) : k = n + 1
    BY <1>1, <2>1
  <2>5. QED
    BY <2>1, <2>2, <2>3, <2>4 DEF HoldsBehind
<1>6. CASE Cut(list, n, own)
  <2>1. /\ Len(list) = n + 2 /\ list[n + 1].free = FALSE
        /\ list[n + 1].size = r /\ list[n + 2].free
    BY <1>3, <1>6 DEF Cut, Split, Is
  <2>2. n + 1 \in n + 1 .. Len(list) /\ Scratch <= list[n + 1].size
    BY <1>1, <1>3, <2>1
  <2>3. \A k \in n + 1 .. Len(list) : k = n + 1 \/ k = n + 2
    BY <1>1, <2>1
  <2>4. QED
    BY <2>1, <2>2, <2>3 DEF HoldsBehind
<1>7. QED
  BY <1>5, <1>6

LEMMA PairHolds ==
    ASSUME Together, NEW list, NEW n, NEW own, BuffersLie(list, n, own),
           NEW free1 \in BOOLEAN, Pair(list, n, own, free1)
    PROVE  HoldsBehind(list, n, {ScratchAt(list, n + 2)} \cup
                                IF free1 THEN {} ELSE {ScratchAt(list, n + 1)})
<1>1. n \in Nat /\ list \in Seq(Block)
  BY DEF BuffersLie
<1>2. PICK h \in Nat : h = Header
  BY SizeFacts
<1>3. PICK r \in Nat : r = ScratchWords /\ Scratch \in Nat /\ Scratch <= r
  BY SizeFacts
<1>4. PICK w \in Nat : w = PageSize /\ 2 * r + 2 * h <= w
  BY <1>2, <1>3, SizeFacts
<1>5. n + 1 \in n + 1 .. Len(list) /\ n + 2 \in n + 1 .. Len(list)
  BY PairPayloads
<1>6. list[n + 1].size \in Nat /\ list[n + 2].size \in Nat
  BY <1>1, <1>5, ListFacts
<1>7. PICK p : \/ Split(list, n, p, free1, FALSE)
               \/ Three(list, n, p, free1, FALSE)
               \/ \E q : Two(list, n, p, q, free1, FALSE)
  BY DEF Pair
<1>8. /\ list[n + 1].free = free1 /\ list[n + 2].free = FALSE
      /\ Len(list) = n + 2 \/ (Len(list) = n + 3 /\ list[n + 3].free)
  BY <1>7 DEF Split, Three, Two, Is
<1>9. Scratch <= list[n + 1].size /\ Scratch <= list[n + 2].size
  <2>1. CASE Split(list, n, p, free1, FALSE)
    <3>1. list[n + 1].size = r /\ r + h + list[n + 2].size + h = w
      BY <1>2, <1>3, <1>4, <2>1 DEF Split, Is, Ends
    <3>2. QED
      BY <1>3, <1>4, <1>6, <3>1
  <2>2. CASE Three(list, n, p, free1, FALSE)
    BY <1>3, <2>2 DEF Three, Is
  <2>3. ASSUME NEW q, Two(list, n, p, q, free1, FALSE)
        PROVE  Scratch <= list[n + 1].size /\ Scratch <= list[n + 2].size
    <3>1. list[n + 1].size + h = w /\ list[n + 2].size + h = w
      BY <1>2, <1>4, <2>3 DEF Two
    <3>2. QED
      BY <1>3, <1>4, <1>6, <3>1
  <2>4. QED
    BY <1>7, <2>1, <2>2, <2>3
<1>10. \A k \in n + 1 .. Len(list) :
         k = n + 1 \/ k = n + 2 \/ (k = n + 3 /\ list[n + 3].free)
  BY <1>1, <1>8
<1>11. QED
  BY <1>5, <1>8, <1>9, <1>10 DEF HoldsBehind

LEMMA UseHolds ==
    ASSUME Together, NEW n, UseInv(n)
    PROVE  HoldsBehind(heap, n, probs \cup indices)
<1>1. BuffersLie(heap, n, HeapFrames) /\ n \in Nat /\ Stands(n)
  BY DEF UseInv, BuffersLie
<1>2. CASE probs \cup indices = {} /\ Idle(heap, n, HeapFrames)
  BY <1>1, <1>2, IdleHolds
<1>3. CASE /\ probs \cup indices = {ScratchAt(heap, n + 1)}
           /\ Fresh(heap, n, HeapFrames) \/ Cut(heap, n, HeapFrames)
  BY <1>1, <1>3, OneHolds
<1>4. CASE /\ probs \cup indices = {ScratchAt(heap, n + 2)} \cup {ScratchAt(heap, n + 1)}
           /\ Pair(heap, n, HeapFrames, FALSE)
  BY <1>1, <1>4, PairHolds
<1>5. CASE /\ probs \cup indices = {ScratchAt(heap, n + 2)}
           /\ Pair(heap, n, HeapFrames, TRUE)
  <2>1. {ScratchAt(heap, n + 2)} \cup {} = {ScratchAt(heap, n + 2)}
    OBVIOUS
  <2>2. QED
    BY <1>1, <1>5, <2>1, PairHolds
<1>6. None(heap, n) => Idle(heap, n, HeapFrames)
  BY DEF Idle
<1>7. \/ probs \cup indices = {} /\ Idle(heap, n, HeapFrames)
      \/ /\ probs \cup indices = {ScratchAt(heap, n + 1)}
         /\ Fresh(heap, n, HeapFrames) \/ Cut(heap, n, HeapFrames)
      \/ /\ probs \cup indices = {ScratchAt(heap, n + 2)} \cup {ScratchAt(heap, n + 1)}
         /\ Pair(heap, n, HeapFrames, FALSE)
      \/ /\ probs \cup indices = {ScratchAt(heap, n + 2)}
         /\ Pair(heap, n, HeapFrames, TRUE)
  <2>1. \A S : S \cup {} = S /\ {} \cup S = S
    OBVIOUS
  <2>2. {ScratchAt(heap, n + 1)} \cup {ScratchAt(heap, n + 2)}
          = {ScratchAt(heap, n + 2)} \cup {ScratchAt(heap, n + 1)}
    OBVIOUS
  <2>3. QED
    BY <1>1, <1>6, <2>1, <2>2 DEF Stands
<1>8. QED
  BY <1>2, <1>3, <1>4, <1>5, <1>7

\* What is held lies in one block, in use and large enough.
LEMMA UseLives ==
    ASSUME Together, NEW n, UseInv(n), NEW a \in live
    PROVE  \E k \in 1 .. Len(heap) :
              /\ a.ptr = Payload(heap[k]) /\ ~ heap[k].free /\ a.size <= heap[k].size
              /\ BlockOf(a) = heap[k]
<1>1. /\ BuffersLie(heap, n, HeapFrames) /\ Sits(Kept, heap, n) /\ n \in Nat
      /\ HoldsBehind(heap, n, probs \cup indices)
  BY UseHolds DEF UseInv, BuffersLie
<1>2. /\ heap \in Seq(Block)
      /\ \A i, j \in 1 .. Len(heap) : Payload(heap[i]) = Payload(heap[j]) => i = j
  BY <1>1, PayloadsDiffer DEF Use, Distinct
<1>3. PICK k \in 1 .. Len(heap) :
        a.ptr = Payload(heap[k]) /\ ~ heap[k].free /\ a.size <= heap[k].size
  <2>1. CASE a \in Kept
    <3>1. PICK k \in 1 .. n : a.ptr = Payload(heap[k]) /\ a.size <= heap[k].size
      BY <1>1, <2>1 DEF Sits
    <3>2. k \in 1 .. Len(heap) /\ ~ heap[k].free
      BY <1>1, BufferFacts
    <3>3. QED
      BY <3>1, <3>2
  <2>2. CASE a \in probs \cup indices
    <3>1. PICK k \in n + 1 .. Len(heap) :
            a = ScratchAt(heap, k) /\ ~ heap[k].free /\ Scratch <= heap[k].size
      BY <1>1, <2>2 DEF HoldsBehind
    <3>2. k \in 1 .. Len(heap)
      BY <1>1, <1>2, ListFacts
    <3>3. QED
      BY <3>1, <3>2 DEF ScratchAt
  <2>3. QED
    BY <2>1, <2>2 DEF Kept
<1>4. \A i \in 1 .. Len(heap) : Payload(heap[i]) = Payload(heap[k]) => i = k
  BY <1>2
<1>5. At(heap, a.ptr) = k
  BY <1>2, <1>3, <1>4, Found
<1>6. BlockOf(a) = heap[k]
  BY <1>5 DEF BlockOf, At
<1>7. QED
  BY <1>3, <1>6

LEMMA UseIsInUse == ASSUME Together, Use PROVE LiveIsInUse
<1>1. PICK n \in Nat : UseInv(n)
  BY DEF Use
<1>2. /\ Sits(Kept, heap, n) /\ probs \cup indices \subseteq live
      /\ HoldsBehind(heap, n, probs \cup indices)
  BY <1>1, UseHolds DEF UseInv
<1>3. /\ heap \in Seq(Block) /\ DOMAIN heap = 1 .. Len(heap) /\ Len(heap) \in Nat
      /\ \A i, j \in 1 .. Len(heap) : Payload(heap[i]) = Payload(heap[j]) => i = j
  BY PayloadsDiffer, ListFacts DEF Distinct
<1>4. \A a \in live : \E k \in 1 .. Len(heap) :
        /\ a.ptr = Payload(heap[k]) /\ ~ heap[k].free /\ a.size <= heap[k].size
        /\ BlockOf(a) = heap[k]
  BY <1>1, UseLives
<1>5. ASSUME NEW k \in 1 .. Len(heap), ~ heap[k].free
      PROVE  \E a \in live : a.ptr = Payload(heap[k])
  <2>1. k \in 1 .. n \/ k \in n + 1 .. Len(heap)
    BY <1>1, <1>3
  <2>2. CASE k \in 1 .. n
    BY <1>2, <2>2 DEF Sits, Kept
  <2>3. CASE k \in n + 1 .. Len(heap)
    <3>1. ScratchAt(heap, k) \in live
      BY <1>2, <1>5, <2>3 DEF HoldsBehind
    <3>2. QED
      BY <3>1 DEF ScratchAt
  <2>4. QED
    BY <2>1, <2>2, <2>3
<1>6. {Payload(b) : b \in {c \in Blocks : ~c.free}} = {a.ptr : a \in live}
  <2>1. Blocks = {heap[i] : i \in 1 .. Len(heap)}
    BY <1>3 DEF Blocks
  <2>2. ASSUME NEW b \in Blocks, ~ b.free PROVE \E a \in live : a.ptr = Payload(b)
    BY <1>5, <2>1, <2>2
  <2>3. ASSUME NEW a \in live
        PROVE  \E b \in Blocks : ~ b.free /\ a.ptr = Payload(b)
    BY <1>4, <2>1
  <2>4. QED
    BY <2>2, <2>3
<1>7. ASSUME NEW a \in live, NEW b \in live, a.ptr = b.ptr PROVE a = b
  <2>1. ASSUME NEW c \in Kept, NEW d \in probs \cup indices, c.ptr = d.ptr PROVE FALSE
    <3>1. PICK i \in 1 .. n : c.ptr = Payload(heap[i])
      BY <1>2 DEF Sits
    <3>2. PICK k \in n + 1 .. Len(heap) : d = ScratchAt(heap, k)
      BY <1>2 DEF HoldsBehind
    <3>3. Payload(heap[i]) = Payload(heap[k])
      BY <2>1, <3>1, <3>2 DEF ScratchAt
    <3>4. i \in 1 .. Len(heap) /\ k \in 1 .. Len(heap) /\ i # k
      BY <1>1, <1>3 DEF UseInv, BuffersLie
    <3>5. QED
      BY <1>3, <3>3, <3>4
  <2>2. CASE a \in Kept /\ b \in Kept
    BY <1>2, <1>7, <2>2 DEF Sits
  <2>3. CASE a \in probs \cup indices /\ b \in probs \cup indices
    <3>1. a.size = Scratch /\ b.size = Scratch
          /\ a = [ptr |-> a.ptr, size |-> a.size] /\ b = [ptr |-> b.ptr, size |-> b.size]
      BY <1>2, <2>3 DEF HoldsBehind, ScratchAt
    <3>2. QED
      BY <1>7, <3>1
  <2>4. QED
    BY <1>7, <2>1, <2>2, <2>3 DEF Kept
<1>8. ASSUME NEW a \in live PROVE BlockOf(a).size >= a.size
  <2>1. PICK k \in 1 .. Len(heap) : a.size <= heap[k].size /\ BlockOf(a) = heap[k]
    BY <1>4
  <2>2. QED
    BY <2>1
<1>9. QED
  BY <1>6, <1>7, <1>8 DEF LiveIsInUse

\* Who keeps an allocation keeps its block.
KeepsBlocks ==
    \A a \in live \cap live' : \E k \in 1 .. Len(heap) :
       /\ k \in 1 .. Len(heap') /\ heap'[k] = heap[k]
       /\ a.ptr = Payload(heap[k])

LEMMA KeptKeep ==
    ASSUME NEW n, UseInv(n), NEW own, BuffersLie(heap', n, own),
           \A i \in 1 .. n : heap'[i] = heap[i], NEW a \in Kept
    PROVE  \E k \in 1 .. Len(heap) :
              /\ k \in 1 .. Len(heap') /\ heap'[k] = heap[k]
              /\ a.ptr = Payload(heap[k])
<1>1. BuffersLie(heap, n, HeapFrames) /\ Sits(Kept, heap, n)
  BY DEF UseInv
<1>2. PICK k \in 1 .. n : a.ptr = Payload(heap[k])
  BY <1>1 DEF Sits
<1>3. k \in 1 .. Len(heap) /\ k \in 1 .. Len(heap')
  BY <1>1, BufferFacts
<1>4. QED
  BY <1>2, <1>3

\* The only allocations of a step are kept ones.
LEMMA KeepsKept ==
    ASSUME NEW n, UseInv(n), NEW own, BuffersLie(heap', n, own),
           \A i \in 1 .. n : heap'[i] = heap[i], live \cap live' \subseteq Kept
    PROVE  KeepsBlocks
BY KeptKeep DEF KeepsBlocks

\* Beside them one array, whose block the step leaves alone.
LEMMA KeepsOne ==
    ASSUME NEW n, UseInv(n), NEW own, BuffersLie(heap', n, own),
           \A i \in 1 .. n : heap'[i] = heap[i],
           NEW k \in 1 .. Len(heap), k \in 1 .. Len(heap'), heap'[k] = heap[k],
           live \cap live' \subseteq Kept \cup {ScratchAt(heap, k)}
    PROVE  KeepsBlocks
<1>1. ScratchAt(heap, k).ptr = Payload(heap[k])
  BY DEF ScratchAt
<1>2. ASSUME NEW a \in Kept
      PROVE  \E i \in 1 .. Len(heap) :
                /\ i \in 1 .. Len(heap') /\ heap'[i] = heap[i]
                /\ a.ptr = Payload(heap[i])
  BY KeptKeep
<1>3. QED
  BY <1>1, <1>2 DEF KeepsBlocks

LEMMA KeepsSame ==
    ASSUME Together, Use, heap' = heap
    PROVE  KeepsBlocks
<1>1. PICK n \in Nat : UseInv(n)
  BY DEF Use
<1>2. ASSUME NEW a \in live
      PROVE  \E k \in 1 .. Len(heap) : a.ptr = Payload(heap[k])
  BY <1>1, UseLives
<1>3. QED
  BY <1>2 DEF KeepsBlocks

LEMMA StepKeeps ==
    ASSUME Together, NEW n \in Nat, UseInv(n), [UseNext]_useVars
    PROVE  KeepsBlocks
<1>1. /\ PP!IInv /\ BuffersLie(heap, n, HeapFrames) /\ Stands(n)
      /\ heap \in Seq(Block) /\ Len(heap) \in Nat /\ Use
      /\ probs \cup indices \subseteq live
  BY ListFacts DEF UseInv, BuffersLie, Use
<1>2. CASE heap' = heap
  BY <1>1, <1>2, KeepsSame
<1>3. CASE BootMalloc
  <2>1. probs = {} /\ indices = {} /\ None(heap, n) /\ Asks(Head(todo))
    BY <1>1, <1>3 DEF BootMalloc, Stands
  <2>2. CASE MallocFails(Head(todo))
    BY <1>2, <2>2 DEF MallocFails, vars
  <2>3. CASE Malloc(Head(todo))
    <3> DEFINE s == Rounded(Head(todo))
    <3>1. todo # <<>> /\ todo \in Seq(Nat \ {0})
      BY <1>3 DEF BootMalloc, UseInv
    <3>2. s \in Nat \ {0}
      BY <3>1, HeadTailProperties, RoundedUp
    <3>3. FirstFit(s) = 0
      BY <1>1, <2>1, FitNone DEF None, BuffersLie
    <3> HIDE DEF s
    <3>4. PICK k \in 0 .. (count - 1) :
            /\ Pages!HeapTakes(PagesNeeded(s), k)
            /\ heap' = Append(heap, Region(free_blocks[k], PagesNeeded(s)))
      BY <2>3, <3>3 DEF Malloc, Obtain, s
    <3>5. Region(free_blocks[k], PagesNeeded(s)) \in Block
      BY <1>1, <3>2, <3>4, RegionTaken
    <3>6. \A i \in 1 .. Len(heap) : heap'[i] = heap[i] /\ i \in 1 .. Len(heap')
      BY <1>1, <3>4, <3>5, Appended
    <3>7. \A a \in live : \E i \in 1 .. Len(heap) : a.ptr = Payload(heap[i])
      BY UseLives
    <3>8. QED
      BY <3>6, <3>7 DEF KeepsBlocks
  <2>4. QED
    BY <2>1, <2>2, <2>3 DEF Asks
<1>4. CASE MallocProbs
  <2>1. probs = {} /\ indices = {} /\ Asks(Scratch) /\ Idle(heap, n, HeapFrames)
    BY <1>1, <1>4 DEF MallocProbs, Stands
  <2>2. BuffersLie(heap', n, HeapFrames') /\ \A i \in 1 .. n : heap'[i] = heap[i]
    BY <1>1, <2>1, AskedFromIdle
  <2>3. QED
    BY <2>1, <2>2, KeepsKept DEF Kept
<1>5. CASE MallocIndices
  <2>1. /\ indices = {} /\ Asks(Scratch)
        /\ \/ probs = {} /\ Idle(heap, n, HeapFrames)
           \/ probs = {ScratchAt(heap, n + 1)} /\ Fresh(heap, n, HeapFrames)
           \/ probs = {ScratchAt(heap, n + 1)} /\ Cut(heap, n, HeapFrames)
    BY <1>1, <1>5 DEF MallocIndices, Stands
  <2>2. \A i \in 1 .. n : heap'[i] = heap[i]
    BY <1>1, <2>1, AskLeaves
  <2>3. CASE probs = {} /\ Idle(heap, n, HeapFrames)
    <3>1. BuffersLie(heap', n, HeapFrames')
      BY <1>1, <2>1, <2>3, AskedFromIdle
    <3>2. QED
      BY <2>1, <2>2, <2>3, <3>1, KeepsKept DEF Kept
  <2>4. ASSUME probs = {ScratchAt(heap, n + 1)}, BuffersLie(heap', n, HeapFrames'),
               n + 1 \in n + 1 .. Len(heap),
               heap'[n + 1] = heap[n + 1], Pair(heap', n, HeapFrames', FALSE)
        PROVE  KeepsBlocks
    <3>1. n + 1 \in n + 1 .. Len(heap')
      BY <2>4, PairPayloads
    <3>2. n + 1 \in 1 .. Len(heap) /\ n + 1 \in 1 .. Len(heap')
      BY <2>4, <3>1
    <3>3. live \cap live' \subseteq Kept \cup {ScratchAt(heap, n + 1)}
      BY <2>1, <2>4 DEF Kept
    <3>4. QED
      BY <2>2, <2>4, <3>2, <3>3, KeepsOne
  <2>5. CASE probs = {ScratchAt(heap, n + 1)} /\ Fresh(heap, n, HeapFrames)
    <3>1. /\ BuffersLie(heap', n, HeapFrames')
          /\ \/ UNCHANGED vars
             \/ heap'[n + 1] = heap[n + 1] /\ Pair(heap', n, HeapFrames', FALSE)
      BY <1>1, <2>1, <2>5, AskFresh
    <3>2. n + 1 \in n + 1 .. Len(heap)
      BY <1>1, <2>5, FreshPayload
    <3>3. QED
      BY <1>2, <2>4, <2>5, <3>1, <3>2 DEF vars
  <2>6. CASE probs = {ScratchAt(heap, n + 1)} /\ Cut(heap, n, HeapFrames)
    <3>1. /\ BuffersLie(heap', n, HeapFrames')
          /\ heap'[n + 1] = heap[n + 1] /\ Pair(heap', n, HeapFrames', FALSE)
      BY <1>1, <2>1, <2>6, AskCut
    <3>2. n + 1 \in n + 1 .. Len(heap)
      BY <1>1, <2>6, CutPayload
    <3>3. QED
      BY <2>4, <2>6, <3>1, <3>2
  <2>7. QED
    BY <2>1, <2>3, <2>5, <2>6
<1>6. CASE FreeProbs
  <2>1. /\ IF probs = {} THEN UNCHANGED vars ELSE \E a \in probs : Free(a)
        /\ \/ probs = {}
           \/ /\ probs = {ScratchAt(heap, n + 1)} /\ indices = {}
              /\ Fresh(heap, n, HeapFrames)
           \/ /\ probs = {ScratchAt(heap, n + 1)}
              /\ indices = {ScratchAt(heap, n + 2)}
              /\ Pair(heap, n, HeapFrames, FALSE)
    BY <1>1, <1>6 DEF FreeProbs, Stands
  <2>2. CASE probs = {}
    BY <1>2, <2>1, <2>2 DEF vars
  <2>3. CASE /\ probs = {ScratchAt(heap, n + 1)} /\ indices = {}
             /\ Fresh(heap, n, HeapFrames)
    <3>1. Free(ScratchAt(heap, n + 1))
      BY <2>1, <2>3
    <3>2. /\ BuffersLie(heap', n, HeapFrames')
          /\ \A i \in 1 .. n : heap'[i] = heap[i]
          /\ live' = live \ {ScratchAt(heap, n + 1)}
      BY <2>3, <3>1, FreedLast
    <3>3. live \cap live' \subseteq Kept
      BY <2>3, <3>2 DEF Kept
    <3>4. QED
      BY <3>2, <3>3, KeepsKept
  <2>4. CASE /\ probs = {ScratchAt(heap, n + 1)}
             /\ indices = {ScratchAt(heap, n + 2)}
             /\ Pair(heap, n, HeapFrames, FALSE)
    <3>1. Free(ScratchAt(heap, n + 1))
      BY <2>1, <2>4
    <3>2. /\ heap' = Released(heap, Payload(heap[n + 1]))
          /\ live' = live \ {ScratchAt(heap, n + 1)}
      BY <3>1 DEF Free, ScratchAt
    <3>3. /\ BuffersLie(heap', n, HeapFrames) /\ Pair(heap', n, HeapFrames, TRUE)
          /\ heap'[n + 2] = heap[n + 2]
          /\ \A i \in 1 .. n : heap'[i] = heap[i]
      BY <1>1, <2>4, <3>2, FreeFirst
    <3>4. n + 2 \in n + 1 .. Len(heap') /\ n + 2 \in n + 1 .. Len(heap)
      BY <1>1, <2>4, <3>3, PairPayloads
    <3>5. n + 2 \in 1 .. Len(heap') /\ n + 2 \in 1 .. Len(heap)
      BY <3>4
    <3>6. live \cap live' \subseteq Kept \cup {ScratchAt(heap, n + 2)}
      BY <2>4, <3>2 DEF Kept
    <3>7. QED
      BY <3>3, <3>5, <3>6, KeepsOne
  <2>5. QED
    BY <2>1, <2>2, <2>3, <2>4
<1>7. CASE FreeIndices
  <2>1. /\ IF indices = {} THEN UNCHANGED vars ELSE \E a \in indices : Free(a)
        /\ probs = {}
        /\ \/ indices = {}
           \/ /\ indices = {ScratchAt(heap, n + 1)}
              /\ Fresh(heap, n, HeapFrames) \/ Cut(heap, n, HeapFrames)
           \/ /\ indices = {ScratchAt(heap, n + 2)}
              /\ Pair(heap, n, HeapFrames, TRUE)
    BY <1>1, <1>7 DEF FreeIndices, Stands
  <2>2. CASE indices = {}
    BY <1>2, <2>1, <2>2 DEF vars
  <2>3. CASE /\ indices = {ScratchAt(heap, n + 1)}
             /\ Fresh(heap, n, HeapFrames) \/ Cut(heap, n, HeapFrames)
    <3>1. Free(ScratchAt(heap, n + 1))
      BY <2>1, <2>3
    <3>2. /\ BuffersLie(heap', n, HeapFrames')
          /\ \A i \in 1 .. n : heap'[i] = heap[i]
          /\ live' = live \ {ScratchAt(heap, n + 1)}
      BY <2>3, <3>1, FreedLast
    <3>3. live \cap live' \subseteq Kept
      BY <2>1, <2>3, <3>2 DEF Kept
    <3>4. QED
      BY <3>2, <3>3, KeepsKept
  <2>4. CASE /\ indices = {ScratchAt(heap, n + 2)}
             /\ Pair(heap, n, HeapFrames, TRUE)
    <3>1. Free(ScratchAt(heap, n + 2))
      BY <2>1, <2>4
    <3>2. /\ heap' = Released(heap, Payload(heap[n + 2]))
          /\ live' = live \ {ScratchAt(heap, n + 2)}
      BY <3>1 DEF Free, ScratchAt
    <3>3. /\ BuffersLie(heap', n, HeapFrames)
          /\ \A i \in 1 .. n : heap'[i] = heap[i]
      BY <1>1, <2>4, <3>2, FreeSecond
    <3>4. live \cap live' \subseteq Kept
      BY <2>1, <2>4, <3>2 DEF Kept
    <3>5. QED
      BY <3>3, <3>4, KeepsKept
  <2>5. QED
    BY <2>1, <2>2, <2>3, <2>4
<1>8. CASE BootDone \/ ShellTest \/ UNCHANGED useVars
  BY <1>2, <1>8 DEF BootDone, ShellTest, IgpuTest, useVars, vars
<1>9. QED
  BY <1>3, <1>4, <1>5, <1>6, <1>7, <1>8 DEF UseNext

LEMMA UseStays ==
    ASSUME Together, Use, Distinct', [UseNext]_useVars
    PROVE  \A a \in live \cap live' : BlockOf(a)' = BlockOf(a)
<1> TAKE a \in live \cap live'
<1>1. PICK n \in Nat : UseInv(n)
  BY DEF Use
<1>2. PICK k \in 1 .. Len(heap) :
         k \in 1 .. Len(heap') /\ heap'[k] = heap[k] /\ a.ptr = Payload(heap[k])
  BY <1>1, StepKeeps DEF KeepsBlocks
<1>3. /\ heap \in Seq(Block)
      /\ \A i, j \in 1 .. Len(heap) : Payload(heap[i]) = Payload(heap[j]) => i = j
  BY PayloadsDiffer DEF Distinct
<1>4. /\ heap' \in Seq(Block)
      /\ \A i, j \in 1 .. Len(heap') : Payload(heap'[i]) = Payload(heap'[j]) => i = j
  BY DEF Distinct
<1>5. At(heap, a.ptr) = k
  BY <1>2, <1>3, Found
<1>6. At(heap', a.ptr) = k
  BY <1>2, <1>4, Found
<1>7. BlockOf(a) = heap[k]
  BY <1>5 DEF BlockOf, At
<1>8. BlockOf(a)' = heap'[k]
  BY <1>6 DEF BlockOf, At, SelectInSeq, Payload
<1>9. QED
  BY <1>2, <1>7, <1>8

LEMMA UseLeaksNothing == ASSUME Use PROVE NothingLeaks
<1>1. PICK n \in Nat : UseInv(n)
  BY DEF Use
<1>2. SUFFICES ASSUME step = "shell"
               PROVE  /\ probs = {} /\ indices = {}
                      /\ Cardinality(live) <= Len(BootRequests)
                      /\ Cardinality(InUse) = Cardinality(live)
  BY DEF NothingLeaks
<1>3. probs = {} /\ indices = {} /\ Idle(heap, n, HeapFrames)
  BY <1>1, <1>2 DEF UseInv, Stands
<1>4. /\ BuffersLie(heap, n, HeapFrames) /\ heap \in Seq(Block)
      /\ n <= Len(heap) /\ \A i \in 1 .. n : ~ heap[i].free
  BY <1>1 DEF UseInv, BuffersLie
<1>5. Cardinality(live) = n
  <2>1. Kept = live
    BY <1>3 DEF Kept
  <2>2. Cardinality(Kept) = n
    BY <1>1 DEF UseInv
  <2>3. QED
    BY <2>1, <2>2
<1>6. n <= Len(BootRequests)
  <2>1. todo \in Seq(Nat \ {0}) /\ n + Len(todo) <= Len(BootRequests)
    BY <1>1 DEF UseInv
  <2>2. Len(todo) \in Nat /\ Len(BootRequests) \in Nat
    BY <2>1, UseAssumption, LenProperties
  <2>3. QED
    BY <2>1, <2>2
<1>7. DOMAIN heap = 1 .. Len(heap) /\ Len(heap) \in Nat
  BY <1>4, ListFacts
<1>8. ASSUME NEW i \in 1 .. Len(heap), ~ heap[i].free PROVE i \in 1 .. n
  <2>1. CASE None(heap, n)
    BY <1>8, <2>1 DEF None
  <2>2. CASE ~ None(heap, n)
    <3>1. PICK p : One(heap, n, p, TRUE)
      BY <1>3, <2>2 DEF Idle
    <3>2. Len(heap) = n + 1 /\ heap[n + 1].free = TRUE
      BY <3>1 DEF One
    <3>3. i # n + 1
      BY <1>8, <3>2
    <3>4. QED
      BY <1>1, <3>2, <3>3
  <2>3. QED
    BY <2>1, <2>2
<1>9. InUse = {heap[i] : i \in 1 .. n}
  <2>1. \A i \in 1 .. n : i \in 1 .. Len(heap)
    BY <1>1, <1>4, <1>7
  <2>2. QED
    BY <1>4, <1>7, <1>8, <2>1 DEF InUse, Blocks
<1>10. \A i, j \in 1 .. n : heap[i] = heap[j] => i = j
  BY <1>4, BuffersDiffer
<1> DEFINE F == [i \in 1 .. n |-> heap[i]]
<1>11. F \in Bijection(1 .. n, InUse)
  <2>1. F \in [1 .. n -> InUse]
    BY <1>9
  <2>2. \A i, j \in 1 .. n : F[i] = F[j] => i = j
    BY <1>10
  <2>3. \A b \in InUse : \E i \in 1 .. n : F[i] = b
    BY <1>9
  <2>4. QED
    BY <2>1, <2>2, <2>3 DEF Bijection, Injection, Surjection, IsInjective
<1>12. Cardinality(InUse) = n
  BY <1>1, <1>11, FS_CountingElements DEF ExistsBijection
<1>13. QED
  BY <1>3, <1>5, <1>6, <1>12

-----------------------------------------------------------------------------
(* When two scratch arrays and three headers are longer than a page, a block *)
(* that free has made too long can be cut beyond its pages: the theorems     *)
(* need Together.                                                            *)

\* With any buffers and pages in any order, what malloc and the kernel store
\* in the blocks stays in pages the heap has taken, and no two blocks share a
\* word of it, although free makes blocks that reach past their pages.
THEOREM UseStaysInItsPages ==
    ASSUME Together PROVE UseSpec => []StoredInOwnPages
<1>1. Use => StoredInOwnPages
  BY UseStaysInPages
<1>2. QED
  BY UseInvariance, <1>1, PTL

\* The blocks in use are those of the buffers and arrays the kernel holds, one
\* each, and each is as large as was asked for.
THEOREM UseHoldsItsBlocks ==
    ASSUME Together PROVE UseSpec => []LiveIsInUse
<1>1. Together /\ Use => LiveIsInUse
  BY UseIsInUse
<1>2. QED
  BY UseInvariance, <1>1, PTL

\* No malloc and no free of the kernel moves or shortens a block that another
\* holder keeps.
THEOREM UseLeavesBlocks ==
    ASSUME Together PROVE UseSpec => LiveBlocksStay
<1>1. Together /\ Use => Distinct
  BY PayloadsDiffer
<1>2. Use /\ Distinct' /\ [UseNext]_useVars
        => [\A a \in live \cap live' : BlockOf(a)' = BlockOf(a)]_vars
  BY UseStays
<1>3. QED
  BY UseInvariance, <1>1, <1>2, PTL DEF UseSpec, LiveBlocksStay

\* gguf_generate gives back both arrays of every token.
THEOREM UseGivesBack ==
    ASSUME Together PROVE UseSpec => []NothingLeaks
<1>1. Use => NothingLeaks
  BY UseLeaksNothing
<1>2. QED
  BY UseInvariance, <1>1, PTL

\* After the first token that had its two arrays, no token takes a page, and
\* none is refused an array.
THEOREM FirstTokenIsEnough ==
    ASSUME Together PROVE UseSpec => WarmHeapSuffices
<1>1. WarmStep =>
        (warm => /\ UNCHANGED holder \/ step = "shell"
                 /\ HeapFrames' = HeapFrames
                 /\ step = "probs" => indices' # {}
                 /\ step = "shell" /\ step' = "probs" => probs' # {})
  BY DEF WarmStep
<1>2. QED
  BY UseInvariance, <1>1, PTL DEF WarmHeapSuffices
=============================================================================
