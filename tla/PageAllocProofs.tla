-------------------------- MODULE PageAllocProofs --------------------------
(***************************************************************************)
(* The safety of the buddy allocator for any number of orders, any place   *)
(* of the heap and any requests.                                           *)
(*                                                                         *)
(* linker.ld aligns the heap to a page, so a block need not start at a     *)
(* multiple of its size, and flipping a bit of its address may lead out of *)
(* it.  What the code keeps apart on every heap are the cells of blocks:   *)
(* the blocks of the same size, at multiples of it, that their first pages *)
(* lie in.  A split replaces a block by two whose cells are the halves of  *)
(* its cell, a merge undoes that.  So no two blocks start at one page      *)
(* (CellsApart).  The blocks themselves are apart as long as every split   *)
(* has gone upwards (Apart), as all do on a heap aligned to its size.      *)
(*                                                                         *)
(* The rest is about the lists.  The block split is the block cut from the *)
(* chain because the last entry made, the one block offered without a      *)
(* search, ends its chain (EndsAt); a chain is cut or emptied by what the  *)
(* counter says, which is right because the counter covers the chain       *)
(* (Covers); and a block that was cut out while held stays used until its  *)
(* owner frees it (HeldIsUsed), when a search by address must not find     *)
(* another block at its page (LiveByPage, from CellsApart).                *)
(*                                                                         *)
(* The proof goes by lists: what one chain satisfies (ChainOK) is kept by  *)
(* each way of changing a chain, and each action is a change of one or two *)
(* chains and of the set of live blocks.                                   *)
(***************************************************************************)
EXTENDS PageAlloc, TLAPS, SequenceTheorems

-----------------------------------------------------------------------------
(* Arithmetic of blocks and their cells *)

\* The cell of a block: the block at a multiple of its size that it starts in.
Cell(b) ==
  [order |-> b.order,
   page  |-> (b.page \div PageBlock[b.order]) * PageBlock[b.order]]

Inside(b, w) ==
  /\ w.page <= b.page
  /\ b.page + PageBlock[b.order] <= w.page + PageBlock[w.order]

\* Blocks l and h are the two halves of the space of block w.
Halves(l, h, w) ==
  /\ h.order = l.order
  /\ PageBlock[w.order] = 2 * PageBlock[l.order]
  /\ \/ l.page = w.page /\ h.page = w.page + PageBlock[l.order]
     \/ h.page = w.page /\ l.page = w.page + PageBlock[l.order]

\* Integer division finds the multiple of s at or below a number.
LEMMA DivBounds ==
  ASSUME NEW p \in Int, NEW s \in Nat, s > 0
  PROVE  p \div s \in Int /\ (p \div s) * s <= p /\ p < (p \div s) * s + s
<1> DEFINE q == p \div s
           r == p % s
<1>1. q \in Int /\ r \in 0 .. s - 1 /\ p = s * q + r
  BY SMT
<1>2. s * q = q * s
  BY <1>1, SMT
<1> HIDE DEF q, r
<1>3. q * s <= p /\ p < q * s + s
  BY <1>1, <1>2, SMT
<1> QED BY <1>1, <1>3 DEF q

\* That multiple is the only one so close.
LEMMA DivUnique ==
  ASSUME NEW k \in Int, NEW s \in Nat, s > 0, NEW r \in 0 .. s - 1
  PROVE  (k * s + r) \div s = k
<1> DEFINE p == k * s + r
           q == p \div s
<1>1. q \in Int /\ q * s <= p /\ p < q * s + s
  <2>1. p \in Int
    BY SMT
  <2> HIDE DEF p
  <2> QED BY <2>1, DivBounds
<1>2. (k - q) * s = k * s - q * s
  BY <1>1, SMT
<1>3. (k - q) * s < s /\ (k - q) * s > 0 - s
  BY <1>1, <1>2, SMT
<1> HIDE DEF q
<1>4. k - q <= 0
  <2> SUFFICES ASSUME k - q >= 1 PROVE FALSE
    BY <1>1, SMT
  <2>1. (k - q) * s >= 1 * s
    BY <1>1, SMT
  <2> QED BY <2>1, <1>1, <1>3, SMT
<1>5. k - q >= 0
  <2> SUFFICES ASSUME k - q <= -1 PROVE FALSE
    BY <1>1, SMT
  <2>1. (k - q) * s <= (-1) * s
    BY <1>1, SMT
  <2> QED BY <2>1, <1>1, <1>3, SMT
<1>6. q = k
  BY <1>1, <1>4, <1>5, SMT
<1> QED BY <1>6 DEF q

\* Every block has pages.
LEMMA PageBlockPositive ==
  \A o \in Orders : PageBlock[o] \in Nat /\ PageBlock[o] > 0
BY PageBlockAssumption, OrderAssumption, SMT DEF Orders

\* A block of order o - 1 has half the pages of one of order o.
LEMMA HalfSizes ==
  ASSUME NEW o \in Orders, o > 0
  PROVE  o - 1 \in Orders /\ PageBlock[o] = 2 * PageBlock[o - 1]
<1>1. o - 1 \in Orders /\ (o - 1) + 1 = o
  BY OrderAssumption, SMT DEF Orders
<1> QED BY <1>1, PageBlockAssumption

\* A block starts in its cell, which is the block itself if that is aligned.
LEMMA CellProperties ==
  ASSUME NEW b \in Block
  PROVE  /\ Cell(b) \in Block /\ Cell(b).order = b.order
         /\ Cell(b).page <= b.page /\ b.page < Cell(b).page + PageBlock[b.order]
         /\ Aligned(b) <=> Cell(b).page = b.page
<1>1. b.order \in Orders /\ b.page \in Int
      /\ PageBlock[b.order] \in Nat /\ PageBlock[b.order] > 0
  BY PageBlockPositive DEF Block
<1>2. /\ b.page \div PageBlock[b.order] \in Int
      /\ Cell(b).page <= b.page /\ b.page < Cell(b).page + PageBlock[b.order]
  BY <1>1, DivBounds DEF Cell
<1>3. Cell(b).page \in Int
  BY <1>1, <1>2, SMT DEF Cell
<1> QED BY <1>1, <1>2, <1>3 DEF Cell, Block, Aligned

\* A block r pages above the multiple m of its size has its cell there.
LEMMA CellAt ==
  ASSUME NEW b \in Block, NEW m \in Int, NEW r \in 0 .. PageBlock[b.order] - 1,
         b.page = m * PageBlock[b.order] + r
  PROVE  b.page \div PageBlock[b.order] = m /\ Cell(b).page = m * PageBlock[b.order]
<1>1. PageBlock[b.order] \in Nat /\ PageBlock[b.order] > 0
  BY PageBlockPositive DEF Block
<1> QED BY <1>1, DivUnique DEF Cell

\* split_page_block(): the cells of the two blocks made are the halves of the
\* cell of the block split.  The blocks are the halves of the block if the second
\* lies above the first, as it does if the block is aligned.
LEMMA SplitCells ==
  ASSUME NEW b \in Block, b.order > 0,
         NEW lower, lower = [order |-> b.order - 1, page |-> b.page],
         NEW upper, upper = Buddy(lower)
  PROVE  /\ lower \in Block /\ upper \in Block
         /\ lower.order = b.order - 1 /\ upper.order = b.order - 1
         /\ Halves(Cell(lower), Cell(upper), Cell(b))
         /\ ~ (upper.page < lower.page) => lower.page < upper.page /\ Halves(lower, upper, b)
         /\ Aligned(b) => /\ Aligned(lower) /\ Aligned(upper)
                          /\ ~ (upper.page < lower.page)
<1> DEFINE s == PageBlock[b.order - 1]
           k == b.page \div PageBlock[b.order]
           r == b.page - k * (2 * s)
<1>1. b.order \in Orders /\ b.page \in Int
  BY DEF Block
<1>2. b.order - 1 \in Orders /\ PageBlock[b.order] = 2 * s
  BY <1>1, HalfSizes
<1>3. s \in Nat /\ s > 0
  BY <1>2, PageBlockPositive
<1>4. k \in Int /\ k * (2 * s) <= b.page /\ b.page < k * (2 * s) + 2 * s
  <2>1. 2 * s \in Nat /\ 2 * s > 0
    BY <1>3, SMT
  <2> QED BY <2>1, <1>1, <1>2, DivBounds
<1>5. Cell(b).page = k * (2 * s) /\ Cell(b).order = b.order
  BY <1>2 DEF Cell
<1>6. upper.order = b.order - 1 /\ lower.order = b.order - 1 /\ lower.page = b.page
  BY DEF Buddy
<1>7. upper.page = IF (b.page \div s) % 2 = 0 THEN b.page + s ELSE b.page - s
  BY DEF Buddy
<1>8. lower \in Block /\ upper \in Block
  <2>1. upper = [order |-> b.order - 1, page |-> upper.page]
    BY DEF Buddy
  <2>2. upper.page \in Int
    BY <1>1, <1>3, <1>7, SMT
  <2> QED BY <2>1, <2>2, <1>1, <1>2 DEF Block
<1>9. Aligned(b) => r = 0
  BY <1>1, <1>4, <1>2, SMT DEF Aligned
<1> HIDE DEF k, s
<1>10. (2 * k) * s = k * (2 * s) /\ (2 * k + 1) * s = k * (2 * s) + s
  BY <1>3, <1>4, SMT
<1>11. k * (2 * s) \in Int /\ r \in Int
  BY <1>1, <1>3, <1>4, SMT
<1> DEFINE m == k * (2 * s)
<1> HIDE DEF m
<1>12. /\ m \in Int /\ m <= b.page /\ b.page < m + 2 * s /\ r = b.page - m
       /\ (2 * k) * s = m /\ (2 * k + 1) * s = m + s /\ Cell(b).page = m
  BY <1>4, <1>5, <1>10, <1>11 DEF m
<1> HIDE DEF r
<1>13. CASE r < s
  <2>1. r \in 0 .. s - 1 /\ b.page = (2 * k) * s + r
    BY <1>1, <1>3, <1>11, <1>12, <1>13, SMT
  <2>2. 2 * k \in Int /\ 2 * k + 1 \in Int /\ (2 * k) % 2 = 0
    BY <1>4, SMT
  <2>3. b.page \div s = 2 * k /\ Cell(lower).page = (2 * k) * s
    BY <2>1, <2>2, <1>6, <1>8, CellAt DEF s
  <2>4. upper.page = b.page + s
    BY <2>2, <2>3, <1>7
  <2>5. upper.page = (2 * k + 1) * s + r
    BY <2>1, <2>4, <1>1, <1>3, <1>11, <1>12, SMT
  <2>6. Cell(upper).page = (2 * k + 1) * s
    BY <2>1, <2>2, <2>5, <1>6, <1>8, CellAt DEF s
  <2>7. Halves(Cell(lower), Cell(upper), Cell(b))
    BY <2>3, <2>6, <1>2, <1>5, <1>6, <1>12 DEF Halves, Cell, s
  <2>8. Halves(lower, upper, b) /\ lower.page < upper.page /\ ~ (upper.page < lower.page)
    BY <2>4, <1>1, <1>2, <1>3, <1>6, SMT DEF Halves, s
  <2>9. ASSUME Aligned(b) PROVE Aligned(lower) /\ Aligned(upper)
    <3>1. b.page = (2 * k) * s /\ upper.page = (2 * k + 1) * s
      BY <2>1, <2>5, <2>9, <1>1, <1>3, <1>9, <1>11, <1>12, SMT
    <3> QED BY <3>1, <2>3, <2>6, <1>6, <1>8, CellProperties
  <2> QED BY <2>7, <2>8, <2>9, <1>6, <1>8
<1>14. CASE ~ (r < s)
  <2>1. r - s \in 0 .. s - 1 /\ b.page = (2 * k + 1) * s + (r - s)
    BY <1>1, <1>3, <1>11, <1>12, <1>14, SMT
  <2>2. 2 * k \in Int /\ 2 * k + 1 \in Int /\ (2 * k + 1) % 2 # 0
    BY <1>4, SMT
  <2>3. b.page \div s = 2 * k + 1 /\ Cell(lower).page = (2 * k + 1) * s
    BY <2>1, <2>2, <1>6, <1>8, CellAt DEF s
  <2>4. upper.page = b.page - s
    BY <2>2, <2>3, <1>7
  <2>5. upper.page = (2 * k) * s + (r - s)
    BY <2>1, <2>4, <1>1, <1>3, <1>11, <1>12, SMT
  <2>6. Cell(upper).page = (2 * k) * s
    BY <2>1, <2>2, <2>5, <1>6, <1>8, CellAt DEF s
  <2>7. Halves(Cell(lower), Cell(upper), Cell(b))
    BY <2>3, <2>6, <1>2, <1>5, <1>6, <1>12 DEF Halves, Cell, s
  <2>8. upper.page < lower.page
    BY <2>4, <1>1, <1>3, <1>6, SMT
  <2>9. ~ Aligned(b)
    BY <1>3, <1>9, <1>14, SMT
  <2> QED BY <2>7, <2>8, <2>9, <1>6, <1>8
<1> QED BY <1>13, <1>14

\* merge_buddy(): a block and its buddy are the halves of the block made of them,
\* and so are their cells.
LEMMA MergeCells ==
  ASSUME NEW b \in Block, b.order + 1 \in Orders,
         NEW c, c = Buddy(b),
         NEW whole,
         whole = [order |-> b.order + 1,
                  page |-> IF b.page > c.page THEN c.page ELSE b.page]
  PROVE  /\ whole \in Block /\ c \in Block /\ c.order = b.order
         /\ Halves(b, c, whole) /\ Halves(Cell(b), Cell(c), Cell(whole))
         /\ Aligned(b) => Aligned(whole)
<1> DEFINE s == PageBlock[b.order]
           k == b.page \div s
           m == k * s
           r == b.page - m
           h == k \div 2
<1>1. b.order \in Orders /\ b.page \in Int /\ s \in Nat /\ s > 0
  BY PageBlockPositive DEF Block
<1>2. PageBlock[b.order + 1] = 2 * s
  BY <1>1, PageBlockAssumption
<1>3. k \in Int /\ m <= b.page /\ b.page < m + s
  BY <1>1, DivBounds
<1>4. Cell(b).page = m /\ Cell(b).order = b.order
  BY DEF Cell
<1>5. /\ c.order = b.order /\ whole.order = b.order + 1
      /\ c.page = IF k % 2 = 0 THEN b.page + s ELSE b.page - s
      /\ c = [order |-> b.order, page |-> c.page]
  BY DEF Buddy
<1>6. c.page \in Int /\ c \in Block /\ whole \in Block
  <2>1. c.page \in Int
    BY <1>1, <1>5, SMT
  <2>2. whole.page \in Int
    BY <2>1, <1>1
  <2> QED BY <2>1, <2>2, <1>1, <1>5 DEF Block
<1>7. Aligned(b) => r = 0
  BY <1>1, <1>3, SMT DEF Aligned
<1>8. m \in Int /\ r \in Int /\ b.page = m + r /\ r \in 0 .. s - 1
  BY <1>1, <1>3, SMT
<1> HIDE DEF k, s, r
<1>9. m = k * s /\ h \in Int /\ (k % 2 = 0 => k = 2 * h) /\ (k % 2 # 0 => k = 2 * h + 1)
  BY <1>3, SMT
<1> HIDE DEF h, m
<1>10. h * (2 * s) = (2 * h) * s /\ (2 * h + 1) * s = (2 * h) * s + s
       /\ (k + 1) * s = k * s + s /\ (k - 1) * s = k * s - s
  BY <1>1, <1>3, <1>9, SMT
<1>11. r \in 0 .. 2 * s - 1 /\ r + s \in 0 .. 2 * s - 1 /\ 2 * s = PageBlock[whole.order]
  BY <1>1, <1>2, <1>5, <1>8, SMT
<1>12. CASE k % 2 = 0
  <2>1. c.page = b.page + s /\ whole.page = b.page
    BY <1>12, <1>1, <1>5, SMT
  <2>2. Halves(b, c, whole)
    BY <2>1, <1>2, <1>5 DEF Halves, s
  <2>3. m = h * (2 * s)
    BY <1>9, <1>10, <1>12
  <2>4. whole.page = h * (2 * s) + r
    BY <2>1, <2>3, <1>8
  <2>5. Cell(whole).page = h * (2 * s)
    BY <2>4, <1>6, <1>9, <1>11, CellAt
  <2>6. c.page = (k + 1) * s + r /\ k + 1 \in Int
    BY <2>1, <1>1, <1>3, <1>8, <1>9, <1>10, SMT
  <2>7. Cell(c).page = (k + 1) * s
    BY <2>6, <1>5, <1>6, <1>8, CellAt DEF s
  <2>8. Cell(c).page = m + s
    BY <2>7, <1>9, <1>10
  <2>9. Halves(Cell(b), Cell(c), Cell(whole))
    BY <2>3, <2>5, <2>8, <1>2, <1>4, <1>5 DEF Halves, Cell, s
  <2>10. ASSUME Aligned(b) PROVE Aligned(whole)
    <3>1. whole.page = h * (2 * s)
      BY <2>1, <2>3, <2>10, <1>1, <1>7, <1>8, SMT
    <3> QED BY <3>1, <2>5, <1>6, CellProperties
  <2> QED BY <2>2, <2>9, <2>10, <1>5, <1>6
<1>13. CASE k % 2 # 0
  <2>1. c.page = b.page - s /\ whole.page = c.page /\ b.page = c.page + s
    BY <1>13, <1>1, <1>5, SMT
  <2>2. Halves(b, c, whole)
    BY <2>1, <1>2, <1>5 DEF Halves, s
  <2>3. m = h * (2 * s) + s
    BY <1>9, <1>10, <1>13
  <2>4. whole.page = h * (2 * s) + r
    <3>1. h * (2 * s) \in Int
      BY <1>1, <1>9, SMT
    <3> DEFINE n == h * (2 * s)
    <3> HIDE DEF n
    <3>2. n \in Int /\ m = n + s
      BY <3>1, <2>3 DEF n
    <3>3. whole.page = n + r
      BY <3>2, <2>1, <1>1, <1>8, SMT
    <3> QED BY <3>3 DEF n
  <2>5. Cell(whole).page = h * (2 * s)
    BY <2>4, <1>6, <1>9, <1>11, CellAt
  <2>6. c.page = (k - 1) * s + r /\ k - 1 \in Int
    BY <2>1, <1>1, <1>3, <1>8, <1>9, <1>10, SMT
  <2>7. Cell(c).page = (k - 1) * s
    BY <2>6, <1>5, <1>6, <1>8, CellAt DEF s
  <2>8. Cell(c).page = h * (2 * s)
    <3>1. k - 1 = 2 * h
      BY <1>9, <1>13, SMT
    <3> QED BY <3>1, <2>7, <1>10
  <2>9. Halves(Cell(b), Cell(c), Cell(whole))
    BY <2>3, <2>5, <2>8, <1>2, <1>4, <1>5 DEF Halves, Cell, s
  <2>10. ASSUME Aligned(b) PROVE Aligned(whole)
    <3>1. r = 0 /\ h * (2 * s) \in Int
      BY <2>10, <1>1, <1>7, <1>9, SMT
    <3>2. whole.page = h * (2 * s)
      BY <3>1, <2>4, SMT
    <3> QED BY <3>2, <2>5, <1>6, CellProperties
  <2> QED BY <2>2, <2>9, <2>10, <1>5, <1>6
<1> QED BY <1>12, <1>13

-----------------------------------------------------------------------------
(* Chains *)

\* What RemoveAt of SequencesExt returns, element by element.
LEMMA RemoveAtProperties ==
  ASSUME NEW S, NEW s \in Seq(S), NEW i \in 1 .. Len(s)
  PROVE  /\ RemoveAt(s, i) \in Seq(S)
         /\ Len(RemoveAt(s, i)) = Len(s) - 1
         /\ \A j \in 1 .. Len(s) - 1 :
              RemoveAt(s, i)[j] = IF j < i THEN s[j] ELSE s[j + 1]
<1> DEFINE front == SubSeq(s, 1, i - 1)
           back == SubSeq(s, i + 1, Len(s))
<1>1. Len(s) \in Nat
  BY LenProperties
<1>2. /\ front \in Seq(S) /\ Len(front) = i - 1
      /\ \A j \in 1 .. i - 1 : front[j] = s[j]
  BY <1>1, SubSeqProperties, SMT
<1>3. /\ back \in Seq(S) /\ Len(back) = Len(s) - i
      /\ \A j \in 1 .. Len(s) - i : back[j] = s[i + j]
  BY <1>1, SubSeqProperties, SMT
<1>4. RemoveAt(s, i) = front \o back
  BY DEF RemoveAt
<1> HIDE DEF front, back
<1>5. /\ front \o back \in Seq(S)
      /\ Len(front \o back) = Len(front) + Len(back)
      /\ \A j \in 1 .. Len(front) + Len(back) :
           (front \o back)[j] = IF j <= Len(front) THEN front[j] ELSE back[j - Len(front)]
  BY <1>2, <1>3, ConcatProperties
<1>6. i \in Int /\ 1 <= i /\ i <= Len(s) /\ Len(front) + Len(back) = Len(s) - 1
  BY <1>1, <1>2, <1>3, SMT
<1>7. ASSUME NEW j \in 1 .. Len(s) - 1
      PROVE  (front \o back)[j] = IF j < i THEN s[j] ELSE s[j + 1]
  <2>1. j \in Int /\ j >= 1 /\ j <= Len(s) - 1
    BY <1>1, SMT
  <2>2. (front \o back)[j] = IF j <= i - 1 THEN front[j] ELSE back[j - (i - 1)]
    BY <1>2, <1>5, <1>6
  <2>3. CASE j < i
    <3>1. j <= i - 1 /\ j \in 1 .. i - 1
      BY <2>1, <2>3, <1>6, SMT
    <3> QED BY <3>1, <2>2, <2>3, <1>2
  <2>4. CASE ~ (j < i)
    <3>1. ~ (j <= i - 1) /\ j - (i - 1) \in 1 .. Len(s) - i /\ i + (j - (i - 1)) = j + 1
      BY <2>1, <2>4, <1>1, <1>6, SMT
    <3>2. back[j - (i - 1)] = s[i + (j - (i - 1))]
      BY <3>1, <1>3
    <3> QED BY <3>1, <3>2, <2>2, <2>4
  <2> QED BY <2>3, <2>4
<1> QED BY <1>4, <1>5, <1>6, <1>7

Distinct(s) == \A i, j \in DOMAIN s : i # j => s[i] # s[j]

Covers(n, s) == Len(s) <= n /\ (s = << >> <=> n = 0)

EndsAt(s, x) == \A i \in DOMAIN s : s[i] = x => i = Len(s)

\* Taking one element out keeps a chain distinct and a covering counter covering.
LEMMA RemoveAtChain ==
  ASSUME NEW s \in Seq(Block), NEW n \in Nat, Distinct(s), Covers(n, s), n # 1,
         NEW i \in 2 .. Len(s)
  PROVE  /\ RemoveAt(s, i) \in Seq(Block) /\ n - 1 \in Nat
         /\ Distinct(RemoveAt(s, i)) /\ Covers(n - 1, RemoveAt(s, i))
         /\ ToSet(RemoveAt(s, i)) = ToSet(s) \ {s[i]}
         /\ \A x : EndsAt(s, x) => EndsAt(RemoveAt(s, i), x)
<1> DEFINE t == RemoveAt(s, i)
<1>1. Len(s) \in Nat /\ DOMAIN s = 1 .. Len(s)
  BY LenProperties
<1>2. i \in Int /\ 2 <= i /\ i <= Len(s) /\ i \in 1 .. Len(s)
  BY <1>1, SMT
<1>3. /\ t \in Seq(Block) /\ Len(t) = Len(s) - 1
      /\ \A j \in 1 .. Len(s) - 1 : t[j] = IF j < i THEN s[j] ELSE s[j + 1]
  BY <1>2, RemoveAtProperties
<1> HIDE DEF t
<1>4. DOMAIN t = 1 .. Len(s) - 1
  BY <1>3, LenProperties
<1>5. Distinct(t)
  <2> SUFFICES ASSUME NEW j \in 1 .. Len(s) - 1, NEW k \in 1 .. Len(s) - 1, j # k
               PROVE  t[j] # t[k]
    BY <1>4 DEF Distinct
  <2> DEFINE f(m) == IF m < i THEN m ELSE m + 1
  <2>1. f(j) \in 1 .. Len(s) /\ f(k) \in 1 .. Len(s) /\ f(j) # f(k)
    BY <1>1, <1>2, SMT
  <2>2. t[j] = s[f(j)] /\ t[k] = s[f(k)]
    BY <1>3
  <2> QED BY <2>1, <2>2, <1>1 DEF Distinct
<1>6. Covers(n - 1, t) /\ n - 1 \in Nat
  <2>1. Len(s) <= n /\ Len(t) <= n - 1 /\ Len(t) >= 1 /\ n - 1 \in Nat /\ n - 1 # 0
    BY <1>1, <1>2, <1>3, SMT DEF Covers
  <2>2. t # << >>
    BY <2>1, EmptySeq
  <2> QED BY <2>1, <2>2 DEF Covers
<1>7. ToSet(t) = ToSet(s) \ {s[i]}
  <2>1. ASSUME NEW j \in 1 .. Len(s) - 1 PROVE t[j] \in ToSet(s) \ {s[i]}
    <3> DEFINE m == IF j < i THEN j ELSE j + 1
    <3>1. m \in 1 .. Len(s) /\ m # i
      BY <1>1, <1>2, SMT
    <3>2. t[j] = s[m]
      BY <1>3
    <3> QED BY <3>1, <3>2, <1>1, <1>2 DEF ToSet, Distinct
  <2>2. ASSUME NEW m \in 1 .. Len(s), s[m] # s[i] PROVE s[m] \in ToSet(t)
    <3> DEFINE j == IF m < i THEN m ELSE m - 1
    <3>1. j \in 1 .. Len(s) - 1 /\ m = IF j < i THEN j ELSE j + 1
      BY <1>1, <1>2, <2>2, SMT
    <3>2. t[j] = s[m]
      BY <3>1, <1>3
    <3> QED BY <3>1, <3>2, <1>4 DEF ToSet
  <2>3. ToSet(t) \subseteq ToSet(s) \ {s[i]}
    BY <2>1, <1>4 DEF ToSet
  <2>4. ToSet(s) \ {s[i]} \subseteq ToSet(t)
    BY <2>2, <1>1 DEF ToSet
  <2> QED BY <2>3, <2>4
<1>8. \A j \in 1 .. Len(s) - 1 : j \in 1 .. Len(s) /\ j < Len(s) /\ j + 1 \in 1 .. Len(s)
  BY <1>1, SMT
<1>9. ASSUME NEW x, EndsAt(s, x) PROVE EndsAt(t, x)
  <2> SUFFICES ASSUME NEW j \in 1 .. Len(s) - 1, t[j] = x
               PROVE  j = Len(s) - 1
    BY <1>3, <1>4 DEF EndsAt
  <2>1. CASE j < i
    <3>1. s[j] = x
      BY <2>1, <1>3
    <3>2. j = Len(s)
      BY <3>1, <1>8, <1>9, <1>1 DEF EndsAt
    <3> QED BY <3>2, <1>1, <1>8, SMT
  <2>2. CASE ~ (j < i)
    <3>1. s[j + 1] = x
      BY <2>2, <1>3
    <3>2. j + 1 = Len(s)
      BY <3>1, <1>8, <1>9, <1>1 DEF EndsAt
    <3> QED BY <3>2, <1>1, SMT
  <2> QED BY <2>1, <2>2
<1> QED BY <1>3, <1>5, <1>6, <1>7, <1>9 DEF t

\* A list with one element.
LEMMA Singleton ==
  ASSUME NEW s \in Seq(Block), Len(s) <= 1, NEW b \in ToSet(s)
  PROVE  ToSet(s) = {b} /\ Len(s) = 1 /\ s[1] = b
<1>1. Len(s) \in Nat /\ DOMAIN s = 1 .. Len(s)
  BY LenProperties
<1>2. PICK i \in 1 .. Len(s) : s[i] = b
  BY <1>1 DEF ToSet
<1>3. i = 1 /\ Len(s) = 1 /\ 1 .. Len(s) = {1}
  BY <1>1, <1>2, SMT
<1> QED BY <1>1, <1>2, <1>3 DEF ToSet

\* An emptied chain is in order, counted 0 and with no last entry in it.
LEMMA EmptyChain ==
  /\ << >> \in Seq(Block) /\ Len(<< >>) = 0 /\ ToSet(<< >>) = {}
  /\ Distinct(<< >>) /\ Covers(0, << >>) /\ \A x : EndsAt(<< >>, x)
<1>1. << >> \in Seq(Block) /\ Len(<< >>) = 0
  BY EmptySeq
<1>2. DOMAIN << >> = {}
  <2>1. DOMAIN << >> = 1 .. 0
    BY <1>1, LenProperties
  <2> QED BY <2>1, SMT
<1> QED BY <1>1, <1>2, SMT DEF ToSet, Distinct, Covers, EndsAt

\* remove_page_block() takes out the block and nothing else.
LEMMA Unchained ==
  ASSUME NEW s \in Seq(Block), NEW n \in Nat, Distinct(s), Covers(n, s),
         NEW b \in ToSet(s), NEW t \in PageBlockRemoved(s, n, b)
  PROVE  /\ t \in Seq(Block) /\ n - 1 \in Nat
         /\ Distinct(t) /\ Covers(n - 1, t)
         /\ ToSet(t) = ToSet(s) \ {b}
         /\ \A x : EndsAt(s, x) => EndsAt(t, x)
<1>1. CASE n = 1
  <2>1. t = << >> /\ n - 1 = 0
    BY <1>1 DEF PageBlockRemoved
  <2>2. Len(s) <= 1
    BY <1>1 DEF Covers
  <2>3. ToSet(s) = {b}
    BY <2>2, Singleton
  <2> QED BY <2>1, <2>3, EmptyChain, SMT
<1>2. CASE n # 1
  <2>1. PICK i \in 2 .. Len(s) : s[i] = b /\ t = RemoveAt(s, i)
    BY <1>2 DEF PageBlockRemoved
  <2> QED BY <2>1, <1>2, RemoveAtChain
<1> QED BY <1>1, <1>2

\* Cutting a chain before its i-th element, and what is left of it.
LEMMA CutChain ==
  ASSUME NEW s \in Seq(Block), NEW n \in Nat, Distinct(s), Covers(n, s),
         NEW i \in 2 .. Len(s)
  PROVE  LET t == SubSeq(s, 1, i - 1)
         IN  /\ t \in Seq(Block) /\ n - 1 \in Nat
             /\ Distinct(t) /\ Covers(n - 1, t)
             /\ ToSet(t) \subseteq ToSet(s)
             /\ \A j \in i .. Len(s) : s[j] \notin ToSet(t)
             /\ \A x : EndsAt(s, x) => x \notin ToSet(t)
<1> DEFINE t == SubSeq(s, 1, i - 1)
<1>1. Len(s) \in Nat /\ DOMAIN s = 1 .. Len(s)
  BY LenProperties
<1>2. i \in Int /\ 2 <= i /\ i <= Len(s) /\ 1 .. i - 1 \subseteq 1 .. Len(s)
  BY <1>1, SMT
<1>3. /\ t \in Seq(Block) /\ Len(t) = i - 1
      /\ \A j \in 1 .. i - 1 : t[j] = s[j]
  <2>1. \A j \in 1 .. i - 1 : s[j] \in Block
    BY <1>2, ElementOfSeq
  <2> QED BY <1>2, <2>1, SubSeqProperties, SMT
<1> HIDE DEF t
<1>4. DOMAIN t = 1 .. i - 1
  BY <1>3, LenProperties
<1>5. Distinct(t)
  BY <1>1, <1>2, <1>3, <1>4 DEF Distinct
<1>6. n - 1 \in Nat /\ Covers(n - 1, t)
  <2>1. n - 1 \in Nat /\ Len(t) <= n - 1 /\ Len(t) # 0 /\ n - 1 # 0
    BY <1>1, <1>2, <1>3, SMT DEF Covers
  <2>2. t # << >>
    BY <2>1, EmptySeq
  <2> QED BY <2>1, <2>2 DEF Covers
<1>7. ToSet(t) \subseteq ToSet(s)
  BY <1>1, <1>2, <1>3, <1>4 DEF ToSet
<1>8. ASSUME NEW j \in i .. Len(s) PROVE s[j] \notin ToSet(t)
  <2> SUFFICES ASSUME NEW k \in 1 .. i - 1, s[k] = s[j] PROVE FALSE
    BY <1>3, <1>4 DEF ToSet
  <2>1. j \in 1 .. Len(s) /\ k \in 1 .. Len(s) /\ j # k
    BY <1>1, <1>2, SMT
  <2> QED BY <2>1, <1>1 DEF Distinct
<1>9. \A k \in 1 .. i - 1 : k \in 1 .. Len(s) /\ k < Len(s)
  BY <1>1, <1>2, SMT
<1>10. ASSUME NEW x, EndsAt(s, x) PROVE x \notin ToSet(t)
  <2> SUFFICES ASSUME NEW k \in 1 .. i - 1, s[k] = x PROVE FALSE
    BY <1>3, <1>4 DEF ToSet
  <2>1. k = Len(s)
    BY <1>1, <1>9, <1>10 DEF EndsAt
  <2> QED BY <2>1, <1>1, <1>9, SMT
<1> QED BY <1>3, <1>5, <1>6, <1>7, <1>8, <1>10 DEF t

\* add_block_to_order(): appending a new block.
LEMMA AppendChain ==
  ASSUME NEW s \in Seq(Block), NEW n \in Nat, Distinct(s), Covers(n, s),
         NEW b \in Block, b \notin ToSet(s)
  PROVE  /\ Append(s, b) \in Seq(Block) /\ n + 1 \in Nat
         /\ Distinct(Append(s, b)) /\ Covers(n + 1, Append(s, b))
         /\ ToSet(Append(s, b)) = ToSet(s) \union {b}
         /\ EndsAt(Append(s, b), b)
<1> DEFINE t == Append(s, b)
<1>1. Len(s) \in Nat /\ DOMAIN s = 1 .. Len(s)
  BY LenProperties
<1>2. /\ t \in Seq(Block) /\ t # << >> /\ Len(t) = Len(s) + 1
      /\ \A i \in 1 .. Len(s) : t[i] = s[i]
      /\ t[Len(s) + 1] = b
  BY AppendProperties
<1> HIDE DEF t
<1>3. DOMAIN t = 1 .. Len(s) + 1
  BY <1>2, LenProperties
<1>4. \A i \in 1 .. Len(s) : s[i] # b
  BY <1>1 DEF ToSet
<1>5. \A i \in 1 .. Len(s) + 1 : i \in 1 .. Len(s) \/ i = Len(s) + 1
  BY <1>1, SMT
<1>6. Distinct(t)
  BY <1>1, <1>2, <1>3, <1>4, <1>5 DEF Distinct
<1>7. EndsAt(t, b)
  BY <1>2, <1>3, <1>4, <1>5 DEF EndsAt
<1>8. n + 1 \in Nat /\ Covers(n + 1, t)
  <2>1. n + 1 \in Nat /\ Len(s) + 1 <= n + 1 /\ n + 1 # 0
    BY <1>1, SMT DEF Covers
  <2> QED BY <2>1, <1>2 DEF Covers
<1>9. ToSet(t) = ToSet(s) \union {b}
  <2>1. 1 .. Len(s) + 1 = (1 .. Len(s)) \union {Len(s) + 1}
    BY <1>1, SMT
  <2> QED BY <2>1, <1>1, <1>2, <1>3 DEF ToSet
<1> QED BY <1>2, <1>6, <1>7, <1>8, <1>9 DEF t

-----------------------------------------------------------------------------
(* The inductive invariant *)

ChainOK(s, n, o) ==
  /\ s \in Seq(Block) /\ n \in Nat
  /\ Distinct(s) /\ Covers(n, s)
  /\ \A b \in ToSet(s) : b.order = o

ListsOK ==
  /\ list \in [Orders -> Seq(Block)] /\ count \in [Orders -> Nat]
  /\ \A o \in Orders : ChainOK(list[o], count[o], o) /\ EndsAt(list[o], last)

TypesOK ==
  /\ used \subseteq Block
  /\ last \in Block
  /\ held \subseteq Block
  /\ op \in Calls
  /\ base \in Bases
  /\ crossed \in BOOLEAN

\* The cells of the live blocks are apart, wherever the heap starts.
CellsApart == \A b, c \in Live : b # c => Disjoint(Cell(b), Cell(c))

\* The live blocks themselves are, as long as every split has gone upwards.
Apart == ~ crossed => \A b, c \in Live : b # c => Disjoint(b, c)

\* Where the live blocks lie.
Placed ==
  \A b \in Live : /\ Inside(Cell(b), Cell(BootBlock))
                  /\ ~ crossed => Inside(b, BootBlock)
                  /\ AlignedHeap => Aligned(b)

Upwards == AlignedHeap => ~ crossed

Space == CellsApart /\ Apart /\ Placed /\ Upwards

IInv ==
  /\ ListsOK
  /\ TypesOK
  /\ HeldIsUsed
  /\ OpOK
  /\ Space

\* Everything live is a block.
LEMMA LiveIsBlock ==
  ASSUME ListsOK, TypesOK
  PROVE  Listed \subseteq Block /\ Live \subseteq Block
<1>1. ASSUME NEW b \in Listed PROVE b \in Block
  <2>1. PICK o \in Orders : b \in ToSet(list[o])
    BY DEF Listed
  <2>2. list[o] \in Seq(Block)
    BY DEF ListsOK
  <2>3. PICK i \in DOMAIN list[o] : b = list[o][i]
    BY <2>1 DEF ToSet
  <2>4. DOMAIN list[o] = 1 .. Len(list[o])
    BY <2>2, LenProperties
  <2> QED BY <2>2, <2>3, <2>4, ElementOfSeq
<1> QED BY <1>1 DEF Live, TypesOK

\* Two blocks that share their first page have cells that are not disjoint.
LEMMA SamePage ==
  ASSUME NEW b \in Block, NEW c \in Block, Disjoint(Cell(b), Cell(c))
  PROVE  b.page # c.page
<1>1. /\ b.page \in Int /\ Cell(b).page \in Int /\ PageBlock[b.order] \in Nat
      /\ Cell(b).page <= b.page /\ b.page < Cell(b).page + PageBlock[b.order]
      /\ c.page \in Int /\ Cell(c).page \in Int /\ PageBlock[c.order] \in Nat
      /\ Cell(c).page <= c.page /\ c.page < Cell(c).page + PageBlock[c.order]
  BY CellProperties, PageBlockPositive DEF Block
<1>2. \/ Cell(b).page + PageBlock[b.order] <= Cell(c).page
      \/ Cell(c).page + PageBlock[c.order] <= Cell(b).page
  BY DEF Disjoint, Cell
<1> QED BY <1>1, <1>2, SMT

\* Live blocks that start at the same page are one block: what a lookup by address
\* relies on.
LEMMA LiveByPage ==
  ASSUME ListsOK, TypesOK, CellsApart, NEW b \in Live, NEW c \in Live, b.page = c.page
  PROVE  b = c
BY LiveIsBlock, SamePage DEF CellsApart

\* Steps that only end, begin or move on the call in progress.
LEMMA OpOnly ==
  ASSUME IInv, UNCHANGED <<list, count, used, last, held, base, crossed>>,
         op' \in Calls, OpOK'
  PROVE  IInv'
<1>1. ListsOK'
  BY DEF IInv, ListsOK
<1>2. Listed' = Listed /\ Live' = Live
  BY DEF Listed, Live, Free
<1>3. TypesOK' /\ HeldIsUsed'
  BY DEF IInv, TypesOK, HeldIsUsed
<1>4. Space'
  BY <1>2 DEF IInv, Space, CellsApart, Apart, Placed, Upwards, BootBlock
<1> QED BY <1>1, <1>3, <1>4 DEF IInv

\* What a step that makes no new block leaves true.
LEMMA ShrinkLive ==
  ASSUME Space, Live' \subseteq Live, UNCHANGED <<base, crossed>>
  PROVE  Space'
BY DEF Space, CellsApart, Apart, Placed, Upwards, BootBlock

\* A call that returns, or follows NULL, keeps what is said of calls.
LEMMA IdleCall ==
  ASSUME op' \in {Idle, Wild}
  PROVE  op' \in Calls /\ OpOK'
BY DEF Idle, Wild, Calls, OpOK

\* init_free_list(): the heap is one block.
LEMMA InitIInv ==
  ASSUME Init
  PROVE  IInv
<1>1. BootOrder \in Orders /\ BootBlock \in Block
  <2>1. base \in Int
    BY HeapAssumption DEF Init
  <2> QED BY <2>1, OrderAssumption, SMT DEF Orders, BootBlock, BootAt, Block
<1> DEFINE one == <<BootBlock>>
<1>2. /\ one \in Seq(Block) /\ one # << >> /\ Len(one) = 1
      /\ one[1] = BootBlock /\ DOMAIN one = {1}
  <2>1. one = Append(<< >>, BootBlock)
    BY SMT
  <2>2. << >> \in Seq(Block) /\ Len(<< >>) = 0
    BY EmptySeq
  <2>3. one \in Seq(Block) /\ one # << >> /\ Len(one) = 1 /\ one[1] = BootBlock
    BY <1>1, <2>1, <2>2, AppendProperties, SMT
  <2>4. DOMAIN one = 1 .. 1
    BY <2>3, LenProperties
  <2> QED BY <2>3, <2>4, SMT
<1>3. ChainOK(one, 1, BootOrder) /\ EndsAt(one, BootBlock) /\ ToSet(one) = {BootBlock}
  <2>1. ToSet(one) = {BootBlock}
    BY <1>2 DEF ToSet
  <2>2. Distinct(one) /\ EndsAt(one, BootBlock) /\ Covers(1, one)
    BY <1>2, SMT DEF Distinct, EndsAt, Covers
  <2> QED BY <1>2, <2>1, <2>2, SMT DEF ChainOK, BootBlock, BootAt
<1>4. ASSUME NEW o \in Orders PROVE ChainOK(<< >>, 0, o) /\ EndsAt(<< >>, BootBlock)
  BY EmptyChain DEF ChainOK
<1> HIDE DEF one
<1>5. ListsOK
  <2>1. list \in [Orders -> Seq(Block)] /\ count \in [Orders -> Nat]
    BY <1>2, EmptyChain, SMT DEF Init, one
  <2>2. ASSUME NEW o \in Orders
        PROVE  ChainOK(list[o], count[o], o) /\ EndsAt(list[o], last)
    <3>1. CASE o = BootOrder
      <4>1. list[o] = one /\ count[o] = 1 /\ last = BootBlock
        BY <3>1 DEF Init, one
      <4> QED BY <4>1, <3>1, <1>3
    <3>2. CASE o # BootOrder
      <4>1. list[o] = << >> /\ count[o] = 0 /\ last = BootBlock
        BY <3>2 DEF Init
      <4> QED BY <4>1, <1>4
    <3> QED BY <3>1, <3>2
  <2> QED BY <2>1, <2>2 DEF ListsOK
<1>6. Live = {BootBlock}
  <2>1. \A o \in Orders : ToSet(list[o]) = IF o = BootOrder THEN {BootBlock} ELSE {}
    BY <1>3, EmptyChain DEF Init, one
  <2>2. Listed = {BootBlock}
    BY <1>1, <2>1 DEF Listed
  <2> QED BY <2>2 DEF Live, Init, Free
<1>7. TypesOK /\ HeldIsUsed
  BY <1>1 DEF Init, TypesOK, HeldIsUsed, Calls, Idle
<1>8. OpOK
  BY DEF Init, OpOK, Idle
<1>9. Space
  <2>1. Inside(BootBlock, BootBlock) /\ Inside(Cell(BootBlock), Cell(BootBlock))
    <3>1. \A x \in Block : x.page \in Int /\ PageBlock[x.order] \in Nat
      BY PageBlockPositive DEF Block
    <3>2. \A x \in Block : Inside(x, x)
      BY <3>1, SMT DEF Inside
    <3> QED BY <1>1, <3>2, CellProperties
  <2>2. AlignedHeap => Aligned(BootBlock)
    BY DEF AlignedHeap, BootBlock, Init
  <2>3. ~ crossed
    BY DEF Init
  <2> QED BY <1>6, <2>1, <2>2, <2>3 DEF Space, CellsApart, Apart, Placed, Upwards
<1> QED BY <1>5, <1>7, <1>8, <1>9 DEF IInv

\* page_alloc() choosing an order keeps the invariant.
LEMMA AllocStartStep ==
  ASSUME IInv, NEW n \in Requests, AllocStart(n)
  PROVE  IInv'
<1>1. PICK target \in Orders, curr \in Orders :
        IsClosestOrder(target, curr) /\ op' = Reducing(curr, target)
  BY DEF AllocStart
<1>2. op' \in Calls /\ OpOK'
  BY <1>1 DEF Calls, OpOK, Reducing, IsClosestOrder
<1> QED BY <1>2, OpOnly DEF AllocStart

\* A call that ends, or runs off a list, with nothing changed.
LEMMA EndStep ==
  ASSUME IInv, UNCHANGED <<list, count, used, last, held, base, crossed>>,
         op' \in {Idle, Wild}
  PROVE  IInv'
BY IdleCall, OpOnly

\* get_next_free_block() returns a free block the allocator still knows.
LEMMA NextIsLive ==
  ASSUME NEW o \in Orders, NEW b \in NextFreeBlock(o)
  PROVE  b \in Live /\ Free(b)
<1>1. CASE LastEntryFits(o)
  BY <1>1 DEF NextFreeBlock, LastEntryFits, Live
<1>2. CASE ~ LastEntryFits(o)
  <2>1. PICK i \in DOMAIN list[o] : b = list[o][i] /\ Free(list[o][i])
    BY <1>2 DEF NextFreeBlock
  <2> QED BY <2>1 DEF Live, Listed, ToSet
<1> QED BY <1>1, <1>2

\* Handing a block out keeps the invariant.
LEMMA TakeBlockStep ==
  ASSUME IInv, NEW o \in Orders, TakeBlock(o)
  PROVE  IInv'
<1>1. op \in Calls /\ op.pc = "reduce"
  BY DEF IInv, TypesOK, TakeBlock, Picking
<1>2. op.target \in Orders
  BY <1>1 DEF Calls
<1>3. PICK b \in NextFreeBlock(op.target) :
        used' = used \union {b} /\ held' = held \union {b}
  BY DEF TakeBlock
<1>4. b \in Live /\ Free(b) /\ b \in Block
  BY <1>2, NextIsLive, LiveIsBlock DEF IInv
<1>5. ListsOK' /\ Listed' = Listed
  BY DEF IInv, ListsOK, Listed, TakeBlock
<1>6. TypesOK'
  BY <1>3, <1>4, IdleCall DEF IInv, TypesOK, TakeBlock
<1>7. HeldIsUsed'
  BY <1>3 DEF IInv, HeldIsUsed
<1>8. Live' \subseteq Live
  BY <1>3, <1>4, <1>5 DEF Live, Free, TakeBlock
<1>9. OpOK'
  BY IdleCall DEF TakeBlock
<1> QED BY <1>5, <1>6, <1>7, <1>8, <1>9, ShrinkLive DEF IInv, TakeBlock

\* page_free() finds the very block the caller holds, or none: no other block
\* starts at that page, whatever its order.
LEMMA PageFreeStep ==
  ASSUME IInv, NEW b \in held, PageFree(b)
  PROVE  IInv'
<1>1. ListsOK' /\ Listed' = Listed /\ last' = last /\ held' = held \ {b}
  BY DEF IInv, ListsOK, Listed, PageFree
<1>2. b \in Live /\ b \in Block
  BY DEF Live, IInv, TypesOK
<1>3. CASE UNCHANGED <<used, op>>
  <2>1. TypesOK' /\ HeldIsUsed'
    BY <1>1, <1>3 DEF IInv, TypesOK, HeldIsUsed, PageFree
  <2>2. Live' \subseteq Live
    BY <1>1, <1>3 DEF Live, Free
  <2>3. OpOK'
    BY <1>3 DEF OpOK, PageFree, Idle
  <2> QED BY <1>1, <2>1, <2>2, <2>3, ShrinkLive DEF IInv, PageFree
<1>4. CASE \E c \in Listed : /\ IsBlockOfPfn(c, b.page)
                             /\ used' = used \ {c}
                             /\ op' = Merging(c)
  <2>1. PICK c \in Listed : c.page = b.page /\ used' = used \ {c} /\ op' = Merging(c)
    BY <1>4 DEF IsBlockOfPfn
  <2>2. c \in Live
    BY DEF Live
  <2>3. c = b
    BY <1>2, <2>1, <2>2, LiveByPage DEF IInv, Space
  <2>4. TypesOK' /\ HeldIsUsed'
    BY <1>1, <1>2, <2>1, <2>3 DEF IInv, TypesOK, HeldIsUsed, Calls, Merging, PageFree
  <2>5. Live' \subseteq Live
    BY <1>1, <2>1, <2>2 DEF Live, Free
  <2>6. OpOK'
    BY <1>1, <2>1 DEF OpOK, Merging, Free
  <2> QED BY <1>1, <2>4, <2>5, <2>6, ShrinkLive DEF IInv, PageFree
<1> QED BY <1>3, <1>4 DEF PageFree

\* A block in a list is the one in the list of its order.
LEMMA ListedInOrder ==
  ASSUME ListsOK, NEW b \in Listed
  PROVE  b.order \in Orders /\ b \in ToSet(list[b.order])
<1>1. PICK o \in Orders : b \in ToSet(list[o])
  BY DEF Listed
<1>2. b.order = o
  BY <1>1 DEF ListsOK, ChainOK
<1> QED BY <1>1, <1>2

\* A half-done merge keeps the invariant.
LEMMA MergeDropsBlockStep ==
  ASSUME IInv, MergeDropsBlock
  PROVE  IInv' /\ FreePages' \subseteq FreePages
<1> DEFINE b == op.block
           o == b.order
<1>1. o \in Orders /\ b \in ToSet(list[o])
  BY ListedInOrder DEF MergeDropsBlock, IInv, OpOK
<1>2. PICK t \in PageBlockRemoved(list[o], count[o], b) :
        /\ list' = [list EXCEPT ![o] = t]
        /\ count' = [count EXCEPT ![o] = @ - 1]
  BY DEF MergeDropsBlock
<1> HIDE DEF b, o
<1>3. ChainOK(list[o], count[o], o) /\ EndsAt(list[o], last)
  BY <1>1 DEF IInv, ListsOK
<1>4. /\ ChainOK(t, count[o] - 1, o) /\ EndsAt(t, last)
      /\ ToSet(t) = ToSet(list[o]) \ {b}
  BY <1>1, <1>2, <1>3, Unchained DEF ChainOK
<1>5. ListsOK'
  <2>1. last' = last
    BY DEF MergeDropsBlock
  <2>2. list' \in [Orders -> Seq(Block)] /\ count' \in [Orders -> Nat]
    BY <1>1, <1>2, <1>4 DEF IInv, ListsOK, ChainOK
  <2>3. ASSUME NEW q \in Orders
        PROVE  ChainOK(list'[q], count'[q], q) /\ EndsAt(list'[q], last')
    BY <1>1, <1>2, <1>4, <2>1 DEF IInv, ListsOK
  <2> QED BY <2>2, <2>3 DEF ListsOK
<1>6. Live' \subseteq Live
  <2>1. Listed' \subseteq Listed
    BY <1>1, <1>2, <1>4 DEF Listed, IInv, ListsOK
  <2> QED BY <2>1 DEF Live, Free, MergeDropsBlock
<1>7. TypesOK' /\ HeldIsUsed' /\ OpOK'
  BY IdleCall DEF IInv, TypesOK, HeldIsUsed, MergeDropsBlock
<1>8. FreePages' \subseteq FreePages
  BY <1>6 DEF FreePages, Free, Pages, MergeDropsBlock
<1> QED BY <1>5, <1>6, <1>7, <1>8, ShrinkLive DEF IInv, MergeDropsBlock

-----------------------------------------------------------------------------
(* Splitting and merging space *)

\* The halves of a block take up its space, no less and no more.
LEMMA HalvesProperties ==
  ASSUME NEW l \in Block, NEW h \in Block, NEW w \in Block, Halves(l, h, w)
  PROVE  /\ \A d \in Block : Disjoint(w, d) <=> Disjoint(l, d) /\ Disjoint(h, d)
         /\ Disjoint(l, h) /\ l # h /\ ~ Disjoint(w, l) /\ ~ Disjoint(w, h)
         /\ \A d \in Block : Inside(w, d) <=> Inside(l, d) /\ Inside(h, d)
         /\ Pages(w) = Pages(l) \union Pages(h)
<1> DEFINE s == PageBlock[l.order]
<1>1. /\ w.page \in Int /\ l.page \in Int /\ h.page \in Int
      /\ s \in Nat /\ s > 0
      /\ PageBlock[w.order] = 2 * s /\ PageBlock[h.order] = s
      /\ \/ l.page = w.page /\ h.page = w.page + s
         \/ h.page = w.page /\ l.page = w.page + s
  BY PageBlockPositive DEF Block, Halves
<1>2. \A d \in Block : d.page \in Int /\ PageBlock[d.order] \in Nat /\ PageBlock[d.order] > 0
  BY PageBlockPositive DEF Block
<1> HIDE DEF s
<1>3. ASSUME NEW d \in Block
      PROVE  Disjoint(w, d) <=> Disjoint(l, d) /\ Disjoint(h, d)
  <2> DEFINE p == d.page
             q == PageBlock[d.order]
  <2>1. p \in Int /\ q \in Nat /\ q > 0
    BY <1>2
  <2> HIDE DEF p, q
  <2>2. (w.page + 2 * s <= p \/ p + q <= w.page)
          <=> /\ l.page + s <= p \/ p + q <= l.page
              /\ h.page + s <= p \/ p + q <= h.page
    BY <2>1, <1>1, SMT
  <2> QED BY <2>2, <1>1 DEF Disjoint, p, q, s
<1>4. Disjoint(l, h) /\ l # h /\ ~ Disjoint(w, l) /\ ~ Disjoint(w, h)
  <2>1. /\ l.page + s <= h.page \/ h.page + s <= l.page
        /\ l.page # h.page
        /\ ~ (w.page + 2 * s <= l.page) /\ ~ (l.page + s <= w.page)
        /\ ~ (w.page + 2 * s <= h.page) /\ ~ (h.page + s <= w.page)
    BY <1>1, SMT
  <2> QED BY <2>1, <1>1 DEF Disjoint, s
<1>5. ASSUME NEW d \in Block
      PROVE  Inside(w, d) <=> Inside(l, d) /\ Inside(h, d)
  <2> DEFINE p == d.page
             e == d.page + PageBlock[d.order]
  <2>1. p \in Int /\ e \in Int
    BY <1>2, SMT
  <2> HIDE DEF p, e
  <2>2. p <= w.page /\ w.page + 2 * s <= e
          <=> p <= l.page /\ l.page + s <= e /\ p <= h.page /\ h.page + s <= e
    BY <2>1, <1>1, SMT
  <2> QED BY <2>2, <1>1 DEF Inside, p, e, s
<1>6. Pages(w) = Pages(l) \union Pages(h)
  <2>1. w.page .. w.page + 2 * s - 1
          = (l.page .. l.page + s - 1) \union (h.page .. h.page + s - 1)
    BY <1>1, SMT
  <2> QED BY <2>1, <1>1 DEF Pages, s
<1> QED BY <1>3, <1>4, <1>5, <1>6

\* Replacing the block that b stands for by its halves keeps blocks apart.
LEMMA SplitApart ==
  ASSUME NEW L, NEW g, NEW b \in L, NEW l, NEW h,
         \A x \in L \union {l, h} : g[x] \in Block,
         \A x, y \in L : x # y => Disjoint(g[x], g[y]),
         Halves(g[l], g[h], g[b])
  PROVE  \A x, y \in (L \ {b}) \union {l, h} : x # y => Disjoint(g[x], g[y])
<1>1. g[l] \in Block /\ g[h] \in Block /\ g[b] \in Block
  OBVIOUS
<1>2. \A x, y : Disjoint(x, y) => Disjoint(y, x)
  BY DEF Disjoint
<1>3. /\ \A d \in Block : Disjoint(g[b], d) => Disjoint(g[l], d) /\ Disjoint(g[h], d)
      /\ Disjoint(g[l], g[h])
  BY <1>1, HalvesProperties
<1>4. \A x \in L \ {b} : Disjoint(g[l], g[x]) /\ Disjoint(g[h], g[x])
  BY <1>3
<1> SUFFICES ASSUME NEW x \in (L \ {b}) \union {l, h},
                    NEW y \in (L \ {b}) \union {l, h}, x # y
             PROVE  Disjoint(g[x], g[y])
  OBVIOUS
<1>5. CASE x \in L \ {b} /\ y \in L \ {b}
  BY <1>5
<1>6. CASE x \in {l, h} /\ y \in L \ {b}
  BY <1>6, <1>4
<1>7. CASE x \in L \ {b} /\ y \in {l, h}
  BY <1>7, <1>2, <1>4
<1>8. CASE x \in {l, h} /\ y \in {l, h}
  BY <1>8, <1>2, <1>3
<1> QED BY <1>5, <1>6, <1>7, <1>8

\* A new block whose cell is a half of a live block's cell is not live itself.
LEMMA NewHalf ==
  ASSUME CellsApart, NEW b \in Live, NEW l, l.order # b.order,
         ~ Disjoint(Cell(b), Cell(l))
  PROVE  l \notin Live
BY DEF CellsApart

\* split_page_block() leaves the space of the heap in order.
LEMMA SplitSpace ==
  ASSUME Space, TypesOK, Live \subseteq Block,
         NEW b \in Live, NEW l \in Block, NEW h \in Block,
         Halves(Cell(l), Cell(h), Cell(b)),
         ~ crossed' => ~ crossed /\ Halves(l, h, b),
         AlignedHeap => Aligned(l) /\ Aligned(h) /\ ~ crossed',
         base' = base, Live' \subseteq (Live \ {b}) \union {l, h}
  PROVE  Space'
<1> DEFINE cell == [x \in Block |-> Cell(x)]
           same == [x \in Block |-> x]
<1>1. b \in Block /\ BootBlock \in Block
  <2>1. base \in Int /\ BootOrder \in Orders
    BY HeapAssumption, OrderAssumption, SMT DEF TypesOK, Orders
  <2> QED BY <2>1 DEF BootBlock, BootAt, Block
<1>2. \A x \in Block : cell[x] = Cell(x) /\ Cell(x) \in Block /\ same[x] = x
  BY CellProperties
<1> HIDE DEF cell, same
<1>3. CellsApart'
  <2>1. \A x \in Live \union {l, h} : cell[x] \in Block
    BY <1>2
  <2>2. \A x, y \in Live : x # y => Disjoint(cell[x], cell[y])
    BY <1>2 DEF Space, CellsApart
  <2>3. Halves(cell[l], cell[h], cell[b])
    BY <1>1, <1>2
  <2>4. \A x, y \in (Live \ {b}) \union {l, h} : x # y => Disjoint(cell[x], cell[y])
    BY <2>1, <2>2, <2>3, SplitApart
  <2> QED BY <1>2, <2>4 DEF CellsApart
<1>4. Apart'
  <2> SUFFICES ASSUME ~ crossed'
               PROVE  \A x, y \in (Live \ {b}) \union {l, h} : x # y => Disjoint(x, y)
    BY DEF Apart
  <2>1. \A x \in Live \union {l, h} : same[x] \in Block
    BY <1>2
  <2>2. \A x, y \in Live : x # y => Disjoint(same[x], same[y])
    BY <1>2 DEF Space, Apart
  <2>3. Halves(same[l], same[h], same[b])
    BY <1>1, <1>2
  <2>4. \A x, y \in (Live \ {b}) \union {l, h} : x # y => Disjoint(same[x], same[y])
    BY <2>1, <2>2, <2>3, SplitApart
  <2> QED BY <1>2, <2>4
<1>5. Placed'
  <2>1. Cell(BootBlock) \in Block /\ BootBlock' = BootBlock
    BY <1>1, <1>2 DEF BootBlock
  <2>2. Inside(Cell(l), Cell(BootBlock)) /\ Inside(Cell(h), Cell(BootBlock))
    BY <1>1, <1>2, <2>1, HalvesProperties DEF Space, Placed
  <2>3. ~ crossed' => Inside(l, BootBlock) /\ Inside(h, BootBlock)
    BY <1>1, HalvesProperties DEF Space, Placed
  <2>4. ASSUME NEW x \in Live'
        PROVE  /\ Inside(Cell(x), Cell(BootBlock))
               /\ ~ crossed' => Inside(x, BootBlock)
               /\ AlignedHeap => Aligned(x)
    BY <2>2, <2>3 DEF Space, Placed
  <2> QED BY <2>1, <2>4 DEF Placed
<1>6. Upwards'
  BY DEF Upwards
<1> QED BY <1>3, <1>4, <1>5, <1>6 DEF Space

\* merge_buddy() leaves the space of the heap in order.
LEMMA MergeSpace ==
  ASSUME Space, TypesOK, Live \subseteq Block,
         NEW b \in Live, NEW c \in Live, NEW w \in Block,
         Halves(Cell(b), Cell(c), Cell(w)), Halves(b, c, w),
         Aligned(b) => Aligned(w),
         base' = base, crossed' = crossed, Live' \subseteq (Live \ {b, c}) \union {w}
  PROVE  Space'
<1>1. b \in Block /\ c \in Block /\ BootBlock \in Block
  <2>1. base \in Int /\ BootOrder \in Orders
    BY HeapAssumption, OrderAssumption, SMT DEF TypesOK, Orders
  <2> QED BY <2>1 DEF BootBlock, BootAt, Block
<1>2. \A x \in Block : Cell(x) \in Block
  BY CellProperties
<1>a. \A x, y : Disjoint(x, y) => Disjoint(y, x)
  BY DEF Disjoint
<1>3. CellsApart'
  <2>1. \A d \in Block : Disjoint(Cell(b), d) /\ Disjoint(Cell(c), d) => Disjoint(Cell(w), d)
    BY <1>1, <1>2, HalvesProperties
  <2>2. \A x \in Live \ {b, c} : Disjoint(Cell(w), Cell(x))
    BY <1>2, <2>1 DEF Space, CellsApart
  <2> QED BY <1>a, <2>2 DEF Space, CellsApart
<1>4. Apart'
  <2> SUFFICES ASSUME ~ crossed
               PROVE  \A x, y \in (Live \ {b, c}) \union {w} : x # y => Disjoint(x, y)
    BY DEF Apart
  <2>1. \A d \in Block : Disjoint(b, d) /\ Disjoint(c, d) => Disjoint(w, d)
    BY <1>1, HalvesProperties
  <2>2. \A x \in Live \ {b, c} : Disjoint(w, x)
    BY <2>1 DEF Space, Apart
  <2> QED BY <1>a, <2>2 DEF Space, Apart
<1>5. Placed'
  <2>1. Cell(BootBlock) \in Block /\ BootBlock' = BootBlock
    BY <1>1, <1>2 DEF BootBlock
  <2>2. Inside(Cell(w), Cell(BootBlock))
    BY <1>1, <1>2, <2>1, HalvesProperties DEF Space, Placed
  <2>3. ~ crossed => Inside(w, BootBlock)
    BY <1>1, HalvesProperties DEF Space, Placed
  <2>4. ASSUME NEW x \in Live'
        PROVE  /\ Inside(Cell(x), Cell(BootBlock))
               /\ ~ crossed' => Inside(x, BootBlock)
               /\ AlignedHeap => Aligned(x)
    BY <2>2, <2>3 DEF Space, Placed
  <2> QED BY <2>1, <2>4 DEF Placed
<1>6. Upwards'
  BY DEF Space, Upwards
<1> QED BY <1>3, <1>4, <1>5, <1>6 DEF Space

\* A block has its first page, and disjoint blocks share none.
LEMMA DisjointPages ==
  ASSUME NEW b \in Block, NEW c \in Block
  PROVE  /\ b.page \in Pages(b)
         /\ Disjoint(b, c) => Pages(b) \cap Pages(c) = {}
<1>1. /\ b.page \in Int /\ PageBlock[b.order] \in Nat /\ PageBlock[b.order] > 0
      /\ c.page \in Int /\ PageBlock[c.order] \in Nat /\ PageBlock[c.order] > 0
  BY PageBlockPositive DEF Block
<1> QED BY <1>1, SMT DEF Disjoint, Pages

\* Two disjoint blocks of one order inside the heap leave room for a larger order.
LEMMA OrderInHeap ==
  ASSUME NEW b \in Block, NEW c \in Block, b.order = c.order,
         NEW heap \in Block, heap.order = BootOrder,
         Inside(b, heap), Inside(c, heap), Disjoint(b, c)
  PROVE  b.order + 1 \in Orders
<1> DEFINE o == b.order
           s == PageBlock[o]
           e == PageBlock[BootOrder]
           p == heap.page
<1>1. /\ o \in Orders /\ BootOrder \in Orders /\ o \in Nat
      /\ s \in Nat /\ s > 0 /\ e \in Nat /\ e > 0 /\ p \in Int
      /\ b.page \in Int /\ c.page \in Int
  <2>1. BootOrder \in Orders
    BY OrderAssumption, SMT DEF Orders
  <2>2. o \in Orders /\ b.page \in Int /\ c.page \in Int /\ p \in Int
    BY DEF Block
  <2> QED BY <2>1, <2>2, PageBlockPositive, SMT DEF Orders
<1>2. /\ p <= b.page /\ b.page + s <= p + e
      /\ p <= c.page /\ c.page + s <= p + e
      /\ b.page + s <= c.page \/ c.page + s <= b.page
  BY DEF Inside, Disjoint
<1> HIDE DEF s, e, p
<1>3. 2 * s <= e
  BY <1>1, <1>2, SMT
<1>4. o < BootOrder
  <2>1. CASE o = BootOrder
    <3>1. s = e
      BY <2>1 DEF s, e
    <3> QED BY <3>1, <1>1, <1>3, SMT
  <2>2. CASE BootOrder < o
    <3>1. 2 * e <= s
      BY <2>2, <1>1, PageBlockAssumption DEF s, e
    <3> QED BY <3>1, <1>1, <1>3, SMT
  <2> QED BY <2>1, <2>2, <1>1, OrderAssumption, SMT
<1> QED BY <1>1, <1>4, OrderAssumption, SMT DEF Orders

-----------------------------------------------------------------------------
(* split_page_block() *)

\* The block that is split is cut off its list, wherever it was found: as the
\* last entry it ends its chain, else it is the free block nearest the tail.
LEMMA NextIsRemoved ==
  ASSUME IInv, NEW o \in Orders, NEW b \in NextFreeBlock(o), NEW s \in NextFreeRemoved(o)
  PROVE  /\ ChainOK(s, count[o] - 1, o)
         /\ ToSet(s) \subseteq ToSet(list[o]) \ {b}
         /\ b.order = o
<1>1. ChainOK(list[o], count[o], o) /\ EndsAt(list[o], last)
  BY DEF IInv, ListsOK
<1>2. /\ list[o] \in Seq(Block) /\ count[o] \in Nat
      /\ Distinct(list[o]) /\ Covers(count[o], list[o])
  BY <1>1 DEF ChainOK
<1>3. Len(list[o]) \in Nat /\ DOMAIN list[o] = 1 .. Len(list[o])
  BY <1>2, LenProperties
<1>4. b.order = o
  <2>1. CASE LastEntryFits(o)
    BY <2>1 DEF NextFreeBlock, LastEntryFits
  <2>2. CASE ~ LastEntryFits(o)
    BY <2>2, <1>1 DEF NextFreeBlock, ChainOK, ToSet
  <2> QED BY <2>1, <2>2
<1>5. CASE count[o] = 1
  <2>1. s = << >> /\ count[o] - 1 = 0
    BY <1>5 DEF NextFreeRemoved
  <2>2. ChainOK(<< >>, 0, o) /\ ToSet(<< >>) = {}
    BY EmptyChain DEF ChainOK
  <2> QED BY <2>1, <2>2, <1>4
<1>6. CASE count[o] # 1
  <2>1. PICK i \in 2 .. Len(list[o]) :
          /\ Free(list[o][i])
          /\ \A k \in i + 1 .. Len(list[o]) : ~ Free(list[o][k])
          /\ s = SubSeq(list[o], 1, i - 1)
    BY <1>6 DEF NextFreeRemoved
  <2>2. /\ s \in Seq(Block) /\ count[o] - 1 \in Nat
        /\ Distinct(s) /\ Covers(count[o] - 1, s)
        /\ ToSet(s) \subseteq ToSet(list[o])
        /\ \A j \in i .. Len(list[o]) : list[o][j] \notin ToSet(s)
        /\ last \notin ToSet(s)
    BY <2>1, <1>1, <1>2, CutChain
  <2>3. b \notin ToSet(s)
    <3>1. CASE LastEntryFits(o)
      BY <3>1, <2>2 DEF NextFreeBlock
    <3>2. CASE ~ LastEntryFits(o)
      <4>1. PICK j \in 1 .. Len(list[o]) :
              /\ b = list[o][j] /\ Free(list[o][j])
              /\ \A k \in j + 1 .. Len(list[o]) : ~ Free(list[o][k])
        BY <3>2, <1>3 DEF NextFreeBlock
      <4>2. i <= j
        <5>1. i \in 1 .. Len(list[o]) /\ ~ (i \in j + 1 .. Len(list[o]))
          BY <2>1, <4>1, <1>3, SMT
        <5> QED BY <5>1, <1>3, SMT
      <4>3. j \in i .. Len(list[o])
        BY <4>2, <1>3, SMT
      <4> QED BY <4>1, <4>3, <2>2
    <3> QED BY <3>1, <3>2
  <2> QED BY <2>2, <2>3, <1>1, <1>4 DEF ChainOK
<1> QED BY <1>5, <1>6

\* A split keeps the invariant: the cells of its halves, and if they lie in it the
\* halves, are disjoint from all that is live.
LEMMA SplitPageBlockStep ==
  ASSUME IInv, NEW o \in Orders, SplitPageBlock(o)
  PROVE  /\ IInv'
         /\ ~ crossed' => ~ crossed /\ FreePages' \subseteq FreePages
<1>1. o > 0 /\ op.target \in Orders /\ op.target <= o - 1
  <2>1. op \in Calls /\ op.pc = "reduce" /\ op.curr = o /\ op.curr > op.target
    BY DEF IInv, TypesOK, SplitPageBlock, Splitting
  <2>2. op.target \in Orders
    BY <2>1 DEF Calls
  <2> QED BY <2>1, <2>2, OrderAssumption, SMT DEF Orders
<1>2. o - 1 \in Orders /\ o - 1 # o
  BY <1>1, HalfSizes, SMT DEF Orders
<1>3. PICK b \in NextFreeBlock(o) :
        LET lower == [order |-> o - 1, page |-> b.page]
            upper == Buddy(lower)
        IN  /\ \E s \in NextFreeRemoved(o) :
                 list' = [list EXCEPT ![o] = s, ![o - 1] = @ \o <<lower, upper>>]
            /\ used' = used \ {lower, upper}
            /\ last' = upper
            /\ crossed' = (crossed \/ upper.page < lower.page)
  BY DEF SplitPageBlock
<1> DEFINE lower == [order |-> o - 1, page |-> b.page]
           upper == Buddy(lower)
<1>4. PICK s \in NextFreeRemoved(o) :
        list' = [list EXCEPT ![o] = s, ![o - 1] = @ \o <<lower, upper>>]
  BY <1>3
<1>5. /\ used' = used \ {lower, upper} /\ last' = upper
      /\ crossed' = (crossed \/ upper.page < lower.page) /\ base' = base
  BY <1>3 DEF SplitPageBlock
<1>6. /\ ChainOK(s, count[o] - 1, o)
      /\ ToSet(s) \subseteq ToSet(list[o]) \ {b}
      /\ b.order = o
  BY <1>4, NextIsRemoved
<1>7. b \in Live /\ Free(b) /\ b \in Block
  BY NextIsLive, LiveIsBlock DEF IInv
<1>8. /\ lower \in Block /\ upper \in Block
      /\ lower.order = o - 1 /\ upper.order = o - 1
      /\ Halves(Cell(lower), Cell(upper), Cell(b))
      /\ ~ (upper.page < lower.page) => Halves(lower, upper, b)
      /\ Aligned(b) => /\ Aligned(lower) /\ Aligned(upper)
                       /\ ~ (upper.page < lower.page)
  <2>1. b.order - 1 = o - 1 /\ b.order > 0
    BY <1>1, <1>6
  <2>2. lower = [order |-> b.order - 1, page |-> b.page] /\ upper = Buddy(lower)
    BY <2>1
  <2> HIDE DEF lower, upper
  <2> QED BY <2>1, <2>2, <1>7, SplitCells
<1> HIDE DEF lower, upper
<1>9. Cell(lower) \in Block /\ Cell(upper) \in Block /\ Cell(b) \in Block
  BY <1>7, <1>8, CellProperties
<1>10. /\ ~ Disjoint(Cell(b), Cell(lower)) /\ ~ Disjoint(Cell(b), Cell(upper))
       /\ Cell(lower) # Cell(upper)
  BY <1>8, <1>9, HalvesProperties
<1>11. lower # upper
  BY <1>10
<1>12. ~ crossed' => ~ crossed /\ Halves(lower, upper, b)
  BY <1>5, <1>8
<1>13. AlignedHeap => Aligned(lower) /\ Aligned(upper) /\ ~ crossed'
  BY <1>5, <1>7, <1>8 DEF IInv, Space, Placed, Upwards
<1>14. lower \notin Live /\ upper \notin Live
  BY <1>2, <1>6, <1>7, <1>8, <1>10, NewHalf DEF IInv, Space
<1> DEFINE t == list[o - 1] \o <<lower, upper>>
<1>15. /\ ChainOK(t, count[o - 1] + 2, o - 1) /\ EndsAt(t, upper)
       /\ ToSet(t) = ToSet(list[o - 1]) \union {lower, upper}
  <2> DEFINE l == list[o - 1]
             n == count[o - 1]
             one == Append(l, lower)
  <2>1. ChainOK(l, n, o - 1)
    BY <1>2 DEF IInv, ListsOK
  <2>2. lower \notin ToSet(l) /\ upper \notin ToSet(l)
    BY <1>2, <1>14 DEF Live, Listed
  <2>3. t = Append(one, upper)
    <3>1. l \in Seq(Block)
      BY <2>1 DEF ChainOK
    <3> HIDE DEF l
    <3>2. l \o <<lower, upper>> = Append(Append(l, lower), upper)
      BY <3>1, <1>8, SMT
    <3> QED BY <3>2 DEF l
  <2> HIDE DEF l, n, t
  <2>4. /\ one \in Seq(Block) /\ n + 1 \in Nat
        /\ Distinct(one) /\ Covers(n + 1, one)
        /\ ToSet(one) = ToSet(l) \union {lower}
    BY <2>1, <2>2, <1>8, AppendChain DEF ChainOK
  <2>5. upper \notin ToSet(one)
    BY <2>2, <2>4, <1>11
  <2> HIDE DEF one
  <2>6. /\ t \in Seq(Block) /\ (n + 1) + 1 \in Nat
        /\ Distinct(t) /\ Covers((n + 1) + 1, t)
        /\ ToSet(t) = ToSet(one) \union {upper}
        /\ EndsAt(t, upper)
    BY <2>3, <2>4, <2>5, <1>8, AppendChain
  <2>7. (n + 1) + 1 = n + 2
    BY <2>1, SMT DEF ChainOK
  <2> QED BY <2>1, <2>4, <2>6, <2>7, <1>8 DEF ChainOK, l, n
<1>16. /\ list' = [list EXCEPT ![o] = s, ![o - 1] = t]
       /\ count' = [count EXCEPT ![o] = @ - 1, ![o - 1] = @ + 2]
  BY <1>4 DEF SplitPageBlock
<1> HIDE DEF t
<1>17. ListsOK'
  <2>1. list' \in [Orders -> Seq(Block)] /\ count' \in [Orders -> Nat]
    BY <1>2, <1>6, <1>15, <1>16 DEF IInv, ListsOK, ChainOK
  <2>2. ASSUME NEW q \in Orders
        PROVE  ChainOK(list'[q], count'[q], q) /\ EndsAt(list'[q], last')
    <3>1. CASE q = o - 1
      BY <3>1, <1>2, <1>5, <1>15, <1>16 DEF IInv, ListsOK
    <3>2. CASE q # o - 1
      <4>1. ChainOK(list'[q], count'[q], q)
        BY <3>2, <1>2, <1>6, <1>16 DEF IInv, ListsOK
      <4>2. upper \notin ToSet(list'[q])
        BY <3>2, <4>1, <1>8 DEF ChainOK
      <4> QED BY <4>1, <4>2, <1>5 DEF EndsAt, ToSet
    <3> QED BY <3>1, <3>2
  <2> QED BY <2>1, <2>2 DEF ListsOK
<1>18. Live' \subseteq (Live \ {b}) \union {lower, upper}
  <2>1. ASSUME NEW x \in Listed' PROVE x \in (Listed \ {b}) \union {lower, upper}
    <3>1. PICK q \in Orders : x \in ToSet(list'[q])
      BY DEF Listed
    <3>2. CASE q = o
      BY <3>1, <3>2, <1>2, <1>6, <1>16 DEF Listed, IInv, ListsOK
    <3>3. CASE q = o - 1
      <4>1. x \in ToSet(list[o - 1]) \union {lower, upper}
        BY <3>1, <3>3, <1>2, <1>15, <1>16 DEF IInv, ListsOK
      <4>2. b \notin ToSet(list[o - 1])
        BY <1>2, <1>6 DEF IInv, ListsOK, ChainOK
      <4> QED BY <4>1, <4>2, <1>2 DEF Listed
    <3>4. CASE q # o /\ q # o - 1
      <4>1. x \in ToSet(list[q])
        BY <3>1, <3>4, <1>16 DEF IInv, ListsOK
      <4>2. b \notin ToSet(list[q])
        BY <3>4, <1>6 DEF IInv, ListsOK, ChainOK
      <4> QED BY <4>1, <4>2 DEF Listed
    <3> QED BY <3>2, <3>3, <3>4
  <2>2. held' = held /\ b \notin held
    BY <1>7 DEF SplitPageBlock, IInv, HeldIsUsed, Free
  <2> QED BY <2>1, <2>2, <1>5 DEF Live
<1>19. Space'
  BY <1>5, <1>7, <1>8, <1>12, <1>13, <1>18, LiveIsBlock, SplitSpace DEF IInv
<1>20. TypesOK' /\ HeldIsUsed' /\ OpOK'
  <2>1. op' = Reducing(o - 1, op.target) /\ held' = held
    BY DEF SplitPageBlock
  <2>2. op' \in Calls /\ OpOK'
    BY <2>1, <1>1, <1>2 DEF Calls, OpOK, Reducing
  <2>3. HeldIsUsed'
    BY <2>1, <1>5, <1>14 DEF IInv, HeldIsUsed, Live
  <2> QED BY <2>1, <2>2, <2>3, <1>5, <1>8 DEF IInv, TypesOK
<1>21. ASSUME ~ crossed' PROVE FreePages' \subseteq FreePages
  <2>1. Pages(lower) \subseteq Pages(b) /\ Pages(upper) \subseteq Pages(b)
    BY <1>7, <1>8, <1>12, <1>21, HalvesProperties
  <2>2. ASSUME NEW x \in Live', Free(x)' PROVE Pages(x) \subseteq FreePages
    <3>1. CASE x \in Live \ {b} /\ x \notin {lower, upper}
      BY <3>1, <2>2, <1>5 DEF FreePages, Free
    <3>2. CASE x \in {lower, upper}
      BY <3>2, <2>1, <1>7 DEF FreePages
    <3> QED BY <3>1, <3>2, <1>18
  <2> QED BY <2>2 DEF FreePages, Pages
<1> QED BY <1>12, <1>17, <1>19, <1>20, <1>21 DEF IInv

-----------------------------------------------------------------------------
(* merge_buddy() *)

\* A merge keeps the invariant: the block made of two buddies overlaps no other.
LEMMA MergeBuddiesStep ==
  ASSUME IInv, MergeBuddies
  PROVE  IInv' /\ FreePages' \subseteq FreePages
<1> DEFINE b == op.block
           o == b.order
           c == Buddy(b)
           whole == [order |-> o + 1,
                     page |-> IF b.page > c.page THEN c.page ELSE b.page]
<1>1. /\ o \in Orders /\ b \in ToSet(list[o]) /\ b \in Listed /\ Free(b)
      /\ c \in ToSet(list[o]) /\ Free(c)
  BY ListedInOrder DEF MergeBuddies, Mergeable, IInv, OpOK
<1> DEFINE Merged(t, u) ==
             /\ list' = [list EXCEPT ![o] = u, ![o + 1] = Append(@, whole)]
             /\ count' = [count EXCEPT ![o] = @ - 2, ![o + 1] = @ + 1]
             /\ used' = used \ {whole}
             /\ last' = whole
             /\ op' = Merging(whole)
<1>a. PICK t \in PageBlockRemoved(list[o], count[o], b) :
        \E u \in PageBlockRemoved(t, count[o] - 1, c) : Merged(t, u)
  BY DEF MergeBuddies
<1>2. PICK u \in PageBlockRemoved(t, count[o] - 1, c) :
        /\ list' = [list EXCEPT ![o] = u, ![o + 1] = Append(@, whole)]
        /\ count' = [count EXCEPT ![o] = @ - 2, ![o + 1] = @ + 1]
        /\ used' = used \ {whole}
        /\ last' = whole
        /\ op' = Merging(whole)
  BY <1>a
<1> HIDE DEF Merged
<1>3. b \in Live /\ c \in Live /\ b \in Block /\ c \in Block
  <2>1. b \in Live /\ c \in Live
    BY <1>1 DEF Live, Listed
  <2> QED BY <2>1, LiveIsBlock DEF IInv
<1>4. c.order = o /\ c # b
  <2>1. c.order = o
    BY DEF Buddy
  <2>2. c.page # b.page
    <3>1. b.page \in Int /\ PageBlock[o] \in Nat /\ PageBlock[o] > 0
      BY <1>1, <1>3, PageBlockPositive DEF Block
    <3>2. c.page = b.page + PageBlock[o] \/ c.page = b.page - PageBlock[o]
      BY DEF Buddy
    <3> HIDE DEF b, c, o
    <3> QED BY <3>1, <3>2, SMT
  <2> QED BY <2>1, <2>2
<1>5. Disjoint(Cell(b), Cell(c))
  BY <1>3, <1>4 DEF IInv, Space, CellsApart
<1>6. o + 1 \in Orders /\ o + 1 # o
  <2>1. /\ Cell(b) \in Block /\ Cell(b).order = o
        /\ Cell(c) \in Block /\ Cell(c).order = o
    BY <1>3, <1>4, CellProperties
  <2>2. Cell(BootBlock) \in Block /\ Cell(BootBlock).order = BootOrder
    <3>1. base \in Int /\ BootOrder \in Orders
      BY HeapAssumption, OrderAssumption, SMT DEF IInv, TypesOK, Orders
    <3>2. BootBlock \in Block /\ BootBlock.order = BootOrder
      BY <3>1 DEF BootBlock, BootAt, Block
    <3> QED BY <3>2, CellProperties
  <2>3. Inside(Cell(b), Cell(BootBlock)) /\ Inside(Cell(c), Cell(BootBlock))
    BY <1>3 DEF IInv, Space, Placed
  <2> HIDE DEF b, c
  <2>4. Cell(b).order + 1 \in Orders
    BY <2>1, <2>2, <2>3, <1>5, OrderInHeap
  <2> QED BY <2>1, <2>4, <1>1, SMT DEF Orders
<1>7. /\ whole \in Block
      /\ Halves(b, c, whole) /\ Halves(Cell(b), Cell(c), Cell(whole))
      /\ Aligned(b) => Aligned(whole)
  BY <1>3, <1>6, MergeCells
<1>8. whole.order = o + 1
  OBVIOUS
<1> HIDE DEF b, c, o, whole
<1>9. b.order = o
  BY DEF o
<1>10. /\ ~ Disjoint(Cell(whole), Cell(b))
       /\ Pages(whole) = Pages(b) \union Pages(c)
  <2>1. Cell(b) \in Block /\ Cell(c) \in Block /\ Cell(whole) \in Block
    BY <1>3, <1>7, CellProperties
  <2> QED BY <2>1, <1>3, <1>7, HalvesProperties
<1>11. whole \notin Live
  <2>1. whole # b
    BY <1>6, <1>8, <1>9
  <2> QED BY <2>1, <1>3, <1>10 DEF IInv, Space, CellsApart
<1>12. ChainOK(list[o], count[o], o) /\ EndsAt(list[o], last)
  BY <1>1 DEF IInv, ListsOK
<1>13. /\ t \in Seq(Block) /\ count[o] - 1 \in Nat
       /\ Distinct(t) /\ Covers(count[o] - 1, t)
       /\ ToSet(t) = ToSet(list[o]) \ {b}
  BY <1>1, <1>2, <1>12, Unchained DEF ChainOK
<1>14. /\ ChainOK(u, count[o] - 2, o)
       /\ ToSet(u) = ToSet(list[o]) \ {b, c}
  <2>1. c \in ToSet(t)
    BY <1>1, <1>4, <1>13
  <2>2. /\ u \in Seq(Block) /\ (count[o] - 1) - 1 \in Nat
        /\ Distinct(u) /\ Covers((count[o] - 1) - 1, u)
        /\ ToSet(u) = ToSet(t) \ {c}
    BY <1>2, <1>13, <2>1, Unchained
  <2>3. (count[o] - 1) - 1 = count[o] - 2
    BY <1>12, SMT DEF ChainOK
  <2> QED BY <2>2, <2>3, <1>12, <1>13 DEF ChainOK
<1> DEFINE v == Append(list[o + 1], whole)
<1>15. /\ ChainOK(v, count[o + 1] + 1, o + 1) /\ EndsAt(v, whole)
       /\ ToSet(v) = ToSet(list[o + 1]) \union {whole}
  <2>1. ChainOK(list[o + 1], count[o + 1], o + 1)
    BY <1>6 DEF IInv, ListsOK
  <2>2. whole \notin ToSet(list[o + 1])
    BY <1>6, <1>11 DEF Live, Listed
  <2>3. /\ v \in Seq(Block) /\ count[o + 1] + 1 \in Nat
        /\ Distinct(v) /\ Covers(count[o + 1] + 1, v)
        /\ ToSet(v) = ToSet(list[o + 1]) \union {whole}
        /\ EndsAt(v, whole)
    BY <2>1, <2>2, <1>7, AppendChain DEF ChainOK
  <2> QED BY <2>1, <2>3, <1>8 DEF ChainOK
<1>16. /\ list' = [list EXCEPT ![o] = u, ![o + 1] = v]
       /\ count' = [count EXCEPT ![o] = @ - 2, ![o + 1] = @ + 1]
  BY <1>2
<1> HIDE DEF v
<1>17. ListsOK'
  <2>1. list' \in [Orders -> Seq(Block)] /\ count' \in [Orders -> Nat]
    BY <1>1, <1>6, <1>14, <1>15, <1>16 DEF IInv, ListsOK, ChainOK
  <2>2. ASSUME NEW q \in Orders
        PROVE  ChainOK(list'[q], count'[q], q) /\ EndsAt(list'[q], last')
    <3>1. CASE q = o + 1
      BY <3>1, <1>2, <1>6, <1>15, <1>16 DEF IInv, ListsOK
    <3>2. CASE q # o + 1
      <4>1. ChainOK(list'[q], count'[q], q)
        BY <3>2, <1>6, <1>14, <1>16 DEF IInv, ListsOK
      <4>2. whole \notin ToSet(list'[q])
        BY <3>2, <4>1, <1>8 DEF ChainOK
      <4> QED BY <4>1, <4>2, <1>2 DEF EndsAt, ToSet
    <3> QED BY <3>1, <3>2
  <2> QED BY <2>1, <2>2 DEF ListsOK
<1>18. Listed' \subseteq (Listed \ {b, c}) \union {whole} /\ whole \in Listed'
  <2>1. ASSUME NEW x \in Listed' PROVE x \in (Listed \ {b, c}) \union {whole}
    <3>1. PICK q \in Orders : x \in ToSet(list'[q])
      BY DEF Listed
    <3>2. CASE q = o
      BY <3>1, <3>2, <1>1, <1>6, <1>14, <1>16 DEF Listed, IInv, ListsOK
    <3>3. CASE q = o + 1
      <4>1. x \in ToSet(list[o + 1]) \union {whole}
        BY <3>1, <3>3, <1>6, <1>15, <1>16 DEF IInv, ListsOK
      <4>2. b \notin ToSet(list[o + 1]) /\ c \notin ToSet(list[o + 1])
        BY <1>4, <1>6, <1>9 DEF IInv, ListsOK, ChainOK
      <4> QED BY <4>1, <4>2, <1>6 DEF Listed
    <3>4. CASE q # o /\ q # o + 1
      <4>1. x \in ToSet(list[q])
        BY <3>1, <3>4, <1>16 DEF IInv, ListsOK
      <4>2. b \notin ToSet(list[q]) /\ c \notin ToSet(list[q])
        BY <3>4, <1>4, <1>9 DEF IInv, ListsOK, ChainOK
      <4> QED BY <4>1, <4>2 DEF Listed
    <3> QED BY <3>2, <3>3, <3>4
  <2>2. whole \in ToSet(list'[o + 1])
    BY <1>6, <1>15, <1>16 DEF IInv, ListsOK
  <2> QED BY <2>1, <2>2, <1>6 DEF Listed
<1>19. Live' \subseteq (Live \ {b, c}) \union {whole}
  <2>1. held' = held /\ b \notin held /\ c \notin held
    BY <1>1 DEF MergeBuddies, IInv, HeldIsUsed, Free
  <2> QED BY <2>1, <1>2, <1>18 DEF Live
<1>20. Space'
  <2>1. base' = base /\ crossed' = crossed
    BY DEF MergeBuddies
  <2> QED BY <2>1, <1>3, <1>4, <1>7, <1>19, LiveIsBlock, MergeSpace DEF IInv
<1>21. TypesOK' /\ HeldIsUsed' /\ OpOK'
  <2>1. op' \in Calls /\ held' = held
    BY <1>2, <1>7 DEF Calls, Merging, MergeBuddies
  <2>2. HeldIsUsed'
    BY <2>1, <1>2, <1>11 DEF IInv, HeldIsUsed, Live
  <2>3. OpOK'
    BY <1>2, <1>18 DEF OpOK, Merging, Free
  <2> QED BY <2>1, <2>2, <2>3, <1>2, <1>7 DEF IInv, TypesOK, MergeBuddies
<1>22. FreePages' \subseteq FreePages
  <2>1. Pages(whole) \subseteq Pages(b) \union Pages(c)
    BY <1>10
  <2>2. Pages(b) \subseteq FreePages /\ Pages(c) \subseteq FreePages
    BY <1>1, <1>3 DEF FreePages
  <2>3. ASSUME NEW x \in Live', Free(x)' PROVE Pages(x) \subseteq FreePages
    <3>1. CASE x \in Live \ {b, c} /\ x # whole
      BY <3>1, <2>3, <1>2 DEF FreePages, Free
    <3>2. CASE x = whole
      BY <3>2, <2>1, <2>2
    <3> QED BY <3>1, <3>2, <1>19
  <2> QED BY <2>3 DEF FreePages, Pages
<1> QED BY <1>17, <1>20, <1>21, <1>22 DEF IInv

\* Every step keeps the invariant.
LEMMA NextIInv ==
  ASSUME IInv, [Next]_vars
  PROVE  IInv'
<1>1. CASE \E n \in Requests : AllocStart(n)
  BY <1>1, AllocStartStep
<1>2. CASE \E b \in held : PageFree(b)
  BY <1>2, PageFreeStep
<1>3. CASE Reduce
  <2> SUFFICES ASSUME NEW o \in Orders,
                      \/ SplitPageBlock(o) \/ SplitFails(o) \/ SplitWalksOff(o)
                      \/ TakeBlock(o) \/ NoBlock(o) \/ TakeWalksOff(o)
               PROVE  IInv'
    BY <1>3 DEF Reduce
  <2>1. CASE SplitPageBlock(o)
    BY <2>1, SplitPageBlockStep
  <2>2. CASE TakeBlock(o)
    BY <2>2, TakeBlockStep
  <2>3. CASE SplitFails(o) \/ NoBlock(o)
    BY <2>3, EndStep DEF SplitFails, NoBlock
  <2>4. CASE SplitWalksOff(o) \/ TakeWalksOff(o)
    BY <2>4, EndStep DEF SplitWalksOff, TakeWalksOff
  <2> QED BY <2>1, <2>2, <2>3, <2>4
<1>4. CASE Merge
  <2>1. CASE MergeStops
    BY <2>1, EndStep DEF MergeStops
  <2>2. CASE MergeDropsBlock
    BY <2>2, MergeDropsBlockStep
  <2>3. CASE MergeBuddies
    BY <2>3, MergeBuddiesStep
  <2> QED BY <1>4, <2>1, <2>2, <2>3 DEF Merge
<1>5. CASE Halted \/ UNCHANGED vars
  <2>1. UNCHANGED vars
    BY <1>5 DEF Halted
  <2>2. op' \in Calls /\ OpOK'
    BY <2>1 DEF vars, IInv, TypesOK, OpOK, Listed, Free
  <2> QED BY <2>1, <2>2, OpOnly DEF vars
<1> QED BY <1>1, <1>2, <1>3, <1>4, <1>5 DEF Next, Step

-----------------------------------------------------------------------------
(* Theorems *)

\* The invariant holds of every run of the allocator, wherever the heap starts.
THEOREM Invariance ==
  Spec => []IInv
<1>1. Init => IInv
  BY InitIInv
<1>2. IInv /\ [Next]_vars => IInv'
  BY NextIInv
<1> QED BY <1>1, <1>2, PTL DEF Spec

\* The state of page_alloc.c is well typed: no order leaves 0..MAX_PAGE_ORDER,
\* in particular merge_buddy() never reaches past the array of lists.
THEOREM TypeCorrect ==
  Spec => []TypeOK
<1>1. IInv => TypeOK
  BY DEF IInv, ListsOK, TypesOK, TypeOK
<1> QED BY <1>1, Invariance, PTL

\* page_alloc() never returns an address that somebody holds, for every heap, every
\* sequence of requests and every order of frees; and no page is in two blocks until
\* a split has made its second half below the first.
THEOREM BlocksDisjoint ==
  Spec => []NoOverlap
<1>1. IInv => NoOverlap
  BY LiveIsBlock, SamePage DEF IInv, Space, CellsApart, Apart, NoOverlap
<1> QED BY <1>1, Invariance, PTL

\* A block is chained at most once, in the list of its own order.
THEOREM ChainsDistinct ==
  Spec => []ChainedOnce
<1>1. IInv => ChainedOnce
  BY DEF IInv, ListsOK, ChainOK, Distinct, ToSet, ChainedOnce
<1> QED BY <1>1, Invariance, PTL

\* The counter of a list covers its chain and is zero only with it.
THEOREM CountsCover ==
  Spec => []CountCovers
<1>1. IInv => CountCovers
  BY DEF IInv, ListsOK, ChainOK, Covers, CountCovers
<1> QED BY <1>1, Invariance, PTL

\* The second half of a split lies above the first, as page_alloc.c:555 says, if the
\* heap starts at a multiple of its size: the XOR of get_buddy_pfn() adds the size
\* then.  So on such a heap no page is ever in two blocks, and the pool never breaks.
THEOREM SplitsUpwards ==
  ASSUME AlignedHeap
  PROVE  Spec => SecondBuddyHigher /\ [](~ crossed)
<1>1. ASSUME IInv, NEW o \in Orders, SplitPageBlock(o)
      PROVE  \E b \in NextFreeBlock(o) : b.page < last'.page
  <2>1. PICK b \in NextFreeBlock(o) :
          LET lower == [order |-> o - 1, page |-> b.page]
              upper == Buddy(lower)
          IN  (\E s \in NextFreeRemoved(o) : TRUE) /\ last' = upper
    BY <1>1 DEF SplitPageBlock
  <2>2. b.order = o
    BY <1>1, <2>1, NextIsRemoved
  <2>3. b \in Block /\ Aligned(b)
    BY <1>1, NextIsLive, LiveIsBlock DEF IInv, Space, Placed
  <2>4. o > 0
    <3>1. op \in Calls /\ op.pc = "reduce" /\ op.curr = o /\ op.curr > op.target
      BY <1>1 DEF IInv, TypesOK, SplitPageBlock, Splitting
    <3>2. op.target \in Orders
      BY <3>1 DEF Calls
    <3> QED BY <3>1, <3>2, OrderAssumption, SMT DEF Orders
  <2> DEFINE lower == [order |-> b.order - 1, page |-> b.page]
             upper == Buddy(lower)
  <2>5. last' = upper
    BY <2>1, <2>2
  <2>6. lower.page = b.page
    OBVIOUS
  <2> HIDE DEF lower
  <2>7. lower.page < upper.page
    <3> DEFINE second == upper
    <3> HIDE DEF second
    <3>1. lower = [order |-> b.order - 1, page |-> b.page] /\ second = Buddy(lower)
      BY DEF lower, second
    <3>2. lower.page < second.page
      BY <3>1, <2>2, <2>3, <2>4, SplitCells
    <3> QED BY <3>2 DEF second
  <2> QED BY <2>5, <2>6, <2>7
<1>2. IInv /\ [Next]_vars =>
        [\A o \in Orders : SplitPageBlock(o) =>
           \E b \in NextFreeBlock(o) : b.page < last'.page]_vars
  BY <1>1
<1>3. IInv => ~ crossed
  BY DEF IInv, Space, Upwards
<1> QED BY <1>2, <1>3, Invariance, PTL DEF Spec, SecondBuddyHigher

\* How many steps a call can still take: a split for every order down to the one asked
\* for and the choice of a block, or a merge for every order up to the last.
StepsLeft(call) ==
  CASE call.pc = "reduce" -> call.curr - call.target + 1
    [] call.pc = "merge" -> MaxPageOrder - call.block.order + 1
    [] OTHER -> 0

\* page_alloc() and page_free() take a bounded number of steps, whatever the lists hold:
\* each iteration of reduce_to_order() and of merge_buddy() counts the bound down, and
\* no merge goes past the last order.
THEOREM StepsAreBounded ==
  Spec => [][Step => StepsLeft(op') \in Nat /\ StepsLeft(op') < StepsLeft(op)]_vars
<1>1. ASSUME IInv, IInv', Step
      PROVE  StepsLeft(op') \in Nat /\ StepsLeft(op') < StepsLeft(op)
  <2>1. op \in Calls /\ op' \in Calls /\ OpOK
    BY <1>1 DEF IInv, TypesOK
  <2>2. op.pc = "reduce" => StepsLeft(op) \in Nat /\ StepsLeft(op) > 0
    <3> SUFFICES ASSUME op.pc = "reduce" PROVE op.curr - op.target + 1 \in Nat \ {0}
      BY DEF StepsLeft
    <3>1. op.curr \in Orders /\ op.target \in Orders /\ op.target <= op.curr
      BY <2>1 DEF Calls, OpOK
    <3> QED BY <3>1, OrderAssumption, SMT DEF Orders
  <2>3. op.pc = "merge" => StepsLeft(op) \in Nat /\ StepsLeft(op) > 0
    <3> SUFFICES ASSUME op.pc = "merge" PROVE MaxPageOrder - op.block.order + 1 \in Nat \ {0}
      BY DEF StepsLeft
    <3>1. op.block.order \in Orders
      BY <2>1 DEF Calls, Block
    <3> QED BY <3>1, OrderAssumption, SMT DEF Orders
  <2>4. CASE op' \in {Idle, Wild} /\ op.pc \in {"reduce", "merge"}
    <3>1. StepsLeft(op') = 0
      BY <2>4 DEF StepsLeft, Idle, Wild
    <3> QED BY <2>2, <2>3, <2>4, <3>1
  <2>5. ASSUME NEW o \in Orders, SplitPageBlock(o)
        PROVE  StepsLeft(op') \in Nat /\ StepsLeft(op') < StepsLeft(op)
    <3>1. /\ op.pc = "reduce" /\ op.curr = o /\ op.target < o
          /\ op' = [pc |-> "reduce", curr |-> o - 1, target |-> op.target]
      BY <2>5 DEF SplitPageBlock, Splitting, Reducing
    <3>2. op.target \in Int /\ o \in Int
      BY <2>1, <3>1 DEF Calls, Orders
    <3>3. StepsLeft(op') = o - 1 - op.target + 1 /\ StepsLeft(op) = o - op.target + 1
      BY <3>1 DEF StepsLeft
    <3> QED BY <3>1, <3>2, <3>3, SMT
  <2>6. CASE MergeBuddies
    <3> DEFINE b == op.block
    <3>1. /\ op.pc = "merge" /\ op'.pc = "merge" /\ op'.block.order = b.order + 1
      BY <2>6 DEF MergeBuddies, Merging
    <3>2. b.order \in Orders /\ op'.block.order \in Orders
      BY <2>1, <3>1 DEF Calls, Block
    <3>3. /\ StepsLeft(op') = MaxPageOrder - op'.block.order + 1
          /\ StepsLeft(op) = MaxPageOrder - b.order + 1
      BY <3>1 DEF StepsLeft
    <3> HIDE DEF b
    <3> QED BY <3>1, <3>2, <3>3, OrderAssumption, SMT DEF Orders
  <2>7. ASSUME NEW o \in Orders,
               \/ SplitFails(o) \/ SplitWalksOff(o)
               \/ TakeBlock(o) \/ NoBlock(o) \/ TakeWalksOff(o)
        PROVE  op' \in {Idle, Wild} /\ op.pc \in {"reduce", "merge"}
    BY <2>7 DEF SplitFails, SplitWalksOff, TakeBlock, NoBlock, TakeWalksOff, Splitting, Picking
  <2>8. ASSUME MergeStops \/ MergeDropsBlock
        PROVE  op' \in {Idle, Wild} /\ op.pc \in {"reduce", "merge"}
    BY <2>8 DEF MergeStops, MergeDropsBlock
  <2> QED BY <1>1, <2>4, <2>5, <2>6, <2>7, <2>8 DEF Step, Reduce, Merge
<1>2. IInv /\ [Next]_vars =>
        [Step => StepsLeft(op') \in Nat /\ StepsLeft(op') < StepsLeft(op)]_vars
  BY <1>1, NextIInv
<1> QED BY <1>2, Invariance, PTL DEF Spec

-----------------------------------------------------------------------------
(* page_alloc.c implements a pool of pages *)

\* Blocks that callers hold are told apart by their pages.
LEMMA HeldPages ==
  ASSUME IInv, ~ crossed, NEW b \in held
  PROVE  /\ {Pages(c) : c \in held \ {b}} = {Pages(c) : c \in held} \ {Pages(b)}
         /\ b \in Live /\ b \in Block
<1>1. held \subseteq Live /\ held \subseteq Block
  BY DEF IInv, TypesOK, Live
<1>2. ASSUME NEW c \in held, c # b PROVE Pages(c) # Pages(b)
  <2>1. Disjoint(b, c)
    BY <1>1, <1>2 DEF IInv, Space, Apart
  <2> QED BY <2>1, <1>1, DisjointPages
<1> QED BY <1>1, <1>2

\* Handing a block out is an allocation of the pool.
LEMMA TakeBlockAllocates ==
  ASSUME IInv, ~ crossed, NEW o \in Orders, TakeBlock(o)
  PROVE  Pool!Next
<1>1. op.target \in Orders
  BY DEF IInv, TypesOK, TakeBlock, Picking, Calls
<1>2. PICK b \in NextFreeBlock(op.target) :
        used' = used \union {b} /\ held' = held \union {b}
  BY DEF TakeBlock
<1>3. b \in Live /\ Free(b) /\ b \in Block
  BY <1>1, <1>2, NextIsLive, LiveIsBlock DEF IInv
<1>4. Live' = Live
  BY <1>2, <1>3 DEF Live, Listed, Free, TakeBlock
<1>5. FreePages' = FreePages \ Pages(b)
  <2>1. \A c \in Live : c # b => Pages(b) \cap Pages(c) = {}
    BY <1>3, LiveIsBlock, DisjointPages DEF IInv, Space, Apart
  <2>2. {c \in Live' : Free(c)'} = {c \in Live : Free(c)} \ {b}
    BY <1>2, <1>4 DEF Free
  <2>3. FreePages' = UNION {Pages(c) : c \in {d \in Live : Free(d)} \ {b}}
    BY <2>2 DEF FreePages, Pages
  <2> QED BY <2>1, <2>3, <1>3 DEF FreePages
<1>6. Pool!Allocate(Pages(b))
  <2>1. Pages(b) \subseteq FreePages
    BY <1>3 DEF FreePages
  <2>2. {Pages(c) : c \in held'} = {Pages(c) : c \in held} \union {Pages(b)}
    BY <1>2
  <2>3. crossed' = crossed
    BY DEF TakeBlock
  <2> QED BY <2>1, <2>2, <2>3, <1>5 DEF Pool!Allocate, Pages
<1>7. /\ b.page \in UNION {Pages(BootAt(page)) : page \in Bases}
      /\ PageBlock[b.order] \in {PageBlock[q] : q \in Orders}
      /\ Pages(b) = b.page .. b.page + PageBlock[b.order] - 1
  <2>1. /\ Inside(b, BootBlock) /\ b.order \in Orders /\ b.page \in Int
        /\ PageBlock[b.order] \in Nat /\ PageBlock[b.order] > 0
    BY <1>3, PageBlockPositive DEF IInv, Space, Placed, Block
  <2>2. /\ BootOrder \in Orders /\ PageBlock[BootOrder] \in Nat
        /\ base \in Bases /\ base \in Int
        /\ BootBlock.order = BootOrder /\ BootBlock.page = base
    BY PageBlockPositive, OrderAssumption, HeapAssumption, SMT
       DEF Orders, IInv, TypesOK, BootBlock, BootAt
  <2>3. b.page \in base .. base + PageBlock[BootOrder] - 1
    BY <2>1, <2>2, SMT DEF Inside
  <2>4. b.page \in Pages(BootAt(base))
    BY <2>3 DEF Pages, BootAt
  <2> QED BY <2>1, <2>2, <2>4 DEF Pages
<1> QED BY <1>6, <1>7 DEF Pool!Next

\* Looking a freed block up and marking it free is a return to the pool.
LEMMA PageFreeReturns ==
  ASSUME IInv, ~ crossed, NEW b \in held, PageFree(b)
  PROVE  Pool!Next
<1>1. Listed' = Listed /\ last' = last /\ held' = held \ {b}
  BY DEF PageFree, Listed
<1>2. b \in Live /\ b \in Block /\ b \in used
  BY HeldPages DEF IInv, HeldIsUsed
<1>3. {Pages(c) : c \in held'} = {Pages(c) : c \in held} \ {Pages(b)}
  BY <1>1, HeldPages
<1>4. CASE UNCHANGED <<used, op>>
  <2>1. {c \in Live' : Free(c)'} = {c \in Live : Free(c)}
    BY <1>1, <1>2, <1>4 DEF Live, Free, IInv, HeldIsUsed
  <2>2. FreePages' = FreePages
    BY <2>1 DEF FreePages, Pages
  <2>3. Pool!Return(Pages(b))
    BY <2>2, <1>3 DEF Pool!Return, Pages, PageFree
  <2> QED BY <2>3 DEF Pool!Next
<1>5. CASE \E c \in Listed : /\ IsBlockOfPfn(c, b.page)
                             /\ used' = used \ {c}
                             /\ op' = Merging(c)
  <2>1. PICK c \in Listed : c.page = b.page /\ used' = used \ {c}
    BY <1>5 DEF IsBlockOfPfn
  <2>2. c = b
    BY <1>2, <2>1, LiveByPage DEF IInv, Live, Space
  <2>3. {x \in Live' : Free(x)'} = {x \in Live : Free(x)} \union {b}
    BY <1>1, <1>2, <2>1, <2>2 DEF Live, Free, IInv, HeldIsUsed
  <2>4. FreePages' = FreePages \union Pages(b)
    BY <2>3 DEF FreePages, Pages
  <2>5. Pool!Return(Pages(b))
    BY <2>4, <1>3 DEF Pool!Return, Pages, PageFree
  <2> QED BY <2>5 DEF Pool!Next
<1> QED BY <1>4, <1>5 DEF PageFree

\* A step that changes the call in progress only is a stutter of the pool.
LEMMA OpOnlyStutters ==
  ASSUME UNCHANGED <<list, count, used, last, held, base, crossed>>
  PROVE  UNCHANGED Pool!pool
BY DEF Pool!pool, FreePages, Live, Listed, Free, Pages

\* Free pages that disappear are a loss of the pool.
LEMMA LosesPages ==
  ASSUME FreePages' \subseteq FreePages, held' = held, crossed' = crossed
  PROVE  Pool!Next
BY DEF Pool!Next, Pool!Lose, Pages

\* A broken pool stays broken, whatever the lists do.
LEMMA BrokenStutters ==
  ASSUME crossed, crossed'
  PROVE  UNCHANGED Pool!pool
BY DEF Pool!pool

\* No action takes a split that went down back.
LEMMA CrossedStays ==
  ASSUME IInv, [Next]_vars, crossed
  PROVE  crossed'
BY DEF Next, AllocStart, PageFree, Step, Reduce, Merge, Halted, vars, SplitPageBlock,
       SplitFails, SplitWalksOff, TakeBlock, NoBlock, TakeWalksOff, MergeStops,
       MergeDropsBlock, MergeBuddies

\* Every step of page_alloc.c is a step of the pool or leaves it as it is: the
\* lists, with what they lose, implement the pool its callers may rely on, until a
\* split that goes down breaks it.
THEOREM Implements ==
  Spec => ImplementsPool
<1>1. Init /\ IInv => Pool!Init
  <2> SUFFICES ASSUME Init, IInv PROVE Pool!Init
    OBVIOUS
  <2>1. Listed = {BootBlock}
    <3>1. BootOrder \in Orders
      BY OrderAssumption, SMT DEF Orders
    <3>2. \A o \in Orders : list[o] = IF o = BootOrder THEN <<BootBlock>> ELSE << >>
      BY DEF Init
    <3>3. ToSet(<<BootBlock>>) = {BootBlock}
      BY SMT DEF ToSet
    <3> QED BY <3>1, <3>2, <3>3, EmptyChain DEF Listed
  <2>2. {c \in Live : Free(c)} = {BootBlock}
    BY <2>1 DEF Live, Free, Init
  <2>3. FreePages = Pages(BootAt(base)) /\ base \in Bases
    BY <2>2 DEF FreePages, BootBlock, Init
  <2> QED BY <2>3 DEF Pool!Init, Init, Pages
<1>2. IInv /\ [Next]_vars => [Pool!Next]_(Pool!pool)
  <2> SUFFICES ASSUME IInv, [Next]_vars PROVE [Pool!Next]_(Pool!pool)
    OBVIOUS
  <2>a. CASE crossed
    BY <2>a, BrokenStutters, CrossedStays
  <2>b. CASE ~ crossed /\ crossed'
    BY <2>b DEF Pool!Next, Pool!Break
  <2>c. SUFFICES ASSUME ~ crossed, ~ crossed' PROVE [Pool!Next]_(Pool!pool)
    BY <2>a, <2>b
  <2>1. CASE \E n \in Requests : AllocStart(n)
    BY <2>1, OpOnlyStutters DEF AllocStart
  <2>2. CASE \E b \in held : PageFree(b)
    BY <2>2, <2>c, PageFreeReturns
  <2>3. CASE Reduce
    <3>1. PICK o \in Orders :
             \/ SplitPageBlock(o) \/ SplitFails(o) \/ SplitWalksOff(o)
             \/ TakeBlock(o) \/ NoBlock(o) \/ TakeWalksOff(o)
      BY <2>3 DEF Reduce
    <3>2. CASE SplitPageBlock(o)
      BY <3>2, <2>c, SplitPageBlockStep, LosesPages DEF SplitPageBlock, IInv, TypesOK
    <3>3. CASE TakeBlock(o)
      BY <3>3, <2>c, TakeBlockAllocates
    <3>4. CASE SplitFails(o) \/ SplitWalksOff(o)
      BY <3>4, OpOnlyStutters DEF SplitFails, SplitWalksOff
    <3>5. CASE NoBlock(o) \/ TakeWalksOff(o)
      BY <3>5, OpOnlyStutters DEF NoBlock, TakeWalksOff
    <3> QED BY <3>1, <3>2, <3>3, <3>4, <3>5
  <2>4. CASE Merge
    <3>1. CASE MergeStops
      BY <3>1, OpOnlyStutters DEF MergeStops
    <3>2. CASE MergeDropsBlock
      BY <3>2, MergeDropsBlockStep, LosesPages DEF MergeDropsBlock
    <3>3. CASE MergeBuddies
      BY <3>3, MergeBuddiesStep, LosesPages DEF MergeBuddies
    <3> QED BY <2>4, <3>1, <3>2, <3>3 DEF Merge
  <2>5. CASE Halted \/ UNCHANGED vars
    BY <2>5, OpOnlyStutters DEF Halted, vars
  <2> QED BY <2>1, <2>2, <2>3, <2>4, <2>5 DEF Next, Step
<1>3. Init => IInv
  BY InitIInv
<1> QED BY <1>1, <1>2, <1>3, Invariance, PTL DEF Spec, ImplementsPool, Pool!Spec

=============================================================================
