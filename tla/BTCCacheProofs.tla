--------------------------- MODULE BTCCacheProofs ---------------------------
(***************************************************************************)
(* Facts about the block cache's methods, for every cache.                 *)
(***************************************************************************)
EXTENDS BTCCache, BlockTreeProofs

-----------------------------------------------------------------------------
(***************************************************************************)
(* The cache's operations keep a cache a cache, and its blocks a chain.    *)
(***************************************************************************)
Caches == [blocks : Seq(Block), maxEntries : Nat]

\* The newest blocks of a chain are a chain.
LEMMA NewestOfChain ==
  ASSUME NEW s \in Seq(Block), IsChain(s), NEW keep \in 0..Len(s)
  PROVE  LET kept == SubSeq(s, Len(s) - keep + 1, Len(s))
         IN  kept \in Seq(Block) /\ IsChain(kept)
<1> DEFINE n == Len(s)
<1>1. n \in Nat /\ keep \in 0..n
  OBVIOUS
<1> HIDE DEF n
<1>2. n - keep + 1 \in 1..(n + 1) /\ n \in 0..n
  BY <1>1
<1> QED
  BY <1>2, SubSeqOfBlocks, SubSeqOfChain DEF n

LEMMA AddAllKeepsChain ==
  ASSUME NEW n \in Nat, NEW ibs \in Seq(Block), IsChain(ibs)
  PROVE  /\ AddAll(NewBTCCache(n), ibs) \in Caches
         /\ IsChain(AddAll(NewBTCCache(n), ibs).blocks)
<1> DEFINE m    == Len(ibs)
           keep == IF m > n THEN n ELSE m
           kept == SubSeq(ibs, m - keep + 1, m)
<1>1. keep \in 0..m
  <2>1. m \in Nat
    OBVIOUS
  <2> QED
    BY <2>1
<1>2. kept \in Seq(Block) /\ IsChain(kept)
  BY <1>1, NewestOfChain
<1>3. <<>> \o ibs = ibs
  OBVIOUS
<1>4. AddAll(NewBTCCache(n), ibs) = [NewBTCCache(n) EXCEPT !.blocks = kept]
  <2>1. NewBTCCache(n).blocks = <<>> /\ NewBTCCache(n).maxEntries = n
    BY DEF NewBTCCache
  <2> QED
    BY <1>3, <2>1 DEF AddAll
<1>5. AddAll(NewBTCCache(n), ibs) = [blocks |-> kept, maxEntries |-> n]
  BY <1>4 DEF NewBTCCache
<1> QED
  BY <1>2, <1>5 DEF Caches

LEMMA TrimKeepsChain ==
  ASSUME NEW c \in Caches, IsChain(c.blocks), NEW n \in Nat
  PROVE  Trim(Resize(c, n)) \in Caches /\ IsChain(Trim(Resize(c, n)).blocks)
<1> DEFINE r    == [blocks |-> c.blocks, maxEntries |-> n]
           m    == Len(c.blocks)
           kept == SubSeq(c.blocks, m - n + 1, m)
<1>1. Resize(c, n) = r /\ c.blocks \in Seq(Block) /\ r \in Caches
  BY DEF Resize, Caches
<1>2. m \in Nat
  BY <1>1
<1>3. CASE m < n
  BY <1>1, <1>3 DEF Trim, Size
<1>4. CASE ~(m < n)
  <2>1. Trim(r) = [r EXCEPT !.blocks = kept]
    <3>1. r.blocks = c.blocks /\ r.maxEntries = n
      OBVIOUS
    <3> QED
      BY <1>4, <3>1 DEF Trim, Size
  <2>2. n \in 0..m
    BY <1>2, <1>4
  <2>3. kept \in Seq(Block) /\ IsChain(kept)
    BY <1>1, <2>2, NewestOfChain
  <2> QED
    BY <1>1, <2>1, <2>3 DEF Caches
<1> QED
  BY <1>3, <1>4

LEMMA RemoveLastKeepsChain ==
  ASSUME NEW c \in Caches, IsChain(c.blocks), c.blocks # <<>>
  PROVE  RemoveLast(c) \in Caches /\ IsChain(RemoveLast(c).blocks)
<1> DEFINE kept == SubSeq(c.blocks, 1, Len(c.blocks) - 1)
<1>1. c.blocks \in Seq(Block)
  BY DEF Caches
<1>2. 1 \in 1..(Len(c.blocks) + 1) /\ Len(c.blocks) - 1 \in 0..Len(c.blocks)
  BY <1>1
<1>3. kept \in Seq(Block) /\ IsChain(kept)
  BY <1>1, <1>2, SubSeqOfBlocks, SubSeqOfChain
<1> QED
  BY <1>3 DEF RemoveLast, Caches

LEMMA AddKeepsChain ==
  ASSUME NEW c \in Caches, IsChain(c.blocks), c.blocks # <<>>,
         NEW ib \in Block, Parent(ib) = Tip(c)
  PROVE  Add(c, ib) \in Caches /\ IsChain(Add(c, ib).blocks) /\ Add(c, ib).blocks # <<>>
<1> DEFINE old   == c.blocks
           grown == Append(old, ib)
<1>1. old \in Seq(Block) /\ Len(old) >= 1 /\ grown \in Seq(Block) /\ Len(grown) = Len(old) + 1
  BY DEF Caches
<1>2. IsChain(grown)
  <2> SUFFICES ASSUME NEW i \in 1..(Len(grown) - 1)
               PROVE  Parent(grown[i + 1]) = grown[i]
    BY DEF IsChain
  <2>1. CASE i = Len(old)
    BY <1>1, <2>1 DEF Tip
  <2>2. CASE i \in 1..(Len(old) - 1)
    <3>1. Parent(old[i + 1]) = old[i]
      BY <2>2 DEF IsChain
    <3>2. grown[i + 1] = old[i + 1] /\ grown[i] = old[i]
      BY <1>1, <2>2
    <3> QED
      BY <3>1, <3>2
  <2> QED
    BY <1>1, <2>1, <2>2
<1>3. CASE Size(c) = c.maxEntries
  <2>1. Append(Tail(old), ib) = SubSeq(grown, 2, Len(grown))
    BY <1>1
  <2>2. 2 \in 1..(Len(grown) + 1) /\ Len(grown) \in 0..Len(grown)
    BY <1>1
  <2>3. SubSeq(grown, 2, Len(grown)) \in Seq(Block) /\ IsChain(SubSeq(grown, 2, Len(grown)))
    BY <1>1, <1>2, <2>2, SubSeqOfBlocks, SubSeqOfChain
  <2>4. Append(Tail(old), ib) # <<>>
    BY <1>1
  <2> QED
    BY <1>3, <2>1, <2>3, <2>4 DEF Add, Caches
<1>4. CASE Size(c) # c.maxEntries
  BY <1>1, <1>2, <1>4 DEF Add, Caches
<1> QED
  BY <1>3, <1>4

\* Loading, trimming and removing leave at most maxEntries blocks.
LEMMA SizeOfAddAll ==
  ASSUME NEW n \in Nat, NEW ibs \in Seq(Block)
  PROVE  LET c == AddAll(NewBTCCache(n), ibs)
         IN  Size(c) <= c.maxEntries
<1> DEFINE m    == Len(ibs)
           keep == IF m > n THEN n ELSE m
           kept == SubSeq(ibs, m - keep + 1, m)
<1>1. keep \in 0..m /\ keep <= n /\ m \in Nat
  OBVIOUS
<1>2. AddAll(NewBTCCache(n), ibs) = [blocks |-> kept, maxEntries |-> n]
  <2>1. NewBTCCache(n).blocks = <<>> /\ NewBTCCache(n).maxEntries = n /\ <<>> \o ibs = ibs
    BY DEF NewBTCCache
  <2>2. AddAll(NewBTCCache(n), ibs) = [NewBTCCache(n) EXCEPT !.blocks = kept]
    BY <2>1 DEF AddAll
  <2> QED
    BY <2>2 DEF NewBTCCache
<1>3. Len(kept) = keep
  BY <1>1
<1> QED
  BY <1>1, <1>2, <1>3 DEF Size

LEMMA SizeOfTrim ==
  ASSUME NEW c \in Caches, NEW n \in Nat
  PROVE  Size(Trim(Resize(c, n))) <= Trim(Resize(c, n)).maxEntries
<1> DEFINE r    == [blocks |-> c.blocks, maxEntries |-> n]
           m    == Len(c.blocks)
           kept == SubSeq(c.blocks, m - n + 1, m)
<1>1. Resize(c, n) = r /\ c.blocks \in Seq(Block) /\ m \in Nat
  BY DEF Resize, Caches
<1>2. CASE m < n
  BY <1>1, <1>2 DEF Trim, Size
<1>3. CASE ~(m < n)
  <2>1. Trim(r) = [blocks |-> kept, maxEntries |-> n]
    BY <1>3 DEF Trim, Size
  <2>2. Len(kept) = n
    BY <1>1, <1>3
  <2> QED
    BY <1>1, <2>1, <2>2 DEF Size
<1> QED
  BY <1>2, <1>3

LEMMA SizeOfRemoveLast ==
  ASSUME NEW c \in Caches, c.blocks # <<>>, Size(c) <= c.maxEntries
  PROVE  LET d == RemoveLast(c)
         IN  /\ d.maxEntries = c.maxEntries /\ Size(d) <= d.maxEntries
             /\ d.blocks # <<>> => First(d) = First(c)
<1> DEFINE m    == Len(c.blocks)
           kept == SubSeq(c.blocks, 1, m - 1)
<1>1. c.blocks \in Seq(Block) /\ m \in Nat /\ m >= 1 /\ c.maxEntries \in Nat
  BY DEF Caches
<1>2. RemoveLast(c).blocks = kept /\ RemoveLast(c).maxEntries = c.maxEntries
  BY DEF RemoveLast, Caches
<1>3. Len(kept) = m - 1
  BY <1>1
<1>4. kept # <<>> => kept[1] = c.blocks[1]
  BY <1>1
<1> QED
  BY <1>1, <1>2, <1>3, <1>4 DEF Size, First

\* Adding keeps the capacity, and drops no block unless the cache is full.
LEMMA SizeOfAdd ==
  ASSUME NEW c \in Caches, c.blocks # <<>>, Size(c) <= c.maxEntries, NEW ib \in Block
  PROVE  LET d == Add(c, ib)
         IN  /\ d.maxEntries = c.maxEntries /\ Size(d) <= d.maxEntries
             /\ IF Size(c) < c.maxEntries THEN First(d) = First(c) ELSE Size(d) = Size(c)
<1>1. c.blocks \in Seq(Block) /\ Len(c.blocks) \in Nat /\ Len(c.blocks) >= 1 /\ c.maxEntries \in Nat
  BY DEF Caches
<1>2. CASE Size(c) = c.maxEntries
  <2>1. Add(c, ib).blocks = Append(Tail(c.blocks), ib) /\ Add(c, ib).maxEntries = c.maxEntries
    BY <1>2 DEF Add, Caches
  <2>2. Len(Append(Tail(c.blocks), ib)) = Len(c.blocks)
    BY <1>1
  <2> QED
    BY <1>2, <2>1, <2>2 DEF Size
<1>3. CASE Size(c) # c.maxEntries
  <2>1. Add(c, ib).blocks = Append(c.blocks, ib) /\ Add(c, ib).maxEntries = c.maxEntries
    BY <1>3 DEF Add, Caches
  <2>2. /\ Len(Append(c.blocks, ib)) = Len(c.blocks) + 1 /\ Append(c.blocks, ib)[1] = c.blocks[1]
        /\ Append(c.blocks, ib) # <<>>
    BY <1>1
  <2> QED
    BY <1>1, <1>3, <2>1, <2>2 DEF Size, First
<1> QED
  BY <1>2, <1>3

\* The oldest block of a chain of blocks is Size - 1 below the newest.
LEMMA HeightOfFirst ==
  ASSUME NEW c \in Caches, c.blocks # <<>>, IsChain(c.blocks)
  PROVE  /\ First(c) \in Block /\ Tip(c) \in Block
         /\ Height(First(c)) = Height(Tip(c)) - Size(c) + 1
         /\ Height(First(c)) \in Nat /\ Height(Tip(c)) \in Nat /\ Size(c) \in Nat
<1> DEFINE n == Len(c.blocks)
<1>1. /\ c.blocks \in Seq(Block) /\ n \in Nat /\ n >= 1
      /\ First(c) = c.blocks[1] /\ Tip(c) = c.blocks[n]
      /\ First(c) \in Block /\ Tip(c) \in Block
  BY DEF Caches, First, Tip
<1>2. Height(First(c)) = Height(Tip(c)) - (n - 1)
  <2>1. 1 \in 1..n
    BY <1>1
  <2> QED
    BY <1>1, <2>1, ChainHeights
<1>3. Height(First(c)) \in Nat /\ Height(Tip(c)) \in Nat
  BY <1>1, BlockIsPath DEF Height
<1> HIDE DEF n
<1> QED
  BY <1>1, <1>2, <1>3 DEF Size, n

LEMMA TipOfAdd ==
  ASSUME NEW c \in Caches, c.blocks # <<>>, NEW ib \in Block
  PROVE  Tip(Add(c, ib)) = ib
<1>1. c.blocks \in Seq(Block) /\ Len(c.blocks) >= 1
  BY DEF Caches
<1>2. CASE Size(c) = c.maxEntries
  <2> DEFINE t == Tail(c.blocks)
  <2>1. t \in Seq(Block)
    BY <1>1
  <2> HIDE DEF t
  <2>2. Append(t, ib) # <<>> /\ Append(t, ib)[Len(Append(t, ib))] = ib
    BY <2>1
  <2> QED
    BY <1>2, <2>2 DEF Add, Tip, Caches, t
<1>3. CASE Size(c) # c.maxEntries
  <2>1. Append(c.blocks, ib) # <<>> /\ Append(c.blocks, ib)[Len(Append(c.blocks, ib))] = ib
    BY <1>1
  <2> QED
    BY <1>3, <2>1 DEF Add, Tip, Caches
<1> QED
  BY <1>2, <1>3

\* GetLastBlocks returns the blocks of the cache from one of them on.
LEMMA GetLastBlocksFrom ==
  ASSUME NEW c \in Caches, c.blocks # <<>>, NEW h \in Int
  PROVE  \E j \in 1..Size(c) : GetLastBlocks(c, h) = SubSeq(c.blocks, j, Size(c))
<1> DEFINE hits == {i \in 1..Size(c) : LastAtHeight(c, h, i)}
           j    == IF hits = {} THEN 1 ELSE CHOOSE i \in hits : TRUE
<1>1. Size(c) \in Nat /\ Size(c) >= 1
  BY DEF Caches, Size
<1>2. j \in 1..Size(c)
  BY <1>1
<1>3. GetLastBlocks(c, h) = SubSeq(c.blocks, j, Size(c))
  BY Zenon DEF GetLastBlocks
<1> QED
  BY <1>2, <1>3

LEMMA GetLastBlocksType ==
  ASSUME NEW c \in Caches, c.blocks # <<>>, NEW h \in Int
  PROVE  GetLastBlocks(c, h) \in Seq(Block)
<1>1. PICK j \in 1..Size(c) : GetLastBlocks(c, h) = SubSeq(c.blocks, j, Size(c))
  BY GetLastBlocksFrom
<1>2. c.blocks \in Seq(Block) /\ Size(c) = Len(c.blocks) /\ Len(c.blocks) \in Nat
  BY DEF Caches, Size
<1>3. SubSeq(c.blocks, j, Size(c)) \in Seq(Block)
  BY <1>2, SubSeqOfBlocks
<1> QED
  BY <1>1, <1>3

-----------------------------------------------------------------------------
(***************************************************************************)
(* Heights.  The binary search and the scan of GetLastBlocks are right on  *)
(* a cache whose heights ascend; the next lemmas say which lists do.       *)
(***************************************************************************)
Ascending(s) == \A i \in 1..Len(s), k \in 1..Len(s) : i < k => Height(s[i]) < Height(s[k])

\* Comparing neighbours is enough: by induction on the later index.
LEMMA NeighboursAscend ==
  ASSUME NEW s \in Seq(Block), \A i \in 1..(Len(s) - 1) : Height(s[i]) < Height(s[i + 1])
  PROVE  Ascending(s)
<1> DEFINE n == Len(s)
<1> SUFFICES ASSUME NEW i \in 1..n
             PROVE  \A k \in 1..n : i < k => Height(s[i]) < Height(s[k])
  BY DEF Ascending
<1> DEFINE T == {k \in Nat : i < k /\ k <= n /\ ~(Height(s[i]) < Height(s[k]))}
<1>1. n \in Nat /\ \A k \in 1..n : Height(s[k]) \in Nat
  <2>1. n \in Nat /\ \A k \in 1..n : s[k] \in Block
    OBVIOUS
  <2>2. \A b \in Block : Len(b) \in Nat
    BY BlockIsPath
  <2> QED
    BY <2>1, <2>2 DEF Height
<1>2. T = {}
  <2> SUFFICES ASSUME T # {}
               PROVE  FALSE
    OBVIOUS
  <2>1. PICK k \in T : \A m \in T : k <= m
    <3>1. T \subseteq Nat
      OBVIOUS
    <3> QED
      BY <3>1, LeastNatural, Zenon
  <2>2. k \in Nat /\ i < k /\ k <= n /\ ~(Height(s[i]) < Height(s[k]))
    OBVIOUS
  <2>3. k - 1 \in 1..(n - 1) /\ k - 1 \in 1..n /\ k \in 1..n /\ (k - 1) + 1 = k
    BY <1>1, <2>2
  <2>4. Height(s[k - 1]) < Height(s[k])
    BY <2>3
  <2>5. CASE k - 1 = i
    BY <2>2, <2>4, <2>5
  <2>6. CASE k - 1 # i
    <3>1. k - 1 \in Nat /\ i < k - 1 /\ k - 1 <= n /\ ~(k <= k - 1)
      BY <1>1, <2>2, <2>3, <2>6
    <3>2. k - 1 \notin T
      BY <2>1, <3>1
    <3>3. Height(s[i]) < Height(s[k - 1])
      BY <3>1, <3>2
    <3> QED
      BY <1>1, <2>2, <2>3, <2>4, <3>3
  <2> QED
    BY <2>5, <2>6
<1> QED
  BY <1>1, <1>2

\* The heights of a chain are consecutive.
LEMMA ChainAscends ==
  ASSUME NEW s \in Seq(Block), IsChain(s)
  PROVE  Ascending(s)
<1> SUFFICES ASSUME NEW i \in 1..(Len(s) - 1)
             PROVE  Height(s[i]) < Height(s[i + 1])
  BY NeighboursAscend
<1>1. s[i] \in Block /\ s[i + 1] \in Block
  OBVIOUS
<1>2. s[i] = Parent(s[i + 1])
  BY DEF IsChain
<1>3. Len(s[i + 1]) \in Nat /\ Len(s[i]) = Len(s[i + 1]) - 1
  BY <1>1, <1>2, BlockIsPath, ParentIsLower
<1> QED
  BY <1>3 DEF Height

\* What Init lets through, when no two of the blocks have the same height.
LEMMA SortedAscends ==
  ASSUME NEW s \in Seq(Block), SortedByHeight(s),
         \A i \in 1..Len(s), k \in 1..Len(s) : Height(s[i]) = Height(s[k]) => i = k
  PROVE  Ascending(s)
<1> SUFFICES ASSUME NEW i \in 1..(Len(s) - 1)
             PROVE  Height(s[i]) < Height(s[i + 1])
  BY NeighboursAscend
<1>1. i \in 1..Len(s) /\ i + 1 \in 1..Len(s) /\ i # i + 1
  OBVIOUS
<1>2. Height(s[i]) <= Height(s[i + 1]) /\ Height(s[i]) # Height(s[i + 1])
  BY <1>1 DEF SortedByHeight
<1>3. Height(s[i]) \in Nat /\ Height(s[i + 1]) \in Nat
  <2>1. s[i] \in Block /\ s[i + 1] \in Block
    BY <1>1
  <2> QED
    BY <2>1, BlockIsPath, Zenon DEF Height
<1> QED
  BY <1>2, <1>3

LEMMA SubSeqAscends ==
  ASSUME NEW s \in Seq(Block), Ascending(s),
         NEW lo \in 1..(Len(s) + 1), NEW hi \in 0..Len(s)
  PROVE  Ascending(SubSeq(s, lo, hi))
<1> DEFINE t == SubSeq(s, lo, hi)
<1> SUFFICES ASSUME NEW i \in 1..Len(t), NEW k \in 1..Len(t), i < k
             PROVE  Height(t[i]) < Height(t[k])
  BY DEF Ascending
<1>1. /\ Len(t) = IF lo <= hi THEN hi - lo + 1 ELSE 0
      /\ \A m \in 1..Len(t) : t[m] = s[lo + m - 1]
  OBVIOUS
<1>2. /\ lo + i - 1 \in 1..Len(s) /\ lo + k - 1 \in 1..Len(s) /\ lo + i - 1 < lo + k - 1
      /\ t[i] = s[lo + i - 1] /\ t[k] = s[lo + k - 1]
  BY <1>1
<1> QED
  BY <1>2 DEF Ascending

(***************************************************************************)
(* The binary search of FindBlock.  The function that defines it calls     *)
(* itself on smaller intervals only: by induction on their size there is   *)
(* such a function, and what it returns is right.                          *)
(***************************************************************************)
LEMMA SearchBetweenFinds ==
  ASSUME NEW c \in Caches, c.blocks # <<>>, Ascending(c.blocks), NEW h \in Int,
         ~HeightOutOfRange(c, h)
  PROVE  LET found == SearchBetween(c, h)
         IN  \/ \E i \in 1..Size(c) : Height(c.blocks[i]) = h /\ found = c.blocks[i]
             \/ found = NoBlock /\ \A i \in 1..Size(c) : Height(c.blocks[i]) # h
<1> DEFINE s         == c.blocks
           n         == Size(c)
           D         == (1..(n + 1)) \X (0..n)
           Mid(l, r) == l + ((r - l) \div 2)
           At(l, r)  == Height(s[Mid(l, r)])
           Body(f, l, r) ==
             IF l > r             THEN NoBlock
             ELSE IF At(l, r) = h THEN s[Mid(l, r)]
             ELSE IF At(l, r) < h THEN f[<<Mid(l, r) + 1, r>>]
             ELSE IF Mid(l, r) = 1 THEN Wrapped
             ELSE f[<<l, Mid(l, r) - 1>>]
           search    == CHOOSE f : f = [b \in D |-> Body(f, b[1], b[2])]
<1>1. SearchBetween(c, h) = search[<<1, n>>]
  BY DEF SearchBetween
<1>2. n \in Nat /\ n >= 1 /\ n = Len(s) /\ s \in Seq(Block)
  BY DEF Caches, Size
<1>3. \A i \in 1..n : Height(s[i]) \in Nat
  <2>1. \A i \in 1..n : s[i] \in Block
    BY <1>2
  <2>2. \A b \in Block : Len(b) \in Nat
    BY BlockIsPath
  <2> QED
    BY <2>1, <2>2 DEF Height
<1> DEFINE height(i) == Height(s[i])
<1>4. \A i \in 1..n, k \in 1..n : i < k => height(i) < height(k)
  BY <1>2, Zenon DEF Ascending
<1>between. \A i \in 1..n, k \in 1..n :
       height(i) = h => (height(k) < h => ~(i <= k)) /\ (~(height(k) < h) /\ height(k) # h => ~(k <= i))
  <2>1. \A i \in 1..n : height(i) \in Nat
    BY <1>3, Zenon
  <2> HIDE DEF height
  <2>2. \A i \in 1..n, k \in 1..n : i < k \/ i = k \/ k < i
    BY <1>2
  <2>3. \A i \in 1..n, k \in 1..n : i <= k => i < k \/ i = k
    BY <1>2
  <2>4. \A x \in Nat : \A y \in Nat : ~(x < y /\ y < x) /\ ~(x < x)
    OBVIOUS
  <2> QED
    BY <1>4, <2>1, <2>3, <2>4, Z3
<1>5. Height(s[1]) <= h
  BY <1>2, <1>3 DEF HeightOutOfRange, First
<1>6. \A l \in 1..(n + 1), r \in 0..n : l <= r =>
        /\ Mid(l, r) \in l..r /\ Mid(l, r) \in 1..n
        /\ Mid(l, r) + 1 \in 1..(n + 1) /\ r - (Mid(l, r) + 1) < r - l
        /\ Mid(l, r) - 1 \in 0..n /\ (Mid(l, r) - 1) - l < r - l
  BY <1>2
<1> HIDE DEF Mid
<1>7. \A f, l, r : l > r => Body(f, l, r) = NoBlock
  BY Zenon
<1>8. \A f, g, l, r :
        f[<<Mid(l, r) + 1, r>>] = g[<<Mid(l, r) + 1, r>>] /\ f[<<l, Mid(l, r) - 1>>] = g[<<l, Mid(l, r) - 1>>]
        => Body(f, l, r) = Body(g, l, r)
  OBVIOUS
<1>9. \A f, l, r : l <= r /\ ~(l > r) =>
        \/ At(l, r) = h /\ Body(f, l, r) = s[Mid(l, r)]
        \/ At(l, r) < h /\ Body(f, l, r) = f[<<Mid(l, r) + 1, r>>]
        \/ ~(At(l, r) = h) /\ ~(At(l, r) < h) /\ Mid(l, r) = 1
        \/ ~(At(l, r) = h) /\ ~(At(l, r) < h) /\ Body(f, l, r) = f[<<l, Mid(l, r) - 1>>]
  OBVIOUS
<1> DEFINE Unfold(f) == [b \in D |-> Body(f, b[1], b[2])]
<1> HIDE DEF Body
<1>10. \A f : \A l \in 1..(n + 1), r \in 0..n : Unfold(f)[<<l, r>>] = Body(f, l, r)
  BY Zenon
<1> DEFINE Works(f, k) ==
             \A l \in 1..(n + 1), r \in 0..n : r - l < k => f[<<l, r>>] = Body(f, l, r)
           Empty == [b \in D |-> NoBlock]
<1>11. \E f : Works(f, 0)
  <2>1. \A l \in 1..(n + 1), r \in 0..n : Empty[<<l, r>>] = NoBlock
    BY Zenon
  <2>2. \A l \in 1..(n + 1), r \in 0..n : r - l < 0 => l > r
    BY <1>2
  <2> HIDE DEF Empty
  <2>3. Works(Empty, 0)
    BY <1>7, <2>1, <2>2, Zenon
  <2> QED
    BY <2>3, Zenon
<1> HIDE DEF Unfold
<1>12. ASSUME NEW k \in Nat, NEW f, Works(f, k)
       PROVE  Works(Unfold(f), k + 1)
  <2> SUFFICES ASSUME NEW l \in 1..(n + 1), NEW r \in 0..n, r - l < k + 1
               PROVE  Body(f, l, r) = Body(Unfold(f), l, r)
    BY <1>10, Zenon
  <2>1. CASE l > r
    BY <1>7, <2>1, Zenon
  <2>2. CASE l <= r
    <3> DEFINE m == Mid(l, r)
    <3>1. /\ m + 1 \in 1..(n + 1) /\ r - (m + 1) < k
          /\ m - 1 \in 0..n /\ (m - 1) - l < k
      <4>1. /\ m \in l..r /\ m + 1 \in 1..(n + 1) /\ m - 1 \in 0..n
            /\ r - (m + 1) < r - l /\ (m - 1) - l < r - l
        BY <1>6, <2>2, Zenon
      <4> HIDE DEF m, n
      <4> QED
        BY <1>2, <1>12, <4>1
    <3>2. Unfold(f)[<<m + 1, r>>] = f[<<m + 1, r>>] /\ Unfold(f)[<<l, m - 1>>] = f[<<l, m - 1>>]
      BY <1>10, <1>12, <3>1, Zenon
    <3> QED
      BY <1>8, <3>2
  <2>3. l > r \/ l <= r
    BY <1>2
  <2> QED
    BY <2>1, <2>2, <2>3, Zenon
<1>13. \A k \in Nat : \E f : Works(f, k)
  <2> DEFINE T == {k \in Nat : ~(\E f : Works(f, k))}
  <2> SUFFICES ASSUME T # {}
               PROVE  FALSE
    BY Zenon
  <2> HIDE DEF Works
  <2>1. PICK k \in T : \A m \in T : k <= m
    <3>1. T \subseteq Nat
      BY Zenon
    <3> QED
      BY <3>1, LeastNatural, Zenon
  <2>2. k \in Nat /\ ~(\E f : Works(f, k))
    BY Zenon
  <2>3. k # 0
    BY <1>11, <2>2, Zenon
  <2>4. k - 1 \in Nat /\ (k - 1) + 1 = k /\ ~(k <= k - 1)
    BY <2>2, <2>3
  <2>5. PICK f : Works(f, k - 1)
    BY <2>1, <2>4, Zenon
  <2>6. Works(Unfold(f), k)
    BY <1>12, <2>4, <2>5, Zenon
  <2> QED
    BY <2>2, <2>6, Zenon
<1>14. \E f : f = Unfold(f)
  <2>1. PICK f : Works(f, n)
    BY <1>2, <1>13, Zenon
  <2>2. \A l \in 1..(n + 1), r \in 0..n : r - l < n
    BY <1>2
  <2>3. \A l \in 1..(n + 1), r \in 0..n : f[<<l, r>>] = Unfold(f)[<<l, r>>]
    BY <1>10, <2>1, <2>2, Zenon
  <2> DEFINE g == Unfold(f)
  <2>4. Works(g, n + 1)
    BY <1>2, <1>12, <2>1, Zenon
  <2>5. \A l \in 1..(n + 1), r \in 0..n : r - l < n + 1
    BY <1>2
  <2>6. \A l \in 1..(n + 1), r \in 0..n : g[<<l, r>>] = Body(g, l, r)
    BY <2>4, <2>5, Zenon
  <2>7. \A l \in 1..(n + 1), r \in 0..n : Body(f, l, r) = Body(g, l, r)
    BY <1>10, <2>6, Zenon
  <2>8. \A b \in D : Body(f, b[1], b[2]) = Body(g, b[1], b[2])
    BY <2>7
  <2>9. Unfold(f) = [b \in D |-> Body(g, b[1], b[2])]
    BY <2>8, Zenon DEF Unfold
  <2> QED
    BY <2>9, Zenon DEF Unfold
<1>15. \A l \in 1..(n + 1), r \in 0..n : search[<<l, r>>] = Body(search, l, r)
  <2>1. search = Unfold(search)
    BY <1>14, Zenon DEF Unfold
  <2> HIDE DEF search
  <2> QED
    BY <1>10, <2>1, Zenon
<1> HIDE DEF search
<1> DEFINE Right(x) == \/ \E i \in 1..n : Height(s[i]) = h /\ x = s[i]
                       \/ x = NoBlock /\ \A i \in 1..n : Height(s[i]) # h
           Between(l, r) == \A i \in 1..n : Height(s[i]) = h => l <= i /\ i <= r
           Correct(k) == \A l \in 1..(n + 1), r \in 0..n :
                           r - l < k /\ Between(l, r) => Right(search[<<l, r>>])
<1>16. \A k \in Nat : Correct(k)
  <2> DEFINE T == {k \in Nat : ~Correct(k)}
  <2> SUFFICES ASSUME T # {}
               PROVE  FALSE
    BY Zenon
  <2> HIDE DEF Correct
  <2>1. PICK k \in T : \A m \in T : k <= m
    <3>1. T \subseteq Nat
      BY Zenon
    <3> QED
      BY <3>1, LeastNatural, Zenon
  <2>2. k \in Nat /\ ~Correct(k)
    BY Zenon
  <2> SUFFICES ASSUME NEW l \in 1..(n + 1), NEW r \in 0..n, r - l < k, Between(l, r)
               PROVE  Right(search[<<l, r>>])
    BY <2>2, Zenon DEF Correct
  <2>3. CASE l > r
    <3>1. search[<<l, r>>] = NoBlock
      BY <1>7, <1>15, <2>3, Zenon
    <3>2. \A i \in 1..n : ~(l <= i /\ i <= r)
      BY <1>2, <2>3
    <3> QED
      BY <3>1, <3>2, Zenon
  <2>4. CASE l <= r
    <3>1. r - l \in Nat /\ ~(k <= r - l)
      BY <1>2, <2>2, <2>4
    <3>2. Correct(r - l)
      BY <2>1, <3>1, Zenon
    <3>3. \A a \in 1..(n + 1), b \in 0..n : b - a < r - l /\ Between(a, b) => Right(search[<<a, b>>])
      BY <3>2, Zenon DEF Correct
    <3> DEFINE m == Mid(l, r)
    <3>4. /\ m \in 1..n /\ m \in l..r
          /\ m + 1 \in 1..(n + 1) /\ r - (m + 1) < r - l
          /\ m - 1 \in 0..n /\ (m - 1) - l < r - l
      BY <1>6, <2>4, Zenon
    <3>5. ~(l > r)
      BY <1>2, <2>4
    <3>6. \/ At(l, r) = h /\ search[<<l, r>>] = s[m]
          \/ At(l, r) < h /\ search[<<l, r>>] = search[<<m + 1, r>>]
          \/ ~(At(l, r) = h) /\ ~(At(l, r) < h) /\ m = 1
          \/ ~(At(l, r) = h) /\ ~(At(l, r) < h) /\ search[<<l, r>>] = search[<<l, m - 1>>]
      BY <1>9, <1>15, <2>4, <3>5, Zenon
    <3> HIDE DEF Right, m
    <3>7. CASE At(l, r) = h /\ search[<<l, r>>] = s[m]
      BY <3>4, <3>7, Zenon DEF Right, m
    <3>8. CASE Height(s[m]) < h /\ search[<<l, r>>] = search[<<m + 1, r>>]
      <4>1. Between(m + 1, r)
        <5> SUFFICES ASSUME NEW i \in 1..n, Height(s[i]) = h
                     PROVE  m + 1 <= i /\ i <= r
          BY Zenon
        <5>1. ~(i <= m)
          BY <1>between, <3>4, <3>8, Zenon
        <5> QED
          BY <1>2, <3>4, <5>1
      <4> QED
        BY <3>3, <3>4, <3>8, <4>1, Zenon
    <3>9. CASE ~(Height(s[m]) = h) /\ ~(Height(s[m]) < h) /\ m = 1
      BY <1>2, <1>3, <1>5, <3>9
    <3>10. CASE ~(Height(s[m]) = h) /\ ~(Height(s[m]) < h) /\ search[<<l, r>>] = search[<<l, m - 1>>]
      <4>1. Between(l, m - 1)
        <5> SUFFICES ASSUME NEW i \in 1..n, Height(s[i]) = h
                     PROVE  l <= i /\ i <= m - 1
          BY Zenon
        <5>1. ~(m <= i)
          BY <1>between, <3>4, <3>10, Zenon
        <5> QED
          BY <1>2, <3>4, <5>1
      <4> QED
        BY <3>3, <3>4, <3>10, <4>1, Zenon
    <3> QED
      BY <3>6, <3>7, <3>8, <3>9, <3>10, Zenon DEF m
  <2>5. l > r \/ l <= r
    BY <1>2
  <2> QED
    BY <2>3, <2>4, <2>5, Zenon
<1>17. Right(search[<<1, n>>])
  <2>1. n \in Nat /\ 1 \in 1..(n + 1) /\ n \in 0..n /\ n - 1 < n /\ Between(1, n)
    BY <1>2
  <2> HIDE DEF Between, Right
  <2> QED
    BY <1>16, <2>1, Zenon
<1> QED
  BY <1>1, <1>17, Zenon

\* FindBlock: the block of the asked height, or nil when the cache has none.
LEMMA FindBlockIsRight ==
  ASSUME NEW c \in Caches, c.blocks # <<>>, Ascending(c.blocks), NEW h \in Int
  PROVE  LET found == FindBlock(c, h)
         IN  \/ \E i \in 1..Size(c) : Height(c.blocks[i]) = h /\ found = c.blocks[i]
             \/ found = NoBlock /\ \A i \in 1..Size(c) : Height(c.blocks[i]) # h
<1>1. CASE HeightOutOfRange(c, h)
  <2> DEFINE n         == Size(c)
             height(i) == Height(c.blocks[i])
  <2>1. n \in Nat /\ n >= 1 /\ First(c) = c.blocks[1] /\ Tip(c) = c.blocks[n]
    BY DEF Caches, Size, First, Tip
  <2>2. \A i \in 1..n : height(i) \in Nat
    <3>1. \A i \in 1..n : c.blocks[i] \in Block
      BY DEF Caches, Size
    <3>2. \A b \in Block : Len(b) \in Nat
      BY BlockIsPath
    <3> QED
      BY <3>1, <3>2 DEF Height
  <2>3. \A i \in 1..n, k \in 1..n : i < k => height(i) < height(k)
    BY Zenon DEF Ascending, Size
  <2>4. h < height(1) \/ height(n) < h
    BY <1>1, <2>1, Zenon DEF HeightOutOfRange
  <2>5. \A i \in 1..n : height(i) # h
    <3> HIDE DEF n, height
    <3> QED
      BY <2>1, <2>2, <2>3, <2>4
  <2> QED
    BY <1>1, <2>5, Zenon DEF FindBlock
<1>2. CASE ~HeightOutOfRange(c, h)
  BY <1>2, SearchBetweenFinds, Zenon DEF FindBlock
<1> QED
  BY <1>1, <1>2, Zenon

\* GetLastBlocks: the blocks from the asked height up, or all of them when no block has it.
LEMMA GetLastBlocksIsRight ==
  ASSUME NEW c \in Caches, c.blocks # <<>>, Ascending(c.blocks), NEW h \in Int
  PROVE  \E i \in 1..Size(c) :
           /\ GetLastBlocks(c, h) = SubSeq(c.blocks, i, Size(c))
           /\ IF \E k \in 1..Size(c) : Height(c.blocks[k]) = h
              THEN \A k \in 1..Size(c) : k >= i <=> Height(c.blocks[k]) >= h
              ELSE i = 1
<1> DEFINE n         == Size(c)
           height(k) == Height(c.blocks[k])
           hits      == {i \in 1..n : LastAtHeight(c, h, i)}
           j         == IF hits = {} THEN 1 ELSE CHOOSE i \in hits : TRUE
<1>1. n \in Nat /\ n >= 1
  BY DEF Caches, Size
<1>2. \A i \in 1..n : height(i) \in Nat
  <2>1. \A i \in 1..n : c.blocks[i] \in Block
    BY DEF Caches, Size
  <2>2. \A b \in Block : Len(b) \in Nat
    BY BlockIsPath
  <2> QED
    BY <2>1, <2>2 DEF Height
<1>3. \A i \in 1..n, k \in 1..n : i < k => height(i) < height(k)
  BY Zenon DEF Ascending, Size
<1>4. GetLastBlocks(c, h) = SubSeq(c.blocks, j, n)
  BY Zenon DEF GetLastBlocks
<1>5. \A i \in 1..n : LastAtHeight(c, h, i) <=> height(i) = h /\ \A k \in (i + 1)..n : height(k) # h
  BY Zenon DEF LastAtHeight
<1>6. \A i \in 1..n : height(i) = h => i \in hits
  <2> SUFFICES ASSUME NEW i \in 1..n, height(i) = h, NEW k \in (i + 1)..n
               PROVE  height(k) # h
    BY <1>5, Zenon
  <2> HIDE DEF n, height
  <2> QED
    BY <1>1, <1>2, <1>3
<1>7. CASE \E k \in 1..n : height(k) = h
  <2>1. j \in 1..n /\ height(j) = h
    BY <1>5, <1>6, <1>7, Zenon
  <2> HIDE DEF j, n, height
  <2>2. \A k \in 1..n : k >= j <=> height(k) >= h
    BY <1>1, <1>2, <1>3, <2>1
  <2> USE DEF n, height
  <2> QED
    BY <1>4, <1>7, <2>1, <2>2, Zenon
<1>8. CASE ~(\E k \in 1..n : height(k) = h)
  <2>1. j = 1
    BY <1>5, <1>8, Zenon
  <2> HIDE DEF j
  <2>2. 1 \in 1..n
    BY <1>1
  <2> QED
    BY <1>4, <1>8, <2>1, <2>2, Zenon
<1> QED
  BY <1>7, <1>8, Zenon
=============================================================================
