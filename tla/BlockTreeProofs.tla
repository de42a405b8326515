-------------------------- MODULE BlockTreeProofs ---------------------------
(***************************************************************************)
(* Facts about the tree of blocks, for every tree: ancestors, chains, and  *)
(* the work that grows along a chain.                                      *)
(***************************************************************************)
EXTENDS BlockTree, WellFoundedInduction, TLAPS

\* A block is a non-empty sequence, and the blocks below it are blocks.
LEMMA BlockIsPath ==
  ASSUME NEW b \in Block
  PROVE  /\ b \in Seq(Nat) /\ b # <<>> /\ Len(b) \in Nat /\ Len(b) >= 1
         /\ \A h \in 1..Len(b) : SubSeq(b, 1, h) \in Block
BY BlockAssumption DEF BlockAssumption

\* The parent of a block is one lower.
LEMMA ParentIsLower ==
  ASSUME NEW b \in Block
  PROVE  Len(Parent(b)) = Len(b) - 1
<1> DEFINE m == Len(b) - 1
<1>1. b \in Seq(Nat) /\ Len(b) \in Nat /\ Len(b) >= 1
  BY BlockIsPath
<1>2. m \in Nat /\ m <= Len(b)
  BY <1>1
<1> HIDE DEF m
<1>3. Len(SubSeq(b, 1, m)) = m
  BY <1>1, <1>2
<1> QED
  BY <1>3 DEF Parent, m

\* The block at height h of a chain is a block of that height.
LEMMA AncestorIsBlock ==
  ASSUME NEW b \in Block, NEW h \in 1..Len(b)
  PROVE  AncestorAt(b, h) \in Block /\ Len(AncestorAt(b, h)) = h
BY BlockIsPath DEF AncestorAt

\* A chain is the chain of its newest block.
LEMMA AncestorOfTop ==
  ASSUME NEW b \in Block
  PROVE  AncestorAt(b, Len(b)) = b
BY BlockIsPath DEF AncestorAt

\* The chain of an ancestor is the lower part of the chain.
LEMMA AncestorOfAncestor ==
  ASSUME NEW b \in Block, NEW h \in 1..Len(b), NEW g \in 1..h
  PROVE  AncestorAt(AncestorAt(b, h), g) = AncestorAt(b, g)
<1>1. b \in Seq(Nat) /\ Len(b) \in Nat
  BY BlockIsPath
<1> QED
  BY <1>1 DEF AncestorAt

\* The parent of the block at height h is the block at height h - 1.
LEMMA ParentOfAncestor ==
  ASSUME NEW b \in Block, NEW h \in 2..Len(b)
  PROVE  Parent(AncestorAt(b, h)) = AncestorAt(b, h - 1)
<1>1. b \in Seq(Nat) /\ Len(b) \in Nat
  BY BlockIsPath
<1> QED
  BY <1>1 DEF AncestorAt, Parent

\* A block on a chain is the chain's block at its height.
LEMMA OnChainIsAncestor ==
  ASSUME NEW a \in Block, NEW b \in Block
  PROVE  OnChain(a, b) <=> Len(a) \in 1..Len(b) /\ a = AncestorAt(b, Len(a))
<1>1. Len(a) \in Nat /\ Len(a) >= 1 /\ Len(b) \in Nat
  BY BlockIsPath
<1>2. OnChain(a, b) <=> Len(a) <= Len(b) /\ a = AncestorAt(b, Len(a))
  BY Zenon DEF OnChain, AncestorAt
<1> QED
  BY <1>1, <1>2

LEMMA OnChainReflexive ==
  ASSUME NEW b \in Block
  PROVE  OnChain(b, b)
BY BlockIsPath DEF OnChain

LEMMA AncestorIsOnChain ==
  ASSUME NEW b \in Block, NEW h \in 1..Len(b)
  PROVE  OnChain(AncestorAt(b, h), b)
BY AncestorIsBlock, OnChainIsAncestor

\* Of two blocks of one chain, the lower one is on the chain of the other.
LEMMA AncestorsAreOnChain ==
  ASSUME NEW b \in Block, NEW h \in 1..Len(b), NEW g \in 1..h
  PROVE  OnChain(AncestorAt(b, g), AncestorAt(b, h))
<1>1. Len(b) \in Nat /\ g \in 1..Len(b)
  BY BlockIsPath
<1>2. /\ AncestorAt(b, h) \in Block /\ Len(AncestorAt(b, h)) = h
      /\ AncestorAt(b, g) \in Block /\ Len(AncestorAt(b, g)) = g
  BY <1>1, AncestorIsBlock
<1> QED
  BY <1>2, AncestorOfAncestor, OnChainIsAncestor

LEMMA OnChainTransitive ==
  ASSUME NEW a \in Block, NEW b \in Block, NEW c \in Block, OnChain(a, b), OnChain(b, c)
  PROVE  OnChain(a, c)
<1>1. /\ Len(a) \in 1..Len(b) /\ a = AncestorAt(b, Len(a))
      /\ Len(b) \in 1..Len(c) /\ b = AncestorAt(c, Len(b))
  BY OnChainIsAncestor
<1>2. a = AncestorAt(c, Len(a))
  BY <1>1, AncestorOfAncestor
<1>3. Len(a) \in 1..Len(c)
  BY <1>1, BlockIsPath
<1> QED
  BY <1>2, <1>3, OnChainIsAncestor

-----------------------------------------------------------------------------
\* A non-empty set of natural numbers has a least element.
LEMMA LeastNatural ==
  ASSUME NEW T, T \subseteq Nat, T # {}
  PROVE  \E m \in T : \A k \in T : m <= k
<1> DEFINE Less == {pair \in Nat \X Nat : pair[1] < pair[2]}
<1>1. IsWellFoundedOn(Less, Nat)
  BY NatLessThanWellFounded, Zenon DEF OpToRel
<1>2. \A k \in Nat, m \in Nat : <<k, m>> \in Less <=> k < m
  OBVIOUS
<1> HIDE DEF Less
<1>3. PICK m \in T : \A k \in T : ~(<<k, m>> \in Less)
  BY <1>1, WFMin, Zenon
<1>4. m \in Nat /\ \A k \in T : k \in Nat /\ ~(k < m)
  BY <1>2, <1>3, Zenon
<1>5. \A k \in T : m <= k
  BY <1>4
<1> QED
  BY <1>5, Zenon

(***************************************************************************)
(* WorkAssumption speaks of a block and its parent; by induction on the    *)
(* height, a block has more work than any other block below it.            *)
(***************************************************************************)
LEMMA WorkGrows ==
  ASSUME NEW a \in Block, NEW b \in Block, OnChain(a, b), a # b
  PROVE  ChainWork[a] < ChainWork[b]
<1> DEFINE n == Len(a)
           m == Len(b)
           T == {h \in Nat : n < h /\ h <= m /\ ~(ChainWork[a] < ChainWork[AncestorAt(b, h)])}
<1>1. n \in 1..m /\ a = AncestorAt(b, n) /\ m \in Nat
  BY OnChainIsAncestor, BlockIsPath
<1>2. n # m
  BY <1>1, AncestorOfTop
<1>3. T = {}
  <2> SUFFICES ASSUME T # {}
               PROVE  FALSE
    OBVIOUS
  <2>1. PICK h \in T : \A k \in T : h <= k
    <3>1. T \subseteq Nat
      OBVIOUS
    <3> QED
      BY <3>1, LeastNatural, Zenon
  <2>2. h \in Nat /\ n < h /\ h <= m /\ ~(ChainWork[a] < ChainWork[AncestorAt(b, h)])
    OBVIOUS
  <2> DEFINE c == AncestorAt(b, h)
             p == AncestorAt(b, h - 1)
  <2> HIDE DEF n, m
  <2>3. h \in 2..m /\ h \in 1..m /\ h - 1 \in 1..m
    BY <1>1, <2>2
  <2>4. c \in Block /\ Len(c) = h /\ p \in Block /\ Parent(c) = p
    BY <2>3, AncestorIsBlock, ParentOfAncestor DEF m
  <2>5. ChainWork[c] > ChainWork[p]
    BY <2>3, <2>4, WorkAssumption DEF WorkAssumption
  <2>6. ChainWork[c] \in Nat /\ ChainWork[p] \in Nat /\ ChainWork[a] \in Nat
    BY <2>4, WorkAssumption DEF WorkAssumption
  <2>7. ChainWork[a] <= ChainWork[p]
    <3>1. CASE h - 1 = n
      BY <1>1, <2>6, <3>1
    <3>2. CASE h - 1 # n
      <4>1. h - 1 \in Nat /\ n < h - 1 /\ h - 1 <= m /\ ~(h <= h - 1)
        BY <1>1, <2>2, <3>2
      <4>2. h - 1 \notin T
        BY <2>1, <4>1
      <4> QED
        BY <2>6, <4>1, <4>2
    <3> QED
      BY <3>1, <3>2
  <2> QED
    BY <2>2, <2>5, <2>6, <2>7
<1>4. AncestorAt(b, m) = b
  BY AncestorOfTop
<1> QED
  BY <1>1, <1>2, <1>3, <1>4

(***************************************************************************)
(* What some theorems assume of the tree: heavier chains are not lower, as *)
(* when every block adds the same work.                                    *)
(***************************************************************************)
HeavierIsHigher == \A b, c \in Block : ChainWork[b] > ChainWork[c] => Height(b) >= Height(c)

\* IsChain speaks of neighbours; by induction each block is below the last one.
LEMMA ChainIsBelowLast ==
  ASSUME NEW s \in Seq(Block), IsChain(s), NEW i \in 1..Len(s)
  PROVE  OnChain(s[i], s[Len(s)])
<1> DEFINE n == Len(s)
           T == {k \in Nat : k < n /\ ~OnChain(s[n - k], s[n])}
<1>1. n \in Nat /\ n >= 1 /\ i \in 1..n
  OBVIOUS
<1>2. \A k \in 1..n : s[k] \in Block
  OBVIOUS
<1>3. T = {}
  <2> SUFFICES ASSUME T # {}
               PROVE  FALSE
    OBVIOUS
  <2>1. PICK k \in T : \A m \in T : k <= m
    <3>1. T \subseteq Nat
      OBVIOUS
    <3> QED
      BY <3>1, LeastNatural, Zenon
  <2>2. k \in Nat /\ k < n /\ ~OnChain(s[n - k], s[n])
    OBVIOUS
  <2> HIDE DEF n
  <2>3. k # 0
    <3>1. n - 0 = n /\ n \in 1..n
      BY <1>1
    <3> QED
      BY <1>2, <2>2, <3>1, OnChainReflexive
  <2>4. /\ k - 1 \in Nat /\ k - 1 < n /\ ~(k <= k - 1)
        /\ n - k \in 1..(n - 1) /\ n - k \in 1..n /\ n - (k - 1) \in 1..n /\ n \in 1..n
        /\ n - k + 1 = n - (k - 1)
    BY <1>1, <2>2, <2>3
  <2>5. OnChain(s[n - (k - 1)], s[n])
    BY <2>1, <2>4
  <2>6. Parent(s[n - (k - 1)]) = s[n - k]
    BY <2>4 DEF IsChain, n
  <2>7. OnChain(s[n - k], s[n - (k - 1)])
    <3> DEFINE b == s[n - (k - 1)]
    <3>1. b \in Block /\ Parent(b) \in Block
      BY <1>2, <2>4, <2>6
    <3> HIDE DEF b
    <3>2. Len(b) \in Nat /\ Len(Parent(b)) = Len(b) - 1 /\ Len(Parent(b)) >= 1
      BY <3>1, BlockIsPath, ParentIsLower
    <3>3. Len(b) - 1 \in 1..Len(b) /\ Parent(b) = AncestorAt(b, Len(b) - 1)
      BY <3>2 DEF Parent, AncestorAt
    <3>4. OnChain(Parent(b), b)
      BY <3>1, <3>3, AncestorIsOnChain
    <3> QED
      BY <2>6, <3>4 DEF b
  <2>8. s[n - k] \in Block /\ s[n - (k - 1)] \in Block /\ s[n] \in Block
    BY <1>2, <2>4
  <2> QED
    BY <2>2, <2>5, <2>7, <2>8, OnChainTransitive
<1>4. n - i \in Nat /\ n - i < n /\ n - (n - i) = i
  BY <1>1
<1>5. n - i \notin T
  BY <1>3
<1> QED
  BY <1>4, <1>5

-----------------------------------------------------------------------------
\* Each block of a chain is one higher than the one before.
LEMMA ChainHeights ==
  ASSUME NEW s \in Seq(Block), IsChain(s), NEW i \in 1..Len(s)
  PROVE  Height(s[i]) = Height(s[Len(s)]) - (Len(s) - i)
<1> DEFINE n    == Len(s)
           h(k) == Height(s[k])
           T    == {k \in Nat : k < n /\ h(n - k) # h(n) - k}
<1>1. n \in Nat /\ n >= 1 /\ i \in 1..n
  OBVIOUS
<1>2. \A k \in 1..n : h(k) \in Nat
  BY BlockIsPath DEF Height
<1>3. \A k \in 1..(n - 1) : h(k) = h(k + 1) - 1
  <2> TAKE k \in 1..(n - 1)
  <2>1. k + 1 \in 1..n
    BY <1>1
  <2>2. s[k + 1] \in Block /\ Parent(s[k + 1]) = s[k]
    BY <2>1 DEF IsChain
  <2> QED
    BY <2>2, ParentIsLower DEF Height
<1> HIDE DEF n, h
<1>4. T = {}
  <2> SUFFICES ASSUME T # {}
               PROVE  FALSE
    OBVIOUS
  <2>1. PICK k \in T : \A m \in T : k <= m
    <3>1. T \subseteq Nat
      OBVIOUS
    <3> QED
      BY <3>1, LeastNatural, Zenon
  <2>2. k \in Nat /\ k < n /\ h(n - k) # h(n) - k
    OBVIOUS
  <2>3. k # 0
    <3>1. n - 0 = n /\ h(n) \in Nat
      BY <1>1, <1>2
    <3> QED
      BY <2>2, <3>1
  <2>4. /\ k - 1 \in Nat /\ k - 1 < n /\ ~(k <= k - 1)
        /\ n - k \in 1..(n - 1) /\ n - k + 1 = n - (k - 1)
    BY <1>1, <2>2, <2>3
  <2>5. h(n - (k - 1)) = h(n) - (k - 1)
    BY <2>1, <2>4
  <2>6. h(n - k) = h(n - (k - 1)) - 1
    BY <1>3, <2>4
  <2>7. h(n) \in Nat
    BY <1>1, <1>2
  <2> QED
    BY <2>2, <2>5, <2>6, <2>7
<1>5. n - i \in Nat /\ n - i < n /\ n - (n - i) = i
  BY <1>1
<1>6. n - i \notin T
  BY <1>4
<1>7. h(i) = h(n) - (n - i)
  BY <1>5, <1>6
<1> QED
  BY <1>7 DEF h, n

\* The stretch of a chain from one height to another, and its two ends.
LEMMA SegmentOfBlocks ==
  ASSUME NEW t \in Block, NEW hi \in 1..Len(t), NEW lo \in 1..hi
  PROVE  LET s == ChainSegment(t, lo, hi)
         IN  /\ s \in Seq(Block) /\ Len(s) = hi - lo + 1
             /\ \A i \in 1..Len(s) : s[i] = AncestorAt(t, lo + i - 1)
             /\ s[1] = AncestorAt(t, lo) /\ s[Len(s)] = AncestorAt(t, hi)
<1> DEFINE s == ChainSegment(t, lo, hi)
           n == hi - lo + 1
<1>1. Len(t) \in Nat /\ n \in Nat /\ n >= 1
  BY BlockIsPath
<1>2. \A i \in 1..n : lo + i - 1 \in 1..Len(t)
  BY <1>1
<1>3. \A i \in 1..n : AncestorAt(t, lo + i - 1) \in Block
  BY <1>2, AncestorIsBlock
<1>4. s = [i \in 1..n |-> AncestorAt(t, lo + i - 1)]
  BY DEF ChainSegment, AncestorAt
<1> HIDE DEF n
<1>5. s \in Seq(Block) /\ Len(s) = n /\ \A i \in 1..n : s[i] = AncestorAt(t, lo + i - 1)
  BY <1>1, <1>3, <1>4
<1>6. s[1] = AncestorAt(t, lo) /\ s[n] = AncestorAt(t, hi)
  <2>1. lo + 1 - 1 = lo /\ lo + n - 1 = hi /\ 1 \in 1..n /\ n \in 1..n
    BY <1>1 DEF n
  <2> QED
    BY <1>5, <2>1
<1> QED
  BY <1>5, <1>6 DEF n

\* A stretch of a chain is a stretch of the chain that ends where it does.
LEMMA SegmentOfAncestor ==
  ASSUME NEW t \in Block, NEW hi \in 1..Len(t), NEW lo \in 1..hi
  PROVE  ChainSegment(t, lo, hi) = ChainSegment(AncestorAt(t, hi), lo, hi)
<1>1. Len(t) \in Nat
  BY BlockIsPath
<1>2. \A i \in 1..(hi - lo + 1) :
        SubSeq(t, 1, lo + i - 1) = SubSeq(AncestorAt(t, hi), 1, lo + i - 1)
  <2> SUFFICES ASSUME NEW i \in 1..(hi - lo + 1)
               PROVE  SubSeq(t, 1, lo + i - 1) = SubSeq(AncestorAt(t, hi), 1, lo + i - 1)
    OBVIOUS
  <2>1. lo + i - 1 \in 1..hi
    OBVIOUS
  <2> QED
    BY <2>1, AncestorOfAncestor DEF AncestorAt
<1> QED
  BY <1>2 DEF ChainSegment

\* A header's work is a natural number: work grows along a chain.
LEMMA HeaderWorkIsNat ==
  ASSUME NEW b \in Block
  PROVE  HeaderWork(b) \in Nat
<1>1. ChainWork[b] \in Nat
  BY WorkAssumption DEF WorkAssumption
<1>2. CASE Len(b) = 1
  BY <1>1, <1>2 DEF HeaderWork
<1>3. CASE Len(b) # 1
  <2> DEFINE n == Len(b)
  <2>1. n \in Nat /\ n >= 1 /\ n # 1
    BY <1>3, BlockIsPath
  <2> HIDE DEF n
  <2>2. n > 1 /\ n - 1 \in 1..n
    BY <2>1
  <2>3. Parent(b) \in Block
    BY <2>2, BlockIsPath DEF Parent, n
  <2>4. ChainWork[Parent(b)] \in Nat /\ ChainWork[b] > ChainWork[Parent(b)]
    BY <2>2, <2>3, WorkAssumption DEF WorkAssumption, n
  <2> QED
    BY <1>1, <1>3, <2>4 DEF HeaderWork
<1> QED
  BY <1>2, <1>3

\* A stretch of a list of blocks is a list of blocks.
LEMMA SubSeqOfBlocks ==
  ASSUME NEW s \in Seq(Block), NEW lo \in 1..(Len(s) + 1), NEW hi \in 0..Len(s)
  PROVE  SubSeq(s, lo, hi) \in Seq(Block)
OBVIOUS

\* A stretch of a chain is a chain.
LEMMA SubSeqOfChain ==
  ASSUME NEW s \in Seq(Block), IsChain(s),
         NEW lo \in 1..(Len(s) + 1), NEW hi \in 0..Len(s)
  PROVE  IsChain(SubSeq(s, lo, hi))
<1> DEFINE t == SubSeq(s, lo, hi)
<1> SUFFICES ASSUME NEW i \in 1..(Len(t) - 1)
             PROVE  Parent(t[i + 1]) = t[i]
  BY DEF IsChain
<1>1. /\ Len(t) = IF lo <= hi THEN hi - lo + 1 ELSE 0
      /\ \A k \in 1..Len(t) : t[k] = s[lo + k - 1]
  OBVIOUS
<1>2. lo + i - 1 \in 1..(Len(s) - 1)
  BY <1>1
<1>3. Parent(s[lo + i - 1 + 1]) = s[lo + i - 1]
  BY <1>2 DEF IsChain
<1>4. t[i] = s[lo + i - 1] /\ t[i + 1] = s[lo + i - 1 + 1]
  BY <1>1
<1> QED
  BY <1>3, <1>4

\* What FindTailBlocksByHeight returns: blocks of one chain, parent after parent.
LEMMA SegmentIsChain ==
  ASSUME NEW tip \in Block, NEW lo \in Nat \ {0}, lo <= Len(tip)
  PROVE  /\ ChainSegment(tip, lo, Len(tip)) \in Seq(Block)
         /\ Len(ChainSegment(tip, lo, Len(tip))) = Len(tip) - lo + 1
         /\ IsChain(ChainSegment(tip, lo, Len(tip)))
<1> DEFINE n == Len(tip) - lo + 1
           s == ChainSegment(tip, lo, Len(tip))
<1>1. Len(tip) \in Nat /\ tip \in Seq(Nat) /\ n \in Nat
  BY BlockIsPath
<1>2. \A i \in 1..n : SubSeq(tip, 1, lo + i - 1) \in Block
  BY <1>1, BlockIsPath
<1>3. s \in Seq(Block) /\ Len(s) = n
  BY <1>1, <1>2 DEF ChainSegment
<1>4. ASSUME NEW i \in 1..(n - 1)
      PROVE  Parent(s[i + 1]) = s[i]
  <2>1. s[i + 1] = SubSeq(tip, 1, lo + i) /\ s[i] = SubSeq(tip, 1, lo + i - 1)
    BY <1>1 DEF ChainSegment
  <2>2. lo + i \in 1..Len(tip)
    BY <1>1
  <2>3. Len(SubSeq(tip, 1, lo + i)) = lo + i
    BY <1>1, <2>2
  <2>4. SubSeq(SubSeq(tip, 1, lo + i), 1, lo + i - 1) = SubSeq(tip, 1, lo + i - 1)
    BY <1>1, <2>2
  <2> QED
    BY <2>1, <2>3, <2>4 DEF Parent
<1> QED
  BY <1>3, <1>4 DEF IsChain
=============================================================================
