-------------------------- MODULE CacheMachineProofs --------------------------
(***************************************************************************)
(* The properties of CacheMachine, for every tree of blocks, every set of  *)
(* capacities and every set of fillings.                                   *)
(***************************************************************************)
EXTENDS CacheMachine, BTCCacheProofs

-----------------------------------------------------------------------------
(***************************************************************************)
(* The newest n blocks of a list, and what the methods of the cache make   *)
(* of them.                                                                *)
(***************************************************************************)
Newest(s, n) == SubSeq(s, Len(s) - n + 1, Len(s))

LEMMA NewestIs ==
  ASSUME NEW s \in Seq(Block), NEW n \in 0..Len(s)
  PROVE  /\ Newest(s, n) \in Seq(Block) /\ Len(Newest(s, n)) = n
         /\ \A i \in 1..n : Newest(s, n)[i] = s[Len(s) - n + i]
<1> DEFINE m == Len(s)
<1>1. m \in Nat /\ n \in 0..m
  OBVIOUS
<1> HIDE DEF m
<1>2. m - n + 1 \in 1..(m + 1) /\ m \in 0..m /\ m - (m - n + 1) + 1 = n
  BY <1>1
<1>3. /\ Newest(s, n) \in Seq(Block)
      /\ Len(Newest(s, n)) = IF m - n + 1 <= m THEN m - (m - n + 1) + 1 ELSE 0
      /\ \A i \in 1..Len(Newest(s, n)) : Newest(s, n)[i] = s[m - n + 1 + i - 1]
  BY <1>2 DEF m, Newest
<1>4. Len(Newest(s, n)) = n
  BY <1>1, <1>3
<1>5. \A i \in 1..n : m - n + 1 + i - 1 = m - n + i
  BY <1>1
<1> QED
  BY <1>3, <1>4, <1>5 DEF m

\* Two lists of blocks with the same elements are the same.
LEMMA SameBlocks ==
  ASSUME NEW s \in Seq(Block), NEW t \in Seq(Block), Len(s) = Len(t),
         \A i \in 1..Len(s) : s[i] = t[i]
  PROVE  s = t
OBVIOUS

\* The newest m of the newest n blocks: what Trim and TrimConfirmedBlocks keep.
LEMMA NewestOfNewest ==
  ASSUME NEW s \in Seq(Block), NEW n \in 0..Len(s), NEW m \in 0..n
  PROVE  Newest(Newest(s, n), m) = Newest(s, m)
<1>1. Len(s) \in Nat /\ m \in 0..Len(s)
  OBVIOUS
<1>2. /\ Newest(s, n) \in Seq(Block) /\ Len(Newest(s, n)) = n
      /\ \A i \in 1..n : Newest(s, n)[i] = s[Len(s) - n + i]
  BY NewestIs
<1>3. /\ Newest(s, m) \in Seq(Block) /\ Len(Newest(s, m)) = m
      /\ \A i \in 1..m : Newest(s, m)[i] = s[Len(s) - m + i]
  BY <1>1, NewestIs
<1>4. /\ Newest(Newest(s, n), m) \in Seq(Block) /\ Len(Newest(Newest(s, n), m)) = m
      /\ \A i \in 1..m : Newest(Newest(s, n), m)[i] = Newest(s, n)[n - m + i]
  <2> DEFINE t == Newest(s, n)
  <2> HIDE DEF t
  <2>1. t \in Seq(Block) /\ Len(t) = n /\ m \in 0..Len(t)
    BY <1>2 DEF t
  <2>2. /\ Newest(t, m) \in Seq(Block) /\ Len(Newest(t, m)) = m
        /\ \A i \in 1..m : Newest(t, m)[i] = t[n - m + i]
    BY <2>1, NewestIs
  <2> QED
    BY <2>2 DEF t
<1>5. \A i \in 1..m : n - m + i \in 1..n /\ Len(s) - n + (n - m + i) = Len(s) - m + i
  BY <1>1
<1>6. \A i \in 1..m : Newest(Newest(s, n), m)[i] = Newest(s, m)[i]
  BY <1>2, <1>3, <1>4, <1>5
<1> QED
  BY <1>3, <1>4, <1>6, SameBlocks

\* Add below the capacity.
LEMMA NewestOfAppend ==
  ASSUME NEW s \in Seq(Block), NEW n \in 0..Len(s), NEW b \in Block
  PROVE  Append(Newest(s, n), b) = Newest(Append(s, b), n + 1)
<1> DEFINE t == Append(s, b)
<1>1. /\ t \in Seq(Block) /\ Len(t) = Len(s) + 1 /\ Len(s) \in Nat /\ t[Len(s) + 1] = b
      /\ \A i \in 1..Len(s) : t[i] = s[i]
  OBVIOUS
<1>2. /\ Newest(s, n) \in Seq(Block) /\ Len(Newest(s, n)) = n
      /\ \A i \in 1..n : Newest(s, n)[i] = s[Len(s) - n + i]
  BY NewestIs
<1> HIDE DEF t
<1>3. /\ Newest(t, n + 1) \in Seq(Block) /\ Len(Newest(t, n + 1)) = n + 1
      /\ \A i \in 1..(n + 1) : Newest(t, n + 1)[i] = t[Len(t) - (n + 1) + i]
  <2>1. n + 1 \in 0..Len(t)
    BY <1>1
  <2> QED
    BY <1>1, <2>1, NewestIs
<1> DEFINE a == Append(Newest(s, n), b)
<1>4. /\ a \in Seq(Block) /\ Len(a) = n + 1 /\ a[n + 1] = b
      /\ \A i \in 1..n : a[i] = Newest(s, n)[i]
  BY <1>2
<1> HIDE DEF a
<1>5. ASSUME NEW i \in 1..(n + 1)
      PROVE  a[i] = Newest(t, n + 1)[i]
  <2>1. Len(t) - (n + 1) + i = Len(s) - n + i
    BY <1>1
  <2>2. CASE i = n + 1
    <3>1. Len(s) - n + i = Len(s) + 1
      BY <1>1, <2>2
    <3> QED
      BY <1>1, <1>3, <1>4, <2>1, <2>2, <3>1
  <2>3. CASE i # n + 1
    <3>1. i \in 1..n /\ Len(s) - n + i \in 1..Len(s)
      BY <1>1, <2>3
    <3> QED
      BY <1>1, <1>2, <1>3, <1>4, <2>1, <3>1
  <2> QED
    BY <2>2, <2>3
<1>6. a = Newest(t, n + 1)
  BY <1>3, <1>4, <1>5, SameBlocks
<1> QED
  BY <1>6 DEF a, t

\* Add on a full cache drops the oldest block.
LEMMA TailOfNewest ==
  ASSUME NEW s \in Seq(Block), NEW n \in 1..Len(s)
  PROVE  Tail(Newest(s, n)) = Newest(s, n - 1)
<1>1. n \in 0..Len(s) /\ n - 1 \in 0..n
  OBVIOUS
<1>2. Newest(s, n) \in Seq(Block) /\ Len(Newest(s, n)) = n
  BY <1>1, NewestIs
<1>3. Tail(Newest(s, n)) = Newest(Newest(s, n), n - 1)
  <2>1. n - (n - 1) + 1 = 2
    OBVIOUS
  <2> DEFINE t == Newest(s, n)
  <2> HIDE DEF t
  <2>2. Tail(t) = SubSeq(t, 2, Len(t))
    BY <1>2 DEF t
  <2> QED
    BY <1>2, <2>1, <2>2 DEF t, Newest
<1> QED
  BY <1>1, <1>3, NewestOfNewest

\* RemoveLast takes the tip off the list and off the cache.
LEMMA NewestWithoutLast ==
  ASSUME NEW s \in Seq(Block), NEW n \in 1..Len(s)
  PROVE  SubSeq(Newest(s, n), 1, n - 1) = Newest(SubSeq(s, 1, Len(s) - 1), n - 1)
<1> DEFINE t == SubSeq(s, 1, Len(s) - 1)
<1>1. /\ Len(s) \in Nat /\ n \in 0..Len(s) /\ n - 1 \in 0..(Len(s) - 1)
      /\ t \in Seq(Block) /\ Len(t) = Len(s) - 1 /\ \A i \in 1..(Len(s) - 1) : t[i] = s[i]
  OBVIOUS
<1>2. /\ Newest(s, n) \in Seq(Block) /\ Len(Newest(s, n)) = n
      /\ \A i \in 1..n : Newest(s, n)[i] = s[Len(s) - n + i]
  BY <1>1, NewestIs
<1> HIDE DEF t
<1>3. /\ Newest(t, n - 1) \in Seq(Block) /\ Len(Newest(t, n - 1)) = n - 1
      /\ \A i \in 1..(n - 1) : Newest(t, n - 1)[i] = t[Len(t) - (n - 1) + i]
  BY <1>1, NewestIs
<1> DEFINE a == SubSeq(Newest(s, n), 1, n - 1)
<1>4. /\ a \in Seq(Block) /\ Len(a) = n - 1 /\ \A i \in 1..(n - 1) : a[i] = Newest(s, n)[i]
  BY <1>1, <1>2
<1> HIDE DEF a
<1>5. \A i \in 1..(n - 1) :
        /\ Len(t) - (n - 1) + i = Len(s) - n + i
        /\ Len(s) - n + i \in 1..(Len(s) - 1) /\ i \in 1..n
  BY <1>1
<1>6. \A i \in 1..(n - 1) : a[i] = Newest(t, n - 1)[i]
  BY <1>1, <1>2, <1>3, <1>4, <1>5
<1>7. a = Newest(t, n - 1)
  BY <1>3, <1>4, <1>6, SameBlocks
<1> QED
  BY <1>7 DEF a, t

-----------------------------------------------------------------------------
(***************************************************************************)
(* The inductive invariant: the cache holds the newest blocks of the chain *)
(* and the heights of the chain ascend.  The second part is what makes the *)
(* searches right; it needs the first one, as AddBlock extends the tip of  *)
(* the cache and not that of the chain.                                    *)
(***************************************************************************)
IInv ==
  /\ TypeOK
  /\ WindowOfChain
  /\ Ascending(chain)

\* TypeOK and WindowOfChain together, of any cache and list of blocks.
Window(c, ch) ==
  /\ ch \in Seq(Block)
  /\ \E n \in 0..Len(ch), k \in Sizes : c = [blocks |-> Newest(ch, n), maxEntries |-> k]

LEMMA WindowIs ==
  ASSUME NEW c, NEW ch
  PROVE  Window(c, ch) <=>
           /\ c \in [blocks : Seq(Block), maxEntries : Sizes] /\ ch \in Seq(Block)
           /\ Size(c) <= Len(ch) /\ c.blocks = SubSeq(ch, Len(ch) - Size(c) + 1, Len(ch))
<1> DEFINE L == /\ c \in [blocks : Seq(Block), maxEntries : Sizes] /\ ch \in Seq(Block)
                /\ Size(c) <= Len(ch) /\ c.blocks = SubSeq(ch, Len(ch) - Size(c) + 1, Len(ch))
<1>1. ASSUME L
      PROVE  Window(c, ch)
  <2>1. Size(c) \in 0..Len(ch) /\ c.maxEntries \in Sizes /\ c.blocks = Newest(ch, Size(c))
    BY <1>1 DEF Newest, Size
  <2>2. c = [blocks |-> Newest(ch, Size(c)), maxEntries |-> c.maxEntries]
    BY <1>1, <2>1
  <2> QED
    BY <1>1, <2>1, <2>2 DEF Window
<1>2. ASSUME Window(c, ch)
      PROVE  L
  <2>1. PICK n \in 0..Len(ch), k \in Sizes : c = [blocks |-> Newest(ch, n), maxEntries |-> k]
    BY <1>2 DEF Window
  <2>2. c.blocks = Newest(ch, n) /\ c.maxEntries = k
    BY <2>1
  <2>3. ch \in Seq(Block) /\ Newest(ch, n) \in Seq(Block) /\ Len(Newest(ch, n)) = n /\ n <= Len(ch)
    BY <1>2, NewestIs DEF Window
  <2> QED
    BY <2>1, <2>2, <2>3 DEF Newest, Size
<1> QED
  BY <1>1, <1>2, Zenon

LEMMA IInvIs == IInv <=> Window(cache, chain) /\ Ascending(chain)
BY WindowIs DEF IInv, TypeOK, WindowOfChain

LEMMA IInvIsNext == IInv' <=> Window(cache', chain') /\ Ascending(chain')
<1>1. TypeOK' /\ WindowOfChain' <=>
        /\ cache' \in [blocks : Seq(Block), maxEntries : Sizes] /\ chain' \in Seq(Block)
        /\ Size(cache') <= Len(chain')
        /\ cache'.blocks = SubSeq(chain', Len(chain') - Size(cache') + 1, Len(chain'))
  BY DEF TypeOK, WindowOfChain, Size
<1>2. Ascending(chain)' <=> Ascending(chain')
  BY DEF Ascending, Height
<1> QED
  BY <1>1, <1>2, WindowIs DEF IInv

-----------------------------------------------------------------------------
(***************************************************************************)
(* What each method makes of a window.                                     *)
(***************************************************************************)

\* Init on an empty cache: every block fits.
LEMMA InitKeepsWindow ==
  ASSUME NEW k \in Sizes, NEW c, c = [blocks |-> <<>>, maxEntries |-> k],
         NEW ibs \in Seq(Block), ~TooManyEntries(c, ibs)
  PROVE  Window(AddAll(c, ibs), ibs)
<1> DEFINE m    == Len(ibs)
           keep == IF m > k THEN k ELSE m
<1>1. c.blocks = <<>> /\ c.maxEntries = k /\ <<>> \o ibs = ibs /\ m \in Nat /\ k \in Nat
  BY CacheAssumption DEF CacheAssumption
<1>2. keep = m
  BY <1>1 DEF TooManyEntries
<1>3. AddAll(c, ibs) = [c EXCEPT !.blocks = SubSeq(ibs, m - keep + 1, m)]
  BY <1>1, Zenon DEF AddAll
<1>4. AddAll(c, ibs) = [blocks |-> Newest(ibs, m), maxEntries |-> k]
  BY <1>2, <1>3 DEF Newest
<1>5. m \in 0..Len(ibs)
  BY <1>1
<1> QED
  BY <1>4, <1>5, Zenon DEF Window

LEMMA AddKeepsWindow ==
  ASSUME NEW ch \in Seq(Block), NEW n \in 0..Len(ch), NEW k \in Sizes, NEW c,
         c = [blocks |-> Newest(ch, n), maxEntries |-> k], c.blocks # <<>>, NEW ib \in Block
  PROVE  Window(Add(c, ib), Append(ch, ib))
<1> DEFINE t == Append(ch, ib)
<1>1. c.blocks = Newest(ch, n) /\ c.maxEntries = k
  OBVIOUS
<1>2. Newest(ch, n) \in Seq(Block) /\ Len(Newest(ch, n)) = n
  BY NewestIs
<1>3. /\ t \in Seq(Block) /\ Len(ch) \in Nat /\ Len(t) = Len(ch) + 1
      /\ n \in 1..Len(ch) /\ n \in 0..Len(t) /\ n + 1 \in 0..Len(t)
      /\ n - 1 \in 0..Len(ch) /\ (n - 1) + 1 = n
  BY <1>1, <1>2
<1>4. CASE Size(c) = k
  <2>1. Add(c, ib) = [c EXCEPT !.blocks = Append(Tail(Newest(ch, n)), ib)]
    BY <1>1, <1>4 DEF Add
  <2>2. Append(Tail(Newest(ch, n)), ib) = Newest(t, n)
    BY <1>3, TailOfNewest, NewestOfAppend
  <2>3. Add(c, ib) = [blocks |-> Newest(t, n), maxEntries |-> k]
    BY <2>1, <2>2
  <2> QED
    BY <1>3, <2>3, Zenon DEF Window
<1>5. CASE Size(c) # k
  <2>1. Add(c, ib) = [c EXCEPT !.blocks = Append(Newest(ch, n), ib)]
    BY <1>1, <1>5 DEF Add
  <2>2. Add(c, ib) = [blocks |-> Newest(t, n + 1), maxEntries |-> k]
    BY <2>1, NewestOfAppend
  <2> QED
    BY <1>3, <2>2, Zenon DEF Window
<1> QED
  BY <1>4, <1>5

LEMMA RemoveLastKeepsWindow ==
  ASSUME NEW ch \in Seq(Block), NEW n \in 0..Len(ch), NEW k \in Sizes, NEW c,
         c = [blocks |-> Newest(ch, n), maxEntries |-> k], c.blocks # <<>>
  PROVE  Window(RemoveLast(c), SubSeq(ch, 1, Len(ch) - 1))
<1> DEFINE t == SubSeq(ch, 1, Len(ch) - 1)
<1>1. c.blocks = Newest(ch, n) /\ c.maxEntries = k
  OBVIOUS
<1>2. Newest(ch, n) \in Seq(Block) /\ Len(Newest(ch, n)) = n
  BY NewestIs
<1>3. n \in 1..Len(ch)
  BY <1>1, <1>2
<1>4. t \in Seq(Block) /\ n - 1 \in 0..Len(t)
  BY <1>3
<1>5. RemoveLast(c) = [c EXCEPT !.blocks = SubSeq(Newest(ch, n), 1, n - 1)]
  BY <1>1, <1>2 DEF RemoveLast
<1>6. RemoveLast(c) = [blocks |-> Newest(t, n - 1), maxEntries |-> k]
  BY <1>3, <1>5, NewestWithoutLast
<1> QED
  BY <1>4, <1>6, Zenon DEF Window

\* Trim and TrimConfirmedBlocks keep the newest blocks, at most m of them.
LEMMA TrimKeepsWindow ==
  ASSUME NEW ch \in Seq(Block), NEW n \in 0..Len(ch), NEW k \in Sizes, NEW m \in Sizes, NEW c,
         c = [blocks |-> Newest(ch, n), maxEntries |-> k]
  PROVE  /\ Window(Trim(c), ch) /\ Size(Trim(c)) <= k /\ Trim(c).maxEntries = k
         /\ Window(TrimConfirmedBlocks(c, m), ch)
<1>1. c.blocks = Newest(ch, n) /\ c.maxEntries = k /\ k \in Nat /\ m \in Nat
  BY CacheAssumption DEF CacheAssumption
<1>2. Newest(ch, n) \in Seq(Block) /\ Len(Newest(ch, n)) = n /\ Size(c) = n
  BY <1>1, NewestIs DEF Size
<1>3. \A j \in 0..n : /\ SubSeq(Newest(ch, n), n - j + 1, n) = Newest(ch, j)
                      /\ j \in 0..Len(ch) /\ Len(Newest(ch, j)) = j
  <2> TAKE j \in 0..n
  <2>1. j \in 0..Len(ch)
    OBVIOUS
  <2>2. SubSeq(Newest(ch, n), n - j + 1, n) = Newest(Newest(ch, n), j)
    BY <1>2 DEF Newest
  <2> QED
    BY <2>1, <2>2, NewestOfNewest, NewestIs
<1>4. Window(c, ch)
  BY Zenon DEF Window
<1>5. Window(Trim(c), ch) /\ Size(Trim(c)) <= k /\ Trim(c).maxEntries = k
  <2>1. CASE n < k
    BY <1>1, <1>2, <1>4, <2>1 DEF Trim
  <2>2. CASE ~(n < k)
    <3>1. k \in 0..n
      BY <1>1, <2>2
    <3>2. Trim(c) = [c EXCEPT !.blocks = SubSeq(Newest(ch, n), n - k + 1, n)]
      BY <1>1, <1>2, <2>2 DEF Trim
    <3>3. Trim(c) = [blocks |-> Newest(ch, k), maxEntries |-> k]
      BY <1>3, <3>1, <3>2
    <3> QED
      BY <1>1, <1>3, <3>1, <3>3 DEF Window, Size
  <2> QED
    BY <2>1, <2>2
<1>6. Window(TrimConfirmedBlocks(c, m), ch)
  <2>1. CASE n <= m
    BY <1>2, <1>4, <2>1 DEF TrimConfirmedBlocks
  <2>2. CASE ~(n <= m)
    <3>1. m \in 0..n
      BY <1>1, <2>2
    <3>2. TrimConfirmedBlocks(c, m) = [c EXCEPT !.blocks = SubSeq(Newest(ch, n), n - m + 1, n)]
      BY <1>1, <1>2, <2>2 DEF TrimConfirmedBlocks
    <3>3. TrimConfirmedBlocks(c, m) = [blocks |-> Newest(ch, m), maxEntries |-> k]
      BY <1>3, <3>1, <3>2
    <3> QED
      BY <1>3, <3>1, <3>3, Zenon DEF Window
  <2> QED
    BY <2>1, <2>2
<1> QED
  BY <1>5, <1>6

-----------------------------------------------------------------------------
LEMMA Initially == Init => IInv
<1> SUFFICES ASSUME Init
             PROVE  Window(cache, chain) /\ Ascending(chain)
  BY IInvIs
<1>1. PICK k \in Sizes : cache = [blocks |-> <<>>, maxEntries |-> k] /\ chain = <<>>
  BY DEF Init, NewBTCCache
<1>2. Newest(<<>>, 0) = <<>> /\ 0 \in 0..Len(<<>>) /\ <<>> \in Seq(Block)
  BY DEF Newest
<1>3. Window(cache, chain)
  BY <1>1, <1>2 DEF Window
<1> QED
  BY <1>1, <1>3 DEF Ascending

\* The list grows by a block one higher than its last one.
LEMMA AppendAscends ==
  ASSUME NEW s \in Seq(Block), Ascending(s), s # <<>>,
         NEW b \in Block, Parent(b) = s[Len(s)]
  PROVE  Ascending(Append(s, b))
<1> DEFINE t == Append(s, b)
<1>1. /\ Len(s) \in Nat /\ Len(t) = Len(s) + 1 /\ t[Len(s) + 1] = b
      /\ \A i \in 1..Len(s) : t[i] = s[i]
  OBVIOUS
<1>2. t \in Seq(Block) /\ s[Len(s)] \in Block
  OBVIOUS
<1>3. Height(s[Len(s)]) < Height(b)
  <2>1. Len(b) \in Nat /\ Len(Parent(b)) = Len(b) - 1
    BY BlockIsPath, ParentIsLower
  <2> QED
    BY <2>1 DEF Height
<1> HIDE DEF t
<1>4. ASSUME NEW i \in 1..(Len(t) - 1)
      PROVE  Height(t[i]) < Height(t[i + 1])
  <2>1. CASE i = Len(s)
    BY <1>1, <1>3, <2>1
  <2>2. CASE i # Len(s)
    <3>1. i \in 1..Len(s) /\ i + 1 \in 1..Len(s) /\ i < i + 1
      BY <1>1, <2>2
    <3> QED
      BY <1>1, <3>1 DEF Ascending
  <2> QED
    BY <2>1, <2>2
<1> QED
  BY <1>2, <1>4, NeighboursAscend DEF t

LEMMA StepKeepsIInv == IInv /\ [Next]_vars => IInv'
<1> SUFFICES ASSUME IInv, [Next]_vars
             PROVE  Window(cache', chain') /\ Ascending(chain')
  BY IInvIsNext
<1>1. Window(cache, chain) /\ Ascending(chain) /\ chain \in Seq(Block)
  BY IInvIs DEF Window
<1>2. PICK n \in 0..Len(chain) :
        \E k \in Sizes : cache = [blocks |-> Newest(chain, n), maxEntries |-> k]
  BY <1>1 DEF Window
<1>3. PICK k \in Sizes : cache = [blocks |-> Newest(chain, n), maxEntries |-> k]
  BY <1>2
<1>4. cache.blocks = Newest(chain, n) /\ cache.maxEntries = k
  BY <1>3
<1>5. /\ Newest(chain, n) \in Seq(Block) /\ Len(Newest(chain, n)) = n
      /\ \A i \in 1..n : Newest(chain, n)[i] = chain[Len(chain) - n + i]
  BY <1>1, NewestIs
<1>6. ASSUME NEW ibs \in Fillings, InitBlocks(ibs)
      PROVE  Window(cache', chain') /\ Ascending(chain')
  <2>1. /\ ibs \in Seq(Block)
        /\ \A i \in 1..Len(ibs), j \in 1..Len(ibs) : Height(ibs[i]) = Height(ibs[j]) => i = j
    BY CacheAssumption DEF CacheAssumption
  <2>2. cache = [blocks |-> <<>>, maxEntries |-> k]
    BY <1>3, <1>4, <1>6 DEF InitBlocks
  <2>3. Window(AddAll(cache, ibs), ibs)
    BY <1>6, <2>1, <2>2, InitKeepsWindow DEF InitBlocks
  <2>4. Ascending(ibs)
    BY <1>6, <2>1, SortedAscends DEF InitBlocks
  <2> QED
    BY <1>6, <2>3, <2>4 DEF InitBlocks
<1>7. ASSUME NEW ib \in Block, AddBlock(ib)
      PROVE  Window(cache', chain') /\ Ascending(chain')
  <2>1. Window(Add(cache, ib), Append(chain, ib))
    BY <1>1, <1>3, <1>7, AddKeepsWindow DEF AddBlock
  <2>2. n \in 1..Len(chain) /\ chain # <<>>
    BY <1>1, <1>4, <1>5, <1>7 DEF AddBlock
  <2>3. Parent(ib) = chain[Len(chain)]
    <3>1. Tip(cache) = Newest(chain, n)[n]
      BY <1>4, <1>5, <1>7 DEF AddBlock, Tip
    <3>2. Len(chain) - n + n = Len(chain) /\ n \in 1..n
      BY <1>1, <2>2
    <3> QED
      BY <1>5, <1>7, <3>1, <3>2 DEF AddBlock
  <2>4. Ascending(Append(chain, ib))
    BY <1>1, <2>2, <2>3, AppendAscends
  <2> QED
    BY <1>7, <2>1, <2>4 DEF AddBlock
<1>8. ASSUME RemoveLastBlock
      PROVE  Window(cache', chain') /\ Ascending(chain')
  <2>1. Window(RemoveLast(cache), SubSeq(chain, 1, Len(chain) - 1))
    BY <1>1, <1>3, <1>8, RemoveLastKeepsWindow DEF RemoveLastBlock
  <2>2. 1 \in 1..(Len(chain) + 1) /\ Len(chain) - 1 \in 0..Len(chain)
    BY <1>1, <1>4, <1>5, <1>8 DEF RemoveLastBlock
  <2>3. Ascending(SubSeq(chain, 1, Len(chain) - 1))
    BY <1>1, <2>2, SubSeqAscends
  <2> QED
    BY <1>8, <2>1, <2>3 DEF RemoveLastBlock
<1>9. ASSUME RemoveAllBlocks
      PROVE  Window(cache', chain') /\ Ascending(chain')
  <2>1. cache' = [blocks |-> <<>>, maxEntries |-> k] /\ chain' = <<>>
    BY <1>3, <1>9 DEF RemoveAllBlocks, RemoveAll
  <2>2. Newest(<<>>, 0) = <<>> /\ 0 \in 0..Len(<<>>) /\ <<>> \in Seq(Block)
    BY DEF Newest
  <2>3. Window(cache', chain')
    BY <2>1, <2>2 DEF Window
  <2> QED
    BY <2>1, <2>3 DEF Ascending
<1>10. ASSUME NEW m \in Sizes, ResizeCache(m)
       PROVE  Window(cache', chain') /\ Ascending(chain')
  <2>1. cache' = [blocks |-> Newest(chain, n), maxEntries |-> m] /\ chain' = chain
    BY <1>3, <1>10 DEF ResizeCache, Resize
  <2> QED
    BY <1>1, <2>1 DEF Window
<1>11. ASSUME TrimCache
       PROVE  Window(cache', chain') /\ Ascending(chain')
  BY <1>1, <1>3, <1>11, TrimKeepsWindow DEF TrimCache
<1>12. ASSUME NEW m \in Sizes, TrimConfirmed(m)
       PROVE  Window(cache', chain') /\ Ascending(chain')
  BY <1>1, <1>3, <1>12, TrimKeepsWindow DEF TrimConfirmed
<1>13. ASSUME UNCHANGED vars
       PROVE  Window(cache', chain') /\ Ascending(chain')
  BY <1>1, <1>13 DEF vars
<1> QED
  BY <1>6, <1>7, <1>8, <1>9, <1>10, <1>11, <1>12, <1>13 DEF Next

LEMMA Invariance == Spec => []IInv
<1>1. Init => IInv
  BY Initially
<1>2. IInv /\ [Next]_vars => IInv'
  BY StepKeepsIInv
<1> QED
  BY <1>1, <1>2, PTL DEF Spec

\* The cache and the list it is checked against keep their types.
THEOREM TypeCorrect == Spec => []TypeOK
<1>1. IInv => TypeOK
  BY DEF IInv
<1> QED
  BY <1>1, Invariance, PTL

\* Whatever is added, dropped, resized and trimmed (btccache.go 52-87, 211-263),
\* the cache is the newest part of the list of blocks added and not removed.
THEOREM AlwaysAWindow == Spec => []WindowOfChain
<1>1. IInv => WindowOfChain
  BY DEF IInv
<1> QED
  BY <1>1, Invariance, PTL

-----------------------------------------------------------------------------
(***************************************************************************)
(* The searches.                                                           *)
(***************************************************************************)
LEMMA CacheAscends ==
  ASSUME IInv
  PROVE  cache \in Caches /\ Ascending(cache.blocks)
<1>1. cache \in Caches
  BY CacheAssumption DEF IInv, TypeOK, Caches, CacheAssumption
<1>2. /\ chain \in Seq(Block) /\ Ascending(chain)
      /\ cache.blocks = SubSeq(chain, Len(chain) - Size(cache) + 1, Len(chain))
      /\ Size(cache) \in Nat /\ Size(cache) <= Len(chain) /\ Len(chain) \in Nat
  BY DEF IInv, TypeOK, WindowOfChain, Size
<1>3. Len(chain) - Size(cache) + 1 \in 1..(Len(chain) + 1) /\ Len(chain) \in 0..Len(chain)
  BY <1>2
<1> QED
  BY <1>1, <1>2, <1>3, SubSeqAscends

LEMMA HeightsAreInts == \A b \in Block : Height(b) \in Int
<1> SUFFICES ASSUME NEW b \in Block
             PROVE  Len(b) \in Int
  BY DEF Height
<1> QED
  BY BlockIsPath

\* FindBlock (btccache.go 181-209) finds the block of the asked height exactly when
\* the cache has one, and never reads outside the slice.
THEOREM FindBlockAlwaysFinds == Spec => []FindBlockFinds
<1>1. IInv => FindBlockFinds
  <2> SUFFICES ASSUME IInv, cache.blocks # <<>>,
                      NEW h \in {Height(b) : b \in Block} \cup {0}
               PROVE  LET found == FindBlock(cache, h)
                          have  == {i \in 1..Size(cache) : Height(cache.blocks[i]) = h}
                      IN  IF have = {} THEN found = NoBlock
                          ELSE \E i \in have : found = cache.blocks[i]
    BY DEF FindBlockFinds
  <2>1. h \in Int
    BY HeightsAreInts
  <2>2. \/ \E i \in 1..Size(cache) : Height(cache.blocks[i]) = h /\ FindBlock(cache, h) = cache.blocks[i]
        \/ FindBlock(cache, h) = NoBlock /\ \A i \in 1..Size(cache) : Height(cache.blocks[i]) # h
    BY <2>1, CacheAscends, FindBlockIsRight
  <2> QED
    BY <2>2, Zenon
<1> QED
  BY <1>1, Invariance, PTL

\* Trim (btccache.go 223-238) leaves room, whatever the cache holds: the next add does
\* not panic.
THEOREM TrimAlwaysMakesRoom == Spec => []TrimmedCacheAccepts
<1>1. IInv => TrimmedCacheAccepts
  <2> SUFFICES ASSUME IInv
               PROVE  ~AddPanics(Trim(cache))
    BY DEF TrimmedCacheAccepts
  <2>1. Window(cache, chain) /\ chain \in Seq(Block)
    BY IInvIs DEF Window
  <2>2. PICK n \in 0..Len(chain) :
          \E k \in Sizes : cache = [blocks |-> Newest(chain, n), maxEntries |-> k]
    BY <2>1 DEF Window
  <2>3. PICK k \in Sizes : cache = [blocks |-> Newest(chain, n), maxEntries |-> k]
    BY <2>2
  <2>4. /\ Size(Trim(cache)) <= k /\ Trim(cache).maxEntries = k
        /\ Window(Trim(cache), chain)
    BY <2>1, <2>3, TrimKeepsWindow
  <2>5. Size(Trim(cache)) \in Nat /\ k \in Nat
    <3>1. Trim(cache) \in [blocks : Seq(Block), maxEntries : Sizes]
      BY <2>1, <2>4, WindowIs
    <3> QED
      BY <3>1, CacheAssumption DEF CacheAssumption, Size
  <2> QED
    BY <2>4, <2>5 DEF AddPanics
<1> QED
  BY <1>1, Invariance, PTL
=============================================================================
