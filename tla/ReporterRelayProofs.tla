------------------------- MODULE ReporterRelayProofs -------------------------
(***************************************************************************)
(* What the BTC reporter relays: only headers that had Delay blocks on top *)
(* of them, for every block tree in which heavier chains are not lower,    *)
(* and every value of the constants.  And, while its assumptions on the    *)
(* chain and on Lorenzo hold, that it does not panic, and that what events *)
(* make it submit connects to what Lorenzo has.                            *)
(***************************************************************************)
EXTENDS ReporterProofs

-----------------------------------------------------------------------------
(***************************************************************************)
(* The invariant.  A header reaches ProcessHeaders from the cache that     *)
(* InitBTCCache loaded (all but the last Delay of its blocks were deep     *)
(* enough then), or from an event that waited to be Delay deep by height,  *)
(* which the node's chain, never getting lower, cannot undo, and was then  *)
(* found on the best chain: whatever the cache holds under that block is   *)
(* below it on one chain.                                                  *)
(***************************************************************************)
MaturedIsClosed ==
  /\ Matured(btcTip) \subseteq matured
  /\ \A b \in matured : \A h \in 1..Height(b) : AncestorAt(b, h) \in matured

LoadedIsMature ==
  pc \in {"subscribe", "consistency"} =>
    \A i \in 1..(Size(cache) - Delay) : cache.blocks[i] \in matured

HandledIsDeep == pc = "handle" => Height(event.block) + Delay <= Height(btcTip)

AddedIsMature ==
  pc = "lorenzoTip" =>
    event.block \in matured /\ cache.blocks # <<>> /\ Tip(cache) = event.block

MatureInv ==
  /\ MaturedIsClosed
  /\ LoadedIsMature
  /\ HandledIsDeep
  /\ AddedIsMature
  /\ OnlyMatureHeaders

\* A block of a chain that was Delay deep, and what is below it.
LEMMA MaturedBelow ==
  ASSUME MaturedIsClosed, IInv, NEW a \in Block, NEW b \in matured, OnChain(a, b)
  PROVE  a \in matured
<1>1. b \in Block
  BY DEF IInv, WorldTypeOK
<1>2. Len(a) \in 1..Height(b) /\ a = AncestorAt(b, Len(a))
  BY <1>1, OnChainIsAncestor DEF Height
<1> QED
  BY <1>2 DEF MaturedIsClosed

\* The blocks of a chain whose last one was Delay deep.
LEMMA MaturedChain ==
  ASSUME MaturedIsClosed, IInv, NEW s \in Seq(Block), IsChain(s), s # <<>>, s[Len(s)] \in matured
  PROVE  \A i \in 1..Len(s) : s[i] \in matured
<1> TAKE i \in 1..Len(s)
<1>1. s[i] \in Block
  OBVIOUS
<1> QED
  BY <1>1, ChainIsBelowLast, MaturedBelow

LEMMA MaturedIsPrefixClosed ==
  ASSUME NEW t \in Block, NEW b \in Matured(t)
  PROVE  b \in Block /\ \A h \in 1..Height(b) : AncestorAt(b, h) \in Matured(t)
<1>1. PICK g \in 1..(Height(t) - Delay) : b = AncestorAt(t, g)
  BY DEF Matured
<1>2. Height(t) \in Nat /\ Delay \in Nat /\ Height(t) = Len(t)
  BY BlockIsPath, ReporterAssumption DEF ReporterAssumption, Height
<1>3. g \in 1..Len(t)
  BY <1>2
<1>4. b \in Block /\ Height(b) = g
  BY <1>1, <1>3, AncestorIsBlock DEF Height
<1>5. ASSUME NEW h \in 1..Height(b)
      PROVE  AncestorAt(b, h) \in Matured(t)
  <2>1. h \in 1..g /\ h \in 1..(Height(t) - Delay)
    BY <1>2, <1>4
  <2>2. AncestorAt(b, h) = AncestorAt(t, h)
    BY <1>1, <1>3, <2>1, AncestorOfAncestor
  <2> QED
    BY <2>1, <2>2 DEF Matured
<1> QED
  BY <1>4, <1>5

-----------------------------------------------------------------------------
(***************************************************************************)
(* How a step of the process may go on.                                    *)
(***************************************************************************)

\* Anywhere but at the steps the invariant speaks of.
LEMMA ElsewhereIsMature ==
  ASSUME MaturedIsClosed, UNCHANGED node,
         pc' \notin {"subscribe", "consistency", "handle", "lorenzoTip", "dedup", "insert"}
  PROVE  MatureInv'
<1>1. MaturedIsClosed'
  BY DEF MaturedIsClosed, Matured, node
<1> QED
  BY <1>1 DEF MatureInv, LoadedIsMature, HandledIsDeep, AddedIsMature, OnlyMatureHeaders

\* Headers to submit are at hand.
LEMMA SubmissionIsMature ==
  ASSUME MaturedIsClosed, UNCHANGED node, pc' \in {"dedup", "insert"},
         \A i \in 1..Len(headers') : headers'[i] \in matured
  PROVE  MatureInv'
<1>1. MaturedIsClosed' /\ matured' = matured
  BY DEF MaturedIsClosed, Matured, node
<1> QED
  BY <1>1 DEF MatureInv, LoadedIsMature, HandledIsDeep, AddedIsMature, OnlyMatureHeaders

\* The steps that submit nothing and handle nothing.
LEMMA RetreatsAreElsewhere ==
  ASSUME \/ \E reason : Exit(reason)
         \/ \E skp, n : BeginBootstrap(skp, n)
         \/ BootstrapFails \/ RestartBootstrap \/ EventDone
         \/ ProcessingSucceeds \/ ProcessingFails
  PROVE  pc' \notin {"subscribe", "consistency", "handle", "lorenzoTip", "dedup", "insert"}
BY DEF Exit, BeginBootstrap, BootstrapFails, RestartBootstrap, EventDone, Goto,
       ProcessingSucceeds, ProcessingFails

\* A part of a list of headers that were deep enough.
LEMMA PartIsMature ==
  ASSUME NEW s \in Seq(Block), NEW lo \in 1..(Len(s) + 1), NEW hi \in 0..Len(s),
         \A i \in lo..hi : s[i] \in matured
  PROVE  \A i \in 1..Len(SubSeq(s, lo, hi)) : SubSeq(s, lo, hi)[i] \in matured
<1> DEFINE t == SubSeq(s, lo, hi)
<1>1. /\ Len(t) = IF lo <= hi THEN hi - lo + 1 ELSE 0
      /\ \A i \in 1..Len(t) : t[i] = s[lo + i - 1]
  OBVIOUS
<1>2. \A i \in 1..Len(t) : lo + i - 1 \in lo..hi
  BY <1>1
<1> QED
  BY <1>1, <1>2

-----------------------------------------------------------------------------
(***************************************************************************)
(* The steps of the process that the invariant is about.                   *)
(***************************************************************************)
LEMMA InitBTCCacheIsMature ==
  ASSUME IInv, MatureInv, InitBTCCache
  PROVE  MatureInv'
<1> DEFINE lo  == CacheBaseHeight
           n   == Len(btcTip)
           ibs == ChainSegment(btcTip, lo, n)
<1>1. MaturedIsClosed /\ UNCHANGED node
  BY DEF MatureInv, InitBTCCache
<1>2. CASE Exit("initCache")
  BY <1>1, <1>2, RetreatsAreElsewhere, ElsewhereIsMature
<1>3. CASE ~Exit("initCache")
  <2>1. pc' = "subscribe"
    BY <1>3 DEF InitBTCCache, Goto
  <2>2. /\ cache'.blocks = ibs /\ n \in Nat /\ lo \in 1..n /\ Len(ibs) = n - lo + 1
        /\ \A i \in 1..Len(ibs) : ibs[i] = AncestorAt(btcTip, lo + i - 1)
    BY <2>1, LoadedBlocks
  <2>3. Delay \in Nat
    BY ReporterAssumption DEF ReporterAssumption
  <2>4. \A i \in 1..(Size(cache') - Delay) : cache'.blocks[i] \in matured
    <3> SUFFICES ASSUME NEW i \in 1..(Len(ibs) - Delay)
                 PROVE  ibs[i] \in matured
      BY <2>2 DEF Size
    <3> HIDE DEF n, lo, ibs
    <3>1. i \in 1..Len(ibs) /\ lo + i - 1 \in 1..(n - Delay)
      BY <2>2, <2>3
    <3>2. AncestorAt(btcTip, lo + i - 1) \in Matured(btcTip)
      BY <3>1 DEF Matured, Height, n
    <3> QED
      BY <1>1, <2>2, <3>1, <3>2 DEF MaturedIsClosed
  <2> QED
    BY <1>1, <2>1, <2>4 DEF MatureInv, MaturedIsClosed, LoadedIsMature, HandledIsDeep,
      AddedIsMature, OnlyMatureHeaders, Matured, node, Size
<1> QED
  BY <1>2, <1>3

LEMMA SubscribeIsMature ==
  ASSUME IInv, MatureInv, Subscribe
  PROVE  MatureInv'
<1>1. MaturedIsClosed /\ UNCHANGED node /\ LoadedIsMature /\ pc = "subscribe"
  BY DEF MatureInv, Subscribe
<1>2. CASE Exit("alreadySubscribed")
  BY <1>1, <1>2, RetreatsAreElsewhere, ElsewhereIsMature
<1>3. CASE ~Exit("alreadySubscribed")
  <2>1. pc' = "consistency" /\ cache' = cache
    BY <1>3 DEF Subscribe, Goto
  <2> QED
    BY <1>1, <2>1 DEF MatureInv, MaturedIsClosed, LoadedIsMature, HandledIsDeep,
      AddedIsMature, OnlyMatureHeaders, Matured, node, Size
<1> QED
  BY <1>2, <1>3

LEMMA CheckConsistencyIsMature ==
  ASSUME IInv, MatureInv, CheckConsistency
  PROVE  MatureInv'
<1> DEFINE h   == ConsistencyHeight + 1
           ibs == GetLastBlocks(cache, h)
<1>1. /\ MaturedIsClosed /\ UNCHANGED node
      /\ \A i \in 1..(Size(cache) - Delay) : cache.blocks[i] \in matured
  BY DEF MatureInv, LoadedIsMature, CheckConsistency
<1>2. CASE \E reason : Exit(reason)
  BY <1>1, <1>2, RetreatsAreElsewhere, ElsewhereIsMature
<1>3. CASE ~\E reason : Exit(reason)
  <2>1. /\ ~HeightOutOfRange(cache, h) /\ ~(Len(ibs) <= Delay)
        /\ headers' = WithoutDelay(ibs) /\ pc' = "dedup"
    BY <1>3 DEF CheckConsistency, Goto
  <2>2. h \in Nat /\ h >= 1 /\ h \in Int
    <3> DEFINE n == Len(lrzTip)
    <3>1. n \in Nat
      BY BlockIsPath DEF IInv, WorldTypeOK
    <3> HIDE DEF n
    <3>2. BaseHeight \in Nat \ {0} /\ K \in Nat
      BY ReporterAssumption DEF ReporterAssumption
    <3> QED
      BY <3>1, <3>2 DEF ConsistencyHeight, Height, n
  <2>3. cache \in Caches /\ cache.blocks # <<>>
    BY <2>1, <2>2, ProcessParts, InRangeNotEmpty DEF IInv
  <2>4. PICK j \in 1..Size(cache) : ibs = SubSeq(cache.blocks, j, Size(cache))
    BY <2>2, <2>3, GetLastBlocksFrom
  <2> DEFINE s == cache.blocks
             n == Size(cache)
  <2>5. s \in Seq(Block) /\ n = Len(s) /\ n \in Nat /\ Delay \in Nat
    BY <2>3, ReporterAssumption DEF Caches, Size, ReporterAssumption
  <2>6. /\ ibs \in Seq(Block) /\ Len(ibs) = n - j + 1
        /\ \A i \in 1..Len(ibs) : ibs[i] = s[j + i - 1]
    <3>1. ibs = SubSeq(s, j, n) /\ j \in 1..n
      BY <2>4
    <3> HIDE DEF s, n, ibs
    <3>2. j \in 1..(Len(s) + 1) /\ n \in 0..Len(s) /\ j <= n
      BY <2>5, <3>1
    <3> QED
      BY <2>5, <3>1, <3>2, SubSeqOfBlocks
  <2>7. \A i \in 1..(Len(ibs) - Delay) : ibs[i] \in matured
    <3> TAKE i \in 1..(Len(ibs) - Delay)
    <3> HIDE DEF n, s, ibs
    <3>1. i \in 1..Len(ibs) /\ j + i - 1 \in 1..(n - Delay)
      BY <2>4, <2>5, <2>6 DEF n
    <3> QED
      BY <1>1, <2>6, <3>1 DEF n, s
  <2> HIDE DEF ibs
  <2>8. 1 \in 1..(Len(ibs) + 1) /\ Len(ibs) - Delay \in 0..Len(ibs)
    <3>1. Len(ibs) \in Nat
      BY <2>6
    <3> QED
      BY <2>1, <2>5, <3>1
  <2>9. \A i \in 1..Len(headers') : headers'[i] \in matured
    BY <2>1, <2>6, <2>7, <2>8, PartIsMature DEF WithoutDelay
  <2> QED
    BY <1>1, <2>1, <2>9, SubmissionIsMature
<1> QED
  BY <1>2, <1>3

LEMMA DedupIsMature ==
  ASSUME IInv, MatureInv, Dedup
  PROVE  MatureInv'
<1> DEFINE missing == {i \in 1..Len(headers) : ~ContainsBTCBlock(lrzTip, headers[i])}
<1>1. /\ MaturedIsClosed /\ UNCHANGED node /\ headers \in Seq(Block)
      /\ \A i \in 1..Len(headers) : headers[i] \in matured
  BY ProcessParts DEF MatureInv, OnlyMatureHeaders, Dedup, IInv
<1>2. CASE missing = {}
  <2>1. ProcessingSucceeds
    BY <1>2 DEF Dedup
  <2> QED
    BY <1>1, <2>1, RetreatsAreElsewhere, ElsewhereIsMature
<1>3. CASE missing # {}
  <2>1. PICK i \in missing : headers' = SubSeq(headers, i, Len(headers))
    BY <1>3 DEF Dedup
  <2>2. pc' = "insert"
    BY <1>3 DEF Dedup, Goto
  <2>3. i \in 1..(Len(headers) + 1) /\ Len(headers) \in 0..Len(headers)
        /\ \A k \in i..Len(headers) : k \in 1..Len(headers)
    BY <1>1
  <2>4. \A k \in 1..Len(headers') : headers'[k] \in matured
    BY <1>1, <2>1, <2>3, PartIsMature
  <2> QED
    BY <1>1, <2>2, <2>4, SubmissionIsMature
<1> QED
  BY <1>2, <1>3

\* A message and what is left after it are parts of the headers.
LEMMA ChunkIsMature ==
  ASSUME headers \in Seq(Block), headers # <<>>,
         \A i \in 1..Len(headers) : headers[i] \in matured
  PROVE  /\ InsertHeaders(Chunk) \in matured
         /\ \A i \in 1..Len(Rest) : Rest[i] \in matured
<1> DEFINE n == Len(headers)
           m == IF n < MaxHeaders THEN n ELSE MaxHeaders
<1>1. n \in Nat /\ n >= 1 /\ MaxHeaders \in Nat \ {0}
  BY ReporterAssumption DEF ReporterAssumption
<1>2. m \in 1..n
  <2> HIDE DEF n
  <2> QED
    BY <1>1
<1>3. Chunk = SubSeq(headers, 1, m)
  BY DEF Chunk
<1> HIDE DEF m
<1>4. Len(Chunk) = m /\ Chunk[m] = headers[m]
  BY <1>1, <1>2, <1>3
<1>5. m + 1 \in 1..(n + 1) /\ n \in 0..n /\ \A i \in (m + 1)..n : i \in 1..n
  <2> HIDE DEF n
  <2> QED
    BY <1>1, <1>2
<1>6. Rest = SubSeq(headers, m + 1, n)
  BY <1>4 DEF Rest
<1>7. \A i \in 1..Len(Rest) : Rest[i] \in matured
  BY <1>5, <1>6, PartIsMature
<1> QED
  BY <1>2, <1>4, <1>7 DEF InsertHeaders

LEMMA SubmitChunkIsMature ==
  ASSUME IInv, MatureInv, SubmitChunk
  PROVE  MatureInv'
<1>1. /\ MaturedIsClosed /\ UNCHANGED node /\ headers \in Seq(Block) /\ headers # <<>>
      /\ \A i \in 1..Len(headers) : headers[i] \in matured
  BY ProcessParts DEF MatureInv, OnlyMatureHeaders, SubmitChunk, IInv
<1>2. CASE ProcessingFails \/ ProcessingSucceeds
  BY <1>1, <1>2, RetreatsAreElsewhere, ElsewhereIsMature
<1>3. CASE ~(ProcessingFails \/ ProcessingSucceeds)
  <2>1. headers' = Rest /\ pc' = "insert"
    BY <1>3 DEF SubmitChunk, Goto
  <2> QED
    BY <1>1, <2>1, ChunkIsMature, SubmissionIsMature
<1> QED
  BY <1>2, <1>3

LEMMA MatureIsMature ==
  ASSUME IInv, MatureInv, Mature
  PROVE  MatureInv'
<1>1. /\ MaturedIsClosed /\ UNCHANGED node /\ pc' = "handle" /\ event' = event
      /\ Height(btcTip) >= Delay + Height(event.block)
  BY DEF MatureInv, Mature, DeepEnough, Goto
<1>2. Height(btcTip) \in Nat /\ Height(event.block) \in Nat /\ Delay \in Nat
  <2>1. btcTip \in Block /\ event.block \in Block
    BY ProcessParts DEF IInv, WorldTypeOK, Mature, EventSteps
  <2> QED
    BY <2>1, BlockIsPath, ReporterAssumption DEF Height, ReporterAssumption
<1>3. btcTip' = btcTip /\ matured' = matured
  BY <1>1 DEF node
<1>4. Height(event'.block) + Delay <= Height(btcTip')
  BY <1>1, <1>2, <1>3
<1> QED
  BY <1>1, <1>3, <1>4 DEF MatureInv, MaturedIsClosed, Matured, LoadedIsMature, HandledIsDeep,
    AddedIsMature, OnlyMatureHeaders, Height

\* What GetLastBlocks returns from a cache whose tip was Delay deep.
LEMMA LastBlocksAreMature ==
  ASSUME IInv, MaturedIsClosed, NEW c \in Caches, IsChain(c.blocks), c.blocks # <<>>,
         Tip(c) \in matured, NEW h \in Int
  PROVE  LET ibs == GetLastBlocks(c, h)
         IN  \A i \in 1..Len(ibs) : ibs[i] \in matured
<1> DEFINE n == Size(c)
<1>1. PICK j \in 1..n : GetLastBlocks(c, h) = SubSeq(c.blocks, j, n)
  BY GetLastBlocksFrom
<1>2. c.blocks \in Seq(Block) /\ n = Len(c.blocks) /\ n \in Nat /\ c.blocks[n] \in matured
  BY DEF Caches, Size, Tip
<1>3. \A i \in 1..n : c.blocks[i] \in matured
  BY <1>2, MaturedChain
<1> HIDE DEF n
<1>4. j \in 1..(n + 1) /\ n \in 0..n /\ \A i \in j..n : i \in 1..n
  BY <1>1, <1>2
<1> QED
  BY <1>1, <1>2, <1>3, <1>4, PartIsMature

(***************************************************************************)
(* The block was Delay deep by height when the handler took it, the node's *)
(* chain has not become lower since, and the block is on it.               *)
(***************************************************************************)
LEMMA ConnectedBlockIsMature ==
  ASSUME IInv, MatureInv, ExtendCache
  PROVE  event.block \in matured
<1> DEFINE b == event.block
<1>1. /\ b \in Block /\ OnChain(b, btcTip) /\ btcTip \in Block
      /\ Height(b) + Delay <= Height(btcTip) /\ MaturedIsClosed
  BY ConnectedBlockExtends
  DEF IInv, WorldTypeOK, MatureInv, HandledIsDeep, ExtendCache, Connecting
<1>2. Len(b) \in 1..Len(btcTip) /\ b = AncestorAt(btcTip, Len(b))
  BY <1>1, OnChainIsAncestor
<1>3. Len(btcTip) \in Nat /\ Delay \in Nat
  BY <1>1, BlockIsPath, ReporterAssumption DEF ReporterAssumption
<1>4. Len(b) \in 1..(Height(btcTip) - Delay)
  BY <1>1, <1>2, <1>3 DEF Height
<1>5. b \in Matured(btcTip)
  BY <1>2, <1>4 DEF Matured
<1> QED
  BY <1>1, <1>5 DEF MaturedIsClosed

LEMMA ExtendCacheIsMature ==
  ASSUME IInv, MatureInv, ExtendCache
  PROVE  MatureInv'
<1> DEFINE b      == event.block
           grown  == Add(cache, b)
           branch == GetLastBlocks(grown, Height(OldestRemoved))
<1>1. MaturedIsClosed /\ UNCHANGED node /\ ProcessOK
  BY DEF MatureInv, ExtendCache, IInv
<1>2. /\ b \in Block /\ b \in matured /\ grown \in Caches /\ IsChain(grown.blocks)
      /\ grown.blocks # <<>> /\ Tip(grown) = b
  BY <1>1, ConnectedBlockExtends, ConnectedBlockIsMature, TipOfAdd
<1>3. CASE Exit("cacheAdd") \/ Exit("reorgRange") \/ EventDone
  BY <1>1, <1>3, RetreatsAreElsewhere, ElsewhereIsMature
<1>4. CASE ~(Exit("cacheAdd") \/ Exit("reorgRange") \/ EventDone)
  <2>1. CASE reorgList.blocks = <<>>
    <3>1. cache' = grown /\ pc' = "lorenzoTip" /\ event' = event
      BY <1>4, <2>1 DEF ExtendCache, Goto
    <3>2. MaturedIsClosed' /\ matured' = matured
      BY <1>1 DEF MaturedIsClosed, Matured, node
    <3>3. event'.block \in matured' /\ cache'.blocks # <<>> /\ Tip(cache') = event'.block
      BY <1>2, <3>1, <3>2
    <3> QED
      BY <3>1, <3>2, <3>3
      DEF MatureInv, LoadedIsMature, HandledIsDeep, AddedIsMature, OnlyMatureHeaders, Tip
  <2>2. CASE reorgList.blocks # <<>>
    <3>1. headers' = branch /\ pc' = "dedup"
      BY <1>4, <2>2 DEF ExtendCache, Goto
    <3>2. Height(OldestRemoved) \in Int
      <4>1. OldestRemoved \in Block
        BY <1>1, <2>2, ProcessParts DEF OldestRemoved
      <4> QED
        BY <4>1, BlockIsPath DEF Height
    <3>3. \A i \in 1..Len(branch) : branch[i] \in matured
      BY <1>1, <1>2, <3>2, LastBlocksAreMature
    <3> QED
      BY <1>1, <3>1, <3>3, SubmissionIsMature
  <2> QED
    BY <2>1, <2>2
<1> QED
  BY <1>3, <1>4

LEMMA QueryLorenzoTipIsMature ==
  ASSUME IInv, MatureInv, QueryLorenzoTip
  PROVE  MatureInv'
<1> DEFINE h == Height(lrzTip) + 1
<1>1. /\ MaturedIsClosed /\ UNCHANGED node /\ ProcessOK /\ event.block \in matured
      /\ cache.blocks # <<>> /\ Tip(cache) = event.block
  BY DEF MatureInv, AddedIsMature, QueryLorenzoTip, IInv
<1>2. CASE RestartBootstrap
  BY <1>1, <1>2, RetreatsAreElsewhere, ElsewhereIsMature
<1>3. CASE ~RestartBootstrap
  <2>1. pc' = "dedup" /\ (headers' = <<event.block>> \/ headers' = GetLastBlocks(cache, h))
    BY <1>3 DEF QueryLorenzoTip, Goto
  <2>2. h \in Int
    <3>1. Len(lrzTip) \in Nat
      BY BlockIsPath DEF IInv, WorldTypeOK
    <3> QED
      BY <3>1 DEF Height
  <2> HIDE DEF h
  <2>3. CASE headers' = <<event.block>>
    <3>1. \A i \in 1..Len(headers') : headers'[i] \in matured
      BY <1>1, <2>3
    <3> QED
      BY <1>1, <2>1, <3>1, SubmissionIsMature
  <2>4. CASE headers' = GetLastBlocks(cache, h)
    <3>1. cache \in Caches /\ IsChain(cache.blocks)
      BY <1>1, ProcessParts
    <3>2. \A i \in 1..Len(headers') : headers'[i] \in matured
      BY <1>1, <2>2, <2>4, <3>1, LastBlocksAreMature
    <3> QED
      BY <1>1, <2>1, <3>2, SubmissionIsMature
  <2> QED
    BY <2>1, <2>3, <2>4
<1> QED
  BY <1>2, <1>3

-----------------------------------------------------------------------------
(***************************************************************************)
(* The node moves to a heavier chain, which is not lower.                  *)
(***************************************************************************)
LEMMA NodeAdvanceIsMature ==
  ASSUME HeavierIsHigher, IInv, MatureInv, NEW t \in Block, NodeAdvance(t)
  PROVE  MatureInv'
<1>1. /\ MaturedIsClosed /\ LoadedIsMature /\ HandledIsDeep /\ AddedIsMature
      /\ OnlyMatureHeaders /\ btcTip \in Block
  BY DEF MatureInv, IInv, WorldTypeOK
<1>2. /\ ChainWork[t] > ChainWork[btcTip] /\ btcTip' = t /\ matured' = matured \cup Matured(t)
      /\ UNCHANGED <<pc, cache, event, headers>>
  BY DEF NodeAdvance, memory
<1>3. Height(t) >= Height(btcTip)
  BY <1>1, <1>2 DEF HeavierIsHigher
<1>4. MaturedIsClosed'
  <2>1. Matured(btcTip)' = Matured(t)
    BY <1>2 DEF Matured, Height
  <2>2. ASSUME NEW b \in matured'
        PROVE  \A h \in 1..Height(b) : AncestorAt(b, h) \in matured'
    <3>1. CASE b \in matured
      BY <1>1, <1>2, <3>1 DEF MaturedIsClosed
    <3>2. CASE b \in Matured(t)
      BY <1>2, <3>2, MaturedIsPrefixClosed
    <3> QED
      BY <1>2, <2>2, <3>1, <3>2
  <2> QED
    BY <1>2, <2>1, <2>2 DEF MaturedIsClosed, Height, AncestorAt
<1>5. HandledIsDeep'
  <2> SUFFICES ASSUME pc = "handle"
               PROVE  Height(event.block) + Delay <= Height(t)
    BY <1>2 DEF HandledIsDeep, Height
  <2>1. Height(event.block) + Delay <= Height(btcTip)
    BY <1>1 DEF HandledIsDeep
  <2>2. /\ Height(event.block) \in Nat /\ Height(btcTip) \in Nat /\ Height(t) \in Nat
        /\ Delay \in Nat
    <3>1. event.block \in Block
      BY ProcessParts DEF IInv, EventSteps
    <3> QED
      BY <1>1, <3>1, BlockIsPath, ReporterAssumption DEF Height, ReporterAssumption
  <2> QED
    BY <1>3, <2>1, <2>2
<1>6. LoadedIsMature' /\ AddedIsMature' /\ OnlyMatureHeaders'
  BY <1>1, <1>2 DEF LoadedIsMature, AddedIsMature, OnlyMatureHeaders, Size, Tip
<1> QED
  BY <1>4, <1>5, <1>6 DEF MatureInv

\* Nothing the invariant speaks of changes.
LEMMA OthersAreMature ==
  ASSUME MatureInv, UNCHANGED <<btcTip, matured, pc, cache, event, headers>>
  PROVE  MatureInv'
BY DEF MatureInv, MaturedIsClosed, Matured, LoadedIsMature, HandledIsDeep, AddedIsMature,
       OnlyMatureHeaders, Size, Tip, Height

LEMMA StepIsMature ==
  ASSUME IInv, MatureInv, Step
  PROVE  MatureInv'
<1>1. MaturedIsClosed
  BY DEF MatureInv
<1>2. CASE Start \/ WaitUntilBTCSync \/ ReceiveEvent
  <2>1. UNCHANGED node
    BY <1>2 DEF Start, AlreadyClose, CatchUp, CatchUpOnStaleFork, WaitUntilBTCSync, ReceiveEvent
  <2>2. pc' \in {"bootstrap", "down", "initCache", "mature"}
    BY <1>2 DEF Start, AlreadyClose, CatchUp, CatchUpOnStaleFork, WaitUntilBTCSync, ReceiveEvent,
                BeginBootstrap, Exit, Goto
  <2> QED
    BY <1>1, <2>1, <2>2, ElsewhereIsMature
<1>3. CASE RejectConnected \/ SkipConnected \/ HandleDisconnected
  <2>1. UNCHANGED node /\ (RestartBootstrap \/ EventDone)
    BY <1>3 DEF RejectConnected, SkipConnected, HandleDisconnected
  <2> QED
    BY <1>1, <2>1, RetreatsAreElsewhere, ElsewhereIsMature
<1> QED
  BY <1>2, <1>3, InitBTCCacheIsMature, SubscribeIsMature, CheckConsistencyIsMature, DedupIsMature,
     SubmitChunkIsMature, MatureIsMature, ExtendCacheIsMature, QueryLorenzoTipIsMature
  DEF Step, Bootstrap, ProcessHeaders, HandleEvent

LEMMA FaultsAreMature ==
  ASSUME IInv, MatureInv, Faults
  PROVE  MatureInv'
<1>1. MaturedIsClosed
  BY DEF MatureInv
<1>2. CASE LorenzoRequestFails \/ BTCRequestFails \/ Crash
  <2>1. UNCHANGED node
    BY <1>2 DEF LorenzoRequestFails, BTCRequestFails, Crash
  <2>2. \/ \E reason : Exit(reason)
        \/ BootstrapFails \/ RestartBootstrap \/ ProcessingFails
    BY <1>2 DEF LorenzoRequestFails, BTCRequestFails, Crash, CatchUpFails
  <2> QED
    BY <1>1, <2>1, <2>2, RetreatsAreElsewhere, ElsewhereIsMature
<1>3. CASE LoseEvent \/ \E t \in Block : RivalInsert(t)
  <2>1. UNCHANGED <<btcTip, matured, pc, cache, event, headers>>
    BY <1>3 DEF LoseEvent, RivalInsert, node, memory
  <2> QED
    BY <2>1, OthersAreMature
<1>4. CASE Restart
  <2>1. UNCHANGED node /\ pc' = "start"
    BY <1>4 DEF Restart
  <2> QED
    BY <1>1, <2>1, ElsewhereIsMature
<1> QED
  BY <1>2, <1>3, <1>4 DEF Faults

LEMMA InitIsMature ==
  ASSUME Init
  PROVE  MatureInv
<1>1. btcTip \in Block /\ matured = Matured(btcTip) /\ pc = "start"
  BY ReporterAssumption DEF Init, ReporterAssumption
<1>2. MaturedIsClosed
  BY <1>1, MaturedIsPrefixClosed DEF MaturedIsClosed
<1> QED
  BY <1>1, <1>2 DEF MatureInv, LoadedIsMature, HandledIsDeep, AddedIsMature, OnlyMatureHeaders

LEMMA NextIsMature ==
  ASSUME HeavierIsHigher, IInv, MatureInv, [Next]_vars
  PROVE  MatureInv'
<1>1. CASE UNCHANGED vars
  BY <1>1, OthersAreMature DEF vars
<1>2. CASE Next
  <2>1. CASE SubscriptionBegins
    <3>1. UNCHANGED <<btcTip, matured, pc, cache, event, headers>>
      BY <2>1 DEF SubscriptionBegins, node, memory
    <3> QED
      BY <3>1, OthersAreMature
  <2> QED
    BY <1>2, <2>1, StepIsMature, NodeAdvanceIsMature, FaultsAreMature DEF Next
<1> QED
  BY <1>1, <1>2

LEMMA AlwaysMature ==
  ASSUME HeavierIsHigher
  PROVE  Spec => [](IInv /\ MatureInv)
<1>1. Init => IInv /\ MatureInv
  BY InitIInv, InitIsMature
<1>2. IInv /\ MatureInv /\ [Next]_vars => (IInv /\ MatureInv)'
  BY NextIInv, NextIsMature
<1> QED
  BY <1>1, <1>2, PTL DEF Spec

(***************************************************************************)
(* Neither a bootstrap that loads fresh blocks, nor an event overtaken by  *)
(* a reorganisation, a lost event, a retry or a restart hands a header to  *)
(* ProcessHeaders that never was Delay deep in the node's best chain       *)
(* (block_handler.go 21-42 and 100-180, bootstrapping.go 98-117).          *)
(***************************************************************************)
THEOREM HeadersAlwaysMature ==
  ASSUME HeavierIsHigher
  PROVE  Spec => []OnlyMatureHeaders
<1>1. MatureInv => OnlyMatureHeaders
  BY DEF MatureInv
<1> QED
  BY <1>1, AlwaysMature, PTL

-----------------------------------------------------------------------------
(***************************************************************************)
(* The reporter implements HeaderRelay, when nobody else moves Lorenzo and *)
(* the catch-up of Start, which stops 2 * K below the tip, stops at Delay  *)
(* or deeper.                                                              *)
(***************************************************************************)
Moves ==
  /\ lrzTip' \in matured
  /\ ChainWork[lrzTip'] > ChainWork[lrzTip]

LEMMA CatchUpMoves ==
  ASSUME IInv, MaturedIsClosed, Delay <= 2 * K, lrzTip' \in CatchUpTips, lrzTip' # lrzTip
  PROVE  Moves
<1> DEFINE n == Len(btcTip)
           m == Len(lrzTip)
<1>1. /\ btcTip \in Block /\ lrzTip \in Block /\ n \in Nat /\ m \in Nat /\ m >= 1
      /\ K \in Nat /\ Delay \in Nat
  BY BlockIsPath, ReporterAssumption DEF IInv, WorldTypeOK, ReporterAssumption
<1>2. OnChain(lrzTip, btcTip)
  BY DEF CatchUpTips
<1>3. PICK h \in m..(n - 2 * K) : lrzTip' = AncestorAt(btcTip, h)
  BY DEF CatchUpTips, CatchUpLimit, Height
<1> HIDE DEF n, m
<1>4. h \in 1..n /\ h \in 1..(n - Delay) /\ m \in 1..h
  BY <1>1
<1>5. lrzTip' \in Block /\ lrzTip' \in Matured(btcTip)
  BY <1>1, <1>3, <1>4, AncestorIsBlock DEF Matured, Height, n
<1>6. OnChain(lrzTip, lrzTip')
  BY <1>1, <1>2, <1>3, <1>4, OnChainIsAncestor, AncestorsAreOnChain DEF n, m
<1>7. ChainWork[lrzTip] < ChainWork[lrzTip']
  BY <1>1, <1>5, <1>6, WorkGrows
<1>8. ChainWork[lrzTip] \in Nat /\ ChainWork[lrzTip'] \in Nat
  BY <1>1, <1>5, WorkAssumption DEF WorkAssumption
<1>9. ChainWork[lrzTip'] > ChainWork[lrzTip]
  BY <1>7, <1>8
<1> QED
  BY <1>5, <1>9 DEF Moves, MaturedIsClosed

LEMMA InsertMoves ==
  ASSUME IInv, MatureInv, pc = "insert", Accepts(lrzTip, Chunk), lrzTip' = InsertHeaders(Chunk)
  PROVE  Moves
<1>1. /\ headers \in Seq(Block) /\ headers # <<>>
      /\ \A i \in 1..Len(headers) : headers[i] \in matured
  BY ProcessParts DEF IInv, MatureInv, OnlyMatureHeaders
<1>2. lrzTip' \in matured
  BY <1>1, ChunkIsMature
<1> QED
  BY <1>2 DEF Moves, Accepts, InsertHeaders

LEMMA LorenzoMoves ==
  ASSUME IInv, MatureInv, Delay <= 2 * K, "rival" \notin FaultKinds, Next, lrzTip' # lrzTip
  PROVE  Moves /\ UNCHANGED node
<1>1. MaturedIsClosed
  BY DEF MatureInv
<1>2. CASE CatchUp \/ (CatchUpFails /\ UNCHANGED node)
  BY <1>1, <1>2, CatchUpMoves DEF CatchUp, CatchUpFails
<1>3. CASE SubmitChunk
  BY <1>3, InsertMoves DEF SubmitChunk
<1>4. CASE LorenzoRequestFails \/ BTCRequestFails
  <2>1. UNCHANGED node
    BY <1>4 DEF LorenzoRequestFails, BTCRequestFails
  <2>2. \/ CatchUpFails
        \/ pc = "insert" /\ Accepts(lrzTip, Chunk) /\ lrzTip' = InsertHeaders(Chunk)
    BY <1>4 DEF LorenzoRequestFails, BTCRequestFails
  <2> QED
    BY <1>2, <2>1, <2>2, InsertMoves
<1>5. ~\E t \in Block : RivalInsert(t)
  BY DEF RivalInsert, Fault
<1>6. CASE Step
  <2>1. CatchUp \/ SubmitChunk
    BY <1>6 DEF Step, Start, Bootstrap, ProcessHeaders, HandleEvent, AlreadyClose,
      CatchUpOnStaleFork, WaitUntilBTCSync, InitBTCCache, Subscribe, CheckConsistency, Dedup,
      ReceiveEvent, Mature, RejectConnected, SkipConnected, ExtendCache, QueryLorenzoTip,
      HandleDisconnected
  <2> QED
    BY <1>2, <1>3, <2>1
<1>7. CASE Faults
  BY <1>4, <1>5, <1>7 DEF Faults, LoseEvent, Crash, Restart
<1>8. ~SubscriptionBegins /\ ~\E t \in Block : NodeAdvance(t)
  BY DEF SubscriptionBegins, NodeAdvance
<1> QED
  BY <1>6, <1>7, <1>8 DEF Next

\* Only the node's own steps move it.
LEMMA OthersKeepNode ==
  ASSUME [Next]_vars, ~\E t \in Block : NodeAdvance(t)
  PROVE  UNCHANGED node
BY DEF Next, vars, node, Step, Start, Bootstrap, ProcessHeaders, HandleEvent, Faults,
       AlreadyClose, CatchUp, CatchUpOnStaleFork, WaitUntilBTCSync, InitBTCCache, Subscribe,
       CheckConsistency, Dedup, SubmitChunk, ReceiveEvent, Mature, RejectConnected,
       SkipConnected, ExtendCache, QueryLorenzoTip, HandleDisconnected, LorenzoRequestFails,
       BTCRequestFails, LoseEvent, RivalInsert, Crash, Restart, SubscriptionBegins

LEMMA RelaysInit ==
  ASSUME Init
  PROVE  Relays!Init
<1>1. btcTip \in Block /\ matured = Matured(btcTip) /\ lrzTip \in Block
  BY ReporterAssumption DEF ReporterAssumption, Init
<1> QED
  BY <1>1 DEF Relays!Init, Relays!DeepIn, Relays!AncestorAt, Relays!Height, Matured, AncestorAt,
              Height

LEMMA RelaysNext ==
  ASSUME Delay <= 2 * K, "rival" \notin FaultKinds, IInv, MatureInv, [Next]_vars
  PROVE  [Relays!Next]_(Relays!vars)
<1>1. CASE \E t \in Block : NodeAdvance(t)
  BY <1>1
  DEF NodeAdvance, Relays!Next, Relays!SourceAdvances, Relays!DeepIn, Relays!AncestorAt,
      Relays!Height, Matured, AncestorAt, Height
<1>2. CASE ~\E t \in Block : NodeAdvance(t)
  <2>1. UNCHANGED node
    BY <1>2, OthersKeepNode
  <2>2. CASE lrzTip' = lrzTip
    BY <2>1, <2>2 DEF Relays!vars, node
  <2>3. CASE lrzTip' # lrzTip
    <3>1. Next
      BY <2>3 DEF vars
    <3>2. Moves
      BY <2>3, <3>1, LorenzoMoves
    <3>3. lrzTip # NoBlock
      BY BlockIsPath DEF IInv, WorldTypeOK, NoBlock
    <3> QED
      BY <2>1, <3>2, <3>3 DEF Relays!Next, Relays!Relay, Moves, node
  <2> QED
    BY <2>2, <2>3
<1> QED
  BY <1>1, <1>2

(***************************************************************************)
(* Catching up, bootstraps, events and reorganisations, failed, repeated   *)
(* or cut into messages, implement HeaderRelay: Lorenzo only moves to a    *)
(* header that had Delay blocks on top, and to more work (utils.go 57-122, *)
(* block_handler.go 100-180, reporter.go 150-195).                         *)
(***************************************************************************)
THEOREM ImplementsHeaderRelay ==
  ASSUME HeavierIsHigher, Delay <= 2 * K, "rival" \notin FaultKinds
  PROVE  Spec => RelaysBuriedHeaders
<1>1. Init => Relays!Init
  BY RelaysInit
<1>2. IInv /\ MatureInv /\ [Next]_vars => [Relays!Next]_(Relays!vars)
  BY RelaysNext
<1> QED
  BY <1>1, <1>2, AlwaysMature, PTL DEF Spec, RelaysBuriedHeaders, Relays!Spec

-----------------------------------------------------------------------------
(***************************************************************************)
(* A bootstrap beats Lorenzo's fork.  Heights now measure work, and a      *)
(* message holds more than K headers: a fork that left the node's chain at *)
(* most K blocks below Lorenzo's tip is then overtaken by the first one.   *)
(***************************************************************************)
WorkIsHeight == \A b, c \in Block : ChainWork[b] > ChainWork[c] <=> Height(b) > Height(c)

\* A lower block than the best one by Delay, or that deep on the best chain.
Trails(b, t) ==
  /\ Height(b) + Delay <= Height(t)
  /\ Height(b) + Delay = Height(t) => OnChain(b, t)

MaturedTrails == \A b \in matured : Trails(b, btcTip)

\* Lorenzo trails the cache a bootstrap loaded.
LoadedBeats ==
  pc \in {"subscribe", "consistency"} => cache.blocks # <<>> /\ Trails(lrzTip, Tip(cache))

\* The headers connect to Lorenzo's chain, and end above its tip or at it.
Attach(tip, hs) ==
  /\ hs # <<>> /\ IsChain(hs) /\ Height(hs[1]) > 1
  /\ OnChain(Parent(hs[1]), tip)
  /\ Height(tip) <= Height(hs[Len(hs)])
  /\ Height(tip) = Height(hs[Len(hs)]) => tip = hs[Len(hs)]

\* And they fork from that chain at most K below the tip.
Overtake(tip, hs) == Attach(tip, hs) /\ Height(hs[1]) + K > Height(tip)

HeadersBeat ==
  pc \in {"dedup", "insert"} /\ InBootstrap =>
    /\ Overtake(lrzTip, headers)
    /\ pc = "insert" => ~OnChain(headers[1], lrzTip)

ForkInv ==
  /\ lrzTip \in matured
  /\ MaturedTrails
  /\ LoadedBeats
  /\ HeadersBeat

\* The headers' first message then beats Lorenzo's chain.
LEMMA OvertakingIsAccepted ==
  ASSUME WorkIsHeight, MaxHeaders > K, lrzTip \in Block, headers \in Seq(Block),
         Overtake(lrzTip, headers), ~OnChain(headers[1], lrzTip)
  PROVE  Accepts(lrzTip, Chunk)
<1> DEFINE n    == Len(headers)
           m    == IF n < MaxHeaders THEN n ELSE MaxHeaders
           h(i) == Height(headers[i])
           top  == Height(lrzTip)
<1>1. /\ n \in Nat /\ n >= 1 /\ MaxHeaders \in Nat /\ K \in Nat /\ MaxHeaders > K
      /\ \A i \in 1..n : headers[i] \in Block
  BY ReporterAssumption DEF ReporterAssumption, Overtake, Attach
<1>2. /\ top \in Nat /\ \A i \in 1..n : h(i) \in Nat /\ h(i) = h(n) - (n - i)
  BY <1>1, BlockIsPath, ChainHeights DEF Overtake, Attach, Height
<1>3. /\ h(1) > 1 /\ OnChain(Parent(headers[1]), lrzTip)
      /\ h(1) + K > top /\ top <= h(n) /\ (top = h(n) => lrzTip = headers[n])
  BY DEF Overtake, Attach
<1>4. OnChain(headers[1], headers[n])
  BY <1>1, ChainIsBelowLast DEF Overtake, Attach
<1>5. top # h(n)
  BY <1>3, <1>4
<1> HIDE DEF n, h, top
<1>6. m \in 1..n /\ 1 \in 1..n /\ n \in 1..n
  BY <1>1
<1>7. h(m) > top
  <2>1. CASE m = n
    BY <1>2, <1>3, <1>5, <1>6, <2>1
  <2>2. CASE m = MaxHeaders
    <3>1. h(m) = h(n) - (n - m) /\ h(1) = h(n) - (n - 1) /\ h(n) \in Nat /\ h(1) \in Nat
      BY <1>2, <1>6
    <3> HIDE DEF m
    <3> QED
      BY <1>1, <1>2, <1>3, <1>6, <2>2, <3>1
  <2> QED
    BY <2>1, <2>2
<1>8. Chunk = SubSeq(headers, 1, m)
  BY DEF Chunk, n
<1> HIDE DEF m
<1>9. Len(Chunk) = m /\ Chunk[m] = headers[m] /\ Chunk[1] = headers[1]
  BY <1>6, <1>8 DEF n
<1>10. ChainWork[headers[m]] > ChainWork[lrzTip]
  BY <1>1, <1>6, <1>7 DEF WorkIsHeight, h, top
<1> QED
  BY <1>3, <1>9, <1>10 DEF Accepts, ContainsBTCBlock, h

\* Nothing is claimed outside a bootstrap's last steps.
LEMMA ElsewhereBeats ==
  ASSUME (lrzTip \in matured)', MaturedTrails',
         pc' \notin {"subscribe", "consistency"},
         pc' \in {"dedup", "insert"} => event' # NoEvent
  PROVE  ForkInv'
BY DEF ForkInv, LoadedBeats, HeadersBeat, InBootstrap

\* What was deep enough stays behind the best block.
LEMMA MaturedKeepsTrailing ==
  ASSUME WorkIsHeight, IInv, ForkInv, Next
  PROVE  MaturedTrails'
<1>1. btcTip \in Block /\ matured \subseteq Block /\ Delay \in Nat
  BY ReporterAssumption DEF IInv, WorldTypeOK, ReporterAssumption
<1>2. CASE \E t \in Block : NodeAdvance(t)
  <2>1. PICK t \in Block : NodeAdvance(t)
    BY <1>2
  <2>2. btcTip' = t /\ matured' = matured \cup Matured(t) /\ Height(t) > Height(btcTip)
    BY <1>1, <2>1 DEF NodeAdvance, WorkIsHeight
  <2>3. Height(t) \in Nat /\ Height(btcTip) \in Nat /\ Height(t) = Len(t)
    BY <1>1, BlockIsPath DEF Height
  <2>4. ASSUME NEW b \in matured
        PROVE  Trails(b, t)
    <3>1. Height(b) \in Nat
      BY <1>1, BlockIsPath DEF Height
    <3>2. Height(b) + Delay <= Height(btcTip)
      BY DEF ForkInv, MaturedTrails, Trails
    <3>3. Height(b) + Delay < Height(t)
      BY <1>1, <2>2, <2>3, <3>1, <3>2
    <3> QED
      BY <1>1, <2>3, <3>1, <3>3 DEF Trails
  <2>5. ASSUME NEW b \in Matured(t)
        PROVE  Trails(b, t)
    <3>1. PICK h \in 1..(Height(t) - Delay) : b = AncestorAt(t, h)
      BY DEF Matured
    <3>2. h \in 1..Len(t) /\ h + Delay <= Height(t)
      BY <1>1, <2>3
    <3>3. Height(b) = h /\ OnChain(b, t)
      BY <3>1, <3>2, AncestorIsBlock, AncestorIsOnChain DEF Height
    <3> QED
      BY <3>2, <3>3 DEF Trails
  <2> QED
    BY <2>2, <2>4, <2>5 DEF MaturedTrails
<1>3. CASE ~\E t \in Block : NodeAdvance(t)
  <2>1. UNCHANGED node
    BY <1>3, OthersKeepNode
  <2> QED
    BY <2>1 DEF ForkInv, MaturedTrails, Trails, node, Height, OnChain
<1> QED
  BY <1>2, <1>3

\* The cache that InitBTCCache leaves: the node's chain from the base height to its tip.
LEMMA LoadedBeatsAfterInit ==
  ASSUME IInv, ForkInv, InitBTCCache, pc' = "subscribe"
  PROVE  LoadedBeats'
<1> DEFINE ibs == ChainSegment(btcTip, CacheBaseHeight, Len(btcTip))
<1>1. cache'.blocks = ibs /\ ibs # <<>> /\ ibs[Len(ibs)] = btcTip /\ btcTip' = btcTip
  BY LoadedBlocks
<1>2. lrzTip' = lrzTip /\ Trails(lrzTip, btcTip)
  BY DEF InitBTCCache, ForkInv, MaturedTrails
<1> HIDE DEF ibs
<1>3. Tip(cache') = btcTip /\ cache'.blocks # <<>>
  BY <1>1 DEF Tip
<1> QED
  BY <1>2, <1>3 DEF LoadedBeats, Trails, Tip, Height, OnChain

\* A bootstrap's headers: what the cache holds above the confirmed block, less Delay.
LEMMA ConsistentHeadersOvertake ==
  ASSUME IInv, ForkInv, CheckConsistency, pc' = "dedup"
  PROVE  LET last == headers'[Len(headers')]
         IN  /\ Overtake(lrzTip, headers')
             /\ last \in Block /\ OnChain(last, Tip(cache))
             /\ Height(last) + Delay = Height(Tip(cache))
<1> DEFINE s    == cache.blocks
           n    == Len(s)
           ch   == ConsistencyHeight
           ibs  == GetLastBlocks(cache, ch + 1)
           h(i) == Height(s[i])
           top  == Height(lrzTip)
<1>1. /\ FindBlock(cache, ch) # NoBlock
      /\ ContainsBTCBlock(lrzTip, FindBlock(cache, ch))
      /\ ~HeightOutOfRange(cache, ch + 1) /\ ~(Len(ibs) <= Delay)
      /\ headers' = WithoutDelay(ibs)
  BY DEF CheckConsistency, Exit, Goto
<1>2. /\ cache \in Caches /\ s # <<>> /\ s \in Seq(Block) /\ IsChain(s) /\ lrzTip \in Block
      /\ Trails(lrzTip, Tip(cache)) /\ Tip(cache) = s[n] /\ Size(cache) = n
  BY ProcessParts DEF IInv, WorldTypeOK, ForkInv, LoadedBeats, CheckConsistency, Caches, Tip, Size
<1>3. n \in Nat /\ n >= 1 /\ \A i \in 1..n : s[i] \in Block
  BY <1>2
<1>4. \A i \in 1..n : h(i) \in Nat /\ h(i) = h(n) - (n - i)
  BY <1>2, <1>3, BlockIsPath, ChainHeights DEF Height
<1>5. ch \in Nat /\ ch >= 1 /\ ch + K >= top /\ top \in Nat /\ K \in Nat /\ Delay \in Nat
  <2>1. top \in Nat
    BY <1>2, BlockIsPath DEF Height
  <2>2. BaseHeight \in Nat \ {0} /\ K \in Nat /\ Delay \in Nat
    BY ReporterAssumption DEF ReporterAssumption
  <2> HIDE DEF top
  <2>3. ch = IF top >= BaseHeight + K THEN top - K ELSE BaseHeight
    BY DEF ConsistencyHeight, top
  <2> HIDE DEF ch
  <2> QED
    BY <2>1, <2>2, <2>3
<1>6. PICK i \in 1..n : h(i) = ch /\ FindBlock(cache, ch) = s[i]
  BY <1>1, <1>2, <1>5, FindBlockIsRight, ChainAscends
<1>7. ~(h(n) < ch + 1)
  BY <1>1, <1>2 DEF HeightOutOfRange
<1>8. PICK j \in 1..n :
        /\ ibs = SubSeq(s, j, n)
        /\ IF \E k \in 1..n : h(k) = ch + 1
             THEN \A k \in 1..n : k >= j <=> h(k) >= ch + 1
             ELSE j = 1
  <2>1. ch + 1 \in Int
    BY <1>5
  <2> HIDE DEF ch
  <2> QED
    BY <1>2, <2>1, GetLastBlocksIsRight, ChainAscends
<1>9. /\ Trails(lrzTip, s[n]) /\ OnChain(s[i], lrzTip)
  BY <1>1, <1>2, <1>6 DEF ContainsBTCBlock
<1>10. top + Delay <= h(n) /\ (top + Delay = h(n) => OnChain(lrzTip, s[n]))
  BY <1>9 DEF Trails
<1> HIDE DEF n, ch, ibs, h, top
<1>11. i + 1 \in 1..n /\ h(i + 1) = ch + 1 /\ j = i + 1
  <2>1. i + 1 \in 1..n
    BY <1>3, <1>4, <1>5, <1>6, <1>7
  <2>2. h(i + 1) = ch + 1
    BY <1>3, <1>4, <1>5, <1>6, <2>1
  <2>3. \A k \in 1..n : k >= j <=> h(k) >= ch + 1
    BY <1>8, <2>1, <2>2
  <2>4. ~(i >= j) /\ i + 1 >= j
    BY <1>5, <1>6, <2>1, <2>2, <2>3
  <2> QED
    BY <1>6, <1>8, <2>1, <2>2, <2>4
<1> DEFINE m == n - i
           l == m - Delay
<1>12. /\ ibs \in Seq(Block) /\ Len(ibs) = m /\ IsChain(ibs)
       /\ \A k \in 1..m : ibs[k] = s[i + k]
  <2>1. i + 1 \in 1..(Len(s) + 1) /\ n \in 0..Len(s) /\ ibs = SubSeq(s, i + 1, n)
    BY <1>3, <1>8, <1>11 DEF n
  <2>2. ibs \in Seq(Block) /\ IsChain(ibs)
    BY <1>2, <2>1, SubSeqOfBlocks, SubSeqOfChain
  <2>3. Len(ibs) = m /\ \A k \in 1..m : ibs[k] = s[i + k]
    BY <1>2, <1>3, <1>11, <2>1 DEF n
  <2> QED
    BY <2>2, <2>3
<1>13. m \in Nat /\ l \in 1..m
  BY <1>1, <1>3, <1>5, <1>11, <1>12
<1>14. headers' = SubSeq(ibs, 1, l)
  BY <1>1, <1>12 DEF WithoutDelay
<1> HIDE DEF m, l
<1>15. /\ headers' \in Seq(Block) /\ Len(headers') = l /\ IsChain(headers')
       /\ headers'[1] = ibs[1] /\ headers'[l] = ibs[l]
  <2>1. 1 \in 1..(Len(ibs) + 1) /\ l \in 0..Len(ibs)
    BY <1>12, <1>13
  <2>2. headers' \in Seq(Block) /\ IsChain(headers')
    BY <1>12, <1>14, <2>1, SubSeqOfBlocks, SubSeqOfChain
  <2>3. Len(headers') = l /\ headers'[1] = ibs[1] /\ headers'[l] = ibs[l]
    BY <1>12, <1>13, <1>14, <2>1
  <2> QED
    BY <2>2, <2>3
<1>16. headers'[1] = s[i + 1] /\ headers'[l] = s[n - Delay] /\ n - Delay \in 1..n
  <2>1. 1 \in 1..m /\ l \in 1..m
    BY <1>13
  <2>2. i + l = n - Delay /\ n - Delay \in 1..n
    BY <1>3, <1>5, <1>6, <1>13 DEF m, l
  <2> QED
    BY <1>12, <1>15, <2>1, <2>2
<1>17. Parent(headers'[1]) = s[i]
  <2>1. i \in 1..(n - 1)
    BY <1>3, <1>6, <1>11
  <2> QED
    BY <1>2, <1>16, <2>1 DEF IsChain, n
<1>18. h(n - Delay) = h(n) - Delay /\ h(n) \in Nat
  <2>1. n \in 1..n /\ n - (n - Delay) = Delay
    BY <1>3, <1>5
  <2> QED
    BY <1>4, <1>16, <2>1
<1>19. top <= h(n - Delay) /\ (top = h(n - Delay) => top + Delay = h(n))
  BY <1>5, <1>10, <1>18
<1>20. ASSUME top = h(n - Delay)
       PROVE  lrzTip = s[n - Delay]
  <2>1. OnChain(lrzTip, s[n]) /\ OnChain(s[n - Delay], s[n])
    BY <1>2, <1>10, <1>16, <1>19, <1>20, ChainIsBelowLast DEF n
  <2>2. lrzTip = AncestorAt(s[n], Len(lrzTip)) /\ s[n - Delay] = AncestorAt(s[n], Len(s[n - Delay]))
    <3>1. s[n] \in Block /\ s[n - Delay] \in Block
      BY <1>3, <1>16
    <3> QED
      BY <1>2, <2>1, <3>1, OnChainIsAncestor
  <2> QED
    BY <1>20, <2>2 DEF top, h, Height
<1>21. h(i + 1) > 1 /\ h(i + 1) + K > top
  BY <1>5, <1>11
<1>22. headers' # <<>>
  BY <1>13, <1>15
<1>23. Overtake(lrzTip, headers')
  BY <1>9, <1>15, <1>16, <1>17, <1>19, <1>20, <1>21, <1>22 DEF Overtake, Attach, h, top
<1>24. OnChain(s[n - Delay], s[n]) /\ s[n - Delay] \in Block
  BY <1>2, <1>3, <1>16, ChainIsBelowLast DEF n
<1>25. Height(s[n - Delay]) + Delay = Height(s[n])
  BY <1>5, <1>18 DEF h
<1> QED
  BY <1>2, <1>15, <1>16, <1>23, <1>24, <1>25

\* The first header Lorenzo lacks follows one it has.
LEMMA DedupAttaches ==
  ASSUME IInv, Dedup, pc' = "insert", Attach(lrzTip, headers)
  PROVE  /\ Attach(lrzTip, headers') /\ ~OnChain(headers'[1], lrzTip)
         /\ Height(headers'[1]) >= Height(headers[1])
         /\ headers'[1] \in Block /\ OnChain(headers'[1], headers[Len(headers)])
         /\ headers'[Len(headers')] = headers[Len(headers)]
<1> DEFINE n       == Len(headers)
           h(k)    == Height(headers[k])
           missing == {i \in 1..n : ~ContainsBTCBlock(lrzTip, headers[i])}
<1>1. /\ headers \in Seq(Block) /\ n \in Nat /\ \A k \in 1..n : headers[k] \in Block
  BY ProcessParts DEF IInv
<1>2. PICK i \in missing : (\A k \in missing : i <= k) /\ headers' = SubSeq(headers, i, n)
  <2>1. missing # {}
    BY DEF Dedup, ProcessingSucceeds, EventDone, Goto
  <2> QED
    BY <2>1 DEF Dedup
<1>3. i \in 1..n /\ ~OnChain(headers[i], lrzTip)
  BY DEF ContainsBTCBlock
<1>4. \A k \in 1..n : k < i => OnChain(headers[k], lrzTip)
  <2> TAKE k \in 1..n
  <2> HAVE k < i
  <2>1. ~(i <= k) /\ k \notin missing
    BY <1>1, <1>2, <1>3
  <2> QED
    BY <2>1 DEF ContainsBTCBlock
<1>5. \A k \in 1..n : h(k) \in Nat /\ h(k) = h(n) - (n - k)
  BY <1>1, BlockIsPath, ChainHeights DEF Height, Attach
<1>6. /\ IsChain(headers) /\ h(1) > 1 /\ OnChain(Parent(headers[1]), lrzTip)
      /\ Height(lrzTip) <= h(n)
      /\ Height(lrzTip) = h(n) => lrzTip = headers[n]
  BY DEF Attach
<1> HIDE DEF n, h, missing
<1>7. OnChain(Parent(headers[i]), lrzTip)
  <2>1. CASE i = 1
    BY <1>6, <2>1
  <2>2. CASE i # 1
    <3>1. i - 1 \in 1..(n - 1) /\ i - 1 \in 1..n /\ i - 1 < i /\ i - 1 + 1 = i
      BY <1>1, <1>3, <2>2
    <3>2. Parent(headers[i]) = headers[i - 1]
      BY <1>6, <3>1 DEF IsChain, n
    <3> QED
      BY <1>4, <3>1, <3>2
  <2> QED
    BY <2>1, <2>2
<1>8. h(i) >= h(1)
  <2>1. 1 \in 1..n /\ n \in 1..n
    BY <1>1, <1>3
  <2>2. h(1) = h(n) - (n - 1) /\ h(i) = h(n) - (n - i) /\ h(n) \in Nat
    BY <1>3, <1>5, <2>1
  <2> QED
    BY <1>1, <1>3, <2>2
<1>9. h(i) > 1
  <2>1. h(i) \in Nat /\ h(1) \in Nat
    <3>1. 1 \in 1..n
      BY <1>1, <1>3
    <3> QED
      BY <1>3, <1>5, <3>1
  <2> QED
    BY <1>6, <1>8, <2>1
<1>10. /\ headers' # <<>> /\ IsChain(headers') /\ headers'[1] = headers[i]
       /\ headers'[Len(headers')] = headers[n]
  <2>1. i \in 1..(Len(headers) + 1) /\ n \in 0..Len(headers) /\ n = Len(headers)
    BY <1>1, <1>3 DEF n
  <2>2. IsChain(headers')
    BY <1>1, <1>2, <1>6, <2>1, SubSeqOfChain
  <2>3. Len(headers') = n - i + 1 /\ \A k \in 1..Len(headers') : headers'[k] = headers[i + k - 1]
    BY <1>1, <1>2, <1>3, <2>1
  <2>4. n - i + 1 >= 1 /\ 1 \in 1..(n - i + 1) /\ n - i + 1 \in 1..(n - i + 1)
        /\ i + 1 - 1 = i /\ i + (n - i + 1) - 1 = n
    BY <1>1, <1>3
  <2> QED
    BY <2>2, <2>3, <2>4
<1>11. headers[i] \in Block /\ OnChain(headers[i], headers[n])
  BY <1>1, <1>3, <1>6, ChainIsBelowLast DEF n
<1>12. Attach(lrzTip, headers')
  BY <1>6, <1>7, <1>9, <1>10 DEF Attach, h
<1> QED
  BY <1>3, <1>8, <1>10, <1>11, <1>12 DEF h, n

LEMMA DedupOvertakes ==
  ASSUME IInv, Dedup, pc' = "insert", Overtake(lrzTip, headers)
  PROVE  /\ Overtake(lrzTip, headers') /\ ~OnChain(headers'[1], lrzTip)
         /\ headers'[Len(headers')] = headers[Len(headers)]
<1>1. /\ Attach(lrzTip, headers') /\ ~OnChain(headers'[1], lrzTip)
      /\ Height(headers'[1]) >= Height(headers[1]) /\ headers'[1] \in Block
      /\ headers'[Len(headers')] = headers[Len(headers)]
  BY DedupAttaches DEF Overtake
<1>2. headers[1] \in Block /\ lrzTip \in Block /\ K \in Nat /\ Height(headers[1]) + K > Height(lrzTip)
  BY ProcessParts, ReporterAssumption DEF IInv, WorldTypeOK, Overtake, Attach, ReporterAssumption
<1>3. Height(headers'[1]) \in Nat /\ Height(headers[1]) \in Nat /\ Height(lrzTip) \in Nat
  BY <1>1, <1>2, BlockIsPath DEF Height
<1>4. Height(headers'[1]) + K > Height(lrzTip)
  BY <1>1, <1>2, <1>3
<1> QED
  BY <1>1, <1>4 DEF Overtake

\* What is left after an accepted message goes on from Lorenzo's new tip.
LEMMA RestOvertakes ==
  ASSUME IInv, SubmitChunk, pc' = "insert", IsChain(headers)
  PROVE  /\ Overtake(lrzTip', headers') /\ ~OnChain(headers'[1], lrzTip')
         /\ headers'[Len(headers')] = headers[Len(headers)]
<1> DEFINE n    == Len(headers)
           h(k) == Height(headers[k])
           m    == IF n < MaxHeaders THEN n ELSE MaxHeaders
<1>1. /\ headers \in Seq(Block) /\ n \in Nat /\ \A k \in 1..n : headers[k] \in Block
      /\ n >= 1 /\ MaxHeaders \in Nat \ {0} /\ K \in Nat \ {0}
  BY ProcessParts, ReporterAssumption DEF IInv, SubmitChunk, ReporterAssumption
<1>2. headers' = Rest /\ Rest # <<>> /\ lrzTip' = InsertHeaders(Chunk)
  BY DEF SubmitChunk, ProcessingFails, ProcessingSucceeds, BootstrapFails, BeginBootstrap,
         EventDone, Goto, Exit
<1>3. \A k \in 1..n : h(k) \in Nat /\ h(k) = h(n) - (n - k)
  BY <1>1, BlockIsPath, ChainHeights DEF Height
<1>4. Chunk = SubSeq(headers, 1, m) /\ Rest = SubSeq(headers, Len(Chunk) + 1, n)
  BY DEF Chunk, Rest
<1> HIDE DEF n
<1>5. m \in 1..n
  BY <1>1
<1> HIDE DEF m, h
<1>6. Len(Chunk) = m /\ InsertHeaders(Chunk) = headers[m]
  BY <1>1, <1>4, <1>5 DEF InsertHeaders, n
<1>7. headers' = SubSeq(headers, m + 1, n) /\ lrzTip' = headers[m]
  BY <1>2, <1>4, <1>6
<1>8. m + 1 \in 1..n
  <2>1. CASE m = n
    BY <1>1, <1>2, <1>7, <2>1 DEF n
  <2>2. CASE m # n
    BY <1>1, <1>5, <2>2
  <2> QED
    BY <2>1, <2>2
<1>9. /\ headers' # <<>> /\ IsChain(headers') /\ headers'[1] = headers[m + 1]
      /\ headers'[Len(headers')] = headers[n]
  <2>1. m + 1 \in 1..(Len(headers) + 1) /\ n \in 0..Len(headers) /\ n = Len(headers)
    BY <1>1, <1>8 DEF n
  <2>2. IsChain(headers')
    BY <1>1, <1>7, <2>1, SubSeqOfChain
  <2>3. Len(headers') = n - m /\ \A k \in 1..Len(headers') : headers'[k] = headers[m + k]
    BY <1>1, <1>5, <1>7, <1>8, <2>1
  <2>4. n - m >= 1 /\ 1 \in 1..(n - m) /\ n - m \in 1..(n - m) /\ m + (n - m) = n
    BY <1>1, <1>5, <1>8
  <2> QED
    BY <2>2, <2>3, <2>4
<1>10. Parent(headers[m + 1]) = headers[m] /\ OnChain(headers[m], headers[m])
  <2>1. m \in 1..(n - 1)
    BY <1>1, <1>5, <1>8
  <2> QED
    BY <1>1, <1>5, <2>1, OnChainReflexive DEF IsChain, n
<1>11. h(m + 1) = h(m) + 1 /\ h(m) < h(n) /\ h(m + 1) > 1 /\ h(m + 1) + K > h(m)
  <2>1. n \in 1..n
    BY <1>1
  <2>2. /\ h(m) = h(n) - (n - m) /\ h(m + 1) = h(n) - (n - (m + 1))
        /\ h(n) \in Nat /\ h(m) \in Nat /\ h(m) >= 1
    BY <1>1, <1>3, <1>5, <1>8, <2>1, BlockIsPath DEF h, Height
  <2> QED
    BY <1>1, <1>5, <1>8, <2>2
<1>12. ~OnChain(headers[m + 1], headers[m])
  <2>1. h(m + 1) = Len(headers[m + 1]) /\ h(m) = Len(headers[m]) /\ h(m) \in Nat
    BY <1>3, <1>5 DEF h, Height
  <2>2. ~(Len(headers[m + 1]) <= Len(headers[m]))
    BY <1>11, <2>1
  <2> QED
    BY <2>2 DEF OnChain
<1>13. h(m) <= h(n) /\ h(m) # h(n)
  <2>1. n \in 1..n
    BY <1>1
  <2> QED
    BY <1>3, <1>5, <1>11, <2>1
<1>14. Overtake(headers[m], headers')
  BY <1>9, <1>10, <1>11, <1>13 DEF Overtake, Attach, h
<1> QED
  BY <1>7, <1>9, <1>12, <1>14 DEF n

\* Lorenzo's tip stays one that was deep enough.
LEMMA LorenzoStaysMatured ==
  ASSUME Delay <= 2 * K, "rival" \notin FaultKinds, IInv, MatureInv, ForkInv, Next
  PROVE  (lrzTip \in matured)'
<1>1. CASE lrzTip' # lrzTip
  BY <1>1, LorenzoMoves DEF Moves, node
<1>2. CASE lrzTip' = lrzTip
  <2>1. matured \subseteq matured'
    <3>1. CASE \E t \in Block : NodeAdvance(t)
      BY <3>1 DEF NodeAdvance
    <3>2. CASE ~\E t \in Block : NodeAdvance(t)
      BY <3>2, OthersKeepNode DEF node
    <3> QED
      BY <3>1, <3>2
  <2> QED
    BY <1>2, <2>1 DEF ForkInv
<1> QED
  BY <1>1, <1>2

\* The steps of the process keep what they say of bootstraps.
LEMMA StepBeats ==
  ASSUME IInv, ForkInv, Step, (lrzTip \in matured)', MaturedTrails'
  PROVE  ForkInv'
<1>1. CASE InitBTCCache
  <2>1. CASE pc' = "subscribe"
    BY <1>1, <2>1, LoadedBeatsAfterInit DEF ForkInv, HeadersBeat
  <2>2. CASE pc' # "subscribe"
    <3>1. pc' = "down"
      BY <1>1, <2>2 DEF InitBTCCache, Exit, Goto
    <3> QED
      BY <3>1, ElsewhereBeats
  <2> QED
    BY <2>1, <2>2
<1>2. CASE Subscribe
  <2>1. \/ pc' = "down"
        \/ pc' = "consistency" /\ cache' = cache /\ lrzTip' = lrzTip
    BY <1>2 DEF Subscribe, Exit, Goto
  <2>2. LoadedBeats'
    BY <1>2, <2>1 DEF ForkInv, LoadedBeats, Subscribe, Trails, Tip, Height, OnChain
  <2> QED
    BY <2>1, <2>2 DEF ForkInv, HeadersBeat
<1>3. CASE CheckConsistency
  <2>1. lrzTip' = lrzTip /\ pc' \in {"down", "dedup"}
    BY <1>3 DEF CheckConsistency, Exit, Goto
  <2>2. CASE pc' = "dedup"
    <3>1. Overtake(lrzTip', headers')
      BY <1>3, <2>1, <2>2, ConsistentHeadersOvertake
    <3>2. HeadersBeat'
      BY <2>2, <3>1 DEF HeadersBeat, Overtake, Attach, IsChain, Parent, Height, OnChain
    <3> QED
      BY <2>2, <3>2 DEF ForkInv, LoadedBeats
  <2> QED
    BY <2>1, <2>2, ElsewhereBeats
<1>4. CASE Dedup
  <2>1. \/ ProcessingSucceeds
        \/ pc' = "insert" /\ event' = event /\ lrzTip' = lrzTip
    BY <1>4 DEF Dedup, Goto
  <2>2. CASE ProcessingSucceeds
    <3>1. pc' = "idle"
      BY <2>2 DEF ProcessingSucceeds, EventDone, Goto
    <3> QED
      BY <3>1, ElsewhereBeats
  <2>3. CASE pc' = "insert" /\ event' = event /\ lrzTip' = lrzTip
    <3>1. InBootstrap => Overtake(lrzTip', headers') /\ ~OnChain(headers'[1], lrzTip')
      BY <1>4, <2>3, DedupOvertakes DEF ForkInv, HeadersBeat, Dedup
    <3>2. HeadersBeat'
      BY <2>3, <3>1 DEF HeadersBeat, InBootstrap, Overtake, Attach, IsChain, Parent, Height, OnChain
    <3> QED
      BY <2>3, <3>2 DEF ForkInv, LoadedBeats
  <2> QED
    BY <2>1, <2>2, <2>3
<1>5. CASE SubmitChunk
  <2>1. \/ ProcessingSucceeds \/ ProcessingFails
        \/ pc' = "insert" /\ event' = event
    BY <1>5 DEF SubmitChunk, Goto
  <2>2. CASE ProcessingSucceeds \/ ProcessingFails
    <3>1. pc' \in {"idle", "bootstrap", "down"}
      BY <2>2 DEF ProcessingSucceeds, ProcessingFails, EventDone, Goto, BootstrapFails,
                  BeginBootstrap, Exit
    <3> QED
      BY <3>1, ElsewhereBeats
  <2>3. CASE pc' = "insert" /\ event' = event
    <3>1. InBootstrap => Overtake(lrzTip', headers') /\ ~OnChain(headers'[1], lrzTip')
      BY <1>5, <2>3, RestOvertakes DEF ForkInv, HeadersBeat, Overtake, Attach, SubmitChunk
    <3>2. HeadersBeat'
      BY <2>3, <3>1 DEF HeadersBeat, InBootstrap, Overtake, Attach, IsChain, Parent, Height, OnChain
    <3> QED
      BY <2>3, <3>2 DEF ForkInv, LoadedBeats
  <2> QED
    BY <2>1, <2>2, <2>3
<1>6. CASE ExtendCache \/ QueryLorenzoTip
  <2>1. event # NoEvent
    BY <1>6, ProcessParts DEF IInv, ExtendCache, QueryLorenzoTip, Connecting, EventSteps
  <2>2. \/ pc' \in {"down", "bootstrap", "idle", "lorenzoTip"}
        \/ pc' = "dedup" /\ event' = event
    BY <1>6 DEF ExtendCache, QueryLorenzoTip, RestartBootstrap, BeginBootstrap, Exit, EventDone, Goto
  <2> QED
    BY <2>1, <2>2, ElsewhereBeats
<1>7. CASE Start \/ WaitUntilBTCSync
  <2>1. pc' \in {"bootstrap", "down", "initCache"}
    BY <1>7 DEF Start, AlreadyClose, CatchUp, CatchUpOnStaleFork, WaitUntilBTCSync, BeginBootstrap,
                Exit, Goto
  <2> QED
    BY <2>1, ElsewhereBeats
<1>8. CASE ReceiveEvent \/ Mature \/ RejectConnected \/ SkipConnected \/ HandleDisconnected
  <2>1. pc' \in {"mature", "handle", "bootstrap", "idle"}
    BY <1>8 DEF ReceiveEvent, Mature, RejectConnected, SkipConnected, HandleDisconnected,
                RestartBootstrap, BeginBootstrap, EventDone, Goto
  <2> QED
    BY <2>1, ElsewhereBeats
<1> QED
  BY <1>1, <1>2, <1>3, <1>4, <1>5, <1>6, <1>7, <1>8 DEF Step, Bootstrap, ProcessHeaders, HandleEvent

\* The steps that leave Lorenzo and the process alone.
LEMMA OthersBeat ==
  ASSUME ForkInv, (lrzTip \in matured)', MaturedTrails',
         UNCHANGED <<lrzTip, pc, cache, event, headers>>
  PROVE  ForkInv'
BY DEF ForkInv, LoadedBeats, HeadersBeat, InBootstrap, Overtake, Attach, IsChain, Parent, Height, OnChain,
       Trails, Tip

LEMMA NextBeats ==
  ASSUME WorkIsHeight, Delay <= 2 * K, "rival" \notin FaultKinds, IInv, MatureInv, ForkInv,
         [Next]_vars
  PROVE  ForkInv'
<1>1. CASE UNCHANGED vars
  BY <1>1 DEF vars, ForkInv, MaturedTrails, LoadedBeats, HeadersBeat, InBootstrap, Overtake, Attach, IsChain,
              Parent, Height, OnChain, Trails, Tip
<1>2. CASE Next
  <2>1. (lrzTip \in matured)' /\ MaturedTrails'
    BY <1>2, LorenzoStaysMatured, MaturedKeepsTrailing
  <2>2. CASE Step
    BY <2>1, <2>2, StepBeats
  <2>3. CASE SubscriptionBegins \/ \E t \in Block : NodeAdvance(t)
    <3>1. UNCHANGED <<lrzTip, pc, cache, event, headers>>
      BY <2>3 DEF SubscriptionBegins, NodeAdvance, memory
    <3> QED
      BY <2>1, <3>1, OthersBeat
  <2>4. CASE Faults
    <3>1. CASE LoseEvent
      <4>1. UNCHANGED <<lrzTip, pc, cache, event, headers>>
        BY <3>1 DEF LoseEvent, memory
      <4> QED
        BY <2>1, <4>1, OthersBeat
    <3>2. CASE LorenzoRequestFails \/ BTCRequestFails \/ Crash \/ Restart
      <4>1. pc' \in {"down", "bootstrap", "idle", "start"}
        BY <3>2 DEF LorenzoRequestFails, BTCRequestFails, Crash, Restart, CatchUpFails,
          BootstrapFails, RestartBootstrap, ProcessingFails, BeginBootstrap, EventDone, Exit, Goto
      <4> QED
        BY <2>1, <4>1, ElsewhereBeats
    <3> QED
      BY <2>4, <3>1, <3>2 DEF Faults, RivalInsert, Fault
  <2> QED
    BY <1>2, <2>2, <2>3, <2>4 DEF Next
<1> QED
  BY <1>1, <1>2

\* Lorenzo's first tip is one of the node's blocks that are Delay deep.
LorenzoStartsBuried == \A b \in InitBTCTips, l \in InitLorenzoTips : l \in Matured(b)

LEMMA InitBeats ==
  ASSUME LorenzoStartsBuried, Init
  PROVE  ForkInv
<1>1. /\ btcTip \in Block /\ matured = Matured(btcTip) /\ lrzTip \in matured /\ pc = "start"
      /\ Delay \in Nat
  BY ReporterAssumption DEF Init, ReporterAssumption, LorenzoStartsBuried
<1>2. ASSUME NEW b \in matured
      PROVE  Trails(b, btcTip)
  <2>1. Height(btcTip) \in Nat /\ Height(btcTip) = Len(btcTip)
    BY <1>1, BlockIsPath DEF Height
  <2>2. PICK h \in 1..(Height(btcTip) - Delay) : b = AncestorAt(btcTip, h)
    BY <1>1 DEF Matured
  <2>3. h \in 1..Len(btcTip) /\ h + Delay <= Height(btcTip)
    BY <1>1, <2>1
  <2>4. Height(b) = h /\ OnChain(b, btcTip)
    BY <1>1, <2>2, <2>3, AncestorIsBlock, AncestorIsOnChain DEF Height
  <2> QED
    BY <2>3, <2>4 DEF Trails
<1> QED
  BY <1>1, <1>2 DEF ForkInv, MaturedTrails, LoadedBeats, HeadersBeat

LEMMA AlwaysBeats ==
  ASSUME WorkIsHeight, LorenzoStartsBuried, MaxHeaders > K, Delay <= 2 * K,
         "rival" \notin FaultKinds
  PROVE  Spec => [](IInv /\ MatureInv /\ ForkInv /\ BootstrapForkAccepted)
<1>1. HeavierIsHigher
  <2> SUFFICES ASSUME NEW b \in Block, NEW c \in Block, ChainWork[b] > ChainWork[c]
               PROVE  Height(b) >= Height(c)
    BY DEF HeavierIsHigher
  <2>1. Height(b) > Height(c) /\ Height(b) \in Nat /\ Height(c) \in Nat
    BY BlockIsPath DEF WorkIsHeight, Height
  <2> QED
    BY <2>1
<1>2. Spec => [](IInv /\ MatureInv)
  BY <1>1, AlwaysMature
<1>3. Init => ForkInv
  BY InitBeats
<1>4. IInv /\ MatureInv /\ ForkInv /\ [Next]_vars => ForkInv'
  BY NextBeats
<1>5. IInv /\ ForkInv => BootstrapForkAccepted
  <2> SUFFICES ASSUME IInv, ForkInv, pc = "insert", InBootstrap
               PROVE  Accepts(lrzTip, Chunk)
    BY DEF BootstrapForkAccepted
  <2>1. lrzTip \in Block /\ headers \in Seq(Block)
    BY ProcessParts DEF IInv, WorldTypeOK
  <2> QED
    BY <2>1, OvertakingIsAccepted DEF ForkInv, HeadersBeat
<1> QED
  BY <1>2, <1>3, <1>4, <1>5, PTL DEF Spec

(***************************************************************************)
(* The headers of a bootstrap, and each message they are cut into, beat    *)
(* Lorenzo's chain even when a reorganisation left Lorenzo on a fork:      *)
(* those K blocks below Lorenzo's tip from which the bootstrap starts make *)
(* up for the Delay it leaves out (bootstrapping.go 104-125, 214-236;      *)
(* utils.go 96-122).  A message must hold more than K headers: a shorter   *)
(* first one may end below Lorenzo's tip.                                  *)
(***************************************************************************)
THEOREM BootstrapAlwaysBeatsFork ==
  ASSUME WorkIsHeight, LorenzoStartsBuried, MaxHeaders > K, Delay <= 2 * K,
         "rival" \notin FaultKinds
  PROVE  Spec => []BootstrapForkAccepted
BY AlwaysBeats, PTL

-----------------------------------------------------------------------------
(***************************************************************************)
(* A bootstrap that still has to subscribe is the process's first one to   *)
(* get that far.                                                           *)
(***************************************************************************)
FirstSubscription ==
  /\ pc \in {"down", "start"} => ~subscribed
  /\ pc \in {"bootstrap", "initCache", "subscribe"} /\ ~skip => ~subscribed
  /\ RetryDoesNotPanic

LEMMA ExitUnsubscribes ==
  ASSUME NEW reason, Exit(reason), reason # "alreadySubscribed"
  PROVE  FirstSubscription'
BY DEF Exit, FirstSubscription, RetryDoesNotPanic

LEMMA RestartBootstrapSkips ==
  ASSUME FirstSubscription, RestartBootstrap
  PROVE  FirstSubscription'
BY DEF RestartBootstrap, BeginBootstrap, FirstSubscription, RetryDoesNotPanic

LEMMA EarlyFailureKeepsFirst ==
  ASSUME FirstSubscription, BootstrapFails, pc = "bootstrap"
  PROVE  FirstSubscription'
BY ExitUnsubscribes DEF BootstrapFails, BeginBootstrap, subscription, FirstSubscription, RetryDoesNotPanic

\* Elsewhere, or after the subscription.
LEMMA LaterKeepsFirst ==
  ASSUME FirstSubscription, exit' = exit,
         pc' \in {"consistency", "dedup", "insert", "idle", "mature", "handle", "lorenzoTip"}
  PROVE  FirstSubscription'
BY DEF FirstSubscription, RetryDoesNotPanic

LEMMA NextKeepsFirst ==
  ASSUME IInv, FirstSubscription, BootstrapForkAccepted, lrzTip \in matured,
         "lorenzo" \notin FaultKinds, [Next]_vars
  PROVE  FirstSubscription'
<1>1. CASE Start
  <2>1. CASE \E reason : Exit(reason) /\ reason # "alreadySubscribed"
    BY <2>1, ExitUnsubscribes
  <2>2. CASE AlreadyClose \/ CatchUp
    BY <2>2 DEF AlreadyClose, CatchUp, BeginBootstrap, subscription, FirstSubscription, RetryDoesNotPanic
  <2> QED
    BY <1>1, <2>1, <2>2 DEF Start, CatchUpOnStaleFork
<1>2. CASE Bootstrap
  <2>1. CASE \E reason : Exit(reason) /\ reason # "alreadySubscribed"
    BY <2>1, ExitUnsubscribes
  <2>2. CASE WaitUntilBTCSync \/ InitBTCCache
    <3>1. \/ \E reason : Exit(reason) /\ reason # "alreadySubscribed"
          \/ /\ pc \in {"bootstrap", "initCache"} /\ pc' \in {"initCache", "subscribe"}
             /\ UNCHANGED <<subscribed, skip, exit>>
      BY <2>2 DEF WaitUntilBTCSync, InitBTCCache, Goto, subscription
    <3> QED
      BY <2>1, <3>1 DEF FirstSubscription, RetryDoesNotPanic
  <2>3. CASE Subscribe
    <3>1. pc = "subscribe" /\ (~skip => ~subscribed)
      BY <2>3 DEF Subscribe, FirstSubscription
    <3>2. pc' = "consistency" /\ exit' = exit
      BY <2>3, <3>1 DEF Subscribe, AlreadySubscribed, Goto
    <3> QED
      BY <3>2, LaterKeepsFirst
  <2>4. CASE CheckConsistency
    <3>1. \/ \E reason : Exit(reason) /\ reason # "alreadySubscribed"
          \/ pc' = "dedup" /\ exit' = exit
      BY <2>4 DEF CheckConsistency, Goto
    <3> QED
      BY <2>1, <3>1, LaterKeepsFirst
  <2> QED
    BY <1>2, <2>2, <2>3, <2>4 DEF Bootstrap
<1>3. CASE ProcessHeaders
  <2>1. CASE ProcessingFails
    <3>1. CASE InBootstrap
      <4>1. pc = "insert" => Accepts(lrzTip, Chunk)
        BY <3>1 DEF BootstrapForkAccepted
      <4>2. ProcessingSucceeds \/ (pc' = "insert" /\ exit' = exit)
        <5>1. CASE Dedup
          BY <5>1 DEF Dedup, Goto
        <5>2. CASE SubmitChunk
          <6>1. Accepts(lrzTip, Chunk)
            BY <4>1, <5>2 DEF SubmitChunk
          <6> QED
            BY <5>2, <6>1 DEF SubmitChunk, Goto
        <5> QED
          BY <1>3, <5>1, <5>2 DEF ProcessHeaders
      <4>3. pc' \in {"idle", "insert"} /\ exit' = exit
        BY <3>1, <4>2 DEF ProcessingSucceeds
      <4> QED
        BY <4>3, LaterKeepsFirst
    <3>2. CASE ~InBootstrap
      <4>1. pc' = "idle" /\ exit' = exit
        BY <2>1, <3>2 DEF ProcessingFails, EventDone, Goto
      <4> QED
        BY <4>1, LaterKeepsFirst
    <3> QED
      BY <3>1, <3>2
  <2>2. CASE ~ProcessingFails
    <3>1. pc' \in {"idle", "insert"} /\ exit' = exit
      BY <1>3, <2>2 DEF ProcessHeaders, Dedup, SubmitChunk, ProcessingSucceeds, EventDone, Goto
    <3> QED
      BY <3>1, LaterKeepsFirst
  <2> QED
    BY <2>1, <2>2
<1>4. CASE HandleEvent
  <2>1. \/ \E reason : Exit(reason) /\ reason # "alreadySubscribed"
        \/ RestartBootstrap
        \/ pc' \in {"dedup", "idle", "mature", "handle", "lorenzoTip"} /\ exit' = exit
    BY <1>4 DEF HandleEvent, ReceiveEvent, Mature, RejectConnected, SkipConnected, ExtendCache,
      QueryLorenzoTip, HandleDisconnected, EventDone, Goto
  <2> QED
    BY <2>1, ExitUnsubscribes, RestartBootstrapSkips, LaterKeepsFirst
<1>5. CASE UNCHANGED <<subscribed, skip, exit>> /\ (pc' = pc \/ pc = "down")
  BY <1>5 DEF FirstSubscription, RetryDoesNotPanic
<1>6. CASE SubscriptionBegins \/ (\E t \in Block : NodeAdvance(t)) \/ UNCHANGED vars
  BY <1>5, <1>6 DEF SubscriptionBegins, NodeAdvance, memory, vars
<1>7. CASE Faults
  <2>1. CASE BTCRequestFails
    BY <2>1, ExitUnsubscribes, RestartBootstrapSkips, EarlyFailureKeepsFirst DEF BTCRequestFails, CatchUpFails
  <2>2. CASE Crash
    BY <2>2, ExitUnsubscribes DEF Crash
  <2>3. CASE LoseEvent \/ (\E t \in Block : RivalInsert(t)) \/ Restart
    BY <1>5, <2>3 DEF LoseEvent, RivalInsert, Restart, subscription, memory
  <2> QED
    BY <1>7, <2>1, <2>2, <2>3 DEF Faults, LorenzoRequestFails, Fault
<1> QED
  BY <1>1, <1>2, <1>3, <1>4, <1>6, <1>7 DEF Next, Step

(***************************************************************************)
(* The process never ends on its own subscription as long as requests to   *)
(* Lorenzo succeed and no other relayer interferes, whatever else fails:   *)
(* failed requests to the node, lost events, crashes and restarts          *)
(* (bootstrapping.go 94-96, 158-179).  A bootstrap's submission is then    *)
(* accepted, so a bootstrap fails only before it subscribes.  With a       *)
(* failed request to Lorenzo the property is violated, as a run shows.     *)
(***************************************************************************)
THEOREM OnlyLorenzoFailuresPanicRetry ==
  ASSUME WorkIsHeight, LorenzoStartsBuried, MaxHeaders > K, Delay <= 2 * K,
         "rival" \notin FaultKinds, "lorenzo" \notin FaultKinds
  PROVE  Spec => []RetryDoesNotPanic
<1>1. Spec => [](IInv /\ MatureInv /\ ForkInv /\ BootstrapForkAccepted)
  BY AlwaysBeats
<1>2. Init => FirstSubscription
  BY DEF Init, FirstSubscription, RetryDoesNotPanic
<1>3. ForkInv => lrzTip \in matured
  BY DEF ForkInv
<1>4. IInv /\ FirstSubscription /\ BootstrapForkAccepted /\ lrzTip \in matured /\ [Next]_vars
        => FirstSubscription'
  BY NextKeepsFirst
<1>5. FirstSubscription => RetryDoesNotPanic
  BY DEF FirstSubscription
<1> QED
  BY <1>1, <1>2, <1>3, <1>4, <1>5, PTL DEF Spec

-----------------------------------------------------------------------------
(***************************************************************************)
(* Events bring nothing down.  The invariant: the cache is never above its *)
(* capacity, it starts below the height at which the reorg's branches      *)
(* part, and it can grow to the height of the first removed block before   *)
(* it drops its oldest one.                                                *)
(***************************************************************************)
HasRoom(c, r) ==
  c.blocks # <<>> /\ r.blocks # <<>> =>
    /\ Height(First(c)) < Height(r.blocks[Len(r.blocks)])
    /\ Height(r.blocks[1]) - Height(First(c)) + 1 <= c.maxEntries

RangeInv ==
  /\ Size(cache) <= cache.maxEntries
  /\ HasRoom(cache, reorgList)
  /\ pc \in {"lorenzoTip", "dedup", "insert"} => reorgList.blocks = <<>>
  /\ EventsDoNotPanic

LEMMA NoReorgHasRoom == ASSUME NEW c PROVE HasRoom(c, NoReorg)
BY DEF HasRoom, NoReorg

LEMMA ExitKeepsRange ==
  ASSUME NEW reason, Exit(reason), reason \notin {"cacheAdd", "reorgRange"}
  PROVE  RangeInv'
<1>1. /\ cache' = NoCache /\ reorgList' = NoReorg /\ pc' = "down" /\ exit' = reason
  BY DEF Exit
<1>2. Size(NoCache) <= NoCache.maxEntries
  BY DEF NoCache, Size
<1> QED
  BY <1>1, <1>2, NoReorgHasRoom DEF RangeInv, EventsDoNotPanic

LEMMA BeginBootstrapKeepsRange ==
  ASSUME RangeInv, NEW skp, NEW n, BeginBootstrap(skp, n)
  PROVE  RangeInv'
BY NoReorgHasRoom DEF BeginBootstrap, RangeInv, EventsDoNotPanic

LEMMA RestartBootstrapKeepsRange ==
  ASSUME RangeInv, RestartBootstrap
  PROVE  RangeInv'
BY BeginBootstrapKeepsRange DEF RestartBootstrap

LEMMA BootstrapFailsKeepsRange ==
  ASSUME RangeInv, BootstrapFails
  PROVE  RangeInv'
BY BeginBootstrapKeepsRange, ExitKeepsRange DEF BootstrapFails

\* A step that leaves the cache and the reorg list alone.
LEMMA GoesOnInRange ==
  ASSUME RangeInv, UNCHANGED <<cache, reorgList, exit>>,
         pc' \in {"lorenzoTip", "dedup", "insert"} => reorgList.blocks = <<>>
  PROVE  RangeInv'
BY DEF RangeInv, EventsDoNotPanic

LEMMA ProcessingKeepsRange ==
  ASSUME IInv, RangeInv, pc \in {"dedup", "insert"}, ProcessingSucceeds \/ ProcessingFails
  PROVE  RangeInv'
<1>1. CASE ProcessingSucceeds /\ InBootstrap
  <2>1. /\ pc' = "idle" /\ cache' = Trim(Resize(cache, K + W)) /\ UNCHANGED <<reorgList, exit>>
    BY <1>1 DEF ProcessingSucceeds
  <2>2. Size(cache') <= cache'.maxEntries
    <3>1. cache \in Caches /\ K + W \in Nat
      BY ProcessParts, ReporterAssumption DEF IInv, ReporterAssumption
    <3> QED
      BY <2>1, <3>1, SizeOfTrim
  <2>3. HasRoom(cache', reorgList')
    BY <2>1 DEF RangeInv, HasRoom
  <2> QED
    BY <2>1, <2>2, <2>3 DEF RangeInv, EventsDoNotPanic
<1>2. CASE ProcessingFails /\ InBootstrap
  BY <1>2, BootstrapFailsKeepsRange DEF ProcessingFails
<1>3. CASE ~InBootstrap
  <2>1. pc' = "idle" /\ UNCHANGED <<cache, reorgList, exit>>
    BY <1>3 DEF ProcessingSucceeds, ProcessingFails, EventDone, Goto
  <2> QED
    BY <2>1, GoesOnInRange
<1> QED
  BY <1>1, <1>2, <1>3

LEMMA BootstrapKeepsRange ==
  ASSUME IInv, FollowInv, RangeInv, Bootstrap
  PROVE  RangeInv'
<1>1. CASE \E reason : Exit(reason) /\ reason \notin {"cacheAdd", "reorgRange"}
  BY <1>1, ExitKeepsRange
<1>2. CASE ~\E reason : Exit(reason) /\ reason \notin {"cacheAdd", "reorgRange"}
  <2>1. reorgList.blocks = <<>> /\ reorgList = NoReorg
    BY BranchOfNone DEF Bootstrap, WaitUntilBTCSync, InitBTCCache, Subscribe, CheckConsistency,
       FollowInv, BootstrapSteps
  <2>2. CASE InitBTCCache
    <3> DEFINE ibs == ChainSegment(btcTip, CacheBaseHeight, Height(btcTip))
    <3>1. /\ cache' = AddAll(NewBTCCache(BTCCacheSize), ibs)
          /\ pc' = "subscribe" /\ UNCHANGED <<reorgList, exit>>
      BY <1>2, <2>2 DEF InitBTCCache, Goto
    <3>2. ibs \in Seq(Block) /\ BTCCacheSize \in Nat
      BY <2>2, <3>1, LoadedBlocks, ReporterAssumption DEF ReporterAssumption, Height
    <3>3. Size(cache') <= cache'.maxEntries
      BY <3>1, <3>2, SizeOfAddAll
    <3>4. HasRoom(cache', reorgList')
      BY <2>1, <3>1, NoReorgHasRoom
    <3> QED
      BY <3>1, <3>3, <3>4 DEF RangeInv, EventsDoNotPanic
  <2>3. CASE WaitUntilBTCSync \/ Subscribe \/ CheckConsistency
    <3>1. UNCHANGED <<cache, reorgList, exit>>
      BY <1>2, <2>3 DEF WaitUntilBTCSync, Subscribe, CheckConsistency, Goto
    <3> QED
      BY <2>1, <3>1, GoesOnInRange
  <2> QED
    BY <2>2, <2>3 DEF Bootstrap
<1> QED
  BY <1>1, <1>2

LEMMA ProcessHeadersKeepsRange ==
  ASSUME IInv, RangeInv, ProcessHeaders
  PROVE  RangeInv'
<1>1. pc \in {"dedup", "insert"}
  BY DEF ProcessHeaders, Dedup, SubmitChunk
<1>2. CASE ProcessingSucceeds \/ ProcessingFails
  BY <1>1, <1>2, ProcessingKeepsRange
<1>3. CASE ~(ProcessingSucceeds \/ ProcessingFails)
  <2>1. UNCHANGED <<cache, reorgList, exit>>
    BY <1>3 DEF ProcessHeaders, Dedup, SubmitChunk, Goto
  <2> QED
    BY <1>1, <2>1, GoesOnInRange DEF RangeInv
<1> QED
  BY <1>2, <1>3

(***************************************************************************)
(* The block that extends the cache.  As long as it does not win it is no  *)
(* higher than the first removed block, so the cache has room for it; when *)
(* it wins, at most the oldest block is dropped, which is below the fork.  *)
(***************************************************************************)
LEMMA ExtendCacheKeepsRange ==
  ASSUME WorkIsHeight, IInv, FollowInv, RangeInv, ExtendCache
  PROVE  RangeInv'
<1> DEFINE b      == event.block
           grown  == Add(cache, b)
           branch == GetLastBlocks(grown, Height(OldestRemoved))
           first  == Height(First(cache))
<1>1. /\ cache \in Caches /\ cache.blocks # <<>> /\ IsChain(cache.blocks)
      /\ b \in Block /\ Parent(b) = Tip(cache)
      /\ grown \in Caches /\ IsChain(grown.blocks) /\ grown.blocks # <<>>
  BY ConnectedBlockExtends, ProcessParts DEF IInv
<1>2. /\ Size(cache) <= cache.maxEntries /\ grown.maxEntries = cache.maxEntries
      /\ Size(grown) <= grown.maxEntries
      /\ IF Size(cache) < cache.maxEntries THEN First(grown) = First(cache)
                                           ELSE Size(grown) = Size(cache)
  BY <1>1, SizeOfAdd DEF RangeInv
<1>3. /\ first = Height(Tip(cache)) - Size(cache) + 1
      /\ Height(First(grown)) = Height(b) - Size(grown) + 1
      /\ Height(b) = Height(Tip(cache)) + 1
      /\ first \in Nat /\ Height(Tip(cache)) \in Nat /\ Height(b) \in Nat
      /\ Size(cache) \in Nat /\ Size(grown) \in Nat /\ cache.maxEntries \in Nat
      /\ Height(First(grown)) \in Nat /\ Tip(cache) \in Block /\ Tip(grown) = b
  <2>1. Tip(grown) = b
    BY <1>1, TipOfAdd
  <2>2. Height(Parent(b)) = Height(b) - 1 /\ Height(b) \in Nat
    BY <1>1, ParentIsLower, BlockIsPath DEF Height
  <2>3. cache.maxEntries \in Nat
    BY <1>1 DEF Caches
  <2> QED
    BY <1>1, <2>1, <2>2, <2>3, HeightOfFirst
<1>4. pc = "handle" /\ event.type = "connected" /\ ~AddPanics(cache)
  BY <1>2, <1>3 DEF ExtendCache, Connecting, AddPanics
<1>5. CASE reorgList.blocks = <<>>
  <2>1. cache' = grown /\ UNCHANGED <<reorgList, exit>>
    BY <1>4, <1>5 DEF ExtendCache, Goto
  <2> QED
    BY <1>2, <1>5, <2>1 DEF RangeInv, HasRoom, EventsDoNotPanic
<1>6. CASE reorgList.blocks # <<>>
  <2>1. /\ reorgList.blocks \in Seq(Block) /\ OldestRemoved \in Block /\ reorgList.blocks[1] \in Block
        /\ Height(OldestRemoved) \in Nat /\ Height(reorgList.blocks[1]) \in Nat
        /\ Parent(OldestRemoved) \in Seq(Nat) => Len(Parent(OldestRemoved)) = Height(OldestRemoved) - 1
    <3>1. reorgList.blocks \in Seq(Block)
      BY ProcessParts DEF IInv
    <3>2. OldestRemoved \in Block /\ reorgList.blocks[1] \in Block
      BY <1>6, <3>1 DEF OldestRemoved
    <3> QED
      BY <3>1, <3>2, BlockIsPath, ParentIsLower DEF Height
  <2>2. /\ Queued # <<>> /\ Queued[1] = event
        /\ InStep(Queued, btcTip, Tip(cache), reorgList)
    <3>1. Queued # <<>> /\ Queued[1] = event /\ Walk(Queued, btcTip) /\ btcTip \in Block
      BY <1>4, QueueOfEvent DEF FollowInv, IInv, WorldTypeOK
    <3>2. Following(Queued, btcTip, Tip(cache), reorgList)
      BY <1>1, <1>4 DEF FollowInv, Loaded
    <3> QED
      BY <1>1, <1>3, <1>4, <3>1, <3>2, FittingIsInStep
  <2>3. first < Height(OldestRemoved) /\ Height(reorgList.blocks[1]) - first + 1 <= cache.maxEntries
    BY <1>1, <1>6 DEF RangeInv, HasRoom, OldestRemoved
  <2>4. Height(OldestRemoved) <= Height(b)
    <3>1. Parent(OldestRemoved) \in Block /\ OnChain(Parent(OldestRemoved), Tip(cache))
      BY <1>6, <2>2 DEF InStep, OldestRemoved
    <3>2. Len(Parent(OldestRemoved)) \in 1..Len(Tip(cache))
      BY <1>3, <3>1, OnChainIsAncestor
    <3>3. Len(Parent(OldestRemoved)) = Len(OldestRemoved) - 1
      BY <2>1, ParentIsLower
    <3> QED
      BY <1>3, <2>1, <3>2, <3>3 DEF Height
  <2>5. Height(First(grown)) <= first + 1
    <3>1. CASE Size(cache) < cache.maxEntries
      BY <1>2, <1>3, <3>1
    <3>2. CASE ~(Size(cache) < cache.maxEntries)
      BY <1>2, <1>3, <3>2
    <3> QED
      BY <3>1, <3>2
  <2>6. ~HeightOutOfRange(grown, Height(OldestRemoved))
    <3>1. first \in Nat /\ Height(First(grown)) \in Nat /\ Height(OldestRemoved) \in Nat /\ Height(b) \in Nat
      BY <1>3, <2>1
    <3>2. first < Height(OldestRemoved) /\ Height(First(grown)) <= first + 1
      BY <2>3, <2>5
    <3> HIDE DEF first, grown, b
    <3>3. ~(Height(OldestRemoved) < Height(First(grown))) /\ ~(Height(b) < Height(OldestRemoved))
      BY <2>4, <3>1, <3>2
    <3> QED
      BY <1>3, <3>3 DEF HeightOutOfRange
  <2>7. cache' = grown /\ exit' = exit
    BY <1>4, <1>6, <2>6 DEF ExtendCache, EventDone, Goto
  <2>8. CASE BranchWins(branch)
    <3>1. reorgList' = NoReorg
      BY <1>4, <1>6, <2>6, <2>8 DEF ExtendCache
    <3> QED
      BY <1>2, <2>7, <3>1, NoReorgHasRoom, BranchOfNone DEF RangeInv, EventsDoNotPanic
  <2>9. CASE ~BranchWins(branch)
    <3>1. reorgList' = reorgList /\ pc' = "idle"
      BY <1>4, <1>6, <2>6, <2>9 DEF ExtendCache, EventDone, Goto
    <3>2. ChainWork[b] <= ChainWork[reorgList.blocks[1]]
      BY <1>6, <2>2, <2>6, <2>9, LosingBranch
    <3>3. Height(b) <= Height(reorgList.blocks[1])
      <4>1. ChainWork[b] \in Nat /\ ChainWork[reorgList.blocks[1]] \in Nat
        BY <1>1, <2>1, WorkAssumption DEF WorkAssumption
      <4>2. ~(ChainWork[b] > ChainWork[reorgList.blocks[1]])
        BY <3>2, <4>1
      <4>3. ~(Height(b) > Height(reorgList.blocks[1]))
        BY <1>1, <2>1, <4>2 DEF WorkIsHeight
      <4> QED
        BY <1>3, <2>1, <4>3
    <3>4. Size(cache) < cache.maxEntries
      BY <1>3, <2>1, <2>3, <3>3
    <3>5. First(grown) = First(cache)
      BY <1>2, <3>4
    <3>6. HasRoom(grown, reorgList)
      BY <1>2, <2>3, <3>5 DEF HasRoom, OldestRemoved
    <3> QED
      BY <1>2, <2>7, <3>1, <3>6 DEF RangeInv, EventsDoNotPanic
  <2> QED
    BY <2>8, <2>9
<1> QED
  BY <1>5, <1>6

LEMMA HandleDisconnectedKeepsRange ==
  ASSUME IInv, RangeInv, HandleDisconnected
  PROVE  RangeInv'
<1>1. CASE RestartBootstrap
  BY <1>1, RestartBootstrapKeepsRange
<1>2. CASE ~RestartBootstrap
  <2> DEFINE last == Tip(cache)
             rs   == Append(reorgList.blocks, last)
             d    == RemoveLast(cache)
  <2>1. /\ cache.blocks # <<>> /\ cache' = d /\ reorgList'.blocks = rs
        /\ pc' = "idle" /\ exit' = exit
    BY <1>2 DEF HandleDisconnected, EventDone, Goto
  <2>2. /\ cache \in Caches /\ IsChain(cache.blocks) /\ reorgList.blocks \in Seq(Block)
        /\ Size(cache) <= cache.maxEntries
    BY ProcessParts DEF IInv, RangeInv
  <2>3. /\ d.maxEntries = cache.maxEntries /\ Size(d) <= d.maxEntries
        /\ d.blocks # <<>> => First(d) = First(cache)
    BY <2>1, <2>2, SizeOfRemoveLast
  <2>4. /\ last \in Block /\ First(cache) \in Block
        /\ Height(First(cache)) = Height(last) - Size(cache) + 1
        /\ Height(First(cache)) \in Nat /\ Height(last) \in Nat /\ Size(cache) \in Nat
        /\ cache.maxEntries \in Nat
    <3>1. cache.maxEntries \in Nat
      BY <2>2 DEF Caches
    <3> QED
      BY <2>1, <2>2, <3>1, HeightOfFirst
  <2>5. d.blocks # <<>> => Size(cache) >= 2
    <3>1. d.blocks = SubSeq(cache.blocks, 1, Len(cache.blocks) - 1)
      BY <2>2 DEF RemoveLast, Caches
    <3>2. cache.blocks \in Seq(Block) /\ Len(cache.blocks) \in Nat
      BY <2>2 DEF Caches
    <3>3. Len(cache.blocks) < 2 => SubSeq(cache.blocks, 1, Len(cache.blocks) - 1) = <<>>
      BY <3>2
    <3> QED
      BY <3>1, <3>2, <3>3 DEF Size
  <2>6. /\ Len(rs) = Len(reorgList.blocks) + 1 /\ rs[Len(rs)] = last
        /\ rs[1] = IF reorgList.blocks = <<>> THEN last ELSE reorgList.blocks[1]
    BY <2>2, <2>4
  <2>7. HasRoom(cache', reorgList')
    <3> SUFFICES ASSUME d.blocks # <<>>
                 PROVE  /\ Height(First(d)) < Height(rs[Len(rs)])
                        /\ Height(rs[1]) - Height(First(d)) + 1 <= d.maxEntries
      BY <2>1 DEF HasRoom
    <3>1. First(d) = First(cache) /\ Height(First(cache)) < Height(last)
      BY <2>3, <2>4, <2>5
    <3>2. CASE reorgList.blocks = <<>>
      <4>1. rs[1] = last /\ Height(last) - Height(First(cache)) + 1 <= cache.maxEntries
        BY <2>2, <2>4, <2>6, <3>2
      <4> QED
        BY <2>3, <2>6, <3>1, <4>1
    <3>3. CASE reorgList.blocks # <<>>
      BY <2>1, <2>3, <2>6, <3>1, <3>3 DEF RangeInv, HasRoom
    <3> QED
      BY <3>2, <3>3
  <2> QED
    BY <2>1, <2>3, <2>7 DEF RangeInv, EventsDoNotPanic
<1> QED
  BY <1>1, <1>2

LEMMA HandleEventKeepsRange ==
  ASSUME WorkIsHeight, IInv, FollowInv, RangeInv, HandleEvent
  PROVE  RangeInv'
<1>1. CASE ReceiveEvent \/ Mature \/ SkipConnected
  <2>1. pc' \in {"mature", "handle", "idle"} /\ UNCHANGED <<cache, reorgList, exit>>
    BY <1>1 DEF ReceiveEvent, Mature, SkipConnected, EventDone, Goto
  <2> QED
    BY <2>1, GoesOnInRange
<1>2. CASE RejectConnected
  BY <1>2, RestartBootstrapKeepsRange DEF RejectConnected
<1>3. CASE QueryLorenzoTip
  <2>1. CASE RestartBootstrap
    BY <2>1, RestartBootstrapKeepsRange
  <2>2. CASE ~RestartBootstrap
    <3>1. pc = "lorenzoTip" /\ UNCHANGED <<cache, reorgList, exit>>
      BY <1>3, <2>2 DEF QueryLorenzoTip, Goto
    <3> QED
      BY <3>1, GoesOnInRange DEF RangeInv
  <2> QED
    BY <2>1, <2>2
<1> QED
  BY <1>1, <1>2, <1>3, ExtendCacheKeepsRange, HandleDisconnectedKeepsRange DEF HandleEvent

LEMMA NextKeepsRange ==
  ASSUME WorkIsHeight, IInv, FollowInv, RangeInv, [Next]_vars
  PROVE  RangeInv'
<1>1. CASE Start
  BY <1>1, BeginBootstrapKeepsRange, ExitKeepsRange
  DEF Start, AlreadyClose, CatchUp, CatchUpOnStaleFork
<1>2. CASE Step
  BY <1>1, <1>2, BootstrapKeepsRange, ProcessHeadersKeepsRange, HandleEventKeepsRange DEF Step
<1>3. CASE LorenzoRequestFails \/ BTCRequestFails
  BY <1>3, ExitKeepsRange, BootstrapFailsKeepsRange, RestartBootstrapKeepsRange, ProcessingKeepsRange
  DEF LorenzoRequestFails, BTCRequestFails, CatchUpFails
<1>4. CASE Crash
  BY <1>4, ExitKeepsRange DEF Crash
<1>5. CASE UNCHANGED <<cache, reorgList, exit>> /\ pc' \in {pc, "start"}
  BY <1>5, GoesOnInRange DEF RangeInv
<1>6. CASE UNCHANGED vars
  BY <1>5, <1>6 DEF vars
<1>7. CASE \/ SubscriptionBegins \/ \E t \in Block : NodeAdvance(t)
         \/ LoseEvent \/ (\E t \in Block : RivalInsert(t)) \/ Restart
  BY <1>5, <1>7 DEF SubscriptionBegins, NodeAdvance, LoseEvent, RivalInsert, Restart, memory
<1> QED
  BY <1>2, <1>3, <1>4, <1>6, <1>7 DEF Next, Faults

LEMMA AlwaysInRange ==
  ASSUME WorkIsHeight, "lost" \notin FaultKinds
  PROVE  Spec => [](IInv /\ FollowInv /\ RangeInv)
<1>1. Spec => [](IInv /\ FollowInv)
  BY AlwaysFollows
<1>2. Init => RangeInv
  <2>1. Size(NoCache) <= NoCache.maxEntries
    BY DEF NoCache, Size
  <2> QED
    BY <2>1, NoReorgHasRoom DEF Init, RangeInv, EventsDoNotPanic
<1>3. IInv /\ FollowInv /\ RangeInv /\ [Next]_vars => RangeInv'
  BY NextKeepsRange
<1> QED
  BY <1>1, <1>2, <1>3, PTL DEF Spec

(***************************************************************************)
(* No block event brings the process down, whatever requests fail, crashes *)
(* occur or other relayers do: neither does the cache exceed its capacity  *)
(* (btccache.go 60-63), nor does a reorg's branch reach below the cache    *)
(* before it wins (block_handler.go 150-154).  Heights measure work, and   *)
(* the channel loses no event.                                             *)
(***************************************************************************)
THEOREM EventsNeverPanic ==
  ASSUME WorkIsHeight, "lost" \notin FaultKinds
  PROVE  Spec => []EventsDoNotPanic
<1>1. RangeInv => EventsDoNotPanic
  BY DEF RangeInv
<1> QED
  BY <1>1, AlwaysInRange, PTL

-----------------------------------------------------------------------------
(***************************************************************************)
(* A bootstrap's checks pass.  A block that is K deep in what Lorenzo has  *)
(* stays on the node's chain, so the confirmed block that a bootstrap      *)
(* looks for is in the cache it loaded, and on Lorenzo's chain.            *)
(***************************************************************************)
\* A reorganisation leaves the blocks alone that are K + Delay deep, and the base block.
ReorgsAreShallow ==
  \A s, t \in Block :
    /\ ChainWork[t] > ChainWork[s] =>
         \A h \in 1..(Height(s) - K - Delay) : OnChain(AncestorAt(s, h), t)
    /\ Height(s) >= BaseHeight /\ Height(t) >= BaseHeight =>
         AncestorAt(s, BaseHeight) = AncestorAt(t, BaseHeight)

\* When the program starts, more than Delay blocks are on top of the base header.
NodeStartsAboveBase == \A b \in InitBTCTips : Height(b) > BaseHeight + Delay

MaturedIsSettled ==
  \A b \in matured : \A h \in 1..(Height(b) - K) : OnChain(AncestorAt(b, h), btcTip)

LoadedAgrees ==
  pc \in {"subscribe", "consistency"} =>
    /\ cache.blocks # <<>> /\ Height(Tip(cache)) > BaseHeight + Delay
    /\ Height(First(cache)) = CacheBaseHeight
    /\ OnChain(AncestorAt(lrzTip, ConsistencyHeight), Tip(cache))

ChecksPass == exit \notin {"notInCache", "inconsistent", "nothingToSync"}

SettledInv ==
  /\ MaturedIsSettled
  /\ Height(btcTip) > BaseHeight + Delay
  /\ Height(lrzTip) >= BaseHeight
  /\ LoadedAgrees
  /\ ChecksPass

\* The heights that a bootstrap computes.
LEMMA BootstrapHeights ==
  ASSUME IInv, Height(lrzTip) >= BaseHeight, W >= 1
  PROVE  LET top == Height(lrzTip)
         IN  /\ top \in Nat /\ ConsistencyHeight \in 1..top /\ CacheBaseHeight \in 1..top
             /\ BaseHeight <= CacheBaseHeight /\ CacheBaseHeight <= ConsistencyHeight
             /\ ConsistencyHeight = BaseHeight \/ ConsistencyHeight = top - K
<1> DEFINE top == Height(lrzTip)
<1>1. /\ top \in Nat /\ K \in Nat \ {0} /\ W \in Nat /\ BaseHeight \in Nat \ {0}
      /\ top >= BaseHeight
  BY BlockIsPath, ReporterAssumption DEF ReporterAssumption, IInv, WorldTypeOK, Height
<1>2. /\ ConsistencyHeight = IF top >= BaseHeight + K THEN top - K ELSE BaseHeight
      /\ CacheBaseHeight = IF top > BaseHeight + K + W THEN top - K - W + 1 ELSE BaseHeight
  BY DEF ConsistencyHeight, CacheBaseHeight
<1> HIDE DEF top
<1> QED
  BY <1>1, <1>2 DEF top

LEMMA NodeAdvanceKeepsSettled ==
  ASSUME ReorgsAreShallow, WorkIsHeight, IInv, ForkInv, MaturedIsSettled,
         NEW t \in Block, NodeAdvance(t)
  PROVE  MaturedIsSettled'
<1>1. /\ btcTip' = t /\ matured' = matured \cup Matured(t) /\ ChainWork[t] > ChainWork[btcTip]
      /\ btcTip \in Block /\ matured \subseteq Block /\ K \in Nat /\ Delay \in Nat
  BY ReporterAssumption DEF NodeAdvance, IInv, WorldTypeOK, ReporterAssumption
<1>2. /\ Height(t) \in Nat /\ Height(btcTip) \in Nat /\ Height(t) > Height(btcTip)
      /\ Height(t) = Len(t)
  BY <1>1, BlockIsPath DEF WorkIsHeight, Height
<1>3. ASSUME NEW b \in matured, NEW h \in 1..(Height(b) - K)
      PROVE  OnChain(AncestorAt(b, h), t)
  <2>1. b \in Block /\ Height(b) \in Nat /\ Height(b) = Len(b)
    BY <1>1, BlockIsPath DEF Height
  <2>2. Height(b) + Delay <= Height(btcTip)
    BY DEF ForkInv, MaturedTrails, Trails
  <2>3. OnChain(AncestorAt(b, h), btcTip)
    BY DEF MaturedIsSettled
  <2>4. h \in 1..Len(b) /\ h \in 1..(Height(btcTip) - K - Delay) /\ h \in Nat
    BY <1>1, <1>2, <2>1, <2>2
  <2>5. AncestorAt(b, h) \in Block /\ Len(AncestorAt(b, h)) = h
    BY <2>1, <2>4, AncestorIsBlock
  <2>6. AncestorAt(b, h) = AncestorAt(btcTip, h)
    BY <1>1, <2>3, <2>5, OnChainIsAncestor
  <2>7. OnChain(AncestorAt(btcTip, h), t)
    BY <1>1, <2>4 DEF ReorgsAreShallow
  <2> QED
    BY <2>6, <2>7
<1>4. ASSUME NEW b \in Matured(t), NEW h \in 1..(Height(b) - K)
      PROVE  OnChain(AncestorAt(b, h), t)
  <2>1. PICK g \in 1..(Height(t) - Delay) : b = AncestorAt(t, g)
    BY DEF Matured
  <2>2. g \in 1..Len(t)
    BY <1>1, <1>2
  <2>3. b \in Block /\ Height(b) = g
    BY <2>1, <2>2, AncestorIsBlock DEF Height
  <2>4. h \in 1..g /\ h \in 1..Len(t)
    BY <1>1, <1>2, <2>2, <2>3
  <2>5. AncestorAt(b, h) = AncestorAt(t, h)
    BY <2>1, <2>2, <2>4, AncestorOfAncestor
  <2> QED
    BY <2>4, <2>5, AncestorIsOnChain
<1> QED
  BY <1>1, <1>3, <1>4 DEF MaturedIsSettled, Height, OnChain, AncestorAt

LEMMA NextKeepsSettled ==
  ASSUME ReorgsAreShallow, WorkIsHeight, IInv, ForkInv, MaturedIsSettled, [Next]_vars
  PROVE  MaturedIsSettled'
<1>1. CASE \E t \in Block : NodeAdvance(t)
  BY <1>1, NodeAdvanceKeepsSettled
<1>2. CASE ~\E t \in Block : NodeAdvance(t)
  BY <1>2, OthersKeepNode DEF node, MaturedIsSettled, Height, OnChain, AncestorAt
<1> QED
  BY <1>1, <1>2

LEMMA NodeStaysAboveBase ==
  ASSUME WorkIsHeight, IInv, Height(btcTip) > BaseHeight + Delay, [Next]_vars
  PROVE  Height(btcTip') > BaseHeight + Delay
<1>1. CASE \E t \in Block : NodeAdvance(t)
  <2>1. PICK t \in Block : NodeAdvance(t)
    BY <1>1
  <2>2. btcTip' = t /\ ChainWork[t] > ChainWork[btcTip] /\ btcTip \in Block
    BY <2>1 DEF NodeAdvance, IInv, WorldTypeOK
  <2>3. /\ Height(t) > Height(btcTip) /\ Height(t) \in Nat /\ Height(btcTip) \in Nat
        /\ BaseHeight \in Nat /\ Delay \in Nat
    BY <2>2, BlockIsPath, ReporterAssumption DEF WorkIsHeight, Height, ReporterAssumption
  <2> QED
    BY <2>2, <2>3
<1>2. CASE ~\E t \in Block : NodeAdvance(t)
  BY <1>2, OthersKeepNode DEF node, Height
<1> QED
  BY <1>1, <1>2

\* The cache is loaded: it holds the confirmed block that the next steps look for.
LEMMA LoadedAgreesAfterInit ==
  ASSUME ReorgsAreShallow, W >= 1, IInv, ForkInv, SettledInv, InitBTCCache, pc' = "subscribe"
  PROVE  LoadedAgrees'
<1> DEFINE ibs == ChainSegment(btcTip, CacheBaseHeight, Len(btcTip))
           ch  == ConsistencyHeight
<1>1. /\ cache'.blocks = ibs /\ ibs # <<>> /\ ibs[Len(ibs)] = btcTip /\ btcTip' = btcTip
      /\ ibs \in Seq(Block) /\ CacheBaseHeight \in 1..Len(btcTip)
      /\ \A i \in 1..Len(ibs) : ibs[i] = AncestorAt(btcTip, CacheBaseHeight + i - 1)
  BY LoadedBlocks
<1>2. lrzTip' = lrzTip /\ lrzTip \in Block /\ btcTip \in Block /\ lrzTip \in matured
  BY DEF InitBTCCache, IInv, WorldTypeOK, ForkInv
<1> HIDE DEF ibs
<1>3. Tip(cache') = btcTip /\ First(cache') = AncestorAt(btcTip, CacheBaseHeight)
  <2>1. 1 \in 1..Len(ibs) /\ CacheBaseHeight + 1 - 1 = CacheBaseHeight
    BY <1>1
  <2>2. ibs[1] = AncestorAt(btcTip, CacheBaseHeight)
    BY <1>1, <2>1
  <2> QED
    BY <1>1, <2>2 DEF Tip, First
<1>4. Height(First(cache')) = CacheBaseHeight
  BY <1>1, <1>2, <1>3, AncestorIsBlock DEF Height
<1>5. OnChain(AncestorAt(lrzTip, ch), btcTip)
  <2>1. /\ Height(lrzTip) \in Nat /\ ch \in 1..Height(lrzTip)
        /\ ch = BaseHeight \/ ch = Height(lrzTip) - K
    BY BootstrapHeights DEF SettledInv
  <2>2. CASE ch = Height(lrzTip) - K
    <3>1. ch \in 1..(Height(lrzTip) - K)
      BY <2>1, <2>2
    <3> QED
      BY <1>2, <3>1 DEF SettledInv, MaturedIsSettled
  <2>3. CASE ch = BaseHeight
    <3>1. /\ BaseHeight \in Nat \ {0} /\ Delay \in Nat /\ Height(btcTip) \in Nat
          /\ Height(btcTip) = Len(btcTip)
      BY <1>2, BlockIsPath, ReporterAssumption DEF ReporterAssumption, Height
    <3>2. Height(btcTip) > BaseHeight + Delay /\ Height(lrzTip) >= BaseHeight
      BY DEF SettledInv
    <3>3. Height(btcTip) >= BaseHeight /\ BaseHeight \in 1..Len(btcTip)
      BY <3>1, <3>2
    <3>4. AncestorAt(lrzTip, BaseHeight) = AncestorAt(btcTip, BaseHeight)
      BY <1>2, <3>2, <3>3 DEF ReorgsAreShallow
    <3> QED
      BY <1>2, <2>3, <3>3, <3>4, AncestorIsOnChain
  <2> QED
    BY <2>1, <2>2, <2>3
<1>6. (ConsistencyHeight)' = ch /\ (CacheBaseHeight)' = CacheBaseHeight
  BY <1>2 DEF ConsistencyHeight, CacheBaseHeight
<1> HIDE DEF ch
<1>7. Height(btcTip) > BaseHeight + Delay
  BY DEF SettledInv
<1> QED
  BY <1>1, <1>2, <1>3, <1>4, <1>5, <1>6, <1>7
  DEF LoadedAgrees, Tip, First, Height, OnChain, AncestorAt

\* Then none of the panics of checkConsistency and the slice that follows it is met.
LEMMA ConsistencyIsFound ==
  ASSUME W >= 1, IInv, ForkInv, SettledInv, CheckConsistency
  PROVE  pc' = "dedup" /\ exit' = exit
<1> DEFINE s    == cache.blocks
           n    == Len(s)
           ch   == ConsistencyHeight
           ibs  == GetLastBlocks(cache, ch + 1)
           h(k) == Height(s[k])
           top  == Height(lrzTip)
           i    == ch - h(1) + 1
<1>1. /\ cache \in Caches /\ s # <<>> /\ s \in Seq(Block) /\ IsChain(s) /\ lrzTip \in Block
      /\ Trails(lrzTip, Tip(cache)) /\ Tip(cache) = s[n] /\ First(cache) = s[1] /\ Size(cache) = n
  BY ProcessParts
  DEF IInv, WorldTypeOK, ForkInv, LoadedBeats, CheckConsistency, Caches, Tip, First, Size
<1>2. n \in Nat /\ n >= 1 /\ \A k \in 1..n : s[k] \in Block
  BY <1>1
<1>3. \A k \in 1..n : h(k) \in Nat /\ h(k) = h(n) - (n - k)
  BY <1>1, <1>2, BlockIsPath, ChainHeights DEF Height
<1>4. /\ h(n) > BaseHeight + Delay /\ h(1) = CacheBaseHeight
      /\ OnChain(AncestorAt(lrzTip, ch), s[n])
  BY <1>1 DEF SettledInv, LoadedAgrees, CheckConsistency
<1>5. /\ top \in Nat /\ ch \in 1..top /\ CacheBaseHeight <= ch /\ CacheBaseHeight \in 1..top
      /\ ch = BaseHeight \/ ch = top - K
  BY BootstrapHeights DEF SettledInv
<1>6. /\ K \in Nat \ {0} /\ Delay \in Nat /\ BaseHeight \in Nat
      /\ top + Delay <= h(n)
  BY <1>1, ReporterAssumption DEF ReporterAssumption, Trails
<1>7. 1 \in 1..n /\ n \in 1..n
  BY <1>2
<1>8. h(1) \in Nat /\ h(n) \in Nat /\ h(1) = h(n) - (n - 1)
  BY <1>3, <1>7
<1> HIDE DEF n, ch, ibs, h, top
<1>9. ch + Delay < h(n)
  BY <1>4, <1>5, <1>6, <1>8
<1>10. i \in 1..(n - 1) /\ i + 1 \in 1..n /\ i \in 1..n /\ n - i = h(n) - ch
  BY <1>2, <1>4, <1>5, <1>6, <1>8, <1>9
<1>11. h(i) = ch /\ h(i + 1) = ch + 1
  <2> HIDE DEF i
  <2>1. h(i) = h(n) - (n - i) /\ h(i + 1) = h(n) - (n - (i + 1))
    BY <1>3, <1>10
  <2> QED
    BY <1>2, <1>5, <1>8, <1>10, <2>1
<1> HIDE DEF i
<1>12. PICK k \in 1..n : h(k) = ch /\ FindBlock(cache, ch) = s[k]
  <2>1. ch \in Int
    BY <1>5
  <2>2. \/ \E k \in 1..Size(cache) : Height(s[k]) = ch /\ FindBlock(cache, ch) = s[k]
        \/ \A k \in 1..Size(cache) : Height(s[k]) # ch
    BY <1>1, <2>1, FindBlockIsRight, ChainAscends
  <2> QED
    BY <1>1, <1>10, <1>11, <2>2 DEF h
<1>13. FindBlock(cache, ch) # NoBlock /\ ContainsBTCBlock(lrzTip, FindBlock(cache, ch))
  <2>1. s[k] \in Block /\ Len(s[k]) = ch /\ s[n] \in Block
    BY <1>2, <1>7, <1>12 DEF h, Height
  <2>2. OnChain(s[k], s[n])
    BY <1>1, <1>12, ChainIsBelowLast DEF n
  <2>3. AncestorAt(lrzTip, ch) \in Block /\ Len(AncestorAt(lrzTip, ch)) = ch
        /\ OnChain(AncestorAt(lrzTip, ch), lrzTip)
    BY <1>1, <1>5, AncestorIsBlock, AncestorIsOnChain DEF top, Height
  <2>4. s[k] = AncestorAt(s[n], ch) /\ AncestorAt(lrzTip, ch) = AncestorAt(s[n], ch)
    BY <1>4, <2>1, <2>2, <2>3, OnChainIsAncestor
  <2>5. s[k] # NoBlock
    BY <2>1, BlockIsPath DEF NoBlock
  <2> QED
    BY <1>12, <2>3, <2>4, <2>5 DEF ContainsBTCBlock
<1>14. ~HeightOutOfRange(cache, ch + 1)
  <2>1. ~(ch + 1 < h(1)) /\ ~(h(n) < ch + 1)
    BY <1>4, <1>5, <1>6, <1>8, <1>9
  <2> QED
    BY <1>1, <2>1 DEF HeightOutOfRange, h
<1>15. ~(Len(ibs) <= Delay)
  <2>1. PICK j \in 1..n :
          /\ ibs = SubSeq(s, j, n)
          /\ IF \E m \in 1..n : h(m) = ch + 1
               THEN \A m \in 1..n : m >= j <=> h(m) >= ch + 1
               ELSE j = 1
    <3>1. ch + 1 \in Int
      BY <1>5
    <3>2. \E j \in 1..Size(cache) :
            /\ GetLastBlocks(cache, ch + 1) = SubSeq(s, j, Size(cache))
            /\ IF \E m \in 1..Size(cache) : Height(s[m]) = ch + 1
                 THEN \A m \in 1..Size(cache) : m >= j <=> Height(s[m]) >= ch + 1
                 ELSE j = 1
      BY <1>1, <3>1, GetLastBlocksIsRight, ChainAscends
    <3> QED
      BY <1>1, <3>2 DEF ibs, h
  <2>2. \A m \in 1..n : m >= j <=> h(m) >= ch + 1
    BY <1>10, <1>11, <2>1
  <2>3. i + 1 >= j
    BY <1>5, <1>10, <1>11, <2>2
  <2>4. Len(ibs) = n - j + 1
    BY <1>1, <1>2, <2>1 DEF n
  <2> QED
    BY <1>2, <1>5, <1>6, <1>8, <1>9, <1>10, <2>3, <2>4
<1> QED
  BY <1>13, <1>14, <1>15 DEF CheckConsistency, Goto, ch, ibs

\* No other step ends the process that way.
LEMMA OthersPassChecks ==
  ASSUME ChecksPass, [Next]_vars, ~CheckConsistency
  PROVE  ChecksPass'
<1>1. CASE Step
  BY <1>1
  DEF ChecksPass, Step, Start, Bootstrap, ProcessHeaders, HandleEvent, AlreadyClose, CatchUp,
      CatchUpOnStaleFork, WaitUntilBTCSync, InitBTCCache, Subscribe, Dedup, SubmitChunk,
      ReceiveEvent, Mature, RejectConnected, SkipConnected, ExtendCache, QueryLorenzoTip,
      HandleDisconnected, ProcessingSucceeds, ProcessingFails, BootstrapFails, RestartBootstrap,
      BeginBootstrap, EventDone, Goto, Exit
<1>2. CASE Faults
  BY <1>2
  DEF ChecksPass, Faults, LorenzoRequestFails, BTCRequestFails, LoseEvent, RivalInsert, Crash,
      Restart, CatchUpFails, ProcessingFails, BootstrapFails, RestartBootstrap, BeginBootstrap,
      EventDone, Goto, Exit
<1>3. CASE SubscriptionBegins \/ \E t \in Block : NodeAdvance(t)
  BY <1>3 DEF ChecksPass, SubscriptionBegins, NodeAdvance
<1> QED
  BY <1>1, <1>2, <1>3 DEF Next, vars, ChecksPass

\* Only loading the cache starts what LoadedAgrees is about, and Subscribe keeps it.
LEMMA LoadedAgreesLater ==
  ASSUME ReorgsAreShallow, W >= 1, "rival" \notin FaultKinds,
         IInv, ForkInv, SettledInv, [Next]_vars
  PROVE  LoadedAgrees'
<1>1. CASE pc' \notin {"subscribe", "consistency"}
  BY <1>1 DEF LoadedAgrees
<1>2. CASE UNCHANGED <<lrzTip, cache>> /\ pc \in {"subscribe", "consistency"}
  BY <1>2 DEF SettledInv, LoadedAgrees, CacheBaseHeight, ConsistencyHeight, Tip, First, Height,
              OnChain, AncestorAt
<1>3. CASE InitBTCCache
  <2>1. CASE pc' = "subscribe"
    BY <1>3, <2>1, LoadedAgreesAfterInit
  <2>2. CASE pc' # "subscribe"
    BY <1>1, <1>3, <2>2 DEF InitBTCCache, Exit, Goto
  <2> QED
    BY <2>1, <2>2
<1>4. CASE Step /\ ~InitBTCCache
  <2>1. \/ pc' \notin {"subscribe", "consistency"}
        \/ UNCHANGED <<lrzTip, cache>> /\ pc \in {"subscribe", "consistency"}
    BY <1>4
    DEF Step, Start, Bootstrap, ProcessHeaders, HandleEvent, AlreadyClose, CatchUp,
        CatchUpOnStaleFork, WaitUntilBTCSync, Subscribe, CheckConsistency, Dedup, SubmitChunk,
        ReceiveEvent, Mature, RejectConnected, SkipConnected, ExtendCache, QueryLorenzoTip,
        HandleDisconnected, ProcessingSucceeds, ProcessingFails, BootstrapFails, RestartBootstrap,
        BeginBootstrap, EventDone, Goto, Exit
  <2> QED
    BY <1>1, <1>2, <2>1
<1>5. CASE Faults
  <2>1. CASE LoseEvent
    BY <1>1, <1>2, <2>1 DEF LoseEvent, memory
  <2>2. CASE LorenzoRequestFails \/ BTCRequestFails \/ Crash \/ Restart
    <3>1. pc' \in {"down", "bootstrap", "idle", "start"}
      BY <2>2 DEF LorenzoRequestFails, BTCRequestFails, Crash, Restart, CatchUpFails,
        BootstrapFails, RestartBootstrap, ProcessingFails, BeginBootstrap, EventDone, Exit, Goto
    <3> QED
      BY <1>1, <3>1
  <2> QED
    BY <1>5, <2>1, <2>2 DEF Faults, RivalInsert, Fault
<1>6. CASE SubscriptionBegins \/ (\E t \in Block : NodeAdvance(t)) \/ UNCHANGED vars
  BY <1>1, <1>2, <1>6 DEF SubscriptionBegins, NodeAdvance, memory, vars
<1> QED
  BY <1>3, <1>4, <1>5, <1>6 DEF Next

LEMMA LorenzoNeverLower ==
  ASSUME WorkIsHeight, Delay <= 2 * K, "rival" \notin FaultKinds,
         IInv, MatureInv, ForkInv, [Next]_vars
  PROVE  Height(lrzTip') \in Nat /\ Height(lrzTip) \in Nat /\ Height(lrzTip') >= Height(lrzTip)
<1>1. lrzTip \in Block /\ Height(lrzTip) \in Nat
  BY BlockIsPath DEF IInv, WorldTypeOK, Height
<1>2. CASE lrzTip' = lrzTip
  BY <1>1, <1>2
<1>3. CASE lrzTip' # lrzTip
  <2>1. Moves
    BY <1>3, LorenzoMoves DEF vars
  <2>2. lrzTip' \in Block
    BY <2>1 DEF Moves, IInv, WorldTypeOK
  <2>3. Height(lrzTip') > Height(lrzTip)
    BY <1>1, <2>1, <2>2 DEF Moves, WorkIsHeight
  <2>4. Height(lrzTip') \in Nat
    BY <2>2, BlockIsPath DEF Height
  <2> QED
    BY <1>1, <2>3, <2>4
<1> QED
  BY <1>2, <1>3

LEMMA NextSettles ==
  ASSUME WorkIsHeight, ReorgsAreShallow, W >= 1, Delay <= 2 * K, "rival" \notin FaultKinds,
         IInv, MatureInv, ForkInv, SettledInv, [Next]_vars
  PROVE  SettledInv'
<1>1. MaturedIsSettled' /\ Height(btcTip') > BaseHeight + Delay
  BY NextKeepsSettled, NodeStaysAboveBase DEF SettledInv
<1>2. Height(lrzTip') >= BaseHeight
  BY LorenzoNeverLower, ReporterAssumption DEF ReporterAssumption, SettledInv
<1>3. LoadedAgrees'
  BY LoadedAgreesLater
<1>4. ChecksPass'
  <2>1. CASE CheckConsistency
    BY <2>1, ConsistencyIsFound DEF SettledInv, ChecksPass
  <2>2. CASE ~CheckConsistency
    BY <2>2, OthersPassChecks DEF SettledInv
  <2> QED
    BY <2>1, <2>2
<1> QED
  BY <1>1, <1>2, <1>3, <1>4 DEF SettledInv, Height

LEMMA InitIsSettled ==
  ASSUME Init
  PROVE  MaturedIsSettled
<1>1. btcTip \in Block /\ matured = Matured(btcTip) /\ K \in Nat /\ Delay \in Nat
  BY ReporterAssumption DEF Init, ReporterAssumption
<1> SUFFICES ASSUME NEW b \in matured, NEW h \in 1..(Height(b) - K)
             PROVE  OnChain(AncestorAt(b, h), btcTip)
  BY DEF MaturedIsSettled
<1>2. Height(btcTip) \in Nat /\ Height(btcTip) = Len(btcTip)
  BY <1>1, BlockIsPath DEF Height
<1>3. PICK g \in 1..(Height(btcTip) - Delay) : b = AncestorAt(btcTip, g)
  BY <1>1 DEF Matured
<1>4. g \in 1..Len(btcTip)
  BY <1>1, <1>2
<1>5. Height(b) = g
  BY <1>1, <1>3, <1>4, AncestorIsBlock DEF Height
<1>6. h \in 1..g /\ h \in 1..Len(btcTip)
  BY <1>1, <1>2, <1>4, <1>5
<1>7. AncestorAt(b, h) = AncestorAt(btcTip, h)
  BY <1>1, <1>3, <1>4, <1>6, AncestorOfAncestor
<1> QED
  BY <1>1, <1>6, <1>7, AncestorIsOnChain

LEMMA InitSettles ==
  ASSUME NodeStartsAboveBase, Init
  PROVE  SettledInv
<1>1. /\ btcTip \in InitBTCTips /\ lrzTip \in InitLorenzoTips
      /\ pc = "start" /\ exit = "running"
  BY DEF Init
<1>2. Height(btcTip) > BaseHeight + Delay /\ Height(lrzTip) >= BaseHeight
  BY <1>1, ReporterAssumption DEF NodeStartsAboveBase, ReporterAssumption
<1> QED
  BY <1>1, <1>2, InitIsSettled DEF SettledInv, LoadedAgrees, ChecksPass
-----------------------------------------------------------------------------
(***************************************************************************)
(* None of the panics.  What is left are the two of the start: a Lorenzo   *)
(* whose chain the node has abandoned, and a node so far ahead that the    *)
(* bootstrap's cache cannot hold the blocks since Lorenzo's tip.           *)
(***************************************************************************)
LorenzoStartsSettled ==
  \A b \in InitBTCTips, l \in InitLorenzoTips, t \in Block :
    ChainWork[t] > ChainWork[b] => OnChain(l, t)

\* The node gets no further ahead of the base, or of what Lorenzo has at the start.
CacheHoldsChain ==
  \A b \in Block, l \in InitLorenzoTips :
    \/ Height(b) < BaseHeight + BTCCacheSize
    \/ Height(b) + K + W < Height(l) + BTCCacheSize

StartInv ==
  /\ \E l \in InitLorenzoTips : Height(l) <= Height(lrzTip)
  /\ pc = "start" =>
       /\ lrzTip \in InitLorenzoTips
       /\ \E b \in InitBTCTips : btcTip = b \/ ChainWork[btcTip] > ChainWork[b]
  /\ exit \notin {"staleFork", "initCache"}

LEMMA StartIsOnChain ==
  ASSUME LorenzoStartsBuried, LorenzoStartsSettled, IInv, StartInv, pc = "start"
  PROVE  OnChain(lrzTip, btcTip)
<1>1. PICK b \in InitBTCTips : btcTip = b \/ ChainWork[btcTip] > ChainWork[b]
  BY DEF StartInv
<1>2. lrzTip \in InitLorenzoTips /\ btcTip \in Block
  BY DEF StartInv, IInv, WorldTypeOK
<1>3. CASE ChainWork[btcTip] > ChainWork[b]
  BY <1>2, <1>3 DEF LorenzoStartsSettled
<1>4. CASE btcTip = b
  <2>1. lrzTip \in Matured(btcTip)
    BY <1>2, <1>4 DEF LorenzoStartsBuried
  <2>2. PICK h \in 1..(Height(btcTip) - Delay) : lrzTip = AncestorAt(btcTip, h)
    BY <2>1 DEF Matured
  <2>3. h \in 1..Len(btcTip)
    <3>1. Len(btcTip) \in Nat /\ Delay \in Nat /\ Height(btcTip) = Len(btcTip)
      BY <1>2, BlockIsPath, ReporterAssumption DEF ReporterAssumption, Height
    <3> QED
      BY <3>1
  <2> QED
    BY <1>2, <2>2, <2>3, AncestorIsOnChain
<1> QED
  BY <1>1, <1>3, <1>4

LEMMA LoadedCacheFits ==
  ASSUME CacheHoldsChain, W >= 1, IInv, ForkInv, SettledInv, StartInv, InitBTCCache
  PROVE  exit' = exit /\ pc' = "subscribe"
<1> DEFINE n   == Height(btcTip)
           lo  == CacheBaseHeight
           ibs == ChainSegment(btcTip, lo, n)
<1>1. /\ btcTip \in Block /\ n \in Nat /\ n = Len(btcTip)
      /\ BaseHeight \in Nat /\ Delay \in Nat /\ BTCCacheSize \in Nat
  BY BlockIsPath, ReporterAssumption DEF ReporterAssumption, IInv, WorldTypeOK, Height
<1>2. Height(lrzTip) \in Nat /\ lo \in 1..Height(lrzTip) /\ BaseHeight <= lo
  BY BootstrapHeights DEF SettledInv
<1>3. Height(lrzTip) + Delay <= n
  BY DEF ForkInv, MaturedTrails, Trails
<1>4. n - lo + 1 <= BTCCacheSize
  <2>1. PICK l \in InitLorenzoTips : Height(l) <= Height(lrzTip)
    BY DEF StartInv
  <2>2. Height(l) \in Nat /\ K \in Nat /\ W \in Nat
    BY <2>1, BlockIsPath, ReporterAssumption DEF ReporterAssumption, Height
  <2>3. n < BaseHeight + BTCCacheSize \/ n + K + W < Height(l) + BTCCacheSize
    BY <1>1, <2>1 DEF CacheHoldsChain
  <2>4. \/ lo = BaseHeight /\ Height(lrzTip) <= BaseHeight + K + W
        \/ lo = Height(lrzTip) - K - W + 1
    BY <1>1, <1>2, <2>2 DEF CacheBaseHeight
  <2> HIDE DEF lo, n
  <2> QED
    BY <1>1, <1>2, <2>1, <2>2, <2>3, <2>4
<1> HIDE DEF lo
<1>5. lo \in Nat \ {0} /\ lo <= n
  BY <1>1, <1>2, <1>3
<1>6. Len(ibs) = n - lo + 1
  BY <1>1, <1>5, SegmentIsChain
<1> HIDE DEF n, ibs
<1>7. ~(n < lo) /\ ~(Len(ibs) > BTCCacheSize)
  BY <1>1, <1>2, <1>4, <1>5, <1>6
<1>8. ~TooManyEntries(NewBTCCache(BTCCacheSize), ibs)
  BY <1>7 DEF TooManyEntries, NewBTCCache
<1> QED
  BY <1>7, <1>8 DEF InitBTCCache, Goto, n, lo, ibs

LEMMA NextKeepsStart ==
  ASSUME LorenzoStartsBuried, LorenzoStartsSettled, CacheHoldsChain, WorkIsHeight, W >= 1,
         Delay <= 2 * K, "rival" \notin FaultKinds, "restart" \notin FaultKinds,
         IInv, MatureInv, ForkInv, SettledInv, StartInv, [Next]_vars
  PROVE  StartInv'
<1>0. \E l \in InitLorenzoTips : Height(l) <= Height(lrzTip')
  <2>1. PICK l \in InitLorenzoTips : Height(l) <= Height(lrzTip)
    BY DEF StartInv
  <2>2. Height(l) \in Nat
    BY <2>1, BlockIsPath, ReporterAssumption DEF ReporterAssumption, Height
  <2> QED
    BY <2>1, <2>2, LorenzoNeverLower
<1>1. CASE exit' = exit /\ pc' # "start"
  BY <1>0, <1>1 DEF StartInv
<1>2. CASE Start
  <2>1. ~CatchUpOnStaleFork
    BY StartIsOnChain DEF CatchUpOnStaleFork
  <2> QED
    BY <1>1, <1>2, <2>1 DEF Start, AlreadyClose, CatchUp, BeginBootstrap
<1>3. CASE InitBTCCache
  BY <1>1, <1>3, LoadedCacheFits
<1>4. CASE Step /\ ~Start /\ ~InitBTCCache
  <2>1. pc' # "start" /\ (exit' = exit \/ exit' \notin {"staleFork", "initCache"})
    BY <1>4
    DEF Step, Bootstrap, ProcessHeaders, HandleEvent, WaitUntilBTCSync, Subscribe,
        CheckConsistency, Dedup, SubmitChunk, ReceiveEvent, Mature, RejectConnected, SkipConnected,
        ExtendCache, QueryLorenzoTip, HandleDisconnected, ProcessingSucceeds, ProcessingFails,
        BootstrapFails, RestartBootstrap, BeginBootstrap, EventDone, Goto, Exit
  <2> QED
    BY <1>0, <2>1 DEF StartInv
<1>5. CASE \E t \in Block : NodeAdvance(t)
  <2>1. PICK t \in Block : NodeAdvance(t)
    BY <1>5
  <2>2. btcTip' = t /\ ChainWork[t] > ChainWork[btcTip] /\ UNCHANGED <<lrzTip, pc, exit>>
    BY <2>1 DEF NodeAdvance, memory
  <2>3. ASSUME NEW b \in InitBTCTips, btcTip = b \/ ChainWork[btcTip] > ChainWork[b]
        PROVE  ChainWork[t] > ChainWork[b]
    <3>1. t \in Block /\ b \in Block /\ btcTip \in Block
      BY ReporterAssumption DEF ReporterAssumption, IInv, WorldTypeOK
    <3>2. ChainWork[t] \in Nat /\ ChainWork[b] \in Nat /\ ChainWork[btcTip] \in Nat
      BY <3>1, WorkAssumption DEF WorkAssumption
    <3> QED
      BY <2>2, <2>3, <3>2
  <2> QED
    BY <1>0, <2>2, <2>3 DEF StartInv
<1>6. CASE Faults
  <2>1. CASE LoseEvent
    BY <2>1 DEF LoseEvent, memory, node, StartInv
  <2>2. CASE LorenzoRequestFails \/ BTCRequestFails \/ Crash
    <3>1. pc' # "start" /\ (exit' = exit \/ exit' \notin {"staleFork", "initCache"})
      BY <2>2 DEF LorenzoRequestFails, BTCRequestFails, Crash, CatchUpFails, BootstrapFails,
        RestartBootstrap, ProcessingFails, BeginBootstrap, EventDone, Exit, Goto
    <3> QED
      BY <1>0, <3>1 DEF StartInv
  <2> QED
    BY <1>6, <2>1, <2>2 DEF Faults, RivalInsert, Restart, Fault
<1>7. CASE SubscriptionBegins \/ UNCHANGED vars
  BY <1>7 DEF SubscriptionBegins, node, memory, vars, StartInv
<1> QED
  BY <1>2, <1>3, <1>4, <1>5, <1>6, <1>7 DEF Next

(***************************************************************************)
(* No panic of the reporter is reached, for every block tree and schedule: *)
(* its bootstraps find the confirmed block and something to sync           *)
(* (bootstrapping.go 94-117, 204-230, 370-396), the catch-up attaches      *)
(* (290-295), and events stay within the cache (block_handler.go 150-154,  *)
(* btccache.go 60-63).  Requests to the node may fail, which ends the      *)
(* process only by a failed request or the last attempt, and it may crash; *)
(* requests to Lorenzo succeed, no event is lost, and nobody else moves    *)
(* Lorenzo.  The other hypotheses exclude what the panics stand for: a     *)
(* reorganisation deeper than K + Delay, a node behind the base header, a  *)
(* Lorenzo on an abandoned chain, a cache too small for what is missing.   *)
(***************************************************************************)
THEOREM ReporterNeverPanics ==
  ASSUME WorkIsHeight, ReorgsAreShallow, W >= 1, MaxHeaders > K, Delay <= 2 * K,
         NodeStartsAboveBase, LorenzoStartsBuried, LorenzoStartsSettled, CacheHoldsChain,
         FaultKinds \subseteq {"btc", "crash"}
  PROVE  Spec => []NoPanic
<1>1. {"lorenzo", "lost", "rival", "restart"} \cap FaultKinds = {}
  OBVIOUS
<1>2. Spec => [](IInv /\ MatureInv /\ ForkInv /\ BootstrapForkAccepted)
  BY <1>1, AlwaysBeats
<1>3. Spec => []EventsDoNotPanic
  BY <1>1, EventsNeverPanic
<1>4. Spec => []RetryDoesNotPanic
  BY <1>1, OnlyLorenzoFailuresPanicRetry
<1>5. Init => SettledInv /\ StartInv
  <2> SUFFICES ASSUME Init PROVE SettledInv /\ StartInv
    OBVIOUS
  <2>1. Height(lrzTip) \in Nat
    BY InitIInv, BlockIsPath DEF IInv, WorldTypeOK, Height
  <2>2. lrzTip \in InitLorenzoTips /\ Height(lrzTip) <= Height(lrzTip)
    BY <2>1 DEF Init
  <2>3. btcTip \in InitBTCTips /\ exit \notin {"staleFork", "initCache"}
    BY DEF Init
  <2> QED
    BY <2>2, <2>3, InitSettles DEF StartInv
<1>6. IInv /\ MatureInv /\ ForkInv /\ SettledInv /\ StartInv /\ [Next]_vars => SettledInv' /\ StartInv'
  BY <1>1, NextSettles, NextKeepsStart
<1>7. EventsDoNotPanic /\ RetryDoesNotPanic /\ SettledInv /\ StartInv => NoPanic
  BY DEF EventsDoNotPanic, RetryDoesNotPanic, SettledInv, ChecksPass, StartInv, NoPanic, Panics
<1> QED
  BY <1>2, <1>3, <1>4, <1>5, <1>6, <1>7, PTL DEF Spec

-----------------------------------------------------------------------------
(***************************************************************************)
(* Where Lorenzo stands.  While Lorenzo answers, no event is lost and      *)
(* nobody else writes, Lorenzo's tip is on the chain of the cache or, in   *)
(* the middle of a reorganisation, on the chain of the first removed       *)
(* block: what an event makes the reporter submit goes on from there.      *)
(***************************************************************************)
LorenzoAlone == {"lorenzo", "lost", "rival"} \cap FaultKinds = {}

\* What the node had when Lorenzo was last brought up to date, as far as events were handled.
Followed == ToBeat(Tip(cache), reorgList)

AtRest == Loaded /\ pc \in {"idle", "mature", "handle"}

RestInv ==
  AtRest =>
    /\ OnChain(lrzTip, Followed)
    /\ reorgList.blocks # <<>> =>
         /\ OnChain(OldestRemoved, Followed)
         /\ ChainWork[Tip(cache)] <= ChainWork[Followed]

QueryInv ==
  pc = "lorenzoTip" => Parent(event.block) \in Block /\ OnChain(lrzTip, Parent(event.block))

\* A branch of several blocks that starts above Lorenzo's tip: it will be refused.
Detached(tip, hs) ==
  /\ OnChain(tip, hs[Len(hs)]) /\ Height(tip) < Height(hs[1]) - 1
  /\ Height(hs[1]) < Height(hs[Len(hs)])

\* The headers attach, and share with Lorenzo's chain what is K deep there.
Joins(tip, hs) ==
  /\ Attach(tip, hs)
  /\ \A h \in 1..(Height(tip) - K) : OnChain(AncestorAt(tip, h), hs[Len(hs)])

EventHeaders(tip, hs) ==
  /\ IsChain(hs) /\ hs # <<>> /\ hs[Len(hs)] = Tip(cache)
  /\ \/ Detached(tip, hs)
     \/ pc = "dedup" /\ Joins(tip, hs)
     \/ pc = "insert" /\ Overtake(tip, hs) /\ ~OnChain(hs[1], tip)

HeadersInv ==
  /\ pc \in BootstrapSteps => InBootstrap
  /\ pc \in {"dedup", "insert"} =>
       /\ cache.blocks # <<>>
       /\ IF InBootstrap THEN OnChain(headers[Len(headers)], Tip(cache))
                         ELSE EventHeaders(lrzTip, headers)

RelayInv == RestInv /\ QueryInv /\ HeadersInv

-----------------------------------------------------------------------------
\* Two blocks of one chain are the same if the lower one is not lower.
LEMMA SameHeightOnChain ==
  ASSUME NEW a \in Block, NEW b \in Block, OnChain(a, b), Height(b) <= Height(a)
  PROVE  a = b
<1>1. Len(a) \in 1..Len(b) /\ a = AncestorAt(b, Len(a)) /\ Len(b) \in Nat
  BY OnChainIsAncestor, BlockIsPath
<1>2. Len(a) = Len(b)
  BY <1>1 DEF Height
<1> QED
  BY <1>1, <1>2, AncestorOfTop

\* Of two blocks of one chain, the lower one is on the chain of the other.
LEMMA LowerIsOnChain ==
  ASSUME NEW a \in Block, NEW b \in Block, NEW c \in Block, OnChain(a, c), OnChain(b, c),
         Height(a) <= Height(b)
  PROVE  OnChain(a, b)
<1>1. /\ Len(a) \in 1..Len(c) /\ a = AncestorAt(c, Len(a))
      /\ Len(b) \in 1..Len(c) /\ b = AncestorAt(c, Len(b))
  BY OnChainIsAncestor
<1>2. Len(a) \in 1..Len(b)
  BY <1>1 DEF Height
<1> QED
  BY <1>1, <1>2, AncestorsAreOnChain

\* Headers that attach and of which Lorenzo has the last one end at its tip.
LEMMA AttachedLastIsTip ==
  ASSUME NEW tip \in Block, NEW hs \in Seq(Block), Attach(tip, hs), OnChain(hs[Len(hs)], tip)
  PROVE  tip = hs[Len(hs)]
<1>1. hs[Len(hs)] \in Block /\ Height(tip) <= Height(hs[Len(hs)])
  BY DEF Attach
<1> QED
  BY <1>1, SameHeightOnChain

\* Steps after which nothing is claimed.
LEMMA ElsewhereRelays ==
  ASSUME pc' \notin {"idle", "mature", "handle", "lorenzoTip", "dedup", "insert"},
         pc' \in BootstrapSteps => event' = NoEvent
  PROVE  RelayInv'
BY DEF RelayInv, RestInv, AtRest, QueryInv, HeadersInv, InBootstrap

LEMMA RetreatsRelay ==
  ASSUME \/ \E reason : Exit(reason)
         \/ \E skp, n : BeginBootstrap(skp, n)
         \/ BootstrapFails \/ RestartBootstrap
  PROVE  RelayInv'
<1>1. pc' \in {"down", "bootstrap"} /\ event' = NoEvent
  BY DEF Exit, BeginBootstrap, BootstrapFails, RestartBootstrap
<1> QED
  BY <1>1, ElsewhereRelays

\* The process rests, with what it follows as it was.
LEMMA RestKept ==
  ASSUME RelayInv, AtRest' => AtRest, pc' \in {"idle", "mature", "handle"},
         UNCHANGED <<lrzTip, cache, reorgList>>
  PROVE  RelayInv'
<1>1. RestInv'
  BY DEF RelayInv, RestInv, Followed, ToBeat, Tip, OldestRemoved, Height, OnChain, Parent
<1>2. pc' \notin BootstrapSteps
  BY DEF BootstrapSteps
<1> QED
  BY <1>1, <1>2 DEF RelayInv, QueryInv, HeadersInv

\* Steps of others.
LEMMA OthersRelay ==
  ASSUME RelayInv, UNCHANGED <<lrzTip, memory>>
  PROVE  RelayInv'
BY DEF RelayInv, RestInv, AtRest, Loaded, QueryInv, HeadersInv, EventHeaders, InBootstrap, Joins,
       Detached, Attach, Overtake, Followed, ToBeat, Tip, OldestRemoved, Height, OnChain, Parent,
       IsChain, AncestorAt, memory

\* The headers were submitted, or Lorenzo had them.
LEMMA SubmissionRests ==
  ASSUME IInv, RangeInv, pc \in {"dedup", "insert"},
         ProcessingSucceeds \/ (EventDone /\ UNCHANGED <<cache, reorgList>>),
         cache.blocks # <<>>, OnChain(lrzTip', Tip(cache))
  PROVE  RelayInv'
<1>1. pc' = "idle" /\ reorgList' = reorgList /\ reorgList.blocks = <<>>
  BY DEF ProcessingSucceeds, EventDone, Goto, RangeInv
<1>2. cache'.blocks # <<>> => Tip(cache)' = Tip(cache)
  <2>1. CASE cache' = cache
    BY <2>1 DEF Tip
  <2>2. CASE cache' = Trim(Resize(cache, K + W))
    <3>1. cache \in Caches /\ K + W \in Nat
      BY ProcessParts, ReporterAssumption DEF IInv, ReporterAssumption
    <3> QED
      BY <2>2, <3>1, TipOfTrim DEF Tip
  <2> QED
    BY <2>1, <2>2 DEF ProcessingSucceeds
<1>3. RestInv'
  <2> SUFFICES ASSUME cache'.blocks # <<>>
               PROVE  OnChain(lrzTip, Followed)'
    BY <1>1 DEF RestInv, AtRest, Loaded
  <2>1. Followed' = Tip(cache)
    BY <1>1, <1>2 DEF Followed, ToBeat
  <2> QED
    BY <2>1 DEF Height, OnChain
<1>4. pc' \notin BootstrapSteps \cup {"lorenzoTip", "dedup", "insert"}
  BY <1>1 DEF BootstrapSteps
<1> QED
  BY <1>3, <1>4 DEF RelayInv, QueryInv, HeadersInv

-----------------------------------------------------------------------------
(***************************************************************************)
(* The steps of the process.                                               *)
(***************************************************************************)

\* Headers to submit are at hand.
LEMMA SubmissionRelays ==
  ASSUME pc' \in {"dedup", "insert"}, cache'.blocks # <<>>,
         InBootstrap' => OnChain(headers[Len(headers)], Tip(cache))',
         ~InBootstrap' => EventHeaders(lrzTip, headers)'
  PROVE  RelayInv'
BY DEF RelayInv, RestInv, AtRest, QueryInv, HeadersInv, BootstrapSteps

LEMMA CheckConsistencyRelays ==
  ASSUME IInv, ForkInv, RelayInv, CheckConsistency
  PROVE  RelayInv'
<1>1. CASE \E reason : Exit(reason)
  BY <1>1, RetreatsRelay
<1>2. CASE ~\E reason : Exit(reason)
  <2>1. pc' = "dedup" /\ event' = event /\ cache' = cache
    BY <1>2 DEF CheckConsistency, Goto
  <2>2. InBootstrap' /\ cache'.blocks # <<>>
    BY <2>1 DEF RelayInv, HeadersInv, BootstrapSteps, CheckConsistency, InBootstrap, ForkInv, LoadedBeats
  <2> DEFINE last == headers'[Len(headers')]
  <2>3. OnChain(last, Tip(cache))
    BY <2>1, ConsistentHeadersOvertake
  <2>4. OnChain(headers[Len(headers)], Tip(cache))'
    BY <2>1, <2>3 DEF Tip, OnChain
  <2> QED
    BY <2>1, <2>2, <2>4, SubmissionRelays
<1> QED
  BY <1>1, <1>2

\* Headers that join Lorenzo's chain fork from it at most K below its tip.
LEMMA JoiningOvertakes ==
  ASSUME IInv, NEW hs \in Seq(Block), Joins(lrzTip, hs), NEW f \in Block, OnChain(f, hs[Len(hs)]),
         ~OnChain(f, lrzTip)
  PROVE  Height(f) + K > Height(lrzTip)
<1> DEFINE h    == Height(f)
           last == hs[Len(hs)]
<1>1. lrzTip \in Block /\ last \in Block /\ K \in Nat
  BY ReporterAssumption DEF IInv, WorldTypeOK, Joins, Attach, ReporterAssumption
<1>2. h \in Nat /\ h >= 1 /\ Height(lrzTip) \in Nat /\ h = Len(f) /\ Height(lrzTip) = Len(lrzTip)
  BY <1>1, BlockIsPath DEF Height
<1> SUFFICES ASSUME h + K <= Height(lrzTip)
             PROVE  FALSE
  BY <1>1, <1>2
<1> HIDE DEF h, last
<1>3. h \in 1..(Height(lrzTip) - K) /\ h \in 1..Len(lrzTip)
  BY <1>1, <1>2
<1> DEFINE a == AncestorAt(lrzTip, h)
<1>4. a \in Block /\ Len(a) = h /\ OnChain(a, lrzTip) /\ OnChain(a, last)
  BY <1>1, <1>3, AncestorIsBlock, AncestorIsOnChain DEF Joins, last
<1>5. f = AncestorAt(last, h) /\ a = AncestorAt(last, h)
  BY <1>1, <1>2, <1>4, OnChainIsAncestor DEF last
<1> QED
  BY <1>4, <1>5

LEMMA DedupRelays ==
  ASSUME IInv, ForkInv, RangeInv, RelayInv, Dedup
  PROVE  RelayInv'
<1> DEFINE n       == Len(headers)
           last    == headers[n]
           missing == {i \in 1..n : ~ContainsBTCBlock(lrzTip, headers[i])}
<1>1. /\ pc = "dedup" /\ lrzTip' = lrzTip /\ lrzTip \in Block /\ headers \in Seq(Block)
      /\ cache.blocks # <<>> /\ cache \in Caches
  BY ProcessParts DEF Dedup, IInv, WorldTypeOK, RelayInv, HeadersInv
<1>2. /\ InBootstrap => Attach(lrzTip, headers) /\ Overtake(lrzTip, headers) /\ OnChain(last, Tip(cache))
      /\ ~InBootstrap => EventHeaders(lrzTip, headers)
  BY <1>1 DEF RelayInv, HeadersInv, ForkInv, HeadersBeat, Overtake
<1>3. headers # <<>> /\ n \in Nat /\ n >= 1 /\ headers[1] \in Block /\ last \in Block
  BY <1>1, <1>2 DEF Attach, EventHeaders
<1>4. Height(lrzTip) \in Nat /\ Height(headers[1]) \in Nat
  BY <1>1, <1>3, BlockIsPath DEF Height
<1>5. Detached(lrzTip, headers) => ~OnChain(headers[1], lrzTip)
  <2> SUFFICES ASSUME Height(lrzTip) < Height(headers[1]) - 1
               PROVE  ~(Height(headers[1]) <= Height(lrzTip))
    BY DEF Detached, OnChain, Height
  <2> QED
    BY <1>4
<1>6. ~InBootstrap => Detached(lrzTip, headers) \/ Joins(lrzTip, headers)
  BY <1>1, <1>2 DEF EventHeaders
<1>7. CASE missing = {}
  <2>1. ProcessingSucceeds
    BY <1>7 DEF Dedup
  <2>2. OnChain(headers[1], lrzTip) /\ OnChain(last, lrzTip)
    <3>1. 1 \in 1..n /\ n \in 1..n
      BY <1>3
    <3> QED
      BY <1>7, <3>1 DEF ContainsBTCBlock
  <2>3. Attach(lrzTip, headers)
    BY <1>2, <1>5, <1>6, <2>2 DEF Joins
  <2>4. lrzTip = last
    BY <1>1, <2>2, <2>3, AttachedLastIsTip
  <2>5. OnChain(lrzTip', Tip(cache))
    BY <1>1, <1>2, <1>3, <2>4, OnChainReflexive DEF EventHeaders
  <2> QED
    BY <1>1, <2>1, <2>5, SubmissionRests
<1>8. CASE missing # {}
  <2>1. pc' = "insert" /\ event' = event /\ cache' = cache
    BY <1>8 DEF Dedup, Goto
  <2>2. PICK i \in missing : (\A k \in missing : i <= k) /\ headers' = SubSeq(headers, i, n)
    BY <1>8 DEF Dedup
  <2>3. CASE InBootstrap
    <3>1. headers'[Len(headers')] = last
      BY <1>2, <2>1, <2>3, DedupOvertakes
    <3>2. OnChain(headers[Len(headers)], Tip(cache))' /\ InBootstrap'
      BY <1>2, <2>1, <2>3, <3>1 DEF Tip, Height, OnChain, InBootstrap
    <3> QED
      BY <1>1, <2>1, <3>2, SubmissionRelays
  <2>4. CASE ~InBootstrap /\ Detached(lrzTip, headers)
    <3>1. 1 \in missing
      BY <1>3, <1>5, <2>4 DEF ContainsBTCBlock
    <3>2. i = 1
      BY <2>2, <3>1
    <3>3. headers' = headers
      BY <1>1, <2>2, <3>2
    <3>4. EventHeaders(lrzTip, headers)' /\ ~InBootstrap'
      BY <1>1, <1>2, <2>1, <2>4, <3>3 DEF EventHeaders, Detached, InBootstrap, Tip, Height, OnChain,
         IsChain, Parent
    <3> QED
      BY <1>1, <2>1, <3>4, SubmissionRelays
  <2>5. CASE ~InBootstrap /\ Joins(lrzTip, headers)
    <3>1. /\ Attach(lrzTip, headers') /\ ~OnChain(headers'[1], lrzTip)
          /\ headers'[1] \in Block /\ OnChain(headers'[1], last)
          /\ headers'[Len(headers')] = last
      BY <2>1, <2>5, DedupAttaches DEF Joins
    <3>2. Height(headers'[1]) + K > Height(lrzTip)
      BY <1>1, <2>5, <3>1, JoiningOvertakes
    <3>3. last = Tip(cache) /\ headers' # <<>> /\ IsChain(headers')
      BY <1>2, <2>5, <3>1 DEF EventHeaders, Attach
    <3>4. Overtake(lrzTip, headers')
      BY <3>1, <3>2 DEF Overtake
    <3>5. EventHeaders(lrzTip, headers)' /\ ~InBootstrap'
      BY <1>1, <2>1, <2>5, <3>1, <3>3, <3>4 DEF EventHeaders, Overtake, Attach, InBootstrap, Tip, Height,
         OnChain, IsChain, Parent
    <3> QED
      BY <1>1, <2>1, <3>5, SubmissionRelays
  <2> QED
    BY <1>6, <2>3, <2>4, <2>5
<1> QED
  BY <1>7, <1>8

\* A message that takes all headers ends at the last of them.
LEMMA WholeChunkEndsLast ==
  ASSUME headers \in Seq(Block), headers # <<>>, Rest = <<>>
  PROVE  InsertHeaders(Chunk) = headers[Len(headers)]
<1> DEFINE n == Len(headers)
           m == IF n < MaxHeaders THEN n ELSE MaxHeaders
<1>1. n \in Nat /\ n >= 1 /\ MaxHeaders \in Nat \ {0}
  BY ReporterAssumption DEF ReporterAssumption
<1>2. m \in 1..n
  <2> HIDE DEF n
  <2> QED
    BY <1>1
<1>3. Chunk = SubSeq(headers, 1, m)
  BY DEF Chunk
<1> HIDE DEF m
<1>4. Len(Chunk) = m /\ Chunk[m] = headers[m]
  BY <1>1, <1>2, <1>3
<1>5. Rest = SubSeq(headers, m + 1, n)
  BY <1>4 DEF Rest
<1>6. m = n
  <2> SUFFICES ASSUME m # n
               PROVE  FALSE
    OBVIOUS
  <2> HIDE DEF n
  <2>1. m + 1 \in 1..n /\ n = Len(headers)
    BY <1>1, <1>2 DEF n
  <2>2. Len(SubSeq(headers, m + 1, n)) = n - (m + 1) + 1
    BY <1>1, <2>1
  <2>3. SubSeq(headers, m + 1, n) = <<>> /\ Len(<<>>) = 0
    <3>1. SubSeq(headers, m + 1, n) = <<>>
      BY <1>5, Zenon
    <3> QED
      BY <3>1
  <2>4. n - (m + 1) + 1 = 0
    BY <2>2, <2>3, Zenon
  <2> QED
    BY <1>1, <2>1, <2>4
<1> QED
  BY <1>4, <1>6 DEF InsertHeaders

LEMMA SubmitChunkRelays ==
  ASSUME WorkIsHeight, MaxHeaders > K, IInv, ForkInv, RangeInv, RelayInv, SubmitChunk
  PROVE  RelayInv'
<1> DEFINE last == headers[Len(headers)]
<1>1. /\ pc = "insert" /\ lrzTip \in Block /\ headers \in Seq(Block) /\ headers # <<>>
      /\ cache.blocks # <<>> /\ last \in Block
  BY ProcessParts DEF SubmitChunk, IInv, WorldTypeOK, RelayInv, HeadersInv
<1>2. /\ InBootstrap => IsChain(headers) /\ OnChain(last, Tip(cache))
      /\ ~InBootstrap => IsChain(headers) /\ last = Tip(cache) /\ EventHeaders(lrzTip, headers)
  BY <1>1 DEF RelayInv, HeadersInv, ForkInv, HeadersBeat, Overtake, Attach, EventHeaders
<1>3. OnChain(last, Tip(cache))
  BY <1>1, <1>2, OnChainReflexive
<1>4. CASE ~Accepts(lrzTip, Chunk)
  <2>1. ProcessingFails /\ lrzTip' = lrzTip
    BY <1>4 DEF SubmitChunk
  <2>2. CASE InBootstrap
    BY <2>1, <2>2, RetreatsRelay DEF ProcessingFails
  <2>3. CASE ~InBootstrap
    <3>1. EventDone /\ UNCHANGED <<cache, reorgList>>
      BY <2>1, <2>3 DEF ProcessingFails
    <3>2. ~(Overtake(lrzTip, headers) /\ ~OnChain(headers[1], lrzTip))
      BY <1>1, <1>4, OvertakingIsAccepted
    <3>3. Detached(lrzTip, headers)
      BY <1>1, <1>2, <2>3, <3>2 DEF EventHeaders
    <3>4. OnChain(lrzTip', Tip(cache))
      BY <1>2, <2>1, <2>3, <3>3, ReporterAssumption DEF Detached, ReporterAssumption
    <3> QED
      BY <1>1, <3>1, <3>4, SubmissionRests
  <2> QED
    BY <2>2, <2>3
<1>5. CASE Accepts(lrzTip, Chunk) /\ Rest = <<>>
  <2>1. ProcessingSucceeds /\ lrzTip' = last
    BY <1>1, <1>5, WholeChunkEndsLast DEF SubmitChunk
  <2> QED
    BY <1>1, <1>3, <2>1, SubmissionRests
<1>6. CASE Accepts(lrzTip, Chunk) /\ Rest # <<>>
  <2>1. pc' = "insert" /\ event' = event /\ cache' = cache
    BY <1>6 DEF SubmitChunk, Goto
  <2>2. /\ Overtake(lrzTip', headers') /\ ~OnChain(headers'[1], lrzTip')
        /\ headers'[Len(headers')] = last
    BY <1>2, <2>1, RestOvertakes
  <2>3. InBootstrap' => OnChain(headers[Len(headers)], Tip(cache))'
    BY <1>3, <2>1, <2>2 DEF Tip, Height, OnChain
  <2>4. ~InBootstrap' => EventHeaders(lrzTip, headers)'
    <3>1. headers' # <<>> /\ IsChain(headers')
      BY <2>2 DEF Overtake, Attach
    <3>2. Tip(cache)' = Tip(cache)
      BY <2>1 DEF Tip
    <3> QED
      BY <1>2, <2>1, <2>2, <3>1, <3>2 DEF EventHeaders, Overtake, Attach, InBootstrap, Height,
         OnChain, IsChain, Parent
  <2> QED
    BY <1>1, <2>1, <2>3, <2>4, SubmissionRelays
<1> QED
  BY <1>4, <1>5, <1>6

-----------------------------------------------------------------------------
\* What the cache holds from a height on: the chain's blocks from that height to its end.
LEMMA LastBlocksFromHeight ==
  ASSUME NEW c \in Caches, c.blocks # <<>>, IsChain(c.blocks), NEW h \in Nat, ~HeightOutOfRange(c, h)
  PROVE  LET s == GetLastBlocks(c, h)
         IN  /\ s \in Seq(Block) /\ s # <<>> /\ IsChain(s)
             /\ s[1] \in Block /\ Height(s[1]) = h /\ s[1] = AncestorAt(Tip(c), h) /\ h \in 1..Len(Tip(c))
             /\ s[Len(s)] = Tip(c)
<1> DEFINE N   == Len(c.blocks)
           top == Tip(c)
           b   == c.blocks
<1>1. /\ b \in Seq(Block) /\ N \in Nat /\ N >= 1 /\ Size(c) = N
      /\ First(c) = b[1] /\ top = b[N] /\ top \in Block /\ \A i \in 1..N : b[i] \in Block
  BY DEF Caches, Size, First, Tip
<1>2. \A i \in 1..N : Height(b[i]) \in Nat /\ Height(b[i]) = Height(top) - (N - i) /\ OnChain(b[i], top)
  BY <1>1, BlockIsPath, ChainHeights, ChainIsBelowLast DEF Height
<1>3. Height(b[1]) <= h /\ h <= Height(top)
  <2>1. 1 \in 1..N /\ N \in 1..N
    BY <1>1
  <2> QED
    BY <1>1, <1>2, <2>1 DEF HeightOutOfRange
<1> HIDE DEF N, top
<1>4. PICK k \in 1..N : Height(b[k]) = h
  <2> DEFINE k == N - (Height(top) - h)
  <2>1. 1 \in 1..N /\ N \in 1..N /\ Height(top) \in Nat
    BY <1>1, <1>2
  <2>2. Height(b[1]) = Height(top) - (N - 1)
    BY <1>2, <2>1
  <2>3. k \in 1..N /\ Height(top) - (N - k) = h
    BY <1>1, <1>3, <2>1, <2>2
  <2>4. Height(b[k]) = h
    BY <1>2, <2>3
  <2> HIDE DEF k
  <2> QED
    BY <2>3, <2>4
<1>5. PICK i \in 1..N : /\ GetLastBlocks(c, h) = SubSeq(b, i, N)
                        /\ \A j \in 1..N : j >= i <=> Height(b[j]) >= h
  <2>1. Ascending(b) /\ h \in Int
    BY <1>1, ChainAscends
  <2>2. PICK i \in 1..Size(c) :
          /\ GetLastBlocks(c, h) = SubSeq(b, i, Size(c))
          /\ IF \E j \in 1..Size(c) : Height(b[j]) = h
               THEN \A j \in 1..Size(c) : j >= i <=> Height(b[j]) >= h
               ELSE i = 1
    BY <2>1, GetLastBlocksIsRight, Zenon
  <2> QED
    BY <1>1, <1>4, <2>2, Zenon
<1>6. Height(b[i]) = h
  <2>1. k >= i /\ Height(b[i]) >= h
    BY <1>1, <1>4, <1>5
  <2>2. Height(b[k]) = Height(top) - (N - k) /\ Height(b[i]) = Height(top) - (N - i) /\ Height(top) \in Nat
    <3>1. N \in 1..N
      BY <1>1
    <3> QED
      BY <1>1, <1>2, <3>1
  <2> QED
    BY <1>1, <1>4, <2>1, <2>2
<1> DEFINE s == SubSeq(b, i, N)
<1>7. s \in Seq(Block) /\ s # <<>> /\ s[1] = b[i] /\ s[Len(s)] = top /\ IsChain(s)
  <2>1. i \in 1..(Len(b) + 1) /\ N \in 0..Len(b) /\ N = Len(b)
    BY <1>1 DEF N
  <2>2. s \in Seq(Block) /\ IsChain(s)
    BY <1>1, <2>1, SubSeqOfBlocks, SubSeqOfChain
  <2>3. Len(s) = N - i + 1 /\ \A j \in 1..Len(s) : s[j] = b[i + j - 1]
    BY <1>1, <2>1
  <2> HIDE DEF s
  <2>4. 1 \in 1..Len(s) /\ Len(s) \in 1..Len(s) /\ i + 1 - 1 = i /\ i + Len(s) - 1 = N
    BY <1>1, <2>3
  <2>5. s[1] = b[i] /\ s[Len(s)] = b[N] /\ s # <<>>
    BY <2>2, <2>3, <2>4
  <2> QED
    BY <1>1, <2>2, <2>5
<1>8. b[i] = AncestorAt(top, h) /\ h \in 1..Len(top)
  <2>1. b[i] \in Block /\ OnChain(b[i], top) /\ Len(b[i]) = h
    BY <1>1, <1>2, <1>6 DEF Height
  <2> QED
    BY <1>1, <2>1, OnChainIsAncestor
<1> HIDE DEF s
<1> QED
  BY <1>1, <1>5, <1>6, <1>7, <1>8 DEF s, top

\* Headers that go on from Lorenzo's tip.
LEMMA NextHeadersJoin ==
  ASSUME IInv, NEW b \in Block, OnChain(lrzTip, b), Height(lrzTip) < Height(b),
         NEW hs \in Seq(Block), hs # <<>>, IsChain(hs), hs[Len(hs)] = b,
         hs[1] = AncestorAt(b, Height(lrzTip) + 1)
  PROVE  Parent(hs[1]) = lrzTip /\ Joins(lrzTip, hs)
<1> DEFINE top == Height(lrzTip)
<1>1. /\ lrzTip \in Block /\ top \in Nat /\ top >= 1 /\ Len(b) \in Nat /\ K \in Nat
      /\ top = Len(lrzTip) /\ Height(b) = Len(b)
  BY BlockIsPath, ReporterAssumption DEF IInv, WorldTypeOK, Height, ReporterAssumption
<1> HIDE DEF top
<1>2. top + 1 \in 2..Len(b) /\ top + 1 \in 1..Len(b) /\ top + 1 - 1 = top
  BY <1>1 DEF top
<1>3. lrzTip = AncestorAt(b, top)
  BY <1>1, OnChainIsAncestor
<1>4. Parent(hs[1]) = lrzTip
  <2> DEFINE g == top + 1
  <2>1. hs[1] = AncestorAt(b, g)
    BY DEF top
  <2>2. g \in 2..Len(b) /\ g - 1 = top
    <3>1. top \in Nat
      BY <1>1 DEF top
    <3> QED
      BY <1>2, <3>1
  <2> HIDE DEF g
  <2>3. Parent(AncestorAt(b, g)) = AncestorAt(b, g - 1)
    BY <2>2, ParentOfAncestor
  <2> QED
    BY <1>3, <2>1, <2>2, <2>3
<1>5. Height(hs[1]) = top + 1
  BY <1>2, AncestorIsBlock DEF top, Height
<1>6. Attach(lrzTip, hs)
  <2>1. Height(hs[1]) > 1
    BY <1>1, <1>5
  <2>2. top <= Height(b) /\ top # Height(b)
    BY <1>1 DEF top
  <2> QED
    BY <1>1, <1>4, <2>1, <2>2, OnChainReflexive DEF Attach, top
<1>7. ASSUME NEW h \in 1..(top - K)
      PROVE  OnChain(AncestorAt(lrzTip, h), b)
  <2>1. h \in 1..Len(lrzTip)
    BY <1>1
  <2>2. AncestorAt(lrzTip, h) \in Block /\ OnChain(AncestorAt(lrzTip, h), lrzTip)
    BY <1>1, <2>1, AncestorIsBlock, AncestorIsOnChain
  <2> QED
    BY <1>1, <2>2, OnChainTransitive
<1> QED
  BY <1>4, <1>6, <1>7 DEF Joins, top

\* What QueryLorenzoTip finds: Lorenzo is on the chain of the new block, below it.
LEMMA QueriedTip ==
  ASSUME IInv, MatureInv, RelayInv, pc = "lorenzoTip"
  PROVE  /\ event # NoEvent /\ event.block \in Block /\ Height(event.block) \in Nat
         /\ lrzTip \in Block /\ Height(lrzTip) \in Nat
         /\ cache \in Caches /\ IsChain(cache.blocks) /\ cache.blocks # <<>> /\ Tip(cache) = event.block
         /\ OnChain(lrzTip, event.block) /\ Height(lrzTip) < Height(event.block)
         /\ ~BehindParent => Height(lrzTip) + 1 = Height(event.block)
<1> DEFINE b == event.block
           p == Parent(b)
<1>1. /\ event # NoEvent /\ b \in Block /\ lrzTip \in Block
      /\ cache \in Caches /\ IsChain(cache.blocks) /\ cache.blocks # <<>> /\ Tip(cache) = b
  BY ProcessParts DEF IInv, WorldTypeOK, EventSteps, MatureInv, AddedIsMature
<1>2. p \in Block /\ OnChain(lrzTip, p)
  BY DEF RelayInv, QueryInv
<1>3. Height(p) = Height(b) - 1 /\ Height(b) \in Nat /\ Height(lrzTip) \in Nat /\ Height(lrzTip) <= Height(p)
  BY <1>1, <1>2, ParentIsLower, BlockIsPath DEF Height, OnChain
<1>4. OnChain(lrzTip, b)
  BY <1>1, <1>2, ParentWork, OnChainTransitive
<1> HIDE DEF b, p
<1>5. Height(lrzTip) < Height(b) /\ (~(Height(lrzTip) < Height(b) - 1) => Height(lrzTip) + 1 = Height(b))
  BY <1>3
<1> QED
  BY <1>1, <1>3, <1>4, <1>5 DEF b, BehindParent

LEMMA QueryLorenzoTipRelays ==
  ASSUME IInv, MatureInv, RelayInv, QueryLorenzoTip
  PROVE  RelayInv'
<1> DEFINE b == event.block
           h == Height(lrzTip) + 1
<1>1. CASE RestartBootstrap
  BY <1>1, RetreatsRelay
<1>2. CASE ~RestartBootstrap
  <2>1. /\ pc = "lorenzoTip" /\ pc' = "dedup"
        /\ UNCHANGED <<cache, event, lrzTip>>
        /\ \/ ~BehindParent /\ headers' = <<b>>
           \/ BehindParent /\ ~HeightOutOfRange(cache, h) /\ headers' = GetLastBlocks(cache, h)
    BY <1>2 DEF QueryLorenzoTip, Goto
  <2>2. /\ event # NoEvent /\ b \in Block /\ Height(b) \in Nat
        /\ lrzTip \in Block /\ Height(lrzTip) \in Nat
        /\ cache \in Caches /\ IsChain(cache.blocks) /\ cache.blocks # <<>> /\ Tip(cache) = b
        /\ OnChain(lrzTip, b) /\ Height(lrzTip) < Height(b)
        /\ ~BehindParent => h = Height(b)
    BY <2>1, QueriedTip
  <2>3. /\ headers' \in Seq(Block) /\ headers' # <<>> /\ IsChain(headers')
        /\ headers'[Len(headers')] = b /\ headers'[1] = AncestorAt(b, h)
    <3>1. CASE ~BehindParent
      <4>1. headers' = <<b>> /\ b = AncestorAt(b, Len(b)) /\ h = Len(b)
        BY <2>1, <2>2, <3>1, AncestorOfTop DEF Height
      <4>2. /\ <<b>> \in Seq(Block) /\ <<b>> # <<>> /\ <<b>>[Len(<<b>>)] = b /\ <<b>>[1] = b
            /\ IsChain(<<b>>)
        BY <2>2 DEF IsChain
      <4> QED
        BY <4>1, <4>2
    <3>2. CASE BehindParent
      <4>1. h \in Nat
        BY <2>2
      <4> HIDE DEF h
      <4> QED
        BY <2>1, <2>2, <3>2, <4>1, LastBlocksFromHeight
    <3> QED
      BY <3>1, <3>2
  <2>4. Joins(lrzTip, headers')
    BY <2>2, <2>3, NextHeadersJoin
  <2>5. Tip(cache)' = Tip(cache) /\ ~InBootstrap'
    BY <2>1, <2>2 DEF Tip, InBootstrap
  <2>6. EventHeaders(lrzTip, headers)'
    BY <2>1, <2>2, <2>3, <2>4, <2>5 DEF EventHeaders, Joins, Attach, IsChain, Parent, Height, OnChain, AncestorAt
  <2> QED
    BY <2>1, <2>2, <2>5, <2>6, SubmissionRelays
<1> QED
  BY <1>1, <1>2

(***************************************************************************)
(* The branch that won.  It grew from the parent of the oldest removed     *)
(* block, and so did the removed blocks, on whose chain Lorenzo is: if     *)
(* Lorenzo has that parent the branch joins its chain, since what is K     *)
(* deep there has stayed on the node's chain; otherwise the branch starts  *)
(* above Lorenzo's tip.                                                    *)
(***************************************************************************)
LEMMA WinningBranch ==
  ASSUME WorkIsHeight, IInv, MaturedIsSettled, lrzTip \in matured,
         NEW b \in Block, OnChain(b, btcTip),
         NEW removed \in Block, OnChain(lrzTip, removed), ChainWork[b] > ChainWork[removed],
         NEW oldest \in Block, OnChain(oldest, removed), Parent(oldest) \in Block, OnChain(Parent(oldest), b),
         NEW hs \in Seq(Block), hs # <<>>, IsChain(hs), hs[Len(hs)] = b,
         hs[1] = AncestorAt(b, Height(oldest)), Height(oldest) \in 1..Len(b)
  PROVE  Detached(lrzTip, hs) \/ Joins(lrzTip, hs)
<1> DEFINE fork == Parent(oldest)
           top  == Height(lrzTip)
           f    == Height(fork)
<1>1. /\ lrzTip \in Block /\ btcTip \in Block /\ K \in Nat \ {0}
      /\ fork \in Block /\ OnChain(lrzTip, removed) /\ OnChain(fork, b)
  BY ReporterAssumption DEF IInv, WorldTypeOK, ReporterAssumption
<1>2. /\ top \in Nat /\ f \in Nat /\ f >= 1 /\ Height(b) \in Nat /\ Height(removed) \in Nat
      /\ Height(oldest) \in Nat /\ Height(b) = Len(b) /\ f = Len(fork) /\ top = Len(lrzTip)
  BY <1>1, BlockIsPath DEF Height
<1>3. Height(oldest) = f + 1
  <2>1. Height(oldest) \in Nat /\ f = Height(oldest) - 1
    BY <1>2, ParentIsLower DEF Height
  <2> HIDE DEF f
  <2> QED
    BY <2>1
<1>4. Height(b) > Height(removed) /\ top <= Height(removed) /\ f + 1 <= Height(removed)
  <2>1. Height(b) > Height(removed)
    BY DEF WorkIsHeight
  <2>2. Height(lrzTip) <= Height(removed) /\ Height(oldest) <= Height(removed)
    BY <1>1 DEF OnChain, Height
  <2> QED
    BY <1>3, <2>1, <2>2
<1>5. OnChain(fork, removed)
  BY <1>1, ParentWork, OnChainTransitive
<1>6. Height(hs[1]) = f + 1 /\ Parent(hs[1]) = fork
  <2>1. Height(hs[1]) = Height(oldest)
    BY AncestorIsBlock DEF Height
  <2> DEFINE g == Height(oldest)
  <2>2. g \in 2..Len(b) /\ g - 1 = f
    <3>1. g \in 1..Len(b) /\ g = f + 1 /\ f \in Nat /\ f >= 1
      BY <1>2, <1>3
    <3> HIDE DEF f, g
    <3> QED
      BY <3>1
  <2>3. fork = AncestorAt(b, f)
    BY <1>1, <1>2, OnChainIsAncestor
  <2> HIDE DEF g, f, fork
  <2>4. Parent(AncestorAt(b, g)) = AncestorAt(b, g - 1)
    BY <2>2, ParentOfAncestor
  <2>5. hs[1] = AncestorAt(b, g)
    BY DEF g
  <2> QED
    BY <1>3, <2>1, <2>2, <2>3, <2>4, <2>5
<1> HIDE DEF fork, top, f
<1>7. CASE f <= top
  <2>1. OnChain(fork, lrzTip)
    BY <1>1, <1>5, <1>7, LowerIsOnChain DEF f, top
  <2>2. f + 1 > 1 /\ top <= Height(b) /\ top # Height(b)
    BY <1>2, <1>4
  <2>3. Attach(lrzTip, hs)
    BY <1>6, <2>1, <2>2 DEF Attach, top
  <2>4. ASSUME NEW h \in 1..(top - K)
        PROVE  OnChain(AncestorAt(lrzTip, h), b)
    <3>1. h \in 1..Len(lrzTip) /\ h <= Height(b)
      BY <1>1, <1>2, <1>4
    <3> DEFINE a == AncestorAt(lrzTip, h)
    <3>2. a \in Block /\ Height(a) = h
      BY <1>1, <3>1, AncestorIsBlock DEF Height
    <3>3. OnChain(a, btcTip)
      BY DEF MaturedIsSettled, top
    <3> QED
      BY <1>1, <3>1, <3>2, <3>3, LowerIsOnChain
  <2> QED
    BY <2>3, <2>4 DEF Joins, top
<1>8. CASE ~(f <= top)
  <2>1. OnChain(lrzTip, fork)
    BY <1>1, <1>2, <1>5, <1>8, LowerIsOnChain DEF f, top
  <2>2. OnChain(lrzTip, b)
    BY <1>1, <2>1, OnChainTransitive
  <2>3. Height(hs[1]) < Height(b)
    BY <1>2, <1>4, <1>6
  <2>4. top < Height(hs[1]) - 1
    BY <1>2, <1>6, <1>8
  <2> QED
    BY <2>2, <2>3, <2>4, Zenon DEF Detached, top
<1> QED
  BY <1>7, <1>8

LEMMA ExtendCacheRelays ==
  ASSUME WorkIsHeight, IInv, FollowInv, MaturedIsSettled, lrzTip \in matured, RelayInv, ExtendCache
  PROVE  RelayInv'
<1> DEFINE b      == event.block
           grown  == Add(cache, b)
           branch == GetLastBlocks(grown, Height(OldestRemoved))
           last   == Tip(cache)
<1>1. CASE \E reason : Exit(reason)
  BY <1>1, RetreatsRelay
<1>2. CASE ~\E reason : Exit(reason)
  <2>1. /\ pc = "handle" /\ event.type = "connected" /\ event # NoEvent
        /\ cache' = grown /\ lrzTip' = lrzTip
        /\ \/ /\ reorgList.blocks = <<>> /\ pc' = "lorenzoTip" /\ event' = event
           \/ /\ reorgList.blocks # <<>> /\ ~HeightOutOfRange(grown, Height(OldestRemoved))
              /\ \/ BranchWins(branch) /\ headers' = branch /\ pc' = "dedup" /\ event' = event
                 \/ ~BranchWins(branch) /\ pc' = "idle" /\ reorgList' = reorgList
    BY <1>2, ProcessParts DEF IInv, EventSteps, ExtendCache, Connecting, EventDone, Goto
  <2>2. /\ cache \in Caches /\ cache.blocks # <<>> /\ b \in Block /\ OnChain(b, btcTip)
        /\ Parent(b) = last /\ grown \in Caches /\ IsChain(grown.blocks) /\ grown.blocks # <<>>
    BY ConnectedBlockExtends DEF IInv
  <2>3. Tip(grown) = b /\ last \in Block
    BY <2>2, TipOfAdd DEF Tip, Caches
  <2>4. /\ OnChain(lrzTip, Followed)
        /\ reorgList.blocks # <<>> => OnChain(OldestRemoved, Followed)
    BY <2>1, <2>2 DEF RelayInv, RestInv, AtRest, Loaded
  <2>5. CASE reorgList.blocks = <<>>
    <3>1. OnChain(lrzTip, last)
      BY <2>4, <2>5 DEF Followed, ToBeat
    <3>2. Parent(b) \in Block /\ OnChain(lrzTip, Parent(b))
      BY <2>2, <2>3, <3>1
    <3>3. QueryInv'
      BY <2>1, <2>5, <3>2 DEF QueryInv, Parent, Height, OnChain
    <3>4. pc' = "lorenzoTip"
      BY <2>1, <2>5
    <3> QED
      BY <3>3, <3>4 DEF RelayInv, RestInv, AtRest, HeadersInv, BootstrapSteps
  <2>6. CASE reorgList.blocks # <<>>
    <3> DEFINE removed == reorgList.blocks[1]
               oldest  == OldestRemoved
               fork    == Parent(oldest)
    <3>1. Followed = removed
      BY <2>6 DEF Followed, ToBeat
    <3>2. oldest \in Block /\ removed \in Block
      <4>1. reorgList.blocks \in Seq(Block)
        BY ProcessParts DEF IInv
      <4> QED
        BY <2>6, <4>1 DEF OldestRemoved
    <3>3. InStep(Queued, btcTip, last, reorgList) /\ Queued # <<>>
      <4>1. Queued # <<>> /\ Queued[1] = event /\ Walk(Queued, btcTip) /\ btcTip \in Block
        BY <2>1, QueueOfEvent DEF FollowInv, IInv, WorldTypeOK
      <4>2. Following(Queued, btcTip, last, reorgList)
        BY <2>1, <2>2 DEF FollowInv, Loaded
      <4> QED
        BY <2>1, <2>2, <2>3, <4>1, <4>2, FittingIsInStep
    <3>4. /\ fork \in Block /\ OnChain(fork, last)
          /\ reorgList.work = ChainWork[removed] - ChainWork[fork]
      BY <2>6, <3>3 DEF InStep, OldestRemoved
    <3>5. OnChain(fork, b)
      BY <2>2, <2>3, <3>4, ParentWork, OnChainTransitive
    <3>6. ChainWork[b] \in Nat /\ ChainWork[fork] \in Nat /\ ChainWork[removed] \in Nat
      BY <2>2, <3>2, <3>4, WorkAssumption DEF WorkAssumption
    <3>7. CASE BranchWins(branch)
      <4>1. /\ headers' = branch /\ pc' = "dedup" /\ event' = event
            /\ ~HeightOutOfRange(grown, Height(oldest))
        BY <2>1, <2>6, <3>7
      <4>2. ChainWork[b] > ChainWork[removed]
        <5>1. BranchWork(branch) = ChainWork[b] - ChainWork[fork]
          BY <2>2, <2>3, <3>2, <3>4, <3>5, <4>1, WorkOfNewBranch
        <5>2. ChainWork[b] - ChainWork[fork] > ChainWork[removed] - ChainWork[fork]
          BY <3>4, <3>7, <5>1 DEF BranchWins
        <5> QED
          BY <3>6, <5>2
      <4>3. Height(oldest) \in Nat
        BY <3>2, BlockIsPath DEF Height
      <4>4. /\ branch \in Seq(Block) /\ branch # <<>> /\ IsChain(branch) /\ branch[Len(branch)] = b
            /\ branch[1] = AncestorAt(b, Height(oldest)) /\ Height(oldest) \in 1..Len(b)
        BY <2>2, <2>3, <4>1, <4>3, LastBlocksFromHeight
      <4> HIDE DEF b, branch, removed, oldest, grown, last
      <4>5. Detached(lrzTip, branch) \/ Joins(lrzTip, branch)
        BY <2>2, <2>4, <2>6, <3>1, <3>2, <3>4, <3>5, <4>2, <4>4, WinningBranch DEF oldest
      <4>6. /\ IsChain(headers') /\ headers' # <<>> /\ headers'[Len(headers')] = Tip(cache')
            /\ Detached(lrzTip', headers') \/ Joins(lrzTip', headers')
        BY <2>1, <2>3, <4>1, <4>4, <4>5
      <4>7. EventHeaders(lrzTip, headers)' /\ ~InBootstrap'
        BY <2>1, <4>1, <4>6 DEF EventHeaders, InBootstrap, Detached, Joins, Attach, IsChain, Parent, Height,
           OnChain, AncestorAt, Tip
      <4> QED
        BY <2>1, <2>2, <4>1, <4>7, SubmissionRelays
    <3>8. CASE ~BranchWins(branch)
      <4>1. /\ pc' = "idle" /\ reorgList' = reorgList
            /\ ~HeightOutOfRange(grown, Height(oldest))
        BY <2>1, <2>6, <3>8
      <4>2. ChainWork[b] <= ChainWork[removed]
        BY <2>6, <3>3, <3>8, <4>1, LosingBranch
      <4>3. Followed' = removed /\ OldestRemoved' = oldest /\ Tip(cache)' = b
        BY <2>1, <2>3, <2>6, <4>1 DEF Followed, ToBeat, OldestRemoved, Tip
      <4>4. RestInv'
        BY <2>1, <2>4, <2>6, <3>1, <4>1, <4>2, <4>3 DEF RestInv, Height, OnChain
      <4> QED
        BY <4>1, <4>4 DEF RelayInv, QueryInv, HeadersInv, BootstrapSteps
    <3> QED
      BY <3>7, <3>8
  <2> QED
    BY <2>5, <2>6
<1> QED
  BY <1>1, <1>2

LEMMA HandleDisconnectedRelays ==
  ASSUME IInv, FollowInv, RelayInv, HandleDisconnected
  PROVE  RelayInv'
<1> DEFINE last == Tip(cache)
           rs   == reorgList.blocks
<1>1. CASE RestartBootstrap
  BY <1>1, RetreatsRelay
<1>2. CASE ~RestartBootstrap
  <2>1. /\ pc = "handle" /\ event.type = "disconnected" /\ pc' = "idle" /\ lrzTip' = lrzTip
        /\ cache.blocks # <<>> /\ event.block = last
        /\ cache' = RemoveLast(cache) /\ reorgList'.blocks = Append(rs, last)
    BY <1>2 DEF HandleDisconnected, EventDone, Goto
  <2>2. /\ cache \in Caches /\ IsChain(cache.blocks) /\ last \in Block /\ rs \in Seq(Block)
    <3>1. cache \in Caches /\ IsChain(cache.blocks) /\ rs \in Seq(Block)
      BY ProcessParts DEF IInv
    <3> QED
      BY <2>1, <3>1 DEF Tip, Caches
  <2>3. pc' \notin BootstrapSteps \cup {"lorenzoTip", "dedup", "insert"}
    BY <2>1 DEF BootstrapSteps
  <2>4. RestInv'
    <3> SUFFICES ASSUME cache'.blocks # <<>>
                 PROVE  RestInv'
      BY DEF RestInv, AtRest, Loaded
    <3>1. Tip(cache') = Parent(last) /\ Parent(last) \in Block
      BY <2>1, <2>2, TipOfRemoveLast
    <3>2. /\ reorgList'.blocks # <<>> /\ OldestRemoved' = last
          /\ reorgList'.blocks[1] = IF rs = <<>> THEN last ELSE rs[1]
      <4> DEFINE r == Append(rs, last)
      <4>1. r[Len(r)] = last /\ r # <<>> /\ r[1] = IF rs = <<>> THEN last ELSE rs[1]
        BY <2>2
      <4> HIDE DEF r, rs, last
      <4> QED
        BY <2>1, <4>1 DEF OldestRemoved, r
    <3>3. Followed' = Followed /\ Followed \in Block
      BY <2>2, <3>2 DEF Followed, ToBeat
    <3>4. /\ OnChain(lrzTip, Followed)
          /\ rs # <<>> => OnChain(OldestRemoved, Followed) /\ ChainWork[last] <= ChainWork[Followed]
      BY <2>1 DEF RelayInv, RestInv, AtRest, Loaded
    <3>5. OnChain(last, Followed) /\ ChainWork[last] <= ChainWork[Followed]
      <4>1. ChainWork[last] \in Nat
        BY <2>2, WorkAssumption DEF WorkAssumption
      <4>2. CASE rs = <<>>
        BY <2>2, <4>1, <4>2, OnChainReflexive DEF Followed, ToBeat
      <4>3. CASE rs # <<>>
        <5>1. OldestRemoved \in Block
          BY <2>2, <4>3 DEF OldestRemoved
        <5>2. InStep(Queued, btcTip, last, reorgList) /\ Queued # <<>> /\ Queued[1] = event
          <6>1. Queued # <<>> /\ Queued[1] = event /\ Walk(Queued, btcTip) /\ btcTip \in Block
            BY <2>1, QueueOfEvent DEF FollowInv, IInv, WorldTypeOK
          <6>2. Following(Queued, btcTip, last, reorgList)
            BY <2>1 DEF FollowInv, Loaded
          <6> QED
            BY <2>1, <2>2, <6>1, <6>2, FittingIsInStep
        <5>3. Parent(OldestRemoved) = last
          BY <2>1, <4>3, <5>2 DEF InStep, OldestRemoved
        <5>4. OnChain(last, OldestRemoved)
          BY <2>2, <5>1, <5>3, ParentWork
        <5> QED
          BY <2>2, <3>3, <3>4, <4>3, <5>1, <5>4, OnChainTransitive
      <4> QED
        BY <4>2, <4>3
    <3>6. ChainWork[Parent(last)] <= ChainWork[Followed]
      <4>1. /\ ChainWork[Parent(last)] < ChainWork[last]
            /\ ChainWork[Parent(last)] \in Nat /\ ChainWork[last] \in Nat /\ ChainWork[Followed] \in Nat
        BY <2>2, <3>1, <3>3, ParentWork, WorkAssumption DEF WorkAssumption
      <4> QED
        BY <3>5, <4>1
    <3>7. Tip(cache)' = Parent(last)
      BY <3>1 DEF Tip
    <3> QED
      BY <2>1, <3>2, <3>3, <3>4, <3>5, <3>6, <3>7 DEF RestInv, Height, OnChain
  <2> QED
    BY <2>3, <2>4 DEF RelayInv, QueryInv, HeadersInv
<1> QED
  BY <1>1, <1>2

-----------------------------------------------------------------------------
LEMMA StepRelays ==
  ASSUME WorkIsHeight, MaxHeaders > K, IInv, MatureInv, ForkInv, FollowInv, RangeInv,
         MaturedIsSettled, RelayInv, Step
  PROVE  RelayInv'
<1>1. CASE Start
  BY <1>1, RetreatsRelay DEF Start, AlreadyClose, CatchUp, CatchUpOnStaleFork
<1>2. CASE WaitUntilBTCSync \/ InitBTCCache \/ Subscribe
  <2>1. CASE \E reason : Exit(reason)
    BY <2>1, RetreatsRelay
  <2>2. CASE ~\E reason : Exit(reason)
    <3>1. pc' \in {"initCache", "subscribe", "consistency"} /\ event' = event /\ pc \in BootstrapSteps
      BY <1>2, <2>2 DEF WaitUntilBTCSync, InitBTCCache, Subscribe, Goto, BootstrapSteps
    <3>2. event' = NoEvent
      BY <3>1 DEF RelayInv, HeadersInv, InBootstrap
    <3> QED
      BY <3>1, <3>2, ElsewhereRelays
  <2> QED
    BY <2>1, <2>2
<1>3. CASE RejectConnected
  BY <1>3, RetreatsRelay DEF RejectConnected
<1>4. CASE ReceiveEvent \/ Mature \/ SkipConnected
  <2>1. /\ pc \in {"idle", "mature", "handle"} /\ pc' \in {"idle", "mature", "handle"}
        /\ UNCHANGED <<lrzTip, cache, reorgList>>
    BY <1>4 DEF ReceiveEvent, Mature, SkipConnected, Connecting, EventDone, Goto
  <2>2. AtRest' => AtRest
    BY <2>1 DEF AtRest, Loaded
  <2> QED
    BY <2>1, <2>2, RestKept
<1>5. CASE CheckConsistency
  BY <1>5, CheckConsistencyRelays
<1>6. CASE Dedup \/ SubmitChunk
  BY <1>6, DedupRelays, SubmitChunkRelays
<1>7. CASE ExtendCache
  BY <1>7, ExtendCacheRelays DEF ForkInv
<1>8. CASE QueryLorenzoTip \/ HandleDisconnected
  BY <1>8, QueryLorenzoTipRelays, HandleDisconnectedRelays
<1> QED
  BY <1>1, <1>2, <1>3, <1>4, <1>5, <1>6, <1>7, <1>8 DEF Step, Bootstrap, ProcessHeaders, HandleEvent

LEMMA NextRelays ==
  ASSUME LorenzoAlone, WorkIsHeight, MaxHeaders > K, IInv, MatureInv, ForkInv, FollowInv, RangeInv,
         MaturedIsSettled, RelayInv, [Next]_vars
  PROVE  RelayInv'
<1>1. CASE Step
  BY <1>1, StepRelays
<1>2. CASE SubscriptionBegins \/ (\E t \in Block : NodeAdvance(t)) \/ UNCHANGED vars
  <2>1. UNCHANGED <<lrzTip, memory>>
    BY <1>2 DEF SubscriptionBegins, NodeAdvance, vars, memory
  <2> QED
    BY <2>1, OthersRelay
<1>3. CASE Faults
  <2>1. BTCRequestFails \/ Crash \/ Restart
    BY <1>3 DEF Faults, LorenzoRequestFails, LoseEvent, RivalInsert, Fault, LorenzoAlone
  <2>2. CASE BTCRequestFails \/ Crash
    BY <2>2, RetreatsRelay DEF BTCRequestFails, Crash, CatchUpFails
  <2>3. CASE Restart
    <3>1. pc' = "start"
      BY <2>3 DEF Restart
    <3> QED
      BY <3>1, ElsewhereRelays DEF BootstrapSteps
  <2> QED
    BY <2>1, <2>2, <2>3
<1> QED
  BY <1>1, <1>2, <1>3 DEF Next

LEMMA InitRelays ==
  ASSUME Init
  PROVE  RelayInv
BY DEF Init, RelayInv, RestInv, AtRest, QueryInv, HeadersInv, BootstrapSteps

LEMMA AlwaysRelays ==
  ASSUME WorkIsHeight, ReorgsAreShallow, LorenzoStartsBuried, LorenzoAlone,
         MaxHeaders > K, Delay <= 2 * K
  PROVE  Spec => [](IInv /\ MatureInv /\ FollowInv /\ RelayInv)
<1>1. "lost" \notin FaultKinds /\ "rival" \notin FaultKinds
  BY DEF LorenzoAlone
<1>2. Spec => [](IInv /\ MatureInv /\ ForkInv)
  <2>1. Spec => [](IInv /\ MatureInv /\ ForkInv /\ BootstrapForkAccepted)
    BY <1>1, AlwaysBeats
  <2> QED
    BY <2>1, PTL
<1>3. Spec => [](FollowInv /\ RangeInv)
  <2>1. Spec => [](IInv /\ FollowInv /\ RangeInv)
    BY <1>1, AlwaysInRange
  <2> QED
    BY <2>1, PTL
<1>4. Init => MaturedIsSettled /\ RelayInv
  BY InitIsSettled, InitRelays
<1>5. IInv /\ ForkInv /\ MaturedIsSettled /\ [Next]_vars => MaturedIsSettled'
  BY NextKeepsSettled
<1>6. /\ IInv /\ MatureInv /\ ForkInv /\ FollowInv /\ RangeInv /\ MaturedIsSettled /\ RelayInv
      /\ [Next]_vars
      => RelayInv'
  BY NextRelays
<1> QED
  BY <1>2, <1>3, <1>4, <1>5, <1>6, PTL DEF Spec

(***************************************************************************)
(* When Lorenzo is behind the parent of a new block, the blocks of the     *)
(* cache above its height go on from its tip (block_handler.go 169-176),   *)
(* whatever mix of bootstraps, reorganisations, refused submissions and    *)
(* requests to the node that failed came before.  Heights measure work,    *)
(* reorganisations leave the blocks alone that are K + Delay deep, Lorenzo *)
(* answers, no event is lost, nobody else writes, and Lorenzo's first tip  *)
(* is Delay deep in the node's chain.                                      *)
(***************************************************************************)
THEOREM CatchUpAlwaysAttaches ==
  ASSUME WorkIsHeight, ReorgsAreShallow, LorenzoStartsBuried, LorenzoAlone,
         MaxHeaders > K, Delay <= 2 * K
  PROVE  Spec => []CatchUpAttaches
<1>1. IInv /\ MatureInv /\ RelayInv => CatchUpAttaches
  <2> DEFINE h  == Height(lrzTip) + 1
             hs == GetLastBlocks(cache, h)
  <2> SUFFICES ASSUME IInv, MatureInv, RelayInv, pc = "lorenzoTip", ~HeightOutOfRange(cache, h)
               PROVE  Parent(hs[1]) = lrzTip
    BY DEF CatchUpAttaches
  <2>1. /\ event.block \in Block /\ Height(lrzTip) \in Nat
        /\ cache \in Caches /\ IsChain(cache.blocks) /\ cache.blocks # <<>> /\ Tip(cache) = event.block
        /\ OnChain(lrzTip, event.block) /\ Height(lrzTip) < Height(event.block)
    BY QueriedTip
  <2>2. h \in Nat
    BY <2>1
  <2>3. /\ hs \in Seq(Block) /\ hs # <<>> /\ IsChain(hs) /\ hs[Len(hs)] = event.block
        /\ hs[1] = AncestorAt(event.block, h)
    <3> HIDE DEF h
    <3> QED
      BY <2>1, <2>2, LastBlocksFromHeight
  <2> QED
    BY <2>1, <2>3, NextHeadersJoin
<1> QED
  BY <1>1, AlwaysRelays, PTL

(***************************************************************************)
(* Lorenzo is never left on a fork that the reporter has forgotten         *)
(* (block_handler.go 157-163, 188-195): the list of removed blocks, which  *)
(* is cleared before the new branch is submitted, is cleared only for a    *)
(* branch that Lorenzo accepts, or that it refuses while its tip is below  *)
(* the fork.  Under the hypotheses of CatchUpAlwaysAttaches, for any       *)
(* Delay up to 2K.                                                         *)
(***************************************************************************)
THEOREM ForkAlwaysRemembered ==
  ASSUME WorkIsHeight, ReorgsAreShallow, LorenzoStartsBuried, LorenzoAlone,
         MaxHeaders > K, Delay <= 2 * K
  PROVE  Spec => []ForkIsRemembered
<1>1. RelayInv => ForkIsRemembered
  BY DEF RelayInv, RestInv, AtRest, Loaded, Followed, ToBeat, ForkIsRemembered
<1> QED
  BY <1>1, AlwaysRelays, PTL

(***************************************************************************)
(* What an event makes the reporter submit, all messages of it, brings     *)
(* Lorenzo to the end of the cache (block_handler.go 143-195), for any     *)
(* Delay up to 2K.  The exception is a branch of several blocks that       *)
(* starts above Lorenzo's tip, which Lorenzo refuses: Lorenzo is then on   *)
(* the chain of that branch, and CatchUpAlwaysAttaches tells that the next *)
(* block makes it catch up.  Under the hypotheses of that theorem.         *)
(***************************************************************************)
THEOREM EventsAlwaysReachLorenzo ==
  ASSUME WorkIsHeight, ReorgsAreShallow, LorenzoStartsBuried, LorenzoAlone,
         MaxHeaders > K, Delay <= 2 * K
  PROVE  Spec => EventsReachLorenzo
<1> DEFINE Reached ==
      ~InBootstrap /\ pc \in {"dedup", "insert"} /\ pc' = "idle"
        => OnChain(Tip(cache), lrzTip') \/ AheadOfLorenzo
<1>1. IInv /\ RelayInv /\ [Next]_vars => [Reached]_vars
  <2> DEFINE last == headers[Len(headers)]
  <2> SUFFICES ASSUME IInv, RelayInv, Next,
                      ~InBootstrap, pc \in {"dedup", "insert"}, pc' = "idle"
               PROVE  OnChain(Tip(cache), lrzTip') \/ AheadOfLorenzo
    OBVIOUS
  <2>1. /\ lrzTip \in Block /\ headers \in Seq(Block) /\ headers # <<>> /\ last \in Block
        /\ last = Tip(cache) /\ EventHeaders(lrzTip, headers)
    BY ProcessParts DEF IInv, WorldTypeOK, RelayInv, HeadersInv, EventHeaders
  <2>2. Dedup \/ SubmitChunk
    BY DEF LorenzoAlone, Next, Step, Start, Bootstrap, ProcessHeaders, HandleEvent, Faults, Fault,
       AlreadyClose, CatchUp, CatchUpOnStaleFork, WaitUntilBTCSync, InitBTCCache, Subscribe,
       CheckConsistency, ReceiveEvent, Mature, RejectConnected, SkipConnected, ExtendCache,
       QueryLorenzoTip, HandleDisconnected, Connecting, LorenzoRequestFails, BTCRequestFails,
       CatchUpFails, LoseEvent, RivalInsert, Crash, Restart, SubscriptionBegins, NodeAdvance,
       memory, Exit, BootstrapFails, BeginBootstrap
  <2>3. CASE Detached(lrzTip, headers)
    <3>1. Height(lrzTip) \in Nat /\ Height(headers[1]) \in Nat /\ Height(last) \in Nat
      BY <2>1, BlockIsPath DEF Height
    <3>2. /\ Height(lrzTip) < Height(headers[1]) - 1 /\ Height(headers[1]) < Height(last)
          /\ OnChain(lrzTip, last)
      BY <2>3 DEF Detached
    <3>3. Height(lrzTip) + 1 < Height(headers[1]) /\ headers[1] # last
      BY <3>1, <3>2
    <3> QED
      BY <2>1, <3>2, <3>3 DEF AheadOfLorenzo
  <2>4. CASE Dedup /\ ~Detached(lrzTip, headers)
    <3>1. lrzTip' = lrzTip /\ \A i \in 1..Len(headers) : ContainsBTCBlock(lrzTip, headers[i])
      BY <2>4 DEF Dedup, Goto
    <3>2. Len(headers) \in 1..Len(headers)
      BY <2>1
    <3> QED
      BY <2>1, <3>1, <3>2 DEF ContainsBTCBlock
  <2>5. CASE SubmitChunk /\ ~Detached(lrzTip, headers)
    <3>1. Overtake(lrzTip, headers) /\ ~OnChain(headers[1], lrzTip)
      BY <2>1, <2>5 DEF EventHeaders, SubmitChunk
    <3>2. Accepts(lrzTip, Chunk)
      BY <2>1, <3>1, OvertakingIsAccepted
    <3>3. Rest = <<>> /\ lrzTip' = InsertHeaders(Chunk)
      BY <2>5, <3>2 DEF SubmitChunk, Goto
    <3>4. lrzTip' = last
      BY <2>1, <3>3, WholeChunkEndsLast
    <3> QED
      BY <2>1, <3>4, OnChainReflexive
  <2> QED
    BY <2>2, <2>3, <2>4, <2>5
<1> QED
  BY <1>1, AlwaysRelays, PTL DEF EventsReachLorenzo, Spec
=============================================================================
