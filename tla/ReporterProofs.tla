--------------------------- MODULE ReporterProofs ---------------------------
(***************************************************************************)
(* Proofs about the reporter, for every block tree and every value of the  *)
(* constants.                                                              *)
(***************************************************************************)
EXTENDS Reporter, BTCCacheProofs

-----------------------------------------------------------------------------
(***************************************************************************)
(* The inductive invariant.  The world (node, light client, fault budget)  *)
(* and the process change in different steps, so it has a part for each;   *)
(* the process's part includes that the cache is a chain.                  *)
(***************************************************************************)
ProcessOK == ProcessTypeOK /\ CacheIsChain

IInv == WorldTypeOK /\ ProcessOK

\* How a step of the process may go on, each keeping the process's part.
LEMMA ExitKeeps ==
  ASSUME NEW reason \in Exits, Exit(reason)
  PROVE  ProcessOK'
<1>1. NoCache \in Caches /\ NoReorg \in [blocks : Seq(Block), work : Nat]
  BY DEF NoCache, NoReorg, Caches
<1>2. 0 \in 0..(MaxAttempts - 1)
  BY ReporterAssumption DEF ReporterAssumption
<1>3. ProcessTypeOK'
  <2>1. chan' \in Seq(Events) /\ headers' \in Seq(Block)
    BY DEF Exit
  <2>2. event' \in Events \cup {NoEvent} /\ pc' \in Steps /\ pc' \notin EventSteps /\ pc' # "insert"
    BY DEF Exit, Steps, EventSteps
  <2>3. cache' \in Caches /\ reorgList' \in [blocks : Seq(Block), work : Nat]
    BY <1>1 DEF Exit
  <2>4. /\ subscribed' \in BOOLEAN /\ listening' \in BOOLEAN /\ skip' \in BOOLEAN
        /\ attempts' \in 0..(MaxAttempts - 1) /\ exit' \in Exits
    BY <1>2 DEF Exit
  <2> QED
    BY <2>1, <2>2, <2>3, <2>4 DEF ProcessTypeOK, Caches
<1>4. CacheIsChain'
  <2>1. cache'.blocks = <<>>
    BY DEF Exit, NoCache
  <2> QED
    BY <2>1 DEF CacheIsChain, IsChain
<1> QED
  BY <1>3, <1>4 DEF ProcessOK

LEMMA BeginBootstrapKeeps ==
  ASSUME ProcessOK, NEW skp \in BOOLEAN, NEW n \in 0..(MaxAttempts - 1), BeginBootstrap(skp, n)
  PROVE  ProcessOK'
<1>1. NoReorg \in [blocks : Seq(Block), work : Nat]
  BY DEF NoReorg
<1> QED
  BY <1>1 DEF BeginBootstrap, ProcessOK, ProcessTypeOK, CacheIsChain, subscription,
              Steps, BootstrapSteps, EventSteps

LEMMA RestartBootstrapKeeps ==
  ASSUME ProcessOK, RestartBootstrap
  PROVE  ProcessOK'
<1>1. 0 \in 0..(MaxAttempts - 1)
  BY ReporterAssumption DEF ReporterAssumption
<1> QED
  BY <1>1, BeginBootstrapKeeps DEF RestartBootstrap

LEMMA BootstrapFailsKeeps ==
  ASSUME ProcessOK, BootstrapFails
  PROVE  ProcessOK'
<1>1. CASE attempts + 1 = MaxAttempts
  BY <1>1, ExitKeeps DEF BootstrapFails, Exits
<1>2. CASE attempts + 1 # MaxAttempts
  <2>1. attempts + 1 \in 0..(MaxAttempts - 1) /\ skip \in BOOLEAN
    BY <1>2, ReporterAssumption DEF ReporterAssumption, ProcessOK, ProcessTypeOK
  <2> QED
    BY <1>2, <2>1, BeginBootstrapKeeps DEF BootstrapFails
<1> QED
  BY <1>1, <1>2

LEMMA EventDoneKeeps ==
  ASSUME ProcessOK, EventDone, UNCHANGED subscription,
         cache' \in Caches, IsChain(cache'.blocks),
         reorgList' \in [blocks : Seq(Block), work : Nat]
  PROVE  ProcessOK'
BY DEF EventDone, Goto, ProcessOK, ProcessTypeOK, CacheIsChain, subscription, Caches,
       Steps, EventSteps

LEMMA ProcessingSucceedsKeeps ==
  ASSUME ProcessOK, ProcessingSucceeds
  PROVE  ProcessOK'
<1>1. cache \in Caches /\ IsChain(cache.blocks)
  BY DEF ProcessOK, ProcessTypeOK, CacheIsChain, Caches
<1>2. CASE InBootstrap
  <2>1. K + W \in Nat /\ 0 \in 0..(MaxAttempts - 1)
    BY ReporterAssumption DEF ReporterAssumption
  <2>2. cache' \in Caches /\ IsChain(cache'.blocks)
    BY <1>1, <1>2, <2>1, TrimKeepsChain DEF ProcessingSucceeds
  <2>3. headers' \in Seq(Block) /\ pc' \in Steps /\ pc' \notin EventSteps /\ pc' # "insert"
    BY <1>2 DEF ProcessingSucceeds, Steps, EventSteps
  <2>4. skip' \in BOOLEAN /\ attempts' \in 0..(MaxAttempts - 1)
    BY <1>2, <2>1 DEF ProcessingSucceeds
  <2>5. UNCHANGED <<reorgList, event, exit, subscribed, listening, chan>>
    BY <1>2 DEF ProcessingSucceeds, subscription
  <2> QED
    BY <2>2, <2>3, <2>4, <2>5 DEF ProcessOK, ProcessTypeOK, CacheIsChain, Caches
<1>3. CASE ~InBootstrap
  <2>1. EventDone /\ UNCHANGED <<cache, reorgList, subscription>>
    BY <1>3 DEF ProcessingSucceeds
  <2> QED
    BY <1>1, <2>1, EventDoneKeeps DEF ProcessOK, ProcessTypeOK, subscription
<1> QED
  BY <1>2, <1>3

LEMMA ProcessingFailsKeeps ==
  ASSUME ProcessOK, ProcessingFails
  PROVE  ProcessOK'
<1>1. CASE InBootstrap
  BY <1>1, BootstrapFailsKeeps DEF ProcessingFails
<1>2. CASE ~InBootstrap
  <2>1. EventDone /\ UNCHANGED <<cache, reorgList, subscription>>
    BY <1>2 DEF ProcessingFails
  <2>2. cache \in Caches /\ IsChain(cache.blocks)
    BY DEF ProcessOK, ProcessTypeOK, CacheIsChain, Caches
  <2> QED
    BY <2>1, <2>2, EventDoneKeeps DEF ProcessOK, ProcessTypeOK, subscription
<1> QED
  BY <1>1, <1>2

\* The process goes on without a new event.
LEMMA GotoKeeps ==
  ASSUME ProcessOK, NEW p \in Steps, Goto(p), UNCHANGED <<subscription, event>>,
         cache' \in Caches, IsChain(cache'.blocks),
         reorgList' \in [blocks : Seq(Block), work : Nat],
         headers' \in Seq(Block), p = "insert" => headers' # <<>>,
         p \in EventSteps => event # NoEvent
  PROVE  ProcessOK'
BY DEF Goto, ProcessOK, ProcessTypeOK, CacheIsChain, subscription, Caches

\* What ProcessOK says of the parts.
LEMMA ProcessParts ==
  ASSUME ProcessOK
  PROVE  /\ cache \in Caches /\ IsChain(cache.blocks)
         /\ reorgList \in [blocks : Seq(Block), work : Nat]
         /\ headers \in Seq(Block) /\ (pc = "insert" => headers # <<>>)
         /\ pc \in EventSteps => event # NoEvent
         /\ event # NoEvent => event.block \in Block
         /\ chan \in Seq(Events)
BY DEF ProcessOK, ProcessTypeOK, CacheIsChain, Caches, Events

-----------------------------------------------------------------------------
(***************************************************************************)
(* Each step of the process keeps the process's part of the invariant.     *)
(***************************************************************************)
LEMMA StartKeeps ==
  ASSUME ProcessOK, Start
  PROVE  ProcessOK'
<1>1. 0 \in 0..(MaxAttempts - 1)
  BY ReporterAssumption DEF ReporterAssumption
<1>2. CASE AlreadyClose
  BY <1>1, <1>2, BeginBootstrapKeeps DEF AlreadyClose
<1>3. CASE CatchUp
  BY <1>1, <1>3, BeginBootstrapKeeps DEF CatchUp
<1>4. CASE CatchUpOnStaleFork
  BY <1>4, ExitKeeps DEF CatchUpOnStaleFork, Exits, Panics
<1> QED
  BY <1>2, <1>3, <1>4 DEF Start

LEMMA WaitUntilBTCSyncKeeps ==
  ASSUME ProcessOK, WaitUntilBTCSync
  PROVE  ProcessOK'
BY ProcessParts, GotoKeeps DEF WaitUntilBTCSync, Steps, BootstrapSteps, EventSteps

\* The blocks from CacheBaseHeight to the node's tip are one chain.
LEMMA InitBTCCacheKeeps ==
  ASSUME IInv, InitBTCCache
  PROVE  ProcessOK'
<1> DEFINE ibs == ChainSegment(btcTip, CacheBaseHeight, Height(btcTip))
<1>1. ProcessOK /\ btcTip \in Block /\ lrzTip \in Block
  BY DEF IInv, WorldTypeOK
<1>2. CASE Exit("initCache")
  BY <1>2, ExitKeeps DEF Exits, Panics
<1>3. CASE ~Exit("initCache")
  <2>1. /\ ~(Height(btcTip) < CacheBaseHeight)
        /\ cache' = AddAll(NewBTCCache(BTCCacheSize), ibs)
        /\ Goto("subscribe") /\ UNCHANGED <<subscription, reorgList, event, headers>>
    BY <1>3 DEF InitBTCCache
  <2>2. CacheBaseHeight \in Nat \ {0}
    <3> DEFINE n == Len(lrzTip)
    <3>1. n \in Nat
      BY <1>1, BlockIsPath
    <3> HIDE DEF n
    <3>2. BaseHeight \in Nat \ {0} /\ K \in Nat /\ W \in Nat
      BY ReporterAssumption DEF ReporterAssumption
    <3> QED
      BY <3>1, <3>2 DEF CacheBaseHeight, Height, n
  <2>3. CacheBaseHeight <= Len(btcTip)
    <3>1. Len(btcTip) \in Nat
      BY <1>1, BlockIsPath
    <3> QED
      BY <2>1, <2>2, <3>1 DEF Height
  <2>4. ibs \in Seq(Block) /\ IsChain(ibs)
    BY <1>1, <2>2, <2>3, SegmentIsChain DEF Height
  <2>5. BTCCacheSize \in Nat
    BY ReporterAssumption DEF ReporterAssumption
  <2>6. cache' \in Caches /\ IsChain(cache'.blocks)
    BY <2>1, <2>4, <2>5, AddAllKeepsChain
  <2>7. reorgList' \in [blocks : Seq(Block), work : Nat] /\ headers' \in Seq(Block)
    BY <1>1, <2>1, ProcessParts
  <2>8. "subscribe" \in Steps /\ "subscribe" # "insert" /\ "subscribe" \notin EventSteps
    BY DEF Steps, BootstrapSteps, EventSteps
  <2> QED
    BY <1>1, <2>1, <2>6, <2>7, <2>8, GotoKeeps
<1> QED
  BY <1>2, <1>3

\* What InitBTCCache loads: the node's chain, from the base height to its tip.
LEMMA LoadedBlocks ==
  ASSUME IInv, InitBTCCache, pc' = "subscribe"
  PROVE  LET n   == Len(btcTip)
             lo  == CacheBaseHeight
             ibs == ChainSegment(btcTip, lo, n)
         IN  /\ cache'.blocks = ibs /\ btcTip' = btcTip
             /\ n \in Nat /\ lo \in 1..n
             /\ ibs \in Seq(Block) /\ Len(ibs) = n - lo + 1
             /\ \A i \in 1..Len(ibs) : ibs[i] = AncestorAt(btcTip, lo + i - 1)
             /\ ibs # <<>> /\ ibs[Len(ibs)] = btcTip
<1> DEFINE fresh == NewBTCCache(BTCCacheSize)
           lo    == CacheBaseHeight
           n     == Len(btcTip)
           ibs   == ChainSegment(btcTip, lo, n)
<1>1. btcTip' = btcTip /\ btcTip \in Block
  BY DEF InitBTCCache, IInv, WorldTypeOK, node
<1>2. /\ ~(Height(btcTip) < lo) /\ ~TooManyEntries(fresh, ibs)
      /\ cache' = AddAll(fresh, ibs)
  BY DEF InitBTCCache, Exit, Height
<1>3. n \in Nat /\ lo \in Nat /\ lo >= 1 /\ BTCCacheSize \in Nat
  <2>1. Len(lrzTip) \in Nat
    BY BlockIsPath DEF IInv, WorldTypeOK
  <2> QED
    BY <1>1, <2>1, BlockIsPath, ReporterAssumption
    DEF ReporterAssumption, CacheBaseHeight, Height
<1>4. n \in 1..n /\ lo \in 1..n
  BY <1>2, <1>3 DEF Height
<1>5. /\ ibs \in Seq(Block) /\ Len(ibs) = n - lo + 1
      /\ \A i \in 1..Len(ibs) : ibs[i] = AncestorAt(btcTip, lo + i - 1)
      /\ ibs[Len(ibs)] = btcTip
  BY <1>1, <1>4, SegmentOfBlocks, AncestorOfTop
<1>6. cache'.blocks = ibs
  <2>1. fresh.blocks = <<>> /\ fresh.maxEntries = BTCCacheSize /\ <<>> \o ibs = ibs
    BY <1>5 DEF NewBTCCache
  <2>2. ~(Len(ibs) > BTCCacheSize)
    BY <1>2, <2>1 DEF TooManyEntries
  <2>3. AddAll(fresh, ibs) = [fresh EXCEPT !.blocks = SubSeq(ibs, Len(ibs) - Len(ibs) + 1, Len(ibs))]
    BY <2>1, <2>2, Zenon DEF AddAll
  <2>4. SubSeq(ibs, Len(ibs) - Len(ibs) + 1, Len(ibs)) = ibs
    BY <1>5
  <2> QED
    BY <1>2, <2>3, <2>4 DEF NewBTCCache
<1> HIDE DEF n, lo, ibs
<1>7. ibs # <<>>
  <2>1. Len(ibs) >= 1
    BY <1>3, <1>4, <1>5
  <2> QED
    BY <1>5, <2>1
<1> QED
  BY <1>1, <1>3, <1>4, <1>5, <1>6, <1>7 DEF n, lo, ibs

LEMMA SubscribeKeeps ==
  ASSUME ProcessOK, Subscribe
  PROVE  ProcessOK'
<1>1. CASE Exit("alreadySubscribed")
  BY <1>1, ExitKeeps DEF Exits, Panics
<1>2. CASE ~Exit("alreadySubscribed")
  <2>1. /\ subscribed' = (subscribed \/ ~skip)
        /\ listening' = (listening \/ (~skip /\ Backend = "btcd"))
        /\ Goto("consistency")
        /\ UNCHANGED <<chan, cache, reorgList, event, headers>>
    BY <1>2 DEF Subscribe
  <2>2. subscribed' \in BOOLEAN /\ listening' \in BOOLEAN
    BY <2>1, Zenon DEF ProcessOK, ProcessTypeOK
  <2>3. pc' \in Steps /\ pc' # "insert" /\ pc' \notin EventSteps /\ UNCHANGED <<skip, attempts, exit>>
    BY <2>1 DEF Goto, Steps, BootstrapSteps, EventSteps
  <2> QED
    BY <2>1, <2>2, <2>3 DEF ProcessOK, ProcessTypeOK, CacheIsChain
<1> QED
  BY <1>1, <1>2

\* An empty cache has no height in range, but 0.
LEMMA InRangeNotEmpty ==
  ASSUME NEW c, NEW h \in Nat, h >= 1, ~HeightOutOfRange(c, h)
  PROVE  c.blocks # <<>>
BY DEF HeightOutOfRange, First, Tip, NoBlock, Height

LEMMA CheckConsistencyKeeps ==
  ASSUME IInv, CheckConsistency
  PROVE  ProcessOK'
<1> DEFINE h   == ConsistencyHeight + 1
           ibs == GetLastBlocks(cache, h)
<1>1. ProcessOK /\ lrzTip \in Block
  BY DEF IInv, WorldTypeOK
<1>2. CASE \E reason \in Exits : Exit(reason)
  BY <1>2, ExitKeeps
<1>3. CASE ~\E reason \in Exits : Exit(reason)
  <2>1. ~Exit("notInCache") /\ ~Exit("inconsistent") /\ ~Exit("nothingToSync")
    BY <1>3 DEF Exits, Panics
  <2>2. /\ ~HeightOutOfRange(cache, h) /\ ~(Len(ibs) <= Delay)
        /\ headers' = WithoutDelay(ibs)
        /\ Goto("dedup")
        /\ UNCHANGED <<subscription, cache, reorgList, event>>
    BY <2>1 DEF CheckConsistency
  <2>3. h \in Nat /\ h >= 1
    <3> DEFINE n == Len(lrzTip)
    <3>1. n \in Nat
      BY <1>1, BlockIsPath
    <3> HIDE DEF n
    <3>2. BaseHeight \in Nat \ {0} /\ K \in Nat
      BY ReporterAssumption DEF ReporterAssumption
    <3> QED
      BY <3>1, <3>2 DEF ConsistencyHeight, Height, n
  <2>4. cache \in Caches /\ IsChain(cache.blocks) /\ reorgList \in [blocks : Seq(Block), work : Nat]
    BY <1>1, ProcessParts
  <2>5. ibs \in Seq(Block)
    BY <2>2, <2>3, <2>4, InRangeNotEmpty, GetLastBlocksType
  <2>6. headers' \in Seq(Block)
    <3> HIDE DEF ibs
    <3> DEFINE m == Len(ibs)
    <3>1. m \in Nat /\ Delay \in Nat /\ ~(m <= Delay)
      BY <2>2, <2>5, ReporterAssumption DEF ReporterAssumption
    <3> HIDE DEF m
    <3>2. 1 \in 1..(m + 1) /\ m - Delay \in 0..m
      BY <3>1
    <3> QED
      BY <2>2, <2>5, <3>2, SubSeqOfBlocks DEF WithoutDelay, m
  <2>7. "dedup" \in Steps /\ "dedup" # "insert" /\ "dedup" \notin EventSteps
    BY DEF Steps, EventSteps
  <2> QED
    BY <1>1, <2>2, <2>4, <2>6, <2>7, GotoKeeps
<1> QED
  BY <1>2, <1>3

LEMMA DedupKeeps ==
  ASSUME ProcessOK, Dedup
  PROVE  ProcessOK'
<1> DEFINE missing == {i \in 1..Len(headers) : ~ContainsBTCBlock(lrzTip, headers[i])}
<1>1. CASE missing = {}
  BY <1>1, ProcessingSucceedsKeeps DEF Dedup
<1>2. CASE missing # {}
  <2>1. PICK i \in missing : headers' = SubSeq(headers, i, Len(headers))
    BY <1>2 DEF Dedup
  <2>2. Goto("insert") /\ UNCHANGED <<subscription, cache, reorgList, event>>
    BY <1>2 DEF Dedup
  <2>3. headers \in Seq(Block) /\ i \in 1..Len(headers)
    BY ProcessParts
  <2>4. headers' \in Seq(Block) /\ headers' # <<>>
    <3> DEFINE n == Len(headers)
    <3>1. n \in Nat
      BY <2>3
    <3>2. i \in 1..(n + 1) /\ n \in 0..n /\ n - i + 1 # 0 /\ i <= n
      <4> HIDE DEF n
      <4> QED
        BY <2>3, <3>1 DEF n
    <3>3. SubSeq(headers, i, n) \in Seq(Block)
      BY <2>3, <3>2, SubSeqOfBlocks
    <3>4. Len(SubSeq(headers, i, n)) = n - i + 1
      BY <2>3, <3>2
    <3> QED
      BY <2>1, <3>2, <3>3, <3>4
  <2>5. "insert" \in Steps /\ "insert" \notin EventSteps
    BY DEF Steps, EventSteps
  <2> QED
    BY <2>2, <2>4, <2>5, ProcessParts, GotoKeeps
<1> QED
  BY <1>1, <1>2

\* A message is a non-empty part of the headers.
LEMMA ChunkType ==
  ASSUME headers \in Seq(Block), headers # <<>>
  PROVE  /\ Chunk \in Seq(Block) /\ Chunk # <<>> /\ InsertHeaders(Chunk) \in Block
         /\ Rest \in Seq(Block)
<1> DEFINE n == Len(headers)
           m == IF n < MaxHeaders THEN n ELSE MaxHeaders
<1>1. n \in Nat /\ n >= 1
  OBVIOUS
<1>2. MaxHeaders \in Nat \ {0}
  BY ReporterAssumption DEF ReporterAssumption
<1>3. m \in 1..n
  <2> HIDE DEF n
  <2> QED
    BY <1>1, <1>2
<1>4. Chunk = SubSeq(headers, 1, m)
  BY DEF Chunk
<1> HIDE DEF m
<1>5. Chunk \in Seq(Block) /\ Len(Chunk) = m /\ Chunk[m] \in Block
  BY <1>1, <1>3, <1>4
<1>6. Rest \in Seq(Block)
  <2>1. m + 1 \in 1..(n + 1) /\ n \in 0..n
    <3> HIDE DEF n
    <3> QED
      BY <1>1, <1>3
  <2>2. Rest = SubSeq(headers, m + 1, n)
    BY <1>5 DEF Rest
  <2> QED
    BY <2>1, <2>2, SubSeqOfBlocks
<1>7. Chunk # <<>>
  BY <1>3, <1>5
<1> QED
  BY <1>5, <1>6, <1>7 DEF InsertHeaders

LEMMA SubmitChunkKeeps ==
  ASSUME ProcessOK, SubmitChunk
  PROVE  ProcessOK'
<1>1. headers \in Seq(Block) /\ headers # <<>>
  BY ProcessParts DEF SubmitChunk
<1>2. CASE ~Accepts(lrzTip, Chunk)
  BY <1>2, ProcessingFailsKeeps DEF SubmitChunk
<1>3. CASE Accepts(lrzTip, Chunk) /\ Rest = <<>>
  BY <1>3, ProcessingSucceedsKeeps DEF SubmitChunk
<1>4. CASE Accepts(lrzTip, Chunk) /\ Rest # <<>>
  <2>1. headers' = Rest /\ Goto("insert") /\ UNCHANGED <<subscription, cache, reorgList, event>>
    BY <1>4 DEF SubmitChunk
  <2>2. headers' \in Seq(Block) /\ headers' # <<>>
    BY <1>1, <1>4, <2>1, ChunkType
  <2>3. "insert" \in Steps /\ "insert" \notin EventSteps
    BY DEF Steps, EventSteps
  <2> QED
    BY <2>1, <2>2, <2>3, ProcessParts, GotoKeeps
<1> QED
  BY <1>2, <1>3, <1>4

LEMMA ReceiveEventKeeps ==
  ASSUME ProcessOK, ReceiveEvent
  PROVE  ProcessOK'
<1>1. chan \in Seq(Events) /\ chan # <<>>
  BY ProcessParts DEF ReceiveEvent
<1>2. event' \in Events /\ chan' \in Seq(Events)
  BY <1>1 DEF ReceiveEvent
<1>3. event' # NoEvent
  BY <1>2 DEF Events, NoEvent
<1>4. pc' \in Steps /\ pc' # "insert" /\ UNCHANGED <<skip, attempts, exit>>
  BY DEF ReceiveEvent, Goto, Steps
<1>5. UNCHANGED <<subscribed, listening, cache, reorgList, headers>>
  BY DEF ReceiveEvent
<1> QED
  BY <1>2, <1>3, <1>4, <1>5 DEF ProcessOK, ProcessTypeOK, CacheIsChain

LEMMA MatureKeeps ==
  ASSUME ProcessOK, Mature
  PROVE  ProcessOK'
<1>1. event # NoEvent
  BY ProcessParts DEF Mature, EventSteps
<1>2. "handle" \in Steps /\ "handle" # "insert"
  BY DEF Steps
<1> QED
  BY <1>1, <1>2, ProcessParts, GotoKeeps DEF Mature

LEMMA RejectConnectedKeeps ==
  ASSUME ProcessOK, RejectConnected
  PROVE  ProcessOK'
BY RestartBootstrapKeeps DEF RejectConnected

LEMMA SkipConnectedKeeps ==
  ASSUME ProcessOK, SkipConnected
  PROVE  ProcessOK'
BY ProcessParts, EventDoneKeeps DEF SkipConnected

(***************************************************************************)
(* handleConnectedBlocks adds a block to the cache only after it found it  *)
(* on the best chain, the cache not empty, the block above it, and its     *)
(* parent at the tip.                                                      *)
(***************************************************************************)
LEMMA ConnectedBlockExtends ==
  ASSUME ProcessOK, ExtendCache
  PROVE  /\ cache \in Caches /\ cache.blocks # <<>> /\ event.block \in Block
         /\ OnChain(event.block, btcTip) /\ Parent(event.block) = Tip(cache)
         /\ Add(cache, event.block) \in Caches /\ IsChain(Add(cache, event.block).blocks)
         /\ Add(cache, event.block).blocks # <<>>
<1> DEFINE b == event.block
<1>1. cache \in Caches /\ IsChain(cache.blocks) /\ b \in Block
  BY ProcessParts DEF ExtendCache, Connecting, EventSteps
<1>2. cache.blocks # <<>> /\ OnChain(b, btcTip) /\ Parent(b) = Tip(cache)
  <2>1. cache.blocks # <<>> /\ OnChain(b, btcTip)
        /\ (Height(b) >= Height(First(cache)) /\ FindBlock(cache, Height(b)) = NoBlock
              => Parent(b) = Tip(cache))
    BY DEF ExtendCache, ConnectMismatch
  <2>2. ~(Height(b) < Height(First(cache))) /\ FindBlock(cache, Height(b)) = NoBlock
    BY DEF ExtendCache, KnownToCache
  <2>3. Height(b) \in Nat /\ Height(First(cache)) \in Nat
    <3>1. First(cache) \in Block
      BY <1>1, <2>1 DEF First, Caches
    <3> QED
      BY <1>1, <3>1, BlockIsPath DEF Height
  <2> QED
    BY <2>1, <2>2, <2>3
<1> QED
  BY <1>1, <1>2, AddKeepsChain

LEMMA ExtendCacheKeeps ==
  ASSUME ProcessOK, ExtendCache
  PROVE  ProcessOK'
<1> DEFINE b      == event.block
           grown  == Add(cache, b)
           branch == GetLastBlocks(grown, Height(OldestRemoved))
<1>1. grown \in Caches /\ IsChain(grown.blocks) /\ grown.blocks # <<>>
  BY ConnectedBlockExtends
<1>2. reorgList \in [blocks : Seq(Block), work : Nat] /\ NoReorg \in [blocks : Seq(Block), work : Nat]
      /\ headers \in Seq(Block)
  BY ProcessParts DEF NoReorg
<1>3. "lorenzoTip" \in Steps /\ "dedup" \in Steps /\ "dedup" \notin EventSteps /\ event # NoEvent
  BY ProcessParts DEF Steps, EventSteps, ExtendCache, Connecting
<1>4. CASE Exit("cacheAdd") \/ Exit("reorgRange")
  BY <1>4, ExitKeeps DEF Exits, Panics
<1>5. CASE ~(Exit("cacheAdd") \/ Exit("reorgRange"))
  <2>1. CASE reorgList.blocks = <<>>
    <3>1. cache' = grown /\ Goto("lorenzoTip") /\ UNCHANGED <<subscription, reorgList, event, headers>>
      BY <1>5, <2>1 DEF ExtendCache
    <3> QED
      BY <1>1, <1>2, <1>3, <3>1, GotoKeeps
  <2>2. CASE reorgList.blocks # <<>> /\ BranchWins(branch)
    <3>1. /\ cache' = grown /\ headers' = branch /\ reorgList' = NoReorg
          /\ Goto("dedup") /\ UNCHANGED <<subscription, event>>
      BY <1>5, <2>2 DEF ExtendCache
    <3>2. Height(OldestRemoved) \in Int
      <4>1. OldestRemoved \in Block
        BY <1>2, <2>2 DEF OldestRemoved
      <4> QED
        BY <4>1, BlockIsPath DEF Height
    <3>3. branch \in Seq(Block)
      BY <1>1, <3>2, GetLastBlocksType
    <3> QED
      BY <1>1, <1>2, <1>3, <3>1, <3>3, GotoKeeps
  <2>3. CASE reorgList.blocks # <<>> /\ ~BranchWins(branch)
    <3>1. cache' = grown /\ EventDone /\ UNCHANGED <<subscription, reorgList>>
      BY <1>5, <2>3 DEF ExtendCache
    <3> QED
      BY <1>1, <1>2, <3>1, EventDoneKeeps
  <2> QED
    BY <2>1, <2>2, <2>3
<1> QED
  BY <1>4, <1>5

LEMMA QueryLorenzoTipKeeps ==
  ASSUME IInv, QueryLorenzoTip
  PROVE  ProcessOK'
<1> DEFINE h == Height(lrzTip) + 1
<1>1. ProcessOK /\ lrzTip \in Block
  BY DEF IInv, WorldTypeOK
<1>2. event.block \in Block /\ event # NoEvent
  BY <1>1, ProcessParts DEF QueryLorenzoTip, EventSteps
<1>3. "dedup" \in Steps /\ "dedup" \notin EventSteps /\ "dedup" # "insert"
  BY DEF Steps, EventSteps
<1>4. CASE RestartBootstrap
  BY <1>1, <1>4, RestartBootstrapKeeps
<1>5. CASE ~RestartBootstrap
  <2>1. Goto("dedup") /\ UNCHANGED <<subscription, cache, reorgList, event>>
    BY <1>5 DEF QueryLorenzoTip
  <2>2. headers' \in Seq(Block)
    <3>1. CASE ~BehindParent
      <4>1. headers' = <<event.block>>
        BY <3>1 DEF QueryLorenzoTip
      <4>2. <<event.block>> \in Seq(Block)
        BY <1>2
      <4> QED
        BY <4>1, <4>2
    <3>2. CASE BehindParent
      <4>1. headers' = GetLastBlocks(cache, h) /\ ~HeightOutOfRange(cache, h)
        BY <1>5, <3>2 DEF QueryLorenzoTip
      <4>2. h \in Nat /\ h >= 1
        <5>1. Len(lrzTip) \in Nat
          BY <1>1, BlockIsPath
        <5> QED
          BY <5>1 DEF Height
      <4> HIDE DEF h
      <4>3. cache \in Caches /\ cache.blocks # <<>>
        BY <1>1, <4>1, <4>2, ProcessParts, InRangeNotEmpty
      <4>4. GetLastBlocks(cache, h) \in Seq(Block)
        BY <4>2, <4>3, GetLastBlocksType
      <4> QED
        BY <4>1, <4>4
    <3> QED
      BY <3>1, <3>2
  <2> QED
    BY <1>1, <1>3, <2>1, <2>2, ProcessParts, GotoKeeps
<1> QED
  BY <1>4, <1>5

LEMMA HandleDisconnectedKeeps ==
  ASSUME ProcessOK, HandleDisconnected
  PROVE  ProcessOK'
<1> DEFINE b == event.block
<1>1. cache \in Caches /\ IsChain(cache.blocks) /\ b \in Block
      /\ reorgList \in [blocks : Seq(Block), work : Nat]
  BY ProcessParts DEF HandleDisconnected, EventSteps
<1>2. CASE RestartBootstrap
  BY <1>2, RestartBootstrapKeeps
<1>3. CASE ~RestartBootstrap
  <2>1. /\ cache.blocks # <<>> /\ cache' = RemoveLast(cache)
        /\ reorgList' = [blocks |-> Append(reorgList.blocks, b),
                         work   |-> reorgList.work + HeaderWork(b)]
        /\ EventDone /\ UNCHANGED subscription
    BY <1>3 DEF HandleDisconnected
  <2>2. cache' \in Caches /\ IsChain(cache'.blocks)
    BY <1>1, <2>1, RemoveLastKeepsChain
  <2>3. reorgList' \in [blocks : Seq(Block), work : Nat]
    <3>1. HeaderWork(b) \in Nat /\ reorgList.work \in Nat /\ reorgList.blocks \in Seq(Block)
      BY <1>1, HeaderWorkIsNat
    <3>2. reorgList.work + HeaderWork(b) \in Nat /\ Append(reorgList.blocks, b) \in Seq(Block)
      BY <1>1, <3>1
    <3> QED
      BY <2>1, <3>2
  <2> QED
    BY <2>1, <2>2, <2>3, EventDoneKeeps
<1> QED
  BY <1>2, <1>3

LEMMA StepKeeps ==
  ASSUME IInv, Step
  PROVE  ProcessOK'
<1>1. ProcessOK
  BY DEF IInv
<1>2. CASE Start
  BY <1>1, <1>2, StartKeeps
<1>3. CASE Bootstrap
  BY <1>1, <1>3, WaitUntilBTCSyncKeeps, InitBTCCacheKeeps, SubscribeKeeps, CheckConsistencyKeeps
  DEF Bootstrap
<1>4. CASE ProcessHeaders
  BY <1>1, <1>4, DedupKeeps, SubmitChunkKeeps DEF ProcessHeaders
<1>5. CASE HandleEvent
  BY <1>1, <1>5, ReceiveEventKeeps, MatureKeeps, RejectConnectedKeeps, SkipConnectedKeeps,
     ExtendCacheKeeps, QueryLorenzoTipKeeps, HandleDisconnectedKeeps DEF HandleEvent
<1> QED
  BY <1>2, <1>3, <1>4, <1>5 DEF Step

-----------------------------------------------------------------------------
(***************************************************************************)
(* The environment's steps: the node, the faults, the other relayer.       *)
(***************************************************************************)

\* The events of a reorganisation are events of blocks.
LEMMA ReorgEventsType ==
  ASSUME NEW s \in Block, NEW t \in Block, NEW f \in Nat, f <= Len(s), f <= Len(t)
  PROVE  ReorgEvents(s, t, f) \in Seq(Events)
<1> DEFINE down == [i \in 1..(Len(s) - f) |->
                      [type |-> "disconnected", block |-> SubSeq(s, 1, Len(s) - i + 1)]]
           up   == [i \in 1..(Len(t) - f) |->
                      [type |-> "connected", block |-> SubSeq(t, 1, f + i)]]
<1>1. Len(s) \in Nat /\ Len(t) \in Nat
  BY BlockIsPath
<1>2. \A i \in 1..(Len(s) - f) : SubSeq(s, 1, Len(s) - i + 1) \in Block
  <2> SUFFICES ASSUME NEW i \in 1..(Len(s) - f)
               PROVE  SubSeq(s, 1, Len(s) - i + 1) \in Block
    OBVIOUS
  <2> DEFINE n == Len(s)
  <2>1. n - i + 1 \in 1..n
    <3> HIDE DEF n
    <3> QED
      BY <1>1 DEF n
  <2> QED
    BY <2>1, BlockIsPath
<1>3. \A i \in 1..(Len(t) - f) : SubSeq(t, 1, f + i) \in Block
  <2> SUFFICES ASSUME NEW i \in 1..(Len(t) - f)
               PROVE  SubSeq(t, 1, f + i) \in Block
    OBVIOUS
  <2>1. f + i \in 1..Len(t)
    BY <1>1
  <2> QED
    BY <2>1, BlockIsPath
<1>4. down \in Seq(Events)
  BY <1>1, <1>2 DEF Events
<1>5. up \in Seq(Events)
  BY <1>1, <1>3 DEF Events
<1> HIDE DEF down, up
<1>6. down \o up \in Seq(Events)
  BY <1>4, <1>5
<1> QED
  BY <1>6 DEF ReorgEvents, down, up

\* Only the subscription changes, or the channel of block events.
LEMMA SubscriptionKeeps ==
  ASSUME ProcessOK, listening' \in BOOLEAN, chan' \in Seq(Events),
         UNCHANGED <<subscribed, memory, exit>>
  PROVE  ProcessOK'
BY DEF ProcessOK, ProcessTypeOK, CacheIsChain, memory

LEMMA ListeningType ==
  ASSUME ProcessOK
  PROVE  listening \in BOOLEAN
BY DEF ProcessOK, ProcessTypeOK

LEMMA NodeAdvanceKeeps ==
  ASSUME IInv, NEW t \in Block, NodeAdvance(t)
  PROVE  ProcessOK'
<1>1. ProcessOK /\ btcTip \in Block
  BY DEF IInv, WorldTypeOK
<1>2. PICK f \in 0..Height(t) :
        /\ ForkHeight(btcTip, t, f)
        /\ chan' = IF listening THEN chan \o ReorgEvents(btcTip, t, f) ELSE chan
  BY DEF NodeAdvance
<1>3. f \in Nat /\ f <= Len(btcTip) /\ f <= Len(t)
  BY <1>2 DEF ForkHeight
<1>4. ReorgEvents(btcTip, t, f) \in Seq(Events)
  BY <1>1, <1>3, ReorgEventsType
<1>5. chan' \in Seq(Events)
  BY <1>1, <1>2, <1>4, ProcessParts
<1> QED
  BY <1>1, <1>5, ListeningType, SubscriptionKeeps DEF NodeAdvance

LEMMA SubscriptionBeginsKeeps ==
  ASSUME ProcessOK, SubscriptionBegins
  PROVE  ProcessOK'
BY ProcessParts, SubscriptionKeeps DEF SubscriptionBegins

LEMMA LoseEventKeeps ==
  ASSUME ProcessOK, LoseEvent
  PROVE  ProcessOK'
<1>1. PICK i \in 1..Len(chan) : chan' = RemoveAt(chan, i)
  BY DEF LoseEvent
<1>2. chan \in Seq(Events)
  BY ProcessParts
<1>3. chan' \in Seq(Events)
  <2> DEFINE before == SubSeq(chan, 1, i - 1)
             after  == SubSeq(chan, i + 1, Len(chan))
  <2>1. before \in Seq(Events) /\ after \in Seq(Events)
    BY <1>2
  <2> HIDE DEF before, after
  <2>2. before \o after \in Seq(Events)
    BY <2>1
  <2> QED
    BY <1>1, <2>2 DEF RemoveAt, before, after
<1> QED
  BY <1>3, ListeningType, SubscriptionKeeps DEF LoseEvent

LEMMA FaultsKeep ==
  ASSUME IInv, Faults
  PROVE  ProcessOK'
<1>1. ProcessOK
  BY DEF IInv
<1>2. CASE LorenzoRequestFails
  BY <1>1, <1>2, ExitKeeps, BootstrapFailsKeeps, RestartBootstrapKeeps, ProcessingFailsKeeps
  DEF LorenzoRequestFails, CatchUpFails, Exits
<1>3. CASE BTCRequestFails
  BY <1>1, <1>3, ExitKeeps, BootstrapFailsKeeps, RestartBootstrapKeeps
  DEF BTCRequestFails, CatchUpFails, Exits
<1>4. CASE LoseEvent
  BY <1>1, <1>4, LoseEventKeeps
<1>5. CASE \E t \in Block : RivalInsert(t)
  <2>1. UNCHANGED <<subscription, memory, exit>>
    BY <1>5 DEF RivalInsert
  <2> QED
    BY <1>1, <2>1, ProcessParts, ListeningType, SubscriptionKeeps DEF subscription
<1>6. CASE Crash
  BY <1>6, ExitKeeps DEF Crash, Exits
<1>7. CASE Restart
  <2>1. pc' \in Steps /\ pc' # "insert" /\ pc' \notin EventSteps
    BY <1>7 DEF Restart, Steps, EventSteps
  <2>2. UNCHANGED <<subscribed, listening, chan, cache, reorgList, event, headers, skip, attempts, exit>>
    BY <1>7 DEF Restart, subscription
  <2> QED
    BY <1>1, <2>1, <2>2 DEF ProcessOK, ProcessTypeOK, CacheIsChain
<1> QED
  BY <1>2, <1>3, <1>4, <1>5, <1>6, <1>7 DEF Faults

-----------------------------------------------------------------------------
(***************************************************************************)
(* The world's part of the invariant: what a step inserts into Lorenzo's   *)
(* light client, and what the node moves to, are blocks.                   *)
(***************************************************************************)
LEMMA CatchUpTipsAreBlocks ==
  ASSUME WorldTypeOK
  PROVE  CatchUpTips \subseteq Block
<1>1. btcTip \in Block /\ lrzTip \in Block
  BY DEF WorldTypeOK
<1>2. ASSUME NEW h \in Height(lrzTip)..CatchUpLimit
      PROVE  AncestorAt(btcTip, h) \in Block
  <2> DEFINE n == Len(btcTip)
             m == Len(lrzTip)
  <2>1. n \in Nat /\ m \in Nat /\ m >= 1 /\ K \in Nat
    BY <1>1, BlockIsPath, ReporterAssumption DEF ReporterAssumption
  <2>2. h \in m..(n - 2 * K)
    BY DEF Height, CatchUpLimit
  <2> HIDE DEF n, m
  <2>3. h \in 1..n
    BY <2>1, <2>2
  <2> QED
    BY <1>1, <2>3, BlockIsPath DEF AncestorAt, n
<1> QED
  BY <1>1, <1>2 DEF CatchUpTips

LEMMA MaturedAreBlocks ==
  ASSUME NEW t \in Block
  PROVE  Matured(t) \subseteq Block
<1> SUFFICES ASSUME NEW h \in 1..(Height(t) - Delay)
             PROVE  AncestorAt(t, h) \in Block
  BY DEF Matured
<1> DEFINE n == Len(t)
<1>1. n \in Nat /\ Delay \in Nat /\ h \in 1..(n - Delay)
  BY BlockIsPath, ReporterAssumption DEF ReporterAssumption, Height
<1> HIDE DEF n
<1>2. h \in 1..n
  BY <1>1
<1> QED
  BY <1>2, BlockIsPath DEF AncestorAt, n

LEMMA WorldKeeps ==
  ASSUME IInv, Next
  PROVE  WorldTypeOK'
<1>1. WorldTypeOK /\ ProcessOK
  BY DEF IInv
<1>2. /\ btcTip \in Block /\ lrzTip \in Block /\ matured \subseteq Block
      /\ faults \in 0..MaxFaults /\ MaxFaults \in Nat
  BY <1>1, ReporterAssumption DEF WorldTypeOK, ReporterAssumption
<1>3. btcTip' \in Block /\ matured' \subseteq Block
  <2>1. CASE \E t \in Block : NodeAdvance(t)
    BY <1>2, <2>1, MaturedAreBlocks DEF NodeAdvance
  <2>2. CASE ~\E t \in Block : NodeAdvance(t)
    <3>1. UNCHANGED <<btcTip, matured>>
      BY <2>2 DEF Next, Step, Start, Bootstrap, ProcessHeaders, HandleEvent, Faults, node,
        AlreadyClose, CatchUp, CatchUpOnStaleFork, WaitUntilBTCSync, InitBTCCache, Subscribe,
        CheckConsistency, Dedup, SubmitChunk, ReceiveEvent, Mature, RejectConnected,
        SkipConnected, ExtendCache, QueryLorenzoTip, HandleDisconnected, LorenzoRequestFails,
        BTCRequestFails, LoseEvent, RivalInsert, Crash, Restart, SubscriptionBegins
    <3> QED
      BY <1>2, <3>1
  <2> QED
    BY <2>1, <2>2
<1>4. faults' \in 0..MaxFaults
  <2>1. ASSUME NEW kind, Fault(kind)
        PROVE  faults' \in 0..MaxFaults
    BY <1>2, <2>1 DEF Fault
  <2>2. CASE UNCHANGED faults
    BY <1>2, <2>2
  <2>3. (\E kind : Fault(kind)) \/ UNCHANGED faults
    BY DEF Next, Step, Start, Bootstrap, ProcessHeaders, HandleEvent, Faults,
      AlreadyClose, CatchUp, CatchUpOnStaleFork, WaitUntilBTCSync, InitBTCCache, Subscribe,
      CheckConsistency, Dedup, SubmitChunk, ReceiveEvent, Mature, RejectConnected,
      SkipConnected, ExtendCache, QueryLorenzoTip, HandleDisconnected, LorenzoRequestFails,
      BTCRequestFails, LoseEvent, RivalInsert, Crash, Restart, NodeAdvance, SubscriptionBegins
  <2> QED
    BY <2>1, <2>2, <2>3
<1>5. lrzTip' \in Block
  <2>1. pc = "insert" => InsertHeaders(Chunk) \in Block
    BY <1>1, ProcessParts, ChunkType
  <2>2. CatchUpTips \subseteq Block
    BY <1>1, CatchUpTipsAreBlocks
  <2>3. CASE Step
    BY <1>2, <2>1, <2>2, <2>3 DEF Step, Start, Bootstrap, ProcessHeaders, HandleEvent,
      AlreadyClose, CatchUp, CatchUpOnStaleFork, WaitUntilBTCSync, InitBTCCache, Subscribe,
      CheckConsistency, Dedup, SubmitChunk, ReceiveEvent, Mature, RejectConnected,
      SkipConnected, ExtendCache, QueryLorenzoTip, HandleDisconnected
  <2>4. CASE Faults
    BY <1>2, <2>1, <2>2, <2>4 DEF Faults, LorenzoRequestFails,
      BTCRequestFails, CatchUpFails, LoseEvent, RivalInsert, Crash, Restart
  <2>5. CASE SubscriptionBegins \/ \E t \in Block : NodeAdvance(t)
    BY <1>2, <2>5 DEF NodeAdvance, SubscriptionBegins
  <2> QED
    BY <2>3, <2>4, <2>5 DEF Next
<1> QED
  BY <1>3, <1>4, <1>5 DEF WorldTypeOK

-----------------------------------------------------------------------------
(***************************************************************************)
(* The invariant holds at the start and through every step.                *)
(***************************************************************************)
LEMMA InitIInv ==
  ASSUME Init
  PROVE  IInv
<1>1. btcTip \in Block /\ lrzTip \in Block
  BY ReporterAssumption DEF Init, ReporterAssumption
<1>2. WorldTypeOK
  BY <1>1, MaturedAreBlocks, ReporterAssumption DEF Init, WorldTypeOK, ReporterAssumption
<1>3. NoCache \in Caches /\ NoReorg \in [blocks : Seq(Block), work : Nat]
  BY DEF NoCache, NoReorg, Caches
<1>4. ProcessTypeOK
  <2>1. chan = <<>> /\ headers = <<>> /\ subscribed = FALSE /\ listening = FALSE /\ skip = FALSE
    BY DEF Init
  <2>2. pc \in Steps /\ pc \notin EventSteps /\ pc # "insert" /\ exit \in Exits
    BY DEF Init, Steps, EventSteps, Exits
  <2>3. attempts \in 0..(MaxAttempts - 1)
    BY ReporterAssumption DEF Init, ReporterAssumption
  <2>4. cache \in Caches /\ reorgList \in [blocks : Seq(Block), work : Nat]
        /\ event \in Events \cup {NoEvent}
    BY <1>3 DEF Init
  <2>5. chan \in Seq(Events) /\ headers \in Seq(Block)
    BY <2>1
  <2>6. subscribed \in BOOLEAN /\ listening \in BOOLEAN /\ skip \in BOOLEAN
    BY <2>1
  <2> QED
    BY <2>2, <2>3, <2>4, <2>5, <2>6 DEF ProcessTypeOK, Caches
<1>5. CacheIsChain
  <2>1. cache.blocks = <<>>
    BY DEF Init, NoCache
  <2> QED
    BY <2>1 DEF CacheIsChain, IsChain
<1> QED
  BY <1>2, <1>4, <1>5 DEF IInv, ProcessOK

LEMMA NextIInv ==
  ASSUME IInv, [Next]_vars
  PROVE  IInv'
<1>1. CASE Next
  BY <1>1, WorldKeeps, StepKeeps, SubscriptionBeginsKeeps, NodeAdvanceKeeps, FaultsKeep
  DEF Next, IInv
<1>2. CASE UNCHANGED vars
  BY <1>2 DEF vars, IInv, WorldTypeOK, ProcessOK, ProcessTypeOK, CacheIsChain
<1> QED
  BY <1>1, <1>2

LEMMA Inductive == Spec => []IInv
<1>1. Init => IInv
  BY InitIInv
<1>2. IInv /\ [Next]_vars => IInv'
  BY NextIInv
<1> QED
  BY <1>1, <1>2, PTL DEF Spec

(***************************************************************************)
(* Every variable keeps its type: no step hands a header list to submit    *)
(* that is empty, handles an event it does not have, or tries a bootstrap  *)
(* more often than bootstrapAttempts.                                      *)
(***************************************************************************)
THEOREM TypeCorrect == Spec => []TypeOK
<1>1. IInv => TypeOK
  BY DEF IInv, ProcessOK, TypeOK
<1> QED
  BY <1>1, Inductive, PTL

(***************************************************************************)
(* Whatever reorganisations, lost events, failed requests, crashes and     *)
(* other relayers do, the blocks of the reporter's cache extend one        *)
(* another (block_handler.go 100-180, bootstrapping.go 182-230).           *)
(***************************************************************************)
THEOREM CacheAlwaysChain == Spec => []CacheIsChain
<1>1. IInv => CacheIsChain
  BY DEF IInv, ProcessOK
<1> QED
  BY <1>1, Inductive, PTL

-----------------------------------------------------------------------------
(***************************************************************************)
(* The handler of events is subscribed to them.  A bootstrap that skips    *)
(* the subscription is asked for by a step that had it, or retries one     *)
(* that skipped it; the subscription ends with the process only.           *)
(***************************************************************************)
SubscribedInv ==
  /\ HandlerIsSubscribed
  /\ pc = "consistency" => subscribed
  /\ pc \in BootstrapSteps /\ skip => subscribed

\* A process that ends owes nobody a subscription.
LEMMA ExitIsSubscribed ==
  ASSUME NEW reason, Exit(reason)
  PROVE  SubscribedInv'
BY DEF Exit, SubscribedInv, HandlerIsSubscribed, BootstrapSteps

\* A bootstrap begins: one that skips the subscription finds it active.
LEMMA BeginBootstrapIsSubscribed ==
  ASSUME NEW skp, NEW n, BeginBootstrap(skp, n), skp => subscribed
  PROVE  SubscribedInv'
BY DEF BeginBootstrap, subscription, SubscribedInv, HandlerIsSubscribed, BootstrapSteps

\* An event handler's error asks for such a bootstrap.
LEMMA RestartBootstrapIsSubscribed ==
  ASSUME subscribed, RestartBootstrap
  PROVE  SubscribedInv'
BY BeginBootstrapIsSubscribed DEF RestartBootstrap

\* A failed attempt is repeated as it was asked for.
LEMMA BootstrapFailsIsSubscribed ==
  ASSUME skip => subscribed, BootstrapFails
  PROVE  SubscribedInv'
BY BeginBootstrapIsSubscribed, ExitIsSubscribed DEF BootstrapFails

\* The process goes on with the subscription it has.
LEMMA SubscribedGoesOn ==
  ASSUME subscribed'
  PROVE  SubscribedInv'
BY DEF SubscribedInv, HandlerIsSubscribed

\* ProcessHeaders returns to a subscribed process.
LEMMA ProcessingIsSubscribed ==
  ASSUME subscribed, ProcessingSucceeds \/ ProcessingFails
  PROVE  SubscribedInv'
<1>1. CASE ProcessingSucceeds
  BY <1>1, SubscribedGoesOn DEF ProcessingSucceeds, subscription
<1>2. CASE ProcessingFails
  BY <1>2, SubscribedGoesOn, BootstrapFailsIsSubscribed DEF ProcessingFails, subscription
<1> QED
  BY <1>1, <1>2

LEMMA StepIsSubscribed ==
  ASSUME SubscribedInv, Step
  PROVE  SubscribedInv'
<1>1. pc \in {"consistency", "dedup", "insert", "idle", "mature", "handle", "lorenzoTip"} =>
        subscribed
  BY DEF SubscribedInv, HandlerIsSubscribed, BootstrapSteps
<1>2. CASE Start
  BY <1>2, BeginBootstrapIsSubscribed, ExitIsSubscribed
  DEF Start, AlreadyClose, CatchUp, CatchUpOnStaleFork
<1>3. CASE WaitUntilBTCSync \/ InitBTCCache
  <2>1. CASE \E reason : Exit(reason)
    BY <2>1, ExitIsSubscribed
  <2>2. CASE ~\E reason : Exit(reason)
    <3>1. /\ pc \in BootstrapSteps /\ UNCHANGED <<skip, subscribed>>
          /\ pc' \in {"initCache", "subscribe"}
      BY <1>3, <2>2 DEF WaitUntilBTCSync, InitBTCCache, Goto, subscription, BootstrapSteps
    <3> QED
      BY <3>1 DEF SubscribedInv, HandlerIsSubscribed, BootstrapSteps
  <2> QED
    BY <2>1, <2>2
<1>4. CASE Subscribe
  <2>1. CASE Exit("alreadySubscribed")
    BY <2>1, ExitIsSubscribed
  <2>2. CASE ~Exit("alreadySubscribed")
    <3>1. pc \in BootstrapSteps /\ subscribed' = (subscribed \/ ~skip)
      BY <1>4, <2>2 DEF Subscribe, BootstrapSteps
    <3>2. subscribed'
      BY <3>1 DEF SubscribedInv
    <3> QED
      BY <3>2, SubscribedGoesOn
  <2> QED
    BY <2>1, <2>2
<1>5. CASE CheckConsistency
  <2>1. CASE \E reason : Exit(reason)
    BY <2>1, ExitIsSubscribed
  <2>2. CASE ~\E reason : Exit(reason)
    BY <1>1, <1>5, <2>2, SubscribedGoesOn DEF CheckConsistency, subscription
  <2> QED
    BY <2>1, <2>2
<1>6. CASE ProcessHeaders
  BY <1>1, <1>6, ProcessingIsSubscribed, SubscribedGoesOn
  DEF ProcessHeaders, Dedup, SubmitChunk, subscription
<1>7. CASE ReceiveEvent \/ Mature \/ SkipConnected
  BY <1>1, <1>7, SubscribedGoesOn
  DEF ReceiveEvent, Mature, SkipConnected, Connecting, subscription
<1>8. CASE RejectConnected \/ HandleDisconnected \/ QueryLorenzoTip
  BY <1>1, <1>8, RestartBootstrapIsSubscribed, SubscribedGoesOn
  DEF RejectConnected, HandleDisconnected, QueryLorenzoTip, Connecting, subscription
<1>9. CASE ExtendCache
  BY <1>1, <1>9, ExitIsSubscribed, SubscribedGoesOn DEF ExtendCache, Connecting, subscription
<1> QED
  BY <1>2, <1>3, <1>4, <1>5, <1>6, <1>7, <1>8, <1>9 DEF Step, Bootstrap, HandleEvent

\* A fault leaves the subscription, asks for a bootstrap that fits it, or ends the process.
LEMMA FaultsAreSubscribed ==
  ASSUME SubscribedInv, Faults
  PROVE  SubscribedInv'
<1>1. pc \in {"consistency", "dedup", "insert", "idle", "mature", "handle", "lorenzoTip"} =>
        subscribed
  BY DEF SubscribedInv, HandlerIsSubscribed, BootstrapSteps
<1>2. pc \in BootstrapSteps => (skip => subscribed)
  BY DEF SubscribedInv
<1>3. CASE LorenzoRequestFails
  BY <1>1, <1>2, <1>3, ExitIsSubscribed, BootstrapFailsIsSubscribed,
    RestartBootstrapIsSubscribed, ProcessingIsSubscribed
  DEF LorenzoRequestFails, CatchUpFails, BootstrapSteps
<1>4. CASE BTCRequestFails
  BY <1>1, <1>2, <1>4, ExitIsSubscribed, BootstrapFailsIsSubscribed, RestartBootstrapIsSubscribed
  DEF BTCRequestFails, CatchUpFails, Connecting, BootstrapSteps
<1>5. CASE LoseEvent \/ \E t \in Block : RivalInsert(t)
  BY <1>5 DEF LoseEvent, RivalInsert, memory, subscription, SubscribedInv, HandlerIsSubscribed
<1>6. CASE Crash
  BY <1>6, ExitIsSubscribed DEF Crash
<1>7. CASE Restart
  BY <1>7 DEF Restart, SubscribedInv, HandlerIsSubscribed, BootstrapSteps
<1> QED
  BY <1>3, <1>4, <1>5, <1>6, <1>7 DEF Faults

LEMMA NextIsSubscribed ==
  ASSUME SubscribedInv, [Next]_vars
  PROVE  SubscribedInv'
<1>1. CASE Step
  BY <1>1, StepIsSubscribed
<1>2. CASE SubscriptionBegins \/ \E t \in Block : NodeAdvance(t)
  BY <1>2 DEF SubscriptionBegins, NodeAdvance, memory, SubscribedInv, HandlerIsSubscribed
<1>3. CASE Faults
  BY <1>3, FaultsAreSubscribed
<1>4. CASE UNCHANGED vars
  BY <1>4 DEF vars, SubscribedInv, HandlerIsSubscribed
<1> QED
  BY <1>1, <1>2, <1>3, <1>4 DEF Next

(***************************************************************************)
(* A process that handles events is subscribed to them, whatever           *)
(* bootstraps were retried or skipped the subscription, with either        *)
(* backend and any number of attempts (bootstrapping.go 94-96, 158-164;    *)
(* block_handler.go 58).                                                   *)
(***************************************************************************)
THEOREM HandlerAlwaysSubscribed == Spec => []HandlerIsSubscribed
<1>1. Init => SubscribedInv
  BY DEF Init, SubscribedInv, HandlerIsSubscribed, BootstrapSteps
<1>2. SubscribedInv /\ [Next]_vars => SubscribedInv'
  BY NextIsSubscribed
<1>3. SubscribedInv => HandlerIsSubscribed
  BY DEF SubscribedInv
<1> QED
  BY <1>1, <1>2, <1>3, PTL DEF Spec

-----------------------------------------------------------------------------
(***************************************************************************)
(* The work of a branch.  The sum over its headers telescopes: it is the   *)
(* work of the chain at its last block without that at the parent of its   *)
(* first.                                                                  *)
(***************************************************************************)
LEMMA BranchWorkTelescopes ==
  ASSUME NEW s \in Seq(Block), s # <<>>, IsChain(s), Parent(s[1]) \in Block
  PROVE  BranchWork(s) = ChainWork[s[Len(s)]] - ChainWork[Parent(s[1])]
<1> DEFINE N         == Len(s)
           work(i)   == HeaderWork(s[i])
           total(i)  == IF i = 0 THEN ChainWork[Parent(s[1])] ELSE ChainWork[s[i]]
           Sums(f)   == f = [i \in 0..N |-> IF i = 0 THEN 0 ELSE f[i - 1] + work(i)]
           sum       == CHOOSE f : Sums(f)
           g         == [i \in 0..N |-> total(i) - total(0)]
<1>1. N \in Nat /\ N >= 1
  OBVIOUS
<1>2. \A i \in 0..N : total(i) \in Int
  <2>1. \A i \in 1..N : s[i] \in Block
    OBVIOUS
  <2> QED
    BY <2>1, WorkAssumption DEF WorkAssumption
<1>3. \A i \in 1..N : work(i) = total(i) - total(i - 1)
  <2> TAKE i \in 1..N
  <2>1. s[i] \in Block
    OBVIOUS
  <2>2. Parent(s[i]) \in Block /\ ChainWork[Parent(s[i])] = total(i - 1)
    <3>1. CASE i = 1
      BY <3>1
    <3>2. CASE i # 1
      <4>1. i - 1 \in 1..(N - 1) /\ i - 1 \in 1..N /\ (i - 1) + 1 = i /\ i - 1 # 0
        BY <1>1, <3>2
      <4>2. Parent(s[i]) = s[i - 1]
        BY <4>1 DEF IsChain
      <4> QED
        BY <4>1, <4>2
    <3> QED
      BY <3>1, <3>2
  <2>3. Len(s[i]) # 1
    <3>1. Len(Parent(s[i])) = Len(s[i]) - 1
      BY <2>1, ParentIsLower
    <3>2. Len(Parent(s[i])) >= 1
      BY <2>2, BlockIsPath
    <3>3. Len(s[i]) \in Nat
      BY <2>1, BlockIsPath
    <3>4. \A x \in Nat : x - 1 >= 1 => x # 1
      OBVIOUS
    <3> QED
      BY <3>1, <3>2, <3>3, <3>4, Zenon
  <2>4. total(i) = ChainWork[s[i]]
    BY <1>1
  <2> HIDE DEF total
  <2> QED
    BY <2>2, <2>3, <2>4 DEF HeaderWork
<1> HIDE DEF work, total
<1>4. Sums(g)
  <2>1. \A i \in 0..N : g[i] = IF i = 0 THEN 0 ELSE g[i - 1] + work(i)
    <3> TAKE i \in 0..N
    <3>1. CASE i = 0
      BY <1>1, <1>2, <3>1
    <3>2. CASE i # 0
      <4>1. i \in 1..N /\ i - 1 \in 0..N /\ 0 \in 0..N
        BY <1>1, <3>2
      <4>2. work(i) = total(i) - total(i - 1)
        BY <1>3, <4>1
      <4>3. total(i) \in Int /\ total(i - 1) \in Int /\ total(0) \in Int
        BY <1>2, <4>1
      <4>4. g[i] = total(i) - total(0) /\ g[i - 1] = total(i - 1) - total(0)
        BY <4>1
      <4> HIDE DEF g
      <4> QED
        BY <3>2, <4>2, <4>3, <4>4
    <3> QED
      BY <3>1, <3>2
  <2>2. [i \in 0..N |-> IF i = 0 THEN 0 ELSE g[i - 1] + work(i)] = [i \in 0..N |-> g[i]]
    BY <2>1
  <2> QED
    BY <2>2
<1>5. Sums(sum)
  BY <1>4, Zenon
<1> HIDE DEF sum, g
<1>6. \A i \in 0..N : sum[i] = total(i) - total(0)
  <2> DEFINE T == {i \in 0..N : sum[i] # total(i) - total(0)}
  <2> SUFFICES ASSUME T # {}
               PROVE  FALSE
    OBVIOUS
  <2>1. PICK i \in T : \A m \in T : i <= m
    <3>1. T \subseteq Nat
      OBVIOUS
    <3> QED
      BY <3>1, LeastNatural, Zenon
  <2>2. i \in 0..N /\ sum[i] # total(i) - total(0)
    OBVIOUS
  <2>3. sum[i] = IF i = 0 THEN 0 ELSE sum[i - 1] + work(i)
    BY <1>5, <2>2
  <2>4. CASE i = 0
    BY <1>1, <1>2, <2>2, <2>3, <2>4
  <2>5. CASE i # 0
    <3>1. i \in 1..N /\ i - 1 \in 0..N /\ 0 \in 0..N /\ ~(i <= i - 1)
      BY <1>1, <2>2, <2>5
    <3>2. sum[i - 1] = total(i - 1) - total(0)
      BY <2>1, <3>1
    <3>3. work(i) = total(i) - total(i - 1)
      BY <1>3, <3>1
    <3>4. total(i) \in Int /\ total(i - 1) \in Int /\ total(0) \in Int
      BY <1>2, <3>1
    <3> QED
      BY <2>2, <2>3, <2>5, <3>2, <3>3, <3>4
  <2> QED
    BY <2>4, <2>5
<1>7. BranchWork(s) = sum[N]
  BY Zenon DEF BranchWork, sum, work
<1>8. total(N) = ChainWork[s[N]] /\ total(0) = ChainWork[Parent(s[1])]
  BY <1>1 DEF total
<1> QED
  BY <1>1, <1>6, <1>7, <1>8

-----------------------------------------------------------------------------
(***************************************************************************)
(* Queues of block events.  An event leads from one block to the next: a   *)
(* disconnected block to its parent, the parent to a connected block.      *)
(***************************************************************************)
Connected(b) == [type |-> "connected", block |-> b]

Before(e) == IF e.type = "disconnected" THEN e.block ELSE Parent(e.block)
After(e) == IF e.type = "disconnected" THEN Parent(e.block) ELSE e.block

\* The last block of a move to a heavier chain: the best block of its time.
IsPeak(q, j) == q[j].type = "connected" /\ (j < Len(q) => q[j + 1].type = "disconnected")

Adjoining(q) == \A i \in 1..(Len(q) - 1) : After(q[i]) = Before(q[i + 1])

\* The events of one move of the node from s to t.
IsMove(m, s, t) ==
  /\ m \in Seq(Events) /\ m # <<>> /\ Adjoining(m)
  /\ Before(m[1]) = s /\ m[Len(m)] = Connected(t)
  /\ \A i \in 1..(Len(m) - 1) : ~IsPeak(m, i) /\ ChainWork[m[i].block] < ChainWork[t]

\* A queue of events that leads, over ever heavier peaks, to the best block tip.
Walk(q, tip) ==
  /\ q \in Seq(Events) /\ Adjoining(q)
  /\ q # <<>> => q[Len(q)] = Connected(tip)
  /\ \A j \in 1..Len(q) : IsPeak(q, j) =>
       \A i \in 1..(j - 1) : ChainWork[q[i].block] < ChainWork[q[j].block]

\* The parent of a part of a path, down to the empty path.
LEMMA ParentOfPrefix ==
  ASSUME NEW b \in Block, NEW h \in 1..Len(b)
  PROVE  Parent(SubSeq(b, 1, h)) = SubSeq(b, 1, h - 1)
<1>1. b \in Seq(Nat) /\ Len(b) \in Nat
  BY BlockIsPath
<1> QED
  BY <1>1 DEF Parent

\* The work below the top of a chain is less than the chain's.
LEMMA AncestorWork ==
  ASSUME NEW b \in Block, NEW h \in 1..Len(b)
  PROVE  /\ AncestorAt(b, h) \in Block
         /\ ChainWork[AncestorAt(b, h)] \in Nat /\ ChainWork[b] \in Nat
         /\ IF h = Len(b) THEN AncestorAt(b, h) = b ELSE ChainWork[AncestorAt(b, h)] < ChainWork[b]
<1>1. AncestorAt(b, h) \in Block /\ Len(AncestorAt(b, h)) = h /\ OnChain(AncestorAt(b, h), b)
  BY AncestorIsBlock, AncestorIsOnChain
<1>2. ChainWork[AncestorAt(b, h)] \in Nat /\ ChainWork[b] \in Nat
  BY <1>1, WorkAssumption DEF WorkAssumption
<1>3. CASE h = Len(b)
  BY <1>1, <1>2, <1>3, AncestorOfTop
<1>4. CASE h # Len(b)
  BY <1>1, <1>2, <1>4, WorkGrows
<1> QED
  BY <1>3, <1>4

LEMMA ReorgEventsMove ==
  ASSUME NEW s \in Block, NEW t \in Block, ChainWork[t] > ChainWork[s],
         NEW f \in Nat, ForkHeight(s, t, f)
  PROVE  IsMove(ReorgEvents(s, t, f), s, t)
<1> DEFINE m       == ReorgEvents(s, t, f)
           a       == Len(s) - f
           n       == Len(t) - f
           down(i) == SubSeq(s, 1, Len(s) - i + 1)
           up(i)   == SubSeq(t, 1, f + (i - a))
<1>1. /\ Len(s) \in Nat /\ Len(t) \in Nat /\ f <= Len(s) /\ f <= Len(t)
      /\ SubSeq(s, 1, f) = SubSeq(t, 1, f)
  BY BlockIsPath DEF ForkHeight
<1>2. ChainWork[s] \in Nat /\ ChainWork[t] \in Nat
  BY WorkAssumption DEF WorkAssumption
<1>3. f < Len(t)
  <2> SUFFICES ASSUME f = Len(t)
               PROVE  FALSE
    BY <1>1
  <2>1. Len(t) \in 1..Len(s) /\ AncestorAt(s, Len(t)) = t
    BY <1>1, BlockIsPath, AncestorOfTop DEF AncestorAt
  <2> QED
    BY <1>2, <2>1, AncestorWork
<1>4. a \in Nat /\ n \in Nat /\ n >= 1
  BY <1>1, <1>3
<1>5. m \in Seq(Events)
  BY <1>1, ReorgEventsType
<1>6. /\ Len(m) = a + n
      /\ \A i \in 1..a : m[i].type = "disconnected" /\ m[i].block = down(i)
      /\ \A i \in (a + 1)..(a + n) : m[i].type = "connected" /\ m[i].block = up(i)
  <2> DEFINE d == [i \in 1..a |-> [type |-> "disconnected", block |-> down(i)]]
             u == [i \in 1..n |-> [type |-> "connected", block |-> SubSeq(t, 1, f + i)]]
  <2>1. m = d \o u
    BY DEF ReorgEvents
  <2> HIDE DEF m, a, n, down
  <2>2. Len(d) = a /\ Len(u) = n /\ Len(d \o u) = a + n
    BY <1>4
  <2>3. \A i \in 1..a : m[i] = d[i]
    BY <1>4, <2>1, <2>2
  <2>4. \A i \in (a + 1)..(a + n) : m[i] = u[i - a] /\ i - a \in 1..n
    BY <1>4, <2>1, <2>2
  <2>5. \A i \in 1..a : d[i].type = "disconnected" /\ d[i].block = down(i)
    OBVIOUS
  <2>6. \A i \in 1..n : u[i].type = "connected" /\ u[i].block = SubSeq(t, 1, f + i)
    OBVIOUS
  <2> HIDE DEF d, u
  <2> QED
    BY <2>1, <2>2, <2>3, <2>4, <2>5, <2>6
<1>7. \A i \in 1..a : /\ Len(s) - i + 1 \in 1..Len(s) /\ Parent(down(i)) = down(i + 1)
  <2> TAKE i \in 1..a
  <2>1. Len(s) - i + 1 \in 1..Len(s) /\ Len(s) - i + 1 - 1 = Len(s) - (i + 1) + 1
    BY <1>1
  <2> QED
    BY <2>1, ParentOfPrefix
<1>8. \A i \in (a + 1)..(a + n) : f + (i - a) \in 1..Len(t) /\ Parent(up(i)) = up(i - 1)
  <2> TAKE i \in (a + 1)..(a + n)
  <2>1. f + (i - a) \in 1..Len(t) /\ f + (i - a) - 1 = f + (i - 1 - a)
    BY <1>1
  <2> QED
    BY <2>1, ParentOfPrefix
<1>9. down(a + 1) = up(a)
  <2>1. Len(s) - (a + 1) + 1 = f /\ f + (a - a) = f
    BY <1>1
  <2> QED
    BY <1>1, <2>1
<1>10. \A i \in 1..a : Before(m[i]) = down(i) /\ After(m[i]) = down(i + 1)
  BY <1>6, <1>7 DEF Before, After
<1>11. \A i \in (a + 1)..(a + n) : Before(m[i]) = up(i - 1) /\ After(m[i]) = up(i)
  BY <1>6, <1>8 DEF Before, After
<1>12. down(1) = s
  <2>1. Len(s) - 1 + 1 = Len(s)
    BY <1>1
  <2> QED
    BY <2>1, BlockIsPath
<1>13. up(a + n) = t
  <2>1. f + ((a + n) - a) = Len(t)
    BY <1>1
  <2> QED
    BY <2>1, BlockIsPath
<1>14. \A i \in 1..a : ChainWork[down(i)] < ChainWork[t]
  <2> TAKE i \in 1..a
  <2>1. Len(s) - i + 1 \in 1..Len(s)
    BY <1>7
  <2>2. ChainWork[AncestorAt(s, Len(s) - i + 1)] \in Nat
        /\ ChainWork[AncestorAt(s, Len(s) - i + 1)] <= ChainWork[s]
    BY <1>2, <2>1, AncestorWork
  <2> QED
    BY <1>2, <2>2 DEF AncestorAt
<1>15. \A i \in (a + 1)..(a + n - 1) : ChainWork[up(i)] < ChainWork[t]
  <2> TAKE i \in (a + 1)..(a + n - 1)
  <2>1. f + (i - a) \in 1..Len(t) /\ f + (i - a) # Len(t)
    BY <1>1, <1>4
  <2> QED
    BY <2>1, AncestorWork DEF AncestorAt
<1> HIDE DEF m, a, n, up, down
<1>16. Adjoining(m)
  <2> SUFFICES ASSUME NEW i \in 1..(Len(m) - 1)
               PROVE  After(m[i]) = Before(m[i + 1])
    BY DEF Adjoining
  <2>1. CASE i < a
    BY <1>4, <1>10, <2>1
  <2>2. CASE i = a
    <3>1. a \in 1..a /\ a + 1 \in (a + 1)..(a + n) /\ a + 1 - 1 = a
      BY <1>4, <2>2
    <3> QED
      BY <1>9, <1>10, <1>11, <2>2, <3>1
  <2>3. CASE i > a
    <3>1. i \in (a + 1)..(a + n) /\ i + 1 \in (a + 1)..(a + n) /\ i + 1 - 1 = i
      BY <1>4, <1>6, <2>3
    <3> QED
      BY <1>11, <3>1
  <2> QED
    BY <1>4, <2>1, <2>2, <2>3
<1>17. Before(m[1]) = s
  <2>1. CASE a = 0
    <3>1. 1 \in (a + 1)..(a + n) /\ 1 - 1 = a /\ a + 1 = 1
      BY <1>4, <2>1
    <3> QED
      BY <1>9, <1>11, <1>12, <3>1
  <2>2. CASE a # 0
    BY <1>4, <1>10, <1>12, <2>2
  <2> QED
    BY <2>1, <2>2
<1>18. m[Len(m)] = Connected(t)
  <2>1. a + n \in (a + 1)..(a + n) /\ a + n \in 1..Len(m)
    BY <1>4, <1>6
  <2>2. m[a + n].type = "connected" /\ m[a + n].block = t
    BY <1>6, <1>13, <2>1
  <2>3. m[a + n] \in Events
    BY <1>5, <2>1
  <2> QED
    BY <1>6, <2>2, <2>3 DEF Connected, Events
<1>19. \A i \in 1..(Len(m) - 1) : ~IsPeak(m, i) /\ ChainWork[m[i].block] < ChainWork[t]
  <2> TAKE i \in 1..(Len(m) - 1)
  <2>1. CASE i <= a
    <3>1. i \in 1..a
      BY <2>1, <1>4, <1>6
    <3> QED
      BY <1>6, <1>14, <3>1 DEF IsPeak
  <2>2. CASE i > a
    <3>1. i \in (a + 1)..(a + n) /\ i + 1 \in (a + 1)..(a + n) /\ i \in (a + 1)..(a + n - 1) /\ i < Len(m)
      BY <1>4, <1>6, <2>2
    <3> QED
      BY <1>6, <1>15, <3>1 DEF IsPeak
  <2> QED
    BY <1>4, <2>1, <2>2
<1>20. m # <<>>
  BY <1>4, <1>6
<1> QED
  BY <1>5, <1>16, <1>17, <1>18, <1>19, <1>20 DEF IsMove, m

\* The events of a move continue a walk; its only new peak is the end of the move.
LEMMA WalkAppends ==
  ASSUME NEW s \in Block, NEW t \in Block, ChainWork[t] > ChainWork[s],
         NEW q, Walk(q, s), NEW m, IsMove(m, s, t)
  PROVE  /\ Walk(q \o m, t) /\ q \o m # <<>>
         /\ q # <<>> => (q \o m)[1] = q[1]
         /\ q = <<>> => (q \o m)[1] = m[1]
         /\ \A j \in 1..Len(q \o m) : IsPeak(q \o m, j) =>
              \/ (q \o m)[j].block = t
              \/ j \in 1..Len(q) /\ IsPeak(q, j) /\ (q \o m)[j] = q[j]
         /\ \A j \in 1..Len(q) : j \in 1..Len(q \o m) /\ (q \o m)[j] = q[j]
<1> DEFINE w == q \o m
           a == Len(q)
           n == Len(m)
<1>1. q \in Seq(Events) /\ m \in Seq(Events) /\ a \in Nat /\ n \in Nat /\ n >= 1
  BY DEF Walk, IsMove
<1>seq. w \in Seq(Events)
  BY <1>1
<1>2. Len(w) = a + n /\ (\A i \in 1..a : w[i] = q[i]) /\ (\A i \in 1..n : w[a + i] = m[i])
  BY <1>1
<1>3. \A i \in 1..a : q[i] \in Events /\ ChainWork[q[i].block] \in Nat
  <2> TAKE i \in 1..a
  <2>1. q[i] \in Events
    BY <1>1
  <2> QED
    BY <2>1, WorkAssumption DEF Events, WorkAssumption
<1>4. ChainWork[s] \in Nat /\ ChainWork[t] \in Nat
  BY WorkAssumption DEF WorkAssumption
<1>5. q # <<>> <=> a >= 1
  BY <1>1
<1>6. a >= 1 => q[a] = Connected(s) /\ IsPeak(q, a) /\ q[a].block = s /\ After(q[a]) = s
  BY <1>1, <1>5 DEF Walk, Connected, IsPeak, After
<1>7. m[n] = Connected(t) /\ m[n].block = t
  BY DEF IsMove, Connected
<1> HIDE DEF w, a, n
<1>8. Adjoining(w)
  <2> SUFFICES ASSUME NEW i \in 1..(Len(w) - 1)
               PROVE  After(w[i]) = Before(w[i + 1])
    BY DEF Adjoining
  <2>1. CASE i < a
    <3>1. i \in 1..(a - 1) /\ i \in 1..a /\ i + 1 \in 1..a
      BY <1>1, <1>2, <2>1
    <3>2. After(q[i]) = Before(q[i + 1])
      BY <3>1 DEF Walk, Adjoining, a
    <3> QED
      BY <1>2, <3>1, <3>2
  <2>2. CASE i = a
    <3>1. a >= 1 /\ a \in 1..a /\ 1 \in 1..n
      BY <1>1, <1>2, <2>2
    <3>2. Before(m[1]) = s
      BY DEF IsMove
    <3> QED
      BY <1>2, <1>6, <2>2, <3>1, <3>2
  <2>3. CASE i > a
    <3> DEFINE k == i - a
    <3>1. k \in 1..(n - 1) /\ k \in 1..n /\ k + 1 \in 1..n /\ i = a + k /\ i + 1 = a + (k + 1)
      BY <1>1, <1>2, <2>3
    <3> HIDE DEF k
    <3>2. After(m[k]) = Before(m[k + 1])
      BY <3>1 DEF IsMove, Adjoining, n
    <3>3. w[a + k] = m[k] /\ w[a + (k + 1)] = m[k + 1]
      BY <1>2, <3>1
    <3> QED
      BY <3>1, <3>2, <3>3
  <2> QED
    BY <1>1, <2>1, <2>2, <2>3
<1>9. \A j \in 1..(a + n) : IsPeak(w, j) => j = a + n \/ (j \in 1..a /\ IsPeak(q, j))
  <2> SUFFICES ASSUME NEW j \in 1..(a + n), IsPeak(w, j), j # a + n
               PROVE  j \in 1..a /\ IsPeak(q, j)
    OBVIOUS
  <2>1. w[j].type = "connected" /\ w[j + 1].type = "disconnected"
    BY <1>1, <1>2 DEF IsPeak
  <2>2. CASE j < a
    <3>1. j \in 1..a /\ j + 1 \in 1..a
      BY <1>1, <2>2
    <3> QED
      BY <1>2, <2>1, <3>1 DEF IsPeak
  <2>3. CASE j = a
    BY <1>1, <1>6, <2>3
  <2>4. CASE j > a
    <3> DEFINE k == j - a
    <3>1. k \in 1..(n - 1) /\ k \in 1..n /\ k + 1 \in 1..n /\ j = a + k /\ j + 1 = a + (k + 1)
      BY <1>1, <2>4
    <3> HIDE DEF k
    <3>2. ~IsPeak(m, k)
      BY <3>1 DEF IsMove, n
    <3>3. w[a + k] = m[k] /\ w[a + (k + 1)] = m[k + 1]
      BY <1>2, <3>1
    <3>4. m[k].type = "connected" /\ m[k + 1].type = "disconnected"
      BY <2>1, <3>1, <3>3
    <3> QED
      BY <3>2, <3>4 DEF IsPeak
  <2> QED
    BY <1>1, <2>2, <2>3, <2>4
<1>10. w[a + n] = Connected(t) /\ w[a + n].block = t
  <2>1. n \in 1..n
    BY <1>1
  <2> QED
    BY <1>2, <1>7, <2>1
<1>11. \A j \in 1..Len(w) : IsPeak(w, j) =>
         \A i \in 1..(j - 1) : ChainWork[w[i].block] < ChainWork[w[j].block]
  <2> SUFFICES ASSUME NEW j \in 1..Len(w), IsPeak(w, j), NEW i \in 1..(j - 1)
               PROVE  ChainWork[w[i].block] < ChainWork[w[j].block]
    OBVIOUS
  <2>1. CASE j = a + n
    <3>1. CASE i <= a
      <4>1. i \in 1..a /\ a >= 1 /\ a \in 1..Len(q)
        BY <1>1, <3>1 DEF a
      <4>2. ChainWork[q[i].block] <= ChainWork[s]
        <5>1. CASE i = a
          BY <1>3, <1>4, <1>6, <4>1, <5>1
        <5>2. CASE i # a
          <6>1. i \in 1..(a - 1)
            BY <1>1, <4>1, <5>2
          <6>2. ChainWork[q[i].block] < ChainWork[q[a].block]
            BY <1>6, <4>1, <6>1 DEF Walk
          <6> QED
            BY <1>3, <1>4, <1>6, <4>1, <6>2
        <5> QED
          BY <5>1, <5>2
      <4>3. ChainWork[q[i].block] \in Nat /\ w[i] = q[i]
        BY <1>2, <1>3, <4>1
      <4> QED
        BY <1>4, <1>10, <2>1, <4>2, <4>3
    <3>2. CASE i > a
      <4> DEFINE k == i - a
      <4>1. k \in 1..(n - 1) /\ k \in 1..n /\ i = a + k
        BY <1>1, <2>1, <3>2
      <4> HIDE DEF k
      <4>2. ChainWork[m[k].block] < ChainWork[t]
        BY <4>1 DEF IsMove, n
      <4>3. w[a + k] = m[k]
        BY <1>2, <4>1
      <4> QED
        BY <1>10, <2>1, <4>1, <4>2, <4>3
    <3> QED
      BY <1>1, <3>1, <3>2
  <2>2. CASE j # a + n
    <3>1. j \in 1..a /\ IsPeak(q, j)
      BY <1>2, <1>9, <2>2
    <3>2. i \in 1..a /\ j \in 1..Len(q)
      BY <1>1, <3>1 DEF a
    <3>3. ChainWork[q[i].block] < ChainWork[q[j].block]
      BY <3>1, <3>2 DEF Walk
    <3> QED
      BY <1>2, <3>1, <3>2, <3>3
  <2> QED
    BY <2>1, <2>2
<1>12. Walk(w, t)
  BY <1>seq, <1>2, <1>8, <1>10, <1>11 DEF Walk
<1>13. w # <<>> /\ (q # <<>> => w[1] = q[1]) /\ (q = <<>> => w[1] = m[1])
  <2>1. w # <<>>
    BY <1>1, <1>2
  <2>2. a >= 1 => 1 \in 1..a
    BY <1>1
  <2>3. ~(a >= 1) => 1 \in 1..n /\ a + 1 = 1
    BY <1>1
  <2> QED
    BY <1>2, <1>5, <2>1, <2>2, <2>3
<1>14. \A j \in 1..Len(w) : IsPeak(w, j) =>
         \/ w[j].block = t
         \/ j \in 1..a /\ IsPeak(q, j) /\ w[j] = q[j]
  BY <1>2, <1>9, <1>10
<1>15. \A j \in 1..a : j \in 1..Len(w) /\ w[j] = q[j]
  BY <1>1, <1>2
<1> QED
  BY <1>12, <1>13, <1>14, <1>15 DEF w, a

\* What remains of a walk after its first event.
LEMMA WalkTail ==
  ASSUME NEW tip, NEW q, Walk(q, tip), q # <<>>
  PROVE  /\ Walk(Tail(q), tip) /\ Len(Tail(q)) = Len(q) - 1
         /\ \A j \in 1..Len(Tail(q)) : /\ j + 1 \in 1..Len(q) /\ Tail(q)[j] = q[j + 1]
                                       /\ IsPeak(Tail(q), j) => IsPeak(q, j + 1)
         /\ Tail(q) # <<>> => Before(Tail(q)[1]) = After(q[1])
         /\ Tail(q) = <<>> => q[1] = Connected(tip)
<1> DEFINE u == Tail(q)
           n == Len(q)
<1>1. q \in Seq(Events) /\ n \in Nat /\ n >= 1
  BY DEF Walk
<1>seq. u \in Seq(Events)
  BY <1>1
<1>2. Len(u) = n - 1 /\ \A j \in 1..(n - 1) : u[j] = q[j + 1]
  BY <1>1
<1>3. (u = <<>>) <=> n = 1
  <2> HIDE DEF u, n
  <2>1. u = <<>> <=> Len(u) = 0
    BY <1>seq
  <2> QED
    BY <1>1, <1>2, <2>1
<1> HIDE DEF u, n
<1>4. \A j \in 1..(n - 1) : IsPeak(u, j) => IsPeak(q, j + 1)
  <2> SUFFICES ASSUME NEW j \in 1..(n - 1), IsPeak(u, j)
               PROVE  IsPeak(q, j + 1)
    OBVIOUS
  <2>1. u[j].type = "connected" /\ u[j] = q[j + 1]
    BY <1>2 DEF IsPeak
  <2>2. CASE j + 1 < n
    <3>1. j < n - 1 /\ j + 1 \in 1..(n - 1)
      BY <1>1, <2>2
    <3>2. u[j + 1].type = "disconnected" /\ u[j + 1] = q[(j + 1) + 1]
      BY <1>2, <3>1 DEF IsPeak
    <3> QED
      BY <2>1, <3>2 DEF IsPeak, n
  <2>3. CASE ~(j + 1 < n)
    BY <2>1, <2>3 DEF IsPeak, n
  <2> QED
    BY <2>2, <2>3
<1>5. Adjoining(u)
  <2> SUFFICES ASSUME NEW i \in 1..(Len(u) - 1)
               PROVE  After(u[i]) = Before(u[i + 1])
    BY DEF Adjoining
  <2>1. i \in 1..(n - 1) /\ i + 1 \in 1..(n - 1)
    BY <1>1, <1>2
  <2>2. After(q[i + 1]) = Before(q[(i + 1) + 1])
    BY <2>1 DEF Walk, Adjoining, n
  <2> QED
    BY <1>2, <2>1, <2>2
<1>6. u # <<>> => u[Len(u)] = Connected(tip)
  <2> SUFFICES ASSUME u # <<>>
               PROVE  u[Len(u)] = Connected(tip)
    OBVIOUS
  <2>1. n - 1 \in 1..(n - 1) /\ (n - 1) + 1 = n
    BY <1>1, <1>3
  <2>2. q[n] = Connected(tip)
    BY DEF Walk, n
  <2> QED
    BY <1>2, <2>1, <2>2
<1>7. \A j \in 1..Len(u) : IsPeak(u, j) =>
         \A i \in 1..(j - 1) : ChainWork[u[i].block] < ChainWork[u[j].block]
  <2> SUFFICES ASSUME NEW j \in 1..Len(u), IsPeak(u, j), NEW i \in 1..(j - 1)
               PROVE  ChainWork[u[i].block] < ChainWork[u[j].block]
    OBVIOUS
  <2>1. j \in 1..(n - 1) /\ i \in 1..(n - 1) /\ j + 1 \in 1..n /\ i + 1 \in 1..((j + 1) - 1)
    BY <1>1, <1>2
  <2>2. IsPeak(q, j + 1)
    BY <1>4, <2>1
  <2>3. ChainWork[q[i + 1].block] < ChainWork[q[j + 1].block]
    BY <2>1, <2>2 DEF Walk, n
  <2> QED
    BY <1>2, <2>1, <2>3
<1>8. Walk(u, tip)
  BY <1>seq, <1>5, <1>6, <1>7 DEF Walk
<1>9. u # <<>> => Before(u[1]) = After(q[1])
  <2> SUFFICES ASSUME u # <<>>
               PROVE  Before(u[1]) = After(q[1])
    OBVIOUS
  <2>1. 1 \in 1..(n - 1)
    BY <1>1, <1>3
  <2>2. After(q[1]) = Before(q[1 + 1])
    BY <2>1 DEF Walk, Adjoining, n
  <2> QED
    BY <1>2, <2>1, <2>2
<1>10. u = <<>> => q[1] = Connected(tip)
  BY <1>1, <1>3 DEF Walk, n
<1>11. \A j \in 1..Len(u) : j + 1 \in 1..n /\ u[j] = q[j + 1]
  BY <1>1, <1>2
<1> QED
  BY <1>2, <1>4, <1>8, <1>9, <1>10, <1>11 DEF u, n

-----------------------------------------------------------------------------
(***************************************************************************)
(* How a cache that ends in last, with the reorg list r, stands to the     *)
(* queue of events that leads to the node's best block tip.                *)
(***************************************************************************)
Branch(r) ==
  /\ \A i \in 1..(Len(r.blocks) - 1) : Parent(r.blocks[i]) = r.blocks[i + 1]
  /\ r.blocks = <<>> => r.work = 0

\* The best block to come is heavier than this one.
ToBeat(last, r) == IF r.blocks = <<>> THEN last ELSE r.blocks[1]

(***************************************************************************)
(* The queue goes on from the end of the cache.  A reorganisation that is  *)
(* being followed is not at its end: its new branch is not heavier yet, so *)
(* more of it is queued, and no block of it is disconnected before that.   *)
(***************************************************************************)
InStep(q, tip, last, r) ==
  /\ last = IF q = <<>> THEN tip ELSE Before(q[1])
  /\ \A j \in 1..Len(q) : IsPeak(q, j) => ChainWork[q[j].block] > ChainWork[ToBeat(last, r)]
  /\ r.blocks # <<>> =>
       LET fork == Parent(r.blocks[Len(r.blocks)])
       IN  /\ q # <<>> /\ fork \in Block /\ OnChain(fork, last)
           /\ q[1].type = "disconnected" => fork = last
           /\ r.work = ChainWork[r.blocks[1]] - ChainWork[fork]

\* The cache was loaded from a later block, and the events up to it are still queued.
Outdated(q, last, r) ==
  /\ r.blocks = <<>>
  /\ \E n \in 1..Len(q) :
       /\ q[n] = Connected(last)
       /\ \A i \in 1..(n - 1) : ChainWork[q[i].block] < ChainWork[last]

\* The cache was loaded from an earlier block, before the subscription.
Gap(q, tip, last, r) ==
  /\ r.blocks = <<>>
  /\ LET from == IF q = <<>> THEN tip ELSE Before(q[1])
     IN  from \in Block /\ ChainWork[from] > ChainWork[last]

Following(q, tip, last, r) ==
  InStep(q, tip, last, r) \/ Outdated(q, last, r) \/ Gap(q, tip, last, r)

\* The node moves on, and the move is queued.
LEMMA FollowingAppends ==
  ASSUME NEW s \in Block, NEW t \in Block, ChainWork[t] > ChainWork[s],
         NEW q, Walk(q, s), NEW m, IsMove(m, s, t),
         NEW last \in Block, NEW r \in [blocks : Seq(Block), work : Nat],
         Following(q, s, last, r)
  PROVE  Following(q \o m, t, last, r)
<1> DEFINE w == q \o m
<1>1. /\ w # <<>> /\ (q # <<>> => w[1] = q[1]) /\ (q = <<>> => w[1] = m[1])
      /\ \A j \in 1..Len(w) : IsPeak(w, j) =>
           w[j].block = t \/ (j \in 1..Len(q) /\ IsPeak(q, j) /\ w[j] = q[j])
      /\ \A j \in 1..Len(q) : j \in 1..Len(w) /\ w[j] = q[j]
  BY WalkAppends
<1>2. Before(m[1]) = s
  BY DEF IsMove
<1>3. ChainWork[s] \in Nat /\ ChainWork[t] \in Nat /\ ChainWork[last] \in Nat
  BY WorkAssumption DEF WorkAssumption
<1>4. Before(w[1]) = IF q = <<>> THEN s ELSE Before(q[1])
  BY <1>1, <1>2
<1> HIDE DEF w
<1>5. CASE InStep(q, s, last, r)
  <2>1. last = Before(w[1])
    BY <1>4, <1>5 DEF InStep
  <2>2. ChainWork[t] > ChainWork[ToBeat(last, r)]
    <3>1. ToBeat(last, r) \in Block
      BY DEF ToBeat
    <3>2. ChainWork[ToBeat(last, r)] \in Nat
      BY <3>1, WorkAssumption DEF WorkAssumption
    <3>3. CASE q = <<>>
      <4>1. ToBeat(last, r) = s
        BY <1>5, <3>3 DEF InStep, ToBeat
      <4> QED
        BY <4>1
    <3>4. CASE q # <<>>
      <4>1. Len(q) \in 1..Len(q) /\ q[Len(q)] = Connected(s)
        <5>1. q \in Seq(Events) /\ q[Len(q)] = Connected(s)
          BY <3>4 DEF Walk
        <5> QED
          BY <3>4, <5>1
      <4>2. IsPeak(q, Len(q)) /\ q[Len(q)].block = s
        BY <4>1 DEF IsPeak, Connected
      <4>3. ChainWork[s] > ChainWork[ToBeat(last, r)]
        BY <1>5, <4>1, <4>2 DEF InStep
      <4> QED
        BY <1>3, <3>2, <4>3
    <3> QED
      BY <3>3, <3>4
  <2>3. \A j \in 1..Len(w) : IsPeak(w, j) => ChainWork[w[j].block] > ChainWork[ToBeat(last, r)]
    BY <1>1, <1>5, <2>2 DEF InStep
  <2>4. r.blocks # <<>> => q # <<>> /\ w[1] = q[1]
    BY <1>1, <1>5 DEF InStep
  <2>5. InStep(w, t, last, r)
    BY <1>1, <1>5, <2>1, <2>3, <2>4 DEF InStep
  <2> QED
    BY <2>5 DEF Following, w
<1>6. CASE Outdated(q, last, r)
  <2>1. PICK n \in 1..Len(q) : /\ q[n] = Connected(last)
                               /\ \A i \in 1..(n - 1) : ChainWork[q[i].block] < ChainWork[last]
    BY <1>6 DEF Outdated
  <2>2. n \in 1..Len(w) /\ w[n] = Connected(last)
    BY <1>1, <2>1
  <2>3. \A i \in 1..(n - 1) : ChainWork[w[i].block] < ChainWork[last]
    <3> TAKE i \in 1..(n - 1)
    <3>1. i \in 1..Len(q)
      <4>1. Len(q) \in Nat
        BY DEF Walk
      <4> QED
        BY <4>1
    <3> QED
      BY <1>1, <2>1, <3>1
  <2>4. Outdated(w, last, r)
    BY <1>6, <2>2, <2>3 DEF Outdated
  <2> QED
    BY <2>4 DEF Following, w
<1>7. CASE Gap(q, s, last, r)
  <2>1. Gap(w, t, last, r)
    BY <1>1, <1>4, <1>7 DEF Gap
  <2> QED
    BY <2>1 DEF Following, w
<1> QED
  BY <1>5, <1>6, <1>7 DEF Following

\* The node moves on unnoticed, while nothing is queued.
LEMMA FollowingMisses ==
  ASSUME NEW s \in Block, NEW t \in Block, ChainWork[t] > ChainWork[s],
         NEW last \in Block, NEW r, Following(<<>>, s, last, r)
  PROVE  Following(<<>>, t, last, r)
<1>1. ChainWork[s] \in Nat /\ ChainWork[t] \in Nat /\ ChainWork[last] \in Nat
  BY WorkAssumption DEF WorkAssumption
<1>2. ~Outdated(<<>>, last, r)
  BY DEF Outdated
<1>3. r.blocks = <<>> /\ ChainWork[t] > ChainWork[last]
  BY <1>1, <1>2 DEF Following, InStep, Gap
<1> QED
  BY <1>3 DEF Following, Gap

\* What a cache that was just loaded from the best block has ahead of it.
LEMMA FollowingAfterLoad ==
  ASSUME NEW tip \in Block, NEW q, Walk(q, tip)
  PROVE  Following(q, tip, tip, NoReorg)
<1>1. NoReorg.blocks = <<>>
  BY DEF NoReorg
<1>2. CASE q = <<>>
  BY <1>1, <1>2 DEF Following, InStep, NoReorg
<1>3. CASE q # <<>>
  <2>1. q[Len(q)] = Connected(tip) /\ Len(q) \in 1..Len(q)
    <3>1. q \in Seq(Events) /\ q[Len(q)] = Connected(tip)
      BY <1>3 DEF Walk
    <3> QED
      BY <1>3, <3>1
  <2>2. IsPeak(q, Len(q)) /\ q[Len(q)].block = tip
    BY <2>1 DEF IsPeak, Connected
  <2>3. \A i \in 1..(Len(q) - 1) : ChainWork[q[i].block] < ChainWork[tip]
    BY <2>1, <2>2 DEF Walk
  <2> QED
    BY <1>1, <2>1, <2>3 DEF Following, Outdated
<1> QED
  BY <1>2, <1>3

\* A block has more work than its parent.
LEMMA ParentWork ==
  ASSUME NEW b \in Block, Parent(b) \in Block
  PROVE  /\ ChainWork[Parent(b)] < ChainWork[b] /\ OnChain(Parent(b), b) /\ Parent(b) # b
         /\ ChainWork[b] \in Nat /\ ChainWork[Parent(b)] \in Nat
         /\ HeaderWork(b) = ChainWork[b] - ChainWork[Parent(b)]
<1>1. Len(b) \in Nat /\ Len(b) - 1 >= 1 /\ Parent(b) = AncestorAt(b, Len(b) - 1)
  <2>1. Len(b) \in Nat /\ Len(Parent(b)) = Len(b) - 1
    BY BlockIsPath, ParentIsLower
  <2>2. Len(Parent(b)) >= 1
    BY BlockIsPath
  <2> QED
    BY <2>1, <2>2 DEF Parent, AncestorAt
<1>2. Len(b) - 1 \in 1..Len(b) /\ Len(b) - 1 # Len(b)
  BY <1>1
<1>3. /\ ChainWork[AncestorAt(b, Len(b) - 1)] < ChainWork[b]
      /\ ChainWork[b] \in Nat /\ ChainWork[AncestorAt(b, Len(b) - 1)] \in Nat
  BY <1>2, AncestorWork
<1>4. OnChain(AncestorAt(b, Len(b) - 1), b)
  BY <1>2, AncestorIsOnChain
<1>5. Len(b) # 1
  <2>1. \A x \in Nat : x - 1 >= 1 => x # 1
    OBVIOUS
  <2> QED
    BY <1>1, <2>1, Zenon
<1>6. HeaderWork(b) = ChainWork[b] - ChainWork[Parent(b)]
  BY <1>5, Zenon DEF HeaderWork
<1> QED
  BY <1>1, <1>3, <1>4, <1>6

\* An event that leaves the cache alone, since its block does not extend the cache.
LEMMA FollowingSkips ==
  ASSUME NEW tip \in Block, NEW q, Walk(q, tip), q # <<>>, q[1].type = "connected",
         NEW last \in Block, NEW r, Following(q, tip, last, r), Parent(q[1].block) # last
  PROVE  Following(Tail(q), tip, last, r)
<1> DEFINE b == q[1].block
           u == Tail(q)
<1>1. q \in Seq(Events) /\ Len(q) \in Nat /\ Len(q) >= 1 /\ q[1] \in Events /\ b \in Block
  <2>1. q \in Seq(Events) /\ Len(q) \in Nat /\ Len(q) >= 1
    BY DEF Walk
  <2>2. q[1] \in Events
    BY <2>1
  <2> QED
    BY <2>1, <2>2 DEF Events
<1>2. Before(q[1]) = Parent(b) /\ After(q[1]) = b
  BY DEF Before, After
<1>3. /\ Len(u) = Len(q) - 1
      /\ \A j \in 1..Len(u) : j + 1 \in 1..Len(q) /\ u[j] = q[j + 1] /\ (IsPeak(u, j) => IsPeak(q, j + 1))
      /\ u # <<>> => Before(u[1]) = b
      /\ u = <<>> => b = tip
  <2>1. Connected(tip).block = tip
    BY DEF Connected
  <2> QED
    BY <1>2, <2>1, WalkTail, Zenon
<1>4. ~InStep(q, tip, last, r)
  BY <1>2 DEF InStep
<1> HIDE DEF u
<1>5. CASE Outdated(q, last, r)
  <2>1. PICK n \in 1..Len(q) : /\ q[n] = Connected(last)
                               /\ \A i \in 1..(n - 1) : ChainWork[q[i].block] < ChainWork[last]
    BY <1>5 DEF Outdated
  <2>2. CASE n = 1
    <3>1. b = last
      BY <2>1, <2>2 DEF Connected
    <3>2. \A j \in 1..Len(u) : IsPeak(u, j) => ChainWork[u[j].block] > ChainWork[b]
      <4> SUFFICES ASSUME NEW j \in 1..Len(u), IsPeak(u, j)
                   PROVE  ChainWork[u[j].block] > ChainWork[b]
        OBVIOUS
      <4>1. j + 1 \in 1..Len(q) /\ 1 \in 1..((j + 1) - 1) /\ IsPeak(q, j + 1) /\ u[j] = q[j + 1]
        BY <1>1, <1>3
      <4>2. ChainWork[q[1].block] < ChainWork[q[j + 1].block]
        BY <4>1 DEF Walk
      <4>3. q[j + 1] \in Events
        BY <1>1, <4>1
      <4>4. ChainWork[q[j + 1].block] \in Nat /\ ChainWork[b] \in Nat
        BY <1>1, <4>3, WorkAssumption DEF Events, WorkAssumption
      <4> QED
        BY <4>1, <4>2, <4>4
    <3>3. InStep(u, tip, last, r)
      BY <1>3, <1>5, <3>1, <3>2 DEF InStep, ToBeat, Outdated
    <3> QED
      BY <3>3 DEF Following, u
  <2>3. CASE n # 1
    <3>1. n - 1 \in 1..Len(u) /\ (n - 1) + 1 = n
      BY <1>1, <1>3, <2>3
    <3>2. u[n - 1] = Connected(last)
      BY <1>3, <2>1, <3>1
    <3>3. \A i \in 1..((n - 1) - 1) : ChainWork[u[i].block] < ChainWork[last]
      <4> TAKE i \in 1..((n - 1) - 1)
      <4>1. i \in 1..Len(u) /\ i + 1 \in 1..(n - 1)
        BY <1>1, <1>3
      <4> QED
        BY <1>3, <2>1, <4>1
    <3>4. Outdated(u, last, r)
      BY <1>5, <3>1, <3>2, <3>3 DEF Outdated
    <3> QED
      BY <3>4 DEF Following, u
  <2> QED
    BY <2>2, <2>3
<1>6. CASE Gap(q, tip, last, r)
  <2>1. Parent(b) \in Block /\ ChainWork[Parent(b)] > ChainWork[last]
    BY <1>2, <1>6 DEF Gap
  <2>2. ChainWork[b] > ChainWork[last]
    <3>1. ChainWork[Parent(b)] < ChainWork[b] /\ ChainWork[b] \in Nat /\ ChainWork[Parent(b)] \in Nat
      BY <1>1, <2>1, ParentWork
    <3>2. ChainWork[last] \in Nat
      BY WorkAssumption DEF WorkAssumption
    <3> QED
      BY <2>1, <3>1, <3>2
  <2>3. Gap(u, tip, last, r)
    BY <1>1, <1>3, <1>6, <2>2 DEF Gap
  <2> QED
    BY <2>3 DEF Following, u
<1> QED
  BY <1>4, <1>5, <1>6 DEF Following

(***************************************************************************)
(* Only a cache in step meets an event that fits it: a block on top of its *)
(* last one, or the disconnection of that.                                 *)
(***************************************************************************)
LEMMA FittingIsInStep ==
  ASSUME NEW tip \in Block, NEW q, Walk(q, tip), q # <<>>,
         NEW last \in Block, NEW r, Following(q, tip, last, r),
         \/ q[1].type = "connected" /\ Parent(q[1].block) = last
         \/ q[1].type = "disconnected" /\ q[1].block = last
  PROVE  InStep(q, tip, last, r)
<1> DEFINE b == q[1].block
<1>1. Len(q) \in Nat /\ Len(q) >= 1 /\ b \in Block
  <2>1. q \in Seq(Events) /\ Len(q) \in Nat /\ Len(q) >= 1
    BY DEF Walk
  <2>2. q[1] \in Events
    BY <2>1
  <2> QED
    BY <2>1, <2>2 DEF Events
<1>2. Before(q[1]) = last
  BY DEF Before
<1>3. ChainWork[last] \in Nat /\ ChainWork[b] \in Nat
  BY <1>1, WorkAssumption DEF WorkAssumption
<1>4. b = last \/ (Parent(b) = last /\ ChainWork[last] < ChainWork[b] /\ b # last)
  BY <1>1, ParentWork
<1>5. ~Gap(q, tip, last, r)
  BY <1>2, <1>3 DEF Gap
<1>6. ~Outdated(q, last, r)
  <2> SUFFICES ASSUME NEW n \in 1..Len(q), q[n] = Connected(last),
                      \A i \in 1..(n - 1) : ChainWork[q[i].block] < ChainWork[last]
               PROVE  FALSE
    BY DEF Outdated
  <2>1. CASE n = 1
    <3>1. q[1].type = "connected" /\ b = last
      BY <2>1 DEF Connected
    <3> QED
      BY <1>1, <3>1, ParentWork
  <2>2. CASE n # 1
    <3>1. 1 \in 1..(n - 1)
      BY <1>1, <2>2
    <3>2. ChainWork[b] < ChainWork[last]
      BY <3>1
    <3> QED
      BY <1>3, <1>4, <3>2
  <2> QED
    BY <2>1, <2>2
<1> QED
  BY <1>5, <1>6 DEF Following

\* A block is added to the cache, and the reorg list stays or is cleared.
LEMMA FollowingExtends ==
  ASSUME NEW tip \in Block, NEW q, Walk(q, tip), q # <<>>, q[1].type = "connected",
         NEW last \in Block, Parent(q[1].block) = last,
         NEW r \in [blocks : Seq(Block), work : Nat], InStep(q, tip, last, r),
         NEW s, s.blocks = <<>> \/ (/\ s = r
                                    /\ ChainWork[q[1].block] <= ChainWork[r.blocks[1]])
  PROVE  Following(Tail(q), tip, q[1].block, s)
<1> DEFINE b == q[1].block
           u == Tail(q)
<1>1. q \in Seq(Events) /\ Len(q) \in Nat /\ Len(q) >= 1 /\ b \in Block
  <2>1. q \in Seq(Events) /\ Len(q) \in Nat /\ Len(q) >= 1
    BY DEF Walk
  <2>2. q[1] \in Events
    BY <2>1
  <2> QED
    BY <2>1, <2>2 DEF Events
<1>2. After(q[1]) = b
  BY DEF After
<1>3. /\ Len(u) = Len(q) - 1
      /\ \A j \in 1..Len(u) : j + 1 \in 1..Len(q) /\ u[j] = q[j + 1] /\ (IsPeak(u, j) => IsPeak(q, j + 1))
      /\ u # <<>> => Before(u[1]) = b
      /\ u = <<>> => b = tip
  <2>1. Connected(tip).block = tip
    BY DEF Connected
  <2> QED
    BY <1>2, <2>1, WalkTail, Zenon
<1>4. u \in Seq(Events)
  BY <1>1
<1> HIDE DEF u
<1>5. CASE s.blocks = <<>>
  <2>1. \A j \in 1..Len(u) : IsPeak(u, j) => ChainWork[u[j].block] > ChainWork[b]
    <3> SUFFICES ASSUME NEW j \in 1..Len(u), IsPeak(u, j)
                 PROVE  ChainWork[u[j].block] > ChainWork[b]
      OBVIOUS
    <3>1. j + 1 \in 1..Len(q) /\ 1 \in 1..((j + 1) - 1) /\ IsPeak(q, j + 1) /\ u[j] = q[j + 1]
      BY <1>1, <1>3
    <3>2. ChainWork[q[1].block] < ChainWork[q[j + 1].block]
      BY <3>1 DEF Walk
    <3>3. q[j + 1] \in Events
      BY <1>1, <3>1
    <3>4. ChainWork[q[j + 1].block] \in Nat /\ ChainWork[b] \in Nat
      BY <1>1, <3>3, WorkAssumption DEF Events, WorkAssumption
    <3> QED
      BY <3>1, <3>2, <3>4
  <2>2. InStep(u, tip, b, s)
    BY <1>3, <1>5, <2>1 DEF InStep, ToBeat
  <2> QED
    BY <2>2 DEF Following, u
<1>6. CASE s.blocks # <<>>
  <2> DEFINE fork == Parent(r.blocks[Len(r.blocks)])
  <2>1. s = r /\ r.blocks # <<>> /\ ChainWork[b] <= ChainWork[r.blocks[1]]
    BY <1>6
  <2>2. r.blocks[1] \in Block
    BY <2>1
  <2>3. ~IsPeak(q, 1)
    <3>1. IsPeak(q, 1) => ChainWork[b] > ChainWork[r.blocks[1]]
      BY <1>1, <2>1 DEF InStep, ToBeat
    <3>2. ChainWork[b] \in Nat /\ ChainWork[r.blocks[1]] \in Nat
      BY <1>1, <2>2, WorkAssumption DEF WorkAssumption
    <3> QED
      BY <2>1, <3>1, <3>2
  <2>4. 1 < Len(q) /\ q[1 + 1].type # "disconnected"
    BY <2>3 DEF IsPeak
  <2>5. 1 \in 1..Len(u) /\ u # <<>>
    BY <1>1, <1>3, <1>4, <2>4
  <2>6. u[1].type # "disconnected"
    BY <1>3, <2>4, <2>5
  <2>7. fork \in Block /\ OnChain(fork, last) /\ r.work = ChainWork[r.blocks[1]] - ChainWork[fork]
    BY <2>1 DEF InStep
  <2>8. OnChain(fork, b)
    <3>1. OnChain(last, b)
      BY <1>1, ParentWork
    <3> QED
      BY <1>1, <2>7, <3>1, OnChainTransitive
  <2>9. \A j \in 1..Len(u) : IsPeak(u, j) => ChainWork[u[j].block] > ChainWork[r.blocks[1]]
    BY <1>3, <2>1 DEF InStep, ToBeat
  <2> HIDE DEF fork
  <2>10. InStep(u, tip, b, r)
    BY <1>3, <2>1, <2>5, <2>6, <2>7, <2>8, <2>9 DEF InStep, ToBeat, fork
  <2> QED
    BY <2>1, <2>10 DEF Following, u
<1> QED
  BY <1>5, <1>6

\* The last block of the cache is moved to the reorg list.
LEMMA FollowingRetreats ==
  ASSUME NEW tip \in Block, NEW q, Walk(q, tip), q # <<>>, q[1].type = "disconnected",
         NEW last \in Block, q[1].block = last,
         NEW r \in [blocks : Seq(Block), work : Nat], Branch(r), InStep(q, tip, last, r)
  PROVE  LET s == [blocks |-> Append(r.blocks, last), work |-> r.work + HeaderWork(last)]
         IN  /\ Branch(s)
             /\ Parent(last) \in Block => Following(Tail(q), tip, Parent(last), s)
<1> DEFINE s == [blocks |-> Append(r.blocks, last), work |-> r.work + HeaderWork(last)]
           u == Tail(q)
           n == Len(r.blocks)
<1>1. q \in Seq(Events) /\ Len(q) \in Nat /\ Len(q) >= 1
  BY DEF Walk
<1>2. After(q[1]) = Parent(last) /\ Before(q[1]) = last
  BY DEF After, Before
<1>3. /\ Len(u) = Len(q) - 1
      /\ \A j \in 1..Len(u) : j + 1 \in 1..Len(q) /\ u[j] = q[j + 1] /\ (IsPeak(u, j) => IsPeak(q, j + 1))
      /\ u # <<>> => Before(u[1]) = Parent(last)
  BY <1>2, WalkTail, Zenon
<1>4. u # <<>>
  <2>1. u = <<>> => q[1] = Connected(tip)
    BY WalkTail
  <2> QED
    BY <2>1 DEF Connected
<1>5. n \in Nat /\ r.blocks \in Seq(Block) /\ r.work \in Nat
  OBVIOUS
<1>6. s.blocks = Append(r.blocks, last) /\ s.work = r.work + HeaderWork(last)
  OBVIOUS
<1>7. /\ s.blocks # <<>> /\ Len(s.blocks) = n + 1 /\ s.blocks[n + 1] = last
      /\ \A i \in 1..n : s.blocks[i] = r.blocks[i]
  BY <1>5
<1> HIDE DEF u, s, n
<1>8. CASE r.blocks = <<>>
  <2>1. n = 0 /\ s.blocks[1] = last /\ Len(s.blocks) = 1 /\ r.work = 0
    BY <1>5, <1>7, <1>8 DEF n, Branch
  <2>2. Branch(s)
    BY <1>7, <2>1 DEF Branch
  <2>3. ASSUME Parent(last) \in Block
        PROVE  InStep(u, tip, Parent(last), s)
    <3>1. HeaderWork(last) = ChainWork[last] - ChainWork[Parent(last)]
      BY <2>3, ParentWork
    <3>2. s.work = ChainWork[last] - ChainWork[Parent(last)]
      <4>1. ChainWork[last] \in Nat /\ ChainWork[Parent(last)] \in Nat
        BY <2>3, WorkAssumption DEF WorkAssumption
      <4> QED
        BY <1>6, <2>1, <3>1, <4>1
    <3>3. OnChain(Parent(last), Parent(last))
      BY <2>3, OnChainReflexive
    <3>4. \A j \in 1..Len(u) : IsPeak(u, j) => ChainWork[u[j].block] > ChainWork[last]
      BY <1>3, <1>8 DEF InStep, ToBeat
    <3> QED
      BY <1>3, <1>4, <1>7, <2>1, <2>3, <3>2, <3>3, <3>4 DEF InStep, ToBeat
  <2> QED
    BY <2>2, <2>3 DEF Following, s, u
<1>9. CASE r.blocks # <<>>
  <2> DEFINE fork == Parent(r.blocks[n])
  <2>1. fork \in Block /\ fork = last /\ r.work = ChainWork[r.blocks[1]] - ChainWork[fork]
    BY <1>9 DEF InStep, n
  <2>2. n >= 1 /\ s.blocks[1] = r.blocks[1] /\ s.blocks[n] = r.blocks[n] /\ r.blocks[1] \in Block
    <3>1. n >= 1
      BY <1>5, <1>9 DEF n
    <3>2. 1 \in 1..n /\ n \in 1..n
      BY <1>5, <3>1
    <3>3. r.blocks[1] \in Block
      BY <1>5, <3>2 DEF n
    <3> QED
      BY <1>7, <3>1, <3>2, <3>3
  <2>3. Branch(s)
    <3> SUFFICES ASSUME NEW i \in 1..n
                 PROVE  Parent(s.blocks[i]) = s.blocks[i + 1]
      BY <1>5, <1>7 DEF Branch
    <3>1. CASE i = n
      BY <1>7, <2>1, <2>2, <3>1
    <3>2. CASE i # n
      <4>1. i \in 1..(n - 1) /\ i + 1 \in 1..n
        BY <1>5, <3>2
      <4>2. Parent(r.blocks[i]) = r.blocks[i + 1]
        BY <4>1 DEF Branch, n
      <4> QED
        BY <1>7, <4>1, <4>2
    <3> QED
      BY <3>1, <3>2
  <2>4. ASSUME Parent(last) \in Block
        PROVE  InStep(u, tip, Parent(last), s)
    <3>1. HeaderWork(last) = ChainWork[last] - ChainWork[Parent(last)]
      BY <2>4, ParentWork
    <3>2. s.work = ChainWork[s.blocks[1]] - ChainWork[Parent(last)]
      <4>1. ChainWork[last] \in Nat /\ ChainWork[Parent(last)] \in Nat /\ ChainWork[r.blocks[1]] \in Nat
        BY <2>2, <2>4, WorkAssumption DEF WorkAssumption
      <4> QED
        BY <1>6, <2>1, <2>2, <3>1, <4>1
    <3>3. OnChain(Parent(last), Parent(last))
      BY <2>4, OnChainReflexive
    <3>4. \A j \in 1..Len(u) : IsPeak(u, j) => ChainWork[u[j].block] > ChainWork[s.blocks[1]]
      BY <1>3, <1>9, <2>2 DEF InStep, ToBeat
    <3> QED
      BY <1>3, <1>4, <1>7, <2>4, <3>2, <3>3, <3>4 DEF InStep, ToBeat
  <2> QED
    BY <2>3, <2>4 DEF Following, s, u
<1> QED
  BY <1>8, <1>9

(***************************************************************************)
(* The new branch: the blocks of the grown cache from the height of the    *)
(* oldest removed block on.  They grow from the parent of that block, so   *)
(* their work is what the cache's chain has above it.                      *)
(***************************************************************************)
LEMMA WorkOfNewBranch ==
  ASSUME NEW c \in Caches, c.blocks # <<>>, IsChain(c.blocks), NEW oldest \in Block,
         Parent(oldest) \in Block, OnChain(Parent(oldest), Tip(c)),
         ~HeightOutOfRange(c, Height(oldest))
  PROVE  BranchWork(GetLastBlocks(c, Height(oldest)))
           = ChainWork[Tip(c)] - ChainWork[Parent(oldest)]
<1> DEFINE h    == Height(oldest)
           N    == Size(c)
           fork == Parent(oldest)
           top  == Tip(c)
<1>1. /\ c.blocks \in Seq(Block) /\ N = Len(c.blocks) /\ N \in Nat /\ N >= 1
      /\ First(c) = c.blocks[1] /\ top = c.blocks[N] /\ top \in Block
  BY DEF Caches, Size, First, Tip
<1>2. h \in Nat /\ Len(fork) = h - 1 /\ Len(fork) >= 1 /\ Len(fork) \in Nat
  <2>1. Len(oldest) \in Nat /\ Len(fork) = Len(oldest) - 1
    BY BlockIsPath, ParentIsLower
  <2>2. Len(fork) >= 1 /\ Len(fork) \in Nat
    BY BlockIsPath
  <2> QED
    BY <2>1, <2>2 DEF Height
<1>3. \A i \in 1..N : c.blocks[i] \in Block /\ Height(c.blocks[i]) = Height(top) - (N - i)
                      /\ OnChain(c.blocks[i], top)
  BY <1>1, ChainHeights, ChainIsBelowLast
<1>4. Height(top) \in Nat
  BY <1>1, BlockIsPath DEF Height
<1>5. Height(c.blocks[1]) <= h /\ h <= Height(top)
  <2>1. Height(c.blocks[1]) \in Nat
    <3>1. c.blocks[1] \in Block
      BY <1>1
    <3> QED
      BY <3>1, BlockIsPath DEF Height
  <2> QED
    BY <1>1, <1>2, <1>4, <2>1 DEF HeightOutOfRange
<1> HIDE DEF h, N
<1>6. \E k \in 1..N : Height(c.blocks[k]) = h
  <2> DEFINE k == N - (Height(top) - h)
  <2>1. Height(c.blocks[1]) = Height(top) - (N - 1)
    BY <1>1, <1>3
  <2>2. k \in 1..N /\ Height(top) - (N - k) = h
    BY <1>1, <1>2, <1>4, <1>5, <2>1
  <2> QED
    BY <1>3, <2>2
<1>7. Ascending(c.blocks)
  <2> SUFFICES ASSUME NEW i \in 1..N, NEW k \in 1..N, i < k
               PROVE  Height(c.blocks[i]) < Height(c.blocks[k])
    BY <1>1 DEF Ascending
  <2>1. Height(c.blocks[i]) = Height(top) - (N - i) /\ Height(c.blocks[k]) = Height(top) - (N - k)
    BY <1>3
  <2> QED
    BY <1>1, <1>4, <2>1
<1>8. PICK i \in 1..N : /\ GetLastBlocks(c, h) = SubSeq(c.blocks, i, N)
                        /\ \A k \in 1..N : k >= i <=> Height(c.blocks[k]) >= h
  <2>1. PICK i \in 1..Size(c) :
           /\ GetLastBlocks(c, h) = SubSeq(c.blocks, i, Size(c))
           /\ IF \E k \in 1..Size(c) : Height(c.blocks[k]) = h
              THEN \A k \in 1..Size(c) : k >= i <=> Height(c.blocks[k]) >= h
              ELSE i = 1
    <3>1. h \in Int
      BY <1>2
    <3> QED
      BY <1>7, <3>1, GetLastBlocksIsRight, Zenon
  <2> QED
    BY <1>6, <2>1, Zenon DEF N
<1>9. Height(c.blocks[i]) = h
  <2>1. PICK k \in 1..N : Height(c.blocks[k]) = h
    BY <1>6
  <2>2. k >= i /\ Height(c.blocks[i]) >= h
    BY <1>1, <1>2, <1>8, <2>1
  <2>3. Height(c.blocks[k]) = Height(top) - (N - k) /\ Height(c.blocks[i]) = Height(top) - (N - i)
    BY <1>3
  <2> QED
    BY <1>1, <1>2, <1>4, <2>1, <2>2, <2>3
<1> DEFINE s == SubSeq(c.blocks, i, N)
<1>10. s \in Seq(Block) /\ s # <<>> /\ s[1] = c.blocks[i] /\ s[Len(s)] = top /\ IsChain(s)
  <2>1. i \in 1..(Len(c.blocks) + 1) /\ N \in 0..Len(c.blocks)
    BY <1>1
  <2>2. s \in Seq(Block) /\ IsChain(s)
    BY <1>1, <2>1, SubSeqOfBlocks, SubSeqOfChain
  <2>3. Len(s) = N - i + 1 /\ \A k \in 1..Len(s) : s[k] = c.blocks[i + k - 1]
    BY <1>1
  <2> HIDE DEF s
  <2>4. 1 \in 1..Len(s) /\ Len(s) \in 1..Len(s) /\ i + 1 - 1 = i /\ i + Len(s) - 1 = N
    BY <1>1, <2>3
  <2> QED
    BY <1>1, <2>2, <2>3, <2>4
<1>11. Parent(c.blocks[i]) = fork
  <2>1. c.blocks[i] \in Block /\ Len(c.blocks[i]) = h /\ c.blocks[i] = AncestorAt(top, h) /\ h \in 1..Len(top)
    BY <1>1, <1>3, <1>9, OnChainIsAncestor DEF Height
  <2>2. h \in 2..Len(top) /\ Len(top) \in Nat
    BY <1>2, <2>1
  <2>3. Parent(AncestorAt(top, h)) = AncestorAt(top, h - 1)
    BY <1>1, <2>2, ParentOfAncestor
  <2>4. fork = AncestorAt(top, Len(fork))
    BY <1>1, OnChainIsAncestor
  <2> QED
    BY <1>2, <2>1, <2>3, <2>4
<1> HIDE DEF s
<1>12. BranchWork(s) = ChainWork[top] - ChainWork[fork]
  <2>1. Parent(s[1]) = fork /\ Parent(s[1]) \in Block
    BY <1>10, <1>11
  <2> QED
    BY <1>10, <2>1, BranchWorkTelescopes
<1> QED
  BY <1>8, <1>12 DEF s, h

-----------------------------------------------------------------------------
(***************************************************************************)
(* The inductive invariant of ReorgListIsBranch.                           *)
(***************************************************************************)
\* The events that are still to be handled.
Queued == IF pc \in {"mature", "handle"} THEN <<event>> \o chan ELSE chan

\* The cache is that of the running bootstrap, or of the one before.
Loaded == cache.blocks # <<>> /\ pc \notin {"start", "down", "bootstrap", "initCache"}

FollowInv ==
  /\ ~listening => chan = <<>> /\ Queued = <<>>
  /\ Walk(Queued, btcTip)
  /\ Branch(reorgList)
  /\ pc \in {"start", "down"} \cup BootstrapSteps => reorgList = NoReorg
  /\ Loaded => Following(Queued, btcTip, Tip(cache), reorgList)

LEMMA BranchOfNone == Branch(NoReorg) /\ NoReorg.blocks = <<>>
BY DEF Branch, NoReorg

LEMMA WalkOfNone == ASSUME NEW tip PROVE Walk(<<>>, tip)
<1>1. <<>> \in Seq(Events) /\ Len(<<>>) = 0
  OBVIOUS
<1> QED
  BY <1>1 DEF Walk, Adjoining

\* The queue without the event in hand.
LEMMA QueueOfEvent ==
  ASSUME IInv, FollowInv, pc \in {"mature", "handle"}
  PROVE  /\ Queued # <<>> /\ Queued[1] = event /\ Tail(Queued) = chan
         /\ event \in Events /\ event.block \in Block
<1>1. chan \in Seq(Events) /\ event \in Events
  BY DEF IInv, ProcessOK, ProcessTypeOK, EventSteps
<1>2. Queued = <<event>> \o chan
  BY DEF Queued
<1>3. /\ <<event>> \o chan # <<>> /\ (<<event>> \o chan)[1] = event
      /\ Tail(<<event>> \o chan) = chan
  BY <1>1
<1> QED
  BY <1>1, <1>2, <1>3 DEF Events

LEMMA ChanWalks ==
  ASSUME IInv, FollowInv
  PROVE  Walk(chan, btcTip)
<1>1. CASE pc \in {"mature", "handle"}
  BY <1>1, QueueOfEvent, WalkTail DEF FollowInv
<1>2. CASE pc \notin {"mature", "handle"}
  BY <1>2 DEF FollowInv, Queued
<1> QED
  BY <1>1, <1>2

\* How a step of the process may go on, each keeping the invariant.
LEMMA ExitFollows ==
  ASSUME NEW reason, Exit(reason)
  PROVE  FollowInv'
<1>1. chan' = <<>> /\ pc' = "down" /\ reorgList' = NoReorg
  BY DEF Exit
<1>2. Queued' = <<>>
  BY <1>1 DEF Queued
<1>3. Walk(<<>>, btcTip')
  BY WalkOfNone
<1> QED
  BY <1>1, <1>2, <1>3, BranchOfNone DEF FollowInv, Loaded

LEMMA BeginBootstrapFollows ==
  ASSUME IInv, FollowInv, NEW skp, NEW n, BeginBootstrap(skp, n), UNCHANGED btcTip
  PROVE  FollowInv'
<1>1. chan' = chan /\ pc' = "bootstrap" /\ reorgList' = NoReorg /\ listening' = listening
  BY DEF BeginBootstrap, subscription
<1>2. Queued' = chan
  BY <1>1 DEF Queued
<1>3. Walk(chan, btcTip)
  BY ChanWalks
<1> QED
  BY <1>1, <1>2, <1>3, BranchOfNone DEF FollowInv, Loaded

LEMMA RestartBootstrapFollows ==
  ASSUME IInv, FollowInv, RestartBootstrap, UNCHANGED btcTip
  PROVE  FollowInv'
BY BeginBootstrapFollows DEF RestartBootstrap

LEMMA BootstrapFailsFollows ==
  ASSUME IInv, FollowInv, BootstrapFails, UNCHANGED btcTip
  PROVE  FollowInv'
BY BeginBootstrapFollows, ExitFollows DEF BootstrapFails

\* The process goes on with the queue and the end of the cache that it has.
LEMMA GoesOnFollows ==
  ASSUME FollowInv, UNCHANGED <<btcTip, chan, reorgList, Queued>>, listening => listening',
         Loaded' => Loaded /\ Tip(cache)' = Tip(cache),
         pc' \in {"start", "down"} \cup BootstrapSteps => reorgList = NoReorg
  PROVE  FollowInv'
BY DEF FollowInv

LEMMA TipOfTrim ==
  ASSUME NEW c \in Caches, NEW n \in Nat, Trim(Resize(c, n)).blocks # <<>>
  PROVE  c.blocks # <<>> /\ Tip(Trim(Resize(c, n))) = Tip(c)
<1> DEFINE r    == [blocks |-> c.blocks, maxEntries |-> n]
           m    == Len(c.blocks)
           kept == SubSeq(c.blocks, m - n + 1, m)
<1>1. Resize(c, n) = r /\ c.blocks \in Seq(Block) /\ m \in Nat
  BY DEF Resize, Caches
<1>2. CASE m < n
  BY <1>1, <1>2 DEF Trim, Size, Tip
<1>3. CASE ~(m < n)
  <2>1. Trim(r).blocks = kept
    BY <1>3 DEF Trim, Size
  <2>2. kept # <<>>
    BY <1>1, <2>1
  <2>3. Len(kept) = n /\ n >= 1
    <3>1. m - n + 1 \in 1..(m + 1)
      BY <1>1, <1>3
    <3>2. Len(kept) = n
      BY <1>1, <1>3
    <3>3. kept \in Seq(Block)
      BY <1>1, <3>1, SubSeqOfBlocks
    <3> HIDE DEF kept
    <3> QED
      BY <2>2, <3>2, <3>3
  <2>4. kept[n] = c.blocks[m]
    <3>1. \A k \in 1..Len(kept) : kept[k] = c.blocks[m - n + 1 + k - 1]
      BY <1>1, <1>3
    <3>2. n \in 1..n /\ m - n + 1 + n - 1 = m
      BY <1>1, <2>3
    <3> HIDE DEF kept, m
    <3> QED
      BY <2>3, <3>1, <3>2
  <2>5. c.blocks # <<>>
    BY <1>1, <1>3, <2>3
  <2> HIDE DEF kept, r
  <2> QED
    BY <1>1, <2>1, <2>2, <2>3, <2>4, <2>5 DEF Tip
<1> QED
  BY <1>1, <1>2, <1>3

\* ProcessHeaders returns to bootstrap or to the event handler.
LEMMA ProcessingFollows ==
  ASSUME IInv, FollowInv, pc \in {"dedup", "insert"}, UNCHANGED btcTip,
         ProcessingSucceeds \/ ProcessingFails
  PROVE  FollowInv'
<1>1. CASE ProcessingSucceeds /\ InBootstrap
  <2>1. /\ pc' = "idle" /\ cache' = Trim(Resize(cache, K + W))
        /\ UNCHANGED <<reorgList, listening, chan>>
    BY <1>1 DEF ProcessingSucceeds, subscription
  <2>2. UNCHANGED Queued
    BY <2>1 DEF Queued
  <2>3. Loaded' => Loaded /\ Tip(cache)' = Tip(cache)
    <3>1. cache \in Caches /\ K + W \in Nat
      BY ProcessParts, ReporterAssumption DEF IInv, ReporterAssumption
    <3> QED
      BY <2>1, <3>1, TipOfTrim DEF Loaded
  <2> QED
    BY <2>1, <2>2, <2>3, GoesOnFollows DEF BootstrapSteps
<1>2. CASE ProcessingFails /\ InBootstrap
  BY <1>2, BootstrapFailsFollows DEF ProcessingFails
<1>3. CASE ~InBootstrap
  <2>1. pc' = "idle" /\ UNCHANGED <<cache, reorgList, listening, chan>>
    BY <1>3 DEF ProcessingSucceeds, ProcessingFails, EventDone, Goto, subscription
  <2>2. UNCHANGED Queued
    BY <2>1 DEF Queued
  <2> QED
    BY <2>1, <2>2, GoesOnFollows DEF Loaded, BootstrapSteps
<1> QED
  BY <1>1, <1>2, <1>3

LEMMA StartFollows ==
  ASSUME IInv, FollowInv, Start
  PROVE  FollowInv'
BY BeginBootstrapFollows, ExitFollows
DEF Start, AlreadyClose, CatchUp, CatchUpOnStaleFork, node

\* The cache is loaded: it ends at the node's best block.
LEMMA InitBTCCacheFollows ==
  ASSUME IInv, FollowInv, InitBTCCache
  PROVE  FollowInv'
<1> DEFINE fresh == NewBTCCache(BTCCacheSize)
           ibs   == ChainSegment(btcTip, CacheBaseHeight, Height(btcTip))
<1>1. CASE Exit("initCache")
  BY <1>1, ExitFollows
<1>2. CASE ~Exit("initCache")
  <2>1. /\ ~(Height(btcTip) < CacheBaseHeight) /\ cache' = AddAll(fresh, ibs)
        /\ pc = "initCache" /\ pc' = "subscribe"
        /\ UNCHANGED <<btcTip, listening, chan, reorgList>>
    BY <1>2 DEF InitBTCCache, Goto, subscription, node
  <2>2. Queued = chan /\ Queued' = chan /\ reorgList = NoReorg
    BY <2>1 DEF Queued, FollowInv, BootstrapSteps
  <2>3. Tip(cache') = btcTip
    BY <2>1, LoadedBlocks DEF Tip
  <2>4. Following(chan, btcTip, btcTip, NoReorg)
    BY <2>2, FollowingAfterLoad DEF FollowInv, IInv, WorldTypeOK
  <2> QED
    BY <2>1, <2>2, <2>3, <2>4 DEF FollowInv
<1> QED
  BY <1>1, <1>2

LEMMA BootstrapFollows ==
  ASSUME IInv, FollowInv, WaitUntilBTCSync \/ Subscribe \/ CheckConsistency
  PROVE  FollowInv'
<1>1. CASE \E reason : Exit(reason)
  BY <1>1, ExitFollows
<1>2. CASE ~\E reason : Exit(reason)
  <2>1. /\ UNCHANGED <<btcTip, chan, cache, reorgList>> /\ (listening => listening')
        /\ \/ pc = "bootstrap" /\ pc' = "initCache"
           \/ pc = "subscribe" /\ pc' = "consistency"
           \/ pc = "consistency" /\ pc' = "dedup"
    BY <1>2 DEF WaitUntilBTCSync, Subscribe, CheckConsistency, Goto, node, subscription
  <2>2. UNCHANGED Queued
    BY <2>1 DEF Queued
  <2>3. reorgList = NoReorg
    BY <2>1 DEF FollowInv, BootstrapSteps
  <2>4. Loaded' => Loaded
    BY <2>1 DEF Loaded
  <2> QED
    BY <2>1, <2>2, <2>3, <2>4, GoesOnFollows
<1> QED
  BY <1>1, <1>2

LEMMA ProcessHeadersFollows ==
  ASSUME IInv, FollowInv, ProcessHeaders
  PROVE  FollowInv'
<1>1. pc \in {"dedup", "insert"} /\ UNCHANGED btcTip
  BY DEF ProcessHeaders, Dedup, SubmitChunk, node
<1>2. CASE ProcessingSucceeds \/ ProcessingFails
  BY <1>1, <1>2, ProcessingFollows
<1>3. CASE ~(ProcessingSucceeds \/ ProcessingFails)
  <2>1. pc' = "insert" /\ UNCHANGED <<listening, chan, cache, reorgList>>
    BY <1>3 DEF ProcessHeaders, Dedup, SubmitChunk, Goto, subscription
  <2>2. UNCHANGED Queued
    BY <1>1, <2>1 DEF Queued
  <2> QED
    BY <1>1, <2>1, <2>2, GoesOnFollows DEF Loaded, BootstrapSteps
<1> QED
  BY <1>2, <1>3

LEMMA ReceiveEventFollows ==
  ASSUME IInv, FollowInv, ReceiveEvent
  PROVE  FollowInv'
<1>1. /\ pc = "idle" /\ pc' = "mature" /\ chan # <<>> /\ event' = Head(chan) /\ chan' = Tail(chan)
      /\ UNCHANGED <<btcTip, listening, cache, reorgList>>
  BY DEF ReceiveEvent, Goto, node
<1>2. chan \in Seq(Events)
  BY ProcessParts DEF IInv
<1>3. <<Head(chan)>> \o Tail(chan) = chan
  BY <1>1, <1>2
<1>4. Queued' = chan /\ Queued = chan
  BY <1>1, <1>3 DEF Queued
<1> QED
  BY <1>1, <1>4 DEF FollowInv, Loaded, BootstrapSteps

LEMMA MatureFollows ==
  ASSUME FollowInv, Mature
  PROVE  FollowInv'
<1>1. /\ pc = "mature" /\ pc' = "handle"
      /\ UNCHANGED <<btcTip, chan, listening, event, cache, reorgList>>
  BY DEF Mature, Goto, node, subscription
<1>2. UNCHANGED Queued
  BY <1>1 DEF Queued
<1> QED
  BY <1>1, <1>2, GoesOnFollows DEF Loaded, BootstrapSteps

\* The end of a cache from which the newest block was removed.
LEMMA TipOfRemoveLast ==
  ASSUME NEW c \in Caches, IsChain(c.blocks), RemoveLast(c).blocks # <<>>
  PROVE  Tip(RemoveLast(c)) = Parent(Tip(c)) /\ Parent(Tip(c)) \in Block
<1> DEFINE s    == c.blocks
           n    == Len(s)
           kept == SubSeq(s, 1, n - 1)
<1>1. s \in Seq(Block) /\ n \in Nat /\ RemoveLast(c).blocks = kept
  BY DEF Caches, RemoveLast
<1>2. n >= 2
  <2>1. n - 1 < 1 => kept = <<>>
    BY <1>1
  <2> QED
    BY <1>1, <2>1
<1>3. Len(kept) = n - 1 /\ kept[n - 1] = s[n - 1]
  BY <1>1, <1>2
<1>4. Parent(s[n]) = s[n - 1] /\ s[n - 1] \in Block
  <2>1. n - 1 \in 1..(n - 1) /\ (n - 1) + 1 = n /\ n - 1 \in 1..n
    BY <1>1, <1>2
  <2>2. s[n - 1] \in Block
    BY <1>1, <2>1
  <2> HIDE DEF n
  <2>3. Parent(s[(n - 1) + 1]) = s[n - 1]
    BY <2>1 DEF IsChain, n
  <2> QED
    BY <2>1, <2>2, <2>3
<1>5. Tip(c) = s[n] /\ Tip(RemoveLast(c)) = kept[Len(kept)]
  BY <1>1, <1>2 DEF Tip
<1> QED
  BY <1>3, <1>4, <1>5

\* The block above the end of a cache is not known to it.
LEMMA NewBlockIsUnknown ==
  ASSUME NEW c \in Caches, c.blocks # <<>>, IsChain(c.blocks),
         NEW b \in Block, Parent(b) = Tip(c)
  PROVE  ~(Height(b) < Height(First(c))) /\ FindBlock(c, Height(b)) = NoBlock
<1>1. /\ Height(First(c)) = Height(Tip(c)) - Size(c) + 1 /\ Size(c) \in Nat /\ Size(c) >= 1
      /\ Height(First(c)) \in Nat /\ Height(Tip(c)) \in Nat
  <2>1. Len(c.blocks) >= 1
    BY DEF Caches
  <2> QED
    BY <2>1, HeightOfFirst DEF Size
<1>2. Height(Tip(c)) = Height(b) - 1 /\ Height(b) \in Nat
  BY ParentIsLower, BlockIsPath DEF Height
<1>3. Height(Tip(c)) < Height(b) /\ ~(Height(b) < Height(First(c)))
  BY <1>1, <1>2
<1> QED
  BY <1>3 DEF FindBlock, HeightOutOfRange

LEMMA SkipConnectedFollows ==
  ASSUME IInv, FollowInv, SkipConnected
  PROVE  FollowInv'
<1> DEFINE b == event.block
<1>1. /\ pc = "handle" /\ event.type = "connected" /\ pc' = "idle" /\ cache.blocks # <<>>
      /\ UNCHANGED <<btcTip, listening, chan, cache, reorgList>>
  BY DEF SkipConnected, Connecting, ConnectMismatch, EventDone, Goto, node, subscription
<1>2. Queued # <<>> /\ Queued[1] = event /\ Tail(Queued) = chan /\ b \in Block /\ Queued' = chan
  BY <1>1, QueueOfEvent DEF Queued
<1>3. cache \in Caches /\ IsChain(cache.blocks) /\ Tip(cache) \in Block
  <2>1. cache \in Caches /\ IsChain(cache.blocks)
    BY ProcessParts DEF IInv
  <2> QED
    BY <1>1, <2>1 DEF Tip, Caches
<1>4. Parent(b) # Tip(cache)
  BY <1>1, <1>2, <1>3, NewBlockIsUnknown DEF SkipConnected, KnownToCache
<1>5. /\ Following(Queued, btcTip, Tip(cache), reorgList)
      /\ Walk(Queued, btcTip) /\ btcTip \in Block
  BY <1>1 DEF FollowInv, Loaded, IInv, WorldTypeOK
<1>6. Following(chan, btcTip, Tip(cache), reorgList)
  BY <1>1, <1>2, <1>3, <1>4, <1>5, FollowingSkips
<1>7. Walk(chan, btcTip)
  BY ChanWalks
<1> QED
  BY <1>1, <1>2, <1>6, <1>7 DEF FollowInv, BootstrapSteps

\* The branch that does not win yet ends below the work of the first removed block.
LEMMA LosingBranch ==
  ASSUME IInv, ExtendCache, NEW q, q # <<>>,
         InStep(q, btcTip, Tip(cache), reorgList), reorgList.blocks # <<>>,
         ~HeightOutOfRange(Add(cache, event.block), Height(OldestRemoved)),
         ~BranchWins(GetLastBlocks(Add(cache, event.block), Height(OldestRemoved)))
  PROVE  ChainWork[event.block] <= ChainWork[reorgList.blocks[1]]
<1> DEFINE b     == event.block
           grown == Add(cache, b)
           fork  == Parent(OldestRemoved)
<1>1. /\ cache \in Caches /\ cache.blocks # <<>> /\ b \in Block /\ Parent(b) = Tip(cache)
      /\ grown \in Caches /\ IsChain(grown.blocks) /\ grown.blocks # <<>>
  BY ConnectedBlockExtends DEF IInv
<1>2. Tip(grown) = b /\ Tip(cache) \in Block
  BY <1>1, TipOfAdd DEF Tip, Caches
<1>3. /\ fork \in Block /\ OnChain(fork, Tip(cache))
      /\ reorgList.work = ChainWork[reorgList.blocks[1]] - ChainWork[fork]
  BY DEF InStep, OldestRemoved
<1>4. OnChain(fork, b)
  BY <1>1, <1>2, <1>3, ParentWork, OnChainTransitive
<1>5. OldestRemoved \in Block /\ reorgList.blocks[1] \in Block
  <2>1. reorgList.blocks \in Seq(Block)
    BY ProcessParts DEF IInv
  <2> QED
    BY <2>1 DEF OldestRemoved
<1>6. BranchWork(GetLastBlocks(grown, Height(OldestRemoved))) = ChainWork[b] - ChainWork[fork]
  BY <1>1, <1>2, <1>3, <1>4, <1>5, WorkOfNewBranch
<1>7. ~(ChainWork[b] - ChainWork[fork] > ChainWork[reorgList.blocks[1]] - ChainWork[fork])
  BY <1>3, <1>6 DEF BranchWins
<1>8. ChainWork[b] \in Nat /\ ChainWork[fork] \in Nat /\ ChainWork[reorgList.blocks[1]] \in Nat
  BY <1>1, <1>3, <1>5, WorkAssumption DEF WorkAssumption
<1> QED
  BY <1>7, <1>8

LEMMA ExtendCacheFollows ==
  ASSUME IInv, FollowInv, ExtendCache
  PROVE  FollowInv'
<1> DEFINE b      == event.block
           grown  == Add(cache, b)
           branch == GetLastBlocks(grown, Height(OldestRemoved))
<1>1. CASE \E reason : Exit(reason)
  BY <1>1, ExitFollows
<1>2. CASE ~\E reason : Exit(reason)
  <2>1. /\ cache' = grown /\ UNCHANGED <<btcTip, listening, chan>>
        /\ pc = "handle" /\ event.type = "connected"
        /\ pc' \in {"lorenzoTip", "dedup", "idle"}
        /\ \/ reorgList.blocks = <<>> /\ reorgList' = reorgList
           \/ reorgList' = NoReorg
           \/ /\ reorgList.blocks # <<>> /\ ~HeightOutOfRange(grown, Height(OldestRemoved))
              /\ ~BranchWins(branch) /\ reorgList' = reorgList
    BY <1>2 DEF ExtendCache, Connecting, EventDone, Goto, node, subscription
  <2>2. /\ cache \in Caches /\ cache.blocks # <<>> /\ b \in Block /\ Parent(b) = Tip(cache)
    BY ConnectedBlockExtends DEF IInv
  <2>3. Tip(grown) = b /\ Tip(cache) \in Block
    BY <2>2, TipOfAdd DEF Tip, Caches
  <2>4. /\ Queued # <<>> /\ Queued[1] = event /\ Tail(Queued) = chan /\ Queued' = chan
        /\ Walk(Queued, btcTip) /\ Walk(chan, btcTip) /\ btcTip \in Block
    BY <2>1, QueueOfEvent, ChanWalks DEF Queued, FollowInv, IInv, WorldTypeOK
  <2>5. InStep(Queued, btcTip, Tip(cache), reorgList)
    <3>1. Following(Queued, btcTip, Tip(cache), reorgList)
      BY <2>1, <2>2 DEF FollowInv, Loaded
    <3> QED
      BY <2>1, <2>2, <2>3, <2>4, <3>1, FittingIsInStep
  <2>6. \/ reorgList'.blocks = <<>>
        \/ reorgList' = reorgList /\ ChainWork[b] <= ChainWork[reorgList.blocks[1]]
    BY <2>1, <2>4, <2>5, LosingBranch, BranchOfNone
  <2>7. reorgList \in [blocks : Seq(Block), work : Nat]
    BY ProcessParts DEF IInv
  <2>8. Following(chan, btcTip, b, reorgList')
    BY <2>1, <2>2, <2>3, <2>4, <2>5, <2>6, <2>7, FollowingExtends
  <2>9. Branch(reorgList')
    BY <2>1, BranchOfNone DEF FollowInv
  <2> QED
    BY <2>1, <2>3, <2>4, <2>8, <2>9 DEF FollowInv, BootstrapSteps
<1> QED
  BY <1>1, <1>2

LEMMA QueryLorenzoTipFollows ==
  ASSUME IInv, FollowInv, QueryLorenzoTip
  PROVE  FollowInv'
<1>1. pc = "lorenzoTip" /\ UNCHANGED btcTip
  BY DEF QueryLorenzoTip, node
<1>2. CASE RestartBootstrap
  BY <1>1, <1>2, RestartBootstrapFollows
<1>3. CASE ~RestartBootstrap
  <2>1. pc' = "dedup" /\ UNCHANGED <<listening, chan, cache, reorgList>>
    BY <1>3 DEF QueryLorenzoTip, Goto, subscription
  <2>2. UNCHANGED Queued
    BY <1>1, <2>1 DEF Queued
  <2> QED
    BY <1>1, <2>1, <2>2, GoesOnFollows DEF Loaded, BootstrapSteps
<1> QED
  BY <1>2, <1>3

LEMMA HandleDisconnectedFollows ==
  ASSUME IInv, FollowInv, HandleDisconnected
  PROVE  FollowInv'
<1> DEFINE last == Tip(cache)
           s    == [blocks |-> Append(reorgList.blocks, last),
                    work   |-> reorgList.work + HeaderWork(last)]
<1>1. pc = "handle" /\ event.type = "disconnected" /\ UNCHANGED btcTip
  BY DEF HandleDisconnected, node
<1>2. CASE RestartBootstrap
  BY <1>1, <1>2, RestartBootstrapFollows
<1>3. CASE ~RestartBootstrap
  <2>1. /\ cache.blocks # <<>> /\ event.block = last
        /\ reorgList' = s /\ cache' = RemoveLast(cache) /\ pc' = "idle"
        /\ UNCHANGED <<listening, chan>>
    BY <1>3 DEF HandleDisconnected, EventDone, Goto, subscription
  <2>2. /\ cache \in Caches /\ IsChain(cache.blocks) /\ last \in Block
        /\ reorgList \in [blocks : Seq(Block), work : Nat]
    <3>1. cache \in Caches /\ IsChain(cache.blocks)
          /\ reorgList \in [blocks : Seq(Block), work : Nat]
      BY ProcessParts DEF IInv
    <3> QED
      BY <2>1, <3>1 DEF Tip, Caches
  <2>3. /\ Queued # <<>> /\ Queued[1] = event /\ Tail(Queued) = chan /\ Queued' = chan
        /\ Walk(Queued, btcTip) /\ Walk(chan, btcTip) /\ btcTip \in Block
    BY <1>1, <2>1, QueueOfEvent, ChanWalks DEF Queued, FollowInv, IInv, WorldTypeOK
  <2>4. InStep(Queued, btcTip, last, reorgList)
    <3>1. Following(Queued, btcTip, last, reorgList)
      BY <1>1, <2>1 DEF FollowInv, Loaded
    <3> QED
      BY <1>1, <2>1, <2>2, <2>3, <3>1, FittingIsInStep
  <2>5. Branch(s) /\ (Parent(last) \in Block => Following(chan, btcTip, Parent(last), s))
    <3>1. Branch(reorgList)
      BY DEF FollowInv
    <3> QED
      BY <1>1, <2>1, <2>2, <2>3, <2>4, <3>1, FollowingRetreats
  <2>6. cache'.blocks # <<>> => Tip(cache)' = Parent(last) /\ Parent(last) \in Block
    BY <2>1, <2>2, TipOfRemoveLast
  <2> HIDE DEF s, last
  <2> QED
    BY <1>1, <2>1, <2>3, <2>5, <2>6 DEF FollowInv, Loaded, BootstrapSteps
<1> QED
  BY <1>2, <1>3

LEMMA StepFollows ==
  ASSUME IInv, FollowInv, Step
  PROVE  FollowInv'
<1>1. CASE Start
  BY <1>1, StartFollows
<1>2. CASE Bootstrap
  BY <1>2, InitBTCCacheFollows, BootstrapFollows DEF Bootstrap
<1>3. CASE ProcessHeaders
  BY <1>3, ProcessHeadersFollows
<1>4. CASE HandleEvent
  <2>1. CASE RejectConnected
    BY <2>1, RestartBootstrapFollows DEF RejectConnected, node
  <2> QED
    BY <1>4, <2>1, ReceiveEventFollows, MatureFollows, SkipConnectedFollows,
       ExtendCacheFollows, QueryLorenzoTipFollows, HandleDisconnectedFollows DEF HandleEvent
<1> QED
  BY <1>1, <1>2, <1>3, <1>4 DEF Step

-----------------------------------------------------------------------------
(***************************************************************************)
(* The node's moves and the faults, as long as no event is lost.           *)
(***************************************************************************)
LEMMA NodeAdvanceFollows ==
  ASSUME IInv, FollowInv, NEW t \in Block, NodeAdvance(t)
  PROVE  FollowInv'
<1>1. /\ btcTip' = t /\ ChainWork[t] > ChainWork[btcTip]
      /\ UNCHANGED <<listening, pc, cache, reorgList, event>>
  BY DEF NodeAdvance, memory
<1>2. /\ btcTip \in Block /\ chan \in Seq(Events)
      /\ cache \in Caches /\ reorgList \in [blocks : Seq(Block), work : Nat]
      /\ Loaded => Tip(cache) \in Block
  <2>1. /\ btcTip \in Block /\ chan \in Seq(Events)
        /\ cache \in Caches /\ reorgList \in [blocks : Seq(Block), work : Nat]
    BY ProcessParts DEF IInv, WorldTypeOK
  <2> QED
    BY <2>1 DEF Loaded, Tip, Caches
<1>3. UNCHANGED Loaded /\ Tip(cache)' = Tip(cache)
  BY <1>1 DEF Loaded
<1>4. Walk(Queued, btcTip) /\ (Loaded => Following(Queued, btcTip, Tip(cache), reorgList))
  BY DEF FollowInv
<1>5. PICK f \in 0..Height(t) :
        /\ ForkHeight(btcTip, t, f)
        /\ chan' = IF listening THEN chan \o ReorgEvents(btcTip, t, f) ELSE chan
  BY DEF NodeAdvance
<1>6. CASE listening
  <2> DEFINE m == ReorgEvents(btcTip, t, f)
  <2>1. f \in Nat /\ IsMove(m, btcTip, t) /\ m \in Seq(Events)
    <3>1. f \in Nat
      OBVIOUS
    <3>2. IsMove(m, btcTip, t)
      BY <1>1, <1>2, <1>5, <3>1, ReorgEventsMove
    <3> QED
      BY <3>1, <3>2 DEF IsMove
  <2> HIDE DEF m
  <2>2. Queued' = Queued \o m
    <3>1. chan' = chan \o m
      BY <1>5, <1>6 DEF m
    <3>2. CASE pc \in {"mature", "handle"}
      <4>1. event \in Events
        BY <3>2, QueueOfEvent
      <4>2. <<event>> \o (chan \o m) = (<<event>> \o chan) \o m
        BY <1>2, <2>1, <4>1
      <4> QED
        BY <1>1, <3>1, <3>2, <4>2 DEF Queued
    <3>3. CASE pc \notin {"mature", "handle"}
      BY <1>1, <3>1, <3>3 DEF Queued
    <3> QED
      BY <3>2, <3>3
  <2>3. Walk(Queued \o m, t)
    BY <1>1, <1>2, <1>4, <2>1, WalkAppends
  <2>4. Loaded => Following(Queued \o m, t, Tip(cache), reorgList)
    BY <1>1, <1>2, <1>4, <2>1, FollowingAppends
  <2> QED
    BY <1>1, <1>3, <1>6, <2>2, <2>3, <2>4 DEF FollowInv
<1>7. CASE ~listening
  <2>1. chan = <<>> /\ chan' = <<>> /\ Queued = <<>> /\ Queued' = <<>>
    BY <1>1, <1>5, <1>7 DEF FollowInv, Queued
  <2>2. Walk(<<>>, t)
    BY WalkOfNone
  <2>3. Loaded => Following(<<>>, t, Tip(cache), reorgList)
    BY <1>1, <1>2, <1>4, <2>1, FollowingMisses
  <2> QED
    BY <1>1, <1>3, <2>1, <2>2, <2>3 DEF FollowInv
<1> QED
  BY <1>6, <1>7

LEMMA SubscriptionBeginsFollows ==
  ASSUME FollowInv, SubscriptionBegins
  PROVE  FollowInv'
BY DEF SubscriptionBegins, node, memory, FollowInv, Queued, Loaded

LEMMA FaultsFollow ==
  ASSUME IInv, FollowInv, Faults, "lost" \notin FaultKinds
  PROVE  FollowInv'
<1>1. CASE LorenzoRequestFails
  BY <1>1, ExitFollows, BootstrapFailsFollows, RestartBootstrapFollows, ProcessingFollows
  DEF LorenzoRequestFails, CatchUpFails, node
<1>2. CASE BTCRequestFails
  BY <1>2, ExitFollows, BootstrapFailsFollows, RestartBootstrapFollows
  DEF BTCRequestFails, CatchUpFails, node
<1>3. CASE \E t \in Block : RivalInsert(t)
  <2>1. UNCHANGED <<btcTip, listening, chan, pc, cache, reorgList, event>>
    BY <1>3 DEF RivalInsert, node, subscription, memory
  <2> QED
    BY <2>1 DEF FollowInv, Queued, Loaded
<1>4. CASE Crash
  BY <1>4, ExitFollows DEF Crash
<1>5. CASE Restart
  <2>1. /\ pc = "down" /\ pc' = "start"
        /\ UNCHANGED <<btcTip, listening, chan, cache, reorgList>>
    BY <1>5 DEF Restart, node, subscription
  <2>2. UNCHANGED Queued /\ reorgList = NoReorg
    BY <2>1 DEF Queued, FollowInv
  <2> QED
    BY <2>1, <2>2, GoesOnFollows DEF Loaded
<1> QED
  BY <1>1, <1>2, <1>3, <1>4, <1>5 DEF Faults, LoseEvent, Fault

LEMMA AlwaysFollows ==
  ASSUME "lost" \notin FaultKinds
  PROVE  Spec => [](IInv /\ FollowInv)
<1> DEFINE Inv == IInv /\ FollowInv
<1>1. Init => Inv
  <2> SUFFICES ASSUME Init PROVE Inv
    OBVIOUS
  <2>1. Queued = <<>> /\ chan = <<>> /\ reorgList = NoReorg /\ pc = "start"
    BY DEF Init, Queued
  <2>2. FollowInv
    BY <2>1, WalkOfNone, BranchOfNone DEF FollowInv, Loaded
  <2> QED
    BY <2>2, InitIInv
<1>2. Inv /\ [Next]_vars => Inv'
  <2> SUFFICES ASSUME Inv, [Next]_vars PROVE Inv'
    OBVIOUS
  <2>1. IInv'
    BY NextIInv
  <2>3. CASE Step
    BY <2>1, <2>3, StepFollows
  <2>4. CASE \E t \in Block : NodeAdvance(t)
    BY <2>1, <2>4, NodeAdvanceFollows
  <2>5. CASE Faults
    BY <2>1, <2>5, FaultsFollow
  <2>6. CASE UNCHANGED vars
    BY <2>1, <2>6 DEF vars, FollowInv, Queued, Loaded
  <2>7. CASE SubscriptionBegins
    BY <2>1, <2>7, SubscriptionBeginsFollows
  <2> QED
    BY <2>3, <2>4, <2>5, <2>6, <2>7 DEF Next
<1> QED
  BY <1>1, <1>2, PTL DEF Spec

(***************************************************************************)
(* The removed blocks are always one branch that grew from the cache or    *)
(* from below it, for every block tree, whatever work its headers have, as *)
(* long as the channel loses no event: reorganisations may follow one      *)
(* another before their events are handled, overlap with bootstraps, and   *)
(* be cut short by failures and crashes (reorg_list.go 32-34,              *)
(* block_handler.go 150-154).                                              *)
(***************************************************************************)
THEOREM ReorgListAlwaysBranch ==
  ASSUME "lost" \notin FaultKinds
  PROVE  Spec => []ReorgListIsBranch
<1>1. IInv /\ FollowInv => ReorgListIsBranch
  <2> SUFFICES ASSUME IInv, FollowInv, reorgList.blocks # <<>>, cache.blocks # <<>>
               PROVE  Height(OldestRemoved) <= Height(Tip(cache)) + 1
    BY DEF ReorgListIsBranch, FollowInv, Branch
  <2> DEFINE last   == Tip(cache)
             oldest == OldestRemoved
  <2>1. oldest \in Block /\ last \in Block
    <3>1. cache \in Caches /\ reorgList \in [blocks : Seq(Block), work : Nat]
      BY ProcessParts DEF IInv
    <3> QED
      BY <3>1 DEF OldestRemoved, Tip, Caches
  <2>2. pc \notin {"start", "down"} \cup BootstrapSteps
    BY BranchOfNone DEF FollowInv
  <2>3. InStep(Queued, btcTip, last, reorgList)
    BY <2>2 DEF FollowInv, Loaded, Following, Outdated, Gap, BootstrapSteps
  <2>4. Parent(oldest) \in Block /\ OnChain(Parent(oldest), last)
    BY <2>3 DEF InStep, OldestRemoved
  <2>5. Len(Parent(oldest)) = Len(oldest) - 1 /\ Len(Parent(oldest)) <= Len(last)
    BY <2>1, <2>4, ParentIsLower DEF OnChain
  <2>6. Len(oldest) \in Nat /\ Len(last) \in Nat
    BY <2>1, BlockIsPath
  <2> HIDE DEF oldest, last
  <2>7. Len(oldest) <= Len(last) + 1
    BY <2>5, <2>6
  <2> QED
    BY <2>7 DEF Height, oldest, last
<1> QED
  BY <1>1, AlwaysFollows, PTL
=============================================================================
