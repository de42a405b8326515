-------------------------- MODULE BNBReporterProofs --------------------------
(***************************************************************************)
(* Proofs about the BNB reporter, for every block tree and every value of  *)
(* the constants.                                                          *)
(***************************************************************************)
EXTENDS BNBReporter, BlockTreeProofs

-----------------------------------------------------------------------------
(***************************************************************************)
(* Batches.  What RangeHeaders returns is the upper part of a chain.       *)
(***************************************************************************)
IsBatch(hs) ==
  \E t \in Block : \E lo \in 1..Height(t) : hs = ChainSegment(t, lo, Height(t))

LEMMA BatchIsChain ==
  ASSUME NEW hs, IsBatch(hs)
  PROVE  /\ hs \in Seq(Block) /\ hs # <<>> /\ Len(hs) \in Nat /\ Len(hs) >= 1
         /\ Newest(hs) \in Block /\ hs[1] \in Block
         /\ Height(hs[1]) \in 1..Height(Newest(hs))
         /\ Len(hs) = Height(Newest(hs)) - Height(hs[1]) + 1
         /\ \A i \in 1..Len(hs) : hs[i] = AncestorAt(Newest(hs), Height(hs[1]) + i - 1)
<1>1. PICK t \in Block : \E l \in 1..Len(t) : hs = ChainSegment(t, l, Len(t))
  BY DEF IsBatch, Height
<1> PICK lo \in 1..Len(t) : hs = ChainSegment(t, lo, Len(t))
  BY <1>1
<1>2. Len(t) \in Nat /\ Len(t) \in 1..Len(t)
  BY BlockIsPath
<1>3. /\ hs \in Seq(Block) /\ Len(hs) = Len(t) - lo + 1
      /\ \A i \in 1..Len(hs) : hs[i] = AncestorAt(t, lo + i - 1)
      /\ hs[1] = AncestorAt(t, lo) /\ hs[Len(hs)] = AncestorAt(t, Len(t))
  BY <1>2, SegmentOfBlocks
<1>4. hs[Len(hs)] = t /\ hs[1] \in Block /\ Len(hs[1]) = lo
  BY <1>3, AncestorOfTop, AncestorIsBlock
<1> QED
  BY <1>2, <1>3, <1>4 DEF Newest, Height

\* What RangeHeaders returns when it does not fail.
LEMMA RangeIsBatch ==
  ASSUME bnbTip \in Block, NEW hi \in Nat, ~RangeFails(hi), NEW lo \in 1..hi
  PROVE  /\ IsBatch(RangeHeaders(lo, hi))
         /\ Newest(RangeHeaders(lo, hi)) = AncestorAt(bnbTip, hi)
         /\ RangeHeaders(lo, hi)[1] = AncestorAt(bnbTip, lo)
         /\ Height(RangeHeaders(lo, hi)[1]) = lo
         /\ Height(Newest(RangeHeaders(lo, hi))) = hi
<1> DEFINE t == AncestorAt(bnbTip, hi)
<1>1. Len(bnbTip) \in Nat /\ hi \in 1..Len(bnbTip) /\ lo \in 1..Len(bnbTip)
  BY BlockIsPath DEF RangeFails, Height
<1>2. t \in Block /\ Len(t) = hi
  BY <1>1, AncestorIsBlock
<1>3. RangeHeaders(lo, hi) = ChainSegment(t, lo, Len(t))
  BY <1>1, <1>2, SegmentOfAncestor DEF RangeHeaders
<1>4. IsBatch(RangeHeaders(lo, hi))
  BY <1>2, <1>3 DEF IsBatch, Height
<1>5. /\ RangeHeaders(lo, hi)[1] = AncestorAt(bnbTip, lo)
      /\ Newest(RangeHeaders(lo, hi)) = AncestorAt(bnbTip, hi)
  BY <1>1, SegmentOfBlocks DEF RangeHeaders, Newest
<1> QED
  BY <1>1, <1>2, <1>4, <1>5, AncestorIsBlock DEF Height

\* An upload that is accepted extends the chain it is added to.
LEMMA ExtendsGrows ==
  ASSUME NEW hs, IsBatch(hs), NEW t \in Block, Extends(hs, t)
  PROVE  /\ OnChain(t, Newest(hs)) /\ t # Newest(hs)
         /\ Height(hs[1]) = Height(t) + 1
         /\ \A h \in 1..Height(t) : AncestorAt(Newest(hs), h) = AncestorAt(t, h)
<1> DEFINE n == Newest(hs)
           lo == Height(hs[1])
<1>1. n \in Block /\ lo \in 1..Len(n) /\ hs[1] = AncestorAt(n, lo) /\ Len(n) \in Nat
  <2>1. n \in Block /\ lo \in 1..Len(n) /\ Len(n) \in Nat
    BY BatchIsChain, BlockIsPath DEF Height
  <2>2. hs[1] = AncestorAt(n, lo + 1 - 1)
    BY BatchIsChain
  <2> HIDE DEF n, lo
  <2>3. lo + 1 - 1 = lo
    BY <2>1
  <2> QED
    BY <2>1, <2>2, <2>3
<1>2. Len(t) \in Nat /\ Len(t) >= 1 /\ Len(hs[1]) = lo
  BY BlockIsPath DEF Height
<1>3. lo # 1
  <2>1. hs[1] \in Block /\ hs[1] \in Seq(Nat)
    BY <1>1, AncestorIsBlock, BlockIsPath
  <2>2. lo = 1 => Len(Parent(hs[1])) = 0
    BY <1>2, <2>1 DEF Parent
  <2> QED
    BY <1>2, <2>2 DEF Extends
<1> HIDE DEF n, lo
<1>4. lo \in 2..Len(n) /\ lo - 1 \in 1..Len(n)
  BY <1>1, <1>3
<1>5. t = AncestorAt(n, lo - 1) /\ Len(t) = lo - 1
  BY <1>1, <1>4, ParentOfAncestor, AncestorIsBlock DEF Extends
<1>6. OnChain(t, n)
  BY <1>1, <1>4, <1>5, AncestorIsOnChain
<1>7. t # n
  BY <1>4, <1>5
<1>8. \A h \in 1..Len(t) : AncestorAt(n, h) = AncestorAt(t, h)
  BY <1>1, <1>4, <1>5, AncestorOfAncestor
<1> QED
  BY <1>2, <1>5, <1>6, <1>7, <1>8 DEF n, lo, Height

-----------------------------------------------------------------------------
(***************************************************************************)
(* The inductive invariant, whatever the work of the blocks.  lorenzoTip   *)
(* stays reported because what is uploaded, with or without an answer, is  *)
(* a batch behind it; the producer and its batches are there only while    *)
(* the process consumes them.                                              *)
(***************************************************************************)
BatchesAreConsumed == producing \/ batches # <<>> => pc = "consume"
BatchesAreChains == \A i \in 1..Len(batches) : IsBatch(batches[i])
TargetIsAhead ==
  /\ producing => next \in 1..target
  /\ pc = "relay" => Height(tip) < target

IInv ==
  /\ TypeOK /\ TipIsReported
  /\ BatchesAreConsumed /\ BatchesAreChains /\ TargetIsAhead

-----------------------------------------------------------------------------
(***************************************************************************)
(* Each step keeps the inductive invariant.                                *)
(***************************************************************************)
Exits == Panics \cup {"requestFailed", "crash"}

\* What the node and the light client do leaves types alone.
WorldTypeOK ==
  /\ bnbTip \in Block /\ buried \subseteq Block
  /\ lrzTip \in Block \cup {NoBlock} /\ faults \in 0..MaxFaults

LEMMA ExitKeeps ==
  ASSUME NEW reason \in Exits, Exit(reason), WorldTypeOK'
  PROVE  IInv'
<1>1. pc' = "down" /\ exit' = reason /\ tip' = NoBlock /\ target' = 0 /\ next' = 0
  BY DEF Exit
<1>2. ~producing' /\ producing' \in BOOLEAN /\ batches' = <<>>
  BY Zenon DEF Exit
<1>3. batches' \in Seq(Seq(Block)) /\ Len(batches') = 0
  BY <1>2
<1>4. Len(batches') <= ChannelCapacity + 1
  BY <1>3, BNBAssumption DEF BNBAssumption
<1>5. TypeOK'
  BY <1>1, <1>2, <1>3, <1>4 DEF TypeOK, WorldTypeOK, Exits, Panics
<1> QED
  BY <1>1, <1>2, <1>3, <1>5
  DEF IInv, TipIsReported, BatchesAreConsumed, BatchesAreChains, TargetIsAhead

LEMMA BoostrapKeeps ==
  ASSUME IInv, Boostrap
  PROVE  IInv'
BY OnChainReflexive DEF IInv, Boostrap, Goto, catchingUp, node, TypeOK, TipIsReported, BatchesAreConsumed, BatchesAreChains, TargetIsAhead

LEMMA UploadBaseHeaderKeeps ==
  ASSUME IInv, UploadBaseHeader
  PROVE  IInv'
<1>1. WorldTypeOK'
  BY BNBAssumption, AncestorIsBlock DEF BNBAssumption, UploadBaseHeader, WorldTypeOK, IInv, TypeOK, node, Height
<1> QED
  BY <1>1, ExitKeeps DEF UploadBaseHeader, Exits, Panics

LEMMA AlreadyCloseKeeps ==
  ASSUME IInv, AlreadyClose
  PROVE  IInv'
BY DEF IInv, AlreadyClose, Goto, catchingUp, node, TypeOK, TipIsReported, BatchesAreConsumed, BatchesAreChains, TargetIsAhead

LEMMA BeginCatchUpKeeps ==
  ASSUME IInv, BeginCatchUp
  PROVE  IInv'
<1>1. TypeOK /\ TipIsReported /\ tip \in Block /\ tip # NoBlock
  BY DEF IInv, TypeOK, BeginCatchUp
<1>2. Height(tip) \in Nat /\ Height(bnbTip) \in Nat /\ Delay \in Nat /\ ChannelCapacity \in Nat
  BY <1>1, BlockIsPath, BNBAssumption DEF BNBAssumption, TypeOK, Height
<1>3. /\ Height(tip) + Delay < Height(bnbTip)
      /\ target' = Height(bnbTip) - Delay /\ next' = Height(tip) + 1
      /\ pc' = "consume" /\ batches' = <<>> /\ UNCHANGED <<node, lrzTip, tip, exit, faults>>
  BY DEF BeginCatchUp, CatchUpTarget
<1>4. target' \in Nat /\ next' \in Nat /\ next' \in 1..target'
  BY <1>2, <1>3
<1>5. producing' /\ producing' \in BOOLEAN
  BY Zenon DEF BeginCatchUp
<1>6. batches' \in Seq(Seq(Block)) /\ Len(batches') = 0 /\ Len(batches') <= ChannelCapacity + 1
  BY <1>2, <1>3
<1>7. TypeOK'
  BY <1>1, <1>3, <1>4, <1>5, <1>6 DEF TypeOK, node
<1> QED
  BY <1>1, <1>3, <1>4, <1>5, <1>6, <1>7
  DEF IInv, TipIsReported, BatchesAreConsumed, BatchesAreChains, TargetIsAhead

LEMMA ProduceKeeps ==
  ASSUME IInv, Produce
  PROVE  IInv'
<1>1. /\ TypeOK /\ TipIsReported /\ BatchesAreChains /\ pc = "consume" /\ next \in 1..target
      /\ UNCHANGED <<node, lrzTip, pc, tip, target, exit, faults>>
  BY DEF IInv, BatchesAreConsumed, TargetIsAhead, Produce
<1>2. target \in Nat /\ next \in Nat /\ BatchSize \in Nat /\ BatchSize >= 1 /\ ChannelCapacity \in Nat
  BY <1>1, BNBAssumption DEF BNBAssumption, TypeOK
<1>3. CASE RangeFails(BatchEnd)
  <2>1. ~producing' /\ producing' \in BOOLEAN /\ UNCHANGED <<next, batches>>
    BY <1>3, Zenon DEF Produce
  <2> QED
    BY <1>1, <2>1, Zenon
    DEF IInv, TypeOK, node, TipIsReported, BatchesAreConsumed, BatchesAreChains, TargetIsAhead
<1>4. CASE ~RangeFails(BatchEnd)
  <2> DEFINE hs == RangeHeaders(next, BatchEnd)
  <2>1. /\ Len(batches) <= ChannelCapacity /\ batches' = Append(batches, hs)
        /\ next' = next + BatchSize
        /\ producing' = ~(next + BatchSize > target)
    BY <1>4 DEF Produce, LastBatch
  <2>2. BatchEnd \in Nat /\ next \in 1..BatchEnd
    BY <1>1, <1>2 DEF BatchEnd
  <2>3. IsBatch(hs) /\ hs \in Seq(Block)
    BY <1>1, <1>4, <2>2, RangeIsBatch, BatchIsChain DEF TypeOK
  <2> HIDE DEF hs
  <2>4. batches \in Seq(Seq(Block)) /\ Len(batches) \in Nat
    BY <1>1 DEF TypeOK
  <2>5. /\ batches' \in Seq(Seq(Block)) /\ Len(batches') = Len(batches) + 1
        /\ \A i \in 1..Len(batches) : batches'[i] = batches[i]
        /\ batches'[Len(batches) + 1] = hs
    BY <2>1, <2>3, <2>4
  <2>6. \A i \in 1..Len(batches') : IsBatch(batches'[i])
    <3> SUFFICES ASSUME NEW i \in 1..Len(batches')
                 PROVE  IsBatch(batches'[i])
      OBVIOUS
    <3>1. CASE i \in 1..Len(batches)
      BY <1>1, <2>5, <3>1 DEF BatchesAreChains
    <3>2. CASE i = Len(batches) + 1
      BY <2>3, <2>5, <3>2
    <3> QED
      BY <2>4, <2>5, <3>1, <3>2
  <2>7. Len(batches') <= ChannelCapacity + 1 /\ next' \in Nat /\ (producing' => next' \in 1..target)
    <3>1. next + BatchSize > target => ~producing'
      BY <2>1, Zenon
    <3>2. ~(next + BatchSize > target) => next' \in 1..target
      BY <1>2, <2>1
    <3>3. Len(batches') <= ChannelCapacity + 1 /\ next' \in Nat
      BY <1>2, <2>1, <2>4, <2>5
    <3> QED
      BY <3>1, <3>2, <3>3, Zenon
  <2>8. producing' \in BOOLEAN
    BY <2>1, Zenon
  <2>9. TypeOK'
    BY <1>1, <2>5, <2>7, <2>8 DEF TypeOK, node
  <2> QED
    BY <1>1, <2>6, <2>7, <2>9
    DEF IInv, TipIsReported, BatchesAreConsumed, BatchesAreChains, TargetIsAhead, IsBatch
<1> QED
  BY <1>3, <1>4

LEMMA ConsumeKeeps ==
  ASSUME IInv, Consume
  PROVE  IInv'
<1> DEFINE hs == Head(batches)
<1>1. /\ TypeOK /\ BatchesAreChains /\ BatchesAreConsumed /\ TargetIsAhead
      /\ pc = "consume" /\ batches # <<>> /\ UNCHANGED <<node, faults>>
  BY DEF IInv, Consume
<1>2. batches \in Seq(Seq(Block)) /\ Len(batches) \in Nat /\ Len(batches) >= 1
  BY <1>1 DEF TypeOK
<1>3. IsBatch(hs)
  BY <1>1, <1>2 DEF BatchesAreChains
<1>4. Newest(hs) \in Block
  BY <1>3, BatchIsChain
<1> HIDE DEF hs
<1>5. CASE Extends(hs, tip) /\ Extends(hs, lrzTip)
  <2>1. /\ lrzTip' = Newest(hs) /\ tip' = Newest(hs) /\ batches' = Tail(batches)
        /\ UNCHANGED <<pc, target, next, producing, exit>>
    BY <1>5 DEF Consume, Uploaded, hs
  <2>2. /\ batches' \in Seq(Seq(Block)) /\ Len(batches') = Len(batches) - 1
        /\ \A i \in 1..Len(batches') : batches'[i] = batches[i + 1]
    BY <1>2, <2>1
  <2>3. \A i \in 1..Len(batches') : IsBatch(batches'[i])
    BY <1>1, <1>2, <2>2 DEF BatchesAreChains
  <2>4. ChannelCapacity \in Nat /\ tip' # NoBlock
    BY <1>4, <2>1, BNBAssumption, BlockIsPath DEF BNBAssumption, NoBlock
  <2>5. Len(batches') <= ChannelCapacity + 1
    BY <1>1, <1>2, <2>2, <2>4 DEF TypeOK
  <2>6. TypeOK'
    BY <1>1, <1>4, <2>1, <2>2, <2>4, <2>5 DEF TypeOK, node
  <2>7. TipIsReported'
    BY <1>4, <2>1, <2>4, OnChainReflexive DEF TipIsReported
  <2>8. BatchesAreConsumed' /\ TargetIsAhead'
    BY <1>1, <2>1 DEF BatchesAreConsumed, TargetIsAhead
  <2> QED
    BY <2>3, <2>6, <2>7, <2>8 DEF IInv, BatchesAreChains, IsBatch
<1>6. CASE ~(Extends(hs, tip) /\ Extends(hs, lrzTip))
  <2>1. Exit("rejected") /\ UNCHANGED lrzTip
    BY <1>6 DEF Consume, hs
  <2>2. WorldTypeOK'
    BY <1>1, <2>1 DEF TypeOK, WorldTypeOK, node
  <2> QED
    BY <2>1, <2>2, ExitKeeps DEF Exits, Panics
<1> QED
  BY <1>5, <1>6

LEMMA CaughtUpKeeps ==
  ASSUME IInv, CaughtUp \/ WaitBNBCatchUp \/ Stop
  PROVE  IInv'
BY DEF IInv, CaughtUp, WaitBNBCatchUp, Stop, Goto, catchingUp, node, TypeOK, TipIsReported, BatchesAreConsumed, BatchesAreChains, TargetIsAhead

LEMMA PollKeeps ==
  ASSUME IInv, Poll
  PROVE  IInv'
<1>1. /\ TypeOK /\ TipIsReported /\ BatchesAreConsumed /\ BatchesAreChains /\ pc = "poll"
      /\ tip \in Block /\ bnbTip \in Block
  BY DEF IInv, TypeOK, Poll
<1>2. Height(tip) \in Nat /\ Height(bnbTip) \in Nat
  BY <1>1, BlockIsPath DEF Height
<1>3. Delay \in Nat /\ BatchSize \in Nat /\ BatchSize >= 1
  BY BNBAssumption DEF BNBAssumption
<1>4. /\ Delay + Height(tip) + 1 <= Height(bnbTip)
      /\ target' = RelayEnd(bnbTip) /\ pc' = "relay"
      /\ UNCHANGED <<node, lrzTip, tip, catchingUp, exit, faults>>
  BY DEF Poll
<1>5. target' \in Nat /\ Height(tip) < target'
  BY <1>2, <1>3, <1>4 DEF RelayEnd
<1>6. ~producing /\ batches = <<>>
  BY <1>1 DEF BatchesAreConsumed
<1> QED
  BY <1>1, <1>4, <1>5, <1>6
  DEF IInv, TypeOK, TipIsReported, BatchesAreConsumed, BatchesAreChains, TargetIsAhead,
      node, catchingUp

LEMMA RelayKeeps ==
  ASSUME IInv, Relay
  PROVE  IInv'
<1> DEFINE hs == RangeHeaders(Height(tip) + 1, target)
<1>1. /\ TypeOK /\ TipIsReported /\ BatchesAreConsumed /\ BatchesAreChains /\ TargetIsAhead
      /\ pc = "relay" /\ tip \in Block /\ UNCHANGED <<node, faults>>
  BY DEF IInv, TypeOK, Relay
<1>2. ~producing /\ batches = <<>>
  BY <1>1 DEF BatchesAreConsumed
<1>3. pc' \in {"poll", "boostrap"} /\ UNCHANGED <<exit, target, next, producing, batches>>
  BY DEF Relay, Goto, catchingUp
<1>4. BatchesAreConsumed' /\ BatchesAreChains' /\ TargetIsAhead'
  BY <1>1, <1>2, <1>3 DEF BatchesAreConsumed, BatchesAreChains, TargetIsAhead
<1>5. CASE ~RangeFails(target) /\ Extends(hs, tip) /\ Extends(hs, lrzTip)
  <2>1. lrzTip' = Newest(hs) /\ tip' = Newest(hs)
    BY <1>5 DEF Relay, Uploaded
  <2>2. target \in Nat /\ Height(tip) + 1 \in 1..target
    <3>1. target \in Nat /\ Len(tip) \in Nat
      BY <1>1, BlockIsPath DEF TypeOK
    <3>2. Len(tip) < target
      BY <1>1, Zenon DEF TargetIsAhead, Height
    <3> QED
      BY <3>1, <3>2 DEF Height
  <2>3. Newest(hs) \in Block
    BY <1>1, <1>5, <2>2, RangeIsBatch, BatchIsChain DEF TypeOK
  <2> HIDE DEF hs
  <2>4. tip' # NoBlock
    BY <2>1, <2>3, BlockIsPath DEF NoBlock
  <2>5. TipIsReported'
    BY <2>1, <2>3, <2>4, OnChainReflexive DEF TipIsReported
  <2>6. TypeOK'
    BY <1>1, <1>3, <2>1, <2>3, <2>4 DEF TypeOK, node
  <2> QED
    BY <1>4, <2>5, <2>6 DEF IInv
<1>6. CASE ~(~RangeFails(target) /\ Extends(hs, tip) /\ Extends(hs, lrzTip))
  <2>1. UNCHANGED <<tip, lrzTip>>
    BY <1>6 DEF Relay
  <2> QED
    BY <1>1, <1>3, <1>4, <2>1 DEF IInv, TypeOK, TipIsReported, node
<1> QED
  BY <1>5, <1>6

LEMMA BoostrapAgainKeeps ==
  ASSUME IInv, BoostrapAgain
  PROVE  IInv'
BY OnChainReflexive DEF IInv, BoostrapAgain, Goto, catchingUp, node, TypeOK, TipIsReported, BatchesAreConsumed, BatchesAreChains, TargetIsAhead

LEMMA NodeAdvanceKeeps ==
  ASSUME IInv, NEW t \in Block, NodeAdvance(t)
  PROVE  IInv'
<1>1. Buried(t) \subseteq Block
  <2>1. \A h \in 1..(Height(t) - Delay) : h \in 1..Len(t)
    BY BlockIsPath, BNBAssumption DEF BNBAssumption, Height
  <2> QED
    BY <2>1, AncestorIsBlock DEF Buried
<1>2. bnbTip' = t /\ buried' \subseteq Block /\ UNCHANGED <<lrzTip, process, faults>>
  BY <1>1 DEF NodeAdvance, IInv, TypeOK
<1> QED
  BY <1>2
  DEF IInv, TypeOK, TipIsReported, BatchesAreConsumed, BatchesAreChains, TargetIsAhead,
      process, catchingUp

LEMMA BNBRequestFailsKeeps ==
  ASSUME IInv, BNBRequestFails
  PROVE  IInv'
<1>1. /\ TypeOK /\ TipIsReported /\ BatchesAreConsumed /\ BatchesAreChains /\ TargetIsAhead
      /\ UNCHANGED <<node, lrzTip>> /\ faults' \in 0..MaxFaults
  BY BNBAssumption DEF BNBAssumption, IInv, TypeOK, BNBRequestFails, Fault
<1>2. WorldTypeOK'
  BY <1>1 DEF TypeOK, WorldTypeOK, node
<1>3. CASE Exit("requestFailed")
  BY <1>2, <1>3, ExitKeeps DEF Exits
<1>4. CASE pc = "relay" /\ Goto("poll") /\ UNCHANGED tip
  BY <1>1, <1>4
  DEF IInv, TypeOK, TipIsReported, BatchesAreConsumed, BatchesAreChains, TargetIsAhead,
      Goto, catchingUp, node
<1>5. CASE producing /\ producing' = FALSE /\ UNCHANGED <<pc, tip, target, next, batches, exit>>
  <2>1. ~producing' /\ producing' \in BOOLEAN
    BY <1>5, Zenon
  <2> QED
    BY <1>1, <1>5, <2>1, Zenon
    DEF IInv, TypeOK, TipIsReported, BatchesAreConsumed, BatchesAreChains, TargetIsAhead, node
<1> QED
  BY <1>3, <1>4, <1>5 DEF BNBRequestFails

LEMMA LorenzoRequestFailsKeeps ==
  ASSUME IInv, LorenzoRequestFails
  PROVE  IInv'
<1>1. /\ TypeOK /\ TipIsReported /\ BatchesAreConsumed /\ BatchesAreChains /\ TargetIsAhead
      /\ UNCHANGED node /\ faults' \in 0..MaxFaults
  BY BNBAssumption DEF BNBAssumption, IInv, TypeOK, LorenzoRequestFails, Fault
<1>2. ASSUME lrzTip' \in Block \cup {NoBlock} PROVE WorldTypeOK'
  BY <1>1, <1>2 DEF TypeOK, WorldTypeOK, node
<1>3. CASE pc = "start" /\ Exit("requestFailed") /\ UNCHANGED lrzTip
  BY <1>1, <1>2, <1>3, ExitKeeps DEF Exits, TypeOK
<1>4. CASE /\ pc = "consume" /\ batches # <<>>
           /\ lrzTip' \in LorenzoAfterFailure(Head(batches))
           /\ Exit("rejected")
  <2>1. IsBatch(Head(batches))
    <3>1. batches \in Seq(Seq(Block)) /\ Len(batches) >= 1 /\ Len(batches) \in Nat
      BY <1>1, <1>4 DEF TypeOK
    <3> QED
      BY <1>1, <3>1 DEF BatchesAreChains
  <2>2. Newest(Head(batches)) \in Block
    BY <2>1, BatchIsChain
  <2>3. lrzTip' \in Block \cup {NoBlock}
    BY <1>1, <1>4, <2>2 DEF LorenzoAfterFailure, TypeOK
  <2> QED
    BY <1>2, <1>4, <2>3, ExitKeeps DEF Exits, Panics
<1>5. CASE /\ pc = "relay" /\ ~RangeFails(target)
           /\ UploadFails(RangeHeaders(Height(tip) + 1, target))
           /\ Goto("boostrap")
  <2> DEFINE hs == RangeHeaders(Height(tip) + 1, target)
  <2>1. tip \in Block /\ lrzTip \in Block /\ OnChain(tip, lrzTip)
    BY <1>1, <1>5 DEF TypeOK, TipIsReported
  <2>2. target \in Nat /\ Height(tip) + 1 \in 1..target
    <3>1. target \in Nat /\ Len(tip) \in Nat
      BY <1>1, <1>5, <2>1, BlockIsPath DEF TypeOK
    <3>2. Len(tip) < target
      BY <1>1, <1>5, <2>1, Zenon DEF TargetIsAhead, Height
    <3> QED
      BY <3>1, <3>2 DEF Height
  <2>3. IsBatch(hs) /\ Newest(hs) \in Block
    BY <1>1, <1>5, <2>2, RangeIsBatch, BatchIsChain DEF TypeOK
  <2>4. /\ lrzTip' = lrzTip \/ (Extends(hs, tip) /\ lrzTip' = Newest(hs))
        /\ UNCHANGED <<tip, target, exit, next, producing, batches>> /\ pc' = "boostrap"
    BY <1>5 DEF UploadFails, LorenzoAfterFailure, Goto, catchingUp
  <2> HIDE DEF hs
  <2>5. lrzTip' \in Block /\ OnChain(tip, lrzTip')
    BY <2>1, <2>3, <2>4, ExtendsGrows
  <2>6. lrzTip' # NoBlock
    BY <2>5, BlockIsPath DEF NoBlock
  <2> QED
    BY <1>1, <1>5, <2>1, <2>4, <2>5, <2>6
    DEF IInv, TypeOK, TipIsReported, BatchesAreConsumed, BatchesAreChains, TargetIsAhead, node
<1>6. CASE pc = "boostrap" /\ Goto("poll") /\ UNCHANGED <<tip, lrzTip>>
  BY <1>1, <1>6
  DEF IInv, TypeOK, TipIsReported, BatchesAreConsumed, BatchesAreChains, TargetIsAhead,
      Goto, catchingUp, node
<1> QED
  BY <1>3, <1>4, <1>5, <1>6 DEF LorenzoRequestFails

LEMMA RivalUploadKeeps ==
  ASSUME IInv, NEW t \in Block, RivalUpload(t)
  PROVE  IInv'
<1>1. TypeOK /\ TipIsReported /\ faults' \in 0..MaxFaults
  BY BNBAssumption DEF BNBAssumption, IInv, TypeOK, RivalUpload, Fault
<1>2. lrzTip # NoBlock /\ OnChain(lrzTip, t) /\ lrzTip' = t /\ UNCHANGED <<node, process>>
  BY DEF RivalUpload
<1>3. t # NoBlock
  BY BlockIsPath DEF NoBlock
<1>4. TipIsReported'
  BY <1>1, <1>2, <1>3, OnChainTransitive DEF TipIsReported, TypeOK, process
<1> QED
  BY <1>1, <1>2, <1>4
  DEF IInv, TypeOK, BatchesAreConsumed, BatchesAreChains, TargetIsAhead, node, process, catchingUp

LEMMA CrashKeeps ==
  ASSUME IInv, Crash
  PROVE  IInv'
<1>1. WorldTypeOK'
  BY BNBAssumption DEF BNBAssumption, IInv, TypeOK, Crash, Fault, WorldTypeOK, node
<1> QED
  BY <1>1, ExitKeeps DEF Crash, Exits

LEMMA RestartKeeps ==
  ASSUME IInv, Restart
  PROVE  IInv'
<1>1. /\ TypeOK /\ BatchesAreConsumed /\ BatchesAreChains /\ faults' \in 0..MaxFaults
  BY BNBAssumption DEF BNBAssumption, IInv, TypeOK, Restart, Fault
<1>2. /\ pc \in {"down", "stopped"} /\ pc' = "start" /\ tip' = NoBlock /\ target' = 0
      /\ UNCHANGED <<node, lrzTip, catchingUp, exit>>
  BY DEF Restart
<1>3. ~producing /\ batches = <<>>
  BY <1>1, <1>2 DEF BatchesAreConsumed
<1> QED
  BY <1>1, <1>2, <1>3
  DEF IInv, TypeOK, TipIsReported, BatchesAreConsumed, BatchesAreChains, TargetIsAhead,
      node, catchingUp

LEMMA NextKeeps ==
  ASSUME IInv, [Next]_vars
  PROVE  IInv'
<1>1. CASE Main
  BY <1>1, BoostrapKeeps, UploadBaseHeaderKeeps, AlreadyCloseKeeps, BeginCatchUpKeeps,
     ConsumeKeeps, CaughtUpKeeps, PollKeeps, RelayKeeps, BoostrapAgainKeeps
  DEF Main
<1>2. CASE Produce \/ Stop
  BY <1>2, ProduceKeeps, CaughtUpKeeps
<1>3. CASE Environment
  BY <1>3, NodeAdvanceKeeps, BNBRequestFailsKeeps, LorenzoRequestFailsKeeps, RivalUploadKeeps,
     CrashKeeps, RestartKeeps
  DEF Environment
<1>4. CASE UNCHANGED vars
  BY <1>4
  DEF vars, IInv, TypeOK, TipIsReported, BatchesAreConsumed, BatchesAreChains, TargetIsAhead
<1> QED
  BY <1>1, <1>2, <1>3, <1>4 DEF Next

LEMMA InitIsOK ==
  ASSUME Init
  PROVE  IInv
<1>1. /\ bnbTip \in Block /\ lrzTip \in Block \cup {NoBlock} /\ buried = Buried(bnbTip)
      /\ pc = "start" /\ tip = NoBlock /\ target = 0 /\ next = 0 /\ batches = <<>>
      /\ exit = "running" /\ faults = 0
  BY BNBAssumption DEF BNBAssumption, Init
<1>2. ~producing /\ producing \in BOOLEAN
  BY Zenon DEF Init
<1>3. buried \subseteq Block
  <2>1. \A h \in 1..(Height(bnbTip) - Delay) : h \in 1..Len(bnbTip)
    BY <1>1, BlockIsPath, BNBAssumption DEF BNBAssumption, Height
  <2> QED
    BY <1>1, <2>1, AncestorIsBlock DEF Buried
<1>4. 0 \in 0..MaxFaults /\ ChannelCapacity \in Nat
  BY BNBAssumption DEF BNBAssumption
<1>5. batches \in Seq(Seq(Block)) /\ Len(batches) = 0 /\ Len(batches) <= ChannelCapacity + 1
  BY <1>1, <1>4
<1>6. TypeOK
  BY <1>1, <1>2, <1>3, <1>4, <1>5 DEF TypeOK
<1> QED
  BY <1>1, <1>2, <1>5, <1>6
  DEF IInv, TipIsReported, BatchesAreConsumed, BatchesAreChains, TargetIsAhead

LEMMA AlwaysIInv == Spec => []IInv
<1>1. Init => IInv
  BY InitIsOK
<1>2. IInv /\ [Next]_vars => IInv'
  BY NextKeeps
<1> QED
  BY <1>1, <1>2, PTL DEF Spec

(***************************************************************************)
(* Types, the channel's bound, and that a process past boostrap has a last *)
(* uploaded header: also after it replaced it with what Lorenzo has.       *)
(***************************************************************************)
THEOREM TypeCorrect == Spec => []TypeOK
<1>1. IInv => TypeOK
  BY DEF IInv
<1> QED
  BY <1>1, AlwaysIInv, PTL

(***************************************************************************)
(* lorenzoTip is a header Lorenzo has, whatever uploads failed, timed out  *)
(* after they were applied, or were overtaken, and whatever the node does  *)
(* (bnbrepoter.go 24, block_handler.go 49-59).                             *)
(***************************************************************************)
THEOREM TipAlwaysReported == Spec => []TipIsReported
<1>1. IInv => TipIsReported
  BY DEF IInv
<1> QED
  BY <1>1, AlwaysIInv, PTL

-----------------------------------------------------------------------------
(***************************************************************************)
(* Where the batches begin and end: each behind the one before it, the     *)
(* first behind lorenzoTip, whatever the node does meanwhile.  While       *)
(* nothing has failed, what Lorenzo has is what the reporter gave it.      *)
(***************************************************************************)
EndOf(t, list, i) == IF i = 0 THEN Height(t) ELSE Height(Newest(list[i]))

Contiguous ==
  pc = "consume" =>
    /\ \A i \in 1..Len(batches) : Height(batches[i][1]) = EndOf(tip, batches, i - 1) + 1
    /\ producing => next = EndOf(tip, batches, Len(batches)) + 1

Alone == faults = 0 /\ tip # NoBlock => tip = lrzTip

LEMMA ProduceIsContiguous ==
  ASSUME IInv, Contiguous, Produce
  PROVE  Contiguous'
<1>1. /\ TypeOK /\ pc = "consume" /\ next \in 1..target /\ producing
      /\ UNCHANGED <<node, lrzTip, pc, tip, target, exit, faults>>
  BY DEF IInv, BatchesAreConsumed, TargetIsAhead, Produce
<1>2. /\ target \in Nat /\ next \in Nat /\ BatchSize \in Nat /\ BatchSize >= 1
      /\ batches \in Seq(Seq(Block)) /\ Len(batches) \in Nat
  BY <1>1, BNBAssumption DEF BNBAssumption, TypeOK
<1>3. /\ \A i \in 1..Len(batches) : Height(batches[i][1]) = EndOf(tip, batches, i - 1) + 1
      /\ next = EndOf(tip, batches, Len(batches)) + 1
  BY <1>1 DEF Contiguous
<1>4. CASE RangeFails(BatchEnd)
  BY <1>1, <1>3, <1>4 DEF Produce, Contiguous, EndOf
<1>5. CASE ~RangeFails(BatchEnd)
  <2> DEFINE hs == RangeHeaders(next, BatchEnd)
             n == Len(batches)
  <2>1. /\ batches' = Append(batches, hs) /\ next' = next + BatchSize
        /\ producing' = ~(next + BatchSize > target)
    BY <1>5 DEF Produce, LastBatch
  <2>2. BatchEnd \in Nat /\ next \in 1..BatchEnd
    BY <1>1, <1>2 DEF BatchEnd
  <2>3. hs \in Seq(Block) /\ Height(hs[1]) = next /\ Height(Newest(hs)) = BatchEnd
    BY <1>1, <1>5, <2>2, RangeIsBatch, BatchIsChain DEF TypeOK
  <2> HIDE DEF hs
  <2>4. /\ Len(batches') = n + 1
        /\ \A i \in 1..n : batches'[i] = batches[i]
        /\ batches'[n + 1] = hs
    BY <1>2, <2>1, <2>3
  <2>5. \A i \in 0..n : EndOf(tip', batches', i) = EndOf(tip, batches, i)
    BY <1>1, <1>2, <2>4 DEF EndOf
  <2>6. ASSUME NEW i \in 1..Len(batches')
        PROVE  Height(batches'[i][1]) = EndOf(tip', batches', i - 1) + 1
    <3>1. CASE i \in 1..n
      <4>1. batches'[i] = batches[i] /\ i - 1 \in 0..n
        BY <1>2, <2>4, <3>1
      <4>2. EndOf(tip', batches', i - 1) = EndOf(tip, batches, i - 1)
        BY <2>5, <4>1
      <4> QED
        BY <1>3, <3>1, <4>1, <4>2
    <3>2. CASE i = n + 1
      BY <1>2, <1>3, <2>3, <2>4, <2>5, <3>2
    <3> QED
      BY <1>2, <2>4, <3>1, <3>2
  <2>7. EndOf(tip', batches', Len(batches')) = BatchEnd
    BY <1>2, <2>3, <2>4 DEF EndOf
  <2>8. ASSUME producing'
        PROVE  next' = EndOf(tip', batches', Len(batches')) + 1
    <3>1. ~(next + BatchSize > target)
      BY <2>1, <2>8, Zenon
    <3> QED
      BY <1>2, <2>1, <2>7, <3>1 DEF BatchEnd
  <2> QED
    BY <2>6, <2>8 DEF Contiguous
<1> QED
  BY <1>4, <1>5

LEMMA ConsumeIsContiguous ==
  ASSUME IInv, Contiguous, Consume
  PROVE  Contiguous'
<1>1. TypeOK /\ pc = "consume" /\ batches # <<>>
  BY DEF IInv, Consume
<1>2. CASE pc' # "consume"
  BY <1>2 DEF Contiguous
<1>3. CASE pc' = "consume"
  <2>1. /\ tip' = Newest(Head(batches)) /\ batches' = Tail(batches)
        /\ UNCHANGED <<next, producing>>
    BY <1>3 DEF Consume, Uploaded, Exit
  <2>2. batches \in Seq(Seq(Block)) /\ Len(batches) \in Nat /\ Len(batches) >= 1
    BY <1>1 DEF TypeOK
  <2>3. /\ Len(batches') = Len(batches) - 1
        /\ \A i \in 1..Len(batches') : batches'[i] = batches[i + 1]
        /\ tip' = Newest(batches[1])
    BY <2>1, <2>2
  <2>4. \A i \in 0..Len(batches') : EndOf(tip', batches', i) = EndOf(tip, batches, i + 1)
    BY <2>2, <2>3 DEF EndOf
  <2>5. ASSUME NEW i \in 1..Len(batches')
        PROVE  Height(batches'[i][1]) = EndOf(tip', batches', i - 1) + 1
    <3>1. /\ i + 1 \in 1..Len(batches) /\ batches'[i] = batches[i + 1]
          /\ EndOf(tip', batches', i - 1) = EndOf(tip, batches, i) /\ i + 1 - 1 = i
      BY <2>2, <2>3, <2>4
    <3>2. Height(batches[i + 1][1]) = EndOf(tip, batches, i + 1 - 1) + 1
      BY <1>1, <3>1 DEF Contiguous
    <3> QED
      BY <3>1, <3>2
  <2>6. EndOf(tip', batches', Len(batches')) = EndOf(tip, batches, Len(batches))
    BY <2>2, <2>3, <2>4
  <2>7. producing' => next' = EndOf(tip', batches', Len(batches')) + 1
    BY <1>1, <2>1, <2>6 DEF Contiguous
  <2> QED
    BY <2>5, <2>7 DEF Contiguous
<1> QED
  BY <1>2, <1>3

LEMMA NextIsContiguous ==
  ASSUME IInv, Contiguous, [Next]_vars
  PROVE  Contiguous'
<1>1. CASE pc' # "consume"
  BY <1>1 DEF Contiguous
<1>2. CASE BeginCatchUp
  BY <1>2 DEF BeginCatchUp, Contiguous, EndOf
<1>3. CASE Produce
  BY <1>3, ProduceIsContiguous
<1>4. CASE Consume
  BY <1>4, ConsumeIsContiguous
<1>5. CASE BNBRequestFails /\ pc' = "consume"
  BY <1>5 DEF BNBRequestFails, Exit, Goto, Contiguous, EndOf
<1>6. CASE UNCHANGED <<pc, tip, next, producing, batches>>
  BY <1>6 DEF Contiguous, EndOf
<1> QED
  BY <1>1, <1>2, <1>3, <1>4, <1>5, <1>6
  DEF Next, Main, Environment, vars, Boostrap, UploadBaseHeader, AlreadyClose, CaughtUp,
      WaitBNBCatchUp, Poll, Relay, BoostrapAgain, Stop, NodeAdvance, LorenzoRequestFails,
      RivalUpload, Crash, Restart, Goto, Exit, process, catchingUp

LEMMA NextIsAlone ==
  ASSUME IInv, Alone, [Next]_vars
  PROVE  Alone'
<1>1. faults \in Nat
  BY BNBAssumption DEF IInv, TypeOK, BNBAssumption
<1>2. CASE faults' = faults + 1
  BY <1>1, <1>2 DEF Alone
<1>3. CASE tip' = NoBlock \/ tip' = lrzTip'
  BY <1>3 DEF Alone
<1>4. CASE UNCHANGED <<faults, tip, lrzTip>>
  BY <1>4 DEF Alone
<1> QED
  BY <1>2, <1>3, <1>4
  DEF Next, Main, Environment, vars, Boostrap, UploadBaseHeader, AlreadyClose, BeginCatchUp,
      Produce, Consume, CaughtUp, WaitBNBCatchUp, Poll, Relay, BoostrapAgain, Stop, NodeAdvance,
      BNBRequestFails, LorenzoRequestFails, RivalUpload, Crash, Restart, Goto, Exit, Uploaded,
      Fault, process, catchingUp

LEMMA AlwaysContiguous == Spec => [](IInv /\ Contiguous /\ Alone)
<1>1. Init => IInv /\ Contiguous /\ Alone
  BY InitIsOK DEF Init, Contiguous, Alone
<1>2. IInv /\ Contiguous /\ Alone /\ [Next]_vars => (IInv /\ Contiguous /\ Alone)'
  BY NextKeeps, NextIsContiguous, NextIsAlone
<1> QED
  BY <1>1, <1>2, PTL DEF Spec

\* The first batch extends lorenzoTip unless the node left one of the two.
LEMMA FirstBatchExtends ==
  ASSUME IInv, Contiguous, pc = "consume", batches # <<>>,
         OnChain(tip, bnbTip), OnChain(Newest(Head(batches)), bnbTip)
  PROVE  Extends(Head(batches), tip)
<1> DEFINE hs == Head(batches)
           n  == Newest(hs)
           lo == Height(hs[1])
<1>1. /\ TypeOK /\ BatchesAreChains /\ tip \in Block /\ bnbTip \in Block
      /\ batches \in Seq(Seq(Block)) /\ Len(batches) \in Nat /\ Len(batches) >= 1
  BY DEF IInv, TypeOK
<1>2. hs = batches[1] /\ IsBatch(hs)
  BY <1>1 DEF BatchesAreChains
<1>3. lo = Height(tip) + 1
  BY <1>1, <1>2 DEF Contiguous, EndOf
<1> HIDE DEF hs
<1>4. n \in Block /\ lo \in 1..Len(n) /\ hs[1] = AncestorAt(n, lo + 1 - 1)
  BY <1>2, BatchIsChain DEF Height
<1>5. Len(tip) \in Nat /\ Len(tip) >= 1 /\ Len(bnbTip) \in Nat
  BY <1>1, BlockIsPath
<1>6. n = AncestorAt(bnbTip, Len(n)) /\ Len(n) \in 1..Len(bnbTip) /\ tip = AncestorAt(bnbTip, Len(tip))
  BY <1>1, <1>4, OnChainIsAncestor DEF hs
<1> HIDE DEF n, lo
<1>7. lo + 1 - 1 = lo /\ lo = Len(tip) + 1 /\ lo \in 2..Len(bnbTip) /\ lo - 1 = Len(tip)
  BY <1>3, <1>4, <1>5, <1>6 DEF Height
<1>8. hs[1] = AncestorAt(bnbTip, lo)
  BY <1>1, <1>4, <1>6, <1>7, AncestorOfAncestor
<1> QED
  BY <1>1, <1>6, <1>7, <1>8, ParentOfAncestor DEF Extends, hs

(***************************************************************************)
(* While nothing failed, a batch is refused only when the node left it, or *)
(* left what Lorenzo has: no batch begins anywhere but behind the one      *)
(* before it (bootstrap.go 112-141).                                       *)
(***************************************************************************)
THEOREM CatchUpNeverRejected == Spec => CatchUpIsNotRejected
<1> DEFINE Cause == ~OnChain(lrzTip, bnbTip) \/ ~OnChain(Newest(Head(batches)), bnbTip)
           Refused == exit' = "rejected" /\ exit # "rejected" /\ faults' = 0
<1>1. IInv /\ Contiguous /\ Alone /\ [Next]_vars => [Refused => Cause]_vars
  <2> SUFFICES ASSUME IInv, Contiguous, Alone, [Next]_vars, Refused
               PROVE  Cause
    OBVIOUS
  <2>1. faults \in Nat /\ TypeOK
    BY BNBAssumption DEF IInv, TypeOK, BNBAssumption
  <2>2. ~Fault("lorenzo")
    BY <2>1 DEF Fault
  <2>3. Consume
    BY <2>2
    DEF Next, Main, Environment, vars, Boostrap, UploadBaseHeader, AlreadyClose, BeginCatchUp,
        Produce, CaughtUp, WaitBNBCatchUp, Poll, Relay, BoostrapAgain, Stop, NodeAdvance,
        BNBRequestFails, LorenzoRequestFails, RivalUpload, Crash, Restart, Goto, Exit, process,
        catchingUp
  <2>4. /\ pc = "consume" /\ batches # <<>> /\ faults = 0
        /\ ~(Extends(Head(batches), tip) /\ Extends(Head(batches), lrzTip))
    BY <2>3 DEF Consume
  <2>5. tip = lrzTip
    BY <2>1, <2>4 DEF TypeOK, Alone
  <2> QED
    BY <2>4, <2>5, FirstBatchExtends
<1> QED
  BY <1>1, AlwaysContiguous, PTL DEF Spec, CatchUpIsNotRejected

-----------------------------------------------------------------------------
(***************************************************************************)
(* What follows is about Delay, and holds as long as the node's best chain *)
(* does not become lower: RangeHeaders asks for heights that were Delay    *)
(* deep when the process last looked.  It is assumed that heavier chains   *)
(* are not lower, as they are when every block adds the same work.         *)
(***************************************************************************)
TargetIsBuried == pc \in {"consume", "relay"} => target + Delay <= Height(bnbTip)
BuriedIsClosed ==
  /\ Buried(bnbTip) \subseteq buried
  /\ \A b \in buried : \A h \in 1..Height(b) : AncestorAt(b, h) \in buried
BatchesAreBuried == \A i \in 1..Len(batches) : Newest(batches[i]) \in buried

BuriedInv == TargetIsBuried /\ BuriedIsClosed /\ BatchesAreBuried

\* The blocks Delay deep in a chain are closed under taking ancestors.
LEMMA BuriedIsPrefixClosed ==
  ASSUME NEW t \in Block, NEW b \in Buried(t), NEW h \in 1..Height(b)
  PROVE  AncestorAt(b, h) \in Buried(t)
<1>1. Delay \in Nat /\ Len(t) \in Nat
  BY BlockIsPath, BNBAssumption DEF BNBAssumption
<1>2. PICK g \in 1..(Len(t) - Delay) : b = AncestorAt(t, g)
  BY DEF Buried, Height
<1>3. g \in 1..Len(t) /\ Len(b) = g
  BY <1>1, <1>2, AncestorIsBlock
<1>4. h \in 1..g /\ h \in 1..(Len(t) - Delay)
  BY <1>1, <1>2, <1>3 DEF Height
<1>5. AncestorAt(b, h) = AncestorAt(t, h)
  BY <1>2, <1>3, <1>4, AncestorOfAncestor
<1> QED
  BY <1>4, <1>5 DEF Buried, Height

\* A block of the node's chain up to the target is Delay deep.
LEMMA UpToTargetIsBuried ==
  ASSUME IInv, BuriedInv, pc \in {"consume", "relay"}, NEW h \in 1..target
  PROVE  AncestorAt(bnbTip, h) \in buried /\ ~RangeFails(h)
<1>1. Height(bnbTip) \in Nat /\ target \in Nat /\ Delay \in Nat
  BY BlockIsPath, BNBAssumption DEF IInv, TypeOK, BNBAssumption, Height
<1>2. target + Delay <= Height(bnbTip)
  BY DEF BuriedInv, TargetIsBuried
<1>3. h \in 1..(Height(bnbTip) - Delay) /\ h <= Height(bnbTip)
  BY <1>1, <1>2
<1>4. AncestorAt(bnbTip, h) \in Buried(bnbTip)
  BY <1>3 DEF Buried
<1> QED
  BY <1>1, <1>3, <1>4 DEF BuriedInv, BuriedIsClosed, RangeFails

LEMMA NodeAdvanceIsBuried ==
  ASSUME HeavierIsHigher, IInv, BuriedInv, NEW t \in Block, NodeAdvance(t)
  PROVE  BuriedInv'
<1>1. /\ ChainWork[t] > ChainWork[bnbTip] /\ bnbTip' = t /\ buried' = buried \cup Buried(t)
      /\ UNCHANGED <<pc, target, batches>> /\ bnbTip \in Block /\ target \in Nat
  BY DEF NodeAdvance, process, catchingUp, IInv, TypeOK
<1>2. /\ Height(t) >= Height(bnbTip) /\ Height(t) \in Nat /\ Height(bnbTip) \in Nat
      /\ Delay \in Nat
  BY <1>1, BlockIsPath, BNBAssumption DEF HeavierIsHigher, BNBAssumption, Height
<1>3. TargetIsBuried'
  BY <1>1, <1>2 DEF BuriedInv, TargetIsBuried
<1>4. BuriedIsClosed'
  BY <1>1, BuriedIsPrefixClosed DEF BuriedInv, BuriedIsClosed
<1>5. BatchesAreBuried'
  BY <1>1 DEF BuriedInv, BatchesAreBuried
<1> QED
  BY <1>3, <1>4, <1>5 DEF BuriedInv

LEMMA ProduceIsBuried ==
  ASSUME IInv, BuriedInv, Produce
  PROVE  BatchesAreBuried'
<1>1. /\ TypeOK /\ pc = "consume" /\ next \in 1..target
      /\ UNCHANGED <<node, lrzTip, pc, tip, target, exit, faults>>
  BY DEF IInv, BatchesAreConsumed, TargetIsAhead, Produce
<1>2. /\ target \in Nat /\ BatchSize \in Nat /\ BatchSize >= 1
      /\ batches \in Seq(Seq(Block)) /\ Len(batches) \in Nat
  BY <1>1, BNBAssumption DEF BNBAssumption, TypeOK
<1>3. BatchEnd \in 1..target /\ BatchEnd \in Nat /\ next \in 1..BatchEnd
  BY <1>1, <1>2 DEF BatchEnd
<1>4. AncestorAt(bnbTip, BatchEnd) \in buried /\ ~RangeFails(BatchEnd)
  BY <1>1, <1>3, UpToTargetIsBuried
<1> DEFINE hs == RangeHeaders(next, BatchEnd)
<1>5. batches' = Append(batches, hs) /\ hs \in Seq(Block) /\ Newest(hs) \in buried
  BY <1>1, <1>3, <1>4, RangeIsBatch, BatchIsChain DEF Produce, TypeOK
<1> HIDE DEF hs
<1>6. /\ Len(batches') = Len(batches) + 1 /\ batches'[Len(batches) + 1] = hs
      /\ \A i \in 1..Len(batches) : batches'[i] = batches[i]
  BY <1>2, <1>5
<1>7. buried' = buried
  BY <1>1 DEF node
<1> QED
  BY <1>2, <1>5, <1>6, <1>7 DEF BuriedInv, BatchesAreBuried

LEMMA ConsumeIsBuried ==
  ASSUME IInv, BuriedInv, Consume
  PROVE  BatchesAreBuried'
<1>1. batches \in Seq(Seq(Block)) /\ Len(batches) \in Nat /\ Len(batches) >= 1 /\ buried' = buried
  BY DEF IInv, TypeOK, Consume, node
<1>2. CASE batches' = <<>>
  BY <1>2 DEF BatchesAreBuried
<1>3. CASE batches' = Tail(batches)
  <2>1. /\ Len(batches') = Len(batches) - 1
        /\ \A i \in 1..Len(batches') : batches'[i] = batches[i + 1]
    BY <1>1, <1>3
  <2> QED
    BY <1>1, <2>1 DEF BuriedInv, BatchesAreBuried
<1> QED
  BY <1>2, <1>3 DEF Consume, Exit

LEMMA PollIsBuried ==
  ASSUME IInv, Poll
  PROVE  TargetIsBuried'
<1>1. tip \in Block /\ bnbTip \in Block
  BY DEF IInv, TypeOK, Poll
<1>2. /\ Height(tip) \in Nat /\ Height(bnbTip) \in Nat
      /\ Delay \in Nat /\ BatchSize \in Nat
  BY <1>1, BlockIsPath, BNBAssumption DEF BNBAssumption, Height
<1>3. target' + Delay <= Height(bnbTip) /\ bnbTip' = bnbTip
  BY <1>2 DEF Poll, RelayEnd, node
<1> QED
  BY <1>3 DEF TargetIsBuried

LEMMA BeginCatchUpIsBuried ==
  ASSUME IInv, BeginCatchUp
  PROVE  TargetIsBuried'
<1>1. bnbTip \in Block
  BY DEF IInv, TypeOK
<1>2. Height(bnbTip) \in Nat /\ Delay \in Nat
  BY <1>1, BlockIsPath, BNBAssumption DEF BNBAssumption, Height
<1>3. target' + Delay <= Height(bnbTip) /\ bnbTip' = bnbTip
  BY <1>2 DEF BeginCatchUp, CatchUpTarget, node
<1> QED
  BY <1>3 DEF TargetIsBuried

LEMMA NextIsBuried ==
  ASSUME HeavierIsHigher, IInv, BuriedInv, [Next]_vars
  PROVE  BuriedInv'
<1>1. CASE \E t \in Block : NodeAdvance(t)
  BY <1>1, NodeAdvanceIsBuried
<1>2. CASE UNCHANGED node
  <2>1. BuriedIsClosed'
    BY <1>2 DEF BuriedInv, BuriedIsClosed, node, Buried
  <2>2. TargetIsBuried'
    <3>1. CASE Poll
      BY <3>1, PollIsBuried
    <3>2. CASE BeginCatchUp
      BY <3>2, BeginCatchUpIsBuried
    <3>3. CASE pc' \notin {"consume", "relay"} \/ UNCHANGED <<pc, target>>
      BY <1>2, <3>3 DEF BuriedInv, TargetIsBuried, node
    <3> QED
      BY <1>1, <3>1, <3>2, <3>3
      DEF Next, Main, Environment, vars, Boostrap, UploadBaseHeader, AlreadyClose,
          Produce, Consume, CaughtUp, WaitBNBCatchUp, Relay, BoostrapAgain, Stop,
          BNBRequestFails, LorenzoRequestFails, RivalUpload, Crash, Restart, Goto, Exit,
          process, catchingUp, NodeAdvance
  <2>3. BatchesAreBuried'
    <3>1. CASE Produce
      BY <3>1, ProduceIsBuried
    <3>2. CASE Consume
      BY <3>2, ConsumeIsBuried
    <3>3. CASE batches' \in {<<>>, batches}
      BY <1>2, <3>3 DEF BuriedInv, BatchesAreBuried, node
    <3> QED
      BY <1>1, <3>1, <3>2, <3>3
      DEF Next, Main, Environment, vars, Boostrap, UploadBaseHeader, AlreadyClose, BeginCatchUp,
          CaughtUp, WaitBNBCatchUp, Poll, Relay, BoostrapAgain, Stop,
          BNBRequestFails, LorenzoRequestFails, RivalUpload, Crash, Restart, Goto, Exit,
          process, catchingUp, NodeAdvance
  <2> QED
    BY <2>1, <2>2, <2>3 DEF BuriedInv
<1> QED
  BY <1>1, <1>2
  DEF Next, Main, Environment, vars, node, Boostrap, UploadBaseHeader, AlreadyClose, BeginCatchUp,
      Produce, Consume, CaughtUp, WaitBNBCatchUp, Poll, Relay, BoostrapAgain, Stop,
      BNBRequestFails, LorenzoRequestFails, RivalUpload, Crash, Restart

LEMMA InitIsBuried ==
  ASSUME Init
  PROVE  BuriedInv
<1>1. bnbTip \in Block /\ buried = Buried(bnbTip) /\ batches = <<>> /\ pc = "start"
  BY BNBAssumption DEF BNBAssumption, Init
<1> QED
  BY <1>1, BuriedIsPrefixClosed DEF BuriedInv, TargetIsBuried, BuriedIsClosed, BatchesAreBuried

(***************************************************************************)
(* What a step may do to Lorenzo's chain: begin it with the base header,   *)
(* or let it grow to a block that was Delay deep.                          *)
(***************************************************************************)
GrowsToBuried ==
  /\ lrzTip \in Block /\ lrzTip' \in Block /\ lrzTip' \in buried
  /\ OnChain(lrzTip, lrzTip') /\ lrzTip # lrzTip'

\* A batch that Lorenzo accepts lets its chain grow to a block that was Delay deep.
LEMMA AcceptedIsBuried ==
  ASSUME IInv, NEW hs, IsBatch(hs), Newest(hs) \in buried, tip # NoBlock,
         Extends(hs, tip), Extends(hs, lrzTip), lrzTip' = Newest(hs)
  PROVE  GrowsToBuried
<1>1. lrzTip \in Block
  BY DEF IInv, TypeOK, TipIsReported
<1>2. Newest(hs) \in Block
  BY BatchIsChain
<1> QED
  BY <1>1, <1>2, ExtendsGrows DEF GrowsToBuried

LEMMA HeadIsBuried ==
  ASSUME IInv, BuriedInv, pc = "consume", batches # <<>>
  PROVE  IsBatch(Head(batches)) /\ Newest(Head(batches)) \in buried /\ tip # NoBlock
<1>1. batches \in Seq(Seq(Block)) /\ Len(batches) \in Nat /\ Len(batches) >= 1 /\ tip # NoBlock
  BY DEF IInv, TypeOK
<1>2. Head(batches) = batches[1] /\ 1 \in 1..Len(batches)
  BY <1>1
<1> QED
  BY <1>1, <1>2 DEF IInv, BatchesAreChains, BuriedInv, BatchesAreBuried

LEMMA RelayedIsBuried ==
  ASSUME IInv, BuriedInv, pc = "relay"
  PROVE  LET hs == RangeHeaders(Height(tip) + 1, target)
         IN  IsBatch(hs) /\ Newest(hs) \in buried /\ tip # NoBlock
<1>1. bnbTip \in Block /\ tip \in Block /\ tip # NoBlock /\ target \in Nat
  BY DEF IInv, TypeOK
<1>2. Height(tip) \in Nat /\ Height(tip) < target
  <2>1. Height(tip) < target
    BY Zenon DEF IInv, TargetIsAhead
  <2> QED
    BY <1>1, <2>1, BlockIsPath DEF Height
<1>3. target \in 1..target /\ Height(tip) + 1 \in 1..target
  BY <1>1, <1>2
<1>4. AncestorAt(bnbTip, target) \in buried /\ ~RangeFails(target)
  BY <1>3, UpToTargetIsBuried
<1> QED
  BY <1>1, <1>3, <1>4, RangeIsBatch

LEMMA UploadsAreBuried ==
  ASSUME IInv, BuriedInv, [Next]_vars
  PROVE  lrzTip' = lrzTip \/ UploadBaseHeader \/ GrowsToBuried
<1>1. CASE Consume
  BY <1>1, HeadIsBuried, AcceptedIsBuried DEF Consume, Uploaded
<1>2. CASE Relay
  BY <1>2, RelayedIsBuried, AcceptedIsBuried DEF Relay, Uploaded
<1>3. CASE LorenzoRequestFails
  BY <1>3, HeadIsBuried, RelayedIsBuried, AcceptedIsBuried
  DEF LorenzoRequestFails, LorenzoAfterFailure, UploadFails
<1>4. CASE \E t \in Block : RivalUpload(t)
  BY <1>4 DEF RivalUpload, GrowsToBuried, IInv, TypeOK
<1> QED
  BY <1>1, <1>2, <1>3, <1>4
  DEF Next, Main, Environment, vars, Boostrap, AlreadyClose, BeginCatchUp, Produce, CaughtUp,
      WaitBNBCatchUp, Poll, BoostrapAgain, Stop, NodeAdvance, BNBRequestFails, Crash, Restart

LEMMA AlwaysBuried ==
  ASSUME HeavierIsHigher
  PROVE  Spec => [](IInv /\ BuriedInv)
<1>1. Init => IInv /\ BuriedInv
  BY InitIsOK, InitIsBuried
<1>2. IInv /\ BuriedInv /\ [Next]_vars => (IInv /\ BuriedInv)'
  BY NextKeeps, NextIsBuried
<1> QED
  BY <1>1, <1>2, PTL DEF Spec

(***************************************************************************)
(* Only headers Delay deep are added to what Lorenzo has above the base    *)
(* header, if what it had when the program started was: across polls,      *)
(* batches fetched before a reorganisation, failed uploads and restarts    *)
(* (bootstrap.go 91-142, block_handler.go 13-63).                          *)
(***************************************************************************)
THEOREM OnlyBuriedAlways ==
  ASSUME HeavierIsHigher
  PROVE  Spec /\ OnlyBuriedHeaders => []OnlyBuriedHeaders
<1>1. IInv /\ BuriedInv /\ [Next]_vars /\ OnlyBuriedHeaders => OnlyBuriedHeaders'
  <2> SUFFICES ASSUME IInv, BuriedInv, [Next]_vars, OnlyBuriedHeaders
               PROVE  OnlyBuriedHeaders'
    OBVIOUS
  <2>1. buried \subseteq buried'
    BY DEF Next, Main, Environment, vars, node, Boostrap, UploadBaseHeader, AlreadyClose,
           BeginCatchUp, Produce, Consume, CaughtUp, WaitBNBCatchUp, Poll, Relay, BoostrapAgain,
           Stop, NodeAdvance, BNBRequestFails, LorenzoRequestFails, RivalUpload, Crash, Restart
  <2>2. BaseHeight \in Nat \ {0} /\ bnbTip \in Block
    BY BNBAssumption DEF BNBAssumption, IInv, TypeOK
  <2>3. CASE lrzTip' = lrzTip
    BY <2>1, <2>3 DEF OnlyBuriedHeaders
  <2>4. CASE UploadBaseHeader
    <3>1. BaseHeight \in 1..Len(bnbTip) /\ lrzTip' = AncestorAt(bnbTip, BaseHeight)
      BY <2>2, <2>4, BlockIsPath DEF UploadBaseHeader, Height
    <3>2. Height(lrzTip') = BaseHeight
      BY <2>2, <3>1, AncestorIsBlock DEF Height
    <3> QED
      BY <2>2, <3>2 DEF OnlyBuriedHeaders
  <2>5. CASE GrowsToBuried
    <3>1. lrzTip' \in buried /\ Height(lrzTip') \in Nat
      BY <2>5, BlockIsPath DEF GrowsToBuried, Height
    <3>2. \A h \in 1..Height(lrzTip') : AncestorAt(lrzTip', h) \in buried
      BY <3>1 DEF BuriedInv, BuriedIsClosed
    <3>3. \A h \in (BaseHeight + 1)..Height(lrzTip') : h \in 1..Height(lrzTip')
      BY <2>2, <3>1
    <3> QED
      BY <2>1, <3>2, <3>3 DEF OnlyBuriedHeaders
  <2> QED
    BY <2>3, <2>4, <2>5, UploadsAreBuried
<1> QED
  BY <1>1, AlwaysBuried, PTL DEF Spec

-----------------------------------------------------------------------------
(***************************************************************************)
(* The BNB reporter implements HeaderRelay.                                *)
(***************************************************************************)
LEMMA RelaysInit ==
  ASSUME Init
  PROVE  Relays!Init
<1>1. bnbTip \in Block /\ buried = Buried(bnbTip) /\ lrzTip \in Block \cup {NoBlock}
  BY BNBAssumption DEF BNBAssumption, Init
<1> QED
  BY <1>1 DEF Relays!Init, Relays!DeepIn, Relays!AncestorAt, Relays!Height, Buried, AncestorAt,
              Height

LEMMA RelaysNext ==
  ASSUME HeavierIsHigher, IInv, BuriedInv, [Next]_vars
  PROVE  [Relays!Next]_(Relays!vars)
<1>1. bnbTip \in Block
  BY DEF IInv, TypeOK
<1>2. CASE \E t \in Block : NodeAdvance(t)
  BY <1>2
  DEF NodeAdvance, Relays!Next, Relays!SourceAdvances, Relays!DeepIn, Relays!AncestorAt,
      Relays!Height, Buried, AncestorAt, Height
<1>3. CASE UNCHANGED node
  <2>1. CASE lrzTip' = lrzTip
    BY <1>3, <2>1 DEF Relays!vars, node
  <2>2. CASE UploadBaseHeader
    <3>1. BaseHeight \in 1..Len(bnbTip) /\ lrzTip = NoBlock /\ lrzTip' = AncestorAt(bnbTip, BaseHeight)
      BY <1>1, <2>2, BNBAssumption, BlockIsPath DEF BNBAssumption, UploadBaseHeader, Height
    <3>2. lrzTip' \in Block /\ OnChain(lrzTip', bnbTip)
      BY <1>1, <3>1, AncestorIsBlock, AncestorIsOnChain
    <3> QED
      BY <1>3, <3>1, <3>2 DEF Relays!Next, Relays!Begin, Relays!OnChain, OnChain, node
  <2>3. CASE GrowsToBuried
    <3>1. lrzTip # NoBlock
      BY <2>3, BlockIsPath DEF GrowsToBuried, NoBlock
    <3>2. ChainWork[lrzTip'] > ChainWork[lrzTip]
      <4>1. ChainWork[lrzTip] < ChainWork[lrzTip']
        BY <2>3, WorkGrows DEF GrowsToBuried
      <4>2. ChainWork[lrzTip] \in Nat /\ ChainWork[lrzTip'] \in Nat
        BY <2>3, WorkAssumption DEF WorkAssumption, GrowsToBuried
      <4> QED
        BY <4>1, <4>2
    <3> QED
      BY <1>3, <2>3, <3>1, <3>2 DEF Relays!Next, Relays!Relay, GrowsToBuried, node
  <2> QED
    BY <2>1, <2>2, <2>3, UploadsAreBuried
<1> QED
  BY <1>2, <1>3
  DEF Next, Main, Environment, vars, node, Boostrap, UploadBaseHeader, AlreadyClose, BeginCatchUp,
      Produce, Consume, CaughtUp, WaitBNBCatchUp, Poll, Relay, BoostrapAgain, Stop,
      BNBRequestFails, LorenzoRequestFails, RivalUpload, Crash, Restart

(***************************************************************************)
(* Catching up, polling, retries and restarts implement HeaderRelay: each  *)
(* upload, acknowledged or not, moves Lorenzo to a header that had Delay   *)
(* blocks on top, with more work than what it had (bootstrap.go 91-142,    *)
(* block_handler.go 13-63).                                                *)
(***************************************************************************)
THEOREM ImplementsHeaderRelay ==
  ASSUME HeavierIsHigher
  PROVE  Spec => RelaysBuriedHeaders
<1>1. Init => Relays!Init
  BY RelaysInit
<1>2. IInv /\ BuriedInv /\ [Next]_vars => [Relays!Next]_(Relays!vars)
  BY RelaysNext
<1> QED
  BY <1>1, <1>2, AlwaysBuried, PTL DEF Spec, RelaysBuriedHeaders, Relays!Spec

-----------------------------------------------------------------------------
(***************************************************************************)
(* Where a catch-up ends: when the producer is through and nothing failed, *)
(* its last batch ends at the target, or above.                            *)
(***************************************************************************)
Complete ==
  faults = 0 /\ pc = "consume" /\ ~producing => EndOf(tip, batches, Len(batches)) >= target

CatchUpInv == IInv /\ BuriedInv /\ Contiguous /\ Alone /\ Complete

LEMMA ProduceIsComplete ==
  ASSUME CatchUpInv, Produce
  PROVE  Complete'
<1>1. /\ IInv /\ BuriedInv /\ TypeOK /\ pc = "consume" /\ next \in 1..target
      /\ UNCHANGED <<node, lrzTip, pc, tip, target, exit, faults>>
  BY DEF CatchUpInv, IInv, BatchesAreConsumed, TargetIsAhead, Produce
<1>2. /\ target \in Nat /\ next \in Nat /\ BatchSize \in Nat /\ BatchSize >= 1
      /\ batches \in Seq(Seq(Block)) /\ Len(batches) \in Nat
  BY <1>1, BNBAssumption DEF BNBAssumption, TypeOK
<1>3. BatchEnd \in 1..target /\ BatchEnd \in Nat /\ next \in 1..BatchEnd
  BY <1>1, <1>2 DEF BatchEnd
<1>4. ~RangeFails(BatchEnd)
  BY <1>1, <1>3, UpToTargetIsBuried
<1> DEFINE hs == RangeHeaders(next, BatchEnd)
<1>5. /\ batches' = Append(batches, hs) /\ hs \in Seq(Block) /\ Height(Newest(hs)) = BatchEnd
      /\ producing' = ~(next + BatchSize > target)
  BY <1>1, <1>3, <1>4, RangeIsBatch, BatchIsChain DEF Produce, TypeOK, LastBatch
<1> HIDE DEF hs
<1>6. /\ Len(batches') = Len(batches) + 1 /\ batches'[Len(batches) + 1] = hs
  BY <1>2, <1>5
<1>7. EndOf(tip', batches', Len(batches')) = BatchEnd
  BY <1>2, <1>5, <1>6 DEF EndOf
<1>8. ASSUME ~producing'
      PROVE  BatchEnd >= target
  <2>1. next + BatchSize > target
    BY <1>5, <1>8, Zenon
  <2> QED
    BY <1>2, <2>1 DEF BatchEnd
<1> QED
  BY <1>1, <1>7, <1>8 DEF Complete

LEMMA ConsumeIsComplete ==
  ASSUME CatchUpInv, Consume
  PROVE  Complete'
<1>1. TypeOK /\ pc = "consume" /\ batches # <<>> /\ faults' = faults /\ Complete
  BY DEF CatchUpInv, IInv, Consume
<1>2. CASE pc' # "consume"
  BY <1>2 DEF Complete
<1>3. CASE pc' = "consume"
  <2>1. /\ tip' = Newest(Head(batches)) /\ batches' = Tail(batches)
        /\ UNCHANGED <<target, producing>>
    BY <1>3 DEF Consume, Uploaded, Exit
  <2>2. batches \in Seq(Seq(Block)) /\ Len(batches) \in Nat /\ Len(batches) >= 1
    BY <1>1 DEF TypeOK
  <2>3. /\ Len(batches') = Len(batches) - 1
        /\ \A i \in 1..Len(batches') : batches'[i] = batches[i + 1]
        /\ tip' = Newest(batches[1])
    BY <2>1, <2>2
  <2>4. EndOf(tip', batches', Len(batches')) = EndOf(tip, batches, Len(batches))
    <3>1. CASE Len(batches') = 0
      <4>1. Len(batches) = 1
        BY <2>2, <2>3, <3>1
      <4>2. /\ EndOf(tip', batches', 0) = Height(Newest(batches[1]))
            /\ EndOf(tip, batches, 1) = Height(Newest(batches[1]))
        BY <2>3 DEF EndOf
      <4> QED
        BY <3>1, <4>1, <4>2
    <3>2. CASE Len(batches') # 0
      <4>1. Len(batches') \in 1..Len(batches') /\ Len(batches') + 1 = Len(batches)
        BY <2>2, <2>3, <3>2
      <4>2. batches'[Len(batches')] = batches[Len(batches)]
        BY <2>3, <4>1
      <4> QED
        BY <2>2, <3>2, <4>2 DEF EndOf
    <3> QED
      BY <3>1, <3>2
  <2> QED
    BY <1>1, <2>1, <2>4 DEF Complete
<1> QED
  BY <1>2, <1>3

LEMMA NextIsComplete ==
  ASSUME CatchUpInv, [Next]_vars
  PROVE  Complete'
<1>1. faults \in Nat /\ Complete
  BY BNBAssumption DEF CatchUpInv, IInv, TypeOK, BNBAssumption
<1>2. CASE faults' = faults + 1
  BY <1>1, <1>2 DEF Complete
<1>3. CASE Produce
  BY <1>3, ProduceIsComplete
<1>4. CASE Consume
  BY <1>4, ConsumeIsComplete
<1>5. CASE pc' # "consume"
  BY <1>5 DEF Complete
<1>6. CASE BeginCatchUp
  <2>1. producing'
    BY <1>6, Zenon DEF BeginCatchUp
  <2> QED
    BY <2>1 DEF Complete
<1>7. CASE UNCHANGED <<pc, tip, target, producing, batches, faults>>
  BY <1>1, <1>7 DEF Complete
<1> QED
  BY <1>2, <1>3, <1>4, <1>5, <1>6, <1>7
  DEF Next, Main, Environment, vars, Boostrap, UploadBaseHeader, AlreadyClose, CaughtUp,
      WaitBNBCatchUp, Poll, Relay, BoostrapAgain, Stop, NodeAdvance, BNBRequestFails,
      LorenzoRequestFails, RivalUpload, Crash, Restart, Fault, Goto, Exit, process, catchingUp

(***************************************************************************)
(* WaitLorenzoCatchUp does not return before Lorenzo has the header it set *)
(* out for: the channel's close is only seen behind the last batch, and    *)
(* the last batch is not cut short (bootstrap.go 112-142).                 *)
(***************************************************************************)
THEOREM CatchUpAlwaysComplete ==
  ASSUME HeavierIsHigher
  PROVE  Spec => CatchUpIsComplete
<1>1. Init => CatchUpInv
  BY InitIsOK, InitIsBuried DEF Init, CatchUpInv, Contiguous, Alone, Complete
<1>2. CatchUpInv /\ [Next]_vars => CatchUpInv'
  BY NextKeeps, NextIsBuried, NextIsContiguous, NextIsAlone, NextIsComplete DEF CatchUpInv
<1>3. CatchUpInv => (CaughtUp /\ faults = 0 => Height(lrzTip) >= target)
  <2> SUFFICES ASSUME CatchUpInv, CaughtUp, faults = 0
               PROVE  Height(lrzTip) >= target
    OBVIOUS
  <2>1. pc = "consume" /\ batches = <<>> /\ ~producing
    BY DEF CaughtUp
  <2>2. tip # NoBlock
    BY <2>1 DEF CatchUpInv, IInv, TypeOK
  <2>3. tip = lrzTip
    BY <2>2 DEF CatchUpInv, Alone
  <2>4. EndOf(tip, batches, Len(batches)) >= target /\ Len(batches) = 0
    BY <2>1 DEF CatchUpInv, Complete
  <2> QED
    BY <2>3, <2>4 DEF EndOf
<1> QED
  BY <1>1, <1>2, <1>3, PTL DEF Spec, CatchUpIsComplete
=============================================================================
