---------------------------- MODULE CatchUpProofs ----------------------------
(***************************************************************************)
(* The catch-up of Start, for every block tree, batch size, channel        *)
(* capacity and interleaving of its two goroutines.                        *)
(***************************************************************************)
EXTENDS CatchUp, BTCCacheProofs

-----------------------------------------------------------------------------
(***************************************************************************)
(* The inductive invariant.  Until the producer is started there is        *)
(* nothing to be taken; from then on the batches, what the producer holds  *)
(* and its next height continue one another, starting above the newest     *)
(* header that was submitted, which is Lorenzo's tip.                      *)
(***************************************************************************)
LastOf(s) == s[Len(s)]

Stretch(s) == s # <<>> /\ IsChain(s)

Started == caller \in {"select", "process"}

NotStarted ==
  caller \in {"bestBlock", "lorenzoTip"} =>
    producer = "none" /\ ibCh = <<>> /\ lrzTip = begun /\ newTip = NoBlock

Submitting ==
  /\ Started => lrzTip = newTip /\ producer # "none"
  /\ caller = "process" => Stretch(batch) /\ Parent(batch[1]) = newTip

\* The last height that was submitted or is being submitted.
Frontier == IF caller = "process" THEN Height(LastOf(batch)) ELSE Height(newTip)

Producing ==
  /\ producer # "none" => h > Height(begun)
  /\ producer = "fetch" => h < Limit
  /\ producer = "send" =>
       Stretch(held) /\ Height(held[1]) = h /\ Height(LastOf(held)) < h + BatchSize
  /\ over => h >= Limit \/ quit

Waiting ==
  /\ \A i \in 1..Len(ibCh) : Stretch(ibCh[i])
  /\ Started =>
       /\ ibCh # <<>> => Height(ibCh[1][1]) = Frontier + 1
       /\ \A i \in 1..(Len(ibCh) - 1) : Height(ibCh[i + 1][1]) = Height(LastOf(ibCh[i])) + 1
       /\ h = (IF ibCh = <<>> THEN Frontier ELSE Height(LastOf(LastOf(ibCh)))) + 1

\* What waits in the channel is at most BatchSize for every batch.
Backlog ==
  Started =>
    /\ h <= Frontier + Len(ibCh) * BatchSize + 1
    /\ \A i \in 1..Len(ibCh) : h <= Height(LastOf(ibCh[i])) + (Len(ibCh) - i) * BatchSize + 1

CatchUpInv ==
  /\ TypeOK
  /\ NotStarted
  /\ Submitting
  /\ Producing
  /\ Waiting
  /\ Backlog
  /\ ShortfallBounded
  /\ OnlyStopLeavesProducer

LEMMA Constants ==
  /\ K \in Nat /\ BatchSize \in Nat \ {0} /\ ChannelCapacity \in Nat \ {0}
  /\ CloseGap \in Nat /\ ChannelCapacity * BatchSize \in Nat
BY CatchUpAssumption DEF CatchUpAssumption, CloseGap

LEMMA HeightIsNat ==
  ASSUME NEW b \in Block
  PROVE  Height(b) \in Nat /\ Height(b) >= 1 /\ Height(b) = Len(b)
BY BlockIsPath DEF Height

\* The ends of a stretch, and how far apart they are.
LEMMA StretchEnds ==
  ASSUME NEW s \in Seq(Block), Stretch(s)
  PROVE  /\ Len(s) \in Nat /\ Len(s) >= 1 /\ s[1] \in Block /\ LastOf(s) \in Block
         /\ Height(LastOf(s)) = Height(s[1]) + Len(s) - 1
<1> DEFINE n == Len(s)
<1>1. n \in Nat /\ n >= 1 /\ 1 \in 1..n /\ n \in 1..n
  BY DEF Stretch
<1>2. s[1] \in Block /\ LastOf(s) \in Block
  BY <1>1 DEF LastOf
<1>3. Height(s[1]) = Height(LastOf(s)) - (n - 1)
  BY <1>1, ChainHeights DEF Stretch, LastOf
<1>4. Height(s[1]) \in Nat /\ Height(LastOf(s)) \in Nat
  BY <1>2, HeightIsNat
<1> QED
  BY <1>1, <1>2, <1>3, <1>4

\* The blocks of the batches.
LEMMA TypesOfBatches ==
  ASSUME TypeOK
  PROVE  /\ batch \in Seq(Block) /\ held \in Seq(Block) /\ ibCh \in Seq(Seq(Block))
         /\ \A i \in 1..Len(ibCh) : ibCh[i] \in Seq(Block)
         /\ Len(ibCh) \in Nat
BY DEF TypeOK, Batch

\* The channel without its first batch.
LEMMA TailOfChannel ==
  ASSUME NEW s \in Seq(Batch), s # <<>>
  PROVE  /\ Tail(s) \in Seq(Batch) /\ Len(s) \in Nat /\ Len(s) >= 1 /\ Len(Tail(s)) = Len(s) - 1
         /\ \A i \in 1..(Len(s) - 1) : Tail(s)[i] = s[i + 1] /\ i + 1 \in 1..Len(s)
         /\ Head(s) = s[1] /\ s[1] \in Batch
<1>1. Tail(s) \in Seq(Batch) /\ Len(s) \in Nat /\ Len(s) >= 1 /\ Len(Tail(s)) = Len(s) - 1
  OBVIOUS
<1>2. ASSUME NEW i \in 1..(Len(s) - 1)
      PROVE  Tail(s)[i] = s[i + 1] /\ i + 1 \in 1..Len(s)
  OBVIOUS
<1>3. Head(s) = s[1] /\ 1 \in 1..Len(s)
  BY <1>1
<1> QED
  BY <1>1, <1>2, <1>3

\* The node, and Stop, which only closes quit.
LEMMA UnmovedKeeps ==
  ASSUME CatchUpInv, UNCHANGED <<lrzTip, begun, callerVars, producerVars, ibCh>>,
         btcTip' \in Block, buried' \subseteq Block, quit' \in {quit, TRUE}
  PROVE  CatchUpInv'
<1> USE DEF callerVars, producerVars
<1>1. TypeOK'
  BY DEF CatchUpInv, TypeOK
<1>2. NotStarted' /\ Submitting' /\ Waiting' /\ Backlog'
  BY DEF CatchUpInv, NotStarted, Submitting, Waiting, Backlog, Started, Frontier, Stretch, IsChain,
         Parent, LastOf, Height
<1>3. Producing'
  BY DEF CatchUpInv, Producing, Stretch, IsChain, Parent, LastOf, Height, Limit, CloseGap
<1>4. ShortfallBounded' /\ OnlyStopLeavesProducer'
  BY DEF CatchUpInv, ShortfallBounded, OnlyStopLeavesProducer, Height, Limit, CloseGap
<1> QED
  BY <1>1, <1>2, <1>3, <1>4 DEF CatchUpInv

LEMMA NodeAdvanceKeeps ==
  ASSUME CatchUpInv, NEW t \in Block, NodeAdvance(t)
  PROVE  CatchUpInv'
<1>1. Buried(t) \subseteq Block
  <2> SUFFICES ASSUME NEW n \in 1..(Height(t) - CloseGap)
               PROVE  AncestorAt(t, n) \in Block
    BY DEF Buried
  <2>1. n \in 1..Len(t)
    BY Constants, HeightIsNat
  <2> QED
    BY <2>1, AncestorIsBlock
<1>2. buried' \subseteq Block /\ btcTip' \in Block /\ quit' = quit
  BY <1>1 DEF NodeAdvance, CatchUpInv, TypeOK
<1> QED
  BY <1>2, UnmovedKeeps DEF NodeAdvance

LEMMA StopKeeps ==
  ASSUME CatchUpInv, Stop
  PROVE  CatchUpInv'
<1>1. btcTip' \in Block /\ buried' \subseteq Block /\ quit' \in {quit, TRUE}
  BY DEF Stop, CatchUpInv, TypeOK
<1> QED
  BY <1>1, UnmovedKeeps DEF Stop

\* The process ends.
LEMMA PanicKeeps ==
  ASSUME CatchUpInv, NEW reason \in {"staleFork", "requestFailed"}, Panic(reason),
         lrzTip' \in Block, UNCHANGED <<btcTip, buried, begun, h, held, over, quit>>,
         \/ producer' = producer
         \/ producer = "sendError" /\ producer' = "ended",
         \/ ibCh' = ibCh
         \/ ibCh # <<>> /\ ibCh' = Tail(ibCh)
  PROVE  CatchUpInv'
<1>1. /\ ibCh' \in Seq(Batch) /\ Len(ibCh') <= ChannelCapacity
      /\ \A i \in 1..Len(ibCh') : Stretch(ibCh'[i])
  <2>1. ibCh \in Seq(Batch) /\ Len(ibCh) <= ChannelCapacity /\ \A i \in 1..Len(ibCh) : Stretch(ibCh[i])
    BY DEF CatchUpInv, TypeOK, Waiting
  <2>2. CASE ibCh' = ibCh
    BY <2>1, <2>2
  <2>3. CASE ibCh # <<>> /\ ibCh' = Tail(ibCh)
    <3>1. /\ ibCh' \in Seq(Batch) /\ Len(ibCh') = Len(ibCh) - 1 /\ Len(ibCh) \in Nat
          /\ \A i \in 1..(Len(ibCh) - 1) : ibCh'[i] = ibCh[i + 1] /\ i + 1 \in 1..Len(ibCh)
      BY <2>1, <2>3, TailOfChannel
    <3>2. Len(ibCh') <= ChannelCapacity
      <4> DEFINE n == Len(ibCh)
      <4>1. n \in Nat /\ ChannelCapacity \in Nat /\ n <= ChannelCapacity
        BY <2>1, <3>1, Constants
      <4>2. n - 1 <= ChannelCapacity
        <5> HIDE DEF n
        <5> QED
          BY <4>1
      <4> QED
        BY <3>1, <4>2
    <3> QED
      BY <2>1, <3>1, <3>2
  <2> QED
    BY <2>2, <2>3
<1>2. TypeOK'
  BY <1>1 DEF CatchUpInv, TypeOK, Panic, Batch
<1>3. NotStarted' /\ Submitting' /\ Backlog' /\ ShortfallBounded' /\ OnlyStopLeavesProducer'
  BY DEF Panic, NotStarted, Submitting, Backlog, ShortfallBounded, OnlyStopLeavesProducer, Started
<1>4. Waiting'
  BY <1>1 DEF Panic, Waiting, Started
<1>5. Producing'
  BY DEF CatchUpInv, Panic, Producing, Stretch, IsChain, Parent, LastOf, Height, Limit, CloseGap,
         TypeOK
<1> QED
  BY <1>2, <1>3, <1>4, <1>5 DEF CatchUpInv

-----------------------------------------------------------------------------
(***************************************************************************)
(* The caller's steps.                                                     *)
(***************************************************************************)
LEMMA GetBestBlockKeeps ==
  ASSUME CatchUpInv, GetBestBlock
  PROVE  CatchUpInv'
<1>1. btcTip \in Block /\ bestHeight' \in Nat
  BY HeightIsNat DEF CatchUpInv, TypeOK, GetBestBlock
<1>2. TypeOK'
  BY <1>1 DEF CatchUpInv, TypeOK, GetBestBlock, producerVars
<1>3. producer = "none" /\ ibCh = <<>> /\ lrzTip = begun /\ newTip = NoBlock /\ ~over
  BY DEF CatchUpInv, NotStarted, GetBestBlock, TypeOK
<1>4. NotStarted' /\ Submitting' /\ Backlog' /\ ShortfallBounded' /\ OnlyStopLeavesProducer'
  BY <1>3 DEF GetBestBlock, producerVars, NotStarted, Submitting, Backlog, ShortfallBounded,
              OnlyStopLeavesProducer, Started
<1>5. Producing' /\ Waiting'
  BY <1>3 DEF GetBestBlock, producerVars, Producing, Waiting, Started
<1> QED
  BY <1>2, <1>4, <1>5 DEF CatchUpInv

LEMMA AlreadyCloseKeeps ==
  ASSUME CatchUpInv, AlreadyClose
  PROVE  CatchUpInv'
<1>1. TypeOK'
  BY DEF CatchUpInv, TypeOK, AlreadyClose, producerVars
<1>2. producer = "none" /\ ibCh = <<>> /\ ~over
  BY DEF CatchUpInv, NotStarted, AlreadyClose, TypeOK
<1>3. ShortfallBounded'
  <2> DEFINE room == ChannelCapacity * BatchSize
             top  == Height(lrzTip)
  <2>1. /\ room \in Nat /\ top \in Nat /\ bestHeight \in Nat /\ CloseGap \in Nat
        /\ top + CloseGap >= bestHeight
    BY Constants, HeightIsNat DEF CatchUpInv, TypeOK, AlreadyClose
  <2> HIDE DEF room, top
  <2>2. top + room + 1 >= bestHeight - CloseGap
    BY <2>1
  <2>3. lrzTip' = lrzTip /\ bestHeight' = bestHeight
    BY DEF AlreadyClose
  <2> QED
    BY <2>2, <2>3 DEF ShortfallBounded, Limit, room, top, Height, CloseGap
<1>4. NotStarted' /\ Submitting' /\ Backlog' /\ OnlyStopLeavesProducer'
  BY <1>2 DEF AlreadyClose, producerVars, NotStarted, Submitting, Backlog, OnlyStopLeavesProducer,
              Started
<1>5. Producing' /\ Waiting'
  BY <1>2 DEF AlreadyClose, producerVars, Producing, Waiting, Started
<1> QED
  BY <1>1, <1>3, <1>4, <1>5 DEF CatchUpInv

LEMMA BeginKeeps ==
  ASSUME CatchUpInv, Begin
  PROVE  CatchUpInv'
<1>1. /\ caller' = "select" /\ newTip' = lrzTip /\ producer' = "check" /\ h' = Height(lrzTip) + 1
      /\ UNCHANGED <<btcTip, buried, lrzTip, begun, bestHeight, batch, panic, held, over, ibCh, quit>>
  BY DEF Begin
<1>2. producer = "none" /\ ibCh = <<>> /\ ~over /\ lrzTip = begun /\ lrzTip \in Block
      /\ batch = <<>> /\ held = <<>>
  BY DEF CatchUpInv, NotStarted, Begin, TypeOK
<1>3. Height(lrzTip) \in Nat /\ h' \in Nat
  BY <1>1, <1>2, HeightIsNat
<1>4. TypeOK'
  BY <1>1, <1>2, <1>3 DEF CatchUpInv, TypeOK
<1>5. NotStarted' /\ Submitting' /\ ShortfallBounded' /\ OnlyStopLeavesProducer'
  BY <1>1, <1>2 DEF NotStarted, Submitting, ShortfallBounded, OnlyStopLeavesProducer, Started
<1>6. Producing'
  BY <1>1, <1>2, <1>3 DEF Producing, Height
<1>7. Waiting'
  BY <1>1, <1>2 DEF Waiting, Started, Frontier, Height
<1>8. Backlog'
  <2>1. Len(ibCh') = 0 /\ 0 * BatchSize = 0
    BY <1>1, <1>2, Constants
  <2> QED
    BY <1>1, <1>3, <2>1 DEF Backlog, Started, Frontier, Height
<1> QED
  BY <1>4, <1>5, <1>6, <1>7, <1>8 DEF CatchUpInv

LEMMA TakeBatchKeeps ==
  ASSUME CatchUpInv, TakeBatch
  PROVE  CatchUpInv'
<1>1. CASE Panic("staleFork")
  <2>1. lrzTip' \in Block
    BY DEF TakeBatch, CatchUpInv, TypeOK
  <2> QED
    BY <1>1, <2>1, PanicKeeps DEF TakeBatch, producerVars
<1>2. CASE ~Panic("staleFork")
  <2> DEFINE n == Len(ibCh)
  <2>1. /\ caller = "select" /\ ibCh # <<>> /\ ibCh' = Tail(ibCh) /\ Parent(Head(ibCh)[1]) = newTip
        /\ caller' = "process" /\ batch' = Head(ibCh)
        /\ UNCHANGED <<bestHeight, newTip, panic, btcTip, buried, lrzTip, begun, producer, h, held,
                       over, quit>>
    BY <1>2 DEF TakeBatch, producerVars
  <2>2. /\ ibCh \in Seq(Batch) /\ ibCh' \in Seq(Batch) /\ n \in Nat /\ n >= 1 /\ Len(ibCh') = n - 1
        /\ \A i \in 1..(n - 1) : ibCh'[i] = ibCh[i + 1] /\ i + 1 \in 1..n
        /\ Head(ibCh) = ibCh[1] /\ ibCh[1] \in Seq(Block) /\ 1 \in 1..n
    BY <2>1, TailOfChannel DEF CatchUpInv, TypeOK, Batch
  <2>3. \A i \in 1..n : Stretch(ibCh[i])
    BY DEF CatchUpInv, Waiting
  <2>4. batch' # <<>>
    BY <2>1, <2>2, <2>3 DEF Stretch
  <2>5. TypeOK'
    <3>1. n - 1 <= ChannelCapacity
      <4>1. n <= ChannelCapacity /\ ChannelCapacity \in Nat
        BY Constants DEF CatchUpInv, TypeOK
      <4> HIDE DEF n
      <4> QED
        BY <2>2, <4>1
    <3> QED
      BY <2>1, <2>2, <2>4, <3>1 DEF CatchUpInv, TypeOK, Batch
  <2>6. Frontier' = Height(LastOf(ibCh[1]))
    BY <2>1, <2>2 DEF Frontier, LastOf, Height
  <2>7. NotStarted' /\ ShortfallBounded' /\ OnlyStopLeavesProducer'
    BY <2>1 DEF NotStarted, ShortfallBounded, OnlyStopLeavesProducer
  <2>8. Submitting'
    BY <2>1, <2>2, <2>3 DEF CatchUpInv, Submitting, Started, Stretch, IsChain, Parent
  <2>9. Producing'
    BY <2>1 DEF CatchUpInv, Producing, Stretch, IsChain, Parent, LastOf, Height, Limit, CloseGap
  <2>10. Waiting'
    <3>1. /\ \A i \in 1..(n - 1) : Height(ibCh[i + 1][1]) = Height(LastOf(ibCh[i])) + 1
          /\ h = Height(LastOf(LastOf(ibCh))) + 1
      BY <2>1 DEF CatchUpInv, Waiting, Started
    <3>2. \A i \in 1..Len(ibCh') : Stretch(ibCh'[i])
      BY <2>2, <2>3
    <3>3. ibCh' # <<>> => Height(ibCh'[1][1]) = Height(LastOf(ibCh[1])) + 1
      <4> SUFFICES ASSUME ibCh' # <<>>
                   PROVE  Height(ibCh'[1][1]) = Height(LastOf(ibCh[1])) + 1
        OBVIOUS
      <4>1. Len(ibCh') >= 1
        BY <2>2
      <4>2. 1 \in 1..(n - 1) /\ ibCh'[1] = ibCh[1 + 1]
        BY <2>2, <4>1
      <4> QED
        BY <3>1, <4>2
    <3>4. \A i \in 1..(Len(ibCh') - 1) : Height(ibCh'[i + 1][1]) = Height(LastOf(ibCh'[i])) + 1
      <4> TAKE i \in 1..(Len(ibCh') - 1)
      <4>1. i \in 1..(n - 1) /\ i + 1 \in 1..(n - 1)
        <5> HIDE DEF n
        <5> QED
          BY <2>2
      <4>2. ibCh'[i] = ibCh[i + 1] /\ ibCh'[i + 1] = ibCh[i + 1 + 1]
        BY <2>2, <4>1
      <4> QED
        BY <3>1, <4>1, <4>2
    <3>5. h = (IF ibCh' = <<>> THEN Height(LastOf(ibCh[1])) ELSE Height(LastOf(LastOf(ibCh')))) + 1
      <4>1. CASE ibCh' = <<>>
        <5>1. n = 1
          <6>1. Len(ibCh') = 0
            BY <4>1
          <6> HIDE DEF n
          <6> QED
            BY <2>2, <6>1
        <5> QED
          BY <3>1, <4>1, <5>1 DEF LastOf
      <4>2. CASE ibCh' # <<>>
        <5>1. Len(ibCh') >= 1
          BY <2>2, <4>2
        <5>2. n - 1 \in 1..(n - 1) /\ n - 1 + 1 = n
          <6> HIDE DEF n
          <6> QED
            BY <2>2, <5>1
        <5>3. LastOf(ibCh') = LastOf(ibCh)
          BY <2>2, <5>2 DEF LastOf
        <5> QED
          BY <3>1, <4>2, <5>3
      <4> QED
        BY <4>1, <4>2
    <3> QED
      BY <2>1, <2>6, <3>2, <3>3, <3>4, <3>5 DEF Waiting, LastOf, Height
  <2>11. Backlog'
    <3>1. \A i \in 1..n : h <= Height(LastOf(ibCh[i])) + (n - i) * BatchSize + 1
      BY <2>1 DEF CatchUpInv, Backlog, Started
    <3>2. h <= Height(LastOf(ibCh[1])) + (n - 1) * BatchSize + 1
      BY <2>2, <3>1
    <3>3. \A i \in 1..(n - 1) : h <= Height(LastOf(ibCh'[i])) + (n - 1 - i) * BatchSize + 1
      <4> TAKE i \in 1..(n - 1)
      <4>1. i + 1 \in 1..n /\ ibCh'[i] = ibCh[i + 1]
        BY <2>2
      <4>2. n - (i + 1) = n - 1 - i
        <5> HIDE DEF n
        <5> QED
          BY <2>2
      <4> QED
        BY <3>1, <4>1, <4>2
    <3> QED
      BY <2>1, <2>2, <2>6, <3>2, <3>3 DEF Backlog, LastOf, Height
  <2> QED
    BY <2>5, <2>7, <2>8, <2>9, <2>10, <2>11 DEF CatchUpInv
<1> QED
  BY <1>1, <1>2

LEMMA ParentIsOnChain ==
  ASSUME NEW b \in Block, Parent(b) \in Block
  PROVE  OnChain(Parent(b), b) /\ Height(Parent(b)) = Height(b) - 1
<1>1. Len(b) \in Nat /\ Len(Parent(b)) = Len(b) - 1 /\ Len(Parent(b)) >= 1
  BY BlockIsPath, ParentIsLower
<1>2. Len(b) - 1 \in 1..Len(b) /\ Parent(b) = AncestorAt(b, Len(b) - 1)
  BY <1>1 DEF Parent, AncestorAt
<1> QED
  BY <1>1, <1>2, AncestorIsOnChain DEF Height

(***************************************************************************)
(* The batch that is taken continues Lorenzo's chain: all of it is         *)
(* missing there, and it is accepted.                                      *)
(***************************************************************************)
LEMMA BatchIsMissing ==
  ASSUME CatchUpInv, caller = "process"
  PROVE  /\ ~Refused /\ Submitted = LastOf(batch) /\ LastOf(batch) \in Block
         /\ Height(batch[1]) = Height(lrzTip) + 1 /\ OnChain(lrzTip, batch[1])
         /\ OnChain(batch[1], LastOf(batch))
<1> DEFINE n       == Len(batch)
           lacking == {i \in 1..n : ~ContainsBTCBlock(lrzTip, batch[i])}
<1>1. /\ batch \in Seq(Block) /\ Stretch(batch) /\ Parent(batch[1]) = lrzTip /\ lrzTip \in Block
  BY TypesOfBatches DEF CatchUpInv, Submitting, Started, TypeOK
<1>2. /\ n \in Nat /\ n >= 1 /\ batch[1] \in Block /\ LastOf(batch) \in Block
      /\ \A i \in 1..n : batch[i] \in Block /\ Height(batch[i]) = Height(LastOf(batch)) - (n - i)
  BY <1>1, StretchEnds, ChainHeights DEF Stretch, LastOf
<1>3. OnChain(lrzTip, batch[1]) /\ Height(batch[1]) = Height(lrzTip) + 1 /\ Height(lrzTip) \in Nat
      /\ Height(lrzTip) >= 1 /\ Height(LastOf(batch)) \in Nat
  <2>1. OnChain(lrzTip, batch[1]) /\ Height(lrzTip) = Height(batch[1]) - 1
    BY <1>1, <1>2, ParentIsOnChain
  <2>2. Height(batch[1]) \in Nat
    BY <1>2, HeightIsNat
  <2> QED
    BY <1>1, <1>2, <2>1, <2>2, HeightIsNat
<1> HIDE DEF n
<1>4. ASSUME NEW i \in 1..n
      PROVE  ~ContainsBTCBlock(lrzTip, batch[i])
  <2>1. 1 \in 1..n
    BY <1>2
  <2>2. /\ Height(batch[1]) = Height(LastOf(batch)) - (n - 1)
        /\ Height(batch[i]) = Height(LastOf(batch)) - (n - i)
    BY <1>2, <2>1
  <2>3. Height(batch[i]) > Height(lrzTip)
    BY <1>2, <1>3, <2>2
  <2>4. ~(Len(batch[i]) <= Len(lrzTip))
    <3>1. Height(batch[i]) \in Nat
      BY <1>2, HeightIsNat
    <3> QED
      BY <1>3, <2>3, <3>1 DEF Height
  <2> QED
    BY <2>4 DEF ContainsBTCBlock, OnChain
<1>5. Missing = batch
  <2>1. lacking = 1..n
    BY <1>4
  <2> DEFINE first == CHOOSE i \in lacking : \A k \in lacking : i <= k
  <2>2. first = 1
    <3>1. 1 \in 1..n /\ \A k \in 1..n : 1 <= k
      BY <1>2
    <3>2. first \in 1..n /\ \A k \in 1..n : first <= k
      BY <2>1, <3>1
    <3>3. first <= 1
      BY <3>1, <3>2
    <3> HIDE DEF first
    <3> QED
      BY <1>2, <3>2, <3>3
  <2>3. lacking # {}
    BY <1>2, <2>1
  <2>4. Missing = SubSeq(batch, first, n)
    BY <2>3 DEF Missing, n
  <2> HIDE DEF first
  <2>5. SubSeq(batch, 1, Len(batch)) = batch
    BY <1>1
  <2> QED
    BY <2>2, <2>4, <2>5 DEF n
<1>6. OnChain(batch[1], LastOf(batch))
  <2>1. 1 \in 1..n
    BY <1>2
  <2> QED
    BY <1>1, <2>1, ChainIsBelowLast DEF Stretch, LastOf, n
<1>7. Accepts(lrzTip, batch)
  <2>1. OnChain(lrzTip, LastOf(batch))
    BY <1>1, <1>2, <1>3, <1>6, OnChainTransitive
  <2>2. lrzTip # LastOf(batch)
    <3>1. 1 \in 1..n
      BY <1>2
    <3>2. Height(batch[1]) = Height(LastOf(batch)) - (n - 1)
      BY <1>2, <3>1
    <3>3. Height(LastOf(batch)) # Height(lrzTip)
      BY <1>2, <1>3, <3>2
    <3> QED
      BY <3>3
  <2>3. ChainWork[lrzTip] < ChainWork[LastOf(batch)]
    BY <1>1, <1>2, <2>1, <2>2, WorkGrows
  <2>4. ChainWork[lrzTip] \in Nat /\ ChainWork[LastOf(batch)] \in Nat
    BY <1>1, <1>2, WorkAssumption DEF WorkAssumption
  <2>5. ChainWork[LastOf(batch)] > ChainWork[lrzTip]
    BY <2>3, <2>4
  <2>6. Height(batch[1]) > 1 /\ ContainsBTCBlock(lrzTip, Parent(batch[1]))
    BY <1>1, <1>3, OnChainReflexive DEF ContainsBTCBlock
  <2> QED
    BY <2>5, <2>6 DEF Accepts, LastOf
<1> QED
  BY <1>1, <1>2, <1>3, <1>5, <1>6, <1>7 DEF Refused, Submitted, InsertHeaders, LastOf, Stretch

LEMMA ProcessKeeps ==
  ASSUME CatchUpInv, Process
  PROVE  CatchUpInv'
<1>1. /\ ~Refused /\ Submitted = LastOf(batch) /\ LastOf(batch) \in Block
  BY BatchIsMissing DEF Process
<1>2. /\ caller = "process" /\ caller' = "select" /\ batch' = <<>>
      /\ lrzTip' = LastOf(batch) /\ newTip' = LastOf(batch)
      /\ UNCHANGED <<bestHeight, panic, btcTip, buried, begun, producer, h, held, over, ibCh, quit>>
  BY <1>1 DEF Process, producerVars, LastOf
<1>3. TypeOK'
  BY <1>1, <1>2 DEF CatchUpInv, TypeOK, Batch
<1>4. Frontier' = Frontier
  BY <1>2 DEF Frontier
<1>5. NotStarted' /\ ShortfallBounded' /\ OnlyStopLeavesProducer'
  BY <1>2 DEF NotStarted, ShortfallBounded, OnlyStopLeavesProducer
<1>6. Submitting'
  BY <1>2 DEF CatchUpInv, Submitting, Started
<1>7. Producing'
  BY <1>2 DEF CatchUpInv, Producing, Stretch, IsChain, Parent, LastOf, Height, Limit, CloseGap
<1>8. Waiting'
  BY <1>2, <1>4 DEF CatchUpInv, Waiting, Started, Stretch, IsChain, Parent, LastOf, Height
<1>9. Backlog'
  BY <1>2, <1>4 DEF CatchUpInv, Backlog, Started, LastOf, Height
<1> QED
  BY <1>3, <1>5, <1>6, <1>7, <1>8, <1>9 DEF CatchUpInv

LEMMA TakeErrorKeeps ==
  ASSUME CatchUpInv, TakeError
  PROVE  CatchUpInv'
<1>1. lrzTip' \in Block
  BY DEF TakeError, CatchUpInv, TypeOK
<1> QED
  <2>1. /\ Panic("requestFailed") /\ ibCh' = ibCh
        /\ producer = "sendError" /\ producer' = "ended"
        /\ UNCHANGED <<btcTip, buried, begun, h, held, over, quit>>
    BY DEF TakeError
  <2> QED
    BY <1>1, <2>1, PanicKeeps

LEMMA CallerRequestFailsKeeps ==
  ASSUME CatchUpInv, CallerRequestFails
  PROVE  CatchUpInv'
<1>1. lrzTip' \in Block
  <2>1. lrzTip \in Block
    BY DEF CatchUpInv, TypeOK
  <2>2. CASE caller = "process"
    BY <2>1, <2>2, BatchIsMissing DEF CallerRequestFails
  <2> QED
    BY <2>1, <2>2 DEF CallerRequestFails
<1> QED
  <2>1. /\ Panic("requestFailed") /\ ibCh' = ibCh /\ producer' = producer
        /\ UNCHANGED <<btcTip, buried, begun, h, held, over, quit>>
    BY DEF CallerRequestFails, producerVars
  <2> QED
    BY <1>1, <2>1, PanicKeeps

\* At the end of the production, no more than the backlog is missing.
LEMMA ReturnKeeps ==
  ASSUME CatchUpInv, Return
  PROVE  CatchUpInv'
<1>1. /\ caller = "select" /\ (over \/ quit) /\ caller' = "returned"
      /\ UNCHANGED <<btcTip, buried, lrzTip, begun, bestHeight, newTip, batch, panic,
                     producer, h, held, over, ibCh, quit>>
  BY DEF Return, producerVars
<1>2. TypeOK'
  BY <1>1 DEF CatchUpInv, TypeOK
<1>3. NotStarted' /\ Submitting' /\ Backlog'
  BY <1>1 DEF NotStarted, Submitting, Backlog, Started
<1>4. Producing'
  BY <1>1 DEF CatchUpInv, Producing, Stretch, IsChain, Parent, LastOf, Height, Limit, CloseGap
<1>5. Waiting'
  BY <1>1 DEF CatchUpInv, Waiting, Started, Stretch, IsChain, Parent
<1>6. OnlyStopLeavesProducer'
  BY <1>1 DEF CatchUpInv, TypeOK, OnlyStopLeavesProducer
<1>7. ShortfallBounded'
  <2> SUFFICES ASSUME ~quit
               PROVE  Height(lrzTip) + ChannelCapacity * BatchSize + 1 >= Limit
    BY <1>1 DEF ShortfallBounded, Height, Limit, CloseGap
  <2> DEFINE n    == Len(ibCh)
             room == ChannelCapacity * BatchSize
             top  == Height(lrzTip)
  <2>1. h >= Limit /\ h <= top + n * BatchSize + 1
    BY <1>1 DEF CatchUpInv, Producing, Backlog, Submitting, Started, Frontier
  <2>2. n \in Nat /\ n <= ChannelCapacity /\ ChannelCapacity \in Nat /\ BatchSize \in Nat
        /\ top \in Nat /\ h \in Nat /\ bestHeight \in Nat /\ Limit \in Int
    BY Constants, HeightIsNat DEF CatchUpInv, TypeOK, Limit
  <2>3. n * BatchSize <= room /\ n * BatchSize \in Nat /\ room \in Nat
    <3> HIDE DEF n
    <3>1. (ChannelCapacity - n) * BatchSize >= 0
      BY <2>2
    <3>2. (ChannelCapacity - n) * BatchSize = ChannelCapacity * BatchSize - n * BatchSize
      BY <2>2
    <3>3. n * BatchSize \in Nat /\ ChannelCapacity * BatchSize \in Nat
      BY <2>2
    <3> QED
      BY <3>1, <3>2, <3>3
  <2> DEFINE backlog == n * BatchSize
  <2> HIDE DEF backlog, room, top
  <2>4. top + room + 1 >= Limit
    BY <2>1, <2>2, <2>3 DEF backlog
  <2> QED
    BY <2>4 DEF top, room
<1> QED
  BY <1>2, <1>3, <1>4, <1>5, <1>6, <1>7 DEF CatchUpInv

-----------------------------------------------------------------------------
(***************************************************************************)
(* The producer's steps.                                                   *)
(***************************************************************************)
CallerUnmoved ==
  /\ UNCHANGED <<btcTip, buried, lrzTip, begun, callerVars, quit>>
  /\ producer \in {"check", "fetch", "send"}

\* What the caller's side of the invariant says, the producer does not touch.
LEMMA CallerSideKeeps ==
  ASSUME CatchUpInv, CallerUnmoved, producer' # "none", quit \/ caller # "returned"
  PROVE  NotStarted' /\ Submitting' /\ ShortfallBounded' /\ OnlyStopLeavesProducer'
<1> USE DEF callerVars, CallerUnmoved
<1>1. NotStarted'
  BY DEF CatchUpInv, NotStarted
<1>2. Submitting'
  BY DEF CatchUpInv, Submitting, Started, Stretch, IsChain, Parent
<1>3. ShortfallBounded'
  BY DEF CatchUpInv, ShortfallBounded, Limit, CloseGap, Height
<1>4. OnlyStopLeavesProducer'
  BY DEF OnlyStopLeavesProducer
<1> QED
  BY <1>1, <1>2, <1>3, <1>4

\* The steps between two batches.
LEMMA BetweenBatchesKeeps ==
  ASSUME CatchUpInv, CallerUnmoved, UNCHANGED <<h, held, ibCh>>, producer # "send",
         \/ producer' \in {"fetch", "sendError"} /\ over' = over /\ (producer' = "fetch" => h < Limit)
         \/ producer' = "ended" /\ over' = TRUE /\ (h >= Limit \/ quit),
         producer = "fetch" => producer' = "sendError",
         producer \in {"check", "fetch"}
  PROVE  CatchUpInv'
<1>1. quit \/ caller # "returned"
  BY DEF CatchUpInv, OnlyStopLeavesProducer
<1>2. NotStarted' /\ Submitting' /\ ShortfallBounded' /\ OnlyStopLeavesProducer'
  BY <1>1, CallerSideKeeps
<1>3. over = FALSE
  BY DEF CatchUpInv, TypeOK
<1> USE DEF callerVars, CallerUnmoved
<1>4. TypeOK'
  <2>1. /\ over' \in BOOLEAN /\ (over' => producer' = "ended")
        /\ producer' \in {"fetch", "sendError", "ended"}
    <3>1. CASE producer' \in {"fetch", "sendError"} /\ over' = over
      BY <1>3, <3>1, Zenon
    <3>2. CASE producer' = "ended" /\ over' = TRUE
      BY <3>2, Zenon
    <3> QED
      BY <3>1, <3>2
  <2>2. held = <<>>
    BY DEF CatchUpInv, TypeOK
  <2> QED
    BY <2>1, <2>2 DEF CatchUpInv, TypeOK
<1>5. Producing'
  BY <1>3 DEF CatchUpInv, Producing, Height, Limit, CloseGap
<1>6. Waiting' /\ Backlog'
  BY DEF CatchUpInv, Waiting, Backlog, Started, Frontier, Stretch, IsChain, Parent, LastOf, Height
<1> QED
  BY <1>2, <1>4, <1>5, <1>6 DEF CatchUpInv

LEMMA CheckLoopKeeps ==
  ASSUME CatchUpInv, CheckLoop
  PROVE  CatchUpInv'
<1>1. CallerUnmoved /\ UNCHANGED <<h, held, ibCh>> /\ producer = "check"
  BY DEF CheckLoop, CallerUnmoved
<1>2. h \in Nat /\ Limit \in Int
  BY Constants DEF CatchUpInv, TypeOK, Limit
<1>3. CASE LoopEnds
  <2>1. producer' = "ended" /\ over' = TRUE /\ (h >= Limit \/ quit)
    BY <1>3 DEF CheckLoop, EndProduction, LoopEnds
  <2> QED
    BY <1>1, <2>1, BetweenBatchesKeeps
<1>4. CASE ~LoopEnds
  <2>1. producer' = "fetch" /\ over' = over /\ h < Limit
    BY <1>2, <1>4 DEF CheckLoop, LoopEnds
  <2> QED
    BY <1>1, <2>1, BetweenBatchesKeeps
<1> QED
  BY <1>3, <1>4

LEMMA FetchFailsKeeps ==
  ASSUME CatchUpInv, FetchFails
  PROVE  CatchUpInv'
<1>1. /\ CallerUnmoved /\ UNCHANGED <<h, held, ibCh>> /\ producer = "fetch"
      /\ producer' = "sendError" /\ over' = over
  BY DEF FetchFails, CallerUnmoved
<1> QED
  BY <1>1, BetweenBatchesKeeps

\* The heights the producer asks for.
LEMMA BatchBounds ==
  ASSUME CatchUpInv, producer = "fetch"
  PROVE  /\ BatchEnd \in Nat /\ h \in 1..BatchEnd /\ BatchEnd < h + BatchSize /\ BatchEnd <= Limit
<1>1. /\ h \in Nat /\ h >= 1 /\ h < Limit /\ Limit \in Int /\ BatchSize \in Nat \ {0}
  <2>1. h \in Nat /\ h > Height(begun) /\ h < Limit /\ begun \in Block /\ bestHeight \in Nat
    BY DEF CatchUpInv, TypeOK, Producing
  <2>2. Height(begun) \in Nat /\ Limit \in Int /\ BatchSize \in Nat \ {0}
    BY <2>1, HeightIsNat, Constants DEF Limit
  <2> QED
    BY <2>1, <2>2
<1> QED
  BY <1>1 DEF BatchEnd

\* What it gets: the blocks of the node's chain at those heights.
LEMMA FetchedBatch ==
  ASSUME CatchUpInv, Fetch, producer' = "send"
  PROVE  /\ held' \in Seq(Block) /\ Stretch(held')
         /\ Height(held'[1]) = h /\ Height(LastOf(held')) = BatchEnd
         /\ \A k \in 1..Len(held') : OnChain(held'[k], btcTip) /\ Height(held'[k]) <= BatchEnd
<1> DEFINE e == BatchEnd
<1>1. /\ held' = ChainSegment(btcTip, h, e) /\ btcTip \in Block /\ ~(e > Height(btcTip))
      /\ producer = "fetch"
  BY DEF Fetch, CatchUpInv, TypeOK
<1>2. e \in Nat /\ h \in 1..e
  BY <1>1, BatchBounds
<1>3. e \in 1..Len(btcTip) /\ h \in Nat \ {0} /\ h <= Len(btcTip)
  BY <1>1, <1>2, HeightIsNat
<1> HIDE DEF e
<1> DEFINE s == ChainSegment(btcTip, h, e)
           top == AncestorAt(btcTip, e)
<1>4. /\ s \in Seq(Block) /\ Len(s) = e - h + 1
      /\ \A i \in 1..Len(s) : s[i] = AncestorAt(btcTip, h + i - 1)
      /\ s[1] = AncestorAt(btcTip, h) /\ s[Len(s)] = top
  BY <1>1, <1>2, <1>3, SegmentOfBlocks
<1>5. top \in Block /\ Len(top) = e /\ s = ChainSegment(top, h, e)
  BY <1>1, <1>2, <1>3, AncestorIsBlock, SegmentOfAncestor
<1>6. IsChain(s)
  BY <1>2, <1>3, <1>5, SegmentIsChain
<1>7. \A i \in 1..Len(s) : h + i - 1 \in 1..e /\ h + i - 1 \in 1..Len(btcTip)
  <2>1. Len(s) = e - h + 1 /\ Len(btcTip) \in Nat
    BY <1>1, <1>4, HeightIsNat
  <2> HIDE DEF s
  <2> QED
    BY <1>2, <1>3, <2>1
<1>8. \A i \in 1..Len(s) : OnChain(s[i], btcTip) /\ Height(s[i]) <= e
  <2> TAKE i \in 1..Len(s)
  <2>1. s[i] = AncestorAt(btcTip, h + i - 1) /\ h + i - 1 \in 1..e /\ h + i - 1 \in 1..Len(btcTip)
    BY <1>4, <1>7
  <2>2. Len(s[i]) = h + i - 1 /\ OnChain(s[i], btcTip)
    BY <1>1, <2>1, AncestorIsBlock, AncestorIsOnChain
  <2> QED
    BY <1>2, <2>1, <2>2 DEF Height
<1>9. Height(s[1]) = h /\ Height(s[Len(s)]) = e
  BY <1>1, <1>3, <1>4, <1>5, AncestorIsBlock DEF Height
<1>10. s # <<>>
  <2>1. Len(s) >= 1
    <3>1. Len(s) = e - h + 1
      BY <1>4
    <3> HIDE DEF s
    <3> QED
      BY <1>2, <3>1
  <2> QED
    BY <1>4, <2>1
<1> QED
  BY <1>1, <1>4, <1>6, <1>8, <1>9, <1>10 DEF Stretch, LastOf, e

LEMMA FetchKeeps ==
  ASSUME CatchUpInv, Fetch
  PROVE  CatchUpInv'
<1>1. /\ CallerUnmoved /\ UNCHANGED <<h, ibCh, over>> /\ producer = "fetch"
      /\ held = <<>> /\ ~over
  BY DEF Fetch, CallerUnmoved, CatchUpInv, TypeOK
<1>2. CASE producer' = "send"
  <2>1. /\ held' \in Seq(Block) /\ Stretch(held')
        /\ Height(held'[1]) = h /\ Height(LastOf(held')) < h + BatchSize
    BY <1>1, <1>2, FetchedBatch, BatchBounds
  <2>2. quit \/ caller # "returned"
    BY <1>1 DEF CatchUpInv, OnlyStopLeavesProducer
  <2>3. NotStarted' /\ Submitting' /\ ShortfallBounded' /\ OnlyStopLeavesProducer'
    BY <1>1, <1>2, <2>2, CallerSideKeeps
  <2>4. TypeOK'
    BY <1>1, <1>2, <2>1 DEF CatchUpInv, TypeOK, Batch, CallerUnmoved, callerVars, Stretch
  <2>5. Producing'
    BY <1>1, <1>2, <2>1 DEF CatchUpInv, Producing, CallerUnmoved, callerVars, Stretch, IsChain, Parent,
      LastOf, Height, Limit, CloseGap
  <2>6. Waiting' /\ Backlog'
    BY <1>1 DEF CatchUpInv, Waiting, Backlog, Started, Frontier, Stretch, IsChain, Parent, LastOf,
      Height, CallerUnmoved, callerVars
  <2> QED
    BY <2>3, <2>4, <2>5, <2>6 DEF CatchUpInv
<1>3. CASE producer' # "send"
  <2>1. producer' = "sendError" /\ held' = held
    BY <1>3 DEF Fetch
  <2> QED
    BY <1>1, <2>1, BetweenBatchesKeeps
<1> QED
  BY <1>2, <1>3

LEMMA OneBatchMore ==
  ASSUME NEW m \in Nat
  PROVE  (m + 1) * BatchSize = m * BatchSize + BatchSize /\ m * BatchSize \in Nat
BY Constants

LEMMA SendKeeps ==
  ASSUME CatchUpInv, Send
  PROVE  CatchUpInv'
<1> DEFINE n    == Len(ibCh)
           last == Height(LastOf(held))
<1>1. /\ CallerUnmoved /\ producer = "send" /\ n < ChannelCapacity
      /\ ibCh' = Append(ibCh, held) /\ h' = last + 1
      /\ producer' = "check" /\ held' = <<>> /\ over' = over
  BY DEF Send, HasRoom, NextHeight, CallerUnmoved, LastOf
<1>2. /\ ibCh \in Seq(Batch) /\ held \in Seq(Block) /\ Stretch(held) /\ n \in Nat
      /\ Height(held[1]) = h /\ last < h + BatchSize /\ over = FALSE
      /\ h \in Nat /\ h > Height(begun) /\ begun \in Block
  BY <1>1 DEF CatchUpInv, TypeOK, Producing, Batch
<1>3. last \in Nat /\ last >= h /\ held # <<>>
  BY <1>2, StretchEnds, HeightIsNat DEF Stretch
<1>4. /\ ibCh' \in Seq(Batch) /\ Len(ibCh') = n + 1 /\ ibCh'[n + 1] = held
      /\ \A i \in 1..n : ibCh'[i] = ibCh[i]
      /\ ibCh' # <<>>
  BY <1>1, <1>2 DEF Batch
<1> HIDE DEF n, last
<1>5. TypeOK'
  <2>1. n + 1 <= ChannelCapacity /\ h' \in Nat
    BY <1>1, <1>2, <1>3, Constants
  <2> QED
    BY <1>1, <1>2, <1>4, <2>1 DEF CatchUpInv, TypeOK, Batch, CallerUnmoved, callerVars
<1>6. NotStarted' /\ Submitting' /\ ShortfallBounded' /\ OnlyStopLeavesProducer'
  <2>1. quit \/ caller # "returned"
    BY <1>1 DEF CatchUpInv, OnlyStopLeavesProducer
  <2> QED
    BY <1>1, <2>1, CallerSideKeeps
<1>7. Producing'
  <2>1. h' > Height(begun)
    BY <1>1, <1>2, <1>3, HeightIsNat
  <2> QED
    BY <1>1, <1>2, <2>1 DEF Producing, CallerUnmoved, callerVars, Height
<1>8. Frontier' = Frontier /\ Started' = Started
  BY <1>1 DEF Frontier, Started, CallerUnmoved, callerVars, LastOf, Height
<1>9. Waiting'
  <2>1. \A i \in 1..(n + 1) : i \in 1..n \/ i = n + 1
    BY <1>2
  <2>2. \A i \in 1..Len(ibCh') : Stretch(ibCh'[i])
    BY <1>2, <1>4, <2>1 DEF CatchUpInv, Waiting, n
  <2>3. ASSUME Started
        PROVE  /\ Height(ibCh'[1][1]) = Frontier + 1
               /\ \A i \in 1..(Len(ibCh') - 1) :
                    Height(ibCh'[i + 1][1]) = Height(LastOf(ibCh'[i])) + 1
               /\ h' = Height(LastOf(LastOf(ibCh'))) + 1
    <3>1. /\ ibCh # <<>> => Height(ibCh[1][1]) = Frontier + 1
          /\ \A i \in 1..(n - 1) : Height(ibCh[i + 1][1]) = Height(LastOf(ibCh[i])) + 1
          /\ h = (IF ibCh = <<>> THEN Frontier ELSE Height(LastOf(LastOf(ibCh)))) + 1
      BY <2>3 DEF CatchUpInv, Waiting, n
    <3>2. CASE ibCh = <<>>
      <4>1. n = 0
        BY <3>2 DEF n
      <4> QED
        BY <1>1, <1>2, <1>4, <3>1, <3>2, <4>1 DEF LastOf, last
    <3>3. CASE ibCh # <<>>
      <4>1. n >= 1 /\ 1 \in 1..n /\ n \in 1..n
        <5>1. n # 0
          BY <1>2, <3>3 DEF n
        <5> QED
          BY <1>2, <5>1
      <4>2. Height(ibCh'[1][1]) = Frontier + 1
        BY <1>4, <3>1, <3>3, <4>1
      <4>3. Height(ibCh'[n + 1][1]) = Height(LastOf(ibCh'[n])) + 1
        BY <1>2, <1>4, <3>1, <3>3, <4>1 DEF LastOf, n
      <4>4. ASSUME NEW i \in 1..n
            PROVE  Height(ibCh'[i + 1][1]) = Height(LastOf(ibCh'[i])) + 1
        <5>1. CASE i = n
          BY <4>3, <5>1
        <5>2. CASE i # n
          <6>1. i \in 1..(n - 1) /\ i \in 1..n /\ i + 1 \in 1..n
            BY <1>2, <5>2
          <6> QED
            BY <1>4, <3>1, <6>1
        <5> QED
          BY <5>1, <5>2
      <4>5. h' = Height(LastOf(LastOf(ibCh'))) + 1
        BY <1>1, <1>4 DEF LastOf, last
      <4>6. Len(ibCh') - 1 = n
        BY <1>2, <1>4
      <4> QED
        BY <4>2, <4>4, <4>5, <4>6
    <3> QED
      BY <3>2, <3>3
  <2> QED
    BY <1>4, <1>8, <2>2, <2>3 DEF Waiting, LastOf, Height
<1>10. Backlog'
  <2> DEFINE m == n + 1
  <2>0. m = n + 1
    OBVIOUS
  <2> HIDE DEF m
  <2>1. ASSUME Started
        PROVE  /\ h' <= Frontier + m * BatchSize + 1
               /\ \A i \in 1..m : h' <= Height(LastOf(ibCh'[i])) + (m - i) * BatchSize + 1
    <3>1. /\ h <= Frontier + n * BatchSize + 1
          /\ \A i \in 1..n : h <= Height(LastOf(ibCh[i])) + (n - i) * BatchSize + 1
      BY <2>1 DEF CatchUpInv, Backlog, n
    <3>2. BatchSize \in Nat /\ h' \in Nat /\ h' <= h + BatchSize
      BY <1>1, <1>2, <1>3, Constants
    <3>3. Frontier \in Nat
      <4>1. CASE caller = "process"
        BY <4>1, BatchIsMissing, HeightIsNat DEF Frontier
      <4>2. CASE caller # "process"
        <5>1. newTip \in Block
          BY <2>1, <4>2 DEF CatchUpInv, TypeOK, Submitting
        <5> QED
          BY <4>2, <5>1, HeightIsNat DEF Frontier
      <4> QED
        BY <4>1, <4>2
    <3>4. h' <= Frontier + m * BatchSize + 1
      <4> DEFINE x == n * BatchSize
                 y == m * BatchSize
      <4>1. y = x + BatchSize /\ x \in Nat /\ h <= Frontier + x + 1
        BY <1>2, <2>0, <3>1, OneBatchMore
      <4> HIDE DEF x, y
      <4>2. h' <= Frontier + y + 1
        BY <1>2, <3>2, <3>3, <4>1
      <4> QED
        BY <4>2 DEF y
    <3>5. ASSUME NEW i \in 1..m
          PROVE  h' <= Height(LastOf(ibCh'[i])) + (m - i) * BatchSize + 1
      <4>1. CASE i = m
        <5>1. m - i = 0 /\ 0 * BatchSize = 0 /\ Height(LastOf(ibCh'[i])) = last
          BY <1>2, <1>4, <2>0, <4>1, Constants DEF last
        <5> QED
          BY <1>1, <1>3, <5>1
      <4>2. CASE i # m
        <5> DEFINE x == (n - i) * BatchSize
                   y == (m - i) * BatchSize
                   t == Height(LastOf(ibCh[i]))
        <5>1. i \in 1..n /\ n - i \in Nat /\ m - i = n - i + 1
          BY <1>2, <2>0, <4>2
        <5>2. y = x + BatchSize /\ x \in Nat
          BY <5>1, OneBatchMore
        <5>3. t \in Nat
          <6>1. ibCh[i] \in Seq(Block) /\ Stretch(ibCh[i])
            BY <5>1, TypesOfBatches DEF CatchUpInv, Waiting, n
          <6> QED
            BY <6>1, StretchEnds, HeightIsNat
        <5>4. h <= t + x + 1 /\ ibCh'[i] = ibCh[i]
          BY <1>4, <3>1, <5>1
        <5> HIDE DEF x, y, t
        <5>5. h' <= t + y + 1
          BY <1>2, <3>2, <5>2, <5>3, <5>4
        <5> QED
          BY <5>4, <5>5 DEF y, t
      <4> QED
        BY <4>1, <4>2
    <3> QED
      BY <3>4, <3>5
  <2>2. Len(ibCh') = m
    BY <1>4, <2>0
  <2> QED
    BY <1>8, <2>1, <2>2 DEF Backlog, LastOf, Height
<1> QED
  BY <1>5, <1>6, <1>7, <1>9, <1>10 DEF CatchUpInv

-----------------------------------------------------------------------------
LEMMA CatchUpInit ==
  ASSUME Init
  PROVE  CatchUpInv
<1>1. /\ btcTip \in Block /\ lrzTip \in Block /\ begun \in Block /\ buried = Buried(btcTip)
  BY CatchUpAssumption DEF CatchUpAssumption, Init
<1>2. buried \subseteq Block
  <2> SUFFICES ASSUME NEW n \in 1..(Height(btcTip) - CloseGap)
               PROVE  AncestorAt(btcTip, n) \in Block
    BY <1>1 DEF Buried
  <2>1. n \in 1..Len(btcTip)
    BY <1>1, Constants, HeightIsNat
  <2> QED
    BY <1>1, <2>1, AncestorIsBlock
<1>3. TypeOK
  <2>1. 0 <= ChannelCapacity
    BY Constants
  <2>2. /\ batch \in Batch /\ held \in Batch /\ ibCh \in Seq(Batch) /\ Len(ibCh) <= ChannelCapacity
        /\ batch = <<>> /\ held = <<>>
    BY <2>1 DEF Init, Batch
  <2>3. over \in BOOLEAN /\ (over => producer = "ended") /\ quit \in BOOLEAN
    BY DEF Init
  <2> QED
    BY <1>1, <1>2, <2>2, <2>3 DEF Init, TypeOK
<1>4. NotStarted /\ Submitting /\ Producing /\ Waiting /\ Backlog
  BY DEF Init, NotStarted, Submitting, Producing, Waiting, Backlog, Started
<1>5. ShortfallBounded /\ OnlyStopLeavesProducer
  BY DEF Init, ShortfallBounded, OnlyStopLeavesProducer
<1> QED
  BY <1>3, <1>4, <1>5 DEF CatchUpInv

LEMMA CatchUpNext ==
  ASSUME CatchUpInv, [Next]_vars
  PROVE  CatchUpInv'
<1>1. CASE UNCHANGED vars
  <2>1. btcTip' \in Block /\ buried' \subseteq Block /\ quit' \in {quit, TRUE}
    BY <1>1 DEF vars, CatchUpInv, TypeOK
  <2> QED
    BY <1>1, <2>1, UnmovedKeeps DEF vars, callerVars, producerVars
<1>2. CASE Caller
  BY <1>2, GetBestBlockKeeps, AlreadyCloseKeeps, BeginKeeps, TakeBatchKeeps, ProcessKeeps,
     TakeErrorKeeps, ReturnKeeps DEF Caller
<1>3. CASE Producer
  BY <1>3, CheckLoopKeeps, FetchKeeps, SendKeeps DEF Producer
<1>4. CASE Environment
  BY <1>4, NodeAdvanceKeeps, StopKeeps, CallerRequestFailsKeeps, FetchFailsKeeps DEF Environment
<1> QED
  BY <1>1, <1>2, <1>3, <1>4 DEF Next

LEMMA CatchUpAlways == Spec => []CatchUpInv
<1>1. Init => CatchUpInv
  BY CatchUpInit
<1>2. CatchUpInv /\ [Next]_vars => CatchUpInv'
  BY CatchUpNext
<1> QED
  BY <1>1, <1>2, PTL DEF Spec

(***************************************************************************)
(* Every step of the caller, the producer, the node and Stop keeps the     *)
(* types, the channel's capacity, and what the two goroutines are ready    *)
(* for in step with the batches they hold (bootstrapping.go 244-310).      *)
(***************************************************************************)
THEOREM TypeCorrect == Spec => []TypeOK
<1>1. CatchUpInv => TypeOK
  BY DEF CatchUpInv
<1> QED
  BY <1>1, CatchUpAlways, PTL

(***************************************************************************)
(* Catching up that is not stopped ends at most a channel full of batches  *)
(* and one block short, whichever of the select's ready cases are taken    *)
(* (bootstrapping.go 263-310).                                             *)
(***************************************************************************)
THEOREM ShortfallAlwaysBounded == Spec => []ShortfallBounded
<1>1. CatchUpInv => ShortfallBounded
  BY DEF CatchUpInv
<1> QED
  BY <1>1, CatchUpAlways, PTL

(***************************************************************************)
(* A catch-up that returned without a Stop has no producer left behind in  *)
(* a send (bootstrapping.go 263-281).                                      *)
(***************************************************************************)
THEOREM ProducerAlwaysEnds == Spec => []OnlyStopLeavesProducer
<1>1. CatchUpInv => OnlyStopLeavesProducer
  BY DEF CatchUpInv
<1> QED
  BY <1>1, CatchUpAlways, PTL

-----------------------------------------------------------------------------
(***************************************************************************)
(* What the node's reorganisations leave alone when a chain is never       *)
(* overtaken by one that parts from it more than 2K below its tip, nor by  *)
(* a lower one: everything up to Limit.                                    *)
(***************************************************************************)
ShallowForks ==
  \A s, t \in Block : ChainWork[t] > ChainWork[s] =>
    \A g \in 1..(Height(s) - CloseGap) : OnChain(AncestorAt(s, g), t)

Settled(s) == \A k \in 1..Len(s) : OnChain(s[k], btcTip) /\ Height(s[k]) <= Limit

Fetched ==
  /\ bestHeight <= Height(btcTip)
  /\ producer # "none" => Height(begun) < Limit
  /\ Settled(batch) /\ Settled(held)
  /\ \A i \in 1..Len(ibCh) : Settled(ibCh[i])

\* Only if there was something to fetch does anything move.
Fetching ==
  producer \in {"fetch", "send"} \/ ibCh # <<>> \/ caller = "process" \/ lrzTip # begun
    => Height(begun) + 1 < Limit

\* Lorenzo's tip moves along the node's chain.
MovedTo(tip) ==
  tip # begun =>
    /\ OnChain(begun, btcTip) /\ OnChain(tip, btcTip)
    /\ Height(begun) < Height(tip) /\ Height(tip) <= Limit /\ Height(begun) + 1 < Limit

Following == MovedTo(lrzTip) /\ (caller = "process" => OnChain(begun, btcTip))

Abandoned ==
  panic = "staleFork" =>
    lrzTip = begun /\ ~OnChain(begun, btcTip) /\ Height(begun) + 1 < Limit

Outcome == caller = "down" <=> panic # "none"

ForkInv == Fetched /\ Fetching /\ Following /\ Abandoned /\ Outcome

\* Up to Limit, the node's next chain is its present one.
LEMMA SettledStays ==
  ASSUME ShallowForks, HeavierIsHigher, CatchUpInv, NEW t \in Block, NodeAdvance(t),
         bestHeight <= Height(btcTip)
  PROVE  /\ bestHeight <= Height(t)
         /\ \A x \in Block : Height(x) <= Limit => (OnChain(x, btcTip) <=> OnChain(x, t))
<1>1. btcTip \in Block /\ ChainWork[t] > ChainWork[btcTip] /\ bestHeight \in Nat
  BY DEF CatchUpInv, TypeOK, NodeAdvance
<1>2. Height(t) >= Height(btcTip) /\ Height(t) \in Nat /\ Height(btcTip) \in Nat /\ CloseGap \in Nat
  BY <1>1, HeightIsNat, Constants DEF HeavierIsHigher
<1>3. ASSUME NEW x \in Block, Height(x) <= Limit
      PROVE  OnChain(x, btcTip) <=> OnChain(x, t)
  <2> DEFINE g == Len(x)
             a == AncestorAt(btcTip, g)
  <2>1. g \in Nat /\ g >= 1 /\ g <= bestHeight - CloseGap
    BY <1>3, BlockIsPath DEF Height, Limit
  <2> HIDE DEF g
  <2>2. g \in 1..(Height(btcTip) - CloseGap) /\ g \in 1..Height(btcTip) /\ g \in 1..Height(t)
    BY <1>1, <1>2, <2>1
  <2>3. OnChain(a, t)
    BY <1>1, <2>2 DEF ShallowForks
  <2>4. a \in Block /\ Len(a) = g
    BY <1>1, <2>2, AncestorIsBlock DEF Height
  <2>5. a = AncestorAt(t, g)
    BY <2>3, <2>4, OnChainIsAncestor
  <2>6. OnChain(x, btcTip) <=> x = a
    BY <1>1, <2>2, OnChainIsAncestor DEF g, Height
  <2>7. OnChain(x, t) <=> x = AncestorAt(t, g)
    BY <2>2, OnChainIsAncestor DEF g, Height
  <2> QED
    BY <2>5, <2>6, <2>7
<1> QED
  BY <1>1, <1>2, <1>3

LEMMA NodeAdvanceForks ==
  ASSUME ShallowForks, HeavierIsHigher, CatchUpInv, ForkInv, NEW t \in Block, NodeAdvance(t)
  PROVE  ForkInv'
<1>1. /\ UNCHANGED <<lrzTip, begun, callerVars, producerVars, ibCh>> /\ btcTip' = t
      /\ lrzTip \in Block /\ begun \in Block
  BY DEF NodeAdvance, CatchUpInv, TypeOK
<1> USE DEF callerVars, producerVars
<1>2. /\ bestHeight <= Height(t)
      /\ \A x \in Block : Height(x) <= Limit => (OnChain(x, btcTip) <=> OnChain(x, t))
  BY SettledStays DEF ForkInv, Fetched
<1>3. Limit' = Limit
  BY <1>1 DEF Limit, CloseGap
<1>4. \A s \in Seq(Block) : Settled(s) => \A k \in 1..Len(s) : OnChain(s[k], t) /\ Height(s[k]) <= Limit
  BY <1>2 DEF Settled
<1>5. Fetched'
  BY <1>1, <1>2, <1>3, <1>4, TypesOfBatches DEF CatchUpInv, ForkInv, Fetched, Settled, Height
<1>6. Fetching'
  BY <1>1, <1>3 DEF ForkInv, Fetching, Height
<1>7. producer # "none" \/ lrzTip # begun \/ panic = "staleFork" => Height(begun) <= Limit
  <2>1. Height(begun) \in Nat /\ Limit \in Int /\ Height(lrzTip) \in Nat
    BY <1>1, HeightIsNat, Constants DEF CatchUpInv, TypeOK, Limit
  <2> QED
    BY <2>1 DEF ForkInv, Fetched, Following, MovedTo, Abandoned
<1>8. Following'
  <2>1. caller = "process" => producer # "none"
    BY DEF CatchUpInv, Submitting, Started
  <2>2. caller = "process" => OnChain(begun, t)
    BY <1>1, <1>2, <1>7, <2>1 DEF ForkInv, Following
  <2>3. lrzTip # begun => OnChain(begun, t) /\ OnChain(lrzTip, t)
    BY <1>1, <1>2, <1>7 DEF ForkInv, Following, MovedTo
  <2> QED
    BY <1>1, <1>3, <2>2, <2>3 DEF ForkInv, Following, MovedTo, Height
<1>9. Abandoned'
  BY <1>1, <1>2, <1>3, <1>7 DEF ForkInv, Abandoned, Height
<1> QED
  BY <1>1, <1>5, <1>6, <1>8, <1>9 DEF ForkInv, Outcome

\* A block continues another one below a chain's block only on that chain.
LEMMA ContinuesOnChain ==
  ASSUME NEW tip \in Block, NEW x \in Block, NEW y \in Block,
         OnChain(x, tip), Height(x) = Height(y) + 1
  PROVE  Parent(x) = y <=> OnChain(y, tip)
<1> DEFINE n == Len(y)
<1>1. Len(x) = n + 1 /\ n \in Nat /\ n >= 1 /\ Len(tip) \in Nat
  BY BlockIsPath DEF Height
<1>2. Len(x) \in 1..Len(tip) /\ x = AncestorAt(tip, Len(x))
  BY OnChainIsAncestor
<1>3. OnChain(y, tip) <=> n \in 1..Len(tip) /\ y = AncestorAt(tip, n)
  BY OnChainIsAncestor
<1> HIDE DEF n
<1>4. n + 1 \in 2..Len(tip) /\ n \in 1..Len(tip) /\ (n + 1) - 1 = n
  BY <1>1, <1>2
<1>5. Parent(x) = AncestorAt(tip, n)
  BY <1>1, <1>2, <1>4, ParentOfAncestor
<1> QED
  BY <1>3, <1>4, <1>5

\* The steps before anything is fetched.
LEMMA StartForks ==
  ASSUME CatchUpInv, ForkInv, GetBestBlock \/ AlreadyClose \/ Begin
  PROVE  ForkInv'
<1>1. /\ producer = "none" /\ ibCh = <<>> /\ lrzTip = begun /\ batch = <<>> /\ held = <<>>
      /\ btcTip \in Block /\ begun \in Block
  BY DEF CatchUpInv, NotStarted, TypeOK, GetBestBlock, AlreadyClose, Begin
<1>2. /\ UNCHANGED <<btcTip, lrzTip, begun, batch, panic, held, ibCh>>
      /\ caller' \in {"lorenzoTip", "returned", "select"} /\ caller \in {"bestBlock", "lorenzoTip"}
      /\ producer' \in {"none", "check"}
  BY <1>1 DEF GetBestBlock, AlreadyClose, Begin, producerVars
<1>3. panic = "none"
  BY <1>2 DEF ForkInv, Outcome
<1>4. bestHeight' <= Height(btcTip')
  <2>1. CASE GetBestBlock
    BY <1>1, <2>1, HeightIsNat DEF GetBestBlock, Height
  <2>2. CASE AlreadyClose \/ Begin
    BY <2>2 DEF ForkInv, Fetched, AlreadyClose, Begin, Height
  <2> QED
    BY <2>1, <2>2
<1>5. producer' # "none" => Height(begun') < Limit'
  <2> SUFFICES ASSUME producer' # "none"
               PROVE  Height(begun') < Limit'
    OBVIOUS
  <2>1. Height(begun) + CloseGap < bestHeight /\ UNCHANGED <<begun, bestHeight>>
    BY <1>1 DEF GetBestBlock, AlreadyClose, Begin, producerVars
  <2>2. Height(begun) < bestHeight - CloseGap
    BY <1>1, <2>1, HeightIsNat, Constants DEF CatchUpInv, TypeOK
  <2> QED
    BY <2>1, <2>2 DEF Limit, Height, CloseGap
<1>6. Fetched'
  BY <1>1, <1>2, <1>4, <1>5 DEF Fetched, Settled
<1> QED
  BY <1>1, <1>2, <1>3, <1>6 DEF ForkInv, Fetching, Following, MovedTo, Abandoned, Outcome

\* The chain that the batches are on, and Limit, stay as they are.
LEMMA FetchedStays ==
  ASSUME CatchUpInv, ForkInv, UNCHANGED <<btcTip, begun, bestHeight>>, producer # "none",
         batch' \in {batch, <<>>} \/ (ibCh # <<>> /\ batch' = Head(ibCh)),
         held' = held \/ Settled(held'),
         ibCh' = ibCh \/ (ibCh # <<>> /\ ibCh' = Tail(ibCh)) \/ ibCh' = Append(ibCh, held)
  PROVE  Fetched'
<1>1. /\ bestHeight <= Height(btcTip) /\ Height(begun) < Limit /\ Settled(batch) /\ Settled(held)
      /\ \A i \in 1..Len(ibCh) : Settled(ibCh[i])
  BY DEF ForkInv, Fetched
<1>2. ibCh \in Seq(Batch) /\ held \in Batch
  BY DEF CatchUpInv, TypeOK
<1>3. ibCh # <<>> => Head(ibCh) = ibCh[1] /\ 1 \in 1..Len(ibCh)
  BY <1>2, TailOfChannel
<1>4. Settled(batch')
  BY <1>1, <1>3 DEF Settled
<1>5. Settled(held')
  BY <1>1
<1>6. \A i \in 1..Len(ibCh') : Settled(ibCh'[i])
  <2>1. CASE ibCh' = ibCh
    BY <1>1, <2>1
  <2>2. CASE ibCh # <<>> /\ ibCh' = Tail(ibCh)
    <3>1. /\ Len(ibCh') = Len(ibCh) - 1
          /\ \A i \in 1..(Len(ibCh) - 1) : ibCh'[i] = ibCh[i + 1] /\ i + 1 \in 1..Len(ibCh)
      BY <1>2, <2>2, TailOfChannel
    <3> QED
      BY <1>1, <3>1
  <2>3. CASE ibCh' = Append(ibCh, held)
    <3>1. /\ Len(ibCh') = Len(ibCh) + 1 /\ Len(ibCh) \in Nat /\ ibCh'[Len(ibCh) + 1] = held
          /\ \A i \in 1..Len(ibCh) : ibCh'[i] = ibCh[i]
      BY <1>2, <2>3
    <3>2. \A i \in 1..(Len(ibCh) + 1) : i \in 1..Len(ibCh) \/ i = Len(ibCh) + 1
      BY <3>1
    <3> QED
      BY <1>1, <3>1, <3>2
  <2> QED
    BY <2>1, <2>2, <2>3
<1>7. Limit' = Limit
  BY DEF Limit, CloseGap
<1>8. Settled(batch)' /\ Settled(held)' /\ \A i \in 1..Len(ibCh') : Settled(ibCh[i])'
  BY <1>4, <1>5, <1>6, <1>7 DEF Settled, OnChain, Height
<1> QED
  BY <1>1, <1>7, <1>8 DEF Fetched, Height

\* What the panic needs to be about: the first header of the batch.
LEMMA TakenBatch ==
  ASSUME CatchUpInv, ForkInv, caller = "select", ibCh # <<>>
  PROVE  /\ Height(begun) + 1 < Limit /\ newTip = lrzTip /\ Settled(Head(ibCh))
         /\ Parent(Head(ibCh)[1]) = newTip <=> OnChain(lrzTip, btcTip)
<1> DEFINE x == ibCh[1][1]
<1>1. newTip = lrzTip /\ lrzTip \in Block /\ btcTip \in Block /\ Height(x) = Height(newTip) + 1
  BY DEF CatchUpInv, TypeOK, Submitting, Started, Waiting, Frontier
<1>2. Head(ibCh) = ibCh[1] /\ ibCh[1] \in Seq(Block) /\ 1 \in 1..Len(ibCh)
  BY TailOfChannel DEF CatchUpInv, TypeOK, Batch
<1>3. Stretch(ibCh[1]) /\ Settled(ibCh[1])
  BY <1>2 DEF CatchUpInv, Waiting, ForkInv, Fetched
<1>4. x \in Block /\ 1 \in 1..Len(ibCh[1])
  BY <1>2, <1>3, StretchEnds
<1>5. OnChain(x, btcTip)
  BY <1>3, <1>4 DEF Settled
<1>6. Parent(x) = newTip <=> OnChain(lrzTip, btcTip)
  BY <1>1, <1>4, <1>5, ContinuesOnChain
<1> QED
  BY <1>1, <1>2, <1>3, <1>6 DEF ForkInv, Fetching

LEMMA TakeBatchForks ==
  ASSUME CatchUpInv, ForkInv, TakeBatch
  PROVE  ForkInv'
<1>1. /\ caller = "select" /\ ibCh # <<>> /\ ibCh' = Tail(ibCh) /\ producer # "none"
      /\ UNCHANGED <<btcTip, lrzTip, begun, bestHeight, newTip, producer, held>>
  BY DEF TakeBatch, producerVars, Panic, CatchUpInv, Submitting, Started
<1>2. /\ Height(begun) + 1 < Limit /\ newTip = lrzTip
      /\ Parent(Head(ibCh)[1]) = newTip <=> OnChain(lrzTip, btcTip)
  BY <1>1, TakenBatch
<1>3. batch' \in {batch, <<>>} \/ batch' = Head(ibCh)
  BY DEF TakeBatch, Panic
<1>4. Fetched'
  BY <1>1, <1>3, FetchedStays
<1>5. Limit' = Limit
  BY <1>1 DEF Limit, CloseGap
<1>6. Fetching'
  BY <1>1, <1>2, <1>5 DEF Fetching, Height
<1>7. MovedTo(lrzTip)'
  BY <1>1, <1>5 DEF ForkInv, Following, MovedTo, OnChain, Height
<1>8. OnChain(lrzTip, btcTip) => OnChain(begun, btcTip)
  BY DEF ForkInv, Following, MovedTo
<1>9. lrzTip # begun => OnChain(lrzTip, btcTip)
  BY DEF ForkInv, Following, MovedTo
<1>10. panic = "none"
  BY <1>1 DEF ForkInv, Outcome
<1>11. CASE Parent(Head(ibCh)[1]) # newTip
  <2>1. Panic("staleFork")
    BY <1>11 DEF TakeBatch
  <2>2. ~OnChain(lrzTip, btcTip) /\ lrzTip = begun
    BY <1>2, <1>9, <1>11
  <2>3. Abandoned' /\ Outcome'
    BY <1>1, <1>2, <1>5, <2>1, <2>2 DEF Abandoned, Outcome, Panic, OnChain, Height
  <2>4. caller' = "down"
    BY <2>1 DEF Panic
  <2> QED
    BY <1>4, <1>6, <1>7, <2>3, <2>4 DEF ForkInv, Following
<1>12. CASE Parent(Head(ibCh)[1]) = newTip
  <2>1. caller' = "process" /\ panic' = panic
    BY <1>12 DEF TakeBatch
  <2>2. OnChain(begun, btcTip)'
    BY <1>1, <1>2, <1>8, <1>12 DEF OnChain
  <2> QED
    BY <1>4, <1>6, <1>7, <1>10, <2>1, <2>2 DEF ForkInv, Following, Abandoned, Outcome
<1> QED
  BY <1>11, <1>12

\* What was submitted is the node's, up to Limit.
LEMMA SubmittedIsSettled ==
  ASSUME CatchUpInv, ForkInv, caller = "process"
  PROVE  /\ ~Refused /\ Submitted = LastOf(batch)
         /\ Height(begun) + 1 < Limit
         /\ MovedTo(Submitted) /\ Submitted # begun
<1>1. /\ ~Refused /\ Submitted = LastOf(batch) /\ LastOf(batch) \in Block
      /\ Height(batch[1]) = Height(lrzTip) + 1 /\ OnChain(batch[1], LastOf(batch))
  BY BatchIsMissing
<1>2. batch \in Seq(Block) /\ Stretch(batch) /\ lrzTip \in Block /\ begun \in Block
  BY TypesOfBatches DEF CatchUpInv, Submitting, TypeOK
<1>3. batch[1] \in Block /\ Len(batch) \in 1..Len(batch)
  BY <1>2, StretchEnds
<1>4. OnChain(LastOf(batch), btcTip) /\ Height(LastOf(batch)) <= Limit
  BY <1>3 DEF ForkInv, Fetched, Settled, LastOf
<1>5. Height(begun) + 1 < Limit
  BY DEF ForkInv, Fetching
<1>6. Height(begun) < Height(LastOf(batch))
  <2>1. Height(batch[1]) <= Height(LastOf(batch))
    BY <1>1 DEF OnChain, Height
  <2>2. Height(begun) <= Height(lrzTip)
    <3>1. Height(begun) \in Nat
      BY <1>2, HeightIsNat
    <3> QED
      BY <1>2, <3>1, HeightIsNat DEF ForkInv, Following, MovedTo
  <2>3. Height(begun) \in Nat /\ Height(lrzTip) \in Nat /\ Height(LastOf(batch)) \in Nat
    BY <1>1, <1>2, HeightIsNat
  <2> QED
    BY <1>1, <2>1, <2>2, <2>3
<1>7. LastOf(batch) # begun
  <2>1. Height(begun) \in Nat
    BY <1>2, HeightIsNat
  <2> QED
    BY <1>6, <2>1
<1> QED
  BY <1>1, <1>4, <1>5, <1>6, <1>7 DEF ForkInv, Following, MovedTo

LEMMA ProcessForks ==
  ASSUME CatchUpInv, ForkInv, Process
  PROVE  ForkInv'
<1>1. caller = "process" /\ producer # "none" /\ panic = "none"
  BY DEF Process, CatchUpInv, Submitting, Started, ForkInv, Outcome
<1>2. Height(begun) + 1 < Limit /\ ~Refused /\ MovedTo(Submitted)
  BY <1>1, SubmittedIsSettled
<1>3. /\ lrzTip' = Submitted /\ batch' = <<>> /\ caller' = "select"
      /\ UNCHANGED <<btcTip, begun, bestHeight, panic, producer, held, ibCh>>
  BY <1>2 DEF Process, producerVars
<1>4. Fetched'
  BY <1>1, <1>3, FetchedStays
<1>5. Limit' = Limit
  BY <1>3 DEF Limit, CloseGap
<1>6. Fetching' /\ Following'
  BY <1>2, <1>3, <1>5 DEF Fetching, Following, MovedTo, OnChain, Height
<1> QED
  BY <1>1, <1>3, <1>4, <1>6 DEF ForkInv, Abandoned, Outcome

LEMMA CallerRequestFailsForks ==
  ASSUME CatchUpInv, ForkInv, CallerRequestFails
  PROVE  ForkInv'
<1>1. /\ caller \in {"bestBlock", "lorenzoTip", "process"}
      /\ caller' = "down" /\ panic' = "requestFailed" /\ batch' = <<>>
      /\ UNCHANGED <<btcTip, begun, bestHeight, newTip, producer, held, ibCh>>
  BY DEF CallerRequestFails, Panic, producerVars
<1>2. Limit' = Limit
  BY <1>1 DEF Limit, CloseGap
<1>3. Abandoned' /\ Outcome'
  BY <1>1 DEF Abandoned, Outcome
<1>4. CASE caller = "process"
  <2>1. producer # "none"
    BY <1>4 DEF CatchUpInv, Submitting, Started
  <2>2. Fetched'
    BY <1>1, <1>4, <2>1, FetchedStays
  <2>3. Height(begun) + 1 < Limit /\ MovedTo(Submitted)
    BY <1>4, SubmittedIsSettled
  <2>4. lrzTip' = lrzTip \/ lrzTip' = Submitted
    BY <1>4 DEF CallerRequestFails
  <2>5. MovedTo(lrzTip')
    BY <2>3, <2>4 DEF ForkInv, Following
  <2>6. Fetching' /\ Following'
    BY <1>1, <1>2, <2>3, <2>5 DEF Fetching, Following, MovedTo, OnChain, Height
  <2> QED
    BY <1>3, <2>2, <2>6 DEF ForkInv
<1>5. CASE caller # "process"
  <2>1. /\ caller \in {"bestBlock", "lorenzoTip"} /\ lrzTip' = lrzTip /\ producer = "none"
        /\ ibCh = <<>> /\ lrzTip = begun /\ held = <<>> /\ btcTip \in Block /\ bestHeight \in Nat
    BY <1>1, <1>5 DEF CallerRequestFails, CatchUpInv, NotStarted, TypeOK
  <2>2. bestHeight <= Height(btcTip)
    BY DEF ForkInv, Fetched
  <2> QED
    BY <1>1, <1>3, <2>1, <2>2 DEF ForkInv, Fetched, Fetching, Following, MovedTo, Settled, Height
<1> QED
  BY <1>4, <1>5

LEMMA OtherForks ==
  ASSUME CatchUpInv, ForkInv, TakeError \/ Return \/ Stop \/ UNCHANGED vars
  PROVE  ForkInv'
<1>1. /\ UNCHANGED <<btcTip, lrzTip, begun, bestHeight, newTip, held, ibCh>>
      /\ batch' \in {batch, <<>>}
      /\ producer' = producer \/ (producer = "sendError" /\ producer' = "ended")
  BY DEF TakeError, Return, Stop, Panic, producerVars, callerVars, vars
<1>2. \/ caller' = caller /\ panic' = panic
      \/ caller = "select" /\ caller' = "returned" /\ panic' = panic
      \/ caller' = "down" /\ panic' = "requestFailed"
  BY DEF TakeError, Return, Stop, Panic, producerVars, callerVars, vars
<1>3. Limit' = Limit
  BY <1>1 DEF Limit, CloseGap
<1>4. Fetched'
  <2>1. Settled(batch)'
    BY <1>1, <1>3 DEF ForkInv, Fetched, Settled, OnChain, Height
  <2>2. Settled(held)' /\ \A i \in 1..Len(ibCh') : Settled(ibCh[i])'
    BY <1>1, <1>3 DEF ForkInv, Fetched, Settled, OnChain, Height
  <2>3. bestHeight' <= Height(btcTip')
    BY <1>1 DEF ForkInv, Fetched, Height
  <2>4. producer' # "none" => Height(begun') < Limit'
    BY <1>1, <1>3 DEF ForkInv, Fetched, Height
  <2> QED
    BY <2>1, <2>2, <2>3, <2>4 DEF Fetched
<1>5. caller' = "process" => caller = "process"
  BY <1>2
<1>6. Fetching'
  BY <1>1, <1>3, <1>5 DEF ForkInv, Fetching, Height
<1>7. Following'
  BY <1>1, <1>3, <1>5 DEF ForkInv, Following, MovedTo, OnChain, Height
<1>8. Abandoned' /\ Outcome'
  BY <1>1, <1>2, <1>3 DEF ForkInv, Abandoned, Outcome, OnChain, Height
<1> QED
  BY <1>4, <1>6, <1>7, <1>8 DEF ForkInv

LEMMA ProducerForks ==
  ASSUME CatchUpInv, ForkInv, CheckLoop \/ Fetch \/ FetchFails \/ Send
  PROVE  ForkInv'
<1>1. /\ UNCHANGED <<btcTip, lrzTip, begun, bestHeight, newTip, batch, caller, panic>>
      /\ producer \in {"check", "fetch", "send"}
      /\ producer' \in {"ended", "fetch", "send", "sendError", "check"}
  BY DEF CheckLoop, Fetch, FetchFails, Send, EndProduction, callerVars
<1>2. Limit' = Limit
  BY <1>1 DEF Limit, CloseGap
<1>3. held' = held \/ Settled(held')
  <2>1. CASE Fetch /\ producer' = "send"
    <3>1. BatchEnd \in Nat /\ BatchEnd <= Limit /\ Limit \in Int
      BY <2>1, BatchBounds, Constants DEF Fetch, Limit, CatchUpInv, TypeOK
    <3>2. /\ held' \in Seq(Block)
          /\ \A k \in 1..Len(held') : OnChain(held'[k], btcTip) /\ Height(held'[k]) <= BatchEnd
      BY <2>1, FetchedBatch
    <3>3. \A k \in 1..Len(held') : Height(held'[k]) \in Nat
      BY <3>2, HeightIsNat
    <3> HIDE DEF BatchEnd, Limit
    <3> QED
      BY <3>1, <3>2, <3>3 DEF Settled
  <2>2. CASE Send
    BY <2>2 DEF Send, Settled
  <2> QED
    BY <2>1, <2>2 DEF CheckLoop, Fetch, FetchFails
<1>4. ibCh' = ibCh \/ (Send /\ ibCh' = Append(ibCh, held))
  BY DEF CheckLoop, Fetch, FetchFails, Send
<1>5. Fetched'
  BY <1>1, <1>3, <1>4, FetchedStays
<1>6. producer' = "fetch" => Height(begun) + 1 < Limit
  <2> SUFFICES ASSUME producer' = "fetch"
               PROVE  Height(begun) + 1 < Limit
    OBVIOUS
  <2>1. h < Limit /\ h > Height(begun) /\ begun \in Block /\ h \in Nat /\ bestHeight \in Nat
    <3>1. ~LoopEnds /\ producer = "check"
      BY <1>1 DEF CheckLoop, Fetch, FetchFails, Send, EndProduction
    <3>2. h > Height(begun) /\ begun \in Block /\ h \in Nat /\ bestHeight \in Nat
      BY <1>1 DEF CatchUpInv, TypeOK, Producing
    <3>3. Limit \in Int
      BY <3>2, Constants DEF Limit
    <3> QED
      BY <3>1, <3>2, <3>3 DEF LoopEnds
  <2>2. Height(begun) \in Nat /\ Limit \in Int
    BY <2>1, HeightIsNat, Constants DEF Limit
  <2> QED
    BY <2>1, <2>2
<1>7. \/ producer' \in {"fetch", "send"} => producer = "fetch" \/ producer' = "fetch"
      \/ Send
  BY DEF CheckLoop, Fetch, FetchFails, Send, EndProduction
<1>8. Send => producer = "send"
  BY DEF Send
<1>9. Fetching'
  <2>1. \/ producer \in {"fetch", "send"} \/ ibCh # <<>> \/ caller = "process" \/ lrzTip # begun
        \/ producer' = "fetch"
        \/ ~(producer' \in {"fetch", "send"} \/ ibCh' # <<>> \/ caller' = "process"
                \/ lrzTip' # begun')
    BY <1>1, <1>4, <1>7, <1>8
  <2>2. \/ Height(begun) + 1 < Limit
        \/ ~(producer' \in {"fetch", "send"} \/ ibCh' # <<>> \/ caller' = "process"
                \/ lrzTip' # begun')
    BY <1>6, <2>1 DEF ForkInv, Fetching
  <2> QED
    BY <1>1, <1>2, <2>2 DEF Fetching, Height
<1>10. Following' /\ Abandoned' /\ Outcome'
  BY <1>1, <1>2 DEF ForkInv, Following, MovedTo, Abandoned, Outcome, OnChain, Height
<1> QED
  BY <1>5, <1>9, <1>10 DEF ForkInv

LEMMA ForkInit ==
  ASSUME Init
  PROVE  ForkInv
<1>1. 0 <= Height(btcTip)
  BY HeightIsNat, CatchUpAssumption DEF CatchUpAssumption, Init
<1> QED
  BY <1>1 DEF Init, ForkInv, Fetched, Fetching, Following, MovedTo, Abandoned, Outcome, Settled

LEMMA ForkNext ==
  ASSUME ShallowForks, HeavierIsHigher, CatchUpInv, ForkInv, [Next]_vars
  PROVE  ForkInv'
<1>1. CASE GetBestBlock \/ AlreadyClose \/ Begin
  BY <1>1, StartForks
<1>2. CASE TakeBatch
  BY <1>2, TakeBatchForks
<1>3. CASE Process
  BY <1>3, ProcessForks
<1>4. CASE TakeError \/ Return \/ Stop \/ UNCHANGED vars
  BY <1>4, OtherForks
<1>5. CASE CheckLoop \/ Fetch \/ FetchFails \/ Send
  BY <1>5, ProducerForks
<1>6. CASE CallerRequestFails
  BY <1>6, CallerRequestFailsForks
<1>7. CASE \E t \in Block : NodeAdvance(t)
  BY <1>7, NodeAdvanceForks
<1> QED
  BY <1>1, <1>2, <1>3, <1>4, <1>5, <1>6, <1>7 DEF Next, Caller, Producer, Environment

LEMMA ForkAlways ==
  ASSUME ShallowForks, HeavierIsHigher
  PROVE  Spec => [](CatchUpInv /\ ForkInv)
<1>1. Init => CatchUpInv /\ ForkInv
  BY CatchUpInit, ForkInit
<1>2. CatchUpInv /\ ForkInv /\ [Next]_vars => (CatchUpInv /\ ForkInv)'
  BY CatchUpNext, ForkNext
<1> QED
  BY <1>1, <1>2, PTL DEF Spec

(***************************************************************************)
(* Whichever reorganisations of up to 2K blocks happen between the         *)
(* fetches, the panic about a batch that does not extend what was          *)
(* submitted last means that the node had abandoned Lorenzo's chain before *)
(* the program started (bootstrapping.go 291-304).                         *)
(***************************************************************************)
THEOREM StaleForkAlwaysLorenzos ==
  ASSUME ShallowForks, HeavierIsHigher
  PROVE  Spec => []StaleForkIsLorenzos
<1>1. CatchUpInv /\ ForkInv => StaleForkIsLorenzos
  BY DEF ForkInv, Abandoned, StaleForkIsLorenzos
<1> QED
  BY <1>1, ForkAlways, PTL

-----------------------------------------------------------------------------
(***************************************************************************)
(* The goroutines implement Reporter's Start.  Faults are bounded by       *)
(* height in Reporter; the bound that CatchUp gives it is the tree's.      *)
(***************************************************************************)
HighestExists == \E t \in Block : \A b \in Block : Height(b) <= Height(t)

LEMMA BelowTop ==
  ASSUME HighestExists, NEW b \in Block
  PROVE  Height(b) <= TopHeight
<1> DEFINE heights == {Height(x) : x \in Block}
<1>1. \E n \in heights : \A x \in Block : Height(x) <= n
  BY DEF HighestExists
<1>2. \A x \in Block : Height(x) <= TopHeight
  BY <1>1 DEF TopHeight
<1> QED
  BY <1>2

\* Any two chains part somewhere.
LEMMA ForkHeightExists ==
  ASSUME NEW s \in Block, NEW t \in Block
  PROVE  \E f \in 0..Height(t) : ReporterStart!ForkHeight(s, t, f)
<1> DEFINE Same(f) == f < Len(s) /\ f < Len(t) /\ s[f + 1] = t[f + 1]
           T == {f \in Nat : ~Same(f)}
<1>1. /\ s \in Seq(Nat) /\ t \in Seq(Nat) /\ Len(s) \in Nat /\ Len(t) \in Nat
  BY BlockIsPath
<1>2. Len(s) \in T
  BY <1>1
<1>3. PICK f \in T : \A k \in T : f <= k
  <2>1. T \subseteq Nat /\ T # {}
    BY <1>2
  <2> HIDE DEF T
  <2> QED
    BY <2>1, LeastNatural
<1>4. f \in Nat /\ ~Same(f)
  OBVIOUS
<1>5. \A k \in 0..(f - 1) : Same(k)
  <2> SUFFICES ASSUME NEW k \in 0..(f - 1), ~Same(k)
               PROVE  FALSE
    OBVIOUS
  <2>1. k \in Nat /\ k < f
    BY <1>4
  <2>2. k \in T
    BY <2>1
  <2>3. f <= k /\ f \in Nat
    <3> HIDE DEF T
    <3> QED
      BY <1>3, <1>4, <2>2
  <2> HIDE DEF T, Same
  <2> QED
    BY <2>1, <2>3
<1>6. f <= Len(s) /\ f <= Len(t)
  <2>1. CASE f = 0
    BY <1>1, <2>1
  <2>2. CASE f # 0
    <3>1. f - 1 \in 0..(f - 1)
      BY <1>4, <2>2
    <3>2. Same(f - 1)
      BY <1>5, <3>1
    <3> QED
      BY <1>1, <1>4, <3>2
  <2> QED
    BY <2>1, <2>2
<1>7. \A i \in 1..f : s[i] = t[i]
  <2> TAKE i \in 1..f
  <2>1. i - 1 \in 0..(f - 1) /\ i - 1 + 1 = i
    BY <1>4
  <2>2. Same(i - 1)
    BY <1>5, <2>1
  <2> QED
    BY <2>1, <2>2
<1>8. SubSeq(s, 1, f) = SubSeq(t, 1, f)
  <2> HIDE DEF T, Same
  <2> QED
    BY <1>1, <1>4, <1>6, <1>7
<1> QED
  BY <1>1, <1>4, <1>6, <1>8 DEF ReporterStart!ForkHeight, Height

\* Where the function may leave Lorenzo's tip.
LEMMA MovedIsCatchUpTip ==
  ASSUME CatchUpInv, ForkInv, ~Ended, NEW tip \in Block, MovedTo(tip)
  PROVE  /\ tip \in ReporterStart!CatchUpTips
         /\ tip # begun => ReporterStart!Behind
<1> DEFINE lim == Height(btcTip) - 2 * K
<1>1. begun \in Block /\ btcTip \in Block /\ bestHeight \in Nat /\ bestHeight <= Height(btcTip)
  BY DEF CatchUpInv, TypeOK, ForkInv, Fetched
<1>2. /\ Height(begun) \in Nat /\ Height(tip) \in Nat /\ Height(btcTip) \in Nat /\ lim \in Int
      /\ Height(begun) >= 1 /\ Height(tip) >= 1
      /\ Limit \in Int /\ Limit <= lim /\ K \in Nat
  BY <1>1, HeightIsNat, Constants DEF Limit, CloseGap
<1>3. /\ ReporterStart!CatchUpLimit = lim
      /\ ReporterStart!Behind <=> Height(begun) < lim
      /\ ReporterStart!Fetches <=> Height(begun) + 1 < lim
      /\ ReporterStart!CatchUpTips =
           IF Height(begun) + 1 < lim /\ OnChain(begun, btcTip)
             THEN {AncestorAt(btcTip, n) : n \in Height(begun)..lim}
             ELSE {begun}
  BY DEF ReporterStart!CatchUpLimit, ReporterStart!Behind, ReporterStart!Fetches,
         ReporterStart!CatchUpTips, ReporterStart!Height, ReporterStart!OnChain,
         ReporterStart!AncestorAt, Height, OnChain, AncestorAt
<1> HIDE DEF lim
<1>4. CASE tip = begun
  <2>1. OnChain(begun, btcTip) => begun = AncestorAt(btcTip, Height(begun))
    BY <1>1, OnChainIsAncestor DEF Height
  <2>2. Height(begun) + 1 < lim => Height(begun) \in Height(begun)..lim
    BY <1>2
  <2> QED
    BY <1>3, <1>4, <2>1, <2>2
<1>5. CASE tip # begun
  <2>1. /\ OnChain(begun, btcTip) /\ OnChain(tip, btcTip)
        /\ Height(begun) < Height(tip) /\ Height(tip) <= Limit /\ Height(begun) + 1 < Limit
    BY <1>5 DEF MovedTo
  <2>2. /\ Height(begun) + 1 < lim /\ Height(begun) < lim
        /\ Height(tip) \in Height(begun)..lim
    BY <1>2, <2>1
  <2>3. tip = AncestorAt(btcTip, Height(tip))
    BY <1>1, <2>1, OnChainIsAncestor DEF Height
  <2> QED
    BY <1>3, <2>1, <2>2, <2>3
<1> QED
  BY <1>4, <1>5

\* The steps in which the function returns.
LEMMA ReturningMaps ==
  ASSUME CatchUpInv, ForkInv, ~Ended, caller' = "returned", panic' = "none",
         UNCHANGED <<btcTip, buried, begun, lrzTip>>
  PROVE  ReporterStart!Start
<1>1. lrzTip \in Block /\ MovedTo(lrzTip) /\ panic = "none" /\ caller # "returned" /\ caller # "down"
  BY DEF CatchUpInv, TypeOK, ForkInv, Following, Outcome, Ended
<1>2. /\ lrzTip \in ReporterStart!CatchUpTips
      /\ lrzTip # begun => ReporterStart!Behind
  BY <1>1, MovedIsCatchUpTip
<1>3. Ended' /\ ~Ended
  BY DEF Ended
<1>4. CASE ReporterStart!Behind
  <2>1. ReporterStart!CatchUp
    BY <1>1, <1>2, <1>3, <1>4 DEF ReporterStart!CatchUp, ReporterStart!BeginBootstrap,
      ReporterStart!NoReorg, ReporterStart!NoEvent, ReporterStart!NoBlock, NoBlock,
      ReporterStart!subscription, ReporterStart!node
  <2> QED
    BY <2>1 DEF ReporterStart!Start
<1>5. CASE ~ReporterStart!Behind
  <2>1. ReporterStart!AlreadyClose
    BY <1>1, <1>2, <1>3, <1>5 DEF ReporterStart!AlreadyClose, ReporterStart!BeginBootstrap,
      ReporterStart!NoReorg, ReporterStart!NoEvent, ReporterStart!NoBlock, NoBlock,
      ReporterStart!subscription, ReporterStart!node
  <2> QED
    BY <2>1 DEF ReporterStart!Start
<1> QED
  BY <1>4, <1>5

\* The steps in which a request fails.
LEMMA FailingMaps ==
  ASSUME HighestExists, CatchUpInv, ForkInv, ~Ended, lrzTip' \in Block, MovedTo(lrzTip'),
         Panic("requestFailed"), UNCHANGED <<btcTip, buried, begun>>
  PROVE  ReporterStart!BTCRequestFails
<1>1. /\ panic = "none" /\ caller # "returned" /\ caller # "down" /\ btcTip \in Block
      /\ caller' = "down" /\ panic' = "requestFailed"
  BY DEF CatchUpInv, TypeOK, ForkInv, Outcome, Ended, Panic
<1>2. lrzTip' \in ReporterStart!CatchUpTips
  BY MovedIsCatchUpTip
<1>3. Ended' /\ ~Ended
  BY <1>1 DEF Ended
<1>4. ReporterStart!Fault("btc")
  <2>1. Height(btcTip) <= TopHeight
    BY <1>1, BelowTop
  <2> QED
    BY <1>1, <2>1 DEF ReporterStart!Fault, ReporterStart!Height, Height
<1>5. ReporterStart!CatchUpFails
  BY <1>1, <1>2, <1>3 DEF ReporterStart!CatchUpFails, ReporterStart!Exit, ReporterStart!NoReorg,
    ReporterStart!NoEvent, ReporterStart!NoBlock, NoBlock, ReporterStart!NoCache, NoCache
<1>6. UNCHANGED ReporterStart!node
  BY DEF ReporterStart!node
<1> QED
  BY <1>4, <1>5, <1>6 DEF ReporterStart!BTCRequestFails

\* The step in which the batch does not extend Lorenzo's tip.
LEMMA StaleForkMaps ==
  ASSUME CatchUpInv, ForkInv, TakeBatch, Parent(Head(ibCh)[1]) # newTip
  PROVE  ReporterStart!Start
<1>1. /\ caller = "select" /\ ibCh # <<>> /\ Panic("staleFork")
      /\ UNCHANGED <<btcTip, buried, begun, lrzTip>>
  BY DEF TakeBatch
<1>2. /\ panic = "none" /\ caller # "returned" /\ caller # "down"
      /\ caller' = "down" /\ panic' = "staleFork"
  BY <1>1 DEF ForkInv, Outcome, Panic
<1>3. Ended' /\ ~Ended
  BY <1>2 DEF Ended
<1>4. ~OnChain(lrzTip, btcTip) /\ Height(begun) + 1 < Limit
  BY <1>1, TakenBatch
<1>5. lrzTip = begun
  BY <1>4 DEF ForkInv, Following, MovedTo
<1>6. ReporterStart!Fetches /\ ~ReporterStart!OnChain(begun, btcTip)
  <2>1. begun \in Block /\ btcTip \in Block /\ bestHeight \in Nat /\ bestHeight <= Height(btcTip)
    BY DEF CatchUpInv, TypeOK, ForkInv, Fetched
  <2>2. Height(begun) \in Nat /\ Height(btcTip) \in Nat /\ K \in Nat /\ 2 * K \in Nat
    BY <2>1, HeightIsNat, Constants
  <2>3. Height(begun) + 1 < bestHeight - 2 * K
    BY <1>4 DEF Limit, CloseGap
  <2>4. Height(begun) + 1 < Height(btcTip) - 2 * K
    BY <2>1, <2>2, <2>3
  <2>5. ReporterStart!Fetches
    BY <1>3, <2>4 DEF ReporterStart!Fetches, ReporterStart!CatchUpLimit, ReporterStart!Height, Height
  <2> QED
    BY <1>4, <1>5, <2>5 DEF ReporterStart!OnChain, OnChain
<1>7. ReporterStart!Exit("staleFork")
  BY <1>2 DEF ReporterStart!Exit, ReporterStart!NoReorg, ReporterStart!NoEvent,
    ReporterStart!NoBlock, NoBlock, ReporterStart!NoCache, NoCache
<1>8. ReporterStart!CatchUpOnStaleFork
  BY <1>1, <1>2, <1>3, <1>5, <1>6, <1>7 DEF ReporterStart!CatchUpOnStaleFork, ReporterStart!node
<1> QED
  BY <1>8 DEF ReporterStart!Start

\* The steps Reporter does not see.
LEMMA StutterMaps ==
  ASSUME UNCHANGED <<btcTip, buried, begun, panic>>,
         (~Ended /\ ~Ended') \/ UNCHANGED <<lrzTip, caller>>
  PROVE  UNCHANGED ReporterStart!vars
<1>1. (IF Ended THEN lrzTip ELSE begun)' = (IF Ended THEN lrzTip ELSE begun)
  BY DEF Ended
<1>2. (caller' = "returned" <=> caller = "returned") /\ (caller' = "down" <=> caller = "down")
  BY DEF Ended
<1> QED
  BY <1>1, <1>2 DEF ReporterStart!vars

LEMMA NodeAdvanceMaps ==
  ASSUME CatchUpInv, NEW t \in Block, NodeAdvance(t)
  PROVE  ReporterStart!NodeAdvance(t)
<1>1. /\ ChainWork[t] > ChainWork[btcTip] /\ btcTip' = t /\ buried' = buried \cup Buried(t)
      /\ UNCHANGED <<lrzTip, begun, caller, panic>> /\ btcTip \in Block
  BY DEF NodeAdvance, callerVars, CatchUpInv, TypeOK
<1>2. Ended' = Ended
  BY <1>1 DEF Ended
<1>3. ReporterStart!Matured(t) = Buried(t)
  BY DEF ReporterStart!Matured, ReporterStart!AncestorAt, ReporterStart!Height, Buried, AncestorAt,
    Height
<1>4. \E f \in 0..Height(t) : ReporterStart!ForkHeight(btcTip, t, f)
  BY <1>1, ForkHeightExists
<1>5. ReporterStart!Height(t) = Height(t)
  BY DEF ReporterStart!Height, Height
<1> QED
  BY <1>1, <1>2, <1>3, <1>4, <1>5 DEF ReporterStart!NodeAdvance, ReporterStart!memory

LEMMA InitMaps ==
  ASSUME Init
  PROVE  ReporterStart!Init
<1>1. ReporterStart!Matured(btcTip) = Buried(btcTip)
  BY DEF ReporterStart!Matured, ReporterStart!AncestorAt, ReporterStart!Height, Buried, AncestorAt,
    Height
<1> QED
  BY <1>1 DEF Init, Ended, ReporterStart!Init, ReporterStart!NoReorg, ReporterStart!NoEvent,
    ReporterStart!NoBlock, NoBlock, ReporterStart!NoCache, NoCache

LEMMA StepMaps ==
  ASSUME HighestExists, ShallowForks, HeavierIsHigher, CatchUpInv, ForkInv, [Next]_vars
  PROVE  [StartStep]_(ReporterStart!vars)
<1>1. CatchUpInv' /\ ForkInv'
  BY CatchUpNext, ForkNext
<1>2. MovedTo(lrzTip)' /\ lrzTip' \in Block
  BY <1>1 DEF CatchUpInv, TypeOK, ForkInv, Following
<1>3. CASE GetBestBlock \/ Begin
  <2>1. ~Ended /\ ~Ended' /\ UNCHANGED <<btcTip, buried, begun, panic>>
    BY <1>3 DEF GetBestBlock, Begin, Ended
  <2> QED
    BY <2>1, StutterMaps
<1>4. CASE AlreadyClose \/ Return
  <2>1. ~Ended /\ caller' = "returned" /\ UNCHANGED <<btcTip, buried, begun, lrzTip, panic>>
    BY <1>4 DEF AlreadyClose, Return, Ended
  <2>2. panic' = "none"
    BY <2>1 DEF ForkInv, Outcome, Ended
  <2>3. ReporterStart!Start
    BY <2>1, <2>2, ReturningMaps
  <2> QED
    BY <2>3 DEF StartStep
<1>5. CASE TakeBatch
  <2>1. CASE Parent(Head(ibCh)[1]) # newTip
    BY <1>5, <2>1, StaleForkMaps DEF StartStep
  <2>2. CASE Parent(Head(ibCh)[1]) = newTip
    <3>1. ~Ended /\ ~Ended' /\ UNCHANGED <<btcTip, buried, begun, panic>>
      BY <1>5, <2>2 DEF TakeBatch, Ended
    <3> QED
      BY <3>1, StutterMaps
  <2> QED
    BY <2>1, <2>2
<1>6. CASE Process
  <2>1. ~Refused
    BY <1>6, BatchIsMissing DEF Process
  <2>2. ~Ended /\ ~Ended' /\ UNCHANGED <<btcTip, buried, begun, panic>>
    BY <1>6, <2>1 DEF Process, Ended
  <2> QED
    BY <2>2, StutterMaps
<1>7. CASE TakeError \/ CallerRequestFails
  <2>1. ~Ended /\ Panic("requestFailed") /\ UNCHANGED <<btcTip, buried, begun, bestHeight>>
    BY <1>7 DEF TakeError, CallerRequestFails, Panic, Ended
  <2>2. MovedTo(lrzTip')
    BY <1>2, <2>1 DEF MovedTo, Limit, CloseGap, OnChain, Height
  <2>3. ReporterStart!BTCRequestFails
    BY <1>2, <2>1, <2>2, FailingMaps
  <2> QED
    BY <2>3 DEF StartStep
<1>8. CASE CheckLoop \/ Fetch \/ FetchFails \/ Send \/ Stop \/ UNCHANGED vars
  <2>1. UNCHANGED <<btcTip, buried, begun, panic, lrzTip, caller>>
    BY <1>8 DEF CheckLoop, Fetch, FetchFails, Send, Stop, callerVars, vars
  <2> QED
    BY <2>1, StutterMaps
<1>9. CASE \E t \in Block : NodeAdvance(t)
  BY <1>9, NodeAdvanceMaps DEF StartStep
<1> QED
  BY <1>3, <1>4, <1>5, <1>6, <1>7, <1>8, <1>9 DEF Next, Caller, Producer, Environment

(***************************************************************************)
(* Seen from Reporter, the two goroutines, their channels and the select   *)
(* are one step of Start: Lorenzo's tip is left on the node's chain where  *)
(* CatchUp may leave it, or the process ends as CatchUpOnStaleFork or a    *)
(* failed request ends it (reporter.go 98-102, bootstrapping.go 234-314).  *)
(***************************************************************************)
THEOREM ImplementsStart ==
  ASSUME HighestExists, ShallowForks, HeavierIsHigher
  PROVE  Spec => ImplementsReporterStart
<1>1. Init => ReporterStart!Init
  BY InitMaps
<1>2. CatchUpInv /\ ForkInv /\ [Next]_vars => [StartStep]_(ReporterStart!vars)
  BY StepMaps
<1> QED
  BY <1>1, <1>2, ForkAlways, PTL DEF Spec, ImplementsReporterStart
=============================================================================
