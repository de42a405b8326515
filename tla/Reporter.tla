------------------------------ MODULE Reporter ------------------------------
(***************************************************************************)
(* The BTC reporter (reporter/): it follows the best chain of a Bitcoin    *)
(* node and relays its headers, once buried by Delay blocks, to Lorenzo's  *)
(* light client.                                                           *)
(*                                                                         *)
(* One process runs Start, then blockEventHandler.  It is cut at the calls *)
(* that leave it: between two of them the node may move to a heavier chain *)
(* and another relayer may insert headers.  A panic, a Fatalf or a crash   *)
(* ends the process and loses its memory; a supervisor may restart it.     *)
(*                                                                         *)
(* A definition that nothing refers to, written just before the one it     *)
(* resembles, is a faulty variant of it; the mutants of PROJECT.json name  *)
(* the property that tells the two apart.                                  *)
(***************************************************************************)
EXTENDS BTCCache, LorenzoLightClient, SequencesExt

CONSTANTS
  K,               \* btcConfirmationDepth
  W,               \* checkpointFinalizationTimeout
  Delay,           \* delayBlocks
  MaxHeaders,      \* MaxHeadersInMsg
  BTCCacheSize,    \* capacity of the cache while bootstrapping
  MaxAttempts,     \* bootstrapAttempts
  Backend,         \* "bitcoind" or "btcd"
  BaseHeight,      \* height of Lorenzo's base header
  InitBTCTips,     \* best blocks of the node when the program starts
  InitLorenzoTips, \* tips of the light client when the program starts
  FaultKinds,      \* what may go wrong in this instance
  MaxFaults,       \* how often
  LastFaultHeight  \* and up to which height of the node's best block

ASSUME ReporterAssumption ==
  /\ K \in Nat \ {0} /\ W \in Nat /\ Delay \in Nat
  /\ MaxHeaders \in Nat \ {0} /\ BTCCacheSize \in Nat \ {0} /\ MaxAttempts \in Nat \ {0}
  /\ MaxFaults \in Nat /\ LastFaultHeight \in Nat
  /\ BaseHeight \in Nat \ {0}
  /\ InitBTCTips \subseteq Block
  /\ InitLorenzoTips \subseteq {b \in Block : Height(b) >= BaseHeight}

VARIABLES
  btcTip,          \* best block of the Bitcoin node
  matured,         \* history: blocks that were ever Delay deep in the best chain
  subscribed,      \* this process has asked for block events
  listening,       \* and gets them
  chan,            \* block events on their way, blockEventChan included
  lrzTip,          \* tip of Lorenzo's light client
  pc,              \* where the reporter's process is
  cache,           \* btcCache
  reorgList,       \* removed blocks, and the sum of their work
  event,           \* the event being handled, or NoEvent
  headers,         \* ProcessHeaders' blocks that are still to be submitted
  skip,            \* skipBlockSubscription of the running bootstrap
  attempts,        \* failed attempts of the running bootstrapWithRetries
  exit,            \* why the process ended last
  faults           \* faults spent

node == <<btcTip, matured>>
subscription == <<subscribed, listening, chan>>
memory == <<pc, cache, reorgList, event, headers, skip, attempts>>
vars == <<btcTip, matured, subscribed, listening, chan, lrzTip, pc, cache, reorgList,
          event, headers, skip, attempts, exit, faults>>

Events == [type : {"connected", "disconnected"}, block : Block]
NoEvent == [type |-> "none", block |-> NoBlock]
NoReorg == [blocks |-> <<>>, work |-> 0]

BootstrapSteps == {"bootstrap", "initCache", "subscribe", "consistency"}
Steps == BootstrapSteps
           \cup {"start", "dedup", "insert", "idle", "mature", "handle", "lorenzoTip", "down"}

\* The panics and exits of the code, by what causes them.
Panics == {"staleFork", "initCache", "alreadySubscribed", "notInCache", "inconsistent",
           "nothingToSync", "cacheAdd", "reorgRange"}
Exits == Panics \cup {"running", "requestFailed", "fatal", "crash"}

\* The steps that have an event in hand.
EventSteps == {"mature", "handle", "lorenzoTip"}

WorldTypeOK ==
  /\ btcTip \in Block /\ lrzTip \in Block
  /\ matured \subseteq Block
  /\ faults \in 0..MaxFaults

ProcessTypeOK ==
  /\ subscribed \in BOOLEAN /\ listening \in BOOLEAN /\ chan \in Seq(Events)
  /\ pc \in Steps
  /\ cache \in [blocks : Seq(Block), maxEntries : Nat]
  /\ reorgList \in [blocks : Seq(Block), work : Nat]
  /\ event \in Events \cup {NoEvent} /\ (pc \in EventSteps => event # NoEvent)
  /\ headers \in Seq(Block) /\ (pc = "insert" => headers # <<>>)
  /\ skip \in BOOLEAN /\ attempts \in 0..(MaxAttempts - 1)
  /\ exit \in Exits

TypeOK == WorldTypeOK /\ ProcessTypeOK

-----------------------------------------------------------------------------
(***************************************************************************)
(* The Bitcoin node.                                                       *)
(***************************************************************************)
\* History, for the properties: the blocks that are Delay deep under this tip.
Matured(tip) == {AncestorAt(tip, h) : h \in 1..(Height(tip) - Delay)}

\* s and t share their first f blocks and no more.
ForkHeight(s, t, f) ==
  /\ f <= Len(s) /\ f <= Len(t)
  /\ SubSeq(s, 1, f) = SubSeq(t, 1, f)
  /\ f < Len(s) /\ f < Len(t) => s[f + 1] # t[f + 1]

\* A node leaves s for t: it disconnects from the tip down, then connects upwards.
ReorgEvents(s, t, f) ==
  [i \in 1..(Len(s) - f) |-> [type |-> "disconnected", block |-> SubSeq(s, 1, Len(s) - i + 1)]]
  \o [i \in 1..(Len(t) - f) |-> [type |-> "connected", block |-> SubSeq(t, 1, f + i)]]

NodeAdvance(t) ==
  /\ ChainWork[t] > ChainWork[btcTip]
  /\ btcTip' = t
  /\ matured' = matured \cup Matured(t)
  /\ \E f \in 0..Height(t) :
       /\ ForkHeight(btcTip, t, f)
       /\ chan' = IF listening THEN chan \o ReorgEvents(btcTip, t, f) ELSE chan
  /\ UNCHANGED <<subscribed, listening, lrzTip, memory, exit, faults>>

-----------------------------------------------------------------------------
(***************************************************************************)
(* What the steps of the process have in common.                           *)
(***************************************************************************)
Fault(kind) ==
  /\ kind \in FaultKinds
  /\ faults < MaxFaults /\ Height(btcTip) <= LastFaultHeight
  /\ faults' = faults + 1

\* The process ends; its memory and its subscription are gone.
Exit(reason) ==
  /\ pc' = "down" /\ exit' = reason
  /\ cache' = NoCache /\ reorgList' = NoReorg
  /\ event' = NoEvent /\ headers' = <<>>
  /\ skip' = FALSE /\ attempts' = 0
  /\ subscribed' = FALSE /\ listening' = FALSE /\ chan' = <<>>

\* Attempt n of bootstrapWithRetries(skp) begins: bootstrap clears the reorg list.
\* The cache it finds is not read before InitBTCCache replaces it.
BeginBootstrapKeepingReorg(skp, n) ==
  /\ pc' = "bootstrap" /\ skip' = skp /\ attempts' = n
  /\ event' = NoEvent /\ headers' = <<>>
  /\ UNCHANGED <<cache, reorgList, exit, subscription>>

BeginBootstrap(skp, n) ==
  /\ pc' = "bootstrap" /\ skip' = skp /\ attempts' = n
  /\ reorgList' = NoReorg /\ event' = NoEvent /\ headers' = <<>>
  /\ UNCHANGED <<cache, exit, subscription>>

RetrySkippingSubscription ==
  IF attempts + 1 = MaxAttempts THEN Exit("fatal") ELSE BeginBootstrap(TRUE, attempts + 1)

BootstrapFails ==
  IF attempts + 1 = MaxAttempts THEN Exit("fatal") ELSE BeginBootstrap(skip, attempts + 1)

\* An error of an event handler asks for a bootstrap without a new subscription.
RestartBootstrap == BeginBootstrap(TRUE, 0)

\* The process goes on at step p, with its bootstrap counters as they are.
Goto(p) == pc' = p /\ UNCHANGED <<skip, attempts, exit>>

EventDone ==
  /\ Goto("idle")
  /\ event' = NoEvent /\ headers' = <<>>

\* ProcessHeaders is called by bootstrap, or for the event in hand.
InBootstrap == event = NoEvent

ProcessingSucceeds ==
  IF InBootstrap
    THEN /\ pc' = "idle" /\ skip' = FALSE /\ attempts' = 0
         /\ cache' = Trim(Resize(cache, K + W))
         /\ headers' = <<>>
         /\ UNCHANGED <<reorgList, event, exit, subscription>>
    ELSE EventDone /\ UNCHANGED <<cache, reorgList, subscription>>

\* bootstrap returns the error; handleConnectedBlocks only logs it.
ProcessingFails ==
  IF InBootstrap
    THEN BootstrapFails
    ELSE EventDone /\ UNCHANGED <<cache, reorgList, subscription>>

-----------------------------------------------------------------------------
(***************************************************************************)
(* Start: waitLorenzoCatchUpCloseToBTCTip.  A producer fetches the blocks  *)
(* up to 2K below the tip, if there are at least two of them, and a        *)
(* consumer submits them.  The last batch may end at CatchUpLimit or one   *)
(* below.  The consumer may see the end of the production before it has    *)
(* taken the batches that wait in the channel, so catching up may end at   *)
(* any height on the way, and without having looked at the first batch.    *)
(***************************************************************************)
CatchUpLimitAtTip == Height(btcTip)
CatchUpLimit == Height(btcTip) - 2 * K
Behind == Height(lrzTip) < CatchUpLimit
Fetches == Height(lrzTip) + 1 < CatchUpLimit

CatchUpTips ==
  IF Fetches /\ OnChain(lrzTip, btcTip)
    THEN {AncestorAt(btcTip, h) : h \in Height(lrzTip)..CatchUpLimit}
    ELSE {lrzTip}

AlreadyClose ==
  /\ pc = "start" /\ ~Behind
  /\ BeginBootstrap(FALSE, 0)
  /\ UNCHANGED <<node, lrzTip, faults>>

CatchUp ==
  /\ pc = "start" /\ Behind
  /\ lrzTip' \in CatchUpTips
  /\ BeginBootstrap(FALSE, 0)
  /\ UNCHANGED <<node, faults>>

\* The first batch does not extend Lorenzo's tip.
CatchUpOnStaleFork ==
  /\ pc = "start" /\ Fetches
  /\ ~OnChain(lrzTip, btcTip)
  /\ Exit("staleFork")
  /\ UNCHANGED <<node, lrzTip, faults>>

\* A request fails on the way: an error, or a failed submission, makes Start panic.
CatchUpFails ==
  /\ pc = "start"
  /\ lrzTip' \in CatchUpTips
  /\ Exit("requestFailed")

-----------------------------------------------------------------------------
(***************************************************************************)
(* bootstrap, step by step.                                                *)
(***************************************************************************)
WaitUntilBTCSync ==
  /\ pc = "bootstrap"
  /\ Height(btcTip) >= Height(lrzTip)
  /\ Goto("initCache")
  /\ UNCHANGED <<node, subscription, lrzTip, cache, reorgList, event, headers, faults>>

CacheBaseHeightWithoutW ==
  IF Height(lrzTip) > BaseHeight + K + W THEN Height(lrzTip) - K + 1 ELSE BaseHeight

CacheBaseHeight ==
  IF Height(lrzTip) > BaseHeight + K + W THEN Height(lrzTip) - K - W + 1 ELSE BaseHeight

InitBTCCache ==
  LET fresh == NewBTCCache(BTCCacheSize)
      ibs   == ChainSegment(btcTip, CacheBaseHeight, Height(btcTip))
  IN  /\ pc = "initCache"
      /\ IF Height(btcTip) < CacheBaseHeight \/ TooManyEntries(fresh, ibs)
           THEN Exit("initCache")
           ELSE /\ cache' = AddAll(fresh, ibs)
                /\ Goto("subscribe")
                /\ UNCHANGED <<subscription, reorgList, event, headers>>
      /\ UNCHANGED <<node, lrzTip, faults>>

(***************************************************************************)
(* MustSubscribeBlocks.  bitcoind's zmq client refuses a second            *)
(* subscription; the first one is only posted to zmqHandler, which gets to *)
(* it later.  With btcd, the node has answered when NotifyBlocks returns.  *)
(***************************************************************************)
AlreadySubscribed == subscribed /\ Backend = "bitcoind"

Subscribe ==
  /\ pc = "subscribe"
  /\ IF ~skip /\ AlreadySubscribed
       THEN Exit("alreadySubscribed")
       ELSE /\ subscribed' = (subscribed \/ ~skip)
            /\ listening' = (listening \/ (~skip /\ Backend = "btcd"))
            /\ Goto("consistency")
            /\ UNCHANGED <<chan, cache, reorgList, event, headers>>
  /\ UNCHANGED <<node, lrzTip, faults>>

\* zmqHandler receives "subscribe" and passes it on to the node.
SubscriptionBegins ==
  /\ subscribed /\ ~listening
  /\ listening' = TRUE
  /\ UNCHANGED <<node, subscribed, chan, lrzTip, memory, exit, faults>>

ConsistencyHeight ==
  IF Height(lrzTip) >= BaseHeight + K THEN Height(lrzTip) - K ELSE BaseHeight

\* ibs[:len(ibs)-delayBlocks]
WithoutDelayAndOneMore(ibs) == SubSeq(ibs, 1, Len(ibs) - Delay - 1)
WithoutDelay(ibs) == SubSeq(ibs, 1, Len(ibs) - Delay)

(***************************************************************************)
(* checkConsistency and the slice of bootstrap: the headers above the      *)
(* confirmed one, without the last Delay.  Slicing off more than there is  *)
(* panics, and so does ProcessHeaders on an empty list (its deferred log). *)
(***************************************************************************)
CheckConsistency ==
  LET confirmed == FindBlock(cache, ConsistencyHeight)
      ibs       == GetLastBlocks(cache, ConsistencyHeight + 1)
  IN  /\ pc = "consistency"
      /\ IF confirmed = NoBlock THEN Exit("notInCache")
         ELSE IF ~ContainsBTCBlock(lrzTip, confirmed) THEN Exit("inconsistent")
         ELSE IF HeightOutOfRange(cache, ConsistencyHeight + 1) \/ Len(ibs) <= Delay
           THEN Exit("nothingToSync")
         ELSE /\ headers' = WithoutDelay(ibs)
              /\ Goto("dedup")
              /\ UNCHANGED <<subscription, cache, reorgList, event>>
      /\ UNCHANGED <<node, lrzTip, faults>>

-----------------------------------------------------------------------------
(***************************************************************************)
(* ProcessHeaders.                                                         *)
(***************************************************************************)
\* getHeaderMsgsToSubmit: drop the headers before the first one Lorenzo lacks.
DedupOneTooMany ==
  LET missing == {i \in 1..Len(headers) : ~ContainsBTCBlock(lrzTip, headers[i])}
  IN  /\ pc = "dedup"
      /\ IF missing = {}
           THEN ProcessingSucceeds
           ELSE /\ \E i \in missing :
                     /\ \A k \in missing : i <= k
                     /\ headers' = SubSeq(headers, i + 1, Len(headers))
                /\ Goto("insert")
                /\ UNCHANGED <<subscription, cache, reorgList, event>>
      /\ UNCHANGED <<node, lrzTip, faults>>

Dedup ==
  LET missing == {i \in 1..Len(headers) : ~ContainsBTCBlock(lrzTip, headers[i])}
  IN  /\ pc = "dedup"
      /\ IF missing = {}
           THEN ProcessingSucceeds
           ELSE /\ \E i \in missing :
                     /\ \A k \in missing : i <= k
                     /\ headers' = SubSeq(headers, i, Len(headers))
                /\ Goto("insert")
                /\ UNCHANGED <<subscription, cache, reorgList, event>>
      /\ UNCHANGED <<node, lrzTip, faults>>

\* chunkBy: the next message, and what is left after it.
Chunk == SubSeq(headers, 1, IF Len(headers) < MaxHeaders THEN Len(headers) ELSE MaxHeaders)
Rest == SubSeq(headers, Len(Chunk) + 1, Len(headers))

\* submitHeaderMsgs for one message; a failed one ends ProcessHeaders.
SubmitChunk ==
  /\ pc = "insert"
  /\ IF ~Accepts(lrzTip, Chunk)
       THEN ProcessingFails /\ UNCHANGED lrzTip
       ELSE /\ lrzTip' = InsertHeaders(Chunk)
            /\ IF Rest = <<>>
                 THEN ProcessingSucceeds
                 ELSE /\ headers' = Rest
                      /\ Goto("insert")
                      /\ UNCHANGED <<subscription, cache, reorgList, event>>
  /\ UNCHANGED <<node, faults>>

-----------------------------------------------------------------------------
(***************************************************************************)
(* blockEventHandler.                                                      *)
(***************************************************************************)
ReceiveEvent ==
  /\ pc = "idle" /\ chan # <<>>
  /\ event' = Head(chan) /\ chan' = Tail(chan)
  /\ Goto("mature")
  /\ UNCHANGED <<node, subscribed, listening, lrzTip, cache, reorgList, headers, faults>>

\* The block is Delay deep, by height: it may have left the best chain.
AtBestHeight == Height(btcTip) >= Height(event.block)
DeepEnough == Height(btcTip) >= Delay + Height(event.block)

Mature ==
  /\ pc = "mature"
  /\ DeepEnough
  /\ Goto("handle")
  /\ UNCHANGED <<node, subscription, lrzTip, cache, reorgList, event, headers, faults>>

Connecting == pc = "handle" /\ event.type = "connected"

\* handleConnectedBlocks returns an error before it changes anything.
ConnectMismatchNoParentCheck ==
  LET b     == event.block
      found == FindBlock(cache, Height(b))
  IN  \/ ~OnChain(b, btcTip)
      \/ cache.blocks = <<>>
      \/ Height(b) >= Height(First(cache)) /\ found # NoBlock /\ found # b

ConnectMismatch ==
  LET b     == event.block
      found == FindBlock(cache, Height(b))
  IN  \/ ~OnChain(b, btcTip)
      \/ cache.blocks = <<>>
      \/ /\ Height(b) >= Height(First(cache))
         /\ IF found = NoBlock THEN Parent(b) # Tip(cache) ELSE found # b

\* The block is older than the cache, or in it.
KnownToCache ==
  LET b == event.block
  IN  Height(b) < Height(First(cache)) \/ FindBlock(cache, Height(b)) # NoBlock

RejectConnected ==
  /\ Connecting /\ ConnectMismatch
  /\ RestartBootstrap
  /\ UNCHANGED <<node, lrzTip, faults>>

SkipConnected ==
  /\ Connecting /\ ~ConnectMismatch /\ KnownToCache
  /\ EventDone
  /\ UNCHANGED <<node, subscription, lrzTip, cache, reorgList, faults>>

BranchWork(s) ==
  LET sum[n \in 0..Len(s)] == IF n = 0 THEN 0 ELSE sum[n - 1] + HeaderWork(s[n])
  IN  sum[Len(s)]

BranchTies(branch) == BranchWork(branch) >= reorgList.work
BranchWins(branch) == BranchWork(branch) > reorgList.work

OldestRemoved == reorgList.blocks[Len(reorgList.blocks)]

(***************************************************************************)
(* The block extends the cache.  While a reorg is being followed, the new  *)
(* branch is submitted once it has more work than the removed blocks, and  *)
(* the list is cleared before the submission; otherwise Lorenzo's tip      *)
(* decides what to submit (QueryLorenzoTip).                               *)
(***************************************************************************)
ExtendCache ==
  LET grown  == Add(cache, event.block)
      branch == GetLastBlocks(grown, Height(OldestRemoved))
  IN  /\ Connecting /\ ~ConnectMismatch /\ ~KnownToCache
      /\ IF AddPanics(cache) THEN Exit("cacheAdd")
         ELSE IF reorgList.blocks = <<>>
           THEN /\ cache' = grown
                /\ Goto("lorenzoTip")
                /\ UNCHANGED <<subscription, reorgList, event, headers>>
         ELSE IF HeightOutOfRange(grown, Height(OldestRemoved)) THEN Exit("reorgRange")
         ELSE IF BranchWins(branch)
           THEN /\ cache' = grown
                /\ headers' = branch /\ reorgList' = NoReorg
                /\ Goto("dedup")
                /\ UNCHANGED <<subscription, event>>
         ELSE cache' = grown /\ EventDone /\ UNCHANGED <<subscription, reorgList>>
      /\ UNCHANGED <<node, lrzTip, faults>>

\* Lorenzo is behind the parent of the new block: submit from its height on.
NeverBehind == FALSE
BehindParent == Height(lrzTip) < Height(event.block) - 1

QueryLorenzoTip ==
  /\ pc = "lorenzoTip"
  /\ IF ~BehindParent
       THEN /\ headers' = <<event.block>>
            /\ Goto("dedup")
            /\ UNCHANGED <<subscription, cache, reorgList, event>>
     ELSE IF HeightOutOfRange(cache, Height(lrzTip) + 1) THEN RestartBootstrap
     ELSE /\ headers' = GetLastBlocks(cache, Height(lrzTip) + 1)
          /\ Goto("dedup")
          /\ UNCHANGED <<subscription, cache, reorgList, event>>
  /\ UNCHANGED <<node, lrzTip, faults>>

HandleDisconnected ==
  /\ pc = "handle" /\ event.type = "disconnected"
  /\ IF cache.blocks = <<>> \/ event.block # Tip(cache)
       THEN RestartBootstrap
       ELSE /\ reorgList' = [blocks |-> Append(reorgList.blocks, event.block),
                             work   |-> reorgList.work + HeaderWork(event.block)]
            /\ cache' = RemoveLast(cache)
            /\ EventDone
            /\ UNCHANGED subscription
  /\ UNCHANGED <<node, lrzTip, faults>>

-----------------------------------------------------------------------------
(***************************************************************************)
(* Faults, each taken from a budget.                                       *)
(***************************************************************************)
\* A call to Lorenzo fails after its retries; an insertion may have been applied.
LorenzoRequestFails ==
  /\ Fault("lorenzo")
  /\ \/ CatchUpFails
     \/ /\ pc \in {"bootstrap", "initCache", "consistency"}
        /\ BootstrapFails
        /\ UNCHANGED lrzTip
     \/ /\ pc = "lorenzoTip"
        /\ RestartBootstrap
        /\ UNCHANGED lrzTip
     \/ /\ pc = "dedup"
        /\ ProcessingFails
        /\ UNCHANGED lrzTip
     \/ /\ pc = "insert"
        /\ lrzTip' \in {lrzTip} \cup (IF Accepts(lrzTip, Chunk) THEN {InsertHeaders(Chunk)} ELSE {})
        /\ ProcessingFails
  /\ UNCHANGED node

\* A call to the Bitcoin node fails; the wait for maturity just asks again, and
\* bitcoind's subscription is none.
BTCRequestFails ==
  /\ Fault("btc")
  /\ \/ CatchUpFails
     \/ /\ pc = "initCache" \/ (pc = "subscribe" /\ ~skip /\ Backend = "btcd")
        /\ Exit("requestFailed")
        /\ UNCHANGED lrzTip
     \/ pc = "bootstrap" /\ BootstrapFails /\ UNCHANGED lrzTip
     \/ Connecting /\ RestartBootstrap /\ UNCHANGED lrzTip
  /\ UNCHANGED node

\* A block event does not arrive (zmq drops messages when a queue is full).
LoseEvent ==
  /\ Fault("lost")
  /\ \E i \in 1..Len(chan) : chan' = RemoveAt(chan, i)
  /\ UNCHANGED <<node, subscribed, listening, lrzTip, memory, exit>>

\* Another relayer brings Lorenzo to the heavier chain of t.
RivalInsert(t) ==
  /\ Fault("rival")
  /\ ChainWork[t] > ChainWork[lrzTip]
  /\ AncestorAt(t, BaseHeight) = AncestorAt(lrzTip, BaseHeight)
  /\ lrzTip' = t
  /\ UNCHANGED <<node, subscription, memory, exit>>

Crash ==
  /\ Fault("crash")
  /\ pc # "down"
  /\ Exit("crash")
  /\ UNCHANGED <<node, lrzTip>>

Restart ==
  /\ Fault("restart")
  /\ pc = "down"
  /\ pc' = "start"
  /\ UNCHANGED <<node, subscription, lrzTip, cache, reorgList, event, headers,
                 skip, attempts, exit>>

-----------------------------------------------------------------------------
Init ==
  /\ btcTip \in InitBTCTips /\ matured = Matured(btcTip)
  /\ lrzTip \in InitLorenzoTips
  /\ subscribed = FALSE /\ listening = FALSE /\ chan = <<>>
  /\ pc = "start" /\ exit = "running"
  /\ cache = NoCache /\ reorgList = NoReorg
  /\ event = NoEvent /\ headers = <<>>
  /\ skip = FALSE /\ attempts = 0
  /\ faults = 0

Start == AlreadyClose \/ CatchUp \/ CatchUpOnStaleFork

Bootstrap == WaitUntilBTCSync \/ InitBTCCache \/ Subscribe \/ CheckConsistency

ProcessHeaders == Dedup \/ SubmitChunk

HandleEvent ==
  \/ ReceiveEvent \/ Mature
  \/ RejectConnected \/ SkipConnected \/ ExtendCache \/ QueryLorenzoTip
  \/ HandleDisconnected

Step == Start \/ Bootstrap \/ ProcessHeaders \/ HandleEvent

Faults ==
  \/ LorenzoRequestFails \/ BTCRequestFails \/ LoseEvent
  \/ \E t \in Block : RivalInsert(t)
  \/ Crash \/ Restart

Next ==
  \/ Step
  \/ SubscriptionBegins
  \/ \E t \in Block : NodeAdvance(t)
  \/ Faults

Spec == Init /\ [][Next]_vars

-----------------------------------------------------------------------------
(***************************************************************************)
(* The process and zmqHandler take their steps as long as they can, and    *)
(* the node moves on to the heaviest chain there is.  A block mined after  *)
(* the cache was loaded and before the subscription begins causes no       *)
(* event; the next one reveals the gap once it is Delay deep               *)
(* (bootstrapping.go 86-96).  A tree ends, so the unheard move is never    *)
(* the last: blocks enough for that are still to come.                     *)
(***************************************************************************)
Unheard == ~listening /\ (subscribed \/ pc = "subscribe")

MoreToCome(t) ==
  \E b \in Block : ChainWork[b] > ChainWork[t] /\ Height(b) > Height(t) + Delay

AdvanceAndGoOn == \E t \in Block : NodeAdvance(t) /\ (Unheard => MoreToCome(t))

FairNext == Step \/ SubscriptionBegins \/ AdvanceAndGoOn \/ Faults

Fairness == WF_vars(Step) /\ WF_vars(SubscriptionBegins) /\ WF_vars(AdvanceAndGoOn)

FairSpec == Init /\ [][FairNext]_vars /\ Fairness

-----------------------------------------------------------------------------
(***************************************************************************)
(* The cache is a chain: whatever mix of bootstraps, reorgs, lost events   *)
(* and stale events it went through, each of its blocks is the parent of   *)
(* the next one.  GetLastBlocks is submitted as a list of headers that     *)
(* extend one another, and the height search of FindBlock relies on it     *)
(* (block_handler.go 130-139, bootstrapping.go 223-228).                   *)
(***************************************************************************)
CacheIsChain == IsChain(cache.blocks)

(***************************************************************************)
(* No header is handed to ProcessHeaders unless it was buried by Delay     *)
(* blocks of the node's best chain: neither by a bootstrap that fetches    *)
(* fresh blocks into the cache, nor by an event that was overtaken by a    *)
(* reorg, nor with a reorg's branch (block_handler.go 21-42,               *)
(* bootstrapping.go 117).  Block work is uniform in the run.               *)
(***************************************************************************)
OnlyMatureHeaders ==
  pc \in {"dedup", "insert"} => \A i \in 1..Len(headers) : headers[i] \in matured

(***************************************************************************)
(* The headers a bootstrap submits beat Lorenzo's chain, even if it is on  *)
(* another fork (bootstrapping.go 114-116): so they are accepted.  Stated  *)
(* for a Lorenzo tip that was itself buried on this node's chain.          *)
(***************************************************************************)
BootstrapForkAccepted ==
  pc = "insert" /\ InBootstrap /\ lrzTip \in matured => Accepts(lrzTip, Chunk)

(***************************************************************************)
(* What an event makes the reporter submit, and each message it is cut     *)
(* into, is accepted: a reorganisation's branch connects to what Lorenzo   *)
(* has, although Lorenzo is kept Delay behind, and beats it although the   *)
(* branch was compared with the removed blocks only                        *)
(* (block_handler.go 143-180).  Violated with a Delay of two or more.      *)
(***************************************************************************)
EventHeadersAccepted ==
  pc = "insert" /\ ~InBootstrap => Accepts(lrzTip, Chunk)

(***************************************************************************)
(* What an event makes the reporter submit, all messages of it, brings     *)
(* Lorenzo to the end of the cache.  Only a reorganisation's branch may be *)
(* refused, when it starts above Lorenzo's reach, as Lorenzo is kept Delay *)
(* behind; Lorenzo is then on that branch's chain, so that the next block  *)
(* makes it catch up (block_handler.go 143-195).                           *)
(***************************************************************************)
AheadOfLorenzo ==
  /\ Height(lrzTip) + 1 < Height(headers[1]) /\ headers[1] # Tip(cache)
  /\ OnChain(lrzTip, Tip(cache))

EventsReachLorenzo ==
  [][ ~InBootstrap /\ pc \in {"dedup", "insert"} /\ pc' = "idle"
        => OnChain(Tip(cache), lrzTip') \/ AheadOfLorenzo ]_vars

(***************************************************************************)
(* When Lorenzo is behind the parent of a new block, the blocks of the     *)
(* cache above Lorenzo's height connect to Lorenzo's tip: that is how it   *)
(* is made to catch up (block_handler.go 169-176).                         *)
(***************************************************************************)
CatchUpAttaches ==
  pc = "lorenzoTip" /\ BehindParent /\ ~HeightOutOfRange(cache, Height(lrzTip) + 1)
    => Parent(GetLastBlocks(cache, Height(lrzTip) + 1)[1]) = lrzTip

(***************************************************************************)
(* Lorenzo is not left behind on a fork the reporter has forgotten: it is  *)
(* on the chain of the cache, or on the chain of removed blocks that the   *)
(* reorg list still holds.  The list is cleared before its new branch is   *)
(* submitted, and a submission that fails is only logged                   *)
(* (block_handler.go 157-163, 188-195).                                    *)
(***************************************************************************)
ForkIsRemembered ==
  pc \in {"idle", "mature", "handle"} /\ cache.blocks # <<>> =>
    \/ OnChain(lrzTip, Tip(cache))
    \/ reorgList.blocks # <<>> /\ OnChain(lrzTip, reorgList.blocks[1])

(***************************************************************************)
(* The removed blocks are one branch, newest first, that grew from the     *)
(* cache or from below it: so the last of them tells where the branches    *)
(* part, and GetLastBlocks finds that height in the cache                  *)
(* (reorg_list.go 32-34, block_handler.go 150-154).                        *)
(***************************************************************************)
ReorgListIsBranch ==
  LET removed == reorgList.blocks
  IN  /\ \A i \in 1..(Len(removed) - 1) : Parent(removed[i]) = removed[i + 1]
      /\ removed # <<>> /\ cache.blocks # <<>>
           => Height(OldestRemoved) <= Height(Tip(cache)) + 1

(***************************************************************************)
(* None of the panics in the reporter's way is reached while the node and  *)
(* Lorenzo answer and the node has more than Delay blocks above the base.  *)
(***************************************************************************)
NoPanic == exit \notin Panics

(***************************************************************************)
(* No block event brings the process down, even if requests fail, the      *)
(* process crashes, or another relayer interferes: the cache never exceeds *)
(* its capacity, and a reorg's new branch wins before the cache drops the  *)
(* height at which the branches part (btccache.go 60-63,                   *)
(* block_handler.go 150-154).  Block work is uniform in the run.           *)
(***************************************************************************)
EventsDoNotPanic == exit \notin {"cacheAdd", "reorgRange"}

(***************************************************************************)
(* A process that handles events is subscribed to them: neither a failed   *)
(* bootstrap that is retried, nor one that skips the subscription, nor a   *)
(* restart leaves the handler waiting on a channel that nobody fills       *)
(* (bootstrapping.go 94-96, 158-164; block_handler.go 58).                 *)
(***************************************************************************)
HandlerIsSubscribed ==
  pc \notin BootstrapSteps \cup {"start", "down"} => subscribed

(***************************************************************************)
(* A bootstrap that failed is tried again rather than ending the process   *)
(* on its own subscription (bootstrapping.go 94-96, 158-179).              *)
(***************************************************************************)
RetryDoesNotPanic == exit # "alreadySubscribed"

(***************************************************************************)
(* Lorenzo keeps up: when a block that extends the cache waits to be Delay *)
(* deep, Lorenzo is at most Delay blocks behind its parent.  A bootstrap   *)
(* leaves out that many, and neither a reorganisation that is still to be  *)
(* completed nor the branch that completes it adds to them                 *)
(* (bootstrapping.go 117, block_handler.go 150-180).  For a Delay of one:  *)
(* with two, refused branches add to the lag.                              *)
(***************************************************************************)
LagBounded ==
  pc = "mature" /\ event.type = "connected" /\ Parent(event.block) = Tip(cache)
    => Height(lrzTip) + Delay >= Height(Parent(event.block))

(***************************************************************************)
(* Catching up, bootstraps and reorganisations implement HeaderRelay: each *)
(* accepted message moves Lorenzo to a header that had Delay blocks on     *)
(* top, and a branch that is cut into messages never takes it back or to   *)
(* less work (utils.go 57-122, block_handler.go 150-180).  Like            *)
(* OnlyMatureHeaders, this is about uniform work.                          *)
(***************************************************************************)
Relays == INSTANCE HeaderRelay WITH
  Depth <- Delay, NoRelay <- NoBlock,
  source <- btcTip, buried <- matured, relayed <- lrzTip

RelaysBuriedHeaders == Relays!Spec

(***************************************************************************)
(* As long as the process lives, Lorenzo ends on the node's chain, at most *)
(* 2 * Delay behind: Delay blocks a bootstrap leaves out, and the next     *)
(* Delay for which the event handler waits.                                *)
(***************************************************************************)
LorenzoCatchesUp ==
  <>[](pc # "down") =>
    <>[](OnChain(lrzTip, btcTip) /\ Height(btcTip) <= Height(lrzTip) + 2 * Delay)
=============================================================================
