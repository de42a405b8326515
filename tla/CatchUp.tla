------------------------------- MODULE CatchUp -------------------------------
(***************************************************************************)
(* waitLorenzoCatchUpCloseToBTCTip (reporter/bootstrapping.go 234-314),    *)
(* which Start calls before the first bootstrap: when Lorenzo is more than *)
(* 2K blocks behind, a producer goroutine fetches blocks in batches and    *)
(* the caller submits them.  They share ibCh (buffered), errorCh           *)
(* (unbuffered), overCh (closed at the end) and the reporter's quit.  The  *)
(* caller selects among the four, at random when several are ready.        *)
(*                                                                         *)
(* Module Reporter takes all of this as one step; the refinement below     *)
(* shows that it may.  Heights are those of BlockTree, and the node may    *)
(* move to a heavier chain between any two calls.                          *)
(*                                                                         *)
(* A definition that nothing refers to, written just before the one it     *)
(* resembles, is a faulty variant of it; the mutants of PROJECT.json name  *)
(* the property that tells the two apart.                                  *)
(***************************************************************************)
EXTENDS BTCCache, LorenzoLightClient, SequencesExt

CONSTANTS
  K,               \* btcConfirmationDepth; closeGap is 2K
  BatchSize,       \* FetchBTCBlocksBatchSize
  ChannelCapacity, \* of ibCh
  BaseHeight,      \* height of Lorenzo's base header
  InitBTCTips,     \* best blocks of the node when the program starts
  InitLorenzoTips, \* tips of the light client when the program starts
  MayFail          \* requests may fail

ASSUME CatchUpAssumption ==
  /\ K \in Nat \ {0} /\ BatchSize \in Nat \ {0} /\ ChannelCapacity \in Nat \ {0}
  /\ BaseHeight \in Nat \ {0} /\ MayFail \in BOOLEAN
  /\ InitBTCTips \subseteq Block
  /\ InitLorenzoTips \subseteq {b \in Block : Height(b) >= BaseHeight}

VARIABLES
  btcTip,          \* best block of the Bitcoin node
  buried,          \* history: blocks that were ever 2K deep in the best chain
  lrzTip,          \* tip of Lorenzo's light client
  begun,           \* history: that tip when the program started
  caller,          \* where the function is
  bestHeight,      \* btcTip in the code: the height it sets out for, plus 2K
  newTip,          \* lorenzoNewTipHeader
  batch,           \* the batch being submitted
  producer,        \* where the goroutine is
  h,               \* its next height
  held,            \* the batch it has fetched
  ibCh,            \* batches in the channel
  over,            \* overCh is closed
  quit,            \* the reporter's quit is closed
  panic            \* why the process ended

callerVars == <<caller, bestHeight, newTip, batch, panic>>
producerVars == <<producer, h, held, over>>
vars == <<btcTip, buried, lrzTip, begun, caller, bestHeight, newTip, batch, panic,
          producer, h, held, ibCh, over, quit>>

Batch == Seq(Block)

TypeOK ==
  /\ btcTip \in Block /\ lrzTip \in Block /\ begun \in Block /\ buried \subseteq Block
  /\ caller \in {"bestBlock", "lorenzoTip", "select", "process", "returned", "down"}
  /\ producer \in {"none", "check", "fetch", "send", "sendError", "ended"}
  /\ bestHeight \in Nat /\ h \in Nat
  /\ newTip \in Block \cup {NoBlock}
  /\ batch \in Batch /\ (caller = "process" <=> batch # <<>>)
  /\ held \in Batch /\ (producer = "send" <=> held # <<>>)
  /\ ibCh \in Seq(Batch) /\ Len(ibCh) <= ChannelCapacity
  /\ over \in BOOLEAN /\ (over => producer = "ended") /\ quit \in BOOLEAN
  /\ panic \in {"none", "staleFork", "requestFailed"}

-----------------------------------------------------------------------------
CloseGap == 2 * K
Limit == bestHeight - CloseGap

Buried(t) == {AncestorAt(t, n) : n \in 1..(Height(t) - CloseGap)}

NodeAdvance(t) ==
  /\ ChainWork[t] > ChainWork[btcTip]
  /\ btcTip' = t
  /\ buried' = buried \cup Buried(t)
  /\ UNCHANGED <<lrzTip, begun, callerVars, producerVars, ibCh, quit>>

\* Stop closes quit.
Stop ==
  /\ ~quit
  /\ quit' = TRUE
  /\ UNCHANGED <<btcTip, buried, lrzTip, begun, callerVars, producerVars, ibCh>>

\* Start panics on an error, and on everything the caller panics on.
Panic(reason) ==
  /\ caller' = "down" /\ panic' = reason /\ batch' = <<>>
  /\ UNCHANGED <<bestHeight, newTip>>

-----------------------------------------------------------------------------
(***************************************************************************)
(* The caller.                                                             *)
(***************************************************************************)
GetBestBlock ==
  /\ caller = "bestBlock"
  /\ caller' = "lorenzoTip" /\ bestHeight' = Height(btcTip)
  /\ UNCHANGED <<btcTip, buried, lrzTip, begun, newTip, batch, panic, producerVars, ibCh, quit>>

AlreadyClose ==
  /\ caller = "lorenzoTip" /\ Height(lrzTip) + CloseGap >= bestHeight
  /\ caller' = "returned"
  /\ UNCHANGED <<btcTip, buried, lrzTip, begun, bestHeight, newTip, batch, panic,
                 producerVars, ibCh, quit>>

Begin ==
  /\ caller = "lorenzoTip" /\ Height(lrzTip) + CloseGap < bestHeight
  /\ caller' = "select" /\ newTip' = lrzTip
  /\ producer' = "check" /\ h' = Height(lrzTip) + 1
  /\ UNCHANGED <<btcTip, buried, lrzTip, begun, bestHeight, batch, panic, held, over, ibCh, quit>>

\* case ibs := <-ibCh
TakeBatch ==
  /\ caller = "select" /\ ibCh # <<>>
  /\ ibCh' = Tail(ibCh)
  /\ IF Parent(Head(ibCh)[1]) # newTip
       THEN Panic("staleFork")
       ELSE /\ caller' = "process" /\ batch' = Head(ibCh)
            /\ UNCHANGED <<bestHeight, newTip, panic>>
  /\ UNCHANGED <<btcTip, buried, lrzTip, begun, producerVars, quit>>

\* What ProcessHeaders submits: the batch from the first header that Lorenzo lacks on.
Missing ==
  LET lacking == {i \in 1..Len(batch) : ~ContainsBTCBlock(lrzTip, batch[i])}
  IN  IF lacking = {} THEN <<>>
      ELSE SubSeq(batch, CHOOSE i \in lacking : \A k \in lacking : i <= k, Len(batch))

Refused == Missing # <<>> /\ ~Accepts(lrzTip, Missing)
Submitted == IF Missing = <<>> THEN lrzTip ELSE InsertHeaders(Missing)

Process ==
  /\ caller = "process"
  /\ IF Refused
       THEN Panic("requestFailed") /\ UNCHANGED lrzTip
       ELSE /\ lrzTip' = Submitted
            /\ newTip' = batch[Len(batch)]
            /\ caller' = "select" /\ batch' = <<>>
            /\ UNCHANGED <<bestHeight, panic>>
  /\ UNCHANGED <<btcTip, buried, begun, producerVars, ibCh, quit>>

\* case err := <-errorCh: the producer's send completes with it.
TakeError ==
  /\ caller = "select" /\ producer = "sendError"
  /\ Panic("requestFailed")
  /\ producer' = "ended"
  /\ UNCHANGED <<btcTip, buried, lrzTip, begun, h, held, over, ibCh, quit>>

\* case <-overCh, case <-quit: nil, whatever still waits in ibCh.
ReturnOnceCaughtUp ==
  /\ caller = "select" /\ (over \/ quit \/ Height(newTip) + 1 >= Limit)
  /\ caller' = "returned"
  /\ UNCHANGED <<btcTip, buried, lrzTip, begun, bestHeight, newTip, batch, panic,
                 producerVars, ibCh, quit>>

Return ==
  /\ caller = "select" /\ (over \/ quit)
  /\ caller' = "returned"
  /\ UNCHANGED <<btcTip, buried, lrzTip, begun, bestHeight, newTip, batch, panic,
                 producerVars, ibCh, quit>>

\* A query or a submission fails; the submission may have been applied.
CallerRequestFails ==
  /\ MayFail
  /\ \/ caller \in {"bestBlock", "lorenzoTip"} /\ UNCHANGED lrzTip
     \/ caller = "process" /\ lrzTip' \in {lrzTip} \cup (IF Refused THEN {} ELSE {Submitted})
  /\ Panic("requestFailed")
  /\ UNCHANGED <<btcTip, buried, begun, producerVars, ibCh, quit>>

-----------------------------------------------------------------------------
(***************************************************************************)
(* The producer: for h := lorenzoTip + 1; h < btcTip - closeGap; h++.      *)
(* It ends with the process, but not with the caller.                      *)
(***************************************************************************)
EndProductionSilently == producer' = "ended" /\ UNCHANGED over
EndProduction == producer' = "ended" /\ over' = TRUE

LoopEndsOneBatchEarly == h + BatchSize >= Limit \/ quit
LoopEnds == h >= Limit \/ quit

CheckLoop ==
  /\ caller # "down" /\ producer = "check"
  /\ IF LoopEnds THEN EndProduction ELSE producer' = "fetch" /\ UNCHANGED over
  /\ UNCHANGED <<btcTip, buried, lrzTip, begun, callerVars, h, held, ibCh, quit>>

\* The last height of the batch: Limit itself when the batch just fits.
BatchEndPastLimit == h + BatchSize - 1
BatchEnd == IF h + BatchSize - 1 > Limit THEN Limit - 1 ELSE h + BatchSize - 1

\* FindRangeBlocksByHeight: the block at BatchEnd and its ancestors down to h.
Fetch ==
  /\ caller # "down" /\ producer = "fetch"
  /\ IF BatchEnd > Height(btcTip)
       THEN producer' = "sendError" /\ UNCHANGED held
       ELSE producer' = "send" /\ held' = ChainSegment(btcTip, h, BatchEnd)
  /\ UNCHANGED <<btcTip, buried, lrzTip, begun, callerVars, h, over, ibCh, quit>>

FetchFails ==
  /\ MayFail
  /\ caller # "down" /\ producer = "fetch"
  /\ producer' = "sendError"
  /\ UNCHANGED <<btcTip, buried, lrzTip, begun, callerVars, h, held, over, ibCh, quit>>

HasRoomForAll == TRUE
HasRoom == Len(ibCh) < ChannelCapacity

NextHeightRepeatingEnd == Height(held[Len(held)])
NextHeight == Height(held[Len(held)]) + 1

\* ibCh <- ibs; h = endHeight; h++
Send ==
  /\ caller # "down" /\ producer = "send" /\ HasRoom
  /\ ibCh' = Append(ibCh, held)
  /\ h' = NextHeight
  /\ producer' = "check" /\ held' = <<>>
  /\ UNCHANGED <<btcTip, buried, lrzTip, begun, callerVars, over, quit>>

-----------------------------------------------------------------------------
Init ==
  /\ btcTip \in InitBTCTips /\ buried = Buried(btcTip)
  /\ lrzTip \in InitLorenzoTips /\ begun = lrzTip
  /\ caller = "bestBlock" /\ bestHeight = 0 /\ newTip = NoBlock /\ batch = <<>>
  /\ producer = "none" /\ h = 0 /\ held = <<>>
  /\ ibCh = <<>> /\ over = FALSE /\ quit = FALSE /\ panic = "none"

Caller == GetBestBlock \/ AlreadyClose \/ Begin \/ TakeBatch \/ Process \/ TakeError \/ Return

Producer == CheckLoop \/ Fetch \/ Send

Environment ==
  \/ \E t \in Block : NodeAdvance(t)
  \/ Stop \/ CallerRequestFails \/ FetchFails

Next == Caller \/ Producer \/ Environment

\* Go schedules both goroutines, and the requests return.
Spec == Init /\ [][Next]_vars /\ WF_vars(Caller) /\ WF_vars(Producer)

-----------------------------------------------------------------------------
(***************************************************************************)
(* The end of the production may be seen before the batches that wait in   *)
(* the channel (bootstrapping.go 289-309): unless it is stopped, catching  *)
(* up then ends short, by no more than a channel full of batches.  That is *)
(* what the cache of the bootstrap that follows must have room for.        *)
(***************************************************************************)
ShortfallBounded ==
  caller = "returned" /\ ~quit =>
    Height(lrzTip) + ChannelCapacity * BatchSize + 1 >= Limit

(***************************************************************************)
(* Only a Stop leaves the producer behind when the function has returned:  *)
(* blocked in a send on the full ibCh, or on errorCh, neither of which it  *)
(* leaves when quit is closed (bootstrapping.go 263-281).                  *)
(***************************************************************************)
OnlyStopLeavesProducer ==
  caller = "returned" /\ ~quit => producer \in {"none", "ended"}

(***************************************************************************)
(* The panic on a batch that does not extend what was submitted last is    *)
(* one about Lorenzo: its chain was abandoned before the program started.  *)
(* It is never the batches, which continue one another although each is    *)
(* read from the chain the node has by then (bootstrapping.go 291-304).    *)
(* Stated for reorganisations of up to 2K blocks.                          *)
(***************************************************************************)
StaleForkIsLorenzos == panic = "staleFork" => ~OnChain(begun, btcTip)

(***************************************************************************)
(* The function always comes to an end, stopped, failing or not            *)
(* (bootstrapping.go 287-310).                                             *)
(***************************************************************************)
CatchUpEnds == <>(caller \in {"returned", "down"})

(***************************************************************************)
(* For Reporter, Lorenzo's tip jumps to where the function left it in the  *)
(* step in which the function returns or the process ends.                 *)
(***************************************************************************)
Ended == caller \in {"returned", "down"}

TopHeight == CHOOSE n \in {Height(b) : b \in Block} : \A b \in Block : Height(b) <= n

ReporterStart == INSTANCE Reporter WITH
  W <- 0, Delay <- CloseGap, MaxHeaders <- BatchSize, BTCCacheSize <- 1, MaxAttempts <- 1,
  Backend <- "btcd", FaultKinds <- {"btc", "lorenzo"}, MaxFaults <- 1,
  LastFaultHeight <- TopHeight,
  matured <- buried,
  lrzTip <- IF Ended THEN lrzTip ELSE begun,
  pc <- CASE caller = "returned" -> "bootstrap" [] caller = "down" -> "down" [] OTHER -> "start",
  exit <- IF panic = "none" THEN "running" ELSE panic,
  faults <- IF panic = "requestFailed" THEN 1 ELSE 0,
  subscribed <- FALSE, listening <- FALSE, chan <- <<>>, cache <- NoCache,
  reorgList <- [blocks |-> <<>>, work |-> 0], event <- [type |-> "none", block |-> NoBlock],
  headers <- <<>>, skip <- FALSE, attempts <- 0

(***************************************************************************)
(* The goroutines implement the steps of Reporter's Start: wherever their  *)
(* race ends, a request fails or the node reorganises, what they leave is  *)
(* what AlreadyClose, CatchUp, CatchUpOnStaleFork or a failed request of   *)
(* Reporter allows (reporter.go 98-102, bootstrapping.go 234-314).         *)
(***************************************************************************)
StartStep ==
  \/ ReporterStart!Start
  \/ ReporterStart!BTCRequestFails \/ ReporterStart!LorenzoRequestFails
  \/ \E t \in Block : ReporterStart!NodeAdvance(t)

ImplementsReporterStart ==
  ReporterStart!Init /\ [][StartStep]_(ReporterStart!vars)
=============================================================================
