----------------------------- MODULE BNBReporter -----------------------------
(***************************************************************************)
(* The BNB reporter (bnbreporter/, bnbclient/): it polls a BNB node and    *)
(* uploads its headers, Delay blocks below the tip, to Lorenzo's BNB light *)
(* client.  It remembers the last header it uploaded (lorenzoTip).         *)
(*                                                                         *)
(* Start runs boostrap, WaitLorenzoCatchUp with a producer goroutine, and  *)
(* WaitBNBCatchUp, each of whose errors is a panic; then mainLoop polls.   *)
(* A step ends where the process asks the node or Lorenzo again: fetching  *)
(* a range of headers and uploading it is one step, since what the node    *)
(* does between the two calls may as well happen after them, and what      *)
(* another relayer does, before them.                                      *)
(*                                                                         *)
(* A definition that nothing refers to, written just before the one it     *)
(* resembles, is a faulty variant of it; the mutants of PROJECT.json name  *)
(* the property that tells the two apart.                                  *)
(***************************************************************************)
EXTENDS BlockTree

CONSTANTS
  Delay,           \* delayBlocks
  BatchSize,       \* FetchBNBHeaderBatchSize
  ChannelCapacity, \* of batchHeaderCh
  BaseHeight,      \* cfg.BaseHeight
  InitBNBTips,     \* best blocks of the node when the program starts
  InitLorenzoTips, \* latest headers of the light client, or NoBlock
  FaultKinds,      \* what may go wrong in this instance
  MaxFaults        \* how often

NoBlock == <<>>

ASSUME BNBAssumption ==
  /\ Delay \in Nat \ {0} /\ BatchSize \in Nat \ {0} /\ ChannelCapacity \in Nat
  /\ BaseHeight \in Nat \ {0} /\ MaxFaults \in Nat
  /\ InitBNBTips \subseteq {b \in Block : Height(b) >= BaseHeight}
  /\ InitLorenzoTips \subseteq Block \cup {NoBlock}

VARIABLES
  bnbTip,          \* best block of the BNB node
  buried,          \* history: blocks that were ever Delay deep in the best chain
  lrzTip,          \* latest header of Lorenzo's BNB light client
  pc,              \* where the reporter's process is
  tip,             \* r.lorenzoTip
  target,          \* catchUpToNumber; in mainLoop, the height up to which to upload
  next,            \* the producer's next height
  producing,       \* the producer has not closed the channel
  batches,         \* header batches in batchHeaderCh, or held by the producer
  exit,            \* why the process ended last
  faults           \* faults spent

node == <<bnbTip, buried>>
catchingUp == <<next, producing, batches>>
process == <<pc, tip, target, catchingUp, exit>>
vars == <<bnbTip, buried, lrzTip, pc, tip, target, next, producing, batches, exit, faults>>

Panics == {"nilHeader", "rejected"}

TypeOK ==
  /\ bnbTip \in Block /\ buried \subseteq Block
  /\ lrzTip \in Block \cup {NoBlock} /\ tip \in Block \cup {NoBlock}
  /\ pc \in {"start", "catchUp", "consume", "waitBNB", "poll", "relay", "boostrap",
             "stopped", "down"}
  /\ target \in Nat /\ next \in Nat /\ producing \in BOOLEAN
  /\ batches \in Seq(Seq(Block)) /\ Len(batches) <= ChannelCapacity + 1
  /\ exit \in Panics \cup {"running", "requestFailed", "crash"}
  /\ faults \in 0..MaxFaults
  /\ pc \notin {"start", "down"} => tip # NoBlock

-----------------------------------------------------------------------------
(***************************************************************************)
(* The BNB node, and Lorenzo's light client (external), which takes a list *)
(* of headers that starts with the child of its latest one, or any first   *)
(* header when it has none.                                                *)
(***************************************************************************)
\* History, for the properties: the blocks that are Delay deep under t.
Buried(t) == {AncestorAt(t, h) : h \in 1..(Height(t) - Delay)}

NodeAdvance(t) ==
  /\ ChainWork[t] > ChainWork[bnbTip]
  /\ bnbTip' = t
  /\ buried' = buried \cup Buried(t)
  /\ UNCHANGED <<lrzTip, process, faults>>

Extends(hs, t) == Parent(hs[1]) = t
Newest(hs) == hs[Len(hs)]

-----------------------------------------------------------------------------
Exit(reason) ==
  /\ pc' = "down" /\ exit' = reason
  /\ tip' = NoBlock /\ target' = 0
  /\ next' = 0 /\ producing' = FALSE /\ batches' = <<>>

Goto(p) == pc' = p /\ UNCHANGED <<exit, target, catchingUp>>

\* handleHeaders remembers the newest header only when the upload succeeded.
Uploaded(hs) == lrzTip' = Newest(hs) /\ tip' = Newest(hs)

\* boostrap: the latest header Lorenzo has.
BoostrapForgetsTip ==
  /\ pc = "start" /\ lrzTip # NoBlock
  /\ Goto("catchUp")
  /\ UNCHANGED <<node, lrzTip, tip, faults>>

Boostrap ==
  /\ pc = "start" /\ lrzTip # NoBlock
  /\ tip' = lrzTip
  /\ Goto("catchUp")
  /\ UNCHANGED <<node, lrzTip, faults>>

(***************************************************************************)
(* boostrap finds no header: it uploads the base header and calls itself,  *)
(* which succeeds; back in the first call the header is still nil, and     *)
(* converting it ends the process.  The next start finds the base header.  *)
(***************************************************************************)
UploadBaseHeader ==
  /\ pc = "start" /\ lrzTip = NoBlock
  /\ BaseHeight <= Height(bnbTip)
  /\ lrzTip' = AncestorAt(bnbTip, BaseHeight)
  /\ Exit("nilHeader")
  /\ UNCHANGED <<node, faults>>

-----------------------------------------------------------------------------
(***************************************************************************)
(* WaitLorenzoCatchUp.                                                     *)
(***************************************************************************)
AlreadyClose ==
  /\ pc = "catchUp"
  /\ Height(tip) + Delay >= Height(bnbTip)
  /\ Goto("waitBNB")
  /\ UNCHANGED <<node, lrzTip, tip, faults>>

CatchUpTargetAtTip == Height(bnbTip)
CatchUpTarget == Height(bnbTip) - Delay

BeginCatchUp ==
  /\ pc = "catchUp"
  /\ Height(tip) + Delay < Height(bnbTip)
  /\ target' = CatchUpTarget
  /\ next' = Height(tip) + 1 /\ producing' = TRUE /\ batches' = <<>>
  /\ pc' = "consume"
  /\ UNCHANGED <<node, lrzTip, tip, exit, faults>>

\* RangeHeaders: the block at `hi` and its ancestors down to `lo`, or NotFound.
RangeFails(hi) == hi > Height(bnbTip)
RangeHeaders(lo, hi) == ChainSegment(bnbTip, lo, hi)

BatchEndOverlapping == IF next + BatchSize > target THEN target ELSE next + BatchSize
BatchEnd == IF next + BatchSize - 1 > target THEN target ELSE next + BatchSize - 1

LastBatchBefore(n) == n + BatchSize >= target
LastBatch(n) == n + BatchSize > target

\* A batch more; the producer closes the channel when it fails or is through.
Produce ==
  /\ producing
  /\ IF RangeFails(BatchEnd)
       THEN producing' = FALSE /\ UNCHANGED <<next, batches>>
       ELSE /\ Len(batches) <= ChannelCapacity
            /\ batches' = Append(batches, RangeHeaders(next, BatchEnd))
            /\ next' = next + BatchSize
            /\ producing' = ~LastBatch(next)
  /\ UNCHANGED <<node, lrzTip, pc, tip, target, exit, faults>>

\* handleHeaders on the next batch; its error is a panic here.
Consume ==
  /\ pc = "consume" /\ batches # <<>>
  /\ IF Extends(Head(batches), tip) /\ Extends(Head(batches), lrzTip)
       THEN /\ Uploaded(Head(batches))
            /\ batches' = Tail(batches)
            /\ UNCHANGED <<pc, target, next, producing, exit>>
       ELSE Exit("rejected") /\ UNCHANGED lrzTip
  /\ UNCHANGED <<node, faults>>

CaughtUp ==
  /\ pc = "consume" /\ batches = <<>> /\ ~producing
  /\ Goto("waitBNB")
  /\ UNCHANGED <<node, lrzTip, tip, faults>>

\* WaitBNBCatchUp
WaitBNBCatchUp ==
  /\ pc = "waitBNB"
  /\ Height(bnbTip) > Height(tip)
  /\ Goto("poll")
  /\ UNCHANGED <<node, lrzTip, tip, faults>>

-----------------------------------------------------------------------------
(***************************************************************************)
(* mainLoop.                                                               *)
(***************************************************************************)
RelayEndOneMore(t) ==
  LET end == Height(t) - Delay + 1
  IN  IF end - Height(tip) > BatchSize THEN Height(tip) + BatchSize ELSE end

RelayEnd(t) ==
  LET end == Height(t) - Delay
  IN  IF end - Height(tip) > BatchSize THEN Height(tip) + BatchSize ELSE end

Poll ==
  /\ pc = "poll"
  /\ Delay + Height(tip) + 1 <= Height(bnbTip)
  /\ target' = RelayEnd(bnbTip)
  /\ pc' = "relay"
  /\ UNCHANGED <<node, lrzTip, tip, catchingUp, exit, faults>>

\* RangeHeaders and handleHeaders; a rejected upload asks for boostrap.
Relay ==
  LET hs == RangeHeaders(Height(tip) + 1, target)
  IN  /\ pc = "relay"
      /\ IF RangeFails(target)
           THEN Goto("poll") /\ UNCHANGED <<tip, lrzTip>>
         ELSE IF Extends(hs, tip) /\ Extends(hs, lrzTip)
           THEN Goto("poll") /\ Uploaded(hs)
         ELSE Goto("boostrap") /\ UNCHANGED <<tip, lrzTip>>
      /\ UNCHANGED <<node, faults>>

BoostrapNotAgain ==
  /\ pc = "boostrap"
  /\ Goto("poll")
  /\ UNCHANGED <<node, lrzTip, tip, faults>>

BoostrapAgain ==
  /\ pc = "boostrap"
  /\ tip' = lrzTip
  /\ Goto("poll")
  /\ UNCHANGED <<node, lrzTip, faults>>

\* Stop closes quit: mainLoop sees it before it polls.
Stop ==
  /\ pc = "poll"
  /\ Goto("stopped")
  /\ UNCHANGED <<node, lrzTip, tip, faults>>

-----------------------------------------------------------------------------
(***************************************************************************)
(* Faults, each taken from a budget.                                       *)
(***************************************************************************)
Fault(kind) == kind \in FaultKinds /\ faults < MaxFaults /\ faults' = faults + 1

\* A call to the BNB node fails.
BNBRequestFails ==
  /\ Fault("bnb")
  /\ \/ pc \in {"start", "catchUp", "waitBNB"} /\ Exit("requestFailed")
     \/ pc = "relay" /\ Goto("poll") /\ UNCHANGED tip
     \/ producing /\ producing' = FALSE /\ UNCHANGED <<pc, tip, target, next, batches, exit>>
  /\ UNCHANGED <<node, lrzTip>>

\* A failed upload may have been applied; mainLoop only logs a failed boostrap.
LorenzoAfterFailure(hs) ==
  {lrzTip} \cup (IF Extends(hs, tip) /\ Extends(hs, lrzTip) THEN {Newest(hs)} ELSE {})

UploadFailsTooLate(hs) == lrzTip' \in LorenzoAfterFailure(hs) /\ tip' = Newest(hs)
UploadFails(hs) == lrzTip' \in LorenzoAfterFailure(hs) /\ UNCHANGED tip

LorenzoRequestFails ==
  /\ Fault("lorenzo")
  /\ \/ pc = "start" /\ Exit("requestFailed") /\ UNCHANGED lrzTip
     \/ /\ pc = "consume" /\ batches # <<>>
        /\ lrzTip' \in LorenzoAfterFailure(Head(batches))
        /\ Exit("rejected")
     \/ /\ pc = "relay" /\ ~RangeFails(target)
        /\ UploadFails(RangeHeaders(Height(tip) + 1, target))
        /\ Goto("boostrap")
     \/ pc = "boostrap" /\ Goto("poll") /\ UNCHANGED <<tip, lrzTip>>
  /\ UNCHANGED node

\* Another relayer uploads headers that are buried.
RivalUpload(t) ==
  /\ Fault("rival")
  /\ lrzTip # NoBlock /\ t \in buried
  /\ OnChain(lrzTip, t) /\ t # lrzTip
  /\ lrzTip' = t
  /\ UNCHANGED <<node, process>>

Crash ==
  /\ Fault("crash")
  /\ pc # "down"
  /\ Exit("crash")
  /\ UNCHANGED <<node, lrzTip>>

Restart ==
  /\ Fault("restart")
  /\ pc \in {"down", "stopped"}
  /\ pc' = "start" /\ tip' = NoBlock /\ target' = 0
  /\ UNCHANGED <<node, lrzTip, catchingUp, exit>>

-----------------------------------------------------------------------------
Init ==
  /\ bnbTip \in InitBNBTips /\ buried = Buried(bnbTip)
  /\ lrzTip \in {t \in InitLorenzoTips : t = NoBlock \/ Height(t) <= Height(bnbTip)}
  /\ pc = "start" /\ tip = NoBlock /\ target = 0
  /\ next = 0 /\ producing = FALSE /\ batches = <<>>
  /\ exit = "running" /\ faults = 0

Main ==
  \/ Boostrap \/ UploadBaseHeader
  \/ AlreadyClose \/ BeginCatchUp \/ Consume \/ CaughtUp \/ WaitBNBCatchUp
  \/ Poll \/ Relay \/ BoostrapAgain

Environment ==
  \/ \E t \in Block : NodeAdvance(t)
  \/ BNBRequestFails \/ LorenzoRequestFails
  \/ \E t \in Block : RivalUpload(t)
  \/ Crash \/ Restart

Next == Main \/ Produce \/ Stop \/ Environment

Spec == Init /\ [][Next]_vars

\* Both goroutines go on while they can, and the node finds the heaviest chain.
Fairness ==
  WF_vars(Main) /\ WF_vars(Produce) /\ WF_vars(\E t \in Block : NodeAdvance(t))

FairSpec == Spec /\ Fairness

-----------------------------------------------------------------------------
(***************************************************************************)
(* lorenzoTip is the last BNB block reported to Lorenzo                    *)
(* (bnbrepoter.go 24): Lorenzo has it, whatever uploads failed, timed out  *)
(* after they were applied, or were overtaken by another relayer's.        *)
(***************************************************************************)
TipIsReported == tip # NoBlock => lrzTip # NoBlock /\ OnChain(tip, lrzTip)

(***************************************************************************)
(* Every header above the base one that Lorenzo was given had Delay blocks *)
(* on top of it on the node's chain at some time, across polls, batches    *)
(* fetched before a reorg and restarts (bootstrap.go 96-99,                *)
(* block_handler.go 32-40).  The work of a block is uniform in the runs.   *)
(***************************************************************************)
OnlyBuriedHeaders ==
  lrzTip # NoBlock =>
    \A h \in (BaseHeight + 1)..Height(lrzTip) : AncestorAt(lrzTip, h) \in buried

(***************************************************************************)
(* While the node and Lorenzo answer, a batch is refused only when a       *)
(* reorganisation cut into it or abandoned what Lorenzo has: no batch that *)
(* the producer fetched, early or late, begins anywhere but behind the one *)
(* before it (bootstrap.go 112-141, where a refusal is a panic).           *)
(***************************************************************************)
CatchUpIsNotRejected ==
  [][exit' = "rejected" /\ exit # "rejected" /\ faults' = 0 =>
       ~OnChain(lrzTip, bnbTip) \/ ~OnChain(Newest(Head(batches)), bnbTip)]_vars

(***************************************************************************)
(* WaitLorenzoCatchUp does not return before Lorenzo is at the height it   *)
(* set out for: the close of the channel is only seen behind the last      *)
(* batch (bootstrap.go 128-142).  A failed fetch closes it early as well.  *)
(***************************************************************************)
CatchUpIsComplete == [][CaughtUp /\ faults = 0 => Height(lrzTip) >= target]_vars

(***************************************************************************)
(* As long as the process runs, Lorenzo ends on the node's chain at Delay  *)
(* blocks or less from its tip (block_handler.go 18-63), also after        *)
(* uploads whose outcome is unknown.  The one thing that stops it for good *)
(* is a reorganisation that abandons a header Lorenzo has: boostrap then   *)
(* finds the same header each time (block_handler.go 51-59, 106-112).      *)
(***************************************************************************)
Follows ==
  lrzTip # NoBlock /\ OnChain(lrzTip, bnbTip) /\ Height(bnbTip) <= Height(lrzTip) + Delay
Abandoned == lrzTip # NoBlock /\ ~OnChain(lrzTip, bnbTip)

LorenzoFollows ==
  <>[](pc \notin {"down", "stopped"}) => <>[]Follows \/ <>[]Abandoned

(***************************************************************************)
(* Catching up, polling, retries and restarts implement HeaderRelay: each  *)
(* upload moves Lorenzo to a header that had Delay blocks on top           *)
(* (bootstrap.go 91-142, block_handler.go 13-63).                          *)
(***************************************************************************)
Relays == INSTANCE HeaderRelay WITH
  Depth <- Delay, NoRelay <- NoBlock, source <- bnbTip, relayed <- lrzTip

RelaysBuriedHeaders == Relays!Spec
=============================================================================
