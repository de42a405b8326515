------------------------------ MODULE Lifecycle ------------------------------
(***************************************************************************)
(* How the BTC reporter's process starts, stops and starts again: Start,   *)
(* Stop and WaitForShutdown of the reporter with quit, quitMu and wg       *)
(* (reporter/reporter.go), bootstrapWithRetries with its context, the      *)
(* block event handler and the producer of block events that share         *)
(* blockEventChan (btcclient/, zmq/), and the interrupt handlers of the    *)
(* command (cmd/lrzrelayer/cmd/).                                          *)
(*                                                                         *)
(* What is relayed is the subject of Reporter; here a block event is only  *)
(* one more element of the channel, and a request to a node or to Lorenzo  *)
(* is answered or fails.  A caller makes the calls of a script, one after  *)
(* the other; every other process interleaves with it.                     *)
(*                                                                         *)
(* A definition that nothing refers to, written just before the one it     *)
(* resembles, is a faulty variant of it; the mutants of PROJECT.json name  *)
(* the property that tells the two apart.                                  *)
(***************************************************************************)
EXTENDS Integers, SequencesExt

CONSTANTS
  Backends,        \* "bitcoind", whose events zmqHandler sends, or "btcd", whose
                   \* websocket callbacks send them
  Scripts,         \* the calls the process may make
  ChannelCapacity, \* of blockEventChan
  MaxAttempts,     \* bootstrapAttempts
  MaxBlocks,       \* block events in a behaviour
  MaxWatchers,     \* watchers of finished bootstraps that have yet to end
  RequestsMayFail  \* requests may fail while the client runs

Calls == {"start", "signal", "btcShutdown", "btcClose", "btcWait", "zmqClose",
          "stop", "wait"}

ASSUME LifecycleAssumption ==
  /\ Backends \subseteq {"bitcoind", "btcd"} /\ Scripts \subseteq Seq(Calls)
  /\ \A s \in Scripts : s # <<>> => s[1] = "start"  \* no Stop before the first Start
  /\ ChannelCapacity \in Nat \ {0} /\ MaxAttempts \in Nat \ {0}
  /\ MaxBlocks \in Nat /\ MaxWatchers \in Nat \ {0} /\ RequestsMayFail \in BOOLEAN

VARIABLES
  backend, script,
  at,              \* the call of the script that is being made
  pc,              \* where Start ("main") and the event handler ("handler") are
  event,           \* what the handler received: an event, nil, or nothing yet
  quit,            \* r.quit is closed
  started,         \* r.started
  wg,              \* the counter of r.wg
  ctx,             \* the context of the running bootstrapWithRetries
  leftover,        \* goroutines of reporterQuitCtx whose bootstrap has returned
  tries,           \* failed attempts of the running bootstrapWithRetries
  rpcUp,           \* the rpc client is not shut down
  chan,            \* number of events in blockEventChan
  chanClosed,      \* blockEventChan is closed
  subscribed,      \* block events were asked for; each may come at any later time
  closing,         \* zmq's Close has sent "term"
  producer,        \* where the sender of block events is
  blocks,          \* block events so far
  panic            \* what ended the process before the script did

setup == <<backend, script>>
bootstrapping == <<ctx, leftover, tries>>
reporter == <<event, quit, started, wg, bootstrapping>>
subscription == <<chan, chanClosed, subscribed, closing, producer, blocks>>
client == <<rpcUp, subscription>>
vars == <<backend, script, at, pc, event, quit, started, wg, ctx, leftover, tries, rpcUp,
          chan, chanClosed, subscribed, closing, producer, blocks, panic>>

BootstrapSteps == {"quitChan", "attempt", "sync", "initCache", "subscribe", "submit", "retry"}
StartSteps == {"idle", "lock", "waitHoldingMu", "catchUp", "spawn"}
HandlerSteps == {"none", "begin", "select", "quitCheck", "bestBlock", "handle"}

Panics == {"nilEvent", "lookup", "sendOnClosed", "initCache", "catchUp",
           "subscribe", "attemptsExhausted"}

TypeOK ==
  /\ backend \in Backends /\ script \in Scripts /\ at \in 1..(Len(script) + 1)
  /\ pc \in [main : StartSteps \cup BootstrapSteps, handler : HandlerSteps \cup BootstrapSteps]
  /\ event \in {"none", "event", "nil"}
  /\ (event # "none" => pc.handler \in {"quitCheck", "bestBlock", "handle"})
  /\ quit \in BOOLEAN /\ started \in BOOLEAN /\ wg \in Nat
  /\ ctx \in {"none", "live", "cancelled"} /\ leftover \in 0..MaxWatchers
  /\ tries \in 0..(MaxAttempts - 1)
  /\ rpcUp \in BOOLEAN /\ chan \in 0..ChannelCapacity /\ chanClosed \in BOOLEAN
  /\ subscribed \in BOOLEAN /\ closing \in BOOLEAN
  /\ producer \in {"idle", "lookup", "send", "ended"}
  /\ blocks \in 0..MaxBlocks /\ panic \in Panics \cup {"none"}

-----------------------------------------------------------------------------
Running == panic = "none" /\ at <= Len(script)

Panic(reason) ==
  /\ panic' = reason
  /\ UNCHANGED <<setup, at, pc, reporter, client>>

Goto(p, step) == pc' = [pc EXCEPT ![p] = step]

\* Start holds quitMu while it waits; every other section under it is a single step.
QuitMuHeld == pc.main = "waitHoldingMu"

\* With btcd, answers come through the goroutine that runs the callbacks.
Answered == rpcUp /\ (backend = "bitcoind" \/ producer = "idle")
MayFail == ~rpcUp \/ RequestsMayFail

\* A request that is waited for comes back: with an answer, or because the client is
\* shut down.  Only then does fairness count on it.
Served == Answered \/ ~rpcUp

-----------------------------------------------------------------------------
(***************************************************************************)
(* The command (cmd/reporter.go): Start, then an interrupt runs the two    *)
(* interrupt handlers, the last one registered first (cmd/utils.go).  They *)
(* are registered after Start; an earlier interrupt just kills the process.*)
(***************************************************************************)
StopClientClosingFirst == <<"btcClose", "btcShutdown", "btcWait">>
StopClient == <<"btcShutdown", "btcClose", "btcWait">>
StopReporter == <<"stop", "wait">>

InvokeFirstToLast(handlers) == FlattenSeq(handlers)
InvokeCallbacks(handlers) == FlattenSeq(Reverse(handlers))

Command == <<"start", "signal">> \o InvokeCallbacks(<<StopReporter, StopClient>>)

\* The zmq client is closed first, as its documentation demands (zmq/client.go 23).
CommandClosingZmq ==
  <<"start", "signal", "zmqClose">> \o InvokeCallbacks(<<StopReporter, StopClient>>)

\* A caller that starts the reporter again, without and with waiting for its end.
Restarts ==
  <<"start", "start", "stop", "start", "stop", "wait", "start", "stop", "wait">>

Calling(call) == Running /\ script[at] = call
Returns == at' = at + 1

Signal ==
  /\ Calling("signal")
  /\ Returns
  /\ UNCHANGED <<setup, pc, reporter, client, panic>>

-----------------------------------------------------------------------------
(***************************************************************************)
(* Reporter: Start, Stop, WaitForShutdown.                                 *)
(***************************************************************************)
CallStart ==
  /\ Calling("start") /\ pc.main = "idle"
  /\ Goto("main", "lock")
  /\ UNCHANGED <<setup, at, reporter, client, panic>>

StartLock ==
  /\ Running /\ pc.main = "lock"
  /\ IF quit THEN Goto("main", "waitHoldingMu") /\ UNCHANGED <<at, started>>
     ELSE IF started THEN Goto("main", "idle") /\ Returns /\ UNCHANGED started
     ELSE Goto("main", "catchUp") /\ started' = TRUE /\ UNCHANGED at
  /\ UNCHANGED <<setup, event, quit, wg, bootstrapping, client, panic>>

StartWaits ==
  /\ Running /\ pc.main = "waitHoldingMu" /\ wg = 0
  /\ quit' = FALSE
  /\ Goto("main", "catchUp")
  /\ UNCHANGED <<setup, at, event, started, wg, bootstrapping, client, panic>>

\* Module CatchUp; an error is a panic here.
CatchUp ==
  /\ Running /\ pc.main = "catchUp"
  /\ \/ Answered /\ Goto("main", "quitChan") /\ UNCHANGED <<setup, at, reporter, client, panic>>
     \/ MayFail /\ Panic("catchUp")

SpawnHandler ==
  /\ Running /\ pc.main = "spawn"
  /\ pc' = [main |-> "idle", handler |-> "begin"] /\ wg' = wg + 1
  /\ Returns
  /\ UNCHANGED <<setup, event, quit, started, bootstrapping, client, panic>>

Stop ==
  /\ Calling("stop")
  /\ quit' = TRUE
  /\ Returns
  /\ UNCHANGED <<setup, pc, event, started, wg, bootstrapping, client, panic>>

WaitForShutdown ==
  /\ Calling("wait") /\ wg = 0
  /\ Returns
  /\ UNCHANGED <<setup, pc, reporter, client, panic>>

-----------------------------------------------------------------------------
(***************************************************************************)
(* bootstrapWithRetries, in Start ("main") or in the event handler.        *)
(***************************************************************************)
\* reporterQuitCtx: reads quit under the lock, then starts the goroutine that
\* cancels the context when quit is closed.
ReporterQuitCtxUncounted(p) ==
  /\ Running /\ pc[p] = "quitChan" /\ ~QuitMuHeld
  /\ ctx' = "live" /\ tries' = 0
  /\ Goto(p, "attempt")
  /\ UNCHANGED <<setup, at, event, quit, started, wg, leftover, client, panic>>

ReporterQuitCtx(p) ==
  /\ Running /\ pc[p] = "quitChan" /\ ~QuitMuHeld
  /\ leftover < MaxWatchers
  /\ wg' = wg + 1
  /\ ctx' = "live" /\ tries' = 0
  /\ Goto(p, "attempt")
  /\ UNCHANGED <<setup, at, event, quit, started, leftover, client, panic>>

WatcherSeesQuit ==
  /\ Running /\ ctx = "live" /\ quit
  /\ ctx' = "cancelled" /\ wg' = wg - 1
  /\ UNCHANGED <<setup, at, pc, event, quit, started, leftover, tries, client, panic>>

WatcherEnds ==
  /\ Running /\ leftover > 0
  /\ leftover' = leftover - 1 /\ wg' = wg - 1
  /\ UNCHANGED <<setup, at, pc, event, quit, started, ctx, tries, client, panic>>

\* bootstrapWithRetries returns; its deferred cancel ends the watcher.
BootstrapReturns(p) ==
  /\ Goto(p, IF p = "main" THEN "spawn" ELSE "select")
  /\ ctx' = "none" /\ tries' = 0
  /\ leftover' = IF ctx = "live" THEN leftover + 1 ELSE leftover
  /\ UNCHANGED <<setup, at, event, quit, started, wg, client, panic>>

BootstrapGoes(p, step) ==
  /\ Goto(p, step)
  /\ UNCHANGED <<setup, at, reporter, client, panic>>

BootstrapFails(p) ==
  IF tries + 1 = MaxAttempts THEN Panic("attemptsExhausted")
  ELSE /\ Goto(p, "retry") /\ tries' = tries + 1
       /\ UNCHANGED <<setup, at, event, quit, started, wg, ctx, leftover, client, panic>>

\* retry.Do looks at the context once before the first attempt.
FirstAttempt(p) ==
  /\ Running /\ pc[p] = "attempt"
  /\ IF ctx = "cancelled" THEN BootstrapReturns(p) ELSE BootstrapGoes(p, "sync")

\* waitUntilBTCSync; while the node is behind Lorenzo it stays here.
SyncDone(p) ==
  /\ Running /\ pc[p] = "sync" /\ Answered
  /\ BootstrapGoes(p, "initCache")

SyncFails(p) ==
  /\ Running /\ pc[p] = "sync" /\ MayFail
  /\ BootstrapFails(p)

\* initBTCCache panics when it cannot read the node's blocks.
InitBTCCache(p) ==
  /\ Running /\ pc[p] = "initCache"
  /\ \/ Answered /\ BootstrapGoes(p, "subscribe")
     \/ MayFail /\ Panic("initCache")

\* MustSubscribeBlocks, which only Start's bootstrap calls, asks zmqHandler for the
\* events or, with btcd, the node.
SubscriptionRefused == backend = "bitcoind" /\ (subscribed \/ producer = "ended")

Subscribe(p) ==
  /\ Running /\ pc[p] = "subscribe"
  /\ \/ /\ p = "handler"
        /\ BootstrapGoes(p, "submit")
     \/ /\ p = "main" /\ Answered /\ ~SubscriptionRefused
        /\ Goto(p, "submit") /\ subscribed' = TRUE
        /\ UNCHANGED <<setup, at, reporter, rpcUp, chan, chanClosed, closing, producer,
                       blocks, panic>>
     \/ /\ p = "main" /\ (SubscriptionRefused \/ (backend = "btcd" /\ MayFail))
        /\ Panic("subscribe")

\* checkConsistency and ProcessHeaders ask Lorenzo.
Submit(p) ==
  /\ Running /\ pc[p] = "submit"
  /\ \/ BootstrapReturns(p)
     \/ RequestsMayFail /\ BootstrapFails(p)

\* Between two attempts the timer and the context are waited for.
RetryAwaitingQuit(p) ==
  /\ Running /\ pc[p] = "retry"
  /\ ctx = "cancelled" /\ BootstrapReturns(p)

Retry(p) ==
  /\ Running /\ pc[p] = "retry"
  /\ \/ BootstrapGoes(p, "sync")
     \/ ctx = "cancelled" /\ BootstrapReturns(p)

-----------------------------------------------------------------------------
(***************************************************************************)
(* blockEventHandler.                                                      *)
(***************************************************************************)
HandlerReturns ==
  /\ Goto("handler", "none") /\ wg' = wg - 1 /\ event' = "none"
  /\ UNCHANGED <<setup, at, quit, started, bootstrapping, client, panic>>

HandlerBegins ==
  /\ Running /\ pc.handler = "begin" /\ ~QuitMuHeld
  /\ Goto("handler", "select")
  /\ UNCHANGED <<setup, at, reporter, client, panic>>

Receive ==
  /\ Running /\ pc.handler = "select"
  /\ \/ chan > 0 /\ event' = "event" /\ chan' = chan - 1
     \/ chan = 0 /\ chanClosed /\ event' = "nil" /\ UNCHANGED chan
  /\ Goto("handler", "quitCheck")
  /\ UNCHANGED <<setup, at, quit, started, wg, bootstrapping, rpcUp, chanClosed, subscribed,
                 closing, producer, blocks, panic>>

SelectQuit ==
  /\ Running /\ pc.handler = "select" /\ quit
  /\ HandlerReturns

\* Each round of the wait for maturity begins with a look at quit.
WaitWithoutQuit ==
  /\ Running /\ pc.handler = "quitCheck"
  /\ Goto("handler", "bestBlock")
  /\ UNCHANGED <<setup, at, reporter, client, panic>>

QuitCheck ==
  /\ Running /\ pc.handler = "quitCheck"
  /\ IF quit
       THEN HandlerReturns
       ELSE Goto("handler", "bestBlock") /\ UNCHANGED <<setup, at, reporter, client, panic>>

\* The event is done with, or its error asks for a bootstrap.
EventHandled ==
  /\ \E step \in {"select", "quitChan"} : Goto("handler", step)
  /\ event' = "none"
  /\ UNCHANGED <<setup, at, quit, started, wg, bootstrapping, client, panic>>

\* The event is deep enough or not; its height is read before `open` is, so that
\* the return for a closed channel is never reached.  A disconnected block is handled
\* at once, a connected one is compared with the node's chain.
BestBlockAnswered ==
  /\ Running /\ pc.handler = "bestBlock" /\ Answered
  /\ \/ event = "nil" /\ Panic("nilEvent")
     \/ /\ event = "event" /\ \E step \in {"handle", "quitCheck"} : Goto("handler", step)
        /\ UNCHANGED <<setup, at, reporter, client, panic>>
     \/ event = "event" /\ EventHandled

BestBlockFails ==
  /\ Running /\ pc.handler = "bestBlock" /\ MayFail
  /\ Goto("handler", "quitCheck")
  /\ UNCHANGED <<setup, at, reporter, client, panic>>

\* The requests of handleConnectedBlocks.
Handle ==
  /\ Running /\ pc.handler = "handle"
  /\ \/ Answered /\ EventHandled
     \/ /\ MayFail /\ Goto("handler", "quitChan") /\ event' = "none"
        /\ UNCHANGED <<setup, at, quit, started, wg, bootstrapping, client, panic>>

-----------------------------------------------------------------------------
(***************************************************************************)
(* The producer of block events and the BTC client.                        *)
(***************************************************************************)
Produces(step) ==
  /\ producer' = step
  /\ UNCHANGED <<setup, at, pc, reporter, rpcUp, chanClosed, subscribed, closing, panic>>

BlockEvent ==
  /\ Running /\ subscribed /\ producer = "idle" /\ blocks < MaxBlocks
  /\ backend = "btcd" => rpcUp
  /\ Produces(IF backend = "bitcoind" THEN "lookup" ELSE "send")
  /\ blocks' = blocks + 1 /\ UNCHANGED chan

\* sendBlockEvent asks the node for the block that a zmq message names.
LookUpBlock ==
  /\ Running /\ producer = "lookup"
  /\ \/ rpcUp /\ Produces("send") /\ UNCHANGED <<chan, blocks>>
     \/ MayFail /\ Panic("lookup")

Send ==
  /\ Running /\ producer = "send"
  /\ IF chanClosed THEN Panic("sendOnClosed")
     ELSE /\ chan < ChannelCapacity
          /\ chan' = chan + 1
          /\ Produces("idle") /\ UNCHANGED blocks

\* btcclient's Stop: the rpc client fails every request from now on; then the
\* channel is closed, under a sender that may be about to use it.
ShutdownRPC ==
  /\ Calling("btcShutdown")
  /\ rpcUp' = FALSE
  /\ Returns
  /\ UNCHANGED <<setup, pc, reporter, subscription, panic>>

CloseChannel ==
  /\ Calling("btcClose")
  /\ chanClosed' = TRUE
  /\ Returns
  /\ UNCHANGED <<setup, pc, reporter, rpcUp, chan, subscribed, closing, producer, blocks, panic>>

\* The rpc client's WaitForShutdown waits for the goroutine of the callbacks.
WaitForRPC ==
  /\ Calling("btcWait")
  /\ backend = "btcd" => producer = "idle"
  /\ Returns
  /\ UNCHANGED <<setup, pc, reporter, client, panic>>

\* zmq's Close sends "term" and waits until zmqHandler has exited.
CloseZmq ==
  /\ Calling("zmqClose") /\ ~closing
  /\ closing' = TRUE
  /\ UNCHANGED <<setup, at, pc, reporter, rpcUp, chan, chanClosed, subscribed, producer,
                 blocks, panic>>

ZmqHandlerExits ==
  /\ Running /\ closing /\ producer = "idle"
  /\ Produces("ended")
  /\ UNCHANGED <<chan, blocks>>

CloseZmqReturnsAtOnce ==
  /\ Calling("zmqClose") /\ closing
  /\ Returns
  /\ UNCHANGED <<setup, pc, reporter, client, panic>>

CloseZmqReturns ==
  /\ Calling("zmqClose") /\ closing /\ producer = "ended"
  /\ Returns
  /\ UNCHANGED <<setup, pc, reporter, client, panic>>

-----------------------------------------------------------------------------
Init ==
  /\ script \in Scripts
  /\ backend \in IF \E i \in DOMAIN script : script[i] = "zmqClose"
                   THEN Backends \cap {"bitcoind"} ELSE Backends
  /\ at = 1 /\ pc = [main |-> "idle", handler |-> "none"] /\ event = "none"
  /\ quit = FALSE /\ started = FALSE /\ wg = 0
  /\ ctx = "none" /\ leftover = 0 /\ tries = 0
  /\ rpcUp = TRUE /\ chan = 0 /\ chanClosed = FALSE
  /\ subscribed = FALSE /\ closing = FALSE /\ producer = "idle" /\ blocks = 0
  /\ panic = "none"

Start == CallStart \/ StartLock \/ StartWaits \/ CatchUp \/ SpawnHandler

Shutdown ==
  \/ ShutdownRPC \/ CloseChannel \/ WaitForRPC \/ CloseZmq \/ CloseZmqReturns
  \/ Stop \/ WaitForShutdown

Bootstrap(p) ==
  \/ ReporterQuitCtx(p) \/ FirstAttempt(p) \/ SyncDone(p) \/ SyncFails(p)
  \/ InitBTCCache(p) \/ Subscribe(p) \/ Submit(p) \/ Retry(p)

HandleEvents ==
  \/ HandlerBegins \/ Receive \/ SelectQuit \/ QuitCheck
  \/ BestBlockAnswered \/ BestBlockFails \/ Handle

ProduceEvents == BlockEvent \/ LookUpBlock \/ Send \/ ZmqHandlerExits

Next ==
  \/ Start \/ Shutdown \/ Signal
  \/ \E p \in {"main", "handler"} : Bootstrap(p)
  \/ HandleEvents \/ ProduceEvents
  \/ WatcherSeesQuit \/ WatcherEnds

(***************************************************************************)
(* Go schedules every goroutine, and a request is answered as soon as the  *)
(* answer can be read.  Nothing makes a request fail while the client      *)
(* runs, the node catch up with Lorenzo, a block arrive or the signal come.*)
(***************************************************************************)
StartProgress ==
  CallStart \/ StartLock \/ StartWaits \/ (Served /\ CatchUp) \/ SpawnHandler

BootstrapProgress(p) ==
  \/ ReporterQuitCtx(p) \/ FirstAttempt(p) \/ (~rpcUp /\ SyncFails(p))
  \/ (Served /\ InitBTCCache(p)) \/ ((p = "handler" \/ Served) /\ Subscribe(p))
  \/ Submit(p) \/ Retry(p)

HandlerProgress ==
  \/ HandlerBegins \/ Receive \/ SelectQuit \/ QuitCheck
  \/ BestBlockAnswered \/ (~rpcUp /\ BestBlockFails) \/ (Served /\ Handle)

Fairness ==
  /\ WF_vars(StartProgress) /\ WF_vars(Shutdown)
  /\ WF_vars(BootstrapProgress("main")) /\ WF_vars(BootstrapProgress("handler"))
  /\ WF_vars(HandlerProgress)
  /\ WF_vars(LookUpBlock \/ Send \/ ZmqHandlerExits)
  /\ WF_vars(WatcherSeesQuit) /\ WF_vars(WatcherEnds)

Spec == Init /\ [][Next]_vars /\ Fairness

-----------------------------------------------------------------------------
(***************************************************************************)
(* When WaitForShutdown has returned, none of the reporter's goroutines is *)
(* left: wg covers the handler and every watcher of a bootstrap, also      *)
(* those of bootstraps that begin while Stop runs (reporter.go 134-137,    *)
(* bootstrapping.go 140-156).                                              *)
(***************************************************************************)
WaitMeansDone ==
  at > 1 /\ script[at - 1] = "wait" /\ pc.main = "idle" =>
    pc.handler = "none" /\ ctx # "live" /\ leftover = 0

(***************************************************************************)
(* The handler receives a nil event once the channel is closed, and reads  *)
(* its height before it looks at whether the channel is open               *)
(* (block_handler.go 21-47).  It is saved by the order of btcclient's      *)
(* Stop: the request in between fails by then (client.go 55-63).           *)
(***************************************************************************)
NilEventIsNotRead == panic # "nilEvent"

\* Zmq is closed before the BTC client is stopped, as its documentation demands.
ClosesZmqFirst(s) ==
  \E k \in 1..Len(s) :
    /\ s[k] = "zmqClose"
    /\ \A i \in 1..Len(s) : s[i] \in {"btcShutdown", "btcClose"} => k < i

(***************************************************************************)
(* Once zmq's Close has returned, zmqHandler neither asks the rpc client   *)
(* nor sends to the channel, so that what the BTC client's Stop does next  *)
(* cannot make it panic (zmq/client.go 104-129, subscribe.go 136-153).     *)
(***************************************************************************)
QuietAfterClose ==
  ClosesZmqFirst(script) /\ ~rpcUp => panic \notin {"lookup", "sendOnClosed"}

(***************************************************************************)
(* An interrupt ends the process: neither the handler, waiting for an      *)
(* event to mature or in a bootstrap whose node is behind for ever, nor a  *)
(* full channel keeps WaitForShutdown waiting, because the client is       *)
(* stopped before the reporter (utils.go 50-57, reporter.go 92-103).       *)
(***************************************************************************)
ShutdownCompletes ==
  (script = Command /\ at > 2) ~> ~Running

\* The sender of block events waits for room in the channel: with btcd it is a
\* callback, and with it every answer waits.
SenderBlocked == producer = "send" /\ chan = ChannelCapacity

(***************************************************************************)
(* The handler, once it runs, stays at one step for ever in three cases    *)
(* only: it awaits a node that stays behind Lorenzo; it wants quitMu, as   *)
(* it begins or bootstraps, which a Start holds that waits for this very   *)
(* handler; or it awaits an answer, with btcd, that waits behind a block   *)
(* event for room in the channel which this handler should empty           *)
(* (bootstrapping.go 140-141, 351-367, reporter.go 82-87, block_handler.go *)
(* 18, client_block_subscriber.go 71-81).                                  *)
(***************************************************************************)
HandlerStallsOnlyOnMuNodeOrChannel ==
  \A step \in (HandlerSteps \cup BootstrapSteps) \ {"none", "select"} :
    <>[](Running /\ pc.handler = step) =>
      \/ step = "sync"
      \/ step \in {"begin", "quitChan"} /\ <>[]QuitMuHeld
      \/ /\ step \in {"bestBlock", "handle", "initCache"}
         /\ backend = "btcd" /\ <>[]SenderBlocked

(***************************************************************************)
(* A call of Start, WaitForShutdown, the client's Stop or zmq's Close      *)
(* never returns in three cases only: a bootstrap awaits a node that stays *)
(* behind Lorenzo, without a look at quit; a block event waits for room in *)
(* the channel; or a Start on a stopped reporter waits for a handler that  *)
(* wants quitMu, which this Start holds (reporter.go 82-96, 146-150,       *)
(* bootstrapping.go 140-141, 351-367, zmq/client.go 104-120).              *)
(***************************************************************************)
CallsHangOnlyOnMuNodeOrChannel ==
  <>[](Running /\ script[at] # "signal") =>
    \/ \E p \in {"main", "handler"} : <>[](pc[p] = "sync")
    \/ <>[]SenderBlocked
    \/ <>[](QuitMuHeld /\ pc.handler \in {"begin", "quitChan"})

(***************************************************************************)
(* An interrupt is handled to do a clean shutdown (utils.go 40): nothing   *)
(* panics on the way.                                                      *)
(***************************************************************************)
CleanShutdown == panic = "none"
=============================================================================
