--------------------------- MODULE LifecycleProofs ---------------------------
(***************************************************************************)
(* Theorems about Lifecycle, for any scripts and every value of the        *)
(* constants: the types, that WaitForShutdown leaves no goroutine, and     *)
(* what the order of the shutdown's calls prevents.                        *)
(*                                                                         *)
(* None is inductive: that wg reaches 0 says something about goroutines    *)
(* only because it counts them (Counts), and it counts them only because a *)
(* bootstrap is run by one process at a time (OneBootstrap).               *)
(***************************************************************************)
EXTENDS Lifecycle, TLAPS

Attempting == BootstrapSteps \ {"quitChan"}

One(b) == IF b THEN 1 ELSE 0

\* wg is the number of the goroutines it is there for.
Counts == wg = One(pc.handler # "none") + leftover + One(ctx = "live")

\* A context belongs to the process that is in a bootstrap, and Start does not get
\* that far while there is a handler.
OneBootstrap ==
  /\ ctx # "none" <=> (pc.main \in Attempting \/ pc.handler \in Attempting)
  /\ pc.main \in BootstrapSteps \cup {"catchUp", "spawn"} => pc.handler = "none"
  /\ ~started => pc.handler = "none"
  /\ ctx = "live" => leftover < MaxWatchers

\* Start is the call being made while it runs.
InStart == pc.main # "idle" => at <= Len(script) /\ script[at] = "start"

\* Once the first Start has passed its lock, a Start either returns at once or waits
\* for the handler to end.
Started == at > 1 \/ quit \/ pc.main \notin {"idle", "lock"} => started

IInv == TypeOK /\ Counts /\ OneBootstrap /\ InStart /\ Started /\ WaitMeansDone

-----------------------------------------------------------------------------
\* A panic changes nothing that is counted, and the process makes no further step.
LEMMA PanicKeeps ==
  ASSUME IInv, NEW reason \in Panics, Panic(reason)
  PROVE  IInv'
  BY LifecycleAssumption DEF IInv, TypeOK, Counts, OneBootstrap, InStart, Started,
    WaitMeansDone, One, Panic, setup, bootstrapping, reporter, subscription, client

\* The first call is a Start.
LEMMA StartedBefore ==
  ASSUME IInv, Running, script[at] # "start"
  PROVE  at > 1 /\ started
<1>1. script \in Seq(Calls) /\ script[1] = "start" /\ at \in 1..Len(script)
  BY LifecycleAssumption DEF IInv, TypeOK, Running
<1> QED BY <1>1 DEF IInv, Started

\* The calls that neither start nor wait: each ends where it began.
LEMMA CallsKeep ==
  ASSUME IInv,
         \/ Signal \/ Stop \/ ShutdownRPC \/ CloseChannel
         \/ WaitForRPC \/ CloseZmq \/ CloseZmqReturns
  PROVE  IInv'
<1> USE LifecycleAssumption, StartedBefore
    DEF IInv, TypeOK, Counts, OneBootstrap, InStart, Started, WaitMeansDone, One, setup,
        bootstrapping, reporter, subscription, client, Calling, Running, Returns
<1>1. CASE Signal
  BY <1>1 DEF Signal
<1>2. CASE Stop
  BY <1>2 DEF Stop
<1>3. CASE ShutdownRPC
  <2>1. rpcUp' \in BOOLEAN
    BY <1>3, Zenon DEF ShutdownRPC
  <2>2. /\ script[at] = "btcShutdown" /\ at \in 1..Len(script) /\ at' = at + 1
        /\ UNCHANGED <<setup, pc, reporter, subscription, panic>>
    BY <1>3 DEF ShutdownRPC
  <2> QED BY <2>1, <2>2
<1>4. CASE CloseChannel
  BY <1>4 DEF CloseChannel
<1>5. CASE WaitForRPC
  BY <1>5 DEF WaitForRPC
<1>6. CASE CloseZmq
  BY <1>6 DEF CloseZmq
<1>7. CASE CloseZmqReturns
  BY <1>7 DEF CloseZmqReturns
<1> QED BY <1>1, <1>2, <1>3, <1>4, <1>5, <1>6, <1>7

\* When wg is 0, nothing that it counts is left.
LEMMA NothingLeft ==
  ASSUME IInv, wg = 0
  PROVE  pc.handler = "none" /\ ctx # "live" /\ leftover = 0
  BY DEF IInv, TypeOK, Counts, OneBootstrap, InStart, Started, WaitMeansDone, One

LEMMA WaitKeeps ==
  ASSUME IInv, WaitForShutdown
  PROVE  IInv'
<1>1. pc.handler = "none" /\ ctx # "live" /\ leftover = 0
  BY NothingLeft DEF WaitForShutdown
<1> QED
  BY <1>1, LifecycleAssumption, StartedBefore
  DEF IInv, TypeOK, Counts, OneBootstrap, InStart, Started, WaitMeansDone, One, setup,
      bootstrapping, reporter, subscription, client, WaitForShutdown, Calling, Running,
      Returns

LEMMA StartKeeps ==
  ASSUME IInv, Start
  PROVE  IInv'
<1> USE LifecycleAssumption DEF IInv, TypeOK, Counts, OneBootstrap, InStart, Started,
  WaitMeansDone, One, setup, bootstrapping, reporter, subscription, client, Running, Returns
<1> USE DEF Attempting, BootstrapSteps, StartSteps, HandlerSteps, Goto
<1>1. CASE CallStart
  BY <1>1 DEF CallStart, Calling
<1>2. CASE StartLock
  <2>1. /\ pc.main = "lock" /\ at \in 1..Len(script) /\ script[at] = "start"
        /\ UNCHANGED <<setup, event, quit, wg, bootstrapping, client, panic>>
    BY <1>2 DEF StartLock
  <2>2. ctx = "none" \/ pc.handler \in Attempting
    BY <2>1
  <2>3. CASE quit
    BY <1>2, <2>1, <2>3 DEF StartLock
  <2>4. CASE ~quit /\ started
    <3>1. at' = at + 1 /\ pc' = [pc EXCEPT !.main = "idle"] /\ started' = started
      BY <1>2, <2>4 DEF StartLock
    <3>2. pc'.main = "idle" /\ pc'.handler = pc.handler /\ at' \in 1..(Len(script') + 1)
      BY <2>1, <3>1
    <3>3. TypeOK'
      BY <2>1, <3>1, <3>2
    <3>4. Counts' /\ OneBootstrap'
      BY <2>1, <2>4, <3>1, <3>2
    <3>5. at' - 1 = at /\ script'[at] = "start"
      BY <2>1, <3>1
    <3>6. InStart' /\ Started' /\ WaitMeansDone'
      BY <2>4, <3>1, <3>2, <3>5
    <3> QED BY <3>3, <3>4, <3>6
  <2>5. CASE ~quit /\ ~started
    <3>1. at' = at /\ pc' = [pc EXCEPT !.main = "catchUp"] /\ started' = TRUE
      BY <1>2, <2>5 DEF StartLock
    <3> QED BY <2>1, <2>5, <3>1
  <2> QED BY <2>3, <2>4, <2>5
<1>3. CASE StartWaits
  <2>1. pc.handler = "none" /\ ctx # "live" /\ leftover = 0
    BY <1>3, NothingLeft DEF StartWaits
  <2>2. /\ pc.main = "waitHoldingMu" /\ pc' = [pc EXCEPT !.main = "catchUp"]
        /\ quit' = FALSE
        /\ UNCHANGED <<setup, at, event, started, wg, bootstrapping, client, panic>>
    BY <1>3 DEF StartWaits
  <2>3. pc'.main = "catchUp" /\ pc'.handler = "none" /\ ctx = "none"
    BY <2>1, <2>2
  <2>4. TypeOK'
    BY <2>2, <2>3
  <2>5. script[at] = "start" /\ at <= Len(script)
    BY <2>2
  <2> QED BY <2>1, <2>2, <2>3, <2>4, <2>5
<1>4. CASE CatchUp
  <2>1. CASE Panic("catchUp")
    BY <2>1, PanicKeeps DEF Panics
  <2>2. CASE Goto("main", "quitChan") /\ UNCHANGED <<setup, at, reporter, client, panic>>
    BY <1>4, <2>2 DEF CatchUp
  <2> QED BY <1>4, <2>1, <2>2 DEF CatchUp
<1>5. CASE SpawnHandler
  <2>1. /\ pc.main = "spawn" /\ pc.handler = "none" /\ ctx = "none"
        /\ at \in 1..Len(script) /\ script[at] = "start"
    BY <1>5 DEF SpawnHandler
  <2>2. /\ pc' = [main |-> "idle", handler |-> "begin"] /\ wg' = wg + 1 /\ at' = at + 1
        /\ UNCHANGED <<setup, event, quit, started, bootstrapping, client, panic>>
    BY <1>5 DEF SpawnHandler
  <2>3. pc'.main = "idle" /\ pc'.handler = "begin" /\ event = "none"
    BY <2>1, <2>2
  <2>4. TypeOK'
    <3>1. wg' \in Nat /\ at' \in 1..(Len(script') + 1)
      BY <2>1, <2>2
    <3>2. pc' \in [main : StartSteps \cup BootstrapSteps,
                  handler : HandlerSteps \cup BootstrapSteps]
      BY <2>2
    <3> QED BY <2>2, <2>3, <3>1, <3>2
  <2>5. Counts'
    BY <2>1, <2>2, <2>3
  <2>6. OneBootstrap' /\ InStart' /\ Started' /\ WaitMeansDone'
    BY <2>1, <2>2, <2>3
  <2> QED BY <2>4, <2>5, <2>6
<1> QED BY <1>1, <1>2, <1>3, <1>4, <1>5 DEF Start

-----------------------------------------------------------------------------
(***************************************************************************)
(* The steps of a bootstrap, for the process p that runs it.               *)
(***************************************************************************)
LEMMA BootstrapReturnsKeeps ==
  ASSUME IInv, NEW p \in {"main", "handler"}, Running, pc[p] \in Attempting,
    BootstrapReturns(p)
  PROVE  IInv'
  BY LifecycleAssumption
  DEF IInv, TypeOK, Counts, OneBootstrap, InStart, Started, WaitMeansDone, One, setup,
      bootstrapping, reporter, subscription, client, Attempting, BootstrapSteps, StartSteps,
      HandlerSteps, BootstrapReturns, Running, Goto

LEMMA BootstrapGoesKeeps ==
  ASSUME IInv, NEW p \in {"main", "handler"}, Running, pc[p] \in Attempting,
         NEW step \in Attempting, BootstrapGoes(p, step)
  PROVE  IInv'
  BY LifecycleAssumption
  DEF IInv, TypeOK, Counts, OneBootstrap, InStart, Started, WaitMeansDone, One, setup,
      bootstrapping, reporter, subscription, client, Attempting, BootstrapSteps, StartSteps,
      HandlerSteps, BootstrapGoes, Running, Goto

LEMMA BootstrapFailsKeeps ==
  ASSUME IInv, NEW p \in {"main", "handler"}, Running, pc[p] \in Attempting,
    BootstrapFails(p)
  PROVE  IInv'
<1>1. CASE Panic("attemptsExhausted")
  BY <1>1, PanicKeeps DEF Panics
<1>2. CASE tries + 1 # MaxAttempts
  BY <1>2, LifecycleAssumption
  DEF IInv, TypeOK, Counts, OneBootstrap, InStart, Started, WaitMeansDone, One, setup,
      bootstrapping, reporter, subscription, client, Attempting, BootstrapSteps, StartSteps,
      HandlerSteps, BootstrapFails, Running, Goto
<1> QED BY <1>1, <1>2 DEF BootstrapFails

LEMMA BootstrapKeeps ==
  ASSUME IInv, NEW p \in {"main", "handler"}, Bootstrap(p)
  PROVE  IInv'
<1> USE DEF Attempting, BootstrapSteps
<1>1. CASE ReporterQuitCtx(p)
  BY <1>1, LifecycleAssumption
  DEF IInv, TypeOK, Counts, OneBootstrap, InStart, Started, WaitMeansDone, One, setup,
      bootstrapping, reporter, subscription, client, StartSteps, HandlerSteps,
      ReporterQuitCtx, Running, Goto
<1>2. CASE FirstAttempt(p)
  BY <1>2, BootstrapReturnsKeeps, BootstrapGoesKeeps DEF FirstAttempt
<1>3. CASE SyncDone(p)
  BY <1>3, BootstrapGoesKeeps DEF SyncDone
<1>4. CASE SyncFails(p)
  BY <1>4, BootstrapFailsKeeps DEF SyncFails
<1>5. CASE InitBTCCache(p)
  BY <1>5, BootstrapGoesKeeps, PanicKeeps DEF InitBTCCache, Panics
<1>6. CASE Subscribe(p)
  <2>1. CASE p = "handler" /\ BootstrapGoes(p, "submit")
    BY <1>6, <2>1, BootstrapGoesKeeps DEF Subscribe
  <2>2. CASE /\ p = "main" /\ Goto(p, "submit") /\ subscribed' = TRUE
             /\ UNCHANGED <<setup, at, reporter, rpcUp, chan, chanClosed, closing, producer,
                            blocks, panic>>
    <3>1. pc.main = "subscribe"
      BY <1>6, <2>2 DEF Subscribe
    <3> QED
      BY <2>2, <3>1, LifecycleAssumption
      DEF IInv, TypeOK, Counts, OneBootstrap, InStart, Started, WaitMeansDone, One, setup,
          bootstrapping, reporter, subscription, client, StartSteps, HandlerSteps, Goto
  <2>3. CASE Panic("subscribe")
    BY <2>3, PanicKeeps DEF Panics
  <2> QED BY <1>6, <2>1, <2>2, <2>3 DEF Subscribe
<1>7. CASE Submit(p)
  BY <1>7, BootstrapReturnsKeeps, BootstrapFailsKeeps DEF Submit
<1>8. CASE Retry(p)
  BY <1>8, BootstrapReturnsKeeps, BootstrapGoesKeeps DEF Retry
<1> QED BY <1>1, <1>2, <1>3, <1>4, <1>5, <1>6, <1>7, <1>8 DEF Bootstrap

LEMMA WatchersKeep ==
  ASSUME IInv, WatcherSeesQuit \/ WatcherEnds
  PROVE  IInv'
<1> USE LifecycleAssumption DEF IInv, TypeOK, Counts, OneBootstrap, InStart, Started,
  WaitMeansDone, One, setup, bootstrapping, reporter, subscription, client, Running
<1>1. CASE WatcherSeesQuit
  BY <1>1 DEF WatcherSeesQuit
<1>2. CASE WatcherEnds
  BY <1>2 DEF WatcherEnds
<1> QED BY <1>1, <1>2

-----------------------------------------------------------------------------
LEMMA HandlerKeeps ==
  ASSUME IInv, HandleEvents
  PROVE  IInv'
<1> USE LifecycleAssumption DEF IInv, TypeOK, Counts, OneBootstrap, InStart, Started,
  WaitMeansDone, One, setup, bootstrapping, reporter, subscription, client, Running
<1> USE DEF Attempting, BootstrapSteps, StartSteps, HandlerSteps, Goto
<1>1. CASE HandlerBegins
  BY <1>1 DEF HandlerBegins
<1>2. CASE Receive
  BY <1>2 DEF Receive
<1>3. ASSUME Running, pc.handler \in {"select", "quitCheck"}, HandlerReturns
      PROVE  IInv'
  BY <1>3 DEF HandlerReturns
<1>4. CASE SelectQuit
  BY <1>3, <1>4 DEF SelectQuit
<1>5. CASE QuitCheck
  <2>1. CASE quit
    BY <1>3, <1>5, <2>1 DEF QuitCheck
  <2>2. CASE ~quit
    BY <1>5, <2>2 DEF QuitCheck
  <2> QED BY <2>1, <2>2
<1>6. ASSUME Running, pc.handler \in {"bestBlock", "handle"}, EventHandled
      PROVE  IInv'
  BY <1>6 DEF EventHandled
<1>7. CASE BestBlockFails
  BY <1>7 DEF BestBlockFails
<1>8. CASE BestBlockAnswered
  <2>1. CASE Panic("nilEvent")
    BY <2>1, PanicKeeps DEF Panics
  <2>2. CASE /\ \E step \in {"handle", "quitCheck"} : Goto("handler", step)
             /\ UNCHANGED <<setup, at, reporter, client, panic>>
    BY <1>8, <2>2 DEF BestBlockAnswered
  <2>3. CASE EventHandled
    BY <1>6, <1>8, <2>3 DEF BestBlockAnswered
  <2> QED BY <1>8, <2>1, <2>2, <2>3 DEF BestBlockAnswered
<1>9. CASE Handle
  <2>1. CASE EventHandled
    BY <1>6, <1>9, <2>1 DEF Handle
  <2>2. CASE ~EventHandled
    BY <1>9, <2>2 DEF Handle
  <2> QED BY <2>1, <2>2
<1> QED BY <1>1, <1>2, <1>4, <1>5, <1>7, <1>8, <1>9 DEF HandleEvents

LEMMA ProducerKeeps ==
  ASSUME IInv, ProduceEvents
  PROVE  IInv'
<1> USE LifecycleAssumption DEF IInv, TypeOK, Counts, OneBootstrap, InStart, Started,
  WaitMeansDone, One, setup, bootstrapping, reporter, subscription, client, Running,
  Produces
<1>1. CASE BlockEvent
  BY <1>1 DEF BlockEvent
<1>2. CASE LookUpBlock
  <2>1. CASE Panic("lookup")
    BY <2>1, PanicKeeps DEF Panics
  <2>2. CASE Produces("send") /\ UNCHANGED <<chan, blocks>>
    BY <2>2
  <2> QED BY <1>2, <2>1, <2>2 DEF LookUpBlock
<1>3. CASE Send
  <2>1. CASE Panic("sendOnClosed")
    BY <2>1, PanicKeeps DEF Panics
  <2>2. CASE ~chanClosed
    BY <1>3, <2>2 DEF Send
  <2> QED BY <1>3, <2>1, <2>2 DEF Send
<1>4. CASE ZmqHandlerExits
  BY <1>4 DEF ZmqHandlerExits
<1> QED BY <1>1, <1>2, <1>3, <1>4 DEF ProduceEvents

-----------------------------------------------------------------------------
LEMMA InitIInv == Init => IInv
<1> SUFFICES ASSUME Init
             PROVE  IInv
  OBVIOUS
<1>1. backend \in Backends /\ script \in Scripts /\ Len(script) \in Nat
  BY LifecycleAssumption DEF Init
<1>2. TypeOK
  <2>1. /\ quit \in BOOLEAN /\ started \in BOOLEAN /\ rpcUp \in BOOLEAN
        /\ chanClosed \in BOOLEAN /\ subscribed \in BOOLEAN /\ closing \in BOOLEAN
    BY Zenon DEF Init
  <2>2. /\ pc = [main |-> "idle", handler |-> "none"]
        /\ at = 1 /\ wg = 0 /\ leftover = 0 /\ tries = 0 /\ chan = 0 /\ blocks = 0
        /\ event = "none" /\ ctx = "none" /\ producer = "idle" /\ panic = "none"
    BY DEF Init
  <2> QED BY <1>1, <2>1, <2>2, LifecycleAssumption DEF TypeOK, StartSteps, HandlerSteps
<1>3. Counts /\ OneBootstrap /\ InStart /\ Started /\ WaitMeansDone
  BY DEF Init, Counts, One, OneBootstrap, Attempting, BootstrapSteps, InStart, Started,
    WaitMeansDone
<1> QED BY <1>2, <1>3 DEF IInv

LEMMA StepKeeps ==
  ASSUME IInv, [Next]_vars
  PROVE  IInv'
<1>1. CASE Next
  BY <1>1, StartKeeps, CallsKeep, WaitKeeps, BootstrapKeeps, WatchersKeep, HandlerKeeps,
     ProducerKeeps
  DEF Next, Shutdown
<1>2. CASE UNCHANGED vars
  BY <1>2 DEF vars, IInv, TypeOK, Counts, OneBootstrap, InStart, Started, WaitMeansDone, One
<1> QED BY <1>1, <1>2

LEMMA Invariance == Spec => []IInv
<1>1. IInv /\ [Next]_vars => IInv'
  BY StepKeeps
<1> QED BY <1>1, InitIInv, PTL DEF Spec

(***************************************************************************)
(* Every variable of the process keeps its type: the wait group never goes *)
(* below zero, which would be a panic, and the channel, the watchers and   *)
(* the attempts stay within their bounds (reporter.go, bootstrapping.go    *)
(* 140-181).                                                               *)
(***************************************************************************)
THEOREM TypeCorrect == Spec => []TypeOK
<1>1. IInv => TypeOK
  BY DEF IInv
<1> QED BY <1>1, Invariance, PTL

(***************************************************************************)
(* When WaitForShutdown has returned, neither the handler nor a watcher of *)
(* a bootstrap is left, whatever calls came before and wherever the        *)
(* reporter was when Stop came (reporter.go 121-150).                      *)
(***************************************************************************)
THEOREM WaitAlwaysMeansDone == Spec => []WaitMeansDone
<1>1. IInv => WaitMeansDone
  BY DEF IInv
<1> QED BY <1>1, Invariance, PTL

-----------------------------------------------------------------------------
(***************************************************************************)
(* What the order of the calls gives.  The channel is closed and zmqHandler *)
(* has ended only by calls that were made, and neither is ever undone; a   *)
(* nil event has come from a closed channel.                               *)
(***************************************************************************)
Made(call) == \E i \in 1..(at - 1) : script[i] = call

OrderInv ==
  /\ Made("btcShutdown") <=> ~rpcUp
  /\ chanClosed => Made("btcClose")
  /\ Made("zmqClose") => producer = "ended"
  /\ event = "nil" => chanClosed
  /\ panic \in {"lookup", "sendOnClosed"} => producer # "ended"
  /\ panic = "nilEvent" => event = "nil" /\ rpcUp

\* A call that returns is one more call made.
LEMMA CallMade ==
  ASSUME IInv, Running, Returns, script' = script, NEW call
  PROVE  Made(call)' <=> Made(call) \/ script[at] = call
<1>1. at \in Nat /\ at >= 1 /\ at' - 1 = at
  BY LifecycleAssumption DEF IInv, TypeOK, Returns
<1>2. \A i \in 1..at : i \in 1..(at - 1) \/ i = at
  BY <1>1
<1>3. \A i \in 1..(at - 1) : i \in 1..at
  BY <1>1
<1> QED
  BY <1>1, <1>2, <1>3 DEF Made

\* Before a call returns, the calls made are the same.
LEMMA SameCallsMade ==
  ASSUME UNCHANGED <<script, at>>, NEW call
  PROVE  Made(call)' <=> Made(call)
BY DEF Made

\* The steps that are not calls and touch neither the channel's end nor a nil event.
LEMMA QuietStepKeeps ==
  ASSUME IInv, OrderInv, UNCHANGED <<script, rpcUp, chanClosed>>,
         UNCHANGED at \/ (Running /\ Returns /\ script[at] \notin {"btcShutdown", "btcClose", "zmqClose"}),
         producer = "ended" => producer' = "ended",
         event' = event \/ event' # "nil",
         panic' = panic \/ (panic = "none" /\ panic' \notin {"nilEvent", "lookup", "sendOnClosed"}),
         panic = "none" \/ UNCHANGED <<producer, event>>
  PROVE  OrderInv'
<1>1. \A call \in {"btcShutdown", "btcClose", "zmqClose"} : Made(call)' <=> Made(call)
  BY CallMade, SameCallsMade
<1> QED
  BY <1>1 DEF OrderInv

LEMMA QuietStartSteps ==
  ASSUME IInv, OrderInv, Start \/ WatcherSeesQuit \/ WatcherEnds
  PROVE  OrderInv'
<1> USE DEF setup, bootstrapping, reporter, subscription, client
<1>1. Running /\ panic = "none"
  BY DEF Start, CallStart, StartLock, StartWaits, CatchUp, SpawnHandler, WatcherSeesQuit,
    WatcherEnds, Calling, Running
<1>2. UNCHANGED <<script, rpcUp, chanClosed, producer, event>>
  BY DEF Start, CallStart, StartLock, StartWaits, CatchUp, SpawnHandler, WatcherSeesQuit,
    WatcherEnds, Panic
<1>3. UNCHANGED at \/ (Returns /\ pc.main # "idle")
  BY DEF Start, CallStart, StartLock, StartWaits, CatchUp, SpawnHandler, WatcherSeesQuit,
    WatcherEnds, Panic
<1>4. panic' = panic \/ panic' = "catchUp"
  BY DEF Start, CallStart, StartLock, StartWaits, CatchUp, SpawnHandler, WatcherSeesQuit,
    WatcherEnds, Panic
<1>5. pc.main # "idle" => script[at] = "start"
  BY DEF IInv, InStart
<1> QED
  BY <1>1, <1>2, <1>3, <1>4, <1>5, QuietStepKeeps

LEMMA QuietBootstrapSteps ==
  ASSUME IInv, OrderInv, NEW p \in {"main", "handler"}, Bootstrap(p)
  PROVE  OrderInv'
<1> USE DEF setup, bootstrapping, reporter, subscription, client, Bootstrap, ReporterQuitCtx,
  FirstAttempt, SyncDone, SyncFails, InitBTCCache, Subscribe, Submit, Retry, BootstrapReturns,
  BootstrapGoes, BootstrapFails, Panic
<1>1. panic = "none"
  BY DEF Running
<1>2. UNCHANGED <<script, rpcUp, chanClosed, producer, event, at>>
  OBVIOUS
<1>3. panic' = panic \/ panic' \in {"attemptsExhausted", "initCache", "subscribe"}
  OBVIOUS
<1> QED
  BY <1>1, <1>2, <1>3, QuietStepKeeps

LEMMA CallsOrder ==
  ASSUME IInv, OrderInv, Shutdown \/ Signal
  PROVE  OrderInv'
<1> USE DEF setup, bootstrapping, reporter, subscription, client, Calling
<1>1. CASE Signal \/ Stop \/ WaitForShutdown \/ WaitForRPC \/ CloseZmq
  <2>1. /\ panic = "none" /\ UNCHANGED <<script, rpcUp, chanClosed, producer, event, panic>>
        /\ UNCHANGED at \/ (Running /\ Returns /\ script[at] \in {"signal", "stop", "wait", "btcWait"})
    BY <1>1 DEF Signal, Stop, WaitForShutdown, WaitForRPC, CloseZmq, Running
  <2> QED
    BY <2>1, QuietStepKeeps
<1>2. CASE ShutdownRPC \/ CloseChannel \/ CloseZmqReturns
  <2>1. /\ Running /\ Returns /\ UNCHANGED <<script, producer, event, panic>> /\ panic = "none"
    BY <1>2 DEF ShutdownRPC, CloseChannel, CloseZmqReturns, Running
  <2>2. \A call \in {"btcShutdown", "btcClose", "zmqClose"} :
          Made(call)' <=> Made(call) \/ script[at] = call
    BY <2>1, CallMade
  <2>3. CASE ShutdownRPC
    <3>1. script[at] = "btcShutdown" /\ rpcUp' = FALSE /\ chanClosed' = chanClosed
      BY <2>3 DEF ShutdownRPC
    <3> QED
      BY <2>1, <2>2, <3>1 DEF OrderInv
  <2>4. CASE CloseChannel
    <3>1. script[at] = "btcClose" /\ chanClosed' = TRUE /\ rpcUp' = rpcUp
      BY <2>4 DEF CloseChannel
    <3> QED
      BY <2>1, <2>2, <3>1 DEF OrderInv
  <2>5. CASE CloseZmqReturns
    <3>1. script[at] = "zmqClose" /\ producer = "ended" /\ UNCHANGED <<rpcUp, chanClosed>>
      BY <2>5 DEF CloseZmqReturns
    <3> QED
      BY <2>1, <2>2, <3>1 DEF OrderInv
  <2> QED
    BY <1>2, <2>3, <2>4, <2>5
<1> QED
  BY <1>1, <1>2 DEF Shutdown

LEMMA HandlerOrder ==
  ASSUME IInv, OrderInv, HandleEvents
  PROVE  OrderInv'
<1> USE DEF setup, bootstrapping, reporter, subscription, client
<1>1. /\ panic = "none" /\ UNCHANGED <<script, rpcUp, chanClosed, producer, at>>
  BY DEF HandleEvents, HandlerBegins, Receive, SelectQuit, QuitCheck, BestBlockAnswered,
    BestBlockFails, Handle, EventHandled, HandlerReturns, Panic, Running
<1>2. \A call \in {"btcShutdown", "btcClose", "zmqClose"} : Made(call)' <=> Made(call)
  BY <1>1, SameCallsMade
<1>3. event' = "nil" => event = "nil" \/ chanClosed
  BY DEF HandleEvents, HandlerBegins, Receive, SelectQuit, QuitCheck, BestBlockAnswered,
    BestBlockFails, Handle, EventHandled, HandlerReturns, Panic
<1>4. panic' = panic \/ (panic' = "nilEvent" /\ event' = "nil" /\ rpcUp)
  BY DEF HandleEvents, HandlerBegins, Receive, SelectQuit, QuitCheck, BestBlockAnswered,
    BestBlockFails, Handle, EventHandled, HandlerReturns, Panic, Answered
<1> QED
  BY <1>1, <1>2, <1>3, <1>4 DEF OrderInv

LEMMA ProducerOrder ==
  ASSUME IInv, OrderInv, ProduceEvents
  PROVE  OrderInv'
<1> USE DEF setup, bootstrapping, reporter, subscription, client
<1>1. /\ panic = "none" /\ UNCHANGED <<script, rpcUp, chanClosed, event, at>>
      /\ producer # "ended"
      /\ panic' = panic \/ (panic' \in {"lookup", "sendOnClosed"} /\ producer' = producer)
  BY DEF ProduceEvents, BlockEvent, LookUpBlock, Send, ZmqHandlerExits, Produces, Panic, Running
<1>2. \A call \in {"btcShutdown", "btcClose", "zmqClose"} : Made(call)' <=> Made(call)
  BY <1>1, SameCallsMade
<1> QED
  BY <1>1, <1>2 DEF OrderInv

LEMMA OrderNext ==
  ASSUME IInv, OrderInv, [Next]_vars
  PROVE  OrderInv'
<1>1. CASE UNCHANGED vars
  <2>1. UNCHANGED <<script, at, rpcUp, chanClosed, producer, event, panic>>
    BY <1>1 DEF vars
  <2>2. \A call \in {"btcShutdown", "btcClose", "zmqClose"} : Made(call)' <=> Made(call)
    BY <2>1, SameCallsMade
  <2> QED
    BY <2>1, <2>2 DEF OrderInv
<1>2. CASE Next
  BY <1>2, QuietStartSteps, QuietBootstrapSteps, CallsOrder, HandlerOrder, ProducerOrder DEF Next
<1> QED
  BY <1>1, <1>2

LEMMA OrderInit == Init => OrderInv
<1> SUFFICES ASSUME Init
             PROVE  OrderInv
  OBVIOUS
<1>1. \A call : ~Made(call)
  BY DEF Init, Made
<1>2. rpcUp = TRUE /\ chanClosed = FALSE /\ event = "none" /\ panic = "none"
  BY DEF Init
<1> QED
  BY <1>1, <1>2 DEF OrderInv

LEMMA OrderAlways == Spec => [](IInv /\ OrderInv)
<1>1. IInv /\ OrderInv /\ [Next]_vars => (IInv /\ OrderInv)'
  BY StepKeeps, OrderNext
<1> QED
  BY <1>1, InitIInv, OrderInit, PTL DEF Spec

\* btcclient's Stop shuts the rpc client down before it closes the channel.
ShutdownBeforeClose ==
  \A s \in Scripts : \A i \in 1..Len(s) :
    s[i] = "btcClose" => \E k \in 1..(i - 1) : s[k] = "btcShutdown"

(***************************************************************************)
(* The nil event of the closed channel is never read, in any interleaving, *)
(* because the client's Stop shuts the rpc client down before it closes    *)
(* the channel (client.go 55-63): that order is all it takes.              *)
(***************************************************************************)
THEOREM NilEventNeverRead ==
  ASSUME ShutdownBeforeClose
  PROVE  Spec => []NilEventIsNotRead
<1>1. IInv /\ OrderInv => NilEventIsNotRead
  <2> SUFFICES ASSUME IInv, OrderInv, panic = "nilEvent"
               PROVE  FALSE
    BY DEF NilEventIsNotRead
  <2>1. rpcUp /\ Made("btcClose") /\ ~Made("btcShutdown")
    BY DEF OrderInv
  <2>2. PICK i \in 1..(at - 1) : script[i] = "btcClose"
    BY <2>1 DEF Made
  <2>3. /\ script \in Scripts /\ at \in 1..(Len(script) + 1) /\ Len(script) \in Nat
    BY LifecycleAssumption DEF IInv, TypeOK
  <2>4. i \in 1..Len(script)
    BY <2>3
  <2>5. PICK k \in 1..(i - 1) : script[k] = "btcShutdown"
    BY <2>2, <2>3, <2>4 DEF ShutdownBeforeClose
  <2>6. k \in 1..(at - 1)
    BY <2>3
  <2> QED
    BY <2>1, <2>5, <2>6 DEF Made
<1> QED
  BY <1>1, OrderAlways, PTL

(***************************************************************************)
(* Whatever else a script does, closing zmq before the BTC client is       *)
(* stopped keeps zmqHandler from panicking on the rpc client that is shut  *)
(* down or on the closed channel (zmq/client.go 23, 104-129).              *)
(***************************************************************************)
THEOREM AlwaysQuietAfterClose == Spec => []QuietAfterClose
<1>1. IInv /\ OrderInv => QuietAfterClose
  <2> SUFFICES ASSUME IInv, OrderInv, ClosesZmqFirst(script), ~rpcUp
               PROVE  panic \notin {"lookup", "sendOnClosed"}
    BY DEF QuietAfterClose
  <2>1. PICK i \in 1..(at - 1) : script[i] = "btcShutdown"
    BY DEF OrderInv, Made
  <2>2. /\ at \in 1..(Len(script) + 1) /\ Len(script) \in Nat
    BY LifecycleAssumption DEF IInv, TypeOK
  <2>3. PICK k \in 1..Len(script) :
          /\ script[k] = "zmqClose"
          /\ \A j \in 1..Len(script) : script[j] \in {"btcShutdown", "btcClose"} => k < j
    BY DEF ClosesZmqFirst
  <2>4. k < i /\ k \in 1..(at - 1)
    BY <2>1, <2>2, <2>3
  <2>5. producer = "ended"
    BY <2>3, <2>4 DEF OrderInv, Made
  <2> QED
    BY <2>5 DEF OrderInv
<1> QED
  BY <1>1, OrderAlways, PTL
=============================================================================
