# A verification of the Lorenzo relayer

The relayer is one Go program with two independent daemons. `lrzrelayer reporter`
follows a Bitcoin node and submits its block headers to the Bitcoin light client of
the Lorenzo chain. `lrzrelayer bnbreporter` does the same for BNB headers. This
directory holds TLA+ models of both, TLC configurations that check them on small
instances, and TLAPS proofs about both reporters, the block cache, the catch-up and the
process's life.

Paths below are relative to `src/`.

## 1. Inventory

### BTC reporter (`reporter/`)

- **State.** `btcCache` (a window of recent blocks), `reorgList` (blocks removed by the
  reorganisation in progress and their total work), the Lorenzo client, `quit` and
  `started`; the constants K (`btcConfirmationDepth`), W
  (`checkpointFinalizationTimeout`) and `delayBlocks`. Nothing is on disk.
- **Operations.** `Start` first runs `waitLorenzoCatchUpCloseToBTCTip` (two goroutines
  and three channels), then `bootstrapWithRetries`, then the event loop
  `blockEventHandler`. `bootstrap` clears the reorg list, waits until the node is not
  behind Lorenzo, loads the cache, subscribes, checks that the K-deep block is the
  same on both sides, and submits the cached headers except the last `delayBlocks`.
  The handler takes one event at a time, waits until its block is `delayBlocks` deep
  *by height*, and runs `handleConnectedBlocks` or `handleDisconnectedBlocks`; an error
  of either asks for a bootstrap that skips the subscription.
- **Interactions.** It queries the BTC client, takes events from the channel
  `blockEventChan` that the client's callbacks fill, and queries and submits to Lorenzo
  through the SDK client.
- **Hard behaviours.** The node reorganises between any two calls. Events that were
  queued before a bootstrap are handled after it. Events are lost (zmq). Submissions
  fail, or are applied although they seem to fail. Other relayers write to the same
  light client. A restart keeps nothing but what Lorenzo got.
- **Correct when** the cache is always a chain; only buried headers are submitted; what
  is submitted connects and is accepted; a reorganisation is relayed as one branch;
  no panic is reached in normal operation; the handler is always subscribed; Lorenzo
  ends on the node's chain.

### BTC block cache (`types/btccache.go`)

- **State.** A slice of blocks and a capacity, under a mutex.
- **Operations.** `Init`, `Add`, `RemoveLast`, `RemoveAll`, `Resize`, `Trim`,
  `TrimConfirmedBlocks`, `FindBlock` (a binary search in unsigned arithmetic),
  `GetLastBlocks`.
- **Correct when** it is the newest part of the chain it follows, without a hole, and
  the searches agree with a plain definition of what they return.

### Process life (`reporter/reporter.go`, `cmd/lrzrelayer/cmd/`)

- **State.** `quit`, guarded by `quitMu`; `started`; the wait group `wg` of the event
  handler and of the watchers that cancel a bootstrap's context; the list of interrupt
  handlers.
- **Operations.** `Start`, `Stop`, `WaitForShutdown`, a second `Start`; on an interrupt
  the handlers, last in first out: first the BTC client is stopped, then the reporter.
- **Hard behaviours.** `Start` waits for the old goroutines while it holds the lock they
  may need. The client is stopped under a reporter and a producer of events that still
  use it. A bootstrap may begin while `Stop` runs.
- **Correct when** an interrupt ends the process, `WaitForShutdown` leaves no goroutine,
  and nothing uses what has been closed.

### BTC client and block subscription (`btcclient/`, `zmq/`)

- **State.** The RPC client, the subscription flag and lock of the zmq client,
  `blockEventChan` (buffered).
- **Operations.** Height and block queries with retries, subscription through zmq
  (bitcoind) or websocket callbacks (btcd), `Stop`.
- **Hard behaviours.** Delivery order, loss, a second subscription, shutdown while
  producers still send.

### BNB reporter and client (`bnbreporter/`, `bnbclient/`)

- **State.** `lorenzoTip`, the last header that was reported, and `quit`. Nothing is on
  disk.
- **Operations.** `Start` runs `boostrap` (spelled so in the code),
  `WaitLorenzoCatchUp` (a producer goroutine and a channel of header batches) and
  `WaitBNBCatchUp`; `mainLoop` polls, fetches the headers up to `delayBlocks` below the
  tip and uploads them; a refused upload runs `boostrap` again.
- **Correct when** only buried headers are uploaded, `lorenzoTip` is always something
  Lorenzo has, catching up is complete, and Lorenzo stays within `delayBlocks`.

### The rest

Configuration, metrics, network parameters, BNB header encoding and the message types
hold no state that the properties are about. `PROJECT.json` lists them as components
that are not modelled, and lists the hazards of the code, each at its line.

## 2. Modules

| module | models |
| --- | --- |
| `BlockTree` | Blocks as paths in a tree: hash equality, parent, height, work. |
| `BTCCache` | Each method of `types/btccache.go` as an operator on a cache. |
| `LorenzoLightClient` | Lorenzo's Bitcoin light client, as the reporter uses it. External. |
| `HeaderRelay` | Abstract: what a relayer of headers promises. Both reporters implement it. |
| `CacheMachine` | The cache under every sequence of calls, next to the list it is a window of. |
| `Reporter` | The BTC reporter, composed with the node, the event channel and Lorenzo. |
| `CatchUp` | The two goroutines of the catch-up in `Start`. Implements the `start` steps of `Reporter`. |
| `Lifecycle` | Start, stop, interrupts and restarts of the BTC reporter's process, with its goroutines, lock, wait group and bounded event channel. |
| `BNBReporter` | The BNB reporter with its producer goroutine, the BNB node and Lorenzo. |
| `BlockTreeProofs`, `BTCCacheProofs` | Lemmas about blocks, chains and the operators of the cache. |
| `ReporterProofs`, `ReporterRelayProofs` | Theorems about `Reporter`: its own state; what it relays. |
| `CacheMachineProofs`, `CatchUpProofs`, `BNBReporterProofs`, `LifecycleProofs` | Theorems about the module of that name. |
| `SmallTrees`, `MC*` | Small instances for TLC. |

**Blocks.** A block is identified with the path to it from the first block of the tree:
a non-empty sequence whose length is the height. A parent is the path without its last
step, and `OnChain(b, tip)` is "b is a prefix of tip". Two blocks are equal exactly when
their hashes would be. The light client and the nodes are given by their tip alone.

**Where steps end.** The reporter is one process (`pc`) cut at its calls to the node and
to Lorenzo. Between two steps the node may move to any heavier chain, emitting the
disconnect and connect events of the change, and another relayer may insert headers.

| `pc` in `Reporter` | code | actions |
| --- | --- | --- |
| `start` | `bootstrapping.go` 234-314 | `AlreadyClose`, `CatchUp`, `CatchUpOnStaleFork` |
| `bootstrap` | `bootstrapping.go` 79-86 | `WaitUntilBTCSync` |
| `initCache` | `initBTCCache` | `InitBTCCache` |
| `subscribe` | `bootstrapping.go` 94-96 | `Subscribe`; with bitcoind `SubscriptionBegins` follows at any later time |
| `consistency` | `checkConsistency`, 98-119 | `CheckConsistency` |
| `dedup`, `insert` | `ProcessHeaders` in `utils.go` | `Dedup`, `SubmitChunk` |
| `idle`, `mature` | `blockEventHandler` | `ReceiveEvent`, `Mature` |
| `handle` | `handleConnectedBlocks`, `handleDisconnectedBlocks` | `RejectConnected`, `SkipConnected`, `ExtendCache`, `HandleDisconnected` |
| `lorenzoTip` | `block_handler.go` 164-176 | `QueryLorenzoTip` |
| `down` | a panic, a `Fatalf` or a crash | `Restart` |

`subscribed` is the flag that refuses a second subscription; `listening` is whether the node's
moves cause events. With btcd both are set by the answer of `NotifyBlocks`, and a failed request
ends the process. With bitcoind `SubscribeSequence` only posts a message to `zmqHandler`, which
subscribes when it gets to it: the bootstrap may be over by then.

`ProcessHeaders` is shared: `InBootstrap` (no event in hand) tells which caller it
returns to. `ProcessingFails` is where the callers differ: `bootstrap` returns the
error, the event handler only logs it. `exit` records what ended the process.

In `BNBReporter`, fetching a range and uploading it is one step. What the node does
between the two may as well happen after both, since the range was fixed by the fetch,
and what another relayer does between them may as well happen before both.

`CatchUp` cuts `waitLorenzoCatchUpCloseToBTCTip` at every channel operation and request.
`caller` is the function, `producer` its goroutine, and `select` is a choice among the
actions that are enabled:

| code (`bootstrapping.go`) | actions |
| --- | --- |
| 236-251 | `GetBestBlock`, `AlreadyClose`, `Begin` |
| 291-302 | `TakeBatch`, `Process` |
| 303-308 | `TakeError`; `Return` for `overCh` and `quit` |
| 258-284 | `CheckLoop`, `Fetch`, `Send` |
| errors of the requests | `CallerRequestFails`, `FetchFails` |

`Lifecycle` leaves out what is relayed. A *script* is the sequence of calls the process
makes: the reporter command with its interrupt handlers, the same with zmq's `Close`
first, or a caller that restarts the reporter. `pc.main` is where `Start` is,
`pc.handler` where the event handler is, and both may be inside `bootstrapWithRetries`,
whose steps are therefore parameterised by the process. `leftover` counts the watchers
of `reporterQuitCtx` that have not ended although their bootstrap has returned.

| code | actions |
| --- | --- |
| `reporter.go` 78-111 | `CallStart`, `StartLock`, `StartWaits` (with the lock held), `CatchUp`, `SpawnHandler` |
| `reporter.go` 121-150 | `Stop`, `WaitForShutdown` |
| `reporterQuitCtx`, `bootstrapWithRetries` | `ReporterQuitCtx`, `WatcherSeesQuit`, `WatcherEnds`, `FirstAttempt`, `Retry` |
| `bootstrap` | `SyncDone`, `SyncFails`, `InitBTCCache`, `Subscribe`, `Submit` |
| `block_handler.go` 16-66 | `HandlerBegins`, `Receive`, `SelectQuit`, `QuitCheck`, `BestBlockAnswered` (a disconnected block is handled with it), `BestBlockFails`, `Handle` (the requests for a connected block) |
| `zmqHandler`, `sendBlockEvent`; the websocket callbacks | `BlockEvent`, `LookUpBlock`, `Send` |
| `btcclient/client.go` 55-63; `zmq/client.go` 106-130 | `ShutdownRPC`, `CloseChannel`, `WaitForRPC`; `CloseZmq`, `ZmqHandlerExits`, `CloseZmqReturns` |

With bitcoind a request is answered whenever the rpc client is up. With btcd the answers
are read by the goroutine that runs the callbacks, so there are none while a callback
waits for room in the event channel (`Answered`). The subscription is one of these requests
with btcd. In this module `subscribed` only allows block events: when they begin is open, and
no fairness asks for one.

**History variables.** `matured` (`buried` for BNB) is the set of blocks that ever had
`Delay` blocks on top on the node's best chain. It exists to state `OnlyMatureHeaders`
and `OnlyBuriedHeaders`; no step reads it.

**Faulty variants.** A few definitions are preceded by a variant that nothing refers to,
such as `BatchEndOverlapping` before `BatchEnd`. They are plausible bugs, and
`PROJECT.json` ("mutants") says which property tells each from the real definition.

## 3. What the runs check

### Runs that pass

| run | question | instance |
| --- | --- | --- |
| `MCCacheMachine` | Is the cache a window of its chain, does its search agree with a plain definition, and does `Trim` always make room? | Chains of 7 blocks, all fillings of at most 4 blocks with gaps, capacities 1-4. |
| `MCReporterReorgs` | With nothing failing, does every interleaving with the node keep the submissions right and reach no panic? Does it implement `HeaderRelay`? | Four competing chains, Delay 1, K 3. |
| `MCReporterDeepDelay` | With a larger delay, is Lorenzo never left on a fork that the reorg list has forgotten, are the blocks sent to catch up attached to its tip, does what an event submits reach the end of the cache, and does Lorenzo end on the node's chain? | Four competing chains, Delay 2, K 3. |
| `MCReporterFaults` | After any two early faults, do cache and subscription stay sound, does no event panic, and does Lorenzo end on the node's chain? | Two chains, a trunk of 11 blocks, Delay 1, K 2. |
| `MCBNBReporter` | After any two faults and on forks within or beyond `Delay`, is what is uploaded buried, is `lorenzoTip` reported, is catching up complete and never refused, and does Lorenzo stay within `Delay` of the node? Does it implement `HeaderRelay`? | Delay 2, batches of 2, a channel of 1, Lorenzo fresh, at the base or ahead. |
| `MCCatchUp` | Do the two goroutines of the BTC catch-up end, how far short can they end, what do they leave behind, and do they implement the one step `Reporter` takes for them? | K 1, batches of 3, a channel of 1, reorganisations of up to 2K blocks, one abandoned chain, failures and a stop at any time. |
| `MCLifecycle` | Does shutdown end, is nothing left or used after it, and where may the handler or a call wait for ever? | Both backends, three scripts, a channel of 1, three block events, two bootstrap attempts. |

The properties worth a reader's time (section 5 says which are proved as well):

- `CacheIsChain` and `HandlerIsSubscribed`. For the first, the code checks a new block
  against the node, against the cache and against its parent, which must refuse every
  event that was queued before a bootstrap replaced the cache, and every event after a
  lost one.
- `EventsDoNotPanic`: whatever fails, a block event neither fills the cache beyond its
  capacity nor asks it for the blocks of a branch that forks below it.
- `OnlyMatureHeaders`: the delay is measured by height against the node's *current* tip,
  and the block itself may have left the best chain since. The check that a connected
  block is still in the best chain (`block_handler.go` 72-84) is what makes it hold.
- `BootstrapForkAccepted`: dropping the last `Delay` headers must not make the fork worse
  than what Lorenzo has.
- `ReorgListIsBranch`, `ForkIsRemembered`, `EventHeadersAccepted`, `CatchUpAttaches`: they
  relate the reorg list, the cache and Lorenzo's tip in the middle of a reorganisation. The
  list is cleared before its branch is submitted; `ForkIsRemembered` says that it is not
  cleared while Lorenzo still needs it.
- `EventsReachLorenzo`: a step that ends a submission of the event handler has brought
  Lorenzo to the end of the cache, unless a branch started above what Lorenzo can attach; it is
  the form in which `EventHeadersAccepted`, which is true for Delay 1 only, holds for any Delay.
- `LagBounded`: with Delay 1, Lorenzo is never more than Delay behind the parent of the
  block that is waited for, in the middle of a reorganisation as well. It is not a property
  for Delay 2: there a refused branch (section 4, `MCReporterShallowReorg`) adds to the lag.
- `LorenzoCatchesUp`: if the process lives, Lorenzo ends on the node's chain, at most
  2 * Delay behind: a bootstrap leaves out Delay blocks, and events wait for Delay more.
- `CatchUpIsComplete`, `CatchUpIsNotRejected`: the BNB reporter's producer and consumer,
  with a bounded channel, in every order, while the node reorganises.
- `RelaysBuriedHeaders`: both reporters, with catching up, retries and restarts, implement
  `HeaderRelay`: Lorenzo's chain only moves to blocks that had `Delay` blocks on top, and
  only to more work.
- `ShortfallBounded`: `overCh` and `ibCh` are chosen at random, so catching up may end with
  batches still waiting, but never with more than a channel full of them.
- `StaleForkIsLorenzos`: the panic on a batch that does not extend the last one is reached
  only if Lorenzo was on an abandoned chain from the start, although each batch is read
  from the chain the node has by then.
- `OnlyStopLeavesProducer`: a stop can leave the producer waiting on a channel that nobody
  reads any more; nothing else can.
- `ImplementsReporterStart`: every end of that race is one of `Reporter`'s steps, so that what
  is checked and proved of `Reporter` does not depend on its taking them at once.
- `WaitMeansDone`, `NilEventIsNotRead`, `QuietAfterClose`, `ShutdownCompletes`: shutdown, in any
  state of the handler, of a bootstrap and of the producer. The handler would read the
  height of a nil event if the event channel were closed before the rpc client is.
- `HandlerStallsOnlyOnMuNodeOrChannel`, `CallsHangOnlyOnMuNodeOrChannel`: at which steps the
  handler can stay for ever, and what a call of the script that never returns waits for (zmq's
  `Close` and a restart's catch-up included): `quitMu` held by a restart, a node behind Lorenzo,
  or room in the channel. Each case named does occur in the run. They do not speak of a handler
  that goes on asking for the best block because its event never gets deep enough.
- `TipIsReported`: holds across uploads that were applied but seemed to fail.

### Bounds

- **Trees.** A trunk and up to three forks, each of which can become the best chain, by up
  to five new blocks. Several reorganisations happen in one behaviour, and a new one
  arrives while the events of the last are still queued. The trees go on far enough
  after the last fork for Lorenzo to settle: `LorenzoCatchesUp` speaks of the end of
  the tree, and the blocks that complete a reorganisation must come before it.
- **Depth.** No chain on which a block has been buried K + Delay deep is abandoned below
  that block: what Lorenzo has is Delay deep, and its K-deep blocks have to stay. A deeper reorganisation ends the reporter (`inconsistent`), as the code intends.
- **K, W.** 2 or 3, and 1. W only sizes the cache. `MaxHeaders` is K + 1: a message must
  hold a whole fork, otherwise its first part alone is not heavier and is refused. The
  configuration guarantees as much (`config/reporter.go`: at least 100).
- **Cache.** Capacity 12 while bootstrapping, above every chain used, as the configured
  minimum of 1000 is in practice. The overflow is the subject of `MCCacheMachine`.
- **MaxAttempts** is 2 instead of 60: one retry and one final failure.
- **Work.** Uniform, as within a difficulty period, except in `MCReporterUnevenWork`.
- **Catch-up.** The 2K blocks of `closeGap` bound the reorganisations, since a batch ends that
  far below the tip. A channel of 1 and batches of 3 make three batches and a full
  channel possible; the code has 10 and 100. `ShortfallBounded` is stated in these numbers.
- **Life.** A channel of 1 (10000 in the code) is filled by two events; the third one waits.
  `MaxWatchers` 2: a bootstrap can begin while the watchers of two others have yet to end.
- **Faults.** A budget (`MaxFaults`) of two, of any mix of kinds. In `MCReporterFaults`
  they happen before the node's chain has passed height 6 (`LastFaultHeight`), so that
  the tree is long enough to recover on.

`CHECK_DEADLOCK FALSE` is set in the node models because a tree is finite: once the
heaviest chain is the best one and everything has been relayed, nothing is left to do.
A process that ended without a restart in the budget stops as well.

### Fairness

`FairSpec` assumes weak fairness of the process's steps (they are a loop that Go keeps
scheduling, with requests that return) and of the node moving on to the heaviest chain
of the tree. Nothing is assumed of faults, restarts or other relayers.

`zmqHandler` is weakly fair as well (`SubscriptionBegins`). A block that is mined after the
cache was loaded and before the subscription begins causes no event; a later block reveals
the gap once it is `Delay` deep. On a tree that ends there might be no later block, so a move
that nobody hears (`Unheard`) is taken in `FairSpec` only to a block that is not among the last of
the tree (`MoreToCome`). The gap itself is reached in `MCReporterDeepDelay` and `MCReporterFaults`,
the runs of `FairSpec`. The runs of `Spec` and the theorems do not have this restriction.

In `CatchUp` both goroutines are weakly fair; no request, failure, stop or move of the node
is. In `Lifecycle` every goroutine is, and with it the end of a request that can end (`Served`):
it is answered, if the answer can be read, or the client is shut down and it fails, as
`ErrClientShutdown` does. A request whose answer waits behind a blocked callback is therefore
not forced to fail; it stalls, and with it the process that makes it. Nothing makes a node that
is behind Lorenzo catch up, a block arrive or a signal come.

For the BNB reporter both goroutines are weakly fair. `LorenzoFollows` is stated for a
process that is neither stopped nor down for ever. On a fork deeper than `Delay`, Lorenzo's
chain may be abandoned for good; the property then only says that it stays so.

## 4. Where the code and what is said of it differ

Each of these runs has one property, quoted from the code's own comments, and TLC finds
a counterexample.

- **`MCReporterResubscribe`.** With bitcoind, a first bootstrap that fails after it
  subscribed is retried with the subscription. zmq refuses a second one and the process
  panics, so the 60 attempts are never made.
- **`MCReporterFailedSubmission`.** A branch is taken off the reorg list before it is
  submitted, and a failed submission is only logged. Lorenzo stays on the abandoned
  fork, and the blocks sent to make it catch up do not extend its tip. Only when
  Lorenzo's tip falls out of the cache does a bootstrap repair it.
- **`MCReporterShallowReorg`.** With Delay 2, a bootstrap leaves Lorenzo two blocks
  behind. A reorganisation of these two blocks starts above Lorenzo's tip, so the
  submitted branch does not connect. The next block repairs it.
- **`MCReporterUnevenWork`.** The comment in `bootstrap` says our fork is better than
  Lorenzo's. The line below it drops the last blocks, after which this need not hold
  when blocks differ in work.
- **`MCShutdownPanics`.** An interrupt is handled "to do a clean shutdown"
  (`cmd/lrzrelayer/cmd/utils.go` 40). The BTC client's `Stop` comes first and closes what the
  producer of block events uses; zmq's `Close`, which its documentation demands, is never
  called. A block that arrives in between makes `zmqHandler` panic on its lookup; a sender
  that is past the lookup panics on the closed channel; a bootstrap of the handler panics
  in `initBTCCache`. `QuietAfterClose` shows that closing zmq first cures the lookup and the send.

Further behaviours that are modelled, and that a maintainer should know of:

- On a fresh light client the BNB reporter uploads the base header and then panics
  (`UploadBaseHeader`); the next start goes on normally.
- A BNB reorganisation deeper than `delayBlocks` leaves the main loop running `boostrap`
  for ever, since no header attaches (`Abandoned` in `BNBReporter`).
- `Start` on a stopped BTC reporter waits for the handler while it holds `quitMu`. A handler
  that just begins, or is about to bootstrap, waits for that lock: both wait for ever.
  A handler in `waitUntilBTCSync` does not look at `quit` either. The reporter command
  never restarts a reporter.
- With bitcoind a restarted reporter panics, since the subscription is still active.
- With btcd, once the event channel is full, a callback holds back every answer of the node.
  A handler that waits for one never empties the channel. An interrupt still ends it: the
  shutdown fails the request.
- A stop during the catch-up leaves its producer blocked on `ibCh` or `errorCh` for ever; it
  is not in the wait group.
- `SubscribeSequence` keeps the zmq client's lock when it refuses a second subscription. The
  only caller panics on that error, so the lock is never waited for.
- A reporter restarted more than 2K blocks behind, with Lorenzo on an abandoned fork,
  panics in the catch-up (`CatchUpOnStaleFork`).
- When two zmq messages are lost, the reorg list may hold blocks of two
  reorganisations, and its last element is then not the oldest (`reorg_list.go` 32-34
  assumes it is). `ReorgListIsBranch` is therefore checked without lost events.
- `Trim` does not set `maxEntries`, although its comment says so.

## 5. What is proved

Every theorem below holds for every block tree, every interleaving and every value of the
constants, under the assumptions that are named with it. `PROJECT.json` ("theorems") lists
them with the property each states.

| module | theorem | assumptions beyond the model's own |
| --- | --- | --- |
| `ReporterProofs` | `TypeCorrect`, `CacheAlwaysChain`, `HandlerAlwaysSubscribed` | none |
| | `ReorgListAlwaysBranch` | no lost events |
| `ReporterRelayProofs` | `HeadersAlwaysMature` | `HeavierIsHigher` |
| | `ImplementsHeaderRelay` | `HeavierIsHigher`, `Delay <= 2 * K`, no rival relayer |
| | `BootstrapAlwaysBeatsFork` | `WorkIsHeight`, `LorenzoStartsBuried`, `MaxHeaders > K`, `Delay <= 2 * K`, no rival relayer |
| | `EventsNeverPanic` | `WorkIsHeight`, no lost events |
| | `OnlyLorenzoFailuresPanicRetry` | those of `BootstrapAlwaysBeatsFork`, and no failed request to Lorenzo |
| | `ReporterNeverPanics` | the same, `ReorgsAreShallow`, `NodeStartsAboveBase`, `LorenzoStartsSettled`, `CacheHoldsChain`, `W >= 1`, and no faults but failed requests to the node and crashes |
| | `ForkAlwaysRemembered`, `CatchUpAlwaysAttaches`, `EventsAlwaysReachLorenzo` | `WorkIsHeight`, `ReorgsAreShallow`, `LorenzoStartsBuried`, `LorenzoAlone`, `MaxHeaders > K`, `Delay <= 2 * K` |
| `CatchUpProofs` | `TypeCorrect`, `ShortfallAlwaysBounded`, `ProducerAlwaysEnds` | none |
| | `StaleForkAlwaysLorenzos` | `ShallowForks`, `HeavierIsHigher` |
| | `ImplementsStart` | the same, and `HighestExists` |
| `BNBReporterProofs` | `TypeCorrect`, `TipAlwaysReported`, `CatchUpNeverRejected` | none |
| | `OnlyBuriedAlways`, `ImplementsHeaderRelay`, `CatchUpAlwaysComplete` | `HeavierIsHigher` |
| `CacheMachineProofs` | `TypeCorrect`, `AlwaysAWindow`, `FindBlockAlwaysFinds`, `TrimAlwaysMakesRoom` | none |
| `LifecycleProofs` | `TypeCorrect`, `WaitAlwaysMeansDone`, `AlwaysQuietAfterClose` | none |
| | `NilEventNeverRead` | `ShutdownBeforeClose` |
| `BlockTreeProofs`, `BTCCacheProofs` | lemmas only | |

### Assumptions

The model's own, which TLC evaluates on every run: `BlockAssumption` (blocks are non-empty
paths, closed under prefixes), `WorkAssumption` (the work of a chain is positive and grows
along it) and one on the parameters of each module: `ReporterAssumption`, `CatchUpAssumption`,
`BNBAssumption`, `CacheAssumption`, and `LifecycleAssumption`, by which each script begins with
a `Start`. The command does begin so. Without it `WaitAlwaysMeansDone` fails: a `Stop`
before the first `Start` makes that `Start` take the branch for a restart, which does not set
`started`, and a second `Start` then starts a second event handler.

The others are hypotheses of single theorems:

- `HeavierIsHigher`: a chain with more work is not lower. `WorkIsHeight`: work is compared as
  heights are. Both hold within a difficulty period. They are needed: the code measures its
  delay in heights, and `MCReporterUnevenWork` shows `BootstrapForkAccepted` fail without.
- `ShallowForks`: no chain is overtaken by one that parts from it more than 2K below its tip.
  The catch-up stops 2K short of the tip for this reason (`closeGap`).
- `Delay <= 2 * K`: what the catch-up submits is then buried by `Delay`. `delay_blocks` is
  configured (3 in `sample-lrzrelayer.yml`) and K is Lorenzo's; nothing in the code relates them.
- `MaxHeaders > K`: a message holds a whole fork. The configuration rejects less than 100.
- `LorenzoStartsBuried`, and for the BNB reporter that `OnlyBuriedHeaders` holds at the start:
  what Lorenzo has before the relayer runs was buried. A relayer cannot make up for that.
- No rival relayer (`"rival" \notin FaultKinds`): what others insert is not what this program
  relays. The invariants of the cache, the subscription, the reorg list and `OnlyMatureHeaders`
  do not need this.
- No lost events: with two of them the list may mix two reorganisations (section 4).
- `EventsNeverPanic` needs `WorkIsHeight` because the code bounds the cache by heights and lets
  a branch win by work: on chains of uneven work a branch could win late, after the cache has
  dropped the block it forks from.
- No failed request to Lorenzo (`OnlyLorenzoFailuresPanicRetry`): with one, and bitcoind, the
  same property is violated (`MCReporterResubscribe`). The theorem says that, under
  its other assumptions, only that or another relayer can cause it.
- `LorenzoAlone`: no request to Lorenzo fails, no event is lost and nobody else writes; crashes
  and failed requests to the node are allowed. The first is needed: `MCReporterFailedSubmission`
  refutes `CatchUpAttaches` with one failed submission. The constants of `MCReporterDeepDelay`
  satisfy all the hypotheses of the three theorems.
- The hypotheses of `ReporterNeverPanics` are the conditions its panics stand for.
  `ReorgsAreShallow`: no reorganisation replaces a block that is K + Delay deep, nor the base
  block (`inconsistent`). `NodeStartsAboveBase`: more than Delay blocks are on top of the base
  header, otherwise the slice of `bootstrap` panics (`nothingToSync`). `LorenzoStartsSettled`:
  Lorenzo starts on a chain that the node does not abandon (`staleFork`, section 4).
  `CacheHoldsChain`: the node gets no further ahead of the base, or of K + W below what
  Lorenzo has at the start, than the cache's capacity (`initCache`). It bounds the length of
  the run, by a minimum of 1000 blocks, since a bootstrap may be delayed for as long as one
  likes; without a bound on the node's speed nothing weaker suffices. `W >= 1`, without which
  the confirmed block is just below the cache (`notInCache`; `CacheBaseHeightWithoutW` is that
  mutant). The constants of `MCReporterReorgs` satisfy all of them. The end of a
  process by a failed request of `Start`, or by the last attempt of a bootstrap, is not
  counted as one of these panics.
- `HighestExists`: the tree has a highest block. `Reporter` bounds faults by height and
  `CatchUp` does not, so the refinement needs some bound to give it.
- `ShutdownBeforeClose`: a script shuts the rpc client down before it closes the channel, as
  the client's `Stop` does (`client.go` 55-63). It is the hypothesis and the whole reason.

### Arguments

**Cache of the BTC reporter** (`IInv` in `ReporterProofs`). `WorldTypeOK` (node, light client,
fault budget) together with `ProcessOK` (types and `CacheIsChain`). The chain property is not
inductive alone. `InitBTCCache` needs the node's tip to be a block, and `ExtendCache` needs the
event's block to be one. The delicate step is `ExtendCache`: that `ConnectMismatch` is
false and the block is not `KnownToCache` leaves the case where `FindBlock` found nothing at or
above the first cached height, and there the guard has compared the block's parent with the
tip. `TypeCorrect` says more than types: an event step has an event in hand, a submission is
never empty, and bootstrap attempts stay within bounds.

**Subscription** (`SubscribedInv`). The process is subscribed once it has passed the
subscription step, and a bootstrap that skips the subscription runs only in a process that has
it. The second is why a retry must keep the argument of the attempt that failed.

**Reorg list** (`FollowInv`). The list is right because of what is still queued. The queue,
with the event in hand, is a `Walk`: each event leads from one block to the next, the last one
to the node's best block, and each peak on the way is heavier than all before it. The cache and
the list stand to it in one of three ways (`Following`). They are `InStep`: the queue goes on
from the end of the cache, every peak to come is heavier than the block the reorganisation
removed first, and the list ends where the cache's chain forks. Or the cache is `Outdated`:
a bootstrap loaded it from a later block, and the events up to that block are all refused or
skipped, because none of the blocks in between is heavier. Or there is a `Gap`: the cache was
loaded before the subscription, and the queue starts too far ahead to fit. Only in the first
case does an event change the list. That a second reorganisation cannot add to a list the first
has not cleared is the point: the new branch wins, by its work, no later than its peak.
`BranchWorkTelescopes` is behind this: the sum the code computes is a difference of two
total works, so the comparison with the removed work compares the two tips. No work need be
uniform.

**What is relayed** (`MatureInv`, `ForkInv` in `ReporterRelayProofs`). All but the last `Delay`
blocks of a fresh cache were buried when it was loaded. A connected block was `Delay` deep by
height, which the node's chain, never getting lower, does not undo, and was then found on
the best chain. What the cache holds under it is below it on one chain, so the whole suffix was
buried. For `BootstrapForkAccepted`, Lorenzo's tip trails the node's by `Delay` blocks, or is
that deep on its chain; so the headers of a bootstrap fork at most K below Lorenzo's tip
and end no lower, and the first message already gets there.

**Where Lorenzo stands** (`RelayInv`, with `FollowInv`, `MatureInv` and `IInv`). Between events
Lorenzo's tip is on the chain of `Followed`: the tip of the cache or, in the middle of a
reorganisation, the block that was removed first. No branch on the way there is heavier, so
the new branch is only submitted when it wins (`RestInv`). When the handler has asked for
Lorenzo's tip, the list is empty, the cache was followed, and Lorenzo is on the chain of the
new block's parent; the cached blocks above its height therefore go on from it (`QueryInv`).
What an event submits attaches to Lorenzo's chain no deeper than K below its tip
(`ReorgsAreShallow`: that much was buried) and ends at a heavier block, and still does after
its first messages; or it starts above Lorenzo's tip on the same chain, which leaves Lorenzo
on the chain of the cache although it is refused (`HeadersInv`, `Detached`). The second case
needs a Delay above one. `EventsAlwaysReachLorenzo` reads the two cases off a step that ends a
submission. `ForkIsRemembered` alone is not inductive: that a list is cleared only
for a branch that Lorenzo takes depends on what the removed work was compared with, hence on
`FollowInv`, and that a bootstrap puts Lorenzo on the new cache's chain on `ForkInv`.

**Panics** (`RangeInv`, `FirstSubscription`, `SettledInv`, `StartInv`). During a reorganisation
the cache starts below the height at which the branches part, and has room up to the height
of the first block that was removed. A branch wins no later than there, by its work, hence
nothing is dropped before (`LosingBranch`); this is why `RangeInv` needs `FollowInv`. The retry
panics only if an attempt fails after it subscribed, where the one thing left to fail is the
submission, which `BootstrapForkAccepted` says is accepted. The checks of a bootstrap pass
because what is K deep under a matured block stays on the node's chain (`MaturedIsSettled`)
and Lorenzo's tip is matured: the confirmed block is then on the chain that the cache was
loaded from, not below the cache's first block and more than Delay below its last.

**Catch-up** (`CatchUpInv`, `ForkInv`). The batches in `ibCh`, the one the producer holds and its
next height continue one another, starting above the last header that was submitted. What is
missing at the end is therefore what waits in the channel. Up to `Limit` the node's chain does
not change, by `ShallowForks`, so a batch fails to attach only if the first one does.
`ImplementsStart` maps each end of the two goroutines to one of `Reporter`'s steps and
everything before it to a stutter.

**BNB reporter** (`IInv`, `Contiguous`, `BuriedInv`, `Complete`). `lorenzoTip` stays something
Lorenzo has because what is uploaded, acknowledged or not, is a batch behind it. The batches
follow one another by height whatever the node does, which is why none is refused while
nothing fails; the last one ends at the target. `target + Delay` stays at or below the node's
height, so that batches are buried when they are fetched.

**Cache** (`IInv` in `CacheMachineProofs`). The cache holds the newest blocks of the chain, and
the heights of the chain ascend. `FindBlock` is a recursive function whose domain is pairs of
bounds; `SearchBetweenFinds` takes, were the search wrong somewhere, a shortest interval on
which it is (`LeastNatural`), and shows that the next step of the search would be wrong on a
shorter one. That `midPoint - 1` does not wrap is part of it. `GetLastBlocksIsRight`
(`BTCCacheProofs`), on which the reporter's theorems rest, is stated for any ascending cache, with
gaps or without.

**Process life** (`IInv`, `OrderInv`). `WaitForShutdown` sees only that `wg` is 0. That nothing
is left follows from `Counts`: `wg` is the number of live goroutines, namely the handler, the
watcher of a live context and the `leftover` watchers. `Counts` is inductive only if a context
is never overwritten by a second bootstrap, hence `OneBootstrap`: there is no handler while
`Start` bootstraps. A first `Start` has none because of `started`, and a restart because it has
waited for `wg` to be 0, which is `Counts` again. `OrderInv` says what has been closed by which
call, and that a closed thing stays closed; `NilEventIsNotRead` and `QuietAfterClose` follow.

### What stays with TLC

Liveness under fairness: `LorenzoCatchesUp`, `LorenzoFollows`, `CatchUpEnds`,
`ShutdownCompletes`, `HandlerStallsOnlyOnMuNodeOrChannel` and `CallsHangOnlyOnMuNodeOrChannel`.
The prover has no rule for it. `EventHeadersAccepted` and `LagBounded`, which hold for Delay 1
only (the default and the sample configuration have 3): for any Delay, `EventsAlwaysReachLorenzo`
says what is left of them. Every other invariant and action property of the passing runs is
stated by a theorem.

The theorems also leave to TLC that their hypotheses can be met together: the runs named under
"Assumptions" have constants that satisfy them.

## 6. What is not modelled

- The lock of the zmq client, and errors of its sockets: a message that cannot be received
  ends `zmqHandler`, which is not different from losing every later event.
- The calls inside one query of the node (`getChainBlocks`): the blocks below the one asked
  for are its ancestors whatever the node does meanwhile.
- The interplay of what is relayed with a stop: `Reporter` has crashes, which may come at any
  step, and `Lifecycle` has the stop; a stop is a crash at a step of the handler's choice.
- The shutdown of the BNB command, which stops its only goroutine through `quit`
  (`Stop` in `BNBReporter`).
- Retries inside one request: a request succeeds, or fails after its retries.
- Configuration parsing, metrics, logging, encodings, wallet types, key management.
- Lorenzo and the nodes themselves. They are external, and modelled as the code uses
  them.

## 7. Plan

The models of both reporters, of the block cache, of the catch-up's goroutines and of the
process's life are done, with `HeaderRelay`, the refinements of section 3 and the theorems of
section 5. What could come next:

1. For a Delay above one, a bound on the lag that counts the refused branches; TLC finds Lorenzo
   up to 2 * Delay behind in `MCReporterDeepDelay`.
2. The lock of the zmq client in `Lifecycle`, should a caller ever survive a refused subscription.
3. When the code changes: a failed submission that keeps the reorg list, or a retry that skips
   the subscription, should turn a violated run of section 4 into a passing one, and the
   theorems may then allow failed requests to Lorenzo.
