# A TLA+ model of chainlink-framework

chainlink-framework is the chain-agnostic half of a Chainlink chain
integration, in Go: the pool of RPC endpoints (`multinode`), the tracking of
heads (`chains/heads`), the transaction manager (`chains/txmgr`) and the
write-target capability (`capabilities/writetarget`).  This directory models
its concurrent parts in TLA+, checks them with TLC on small instances, and
proves the central invariants with TLAPS for every instance.

Contents: the system and its parts; the modules and how they correspond to the
code; what the runs check; what is proved; where code and comments disagree;
what is not modelled.  `PROJECT.json` has the same in machine-readable form: the
source lines of every definition, the runs, the faults that break each property,
the hazards and the theorems.

## The system and its parts

### MultiNode (`src/multinode`)

| Part | State | Operations | What is hard about it |
|---|---|---|---|
| Node (`node.go`, `node_fsm.go`, `node_lifecycle.go`) | nine-valued state, one connection, health-check subscriptions | `Start`, `Close`, six life-cycle loops, `declareXXX` hand-overs | the loops start each other and never return to a supervisor; every `declareXXX` panics outside the states it expects; `Close` runs at any time, also inside a `Dial` |
| RPC client base (`rpc_client_base.go`) | life-cycle channel, set of subscriptions, latest and highest chain info | `LatestBlock`, `LatestFinalizedBlock`, `SubscribeTo...`, `UnsubscribeAllExcept`, `Close` | answers of one life cycle arrive in the next; subscribing races with closing; unsubscribing calls back into the client |
| Poller (`poller.go`) | one goroutine and a channel | tick, deliver, `Unsubscribe` | blocks on a subscriber that is gone |
| Transaction sender (`transaction_sender.go`) | per call: jobs, two channels, a collector, a reporter | `SendTransaction`, `Start`, `Close` | channels are closed while others select on them; results arrive after the caller has left |
| Pool (`multi_node.go`) and selectors (`node_selector*.go`) | active node, lease | `selectNode`, `checkLease`, `LatestChainInfo`, `DoAll`, `report` | check-then-act on the states of other nodes; waits for a node under a lock |
| Send-only node (`send_only_node*.go`) | three states | `Start`, `Close`, `verifyLoop` | `Close` during a `Dial` |

The node owns an RPC client; its loops dial it, subscribe through it and close
it.  The pool asks the nodes for their state, and the nodes ask the pool
(`PoolChainInfoProvider`) whether they lag behind and whether they are the last
one alive.  The transaction sender goes through the pool's `DoAll`.

### Heads (`src/chains/heads`)

The listener subscribes to new heads and reconnects with a back-off; the tracker
saves each head, backfills missing parents down to the finalized block and
passes the longest chain to the broadcaster, which calls the subscribers back.
Hard: mailboxes that drop what they cannot hold, heads out of order, reorgs,
callbacks that run while their subscriber leaves.

### Transaction manager (`src/chains/txmgr`)

`Txm` runs the others and restarts them on a reset or a change of keys.  The
broadcaster gives every transaction of an address a sequence number and sends
it; the confirmer follows it to inclusion, bumps its fee, sends it again and
purges it when it is stuck; the tracker follows what was left by addresses that
are no longer enabled and gives it up after a while; the resender and the reaper
are periodic.  Hard: crashes between sending and saving, at most one
transaction in progress per address, resets that race with a stop, stale sets
of addresses.

### Write target (`src/capabilities/writetarget`)

`Execute` submits a report once, waits for a terminal status of the
transaction, and confirms the transmission, with retries and a timeout.

### The rest

`metrics`, `beholder`, `monitoring`, `report` and the configuration getters
are I/O and formatting without control state, half of them generated.

## The modules

| Module | Models | Run from | Proved in |
|---|---|---|---|
| `NodeLifecycle` | one node: state machine, loops, connection, health-check subscriptions | `MCNodeLifecycle` | `NodeLifecycleProofs` |
| `RPCClientBase` | one RPC client base with its pollers | `MCRPCClientBase` | `RPCClientBaseProofs` |
| `TransactionSender` | concurrent `SendTransaction` calls of one sender | `MCTransactionSender` | `TransactionSenderProofs` |
| `MultiNode` | the pool, the five selectors and the lease check over abstract nodes | `MCMultiNode` | `MultiNodeProofs` |
| `TxSequence` | abstract: what the broadcaster promises about sequences | | |
| `TxBroadcaster` | the broadcaster of one address, its store and the network | `MCTxBroadcaster` | `TxBroadcasterProofs` |
| `TxConfirmer` | the confirmer of one address and the resender | `MCTxConfirmer` | `TxConfirmerProofs` |
| `Txm` | the manager's loop, the tracker and the reaper | `MCTxm` | `TxmProofs` |
| `HeadFeed` | abstract: what the tracker promises the broadcaster | | |
| `HeadTracker` | the listener, the tracker and its backfill | `MCHeadTracker` | `HeadsProofs` |
| `HeadBroadcaster` | the tracker's broadcast loop and the head broadcaster | `MCHeadBroadcaster` | `HeadsProofs` |
| `WriteTarget` | `Execute` on several nodes that race for one report | `MCWriteTarget` | `TxmProofs` |

The components meet in two ways.  `HeadFeed` stands between `HeadTracker`, which
is shown to implement it, and `HeadBroadcaster`, which takes its heads from it.
`TxBroadcaster`, `TxConfirmer` and `Txm` are about the same rows of the
transaction store, each with the others reduced to what they do to a row:
`ProcessIncludedTxs` and `ProcessReorgTxs` in `TxBroadcaster`, `handleInProgressTx`
and `UpdateTxAttemptInProgressToBroadcast` in `TxConfirmer`, `Broadcast` and
`CheckForConfirmation` in `Txm`.

Two conventions hold everywhere.  A step is what a goroutine does between two
points at which another one can observe or disturb it: a mutex, a channel, an
atomic, a remote call.  A definition under a comment that starts with `Fault:`
is not used by any specification; it is a plausible mistake in the definition
that follows it, and replacing that definition by it makes TLC report the
property it is listed with in `PROJECT.json`.  `HeadBroadcaster` and
`WriteTarget` prefix the usual names (`BroadcasterInit`, `WriteSpec`), because their
proofs share a module with those of another component.

### NodeLifecycle

A goroutine is a *slot*: `kind` is the function it runs (`start` or one of the
six loops), `pc` where in it it stands, `next` the state it is about to declare.
`state`, `healthCheckSubs` and the failure counters are the fields and locals of
the same name.  `conn` holds what the current connection has been verified for,
`rpcSubs` the subscriptions open on the RPC, and `remote` how the endpoint
behaves, which `RemoteChanges` changes at any time.

| Code | Actions |
|---|---|
| `Start`, `start` | `Start`, `StartEntry`, `DialFails`/`DialSucceeds`, `SetDialed` |
| `createVerifiedConn`, `verifyConn`, `verifyChainID` | `VerifyChainIDState`, `ChainIDCall`, `IsSyncingCall`, `Judge` |
| `probeUntilStable` | `Probe`, `GiveUp` |
| `declareState`, `transitionToXXX`, `declareXXX` | `DeclareState`, `Transition` (guards in `Permitted`, hand-over in `HandOver`) |
| `registerNewSubscription`, `unsubscribeHealthChecks`, `UnsubscribeAllExceptAliveLoop` | `Subscribe`, `Register`, `SubscribeFinalized`, `RegisterFinalized`, `UnsubscribeHealthChecks`, `UnsubscribeAllExceptAliveLoop` |
| `aliveLoop` | `LoopEntry`, `Poll`, `PollSync`, `PollState`, `NoNewHeads`, `SubscriptionTerminated` |
| `outOfSyncLoop` | `BackInSync`, `OutOfSyncNewHead`, `OutOfSyncNewFinalizedHead`, `OutOfSyncNoNewHeads`, `ZombieCheck` |
| `unreachableLoop`, `invalidChainIDLoop`, `syncingLoop`, `finalizedStateNotAvailableLoop` | `BackoffElapsed`, `RecheckSyncing`, `RecheckFinalizedState` and the dialling actions |
| `Close`, `close` | `Close`, `CloseReturns`; every loop's `<-ctx.Done()` is `Stop` |

Abstracted: head numbers (a head either shows the node in sync with the pool or
not), times (a timer may fire whenever it is armed), the size of the pool (the
number of other live nodes is arbitrary in `LiveNodes`).

### RPCClientBase

Life cycle *n* is the *n*-th `lifeCycleCh`; it is closed exactly when *n* is
smaller than `lifeCycle`.  Clients call the request and subscription methods,
Closers call `Close` and `UnsubscribeAllExcept`, and each Poller is the polling
goroutine of one subscription, which calls `LatestBlock` itself.  `latestFrom`
and `userSaw` are history: no action reads them.

`Poller.Close` is that of `services.Engine`, which is not in this repository.
Assumed from its use: it ends the context of the polling goroutine, waits for it
to exit and then runs `Poller.close`; a second call returns at once.

| Code | Actions |
|---|---|
| `LatestBlock`, `LatestFinalizedBlock`, `AcquireQueryCtx` | `LatestBlock`, `LatestBlockFails`, `LatestBlockAnswers` |
| `OnNewHead`, `OnNewFinalizedHead` | `OnNewHead` (up to the select on the request's channel), `StoreLatest` |
| `SubscribeToHeads`, `SubscribeToFinalizedHeads`, `RegisterSub` | `Subscribe`, `RegisterSub`, `AddSub`, `SubscribeFails` |
| `ManagedSubscription.Unsubscribe`, `removeSub` | `Unsubscribe`, `PollerClose`, `PollerClosed`, `RemoveSub` |
| `UnsubscribeAllExcept`, `Close`, `CancelLifeCycle` | `UnsubscribeAllExcept`, `Close`, `CollectSubs`, `UnlockSubs`, `UnsubscribeNext`, `UnsubscribedAll`, `ResetLatestChainInfo` |
| `Poller.pollingLoop` | `PollTick`, `PollDeliver`, `PollExit` |

### TransactionSender

Every call has its caller (`pc`, `todo`, `got`, `count`, `timer`, `answer`), one
broadcast job per live node (`job`, `code`), the goroutine that closes the
channels (`closer`) and the reporter (`reporter`, `reported`, `alarm`).  Both
channels are unbuffered, so a send and its receive are one step.  Return codes
keep their names, because the aggregation distinguishes them.

`services.StateMachine` is not in this repository; assumed from its use: the
bodies of `IfStarted` and `StopOnce` exclude each other.

| Code | Actions |
|---|---|
| `SendTransaction` | `SendTransaction`, `DoAllVisits`, `DoAllReturns` |
| `collectTxResults`, `aggregateTxResults` | `CollectResult`, `CollectZero`, `CollectSoftTimeout`, `CollectContextDone`; `AggregateTxResults`, `RequiredResults` |
| `broadcastTxAsync` and the jobs | `Broadcast`, `OfferDropped`, `Report`, `ReportDropped`, `CloseChannels` |
| `reportSendTxAnomalies` | `ReportSendTxAnomalies` |
| `Start`, `Close` | `Start`, `Close`, `CloseStop`, `CloseReturns` |

### MultiNode

Users call `selectNode` and then read or subscribe through the node they got;
`Lease` is the goroutine of `checkLeaseLoop`; each node is reduced to what the
pool sees of it (`Dialed`, `Alive`, `Down`, its chain info, its subscriptions).
A selector reads the nodes one after the other (`ScanNode`), so it decides on a
picture of the pool that may never have existed.  The selectors themselves are
operators from readings to the positions they may return: `HighestHeads`,
`HighestDifficulties`, `Rotate`, `removeLowerTiers`, `firstOrHighestPriority`.
A *setup* is a selection mode, the users that are there (the others are
`absent`) and the heights of the endpoints' chains; a behaviour starts in one of
`Setups`.

| Code | Actions |
|---|---|
| `SelectRPC`, `selectNode` | `SelectNode`, `ReadActive`, `CheckActive`, `LockActive` |
| `awaitNodeSelection`, `Select` of each selector | `ScanNode`, `Selected`, `ScanInitializing`, `WaitOver`, `ContextDone` |
| `checkLease`, `checkLeaseLoop` | `LeaseTick`, `ScanNode(Lease)`, `LeaseSelected`, `LeaseUnsubscribe`, `LeaseSwitch` |
| `LatestChainInfo` in `aliveLoop`'s decisions | `CheckOthers`, `Declare` |
| `recalculateState`, `isFinalizedBlockOutOfSync` | `Alive` |
| the RPC client and the node's loops, from the outside | `Read`, `Subscribe`, `HealthCheck`, `StateChange`, `ChainGrows` |

Abstracted: reading one node's state and chain info is one step, although
`StateAndLatest` locks twice; `LatestChainInfo`'s count over the nodes is one
step; an endpoint's chain only grows; a user's reads are of one kind, the head
or, with the finality tag, the finalized block; a total difficulty is the height
times the chain's `Work`, where 0 stands for nil; the 32-bit counters of the
selectors have `CounterSize` values, and wrap around.

### TxBroadcaster

One sending address.  `state`, `sequence`, `attempt`, `reason` and `signalled`
are columns of the transaction store and survive a crash; `accepted` is what the
network took; `nextSequence`, `trigger` and `unknownErrs` are the broadcaster's
memory; `pc`, `cur`, `curSeq`, `why` and `tries` are the locals of the monitor
goroutine.  `resumed`, `interrupted`, `unknowns` and `reverted` are history.  A row
that the confirmer marks fatally errored keeps its sequence and is `purged`; one
that the broadcaster marks gives it up and is `fatal_error`.  Every call to
the store or the network is a step; it may fail (`faults`), and the process may
crash between any two (`Crash`, `restarts`).

| Code | Actions |
|---|---|
| `startInternal`, `closeInternal` | `Start`, `Close`, `Closed`, `Exit` |
| `loadAndMonitor`, `SyncSequence`, `monitorTxs` | `loadAndMonitor`, `SyncSequence`, `Wake`, `Handle` |
| `handleAnyInProgressTx` | `handleAnyInProgressTx` |
| `ProcessUnstartedTxs`, `nextUnstartedTransactionWithSequence` | `Throttle`, `nextUnstartedTransactionWithSequence`, `Finish` |
| `handleUnstartedTx` | `NewTxAttempt`, `UpdateTxUnstartedToInProgress` |
| `handleInProgressTx` | `handleInProgressTx` with `Answer`, `validateOnChainSequence`, `PendingSequenceAt`, `replaceAttemptWithBumpedGas`, `replaceAttemptWithNewEstimation`, `UpdateTxAttemptInProgressToBroadcast`, `GenerateNextSequence` |
| `saveFatallyErroredTransaction` | `resumeCallback`, `UpdateTxCallbackCompleted`, `UpdateTxFatalErrorAndDeleteAttempts` |
| `Txm.CreateTransaction` with its trigger, `PruneQueue` | `CreateTransaction`, `PruneQueue` |
| outside: the confirmer | `ProcessIncludedTxs`, `ProcessReorgTxs` |

Assumed, because it is outside this repository: the sequence tracker loads the
number of transactions handed over, and hands out what it holds; success and
"already known" are answered only for a transaction that some node took.  Any other
answer, a fatal one included, says nothing of what another node did, and so
a transaction that is dropped on such an answer may still be on the network.  Inserting a
transaction and triggering the broadcaster are one step.  `ChainType = "hedera"`
is the configuration that has every path of the others and one more.

### TxConfirmer

Transactions are the numbers `0..N-1`, so that a transaction is its sequence.
The broadcaster sends a transaction in one step and hands it over in a later one,
between which it may be mined; `late` are those handed over since
`CheckForConfirmation` read the store.
`attempts[t]` are its attempts, highest priced first, each with a kind (`normal`
or `purge`) and a state; `pool` is what nodes hold; `mined` is the chain's count and
`count` the one the confirmer read; `reorged` and `included` are the two lists of
`FindReorgOrIncludedTxs`; `todo` is what a loop has still to work through, taken
in the order of the list it stands for (`IsNext`).  `resend` is what the resender
has read and not yet sent.

| Code | Actions |
|---|---|
| `runLoop`, `processHead`, `CheckForConfirmation` | `runLoop`, `SequenceAt`, `FindReorgOrIncludedTxs`, `ProcessReorgTxs`, `ProcessIncludedTxs`; any early return with an error is `Failing` |
| `ProcessStuckTransactions`, `resumeFailedTaskRuns` | `ProcessStuckTransactions`, `resumeFailedTaskRuns`, `UpdateTxCallbackCompleted` |
| `RebroadcastWhereNecessary` | `GetInProgressTxAttempts`, `handleAnyInProgressAttempts`, `FindTxsRequiringRebroadcast`, `rebroadcastWhereNecessary` |
| `handleInProgressAttempt` | `handleInProgressAttempt`, `SaveAttempt`, `DeleteInProgressAttempt`, `SaveReplacementInProgressAttempt` |
| `Resender.resendUnconfirmed` | `FindTxAttemptsRequiringResend`, `BatchSendTransactions` |
| start, close and the process | `Start`, `Close`, `Exit`, `Crash` |
| outside: broadcaster, chain, finalizer | `handleInProgressTx`, `UpdateTxAttemptInProgressToBroadcast`, `Mine`, `Reorg`, `Finalize` |

Nodes may lag: `SequenceAt` may answer with one transaction less than is mined.
A transaction that is refused by one node, as `Fatal` too, may be in the mempool of
another.  The detector of stuck transactions names any unconfirmed transaction
that has no purge attempt.  The store refuses a second attempt in progress.

### Txm

Every address has one transaction, named by the address.  `mgr` is the manager's
`StateMachine`, `loop` where `runLoop` is, `job` and `pending` what `execReset`
is to do and which services it has still to start; `isStarted` and `addrs` are
the fields of the three services; `txCache`, `todo` and `seen` are the tracker's.
`crossed` and `disabled` are history.  The callers of `Reset`, `OnNewLongestChain` and `Close` are processes.

| Code | Actions |
|---|---|
| `Start`, `MultiStart` | `Start`, `StartService`, `StartLoops` |
| `Reset`, `OnNewLongestChain`, `Close` | `Reset`, `OnNewLongestChain`, `TimedOut`, `Close`, `StopChannel`, `Closed` |
| `runLoop` | `DeliverHead`, `TakeReset`, `PollEnabledAddresses`, `Shutdown` |
| `execReset`, `abandon`, `setEnabled` | `CloseService`, `DoReset`, `RestartService`, `Restarted` |
| `Tracker.runLoop` | `trackAbandonedTxes`, `GetTxByID`, `handleTxesByState`, `markAllTxesFatal`, `TrackerLoop` |
| `Reaper` | `ReaperLoop`, `StopReaper` (`Stop`, which waits for the loop) |
| outside: key store, broadcaster and confirmer | `ChangeKeys`, `Broadcast`, `CheckForConfirmation` |

`services.StateMachine` is assumed from its use, as for the sender: `IfStarted`
holds the read lock while its function runs, and `StopOnce` leaves "started"
before it waits for the lock.  `MultiStart` closes what it started when one
service fails, which may be the forwarder manager, started after the loops.  When no
key is enabled the list of addresses may be nil, which `SetEnabled` of the broadcaster
and the confirmer takes for "not set".  The reaper's trigger and its tick are one action:
either lets it work at any time once a block is known.  Head numbers start with 1, because the tracker takes block 0 for
an empty mailbox (`tracker.go:152`).

### HeadTracker

Blocks are `<<number, fork>>`; fork `"b"` leaves fork `"a"` at `ForkAt`, and the
tip changes by a new block or by a reorg that keeps what is irreversible under
the configuration.  Nodes may answer with a chain one block behind.  `saved`,
`latestChain` and `finalized` are the saver; a head is linked to its ancestors as
far as they are saved, and a head fresh from the client to none.  `stored` are the
heads that an earlier process left in the database and `Load` reads, unmarked;
`Starts` gives them, with the tip at the time.  `behind` is the health condition that
`handleNewHead` sets for a head below the finalized one and clears with the next
good one, `alarm` the one that backfill sets.

| Code | Actions |
|---|---|
| `listener.go`: `subscribe`, `subscribeToHead`, `unsubscribe` | `Unsubscribe`, `subscribeToHead`, `ListenerExits` |
| `receiveHeaders` | `receiveHeaders`, `SubscriptionBreaks` |
| `tracker.go`: `handleInitialHead`, `handleNewHead` | `handleInitialHead` (with `Load`), `Check` (up to `Save`), `handleNewHead` (from `Save` on) |
| `Backfill`, `calculateLatestFinalized`, `verifyFinalizedBlockHashes` | `Backfill` with `calculateLatestFinalized`, `getHeadAtHeight`, `Conflict` |
| `backfill`, `fetchAndSaveHead` | `fetchAndSaveHead`, `MarkFinalized` |
| outside: chain and client | `Grow`, `Emit` |

A `FinalityTagBypass` is a configuration without the tag.  What the last head's
backfill leaves undone only the next head makes good, so a failing backfill for
the highest block of the bounded chain is excluded (`Num(h) = MaxNum => ~f`).
Stored heads are below that block for a similar reason: a head that `Load` has put
on top of the chain is not handed on again when the client sends it.

### HeadBroadcaster

`broadcastMB` is the tracker's bounded mailbox, `mailbox` the broadcaster's
single slot, each with its notification; `round` and `calling` are the round of
callbacks at work; `told` is history, the newest head each subscriber knows of.
Actions: `Deliver` (a step of `HeadFeed`), `broadcastLoop` and `Retrieve`
(without sampling), `Sample` (with sampling), `executeCallbacks`,
`OnNewLongestChain`, `EndRound`, `Subscribe`, `UnsubscribeCallback`, `Close`,
`TrackerCloses`.

### WriteTarget

Each node runs `Execute` once: `Validate`, `CheckReport`, `LatestHead`,
`QueryTransmissionState`, `TransmitReport`, `waitTxReachesTerminalStatus`,
`acceptAndConfirmWrite`, `GetTransactionFee`, and `ContextDone`.  The forwarder
contract (`Include`), the transaction manager (`Settle`) and the contexts
(`Expire`) are outside.  `msgs` are the messages a node emitted, in order, and
`lost` those the emitter failed to take, which changes nothing in what `Execute`
does.  A query of the transmission state that does not fail is assumed to return
one: `Execute` dereferences it, and only the poll checks it
(`write_target.go:308`, `:443`).

## What is checked

Each run is a configuration of an `MC` module; `tlc -config X.cfg M` reproduces
it, within four minutes with two workers.  Properties that answer one
question are one formula, the conjunction of the named ones above it in its
module.

| Run | What it asks | Properties | Bounds |
|---|---|---|---|
| `node` | Does the state machine ever panic, is a started node always driven by exactly one loop that matches its state, is it `Alive` only on a verified connection, does anything leak, does `Close` return, does a healthy endpoint bring the node back? | `NoFsmPanic`, `Driven`, `AliveIsVerified`, `NothingLeaks`, `LoopsProgress` | two goroutines at once, every check on, thresholds 1, counters saturate at 1 |
| `rpc_client` | Does chain info outlive its life cycle, is every user's read covered by the highest observations, do the list of subscriptions and the polling goroutines agree, does a `Close` stop what was listed when it began, does it return? | `LatestFromCurrentLifeCycle`, `RepeatableRead`, `SubsUnderControl`, `CloseTerminates` | one client, one closer, one poller, one kind of head, two heads, one `Close` |
| `sender` | Do answers follow the collected results and the quorum, are reports true and complete, does everything end? | `AnswerIsEarned`, `ReportsAreTrue`, `CloseLeavesNothing`, `CallsEnd` | one call, three primaries, one send-only node, one code of each class |
| `pool` | Can a user read a block below its last one? | `RepeatableRead` | two nodes, chains of height 1; one user under `HighestHead`, `TotalDifficulty` and `RoundRobin`, two under `RandomRPC` |
| `pool_live` | Does `selectNode` return, does the lease settle on the best nodes, do nodes of one tier take turns? | `SelectReturns`, `LeaseConverges`, `RotationServesAll` | two nodes of one tier, counters of three values; no user under `TotalDifficulty` and one under `HighestHead`, with one node a block ahead; one user under `PriorityLevel`, two under `RoundRobin` |
| `tx_broadcaster` | Is everything that may be on the network on record and within the limit, is a sequence spent twice other than on the network's word, is a pipeline told of an error that did not happen, is a trigger lost, are sequences handed out in order, does the monitor get stuck? | `StoreInOrder`, `SequencesSpentOnce`, `ErroredPipelineIsRare`, `WakeupKept`, `HandsOutSequences`, `MonitorProgresses` | two transactions, one with a pipeline; limit 1; two failing calls or reorgs; one restart or crash |
| `tx_confirmer` | Is at most the highest-priced attempt in progress, does a check leave the store as the mined count says, is a purge ever taken for the transaction, is every transaction settled? | `AttemptsInOrder`, `CheckedMatchesCount`, `PurgesAreKnown`, `Settles` | two transactions, one with a pipeline; two attempts each; limit 1; two failures, reorgs or crashes |
| `txm` | Do resets, key changes and a close take the services through the same steps, does `Close` leave anything running, is a transaction on record as sent given up early, do `Reset` and `Close` return? | `ResetsInStep`, `ClosedMeansStopped`, `SentIsKept`, `CallsReturn` | one address, one block; changes of keys, calls of `Reset` and failing calls two in all (`MaxTrouble`) |
| `head_tracker` | Does the listener keep one subscription, is what is marked final final, does backfill's finality alarm mean a violation, do the heads handed on rise, does the top of the chain arrive and is the alarm for an old head withdrawn? | `SubscribedOnce`, `FinalityHolds`, `FeedsRisingHeads`, `TopArrives` | three heights, two forks that part at 1, one failure; finality by tag, by tag with an offset, by depth, instant; a fresh start, and one with a stored block of an abandoned fork |
| `head_broadcaster` | Does a subscriber miss the latest head, is one told an older head after a newer, does the highest head arrive? | `NoneMissed`, `ToldRises`, `HeadsArrive` | two subscribers, a mailbox of two, three heights on two forks, with and without sampling |
| `write_target` | Is what a node reports and returns what became of the report, does `Execute` return? | `OutcomeIsTrue`, `Returns` | two nodes, every kind of request, any message lost |
| `write_confirmed` | Is a confirmed report a written one?  No. | `ConfirmedIsWritten` | as above |

Why these bounds reach the interesting cases: two goroutines are the most a node
uses at once in a useful way, since a loop that has handed over only cleans up;
one client, closer and poller already give every pair of conflicting methods,
because the poller is itself a client of `LatestBlock`; three primaries are the
fewest for which the quorum of 0.7 needs neither one nor all of the answers in
every case; chains of height 1 let one node be ahead of the other, which is all a
repeatable read can be broken with.  For liveness, two users are the fewest of
which one waits for the mutex under which the other waits for a node; a node that
is one block ahead makes the selectors prefer it, and the lease leave the other; a
counter of three values picks the same one of two nodes before and after it wraps
around, as the code's 2^32 values do with three nodes.  Two transactions are enough for one to
take or hold up the sequence of the other, and a limit of one makes the second
wait; a transaction is only ever compared with its neighbour in the sequence.
Two failing calls and one restart give every pair of a failure and a crash, in
each order.  One address shows every interleaving of the manager with its
services, because the services of different addresses share nothing but the set
of enabled ones, which with one address is already full, empty or stale; two
troubles let the keys change and change back, or a `Reset` meet a change or a
failure.  Three heights let a block be final, reorganised and new at the same time.  Two nodes
suffice for a transaction to lose to another node's.  For the safety properties
the theorems cover all sizes.

No run checks for deadlock: a service may be closed, after which nothing
happens, and a panicked process does nothing either.  That nobody waits forever
is stated by the liveness properties instead.

### Fairness

Goroutines are scheduled (`WF` on the steps a goroutine takes by itself), calls
end because they have timeouts, and a `select` picks at random among its ready
cases, so that a case that is ready again and again is taken in the end (`SF`).
In particular:

* `NodeLifecycle`: `SF` on `Stop`, and on a `Dial` that is cancelled.  Nobody is
  obliged to call `Close`, and no endpoint to be healthy.
* `RPCClientBase`: `SF` for each goroutine, as Go's mutexes starve nobody and a
  request ends at its timeout.  Starting a call is not fair.
* `TransactionSender`: `WF` for each goroutine and for the RPC calls.  No caller
  needs to cancel.
* `MultiNode`: `SF` for each user (Go's mutex starves nobody), `WF` for the lease
  goroutine, whose ticker nothing can disable for good, and `SF` for the end of the
  contexts of users who wait for a node.  Nodes owe nothing.  `LiveSpec` leaves
  out the two steps with which a node counts the others before it leaves, since a
  node may leave at any time there.
* `TxBroadcaster`: `WF` for the monitor, `SF` for its exit, because a full
  trigger and a closed `chStop` are ready in one `select`; the owner restarts what
  stopped and the confirmer confirms (`WF`).  The bounds on faults make failures
  stop in the end, which is what the code's retries rely on.
* `TxConfirmer`: `WF` for the confirmer (heads keep coming), for mining what a
  node holds and for the resender's send, `SF` for its tick, which competes with
  the confirmer for nothing but is not enabled all the time.
* `Txm`: `WF` for every step of a start, a reset and a close, `SF` for taking a
  `Reset` and for the stop case of the loop's `select`; starting a service
  succeeds in the end.  The tracker, the key store and the heads owe nothing.
* `HeadTracker`: `WF` for both goroutines, `SF` for a node that has the tip to send
  it on a subscription the listener is not about to drop, and for the `select` that
  takes it.
* `HeadBroadcaster`: `WF` for the loops, the ticker and each callback, which
  returns by its timeout.
* `WriteTarget`: `WF` for `Execute`, for the acceptance timeout and for the end of
  the request's context, which is the caller's to give: `LatestHead` is retried
  without a bound.  The chain need not move.

`LeaseConverges` has a premise that is no fairness: from some time on some node is
alive and the nodes' readings stay as they are.  That the best nodes stay the same is
not enough under `HighestHead`: a selector that reads one node before and one after
both have moved may prefer the one that never is ahead, again and again.

## What is proved

Every safety property of a passing run, each invariant and each action property,
has a theorem, as have the two refinements.  TLAPS checks them for every value of
the constants that satisfies the assumptions of the module.  These give the
constants their types, keep the names of different processes and of "none" apart,
say that the transactions of `TxBroadcaster` and the primaries of
`TransactionSender` are finitely many, that a pool has a node, a mailbox a place, a
transaction room for an attempt and a manager an address.

In every proof an inductive invariant (`IInv`; in the two modules that prove two
components also `BroadcastInv`, and `TxmInv` and `WriteInv`) is shown to hold initially and to be kept by
each action, with a lemma for each action or for the actions that touch the same
state, and the stated property follows from it.

**`NodeLifecycleProofs`**: `Driven`, `NoFsmPanic`, `AliveIsVerified` and
`NothingLeaks`, for any number of goroutines and every configuration.  None of
them is inductive by itself: that a hand-over cannot panic depends on which
declarations a loop can make, which depends on what `verifyConn` can have answered
there, and on the state the loop found.  `IInv` therefore adds where each function
can stand (`PlacesOK`), which declarations it can be about to make (`VerdictsOK`),
what the service's state implies (`ServiceOK`), what the driver knows of the
connection at every place (`ConnectionOK`), and that registered subscriptions
have a deferred call to close them (`DeferredOK`).

**`MultiNodeProofs`**: `RepeatableRead`, for every pool, any number of users,
every selection mode and every length of the chains.  The invariant: a node's
chain info is never ahead of its chain; no user has read more than
`HighestUserObservations`; and every node that a user in `selectNode` has read as
alive, or was given, has a chain that is long enough for that user's next read.
Since chains only grow, a stale picture of the pool does no harm: this is where
the proof needs that an endpoint does not go back.

**`RPCClientBaseProofs`**: `LatestFromCurrentLifeCycle`, `RepeatableRead` and
`SubsUnderControl`, and that no step lowers the highest observations, for any
number of clients, closers, subscriptions, life cycles and heads.  `LatestInv`: a request stores its head while
it holds `chainInfoLock` and after it has found its life cycle open; if that life
cycle has ended since, the `Close` that ended it still needs the lock to reset the
chain info.  `ReadInv`: a head is observed under the lock that the request keeps
until it returns.  `SubsInv`: a subscription is known to its subscriber alone until
it is listed, so nobody else can have stopped it.  `CloseInv`: a subscription that
`Close` found and that still runs is listed, or on the list `Close` took, or the
one it is about to stop.

**`TransactionSenderProofs`**: `AnswerIsEarned`, `ReportsAreTrue` and
`CloseLeavesNothing`, for any number of calls, primaries and send-only nodes and
any outcomes.  A result passes through a job, the collector and the reporter, and
each leaves a trace that the next relies on: `Results` says where a node's result
is, `Counted` that a call which nobody cancelled has counted what it collected and
has lost none, `Places` which goroutines a call can have left at each place,
`Closing` that the body of `Close` runs when no call does.  The hard case is the
zero result that a closed channel yields: it is collected only by a call whose
caller cancelled it, because otherwise all healthy nodes' results were collected
before the channel was closed, and they are enough (`ZeroOnlyIfCancelled`).  The
aggregation of results has lemmas of its own (`Aggregates`, `Quorum`).

**`TxBroadcasterProofs`**: `StoreInOrder`, `SequencesSpentOnce`,
`ErroredPipelineIsRare`, `WakeupKept`, and that the broadcaster implements
`TxSequence` (`HandsOutSequences`), for any set of transactions, limit, number of
failures and number of crashes.  The core is `SeqInv`: if *n* transactions have
been handed over, they hold the sequences 0 to *n*-1, once each, also after the
confirmer has purged some of them, and at most one
transaction is in progress, with the sequence *n*.  `TrackerInv` ties the memory to
it: the sequence tracker holds *n*, or nothing, except between the saving of a
hand-over and the increment.  `PlaceInv` says what the
monitor knows of its current transaction at each place, `NetInv` that what a node
took went out under the sequence on record, `FailInv`, `LimitInv` and `SignalInv`
are the parts for errors, the limit and the trigger.  The refinement takes the
claim of a transaction to `Begin`, its fatal error to `Drop`, the saved hand-over
to `Commit` and everything else to a stutter.

**`TxConfirmerProofs`**: `AttemptsInOrder`, `CheckedMatchesCount` and
`PurgesAreKnown`, for any number of transactions, attempts and failures.  `RowInv`
holds of the rows of the store: at most the first attempt is in progress, and a
transaction with a purge attempt is not confirmed.  `PurgeInv`: a purge that a node
or the resender holds, or of which a pipeline was told, is in the store or was
refused.  `SendInv` says that the attempt being sent is the first of an unconfirmed
transaction, and `LeftInv` that the transactions with an attempt in progress are
those the loop has still to handle, and after it only the current one: this is
why a bump never meets an attempt in progress that an earlier head left behind.  `CheckInv` goes through
`CheckForConfirmation` step by step; it needs that the finalizer touches only
confirmed transactions, and it keeps apart what the broadcaster hands over while the
check runs (`Late`), which may be below the count that was read.

**`TxmProofs`**, first part: `ResetsInStep`, `ClosedMeansStopped` and the action
property `SentIsKept`, for any number of addresses, key changes, resets, blocks and
failures.  `ServiceInv` ties the place of the loop and of
a reset to the services that are started, `AddrInv` to the addresses they have,
`CloseInv` to how far `Close` has come.  `TrackInv`: if the tracker has read a
transaction as not sent and it has been recorded as sent since, this happened while the
tracker held it in its cache.  `PastInv`: an address that a service, or the reset that
is to tell it, lacks was disabled at some time, and so was every address with a
transaction in the tracker's cache.  Second part, `WriteTarget`: `OutcomeIsTrue`,
for any number of nodes.  `WriteInv` says that the place of a node's `Execute`
determines what it has told monitoring, or lost, and returned (`Told`); a report that is
visible on chain stays visible.

**`HeadsProofs`**, first part: `SubscribedOnce`, `FinalityHolds`, and that the tracker
implements `HeadFeed` (`FeedsRisingHeads`), for every set of configurations, every
depth, fork and length of the chain.  `FinalInv` says that every head that is
marked, or is about to be, is irreversible on the chain as it is now (`Solid`), and
that of every head on its way through the channel, the listener or the mailbox
the irreversible part is still on the chain, though the head itself may not be
(`Held`); `GrowKeeps` is the lemma that a new block or a reorg preserves both.  `FeedInv`: what
was sent is never above the latest chain, and not above the `prev` of a head that
waits to be saved.  That a finite chain has a highest finalized head is a
well-founded minimum.

Second part, `HeadBroadcaster`: `NoneMissed` and `ToldRises`, for any number
of subscribers and any size of the mailbox.  `BroadcastInv` orders everything that is
under way: what a subscriber was told, the round at work, the slot, the mailbox
from its oldest to its newest entry, and the last head delivered.

Only model-checked: liveness, that is `LoopsProgress`, `CloseTerminates`,
`CallsEnd`, `SelectReturns`, `LeaseConverges`, `RotationServesAll`,
`MonitorProgresses`, `Settles`, `CallsReturn`, `TopArrives`, `HeadsArrive` and
`Returns`.  These rest on fairness, and fairness on `ENABLED`, which the prover
does not handle.

## Where code and comments disagree

`write_confirmed` exhibits one disagreement with a run (`findings` in
`PROJECT.json`): `acceptAndConfirmWrite` takes every transmission state but
`NotAttempted` for a confirmation (`write_target.go:443`), so that a failed
transmission is reported with the message that says the report "was successfully
written on-chain" (`write_confirmed.proto:9`).

The modules state others under the heading *What the comments promise and the
code does not keep*.  No run is spent on them; each can be seen by adding the
formula to the configuration of its module.

| Formula | Module | What TLC shows |
|---|---|---|
| `ClosedIsFinal` | `NodeLifecycle` | a loop that is between its last check and its transition takes a node out of `Closed` |
| `RegistersInLifeCycle` | `RPCClientBase` | a subscription survives the life cycle it was made in |
| `SubscribeNeverPanics` | `RPCClientBase` | `SubscribeToHeads` dereferences nil when `Close` overtakes it |
| `CollectionSucceedsOnEnough` | `TransactionSender` | a zero result from a closed channel is collected as an answer |
| `ContradictionsReported` | `TransactionSender` | a contradiction is not reported when the second answer is late |
| `LeaseNeverPanics` | `MultiNode` | the lease check dereferences nil when no node is alive |
| `LastLiveNodeKept` | `MultiNode` | two nodes leave together, each taking the other for alive |
| `NoChangeMeansCurrent` | `Txm` | `enabledAddrs` is never updated after `Start`, so keys that change and change back leave the services with the old ones (`txmgr.go:546`) |
| `GoneIsForgotten` | `Txm` | a tracked transaction the reaper has deleted is a nil pointer for `markAllTxesFatal` (`tracker.go:335-342`) |

Seen while modelling, part of the models unless noted:

* Node.  `start` panics unless the state is `Undialed` (`node.go:263`); a `Close`
  between `Start` and the first step of its goroutine leads there.  A loop that
  has handed over closes whatever `healthCheckSubs` holds when its deferred call
  runs, which can be its successor's (`node_lifecycle.go:73`).
  `isOutOfSyncWithPool` panics for `RandomRPC` when `SyncThreshold` is positive
  (`:406`), and compares difficulties before a first head has set them (`:403`).
* RPC client.  `UnsubscribeAllExceptAliveLoop` can run between the opening of the
  alive loop's subscription and its registration, and then ends it.
* Pool.  `selectNode` can fail although some node was alive at every moment,
  because a selector looks at the nodes one after the other.
* Broadcaster.  A transaction is dropped, and its sequence given to the next, on a
  fatal answer of one node, or after errors for too long, although another node may
  have taken it (`SequencesSpentOnce` names these cases).  A reorg puts confirmed
  transactions back among the unconfirmed ones, over the limit of those in flight.
* Confirmer.  `ProcessStuckTransactions` comes before the handling of attempts in
  progress, and fails for a transaction that has one: a detector that keeps
  naming it keeps rebroadcasts from happening.  A purge attempt that is refused
  as `Fatal` is deleted, and the pipeline is resumed with the failure all the
  same (`confirmer.go:408`).  A reorged transaction without attempts makes
  `CheckForConfirmation` fail on every head (`:303`), and one that is due for a bump
  ends the rebroadcasts of every head (`:621`).  With a stale count a
  finalized transaction is reverted, which "should never happen" (`:331`).
  Not in the model: the minimum in `observeUntilTxConfirmed` starts at 0, so the
  metric of blocks is never recorded (`:857-867`), and
  `findOldestUnconfirmedAttempt` returns the newest (`resender.go:221`).
* Manager.  The check of `stopped` in the reset case is never true when a `Reset`
  arrives, because a caller of `Reset` keeps `Close` from closing `chStop`.
  `Reset` overwrites the error of `abandon` with what `done` delivers
  (`txmgr.go:282`).  The three services read the keys for themselves when they
  start, and the tracker's cache outlives the reset that enables an address
  again; so the tracker may give up a transaction that the broadcaster recorded as
  sent while the tracker was going over its cache (`crossed`).  It also takes every
  transaction in progress for one that "could never be sent on chain even once"
  (`tracker.go:293`), although the broadcaster sends before it records that.  If the forwarder manager, which is
  started after the run loop, fails to start, `Start` closes the services and
  returns an error, but the loop goes on, and a change of keys then makes it close
  services that are closed, which is a panic (`txmgr.go:257`, `:376`).  At the end of its time to live the
  tracker marks transactions fatal whatever their state, confirmed ones included
  (`tracker.go:331`).
* Head tracker.  With instant finality a head that was buffered before the
  initial head was read counts as a "very old block" and makes the listener
  subscribe again, where `NewTracker` says it is "ignored as a duplicate"
  (`tracker.go:122-125`).  `verifyFinalizedBlockHashes` cannot see a conflict
  between different heights, since a head from the client is linked to none.
  A fork head of equal height is saved but neither broadcast nor backfilled.
  The "finality violation" of `handleNewHead` can be the doing of a lagging node or
  of a head that waited in the channel, on a chain that keeps its promise.

## Hazards

`PROJECT.json` lists the places at which this code could go wrong without a test
noticing, with the property that would catch each.  These are also reached by the
models, and are covered by the same properties: the assertion on start
(`node.go:263`), the hand-overs and deferred calls of the loops
(`node_lifecycle.go:36`, `:149`, `:300`, `:403`), the overlap of a request with
`Close` (`rpc_client_base.go:96`, `:138`), a subscriber that is gone
(`poller.go:86`), a job that reports after the caller left
(`transaction_sender.go:170`), the wait for a node under the lock
(`multi_node.go:208`), the time to live of the tracker (`tracker.go:342`), the end
of the broadcaster's inner loop (`broadcaster.go:397`), a refused purge
(`confirmer.go:408`) and abandoning while the services are closed
(`txmgr.go:292`).

## What is not modelled

* Contents of transactions, blocks, reports and configuration; metrics, logging
  and monitoring messages beyond their kind; generated code.
* Pool: starting and closing it, `DoAll` other than as the sender sees it, the
  periodic `report`.  The send-only node repeats the dial and verify steps of
  `NodeLifecycle` without its hand-overs.
* Confirmer: `ForceRebroadcast` and `sendEmptyTransaction`, an operator's tool
  that runs instead of the confirmer; the resender's alerts.
* Manager: the forwarder manager beyond its start, the dual broadcast wrapper and the finalizer,
  which are outside this repository; the checks of `CreateTransaction` other
  than the insertion and its trigger; the read-only queries of the store.
* Head tracker: `LatestSafeBlock` and `LatestAndFinalizedBlock`, which read and
  return; trimming and persisting heads, which the saver does.
* Interfaces and data types, which have no behaviour of their own, and the test
  helpers.
