--------------------------- MODULE NodeLifecycle ---------------------------
(***************************************************************************)
(* The life cycle of one RPC node (multinode/node.go, node_fsm.go and      *)
(* node_lifecycle.go): the state machine, the goroutine ("loop") of each   *)
(* state, the hand-over of control from one loop to the next, the          *)
(* connection and the health-check subscriptions, and Start and Close.     *)
(*                                                                         *)
(* A goroutine is a slot: pc[p] is where it stands, kind[p] which function *)
(* it runs, next[p] the state it is about to declare.  A step is what runs *)
(* between two points at which another goroutine can be observed: a        *)
(* critical section of stateMu, an RPC call, or a select.  The endpoint    *)
(* behind the RPC is the variable remote, which changes at any time.       *)
(***************************************************************************)
EXTENDS Naturals, FiniteSets

CONSTANTS
    Slots,                          \* goroutines alive at the same time (bound)
    VerifyChainID, NodeIsSyncingEnabled, FinalityTagEnabled,
    HasPool,                        \* poolInfoProvider # nil
    IsLoadBalancedRPC,
    SelectionMode, SyncThreshold,
    PollFailureThreshold, PollSuccessThreshold,
    FinalizedStateCheckFailureThreshold,
    MaxFailures                     \* where the failure counters saturate (math.MaxUint32)

Modes == {"HighestHead", "RoundRobin", "PriorityLevel", "TotalDifficulty", "RandomRPC"}

ASSUME ConfigAssumption ==
    /\ {VerifyChainID, NodeIsSyncingEnabled, FinalityTagEnabled, HasPool,
        IsLoadBalancedRPC} \subseteq BOOLEAN
    /\ SelectionMode \in Modes
    /\ SyncThreshold \in Nat
    /\ PollFailureThreshold \in Nat
    /\ PollSuccessThreshold \in Nat
    /\ FinalizedStateCheckFailureThreshold \in Nat
    /\ MaxFailures \in Nat

VARIABLES
    state,            \* node.state, guarded by stateMu
    stopped,          \* stopCh is closed
    service,          \* the StateMachine: "new", "started", "closing", "closed"
    kind, pc, next,   \* the goroutines
    deferred,         \* goroutines that have run "defer n.unsubscribeHealthChecks()"
    local,            \* their local variables
    conn,             \* what is known of the current connection
    rpcSubs,          \* subscriptions open on the RPC
    healthCheckSubs,  \* node.healthCheckSubs
    remote,           \* the endpoint
    panicked          \* "none", or which panic ended the process

fsmVars   == <<state, stopped, service>>
procVars  == <<kind, pc, next, deferred>>
subVars   == <<rpcSubs, healthCheckSubs>>
vars == <<fsmVars, procVars, local, conn, subVars, remote, panicked>>

FSNA == "FinalizedStateNotAvailable"

\* nodeStateUnusable belongs to send-only nodes, nodeStateFinalizedBlockOutOfSync
\* is only ever computed (recalculateState): neither is stored in node.state.
NodeStates == {"Undialed", "Dialed", "InvalidChainID", "Alive", "Unreachable",
               "OutOfSync", "Closed", "Syncing", FSNA}

LoopKinds == {"Alive", "OutOfSync", "Unreachable", "InvalidChainID", "Syncing", FSNA}

Targets == LoopKinds \cup {"InSync"}

SyncIssues == {"NotInSyncWithPool", "NoNewHead", "NoNewFinalizedHead"}

Remotes == {"ok", "down", "wrongChain", "syncing", "lagging", "noState"}

ConnFacts == {"up", "chain", "notSyncing"}

PCs == {"idle", "entry", "dial", "setDialed", "verify", "chainID", "isSyncing", "judge",
        "probe", "giveUp", "declareState", "transition", "subscribe", "register",
        "subscribeFinalized", "registerFinalized", "run", "pollSync", "pollState",
        "backoff", "recheck", "cleanup"}

\* A subscription is known by the loop that made it and by what it delivers.
Heads(p) == <<p, "heads">>
FinalizedHeads(p) == <<p, "finalizedHeads">>
Subs == Slots \X {"heads", "finalizedHeads"}

\* syncIssues is outOfSyncLoop's bit mask, as a set; the failure counters are aliveLoop's,
\* successes is probeUntilStable's.
Locals == [syncIssues : SUBSET SyncIssues, pollFailures : 0..MaxFailures,
           finalizedStateFailures : 0..MaxFailures, successes : 0..PollSuccessThreshold]

Fresh(issues) == [syncIssues |-> issues, pollFailures |-> 0, finalizedStateFailures |-> 0,
                  successes |-> 0]

Init ==
    /\ state = "Undialed" /\ stopped = FALSE /\ service = "new"
    /\ kind = [p \in Slots |-> "start"]
    /\ pc = [p \in Slots |-> "idle"]
    /\ next = [p \in Slots |-> "Alive"]
    /\ deferred = {}
    /\ local = [p \in Slots |-> Fresh({})]
    /\ conn = {} /\ rpcSubs = {} /\ healthCheckSubs = {}
    /\ remote \in Remotes
    /\ panicked = "none"

-----------------------------------------------------------------------------
(* Helpers *)

\* A panic ends the process: no goroutine moves after it.
Running == panicked = "none"

At(p, l) == Running /\ pc[p] = l

LoopAt(p, k, l) == kind[p] = k /\ At(p, l)

Goto(p, l) == /\ pc' = [pc EXCEPT ![p] = l]
              /\ UNCHANGED <<kind, next, deferred>>

\* Continue at l with the state s to be judged or declared there.
GotoWith(p, l, s) == /\ pc' = [pc EXCEPT ![p] = l]
                     /\ next' = [next EXCEPT ![p] = s]
                     /\ UNCHANGED <<kind, deferred>>

\* return: the deferred unsubscribeHealthChecks still runs, if it was registered, and
\* wg.Done frees the slot.  What was local to the goroutine is forgotten.
AfterReturn(p) == IF p \in deferred THEN "cleanup" ELSE "idle"

Return(p) == /\ pc' = [pc EXCEPT ![p] = AfterReturn(p)]
             /\ kind' = [kind EXCEPT ![p] = "start"]
             /\ next' = [next EXCEPT ![p] = "Alive"]
             /\ local' = [local EXCEPT ![p] = Fresh({})]
             /\ UNCHANGED deferred

Panic(what) == /\ panicked' = what
               /\ UNCHANGED <<fsmVars, procVars, local, conn, subVars, remote>>

RpcClose == conn' = {} /\ rpcSubs' = {}

Free == {q \in Slots : pc[q] = "idle"}

\* The value of LatestChainInfo's first result: how many other nodes are alive.
\* Two matters to the code, so more need not be told apart.
LiveNodes == 0..2

CannotDisable(live, needed) == HasPool /\ live < needed /\ ~IsLoadBalancedRPC

Bump(n) == IF n < MaxFailures THEN n + 1 ELSE n

Decay(n) == IF n > 0 THEN n - 1 ELSE n

-----------------------------------------------------------------------------
(* Start, and the start goroutine up to its first connection *)

Start ==
    /\ Running /\ service = "new"
    /\ service' = "started"
    /\ \E q \in Free : /\ pc' = [pc EXCEPT ![q] = "entry"]
                       /\ kind' = [kind EXCEPT ![q] = "start"]
    /\ UNCHANGED <<state, stopped, next, deferred, local, conn, subVars, remote, panicked>>

StartEntry(p) ==
    /\ LoopAt(p, "start", "entry")
    /\ IF state # "Undialed" THEN Panic("start")
       ELSE /\ Goto(p, "dial")
            /\ UNCHANGED <<fsmVars, local, conn, subVars, remote, panicked>>

\* The sanity check that opens every loop.
LoopEntry(p) ==
    /\ At(p, "entry") /\ kind[p] # "start"
    /\ IF state \notin {kind[p], "Closed"} THEN Panic("fsm")
       ELSE /\ \/ state = "Closed" /\ Return(p)
               \/ /\ state = kind[p]
                  /\ Goto(p, CASE kind[p] = "Alive" -> "subscribe"
                               [] kind[p] = "Unreachable" -> "backoff"
                               [] OTHER -> "dial")
                  /\ UNCHANGED local
            /\ UNCHANGED <<fsmVars, conn, subVars, remote, panicked>>

\* rpc.Dial.  Every caller handles the error in its own way.
DialFails(p) ==
    /\ At(p, "dial")
    /\ remote = "down" \/ stopped
    /\ CASE kind[p] = "start" -> GotoWith(p, "transition", "Unreachable")
         [] kind[p] = "Unreachable" -> Goto(p, "backoff")
         [] OTHER -> GotoWith(p, "judge", "Unreachable")
    /\ UNCHANGED <<fsmVars, local, conn, subVars, remote, panicked>>

\* Fault: with the IsSyncing check enabled the chain ID is not verified.
BeginVerifyConnSyncOnly(p) ==
    IF NodeIsSyncingEnabled THEN Goto(p, "isSyncing")
    ELSE IF VerifyChainID THEN Goto(p, "verify")
    ELSE GotoWith(p, "judge", "Alive")

\* verifyConn's first step: which check comes first depends on the configuration.
BeginVerifyConn(p) ==
    IF VerifyChainID THEN Goto(p, "verify")
    ELSE IF NodeIsSyncingEnabled THEN Goto(p, "isSyncing")
    ELSE GotoWith(p, "judge", "Alive")

DialSucceeds(p) ==
    /\ At(p, "dial") /\ remote # "down"
    /\ conn' = {"up"}
    /\ IF kind[p] \in {"start", "Unreachable"} THEN Goto(p, "setDialed") ELSE BeginVerifyConn(p)
    /\ UNCHANGED <<fsmVars, local, subVars, remote, panicked>>

\* setState(nodeStateDialed) does not look at the state it replaces.
SetDialed(p) ==
    /\ At(p, "setDialed")
    /\ state' = "Dialed"
    /\ BeginVerifyConn(p)
    /\ UNCHANGED <<stopped, service, local, conn, subVars, remote, panicked>>

-----------------------------------------------------------------------------
(* verifyConn *)

VerifyChainIDState(p) ==
    /\ At(p, "verify")
    /\ IF state \in {"Undialed", "Alive", "Unreachable"} THEN Panic("fsm")
       ELSE /\ \/ state = "Closed" /\ GotoWith(p, "judge", "nodeStateLen")
               \/ /\ state \in {"Dialed", "OutOfSync", "InvalidChainID", "Syncing", FSNA}
                  /\ Goto(p, "chainID")
            /\ UNCHANGED <<fsmVars, local, conn, subVars, remote, panicked>>

ChainIDCall(p) ==
    /\ At(p, "chainID")
    /\ \/ /\ remote = "down" \/ stopped
          /\ GotoWith(p, "judge", "Unreachable") /\ UNCHANGED conn
       \/ /\ remote = "wrongChain"
          /\ GotoWith(p, "judge", "InvalidChainID") /\ UNCHANGED conn
       \/ /\ remote \notin {"down", "wrongChain"}
          /\ conn' = conn \cup {"chain"}
          /\ IF NodeIsSyncingEnabled THEN Goto(p, "isSyncing") ELSE GotoWith(p, "judge", "Alive")
    /\ UNCHANGED <<fsmVars, local, subVars, remote, panicked>>

IsSyncingCall(p) ==
    /\ At(p, "isSyncing")
    /\ \/ /\ remote = "down" \/ stopped
          /\ GotoWith(p, "judge", "Unreachable") /\ UNCHANGED conn
       \/ /\ remote = "syncing"
          /\ GotoWith(p, "judge", "Syncing") /\ conn' = conn \ {"notSyncing"}
       \/ /\ remote \notin {"down", "syncing"}
          /\ GotoWith(p, "judge", "Alive") /\ conn' = conn \cup {"notSyncing"}
    /\ UNCHANGED <<fsmVars, local, subVars, remote, panicked>>

\* What the caller does with the state verifyConn (or createVerifiedConn) returned.
Judge(p) ==
    /\ At(p, "judge")
    /\ Goto(p, CASE kind[p] = "Unreachable" /\ next[p] = "Unreachable" -> "giveUp"
                 [] kind[p] = "Unreachable" /\ next[p] = "Alive" -> "probe"
                 [] kind[p] = "InvalidChainID" /\ next[p] = "InvalidChainID" -> "backoff"
                 [] kind[p] = "Syncing" /\ next[p] = "Syncing" -> "backoff"
                 [] kind[p] = FSNA /\ next[p] = "Alive" -> "backoff"
                 [] kind[p] = "OutOfSync" /\ next[p] = "Alive" -> "subscribe"
                 [] OTHER -> "declareState")
    /\ local' = [local EXCEPT ![p].successes = 0]
    /\ UNCHANGED <<fsmVars, conn, subVars, remote, panicked>>

\* probeUntilStable: PollSuccessThreshold successful pings in a row, or nothing.
Probe(p) ==
    /\ At(p, "probe")
    /\ \/ /\ local[p].successes >= PollSuccessThreshold
          /\ Goto(p, "declareState") /\ UNCHANGED local
       \/ /\ local[p].successes < PollSuccessThreshold
          /\ remote = "down" \/ stopped
          /\ Goto(p, "giveUp") /\ UNCHANGED local
       \/ /\ local[p].successes < PollSuccessThreshold /\ remote # "down"
          /\ local' = [local EXCEPT ![p].successes = @ + 1]
          /\ UNCHANGED procVars
    /\ UNCHANGED <<fsmVars, conn, subVars, remote, panicked>>

\* unreachableLoop: rpc.Close and setState(nodeStateUnreachable), then the next round.
GiveUp(p) ==
    /\ At(p, "giveUp")
    /\ RpcClose
    /\ state' = "Unreachable"
    /\ Goto(p, "backoff")
    /\ UNCHANGED <<stopped, service, local, healthCheckSubs, remote, panicked>>

-----------------------------------------------------------------------------
(* Declaring a state *)

\* declareState looks at the state once before it calls declareXXX.
DeclareState(p) ==
    /\ At(p, "declareState")
    /\ IF /\ state # "Closed"
          /\ next[p] \notin {"InvalidChainID", "Unreachable", "Syncing", "Alive", FSNA}
       THEN Panic("fsm")
       ELSE /\ \/ state = "Closed" /\ Return(p)
               \/ state # "Closed" /\ Goto(p, "transition") /\ UNCHANGED local
            /\ UNCHANGED <<fsmVars, conn, subVars, remote, panicked>>

\* Fault: transitionToAlive does not accept FinalizedStateNotAvailable, and transitionToOutOfSync
\* not OutOfSync.
PermittedTooNarrow(t) ==
    CASE t = "Alive" -> {"Dialed", "InvalidChainID", "Syncing"}
      [] t = "InSync" -> {"OutOfSync", "Syncing"}
      [] t = "OutOfSync" -> {"Alive"}
      [] OTHER -> NodeStates

\* The states each transitionToXXX accepts.
Permitted(t) ==
    CASE t = "Alive" -> {"Dialed", "InvalidChainID", "Syncing", FSNA}
      [] t = "InSync" -> {"OutOfSync", "Syncing"}
      [] t = "OutOfSync" -> {"Alive", "OutOfSync"}
      [] t = "Unreachable" -> {"Undialed", "Dialed", "Alive", "OutOfSync", "InvalidChainID",
                               "Syncing", FSNA}
      [] t = "InvalidChainID" -> {"Dialed", "OutOfSync", "Syncing", FSNA}
      [] t = "Syncing" -> IF NodeIsSyncingEnabled
                          THEN {"Dialed", "OutOfSync", "InvalidChainID", FSNA} ELSE {}
      [] OTHER -> {"Alive"}

Becomes(t) == IF t = "InSync" THEN "Alive" ELSE t

\* Fault: aliveLoop declares a state and forgets to return.
HandOverWithoutReturn(p, q) ==
    /\ pc' = [pc EXCEPT ![p] = IF kind[p] = "Alive" THEN "run" ELSE AfterReturn(p), ![q] = "entry"]
    /\ kind' = [kind EXCEPT ![q] = Becomes(next[p])]
    /\ local' = [local EXCEPT ![q] = Fresh(local[p].syncIssues)]
    /\ UNCHANGED <<next, deferred>>

\* fn: start the next loop as goroutine q, then return.
HandOver(p, q) ==
    /\ pc' = [pc EXCEPT ![p] = AfterReturn(p), ![q] = "entry"]
    /\ kind' = [kind EXCEPT ![p] = "start", ![q] = Becomes(next[p])]
    /\ next' = [next EXCEPT ![p] = "Alive"]
    /\ local' = [local EXCEPT ![p] = Fresh({}), ![q] = Fresh(local[p].syncIssues)]
    /\ UNCHANGED deferred

\* transitionToXXX under stateMu; the next loop is started before this one returns.
Transition(p) ==
    /\ At(p, "transition")
    /\ IF state # "Closed" /\ state \notin Permitted(next[p]) THEN Panic("fsm")
       ELSE /\ \/ /\ state = "Closed" /\ Return(p)
                  /\ UNCHANGED <<state, conn, rpcSubs>>
               \/ /\ state # "Closed"
                  /\ state' = Becomes(next[p])
                  /\ IF next[p] \in {"Alive", "InSync"} THEN UNCHANGED <<conn, rpcSubs>>
                                                        ELSE RpcClose
                  /\ \E q \in Free : HandOver(p, q)
            /\ UNCHANGED <<stopped, service, healthCheckSubs, remote, panicked>>

-----------------------------------------------------------------------------
(* Health-check subscriptions of aliveLoop and outOfSyncLoop *)

\* newSub: the subscription is open on the RPC before the node knows about it.
Subscribe(p) ==
    /\ At(p, "subscribe")
    /\ \/ /\ remote = "down" \/ stopped
          /\ GotoWith(p, "transition", "Unreachable") /\ UNCHANGED rpcSubs
       \/ /\ remote # "down"
          /\ rpcSubs' = rpcSubs \cup {Heads(p)} /\ Goto(p, "register")
    /\ UNCHANGED <<fsmVars, local, conn, healthCheckSubs, remote, panicked>>

\* Fault: "defer n.unsubscribeHealthChecks()" is missing.
RegisterWithoutDefer(p) ==
    /\ At(p, "register")
    /\ healthCheckSubs' = healthCheckSubs \cup {Heads(p)}
    /\ Goto(p, IF FinalityTagEnabled THEN "subscribeFinalized" ELSE "run")
    /\ UNCHANGED <<fsmVars, local, conn, rpcSubs, remote, panicked>>

\* append to healthCheckSubs under stateMu; back in the loop, defer unsubscribeHealthChecks.
Register(p) ==
    /\ At(p, "register")
    /\ healthCheckSubs' = healthCheckSubs \cup {Heads(p)}
    /\ deferred' = deferred \cup {p}
    /\ pc' = [pc EXCEPT ![p] = IF FinalityTagEnabled THEN "subscribeFinalized" ELSE "run"]
    /\ UNCHANGED <<fsmVars, kind, next, local, conn, rpcSubs, remote, panicked>>

SubscribeFinalized(p) ==
    /\ At(p, "subscribeFinalized")
    /\ \/ /\ remote = "down" \/ stopped
          /\ GotoWith(p, "transition", "Unreachable") /\ UNCHANGED rpcSubs
       \/ /\ remote # "down"
          /\ rpcSubs' = rpcSubs \cup {FinalizedHeads(p)} /\ Goto(p, "registerFinalized")
    /\ UNCHANGED <<fsmVars, local, conn, healthCheckSubs, remote, panicked>>

RegisterFinalized(p) ==
    /\ At(p, "registerFinalized")
    /\ healthCheckSubs' = healthCheckSubs \cup {FinalizedHeads(p)}
    /\ Goto(p, "run")
    /\ UNCHANGED <<fsmVars, local, conn, rpcSubs, remote, panicked>>

\* unsubscribeHealthChecks: every subscription of the list, whoever appended it.
UnsubscribeHealthChecks(p) ==
    /\ At(p, "cleanup")
    /\ rpcSubs' = rpcSubs \ healthCheckSubs
    /\ healthCheckSubs' = {}
    /\ deferred' = deferred \ {p}
    /\ pc' = [pc EXCEPT ![p] = "idle"]
    /\ UNCHANGED <<fsmVars, kind, next, local, conn, remote, panicked>>

\* Called by the MultiNode when another node becomes the active one.
UnsubscribeAllExceptAliveLoop ==
    /\ Running /\ service = "started"
    /\ rpcSubs' = rpcSubs \cap healthCheckSubs
    /\ UNCHANGED <<fsmVars, procVars, local, conn, healthCheckSubs, remote, panicked>>

-----------------------------------------------------------------------------
(* The body of aliveLoop: one action per case of its select *)

\* A declaration from inside a running loop, with the issues an OutOfSync loop inherits.
Declare(p, t, issues) ==
    /\ GotoWith(p, "transition", t)
    /\ local' = [local EXCEPT ![p] = Fresh(issues)]

\* The rest of a select case that declares nothing: continue at l with the locals loc.
Continue(p, l, loc) ==
    /\ Goto(p, l)
    /\ local' = [local EXCEPT ![p] = loc]

\* ClientVersion, the failure counter and its threshold.
Poll(p) ==
    /\ LoopAt(p, "Alive", "run")
    /\ LET failures == IF remote = "down" THEN Bump(local[p].pollFailures)
                                          ELSE Decay(local[p].pollFailures)
           polled == [local[p] EXCEPT !.pollFailures = failures]
       IN IF PollFailureThreshold > 0 /\ failures >= PollFailureThreshold
          THEN \E live \in LiveNodes : IF CannotDisable(live, 1) THEN Continue(p, "run", polled)
                                       ELSE Declare(p, "Unreachable", {})
          ELSE Continue(p, "pollSync", polled)
    /\ UNCHANGED <<fsmVars, conn, subVars, remote, panicked>>

ComparesWithPool == HasPool /\ SyncThreshold > 0

\* isOutOfSyncWithPool
PollSync(p) ==
    /\ At(p, "pollSync")
    /\ IF ComparesWithPool /\ SelectionMode = "RandomRPC" THEN Panic("mode")
       ELSE /\ \/ /\ ComparesWithPool /\ remote = "lagging"
                  /\ \E live \in LiveNodes :
                       IF live < 1 /\ ~IsLoadBalancedRPC THEN Continue(p, "run", local[p])
                       ELSE Declare(p, "OutOfSync", {"NotInSyncWithPool"})
               \/ /\ ~(ComparesWithPool /\ remote = "lagging")
                  /\ Continue(p, IF FinalizedStateCheckFailureThreshold > 0 THEN "pollState"
                                 ELSE "run", local[p])
            /\ UNCHANGED <<fsmVars, conn, subVars, remote, panicked>>

\* CheckFinalizedStateAvailability
PollState(p) ==
    /\ At(p, "pollState")
    /\ LET failures == Bump(local[p].finalizedStateFailures)
           counted == [local[p] EXCEPT !.finalizedStateFailures = failures]
       IN \/ /\ remote = "noState" /\ failures < FinalizedStateCheckFailureThreshold
             /\ Continue(p, "run", counted)
          \/ /\ remote = "noState" /\ failures >= FinalizedStateCheckFailureThreshold
             /\ \E live \in LiveNodes : IF CannotDisable(live, 2) THEN Continue(p, "run", counted)
                                        ELSE Declare(p, FSNA, {})
          \/ /\ remote = "down"
             /\ Continue(p, "run", [local[p] EXCEPT !.pollFailures = Bump(@)])
          \/ /\ remote \notin {"noState", "down"}
             /\ Continue(p, "run", [local[p] EXCEPT !.finalizedStateFailures = 0])
    /\ UNCHANGED <<fsmVars, conn, subVars, remote, panicked>>

\* The ticker of a subscription fires: no head within the threshold.
NoNewHeads(p) ==
    /\ LoopAt(p, "Alive", "run") /\ remote # "ok"
    /\ \E issue \in {"NoNewHead"} \cup IF FinalityTagEnabled THEN {"NoNewFinalizedHead"} ELSE {},
          live \in LiveNodes :
         IF CannotDisable(live, 1) THEN Continue(p, "run", local[p])
         ELSE Declare(p, "OutOfSync", {issue})
    /\ UNCHANGED <<fsmVars, conn, subVars, remote, panicked>>

-----------------------------------------------------------------------------
(* The body of outOfSyncLoop *)

OutOfSyncWaits(p) == LoopAt(p, "OutOfSync", "run") /\ local[p].syncIssues # {}

\* syncIssues == syncStatusSynced, looked at before every select.
BackInSync(p) ==
    /\ LoopAt(p, "OutOfSync", "run") /\ local[p].syncIssues = {}
    /\ Declare(p, "InSync", {})
    /\ UNCHANGED <<fsmVars, conn, subVars, remote, panicked>>

\* Fault: a new head does not clear NoNewHead.
OutOfSyncNewHeadKeepsIssue(p) ==
    /\ OutOfSyncWaits(p) /\ remote # "down"
    /\ local' = [local EXCEPT ![p].syncIssues =
           IF ComparesWithPool /\ remote = "lagging" THEN @ \cup {"NotInSyncWithPool"}
           ELSE @ \ {"NotInSyncWithPool"}]
    /\ UNCHANGED <<fsmVars, procVars, conn, subVars, remote, panicked>>

\* A head higher than any seen: NoNewHead is cleared, NotInSyncWithPool recomputed.
OutOfSyncNewHead(p) ==
    /\ OutOfSyncWaits(p) /\ remote # "down"
    /\ IF ComparesWithPool /\ SelectionMode = "RandomRPC" THEN Panic("mode")
       ELSE /\ local' = [local EXCEPT ![p].syncIssues =
                   IF ComparesWithPool /\ remote = "lagging"
                   THEN (@ \ {"NoNewHead"}) \cup {"NotInSyncWithPool"}
                   ELSE @ \ {"NoNewHead", "NotInSyncWithPool"}]
            /\ UNCHANGED <<fsmVars, procVars, conn, subVars, remote, panicked>>

OutOfSyncNewFinalizedHead(p) ==
    /\ OutOfSyncWaits(p) /\ FinalityTagEnabled /\ remote # "down"
    /\ local' = [local EXCEPT ![p].syncIssues = @ \ {"NoNewFinalizedHead"}]
    /\ UNCHANGED <<fsmVars, procVars, conn, subVars, remote, panicked>>

OutOfSyncNoNewHeads(p) ==
    /\ OutOfSyncWaits(p) /\ remote # "ok"
    /\ \E issue \in {"NoNewHead"} \cup IF FinalityTagEnabled THEN {"NoNewFinalizedHead"} ELSE {} :
         local' = [local EXCEPT ![p].syncIssues = @ \cup {issue}]
    /\ UNCHANGED <<fsmVars, procVars, conn, subVars, remote, panicked>>

\* time.After(zombieNodeCheckInterval): the last node of the pool is forced back,
\* a load-balanced one reconnects.
ZombieCheck(p) ==
    /\ OutOfSyncWaits(p) /\ HasPool
    /\ IF IsLoadBalancedRPC THEN Declare(p, "OutOfSync", local[p].syncIssues)
       ELSE Declare(p, "InSync", {})
    /\ UNCHANGED <<fsmVars, conn, subVars, remote, panicked>>

-----------------------------------------------------------------------------
(* Cases shared by the loops *)

SubsOf(p) == {Heads(p)} \cup IF FinalityTagEnabled THEN {FinalizedHeads(p)} ELSE {}

\* A subscription's channel is closed or reports an error, in aliveLoop and outOfSyncLoop.
SubscriptionTerminated(p) ==
    /\ LoopAt(p, "Alive", "run") \/ OutOfSyncWaits(p)
    /\ remote = "down" \/ ~(SubsOf(p) \subseteq rpcSubs)
    /\ Declare(p, "Unreachable", {})
    /\ UNCHANGED <<fsmVars, conn, subVars, remote, panicked>>

\* <-ctx.Done() in the select of every loop.
Stop(p) ==
    /\ stopped
    /\ LoopAt(p, "Alive", "run") \/ OutOfSyncWaits(p) \/ At(p, "backoff")
    /\ Return(p)
    /\ UNCHANGED <<fsmVars, conn, subVars, remote, panicked>>

\* time.After(backoff): dial again, verify again, or ask again, as the loop does.
BackoffElapsed(p) ==
    /\ At(p, "backoff")
    /\ CASE kind[p] = "Unreachable" -> Goto(p, "dial")
         [] kind[p] = "InvalidChainID" -> BeginVerifyConn(p)
         [] OTHER -> Goto(p, "recheck")
    /\ UNCHANGED <<fsmVars, local, conn, subVars, remote, panicked>>

\* syncingLoop: IsSyncing again.
RecheckSyncing(p) ==
    /\ LoopAt(p, "Syncing", "recheck")
    /\ \/ /\ remote = "down" \/ stopped
          /\ GotoWith(p, "transition", "Unreachable") /\ UNCHANGED conn
       \/ remote = "syncing" /\ Goto(p, "backoff") /\ UNCHANGED conn
       \/ /\ remote \notin {"down", "syncing"}
          /\ GotoWith(p, "transition", "Alive") /\ conn' = conn \cup {"notSyncing"}
    /\ UNCHANGED <<fsmVars, local, subVars, remote, panicked>>

\* finalizedStateNotAvailableLoop: CheckFinalizedStateAvailability again.  The loop only
\* runs when the RPC has the check, so its nil case cannot be reached.
RecheckFinalizedState(p) ==
    /\ LoopAt(p, FSNA, "recheck")
    /\ \/ (remote = "down" \/ stopped) /\ GotoWith(p, "transition", "Unreachable")
       \/ remote = "noState" /\ Goto(p, "backoff")
       \/ remote \notin {"down", "noState"} /\ GotoWith(p, "transition", "Alive")
    /\ UNCHANGED <<fsmVars, local, conn, subVars, remote, panicked>>

-----------------------------------------------------------------------------
(* Close, and the environment *)

\* close(stopCh) and state = Closed under stateMu.
Close ==
    /\ Running /\ service = "started"
    /\ service' = "closing" /\ stopped' = TRUE /\ state' = "Closed"
    /\ UNCHANGED <<procVars, local, conn, subVars, remote, panicked>>

\* The deferred wg.Wait and rpc.Close.
CloseReturns ==
    /\ Running /\ service = "closing" /\ Free = Slots
    /\ service' = "closed"
    /\ RpcClose
    /\ UNCHANGED <<state, stopped, procVars, local, healthCheckSubs, remote, panicked>>

RemoteChanges ==
    /\ Running
    /\ \E r \in Remotes \ {remote} : remote' = r
    /\ UNCHANGED <<fsmVars, procVars, local, conn, subVars, panicked>>

Connect(p) ==
    \/ StartEntry(p) \/ LoopEntry(p) \/ DialFails(p) \/ DialSucceeds(p) \/ SetDialed(p)
    \/ VerifyChainIDState(p) \/ ChainIDCall(p) \/ IsSyncingCall(p) \/ Judge(p) \/ Probe(p)
    \/ GiveUp(p) \/ DeclareState(p) \/ Transition(p)

Subscribing(p) ==
    \/ Subscribe(p) \/ Register(p) \/ SubscribeFinalized(p) \/ RegisterFinalized(p)
    \/ UnsubscribeHealthChecks(p)

Watching(p) ==
    \/ Poll(p) \/ PollSync(p) \/ PollState(p) \/ NoNewHeads(p)
    \/ BackInSync(p) \/ OutOfSyncNewHead(p) \/ OutOfSyncNewFinalizedHead(p)
    \/ OutOfSyncNoNewHeads(p) \/ ZombieCheck(p)
    \/ SubscriptionTerminated(p) \/ Stop(p) \/ BackoffElapsed(p)
    \/ RecheckSyncing(p) \/ RecheckFinalizedState(p)

Next ==
    \/ Start \/ Close \/ CloseReturns \/ RemoteChanges \/ UnsubscribeAllExceptAliveLoop
    \/ \E p \in Slots : Connect(p) \/ Subscribing(p) \/ Watching(p)

Spec == Init /\ [][Next]_vars

\* Goroutines are scheduled, RPC calls return (Dial with an error once its context is
\* cancelled), a select picks at random among the cases that stay ready, and Close is called
\* by whoever it suits.
LiveSpec ==
    /\ Spec
    /\ WF_vars(Start)
    /\ WF_vars(CloseReturns)
    /\ \A p \in Slots :
         /\ WF_vars(\/ Connect(p) \/ Subscribing(p) \/ PollSync(p) \/ PollState(p)
                    \/ BackInSync(p) \/ BackoffElapsed(p) \/ RecheckSyncing(p)
                    \/ RecheckFinalizedState(p))
         /\ WF_vars(OutOfSyncNewHead(p))
         /\ WF_vars(OutOfSyncNewFinalizedHead(p))
         /\ WF_vars(SubscriptionTerminated(p))
         /\ SF_vars(Stop(p))
         /\ SF_vars(DialFails(p) /\ stopped)

-----------------------------------------------------------------------------
(* Properties *)

\* Types of the node's fields and of the loops' locals; the failure counters of aliveLoop
\* never pass the value at which the code stops counting.
TypeOK ==
    /\ state \in NodeStates
    /\ stopped \in BOOLEAN
    /\ service \in {"new", "started", "closing", "closed"}
    /\ kind \in [Slots -> LoopKinds \cup {"start"}]
    /\ pc \in [Slots -> PCs]
    /\ next \in [Slots -> Targets \cup {"nodeStateLen"}]
    /\ deferred \subseteq Slots
    /\ local \in [Slots -> Locals]
    /\ conn \subseteq ConnFacts
    /\ rpcSubs \subseteq Subs
    /\ healthCheckSubs \subseteq Subs
    /\ remote \in Remotes
    /\ panicked \in {"none", "start", "mode", "fsm"}

\* A goroutine drives the node until it has handed over or decided to return.
Driving(p) == pc[p] \notin {"idle", "cleanup"}

\* Only one goroutine drives the node at a time: a loop that has started its successor
\* never changes the state again (node.go: "Node lifecycle is synchronous").
SingleDriver == \A p, q \in Slots : Driving(p) /\ Driving(q) => p = q

\* Between Start and Close a node is never left without a goroutine that drives it:
\* every loop returns only after it has started the next one, or because of Close.
NeverUnattended ==
    service = "started" /\ panicked = "none" => \E p \in Slots : Driving(p)

\* The states in which a driver can find the node, other than Closed.
ExpectedState(p) ==
    CASE kind[p] = "start" ->
           IF pc[p] \in {"entry", "dial", "setDialed"} THEN {"Undialed"}
           ELSE IF pc[p] = "transition" THEN {"Undialed", "Dialed"} ELSE {"Dialed"}
      [] kind[p] = "Unreachable" ->
           IF pc[p] \in {"entry", "backoff", "dial", "setDialed"} THEN {"Unreachable"}
           ELSE {"Dialed"}
      [] OTHER -> {kind[p]}

\* The driver's function and its progress determine the node's state, unless Close has
\* changed it: the state other components read is the one the running loop stands for.
DriverMatchesState ==
    \A p \in Slots : Driving(p) => state \in ExpectedState(p) \cup {"Closed"}

\* From Start to Close exactly one goroutine drives the node, and the node's state is the
\* one that goroutine stands for: the state machine has no other guard against two loops.
Driven == TypeOK /\ SingleDriver /\ NeverUnattended /\ DriverMatchesState

\* None of the state machine's panics is reachable, whatever the endpoint answers and
\* whenever Close is called: transitionFail, the sanity checks that open the loops,
\* "cannot verify node in state" and "state declaration is not implemented".
NoFsmPanic == panicked # "fsm"

\* Dial is only called when the previous connection has been closed, so that no
\* connection is leaked by a redial.
DialsClosedConnection == \A p \in Slots : pc[p] = "dial" => conn = {}

\* While a node is Alive its current connection is up and has passed every check the
\* configuration asks for, whichever of the five paths made it Alive: the chain ID was
\* verified on this connection, and the last IsSyncing on it said no.
AliveIsVerified ==
    state = "Alive" /\ service # "closed" =>
        /\ "up" \in conn
        /\ VerifyChainID => "chain" \in conn
        /\ NodeIsSyncingEnabled => "notSyncing" \in conn

\* No subscription is leaked: one that is open on the RPC is in healthCheckSubs or about
\* to be appended by its owner, and one in healthCheckSubs has an owner whose deferred
\* unsubscribeHealthChecks is still to come.
NoSubscriptionLeak ==
    /\ \A s \in rpcSubs : \/ s \in healthCheckSubs
                          \/ s[2] = "heads" /\ pc[s[1]] = "register"
                          \/ s[2] = "finalizedHeads" /\ pc[s[1]] = "registerFinalized"
    /\ \A s \in healthCheckSubs : s[1] \in deferred

\* Once Close has returned no goroutine, subscription or connection is left.
ClosedReleasesAll ==
    service = "closed" =>
        Free = Slots /\ rpcSubs = {} /\ healthCheckSubs = {} /\ conn = {}

\* Neither a connection nor a subscription is left behind, by a redial, by a loop that
\* hands over, or by Close.
NothingLeaks == DialsClosedConnection /\ NoSubscriptionLeak /\ ClosedReleasesAll

\* Close always returns: every loop notices the closed stopCh and leaves (wg.Wait ends),
\* even when the Closed state has been overwritten and more loops were started.
CloseTerminates ==
    service = "closing" ~> (service = "closed" \/ panicked # "none")

\* A node whose endpoint stays healthy keeps coming back to Alive from every state it
\* may have been in.
RecoversWhenHealthy ==
    <>[](remote = "ok" /\ service = "started" /\ panicked = "none") => []<>(state = "Alive")

\* No loop gets stuck: Close ends every one of them, and a healthy endpoint brings every
\* one of them back to aliveLoop.
LoopsProgress == CloseTerminates /\ RecoversWhenHealthy

-----------------------------------------------------------------------------
(* What the comments promise and the code does not keep *)

\* node_fsm.go:68, "nodeStateClosed is after the connection has been closed and the node
\* is at the end of its lifecycle": a closed node stays closed.
ClosedIsFinal == [][state = "Closed" => state' = "Closed"]_vars

=============================================================================
