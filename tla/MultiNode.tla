------------------------------ MODULE MultiNode ------------------------------
(***************************************************************************)
(* multinode/multi_node.go with the selectors of node_selector_*.go: the   *)
(* pool keeps one active node, replaces it when it is no longer alive or   *)
(* when the lease check finds a better one, and tells every node how far   *)
(* the others are and how many of them live.                               *)
(*                                                                         *)
(* The processes are the users of SelectRPC, the goroutine of              *)
(* checkLeaseLoop, and one life-cycle loop per node, of which only what    *)
(* the pool sees is kept (NodeLifecycle has the rest).  A selector reads   *)
(* the nodes one after the other, so it decides on a picture of the pool   *)
(* that may never have existed.                                            *)
(*                                                                         *)
(* An endpoint's chain only grows, as seen through one URL.  Its finalized *)
(* block is FinalityDepth below its head.                                  *)
(***************************************************************************)
EXTENDS Integers, Sequences, FiniteSets

CONSTANTS
    Nodes,               \* c.primaryNodes, a sequence
    Order,               \* the configured order of each node
    Work,                \* difficulty per block on each node's chain; 0: none
    LoadBalanced,        \* the nodes with isLoadBalancedRPC
    Users,               \* the goroutines that call SelectRPC
    Lease,               \* the goroutine of checkLeaseLoop
    NoOne,               \* a nil Node, and the owner of an unlocked mutex
    Setups,              \* [mode, users, chain] records: the selection mode, the
                         \* users that call, the height of each endpoint's chain
                         \* at the start
    EnforceRepeatableRead, FinalityTagEnabled, FinalizedBlockOffset,
    FinalityDepth,       \* blocks between the head and the finalized block
    MaxBlock,            \* bound on the chains
    CounterSize          \* the size of the round-robin counters, 2^32

Pool == {Nodes[i] : i \in DOMAIN Nodes}
Modes == {"HighestHead", "RoundRobin", "TotalDifficulty", "PriorityLevel", "RandomRPC"}

ASSUME ConfigAssumption ==
    /\ Nodes \in Seq(Pool) /\ Nodes # <<>>
    /\ Order \in [Pool -> Nat] /\ Work \in [Pool -> Nat]
    /\ LoadBalanced \subseteq Pool
    /\ NoOne \notin Pool \union Users \union {Lease}
    /\ Lease \notin Pool \union Users /\ Pool \intersect Users = {}
    /\ Setups \subseteq [mode : Modes, users : SUBSET Users, chain : [Pool -> Nat]]
    /\ EnforceRepeatableRead \in BOOLEAN /\ FinalityTagEnabled \in BOOLEAN
    /\ FinalizedBlockOffset \in Nat /\ FinalityDepth \in Nat /\ MaxBlock \in Nat
    /\ CounterSize \in Nat \ {0}

VARIABLES
    selectionMode,        \* fixed at construction
    chain,                \* per node: the height of its endpoint's chain
    state,                \* per node: the cached state, as far as the pool cares
    latest,               \* per node: the chain info its RPC intercepted last
    HighestUserObservations, \* the highest number that any user read
    subs,                 \* the nodes that hold subscriptions of users
    activeNode, activeMu, \* as in the code; activeMu is its writer
    roundRobinCount,      \* the counters of the selectors, per priority tier
    pc, local,            \* per process
    lastRead,             \* per user: the last block number it was given
    panicked              \* checkLease dereferenced a nil node

nodeVars == <<chain, state, latest, HighestUserObservations>>
poolVars == <<subs, activeNode, activeMu, roundRobinCount>>
vars == <<selectionMode, nodeVars, poolVars, pc, local, lastRead, panicked>>

-----------------------------------------------------------------------------
(* node_fsm.go: the state of a node as the pool reads it.                   *)

Larger(a, b) == IF a >= b THEN a ELSE b

\* What an endpoint with chain height h answers to a user's read, and what of
\* the chain info it compares with: repeatable reads are about one of the numbers.
Finalized(h) == Larger(h - FinalityDepth, 0)
ReadBlock(h) == IF FinalityTagEnabled THEN Finalized(h) ELSE h
ReadNumber(info) ==
    IF FinalityTagEnabled THEN info.FinalizedBlockNumber ELSE info.BlockNumber

\* isFinalizedBlockOutOfSync: n is more than the offset behind what some user saw.
isFinalizedBlockOutOfSync(n) ==
    ReadNumber(latest[n]) < HighestUserObservations - FinalizedBlockOffset

\* Fault: the cached state is enough.
AliveByCachedState(n) == state[n] = "Alive"

Alive(n) ==
    /\ state[n] = "Alive"
    /\ ~ (EnforceRepeatableRead /\ isFinalizedBlockOutOfSync(n))

isInitializing(n) == state[n] = "Dialed"

\* A selector's reading of one node: whether it is alive and, if so, the number of
\* its chain info that the selector compares.
StateAndLatest(n) ==
    [alive |-> Alive(n),
     value |-> CASE ~ Alive(n) -> 0
                 [] selectionMode = "HighestHead" -> latest[n].BlockNumber
                 [] selectionMode = "TotalDifficulty" -> latest[n].BlockNumber * Work[n]
                 [] OTHER -> 0]

-----------------------------------------------------------------------------
(* The selectors: the positions in Nodes that Select may return, given the  *)
(* readings of all nodes.  Empty stands for nil.                            *)

Living(seen) == {i \in DOMAIN seen : seen[i].alive}

\* Of the positions S, the first one with the lowest order.
firstOrHighestPriority(S) ==
    {i \in S : \A j \in S : \/ Order[Nodes[i]] < Order[Nodes[j]]
                            \/ Order[Nodes[i]] = Order[Nodes[j]] /\ i <= j}

HighestHeads(seen) ==
    {i \in Living(seen) : \A j \in Living(seen) : seen[j].value <= seen[i].value}

\* A total difficulty of 0 stands for nil; if all are nil any live node will do.
HighestDifficulties(seen) ==
    LET known == {i \in Living(seen) : seen[i].value > 0}
    IN IF known = {} THEN Living(seen)
       ELSE {i \in known : \A j \in known : seen[j].value <= seen[i].value}

removeLowerTiers(S) == {i \in S : \A j \in S : Order[Nodes[i]] <= Order[Nodes[j]]}

\* The position in S that the counter points at.
Rotate(S, counter) ==
    {i \in S : Cardinality({j \in S : j < i}) = counter % Cardinality(S)}

Tier(seen) == removeLowerTiers(Living(seen))

\* The tier whose counter Select advances: RoundRobin has a single counter.
CounterOf(seen) ==
    IF selectionMode = "RoundRobin" THEN 0
    ELSE Order[Nodes[CHOOSE i \in Tier(seen) : TRUE]]

Select(seen) ==
    CASE selectionMode = "HighestHead" ->
            firstOrHighestPriority(HighestHeads(seen))
      [] selectionMode = "TotalDifficulty" ->
            firstOrHighestPriority(HighestDifficulties(seen))
      [] selectionMode = "RoundRobin" ->
            IF Living(seen) = {} THEN {}
            ELSE Rotate(Living(seen), roundRobinCount[0])
      [] selectionMode = "PriorityLevel" ->
            IF Living(seen) = {} THEN {}
            ELSE Rotate(Tier(seen), roundRobinCount[CounterOf(seen)])
      [] selectionMode = "RandomRPC" -> Living(seen)

\* Fault: only RoundRobin advances its counter.
AdvanceCounterRoundRobin(seen) ==
    roundRobinCount' =
        IF selectionMode = "RoundRobin" /\ Living(seen) # {}
        THEN [roundRobinCount EXCEPT ![CounterOf(seen)] = (@ + 1) % CounterSize]
        ELSE roundRobinCount

AdvanceCounter(seen) ==
    roundRobinCount' =
        IF selectionMode \in {"RoundRobin", "PriorityLevel"} /\ Living(seen) # {}
        THEN [roundRobinCount EXCEPT ![CounterOf(seen)] = (@ + 1) % CounterSize]
        ELSE roundRobinCount

-----------------------------------------------------------------------------
Procs == Users \union {Lease} \union Pool
Tiers == {0} \union {Order[n] : n \in Pool}
Fresh == [node |-> NoOne, seen |-> <<>>, i |-> 1]
NoInfo == [BlockNumber |-> 0, FinalizedBlockNumber |-> 0]

Init ==
    /\ \E s \in Setups :
          /\ selectionMode = s.mode
          /\ chain = s.chain
          /\ pc = [p \in Procs |-> IF p \in Users \ s.users THEN "absent" ELSE "idle"]
    /\ state = [n \in Pool |-> "Dialed"]
    /\ latest = [n \in Pool |-> NoInfo]
    /\ HighestUserObservations = 0
    /\ subs = {}
    /\ activeNode = NoOne
    /\ activeMu = NoOne
    /\ roundRobinCount = [t \in Tiers |-> 0]
    /\ local = [p \in Procs |-> Fresh]
    /\ lastRead = [u \in Users |-> 0]
    /\ panicked = FALSE

\* A panic ends the process, with all its goroutines.
At(p, label) == pc[p] = label /\ ~ panicked
Goto(p, label) == pc' = [pc EXCEPT ![p] = label]
SetLocal(p, l) == local' = [local EXCEPT ![p] = l]

-----------------------------------------------------------------------------
(* selectNode and awaitNodeSelection.                                       *)

SelectNode(u) ==
    /\ At(u, "idle")
    /\ Goto(u, IF selectionMode = "RandomRPC" THEN "select" ELSE "read")
    /\ UNCHANGED <<selectionMode, nodeVars, poolVars, local, lastRead, panicked>>

ReadActive(u) ==
    /\ At(u, "read") /\ activeMu = NoOne
    /\ SetLocal(u, [Fresh EXCEPT !.node = activeNode])
    /\ Goto(u, "check")
    /\ UNCHANGED <<selectionMode, nodeVars, poolVars, lastRead, panicked>>

CheckActive(u) ==
    /\ At(u, "check")
    /\ IF local[u].node # NoOne /\ Alive(local[u].node)
       THEN Goto(u, "use") /\ UNCHANGED local
       ELSE Goto(u, "lock") /\ SetLocal(u, Fresh)
    /\ UNCHANGED <<selectionMode, nodeVars, poolVars, lastRead, panicked>>

\* Another goroutine may have replaced the node; if not, its users are cut off.
LockActive(u) ==
    /\ At(u, "lock") /\ activeMu = NoOne
    /\ IF activeNode # NoOne /\ Alive(activeNode)
       THEN /\ SetLocal(u, [Fresh EXCEPT !.node = activeNode])
            /\ Goto(u, "use")
            /\ UNCHANGED <<activeMu, subs>>
       ELSE /\ activeMu' = u
            /\ subs' = subs \ {activeNode}
            /\ Goto(u, "select")
            /\ UNCHANGED local
    /\ UNCHANGED <<selectionMode, nodeVars, activeNode, roundRobinCount, lastRead,
                   panicked>>

\* Select reads one more node.  RandomRPC cuts off the users of a dead one.
ScanNode(p) ==
    LET l == local[p]
        n == Nodes[Len(l.seen) + 1]
    IN /\ At(p, "select") /\ Len(l.seen) < Len(Nodes)
       /\ SetLocal(p, [l EXCEPT !.seen = Append(@, StateAndLatest(n))])
       /\ subs' = IF selectionMode = "RandomRPC" /\ ~ Alive(n) THEN subs \ {n} ELSE subs
       /\ UNCHANGED <<selectionMode, nodeVars, activeNode, activeMu, roundRobinCount,
                      pc, lastRead, panicked>>

\* Fault: the mutex stays locked when there is no node.
ReturnLocked(u, n) ==
    /\ IF selectionMode = "RandomRPC"
       THEN UNCHANGED <<activeNode, activeMu>>
       ELSE activeNode' = n /\ activeMu' = (IF n = NoOne THEN activeMu ELSE NoOne)
    /\ SetLocal(u, [Fresh EXCEPT !.node = n])
    /\ Goto(u, IF n = NoOne THEN "idle" ELSE "use")

\* awaitNodeSelection and selectNode return n, or nil with an error.
Return(u, n) ==
    /\ IF selectionMode = "RandomRPC"
       THEN UNCHANGED <<activeNode, activeMu>>
       ELSE activeNode' = n /\ activeMu' = NoOne
    /\ SetLocal(u, [Fresh EXCEPT !.node = n])
    /\ Goto(u, IF n = NoOne THEN "idle" ELSE "use")

Selected(u) ==
    LET seen == local[u].seen
    IN /\ At(u, "select") /\ Len(seen) = Len(Nodes)
       /\ IF Select(seen) = {}
          THEN /\ SetLocal(u, Fresh)
               /\ Goto(u, "init")
               /\ UNCHANGED <<activeNode, activeMu>>
          ELSE \E i \in Select(seen) : Return(u, Nodes[i])
       /\ AdvanceCounter(seen)
       /\ UNCHANGED <<selectionMode, nodeVars, subs, lastRead, panicked>>

\* Is some node still initializing?  If none is, there is no node to wait for.
ScanInitializing(u) ==
    LET l == local[u]
    IN /\ At(u, "init")
       /\ IF l.i > Len(Nodes) THEN Return(u, NoOne)
          ELSE /\ UNCHANGED <<activeNode, activeMu>>
               /\ IF isInitializing(Nodes[l.i])
                  THEN Goto(u, "wait") /\ SetLocal(u, Fresh)
                  ELSE UNCHANGED pc /\ SetLocal(u, [l EXCEPT !.i = @ + 1])
       /\ UNCHANGED <<selectionMode, nodeVars, subs, roundRobinCount, lastRead, panicked>>

WaitOver(u) ==
    /\ At(u, "wait")
    /\ Goto(u, "select")
    /\ UNCHANGED <<selectionMode, nodeVars, poolVars, local, lastRead, panicked>>

ContextDone(u) ==
    /\ At(u, "wait")
    /\ Return(u, NoOne)
    /\ UNCHANGED <<selectionMode, nodeVars, subs, roundRobinCount, lastRead, panicked>>

-----------------------------------------------------------------------------
(* What a user does with the RPC it was given, see RPCClientBase: a read     *)
(* counts as an observation, and as the latest chain info if the connection  *)
(* is still the one it was sent on.                                          *)

SetReadNumber(info, v) ==
    IF FinalityTagEnabled THEN [info EXCEPT !.FinalizedBlockNumber = v]
    ELSE [info EXCEPT !.BlockNumber = v]

Done(u) == Goto(u, "idle") /\ SetLocal(u, Fresh)

Read(u) ==
    LET n == local[u].node
        v == ReadBlock(chain[n])
    IN /\ At(u, "use")
       /\ lastRead' = [lastRead EXCEPT ![u] = v]
       /\ HighestUserObservations' = Larger(HighestUserObservations, v)
       /\ \E info \in {latest[n], SetReadNumber(latest[n], v)} :
             latest' = [latest EXCEPT ![n] = info]
       /\ Done(u)
       /\ UNCHANGED <<selectionMode, chain, state, poolVars, panicked>>

Subscribe(u) ==
    /\ At(u, "use")
    /\ subs' = subs \union {local[u].node}
    /\ Done(u)
    /\ UNCHANGED <<selectionMode, nodeVars, activeNode, activeMu, roundRobinCount,
                   lastRead, panicked>>

-----------------------------------------------------------------------------
(* checkLeaseLoop and checkLease.                                           *)

LeaseTick ==
    /\ At(Lease, "idle") /\ selectionMode \notin {"RoundRobin", "RandomRPC"}
    /\ Goto(Lease, "select")
    /\ UNCHANGED <<selectionMode, nodeVars, poolVars, local, lastRead, panicked>>

LeaseSelected ==
    LET seen == local[Lease].seen
    IN /\ At(Lease, "select") /\ Len(seen) = Len(Nodes)
       /\ IF Select(seen) = {} THEN SetLocal(Lease, Fresh)
          ELSE \E i \in Select(seen) : SetLocal(Lease, [Fresh EXCEPT !.node = Nodes[i]])
       /\ Goto(Lease, "unsubscribe")
       /\ AdvanceCounter(seen)
       /\ UNCHANGED <<selectionMode, nodeVars, subs, activeNode, activeMu, lastRead,
                      panicked>>

\* The users of every live node other than the best are cut off, node by node.
LeaseUnsubscribe ==
    LET l == local[Lease]
        n == Nodes[l.i]
    IN /\ At(Lease, "unsubscribe")
       /\ subs' = IF Alive(n) /\ n # l.node THEN subs \ {n} ELSE subs
       /\ SetLocal(Lease, [l EXCEPT !.i = @ + 1])
       /\ Goto(Lease, IF l.i = Len(Nodes) THEN "switch" ELSE "unsubscribe")
       /\ UNCHANGED <<selectionMode, nodeVars, activeNode, activeMu, roundRobinCount,
                      lastRead, panicked>>

\* Fault: the better node is found but only assigned when there is none.
LeaseSwitchFirstOnly ==
    LET best == local[Lease].node
    IN /\ At(Lease, "switch") /\ activeMu = NoOne
       /\ panicked' = (activeNode # NoOne /\ best = NoOne)
       /\ subs' = IF best # activeNode THEN subs \ {activeNode} ELSE subs
       /\ activeNode' = IF activeNode = NoOne THEN best ELSE activeNode
       /\ Goto(Lease, "idle") /\ SetLocal(Lease, Fresh)
       /\ UNCHANGED <<selectionMode, nodeVars, activeMu, roundRobinCount, lastRead>>

\* The log line calls String on both nodes: a nil best node panics.
LeaseSwitch ==
    LET best == local[Lease].node
    IN /\ At(Lease, "switch") /\ activeMu = NoOne
       /\ panicked' = (activeNode # NoOne /\ best = NoOne)
       /\ subs' = IF best # activeNode THEN subs \ {activeNode} ELSE subs
       /\ activeNode' = best
       /\ Goto(Lease, "idle") /\ SetLocal(Lease, Fresh)
       /\ UNCHANGED <<selectionMode, nodeVars, activeMu, roundRobinCount, lastRead>>

-----------------------------------------------------------------------------
(* The node's side, see NodeLifecycle.                                      *)

ChainGrows(n) ==
    /\ chain[n] < MaxBlock
    /\ chain' = [chain EXCEPT ![n] = @ + 1]
    /\ UNCHANGED <<selectionMode, state, latest, HighestUserObservations, poolVars, pc,
                   local, lastRead, panicked>>

\* A health check's answer, perhaps a late one, for the head or the finalized block.
HealthCheck(n) ==
    /\ state[n] # "Dialed" /\ ~ panicked
    /\ \E h \in 0..chain[n] :
         \/ latest' = [latest EXCEPT ![n].BlockNumber = h]
         \/ /\ FinalityTagEnabled
            /\ latest' = [latest EXCEPT ![n].FinalizedBlockNumber = Finalized(h)]
    /\ UNCHANGED <<selectionMode, chain, state, HighestUserObservations, poolVars, pc,
                   local, lastRead, panicked>>

\* rpc.Close: the connection's chain info is forgotten, its subscriptions end.
Down(n) ==
    /\ state' = [state EXCEPT ![n] = "Down"]
    /\ latest' = [latest EXCEPT ![n] = NoInfo]
    /\ subs' = subs \ {n}

\* unreachableLoop dials again; initialising succeeds or fails; a node that was
\* out of sync is back.
StateChange(n) ==
    /\ At(n, "idle")
    /\ \/ /\ state[n] = "Down"
          /\ state' = [state EXCEPT ![n] = "Dialed"]
          /\ UNCHANGED <<latest, subs>>
       \/ /\ state[n] \in {"Dialed", "Down"}
          /\ state' = [state EXCEPT ![n] = "Alive"]
          /\ UNCHANGED <<latest, subs>>
       \/ Down(n)
    /\ UNCHANGED <<selectionMode, chain, HighestUserObservations, activeNode, activeMu,
                   roundRobinCount, pc, local, lastRead, panicked>>

\* aliveLoop finds its node failing and asks LatestChainInfo how many others live:
\* without one (for the finalized state, two) it stays, unless its URL is a load
\* balancer.
nLiveNodes(n) == Cardinality({m \in Pool \ {n} : Alive(m)})

CheckOthers(n) ==
    /\ state[n] = "Alive" /\ At(n, "idle")
    /\ nLiveNodes(n) >= 1 \/ n \in LoadBalanced
    /\ Goto(n, "declare")
    /\ UNCHANGED <<selectionMode, nodeVars, poolVars, local, lastRead, panicked>>

Declare(n) ==
    /\ At(n, "declare")
    /\ Down(n)
    /\ Goto(n, "idle")
    /\ UNCHANGED <<selectionMode, chain, HighestUserObservations, activeNode, activeMu,
                   roundRobinCount, local, lastRead, panicked>>

-----------------------------------------------------------------------------
UserStep(u) ==
    \/ ReadActive(u)
    \/ CheckActive(u)
    \/ LockActive(u)
    \/ ScanNode(u)
    \/ Selected(u)
    \/ ScanInitializing(u)
    \/ WaitOver(u)

LeaseStep ==
    \/ LeaseTick
    \/ ScanNode(Lease)
    \/ LeaseSelected
    \/ LeaseUnsubscribe
    \/ LeaseSwitch

\* Everything but the count that a node makes of the others before it leaves.
PoolNext ==
    \/ \E u \in Users : \/ SelectNode(u)
                        \/ UserStep(u)
                        \/ ContextDone(u)
                        \/ Read(u)
                        \/ Subscribe(u)
    \/ LeaseStep
    \/ \E n \in Pool : \/ ChainGrows(n)
                       \/ HealthCheck(n)
                       \/ StateChange(n)

Next == PoolNext \/ \E n \in Pool : CheckOthers(n) \/ Declare(n)

Spec == Init /\ [][Next]_vars

\* Goroutines run, the mutex is granted to a user who keeps waiting for it, the lease
\* ticker ticks, and the context of a user who waits for a node ends at some time.
Fairness ==
    /\ \A u \in Users : SF_vars(UserStep(u))
    /\ SF_vars(\E u \in Users : ContextDone(u))
    /\ WF_vars(LeaseStep)

\* A node that leaves after it has counted the others leaves as StateChange lets it
\* leave at any time, so PoolNext has every behaviour of the pool.
LiveSpec == Init /\ [][PoolNext]_vars /\ Fairness

-----------------------------------------------------------------------------
Info == [BlockNumber : Nat, FinalizedBlockNumber : Nat]
Reading == [alive : BOOLEAN, value : Nat]
Local == [node : Pool \union {NoOne}, seen : Seq(Reading), i : Nat]

\* The variables hold values of the types that the Go fields have.
TypeOK ==
    /\ selectionMode \in Modes
    /\ chain \in [Pool -> Nat]
    /\ state \in [Pool -> {"Dialed", "Alive", "Down"}]
    /\ latest \in [Pool -> Info]
    /\ HighestUserObservations \in Nat
    /\ subs \subseteq Pool
    /\ activeNode \in Pool \union {NoOne}
    /\ activeMu \in Users \union {NoOne}
    /\ roundRobinCount \in [Tiers -> 0..CounterSize - 1]
    /\ pc \in [Procs -> {"absent", "idle", "read", "check", "lock", "select", "init", "wait", "use",
                         "unsubscribe", "switch", "declare"}]
    /\ local \in [Procs -> Local]
    /\ lastRead \in [Users -> Nat]
    /\ panicked \in BOOLEAN

\* EnforceRepeatableRead: whichever nodes selectNode hands to a user one after the
\* other, and whatever other users, the lease check and the nodes do in between, a
\* block number the user reads is at most FinalizedBlockOffset below the one before.
RepeatableRead ==
    [][EnforceRepeatableRead =>
          \A u \in Users : lastRead'[u] >= lastRead[u] - FinalizedBlockOffset]_vars

\* awaitNodeSelection waits for nodes while it holds activeMu, for which every other
\* caller and the lease check wait.  Every user in selectNode nevertheless gets a
\* node or an error, again and again.
SelectReturns ==
    \A u \in Users : []<>(pc[u] \in {"absent", "idle", "use"} \/ panicked)

\* What a selector would read of the pool as it is, and the nodes that it would
\* return then, whatever its counter.
Readings == [i \in DOMAIN Nodes |-> StateAndLatest(Nodes[i])]

BestNodes ==
    LET seen == Readings
        best == CASE selectionMode = "HighestHead" ->
                        firstOrHighestPriority(HighestHeads(seen))
                  [] selectionMode = "TotalDifficulty" ->
                        firstOrHighestPriority(HighestDifficulties(seen))
                  [] OTHER -> Tier(seen)
    IN {Nodes[i] : i \in best}

HasLease == selectionMode \notin {"RoundRobin", "RandomRPC"}

\* checkLease: once the readings of the nodes stay the same, one of the best nodes
\* becomes and stays the active node, and no user stays subscribed to any other live
\* node, however the check interleaves with selectNode and with users that hold an
\* older choice.  (It is not enough that the best nodes stay the same: a node that
\* comes and goes may be taken for the best again and again, because the selector
\* compares what it reads of two nodes at different times.)
LeaseConverges ==
    (<>[](HasLease /\ BestNodes # {}) /\ <>[][Readings' = Readings]_vars)
      => <>[](\/ panicked
              \/ /\ activeNode \in BestNodes
                 /\ \A n \in subs : Alive(n) => n \in BestNodes)

\* The counters of the priority-level selector, wrapping around at CounterSize: once
\* the best tier stays the same, each of its nodes is active again and again.
RotationServesAll ==
    (/\ <>[](selectionMode = "PriorityLevel" /\ Cardinality(BestNodes) > 1)
     /\ <>[][BestNodes' = BestNodes]_vars)
      => \A n \in Pool : []<>(activeNode = n \/ n \notin BestNodes \/ panicked)

-----------------------------------------------------------------------------
(* What the comments promise and the code does not keep *)

\* node_selector.go:19, "Select returns a Node, or nil if none can be selected": the
\* lease check survives a pool without any live node.
LeaseNeverPanics == ~ panicked

\* types.go:97-98, "so we can prevent the last alive node in a pool from being moved
\* to out-of-sync state": a node that counted the others before it left does not leave
\* the pool without a live node.
LastLiveNodeKept ==
    [][\A n \in Pool \ LoadBalanced :
          pc[n] = "declare" /\ state[n] = "Alive" /\ state'[n] = "Down"
            => \E m \in Pool \ {n} : state[m] = "Alive"]_vars

=============================================================================
