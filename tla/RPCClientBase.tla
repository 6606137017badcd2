---------------------------- MODULE RPCClientBase ----------------------------
(***************************************************************************)
(* The chain-agnostic RPC client every chain integration inherits from     *)
(* (multinode/rpc_client_base.go), with the Poller (multinode/poller.go)   *)
(* that implements its head subscriptions.                                 *)
(*                                                                         *)
(* Three kinds of goroutine share one RPCClientBase.                       *)
(*   Clients  call LatestBlock, LatestFinalizedBlock, SubscribeToHeads,    *)
(*            SubscribeToFinalizedHeads and Unsubscribe.                   *)
(*   Closers  call Close and UnsubscribeAllExcept.                         *)
(*   Pollers  are the polling goroutines, one per subscription; each calls *)
(*            LatestBlock or LatestFinalizedBlock at every tick.           *)
(* A step is what a goroutine does between two points where another one    *)
(* can observe or disturb it: a mutex, a channel, a remote call.           *)
(*                                                                         *)
(* lifeCycleCh is the number of the current life cycle: channel n is       *)
(* closed exactly when n < lifeCycle.                                      *)
(***************************************************************************)
EXTENDS Integers, FiniteSets

CONSTANTS
    Clients, Closers, Pollers,    \* the goroutines
    NoOne,                        \* no goroutine: a free mutex, no subscription
    Kinds,                        \* what is asked for: "head", "finalized"
    Heads,                        \* the valid heads a remote may report
    MaxLifeCycle,                 \* bound on the number of life cycles
    NewHeadsPollInterval, FinalizedBlockPollInterval

Requesters == Clients \union Pollers
Procs == Clients \union Closers \union Pollers

ASSUME ConfigAssumption ==
    /\ Clients \intersect Closers = {}
    /\ Clients \intersect Pollers = {}
    /\ Closers \intersect Pollers = {}
    /\ NoOne \notin Procs
    /\ Kinds \subseteq {"head", "finalized"} /\ Kinds # {}
    /\ Heads \subseteq [number : Nat \ {0}, difficulty : Nat]
    /\ MaxLifeCycle \in Nat
    /\ NewHeadsPollInterval \in Nat
    /\ FinalizedBlockPollInterval \in Nat

VARIABLES
    lifeCycle,                \* m.lifeCycleCh
    subs,                     \* m.subs: the registered subscriptions
    subsMu, chainInfoLock,    \* the goroutine that holds the mutex, or NoOne
    latestChainInfo,          \* m.latestChainInfo
    highestUserObservations,  \* m.highestUserObservations
    poller,                   \* the service state of each Poller
    pc, local,                \* where each goroutine is, and its variables
    panicked,                 \* a goroutine dereferenced nil: the process died
    \* History, read by no action:
    latestFrom,               \* the life cycles of the requests behind latestChainInfo
    userSaw                   \* the highest heads returned to user requests

sync == <<subsMu, chainInfoLock>>
info == <<latestChainInfo, highestUserObservations, latestFrom, userSaw>>
vars == <<lifeCycle, subs, sync, info, poller, pc, local, panicked>>

\* A difficulty d is written d + 1, and nil is written 0.
NilDifficulty == 0
ChainInfo ==
    [BlockNumber : Nat, FinalizedBlockNumber : Nat, TotalDifficulty : Nat]

NoChainInfo ==
    [BlockNumber |-> 0, FinalizedBlockNumber |-> 0, TotalDifficulty |-> NilDifficulty]
NoHead == [number |-> 0, difficulty |-> NilDifficulty]

Fresh ==
    [kind |-> CHOOSE k \in Kinds : TRUE, health |-> FALSE, ch |-> 0, head |-> NoHead,
     sub |-> NoOne, managed |-> FALSE, closing |-> FALSE, keep |-> {},
     todo |-> {}, owed |-> {}]

\* Where a goroutine can be.  A Client or a Closer that is in none of this
\* client's methods is "idle".
Places ==
    {"idle", "call", "intercept", "store",
     "register", "insert", "subscribed", "stop", "wait", "remove", "rejected",
     "collect", "unlock", "unsubscribing", "reset",
     "select", "deliver", "exited"}

Init ==
    /\ lifeCycle = 0
    /\ subs = {}
    /\ subsMu = NoOne
    /\ chainInfoLock = NoOne
    /\ latestChainInfo = NoChainInfo
    /\ highestUserObservations = NoChainInfo
    /\ poller = [q \in Pollers |-> "unused"]
    /\ pc = [p \in Procs |-> "idle"]
    /\ local = [p \in Procs |-> Fresh]
    /\ panicked = FALSE
    /\ latestFrom = [k \in Kinds |-> 0]
    /\ userSaw = [k \in Kinds |-> 0]

At(p, l) == ~panicked /\ pc[p] = l
Goto(p, l) == pc' = [pc EXCEPT ![p] = l] /\ UNCHANGED local
GotoWith(p, l, r) == pc' = [pc EXCEPT ![p] = l] /\ local' = [local EXCEPT ![p] = r]
Closed(ch) == ch < lifeCycle

\* A method of the client returns to the code that called it; a subscriber
\* keeps the subscription it got.
Return(p) == GotoWith(p, "idle", Fresh)

-----------------------------------------------------------------------------
(***************************************************************************)
(* LatestBlock and LatestFinalizedBlock.                                   *)
(***************************************************************************)

MaxTotalDifficulty(a, b) ==
    IF a = NilDifficulty THEN b
    ELSE IF b = NilDifficulty \/ a >= b THEN a ELSE b

MaxNumber(a, b) == IF a >= b THEN a ELSE b

\* AcquireQueryCtx, at the start of a request: the life cycle it belongs to.
AcquireQueryCtx(p, k, health) ==
    GotoWith(p, "call",
             [local[p] EXCEPT !.kind = k, !.health = health, !.ch = lifeCycle])

LatestBlock(p, k, health) ==
    /\ At(p, "idle")
    /\ AcquireQueryCtx(p, k, health)
    /\ UNCHANGED <<lifeCycle, subs, sync, info, poller, panicked>>

\* What p does when its LatestBlock has returned: a Client is done, a polling
\* goroutine delivers a head, or logs an error and waits for the next tick.
Returned(p, ok) ==
    IF p \in Pollers
      THEN GotoWith(p, IF ok THEN "deliver" ELSE "select",
                    [Fresh EXCEPT !.kind = local[p].kind, !.health = local[p].health])
      ELSE Return(p)

\* The remote answers with an error or an invalid head, or the context of the
\* request ends: its timeout, its caller's, or the end of the life cycle.
LatestBlockFails(p) ==
    /\ At(p, "call")
    /\ Returned(p, FALSE)
    /\ UNCHANGED <<lifeCycle, subs, sync, info, poller, panicked>>

LatestBlockAnswers(p) ==
    /\ At(p, "call")
    /\ \E h \in Heads : GotoWith(p, "intercept", [local[p] EXCEPT !.head = h])
    /\ UNCHANGED <<lifeCycle, subs, sync, info, poller, panicked>>

\* The highest observations, after a user request for heads of kind k saw h.
Observed(k, h) ==
    IF k = "head"
      THEN [highestUserObservations EXCEPT
              !.BlockNumber = MaxNumber(@, h.number),
              !.TotalDifficulty = MaxTotalDifficulty(@, h.difficulty)]
      ELSE [highestUserObservations EXCEPT
              !.FinalizedBlockNumber = MaxNumber(@, h.number)]

Seen(p) ==
    IF local[p].health
      THEN userSaw
      ELSE [userSaw EXCEPT ![local[p].kind] = MaxNumber(@, local[p].head.number)]

\* Fault: a request of an earlier life cycle returns before it is observed.
OnNewHeadStaleFirst(p) ==
    /\ At(p, "intercept")
    /\ chainInfoLock = NoOne
    /\ IF Closed(local[p].ch)
         THEN /\ Returned(p, TRUE)
              /\ userSaw' = Seen(p)
              /\ UNCHANGED <<chainInfoLock, highestUserObservations>>
         ELSE /\ chainInfoLock' = p
              /\ Goto(p, "store")
              /\ highestUserObservations' =
                   IF local[p].health THEN highestUserObservations
                   ELSE Observed(local[p].kind, local[p].head)
              /\ UNCHANGED userSaw
    /\ UNCHANGED <<lifeCycle, subs, subsMu, latestChainInfo, latestFrom, poller,
                   panicked>>

\* Fault: the life cycle of the request is not looked at.
OnNewHeadAnyLifeCycle(p) ==
    /\ At(p, "intercept")
    /\ chainInfoLock = NoOne
    /\ highestUserObservations' =
         IF local[p].health THEN highestUserObservations
         ELSE Observed(local[p].kind, local[p].head)
    /\ chainInfoLock' = p
    /\ Goto(p, "store")
    /\ UNCHANGED <<lifeCycle, subs, subsMu, latestChainInfo, latestFrom, userSaw,
                   poller, panicked>>

\* OnNewHead and OnNewFinalizedHead up to the select on the request's channel.
\* A request whose life cycle is over is observed, then returns at once.
OnNewHead(p) ==
    /\ At(p, "intercept")
    /\ chainInfoLock = NoOne
    /\ highestUserObservations' =
         IF local[p].health THEN highestUserObservations
         ELSE Observed(local[p].kind, local[p].head)
    /\ IF Closed(local[p].ch)
         THEN /\ Returned(p, TRUE)
              /\ userSaw' = Seen(p)
              /\ UNCHANGED chainInfoLock
         ELSE /\ Goto(p, "store")
              /\ chainInfoLock' = p
              /\ UNCHANGED userSaw
    /\ UNCHANGED <<lifeCycle, subs, subsMu, latestChainInfo, latestFrom, poller,
                   panicked>>

\* The rest of it: the life cycle may end between the select and this store.
StoreLatest(p) ==
    LET h == local[p].head IN
    /\ At(p, "store")
    /\ latestChainInfo' =
         IF local[p].kind = "head"
           THEN [latestChainInfo EXCEPT !.BlockNumber = h.number,
                                        !.TotalDifficulty = h.difficulty]
           ELSE [latestChainInfo EXCEPT !.FinalizedBlockNumber = h.number]
    /\ latestFrom' = [latestFrom EXCEPT ![local[p].kind] = local[p].ch]
    /\ chainInfoLock' = NoOne
    /\ userSaw' = Seen(p)
    /\ Returned(p, TRUE)
    /\ UNCHANGED <<lifeCycle, subs, subsMu, highestUserObservations, poller,
                   panicked>>

-----------------------------------------------------------------------------
(***************************************************************************)
(* Poller: Close is services.Engine's, which ends the context of the       *)
(* polling goroutine, waits for it to exit and then runs Poller.close; a   *)
(* second Close returns at once.                                           *)
(***************************************************************************)

\* A tick: the request belongs to the life cycle current at the tick, and is a
\* health check when the subscription was asked for by one.
PollTick(q) ==
    /\ At(q, "select")
    /\ AcquireQueryCtx(q, local[q].kind, local[q].health)
    /\ UNCHANGED <<lifeCycle, subs, sync, info, poller, panicked>>

\* The subscriber receives the head.
PollDeliver(q) ==
    /\ At(q, "deliver")
    /\ Goto(q, "select")
    /\ UNCHANGED <<lifeCycle, subs, sync, info, poller, panicked>>

\* Its context is done: at the tick, or while a head waits to be received.
PollExit(q) ==
    /\ ~panicked
    /\ pc[q] \in {"select", "deliver"}
    /\ poller[q] = "stopping"
    /\ GotoWith(q, "exited", Fresh)
    /\ UNCHANGED <<lifeCycle, subs, sync, info, poller, panicked>>

\* Poller.Unsubscribe, called by p on its subscription local[p].sub.
PollerClose(p) ==
    LET q == local[p].sub IN
    /\ At(p, "stop")
    /\ IF poller[q] = "running"
         THEN poller' = [poller EXCEPT ![q] = "stopping"] /\ Goto(p, "wait")
         ELSE /\ Goto(p, IF local[p].managed THEN "remove" ELSE "rejected")
              /\ UNCHANGED poller
    /\ UNCHANGED <<lifeCycle, subs, sync, info, panicked>>

PollerClosed(p) ==
    LET q == local[p].sub IN
    /\ At(p, "wait")
    /\ pc[q] = "exited"
    /\ poller' = [poller EXCEPT ![q] = "closed"]
    /\ Goto(p, IF local[p].managed THEN "remove" ELSE "rejected")
    /\ UNCHANGED <<lifeCycle, subs, sync, info, panicked>>

-----------------------------------------------------------------------------
(***************************************************************************)
(* Subscriptions.                                                          *)
(***************************************************************************)

PollInterval(k) ==
    IF k = "head" THEN NewHeadsPollInterval ELSE FinalizedBlockPollInterval

\* SubscribeToHeads and SubscribeToFinalizedHeads up to RegisterSub: note the
\* life cycle and start a Poller.
Subscribe(p, k, health) ==
    /\ At(p, "idle")
    /\ PollInterval(k) > 0
    /\ \E q \in Pollers :
         /\ poller[q] = "unused"
         /\ poller' = [poller EXCEPT ![q] = "running"]
         /\ pc' = [pc EXCEPT ![p] = "register", ![q] = "select"]
         /\ local' = [local EXCEPT
                        ![p] = [Fresh EXCEPT !.kind = k, !.ch = lifeCycle, !.sub = q],
                        ![q] = [Fresh EXCEPT !.kind = k, !.health = health]]
    /\ UNCHANGED <<lifeCycle, subs, sync, info, panicked>>

\* RegisterSub looks whether the life cycle is over, and stops the Poller then.
RegisterSub(p) ==
    /\ At(p, "register")
    /\ Goto(p, IF Closed(local[p].ch) THEN "stop" ELSE "insert")
    /\ UNCHANGED <<lifeCycle, subs, sync, info, poller, panicked>>

\* It then adds the subscription, without looking again.
AddSub(p) ==
    /\ At(p, "insert")
    /\ subsMu = NoOne
    /\ subs' = subs \union {local[p].sub}
    /\ GotoWith(p, "subscribed", [Fresh EXCEPT !.sub = local[p].sub, !.managed = TRUE])
    /\ UNCHANGED <<lifeCycle, sync, info, poller, panicked>>

\* RegisterSub returned an error and a nil *ManagedSubscription.
\* SubscribeToHeads calls Unsubscribe on it; SubscribeToFinalizedHeads stops
\* the Poller once more, which changes nothing.
SubscribeFails(p) ==
    /\ At(p, "rejected")
    /\ IF local[p].kind = "head"
         THEN panicked' = TRUE /\ UNCHANGED <<pc, local>>
         ELSE Return(p) /\ UNCHANGED panicked
    /\ UNCHANGED <<lifeCycle, subs, sync, info, poller>>

\* The subscriber calls ManagedSubscription.Unsubscribe.
Unsubscribe(p) ==
    /\ At(p, "subscribed")
    /\ Goto(p, "stop")
    /\ UNCHANGED <<lifeCycle, subs, sync, info, poller, panicked>>

\* Fault: the callback that forgets the subscription is not called.
RemoveSubForgotten(p) ==
    /\ At(p, "remove")
    /\ subsMu = NoOne
    /\ IF p \in Closers THEN Goto(p, "unsubscribing") ELSE Return(p)
    /\ UNCHANGED <<lifeCycle, subs, sync, info, poller, panicked>>

\* removeSub, the onUnsubscribe callback of ManagedSubscription.
RemoveSub(p) ==
    /\ At(p, "remove")
    /\ subsMu = NoOne
    /\ subs' = subs \ {local[p].sub}
    /\ IF p \in Closers THEN Goto(p, "unsubscribing") ELSE Return(p)
    /\ UNCHANGED <<lifeCycle, sync, info, poller, panicked>>

-----------------------------------------------------------------------------
(***************************************************************************)
(* Close and UnsubscribeAllExcept.                                         *)
(***************************************************************************)

UnsubscribeAllExcept(x, keep) ==
    /\ At(x, "idle")
    /\ GotoWith(x, "collect", [Fresh EXCEPT !.keep = keep])
    /\ UNCHANGED <<lifeCycle, subs, sync, info, poller, panicked>>

\* Close, first part: CancelLifeCycle.
Close(x) ==
    /\ At(x, "idle")
    /\ lifeCycle < MaxLifeCycle
    /\ lifeCycle' = lifeCycle + 1
    /\ GotoWith(x, "collect", [Fresh EXCEPT !.closing = TRUE, !.owed = subs])
    /\ UNCHANGED <<subs, sync, info, poller, panicked>>

CollectSubs(x) ==
    /\ At(x, "collect")
    /\ subsMu = NoOne
    /\ subsMu' = x
    /\ GotoWith(x, "unlock", [local[x] EXCEPT !.todo = subs \ local[x].keep, !.keep = {}])
    /\ UNCHANGED <<lifeCycle, subs, chainInfoLock, info, poller, panicked>>

\* Fault: the mutex is held until every subscription is closed.
UnlockSubsLate(x) ==
    /\ At(x, "unlock")
    /\ Goto(x, "unsubscribing")
    /\ UNCHANGED <<lifeCycle, subs, sync, info, poller, panicked>>

\* subsMu is released before any subscription is closed: removeSub needs it.
UnlockSubs(x) ==
    /\ At(x, "unlock")
    /\ subsMu' = NoOne
    /\ Goto(x, "unsubscribing")
    /\ UNCHANGED <<lifeCycle, subs, chainInfoLock, info, poller, panicked>>

UnsubscribeNext(x) ==
    /\ At(x, "unsubscribing")
    /\ \E q \in local[x].todo :
         GotoWith(x, "stop", [local[x] EXCEPT !.sub = q, !.managed = TRUE,
                                              !.todo = @ \ {q}])
    /\ UNCHANGED <<lifeCycle, subs, sync, info, poller, panicked>>

UnsubscribedAll(x) ==
    /\ At(x, "unsubscribing")
    /\ local[x].todo = {}
    /\ IF local[x].closing THEN Goto(x, "reset") ELSE Return(x)
    /\ UNCHANGED <<lifeCycle, subs, sync, info, poller, panicked>>

\* Close, last part.
ResetLatestChainInfo(x) ==
    /\ At(x, "reset")
    /\ chainInfoLock = NoOne
    /\ latestChainInfo' = NoChainInfo
    /\ latestFrom' = [k \in Kinds |-> lifeCycle]
    /\ Return(x)
    /\ UNCHANGED <<lifeCycle, subs, sync, highestUserObservations, userSaw, poller,
                   panicked>>

-----------------------------------------------------------------------------

Request(p) ==
    \/ LatestBlockFails(p)
    \/ LatestBlockAnswers(p)
    \/ OnNewHead(p)
    \/ StoreLatest(p)

Polling(q) == PollTick(q) \/ PollDeliver(q) \/ PollExit(q)

Stopping(p) == PollerClose(p) \/ PollerClosed(p) \/ RemoveSub(p)

Subscribing(p) == RegisterSub(p) \/ AddSub(p) \/ SubscribeFails(p)

Closing(x) ==
    \/ CollectSubs(x)
    \/ UnlockSubs(x)
    \/ UnsubscribeNext(x)
    \/ UnsubscribedAll(x)
    \/ ResetLatestChainInfo(x)

Next ==
    \/ \E p \in Clients, k \in Kinds, health \in BOOLEAN :
         LatestBlock(p, k, health) \/ Subscribe(p, k, health)
    \/ \E p \in Clients : Subscribing(p) \/ Unsubscribe(p)
    \/ \E p \in Requesters : Request(p)
    \/ \E q \in Pollers : Polling(q)
    \/ \E p \in Clients \union Closers : Stopping(p)
    \/ \E x \in Closers : Close(x) \/ Closing(x)
    \/ \E x \in Closers, keep \in SUBSET subs : UnsubscribeAllExcept(x, keep)

Spec == Init /\ [][Next]_vars

\* What a goroutine does by itself once it has entered a method.
Step(p) ==
    \/ p \in Requesters /\ Request(p)
    \/ p \in Clients /\ Subscribing(p)
    \/ p \in Closers /\ Closing(p)
    \/ p \in Clients \union Closers /\ Stopping(p)

\* Every goroutine that can run does; a request ends at its timeout; a Go mutex
\* starves nobody, and neither does a select between ready cases.
Fairness ==
    /\ \A p \in Procs : SF_vars(Step(p))
    /\ \A q \in Pollers : SF_vars(PollExit(q))

LiveSpec == Spec /\ Fairness

-----------------------------------------------------------------------------
(***************************************************************************)
(* Properties.                                                             *)
(***************************************************************************)

Local ==
    [kind : Kinds, health : BOOLEAN, ch : 0 .. MaxLifeCycle, head : Heads \union {NoHead},
     sub : Pollers \union {NoOne}, managed : BOOLEAN, closing : BOOLEAN,
     keep : SUBSET Pollers, todo : SUBSET Pollers, owed : SUBSET Pollers]

\* Every variable has its type.
TypeOK ==
    /\ lifeCycle \in 0 .. MaxLifeCycle
    /\ subs \subseteq Pollers
    /\ subsMu \in Closers \union {NoOne}
    /\ chainInfoLock \in Requesters \union {NoOne}
    /\ latestChainInfo \in ChainInfo
    /\ highestUserObservations \in ChainInfo
    /\ poller \in [Pollers -> {"unused", "running", "stopping", "closed"}]
    /\ pc \in [Procs -> Places]
    /\ local \in [Procs -> Local]
    /\ panicked \in BOOLEAN
    /\ latestFrom \in [Kinds -> 0 .. MaxLifeCycle]
    /\ userSaw \in [Kinds -> Nat]

\* Close has ended a life cycle and not yet reset the chain info.
Resetting(x) == pc[x] # "idle" /\ local[x].closing

\* latestChainInfo never outlives its life cycle: a request that began before
\* CancelLifeCycle and completes after it leaves nothing that the Close at work
\* does not wipe.  (OnNewHead's select on requestCh, and Close's order.)
LatestFromCurrentLifeCycle ==
    \A k \in Kinds :
        latestFrom[k] = lifeCycle \/ \E x \in Closers : Resetting(x)

Highest(k) ==
    IF k = "head" THEN highestUserObservations.BlockNumber
    ELSE highestUserObservations.FinalizedBlockNumber

\* The repeatable-read guarantee MultiNode builds on: a head returned to a user
\* request is in highestUserObservations already, whatever life cycle the
\* request belongs to, and nothing else is: health checks leave no trace.
\* (LatestBlock intercepts before it returns; Poller keeps the health flag.)
RepeatableRead ==
    \A k \in Kinds :
        /\ userSaw[k] <= Highest(k)
        /\ \/ Highest(k) = userSaw[k]
           \/ \E p \in Requesters :
                /\ pc[p] = "store" /\ ~local[p].health
                /\ local[p].kind = k /\ local[p].head.number = Highest(k)

\* No step lowers what users have observed: Close does not reset it.
HighestNeverDecreases ==
    [][/\ highestUserObservations'.BlockNumber >= highestUserObservations.BlockNumber
       /\ highestUserObservations'.FinalizedBlockNumber
            >= highestUserObservations.FinalizedBlockNumber
       /\ highestUserObservations'.TotalDifficulty
            >= highestUserObservations.TotalDifficulty]_vars

\* A Close that reaches its last step has stopped every subscription that was
\* registered when it began, even when another goroutine was unsubscribing some
\* of them at the same time.
CloseStopsSubscriptions ==
    \A x \in Closers : pc[x] = "reset" =>
        \A q \in local[x].owed : poller[q] \in {"stopping", "closed"}

\* The list of subscriptions and the polling goroutines agree: a closed Poller
\* is listed only while somebody is about to remove it, and a polling goroutine
\* that is not listed belongs to a subscriber still on its way.
SubsMatchPollers ==
    \A q \in Pollers :
        /\ q \in subs /\ poller[q] = "closed" =>
             \E p \in Clients \union Closers : pc[p] = "remove" /\ local[p].sub = q
        /\ q \notin subs /\ poller[q] = "running" =>
             \E p \in Clients :
               pc[p] \in {"register", "insert", "stop"} /\ local[p].sub = q

\* The list and the polling goroutines agree, and what was listed when a Close began is
\* stopped before that Close resets. A subscription that RegisterSub inserts after the
\* Close has read the list is not stopped by that Close (RegistersInLifeCycle is about
\* those): it is listed, and the next Close collects it.
SubsUnderControl == SubsMatchPollers /\ CloseStopsSubscriptions

\* Every Close and UnsubscribeAllExcept returns: no lock is held across a wait,
\* and a polling goroutine whose head nobody receives still stops.
CloseTerminates ==
    \A x \in Closers : pc[x] # "idle" ~> (pc[x] = "idle" \/ panicked)

-----------------------------------------------------------------------------
(* What the comments promise and the code does not keep *)

\* RegisterSub's comment: the subscription it adds belongs to the current life
\* cycle, or at least the Close that ended its own has yet to collect it.
RegistersInLifeCycle ==
    [][\A p \in Clients :
         pc[p] = "insert" /\ pc'[p] = "subscribed" =>
           ~Closed(local[p].ch) \/ \E x \in Closers : pc[x] = "collect" /\ local[x].closing
      ]_vars

\* Subscribing returns an error when the life cycle is over: it never panics.
SubscribeNeverPanics == ~panicked

=============================================================================
