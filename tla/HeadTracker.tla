---------------------------- MODULE HeadTracker ----------------------------
(***************************************************************************)
(* The head tracker of chains/heads: the listener, which keeps one         *)
(* subscription to new heads, the tracker, which saves the heads and hands *)
(* the highest to the broadcast and backfill mailboxes, and the backfill   *)
(* loop, which fetches missing parents and marks the finalized head.  The  *)
(* listener and the backfill loop are goroutines of their own; what becomes *)
(* of a head in the broadcast mailbox is in HeadBroadcaster.               *)
(*                                                                         *)
(* The saver, the client and the chain itself are outside the repository   *)
(* and are modelled from the interfaces the tracker uses.                  *)
(***************************************************************************)
EXTENDS Integers, FiniteSets, FiniteSetsExt

CONSTANTS Configs,          \* [tag, depth, offset] records
          TagDepth,         \* blocks below the tip the finality tag stands at
          MaxAllowedFinalityDepth,
          ForkAt,           \* number at which fork "b" leaves fork "a"
          Starts,           \* [tip, stored] records the tracker may start from
          MaxNum,           \* bound: highest block number
          MaxTrouble        \* bound: failed calls and broken subscriptions

(* Blocks are <<number, fork>>; fork "b" shares the blocks of "a" below     *)
(* ForkAt.                                                                 *)
Blocks == ((0..MaxNum) \X {"a"}) \cup ((ForkAt..MaxNum) \X {"b"})

\* The forks share the genesis block at least.
ASSUME ChainAssumption ==
    /\ Configs \subseteq [tag : BOOLEAN, depth : Nat, offset : Nat]
    /\ TagDepth \in Nat /\ MaxAllowedFinalityDepth \in Nat
    /\ ForkAt \in Nat \ {0} /\ MaxNum \in Nat /\ MaxTrouble \in Nat
    /\ Starts \subseteq [tip : Blocks, stored : SUBSET Blocks]

VARIABLES
    config,       \* the chain's configuration, fixed from the start
    tip,          \* external: the chain's latest block
    trouble,      \* failures so far
    stopped,      \* the tracker's context is cancelled
    lpc,          \* listener: where ListenForNewHeads is
    held,         \* listener: headSubscription is not nil
    open,         \* subscriptions the client holds open
    chHeaders,    \* the head waiting in the subscription's channel
    lhead,        \* handleNewHead: head and prevHead
    behind,       \* handleNewHead has set its finality violation condition
    saved,        \* saver: the heads it holds
    latestChain,  \* saver: the highest head seen
    finalized,    \* saver: the heads marked finalized
    stored,       \* external: the heads an earlier process left in the database
    backfillMB,   \* the single slot of the backfill mailbox
    bf,           \* backfill: where it is, its current head and its goal
    alarm,        \* backfill has set its finality violation condition
    sent          \* the last head delivered to broadcastMB

chain == <<config, tip, trouble, stopped, stored>>
listening == <<lpc, held, open, chHeaders, lhead, behind>>
saver == <<saved, latestChain, finalized>>
backfilling == <<backfillMB, bf, alarm>>
vars == <<chain, listening, saver, backfilling, sent>>

-----------------------------------------------------------------------------
(* The chain.                                                               *)

NoHead == <<-1, "none">>
Num(b) == b[1]

\* b and its ancestors.
On(b) == {c \in Blocks : /\ Num(c) <= Num(b)
                         /\ c[2] = b[2] \/ (c[2] = "a" /\ Num(c) < ForkAt)}

At(b, n) == CHOOSE c \in On(b) : Num(c) = n

\* What a node may answer for the latest block: nodes lag behind one another.
Latest == {At(tip, n) : n \in Max({Num(tip) - 1, 0})..Num(tip)}

\* instantFinality
instantFinality == ~config.tag /\ config.depth = 0 /\ config.offset = 0

\* Blocks this far below the tip are never reorganised away.
Irreversible == IF config.tag THEN TagDepth ELSE config.depth + config.offset

Grow ==
    /\ \E b \in Blocks \ {tip} :
          /\ Num(b) \in {Num(tip), Num(tip) + 1}
          /\ \A c \in On(tip) : Num(c) <= Num(tip) - Irreversible => c \in On(b)
          /\ tip' = b
    /\ UNCHANGED <<config, trouble, stopped, stored, listening, saver, backfilling,
                   sent>>

\* The subscription sends a head.
Emit(b) ==
    /\ open > 0 /\ chHeaders = NoHead
    /\ chHeaders' = b
    /\ UNCHANGED <<chain, lpc, held, open, lhead, behind, saver, backfilling,
                   sent>>

\* Whether a call fails; it may only while the bound on trouble allows it.
Fails(f) ==
    /\ f => trouble < MaxTrouble
    /\ trouble' = IF f THEN trouble + 1 ELSE trouble

-----------------------------------------------------------------------------
(* The saver.                                                               *)

\* Chain(h): h and the ancestors that can be reached over saved heads.
Chain(h) ==
    LET A == On(h) IN {c \in A : \A d \in A : Num(d) >= Num(c) => d \in saved}

LatestFinalizedHead(h) ==
    LET F == Chain(h) \cap finalized
    IN IF F = {} THEN NoHead ELSE CHOOSE c \in F : \A d \in F : Num(d) <= Num(c)

\* Save: the head is kept, and is the latest one if it is the highest.
Save(h) ==
    /\ saved' = saved \cup {h}
    /\ latestChain' = IF Num(h) > Num(latestChain) THEN h ELSE latestChain

\* Load: the heads of the database join the ones the saver holds, unmarked; the
\* history it loads reaches below all of them.
Load ==
    LET higher == {h \in stored : /\ Num(h) > Num(latestChain)
                                  /\ \A c \in stored : Num(c) <= Num(h)}
    IN /\ saved' = saved \cup stored
       /\ latestChain' \in IF higher = {} THEN {latestChain} ELSE higher

-----------------------------------------------------------------------------
\* The chain, and what an earlier process saw of it: blocks no higher than the
\* tip, of its own chain or of a fork abandoned while that was still possible.
InitChain ==
    /\ config \in Configs
    /\ \E s \in Starts : tip = s.tip /\ stored = s.stored
    /\ \A c \in stored :
          Num(c) <= Num(tip) /\ (c \in On(tip) \/ Num(c) < ForkAt + Irreversible)

Init ==
    /\ InitChain
    /\ trouble = 0
    /\ stopped = FALSE
    /\ lpc = "unsubscribe"
    /\ held = FALSE
    /\ open = 0
    /\ chHeaders = NoHead
    /\ lhead = [head |-> NoHead, prev |-> NoHead, initial |-> FALSE]
    /\ behind = FALSE
    /\ saved = {}
    /\ latestChain = NoHead
    /\ finalized = {}
    /\ backfillMB = [head |-> NoHead, prev |-> NoHead]
    /\ bf = [pc |-> "idle", head |-> NoHead, final |-> NoHead]
    /\ alarm = FALSE
    /\ sent = NoHead

NoLocals == [head |-> NoHead, prev |-> NoHead, initial |-> FALSE]

\* Close of the tracker cancels the context of its goroutines.
Stop ==
    /\ ~stopped
    /\ stopped' = TRUE
    /\ UNCHANGED <<config, tip, trouble, stored, listening, saver, backfilling,
                   sent>>

-----------------------------------------------------------------------------
(* The listener.                                                            *)

\* Fault: the old subscription is forgotten and stays open at the client.
unsubscribeForgets ==
    /\ held' = FALSE
    /\ open' = IF held /\ lpc = "receive" THEN open - 1 ELSE open
    /\ chHeaders' = NoHead

\* unsubscribe, and the channel goes with the subscription.
unsubscribe ==
    /\ held' = FALSE
    /\ open' = IF held THEN open - 1 ELSE open
    /\ chHeaders' = NoHead

\* The start of a turn of subscribe.
Unsubscribe ==
    /\ lpc = "unsubscribe"
    /\ unsubscribe
    /\ lpc' = "subscribe"
    /\ UNCHANGED <<chain, lhead, behind, saver, backfilling, sent>>

\* The select of subscribe when the backoff is over.
subscribeToHead ==
    /\ lpc = "subscribe"
    /\ \E f \in BOOLEAN :
          /\ Fails(f)
          /\ IF f
             THEN lpc' = "unsubscribe" /\ UNCHANGED <<held, open>>
             ELSE lpc' = "initial" /\ held' = TRUE /\ open' = open + 1
    /\ UNCHANGED <<config, tip, stopped, stored, chHeaders, lhead, behind, saver,
                   backfilling, sent>>

\* The goroutine's context is done: subscribe or receiveHeaders returns.
ListenerExits ==
    /\ stopped /\ lpc \in {"subscribe", "receive"}
    /\ unsubscribe
    /\ lpc' = "done"
    /\ UNCHANGED <<chain, lhead, behind, saver, backfilling, sent>>

\* receiveHeaders ends with an error: a closed channel or an error of the
\* subscription.
SubscriptionBreaks ==
    /\ lpc = "receive"
    /\ Fails(TRUE)
    /\ lpc' = "unsubscribe"
    /\ UNCHANGED <<config, tip, stopped, stored, held, open, chHeaders, lhead,
                   behind, saver, backfilling, sent>>

\* What handleNewHead does before it saves.  A head below the finalized one sets
\* the health condition, which the next head clears; the error makes the
\* listener subscribe again, except for the initial head, where it is only
\* logged.  A head that comes from the client is linked to no finalized one, so
\* the comparison of hashes has nothing to compare here.  It reads the saver as
\* Load has left it.
Check(h, initial) ==
    LET final == LatestFinalizedHead(latestChain)'
    IN IF final # NoHead /\ Num(h) < Num(final)
       THEN /\ behind' = TRUE
            /\ lpc' = IF initial THEN "receive" ELSE "unsubscribe"
            /\ lhead' = NoLocals
       ELSE /\ behind' = FALSE
            /\ lpc' = "save"
            /\ lhead' = [head |-> h, prev |-> latestChain', initial |-> initial]

\* handleInitialHead: any of its calls may fail, and the listener goes on.
handleInitialHead ==
    /\ lpc = "initial"
    /\ UNCHANGED <<config, tip, stopped, stored, held, open, chHeaders, finalized,
                   backfilling, sent>>
    /\ \E f \in BOOLEAN, h \in Latest :
          /\ Fails(f)
          /\ IF f
             THEN lpc' = "receive" /\ UNCHANGED <<lhead, behind, saved, latestChain>>
             ELSE Load /\ Check(h, TRUE)

receiveHeaders ==
    /\ lpc = "receive" /\ chHeaders # NoHead
    /\ UNCHANGED <<chain, held, open, saver, backfilling, sent>>
    /\ Check(chHeaders, FALSE)
    /\ chHeaders' = NoHead

\* Fault: a head of the same height as the previous one counts as new.
HighestOrEqual(h, prev) == Num(h) >= Num(prev) /\ h # prev

\* Whether the head just saved is a new highest one.
Highest(h, prev) == Num(h) > Num(prev)

\* handleNewHead from Save on; once the context is done nothing is handed on, and
\* a failure is no error.
handleNewHead ==
    /\ lpc = "save"
    /\ \E f \in BOOLEAN :
          /\ Fails(f)
          /\ IF f
             THEN /\ lpc' = IF lhead.initial \/ stopped THEN "receive" ELSE "unsubscribe"
                  /\ UNCHANGED <<saved, latestChain, backfillMB, sent>>
             ELSE /\ lpc' = "receive"
                  /\ Save(lhead.head)
                  /\ IF Highest(lhead.head, lhead.prev) /\ ~stopped
                     THEN /\ backfillMB' = [head |-> lhead.head, prev |-> lhead.prev]
                          /\ sent' = lhead.head
                     ELSE UNCHANGED <<backfillMB, sent>>
    /\ lhead' = NoLocals
    /\ UNCHANGED <<config, tip, stopped, stored, held, open, chHeaders, behind,
                   finalized, bf, alarm>>

-----------------------------------------------------------------------------
(* The backfill loop.                                                       *)

\* getHeadAtHeight: the head at height n of the chain of h, and the heads it
\* is linked to.  A head the client returns is linked to none.
getHeadAtHeight(h, n) ==
    LET c == At(h, n)
    IN IF c \in Chain(h) THEN [head |-> c, linked |-> Chain(c)]
       ELSE [head |-> At(tip, n), linked |-> {At(tip, n)}]

\* Fault: the finality depth is counted from the block after the head.
FinalizedNumberOffByOne(n, k) == Max({Min({n, n - k + 1}), 0})

FinalizedNumber(n, k) == Max({n - k, 0})

\* The block the finality tag names, at a node that may lag.
LatestFinalizedBlock == {At(tip, Max({Num(b) - TagDepth, 0})) : b \in Latest}

calculateLatestFinalized(h) ==
    IF config.tag
    THEN {IF config.offset = 0 THEN [head |-> f, linked |-> {f}]
          ELSE getHeadAtHeight(f, FinalizedNumber(Num(f), config.offset)) :
             f \in LatestFinalizedBlock}
    ELSE IF instantFinality THEN {[head |-> h, linked |-> Chain(h)]}
    ELSE {getHeadAtHeight(h, FinalizedNumber(Num(h), config.depth + config.offset))}

\* verifyFinalizedBlockHashes
Conflict(fin, prev) ==
    prev # NoHead /\ \E c \in fin.linked : Num(c) = Num(prev) /\ c # prev

Idle == [pc |-> "idle", head |-> NoHead, final |-> NoHead]

\* The finalized head that the chain of the previous head had.
PreviouslyFinalized(prev) == LatestFinalizedHead(prev)

\* Backfill, up to the call of backfill.
Backfill ==
    /\ ~stopped /\ bf.pc = "idle" /\ backfillMB.head # NoHead
    /\ backfillMB' = [head |-> NoHead, prev |-> NoHead]
    /\ \E f \in BOOLEAN, fin \in calculateLatestFinalized(backfillMB.head) :
          LET h == backfillMB.head
              gap == Num(h) - Num(fin.head)
              bad == ~instantFinality
                     /\ Conflict(fin, PreviouslyFinalized(backfillMB.prev))
          IN /\ Num(h) = MaxNum => ~f
             /\ Fails(f)
             /\ IF f \/ gap < 0 \/ gap > MaxAllowedFinalityDepth
                THEN bf' = bf /\ UNCHANGED alarm
                ELSE /\ alarm' = IF instantFinality THEN alarm ELSE bad
                     /\ bf' = IF bad THEN bf
                              ELSE [pc |-> "walk", head |-> h, final |-> fin.head]
    /\ UNCHANGED <<config, tip, stopped, stored, listening, saver, sent>>

\* Fault: a parent that is fetched is not saved.
fetchAndSaveHeadUnsaved ==
    /\ bf.pc = "walk" /\ Num(bf.head) > Num(bf.final)
    /\ bf' = [bf EXCEPT !.head = At(bf.head, Num(bf.head) - 1)]
    /\ UNCHANGED <<chain, listening, saver, backfillMB, alarm, sent>>

\* The loop of backfill: to the parent, which is fetched and saved if it is
\* not in the saver.
fetchAndSaveHead ==
    /\ bf.pc = "walk" /\ Num(bf.head) > Num(bf.final)
    /\ LET p == At(bf.head, Num(bf.head) - 1)
       IN \E f \in BOOLEAN :
             /\ p \in saved \/ Num(latestChain) = MaxNum => ~f
             /\ Fails(f)
             /\ IF f THEN bf' = Idle /\ UNCHANGED <<saved, latestChain>>
                ELSE /\ bf' = [bf EXCEPT !.head = p]
                     /\ IF p \in saved THEN UNCHANGED <<saved, latestChain>>
                        ELSE Save(p)
    /\ UNCHANGED <<config, tip, stopped, stored, listening, finalized, backfillMB,
                   alarm, sent>>

\* The end of backfill: MarkFinalized marks the head and its ancestors; when
\* it fails nothing is marked.
MarkFinalized ==
    /\ bf.pc = "walk" /\ Num(bf.head) = Num(bf.final)
    /\ bf' = Idle
    /\ \E f \in BOOLEAN :
          /\ bf.head # bf.final \/ Num(latestChain) = MaxNum => ~f
          /\ Fails(f)
          /\ finalized' = IF bf.head = bf.final /\ ~f
                          THEN finalized \cup (Chain(bf.final) \cap saved)
                          ELSE finalized
    /\ UNCHANGED <<config, tip, stopped, stored, listening, saved, latestChain,
                   backfillMB, alarm, sent>>

-----------------------------------------------------------------------------
Next ==
    \/ Grow \/ Stop
    \/ \E b \in Latest : Emit(b)
    \/ Unsubscribe \/ subscribeToHead \/ ListenerExits \/ SubscriptionBreaks
    \/ handleInitialHead \/ receiveHeaders \/ handleNewHead
    \/ Backfill \/ fetchAndSaveHead \/ MarkFinalized

Spec == Init /\ [][Next]_vars

\* The goroutines run: the listener outside its select, and the backfill loop.
Listen == Unsubscribe \/ subscribeToHead \/ handleInitialHead \/ handleNewHead
BackfillLoop == Backfill \/ fetchAndSaveHead \/ MarkFinalized

\* A node that has the tip sends it in the end, on a subscription that the
\* listener is not about to drop, and the select of receiveHeaders takes a head
\* that keeps waiting.
FairSpec ==
    /\ Spec
    /\ WF_vars(Listen) /\ WF_vars(BackfillLoop)
    /\ SF_vars(lpc # "unsubscribe" /\ Emit(tip)) /\ SF_vars(receiveHeaders)

-----------------------------------------------------------------------------
(* Properties.                                                              *)

HeadOrNone == Blocks \cup {NoHead}

\* Every variable has its type; only saved heads are marked finalized.
TypeOK ==
    /\ config \in Configs /\ tip \in Blocks
    /\ trouble \in 0..MaxTrouble /\ stopped \in BOOLEAN
    /\ lpc \in {"unsubscribe", "subscribe", "initial", "receive", "save", "done"}
    /\ held \in BOOLEAN /\ open \in 0..MaxTrouble + 2 /\ chHeaders \in HeadOrNone
    /\ lhead \in [head : HeadOrNone, prev : HeadOrNone, initial : BOOLEAN]
    /\ behind \in BOOLEAN /\ stored \subseteq Blocks
    /\ saved \subseteq Blocks /\ latestChain \in HeadOrNone /\ finalized \subseteq saved
    /\ backfillMB \in [head : HeadOrNone, prev : HeadOrNone]
    /\ bf \in [pc : {"idle", "walk"}, head : HeadOrNone, final : HeadOrNone]
    /\ alarm \in BOOLEAN /\ sent \in HeadOrNone

\* However often the subscription breaks, the client holds at most one open
\* for the listener, and none once the listener has returned: subscribe drops
\* the old one first, and ListenForNewHeads defers unsubscribe.
OneSubscription == open <= 1 /\ (lpc = "done" => open = 0)

\* The listener's view of its subscription is the client's.
SubscribedOnce == TypeOK /\ OneSubscription

\* A head that backfill marks finalized stays on the chain, whichever node
\* answered and however the chain was reorganised in between: it is irreversible
\* on the chain as it is now.
FinalizedIsFinal ==
    finalized \subseteq {c \in On(tip) : Num(c) <= Num(tip) - Irreversible \/ Num(c) = 0}

\* While the chain keeps its promise, backfill's condition never reports a
\* finality violation: what it compares are heads both known to be final.  (The
\* condition of handleNewHead says less, that a head came from far behind, and a
\* lagging node or a head that waited in the channel is enough to set it.)
NoFalseAlarm == ~alarm

\* Backfill tells final heads from others, on both sides: what it marks is
\* final, and what it takes for a violation of finality is one.
FinalityHolds == FinalizedIsFinal /\ NoFalseAlarm

\* What the tracker hands to the broadcaster is a feed of heads whose block
\* numbers rise, across reorgs, lagging nodes and broken subscriptions: the
\* tracker implements the feed that HeadBroadcaster starts from.
Feed == INSTANCE HeadFeed WITH delivered <- sent
FeedsRisingHeads == Feed!FeedSpec

\* A head at the top of the chain is handed on in the end, although the
\* subscription may break, a node may lag, and the check of an old head makes
\* the listener subscribe again; and the latest chain is linked down to a
\* finalized head: the backfill loop takes the newest pair and fetches every
\* missing parent.
TipArrives ==
    (Num(tip) = MaxNum) ~> \/ stopped
                           \/ /\ Num(sent) = MaxNum
                              /\ LatestFinalizedHead(latestChain) # NoHead

\* The finality violation that handleNewHead reports for a head from behind is
\* withdrawn in the end: a head of the tip clears the condition.
ConditionClears == []<>(~behind \/ stopped)

\* Both goroutines reach the top of the chain: the listener hands it on, the
\* backfill links it to a finalized head, and no report of an old head stays.
TopArrives == TipArrives /\ ConditionClears

=============================================================================
