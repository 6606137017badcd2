------------------------ MODULE RPCClientBaseProofs ------------------------
(***************************************************************************)
(* The safety properties of RPCClientBase, for every number of clients,    *)
(* closers, subscriptions, life cycles and heads.                          *)
(*                                                                         *)
(* Three arguments, one per conjunct of the invariant.                     *)
(*   LatestInv  A request stores its head only under chainInfoLock, after  *)
(*              it has found its life cycle open; if the life cycle has    *)
(*              ended since, its Close has not reset the chain info yet,   *)
(*              and needs the lock for that.                               *)
(*   ReadInv    A head is observed under the lock that the request keeps   *)
(*              until it has returned it.                                  *)
(*   SubsInv    A subscription is known to its subscriber alone until it   *)
(*              is listed; one that is no longer listed is being stopped,  *)
(*              and a Close has the running ones on its own list.          *)
(***************************************************************************)
EXTENDS RPCClientBase, TLAPS

\* The provers in the order in which they are tried: most leaves are first-order.
USE ZenonT(5), SMTT(12), Z3T(12), ZenonT(20)

ClientPlaces ==
    {"idle", "call", "intercept", "store", "register", "insert", "subscribed", "stop",
     "wait", "remove", "rejected"}
CloserPlaces ==
    {"idle", "collect", "unlock", "unsubscribing", "stop", "wait", "remove", "reset"}
PollerPlaces == {"idle", "select", "call", "intercept", "store", "deliver", "exited"}

\* Where a client or a closer has a subscription.
Subscribed == {"register", "insert", "subscribed", "stop", "wait", "remove", "rejected"}

PlacesInv ==
    /\ \A p \in Clients :
         /\ pc[p] \in ClientPlaces
         /\ pc[p] = "subscribed" => local[p].managed
    /\ \A x \in Closers :
         /\ pc[x] \in CloserPlaces
         /\ pc[x] \in {"stop", "wait", "remove"} => local[x].managed
         /\ pc[x] = "reset" => local[x].closing
    /\ \A q \in Pollers : pc[q] \in PollerPlaces /\ (pc[q] = "idle" <=> poller[q] = "unused")
    /\ \A p \in Clients \union Closers : pc[p] \in Subscribed => local[p].sub \in Pollers

LatestInv ==
    /\ \A p \in Requesters : pc[p] = "store" <=> chainInfoLock = p
    /\ \A p \in Procs : local[p].ch <= lifeCycle
    /\ \A p \in Requesters : pc[p] = "store" =>
         local[p].ch = lifeCycle \/ \E x \in Closers : Resetting(x)
    /\ LatestFromCurrentLifeCycle

ReadInv ==
    /\ \A p \in Requesters : pc[p] = "store" /\ ~local[p].health =>
         local[p].head.number <= Highest(local[p].kind)
    /\ RepeatableRead

\* p is about to list its subscription, or has been told not to.
Unlisted(p) ==
    \/ pc[p] \in {"register", "insert"}
    \/ pc[p] \in {"stop", "wait", "rejected"} /\ ~local[p].managed

\* No goroutine but p knows of subscription q.
Unknown(q, p) ==
    /\ q \notin subs
    /\ \A r \in Procs \ {p} : local[r].sub # q /\ q \notin local[r].todo

SubsInv ==
    /\ \A q \in Pollers : poller[q] = "unused" => Unknown(q, NoOne)
    /\ \A p \in Clients : Unlisted(p) => Unknown(local[p].sub, p)
    /\ \A p \in Clients : pc[p] \in {"register", "insert"} => poller[local[p].sub] = "running"
    /\ \A p \in Clients \union Closers : pc[p] = "remove" =>
         poller[local[p].sub] \in {"stopping", "closed"}
    /\ SubsMatchPollers

\* What is left of the subscriptions that Close found.
CloseInv ==
    \A x \in Closers : pc[x] # "idle" /\ local[x].closing =>
        /\ local[x].keep = {}
        /\ \A q \in local[x].owed :
             /\ poller[q] # "unused"
             /\ poller[q] = "running" =>
                  \/ pc[x] = "collect" /\ q \in subs
                  \/ pc[x] \notin {"collect", "reset"} /\ q \in local[x].todo
                  \/ pc[x] = "stop" /\ local[x].sub = q

IInv == TypeOK /\ PlacesInv /\ LatestInv /\ ReadInv /\ SubsInv /\ CloseInv

-----------------------------------------------------------------------------
(* The locals of a goroutine. *)

\* The fields of well-typed locals.
LEMMA LocalFields ==
    ASSUME NEW l \in Local
    PROVE  /\ l.kind \in Kinds /\ l.health \in BOOLEAN /\ l.ch \in 0 .. MaxLifeCycle
           /\ l.head \in Heads \union {NoHead}
           /\ l.sub \in Pollers \union {NoOne}
           /\ l.managed \in BOOLEAN /\ l.closing \in BOOLEAN
           /\ l.keep \subseteq Pollers /\ l.todo \subseteq Pollers /\ l.owed \subseteq Pollers
BY DEF Local

\* Every head has a number and a difficulty.
LEMMA HeadFields ==
    ASSUME NEW h \in Heads \union {NoHead}
    PROVE  h.number \in Nat /\ h.difficulty \in Nat
BY ConfigAssumption DEF NoHead, NilDifficulty

\* The locals of a goroutine that is in no method are well typed.
LEMMA FreshType == Fresh \in Local
<1>1. (CHOOSE k \in Kinds : TRUE) \in Kinds
  BY ConfigAssumption
<1> QED
  BY <1>1, ConfigAssumption DEF Fresh, Local

\* Locals whose request, head, subscription or list of subscriptions is replaced.
LEMMA RequestFields ==
    ASSUME NEW p, local[p] \in Local, lifeCycle \in 0 .. MaxLifeCycle,
           NEW k \in Kinds, NEW b \in BOOLEAN
    PROVE  LET m == [local[p] EXCEPT !.kind = k, !.health = b, !.ch = lifeCycle]
           IN m \in Local /\ m.ch = lifeCycle /\ m.sub = local[p].sub /\ m.todo = local[p].todo
BY DEF Local

\* The same for the answer of a request.
LEMMA AnswerFields ==
    ASSUME NEW l \in Local, NEW h \in Heads
    PROVE  LET m == [l EXCEPT !.head = h]
           IN m \in Local /\ m.ch = l.ch /\ m.sub = l.sub /\ m.todo = l.todo
BY DEF Local

\* The same for a polling goroutine after its request.
LEMMA PollingFields ==
    ASSUME NEW l \in Local, NEW k \in Kinds, NEW b \in BOOLEAN
    PROVE  LET m == [l EXCEPT !.kind = k, !.health = b]
           IN m \in Local /\ m.ch = l.ch /\ m.sub = l.sub /\ m.todo = l.todo
BY DEF Local

\* The same for a subscriber.
LEMMA SubscribeFields ==
    ASSUME lifeCycle \in 0 .. MaxLifeCycle, NEW k \in Kinds, NEW q \in Pollers
    PROVE  LET m == [Fresh EXCEPT !.kind = k, !.ch = lifeCycle, !.sub = q]
           IN m \in Local /\ m.ch = lifeCycle /\ m.sub = q /\ m.todo = {}
BY FreshType DEF Local, Fresh

\* The same for a subscriber whose subscription is listed.
LEMMA ListedFields ==
    ASSUME NEW l \in Local, NEW q \in Pollers
    PROVE  LET m == [l EXCEPT !.sub = q, !.managed = TRUE]
           IN m \in Local /\ m.ch = l.ch /\ m.sub = q /\ m.todo = l.todo /\ m.managed
BY DEF Local

\* The same for UnsubscribeAllExcept.
LEMMA KeepFields ==
    ASSUME NEW l \in Local, NEW S \in SUBSET Pollers
    PROVE  LET m == [l EXCEPT !.keep = S]
           IN m \in Local /\ m.ch = l.ch /\ m.sub = l.sub /\ m.todo = l.todo /\ m.closing = l.closing
BY DEF Local

\* The same for Close.
LEMMA CloseFields ==
    ASSUME NEW l \in Local, NEW S \in SUBSET Pollers
    PROVE  LET m == [l EXCEPT !.closing = TRUE, !.owed = S]
           IN /\ m \in Local /\ m.ch = l.ch /\ m.sub = l.sub /\ m.todo = l.todo
              /\ m.keep = l.keep /\ m.owed = S /\ m.closing
BY DEF Local

\* The same for the list of subscriptions to close.
LEMMA CollectFields ==
    ASSUME NEW l \in Local, NEW S \in SUBSET Pollers
    PROVE  LET m == [l EXCEPT !.todo = S, !.keep = {}]
           IN /\ m \in Local /\ m.ch = l.ch /\ m.sub = l.sub /\ m.todo = S
              /\ m.keep = {} /\ m.owed = l.owed /\ m.closing = l.closing
BY DEF Local

\* The same for the next subscription of that list.
LEMMA NextFields ==
    ASSUME NEW l \in Local, NEW q \in l.todo
    PROVE  LET m == [l EXCEPT !.sub = q, !.managed = TRUE, !.todo = @ \ {q}]
           IN /\ m \in Local /\ m.ch = l.ch /\ m.sub = q /\ m.todo = l.todo \ {q} /\ m.managed
              /\ m.keep = l.keep /\ m.owed = l.owed /\ m.closing = l.closing
<1>1. q \in Pollers /\ l.todo \ {q} \in SUBSET Pollers
  BY DEF Local
<1> QED
  BY <1>1 DEF Local

\* The fields of the locals of a goroutine that is in no method.
LEMMA FreshFields ==
    /\ Fresh.health = FALSE /\ Fresh.ch = 0 /\ Fresh.head = NoHead /\ Fresh.sub = NoOne
    /\ Fresh.managed = FALSE /\ Fresh.closing = FALSE
    /\ Fresh.keep = {} /\ Fresh.todo = {} /\ Fresh.owed = {}
BY DEF Fresh

-----------------------------------------------------------------------------
(* Most steps move one goroutine and change little else.                    *)

Moves(p) == \A r \in Procs \ {p} : pc'[r] = pc[r] /\ local'[r] = local[r]

\* A step that gives p new locals.
LEMMA MovesTo ==
    ASSUME IInv, NEW p \in Procs, NEW a \in Places, NEW l \in Local, GotoWith(p, a, l)
    PROVE  /\ Moves(p) /\ pc' \in [Procs -> Places] /\ local' \in [Procs -> Local]
           /\ pc'[p] = a /\ local'[p] = l
BY DEF Moves, GotoWith, IInv, TypeOK

\* A step that keeps the locals of p.
LEMMA GoesTo ==
    ASSUME IInv, NEW p \in Procs, NEW a \in Places, Goto(p, a)
    PROVE  /\ Moves(p) /\ pc' \in [Procs -> Places] /\ local' \in [Procs -> Local]
           /\ pc'[p] = a /\ local'[p] = local[p]
BY DEF Moves, Goto, IInv, TypeOK

\* A step outside chainInfoLock that starts no life cycle and resets nothing.
LEMMA LatestMoves ==
    ASSUME IInv, NEW p \in Procs, Moves(p), UNCHANGED <<lifeCycle, chainInfoLock, latestFrom>>,
           local'[p].ch \in {0, local[p].ch, lifeCycle},
           p \in Requesters => pc[p] # "store" /\ pc'[p] # "store",
           p \in Closers /\ Resetting(p) => Resetting(p)'
    PROVE  LatestInv'
<1>1. \A x \in Closers : Resetting(x) => Resetting(x)'
  BY ConfigAssumption DEF Moves, Resetting, Procs
<1>2. \A r \in Requesters : pc'[r] = "store" <=> pc[r] = "store"
  BY DEF Moves, Requesters, Procs
<1>3. \A r \in Requesters : pc[r] = "store" => local'[r] = local[r]
  BY DEF Moves, Requesters, Procs
<1>4. \A r \in Procs : local'[r].ch <= lifeCycle
  BY ConfigAssumption DEF Moves, IInv, TypeOK, LatestInv
<1> QED
  BY <1>1, <1>2, <1>3, <1>4 DEF IInv, LatestInv, LatestFromCurrentLifeCycle

\* A step outside chainInfoLock that observes nothing.
LEMMA ReadMoves ==
    ASSUME IInv, NEW p \in Procs, Moves(p), UNCHANGED <<highestUserObservations, userSaw>>,
           p \in Requesters => pc[p] # "store" /\ pc'[p] # "store"
    PROVE  ReadInv'
<1>1. \A r \in Requesters : pc'[r] = "store" <=> pc[r] = "store"
  BY DEF Moves, Requesters, Procs
<1>2. \A r \in Requesters : pc[r] = "store" => local'[r] = local[r]
  BY DEF Moves, Requesters, Procs
<1>3. \A k : Highest(k)' = Highest(k)
  BY DEF Highest
<1> QED
  BY <1>1, <1>2, <1>3 DEF IInv, ReadInv, RepeatableRead

\* A step that changes neither the list nor a Poller: its goroutine learns only of listed
\* subscriptions, and keeps the one it is about to list.
LEMMA SubsMoves ==
    ASSUME IInv, NEW p \in Procs, Moves(p), UNCHANGED <<subs, poller>>,
           local'[p].sub \in {local[p].sub, NoOne} \union local[p].todo,
           local'[p].todo \subseteq local[p].todo \union subs,
           p \in Clients /\ Unlisted(p)' => Unlisted(p) /\ local'[p].sub = local[p].sub,
           p \in Clients /\ pc'[p] \in {"register", "insert"} => pc[p] \in {"register", "insert"},
           pc[p] # "remove",
           pc'[p] = "remove" => poller[local'[p].sub] \in {"stopping", "closed"},
           p \in Clients /\ pc[p] \in {"register", "insert", "stop"} =>
             \/ pc'[p] \in {"register", "insert", "stop"} /\ local'[p].sub = local[p].sub
             \/ poller[local[p].sub] # "running"
    PROVE  SubsInv'
<1> USE DEF Moves, Procs
<1>1. \A q \in Pollers : \A r : Unknown(q, r) => Unknown(q, r)'
  BY ConfigAssumption DEF Unknown
<1>2. \A r \in Clients : Unlisted(r)' => Unlisted(r) /\ local'[r].sub = local[r].sub
  BY DEF Unlisted
<1>3. \A r \in Clients : Unlisted(r) => local[r].sub \in Pollers
  BY DEF IInv, PlacesInv, Unlisted, Subscribed
<1>4. SubsMatchPollers'
  BY DEF IInv, SubsInv, SubsMatchPollers
<1>5. \A r \in Clients : pc'[r] \in {"register", "insert"} => poller[local'[r].sub] = "running"
  BY <1>2 DEF IInv, SubsInv, Unlisted
<1>6. \A r \in Clients \union Closers : pc'[r] = "remove" =>
        poller[local'[r].sub] \in {"stopping", "closed"}
  BY DEF IInv, SubsInv
<1>7. \A r \in Clients : Unlisted(r)' => Unknown(local[r].sub, r)'
  BY <1>1, <1>2, <1>3 DEF IInv, SubsInv
<1>8. \A q \in Pollers : poller[q] = "unused" => Unknown(q, NoOne)'
  BY <1>1 DEF IInv, SubsInv
<1> HIDE DEF Moves, Procs
<1> QED
  BY <1>4, <1>5, <1>6, <1>7, <1>8 DEF SubsInv

\* A step that changes neither the list nor a Poller, of a goroutine that is not in Close
\* or goes on with it.
LEMMA CloseMoves ==
    ASSUME IInv, NEW p \in Procs, Moves(p), UNCHANGED <<subs, poller>>,
           p \in Closers /\ pc'[p] # "idle" /\ local'[p].closing =>
             /\ pc[p] # "idle" /\ local[p].closing
             /\ local'[p].keep = {} /\ local'[p].owed = local[p].owed
             /\ \A q \in Pollers : poller[q] = "running" =>
                  /\ pc[p] = "collect" /\ q \in subs =>
                       pc'[p] \notin {"collect", "reset"} /\ q \in local'[p].todo
                  /\ pc[p] \notin {"collect", "reset"} /\ q \in local[p].todo =>
                       \/ pc'[p] \notin {"collect", "reset"} /\ q \in local'[p].todo
                       \/ pc'[p] = "stop" /\ local'[p].sub = q
                  /\ ~(pc[p] = "stop" /\ local[p].sub = q)
    PROVE  CloseInv'
<1>1. \A x \in Closers : local[x].owed \subseteq Pollers
  BY LocalFields DEF IInv, TypeOK, Procs
<1>2. \A x \in Closers \ {p} : pc'[x] = pc[x] /\ local'[x] = local[x]
  BY DEF Moves, Procs
<1> QED
  BY <1>1, <1>2 DEF IInv, CloseInv

\* A goroutine whose LatestBlock returns keeps nothing of it.
LEMMA ReturnedMoves ==
    ASSUME IInv, NEW p \in Requesters, NEW ok \in BOOLEAN, Returned(p, ok)
    PROVE  /\ Moves(p) /\ pc' \in [Procs -> Places] /\ local' \in [Procs -> Local]
           /\ local'[p].ch = 0 /\ local'[p].sub = NoOne /\ local'[p].todo = {}
           /\ \/ p \in Clients /\ pc'[p] = "idle"
              \/ p \in Pollers /\ pc'[p] = IF ok THEN "deliver" ELSE "select"
<1>1. /\ p \in Procs /\ local \in [Procs -> Local] /\ pc \in [Procs -> Places]
      /\ local[p].kind \in Kinds /\ local[p].health \in BOOLEAN
  BY LocalFields DEF IInv, TypeOK, Procs, Requesters
<1>2. CASE p \in Pollers
  <2> DEFINE l == [Fresh EXCEPT !.kind = local[p].kind, !.health = local[p].health]
             a == IF ok THEN "deliver" ELSE "select"
  <2>1. l \in Local /\ l.ch = 0 /\ l.sub = NoOne /\ l.todo = {}
    <3>1. \A k \in Kinds, b \in BOOLEAN :
            LET m == [Fresh EXCEPT !.kind = k, !.health = b]
            IN m \in Local /\ m.ch = 0 /\ m.sub = NoOne /\ m.todo = {}
      BY FreshType, FreshFields, PollingFields
    <3> QED
      BY <1>1, <3>1, Zenon
  <2>2. GotoWith(p, a, l) /\ a \in Places
    BY <1>2 DEF Returned, Places
  <2> HIDE DEF l, a
  <2>3. Moves(p) /\ pc' \in [Procs -> Places] /\ local' \in [Procs -> Local]
         /\ pc'[p] = a /\ local'[p] = l
    BY <1>1, <2>1, <2>2, MovesTo
  <2> QED
    BY <1>2, <2>1, <2>3 DEF a
<1>3. CASE p \notin Pollers
  <2>1. p \in Clients /\ GotoWith(p, "idle", Fresh) /\ "idle" \in Places
    BY <1>3 DEF Returned, Return, Requesters, Places
  <2> QED
    BY <1>1, <2>1, FreshType, FreshFields, MovesTo
<1> QED
  BY <1>2, <1>3

-----------------------------------------------------------------------------
(* The steps of a request and of a polling goroutine, and the reset. *)

\* LatestBlock preserves the invariant.
LEMMA LatestBlockStep ==
    ASSUME IInv, NEW p \in Clients, NEW k \in Kinds, NEW health \in BOOLEAN, LatestBlock(p, k, health)
    PROVE  IInv'
<1> USE DEF LatestBlock, AcquireQueryCtx, At, sync, info
<1>1. p \in Procs /\ local[p] \in Local
  BY DEF IInv, TypeOK, Procs, Requesters
<1> DEFINE l == [local[p] EXCEPT !.kind = k, !.health = health, !.ch = lifeCycle]
<1>0. l \in Local /\ l.ch = lifeCycle /\ l.sub = local[p].sub /\ l.todo = local[p].todo
  <2>1. lifeCycle \in 0 .. MaxLifeCycle
    BY DEF IInv, TypeOK
  <2> QED
    BY <1>1, <2>1, RequestFields
<1>2. /\ Moves(p) /\ pc' \in [Procs -> Places] /\ local' \in [Procs -> Local]
      /\ pc[p] = "idle" /\ pc'[p] = "call" /\ local'[p] = l
  <2>1. GotoWith(p, "call", l) /\ "call" \in Places
    BY DEF Places
  <2> HIDE DEF l
  <2> QED
    BY <1>0, <1>1, <2>1, MovesTo
<1> HIDE DEF l
<1>3. TypeOK'
  BY <1>2 DEF IInv, TypeOK
<1>4. PlacesInv'
  BY <1>0, <1>2, ConfigAssumption DEF IInv, PlacesInv, ClientPlaces, CloserPlaces, PollerPlaces,
       Subscribed, Moves, Procs
<1>5. LatestInv'
  BY <1>0, <1>1, <1>2, LatestMoves, ConfigAssumption DEF Resetting, Requesters
<1>6. ReadInv'
  BY <1>1, <1>2, ReadMoves, ConfigAssumption DEF Requesters
<1>7. SubsInv'
  BY <1>0, <1>1, <1>2, SubsMoves, ConfigAssumption DEF Unlisted
<1>8. CloseInv'
  BY <1>0, <1>1, <1>2, CloseMoves, ConfigAssumption
<1> QED
  BY <1>3, <1>4, <1>5, <1>6, <1>7, <1>8 DEF IInv

\* LatestBlockFails preserves the invariant.
LEMMA LatestBlockFailsStep == ASSUME IInv, NEW p \in Requesters, LatestBlockFails(p) PROVE IInv'
<1> USE DEF LatestBlockFails, At, sync, info
<1>1. p \in Procs /\ local[p] \in Local
  BY DEF IInv, TypeOK, Procs, Requesters
<1>2. /\ Moves(p) /\ pc' \in [Procs -> Places] /\ local' \in [Procs -> Local]
      /\ pc[p] = "call" /\ local'[p].ch = 0 /\ local'[p].sub = NoOne /\ local'[p].todo = {}
      /\ \/ p \in Clients /\ pc'[p] = "idle"
         \/ p \in Pollers /\ pc'[p] = "select"
  BY ReturnedMoves
<1>3. TypeOK'
  BY <1>2 DEF IInv, TypeOK
<1>4. PlacesInv'
  BY <1>2, ConfigAssumption DEF IInv, PlacesInv, ClientPlaces, CloserPlaces, PollerPlaces,
       Subscribed, Moves, Procs
<1>5. LatestInv'
  BY <1>1, <1>2, LatestMoves, ConfigAssumption DEF Resetting, Requesters
<1>6. ReadInv'
  BY <1>1, <1>2, ReadMoves, ConfigAssumption DEF Requesters
<1>7. SubsInv'
  BY <1>1, <1>2, SubsMoves, ConfigAssumption DEF Unlisted
<1>8. CloseInv'
  BY <1>1, <1>2, CloseMoves, ConfigAssumption
<1> QED
  BY <1>3, <1>4, <1>5, <1>6, <1>7, <1>8 DEF IInv

\* LatestBlockAnswers preserves the invariant.
LEMMA LatestBlockAnswersStep == ASSUME IInv, NEW p \in Requesters, LatestBlockAnswers(p) PROVE IInv'
<1> USE DEF LatestBlockAnswers, At, sync, info
<1>1. p \in Procs /\ local[p] \in Local
  BY DEF IInv, TypeOK, Procs, Requesters
<1>2. /\ Moves(p) /\ pc' \in [Procs -> Places] /\ local' \in [Procs -> Local]
      /\ pc[p] = "call" /\ pc'[p] = "intercept" /\ local'[p].ch = local[p].ch
      /\ local'[p].sub = local[p].sub /\ local'[p].todo = local[p].todo
  <2>1. PICK h \in Heads : GotoWith(p, "intercept", [local[p] EXCEPT !.head = h])
    OBVIOUS
  <2> DEFINE l == [local[p] EXCEPT !.head = h]
  <2>2. l \in Local /\ l.ch = local[p].ch /\ l.sub = local[p].sub /\ l.todo = local[p].todo
    BY <1>1, AnswerFields
  <2>3. GotoWith(p, "intercept", l) /\ "intercept" \in Places
    BY <2>1 DEF Places
  <2> HIDE DEF l
  <2> QED
    BY <1>1, <2>2, <2>3, MovesTo
<1>3. TypeOK'
  BY <1>2 DEF IInv, TypeOK
<1>4. PlacesInv'
  BY <1>2, ConfigAssumption DEF IInv, PlacesInv, ClientPlaces, CloserPlaces, PollerPlaces,
       Subscribed, Moves, Procs
<1>5. LatestInv'
  BY <1>1, <1>2, LatestMoves, ConfigAssumption DEF Resetting, Requesters
<1>6. ReadInv'
  BY <1>1, <1>2, ReadMoves, ConfigAssumption DEF Requesters
<1>7. SubsInv'
  BY <1>1, <1>2, SubsMoves, ConfigAssumption DEF Unlisted
<1>8. CloseInv'
  BY <1>1, <1>2, CloseMoves, ConfigAssumption DEF Requesters
<1> QED
  BY <1>3, <1>4, <1>5, <1>6, <1>7, <1>8 DEF IInv

\* PollTick preserves the invariant.
LEMMA PollTickStep == ASSUME IInv, NEW p \in Pollers, PollTick(p) PROVE IInv'
<1> USE DEF PollTick, AcquireQueryCtx, At, sync, info
<1>1. p \in Procs /\ local[p] \in Local
  BY DEF IInv, TypeOK, Procs, Requesters
<1> DEFINE l == [local[p] EXCEPT !.kind = local[p].kind, !.health = local[p].health,
                                !.ch = lifeCycle]
<1>0. l \in Local /\ l.ch = lifeCycle /\ l.sub = local[p].sub /\ l.todo = local[p].todo
  <2>1. lifeCycle \in 0 .. MaxLifeCycle
    BY DEF IInv, TypeOK
  <2>2. local[p].kind \in Kinds /\ local[p].health \in BOOLEAN
    BY <1>1, LocalFields
  <2> QED
    BY <1>1, <2>1, <2>2, RequestFields
<1>2. /\ Moves(p) /\ pc' \in [Procs -> Places] /\ local' \in [Procs -> Local]
      /\ pc[p] = "select" /\ pc'[p] = "call" /\ local'[p] = l
  <2>1. GotoWith(p, "call", l) /\ "call" \in Places
    BY DEF Places
  <2> HIDE DEF l
  <2> QED
    BY <1>0, <1>1, <2>1, MovesTo
<1> HIDE DEF l
<1>3. TypeOK'
  BY <1>2 DEF IInv, TypeOK
<1>4. PlacesInv'
  BY <1>0, <1>2, ConfigAssumption DEF IInv, PlacesInv, ClientPlaces, CloserPlaces, PollerPlaces,
       Subscribed, Moves, Procs
<1>5. LatestInv'
  BY <1>0, <1>1, <1>2, LatestMoves, ConfigAssumption DEF Resetting, Requesters
<1>6. ReadInv'
  BY <1>1, <1>2, ReadMoves, ConfigAssumption DEF Requesters
<1>7. SubsInv'
  BY <1>0, <1>1, <1>2, SubsMoves, ConfigAssumption DEF Unlisted
<1>8. CloseInv'
  BY <1>0, <1>1, <1>2, CloseMoves, ConfigAssumption
<1> QED
  BY <1>3, <1>4, <1>5, <1>6, <1>7, <1>8 DEF IInv

\* PollDeliver preserves the invariant.
LEMMA PollDeliverStep == ASSUME IInv, NEW p \in Pollers, PollDeliver(p) PROVE IInv'
<1> USE DEF PollDeliver, At, sync, info
<1>1. p \in Procs /\ local[p] \in Local
  BY DEF IInv, TypeOK, Procs, Requesters
<1>2. /\ Moves(p) /\ pc' \in [Procs -> Places] /\ local' \in [Procs -> Local]
      /\ pc[p] = "deliver" /\ pc'[p] = "select" /\ local'[p] = local[p]
  BY <1>1, GoesTo DEF Places
<1>3. TypeOK'
  BY <1>2 DEF IInv, TypeOK
<1>4. PlacesInv'
  BY <1>2, ConfigAssumption DEF IInv, PlacesInv, ClientPlaces, CloserPlaces, PollerPlaces,
       Subscribed, Moves, Procs
<1>5. LatestInv'
  BY <1>1, <1>2, LatestMoves, ConfigAssumption DEF Resetting, Requesters
<1>6. ReadInv'
  BY <1>1, <1>2, ReadMoves, ConfigAssumption DEF Requesters
<1>7. SubsInv'
  BY <1>1, <1>2, SubsMoves, ConfigAssumption DEF Unlisted
<1>8. CloseInv'
  BY <1>1, <1>2, CloseMoves, ConfigAssumption
<1> QED
  BY <1>3, <1>4, <1>5, <1>6, <1>7, <1>8 DEF IInv

\* PollExit preserves the invariant.
LEMMA PollExitStep == ASSUME IInv, NEW p \in Pollers, PollExit(p) PROVE IInv'
<1> USE DEF PollExit, At, sync, info
<1>1. p \in Procs /\ local[p] \in Local
  BY DEF IInv, TypeOK, Procs, Requesters
<1>2. /\ Moves(p) /\ pc' \in [Procs -> Places] /\ local' \in [Procs -> Local]
      /\ pc[p] \in {"select", "deliver"} /\ poller[p] = "stopping" /\ pc'[p] = "exited" /\ local'[p] = Fresh
  BY <1>1, FreshType, MovesTo DEF Places
<1>3. TypeOK'
  BY <1>2 DEF IInv, TypeOK
<1>4. PlacesInv'
  BY <1>2, ConfigAssumption DEF IInv, PlacesInv, ClientPlaces, CloserPlaces, PollerPlaces,
       Subscribed, Moves, Procs
<1>5. LatestInv'
  BY <1>1, <1>2, FreshFields, LatestMoves, ConfigAssumption DEF Resetting, Requesters
<1>6. ReadInv'
  BY <1>1, <1>2, ReadMoves, ConfigAssumption DEF Requesters
<1>7. SubsInv'
  BY <1>1, <1>2, FreshFields, SubsMoves, ConfigAssumption DEF Unlisted
<1>8. CloseInv'
  BY <1>1, <1>2, CloseMoves, ConfigAssumption
<1> QED
  BY <1>3, <1>4, <1>5, <1>6, <1>7, <1>8 DEF IInv

\* What a user request leaves in the highest observations.
LEMMA ObservedFields ==
    ASSUME TypeOK, NEW k \in Kinds, NEW h \in Heads \union {NoHead}
    PROVE  /\ Observed(k, h) \in ChainInfo
           /\ Observed(k, h).BlockNumber =
                IF k = "head" THEN MaxNumber(highestUserObservations.BlockNumber, h.number)
                ELSE highestUserObservations.BlockNumber
           /\ Observed(k, h).FinalizedBlockNumber =
                IF k = "head" THEN highestUserObservations.FinalizedBlockNumber
                ELSE MaxNumber(highestUserObservations.FinalizedBlockNumber, h.number)
           /\ Observed(k, h).TotalDifficulty >= highestUserObservations.TotalDifficulty
<1> DEFINE o == highestUserObservations
<1>1. h.number \in Nat /\ h.difficulty \in Nat
  BY HeadFields
<1>2. o \in ChainInfo
  BY DEF TypeOK
<1>3. MaxNumber(o.BlockNumber, h.number) \in Nat /\ MaxNumber(o.FinalizedBlockNumber, h.number) \in Nat
  BY <1>1, <1>2 DEF ChainInfo, MaxNumber
<1>4. /\ MaxTotalDifficulty(o.TotalDifficulty, h.difficulty) \in Nat
      /\ MaxTotalDifficulty(o.TotalDifficulty, h.difficulty) >= o.TotalDifficulty
  BY <1>1, <1>2 DEF ChainInfo, MaxTotalDifficulty, NilDifficulty
<1>5. \A n \in Nat :
        LET c == [o EXCEPT !.FinalizedBlockNumber = n]
        IN /\ c \in ChainInfo /\ c.FinalizedBlockNumber = n
           /\ c.BlockNumber = o.BlockNumber /\ c.TotalDifficulty >= o.TotalDifficulty
  BY <1>2 DEF ChainInfo
<1>6. CASE k = "head"
  <2> DEFINE n == MaxNumber(o.BlockNumber, h.number)
             d == MaxTotalDifficulty(o.TotalDifficulty, h.difficulty)
  <2>1. Observed(k, h) = [o EXCEPT !.BlockNumber = n, !.TotalDifficulty = d]
    BY <1>6 DEF Observed
  <2>2. n \in Nat /\ d \in Nat
    BY <1>3, <1>4
  <2> HIDE DEF n, d, o
  <2>3. /\ Observed(k, h) \in ChainInfo /\ Observed(k, h).BlockNumber = n
        /\ Observed(k, h).TotalDifficulty = d
        /\ Observed(k, h).FinalizedBlockNumber = o.FinalizedBlockNumber
    BY <1>2, <2>1, <2>2 DEF ChainInfo
  <2> QED
    BY <1>4, <1>6, <2>3 DEF n, d, o
<1>7. CASE k # "head"
  BY <1>3, <1>5, <1>7 DEF Observed
<1> QED
  BY <1>6, <1>7

\* The number that a user request of kind k leaves, for every kind.
LEMMA ObservedHighest ==
    ASSUME TypeOK, NEW k \in Kinds, NEW h \in Heads \union {NoHead},
           highestUserObservations' = Observed(k, h)
    PROVE  \A j \in Kinds : Highest(j)' = IF j = k THEN MaxNumber(Highest(j), h.number) ELSE Highest(j)
BY ObservedFields, ConfigAssumption DEF Highest

\* The highest observations are numbers.
LEMMA HighestType == ASSUME TypeOK, NEW k PROVE Highest(k) \in Nat
BY DEF TypeOK, Highest, ChainInfo

\* While nobody holds chainInfoLock, the highest observation is what users saw.
LEMMA UnlockedSaw ==
    ASSUME IInv, chainInfoLock = NoOne
    PROVE  /\ \A p \in Requesters : pc[p] # "store"
           /\ \A k \in Kinds : Highest(k) = userSaw[k]
<1>1. \A p \in Requesters : pc[p] # "store"
  BY ConfigAssumption DEF IInv, LatestInv, Requesters, Procs
<1> QED
  BY <1>1 DEF IInv, ReadInv, RepeatableRead

\* What users have seen after p's request.
LEMMA SeenType ==
    ASSUME IInv, NEW p \in Requesters
    PROVE  /\ Seen(p) \in [Kinds -> Nat]
           /\ \A k \in Kinds : Seen(p)[k] =
                IF ~local[p].health /\ k = local[p].kind
                THEN MaxNumber(userSaw[k], local[p].head.number) ELSE userSaw[k]
<1>1. local[p] \in Local
  BY DEF IInv, TypeOK, Procs, Requesters
<1>2. local[p].kind \in Kinds /\ local[p].head.number \in Nat
  BY <1>1, LocalFields, HeadFields
<1>3. userSaw \in [Kinds -> Nat]
  BY DEF IInv, TypeOK
<1> QED
  BY <1>2, <1>3 DEF Seen, MaxNumber

\* A request that returns leaves every goroutine at a place of its kind.
LEMMA ReturnedPlaces ==
    ASSUME IInv, NEW p \in Requesters, Moves(p), UNCHANGED poller, pc[p] \in {"intercept", "store"},
           \/ p \in Clients /\ pc'[p] = "idle"
           \/ p \in Pollers /\ pc'[p] = "deliver"
    PROVE  PlacesInv'
<1>1. \A r \in Procs : r # p => pc'[r] = pc[r] /\ local'[r] = local[r]
  BY DEF Moves
<1>2. p \in Clients => p \notin Closers /\ p \notin Pollers
  BY ConfigAssumption
<1>3. p \in Pollers => p \notin Closers /\ p \notin Clients
  BY ConfigAssumption
<1>4. \A r \in Clients : /\ pc'[r] \in ClientPlaces
                         /\ pc'[r] = "subscribed" => local'[r].managed
  BY <1>1, <1>3 DEF IInv, PlacesInv, ClientPlaces, Procs
<1>5. \A x \in Closers : /\ pc'[x] \in CloserPlaces
                         /\ pc'[x] \in {"stop", "wait", "remove"} => local'[x].managed
                         /\ pc'[x] = "reset" => local'[x].closing
  BY <1>1, <1>2, <1>3 DEF IInv, PlacesInv, Procs
<1>6. \A x \in Pollers : pc'[x] \in PollerPlaces /\ (pc'[x] = "idle" <=> poller'[x] = "unused")
  BY <1>1, <1>2 DEF IInv, PlacesInv, PollerPlaces, Procs
<1>7. \A r \in Clients \union Closers : pc'[r] \in Subscribed => local'[r].sub \in Pollers
  BY <1>1, <1>2, <1>3 DEF IInv, PlacesInv, Procs, Subscribed
<1> QED
  BY <1>4, <1>5, <1>6, <1>7 DEF PlacesInv

\* OnNewHead of a request whose life cycle is over.
LEMMA OnNewHeadStaleStep ==
    ASSUME IInv, NEW p \in Requesters, OnNewHead(p), Closed(local[p].ch)
    PROVE  IInv'
<1> USE DEF sync, info
<1> DEFINE k == local[p].kind
           h == local[p].head
<1>1. p \in Procs /\ local[p] \in Local /\ k \in Kinds /\ h \in Heads \union {NoHead} /\ h.number \in Nat
  BY LocalFields, HeadFields DEF IInv, TypeOK, Procs, Requesters
<1>2. /\ pc[p] = "intercept" /\ chainInfoLock = NoOne /\ Returned(p, TRUE) /\ userSaw' = Seen(p)
      /\ highestUserObservations' = IF local[p].health THEN highestUserObservations ELSE Observed(k, h)
      /\ UNCHANGED <<chainInfoLock, lifeCycle, subs, subsMu, latestChainInfo, latestFrom, poller, panicked>>
  BY DEF OnNewHead, At
<1>3. /\ Moves(p) /\ pc' \in [Procs -> Places] /\ local' \in [Procs -> Local]
      /\ local'[p].ch = 0 /\ local'[p].sub = NoOne /\ local'[p].todo = {}
      /\ \/ p \in Clients /\ pc'[p] = "idle"
         \/ p \in Pollers /\ pc'[p] = "deliver"
  BY <1>2, ReturnedMoves
<1> HIDE DEF k, h
<1>4. TypeOK'
  BY <1>1, <1>2, <1>3, ObservedFields, SeenType DEF IInv, TypeOK
<1>5. PlacesInv'
  BY <1>2, <1>3, ReturnedPlaces
<1>6. LatestInv'
  BY <1>1, <1>2, <1>3, LatestMoves, ConfigAssumption DEF Requesters
<1>7. ReadInv'
  <2>1. \A r \in Requesters : pc'[r] # "store"
    BY <1>2, <1>3, UnlockedSaw DEF Moves, Requesters, Procs
  <2>2. \A j \in Kinds : Highest(j)' = userSaw'[j]
    <3>1. \A j \in Kinds : Highest(j) = userSaw[j]
      BY <1>2, UnlockedSaw
    <3>2. CASE local[p].health
      BY <1>2, <3>1, <3>2, SeenType DEF Highest
    <3>3. CASE ~local[p].health
      <4>1. \A j \in Kinds : Highest(j)' = IF j = k THEN MaxNumber(Highest(j), h.number) ELSE Highest(j)
        BY <1>1, <1>2, <3>3, ObservedHighest DEF IInv
      <4> QED
        BY <1>2, <3>1, <3>3, <4>1, SeenType DEF k, h
    <3> QED
      BY <3>2, <3>3
  <2>3. \A j \in Kinds : Highest(j)' \in Nat
    BY <1>4, HighestType, <2>2 DEF TypeOK
  <2> QED
    BY <2>1, <2>2, <2>3 DEF ReadInv, RepeatableRead
<1>8. SubsInv'
  BY <1>1, <1>2, <1>3, SubsMoves, ConfigAssumption DEF Unlisted
<1>9. CloseInv'
  BY <1>1, <1>2, <1>3, CloseMoves, ConfigAssumption DEF Requesters
<1> QED
  BY <1>4, <1>5, <1>6, <1>7, <1>8, <1>9 DEF IInv

\* OnNewHead of a request whose life cycle is still open.
LEMMA OnNewHeadStep ==
    ASSUME IInv, NEW p \in Requesters, OnNewHead(p), ~Closed(local[p].ch)
    PROVE  IInv'
<1> USE DEF sync, info
<1> DEFINE k == local[p].kind
           h == local[p].head
<1>1. p \in Procs /\ local[p] \in Local /\ k \in Kinds /\ h \in Heads \union {NoHead} /\ h.number \in Nat
  BY LocalFields, HeadFields DEF IInv, TypeOK, Procs, Requesters
<1>2. /\ pc[p] = "intercept" /\ chainInfoLock = NoOne /\ Goto(p, "store") /\ chainInfoLock' = p
      /\ highestUserObservations' = IF local[p].health THEN highestUserObservations ELSE Observed(k, h)
      /\ UNCHANGED <<userSaw, lifeCycle, subs, subsMu, latestChainInfo, latestFrom, poller, panicked>>
  BY DEF OnNewHead, At
<1>3. /\ Moves(p) /\ pc' \in [Procs -> Places] /\ local' = local /\ pc'[p] = "store"
  BY <1>1, <1>2, GoesTo DEF Goto, Places
<1>4. local[p].ch = lifeCycle
  <2>1. local[p].ch \in Nat /\ lifeCycle \in Nat
    BY <1>1, LocalFields, ConfigAssumption DEF IInv, TypeOK
  <2>2. local[p].ch <= lifeCycle /\ ~(local[p].ch < lifeCycle)
    BY <1>1 DEF IInv, LatestInv, Closed
  <2> QED
    BY <2>1, <2>2
<1> HIDE DEF k, h
<1>5. TypeOK'
  BY <1>1, <1>2, <1>3, ObservedFields DEF IInv, TypeOK
<1>6. PlacesInv'
  BY <1>2, <1>3, ConfigAssumption DEF IInv, PlacesInv, ClientPlaces, CloserPlaces, PollerPlaces,
       Subscribed, Moves, Procs, Requesters
<1>7. \A r \in Requesters : pc'[r] = "store" <=> r = p
  BY <1>2, <1>3, UnlockedSaw DEF Moves, Requesters, Procs
<1>8. LatestInv'
  <2>1. \A x \in Closers : Resetting(x) => Resetting(x)'
    BY <1>3, ConfigAssumption DEF Moves, Resetting, Procs, Requesters
  <2> QED
    BY <1>2, <1>3, <1>4, <1>7, <2>1 DEF IInv, LatestInv, LatestFromCurrentLifeCycle
<1>9. ReadInv'
  <2>1. \A j \in Kinds : Highest(j) = userSaw[j]
    BY <1>2, UnlockedSaw
  <2>2. \A j \in Kinds : Highest(j) \in Nat /\ Highest(j)' \in Nat
    BY <1>5, HighestType DEF IInv, TypeOK, Highest, ChainInfo
  <2>3. CASE local[p].health
    <3>1. \A j \in Kinds : Highest(j)' = userSaw'[j]
      BY <1>2, <2>1, <2>3 DEF Highest
    <3> QED
      BY <1>3, <1>7, <2>2, <2>3, <3>1 DEF ReadInv, RepeatableRead
  <2>4. CASE ~local[p].health
    <3>1. \A j \in Kinds : Highest(j)' = IF j = k THEN MaxNumber(Highest(j), h.number) ELSE Highest(j)
      BY <1>1, <1>2, <2>4, ObservedHighest DEF IInv
    <3>2. \A j \in Kinds : \/ Highest(j)' = userSaw[j]
                           \/ j = k /\ h.number = Highest(j)' /\ userSaw[j] <= Highest(j)'
      BY <1>1, <2>1, <2>2, <3>1 DEF MaxNumber
    <3>3. \A j \in Kinds : j = k => h.number <= Highest(j)'
      BY <1>1, <2>2, <3>1 DEF MaxNumber
    <3>4. \A r \in Requesters : pc'[r] = "store" /\ ~local'[r].health =>
            local'[r].head.number <= Highest(local[r].kind)'
      <4>1. \A j \in Kinds : j = local[p].kind => local[p].head.number <= Highest(j)'
        BY <3>3 DEF k, h
      <4>2. local[p].head.number <= Highest(local[p].kind)'
        BY <1>1, <1>3, <4>1 DEF k, Highest
      <4> QED
        BY <1>3, <1>7, <4>2
    <3>5. p \in Requesters /\ pc'[p] = "store" /\ ~local'[p].health /\ local'[p].kind = k /\ local'[p].head = h
      BY <1>3, <2>4 DEF k, h
    <3>6. RepeatableRead'
      <4> SUFFICES ASSUME NEW j \in Kinds
                   PROVE  /\ userSaw'[j] <= Highest(j)'
                          /\ \/ Highest(j)' = userSaw'[j]
                             \/ \E r \in Requesters :
                                  /\ pc'[r] = "store" /\ ~local'[r].health
                                  /\ local'[r].kind = j /\ local'[r].head.number = Highest(j)'
        BY DEF RepeatableRead
      <4> QED
        BY <1>2, <2>2, <3>2, <3>5
    <3> QED
      BY <3>4, <3>6 DEF ReadInv
  <2> QED
    BY <2>3, <2>4
<1>10. SubsInv'
  BY <1>1, <1>2, <1>3, SubsMoves, ConfigAssumption DEF Unlisted
<1>11. CloseInv'
  BY <1>1, <1>2, <1>3, CloseMoves, ConfigAssumption DEF Requesters
<1> QED
  BY <1>5, <1>6, <1>8, <1>9, <1>10, <1>11 DEF IInv

\* The rest of OnNewHead: p holds chainInfoLock, so nobody else is there.
LEMMA StoreLatestStep == ASSUME IInv, NEW p \in Requesters, StoreLatest(p) PROVE IInv'
<1> USE DEF sync, info
<1> DEFINE k == local[p].kind
           h == local[p].head
<1>1. /\ p \in Procs /\ local[p] \in Local /\ k \in Kinds /\ h \in Heads \union {NoHead}
      /\ h.number \in Nat /\ h.difficulty \in Nat /\ local[p].ch \in 0 .. MaxLifeCycle
  BY LocalFields, HeadFields DEF IInv, TypeOK, Procs, Requesters
<1>2. /\ pc[p] = "store" /\ chainInfoLock' = NoOne /\ Returned(p, TRUE) /\ userSaw' = Seen(p)
      /\ latestFrom' = [latestFrom EXCEPT ![k] = local[p].ch]
      /\ UNCHANGED <<highestUserObservations, lifeCycle, subs, subsMu, poller, panicked>>
  BY DEF StoreLatest, At
<1>3. /\ Moves(p) /\ pc' \in [Procs -> Places] /\ local' \in [Procs -> Local]
      /\ local'[p].ch = 0 /\ local'[p].sub = NoOne /\ local'[p].todo = {}
      /\ \/ p \in Clients /\ pc'[p] = "idle"
         \/ p \in Pollers /\ pc'[p] = "deliver"
  BY <1>2, ReturnedMoves
<1>4. latestChainInfo' \in ChainInfo
  <2>1. latestChainInfo \in ChainInfo
    BY DEF IInv, TypeOK
  <2>2. \A n, d \in Nat :
          /\ [latestChainInfo EXCEPT !.BlockNumber = n, !.TotalDifficulty = d] \in ChainInfo
          /\ [latestChainInfo EXCEPT !.FinalizedBlockNumber = n] \in ChainInfo
    BY <2>1 DEF ChainInfo
  <2> QED
    BY <1>1, <2>2 DEF StoreLatest
<1>5. \A r \in Requesters : pc'[r] # "store"
  BY <1>2, <1>3 DEF IInv, LatestInv, Moves, Requesters, Procs
<1> HIDE DEF k, h
<1>6. TypeOK'
  BY <1>1, <1>2, <1>3, <1>4, SeenType DEF IInv, TypeOK
<1>7. PlacesInv'
  BY <1>2, <1>3, ReturnedPlaces
<1>8. LatestInv'
  <2>1. \A x \in Closers : Resetting(x) => Resetting(x)'
    BY <1>3, ConfigAssumption DEF Moves, Resetting, Procs, Requesters
  <2>2. local[p].ch = lifeCycle \/ \E x \in Closers : Resetting(x)
    BY <1>2 DEF IInv, LatestInv
  <2>3. LatestFromCurrentLifeCycle'
    BY <1>2, <2>1, <2>2 DEF IInv, TypeOK, LatestInv, LatestFromCurrentLifeCycle
  <2>4. \A r \in Procs : local'[r].ch <= lifeCycle'
    BY <1>2, <1>3 DEF IInv, TypeOK, LatestInv, Moves
  <2>5. \A r \in Requesters : NoOne # r
    BY ConfigAssumption DEF Requesters, Procs
  <2> QED
    BY <1>2, <1>5, <2>3, <2>4, <2>5 DEF LatestInv
<1>9. ReadInv'
  <2>1. \A j \in Kinds : Highest(j)' = Highest(j) /\ Highest(j) \in Nat
    BY <1>2, HighestType DEF Highest, IInv
  <2>2. \A r \in Requesters : pc[r] = "store" => r = p
    BY <1>2 DEF IInv, LatestInv
  <2>3. ~local[p].health => \A j \in Kinds : j = k => h.number <= Highest(j)
    BY <1>2 DEF IInv, ReadInv, k, h
  <2>4. \A j \in Kinds :
          /\ userSaw[j] <= Highest(j)
          /\ \/ Highest(j) = userSaw[j]
             \/ ~local[p].health /\ k = j /\ h.number = Highest(j)
    BY <2>2 DEF IInv, ReadInv, RepeatableRead, k, h
  <2>5. \A j \in Kinds : /\ userSaw[j] \in Nat
                         /\ userSaw'[j] = IF ~local[p].health /\ j = k THEN MaxNumber(userSaw[j], h.number)
                                          ELSE userSaw[j]
    BY <1>2, SeenType DEF k, h, IInv, TypeOK
  <2>6. \A j \in Kinds : userSaw'[j] = Highest(j)
    BY <1>1, <2>1, <2>3, <2>4, <2>5 DEF MaxNumber
  <2> QED
    BY <1>5, <2>1, <2>6 DEF ReadInv, RepeatableRead
<1>10. SubsInv'
  BY <1>1, <1>2, <1>3, SubsMoves, ConfigAssumption DEF Unlisted
<1>11. CloseInv'
  BY <1>1, <1>2, <1>3, CloseMoves, ConfigAssumption DEF Requesters
<1> QED
  BY <1>6, <1>7, <1>8, <1>9, <1>10, <1>11 DEF IInv

\* ResetLatestChainInfo preserves the invariant.
LEMMA ResetLatestChainInfoStep == ASSUME IInv, NEW p \in Closers, ResetLatestChainInfo(p) PROVE IInv'
<1> USE DEF ResetLatestChainInfo, Return, At, sync, info
<1>1. p \in Procs /\ local[p] \in Local
  BY DEF IInv, TypeOK, Procs, Requesters
<1>2. /\ Moves(p) /\ pc' \in [Procs -> Places] /\ local' \in [Procs -> Local]
      /\ pc[p] = "reset" /\ pc'[p] = "idle" /\ local'[p] = Fresh
  BY <1>1, FreshType, MovesTo DEF Places
<1>3. TypeOK'
  BY <1>2 DEF IInv, TypeOK, NoChainInfo, ChainInfo, NilDifficulty
<1>4. PlacesInv'
  BY <1>2, ConfigAssumption DEF IInv, PlacesInv, ClientPlaces, CloserPlaces, PollerPlaces,
       Subscribed, Moves, Procs
<1>5. LatestInv'
  <2>1. \A r \in Requesters : pc'[r] # "store"
    BY <1>2, UnlockedSaw, ConfigAssumption DEF Moves, Requesters, Procs
  <2>2. \A r \in Procs : local'[r].ch <= lifeCycle'
    BY <1>2, FreshFields DEF IInv, TypeOK, LatestInv, Moves
  <2>3. \A r \in Requesters : chainInfoLock' # r
    BY ConfigAssumption DEF Requesters, Procs
  <2> QED
    BY <2>1, <2>2, <2>3 DEF LatestInv, LatestFromCurrentLifeCycle
<1>6. ReadInv'
  BY <1>1, <1>2, ReadMoves, ConfigAssumption DEF Requesters
<1>7. SubsInv'
  BY <1>1, <1>2, FreshFields, SubsMoves, ConfigAssumption DEF Unlisted
<1>8. CloseInv'
  BY <1>1, <1>2, CloseMoves, ConfigAssumption
<1> QED
  BY <1>3, <1>4, <1>5, <1>6, <1>7, <1>8 DEF IInv

\* Subscribe preserves the invariant: the new Poller is known to its subscriber alone.
LEMMA SubscribeStep ==
    ASSUME IInv, NEW p \in Clients, NEW k \in Kinds, NEW health \in BOOLEAN, Subscribe(p, k, health)
    PROVE  IInv'
<1> USE DEF sync, info
<1>1. PICK q \in Pollers :
        /\ poller[q] = "unused"
        /\ poller' = [poller EXCEPT ![q] = "running"]
        /\ pc' = [pc EXCEPT ![p] = "register", ![q] = "select"]
        /\ local' = [local EXCEPT
                       ![p] = [Fresh EXCEPT !.kind = k, !.ch = lifeCycle, !.sub = q],
                       ![q] = [Fresh EXCEPT !.kind = k, !.health = health]]
  BY DEF Subscribe
<1>2. pc[p] = "idle" /\ UNCHANGED <<lifeCycle, subs, sync, info, panicked>>
  BY DEF Subscribe, At
<1>3. /\ p \in Procs /\ q \in Procs /\ p # q /\ lifeCycle \in 0 .. MaxLifeCycle
      /\ pc \in [Procs -> Places] /\ local \in [Procs -> Local]
  BY ConfigAssumption DEF IInv, TypeOK, Procs
<1> DEFINE l == [Fresh EXCEPT !.kind = k, !.ch = lifeCycle, !.sub = q]
           m == [Fresh EXCEPT !.kind = k, !.health = health]
<1>4. l \in Local /\ l.ch = lifeCycle /\ l.sub = q /\ l.todo = {}
  BY <1>3, SubscribeFields
<1>5. m \in Local /\ m.ch = 0 /\ m.sub = NoOne /\ m.todo = {}
  BY FreshType, FreshFields, PollingFields
<1>6. local' = [local EXCEPT ![p] = l, ![q] = m]
  BY <1>1
<1> HIDE DEF l, m
<1>7. /\ pc' \in [Procs -> Places] /\ local' \in [Procs -> Local]
      /\ pc'[p] = "register" /\ local'[p] = l /\ pc'[q] = "select" /\ local'[q] = m
      /\ \A r \in Procs : r # p /\ r # q => pc'[r] = pc[r] /\ local'[r] = local[r]
  BY <1>1, <1>3, <1>4, <1>5, <1>6 DEF Places
<1>8. /\ poller' \in [Pollers -> {"unused", "running", "stopping", "closed"}] /\ poller'[q] = "running"
      /\ \A x \in Pollers : x # q => poller'[x] = poller[x]
  BY <1>1 DEF IInv, TypeOK
<1>9. pc[q] = "idle" /\ Unknown(q, NoOne)
  BY <1>1 DEF IInv, PlacesInv, SubsInv
<1>10. p \notin Closers /\ p \notin Pollers /\ q \notin Clients /\ q \notin Closers /\ NoOne \notin Procs
  BY ConfigAssumption
<1>11. q \notin subs /\ \A r \in Procs : local[r].sub # q /\ q \notin local[r].todo
  BY <1>9, <1>10 DEF Unknown
<1>12. TypeOK'
  BY <1>2, <1>7, <1>8 DEF IInv, TypeOK
<1>13. PlacesInv'
  <2>1. \A r \in Clients : /\ pc'[r] \in ClientPlaces
                           /\ pc'[r] = "subscribed" => local'[r].managed
    BY <1>7, <1>10 DEF IInv, PlacesInv, ClientPlaces, Procs
  <2>2. \A x \in Closers : /\ pc'[x] \in CloserPlaces
                           /\ pc'[x] \in {"stop", "wait", "remove"} => local'[x].managed
                           /\ pc'[x] = "reset" => local'[x].closing
    BY <1>7, <1>10 DEF IInv, PlacesInv, Procs
  <2>3. \A x \in Pollers : pc'[x] \in PollerPlaces /\ (pc'[x] = "idle" <=> poller'[x] = "unused")
    BY <1>7, <1>8, <1>10 DEF IInv, PlacesInv, PollerPlaces, Procs
  <2>4. \A r \in Clients \union Closers : pc'[r] \in Subscribed => local'[r].sub \in Pollers
    BY <1>4, <1>7, <1>10 DEF IInv, PlacesInv, Procs
  <2> QED
    BY <2>1, <2>2, <2>3, <2>4 DEF PlacesInv
<1>14. LatestInv' /\ ReadInv'
  <2>1. \A r \in Requesters : /\ pc'[r] = "store" <=> pc[r] = "store"
                              /\ pc[r] = "store" => local'[r] = local[r]
    BY <1>2, <1>7, <1>9 DEF Requesters, Procs
  <2>2. \A x \in Closers : Resetting(x) => Resetting(x)'
    BY <1>7, <1>10 DEF Resetting, Procs
  <2>3. \A r \in Procs : local'[r].ch <= lifeCycle'
    BY <1>2, <1>3, <1>4, <1>5, <1>7, ConfigAssumption DEF IInv, LatestInv
  <2>4. LatestInv'
    BY <1>2, <2>1, <2>2, <2>3 DEF IInv, LatestInv, LatestFromCurrentLifeCycle
  <2>5. \A j : Highest(j)' = Highest(j)
    BY <1>2 DEF Highest
  <2>6. ReadInv'
    BY <1>2, <2>1, <2>5 DEF IInv, ReadInv, RepeatableRead
  <2> QED
    BY <2>4, <2>6
<1>15. SubsInv'
  <2>1. \A r \in Procs : \A x \in Pollers :
          /\ x # q /\ local[r].sub # x => local'[r].sub # x
          /\ x # q /\ x \notin local[r].todo => x \notin local'[r].todo
    BY <1>4, <1>5, <1>7, ConfigAssumption DEF Procs
  <2>2. \A x \in Pollers : \A r : x # q /\ Unknown(x, r) => Unknown(x, r)'
    BY <1>2, <2>1 DEF Unknown
  <2>3. \A x \in Pollers : poller'[x] = "unused" => Unknown(x, NoOne)'
    BY <1>8, <2>2 DEF IInv, SubsInv
  <2>4. Unlisted(p)' => Unknown(local[p].sub, p)'
    <3>1. local'[p].sub = q
      BY <1>4, <1>7
    <3>2. \A r \in Procs \ {p} : local'[r].sub # q /\ q \notin local'[r].todo
      BY <1>3, <1>5, <1>7, <1>10, <1>11
    <3> QED
      BY <1>2, <1>11, <3>1, <3>2 DEF Unknown
  <2>5. ASSUME NEW r \in Clients, r # p, Unlisted(r)'
        PROVE  Unknown(local[r].sub, r)'
    <3>1. pc'[r] = pc[r] /\ local'[r] = local[r] /\ r \in Procs
      BY <1>7, <1>10, <2>5 DEF Procs
    <3>2. Unlisted(r)
      BY <2>5, <3>1 DEF Unlisted
    <3>3. local[r].sub \in Pollers /\ local[r].sub # q /\ Unknown(local[r].sub, r)
      BY <1>11, <3>1, <3>2 DEF Unlisted, IInv, PlacesInv, Subscribed, SubsInv
    <3> QED
      BY <2>2, <3>1, <3>3
  <2>6. \A r \in Clients : pc'[r] \in {"register", "insert"} => poller'[local'[r].sub] = "running"
    <3> SUFFICES ASSUME NEW r \in Clients, pc'[r] \in {"register", "insert"}
                 PROVE  poller'[local'[r].sub] = "running"
      OBVIOUS
    <3>1. CASE r = p
      BY <1>4, <1>7, <1>8, <3>1
    <3>2. CASE r # p
      <4>1. pc'[r] = pc[r] /\ local'[r] = local[r] /\ r \in Procs
        BY <1>7, <1>10, <3>2 DEF Procs
      <4>2. local[r].sub \in Pollers /\ poller[local[r].sub] = "running"
        BY <4>1 DEF IInv, PlacesInv, Subscribed, SubsInv
      <4> QED
        BY <1>8, <1>11, <4>1, <4>2
    <3> QED
      BY <3>1, <3>2
  <2>7. \A r \in Clients \union Closers :
          pc'[r] = "remove" => poller'[local'[r].sub] \in {"stopping", "closed"}
    <3> SUFFICES ASSUME NEW r \in Clients \union Closers, pc'[r] = "remove"
                 PROVE  poller'[local'[r].sub] \in {"stopping", "closed"}
      OBVIOUS
    <3>1. pc'[r] = pc[r] /\ local'[r] = local[r] /\ r \in Procs
      BY <1>7, <1>10 DEF Procs
    <3>2. local[r].sub \in Pollers /\ poller[local[r].sub] \in {"stopping", "closed"}
      BY <3>1 DEF IInv, PlacesInv, Subscribed, SubsInv
    <3> QED
      BY <1>8, <1>11, <3>1, <3>2
  <2>8. SubsMatchPollers'
    <3> SUFFICES ASSUME NEW x \in Pollers
                 PROVE  /\ x \in subs /\ poller'[x] = "closed" =>
                             \E r \in Clients \union Closers : pc'[r] = "remove" /\ local'[r].sub = x
                        /\ x \notin subs /\ poller'[x] = "running" =>
                             \E r \in Clients :
                               pc'[r] \in {"register", "insert", "stop"} /\ local'[r].sub = x
      BY <1>2 DEF SubsMatchPollers
    <3>1. CASE x = q
      BY <1>4, <1>7, <1>8, <3>1
    <3>2. CASE x # q
      <4>1. \A r \in Clients \union Closers : pc[r] # "idle" => pc'[r] = pc[r] /\ local'[r] = local[r]
        BY <1>2, <1>7, <1>9 DEF Procs
      <4> QED
        BY <1>8, <3>2, <4>1 DEF IInv, SubsInv, SubsMatchPollers
    <3> QED
      BY <3>1, <3>2
  <2> QED
    BY <2>3, <2>4, <2>5, <2>6, <2>7, <2>8 DEF SubsInv
<1>16. CloseInv'
  <2>1. \A x \in Closers : pc'[x] = pc[x] /\ local'[x] = local[x] /\ local[x].owed \subseteq Pollers
    BY <1>3, <1>7, <1>10, LocalFields DEF Procs
  <2>2. \A x \in Closers : pc[x] # "idle" /\ local[x].closing => q \notin local[x].owed
    BY <1>1 DEF IInv, CloseInv
  <2> QED
    BY <1>2, <1>8, <2>1, <2>2 DEF IInv, CloseInv
<1> QED
  BY <1>12, <1>13, <1>14, <1>15, <1>16 DEF IInv

\* RegisterSub preserves the invariant.
LEMMA RegisterSubStep == ASSUME IInv, NEW p \in Clients, RegisterSub(p) PROVE IInv'
<1> USE DEF RegisterSub, At, sync, info
<1>1. p \in Procs /\ local[p] \in Local
  BY DEF IInv, TypeOK, Procs, Requesters
<1>2. /\ Moves(p) /\ pc' \in [Procs -> Places] /\ local' \in [Procs -> Local]
      /\ pc[p] = "register" /\ pc'[p] \in {"stop", "insert"} /\ local'[p] = local[p]
  <2>1. PICK a \in {"stop", "insert"} : Goto(p, a)
    OBVIOUS
  <2>2. a \in Places
    BY DEF Places
  <2> QED
    BY <1>1, <2>1, <2>2, GoesTo
<1>3. TypeOK'
  BY <1>2 DEF IInv, TypeOK
<1>4. PlacesInv'
  BY <1>2, ConfigAssumption DEF IInv, PlacesInv, ClientPlaces, CloserPlaces, PollerPlaces,
       Subscribed, Moves, Procs
<1>5. LatestInv'
  BY <1>1, <1>2, LatestMoves, ConfigAssumption DEF Resetting, Requesters
<1>6. ReadInv'
  BY <1>1, <1>2, ReadMoves, ConfigAssumption DEF Requesters
<1>7. SubsInv'
  BY <1>1, <1>2, SubsMoves, ConfigAssumption DEF Unlisted
<1>8. CloseInv'
  BY <1>1, <1>2, CloseMoves, ConfigAssumption
<1> QED
  BY <1>3, <1>4, <1>5, <1>6, <1>7, <1>8 DEF IInv

\* AddSub preserves the invariant.
LEMMA AddSubStep == ASSUME IInv, NEW p \in Clients, AddSub(p) PROVE IInv'
<1> USE DEF AddSub, At, sync, info
<1>1. p \in Procs /\ local[p] \in Local
  BY DEF IInv, TypeOK, Procs, Requesters
<1> DEFINE q == local[p].sub
           l == [Fresh EXCEPT !.sub = q, !.managed = TRUE]
<1>9. q \in Pollers
  BY DEF IInv, PlacesInv, Subscribed
<1>0. l \in Local /\ l.ch = 0 /\ l.sub = q /\ l.todo = {} /\ l.managed
  BY <1>9, FreshType, FreshFields, ListedFields
<1>2. /\ Moves(p) /\ pc' \in [Procs -> Places] /\ local' \in [Procs -> Local]
      /\ pc[p] = "insert" /\ pc'[p] = "subscribed" /\ local'[p] = l
  <2>1. GotoWith(p, "subscribed", l) /\ "subscribed" \in Places
    BY DEF Places
  <2> HIDE DEF l
  <2> QED
    BY <1>0, <1>1, <2>1, MovesTo
<1> HIDE DEF l
<1>10. q \notin subs /\ poller[q] = "running" /\ \A r \in Procs \ {p} : local[r].sub # q
  BY <1>2 DEF IInv, SubsInv, Unlisted, Unknown
<1> HIDE DEF q
<1>3. TypeOK'
  BY <1>2, <1>9 DEF IInv, TypeOK, q
<1>4. PlacesInv'
  BY <1>0, <1>2, <1>9, ConfigAssumption DEF IInv, PlacesInv, ClientPlaces, CloserPlaces, PollerPlaces,
       Subscribed, Moves, Procs
<1>5. LatestInv'
  BY <1>0, <1>1, <1>2, LatestMoves, ConfigAssumption DEF Resetting, Requesters
<1>6. ReadInv'
  BY <1>1, <1>2, ReadMoves, ConfigAssumption DEF Requesters
<1>7. SubsInv'
  <2>1. subs' = subs \union {q} /\ poller' = poller /\ local[p].sub = q
    BY DEF q
  <2>2. \A r \in Procs : r # p => pc'[r] = pc[r] /\ local'[r] = local[r]
    BY <1>2 DEF Moves
  <2>3. \A x \in Pollers : \A r : x # q /\ Unknown(x, r) => Unknown(x, r)'
    BY <1>0, <1>2, <2>1, <2>2 DEF Unknown
  <2>4. \A r \in Clients : Unlisted(r)' => r # p /\ Unlisted(r) /\ local[r].sub # q /\ local[r].sub \in Pollers
    BY <1>0, <1>2, <1>10, <2>2 DEF Unlisted, IInv, PlacesInv, Subscribed, Procs
  <2>5. \A r \in Clients : Unlisted(r)' => Unknown(local[r].sub, r)'
    BY <2>2, <2>3, <2>4 DEF IInv, SubsInv, Procs
  <2>6. \A x \in Pollers : poller'[x] = "unused" => Unknown(x, NoOne)'
    BY <1>10, <2>1, <2>3 DEF IInv, SubsInv
  <2>7. \A r \in Clients \union Closers :
          pc'[r] = "remove" => poller'[local'[r].sub] \in {"stopping", "closed"}
    BY <1>2, <2>1, <2>2 DEF IInv, SubsInv, Procs
  <2>8. \A r \in Clients : pc'[r] \in {"register", "insert"} => poller'[local'[r].sub] = "running"
    BY <1>2, <2>1, <2>2 DEF IInv, SubsInv, Procs
  <2>9. SubsMatchPollers'
    BY <1>2, <1>10, <2>1, <2>2 DEF IInv, SubsInv, SubsMatchPollers, Procs
  <2> QED
    BY <2>5, <2>6, <2>7, <2>8, <2>9 DEF SubsInv
<1>8. CloseInv'
  <2>1. \A x \in Closers : pc'[x] = pc[x] /\ local'[x] = local[x]
    BY <1>2, ConfigAssumption DEF Moves, Procs
  <2> QED
    BY <2>1 DEF IInv, CloseInv
<1> QED
  BY <1>3, <1>4, <1>5, <1>6, <1>7, <1>8 DEF IInv

\* SubscribeFails preserves the invariant.
LEMMA SubscribeFailsStep == ASSUME IInv, NEW p \in Clients, SubscribeFails(p) PROVE IInv'
<1> USE DEF SubscribeFails, Return, At, sync, info
<1>1. p \in Procs /\ local[p] \in Local
  BY DEF IInv, TypeOK, Procs, Requesters
<1>2. /\ Moves(p) /\ pc' \in [Procs -> Places] /\ local' \in [Procs -> Local] /\ pc[p] = "rejected"
      /\ \/ pc'[p] = "rejected" /\ local'[p] = local[p]
         \/ pc'[p] = "idle" /\ local'[p] = Fresh
  <2>1. CASE UNCHANGED <<pc, local>>
    BY <1>1, <2>1 DEF Moves, IInv, TypeOK
  <2>2. CASE GotoWith(p, "idle", Fresh)
    BY <1>1, <2>2, FreshType, MovesTo DEF Places
  <2> QED
    BY <2>1, <2>2
<1>3. TypeOK'
  BY <1>2 DEF IInv, TypeOK
<1>4. PlacesInv'
  BY <1>2, ConfigAssumption DEF IInv, PlacesInv, ClientPlaces, CloserPlaces, PollerPlaces,
       Subscribed, Moves, Procs
<1>5. LatestInv'
  BY <1>1, <1>2, FreshFields, LatestMoves, ConfigAssumption DEF Resetting, Requesters
<1>6. ReadInv'
  BY <1>1, <1>2, ReadMoves, ConfigAssumption DEF Requesters
<1>7. SubsInv'
  BY <1>1, <1>2, FreshFields, SubsMoves, ConfigAssumption DEF Unlisted
<1>8. CloseInv'
  BY <1>1, <1>2, CloseMoves, ConfigAssumption
<1> QED
  BY <1>3, <1>4, <1>5, <1>6, <1>7, <1>8 DEF IInv

\* Unsubscribe preserves the invariant.
LEMMA UnsubscribeStep == ASSUME IInv, NEW p \in Clients, Unsubscribe(p) PROVE IInv'
<1> USE DEF Unsubscribe, At, sync, info
<1>1. p \in Procs /\ local[p] \in Local
  BY DEF IInv, TypeOK, Procs, Requesters
<1>2. /\ Moves(p) /\ pc' \in [Procs -> Places] /\ local' \in [Procs -> Local]
      /\ pc[p] = "subscribed" /\ pc'[p] = "stop" /\ local'[p] = local[p]
  BY <1>1, GoesTo DEF Places
<1>3. TypeOK'
  BY <1>2 DEF IInv, TypeOK
<1>4. PlacesInv'
  BY <1>2, ConfigAssumption DEF IInv, PlacesInv, ClientPlaces, CloserPlaces, PollerPlaces,
       Subscribed, Moves, Procs
<1>5. LatestInv'
  BY <1>1, <1>2, LatestMoves, ConfigAssumption DEF Resetting, Requesters
<1>6. ReadInv'
  BY <1>1, <1>2, ReadMoves, ConfigAssumption DEF Requesters
<1>7. SubsInv'
  BY <1>1, <1>2, SubsMoves, ConfigAssumption DEF Unlisted, IInv, PlacesInv
<1>8. CloseInv'
  BY <1>1, <1>2, CloseMoves, ConfigAssumption
<1> QED
  BY <1>3, <1>4, <1>5, <1>6, <1>7, <1>8 DEF IInv

\* A Poller that was started stops or is closed, at the hands of p.
LEMMA PollerStops ==
    ASSUME IInv, NEW p \in Clients \union Closers, NEW v \in {"stopping", "closed"},
           pc[p] \in {"stop", "wait"}, Moves(p), local'[p] = local[p], UNCHANGED subs,
           poller[local[p].sub] # "unused",
           poller' = [poller EXCEPT ![local[p].sub] = v],
           \/ pc'[p] = "wait" /\ v = "stopping"
           \/ pc'[p] = "remove" /\ local[p].managed
           \/ pc'[p] = "rejected" /\ ~local[p].managed
    PROVE  SubsInv' /\ CloseInv'
<1> DEFINE q == local[p].sub
<1>1. p \in Procs /\ q \in Pollers
  BY DEF IInv, PlacesInv, Subscribed, Procs
<1>2. \A r \in Procs : local'[r] = local[r] /\ (r # p => pc'[r] = pc[r])
  BY DEF Moves
<1>3. \A x \in Pollers : poller'[x] = IF x = q THEN v ELSE poller[x]
  BY DEF IInv, TypeOK
<1> HIDE DEF q
<1>4. \A x \in Pollers : \A r : Unknown(x, r) => Unknown(x, r)'
  BY <1>2 DEF Unknown
<1>5. \A r \in Clients : Unlisted(r)' => Unlisted(r) /\ local[r].sub \in Pollers
  <2>1. \A r \in Clients : Unlisted(r)' => Unlisted(r)
    BY <1>2 DEF Unlisted, Procs
  <2> QED
    BY <2>1 DEF Unlisted, IInv, PlacesInv, Subscribed
<1>6. \A r \in Clients : Unlisted(r)' => Unknown(local[r].sub, r)'
  BY <1>2, <1>4, <1>5 DEF IInv, SubsInv, Procs
<1>7. \A x \in Pollers : poller'[x] = "unused" => Unknown(x, NoOne)'
  BY <1>3, <1>4 DEF IInv, SubsInv
<1>8. \A r \in Clients \union Closers :
          pc'[r] = "remove" => poller'[local'[r].sub] \in {"stopping", "closed"}
  <2> SUFFICES ASSUME NEW r \in Clients \union Closers, pc'[r] = "remove"
               PROVE  poller'[local[r].sub] \in {"stopping", "closed"}
    BY <1>2 DEF Procs
  <2>1. CASE r = p
    BY <1>1, <1>3, <2>1 DEF q
  <2>2. CASE r # p
    <3>1. pc[r] = "remove" /\ local[r].sub \in Pollers /\ poller[local[r].sub] \in {"stopping", "closed"}
      BY <1>2, <2>2 DEF IInv, PlacesInv, SubsInv, Subscribed, Procs
    <3> QED
      BY <1>3, <3>1
  <2> QED
    BY <2>1, <2>2
<1>9. \A r \in Clients : pc'[r] \in {"register", "insert"} => poller'[local'[r].sub] = "running"
  <2> SUFFICES ASSUME NEW r \in Clients, pc'[r] \in {"register", "insert"}
               PROVE  poller'[local[r].sub] = "running"
    BY <1>2 DEF Procs
  <2>1. r # p /\ pc[r] \in {"register", "insert"}
    BY <1>2 DEF Procs
  <2>2. Unknown(local[r].sub, r) /\ poller[local[r].sub] = "running" /\ local[r].sub \in Pollers
    BY <2>1 DEF IInv, PlacesInv, SubsInv, Subscribed, Unlisted
  <2>3. local[r].sub # q
    BY <1>1, <2>1, <2>2 DEF Unknown, q
  <2> QED
    BY <1>3, <2>2, <2>3
<1>10. SubsMatchPollers'
  <2> SUFFICES ASSUME NEW x \in Pollers
               PROVE  /\ x \in subs /\ poller'[x] = "closed" =>
                           \E r \in Clients \union Closers : pc'[r] = "remove" /\ local'[r].sub = x
                      /\ x \notin subs /\ poller'[x] = "running" =>
                           \E r \in Clients :
                             pc'[r] \in {"register", "insert", "stop"} /\ local'[r].sub = x
    BY DEF SubsMatchPollers
  <2>1. CASE x # q
    BY <1>2, <1>3, <2>1 DEF IInv, SubsInv, SubsMatchPollers, Procs, q
  <2>2. CASE x = q
    <3>1. poller'[x] = v
      BY <1>3, <2>2
    <3>2. ~local[p].managed => q \notin subs
      BY <1>1, ConfigAssumption DEF IInv, PlacesInv, SubsInv, Unlisted, Unknown, q
    <3>3. x \in subs /\ v = "closed" => pc'[p] = "remove" /\ local'[p].sub = x
      BY <1>1, <1>2, <2>2, <3>2 DEF q
    <3> QED
      BY <3>1, <3>3
  <2> QED
    BY <2>1, <2>2
<1>11. SubsInv'
  BY <1>6, <1>7, <1>8, <1>9, <1>10 DEF SubsInv
<1>12. CloseInv'
  <2> SUFFICES ASSUME NEW x \in Closers, pc'[x] # "idle", local'[x].closing
               PROVE  /\ local[x].keep = {}
                      /\ \A y \in local[x].owed :
                           /\ poller'[y] # "unused"
                           /\ poller'[y] = "running" =>
                                \/ pc'[x] = "collect" /\ y \in subs
                                \/ pc'[x] \notin {"collect", "reset"} /\ y \in local[x].todo
                                \/ pc'[x] = "stop" /\ local[x].sub = y
    BY <1>2 DEF CloseInv, Procs
  <2>1. pc[x] # "idle" /\ local[x].closing /\ local[x].owed \subseteq Pollers
    BY <1>2, LocalFields DEF IInv, TypeOK, Procs
  <2>2. \A y \in local[x].owed : y \in Pollers /\ (poller'[y] = "running" => y # q /\ poller[y] = "running")
    BY <1>3, <2>1
  <2>3. CASE x = p
    BY <1>3, <2>1, <2>2, <2>3 DEF IInv, CloseInv, q
  <2>4. CASE x # p
    <3>1. pc'[x] = pc[x]
      BY <1>2, <2>4 DEF Procs
    <3> QED
      BY <1>3, <2>1, <2>2, <3>1 DEF IInv, CloseInv
  <2> QED
    BY <2>3, <2>4
<1> QED
  BY <1>11, <1>12

\* PollerClose preserves the invariant: the first to call it stops the Poller.
LEMMA PollerCloseStep == ASSUME IInv, NEW p \in Clients \union Closers, PollerClose(p) PROVE IInv'
<1> USE DEF sync, info
<1> DEFINE q == local[p].sub
<1>1. p \in Procs /\ local[p] \in Local /\ pc[p] = "stop" /\ q \in Pollers
  BY DEF PollerClose, At, IInv, TypeOK, PlacesInv, Subscribed, Procs
<1>2. poller[q] # "unused"
  BY <1>1, ConfigAssumption DEF IInv, SubsInv, Unknown
<1>3. UNCHANGED <<lifeCycle, subs, sync, info, panicked>>
  BY DEF PollerClose
<1>4. PICK a \in {"wait", "remove", "rejected"} :
        /\ Goto(p, a)
        /\ \/ a = "wait" /\ poller[q] = "running" /\ poller' = [poller EXCEPT ![q] = "stopping"]
           \/ a = "remove" /\ poller[q] # "running" /\ poller' = poller /\ local[p].managed
           \/ a = "rejected" /\ poller[q] # "running" /\ poller' = poller /\ ~local[p].managed
  BY DEF PollerClose
<1>5. /\ Moves(p) /\ pc' \in [Procs -> Places] /\ local' \in [Procs -> Local]
      /\ pc'[p] = a /\ local'[p] = local[p]
  BY <1>1, <1>4, GoesTo DEF Places
<1>6. poller' \in [Pollers -> {"unused", "running", "stopping", "closed"}]
      /\ \A x \in Pollers : poller'[x] = "unused" <=> poller[x] = "unused"
  BY <1>1, <1>2, <1>4 DEF IInv, TypeOK
<1> HIDE DEF q
<1>7. p \in Closers => local[p].managed
  BY <1>1 DEF IInv, PlacesInv
<1>8. TypeOK'
  BY <1>3, <1>5, <1>6 DEF IInv, TypeOK
<1>9. PlacesInv'
  BY <1>1, <1>4, <1>5, <1>6, <1>7, ConfigAssumption DEF IInv, PlacesInv, ClientPlaces, CloserPlaces,
       PollerPlaces, Subscribed, Moves, Procs
<1>10. LatestInv'
  BY <1>1, <1>3, <1>5, LatestMoves, ConfigAssumption DEF Resetting, Requesters
<1>11. ReadInv'
  BY <1>1, <1>3, <1>5, ReadMoves, ConfigAssumption DEF Requesters
<1>12. SubsInv' /\ CloseInv'
  <2>1. CASE a = "wait"
    BY <1>1, <1>2, <1>3, <1>4, <1>5, <2>1, PollerStops DEF q
  <2>2. CASE a # "wait"
    <3>1. poller' = poller /\ poller[q] \in {"stopping", "closed"} /\ a \in {"remove", "rejected"}
      BY <1>1, <1>2, <1>4, <2>2 DEF IInv, TypeOK
    <3>2. SubsInv'
      BY <1>1, <1>3, <1>4, <1>5, <3>1, SubsMoves, ConfigAssumption DEF Unlisted, q
    <3>3. CloseInv'
      BY <1>1, <1>3, <1>4, <1>5, <3>1, CloseMoves, ConfigAssumption DEF IInv, CloseInv, q
    <3> QED
      BY <3>2, <3>3
  <2> QED
    BY <2>1, <2>2
<1> QED
  BY <1>8, <1>9, <1>10, <1>11, <1>12 DEF IInv

\* PollerClosed preserves the invariant: the polling goroutine has exited.
LEMMA PollerClosedStep == ASSUME IInv, NEW p \in Clients \union Closers, PollerClosed(p) PROVE IInv'
<1> USE DEF sync, info
<1> DEFINE q == local[p].sub
<1>1. p \in Procs /\ local[p] \in Local /\ pc[p] = "wait" /\ q \in Pollers
  BY DEF PollerClosed, At, IInv, TypeOK, PlacesInv, Subscribed, Procs
<1>2. poller[q] # "unused"
  BY <1>1, ConfigAssumption DEF IInv, SubsInv, Unknown
<1>3. UNCHANGED <<lifeCycle, subs, sync, info, panicked>> /\ poller' = [poller EXCEPT ![q] = "closed"]
  BY DEF PollerClosed
<1>4. PICK a \in {"remove", "rejected"} :
        /\ Goto(p, a)
        /\ \/ a = "remove" /\ local[p].managed
           \/ a = "rejected" /\ ~local[p].managed
  BY DEF PollerClosed
<1>5. /\ Moves(p) /\ pc' \in [Procs -> Places] /\ local' \in [Procs -> Local]
      /\ pc'[p] = a /\ local'[p] = local[p]
  BY <1>1, <1>4, GoesTo DEF Places
<1>6. poller' \in [Pollers -> {"unused", "running", "stopping", "closed"}]
      /\ \A x \in Pollers : poller'[x] = "unused" <=> poller[x] = "unused"
  BY <1>1, <1>2, <1>3 DEF IInv, TypeOK
<1> HIDE DEF q
<1>7. p \in Closers => local[p].managed
  BY <1>1 DEF IInv, PlacesInv
<1>8. TypeOK'
  BY <1>3, <1>5, <1>6 DEF IInv, TypeOK
<1>9. PlacesInv'
  BY <1>1, <1>4, <1>5, <1>6, <1>7, ConfigAssumption DEF IInv, PlacesInv, ClientPlaces, CloserPlaces,
       PollerPlaces, Subscribed, Moves, Procs
<1>10. LatestInv'
  BY <1>1, <1>3, <1>5, LatestMoves, ConfigAssumption DEF Resetting, Requesters
<1>11. ReadInv'
  BY <1>1, <1>3, <1>5, ReadMoves, ConfigAssumption DEF Requesters
<1>12. SubsInv' /\ CloseInv'
  BY <1>1, <1>2, <1>3, <1>4, <1>5, PollerStops DEF q
<1> QED
  BY <1>8, <1>9, <1>10, <1>11, <1>12 DEF IInv

\* RemoveSub preserves the invariant.
LEMMA RemoveSubStep == ASSUME IInv, NEW p \in Clients \union Closers, RemoveSub(p) PROVE IInv'
<1> USE DEF RemoveSub, Return, At, sync, info
<1>1. p \in Procs /\ local[p] \in Local
  BY DEF IInv, TypeOK, Procs, Requesters
<1> DEFINE q == local[p].sub
<1>2. /\ Moves(p) /\ pc' \in [Procs -> Places] /\ local' \in [Procs -> Local] /\ pc[p] = "remove"
      /\ \/ p \in Closers /\ pc'[p] = "unsubscribing" /\ local'[p] = local[p]
         \/ p \in Clients /\ pc'[p] = "idle" /\ local'[p] = Fresh
  <2>1. CASE p \in Closers
    BY <1>1, <2>1, GoesTo DEF Places
  <2>2. CASE p \notin Closers
    BY <1>1, <2>2, FreshType, MovesTo DEF Places
  <2> QED
    BY <2>1, <2>2
<1>10. q \in Pollers /\ poller[q] # "running" /\ subs' = subs \ {q} /\ poller' = poller
  BY <1>2 DEF IInv, PlacesInv, Subscribed, SubsInv
<1>11. \A r \in Procs : r # p => pc'[r] = pc[r] /\ local'[r] = local[r]
  BY <1>2 DEF Moves
<1>12. p \in Clients => p \notin Closers
  BY ConfigAssumption
<1>13. q = local[p].sub
  OBVIOUS
<1> HIDE DEF q
<1>3. TypeOK'
  BY <1>2 DEF IInv, TypeOK
<1>4. PlacesInv'
  BY <1>2, ConfigAssumption DEF IInv, PlacesInv, ClientPlaces, CloserPlaces, PollerPlaces,
       Subscribed, Moves, Procs
<1>5. LatestInv'
  BY <1>1, <1>2, FreshFields, LatestMoves, ConfigAssumption DEF Resetting, Requesters
<1>6. ReadInv'
  BY <1>1, <1>2, ReadMoves, ConfigAssumption DEF Requesters
<1>7. SubsInv'
  <2>1. \A x \in Pollers : \A r : Unknown(x, r) => Unknown(x, r)'
    <3>1. \A r \in Procs : \A x \in Pollers :
            /\ local[r].sub # x => local'[r].sub # x
            /\ x \notin local[r].todo => x \notin local'[r].todo
      BY <1>2, <1>11, FreshFields, ConfigAssumption DEF Procs
    <3> QED
      BY <1>10, <3>1 DEF Unknown
  <2>2. \A r \in Clients : Unlisted(r)' => r # p /\ Unlisted(r) /\ local[r].sub \in Pollers
    BY <1>2, <1>11, ConfigAssumption DEF Unlisted, IInv, PlacesInv, Subscribed, Procs
  <2>3. \A r \in Clients : Unlisted(r)' => Unknown(local[r].sub, r)'
    BY <1>11, <2>1, <2>2 DEF IInv, SubsInv, Procs
  <2>4. \A x \in Pollers : poller'[x] = "unused" => Unknown(x, NoOne)'
    BY <1>10, <2>1 DEF IInv, SubsInv
  <2>5. \A r \in Clients \union Closers :
          pc'[r] = "remove" => poller'[local'[r].sub] \in {"stopping", "closed"}
    BY <1>2, <1>10, <1>11 DEF IInv, SubsInv, Procs
  <2>6. \A r \in Clients : pc'[r] \in {"register", "insert"} => poller'[local'[r].sub] = "running"
    BY <1>2, <1>10, <1>11, ConfigAssumption DEF IInv, SubsInv, Procs
  <2>7. SubsMatchPollers'
    BY <1>2, <1>10, <1>11, <1>13 DEF IInv, SubsInv, SubsMatchPollers, Procs
  <2> QED
    BY <2>3, <2>4, <2>5, <2>6, <2>7 DEF SubsInv
<1>8. CloseInv'
  <2>1. \A x \in Closers : /\ local'[x] = local[x]
                           /\ pc'[x] = pc[x] \/ (pc[x] = "remove" /\ pc'[x] = "unsubscribing")
    BY <1>2, <1>11, <1>12 DEF Procs
  <2>2. \A x \in Closers : pc'[x] # "idle" => pc[x] # "idle"
    BY <2>1
  <2>3. \A y : poller[y] = "running" /\ y \in subs => y \in subs'
    BY <1>10
  <2> SUFFICES ASSUME NEW x \in Closers, pc'[x] # "idle", local'[x].closing
               PROVE  /\ local'[x].keep = {}
                      /\ \A y \in local'[x].owed :
                           /\ poller'[y] # "unused"
                           /\ poller'[y] = "running" =>
                                \/ pc'[x] = "collect" /\ y \in subs'
                                \/ pc'[x] \notin {"collect", "reset"} /\ y \in local'[x].todo
                                \/ pc'[x] = "stop" /\ local'[x].sub = y
    BY DEF CloseInv
  <2>4. pc[x] # "idle" /\ local[x].closing /\ local'[x] = local[x] /\ poller' = poller
    BY <1>10, <2>1, <2>2
  <2>5. /\ local[x].keep = {}
        /\ \A y \in local[x].owed :
             /\ poller[y] # "unused"
             /\ poller[y] = "running" =>
                  \/ pc[x] = "collect" /\ y \in subs
                  \/ pc[x] \notin {"collect", "reset"} /\ y \in local[x].todo
                  \/ pc[x] = "stop" /\ local[x].sub = y
    BY <2>4 DEF IInv, CloseInv
  <2> HIDE DEF RemoveSub
  <2> QED
    BY <2>1, <2>3, <2>4, <2>5
<1> QED
  BY <1>3, <1>4, <1>5, <1>6, <1>7, <1>8 DEF IInv

\* Close preserves the invariant.
LEMMA CloseStep == ASSUME IInv, NEW p \in Closers, Close(p) PROVE IInv'
<1> USE DEF Close, At, sync, info
<1>1. p \in Procs /\ local[p] \in Local
  BY DEF IInv, TypeOK, Procs, Requesters
<1> DEFINE l == [Fresh EXCEPT !.closing = TRUE, !.owed = subs]
<1>0. l \in Local /\ l.ch = 0 /\ l.sub = NoOne /\ l.todo = {} /\ l.keep = {} /\ l.owed = subs /\ l.closing
  <2>1. subs \in SUBSET Pollers
    BY DEF IInv, TypeOK
  <2> QED
    BY <2>1, FreshType, FreshFields, CloseFields
<1>2. /\ Moves(p) /\ pc' \in [Procs -> Places] /\ local' \in [Procs -> Local]
      /\ pc[p] = "idle" /\ pc'[p] = "collect" /\ local'[p] = l
  <2>1. GotoWith(p, "collect", l) /\ "collect" \in Places
    BY DEF Places
  <2> HIDE DEF l
  <2> QED
    BY <1>0, <1>1, <2>1, MovesTo
<1> HIDE DEF l
<1>3. TypeOK'
  BY <1>2, ConfigAssumption DEF IInv, TypeOK
<1>4. PlacesInv'
  BY <1>0, <1>2, ConfigAssumption DEF IInv, PlacesInv, ClientPlaces, CloserPlaces, PollerPlaces,
       Subscribed, Moves, Procs
<1>5. LatestInv'
  <2>1. Resetting(p)'
    BY <1>0, <1>2 DEF Resetting
  <2>2. \A r \in Requesters : pc'[r] = pc[r]
    BY <1>2, ConfigAssumption DEF Moves, Requesters, Procs
  <2>3. \A r \in Procs : local'[r].ch <= lifeCycle'
    BY <1>0, <1>2, LocalFields, ConfigAssumption DEF IInv, TypeOK, LatestInv, Moves
  <2> QED
    BY <2>1, <2>2, <2>3 DEF IInv, LatestInv, LatestFromCurrentLifeCycle
<1>6. ReadInv'
  BY <1>1, <1>2, ReadMoves, ConfigAssumption DEF Requesters
<1>7. SubsInv'
  BY <1>0, <1>1, <1>2, SubsMoves, ConfigAssumption DEF Unlisted
<1>8. CloseInv'
  <2>1. \A q \in subs : poller[q] # "unused"
    BY DEF IInv, TypeOK, SubsInv, Unknown
  <2>2. \A x \in Closers \ {p} : pc'[x] = pc[x] /\ local'[x] = local[x]
    BY <1>2 DEF Moves, Procs
  <2> QED
    BY <1>0, <1>2, <2>1, <2>2 DEF IInv, CloseInv
<1> QED
  BY <1>3, <1>4, <1>5, <1>6, <1>7, <1>8 DEF IInv

\* UnsubscribeAllExcept preserves the invariant.
LEMMA UnsubscribeAllExceptStep ==
    ASSUME IInv, NEW p \in Closers, NEW keep \in SUBSET subs, UnsubscribeAllExcept(p, keep)
    PROVE  IInv'
<1> USE DEF UnsubscribeAllExcept, At, sync, info
<1>1. p \in Procs /\ local[p] \in Local
  BY DEF IInv, TypeOK, Procs, Requesters
<1> DEFINE l == [Fresh EXCEPT !.keep = keep]
<1>0. l \in Local /\ l.ch = 0 /\ l.sub = NoOne /\ l.todo = {} /\ l.closing = FALSE
  <2>1. keep \in SUBSET Pollers
    BY DEF IInv, TypeOK
  <2> QED
    BY <2>1, FreshType, FreshFields, KeepFields
<1>2. /\ Moves(p) /\ pc' \in [Procs -> Places] /\ local' \in [Procs -> Local]
      /\ pc[p] = "idle" /\ pc'[p] = "collect" /\ local'[p] = l
  <2>1. GotoWith(p, "collect", l) /\ "collect" \in Places
    BY DEF Places
  <2> HIDE DEF l
  <2> QED
    BY <1>0, <1>1, <2>1, MovesTo
<1> HIDE DEF l
<1>3. TypeOK'
  BY <1>2 DEF IInv, TypeOK
<1>4. PlacesInv'
  BY <1>0, <1>2, ConfigAssumption DEF IInv, PlacesInv, ClientPlaces, CloserPlaces, PollerPlaces,
       Subscribed, Moves, Procs
<1>5. LatestInv'
  BY <1>0, <1>1, <1>2, LatestMoves, ConfigAssumption DEF Resetting, Requesters
<1>6. ReadInv'
  BY <1>1, <1>2, ReadMoves, ConfigAssumption DEF Requesters
<1>7. SubsInv'
  BY <1>0, <1>1, <1>2, SubsMoves, ConfigAssumption DEF Unlisted
<1>8. CloseInv'
  BY <1>0, <1>1, <1>2, CloseMoves, ConfigAssumption
<1> QED
  BY <1>3, <1>4, <1>5, <1>6, <1>7, <1>8 DEF IInv

\* CollectSubs preserves the invariant.
LEMMA CollectSubsStep == ASSUME IInv, NEW p \in Closers, CollectSubs(p) PROVE IInv'
<1> USE DEF CollectSubs, At, sync, info
<1>1. p \in Procs /\ local[p] \in Local
  BY DEF IInv, TypeOK, Procs, Requesters
<1> DEFINE l == [local[p] EXCEPT !.todo = subs \ local[p].keep, !.keep = {}]
<1>0. l \in Local /\ l.ch = local[p].ch /\ l.sub = local[p].sub
      /\ l.todo = subs \ local[p].keep /\ l.keep = {} /\ l.owed = local[p].owed
      /\ l.closing = local[p].closing
  <2>1. subs \ local[p].keep \in SUBSET Pollers
    BY DEF IInv, TypeOK
  <2> QED
    BY <1>1, <2>1, CollectFields
<1>2. /\ Moves(p) /\ pc' \in [Procs -> Places] /\ local' \in [Procs -> Local]
      /\ pc[p] = "collect" /\ pc'[p] = "unlock" /\ local'[p] = l
  <2>1. GotoWith(p, "unlock", l) /\ "unlock" \in Places
    BY DEF Places
  <2> HIDE DEF l
  <2> QED
    BY <1>0, <1>1, <2>1, MovesTo
<1> HIDE DEF l
<1>3. TypeOK'
  BY <1>2 DEF IInv, TypeOK
<1>4. PlacesInv'
  BY <1>0, <1>2, ConfigAssumption DEF IInv, PlacesInv, ClientPlaces, CloserPlaces, PollerPlaces,
       Subscribed, Moves, Procs
<1>5. LatestInv'
  BY <1>0, <1>1, <1>2, LatestMoves, ConfigAssumption DEF Resetting, Requesters
<1>6. ReadInv'
  BY <1>1, <1>2, ReadMoves, ConfigAssumption DEF Requesters
<1>7. SubsInv'
  BY <1>0, <1>1, <1>2, SubsMoves, ConfigAssumption DEF Unlisted
<1>8. CloseInv'
  BY <1>0, <1>1, <1>2, CloseMoves, ConfigAssumption DEF IInv, CloseInv
<1> QED
  BY <1>3, <1>4, <1>5, <1>6, <1>7, <1>8 DEF IInv

\* UnlockSubs preserves the invariant.
LEMMA UnlockSubsStep == ASSUME IInv, NEW p \in Closers, UnlockSubs(p) PROVE IInv'
<1> USE DEF UnlockSubs, At, sync, info
<1>1. p \in Procs /\ local[p] \in Local
  BY DEF IInv, TypeOK, Procs, Requesters
<1>2. /\ Moves(p) /\ pc' \in [Procs -> Places] /\ local' \in [Procs -> Local]
      /\ pc[p] = "unlock" /\ pc'[p] = "unsubscribing" /\ local'[p] = local[p]
  BY <1>1, GoesTo DEF Places
<1>3. TypeOK'
  BY <1>2 DEF IInv, TypeOK
<1>4. PlacesInv'
  BY <1>2, ConfigAssumption DEF IInv, PlacesInv, ClientPlaces, CloserPlaces, PollerPlaces,
       Subscribed, Moves, Procs
<1>5. LatestInv'
  BY <1>1, <1>2, LatestMoves, ConfigAssumption DEF Resetting, Requesters
<1>6. ReadInv'
  BY <1>1, <1>2, ReadMoves, ConfigAssumption DEF Requesters
<1>7. SubsInv'
  BY <1>1, <1>2, SubsMoves, ConfigAssumption DEF Unlisted
<1>8. CloseInv'
  BY <1>1, <1>2, CloseMoves, ConfigAssumption DEF IInv, CloseInv
<1> QED
  BY <1>3, <1>4, <1>5, <1>6, <1>7, <1>8 DEF IInv

\* UnsubscribeNext preserves the invariant.
LEMMA UnsubscribeNextStep == ASSUME IInv, NEW p \in Closers, UnsubscribeNext(p) PROVE IInv'
<1> USE DEF UnsubscribeNext, At, sync, info
<1>1. p \in Procs /\ local[p] \in Local
  BY DEF IInv, TypeOK, Procs, Requesters
<1>2. /\ Moves(p) /\ pc' \in [Procs -> Places] /\ local' \in [Procs -> Local]
      /\ pc[p] = "unsubscribing" /\ pc'[p] = "stop" /\ local'[p].managed /\ local'[p].sub \in Pollers
      /\ local'[p].sub \in local[p].todo /\ local'[p].todo = local[p].todo \ {local'[p].sub}
      /\ local'[p].closing = local[p].closing /\ local'[p].ch = local[p].ch
      /\ local'[p].keep = local[p].keep /\ local'[p].owed = local[p].owed
  <2>1. PICK q \in local[p].todo :
          GotoWith(p, "stop", [local[p] EXCEPT !.sub = q, !.managed = TRUE, !.todo = @ \ {q}])
    OBVIOUS
  <2>2. q \in Pollers /\ local[p].todo \ {q} \in SUBSET Pollers /\ "stop" \in Places
    BY <1>1, LocalFields DEF Places
  <2> DEFINE l == [local[p] EXCEPT !.sub = q, !.managed = TRUE, !.todo = @ \ {q}]
  <2>3. /\ l \in Local /\ l.ch = local[p].ch /\ l.sub = q /\ l.todo = local[p].todo \ {q} /\ l.managed
        /\ l.keep = local[p].keep /\ l.owed = local[p].owed /\ l.closing = local[p].closing
    BY <1>1, <2>2, NextFields
  <2>4. GotoWith(p, "stop", l)
    BY <2>1
  <2> HIDE DEF l
  <2> QED
    BY <1>1, <2>2, <2>3, <2>4, MovesTo
<1>3. TypeOK'
  BY <1>2 DEF IInv, TypeOK
<1>4. PlacesInv'
  BY <1>2, ConfigAssumption DEF IInv, PlacesInv, ClientPlaces, CloserPlaces, PollerPlaces,
       Subscribed, Moves, Procs
<1>5. LatestInv'
  BY <1>1, <1>2, LatestMoves, ConfigAssumption DEF Resetting, Requesters
<1>6. ReadInv'
  BY <1>1, <1>2, ReadMoves, ConfigAssumption DEF Requesters
<1>7. SubsInv'
  BY <1>1, <1>2, SubsMoves, ConfigAssumption DEF Unlisted
<1>8. CloseInv'
  BY <1>1, <1>2, CloseMoves, ConfigAssumption DEF IInv, CloseInv
<1> QED
  BY <1>3, <1>4, <1>5, <1>6, <1>7, <1>8 DEF IInv

\* UnsubscribedAll preserves the invariant.
LEMMA UnsubscribedAllStep == ASSUME IInv, NEW p \in Closers, UnsubscribedAll(p) PROVE IInv'
<1> USE DEF UnsubscribedAll, Return, At, sync, info
<1>1. p \in Procs /\ local[p] \in Local
  BY DEF IInv, TypeOK, Procs, Requesters
<1>2. /\ Moves(p) /\ pc' \in [Procs -> Places] /\ local' \in [Procs -> Local]
      /\ pc[p] = "unsubscribing" /\ local[p].todo = {}
      /\ \/ local[p].closing /\ pc'[p] = "reset" /\ local'[p] = local[p]
         \/ ~local[p].closing /\ pc'[p] = "idle" /\ local'[p] = Fresh
  <2>1. CASE local[p].closing
    BY <1>1, <2>1, GoesTo DEF Places
  <2>2. CASE ~local[p].closing
    BY <1>1, <2>2, FreshType, MovesTo DEF Places
  <2> QED
    BY <2>1, <2>2
<1>3. TypeOK'
  BY <1>2 DEF IInv, TypeOK
<1>4. PlacesInv'
  BY <1>2, ConfigAssumption DEF IInv, PlacesInv, ClientPlaces, CloserPlaces, PollerPlaces,
       Subscribed, Moves, Procs
<1>5. LatestInv'
  BY <1>1, <1>2, FreshFields, LatestMoves, ConfigAssumption DEF Resetting, Requesters
<1>6. ReadInv'
  BY <1>1, <1>2, ReadMoves, ConfigAssumption DEF Requesters
<1>7. SubsInv'
  BY <1>1, <1>2, FreshFields, SubsMoves, ConfigAssumption DEF Unlisted
<1>8. CloseInv'
  BY <1>1, <1>2, CloseMoves, ConfigAssumption DEF IInv, CloseInv
<1> QED
  BY <1>3, <1>4, <1>5, <1>6, <1>7, <1>8 DEF IInv

-----------------------------------------------------------------------------
(* The theorems.                                                           *)

\* The invariant holds initially.
LEMMA InitIInv == Init => IInv
<1> SUFFICES ASSUME Init PROVE IInv
  OBVIOUS
<1>1. \A p \in Procs : pc[p] = "idle" /\ local[p] = Fresh
  BY DEF Init
<1>2. Clients \subseteq Procs /\ Closers \subseteq Procs /\ Pollers \subseteq Procs /\ Requesters \subseteq Procs
  BY DEF Procs, Requesters
<1>3. TypeOK
  <2>1. NoChainInfo \in ChainInfo
    BY DEF NoChainInfo, ChainInfo, NilDifficulty
  <2>2. "idle" \in Places /\ 0 \in 0 .. MaxLifeCycle /\ Fresh \in Local
    BY FreshType, ConfigAssumption DEF Places
  <2> QED
    BY <2>1, <2>2 DEF Init, TypeOK
<1>4. PlacesInv
  BY <1>1, <1>2 DEF Init, PlacesInv, ClientPlaces, CloserPlaces, PollerPlaces, Subscribed
<1>5. LatestInv
  BY <1>1, <1>2, FreshFields, ConfigAssumption DEF Init, LatestInv, LatestFromCurrentLifeCycle
<1>6. ReadInv
  BY <1>1, <1>2 DEF Init, ReadInv, RepeatableRead, Highest, NoChainInfo
<1>7. SubsInv
  BY <1>1, <1>2, FreshFields, ConfigAssumption DEF Init, SubsInv, Unlisted, Unknown, SubsMatchPollers
<1>8. CloseInv
  BY <1>1, <1>2 DEF CloseInv
<1> QED
  BY <1>3, <1>4, <1>5, <1>6, <1>7, <1>8 DEF IInv

\* Every step of Next preserves the invariant.
LEMMA NextIInv == IInv /\ [Next]_vars => IInv'
<1> SUFFICES ASSUME IInv, [Next]_vars PROVE IInv'
  OBVIOUS
<1>1. ASSUME NEW p \in Clients, NEW k \in Kinds, NEW health \in BOOLEAN,
             LatestBlock(p, k, health) \/ Subscribe(p, k, health)
      PROVE  IInv'
  BY <1>1, LatestBlockStep, SubscribeStep
<1>2. ASSUME NEW p \in Clients, Subscribing(p) \/ Unsubscribe(p) PROVE IInv'
  BY <1>2, RegisterSubStep, AddSubStep, SubscribeFailsStep, UnsubscribeStep DEF Subscribing
<1>3. ASSUME NEW p \in Requesters, Request(p) PROVE IInv'
  BY <1>3, LatestBlockFailsStep, LatestBlockAnswersStep, OnNewHeadStaleStep, OnNewHeadStep,
     StoreLatestStep DEF Request
<1>4. ASSUME NEW q \in Pollers, Polling(q) PROVE IInv'
  BY <1>4, PollTickStep, PollDeliverStep, PollExitStep DEF Polling
<1>5. ASSUME NEW p \in Clients \union Closers, Stopping(p) PROVE IInv'
  BY <1>5, PollerCloseStep, PollerClosedStep, RemoveSubStep DEF Stopping
<1>6. ASSUME NEW x \in Closers, Close(x) \/ Closing(x) PROVE IInv'
  BY <1>6, CloseStep, CollectSubsStep, UnlockSubsStep, UnsubscribeNextStep, UnsubscribedAllStep,
     ResetLatestChainInfoStep DEF Closing
<1>7. ASSUME NEW x \in Closers, NEW keep \in SUBSET subs, UnsubscribeAllExcept(x, keep) PROVE IInv'
  BY <1>7, UnsubscribeAllExceptStep
<1>8. CASE UNCHANGED vars
  BY <1>8 DEF vars, sync, info, IInv, TypeOK, PlacesInv, LatestInv, ReadInv, SubsInv, CloseInv,
     LatestFromCurrentLifeCycle, RepeatableRead, SubsMatchPollers, Highest, Resetting, Unlisted, Unknown
<1> QED
  BY <1>1, <1>2, <1>3, <1>4, <1>5, <1>6, <1>7, <1>8 DEF Next

\* Every reachable state satisfies the inductive invariant.
THEOREM Invariance == Spec => []IInv
BY InitIInv, NextIInv, PTL DEF Spec

\* Every variable keeps its type.
THEOREM TypeCorrect == Spec => []TypeOK
<1>1. IInv => TypeOK
  BY DEF IInv
<1> QED
  BY <1>1, Invariance, PTL

\* Whatever requests and Closes overlap, latestChainInfo holds heads of the current life cycle,
\* or a Close that will wipe it is at work.
THEOREM LatestIsCurrent == Spec => []LatestFromCurrentLifeCycle
<1>1. IInv => LatestFromCurrentLifeCycle
  BY DEF IInv, LatestInv
<1> QED
  BY <1>1, Invariance, PTL

\* A head that a user request returned is in highestUserObservations, and nothing else is.
THEOREM ReadsAreRepeatable == Spec => []RepeatableRead
<1>1. IInv => RepeatableRead
  BY DEF IInv, ReadInv
<1> QED
  BY <1>1, Invariance, PTL

\* The list of subscriptions and the polling goroutines agree.
THEOREM SubsAgree == Spec => []SubsMatchPollers
<1>1. IInv => SubsMatchPollers
  BY DEF IInv, SubsInv
<1> QED
  BY <1>1, Invariance, PTL

\* Close has stopped what was registered when it began, whoever else was unsubscribing.
THEOREM CloseStops == Spec => []CloseStopsSubscriptions
<1>1. IInv => CloseStopsSubscriptions
  <2> SUFFICES ASSUME IInv, NEW x \in Closers, pc[x] = "reset", NEW q \in local[x].owed
               PROVE  poller[q] \in {"stopping", "closed"}
    BY DEF CloseStopsSubscriptions
  <2>1. local[x].closing /\ q \in Pollers
    BY LocalFields DEF IInv, TypeOK, PlacesInv, Procs
  <2>2. poller[q] # "unused" /\ poller[q] # "running"
    BY <2>1 DEF IInv, CloseInv
  <2> QED
    BY <2>1, <2>2 DEF IInv, TypeOK
<1> QED
  BY <1>1, Invariance, PTL

\* However subscribers, Closes and polling goroutines overlap, the list of subscriptions
\* agrees with them, and a Close stops what was listed when it began.
THEOREM SubsControlled == Spec => []SubsUnderControl
BY SubsAgree, CloseStops, PTL DEF SubsUnderControl

\* Only OnNewHead changes the highest observations, and it raises them.
LEMMA OnNewHeadRaises ==
    ASSUME IInv, NEW p \in Requesters, OnNewHead(p)
    PROVE  \/ highestUserObservations' = highestUserObservations
           \/ /\ highestUserObservations'.BlockNumber >= highestUserObservations.BlockNumber
              /\ highestUserObservations'.FinalizedBlockNumber
                   >= highestUserObservations.FinalizedBlockNumber
              /\ highestUserObservations'.TotalDifficulty
                   >= highestUserObservations.TotalDifficulty
<1> DEFINE k == local[p].kind
           h == local[p].head
<1>1. k \in Kinds /\ h \in Heads \union {NoHead} /\ h.number \in Nat
  BY LocalFields, HeadFields DEF IInv, TypeOK, Procs, Requesters
<1>2. highestUserObservations' \in {highestUserObservations, Observed(k, h)}
  BY DEF OnNewHead
<1>3. highestUserObservations \in ChainInfo
  BY DEF IInv, TypeOK
<1> HIDE DEF k, h
<1>4. /\ Observed(k, h).BlockNumber >= highestUserObservations.BlockNumber
      /\ Observed(k, h).FinalizedBlockNumber >= highestUserObservations.FinalizedBlockNumber
      /\ Observed(k, h).TotalDifficulty >= highestUserObservations.TotalDifficulty
  BY <1>1, <1>3, ObservedFields DEF IInv, ChainInfo, MaxNumber
<1> QED
  BY <1>2, <1>4

\* Nothing ever lowers what users have observed: no Close, no late answer, no health check.
THEOREM HighestMonotone == Spec => HighestNeverDecreases
<1> DEFINE Raises ==
             /\ highestUserObservations'.BlockNumber >= highestUserObservations.BlockNumber
             /\ highestUserObservations'.FinalizedBlockNumber
                  >= highestUserObservations.FinalizedBlockNumber
             /\ highestUserObservations'.TotalDifficulty
                  >= highestUserObservations.TotalDifficulty
<1>1. ASSUME IInv, [Next]_vars PROVE [Raises]_vars
  <2>1. highestUserObservations' = highestUserObservations => Raises
    BY <1>1 DEF IInv, TypeOK, ChainInfo
  <2>2. CASE Next
    <3> USE DEF info
    <3>1. ASSUME NEW p \in Clients, NEW k \in Kinds, NEW health \in BOOLEAN,
                 LatestBlock(p, k, health) \/ Subscribe(p, k, health)
          PROVE  Raises
      BY <3>1, <2>1 DEF LatestBlock, Subscribe
    <3>2. ASSUME NEW p \in Clients, Subscribing(p) \/ Unsubscribe(p) PROVE Raises
      BY <3>2, <2>1 DEF Subscribing, RegisterSub, AddSub, SubscribeFails, Unsubscribe
    <3>3. ASSUME NEW p \in Requesters, Request(p) PROVE Raises
      BY <1>1, <3>3, <2>1, OnNewHeadRaises DEF Request, LatestBlockFails, LatestBlockAnswers, StoreLatest
    <3>4. ASSUME NEW q \in Pollers, Polling(q) PROVE Raises
      BY <3>4, <2>1 DEF Polling, PollTick, PollDeliver, PollExit
    <3>5. ASSUME NEW p \in Clients \union Closers, Stopping(p) PROVE Raises
      BY <3>5, <2>1 DEF Stopping, PollerClose, PollerClosed, RemoveSub
    <3>6. ASSUME NEW x \in Closers, Close(x) \/ Closing(x) PROVE Raises
      BY <3>6, <2>1 DEF Close, Closing, CollectSubs, UnlockSubs, UnsubscribeNext, UnsubscribedAll,
         ResetLatestChainInfo
    <3>7. ASSUME NEW x \in Closers, NEW keep \in SUBSET subs, UnsubscribeAllExcept(x, keep) PROVE Raises
      BY <3>7, <2>1 DEF UnsubscribeAllExcept
    <3> HIDE DEF Raises
    <3> QED
      BY <2>2, <3>1, <3>2, <3>3, <3>4, <3>5, <3>6, <3>7 DEF Next
  <2> QED
    BY <1>1, <2>2
<1> QED
  BY <1>1, Invariance, PTL DEF Spec, HighestNeverDecreases

=============================================================================
