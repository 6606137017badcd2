-------------------------- MODULE TxConfirmerProofs --------------------------
(***************************************************************************)
(* The confirmer's safety properties, for any number of transactions and   *)
(* any limits.                                                             *)
(***************************************************************************)
EXTENDS TxConfirmer, TLAPS

USE ConfirmerAssumption, ZenonT(5), SMTT(12), Z3T(12), ZenonT(20)

-----------------------------------------------------------------------------
(* What the invariants say of one transaction's attempts.                  *)

Rows == [kind : Kinds, state : {"in_progress", "broadcast", "insufficient"}]
Prog(s) == \E i \in DOMAIN s : s[i].state = "in_progress"
Purge(s) == \E i \in DOMAIN s : s[i].kind = "purge"
Ordered(s) == \A i \in DOMAIN s : s[i].state = "in_progress" => i = 1

-----------------------------------------------------------------------------
(* The inductive invariant.                                                *)

SendPlaces == {"send", "sent", "confirmed", "broke", "delete", "bump", "purge"}
States == Settled \cup {"absent", "in_progress", "unconfirmed"}
Places == SendPlaces \cup
    {"off", "idle", "count", "find", "reorg", "included", "include", "detect",
     "resume", "completed", "progress", "attempts", "require", "rebroadcast"}
Sending == pc \in SendPlaces
Known(t) == Purge(attempts[t]) \/ t \in refused

Types ==
    /\ state \in [Txs -> States]
    /\ attempts \in [Txs -> Seq(Rows)]
    /\ pool \subseteq Txs \X Kinds /\ resend \subseteq Txs \X Kinds
    /\ mined \in 0..N /\ count \in 0..N
    /\ reorged \subseteq Txs /\ included \subseteq Txs /\ late \subseteq Txs /\ todo \subseteq Txs
    /\ signalled \subseteq Txs /\ resumed \subseteq Txs /\ refused \subseteq Txs
    /\ trouble \in 0..MaxTrouble
    /\ pc \in Places /\ (svc = "stopped" => pc = "off")

\* Of each transaction: at most its first attempt is in progress, one that
\* has a purge attempt is not confirmed, one that the broadcaster has not
\* handed over has none, and nothing is known of one it has not sent.
RowInv ==
    \A t \in Txs :
        /\ Ordered(attempts[t])
        /\ Purge(attempts[t]) => state[t] \notin {"confirmed", "finalized"}
        /\ state[t] = "in_progress" => attempts[t] = <<>>
        /\ state[t] = "absent" =>
             /\ attempts[t] = <<>> /\ t >= mined /\ t >= count
             /\ \A k \in Kinds : <<t, k>> \notin pool /\ <<t, k>> \notin resend
             /\ t \notin resumed

\* Purges that are sent or about to be, and pipelines that were failed.
PurgeInv ==
    \A t \in Txs :
        /\ <<t, "purge">> \in pool => Known(t)
        /\ <<t, "purge">> \in resend => Known(t)
        /\ t \in resumed => Known(t)

\* The attempt being sent is the first of an unconfirmed transaction.
SendInv ==
    /\ Sending =>
         /\ cur \in Txs /\ state[cur] = "unconfirmed" /\ Prog(attempts[cur])
         /\ then \in {"resume", "attempts", "rebroadcast"}
         /\ then = "resume" => Known(cur)
    /\ pc \in {"resume", "completed"} => cur \in Txs /\ state[cur] # "absent" /\ Known(cur)
    /\ ~Sending /\ pc \notin {"resume", "completed"} => cur = NoTx

\* The transactions with an attempt in progress are the ones still to be
\* handled, then only the current one.
LeftInv ==
    /\ pc = "attempts" \/ (Sending /\ then = "attempts") =>
         \A t \in Txs : t \in todo <=> /\ state[t] = "unconfirmed" /\ Prog(attempts[t])
                                       /\ t # cur
    /\ pc \in {"require", "rebroadcast"} \/ (Sending /\ then = "rebroadcast") =>
         \A t \in Txs : state[t] = "unconfirmed" /\ Prog(attempts[t]) => t = cur
    /\ pc = "rebroadcast" \/ (Sending /\ then = "rebroadcast") =>
         \A t \in todo : state[t] = "unconfirmed" /\ t # cur

\* CheckForConfirmation, step by step: what was handed over since it looked
\* at the store is unconfirmed.
Late(t) == t \in late /\ state[t] = "unconfirmed"
CheckInv ==
    \A t \in Txs :
        /\ pc = "reorg" =>
             /\ t \in reorged <=> t >= count /\ state[t] \in Settled
             /\ t < count /\ state[t] = "unconfirmed" => t \in included \/ Late(t)
        /\ pc \in {"reorg", "included", "include"} =>
             (t \in included => t < count /\ state[t] \notin {"absent", "in_progress"})
        /\ pc \in {"included", "include", "detect"} /\ t >= count => state[t] \notin Settled
        /\ pc = "included" /\ t < count =>
             state[t] \in Settled \cup {"in_progress"} \/ t \in included \/ Late(t)
        /\ pc = "include" /\ t < count =>
             \/ state[t] \in Settled \cup {"in_progress"}
             \/ t \in included /\ ~Purge(attempts[t])
             \/ Late(t)
        /\ pc = "detect" /\ t < count => state[t] \in Settled \cup {"in_progress"} \/ Late(t)

IInv == Types /\ RowInv /\ PurgeInv /\ SendInv /\ LeftInv /\ CheckInv

-----------------------------------------------------------------------------
(* The operations on a transaction's attempts.                             *)

\* A new attempt goes first.
LEMMA Prepends ==
    ASSUME NEW s \in Seq(Rows), NEW a \in Rows, ~Prog(s)
    PROVE  /\ <<a>> \o s \in Seq(Rows)
           /\ Ordered(<<a>> \o s)
           /\ Prog(<<a>> \o s) <=> a.state = "in_progress"
           /\ Purge(<<a>> \o s) <=> a.kind = "purge" \/ Purge(s)
           /\ <<a>> \o s # <<>>
<1> DEFINE r == <<a>> \o s
<1>1. r \in Seq(Rows) /\ Len(r) = Len(s) + 1 /\ DOMAIN r = 1..(Len(s) + 1)
  OBVIOUS
<1>2. r[1] = a /\ \A i \in DOMAIN s : i + 1 \in DOMAIN r /\ r[i + 1] = s[i]
  OBVIOUS
<1>3. \A i \in DOMAIN r : i # 1 => i - 1 \in DOMAIN s /\ r[i] = s[i - 1]
  OBVIOUS
<1>4. 1 \in DOMAIN r
  BY <1>1
<1> HIDE DEF r
<1>5. Ordered(r)
  BY <1>3 DEF Ordered, Prog
<1>6. Prog(r) <=> a.state = "in_progress"
  BY <1>2, <1>3, <1>4 DEF Prog
<1>7. Purge(r) <=> a.kind = "purge" \/ Purge(s)
  BY <1>2, <1>3, <1>4 DEF Purge
<1>8. r # <<>>
  BY <1>1
<1> QED
  BY <1>1, <1>5, <1>6, <1>7, <1>8 DEF r

\* The first attempt changes its state.
LEMMA SetsFirst ==
    ASSUME NEW s \in Seq(Rows), s # <<>>, Ordered(s),
           NEW x \in {"in_progress", "broadcast", "insufficient"}
    PROVE  LET r == [s EXCEPT ![1].state = x]
           IN  /\ r \in Seq(Rows) /\ Ordered(r) /\ r # <<>>
               /\ Prog(r) <=> x = "in_progress"
               /\ Purge(r) <=> Purge(s)
<1> DEFINE r == [s EXCEPT ![1].state = x]
<1>1. 1 \in DOMAIN s /\ DOMAIN s = 1..Len(s) /\ Len(s) \in Nat
  OBVIOUS
<1>2. \A i \in DOMAIN s : s[i] \in Rows
  OBVIOUS
<1>3. DOMAIN r = DOMAIN s
  OBVIOUS
<1>4. r[1] = [s[1] EXCEPT !.state = x] /\ \A i \in DOMAIN s : i # 1 => r[i] = s[i]
  BY <1>1
<1>5. r[1].state = x /\ r[1].kind = s[1].kind /\ r[1] \in Rows
  BY <1>1, <1>2, <1>4 DEF Rows
<1>6. r = [i \in 1..Len(s) |-> r[i]]
  BY <1>1
<1> HIDE DEF r
<1>7. \A i \in 1..Len(s) : r[i] \in Rows
  BY <1>1, <1>2, <1>4, <1>5
<1>8. r \in Seq(Rows)
  BY <1>1, <1>6, <1>7
<1>9. Ordered(r)
  BY <1>3, <1>4 DEF Ordered
<1>10. Prog(r) <=> x = "in_progress"
  BY <1>1, <1>3, <1>4, <1>5 DEF Prog, Ordered
<1>11. Purge(r) <=> Purge(s)
  <2>1. \A i \in DOMAIN s : r[i].kind = s[i].kind
    BY <1>4, <1>5
  <2> QED
    BY <1>3, <2>1 DEF Purge
<1>12. r # <<>>
  BY <1>1, <1>3
<1> QED
  BY <1>8, <1>9, <1>10, <1>11, <1>12 DEF r

\* The first attempt is deleted.
LEMMA RemovesFirst ==
    ASSUME NEW s \in Seq(Rows), s # <<>>, Ordered(s)
    PROVE  /\ Without(s, 1) \in Seq(Rows)
           /\ ~Prog(Without(s, 1))
           /\ Ordered(Without(s, 1))
           /\ Purge(s) <=> s[1].kind = "purge" \/ Purge(Without(s, 1))
<1> DEFINE r == SubSeq(s, 2, Len(s))
<1>1. SubSeq(s, 1, 0) = <<>>
  OBVIOUS
<1>2. r \in Seq(Rows) /\ Len(r) = Len(s) - 1 /\ DOMAIN r = 1..(Len(s) - 1)
  <2>1. \A i \in 2..Len(s) : s[i] \in Rows
    OBVIOUS
  <2>2. Len(s) \in Nat \ {0}
    OBVIOUS
  <2>3. r = [i \in 1..(Len(s) - 1) |-> s[i + 1]]
    BY <2>2
  <2>4. \A i \in 1..(Len(s) - 1) : s[i + 1] \in Rows
    BY <2>1, <2>2
  <2>5. r \in [1..(Len(s) - 1) -> Rows]
    BY <2>3, <2>4
  <2>6. Len(s) - 1 \in Nat
    BY <2>2
  <2> HIDE DEF r
  <2>7. r \in Seq(Rows)
    BY <2>5, <2>6
  <2>8. DOMAIN r = 1..(Len(s) - 1)
    BY <2>3
  <2>9. Len(r) = Len(s) - 1
    BY <2>6, <2>7, <2>8
  <2> QED
    BY <2>7, <2>8, <2>9
<1>3. \A i \in DOMAIN r : r[i] = s[i + 1] /\ i + 1 \in DOMAIN s /\ i + 1 # 1
  OBVIOUS
<1>4. Without(s, 1) = r
  BY <1>1, <1>2 DEF Without
<1>5. \A i \in DOMAIN s : i # 1 => i - 1 \in DOMAIN r /\ r[i - 1] = s[i]
  OBVIOUS
<1>6. 1 \in DOMAIN s
  OBVIOUS
<1> HIDE DEF r
<1>7. ~Prog(r)
  BY <1>3 DEF Prog, Ordered
<1>8. Ordered(r)
  BY <1>7 DEF Prog, Ordered
<1>9. Purge(s) <=> s[1].kind = "purge" \/ Purge(r)
  BY <1>3, <1>5, <1>6 DEF Purge
<1> QED
  BY <1>2, <1>4, <1>7, <1>8, <1>9

\* The attempt in progress is the first.
LEMMA CurrentIsFirst ==
    ASSUME NEW t \in Txs, attempts[t] \in Seq(Rows), Ordered(attempts[t]), Prog(attempts[t])
    PROVE  Current(t) = 1 /\ attempts[t] # <<>> /\ attempts[t][1].state = "in_progress"
                          /\ attempts[t][1] \in Rows
<1>1. PICK i \in DOMAIN attempts[t] : attempts[t][i].state = "in_progress"
  BY DEF Prog
<1>2. i = 1 /\ \A j \in DOMAIN attempts[t] : attempts[t][j].state = "in_progress" => j = 1
  BY <1>1 DEF Ordered
<1>3. Current(t) = 1
  BY <1>1, <1>2 DEF Current
<1> QED
  BY <1>1, <1>2, <1>3

-----------------------------------------------------------------------------
(* What holds at rest, and what no step of the loop alone disturbs.        *)

LEMMA AtRest ==
    ASSUME pc' \in {"idle", "off", "count", "find"}, cur' = NoTx
    PROVE  SendInv' /\ LeftInv' /\ CheckInv'
BY DEF SendInv, LeftInv, CheckInv, Late, Sending, SendPlaces

LEMMA Kept ==
    ASSUME IInv, UNCHANGED <<state, attempts, pool, mined, resumed, refused>>,
           resend' \subseteq resend, count' = count \/ count' = 0
    PROVE  RowInv' /\ PurgeInv'
<1>1. RowInv'
  BY DEF IInv, Types, RowInv, Txs
<1>2. PurgeInv'
  BY DEF IInv, PurgeInv, Known
<1> QED
  BY <1>1, <1>2

LEMMA TroubleType ==
    ASSUME trouble \in 0..MaxTrouble, Trouble \/ NoTrouble
    PROVE  trouble' \in 0..MaxTrouble
BY DEF Trouble, NoTrouble

\* processHead returns, or the process dies.
LEMMA ReturnStep ==
    ASSUME IInv, Forget, pc' \in {"idle", "off"}, svc' = "stopped" => pc' = "off",
           UNCHANGED <<store, chain, history>>, resend' \subseteq resend,
           trouble' \in 0..MaxTrouble
    PROVE  IInv'
<1>1. Types'
  BY DEF IInv, Types, Forget, Checked, store, chain, history, Places
<1>2. RowInv' /\ PurgeInv'
  BY Kept DEF Forget, Checked, store, chain, history
<1>3. SendInv' /\ LeftInv' /\ CheckInv'
  BY AtRest DEF Forget
<1> QED
  BY <1>1, <1>2, <1>3 DEF IInv

-----------------------------------------------------------------------------
(* Each action keeps the invariant.                                        *)

LEMMA InitInv == Init => IInv
<1> SUFFICES ASSUME Init PROVE IInv
  OBVIOUS
<1>1. Types
  BY DEF Init, Types, States, Places, Txs
<1>2. RowInv
  BY DEF Init, RowInv, Txs, Ordered, Purge
<1>3. PurgeInv
  BY DEF Init, PurgeInv
<1>4. SendInv /\ LeftInv /\ CheckInv
  BY DEF Init, SendInv, LeftInv, CheckInv, Late, Sending, SendPlaces
<1> QED
  BY <1>1, <1>2, <1>3, <1>4 DEF IInv

LEMMA LifecycleStep ==
    ASSUME IInv, Start \/ Close \/ Exit \/ Crash \/ runLoop
    PROVE  IInv'
<1>1. CASE Start \/ Exit \/ runLoop
  <2>1. Types'
    BY <1>1 DEF IInv, Types, Start, Exit, runLoop, store, chain, found, work, history, Places
  <2>2. RowInv' /\ PurgeInv'
    BY <1>1, Kept DEF Start, Exit, runLoop, store, chain, found, work, history
  <2>3. SendInv' /\ LeftInv' /\ CheckInv'
    <3>1. cur' = NoTx /\ pc' \in {"idle", "off", "count"}
      BY <1>1 DEF IInv, Types, SendInv, Sending, SendPlaces, Start, Exit, runLoop, work
    <3> QED
      BY <3>1, AtRest
  <2> QED
    BY <2>1, <2>2, <2>3 DEF IInv
<1>2. CASE Close
  <2>1. Types'
    BY <1>2 DEF IInv, Types, Close, Trouble, store, chain, found, work, history
  <2>2. RowInv' /\ PurgeInv'
    BY <1>2, Kept DEF Close, store, chain, found, work, history
  <2>3. SendInv' /\ LeftInv' /\ CheckInv'
    BY <1>2 DEF IInv, SendInv, LeftInv, CheckInv, Late, Close, Sending, Known, store, chain, found, work, history
  <2> QED
    BY <2>1, <2>2, <2>3 DEF IInv
<1>3. CASE Crash
  <2>1. trouble' \in 0..MaxTrouble
    BY <1>3, TroubleType DEF IInv, Types, Crash
  <2> QED
    BY <1>3, <2>1, ReturnStep DEF Crash
<1> QED
  BY <1>1, <1>2, <1>3

LEMMA FailingStep ==
    ASSUME IInv, NEW P, Failing(P), P \subseteq Places \ {"off"}
    PROVE  IInv'
<1>1. trouble' \in 0..MaxTrouble
  BY TroubleType DEF IInv, Types, Failing
<1>2. svc' # "stopped"
  BY DEF IInv, Types, Failing
<1> QED
  BY <1>1, <1>2, ReturnStep DEF Failing, Return

\* A transaction that is sent was not known, or had no attempt.
LEMMA HandleInProgressTxStep ==
    ASSUME IInv, handleInProgressTx
    PROVE  IInv'
<1>1. PICK t \in Txs :
        /\ state[t] \in {"absent", "in_progress"}
        /\ state' = [state EXCEPT ![t] = "in_progress"]
        /\ pool' \subseteq pool \cup {<<t, "normal">>}
  BY DEF handleInProgressTx
<1>2. UNCHANGED <<attempts, signalled, mined, svc, pc, found, work, resend, history, trouble>>
  BY DEF handleInProgressTx
<1>3. state'[t] = "in_progress" /\ \A u \in Txs : u # t => state'[u] = state[u]
  BY <1>1 DEF IInv, Types
<1>4. attempts[t] = <<>> /\ ~Prog(attempts[t]) /\ ~Purge(attempts[t])
  BY <1>1 DEF IInv, RowInv, Prog, Purge
<1>5. Types'
  <2>1. state' \in [Txs -> States]
    BY <1>1 DEF IInv, Types, States
  <2>2. pool' \subseteq Txs \X Kinds
    BY <1>1 DEF IInv, Types, Kinds
  <2> QED
    BY <1>2, <2>1, <2>2 DEF IInv, Types, found, work, history
<1>6. RowInv'
  BY <1>1, <1>2, <1>3, <1>4 DEF IInv, RowInv, found, history
<1>7. PurgeInv'
  BY <1>1, <1>2 DEF IInv, PurgeInv, Known, history, Kinds
<1>8. SendInv'
  BY <1>1, <1>2, <1>3 DEF IInv, SendInv, Sending, Known, work, history
<1>9. LeftInv'
  BY <1>1, <1>2, <1>3, <1>4 DEF IInv, Types, LeftInv, Sending, work
<1>10. CheckInv'
  BY <1>1, <1>2, <1>3 DEF IInv, Types, CheckInv, Late, found, Txs, Settled
<1> QED
  BY <1>5, <1>6, <1>7, <1>8, <1>9, <1>10 DEF IInv

\* A transaction that is handed over has one attempt, and is remembered
\* while a check is under way.
LEMMA UpdateTxStep ==
    ASSUME IInv, UpdateTxAttemptInProgressToBroadcast
    PROVE  IInv'
<1>1. PICK t \in Txs :
        /\ state[t] = "in_progress"
        /\ state' = [state EXCEPT ![t] = "unconfirmed"]
        /\ attempts' = [attempts EXCEPT ![t] = <<Attempt("normal", "broadcast")>>]
        /\ late' = IF pc \in Checking THEN late \cup {t} ELSE late
  BY DEF UpdateTxAttemptInProgressToBroadcast
<1> DEFINE r == <<Attempt("normal", "broadcast")>>
<1>2. r \in Seq(Rows) /\ Ordered(r) /\ ~Prog(r) /\ ~Purge(r)
  BY DEF Attempt, Rows, Kinds, Ordered, Prog, Purge
<1> HIDE DEF r
<1>3. attempts' = [attempts EXCEPT ![t] = r]
  BY <1>1 DEF r
<1>4. UNCHANGED <<signalled, chain, svc, pc, count, reorged, included, work, resend, history, trouble>>
  BY DEF UpdateTxAttemptInProgressToBroadcast
<1>5. /\ state'[t] = "unconfirmed" /\ attempts'[t] = r
      /\ \A u \in Txs : u # t => state'[u] = state[u] /\ attempts'[u] = attempts[u]
  BY <1>1, <1>3 DEF IInv, Types
<1>6. ~Purge(attempts[t]) /\ ~Prog(attempts[t])
  BY <1>1 DEF IInv, RowInv, Purge, Prog
<1>7. Types'
  <2>1. state' \in [Txs -> States]
    BY <1>1 DEF IInv, Types, States
  <2>2. attempts' \in [Txs -> Seq(Rows)]
    BY <1>2, <1>3 DEF IInv, Types
  <2>3. late' \subseteq Txs
    BY <1>1 DEF IInv, Types
  <2> QED
    BY <1>4, <2>1, <2>2, <2>3 DEF IInv, Types, chain, work, history
<1>8. RowInv'
  BY <1>1, <1>2, <1>4, <1>5 DEF IInv, RowInv, chain, history
<1>9. \A u \in Txs : Known(u) => Known(u)'
  BY <1>4, <1>5, <1>6 DEF Known, history
<1>10. PurgeInv'
  BY <1>4, <1>9 DEF IInv, PurgeInv, chain, history
<1>11. SendInv'
  <2>1. cur' = cur /\ pc' = pc /\ then' = then /\ (cur \in Txs /\ Known(cur) => Known(cur)')
    BY <1>4, <1>5, <1>6 DEF Known, work, history
  <2> QED
    BY <1>1, <1>5, <2>1 DEF IInv, SendInv, Sending
<1>12. LeftInv'
  BY <1>1, <1>2, <1>4, <1>5 DEF IInv, Types, LeftInv, Sending, work
<1>13. CheckInv'
  BY <1>1, <1>4, <1>5 DEF IInv, Types, CheckInv, Late, Checking, Txs, Settled
<1> QED
  BY <1>7, <1>8, <1>10, <1>11, <1>12, <1>13 DEF IInv

LEMMA ChainStep ==
    ASSUME IInv, Mine \/ Reorg
    PROVE  IInv'
<1>1. UNCHANGED <<store, svc, pc, found, work, resend, history>>
  BY DEF Mine, Reorg
<1>2. pool' \subseteq pool /\ trouble' \in 0..MaxTrouble
  BY TroubleType DEF IInv, Types, Mine, Reorg, NoTrouble
<1>3. mined' \in 0..N /\ \A t \in Txs : state[t] = "absent" => t >= mined'
  <2>1. CASE Mine
    <3>1. PICK k \in Kinds : <<mined, k>> \in pool
      BY <2>1 DEF Mine
    <3>2. mined \in Txs /\ state[mined] # "absent"
      BY <3>1 DEF IInv, Types, RowInv
    <3>3. mined' = mined + 1 /\ mined \in 0..N
      BY <2>1 DEF Mine, IInv, Types
    <3>4. \A t \in Txs : state[t] = "absent" => t >= mined /\ t # mined
      BY <3>2 DEF IInv, RowInv
    <3>5. \A t \in Txs : t >= mined /\ t # mined => t >= mined + 1
      BY <3>3 DEF Txs
    <3>6. mined + 1 \in 0..N
      BY <3>2, <3>3 DEF Txs
    <3> QED
      BY <3>3, <3>4, <3>5, <3>6
  <2>2. CASE Reorg
    BY <2>2 DEF Reorg, IInv, Types, RowInv, Txs
  <2> QED
    BY <2>1, <2>2
<1>4. Types'
  BY <1>1, <1>2, <1>3 DEF IInv, Types, store, found, work, history
<1>5. RowInv'
  BY <1>1, <1>2, <1>3 DEF IInv, RowInv, store, found, history
<1>6. PurgeInv'
  BY <1>1, <1>2 DEF IInv, PurgeInv, Known, store, history
<1>7. SendInv' /\ LeftInv' /\ CheckInv'
  BY <1>1 DEF IInv, SendInv, LeftInv, CheckInv, Late, Sending, Known, store, found, work, history
<1> QED
  BY <1>4, <1>5, <1>6, <1>7 DEF IInv

LEMMA FinalizeStep ==
    ASSUME IInv, Finalize
    PROVE  IInv'
<1>1. PICK t \in Txs : state[t] = "confirmed" /\ state' = [state EXCEPT ![t] = "finalized"]
  BY DEF Finalize
<1>2. UNCHANGED <<attempts, signalled, chain, svc, pc, found, work, resend, history, trouble>>
  BY DEF Finalize
<1>3. state'[t] = "finalized" /\ \A u \in Txs : u # t => state'[u] = state[u]
  BY <1>1 DEF IInv, Types
<1>4. Types'
  BY <1>1, <1>2 DEF IInv, Types, States, chain, found, work, history, Settled
<1>5. RowInv'
  BY <1>1, <1>2, <1>3 DEF IInv, RowInv, chain, found, history
<1>6. PurgeInv'
  BY <1>2 DEF IInv, PurgeInv, Known, chain, history
<1>7. SendInv' /\ LeftInv'
  BY <1>1, <1>2, <1>3 DEF IInv, Types, SendInv, LeftInv, Sending, Known, work, history
<1>8. CheckInv'
  BY <1>1, <1>2, <1>3 DEF IInv, CheckInv, Late, found, Settled
<1> QED
  BY <1>4, <1>5, <1>6, <1>7, <1>8 DEF IInv

-----------------------------------------------------------------------------
(* CheckForConfirmation.                                                   *)

LEMMA FindStep ==
    ASSUME IInv, SequenceAt \/ FindReorgOrIncludedTxs
    PROVE  IInv'
<1>1. CASE SequenceAt
  <2>1. /\ pc' = "find" /\ count' \in 0..mined /\ trouble' \in 0..MaxTrouble
        /\ UNCHANGED <<store, chain, svc, reorged, included, work, resend, history>>
    BY <1>1, TroubleType DEF IInv, Types, SequenceAt
  <2>2. Types'
    BY <1>1, <2>1 DEF SequenceAt, IInv, Types, store, chain, work, history, Places
  <2>3. RowInv'
    BY <2>1 DEF IInv, Types, RowInv, store, chain, history, Txs
  <2>4. PurgeInv'
    BY <2>1 DEF IInv, PurgeInv, Known, store, chain, history
  <2>5. cur' = NoTx
    BY <1>1, <2>1 DEF IInv, SendInv, Sending, SendPlaces, SequenceAt, work
  <2> QED
    BY <2>1, <2>2, <2>3, <2>4, <2>5, AtRest DEF IInv
<1>2. CASE FindReorgOrIncludedTxs
  <2>1. Types'
    BY <1>2 DEF IInv, Types, FindReorgOrIncludedTxs, store, chain, work, history, Places
  <2>2. RowInv' /\ PurgeInv'
    BY <1>2, Kept DEF FindReorgOrIncludedTxs, store, chain, history
  <2>3. SendInv' /\ LeftInv'
    BY <1>2 DEF IInv, SendInv, LeftInv, FindReorgOrIncludedTxs, Sending, SendPlaces, work
  <2>4. CheckInv'
    BY <1>2 DEF IInv, Types, CheckInv, Late, FindReorgOrIncludedTxs, store, Txs, Settled
  <2> QED
    BY <2>1, <2>2, <2>3, <2>4 DEF IInv
<1> QED
  BY <1>1, <1>2

\* What was reorganised out is unconfirmed again, its first attempt in
\* progress.
LEMMA ProcessReorgTxsStep ==
    ASSUME IInv, ProcessReorgTxs
    PROVE  IInv'
<1>1. pc = "reorg" /\ UNCHANGED <<signalled, chain, svc, resend, history, trouble>>
  BY DEF ProcessReorgTxs
<1>2. CASE \E t \in reorged : attempts[t] = <<>>
  <2>1. Return /\ UNCHANGED <<state, attempts>>
    BY <1>2 DEF ProcessReorgTxs
  <2>2. svc' # "stopped"
    BY <1>1 DEF IInv, Types
  <2> QED
    BY <1>1, <2>1, <2>2, ReturnStep DEF Return, store, IInv, Types
<1>3. CASE ~\E t \in reorged : attempts[t] = <<>>
  <2>1. /\ state' = [t \in Txs |-> IF t \in reorged THEN "unconfirmed" ELSE state[t]]
        /\ attempts' = [t \in Txs |-> IF t \in reorged THEN MarkForRebroadcast(attempts[t])
                                                       ELSE attempts[t]]
        /\ pc' = "included" /\ UNCHANGED <<found, work>>
    BY <1>3 DEF ProcessReorgTxs
  <2>2. ASSUME NEW t \in Txs, t \in reorged
        PROVE  /\ attempts'[t] \in Seq(Rows) /\ Ordered(attempts'[t])
               /\ Purge(attempts'[t]) <=> Purge(attempts[t])
               /\ state'[t] = "unconfirmed"
    <3>1. attempts[t] \in Seq(Rows) /\ attempts[t] # <<>> /\ Ordered(attempts[t])
      BY <1>3, <2>2 DEF IInv, Types, RowInv
    <3>2. attempts'[t] = MarkForRebroadcast(attempts[t]) /\ state'[t] = "unconfirmed"
      BY <2>1, <2>2
    <3> QED
      BY <3>1, <3>2, SetsFirst DEF MarkForRebroadcast
  <2>3. ASSUME NEW t \in Txs, t \notin reorged
        PROVE  attempts'[t] = attempts[t] /\ state'[t] = state[t]
    BY <2>1, <2>3
  <2>4. Types'
    <3>1. state' \in [Txs -> States]
      BY <2>1 DEF IInv, Types, States
    <3>2. attempts' \in [Txs -> Seq(Rows)]
      <4>1. \A t \in Txs : attempts'[t] \in Seq(Rows)
        BY <2>2, <2>3 DEF IInv, Types
      <4>2. attempts' = [t \in Txs |-> attempts'[t]]
        BY <2>1
      <4> QED
        BY <4>1, <4>2
    <3> QED
      BY <1>1, <2>1, <3>1, <3>2 DEF IInv, Types, chain, found, work, history, Places
  <2>5. RowInv'
    <3> SUFFICES ASSUME NEW t \in Txs
                 PROVE  RowInv!(t)'
      BY DEF RowInv
    <3>1. CASE t \in reorged
      BY <1>1, <2>1, <2>2, <3>1
    <3>2. CASE t \notin reorged
      BY <1>1, <2>1, <2>3, <3>2 DEF IInv, RowInv, chain, found, history
    <3> QED
      BY <3>1, <3>2
  <2>6. PurgeInv'
    BY <1>1, <2>2, <2>3 DEF IInv, PurgeInv, Known, chain, history
  <2>7. SendInv' /\ LeftInv'
    BY <1>1, <2>1 DEF IInv, SendInv, LeftInv, Sending, SendPlaces, work
  <2>8. CheckInv'
    <3> SUFFICES ASSUME NEW t \in Txs
                 PROVE  CheckInv!(t)'
      BY DEF CheckInv
    <3>1. /\ t \in reorged <=> t >= count /\ state[t] \in Settled
          /\ t < count /\ state[t] = "unconfirmed" => t \in included \/ Late(t)
          /\ t \in included => t < count /\ state[t] \notin {"absent", "in_progress"}
      BY <1>1 DEF IInv, CheckInv
    <3>2. state[t] \in States /\ (state[t] = "absent" => t >= count)
      BY DEF IInv, Types, RowInv
    <3>3. t \in Int /\ count \in Int
      BY DEF IInv, Types, Txs
    <3>4. pc' = "included" /\ UNCHANGED <<count, included, late>>
      BY <2>1 DEF found
    <3>5. CASE t \in reorged
      <4>1. state'[t] = "unconfirmed"
        BY <2>2, <3>5
      <4> QED
        BY <3>1, <3>3, <3>4, <3>5, <4>1 DEF Settled
    <3>6. CASE t \notin reorged
      <4>1. state'[t] = state[t]
        BY <2>3, <3>6
      <4> QED
        BY <3>1, <3>2, <3>3, <3>4, <3>6, <4>1 DEF Late, States
    <3> QED
      BY <3>5, <3>6
  <2> QED
    BY <2>4, <2>5, <2>6, <2>7, <2>8 DEF IInv
<1> QED
  BY <1>2, <1>3

LEMMA ProcessIncludedTxsStep ==
    ASSUME IInv, ProcessIncludedTxs
    PROVE  IInv'
<1>1. /\ pc \in {"included", "include"}
      /\ UNCHANGED <<attempts, signalled, chain, svc, found, work, resend, history, trouble>>
  BY DEF ProcessIncludedTxs
<1>2. ASSUME NEW t \in Txs PROVE HasPurgeAttempt(t) = Purge(attempts[t])
  BY DEF HasPurgeAttempt, Purge
<1>3. ASSUME NEW x, NEW S, S \subseteq included, NEW q,
             q \in {"include", "detect"}, pc' = q,
             state' = [t \in Txs |-> IF t \in S THEN x ELSE state[t]],
             x \in Settled,
             \A t \in S : Purge(attempts[t]) => x # "confirmed" /\ x # "finalized"
      PROVE  Types' /\ RowInv' /\ PurgeInv' /\ SendInv' /\ LeftInv'
  <2>1. Types'
    BY <1>1, <1>3 DEF IInv, Types, States, chain, found, work, history, Places
  <2>2. RowInv'
    <3>1. \A t \in S : state[t] # "absent"
      BY <1>1, <1>3 DEF IInv, Types, CheckInv, Late
    <3> QED
      BY <1>1, <1>3, <3>1 DEF IInv, RowInv, chain, found, history, Settled
  <2>3. PurgeInv'
    BY <1>1 DEF IInv, PurgeInv, Known, chain, history
  <2>4. SendInv' /\ LeftInv'
    BY <1>1, <1>3 DEF IInv, SendInv, LeftInv, Sending, SendPlaces, work
  <2> QED
    BY <2>1, <2>2, <2>3, <2>4
<1> DEFINE purged == {t \in included : HasPurgeAttempt(t)}
<1>4. \A t \in included : t \in Txs /\ (t \in purged <=> Purge(attempts[t]))
  BY <1>2 DEF IInv, Types
<1>5. CASE pc = "included" /\ pc' = "include"
           /\ state' = [t \in Txs |-> IF t \in purged THEN "fatal_error" ELSE state[t]]
  <2> HIDE DEF purged
  <2>0. purged \subseteq included
    BY DEF purged
  <2>1. Types' /\ RowInv' /\ PurgeInv' /\ SendInv' /\ LeftInv'
    BY <1>3, <1>5, <2>0 DEF Settled
  <2>2. CheckInv'
    BY <1>1, <1>4, <1>5, <2>0 DEF IInv, Types, CheckInv, Late, found, Txs, Settled
  <2> QED
    BY <2>1, <2>2 DEF IInv
<1>6. CASE pc = "include" /\ pc' = "detect"
           /\ state' = [t \in Txs |-> IF t \in included \ purged THEN "confirmed" ELSE state[t]]
  <2> HIDE DEF purged
  <2> DEFINE S == included \ purged
  <2>0. /\ S \subseteq included /\ \A t \in S : ~Purge(attempts[t])
        /\ state' = [t \in Txs |-> IF t \in S THEN "confirmed" ELSE state[t]]
    BY <1>4, <1>6
  <2>1. Types' /\ RowInv' /\ PurgeInv' /\ SendInv' /\ LeftInv'
    <3> HIDE DEF S
    <3> QED
      BY <1>3, <1>6, <2>0 DEF Settled
  <2>2. CheckInv'
    BY <1>1, <1>4, <1>6 DEF IInv, Types, CheckInv, Late, found, Txs, Settled
  <2> QED
    BY <2>1, <2>2 DEF IInv
<1> QED
  BY <1>5, <1>6 DEF ProcessIncludedTxs

-----------------------------------------------------------------------------
(* ProcessStuckTransactions.                                               *)

LEMMA ProcessStuckTransactionsStep ==
    ASSUME IInv, ProcessStuckTransactions
    PROVE  IInv'
<1>1. pc = "detect" /\ Checked /\ UNCHANGED <<state, signalled, chain, svc, todo, resend, history>>
  BY DEF ProcessStuckTransactions
<1>2. trouble' \in 0..MaxTrouble
  BY TroubleType DEF IInv, Types, ProcessStuckTransactions
<1>3. cur = NoTx
  BY <1>1 DEF IInv, SendInv, Sending, SendPlaces
<1>4. CASE pc' \in {"progress", "idle"} /\ UNCHANGED <<attempts, cur, then>>
  <2>1. Types'
    BY <1>1, <1>2, <1>4 DEF IInv, Types, Checked, chain, history, Places
  <2>2. RowInv' /\ PurgeInv'
    BY <1>1, <1>4, Kept DEF Checked, chain, history
  <2>3. SendInv' /\ LeftInv' /\ CheckInv'
    BY <1>3, <1>4 DEF SendInv, LeftInv, CheckInv, Late, Sending, SendPlaces
  <2> QED
    BY <2>1, <2>2, <2>3 DEF IInv
<1>5. ASSUME NEW t \in Unconfirmed, ~InProgress(t), Send(t, "resume"),
             attempts' = [attempts EXCEPT ![t] = <<Attempt("purge", "in_progress")>> \o @]
      PROVE  IInv'
  <2> DEFINE r == <<Attempt("purge", "in_progress")>> \o attempts[t]
  <2>1. t \in Txs /\ state[t] = "unconfirmed" /\ attempts[t] \in Seq(Rows) /\ ~Prog(attempts[t])
    BY <1>5 DEF Unconfirmed, InProgress, Prog, IInv, Types
  <2>2. /\ Attempt("purge", "in_progress") \in Rows
        /\ Attempt("purge", "in_progress").state = "in_progress"
        /\ Attempt("purge", "in_progress").kind = "purge"
    BY DEF Attempt, Rows, Kinds
  <2>3. r \in Seq(Rows) /\ Ordered(r) /\ Prog(r) /\ Purge(r)
    BY <2>1, <2>2, Prepends
  <2>4. attempts' = [attempts EXCEPT ![t] = r]
    BY <1>5
  <2> HIDE DEF r
  <2>5. attempts'[t] = r /\ \A u \in Txs : u # t => attempts'[u] = attempts[u]
    BY <2>1, <2>4 DEF IInv, Types
  <2>6. Types'
    BY <1>1, <1>2, <1>5, <2>1, <2>3, <2>4
       DEF IInv, Types, Checked, Send, chain, history, Places, SendPlaces
  <2>7. RowInv'
    BY <1>1, <2>1, <2>3, <2>5 DEF IInv, RowInv, Checked, chain, history, Txs
  <2>8. PurgeInv'
    BY <1>1, <2>3, <2>5 DEF IInv, PurgeInv, Known, chain, history
  <2>9. SendInv'
    BY <1>1, <1>5, <2>1, <2>3, <2>5 DEF SendInv, Sending, SendPlaces, Known, Send
  <2>10. LeftInv' /\ CheckInv'
    BY <1>5 DEF LeftInv, CheckInv, Late, Sending, Send
  <2> QED
    BY <2>6, <2>7, <2>8, <2>9, <2>10 DEF IInv
<1> QED
  BY <1>4, <1>5 DEF ProcessStuckTransactions

LEMMA ResumeStep ==
    ASSUME IInv, resumeFailedTaskRuns \/ UpdateTxCallbackCompleted
    PROVE  IInv'
<1>1. /\ pc \in {"resume", "completed"}
      /\ UNCHANGED <<state, attempts, chain, svc, found, todo, resend, refused, trouble>>
      /\ \/ pc' = "progress" /\ cur' = NoTx
         \/ pc' = "completed" /\ cur' = cur
      /\ resumed' \subseteq resumed \cup {cur} /\ signalled' \subseteq signalled \cup {cur}
  BY DEF resumeFailedTaskRuns, UpdateTxCallbackCompleted, store, history
<1>2. cur \in Txs /\ state[cur] # "absent" /\ Known(cur)
  BY <1>1 DEF IInv, SendInv
<1>3. Types'
  BY <1>1, <1>2 DEF IInv, Types, chain, found, Places
<1>4. RowInv'
  BY <1>1, <1>2 DEF IInv, RowInv, chain, found
<1>5. PurgeInv'
  BY <1>1, <1>2 DEF IInv, PurgeInv, Known, chain
<1>6. SendInv'
  BY <1>1, <1>2 DEF SendInv, Sending, SendPlaces, Known
<1>7. LeftInv' /\ CheckInv'
  BY <1>1 DEF LeftInv, CheckInv, Late, Sending, SendPlaces
<1> QED
  BY <1>3, <1>4, <1>5, <1>6, <1>7 DEF IInv

-----------------------------------------------------------------------------
(* RebroadcastWhereNecessary.                                              *)

LEMMA AttemptsStep ==
    ASSUME IInv, GetInProgressTxAttempts \/ handleAnyInProgressAttempts
    PROVE  IInv'
<1>1. UNCHANGED <<store, chain, svc, found, resend, history, trouble>>
  BY DEF GetInProgressTxAttempts, handleAnyInProgressAttempts
<1>2. pc \in {"progress", "attempts"} /\ cur = NoTx /\ cur \notin Txs
  BY DEF GetInProgressTxAttempts, handleAnyInProgressAttempts, IInv, SendInv, Sending, SendPlaces, NoTx, Txs
<1>3. todo' \subseteq Txs /\ pc' \in {"attempts", "require", "send"}
  BY DEF GetInProgressTxAttempts, handleAnyInProgressAttempts, IInv, Types, Unconfirmed, Send, work
<1>4. Types'
  BY <1>1, <1>2, <1>3 DEF IInv, Types, store, chain, found, history, Places, SendPlaces
<1>5. RowInv' /\ PurgeInv'
  BY <1>1, Kept DEF store, chain, found, history
<1>6. CheckInv'
  BY <1>3 DEF CheckInv, Late
<1>7. SendInv' /\ LeftInv'
  <2>1. CASE GetInProgressTxAttempts
    <3>1. /\ pc' = "attempts" /\ cur' = NoTx
          /\ \A t \in Txs : t \in todo' <=> state'[t] = "unconfirmed" /\ Prog(attempts'[t])
      BY <1>1, <1>2, <2>1 DEF GetInProgressTxAttempts, Unconfirmed, InProgress, Prog, store
    <3>2. SendInv'
      BY <3>1 DEF SendInv, Sending, SendPlaces
    <3>3. LeftInv'
      BY <1>2, <3>1 DEF LeftInv, Sending, SendPlaces
    <3> QED
      BY <3>2, <3>3
  <2>2. CASE pc = "attempts" /\ todo = {} /\ pc' = "require" /\ UNCHANGED work
    BY <1>1, <1>2, <2>2 DEF IInv, SendInv, LeftInv, Sending, SendPlaces, store, work
  <2>3. ASSUME pc = "attempts", NEW t \in Txs, t \in todo, Send(t, "attempts"),
               todo' = todo \ {t}
        PROVE  SendInv' /\ LeftInv'
    <3>1. \A u \in Txs : u \in todo <=> state[u] = "unconfirmed" /\ Prog(attempts[u])
      BY <1>2, <2>3 DEF IInv, LeftInv
    <3>2. SendInv'
      BY <1>1, <2>3, <3>1 DEF SendInv, Sending, SendPlaces, Send, store
    <3>3. LeftInv'
      BY <1>1, <2>3, <3>1 DEF LeftInv, Sending, SendPlaces, Send, store
    <3> QED
      BY <3>2, <3>3
  <2> QED
    BY <2>1, <2>2, <2>3 DEF handleAnyInProgressAttempts, IsNext
<1> QED
  BY <1>4, <1>5, <1>6, <1>7 DEF IInv

LEMMA FindTxsRequiringRebroadcastStep ==
    ASSUME IInv, FindTxsRequiringRebroadcast
    PROVE  IInv'
<1>1. /\ pc = "require" /\ pc' = "rebroadcast"
      /\ UNCHANGED <<store, chain, svc, found, cur, then, resend, history, trouble>>
  BY DEF FindTxsRequiringRebroadcast
<1>2. \A t \in todo' : t \in Txs /\ state[t] = "unconfirmed"
  <2>1. \A t \in Unconfirmed : t \in Txs /\ state[t] = "unconfirmed"
    BY DEF Unconfirmed
  <2> QED
    BY <2>1 DEF FindTxsRequiringRebroadcast
<1>3. cur = NoTx /\ cur \notin Txs
  BY <1>1 DEF IInv, SendInv, Sending, SendPlaces, NoTx, Txs
<1>4. Types'
  BY <1>1, <1>2 DEF IInv, Types, store, chain, found, history, Places
<1>5. RowInv' /\ PurgeInv'
  BY <1>1, Kept DEF store, chain, found, history
<1>6. SendInv' /\ CheckInv'
  BY <1>1, <1>3 DEF SendInv, CheckInv, Late, Sending, SendPlaces
<1>7. LeftInv'
  BY <1>1, <1>2, <1>3 DEF IInv, LeftInv, Sending, SendPlaces, store
<1> QED
  BY <1>4, <1>5, <1>6, <1>7 DEF IInv

\* The attempt to send again goes first, or is the first, and is as much a
\* purge as the others.
LEMMA Rebroadcasts ==
    ASSUME NEW s \in Seq(Rows), s # <<>>, ~Prog(s), Ordered(s)
    PROVE  LET r == attemptForRebroadcast(s)
           IN  r \in Seq(Rows) /\ Ordered(r) /\ Prog(r) /\ (Purge(r) <=> Purge(s))
<1>1. 1 \in DOMAIN s /\ s[1] \in Rows
  OBVIOUS
<1>2. CASE s[1].state = "insufficient" \/ Len(s) >= MaxAttempts
  <2> DEFINE r == [s EXCEPT ![1].state = "in_progress"]
  <2>1. attemptForRebroadcast(s) = r
    BY <1>2 DEF attemptForRebroadcast
  <2>2. r \in Seq(Rows) /\ Ordered(r) /\ Prog(r) /\ (Purge(r) <=> Purge(s))
    BY SetsFirst
  <2> HIDE DEF r
  <2> QED
    BY <2>1, <2>2
<1>3. CASE ~(s[1].state = "insufficient" \/ Len(s) >= MaxAttempts)
  <2> DEFINE a == Attempt(s[1].kind, "in_progress")
  <2>1. attemptForRebroadcast(s) = <<a>> \o s
    BY <1>3 DEF attemptForRebroadcast
  <2>2. a \in Rows /\ a.state = "in_progress" /\ a.kind = s[1].kind
    BY <1>1 DEF Attempt, Rows
  <2>3. s[1].kind = "purge" => Purge(s)
    BY <1>1 DEF Purge
  <2> HIDE DEF a
  <2> QED
    BY <2>1, <2>2, <2>3, Prepends
<1> QED
  BY <1>2, <1>3

LEMMA RebroadcastStep ==
    ASSUME IInv, rebroadcastWhereNecessary
    PROVE  IInv'
<1>1. pc = "rebroadcast" /\ UNCHANGED <<state, signalled, chain, svc, resend, history, trouble>>
  BY DEF rebroadcastWhereNecessary
<1>2. CASE Return /\ UNCHANGED attempts
  <2>1. svc' # "stopped"
    BY <1>1 DEF IInv, Types
  <2> QED
    BY <1>1, <1>2, <2>1, ReturnStep DEF Return, store, IInv, Types
<1>3. ASSUME NEW t \in Txs, t \in todo, attempts[t] # <<>>, UNCHANGED found, Send(t, "rebroadcast"), todo' = todo \ {t},
             attempts' = [attempts EXCEPT ![t] = attemptForRebroadcast(@)]
      PROVE  IInv'
  <2> DEFINE r == attemptForRebroadcast(attempts[t])
  <2>1. cur = NoTx /\ cur \notin Txs
    BY <1>1 DEF IInv, SendInv, Sending, SendPlaces, NoTx, Txs
  <2>2. state[t] = "unconfirmed" /\ attempts[t] # <<>> /\ ~Prog(attempts[t])
    BY <1>1, <1>3, <2>1 DEF IInv, LeftInv
  <2>3. attempts[t] \in Seq(Rows) /\ Ordered(attempts[t])
    BY DEF IInv, Types, RowInv
  <2>4. r \in Seq(Rows) /\ Ordered(r) /\ Prog(r) /\ (Purge(r) <=> Purge(attempts[t]))
    BY <2>2, <2>3, Rebroadcasts
  <2>5. attempts' = [attempts EXCEPT ![t] = r]
    BY <1>3
  <2> HIDE DEF r
  <2>6. attempts'[t] = r /\ \A u \in Txs : u # t => attempts'[u] = attempts[u]
    BY <2>5 DEF IInv, Types
  <2>7. Types'
    BY <1>1, <1>3, <2>4, <2>5 DEF IInv, Types, Send, found, chain, history, Places, SendPlaces
  <2>8. RowInv'
    BY <1>1, <1>3, <2>2, <2>4, <2>6 DEF IInv, RowInv, found, chain, history
  <2>9. PurgeInv'
    BY <1>1, <2>4, <2>6 DEF IInv, PurgeInv, Known, chain, history
  <2>10. SendInv'
    BY <1>1, <1>3, <2>2, <2>4, <2>6 DEF SendInv, Sending, SendPlaces, Send
  <2>11. LeftInv'
    BY <1>1, <1>3, <2>1, <2>4, <2>6 DEF IInv, Types, LeftInv, Sending, SendPlaces, Send
  <2>12. CheckInv'
    BY <1>3 DEF CheckInv, Late, Send
  <2> QED
    BY <2>7, <2>8, <2>9, <2>10, <2>11, <2>12 DEF IInv
<1> QED
  BY <1>2, <1>3 DEF rebroadcastWhereNecessary, IsNext

-----------------------------------------------------------------------------
(* handleInProgressAttempt.                                                *)

\* What is known of the attempt being sent.
LEMMA CurrentAttempt ==
    ASSUME IInv, Sending
    PROVE  /\ cur \in Txs /\ state[cur] = "unconfirmed" /\ Current(cur) = 1
           /\ attempts[cur] \in Seq(Rows) /\ attempts[cur] # <<>>
           /\ Ordered(attempts[cur]) /\ Prog(attempts[cur])
           /\ attempts[cur][1] \in Rows /\ attempts[cur][1].state = "in_progress"
           /\ CurrentKind = attempts[cur][1].kind /\ CurrentKind \in Kinds
           /\ CurrentKind = "purge" => Purge(attempts[cur])
<1>1. cur \in Txs /\ state[cur] = "unconfirmed" /\ Prog(attempts[cur])
  BY DEF IInv, SendInv
<1>2. attempts[cur] \in Seq(Rows) /\ Ordered(attempts[cur])
  BY <1>1 DEF IInv, Types, RowInv
<1>3. /\ Current(cur) = 1 /\ attempts[cur] # <<>>
      /\ attempts[cur][1] \in Rows /\ attempts[cur][1].state = "in_progress"
  BY <1>1, <1>2, CurrentIsFirst
<1>4. CurrentKind = attempts[cur][1].kind
  BY <1>3 DEF CurrentKind
<1>5. attempts[cur][1].kind \in Kinds
  BY <1>3 DEF Rows
<1>6. attempts[cur][1].kind = "purge" => Purge(attempts[cur])
  <2>1. 1 \in DOMAIN attempts[cur]
    BY <1>2, <1>3
  <2> QED
    BY <2>1 DEF Purge
<1> QED
  BY <1>1, <1>2, <1>3, <1>4, <1>5, <1>6

LEMMA HandleInProgressAttemptStep ==
    ASSUME IInv, handleInProgressAttempt
    PROVE  IInv'
<1>1. pc = "send" /\ UNCHANGED <<store, mined, svc, resend, history>>
  BY DEF handleInProgressAttempt
<1>2. Sending
  BY <1>1 DEF Sending, SendPlaces
<1>3. cur \in Txs /\ state[cur] = "unconfirmed" /\ CurrentKind \in Kinds
      /\ (CurrentKind = "purge" => Purge(attempts[cur]))
  BY <1>2, CurrentAttempt
<1>4. pool' \subseteq pool \cup {<<cur, CurrentKind>>}
  BY DEF handleInProgressAttempt
<1>5. trouble' \in 0..MaxTrouble
  BY TroubleType DEF IInv, Types, handleInProgressAttempt
<1>6. svc' # "stopped"
  BY <1>1 DEF IInv, Types
<1>7. \/ Return
      \/ pc' \in SendPlaces /\ UNCHANGED <<found, work>>
  BY DEF handleInProgressAttempt, Usual, Unusual, SendPlaces
<1>8. found' = found \/ Checked
  BY <1>7 DEF Return, Forget
<1>9. Types'
  <2>1. pool' \subseteq Txs \X Kinds
    BY <1>3, <1>4 DEF IInv, Types
  <2>2. pc' \in Places /\ todo' \subseteq Txs
    BY <1>7 DEF IInv, Types, Return, Forget, Places, work
  <2>3. count' \in 0..N /\ reorged' \subseteq Txs /\ included' \subseteq Txs /\ late' \subseteq Txs
    BY <1>8 DEF IInv, Types, Checked, found
  <2> QED
    BY <1>1, <1>5, <1>6, <2>1, <2>2, <2>3 DEF IInv, Types, store, history
<1>10. RowInv'
  <2>1. count' = count \/ count' = 0
    BY <1>8 DEF Checked, found
  <2> QED
    BY <1>1, <1>3, <1>4, <2>1 DEF IInv, Types, RowInv, store, history, Txs
<1>11. PurgeInv'
  BY <1>1, <1>3, <1>4 DEF IInv, PurgeInv, Known, store, history
<1>12. SendInv' /\ LeftInv' /\ CheckInv'
  <2>1. CASE Return
    BY <2>1, AtRest DEF Return, Forget
  <2>2. CASE pc' \in SendPlaces /\ UNCHANGED <<found, work>>
    <3>1. Sending'
      BY <2>2 DEF Sending
    <3>2. pc' \notin {"resume", "completed", "attempts", "require", "rebroadcast",
                      "reorg", "included", "include", "detect"}
      BY <2>2 DEF SendPlaces
    <3>3. SendInv'
      BY <1>1, <1>2, <2>2, <3>1, <3>2 DEF IInv, SendInv, Known, store, work, history
    <3>4. LeftInv'
      BY <1>1, <1>2, <2>2, <3>1, <3>2 DEF IInv, LeftInv, store, work
    <3>5. CheckInv'
      BY <3>2 DEF CheckInv, Late
    <3> QED
      BY <3>3, <3>4, <3>5
  <2> QED
    BY <1>7, <2>1, <2>2
<1> QED
  BY <1>9, <1>10, <1>11, <1>12 DEF IInv

\* The attempt has been dealt with: it is no longer in progress, or gone,
\* and if it was a purge then it is on record or refused.
LEMMA ProceedStep ==
    ASSUME IInv, Sending, Proceed,
           NEW r \in Seq(Rows), ~Prog(r), Ordered(r),
           Purge(r) => Purge(attempts[cur]),
           attempts' = [attempts EXCEPT ![cur] = r],
           state' = state \/ state' = [state EXCEPT ![cur] = "missing_receipt"],
           refused' = refused \/ refused' = refused \cup {cur},
           Purge(attempts[cur]) => Purge(r) \/ cur \in refused',
           UNCHANGED <<signalled, chain, svc, found, todo, resend, resumed, trouble>>
    PROVE  IInv'
<1>1. cur \in Txs /\ state[cur] = "unconfirmed" /\ then \in {"resume", "attempts", "rebroadcast"}
      /\ (then = "resume" => Known(cur))
  BY DEF IInv, SendInv
<1>2. attempts'[cur] = r /\ \A u \in Txs : u # cur => attempts'[u] = attempts[u]
  BY <1>1 DEF IInv, Types
<1>3. state'[cur] \in {"unconfirmed", "missing_receipt"}
      /\ \A u \in Txs : u # cur => state'[u] = state[u]
  BY <1>1 DEF IInv, Types
<1>4. pc' \in {"resume", "attempts", "rebroadcast"} /\ pc' = then
      /\ (then # "resume" => cur' = NoTx) /\ (then = "resume" => cur' = cur)
  BY <1>1 DEF Proceed
<1>5. Types'
  <2>1. attempts' \in [Txs -> Seq(Rows)]
    BY DEF IInv, Types
  <2>2. state' \in [Txs -> States]
    BY DEF IInv, Types, States, Settled
  <2>3. refused' \subseteq Txs
    BY <1>1 DEF IInv, Types
  <2>4. svc' # "stopped"
    BY DEF IInv, Types, Sending, SendPlaces
  <2> QED
    BY <1>4, <2>1, <2>2, <2>3, <2>4 DEF IInv, Types, chain, found, Places
<1>6. RowInv'
  BY <1>1, <1>2, <1>3 DEF IInv, RowInv, chain, found
<1>7. ASSUME NEW t \in Txs, Known(t) PROVE Known(t)'
  <2>1. CASE t = cur
    BY <1>2, <1>7, <2>1 DEF Known
  <2>2. CASE t # cur
    BY <1>2, <1>7, <2>2 DEF Known
  <2> QED
    BY <2>1, <2>2
<1>8. PurgeInv'
  BY <1>7 DEF IInv, PurgeInv, chain
<1>9. SendInv'
  <2>1. ~Sending'
    BY <1>4 DEF Sending, SendPlaces
  <2>3. CASE then = "resume"
    <3>1. Known(cur)' /\ cur' = cur /\ state'[cur] # "absent"
      <4>1. Known(cur)
        BY <1>1, <2>3
      <4>2. Purge(attempts'[cur']) \/ cur' \in refused'
        BY <1>2, <1>4, <2>3, <4>1 DEF Known
      <4> QED
        BY <1>3, <1>4, <2>3, <4>2 DEF Known
    <3> QED
      BY <1>1, <1>4, <2>1, <2>3, <3>1 DEF SendInv
  <2>4. CASE then # "resume"
    BY <1>4, <2>1, <2>4 DEF SendInv
  <2> QED
    BY <2>3, <2>4
<1>10. LeftInv'
  <2>1. ~Sending' /\ NoTx \notin Txs
    BY <1>4 DEF Sending, SendPlaces, NoTx, Txs
  <2> QED
    BY <1>1, <1>2, <1>3, <1>4, <2>1 DEF IInv, Types, LeftInv
<1>11. CheckInv'
  BY <1>4 DEF CheckInv, Late
<1> QED
  BY <1>5, <1>6, <1>8, <1>9, <1>10, <1>11 DEF IInv

LEMMA SaveAttemptStep ==
    ASSUME IInv, SaveAttempt
    PROVE  IInv'
<1>1. Sending
  BY DEF SaveAttempt, Sending, SendPlaces
<1> DEFINE x == IF pc = "broke" THEN "insufficient" ELSE "broadcast"
           r == [attempts[cur] EXCEPT ![1].state = x]
<1>2. x \in {"in_progress", "broadcast", "insufficient"} /\ x # "in_progress"
  OBVIOUS
<1>3. Current(cur) = 1 /\ attempts[cur] \in Seq(Rows) /\ attempts[cur] # <<>>
      /\ Ordered(attempts[cur])
  BY <1>1, CurrentAttempt
<1>4. attempts' = [attempts EXCEPT ![cur][Current(cur)].state = x]
  BY DEF SaveAttempt
<1>5. attempts' = [attempts EXCEPT ![cur] = r]
  BY <1>3, <1>4
<1> HIDE DEF x
<1>6. r \in Seq(Rows) /\ Ordered(r) /\ ~Prog(r) /\ (Purge(r) <=> Purge(attempts[cur]))
  BY <1>2, <1>3, SetsFirst
<1> HIDE DEF r
<1>7. /\ Proceed
      /\ state' = state \/ state' = [state EXCEPT ![cur] = "missing_receipt"]
      /\ UNCHANGED <<signalled, chain, svc, found, todo, resend, resumed, refused, trouble>>
  BY DEF SaveAttempt, history
<1> QED
  BY <1>1, <1>5, <1>6, <1>7, ProceedStep

LEMMA DeleteInProgressAttemptStep ==
    ASSUME IInv, DeleteInProgressAttempt
    PROVE  IInv'
<1>1. Sending
  BY DEF DeleteInProgressAttempt, Sending, SendPlaces
<1> DEFINE r == Without(attempts[cur], 1)
<1>2. Current(cur) = 1 /\ attempts[cur] \in Seq(Rows) /\ attempts[cur] # <<>>
      /\ Ordered(attempts[cur]) /\ CurrentKind = attempts[cur][1].kind
  BY <1>1, CurrentAttempt
<1>3. attempts' = [attempts EXCEPT ![cur] = r]
  BY <1>2 DEF DeleteInProgressAttempt
<1>4. r \in Seq(Rows) /\ Ordered(r) /\ ~Prog(r)
      /\ (Purge(attempts[cur]) <=> CurrentKind = "purge" \/ Purge(r))
  BY <1>2, RemovesFirst
<1> HIDE DEF r
<1>5. /\ refused' = refused \/ refused' = refused \cup {cur}
      /\ CurrentKind = "purge" => cur \in refused'
  BY DEF DeleteInProgressAttempt
<1>6. Proceed /\ UNCHANGED <<state, signalled, chain, svc, found, todo, resend, resumed, trouble>>
  BY DEF DeleteInProgressAttempt
<1> QED
  BY <1>1, <1>3, <1>4, <1>5, <1>6, ProceedStep

LEMMA SaveReplacementStep ==
    ASSUME IInv, SaveReplacementInProgressAttempt
    PROVE  IInv'
<1>1. Sending /\ UNCHANGED <<state, signalled, chain, svc, resend, history, trouble>>
  BY DEF SaveReplacementInProgressAttempt, Sending, SendPlaces
<1> DEFINE q == Without(attempts[cur], 1)
           a == Attempt(ReplaceKind, "in_progress")
           r == <<a>> \o q
<1>2. /\ cur \in Txs /\ state[cur] = "unconfirmed" /\ Current(cur) = 1
      /\ attempts[cur] \in Seq(Rows) /\ attempts[cur] # <<>> /\ Ordered(attempts[cur])
      /\ CurrentKind = attempts[cur][1].kind /\ CurrentKind \in Kinds
  BY <1>1, CurrentAttempt
<1>3. attempts' = [attempts EXCEPT ![cur] = r] /\ pc' = "send" /\ UNCHANGED <<found, work>>
  BY <1>2 DEF SaveReplacementInProgressAttempt
<1>4. q \in Seq(Rows) /\ ~Prog(q) /\ (Purge(attempts[cur]) <=> CurrentKind = "purge" \/ Purge(q))
  BY <1>2, RemovesFirst
<1>5. a \in Rows /\ a.state = "in_progress" /\ (CurrentKind = "purge" => a.kind = "purge")
  BY <1>2 DEF Attempt, Rows, ReplaceKind, Kinds
<1> HIDE DEF q, a
<1>6. r \in Seq(Rows) /\ Ordered(r) /\ Prog(r) /\ (Purge(attempts[cur]) => Purge(r))
  BY <1>4, <1>5, Prepends
<1> HIDE DEF r
<1>7. attempts'[cur] = r /\ \A u \in Txs : u # cur => attempts'[u] = attempts[u]
  BY <1>2, <1>3 DEF IInv, Types
<1>8. Types'
  <2>1. attempts' \in [Txs -> Seq(Rows)]
    BY <1>3, <1>6 DEF IInv, Types
  <2>2. svc' # "stopped"
    BY <1>1 DEF IInv, Types, Sending, SendPlaces
  <2> QED
    BY <1>1, <1>3, <2>1, <2>2 DEF IInv, Types, chain, found, work, history, Places, SendPlaces
<1>9. RowInv'
  BY <1>1, <1>2, <1>3, <1>6, <1>7 DEF IInv, RowInv, chain, found, history
<1>10. \A t \in Txs : Known(t) => Known(t)'
  BY <1>1, <1>6, <1>7 DEF Known, history
<1>11. PurgeInv'
  BY <1>1, <1>10 DEF IInv, PurgeInv, chain, history
<1>12. Sending' /\ UNCHANGED <<todo, cur, then>>
  BY <1>3 DEF Sending, SendPlaces, work
<1>13. SendInv'
  <2>1. Known(cur) => Known(cur)'
    BY <1>1, <1>6, <1>7, <1>12 DEF Known, history
  <2> QED
    BY <1>1, <1>2, <1>3, <1>6, <1>7, <1>12, <2>1 DEF IInv, SendInv
<1>14. LeftInv'
  BY <1>1, <1>2, <1>3, <1>6, <1>7, <1>12 DEF IInv, Types, LeftInv
<1>15. CheckInv'
  BY <1>3 DEF CheckInv, Late
<1> QED
  BY <1>8, <1>9, <1>11, <1>13, <1>14, <1>15 DEF IInv

-----------------------------------------------------------------------------
(* The resender.                                                           *)

LEMMA ResenderStep ==
    ASSUME IInv, Resender
    PROVE  IInv'
<1>1. UNCHANGED <<store, mined, svc, pc, found, work, history>>
  BY DEF Resender, FindTxAttemptsRequiringResend, BatchSendTransactions, chain
<1>2. trouble' \in 0..MaxTrouble
  BY TroubleType DEF IInv, Types, Resender, FindTxAttemptsRequiringResend, BatchSendTransactions,
                     NoTrouble
<1>3. pool' \subseteq pool \cup resend
  BY DEF Resender, FindTxAttemptsRequiringResend, BatchSendTransactions, chain
<1>4. \A p \in resend' : \E t \in Txs : /\ state[t] = "unconfirmed" /\ attempts[t] # <<>>
                                         /\ p = <<t, attempts[t][1].kind>>
  BY DEF Resender, FindTxAttemptsRequiringResend, BatchSendTransactions, Unconfirmed
<1>5. \A t \in Txs : attempts[t] # <<>> =>
        attempts[t][1].kind \in Kinds /\ (attempts[t][1].kind = "purge" => Purge(attempts[t]))
  <2> SUFFICES ASSUME NEW t \in Txs, attempts[t] # <<>>
               PROVE  attempts[t][1].kind \in Kinds
                      /\ (attempts[t][1].kind = "purge" => Purge(attempts[t]))
    OBVIOUS
  <2>1. attempts[t] \in Seq(Rows)
    BY DEF IInv, Types
  <2>2. 1 \in DOMAIN attempts[t] /\ attempts[t][1] \in Rows
    BY <2>1
  <2> QED
    BY <2>2 DEF Purge, Rows
<1>6. resend' \subseteq Txs \X Kinds
  BY <1>4, <1>5
<1>7. Types'
  BY <1>1, <1>2, <1>3, <1>6 DEF IInv, Types, store, found, work, history
<1>8. ASSUME NEW t \in Txs, NEW k, <<t, k>> \in resend'
      PROVE  state[t] = "unconfirmed" /\ (k = "purge" => Purge(attempts[t]))
  <2>1. PICK u \in Txs : state[u] = "unconfirmed" /\ attempts[u] # <<>>
                         /\ <<t, k>> = <<u, attempts[u][1].kind>>
    BY <1>4, <1>8
  <2>2. t = u /\ k = attempts[u][1].kind
    BY <2>1
  <2> QED
    BY <1>5, <2>1, <2>2
<1>9. RowInv'
  BY <1>1, <1>3, <1>8 DEF IInv, RowInv, store, found, history
<1>10. PurgeInv'
  BY <1>1, <1>3, <1>8 DEF IInv, PurgeInv, Known, store, history
<1>11. SendInv' /\ LeftInv' /\ CheckInv'
  BY <1>1 DEF IInv, SendInv, LeftInv, CheckInv, Late, Sending, Known, store, found, work, history
<1> QED
  BY <1>7, <1>9, <1>10, <1>11 DEF IInv

-----------------------------------------------------------------------------
(* The theorems.                                                           *)

LEMMA NextInv ==
    ASSUME IInv, [Next]_vars
    PROVE  IInv'
<1>1. CASE UNCHANGED vars
  <2>1. UNCHANGED <<store, chain, svc, pc, found, work, resend, history, trouble>>
    BY <1>1 DEF vars
  <2>2. Types' /\ RowInv' /\ PurgeInv'
    BY <2>1 DEF IInv, Types, RowInv, PurgeInv, Known, store, chain, found, work, history
  <2>3. SendInv' /\ LeftInv' /\ CheckInv'
    BY <2>1 DEF IInv, SendInv, LeftInv, CheckInv, Late, Sending, Known, store, found, work, history
  <2> QED
    BY <2>2, <2>3 DEF IInv
<1>2. CASE Confirmer
  <2>1. {"count", "find", "reorg", "included", "include", "detect", "resume", "completed",
         "progress", "require", "rebroadcast", "sent", "confirmed",
         "broke", "delete", "bump", "purge"} \subseteq Places \ {"off"}
    BY DEF Places, SendPlaces
  <2> QED
    BY <1>2, <2>1, LifecycleStep, FindStep, ProcessReorgTxsStep, ProcessIncludedTxsStep,
       ProcessStuckTransactionsStep, ResumeStep, AttemptsStep, FindTxsRequiringRebroadcastStep,
       RebroadcastStep, HandleInProgressAttemptStep, SaveAttemptStep,
       DeleteInProgressAttemptStep, SaveReplacementStep, FailingStep DEF Confirmer
<1> QED
  BY <1>1, <1>2, HandleInProgressTxStep, UpdateTxStep, ChainStep, FinalizeStep, LifecycleStep, ResenderStep DEF Next

\* The invariant the theorems follow from holds in every behaviour.
THEOREM Inductive == Spec => []IInv
BY InitInv, NextInv, PTL DEF Spec

\* At most the highest priced attempt of a transaction is in progress,
\* whatever purges, bumps, resubmissions, reorgs and crashes come in between.
THEOREM AttemptsInOrderAlways == Spec => []AttemptsInOrder
<1>1. IInv => AttemptsInOrder
  <2> SUFFICES ASSUME IInv PROVE AttemptsInOrder
    OBVIOUS
  <2>1. HighestInProgress
    BY DEF IInv, RowInv, Ordered, HighestInProgress
  <2>2. \A t \in Txs : \A i \in DOMAIN attempts[t] : attempts[t][i] \in Rows
    <3> SUFFICES ASSUME NEW t \in Txs, NEW i \in DOMAIN attempts[t]
                 PROVE  attempts[t][i] \in Rows
      OBVIOUS
    <3>1. attempts[t] \in Seq(Rows)
      BY DEF IInv, Types
    <3> QED
      BY <3>1
  <2>3. cur \in Txs \cup {NoTx}
    BY DEF IInv, SendInv
  <2>4. TypeOK
    BY <2>2, <2>3 DEF IInv, Types, States, TypeOK, Rows
  <2> QED
    BY <2>1, <2>4 DEF AttemptsInOrder
<1> QED
  BY <1>1, Inductive, PTL

\* When CheckForConfirmation is done the store agrees with the mined count
\* it read, but for what the broadcaster had in progress when it looked,
\* although the chain, the broadcaster and the finalizer moved on.
THEOREM CheckedMatchesCountAlways == Spec => []CheckedMatchesCount
<1>1. IInv => CheckedMatchesCount
  BY DEF IInv, CheckInv, Late, CheckedMatchesCount
<1> QED
  BY <1>1, Inductive, PTL

\* A purge in a mempool is on record, and a transaction whose pipeline was
\* failed is not confirmed, unless the purge was refused as fatal.
THEOREM PurgesAreKnownAlways == Spec => []PurgesAreKnown
<1>1. IInv => PurgesAreKnown
  <2> SUFFICES ASSUME IInv PROVE PurgesAreKnown
    OBVIOUS
  <2>1. \A t \in Txs : HasPurgeAttempt(t) = Purge(attempts[t])
    BY DEF HasPurgeAttempt, Purge
  <2>2. PurgeOnRecord
    BY <2>1 DEF IInv, PurgeInv, Known, PurgeOnRecord
  <2>3. FailedPipelineNeverConfirmed
    BY DEF IInv, Types, RowInv, PurgeInv, Known, FailedPipelineNeverConfirmed
  <2> QED
    BY <2>2, <2>3 DEF PurgesAreKnown
<1> QED
  BY <1>1, Inductive, PTL
=============================================================================
