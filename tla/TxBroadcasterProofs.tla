------------------------ MODULE TxBroadcasterProofs ------------------------
(***************************************************************************)
(* The broadcaster keeps its books in order, spends no sequence twice but  *)
(* for the reasons it has, and implements TxSequence, for every number of  *)
(* transactions, failures, crashes and retries.                            *)
(*                                                                         *)
(* The argument: the transactions handed over hold the sequences 0 to n-1, *)
(* each once; at most one is in progress, and it holds n; whatever the     *)
(* memory of the broadcaster says of the next sequence is n or nothing,    *)
(* except between the hand-over and the increment.                         *)
(***************************************************************************)
EXTENDS TxBroadcaster, TLAPS

\* The provers in the order in which they are tried: most leaves are first-order.
USE BroadcasterAssumption, ZenonT(5), SMTT(12), Z3T(12), ZenonT(20)

NextFree == Cardinality(Sent)

InProgress(t) == state[t] = "in_progress"

\* What the limit holds for.
Fresh == Unconfirmed \ reverted

\* The errors after which a transaction is dropped though a node may have it.
Dropping == {"rejected", "gave_up", "not_included"}

\* The rows are finitely many, and so are those handed over or awaiting a receipt.
Counted == /\ NextFree \in 0..Cardinality(Txs) /\ Cardinality(Txs) \in Nat
           /\ Cardinality(Fresh) \in Nat /\ Cardinality(Unconfirmed) \in Nat
           /\ Cardinality(Fresh) <= Cardinality(Unconfirmed)

\* Sequences are handed out one by one.
SeqInv ==
    /\ \A t \in Sent : sequence[t] \in 0..NextFree - 1
    /\ \A i \in 0..NextFree - 1 : \E t \in Sent : sequence[t] = i
    /\ \A t, u \in Sent : sequence[t] = sequence[u] => t = u
    /\ \A t \in Txs : InProgress(t) => sequence[t] = NextFree
    /\ \A t, u \in Txs : InProgress(t) /\ InProgress(u) => t = u

\* What the memory says of the next sequence.
TrackerInv == nextSequence \in {NoSeq, NextFree} \/ pc = "generate"

Starting == {"attempt", "claim"}
Sending == {"send", "validate", "bump", "estimate", "reestimate", "pending", "persist"}
Failing == {"fatal", "completed", "save"}

\* What the monitor knows of the transaction it handles.
PlaceInv ==
    /\ pc \in {"count", "next", "finish", "generate"} \cup Starting =>
          \A t \in Txs : ~InProgress(t)
    /\ pc \in Starting =>
          cur \in Txs /\ state[cur] \in {"unstarted", "removed"} /\ curSeq = NextFree
    /\ pc \in Sending => cur \in Txs /\ InProgress(cur) /\ curSeq = NextFree
    /\ pc = "generate" => curSeq + 1 = NextFree

\* What is fatal for a transaction does not hide that a node took it.
FailInv ==
    pc \in Failing =>
       /\ cur \in Txs
       /\ state[cur] \in {"unstarted", "removed", "in_progress"}
       /\ \A t \in Txs : InProgress(t) => t = cur
       /\ accepted[cur] # NoSeq => why \in Dropping
       /\ why = "gave_up" => unknowns[cur] > 1

\* What the network took is on record under its sequence, or was given up.
NetInv ==
    \A t \in Txs :
       /\ accepted[t] # NoSeq /\ (InProgress(t) \/ t \in Sent) => accepted[t] = sequence[t]
       /\ accepted[t] # NoSeq /\ state[t] = "fatal_error" =>
             reason[t] \in Dropping
       /\ reason[t] # "none" => state[t] = "fatal_error"
       /\ t \in reverted => state[t] = "unconfirmed"
       /\ unknownErrs.tx = t => unknowns[t] >= 1

\* A transaction is started only if there is room for it.
LimitInv ==
    MaxInFlight > 0 =>
       /\ Cardinality(Fresh) <= MaxInFlight
       /\ (pc \in {"next"} \cup Starting) \/ (\E t \in Txs : InProgress(t)) =>
             Cardinality(Fresh) < MaxInFlight

\* A resumed pipeline is remembered, and so is a trigger.
SignalInv ==
    /\ \A t \in resumed : \/ t \in interrupted \/ state[t] \in {"fatal_error", "removed"}
                          \/ t = cur /\ pc \in {"completed", "save"}
    /\ svc = "stopped" => pc = "off"
    /\ pc \notin {"off", "load"} => trigger # "none"
    /\ pc \in {"finish", "done"} /\ svc = "started" /\ (\E t \in Txs : state[t] = "unstarted")
          => trigger = "full"

IInv == /\ TypeOK /\ SeqInv /\ TrackerInv /\ PlaceInv /\ FailInv
        /\ SavedBeforeSent /\ NetInv /\ GivesUpOnOwnErrors /\ LimitInv /\ SignalInv

-----------------------------------------------------------------------------
\* The tracker loads that sequence.
LEMMA LoadedIsNext == ASSUME Counted, SeqInv PROVE LoadedSequence = NextFree
<1> DEFINE P(k) == /\ \A t \in Sent : sequence[t] < k
                   /\ k > 0 => \E t \in Sent : sequence[t] = k - 1
<1>1. NextFree \in 0..Cardinality(Txs)
  BY DEF Counted
<1>2. P(NextFree)
  <2>1. NextFree \in Nat
    BY DEF Counted
  <2>2. \A t \in Sent : sequence[t] < NextFree
    BY <2>1 DEF SeqInv
  <2>3. NextFree > 0 => NextFree - 1 \in 0..NextFree - 1
    BY <2>1
  <2> QED
    BY <2>2, <2>3 DEF SeqInv
<1>3. ASSUME NEW k \in 0..Cardinality(Txs), P(k) PROVE k = NextFree
  <2>1. NextFree \in Nat /\ k \in Nat
    BY DEF Counted
  <2>2. k > NextFree => FALSE
    <3> SUFFICES ASSUME k > NextFree PROVE FALSE
      OBVIOUS
    <3>1. PICK t \in Sent : sequence[t] = k - 1
      BY <1>3, <2>1
    <3> QED
      BY <2>1, <3>1 DEF SeqInv
  <2>3. k < NextFree => FALSE
    <3> SUFFICES ASSUME k < NextFree PROVE FALSE
      OBVIOUS
    <3>1. k \in 0..NextFree - 1
      BY <2>1
    <3>2. PICK t \in Sent : sequence[t] = k
      BY <3>1 DEF SeqInv
    <3> QED
      BY <1>3, <2>1, <3>2
  <2> QED
    BY <2>1, <2>2, <2>3
<1> QED
  BY <1>1, <1>2, <1>3 DEF LoadedSequence

\* A step that changes no state but those of rows not handed over.
LEMMA SameSent ==
    ASSUME TypeOK, state' = state, reverted' = reverted
    PROVE  Sent' = Sent /\ NextFree' = NextFree
           /\ Cardinality(Fresh)' = Cardinality(Fresh)
           /\ \A t \in Txs : InProgress(t)' <=> InProgress(t)
BY DEF Sent, NextFree, Unconfirmed, Fresh, InProgress

-----------------------------------------------------------------------------
(* Types.                                                                  *)

Reasons == {"none", "fee_limit", "checker", "rejected", "not_included", "gave_up"}

\* The monitor's locals, however a step leaves them.
LocalOK == /\ pc \in Places /\ cur \in Txs \cup {NoTx} /\ curSeq \in Int /\ why \in Reasons
           /\ tries \in 0..MaxRetries

LEMMA RestOK == \A p \in Places : Rest(p) => LocalOK'
BY DEF Rest, LocalOK, Reasons, NoSeq

LEMMA DoomOK == ASSUME LocalOK, NEW e \in Reasons, Doom(e) PROVE LocalOK'
BY DEF Doom, LocalOK, Places

LEMMA ErrsOK == NoErrs \in [tx : Txs \cup {NoTx}, count : 0..2]
BY DEF NoErrs

LEMMA AnswerOK ==
    ASSUME TypeOK, NEW c, Answer(c)
    PROVE  LocalOK' /\ unknownErrs' \in [tx : Txs \cup {NoTx}, count : 0..2]
<1>1. LocalOK
  BY DEF TypeOK, LocalOK, Reasons
<1>2. /\ \A e \in {"rejected", "not_included"} : Doom(e) => LocalOK'
      /\ (UNCHANGED local /\ pc' \in Places => LocalOK')
      /\ (Rest("retry") => LocalOK') /\ (Rest("failed") => LocalOK')
  BY <1>1, DoomOK, RestOK DEF Reasons, LocalOK, local, Places, Resting
<1>3. {"persist", "bump", "estimate", "reestimate", "pending"} \subseteq Places
  BY DEF Places
<1>4. LocalOK'
  BY <1>2, <1>3 DEF Answer
<1>5. unknownErrs' = unknownErrs \/ unknownErrs' = NoErrs
  BY DEF Answer, clearUnknownErrState
<1> QED
  BY <1>4, <1>5, ErrsOK DEF TypeOK

LEMMA TypeStep ==
    ASSUME Counted, IInv, Next
    PROVE  TypeOK'
<1> USE DEF store, memory, history, bounds
<1> DEFINE StoreOK == /\ state \in [Txs -> TxStates] /\ sequence \in [Txs -> Int]
                      /\ attempt \in [Txs -> {"none", "in_progress", "broadcast"}]
                      /\ reason \in [Txs -> Reasons] /\ signalled \subseteq Txs
           MemoryOK == /\ accepted \in [Txs -> Int] /\ svc \in {"stopped", "started", "closing"}
                       /\ nextSequence \in Int /\ trigger \in {"none", "empty", "full"}
                       /\ unknownErrs \in [tx : Txs \cup {NoTx}, count : 0..2]
           HistoryOK == /\ resumed \subseteq Txs /\ interrupted \subseteq Txs
                        /\ unknowns \in [Txs -> 0..2] /\ reverted \subseteq Txs
                        /\ faults \in 0..MaxFaults /\ restarts \in 0..MaxRestarts
<1>0. /\ TypeOK <=> StoreOK /\ MemoryOK /\ LocalOK /\ HistoryOK
      /\ TypeOK' <=> StoreOK' /\ MemoryOK' /\ LocalOK' /\ HistoryOK'
  BY DEF TypeOK, LocalOK, Reasons
<1>1. TypeOK /\ SeqInv /\ StoreOK /\ MemoryOK /\ LocalOK /\ HistoryOK
  BY <1>0 DEF IInv
<1>2. ASSUME UNCHANGED store PROVE StoreOK'
  BY <1>1, <1>2
<1>3. ASSUME UNCHANGED <<accepted, svc, memory>> PROVE MemoryOK'
  BY <1>1, <1>3
<1>4. ASSUME UNCHANGED <<history, restarts>>, Fault \/ NoFault PROVE HistoryOK'
  BY <1>1, <1>4 DEF Fault, NoFault
<1>5. LoadedSequence \in Int /\ NoSeq \in Int
  BY <1>1, LoadedIsNext DEF NoSeq, Counted
<1>6. \A p \in {"retry", "failed", "count", "finish"} : Rest(p) => LocalOK'
  BY RestOK DEF Places, Resting
<1>7. \A e \in Reasons : Doom(e) => LocalOK'
  BY <1>1, DoomOK
<1>8. ASSUME UNCHANGED local, pc' \in Places PROVE LocalOK'
  BY <1>1, <1>8 DEF LocalOK, local
<1>9. \A t \in Txs, q \in Int, p \in Places : Handle(t, q, p) => LocalOK'
  BY <1>1 DEF LocalOK, Handle
<1>10. pc \in Sending \cup Failing \cup Starting => cur \in Txs
  BY DEF IInv, PlaceInv, FailInv
<1>11. {"unstarted", "in_progress", "unconfirmed", "confirmed", "purged", "fatal_error",
        "removed"} \subseteq TxStates
  BY DEF TxStates
<1>12. {"load", "sync", "progress", "count", "next", "finish", "done", "off", "attempt", "claim",
        "send", "persist", "validate", "generate", "fatal", "completed", "save"} \subseteq Places
  BY DEF Places, Resting
<1>13. NoErrs \in [tx : Txs \cup {NoTx}, count : 0..2]
  BY ErrsOK
<1> HIDE DEF StoreOK, MemoryOK, HistoryOK
<1>14. CASE Start
  BY <1>0, <1>1, <1>2, <1>8, <1>12, <1>13, <1>14 DEF Start, MemoryOK, HistoryOK
<1>15. CASE Close
  BY <1>0, <1>1, <1>2, <1>8, <1>12, <1>15 DEF Close, MemoryOK, HistoryOK, LocalOK
<1>16. CASE Closed
  BY <1>0, <1>1, <1>2, <1>8, <1>12, <1>16 DEF Closed, MemoryOK, HistoryOK, LocalOK
<1>17. CASE Crash
  <2>1. LocalOK'
    BY <1>17, <1>12 DEF Crash, LocalOK, NoSeq, Reasons
  <2>2. {t \in {cur} : pc \in {"completed", "save"}} \subseteq Txs
    BY <1>10 DEF Failing
  <2>3. StoreOK'
    BY <1>2, <1>17 DEF Crash
  <2>4. MemoryOK'
    BY <1>1, <1>5, <1>13, <1>17 DEF Crash, MemoryOK
  <2>5. HistoryOK'
    BY <1>1, <2>2, <1>17 DEF Crash, HistoryOK
  <2> QED
    BY <1>0, <2>1, <2>3, <2>4, <2>5
<1>18. CASE loadAndMonitor
  BY <1>0, <1>1, <1>2, <1>4, <1>5, <1>8, <1>12, <1>18 DEF loadAndMonitor, MemoryOK
<1>19. CASE SyncSequence \/ Finish \/ Exit
  BY <1>0, <1>1, <1>2, <1>3, <1>4, <1>8, <1>12, <1>19 DEF SyncSequence, Finish, Exit, NoFault
<1>20. CASE Wake
  BY <1>0, <1>1, <1>2, <1>4, <1>8, <1>12, <1>20 DEF Wake, MemoryOK, NoFault
<1>21. CASE handleAnyInProgressTx
  <2>1. \A t \in Txs : sequence[t] \in Int
    BY <1>1 DEF StoreOK
  <2>2. LocalOK'
    BY <1>6, <1>9, <1>12, <1>21, <2>1 DEF handleAnyInProgressTx
  <2> QED
    BY <1>0, <1>2, <1>3, <1>4, <1>21, <2>2 DEF handleAnyInProgressTx
<1>22. CASE Throttle
  BY <1>0, <1>2, <1>3, <1>4, <1>6, <1>8, <1>12, <1>22 DEF Throttle
<1>23. CASE nextUnstartedTransactionWithSequence
  <2>1. nextSequence' \in Int
    BY <1>1, <1>5, <1>23 DEF nextUnstartedTransactionWithSequence, MemoryOK
  <2>2. LocalOK'
    BY <1>6, <1>9, <1>12, <1>23, <2>1 DEF nextUnstartedTransactionWithSequence
  <2>3. MemoryOK'
    BY <1>1, <1>23, <2>1 DEF nextUnstartedTransactionWithSequence, MemoryOK
  <2> QED
    BY <1>0, <1>2, <1>4, <1>23, <2>2, <2>3 DEF nextUnstartedTransactionWithSequence
<1>24. CASE NewTxAttempt
  <2>1. LocalOK'
    BY <1>6, <1>7, <1>8, <1>12, <1>24 DEF NewTxAttempt, Reasons
  <2> QED
    BY <1>0, <1>2, <1>3, <1>4, <1>24, <2>1 DEF NewTxAttempt
<1>25. CASE UpdateTxUnstartedToInProgress
  <2>1. LocalOK'
    BY <1>6, <1>8, <1>12, <1>25 DEF UpdateTxUnstartedToInProgress, Again
  <2>2. StoreOK'
    BY <1>1, <1>11, <1>25 DEF UpdateTxUnstartedToInProgress, StoreOK, LocalOK
  <2> QED
    BY <1>0, <1>3, <1>4, <1>25, <2>1, <2>2 DEF UpdateTxUnstartedToInProgress
<1>26. CASE handleInProgressTx
  <2>1. PICK taken \in BOOLEAN, c \in Codes :
           /\ Network(taken, c)
           /\ \/ pc' = "validate" /\ UNCHANGED <<local, unknownErrs>>
              \/ Answer(c)
           /\ NoFault \/ Fault
    BY <1>26 DEF handleInProgressTx
  <2>2. LocalOK' /\ unknownErrs' \in [tx : Txs \cup {NoTx}, count : 0..2]
    BY <1>1, <1>8, <1>12, <2>1, AnswerOK DEF MemoryOK
  <2>3. accepted' \in [Txs -> Int]
    BY <1>1, <2>1 DEF Network, MemoryOK, LocalOK
  <2>4. MemoryOK'
    BY <1>1, <1>26, <2>2, <2>3 DEF handleInProgressTx, MemoryOK
  <2> QED
    BY <1>0, <1>2, <1>4, <1>26, <2>1, <2>2, <2>4 DEF handleInProgressTx
<1>27. CASE validateOnChainSequence
  <2>1. \E c \in Codes : Answer(c)
    BY <1>27 DEF validateOnChainSequence, Codes
  <2>2. LocalOK' /\ unknownErrs' \in [tx : Txs \cup {NoTx}, count : 0..2]
    BY <1>1, <2>1, AnswerOK
  <2>3. MemoryOK'
    BY <1>1, <1>27, <2>2 DEF validateOnChainSequence, MemoryOK
  <2> QED
    BY <1>0, <1>2, <1>4, <1>27, <2>2, <2>3 DEF validateOnChainSequence
<1>28. CASE replaceAttemptWithBumpedGas \/ replaceAttemptWithNewEstimation
  <2>1. attempt' \in [Txs -> {"none", "in_progress", "broadcast"}]
    BY <1>1, <1>28 DEF replaceAttemptWithBumpedGas, replaceAttemptWithNewEstimation,
                       ReplaceAttempt, StoreOK
  <2>2. LocalOK'
    <3>1. ASSUME UNCHANGED <<cur, curSeq, why>>, pc' = "send", tries' \in 0..MaxRetries
          PROVE  LocalOK'
      BY <1>1, <1>12, <3>1 DEF LocalOK
    <3>2. (IF tries < MaxRetries THEN tries + 1 ELSE tries) \in 0..MaxRetries /\ 0 \in 0..MaxRetries
      BY <1>1 DEF LocalOK
    <3> QED
      BY <1>6, <1>28, <3>1, <3>2 DEF replaceAttemptWithBumpedGas, replaceAttemptWithNewEstimation
  <2>3. StoreOK'
    BY <1>1, <1>28, <2>1 DEF replaceAttemptWithBumpedGas, replaceAttemptWithNewEstimation, StoreOK
  <2> QED
    BY <1>0, <1>3, <1>4, <1>28, <2>2, <2>3
       DEF replaceAttemptWithBumpedGas, replaceAttemptWithNewEstimation
<1>29. CASE PendingSequenceAt
  <2>1. LocalOK'
    BY <1>6, <1>7, <1>8, <1>12, <1>29 DEF PendingSequenceAt, Reasons
  <2>2. unknownErrs' \in [tx : Txs \cup {NoTx}, count : 0..2]
    <3>1. recordUnknownErr \in [tx : Txs \cup {NoTx}, count : 0..2]
      BY <1>1 DEF recordUnknownErr, LocalOK
    <3> QED
      BY <1>1, <1>13, <1>29, <3>1 DEF PendingSequenceAt, clearUnknownErrState, MemoryOK
  <2>3. unknowns' \in [Txs -> 0..2]
    <3>1. unknowns' = [unknowns EXCEPT ![cur] = IF @ < 2 THEN @ + 1 ELSE @]
      BY <1>29 DEF PendingSequenceAt
    <3>2. unknowns \in [Txs -> 0..2]
      BY <1>1 DEF HistoryOK
    <3>3. \A n \in 0..2 : (IF n < 2 THEN n + 1 ELSE n) \in 0..2
      OBVIOUS
    <3> QED
      BY <3>1, <3>2, <3>3
  <2>4. MemoryOK'
    BY <1>1, <1>29, <2>2 DEF PendingSequenceAt, MemoryOK
  <2>5. HistoryOK'
    BY <1>1, <1>29, <2>3 DEF PendingSequenceAt, HistoryOK, Fault, NoFault
  <2> QED
    BY <1>0, <1>2, <1>29, <2>1, <2>4, <2>5 DEF PendingSequenceAt
<1>30. CASE UpdateTxAttemptInProgressToBroadcast
  <2>1. LocalOK'
    BY <1>6, <1>8, <1>12, <1>30 DEF UpdateTxAttemptInProgressToBroadcast
  <2>2. StoreOK'
    BY <1>1, <1>11, <1>30 DEF UpdateTxAttemptInProgressToBroadcast, StoreOK
  <2>3. MemoryOK'
    BY <1>1, <1>13, <1>30 DEF UpdateTxAttemptInProgressToBroadcast, MemoryOK, clearUnknownErrState
  <2> QED
    BY <1>0, <1>4, <1>30, <2>1, <2>2, <2>3 DEF UpdateTxAttemptInProgressToBroadcast
<1>31. CASE GenerateNextSequence
  <2>1. LocalOK'
    BY <1>6, <1>31 DEF GenerateNextSequence, Again
  <2>2. MemoryOK'
    BY <1>1, <1>31 DEF GenerateNextSequence, MemoryOK, LocalOK
  <2> QED
    BY <1>0, <1>2, <1>4, <1>31, <2>1, <2>2 DEF GenerateNextSequence, NoFault
<1>32. CASE resumeCallback
  <2>1. LocalOK'
    BY <1>6, <1>8, <1>12, <1>32 DEF resumeCallback
  <2>2. HistoryOK'
    BY <1>1, <1>32 DEF resumeCallback, HistoryOK, Fault, NoFault
  <2> QED
    BY <1>0, <1>2, <1>3, <1>32, <2>1, <2>2 DEF resumeCallback
<1>33. CASE UpdateTxCallbackCompleted
  <2>1. cur \in Txs
    BY <1>10, <1>33 DEF UpdateTxCallbackCompleted, Failing
  <2>2. LocalOK'
    BY <1>6, <1>8, <1>12, <1>33 DEF UpdateTxCallbackCompleted
  <2>3. StoreOK'
    BY <1>1, <1>33, <2>1 DEF UpdateTxCallbackCompleted, StoreOK
  <2>4. HistoryOK'
    BY <1>1, <1>33, <2>1 DEF UpdateTxCallbackCompleted, HistoryOK, Fault, NoFault
  <2> QED
    BY <1>0, <1>3, <1>33, <2>2, <2>3, <2>4 DEF UpdateTxCallbackCompleted
<1>34. CASE UpdateTxFatalErrorAndDeleteAttempts
  <2>1. cur \in Txs
    BY <1>10, <1>34 DEF UpdateTxFatalErrorAndDeleteAttempts, Failing
  <2>2. LocalOK'
    BY <1>6, <1>34 DEF UpdateTxFatalErrorAndDeleteAttempts, Again
  <2>3. StoreOK'
    BY <1>1, <1>5, <1>11, <1>34, <2>1 DEF UpdateTxFatalErrorAndDeleteAttempts, StoreOK, LocalOK
  <2>4. HistoryOK'
    BY <1>1, <1>34, <2>1 DEF UpdateTxFatalErrorAndDeleteAttempts, HistoryOK, Fault, NoFault
  <2> QED
    BY <1>0, <1>3, <1>34, <2>2, <2>3, <2>4 DEF UpdateTxFatalErrorAndDeleteAttempts
<1>35. CASE CreateTransaction \/ PruneQueue \/ ProcessIncludedTxs \/ ProcessReorgTxs
  <2>1. StoreOK'
    BY <1>1, <1>11, <1>35 DEF CreateTransaction, PruneQueue, ProcessIncludedTxs, ProcessReorgTxs, Move, Sent, Unconfirmed,
       StoreOK
  <2>2. MemoryOK'
    BY <1>1, <1>35 DEF CreateTransaction, PruneQueue, ProcessIncludedTxs, ProcessReorgTxs, Trigger, MemoryOK
  <2>3. LocalOK'
    BY <1>1, <1>35 DEF CreateTransaction, PruneQueue, ProcessIncludedTxs, ProcessReorgTxs, local, LocalOK
  <2>4. HistoryOK'
    BY <1>1, <1>35 DEF CreateTransaction, PruneQueue, ProcessIncludedTxs, ProcessReorgTxs,
       Fault, Sent, Unconfirmed, HistoryOK
  <2> QED
    BY <1>0, <2>1, <2>2, <2>3, <2>4
<1> QED
  BY <1>14, <1>15, <1>16, <1>17, <1>18, <1>19, <1>20, <1>21, <1>22, <1>23, <1>24, <1>25, <1>26,
     <1>27, <1>28, <1>29, <1>30, <1>31, <1>32, <1>33, <1>34, <1>35 DEF Next, Monitor

-----------------------------------------------------------------------------
(* The steps that change neither the books nor the network.                *)

LEMMA Frame ==
    ASSUME IInv, UNCHANGED <<state, sequence, attempt, reason, accepted, unknowns, reverted>>,
           unknownErrs' = unknownErrs \/ unknownErrs' = NoErrs
    PROVE  /\ SeqInv' /\ SavedBeforeSent' /\ NetInv' /\ GivesUpOnOwnErrors'
           /\ NextFree' = NextFree /\ Cardinality(Fresh)' = Cardinality(Fresh)
<1>1. Sent' = Sent /\ NextFree' = NextFree /\ Cardinality(Fresh)' = Cardinality(Fresh)
  BY SameSent DEF IInv
<1>2. SeqInv'
  BY <1>1 DEF IInv, SeqInv, InProgress
<1>3. NoErrs.tx \notin Txs
  BY DEF NoErrs
<1>4. NetInv'
  BY <1>1, <1>3 DEF IInv, NetInv, InProgress
<1> QED
  BY <1>1, <1>2, <1>4 DEF IInv, SavedBeforeSent, GivesUpOnOwnErrors

Quiet ==
    \/ Start \/ Close \/ Closed \/ Crash \/ loadAndMonitor \/ SyncSequence \/ Finish \/ Exit \/ Wake
    \/ handleAnyInProgressTx \/ Throttle \/ nextUnstartedTransactionWithSequence \/ NewTxAttempt
    \/ validateOnChainSequence \/ GenerateNextSequence \/ resumeCallback
    \/ UpdateTxCallbackCompleted

LEMMA QuietStep ==
    ASSUME Counted, IInv, TypeOK', Quiet
    PROVE  IInv'
<1> USE DEF store, memory, history
<1>0. /\ UNCHANGED <<state, sequence, attempt, reason, accepted, unknowns, reverted>>
      /\ unknownErrs' = unknownErrs \/ unknownErrs' = NoErrs
  BY DEF Quiet, Start, Close, Closed, Crash, loadAndMonitor, SyncSequence, Finish, Exit, Wake,
         handleAnyInProgressTx, Throttle, nextUnstartedTransactionWithSequence, NewTxAttempt,
         validateOnChainSequence, GenerateNextSequence, resumeCallback, UpdateTxCallbackCompleted,
         Answer, clearUnknownErrState
<1>1. /\ TypeOK /\ SeqInv /\ TrackerInv /\ PlaceInv /\ FailInv
      /\ SavedBeforeSent /\ LimitInv /\ SignalInv
      /\ LoadedSequence = NextFree /\ NextFree \in Nat /\ Cardinality(Fresh) \in Nat
  BY LoadedIsNext DEF IInv, Counted
<1>2. /\ TypeOK' /\ SeqInv' /\ SavedBeforeSent' /\ NetInv' /\ GivesUpOnOwnErrors'
      /\ state' = state /\ sequence' = sequence /\ accepted' = accepted /\ unknowns' = unknowns
      /\ NextFree' = NextFree /\ Cardinality(Fresh)' = Cardinality(Fresh)
  BY <1>0, Frame
<1>3. CASE Start
  <2>1. TrackerInv' /\ PlaceInv' /\ FailInv' /\ LimitInv'
    BY <1>1, <1>2, <1>3 DEF Start, SignalInv,
       TrackerInv, PlaceInv, FailInv, LimitInv, Starting, Sending, Failing, InProgress
  <2>2. SignalInv'
    BY <1>1, <1>2, <1>3 DEF Start, SignalInv, Failing
  <2> QED
    BY <1>2, <2>1, <2>2 DEF IInv
<1>4. CASE loadAndMonitor
  <2>1. TrackerInv' /\ PlaceInv' /\ FailInv' /\ LimitInv'
    BY <1>1, <1>2, <1>4 DEF loadAndMonitor,
       TrackerInv, PlaceInv, FailInv, LimitInv, Starting, Sending, Failing, InProgress
  <2>2. SignalInv'
    BY <1>1, <1>2, <1>4 DEF loadAndMonitor, SignalInv, Failing
  <2> QED
    BY <1>2, <2>1, <2>2 DEF IInv
<1>5. CASE SyncSequence
  <2>1. TrackerInv' /\ PlaceInv' /\ FailInv' /\ LimitInv'
    BY <1>1, <1>2, <1>5 DEF SyncSequence, local,
       TrackerInv, PlaceInv, FailInv, LimitInv, Starting, Sending, Failing, InProgress
  <2>2. SignalInv'
    BY <1>1, <1>2, <1>5 DEF SyncSequence, local, SignalInv, Failing
  <2> QED
    BY <1>2, <2>1, <2>2 DEF IInv
<1>6. CASE Close
  <2>1. TrackerInv' /\ PlaceInv' /\ FailInv' /\ LimitInv'
    BY <1>1, <1>2, <1>6 DEF Close, local,
       TrackerInv, PlaceInv, FailInv, LimitInv, Starting, Sending, Failing, InProgress
  <2>2. SignalInv'
    BY <1>1, <1>2, <1>6 DEF Close, local, SignalInv, Failing
  <2> QED
    BY <1>2, <2>1, <2>2 DEF IInv
<1>7. CASE Closed
  <2>1. TrackerInv' /\ PlaceInv' /\ FailInv' /\ LimitInv'
    BY <1>1, <1>2, <1>7 DEF Closed, local,
       TrackerInv, PlaceInv, FailInv, LimitInv, Starting, Sending, Failing, InProgress
  <2>2. SignalInv'
    BY <1>1, <1>2, <1>7 DEF Closed, local, SignalInv, Failing
  <2> QED
    BY <1>2, <2>1, <2>2 DEF IInv
<1>8. CASE Crash
  <2>1. TrackerInv' /\ PlaceInv' /\ FailInv' /\ LimitInv'
    BY <1>1, <1>2, <1>8 DEF Crash,
       TrackerInv, PlaceInv, FailInv, LimitInv, Starting, Sending, Failing, InProgress
  <2>2. SignalInv'
    BY <1>1, <1>2, <1>8 DEF Crash, SignalInv, Failing
  <2> QED
    BY <1>2, <2>1, <2>2 DEF IInv
<1>9. CASE Finish
  <2>1. TrackerInv' /\ PlaceInv' /\ FailInv' /\ LimitInv'
    BY <1>1, <1>2, <1>9 DEF Finish, local,
       TrackerInv, PlaceInv, FailInv, LimitInv, Starting, Sending, Failing, InProgress
  <2>2. SignalInv'
    BY <1>1, <1>2, <1>9 DEF Finish, local, SignalInv, Failing
  <2> QED
    BY <1>2, <2>1, <2>2 DEF IInv
<1>10. CASE Exit
  <2>1. TrackerInv' /\ PlaceInv' /\ FailInv' /\ LimitInv'
    BY <1>1, <1>2, <1>10 DEF Exit, local, Resting,
       TrackerInv, PlaceInv, FailInv, LimitInv, Starting, Sending, Failing, InProgress
  <2>2. SignalInv'
    BY <1>1, <1>2, <1>10 DEF Exit, local, Resting, SignalInv, Failing
  <2> QED
    BY <1>2, <2>1, <2>2 DEF IInv
<1>11. CASE Wake
  <2>1. TrackerInv' /\ PlaceInv' /\ FailInv' /\ LimitInv'
    BY <1>1, <1>2, <1>11 DEF Wake, local, Resting,
       TrackerInv, PlaceInv, FailInv, LimitInv, Starting, Sending, Failing, InProgress
  <2>2. SignalInv'
    BY <1>1, <1>2, <1>11 DEF Wake, local, Resting, SignalInv, Failing
  <2> QED
    BY <1>2, <2>1, <2>2 DEF IInv
<1>12. CASE handleAnyInProgressTx
  <2>1. TrackerInv' /\ PlaceInv' /\ FailInv' /\ LimitInv'
    BY <1>1, <1>2, <1>12 DEF handleAnyInProgressTx, Rest, Handle,
       SeqInv, TrackerInv, PlaceInv, FailInv, LimitInv, Starting, Sending, Failing, InProgress
  <2>2. SignalInv'
    BY <1>1, <1>2, <1>12 DEF handleAnyInProgressTx, Rest, Handle, SignalInv, Failing
  <2> QED
    BY <1>2, <2>1, <2>2 DEF IInv
<1>13. CASE Throttle
  <2>0. Cardinality(Unconfirmed) \in Nat /\ Cardinality(Fresh) <= Cardinality(Unconfirmed)
    BY DEF Counted
  <2>1. TrackerInv' /\ PlaceInv' /\ FailInv' /\ LimitInv'
    BY <1>1, <1>2, <1>13, <2>0 DEF Throttle, Rest, local,
       TrackerInv, PlaceInv, FailInv, LimitInv, Starting, Sending, Failing, InProgress
  <2>2. SignalInv'
    BY <1>1, <1>2, <1>13 DEF Throttle, Rest, local, SignalInv, Failing
  <2> QED
    BY <1>2, <2>1, <2>2 DEF IInv
<1>14. CASE nextUnstartedTransactionWithSequence
  <2>1. TrackerInv' /\ PlaceInv' /\ FailInv' /\ LimitInv'
    BY <1>1, <1>2, <1>14 DEF nextUnstartedTransactionWithSequence, Rest, Handle,
       TrackerInv, PlaceInv, FailInv, LimitInv, Starting, Sending, Failing, InProgress
  <2>2. SignalInv'
    BY <1>1, <1>2, <1>14 DEF nextUnstartedTransactionWithSequence, Rest, Handle, SignalInv, Failing
  <2> QED
    BY <1>2, <2>1, <2>2 DEF IInv
<1>15. CASE NewTxAttempt
  <2>0. cur \in Txs /\ accepted[cur] = NoSeq
    BY <1>1, <1>15 DEF NewTxAttempt, PlaceInv, Starting, SavedBeforeSent, Sent
  <2>1. TrackerInv' /\ PlaceInv' /\ FailInv' /\ LimitInv'
    BY <1>1, <1>2, <1>15, <2>0 DEF NewTxAttempt, Rest, Doom, local,
       TrackerInv, PlaceInv, FailInv, LimitInv, Starting, Sending, Failing, InProgress
  <2>2. SignalInv'
    BY <1>1, <1>2, <1>15 DEF NewTxAttempt, Rest, Doom, local, SignalInv, Failing
  <2> QED
    BY <1>2, <2>1, <2>2 DEF IInv
<1>16. CASE validateOnChainSequence
  <2>1. TrackerInv' /\ PlaceInv' /\ FailInv' /\ LimitInv'
    BY <1>1, <1>2, <1>16 DEF validateOnChainSequence, Answer, Rest, Doom, local, Dropping,
       SeqInv, TrackerInv, PlaceInv, FailInv, LimitInv, Starting, Sending, Failing, InProgress
  <2>2. SignalInv'
    BY <1>1, <1>2, <1>16 DEF validateOnChainSequence, Answer, Rest, Doom, local, SignalInv, Failing
  <2> QED
    BY <1>2, <2>1, <2>2 DEF IInv
<1>17. CASE GenerateNextSequence
  <2>1. TrackerInv' /\ PlaceInv' /\ FailInv' /\ LimitInv'
    BY <1>1, <1>2, <1>17 DEF GenerateNextSequence, Again, Rest,
       TrackerInv, PlaceInv, FailInv, LimitInv, Starting, Sending, Failing, InProgress
  <2>2. SignalInv'
    BY <1>1, <1>2, <1>17 DEF GenerateNextSequence, Again, Rest, SignalInv, Failing
  <2> QED
    BY <1>2, <2>1, <2>2 DEF IInv
<1>18. CASE resumeCallback
  <2>1. TrackerInv' /\ PlaceInv' /\ FailInv' /\ LimitInv'
    BY <1>1, <1>2, <1>18 DEF resumeCallback, Rest, local,
       TrackerInv, PlaceInv, FailInv, LimitInv, Starting, Sending, Failing, InProgress
  <2>2. SignalInv'
    BY <1>1, <1>2, <1>18 DEF resumeCallback, Rest, local, SignalInv, Failing
  <2> QED
    BY <1>2, <2>1, <2>2 DEF IInv
<1>19. CASE UpdateTxCallbackCompleted
  <2>1. TrackerInv' /\ PlaceInv' /\ FailInv' /\ LimitInv'
    BY <1>1, <1>2, <1>19 DEF UpdateTxCallbackCompleted, Rest, local,
       TrackerInv, PlaceInv, FailInv, LimitInv, Starting, Sending, Failing, InProgress
  <2>2. SignalInv'
    BY <1>1, <1>2, <1>19 DEF UpdateTxCallbackCompleted, Rest, local, SignalInv, Failing
  <2> QED
    BY <1>2, <2>1, <2>2 DEF IInv
<1> QED
  BY <1>3, <1>4, <1>5, <1>6, <1>7, <1>8, <1>9, <1>10, <1>11, <1>12, <1>13, <1>14,
     <1>15, <1>16, <1>17, <1>18, <1>19 DEF Quiet

-----------------------------------------------------------------------------
(* The steps towards the network, which leave the states of the rows.      *)

LEMMA SendStep ==
    ASSUME IInv, TypeOK', handleInProgressTx
    PROVE  IInv'
<1> USE DEF store, memory, history
<1>1. /\ TypeOK /\ SeqInv /\ TrackerInv /\ PlaceInv /\ FailInv
      /\ SavedBeforeSent /\ NetInv /\ GivesUpOnOwnErrors /\ LimitInv /\ SignalInv
  BY DEF IInv
<1>2. /\ pc = "send" /\ UNCHANGED <<store, svc, nextSequence, trigger, history, restarts>>
      /\ cur \in Txs /\ InProgress(cur) /\ curSeq = NextFree /\ sequence[cur] = NextFree
  BY <1>1 DEF handleInProgressTx, PlaceInv, Sending, SeqInv
<1>3. /\ Sent' = Sent /\ NextFree' = NextFree
      /\ Cardinality(Fresh)' = Cardinality(Fresh)
  BY <1>1, <1>2, SameSent
<1>4. PICK taken \in BOOLEAN, c \in Codes :
         /\ Network(taken, c)
         /\ \/ pc' = "validate" /\ UNCHANGED <<local, unknownErrs>>
            \/ Answer(c)
  BY DEF handleInProgressTx
<1>5. /\ accepted' \in [Txs -> Int]
      /\ \A t \in Txs : accepted'[t] = accepted[t] \/ (t = cur /\ accepted'[t] = curSeq)
  BY <1>1, <1>4 DEF Network, TypeOK
<1>6. SeqInv'
  BY <1>1, <1>2, <1>3 DEF SeqInv, InProgress
<1>7. SavedBeforeSent' /\ GivesUpOnOwnErrors'
  BY <1>1, <1>2, <1>5 DEF SavedBeforeSent, Sent, GivesUpOnOwnErrors, InProgress
<1>8. NetInv'
  <2>1. unknownErrs' = unknownErrs \/ unknownErrs' = NoErrs
    BY <1>4 DEF Answer, clearUnknownErrState
  <2>2. NoErrs.tx \notin Txs
    BY DEF NoErrs
  <2> QED
    BY <1>1, <1>2, <1>3, <1>5, <2>1, <2>2 DEF NetInv, InProgress
<1>9. TrackerInv' /\ PlaceInv' /\ LimitInv'
  BY <1>1, <1>2, <1>3, <1>4 DEF Answer, Rest, Doom, local, TrackerInv, PlaceInv, LimitInv,
     Starting, Sending, InProgress
<1>10. FailInv'
  <2> SUFFICES ASSUME pc' \in Failing PROVE FailInv'
    BY DEF FailInv
  <2>1. c \in {"Fatal", "TerminallyStuck"} /\ Doom("rejected")
    BY <1>2, <1>4 DEF Answer, Rest, Failing
  <2> QED
    BY <1>1, <1>2, <2>1 DEF FailInv, Doom, SeqInv, InProgress, Dropping
<1>11. SignalInv'
  BY <1>1, <1>2, <1>4 DEF Answer, Rest, Doom, local, SignalInv
<1> QED
  BY <1>6, <1>7, <1>8, <1>9, <1>10, <1>11 DEF IInv

LEMMA AttemptStep ==
    ASSUME IInv, TypeOK', replaceAttemptWithBumpedGas \/ replaceAttemptWithNewEstimation
    PROVE  IInv'
<1> USE DEF memory, history
<1>1. /\ TypeOK /\ SeqInv /\ TrackerInv /\ PlaceInv /\ FailInv
      /\ SavedBeforeSent /\ NetInv /\ GivesUpOnOwnErrors /\ LimitInv /\ SignalInv
  BY DEF IInv
<1>2. /\ pc \in Sending
      /\ UNCHANGED <<state, sequence, reason, signalled, accepted, svc, memory, history, restarts>>
      /\ pc' \in {"retry", "failed"} \/ (pc' = "send" /\ UNCHANGED <<cur, curSeq>>)
      /\ UNCHANGED attempt \/ ReplaceAttempt
  BY DEF replaceAttemptWithBumpedGas, replaceAttemptWithNewEstimation, Sending, Rest
<1>3. /\ Sent' = Sent /\ NextFree' = NextFree
      /\ Cardinality(Fresh)' = Cardinality(Fresh)
  BY <1>1, <1>2, SameSent
<1>4. cur \in Txs /\ InProgress(cur) /\ curSeq = NextFree
  BY <1>1, <1>2 DEF PlaceInv
<1>5. SeqInv' /\ NetInv' /\ GivesUpOnOwnErrors'
  BY <1>1, <1>2, <1>3 DEF SeqInv, NetInv, GivesUpOnOwnErrors, InProgress
<1>6. SavedBeforeSent'
  BY <1>1, <1>2, <1>4 DEF SavedBeforeSent, Sent, ReplaceAttempt, InProgress, TypeOK
<1>7. TrackerInv' /\ PlaceInv' /\ FailInv' /\ LimitInv'
  BY <1>1, <1>2, <1>3, <1>4 DEF TrackerInv, PlaceInv, FailInv, LimitInv,
     Starting, Sending, Failing, InProgress
<1>8. SignalInv'
  BY <1>1, <1>2 DEF SignalInv, Sending
<1> QED
  BY <1>5, <1>6, <1>7, <1>8 DEF IInv

-----------------------------------------------------------------------------
(* Counting.                                                               *)

LOCAL Counting == INSTANCE FiniteSetTheorems

\* The library speaks of the same finite sets and of the same cardinality.
LEMMA SameFinite == \A S : Counting!IsFiniteSet(S) <=> IsFiniteSet(S)
BY DEF IsFiniteSet, Counting!IsFiniteSet

LEMMA SameCount == \A S : Counting!Cardinality(S) = Cardinality(S)
BY DEF Cardinality, Counting!Cardinality

\* Every set of rows is finite, and it has at most as many elements as there are rows.
LEMMA RowsFinite ==
    ASSUME NEW S, S \in SUBSET Txs
    PROVE  /\ Counting!IsFiniteSet(S) /\ Cardinality(S) \in Nat
           /\ Cardinality(S) <= Cardinality(Txs) /\ Cardinality(Txs) \in Nat
<1>1. Counting!IsFiniteSet(Txs)
  BY SameFinite
<1>2. Counting!IsFiniteSet(S) /\ Counting!Cardinality(S) <= Counting!Cardinality(Txs)
  BY <1>1, Counting!FS_Subset
<1>3. Counting!Cardinality(S) \in Nat /\ Counting!Cardinality(Txs) \in Nat
  BY <1>1, <1>2, Counting!FS_CardinalityType
<1> QED
  BY <1>2, <1>3, SameCount

\* One more element counts for one more.
LEMMA OneMore ==
    ASSUME NEW S, S \in SUBSET Txs, NEW t, t \notin S
    PROVE  Cardinality(S \cup {t}) = Cardinality(S) + 1 /\ Cardinality(S) \in Nat
<1>1. Counting!Cardinality(S \cup {t}) = Counting!Cardinality(S) + 1
  BY RowsFinite, Counting!FS_AddElement
<1> QED
  BY <1>1, SameCount, RowsFinite

LEMMA SentRows == Sent \in SUBSET Txs /\ Unconfirmed \in SUBSET Txs /\ Fresh \in SUBSET Txs
BY DEF Sent, Unconfirmed, Fresh

\* The rows handed over, and those awaiting a receipt, are among the finitely many rows.
LEMMA Finite == Counted
<1>1. NextFree \in Nat /\ NextFree <= Cardinality(Txs) /\ Cardinality(Txs) \in Nat
  BY SentRows, RowsFinite DEF NextFree
<1>2. Cardinality(Fresh) \in Nat /\ Cardinality(Unconfirmed) \in Nat
  BY SentRows, RowsFinite
<1>3. Cardinality(Fresh) <= Cardinality(Unconfirmed)
  <2>1. Counting!IsFiniteSet(Unconfirmed) /\ Fresh \in SUBSET Unconfirmed
    BY SentRows, RowsFinite DEF Fresh
  <2>2. Counting!Cardinality(Fresh) <= Counting!Cardinality(Unconfirmed)
    BY <2>1, Counting!FS_Subset
  <2> QED
    BY <2>2, SameCount
<1> QED
  BY <1>1, <1>2, <1>3 DEF Counted

\* A row is handed over, or begins to wait for its receipt.
LEMMA OneMoreSent ==
    ASSUME NEW t, Sent' = Sent \cup {t}, t \notin Sent
    PROVE  NextFree' = NextFree + 1 /\ NextFree \in Nat
BY SentRows, OneMore DEF NextFree

LEMMA OneMoreFresh ==
    ASSUME NEW t, Fresh' = Fresh \cup {t}, t \notin Fresh
    PROVE  /\ Cardinality(Fresh)' = Cardinality(Fresh) + 1
           /\ Cardinality(Fresh) \in Nat
BY SentRows, OneMore

\* Confirming a row leaves no more of them waiting.
LEMMA FewerFresh ==
    ASSUME Fresh' \subseteq Fresh
    PROVE  /\ Cardinality(Fresh)' <= Cardinality(Fresh)
           /\ Cardinality(Fresh)' \in Nat /\ Cardinality(Fresh) \in Nat
<1>1. Counting!IsFiniteSet(Fresh)
  BY SentRows, RowsFinite
<1>2. /\ Counting!IsFiniteSet(Fresh')
      /\ Counting!Cardinality(Fresh') <= Counting!Cardinality(Fresh)
  BY <1>1, Counting!FS_Subset
<1>3. Counting!Cardinality(Fresh') \in Nat /\ Counting!Cardinality(Fresh) \in Nat
  BY <1>1, <1>2, Counting!FS_CardinalityType
<1> QED
  BY <1>2, <1>3, SameCount

\* No row is handed over at first.
LEMMA NoneSent ==
    /\ Sent = {} => NextFree = 0
    /\ Fresh = {} => Cardinality(Fresh) = 0
<1>1. Counting!Cardinality({}) = 0
  BY Counting!FS_EmptySet
<1>2. Cardinality({}) = 0
  BY <1>1, SameCount
<1> QED
  BY <1>2 DEF NextFree

LEMMA PendingStep ==
    ASSUME IInv, TypeOK', PendingSequenceAt
    PROVE  IInv'
<1> USE DEF store, memory, history
<1>1. /\ TypeOK /\ SeqInv /\ TrackerInv /\ PlaceInv /\ FailInv
      /\ SavedBeforeSent /\ NetInv /\ GivesUpOnOwnErrors /\ LimitInv /\ SignalInv
  BY DEF IInv
<1>2. /\ pc = "pending" /\ cur \in Txs /\ InProgress(cur) /\ curSeq = NextFree
      /\ UNCHANGED <<store, accepted, svc, nextSequence, trigger, resumed, interrupted, reverted,
                     restarts>>
  BY <1>1 DEF PendingSequenceAt, PlaceInv, Sending
<1>3. /\ Sent' = Sent /\ NextFree' = NextFree
      /\ Cardinality(Fresh)' = Cardinality(Fresh)
  BY <1>1, <1>2, SameSent
<1>4. /\ \A t \in Txs : unknowns'[t] >= unknowns[t] /\ unknowns[t] \in 0..2
      /\ unknowns'[cur] >= 1 /\ (unknowns[cur] >= 1 => unknowns'[cur] > 1)
  <2>1. unknowns \in [Txs -> 0..2]
    BY <1>1 DEF TypeOK
  <2>2. unknowns' = [unknowns EXCEPT ![cur] = IF @ < 2 THEN @ + 1 ELSE @]
    BY DEF PendingSequenceAt
  <2> QED
    BY <1>2, <2>1, <2>2
<1>5. \/ pc' = "retry" /\ unknownErrs' \in {unknownErrs, recordUnknownErr}
      \/ pc' = "persist" /\ UNCHANGED <<local, unknownErrs>>
      \/ Doom("gave_up") /\ unknownErrs' = NoErrs /\ unknownErrs.tx = cur
  BY DEF PendingSequenceAt, clearUnknownErrState, Rest, recordUnknownErr
<1>6. unknownErrs'.tx \in Txs => unknownErrs'.tx \in {unknownErrs.tx, cur}
  BY <1>5 DEF recordUnknownErr, NoErrs, Doom
<1>7. SeqInv' /\ SavedBeforeSent'
  BY <1>1, <1>2, <1>3 DEF SeqInv, SavedBeforeSent, InProgress
<1>8. GivesUpOnOwnErrors'
  <2>1. \A t \in Txs : unknowns[t] \in 0..2 /\ unknowns'[t] \in 0..2
    BY <1>1 DEF TypeOK
  <2> QED
    BY <1>1, <1>2, <1>4, <2>1 DEF GivesUpOnOwnErrors
<1>9. NetInv'
  <2> SUFFICES ASSUME NEW t \in Txs, unknownErrs'.tx = t PROVE unknowns'[t] >= 1
    BY <1>1, <1>2, <1>3 DEF NetInv, InProgress
  <2>1. t = unknownErrs.tx \/ t = cur
    BY <1>6
  <2>2. t = unknownErrs.tx => unknowns[t] >= 1
    BY <1>1 DEF NetInv
  <2>3. unknowns[t] \in 0..2 /\ unknowns'[t] \in 0..2
    BY <1>1 DEF TypeOK
  <2> QED
    BY <1>4, <2>1, <2>2, <2>3
<1>10. TrackerInv' /\ PlaceInv' /\ LimitInv'
  BY <1>1, <1>2, <1>3, <1>5 DEF Doom, local, TrackerInv, PlaceInv, LimitInv,
     Starting, Sending, InProgress
<1>11. FailInv'
  <2> SUFFICES ASSUME pc' \in Failing PROVE FailInv'
    BY DEF FailInv
  <2>1. Doom("gave_up") /\ unknownErrs.tx = cur
    BY <1>5 DEF Failing
  <2>2. unknowns'[cur] > 1
    BY <1>1, <1>2, <1>4, <2>1 DEF NetInv
  <2> QED
    BY <1>1, <1>2, <2>1, <2>2 DEF FailInv, Doom, SeqInv, InProgress, Dropping
<1>12. SignalInv'
  BY <1>1, <1>2, <1>5 DEF Doom, local, SignalInv
<1> QED
  BY <1>7, <1>8, <1>9, <1>10, <1>11, <1>12 DEF IInv

-----------------------------------------------------------------------------
(* The steps that change the state of a row.                               *)

\* One row changes its state, and it was not handed over nor is it now.
LEMMA OtherSent ==
    ASSUME TypeOK, NEW t \in Txs, NEW v, state' = [state EXCEPT ![t] = v],
           reverted' = reverted,
           state[t] \notin {"unconfirmed", "confirmed", "purged"},
           v \notin {"unconfirmed", "confirmed", "purged"}
    PROVE  Sent' = Sent /\ NextFree' = NextFree
           /\ Cardinality(Fresh)' = Cardinality(Fresh)
<1>1. Sent' = Sent
  BY DEF Sent, TypeOK
<1>2. Fresh' = Fresh
  BY DEF Fresh, Unconfirmed, TypeOK
<1> QED
  BY <1>1, <1>2 DEF NextFree

LEMMA ClaimStep ==
    ASSUME IInv, TypeOK', UpdateTxUnstartedToInProgress
    PROVE  IInv'
<1> USE DEF memory, history
<1>1. /\ TypeOK /\ SeqInv /\ TrackerInv /\ PlaceInv /\ FailInv
      /\ SavedBeforeSent /\ NetInv /\ GivesUpOnOwnErrors /\ LimitInv /\ SignalInv
  BY DEF IInv
<1>2. /\ pc = "claim" /\ cur \in Txs /\ curSeq = NextFree /\ \A t \in Txs : ~InProgress(t)
      /\ UNCHANGED <<reason, signalled, accepted, svc, memory, history, restarts>>
  BY <1>1 DEF UpdateTxUnstartedToInProgress, PlaceInv, Starting
<1>3. CASE UNCHANGED <<state, sequence, attempt>> /\ pc' \in {"count", "retry"}
  <2>1. /\ SeqInv' /\ SavedBeforeSent' /\ NetInv' /\ GivesUpOnOwnErrors'
        /\ NextFree' = NextFree /\ Cardinality(Fresh)' = Cardinality(Fresh)
    BY <1>2, <1>3, Frame
  <2>2. TrackerInv' /\ PlaceInv' /\ FailInv' /\ LimitInv'
    BY <1>1, <1>2, <1>3, <2>1 DEF TrackerInv, PlaceInv, FailInv, LimitInv,
       Starting, Sending, Failing, InProgress
  <2>3. SignalInv'
    BY <1>1, <1>2, <1>3 DEF SignalInv
  <2> QED
    BY <2>1, <2>2, <2>3 DEF IInv
<1>4. CASE /\ state[cur] = "unstarted"
           /\ state' = [state EXCEPT ![cur] = "in_progress"]
           /\ sequence' = [sequence EXCEPT ![cur] = curSeq]
           /\ attempt' = [attempt EXCEPT ![cur] = "in_progress"]
           /\ pc' = "send" /\ UNCHANGED local
  <2>1. /\ Sent' = Sent /\ NextFree' = NextFree
        /\ Cardinality(Fresh)' = Cardinality(Fresh)
    BY <1>1, <1>2, <1>4, OtherSent
  <2>2. \A t \in Txs : /\ t # cur => /\ state'[t] = state[t] /\ sequence'[t] = sequence[t]
                                     /\ attempt'[t] = attempt[t]
                       /\ InProgress(t)' <=> t = cur
    BY <1>1, <1>2, <1>4 DEF TypeOK, InProgress
  <2>3. /\ state'[cur] = "in_progress" /\ sequence'[cur] = NextFree
        /\ attempt'[cur] = "in_progress" /\ accepted[cur] = NoSeq /\ cur \notin Sent
    BY <1>1, <1>2, <1>4 DEF TypeOK, SavedBeforeSent, Sent
  <2>4. Sent \subseteq Txs
    BY DEF Sent
  <2>5. SeqInv'
    BY <1>1, <2>1, <2>2, <2>3, <2>4 DEF SeqInv
  <2>6. SavedBeforeSent' /\ GivesUpOnOwnErrors'
    BY <1>1, <1>2, <2>2, <2>3 DEF SavedBeforeSent, Sent, GivesUpOnOwnErrors
  <2>7. NetInv'
    BY <1>1, <1>2, <1>4, <2>1, <2>2, <2>3 DEF NetInv, InProgress
  <2>8. TrackerInv' /\ PlaceInv' /\ FailInv'
    BY <1>1, <1>2, <1>4, <2>1, <2>2 DEF TrackerInv, PlaceInv, FailInv, local,
       Starting, Sending, Failing
  <2>9. LimitInv'
    BY <1>1, <1>2, <2>1 DEF LimitInv, Starting
  <2>10. SignalInv'
    BY <1>1, <1>2, <1>4, <2>2 DEF SignalInv, TypeOK
  <2> QED
    BY <2>5, <2>6, <2>7, <2>8, <2>9, <2>10 DEF IInv
<1> QED
  BY <1>3, <1>4 DEF UpdateTxUnstartedToInProgress, Again, Rest

LEMMA PersistStep ==
    ASSUME IInv, TypeOK', UpdateTxAttemptInProgressToBroadcast
    PROVE  IInv'
<1> USE DEF memory, history
<1>1. /\ TypeOK /\ SeqInv /\ TrackerInv /\ PlaceInv /\ FailInv
      /\ SavedBeforeSent /\ NetInv /\ GivesUpOnOwnErrors /\ LimitInv /\ SignalInv
  BY DEF IInv
<1>2. /\ pc = "persist" /\ cur \in Txs /\ curSeq = NextFree /\ InProgress(cur)
      /\ UNCHANGED <<sequence, reason, signalled, accepted, svc, nextSequence, trigger,
                     history, restarts>>
  BY <1>1 DEF UpdateTxAttemptInProgressToBroadcast, PlaceInv, Sending
<1>3. CASE UNCHANGED <<state, attempt, unknownErrs>> /\ pc' = "retry"
  <2>1. /\ SeqInv' /\ SavedBeforeSent' /\ NetInv' /\ GivesUpOnOwnErrors'
        /\ NextFree' = NextFree /\ Cardinality(Fresh)' = Cardinality(Fresh)
    BY <1>2, <1>3, Frame
  <2>2. TrackerInv' /\ PlaceInv' /\ FailInv' /\ LimitInv'
    BY <1>1, <1>2, <1>3, <2>1 DEF TrackerInv, PlaceInv, FailInv, LimitInv,
       Starting, Sending, Failing, InProgress
  <2>3. SignalInv'
    BY <1>1, <1>2, <1>3 DEF SignalInv
  <2> QED
    BY <2>1, <2>2, <2>3 DEF IInv
<1>4. CASE /\ state' = [state EXCEPT ![cur] = "unconfirmed"]
           /\ attempt' = [attempt EXCEPT ![cur] = "broadcast"]
           /\ unknownErrs' = NoErrs
           /\ pc' = "generate" /\ UNCHANGED local
  <2>1. Sent' = Sent \cup {cur} /\ cur \notin Sent /\ Sent \subseteq Txs
    BY <1>1, <1>2, <1>4 DEF TypeOK, Sent, InProgress
  <2>2. NextFree' = NextFree + 1 /\ NextFree \in Nat
    BY <2>1, OneMoreSent
  <2>3. Fresh' = Fresh \cup {cur} /\ cur \notin Fresh
    BY <1>1, <1>2, <1>4 DEF TypeOK, Fresh, Unconfirmed, InProgress, NetInv
  <2>4. /\ Cardinality(Fresh)' = Cardinality(Fresh) + 1
        /\ Cardinality(Fresh) \in Nat
    BY <2>3, OneMoreFresh
  <2>5. \A t \in Txs : /\ t # cur => state'[t] = state[t] /\ attempt'[t] = attempt[t]
                       /\ ~InProgress(t)'
    BY <1>1, <1>2, <1>4 DEF TypeOK, InProgress, SeqInv
  <2>6. state'[cur] = "unconfirmed" /\ attempt'[cur] = "broadcast" /\ sequence[cur] = NextFree
    BY <1>1, <1>2, <1>4 DEF TypeOK, SeqInv
  <2>7. SeqInv'
    <3>1. \A t \in Sent' : sequence[t] \in 0..NextFree
      BY <1>1, <2>1, <2>2, <2>6 DEF SeqInv
    <3>2. \A i \in 0..NextFree : \E t \in Sent' : sequence[t] = i
      <4> TAKE i \in 0..NextFree
      <4>1. CASE i = NextFree
        BY <4>1, <2>1, <2>6
      <4>2. CASE i \in 0..NextFree - 1
        BY <4>2, <1>1, <2>1 DEF SeqInv
      <4> QED
        BY <2>2, <4>1, <4>2
    <3>3. \A t, u \in Sent' : sequence[t] = sequence[u] => t = u
      BY <1>1, <2>1, <2>2, <2>6 DEF SeqInv
    <3>4. NextFree' - 1 = NextFree
      BY <2>2
    <3> QED
      BY <1>2, <2>5, <3>1, <3>2, <3>3, <3>4 DEF SeqInv
  <2>8. SavedBeforeSent' /\ GivesUpOnOwnErrors'
    BY <1>1, <1>2, <2>5, <2>6 DEF SavedBeforeSent, Sent, GivesUpOnOwnErrors
  <2>9. NetInv'
    <3>1. NoErrs.tx \notin Txs
      BY DEF NoErrs
    <3> QED
      BY <1>1, <1>2, <1>4, <2>1, <2>5, <2>6, <3>1 DEF NetInv, InProgress
  <2>10. TrackerInv' /\ PlaceInv' /\ FailInv'
    BY <1>2, <1>4, <2>2, <2>5 DEF TrackerInv, PlaceInv, FailInv, local, Starting, Sending, Failing
  <2>11. LimitInv'
    BY <1>1, <1>2, <1>4, <2>4, <2>5 DEF LimitInv, Starting
  <2>12. SignalInv'
    BY <1>1, <1>2, <1>4, <2>5 DEF SignalInv, TypeOK, InProgress
  <2> QED
    BY <2>7, <2>8, <2>9, <2>10, <2>11, <2>12 DEF IInv
<1> QED
  BY <1>3, <1>4 DEF UpdateTxAttemptInProgressToBroadcast, clearUnknownErrState, Rest

LEMMA SaveStep ==
    ASSUME IInv, TypeOK', UpdateTxFatalErrorAndDeleteAttempts
    PROVE  IInv'
<1> USE DEF memory, history
<1>1. /\ TypeOK /\ SeqInv /\ TrackerInv /\ PlaceInv /\ FailInv
      /\ SavedBeforeSent /\ NetInv /\ GivesUpOnOwnErrors /\ LimitInv /\ SignalInv
  BY DEF IInv
<1>2. /\ pc = "save" /\ cur \in Txs /\ state[cur] \in {"unstarted", "removed", "in_progress"}
      /\ UNCHANGED <<signalled, accepted, svc, memory, resumed, unknowns, reverted,
                     restarts>>
      /\ \A t \in Txs : InProgress(t) => t = cur
  BY <1>1 DEF UpdateTxFatalErrorAndDeleteAttempts, FailInv, Failing
<1>3. CASE /\ UNCHANGED <<state, sequence, attempt, reason>>
           /\ pc' \in {"retry", "failed"} /\ interrupted' = interrupted \cup {cur}
  <2>1. /\ SeqInv' /\ SavedBeforeSent' /\ NetInv' /\ GivesUpOnOwnErrors'
        /\ NextFree' = NextFree /\ Cardinality(Fresh)' = Cardinality(Fresh)
    BY <1>2, <1>3, Frame
  <2>2. TrackerInv' /\ PlaceInv' /\ FailInv' /\ LimitInv'
    BY <1>1, <1>2, <1>3, <2>1 DEF TrackerInv, PlaceInv, FailInv, LimitInv,
       Starting, Sending, Failing, InProgress
  <2>3. SignalInv'
    BY <1>1, <1>2, <1>3 DEF SignalInv
  <2> QED
    BY <2>1, <2>2, <2>3 DEF IInv
<1>4. CASE /\ state' = [state EXCEPT ![cur] = IF @ = "removed" THEN @ ELSE "fatal_error"]
           /\ sequence' = [sequence EXCEPT ![cur] = NoSeq]
           /\ attempt' = [attempt EXCEPT ![cur] = "none"]
           /\ reason' = [reason EXCEPT ![cur] = IF state[cur] = "removed" THEN @ ELSE why]
           /\ pc' = "count" /\ UNCHANGED interrupted
  <2> DEFINE v == IF state[cur] = "removed" THEN "removed" ELSE "fatal_error"
  <2>1. state' = [state EXCEPT ![cur] = v] /\ v \in {"removed", "fatal_error"}
    BY <1>1, <1>4 DEF TypeOK
  <2>2. /\ \A t \in Txs : /\ t # cur => /\ state'[t] = state[t] /\ sequence'[t] = sequence[t]
                                        /\ attempt'[t] = attempt[t] /\ reason'[t] = reason[t]
                          /\ ~InProgress(t)'
        /\ state'[cur] = v /\ attempt'[cur] = "none"
    BY <1>1, <1>2, <1>4, <2>1 DEF TypeOK, InProgress
  <2>3. reason'[cur] = IF state[cur] = "removed" THEN reason[cur] ELSE why
    BY <1>1, <1>2, <1>4 DEF TypeOK
  <2> HIDE DEF v
  <2>4. /\ Sent' = Sent /\ NextFree' = NextFree
        /\ Cardinality(Fresh)' = Cardinality(Fresh)
    BY <1>1, <1>2, <2>1, OtherSent
  <2>5. Sent \subseteq Txs /\ cur \notin Sent
    BY <1>2 DEF Sent
  <2>6. SeqInv'
    BY <1>1, <2>2, <2>4, <2>5 DEF SeqInv
  <2>7. SavedBeforeSent'
    <3>1. state[cur] = "removed" => accepted[cur] = NoSeq
      BY <1>1, <1>2 DEF SavedBeforeSent, Sent
    <3> QED
      BY <1>1, <1>2, <2>1, <2>2, <3>1 DEF SavedBeforeSent, Sent, v
  <2>8. GivesUpOnOwnErrors'
    BY <1>1, <1>2, <2>2, <2>3 DEF GivesUpOnOwnErrors, FailInv, Failing
  <2>9. NetInv'
    <3>1. state[cur] = "removed" => state'[cur] = "removed"
      BY <2>2 DEF v
    <3>2. accepted[cur] # NoSeq => why \in Dropping
      BY <1>1, <1>2 DEF FailInv, Failing
    <3>3. state[cur] # "removed" => state'[cur] = "fatal_error"
      BY <2>2 DEF v
    <3> QED
      BY <1>1, <1>2, <2>2, <2>3, <2>4, <2>5, <3>1, <3>2, <3>3 DEF NetInv, InProgress
  <2>10. TrackerInv' /\ PlaceInv' /\ FailInv'
    BY <1>1, <1>2, <1>4, <2>2, <2>4 DEF TrackerInv, PlaceInv, FailInv, Starting, Sending, Failing
  <2>11. LimitInv'
    BY <1>1, <1>4, <2>2, <2>4 DEF LimitInv, Starting
  <2>12. SignalInv'
    BY <1>1, <1>2, <1>4, <2>1, <2>2 DEF SignalInv, TypeOK
  <2> QED
    BY <2>6, <2>7, <2>8, <2>9, <2>10, <2>11, <2>12 DEF IInv
<1> QED
  BY <1>3, <1>4 DEF UpdateTxFatalErrorAndDeleteAttempts, Again, Rest

LEMMA QueueStep ==
    ASSUME IInv, TypeOK', CreateTransaction \/ PruneQueue
    PROVE  IInv'
<1> USE DEF memory, history, local
<1>1. /\ TypeOK /\ SeqInv /\ TrackerInv /\ PlaceInv /\ FailInv
      /\ SavedBeforeSent /\ NetInv /\ GivesUpOnOwnErrors /\ LimitInv /\ SignalInv
  BY DEF IInv
<1>2. UNCHANGED <<sequence, attempt, reason, accepted, svc, nextSequence, unknownErrs,
                  pc, cur, curSeq, why, resumed, interrupted, unknowns, reverted>>
  BY DEF CreateTransaction, PruneQueue
<1>3. PICK t \in Txs : \/ /\ state[t] = "absent" /\ state' = [state EXCEPT ![t] = "unstarted"]
                          /\ Trigger
                       \/ /\ state[t] = "unstarted" /\ state' = [state EXCEPT ![t] = "removed"]
                          /\ UNCHANGED trigger
  BY DEF CreateTransaction, PruneQueue, Move
<1>4. /\ Sent' = Sent /\ NextFree' = NextFree
      /\ Cardinality(Fresh)' = Cardinality(Fresh)
  BY <1>1, <1>2, <1>3, OtherSent
<1>5. /\ \A u \in Txs : u # t => state'[u] = state[u]
      /\ \/ state[t] = "absent" /\ state'[t] = "unstarted"
         \/ state[t] = "unstarted" /\ state'[t] = "removed"
      /\ \A u \in Txs : InProgress(u)' <=> InProgress(u)
  BY <1>1, <1>3 DEF TypeOK, InProgress
<1>6. t \notin Sent /\ Sent \subseteq Txs
  BY <1>5 DEF Sent
<1>7. SeqInv'
  BY <1>1, <1>2, <1>4, <1>5, <1>6 DEF SeqInv
<1>8. SavedBeforeSent' /\ GivesUpOnOwnErrors'
  BY <1>1, <1>2, <1>5 DEF SavedBeforeSent, Sent, GivesUpOnOwnErrors
<1>9. NetInv'
  BY <1>1, <1>2, <1>4, <1>5 DEF NetInv
<1>10. TrackerInv' /\ PlaceInv' /\ LimitInv'
  BY <1>1, <1>2, <1>4, <1>5 DEF TrackerInv, PlaceInv, LimitInv, Starting, Sending
<1>11. FailInv'
  BY <1>1, <1>2, <1>5 DEF FailInv, Failing
<1>12. SignalInv'
  <2>1. svc = "started" /\ trigger # "none" /\ state[t] = "absent" => trigger' = "full"
    BY <1>3 DEF Trigger
  <2>2. trigger # "none" => trigger' # "none"
    BY <1>3 DEF Trigger
  <2>3. trigger = "full" => trigger' = "full"
    BY <1>3 DEF Trigger
  <2> QED
    BY <1>1, <1>2, <1>5, <2>1, <2>2, <2>3 DEF SignalInv, TypeOK
<1> QED
  BY <1>7, <1>8, <1>9, <1>10, <1>11, <1>12 DEF IInv

\* The confirmer moves a row among those handed over: what becomes unconfirmed
\* again is not fresh.
LEMMA ConfirmStep ==
    ASSUME IInv, TypeOK', ProcessIncludedTxs \/ ProcessReorgTxs
    PROVE  IInv'
<1> USE DEF memory, history, local
<1>1. /\ TypeOK /\ SeqInv /\ TrackerInv /\ PlaceInv /\ FailInv
      /\ SavedBeforeSent /\ NetInv /\ GivesUpOnOwnErrors /\ LimitInv /\ SignalInv
  BY DEF IInv
<1>2. UNCHANGED <<sequence, attempt, reason, accepted, svc, nextSequence, trigger, unknownErrs,
                  pc, cur, curSeq, why, resumed, interrupted, unknowns>>
  BY DEF ProcessIncludedTxs, ProcessReorgTxs
<1>3. PICK t \in Sent : \E v \in {"unconfirmed", "confirmed", "purged"} :
         /\ state' = [state EXCEPT ![t] = v]
         /\ \/ v # "unconfirmed" /\ reverted' = reverted \ {t}
            \/ v = "unconfirmed" /\ reverted' = reverted \cup {t}
  BY DEF ProcessIncludedTxs, ProcessReorgTxs, Sent, Unconfirmed
<1>4. /\ \A u \in Txs : u # t => state'[u] = state[u]
      /\ t \in Txs /\ state[t] \in {"unconfirmed", "confirmed", "purged"}
      /\ state'[t] \in {"unconfirmed", "confirmed", "purged"}
      /\ \A u \in reverted' : u \in reverted \/ u = t
      /\ t \in reverted' => state'[t] = "unconfirmed"
      /\ \A u \in Txs : InProgress(u)' <=> InProgress(u)
  BY <1>1, <1>3 DEF TypeOK, InProgress, Sent
<1>5. Sent' = Sent /\ NextFree' = NextFree
  <2>1. Sent' = Sent
    BY <1>4 DEF Sent
  <2> QED
    BY <2>1 DEF NextFree
<1>6. Cardinality(Fresh)' <= Cardinality(Fresh)
      /\ Cardinality(Fresh)' \in Nat /\ Cardinality(Fresh) \in Nat
  <2>1. Fresh' \subseteq Fresh
    <3> SUFFICES ASSUME NEW u \in Txs, state'[u] = "unconfirmed", u \notin reverted'
                 PROVE  state[u] = "unconfirmed" /\ u \notin reverted
      BY DEF Fresh, Unconfirmed
    <3> QED
      BY <1>1, <1>3, <1>4 DEF TypeOK
  <2> QED
    BY <2>1, FewerFresh
<1>7. SeqInv' /\ SavedBeforeSent' /\ GivesUpOnOwnErrors'
  BY <1>1, <1>2, <1>4, <1>5 DEF SeqInv, SavedBeforeSent, GivesUpOnOwnErrors
<1>8. NetInv'
  BY <1>1, <1>2, <1>4, <1>5 DEF NetInv
<1>9. TrackerInv' /\ PlaceInv'
  BY <1>1, <1>2, <1>4, <1>5 DEF TrackerInv, PlaceInv, Starting, Sending
<1>10. FailInv'
  BY <1>1, <1>2, <1>4 DEF FailInv, Failing
<1>11. LimitInv'
  BY <1>1, <1>2, <1>4, <1>6 DEF LimitInv
<1>12. SignalInv'
  BY <1>1, <1>2, <1>4 DEF SignalInv, TypeOK
<1> QED
  BY <1>7, <1>8, <1>9, <1>10, <1>11, <1>12 DEF IInv

-----------------------------------------------------------------------------
(* The theorems.                                                           *)

LEMMA InitInv == ASSUME Init PROVE IInv
<1>1. TypeOK
  BY ErrsOK DEF Init, TypeOK, TxStates, Places, NoSeq
<1>2. Sent = {} /\ Fresh = {} /\ \A t \in Txs : ~InProgress(t)
  BY DEF Init, Sent, Fresh, Unconfirmed, InProgress
<1>3. NextFree = 0 /\ Cardinality(Fresh) = 0
  BY <1>2, NoneSent
<1>4. SeqInv
  BY <1>2, <1>3 DEF SeqInv
<1>5. TrackerInv /\ PlaceInv /\ FailInv
  BY DEF Init, TrackerInv, PlaceInv, FailInv, Starting, Sending, Failing
<1>6. SavedBeforeSent /\ GivesUpOnOwnErrors
  BY DEF Init, SavedBeforeSent, Sent, GivesUpOnOwnErrors
<1>7. NetInv
  <2>1. unknownErrs.tx \notin Txs
    BY DEF Init, NoErrs
  <2> QED
    BY <2>1 DEF Init, NetInv
<1>8. LimitInv
  BY <1>2, <1>3 DEF Init, LimitInv, Starting
<1>9. SignalInv
  BY DEF Init, SignalInv
<1> QED
  BY <1>1, <1>4, <1>5, <1>6, <1>7, <1>8, <1>9 DEF IInv

LEMMA StepInv == ASSUME IInv, [Next]_vars PROVE IInv'
<1>1. CASE Next
  <2>1. TypeOK'
    BY <1>1, TypeStep, Finite
  <2> QED
    BY <1>1, <2>1, Finite, QuietStep, SendStep, AttemptStep, PendingStep, ClaimStep, PersistStep, SaveStep,
       QueueStep, ConfirmStep DEF Next, Monitor, Quiet
<1>2. CASE UNCHANGED vars
  <2>1. TypeOK' /\ UNCHANGED <<store, accepted, svc, memory, pc, local, history, bounds>>
    BY <1>2 DEF IInv, TypeOK, vars, store, memory, local, history, bounds
  <2>2. /\ SeqInv' /\ SavedBeforeSent' /\ NetInv' /\ GivesUpOnOwnErrors'
        /\ NextFree' = NextFree /\ Cardinality(Fresh)' = Cardinality(Fresh)
    BY <2>1, Frame DEF store, memory, history
  <2>3. TrackerInv' /\ PlaceInv' /\ FailInv' /\ LimitInv' /\ SignalInv'
    BY <2>1, <2>2 DEF IInv, TrackerInv, PlaceInv, FailInv, LimitInv, SignalInv, InProgress,
       store, memory, local, history
  <2> QED
    BY <2>1, <2>2, <2>3 DEF IInv
<1> QED
  BY <1>1, <1>2

\* The inductive invariant: the transactions handed over hold the sequences
\* from 0 on without a gap, at most one is in progress with the next one, and
\* the memory of the broadcaster agrees with the store whenever it matters.
THEOREM Invariance == Spec => []IInv
BY InitInv, StepInv, PTL DEF Spec

\* The store is in order whenever the process may stop: what may be on the
\* network is on record, and only reorgs exceed the limit of those in flight.
THEOREM BooksInOrder == Spec => []StoreInOrder
<1>1. IInv => StoreInOrder
  BY DEF IInv, StoreInOrder, InFlightLimit, LimitInv, Fresh
<1> QED
  BY <1>1, Invariance, PTL

\* The network takes two transactions under one sequence only if one of them
\* was dropped on the network's word; a check or a fee limit drops none that
\* was sent, and none is given up on the errors of another.
THEOREM SpentOnce == Spec => []SequencesSpentOnce
<1>0. IInv => CheckedBeforeSent /\ GivesUpOnOwnErrors
  BY DEF IInv, NetInv, CheckedBeforeSent, Dropping
<1>1. IInv => NoDoubleSpend
  <2> SUFFICES ASSUME IInv, NEW t \in Txs, NEW u \in Txs, t # u, accepted[t] # NoSeq,
                      accepted[t] = accepted[u]
               PROVE  \E v \in {t, u} : state[v] = "fatal_error" /\ reason[v] \in Dropping
    BY DEF NoDoubleSpend, Dropping
  <2>1. \A v \in {t, u} : InProgress(v) \/ v \in Sent \/ state[v] = "fatal_error"
    BY DEF IInv, SavedBeforeSent, InProgress, Sent
  <2>2. \A v \in {t, u} : InProgress(v) \/ v \in Sent => accepted[v] = sequence[v]
    BY DEF IInv, NetInv
  <2>3. ASSUME NEW v \in {t, u}, state[v] = "fatal_error"
        PROVE  reason[v] \in Dropping
    BY <2>3 DEF IInv, NetInv
  <2>4. ASSUME \A v \in {t, u} : InProgress(v) \/ v \in Sent PROVE FALSE
    <3>1. sequence[t] = sequence[u]
      BY <2>2, <2>4
    <3>2. NextFree \in Nat
      BY Finite DEF Counted
    <3> QED
      BY <2>4, <3>1, <3>2 DEF IInv, SeqInv
  <2> QED
    BY <2>1, <2>3, <2>4
<1> QED
  BY <1>0, <1>1, Invariance, PTL DEF SequencesSpentOnce

\* A transaction whose pipeline was told of an error goes out only if that
\* error could not be saved.
THEOREM ToldErrorsStay == Spec => []ErroredPipelineIsRare
<1>1. IInv => ErroredPipelineIsRare
  <2> SUFFICES ASSUME IInv, NEW t \in Sent, t \in resumed PROVE t \in interrupted
    BY DEF ErroredPipelineIsRare
  <2>1. state[t] \in {"unconfirmed", "confirmed", "purged"}
    BY DEF Sent
  <2>2. ~(t = cur /\ pc \in {"completed", "save"})
    BY <2>1 DEF IInv, FailInv, Failing
  <2> QED
    BY <2>1, <2>2 DEF IInv, SignalInv
<1> QED
  BY <1>1, Invariance, PTL

\* A monitor that found the queue empty does not sleep through a trigger.
THEOREM NoTriggerLost == Spec => []WakeupKept
<1>1. IInv => WakeupKept
  BY DEF IInv, SignalInv, WakeupKept
<1> QED
  BY <1>1, Invariance, PTL

-----------------------------------------------------------------------------
(* The broadcaster implements TxSequence.                                  *)

Used == [t \in Txs |-> IF t \in Sent THEN sequence[t] ELSE NoSeq]

Pending == IF \E t \in Txs : state[t] = "in_progress"
             THEN CHOOSE t \in Txs : state[t] = "in_progress" ELSE NoTx

LEMMA PendingIs ==
    ASSUME SeqInv
    PROVE  /\ \A t \in Txs : InProgress(t) => Pending = t
           /\ (\A t \in Txs : ~InProgress(t)) => Pending = NoTx
<1>1. ASSUME NEW t \in Txs, InProgress(t) PROVE Pending = t
  <2>1. \A u \in Txs : state[u] = "in_progress" => u = t
    BY <1>1 DEF SeqInv, InProgress
  <2> QED
    BY <1>1, <2>1 DEF Pending, InProgress
<1> QED
  BY <1>1 DEF Pending, InProgress

LEMMA PendingIsNext ==
    ASSUME SeqInv'
    PROVE  /\ \A t \in Txs : InProgress(t)' => Pending' = t
           /\ (\A t \in Txs : ~InProgress(t)') => Pending' = NoTx
<1>1. ASSUME NEW t \in Txs, InProgress(t)' PROVE Pending' = t
  <2>1. \A u \in Txs : state'[u] = "in_progress" => u = t
    BY <1>1 DEF SeqInv, InProgress
  <2> QED
    BY <1>1, <2>1 DEF Pending, InProgress
<1> QED
  BY <1>1 DEF Pending, InProgress

LEMMA Stutters ==
    ASSUME SeqInv, SeqInv', Sent' = Sent, NextFree' = NextFree,
           \A t \in Sent : sequence'[t] = sequence[t],
           \A t \in Txs : InProgress(t)' <=> InProgress(t)
    PROVE  UNCHANGED <<Used, NextFree, Pending>>
<1>1. Used' = Used
  BY DEF Used
<1>2. CASE \E t \in Txs : InProgress(t)
  <2>1. PICK t \in Txs : InProgress(t)
    BY <1>2
  <2> QED
    BY <1>1, <2>1, PendingIs, PendingIsNext
<1>3. CASE \A t \in Txs : ~InProgress(t)
  BY <1>1, <1>3, PendingIs, PendingIsNext
<1> QED
  BY <1>2, <1>3

LEMMA SequenceStep ==
    ASSUME IInv, IInv', [Next]_vars
    PROVE  \/ UNCHANGED <<Used, NextFree, Pending>>
           \/ \E t \in Txs : /\ Pending = NoTx /\ Used[t] = NoSeq /\ Pending' = t
                             /\ UNCHANGED <<Used, NextFree>>
           \/ Pending # NoTx /\ Pending' = NoTx /\ UNCHANGED <<Used, NextFree>>
           \/ /\ Pending # NoTx /\ Used' = [Used EXCEPT ![Pending] = NextFree]
              /\ NextFree' = NextFree + 1 /\ Pending' = NoTx
<1> USE DEF store, memory, history
<1>1. /\ TypeOK /\ SeqInv /\ PlaceInv /\ FailInv /\ SeqInv'
  BY DEF IInv
<1>2. CASE UNCHANGED <<state, sequence>>
  <2>1. Sent' = Sent /\ NextFree' = NextFree /\ \A t \in Txs : InProgress(t)' <=> InProgress(t)
    BY <1>2 DEF Sent, NextFree, InProgress
  <2> QED
    BY <1>1, <1>2, <2>1, Stutters
<1>3. CASE UpdateTxUnstartedToInProgress /\ ~UNCHANGED <<state, sequence>>
  <2>1. /\ pc = "claim" /\ cur \in Txs /\ state[cur] = "unstarted"
        /\ \A t \in Txs : ~InProgress(t)
        /\ state' = [state EXCEPT ![cur] = "in_progress"]
        /\ sequence' = [sequence EXCEPT ![cur] = curSeq] /\ reverted' = reverted
    BY <1>1, <1>3 DEF UpdateTxUnstartedToInProgress, PlaceInv, Starting
  <2>2. Sent' = Sent /\ NextFree' = NextFree
    BY <1>1, <2>1, OtherSent
  <2>3. cur \notin Sent /\ Sent \subseteq Txs
    BY <2>1 DEF Sent
  <2>4. \A t \in Sent : sequence'[t] = sequence[t]
    BY <1>1, <2>1, <2>3 DEF TypeOK
  <2>5. Used' = Used /\ Used[cur] = NoSeq
    BY <2>1, <2>2, <2>3, <2>4 DEF Used
  <2>6. \A t \in Txs : t = cur => InProgress(t)'
    BY <1>1, <2>1 DEF InProgress, TypeOK
  <2>7. Pending = NoTx /\ Pending' = cur
    BY <1>1, <2>1, <2>6, PendingIs, PendingIsNext
  <2> QED
    BY <2>1, <2>2, <2>5, <2>7
<1>4. CASE UpdateTxAttemptInProgressToBroadcast /\ ~UNCHANGED <<state, sequence>>
  <2>1. /\ cur \in Txs /\ InProgress(cur) /\ UNCHANGED sequence
        /\ state' = [state EXCEPT ![cur] = "unconfirmed"]
    BY <1>1, <1>4 DEF UpdateTxAttemptInProgressToBroadcast, PlaceInv, Sending
  <2>2. /\ Sent' = Sent \cup {cur} /\ cur \notin Sent
        /\ \A t \in Txs : ~InProgress(t)'
    BY <1>1, <2>1 DEF Sent, InProgress, TypeOK, SeqInv
  <2>3. NextFree' = NextFree + 1
    BY <2>2, OneMoreSent
  <2>4. Pending = cur /\ Pending' = NoTx
    BY <1>1, <2>1, <2>2, PendingIs, PendingIsNext
  <2>5. Used' = [Used EXCEPT ![cur] = NextFree]
    <3>1. sequence'[cur] = NextFree
      BY <1>1, <2>1 DEF SeqInv
    <3> QED
      BY <2>1, <2>2, <3>1 DEF Used
  <2> QED
    BY <2>1, <2>3, <2>4, <2>5
<1>5. CASE UpdateTxFatalErrorAndDeleteAttempts /\ ~UNCHANGED <<state, sequence>>
  <2> DEFINE v == IF state[cur] = "removed" THEN "removed" ELSE "fatal_error"
  <2>1. /\ cur \in Txs /\ state[cur] \in {"unstarted", "removed", "in_progress"}
        /\ \A t \in Txs : InProgress(t) => t = cur
        /\ state' = [state EXCEPT ![cur] = v]
        /\ sequence' = [sequence EXCEPT ![cur] = NoSeq] /\ reverted' = reverted
    BY <1>1, <1>5 DEF UpdateTxFatalErrorAndDeleteAttempts, FailInv, Failing, TypeOK
  <2>2. v \in {"removed", "fatal_error"}
    OBVIOUS
  <2> HIDE DEF v
  <2>3. Sent' = Sent /\ NextFree' = NextFree
    BY <1>1, <2>1, <2>2, OtherSent
  <2>4. cur \notin Sent /\ Sent \subseteq Txs
    BY <2>1 DEF Sent
  <2>5. \A t \in Sent : sequence'[t] = sequence[t]
    BY <1>1, <2>1, <2>4 DEF TypeOK
  <2>6. Used' = Used
    BY <2>3, <2>5 DEF Used
  <2>7. \A t \in Txs : ~InProgress(t)'
    BY <1>1, <2>1, <2>2 DEF InProgress, TypeOK
  <2>8. Pending' = NoTx
    BY <1>1, <2>7, PendingIsNext
  <2> QED
    BY <2>3, <2>6, <2>8, PendingIs
<1>6. CASE CreateTransaction \/ PruneQueue
  <2>1. PICK t \in Txs, w \in {"unstarted", "removed"} :
           state[t] \in {"absent", "unstarted"} /\ state' = [state EXCEPT ![t] = w]
           /\ reverted' = reverted
    BY <1>6 DEF CreateTransaction, PruneQueue, Move
  <2>2. Sent' = Sent /\ NextFree' = NextFree
    BY <1>1, <2>1, OtherSent
  <2>3. UNCHANGED sequence /\ \A u \in Txs : InProgress(u)' <=> InProgress(u)
    BY <1>1, <1>6, <2>1 DEF CreateTransaction, PruneQueue, InProgress, TypeOK
  <2> QED
    BY <1>1, <2>2, <2>3, Stutters
<1>7. CASE ProcessIncludedTxs \/ ProcessReorgTxs
  <2>1. PICK t \in Sent, w \in {"unconfirmed", "confirmed", "purged"} :
           state' = [state EXCEPT ![t] = w]
    BY <1>7 DEF ProcessIncludedTxs, ProcessReorgTxs, Sent, Unconfirmed
  <2>2. /\ Sent' = Sent /\ UNCHANGED sequence
        /\ \A u \in Txs : InProgress(u)' <=> InProgress(u)
    BY <1>1, <1>7, <2>1 DEF ProcessIncludedTxs, ProcessReorgTxs, Sent, InProgress, TypeOK
  <2>3. NextFree' = NextFree
    BY <2>2 DEF NextFree
  <2> QED
    BY <1>1, <2>2, <2>3, Stutters
<1>8. \/ UNCHANGED <<state, sequence>> \/ UpdateTxUnstartedToInProgress
      \/ UpdateTxAttemptInProgressToBroadcast \/ UpdateTxFatalErrorAndDeleteAttempts
      \/ CreateTransaction \/ PruneQueue \/ ProcessIncludedTxs \/ ProcessReorgTxs
  BY DEF Next, Monitor, vars, Start, Close, Closed, Crash, loadAndMonitor, SyncSequence, Finish,
     Exit, Wake, handleAnyInProgressTx, Throttle, nextUnstartedTransactionWithSequence,
     NewTxAttempt, handleInProgressTx, validateOnChainSequence, replaceAttemptWithBumpedGas,
     replaceAttemptWithNewEstimation, PendingSequenceAt, GenerateNextSequence, resumeCallback,
     UpdateTxCallbackCompleted
<1> QED
  BY <1>2, <1>3, <1>4, <1>5, <1>6, <1>7, <1>8

\* The broadcaster implements TxSequence: claiming a transaction begins its
\* hand-over, a saved fatal error drops it, and saving it as broadcast commits
\* the next sequence; every other step, crashes included, is a stutter.
THEOREM ImplementsSequence == Spec => HandsOutSequences
<1>1. Init => Sequencing!SeqInit
  <2> SUFFICES ASSUME Init PROVE Sequencing!SeqInit
    OBVIOUS
  <2>1. Sent = {} /\ \A t \in Txs : ~(state[t] = "in_progress")
    BY DEF Init, Sent
  <2>2. Cardinality(Sent) = 0
    BY <2>1, NoneSent DEF NextFree
  <2> QED
    BY <2>1, <2>2 DEF Sequencing!SeqInit, Sequencing!NoSeq, NoSeq
<1>2. IInv /\ IInv' /\ [Next]_vars => [Sequencing!SeqNext]_(Sequencing!seqVars)
  <2> SUFFICES ASSUME IInv, IInv', [Next]_vars
               PROVE  Sequencing!SeqNext \/ UNCHANGED Sequencing!seqVars
    OBVIOUS
  <2>1. CASE UNCHANGED <<Used, NextFree, Pending>>
    BY <2>1 DEF Sequencing!seqVars, Used, NextFree, Pending
  <2>2. CASE \E t \in Txs : /\ Pending = NoTx /\ Used[t] = NoSeq /\ Pending' = t
                            /\ UNCHANGED <<Used, NextFree>>
    BY <2>2 DEF Sequencing!SeqNext, Sequencing!Begin, Sequencing!NoSeq, NoSeq,
       Used, NextFree, Pending
  <2>3. CASE Pending # NoTx /\ Pending' = NoTx /\ UNCHANGED <<Used, NextFree>>
    BY <2>3 DEF Sequencing!SeqNext, Sequencing!Drop, Used, NextFree, Pending
  <2>4. CASE /\ Pending # NoTx /\ Used' = [Used EXCEPT ![Pending] = NextFree]
             /\ NextFree' = NextFree + 1 /\ Pending' = NoTx
    BY <2>4 DEF Sequencing!SeqNext, Sequencing!Commit, Used, NextFree, Pending
  <2> QED
    BY <2>1, <2>2, <2>3, <2>4, SequenceStep
<1> QED
  BY <1>1, <1>2, Invariance, PTL DEF Spec, HandsOutSequences, Sequencing!SeqSpec
=============================================================================
