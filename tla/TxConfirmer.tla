----------------------------- MODULE TxConfirmer -----------------------------
(***************************************************************************)
(* The confirmer and the resender of one sending address                   *)
(* (src/chains/txmgr/confirmer.go, resender.go), over the transaction      *)
(* store and a chain that mines, reorganises and finalises.  A transaction *)
(* is named by its sequence.  Its attempts are kept as the store returns   *)
(* them, the highest priced first.                                         *)
(***************************************************************************)
EXTENDS Integers, Sequences, FiniteSets

CONSTANTS
    N,              \* number of transactions
    Signals,        \* the transactions whose pipeline waits for a callback
    MaxAttempts,    \* attempts the fee limit leaves room for
    MaxInFlight,    \* limit of rebroadcasts per head, 0 for none
    MaxTrouble      \* bound: failing calls, errors, answers of a node behind, reorgs,
                    \* transactions declared stuck, crashes and closes, together

Txs == 0..(N - 1)
NoTx == -1

ASSUME ConfirmerAssumption ==
    /\ {N, MaxAttempts, MaxInFlight, MaxTrouble} \subseteq Nat
    /\ MaxAttempts > 0
    /\ Signals \subseteq Txs

VARIABLES
    \* the transaction store
    state,          \* state[t]; absent until the broadcaster sends it
    attempts,       \* attempts[t]: what kind each is, and its state
    signalled,      \* the rows with CallbackCompleted
    \* the chain
    pool,           \* attempts in some mempool: transaction and kind
    mined,          \* how many sequences are mined
    \* the confirmer
    svc, pc,
    count,          \* minedTxCount
    reorged, included,  \* what CheckForConfirmation found
    late,           \* handed over by the broadcaster since it looked
    todo,           \* transactions still to be handled, the oldest first
    cur, then,      \* the one whose attempt is being sent, and what follows
    \* the resender
    resend,         \* the attempts it has read and not yet sent
    \* what happened, for the properties
    resumed,        \* pipelines resumed with failure
    refused,        \* transactions whose purge attempt was refused as fatal
    trouble

store == <<state, attempts, signalled>>
chain == <<pool, mined>>
found == <<count, reorged, included, late>>
work == <<todo, cur, then>>
history == <<resumed, refused>>
vars == <<store, chain, svc, pc, found, work, resend, history, trouble>>

Settled == {"confirmed", "missing_receipt", "finalized", "fatal_error"}
Kinds == {"normal", "purge"}
Attempt(k, s) == [kind |-> k, state |-> s]
HasPurgeAttempt(t) == \E i \in DOMAIN attempts[t] : attempts[t][i].kind = "purge"
InProgress(t) == \E i \in DOMAIN attempts[t] : attempts[t][i].state = "in_progress"
Unconfirmed == {t \in Txs : state[t] = "unconfirmed"}

\* The attempts but the i-th.
Without(s, i) == SubSeq(s, 1, i - 1) \o SubSeq(s, i + 1, Len(s))

Trouble == trouble < MaxTrouble /\ trouble' = trouble + 1
NoTrouble == UNCHANGED trouble

\* The broadcaster has handed over none yet.
Init ==
    /\ state = [t \in Txs |-> "absent"]
    /\ attempts = [t \in Txs |-> <<>>]
    /\ signalled = {}
    /\ pool = {} /\ mined = 0
    /\ svc = "started" /\ pc = "idle"
    /\ count = 0 /\ reorged = {} /\ included = {} /\ late = {}
    /\ todo = {} /\ cur = NoTx /\ then = "none"
    /\ resend = {}
    /\ resumed = {} /\ refused = {}
    /\ trouble = 0

-----------------------------------------------------------------------------
(* The surroundings: the broadcaster, the chain, the finalizer.            *)

\* The broadcaster sends the next transaction, or one it has in progress
\* again, and a node takes it.  What it claims and no node takes concerns the
\* confirmer as little as a row not there; and when it gives a transaction
\* up, its sequence goes to the next one, which then stands in its place.
handleInProgressTx ==
    /\ \E t \in Txs :
         /\ state[t] \in {"absent", "in_progress"}
         /\ \A u \in Txs : u < t => state[u] \notin {"absent", "in_progress"}
         /\ state' = [state EXCEPT ![t] = "in_progress"]
         /\ pool' = IF t >= mined THEN pool \cup {<<t, "normal">>} ELSE pool
    /\ UNCHANGED <<attempts, signalled, mined, svc, pc, found, work, resend, history, trouble>>

\* Where CheckForConfirmation works on what it found.
Checking == {"reorg", "included", "include", "detect"}

\* Later it hands the transaction over, which may be mined by then.
UpdateTxAttemptInProgressToBroadcast ==
    /\ \E t \in Txs :
         /\ state[t] = "in_progress"
         /\ state' = [state EXCEPT ![t] = "unconfirmed"]
         /\ attempts' = [attempts EXCEPT ![t] = <<Attempt("normal", "broadcast")>>]
         /\ late' = IF pc \in Checking THEN late \cup {t} ELSE late
    /\ UNCHANGED <<signalled, chain, svc, pc, count, reorged, included, work, resend, history, trouble>>

\* The next sequence is mined, with any attempt a node knows.
Mine ==
    /\ \E k \in Kinds : <<mined, k>> \in pool
    /\ pool' = {p \in pool : p[1] # mined}
    /\ mined' = mined + 1
    /\ UNCHANGED <<store, svc, pc, found, work, resend, history, trouble>>

\* Blocks above the finalized ones are replaced, and what was in them, or in
\* the mempools, is lost.
Reorg ==
    /\ Trouble
    /\ mined' \in 0..mined
    /\ \A t \in Txs : state[t] = "finalized" => (t < mined => t < mined')
    /\ \E lost \in SUBSET pool : pool' = pool \ lost
    /\ chain' # chain
    /\ UNCHANGED <<store, svc, pc, found, work, resend, history>>

\* The finalizer, external.
Finalize ==
    /\ \E t \in Txs :
         /\ state[t] = "confirmed" /\ t < mined
         /\ state' = [state EXCEPT ![t] = "finalized"]
    /\ UNCHANGED <<attempts, signalled, chain, svc, pc, found, work, resend, history, trouble>>

-----------------------------------------------------------------------------
(* The confirmer's lifecycle and loop.                                     *)

\* CheckForConfirmation returns: what it found is out of scope.
Checked == count' = 0 /\ reorged' = {} /\ included' = {} /\ late' = {}

\* processHead returns, with or without an error.
Forget == Checked /\ todo' = {} /\ cur' = NoTx /\ then' = "none"
Return == pc' = "idle" /\ Forget

Start ==
    /\ svc = "stopped"
    /\ svc' = "started" /\ pc' = "idle"
    /\ UNCHANGED <<store, chain, found, work, resend, history, trouble>>

Close ==
    /\ svc = "started" /\ Trouble
    /\ svc' = "closing"
    /\ UNCHANGED <<store, chain, pc, found, work, resend, history>>

\* The loop sees that it is stopped, and Close returns.
Exit ==
    /\ svc = "closing" /\ pc = "idle"
    /\ svc' = "stopped" /\ pc' = "off"
    /\ UNCHANGED <<store, chain, found, work, resend, history, trouble>>

Crash ==
    /\ svc # "stopped" /\ Trouble
    /\ svc' = "stopped" /\ pc' = "off" /\ resend' = {}
    /\ Forget
    /\ UNCHANGED <<store, chain, history>>

\* runLoop takes the latest head from the mailbox: heads keep coming.
runLoop ==
    /\ svc = "started" /\ pc = "idle"
    /\ pc' = "count"
    /\ UNCHANGED <<store, chain, svc, found, work, resend, history, trouble>>

\* A call of processHead fails; when the confirmer closes, any may, for its
\* context is cancelled.
Failing(places) ==
    /\ pc \in places
    /\ Return
    /\ IF svc = "closing" THEN NoTrouble ELSE Trouble
    /\ UNCHANGED <<store, chain, svc, resend, history>>

-----------------------------------------------------------------------------
(* processHead: CheckForConfirmation.                                      *)

\* After SetBroadcastBeforeBlockNum, SequenceAt: the node asked may be a
\* block behind.
SequenceAt ==
    /\ pc = "count"
    /\ \/ count' = mined /\ NoTrouble
       \/ mined > 0 /\ count' = mined - 1 /\ Trouble
    /\ pc' = "find"
    /\ UNCHANGED <<store, chain, svc, reorged, included, late, work, resend, history>>

\* Fault: the sequence equal to the count is neither reorged nor included.
FindReorgOrIncludedTxsOffByOne ==
    /\ pc = "find"
    /\ reorged' = {t \in Txs : t > count /\ state[t] \in Settled}
    /\ included' = {t \in Txs : t < count /\ state[t] \in {"unconfirmed", "missing_receipt"}}
    /\ pc' = "reorg"
    /\ UNCHANGED <<store, chain, svc, count, late, work, resend, history, trouble>>

\* FindReorgOrIncludedTxs: what the store holds now, for the count read
\* before.
FindReorgOrIncludedTxs ==
    /\ pc = "find"
    /\ reorged' = {t \in Txs : t >= count /\ state[t] \in Settled}
    /\ included' = {t \in Txs : t < count /\ state[t] \in {"unconfirmed", "missing_receipt"}}
    /\ pc' = "reorg"
    /\ UNCHANGED <<store, chain, svc, count, late, work, resend, history, trouble>>

\* Fault: every attempt of the transaction is marked for rebroadcast.
MarkForRebroadcastAll(s) ==
    [i \in DOMAIN s |-> [s[i] EXCEPT !.state = "in_progress"]]

\* The highest priced attempt is sent again.
MarkForRebroadcast(s) ==
    [s EXCEPT ![1].state = "in_progress"]

\* UpdateTxsForRebroadcast, unless one of them has no attempt.
ProcessReorgTxs ==
    /\ pc = "reorg"
    /\ IF \E t \in reorged : attempts[t] = <<>>
         THEN Return /\ UNCHANGED <<state, attempts>>
         ELSE /\ state' = [t \in Txs |-> IF t \in reorged THEN "unconfirmed" ELSE state[t]]
              /\ attempts' = [t \in Txs |-> IF t \in reorged THEN MarkForRebroadcast(attempts[t])
                                                             ELSE attempts[t]]
              /\ pc' = "included" /\ UNCHANGED <<found, work>>
    /\ UNCHANGED <<signalled, chain, svc, resend, history, trouble>>

\* Fault: every transaction found included is confirmed.
ProcessIncludedAllConfirmed ==
    /\ pc \in {"included", "include"}
    /\ state' = [t \in Txs |-> IF t \in included THEN "confirmed" ELSE state[t]]
    /\ pc' = "detect"
    /\ UNCHANGED <<attempts, signalled, chain, svc, found, work, resend, history, trouble>>

\* ProcessIncludedTxs: UpdateTxFatalError for those with a purge attempt,
\* which were terminally stuck, then UpdateTxConfirmed for the others.
ProcessIncludedTxs ==
    /\ pc \in {"included", "include"}
    /\ LET purged == {t \in included : HasPurgeAttempt(t)}
       IN \/ /\ pc = "included" /\ pc' = "include"
             /\ state' = [t \in Txs |-> IF t \in purged THEN "fatal_error" ELSE state[t]]
          \/ /\ pc = "include" /\ pc' = "detect"
             /\ state' = [t \in Txs |-> IF t \in included \ purged THEN "confirmed" ELSE state[t]]
    /\ UNCHANGED <<attempts, signalled, chain, svc, found, work, resend, history, trouble>>

-----------------------------------------------------------------------------
(* processHead: ProcessStuckTransactions.                                  *)

\* Send(t, f): the attempt of t that is in progress is sent, then comes f.
Send(t, f) == pc' = "send" /\ cur' = t /\ then' = f

\* The detector, external, names an unconfirmed transaction without a purge
\* attempt, or none; a purge attempt is made and saved, unless the
\* transaction has an attempt in progress already.
ProcessStuckTransactions ==
    /\ pc = "detect"
    /\ Checked
    /\ \/ pc' = "progress" /\ NoTrouble /\ UNCHANGED <<attempts, cur, then>>
       \/ /\ Trouble
          /\ \E t \in Unconfirmed :
               /\ ~HasPurgeAttempt(t)
               /\ IF InProgress(t)
                    THEN pc' = "idle" /\ UNCHANGED <<attempts, cur, then>>
                    ELSE /\ attempts' = [attempts EXCEPT ![t] =
                                           <<Attempt("purge", "in_progress")>> \o @]
                         /\ Send(t, "resume")
    /\ UNCHANGED <<state, signalled, chain, svc, todo, resend, history>>

\* resumeFailedTaskRuns: the pipeline is resumed with failure, or it is
\* missing, and only then the row is marked.
resumeFailedTaskRuns ==
    /\ pc = "resume"
    /\ \/ /\ cur \in Signals \ signalled
          /\ resumed' = resumed \cup {cur} /\ pc' = "completed" /\ UNCHANGED <<cur, then>>
       \/ pc' = "progress" /\ cur' = NoTx /\ then' = "none" /\ UNCHANGED resumed
    /\ UNCHANGED <<store, chain, svc, found, todo, resend, refused, trouble>>

UpdateTxCallbackCompleted ==
    /\ pc = "completed"
    /\ signalled' = signalled \cup {cur}
    /\ pc' = "progress" /\ cur' = NoTx /\ then' = "none"
    /\ UNCHANGED <<state, attempts, chain, svc, found, todo, resend, history, trouble>>

-----------------------------------------------------------------------------
(* processHead: RebroadcastWhereNecessary.                                 *)

\* The next transaction to be handled.
IsNext(t) == t \in todo /\ \A u \in todo : t <= u

\* Fault: what was left in progress is not looked for.
GetInProgressTxAttemptsNone ==
    /\ pc = "progress"
    /\ todo' = {}
    /\ pc' = "attempts"
    /\ UNCHANGED <<store, chain, svc, found, cur, then, resend, history, trouble>>

\* handleAnyInProgressAttempts: those that a crash, an error or a reorg left.
GetInProgressTxAttempts ==
    /\ pc = "progress"
    /\ todo' = {t \in Unconfirmed : InProgress(t)}
    /\ pc' = "attempts"
    /\ UNCHANGED <<store, chain, svc, found, cur, then, resend, history, trouble>>

handleAnyInProgressAttempts ==
    /\ pc = "attempts"
    /\ \/ \E t \in Txs : IsNext(t) /\ Send(t, "attempts") /\ todo' = todo \ {t}
       \/ todo = {} /\ pc' = "require" /\ UNCHANGED work
    /\ UNCHANGED <<store, chain, svc, found, resend, history, trouble>>

\* FindTxsRequiringRebroadcast: those that ran out of funds, and any that
\* have waited long enough for a bump, in order, up to the limit.  One that
\* has no attempt left may be among them.
FindTxsRequiringRebroadcast ==
    /\ pc = "require"
    /\ \E bumps \in SUBSET {t \in Unconfirmed : ~InProgress(t)} :
         LET broke == {t \in Unconfirmed : \E i \in DOMAIN attempts[t] :
                                              attempts[t][i].state = "insufficient"}
             etxs == broke \cup bumps
         IN todo' = {t \in etxs : \/ MaxInFlight = 0
                                  \/ Cardinality({u \in etxs : u < t}) < MaxInFlight}
    /\ pc' = "rebroadcast"
    /\ UNCHANGED <<store, chain, svc, found, cur, then, resend, history, trouble>>

\* attemptForRebroadcast: an attempt that ran out of funds, or whose fee
\* cannot be bumped, is sent again; otherwise a bumped one is added.
attemptForRebroadcast(s) ==
    IF s[1].state = "insufficient" \/ Len(s) >= MaxAttempts
      THEN [s EXCEPT ![1].state = "in_progress"]
      ELSE <<Attempt(s[1].kind, "in_progress")>> \o s

\* One transaction after the other, until one has no attempt to go by.
rebroadcastWhereNecessary ==
    /\ pc = "rebroadcast"
    /\ \/ /\ \E t \in Txs :
               /\ IsNext(t) /\ attempts[t] # <<>>
               /\ attempts' = [attempts EXCEPT ![t] = attemptForRebroadcast(@)]
               /\ Send(t, "rebroadcast") /\ todo' = todo \ {t}
          /\ UNCHANGED found
       \/ /\ \A t \in Txs : IsNext(t) => attempts[t] = <<>>
          /\ Return /\ UNCHANGED attempts
    /\ UNCHANGED <<state, signalled, chain, svc, resend, history, trouble>>

-----------------------------------------------------------------------------
(* handleInProgressAttempt: send the attempt, and save what came of it.    *)

Current(t) == CHOOSE i \in DOMAIN attempts[t] : attempts[t][i].state = "in_progress"
CurrentKind == attempts[cur][Current(cur)].kind

Usual == [Successful |-> "sent", AlreadyKnown |-> "confirmed"]
Unusual == [ExceedsMaxFee |-> "sent", InsufficientFunds |-> "broke", Fatal |-> "delete",
            TerminallyStuck |-> "purge", Underpriced |-> "bump", Unknown |-> "idle"]

\* The network, external: a sequence that is mined is no longer taken, and
\* what is mined, or in a mempool already, is answered as known.  Anything
\* but success may or may not have been taken, by another node.
handleInProgressAttempt ==
    /\ pc = "send"
    /\ \E taken \in BOOLEAN :
         /\ pool' = IF taken THEN pool \cup {<<cur, CurrentKind>>} ELSE pool
         /\ taken => cur >= mined
         /\ \/ \E c \in DOMAIN Usual :
                 /\ c = "Successful" => taken
                 /\ c = "AlreadyKnown" => cur < mined \/ <<cur, CurrentKind>> \in pool
                 /\ pc' = Usual[c] /\ NoTrouble /\ UNCHANGED <<found, work>>
            \/ \E c \in DOMAIN Unusual :
                 /\ IF c = "Unknown" THEN Return
                                     ELSE pc' = Unusual[c] /\ UNCHANGED <<found, work>>
                 /\ Trouble
    /\ UNCHANGED <<store, mined, svc, resend, history>>

\* What follows when the attempt has been dealt with.
Proceed ==
    /\ pc' = then
    /\ IF then = "resume" THEN UNCHANGED <<cur, then>> ELSE cur' = NoTx /\ then' = "none"

\* SaveSentAttempt, SaveConfirmedAttempt, SaveInsufficientFundsAttempt.
SaveAttempt ==
    /\ pc \in {"sent", "confirmed", "broke"}
    /\ attempts' = [attempts EXCEPT ![cur][Current(cur)].state =
                      IF pc = "broke" THEN "insufficient" ELSE "broadcast"]
    /\ state' = IF pc = "confirmed" THEN [state EXCEPT ![cur] = "missing_receipt"] ELSE state
    /\ Proceed
    /\ UNCHANGED <<signalled, chain, svc, found, todo, resend, history, trouble>>

\* DeleteInProgressAttempt, after a fatal answer.
DeleteInProgressAttempt ==
    /\ pc = "delete"
    /\ attempts' = [attempts EXCEPT ![cur] = Without(@, Current(cur))]
    /\ refused' = IF CurrentKind = "purge" THEN refused \cup {cur} ELSE refused
    /\ Proceed
    /\ UNCHANGED <<state, signalled, chain, svc, found, todo, resend, resumed, trouble>>

\* The kind of the attempt that replaces the current one.
ReplaceKind == IF pc = "purge" THEN "purge" ELSE CurrentKind

\* A terminally stuck transaction is purged, an underpriced attempt bumped
\* if it is the highest priced; the new attempt takes the old one's place
\* and is sent at once.
SaveReplacementInProgressAttempt ==
    /\ pc \in {"purge", "bump"}
    /\ IF pc = "bump" /\ Current(cur) # 1
         THEN Return /\ UNCHANGED attempts
         ELSE /\ attempts' = [attempts EXCEPT ![cur] =
                                <<Attempt(ReplaceKind, "in_progress")>> \o Without(@, Current(cur))]
              /\ pc' = "send" /\ UNCHANGED <<found, work>>
    /\ UNCHANGED <<state, signalled, chain, svc, resend, history, trouble>>

-----------------------------------------------------------------------------
(* The resender: resendUnconfirmed reads the highest priced attempts of    *)
(* the transactions that wait, and sends them in a batch.                  *)

FindTxAttemptsRequiringResend ==
    /\ svc = "started" /\ resend = {}
    /\ resend' = {<<t, attempts[t][1].kind>> :
                    t \in {u \in Unconfirmed : attempts[u] # <<>> /\ attempts[u][1].state = "broadcast"}}
    /\ resend' # {}
    /\ UNCHANGED <<store, chain, svc, pc, found, work, history, trouble>>

\* A node that gets a transaction again takes it, unless it is mined.
BatchSendTransactions ==
    /\ resend # {}
    /\ \/ pool' = pool \cup {p \in resend : p[1] >= mined} /\ NoTrouble
       \/ UNCHANGED pool /\ Trouble
    /\ resend' = {}
    /\ UNCHANGED <<store, mined, svc, pc, found, work, history>>

-----------------------------------------------------------------------------
Confirmer ==
    \/ runLoop \/ SequenceAt \/ FindReorgOrIncludedTxs
    \/ ProcessReorgTxs \/ ProcessIncludedTxs \/ ProcessStuckTransactions
    \/ resumeFailedTaskRuns \/ UpdateTxCallbackCompleted \/ GetInProgressTxAttempts
    \/ handleAnyInProgressAttempts \/ FindTxsRequiringRebroadcast
    \/ rebroadcastWhereNecessary \/ handleInProgressAttempt \/ SaveAttempt
    \/ DeleteInProgressAttempt \/ SaveReplacementInProgressAttempt
    \/ Failing({"count", "find", "reorg", "included", "include", "detect", "resume", "completed",
                "progress", "require", "rebroadcast", "sent", "confirmed",
                "broke", "delete", "bump", "purge"})
    \/ Exit

Resender == FindTxAttemptsRequiringResend \/ BatchSendTransactions

Next ==
    \/ handleInProgressTx \/ UpdateTxAttemptInProgressToBroadcast \/ Mine \/ Reorg \/ Finalize
    \/ Start \/ Close \/ Crash
    \/ Confirmer \/ Resender

Spec == Init /\ [][Next]_vars

\* The loops run, heads keep coming, the chain mines what its nodes know and
\* a stopped process is started again.  The resender's timer fires again
\* and again.
FairSpec ==
    /\ Spec
    /\ WF_vars(Confirmer) /\ WF_vars(Start) /\ WF_vars(Mine)
    /\ SF_vars(FindTxAttemptsRequiringResend) /\ WF_vars(BatchSendTransactions)

-----------------------------------------------------------------------------
(* Properties.                                                             *)

\* Every variable has its type.
TypeOK ==
    /\ state \in [Txs -> Settled \cup {"absent", "in_progress", "unconfirmed"}]
    /\ \A t \in Txs : \A i \in DOMAIN attempts[t] :
         attempts[t][i] \in [kind : Kinds, state : {"in_progress", "broadcast", "insufficient"}]
    /\ pool \subseteq Txs \X Kinds /\ resend \subseteq Txs \X Kinds
    /\ mined \in 0..N /\ count \in 0..N
    /\ reorged \cup included \cup late \subseteq Txs
    /\ cur \in Txs \cup {NoTx}
    /\ signalled \cup resumed \cup refused \subseteq Txs
    /\ trouble \in 0..MaxTrouble

\* A transaction has at most one attempt in progress, and that is its
\* highest priced one (confirmer.go:515, :687), although stuck-transaction
\* purges, bumps, resubmissions and reorgs all put attempts in progress.
HighestInProgress ==
    \A t \in Txs : \A i \in DOMAIN attempts[t] :
        attempts[t][i].state = "in_progress" => i = 1

\* The attempts are as the confirmer and the store expect them on every head.
AttemptsInOrder == TypeOK /\ HighestInProgress

\* When CheckForConfirmation is done, the transactions below the mined count
\* it read are settled and the others are not, whatever the chain and the
\* finalizer did meanwhile (confirmer.go:262).  What the broadcaster has sent
\* but not handed over, and what it handed over since the store was read, is
\* left to a later check, even if it is mined (broadcaster.go:564).
CheckedMatchesCount ==
    pc = "detect" =>
        \A t \in Txs :
            /\ t < count => \/ state[t] \in Settled \cup {"in_progress"}
                            \/ state[t] = "unconfirmed" /\ t \in late
            /\ t >= count => state[t] \notin Settled

\* A purge that is on its way is on record, so that its inclusion is not
\* taken for the transaction's, unless its attempt was refused and deleted.
PurgeOnRecord ==
    \A t \in Txs : <<t, "purge">> \in pool => HasPurgeAttempt(t) \/ t \in refused

\* A pipeline that was told its transaction is stuck is not proved wrong:
\* the transaction is never confirmed afterwards, even if its own attempt is
\* mined before the purge, or mined again after a reorg; only a purge that
\* was refused as fatal is forgotten (confirmer.go:355, :422, :735).
FailedPipelineNeverConfirmed ==
    \A t \in resumed \ refused : state[t] \notin {"confirmed", "finalized"}

\* A purge is known for what it is, to the store and to the pipeline.
PurgesAreKnown == PurgeOnRecord /\ FailedPipelineNeverConfirmed

\* The confirmer and the resender see every transaction settled, once the
\* chain settles and errors stop; an attempt that was refused as fatal and
\* was the only one leaves a transaction for the operator to handle
\* (confirmer.go:734), and stops the others if that one is reorged (:303)
\* or due for a bump (:621).
Settles ==
    \A t \in Txs : state[t] = "unconfirmed"
        ~> (\/ state[t] \in Settled
            \/ \E u \in Txs : state[u] \notin {"absent", "in_progress"} /\ attempts[u] = <<>>)
=============================================================================
