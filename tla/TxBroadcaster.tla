---------------------------- MODULE TxBroadcaster ----------------------------
(***************************************************************************)
(* The transaction broadcaster for one sending address                     *)
(* (src/chains/txmgr/broadcaster.go): its lifecycle, the monitor goroutine *)
(* of the address, the transaction store it saves to and the network it    *)
(* sends to.  Every call to the store or to the network is a step of its   *)
(* own; each can fail, and the process can crash between any two.          *)
(***************************************************************************)
EXTENDS Integers, FiniteSets

CONSTANTS
    Txs,            \* the transactions of the address
    NoTx,           \* no transaction
    Signals,        \* the transactions whose pipeline waits for a callback
    MaxInFlight,    \* limit of unconfirmed transactions, 0 for none
    GiveUp,         \* UnknownErrorRetryTimeout is set
    ChainType,      \* chainType: "hedera" or another
    AutoSync,       \* autoSyncSequence
    MaxRetries,     \* maxHederaBroadcastRetries
    MaxFaults,      \* bound: failing calls and reorgs
    MaxRestarts     \* bound: crashes and closes

ASSUME BroadcasterAssumption ==
    /\ NoTx \notin Txs
    /\ IsFiniteSet(Txs)
    /\ Signals \subseteq Txs
    /\ {MaxInFlight, MaxRetries, MaxFaults, MaxRestarts} \subseteq Nat
    /\ {GiveUp, AutoSync} \subseteq BOOLEAN

VARIABLES
    \* the transaction store
    state,          \* state[t] of the row, "absent" before it is created
    sequence,       \* sequence[t] of the row
    attempt,        \* the state of t's attempt, as the broadcaster saved it
    reason,         \* why t is fatally errored
    signalled,      \* the rows with CallbackCompleted
    \* the network
    accepted,       \* accepted[t]: the sequence with which a node took t
    \* the broadcaster's memory
    svc,            \* lifecycle: "stopped", "started", "closing"
    nextSequence,   \* the sequence tracker's entry of the address
    trigger,        \* the address's trigger channel
    unknownErrs,    \* the address's unknownErrState: transaction and count
    pc,             \* where the monitor is
    cur,            \* the transaction it handles
    curSeq,         \* and that transaction's sequence
    why,            \* the error it is about to save
    tries,          \* retryCount
    \* what happened, for the properties
    resumed,        \* pipelines that were resumed with an error
    interrupted,    \* transactions whose fatal error was not saved at once
    unknowns,       \* unknowns[t]: unknown errors t met
    reverted,       \* unconfirmed again since a reorg
    faults, restarts

store == <<state, sequence, attempt, reason, signalled>>
memory == <<nextSequence, trigger, unknownErrs>>
local == <<cur, curSeq, why, tries>>
history == <<resumed, interrupted, unknowns, reverted>>
bounds == <<faults, restarts>>
vars == <<store, accepted, svc, memory, pc, local, history, bounds>>

NoSeq == -1
NoErrs == [tx |-> NoTx, count |-> 0]
\* A row in "purged" is fatally errored by the confirmer, which leaves it its
\* sequence; one in "fatal_error" by the broadcaster, which does not.
TxStates == {"absent", "unstarted", "in_progress", "unconfirmed", "confirmed", "purged",
             "fatal_error", "removed"}
Codes == {"Successful", "AlreadyKnown", "Fatal", "TerminallyStuck", "Underpriced",
          "InsufficientFunds", "Retryable", "FeeOutOfValidRange", "Unsupported",
          "ExceedsMaxFee", "Unknown"}
Resting == {"done", "failed", "retry"}
Places == Resting \cup {"off", "load", "sync", "progress", "count", "next", "finish", "attempt",
           "claim", "send", "validate", "bump", "estimate", "reestimate", "pending",
           "persist", "generate", "fatal", "completed", "save"}

Sent == {t \in Txs : state[t] \in {"unconfirmed", "confirmed", "purged"}}
Unconfirmed == {t \in Txs : state[t] = "unconfirmed"}

\* A call to the store or to the network fails; failures are bounded.
Fault == faults < MaxFaults /\ faults' = faults + 1
NoFault == UNCHANGED faults

Init ==
    /\ state = [t \in Txs |-> "absent"]
    /\ sequence = [t \in Txs |-> NoSeq]
    /\ attempt = [t \in Txs |-> "none"]
    /\ reason = [t \in Txs |-> "none"]
    /\ signalled = {}
    /\ accepted = [t \in Txs |-> NoSeq]
    /\ svc = "stopped"
    /\ nextSequence = NoSeq
    /\ trigger = "none"
    /\ unknownErrs = NoErrs
    /\ pc = "off"
    /\ cur = NoTx /\ curSeq = NoSeq /\ why = "none" /\ tries = 0
    /\ resumed = {} /\ interrupted = {}
    /\ unknowns = [t \in Txs |-> 0]
    /\ reverted = {}
    /\ faults = 0 /\ restarts = 0

-----------------------------------------------------------------------------
(* The sequence tracker, external: the next sequence is the first one      *)
(* above those of the transactions handed over; a transaction in progress  *)
(* has not used its sequence up.                                           *)

\* Fault: the row in progress counts as used.
LoadedSequenceCountingInProgress ==
    CHOOSE n \in 0..Cardinality(Txs) :
        /\ \A t \in Txs : sequence[t] < n
        /\ n > 0 => \E t \in Txs : sequence[t] = n - 1

LoadedSequence ==
    CHOOSE n \in 0..Cardinality(Txs) :
        /\ \A t \in Sent : sequence[t] < n
        /\ n > 0 => \E t \in Sent : sequence[t] = n - 1

-----------------------------------------------------------------------------
(* Lifecycle.                                                              *)

\* startInternal; a call while it is started returns an error.
Start ==
    /\ svc = "stopped"
    /\ svc' = "started"
    /\ pc' = "load"
    /\ trigger' = "none"
    /\ unknownErrs' = NoErrs
    /\ UNCHANGED <<store, accepted, nextSequence, local, history, bounds>>

\* Loads the sequence, which can fail, makes the trigger channel and starts
\* the monitor.
loadAndMonitor ==
    /\ pc = "load"
    /\ \/ nextSequence' = LoadedSequence /\ NoFault
       \/ nextSequence' = NoSeq /\ Fault
    /\ trigger' = "empty"
    /\ pc' = "sync"
    /\ UNCHANGED <<store, accepted, svc, unknownErrs, local, history, restarts>>

\* The head of monitorTxs; syncing the sequence with a chain nobody else
\* sends to changes nothing.
SyncSequence ==
    /\ pc = "sync"
    /\ pc' = IF AutoSync /\ svc = "closing" THEN "off" ELSE "progress"
    /\ UNCHANGED <<store, accepted, svc, memory, local, history, bounds>>

\* closeInternal closes chStop, keeps initSync and waits for the monitor...
Close ==
    /\ svc = "started" /\ restarts < MaxRestarts
    /\ svc' = "closing"
    /\ restarts' = restarts + 1
    /\ UNCHANGED <<store, accepted, memory, pc, local, history, faults>>

\* ... and returns.
Closed ==
    /\ svc = "closing" /\ pc = "off"
    /\ svc' = "stopped"
    /\ UNCHANGED <<store, accepted, memory, pc, local, history, bounds>>

\* Fault: the channel is not buffered, and only a waiting monitor is triggered.
TriggerOnlyWaiting ==
    trigger' = IF trigger # "none" /\ pc \in Resting THEN "full" ELSE trigger

\* Trigger fills the channel, if there is one.  It needs initSync, which
\* Close holds; what waits for that finds the broadcaster stopped.
Trigger ==
    trigger' = IF svc = "closing" \/ trigger = "none" THEN trigger ELSE "full"

\* The process dies and its memory with it.
Crash ==
    /\ svc # "stopped" /\ restarts < MaxRestarts
    /\ restarts' = restarts + 1
    /\ svc' = "stopped" /\ pc' = "off"
    /\ nextSequence' = NoSeq /\ trigger' = "none" /\ unknownErrs' = NoErrs
    /\ cur' = NoTx /\ curSeq' = NoSeq /\ why' = "none" /\ tries' = 0
    /\ interrupted' = interrupted \cup {t \in {cur} : pc \in {"completed", "save"}}
    /\ UNCHANGED <<store, accepted, resumed, unknowns, reverted, faults>>

-----------------------------------------------------------------------------
(* The monitor of the address: monitorTxs and processUnstartedTxs.         *)

\* processUnstartedTxs returns to monitorTxs: there is nothing left to do,
\* or there was an error, retryable or not.
Rest(place) ==
    /\ pc' = place
    /\ cur' = NoTx /\ curSeq' = NoSeq /\ why' = "none" /\ tries' = 0

\* A transaction was dealt with: the loop goes on.
Again == Rest("count")

\* The queue was empty: back to the select of monitorTxs.
Finish ==
    /\ pc = "finish"
    /\ pc' = "done"
    /\ UNCHANGED <<store, accepted, svc, memory, local, history, bounds>>

\* The select of monitorTxs: stopped...
Exit ==
    /\ pc \in Resting /\ svc = "closing"
    /\ pc' = "off"
    /\ UNCHANGED <<store, accepted, svc, memory, local, history, bounds>>

\* Fault: after an error nothing but a trigger starts the next scan.
WakeOnTriggerOnly ==
    /\ pc \in Resting /\ trigger = "full"
    /\ trigger' = "empty" /\ pc' = "progress"
    /\ UNCHANGED <<store, accepted, svc, nextSequence, unknownErrs, local, history, bounds>>

\* ... or triggered, or woken by a timer.
Wake ==
    /\ pc \in Resting
    /\ \/ trigger = "full" /\ trigger' = "empty" /\ pc' = "progress"
       \/ pc' = "progress" /\ UNCHANGED trigger
    /\ UNCHANGED <<store, accepted, svc, nextSequence, unknownErrs, local, history, bounds>>

\* Handle(t, q): go on with transaction t under sequence q.
Handle(t, q, place) ==
    /\ cur' = t /\ curSeq' = q /\ tries' = 0 /\ pc' = place
    /\ UNCHANGED why

\* Fault: a transaction found in progress is checked again before it is sent.
handleAnyInProgressTxChecking ==
    /\ pc = "progress"
    /\ \/ /\ \A t \in Txs : state[t] # "in_progress"
          /\ Rest("count")
       \/ \E t \in Txs :
            /\ state[t] = "in_progress"
            /\ \/ Handle(t, sequence[t], "send")
               \/ pc' = "fatal" /\ why' = "checker" /\ cur' = t /\ curSeq' = sequence[t] /\ tries' = 0
    /\ NoFault
    /\ UNCHANGED <<store, accepted, svc, memory, history, restarts>>

\* A transaction left in progress, by a crash, a close or an error, is sent
\* again; it is not checked again.
handleAnyInProgressTx ==
    /\ pc = "progress"
    /\ \/ Rest("retry") /\ Fault
       \/ /\ \A t \in Txs : state[t] # "in_progress"
          /\ Rest("count") /\ NoFault
       \/ \E t \in Txs :
            /\ state[t] = "in_progress"
            /\ Handle(t, sequence[t], "send") /\ NoFault
    /\ UNCHANGED <<store, accepted, svc, memory, history, restarts>>

\* The head of the loop: wait while too many transactions are unconfirmed,
\* until the broadcaster is closed.
Throttle ==
    /\ pc = "count"
    /\ \/ /\ MaxInFlight = 0 \/ Cardinality(Unconfirmed) < MaxInFlight
          /\ pc' = "next" /\ NoFault /\ UNCHANGED local
       \/ /\ MaxInFlight > 0 /\ Cardinality(Unconfirmed) >= MaxInFlight
          /\ svc = "closing" /\ Rest("failed") /\ NoFault
       \/ MaxInFlight > 0 /\ Rest("retry") /\ Fault
    /\ UNCHANGED <<store, accepted, svc, memory, history, restarts>>

\* The tracker loads a sequence it does not have.
nextUnstartedTransactionWithSequence ==
    /\ pc = "next"
    /\ \/ Rest("retry") /\ Fault /\ UNCHANGED nextSequence
       \/ /\ \A t \in Txs : state[t] # "unstarted"
          /\ Rest("finish") /\ NoFault /\ UNCHANGED nextSequence
       \/ \E t \in Txs :
            /\ state[t] = "unstarted"
            /\ nextSequence' = IF nextSequence = NoSeq THEN LoadedSequence ELSE nextSequence
            /\ Handle(t, nextSequence', "attempt") /\ NoFault
    /\ UNCHANGED <<store, accepted, svc, trigger, unknownErrs, history, restarts>>

\* saveFatallyErroredTransaction is called with this error.
Doom(e) == pc' = "fatal" /\ why' = e /\ UNCHANGED <<cur, curSeq, tries>>

\* handleUnstartedTx up to the transmit check: building the attempt can
\* fail, and a gas limit that is too low or a failed check is fatal.
NewTxAttempt ==
    /\ pc = "attempt"
    /\ \/ Doom("fee_limit") /\ NoFault
       \/ (Rest("retry") \/ Rest("failed")) /\ Fault
       \/ Doom("checker") /\ NoFault
       \/ pc' = "claim" /\ UNCHANGED local /\ NoFault
    /\ UNCHANGED <<store, accepted, svc, memory, history, restarts>>

\* Fault: the attempt is left to be saved once it has been sent.
UpdateTxUnstartedToInProgressNoAttempt ==
    /\ pc = "claim"
    /\ \/ /\ state[cur] = "unstarted"
          /\ state' = [state EXCEPT ![cur] = "in_progress"]
          /\ sequence' = [sequence EXCEPT ![cur] = curSeq]
          /\ UNCHANGED attempt
          /\ pc' = "send" /\ NoFault /\ UNCHANGED local
       \/ /\ state[cur] = "removed"
          /\ Again /\ NoFault /\ UNCHANGED <<state, sequence, attempt>>
       \/ Rest("retry") /\ Fault /\ UNCHANGED <<state, sequence, attempt>>
    /\ UNCHANGED <<reason, signalled, accepted, svc, memory, history, restarts>>

\* The transaction, its sequence and its attempt are saved before anything
\* is sent; it may have been removed from the queue meanwhile.
UpdateTxUnstartedToInProgress ==
    /\ pc = "claim"
    /\ \/ /\ state[cur] = "unstarted"
          /\ state' = [state EXCEPT ![cur] = "in_progress"]
          /\ sequence' = [sequence EXCEPT ![cur] = curSeq]
          /\ attempt' = [attempt EXCEPT ![cur] = "in_progress"]
          /\ pc' = "send" /\ NoFault /\ UNCHANGED local
       \/ /\ state[cur] = "removed"
          /\ Again /\ NoFault /\ UNCHANGED <<state, sequence, attempt>>
       \/ Rest("retry") /\ Fault /\ UNCHANGED <<state, sequence, attempt>>
    /\ UNCHANGED <<reason, signalled, accepted, svc, memory, history, restarts>>

-----------------------------------------------------------------------------
(* handleInProgressTx: send, and act on the answer.                        *)

clearUnknownErrState == unknownErrs' = NoErrs

\* The switch of handleInProgressTx on the answer c.
Answer(c) ==
    \/ /\ c \in {"Fatal", "TerminallyStuck"}
       /\ clearUnknownErrState
       /\ Doom(IF pc = "validate" THEN "not_included" ELSE "rejected")
    \/ /\ \/ c \in {"Successful", "AlreadyKnown"} /\ pc' = "persist"
          \/ c = "Underpriced" /\ pc' = "bump"
          \/ c = "InsufficientFunds" /\ pc' = "estimate"
          \/ c = "FeeOutOfValidRange" /\ pc' = "reestimate"
          \/ c \in {"ExceedsMaxFee", "Unknown"} /\ pc' = "pending"
       /\ UNCHANGED <<local, unknownErrs>>
    \/ c = "Retryable" /\ Rest("retry") /\ UNCHANGED unknownErrs
    \/ c = "Unsupported" /\ Rest("failed") /\ UNCHANGED unknownErrs

\* The network, external.  Any node may take the transaction whatever the
\* answer, a fatal one included, except that success and "already known" are
\* not answered for a transaction that no node took.
Network(taken, c) ==
    /\ c = "Successful" => taken
    /\ c = "AlreadyKnown" => taken \/ accepted[cur] # NoSeq
    /\ accepted' = IF taken THEN [accepted EXCEPT ![cur] = curSeq] ELSE accepted

handleInProgressTx ==
    /\ pc = "send"
    /\ \E taken \in BOOLEAN, c \in Codes :
         /\ Network(taken, c)
         /\ IF ChainType = "hedera" /\ c = "Successful"
              THEN pc' = "validate" /\ UNCHANGED <<local, unknownErrs>>
              ELSE Answer(c)
         /\ IF c \in {"Successful", "AlreadyKnown", "Fatal", "TerminallyStuck"}
              THEN NoFault ELSE Fault
    /\ UNCHANGED <<store, svc, nextSequence, trigger, history, restarts>>

\* On Hedera success is believed only once the sequence on chain has moved
\* past the transaction's; a chain that cannot be asked is believed.
validateOnChainSequence ==
    /\ pc = "validate"
    /\ \E onChain \in {"less", "equal", "more", "unknown"} :
         /\ onChain = "less" => curSeq > 0
         /\ \/ onChain = "equal" /\ tries < MaxRetries /\ Answer("Underpriced") /\ Fault
            \/ onChain = "equal" /\ tries >= MaxRetries /\ Answer("Fatal") /\ NoFault
            \/ onChain = "less" /\ Answer("Fatal") /\ NoFault
            \/ onChain \in {"more", "unknown"} /\ Answer("Successful") /\ NoFault
    /\ UNCHANGED <<store, accepted, svc, nextSequence, trigger, history, restarts>>

\* The old attempt is deleted and the new one saved in one go.
ReplaceAttempt == attempt' = [attempt EXCEPT ![cur] = "in_progress"]

replaceAttemptWithBumpedGas ==
    /\ pc = "bump"
    /\ \/ (Rest("retry") \/ Rest("failed")) /\ Fault /\ UNCHANGED attempt
       \/ /\ ReplaceAttempt /\ NoFault
          /\ tries' = IF tries < MaxRetries THEN tries + 1 ELSE tries
          /\ pc' = "send" /\ UNCHANGED <<cur, curSeq, why>>
    /\ UNCHANGED <<state, sequence, reason, signalled, accepted, svc, memory, history, restarts>>

\* With insufficient funds it is sent again after the backoff, with a fee
\* out of range at once.
replaceAttemptWithNewEstimation ==
    /\ pc \in {"estimate", "reestimate"}
    /\ \/ /\ Rest("retry") \/ (pc = "reestimate" /\ Rest("failed"))
          /\ Fault /\ UNCHANGED attempt
       \/ ReplaceAttempt /\ pc = "estimate" /\ Rest("retry") /\ NoFault
       \/ /\ ReplaceAttempt /\ pc = "reestimate" /\ NoFault
          /\ tries' = 0 /\ pc' = "send" /\ UNCHANGED <<cur, curSeq, why>>
    /\ UNCHANGED <<state, sequence, reason, signalled, accepted, svc, memory, history, restarts>>

\* One more error in the state of the address, which starts anew with
\* another transaction.  The count is capped: only a first error matters.
recordUnknownErr ==
    IF unknownErrs.tx = cur
      THEN [tx |-> cur, count |-> 2]
      ELSE [tx |-> cur, count |-> 1]

\* An unknown error: if the node's pending sequence has passed the
\* transaction's it is taken for sent; otherwise it is retried, or given up
\* when errors have gone on for longer than the timeout, which the first of
\* them never has.  The pending sequence passes only what some node took.
PendingSequenceAt ==
    /\ pc = "pending"
    /\ unknowns' = [unknowns EXCEPT ![cur] = IF @ < 2 THEN @ + 1 ELSE @]
    /\ \/ Rest("retry") /\ Fault /\ UNCHANGED unknownErrs
       \/ /\ \E t \in Txs : accepted[t] = curSeq
          /\ pc' = "persist" /\ NoFault /\ UNCHANGED <<local, unknownErrs>>
       \/ /\ unknownErrs' = IF GiveUp THEN recordUnknownErr ELSE unknownErrs
          /\ Rest("retry") /\ NoFault
       \/ /\ GiveUp /\ recordUnknownErr.count > 1
          /\ clearUnknownErrState
          /\ Doom("gave_up") /\ NoFault
    /\ UNCHANGED <<store, accepted, svc, nextSequence, trigger,
                   resumed, interrupted, reverted, restarts>>

\* The transaction is saved as unconfirmed; if that fails it stays in
\* progress and is sent again later.
UpdateTxAttemptInProgressToBroadcast ==
    /\ pc = "persist"
    /\ \/ /\ state' = [state EXCEPT ![cur] = "unconfirmed"]
          /\ attempt' = [attempt EXCEPT ![cur] = "broadcast"]
          /\ clearUnknownErrState
          /\ pc' = "generate" /\ NoFault /\ UNCHANGED local
       \/ Rest("retry") /\ Fault /\ UNCHANGED <<state, attempt, unknownErrs>>
    /\ UNCHANGED <<sequence, reason, signalled, accepted, svc, nextSequence, trigger,
                   history, restarts>>

\* The sequence has been used.
GenerateNextSequence ==
    /\ pc = "generate"
    /\ nextSequence' = curSeq + 1
    /\ Again
    /\ UNCHANGED <<store, accepted, svc, trigger, unknownErrs, history, bounds>>

-----------------------------------------------------------------------------
(* saveFatallyErroredTransaction.                                          *)

\* Fault: once the pipeline is resumed the error is left to the next scan.
resumeCallbackThenRetry ==
    /\ pc = "fatal"
    /\ \/ cur \notin Signals \ signalled /\ pc' = "save" /\ UNCHANGED <<local, resumed, signalled>>
       \/ /\ cur \in Signals \ signalled
          /\ resumed' = resumed \cup {cur} /\ signalled' = signalled \cup {cur}
          /\ Rest("retry")
    /\ UNCHANGED <<state, sequence, attempt, reason, accepted, svc, memory, interrupted,
                   unknowns, reverted, bounds>>

\* The pipeline that waits for the transaction is resumed with an error
\* before the error is saved.
resumeCallback ==
    /\ pc = "fatal"
    /\ \/ /\ cur \notin Signals \/ cur \in signalled
          /\ pc' = "save" /\ NoFault /\ UNCHANGED <<local, resumed>>
       \/ /\ cur \in Signals \ signalled
          /\ \/ pc' = "save" /\ UNCHANGED <<local, resumed>> /\ NoFault
             \/ pc' = "completed" /\ resumed' = resumed \cup {cur} /\ UNCHANGED local /\ NoFault
             \/ (Rest("retry") \/ Rest("failed")) /\ UNCHANGED resumed /\ Fault
    /\ UNCHANGED <<store, accepted, svc, memory, interrupted, unknowns, reverted, restarts>>

UpdateTxCallbackCompleted ==
    /\ pc = "completed"
    /\ \/ /\ signalled' = signalled \cup {cur} /\ pc' = "save"
          /\ NoFault /\ UNCHANGED <<local, interrupted>>
       \/ /\ Rest("retry") \/ Rest("failed")
          /\ Fault /\ interrupted' = interrupted \cup {cur} /\ UNCHANGED signalled
    /\ UNCHANGED <<state, sequence, attempt, reason, accepted, svc, memory,
                   resumed, unknowns, reverted, restarts>>

\* The row loses its attempts and its sequence, which the next transaction
\* will take; a row that was removed meanwhile stays so.
UpdateTxFatalErrorAndDeleteAttempts ==
    /\ pc = "save"
    /\ \/ /\ state' = [state EXCEPT ![cur] = IF @ = "removed" THEN @ ELSE "fatal_error"]
          /\ sequence' = [sequence EXCEPT ![cur] = NoSeq]
          /\ attempt' = [attempt EXCEPT ![cur] = "none"]
          /\ reason' = [reason EXCEPT ![cur] = IF state[cur] = "removed" THEN @ ELSE why]
          /\ Again /\ NoFault /\ UNCHANGED interrupted
       \/ /\ Rest("retry") \/ Rest("failed")
          /\ Fault /\ interrupted' = interrupted \cup {cur}
          /\ UNCHANGED <<state, sequence, attempt, reason>>
    /\ UNCHANGED <<signalled, accepted, svc, memory, resumed, unknowns, reverted, restarts>>

-----------------------------------------------------------------------------
(* The others: whoever creates transactions, the queue's pruning strategy, *)
(* and the confirmer.                                                      *)

Move(from, to) == \E t \in Txs : state[t] = from /\ state' = [state EXCEPT ![t] = to]

\* A transaction is inserted and the broadcaster triggered.
CreateTransaction ==
    /\ Move("absent", "unstarted")
    /\ Trigger
    /\ UNCHANGED <<sequence, attempt, reason, signalled, accepted, svc, nextSequence,
                   unknownErrs, pc, local, history, bounds>>

PruneQueue ==
    /\ Move("unstarted", "removed")
    /\ UNCHANGED <<sequence, attempt, reason, signalled, accepted, svc, memory, pc,
                   local, history, bounds>>

\* The confirmer finds transactions included: confirmed, or purged when they
\* were terminally stuck.
ProcessIncludedTxs ==
    /\ \E t \in Unconfirmed, s \in {"confirmed", "purged"} :
         /\ state' = [state EXCEPT ![t] = s]
         /\ reverted' = reverted \ {t}
    /\ UNCHANGED <<sequence, attempt, reason, signalled, accepted, svc, memory, pc, local,
                   resumed, interrupted, unknowns, bounds>>

\* It finds them reorganised: they are unconfirmed again, the purged ones too.
ProcessReorgTxs ==
    /\ \E t \in Sent \ Unconfirmed :
         /\ state' = [state EXCEPT ![t] = "unconfirmed"]
         /\ reverted' = reverted \cup {t}
    /\ Fault
    /\ UNCHANGED <<sequence, attempt, reason, signalled, accepted, svc, memory, pc, local,
                   resumed, interrupted, unknowns, restarts>>

Monitor ==
    \/ loadAndMonitor \/ SyncSequence \/ Finish \/ Exit \/ Wake \/ handleAnyInProgressTx \/ Throttle
    \/ nextUnstartedTransactionWithSequence \/ NewTxAttempt
    \/ UpdateTxUnstartedToInProgress \/ handleInProgressTx
    \/ validateOnChainSequence \/ replaceAttemptWithBumpedGas
    \/ replaceAttemptWithNewEstimation \/ PendingSequenceAt
    \/ UpdateTxAttemptInProgressToBroadcast \/ GenerateNextSequence
    \/ resumeCallback \/ UpdateTxCallbackCompleted
    \/ UpdateTxFatalErrorAndDeleteAttempts

Next ==
    \/ Start \/ Close \/ Closed \/ Crash
    \/ Monitor
    \/ CreateTransaction \/ PruneQueue \/ ProcessIncludedTxs \/ ProcessReorgTxs

Spec == Init /\ [][Next]_vars

\* The monitor is a goroutine that is always runnable, Close's wait ends
\* with it, the owner restarts what stopped, and the confirmer confirms.
\* A select picks at random among the channels that are ready, so a closed
\* chStop is not passed over forever.
Fairness ==
    /\ WF_vars(Monitor) /\ SF_vars(Exit)
    /\ WF_vars(Start) /\ WF_vars(Closed) /\ WF_vars(ProcessIncludedTxs)

FairSpec == Spec /\ Fairness

-----------------------------------------------------------------------------
(* Properties.                                                             *)

\* Every variable has its type.
TypeOK ==
    /\ state \in [Txs -> TxStates]
    /\ sequence \in [Txs -> Int]
    /\ attempt \in [Txs -> {"none", "in_progress", "broadcast"}]
    /\ reason \in [Txs -> {"none", "fee_limit", "checker", "rejected", "not_included", "gave_up"}]
    /\ signalled \subseteq Txs
    /\ accepted \in [Txs -> Int]
    /\ svc \in {"stopped", "started", "closing"}
    /\ nextSequence \in Int
    /\ trigger \in {"none", "empty", "full"}
    /\ unknownErrs \in [tx : Txs \cup {NoTx}, count : 0..2]
    /\ pc \in Places
    /\ cur \in Txs \cup {NoTx}
    /\ curSeq \in Int
    /\ why \in {"none", "fee_limit", "checker", "rejected", "not_included", "gave_up"}
    /\ tries \in 0..MaxRetries
    /\ resumed \subseteq Txs /\ interrupted \subseteq Txs
    /\ unknowns \in [Txs -> 0..2]
    /\ reverted \subseteq Txs
    /\ faults \in 0..MaxFaults /\ restarts \in 0..MaxRestarts

Sequencing == INSTANCE TxSequence WITH
    used <- [t \in Txs |-> IF t \in Sent THEN sequence[t] ELSE NoSeq],
    next <- Cardinality(Sent),
    pending <- IF \E t \in Txs : state[t] = "in_progress"
                 THEN CHOOSE t \in Txs : state[t] = "in_progress" ELSE NoTx

\* The broadcaster implements TxSequence: across errors, retries, restarts
\* and crashes the transactions handed over take consecutive sequences, one
\* at a time, and keep them (the guarantees of broadcaster.go:78-81).
HandsOutSequences == Sequencing!SeqSpec

\* Whatever may have reached the network is on record: a transaction in
\* progress has a saved attempt, one is handed over with its attempt, and one
\* that a node took is no longer waiting to be started (broadcaster.go:81,
\* :485).
SavedBeforeSent ==
    \A t \in Txs :
        /\ state[t] = "in_progress" => attempt[t] = "in_progress"
        /\ t \in Sent => attempt[t] = "broadcast"
        /\ accepted[t] # NoSeq => state[t] \in {"in_progress", "fatal_error"} \/ t \in Sent

\* Two transactions are taken by the network under the same sequence only
\* if the broadcaster dropped one of them on what the network said of it:
\* an answer that calls it fatal, errors for too long, no inclusion on
\* Hedera.  None of these shows that no node took it (transaction_sender.go:76).
NoDoubleSpend ==
    \A t, u \in Txs :
        t # u /\ accepted[t] # NoSeq /\ accepted[t] = accepted[u]
            => \E v \in {t, u} :
                  state[v] = "fatal_error" /\ reason[v] \in {"rejected", "gave_up", "not_included"}

\* A transaction that a node took is never dropped by a transmit check or for
\* its fee limit, also when it is met again after a crash, a close or an
\* error: "we might mark applied transactions as fatally errored"
\* (broadcaster.go:471).
CheckedBeforeSent ==
    \A t \in Txs : reason[t] \in {"fee_limit", "checker"} => accepted[t] = NoSeq

\* A transaction is given up only after unknown errors of its own, never
\* on the time another transaction's errors have taken (broadcaster.go:673).
GivesUpOnOwnErrors ==
    \A t \in Txs : reason[t] = "gave_up" => unknowns[t] > 1

\* A sequence is spent twice only on the network's word about one of the two,
\* never by a crash, a restart, a retry, a check or another's errors.
SequencesSpentOnce == NoDoubleSpend /\ CheckedBeforeSent /\ GivesUpOnOwnErrors

\* A pipeline resumed with an error whose transaction went out after all:
\* only if the fatal error could not be saved (broadcaster.go:802-813).
ErroredPipelineIsRare ==
    \A t \in Sent : t \in resumed => t \in interrupted

\* Only a reorg takes the transactions in flight over the limit: those that
\* were not put back by one stay within it, also across restarts and while
\* reorgs come between the count and the hand-over (broadcaster.go:392-410).
InFlightLimit == MaxInFlight > 0 => Cardinality(Unconfirmed \ reverted) <= MaxInFlight

\* The store is in order whenever the process may stop: what may be on the
\* network is on record and within the limit.
StoreInOrder == TypeOK /\ SavedBeforeSent /\ InFlightLimit

\* A monitor that found the queue empty does not sleep through the trigger
\* of a transaction inserted since.
WakeupKept ==
    pc = "done" /\ svc = "started" /\ (\E t \in Txs : state[t] = "unstarted")
        => trigger = "full"

\* A transaction leaves the queue for fatal_error or for the network
\* (broadcaster.go:80), if it is not removed.
LeavesQueue ==
    \A t \in Txs :
        state[t] \in {"unstarted", "in_progress"} ~>
            state[t] \in {"unconfirmed", "confirmed", "fatal_error", "removed"}

\* Close returns although it holds initSync while it waits for the monitor
\* (broadcaster.go:223-226).
CloseReturns == svc = "closing" ~> svc = "stopped"

\* The monitor goroutine gets stuck neither on a transaction nor on Close.
MonitorProgresses == LeavesQueue /\ CloseReturns
=============================================================================
