--------------------------------- MODULE Txm ---------------------------------
(***************************************************************************)
(* The transaction manager (src/chains/txmgr/txmgr.go) and what its loop   *)
(* starts, resets and closes: the broadcaster and the confirmer, reduced   *)
(* to what they do to a transaction, the tracker of abandoned transactions *)
(* (tracker.go) and the reaper (reaper.go).  Every address has one         *)
(* transaction, named by the address.                                      *)
(***************************************************************************)
EXTENDS Integers, FiniteSets

CONSTANTS
    Addrs,          \* addresses
    NoAddr,         \* no address
    MaxTrouble,     \* bound: changes of the key store, calls of Reset, and calls of the
                    \* key store and of the transaction store that fail, together
    MaxHead         \* bound: highest block number

ASSUME TxmAssumption ==
    /\ Addrs # {} /\ NoAddr \notin Addrs
    /\ {MaxTrouble, MaxHead} \subseteq Nat

VARIABLES
    mgr,            \* the manager's StateMachine
    chStop,
    keys,           \* what the key store enables
    enabledAddrs,   \* what the manager takes for enabled
    \* the services
    isStarted, addrs,
    \* runLoop
    loop, stopped,
    job,            \* what execReset is to do: abandon an address or set addresses
    pending,        \* the services execReset still has to start
    \* the callers of Reset, OnNewLongestChain and Close
    caller, header, closer,
    \* the reaper
    reaper, latestBlockNum,
    \* the tracker's loop
    tracker, txCache, mb,
    todo, seen,     \* the transactions it still has to look at; the one it has
                    \* read, with the state it had
    \* the transactions
    tx,
    panicked,       \* a call that ended the process
    crossed,        \* handed over while the tracker, going over its cache, held them in it
    disabled,       \* addresses that were not enabled at some time
    trouble

manager == <<mgr, chStop, enabledAddrs, loop, stopped, job, pending>>
services == <<isStarted, addrs>>
callers == <<caller, header, closer>>
reaping == <<reaper, latestBlockNum>>
tracking == <<tracker, txCache, mb, todo, seen>>
past == <<crossed, disabled>>
vars == <<manager, keys, services, callers, reaping, tracking, tx, panicked, past, trouble>>

Services == {"broadcaster", "confirmer", "tracker"}
Unset == {NoAddr}         \* the nil list of enabled addresses
TxStates == {"unstarted", "in_progress", "unconfirmed", "confirmed", "fatal_error", "gone"}
None == [kind |-> "none", arg |-> Unset]

Trouble == trouble < MaxTrouble /\ trouble' = trouble + 1
NoTrouble == UNCHANGED trouble

Init ==
    /\ mgr = "unstarted" /\ chStop = FALSE
    /\ keys \in SUBSET Addrs /\ enabledAddrs = {}
    /\ isStarted = [s \in Services |-> FALSE]
    /\ addrs = [s \in Services |-> Unset]
    /\ loop = "off" /\ stopped = FALSE /\ job = None /\ pending = {}
    /\ caller = "idle" /\ header = "idle" /\ closer = "idle"
    /\ reaper = "off" /\ latestBlockNum = -1
    /\ tracker = "off" /\ txCache = {} /\ mb = FALSE /\ todo = {} /\ seen = {}
    /\ tx = [a \in Addrs |-> "unstarted"]
    /\ panicked = "no" /\ crossed = {} /\ disabled = Addrs \ keys
    /\ trouble = 0

-----------------------------------------------------------------------------
(* The surroundings.                                                       *)

\* The operator enables and disables keys.
ChangeKeys ==
    /\ Trouble
    /\ keys' \in (SUBSET Addrs) \ {keys}
    /\ disabled' = disabled \cup (Addrs \ keys')
    /\ UNCHANGED <<manager, services, callers, reaping, tracking, tx, panicked, crossed>>

\* What the broadcaster makes of a transaction: it claims it, sends it, and
\* later records that it did; one that is in progress may have been sent.
\* What it gives up itself is in TxBroadcaster.
Broadcast ==
    /\ isStarted["broadcaster"]
    /\ \E a \in addrs["broadcaster"] :
         /\ \/ tx[a] = "unstarted" /\ tx' = [tx EXCEPT ![a] = "in_progress"]
            \/ tx[a] = "in_progress" /\ tx' = [tx EXCEPT ![a] = "unconfirmed"]
         /\ crossed' = IF tx[a] = "in_progress" /\ tracker = "handle" /\ a \in txCache
                          THEN crossed \cup {a} ELSE crossed
    /\ UNCHANGED <<manager, keys, services, callers, reaping, tracking, panicked, disabled, trouble>>

\* What the confirmer makes of it, when it is included and when it is
\* reorganised out.  One that is "confirmed" may be finalized.
CheckForConfirmation ==
    /\ isStarted["confirmer"]
    /\ \E a \in addrs["confirmer"] :
         \/ tx[a] = "unconfirmed" /\ tx' = [tx EXCEPT ![a] = "confirmed"]
         \/ tx[a] = "confirmed" /\ tx' = [tx EXCEPT ![a] = "unconfirmed"]
    /\ UNCHANGED <<manager, keys, services, callers, reaping, tracking, panicked, past, trouble>>

-----------------------------------------------------------------------------
(* startInternal and closeInternal of the services.                        *)

\* The enabled addresses are read unless they have been set.
startInternal(s) ==
    /\ isStarted' = [isStarted EXCEPT ![s] = TRUE]
    /\ addrs' = [addrs EXCEPT ![s] = IF @ = Unset THEN keys ELSE @]
    /\ tracker' = IF s = "tracker" THEN "track" ELSE tracker
    /\ UNCHANGED <<txCache, mb, todo, seen>>

\* The service's loop ends, then its addresses are forgotten.  The tracker
\* keeps what is in its cache, unless its time was up: then what it can no
\* longer read is forgotten.
closeInternal(S) ==
    /\ isStarted' = [s \in Services |-> isStarted[s] /\ s \notin S]
    /\ addrs' = [s \in Services |-> IF s \in S /\ isStarted[s] THEN Unset ELSE addrs[s]]
    /\ IF "tracker" \in S
         THEN /\ tracker' = "off" /\ todo' = {} /\ seen' = {} /\ UNCHANGED mb
              /\ txCache' = IF tracker = "ttl" THEN {} ELSE txCache
         ELSE UNCHANGED tracking

-----------------------------------------------------------------------------
(* Start.                                                                  *)

Start ==
    /\ mgr = "unstarted"
    /\ mgr' = "starting"
    /\ UNCHANGED <<chStop, enabledAddrs, loop, stopped, job, pending, keys, services, callers,
                   reaping, tracking, tx, panicked, past, trouble>>

StartOrder == [broadcaster |-> {}, confirmer |-> {"broadcaster"},
               tracker |-> {"broadcaster", "confirmer"}]

\* ms.Start: the services one after the other; when one fails, the attempt
\* builder or the finalizer for one, those that were started are closed.
StartService ==
    /\ mgr = "starting"
    /\ \/ \E s \in Services :
            /\ ~isStarted[s] /\ \A p \in StartOrder[s] : isStarted[p]
            /\ startInternal(s) /\ NoTrouble /\ UNCHANGED mgr
       \/ closeInternal(Services) /\ Trouble /\ mgr' = "start_failed"
    /\ UNCHANGED <<chStop, enabledAddrs, loop, stopped, job, pending, keys, callers, reaping,
                   tx, panicked, past>>

\* The addresses are taken from the tracker, and the loops are started.  The
\* forwarder manager comes last: if it fails to start the services are
\* closed, but the loops run.
StartLoops ==
    /\ mgr = "starting" /\ \A s \in Services : isStarted[s]
    /\ enabledAddrs' = addrs["tracker"]
    /\ loop' = "select" /\ reaper' = "select"
    /\ \/ mgr' = "started" /\ NoTrouble /\ UNCHANGED <<services, tracking>>
       \/ mgr' = "start_failed" /\ Trouble /\ closeInternal(Services)
    /\ UNCHANGED <<chStop, stopped, job, pending, keys, callers, latestBlockNum, tx,
                   panicked, past>>

-----------------------------------------------------------------------------
(* The callers.  IfStarted runs its function under the state machine's     *)
(* read lock, and StopOnce leaves "started" before it takes the lock.      *)

\* Reset(addr, abandon).
Reset ==
    /\ mgr = "started" /\ caller = "idle"
    /\ Trouble
    /\ caller' = "sending"
    /\ UNCHANGED <<manager, keys, services, header, closer, reaping, tracking, tx, panicked, past>>

\* SetLatestBlockNum: the first block wakes the reaper, once and through a
\* channel that holds one element, so that the caller never waits.
SetLatestBlockNum(n) == latestBlockNum' = n

\* A head after the genesis block, whose number the tracker takes for none.
OnNewLongestChain ==
    /\ mgr = "started" /\ header = "idle"
    /\ \E n \in 1..MaxHead : SetLatestBlockNum(n)
    /\ header' = "sending"
    /\ UNCHANGED <<manager, keys, services, caller, closer, reaper, tracking, tx, panicked,
                   past, trouble>>

\* The context of the head runs out before the loop takes it.
TimedOut ==
    /\ header = "sending"
    /\ header' = "idle"
    /\ UNCHANGED <<manager, keys, services, caller, closer, reaping, tracking, tx, panicked, past, trouble>>

\* Close: StopOnce.
Close ==
    /\ mgr = "started"
    /\ mgr' = "stopping" /\ closer' = "lock"
    /\ UNCHANGED <<chStop, enabledAddrs, loop, stopped, job, pending, keys, services, caller,
                   header, reaping, tracking, tx, panicked, past, trouble>>

\* No IfStarted is running: chStop is closed.
StopChannel ==
    /\ closer = "lock" /\ caller = "idle" /\ header = "idle"
    /\ chStop' = TRUE /\ closer' = "reaper"
    /\ UNCHANGED <<mgr, enabledAddrs, loop, stopped, job, pending, keys, services, caller,
                   header, reaping, tracking, tx, panicked, past, trouble>>

\* reaper.Stop: the reaper's own channel is closed, and its loop ends.
StopReaper ==
    /\ closer = "reaper"
    /\ reaper' = "off" /\ closer' = "wait"
    /\ UNCHANGED <<manager, keys, services, caller, header, latestBlockNum, tracking, tx,
                   panicked, past, trouble>>

\* The loop has ended.
Closed ==
    /\ closer = "wait" /\ loop = "off"
    /\ closer' = "done" /\ mgr' = "stopped"
    /\ UNCHANGED <<chStop, enabledAddrs, loop, stopped, job, pending, keys, services, caller,
                   header, reaping, tracking, tx, panicked, past, trouble>>

-----------------------------------------------------------------------------
(* runLoop.                                                                *)

\* A head goes to the tracker's mailbox; the confirmer's and the
\* finalizer's are not modelled here.
DeliverHead ==
    /\ loop = "select" /\ header = "sending"
    /\ header' = "idle" /\ mb' = TRUE
    /\ UNCHANGED <<manager, keys, services, caller, closer, reaping, tracker, txCache, todo, seen,
                   tx, panicked, past, trouble>>

\* execReset begins.
execReset(j) == loop' = "close_broadcaster" /\ job' = j

TakeReset ==
    /\ loop = "select" /\ caller = "sending"
    /\ IF stopped
         THEN caller' = "idle" /\ UNCHANGED <<loop, job>>
         ELSE /\ caller' = "waiting"
              /\ \E a \in Addrs : execReset([kind |-> "abandon", arg |-> {a}])
    /\ UNCHANGED <<mgr, chStop, enabledAddrs, stopped, pending, keys, services, header, closer,
                   reaping, tracking, tx, panicked, past, trouble>>

\* Fault: a poll that comes after a reset that was cut short resets again.
PollEnabledAddressesStopped ==
    /\ loop = "select"
    /\ keys # enabledAddrs
    /\ execReset([kind |-> "keys", arg |-> keys])
    /\ UNCHANGED <<mgr, chStop, enabledAddrs, stopped, pending, keys, services, callers, reaping,
                   tracking, tx, panicked, past, trouble>>

\* pollEnabledAddresses: when the enabled keys are not those the manager
\* started with, the services are reset; enabledAddrs stays as it is.
PollEnabledAddresses ==
    /\ loop = "select" /\ ~stopped
    /\ keys # enabledAddrs
    /\ execReset([kind |-> "keys", arg |-> keys])
    /\ UNCHANGED <<mgr, chStop, enabledAddrs, stopped, pending, keys, services, callers, reaping,
                   tracking, tx, panicked, past, trouble>>

CloseOrder == [close_broadcaster |-> [service |-> "broadcaster", then |-> "close_tracker"],
               close_tracker |-> [service |-> "tracker", then |-> "close_confirmer"],
               close_confirmer |-> [service |-> "confirmer", then |-> "do"]]

\* execReset: each service is closed; one that is not started is a panic.
CloseService ==
    /\ loop \in DOMAIN CloseOrder
    /\ LET s == CloseOrder[loop].service
       IN IF isStarted[s]
            THEN loop' = CloseOrder[loop].then /\ closeInternal({s}) /\ UNCHANGED panicked
            ELSE loop' = "off" /\ panicked' = "reset" /\ UNCHANGED <<services, tracking>>
    /\ UNCHANGED <<mgr, chStop, enabledAddrs, stopped, job, pending, keys, callers, reaping, tx, past,
                   trouble>>

\* An empty list may be a nil one, which to the broadcaster and the confirmer
\* is none at all; the tracker makes a map of it.
setEnabled(A) ==
    \/ addrs' = [s \in Services |-> A]
    \/ A = {} /\ addrs' = [broadcaster |-> Unset, confirmer |-> Unset, tracker |-> A]

\* abandon: what has not been confirmed is marked fatal; the store may fail.
abandon(A) ==
    \/ /\ tx' = [a \in Addrs |-> IF a \in A /\ tx[a] \in {"unstarted", "in_progress", "unconfirmed"}
                                   THEN "fatal_error" ELSE tx[a]]
       /\ NoTrouble
    \/ UNCHANGED tx /\ Trouble

\* Fault: the caller of Reset is told only when the abandoning succeeded.
DoResetUnanswered ==
    /\ loop = "do"
    /\ \/ job.kind = "abandon" /\ abandon(job.arg) /\ UNCHANGED addrs
          /\ caller' = IF trouble' = trouble THEN "idle" ELSE caller
       \/ job.kind = "keys" /\ setEnabled(job.arg) /\ UNCHANGED <<tx, caller>> /\ NoTrouble
    /\ loop' = "start" /\ pending' = Services
    /\ UNCHANGED <<mgr, chStop, enabledAddrs, stopped, job, keys, isStarted, header, closer,
                   reaping, tracking, panicked, past>>

\* execReset calls f: the caller of Reset returns, whatever came of it.
DoReset ==
    /\ loop = "do"
    /\ \/ job.kind = "abandon" /\ abandon(job.arg) /\ caller' = "idle" /\ UNCHANGED addrs
       \/ job.kind = "keys" /\ setEnabled(job.arg) /\ UNCHANGED <<tx, caller>> /\ NoTrouble
    /\ loop' = "start" /\ pending' = Services
    /\ UNCHANGED <<mgr, chStop, enabledAddrs, stopped, job, keys, isStarted, header, closer,
                   reaping, tracking, panicked, past>>

\* Three goroutines start the services, and try again until they do or the
\* manager stops.  A goroutine that finds the manager stopped may still
\* choose the timer.
RestartService ==
    /\ \E s \in pending :
         \/ startInternal(s) /\ NoTrouble /\ pending' = pending \ {s} /\ UNCHANGED stopped
         \/ Trouble /\ UNCHANGED <<services, tracking, pending, stopped>>
         \/ /\ chStop /\ stopped' = TRUE /\ pending' = pending \ {s}
            /\ NoTrouble /\ UNCHANGED <<services, tracking>>
    /\ UNCHANGED <<mgr, chStop, enabledAddrs, loop, job, keys, callers, reaping, tx, panicked, past>>

\* execReset returns.
Restarted ==
    /\ loop = "start" /\ pending = {}
    /\ loop' = "select" /\ job' = None
    /\ UNCHANGED <<mgr, chStop, enabledAddrs, stopped, pending, keys, services, callers, reaping,
                   tracking, tx, panicked, past, trouble>>

\* Fault: the services are closed only if no reset was cut short.
ShutdownUnlessStopped ==
    /\ loop = "select" /\ chStop
    /\ closeInternal(IF stopped THEN {} ELSE Services)
    /\ loop' = "off"
    /\ UNCHANGED <<mgr, chStop, enabledAddrs, stopped, job, pending, keys, callers, reaping, tx,
                   panicked, past, trouble>>

\* chStop: the services that are started are closed and the loop ends.
Shutdown ==
    /\ loop = "select" /\ chStop
    /\ closeInternal(Services)
    /\ loop' = "off"
    /\ UNCHANGED <<mgr, chStop, enabledAddrs, stopped, job, pending, keys, callers, reaping, tx,
                   panicked, past, trouble>>

-----------------------------------------------------------------------------
(* The reaper.                                                             *)

\* Old transactions are deleted.
ReapTxes ==
    \E old \in SUBSET {a \in Addrs : tx[a] \in {"confirmed", "fatal_error"}} :
        tx' = [a \in Addrs |-> IF a \in old THEN "gone" ELSE tx[a]]

\* work: nothing is done before a block is known.
work == latestBlockNum >= 0 /\ ReapTxes

\* The first block, or a tick, which may come as early.
ReaperLoop ==
    /\ reaper = "select"
    /\ work /\ tx' # tx
    /\ UNCHANGED <<manager, keys, services, callers, reaping, tracking, panicked, past, trouble>>

-----------------------------------------------------------------------------
(* The tracker's loop.                                                     *)

\* trackAbandonedTxes: transactions of addresses that are not enabled.  On
\* an error the loop ends.
trackAbandonedTxes ==
    /\ tracker = "track"
    /\ \/ /\ txCache' = txCache \cup {a \in Addrs \ addrs["tracker"] :
                                        tx[a] \notin {"fatal_error", "gone"}}
          /\ todo' = txCache' /\ tracker' = "handle" /\ NoTrouble
       \/ Trouble /\ tracker' = "off" /\ UNCHANGED <<txCache, todo>>
    /\ UNCHANGED <<manager, keys, services, callers, reaping, mb, seen, tx, panicked, past>>

\* GetTxByID of the next transaction, in handleTxesByState or
\* markAllTxesFatal; one that fails is left, or forgotten.
GetTxByID ==
    /\ tracker \in {"handle", "ttl"} /\ seen = {}
    /\ \E a \in todo :
         /\ todo' = todo \ {a}
         /\ \/ seen' = {<<a, tx[a]>>} /\ NoTrouble /\ UNCHANGED txCache
            \/ /\ Trouble /\ UNCHANGED seen
               /\ txCache' = IF tracker = "ttl" THEN txCache \ {a} ELSE txCache
    /\ UNCHANGED <<manager, keys, services, callers, reaping, tracker, mb, tx, panicked, past>>

\* markTxFatal, which may fail.
markTxFatal(a) ==
    \/ tx' = [tx EXCEPT ![a] = IF @ = "gone" THEN @ ELSE "fatal_error"] /\ NoTrouble
    \/ UNCHANGED tx /\ Trouble

\* Fault: a transaction that waits for its confirmation is given up too.
UnsentStatesAndUnconfirmed == {"unstarted", "in_progress", "unconfirmed"}

\* TxInProgress and TxUnstarted: the tracker takes both for never sent.
UnsentStates == {"unstarted", "in_progress"}

\* handleTxesByState: what it takes for never sent is marked fatal, what is
\* fatal or gone is no longer tracked, the others are kept.
handleTxesByState ==
    /\ tracker = "handle"
    /\ \E p \in seen :
         \/ p[2] \in {"gone", "fatal_error"} /\ txCache' = txCache \ {p[1]}
            /\ UNCHANGED tx /\ NoTrouble
         \/ p[2] \in UnsentStates /\ markTxFatal(p[1])
            /\ txCache' = IF trouble' = trouble THEN txCache \ {p[1]} ELSE txCache
         \/ p[2] \in {"unconfirmed", "confirmed"} \ UnsentStates
            /\ UNCHANGED <<tx, txCache>> /\ NoTrouble
    /\ seen' = {}
    /\ UNCHANGED <<manager, keys, services, callers, reaping, tracker, mb, todo, panicked, past>>

\* markAllTxesFatal: whatever its state, and a transaction that is gone is a
\* nil pointer.
markAllTxesFatal ==
    /\ tracker = "ttl"
    /\ \E p \in seen :
         IF p[2] = "gone"
           THEN panicked' = "ttl" /\ tracker' = "off" /\ UNCHANGED <<tx, txCache>> /\ NoTrouble
           ELSE markTxFatal(p[1]) /\ txCache' = txCache \ {p[1]} /\ UNCHANGED <<tracker, panicked>>
    /\ seen' = {}
    /\ UNCHANGED <<manager, keys, services, callers, reaping, mb, todo, past>>

\* The tracker's loop: it ends when nothing is left to track or when going
\* over the cache took too long, and goes over it again with the next head,
\* or when its time is up.
TrackerLoop ==
    /\ \/ /\ tracker = "handle" /\ todo = {} /\ seen = {}
          /\ tracker' = IF txCache = {} THEN "off" ELSE "select"
          /\ UNCHANGED <<mb, todo>> /\ NoTrouble
       \/ /\ tracker = "handle" /\ todo # {} /\ seen = {}
          /\ tracker' = "off" /\ todo' = {} /\ UNCHANGED mb /\ Trouble
       \/ /\ tracker = "select" /\ mb
          /\ tracker' = "handle" /\ todo' = txCache /\ mb' = FALSE /\ NoTrouble
       \/ /\ tracker = "select"
          /\ tracker' = "ttl" /\ todo' = txCache /\ UNCHANGED mb /\ NoTrouble
       \/ /\ tracker = "ttl" /\ todo = {} /\ seen = {}
          /\ tracker' = "off" /\ UNCHANGED <<mb, todo>> /\ NoTrouble
    /\ UNCHANGED <<manager, keys, services, callers, reaping, txCache, seen, tx, panicked, past>>

-----------------------------------------------------------------------------
Starting == StartService \/ StartLoops
Resetting == CloseService \/ DoReset \/ RestartService \/ Restarted
Closing == StopChannel \/ StopReaper \/ Closed

Loop == DeliverHead \/ TakeReset \/ PollEnabledAddresses \/ Resetting \/ Shutdown

Tracker == trackAbandonedTxes \/ GetTxByID \/ handleTxesByState \/ markAllTxesFatal \/ TrackerLoop

Next ==
    /\ panicked = "no"
    /\ \/ ChangeKeys \/ Broadcast \/ CheckForConfirmation
       \/ Start \/ Starting
       \/ Reset \/ OnNewLongestChain \/ TimedOut
       \/ Close \/ Closing
       \/ Loop \/ ReaperLoop \/ Tracker

Spec == Init /\ [][Next]_vars

\* Everything that runs goes on; a select that finds two cases ready again
\* and again chooses each of them in the end, and starting a service
\* succeeds in the end.
FairSpec ==
    /\ Spec
    /\ WF_vars(Starting) /\ WF_vars(Resetting) /\ WF_vars(Closing) /\ WF_vars(TimedOut)
    /\ SF_vars(TakeReset) /\ SF_vars(Shutdown)

-----------------------------------------------------------------------------
(* Properties.                                                             *)

\* Every variable has its type.
TypeOK ==
    /\ mgr \in {"unstarted", "starting", "start_failed", "started", "stopping", "stopped"}
    /\ isStarted \in [Services -> BOOLEAN]
    /\ addrs \in [Services -> (SUBSET Addrs) \cup {Unset}]
    /\ keys \subseteq Addrs /\ enabledAddrs \subseteq Addrs
    /\ pending \subseteq Services
    /\ txCache \subseteq Addrs /\ todo \subseteq txCache
    /\ latestBlockNum \in -1..MaxHead
    /\ tx \in [Addrs -> TxStates]

\* A reset finds the three services started, whatever resets, failing starts
\* and a Close came before: "it should be logically impossible" that it does
\* not (txmgr.go:376), for that is a panic.  It is, except when the forwarder
\* manager failed to start, and the loop runs on without the services
\* (txmgr.go:257).
ResetNeverPanics == panicked = "reset" => mgr = "start_failed"

\* Transactions are abandoned while neither the broadcaster nor the
\* confirmer runs (txmgr.go:292).
AbandonedAlone ==
    loop = "do" => ~isStarted["broadcaster"] /\ ~isStarted["confirmer"]

\* Once Close has returned nothing runs, also when it met a reset that was
\* still starting the services again (txmgr.go:302, :496).
ClosedMeansStopped ==
    mgr = "stopped" => /\ \A s \in Services : ~isStarted[s]
                       /\ loop = "off" /\ reaper = "off" /\ tracker = "off"

\* A reset for changed keys leaves the three services with the same
\* addresses, though the keys may change again while they start
\* (txmgr.go:353, :550); not so if none is enabled and the list is nil, when
\* two of them read the keys again.
ReloadAgrees ==
    loop = "start" /\ job.kind = "keys" /\ job.arg # {} =>
        \A s, t \in Services : isStarted[s] /\ isStarted[t] => addrs[s] = addrs[t]

\* Resets for abandoned addresses, resets for changed keys and a Close take
\* the services through the same steps, none overtaking another.
ResetsInStep == TypeOK /\ ResetNeverPanics /\ AbandonedAlone /\ ReloadAgrees

\* The tracker gives up a transaction that is on record as sent only when its
\* time is up, unless it was recorded while the tracker was going over its
\* cache: each service reads the keys for itself when it starts, and the cache
\* outlives the reset that enables an address again (tracker.go:122, :291,
\* :326).  One that was sent and is not on record, because the broadcaster was
\* closed in between or is not done, it takes for one that was never sent
\* (tracker.go:292); but any that it gives up, in whatever state, is of an
\* address that was disabled at some time.
SentIsKept ==
    [][\A a \in Addrs : tx[a] # "fatal_error" /\ tx'[a] = "fatal_error" /\ loop # "do" =>
         /\ tx[a] \in {"unconfirmed", "confirmed"} => tracker = "ttl" \/ a \in crossed
         /\ a \in disabled]_vars

\* Close and Reset return, though Close waits for a caller of Reset that in
\* turn waits for services that fail to start (txmgr.go:281, :302).
CallsReturn ==
    (mgr = "stopping" \/ caller # "idle")
        ~> (mgr # "stopping" /\ caller = "idle") \/ panicked # "no"

-----------------------------------------------------------------------------
(* What the comments promise and the code does not keep *)

\* "no change" (txmgr.go:546): when the poll finds the addresses it knows,
\* the services have them.
NoChangeMeansCurrent ==
    loop = "select" /\ ~stopped /\ keys = enabledAddrs => \A s \in Services : addrs[s] = keys

\* A transaction that "no longer exists" is removed from the tracker
\* (tracker.go:280).
GoneIsForgotten == panicked # "ttl"
=============================================================================
