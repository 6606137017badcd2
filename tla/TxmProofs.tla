----------------------------- MODULE TxmProofs ------------------------------
(***************************************************************************)
(* The manager's safety properties, for any addresses and any number of    *)
(* resets, key changes and failures: the loop, a reset and a Close take the*)
(* services through the same steps, and the tracker gives up no transaction*)
(* that was sent before it looked.  At the end, what the write target, a   *)
(* caller of the manager, tells monitoring.                                *)
(***************************************************************************)
EXTENDS Txm, WriteTarget, TLAPS

\* The provers in the order in which they are tried: most leaves are first-order.
USE TxmAssumption, ZenonT(5), SMTT(12), Z3T(12), ZenonT(20)

-----------------------------------------------------------------------------
(* The inductive invariant.                                                *)

ResetPlaces == {"close_broadcaster", "close_tracker", "close_confirmer", "do", "start"}

TxmTypes ==
    /\ mgr \in {"unstarted", "starting", "start_failed", "started", "stopping", "stopped"}
    /\ isStarted \in [Services -> BOOLEAN]
    /\ addrs \in [Services -> (SUBSET Addrs) \cup {Unset}]
    /\ keys \subseteq Addrs /\ enabledAddrs \subseteq Addrs
    /\ pending \subseteq Services
    /\ latestBlockNum \in -1..MaxHead
    /\ tx \in [Addrs -> TxStates]

\* Which services are started, as far as the loop and a reset have come.
ServiceInv ==
    /\ loop = "off" /\ mgr # "starting" => \A s \in Services : ~isStarted[s]
    /\ loop \in {"select", "close_broadcaster"} /\ ~stopped /\ mgr # "start_failed" =>
         \A s \in Services : isStarted[s]
    /\ mgr = "start_failed" => /\ \A s \in Services : ~isStarted[s]
                              /\ loop \in {"off", "select", "close_broadcaster"}
    /\ loop \in ResetPlaces \ {"start"} => ~stopped
    /\ loop = "close_tracker" => isStarted["tracker"] /\ isStarted["confirmer"]
    /\ loop \in {"close_tracker", "close_confirmer", "do"} => ~isStarted["broadcaster"]
    /\ loop = "close_confirmer" => isStarted["confirmer"]
    /\ loop \in {"close_confirmer", "do"} => ~isStarted["tracker"]
    /\ loop = "do" => ~isStarted["confirmer"]
    /\ loop # "start" => pending = {}
    /\ \A s \in pending : ~isStarted[s]
    /\ loop = "start" /\ ~stopped => \A s \in Services \ pending : isStarted[s]
    /\ loop \in {"off", "select"} \cup ResetPlaces

\* The addresses of the services that run, and of a reset for changed keys.
AddrInv ==
    /\ \A s \in Services : isStarted[s] => addrs[s] \subseteq Addrs
    /\ loop \in ResetPlaces => job.arg \subseteq Addrs
    /\ loop = "start" /\ job.kind = "keys" /\ job.arg # {} =>
         \A s \in Services : addrs[s] = job.arg

\* An address that a service, or the reset that is to tell it, does not have,
\* and one whose transaction the tracker holds, was disabled at some time.
PastInv ==
    /\ Addrs \ keys \subseteq disabled
    /\ \A s \in Services : addrs[s] # Unset => Addrs \ addrs[s] \subseteq disabled
    /\ loop \in ResetPlaces /\ job.kind = "keys" => Addrs \ job.arg \subseteq disabled
    /\ txCache \subseteq disabled

\* How far Close has come.
CloseInv ==
    /\ mgr \in {"unstarted", "starting"} => loop = "off" /\ reaper = "off"
    /\ mgr \notin {"stopping", "stopped"} => closer = "idle"
    /\ mgr = "stopping" => closer \in {"lock", "reaper", "wait"}
    /\ mgr = "stopped" => closer = "done" /\ loop = "off"
    /\ closer \in {"wait", "done"} => reaper = "off"

\* The tracker, and the transaction it has read.
TrackInv ==
    /\ tracker # "off" => isStarted["tracker"]
    /\ txCache \subseteq Addrs /\ todo \subseteq txCache
    /\ tracker \notin {"handle", "ttl"} => seen = {}
    /\ \A p \in seen : p[1] \in txCache /\ p[1] \notin todo
    /\ \A p \in seen : tracker = "handle" /\ p[2] \in UnsentStates
                          /\ tx[p[1]] \in {"unconfirmed", "confirmed"} => p[1] \in crossed

TxmInv ==
    TxmTypes /\ ServiceInv /\ AddrInv /\ PastInv /\ CloseInv /\ TrackInv /\ ResetNeverPanics

-----------------------------------------------------------------------------
(* What a step that leaves the state alone keeps.                          *)

LEMMA ServiceSame ==
    ASSUME ServiceInv, UNCHANGED <<mgr, loop, stopped, isStarted, pending>>
    PROVE  ServiceInv'
BY DEF ServiceInv

LEMMA AddrSame ==
    ASSUME AddrInv, UNCHANGED <<loop, job, isStarted, addrs>>
    PROVE  AddrInv'
BY DEF AddrInv

LEMMA PastSame ==
    ASSUME PastInv, keys' = keys, disabled' = disabled, txCache' \subseteq txCache,
           \A s \in Services : addrs'[s] \in {addrs[s], keys, Unset},
           loop' \in ResetPlaces => loop \in ResetPlaces /\ job' = job
    PROVE  PastInv'
BY DEF PastInv

LEMMA CloseSame ==
    ASSUME CloseInv, UNCHANGED <<mgr, loop, reaper, closer>>
    PROVE  CloseInv'
BY DEF CloseInv

LEMMA TrackSame ==
    ASSUME TrackInv, UNCHANGED <<tracker, isStarted, txCache, todo, seen, crossed>>,
           \A a \in Addrs : tx'[a] \in {"unconfirmed", "confirmed"} =>
                             tx[a] \in {"unconfirmed", "confirmed"}
    PROVE  TrackInv'
BY DEF TrackInv

\* A service is started: the addresses it has are real ones.
LEMMA Starts ==
    ASSUME TxmTypes, AddrInv, TrackInv, NEW s \in Services, startInternal(s), ~isStarted[s],
           UNCHANGED <<job, keys, tx, crossed>>
    PROVE  /\ isStarted' \in [Services -> BOOLEAN] /\ isStarted'[s]
           /\ \A u \in Services : u # s => isStarted'[u] = isStarted[u]
           /\ addrs' \in [Services -> (SUBSET Addrs) \cup {Unset}]
           /\ addrs'[s] \subseteq Addrs
           /\ \A u \in Services : u # s \/ addrs[u] # Unset => addrs'[u] = addrs[u]
           /\ \A u \in Services : addrs'[u] \in {addrs[u], keys, Unset}
           /\ txCache' = txCache /\ TrackInv'
<1>1. isStarted' \in [Services -> BOOLEAN] /\ isStarted'[s]
      /\ \A u \in Services : u # s => isStarted'[u] = isStarted[u]
  <2>1. isStarted' = [isStarted EXCEPT ![s] = TRUE] /\ isStarted \in [Services -> BOOLEAN]
    BY DEF startInternal, TxmTypes
  <2>2. isStarted' \in [Services -> BOOLEAN]
    BY <2>1
  <2>3. isStarted'[s] = TRUE
    BY <2>1
  <2>4. \A u \in Services : u # s => isStarted'[u] = isStarted[u]
    BY <2>1
  <2> QED
    BY <2>2, <2>3, <2>4
<1>2. addrs' = [addrs EXCEPT ![s] = IF addrs[s] = Unset THEN keys ELSE addrs[s]]
  BY DEF startInternal
<1>3. addrs[s] \subseteq Addrs \/ addrs[s] = Unset
  BY DEF TxmTypes
<1>4. addrs' \in [Services -> (SUBSET Addrs) \cup {Unset}] /\ addrs'[s] \subseteq Addrs
  BY <1>2, <1>3 DEF TxmTypes
<1>5. \A u \in Services : u # s \/ addrs[u] # Unset => addrs'[u] = addrs[u]
  BY <1>2 DEF TxmTypes
<1>7. \A u \in Services : addrs'[u] \in {addrs[u], keys, Unset}
  BY <1>2 DEF TxmTypes
<1>8. txCache' = txCache
  BY DEF startInternal
<1>6. TrackInv'
  <2>1. UNCHANGED <<txCache, todo, seen, tx, crossed>>
    BY DEF startInternal
  <2>2. CASE s = "tracker"
    <3>1. tracker' = "track" /\ isStarted'["tracker"]
      BY <1>1, <2>2 DEF startInternal
    <3>2. seen = {}
      BY <2>2 DEF TrackInv
    <3> QED
      BY <2>1, <3>1, <3>2 DEF TrackInv
  <2>3. CASE s # "tracker"
    <3>1. tracker' = tracker /\ (isStarted'["tracker"] = isStarted["tracker"])
      BY <1>1, <2>3 DEF startInternal, Services
    <3> QED
      BY <2>1, <3>1 DEF TrackInv
  <2> QED
    BY <2>2, <2>3
<1> QED
  BY <1>1, <1>4, <1>5, <1>6, <1>7, <1>8

\* Services are closed: those that ran are without addresses.
LEMMA Closes ==
    ASSUME TxmTypes, AddrInv, TrackInv, NEW S \in SUBSET Services, closeInternal(S),
           UNCHANGED <<tx, crossed>>
    PROVE  /\ isStarted' \in [Services -> BOOLEAN]
           /\ \A u \in Services : isStarted'[u] <=> isStarted[u] /\ u \notin S
           /\ addrs' \in [Services -> (SUBSET Addrs) \cup {Unset}]
           /\ \A u \in Services : isStarted'[u] => addrs'[u] \subseteq Addrs
           /\ \A u \in Services : addrs'[u] \in {addrs[u], keys, Unset}
           /\ txCache' \subseteq txCache /\ TrackInv'
<1>1. isStarted' = [s \in Services |-> isStarted[s] /\ s \notin S]
  BY DEF closeInternal
<1>2. isStarted' \in [Services -> BOOLEAN]
      /\ \A u \in Services : isStarted'[u] <=> isStarted[u] /\ u \notin S
  <2>1. \A u \in Services : isStarted[u] \in BOOLEAN
    BY DEF TxmTypes
  <2>2. \A u \in Services : isStarted'[u] = (isStarted[u] /\ u \notin S)
    BY <1>1
  <2>3. isStarted' \in [Services -> BOOLEAN]
    BY <1>1
  <2> QED
    BY <2>1, <2>2, <2>3
<1>3. addrs' = [s \in Services |-> IF s \in S /\ isStarted[s] THEN Unset ELSE addrs[s]]
  BY DEF closeInternal
<1>4. addrs' \in [Services -> (SUBSET Addrs) \cup {Unset}]
  BY <1>3 DEF TxmTypes
<1>5. \A u \in Services : isStarted'[u] => addrs'[u] \subseteq Addrs
  BY <1>2, <1>3 DEF AddrInv
<1>7. \A u \in Services : addrs'[u] \in {addrs[u], keys, Unset}
  BY <1>3
<1>8. txCache' \subseteq txCache
  BY DEF closeInternal, tracking
<1>6. TrackInv'
  <2>1. CASE "tracker" \in S
    <3>1. tracker' = "off" /\ todo' = {} /\ seen' = {} /\ txCache' \subseteq txCache
      BY <2>1 DEF closeInternal
    <3> QED
      BY <3>1 DEF TrackInv
  <2>2. CASE "tracker" \notin S
    <3>1. UNCHANGED <<tracker, txCache, todo, seen>>
      BY <2>2 DEF closeInternal, tracking
    <3>2. isStarted'["tracker"] <=> isStarted["tracker"]
      BY <1>2, <2>2 DEF Services
    <3> QED
      BY <3>1, <3>2 DEF TrackInv
  <2> QED
    BY <2>1, <2>2
<1> QED
  BY <1>2, <1>4, <1>5, <1>6, <1>7, <1>8

-----------------------------------------------------------------------------
(* Each action keeps the invariant.                                        *)

LEMMA TxmInitInv ==
    ASSUME Init
    PROVE  TxmInv
<1>1. TxmTypes
  <2>1. -1 \in -1..MaxHead
    BY DEF TxmAssumption
  <2>2. isStarted \in [Services -> BOOLEAN]
    BY DEF Init
  <2>4. addrs \in [Services -> (SUBSET Addrs) \cup {Unset}]
    BY DEF Init
  <2>3. tx \in [Addrs -> TxStates]
    BY DEF Init, TxStates
  <2> QED
    BY <2>1, <2>2, <2>3, <2>4 DEF Init, TxmTypes
<1>2. ServiceInv
  BY DEF Init, ServiceInv, ResetPlaces
<1>3. AddrInv /\ CloseInv
  BY DEF Init, AddrInv, CloseInv, ResetPlaces
<1>4. TrackInv /\ ResetNeverPanics
  BY DEF Init, TrackInv, ResetNeverPanics
<1>5. PastInv
  BY DEF Init, PastInv, ResetPlaces
<1> QED
  BY <1>1, <1>2, <1>3, <1>4, <1>5 DEF TxmInv

\* The key store, the callers and the heads.
LEMMA OutsideStep ==
    ASSUME TxmInv, ChangeKeys \/ Reset \/ OnNewLongestChain \/ TimedOut \/ DeliverHead
    PROVE  TxmInv'
<1>1. /\ UNCHANGED <<mgr, enabledAddrs, loop, stopped, job, pending, isStarted, addrs, closer, reaper,
                     tracker, txCache, todo, seen, tx, panicked, crossed>>
      /\ keys' \subseteq Addrs
  BY DEF TxmInv, TxmTypes, ChangeKeys, Reset, OnNewLongestChain, TimedOut, DeliverHead,
         manager, services, callers, reaping, tracking, past
<1>2. latestBlockNum' \in -1..MaxHead
  <2>1. CASE OnNewLongestChain
    BY <2>1 DEF TxmAssumption, OnNewLongestChain, SetLatestBlockNum
  <2>2. CASE ~OnNewLongestChain
    BY <2>2 DEF TxmInv, TxmTypes, ChangeKeys, Reset, TimedOut, DeliverHead, reaping
  <2> QED
    BY <2>1, <2>2
<1>3. TxmTypes'
  BY <1>1, <1>2 DEF TxmInv, TxmTypes
<1>4. ServiceInv'
  BY <1>1, ServiceSame DEF TxmInv
<1>5. AddrInv' /\ CloseInv' /\ TrackInv'
  BY <1>1, AddrSame, CloseSame, TrackSame DEF TxmInv
<1>6. PastInv'
  <2>1. CASE ChangeKeys
    <3>1. disabled' = disabled \cup (Addrs \ keys')
      BY <2>1 DEF ChangeKeys
    <3> QED
      BY <1>1, <3>1 DEF TxmInv, PastInv
  <2>2. CASE ~ChangeKeys
    <3>1. UNCHANGED <<keys, disabled>>
      BY <2>2 DEF Reset, OnNewLongestChain, TimedOut, DeliverHead, past
    <3> QED
      BY <1>1, <3>1, PastSame DEF TxmInv
  <2> QED
    BY <2>1, <2>2
<1> QED
  BY <1>1, <1>3, <1>4, <1>5, <1>6 DEF TxmInv, ResetNeverPanics

\* The broadcaster and the confirmer move a transaction, which the tracker may
\* have read.
LEMMA AdvanceStep ==
    ASSUME TxmInv, Broadcast \/ CheckForConfirmation
    PROVE  TxmInv'
<1>1. UNCHANGED <<mgr, keys, enabledAddrs, loop, stopped, job, pending, isStarted, addrs, closer,
                  reaper, latestBlockNum, tracker, txCache, todo, seen, panicked, disabled>>
  BY DEF Broadcast, CheckForConfirmation, manager, services, callers, reaping, tracking, past
<1>2. PICK a \in Addrs :
        \/ /\ tx[a] = "unstarted" /\ tx' = [tx EXCEPT ![a] = "in_progress"]
           /\ crossed' = crossed
        \/ /\ tx[a] = "in_progress" /\ tx' = [tx EXCEPT ![a] = "unconfirmed"]
           /\ crossed' = IF tracker = "handle" /\ a \in txCache THEN crossed \cup {a} ELSE crossed
        \/ /\ tx[a] \in {"unconfirmed", "confirmed"}
           /\ \E v \in {"unconfirmed", "confirmed"} : tx' = [tx EXCEPT ![a] = v]
           /\ crossed' = crossed
  <2>1. CASE Broadcast
    <3>1. addrs["broadcaster"] \subseteq Addrs
      BY <2>1 DEF Broadcast, TxmInv, AddrInv, Services
    <3> QED
      BY <2>1, <3>1 DEF Broadcast
  <2>2. CASE CheckForConfirmation
    <3>1. addrs["confirmer"] \subseteq Addrs /\ crossed' = crossed
      BY <2>2 DEF CheckForConfirmation, past, TxmInv, AddrInv, Services
    <3> QED
      BY <2>2, <3>1 DEF CheckForConfirmation
  <2> QED
    BY <2>1, <2>2
<1>3. \A u \in Addrs : u # a => tx'[u] = tx[u]
  BY <1>2 DEF TxmInv, TxmTypes
<1>4. tx' \in [Addrs -> TxStates]
  BY <1>2 DEF TxmInv, TxmTypes, TxStates
<1>5. TxmTypes'
  BY <1>1, <1>4 DEF TxmInv, TxmTypes
<1>6. ServiceInv'
  BY <1>1, ServiceSame DEF TxmInv
<1>8. AddrInv' /\ CloseInv'
  BY <1>1, AddrSame, CloseSame DEF TxmInv
<1>9. PastInv'
  BY <1>1, PastSame DEF TxmInv
<1>7. TrackInv'
  <2>1. crossed \subseteq crossed'
    BY <1>2
  <2>2. tracker = "handle" /\ a \in txCache /\ tx'[a] \in {"unconfirmed", "confirmed"} =>
           tx[a] \in {"unconfirmed", "confirmed"} \/ a \in crossed'
    BY <1>2 DEF TxmInv, TxmTypes
  <2>3. \A p \in seen : /\ p[1] \in Addrs /\ p[1] \in txCache
                        /\ tracker = "handle" /\ p[2] \in UnsentStates
                           /\ tx[p[1]] \in {"unconfirmed", "confirmed"} => p[1] \in crossed
    BY DEF TxmInv, TrackInv
  <2>4. \A p \in seen : tracker = "handle" /\ p[2] \in UnsentStates
                           /\ tx'[p[1]] \in {"unconfirmed", "confirmed"} => p[1] \in crossed'
    BY <1>3, <2>1, <2>2, <2>3
  <2> QED
    BY <1>1, <2>4 DEF TxmInv, TrackInv
<1> QED
  BY <1>1, <1>5, <1>6, <1>7, <1>8, <1>9 DEF TxmInv, ResetNeverPanics

\* Start, and the services that come with it.
LEMMA StartStep ==
    ASSUME TxmInv, Start \/ StartService \/ StartLoops
    PROVE  TxmInv'
<1>1. UNCHANGED <<stopped, job, pending, keys, closer, latestBlockNum, tx, panicked, crossed,
                  disabled>>
  BY DEF Start, StartService, StartLoops, callers, reaping, past
<1>2. mgr \in {"unstarted", "starting"} /\ loop = "off" /\ reaper = "off" /\ pending = {}
      /\ closer = "idle" /\ panicked # "reset"
  BY DEF Start, StartService, StartLoops, TxmInv, CloseInv, ServiceInv, ResetNeverPanics
<1>3. CASE Start
  <2>1. /\ mgr' = "starting"
        /\ UNCHANGED <<enabledAddrs, loop, isStarted, addrs, reaper, tracker, txCache, todo, seen>>
    BY <1>3 DEF Start, services, reaping, tracking
  <2>2. TxmTypes'
    BY <1>1, <2>1 DEF TxmInv, TxmTypes
  <2>3. ServiceInv'
    BY <1>1, <1>2, <2>1 DEF TxmInv, ServiceInv, ResetPlaces
  <2>4. CloseInv'
    BY <1>1, <1>2, <2>1 DEF TxmInv, CloseInv
  <2>5. AddrInv' /\ PastInv' /\ TrackInv'
    BY <1>1, <2>1, AddrSame, PastSame, TrackSame DEF TxmInv
  <2> QED
    BY <1>1, <1>2, <2>2, <2>3, <2>4, <2>5 DEF TxmInv, ResetNeverPanics
<1>4. CASE StartService
  <2>1. UNCHANGED <<enabledAddrs, loop, reaper>> /\ mgr = "starting"
    BY <1>4 DEF StartService, reaping
  <2>2. CASE \E s \in Services : ~isStarted[s] /\ startInternal(s) /\ UNCHANGED mgr
    <3>1. PICK s \in Services : ~isStarted[s] /\ startInternal(s) /\ mgr' = mgr
      BY <2>2
    <3>2. /\ isStarted' \in [Services -> BOOLEAN] /\ isStarted'[s]
          /\ \A u \in Services : u # s => isStarted'[u] = isStarted[u]
          /\ addrs' \in [Services -> (SUBSET Addrs) \cup {Unset}]
          /\ addrs'[s] \subseteq Addrs
          /\ \A u \in Services : u # s => addrs'[u] = addrs[u]
          /\ \A u \in Services : addrs'[u] \in {addrs[u], keys, Unset}
          /\ txCache' = txCache /\ TrackInv'
      BY <1>1, <3>1, Starts DEF TxmInv
    <3>3. TxmTypes'
      BY <1>1, <2>1, <3>1, <3>2 DEF TxmInv, TxmTypes
    <3>4. ServiceInv'
      BY <1>1, <1>2, <2>1, <3>1 DEF TxmInv, ServiceInv, ResetPlaces
    <3>5. AddrInv'
      BY <1>2, <2>1, <3>2 DEF TxmInv, AddrInv, ResetPlaces
    <3>6. CloseInv'
      BY <1>1, <2>1, <3>1, CloseSame DEF TxmInv
    <3>7. PastInv'
      BY <1>1, <2>1, <3>2, PastSame DEF TxmInv
    <3> QED
      BY <1>1, <1>2, <3>2, <3>3, <3>4, <3>5, <3>6, <3>7 DEF TxmInv, ResetNeverPanics
  <2>3. CASE closeInternal(Services) /\ mgr' = "start_failed"
    <3>1. /\ isStarted' \in [Services -> BOOLEAN]
          /\ \A u \in Services : ~isStarted'[u]
          /\ addrs' \in [Services -> (SUBSET Addrs) \cup {Unset}]
          /\ \A u \in Services : addrs'[u] \in {addrs[u], keys, Unset}
          /\ txCache' \subseteq txCache /\ TrackInv'
      BY <1>1, <2>3, Closes DEF TxmInv
    <3>2. TxmTypes'
      BY <1>1, <2>1, <2>3, <3>1 DEF TxmInv, TxmTypes
    <3>3. ServiceInv'
      BY <1>1, <1>2, <2>1, <3>1 DEF ServiceInv, ResetPlaces
    <3>4. AddrInv'
      BY <1>2, <2>1, <3>1 DEF AddrInv, ResetPlaces
    <3>5. CloseInv'
      BY <1>1, <1>2, <2>1, <2>3 DEF CloseInv
    <3>6. PastInv'
      BY <1>1, <2>1, <3>1, PastSame DEF TxmInv
    <3> QED
      BY <1>1, <1>2, <3>1, <3>2, <3>3, <3>4, <3>5, <3>6 DEF TxmInv, ResetNeverPanics
  <2> QED
    BY <1>4, <2>2, <2>3 DEF StartService
<1>5. CASE StartLoops
  <2>1. /\ mgr = "starting" /\ mgr' \in {"started", "start_failed"} /\ loop' = "select"
        /\ \A s \in Services : isStarted[s]
        /\ enabledAddrs' = addrs["tracker"]
        /\ \/ mgr' = "started" /\ UNCHANGED <<isStarted, addrs, tracker, txCache, todo, seen>>
           \/ mgr' = "start_failed" /\ closeInternal(Services)
    BY <1>5 DEF StartLoops, services, tracking
  <2>2. addrs["tracker"] \subseteq Addrs
    BY <2>1 DEF TxmInv, AddrInv, Services
  <2>3. CloseInv'
    BY <1>1, <1>2, <2>1 DEF CloseInv
  <2>4. CASE mgr' = "started" /\ UNCHANGED <<isStarted, addrs, tracker, txCache, todo, seen>>
    <3>1. TxmTypes'
      BY <1>1, <2>1, <2>2, <2>4 DEF TxmInv, TxmTypes
    <3>2. ServiceInv'
      BY <1>1, <1>2, <2>1, <2>4 DEF ServiceInv, ResetPlaces
    <3>3. AddrInv' /\ PastInv'
      BY <1>1, <2>1, <2>4, PastSame DEF TxmInv, AddrInv, ResetPlaces
    <3>4. TrackInv'
      BY <1>1, <2>4, TrackSame DEF TxmInv
    <3> QED
      BY <1>1, <1>2, <2>3, <3>1, <3>2, <3>3, <3>4 DEF TxmInv, ResetNeverPanics
  <2>5. CASE mgr' = "start_failed" /\ closeInternal(Services)
    <3>1. /\ isStarted' \in [Services -> BOOLEAN]
          /\ \A u \in Services : ~isStarted'[u]
          /\ addrs' \in [Services -> (SUBSET Addrs) \cup {Unset}]
          /\ \A u \in Services : addrs'[u] \in {addrs[u], keys, Unset}
          /\ txCache' \subseteq txCache /\ TrackInv'
      BY <1>1, <2>5, Closes DEF TxmInv
    <3>2. TxmTypes'
      BY <1>1, <2>1, <2>2, <3>1 DEF TxmInv, TxmTypes
    <3>3. ServiceInv'
      BY <1>1, <1>2, <2>1, <2>5, <3>1 DEF ServiceInv, ResetPlaces
    <3>4. AddrInv' /\ PastInv'
      BY <1>1, <2>1, <3>1, PastSame DEF TxmInv, AddrInv, ResetPlaces
    <3> QED
      BY <1>1, <1>2, <2>3, <3>1, <3>2, <3>3, <3>4 DEF TxmInv, ResetNeverPanics
  <2> QED
    BY <2>1, <2>4, <2>5
<1> QED
  BY <1>3, <1>4, <1>5

\* Close, as far as its caller goes.
LEMMA CloseStep ==
    ASSUME TxmInv, Close \/ StopChannel \/ StopReaper \/ Closed
    PROVE  TxmInv'
<1>1. UNCHANGED <<keys, enabledAddrs, loop, stopped, job, pending, isStarted, addrs,
                  latestBlockNum, tracker, txCache, todo, seen, tx, panicked, crossed, disabled>>
  BY DEF Close, StopChannel, StopReaper, Closed, manager, services, reaping, tracking, past
<1>2. mgr' \in {"unstarted", "starting", "start_failed", "started", "stopping", "stopped"}
      /\ (mgr' = "starting" <=> mgr = "starting")
      /\ (mgr' = "start_failed" <=> mgr = "start_failed")
  BY DEF TxmInv, TxmTypes, CloseInv, Close, StopChannel, StopReaper, Closed, manager
<1>3. TxmTypes'
  BY <1>1, <1>2 DEF TxmInv, TxmTypes
<1>4. ServiceInv'
  BY <1>1, <1>2 DEF TxmInv, ServiceInv
<1>5. AddrInv' /\ PastInv' /\ TrackInv'
  BY <1>1, AddrSame, PastSame, TrackSame DEF TxmInv
<1>6. CloseInv'
  BY <1>1 DEF TxmInv, TxmTypes, CloseInv, Close, StopChannel, StopReaper, Closed, manager, reaping
<1> QED
  BY <1>1, <1>2, <1>3, <1>4, <1>5, <1>6 DEF TxmInv, ResetNeverPanics

\* A reset begins only while no earlier one was cut short.
LEMMA BeginStep ==
    ASSUME TxmInv, TakeReset \/ PollEnabledAddresses
    PROVE  TxmInv'
<1>1. /\ loop = "select"
      /\ UNCHANGED <<mgr, keys, enabledAddrs, stopped, pending, isStarted, addrs, closer, reaper,
                     latestBlockNum, tracker, txCache, todo, seen, tx, panicked, crossed, disabled>>
  BY DEF TakeReset, PollEnabledAddresses, services, callers, reaping, tracking, past
<1>2. \/ UNCHANGED <<loop, job>>
      \/ /\ ~stopped /\ loop' = "close_broadcaster" /\ job'.arg \subseteq Addrs
         /\ job'.kind = "keys" => job'.arg = keys
  <2>1. CASE TakeReset
    BY <2>1 DEF TakeReset, execReset
  <2>2. CASE PollEnabledAddresses
    BY <2>2 DEF PollEnabledAddresses, execReset, TxmInv, TxmTypes
  <2> QED
    BY <2>1, <2>2
<1>3. TxmTypes'
  BY <1>1 DEF TxmInv, TxmTypes
<1>4. TrackInv'
  BY <1>1, TrackSame DEF TxmInv
<1>5. ServiceInv' /\ AddrInv' /\ PastInv' /\ CloseInv'
  <2>1. CASE UNCHANGED <<loop, job>>
    <3>1. ServiceInv'
      BY <1>1, <2>1, ServiceSame DEF TxmInv
    <3>2. AddrInv' /\ PastInv' /\ CloseInv'
      BY <1>1, <2>1, AddrSame, PastSame, CloseSame DEF TxmInv
    <3> QED
      BY <3>1, <3>2
  <2>2. CASE /\ ~stopped /\ loop' = "close_broadcaster" /\ job'.arg \subseteq Addrs
             /\ job'.kind = "keys" => job'.arg = keys
    <3>1. ServiceInv'
      BY <1>1, <2>2 DEF TxmInv, ServiceInv, ResetPlaces
    <3>2. AddrInv'
      BY <1>1, <2>2 DEF TxmInv, AddrInv
    <3>3. CloseInv'
      BY <1>1 DEF TxmInv, CloseInv
    <3>4. PastInv'
      BY <1>1, <2>2 DEF TxmInv, PastInv
    <3> QED
      BY <3>1, <3>2, <3>3, <3>4
  <2> QED
    BY <1>2, <2>1, <2>2
<1> QED
  BY <1>1, <1>3, <1>4, <1>5 DEF TxmInv, ResetNeverPanics

\* The reset closes a service, and finds it started, unless the manager never
\* got as far.
LEMMA CloseServiceStep ==
    ASSUME TxmInv, CloseService
    PROVE  TxmInv'
<1>1. /\ loop \in {"close_broadcaster", "close_tracker", "close_confirmer"}
      /\ UNCHANGED <<mgr, keys, enabledAddrs, stopped, job, pending, closer, reaper,
                     latestBlockNum, tx, crossed, disabled>>
  BY DEF CloseService, CloseOrder, callers, reaping, past
<1> DEFINE s == CloseOrder[loop].service
<1>2. /\ s \in Services
      /\ loop = "close_broadcaster" => s = "broadcaster" /\ CloseOrder[loop].then = "close_tracker"
      /\ loop = "close_tracker" => s = "tracker" /\ CloseOrder[loop].then = "close_confirmer"
      /\ loop = "close_confirmer" => s = "confirmer" /\ CloseOrder[loop].then = "do"
  BY <1>1 DEF CloseOrder, Services
<1>3. ~stopped /\ pending = {}
  BY <1>1 DEF TxmInv, ServiceInv, ResetPlaces
<1>12. CASE mgr = "start_failed"
  <2>1. \A u \in Services : ~isStarted[u]
    BY <1>12 DEF TxmInv, ServiceInv
  <2>2. loop' = "off" /\ UNCHANGED <<isStarted, addrs, tracker, txCache, todo, seen>>
    BY <1>2, <2>1 DEF CloseService, services, tracking
  <2>3. TxmTypes'
    BY <1>1, <2>2 DEF TxmInv, TxmTypes
  <2>4. ServiceInv'
    BY <1>1, <1>3, <1>12, <2>1, <2>2 DEF ServiceInv, ResetPlaces
  <2>5. AddrInv' /\ PastInv'
    BY <1>1, <2>2, PastSame DEF TxmInv, AddrInv, ResetPlaces
  <2>6. CloseInv' /\ TrackInv'
    BY <1>1, <1>12, <2>2, TrackSame DEF TxmInv, CloseInv
  <2> QED
    BY <1>1, <1>12, <2>3, <2>4, <2>5, <2>6 DEF TxmInv, ResetNeverPanics
<1> SUFFICES ASSUME mgr # "start_failed" PROVE TxmInv'
  BY <1>12
<1>4. isStarted[s]
  BY <1>1, <1>2, <1>3 DEF TxmInv, ServiceInv, Services
<1>5. loop' = CloseOrder[loop].then /\ closeInternal({s}) /\ UNCHANGED panicked
  BY <1>4 DEF CloseService
<1> HIDE DEF s
<1>6. /\ isStarted' \in [Services -> BOOLEAN]
      /\ \A u \in Services : isStarted'[u] <=> isStarted[u] /\ u # s
      /\ addrs' \in [Services -> (SUBSET Addrs) \cup {Unset}]
      /\ \A u \in Services : isStarted'[u] => addrs'[u] \subseteq Addrs
      /\ \A u \in Services : addrs'[u] \in {addrs[u], keys, Unset}
      /\ txCache' \subseteq txCache /\ TrackInv'
  <2>1. {s} \in SUBSET Services
    BY <1>2
  <2>2. /\ isStarted' \in [Services -> BOOLEAN]
        /\ \A u \in Services : isStarted'[u] <=> isStarted[u] /\ u \notin {s}
        /\ addrs' \in [Services -> (SUBSET Addrs) \cup {Unset}]
        /\ \A u \in Services : isStarted'[u] => addrs'[u] \subseteq Addrs
        /\ \A u \in Services : addrs'[u] \in {addrs[u], keys, Unset}
        /\ txCache' \subseteq txCache /\ TrackInv'
    BY <1>1, <1>5, <2>1, Closes DEF TxmInv
  <2> QED
    BY <2>2
<1>7. loop' \in {"close_tracker", "close_confirmer", "do"}
  BY <1>1, <1>2, <1>5
<1>8. TxmTypes'
  BY <1>1, <1>6 DEF TxmInv, TxmTypes
<1>9. ServiceInv'
  <2>1. CASE loop = "close_broadcaster"
    <3>1. loop' = "close_tracker" /\ s = "broadcaster"
      BY <1>2, <1>5, <2>1
    <3>2. isStarted["tracker"] /\ isStarted["confirmer"]
      BY <1>3, <2>1 DEF TxmInv, ServiceInv, Services
    <3>3. ~isStarted'["broadcaster"] /\ isStarted'["tracker"] /\ isStarted'["confirmer"]
      BY <1>6, <3>1, <3>2 DEF Services
    <3> QED
      BY <1>1, <1>3, <3>1, <3>3 DEF ServiceInv, ResetPlaces
  <2>2. CASE loop = "close_tracker"
    <3>1. loop' = "close_confirmer" /\ s = "tracker"
      BY <1>2, <1>5, <2>2
    <3>2. ~isStarted["broadcaster"] /\ isStarted["confirmer"]
      BY <2>2 DEF TxmInv, ServiceInv
    <3>3. ~isStarted'["broadcaster"] /\ ~isStarted'["tracker"] /\ isStarted'["confirmer"]
      BY <1>6, <3>1, <3>2 DEF Services
    <3> QED
      BY <1>1, <1>3, <3>1, <3>3 DEF ServiceInv, ResetPlaces
  <2>3. CASE loop = "close_confirmer"
    <3>1. loop' = "do" /\ s = "confirmer"
      BY <1>2, <1>5, <2>3
    <3>2. ~isStarted["broadcaster"] /\ ~isStarted["tracker"]
      BY <2>3 DEF TxmInv, ServiceInv
    <3>3. ~isStarted'["broadcaster"] /\ ~isStarted'["tracker"] /\ ~isStarted'["confirmer"]
      BY <1>6, <3>1, <3>2 DEF Services
    <3> QED
      BY <1>1, <1>3, <3>1, <3>3 DEF ServiceInv, ResetPlaces
  <2> QED
    BY <1>1, <2>1, <2>2, <2>3
<1>10. AddrInv' /\ PastInv'
  <2>1. loop \in ResetPlaces /\ loop' # "start"
    BY <1>1, <1>7 DEF ResetPlaces
  <2>2. AddrInv'
    BY <1>1, <1>6, <2>1 DEF TxmInv, AddrInv
  <2> QED
    BY <1>1, <1>6, <2>1, <2>2, PastSame DEF TxmInv
<1>11. CloseInv'
  BY <1>1, <1>7 DEF TxmInv, CloseInv
<1> QED
  BY <1>1, <1>5, <1>6, <1>8, <1>9, <1>10, <1>11 DEF TxmInv, ResetNeverPanics

\* The reset does its work, while nothing runs.
LEMMA DoResetStep ==
    ASSUME TxmInv, DoReset
    PROVE  TxmInv'
<1>1. /\ loop = "do" /\ loop' = "start" /\ pending' = Services
      /\ UNCHANGED <<mgr, keys, enabledAddrs, stopped, job, isStarted, closer, reaper,
                     latestBlockNum, tracker, txCache, todo, seen, panicked, crossed, disabled>>
      /\ mgr # "start_failed"
  BY DEF DoReset, reaping, tracking, past, TxmInv, ServiceInv
<1>2. /\ tx' \in [Addrs -> TxStates]
      /\ \A a \in Addrs : tx'[a] \in {"unconfirmed", "confirmed"} =>
                            tx[a] \in {"unconfirmed", "confirmed"}
  <2>1. CASE UNCHANGED tx
    BY <2>1 DEF TxmInv, TxmTypes
  <2>2. CASE tx' = [a \in Addrs |->
                      IF a \in job.arg /\ tx[a] \in {"unstarted", "in_progress", "unconfirmed"}
                        THEN "fatal_error" ELSE tx[a]]
    BY <2>2 DEF TxmInv, TxmTypes, TxStates
  <2> QED
    BY <2>1, <2>2 DEF DoReset, abandon
<1>3. job.arg \subseteq Addrs /\ \A s \in Services : ~isStarted[s]
  BY <1>1 DEF TxmInv, ServiceInv, AddrInv, ResetPlaces, Services
<1>4. \/ UNCHANGED addrs /\ job.kind = "abandon"
      \/ addrs' = [s \in Services |-> job.arg] /\ job.kind = "keys"
      \/ /\ job.arg = {} /\ job.kind = "keys"
         /\ addrs' = [broadcaster |-> Unset, confirmer |-> Unset, tracker |-> job.arg]
  BY DEF DoReset, setEnabled
<1>5. /\ addrs' \in [Services -> (SUBSET Addrs) \cup {Unset}]
      /\ job.kind = "keys" /\ job.arg # {} => \A s \in Services : addrs'[s] = job.arg
      /\ \A s \in Services : \/ addrs'[s] \in {addrs[s], Unset}
                             \/ addrs'[s] = job.arg /\ job.kind = "keys"
  <2>1. CASE UNCHANGED addrs /\ job.kind = "abandon"
    BY <2>1 DEF TxmInv, TxmTypes
  <2>2. CASE addrs' = [s \in Services |-> job.arg] /\ job.kind = "keys"
    BY <1>3, <2>2
  <2>3. CASE /\ job.arg = {} /\ job.kind = "keys"
             /\ addrs' = [broadcaster |-> Unset, confirmer |-> Unset, tracker |-> job.arg]
    BY <1>3, <2>3 DEF Services
  <2> QED
    BY <1>4, <2>1, <2>2, <2>3
<1>6. TxmTypes'
  BY <1>1, <1>2, <1>5 DEF TxmInv, TxmTypes
<1>7. ServiceInv'
  BY <1>1, <1>3 DEF TxmInv, ServiceInv, ResetPlaces
<1>8. AddrInv'
  BY <1>1, <1>3, <1>5 DEF TxmInv, AddrInv
<1>9. CloseInv'
  BY <1>1 DEF TxmInv, CloseInv
<1>10. TrackInv'
  BY <1>1, <1>2, TrackSame DEF TxmInv
<1>11. PastInv'
  <2>1. job.kind = "keys" => Addrs \ job.arg \subseteq disabled
    BY <1>1 DEF TxmInv, PastInv, ResetPlaces
  <2> QED
    BY <1>1, <1>5, <2>1 DEF TxmInv, PastInv
<1> QED
  BY <1>1, <1>6, <1>7, <1>8, <1>9, <1>10, <1>11 DEF TxmInv, ResetNeverPanics

\* A service starts again, fails to, or is given up as the manager stops.
LEMMA RestartServiceStep ==
    ASSUME TxmInv, RestartService
    PROVE  TxmInv'
<1>1. UNCHANGED <<mgr, keys, enabledAddrs, loop, job, closer, reaper, latestBlockNum, tx, panicked,
                  crossed, disabled>>
  BY DEF RestartService, callers, reaping, past
<1>2. PICK s \in pending :
        \/ startInternal(s) /\ pending' = pending \ {s} /\ stopped' = stopped
        \/ UNCHANGED <<services, tracking, pending, stopped>>
        \/ stopped' = TRUE /\ pending' = pending \ {s} /\ UNCHANGED <<services, tracking>>
  BY DEF RestartService
<1>3. s \in Services /\ loop = "start" /\ ~isStarted[s] /\ mgr # "start_failed"
  BY DEF TxmInv, TxmTypes, ServiceInv
<1>4. CloseInv'
  BY <1>1, CloseSame DEF TxmInv
<1>5. CASE startInternal(s) /\ pending' = pending \ {s} /\ stopped' = stopped
  <2>1. /\ isStarted' \in [Services -> BOOLEAN] /\ isStarted'[s]
        /\ \A u \in Services : u # s => isStarted'[u] = isStarted[u]
        /\ addrs' \in [Services -> (SUBSET Addrs) \cup {Unset}]
        /\ addrs'[s] \subseteq Addrs
        /\ \A u \in Services : u # s \/ addrs[u] # Unset => addrs'[u] = addrs[u]
        /\ \A u \in Services : addrs'[u] \in {addrs[u], keys, Unset}
        /\ txCache' = txCache /\ TrackInv'
    BY <1>1, <1>3, <1>5, Starts DEF TxmInv
  <2>2. TxmTypes'
    BY <1>1, <1>5, <2>1 DEF TxmInv, TxmTypes
  <2>3. ServiceInv'
    <3>1. \A u \in pending' : ~isStarted'[u]
      BY <1>5, <2>1 DEF TxmInv, TxmTypes, ServiceInv
    <3>2. ~stopped => \A u \in Services \ pending' : isStarted'[u]
      BY <1>3, <1>5, <2>1 DEF TxmInv, ServiceInv
    <3> QED
      BY <1>1, <1>3, <1>5, <3>1, <3>2 DEF ServiceInv, ResetPlaces
  <2>4. AddrInv'
    <3>1. \A u \in Services : isStarted'[u] => addrs'[u] \subseteq Addrs
      BY <2>1 DEF TxmInv, AddrInv
    <3>2. job.kind = "keys" /\ job.arg # {} => \A u \in Services : addrs'[u] = job.arg
      <4>1. /\ job.arg \subseteq Addrs
            /\ job.kind = "keys" /\ job.arg # {} => \A u \in Services : addrs[u] = job.arg
        BY <1>3 DEF TxmInv, AddrInv, ResetPlaces
      <4>2. job.arg # Unset
        BY <4>1 DEF TxmAssumption, Unset
      <4> QED
        BY <2>1, <4>1, <4>2
    <3> QED
      BY <1>1, <1>3, <3>1, <3>2 DEF TxmInv, AddrInv
  <2>5. PastInv'
    BY <1>1, <2>1, PastSame DEF TxmInv
  <2> QED
    BY <1>1, <1>4, <2>1, <2>2, <2>3, <2>4, <2>5 DEF TxmInv, ResetNeverPanics
<1>6. CASE UNCHANGED <<services, tracking, pending, stopped>>
  <2>1. UNCHANGED <<isStarted, addrs, tracker, txCache, todo, seen, pending, stopped>>
    BY <1>6 DEF services, tracking
  <2>2. TxmTypes'
    BY <1>1, <2>1 DEF TxmInv, TxmTypes
  <2>3. ServiceInv'
    BY <1>1, <2>1, ServiceSame DEF TxmInv
  <2>4. AddrInv' /\ PastInv' /\ TrackInv'
    BY <1>1, <2>1, AddrSame, PastSame, TrackSame DEF TxmInv
  <2> QED
    BY <1>1, <1>4, <2>2, <2>3, <2>4 DEF TxmInv, ResetNeverPanics
<1>7. CASE stopped' = TRUE /\ pending' = pending \ {s} /\ UNCHANGED <<services, tracking>>
  <2>1. UNCHANGED <<isStarted, addrs, tracker, txCache, todo, seen>>
    BY <1>7 DEF services, tracking
  <2>2. TxmTypes'
    BY <1>1, <1>7, <2>1 DEF TxmInv, TxmTypes
  <2>3. ServiceInv'
    BY <1>1, <1>3, <1>7, <2>1 DEF TxmInv, ServiceInv, ResetPlaces
  <2>4. AddrInv' /\ PastInv' /\ TrackInv'
    BY <1>1, <2>1, AddrSame, PastSame, TrackSame DEF TxmInv
  <2> QED
    BY <1>1, <1>4, <2>2, <2>3, <2>4 DEF TxmInv, ResetNeverPanics
<1> QED
  BY <1>2, <1>5, <1>6, <1>7

\* The reset returns to the loop, or the loop ends and closes what runs.
LEMMA LoopStep ==
    ASSUME TxmInv, Restarted \/ Shutdown
    PROVE  TxmInv'
<1>1. UNCHANGED <<mgr, keys, enabledAddrs, stopped, pending, closer, reaper, latestBlockNum, tx,
                  panicked, crossed, disabled>>
  BY DEF Restarted, Shutdown, callers, reaping, past
<1>2. CASE Restarted
  <2>1. /\ loop = "start" /\ pending = {} /\ loop' = "select"
        /\ UNCHANGED <<isStarted, addrs, tracker, txCache, todo, seen>>
    BY <1>2 DEF Restarted, services, tracking
  <2>2. TxmTypes'
    BY <1>1, <2>1 DEF TxmInv, TxmTypes
  <2>3. ServiceInv'
    BY <1>1, <2>1 DEF TxmInv, ServiceInv, ResetPlaces
  <2>4. AddrInv' /\ PastInv'
    BY <1>1, <2>1, PastSame DEF TxmInv, AddrInv, ResetPlaces
  <2>5. CloseInv'
    BY <1>1, <2>1 DEF TxmInv, CloseInv
  <2>6. TrackInv'
    BY <1>1, <2>1, TrackSame DEF TxmInv
  <2> QED
    BY <1>1, <2>2, <2>3, <2>4, <2>5, <2>6 DEF TxmInv, ResetNeverPanics
<1>3. CASE Shutdown
  <2>1. loop = "select" /\ loop' = "off" /\ closeInternal(Services)
    BY <1>3 DEF Shutdown
  <2>2. /\ isStarted' \in [Services -> BOOLEAN]
        /\ \A u \in Services : ~isStarted'[u]
        /\ addrs' \in [Services -> (SUBSET Addrs) \cup {Unset}]
        /\ \A u \in Services : addrs'[u] \in {addrs[u], keys, Unset}
        /\ txCache' \subseteq txCache /\ TrackInv'
    BY <1>1, <2>1, Closes DEF TxmInv
  <2>3. TxmTypes'
    BY <1>1, <2>2 DEF TxmInv, TxmTypes
  <2>4. ServiceInv'
    <3>1. pending = {}
      BY <2>1 DEF TxmInv, ServiceInv
    <3> QED
      BY <1>1, <2>1, <2>2, <3>1 DEF ServiceInv, ResetPlaces
  <2>5. AddrInv' /\ PastInv'
    BY <1>1, <2>1, <2>2, PastSame DEF TxmInv, AddrInv, ResetPlaces
  <2>6. CloseInv'
    BY <1>1, <2>1 DEF TxmInv, CloseInv
  <2> QED
    BY <1>1, <2>2, <2>3, <2>4, <2>5, <2>6 DEF TxmInv, ResetNeverPanics
<1> QED
  BY <1>2, <1>3

\* The reaper deletes transactions.
LEMMA ReaperStep ==
    ASSUME TxmInv, ReaperLoop
    PROVE  TxmInv'
<1>1. UNCHANGED <<mgr, keys, enabledAddrs, loop, stopped, job, pending, isStarted, addrs, closer,
                  reaper, latestBlockNum, tracker, txCache, todo, seen, panicked, crossed, disabled>>
  BY DEF ReaperLoop, manager, services, callers, reaping, tracking, past
<1>2. /\ tx' \in [Addrs -> TxStates]
      /\ \A a \in Addrs : tx'[a] \in {"unconfirmed", "confirmed"} =>
                            tx[a] \in {"unconfirmed", "confirmed"}
  <2>1. PICK old \in SUBSET {a \in Addrs : tx[a] \in {"confirmed", "fatal_error"}} :
          tx' = [a \in Addrs |-> IF a \in old THEN "gone" ELSE tx[a]]
    BY DEF ReaperLoop, work, ReapTxes
  <2> QED
    BY <2>1 DEF TxmInv, TxmTypes, TxStates
<1>3. TxmTypes'
  BY <1>1, <1>2 DEF TxmInv, TxmTypes
<1>4. ServiceInv' /\ AddrInv' /\ CloseInv'
  BY <1>1, ServiceSame, AddrSame, CloseSame DEF TxmInv
<1>5. PastInv' /\ TrackInv'
  BY <1>1, <1>2, PastSame, TrackSame DEF TxmInv
<1> QED
  BY <1>1, <1>3, <1>4, <1>5 DEF TxmInv, ResetNeverPanics

\* The tracker's loop.
LEMMA TrackerStep ==
    ASSUME TxmInv, Tracker
    PROVE  TxmInv'
<1>1. /\ UNCHANGED <<mgr, keys, enabledAddrs, loop, stopped, job, pending, isStarted, addrs, closer,
                     reaper, latestBlockNum, crossed, disabled>>
      /\ panicked' \in {panicked, "ttl"}
  BY DEF Tracker, trackAbandonedTxes, GetTxByID, handleTxesByState, markAllTxesFatal, TrackerLoop,
         manager, services, callers, reaping, past
<1>2. tx' = tx \/ \E p \in seen :
                     tx' = [tx EXCEPT ![p[1]] = IF @ = "gone" THEN @ ELSE "fatal_error"]
  BY DEF Tracker, trackAbandonedTxes, GetTxByID, handleTxesByState, markAllTxesFatal, TrackerLoop,
         markTxFatal
<1>3. /\ tx' \in [Addrs -> TxStates]
      /\ \A a \in Addrs : tx'[a] \in {"unconfirmed", "confirmed"} =>
                            tx[a] \in {"unconfirmed", "confirmed"}
  <2>1. CASE tx' = tx
    BY <2>1 DEF TxmInv, TxmTypes
  <2>2. ASSUME NEW p \in seen,
               tx' = [tx EXCEPT ![p[1]] = IF @ = "gone" THEN @ ELSE "fatal_error"]
        PROVE  /\ tx' \in [Addrs -> TxStates]
               /\ \A a \in Addrs : tx'[a] \in {"unconfirmed", "confirmed"} =>
                                     tx[a] \in {"unconfirmed", "confirmed"}
    BY <2>2 DEF TxmInv, TxmTypes, TxStates
  <2> QED
    BY <1>2, <2>1, <2>2
<1>4. TxmTypes'
  BY <1>1, <1>3 DEF TxmInv, TxmTypes
<1>5. ServiceInv' /\ AddrInv' /\ CloseInv'
  BY <1>1, ServiceSame, AddrSame, CloseSame DEF TxmInv
<1>6. TrackInv'
  <2> USE DEF TxmInv, TrackInv
  <2>1. CASE trackAbandonedTxes
    BY <1>1, <2>1 DEF trackAbandonedTxes
  <2>2. CASE GetTxByID
    <3>1. /\ tracker \in {"handle", "ttl"} /\ seen = {} /\ UNCHANGED <<tracker, tx>>
          /\ \E a \in todo :
               /\ todo' = todo \ {a}
               /\ \/ seen' = {<<a, tx[a]>>} /\ UNCHANGED txCache
                  \/ seen' = {} /\ txCache' \in {txCache, txCache \ {a}}
      BY <2>2 DEF GetTxByID
    <3>2. PICK a \in todo :
               /\ todo' = todo \ {a}
               /\ \/ seen' = {<<a, tx[a]>>} /\ UNCHANGED txCache
                  \/ seen' = {} /\ txCache' \in {txCache, txCache \ {a}}
      BY <3>1
    <3>3. CASE seen' = {}
      BY <1>1, <3>1, <3>2, <3>3
    <3>4. CASE seen' = {<<a, tx[a]>>} /\ UNCHANGED txCache
      BY <1>1, <3>1, <3>2, <3>4 DEF UnsentStates
    <3> QED
      BY <3>2, <3>3, <3>4
  <2>3. CASE handleTxesByState
    <3>1. /\ tracker = "handle" /\ seen' = {} /\ UNCHANGED <<tracker, todo>>
          /\ \E p \in seen : txCache' \in {txCache, txCache \ {p[1]}}
      BY <2>3 DEF handleTxesByState
    <3> QED
      BY <1>1, <3>1
  <2>4. CASE markAllTxesFatal
    <3>1. /\ tracker = "ttl" /\ seen' = {} /\ UNCHANGED todo /\ tracker' \in {tracker, "off"}
          /\ \E p \in seen : txCache' \in {txCache, txCache \ {p[1]}}
      BY <2>4 DEF markAllTxesFatal
    <3> QED
      BY <1>1, <3>1
  <2>5. CASE TrackerLoop
    <3>1. /\ tracker # "off" /\ seen = {} /\ UNCHANGED <<txCache, seen>>
          /\ todo' = todo \/ todo' = {} \/ todo' = txCache
      BY <2>5 DEF TrackerLoop
    <3> QED
      BY <1>1, <3>1
  <2> QED
    BY <2>1, <2>2, <2>3, <2>4, <2>5 DEF Tracker
<1>7. PastInv'
  <2>1. CASE trackAbandonedTxes
    <3>1. addrs["tracker"] \subseteq Addrs
      BY <2>1 DEF trackAbandonedTxes, TxmInv, TrackInv, AddrInv, Services
    <3>2. addrs["tracker"] # Unset
      BY <3>1 DEF TxmAssumption, Unset
    <3>3. Addrs \ addrs["tracker"] \subseteq disabled
      BY <3>2 DEF TxmInv, PastInv, Services
    <3>4. txCache' \subseteq txCache \cup (Addrs \ addrs["tracker"])
      BY <2>1 DEF trackAbandonedTxes
    <3> QED
      BY <1>1, <3>3, <3>4 DEF TxmInv, PastInv
  <2>2. CASE ~trackAbandonedTxes
    <3>1. txCache' \subseteq txCache
      BY <2>2 DEF Tracker, GetTxByID, handleTxesByState, markAllTxesFatal, TrackerLoop
    <3> QED
      BY <1>1, <3>1, PastSame DEF TxmInv
  <2> QED
    BY <2>1, <2>2
<1> QED
  BY <1>1, <1>4, <1>5, <1>6, <1>7 DEF TxmInv, ResetNeverPanics

LEMMA TxmNextInv ==
    ASSUME TxmInv, [Next]_vars
    PROVE  TxmInv'
<1>1. CASE UNCHANGED vars
  <2>1. UNCHANGED <<mgr, keys, enabledAddrs, loop, stopped, job, pending, isStarted, addrs, closer,
                    reaper, latestBlockNum, tracker, txCache, todo, seen, tx, panicked, crossed,
                    disabled>>
    BY <1>1 DEF vars, manager, services, callers, reaping, tracking, past
  <2>2. TxmTypes'
    BY <2>1 DEF TxmInv, TxmTypes
  <2>3. ServiceInv' /\ AddrInv' /\ CloseInv'
    BY <2>1, ServiceSame, AddrSame, CloseSame DEF TxmInv
  <2>4. PastInv' /\ TrackInv'
    BY <2>1, PastSame, TrackSame DEF TxmInv
  <2> QED
    BY <2>1, <2>2, <2>3, <2>4 DEF TxmInv, ResetNeverPanics
<1>2. CASE Next
  BY <1>2, OutsideStep, AdvanceStep, StartStep, CloseStep, BeginStep, CloseServiceStep, DoResetStep,
     RestartServiceStep, LoopStep, ReaperStep, TrackerStep
     DEF Next, Starting, Closing, Loop, Resetting
<1> QED
  BY <1>1, <1>2

\* The manager's invariant holds in every reachable state (txmgr.go:255).
THEOREM TxmInductive == Spec => []TxmInv
<1>1. Init => TxmInv
  BY TxmInitInv
<1>2. TxmInv /\ [Next]_vars => TxmInv'
  BY TxmNextInv
<1> QED
  BY <1>1, <1>2, PTL DEF Spec

\* Resets for abandoned addresses, resets for changed keys and a Close take
\* the services through the same steps, except after a start that the
\* forwarder manager failed (txmgr.go:257, :292, :376, :550).
THEOREM ResetsInStepAlways == Spec => []ResetsInStep
<1>1. TxmInv => ResetsInStep
  <2> SUFFICES ASSUME TxmInv PROVE ResetsInStep
    OBVIOUS
  <2>1. TypeOK
    BY DEF TxmInv, TxmTypes, TrackInv, TypeOK
  <2>2. AbandonedAlone
    BY DEF TxmInv, ServiceInv, AbandonedAlone
  <2>3. ReloadAgrees
    BY DEF TxmInv, AddrInv, ReloadAgrees
  <2> QED
    BY <2>1, <2>2, <2>3 DEF TxmInv, ResetsInStep
<1> QED
  BY <1>1, TxmInductive, PTL

\* Once Close has returned nothing runs, also when it met a reset that was
\* still starting the services again (txmgr.go:302, :496).
THEOREM ClosedMeansStoppedAlways == Spec => []ClosedMeansStopped
<1>1. TxmInv => ClosedMeansStopped
  <2> SUFFICES ASSUME TxmInv, mgr = "stopped" PROVE ClosedMeansStopped
    BY DEF ClosedMeansStopped
  <2>1. loop = "off" /\ reaper = "off"
    BY DEF TxmInv, CloseInv
  <2>2. \A s \in Services : ~isStarted[s]
    BY <2>1 DEF TxmInv, ServiceInv
  <2>3. tracker = "off"
    BY <2>2 DEF TxmInv, TrackInv, Services
  <2> QED
    BY <2>1, <2>2, <2>3 DEF ClosedMeansStopped
<1> QED
  BY <1>1, TxmInductive, PTL

\* The tracker gives up a transaction that is on record as sent only when its
\* time is up, or when it was recorded while the tracker went over its cache,
\* and none but of an address that was disabled at some time
\* (tracker.go:122, :291, :326).
THEOREM SentIsKeptAlways == Spec => SentIsKept
<1> DEFINE Keeps == \A a \in Addrs : tx[a] # "fatal_error" /\ tx'[a] = "fatal_error" /\ loop # "do" =>
                       /\ tx[a] \in {"unconfirmed", "confirmed"} => tracker = "ttl" \/ a \in crossed
                       /\ a \in disabled
<1>1. TxmInv /\ [Next]_vars => [Keeps]_vars
  <2> SUFFICES ASSUME TxmInv, Next, NEW a \in Addrs, tx[a] # "fatal_error",
                      tx'[a] = "fatal_error", loop # "do"
               PROVE  /\ tx[a] \in {"unconfirmed", "confirmed"} => tracker = "ttl" \/ a \in crossed
                      /\ a \in disabled
    OBVIOUS
  <2>1. tx' # tx
    BY DEF TxmInv, TxmTypes
  <2>2. ~Broadcast /\ ~CheckForConfirmation
    <3> SUFFICES ASSUME Broadcast \/ CheckForConfirmation PROVE FALSE
      OBVIOUS
    <3>1. PICK b, v : v # "fatal_error" /\ tx' = [tx EXCEPT ![b] = v]
      BY DEF Broadcast, CheckForConfirmation
    <3> QED
      BY <3>1 DEF TxmInv, TxmTypes
  <2>3. ~ReaperLoop
    <3> SUFFICES ASSUME ReapTxes PROVE FALSE
      BY DEF ReaperLoop, work
    <3>1. PICK old : tx' = [b \in Addrs |-> IF b \in old THEN "gone" ELSE tx[b]]
      BY DEF ReapTxes
    <3> QED
      BY <3>1
  <2>4. ~Loop
    BY <2>1 DEF Loop, Resetting, DeliverHead, TakeReset, PollEnabledAddresses, CloseService, DoReset,
                RestartService, Restarted, Shutdown
  <2>5. Tracker
    BY <2>1, <2>2, <2>3, <2>4 DEF Next, Starting, Closing, ChangeKeys, Start, StartService, StartLoops,
       Reset, OnNewLongestChain, TimedOut, Close, StopChannel, StopReaper, Closed
  <2>6. PICK p \in seen : markTxFatal(p[1]) /\ (tracker = "ttl" \/ p[2] \in UnsentStates)
    BY <2>1, <2>5 DEF Tracker, trackAbandonedTxes, GetTxByID, handleTxesByState, markAllTxesFatal,
                      TrackerLoop
  <2>7. tx' = [tx EXCEPT ![p[1]] = IF @ = "gone" THEN @ ELSE "fatal_error"]
    BY <2>1, <2>6 DEF markTxFatal
  <2>8. a = p[1]
    BY <2>7 DEF TxmInv, TxmTypes
  <2>9. a \in disabled
    BY <2>8 DEF TxmInv, TrackInv, PastInv
  <2>10. tracker \in {"handle", "ttl"}
    BY DEF TxmInv, TrackInv
  <2> QED
    BY <2>6, <2>8, <2>9, <2>10 DEF TxmInv, TrackInv
<1> QED
  BY <1>1, TxmInductive, PTL DEF Spec, SentIsKept

-----------------------------------------------------------------------------
(***************************************************************************)
(* The write target (WriteTarget), for any number of nodes that            *)
(* execute the same request.  The argument: where a node's Execute is says *)
(* what it has told monitoring or tried to, and a report that is on chain  *)
(* stays there.                                                            *)
(***************************************************************************)

\* No outcome among the messages, and one that has been told last or was lost.
Quiet(m) == \A i \in DOMAIN m : m[i] \notin Outcomes
Tells(m, l, o) ==
    \/ Quiet(m) /\ l \cap Outcomes = {o}
    \/ /\ Len(m) > 0 /\ m[Len(m)] = o /\ l \cap Outcomes = {}
       /\ \A i \in DOMAIN m : i # Len(m) => m[i] \notin Outcomes

\* What a node has told monitoring, and returned, where its Execute is.
Told(n) ==
    /\ pc[n] # "done" => result[n] = "none"
    /\ pc[n] \notin {"fee", "done"} => Quiet(msgs[n]) /\ lost[n] \cap Outcomes = {}
    /\ pc[n] = "fee" => Tells(msgs[n], lost[n], "Confirmed") /\ report # "NotAttempted"
    /\ pc[n] = "done" =>
         \/ Tells(msgs[n], lost[n], "Error") /\ result[n] = "error"
         \/ Tells(msgs[n], lost[n], "Skipped") /\ result[n] = "ok" /\ kind[n] = "empty"
         \/ Tells(msgs[n], lost[n], "Confirmed") /\ result[n] = "ok" /\ report # "NotAttempted"
    /\ Tried(n, "Sent") => \/ pc[n] \in {"wait", "confirm", "fee"}
                           \/ pc[n] = "done" /\ (result[n] = "error" => timeout[n] # "none")

Places == {"start", "report", "head", "query", "transmit", "wait", "confirm", "fee", "done"}

WriteTypes ==
    /\ kind \in [Nodes -> Kinds]
    /\ report \in {"NotAttempted", "Succeeded", "Failed", "Fatal"}
    /\ status \in [Nodes -> {"unknown", "pending", "unconfirmed", "finalized", "failed", "fatal"}]
    /\ pc \in [Nodes -> Places]
    /\ accepted \in [Nodes -> BOOLEAN]
    /\ timeout \in [Nodes -> {"none", "acceptance", "request"}]
    /\ msgs \in [Nodes -> Seq(Messages)]
    /\ lost \in [Nodes -> SUBSET Messages]
    /\ result \in [Nodes -> {"none", "ok", "error"}]

WriteInv == WriteTypes /\ \A n \in Nodes : Told(n)

-----------------------------------------------------------------------------
LEMMA WriteInitInv == WriteInit => WriteInv
<1> SUFFICES ASSUME WriteInit PROVE WriteInv
  OBVIOUS
<1>1. WriteTypes
  BY DEF WriteInit, WriteTypes, Places
<1>2. \A n \in Nodes : msgs[n] = <<>> /\ lost[n] = {} /\ pc[n] = "start" /\ result[n] = "none"
  BY DEF WriteInit
<1>3. \A n \in Nodes : Told(n)
  BY <1>2 DEF Told, Quiet, Tried, Emitted
<1> QED
  BY <1>1, <1>3 DEF WriteInv

\* What a node has told stays true when the chain or another node moves.
LEMMA ToldSame ==
    ASSUME NEW n \in Nodes, Told(n),
           kind'[n] = kind[n], pc'[n] = pc[n], msgs'[n] = msgs[n], lost'[n] = lost[n],
           result'[n] = result[n],
           report # "NotAttempted" => report' # "NotAttempted",
           timeout[n] # "none" => timeout'[n] # "none"
    PROVE  Told(n)'
BY DEF Told, Tried, Emitted

\* A message is added to those a node has told.
LEMMA Appends ==
    ASSUME NEW s \in Seq(Messages), NEW x \in Messages
    PROVE  /\ Append(s, x) \in Seq(Messages)
           /\ Quiet(s) /\ x \notin Outcomes => Quiet(Append(s, x))
           /\ Quiet(s) /\ x \in Outcomes => Tells(Append(s, x), {}, x)
           /\ \A y : (\E i \in DOMAIN Append(s, x) : Append(s, x)[i] = y) =>
                       y = x \/ \E i \in DOMAIN s : s[i] = y
<1> DEFINE t == Append(s, x)
<1>1. /\ t \in Seq(Messages) /\ Len(t) = Len(s) + 1 /\ Len(s) \in Nat
      /\ DOMAIN t = 1..Len(t) /\ DOMAIN s = 1..Len(s)
      /\ t[Len(t)] = x /\ \A i \in 1..Len(s) : t[i] = s[i]
  OBVIOUS
<1> HIDE DEF t
<1>2. \A i \in DOMAIN t : i = Len(t) \/ (i \in DOMAIN s /\ t[i] = s[i])
  BY <1>1
<1>3. Quiet(s) /\ x \notin Outcomes => Quiet(t)
  BY <1>1, <1>2 DEF Quiet
<1>4. Quiet(s) /\ x \in Outcomes => Tells(t, {}, x)
  <2>1. Len(t) > 0
    BY <1>1
  <2> QED
    BY <1>1, <1>2, <2>1 DEF Quiet, Tells
<1>5. \A y : (\E i \in DOMAIN t : t[i] = y) => y = x \/ \E i \in DOMAIN s : s[i] = y
  BY <1>1, <1>2
<1> QED
  BY <1>1, <1>3, <1>4, <1>5 DEF t

\* A node that has told no outcome tells one, or something else.
LEMMA Emits ==
    ASSUME WriteTypes, NEW n \in Nodes, NEW x \in Messages, Emit(n, x),
           Quiet(msgs[n]), lost[n] \cap Outcomes = {}
    PROVE  /\ msgs' \in [Nodes -> Seq(Messages)] /\ lost' \in [Nodes -> SUBSET Messages]
           /\ \A k \in Nodes \ {n} : msgs'[k] = msgs[k] /\ lost'[k] = lost[k]
           /\ x \in Outcomes => Tells(msgs'[n], lost'[n], x)
           /\ x \notin Outcomes => Quiet(msgs'[n]) /\ lost'[n] \cap Outcomes = {}
           /\ Tried(n, "Sent")' => Tried(n, "Sent") \/ x = "Sent"
<1>1. CASE msgs' = [msgs EXCEPT ![n] = Append(msgs[n], x)] /\ UNCHANGED lost
  <2>1. msgs[n] \in Seq(Messages)
    BY DEF WriteTypes
  <2>2. /\ Append(msgs[n], x) \in Seq(Messages)
        /\ x \notin Outcomes => Quiet(Append(msgs[n], x))
        /\ x \in Outcomes => Tells(Append(msgs[n], x), {}, x)
        /\ \A y : (\E i \in DOMAIN Append(msgs[n], x) : Append(msgs[n], x)[i] = y) =>
                    y = x \/ \E i \in DOMAIN msgs[n] : msgs[n][i] = y
    BY <2>1, Appends
  <2>3. msgs'[n] = Append(msgs[n], x) /\ \A k \in Nodes \ {n} : msgs'[k] = msgs[k]
    BY <1>1 DEF WriteTypes
  <2>4. msgs' \in [Nodes -> Seq(Messages)]
    BY <1>1, <2>2 DEF WriteTypes
  <2>5. x \in Outcomes => Tells(msgs'[n], lost'[n], x)
    BY <1>1, <2>2, <2>3 DEF Tells
  <2>6. Tried(n, "Sent")' => Tried(n, "Sent") \/ x = "Sent"
    BY <1>1, <2>2, <2>3 DEF Tried, Emitted
  <2> QED
    BY <1>1, <2>2, <2>3, <2>4, <2>5, <2>6 DEF WriteTypes
<1>2. CASE lost' = [lost EXCEPT ![n] = lost[n] \cup {x}] /\ UNCHANGED msgs
  <2>1. lost'[n] = lost[n] \cup {x} /\ \A k \in Nodes \ {n} : lost'[k] = lost[k]
    BY <1>2 DEF WriteTypes
  <2>2. lost' \in [Nodes -> SUBSET Messages]
    BY <1>2 DEF WriteTypes
  <2>3. x \in Outcomes => Tells(msgs'[n], lost'[n], x)
    <3>1. x \in Outcomes => lost'[n] \cap Outcomes = {x}
      BY <2>1
    <3> QED
      BY <1>2, <3>1 DEF Tells
  <2>4. Tried(n, "Sent")' => Tried(n, "Sent") \/ x = "Sent"
    BY <1>2, <2>1 DEF Tried, Emitted
  <2>5. x \notin Outcomes => Quiet(msgs'[n]) /\ lost'[n] \cap Outcomes = {}
    BY <1>2, <2>1
  <2> QED
    BY <1>2, <2>1, <2>2, <2>3, <2>4, <2>5 DEF WriteTypes
<1> QED
  BY <1>1, <1>2 DEF Emit

\* The chain and the clock leave what a node has told alone.
LEMMA WriteChainStep ==
    ASSUME WriteInv, NEW n \in Nodes, Include(n) \/ Settle(n) \/ Expire(n)
    PROVE  WriteInv'
<1>1. UNCHANGED <<kind, pc, accepted, msgs, lost, result>>
  BY DEF Include, Settle, Expire, execution
<1>2. /\ report' \in {"NotAttempted", "Succeeded", "Failed", "Fatal"}
      /\ report # "NotAttempted" => report' # "NotAttempted"
  BY DEF Include, Settle, Expire, chain, WriteInv, WriteTypes
<1>3. status' = status \/ \E v \in {"unconfirmed", "failed", "finalized", "fatal"} :
                             status' = [status EXCEPT ![n] = v]
  BY DEF Include, Settle, Expire, chain
<1>4. timeout' = timeout \/ \E v \in {"acceptance", "request"} : timeout' = [timeout EXCEPT ![n] = v]
  BY DEF Include, Settle, Expire
<1>5. WriteTypes'
  <2>1. status' \in [Nodes -> {"unknown", "pending", "unconfirmed", "finalized", "failed", "fatal"}]
    BY <1>3 DEF WriteInv, WriteTypes
  <2>2. timeout' \in [Nodes -> {"none", "acceptance", "request"}]
    BY <1>4 DEF WriteInv, WriteTypes
  <2> QED
    BY <1>1, <1>2, <2>1, <2>2 DEF WriteInv, WriteTypes
<1>6. \A k \in Nodes : timeout[k] # "none" => timeout'[k] # "none"
  BY <1>4 DEF WriteInv, WriteTypes
<1> QED
  BY <1>1, <1>2, <1>5, <1>6, ToldSame DEF WriteInv

\* A node's Execute goes on, tells what it did and returns: it is enough that
\* what it has told then fits where it is.
LEMMA OwnStep ==
    ASSUME WriteInv, NEW n \in Nodes, NEW p \in Places, NEW r \in {"none", "ok", "error"},
           Goto(n, p), result' = [result EXCEPT ![n] = r],
           UNCHANGED <<kind, report, timeout>>,
           status' \in {status, [status EXCEPT ![n] = "pending"]},
           accepted' \in [Nodes -> BOOLEAN],
           msgs' \in [Nodes -> Seq(Messages)], lost' \in [Nodes -> SUBSET Messages],
           \A k \in Nodes \ {n} : msgs'[k] = msgs[k] /\ lost'[k] = lost[k],
           pc'[n] = p /\ result'[n] = r => Told(n)'
    PROVE  WriteInv'
<1>1. WriteTypes'
  BY DEF WriteInv, WriteTypes, Goto
<1>2. pc'[n] = p /\ result'[n] = r
  BY DEF WriteInv, WriteTypes, Goto
<1>3. \A k \in Nodes \ {n} : pc'[k] = pc[k] /\ result'[k] = result[k]
  BY DEF WriteInv, WriteTypes, Goto
<1>4. \A k \in Nodes \ {n} : Told(k)'
  BY <1>3, ToldSame DEF WriteInv
<1> QED
  BY <1>1, <1>2, <1>4 DEF WriteInv

\* An error is emitted and returned, where only a timeout leads after the
\* report was sent.
LEMMA ErrorStep ==
    ASSUME WriteInv, NEW n \in Nodes, asEmittedError(n), pc[n] \notin {"fee", "done"},
           UNCHANGED <<kind, report, status, timeout, accepted>>,
           pc[n] \in {"wait", "confirm"} => timeout[n] # "none"
    PROVE  WriteInv'
<1>1. WriteTypes /\ Told(n)
  BY DEF WriteInv
<1>2. Quiet(msgs[n]) /\ lost[n] \cap Outcomes = {}
  BY <1>1 DEF Told
<1>3. /\ msgs' \in [Nodes -> Seq(Messages)] /\ lost' \in [Nodes -> SUBSET Messages]
      /\ \A k \in Nodes \ {n} : msgs'[k] = msgs[k] /\ lost'[k] = lost[k]
      /\ Tells(msgs'[n], lost'[n], "Error")
      /\ Tried(n, "Sent")' => Tried(n, "Sent")
  BY <1>1, <1>2, Emits DEF asEmittedError, Messages, Outcomes
<1>4. Tried(n, "Sent")' => timeout'[n] # "none"
  BY <1>1, <1>3 DEF Told
<1>5. Goto(n, "done") /\ result' = [result EXCEPT ![n] = "error"]
  BY DEF asEmittedError, Return
<1>6. pc'[n] = "done" /\ result'[n] = "error" => Told(n)'
  BY <1>3, <1>4 DEF Told
<1>7. accepted' \in [Nodes -> BOOLEAN]
  BY <1>1 DEF WriteTypes
<1> QED
  BY <1>3, <1>5, <1>6, <1>7, OwnStep DEF Places

\* Something is emitted, or nothing, and Execute goes on or succeeds.
LEMMA GoesOnStep ==
    ASSUME WriteInv, NEW n \in Nodes, NEW p \in Places, NEW r \in {"none", "ok"},
           NEW x \in {"none", "Initiated", "Sent", "Skipped", "Confirmed"},
           IF x = "none" THEN Silent ELSE Emit(n, x),
           Goto(n, p), result' = [result EXCEPT ![n] = r],
           pc[n] \notin {"fee", "done"},
           UNCHANGED <<kind, report, timeout>>,
           status' \in {status, [status EXCEPT ![n] = "pending"]},
           accepted' \in [Nodes -> BOOLEAN],
           (pc[n] \in {"wait", "confirm"} \/ x = "Sent") => p \in {"wait", "confirm", "fee"},
           \/ x \notin Outcomes /\ p \notin {"fee", "done"} /\ r = "none"
           \/ x = "Skipped" /\ p = "done" /\ r = "ok" /\ kind[n] = "empty"
           \/ x = "Confirmed" /\ report # "NotAttempted"
              /\ ((p = "done" /\ r = "ok") \/ (p = "fee" /\ r = "none"))
    PROVE  WriteInv'
<1>1. WriteTypes /\ Told(n)
  BY DEF WriteInv
<1>2. Quiet(msgs[n]) /\ lost[n] \cap Outcomes = {}
  BY <1>1 DEF Told
<1>3. /\ msgs' \in [Nodes -> Seq(Messages)] /\ lost' \in [Nodes -> SUBSET Messages]
      /\ \A k \in Nodes \ {n} : msgs'[k] = msgs[k] /\ lost'[k] = lost[k]
      /\ x \in Outcomes => Tells(msgs'[n], lost'[n], x)
      /\ x \notin Outcomes => Quiet(msgs'[n]) /\ lost'[n] \cap Outcomes = {}
      /\ Tried(n, "Sent")' => Tried(n, "Sent") \/ x = "Sent"
  <2>1. CASE x = "none"
    BY <1>1, <1>2, <2>1 DEF Silent, WriteTypes, Outcomes, Tried, Emitted
  <2>2. CASE x # "none"
    <3>1. x \in Messages /\ Emit(n, x)
      BY <2>2 DEF Messages
    <3> QED
      BY <1>1, <1>2, <3>1, Emits
  <2> QED
    BY <2>1, <2>2
<1>4. Tried(n, "Sent")' => p \in {"wait", "confirm", "fee"}
  BY <1>1, <1>3 DEF Told
<1>5. pc'[n] = p /\ result'[n] = r => Told(n)'
  <2>1. CASE x \notin Outcomes /\ p \notin {"fee", "done"} /\ r = "none"
    BY <1>3, <1>4, <2>1 DEF Told
  <2>2. CASE x = "Skipped" /\ p = "done" /\ r = "ok" /\ kind[n] = "empty"
    BY <1>3, <1>4, <2>2 DEF Told, Outcomes
  <2>3. CASE x = "Confirmed" /\ report # "NotAttempted" /\ p = "done" /\ r = "ok"
    BY <1>3, <1>4, <2>3 DEF Told, Outcomes
  <2>4. CASE x = "Confirmed" /\ report # "NotAttempted" /\ p = "fee" /\ r = "none"
    BY <1>3, <1>4, <2>4 DEF Told, Outcomes
  <2> QED
    BY <2>1, <2>2, <2>3, <2>4
<1> QED
  BY <1>3, <1>5, OwnStep

LEMMA ExecuteStep ==
    ASSUME WriteInv, NEW n \in Nodes, Execute(n)
    PROVE  WriteInv'
<1>0. Told(n) /\ WriteTypes
  BY DEF WriteInv
<1>1. result[n] = "none" \/ pc[n] = "done"
  BY <1>0 DEF Told
<1>2. result = [result EXCEPT ![n] = result[n]] /\ accepted \in [Nodes -> BOOLEAN]
  BY <1>0 DEF WriteTypes
<1> USE DEF Places, Outcomes
<1>3. CASE Validate(n)
  <2>1. pc[n] = "start" /\ UNCHANGED <<kind, report, status, timeout, accepted>>
    BY <1>3 DEF Validate, chain
  <2>2. CASE asEmittedError(n)
    BY <2>1, <2>2, ErrorStep
  <2>3. CASE Emit(n, "Initiated") /\ Goto(n, "report") /\ UNCHANGED result
    BY <1>1, <1>2, <2>1, <2>3, GoesOnStep
  <2> QED
    BY <1>3, <2>2, <2>3 DEF Validate
<1>4. CASE CheckReport(n)
  <2>1. pc[n] = "report" /\ UNCHANGED <<kind, report, status, timeout, accepted>>
    BY <1>4 DEF CheckReport, chain
  <2>2. CASE asEmittedError(n)
    BY <2>1, <2>2, ErrorStep
  <2>3. CASE kind[n] = "empty" /\ Emit(n, "Skipped") /\ Return(n, "ok")
    BY <1>2, <2>1, <2>3, GoesOnStep DEF Return
  <2>4. CASE Goto(n, "head") /\ Silent /\ UNCHANGED result
    BY <1>1, <1>2, <2>1, <2>4, GoesOnStep
  <2> QED
    BY <1>4, <2>2, <2>3, <2>4 DEF CheckReport
<1>5. CASE LatestHead(n)
  <2>1. pc[n] = "head" /\ UNCHANGED <<kind, report, status, timeout, accepted>>
    BY <1>5 DEF LatestHead, chain
  <2>2. CASE asEmittedError(n)
    BY <2>1, <2>2, ErrorStep
  <2>3. CASE Goto(n, "query") /\ Silent /\ UNCHANGED result
    BY <1>1, <1>2, <2>1, <2>3, GoesOnStep
  <2> QED
    BY <1>5, <2>2, <2>3 DEF LatestHead
<1>6. CASE QueryTransmissionState(n)
  <2>1. pc[n] = "query" /\ UNCHANGED <<kind, report, status, timeout, accepted>>
    BY <1>6 DEF QueryTransmissionState, chain
  <2>2. CASE asEmittedError(n)
    BY <2>1, <2>2, ErrorStep
  <2>3. CASE Goto(n, "transmit") /\ Silent /\ UNCHANGED result
    BY <1>1, <1>2, <2>1, <2>3, GoesOnStep
  <2>4. CASE report = "Succeeded" /\ Emit(n, "Confirmed") /\ Return(n, "ok")
    <3>1. /\ Goto(n, "done") /\ result' = [result EXCEPT ![n] = "ok"]
          /\ report # "NotAttempted" /\ accepted' \in [Nodes -> BOOLEAN]
      BY <1>2, <2>1, <2>4 DEF Return
    <3> QED
      BY <2>1, <2>4, <3>1, GoesOnStep
  <2>5. report \in {"NotAttempted", "Succeeded", "Failed", "Fatal"}
    BY <1>0 DEF WriteTypes
  <2> QED
    BY <1>6, <2>2, <2>3, <2>4, <2>5 DEF QueryTransmissionState
<1>7. CASE TransmitReport(n)
  <2>1. pc[n] = "transmit" /\ UNCHANGED <<kind, report, timeout, accepted>>
    BY <1>7 DEF TransmitReport
  <2>2. CASE asEmittedError(n) /\ UNCHANGED status
    BY <2>1, <2>2, ErrorStep
  <2>3. CASE /\ status' = [status EXCEPT ![n] = "pending"]
             /\ Emit(n, "Sent") /\ Goto(n, "wait") /\ UNCHANGED result
    BY <1>1, <1>2, <2>1, <2>3, GoesOnStep
  <2> QED
    BY <1>7, <2>2, <2>3 DEF TransmitReport
<1>8. CASE waitTxReachesTerminalStatus(n)
  <2>1. /\ pc[n] = "wait" /\ UNCHANGED <<kind, report, status, timeout, result>> /\ Silent
        /\ Goto(n, "confirm")
    BY <1>8 DEF waitTxReachesTerminalStatus, chain, Silent
  <2>2. accepted' \in [Nodes -> BOOLEAN]
    <3> DEFINE b == status[n] \notin {"failed", "fatal"}
    <3>1. b \in BOOLEAN /\ accepted' = [accepted EXCEPT ![n] = b]
      BY <1>8 DEF waitTxReachesTerminalStatus
    <3> HIDE DEF b
    <3> QED
      BY <1>2, <3>1
  <2> QED
    BY <1>1, <1>2, <2>1, <2>2, GoesOnStep
<1>9. CASE ContextDone(n)
  BY <1>9, ErrorStep DEF ContextDone, chain
<1>10. CASE acceptAndConfirmWrite(n)
  <2>1. /\ pc[n] = "confirm" /\ UNCHANGED <<kind, report, status, timeout, accepted, result>>
        /\ report # "NotAttempted" /\ Emit(n, "Confirmed") /\ Goto(n, "fee")
    BY <1>10 DEF acceptAndConfirmWrite, chain, Visible
  <2> QED
    BY <1>1, <1>2, <2>1, GoesOnStep
<1>11. CASE GetTransactionFee(n)
  <2>1. /\ pc[n] = "fee" /\ UNCHANGED <<kind, report, status, timeout, accepted, msgs, lost>>
        /\ Goto(n, "done") /\ result' = [result EXCEPT ![n] = "ok"]
    BY <1>11 DEF GetTransactionFee, chain, Return
  <2>2. Tells(msgs[n], lost[n], "Confirmed") /\ report # "NotAttempted"
    BY <1>0, <2>1 DEF Told
  <2>3. pc'[n] = "done" /\ result'[n] = "ok" => Told(n)'
    BY <2>1, <2>2 DEF Told
  <2> QED
    BY <1>0, <1>2, <2>1, <2>3, OwnStep DEF WriteTypes
<1> QED
  BY <1>3, <1>4, <1>5, <1>6, <1>7, <1>8, <1>9, <1>10, <1>11 DEF Execute

LEMMA WriteNextInv == WriteInv /\ [WriteNext]_writing => WriteInv'
<1> SUFFICES ASSUME WriteInv, [WriteNext]_writing PROVE WriteInv'
  OBVIOUS
<1>1. CASE UNCHANGED writing
  <2>1. UNCHANGED <<kind, report, status, pc, accepted, timeout, msgs, lost, result>>
    BY <1>1 DEF writing, chain, execution
  <2> QED
    BY <2>1, ToldSame DEF WriteInv, WriteTypes
<1>2. CASE WriteNext
  BY <1>2, WriteChainStep, ExecuteStep DEF WriteNext
<1> QED
  BY <1>1, <1>2

\* The write target's invariant holds in every reachable state
\* (write_target.go:222).
THEOREM WriteInductive == WriteSpec => []WriteInv
BY WriteInitInv, WriteNextInv, PTL DEF WriteSpec

\* What a node reports and returns is what became of the report, whichever
\* node wrote it, and what does not reach monitoring the emitter has lost
\* (write_target.go:222, :447, :519).
THEOREM OutcomeIsTrueAlways == WriteSpec => []OutcomeIsTrue
<1>1. WriteInv => OutcomeIsTrue
  <2> SUFFICES ASSUME WriteInv PROVE OutcomeIsTrue
    OBVIOUS
  <2>1. WriteTypeOK
    <3>1. {Statuses[i] : i \in DOMAIN Statuses} =
            {"unknown", "pending", "unconfirmed", "finalized", "failed", "fatal"}
      <4>1. /\ DOMAIN Statuses = 1..6 /\ Statuses[1] = "unknown" /\ Statuses[2] = "pending"
            /\ Statuses[3] = "unconfirmed" /\ Statuses[4] = "finalized"
            /\ Statuses[5] = "failed" /\ Statuses[6] = "fatal"
        BY DEF Statuses
      <4> QED
        BY <4>1
    <3> QED
      BY <3>1 DEF WriteInv, WriteTypes, WriteTypeOK, Places
  <2>2. \A n \in Nodes : Told(n) /\ msgs[n] \in Seq(Messages) /\ pc[n] \in Places
    BY DEF WriteInv, WriteTypes
  <2>3. OneOutcome
    <3> SUFFICES ASSUME NEW n \in Nodes, result[n] # "none" PROVE OneOutcome!(n)
      BY DEF OneOutcome
    <3> DEFINE m == msgs[n]
               told == {i \in DOMAIN m : m[i] \in Outcomes}
    <3>1. PICK o \in Outcomes : Tells(m, lost[n], o) /\ ((o = "Error") <=> (result[n] = "error"))
      BY <2>2 DEF Told, Outcomes
    <3>2. DOMAIN m = 1..Len(m) /\ Len(m) \in Nat
      BY <2>2
    <3> HIDE DEF m
    <3>3. CASE Quiet(m) /\ lost[n] \cap Outcomes = {o}
      BY <3>3 DEF Quiet, m
    <3>4. CASE /\ Len(m) > 0 /\ m[Len(m)] = o /\ lost[n] \cap Outcomes = {}
               /\ \A i \in DOMAIN m : i # Len(m) => m[i] \notin Outcomes
      <4>1. Len(m) \in DOMAIN m
        BY <3>2, <3>4
      <4>2. told = {Len(m)}
        BY <3>4, <4>1
      <4> QED
        BY <3>1, <3>4, <4>2 DEF m
    <3> QED
      BY <3>1, <3>3, <3>4 DEF Tells
  <2>4. ConfirmedIsVisible
    <3> SUFFICES ASSUME NEW n \in Nodes,
                        Emitted(n, "Confirmed") \/ (kind[n] = "good" /\ result[n] = "ok")
                 PROVE  report # "NotAttempted"
      BY DEF ConfirmedIsVisible
    <3>1. CASE kind[n] = "good" /\ result[n] = "ok"
      BY <2>2, <3>1 DEF Told
    <3>2. CASE Emitted(n, "Confirmed")
      <4>1. ~Quiet(msgs[n])
        BY <3>2 DEF Emitted, Quiet, Outcomes
      <4>2. \A o \in Outcomes : Tells(msgs[n], lost[n], o) => o = "Confirmed"
        BY <3>2, <4>1 DEF Tells, Emitted, Outcomes
      <4> QED
        BY <2>2, <4>1, <4>2 DEF Told, Outcomes
    <3> QED
      BY <3>1, <3>2
  <2>5. OnlyTimeoutFails
    BY <2>2 DEF OnlyTimeoutFails, Told
  <2> QED
    BY <2>1, <2>3, <2>4, <2>5 DEF OutcomeIsTrue
<1> QED
  BY <1>1, WriteInductive, PTL

=============================================================================
