------------------------ MODULE NodeLifecycleProofs ------------------------
(***************************************************************************)
(* The safety properties of NodeLifecycle, for every set of goroutines and *)
(* every configuration.  The inductive invariant says, for the goroutine   *)
(* that drives the node: where it can stand, in which states the node can  *)
(* be then, which declarations it can be about to make, and what is known  *)
(* of the connection.                                                      *)
(***************************************************************************)
EXTENDS NodeLifecycle, TLAPS

\* The provers in the order in which they are tried.
USE SMT, ZenonT(20), Z3T(12)

Checks == {"verify", "chainID", "isSyncing", "judge", "declareState"}

\* The places a function can be at; goroutines that are leaving are "start" at cleanup.
Places(k) ==
    CASE k = "start" -> Checks \cup {"idle", "cleanup", "entry", "dial", "setDialed", "transition"}
      [] k = "Alive" -> {"entry", "subscribe", "register", "subscribeFinalized",
                         "registerFinalized", "run", "pollSync", "pollState", "transition"}
      [] k = "OutOfSync" -> Checks \cup {"entry", "dial", "subscribe", "register", "run",
                         "subscribeFinalized", "registerFinalized", "transition"}
      [] k = "Unreachable" -> Checks \cup {"entry", "backoff", "dial", "setDialed", "probe",
                         "giveUp", "transition"}
      [] k = "InvalidChainID" -> Checks \cup {"entry", "dial", "backoff", "transition"}
      [] OTHER -> Checks \cup {"entry", "dial", "backoff", "recheck", "transition"}

PlacesOK == \A p \in Slots : pc[p] \in Places(kind[p])

\* What verifyConn can have returned.
Verdicts == {"Unreachable", "InvalidChainID", "Alive"}
                \cup (IF NodeIsSyncingEnabled THEN {"Syncing"} ELSE {})

\* The declarations each function can make.
Declares(k) ==
    CASE k = "start" -> Verdicts
      [] k = "Alive" -> {"Unreachable", "OutOfSync", FSNA}
      [] k = "OutOfSync" -> (Verdicts \ {"Alive"}) \cup {"InSync", "OutOfSync"}
      [] k = "Unreachable" -> Verdicts \ {"Unreachable"}
      [] k = "InvalidChainID" -> Verdicts \ {"InvalidChainID"}
      [] k = "Syncing" -> Verdicts \ {"Syncing"}
      [] OTHER -> Verdicts

VerdictsOK ==
    \A p \in Slots :
        /\ pc[p] = "isSyncing" => NodeIsSyncingEnabled
        /\ pc[p] = "judge" => next[p] \in Verdicts \/ (next[p] = "nodeStateLen" /\ state = "Closed")
        /\ pc[p] = "probe" => next[p] = "Alive"
        /\ pc[p] = "declareState" =>
               \/ next[p] \in Declares(kind[p]) \cap Verdicts
               \/ next[p] = "nodeStateLen" /\ state = "Closed"
        /\ pc[p] = "transition" =>
               /\ next[p] \in Declares(kind[p])
               /\ state = "Undialed" => next[p] = "Unreachable"

\* The service, the stop channel and the Closed state.
ServiceOK ==
    /\ stopped <=> service \in {"closing", "closed"}
    /\ service \in {"new", "started"} => state # "Closed"
    /\ service \in {"new", "closed"} => \A p \in Slots : pc[p] = "idle"
    /\ service = "new" => state = "Undialed" /\ conn = {}
    /\ service = "closed" => conn = {} /\ rpcSubs = {}

Verified ==
    /\ "up" \in conn
    /\ VerifyChainID => "chain" \in conn
    /\ NodeIsSyncingEnabled => "notSyncing" \in conn

ChainVerified == "up" \in conn /\ (VerifyChainID => "chain" \in conn)

\* What the driver knows of the connection.
Knows(p) ==
    /\ kind[p] = "Alive" => Verified
    /\ kind[p] # "Alive" /\ pc[p] \in {"entry", "dial"} => conn = {}
    /\ kind[p] = "Unreachable" /\ pc[p] = "backoff" => conn = {}
    /\ kind[p] = "InvalidChainID" /\ pc[p] = "backoff" => "up" \in conn
    /\ kind[p] = "Syncing" /\ pc[p] \in {"backoff", "recheck"} => ChainVerified
    /\ kind[p] = FSNA /\ pc[p] \in {"backoff", "recheck"} => Verified
    /\ kind[p] = "OutOfSync" /\ pc[p] \in {"subscribe", "register", "subscribeFinalized",
                                           "registerFinalized", "run"} => Verified
    /\ pc[p] \in {"setDialed", "verify", "chainID"} => "up" \in conn
    /\ pc[p] = "isSyncing" => ChainVerified
    /\ pc[p] = "judge" /\ next[p] = "InvalidChainID" => "up" \in conn
    /\ pc[p] = "judge" /\ next[p] = "Syncing" => ChainVerified
    /\ pc[p] \in {"judge", "probe", "declareState", "transition"}
           /\ next[p] \in {"Alive", "InSync"} => Verified

ConnectionOK == \A p \in Slots : Driving(p) => Knows(p)

\* A goroutine with registered subscriptions has the deferred call that closes them.
DeferredOK ==
    /\ \A p \in Slots :
         /\ pc[p] \in {"subscribeFinalized", "registerFinalized", "run", "pollSync", "pollState",
                       "cleanup"} => p \in deferred
         /\ pc[p] = "idle" => p \notin deferred
    /\ NoSubscriptionLeak

IInv == /\ TypeOK /\ PlacesOK /\ SingleDriver /\ DriverMatchesState /\ VerdictsOK /\ NoFsmPanic
        /\ ServiceOK /\ NeverUnattended /\ ConnectionOK /\ AliveIsVerified /\ DeferredOK

-----------------------------------------------------------------------------

(* Locals *)

\* A new goroutine's locals are well typed.
LEMMA FreshType == \A issues \in SUBSET SyncIssues : Fresh(issues) \in Locals
BY ConfigAssumption DEF Fresh, Locals

\* Counting keeps a failure counter in its range, in both directions.
LEMMA CounterType == \A n \in 0..MaxFailures : Bump(n) \in 0..MaxFailures /\ Decay(n) \in 0..MaxFailures
BY ConfigAssumption DEF Bump, Decay

\* Changing one counter of well-typed locals.
LEMMA CountersType ==
    \A loc \in Locals, n \in 0..MaxFailures :
        /\ [loc EXCEPT !.pollFailures = n] \in Locals
        /\ [loc EXCEPT !.finalizedStateFailures = n] \in Locals
BY DEF Locals

\* Changing the sync issues of well-typed locals.
LEMMA IssuesType ==
    \A loc \in Locals, S \in SUBSET SyncIssues : [loc EXCEPT !.syncIssues = S] \in Locals
BY DEF Locals

\* The set of sync issues of well-typed locals.
LEMMA IssuesField == \A loc \in Locals : loc.syncIssues \subseteq SyncIssues
BY DEF Locals

\* Start preserves the inductive invariant.
LEMMA StartStep == ASSUME IInv, Start PROVE IInv'
<1> USE DEF IInv, TypeOK, Start, Running, Free, fsmVars, procVars, subVars, Driving, FSNA, LoopKinds
<1>1. TypeOK'
  BY DEF PCs, Targets
<1>2. PlacesOK' /\ SingleDriver'
  BY DEF PlacesOK, Places, Checks, SingleDriver, ServiceOK
<1>3. DriverMatchesState'
  BY DEF SingleDriver, ServiceOK, DriverMatchesState, ExpectedState, PlacesOK, Places, Checks,
       VerdictsOK
<1>4. VerdictsOK'
  BY DEF SingleDriver, ServiceOK, DriverMatchesState, ExpectedState, PlacesOK, Places, Checks,
       VerdictsOK, Declares, Verdicts
<1>5. NoFsmPanic' /\ ServiceOK' /\ NeverUnattended'
  BY DEF NoFsmPanic, ServiceOK, NeverUnattended, DriverMatchesState, ExpectedState, PlacesOK,
       Places, Checks, VerdictsOK, Declares, Verdicts
<1>6. ConnectionOK' /\ AliveIsVerified'
  BY DEF ConnectionOK, Knows, Verified, ChainVerified, AliveIsVerified, SingleDriver, ServiceOK,
       DriverMatchesState, ExpectedState, PlacesOK, Places, Checks, VerdictsOK, Declares, Verdicts
<1>7. DeferredOK'
  BY DEF DeferredOK, NoSubscriptionLeak, PlacesOK, Places, Checks, Subs
<1> QED
  BY <1>1, <1>2, <1>3, <1>4, <1>5, <1>6, <1>7

\* StartEntry preserves the inductive invariant.
LEMMA StartEntryStep == ASSUME IInv, NEW p \in Slots, StartEntry(p) PROVE IInv'
<1> USE DEF IInv, TypeOK, StartEntry, LoopAt, At, Running, Goto, Panic, fsmVars, procVars, subVars,
     Driving, FSNA, LoopKinds
<1>1. TypeOK'
  BY DEF PCs, Targets
<1>2. PlacesOK' /\ SingleDriver'
  BY DEF PlacesOK, Places, Checks, SingleDriver
<1>3. DriverMatchesState'
  BY DEF SingleDriver, ServiceOK, DriverMatchesState, ExpectedState, PlacesOK, Places, Checks,
       VerdictsOK
<1>4. VerdictsOK'
  BY DEF SingleDriver, ServiceOK, DriverMatchesState, ExpectedState, PlacesOK, Places, Checks,
       VerdictsOK, Declares, Verdicts
<1>5. NoFsmPanic' /\ ServiceOK' /\ NeverUnattended'
  BY DEF NoFsmPanic, ServiceOK, NeverUnattended, DriverMatchesState, ExpectedState, PlacesOK,
       Places, Checks, VerdictsOK, Declares, Verdicts
<1>6. ConnectionOK' /\ AliveIsVerified'
  BY DEF ConnectionOK, Knows, Verified, ChainVerified, AliveIsVerified, SingleDriver, ServiceOK,
       DriverMatchesState, ExpectedState, PlacesOK, Places, Checks, VerdictsOK, Declares, Verdicts
<1>7. DeferredOK'
  BY DEF DeferredOK, NoSubscriptionLeak, PlacesOK, Places, Checks, Subs
<1> QED
  BY <1>1, <1>2, <1>3, <1>4, <1>5, <1>6, <1>7

\* LoopEntry preserves the inductive invariant.
LEMMA LoopEntryStep == ASSUME IInv, NEW p \in Slots, LoopEntry(p) PROVE IInv'
<1> USE DEF IInv, TypeOK, LoopEntry, At, Running, Goto, Return, AfterReturn, Panic, fsmVars,
     procVars, subVars, Driving, FSNA, LoopKinds
<1>1. TypeOK'
  <2>1. local' \in [Slots -> Locals]
    BY FreshType
  <2>2. QED
    BY <2>1 DEF PCs, Targets
<1>2. PlacesOK' /\ SingleDriver'
  BY DEF PlacesOK, Places, Checks, SingleDriver
<1>3. DriverMatchesState'
  BY DEF SingleDriver, ServiceOK, DriverMatchesState, ExpectedState, PlacesOK, Places, Checks,
       VerdictsOK
<1>4. VerdictsOK'
  BY DEF SingleDriver, ServiceOK, DriverMatchesState, ExpectedState, PlacesOK, Places, Checks,
       VerdictsOK, Declares, Verdicts
<1>5. NoFsmPanic' /\ ServiceOK' /\ NeverUnattended'
  BY DEF NoFsmPanic, ServiceOK, NeverUnattended, DriverMatchesState, ExpectedState, PlacesOK,
       Places, Checks, VerdictsOK, Declares, Verdicts
<1>6. ConnectionOK' /\ AliveIsVerified'
  BY DEF ConnectionOK, Knows, Verified, ChainVerified, AliveIsVerified, SingleDriver, ServiceOK,
       DriverMatchesState, ExpectedState, PlacesOK, Places, Checks, VerdictsOK, Declares, Verdicts
<1>7. DeferredOK'
  BY DEF DeferredOK, NoSubscriptionLeak, PlacesOK, Places, Checks, Subs
<1> QED
  BY <1>1, <1>2, <1>3, <1>4, <1>5, <1>6, <1>7

\* DialFails preserves the inductive invariant.
LEMMA DialFailsStep == ASSUME IInv, NEW p \in Slots, DialFails(p) PROVE IInv'
<1> USE DEF IInv, TypeOK, DialFails, At, Running, Goto, GotoWith, fsmVars, procVars, subVars,
     Driving, FSNA, LoopKinds
<1>1. TypeOK'
  BY DEF PCs, Targets
<1>2. PlacesOK' /\ SingleDriver'
  BY DEF PlacesOK, Places, Checks, SingleDriver
<1>3. DriverMatchesState'
  BY DEF SingleDriver, ServiceOK, DriverMatchesState, ExpectedState, PlacesOK, Places, Checks,
       VerdictsOK
<1>4. VerdictsOK'
  BY DEF SingleDriver, ServiceOK, DriverMatchesState, ExpectedState, PlacesOK, Places, Checks,
       VerdictsOK, Declares, Verdicts
<1>5. NoFsmPanic' /\ ServiceOK' /\ NeverUnattended'
  BY DEF NoFsmPanic, ServiceOK, NeverUnattended, DriverMatchesState, ExpectedState, PlacesOK,
       Places, Checks, VerdictsOK, Declares, Verdicts
<1>6. ConnectionOK' /\ AliveIsVerified'
  BY DEF ConnectionOK, Knows, Verified, ChainVerified, AliveIsVerified, SingleDriver, ServiceOK,
       DriverMatchesState, ExpectedState, PlacesOK, Places, Checks, VerdictsOK, Declares, Verdicts
<1>7. DeferredOK'
  BY DEF DeferredOK, NoSubscriptionLeak, PlacesOK, Places, Checks, Subs
<1> QED
  BY <1>1, <1>2, <1>3, <1>4, <1>5, <1>6, <1>7

\* DialSucceeds preserves the inductive invariant.
LEMMA DialSucceedsStep == ASSUME IInv, NEW p \in Slots, DialSucceeds(p) PROVE IInv'
<1> USE DEF IInv, TypeOK, DialSucceeds, At, Running, BeginVerifyConn, Goto, GotoWith, fsmVars,
     procVars, subVars, Driving, FSNA, LoopKinds
<1>1. TypeOK'
  BY DEF PCs, Targets, ConnFacts
<1>2. PlacesOK' /\ SingleDriver'
  BY DEF PlacesOK, Places, Checks, SingleDriver
<1>3. DriverMatchesState'
  BY DEF SingleDriver, ServiceOK, DriverMatchesState, ExpectedState, PlacesOK, Places, Checks,
       VerdictsOK
<1>4. VerdictsOK'
  BY DEF SingleDriver, ServiceOK, DriverMatchesState, ExpectedState, PlacesOK, Places, Checks,
       VerdictsOK, Declares, Verdicts
<1>5. NoFsmPanic' /\ ServiceOK' /\ NeverUnattended'
  BY DEF NoFsmPanic, ServiceOK, NeverUnattended, DriverMatchesState, ExpectedState, PlacesOK,
       Places, Checks, VerdictsOK, Declares, Verdicts
<1>6. ConnectionOK' /\ AliveIsVerified'
  BY DEF ConnectionOK, Knows, Verified, ChainVerified, AliveIsVerified, SingleDriver, ServiceOK,
       DriverMatchesState, ExpectedState, PlacesOK, Places, Checks, VerdictsOK, Declares, Verdicts
<1>7. DeferredOK'
  BY DEF DeferredOK, NoSubscriptionLeak, PlacesOK, Places, Checks, Subs
<1> QED
  BY <1>1, <1>2, <1>3, <1>4, <1>5, <1>6, <1>7

\* SetDialed preserves the inductive invariant.
LEMMA SetDialedStep == ASSUME IInv, NEW p \in Slots, SetDialed(p) PROVE IInv'
<1> USE DEF IInv, TypeOK, SetDialed, At, Running, BeginVerifyConn, Goto, GotoWith, fsmVars,
     procVars, subVars, Driving, FSNA, LoopKinds
<1>1. TypeOK'
  BY DEF PCs, Targets, NodeStates
<1>2. PlacesOK' /\ SingleDriver'
  BY DEF PlacesOK, Places, Checks, SingleDriver
<1>3. DriverMatchesState'
  BY DEF SingleDriver, ServiceOK, DriverMatchesState, ExpectedState, PlacesOK, Places, Checks,
       VerdictsOK
<1>4. VerdictsOK'
  BY DEF SingleDriver, ServiceOK, DriverMatchesState, ExpectedState, PlacesOK, Places, Checks,
       VerdictsOK, Declares, Verdicts
<1>5. NoFsmPanic' /\ ServiceOK' /\ NeverUnattended'
  BY DEF NoFsmPanic, ServiceOK, NeverUnattended, DriverMatchesState, ExpectedState, PlacesOK,
       Places, Checks, VerdictsOK, Declares, Verdicts
<1>6. ConnectionOK' /\ AliveIsVerified'
  BY DEF ConnectionOK, Knows, Verified, ChainVerified, AliveIsVerified, SingleDriver, ServiceOK,
       DriverMatchesState, ExpectedState, PlacesOK, Places, Checks, VerdictsOK, Declares, Verdicts
<1>7. DeferredOK'
  BY DEF DeferredOK, NoSubscriptionLeak, PlacesOK, Places, Checks, Subs
<1> QED
  BY <1>1, <1>2, <1>3, <1>4, <1>5, <1>6, <1>7

\* VerifyChainIDState preserves the inductive invariant.
LEMMA VerifyChainIDStateStep == ASSUME IInv, NEW p \in Slots, VerifyChainIDState(p) PROVE IInv'
<1> USE DEF IInv, TypeOK, VerifyChainIDState, At, Running, Goto, GotoWith, Panic, fsmVars, procVars,
     subVars, Driving, FSNA, LoopKinds
<1>1. TypeOK'
  BY DEF PCs, Targets
<1>2. PlacesOK' /\ SingleDriver'
  BY DEF PlacesOK, Places, Checks, SingleDriver
<1>3. DriverMatchesState'
  BY DEF SingleDriver, ServiceOK, DriverMatchesState, ExpectedState, PlacesOK, Places, Checks,
       VerdictsOK
<1>4. VerdictsOK'
  BY DEF SingleDriver, ServiceOK, DriverMatchesState, ExpectedState, PlacesOK, Places, Checks,
       VerdictsOK, Declares, Verdicts
<1>5. NoFsmPanic' /\ ServiceOK' /\ NeverUnattended'
  BY DEF NoFsmPanic, ServiceOK, NeverUnattended, DriverMatchesState, ExpectedState, PlacesOK,
       Places, Checks, VerdictsOK, Declares, Verdicts
<1>6. ConnectionOK' /\ AliveIsVerified'
  BY DEF ConnectionOK, Knows, Verified, ChainVerified, AliveIsVerified, SingleDriver, ServiceOK,
       DriverMatchesState, ExpectedState, PlacesOK, Places, Checks, VerdictsOK, Declares, Verdicts
<1>7. DeferredOK'
  BY DEF DeferredOK, NoSubscriptionLeak, PlacesOK, Places, Checks, Subs
<1> QED
  BY <1>1, <1>2, <1>3, <1>4, <1>5, <1>6, <1>7

\* ChainIDCall preserves the inductive invariant.
LEMMA ChainIDCallStep == ASSUME IInv, NEW p \in Slots, ChainIDCall(p) PROVE IInv'
<1> USE DEF IInv, TypeOK, ChainIDCall, At, Running, Goto, GotoWith, fsmVars, procVars, subVars,
     Driving, FSNA, LoopKinds
<1>1. TypeOK'
  BY DEF PCs, Targets, ConnFacts
<1>2. PlacesOK' /\ SingleDriver'
  BY DEF PlacesOK, Places, Checks, SingleDriver
<1>3. DriverMatchesState'
  BY DEF SingleDriver, ServiceOK, DriverMatchesState, ExpectedState, PlacesOK, Places, Checks,
       VerdictsOK
<1>4. VerdictsOK'
  BY DEF SingleDriver, ServiceOK, DriverMatchesState, ExpectedState, PlacesOK, Places, Checks,
       VerdictsOK, Declares, Verdicts
<1>5. NoFsmPanic' /\ ServiceOK' /\ NeverUnattended'
  BY DEF NoFsmPanic, ServiceOK, NeverUnattended, DriverMatchesState, ExpectedState, PlacesOK,
       Places, Checks, VerdictsOK, Declares, Verdicts
<1>6. ConnectionOK' /\ AliveIsVerified'
  BY DEF ConnectionOK, Knows, Verified, ChainVerified, AliveIsVerified, SingleDriver, ServiceOK,
       DriverMatchesState, ExpectedState, PlacesOK, Places, Checks, VerdictsOK, Declares, Verdicts
<1>7. DeferredOK'
  BY DEF DeferredOK, NoSubscriptionLeak, PlacesOK, Places, Checks, Subs
<1> QED
  BY <1>1, <1>2, <1>3, <1>4, <1>5, <1>6, <1>7

\* IsSyncingCall preserves the inductive invariant.
LEMMA IsSyncingCallStep == ASSUME IInv, NEW p \in Slots, IsSyncingCall(p) PROVE IInv'
<1> USE DEF IInv, TypeOK, IsSyncingCall, At, Running, GotoWith, fsmVars, procVars, subVars, Driving,
     FSNA, LoopKinds
<1>1. TypeOK'
  BY DEF PCs, Targets, ConnFacts
<1>2. PlacesOK' /\ SingleDriver'
  BY DEF PlacesOK, Places, Checks, SingleDriver
<1>3. DriverMatchesState'
  BY DEF SingleDriver, ServiceOK, DriverMatchesState, ExpectedState, PlacesOK, Places, Checks,
       VerdictsOK
<1>4. VerdictsOK'
  BY DEF SingleDriver, ServiceOK, DriverMatchesState, ExpectedState, PlacesOK, Places, Checks,
       VerdictsOK, Declares, Verdicts
<1>5. NoFsmPanic' /\ ServiceOK' /\ NeverUnattended'
  BY DEF NoFsmPanic, ServiceOK, NeverUnattended, DriverMatchesState, ExpectedState, PlacesOK,
       Places, Checks, VerdictsOK, Declares, Verdicts
<1>6. ConnectionOK' /\ AliveIsVerified'
  BY DEF ConnectionOK, Knows, Verified, ChainVerified, AliveIsVerified, SingleDriver, ServiceOK,
       DriverMatchesState, ExpectedState, PlacesOK, Places, Checks, VerdictsOK, Declares, Verdicts
<1>7. DeferredOK'
  BY DEF DeferredOK, NoSubscriptionLeak, PlacesOK, Places, Checks, Subs
<1> QED
  BY <1>1, <1>2, <1>3, <1>4, <1>5, <1>6, <1>7

\* Judge preserves the inductive invariant.
LEMMA JudgeStep == ASSUME IInv, NEW p \in Slots, Judge(p) PROVE IInv'
<1> USE DEF IInv, TypeOK, Judge, At, Running, Goto, fsmVars, procVars, subVars, Driving, FSNA,
     LoopKinds
<1>1. TypeOK'
  <2>1. local' \in [Slots -> Locals]
    BY ConfigAssumption, SMTT(15) DEF Locals
  <2>2. QED
    BY <2>1 DEF PCs, Targets
<1>2. PlacesOK' /\ SingleDriver'
  BY DEF PlacesOK, Places, Checks, SingleDriver
<1>3. DriverMatchesState'
  BY DEF SingleDriver, ServiceOK, DriverMatchesState, ExpectedState, PlacesOK, Places, Checks,
       VerdictsOK
<1>4. VerdictsOK'
  BY DEF SingleDriver, ServiceOK, DriverMatchesState, ExpectedState, PlacesOK, Places, Checks,
       VerdictsOK, Declares, Verdicts
<1>5. NoFsmPanic' /\ ServiceOK' /\ NeverUnattended'
  BY DEF NoFsmPanic, ServiceOK, NeverUnattended, DriverMatchesState, ExpectedState, PlacesOK,
       Places, Checks, VerdictsOK, Declares, Verdicts
<1>6. ConnectionOK' /\ AliveIsVerified'
  BY DEF ConnectionOK, Knows, Verified, ChainVerified, AliveIsVerified, SingleDriver, ServiceOK,
       DriverMatchesState, ExpectedState, PlacesOK, Places, Checks, VerdictsOK, Declares, Verdicts
<1>7. DeferredOK'
  BY DEF DeferredOK, NoSubscriptionLeak, PlacesOK, Places, Checks, Subs
<1> QED
  BY <1>1, <1>2, <1>3, <1>4, <1>5, <1>6, <1>7

\* Probe preserves the inductive invariant.
LEMMA ProbeStep == ASSUME IInv, NEW p \in Slots, Probe(p) PROVE IInv'
<1> USE DEF IInv, TypeOK, Probe, At, Running, Goto, fsmVars, procVars, subVars, Driving, FSNA,
     LoopKinds
<1>1. TypeOK'
  <2>1. local' \in [Slots -> Locals]
    BY ConfigAssumption DEF Locals
  <2>2. QED
    BY <2>1 DEF PCs, Targets
<1>2. PlacesOK' /\ SingleDriver'
  BY DEF PlacesOK, Places, Checks, SingleDriver
<1>3. DriverMatchesState'
  BY DEF SingleDriver, ServiceOK, DriverMatchesState, ExpectedState, PlacesOK, Places, Checks,
       VerdictsOK
<1>4. VerdictsOK'
  BY DEF SingleDriver, ServiceOK, DriverMatchesState, ExpectedState, PlacesOK, Places, Checks,
       VerdictsOK, Declares, Verdicts
<1>5. NoFsmPanic' /\ ServiceOK' /\ NeverUnattended'
  BY DEF NoFsmPanic, ServiceOK, NeverUnattended, DriverMatchesState, ExpectedState, PlacesOK,
       Places, Checks, VerdictsOK, Declares, Verdicts
<1>6. ConnectionOK' /\ AliveIsVerified'
  BY DEF ConnectionOK, Knows, Verified, ChainVerified, AliveIsVerified, SingleDriver, ServiceOK,
       DriverMatchesState, ExpectedState, PlacesOK, Places, Checks, VerdictsOK, Declares, Verdicts
<1>7. DeferredOK'
  BY DEF DeferredOK, NoSubscriptionLeak, PlacesOK, Places, Checks, Subs
<1> QED
  BY <1>1, <1>2, <1>3, <1>4, <1>5, <1>6, <1>7

\* GiveUp preserves the inductive invariant.
LEMMA GiveUpStep == ASSUME IInv, NEW p \in Slots, GiveUp(p) PROVE IInv'
<1> USE DEF IInv, TypeOK, GiveUp, At, Running, Goto, RpcClose, fsmVars, procVars, subVars, Driving,
     FSNA, LoopKinds
<1>1. TypeOK'
  BY DEF PCs, Targets, NodeStates
<1>2. PlacesOK' /\ SingleDriver'
  BY DEF PlacesOK, Places, Checks, SingleDriver
<1>3. DriverMatchesState'
  BY DEF SingleDriver, ServiceOK, DriverMatchesState, ExpectedState, PlacesOK, Places, Checks,
       VerdictsOK
<1>4. VerdictsOK'
  BY DEF SingleDriver, ServiceOK, DriverMatchesState, ExpectedState, PlacesOK, Places, Checks,
       VerdictsOK, Declares, Verdicts
<1>5. NoFsmPanic' /\ ServiceOK' /\ NeverUnattended'
  BY DEF NoFsmPanic, ServiceOK, NeverUnattended, DriverMatchesState, ExpectedState, PlacesOK,
       Places, Checks, VerdictsOK, Declares, Verdicts
<1>6. ConnectionOK' /\ AliveIsVerified'
  BY DEF ConnectionOK, Knows, Verified, ChainVerified, AliveIsVerified, SingleDriver, ServiceOK,
       DriverMatchesState, ExpectedState, PlacesOK, Places, Checks, VerdictsOK, Declares, Verdicts
<1>7. DeferredOK'
  BY DEF DeferredOK, NoSubscriptionLeak, PlacesOK, Places, Checks, Subs
<1> QED
  BY <1>1, <1>2, <1>3, <1>4, <1>5, <1>6, <1>7

\* DeclareState preserves the inductive invariant.
LEMMA DeclareStateStep == ASSUME IInv, NEW p \in Slots, DeclareState(p) PROVE IInv'
<1> USE DEF IInv, TypeOK, DeclareState, At, Running, Goto, Return, AfterReturn, Panic, fsmVars,
     procVars, subVars, Driving, FSNA, LoopKinds
<1>1. TypeOK'
  <2>1. local' \in [Slots -> Locals]
    BY FreshType
  <2>2. QED
    BY <2>1 DEF PCs, Targets
<1>2. PlacesOK' /\ SingleDriver'
  BY DEF PlacesOK, Places, Checks, SingleDriver
<1>3. DriverMatchesState'
  BY DEF SingleDriver, ServiceOK, DriverMatchesState, ExpectedState, PlacesOK, Places, Checks,
       VerdictsOK
<1>4. VerdictsOK'
  BY DEF SingleDriver, ServiceOK, DriverMatchesState, ExpectedState, PlacesOK, Places, Checks,
       VerdictsOK, Declares, Verdicts
<1>5. NoFsmPanic' /\ ServiceOK' /\ NeverUnattended'
  BY DEF NoFsmPanic, ServiceOK, NeverUnattended, DriverMatchesState, ExpectedState, PlacesOK,
       Places, Checks, VerdictsOK, Declares, Verdicts
<1>6. ConnectionOK' /\ AliveIsVerified'
  BY DEF ConnectionOK, Knows, Verified, ChainVerified, AliveIsVerified, SingleDriver, ServiceOK,
       DriverMatchesState, ExpectedState, PlacesOK, Places, Checks, VerdictsOK, Declares, Verdicts
<1>7. DeferredOK'
  BY DEF DeferredOK, NoSubscriptionLeak, PlacesOK, Places, Checks, Subs
<1> QED
  BY <1>1, <1>2, <1>3, <1>4, <1>5, <1>6, <1>7

\* Transition preserves the inductive invariant.
LEMMA TransitionStep == ASSUME IInv, NEW p \in Slots, Transition(p) PROVE IInv'
<1> USE DEF IInv, TypeOK, Transition, At, Running, Return, AfterReturn, Panic, HandOver, Free,
     RpcClose, Permitted, Becomes, fsmVars, procVars, subVars, Driving, FSNA, LoopKinds
<1>1. TypeOK'
  <2>0. local[p].syncIssues \in SUBSET SyncIssues
    BY DEF Locals
  <2>1. local' \in [Slots -> Locals]
    BY <2>0, FreshType
  <2>2. next[p] \in Targets
    BY DEF VerdictsOK, Declares, Verdicts, Targets
  <2>3. /\ state' \in NodeStates
        /\ kind' \in [Slots -> LoopKinds \cup {"start"}]
        /\ next' \in [Slots -> Targets \cup {"nodeStateLen"}]
    BY <2>2 DEF Targets, NodeStates
  <2>4. QED
    BY <2>1, <2>3 DEF PCs
<1>2. PlacesOK' /\ SingleDriver'
  BY DEF PlacesOK, Places, Checks, SingleDriver
<1>3. DriverMatchesState'
  BY DEF SingleDriver, ServiceOK, DriverMatchesState, ExpectedState, PlacesOK, Places, Checks,
       VerdictsOK, Declares, Verdicts, Targets
<1>4. VerdictsOK'
  BY DEF SingleDriver, ServiceOK, DriverMatchesState, ExpectedState, PlacesOK, Places, Checks,
       VerdictsOK, Declares, Verdicts
<1>5. NoFsmPanic' /\ ServiceOK' /\ NeverUnattended'
  BY DEF NoFsmPanic, ServiceOK, NeverUnattended, DriverMatchesState, ExpectedState, PlacesOK,
       Places, Checks, VerdictsOK, Declares, Verdicts
<1>6. ConnectionOK' /\ AliveIsVerified'
  BY DEF ConnectionOK, Knows, Verified, ChainVerified, AliveIsVerified, SingleDriver, ServiceOK,
       DriverMatchesState, ExpectedState, PlacesOK, Places, Checks, VerdictsOK, Declares, Verdicts
<1>7. DeferredOK'
  BY DEF DeferredOK, NoSubscriptionLeak, PlacesOK, Places, Checks, Subs
<1> QED
  BY <1>1, <1>2, <1>3, <1>4, <1>5, <1>6, <1>7

\* Subscribe preserves the inductive invariant.
LEMMA SubscribeStep == ASSUME IInv, NEW p \in Slots, Subscribe(p) PROVE IInv'
<1> USE DEF IInv, TypeOK, Subscribe, At, Running, Goto, GotoWith, Heads, fsmVars, procVars, subVars,
     Driving, FSNA, LoopKinds
<1>1. TypeOK'
  BY DEF PCs, Targets, Subs
<1>2. PlacesOK' /\ SingleDriver'
  BY DEF PlacesOK, Places, Checks, SingleDriver
<1>3. DriverMatchesState'
  BY DEF SingleDriver, ServiceOK, DriverMatchesState, ExpectedState, PlacesOK, Places, Checks,
       VerdictsOK
<1>4. VerdictsOK'
  BY DEF SingleDriver, ServiceOK, DriverMatchesState, ExpectedState, PlacesOK, Places, Checks,
       VerdictsOK, Declares, Verdicts
<1>5. NoFsmPanic' /\ ServiceOK' /\ NeverUnattended'
  BY DEF NoFsmPanic, ServiceOK, NeverUnattended, DriverMatchesState, ExpectedState, PlacesOK,
       Places, Checks, VerdictsOK, Declares, Verdicts
<1>6. ConnectionOK' /\ AliveIsVerified'
  BY DEF ConnectionOK, Knows, Verified, ChainVerified, AliveIsVerified, SingleDriver, ServiceOK,
       DriverMatchesState, ExpectedState, PlacesOK, Places, Checks, VerdictsOK, Declares, Verdicts
<1>7. DeferredOK'
  BY DEF DeferredOK, NoSubscriptionLeak, PlacesOK, Places, Checks, Subs
<1> QED
  BY <1>1, <1>2, <1>3, <1>4, <1>5, <1>6, <1>7

\* Register preserves the inductive invariant.
LEMMA RegisterStep == ASSUME IInv, NEW p \in Slots, Register(p) PROVE IInv'
<1> USE DEF IInv, TypeOK, Register, At, Running, Heads, fsmVars, procVars, subVars, Driving, FSNA,
     LoopKinds
<1>1. TypeOK'
  BY DEF PCs, Targets, Subs
<1>2. PlacesOK' /\ SingleDriver'
  BY DEF PlacesOK, Places, Checks, SingleDriver
<1>3. DriverMatchesState'
  BY DEF SingleDriver, ServiceOK, DriverMatchesState, ExpectedState, PlacesOK, Places, Checks,
       VerdictsOK
<1>4. VerdictsOK'
  BY DEF SingleDriver, ServiceOK, DriverMatchesState, ExpectedState, PlacesOK, Places, Checks,
       VerdictsOK, Declares, Verdicts
<1>5. NoFsmPanic' /\ ServiceOK' /\ NeverUnattended'
  BY DEF NoFsmPanic, ServiceOK, NeverUnattended, DriverMatchesState, ExpectedState, PlacesOK,
       Places, Checks, VerdictsOK, Declares, Verdicts
<1>6. ConnectionOK' /\ AliveIsVerified'
  BY DEF ConnectionOK, Knows, Verified, ChainVerified, AliveIsVerified, SingleDriver, ServiceOK,
       DriverMatchesState, ExpectedState, PlacesOK, Places, Checks, VerdictsOK, Declares, Verdicts
<1>7. DeferredOK'
  BY DEF DeferredOK, NoSubscriptionLeak, PlacesOK, Places, Checks, Subs
<1> QED
  BY <1>1, <1>2, <1>3, <1>4, <1>5, <1>6, <1>7

\* SubscribeFinalized preserves the inductive invariant.
LEMMA SubscribeFinalizedStep == ASSUME IInv, NEW p \in Slots, SubscribeFinalized(p) PROVE IInv'
<1> USE DEF IInv, TypeOK, SubscribeFinalized, At, Running, Goto, GotoWith, FinalizedHeads, fsmVars,
     procVars, subVars, Driving, FSNA, LoopKinds
<1>1. TypeOK'
  BY DEF PCs, Targets, Subs
<1>2. PlacesOK' /\ SingleDriver'
  BY DEF PlacesOK, Places, Checks, SingleDriver
<1>3. DriverMatchesState'
  BY DEF SingleDriver, ServiceOK, DriverMatchesState, ExpectedState, PlacesOK, Places, Checks,
       VerdictsOK
<1>4. VerdictsOK'
  BY DEF SingleDriver, ServiceOK, DriverMatchesState, ExpectedState, PlacesOK, Places, Checks,
       VerdictsOK, Declares, Verdicts
<1>5. NoFsmPanic' /\ ServiceOK' /\ NeverUnattended'
  BY DEF NoFsmPanic, ServiceOK, NeverUnattended, DriverMatchesState, ExpectedState, PlacesOK,
       Places, Checks, VerdictsOK, Declares, Verdicts
<1>6. ConnectionOK' /\ AliveIsVerified'
  BY DEF ConnectionOK, Knows, Verified, ChainVerified, AliveIsVerified, SingleDriver, ServiceOK,
       DriverMatchesState, ExpectedState, PlacesOK, Places, Checks, VerdictsOK, Declares, Verdicts
<1>7. DeferredOK'
  BY DEF DeferredOK, NoSubscriptionLeak, PlacesOK, Places, Checks, Subs
<1> QED
  BY <1>1, <1>2, <1>3, <1>4, <1>5, <1>6, <1>7

\* RegisterFinalized preserves the inductive invariant.
LEMMA RegisterFinalizedStep == ASSUME IInv, NEW p \in Slots, RegisterFinalized(p) PROVE IInv'
<1> USE DEF IInv, TypeOK, RegisterFinalized, At, Running, Goto, FinalizedHeads, fsmVars, procVars,
     subVars, Driving, FSNA, LoopKinds
<1>1. TypeOK'
  BY DEF PCs, Targets, Subs
<1>2. PlacesOK' /\ SingleDriver'
  BY DEF PlacesOK, Places, Checks, SingleDriver
<1>3. DriverMatchesState'
  BY DEF SingleDriver, ServiceOK, DriverMatchesState, ExpectedState, PlacesOK, Places, Checks,
       VerdictsOK
<1>4. VerdictsOK'
  BY DEF SingleDriver, ServiceOK, DriverMatchesState, ExpectedState, PlacesOK, Places, Checks,
       VerdictsOK, Declares, Verdicts
<1>5. NoFsmPanic' /\ ServiceOK' /\ NeverUnattended'
  BY DEF NoFsmPanic, ServiceOK, NeverUnattended, DriverMatchesState, ExpectedState, PlacesOK,
       Places, Checks, VerdictsOK, Declares, Verdicts
<1>6. ConnectionOK' /\ AliveIsVerified'
  BY DEF ConnectionOK, Knows, Verified, ChainVerified, AliveIsVerified, SingleDriver, ServiceOK,
       DriverMatchesState, ExpectedState, PlacesOK, Places, Checks, VerdictsOK, Declares, Verdicts
<1>7. DeferredOK'
  BY DEF DeferredOK, NoSubscriptionLeak, PlacesOK, Places, Checks, Subs
<1> QED
  BY <1>1, <1>2, <1>3, <1>4, <1>5, <1>6, <1>7

\* UnsubscribeHealthChecks preserves the inductive invariant.
LEMMA UnsubscribeHealthChecksStep == ASSUME IInv, NEW p \in Slots, UnsubscribeHealthChecks(p) PROVE IInv'
<1> USE DEF IInv, TypeOK, UnsubscribeHealthChecks, At, Running, fsmVars, procVars, subVars, Driving,
     FSNA, LoopKinds
<1>1. TypeOK'
  BY DEF PCs, Targets
<1>2. PlacesOK' /\ SingleDriver'
  BY DEF PlacesOK, Places, Checks, SingleDriver
<1>3. DriverMatchesState'
  BY DEF SingleDriver, ServiceOK, DriverMatchesState, ExpectedState, PlacesOK, Places, Checks,
       VerdictsOK
<1>4. VerdictsOK'
  BY DEF SingleDriver, ServiceOK, DriverMatchesState, ExpectedState, PlacesOK, Places, Checks,
       VerdictsOK, Declares, Verdicts
<1>5. NoFsmPanic' /\ ServiceOK' /\ NeverUnattended'
  BY DEF NoFsmPanic, ServiceOK, NeverUnattended, DriverMatchesState, ExpectedState, PlacesOK,
       Places, Checks, VerdictsOK, Declares, Verdicts
<1>6. ConnectionOK' /\ AliveIsVerified'
  BY DEF ConnectionOK, Knows, Verified, ChainVerified, AliveIsVerified, SingleDriver, ServiceOK,
       DriverMatchesState, ExpectedState, PlacesOK, Places, Checks, VerdictsOK, Declares, Verdicts
<1>7. DeferredOK'
  BY DEF DeferredOK, NoSubscriptionLeak, PlacesOK, Places, Checks, Subs
<1> QED
  BY <1>1, <1>2, <1>3, <1>4, <1>5, <1>6, <1>7

\* UnsubscribeAllExceptAliveLoop preserves the inductive invariant: it moves no goroutine and changes no state.
LEMMA UnsubscribeAllExceptAliveLoopStep == ASSUME IInv, UnsubscribeAllExceptAliveLoop PROVE IInv'
<1> USE DEF IInv, TypeOK, UnsubscribeAllExceptAliveLoop, Running, fsmVars, procVars, subVars
<1>1. TypeOK'
  BY DEF Subs
<1>2. PlacesOK' /\ SingleDriver' /\ DriverMatchesState' /\ VerdictsOK'
  BY DEF PlacesOK, SingleDriver, DriverMatchesState, Driving, ExpectedState, VerdictsOK
<1>3. NoFsmPanic' /\ ServiceOK' /\ NeverUnattended'
  BY DEF NoFsmPanic, ServiceOK, NeverUnattended, Driving
<1>4. ConnectionOK' /\ AliveIsVerified'
  BY DEF ConnectionOK, AliveIsVerified, Driving, Knows, Verified, ChainVerified
<1>5. DeferredOK'
  BY DEF DeferredOK, NoSubscriptionLeak
<1> QED
  BY <1>1, <1>2, <1>3, <1>4, <1>5

\* Poll preserves the inductive invariant.
LEMMA PollStep == ASSUME IInv, NEW p \in Slots, Poll(p) PROVE IInv'
<1> USE DEF IInv, TypeOK, Poll, LoopAt, At, Running, Continue, Goto, Declare, GotoWith, Bump, Decay,
     fsmVars, procVars, subVars, Driving, FSNA, LoopKinds
<1>1. TypeOK'
  <2>1. local' \in [Slots -> Locals]
    <3> DEFINE failures == IF remote = "down" THEN Bump(local[p].pollFailures)
                                                ELSE Decay(local[p].pollFailures)
    <3> HIDE DEF Bump, Decay
    <3>1. failures \in 0..MaxFailures
      BY CounterType DEF Locals
    <3>2. [local[p] EXCEPT !.pollFailures = failures] \in Locals
      BY <3>1, CountersType
    <3> QED
      BY <3>2, FreshType
  <2>2. QED
    BY <2>1 DEF PCs, Targets
<1>2. PlacesOK' /\ SingleDriver'
  BY DEF PlacesOK, Places, Checks, SingleDriver
<1>3. DriverMatchesState'
  BY DEF SingleDriver, ServiceOK, DriverMatchesState, ExpectedState, PlacesOK, Places, Checks,
       VerdictsOK
<1>4. VerdictsOK'
  BY DEF SingleDriver, ServiceOK, DriverMatchesState, ExpectedState, PlacesOK, Places, Checks,
       VerdictsOK, Declares, Verdicts
<1>5. NoFsmPanic' /\ ServiceOK' /\ NeverUnattended'
  BY DEF NoFsmPanic, ServiceOK, NeverUnattended, DriverMatchesState, ExpectedState, PlacesOK,
       Places, Checks, VerdictsOK, Declares, Verdicts
<1>6. ConnectionOK' /\ AliveIsVerified'
  BY DEF ConnectionOK, Knows, Verified, ChainVerified, AliveIsVerified, SingleDriver, ServiceOK,
       DriverMatchesState, ExpectedState, PlacesOK, Places, Checks, VerdictsOK, Declares, Verdicts
<1>7. DeferredOK'
  BY DEF DeferredOK, NoSubscriptionLeak, PlacesOK, Places, Checks, Subs
<1> QED
  BY <1>1, <1>2, <1>3, <1>4, <1>5, <1>6, <1>7

\* PollSync preserves the inductive invariant.
LEMMA PollSyncStep == ASSUME IInv, NEW p \in Slots, PollSync(p) PROVE IInv'
<1> USE DEF IInv, TypeOK, PollSync, At, Running, Continue, Goto, Declare, GotoWith, Panic, fsmVars,
     procVars, subVars, Driving, FSNA, LoopKinds
<1>1. TypeOK'
  <2>1. local' \in [Slots -> Locals]
    BY FreshType DEF SyncIssues
  <2>2. QED
    BY <2>1 DEF PCs, Targets
<1>2. PlacesOK' /\ SingleDriver'
  BY DEF PlacesOK, Places, Checks, SingleDriver
<1>3. DriverMatchesState'
  BY DEF SingleDriver, ServiceOK, DriverMatchesState, ExpectedState, PlacesOK, Places, Checks,
       VerdictsOK
<1>4. VerdictsOK'
  BY DEF SingleDriver, ServiceOK, DriverMatchesState, ExpectedState, PlacesOK, Places, Checks,
       VerdictsOK, Declares, Verdicts
<1>5. NoFsmPanic' /\ ServiceOK' /\ NeverUnattended'
  BY DEF NoFsmPanic, ServiceOK, NeverUnattended, DriverMatchesState, ExpectedState, PlacesOK,
       Places, Checks, VerdictsOK, Declares, Verdicts
<1>6. ConnectionOK' /\ AliveIsVerified'
  BY DEF ConnectionOK, Knows, Verified, ChainVerified, AliveIsVerified, SingleDriver, ServiceOK,
       DriverMatchesState, ExpectedState, PlacesOK, Places, Checks, VerdictsOK, Declares, Verdicts
<1>7. DeferredOK'
  BY DEF DeferredOK, NoSubscriptionLeak, PlacesOK, Places, Checks, Subs
<1> QED
  BY <1>1, <1>2, <1>3, <1>4, <1>5, <1>6, <1>7

\* PollState preserves the inductive invariant.
LEMMA PollStateStep == ASSUME IInv, NEW p \in Slots, PollState(p) PROVE IInv'
<1> USE DEF IInv, TypeOK, PollState, At, Running, Continue, Goto, Declare, GotoWith, Bump, fsmVars,
     procVars, subVars, Driving, FSNA, LoopKinds
<1>1. TypeOK'
  <2>1. local' \in [Slots -> Locals]
    <3> DEFINE failures == Bump(local[p].finalizedStateFailures)
    <3> HIDE DEF Bump
    <3>1. /\ failures \in 0..MaxFailures
          /\ Bump(local[p].pollFailures) \in 0..MaxFailures
          /\ 0 \in 0..MaxFailures
      BY CounterType, ConfigAssumption DEF Locals
    <3>2. /\ [local[p] EXCEPT !.finalizedStateFailures = failures] \in Locals
          /\ [local[p] EXCEPT !.pollFailures = Bump(@)] \in Locals
          /\ [local[p] EXCEPT !.finalizedStateFailures = 0] \in Locals
      BY <3>1, CountersType DEF Locals
    <3> QED
      BY <3>2, FreshType
  <2>2. QED
    BY <2>1 DEF PCs, Targets
<1>2. PlacesOK' /\ SingleDriver'
  BY DEF PlacesOK, Places, Checks, SingleDriver
<1>3. DriverMatchesState'
  BY DEF SingleDriver, ServiceOK, DriverMatchesState, ExpectedState, PlacesOK, Places, Checks,
       VerdictsOK
<1>4. VerdictsOK'
  BY DEF SingleDriver, ServiceOK, DriverMatchesState, ExpectedState, PlacesOK, Places, Checks,
       VerdictsOK, Declares, Verdicts
<1>5. NoFsmPanic' /\ ServiceOK' /\ NeverUnattended'
  BY DEF NoFsmPanic, ServiceOK, NeverUnattended, DriverMatchesState, ExpectedState, PlacesOK,
       Places, Checks, VerdictsOK, Declares, Verdicts
<1>6. ConnectionOK' /\ AliveIsVerified'
  BY DEF ConnectionOK, Knows, Verified, ChainVerified, AliveIsVerified, SingleDriver, ServiceOK,
       DriverMatchesState, ExpectedState, PlacesOK, Places, Checks, VerdictsOK, Declares, Verdicts
<1>7. DeferredOK'
  BY DEF DeferredOK, NoSubscriptionLeak, PlacesOK, Places, Checks, Subs
<1> QED
  BY <1>1, <1>2, <1>3, <1>4, <1>5, <1>6, <1>7

\* NoNewHeads preserves the inductive invariant.
LEMMA NoNewHeadsStep == ASSUME IInv, NEW p \in Slots, NoNewHeads(p) PROVE IInv'
<1> USE DEF IInv, TypeOK, NoNewHeads, LoopAt, At, Running, Continue, Goto, Declare, GotoWith,
     fsmVars, procVars, subVars, Driving, FSNA, LoopKinds
<1>1. TypeOK'
  <2>1. local' \in [Slots -> Locals]
    BY FreshType DEF SyncIssues
  <2>2. QED
    BY <2>1 DEF PCs, Targets
<1>2. PlacesOK' /\ SingleDriver'
  BY DEF PlacesOK, Places, Checks, SingleDriver
<1>3. DriverMatchesState'
  BY DEF SingleDriver, ServiceOK, DriverMatchesState, ExpectedState, PlacesOK, Places, Checks,
       VerdictsOK
<1>4. VerdictsOK'
  BY DEF SingleDriver, ServiceOK, DriverMatchesState, ExpectedState, PlacesOK, Places, Checks,
       VerdictsOK, Declares, Verdicts
<1>5. NoFsmPanic' /\ ServiceOK' /\ NeverUnattended'
  BY DEF NoFsmPanic, ServiceOK, NeverUnattended, DriverMatchesState, ExpectedState, PlacesOK,
       Places, Checks, VerdictsOK, Declares, Verdicts
<1>6. ConnectionOK' /\ AliveIsVerified'
  BY DEF ConnectionOK, Knows, Verified, ChainVerified, AliveIsVerified, SingleDriver, ServiceOK,
       DriverMatchesState, ExpectedState, PlacesOK, Places, Checks, VerdictsOK, Declares, Verdicts
<1>7. DeferredOK'
  BY DEF DeferredOK, NoSubscriptionLeak, PlacesOK, Places, Checks, Subs
<1> QED
  BY <1>1, <1>2, <1>3, <1>4, <1>5, <1>6, <1>7

\* BackInSync preserves the inductive invariant.
LEMMA BackInSyncStep == ASSUME IInv, NEW p \in Slots, BackInSync(p) PROVE IInv'
<1> USE DEF IInv, TypeOK, BackInSync, LoopAt, At, Running, Declare, GotoWith, fsmVars, procVars,
     subVars, Driving, FSNA, LoopKinds
<1>1. TypeOK'
  <2>1. local' \in [Slots -> Locals]
    BY FreshType
  <2>2. QED
    BY <2>1 DEF PCs, Targets
<1>2. PlacesOK' /\ SingleDriver'
  BY DEF PlacesOK, Places, Checks, SingleDriver
<1>3. DriverMatchesState'
  BY DEF SingleDriver, ServiceOK, DriverMatchesState, ExpectedState, PlacesOK, Places, Checks,
       VerdictsOK
<1>4. VerdictsOK'
  BY DEF SingleDriver, ServiceOK, DriverMatchesState, ExpectedState, PlacesOK, Places, Checks,
       VerdictsOK, Declares, Verdicts
<1>5. NoFsmPanic' /\ ServiceOK' /\ NeverUnattended'
  BY DEF NoFsmPanic, ServiceOK, NeverUnattended, DriverMatchesState, ExpectedState, PlacesOK,
       Places, Checks, VerdictsOK, Declares, Verdicts
<1>6. ConnectionOK' /\ AliveIsVerified'
  BY DEF ConnectionOK, Knows, Verified, ChainVerified, AliveIsVerified, SingleDriver, ServiceOK,
       DriverMatchesState, ExpectedState, PlacesOK, Places, Checks, VerdictsOK, Declares, Verdicts
<1>7. DeferredOK'
  BY DEF DeferredOK, NoSubscriptionLeak, PlacesOK, Places, Checks, Subs
<1> QED
  BY <1>1, <1>2, <1>3, <1>4, <1>5, <1>6, <1>7

\* OutOfSyncNewHead preserves the inductive invariant: it moves no goroutine and changes no state.
LEMMA OutOfSyncNewHeadStep == ASSUME IInv, NEW p \in Slots, OutOfSyncNewHead(p) PROVE IInv'
<1> USE DEF IInv, TypeOK, OutOfSyncNewHead, OutOfSyncWaits, LoopAt, At, Running, Panic, fsmVars,
     procVars, subVars
<1>1. TypeOK'
  <2>1. local[p] \in Locals /\ local[p].syncIssues \subseteq SyncIssues
    BY IssuesField
  <2> DEFINE S == IF ComparesWithPool /\ remote = "lagging"
                  THEN (local[p].syncIssues \ {"NoNewHead"}) \cup {"NotInSyncWithPool"}
                  ELSE local[p].syncIssues \ {"NoNewHead", "NotInSyncWithPool"}
  <2>2. \/ local' = local
        \/ local' = [local EXCEPT ![p] = [local[p] EXCEPT !.syncIssues = S]]
    OBVIOUS
  <2>3. S \in SUBSET SyncIssues
    BY <2>1 DEF SyncIssues
  <2> HIDE DEF S
  <2>4. [local[p] EXCEPT !.syncIssues = S] \in Locals
    BY <2>1, <2>3, IssuesType
  <2>5. local' \in [Slots -> Locals]
    BY <2>2, <2>4
  <2> QED
    BY <2>5
<1>2. PlacesOK' /\ SingleDriver' /\ DriverMatchesState' /\ VerdictsOK'
  BY DEF PlacesOK, SingleDriver, DriverMatchesState, Driving, ExpectedState, VerdictsOK
<1>3. NoFsmPanic' /\ ServiceOK' /\ NeverUnattended'
  BY DEF NoFsmPanic, ServiceOK, NeverUnattended, Driving
<1>4. ConnectionOK' /\ AliveIsVerified'
  BY DEF ConnectionOK, AliveIsVerified, Driving, Knows, Verified, ChainVerified
<1>5. DeferredOK'
  BY DEF DeferredOK, NoSubscriptionLeak
<1> QED
  BY <1>1, <1>2, <1>3, <1>4, <1>5

\* OutOfSyncNewFinalizedHead preserves the inductive invariant: it moves no goroutine and changes no state.
LEMMA OutOfSyncNewFinalizedHeadStep == ASSUME IInv, NEW p \in Slots, OutOfSyncNewFinalizedHead(p) PROVE IInv'
<1> USE DEF IInv, TypeOK, OutOfSyncNewFinalizedHead, OutOfSyncWaits, LoopAt, At, Running, fsmVars,
     procVars, subVars
<1>1. TypeOK'
  <2>1. local[p] \in Locals /\ local[p].syncIssues \subseteq SyncIssues
    BY IssuesField
  <2>2. local' \in [Slots -> Locals]
    BY <2>1, IssuesType DEF SyncIssues
  <2> QED
    BY <2>2
<1>2. PlacesOK' /\ SingleDriver' /\ DriverMatchesState' /\ VerdictsOK'
  BY DEF PlacesOK, SingleDriver, DriverMatchesState, Driving, ExpectedState, VerdictsOK
<1>3. NoFsmPanic' /\ ServiceOK' /\ NeverUnattended'
  BY DEF NoFsmPanic, ServiceOK, NeverUnattended, Driving
<1>4. ConnectionOK' /\ AliveIsVerified'
  BY DEF ConnectionOK, AliveIsVerified, Driving, Knows, Verified, ChainVerified
<1>5. DeferredOK'
  BY DEF DeferredOK, NoSubscriptionLeak
<1> QED
  BY <1>1, <1>2, <1>3, <1>4, <1>5

\* OutOfSyncNoNewHeads preserves the inductive invariant: it moves no goroutine and changes no state.
LEMMA OutOfSyncNoNewHeadsStep == ASSUME IInv, NEW p \in Slots, OutOfSyncNoNewHeads(p) PROVE IInv'
<1> USE DEF IInv, TypeOK, OutOfSyncNoNewHeads, OutOfSyncWaits, LoopAt, At, Running, fsmVars,
     procVars, subVars
<1>1. TypeOK'
  <2>1. local[p] \in Locals /\ local[p].syncIssues \subseteq SyncIssues
    BY IssuesField
  <2>2. local' \in [Slots -> Locals]
    BY <2>1, IssuesType DEF SyncIssues
  <2> QED
    BY <2>2
<1>2. PlacesOK' /\ SingleDriver' /\ DriverMatchesState' /\ VerdictsOK'
  BY DEF PlacesOK, SingleDriver, DriverMatchesState, Driving, ExpectedState, VerdictsOK
<1>3. NoFsmPanic' /\ ServiceOK' /\ NeverUnattended'
  BY DEF NoFsmPanic, ServiceOK, NeverUnattended, Driving
<1>4. ConnectionOK' /\ AliveIsVerified'
  BY DEF ConnectionOK, AliveIsVerified, Driving, Knows, Verified, ChainVerified
<1>5. DeferredOK'
  BY DEF DeferredOK, NoSubscriptionLeak
<1> QED
  BY <1>1, <1>2, <1>3, <1>4, <1>5

\* ZombieCheck preserves the inductive invariant.
LEMMA ZombieCheckStep == ASSUME IInv, NEW p \in Slots, ZombieCheck(p) PROVE IInv'
<1> USE DEF IInv, TypeOK, ZombieCheck, OutOfSyncWaits, LoopAt, At, Running, Declare, GotoWith,
     fsmVars, procVars, subVars, Driving, FSNA, LoopKinds
<1>1. TypeOK'
  <2>1. local' \in [Slots -> Locals]
    <3>1. local[p].syncIssues \in SUBSET SyncIssues
      BY DEF Locals
    <3>2. QED
      BY <3>1, FreshType
  <2>2. QED
    BY <2>1 DEF PCs, Targets
<1>2. PlacesOK' /\ SingleDriver'
  BY DEF PlacesOK, Places, Checks, SingleDriver
<1>3. DriverMatchesState'
  BY DEF SingleDriver, ServiceOK, DriverMatchesState, ExpectedState, PlacesOK, Places, Checks,
       VerdictsOK
<1>4. VerdictsOK'
  BY DEF SingleDriver, ServiceOK, DriverMatchesState, ExpectedState, PlacesOK, Places, Checks,
       VerdictsOK, Declares, Verdicts
<1>5. NoFsmPanic' /\ ServiceOK' /\ NeverUnattended'
  BY DEF NoFsmPanic, ServiceOK, NeverUnattended, DriverMatchesState, ExpectedState, PlacesOK,
       Places, Checks, VerdictsOK, Declares, Verdicts
<1>6. ConnectionOK' /\ AliveIsVerified'
  BY DEF ConnectionOK, Knows, Verified, ChainVerified, AliveIsVerified, SingleDriver, ServiceOK,
       DriverMatchesState, ExpectedState, PlacesOK, Places, Checks, VerdictsOK, Declares, Verdicts
<1>7. DeferredOK'
  BY DEF DeferredOK, NoSubscriptionLeak, PlacesOK, Places, Checks, Subs
<1> QED
  BY <1>1, <1>2, <1>3, <1>4, <1>5, <1>6, <1>7

\* SubscriptionTerminated preserves the inductive invariant.
LEMMA SubscriptionTerminatedStep == ASSUME IInv, NEW p \in Slots, SubscriptionTerminated(p) PROVE IInv'
<1> USE DEF IInv, TypeOK, SubscriptionTerminated, OutOfSyncWaits, LoopAt, At, Running, Declare,
     GotoWith, fsmVars, procVars, subVars, Driving, FSNA, LoopKinds
<1>1. TypeOK'
  <2>1. local' \in [Slots -> Locals]
    BY FreshType
  <2>2. QED
    BY <2>1 DEF PCs, Targets
<1>2. PlacesOK' /\ SingleDriver'
  BY DEF PlacesOK, Places, Checks, SingleDriver
<1>3. DriverMatchesState'
  BY DEF SingleDriver, ServiceOK, DriverMatchesState, ExpectedState, PlacesOK, Places, Checks,
       VerdictsOK
<1>4. VerdictsOK'
  BY DEF SingleDriver, ServiceOK, DriverMatchesState, ExpectedState, PlacesOK, Places, Checks,
       VerdictsOK, Declares, Verdicts
<1>5. NoFsmPanic' /\ ServiceOK' /\ NeverUnattended'
  BY DEF NoFsmPanic, ServiceOK, NeverUnattended, DriverMatchesState, ExpectedState, PlacesOK,
       Places, Checks, VerdictsOK, Declares, Verdicts
<1>6. ConnectionOK' /\ AliveIsVerified'
  BY DEF ConnectionOK, Knows, Verified, ChainVerified, AliveIsVerified, SingleDriver, ServiceOK,
       DriverMatchesState, ExpectedState, PlacesOK, Places, Checks, VerdictsOK, Declares, Verdicts
<1>7. DeferredOK'
  BY DEF DeferredOK, NoSubscriptionLeak, PlacesOK, Places, Checks, Subs
<1> QED
  BY <1>1, <1>2, <1>3, <1>4, <1>5, <1>6, <1>7

\* Stop preserves the inductive invariant.
LEMMA StopStep == ASSUME IInv, NEW p \in Slots, Stop(p) PROVE IInv'
<1> USE DEF IInv, TypeOK, Stop, OutOfSyncWaits, LoopAt, At, Running, Return, AfterReturn, fsmVars,
     procVars, subVars, Driving, FSNA, LoopKinds
<1>1. TypeOK'
  <2>1. local' \in [Slots -> Locals]
    BY FreshType
  <2>2. QED
    BY <2>1 DEF PCs, Targets
<1>2. PlacesOK' /\ SingleDriver'
  BY DEF PlacesOK, Places, Checks, SingleDriver
<1>3. DriverMatchesState'
  BY DEF SingleDriver, ServiceOK, DriverMatchesState, ExpectedState, PlacesOK, Places, Checks,
       VerdictsOK
<1>4. VerdictsOK'
  BY DEF SingleDriver, ServiceOK, DriverMatchesState, ExpectedState, PlacesOK, Places, Checks,
       VerdictsOK, Declares, Verdicts
<1>5. NoFsmPanic' /\ ServiceOK' /\ NeverUnattended'
  BY DEF NoFsmPanic, ServiceOK, NeverUnattended, DriverMatchesState, ExpectedState, PlacesOK,
       Places, Checks, VerdictsOK, Declares, Verdicts
<1>6. ConnectionOK' /\ AliveIsVerified'
  BY DEF ConnectionOK, Knows, Verified, ChainVerified, AliveIsVerified, SingleDriver, ServiceOK,
       DriverMatchesState, ExpectedState, PlacesOK, Places, Checks, VerdictsOK, Declares, Verdicts
<1>7. DeferredOK'
  BY DEF DeferredOK, NoSubscriptionLeak, PlacesOK, Places, Checks, Subs
<1> QED
  BY <1>1, <1>2, <1>3, <1>4, <1>5, <1>6, <1>7

\* BackoffElapsed preserves the inductive invariant.
LEMMA BackoffElapsedStep == ASSUME IInv, NEW p \in Slots, BackoffElapsed(p) PROVE IInv'
<1> USE DEF IInv, TypeOK, BackoffElapsed, At, Running, BeginVerifyConn, Goto, GotoWith, fsmVars,
     procVars, subVars, Driving, FSNA, LoopKinds
<1>1. TypeOK'
  BY DEF PCs, Targets
<1>2. PlacesOK' /\ SingleDriver'
  BY DEF PlacesOK, Places, Checks, SingleDriver
<1>3. DriverMatchesState'
  BY DEF SingleDriver, ServiceOK, DriverMatchesState, ExpectedState, PlacesOK, Places, Checks,
       VerdictsOK
<1>4. VerdictsOK'
  BY DEF SingleDriver, ServiceOK, DriverMatchesState, ExpectedState, PlacesOK, Places, Checks,
       VerdictsOK, Declares, Verdicts
<1>5. NoFsmPanic' /\ ServiceOK' /\ NeverUnattended'
  BY DEF NoFsmPanic, ServiceOK, NeverUnattended, DriverMatchesState, ExpectedState, PlacesOK,
       Places, Checks, VerdictsOK, Declares, Verdicts
<1>6. ConnectionOK' /\ AliveIsVerified'
  BY DEF ConnectionOK, Knows, Verified, ChainVerified, AliveIsVerified, SingleDriver, ServiceOK,
       DriverMatchesState, ExpectedState, PlacesOK, Places, Checks, VerdictsOK, Declares, Verdicts
<1>7. DeferredOK'
  BY DEF DeferredOK, NoSubscriptionLeak, PlacesOK, Places, Checks, Subs
<1> QED
  BY <1>1, <1>2, <1>3, <1>4, <1>5, <1>6, <1>7

\* RecheckSyncing preserves the inductive invariant.
LEMMA RecheckSyncingStep == ASSUME IInv, NEW p \in Slots, RecheckSyncing(p) PROVE IInv'
<1> USE DEF IInv, TypeOK, RecheckSyncing, LoopAt, At, Running, Goto, GotoWith, fsmVars, procVars,
     subVars, Driving, FSNA, LoopKinds
<1>1. TypeOK'
  BY DEF PCs, Targets, ConnFacts
<1>2. PlacesOK' /\ SingleDriver'
  BY DEF PlacesOK, Places, Checks, SingleDriver
<1>3. DriverMatchesState'
  BY DEF SingleDriver, ServiceOK, DriverMatchesState, ExpectedState, PlacesOK, Places, Checks,
       VerdictsOK
<1>4. VerdictsOK'
  BY DEF SingleDriver, ServiceOK, DriverMatchesState, ExpectedState, PlacesOK, Places, Checks,
       VerdictsOK, Declares, Verdicts
<1>5. NoFsmPanic' /\ ServiceOK' /\ NeverUnattended'
  BY DEF NoFsmPanic, ServiceOK, NeverUnattended, DriverMatchesState, ExpectedState, PlacesOK,
       Places, Checks, VerdictsOK, Declares, Verdicts
<1>6. ConnectionOK' /\ AliveIsVerified'
  BY DEF ConnectionOK, Knows, Verified, ChainVerified, AliveIsVerified, SingleDriver, ServiceOK,
       DriverMatchesState, ExpectedState, PlacesOK, Places, Checks, VerdictsOK, Declares, Verdicts
<1>7. DeferredOK'
  BY DEF DeferredOK, NoSubscriptionLeak, PlacesOK, Places, Checks, Subs
<1> QED
  BY <1>1, <1>2, <1>3, <1>4, <1>5, <1>6, <1>7

\* RecheckFinalizedState preserves the inductive invariant.
LEMMA RecheckFinalizedStateStep == ASSUME IInv, NEW p \in Slots, RecheckFinalizedState(p) PROVE IInv'
<1> USE DEF IInv, TypeOK, RecheckFinalizedState, LoopAt, At, Running, Goto, GotoWith, fsmVars,
     procVars, subVars, Driving, FSNA, LoopKinds
<1>1. TypeOK'
  BY DEF PCs, Targets
<1>2. PlacesOK' /\ SingleDriver'
  BY DEF PlacesOK, Places, Checks, SingleDriver
<1>3. DriverMatchesState'
  BY DEF SingleDriver, ServiceOK, DriverMatchesState, ExpectedState, PlacesOK, Places, Checks,
       VerdictsOK
<1>4. VerdictsOK'
  BY DEF SingleDriver, ServiceOK, DriverMatchesState, ExpectedState, PlacesOK, Places, Checks,
       VerdictsOK, Declares, Verdicts
<1>5. NoFsmPanic' /\ ServiceOK' /\ NeverUnattended'
  BY DEF NoFsmPanic, ServiceOK, NeverUnattended, DriverMatchesState, ExpectedState, PlacesOK,
       Places, Checks, VerdictsOK, Declares, Verdicts
<1>6. ConnectionOK' /\ AliveIsVerified'
  BY DEF ConnectionOK, Knows, Verified, ChainVerified, AliveIsVerified, SingleDriver, ServiceOK,
       DriverMatchesState, ExpectedState, PlacesOK, Places, Checks, VerdictsOK, Declares, Verdicts
<1>7. DeferredOK'
  BY DEF DeferredOK, NoSubscriptionLeak, PlacesOK, Places, Checks, Subs
<1> QED
  BY <1>1, <1>2, <1>3, <1>4, <1>5, <1>6, <1>7

\* Close preserves the inductive invariant.
LEMMA CloseStep == ASSUME IInv, Close PROVE IInv'
<1> USE DEF IInv, TypeOK, Close, Running, fsmVars, procVars, subVars, Driving, FSNA, LoopKinds
<1>1. TypeOK'
  BY DEF PCs, Targets, NodeStates
<1>2. PlacesOK' /\ SingleDriver'
  BY DEF PlacesOK, Places, Checks, SingleDriver
<1>3. DriverMatchesState'
  BY DEF SingleDriver, ServiceOK, DriverMatchesState, ExpectedState, PlacesOK, Places, Checks,
       VerdictsOK
<1>4. VerdictsOK'
  BY DEF SingleDriver, ServiceOK, DriverMatchesState, ExpectedState, PlacesOK, Places, Checks,
       VerdictsOK, Declares, Verdicts
<1>5. NoFsmPanic' /\ ServiceOK' /\ NeverUnattended'
  BY DEF NoFsmPanic, ServiceOK, NeverUnattended, DriverMatchesState, ExpectedState, PlacesOK,
       Places, Checks, VerdictsOK, Declares, Verdicts
<1>6. ConnectionOK' /\ AliveIsVerified'
  BY DEF ConnectionOK, Knows, Verified, ChainVerified, AliveIsVerified, SingleDriver, ServiceOK,
       DriverMatchesState, ExpectedState, PlacesOK, Places, Checks, VerdictsOK, Declares, Verdicts
<1>7. DeferredOK'
  BY DEF DeferredOK, NoSubscriptionLeak, PlacesOK, Places, Checks, Subs
<1> QED
  BY <1>1, <1>2, <1>3, <1>4, <1>5, <1>6, <1>7

\* CloseReturns preserves the inductive invariant.
LEMMA CloseReturnsStep == ASSUME IInv, CloseReturns PROVE IInv'
<1> USE DEF IInv, TypeOK, CloseReturns, Running, Free, RpcClose, fsmVars, procVars, subVars,
     Driving, FSNA, LoopKinds
<1>1. TypeOK'
  BY DEF PCs, Targets
<1>2. PlacesOK' /\ SingleDriver'
  BY DEF PlacesOK, Places, Checks, SingleDriver
<1>3. DriverMatchesState'
  BY DEF SingleDriver, ServiceOK, DriverMatchesState, ExpectedState, PlacesOK, Places, Checks,
       VerdictsOK
<1>4. VerdictsOK'
  BY DEF SingleDriver, ServiceOK, DriverMatchesState, ExpectedState, PlacesOK, Places, Checks,
       VerdictsOK, Declares, Verdicts
<1>5. NoFsmPanic' /\ ServiceOK' /\ NeverUnattended'
  BY DEF NoFsmPanic, ServiceOK, NeverUnattended, DriverMatchesState, ExpectedState, PlacesOK,
       Places, Checks, VerdictsOK, Declares, Verdicts
<1>6. ConnectionOK' /\ AliveIsVerified'
  BY DEF ConnectionOK, Knows, Verified, ChainVerified, AliveIsVerified, SingleDriver, ServiceOK,
       DriverMatchesState, ExpectedState, PlacesOK, Places, Checks, VerdictsOK, Declares, Verdicts
<1>7. DeferredOK'
  BY DEF DeferredOK, NoSubscriptionLeak, PlacesOK, Places, Checks, Subs
<1> QED
  BY <1>1, <1>2, <1>3, <1>4, <1>5, <1>6, <1>7

\* RemoteChanges preserves the inductive invariant: it moves no goroutine and changes no state.
LEMMA RemoteChangesStep == ASSUME IInv, RemoteChanges PROVE IInv'
<1> USE DEF IInv, TypeOK, RemoteChanges, Running, fsmVars, procVars, subVars
<1>1. TypeOK'
  BY DEF Remotes
<1>2. PlacesOK' /\ SingleDriver' /\ DriverMatchesState' /\ VerdictsOK'
  BY DEF PlacesOK, SingleDriver, DriverMatchesState, Driving, ExpectedState, VerdictsOK
<1>3. NoFsmPanic' /\ ServiceOK' /\ NeverUnattended'
  BY DEF NoFsmPanic, ServiceOK, NeverUnattended, Driving
<1>4. ConnectionOK' /\ AliveIsVerified'
  BY DEF ConnectionOK, AliveIsVerified, Driving, Knows, Verified, ChainVerified
<1>5. DeferredOK'
  BY DEF DeferredOK, NoSubscriptionLeak
<1> QED
  BY <1>1, <1>2, <1>3, <1>4, <1>5

-----------------------------------------------------------------------------
(* The inductive invariant *)

\* The initial state: no goroutine, nothing dialed.
LEMMA InitIInv == Init => IInv
<1> SUFFICES ASSUME Init PROVE IInv
  OBVIOUS
<1>1. TypeOK
  BY FreshType DEF Init, TypeOK, NodeStates, LoopKinds, PCs, Targets
<1>2. PlacesOK /\ SingleDriver /\ DriverMatchesState /\ VerdictsOK /\ NoFsmPanic
  BY DEF Init, PlacesOK, Places, SingleDriver, DriverMatchesState, Driving, VerdictsOK, NoFsmPanic
<1>3. ServiceOK /\ NeverUnattended /\ ConnectionOK /\ AliveIsVerified /\ DeferredOK
  BY DEF Init, ServiceOK, NeverUnattended, ConnectionOK, Driving, AliveIsVerified, DeferredOK,
         NoSubscriptionLeak
<1> QED
  BY <1>1, <1>2, <1>3 DEF IInv

\* A step that changes nothing.
LEMMA StutterStep == IInv /\ UNCHANGED vars => IInv'
BY DEF IInv, vars, fsmVars, procVars, subVars, TypeOK, PlacesOK, SingleDriver, DriverMatchesState,
       Driving, ExpectedState, VerdictsOK, NoFsmPanic, ServiceOK, NeverUnattended, ConnectionOK,
       Knows, Verified, ChainVerified, AliveIsVerified, DeferredOK, NoSubscriptionLeak

\* Every step of the node, of Close and of the endpoint preserves the invariant.
LEMMA NextIInv == IInv /\ [Next]_vars => IInv'
<1> SUFFICES ASSUME IInv, [Next]_vars PROVE IInv'
  OBVIOUS
<1>1. ASSUME NEW p \in Slots, Connect(p) PROVE IInv'
  BY <1>1, StartEntryStep, LoopEntryStep, DialFailsStep, DialSucceedsStep, SetDialedStep,
     VerifyChainIDStateStep, ChainIDCallStep, IsSyncingCallStep, JudgeStep, ProbeStep,
     GiveUpStep, DeclareStateStep, TransitionStep DEF Connect
<1>2. ASSUME NEW p \in Slots, Subscribing(p) PROVE IInv'
  BY <1>2, SubscribeStep, RegisterStep, SubscribeFinalizedStep, RegisterFinalizedStep,
     UnsubscribeHealthChecksStep DEF Subscribing
<1>3. ASSUME NEW p \in Slots, Watching(p) PROVE IInv'
  BY <1>3, PollStep, PollSyncStep, PollStateStep, NoNewHeadsStep, BackInSyncStep,
     OutOfSyncNewHeadStep, OutOfSyncNewFinalizedHeadStep, OutOfSyncNoNewHeadsStep,
     ZombieCheckStep, SubscriptionTerminatedStep, StopStep, BackoffElapsedStep,
     RecheckSyncingStep, RecheckFinalizedStateStep DEF Watching
<1> QED
  BY <1>1, <1>2, <1>3, StutterStep, StartStep, UnsubscribeAllExceptAliveLoopStep, CloseStep, CloseReturnsStep,
     RemoteChangesStep DEF Next

\* The inductive invariant holds in every reachable state.
THEOREM Invariance == Spec => []IInv
BY InitIInv, NextIInv, PTL DEF Spec

-----------------------------------------------------------------------------
(* What follows *)

\* The node's fields and the loops' locals keep their types, and the failure counters stop at
\* their limit.
THEOREM TypeCorrect == Spec => []TypeOK
BY Invariance, PTL DEF IInv

\* One goroutine at a time drives the node, between Start and Close always one, and the state
\* is the one this goroutine stands for.
THEOREM OneDriver == Spec => []Driven
<1>1. IInv => Driven
  BY DEF IInv, Driven
<1> QED
  BY <1>1, Invariance, PTL

\* No panic of the state machine can be reached.
THEOREM NoPanic == Spec => []NoFsmPanic
BY Invariance, PTL DEF IInv

\* A node that is Alive is connected, and the connection has passed the configured checks.
THEOREM AliveVerified == Spec => []AliveIsVerified
BY Invariance, PTL DEF IInv

\* Dial never replaces an open connection.
THEOREM NoConnectionLeak == Spec => []DialsClosedConnection
<1>1. IInv => DialsClosedConnection
  BY DEF IInv, DialsClosedConnection, ConnectionOK, Driving, Knows, PlacesOK, Places
<1> QED
  BY <1>1, Invariance, PTL

\* No health-check subscription outlives the loop that made it.
THEOREM NoLeak == Spec => []NoSubscriptionLeak
<1>1. IInv => NoSubscriptionLeak
  BY DEF IInv, DeferredOK
<1> QED
  BY <1>1, Invariance, PTL

\* When Close has returned, no goroutine, subscription or connection of the node is left.
THEOREM CloseReleases == Spec => []ClosedReleasesAll
<1>1. IInv => ClosedReleasesAll
  BY DEF IInv, TypeOK, ClosedReleasesAll, ServiceOK, DeferredOK, NoSubscriptionLeak, Free, Subs
<1> QED
  BY <1>1, Invariance, PTL

\* Neither a redial nor a change of loops nor Close leaves anything open behind it.
THEOREM NothingLeft == Spec => []NothingLeaks
BY NoConnectionLeak, NoLeak, CloseReleases, PTL DEF NothingLeaks

=============================================================================
