-------------------------- MODULE TransactionSender --------------------------
(***************************************************************************)
(* multinode/transaction_sender.go: SendTransaction broadcasts one         *)
(* transaction to every live node through MultiNode.DoAll, collects the    *)
(* answers of the primary nodes until it has enough of them, and answers   *)
(* its caller, while background goroutines go on waiting for slow nodes    *)
(* and report contradictory answers.                                       *)
(*                                                                         *)
(* One call runs these goroutines:                                         *)
(*   the caller, in DoAll and then in collectTxResults (pc, todo);         *)
(*   one broadcast job per live node (job);                                *)
(*   one that closes both channels when the primary jobs end (closer);     *)
(*   reportSendTxAnomalies (reporter).                                     *)
(* Both channels are unbuffered: a job's send and the matching receive are *)
(* one step.                                                               *)
(***************************************************************************)
EXTENDS Naturals, Sequences, FiniteSets

CONSTANTS
    Calls,               \* the SendTransaction calls
    Primaries,           \* the primary nodes
    SendOnlys,           \* the send-only nodes
    Outcomes             \* the return codes an RPC may answer with

Nodes == Primaries \union SendOnlys

sendTxSevereErrors ==
    <<"Fatal", "Underpriced", "Unsupported", "ExceedsMaxFee", "FeeOutOfValidRange",
      "Unknown">>
sendTxSuccessfulCodes == <<"Successful", "TransactionAlreadyKnown">>
SendTxReturnCode ==
    {sendTxSevereErrors[i] : i \in DOMAIN sendTxSevereErrors}
      \union {sendTxSuccessfulCodes[i] : i \in DOMAIN sendTxSuccessfulCodes}
      \union {"Retryable", "InsufficientFunds", "TerminallyStuck"}

\* The zero value of SendTxReturnCode, which names no outcome.
NoCode == "SendTxReturnCode(0)"

ASSUME ConfigAssumption ==
    /\ Primaries \intersect SendOnlys = {}
    /\ IsFiniteSet(Primaries)
    /\ Outcomes \subseteq SendTxReturnCode

VARIABLES
    service,      \* the StateMachine of the sender
    pc, todo,     \* per call: where the caller is; the nodes DoAll has left
    cancelled,    \* per call: the caller cancelled its context
    job,          \* per call and node: the broadcast goroutine
    code,         \* per call and node: what the node answered
    closer,       \* per call: the goroutine that closes the channels
    reporter,     \* per call: reportSendTxAnomalies
    got,          \* per call: the nodes whose result was collected
    count, timer, \* per call: resultsCount; softTimeoutChan is set
    reported,     \* per call: the nodes whose result the reporter received
    alarm,        \* per call: the invariant violation was reported
    answer        \* per call: what SendTransaction returned

jobs == <<job, code, closer, reporter, reported, alarm>>
caller == <<pc, todo, got, count, timer, answer>>
vars == <<service, cancelled, jobs, caller>>

NoAnswer == [by |-> "none", code |-> NoCode]

Init ==
    /\ service = "unstarted"
    /\ pc = [c \in Calls |-> "idle"]
    /\ todo = [c \in Calls |-> {}]
    /\ cancelled = [c \in Calls |-> FALSE]
    /\ job = [c \in Calls |-> [n \in Nodes |-> "none"]]
    /\ code = [c \in Calls |-> [n \in Nodes |-> NoCode]]
    /\ closer = [c \in Calls |-> "none"]
    /\ reporter = [c \in Calls |-> "none"]
    /\ got = [c \in Calls |-> {}]
    /\ count = [c \in Calls |-> 0]
    /\ timer = [c \in Calls |-> FALSE]
    /\ reported = [c \in Calls |-> {}]
    /\ alarm = [c \in Calls |-> FALSE]
    /\ answer = [c \in Calls |-> NoAnswer]

-----------------------------------------------------------------------------
(***************************************************************************)
(* The aggregation of results, a function of the set of codes received.    *)
(***************************************************************************)

FindsIn(codes, keys) == \E i \in DOMAIN keys : keys[i] \in codes

FindFirstIn(codes, keys) ==
    keys[CHOOSE i \in DOMAIN keys :
           keys[i] \in codes /\ \A j \in 1 .. (i - 1) : keys[j] \notin codes]

\* Fault: a terminal error wins over a success.
AggregateSevereFirst(codes) ==
    IF FindsIn(codes, sendTxSevereErrors)
      THEN {FindFirstIn(codes, sendTxSevereErrors)}
      ELSE IF FindsIn(codes, sendTxSuccessfulCodes)
        THEN {FindFirstIn(codes, sendTxSuccessfulCodes)}
        ELSE codes

\* The codes aggregateTxResults may return: the iteration over a map makes the
\* choice among temporary errors arbitrary.
AggregateTxResults(codes) ==
    IF FindsIn(codes, sendTxSuccessfulCodes)
      THEN {FindFirstIn(codes, sendTxSuccessfulCodes)}
      ELSE IF FindsIn(codes, sendTxSevereErrors)
        THEN {FindFirstIn(codes, sendTxSevereErrors)}
        ELSE codes

\* Its criticalErr: a success and a terminal error for one transaction.
Contradiction(codes) ==
    FindsIn(codes, sendTxSuccessfulCodes) /\ FindsIn(codes, sendTxSevereErrors)

CodesOf(c, nodes) == {code[c][n] : n \in nodes}

-----------------------------------------------------------------------------
(***************************************************************************)
(* The service.  IfStarted and StopOnce of services.StateMachine exclude   *)
(* each other: the body of Close runs when no SendTransaction does.        *)
(***************************************************************************)

Start ==
    /\ service = "unstarted"
    /\ service' = "started"
    /\ UNCHANGED <<cancelled, jobs, caller>>

InFlight(c) == pc[c] \in {"doAll", "collect"}

Close ==
    /\ service = "started"
    /\ service' = "stopping"
    /\ UNCHANGED <<cancelled, jobs, caller>>

\* close(txSender.chStop)
CloseStop ==
    /\ service = "stopping"
    /\ \A c \in Calls : ~InFlight(c)
    /\ service' = "draining"
    /\ UNCHANGED <<cancelled, jobs, caller>>

ChStopClosed == service \in {"draining", "stopped"}

\* Fault: the goroutine that waits for the primary jobs is not counted.
WaitGroupIgnoresCloser(c) ==
    /\ \A n \in SendOnlys : job[c][n] \in {"none", "done"}
    /\ reporter[c] # "running"

\* The goroutines counted by txSender.wg have all ended.
WaitGroupDone(c) ==
    /\ \A n \in SendOnlys : job[c][n] \in {"none", "done"}
    /\ closer[c] # "waiting"
    /\ reporter[c] # "running"

CloseReturns ==
    /\ service = "draining"
    /\ \A c \in Calls : WaitGroupDone(c)
    /\ service' = "stopped"
    /\ UNCHANGED <<cancelled, jobs, caller>>

\* The context of the call: ended by its caller, by chStop, and by the deferred
\* cancel when SendTransaction returns.
CtxDone(c) == cancelled[c] \/ ChStopClosed \/ pc[c] = "returned"

Cancel(c) ==
    /\ pc[c] # "returned"
    /\ ~cancelled[c]
    /\ cancelled' = [cancelled EXCEPT ![c] = TRUE]
    /\ UNCHANGED <<service, jobs, caller>>

-----------------------------------------------------------------------------
(***************************************************************************)
(* SendTransaction: the broadcast.                                         *)
(***************************************************************************)

Answers(c, by, codes) ==
    /\ \E k \in codes : answer' = [answer EXCEPT ![c] = [by |-> by, code |-> k]]
    /\ pc' = [pc EXCEPT ![c] = "returned"]

SendTransaction(c) ==
    /\ pc[c] = "idle"
    /\ IF service = "started"
         THEN /\ pc' = [pc EXCEPT ![c] = "doAll"]
              /\ todo' = [todo EXCEPT ![c] = Nodes]
              /\ UNCHANGED answer
         ELSE Answers(c, "notStarted", {NoCode}) /\ UNCHANGED todo
    /\ UNCHANGED <<service, cancelled, jobs, got, count, timer>>

\* DoAll comes to a node: it launches the job of a live one.  Primary nodes
\* come first.
DoAllVisits(c, n) ==
    /\ pc[c] = "doAll"
    /\ ~CtxDone(c)
    /\ n \in todo[c]
    /\ n \in SendOnlys => todo[c] \intersect Primaries = {}
    /\ todo' = [todo EXCEPT ![c] = @ \ {n}]
    /\ \E alive \in BOOLEAN :
         job' = IF alive THEN [job EXCEPT ![c][n] = "sending"] ELSE job
    /\ UNCHANGED <<service, cancelled, code, closer, reporter, reported, alarm,
                   pc, got, count, timer, answer>>

\* The nodes counted in healthyNodesNum.
HealthyNodes(c) == {n \in Primaries : job[c][n] # "none"}

\* DoAll returns nil, or an error: MultiNode is stopped, or the context ended
\* before a node.  Without an error and with a healthy node there is something
\* to collect; the goroutine that closes the channels runs in any case.
DoAllReturns(c) ==
    /\ pc[c] = "doAll"
    /\ closer' = [closer EXCEPT ![c] = "waiting"]
    /\ \/ /\ todo[c] = {}
          /\ HealthyNodes(c) # {}
          /\ pc' = [pc EXCEPT ![c] = "collect"]
          /\ reporter' = [reporter EXCEPT ![c] = "running"]
          /\ UNCHANGED answer
       \/ /\ \/ todo[c] = {} /\ HealthyNodes(c) = {}
             \/ todo[c] = Nodes
             \/ todo[c] # {} /\ CtxDone(c)
          /\ Answers(c, "doAll", {NoCode})
          /\ UNCHANGED reporter
    /\ UNCHANGED <<service, cancelled, job, code, reported, alarm,
                   todo, got, count, timer>>

-----------------------------------------------------------------------------
(***************************************************************************)
(* SendTransaction: collectTxResults.                                      *)
(***************************************************************************)

\* ceil(healthyNodesNum * sendTxQuorum), with sendTxQuorum = 0.7.
RequiredResults(c) == (7 * Cardinality(HealthyNodes(c)) + 9) \div 10

Accepted(k) == FindsIn({k}, sendTxSuccessfulCodes)

\* A result with code k was received; collected are the codes received so far.
Collects(c, k, collected) ==
    /\ count' = [count EXCEPT ![c] = @ + 1]
    /\ IF Accepted(k) \/ count[c] + 1 >= RequiredResults(c)
         THEN /\ Answers(c, "result", AggregateTxResults(collected))
              /\ UNCHANGED timer
         ELSE /\ timer' = [timer EXCEPT ![c] = TRUE]
              /\ UNCHANGED <<pc, answer>>

\* The zero result of a closed channel, if one was received.
ZeroCode(c) == IF count[c] > Cardinality(got[c]) THEN {NoCode} ELSE {}

CollectResult(c, n) ==
    /\ pc[c] = "collect"
    /\ job[c][n] = "offering"
    /\ job' = [job EXCEPT ![c][n] = "reporting"]
    /\ got' = [got EXCEPT ![c] = @ \union {n}]
    /\ Collects(c, code[c][n], CodesOf(c, got[c] \union {n}) \union ZeroCode(c))
    /\ UNCHANGED <<service, cancelled, code, closer, reporter, reported, alarm, todo>>

\* txResults is closed: the receive yields the zero result.
CollectZero(c) ==
    /\ pc[c] = "collect"
    /\ closer[c] = "closed"
    /\ Collects(c, NoCode, CodesOf(c, got[c]) \union {NoCode})
    /\ UNCHANGED <<service, cancelled, jobs, todo, got>>

CollectSoftTimeout(c) ==
    /\ pc[c] = "collect"
    /\ timer[c]
    /\ Answers(c, "softTimeout",
               AggregateTxResults(CodesOf(c, got[c]) \union ZeroCode(c)))
    /\ UNCHANGED <<service, cancelled, jobs, todo, got, count, timer>>

CollectContextDone(c) ==
    /\ pc[c] = "collect"
    /\ CtxDone(c)
    /\ Answers(c, "context", {NoCode})
    /\ UNCHANGED <<service, cancelled, jobs, todo, got, count, timer>>

-----------------------------------------------------------------------------
(***************************************************************************)
(* The background goroutines.                                              *)
(***************************************************************************)

\* broadcastTxAsync ends: the RPC answered, or chStop ended its context.
Broadcast(c, n) ==
    /\ job[c][n] = "sending"
    /\ \E k \in Outcomes : code' = [code EXCEPT ![c][n] = k]
    /\ job' = [job EXCEPT ![c][n] = IF n \in Primaries THEN "offering" ELSE "done"]
    /\ UNCHANGED <<service, cancelled, closer, reporter, reported, alarm, caller>>

\* Fault: a job waits for its result to be collected without the context.
OfferDroppedOnStop(c, n) ==
    /\ job[c][n] = "offering"
    /\ ChStopClosed
    /\ job' = [job EXCEPT ![c][n] = "done"]
    /\ UNCHANGED <<service, cancelled, code, closer, reporter, reported, alarm, caller>>

\* The context of the call ends before anybody collects the result.
OfferDropped(c, n) ==
    /\ job[c][n] = "offering"
    /\ CtxDone(c)
    /\ job' = [job EXCEPT ![c][n] = "done"]
    /\ UNCHANGED <<service, cancelled, code, closer, reporter, reported, alarm, caller>>

Report(c, n) ==
    /\ job[c][n] = "reporting"
    /\ reporter[c] = "running"
    /\ job' = [job EXCEPT ![c][n] = "done"]
    /\ reported' = [reported EXCEPT ![c] = @ \union {n}]
    /\ UNCHANGED <<service, cancelled, code, closer, reporter, alarm, caller>>

\* Fault: the report is given up with the caller's context.
ReportDroppedWithCaller(c, n) ==
    /\ job[c][n] = "reporting"
    /\ CtxDone(c)
    /\ job' = [job EXCEPT ![c][n] = "done"]
    /\ UNCHANGED <<service, cancelled, code, closer, reporter, reported, alarm, caller>>

\* Reporting is detached from the caller's context: only chStop ends it.
ReportDropped(c, n) ==
    /\ job[c][n] = "reporting"
    /\ ChStopClosed
    /\ job' = [job EXCEPT ![c][n] = "done"]
    /\ UNCHANGED <<service, cancelled, code, closer, reporter, reported, alarm, caller>>

CloseChannels(c) ==
    /\ closer[c] = "waiting"
    /\ \A n \in Primaries : job[c][n] \in {"none", "done"}
    /\ closer' = [closer EXCEPT ![c] = "closed"]
    /\ UNCHANGED <<service, cancelled, job, code, reporter, reported, alarm, caller>>

\* reportSendTxAnomalies after its loop over the closed channel.
ReportSendTxAnomalies(c) ==
    /\ reporter[c] = "running"
    /\ closer[c] = "closed"
    /\ reporter' = [reporter EXCEPT ![c] = "done"]
    /\ alarm' = [alarm EXCEPT ![c] = Contradiction(CodesOf(c, reported[c]))]
    /\ UNCHANGED <<service, cancelled, job, code, closer, reported, caller>>

-----------------------------------------------------------------------------

Calling(c) ==
    \/ \E n \in Nodes : DoAllVisits(c, n)
    \/ DoAllReturns(c)
    \/ \E n \in Primaries : CollectResult(c, n)
    \/ CollectZero(c)
    \/ CollectSoftTimeout(c)
    \/ CollectContextDone(c)

Background(c) ==
    \/ \E n \in Nodes : Broadcast(c, n)
    \/ \E n \in Primaries : OfferDropped(c, n) \/ Report(c, n) \/ ReportDropped(c, n)
    \/ CloseChannels(c)
    \/ ReportSendTxAnomalies(c)

Next ==
    \/ Start
    \/ Close
    \/ CloseStop
    \/ CloseReturns
    \/ \E c \in Calls : SendTransaction(c) \/ Cancel(c) \/ Calling(c) \/ Background(c)

Spec == Init /\ [][Next]_vars

\* Every goroutine runs, and every RPC call ends: at the RPC's own timeout, as
\* broadcastTxAsync gives it no deadline.  No caller needs to cancel.
Fairness ==
    /\ WF_vars(CloseStop) /\ WF_vars(CloseReturns)
    /\ \A c \in Calls :
         /\ WF_vars(Calling(c))
         /\ WF_vars(CloseChannels(c)) /\ WF_vars(ReportSendTxAnomalies(c))
         /\ \A n \in Nodes :
              WF_vars(Broadcast(c, n)) /\ WF_vars(OfferDropped(c, n)) /\ WF_vars(Report(c, n))

LiveSpec == Spec /\ Fairness

-----------------------------------------------------------------------------
(***************************************************************************)
(* Properties.                                                             *)
(***************************************************************************)

\* Every variable has its type.
TypeOK ==
    /\ service \in {"unstarted", "started", "stopping", "draining", "stopped"}
    /\ pc \in [Calls -> {"idle", "doAll", "collect", "returned"}]
    /\ todo \in [Calls -> SUBSET Nodes]
    /\ cancelled \in [Calls -> BOOLEAN]
    /\ job \in [Calls -> [Nodes -> {"none", "sending", "offering", "reporting", "done"}]]
    /\ code \in [Calls -> [Nodes -> SendTxReturnCode \union {NoCode}]]
    /\ closer \in [Calls -> {"none", "waiting", "closed"}]
    /\ reporter \in [Calls -> {"none", "running", "done"}]
    /\ got \in [Calls -> SUBSET Primaries]
    /\ count \in [Calls -> 0 .. Cardinality(Primaries)]
    /\ timer \in [Calls -> BOOLEAN]
    /\ reported \in [Calls -> SUBSET Primaries]
    /\ alarm \in [Calls -> BOOLEAN]
    /\ answer \in [Calls -> [by : {"none", "notStarted", "doAll", "context", "result",
                                   "softTimeout"},
                             code : SendTxReturnCode \union {NoCode}]]

\* SendTransaction returned the aggregate of what it collected.
Aggregated(c) == answer[c].by \in {"result", "softTimeout"}

\* The doc's aggregation: a collected success is returned whatever else was
\* collected, a terminal error only when no success was, and either only when a
\* primary node really answered so.
AnswerFollowsResults ==
    \A c \in Calls : Aggregated(c) =>
        LET codes == CodesOf(c, got[c]) IN
        /\ FindsIn(codes, sendTxSuccessfulCodes) <=> Accepted(answer[c].code)
        /\ FindsIn({answer[c].code}, sendTxSevereErrors)
             <=> /\ FindsIn(codes, sendTxSevereErrors)
                 /\ ~FindsIn(codes, sendTxSuccessfulCodes)

\* The doc's three conditions under which the collection succeeds.
CollectedEnough(c) ==
    \/ FindsIn(CodesOf(c, got[c]), sendTxSuccessfulCodes)
    \/ answer[c].by = "softTimeout" /\ got[c] # {}
    \/ 10 * Cardinality(got[c]) >= 7 * Cardinality(HealthyNodes(c))

\* A call whose caller did not cancel returns results only under them.
EnoughUnlessCancelled ==
    \A c \in Calls : Aggregated(c) /\ ~cancelled[c] => CollectedEnough(c)

\* The answer of SendTransaction follows from the results it has collected, and
\* it has collected enough of them.
AnswerIsEarned == TypeOK /\ AnswerFollowsResults /\ EnoughUnlessCancelled

\* Every result that was collected is also reported, however early the caller
\* leaves, unless the sender is being closed.
CollectedIsReported ==
    \A c \in Calls :
        reporter[c] = "done" /\ ~ChStopClosed => got[c] \subseteq reported[c]

\* No false alarm: a contradiction is reported only when one node accepted the
\* transaction and another rejected it for good.
AlarmsAreReal ==
    \A c \in Calls : alarm[c] =>
        \E m, n \in Primaries :
            /\ job[c][m] = "done" /\ Accepted(code[c][m])
            /\ job[c][n] = "done" /\ FindsIn({code[c][n]}, sendTxSevereErrors)

\* The reporter sees every result that was collected, and reports no
\* contradiction that is none.
ReportsAreTrue == CollectedIsReported /\ AlarmsAreReal

\* When Close returns no goroutine of any call is left, the primary jobs
\* included, which wg counts only through the goroutine that waits for them.
CloseLeavesNothing ==
    service = "stopped" =>
        \A c \in Calls : ~InFlight(c) /\ \A n \in Nodes : job[c][n] \in {"none", "done"}

\* Every SendTransaction returns, even if its caller never cancels.
SendTransactionReturns == \A c \in Calls : InFlight(c) ~> pc[c] = "returned"

\* After a call has returned, its background goroutines end by themselves: no
\* job waits for a collector or a reporter that is gone.
NoGoroutineLeak ==
    \A c \in Calls : pc[c] = "returned" ~>
        /\ WaitGroupDone(c)
        /\ \A n \in Nodes : job[c][n] \in {"none", "done"}

\* Close returns.
CloseTerminates == service = "stopping" ~> service = "stopped"

\* Calls, their goroutines and Close all end, over unbuffered channels whose
\* readers may have left.
CallsEnd == SendTransactionReturns /\ NoGoroutineLeak /\ CloseTerminates

-----------------------------------------------------------------------------
(* What the comments promise and the code does not keep *)

\* SendTransaction's doc, without exception: results are returned only under
\* those conditions.
CollectionSucceedsOnEnough ==
    \A c \in Calls : Aggregated(c) => CollectedEnough(c)

\* The doc: "If there is both success and terminal error - returns success and
\* reports invariant violation".  Once every goroutine of the call has ended and
\* the sender is not closed, contradictory answers have been reported.
ContradictionsReported ==
    \A c \in Calls :
        (reporter[c] = "done" /\ ~ChStopClosed /\ Contradiction(CodesOf(c, HealthyNodes(c))))
          => alarm[c]

=============================================================================
