---------------------------- MODULE WriteTarget ----------------------------
(***************************************************************************)
(* The write target capability: every node of a DON executes the same      *)
(* request, asks the chain what became of the report, sends a transaction  *)
(* of its own if need be, waits until the transaction manager accepts it   *)
(* and polls the chain until the report is there.  The nodes race: one     *)
(* node's transaction fails because another's was first.                   *)
(*                                                                         *)
(* The forwarder contract and the transaction manager are external and are *)
(* modelled from what TargetStrategy asks of them; a query that does not   *)
(* fail is taken to return a state, which only the poll checks             *)
(* (write_target.go:308, :443).                                            *)
(***************************************************************************)
EXTENDS Naturals, Sequences

CONSTANTS Nodes,                \* the nodes that execute the request
          WriteAcceptanceState  \* status that ends the wait for a transaction

VARIABLES
    kind,      \* external: what the node's request is like
    report,    \* external: the forwarder's transmission state of the report
    status,    \* external: status of each node's transaction
    pc,        \* where each node's Execute is
    accepted,  \* waitTxReachesTerminalStatus's answer
    timeout,   \* how much of the node's time is over
    msgs,      \* messages the node emitted, in order
    lost,      \* messages that the emitter failed to take
    result     \* what Execute returned

chain == <<report, status>>
execution == <<pc, accepted, msgs, lost, result>>
writing == <<kind, chain, timeout, execution>>

\* A request that cannot be read, one whose report does not belong to it, one
\* with an empty report, and one to be written.
Kinds == {"invalid", "mismatch", "empty", "good"}

\* The order of commontypes.TransactionStatus.
Statuses == <<"unknown", "pending", "unconfirmed", "finalized", "failed", "fatal">>
Rank(s) == CHOOSE i \in DOMAIN Statuses : Statuses[i] = s

WriteInit ==
    /\ kind \in [Nodes -> Kinds]
    /\ report \in {"NotAttempted", "Failed"}
    /\ status = [n \in Nodes |-> "unknown"]
    /\ pc = [n \in Nodes |-> "start"]
    /\ accepted = [n \in Nodes |-> FALSE]
    /\ timeout = [n \in Nodes |-> "none"]
    /\ msgs = [n \in Nodes |-> <<>>]
    /\ lost = [n \in Nodes |-> {}]
    /\ result = [n \in Nodes |-> "none"]

-----------------------------------------------------------------------------
(* The chain.                                                               *)

\* A transaction is included.  The forwarder processes a report that was not
\* attempted or that failed, though the transmission may not show; a second
\* transmission reverts.
Include(n) ==
    /\ status[n] = "pending"
    /\ IF report \in {"NotAttempted", "Failed"}
       THEN /\ report' \in {report, "Succeeded", "Failed", "Fatal"}
            /\ status' = [status EXCEPT ![n] = "unconfirmed"]
       ELSE status' = [status EXCEPT ![n] = "failed"] /\ UNCHANGED report
    /\ UNCHANGED <<kind, timeout, execution>>

\* An included transaction is final; a pending one may never make it.
Settle(n) ==
    /\ \/ status[n] = "unconfirmed" /\ status' = [status EXCEPT ![n] = "finalized"]
       \/ status[n] = "pending" /\ status' = [status EXCEPT ![n] = "fatal"]
    /\ UNCHANGED <<kind, report, timeout, execution>>

\* The context of acceptAndConfirmWrite ends, or that of the request, which
\* ends the former too.
Expire(n) ==
    /\ \/ timeout[n] = "none" /\ pc[n] \in {"wait", "confirm"}
          /\ timeout' = [timeout EXCEPT ![n] = "acceptance"]
       \/ timeout[n] # "request" /\ timeout' = [timeout EXCEPT ![n] = "request"]
    /\ result[n] = "none"
    /\ UNCHANGED <<kind, chain, execution>>

-----------------------------------------------------------------------------
(* Execute.                                                                 *)

Goto(n, p) == pc' = [pc EXCEPT ![n] = p]
Return(n, r) == Goto(n, "done") /\ result' = [result EXCEPT ![n] = r]

\* EmitWithLog: the message may be lost, with the context or otherwise.  The
\* callers log that, or ignore it, and go on as if it had been emitted.
Emit(n, m) ==
    \/ msgs' = [msgs EXCEPT ![n] = Append(@, m)] /\ UNCHANGED lost
    \/ lost' = [lost EXCEPT ![n] = @ \cup {m}] /\ UNCHANGED msgs

Silent == UNCHANGED <<msgs, lost>>

\* asEmittedError: the error is emitted, and returned, with the emitter's own
\* if that failed.
asEmittedError(n) == Emit(n, "Error") /\ Return(n, "error")

\* The part of Execute before the first message: the config and the signed
\* report.
Validate(n) ==
    /\ pc[n] = "start"
    /\ \/ kind[n] = "invalid" /\ asEmittedError(n)
       \/ kind[n] # "invalid" /\ Emit(n, "Initiated") /\ Goto(n, "report") /\ UNCHANGED result
    /\ UNCHANGED <<kind, chain, timeout, accepted>>

\* The empty report, and the IDs that the report carries.
CheckReport(n) ==
    /\ pc[n] = "report"
    /\ \/ kind[n] = "empty" /\ Emit(n, "Skipped") /\ Return(n, "ok")
       \/ kind[n] = "mismatch" /\ asEmittedError(n)
       \/ kind[n] = "good" /\ Goto(n, "head") /\ Silent /\ UNCHANGED result
    /\ UNCHANGED <<kind, chain, timeout, accepted>>

\* retry.With: LatestHead is called until it answers or the context of the
\* request ends.
LatestHead(n) ==
    /\ pc[n] = "head"
    /\ \/ timeout[n] # "request" /\ Goto(n, "query") /\ Silent /\ UNCHANGED result
       \/ timeout[n] = "request" /\ asEmittedError(n)
    /\ UNCHANGED <<kind, chain, timeout, accepted>>

\* What the first QueryTransmissionState leads to.
QueryTransmissionState(n) ==
    /\ pc[n] = "query"
    /\ \/ asEmittedError(n)
       \/ /\ timeout[n] # "request"
          /\ CASE report \in {"NotAttempted", "Failed"} ->
                     Goto(n, "transmit") /\ Silent /\ UNCHANGED result
               [] report = "Fatal" -> asEmittedError(n)
               [] report = "Succeeded" -> Emit(n, "Confirmed") /\ Return(n, "ok")
    /\ UNCHANGED <<kind, chain, timeout, accepted>>

TransmitReport(n) ==
    /\ pc[n] = "transmit"
    /\ \/ asEmittedError(n) /\ UNCHANGED status
       \/ /\ timeout[n] # "request"
          /\ status' = [status EXCEPT ![n] = "pending"]
          /\ Emit(n, "Sent")
          /\ Goto(n, "wait")
          /\ UNCHANGED result
    /\ UNCHANGED <<kind, report, timeout, accepted>>

\* Fault: a failed transaction ends the write.
waitTxFailsWrite(n) ==
    /\ pc[n] = "wait"
    /\ \/ status[n] \in {"failed", "fatal"} /\ asEmittedError(n) /\ UNCHANGED accepted
       \/ /\ status[n] \notin {"failed", "fatal"} /\ Rank(status[n]) >= Rank(WriteAcceptanceState)
          /\ accepted' = [accepted EXCEPT ![n] = TRUE]
          /\ Goto(n, "confirm") /\ Silent /\ UNCHANGED result
    /\ UNCHANGED <<kind, chain, timeout>>

\* waitTxReachesTerminalStatus: a tick that finds a terminal status.
waitTxReachesTerminalStatus(n) ==
    /\ pc[n] = "wait"
    /\ status[n] \in {"failed", "fatal"} \/ Rank(status[n]) >= Rank(WriteAcceptanceState)
    /\ accepted' = [accepted EXCEPT ![n] = status[n] \notin {"failed", "fatal"}]
    /\ Goto(n, "confirm")
    /\ UNCHANGED <<kind, chain, timeout, msgs, lost, result>>

\* Fault: only the second loop looks at the context.
ContextDoneConfirming(n) ==
    /\ pc[n] = "confirm" /\ timeout[n] # "none"
    /\ asEmittedError(n)
    /\ UNCHANGED <<kind, chain, timeout, accepted>>

\* The context of acceptAndConfirmWrite is done, in either of its loops.
ContextDone(n) ==
    /\ pc[n] \in {"wait", "confirm"} /\ timeout[n] # "none"
    /\ asEmittedError(n)
    /\ UNCHANGED <<kind, chain, timeout, accepted>>

\* Whether the poll finds the report: any state but NotAttempted.
Visible(n) == report # "NotAttempted"

\* acceptAndConfirmWrite: a tick that finds the report on chain.
acceptAndConfirmWrite(n) ==
    /\ pc[n] = "confirm" /\ Visible(n)
    /\ Emit(n, "Confirmed")
    /\ Goto(n, "fee")
    /\ UNCHANGED <<kind, chain, timeout, accepted, result>>

\* Execute succeeds whether or not the fee is known.
GetTransactionFee(n) ==
    /\ pc[n] = "fee"
    /\ Return(n, "ok")
    /\ UNCHANGED <<kind, chain, timeout, accepted, msgs, lost>>

Execute(n) ==
    \/ Validate(n) \/ CheckReport(n) \/ LatestHead(n) \/ QueryTransmissionState(n)
    \/ TransmitReport(n)
    \/ waitTxReachesTerminalStatus(n) \/ ContextDone(n) \/ acceptAndConfirmWrite(n)
    \/ GetTransactionFee(n)

WriteNext == \E n \in Nodes : Execute(n) \/ Include(n) \/ Settle(n) \/ Expire(n)

WriteSpec == WriteInit /\ [][WriteNext]_writing

\* Execute runs, the acceptance timeout passes, and the caller ends the
\* request's context in the end; the chain need not move.
FairWriteSpec == WriteSpec /\ \A n \in Nodes : WF_writing(Execute(n)) /\ WF_writing(Expire(n))

-----------------------------------------------------------------------------
(* Properties.                                                              *)

Messages == {"Initiated", "Skipped", "Sent", "Confirmed", "Error"}

\* Every variable has its type.
WriteTypeOK ==
    /\ kind \in [Nodes -> Kinds]
    /\ report \in {"NotAttempted", "Succeeded", "Failed", "Fatal"}
    /\ status \in [Nodes -> {Statuses[i] : i \in DOMAIN Statuses}]
    /\ pc \in [Nodes -> {"start", "report", "head", "query", "transmit", "wait", "confirm",
                         "fee", "done"}]
    /\ accepted \in [Nodes -> BOOLEAN]
    /\ timeout \in [Nodes -> {"none", "acceptance", "request"}]
    /\ msgs \in [Nodes -> Seq(Messages)] /\ lost \in [Nodes -> SUBSET Messages]
    /\ result \in [Nodes -> {"none", "ok", "error"}]

Outcomes == {"Skipped", "Confirmed", "Error"}

Emitted(n, m) == \E i \in DOMAIN msgs[n] : msgs[n][i] = m
Tried(n, m) == Emitted(n, m) \/ m \in lost[n]

\* An Execute that returns has told monitoring its outcome at most once, last,
\* and as it is: Error exactly if it fails.  It has told none only if the
\* emitter failed at that; then it returns what it would have returned
\* (write_target.go:459, :519).
OneOutcome ==
    \A n \in Nodes : result[n] # "none" =>
        LET told == {i \in DOMAIN msgs[n] : msgs[n][i] \in Outcomes}
        IN /\ told \subseteq {Len(msgs[n])}
           /\ \A i \in told : (msgs[n][i] = "Error") <=> (result[n] = "error")
           /\ (told = {}) <=> (lost[n] \cap Outcomes # {})

\* A node confirms a write, and its Execute succeeds with a report to be
\* written, only if the report is visible on chain, be it by its own
\* transaction or by another node's.
ConfirmedIsVisible ==
    \A n \in Nodes : Emitted(n, "Confirmed") \/ (kind[n] = "good" /\ result[n] = "ok") =>
        report # "NotAttempted"

\* Once a node has sent the report, only a timeout makes its Execute fail: that
\* its own transaction failed is no error, for another node may have been first.
OnlyTimeoutFails ==
    \A n \in Nodes : Tried(n, "Sent") /\ result[n] = "error" => timeout[n] # "none"

\* What a node reports and returns is what became of the report, whichever
\* node wrote it.
OutcomeIsTrue == WriteTypeOK /\ OneOutcome /\ ConfirmedIsVisible /\ OnlyTimeoutFails

\* Execute returns, although the chain may stop answering at any point.  Once
\* the report is sent that is the acceptance timeout's doing; before, LatestHead
\* is retried without a bound (retry.go:42), and it is the caller who must end
\* the context.
Returns == \A n \in Nodes : <>(result[n] # "none")

-----------------------------------------------------------------------------
(* What the comments promise and the code does not keep *)

\* write_confirmed.proto:9, "WT confirmed the report was successfully
\* written on-chain": the report was transmitted with success.
ConfirmedIsWritten == \A n \in Nodes : Emitted(n, "Confirmed") => report = "Succeeded"

=============================================================================
