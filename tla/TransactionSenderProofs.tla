---------------------- MODULE TransactionSenderProofs ----------------------
(***************************************************************************)
(* The answers, the reports and the end of the transaction sender are      *)
(* right for any number of calls and nodes and any outcomes.               *)
(*                                                                         *)
(* The argument: a result passes through a job, the collector and the      *)
(* reporter, each of which leaves a trace that the next one relies on; and *)
(* the zero result of a closed channel is collected only by a call whose   *)
(* caller cancelled it, for otherwise every healthy node's result was      *)
(* collected before, and they are enough.                                  *)
(***************************************************************************)
EXTENDS TransactionSender, FiniteSetTheorems, TLAPS

\* The provers in the order in which they are tried: most leaves are first-order.
USE ZenonT(5), SMTT(12), Z3T(12), ZenonT(20)

\* What a call has done at each place, and which of its goroutines can be left.
Places(c) ==
    /\ pc[c] \in {"idle", "doAll"} =>
         /\ got[c] = {} /\ count[c] = 0 /\ closer[c] = "none" /\ reporter[c] = "none"
    /\ pc[c] # "returned" => answer[c] = NoAnswer
    /\ pc[c] = "doAll" => \A n \in todo[c] : job[c][n] = "none"
    /\ pc[c] # "doAll" /\ closer[c] = "none" => \A n \in Nodes : job[c][n] = "none"
    /\ closer[c] = "closed" => \A n \in Primaries : job[c][n] \in {"none", "done"}
    /\ reporter[c] = "done" => closer[c] = "closed"

\* Where the result of a node is.
Results(c) ==
    /\ \A n \in got[c] : job[c][n] \in {"reporting", "done"}
    /\ \A n \in Primaries : job[c][n] = "reporting" => n \in got[c]
    /\ \A n \in reported[c] : job[c][n] = "done"
    /\ ~ChStopClosed => \A n \in got[c] : job[c][n] = "reporting" \/ n \in reported[c]

\* A call that nobody cancelled has counted what it collected, and lost none.
Counted(c) ==
    /\ pc[c] = "collect" => HealthyNodes(c) # {} /\ count[c] < RequiredResults(c)
    /\ InFlight(c) /\ ~cancelled[c] =>
         \A n \in Primaries : job[c][n] = "done" => n \in got[c]
    /\ ~cancelled[c] => count[c] = Cardinality(got[c])
    /\ timer[c] => count[c] > 0

\* What the call has told its caller and its reporter.
Told(c) ==
    /\ Aggregated(c) =>
         LET codes == CodesOf(c, got[c]) IN
         /\ FindsIn(codes, sendTxSuccessfulCodes) <=> Accepted(answer[c].code)
         /\ FindsIn({answer[c].code}, sendTxSevereErrors)
              <=> /\ FindsIn(codes, sendTxSevereErrors)
                  /\ ~FindsIn(codes, sendTxSuccessfulCodes)
    /\ Aggregated(c) /\ ~cancelled[c] => CollectedEnough(c)
    /\ alarm[c] =>
         \E m, n \in Primaries :
             /\ job[c][m] = "done" /\ Accepted(code[c][m])
             /\ job[c][n] = "done" /\ FindsIn({code[c][n]}, sendTxSevereErrors)

\* The body of Close runs when no call does, and returns when no goroutine does.
Closing(c) ==
    /\ ChStopClosed => ~InFlight(c)
    /\ service = "stopped" => WaitGroupDone(c)

CallInv(c) == Places(c) /\ Results(c) /\ Counted(c) /\ Told(c) /\ Closing(c)

\* The inductive invariant.
IInv == TypeOK /\ \A c \in Calls : CallInv(c)

-----------------------------------------------------------------------------
(* The aggregation of results.                                             *)

LEMMA SuccessfulCodes ==
    ASSUME NEW codes
    PROVE  FindsIn(codes, sendTxSuccessfulCodes)
             <=> "Successful" \in codes \/ "TransactionAlreadyKnown" \in codes
BY SMT DEF FindsIn, sendTxSuccessfulCodes

LEMMA SevereCodes ==
    ASSUME NEW codes
    PROVE  FindsIn(codes, sendTxSevereErrors)
             <=> \/ "Fatal" \in codes \/ "Underpriced" \in codes \/ "Unsupported" \in codes
                 \/ "ExceedsMaxFee" \in codes \/ "FeeOutOfValidRange" \in codes
                 \/ "Unknown" \in codes
BY SMT DEF FindsIn, sendTxSevereErrors

\* FindFirstIn returns a key that is there.
LEMMA FirstSuccess ==
    ASSUME NEW codes, FindsIn(codes, sendTxSuccessfulCodes)
    PROVE  /\ FindFirstIn(codes, sendTxSuccessfulCodes) \in codes
           /\ FindFirstIn(codes, sendTxSuccessfulCodes) \in {"Successful", "TransactionAlreadyKnown"}
<1> DEFINE keys == sendTxSuccessfulCodes
           First(i) == keys[i] \in codes /\ \A j \in 1 .. (i - 1) : keys[j] \notin codes
<1>1. \E i \in DOMAIN keys : First(i)
  BY SMT DEF FindsIn, sendTxSuccessfulCodes
<1>2. PICK i \in DOMAIN keys : First(i) /\ FindFirstIn(codes, keys) = keys[i]
  BY <1>1 DEF FindFirstIn
<1> QED
  BY <1>2, SMT DEF sendTxSuccessfulCodes

LEMMA FirstSevere ==
    ASSUME NEW codes, FindsIn(codes, sendTxSevereErrors)
    PROVE  /\ FindFirstIn(codes, sendTxSevereErrors) \in codes
           /\ FindFirstIn(codes, sendTxSevereErrors) \in
                {"Fatal", "Underpriced", "Unsupported", "ExceedsMaxFee", "FeeOutOfValidRange", "Unknown"}
<1> DEFINE keys == sendTxSevereErrors
           First(i) == keys[i] \in codes /\ \A j \in 1 .. (i - 1) : keys[j] \notin codes
<1>1. \E i \in DOMAIN keys : First(i)
  <2>1. DOMAIN keys = 1..6
    BY SMT DEF sendTxSevereErrors
  <2>2. \E i \in 1..6 : keys[i] \in codes
    BY <2>1 DEF FindsIn
  <2> HIDE DEF keys
  <2>3. First(1) \/ First(2) \/ First(3) \/ First(4) \/ First(5) \/ First(6)
    BY <2>2, SMT
  <2> QED
    BY <2>1, <2>3, SMT
<1>2. PICK i \in DOMAIN keys : First(i) /\ FindFirstIn(codes, keys) = keys[i]
  BY <1>1 DEF FindFirstIn
<1> QED
  BY <1>2, SMT DEF sendTxSevereErrors

\* A zero result counts for nothing.
LEMMA ZeroIsNothing ==
    ASSUME NEW codes, NEW zero \in SUBSET {NoCode}
    PROVE  /\ FindsIn(codes \union zero, sendTxSuccessfulCodes)
                <=> FindsIn(codes, sendTxSuccessfulCodes)
           /\ FindsIn(codes \union zero, sendTxSevereErrors) <=> FindsIn(codes, sendTxSevereErrors)
BY SuccessfulCodes, SevereCodes, SMT DEF NoCode

\* What aggregateTxResults returns is one of the results, and the best of them.
LEMMA Aggregates ==
    ASSUME NEW codes, NEW k \in AggregateTxResults(codes)
    PROVE  /\ k \in codes
           /\ FindsIn(codes, sendTxSuccessfulCodes) <=> Accepted(k)
           /\ FindsIn({k}, sendTxSevereErrors)
                <=> /\ FindsIn(codes, sendTxSevereErrors)
                    /\ ~FindsIn(codes, sendTxSuccessfulCodes)
<1>1. CASE FindsIn(codes, sendTxSuccessfulCodes)
  <2>1. k \in codes /\ k \in {"Successful", "TransactionAlreadyKnown"}
    BY <1>1, FirstSuccess DEF AggregateTxResults
  <2> QED
    BY <1>1, <2>1, SuccessfulCodes, SevereCodes, SMT DEF Accepted
<1>2. CASE ~FindsIn(codes, sendTxSuccessfulCodes) /\ FindsIn(codes, sendTxSevereErrors)
  <2>1. k \in codes
        /\ k \in {"Fatal", "Underpriced", "Unsupported", "ExceedsMaxFee", "FeeOutOfValidRange", "Unknown"}
    BY <1>2, FirstSevere DEF AggregateTxResults
  <2> QED
    BY <1>2, <2>1, SuccessfulCodes, SevereCodes, SMT DEF Accepted
<1>3. CASE ~FindsIn(codes, sendTxSuccessfulCodes) /\ ~FindsIn(codes, sendTxSevereErrors)
  <2>1. k \in codes
    BY <1>3 DEF AggregateTxResults
  <2> QED
    BY <1>3, <2>1, SuccessfulCodes, SevereCodes, SMT DEF Accepted
<1> QED
  BY <1>1, <1>2, <1>3

LEMMA AggregatesOne == ASSUME NEW codes PROVE AggregateTxResults(codes) \subseteq codes
BY Aggregates

-----------------------------------------------------------------------------
(* The quorum.                                                             *)

LEMMA Quorum ==
    ASSUME NEW h \in Nat, h > 0
    PROVE  /\ (7 * h + 9) \div 10 \in 1..h
           /\ \A k \in Nat : k >= (7 * h + 9) \div 10 => 10 * k >= 7 * h
BY SMT

\* The healthy nodes are counted.
LEMMA HealthyCounted ==
    ASSUME NEW c \in Calls
    PROVE  /\ IsFiniteSet(HealthyNodes(c))
           /\ Cardinality(HealthyNodes(c)) \in Nat /\ Cardinality(Primaries) \in Nat
           /\ Cardinality(HealthyNodes(c)) <= Cardinality(Primaries)
           /\ HealthyNodes(c) # {} =>
                /\ RequiredResults(c) \in 1..Cardinality(HealthyNodes(c))
                /\ \A k \in Nat : k >= RequiredResults(c) =>
                     10 * k >= 7 * Cardinality(HealthyNodes(c))
<1>1. HealthyNodes(c) \subseteq Primaries
  BY DEF HealthyNodes
<1>2. /\ IsFiniteSet(HealthyNodes(c)) /\ Cardinality(HealthyNodes(c)) <= Cardinality(Primaries)
      /\ Cardinality(HealthyNodes(c)) \in Nat /\ Cardinality(Primaries) \in Nat
  BY <1>1, ConfigAssumption, FS_Subset, FS_CardinalityType
<1>3. HealthyNodes(c) # {} => Cardinality(HealthyNodes(c)) > 0
  BY <1>2, FS_EmptySet, SMT
<1> QED
  BY <1>2, <1>3, Quorum DEF RequiredResults

\* Collecting a result that was not there.
LEMMA OneMore ==
    ASSUME NEW S \in SUBSET Primaries, NEW n \in Primaries, n \notin S
    PROVE  /\ Cardinality(S \union {n}) = Cardinality(S) + 1
           /\ Cardinality(S) \in Nat
BY ConfigAssumption, FS_Subset, FS_CardinalityType, FS_AddElement

LEMMA Contained ==
    ASSUME NEW S \in SUBSET Primaries, NEW T \in SUBSET S
    PROVE  Cardinality(T) \in Nat /\ Cardinality(S) \in Nat /\ Cardinality(T) <= Cardinality(S)
<1>1. IsFiniteSet(S) /\ IsFiniteSet(T)
  BY ConfigAssumption, FS_Subset
<1> QED
  BY <1>1, FS_Subset, FS_CardinalityType

-----------------------------------------------------------------------------
(* A step of one call leaves the others alone.                             *)

Same(d) ==
    /\ pc'[d] = pc[d] /\ todo'[d] = todo[d] /\ cancelled'[d] = cancelled[d]
    /\ job'[d] = job[d] /\ code'[d] = code[d]
    /\ closer'[d] = closer[d] /\ reporter'[d] = reporter[d]
    /\ got'[d] = got[d] /\ count'[d] = count[d] /\ timer'[d] = timer[d]
    /\ reported'[d] = reported[d] /\ alarm'[d] = alarm[d] /\ answer'[d] = answer[d]

LEMMA Kept ==
    ASSUME NEW d \in Calls, CallInv(d), Same(d), ChStopClosed => ChStopClosed'
    PROVE  Places(d)' /\ Results(d)' /\ Counted(d)' /\ Told(d)'
<1>1. HealthyNodes(d)' = HealthyNodes(d)
  BY DEF HealthyNodes, Same
<1>2. Places(d)'
  BY DEF CallInv, Places, Same
<1>3. Results(d)'
  BY DEF CallInv, Results, Same
<1>4. Counted(d)'
  BY <1>1 DEF CallInv, Counted, Same, RequiredResults, InFlight
<1>5. Told(d)'
  <2>1. CodesOf(d, got[d])' = CodesOf(d, got[d])
    BY DEF CodesOf, Same
  <2>2. Aggregated(d)' = Aggregated(d)
    BY DEF Aggregated, Same
  <2>3. CollectedEnough(d)' = CollectedEnough(d)
    BY <1>1, <2>1 DEF CollectedEnough, Same
  <2> QED
    BY <2>1, <2>2, <2>3 DEF CallInv, Told, Same
<1> QED
  BY <1>2, <1>3, <1>4, <1>5

LEMMA Assemble ==
    ASSUME IInv, NEW c \in Calls, TypeOK', service' = service,
           \A d \in Calls \ {c} : Same(d), CallInv(c)'
    PROVE  IInv'
<1>1. ASSUME NEW d \in Calls, d # c
      PROVE  CallInv(d)'
  <2>1. CallInv(d) /\ Same(d)
    BY <1>1 DEF IInv
  <2>2. ChStopClosed' = ChStopClosed
    BY DEF ChStopClosed
  <2>3. Closing(d)'
    BY <2>1, <2>2 DEF CallInv, Closing, Same, InFlight, WaitGroupDone
  <2> QED
    BY <2>1, <2>2, <2>3, Kept DEF CallInv
<1> QED
  BY <1>1 DEF IInv

\* What was told stays true while jobs go on.
LEMMA ToldKept ==
    ASSUME NEW c \in Calls, TypeOK, CallInv(c),
           answer'[c] = answer[c], cancelled'[c] = cancelled[c], got'[c] = got[c],
           alarm'[c] = alarm[c],
           HealthyNodes(c)' = HealthyNodes(c) \/ answer[c] = NoAnswer,
           \A m \in Primaries : job[c][m] \in {"reporting", "done"} => code'[c][m] = code[c][m],
           \A m \in Primaries : job[c][m] = "done" => job'[c][m] = "done"
    PROVE  Told(c)'
<1>1. got[c] \subseteq Primaries
  BY DEF TypeOK
<1>2. CodesOf(c, got[c])' = CodesOf(c, got[c])
  BY <1>1 DEF CodesOf, CallInv, Results
<1>3. Aggregated(c)' = Aggregated(c)
  BY DEF Aggregated
<1>4. Aggregated(c) => answer[c] # NoAnswer
  BY DEF Aggregated, NoAnswer
<1>5. Aggregated(c) => CollectedEnough(c)' = CollectedEnough(c)
  BY <1>2, <1>4 DEF CollectedEnough
<1>6. alarm[c] =>
         \E m, n \in Primaries :
             /\ job'[c][m] = "done" /\ Accepted(code'[c][m])
             /\ job'[c][n] = "done" /\ FindsIn({code'[c][n]}, sendTxSevereErrors)
  BY DEF CallInv, Told
<1> QED
  BY <1>2, <1>3, <1>5, <1>6 DEF CallInv, Told, Accepted

-----------------------------------------------------------------------------
(* The steps of the service.                                               *)

LEMMA ServiceStep ==
    ASSUME IInv, Start \/ Close \/ CloseStop \/ CloseReturns
    PROVE  IInv'
<1>1. UNCHANGED <<cancelled, jobs, caller>>
  BY DEF Start, Close, CloseStop, CloseReturns
<1>2. TypeOK'
  BY <1>1 DEF IInv, TypeOK, jobs, caller, Start, Close, CloseStop, CloseReturns
<1>3. ChStopClosed => ChStopClosed'
  BY DEF ChStopClosed, Start, Close, CloseStop, CloseReturns
<1>4. ASSUME NEW c \in Calls
      PROVE  CallInv(c)'
  <2>1. Same(c) /\ CallInv(c)
    BY <1>1 DEF IInv, Same, jobs, caller
  <2>2. Places(c)' /\ Results(c)' /\ Counted(c)' /\ Told(c)'
    BY <1>3, <2>1, Kept
  <2>3. InFlight(c)' = InFlight(c) /\ WaitGroupDone(c)' = WaitGroupDone(c)
    BY <2>1 DEF Same, InFlight, WaitGroupDone
  <2>4. Closing(c)'
    BY <2>1, <2>3 DEF CallInv, Closing, ChStopClosed, Start, Close, CloseStop, CloseReturns
  <2> QED
    BY <2>2, <2>4 DEF CallInv
<1> QED
  BY <1>2, <1>4 DEF IInv

-----------------------------------------------------------------------------
(* The steps of the jobs.                                                  *)

\* A job that runs goes on, and loses no result but for the reasons it has.
LEMMA JobStep ==
    ASSUME IInv, NEW c \in Calls, NEW n \in Nodes, NEW v \in {"offering", "done"},
           service' = service, UNCHANGED <<cancelled, closer, reporter, alarm, caller>>,
           job' = [job EXCEPT ![c][n] = v],
           job[c][n] \in {"sending", "offering", "reporting"},
           v = "offering" => job[c][n] = "sending" /\ n \in Primaries,
           v = "done" /\ n \in Primaries => job[c][n] = "reporting" \/ (job[c][n] = "offering" /\ CtxDone(c)),
           code' \in [Calls -> [Nodes -> SendTxReturnCode \union {NoCode}]],
           \A d \in Calls \ {c} : code'[d] = code[d],
           \A m \in Nodes : job[c][m] # "sending" => code'[c][m] = code[c][m],
           \/ reported' = reported /\ (job[c][n] = "reporting" => ChStopClosed)
           \/ job[c][n] = "reporting" /\ n \in Primaries
              /\ reported' = [reported EXCEPT ![c] = @ \union {n}]
    PROVE  IInv'
<1> USE DEF caller
<1>0. TypeOK /\ CallInv(c) /\ Primaries \subseteq Nodes /\ job[c] \in [Nodes -> {"none", "sending", "offering", "reporting", "done"}]
  BY DEF IInv, TypeOK, Nodes
<1>1. /\ job' \in [Calls -> [Nodes -> {"none", "sending", "offering", "reporting", "done"}]]
      /\ \A d \in Calls \ {c} : job'[d] = job[d]
      /\ job'[c][n] = v
      /\ \A m \in Nodes \ {n} : job'[c][m] = job[c][m]
  BY <1>0, SMT DEF TypeOK
<1>2. /\ reported' \in [Calls -> SUBSET Primaries]
      /\ \A d \in Calls \ {c} : reported'[d] = reported[d]
      /\ reported'[c] \in {reported[c], reported[c] \union {n}}
      /\ reported[c] \subseteq reported'[c]
      /\ job[c][n] = "reporting" /\ ~ChStopClosed => n \in reported'[c]
      /\ n \in reported'[c] => n \in reported[c] \/ job[c][n] = "reporting"
  <2>1. CASE reported' = reported /\ (job[c][n] = "reporting" => ChStopClosed)
    BY <1>0, <2>1 DEF TypeOK
  <2>2. CASE job[c][n] = "reporting" /\ n \in Primaries
             /\ reported' = [reported EXCEPT ![c] = @ \union {n}]
    BY <1>0, <2>2 DEF TypeOK
  <2> QED
    BY <2>1, <2>2
<1>3. TypeOK'
  BY <1>0, <1>1, <1>2 DEF TypeOK
<1>4. \A d \in Calls \ {c} : Same(d)
  BY <1>1, <1>2 DEF Same
<1>5. HealthyNodes(c)' = HealthyNodes(c)
  BY <1>0, <1>1 DEF HealthyNodes
<1>6. n \in Primaries => closer[c] # "closed"
  BY <1>0 DEF CallInv, Places
<1>7. closer[c] # "none" \/ pc[c] = "doAll"
  BY <1>0 DEF CallInv, Places
<1>8. Places(c)'
  BY <1>0, <1>1, <1>6, <1>7 DEF CallInv, Places
<1>9. Results(c)'
  <2>1. \A m \in got[c] : m \in Nodes /\ job'[c][m] \in {"reporting", "done"}
    BY <1>0, <1>1 DEF TypeOK, CallInv, Results
  <2>2. \A m \in Primaries : job'[c][m] = "reporting" => m \in got[c]
    BY <1>0, <1>1 DEF CallInv, Results
  <2>3. \A m \in reported'[c] : job'[c][m] = "done"
    BY <1>0, <1>1, <1>2 DEF TypeOK, CallInv, Results
  <2>4. ~ChStopClosed => \A m \in got[c] : job'[c][m] = "reporting" \/ m \in reported'[c]
    BY <1>0, <1>1, <1>2, <2>1 DEF CallInv, Results
  <2> QED
    BY <2>1, <2>2, <2>3, <2>4 DEF Results, ChStopClosed
<1>10. Counted(c)'
  <2>1. InFlight(c) /\ ~cancelled[c] => \A m \in Primaries : job'[c][m] = "done" => m \in got[c]
    BY <1>0, <1>1 DEF CallInv, Counted, Results, Closing, CtxDone, InFlight
  <2> QED
    BY <1>0, <1>5, <2>1 DEF CallInv, Counted, RequiredResults, InFlight
<1>11. Told(c)'
  BY <1>0, <1>1, <1>5, ToldKept
<1>12. Closing(c)'
  BY <1>0, <1>1 DEF CallInv, Closing, ChStopClosed, InFlight, WaitGroupDone
<1> QED
  BY <1>3, <1>4, <1>8, <1>9, <1>10, <1>11, <1>12, Assemble DEF CallInv

LEMMA BroadcastStep == ASSUME IInv, NEW c \in Calls, NEW n \in Nodes, Broadcast(c, n) PROVE IInv'
<1>1. PICK k \in Outcomes : code' = [code EXCEPT ![c][n] = k]
  BY DEF Broadcast
<1>2. k \in SendTxReturnCode \union {NoCode}
  BY ConfigAssumption
<1>3. /\ code' \in [Calls -> [Nodes -> SendTxReturnCode \union {NoCode}]]
      /\ \A d \in Calls \ {c} : code'[d] = code[d]
      /\ \A m \in Nodes \ {n} : code'[c][m] = code[c][m]
  BY <1>1, <1>2, SMT DEF IInv, TypeOK
<1> DEFINE v == IF n \in Primaries THEN "offering" ELSE "done"
<1>4. /\ v \in {"offering", "done"} /\ job[c][n] = "sending" /\ job' = [job EXCEPT ![c][n] = v]
      /\ v = "offering" => n \in Primaries
      /\ v = "done" => n \notin Primaries
      /\ UNCHANGED <<service, cancelled, closer, reporter, reported, alarm, caller>>
  BY DEF Broadcast
<1>5. \A m \in Nodes : job[c][m] # "sending" => code'[c][m] = code[c][m]
  BY <1>3, <1>4
<1> HIDE DEF v
<1> QED
  BY <1>3, <1>4, <1>5, JobStep

LEMMA OfferDroppedStep ==
    ASSUME IInv, NEW c \in Calls, NEW n \in Primaries, OfferDropped(c, n) PROVE IInv'
<1>1. n \in Nodes /\ code' = code /\ code \in [Calls -> [Nodes -> SendTxReturnCode \union {NoCode}]]
  BY DEF IInv, TypeOK, Nodes, OfferDropped
<1> QED
  BY <1>1, JobStep DEF OfferDropped

LEMMA ReportStep ==
    ASSUME IInv, NEW c \in Calls, NEW n \in Primaries, Report(c, n) \/ ReportDropped(c, n) PROVE IInv'
<1>1. n \in Nodes /\ code' = code /\ code \in [Calls -> [Nodes -> SendTxReturnCode \union {NoCode}]]
  BY DEF IInv, TypeOK, Nodes, Report, ReportDropped
<1> QED
  BY <1>1, JobStep DEF Report, ReportDropped

LEMMA CloseChannelsStep == ASSUME IInv, NEW c \in Calls, CloseChannels(c) PROVE IInv'
<1>0. TypeOK /\ CallInv(c)
  BY DEF IInv
<1>1. /\ service' = service /\ UNCHANGED <<cancelled, job, code, reporter, reported, alarm, caller>>
      /\ closer' \in [Calls -> {"none", "waiting", "closed"}] /\ closer'[c] = "closed"
      /\ \A d \in Calls \ {c} : closer'[d] = closer[d]
      /\ closer[c] = "waiting" /\ \A n \in Primaries : job[c][n] \in {"none", "done"}
  BY <1>0 DEF CloseChannels, TypeOK
<1> USE DEF caller
<1>2. TypeOK'
  BY <1>0, <1>1 DEF TypeOK
<1>3. \A d \in Calls \ {c} : Same(d)
  BY <1>1 DEF Same
<1>4. HealthyNodes(c)' = HealthyNodes(c)
  BY <1>1 DEF HealthyNodes
<1>5. Places(c)'
  BY <1>0, <1>1 DEF CallInv, Places
<1>6. Results(c)' /\ Counted(c)'
  BY <1>0, <1>1, <1>4 DEF CallInv, Results, Counted, InFlight, ChStopClosed, RequiredResults
<1>7. Told(c)'
  BY <1>0, <1>1, <1>4, ToldKept
<1>8. Closing(c)'
  BY <1>0, <1>1 DEF CallInv, Closing, ChStopClosed, InFlight, WaitGroupDone
<1> QED
  BY <1>1, <1>2, <1>3, <1>5, <1>6, <1>7, <1>8, Assemble DEF CallInv

LEMMA ReportSendTxAnomaliesStep ==
    ASSUME IInv, NEW c \in Calls, ReportSendTxAnomalies(c) PROVE IInv'
<1>0. TypeOK /\ CallInv(c)
  BY DEF IInv
<1>1. /\ service' = service /\ UNCHANGED <<cancelled, job, code, closer, reported, caller>>
      /\ reporter' \in [Calls -> {"none", "running", "done"}] /\ reporter'[c] = "done"
      /\ \A d \in Calls \ {c} : reporter'[d] = reporter[d]
      /\ closer[c] = "closed" /\ reporter[c] = "running"
  BY <1>0 DEF ReportSendTxAnomalies, TypeOK
<1>2. Contradiction(CodesOf(c, reported[c])) \in BOOLEAN
  BY DEF Contradiction, FindsIn
<1>3. /\ alarm' \in [Calls -> BOOLEAN] /\ alarm'[c] = Contradiction(CodesOf(c, reported[c]))
      /\ \A d \in Calls \ {c} : alarm'[d] = alarm[d]
  BY <1>0, <1>2 DEF ReportSendTxAnomalies, TypeOK
<1> USE DEF caller
<1>4. TypeOK'
  BY <1>0, <1>1, <1>3 DEF TypeOK
<1>5. \A d \in Calls \ {c} : Same(d)
  BY <1>1, <1>3 DEF Same
<1>6. HealthyNodes(c)' = HealthyNodes(c)
  BY <1>1 DEF HealthyNodes
<1>7. Places(c)'
  BY <1>0, <1>1 DEF CallInv, Places
<1>8. Results(c)' /\ Counted(c)'
  BY <1>0, <1>1, <1>6 DEF CallInv, Results, Counted, InFlight, ChStopClosed, RequiredResults
<1>9. Told(c)'
  <2>1. CodesOf(c, got[c])' = CodesOf(c, got[c]) /\ Aggregated(c)' = Aggregated(c)
        /\ CollectedEnough(c)' = CollectedEnough(c)
    BY <1>1, <1>6 DEF CodesOf, Aggregated, CollectedEnough
  <2>2. ASSUME alarm'[c]
        PROVE  \E m, n \in Primaries :
                   /\ job[c][m] = "done" /\ Accepted(code[c][m])
                   /\ job[c][n] = "done" /\ FindsIn({code[c][n]}, sendTxSevereErrors)
    <3>1. \A n \in reported[c] : n \in Primaries /\ job[c][n] = "done"
      BY <1>0 DEF TypeOK, CallInv, Results
    <3>2. \E m \in reported[c] : Accepted(code[c][m])
      <4>1. PICK i \in DOMAIN sendTxSuccessfulCodes :
              sendTxSuccessfulCodes[i] \in CodesOf(c, reported[c])
        BY <1>3, <2>2 DEF Contradiction, FindsIn
      <4> QED
        BY <4>1 DEF CodesOf, Accepted, FindsIn
    <3>3. \E n \in reported[c] : FindsIn({code[c][n]}, sendTxSevereErrors)
      <4>1. PICK i \in DOMAIN sendTxSevereErrors : sendTxSevereErrors[i] \in CodesOf(c, reported[c])
        BY <1>3, <2>2 DEF Contradiction, FindsIn
      <4> QED
        BY <4>1 DEF CodesOf, FindsIn
    <3> QED
      BY <3>1, <3>2, <3>3
  <2> QED
    BY <1>0, <1>1, <2>1, <2>2 DEF CallInv, Told, Accepted
<1>10. Closing(c)'
  BY <1>0, <1>1 DEF CallInv, Closing, ChStopClosed, InFlight, WaitGroupDone
<1> QED
  BY <1>1, <1>4, <1>5, <1>7, <1>8, <1>9, <1>10, Assemble DEF CallInv

-----------------------------------------------------------------------------
(* The steps of the caller.                                                *)

LEMMA CancelStep == ASSUME IInv, NEW c \in Calls, Cancel(c) PROVE IInv'
<1>0. TypeOK /\ CallInv(c)
  BY DEF IInv
<1>1. /\ service' = service /\ UNCHANGED <<jobs, caller>> /\ pc[c] # "returned"
      /\ cancelled' \in [Calls -> BOOLEAN] /\ cancelled'[c] = TRUE
      /\ \A d \in Calls \ {c} : cancelled'[d] = cancelled[d]
  BY <1>0 DEF Cancel, TypeOK
<1> USE DEF caller, jobs
<1>2. TypeOK'
  BY <1>0, <1>1 DEF TypeOK
<1>3. \A d \in Calls \ {c} : Same(d)
  BY <1>1 DEF Same
<1>4. HealthyNodes(c)' = HealthyNodes(c)
  BY <1>1 DEF HealthyNodes
<1>5. Places(c)' /\ Results(c)'
  BY <1>0, <1>1 DEF CallInv, Places, Results, ChStopClosed
<1>6. Counted(c)'
  BY <1>0, <1>1, <1>4 DEF CallInv, Counted, InFlight, RequiredResults
<1>7. Told(c)'
  <2>1. ~Aggregated(c)'
    BY <1>0, <1>1 DEF CallInv, Places, Aggregated, NoAnswer
  <2> QED
    BY <1>0, <1>1, <2>1 DEF CallInv, Told, Accepted
<1>8. Closing(c)'
  BY <1>0, <1>1 DEF CallInv, Closing, ChStopClosed, InFlight, WaitGroupDone
<1> QED
  BY <1>1, <1>2, <1>3, <1>5, <1>6, <1>7, <1>8, Assemble DEF CallInv

Answer == [by : {"none", "notStarted", "doAll", "context", "result", "softTimeout"},
           code : SendTxReturnCode \union {NoCode}]

\* The call returns k, and no other does anything.
Answered(c, by, k) ==
    /\ answer' \in [Calls -> Answer] /\ answer'[c] = [by |-> by, code |-> k]
    /\ pc' \in [Calls -> {"idle", "doAll", "collect", "returned"}] /\ pc'[c] = "returned"
    /\ \A d \in Calls \ {c} : answer'[d] = answer[d] /\ pc'[d] = pc[d]

LEMMA AnswersFacts ==
    ASSUME TypeOK, NEW c \in Calls, NEW by \in {"notStarted", "doAll", "context", "result", "softTimeout"},
           NEW codes \in SUBSET (SendTxReturnCode \union {NoCode}), Answers(c, by, codes)
    PROVE  \E k \in codes : Answered(c, by, k)
<1>1. PICK k \in codes : answer' = [answer EXCEPT ![c] = [by |-> by, code |-> k]]
  BY DEF Answers
<1>2. [by |-> by, code |-> k] \in Answer /\ answer \in [Calls -> Answer]
  BY <1>1 DEF Answer, TypeOK
<1>3. /\ answer' \in [Calls -> Answer] /\ answer'[c] = [by |-> by, code |-> k]
      /\ \A d \in Calls \ {c} : answer'[d] = answer[d]
  BY <1>1, <1>2
<1> QED
  BY <1>3 DEF Answers, Answered, TypeOK

LEMMA SendTransactionStep == ASSUME IInv, NEW c \in Calls, SendTransaction(c) PROVE IInv'
<1> USE DEF caller, jobs, Answered, Answer
<1>0. /\ TypeOK /\ CallInv(c) /\ pc[c] = "idle"
      /\ UNCHANGED <<service, cancelled, jobs, got, count, timer>>
  BY DEF IInv, SendTransaction
<1>1. got[c] = {} /\ closer[c] = "none" /\ \A n \in Nodes : job[c][n] = "none"
  BY <1>0 DEF CallInv, Places
<1>2. HealthyNodes(c)' = HealthyNodes(c)
  BY <1>0 DEF HealthyNodes
<1>3. CASE service = "started"
  <2>0. /\ pc' = [pc EXCEPT ![c] = "doAll"] /\ todo' = [todo EXCEPT ![c] = Nodes] /\ answer' = answer
        /\ pc \in [Calls -> {"idle", "doAll", "collect", "returned"}] /\ todo \in [Calls -> SUBSET Nodes]
    BY <1>0, <1>3 DEF SendTransaction, TypeOK
  <2>1. /\ pc' \in [Calls -> {"idle", "doAll", "collect", "returned"}] /\ pc'[c] = "doAll"
        /\ todo' \in [Calls -> SUBSET Nodes] /\ todo'[c] = Nodes /\ answer' = answer
        /\ \A d \in Calls \ {c} : todo'[d] = todo[d] /\ pc'[d] = pc[d]
    BY <2>0
  <2>2. TypeOK'
    BY <1>0, <2>1 DEF TypeOK
  <2>3. \A d \in Calls \ {c} : Same(d)
    BY <1>0, <2>1 DEF Same
  <2>4. Places(c)' /\ Results(c)'
    BY <1>0, <1>1, <2>1 DEF CallInv, Places, Results, ChStopClosed
  <2>5. Counted(c)'
    BY <1>0, <1>1, <2>1, ConfigAssumption DEF CallInv, Counted, InFlight, Nodes
  <2>6. Told(c)'
    BY <1>0, <1>2, <2>1, ToldKept
  <2>7. Closing(c)'
    BY <1>0, <1>3 DEF Closing, ChStopClosed
  <2> QED
    BY <1>0, <2>2, <2>3, <2>4, <2>5, <2>6, <2>7, Assemble DEF CallInv
<1>4. CASE service # "started"
  <2>0. Answers(c, "notStarted", {NoCode}) /\ UNCHANGED todo
    BY <1>4 DEF SendTransaction
  <2>1. PICK k \in {NoCode} : Answered(c, "notStarted", k)
    BY <1>0, <2>0, AnswersFacts
  <2>2. TypeOK'
    BY <1>0, <2>0, <2>1 DEF TypeOK
  <2>3. \A d \in Calls \ {c} : Same(d)
    BY <1>0, <2>0, <2>1 DEF Same
  <2>4. Places(c)' /\ Results(c)'
    BY <1>0, <1>1, <2>1 DEF CallInv, Places, Results, ChStopClosed
  <2>5. Counted(c)'
    BY <1>0, <2>1 DEF CallInv, Counted, InFlight
  <2>6. Told(c)'
    <3>1. ~Aggregated(c)'
      BY <2>1 DEF Aggregated
    <3> QED
      BY <1>0, <3>1 DEF CallInv, Told, Accepted
  <2>7. Closing(c)'
    BY <1>0, <2>1 DEF CallInv, Closing, ChStopClosed, InFlight, WaitGroupDone
  <2> QED
    BY <1>0, <2>2, <2>3, <2>4, <2>5, <2>6, <2>7, Assemble DEF CallInv
<1> QED
  BY <1>3, <1>4

LEMMA DoAllVisitsStep ==
    ASSUME IInv, NEW c \in Calls, NEW n \in Nodes, DoAllVisits(c, n) PROVE IInv'
<1> USE DEF caller, jobs
<1>0. /\ TypeOK /\ CallInv(c) /\ pc[c] = "doAll" /\ n \in todo[c] /\ ~CtxDone(c)
      /\ UNCHANGED <<service, cancelled, code, closer, reporter, reported, alarm,
                     pc, got, count, timer, answer>>
  BY DEF IInv, DoAllVisits
<1>1. /\ got[c] = {} /\ count[c] = 0 /\ closer[c] = "none" /\ reporter[c] = "none"
      /\ answer[c] = NoAnswer /\ job[c][n] = "none"
  BY <1>0 DEF CallInv, Places
<1>2. /\ todo' \in [Calls -> SUBSET Nodes] /\ todo'[c] = todo[c] \ {n}
      /\ \A d \in Calls \ {c} : todo'[d] = todo[d]
  BY <1>0 DEF DoAllVisits, TypeOK
<1>3. PICK v \in {"none", "sending"} :
        /\ job' \in [Calls -> [Nodes -> {"none", "sending", "offering", "reporting", "done"}]]
        /\ \A d \in Calls \ {c} : job'[d] = job[d]
        /\ job'[c][n] = v
        /\ \A m \in Nodes \ {n} : job'[c][m] = job[c][m]
  <2>1. CASE job' = job
    BY <1>0, <1>1, <2>1 DEF TypeOK
  <2>2. CASE job' = [job EXCEPT ![c][n] = "sending"]
    BY <1>0, <2>2, SMT DEF TypeOK
  <2> QED
    BY <2>1, <2>2 DEF DoAllVisits
<1>4. TypeOK'
  BY <1>0, <1>2, <1>3 DEF TypeOK
<1>5. \A d \in Calls \ {c} : Same(d)
  BY <1>0, <1>2, <1>3 DEF Same
<1>6. Places(c)'
  BY <1>0, <1>1, <1>2, <1>3 DEF TypeOK, CallInv, Places
<1>7. Results(c)'
  <2>1. \A m \in Primaries : m \in Nodes
    BY DEF Nodes
  <2>2. \A m \in reported[c] : m \in Nodes /\ m # n
    BY <1>0, <1>1, <2>1 DEF TypeOK, CallInv, Results
  <2> QED
    BY <1>0, <1>1, <1>3, <2>1, <2>2 DEF CallInv, Results
<1>8. Counted(c)'
  BY <1>0, <1>1, <1>3 DEF CallInv, Counted, InFlight, Nodes
<1>9. Told(c)'
  <2>1. \A m \in Primaries : job[c][m] = "done" => job'[c][m] = "done"
    BY <1>1, <1>3 DEF Nodes
  <2> QED
    BY <1>0, <1>1, <2>1, ToldKept
<1>10. Closing(c)'
  BY <1>0 DEF Closing, ChStopClosed, CtxDone
<1> QED
  BY <1>0, <1>4, <1>5, <1>6, <1>7, <1>8, <1>9, <1>10, Assemble DEF CallInv

LEMMA DoAllReturnsStep == ASSUME IInv, NEW c \in Calls, DoAllReturns(c) PROVE IInv'
<1> USE DEF caller, jobs, Answered, Answer
<1>0. /\ TypeOK /\ CallInv(c) /\ pc[c] = "doAll"
      /\ UNCHANGED <<service, cancelled, job, code, reported, alarm, todo, got, count, timer>>
  BY DEF IInv, DoAllReturns
<1>1. /\ got[c] = {} /\ count[c] = 0 /\ closer[c] = "none" /\ reporter[c] = "none"
      /\ answer[c] = NoAnswer /\ service # "stopped" /\ ~ChStopClosed
  BY <1>0 DEF CallInv, Places, Closing, InFlight, ChStopClosed
<1>2. /\ closer' \in [Calls -> {"none", "waiting", "closed"}] /\ closer'[c] = "waiting"
      /\ \A d \in Calls \ {c} : closer'[d] = closer[d]
  BY <1>0 DEF DoAllReturns, TypeOK
<1>3. HealthyNodes(c)' = HealthyNodes(c)
  BY <1>0 DEF HealthyNodes
<1>4. CASE /\ HealthyNodes(c) # {} /\ pc' = [pc EXCEPT ![c] = "collect"]
           /\ reporter' = [reporter EXCEPT ![c] = "running"] /\ UNCHANGED answer
  <2>1. /\ pc' \in [Calls -> {"idle", "doAll", "collect", "returned"}] /\ pc'[c] = "collect"
        /\ reporter' \in [Calls -> {"none", "running", "done"}] /\ reporter'[c] = "running"
        /\ \A d \in Calls \ {c} : reporter'[d] = reporter[d] /\ pc'[d] = pc[d]
    BY <1>0, <1>4 DEF TypeOK
  <2>2. TypeOK'
    BY <1>0, <1>2, <1>4, <2>1 DEF TypeOK
  <2>3. \A d \in Calls \ {c} : Same(d)
    BY <1>0, <1>2, <1>4, <2>1 DEF Same
  <2>4. Places(c)' /\ Results(c)'
    BY <1>0, <1>1, <1>2, <1>4, <2>1 DEF CallInv, Places, Results, ChStopClosed
  <2>5. 0 < RequiredResults(c)
    BY <1>4, HealthyCounted, SMT
  <2>6. Counted(c)'
    BY <1>0, <1>1, <1>3, <1>4, <2>1, <2>5 DEF CallInv, Counted, InFlight, RequiredResults
  <2>7. Told(c)'
    BY <1>0, <1>3, <1>4, ToldKept
  <2>8. Closing(c)'
    BY <1>0, <1>1 DEF Closing, ChStopClosed
  <2> QED
    BY <1>0, <2>2, <2>3, <2>4, <2>6, <2>7, <2>8, Assemble DEF CallInv
<1>5. CASE Answers(c, "doAll", {NoCode}) /\ UNCHANGED reporter
  <2>1. PICK k \in {NoCode} : Answered(c, "doAll", k)
    BY <1>0, <1>5, AnswersFacts
  <2>2. TypeOK'
    BY <1>0, <1>2, <1>5, <2>1 DEF TypeOK
  <2>3. \A d \in Calls \ {c} : Same(d)
    BY <1>0, <1>2, <1>5, <2>1 DEF Same
  <2>4. Places(c)' /\ Results(c)'
    BY <1>0, <1>1, <1>2, <1>5, <2>1 DEF CallInv, Places, Results, ChStopClosed
  <2>5. Counted(c)'
    BY <1>0, <2>1 DEF CallInv, Counted, InFlight
  <2>6. Told(c)'
    <3>1. ~Aggregated(c)'
      BY <2>1 DEF Aggregated
    <3> QED
      BY <1>0, <3>1 DEF CallInv, Told, Accepted
  <2>7. Closing(c)'
    BY <1>0, <1>1 DEF Closing, ChStopClosed
  <2> QED
    BY <1>0, <2>2, <2>3, <2>4, <2>5, <2>6, <2>7, Assemble DEF CallInv
<1> QED
  BY <1>4, <1>5 DEF DoAllReturns

\* A call that returns without a new result.
LEMMA ReturnStep ==
    ASSUME IInv, NEW c \in Calls, pc[c] = "collect",
           UNCHANGED <<service, cancelled, jobs, todo, got, timer>>,
           count' \in [Calls -> 0 .. Cardinality(Primaries)],
           \A d \in Calls \ {c} : count'[d] = count[d],
           count'[c] = count[c] \/ (cancelled[c] /\ count'[c] = count[c] + 1),
           NEW by \in {"context", "result", "softTimeout"},
           NEW codes, Answers(c, by, codes),
           \/ by = "context" /\ codes = {NoCode}
           \/ \E zero \in SUBSET {NoCode} :
                codes = AggregateTxResults(CodesOf(c, got[c]) \union zero),
           by = "result" => cancelled[c],
           by = "softTimeout" => timer[c]
    PROVE  IInv'
<1> USE DEF caller, jobs, Answered, Answer
<1>0. TypeOK /\ CallInv(c)
  BY DEF IInv
<1>1. codes \subseteq SendTxReturnCode \union {NoCode}
  <2>1. CodesOf(c, got[c]) \subseteq SendTxReturnCode \union {NoCode}
    BY <1>0 DEF CodesOf, TypeOK, Nodes
  <2>2. ASSUME NEW zero \in SUBSET {NoCode}, codes = AggregateTxResults(CodesOf(c, got[c]) \union zero)
        PROVE  codes \subseteq SendTxReturnCode \union {NoCode}
    BY <2>1, <2>2, AggregatesOne
  <2> QED
    BY <2>2
<1>2. PICK k \in codes : Answered(c, by, k)
  <2>1. by \in {"notStarted", "doAll", "context", "result", "softTimeout"}
    OBVIOUS
  <2> HIDE DEF Answered
  <2> QED
    BY <1>0, <1>1, <2>1, AnswersFacts
<1>3. TypeOK'
  BY <1>0, <1>2 DEF TypeOK
<1>4. \A d \in Calls \ {c} : Same(d)
  BY <1>2 DEF Same
<1>5. Places(c)' /\ Results(c)'
  BY <1>0, <1>2 DEF CallInv, Places, Results, ChStopClosed
<1>6. Counted(c)'
  <2>1. count[c] \in Nat
    BY <1>0, SMT DEF TypeOK
  <2>2. timer[c] => count'[c] > 0
    BY <1>0, <2>1, SMT DEF CallInv, Counted
  <2> QED
    BY <1>0, <1>2, <2>2 DEF CallInv, Counted, InFlight
<1>7. Told(c)'
  <2>1. CodesOf(c, got[c])' = CodesOf(c, got[c]) /\ HealthyNodes(c)' = HealthyNodes(c)
    BY DEF CodesOf, HealthyNodes
  <2>2. ASSUME by # "context"
        PROVE  /\ FindsIn(CodesOf(c, got[c]), sendTxSuccessfulCodes) <=> Accepted(k)
               /\ FindsIn({k}, sendTxSevereErrors)
                    <=> /\ FindsIn(CodesOf(c, got[c]), sendTxSevereErrors)
                        /\ ~FindsIn(CodesOf(c, got[c]), sendTxSuccessfulCodes)
    <3>1. PICK zero \in SUBSET {NoCode} : k \in AggregateTxResults(CodesOf(c, got[c]) \union zero)
      BY <1>2, <2>2
    <3> DEFINE all == CodesOf(c, got[c]) \union zero
    <3>2. /\ FindsIn(all, sendTxSuccessfulCodes) <=> Accepted(k)
          /\ FindsIn({k}, sendTxSevereErrors)
               <=> FindsIn(all, sendTxSevereErrors) /\ ~FindsIn(all, sendTxSuccessfulCodes)
      <4> HIDE DEF all
      <4> QED
        BY <3>1, Aggregates DEF all
    <3>3. /\ FindsIn(all, sendTxSuccessfulCodes) <=> FindsIn(CodesOf(c, got[c]), sendTxSuccessfulCodes)
          /\ FindsIn(all, sendTxSevereErrors) <=> FindsIn(CodesOf(c, got[c]), sendTxSevereErrors)
      BY ZeroIsNothing
    <3> QED
      BY <3>2, <3>3
  <2>3. by = "softTimeout" /\ ~cancelled[c] => got[c] # {}
    <3> SUFFICES ASSUME by = "softTimeout", ~cancelled[c], got[c] = {} PROVE FALSE
      OBVIOUS
    <3>1. Cardinality(got[c]) > 0
      BY <1>0 DEF CallInv, Counted
    <3>2. Cardinality(got[c]) = 0
      BY FS_EmptySet
    <3> QED
      BY <3>1, <3>2, SMT
  <2>4. Aggregated(c)' => by # "context"
    BY <1>2 DEF Aggregated
  <2>5. answer'[c].by = by /\ answer'[c].code = k
    BY <1>2
  <2>6. by # "context" /\ ~cancelled[c] => CollectedEnough(c)'
    BY <2>3, <2>5 DEF CollectedEnough
  <2> QED
    BY <1>0, <2>1, <2>2, <2>4, <2>5, <2>6 DEF CallInv, Told, Accepted
<1>8. Closing(c)'
  BY <1>0, <1>2 DEF CallInv, Closing, ChStopClosed, InFlight, WaitGroupDone
<1> QED
  BY <1>3, <1>4, <1>5, <1>6, <1>7, <1>8, Assemble DEF CallInv

LEMMA CollectResultStep ==
    ASSUME IInv, NEW c \in Calls, NEW n \in Primaries, CollectResult(c, n) PROVE IInv'
<1> USE DEF caller, jobs
<1> DEFINE codes == CodesOf(c, got[c] \union {n})
<1>0. /\ TypeOK /\ CallInv(c) /\ pc[c] = "collect" /\ job[c][n] = "offering"
      /\ UNCHANGED <<service, cancelled, code, closer, reporter, reported, alarm, todo>>
      /\ job' = [job EXCEPT ![c][n] = "reporting"] /\ got' = [got EXCEPT ![c] = @ \union {n}]
      /\ Collects(c, code[c][n], codes \union ZeroCode(c))
  BY DEF IInv, CollectResult
<1>1. Primaries \subseteq Nodes /\ n \notin got[c] /\ n \notin reported[c]
  BY <1>0 DEF CallInv, Results, Nodes
<1>2. /\ job' \in [Calls -> [Nodes -> {"none", "sending", "offering", "reporting", "done"}]]
      /\ \A d \in Calls \ {c} : job'[d] = job[d]
      /\ job'[c][n] = "reporting"
      /\ \A m \in Nodes \ {n} : job'[c][m] = job[c][m]
  BY <1>0, <1>1, SMT DEF TypeOK
<1>3. /\ got' \in [Calls -> SUBSET Primaries] /\ got'[c] = got[c] \union {n}
      /\ \A d \in Calls \ {c} : got'[d] = got[d]
  BY <1>0 DEF TypeOK
<1>4. HealthyNodes(c)' = HealthyNodes(c)
  BY <1>0, <1>1, <1>2 DEF HealthyNodes
<1>5. /\ count[c] \in Nat /\ count[c] < RequiredResults(c) /\ HealthyNodes(c) # {}
  BY <1>0, SMT DEF TypeOK, CallInv, Counted
<1>6. count[c] + 1 \in 0 .. Cardinality(Primaries)
  BY <1>5, HealthyCounted, SMT
<1>7. /\ count' \in [Calls -> 0 .. Cardinality(Primaries)] /\ count'[c] = count[c] + 1
      /\ \A d \in Calls \ {c} : count'[d] = count[d]
  BY <1>0, <1>6 DEF Collects, TypeOK
<1>8. /\ Cardinality(got'[c]) = Cardinality(got[c]) + 1 /\ Cardinality(got[c]) \in Nat
      /\ ~cancelled[c] => count'[c] = Cardinality(got'[c])
  <2>1. got[c] \in SUBSET Primaries
    BY <1>0 DEF TypeOK
  <2>2. Cardinality(got'[c]) = Cardinality(got[c]) + 1 /\ Cardinality(got[c]) \in Nat
    BY <1>1, <1>3, <2>1, OneMore
  <2>3. ~cancelled[c] => count[c] = Cardinality(got[c])
    BY <1>0 DEF CallInv, Counted
  <2> QED
    BY <1>7, <2>2, <2>3
<1>9. CodesOf(c, got[c])' = codes /\ code[c][n] \in codes /\ codes \subseteq SendTxReturnCode \union {NoCode}
  BY <1>0, <1>1, <1>3 DEF CodesOf, TypeOK
<1> HIDE DEF codes
<1>10. Results(c)'
  BY <1>0, <1>1, <1>2, <1>3 DEF TypeOK, CallInv, Results, ChStopClosed
<1>11. closer[c] \notin {"none", "closed"}
  BY <1>0, <1>1 DEF CallInv, Places
<1>12. InFlight(c) /\ ~cancelled[c] => \A m \in Primaries : job'[c][m] = "done" => m \in got'[c]
  BY <1>0, <1>1, <1>2, <1>3 DEF CallInv, Counted
<1>13. \A m \in Primaries : job[c][m] = "done" => job'[c][m] = "done"
  BY <1>0, <1>1, <1>2
<1>14. CASE Accepted(code[c][n]) \/ count[c] + 1 >= RequiredResults(c)
  <2> USE DEF Answered, Answer
  <2>0. Answers(c, "result", AggregateTxResults(codes \union ZeroCode(c))) /\ UNCHANGED timer
    BY <1>0, <1>14 DEF Collects
  <2>1. ZeroCode(c) \in SUBSET {NoCode}
    BY DEF ZeroCode
  <2>2. AggregateTxResults(codes \union ZeroCode(c)) \subseteq SendTxReturnCode \union {NoCode}
    BY <1>9, <2>1, AggregatesOne
  <2>3. PICK k \in AggregateTxResults(codes \union ZeroCode(c)) : Answered(c, "result", k)
    BY <1>0, <2>0, <2>2, AnswersFacts
  <2>4. TypeOK'
    BY <1>0, <1>2, <1>3, <1>7, <2>0, <2>3 DEF TypeOK
  <2>5. \A d \in Calls \ {c} : Same(d)
    BY <1>0, <1>2, <1>3, <1>7, <2>0, <2>3 DEF Same
  <2>6. Places(c)'
    BY <1>0, <1>11, <2>3 DEF CallInv, Places
  <2>7. Counted(c)'
    <3>1. count'[c] > 0
      BY <1>5, <1>7
    <3> QED
      BY <1>0, <1>8, <2>3, <3>1 DEF CallInv, Counted, InFlight
  <2>8. /\ FindsIn(codes, sendTxSuccessfulCodes) <=> Accepted(k)
        /\ FindsIn({k}, sendTxSevereErrors)
             <=> FindsIn(codes, sendTxSevereErrors) /\ ~FindsIn(codes, sendTxSuccessfulCodes)
    BY <2>1, <2>3, Aggregates, ZeroIsNothing
  <2>9. ~cancelled[c] => CollectedEnough(c)'
    <3>1. CASE Accepted(code[c][n])
      BY <1>9, <3>1, SuccessfulCodes DEF Accepted, CollectedEnough
    <3>2. CASE ~cancelled[c] /\ count[c] + 1 >= RequiredResults(c)
      <4>1. 10 * Cardinality(got'[c]) >= 7 * Cardinality(HealthyNodes(c))
        BY <1>5, <1>7, <1>8, <3>2, HealthyCounted
      <4> QED
        BY <1>4, <4>1 DEF CollectedEnough
    <3> QED
      BY <1>14, <3>1, <3>2
  <2>10. Told(c)'
    <3>1. answer'[c].code = k
      BY <2>3
    <3> QED
      BY <1>0, <1>9, <1>13, <2>8, <2>9, <3>1 DEF CallInv, Told, Accepted
  <2>11. Closing(c)'
    BY <1>0, <2>3 DEF CallInv, Closing, ChStopClosed, InFlight
  <2> QED
    BY <1>0, <1>10, <2>4, <2>5, <2>6, <2>7, <2>10, <2>11, Assemble DEF CallInv
<1>15. CASE ~(Accepted(code[c][n]) \/ count[c] + 1 >= RequiredResults(c))
  <2>1. /\ timer' \in [Calls -> BOOLEAN] /\ UNCHANGED <<pc, answer>>
        /\ \A d \in Calls \ {c} : timer'[d] = timer[d]
    BY <1>0, <1>15 DEF Collects, TypeOK
  <2>2. TypeOK'
    BY <1>0, <1>2, <1>3, <1>7, <2>1 DEF TypeOK
  <2>3. \A d \in Calls \ {c} : Same(d)
    BY <1>0, <1>2, <1>3, <1>7, <2>1 DEF Same
  <2>4. Places(c)'
    BY <1>0, <1>11, <2>1 DEF CallInv, Places
  <2>5. Counted(c)'
    <3>1. count'[c] > 0 /\ count'[c] < RequiredResults(c)
      BY <1>5, <1>7, <1>15, HealthyCounted, SMT
    <3>2. RequiredResults(c)' = RequiredResults(c)
      BY <1>4 DEF RequiredResults
    <3> QED
      BY <1>0, <1>4, <1>5, <1>8, <1>12, <2>1, <3>1, <3>2 DEF Counted, InFlight
  <2>6. Told(c)'
    <3>1. ~Aggregated(c)'
      BY <1>0, <2>1 DEF CallInv, Places, Aggregated, NoAnswer
    <3> QED
      BY <1>0, <1>13, <3>1 DEF CallInv, Told, Accepted
  <2>7. Closing(c)'
    BY <1>0 DEF CallInv, Closing, ChStopClosed, InFlight
  <2> QED
    BY <1>0, <1>10, <2>2, <2>3, <2>4, <2>5, <2>6, <2>7, Assemble DEF CallInv
<1> QED
  BY <1>14, <1>15

\* A zero result is received only when the caller cancelled: as long as it has
\* not, every job that ended was collected, and when all have ended there are
\* enough.
LEMMA ZeroOnlyIfCancelled ==
    ASSUME IInv, NEW c \in Calls, pc[c] = "collect", closer[c] = "closed" PROVE cancelled[c]
<1> SUFFICES ASSUME ~cancelled[c] PROVE FALSE
  OBVIOUS
<1>0. TypeOK /\ CallInv(c)
  BY DEF IInv
<1>1. HealthyNodes(c) \subseteq got[c]
  BY <1>0 DEF CallInv, Places, Counted, InFlight, HealthyNodes
<1>2. /\ Cardinality(HealthyNodes(c)) <= Cardinality(got[c])
      /\ Cardinality(HealthyNodes(c)) \in Nat /\ Cardinality(got[c]) \in Nat
  BY <1>0, <1>1, Contained DEF TypeOK
<1>3. count[c] = Cardinality(got[c]) /\ HealthyNodes(c) # {} /\ count[c] < RequiredResults(c)
  BY <1>0 DEF CallInv, Counted
<1> QED
  BY <1>2, <1>3, HealthyCounted, SMT

LEMMA CollectZeroStep == ASSUME IInv, NEW c \in Calls, CollectZero(c) PROVE IInv'
<1> USE DEF caller, jobs
<1>0. /\ TypeOK /\ CallInv(c) /\ pc[c] = "collect" /\ closer[c] = "closed"
      /\ UNCHANGED <<service, cancelled, jobs, todo, got>>
      /\ Collects(c, NoCode, CodesOf(c, got[c]) \union {NoCode})
  BY DEF IInv, CollectZero
<1>1. cancelled[c]
  BY <1>0, ZeroOnlyIfCancelled
<1>2. /\ count[c] \in Nat /\ count[c] < RequiredResults(c) /\ HealthyNodes(c) # {}
  BY <1>0, SMT DEF TypeOK, CallInv, Counted
<1>3. count[c] + 1 \in 0 .. Cardinality(Primaries)
  BY <1>2, HealthyCounted, SMT
<1>4. /\ count' \in [Calls -> 0 .. Cardinality(Primaries)] /\ count'[c] = count[c] + 1
      /\ \A d \in Calls \ {c} : count'[d] = count[d]
  BY <1>0, <1>3 DEF Collects, TypeOK
<1>5. CASE Accepted(NoCode) \/ count[c] + 1 >= RequiredResults(c)
  <2>1. /\ Answers(c, "result", AggregateTxResults(CodesOf(c, got[c]) \union {NoCode}))
        /\ UNCHANGED timer
    BY <1>0, <1>5 DEF Collects
  <2>2. {NoCode} \in SUBSET {NoCode}
    OBVIOUS
  <2> QED
    BY <1>0, <1>1, <1>4, <2>1, <2>2, ReturnStep
<1>6. CASE ~(Accepted(NoCode) \/ count[c] + 1 >= RequiredResults(c))
  <2>1. /\ timer' \in [Calls -> BOOLEAN] /\ UNCHANGED <<pc, answer>>
        /\ \A d \in Calls \ {c} : timer'[d] = timer[d]
    BY <1>0, <1>6 DEF Collects, TypeOK
  <2>2. TypeOK'
    BY <1>0, <1>4, <2>1 DEF TypeOK
  <2>3. \A d \in Calls \ {c} : Same(d)
    BY <1>0, <1>4, <2>1 DEF Same
  <2>4. Places(c)' /\ Results(c)'
    BY <1>0, <2>1 DEF CallInv, Places, Results, ChStopClosed
  <2>5. HealthyNodes(c)' = HealthyNodes(c)
    BY <1>0 DEF HealthyNodes
  <2>6. Counted(c)'
    <3>1. count'[c] > 0 /\ count'[c] < RequiredResults(c)
      BY <1>2, <1>4, <1>6, HealthyCounted, SMT
    <3>2. RequiredResults(c)' = RequiredResults(c)
      BY <2>5 DEF RequiredResults
    <3> QED
      BY <1>0, <1>1, <1>2, <2>1, <2>5, <3>1, <3>2 DEF Counted, InFlight
  <2>7. Told(c)'
    BY <1>0, <2>1, <2>5, ToldKept
  <2>8. Closing(c)'
    BY <1>0, <2>1 DEF CallInv, Closing, ChStopClosed, InFlight
  <2> QED
    BY <1>0, <2>2, <2>3, <2>4, <2>6, <2>7, <2>8, Assemble DEF CallInv
<1> QED
  BY <1>5, <1>6

LEMMA CollectSoftTimeoutStep == ASSUME IInv, NEW c \in Calls, CollectSoftTimeout(c) PROVE IInv'
<1>1. ZeroCode(c) \in SUBSET {NoCode}
  BY DEF ZeroCode
<1>2. count \in [Calls -> 0 .. Cardinality(Primaries)] /\ count' = count
  BY DEF IInv, TypeOK, CollectSoftTimeout
<1> QED
  BY <1>1, <1>2, ReturnStep DEF CollectSoftTimeout

LEMMA CollectContextDoneStep == ASSUME IInv, NEW c \in Calls, CollectContextDone(c) PROVE IInv'
<1>1. count \in [Calls -> 0 .. Cardinality(Primaries)] /\ count' = count
  BY DEF IInv, TypeOK, CollectContextDone
<1> QED
  BY <1>1, ReturnStep DEF CollectContextDone

-----------------------------------------------------------------------------
LEMMA InitStep == ASSUME Init PROVE IInv
<1>1. Cardinality(Primaries) \in Nat /\ Cardinality({}) = 0
  BY ConfigAssumption, FS_CardinalityType, FS_EmptySet
<1>2. count \in [Calls -> 0 .. Cardinality(Primaries)]
  BY <1>1, SMT DEF Init
<1>3. answer \in [Calls -> Answer] /\ code \in [Calls -> [Nodes -> SendTxReturnCode \union {NoCode}]]
      /\ job \in [Calls -> [Nodes -> {"none", "sending", "offering", "reporting", "done"}]]
  BY DEF Init, Answer, NoAnswer
<1>4. TypeOK
  BY <1>2, <1>3 DEF Init, TypeOK, Answer
<1>5. ASSUME NEW c \in Calls
      PROVE  CallInv(c)
  <2>1. Places(c) /\ Results(c) /\ Closing(c)
    BY DEF Init, Places, Results, Closing, ChStopClosed, Nodes
  <2>2. Counted(c)
    BY <1>1 DEF Init, Counted, InFlight
  <2>3. Told(c)
    BY DEF Init, Told, Aggregated, NoAnswer
  <2> QED
    BY <2>1, <2>2, <2>3 DEF CallInv
<1> QED
  BY <1>4, <1>5 DEF IInv

LEMMA StutterStep == ASSUME IInv, UNCHANGED vars PROVE IInv'
<1>1. TypeOK' /\ ChStopClosed' = ChStopClosed
  BY DEF IInv, TypeOK, vars, jobs, caller, ChStopClosed
<1>2. ASSUME NEW c \in Calls
      PROVE  CallInv(c)'
  <2>1. Same(c) /\ CallInv(c)
    BY DEF IInv, Same, vars, jobs, caller
  <2>2. Closing(c)'
    BY <1>1, <2>1 DEF CallInv, Closing, Same, InFlight, WaitGroupDone, vars
  <2> QED
    BY <1>1, <2>1, <2>2, Kept DEF CallInv
<1> QED
  BY <1>1, <1>2 DEF IInv

\* Every step of the transaction sender preserves the inductive invariant.
THEOREM Inductive == Spec => []IInv
<1>1. Init => IInv
  BY InitStep
<1>2. IInv /\ [Next]_vars => IInv'
  <2> SUFFICES ASSUME IInv, [Next]_vars PROVE IInv'
    OBVIOUS
  <2>1. CASE Start \/ Close \/ CloseStop \/ CloseReturns
    BY <2>1, ServiceStep
  <2>2. ASSUME NEW c \in Calls, Calling(c)
        PROVE  IInv'
    BY <2>2, DoAllVisitsStep, DoAllReturnsStep, CollectResultStep, CollectZeroStep,
       CollectSoftTimeoutStep, CollectContextDoneStep DEF Calling
  <2>3. ASSUME NEW c \in Calls, Background(c)
        PROVE  IInv'
    BY <2>3, BroadcastStep, OfferDroppedStep, ReportStep, CloseChannelsStep,
       ReportSendTxAnomaliesStep DEF Background
  <2>4. CASE UNCHANGED vars
    BY <2>4, StutterStep
  <2> QED
    BY <2>1, <2>2, <2>3, <2>4, SendTransactionStep, CancelStep DEF Next
<1> QED
  BY <1>1, <1>2, PTL DEF Spec

\* What SendTransaction answers follows from the results it has collected, and
\* unless its caller cancelled it has collected enough of them, for any number
\* of calls, nodes and outcomes.
THEOREM AnswerIsEarnedAlways == Spec => []AnswerIsEarned
<1>1. IInv => AnswerIsEarned
  BY DEF IInv, CallInv, Told, AnswerIsEarned, AnswerFollowsResults, EnoughUnlessCancelled
<1> QED
  BY <1>1, Inductive, PTL

\* reportSendTxAnomalies gets every collected result, unless the sender closes,
\* and never reports a contradiction that is none.
THEOREM ReportsAreTrueAlways == Spec => []ReportsAreTrue
<1>1. ASSUME IInv, NEW c \in Calls, reporter[c] = "done", ~ChStopClosed
      PROVE  got[c] \subseteq reported[c]
  <2>1. \A n \in got[c] : n \in Primaries /\ job[c][n] \in {"none", "done"}
    BY <1>1 DEF IInv, TypeOK, CallInv, Places
  <2> QED
    BY <1>1, <2>1 DEF IInv, CallInv, Results
<1>2. IInv => ReportsAreTrue
  BY <1>1 DEF IInv, CallInv, Told, ReportsAreTrue, CollectedIsReported, AlarmsAreReal
<1> QED
  BY <1>2, Inductive, PTL

\* When Close returns no goroutine of any call is left.
THEOREM CloseLeavesNothingAlways == Spec => []CloseLeavesNothing
<1>1. ASSUME IInv, service = "stopped", NEW c \in Calls
      PROVE  ~InFlight(c) /\ \A n \in Nodes : job[c][n] \in {"none", "done"}
  <2>1. CallInv(c) /\ ~InFlight(c) /\ WaitGroupDone(c) /\ closer[c] \in {"none", "waiting", "closed"}
    BY <1>1 DEF IInv, TypeOK, CallInv, Closing, ChStopClosed
  <2> QED
    BY <2>1 DEF CallInv, Places, InFlight, WaitGroupDone, Nodes
<1>2. IInv => CloseLeavesNothing
  BY <1>1 DEF CloseLeavesNothing
<1> QED
  BY <1>2, Inductive, PTL
=============================================================================
