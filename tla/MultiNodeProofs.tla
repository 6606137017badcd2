--------------------------- MODULE MultiNodeProofs ---------------------------
(***************************************************************************)
(* Repeatable reads, for every pool, every number of users, every selection *)
(* mode and every length of the chains.                                    *)
(*                                                                         *)
(* The argument.  A user's last read is at most HighestUserObservations.   *)
(* A reading that says "alive" was taken when the node's chain info was at *)
(* least that high, less the offset, and a node's chain info is never      *)
(* ahead of its chain, which only grows.  So every node that a user in     *)
(* selectNode has read as alive, and every node that a user was given, has *)
(* a chain at least as long as the user's last read, and keeps it.         *)
(***************************************************************************)
EXTENDS MultiNode, TLAPS

\* The provers in the order in which they are tried: most leaves are first-order.
USE ZenonT(5), SMTT(12), Z3T(12), ZenonT(20)

\* Node n can only answer user u with what u may read next.
Serves(n, u) == lastRead[u] <= ReadBlock(chain[n]) + FinalizedBlockOffset

ReadInv ==
    /\ \A n \in Pool : ReadNumber(latest[n]) <= ReadBlock(chain[n])
    /\ \A u \in Users : lastRead[u] <= HighestUserObservations
    /\ \A p \in Procs : Len(local[p].seen) <= Len(Nodes)
    /\ EnforceRepeatableRead =>
         \A u \in Users : \A i \in DOMAIN local[u].seen :
            local[u].seen[i].alive => Serves(Nodes[i], u)
    /\ \A u \in Users : pc[u] = "use" =>
         /\ local[u].node \in Pool
         /\ EnforceRepeatableRead => Serves(local[u].node, u)

IInv == TypeOK /\ ReadInv

-----------------------------------------------------------------------------
(* The operators.                                                           *)

\* Every position of the pool holds a node.
LEMMA NodesInPool == ASSUME NEW i \in 1..Len(Nodes) PROVE Nodes[i] \in Pool
BY ConfigAssumption DEF Pool

\* A longer chain has no lower finalized block.
LEMMA FinalizedMonotone ==
    ASSUME NEW h \in Nat, NEW k \in Nat, h <= k
    PROVE  Finalized(h) \in Nat /\ Finalized(k) \in Nat /\ Finalized(h) <= Finalized(k)
BY ConfigAssumption DEF Finalized, Larger

\* A longer chain answers a user with no lower block.
LEMMA ReadBlockMonotone ==
    ASSUME NEW h \in Nat, NEW k \in Nat, h <= k
    PROVE  ReadBlock(h) \in Nat /\ ReadBlock(k) \in Nat /\ ReadBlock(h) <= ReadBlock(k)
BY FinalizedMonotone DEF ReadBlock

\* Every selector returns one of the nodes it read as alive.
LEMMA SelectLiving ==
    ASSUME TypeOK, NEW seen
    PROVE  Select(seen) \subseteq Living(seen)
<1>1. selectionMode \in {"HighestHead", "RoundRobin", "TotalDifficulty",
                         "PriorityLevel", "RandomRPC"}
  BY DEF TypeOK, Modes
<1>2. firstOrHighestPriority(HighestHeads(seen)) \subseteq Living(seen)
  BY DEF firstOrHighestPriority, HighestHeads
<1>3. firstOrHighestPriority(HighestDifficulties(seen)) \subseteq Living(seen)
  BY DEF firstOrHighestPriority, HighestDifficulties
<1>4. \A c : Rotate(Living(seen), c) \subseteq Living(seen)
  BY DEF Rotate
<1>5. \A c : Rotate(Tier(seen), c) \subseteq Living(seen)
  BY DEF Rotate, Tier, removeLowerTiers
<1>. QED
  BY <1>1, <1>2, <1>3, <1>4, <1>5 DEF Select

\* What a selector reads of a node is well typed.
LEMMA ReadingType ==
    ASSUME TypeOK, NEW n \in Pool
    PROVE  StateAndLatest(n) \in Reading
<1>1. latest[n].BlockNumber \in Nat /\ Work[n] \in Nat
  BY ConfigAssumption DEF TypeOK, Info
<1>2. latest[n].BlockNumber * Work[n] \in Nat
  BY <1>1
<1>3. Alive(n) \in BOOLEAN
  BY DEF Alive
<1>. QED
  BY <1>1, <1>2, <1>3 DEF StateAndLatest, Reading

\* A node read as alive serves every user.
LEMMA AliveServes ==
    ASSUME IInv, EnforceRepeatableRead, NEW n \in Pool, NEW u \in Users, Alive(n)
    PROVE  Serves(n, u)
<1>1. /\ lastRead[u] \in Nat /\ HighestUserObservations \in Nat
      /\ latest[n] \in Info /\ chain[n] \in Nat
  BY DEF IInv, TypeOK
<1>2. ReadNumber(latest[n]) \in Nat /\ ReadBlock(chain[n]) \in Nat
  BY <1>1, ReadBlockMonotone DEF ReadNumber, Info
<1>3. HighestUserObservations - FinalizedBlockOffset <= ReadNumber(latest[n])
  BY <1>1, <1>2, ConfigAssumption DEF Alive, isFinalizedBlockOutOfSync
<1>4. ReadNumber(latest[n]) <= ReadBlock(chain[n]) /\ lastRead[u] <= HighestUserObservations
  BY DEF IInv, ReadInv
<1>. QED
  BY <1>1, <1>2, <1>3, <1>4, ConfigAssumption DEF Serves

-----------------------------------------------------------------------------
(* The steps that change no chain, no chain info and no read only move a     *)
(* process: they keep ReadInv if the process they move keeps its part.       *)

\* A step that moves one process, and changes neither chains nor reads, keeps ReadInv
\* if the process fits it.
LEMMA OnlyMoves ==
    ASSUME IInv, NEW p \in Procs,
           UNCHANGED <<chain, latest, HighestUserObservations, lastRead>>,
           \A q \in Procs \ {p} : local'[q] = local[q] /\ pc'[q] = pc[q],
           Len(local'[p].seen) <= Len(Nodes),
           p \in Users /\ EnforceRepeatableRead =>
               \A i \in DOMAIN local'[p].seen :
                   local'[p].seen[i].alive => Serves(Nodes[i], p),
           p \in Users /\ pc'[p] = "use" =>
               /\ local'[p].node \in Pool
               /\ EnforceRepeatableRead => Serves(local'[p].node, p)
    PROVE  ReadInv'
<1>1. \A n, u : Serves(n, u)' <=> Serves(n, u)
  BY DEF Serves
<1>2. Users \subseteq Procs
  BY DEF Procs
<1>. QED
  BY <1>1, <1>2 DEF IInv, ReadInv

\* Fresh locals hold no reading and no node.
LEMMA FreshFits ==
    Len(Fresh.seen) <= Len(Nodes) /\ DOMAIN Fresh.seen = {} /\ Fresh.node = NoOne
BY ConfigAssumption DEF Fresh

\* Fresh locals with a node hold no reading.
LEMMA FreshNodeFits ==
    ASSUME NEW n
    PROVE  /\ [Fresh EXCEPT !.node = n].node = n
           /\ Len([Fresh EXCEPT !.node = n].seen) <= Len(Nodes)
           /\ DOMAIN [Fresh EXCEPT !.node = n].seen = {}
BY ConfigAssumption DEF Fresh

\* A full scan: what Select returns was read as alive, and serves the user.
LEMMA SelectedServes ==
    ASSUME IInv, NEW p \in Procs, Len(local[p].seen) = Len(Nodes),
           NEW i \in Select(local[p].seen)
    PROVE  /\ Nodes[i] \in Pool
           /\ p \in Users /\ EnforceRepeatableRead => Serves(Nodes[i], p)
<1>1. local[p].seen \in Seq(Reading)
  BY DEF IInv, TypeOK, Local
<1>2. i \in DOMAIN local[p].seen /\ local[p].seen[i].alive
  BY SelectLiving DEF IInv, Living
<1>3. i \in 1..Len(Nodes)
  BY <1>1, <1>2
<1>. QED
  BY <1>2, <1>3, NodesInPool DEF IInv, ReadInv

-----------------------------------------------------------------------------
(* Types.                                                                   *)

\* The fields of a record that has the shape of the locals, and changes of one of them.
LEMMA RecordFields ==
    ASSUME NEW A, NEW B, NEW C, NEW l \in [node : A, seen : B, i : C]
    PROVE  /\ l.node \in A /\ l.seen \in B /\ l.i \in C
           /\ \A n \in A : [l EXCEPT !.node = n] \in [node : A, seen : B, i : C]
           /\ \A x \in B : [l EXCEPT !.seen = x] \in [node : A, seen : B, i : C]
           /\ \A j \in C : [l EXCEPT !.i = j] \in [node : A, seen : B, i : C]
OBVIOUS

\* The fields of well-typed locals.
LEMMA LocalFields ==
    ASSUME NEW l \in Local
    PROVE  /\ l.node \in Pool \union {NoOne} /\ l.seen \in Seq(Reading) /\ l.i \in Nat
           /\ \A n \in Pool \union {NoOne} : [l EXCEPT !.node = n] \in Local
           /\ \A x \in Seq(Reading) : [l EXCEPT !.seen = x] \in Local
           /\ \A j \in Nat : [l EXCEPT !.i = j] \in Local
BY RecordFields, Zenon DEF Local

\* Fresh locals, with any node, are well typed.
LEMMA FreshType ==
    ASSUME NEW n \in Pool \union {NoOne}
    PROVE  Fresh \in Local /\ [Fresh EXCEPT !.node = n] \in Local
<1>1. <<>> \in Seq(Reading) /\ 1 \in Nat
  OBVIOUS
<1>2. Fresh \in Local
  BY <1>1, Zenon DEF Fresh, Local
<1>. QED
  BY <1>2, LocalFields

\* AdvanceCounter keeps the counters in their width.
LEMMA CounterType ==
    ASSUME TypeOK, NEW seen, AdvanceCounter(seen)
    PROVE  roundRobinCount' \in [Tiers -> 0..CounterSize - 1]
<1>1. \A c \in 0..CounterSize - 1 : (c + 1) % CounterSize \in 0..CounterSize - 1
  BY ConfigAssumption
<1>. QED
  BY <1>1 DEF TypeOK, AdvanceCounter

\* Down keeps the types of what it changes.
LEMMA DownType ==
    ASSUME TypeOK, NEW n \in Pool, Down(n)
    PROVE  /\ state' \in [Pool -> {"Dialed", "Alive", "Down"}]
           /\ latest' \in [Pool -> Info]
           /\ subs' \subseteq Pool
BY DEF TypeOK, Down, Info, NoInfo

\* Return keeps the types of what it changes.
LEMMA ReturnType ==
    ASSUME TypeOK, NEW u \in Users, NEW n \in Pool \union {NoOne}, Return(u, n)
    PROVE  /\ activeNode' \in Pool \union {NoOne}
           /\ activeMu' \in Users \union {NoOne}
           /\ local' \in [Procs -> Local]
           /\ pc' \in [Procs -> {"absent", "idle", "read", "check", "lock", "select", "init", "wait",
                                 "use", "unsubscribe", "switch", "declare"}]
<1>1. [Fresh EXCEPT !.node = n] \in Local
  BY FreshType
<1>. QED
  BY <1>1 DEF TypeOK, Return, SetLocal, Goto, Procs

\* ScanNode keeps the types.
LEMMA ScanType ==
    ASSUME TypeOK, NEW p \in Procs, ScanNode(p)
    PROVE  TypeOK'
<1>0. local[p] \in Local /\ local[p].seen \in Seq(Reading)
  BY LocalFields DEF TypeOK
<1>1. Len(local[p].seen) + 1 \in 1..Len(Nodes)
  <2>1. Len(local[p].seen) \in Nat /\ Len(Nodes) \in Nat
    BY <1>0, ConfigAssumption
  <2>2. Len(local[p].seen) < Len(Nodes)
    BY DEF ScanNode
  <2>. QED
    BY <2>1, <2>2
<1>2. StateAndLatest(Nodes[Len(local[p].seen) + 1]) \in Reading
  BY <1>1, NodesInPool, ReadingType
<1>3. [local[p] EXCEPT !.seen = Append(@, StateAndLatest(Nodes[Len(local[p].seen) + 1]))]
        \in Local
  <2>1. Append(local[p].seen, StateAndLatest(Nodes[Len(local[p].seen) + 1]))
          \in Seq(Reading)
    BY <1>0, <1>2
  <2>. QED
    BY <1>0, <2>1, LocalFields
<1>. QED
  BY <1>3 DEF TypeOK, ScanNode, SetLocal, nodeVars

\* Every step keeps the types.
LEMMA TypeStep == IInv /\ [Next]_vars => TypeOK'
<1>. SUFFICES ASSUME IInv, [Next]_vars PROVE TypeOK'
  OBVIOUS
<1>. USE DEF IInv
<1>a. /\ Users \subseteq Procs /\ Lease \in Procs /\ Pool \subseteq Procs
      /\ Fresh \in Local
      /\ \A n \in Pool \union {NoOne} : [Fresh EXCEPT !.node = n] \in Local
  BY FreshType DEF Procs
<1>1. ASSUME NEW u \in Users, SelectNode(u) PROVE TypeOK'
  BY <1>1, <1>a DEF TypeOK, SelectNode, Goto, nodeVars, poolVars
<1>2. ASSUME NEW u \in Users, ReadActive(u) PROVE TypeOK'
  BY <1>2, <1>a DEF TypeOK, ReadActive, Goto, SetLocal, nodeVars, poolVars
<1>3. ASSUME NEW u \in Users, CheckActive(u) PROVE TypeOK'
  BY <1>3, <1>a DEF TypeOK, CheckActive, Goto, SetLocal, nodeVars, poolVars
<1>4. ASSUME NEW u \in Users, LockActive(u) PROVE TypeOK'
  BY <1>4, <1>a DEF TypeOK, LockActive, Goto, SetLocal, nodeVars
<1>5. ASSUME NEW p \in Procs, ScanNode(p) PROVE TypeOK'
  BY <1>5, ScanType
<1>6. ASSUME NEW u \in Users, Selected(u) PROVE TypeOK'
  <2>1. roundRobinCount' \in [Tiers -> 0..CounterSize - 1]
    BY <1>6, CounterType DEF Selected
  <2>2. CASE Select(local[u].seen) = {}
    <3>1. /\ SetLocal(u, Fresh) /\ Goto(u, "init") /\ UNCHANGED <<activeNode, activeMu>>
          /\ UNCHANGED <<selectionMode, nodeVars, subs, lastRead, panicked>>
      BY <1>6, <2>2 DEF Selected
    <3>. QED
      BY <1>a, <2>1, <3>1 DEF TypeOK, Goto, SetLocal, nodeVars
  <2>3. CASE Select(local[u].seen) # {}
    <3>1. PICK i \in Select(local[u].seen) : Return(u, Nodes[i])
      BY <1>6, <2>3 DEF Selected
    <3>2. Nodes[i] \in Pool
      BY <1>6, <1>a, SelectedServes DEF Selected
    <3>. QED
      BY <1>6, <2>1, <3>1, <3>2, ReturnType DEF TypeOK, Selected, nodeVars
  <2>. QED
    BY <2>2, <2>3
<1>7. ASSUME NEW u \in Users, ScanInitializing(u) PROVE TypeOK'
  <2>1. CASE Return(u, NoOne)
    BY <1>7, <2>1, ReturnType DEF TypeOK, ScanInitializing, nodeVars
  <2>2. [local[u] EXCEPT !.i = @ + 1] \in Local
    <3>1. local[u] \in Local
      BY <1>a DEF TypeOK
    <3>2. local[u].i + 1 \in Nat
      BY <3>1, LocalFields
    <3>. QED
      BY <3>1, <3>2, LocalFields
  <2>. QED
    BY <1>7, <1>a, <2>1, <2>2 DEF TypeOK, ScanInitializing, Goto, SetLocal, nodeVars
<1>8. ASSUME NEW u \in Users, WaitOver(u) PROVE TypeOK'
  BY <1>8, <1>a DEF TypeOK, WaitOver, Goto, nodeVars, poolVars
<1>9. ASSUME NEW u \in Users, ContextDone(u) PROVE TypeOK'
  BY <1>9, ReturnType DEF TypeOK, ContextDone, nodeVars
<1>10. ASSUME NEW u \in Users, Read(u) PROVE TypeOK'
  <2>1. local[u].node \in Pool
    BY <1>10 DEF Read, At, ReadInv
  <2>2. ReadBlock(chain[local[u].node]) \in Nat
    BY <2>1, ReadBlockMonotone DEF TypeOK
  <2>3. latest' \in [Pool -> Info]
    BY <1>10, <2>1, <2>2 DEF TypeOK, Read, SetReadNumber, Info
  <2>. QED
    BY <1>10, <1>a, <2>2, <2>3 DEF TypeOK, Read, Larger, Done, Goto, SetLocal, poolVars
<1>11. ASSUME NEW u \in Users, Subscribe(u) PROVE TypeOK'
  <2>1. local[u].node \in Pool
    BY <1>11 DEF Subscribe, At, ReadInv
  <2>. QED
    BY <1>11, <1>a, <2>1 DEF TypeOK, Subscribe, Done, Goto, SetLocal, nodeVars
<1>12. ASSUME LeaseTick PROVE TypeOK'
  BY <1>12, <1>a DEF TypeOK, LeaseTick, Goto, nodeVars, poolVars
<1>13. ASSUME LeaseSelected PROVE TypeOK'
  <2>1. roundRobinCount' \in [Tiers -> 0..CounterSize - 1]
    BY <1>13, CounterType DEF LeaseSelected
  <2>2. \A i \in Select(local[Lease].seen) : [Fresh EXCEPT !.node = Nodes[i]] \in Local
    BY <1>13, <1>a, SelectedServes DEF LeaseSelected
  <2>3. PICK l \in Local : SetLocal(Lease, l)
    BY <1>13, <1>a, <2>2 DEF LeaseSelected
  <2>4. /\ Goto(Lease, "unsubscribe")
        /\ UNCHANGED <<selectionMode, nodeVars, subs, activeNode, activeMu, lastRead, panicked>>
    BY <1>13 DEF LeaseSelected
  <2>. QED
    BY <1>a, <2>1, <2>3, <2>4 DEF TypeOK, Goto, SetLocal, nodeVars
<1>14. ASSUME LeaseUnsubscribe PROVE TypeOK'
  <2>1. [local[Lease] EXCEPT !.i = @ + 1] \in Local
    <3>1. local[Lease] \in Local
      BY <1>a DEF TypeOK
    <3>2. local[Lease].i + 1 \in Nat
      BY <3>1, LocalFields
    <3>. QED
      BY <3>1, <3>2, LocalFields
  <2>. QED
    BY <1>14, <1>a, <2>1 DEF TypeOK, LeaseUnsubscribe, Goto, SetLocal, nodeVars
<1>15. ASSUME LeaseSwitch PROVE TypeOK'
  <2>1. local[Lease].node \in Pool \union {NoOne}
    BY <1>a, LocalFields DEF TypeOK
  <2>. QED
    BY <1>15, <1>a, <2>1 DEF TypeOK, LeaseSwitch, Goto, SetLocal, nodeVars
<1>16. ASSUME NEW n \in Pool, ChainGrows(n) PROVE TypeOK'
  BY <1>16 DEF TypeOK, ChainGrows, poolVars
<1>17. ASSUME NEW n \in Pool, HealthCheck(n) PROVE TypeOK'
  <2>1. \A h \in 0..chain[n] : h \in Nat /\ Finalized(h) \in Nat
    BY FinalizedMonotone DEF TypeOK
  <2>2. PICK h \in 0..chain[n] :
             \/ latest' = [latest EXCEPT ![n].BlockNumber = h]
             \/ latest' = [latest EXCEPT ![n].FinalizedBlockNumber = Finalized(h)]
    BY <1>17 DEF HealthCheck
  <2>3. latest' \in [Pool -> Info]
    <3>1. /\ [latest[n] EXCEPT !.BlockNumber = h] \in Info
          /\ [latest[n] EXCEPT !.FinalizedBlockNumber = Finalized(h)] \in Info
      BY <2>1 DEF TypeOK, Info
    <3>2. CASE latest' = [latest EXCEPT ![n].BlockNumber = h]
      BY <3>1, <3>2 DEF TypeOK
    <3>3. CASE latest' = [latest EXCEPT ![n].FinalizedBlockNumber = Finalized(h)]
      BY <3>1, <3>3 DEF TypeOK
    <3>. QED
      BY <2>2, <3>2, <3>3
  <2>. QED
    BY <1>17, <2>3 DEF TypeOK, HealthCheck, poolVars
<1>18. ASSUME NEW n \in Pool, StateChange(n) PROVE TypeOK'
  BY <1>18, DownType DEF TypeOK, StateChange
<1>19. ASSUME NEW n \in Pool, CheckOthers(n) PROVE TypeOK'
  BY <1>19, <1>a DEF TypeOK, CheckOthers, Goto, nodeVars, poolVars
<1>20. ASSUME NEW n \in Pool, Declare(n) PROVE TypeOK'
  BY <1>20, <1>a, DownType DEF TypeOK, Declare, Goto
<1>21. CASE UNCHANGED vars
  BY <1>21 DEF TypeOK, vars, nodeVars, poolVars
<1>. QED
  BY <1>a, <1>1, <1>2, <1>3, <1>4, <1>5, <1>6, <1>7, <1>8, <1>9, <1>10, <1>11, <1>12,
     <1>13, <1>14, <1>15, <1>16, <1>17, <1>18, <1>19, <1>20, <1>21
     DEF Next, PoolNext, UserStep, LeaseStep

-----------------------------------------------------------------------------
(* ReadInv.                                                                 *)

\* The steps that change the chain info of a node, and no user.
LEMMA InfoChanges ==
    ASSUME IInv, UNCHANGED <<chain, local, HighestUserObservations, lastRead>>,
           \A u \in Users : pc'[u] = pc[u],
           \A n \in Pool : ReadNumber(latest'[n]) <= ReadBlock(chain[n])
    PROVE  ReadInv'
<1>1. \A n, u : Serves(n, u)' <=> Serves(n, u)
  BY DEF Serves
<1>2. \A n : ReadNumber(latest[n])' = ReadNumber(latest'[n])
  BY DEF ReadNumber
<1>. QED
  BY <1>1, <1>2 DEF IInv, ReadInv

\* A node that goes down forgets its chain info, and disturbs no user.
LEMMA DownKeepsReads ==
    ASSUME IInv, NEW n \in Pool, Down(n)
    PROVE  \A m \in Pool : ReadNumber(latest'[m]) <= ReadBlock(chain[m])
<1>1. ReadNumber(NoInfo) = 0
  BY DEF ReadNumber, NoInfo
<1>2. \A m \in Pool : latest'[m] = IF m = n THEN NoInfo ELSE latest[m]
  BY DEF IInv, TypeOK, Down
<1>3. \A m \in Pool : chain[m] \in Nat /\ ReadBlock(chain[m]) \in Nat
  BY ReadBlockMonotone DEF IInv, TypeOK
<1>. QED
  BY <1>1, <1>2, <1>3 DEF IInv, ReadInv

\* A user to whom selectNode returns a node that serves it, or nil, fits ReadInv.
LEMMA ReturnKeepsReads ==
    ASSUME IInv, NEW u \in Users, NEW n \in Pool \union {NoOne}, Return(u, n),
           UNCHANGED <<chain, latest, HighestUserObservations, lastRead>>,
           n # NoOne /\ EnforceRepeatableRead => Serves(n, u)
    PROVE  ReadInv'
<1>1. u \in Procs
  BY DEF Procs
<1>2. local'[u] = [Fresh EXCEPT !.node = n] /\ pc'[u] = IF n = NoOne THEN "idle" ELSE "use"
  BY <1>1 DEF IInv, TypeOK, Return, SetLocal, Goto
<1>3. \A q \in Procs \ {u} : local'[q] = local[q] /\ pc'[q] = pc[q]
  BY <1>1 DEF IInv, TypeOK, Return, SetLocal, Goto
<1>4. local'[u].node = n /\ Len(local'[u].seen) <= Len(Nodes) /\ DOMAIN local'[u].seen = {}
  BY <1>2, FreshNodeFits
<1>5. pc'[u] = "use" => n \in Pool /\ (EnforceRepeatableRead => Serves(n, u))
  BY <1>2
<1>. QED
  BY <1>1, <1>3, <1>4, <1>5, OnlyMoves

\* A read from a node that serves the user.
LEMMA ReadKeepsReads ==
    ASSUME IInv, NEW u \in Users, Read(u)
    PROVE  ReadInv'
<1>. DEFINE n == local[u].node
            v == ReadBlock(chain[n])
<1>1. n \in Pool /\ u \in Procs
  BY DEF IInv, ReadInv, Read, At, Procs
<1>2. v \in Nat /\ HighestUserObservations \in Nat
  BY <1>1, ReadBlockMonotone DEF IInv, TypeOK
<1>3. /\ HighestUserObservations' \in Nat /\ HighestUserObservations <= HighestUserObservations'
      /\ v <= HighestUserObservations'
  BY <1>2 DEF Read, Larger
<1>4. /\ \A w \in Users : lastRead'[w] = IF w = u THEN v ELSE lastRead[w]
      /\ local'[u] = Fresh /\ pc'[u] = "idle"
      /\ \A q \in Procs : q # u => local'[q] = local[q] /\ pc'[q] = pc[q]
  <2>1. /\ lastRead' = [lastRead EXCEPT ![u] = v]
        /\ local' = [local EXCEPT ![u] = Fresh]
        /\ pc' = [pc EXCEPT ![u] = "idle"]
    BY DEF Read, Done, Goto, SetLocal
  <2>. HIDE DEF v
  <2>. QED
    BY <1>1, <2>1 DEF IInv, TypeOK
<1>5. chain' = chain /\ \A m \in Pool : chain[m] \in Nat /\ ReadBlock(chain[m]) \in Nat
  BY ReadBlockMonotone DEF IInv, TypeOK, Read
<1>6. \A m \in Pool : ReadNumber(latest[m])' <= ReadBlock(chain[m])'
  <2>1. ReadNumber(latest[n]) <= v
    BY <1>1 DEF IInv, ReadInv
  <2>2. latest[n] \in Info
    BY <1>1 DEF IInv, TypeOK
  <2>3. ReadNumber(SetReadNumber(latest[n], v)) = v
    BY <2>2 DEF ReadNumber, SetReadNumber, Info
  <2>4. PICK info \in {latest[n], SetReadNumber(latest[n], v)} :
           latest' = [latest EXCEPT ![n] = info]
    BY DEF Read
  <2>5. ReadNumber(info) <= v
    BY <1>2, <2>1, <2>3
  <2>6. \A m \in Pool : latest'[m] = IF m = n THEN info ELSE latest[m]
    BY <2>4 DEF IInv, TypeOK
  <2>. QED
    BY <1>5, <2>5, <2>6 DEF IInv, ReadInv, ReadNumber, ReadBlock
<1>7. \A w \in Users : lastRead'[w] <= HighestUserObservations'
  <2>1. \A w \in Users : lastRead[w] \in Nat /\ lastRead[w] <= HighestUserObservations
    BY DEF IInv, ReadInv, TypeOK
  <2>. HIDE DEF v
  <2>. QED
    BY <1>2, <1>3, <1>4, <2>1
<1>8. \A m \in Pool : \A w \in Users : w # u => (Serves(m, w)' <=> Serves(m, w))
  BY <1>4, <1>5 DEF Serves, ReadBlock
<1>9. Users \subseteq Procs
  BY DEF Procs
<1>10. \A p \in Procs : Len(local'[p].seen) <= Len(Nodes)
  BY <1>4, FreshFits DEF IInv, ReadInv
<1>11. ASSUME EnforceRepeatableRead, NEW w \in Users, NEW i \in DOMAIN local'[w].seen,
              local'[w].seen[i].alive
       PROVE  Serves(Nodes[i], w)'
  <2>1. w # u /\ local'[w] = local[w]
    BY <1>4, <1>9, <1>11, FreshFits
  <2>2. i \in 1..Len(Nodes)
    <3>1. local[w].seen \in Seq(Reading)
      BY <1>9, LocalFields DEF IInv, TypeOK
    <3>2. Len(local[w].seen) \in Nat /\ Len(Nodes) \in Nat /\ i \in 1..Len(local[w].seen)
      BY <1>11, <2>1, <3>1, ConfigAssumption
    <3>3. Len(local[w].seen) <= Len(Nodes)
      BY <1>9 DEF IInv, ReadInv
    <3>. QED
      BY <3>2, <3>3
  <2>3. Serves(Nodes[i], w)
    BY <1>11, <2>1 DEF IInv, ReadInv
  <2>. QED
    BY <1>8, <2>1, <2>2, <2>3, NodesInPool
<1>12. ASSUME NEW w \in Users, pc'[w] = "use"
       PROVE  local'[w].node \in Pool /\ (EnforceRepeatableRead => Serves(local[w].node, w)')
  <2>1. w # u /\ local'[w] = local[w] /\ pc[w] = "use"
    BY <1>4, <1>9, <1>12
  <2>2. local[w].node \in Pool /\ (EnforceRepeatableRead => Serves(local[w].node, w))
    BY <2>1 DEF IInv, ReadInv
  <2>3. Serves(local[w].node, w)' <=> Serves(local[w].node, w)
    BY <1>4, <1>5, <2>1 DEF Serves, ReadBlock
  <2>. QED
    BY <2>1, <2>2, <2>3
<1>. QED
  BY <1>4, <1>6, <1>7, <1>9, <1>10, <1>11, <1>12 DEF ReadInv

\* A node that a selector reads as alive serves its user.
LEMMA ScanKeepsReads ==
    ASSUME IInv, NEW p \in Procs, ScanNode(p)
    PROVE  ReadInv'
<1>. DEFINE l == local[p]
            n == Nodes[Len(l.seen) + 1]
            r == StateAndLatest(n)
<1>1. l.seen \in Seq(Reading) /\ l \in Local
  BY LocalFields DEF IInv, TypeOK
<1>2. Len(l.seen) \in Nat /\ Len(Nodes) \in Nat /\ Len(l.seen) < Len(Nodes)
  <2>1. Len(l.seen) \in Nat
    BY <1>1
  <2>2. Len(Nodes) \in Nat
    BY ConfigAssumption
  <2>3. Len(l.seen) < Len(Nodes)
    BY DEF ScanNode
  <2>. QED
    BY <2>1, <2>2, <2>3
<1>3. n \in Pool
  BY <1>2, NodesInPool
<1>4. r \in Reading /\ (r.alive <=> Alive(n))
  BY <1>3, ReadingType DEF IInv, StateAndLatest
<1>5. /\ local' = [local EXCEPT ![p] = [l EXCEPT !.seen = Append(@, r)]] /\ pc' = pc
      /\ UNCHANGED <<chain, latest, HighestUserObservations, lastRead>>
      /\ pc[p] = "select"
  BY DEF ScanNode, SetLocal, At, nodeVars
<1>6. local'[p].seen = Append(l.seen, r)
  BY <1>1, <1>5 DEF IInv, TypeOK, Local
<1>7. \A q \in Procs \ {p} : local'[q] = local[q] /\ pc'[q] = pc[q]
  BY <1>5 DEF IInv, TypeOK
<1>. HIDE DEF r, n
<1>8. Len(local'[p].seen) <= Len(Nodes)
  BY <1>1, <1>2, <1>4, <1>6
<1>9. ASSUME p \in Users, EnforceRepeatableRead, NEW i \in DOMAIN local'[p].seen,
             local'[p].seen[i].alive
      PROVE  Serves(Nodes[i], p)
  <2>1. i \in 1..Len(l.seen) + 1
    BY <1>1, <1>4, <1>6
  <2>2. CASE i = Len(l.seen) + 1
    <3>1. local'[p].seen[i] = r /\ Nodes[i] = n
      BY <1>1, <1>4, <1>6, <2>2 DEF n
    <3>. QED
      BY <1>3, <1>4, <1>9, <3>1, AliveServes
  <2>3. CASE i \in 1..Len(l.seen)
    <3>1. local'[p].seen[i] = l.seen[i] /\ i \in DOMAIN l.seen
      BY <1>1, <1>4, <1>6, <2>3
    <3>. QED
      BY <1>9, <3>1 DEF IInv, ReadInv
  <2>. QED
    BY <1>2, <2>1, <2>2, <2>3
<1>10. pc'[p] # "use"
  BY <1>5
<1>. QED
  BY <1>5, <1>7, <1>8, <1>9, <1>10, OnlyMoves

\* Every step keeps ReadInv.
LEMMA ReadStep == IInv /\ [Next]_vars => ReadInv'
<1>. SUFFICES ASSUME IInv, [Next]_vars PROVE ReadInv'
  OBVIOUS
<1>a. Users \subseteq Procs /\ Lease \in Procs /\ Pool \subseteq Procs
  BY DEF Procs
<1>b. \A p \in Procs : Len(local[p].seen) <= Len(Nodes)
  BY DEF IInv, ReadInv
<1>c. \A u \in Users : EnforceRepeatableRead =>
          \A i \in DOMAIN local[u].seen : local[u].seen[i].alive => Serves(Nodes[i], u)
  BY DEF IInv, ReadInv
<1>d. Lease \notin Users /\ \A n \in Pool : n \notin Users
  BY ConfigAssumption
<1>1. ASSUME NEW u \in Users, SelectNode(u) PROVE ReadInv'
  <2>1. /\ \A q \in Procs \ {u} : local'[q] = local[q] /\ pc'[q] = pc[q]
        /\ local'[u] = local[u] /\ pc'[u] # "use"
    BY <1>1, <1>a DEF IInv, TypeOK, SelectNode, Goto
  <2>. QED
    BY <1>1, <1>a, <1>b, <1>c, <2>1, OnlyMoves DEF SelectNode, nodeVars
<1>2. ASSUME NEW u \in Users, ReadActive(u) PROVE ReadInv'
  <2>1. /\ \A q \in Procs \ {u} : local'[q] = local[q] /\ pc'[q] = pc[q]
        /\ local'[u] = [Fresh EXCEPT !.node = activeNode] /\ pc'[u] = "check"
    BY <1>2, <1>a DEF IInv, TypeOK, ReadActive, Goto, SetLocal
  <2>2. Len(local'[u].seen) <= Len(Nodes) /\ DOMAIN local'[u].seen = {}
    BY <2>1, FreshNodeFits
  <2>. QED
    BY <1>2, <1>a, <2>1, <2>2, OnlyMoves DEF ReadActive, nodeVars
<1>3. ASSUME NEW u \in Users, CheckActive(u) PROVE ReadInv'
  <2>1. UNCHANGED <<chain, latest, HighestUserObservations, lastRead>>
    BY <1>3 DEF CheckActive, nodeVars
  <2>2. CASE local[u].node # NoOne /\ Alive(local[u].node)
    <3>1. /\ \A q \in Procs \ {u} : local'[q] = local[q] /\ pc'[q] = pc[q]
          /\ local'[u] = local[u]
      BY <1>3, <1>a, <2>2 DEF IInv, TypeOK, CheckActive, Goto
    <3>2. local[u].node \in Pool
      BY <1>a, <2>2, LocalFields DEF IInv, TypeOK
    <3>3. EnforceRepeatableRead => Serves(local[u].node, u)
      BY <2>2, <3>2, AliveServes
    <3>. QED
      BY <1>a, <1>b, <1>c, <2>1, <3>1, <3>2, <3>3, OnlyMoves
  <2>3. CASE ~ (local[u].node # NoOne /\ Alive(local[u].node))
    <3>1. /\ \A q \in Procs \ {u} : local'[q] = local[q] /\ pc'[q] = pc[q]
          /\ local'[u] = Fresh /\ pc'[u] = "lock"
      BY <1>3, <1>a, <2>3 DEF IInv, TypeOK, CheckActive, Goto, SetLocal
    <3>. QED
      BY <1>a, <2>1, <3>1, FreshFits, OnlyMoves
  <2>. QED
    BY <2>2, <2>3
<1>4. ASSUME NEW u \in Users, LockActive(u) PROVE ReadInv'
  <2>1. UNCHANGED <<chain, latest, HighestUserObservations, lastRead>>
    BY <1>4 DEF LockActive, nodeVars
  <2>2. CASE activeNode # NoOne /\ Alive(activeNode)
    <3>1. /\ \A q \in Procs \ {u} : local'[q] = local[q] /\ pc'[q] = pc[q]
          /\ local'[u] = [Fresh EXCEPT !.node = activeNode]
      BY <1>4, <1>a, <2>2 DEF IInv, TypeOK, LockActive, Goto, SetLocal
    <3>2. activeNode \in Pool
      BY <2>2 DEF IInv, TypeOK
    <3>3. EnforceRepeatableRead => Serves(activeNode, u)
      BY <2>2, <3>2, AliveServes
    <3>4. /\ local'[u].node = activeNode
          /\ Len(local'[u].seen) <= Len(Nodes) /\ DOMAIN local'[u].seen = {}
      BY <3>1, FreshNodeFits
    <3>. QED
      BY <1>a, <2>1, <3>1, <3>2, <3>3, <3>4, OnlyMoves
  <2>3. CASE ~ (activeNode # NoOne /\ Alive(activeNode))
    <3>1. /\ \A q \in Procs \ {u} : local'[q] = local[q] /\ pc'[q] = pc[q]
          /\ local'[u] = local[u] /\ pc'[u] = "select"
      BY <1>4, <1>a, <2>3 DEF IInv, TypeOK, LockActive, Goto
    <3>. QED
      BY <1>a, <1>b, <1>c, <2>1, <3>1, OnlyMoves
  <2>. QED
    BY <2>2, <2>3
<1>5. ASSUME NEW p \in Procs, ScanNode(p) PROVE ReadInv'
  BY <1>5, ScanKeepsReads
<1>6. ASSUME NEW u \in Users, Selected(u) PROVE ReadInv'
  <2>1. UNCHANGED <<chain, latest, HighestUserObservations, lastRead>>
    BY <1>6 DEF Selected, nodeVars
  <2>2. CASE Select(local[u].seen) = {}
    <3>1. SetLocal(u, Fresh) /\ Goto(u, "init")
      BY <1>6, <2>2 DEF Selected
    <3>2. /\ \A q \in Procs \ {u} : local'[q] = local[q] /\ pc'[q] = pc[q]
          /\ local'[u] = Fresh /\ pc'[u] = "init"
      BY <1>a, <3>1 DEF IInv, TypeOK, Goto, SetLocal
    <3>. QED
      BY <1>a, <2>1, <3>2, FreshFits, OnlyMoves
  <2>3. CASE Select(local[u].seen) # {}
    <3>1. PICK i \in Select(local[u].seen) : Return(u, Nodes[i])
      BY <1>6, <2>3 DEF Selected
    <3>2. Nodes[i] \in Pool /\ (EnforceRepeatableRead => Serves(Nodes[i], u))
      BY <1>6, <1>a, SelectedServes DEF Selected
    <3>. QED
      BY <2>1, <3>1, <3>2, ReturnKeepsReads
  <2>. QED
    BY <2>2, <2>3
<1>7. ASSUME NEW u \in Users, ScanInitializing(u) PROVE ReadInv'
  <2>1. UNCHANGED <<chain, latest, HighestUserObservations, lastRead>>
    BY <1>7 DEF ScanInitializing, nodeVars
  <2>2. CASE Return(u, NoOne)
    BY <2>1, <2>2, ReturnKeepsReads
  <2>3. CASE Goto(u, "wait") /\ SetLocal(u, Fresh)
    <3>1. /\ \A q \in Procs \ {u} : local'[q] = local[q] /\ pc'[q] = pc[q]
          /\ local'[u] = Fresh /\ pc'[u] = "wait"
      BY <1>a, <2>3 DEF IInv, TypeOK, Goto, SetLocal
    <3>. QED
      BY <1>a, <2>1, <3>1, FreshFits, OnlyMoves
  <2>4. CASE UNCHANGED pc /\ SetLocal(u, [local[u] EXCEPT !.i = @ + 1])
    <3>1. /\ \A q \in Procs \ {u} : local'[q] = local[q] /\ pc'[q] = pc[q]
          /\ local'[u].seen = local[u].seen /\ pc'[u] = pc[u]
      BY <1>a, <2>4 DEF IInv, TypeOK, Local, SetLocal
    <3>2. pc'[u] # "use"
      BY <1>7, <3>1 DEF ScanInitializing, At
    <3>. QED
      BY <1>a, <1>b, <1>c, <2>1, <3>1, <3>2, OnlyMoves
  <2>. QED
    BY <1>7, <2>2, <2>3, <2>4 DEF ScanInitializing
<1>8. ASSUME NEW u \in Users, WaitOver(u) PROVE ReadInv'
  <2>1. /\ \A q \in Procs \ {u} : local'[q] = local[q] /\ pc'[q] = pc[q]
        /\ local'[u] = local[u] /\ pc'[u] # "use"
    BY <1>8, <1>a DEF IInv, TypeOK, WaitOver, Goto
  <2>. QED
    BY <1>8, <1>a, <1>b, <1>c, <2>1, OnlyMoves DEF WaitOver, nodeVars
<1>9. ASSUME NEW u \in Users, ContextDone(u) PROVE ReadInv'
  BY <1>9, ReturnKeepsReads DEF ContextDone, nodeVars
<1>10. ASSUME NEW u \in Users, Read(u) PROVE ReadInv'
  BY <1>10, ReadKeepsReads
<1>11. ASSUME NEW u \in Users, Subscribe(u) PROVE ReadInv'
  <2>1. /\ \A q \in Procs \ {u} : local'[q] = local[q] /\ pc'[q] = pc[q]
        /\ local'[u] = Fresh /\ pc'[u] = "idle"
    BY <1>11, <1>a DEF IInv, TypeOK, Subscribe, Done, Goto, SetLocal
  <2>. QED
    BY <1>11, <1>a, <2>1, FreshFits, OnlyMoves DEF Subscribe, nodeVars
<1>12. ASSUME LeaseTick PROVE ReadInv'
  <2>1. /\ \A q \in Procs \ {Lease} : local'[q] = local[q] /\ pc'[q] = pc[q]
        /\ local'[Lease] = local[Lease]
    BY <1>12, <1>a DEF IInv, TypeOK, LeaseTick, Goto
  <2>. QED
    BY <1>12, <1>a, <1>b, <1>d, <2>1, OnlyMoves DEF LeaseTick, nodeVars
<1>13. ASSUME LeaseSelected PROVE ReadInv'
  <2>1. UNCHANGED <<chain, latest, HighestUserObservations, lastRead>>
    BY <1>13 DEF LeaseSelected, nodeVars
  <2>2. \E n : SetLocal(Lease, [Fresh EXCEPT !.node = n]) \/ SetLocal(Lease, Fresh)
    BY <1>13 DEF LeaseSelected
  <2>3. \A q \in Procs \ {Lease} : local'[q] = local[q] /\ pc'[q] = pc[q]
    BY <1>13, <1>a, <2>2 DEF IInv, TypeOK, LeaseSelected, Goto, SetLocal
  <2>4. \E n : local'[Lease] = [Fresh EXCEPT !.node = n] \/ local'[Lease] = Fresh
    BY <1>a, <2>2 DEF IInv, TypeOK, SetLocal
  <2>5. Len(local'[Lease].seen) <= Len(Nodes)
    BY <2>4, FreshFits, FreshNodeFits
  <2>. QED
    BY <1>a, <1>d, <2>1, <2>3, <2>5, OnlyMoves
<1>14. ASSUME LeaseUnsubscribe PROVE ReadInv'
  <2>1. /\ \A q \in Procs \ {Lease} : local'[q] = local[q] /\ pc'[q] = pc[q]
        /\ local'[Lease].seen = local[Lease].seen
    BY <1>14, <1>a DEF IInv, TypeOK, Local, LeaseUnsubscribe, Goto, SetLocal
  <2>. QED
    BY <1>14, <1>a, <1>b, <1>d, <2>1, OnlyMoves DEF LeaseUnsubscribe, nodeVars
<1>15. ASSUME LeaseSwitch PROVE ReadInv'
  <2>1. /\ \A q \in Procs \ {Lease} : local'[q] = local[q] /\ pc'[q] = pc[q]
        /\ local'[Lease] = Fresh
    BY <1>15, <1>a DEF IInv, TypeOK, LeaseSwitch, Goto, SetLocal
  <2>. QED
    BY <1>15, <1>a, <1>d, <2>1, FreshFits, OnlyMoves DEF LeaseSwitch, nodeVars
<1>16. ASSUME NEW n \in Pool, ChainGrows(n) PROVE ReadInv'
  <2>1. \A m \in Pool : /\ ReadBlock(chain[m]) \in Nat /\ ReadBlock(chain'[m]) \in Nat
                        /\ ReadBlock(chain[m]) <= ReadBlock(chain'[m])
    <3>1. \A m \in Pool : chain[m] \in Nat /\ chain'[m] \in Nat /\ chain[m] <= chain'[m]
      BY <1>16 DEF IInv, TypeOK, ChainGrows
    <3>. QED
      BY <3>1, ReadBlockMonotone
  <2>2. UNCHANGED <<latest, HighestUserObservations, lastRead, local, pc>>
    BY <1>16 DEF ChainGrows
  <2>3. ASSUME NEW m \in Pool, NEW u \in Users, Serves(m, u) PROVE Serves(m, u)'
    <3>1. lastRead[u] \in Nat /\ lastRead[u]' = lastRead[u] /\ FinalizedBlockOffset \in Nat
      BY <2>2, ConfigAssumption DEF IInv, TypeOK
    <3>2. ReadBlock(chain[m])' = ReadBlock(chain'[m])
      BY DEF ReadBlock
    <3>3. lastRead[u] <= ReadBlock(chain[m]) + FinalizedBlockOffset
      BY <2>3 DEF Serves
    <3>4. lastRead[u]' <= ReadBlock(chain[m])' + FinalizedBlockOffset
      BY <2>1, <3>1, <3>2, <3>3
    <3>. QED
      BY <3>4 DEF Serves
  <2>4. \A m \in Pool : ReadNumber(latest[m])' <= ReadBlock(chain[m])'
    <3>1. \A m \in Pool : ReadNumber(latest[m]) \in Nat /\ ReadNumber(latest[m]) <= ReadBlock(chain[m])
      BY DEF IInv, TypeOK, ReadInv, ReadNumber, Info
    <3>2. \A m \in Pool : /\ ReadBlock(chain[m])' = ReadBlock(chain'[m])
                          /\ ReadNumber(latest[m])' = ReadNumber(latest[m])
      BY <2>2 DEF ReadBlock, ReadNumber
    <3>. QED
      BY <2>1, <3>1, <3>2
  <2>5. \A u \in Users : \A i \in DOMAIN local[u].seen : Nodes[i] \in Pool
    <3>1. \A u \in Users : local[u].seen \in Seq(Reading)
      BY <1>a, LocalFields DEF IInv, TypeOK
    <3>2. ASSUME NEW u \in Users, NEW i \in DOMAIN local[u].seen PROVE i \in 1..Len(Nodes)
      <4>1. Len(local[u].seen) \in Nat /\ Len(Nodes) \in Nat /\ i \in 1..Len(local[u].seen)
        BY <3>1, <3>2, ConfigAssumption
      <4>. QED
        BY <1>a, <1>b, <4>1
    <3>. QED
      BY <3>2, NodesInPool
  <2>. QED
    BY <2>2, <2>3, <2>4, <2>5 DEF IInv, ReadInv
<1>17. ASSUME NEW n \in Pool, HealthCheck(n) PROVE ReadInv'
  <2>1. PICK h \in 0..chain[n] :
             \/ latest' = [latest EXCEPT ![n].BlockNumber = h]
             \/ /\ FinalityTagEnabled
                /\ latest' = [latest EXCEPT ![n].FinalizedBlockNumber = Finalized(h)]
    BY <1>17 DEF HealthCheck
  <2>2. chain[n] \in Nat /\ h \in Nat /\ h <= chain[n] /\ latest[n] \in Info
    BY DEF IInv, TypeOK
  <2>3. Finalized(h) <= Finalized(chain[n])
    BY <2>2, FinalizedMonotone
  <2>4. ReadNumber(latest[n]) <= ReadBlock(chain[n])
    BY DEF IInv, ReadInv
  <2>5. ReadNumber(latest'[n]) <= ReadBlock(chain[n])
    <3>1. CASE latest' = [latest EXCEPT ![n].BlockNumber = h]
      BY <2>2, <2>4, <3>1 DEF IInv, TypeOK, ReadNumber, ReadBlock, Info
    <3>2. CASE /\ FinalityTagEnabled
               /\ latest' = [latest EXCEPT ![n].FinalizedBlockNumber = Finalized(h)]
      BY <2>2, <2>3, <3>2 DEF IInv, TypeOK, ReadNumber, ReadBlock, Info
    <3>. QED
      BY <2>1, <3>1, <3>2
  <2>6. \A m \in Pool \ {n} : latest'[m] = latest[m]
    BY <2>1 DEF IInv, TypeOK
  <2>7. \A m \in Pool : ReadNumber(latest'[m]) <= ReadBlock(chain[m])
    BY <2>5, <2>6 DEF IInv, ReadInv
  <2>. QED
    BY <1>17, <2>7, InfoChanges DEF HealthCheck
<1>18. ASSUME NEW n \in Pool, StateChange(n) PROVE ReadInv'
  <2>1. \A m \in Pool : ReadNumber(latest'[m]) <= ReadBlock(chain[m])
    <3>1. CASE Down(n)
      BY <3>1, DownKeepsReads
    <3>2. CASE UNCHANGED latest
      BY <3>2 DEF IInv, ReadInv
    <3>. QED
      BY <1>18, <3>1, <3>2 DEF StateChange
  <2>. QED
    BY <1>18, <2>1, InfoChanges DEF StateChange
<1>19. ASSUME NEW n \in Pool, CheckOthers(n) PROVE ReadInv'
  <2>1. /\ \A q \in Procs \ {n} : local'[q] = local[q] /\ pc'[q] = pc[q]
        /\ local'[n] = local[n]
    BY <1>19, <1>a DEF IInv, TypeOK, CheckOthers, Goto
  <2>. QED
    BY <1>19, <1>a, <1>b, <1>d, <2>1, OnlyMoves DEF CheckOthers, nodeVars
<1>20. ASSUME NEW n \in Pool, Declare(n) PROVE ReadInv'
  <2>1. \A m \in Pool : ReadNumber(latest'[m]) <= ReadBlock(chain[m])
    BY <1>20, DownKeepsReads DEF Declare
  <2>2. \A u \in Users : pc'[u] = pc[u]
    BY <1>20, <1>a, <1>d DEF IInv, TypeOK, Declare, Goto
  <2>. QED
    BY <1>20, <2>1, <2>2, InfoChanges DEF Declare
<1>21. CASE UNCHANGED vars
  BY <1>21 DEF IInv, ReadInv, Serves, ReadNumber, ReadBlock, vars, nodeVars, poolVars
<1>. QED
  BY <1>a, <1>1, <1>2, <1>3, <1>4, <1>5, <1>6, <1>7, <1>8, <1>9, <1>10, <1>11, <1>12,
     <1>13, <1>14, <1>15, <1>16, <1>17, <1>18, <1>19, <1>20, <1>21
     DEF Next, PoolNext, UserStep, LeaseStep

-----------------------------------------------------------------------------
\* The inductive invariant holds in every reachable state.
THEOREM Invariance == Spec => []IInv
<1>1. Init => IInv
  <2>. SUFFICES ASSUME Init PROVE IInv
    OBVIOUS
  <2>1. Fresh \in Local
    BY FreshType
  <2>a. PICK s \in Setups :
           /\ selectionMode = s.mode /\ chain = s.chain
           /\ pc = [p \in Procs |-> IF p \in Users \ s.users THEN "absent" ELSE "idle"]
    BY DEF Init
  <2>b. selectionMode \in Modes /\ chain \in [Pool -> Nat]
    BY <2>a, ConfigAssumption
  <2>c. pc \in [Procs -> {"absent", "idle"}]
    BY <2>a
  <2>2. TypeOK
    <3>1. NoInfo \in Info /\ 0 \in 0..CounterSize - 1
      BY ConfigAssumption DEF Info, NoInfo
    <3>2. pc \in [Procs -> {"absent", "idle", "read", "check", "lock", "select", "init", "wait",
                            "use", "unsubscribe", "switch", "declare"}]
      BY <2>c
    <3>. QED
      BY <2>1, <2>b, <3>1, <3>2 DEF Init, TypeOK
  <2>3. ReadInv
    <3>1. ReadNumber(NoInfo) = 0
      BY DEF ReadNumber, NoInfo
    <3>2. Users \subseteq Procs
      BY DEF Procs
    <3>3. \A n \in Pool : ReadNumber(latest[n]) <= ReadBlock(chain[n])
      <4>. SUFFICES ASSUME NEW n \in Pool PROVE ReadNumber(latest[n]) <= ReadBlock(chain[n])
        OBVIOUS
      <4>1. ReadBlock(chain[n]) \in Nat
        BY <2>b, ReadBlockMonotone
      <4>. QED
        BY <3>1, <4>1 DEF Init
    <3>4. \A u \in Users : pc[u] # "use"
      BY <2>c, <3>2
    <3>. QED
      BY <3>2, <3>3, <3>4, FreshFits DEF Init, ReadInv
  <2>. QED
    BY <2>2, <2>3 DEF IInv
<1>2. IInv /\ [Next]_vars => IInv'
  BY TypeStep, ReadStep DEF IInv
<1>. QED
  BY <1>1, <1>2, PTL DEF Spec

\* The fields of the pool and the locals of its goroutines keep their types.
THEOREM TypeCorrect == Spec => []TypeOK
BY Invariance, PTL DEF IInv

\* With EnforceRepeatableRead, what a user reads is at most FinalizedBlockOffset below
\* what it read before, through whichever nodes selectNode sends it.
THEOREM RepeatableReads == Spec => RepeatableRead
<1>1. ASSUME IInv, [Next]_vars
      PROVE  EnforceRepeatableRead =>
                 \A u \in Users : lastRead'[u] >= lastRead[u] - FinalizedBlockOffset
  <2>. SUFFICES ASSUME EnforceRepeatableRead, NEW u \in Users
                PROVE  lastRead'[u] >= lastRead[u] - FinalizedBlockOffset
    OBVIOUS
  <2>1. lastRead[u] \in Nat /\ FinalizedBlockOffset \in Nat
    BY <1>1, ConfigAssumption DEF IInv, TypeOK
  <2>2. CASE lastRead'[u] = lastRead[u]
    BY <2>1, <2>2
  <2>3. CASE Read(u)
    <3>1. local[u].node \in Pool /\ Serves(local[u].node, u)
      BY <1>1, <2>3 DEF IInv, ReadInv, Read, At
    <3>2. lastRead'[u] = ReadBlock(chain[local[u].node])
      BY <1>1, <2>3 DEF IInv, TypeOK, Read
    <3>3. ReadBlock(chain[local[u].node]) \in Nat
      BY <1>1, <3>1, ReadBlockMonotone DEF IInv, TypeOK
    <3>. QED
      BY <2>1, <3>1, <3>2, <3>3 DEF Serves
  <2>4. ASSUME NEW w \in Users, w # u, Read(w) PROVE lastRead'[u] = lastRead[u]
    BY <1>1, <2>4 DEF IInv, TypeOK, Read
  <2>5. lastRead' = lastRead \/ \E w \in Users : Read(w)
    BY <1>1 DEF Next, PoolNext, UserStep, LeaseStep, SelectNode, ReadActive, CheckActive, LockActive,
         ScanNode, Selected, ScanInitializing, WaitOver, ContextDone, Subscribe, LeaseTick,
         LeaseSelected, LeaseUnsubscribe, LeaseSwitch, ChainGrows, HealthCheck, StateChange,
         CheckOthers, Declare, vars
  <2>. QED
    BY <2>2, <2>3, <2>4, <2>5
<1>. QED
  BY <1>1, Invariance, PTL DEF Spec, RepeatableRead

=============================================================================
