----------------------------- MODULE TxSequence -----------------------------
(***************************************************************************)
(* What the Broadcaster promises for one sending address                   *)
(* (src/chains/txmgr/broadcaster.go:78-81): the transactions it hands over *)
(* to the network take the sequences 0, 1, 2, ... one at a time, and a     *)
(* transaction that has been handed over keeps its sequence.               *)
(***************************************************************************)
EXTENDS Integers

CONSTANTS Txs,    \* the transactions
          NoTx    \* no transaction

VARIABLES
    used,      \* used[t]: the sequence t was handed over with, or NoSeq
    next,      \* the first sequence nobody has used
    pending    \* the transaction being handed over, or NoTx

seqVars == <<used, next, pending>>

NoSeq == -1

SeqInit ==
    /\ used = [t \in Txs |-> NoSeq]
    /\ next = 0
    /\ pending = NoTx

\* A transaction without a sequence is picked to be handed over.
Begin(t) ==
    /\ pending = NoTx
    /\ used[t] = NoSeq
    /\ pending' = t
    /\ UNCHANGED <<used, next>>

\* It is given up; its sequence goes to the next one.
Drop ==
    /\ pending # NoTx
    /\ pending' = NoTx
    /\ UNCHANGED <<used, next>>

\* It is handed over, for good.
Commit ==
    /\ pending # NoTx
    /\ used' = [used EXCEPT ![pending] = next]
    /\ next' = next + 1
    /\ pending' = NoTx

SeqNext == (\E t \in Txs : Begin(t)) \/ Drop \/ Commit

SeqSpec == SeqInit /\ [][SeqNext]_seqVars
=============================================================================
