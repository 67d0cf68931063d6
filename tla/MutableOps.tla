------------------------------ MODULE MutableOps ------------------------------
(***************************************************************************)
(* MutableDatatype (src/datatypes/mutable.rs) as operators on a record:    *)
(* everything a replica keeps behind its `mutable` lock.  One operator is  *)
(* one method, so an action that takes the lock applies one of them.       *)
(*                                                                         *)
(* The counter CRDT is kept as the number of operations of each origin     *)
(* that are in effect.  Its value is the sum, but unlike the sum the vector *)
(* tells apart which operation was applied twice, never or undone.         *)
(* Its value and the Lamport clock, which nothing here reads, are the      *)
(* subject of LocalReplica.                                                *)
(***************************************************************************)
EXTENDS PushBufferOps

(* DatatypeState without Deleting, which no operation of the crate enters. *)
States == {"Creating", "Subscribing", "SubscribingOrCreating",
           "Subscribed", "Unsubscribing", "Disabled"}

(* DatatypeState::is_read_writable *)
ReadWritable == {"Creating", "SubscribingOrCreating", "Subscribed"}

-----------------------------------------------------------------------------
(* CounterCrdt: execute_local / execute_remote add, the inverse subtracts.  *)
OpCount(ops, o) == Cardinality({i \in DOMAIN ops : ops[i] = o})

ExecuteOps(crdt, ops) == [o \in DOMAIN crdt |-> crdt[o] + OpCount(ops, o)]

InverseOps(crdt, ops) == [o \in DOMAIN crdt |-> crdt[o] - OpCount(ops, o)]

(* How many operations of an origin a sequence of transactions holds. *)
TxsCount(txs, o) ==
    Cardinality(UNION {{i} \X {j \in DOMAIN txs[i].ops : txs[i].ops[j] = o} :
                           i \in DOMAIN txs})

ExecuteTxs(crdt, txs) == [o \in DOMAIN crdt |-> crdt[o] + TxsCount(txs, o)]

-----------------------------------------------------------------------------
(* MutableDatatype::new.  `pending` is the open transaction's operations:   *)
(* a TxRecord never holds an empty transaction, so <<>> is None.            *)
NewMutable(origins, st) ==
    [crdt     |-> [o \in origins |-> 0],
     cseq     |-> 0,
     buf      |-> EmptyBuffer,
     cp       |-> [sseq |-> 0, cseq |-> 0],
     state    |-> st,
     pending  |-> <<>>,
     rollback |-> [cseq |-> 0, state |-> st]]

(* reset: a new push buffer and a new TxRecord; the CRDT, the checkpoint    *)
(* and the operation id stay.                                               *)
Reset(m) ==
    [m EXCEPT !.buf      = EmptyBuffer,
              !.pending  = <<>>,
              !.rollback = [cseq |-> m.cseq, state |-> m.state]]

Disable(m) == [Reset(m) EXCEPT !.state = "Disabled"]

(* Definitions named Mut... are plausible faults of the definition after    *)
(* them; the mutation runs listed in PROJECT.json use them, nothing else.   *)

(* apply_snapshot_transaction: cseq restarts before reset saves it. *)
MutSnapshotKeepsCseq(m, crdt) == Reset([m EXCEPT !.crdt = crdt])

ApplySnapshot(m, crdt) == Reset([m EXCEPT !.crdt = crdt, !.cseq = 0])

(* execute_local_operation with TxRecord::record_operation: the first       *)
(* operation of a transaction saves the rollback point and takes a cseq.    *)
ExecuteLocal(m, op) ==
    IF m.pending = <<>>
    THEN [m EXCEPT !.crdt     = ExecuteOps(@, <<op>>),
                   !.pending  = <<op>>,
                   !.rollback = [cseq |-> m.cseq, state |-> m.state],
                   !.cseq     = @ + 1]
    ELSE [m EXCEPT !.crdt     = ExecuteOps(@, <<op>>),
                   !.pending  = Append(@, op)]

-----------------------------------------------------------------------------
(* do_rollback: the inverses, and the saved operation id and state. *)
MutRollbackOffByOne(m) ==
    IF m.pending = <<>> THEN m
    ELSE [m EXCEPT !.crdt    = InverseOps(@, m.pending),
                   !.cseq    = m.rollback.cseq - 1,
                   !.state   = m.rollback.state,
                   !.pending = <<>>]

MutRollbackKeepsFirstOp(m) ==
    IF m.pending = <<>> THEN m
    ELSE [m EXCEPT !.crdt    = InverseOps(@, Tail(m.pending)),
                   !.cseq    = m.rollback.cseq,
                   !.state   = m.rollback.state,
                   !.pending = <<>>]

MutRollbackKeepsPending(m) ==
    IF m.pending = <<>> THEN m
    ELSE [m EXCEPT !.crdt    = InverseOps(@, m.pending),
                   !.cseq    = m.rollback.cseq,
                   !.state   = m.rollback.state]

MutRollbackKeepsCseq(m) ==
    IF m.pending = <<>> THEN m
    ELSE [m EXCEPT !.crdt    = InverseOps(@, m.pending),
                   !.state   = m.rollback.state,
                   !.pending = <<>>]

DoRollback(m) ==
    IF m.pending = <<>> THEN m
    ELSE [m EXCEPT !.crdt    = InverseOps(@, m.pending),
                   !.cseq    = m.rollback.cseq,
                   !.state   = m.rollback.state,
                   !.pending = <<>>]

(* apply_action: what a routed error does to the datatype. *)
ApplyAction(m, recovery) ==
    CASE recovery \in {"NotifyOnly", "RetryWithBackOff"} -> m
      [] recovery = "RollbackTransaction"                 -> DoRollback(m)
      [] recovery \in {"Resubscribe", "ResubscribeWithBackOff"} ->
            [Reset(m) EXCEPT !.state = "SubscribingOrCreating"]
      [] recovery = "Disable"                             -> Disable(m)

(* The transaction end_transaction would enqueue. *)
PendingTx(m, cuid) ==
    [cuid |-> cuid, cseq |-> m.rollback.cseq + 1, ops |-> m.pending]

(* Whether a commit enqueues; if not, its error is RollbackTransaction. *)
CommitFits(m, cuid, maxMem) ==
    m.pending # <<>> => CanEnqueue(m.buf, PendingTx(m, cuid), maxMem)

(* end_transaction(committed) and the apply_action of the error it returns. *)
EndTransaction(m, cuid, committed, maxMem) ==
    IF ~committed \/ ~CommitFits(m, cuid, maxMem) THEN DoRollback(m)
    ELSE IF m.pending = <<>> THEN m
    ELSE [m EXCEPT !.buf     = Enqueue(m.buf, PendingTx(m, cuid)),
                   !.pending = <<>>]
=============================================================================
