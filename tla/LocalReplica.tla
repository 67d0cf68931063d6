---------------------------- MODULE LocalReplica ----------------------------
(***************************************************************************)
(* What an operation does to a replica's numbers: the counter's value, a    *)
(* signed integer of a fixed width that wraps around (a release build), the *)
(* Lamport clock and cseq of its OperationId, and the operations and        *)
(* transactions it stamps with them.  The replicas exchange committed       *)
(* transactions through a log; how that is done over an unreliable          *)
(* connectivity, and what the rest of a replica does then, is the subject   *)
(* of SyncProtocol.                                                         *)
(***************************************************************************)
EXTENDS PushBufferOps

CONSTANTS
    Replicas,  \* cuids
    Creator,   \* the one that exists from the start
    Bytes,     \* bytes of the counter's integer: 8
    Base,      \* values of a byte: 256
    Deltas,    \* what users increase by
    MaxOps,    \* bound: operations a replica executes
    MaxTxOps,  \* bound: operations of one transaction
    MaxMem,    \* what with_max_memory_size_of_push_buffer is called with, in size units
    LowerMem,  \* LOWER_MAX_MEM_SIZE_OF_PUSH_BUFFER
    UpperMem   \* UPPER_MAX_MEM_SIZE_OF_PUSH_BUFFER

(* What one unit of the byte after the first i is worth: Base ^ i. *)
Weight[i \in 0..Bytes] == IF i = 0 THEN 1 ELSE Base * Weight[i - 1]

(* The smallest value is -Half, the largest Half - 1. *)
Half == Weight[Bytes] \div 2

ASSUME LocalReplicaAssumption ==
    /\ Creator \in Replicas
    /\ Bytes \in Nat \ {0} /\ Base \in Nat \ {0} /\ Base % 2 = 0
    /\ MaxOps \in Nat /\ MaxTxOps \in Nat
    /\ MaxMem \in Nat /\ LowerMem \in Nat /\ UpperMem \in Nat /\ LowerMem <= UpperMem
    /\ Deltas \subseteq (-Half)..(Half - 1)

VARIABLES
    rep,      \* MutableDatatype of each replica
    log,      \* the server's history of transactions
    joined,   \* the replicas that have the datatype
    pulled,   \* checkpoint.sseq: how much of the log a replica has
    missed,   \* history: lamports pulled during a transaction that was undone
    budget    \* bound: operations left to each replica

vars == <<rep, log, joined, pulled, missed, budget>>

-----------------------------------------------------------------------------
(* Definitions named Mut... are plausible faults of the definition after    *)
(* them; the mutation runs listed in PROJECT.json use them, nothing else.   *)

(* The integer n as the counter stores it: two's complement. *)
Wrap(n) == ((n + Half) % (2 * Half)) - Half

(* CounterCrdt::increase_by, and its use by the inverse operation, which    *)
(* negates first: the smallest delta is its own negation.                   *)
IncreaseBy(value, delta) == Wrap(value + delta)

ExecuteInverse(value, op) == IncreaseBy(value, Wrap(-op.delta))

(* The sum of a sequence of integers. *)
Total(s) ==
    LET sum[n \in 0..Len(s)] == IF n = 0 THEN 0 ELSE sum[n - 1] + s[n]
    IN  sum[Len(s)]

(* CounterCrdt::to_bytes and from_bytes: the bytes of the two's complement, *)
(* the least significant one first.                                         *)
ToBytes(value) ==
    [i \in 1..Bytes |-> (((value + 2 * Half) % (2 * Half)) \div Weight[i - 1]) % Base]

MutFromBytesUnsigned(bytes) == Total([i \in 1..Bytes |-> bytes[i] * Weight[i - 1]])

FromBytes(bytes) == Wrap(Total([i \in 1..Bytes |-> bytes[i] * Weight[i - 1]]))

(* Operation::new_counter_increase, stamped by set_lamport. *)
NewOperation(delta, lamport) == [delta |-> delta, lamport |-> lamport]

-----------------------------------------------------------------------------
(* MutableDatatype::new with OperationId::new_with_cuid. *)
NewReplica ==
    [value |-> 0, opId |-> [lamport |-> 0, cseq |-> 0], buf |-> EmptyBuffer,
     pending |-> <<>>, rollback |-> [lamport |-> 0, cseq |-> 0]]

(* execute_local_operation: the operation's lamport is the clock's next     *)
(* value; the first operation of a transaction saves the rollback point and *)
(* takes a cseq (TxRecord::record_operation, OperationId::next).            *)
MutLamportPerTransaction(m, delta) ==
    [m EXCEPT !.value = IncreaseBy(@, delta),
              !.pending = Append(@, NewOperation(delta, m.rollback.lamport + 1)),
              !.rollback = IF m.pending = <<>> THEN m.opId ELSE @,
              !.opId = [lamport |-> @.lamport + 1,
                        cseq |-> IF m.pending = <<>> THEN @.cseq + 1 ELSE @.cseq]]

ExecuteLocal(m, delta) ==
    [m EXCEPT !.value = IncreaseBy(@, delta),
              !.pending = Append(@, NewOperation(delta, m.opId.lamport + 1)),
              !.rollback = IF m.pending = <<>> THEN m.opId ELSE @,
              !.opId = [lamport |-> @.lamport + 1,
                        cseq |-> IF m.pending = <<>> THEN @.cseq + 1 ELSE @.cseq]]

(* execute_remote_transaction: the clock catches up with every operation   *)
(* before it is executed.                                                   *)
MutClockIgnoresRemote(m, op) == [m EXCEPT !.value = IncreaseBy(@, op.delta)]

ExecuteRemoteOp(m, op) ==
    [m EXCEPT !.value = IncreaseBy(@, op.delta),
              !.opId.lamport = IF op.lamport > @ THEN op.lamport ELSE @]

ExecuteRemote(m, tx) ==
    LET done[n \in 0..Len(tx.ops)] ==
            IF n = 0 THEN m ELSE ExecuteRemoteOp(done[n - 1], tx.ops[n])
    IN  done[Len(tx.ops)]

(* do_rollback: the inverses in reverse order, then the whole saved         *)
(* OperationId, the clock included.                                         *)
MutRollbackInversesNothing(m) == [m EXCEPT !.opId = m.rollback, !.pending = <<>>]

DoRollback(m) ==
    LET undone[n \in 0..Len(m.pending)] ==
            IF n = 0 THEN m.value
            ELSE ExecuteInverse(undone[n - 1], m.pending[Len(m.pending) + 1 - n])
    IN  [m EXCEPT !.value = undone[Len(m.pending)], !.opId = m.rollback, !.pending = <<>>]

(* The transaction of the pending operations: Transaction::new. *)
PendingTx(r, m) == [cuid |-> r, cseq |-> m.rollback.cseq + 1, ops |-> m.pending]

(* new_snapshot_operation, and apply_snapshot_transaction on a new replica. *)
Snapshot(m) == [data |-> ToBytes(m.value), lamport |-> m.opId.lamport]

ApplySnapshot(m, snap) ==
    [m EXCEPT !.value = FromBytes(snap.data),
              !.opId = [lamport |-> snap.lamport, cseq |-> 0],
              !.rollback = [lamport |-> snap.lamport, cseq |-> 0],
              !.buf = EmptyBuffer, !.pending = <<>>]

-----------------------------------------------------------------------------
Init ==
    /\ rep = [r \in Replicas |-> NewReplica]
    /\ log = <<>>
    /\ joined = {Creator}
    /\ pulled = [r \in Replicas |-> 0]
    /\ missed = [r \in Replicas |-> [during |-> {}, for_good |-> {}]]
    /\ budget = [r \in Replicas |-> MaxOps]

(* Counter::increase_by and increase, inside a transaction function or as   *)
(* a transaction of their own.                                              *)
Increase(r, delta) ==
    /\ r \in joined /\ budget[r] > 0 /\ Len(rep[r].pending) < MaxTxOps
    /\ rep' = [rep EXCEPT ![r] = ExecuteLocal(@, delta)]
    /\ budget' = [budget EXCEPT ![r] = @ - 1]
    /\ UNCHANGED <<log, joined, pulled, missed>>

(* DatatypeOption::new: the limit of the push buffer, clamped. *)
MaxMemSize == Max({LowerMem, Min({MaxMem, UpperMem})})

(* end_transaction: committed into the push buffer ... *)
Commit(r) ==
    LET tx == PendingTx(r, rep[r])
    IN  /\ rep[r].pending # <<>> /\ CanEnqueue(rep[r].buf, tx, MaxMemSize)
        /\ rep' = [rep EXCEPT ![r].buf = Enqueue(@, tx), ![r].pending = <<>>]
        /\ missed' = [missed EXCEPT ![r].during = {}]
        /\ UNCHANGED <<log, joined, pulled, budget>>

(* ... or rolled back, because the function failed or the buffer is full.   *)
Rollback(r) ==
    /\ rep[r].pending # <<>>
    /\ rep' = [rep EXCEPT ![r] = DoRollback(@)]
    /\ missed' = [missed EXCEPT ![r] =
                    [during |-> {}, for_good |-> @.for_good \cup @.during]]
    /\ UNCHANGED <<log, joined, pulled, budget>>

(* Counter::get_value *)
GetValue(r) == rep[r].value

(* OperationId's order, for two operations of one replica (between two of   *)
(* different replicas the cuid decides if the lamports are equal).          *)
Precedes(op1, op2) == op1.lamport < op2.lamport

(* A successful push_pull: the log gets what it does not have, the replica  *)
(* executes what it has not pulled yet and is not its own.                  *)
IsOwn(r, tx) == tx.cuid = r

Unpushed(r) ==
    LET known == Cardinality({i \in DOMAIN log : IsOwn(r, log[i])})
    IN  SubSeq(rep[r].buf.txs, known + 1, Len(rep[r].buf.txs))

ExecuteOthers(r, from) ==
    LET done[n \in 0..Len(log)] ==
            IF n = 0 THEN rep[r]
            ELSE IF n <= from \/ IsOwn(r, log[n]) THEN done[n - 1]
            ELSE ExecuteRemote(done[n - 1], log[n])
    IN  done[Len(log)]

LamportsOf(ops) == {ops[i].lamport : i \in DOMAIN ops}

Received(r, from) ==
    UNION {LamportsOf(log[n].ops) : n \in {k \in from + 1..Len(log) : ~IsOwn(r, log[k])}}

Exchange(r) ==
    /\ r \in joined
    /\ log' = log \o Unpushed(r)
    /\ pulled' = [pulled EXCEPT ![r] = Len(log')]
    /\ rep' = [rep EXCEPT ![r] = ExecuteOthers(r, pulled[r])]
    /\ missed' = IF rep[r].pending = <<>> THEN missed
                 ELSE [missed EXCEPT ![r].during = @ \cup Received(r, pulled[r])]
    /\ UNCHANGED <<joined, budget>>

(* A subscription: the creator's replica, all of whose operations are in    *)
(* the log, as a snapshot.                                                  *)
Join(r) ==
    /\ r \notin joined
    /\ rep[Creator].pending = <<>>
    /\ Unpushed(Creator) = <<>>
    /\ joined' = joined \cup {r}
    /\ rep' = [rep EXCEPT ![r] = ApplySnapshot(@, Snapshot(rep[Creator]))]
    /\ pulled' = [pulled EXCEPT ![r] = pulled[Creator]]
    /\ missed' = [missed EXCEPT ![r].for_good = missed[Creator].for_good]
    /\ UNCHANGED <<log, budget>>

Next ==
    \E r \in Replicas :
        \/ \E delta \in Deltas : Increase(r, delta)
        \/ Commit(r) \/ Rollback(r) \/ Exchange(r) \/ Join(r)

Spec == Init /\ [][Next]_vars
-----------------------------------------------------------------------------
Ops == [delta : Int, lamport : Nat]

OpIds == [lamport : Nat, cseq : Nat]

Txs == [cuid : Replicas, cseq : Nat, ops : Seq(Ops)]

(* Values stay in the counter's range, clocks and sequence numbers are      *)
(* natural numbers.                                                         *)
TypeOK ==
    /\ \A r \in Replicas :
          /\ rep[r].value \in (-Half)..(Half - 1)
          /\ rep[r].opId \in OpIds /\ rep[r].rollback \in OpIds
          /\ rep[r].pending \in Seq(Ops) /\ rep[r].buf.txs \in Seq(Txs)
          /\ pulled[r] \in 0..Len(log)
          /\ missed[r].during \subseteq Nat /\ missed[r].for_good \subseteq Nat
    /\ log \in Seq(Txs) /\ joined \subseteq Replicas /\ budget \in [Replicas -> Nat]

(* What operations add, what of it a replica has pulled and has written. *)
DeltaOf(ops) == Total([i \in DOMAIN ops |-> ops[i].delta])

Pulled(r) ==
    Total([n \in 1..pulled[r] |-> IF IsOwn(r, log[n]) THEN 0 ELSE DeltaOf(log[n].ops)])

Written(r) ==
    Total([n \in DOMAIN rep[r].buf.txs |-> DeltaOf(rep[r].buf.txs[n].ops)])
        + DeltaOf(rep[r].pending)

(* The value is the sum of the deltas the replica has: its own committed    *)
(* and open ones and the others' it has pulled, whatever wrapped around,    *)
(* was rolled back, or came as a snapshot (CounterCrdt, do_rollback,        *)
(* apply_snapshot_transaction).  Snapshots are taken while the creator has  *)
(* nothing open and nothing unpushed (Join), which get_subscribe_snapshot   *)
(* does not see to: otherwise a snapshot holds what is pulled once more     *)
(* (SyncProtocol, Converged).                                               *)
ValueIsSum == \A r \in joined : GetValue(r) = Wrap(Pulled(r) + Written(r))

(* OperationId orders operations by lamport, then cuid: over the log that   *)
(* order is total and agrees with the order in which each replica executed  *)
(* its operations, although rollbacks turn clocks back.                     *)
OperationIdsOrdered ==
    \A a, b \in DOMAIN log :
        \A i \in DOMAIN log[a].ops, j \in DOMAIN log[b].ops :
            /\ log[a].cuid = log[b].cuid
            /\ a < b \/ (a = b /\ i < j)
            => Precedes(log[a].ops[i], log[b].ops[j])

(* The clock is ahead of everything the replica has pulled, so what it      *)
(* writes next comes after it - except for what came in while a transaction *)
(* was open that was rolled back later: do_rollback restores the clock of   *)
(* before.                                                                  *)
CausalUnlessRolledBack ==
    \A r \in joined :
        \A n \in 1..pulled[r] : \A l \in LamportsOf(log[n].ops) :
            l <= rep[r].opId.lamport \/ l \in missed[r].for_good
=============================================================================
