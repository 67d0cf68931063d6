------------------------- MODULE SyncProtocolProofs -------------------------
(*****************************************************************************)
(* The inductive invariant of SyncProtocol, for every set of clients, every  *)
(* scenario and every bound: first what the operators of the model return,   *)
(* then one lemma per action.  A step of one client may change the server    *)
(* for all of them, so each of those lemmas shows StepOf: the other clients  *)
(* are left alone (Frame), the server has only grown for them (Extends), and *)
(* the client's own part of the invariant holds again.                       *)
(*                                                                           *)
(* Then what the protocol guarantees on that ground: that it implements      *)
(* ReplicatedLog, that an acknowledged write is stored, unless an earlier    *)
(* datatype of its client had used up its cseq, and that no committed one is *)
(* passed over.                                                              *)
(*****************************************************************************)
EXTENDS SyncProtocol, SequenceTheorems, FiniteSetTheorems, TLAPS

(* The server the connectivity's map holds knows client c. *)
Linked(c) == srv.present /\ c \in srv.wired

(* The event loop of client c has not ended: a panicked one counts as live, *)
(* since its task is gone but its datatype is as it was.                    *)
Live(c) == loop[c] # "Stopped"

(* A push buffer of well-formed transactions. *)
Buffers ==
    [txs : Seq(Transactions), mem_size : Nat, first_cseq : Nat, last_cseq : Nat]

(* A MutableDatatype of the right shape; what its counter holds is not      *)
(* looked at.                                                               *)
Replica(m) ==
    m \in [crdt : {m.crdt}, cseq : Nat, buf : Buffers, cp : Checkpoints, state : States,
           pending : Seq(Origins), rollback : [cseq : Nat, state : States]]

(* reset keeps the state, the cseq and the checkpoint. *)
LEMMA ResetFields ==
    ASSUME NEW m, Replica(m)
    PROVE  /\ Replica(Reset(m))
           /\ Reset(m).buf = EmptyBuffer /\ Reset(m).pending = <<>>
           /\ Reset(m).cseq = m.cseq /\ Reset(m).cp = m.cp /\ Reset(m).state = m.state
           /\ Reset(m).rollback = [cseq |-> m.cseq, state |-> m.state]
<1> DEFINE none == <<>>
           save == [cseq |-> m.cseq, state |-> m.state]
           empty == EmptyBuffer
<1>1. /\ empty \in Buffers /\ none \in Seq(Origins)
      /\ save \in [cseq : Nat, state : States]
  BY DEF EmptyBuffer, Buffers, Replica
<1>2. Reset(m) = [m EXCEPT !.buf = empty, !.pending = none, !.rollback = save]
  BY DEF Reset
<1> HIDE DEF none, save, empty
<1>3. /\ Replica(Reset(m)) /\ Reset(m).buf = empty /\ Reset(m).pending = none
      /\ Reset(m).cseq = m.cseq /\ Reset(m).cp = m.cp /\ Reset(m).state = m.state
      /\ Reset(m).rollback = save
  BY <1>1, <1>2 DEF Replica
<1> QED
  BY <1>3 DEF none, save, empty

(* apply_snapshot_transaction starts the replica's own numbering afresh. *)
LEMMA SnapshotFields ==
    ASSUME NEW m, Replica(m), NEW crdt
    PROVE  /\ Replica(ApplySnapshot(m, crdt))
           /\ ApplySnapshot(m, crdt).buf = EmptyBuffer
           /\ ApplySnapshot(m, crdt).pending = <<>>
           /\ ApplySnapshot(m, crdt).cseq = 0
           /\ ApplySnapshot(m, crdt).cp = m.cp
           /\ ApplySnapshot(m, crdt).state = m.state
           /\ ApplySnapshot(m, crdt).rollback = [cseq |-> 0, state |-> m.state]
<1> DEFINE n == [m EXCEPT !.crdt = crdt, !.cseq = 0]
<1>1. Replica(n) /\ n.cseq = 0 /\ n.cp = m.cp /\ n.state = m.state
  BY DEF Replica
<1>2. ApplySnapshot(m, crdt) = Reset(n)
  BY DEF ApplySnapshot
<1> HIDE DEF n
<1> QED
  BY <1>1, <1>2, ResetFields

(* execute_local_operation touches neither the push buffer, nor the         *)
(* checkpoint, nor the state; the first operation of a transaction saves    *)
(* the rollback point and takes the next cseq.                              *)
LEMMA ExecuteLocalFields ==
    ASSUME NEW m, Replica(m), NEW op \in Origins
    PROVE  LET r == ExecuteLocal(m, op) IN
           /\ Replica(r)
           /\ r.buf = m.buf /\ r.cp = m.cp /\ r.state = m.state /\ r.pending # <<>>
           /\ m.pending = <<>> => /\ r.cseq = m.cseq + 1
                                  /\ r.rollback = [cseq |-> m.cseq, state |-> m.state]
           /\ m.pending # <<>> => r.cseq = m.cseq /\ r.rollback = m.rollback
<1> DEFINE crdt == ExecuteOps(m.crdt, <<op>>)
<1>1. <<op>> \in Seq(Origins) /\ <<op>> # <<>>
  OBVIOUS
<1>2. Append(m.pending, op) \in Seq(Origins) /\ Append(m.pending, op) # <<>>
  BY DEF Replica
<1>3. CASE m.pending = <<>>
  <2> DEFINE save == [cseq |-> m.cseq, state |-> m.state]
             ops == <<op>>
  <2>1. ExecuteLocal(m, op) = [m EXCEPT !.crdt = crdt, !.pending = ops,
                                        !.rollback = save, !.cseq = m.cseq + 1]
    BY <1>3 DEF ExecuteLocal, Replica
  <2>2. save \in [cseq : Nat, state : States] /\ m.cseq + 1 \in Nat
    BY DEF Replica
  <2>3. ops \in Seq(Origins) /\ ops # <<>>
    BY <1>1
  <2> HIDE DEF crdt, save, ops
  <2>4. /\ Replica(ExecuteLocal(m, op))
    BY <2>1, <2>2, <2>3 DEF Replica
  <2> QED
    BY <1>3, <2>1, <2>2, <2>3, <2>4 DEF Replica, save
<1>4. CASE m.pending # <<>>
  <2> DEFINE ops == Append(m.pending, op)
  <2>1. ExecuteLocal(m, op) = [m EXCEPT !.crdt = crdt, !.pending = ops]
    BY <1>4 DEF ExecuteLocal, Replica
  <2>2. ops \in Seq(Origins) /\ ops # <<>>
    BY <1>2
  <2> HIDE DEF crdt, ops
  <2> QED
    BY <1>4, <2>1, <2>2 DEF Replica
<1> QED
  BY <1>3, <1>4

(* do_rollback takes back the cseq and the state the transaction began in. *)
LEMMA DoRollbackFields ==
    ASSUME NEW m, Replica(m)
    PROVE  LET r == DoRollback(m) IN
           /\ Replica(r)
           /\ r.buf = m.buf /\ r.cp = m.cp /\ r.pending = <<>> /\ r.rollback = m.rollback
           /\ m.pending = <<>> => r.cseq = m.cseq /\ r.state = m.state
           /\ m.pending # <<>> => r.cseq = m.rollback.cseq /\ r.state = m.rollback.state
<1> DEFINE crdt == InverseOps(m.crdt, m.pending)
           none == <<>>
<1>1. CASE m.pending = <<>>
  BY <1>1 DEF DoRollback
<1>2. CASE m.pending # <<>>
  <2>1. DoRollback(m) = [m EXCEPT !.crdt = crdt, !.cseq = m.rollback.cseq,
                                  !.state = m.rollback.state, !.pending = none]
    BY <1>2 DEF DoRollback, Replica
  <2>2. m.rollback.cseq \in Nat /\ m.rollback.state \in States /\ none \in Seq(Origins)
    BY DEF Replica
  <2> HIDE DEF crdt, none
  <2> DEFINE r == DoRollback(m)
  <2>3. /\ Replica(r) /\ r.buf = m.buf /\ r.cp = m.cp /\ r.pending = none
        /\ r.rollback = m.rollback /\ r.cseq = m.rollback.cseq
        /\ r.state = m.rollback.state
    BY <2>1, <2>2 DEF Replica
  <2> QED
    BY <1>2, <2>3 DEF none
<1> QED
  BY <1>1, <1>2

(* end_transaction either rolls back or appends the open transaction, with  *)
(* the next cseq, to a push buffer that has room for it.                    *)
LEMMA EndTransactionFields ==
    ASSUME NEW m, Replica(m), NEW c \in Clients, NEW ok \in BOOLEAN, m.pending # <<>>
    PROVE  LET r == EndTransaction(m, c, ok, MaxMem)
               tx == PendingTx(m, c)
           IN  \/ r = DoRollback(m)
               \/ /\ Replica(r)
                  /\ r.cp = m.cp /\ r.state = m.state /\ r.cseq = m.cseq
                  /\ r.pending = <<>> /\ r.rollback = m.rollback
                  /\ tx \in Transactions /\ tx.cuid = c /\ tx.cseq = m.rollback.cseq + 1
                  /\ r.buf.txs = Append(m.buf.txs, tx)
                  /\ r.buf.first_cseq = IF m.buf.first_cseq = 0 THEN tx.cseq
                                        ELSE m.buf.first_cseq
                  /\ r.buf.last_cseq = tx.cseq
                  /\ r.buf.mem_size >= m.buf.mem_size + 1
                  /\ r.buf.mem_size <= MaxMem
<1> DEFINE tx == PendingTx(m, c)
           b  == Enqueue(m.buf, tx)
           none == <<>>
<1>1. CASE ~ok \/ ~CommitFits(m, c, MaxMem)
  BY <1>1 DEF EndTransaction
<1>2. CASE ok /\ CommitFits(m, c, MaxMem)
  <2>1. tx \in Transactions /\ tx.cuid = c /\ tx.cseq = m.rollback.cseq + 1
    BY DEF Replica, PendingTx, Transactions
  <2>2. TxSize(tx) \in Nat /\ TxSize(tx) >= 1
    BY <2>1 DEF TxSize, Transactions
  <2>3. m.buf.mem_size + TxSize(tx) <= MaxMem
    BY <1>2, <2>2, SyncAssumption DEF CommitFits, CanEnqueue, ExceedsMaxMemSize, Replica, Buffers
  <2>4. EndTransaction(m, c, ok, MaxMem) = [m EXCEPT !.buf = b, !.pending = none]
    BY <1>2 DEF EndTransaction
  <2> HIDE DEF tx
  <2>5. tx.cseq \in Nat
    BY <2>1 DEF Transactions
  <2>6. /\ b \in Buffers /\ b.txs = Append(m.buf.txs, tx)
        /\ b.first_cseq = IF m.buf.first_cseq = 0 THEN tx.cseq ELSE m.buf.first_cseq
        /\ b.last_cseq = tx.cseq
        /\ b.mem_size = m.buf.mem_size + TxSize(tx)
    BY <2>1, <2>2, <2>5 DEF Enqueue, Replica, Buffers
  <2>7. m.buf.mem_size \in Nat
    BY DEF Replica, Buffers
  <2> DEFINE r == EndTransaction(m, c, ok, MaxMem)
  <2>9. none \in Seq(Origins)
    OBVIOUS
  <2> HIDE DEF b, none
  <2>8. /\ Replica(r) /\ r.cp = m.cp /\ r.state = m.state /\ r.cseq = m.cseq
        /\ r.pending = none /\ r.rollback = m.rollback /\ r.buf = b
    BY <2>4, <2>6, <2>9 DEF Replica
  <2> QED
    BY <2>1, <2>2, <2>3, <2>6, <2>7, <2>8, SyncAssumption DEF tx, none
<1> QED
  BY <1>1, <1>2

(* Max of two checkpoints' components. *)
LEMMA MaxOfTwo ==
    ASSUME NEW a \in Nat, NEW b \in Nat
    PROVE  /\ Max({a, b}) \in Nat /\ Max({a, b}) \in {a, b}
           /\ Max({a, b}) >= a /\ Max({a, b}) >= b
<1>1. \E x \in {a, b} : \A y \in {a, b} : x >= y
  BY DEF Max
<1> QED
  BY <1>1 DEF Max

(* A response moves the checkpoint forward and sets the state. *)
LEMMA PulledFields ==
    ASSUME NEW m, Replica(m), NEW r, r.cp \in Checkpoints, r.state \in States
    PROVE  LET n == PulledReplica(m, r) IN
           /\ Replica(n)
           /\ n.buf = m.buf /\ n.cseq = m.cseq /\ n.pending = m.pending
           /\ n.rollback = m.rollback /\ n.state = r.state
           /\ n.cp.sseq \in {m.cp.sseq, r.cp.sseq} /\ n.cp.sseq >= m.cp.sseq
           /\ n.cp.cseq \in {m.cp.cseq, r.cp.cseq} /\ n.cp.cseq >= m.cp.cseq
<1> DEFINE crdt == ExecuteTxs(m.crdt, SubSeq(r.txs, Skipped(m, r) + 1, Len(r.txs)))
           cp == [sseq |-> Max({m.cp.sseq, r.cp.sseq}), cseq |-> Max({m.cp.cseq, r.cp.cseq})]
<1>1. PulledReplica(m, r) = [m EXCEPT !.crdt = crdt, !.cp = cp, !.state = r.state]
  BY DEF PulledReplica, Replica
<1>2. /\ m.cp.sseq \in Nat /\ m.cp.cseq \in Nat /\ r.cp.sseq \in Nat /\ r.cp.cseq \in Nat
  BY DEF Replica, Checkpoints
<1>3. /\ cp \in Checkpoints
      /\ cp.sseq \in {m.cp.sseq, r.cp.sseq} /\ cp.sseq >= m.cp.sseq
      /\ cp.cseq \in {m.cp.cseq, r.cp.cseq} /\ cp.cseq >= m.cp.cseq
  BY <1>2, MaxOfTwo DEF Checkpoints
<1> HIDE DEF crdt, cp
<1> QED
  BY <1>1, <1>3 DEF Replica

(* A LocalDatatypeServer whose history holds transactions and whose cseq    *)
(* map knows every client.                                                  *)
ServerShape(s) ==
    s \in [gen : {s.gen}, present : BOOLEAN, wired : SUBSET Clients, created : BOOLEAN,
           creator : {s.creator}, duid : {s.duid}, history : Seq(Transactions),
           cseqMap : [Clients -> Nat]]

(* The push buffer of client c holds its transactions 1, 2, ... up to the   *)
(* last committed one. Nothing is ever dequeued, since no operation of the  *)
(* crate calls deque outside its tests.                                     *)
OwnNumbering(m, c) ==
    /\ \A i \in 1..Len(m.buf.txs) : m.buf.txs[i].cseq = i /\ m.buf.txs[i].cuid = c
    /\ m.buf.first_cseq = (IF m.buf.txs = <<>> THEN 0 ELSE 1)
    /\ m.buf.last_cseq = Len(m.buf.txs)
    /\ Committed(m) = Len(m.buf.txs)
    /\ m.pending # <<>> => m.cseq = m.rollback.cseq + 1
    /\ Len(m.buf.txs) <= m.buf.mem_size
    /\ m.buf.mem_size <= MaxMem

(* A pack carries consecutive transactions of the buffer, from the one      *)
(* after the checkpoint on.                                                 *)
Unacknowledged(txs, m) ==
    /\ Len(txs) <= MaxMem
    /\ \A j \in 1..Len(txs) :
          m.cp.cseq + j <= Len(m.buf.txs) /\ txs[j] = m.buf.txs[m.cp.cseq + j]

(* What fits into a pack is not more than there is. *)
LEMMA FittingBound ==
    ASSUME NEW txs \in Seq(Transactions), NEW i \in 0..Len(txs), NEW max
    PROVE  FittingCount(txs, i, max) \in 0..(Len(txs) - i)
<1> DEFINE n == Len(txs) - i
           S == {k \in 1..n : RangeSize(txs, i + 1, i + k) <= max}
<1>1. n \in Nat
  OBVIOUS
<1>2. IsFiniteSet(1..n) /\ Cardinality(1..n) = n
  BY <1>1, FS_Interval
<1>3. S \in SUBSET (1..n)
  OBVIOUS
<1>4. IsFiniteSet(S) /\ Cardinality(S) <= n /\ Cardinality(S) \in Nat
  <2> HIDE DEF S
  <2>1. IsFiniteSet(S) /\ Cardinality(S) <= Cardinality(1..n)
    BY <1>2, <1>3, FS_Subset
  <2>2. Cardinality(S) \in Nat
    BY <2>1, FS_CardinalityType
  <2> QED
    BY <1>2, <2>1, <2>2
<1> QED
  BY <1>1, <1>4 DEF FittingCount

(* get_pushing_transactions asked for what follows the checkpoint gives the *)
(* consecutive transactions after it.                                       *)
LEMMA PushingBatch ==
    ASSUME NEW b \in Buffers, NEW k \in Nat, NEW from, from = k + 1, NEW max, NEW txs,
           b.first_cseq = (IF b.txs = <<>> THEN 0 ELSE 1),
           txs = PushingTransactions(b, from, max)
    PROVE  /\ txs \in Seq(Transactions) /\ Len(txs) <= Len(b.txs)
           /\ \A j \in 1..Len(txs) : k + j <= Len(b.txs) /\ txs[j] = b.txs[k + j]
<1> DEFINE all == b.txs
           index == k + 1 - b.first_cseq
           f == FittingCount(all, index, max)
<1>1. all \in Seq(Transactions) /\ Len(all) \in Nat
  BY DEF Buffers
<1>2. txs = IF Len(all) <= index THEN <<>> ELSE SubSeq(all, index + 1, index + f)
  BY DEF PushingTransactions
<1>3. all = <<>> => index = k + 1
  OBVIOUS
<1>4. all # <<>> => index = k
  OBVIOUS
<1>5. index \in Nat
  BY <1>3, <1>4
<1>6. index \in 0..Len(all) => f \in 0..(Len(all) - index)
  BY <1>1, FittingBound
<1> HIDE DEF f, index, all
<1>7. CASE Len(all) <= index
  <2>1. txs = <<>>
    BY <1>2, <1>7
  <2>2. txs \in Seq(Transactions) /\ Len(txs) = 0
    <3>1. <<>> \in Seq(Transactions) /\ Len(<<>>) = 0
      OBVIOUS
    <3> QED
      BY <2>1, <3>1
  <2> QED
    BY <1>1, <2>2 DEF all
<1>8. CASE ~(Len(all) <= index)
  <2>1. all # <<>> /\ index = k
    <3>1. all = <<>> => Len(all) = 0
      OBVIOUS
    <3> QED
      BY <1>1, <1>3, <1>4, <1>5, <1>8, <3>1
  <2>2. f \in 0..(Len(all) - k)
    BY <1>1, <1>5, <1>6, <1>8, <2>1
  <2>3. txs = SubSeq(all, k + 1, k + f)
    BY <1>2, <1>8, <2>1
  <2> DEFINE lo == k + 1
             hi == k + f
  <2>4. lo \in Int /\ hi \in Int /\ \A i \in lo..hi : all[i] \in Transactions
    BY <1>1, <2>2
  <2>5. /\ txs \in Seq(Transactions)
        /\ Len(txs) = IF lo <= hi THEN hi - lo + 1 ELSE 0
        /\ \A i \in 1..(hi - lo + 1) : txs[i] = all[lo + i - 1]
    <3> HIDE DEF lo, hi
    <3>1. txs = SubSeq(all, lo, hi)
      BY <2>3 DEF lo, hi
    <3>2. /\ SubSeq(all, lo, hi) \in Seq(Transactions)
          /\ Len(SubSeq(all, lo, hi)) = IF lo <= hi THEN hi - lo + 1 ELSE 0
          /\ \A i \in 1..(hi - lo + 1) : SubSeq(all, lo, hi)[i] = all[lo + i - 1]
      BY <2>4, SubSeqProperties
    <3> QED
      BY <3>1, <3>2
  <2>6. Len(txs) = f
    BY <1>1, <2>2, <2>5
  <2>7. ASSUME NEW j \in 1..f PROVE k + j <= Len(all) /\ txs[j] = all[k + j]
    <3>1. /\ k + j <= Len(all) /\ j \in 1..(hi - lo + 1) /\ lo + j - 1 = k + j
      BY <1>1, <2>2
    <3> HIDE DEF lo, hi
    <3>2. txs[j] = all[lo + j - 1]
      BY <2>5, <3>1
    <3> QED
      BY <3>1, <3>2
  <2> QED
    BY <1>1, <2>2, <2>5, <2>6, <2>7 DEF all
<1> QED
  BY <1>7, <1>8

(* What do_push_pull puts into a pack is what the checkpoint does not       *)
(* cover, without a gap.                                                    *)
LEMMA PushingFields ==
    ASSUME NEW m, NEW c, Replica(m), OwnNumbering(m, c), NEW max, NEW txs,
           NEW from, from = m.cp.cseq + 1,
           txs = PushingTransactions(m.buf, from, max)
    PROVE  txs \in Seq(Transactions) /\ Unacknowledged(txs, m)
<1> DEFINE b == m.buf
           k == m.cp.cseq
<1>1. b \in Buffers /\ k \in Nat /\ b.first_cseq = (IF b.txs = <<>> THEN 0 ELSE 1)
  BY DEF Replica, Checkpoints, OwnNumbering
<1>2. from = k + 1 /\ txs = PushingTransactions(b, from, max)
  OBVIOUS
<1>3. /\ txs \in Seq(Transactions) /\ Len(txs) <= Len(b.txs)
      /\ \A j \in 1..Len(txs) : k + j <= Len(b.txs) /\ txs[j] = b.txs[k + j]
  <2> HIDE DEF b, k
  <2> QED
    BY <1>1, <1>2, PushingBatch
<1>4. Len(b.txs) \in Nat /\ Len(b.txs) <= MaxMem /\ MaxMem \in Nat
  BY <1>1, SyncAssumption DEF OwnNumbering, Buffers
<1> QED
  BY <1>3, <1>4 DEF Unacknowledged

(* The transactions carry the cseqs after k. *)
Consecutive(txs, k) == \A j \in 1..Len(txs) : txs[j].cseq = k + j

(* In a pack of consecutive cseqs, the first one after those the server    *)
(* knows.                                                                   *)
LEMMA FirstNewValue ==
    ASSUME NEW txs \in Seq(Transactions), NEW k \in Nat, NEW known \in Nat,
           Consecutive(txs, k)
    PROVE  FirstNew(txs, known) =
               IF known <= k THEN 1
               ELSE IF known - k >= Len(txs) THEN Len(txs) + 1 ELSE known - k + 1
<1> DEFINE P(i) == /\ \A j \in 1..(i - 1) : txs[j].cseq <= known
                   /\ \A j \in i..Len(txs) : txs[j].cseq > known
           v == IF known <= k THEN 1
                ELSE IF known - k >= Len(txs) THEN Len(txs) + 1 ELSE known - k + 1
<1> USE DEF Consecutive
<1>1. v \in 1..(Len(txs) + 1) /\ P(v)
  OBVIOUS
<1>2. ASSUME NEW i \in 1..(Len(txs) + 1), P(i) PROVE i = v
  <2>1. CASE i < v
    <3>1. i \in i..Len(txs) /\ i \in 1..(v - 1) /\ i \in 1..Len(txs)
      BY <2>1, <1>1
    <3>2. txs[i].cseq > known /\ txs[i].cseq <= known /\ txs[i].cseq \in Nat
      BY <3>1, <1>1, <1>2
    <3> QED
      BY <3>2
  <2>2. CASE i > v
    <3>1. v \in v..Len(txs) /\ v \in 1..(i - 1) /\ v \in 1..Len(txs)
      BY <2>2, <1>1
    <3>2. txs[v].cseq > known /\ txs[v].cseq <= known /\ txs[v].cseq \in Nat
      BY <3>1, <1>1, <1>2
    <3> QED
      BY <3>2
  <2> QED
    BY <2>1, <2>2, <1>1
<1>3. FirstNew(txs, known) = CHOOSE i \in 1..(Len(txs) + 1) : P(i)
  BY DEF FirstNew
<1> HIDE DEF P, v
<1>4. (CHOOSE i \in 1..(Len(txs) + 1) : P(i)) = v
  BY <1>1, <1>2
<1> QED
  BY <1>3, <1>4 DEF v

(* What push_transactions takes from a pack: transactions of the pack and,  *)
(* if the pack leaves no gap after the cseqs the server knows, those after  *)
(* them.                                                                    *)
LEMMA NewTxsFields ==
    ASSUME NEW txs \in Seq(Transactions), NEW k \in Nat, NEW known \in Nat,
           Consecutive(txs, k),
           NEW new, new = NewTxs(txs, known)
    PROVE  /\ new \in Seq(Transactions) /\ Len(new) <= Len(txs)
           /\ k <= known =>
                \A i \in 1..Len(new) : /\ known - k + i \in 1..Len(txs)
                                       /\ new[i] = txs[known - k + i]
                                       /\ new[i].cseq = known + i
           /\ known < k => new = txs
<1> DEFINE v == FirstNew(txs, known)
           n == Len(txs)
<1>1. v = IF known <= k THEN 1 ELSE IF known - k >= n THEN n + 1 ELSE known - k + 1
  BY FirstNewValue
<1>2. new = SubSeq(txs, v, n)
  BY DEF NewTxs
<1>3. n \in Nat /\ v \in 1..(n + 1)
  BY <1>1
<1> HIDE DEF v, n
<1>4. v \in Int /\ n \in Int /\ \A i \in v..n : txs[i] \in Transactions
  BY <1>3 DEF n
<1>5. /\ SubSeq(txs, v, n) \in Seq(Transactions)
      /\ Len(SubSeq(txs, v, n)) = IF v <= n THEN n - v + 1 ELSE 0
      /\ \A i \in 1..(n - v + 1) : SubSeq(txs, v, n)[i] = txs[v + i - 1]
  BY <1>4, SubSeqProperties
<1>6. /\ new \in Seq(Transactions) /\ Len(new) = IF v <= n THEN n - v + 1 ELSE 0
      /\ \A i \in 1..(n - v + 1) : new[i] = txs[v + i - 1]
  BY <1>2, <1>5
<1>7. Len(new) <= n
  BY <1>3, <1>6
<1>8. ASSUME k <= known, NEW i \in 1..Len(new)
      PROVE  /\ known - k + i \in 1..n /\ new[i] = txs[known - k + i]
             /\ new[i].cseq = known + i
  <2>1. v = known - k + 1 /\ v <= n
    BY <1>1, <1>3, <1>6, <1>8
  <2>2. /\ known - k + i \in 1..n /\ v + i - 1 = known - k + i
        /\ i \in 1..(n - v + 1)
    BY <1>3, <1>6, <1>8, <2>1
  <2>3. new[i] = txs[known - k + i]
    BY <1>6, <2>2
  <2>4. txs[known - k + i].cseq = k + (known - k + i)
    BY <2>2 DEF n, Consecutive
  <2>5. k + (known - k + i) = known + i
    BY <1>6
  <2> QED
    BY <2>2, <2>3, <2>4, <2>5
<1>9. ASSUME known < k PROVE new = txs
  <2>1. v = 1
    BY <1>1, <1>9
  <2>2. Len(new) = n /\ \A i \in 1..n : new[i] = txs[i]
    BY <1>3, <1>6, <2>1
  <2> QED
    BY <1>6, <2>2, SeqEqual DEF n
<1> QED
  BY <1>6, <1>7, <1>8, <1>9 DEF n

(* Two server objects differ in what they store only. *)
SameEntry(s, r) ==
    /\ r.gen = s.gen /\ r.present = s.present /\ r.wired = s.wired
    /\ r.created = s.created /\ r.creator = s.creator /\ r.duid = s.duid

(* Server r is s after storing `new` from a pack of client c that carries   *)
(* the cseqs after k.                                                       *)
Stores(s, r, c, txs, k, new) ==
    /\ r.history = s.history \o new
    /\ Len(new) <= Len(txs)
    /\ k <= s.cseqMap[c] =>
         /\ r.cseqMap = [s.cseqMap EXCEPT ![c] = @ + Len(new)]
         /\ \A i \in 1..Len(new) :
              /\ s.cseqMap[c] - k + i \in 1..Len(txs)
              /\ new[i] = txs[s.cseqMap[c] - k + i]
              /\ new[i].cseq = s.cseqMap[c] + i
    /\ s.cseqMap[c] < k =>
         /\ new = txs
         /\ r.cseqMap = IF new = <<>> THEN s.cseqMap
                        ELSE [s.cseqMap EXCEPT ![c] = new[Len(new)].cseq]

(* push_transactions extends the history, and nothing else, by what it      *)
(* takes from a pack of consecutive cseqs; the cseq it knows of the client  *)
(* moves on by as many, unless the pack leaves a gap.                       *)
LEMMA PushEffect ==
    ASSUME NEW s, ServerShape(s), NEW c \in Clients, NEW p, p.cuid = c,
           NEW txs, p.txs = txs, txs \in Seq(Transactions), NEW k \in Nat,
           Consecutive(txs, k),
           NEW r, r = PushTransactions(s, p)
    PROVE  /\ ServerShape(r) /\ SameEntry(s, r)
           /\ \A d \in Clients \ {c} : r.cseqMap[d] = s.cseqMap[d]
           /\ \E new \in Seq(Transactions) : Stores(s, r, c, txs, k, new)
<1> DEFINE known == s.cseqMap[c]
           new == NewTxs(txs, known)
           last == new[Len(new)].cseq
           map == [s.cseqMap EXCEPT ![c] = last]
           hist == s.history \o new
<1>1. known \in Nat /\ s.cseqMap \in [Clients -> Nat] /\ s.history \in Seq(Transactions)
  BY DEF ServerShape
<1>2. /\ new \in Seq(Transactions) /\ Len(new) <= Len(txs)
      /\ k <= known =>
                \A i \in 1..Len(new) : /\ known - k + i \in 1..Len(txs)
                                       /\ new[i] = txs[known - k + i]
                                       /\ new[i].cseq = known + i
      /\ known < k => new = txs
  <2>1. new = NewTxs(txs, known)
    OBVIOUS
  <2> HIDE DEF known, new
  <2> QED
    BY <1>1, <2>1, NewTxsFields
<1>3. r = IF new = <<>> THEN s ELSE [s EXCEPT !.history = @ \o new, !.cseqMap[c] = last]
  BY DEF PushTransactions
<1> HIDE DEF new
<1> DEFINE Effect ==
             /\ ServerShape(r) /\ SameEntry(s, r)
             /\ \A d \in Clients \ {c} : r.cseqMap[d] = s.cseqMap[d]
             /\ r.history = s.history \o new
             /\ k <= known => r.cseqMap = [s.cseqMap EXCEPT ![c] = @ + Len(new)]
             /\ r.cseqMap = IF new = <<>> THEN s.cseqMap
                            ELSE [s.cseqMap EXCEPT ![c] = new[Len(new)].cseq]
<1>4. ASSUME new = <<>> PROVE Effect
  <2>1. r = s
    BY <1>3, <1>4
  <2>2. Len(new) = 0 /\ s.history \o new = s.history
    BY <1>1, <1>4
  <2>3. s.cseqMap = [s.cseqMap EXCEPT ![c] = @ + 0]
    BY <1>1
  <2>5. r.cseqMap = [s.cseqMap EXCEPT ![c] = @ + Len(new)]
    BY <2>1, <2>2, <2>3
  <2> QED
    BY <1>4, <2>1, <2>2, <2>5 DEF SameEntry
<1>5. ASSUME new # <<>> PROVE Effect
  <2>1. Len(new) \in 1..Len(new) /\ last \in Nat
    <3>1. Len(new) \in 1..Len(new)
      BY <1>2, <1>5
    <3>2. new[Len(new)] \in Transactions
      BY <1>2, <3>1
    <3> QED
      BY <3>1, <3>2 DEF Transactions
  <2>2. k <= known => last = known + Len(new)
    BY <1>2, <2>1
  <2>3. map \in [Clients -> Nat] /\ hist \in Seq(Transactions)
    BY <1>1, <1>2, <2>1
  <2>4. r = [s EXCEPT !.history = hist, !.cseqMap = map]
    BY <1>3, <1>5 DEF ServerShape
  <2>5. k <= known => map = [s.cseqMap EXCEPT ![c] = @ + Len(new)]
    BY <1>1, <2>2
  <2>6. \A d \in Clients \ {c} : map[d] = s.cseqMap[d]
    BY <1>1
  <2> HIDE DEF map, hist, last
  <2>7. /\ ServerShape(r) /\ SameEntry(s, r) /\ r.history = hist /\ r.cseqMap = map
    BY <2>3, <2>4 DEF ServerShape, SameEntry
  <2> QED
    BY <1>5, <2>5, <2>6, <2>7 DEF hist, map, last
<1>6. Effect
  BY <1>4, <1>5
<1>7. Stores(s, r, c, txs, k, new)
  BY <1>2, <1>6 DEF Stores
<1> QED
  BY <1>2, <1>6, <1>7

(* The state and the checkpoint of a response are well formed. *)
Response(r) == r.state \in States /\ r.cp \in Checkpoints

(* What an exchange holds in each of its phases. *)
Exchange(x) ==
    /\ x.kind \in {"idle", "error", "register", "push", "pulled", "collect"}
    /\ x.kind = "error" => x.recovery = "Disable"
    /\ x.kind = "register" => x.state \in InitialStates
    /\ x.kind = "push" => x.state \in States /\ x.txs \in Seq(Transactions)
    /\ x.kind = "pulled" => Response(x)
    /\ x.kind = "collect" => x.reply.kind = "pulled" /\ Response(x.reply)

(* Every client has a replica, an exchange and an event loop. *)
Domains ==
    /\ DOMAIN inst = Clients /\ DOMAIN dt = Clients /\ DOMAIN duid = Clients
    /\ DOMAIN checked = Clients /\ DOMAIN net = Clients /\ DOMAIN loop = Clients

(* The state of client c is well formed. *)
Shape(c) == inst[c] \in 0..MaxInst /\ Replica(dt[c]) /\ Exchange(net[c])

(* The states of a datatype whose event loop has ended. *)
Gone == {"Disabled", "Unsubscribing"}

(* How the phases of client c's exchange, its event loop and the server go  *)
(* together: only a built datatype exchanges packs, a client whose exchange *)
(* empties the server is not wired any more, and an ended event loop leaves *)
(* no exchange and a datatype that is, and stays, given up.                 *)
Phase(c) ==
    /\ net[c].kind \notin {"idle", "register"} \/ checked[c] # {} => inst[c] >= 1
    /\ net[c].kind = "register" => inst[c] < MaxInst
    /\ net[c].kind = "collect" => c \notin srv.wired /\ net[c].reply.state = "Disabled"
    /\ ~Live(c) => /\ net[c].kind \in {"idle", "register"}
                   /\ dt[c].state \in Gone
                   /\ dt[c].pending # <<>> => dt[c].rollback.state \in Gone

(* While the event loop lives, the push buffer has the numbering of its own *)
(* commits.                                                                 *)
Numbered(c) == Live(c) => OwnNumbering(dt[c], c)

(* A pack under way was built from the datatype as it is now but for its    *)
(* later commits.                                                           *)
Packed(c) ==
    net[c].kind = "push" =>
        /\ net[c].cuid = c /\ net[c].duid = duid[c] /\ net[c].sseq = dt[c].cp.sseq
        /\ Unacknowledged(net[c].txs, dt[c])

(* The server has got as far as checkpoint k of client c. *)
Reached(c, k) == k.sseq <= Len(srv.history) /\ k.cseq <= srv.cseqMap[c]

(* Neither the checkpoint of a client the server knows nor the one in a     *)
(* response to it is ahead of the server.                                   *)
Acknowledged(c) ==
    Linked(c) => /\ Reached(c, dt[c].cp)
                 /\ net[c].kind = "pulled" => Reached(c, net[c].cp)

(* What the protocol keeps of client c. *)
ClientInv(c) == Shape(c) /\ Phase(c) /\ Numbered(c) /\ Packed(c) /\ Acknowledged(c)

(* What every step of the protocol keeps.  No part of it is inductive       *)
(* alone: that a checkpoint stays within the server's cseqs needs the       *)
(* numbering of the pack, and that needs the numbering of the buffer.       *)
ProtocolInv ==
    /\ scenario \in Scenarios /\ Domains /\ ServerShape(srv)
    /\ \A c \in Clients : ClientInv(c)
-----------------------------------------------------------------------------
(* A step of client c leaves the other clients as they are. *)
Frame(c) ==
    /\ scenario' = scenario /\ Domains'
    /\ \A d \in Clients \ {c} :
          /\ inst'[d] = inst[d] /\ dt'[d] = dt[d] /\ duid'[d] = duid[d]
          /\ checked'[d] = checked[d] /\ net'[d] = net[d] /\ loop'[d] = loop[d]

(* As far as client d is concerned the server only grows. *)
Grows(d) ==
    /\ d \in srv'.wired => d \in srv.wired
    /\ Linked(d)' => /\ Linked(d)
                     /\ Len(srv.history) <= Len(srv'.history)
                     /\ srv.cseqMap[d] <= srv'.cseqMap[d]

(* A step of client c only adds to what the server has of the others. *)
Extends(c) == \A d \in Clients \ {c} : Grows(d)

(* A step of client c, as the other clients' part of the invariant needs    *)
(* it.                                                                      *)
StepOf(c) == Frame(c) /\ ServerShape(srv)' /\ Extends(c) /\ ClientInv(c)'

(* A step that keeps client c's part of the invariant keeps all of it. *)
LEMMA OthersKeep ==
    ASSUME ProtocolInv, NEW c \in Clients, StepOf(c)
    PROVE  ProtocolInv'
<1> SUFFICES ASSUME NEW d \in Clients \ {c} PROVE ClientInv(d)'
  BY DEF ProtocolInv, StepOf, Frame
<1>1. /\ inst'[d] = inst[d] /\ dt'[d] = dt[d] /\ duid'[d] = duid[d]
      /\ checked'[d] = checked[d] /\ net'[d] = net[d] /\ loop'[d] = loop[d]
  BY DEF StepOf, Frame
<1>2. /\ d \in srv'.wired => d \in srv.wired
      /\ Linked(d)' => /\ Linked(d)
                       /\ Len(srv.history) <= Len(srv'.history)
                       /\ srv.cseqMap[d] <= srv'.cseqMap[d]
  BY DEF StepOf, Extends, Grows
<1>3. Shape(d) /\ Phase(d) /\ Numbered(d) /\ Packed(d) /\ Acknowledged(d)
  BY DEF ProtocolInv, ClientInv
<1>4. Shape(d)'
  BY <1>1, <1>3 DEF Shape
<1>5. Phase(d)'
  BY <1>1, <1>2, <1>3 DEF Phase, Live
<1>6. Numbered(d)' /\ Packed(d)'
  BY <1>1, <1>3 DEF Numbered, Packed, Live
<1>7. Acknowledged(d)'
  <2> SUFFICES ASSUME Linked(d)'
               PROVE  /\ Reached(d, dt[d].cp)'
                      /\ net'[d].kind = "pulled" => Reached(d, net[d].cp)'
    BY DEF Acknowledged
  <2>1. /\ Reached(d, dt[d].cp)
        /\ net[d].kind = "pulled" => Reached(d, net[d].cp)
    BY <1>2, <1>3 DEF Acknowledged
  <2>2. /\ Len(srv.history) \in Nat /\ Len(srv'.history) \in Nat
        /\ srv.cseqMap[d] \in Nat /\ srv'.cseqMap[d] \in Nat
    BY DEF ProtocolInv, StepOf, ServerShape
  <2>3. /\ dt[d].cp.sseq \in Nat /\ dt[d].cp.cseq \in Nat
        /\ net[d].kind = "pulled" => net[d].cp.sseq \in Nat /\ net[d].cp.cseq \in Nat
    BY <1>3 DEF Shape, Replica, Exchange, Response, Checkpoints
  <2>4. Len(srv.history) <= Len(srv'.history) /\ srv.cseqMap[d] <= srv'.cseqMap[d]
    BY <1>2
  <2>5. Reached(d, dt[d].cp)'
    BY <1>1, <2>1, <2>2, <2>3, <2>4 DEF Reached
  <2>6. net[d].kind = "pulled" => Reached(d, net[d].cp)'
    BY <1>1, <2>1, <2>2, <2>3, <2>4 DEF Reached
  <2> QED
    BY <1>1, <2>5, <2>6
<1> QED
  BY <1>4, <1>5, <1>6, <1>7 DEF ClientInv

(* A step that leaves the server alone only adds to it. *)
LEMMA SameServer ==
    ASSUME ProtocolInv, NEW c \in Clients, srv' = srv
    PROVE  ServerShape(srv)' /\ Extends(c)
BY DEF ProtocolInv, ServerShape, Extends, Grows, Linked

(* The parts of the invariant that are about client c. *)
LEMMA OwnFacts ==
    ASSUME ProtocolInv, NEW c \in Clients
    PROVE  /\ Domains /\ ServerShape(srv)
           /\ Shape(c) /\ Phase(c) /\ Numbered(c) /\ Packed(c) /\ Acknowledged(c)
BY DEF ProtocolInv, ClientInv

(* LocalConnectivity::register, first section: a server made afresh knows   *)
(* nobody, so no checkpoint is ahead of it.                                 *)
LEMMA BuildStep ==
    ASSUME ProtocolInv, NEW c \in Clients, NEW st \in InitialStates, Build(c, st)
    PROVE  StepOf(c)
<1>1. /\ Domains /\ ServerShape(srv)
      /\ Shape(c) /\ Phase(c) /\ Numbered(c) /\ Packed(c) /\ Acknowledged(c)
  BY OwnFacts
<1>2. /\ inst[c] < MaxInst /\ net[c] = Idle
      /\ inst' = inst /\ dt' = dt /\ duid' = duid /\ loop' = loop /\ scenario' = scenario
      /\ checked' = [checked EXCEPT ![c] = {}]
      /\ net' = [net EXCEPT ![c] = [kind |-> "register", gen |-> srv'.gen, state |-> st]]
  BY DEF Build
<1>3. /\ net'[c].kind = "register" /\ net'[c].state = st /\ checked'[c] = {}
  BY <1>1, <1>2 DEF Domains
<1>4. Frame(c)
  BY <1>1, <1>2 DEF Frame, Domains
<1>5. ServerShape(srv)' /\ Extends(c) /\ (Linked(c)' => srv' = srv)
  <2>1. CASE srv.present
    <3>1. srv' = srv
      BY <2>1 DEF Build
    <3> QED
      BY <3>1, SameServer
  <2>2. CASE ~srv.present
    <3>1. srv' = NewServer(c, <<c, inst[c] + 1>>, srv.gen + 1)
      BY <2>2 DEF Build
    <3>2. srv'.wired = {}
      BY <3>1 DEF NewServer
    <3>3. <<>> \in Seq(Transactions) /\ [x \in Clients |-> 0] \in [Clients -> Nat]
      OBVIOUS
    <3>4. ServerShape(srv)'
      BY <3>1, <3>3 DEF NewServer, ServerShape
    <3> QED
      BY <3>2, <3>4 DEF Extends, Grows, Linked
  <2> QED
    BY <2>1, <2>2
<1>6. Shape(c)'
  BY <1>1, <1>2, <1>3 DEF Shape, Exchange
<1>7. Phase(c)'
  BY <1>1, <1>2, <1>3 DEF Phase, Live
<1>8. Numbered(c)' /\ Packed(c)'
  BY <1>1, <1>2, <1>3 DEF Numbered, Packed, Live
<1>9. Acknowledged(c)'
  BY <1>1, <1>2, <1>3, <1>5 DEF Acknowledged, Reached, Linked
<1> QED
  BY <1>4, <1>5, <1>6, <1>7, <1>8, <1>9 DEF StepOf, ClientInv

(* MutableDatatype::new starts the numbering and the checkpoint at zero. *)
LEMMA NewMutableFields ==
    ASSUME NEW st \in States, NEW m, m = NewMutable(Origins, st), NEW c
    PROVE  /\ Replica(m) /\ OwnNumbering(m, c)
           /\ m.cp.sseq = 0 /\ m.cp.cseq = 0 /\ m.pending = <<>> /\ m.state = st
           /\ m.buf.txs = <<>> /\ m.rollback.state = st
<1> DEFINE crdt == [o \in Origins |-> 0]
<1>1. m = [crdt |-> crdt, cseq |-> 0, buf |-> EmptyBuffer, cp |-> [sseq |-> 0, cseq |-> 0],
           state |-> st, pending |-> <<>>, rollback |-> [cseq |-> 0, state |-> st]]
  BY DEF NewMutable
<1> HIDE DEF crdt
<1>2. <<>> \in Seq(Origins) /\ <<>> \in Seq(Transactions) /\ Len(<<>>) = 0
  OBVIOUS
<1>3. Replica(m)
  BY <1>1, <1>2 DEF Replica, EmptyBuffer, Buffers, Checkpoints
<1>4. OwnNumbering(m, c)
  BY <1>1, <1>2, SyncAssumption DEF OwnNumbering, EmptyBuffer, Committed
<1> QED
  BY <1>1, <1>3, <1>4 DEF EmptyBuffer

(* LocalConnectivity::register, second section: the datatype that is        *)
(* inserted has acknowledged nothing.                                       *)
LEMMA RegisterStep ==
    ASSUME ProtocolInv, NEW c \in Clients, Register(c)
    PROVE  StepOf(c)
<1>1. /\ Domains /\ ServerShape(srv)
      /\ Shape(c) /\ Phase(c) /\ Numbered(c) /\ Packed(c) /\ Acknowledged(c)
  BY OwnFacts
<1>2. /\ net[c].kind = "register"
      /\ inst' = [inst EXCEPT ![c] = @ + 1]
      /\ dt' = [dt EXCEPT ![c] = NewMutable(Origins, net[c].state)]
      /\ duid' = [duid EXCEPT ![c] = <<c, inst[c] + 1>>]
      /\ loop' = [loop EXCEPT ![c] = "Normal"]
      /\ net' = [net EXCEPT ![c] = Idle]
      /\ scenario' = scenario /\ checked' = checked
  BY DEF Register
<1>3. net[c].state \in States
  BY <1>1, <1>2 DEF Shape, Exchange, InitialStates, States
<1>4. /\ inst'[c] = inst[c] + 1 /\ dt'[c] = NewMutable(Origins, net[c].state)
      /\ loop'[c] = "Normal" /\ net'[c].kind = "idle"
  BY <1>1, <1>2 DEF Domains, Idle
<1>5. Frame(c)
  BY <1>1, <1>2 DEF Frame, Domains
<1>6. ServerShape(srv)' /\ Extends(c)
  <2>1. CASE srv.present /\ srv.gen = net[c].gen
    <3>1. srv' = [srv EXCEPT !.wired = @ \cup {c}]
      BY <2>1 DEF Register
    <3>2. srv'.wired = srv.wired \cup {c} /\ srv'.history = srv.history
          /\ srv'.cseqMap = srv.cseqMap /\ srv'.present = srv.present
      BY <1>1, <3>1 DEF ServerShape
    <3>3. ServerShape(srv)'
      <4> DEFINE w == srv.wired \cup {c}
      <4>1. srv' = [srv EXCEPT !.wired = w]
        BY <3>1
      <4>2. w \in SUBSET Clients
        BY <1>1 DEF ServerShape
      <4> HIDE DEF w
      <4> QED
        BY <1>1, <4>1, <4>2 DEF ServerShape
    <3>4. \A d \in Clients : srv.cseqMap[d] \in Nat
      BY <1>1 DEF ServerShape
    <3>5. Len(srv.history) \in Nat
      BY <1>1 DEF ServerShape
    <3> QED
      BY <3>2, <3>3, <3>4, <3>5 DEF Extends, Grows, Linked
  <2>2. CASE ~(srv.present /\ srv.gen = net[c].gen)
    <3>1. srv' = srv
      BY <2>2 DEF Register
    <3> QED
      BY <3>1, SameServer
  <2> QED
    BY <2>1, <2>2
<1>7. /\ Replica(dt'[c]) /\ OwnNumbering(dt'[c], c) /\ dt'[c].cp.sseq = 0 /\ dt'[c].cp.cseq = 0
  BY <1>3, <1>4, NewMutableFields
<1>8. inst[c] \in 0..MaxInst /\ inst[c] < MaxInst /\ MaxInst \in Nat
  BY <1>1, <1>2, SyncAssumption DEF Shape, Phase
<1>9. Shape(c)'
  BY <1>4, <1>7, <1>8 DEF Shape, Exchange
<1>10. Phase(c)'
  BY <1>4, <1>8 DEF Phase, Live
<1>11. Numbered(c)' /\ Packed(c)'
  BY <1>4, <1>7 DEF Numbered, Packed
<1>12. Acknowledged(c)'
  <2>1. Len(srv'.history) \in Nat /\ srv'.cseqMap[c] \in Nat
    BY <1>6 DEF ServerShape
  <2> QED
    BY <1>4, <1>7, <2>1 DEF Acknowledged, Reached
<1> QED
  BY <1>5, <1>6, <1>9, <1>10, <1>11, <1>12 DEF StepOf, ClientInv

(* Replica n has the committed transactions of m. *)
Keeps(m, n) ==
    /\ Len(m.buf.txs) <= Len(n.buf.txs)
    /\ \A i \in 1..Len(m.buf.txs) : n.buf.txs[i] = m.buf.txs[i]

(* A step of a user thread keeps the invariant if it keeps the checkpoint,  *)
(* the numbering and what was committed.                                    *)
LEMMA UserStep ==
    ASSUME ProtocolInv, NEW c \in Clients, Frame(c), srv' = srv,
           net'[c] = net[c], duid'[c] = duid[c], loop'[c] = loop[c], inst'[c] = inst[c],
           checked'[c] # {} => inst[c] >= 1,
           Replica(dt'[c]), dt'[c].cp = dt[c].cp,
           Live(c) => OwnNumbering(dt'[c], c) /\ Keeps(dt[c], dt'[c]),
           ~Live(c) => /\ dt'[c].state \in Gone
                       /\ dt'[c].pending # <<>> => dt'[c].rollback.state \in Gone
    PROVE  StepOf(c)
<1>1. /\ Domains /\ ServerShape(srv)
      /\ Shape(c) /\ Phase(c) /\ Numbered(c) /\ Packed(c) /\ Acknowledged(c)
  BY OwnFacts
<1>2. ServerShape(srv)' /\ Extends(c)
  BY SameServer
<1>3. Shape(c)'
  BY <1>1 DEF Shape
<1>4. Phase(c)'
  BY <1>1 DEF Phase, Live
<1>5. Numbered(c)'
  BY DEF Numbered, Live
<1>6. Packed(c)'
  <2> SUFFICES ASSUME net[c].kind = "push"
               PROVE  Unacknowledged(net[c].txs, dt'[c])
    BY <1>1 DEF Packed
  <2>1. Live(c) /\ Keeps(dt[c], dt'[c]) /\ Unacknowledged(net[c].txs, dt[c])
    BY <1>1 DEF Phase, Packed
  <2>2. /\ dt[c].buf.txs \in Seq(Transactions) /\ dt'[c].buf.txs \in Seq(Transactions)
        /\ dt[c].cp.cseq \in Nat /\ net[c].txs \in Seq(Transactions)
    BY <1>1 DEF Shape, Replica, Buffers, Checkpoints, Exchange
  <2>3. Len(dt[c].buf.txs) \in Nat /\ Len(dt'[c].buf.txs) \in Nat /\ Len(net[c].txs) \in Nat
    BY <2>2
  <2>4. ASSUME NEW j \in 1..Len(net[c].txs)
        PROVE  /\ dt'[c].cp.cseq + j <= Len(dt'[c].buf.txs)
               /\ net[c].txs[j] = dt'[c].buf.txs[dt'[c].cp.cseq + j]
    <3> DEFINE i == dt[c].cp.cseq + j
    <3>1. i <= Len(dt[c].buf.txs) /\ net[c].txs[j] = dt[c].buf.txs[i]
      BY <2>1 DEF Unacknowledged
    <3>3. j \in Nat /\ j >= 1 /\ dt[c].cp.cseq \in Nat
      BY <2>2, <2>3
    <3>4. i \in Nat /\ i >= 1
      BY <3>3
    <3> HIDE DEF i
    <3>5. i \in 1..Len(dt[c].buf.txs)
      BY <2>3, <3>1, <3>4
    <3>6. i <= Len(dt'[c].buf.txs) /\ dt'[c].buf.txs[i] = dt[c].buf.txs[i]
      BY <2>1, <2>3, <3>5 DEF Keeps
    <3> QED
      BY <3>1, <3>6 DEF i
  <2> QED
    BY <2>1, <2>4 DEF Unacknowledged
<1>7. Acknowledged(c)'
  BY <1>1 DEF Acknowledged, Reached, Linked
<1> QED
  BY <1>2, <1>3, <1>4, <1>5, <1>6, <1>7 DEF StepOf, ClientInv

(* An unchanged push buffer keeps its transactions. *)
LEMMA KeepsSame ==
    ASSUME NEW m, NEW n, Replica(m), n.buf = m.buf
    PROVE  Keeps(m, n)
BY DEF Keeps, Replica, Buffers

(* check_writable and check_subscribed only note what they saw. *)
LEMMA CheckStep ==
    ASSUME ProtocolInv, NEW c \in Clients, CheckWritable(c) \/ CheckSubscribed(c)
    PROVE  StepOf(c)
<1>1. /\ Domains /\ Shape(c) /\ Phase(c) /\ Numbered(c)
  BY OwnFacts
<1>2. PICK k : /\ Built(c)
      /\ inst' = inst /\ dt' = dt /\ duid' = duid /\ loop' = loop /\ scenario' = scenario
      /\ net' = net /\ srv' = srv
      /\ checked' = [checked EXCEPT ![c] = @ \cup {k}]
  BY DEF CheckWritable, CheckSubscribed
<1>3. Frame(c)
  BY <1>1, <1>2 DEF Frame, Domains
<1>4. inst[c] >= 1
  BY <1>1, <1>2, SyncAssumption DEF Built, Shape
<1>5. Keeps(dt[c], dt'[c]) /\ Replica(dt'[c])
  BY <1>1, <1>2, KeepsSame DEF Shape
<1> QED
  BY <1>1, <1>2, <1>3, <1>4, <1>5, UserStep DEF Numbered, Phase

(* execute_local_operation opens a transaction or adds to the open one. *)
LEMMA ExecuteOpStep ==
    ASSUME ProtocolInv, NEW c \in Clients, ExecuteOp(c)
    PROVE  StepOf(c)
<1> DEFINE m == dt[c]
           n == dt'[c]
           op == <<c, inst[c]>>
<1>1. /\ Domains /\ Shape(c) /\ Phase(c) /\ Numbered(c)
  BY OwnFacts
<1>2. /\ "write" \in checked[c] /\ dt' = [dt EXCEPT ![c] = ExecuteLocal(@, op)]
      /\ inst' = inst /\ duid' = duid /\ loop' = loop /\ scenario' = scenario
      /\ net' = net /\ srv' = srv /\ checked' = [checked EXCEPT ![c] = @ \ {"write"}]
  BY DEF ExecuteOp
<1>3. Frame(c)
  BY <1>1, <1>2 DEF Frame, Domains
<1>4. inst[c] \in 1..MaxInst /\ op \in Origins
  BY <1>1, <1>2, SyncAssumption DEF Phase, Shape, Origins
<1>5. n = ExecuteLocal(m, op)
  BY <1>1, <1>2 DEF Domains
<1>6. Replica(m)
  BY <1>1 DEF Shape
<1>7. /\ Replica(n)
      /\ n.buf = m.buf /\ n.cp = m.cp /\ n.state = m.state /\ n.pending # <<>>
      /\ m.pending = <<>> => /\ n.cseq = m.cseq + 1
                             /\ n.rollback = [cseq |-> m.cseq, state |-> m.state]
      /\ m.pending # <<>> => n.cseq = m.cseq /\ n.rollback = m.rollback
  <2> HIDE DEF m, n, op
  <2> QED
    BY <1>4, <1>5, <1>6, ExecuteLocalFields
<1>8. Keeps(m, n)
  <2> HIDE DEF m, n
  <2> QED
    BY <1>6, <1>7, KeepsSame
<1>9. Live(c) => OwnNumbering(n, c)
  <2> SUFFICES ASSUME OwnNumbering(m, c) PROVE OwnNumbering(n, c)
    BY <1>1 DEF Numbered
  <2> HIDE DEF m, n
  <2> QED
    BY <1>7 DEF OwnNumbering, Committed
<1>10. ~Live(c) => n.state \in Gone /\ n.rollback.state \in Gone
  BY <1>1, <1>7 DEF Phase
<1> QED
  BY <1>2, <1>3, <1>4, <1>7, <1>8, <1>9, <1>10, UserStep

(* end_transaction commits the next cseq or takes it back. *)
LEMMA EndTxStep ==
    ASSUME ProtocolInv, NEW c \in Clients, NEW ok \in BOOLEAN, EndTx(c, ok)
    PROVE  StepOf(c)
<1> DEFINE m == dt[c]
           n == dt'[c]
           tx == PendingTx(m, c)
<1>1. /\ Domains /\ Shape(c) /\ Phase(c) /\ Numbered(c)
  BY OwnFacts
<1>2. /\ m.pending # <<>> /\ dt' = [dt EXCEPT ![c] = EndTransaction(@, c, ok, MaxMem)]
      /\ inst' = inst /\ duid' = duid /\ loop' = loop /\ scenario' = scenario
      /\ net' = net /\ srv' = srv /\ checked' = checked
  BY DEF EndTx, clientVars
<1>3. Frame(c)
  BY <1>1, <1>2 DEF Frame, Domains
<1>4. n = EndTransaction(m, c, ok, MaxMem)
  BY <1>1, <1>2 DEF Domains
<1>5. Replica(m)
  BY <1>1 DEF Shape
<1>6. checked'[c] # {} => inst[c] >= 1
  BY <1>1, <1>2 DEF Phase
<1>7. \/ n = DoRollback(m)
      \/ /\ Replica(n)
         /\ n.cp = m.cp /\ n.state = m.state /\ n.cseq = m.cseq
         /\ n.pending = <<>> /\ n.rollback = m.rollback
         /\ tx \in Transactions /\ tx.cuid = c /\ tx.cseq = m.rollback.cseq + 1
         /\ n.buf.txs = Append(m.buf.txs, tx)
         /\ n.buf.first_cseq = IF m.buf.first_cseq = 0 THEN tx.cseq ELSE m.buf.first_cseq
         /\ n.buf.last_cseq = tx.cseq
         /\ n.buf.mem_size >= m.buf.mem_size + 1
         /\ n.buf.mem_size <= MaxMem
  <2>1. m.pending # <<>>
    BY <1>2
  <2> HIDE DEF m, n
  <2> QED
    BY <2>1, <1>4, <1>5, EndTransactionFields
<1>8. CASE n = DoRollback(m)
  <2>1. /\ Replica(n)
        /\ n.buf = m.buf /\ n.cp = m.cp /\ n.pending = <<>> /\ n.rollback = m.rollback
        /\ n.cseq = m.rollback.cseq /\ n.state = m.rollback.state
    <3>1. m.pending # <<>>
      BY <1>2
    <3> HIDE DEF m, n
    <3> QED
      BY <3>1, <1>5, <1>8, DoRollbackFields
  <2>2. Keeps(m, n)
    <3> HIDE DEF m, n
    <3> QED
      BY <1>5, <2>1, KeepsSame
  <2>3. Live(c) => OwnNumbering(n, c)
    <3> SUFFICES ASSUME OwnNumbering(m, c) PROVE OwnNumbering(n, c)
      BY <1>1 DEF Numbered
    <3>1. m.pending # <<>>
      BY <1>2
    <3> HIDE DEF m, n
    <3> QED
      BY <2>1, <3>1 DEF OwnNumbering, Committed
  <2>4. ~Live(c) => n.state \in Gone
    BY <1>1, <1>2, <2>1 DEF Phase
  <2> QED
    BY <1>2, <1>3, <1>6, <2>1, <2>2, <2>3, <2>4, UserStep
<1>9. CASE n # DoRollback(m)
  <2>1. /\ Replica(n)
        /\ n.cp = m.cp /\ n.state = m.state /\ n.cseq = m.cseq
        /\ n.pending = <<>> /\ n.rollback = m.rollback
        /\ tx \in Transactions /\ tx.cuid = c /\ tx.cseq = m.rollback.cseq + 1
        /\ n.buf.txs = Append(m.buf.txs, tx)
        /\ n.buf.first_cseq = IF m.buf.first_cseq = 0 THEN tx.cseq ELSE m.buf.first_cseq
        /\ n.buf.last_cseq = tx.cseq
        /\ n.buf.mem_size >= m.buf.mem_size + 1
        /\ n.buf.mem_size <= MaxMem
    BY <1>7, <1>9
  <2>2. m.pending # <<>>
    BY <1>2
  <2> HIDE DEF m, n, tx
  <2>3. /\ m.buf.txs \in Seq(Transactions) /\ Len(m.buf.txs) \in Nat
        /\ m.buf.mem_size \in Nat /\ n.buf.mem_size \in Nat /\ m.rollback.cseq \in Nat
    BY <1>5, <2>1 DEF Replica, Buffers
  <2>4. /\ Len(n.buf.txs) = Len(m.buf.txs) + 1
        /\ n.buf.txs[Len(m.buf.txs) + 1] = tx
        /\ \A i \in 1..Len(m.buf.txs) : n.buf.txs[i] = m.buf.txs[i]
        /\ n.buf.txs # <<>>
    <3> DEFINE old == m.buf.txs
               new == n.buf.txs
    <3>1. new = Append(old, tx) /\ old \in Seq(Transactions) /\ tx \in Transactions
      BY <2>1, <2>3
    <3> HIDE DEF old, new
    <3>2. /\ Len(new) = Len(old) + 1 /\ new[Len(old) + 1] = tx
          /\ \A i \in 1..Len(old) : new[i] = old[i]
      BY <3>1
    <3>3. new # <<>>
      BY <3>1
    <3> QED
      BY <3>2, <3>3 DEF old, new
  <2>5. Keeps(m, n)
    BY <2>3, <2>4 DEF Keeps
  <2>6. ASSUME OwnNumbering(m, c) PROVE OwnNumbering(n, c)
    <3>1. m.rollback.cseq = Len(m.buf.txs) /\ m.cseq = Len(m.buf.txs) + 1
      BY <2>2, <2>6 DEF OwnNumbering, Committed
    <3>2. ASSUME NEW i \in 1..Len(n.buf.txs)
          PROVE  n.buf.txs[i].cseq = i /\ n.buf.txs[i].cuid = c
      <4>1. CASE i \in 1..Len(m.buf.txs)
        BY <2>4, <2>6, <4>1 DEF OwnNumbering
      <4>2. CASE i = Len(m.buf.txs) + 1
        BY <2>1, <2>4, <3>1, <4>2
      <4>3. i \in 1..(Len(m.buf.txs) + 1)
        BY <2>4
      <4>4. i \in 1..Len(m.buf.txs) \/ i = Len(m.buf.txs) + 1
        BY <2>3, <4>3
      <4> QED
        BY <4>1, <4>2, <4>4
    <3>3. n.buf.first_cseq = 1
      <4>1. CASE m.buf.txs = <<>>
        <5>1. Len(m.buf.txs) = 0
          BY <4>1
        <5> QED
          BY <2>1, <2>6, <3>1, <4>1, <5>1 DEF OwnNumbering
      <4>2. CASE m.buf.txs # <<>>
        BY <2>1, <2>6, <4>2 DEF OwnNumbering
      <4> QED
        BY <4>1, <4>2
    <3>4. n.buf.last_cseq = Len(n.buf.txs) /\ Committed(n) = Len(n.buf.txs)
      BY <2>1, <2>4, <3>1 DEF Committed
    <3>5. Len(n.buf.txs) <= n.buf.mem_size
      BY <2>1, <2>3, <2>4, <2>6 DEF OwnNumbering
    <3> QED
      BY <2>1, <2>4, <3>2, <3>3, <3>4, <3>5 DEF OwnNumbering
  <2>7. Live(c) => OwnNumbering(n, c)
    BY <1>1, <2>6 DEF Numbered, m
  <2>8. ~Live(c) => n.state \in Gone
    BY <1>1, <2>1 DEF Phase, m
  <2> QED
    BY <1>2, <1>3, <1>6, <2>1, <2>5, <2>7, <2>8, UserStep DEF m, n
<1> QED
  BY <1>8, <1>9

(* set_state(Unsubscribing), even of a datatype that was disabled           *)
(* meanwhile.                                                               *)
LEMMA SetUnsubscribingStep ==
    ASSUME ProtocolInv, NEW c \in Clients, SetUnsubscribing(c)
    PROVE  StepOf(c)
<1> DEFINE m == dt[c]
           n == dt'[c]
<1>1. /\ Domains /\ Shape(c) /\ Phase(c) /\ Numbered(c)
  BY OwnFacts
<1>2. /\ "unsub" \in checked[c] /\ dt' = [dt EXCEPT ![c].state = "Unsubscribing"]
      /\ inst' = inst /\ duid' = duid /\ loop' = loop /\ scenario' = scenario
      /\ net' = net /\ srv' = srv /\ checked' = [checked EXCEPT ![c] = @ \ {"unsub"}]
  BY DEF SetUnsubscribing
<1>3. Frame(c)
  BY <1>1, <1>2 DEF Frame, Domains
<1>4. inst[c] >= 1
  BY <1>1, <1>2 DEF Phase
<1>5. n = [m EXCEPT !.state = "Unsubscribing"]
  BY <1>1, <1>2 DEF Domains
<1>6. Replica(m)
  BY <1>1 DEF Shape
<1>7. /\ Replica(n) /\ n.buf = m.buf /\ n.cp = m.cp /\ n.state = "Unsubscribing"
      /\ n.pending = m.pending /\ n.rollback = m.rollback /\ n.cseq = m.cseq
  <2> HIDE DEF m, n
  <2> QED
    BY <1>5, <1>6 DEF Replica, States
<1>8. Keeps(m, n)
  <2> HIDE DEF m, n
  <2> QED
    BY <1>6, <1>7, KeepsSame
<1>9. Live(c) => OwnNumbering(n, c)
  <2> SUFFICES ASSUME OwnNumbering(m, c) PROVE OwnNumbering(n, c)
    BY <1>1 DEF Numbered
  <2> HIDE DEF m, n
  <2> QED
    BY <1>7 DEF OwnNumbering, Committed
<1>10. ~Live(c) => /\ n.state \in Gone
                   /\ n.pending # <<>> => n.rollback.state \in Gone
  BY <1>1, <1>7 DEF Phase, Gone
<1> QED
  BY <1>2, <1>3, <1>4, <1>7, <1>8, <1>9, <1>10, UserStep

(* A server that has grown has still got as far as the client's checkpoint. *)
LEMMA ReachedLater ==
    ASSUME ProtocolInv, NEW c \in Clients, ServerShape(srv)', Grows(c), Linked(c)',
           dt'[c].cp = dt[c].cp
    PROVE  Reached(c, dt[c].cp)'
<1>1. Shape(c) /\ Acknowledged(c) /\ ServerShape(srv)
  BY OwnFacts
<1>2. /\ Linked(c) /\ Len(srv.history) <= Len(srv'.history)
      /\ srv.cseqMap[c] <= srv'.cseqMap[c]
  BY DEF Grows
<1>3. dt[c].cp.sseq <= Len(srv.history) /\ dt[c].cp.cseq <= srv.cseqMap[c]
  BY <1>1, <1>2 DEF Acknowledged, Reached
<1>4. dt[c].cp.sseq \in Nat /\ dt[c].cp.cseq \in Nat
  BY <1>1 DEF Shape, Replica, Checkpoints
<1>5. /\ Len(srv.history) \in Nat /\ Len(srv'.history) \in Nat
      /\ srv.cseqMap[c] \in Nat /\ srv'.cseqMap[c] \in Nat
  BY <1>1 DEF ServerShape
<1> QED
  BY <1>2, <1>3, <1>4, <1>5 DEF Reached

(* After the step the server has got as far as checkpoint k of client c. *)
Covers(c, k) == k.sseq <= Len(srv'.history) /\ k.cseq <= srv'.cseqMap[c]

(* A response does not acknowledge what the server does not have. *)
Answers(c, r) ==
    \/ r.kind = "pulled" /\ Response(r) /\ (Linked(c)' => Covers(c, r.cp))
    \/ /\ r.kind = "collect" /\ c \notin srv'.wired
       /\ r.reply.kind = "pulled" /\ Response(r.reply) /\ r.reply.state = "Disabled"

(* A server that only grows and answers within what it has keeps the        *)
(* invariant.                                                               *)
LEMMA ReplyStep ==
    ASSUME ProtocolInv, NEW c \in Clients, net[c].kind \in {"push", "collect"},
           NEW s, NEW r, Reply(c, s, r),
           ServerShape(s), \A d \in Clients : Grows(d),
           Answers(c, r)
    PROVE  StepOf(c)
<1>1. /\ Domains /\ ServerShape(srv)
      /\ Shape(c) /\ Phase(c) /\ Numbered(c) /\ Packed(c) /\ Acknowledged(c)
  BY OwnFacts
<1>2. /\ srv' = s /\ net' = [net EXCEPT ![c] = r]
      /\ inst' = inst /\ dt' = dt /\ duid' = duid /\ loop' = loop /\ scenario' = scenario
      /\ checked' = checked
  BY DEF Reply, clientVars
<1>3. Frame(c)
  BY <1>1, <1>2 DEF Frame, Domains
<1>4. net'[c] = r
  BY <1>1, <1>2 DEF Domains
<1>5. ServerShape(srv)' /\ Extends(c)
  BY <1>2 DEF Extends
<1>6. Shape(c)'
  BY <1>1, <1>2, <1>4 DEF Shape, Exchange, Answers
<1>7. Phase(c)'
  <2>1. inst[c] >= 1 /\ Live(c)
    BY <1>1 DEF Phase
  <2> QED
    BY <1>2, <1>4, <2>1 DEF Phase, Live, Answers
<1>8. Numbered(c)'
  BY <1>1, <1>2 DEF Numbered, Live
<1>9. Packed(c)'
  BY <1>4 DEF Packed, Answers
<1>10. Acknowledged(c)'
  <2> SUFFICES ASSUME Linked(c)'
               PROVE /\ Reached(c, dt[c].cp)'
                     /\ r.kind = "pulled" => Covers(c, r.cp)
    BY <1>4 DEF Acknowledged, Reached, Covers
  <2>1. Reached(c, dt[c].cp)'
    BY <1>2, <1>5, ReachedLater
  <2> QED
    BY <2>1 DEF Answers
<1> QED
  BY <1>3, <1>5, <1>6, <1>7, <1>8, <1>9, <1>10 DEF StepOf, ClientInv

(* An unchanged server grows, trivially, for everybody. *)
LEMMA SameGrows ==
    ASSUME ProtocolInv, NEW c \in Clients, srv' = srv
    PROVE  /\ ServerShape(srv) /\ \A d \in Clients : Grows(d)
BY DEF ProtocolInv, ServerShape, Grows, Linked

(* A rejection and every other stub acknowledges nothing. *)
LEMMA StubAnswers ==
    ASSUME ServerShape(srv)', NEW c \in Clients, NEW r,
           r.kind = "pulled", r.state \in States, r.cp = [sseq |-> 0, cseq |-> 0]
    PROVE  Answers(c, r) /\ Response(r)
<1>1. Len(srv'.history) \in Nat /\ srv'.cseqMap[c] \in Nat
  BY DEF ServerShape
<1>2. Covers(c, r.cp)
  BY <1>1 DEF Covers
<1> QED
  BY <1>2 DEF Answers, Response, Checkpoints

(* What a rejection says. *)
LEMMA RejectFields ==
    ASSUME NEW p, NEW e
    PROVE  /\ Reject(p, e).kind = "pulled" /\ Reject(p, e).state = "Disabled"
           /\ Reject(p, e).cp = [sseq |-> 0, cseq |-> 0] /\ Reject(p, e).error = e
           /\ Reject(p, e).snapshot = <<>> /\ Reject(p, e).duid = p.duid
BY DEF Reject, Stub

(* A pack under way holds the consecutive transactions of its client from   *)
(* the one after the checkpoint on.                                         *)
LEMMA PackFacts ==
    ASSUME ProtocolInv, NEW c \in Clients, net[c].kind = "push", NEW txs, txs = net[c].txs
    PROVE  /\ txs \in Seq(Transactions) /\ Len(txs) <= MaxMem /\ dt[c].cp.cseq \in Nat
           /\ \A j \in 1..Len(txs) : txs[j].cuid = c
           /\ Consecutive(txs, dt[c].cp.cseq)
           /\ Live(c) /\ OwnNumbering(dt[c], c) /\ Unacknowledged(txs, dt[c])
           /\ net[c].cuid = c /\ net[c].state \in States /\ inst[c] >= 1
           /\ net[c].duid = duid[c]
<1>1. Shape(c) /\ Phase(c) /\ Numbered(c) /\ Packed(c)
  BY OwnFacts
<1>2. /\ Live(c) /\ OwnNumbering(dt[c], c) /\ Unacknowledged(txs, dt[c])
      /\ net[c].cuid = c /\ net[c].state \in States /\ inst[c] >= 1
      /\ net[c].duid = duid[c] /\ txs \in Seq(Transactions)
  BY <1>1 DEF Phase, Numbered, Packed, Shape, Exchange
<1> DEFINE k == dt[c].cp.cseq
           all == dt[c].buf.txs
<1>3. k \in Nat /\ all \in Seq(Transactions) /\ Len(all) \in Nat /\ Len(txs) \in Nat
  <2>1. Replica(dt[c])
    BY <1>1 DEF Shape
  <2>2. k \in Nat /\ all \in Seq(Transactions)
    BY <2>1 DEF Replica, Checkpoints, Buffers
  <2> HIDE DEF all
  <2> QED
    BY <1>2, <2>2
<1>4. /\ Len(txs) <= MaxMem
      /\ \A j \in 1..Len(txs) : k + j <= Len(all) /\ txs[j] = all[k + j]
  BY <1>2 DEF Unacknowledged
<1>5. \A i \in 1..Len(all) : all[i].cseq = i /\ all[i].cuid = c
  BY <1>2 DEF OwnNumbering
<1> HIDE DEF k, all
<1>6. ASSUME NEW j \in 1..Len(txs) PROVE txs[j].cseq = k + j /\ txs[j].cuid = c
  <2>1. k + j \in 1..Len(all)
    BY <1>3, <1>4
  <2> QED
    BY <1>4, <1>5, <2>1
<1>7. Consecutive(txs, k)
  BY <1>6 DEF Consecutive
<1> QED
  BY <1>2, <1>3, <1>4, <1>6, <1>7 DEF k

(* Client c's next transactions, as its push buffer holds them, are added   *)
(* to the server's, and its cseq moves on by as many.                       *)
Continues(c, map, new) ==
    /\ map = [srv.cseqMap EXCEPT ![c] = @ + Len(new)]
    /\ \A i \in 1..Len(new) :
          /\ new[i].cuid = c /\ new[i].cseq = srv.cseqMap[c] + i
          /\ srv.cseqMap[c] + i <= Len(dt[c].buf.txs)
          /\ new[i] = dt[c].buf.txs[srv.cseqMap[c] + i]

(* Consecutive transactions of client c's push buffer are added to the      *)
(* server's, from a cseq on that it has not counted, and the last of them   *)
(* is its new cseq.                                                         *)
Follows(c, map, new) ==
    \E from \in Nat :
        /\ srv.cseqMap[c] <= from
        /\ \A i \in 1..Len(new) :
              /\ from + i <= Len(dt[c].buf.txs)
              /\ new[i] = dt[c].buf.txs[from + i]
              /\ new[i].cseq = from + i /\ new[i].cuid = c
        /\ map[c] = IF Len(new) = 0 THEN srv.cseqMap[c] ELSE from + Len(new)

(* The history is extended by part of a pack; if the server is not behind   *)
(* the client's checkpoint, by the client's next transactions.              *)
Appends(c, history, map) ==
    \E new \in Seq(Transactions) :
        /\ history = srv.history \o new
        /\ Len(new) <= MaxMem
        /\ Follows(c, map, new)
        /\ dt[c].cp.cseq <= srv.cseqMap[c] => Continues(c, map, new)

(* The client's next transactions follow what the server has. *)
LEMMA ContinuesFollows ==
    ASSUME ServerShape(srv), NEW c \in Clients, NEW map, NEW new \in Seq(Transactions),
           Continues(c, map, new)
    PROVE  Follows(c, map, new)
<1> DEFINE from == srv.cseqMap[c]
           all == dt[c].buf.txs
<1>1. from \in Nat /\ srv.cseqMap \in [Clients -> Nat] /\ Len(new) \in Nat
  BY DEF ServerShape
<1>2. \A i \in 1..Len(new) : /\ from + i <= Len(all) /\ new[i] = all[from + i]
                             /\ new[i].cseq = from + i /\ new[i].cuid = c
  BY DEF Continues
<1>3. map[c] = from + Len(new)
  BY <1>1 DEF Continues
<1>4. from <= from /\ map[c] = IF Len(new) = 0 THEN from ELSE from + Len(new)
  BY <1>1, <1>3
<1> HIDE DEF from
<1> QED
  BY <1>1, <1>2, <1>4 DEF Follows, from

(* push_transactions, for a pack under way: transactions the server knows   *)
(* are skipped, the others stored in order.                                 *)
LEMMA StoreEffect ==
    ASSUME ProtocolInv, NEW c \in Clients, net[c].kind = "push",
           NEW t, ServerShape(t), t.history = srv.history, t.cseqMap = srv.cseqMap,
           NEW s, s = PushTransactions(t, net[c])
    PROVE  /\ ServerShape(s) /\ SameEntry(t, s)
           /\ \A d \in Clients \ {c} : s.cseqMap[d] = srv.cseqMap[d]
           /\ Len(srv.history) <= Len(s.history)
           /\ dt[c].cp.cseq <= srv.cseqMap[c] => srv.cseqMap[c] <= s.cseqMap[c]
           /\ Appends(c, s.history, s.cseqMap)
<1> DEFINE p == net[c]
           txs == net[c].txs
           k == dt[c].cp.cseq
           known == srv.cseqMap[c]
           all == dt[c].buf.txs
<1>1. /\ txs \in Seq(Transactions) /\ Len(txs) <= MaxMem /\ k \in Nat
      /\ \A j \in 1..Len(txs) : txs[j].cuid = c
      /\ Consecutive(txs, k) /\ Unacknowledged(txs, dt[c]) /\ p.cuid = c
  BY PackFacts
<1>2. /\ ServerShape(s) /\ SameEntry(t, s)
      /\ \A d \in Clients \ {c} : s.cseqMap[d] = t.cseqMap[d]
      /\ \E new \in Seq(Transactions) : Stores(t, s, c, txs, k, new)
  <2>1. p.txs = txs /\ s = PushTransactions(t, p)
    OBVIOUS
  <2> HIDE DEF p, txs, k
  <2> QED
    BY <1>1, <2>1, PushEffect
<1>3. PICK new \in Seq(Transactions) : Stores(t, s, c, txs, k, new)
  BY <1>2
<1>10. /\ s.history = srv.history \o new
       /\ Len(new) <= Len(txs)
       /\ k <= known =>
            /\ s.cseqMap = [srv.cseqMap EXCEPT ![c] = @ + Len(new)]
            /\ \A i \in 1..Len(new) :
                 /\ known - k + i \in 1..Len(txs)
                 /\ new[i] = txs[known - k + i]
                 /\ new[i].cseq = known + i
       /\ known < k =>
            /\ new = txs
            /\ s.cseqMap = IF new = <<>> THEN srv.cseqMap
                           ELSE [srv.cseqMap EXCEPT ![c] = new[Len(new)].cseq]
  <2> HIDE DEF k, txs
  <2> QED
    BY <1>3 DEF Stores
<1>4. /\ srv.history \in Seq(Transactions) /\ known \in Nat
      /\ srv.cseqMap \in [Clients -> Nat] /\ MaxMem \in Nat
  BY SyncAssumption DEF ServerShape
<1>5. Len(s.history) = Len(srv.history) + Len(new) /\ Len(new) \in Nat
  BY <1>10, <1>4
<1>6. Len(new) <= MaxMem
  BY <1>1, <1>10, <1>4, <1>5
<1>7. ASSUME k <= known PROVE Continues(c, s.cseqMap, new) /\ known <= s.cseqMap[c]
  <2>1. ASSUME NEW i \in 1..Len(new)
        PROVE  /\ new[i].cuid = c /\ new[i].cseq = known + i
               /\ known + i <= Len(all) /\ new[i] = all[known + i]
    <3> DEFINE j == known - k + i
    <3>1. j \in 1..Len(txs) /\ new[i] = txs[j] /\ new[i].cseq = known + i
      BY <1>10, <1>7
    <3>2. k + j <= Len(all) /\ txs[j] = all[k + j]
      <4> HIDE DEF j
      <4> QED
        BY <1>1, <3>1 DEF Unacknowledged
    <3>3. k + j = known + i
      BY <1>1, <1>4
    <3>4. txs[j].cuid = c
      <4> HIDE DEF j
      <4> QED
        BY <1>1, <3>1
    <3> HIDE DEF j
    <3> QED
      BY <3>1, <3>2, <3>3, <3>4
  <2>2. known <= s.cseqMap[c]
    BY <1>10, <1>4, <1>5, <1>7
  <2> QED
    BY <1>10, <1>7, <2>1, <2>2 DEF Continues
<1>8. Len(srv.history) <= Len(s.history)
  BY <1>4, <1>5
<1>11. ASSUME known < k PROVE Follows(c, s.cseqMap, new)
  <2>1. /\ new = txs
        /\ s.cseqMap = IF new = <<>> THEN srv.cseqMap
                       ELSE [srv.cseqMap EXCEPT ![c] = new[Len(new)].cseq]
    BY <1>10, <1>11
  <2>2. \A i \in 1..Len(new) : /\ k + i <= Len(all) /\ new[i] = all[k + i]
                               /\ new[i].cseq = k + i /\ new[i].cuid = c
    BY <1>1, <2>1 DEF Unacknowledged, Consecutive
  <2>3. s.cseqMap[c] = IF Len(new) = 0 THEN known ELSE k + Len(new)
    <3>1. CASE new = <<>>
      BY <2>1, <3>1
    <3>2. CASE new # <<>>
      <4>1. Len(new) \in 1..Len(new) /\ Len(new) # 0
        BY <1>5, <3>2
      <4>2. new[Len(new)].cseq = k + Len(new)
        BY <2>2, <4>1
      <4> QED
        BY <1>4, <2>1, <3>2, <4>1, <4>2
    <3> QED
      BY <3>1, <3>2
  <2>4. k \in Nat /\ known <= k
    BY <1>1, <1>4, <1>11
  <2> HIDE DEF k, known, txs
  <2> QED
    BY <2>2, <2>3, <2>4 DEF Follows, known
<1>12. Follows(c, s.cseqMap, new)
  <2>1. k <= known \/ known < k
    BY <1>1, <1>4
  <2>2. CASE k <= known
    <3>1. Continues(c, s.cseqMap, new)
      BY <1>7, <2>2
    <3>2. ServerShape(srv)
      BY OwnFacts
    <3> QED
      BY <3>1, <3>2, ContinuesFollows
  <2> QED
    BY <1>11, <2>1, <2>2
<1> HIDE DEF k, known
<1>9. Appends(c, s.history, s.cseqMap)
  BY <1>10, <1>6, <1>7, <1>12 DEF Appends, k, known
<1> QED
  BY <1>2, <1>7, <1>8, <1>9 DEF k, known

(* A response that acknowledges all the server has of the client. *)
LEMMA FullAnswer ==
    ASSUME NEW c \in Clients, ServerShape(srv)', NEW r, r.kind = "pulled", r.state \in States,
           r.cp = [sseq |-> Len(srv'.history), cseq |-> srv'.cseqMap[c]]
    PROVE  Answers(c, r) /\ Response(r)
<1>1. Len(srv'.history) \in Nat /\ srv'.cseqMap[c] \in Nat
  BY DEF ServerShape
<1> QED
  BY <1>1 DEF Answers, Response, Covers, Checkpoints

(* What process_client_push answers. *)
LEMMA ClientPushFields ==
    ASSUME NEW p, NEW s, NEW success, NEW r, r = ClientPush(p, s, success)
    PROVE  /\ r.kind = "pulled" /\ r.snapshot = <<>> /\ r.duid = p.duid
           /\ ReadonlyPush(p) => /\ r.cp = [sseq |-> 0, cseq |-> 0] /\ r.state = "Disabled"
                                 /\ r.error = "ReadonlyViolation"
           /\ ~ReadonlyPush(p) =>
                /\ r.cp = [sseq |-> Len(s.history), cseq |-> s.cseqMap[p.cuid]]
                /\ r.state = success /\ r.error = "none"
<1>1. CASE ReadonlyPush(p)
  <2>1. r = Reject(p, "ReadonlyViolation")
    BY <1>1 DEF ClientPush
  <2> QED
    BY <1>1, <2>1, RejectFields
<1>2. CASE ~ReadonlyPush(p)
  <2> DEFINE txs == PullTransactions(s, p.cuid, p.sseq)
             k == [sseq |-> Len(s.history), cseq |-> s.cseqMap[p.cuid]]
  <2>1. r = [Stub(p) EXCEPT !.state = success, !.cp = k, !.txs = txs]
    BY <1>2 DEF ClientPush
  <2> HIDE DEF k, txs
  <2>2. /\ r.kind = "pulled" /\ r.snapshot = <<>> /\ r.duid = p.duid /\ r.cp = k
        /\ r.state = success /\ r.error = "none"
    BY <2>1 DEF Stub
  <2> QED
    BY <1>2, <2>2 DEF k
<1> QED
  BY <1>1, <1>2

(* process_client_push answers with the state it is asked for and without   *)
(* an error, or Disabled and with one.                                      *)
LEMMA SuccessOrRefusal ==
    ASSUME NEW p, NEW s, NEW st, NEW r, r = ClientPush(p, s, st)
    PROVE  /\ r.kind = "pulled" /\ r.snapshot = <<>> /\ r.duid = p.duid
           /\ \/ r.state = "Disabled" /\ r.error = "ReadonlyViolation"
              \/ r.state = st /\ r.error = "none"
<1>1. /\ r.kind = "pulled" /\ r.snapshot = <<>> /\ r.duid = p.duid
      /\ ReadonlyPush(p) => /\ r.cp = [sseq |-> 0, cseq |-> 0] /\ r.state = "Disabled"
                            /\ r.error = "ReadonlyViolation"
      /\ ~ReadonlyPush(p) =>
           /\ r.cp = [sseq |-> Len(s.history), cseq |-> s.cseqMap[p.cuid]]
           /\ r.state = st /\ r.error = "none"
  BY ClientPushFields
<1> QED
  BY <1>1

(* process_client_push acknowledges what it has stored. *)
LEMMA ClientPushAnswers ==
    ASSUME ProtocolInv, NEW c \in Clients, net[c].kind = "push", ServerShape(srv)',
           NEW s, s = AfterPush(net[c]), srv'.history = s.history, srv'.cseqMap = s.cseqMap,
           NEW success \in States, NEW r, r = ClientPush(net[c], s, success)
    PROVE  Answers(c, r) /\ r.kind = "pulled" /\ Response(r) /\ r.state \in {success, "Disabled"}
<1>1. net[c].cuid = c
  BY PackFacts
<1>2. /\ r.kind = "pulled"
      /\ ReadonlyPush(net[c]) => /\ r.cp = [sseq |-> 0, cseq |-> 0] /\ r.state = "Disabled"
      /\ ~ReadonlyPush(net[c]) =>
                /\ r.cp = [sseq |-> Len(srv'.history), cseq |-> srv'.cseqMap[c]]
                /\ r.state = success
  <2>1. /\ r.kind = "pulled"
        /\ ReadonlyPush(net[c]) => /\ r.cp = [sseq |-> 0, cseq |-> 0] /\ r.state = "Disabled"
        /\ ~ReadonlyPush(net[c]) =>
                /\ r.cp = [sseq |-> Len(s.history), cseq |-> s.cseqMap[net[c].cuid]]
                /\ r.state = success
    <3> DEFINE p == net[c]
    <3>1. r = ClientPush(p, s, success)
      OBVIOUS
    <3> HIDE DEF p
    <3>2. /\ r.kind = "pulled"
          /\ ReadonlyPush(p) => /\ r.cp = [sseq |-> 0, cseq |-> 0] /\ r.state = "Disabled"
          /\ ~ReadonlyPush(p) =>
                /\ r.cp = [sseq |-> Len(s.history), cseq |-> s.cseqMap[p.cuid]]
                /\ r.state = success
      BY <3>1, ClientPushFields
    <3> QED
      BY <3>2 DEF p
  <2> QED
    BY <1>1, <2>1
<1>3. CASE ReadonlyPush(net[c])
  BY <1>2, <1>3, StubAnswers DEF States
<1>4. CASE ~ReadonlyPush(net[c])
  BY <1>2, <1>4, FullAnswer
<1> QED
  BY <1>3, <1>4

(* The states in which a client may create the datatype of the key. *)
Births == {"Creating", "SubscribingOrCreating"}

(* The server stores what is new in the pack of client c. *)
StoresPack(c) ==
    /\ srv.present /\ ServerShape(srv)' /\ srv'.present /\ srv'.gen = srv.gen
    /\ \/ srv'.wired = srv.wired
       \/ srv'.wired = srv.wired \ {c} /\ net[c].state = "Unsubscribing"
    /\ \/ c \in srv.wired /\ net[c].state \in {"Subscribed", "Unsubscribing"}
          /\ srv'.created = srv.created /\ srv'.duid = srv.duid
       \/ net[c].state \in Births /\ srv'.created /\ srv'.duid = duid[c]
          /\ (srv.created => srv.duid = duid[c])
    /\ \A d \in Clients \ {c} : srv'.cseqMap[d] = srv.cseqMap[d]
    /\ Appends(c, srv'.history, srv'.cseqMap)

(* What a response says of the exchange it answers. *)
Replies(c, r) ==
    \/ /\ r.kind = "collect" /\ net[c].state = "Unsubscribing"
       /\ r.reply.error # "ServerInternalError"
    \/ /\ r.kind = "pulled" /\ r.error # "none"
       /\ \/ r.state = "Disabled" /\ r.error # "ServerInternalError"
          \/ r.state = net[c].state /\ r.state \in {"Subscribing", "SubscribingOrCreating"}
    \/ /\ r.kind = "pulled" /\ r.error = "none"
       /\ r.state = "Disabled" /\ net[c].state = "Unsubscribing"
    \/ /\ r.kind = "pulled" /\ r.error = "none" /\ r.state = "Subscribed"
       /\ r.snapshot = <<>> /\ r.duid = duid[c]
       /\ \/ net[c].state = "Subscribed" /\ c \in srv.wired
          \/ net[c].state \in Births /\ srv'.created /\ srv'.duid = duid[c]
    \/ /\ r.kind = "pulled" /\ r.error = "none" /\ r.state = "Subscribed"
       /\ r.snapshot # <<>> /\ r.duid = srv.duid /\ srv.created /\ srv' = srv
       /\ net[c].state \in {"Subscribing", "SubscribingOrCreating"}

(* A push is answered, and what is new in it stored or nothing changed. *)
ServerEffect(c) ==
    /\ net[c].kind = "push"
    /\ srv' = srv \/ StoresPack(c)
    /\ \E r : Reply(c, srv', r) /\ Replies(c, r) /\ Answers(c, r)

(* A rejection changes nothing. *)
LEMMA RejectEffect ==
    ASSUME ProtocolInv, NEW c \in Clients, net[c].kind = "push", NEW e, e # "none",
           e # "ServerInternalError", Reply(c, srv, Reject(net[c], e))
    PROVE  ServerEffect(c)
<1> DEFINE r == Reject(net[c], e)
<1>1. srv' = srv /\ Reply(c, srv', r)
  BY DEF Reply
<1>2. Replies(c, r)
  BY RejectFields DEF Replies
<1>3. ServerShape(srv)'
  BY <1>1, OwnFacts
<1>4. r.kind = "pulled" /\ r.state = "Disabled" /\ r.cp = [sseq |-> 0, cseq |-> 0]
  BY RejectFields
<1> HIDE DEF r
<1>5. Answers(c, r)
  BY <1>3, <1>4, StubAnswers DEF States
<1> QED
  BY <1>1, <1>2, <1>5 DEF ServerEffect

(* process_creating stores the pack of the client that creates the          *)
(* datatype, or of its retry, and refuses everybody else.                   *)
LEMMA CreatingEffect ==
    ASSUME ProtocolInv, NEW c \in Clients, ServerCreating(c)
    PROVE  ServerEffect(c)
<1> DEFINE p == net[c]
           t == [srv EXCEPT !.created = TRUE, !.creator = p.cuid, !.duid = p.duid]
           s == Created(p)
           r == [Stub(p) EXCEPT !.state = "Subscribed",
                    !.cp = [sseq |-> Len(s.history), cseq |-> s.cseqMap[c]]]
<1>1. net[c].kind = "push" /\ net[c].state \in Births /\ srv.present
  BY DEF ServerCreating, Pushed, Births
<1>2. ServerShape(srv) /\ p.duid = duid[c]
  BY <1>1, OwnFacts, PackFacts
<1>3. \/ Reply(c, srv, Reject(p, "CreateFailed"))
      \/ Reply(c, srv, Reject(p, "ReadonlyViolation"))
      \/ Reply(c, s, r) /\ (srv.created => srv.duid = p.duid)
  BY DEF ServerCreating
<1>4. CASE Reply(c, srv, Reject(p, "CreateFailed"))
  BY <1>1, <1>4, RejectEffect
<1>5. CASE Reply(c, srv, Reject(p, "ReadonlyViolation"))
  BY <1>1, <1>5, RejectEffect
<1>6. CASE Reply(c, s, r) /\ (srv.created => srv.duid = p.duid)
  <2>1. /\ ServerShape(t) /\ t.history = srv.history /\ t.cseqMap = srv.cseqMap
        /\ t.present = srv.present /\ t.wired = srv.wired /\ t.gen = srv.gen
        /\ t.created /\ t.duid = p.duid
    <3> DEFINE pc == p.cuid
               pd == p.duid
    <3>1. t = [srv EXCEPT !.created = TRUE, !.creator = pc, !.duid = pd] /\ pd = p.duid
      OBVIOUS
    <3> HIDE DEF t, pc, pd
    <3> QED
      BY <1>2, <3>1 DEF ServerShape
  <2>2. s = PushTransactions(t, net[c])
    BY DEF Created
  <2>3. srv' = s
    BY <1>6 DEF Reply
  <2>4. /\ r.kind = "pulled" /\ r.state = "Subscribed" /\ r.error = "none"
        /\ r.snapshot = <<>> /\ r.duid = p.duid
        /\ r.cp = [sseq |-> Len(s.history), cseq |-> s.cseqMap[c]]
    BY DEF Stub
  <2> HIDE DEF s, r, t
  <2>5. /\ ServerShape(s) /\ SameEntry(t, s)
        /\ \A d \in Clients \ {c} : s.cseqMap[d] = srv.cseqMap[d]
        /\ Appends(c, s.history, s.cseqMap)
    BY <1>1, <2>1, <2>2, StoreEffect
  <2>6. StoresPack(c)
    BY <1>1, <1>2, <1>6, <2>1, <2>3, <2>5 DEF StoresPack, SameEntry
  <2>7. Replies(c, r)
    BY <1>1, <1>2, <2>1, <2>3, <2>4, <2>5 DEF Replies, SameEntry
  <2>8. Answers(c, r)
    BY <2>3, <2>4, <2>5, FullAnswer DEF States
  <2> QED
    BY <1>1, <1>6, <2>3, <2>6, <2>7, <2>8 DEF ServerEffect
<1> QED
  BY <1>3, <1>4, <1>5, <1>6

(* process_client_push keeps the entry. *)
LEMMA AfterPushShape ==
    ASSUME ProtocolInv, NEW c \in Clients, net[c].kind = "push"
    PROVE  ServerShape(AfterPush(net[c])) /\ SameEntry(srv, AfterPush(net[c]))
<1> DEFINE s == AfterPush(net[c])
<1>1. ServerShape(srv)
  BY OwnFacts
<1>2. CASE ReadonlyPush(net[c])
  BY <1>1, <1>2 DEF AfterPush, SameEntry
<1>3. CASE ~ReadonlyPush(net[c])
  <2>1. s = PushTransactions(srv, net[c])
    BY <1>3 DEF AfterPush
  <2> HIDE DEF s
  <2>2. ServerShape(s) /\ SameEntry(srv, s)
    BY <1>1, <2>1, StoreEffect
  <2> QED
    BY <2>2 DEF s
<1> QED
  BY <1>2, <1>3

(* process_client_push stores the pack of a client it knows. *)
LEMMA AfterPushStores ==
    ASSUME ProtocolInv, NEW c \in Clients, net[c].kind = "push",
           net[c].state \in {"Subscribed", "Unsubscribing"}, srv.present, c \in srv.wired,
           NEW s, s = AfterPush(net[c]),
           ServerShape(srv)', srv'.present = s.present, srv'.gen = s.gen,
           srv'.history = s.history, srv'.cseqMap = s.cseqMap, srv'.created = s.created,
           srv'.duid = s.duid,
           \/ srv'.wired = s.wired
           \/ srv'.wired = s.wired \ {c} /\ net[c].state = "Unsubscribing"
    PROVE  StoresPack(c)
<1>1. ServerShape(srv)
  BY OwnFacts
<1>2. /\ SameEntry(srv, s)
      /\ \A d \in Clients \ {c} : s.cseqMap[d] = srv.cseqMap[d]
      /\ Appends(c, s.history, s.cseqMap)
  <2>1. CASE ReadonlyPush(net[c])
    <3> DEFINE none == <<>>
    <3>1. s = srv
      BY <2>1 DEF AfterPush
    <3>2. none \in Seq(Transactions) /\ srv.history \o none = srv.history /\ Len(none) = 0
      BY <1>1 DEF ServerShape
    <3>3. srv.cseqMap = [srv.cseqMap EXCEPT ![c] = @ + 0]
      BY <1>1 DEF ServerShape
    <3> HIDE DEF none
    <3>4. Len(none) <= MaxMem
      BY <3>2, SyncAssumption
    <3>5. Continues(c, s.cseqMap, none)
      BY <3>1, <3>2, <3>3 DEF Continues
    <3>6. Follows(c, s.cseqMap, none)
      BY <1>1, <3>2, <3>5, ContinuesFollows
    <3> QED
      BY <3>1, <3>2, <3>4, <3>5, <3>6 DEF SameEntry, Appends
  <2>2. CASE ~ReadonlyPush(net[c])
    <3>1. s = PushTransactions(srv, net[c])
      BY <2>2 DEF AfterPush
    <3> QED
      BY <1>1, <3>1, StoreEffect
  <2> QED
    BY <2>1, <2>2
<1> QED
  BY <1>2 DEF StoresPack, SameEntry

(* process_subscribed. *)
LEMMA SubscribedEffect ==
    ASSUME ProtocolInv, NEW c \in Clients, ServerSubscribed(c)
    PROVE  ServerEffect(c)
<1> DEFINE p == net[c]
           s == AfterPush(p)
           r == ClientPush(p, s, "Subscribed")
<1>1. net[c].kind = "push" /\ net[c].state = "Subscribed" /\ srv.present
  BY DEF ServerSubscribed, Pushed
<1>2. CASE c \notin srv.wired
  <2>1. Reply(c, srv, Reject(p, "MissingSubscription"))
    BY <1>2 DEF ServerSubscribed
  <2> QED
    BY <1>1, <2>1, RejectEffect
<1>3. CASE c \in srv.wired
  <2>1. Reply(c, s, r)
    BY <1>3 DEF ServerSubscribed
  <2>2. srv' = s
    BY <2>1 DEF Reply
  <2>3. ServerShape(s)
    BY <1>1, AfterPushShape
  <2>4. StoresPack(c)
    BY <1>1, <1>3, <2>2, <2>3, AfterPushStores
  <2>5. p.duid = duid[c]
    BY <1>1, PackFacts
  <2>6. /\ r.kind = "pulled" /\ r.snapshot = <<>> /\ r.duid = p.duid
        /\ \/ r.state = "Disabled" /\ r.error = "ReadonlyViolation"
           \/ r.state = "Subscribed" /\ r.error = "none"
    <3>1. r = ClientPush(p, s, "Subscribed")
      OBVIOUS
    <3> HIDE DEF r, s, p
    <3> QED
      BY <3>1, SuccessOrRefusal
  <2>8. s = AfterPush(net[c]) /\ r = ClientPush(net[c], s, "Subscribed")
    OBVIOUS
  <2> HIDE DEF s, r
  <2>7. Replies(c, r)
    BY <1>1, <1>3, <2>5, <2>6 DEF Replies
  <2>9. Answers(c, r)
    BY <1>1, <2>2, <2>3, <2>8, ClientPushAnswers DEF States
  <2> QED
    BY <1>1, <2>1, <2>2, <2>4, <2>7, <2>9 DEF ServerEffect
<1> QED
  BY <1>2, <1>3

(* process_unsubscribing: the pack is stored before the client leaves. *)
LEMMA UnsubscribingEffect ==
    ASSUME ProtocolInv, NEW c \in Clients, ServerUnsubscribing(c)
    PROVE  ServerEffect(c)
<1> DEFINE p == net[c]
           s == AfterPush(p)
           rest == srv.wired \ {c}
           r == ClientPush(p, s, "Disabled")
           left == [Stub(p) EXCEPT !.state = "Disabled"]
<1>1. net[c].kind = "push" /\ net[c].state = "Unsubscribing" /\ srv.present
  BY DEF ServerUnsubscribing, Pushed
<1>2. ServerShape(srv)
  BY OwnFacts
<1>3. CASE c \notin srv.wired
  <2>1. PICK a : Reply(c, srv, a)
                 /\ a \in {left, [kind |-> "collect", gen |-> srv.gen, reply |-> left]}
    BY <1>3 DEF ServerUnsubscribing
  <2>2. /\ left.kind = "pulled" /\ left.state = "Disabled" /\ left.error = "none"
        /\ left.cp = [sseq |-> 0, cseq |-> 0]
    BY DEF Stub
  <2>3. srv' = srv
    BY <2>1 DEF Reply
  <2> HIDE DEF left
  <2>5. Answers(c, left) /\ Response(left)
    BY <1>2, <2>2, <2>3, StubAnswers DEF States
  <2>4. Replies(c, a) /\ Answers(c, a)
    <3>1. CASE a = left
      BY <1>1, <2>2, <2>5, <3>1 DEF Replies
    <3>2. CASE a = [kind |-> "collect", gen |-> srv.gen, reply |-> left]
      <4>1. a.kind = "collect" /\ a.reply = left
        BY <3>2
      <4> QED
        BY <1>1, <1>3, <2>2, <2>3, <2>5, <4>1 DEF Replies, Answers
    <3> QED
      BY <2>1, <3>1, <3>2
  <2> QED
    BY <1>1, <2>1, <2>3, <2>4 DEF ServerEffect
<1>4. CASE c \in srv.wired
  <2>1. PICK next : Reply(c, [s EXCEPT !.wired = rest, !.creator = next],
                          IF rest = {} THEN [kind |-> "collect", gen |-> srv.gen, reply |-> r]
                          ELSE r)
    BY <1>4 DEF ServerUnsubscribing
  <2> DEFINE w == rest
             t == [s EXCEPT !.wired = w, !.creator = next]
             a == IF rest = {} THEN [kind |-> "collect", gen |-> srv.gen, reply |-> r] ELSE r
  <2>2. /\ Reply(c, t, a) /\ s = AfterPush(net[c])
        /\ a = (IF rest = {} THEN [kind |-> "collect", gen |-> srv.gen, reply |-> r] ELSE r)
    BY <2>1
  <2>3. srv' = t
    BY <2>1 DEF Reply
  <2>4. t = [s EXCEPT !.wired = w, !.creator = next] /\ w = srv.wired \ {c}
    OBVIOUS
  <2>5. ServerShape(s) /\ SameEntry(srv, s)
    BY <1>1, AfterPushShape
  <2>6. r = ClientPush(net[c], s, "Disabled")
    OBVIOUS
  <2>13. r.error \in {"none", "ReadonlyViolation"}
    <3> HIDE DEF r, s, p
    <3> QED
      BY <2>6, SuccessOrRefusal
  <2>7. w \in SUBSET Clients /\ w = s.wired \ {c}
    BY <1>2, <2>5 DEF ServerShape, SameEntry
  <2> HIDE DEF s, w, t, a, r, rest
  <2>8. /\ ServerShape(t) /\ t.wired = w /\ t.present = s.present /\ t.gen = s.gen
        /\ t.history = s.history /\ t.cseqMap = s.cseqMap /\ t.created = s.created
        /\ t.duid = s.duid
    BY <2>4, <2>5, <2>7 DEF ServerShape
  <2>9. StoresPack(c)
    BY <1>1, <1>4, <2>2, <2>3, <2>7, <2>8, AfterPushStores
  <2>11. Answers(c, r) /\ r.kind = "pulled" /\ Response(r) /\ r.state = "Disabled"
    BY <1>1, <2>2, <2>3, <2>6, <2>8, ClientPushAnswers DEF States
  <2>12. c \notin srv'.wired
    BY <2>3, <2>4, <2>8
  <2>10. Replies(c, a) /\ Answers(c, a)
    <3>1. CASE rest # {}
      BY <1>1, <2>2, <2>11, <2>13, <3>1 DEF Replies
    <3>2. CASE rest = {}
      <4>1. a.kind = "collect" /\ a.reply = r
        BY <2>2, <3>2
      <4> QED
        BY <1>1, <2>11, <2>12, <2>13, <4>1 DEF Replies, Answers
    <3> QED
      BY <3>1, <3>2
  <2> QED
    BY <1>1, <2>2, <2>3, <2>9, <2>10 DEF ServerEffect
<1> QED
  BY <1>3, <1>4

(* process_subscribing stores nothing. *)
LEMMA SubscribingEffect ==
    ASSUME ProtocolInv, NEW c \in Clients, ServerSubscribing(c)
    PROVE  ServerEffect(c)
<1> DEFINE p == net[c]
           from == dt[srv.creator].cp.sseq
           failed == [Stub(p) EXCEPT !.duid = srv.duid, !.error = "ServerInternalError"]
           snap == <<dt[srv.creator].crdt>>
           txs == PullTransactions(srv, c, from)
           k == [sseq |-> Sseq, cseq |-> 0]
           r == [Stub(p) EXCEPT !.duid = srv.duid, !.state = "Subscribed", !.cp = k,
                                !.snapshot = snap, !.txs = txs]
<1>1. net[c].kind = "push" /\ net[c].state \in {"Subscribing", "SubscribingOrCreating"}
  BY DEF ServerSubscribing, Pushed
<1>7. ServerShape(srv)
  BY OwnFacts
<1>2. \/ Reply(c, srv, Reject(p, "ResourceNotFound"))
      \/ Reply(c, srv, Reject(p, "ProtocolViolation"))
      \/ Reply(c, srv, failed)
      \/ Reply(c, srv, r) /\ srv.created
  BY DEF ServerSubscribing
<1>3. CASE Reply(c, srv, Reject(p, "ResourceNotFound"))
  BY <1>1, <1>3, RejectEffect
<1>4. CASE Reply(c, srv, Reject(p, "ProtocolViolation"))
  BY <1>1, <1>4, RejectEffect
<1>5. CASE Reply(c, srv, failed)
  <2>1. /\ failed.kind = "pulled" /\ failed.state = p.state /\ failed.error # "none"
        /\ failed.cp = [sseq |-> 0, cseq |-> 0]
    BY DEF Stub
  <2>2. srv' = srv
    BY <1>5 DEF Reply
  <2> HIDE DEF failed
  <2>3. Replies(c, failed) /\ Answers(c, failed)
    BY <1>1, <1>7, <2>1, <2>2, StubAnswers DEF Replies, States
  <2> QED
    BY <1>1, <1>5, <2>2, <2>3 DEF ServerEffect
<1>6. CASE Reply(c, srv, r) /\ srv.created
  <2>1. srv' = srv
    BY <1>6 DEF Reply
  <2>2. snap # <<>>
    OBVIOUS
  <2>5. Len(srv.history) \in Nat /\ srv.cseqMap[c] \in Nat
    BY <1>7 DEF ServerShape
  <2>6. k.sseq = Len(srv.history) /\ k.cseq = 0 /\ k \in Checkpoints
    BY <2>5 DEF Sseq, Checkpoints
  <2> HIDE DEF k, snap, txs
  <2>3. /\ r.kind = "pulled" /\ r.state = "Subscribed" /\ r.error = "none"
        /\ r.snapshot # <<>> /\ r.duid = srv.duid /\ r.cp = k
    BY <2>2 DEF Stub
  <2> HIDE DEF r
  <2>7. Answers(c, r)
    BY <2>1, <2>3, <2>5, <2>6 DEF Answers, Response, Covers, States
  <2>4. Replies(c, r) /\ Answers(c, r)
    BY <1>1, <1>6, <2>1, <2>3, <2>7 DEF Replies
  <2> QED
    BY <1>1, <1>6, <2>1, <2>4 DEF ServerEffect
<1> QED
  BY <1>2, <1>3, <1>4, <1>5, <1>6

(* A push without a server entry, and process_disabled. *)
LEMMA RefusalEffect ==
    ASSUME ProtocolInv, NEW c \in Clients, ServerMissing(c) \/ ServerDisabled(c)
    PROVE  ServerEffect(c)
<1>1. PICK e : /\ net[c].kind = "push" /\ Reply(c, srv, Reject(net[c], e))
               /\ e # "none" /\ e # "ServerInternalError"
  BY DEF ServerMissing, ServerDisabled, Pushed
<1> QED
  BY <1>1, RejectEffect

(* Whatever the server does with a push keeps the invariant. *)
LEMMA ServerStep ==
    ASSUME ProtocolInv, NEW c \in Clients, ServerEffect(c)
    PROVE  StepOf(c)
<1>1. PICK r : net[c].kind = "push" /\ Reply(c, srv', r) /\ Answers(c, r)
  BY DEF ServerEffect
<1>2. /\ ServerShape(srv) /\ Acknowledged(c)
  BY OwnFacts
<1>3. ServerShape(srv)' /\ \A d \in Clients : Grows(d)
  <2>1. CASE srv' = srv
    BY <1>2, <2>1, SameGrows
  <2>2. CASE StoresPack(c)
    <3>1. PICK new \in Seq(Transactions) :
             /\ srv'.history = srv.history \o new
             /\ dt[c].cp.cseq <= srv.cseqMap[c] => Continues(c, srv'.cseqMap, new)
      BY <2>2 DEF StoresPack, Appends
    <3>2. /\ srv.history \in Seq(Transactions) /\ srv.cseqMap \in [Clients -> Nat]
          /\ Len(new) \in Nat
      BY <1>2 DEF ServerShape
    <3>3. Len(srv.history) <= Len(srv'.history)
      BY <3>1, <3>2
    <3>4. Linked(c) => srv.cseqMap[c] <= srv'.cseqMap[c]
      BY <1>2, <3>1, <3>2 DEF Acknowledged, Reached, Continues
    <3>5. \A d \in Clients \ {c} : srv.cseqMap[d] <= srv'.cseqMap[d]
      BY <2>2, <3>2 DEF StoresPack
    <3>6. srv'.wired \subseteq srv.wired /\ srv.present /\ ServerShape(srv)'
      BY <2>2 DEF StoresPack
    <3> QED
      BY <3>3, <3>4, <3>5, <3>6 DEF Grows, Linked
  <2> QED
    BY <1>1, <2>1, <2>2 DEF ServerEffect
<1> DEFINE s == srv'
<1>4. Reply(c, s, r) /\ ServerShape(s)
  BY <1>1, <1>3
<1> HIDE DEF s
<1> QED
  BY <1>1, <1>3, <1>4, ReplyStep

(* The removal of the emptied server's entry: the clients that registered   *)
(* meanwhile are not linked to anything any more.                           *)
LEMMA RemoveServerStep ==
    ASSUME ProtocolInv, NEW c \in Clients, RemoveServer(c)
    PROVE  StepOf(c)
<1> DEFINE r == net[c].reply
<1>1. /\ ServerShape(srv) /\ Shape(c) /\ Phase(c)
  BY OwnFacts
<1>2. net[c].kind = "collect" /\ Reply(c, srv', r)
  BY DEF RemoveServer, Reply
<1>3. /\ c \notin srv.wired /\ r.kind = "pulled" /\ Response(r)
  BY <1>1, <1>2 DEF Phase, Shape, Exchange
<1>4. /\ ServerShape(srv)' /\ srv'.wired = srv.wired /\ srv'.history = srv.history
      /\ srv'.cseqMap = srv.cseqMap /\ (srv'.present => srv.present)
  <2>1. CASE srv.gen = net[c].gen
    <3>1. srv' = [srv EXCEPT !.present = FALSE]
      BY <2>1 DEF RemoveServer
    <3> QED
      BY <1>1, <3>1 DEF ServerShape
  <2>2. CASE srv.gen # net[c].gen
    <3>1. srv' = srv
      BY <2>2 DEF RemoveServer
    <3> QED
      BY <1>1, <3>1
  <2> QED
    BY <2>1, <2>2
<1>5. \A d \in Clients : Grows(d)
  <2>1. Len(srv.history) \in Nat /\ \A d \in Clients : srv.cseqMap[d] \in Nat
    BY <1>1 DEF ServerShape
  <2> QED
    BY <1>4, <2>1 DEF Grows, Linked
<1>6. Answers(c, r)
  BY <1>3, <1>4 DEF Answers, Linked
<1> HIDE DEF r
<1> DEFINE s == srv'
<1>7. Reply(c, s, r) /\ ServerShape(s)
  BY <1>2, <1>4
<1> HIDE DEF s
<1> QED
  BY <1>2, <1>5, <1>6, <1>7, ReplyStep

(* A step that ends an exchange keeps the invariant if it keeps the         *)
(* numbering and a checkpoint the server has reached.                       *)
LEMMA LoopStep ==
    ASSUME ProtocolInv, NEW c \in Clients, Frame(c), srv' = srv, inst'[c] = inst[c],
           inst[c] >= 1, Exchange(net'[c]), net'[c].kind \in {"idle", "error"},
           Replica(dt'[c]),
           loop'[c] # "Stopped" => OwnNumbering(dt'[c], c),
           loop'[c] = "Stopped" => /\ net'[c].kind = "idle" /\ dt'[c].state = "Disabled"
                                   /\ dt'[c].pending = <<>>,
           Linked(c) => Reached(c, dt'[c].cp)
    PROVE  StepOf(c)
<1>1. /\ Domains /\ ServerShape(srv) /\ Shape(c)
  BY OwnFacts
<1>2. ServerShape(srv)' /\ Extends(c)
  BY SameServer
<1>3. Shape(c)'
  BY <1>1 DEF Shape
<1>4. Phase(c)'
  BY DEF Phase, Live, Gone
<1>5. Numbered(c)' /\ Packed(c)'
  BY DEF Numbered, Packed, Live
<1>6. Acknowledged(c)'
  BY DEF Acknowledged, Reached, Linked
<1> QED
  BY <1>2, <1>3, <1>4, <1>5, <1>6 DEF StepOf, ClientInv

(* What is left of a failed exchange. *)
LEMMA FailedFields ==
    ASSUME NEW recovery \in {"RetryWithBackOff", "Disable"}
    PROVE  /\ Exchange(Failed(recovery)) /\ Failed(recovery).kind \in {"idle", "error"}
BY DEF Failed, Idle, Exchange

(* The recoveries errors are routed to are back-off and Disable, none that  *)
(* resubscribes.                                                            *)
LEMMA Routed ==
    /\ \A e : /\ Mapping(ToDatatypeError(e)) \in {"RetryWithBackOff", "Disable"}
              /\ e # "ServerInternalError" => Mapping(ToDatatypeError(e)) = "Disable"
    /\ Mapping(TimedOut) = "RetryWithBackOff" /\ Mapping("ServerRejected") = "Disable"
    /\ ReasonMapping("GetPushingTransactions") = "Disable"
<1>1. ASSUME NEW e
      PROVE  /\ ToDatatypeError(e) \in {"SyncFailed", "ReadonlyViolation", "ServerRejected"}
             /\ e # "ServerInternalError" =>
                   ToDatatypeError(e) \in {"ReadonlyViolation", "ServerRejected"}
  BY DEF ToDatatypeError
<1>2. /\ Mapping("SyncFailed") = "RetryWithBackOff" /\ Mapping("ServerRejected") = "Disable"
      /\ Mapping("ReadonlyViolation") = "Disable" /\ Mapping("Internal") = "Disable"
  BY DEF Mapping
<1> QED
  BY <1>1, <1>2 DEF TimedOut, ReasonMapping

(* do_push_pull builds the pack from the transactions after the checkpoint. *)
LEMMA StartPushStep ==
    ASSUME ProtocolInv, NEW c \in Clients, StartPush(c)
    PROVE  StepOf(c)
<1> DEFINE m == dt[c]
           x == net'[c]
<1>1. /\ Domains /\ ServerShape(srv)
      /\ Shape(c) /\ Phase(c) /\ Numbered(c) /\ Acknowledged(c)
  BY OwnFacts
<1>2. /\ Built(c) /\ loop[c] = "Normal"
      /\ inst' = inst /\ dt' = dt /\ duid' = duid /\ loop' = loop /\ scenario' = scenario
      /\ checked' = checked /\ srv' = srv
  BY DEF StartPush, clientVars
<1>3. PICK y : net' = [net EXCEPT ![c] = y]
  BY DEF StartPush
<1>4. Frame(c)
  BY <1>1, <1>2, <1>3 DEF Frame, Domains
<1>5. inst[c] >= 1 /\ Live(c) /\ OwnNumbering(m, c) /\ Replica(m)
  BY <1>1, <1>2, SyncAssumption DEF Built, Shape, Live, Numbered
<1>6. Linked(c) => Reached(c, m.cp)
  BY <1>1 DEF Acknowledged
<1>7. CASE CannotPushFrom(dt[c].buf, dt[c].cp.cseq + 1)
  <2>1. x = Failed("Disable")
    BY <1>1, <1>7, Routed DEF StartPush, Domains
  <2>2. Exchange(x) /\ x.kind \in {"idle", "error"}
    BY <2>1, FailedFields
  <2> QED
    BY <1>2, <1>4, <1>5, <1>6, <2>2, LoopStep
<1>8. CASE ~CannotPushFrom(dt[c].buf, dt[c].cp.cseq + 1)
  <2> DEFINE from == m.cp.cseq + 1
             txs == PushingTransactions(m.buf, from, scenario.transmit)
  <2>1. x = CreatePushPullPack(c)
    BY <1>1, <1>8 DEF StartPush, Domains
  <2>2. x = [kind |-> "push", cuid |-> c, duid |-> duid[c], state |-> m.state,
             sseq |-> m.cp.sseq, readonly |-> c \in ReadOnly, txs |-> txs]
    BY <2>1 DEF CreatePushPullPack
  <2>3. txs \in Seq(Transactions) /\ Unacknowledged(txs, m)
    <3>1. from = m.cp.cseq + 1 /\ txs = PushingTransactions(m.buf, from, scenario.transmit)
      OBVIOUS
    <3> HIDE DEF from, txs, m
    <3> QED
      BY <1>5, <3>1, PushingFields
  <2> HIDE DEF txs, from
  <2>4. /\ x.kind = "push" /\ x.cuid = c /\ x.duid = duid[c] /\ x.state = m.state
        /\ x.sseq = m.cp.sseq /\ x.txs = txs
    BY <2>2
  <2>5. m.state \in States
    BY <1>5 DEF Replica
  <2> HIDE DEF x, m
  <2>6. Shape(c)'
    BY <1>1, <1>2, <2>3, <2>4, <2>5 DEF Shape, Exchange, x, m
  <2>7. Phase(c)'
    BY <1>2, <1>5, <2>4 DEF Phase, Live, x
  <2>8. Numbered(c)'
    BY <1>1, <1>2 DEF Numbered, Live
  <2>9. Packed(c)'
    BY <1>2, <2>3, <2>4 DEF Packed, x, m
  <2>10. Acknowledged(c)'
    BY <1>2, <1>6, <2>4 DEF Acknowledged, Reached, Linked, x, m
  <2>11. ServerShape(srv)' /\ Extends(c)
    BY <1>2, SameServer
  <2> QED
    BY <1>4, <2>6, <2>7, <2>8, <2>9, <2>10, <2>11 DEF StepOf, ClientInv
<1> QED
  BY <1>7, <1>8

(* ConnectivityError::TimedOut leaves the datatype as it is. *)
LEMMA TimeOutStep ==
    ASSUME ProtocolInv, NEW c \in Clients, TimeOut(c)
    PROVE  StepOf(c)
<1>1. /\ Domains /\ Shape(c) /\ Phase(c) /\ Numbered(c) /\ Acknowledged(c)
  BY OwnFacts
<1>2. /\ net[c].kind \in {"push", "pulled"} /\ net' = [net EXCEPT ![c] = Failed("RetryWithBackOff")]
      /\ inst' = inst /\ dt' = dt /\ duid' = duid /\ loop' = loop /\ scenario' = scenario
      /\ checked' = checked /\ srv' = srv
  BY Routed DEF TimeOut, clientVars
<1>3. Frame(c)
  BY <1>1, <1>2 DEF Frame, Domains
<1>4. net'[c] = Failed("RetryWithBackOff")
  BY <1>1, <1>2 DEF Domains
<1>5. Exchange(net'[c]) /\ net'[c].kind \in {"idle", "error"}
  BY <1>4, FailedFields
<1>6. inst[c] >= 1 /\ Live(c)
  BY <1>1, <1>2 DEF Phase
<1>7. Replica(dt'[c]) /\ OwnNumbering(dt'[c], c) /\ (Linked(c) => Reached(c, dt'[c].cp))
  BY <1>1, <1>2, <1>6 DEF Shape, Numbered, Acknowledged
<1> QED
  BY <1>2, <1>3, <1>5, <1>6, <1>7, LoopStep DEF Live

(* A response that only sets the state. *)
LEMMA SetStateStep ==
    ASSUME ProtocolInv, NEW c \in Clients, net[c].kind = "pulled",
           NEW st \in States, NEW recovery \in {"RetryWithBackOff", "Disable"},
           dt' = [dt EXCEPT ![c].state = st], net' = [net EXCEPT ![c] = Failed(recovery)],
           UNCHANGED <<clientVars, duid, loop, srv>>
    PROVE  StepOf(c)
<1> DEFINE m == dt[c]
           n == dt'[c]
<1>1. /\ Domains /\ Shape(c) /\ Phase(c) /\ Numbered(c) /\ Acknowledged(c)
  BY OwnFacts
<1>2. /\ inst' = inst /\ duid' = duid /\ loop' = loop /\ scenario' = scenario
      /\ checked' = checked /\ srv' = srv
  BY DEF clientVars
<1>3. Frame(c)
  BY <1>1, <1>2 DEF Frame, Domains
<1>4. net'[c] = Failed(recovery) /\ n = [m EXCEPT !.state = st]
  BY <1>1 DEF Domains
<1>5. Exchange(net'[c]) /\ net'[c].kind \in {"idle", "error"}
  BY <1>4, FailedFields
<1>6. inst[c] >= 1 /\ Live(c) /\ OwnNumbering(m, c) /\ Replica(m)
  BY <1>1 DEF Phase, Numbered, Shape
<1>7. Linked(c) => Reached(c, m.cp)
  BY <1>1 DEF Acknowledged
<1> HIDE DEF m, n
<1>8. /\ Replica(n) /\ n.buf = m.buf /\ n.cp = m.cp /\ n.pending = m.pending
      /\ n.cseq = m.cseq /\ n.rollback = m.rollback
  BY <1>4, <1>6 DEF Replica
<1>9. OwnNumbering(n, c)
  BY <1>6, <1>8 DEF OwnNumbering, Committed
<1> QED
  BY <1>2, <1>3, <1>5, <1>6, <1>7, <1>8, <1>9, LoopStep DEF Live, n

(* An error response sets the state and nothing else. *)
LEMMA ApplyErrorStep ==
    ASSUME ProtocolInv, NEW c \in Clients, ApplyError(c)
    PROVE  StepOf(c)
<1> DEFINE e == Mapping(ToDatatypeError(net[c].error))
<1>1. net[c].kind = "pulled" /\ net[c].state \in States
  BY OwnFacts DEF ApplyError, Arrived, Shape, Exchange, Response
<1>2. e \in {"RetryWithBackOff", "Disable"}
  BY Routed
<1>3. /\ dt' = [dt EXCEPT ![c].state = net[c].state] /\ net' = [net EXCEPT ![c] = Failed(e)]
      /\ UNCHANGED <<clientVars, duid, loop, srv>>
  BY DEF ApplyError
<1> HIDE DEF e
<1> QED
  BY <1>1, <1>2, <1>3, SetStateStep

(* process_illegal_state_response disables the datatype. *)
LEMMA ApplyIllegalStep ==
    ASSUME ProtocolInv, NEW c \in Clients, ApplyIllegal(c)
    PROVE  StepOf(c)
<1>1. net[c].kind = "pulled" /\ "Disabled" \in States
  BY DEF ApplyIllegal, Arrived, States
<1>2. /\ dt' = [dt EXCEPT ![c].state = "Disabled"]
      /\ net' = [net EXCEPT ![c] = Failed("Disable")]
      /\ UNCHANGED <<clientVars, duid, loop, srv>>
  BY Routed DEF ApplyIllegal
<1> QED
  BY <1>1, <1>2, SetStateStep

(* A replica that took over a snapshot numbers its transactions afresh. *)
LEMMA SnapshotNumbering ==
    ASSUME NEW n, n.buf = EmptyBuffer, n.pending = <<>>, n.cseq = 0, NEW c
    PROVE  OwnNumbering(n, c)
<1>1. n.buf.txs = <<>> /\ n.buf.mem_size = 0 /\ n.buf.first_cseq = 0 /\ n.buf.last_cseq = 0
  BY DEF EmptyBuffer
<1>2. Len(<<>>) = 0
  OBVIOUS
<1> QED
  BY <1>1, <1>2, SyncAssumption DEF OwnNumbering, Committed

(* The replica a response is applied to. *)
LEMMA SubscribedReplicaFields ==
    ASSUME ProtocolInv, NEW c \in Clients, Live(c), NEW r, NEW m, m = SubscribedReplica(c, r)
    PROVE  /\ Replica(m) /\ OwnNumbering(m, c) /\ m.cp = dt[c].cp /\ m.state = dt[c].state
           /\ m = dt[c] \/ /\ AppliesSubscription(c, r) /\ r.snapshot # <<>>
                           /\ m.buf = EmptyBuffer /\ m.pending = <<>>
                           /\ m.rollback.state = dt[c].state
<1>1. Replica(dt[c]) /\ OwnNumbering(dt[c], c)
  BY OwnFacts DEF Shape, Numbered
<1>2. CASE AppliesSubscription(c, r) /\ r.snapshot # <<>>
  <2> DEFINE crdt == r.snapshot[1]
             q == dt[c]
  <2>1. m = ApplySnapshot(q, crdt) /\ Replica(q)
    BY <1>1, <1>2 DEF SubscribedReplica
  <2> HIDE DEF crdt, q
  <2>2. /\ Replica(m) /\ m.buf = EmptyBuffer /\ m.pending = <<>> /\ m.cseq = 0
        /\ m.cp = q.cp /\ m.state = q.state /\ m.rollback = [cseq |-> 0, state |-> q.state]
    BY <2>1, SnapshotFields
  <2>3. OwnNumbering(m, c)
    BY <2>2, SnapshotNumbering
  <2> QED
    BY <1>2, <2>2, <2>3 DEF q
<1>3. CASE ~(AppliesSubscription(c, r) /\ r.snapshot # <<>>)
  <2>1. m = dt[c]
    BY <1>3 DEF SubscribedReplica
  <2> QED
    BY <1>1, <2>1
<1> QED
  BY <1>2, <1>3

(* PullHandler: the checkpoint moves to that of the response, which the     *)
(* server has reached; a snapshot starts the numbering afresh.              *)
LEMMA ApplyPulledStep ==
    ASSUME ProtocolInv, NEW c \in Clients, ApplyPulled(c)
    PROVE  StepOf(c)
<1> DEFINE r == net[c]
           m == SubscribedReplica(c, r)
           n == dt'[c]
           panic == \/ dt[c].state = "Disabled"
                    \/ "debug" \in scenario.env /\ Underflows(m, r)
<1>1. /\ Domains /\ ServerShape(srv) /\ Shape(c) /\ Phase(c) /\ Acknowledged(c)
  BY OwnFacts
<1>2. /\ r.kind = "pulled"
      /\ dt' = [dt EXCEPT ![c] = IF panic THEN m ELSE PulledReplica(m, r)]
      /\ inst' = inst /\ scenario' = scenario /\ checked' = checked /\ srv' = srv
      /\ net' = [net EXCEPT ![c] = Idle]
      /\ loop' = IF panic THEN [loop EXCEPT ![c] = "Panicked"] ELSE loop
      /\ duid' = IF AppliesSubscription(c, r) THEN [duid EXCEPT ![c] = r.duid] ELSE duid
  BY DEF ApplyPulled, Arrived, clientVars
<1> HIDE DEF panic, m
<1>3. Frame(c)
  BY <1>1, <1>2 DEF Frame, Domains
<1>4. Live(c) /\ inst[c] >= 1
  BY <1>1, <1>2 DEF Phase
<1>5. loop'[c] # "Stopped"
  BY <1>1, <1>2, <1>4 DEF Domains, Live
<1>6. net'[c] = Idle /\ Exchange(net'[c]) /\ net'[c].kind = "idle"
  BY <1>1, <1>2 DEF Domains, Idle, Exchange
<1>7. Replica(m) /\ OwnNumbering(m, c) /\ m.cp = dt[c].cp
  BY <1>4, SubscribedReplicaFields DEF m
<1>8. r.cp \in Checkpoints /\ r.state \in States
  BY <1>1, <1>2 DEF Shape, Exchange, Response
<1>9. Linked(c) => Reached(c, m.cp) /\ Reached(c, r.cp)
  BY <1>1, <1>2, <1>7 DEF Acknowledged
<1>10. n = IF panic THEN m ELSE PulledReplica(m, r)
  BY <1>1, <1>2 DEF Domains
<1> HIDE DEF r, n
<1>11. CASE panic
  BY <1>2, <1>3, <1>4, <1>5, <1>6, <1>7, <1>9, <1>10, <1>11, LoopStep DEF n
<1>12. CASE ~panic
  <2>1. n = PulledReplica(m, r)
    BY <1>10, <1>12
  <2>2. /\ Replica(n)
        /\ n.buf = m.buf /\ n.cseq = m.cseq /\ n.pending = m.pending
        /\ n.rollback = m.rollback /\ n.state = r.state
        /\ n.cp.sseq \in {m.cp.sseq, r.cp.sseq}
        /\ n.cp.cseq \in {m.cp.cseq, r.cp.cseq}
    BY <1>7, <1>8, <2>1, PulledFields
  <2>3. OwnNumbering(n, c)
    BY <1>7, <2>2 DEF OwnNumbering, Committed
  <2>4. Linked(c) => Reached(c, n.cp)
    BY <1>9, <2>2 DEF Reached
  <2> QED
    BY <1>2, <1>3, <1>4, <1>5, <1>6, <2>2, <2>3, <2>4, LoopStep DEF n
<1> QED
  BY <1>11, <1>12

(* Disable ends the event loop and leaves the datatype Disabled, with no    *)
(* transaction open.                                                        *)
LEMMA HandleErrorStep ==
    ASSUME ProtocolInv, NEW c \in Clients, HandleError(c)
    PROVE  StepOf(c)
<1> DEFINE m == dt[c]
           n == dt'[c]
<1>1. /\ Domains /\ Shape(c) /\ Phase(c) /\ Acknowledged(c)
  BY OwnFacts
<1>2. net[c].kind = "error" /\ net[c].recovery = "Disable" /\ inst[c] >= 1
  BY <1>1 DEF HandleError, Shape, Exchange, Phase
<1>3. ApplyAction(m, "Disable") = Disable(m) /\ LoopModeFrom("Disable") = "Stopped"
  BY DEF ApplyAction, LoopModeFrom
<1>4. /\ dt' = [dt EXCEPT ![c] = Disable(@)] /\ loop' = [loop EXCEPT ![c] = "Stopped"]
      /\ net' = [net EXCEPT ![c] = Idle]
      /\ inst' = inst /\ duid' = duid /\ scenario' = scenario
      /\ checked' = checked /\ srv' = srv
  BY <1>1, <1>2, <1>3 DEF HandleError, clientVars, Domains
<1>5. Frame(c)
  BY <1>1, <1>4 DEF Frame, Domains
<1>6. n = Disable(m) /\ loop'[c] = "Stopped" /\ net'[c] = Idle
  BY <1>1, <1>4 DEF Domains
<1>7. Exchange(net'[c]) /\ net'[c].kind = "idle"
  BY <1>6 DEF Exchange, Idle
<1>8. Replica(m) /\ (Linked(c) => Reached(c, m.cp))
  BY <1>1 DEF Shape, Acknowledged
<1> HIDE DEF m, n
<1>9. /\ Replica(n) /\ n.cp = m.cp /\ n.state = "Disabled" /\ n.pending = <<>>
  <2> DEFINE q == Reset(m)
  <2>1. Replica(q) /\ q.cp = m.cp /\ q.pending = <<>>
    BY <1>8, ResetFields
  <2>2. n = [q EXCEPT !.state = "Disabled"]
    BY <1>6 DEF Disable
  <2> HIDE DEF q
  <2> QED
    BY <2>1, <2>2 DEF Replica, States
<1> QED
  BY <1>2, <1>4, <1>5, <1>6, <1>7, <1>8, <1>9, LoopStep DEF n

(* The invariant holds before anything is built. *)
LEMMA InitInv == Init => ProtocolInv
<1> SUFFICES ASSUME Init PROVE ProtocolInv
  OBVIOUS
<1>1. scenario \in Scenarios /\ Domains
  BY DEF Init, Domains
<1>2. ServerShape(srv) /\ srv.present = FALSE
  <2> DEFINE map == [x \in Clients |-> 0]
             none == <<>>
             nobody == <<Nobody, 0>>
  <2>1. map \in [Clients -> Nat] /\ none \in Seq(Transactions)
    OBVIOUS
  <2>2. srv = [gen |-> 0, present |-> FALSE, wired |-> {}, created |-> FALSE,
               creator |-> Nobody, duid |-> nobody, history |-> none, cseqMap |-> map]
    BY DEF Init, NewServer
  <2> HIDE DEF map, none, nobody
  <2> QED
    BY <2>1, <2>2 DEF ServerShape
<1>3. ASSUME NEW c \in Clients PROVE ClientInv(c)
  <2>1. /\ inst[c] = 0 /\ dt[c] = NewMutable(Origins, "Disabled") /\ checked[c] = {}
        /\ net[c] = Idle /\ loop[c] = "Stopped"
    BY DEF Init
  <2>2. net[c].kind = "idle"
    BY <2>1 DEF Idle
  <2>3. Replica(dt[c]) /\ dt[c].state = "Disabled" /\ dt[c].pending = <<>>
    BY <2>1, NewMutableFields DEF States
  <2>4. Shape(c)
    BY <2>1, <2>2, <2>3, SyncAssumption DEF Shape, Exchange
  <2>5. Phase(c)
    BY <2>1, <2>2, <2>3 DEF Phase, Gone
  <2>6. Numbered(c) /\ Packed(c) /\ Acknowledged(c)
    BY <1>2, <2>1, <2>2 DEF Numbered, Packed, Acknowledged, Live, Linked
  <2> QED
    BY <2>4, <2>5, <2>6 DEF ClientInv
<1> QED
  BY <1>1, <1>2, <1>3 DEF ProtocolInv

(* Every operation of a client, its event loop or the server for it keeps   *)
(* the invariant.                                                           *)
LEMMA EveryStep ==
    ASSUME ProtocolInv, NEW c \in Clients, User(c) \/ Server(c) \/ EventLoop(c)
    PROVE  StepOf(c)
<1>1. CASE User(c)
  <2>1. ASSUME NEW st \in scenario.as, Build(c, st) PROVE StepOf(c)
    <3>1. st \in InitialStates
      BY SyncAssumption DEF ProtocolInv
    <3> QED
      BY <2>1, <3>1, BuildStep
  <2> QED
    BY <1>1, <2>1, CheckStep, ExecuteOpStep, EndTxStep, SetUnsubscribingStep DEF User
<1>2. CASE Server(c)
  BY <1>2, RefusalEffect, CreatingEffect, SubscribingEffect, SubscribedEffect,
     UnsubscribingEffect, ServerStep, RemoveServerStep DEF Server
<1>3. CASE EventLoop(c)
  BY <1>3, RegisterStep, StartPushStep, TimeOutStep, ApplyErrorStep, ApplyIllegalStep,
     ApplyPulledStep, HandleErrorStep DEF EventLoop
<1> QED
  BY <1>1, <1>2, <1>3

(* The invariant is inductive. *)
LEMMA NextInv == ProtocolInv /\ [Next]_vars => ProtocolInv'
<1> SUFFICES ASSUME ProtocolInv, [Next]_vars PROVE ProtocolInv'
  OBVIOUS
<1>1. CASE Next
  <2>1. PICK c \in Clients : User(c) \/ Server(c) \/ EventLoop(c)
    BY <1>1 DEF Next
  <2> QED
    BY <2>1, EveryStep, OthersKeep
<1>2. CASE UNCHANGED vars
  BY <1>2 DEF vars, ProtocolInv, Domains, ServerShape, ClientInv, Shape, Phase, Numbered,
              Packed, Acknowledged, Reached, Linked, Live
<1> QED
  BY <1>1, <1>2

(* At all times, whatever is lost, retried, rolled back, unsubscribed,      *)
(* rebuilt or removed: a client's push buffer has its transactions 1, 2,    *)
(* ... without a gap, a pack under way carries those after the checkpoint,  *)
(* and no checkpoint, applied or in a response under way, is ahead of the   *)
(* server that knows the client.                                            *)
THEOREM ProtocolInvariant == Spec => []ProtocolInv
<1>1. Init => ProtocolInv
  BY InitInv
<1>2. ProtocolInv /\ [Next]_vars => ProtocolInv'
  BY NextInv
<1> QED
  BY <1>1, <1>2, PTL DEF Spec

-----------------------------------------------------------------------------
(* The states a client's datatype is in, may be rolled back to, or is in an *)
(* exchange with.                                                           *)
Seen(c) ==
    {dt[c].state}
    \cup (IF dt[c].pending = <<>> THEN {} ELSE {dt[c].rollback.state})
    \cup (IF net[c].kind \in {"push", "pulled"} THEN {net[c].state} ELSE {})

(* If responses wait for open transactions, a datatype that is not          *)
(* Subscribed, nor may be rolled back to another state, has nothing         *)
(* acknowledged.                                                            *)
Unspanned(c) ==
    "spanning" \notin scenario.env /\ Seen(c) \cap InitialStates # {} => dt[c].cp.cseq = 0

(* If nobody unsubscribes, every datatype that was built is linked to the   *)
(* server, and the entry a registration found is still there.               *)
Staying(c) ==
    "unsubscribe" \notin scenario.env =>
        /\ "Unsubscribing" \notin Seen(c) /\ "unsub" \notin checked[c]
        /\ net[c].kind # "collect"
        /\ inst[c] >= 1 => Linked(c)
        /\ net[c].kind = "register" => srv.present /\ srv.gen = net[c].gen

(* What the environments that leave out one of the two faults keep. *)
ShelterInv == \A c \in Clients : Unspanned(c) /\ Staying(c)

(* A step moves the checkpoint of client c forward only, and if responses   *)
(* wait for open transactions, only to where no initial state is left.      *)
Forward(c) ==
    /\ dt'[c].cp.sseq >= dt[c].cp.sseq /\ dt'[c].cp.cseq >= dt[c].cp.cseq
    /\ \/ dt'[c].cp = dt[c].cp
       \/ "spanning" \in scenario.env
       \/ Seen(c)' \cap InitialStates = {}

(* If nobody unsubscribes, client c does not begin to. *)
Unmoved(c) ==
    "unsubscribe" \notin scenario.env /\ "unsub" \notin checked[c] =>
        /\ "unsub" \notin checked'[c]
        /\ "Unsubscribing" \in Seen(c)' => "Unsubscribing" \in Seen(c)

(* What a step of a user thread or the event loop of client c does. *)
OwnStep(c) ==
    /\ srv' = srv /\ inst'[c] = inst[c]
    /\ Forward(c) /\ Unmoved(c)
    /\ Seen(c)' \subseteq Seen(c) \cup {"Subscribed", "Disabled", "Unsubscribing"}
    /\ net'[c].kind \in {"register", "collect"} => net'[c] = net[c]

(* A step that keeps the checkpoint and adds no state but Disabled. *)
LEMMA PlainOwnStep ==
    ASSUME ProtocolInv, NEW c \in Clients, srv' = srv, inst'[c] = inst[c],
           dt'[c].cp = dt[c].cp, Seen(c)' \subseteq Seen(c) \cup {"Disabled"},
           "unsub" \in checked'[c] => "unsub" \in checked[c] \/ "unsubscribe" \in scenario.env,
           net'[c].kind \in {"register", "collect"} => net'[c] = net[c]
    PROVE  OwnStep(c)
<1>1. dt[c].cp.sseq \in Nat /\ dt[c].cp.cseq \in Nat
  BY OwnFacts DEF Shape, Replica, Checkpoints
<1>2. Forward(c)
  BY <1>1 DEF Forward
<1>3. Unmoved(c)
  BY DEF Unmoved
<1> QED
  BY <1>2, <1>3 DEF OwnStep

(* check_writable and check_subscribed. *)
LEMMA CheckOwn ==
    ASSUME ProtocolInv, NEW c \in Clients, CheckWritable(c) \/ CheckSubscribed(c)
    PROVE  OwnStep(c)
<1>1. Domains
  BY OwnFacts
<1>2. PICK k : /\ inst' = inst /\ dt' = dt /\ net' = net /\ srv' = srv
               /\ checked' = [checked EXCEPT ![c] = @ \cup {k}]
               /\ k = "unsub" => "unsubscribe" \in scenario.env
  BY DEF CheckWritable, CheckSubscribed
<1>3. checked'[c] = checked[c] \cup {k}
  BY <1>1, <1>2 DEF Domains
<1>4. Seen(c)' = Seen(c)
  BY <1>2 DEF Seen
<1> QED
  BY <1>2, <1>3, <1>4, PlainOwnStep

(* execute_local_operation saves the current state as the rollback's. *)
LEMMA ExecuteOpOwn ==
    ASSUME ProtocolInv, NEW c \in Clients, ExecuteOp(c)
    PROVE  OwnStep(c)
<1> DEFINE m == dt[c]
           n == dt'[c]
           op == <<c, inst[c]>>
<1>1. /\ Domains /\ Shape(c) /\ Phase(c)
  BY OwnFacts
<1>2. /\ "write" \in checked[c] /\ dt' = [dt EXCEPT ![c] = ExecuteLocal(@, op)]
      /\ inst' = inst /\ net' = net /\ srv' = srv
      /\ checked' = [checked EXCEPT ![c] = @ \ {"write"}]
  BY DEF ExecuteOp
<1>3. inst[c] \in 1..MaxInst /\ op \in Origins
  BY <1>1, <1>2, SyncAssumption DEF Phase, Shape, Origins
<1>4. n = ExecuteLocal(m, op) /\ Replica(m) /\ checked'[c] = checked[c] \ {"write"}
  BY <1>1, <1>2 DEF Domains, Shape
<1>5. /\ n.cp = m.cp /\ n.state = m.state
      /\ m.pending = <<>> => n.rollback = [cseq |-> m.cseq, state |-> m.state]
      /\ m.pending # <<>> => n.rollback = m.rollback
  <2> HIDE DEF m, n, op
  <2> QED
    BY <1>3, <1>4, ExecuteLocalFields
<1>6. Seen(c)' \subseteq Seen(c)
  BY <1>2, <1>5 DEF Seen
<1> QED
  BY <1>2, <1>4, <1>5, <1>6, PlainOwnStep

(* end_transaction takes back the saved state or keeps the current one. *)
LEMMA EndTxOwn ==
    ASSUME ProtocolInv, NEW c \in Clients, NEW ok \in BOOLEAN, EndTx(c, ok)
    PROVE  OwnStep(c)
<1> DEFINE m == dt[c]
           n == dt'[c]
<1>1. /\ Domains /\ Shape(c)
  BY OwnFacts
<1>2. /\ m.pending # <<>> /\ dt' = [dt EXCEPT ![c] = EndTransaction(@, c, ok, MaxMem)]
      /\ inst' = inst /\ net' = net /\ srv' = srv /\ checked' = checked
  BY DEF EndTx, clientVars
<1>3. n = EndTransaction(m, c, ok, MaxMem) /\ Replica(m) /\ m.pending # <<>>
  BY <1>1, <1>2 DEF Domains, Shape
<1>4. n.cp = m.cp /\ n.pending = <<>> /\ n.state \in {m.state, m.rollback.state}
  <2> HIDE DEF m, n
  <2> QED
    BY <1>3, EndTransactionFields, DoRollbackFields
<1>5. Seen(c)' \subseteq Seen(c)
  BY <1>2, <1>4 DEF Seen
<1> QED
  BY <1>2, <1>4, <1>5, PlainOwnStep

(* set_state(Unsubscribing) follows a check_subscribed. *)
LEMMA SetUnsubscribingOwn ==
    ASSUME ProtocolInv, NEW c \in Clients, SetUnsubscribing(c)
    PROVE  OwnStep(c)
<1> DEFINE m == dt[c]
           n == dt'[c]
<1>1. /\ Domains /\ Shape(c)
  BY OwnFacts
<1>2. /\ "unsub" \in checked[c] /\ dt' = [dt EXCEPT ![c].state = "Unsubscribing"]
      /\ inst' = inst /\ net' = net /\ srv' = srv
  BY DEF SetUnsubscribing
<1>3. n = [m EXCEPT !.state = "Unsubscribing"] /\ Replica(m)
  BY <1>1, <1>2 DEF Domains, Shape
<1>4. /\ n.cp = m.cp /\ n.state = "Unsubscribing" /\ n.pending = m.pending
      /\ n.rollback = m.rollback /\ m.cp.sseq \in Nat /\ m.cp.cseq \in Nat
  <2> HIDE DEF m, n
  <2> QED
    BY <1>3 DEF Replica, Checkpoints
<1>5. Seen(c)' \subseteq Seen(c) \cup {"Unsubscribing"}
  BY <1>2, <1>4 DEF Seen
<1>6. Forward(c) /\ Unmoved(c)
  BY <1>2, <1>4 DEF Forward, Unmoved
<1> QED
  BY <1>2, <1>5, <1>6 DEF OwnStep

(* do_push_pull puts the current state into the pack. *)
LEMMA StartPushOwn ==
    ASSUME ProtocolInv, NEW c \in Clients, StartPush(c)
    PROVE  OwnStep(c)
<1>1. Domains
  BY OwnFacts
<1>2. /\ inst' = inst /\ dt' = dt /\ srv' = srv /\ checked' = checked
      /\ net' = [net EXCEPT ![c] =
                    IF CannotPushFrom(dt[c].buf, dt[c].cp.cseq + 1)
                    THEN Failed("Disable") ELSE CreatePushPullPack(c)]
  BY Routed DEF StartPush, clientVars
<1>3. net'[c] = Failed("Disable") \/ net'[c] = CreatePushPullPack(c)
  BY <1>1, <1>2 DEF Domains
<1>4. /\ CreatePushPullPack(c).kind = "push" /\ CreatePushPullPack(c).state = dt[c].state
  BY DEF CreatePushPullPack
<1>5. Failed("Disable").kind = "error"
  BY DEF Failed
<1>6. Seen(c)' \subseteq Seen(c)
  BY <1>2, <1>3, <1>4, <1>5 DEF Seen
<1>7. net'[c].kind \in {"push", "error"}
  BY <1>3, <1>4, <1>5
<1> QED
  BY <1>2, <1>6, <1>7, PlainOwnStep

(* The exchange is over and the replica keeps all but its state. *)
LEMMA FailedOwn ==
    ASSUME ProtocolInv, NEW c \in Clients, NEW recovery \in {"RetryWithBackOff", "Disable"},
           net' = [net EXCEPT ![c] = Failed(recovery)],
           dt'[c].cp = dt[c].cp, dt'[c].state \in Seen(c) \cup {"Disabled"},
           dt'[c].pending = dt[c].pending, dt'[c].rollback = dt[c].rollback,
           inst' = inst, srv' = srv, checked' = checked
    PROVE  OwnStep(c)
<1>1. Domains
  BY OwnFacts
<1>2. net'[c].kind \in {"idle", "error"}
  BY <1>1, FailedFields DEF Domains
<1>3. Seen(c)' \subseteq Seen(c) \cup {"Disabled"}
  BY <1>2 DEF Seen
<1> QED
  BY <1>2, <1>3, PlainOwnStep

(* A time-out forgets the state of the exchange. *)
LEMMA TimeOutOwn ==
    ASSUME ProtocolInv, NEW c \in Clients, TimeOut(c)
    PROVE  OwnStep(c)
<1>1. /\ net' = [net EXCEPT ![c] = Failed("RetryWithBackOff")]
      /\ dt' = dt /\ inst' = inst /\ srv' = srv /\ checked' = checked
  BY Routed DEF TimeOut, clientVars
<1>2. dt[c].state \in Seen(c)
  BY DEF Seen
<1> QED
  BY <1>1, <1>2, FailedOwn

(* An error response brings Disabled or the state that was pushed. *)
LEMMA SetStateOwn ==
    ASSUME ProtocolInv, NEW c \in Clients, NEW recovery \in {"RetryWithBackOff", "Disable"},
           NEW st, st \in Seen(c) \cup {"Disabled"},
           dt' = [dt EXCEPT ![c].state = st], net' = [net EXCEPT ![c] = Failed(recovery)],
           UNCHANGED <<clientVars, duid, loop, srv>>
    PROVE  OwnStep(c)
<1> DEFINE m == dt[c]
           n == dt'[c]
<1>1. inst' = inst /\ srv' = srv /\ checked' = checked
  BY DEF clientVars
<1>2. n = [m EXCEPT !.state = st] /\ Replica(m)
  BY OwnFacts DEF Domains, Shape
<1>3. /\ n.cp = m.cp /\ n.state = st /\ n.pending = m.pending /\ n.rollback = m.rollback
  <2> HIDE DEF m, n
  <2> QED
    BY <1>2 DEF Replica
<1> QED
  BY <1>1, <1>3, FailedOwn

(* An error response. *)
LEMMA ApplyErrorOwn ==
    ASSUME ProtocolInv, NEW c \in Clients, ApplyError(c)
    PROVE  OwnStep(c)
<1> DEFINE e == Mapping(ToDatatypeError(net[c].error))
           st == net[c].state
<1>1. st \in Seen(c) \cup {"Disabled"}
  BY DEF ApplyError, Arrived, Seen
<1>2. e \in {"RetryWithBackOff", "Disable"}
  BY Routed
<1>3. /\ dt' = [dt EXCEPT ![c].state = st] /\ net' = [net EXCEPT ![c] = Failed(e)]
      /\ UNCHANGED <<clientVars, duid, loop, srv>>
  BY DEF ApplyError
<1> HIDE DEF e, st
<1> QED
  BY <1>1, <1>2, <1>3, SetStateOwn

(* A response that is illegal in the current state. *)
LEMMA ApplyIllegalOwn ==
    ASSUME ProtocolInv, NEW c \in Clients, ApplyIllegal(c)
    PROVE  OwnStep(c)
<1> DEFINE st == "Disabled"
<1>1. st \in Seen(c) \cup {"Disabled"}
  OBVIOUS
<1>2. /\ dt' = [dt EXCEPT ![c].state = st]
      /\ net' = [net EXCEPT ![c] = Failed("Disable")]
      /\ UNCHANGED <<clientVars, duid, loop, srv>>
  BY Routed DEF ApplyIllegal
<1> HIDE DEF st
<1> QED
  BY <1>1, <1>2, SetStateOwn

(* A response without an error: sync_checkpoint takes the maxima, so        *)
(* neither half of the checkpoint goes back.                                *)
LEMMA ApplyPulledOwn ==
    ASSUME ProtocolInv, NEW c \in Clients, ApplyPulled(c)
    PROVE  OwnStep(c)
<1> DEFINE r == net[c]
           m == SubscribedReplica(c, r)
           n == dt'[c]
           panic == \/ dt[c].state = "Disabled"
                    \/ "debug" \in scenario.env /\ Underflows(m, r)
<1>1. /\ Domains /\ Shape(c) /\ Phase(c)
  BY OwnFacts
<1>2. /\ r.kind = "pulled"
      /\ "spanning" \in scenario.env \/ dt[c].pending = <<>>
      /\ panic \/ LegalResponse(dt[c].state, r)
      /\ dt' = [dt EXCEPT ![c] = IF panic THEN m ELSE PulledReplica(m, r)]
      /\ inst' = inst /\ checked' = checked /\ srv' = srv
      /\ net' = [net EXCEPT ![c] = Idle]
  BY DEF ApplyPulled, Arrived, clientVars
<1> HIDE DEF panic, m
<1>3. n = IF panic THEN m ELSE PulledReplica(m, r)
  BY <1>1, <1>2 DEF Domains
<1>4. net'[c].kind = "idle"
  BY <1>1, <1>2 DEF Domains, Idle
<1>5. Live(c) /\ Replica(dt[c]) /\ r.cp \in Checkpoints /\ r.state \in States
  BY <1>1, <1>2 DEF Phase, Shape, Exchange, Response
<1>6. /\ Replica(m) /\ m.cp = dt[c].cp /\ m.state = dt[c].state
      /\ m = dt[c] \/ m.pending = <<>>
  <2>1. m = SubscribedReplica(c, r)
    BY DEF m
  <2> QED
    BY <1>5, <2>1, SubscribedReplicaFields
<1>7. m.cp.sseq \in Nat /\ m.cp.cseq \in Nat
  BY <1>6 DEF Replica, Checkpoints
<1>8. CASE panic
  <2>1. Seen(c)' \subseteq Seen(c)
    BY <1>3, <1>4, <1>6, <1>8 DEF Seen
  <2> QED
    BY <1>2, <1>3, <1>4, <1>6, <1>8, <2>1, PlainOwnStep
<1>9. CASE ~panic
  <2>1. n = PulledReplica(m, r) /\ LegalResponse(dt[c].state, r)
    BY <1>2, <1>3, <1>9
  <2>2. r.state \in {"Subscribed", "Disabled"}
    BY <2>1 DEF LegalResponse
  <2>3. /\ n.pending = m.pending /\ n.rollback = m.rollback /\ n.state = r.state
        /\ n.cp.sseq >= m.cp.sseq /\ n.cp.cseq >= m.cp.cseq
    <3> HIDE DEF r, n
    <3> QED
      BY <1>5, <1>6, <2>1, PulledFields
  <2>4. Seen(c)' = {n.state} \cup (IF n.pending = <<>> THEN {} ELSE {n.rollback.state})
    BY <1>4 DEF Seen
  <2>5. n.pending # <<>> => m = dt[c] /\ n.rollback.state \in Seen(c)
    BY <1>6, <2>3 DEF Seen
  <2>6. Seen(c)' \subseteq Seen(c) \cup {"Subscribed", "Disabled"}
    BY <2>2, <2>3, <2>4, <2>5
  <2>7. "spanning" \notin scenario.env => n.pending = <<>>
    BY <1>2, <1>6, <2>3
  <2>8. Forward(c)
    BY <1>6, <2>2, <2>3, <2>4, <2>7 DEF Forward, InitialStates
  <2>9. Unmoved(c)
    BY <1>2, <2>6 DEF Unmoved
  <2> QED
    BY <1>2, <1>4, <2>6, <2>8, <2>9 DEF OwnStep
<1> QED
  BY <1>8, <1>9

(* Disable. *)
LEMMA HandleErrorOwn ==
    ASSUME ProtocolInv, NEW c \in Clients, HandleError(c)
    PROVE  OwnStep(c)
<1> DEFINE m == dt[c]
           n == dt'[c]
<1>1. /\ Domains /\ Shape(c)
  BY OwnFacts
<1>2. net[c].kind = "error" /\ net[c].recovery = "Disable"
  BY <1>1 DEF HandleError, Shape, Exchange
<1>3. ApplyAction(m, "Disable") = Disable(m)
  BY DEF ApplyAction
<1>4. /\ dt' = [dt EXCEPT ![c] = Disable(@)] /\ net' = [net EXCEPT ![c] = Idle]
      /\ inst' = inst /\ checked' = checked /\ srv' = srv
  BY <1>1, <1>2, <1>3 DEF HandleError, clientVars, Domains
<1>5. n = Disable(m) /\ net'[c].kind = "idle" /\ Replica(m)
  BY <1>1, <1>4 DEF Domains, Idle, Shape
<1>6. n.cp = m.cp /\ n.state = "Disabled" /\ n.pending = <<>>
  <2> DEFINE q == Reset(m)
  <2> HIDE DEF m, n
  <2>1. Replica(q) /\ q.cp = m.cp /\ q.pending = <<>>
    BY <1>5, ResetFields
  <2>2. n = [q EXCEPT !.state = "Disabled"]
    BY <1>5 DEF Disable
  <2> HIDE DEF q
  <2> QED
    BY <2>1, <2>2 DEF Replica
<1>7. Seen(c)' \subseteq Seen(c) \cup {"Disabled"}
  BY <1>5, <1>6 DEF Seen
<1> QED
  BY <1>4, <1>5, <1>6, <1>7, PlainOwnStep

(* A server entry stays, with those registered with it. *)
Stands ==
    srv.present => srv'.present /\ srv'.gen = srv.gen /\ srv.wired \subseteq srv'.wired

(* A step of client c that leaves the server entry standing keeps the       *)
(* others' part.                                                            *)
LEMMA ShelterOthers ==
    ASSUME ShelterInv, NEW c \in Clients, Frame(c), "unsubscribe" \notin scenario.env => Stands,
           Unspanned(c)', Staying(c)'
    PROVE  ShelterInv'
<1> SUFFICES ASSUME NEW d \in Clients \ {c} PROVE Unspanned(d)' /\ Staying(d)'
  BY DEF ShelterInv
<1>1. /\ scenario' = scenario /\ inst'[d] = inst[d] /\ dt'[d] = dt[d]
      /\ checked'[d] = checked[d] /\ net'[d] = net[d]
  BY DEF Frame
<1>2. Unspanned(d) /\ Staying(d)
  BY DEF ShelterInv
<1>3. Seen(d)' = Seen(d)
  BY <1>1 DEF Seen
<1>4. Unspanned(d)'
  BY <1>1, <1>2, <1>3 DEF Unspanned
<1>5. Staying(d)'
  BY <1>1, <1>2, <1>3 DEF Staying, Stands, Linked
<1> QED
  BY <1>4, <1>5

(* A step of a user thread or the event loop. *)
LEMMA ShelterOwnStep ==
    ASSUME ProtocolInv, ShelterInv, NEW c \in Clients, Frame(c), OwnStep(c)
    PROVE  ShelterInv'
<1>1. Unspanned(c) /\ Staying(c) /\ scenario' = scenario /\ srv' = srv /\ Stands
  BY DEF ShelterInv, Frame, OwnStep, Stands
<1>2. Unspanned(c)'
  BY <1>1 DEF Unspanned, OwnStep, Forward, InitialStates
<1>3. Staying(c)'
  BY <1>1 DEF Staying, OwnStep, Unmoved, Linked
<1> QED
  BY <1>1, <1>2, <1>3, ShelterOthers

(* A registration finds or makes a server entry. *)
LEMMA ShelterBuild ==
    ASSUME ProtocolInv, ShelterInv, NEW c \in Clients, Frame(c), NEW st, Build(c, st)
    PROVE  ShelterInv'
<1>1. Unspanned(c) /\ Staying(c) /\ scenario' = scenario /\ Domains
  BY OwnFacts DEF ShelterInv, Frame
<1>2. /\ inst' = inst /\ dt' = dt
      /\ checked' = [checked EXCEPT ![c] = {}]
      /\ net' = [net EXCEPT ![c] = [kind |-> "register", gen |-> srv'.gen, state |-> st]]
      /\ srv.present => srv' = srv
  BY DEF Build
<1>3. net'[c].kind = "register" /\ net'[c].gen = srv'.gen /\ checked'[c] = {}
  BY <1>1, <1>2 DEF Domains
<1>4. srv'.present /\ Stands
  BY DEF Build, NewServer, Stands
<1>5. Seen(c)' \subseteq Seen(c)
  BY <1>2, <1>3 DEF Seen
<1>6. Unspanned(c)'
  BY <1>1, <1>2, <1>5 DEF Unspanned
<1>7. Staying(c)'
  BY <1>1, <1>2, <1>3, <1>4, <1>5 DEF Staying, Linked
<1> QED
  BY <1>4, <1>6, <1>7, ShelterOthers

(* A registration inserts the datatype into the entry it found. *)
LEMMA ShelterRegister ==
    ASSUME ProtocolInv, ShelterInv, NEW c \in Clients, Frame(c), Register(c)
    PROVE  ShelterInv'
<1>1. /\ Unspanned(c) /\ Staying(c) /\ scenario' = scenario /\ Domains /\ Shape(c)
      /\ ServerShape(srv)
  BY OwnFacts DEF ShelterInv, Frame
<1>2. /\ net[c].kind = "register" /\ checked' = checked
      /\ dt' = [dt EXCEPT ![c] = NewMutable(Origins, net[c].state)]
      /\ net' = [net EXCEPT ![c] = Idle]
      /\ srv' = IF srv.present /\ srv.gen = net[c].gen
                THEN [srv EXCEPT !.wired = @ \cup {c}] ELSE srv
  BY DEF Register
<1>3. net[c].state \in InitialStates /\ net[c].state \in States
  BY <1>1, <1>2 DEF Shape, Exchange, InitialStates, States
<1>4. net'[c].kind = "idle" /\ dt'[c] = NewMutable(Origins, net[c].state)
  BY <1>1, <1>2 DEF Domains, Idle
<1>5. dt'[c].cp.cseq = 0 /\ dt'[c].state = net[c].state /\ dt'[c].pending = <<>>
  BY <1>3, <1>4, NewMutableFields
<1>6. Seen(c)' = {net[c].state}
  BY <1>4, <1>5 DEF Seen
<1>7. Stands /\ (srv.present /\ srv.gen = net[c].gen => Linked(c)')
  BY <1>1, <1>2 DEF Stands, Linked, ServerShape
<1>8. Unspanned(c)'
  BY <1>5 DEF Unspanned
<1>9. Staying(c)'
  BY <1>1, <1>2, <1>3, <1>4, <1>6, <1>7 DEF Staying, InitialStates
<1> QED
  BY <1>7, <1>8, <1>9, ShelterOthers

(* A push is processed: without unsubscribing nobody leaves the server. *)
LEMMA ShelterServer ==
    ASSUME ProtocolInv, ShelterInv, NEW c \in Clients, Frame(c), ServerEffect(c)
    PROVE  ShelterInv'
<1>1. Unspanned(c) /\ Staying(c) /\ scenario' = scenario /\ Domains
  BY OwnFacts DEF ShelterInv, Frame
<1>2. PICK r : Reply(c, srv', r) /\ Replies(c, r) /\ net[c].kind = "push"
  BY DEF ServerEffect
<1>3. net'[c] = r /\ dt' = dt /\ inst' = inst /\ checked' = checked
  BY <1>1, <1>2 DEF Reply, clientVars, Domains
<1>4. net[c].state \in Seen(c)
  BY <1>2 DEF Seen
<1>5. r.kind \in {"pulled", "collect"} /\ (r.kind = "collect" => net[c].state = "Unsubscribing")
  BY <1>2 DEF Replies
<1>6. r.kind = "pulled" => r.state \in {net[c].state, "Subscribed", "Disabled"}
  BY <1>2 DEF Replies
<1>7. Seen(c)' \subseteq Seen(c) \cup {"Subscribed", "Disabled"}
  BY <1>3, <1>4, <1>5, <1>6 DEF Seen
<1>8. "unsubscribe" \notin scenario.env => Stands
  BY <1>1, <1>4 DEF Staying, Stands, ServerEffect, StoresPack
<1>9. Unspanned(c)'
  BY <1>1, <1>3, <1>7 DEF Unspanned, InitialStates
<1>10. Staying(c)'
  BY <1>1, <1>3, <1>4, <1>5, <1>7, <1>8 DEF Staying, Linked, Stands
<1> QED
  BY <1>8, <1>9, <1>10, ShelterOthers

(* Without unsubscribing no server is ever emptied. *)
LEMMA ShelterRemove ==
    ASSUME ProtocolInv, ShelterInv, NEW c \in Clients, Frame(c), RemoveServer(c)
    PROVE  ShelterInv'
<1>1. Unspanned(c) /\ Staying(c) /\ scenario' = scenario /\ Domains /\ Phase(c) /\ Shape(c)
  BY OwnFacts DEF ShelterInv, Frame
<1>2. /\ net[c].kind = "collect" /\ dt' = dt
      /\ net'[c] = net[c].reply
  BY <1>1 DEF RemoveServer, clientVars, Domains
<1>3. net'[c].kind = "pulled" /\ net'[c].state = "Disabled"
  BY <1>1, <1>2 DEF Phase, Shape, Exchange
<1>4. Seen(c)' \subseteq Seen(c) \cup {"Disabled"}
  BY <1>2, <1>3 DEF Seen
<1>5. "unsubscribe" \in scenario.env
  BY <1>1, <1>2 DEF Staying
<1>6. Unspanned(c)'
  BY <1>1, <1>2, <1>4 DEF Unspanned, InitialStates
<1>7. Staying(c)'
  BY <1>1, <1>5 DEF Staying
<1> QED
  BY <1>5, <1>6, <1>7, ShelterOthers

(* Every step of a client is one of these. *)
Kinds(c) ==
    \/ OwnStep(c)
    \/ \E st : Build(c, st)
    \/ Register(c)
    \/ ServerEffect(c)
    \/ RemoveServer(c)

(* The steps of Next by their effect. *)
LEMMA EveryKind ==
    ASSUME ProtocolInv, NEW c \in Clients, User(c) \/ Server(c) \/ EventLoop(c)
    PROVE  Kinds(c)
<1>1. CASE User(c)
  BY <1>1, CheckOwn, ExecuteOpOwn, EndTxOwn, SetUnsubscribingOwn DEF User, Kinds
<1>2. CASE Server(c)
  BY <1>2, RefusalEffect, CreatingEffect, SubscribingEffect, SubscribedEffect,
     UnsubscribingEffect DEF Server, Kinds
<1>3. CASE EventLoop(c)
  BY <1>3, StartPushOwn, TimeOutOwn, ApplyErrorOwn, ApplyIllegalOwn, ApplyPulledOwn,
     HandleErrorOwn DEF EventLoop, Kinds
<1> QED
  BY <1>1, <1>2, <1>3

(* It holds before anything is built ... *)
LEMMA InitShelter == Init => ShelterInv
<1> SUFFICES ASSUME Init, NEW c \in Clients PROVE Unspanned(c) /\ Staying(c)
  BY DEF ShelterInv
<1>1. /\ inst[c] = 0 /\ dt[c] = NewMutable(Origins, "Disabled") /\ checked[c] = {}
      /\ net[c] = Idle
  BY DEF Init
<1>2. net[c].kind = "idle"
  BY <1>1 DEF Idle
<1>3. dt[c].state = "Disabled" /\ dt[c].pending = <<>> /\ dt[c].cp.cseq = 0
  BY <1>1, NewMutableFields DEF States
<1>4. Seen(c) = {"Disabled"}
  BY <1>2, <1>3 DEF Seen
<1> QED
  BY <1>1, <1>2, <1>3, <1>4 DEF Unspanned, Staying

(* ... and every step keeps it. *)
LEMMA NextShelter == ProtocolInv /\ ShelterInv /\ [Next]_vars => ShelterInv'
<1> SUFFICES ASSUME ProtocolInv, ShelterInv, [Next]_vars PROVE ShelterInv'
  OBVIOUS
<1>1. CASE Next
  <2>1. PICK c \in Clients : User(c) \/ Server(c) \/ EventLoop(c)
    BY <1>1 DEF Next
  <2>2. Frame(c) /\ Kinds(c)
    BY <2>1, EveryStep, EveryKind DEF StepOf
  <2> QED
    BY <2>2, ShelterOwnStep, ShelterBuild, ShelterRegister, ShelterServer, ShelterRemove
       DEF Kinds
<1>2. CASE UNCHANGED vars
  BY <1>2 DEF vars, ShelterInv, Unspanned, Staying, Seen, Linked
<1> QED
  BY <1>1, <1>2

(* The log, the last cseqs, the members and their checkpoints that the      *)
(* protocol shows.                                                          *)
TheLog == IF srv.present THEN srv.history ELSE <<>>
TheLast == IF srv.present THEN srv.cseqMap ELSE [c \in Clients |-> 0]
Joined == {d \in Clients : Attached(d)}
TheCp == [c \in Joined |-> dt[c].cp]

(* A step that leaves the log as it is. *)
SameLog == TheLog' = TheLog /\ TheLast' = TheLast

(* The steps of the abstract log, in these terms. *)
LEMMA LeaveMapped ==
    ASSUME NEW c \in Clients, SameLog, TheCp' = [d \in Joined \ {c} |-> TheCp[d]]
    PROVE  Log!Next
<1>1. Log!Leave(c)
  BY DEF Log!Leave, Log!Without, Log!Members, TheLog, TheLast, TheCp, Joined, SameLog
<1> QED
  BY <1>1 DEF Log!Next

(* A client that becomes attached joins it. *)
LEMMA JoinMapped ==
    ASSUME NEW c \in Clients, SameLog, c \notin Joined,
           NEW k \in [sseq : 0..Len(TheLog), cseq : 0..TheLast[c]],
           TheCp' = [d \in Joined \cup {c} |-> IF d = c THEN k ELSE TheCp[d]]
    PROVE  Log!Next
<1>1. Log!Join(c)
  BY DEF Log!Join, Log!Reached, Log!Members, TheLog, TheLast, TheCp, Joined, SameLog
<1> QED
  BY <1>1 DEF Log!Next

(* A checkpoint that moves forward is an advance. *)
LEMMA AdvanceMapped ==
    ASSUME NEW c \in Clients, SameLog, c \in Joined,
           NEW k \in [sseq : 0..Len(TheLog), cseq : 0..TheLast[c]],
           k.sseq >= TheCp[c].sseq, k.cseq >= TheCp[c].cseq,
           TheCp' = [TheCp EXCEPT ![c] = k]
    PROVE  Log!Next
<1>1. Log!Advance(c)
  BY DEF Log!Advance, Log!Reached, Log!Members, TheLog, TheLast, TheCp, Joined, SameLog
<1> QED
  BY <1>1 DEF Log!Next

(* A removed server entry is a dropped log. *)
LEMMA DropMapped ==
    ASSUME TheLast' = [c \in Clients |-> 0], TheLog' = <<>>, TheCp' = <<>>
    PROVE  Log!Next
<1>1. Log!Drop
  BY DEF Log!Drop, TheLog, TheLast, TheCp, Joined
<1> QED
  BY <1>1 DEF Log!Next

(* A stored pack is a push. *)
LEMMA PushMapped ==
    ASSUME NEW c \in Clients, NEW n \in 1..MaxMem,
           TheLast' = [TheLast EXCEPT ![c] = @ + n],
           TheLog' \in Seq(Transactions), Len(TheLog') = Len(TheLog) + n,
           \A i \in 1..Len(TheLog) : TheLog'[i] = TheLog[i],
           \A i \in 1..n : /\ TheLog'[Len(TheLog) + i].cuid = c
                           /\ TheLog'[Len(TheLog) + i].cseq = TheLast[c] + i,
           TheCp' \in {TheCp, [d \in Joined \ {c} |-> TheCp[d]]}
    PROVE  Log!Next
<1>1. Log!Transactions = Transactions
  BY DEF Log!Transactions, Transactions
<1>2. Log!Push(c, n)
  BY <1>1 DEF Log!Push, Log!Without, Log!Members, TheLog, TheLast, TheCp, Joined
<1> QED
  BY <1>2 DEF Log!Next

(* The empty log. *)
LEMMA InitMapped ==
    ASSUME TheLast = [c \in Clients |-> 0], TheLog = <<>>, TheCp = <<>>
    PROVE  Log!Init
  BY DEF Log!Init, TheLog, TheLast, TheCp, Joined

(* Without a change of the log, a step of client c makes it a member or     *)
(* not, or moves its checkpoint.                                            *)
LEMMA MemberStep ==
    ASSUME ProtocolInv, ProtocolInv', NEW c \in Clients, Frame(c), SameLog,
           \A d \in Clients \ {c} : Attached(d)' <=> Attached(d),
           Attached(c) /\ Attached(c)' => /\ dt'[c].cp.sseq >= dt[c].cp.sseq
                                          /\ dt'[c].cp.cseq >= dt[c].cp.cseq
    PROVE  Log!Next
<1> DEFINE k == dt'[c].cp
<1>1. \A d \in Clients \ {c} : dt'[d] = dt[d]
  BY DEF Frame
<1>2. \A d : d # c => (d \in Joined' <=> d \in Joined)
  BY DEF Joined
<1>3. \A d \in Joined : TheCp[d] = dt[d].cp
  BY DEF TheCp
<1>4. TheCp' = [d \in Joined' |-> dt'[d].cp] /\ TheCp = [d \in Joined |-> dt[d].cp]
  BY DEF TheCp
<1>5. Joined \subseteq Clients /\ Joined' \subseteq Clients
  BY DEF Joined
<1>6. ASSUME c \in Joined' PROVE k \in [sseq : 0..Len(TheLog), cseq : 0..TheLast[c]]
  <2>1. Linked(c)' /\ srv'.present
    BY <1>6 DEF Joined, Attached, Linked
  <2>2. Shape(c)' /\ Acknowledged(c)' /\ ServerShape(srv)'
    BY DEF ProtocolInv, ClientInv
  <2>3. k \in Checkpoints /\ k.sseq <= Len(srv'.history) /\ k.cseq <= srv'.cseqMap[c]
    BY <2>1, <2>2 DEF Acknowledged, Reached, Shape, Replica
  <2>4. TheLog = srv'.history /\ TheLast = srv'.cseqMap
    BY <2>1 DEF TheLog, TheLast, SameLog
  <2>5. Len(TheLog) \in Nat /\ TheLast[c] \in Nat
    BY <2>2, <2>4 DEF ServerShape
  <2> QED
    BY <2>3, <2>4, <2>5 DEF Checkpoints
<1>7. CASE c \notin Joined'
  <2>1. Joined' = Joined \ {c}
    BY <1>2, <1>7
  <2>2. TheCp' = [d \in Joined \ {c} |-> TheCp[d]]
    BY <1>1, <1>3, <1>4, <1>5, <2>1
  <2> QED
    BY <2>2, LeaveMapped
<1>8. CASE c \in Joined' /\ c \notin Joined
  <2>1. Joined' = Joined \cup {c}
    BY <1>2, <1>8
  <2>2. TheCp' = [d \in Joined \cup {c} |-> IF d = c THEN k ELSE TheCp[d]]
    BY <1>1, <1>3, <1>4, <1>5, <2>1
  <2>3. k \in [sseq : 0..Len(TheLog), cseq : 0..TheLast[c]]
    BY <1>6, <1>8
  <2> HIDE DEF k
  <2> QED
    BY <1>8, <2>2, <2>3, JoinMapped
<1>9. CASE c \in Joined' /\ c \in Joined
  <2>1. Joined' = Joined
    BY <1>2, <1>9
  <2>2. TheCp' = [TheCp EXCEPT ![c] = k]
    BY <1>1, <1>3, <1>4, <1>5, <2>1
  <2>3. k \in [sseq : 0..Len(TheLog), cseq : 0..TheLast[c]]
    BY <1>6, <1>9
  <2>4. k.sseq >= TheCp[c].sseq /\ k.cseq >= TheCp[c].cseq
    BY <1>3, <1>9 DEF Joined
  <2> HIDE DEF k
  <2> QED
    BY <1>9, <2>2, <2>3, <2>4, AdvanceMapped
<1> QED
  BY <1>7, <1>8, <1>9

(* A user thread or the event loop attaches or detaches its client or moves *)
(* its checkpoint.                                                          *)
LEMMA OwnStepMapped ==
    ASSUME ProtocolInv, ProtocolInv', NEW c \in Clients, Frame(c), OwnStep(c)
    PROVE  Log!Next
<1>1. srv' = srv /\ \A d \in Clients \ {c} : dt'[d] = dt[d]
  BY DEF OwnStep, Frame
<1>2. SameLog
  BY <1>1 DEF SameLog, TheLog, TheLast
<1>3. \A d \in Clients \ {c} : Attached(d)' <=> Attached(d)
  BY <1>1 DEF Attached
<1>4. dt'[c].cp.sseq >= dt[c].cp.sseq /\ dt'[c].cp.cseq >= dt[c].cp.cseq
  BY DEF OwnStep, Forward
<1> QED
  BY <1>2, <1>3, <1>4, MemberStep

(* Finding a server entry is no step of the log; making one starts from the *)
(* dropped log.                                                             *)
LEMMA BuildMapped ==
    ASSUME ProtocolInv, ProtocolInv', NEW c \in Clients, Frame(c), NEW st, Build(c, st)
    PROVE  Log!Next
<1>1. dt' = dt
  BY DEF Build
<1>2. dt[c].cp.sseq \in Nat /\ dt[c].cp.cseq \in Nat
  BY OwnFacts DEF Shape, Replica, Checkpoints
<1>3. CASE srv.present
  <2>1. srv' = srv
    BY <1>3 DEF Build
  <2>2. SameLog /\ \A d \in Clients \ {c} : Attached(d)' <=> Attached(d)
    BY <1>1, <2>1 DEF SameLog, TheLog, TheLast, Attached
  <2> QED
    BY <1>1, <1>2, <2>2, MemberStep
<1>4. CASE ~srv.present
  <2>1. srv'.wired = {} /\ srv'.history = <<>> /\ srv'.cseqMap = [x \in Clients |-> 0]
    BY <1>4 DEF Build, NewServer
  <2>2. SameLog /\ \A d \in Clients \ {c} : Attached(d)' <=> Attached(d)
    BY <1>4, <2>1 DEF SameLog, TheLog, TheLast, Attached
  <2> QED
    BY <1>1, <1>2, <2>2, MemberStep
<1> QED
  BY <1>3, <1>4

(* A new datatype is not attached yet. *)
LEMMA RegisterMapped ==
    ASSUME ProtocolInv, ProtocolInv', NEW c \in Clients, Frame(c), Register(c)
    PROVE  Log!Next
<1>1. /\ Domains /\ Shape(c) /\ ServerShape(srv)
  BY OwnFacts
<1>2. /\ net[c].kind = "register"
      /\ dt' = [dt EXCEPT ![c] = NewMutable(Origins, net[c].state)]
      /\ srv' = IF srv.present /\ srv.gen = net[c].gen
                THEN [srv EXCEPT !.wired = @ \cup {c}] ELSE srv
  BY DEF Register
<1>3. net[c].state \in InitialStates /\ net[c].state \in States
  BY <1>1, <1>2 DEF Shape, Exchange, InitialStates, States
<1>4. dt'[c] = NewMutable(Origins, net[c].state)
  BY <1>1, <1>2 DEF Domains
<1>5. dt'[c].state = net[c].state
  BY <1>3, <1>4, NewMutableFields
<1>6. ~Attached(c)'
  BY <1>3, <1>5 DEF Attached, InitialStates
<1>7. /\ srv'.present = srv.present /\ srv'.history = srv.history /\ srv'.cseqMap = srv.cseqMap
      /\ srv'.wired \in {srv.wired, srv.wired \cup {c}}
  BY <1>1, <1>2 DEF ServerShape
<1>8. SameLog
  BY <1>7 DEF SameLog, TheLog, TheLast
<1>9. \A d \in Clients \ {c} : Attached(d)' <=> Attached(d)
  BY <1>7 DEF Attached, Frame
<1> QED
  BY <1>6, <1>8, <1>9, MemberStep

(* The removal drops the log if it hits the current entry, even if clients  *)
(* have joined again.                                                       *)
LEMMA RemoveMapped ==
    ASSUME ProtocolInv, ProtocolInv', NEW c \in Clients, Frame(c), RemoveServer(c)
    PROVE  Log!Next
<1>1. ServerShape(srv) /\ dt' = dt
  BY OwnFacts DEF RemoveServer
<1>2. dt[c].cp.sseq \in Nat /\ dt[c].cp.cseq \in Nat
  BY OwnFacts DEF Shape, Replica, Checkpoints
<1>3. CASE srv' = srv
  <2>1. SameLog /\ \A d \in Clients \ {c} : Attached(d)' <=> Attached(d)
    BY <1>1, <1>3 DEF SameLog, TheLog, TheLast, Attached
  <2> QED
    BY <1>1, <1>2, <2>1, MemberStep
<1>4. CASE srv' # srv
  <2>1. srv' = [srv EXCEPT !.present = FALSE]
    BY <1>4 DEF RemoveServer
  <2>2. ~srv'.present
    BY <1>1, <2>1 DEF ServerShape
  <2>3. Joined' = {}
    BY <2>2 DEF Joined, Attached
  <2>4. TheCp' = <<>>
    BY <2>3 DEF TheCp
  <2>5. TheLog' = <<>> /\ TheLast' = [d \in Clients |-> 0]
    BY <2>2 DEF TheLog, TheLast
  <2> QED
    BY <2>4, <2>5, DropMapped
<1> QED
  BY <1>3, <1>4

(* What the server takes from a pack is never past a gap. *)
LEMMA PushContinues ==
    ASSUME ProtocolInv, ShelterInv, NEW c \in Clients, net[c].kind = "push", StoresPack(c),
           ~({"spanning", "unsubscribe"} \subseteq scenario.env)
    PROVE  dt[c].cp.cseq <= srv.cseqMap[c]
<1>1. /\ Acknowledged(c) /\ ServerShape(srv) /\ Unspanned(c) /\ Staying(c) /\ Phase(c)
  BY OwnFacts DEF ShelterInv
<1>2. srv.cseqMap[c] \in Nat
  BY <1>1 DEF ServerShape
<1>3. CASE Linked(c)
  BY <1>1, <1>3 DEF Acknowledged, Reached
<1>4. CASE ~Linked(c)
  <2>1. inst[c] >= 1
    BY <1>1 DEF Phase
  <2>2. "spanning" \notin scenario.env
    BY <1>1, <1>4, <2>1 DEF Staying
  <2>3. net[c].state \in InitialStates
    BY <1>4 DEF StoresPack, Linked, Births, InitialStates
  <2>4. Seen(c) \cap InitialStates # {}
    BY <2>3 DEF Seen
  <2> QED
    BY <1>1, <1>2, <2>2, <2>4 DEF Unspanned
<1> QED
  BY <1>3, <1>4

(* A push that is stored is a push to the log, and the last thing its       *)
(* client does as a member when it unsubscribes; any other answer is no     *)
(* step.                                                                    *)
LEMMA ServerMapped ==
    ASSUME ProtocolInv, ProtocolInv', ShelterInv, NEW c \in Clients, Frame(c), ServerEffect(c),
           ~({"spanning", "unsubscribe"} \subseteq scenario.env)
    PROVE  Log!Next
<1>1. ServerShape(srv) /\ dt' = dt /\ net[c].kind = "push"
  BY OwnFacts DEF ServerEffect, Reply
<1>2. dt[c].cp.sseq \in Nat /\ dt[c].cp.cseq \in Nat
  BY OwnFacts DEF Shape, Replica, Checkpoints
<1>3. CASE srv' = srv
  <2>1. SameLog /\ \A d \in Clients \ {c} : Attached(d)' <=> Attached(d)
    BY <1>1, <1>3 DEF SameLog, TheLog, TheLast, Attached
  <2> QED
    BY <1>1, <1>2, <2>1, MemberStep
<1>4. CASE StoresPack(c)
  <2>1. PICK new \in Seq(Transactions) :
           /\ srv'.history = srv.history \o new /\ Len(new) <= MaxMem
           /\ Continues(c, srv'.cseqMap, new)
    BY <1>1, <1>4, PushContinues DEF StoresPack, Appends
  <2>2. /\ srv.present /\ srv'.present /\ ServerShape(srv)'
        /\ \A d \in Clients \ {c} : d \in srv'.wired <=> d \in srv.wired
        /\ c \in srv'.wired => c \in srv.wired
    BY <1>4 DEF StoresPack
  <2>3. /\ TheLog = srv.history /\ TheLog' = srv'.history
        /\ TheLast = srv.cseqMap /\ TheLast' = srv'.cseqMap
    BY <2>2 DEF TheLog, TheLast
  <2>4. \A d \in Clients \ {c} : Attached(d)' <=> Attached(d)
    BY <1>1, <2>2 DEF Attached
  <2>5. srv.history \in Seq(Transactions) /\ srv.cseqMap \in [Clients -> Nat] /\ Len(new) \in Nat
    BY <1>1 DEF ServerShape
  <2>6. CASE Len(new) = 0
    <3>1. new = <<>>
      BY <2>6
    <3>2. srv'.history = srv.history
      BY <2>1, <2>5, <3>1
    <3>3. srv'.cseqMap = srv.cseqMap
      BY <2>1, <2>5, <2>6 DEF Continues
    <3>4. SameLog
      BY <2>3, <3>2, <3>3 DEF SameLog
    <3> QED
      BY <1>1, <1>2, <2>4, <3>4, MemberStep
  <2>7. CASE Len(new) # 0
    <3> DEFINE n == Len(new)
    <3>1. n \in 1..MaxMem
      BY <2>1, <2>5, <2>7, SyncAssumption
    <3>2. TheLast' = [TheLast EXCEPT ![c] = @ + n]
      BY <2>1, <2>3 DEF Continues
    <3>3. TheLog' \in Seq(Transactions) /\ Len(TheLog') = Len(TheLog) + n
      BY <2>1, <2>3, <2>5
    <3>4. /\ \A i \in 1..Len(TheLog) : TheLog'[i] = TheLog[i]
          /\ \A i \in 1..n : TheLog'[Len(TheLog) + i] = new[i]
      BY <2>1, <2>3, <2>5
    <3>5. \A i \in 1..n : /\ TheLog'[Len(TheLog) + i].cuid = c
                          /\ TheLog'[Len(TheLog) + i].cseq = TheLast[c] + i
      BY <2>1, <2>3, <3>4 DEF Continues
    <3>6. TheCp' \in {TheCp, [d \in Joined \ {c} |-> TheCp[d]]}
      <4>1. Joined' = Joined \/ Joined' = Joined \ {c}
        BY <1>1, <2>2, <2>4 DEF Joined, Attached
      <4>2. TheCp' = [d \in Joined' |-> dt[d].cp]
        BY <1>1 DEF TheCp
      <4> QED
        BY <4>1, <4>2 DEF TheCp
    <3> HIDE DEF n
    <3> QED
      BY <3>1, <3>2, <3>3, <3>4, <3>5, <3>6, PushMapped
  <2> QED
    BY <2>6, <2>7
<1> QED
  BY <1>3, <1>4 DEF ServerEffect

(* Initial states map to initial states. *)
LEMMA MappedInit == Init => Log!Init
<1> SUFFICES ASSUME Init PROVE Log!Init
  OBVIOUS
<1>1. ~srv.present
  BY DEF Init, NewServer
<1>2. Joined = {}
  BY <1>1 DEF Joined, Attached
<1>3. TheCp = <<>> /\ TheLog = <<>> /\ TheLast = [c \in Clients |-> 0]
  BY <1>1, <1>2 DEF TheCp, TheLog, TheLast
<1> QED
  BY <1>3, InitMapped

(* Every step maps to a step of the log or leaves it alone. *)
LEMMA MappedNext ==
    ASSUME ProtocolInv, ProtocolInv', ShelterInv, Sheltered, [Next]_vars
    PROVE  [Log!Next]_(Log!logVars)
<1>1. CASE Next
  <2>1. PICK c \in Clients : User(c) \/ Server(c) \/ EventLoop(c)
    BY <1>1 DEF Next
  <2>2. Frame(c) /\ Kinds(c)
    BY <2>1, EveryStep, EveryKind DEF StepOf
  <2>3. Log!Next
    BY <2>2, OwnStepMapped, BuildMapped, RegisterMapped, ServerMapped, RemoveMapped
       DEF Kinds, Sheltered
  <2> QED
    BY <2>3
<1>2. CASE UNCHANGED vars
  BY <1>2 DEF vars, Log!logVars, Attached
<1> QED
  BY <1>1, <1>2

(* The server and its clients implement ReplicatedLog for any number of     *)
(* clients, instances and operations, however exchanges time out, repeat or *)
(* cross: every client's transactions are in the history once, in order and *)
(* without a gap (push_transactions), and the checkpoint of an attached     *)
(* client only moves forward and never ahead of it (sync_checkpoint).       *)
THEOREM ProtocolImplementsLog == Spec /\ Sheltered => ImplementsLog
<1>1. Init => ProtocolInv /\ ShelterInv
  BY InitInv, InitShelter
<1>2. ProtocolInv /\ ShelterInv /\ [Next]_vars => ProtocolInv' /\ ShelterInv'
  BY NextInv, NextShelter
<1>3. ProtocolInv /\ Sheltered /\ [Next]_vars => Sheltered'
  <2> SUFFICES ASSUME ProtocolInv, Sheltered, [Next]_vars PROVE scenario' = scenario
    BY DEF Sheltered
  <2>1. CASE Next
    <3>1. PICK c \in Clients : User(c) \/ Server(c) \/ EventLoop(c)
      BY <2>1 DEF Next
    <3> QED
      BY <3>1, EveryStep DEF StepOf, Frame
  <2> QED
    BY <2>1 DEF vars
<1>4. Init => Log!Init
  BY MappedInit
<1>5. ProtocolInv /\ ProtocolInv' /\ ShelterInv /\ Sheltered /\ [Next]_vars => [Log!Next]_(Log!logVars)
  BY MappedNext
<1> QED
  BY <1>1, <1>2, <1>3, <1>4, <1>5, PTL DEF Spec, ImplementsLog, Log!Spec

-----------------------------------------------------------------------------
(* A step that opens, extends and commits no transaction. *)
Shrinks(c) ==
    /\ dt'[c].pending = dt[c].pending \/ dt'[c].pending = <<>>
    /\ dt'[c].buf = dt[c].buf \/ dt'[c].buf = EmptyBuffer

(* What changes the state of the datatype and nothing else of it. *)
LEMMA StateShrinks ==
    ASSUME ProtocolInv, NEW c \in Clients, NEW st,
           dt' = [dt EXCEPT ![c].state = st], checked'[c] \subseteq checked[c]
    PROVE  Shrinks(c)
<1>1. Domains /\ Replica(dt[c])
  BY OwnFacts DEF Shape
<1>2. dt'[c] = [dt[c] EXCEPT !.state = st]
  BY <1>1 DEF Domains
<1>3. dt'[c].pending = dt[c].pending /\ dt'[c].buf = dt[c].buf
  BY <1>1, <1>2 DEF Replica
<1> QED
  BY <1>3 DEF Shrinks

(* The users' steps that are no writes. *)
LEMMA UserShrinks ==
    ASSUME ProtocolInv, NEW c \in Clients,
           (\E st : Build(c, st)) \/ CheckSubscribed(c) \/ SetUnsubscribing(c)
    PROVE  Shrinks(c)
<1>1. Domains
  BY OwnFacts
<1>2. CASE \E st : Build(c, st)
  BY <1>1, <1>2 DEF Build, Shrinks, Domains
<1>3. CASE CheckSubscribed(c)
  BY <1>1, <1>3 DEF CheckSubscribed, Shrinks, Domains
<1>4. CASE SetUnsubscribing(c)
  <2>1. dt' = [dt EXCEPT ![c].state = "Unsubscribing"] /\ checked'[c] \subseteq checked[c]
    BY <1>1, <1>4 DEF SetUnsubscribing, Domains
  <2> QED
    BY <2>1, StateShrinks
<1> QED
  BY <1>2, <1>3, <1>4

(* The server touches no datatype. *)
LEMMA ServerShrinks ==
    ASSUME ProtocolInv, NEW c \in Clients, ServerEffect(c) \/ RemoveServer(c)
    PROVE  Shrinks(c)
<1>1. dt' = dt /\ checked' = checked
  BY DEF ServerEffect, Reply, RemoveServer, clientVars
<1> QED
  BY <1>1 DEF Shrinks

(* The event loop writes nothing: it resets the datatype, takes over a      *)
(* snapshot or leaves the transactions alone.                               *)
LEMMA LoopShrinks ==
    ASSUME ProtocolInv, NEW c \in Clients, EventLoop(c)
    PROVE  Shrinks(c)
<1>1. Domains /\ Shape(c) /\ Phase(c) /\ Replica(dt[c])
  BY OwnFacts DEF Shape
<1>2. CASE Register(c)
  <2> DEFINE m == dt'[c]
             st == net[c].state
  <2>1. dt' = [dt EXCEPT ![c] = NewMutable(Origins, st)] /\ checked' = checked
        /\ net[c].kind = "register"
    BY <1>2 DEF Register
  <2>2. m = NewMutable(Origins, st) /\ st \in States
    BY <1>1, <2>1 DEF Domains, Shape, Exchange, InitialStates, States
  <2>3. m.pending = <<>> /\ m.buf = EmptyBuffer
    BY <2>2 DEF NewMutable
  <2> QED
    BY <2>1, <2>3 DEF Shrinks
<1>3. CASE StartPush(c) \/ TimeOut(c)
  BY <1>3 DEF StartPush, TimeOut, clientVars, Shrinks
<1>4. CASE ApplyError(c)
  <2>1. dt' = [dt EXCEPT ![c].state = net[c].state] /\ checked' = checked
    BY <1>4 DEF ApplyError, clientVars
  <2> DEFINE st == net[c].state
  <2> HIDE DEF st
  <2>2. dt' = [dt EXCEPT ![c].state = st]
    BY <2>1 DEF st
  <2> QED
    BY <2>1, <2>2, StateShrinks
<1>5. CASE ApplyIllegal(c)
  <2>1. dt' = [dt EXCEPT ![c].state = "Disabled"] /\ checked' = checked
    BY <1>5 DEF ApplyIllegal, clientVars
  <2> QED
    BY <2>1, StateShrinks
<1>6. CASE ApplyPulled(c)
  <2> DEFINE r == net[c]
             m == SubscribedReplica(c, r)
             n == dt'[c]
             panic == \/ dt[c].state = "Disabled"
                      \/ "debug" \in scenario.env /\ Underflows(m, r)
  <2>1. /\ r.kind = "pulled" /\ checked' = checked
        /\ dt' = [dt EXCEPT ![c] = IF panic THEN m ELSE PulledReplica(m, r)]
    BY <1>6 DEF ApplyPulled, Arrived, clientVars
  <2> HIDE DEF panic, m
  <2>2. n = m \/ n = PulledReplica(m, r)
    BY <1>1, <2>1 DEF Domains
  <2>3. Live(c) /\ r.cp \in Checkpoints /\ r.state \in States
    BY <1>1, <2>1 DEF Phase, Shape, Exchange, Response
  <2>4. /\ Replica(m)
        /\ m = dt[c] \/ (m.buf = EmptyBuffer /\ m.pending = <<>>)
    <3>1. m = SubscribedReplica(c, r)
      BY DEF m
    <3> QED
      BY <2>3, <3>1, SubscribedReplicaFields
  <2>5. n.buf = m.buf /\ n.pending = m.pending
    <3> HIDE DEF r, n
    <3>1. /\ PulledReplica(m, r).buf = m.buf
          /\ PulledReplica(m, r).pending = m.pending
      BY <2>3, <2>4, PulledFields
    <3> QED
      BY <2>2, <3>1
  <2> QED
    BY <2>1, <2>4, <2>5 DEF Shrinks
<1>7. CASE HandleError(c)
  <2> DEFINE m == dt[c]
             n == dt'[c]
             q == Reset(m)
  <2>1. net[c].kind = "error" /\ net[c].recovery = "Disable"
    BY <1>1, <1>7 DEF HandleError, Shape, Exchange
  <2>2. ApplyAction(m, "Disable") = Disable(m)
    BY DEF ApplyAction
  <2>3. dt' = [dt EXCEPT ![c] = Disable(@)] /\ checked' = checked
    BY <1>1, <1>7, <2>1, <2>2 DEF HandleError, clientVars, Domains
  <2>4. n = [q EXCEPT !.state = "Disabled"] /\ Replica(m)
    BY <1>1, <2>3 DEF Domains, Disable
  <2>5. n.buf = EmptyBuffer /\ n.pending = <<>>
    <3> HIDE DEF m, n
    <3>1. Replica(q) /\ q.buf = EmptyBuffer /\ q.pending = <<>>
      BY <2>4, ResetFields
    <3> HIDE DEF q
    <3> QED
      BY <2>4, <3>1 DEF Replica
  <2> QED
    BY <2>3, <2>5 DEF Shrinks
<1> QED
  BY <1>2, <1>3, <1>4, <1>5, <1>6, <1>7 DEF EventLoop

-----------------------------------------------------------------------------
(* The first of some operations was executed by one of the first n          *)
(* datatypes of client c.                                                   *)
Signed(c, n, ops) == ops # <<>> /\ ops[1] \in {c} \X (1..n)

(* The open and the committed transactions of client c are those of         *)
(* datatypes it has built.                                                  *)
Begun(c) ==
    /\ dt[c].pending # <<>> => Signed(c, inst[c], dt[c].pending)
    /\ \A i \in 1..Len(dt[c].buf.txs) : Signed(c, inst[c], dt[c].buf.txs[i].ops)

(* The places of the history that hold transactions of client c. *)
Entries(c) == {i \in 1..Len(srv.history) : srv.history[i].cuid = c}

(* They are those of datatypes it has built, in the order of their cseqs,   *)
(* and the last one has the cseq that the server counts for it.             *)
Entered(c) ==
    /\ \A i \in Entries(c) : /\ Signed(c, inst[c], srv.history[i].ops)
                             /\ srv.history[i].cseq <= srv.cseqMap[c]
    /\ \A i, j \in Entries(c) : i < j => srv.history[i].cseq < srv.history[j].cseq
    /\ srv.cseqMap[c] > 0 => \E i \in Entries(c) : srv.history[i].cseq = srv.cseqMap[c]

(* What the server's books say of every client. *)
LedgerInv == \A c \in Clients : Begun(c) /\ Entered(c)

(* A step leaves the entries of client d alone ... *)
SameEntries(d) ==
    /\ Entries(d)' = Entries(d) /\ srv'.cseqMap[d] = srv.cseqMap[d]
    /\ \A i \in Entries(d) : srv'.history[i] = srv.history[i]

(* ... or puts a new server in the place of the old one. *)
NoEntries(d) == Entries(d)' = {} /\ srv'.cseqMap[d] = 0

(* Datatypes once built stay built. *)
LEMMA SignedLater ==
    ASSUME NEW c, NEW m \in Nat, NEW n \in Nat, m <= n, NEW ops, Signed(c, m, ops)
    PROVE  Signed(c, n, ops)
<1>1. ops # <<>> /\ ops[1] \in {c} \X (1..m)
  BY DEF Signed
<1>2. 1..m \subseteq 1..n
  OBVIOUS
<1>3. {c} \X (1..m) \subseteq {c} \X (1..n)
  BY <1>2
<1> QED
  BY <1>1, <1>3 DEF Signed

(* Both keep what the books say. *)
LEMMA EnteredKept ==
    ASSUME ProtocolInv, ProtocolInv', NEW d \in Clients, Entered(d),
           SameEntries(d) \/ NoEntries(d), inst[d] <= inst'[d]
    PROVE  Entered(d)'
<1>1. inst[d] \in Nat /\ inst'[d] \in Nat
  BY SyncAssumption DEF ProtocolInv, ClientInv, Shape
<1>2. CASE SameEntries(d)
  <2>1. \A i \in Entries(d) : Signed(d, inst[d], srv.history[i].ops)
    BY DEF Entered
  <2>2. ASSUME NEW i \in Entries(d) PROVE Signed(d, inst'[d], srv.history[i].ops)
    <3> DEFINE m == inst[d]
               n == inst'[d]
               ops == srv.history[i].ops
    <3>1. m \in Nat /\ n \in Nat /\ m <= n /\ Signed(d, m, ops)
      BY <1>1, <2>1
    <3> HIDE DEF m, n, ops
    <3>2. Signed(d, n, ops)
      BY <3>1, SignedLater
    <3> QED
      BY <3>2 DEF n, ops
  <2> QED
    BY <1>2, <2>2 DEF Entered, SameEntries
<1>3. CASE NoEntries(d)
  BY <1>3 DEF Entered, NoEntries
<1> QED
  BY <1>2, <1>3

(* A step that leaves the server's books alone. *)
LEMMA SameStore ==
    ASSUME srv'.history = srv.history, srv'.cseqMap = srv.cseqMap
    PROVE  \A d \in Clients : SameEntries(d)
BY DEF SameEntries, Entries

(* A step of client c keeps the books of the others. *)
LEMMA LedgerOthers ==
    ASSUME ProtocolInv, ProtocolInv', LedgerInv, NEW c \in Clients, Frame(c),
           \A d \in Clients \ {c} : SameEntries(d) \/ NoEntries(d),
           Begun(c)', Entered(c)'
    PROVE  LedgerInv'
<1> SUFFICES ASSUME NEW d \in Clients \ {c} PROVE Begun(d)' /\ Entered(d)'
  BY DEF LedgerInv
<1>1. inst'[d] = inst[d] /\ dt'[d] = dt[d] /\ Begun(d) /\ Entered(d)
  BY DEF Frame, LedgerInv
<1>2. inst[d] \in Nat
  BY SyncAssumption DEF ProtocolInv, ClientInv, Shape
<1>3. inst[d] <= inst'[d]
  BY <1>1, <1>2
<1> QED
  BY <1>1, <1>3, EnteredKept DEF Begun

(* A step of client c that begins and commits nothing. *)
LEMMA ShrinksBegun ==
    ASSUME ProtocolInv, ProtocolInv', NEW c \in Clients, Begun(c), Shrinks(c),
           inst[c] <= inst'[c]
    PROVE  Begun(c)'
<1> DEFINE m == inst[c]
           n == inst'[c]
<1>1. m \in Nat /\ n \in Nat /\ m <= n
  BY SyncAssumption DEF ProtocolInv, ClientInv, Shape
<1>2. /\ dt[c].pending # <<>> => Signed(c, m, dt[c].pending)
      /\ \A i \in 1..Len(dt[c].buf.txs) : Signed(c, m, dt[c].buf.txs[i].ops)
  BY DEF Begun
<1> HIDE DEF m, n
<1>3. /\ dt[c].pending # <<>> => Signed(c, n, dt[c].pending)
      /\ \A i \in 1..Len(dt[c].buf.txs) : Signed(c, n, dt[c].buf.txs[i].ops)
  BY <1>1, <1>2, SignedLater
<1>4. EmptyBuffer.txs = <<>> /\ Len(<<>>) = 0
  BY DEF EmptyBuffer
<1>5. dt'[c].pending # <<>> => Signed(c, n, dt'[c].pending)
  BY <1>3 DEF Shrinks
<1>6. \A i \in 1..Len(dt'[c].buf.txs) : Signed(c, n, dt'[c].buf.txs[i].ops)
  <2>1. CASE dt'[c].buf = dt[c].buf
    BY <1>3, <2>1
  <2>2. CASE dt'[c].buf = EmptyBuffer
    <3>1. Len(dt'[c].buf.txs) = 0
      BY <1>4, <2>2
    <3> QED
      BY <3>1
  <2> QED
    BY <2>1, <2>2 DEF Shrinks
<1> QED
  BY <1>5, <1>6 DEF Begun, n

(* execute_local_operation: the operation is the current datatype's. *)
LEMMA ExecuteOpBegun ==
    ASSUME ProtocolInv, NEW c \in Clients, Begun(c), ExecuteOp(c)
    PROVE  Begun(c)'
<1> DEFINE m == dt[c]
           n == dt'[c]
           op == <<c, inst[c]>>
<1>1. Domains /\ Replica(m) /\ Shape(c) /\ Phase(c)
  BY OwnFacts DEF Shape
<1>2. /\ "write" \in checked[c] /\ dt' = [dt EXCEPT ![c] = ExecuteLocal(@, op)]
      /\ inst' = inst
  BY DEF ExecuteOp
<1>3. op \in Origins /\ op \in {c} \X (1..inst[c])
  BY <1>1, <1>2, SyncAssumption DEF Phase, Shape, Origins
<1>4. n = ExecuteLocal(m, op)
  BY <1>1, <1>2 DEF Domains
<1>5. n.buf = m.buf /\ n.pending # <<>> /\ n.pending[1] \in {op, m.pending[1]}
      /\ (m.pending = <<>> => n.pending[1] = op)
  <2> HIDE DEF m, n, op
  <2>1. n.buf = m.buf /\ n.pending # <<>>
    BY <1>1, <1>3, <1>4, ExecuteLocalFields
  <2>2. CASE m.pending = <<>>
    <3>1. n.pending = <<op>>
      BY <1>1, <1>4, <2>2 DEF ExecuteLocal, Replica
    <3> QED
      BY <2>1, <3>1
  <2>3. CASE m.pending # <<>>
    <3> DEFINE old == m.pending
    <3>1. n.pending = Append(old, op)
      BY <1>1, <1>4, <2>3 DEF ExecuteLocal, Replica
    <3>2. old \in Seq(Origins) /\ old # <<>>
      BY <1>1, <2>3 DEF Replica
    <3> HIDE DEF old
    <3>3. Append(old, op)[1] = old[1]
      BY <1>3, <3>2
    <3> QED
      BY <2>1, <2>3, <3>1, <3>3 DEF old
  <2> QED
    BY <2>2, <2>3
<1>6. Signed(c, inst[c], n.pending)
  BY <1>3, <1>5 DEF Begun, Signed
<1> QED
  BY <1>2, <1>5, <1>6 DEF Begun

(* end_transaction commits the open transaction as it is. *)
LEMMA EndTxBegun ==
    ASSUME ProtocolInv, NEW c \in Clients, Begun(c), NEW ok \in BOOLEAN, EndTx(c, ok)
    PROVE  Begun(c)'
<1> DEFINE m == dt[c]
           n == dt'[c]
           tx == PendingTx(m, c)
           old == m.buf.txs
           new == n.buf.txs
<1>1. Domains /\ Replica(m)
  BY OwnFacts DEF Shape
<1>2. /\ m.pending # <<>> /\ dt' = [dt EXCEPT ![c] = EndTransaction(@, c, ok, MaxMem)]
      /\ inst' = inst
  BY DEF EndTx, clientVars
<1>3. n = EndTransaction(m, c, ok, MaxMem)
  BY <1>1, <1>2 DEF Domains
<1>4. /\ n.pending = <<>>
      /\ n.buf = m.buf \/ (n.buf.txs = Append(m.buf.txs, tx) /\ tx \in Transactions)
  <2> HIDE DEF m, n
  <2> QED
    BY <1>1, <1>2, <1>3, EndTransactionFields, DoRollbackFields
<1>5. /\ Signed(c, inst[c], m.pending) /\ tx.ops = m.pending
      /\ \A i \in 1..Len(old) : Signed(c, inst[c], old[i].ops)
  BY <1>2 DEF Begun, PendingTx
<1>6. \A i \in 1..Len(new) : Signed(c, inst[c], new[i].ops)
  <2>1. CASE n.buf = m.buf
    BY <1>5, <2>1
  <2>2. CASE n.buf.txs = Append(m.buf.txs, tx) /\ tx \in Transactions
    <3>1. new = Append(old, tx) /\ old \in Seq(Transactions) /\ tx \in Transactions
      BY <1>1, <2>2 DEF Replica, Buffers
    <3>2. Signed(c, inst[c], tx.ops)
      BY <1>5
    <3> HIDE DEF new, old, tx
    <3>3. /\ Len(old) \in Nat /\ Len(new) = Len(old) + 1 /\ new[Len(old) + 1] = tx
          /\ \A i \in 1..Len(old) : new[i] = old[i]
      BY <3>1
    <3>4. \A i \in 1..Len(new) : i \in 1..Len(old) \/ i = Len(old) + 1
      BY <3>3
    <3> QED
      BY <1>5, <3>2, <3>3, <3>4
  <2> QED
    BY <1>4, <2>1, <2>2
<1> QED
  BY <1>2, <1>4, <1>6 DEF Begun

(* push_transactions enters what it takes after all it has of the client,   *)
(* and touches no other client's entries.                                   *)
LEMMA PackEntered ==
    ASSUME ProtocolInv, NEW c \in Clients, Begun(c), Entered(c), StoresPack(c),
           inst' = inst
    PROVE  Entered(c)' /\ \A d \in Clients \ {c} : SameEntries(d)
<1> DEFINE h == srv.history
           g == srv'.history
           known == srv.cseqMap[c]
           last == srv'.cseqMap[c]
           all == dt[c].buf.txs
           size == Len(h)
<1>1. PICK new \in Seq(Transactions) :
         /\ srv'.history = srv.history \o new /\ Follows(c, srv'.cseqMap, new)
  BY DEF StoresPack, Appends
<1>2. PICK from \in Nat :
         /\ known <= from
         /\ \A i \in 1..Len(new) : /\ from + i <= Len(all) /\ new[i] = all[from + i]
                                   /\ new[i].cseq = from + i /\ new[i].cuid = c
         /\ last = IF Len(new) = 0 THEN known ELSE from + Len(new)
  BY <1>1 DEF Follows
<1>3. /\ h \in Seq(Transactions) /\ g = h \o new /\ known \in Nat /\ inst[c] \in Nat
      /\ all \in Seq(Transactions)
  <2>1. /\ h \in Seq(Transactions) /\ srv.cseqMap \in [Clients -> Nat]
    BY OwnFacts DEF ServerShape
  <2>2. inst[c] \in Nat
    BY OwnFacts, SyncAssumption DEF Shape
  <2>3. Replica(dt[c])
    BY OwnFacts DEF Shape
  <2>4. all \in Seq(Transactions)
    BY <2>3 DEF Replica, Buffers
  <2> QED
    BY <1>1, <2>1, <2>2, <2>4
<1>4. \A i \in 1..Len(all) : Signed(c, inst[c], all[i].ops)
  BY DEF Begun
<1>5. /\ \A i \in Entries(c) : Signed(c, inst[c], h[i].ops) /\ h[i].cseq <= known
      /\ \A i, j \in Entries(c) : i < j => h[i].cseq < h[j].cseq
      /\ known > 0 => \E i \in Entries(c) : h[i].cseq = known
  BY DEF Entered
<1>6. \A d \in Clients : /\ Entries(d) = {i \in 1..Len(h) : h[i].cuid = d}
                         /\ Entries(d)' = {i \in 1..Len(g) : g[i].cuid = d}
  BY DEF Entries
<1>7. \A d \in Clients \ {c} : srv'.cseqMap[d] = srv.cseqMap[d]
  BY DEF StoresPack
<1> HIDE DEF h, g, known, last, all
<1>8. /\ size \in Nat /\ Len(new) \in Nat /\ Len(g) = size + Len(new)
      /\ \A i \in 1..size : g[i] = h[i]
      /\ \A i \in 1..Len(new) : g[size + i] = new[i]
      /\ \A i \in 1..size : h[i].cseq \in Nat
  <2>1. \A i \in 1..size : h[i] \in Transactions
    BY <1>3
  <2> QED
    BY <1>3, <2>1 DEF Transactions
<1> HIDE DEF size
<1>9. \A i \in 1..Len(g) : i \in 1..size \/ (i - size \in 1..Len(new) /\ i = size + (i - size))
  BY <1>8
<1>10. ASSUME NEW i \in 1..Len(g), i \notin 1..size
       PROVE  /\ g[i].cuid = c /\ g[i].cseq = from + (i - size)
              /\ Signed(c, inst[c], g[i].ops) /\ i - size \in 1..Len(new)
  <2> DEFINE j == i - size
  <2>1. j \in 1..Len(new) /\ i = size + j
    BY <1>9, <1>10
  <2> HIDE DEF j
  <2>2. g[i] = new[j] /\ from + j \in 1..Len(all)
    <3>1. g[i] = new[j]
      BY <1>8, <2>1
    <3>2. from + j <= Len(all)
      BY <1>2, <2>1
    <3>3. Len(all) \in Nat
      BY <1>3
    <3>4. j \in Nat /\ j >= 1
      BY <1>8, <2>1
    <3> QED
      BY <3>1, <3>2, <3>3, <3>4
  <2> QED
    BY <1>2, <1>4, <2>1, <2>2 DEF j
<1>11. Entries(c)' \cap (1..size) = Entries(c)
  BY <1>6, <1>8 DEF size
<1>12. \A i \in Entries(c) : i \in 1..size /\ g[i] = h[i] /\ i \in Entries(c)'
  BY <1>8, <1>11
<1>13. \A i \in Entries(c)' : i \in Entries(c) \/ (i \in 1..Len(g) /\ i \notin 1..size)
  BY <1>6, <1>11
<1>14. last \in Nat /\ known <= last
  BY <1>2, <1>3, <1>8
<1>15. ASSUME NEW i \in Entries(c)'
       PROVE  Signed(c, inst[c], g[i].ops) /\ g[i].cseq <= last
  <2>1. CASE i \in Entries(c)
    <3>1. g[i] = h[i] /\ h[i].cseq \in Nat /\ h[i].cseq <= known
      BY <1>5, <1>8, <1>12, <2>1
    <3>2. g[i].cseq <= last
      BY <1>3, <1>14, <3>1
    <3> QED
      BY <1>5, <2>1, <3>1, <3>2
  <2>2. CASE i \in 1..Len(g) /\ i \notin 1..size
    <3>1. /\ g[i].cseq = from + (i - size) /\ Signed(c, inst[c], g[i].ops)
          /\ i - size \in 1..Len(new)
      BY <1>10, <2>2
    <3>2. last = from + Len(new)
      BY <1>2, <1>8, <3>1
    <3> QED
      BY <1>2, <1>8, <3>1, <3>2
  <2> QED
    BY <1>13, <2>1, <2>2
<1>16. ASSUME NEW i \in Entries(c)', NEW j \in Entries(c)', i < j PROVE g[i].cseq < g[j].cseq
  <2>1. i \in Nat /\ j \in Nat
    BY <1>6
  <2>2. CASE i \in Entries(c) /\ j \in Entries(c)
    BY <1>5, <1>12, <1>16, <2>2
  <2>3. CASE i \in Entries(c) /\ j \in 1..Len(g) /\ j \notin 1..size
    <3>1. g[i] = h[i] /\ h[i].cseq \in Nat /\ h[i].cseq <= known
      BY <1>5, <1>8, <1>12, <2>3
    <3>2. g[j].cseq = from + (j - size) /\ j - size \in 1..Len(new)
      BY <1>10, <2>3
    <3>3. known <= from /\ known \in Nat /\ from \in Nat /\ Len(new) \in Nat
      BY <1>2, <1>3, <1>8
    <3> DEFINE a == h[i].cseq
               n == j - size
    <3>4. a \in Nat /\ n \in Nat /\ n >= 1 /\ a <= known /\ g[i].cseq = a /\ g[j].cseq = from + n
      BY <3>1, <3>2, <3>3
    <3> HIDE DEF a, n
    <3>5. a < from + n
      BY ONLY <3>3, <3>4
    <3> QED
      BY <3>4, <3>5
  <2>4. CASE i \notin 1..size /\ i \in 1..Len(g) /\ j \in 1..Len(g) /\ j \notin 1..size
    <3>1. /\ g[i].cseq = from + (i - size) /\ g[j].cseq = from + (j - size)
      BY <1>10, <2>4
    <3> QED
      BY <1>8, <1>16, <2>1, <3>1
  <2>5. j \in Entries(c) => i \in 1..size
    <3>1. j \in Entries(c) => j \in 1..size
      BY <1>12
    <3>2. i >= 1 /\ size \in Nat
      BY <1>6, <1>8
    <3> QED
      BY <1>16, <2>1, <3>1, <3>2
  <2> QED
    BY <1>12, <1>13, <2>2, <2>3, <2>4, <2>5
<1>17. ASSUME last > 0 PROVE \E i \in Entries(c)' : g[i].cseq = last
  <2>1. CASE Len(new) = 0
    <3>1. last = known
      BY <1>2, <2>1
    <3> QED
      BY <1>5, <1>12, <1>17, <3>1
  <2>2. CASE Len(new) # 0
    <3> DEFINE i == size + Len(new)
    <3>1. i \in 1..Len(g) /\ i \notin 1..size /\ i - size = Len(new)
      BY <1>8, <2>2
    <3> HIDE DEF i
    <3>2. g[i].cuid = c /\ g[i].cseq = from + Len(new)
      BY <1>10, <3>1
    <3> QED
      BY <1>2, <1>6, <2>2, <3>1, <3>2
  <2> QED
    BY <2>1, <2>2
<1>18. Entered(c)'
  BY <1>15, <1>16, <1>17 DEF Entered, g, last
<1>19. ASSUME NEW d \in Clients \ {c} PROVE SameEntries(d)
  <2>1. Entries(d)' = Entries(d)
    <3>1. \A i \in 1..Len(g) : g[i].cuid = d => i \in 1..size
      BY <1>10
    <3>2. \A i \in 1..size : i \in 1..Len(g)
      BY <1>8
    <3>3. \A i \in 1..size : g[i] = h[i]
      BY <1>8
    <3>4. Entries(d) = {i \in 1..size : h[i].cuid = d}
      BY <1>6 DEF size
    <3>5. Entries(d)' = {i \in 1..Len(g) : g[i].cuid = d}
      BY <1>6
    <3> QED
      BY <3>1, <3>2, <3>3, <3>4, <3>5
  <2>2. \A i \in Entries(d) : g[i] = h[i]
    BY <1>6, <1>8 DEF size
  <2> QED
    BY <1>7, <2>1, <2>2 DEF SameEntries, g, h
<1> QED
  BY <1>18, <1>19

(* A step of the users or of the event loop that leaves the server's books  *)
(* alone.                                                                   *)
LEMMA LedgerSame ==
    ASSUME ProtocolInv, ProtocolInv', LedgerInv, NEW c \in Clients, Frame(c),
           srv'.history = srv.history, srv'.cseqMap = srv.cseqMap, inst[c] <= inst'[c],
           Begun(c)'
    PROVE  LedgerInv'
<1>1. \A d \in Clients : SameEntries(d)
  BY SameStore
<1>2. Entered(c)'
  BY <1>1, EnteredKept DEF LedgerInv
<1> QED
  BY <1>1, <1>2, LedgerOthers

(* What each kind of step does to the books of its client. *)
LEMMA LedgerStep ==
    ASSUME ProtocolInv, ProtocolInv', LedgerInv, NEW c \in Clients, Frame(c),
           User(c) \/ Server(c) \/ EventLoop(c)
    PROVE  LedgerInv'
<1>1. Domains /\ inst[c] \in Nat /\ ServerShape(srv) /\ Begun(c) /\ Entered(c)
  BY OwnFacts, SyncAssumption DEF Shape, LedgerInv
<1>2. inst[c] <= inst[c] /\ inst[c] <= inst[c] + 1
  BY <1>1
<1>3. ASSUME NEW st, Build(c, st) PROVE LedgerInv'
  <2>1. inst' = inst
    BY <1>3 DEF Build
  <2>2. Begun(c)'
    BY <1>1, <1>2, <1>3, <2>1, UserShrinks, ShrinksBegun
  <2>3. CASE srv' = srv
    BY <1>2, <2>1, <2>2, <2>3, LedgerSame
  <2>4. CASE srv' # srv
    <3>1. srv'.history = <<>> /\ srv'.cseqMap = [x \in Clients |-> 0]
      BY <1>3, <2>4 DEF Build, NewServer
    <3>2. Len(srv'.history) = 0
      BY <3>1
    <3>3. \A d \in Clients : NoEntries(d)
      BY <3>1, <3>2 DEF NoEntries, Entries
    <3>4. Entered(c)'
      BY <1>1, <1>2, <2>1, <3>3, EnteredKept
    <3> QED
      BY <2>2, <3>3, <3>4, LedgerOthers
  <2> QED
    BY <2>3, <2>4
<1>4. CASE CheckWritable(c)
  <2>1. srv' = srv /\ inst' = inst /\ dt' = dt
    BY <1>4 DEF CheckWritable
  <2>2. Begun(c)'
    BY <1>1, <2>1 DEF Begun
  <2> QED
    BY <1>2, <2>1, <2>2, LedgerSame
<1>5. CASE ExecuteOp(c)
  <2>1. srv' = srv /\ inst' = inst
    BY <1>5 DEF ExecuteOp
  <2> QED
    BY <1>1, <1>2, <1>5, <2>1, ExecuteOpBegun, LedgerSame
<1>6. ASSUME NEW ok \in BOOLEAN, EndTx(c, ok) PROVE LedgerInv'
  <2>1. srv' = srv /\ inst' = inst
    BY <1>6 DEF EndTx, clientVars
  <2> QED
    BY <1>1, <1>2, <1>6, <2>1, EndTxBegun, LedgerSame
<1>7. CASE CheckSubscribed(c) \/ SetUnsubscribing(c)
  <2>1. srv' = srv /\ inst' = inst
    BY <1>7 DEF CheckSubscribed, SetUnsubscribing
  <2>2. Begun(c)'
    BY <1>1, <1>2, <1>7, <2>1, UserShrinks, ShrinksBegun
  <2> QED
    BY <1>2, <2>1, <2>2, LedgerSame
<1>8. CASE ServerEffect(c)
  <2>1. dt' = dt /\ inst' = inst
    BY <1>8 DEF ServerEffect, Reply, clientVars
  <2>2. Begun(c)'
    BY <1>1, <2>1 DEF Begun
  <2>3. CASE srv' = srv
    BY <1>2, <2>1, <2>2, <2>3, LedgerSame
  <2>4. CASE StoresPack(c)
    BY <1>1, <2>1, <2>2, <2>4, PackEntered, LedgerOthers
  <2> QED
    BY <1>8, <2>3, <2>4 DEF ServerEffect
<1>9. CASE RemoveServer(c)
  <2>1. /\ dt' = dt /\ inst' = inst /\ srv'.history = srv.history
        /\ srv'.cseqMap = srv.cseqMap
    BY <1>1, <1>9 DEF RemoveServer, clientVars, ServerShape
  <2>2. Begun(c)'
    BY <1>1, <2>1 DEF Begun
  <2> QED
    BY <1>2, <2>1, <2>2, LedgerSame
<1>10. CASE EventLoop(c)
  <2>1. /\ srv'.history = srv.history /\ srv'.cseqMap = srv.cseqMap
        /\ inst'[c] \in {inst[c], inst[c] + 1}
    <3>1. CASE Register(c)
      BY <1>1, <3>1 DEF Register, ServerShape, Domains
    <3>2. CASE ~Register(c)
      BY <1>10, <3>2 DEF EventLoop, StartPush, TimeOut, ApplyError, ApplyIllegal, ApplyPulled,
                         HandleError, clientVars
    <3> QED
      BY <3>1, <3>2
  <2>2. inst[c] <= inst'[c]
    BY <1>1, <2>1
  <2>3. Begun(c)'
    BY <1>1, <1>10, <2>2, LoopShrinks, ShrinksBegun
  <2> QED
    BY <2>1, <2>2, <2>3, LedgerSame
<1>11. Server(c) => ServerEffect(c) \/ RemoveServer(c)
  BY RefusalEffect, CreatingEffect, SubscribingEffect, SubscribedEffect,
     UnsubscribingEffect DEF Server
<1> QED
  BY <1>3, <1>4, <1>5, <1>6, <1>7, <1>8, <1>9, <1>10, <1>11 DEF User

(* The books are empty before anything is built ... *)
LEMMA InitLedger == Init => LedgerInv
<1> SUFFICES ASSUME Init, NEW c \in Clients PROVE Begun(c) /\ Entered(c)
  BY DEF LedgerInv
<1>1. /\ dt[c] = NewMutable(Origins, "Disabled")
      /\ srv.history = <<>> /\ srv.cseqMap[c] = 0
  BY DEF Init, NewServer
<1>2. dt[c].pending = <<>> /\ dt[c].buf.txs = <<>>
  BY <1>1, NewMutableFields DEF States
<1>3. Len(<<>>) = 0
  OBVIOUS
<1> QED
  BY <1>1, <1>2, <1>3 DEF Begun, Entered, Entries

(* ... and every step keeps them. *)
LEMMA NextLedger ==
    ASSUME ProtocolInv, ProtocolInv', LedgerInv, [Next]_vars
    PROVE  LedgerInv'
<1>1. CASE Next
  <2>1. PICK c \in Clients : User(c) \/ Server(c) \/ EventLoop(c)
    BY <1>1 DEF Next
  <2>2. Frame(c)
    BY <2>1, EveryStep DEF StepOf
  <2> QED
    BY <2>1, <2>2, LedgerStep
<1>2. CASE UNCHANGED vars
  BY <1>2 DEF vars, LedgerInv, Begun, Entered, Entries
<1> QED
  BY <1>1, <1>2

-----------------------------------------------------------------------------
(* A datatype under construction has no users yet. *)
Unused(c) == net[c].kind = "register" => checked[c] = {}

(* All that the server has counted of client c it counted for earlier       *)
(* datatypes of that client.                                                *)
Untouched(c) == srv.cseqMap[c] = 0 \/ CountedBefore(c, srv.cseqMap[c])

(* A sequence has an entry. *)
Holds(s, x) == \E j \in 1..Len(s) : s[j] = x

(* Transaction i of a push buffer is in a history. *)
InHistory(history, txs, i) == i <= Len(txs) /\ Holds(history, txs[i])

(* What the server counts of client c's transactions are those of its       *)
(* buffer, and all of them are in the history, but for cseqs it counted for *)
(* an earlier datatype.                                                     *)
Stored(c) ==
    Linked(c) /\ Live(c) =>
        \A i \in 1..srv.cseqMap[c] :
            InHistory(srv.history, dt[c].buf.txs, i) \/ CountedBefore(c, i)

(* The states of a datatype whose creation or subscription was confirmed. *)
Confirmed == {"Subscribed", "Unsubscribing"}

(* Client c acts, or may yet act, as one whose datatype was confirmed. *)
Bound(c) ==
    \/ dt[c].state \in Confirmed
    \/ dt[c].pending # <<>> /\ dt[c].rollback.state \in Confirmed
    \/ net[c].kind = "push" /\ net[c].state \in Confirmed
    \/ "unsub" \in checked[c]

(* A datatype the server has transactions of, or that was confirmed, is the *)
(* one the server has: another client's create is refused.                  *)
Owner(c) ==
    Linked(c) /\ (~Untouched(c) \/ Bound(c)) => srv.created /\ duid[c] = srv.duid

(* What a response may say, and that a confirmation is of the datatype the  *)
(* server has.                                                              *)
Told(c) ==
    net[c].kind = "pulled" =>
        \/ net[c].state = "Disabled"
        \/ net[c].error # "none" /\ net[c].state \in InitialStates
        \/ /\ net[c].error = "none" /\ net[c].state = "Subscribed"
           /\ net[c].snapshot = <<>> => net[c].duid = duid[c]
           /\ net[c].snapshot # <<>> => "Creating" \notin Seen(c)
           /\ Linked(c) => srv.created /\ net[c].duid = srv.duid

(* A datatype is in one way only not confirmed yet. *)
OneBirth(c) == \A s, t \in Seen(c) \cap InitialStates : s = t

(* A datatype that is Subscribing takes no writes, so the server has none   *)
(* of its.                                                                  *)
Subscriber(c) ==
    /\ dt[c].state = "Subscribing" =>
          /\ checked[c] = {} /\ dt[c].pending = <<>>
          /\ net[c].kind = "push" => net[c].state = "Subscribing"
          /\ Linked(c) => Untouched(c)
    /\ net[c].kind \in {"push", "pulled"} /\ net[c].state = "Subscribing" =>
          dt[c].state = "Subscribing"
    /\ dt[c].pending # <<>> => dt[c].rollback.state # "Subscribing"

(* What the server has of client c. *)
StoredClient(c) ==
    Unused(c) /\ Stored(c) /\ Owner(c) /\ Told(c) /\ OneBirth(c) /\ Subscriber(c)

(* Why no acknowledged write is lost: what is stored is what is in the      *)
(* buffer (Stored), which only a snapshot empties; a snapshot is applied by *)
(* those who have stored nothing, since the server confirms the others' own *)
(* datatype (Owner, Told), and the state that decides about it cannot       *)
(* change in between (OneBirth, Subscriber).                                *)
StoredInv == \A c \in Clients : StoredClient(c)

-----------------------------------------------------------------------------
(* Sequence t begins with s. *)
Longer(s, t) == Len(s) <= Len(t) /\ \A i \in 1..Len(s) : t[i] = s[i]

(* What client d sees of a step of another client. *)
Undisturbed(d) ==
    Linked(d)' => /\ Linked(d) /\ srv'.cseqMap[d] = srv.cseqMap[d]
                  /\ srv.created => srv'.created /\ srv'.duid = srv.duid
                  /\ Longer(srv.history, srv'.history)

(* A longer history has the entries of the shorter one. *)
LEMMA LongerKeeps ==
    ASSUME NEW s \in Seq(Transactions), NEW t \in Seq(Transactions), Longer(s, t),
           NEW x, Holds(s, x)
    PROVE  Holds(t, x)
<1>1. PICK j \in 1..Len(s) : s[j] = x
  BY DEF Holds
<1>2. j \in 1..Len(t) /\ t[j] = x
  BY <1>1 DEF Longer
<1> QED
  BY <1>2 DEF Holds

(* A longer history counts what the shorter one does. *)
LEMMA LongerCounts ==
    ASSUME ServerShape(srv), ServerShape(srv)', Longer(srv.history, srv'.history),
           NEW c, inst'[c] = inst[c], NEW k, CountedBefore(c, k)
    PROVE  CountedBefore(c, k)'
<1> DEFINE h == srv.history
           g == srv'.history
<1>1. h \in Seq(Transactions) /\ g \in Seq(Transactions) /\ Longer(h, g)
  BY DEF ServerShape
<1>2. PICK j \in DOMAIN h : /\ h[j].cuid = c /\ h[j].cseq >= k
                            /\ h[j].ops[1] \in {c} \X (1..(inst[c] - 1))
  BY DEF CountedBefore
<1> HIDE DEF h, g
<1>3. j \in DOMAIN g /\ g[j] = h[j]
  BY <1>1 DEF Longer
<1>4. /\ g[j].cuid = c /\ g[j].cseq >= k
      /\ g[j].ops[1] \in {c} \X (1..(inst'[c] - 1))
  BY <1>2, <1>3
<1> QED
  BY <1>3, <1>4 DEF CountedBefore, g

(* Who has counted a cseq has counted those below it. *)
LEMMA CountsLower ==
    ASSUME ServerShape(srv), NEW c, NEW k \in Nat, CountedBefore(c, k), NEW i \in 1..k
    PROVE  CountedBefore(c, i)
<1> DEFINE h == srv.history
           older == {c} \X (1..(inst[c] - 1))
<1>1. h \in Seq(Transactions)
  BY DEF ServerShape
<1>2. PICK j \in DOMAIN h : h[j].cuid = c /\ h[j].cseq >= k /\ h[j].ops[1] \in older
  BY DEF CountedBefore
<1> HIDE DEF h, older
<1>3. h[j] \in Transactions
  BY <1>1, <1>2
<1>4. h[j].cseq \in Nat
  BY <1>3 DEF Transactions
<1>5. h[j].cseq >= i
  BY <1>2, <1>4
<1> QED
  BY <1>2, <1>5 DEF CountedBefore, h, older

(* What is recorded stays so, as the history and the buffer grow. *)
LEMMA InHistoryLater ==
    ASSUME NEW h \in Seq(Transactions), NEW g \in Seq(Transactions), Longer(h, g),
           NEW old \in Seq(Transactions), NEW new \in Seq(Transactions), Longer(old, new),
           NEW i \in Nat, i >= 1, InHistory(h, old, i)
    PROVE  InHistory(g, new, i)
<1>1. i \in 1..Len(old) /\ i <= Len(new) /\ new[i] = old[i] /\ Holds(h, old[i])
  BY DEF InHistory, Longer
<1>2. Holds(g, old[i])
  BY <1>1, LongerKeeps
<1> QED
  BY <1>1, <1>2 DEF InHistory

(* An untouched datatype has nothing to lose. *)
LEMMA UntouchedStored ==
    ASSUME ServerShape(srv), NEW c \in Clients, Untouched(c)
    PROVE  \A i \in 1..srv.cseqMap[c] : CountedBefore(c, i)
<1>1. srv.cseqMap[c] \in Nat
  BY DEF ServerShape
<1> DEFINE k == srv.cseqMap[c]
<1>2. k = 0 \/ CountedBefore(c, k)
  BY DEF Untouched
<1> SUFFICES ASSUME NEW i \in 1..k PROVE CountedBefore(c, i)
  OBVIOUS
<1> HIDE DEF k
<1>3. k \in Nat /\ k # 0
  BY <1>1 DEF k
<1> QED
  BY <1>2, <1>3, CountsLower

(* A step that does not disturb the others keeps their part. *)
LEMMA StoredOthers ==
    ASSUME ProtocolInv, ProtocolInv', StoredInv, NEW c \in Clients, Frame(c),
           \A d \in Clients \ {c} : Undisturbed(d), StoredClient(c)'
    PROVE  StoredInv'
<1> SUFFICES ASSUME NEW d \in Clients \ {c} PROVE StoredClient(d)'
  BY DEF StoredInv
<1>1. /\ scenario' = scenario /\ inst'[d] = inst[d] /\ dt'[d] = dt[d] /\ duid'[d] = duid[d]
      /\ checked'[d] = checked[d] /\ net'[d] = net[d] /\ loop'[d] = loop[d]
  BY DEF Frame
<1>2. /\ Unused(d) /\ Stored(d) /\ Owner(d) /\ Told(d) /\ OneBirth(d) /\ Subscriber(d)
  BY DEF StoredInv, StoredClient
<1>3. Linked(d)' => /\ Linked(d) /\ srv'.cseqMap[d] = srv.cseqMap[d]
                    /\ srv.created => srv'.created /\ srv'.duid = srv.duid
                    /\ Longer(srv.history, srv'.history)
  BY DEF Undisturbed
<1>4. Seen(d)' = Seen(d) /\ (Bound(d)' <=> Bound(d)) /\ (Live(d)' <=> Live(d))
  BY <1>1 DEF Seen, Bound, Live
<1>5. /\ ServerShape(srv) /\ ServerShape(srv)' /\ dt[d].buf.txs \in Seq(Transactions)
      /\ srv.history \in Seq(Transactions) /\ srv'.history \in Seq(Transactions)
      /\ srv.cseqMap[d] \in Nat
  BY DEF ProtocolInv, ClientInv, Shape, Replica, Buffers, ServerShape
<1>6. Unused(d)'
  BY <1>1, <1>2 DEF Unused
<1>11. Linked(d)' /\ Untouched(d) => Untouched(d)'
  BY <1>1, <1>3, <1>5, LongerCounts DEF Untouched
<1>7. Stored(d)'
  <2> SUFFICES ASSUME Linked(d)', Live(d)', NEW i \in 1..srv'.cseqMap[d]
               PROVE  InHistory(srv'.history, dt[d].buf.txs, i) \/ CountedBefore(d, i)'
    BY <1>1 DEF Stored
  <2> DEFINE txs == dt[d].buf.txs
             h == srv.history
             g == srv'.history
  <2>1. i \in 1..srv.cseqMap[d] /\ i \in Nat /\ i >= 1
    BY <1>3, <1>5
  <2>2. InHistory(h, txs, i) \/ CountedBefore(d, i)
    BY <1>2, <1>3, <1>4, <2>1 DEF Stored
  <2>3. CASE CountedBefore(d, i)
    BY <1>1, <1>3, <1>5, <2>3, LongerCounts
  <2>4. CASE InHistory(h, txs, i)
    <3>1. /\ Longer(h, g) /\ Longer(txs, txs) /\ txs \in Seq(Transactions)
          /\ h \in Seq(Transactions) /\ g \in Seq(Transactions)
      BY <1>3, <1>5 DEF Longer
    <3> HIDE DEF txs, h, g
    <3>2. InHistory(g, txs, i)
      BY <2>1, <2>4, <3>1, InHistoryLater
    <3> QED
      BY <3>2 DEF g, txs
  <2> QED
    BY <2>2, <2>3, <2>4
<1>8. Owner(d)'
  BY <1>1, <1>2, <1>3, <1>4, <1>11 DEF Owner
<1>9. Told(d)'
  BY <1>1, <1>2, <1>3, <1>4 DEF Told
<1>10. OneBirth(d)' /\ Subscriber(d)'
  BY <1>1, <1>2, <1>3, <1>4, <1>11 DEF OneBirth, Subscriber
<1> QED
  BY <1>6, <1>7, <1>8, <1>9, <1>10 DEF StoredClient

(* A step that leaves the server alone disturbs nobody. *)
LEMMA SameUndisturbed ==
    ASSUME ProtocolInv, NEW c \in Clients, srv' = srv
    PROVE  \A d \in Clients \ {c} : Undisturbed(d)
<1>1. srv.history \in Seq(Transactions)
  BY DEF ProtocolInv, ServerShape
<1>2. Longer(srv.history, srv.history)
  BY <1>1 DEF Longer
<1> QED
  BY <1>2 DEF Undisturbed, Linked

(* A step of a user thread keeps it if it keeps what was committed. *)
LEMMA UserKeeps ==
    ASSUME ProtocolInv, ProtocolInv', StoredInv, NEW c \in Clients, Frame(c), srv' = srv,
           net'[c] = net[c], duid'[c] = duid[c], loop'[c] = loop[c], inst'[c] = inst[c],
           net[c].kind = "register" => checked'[c] = {},
           Live(c) => Keeps(dt[c], dt'[c]),
           Seen(c)' \subseteq Seen(c) \cup {"Subscribed", "Disabled", "Unsubscribing"},
           Bound(c)' => Bound(c),
           dt[c].state # "Subscribing", dt'[c].state # "Subscribing",
           dt'[c].pending # <<>> => dt'[c].rollback.state # "Subscribing"
    PROVE  StoredInv'
<1>1. /\ Stored(c) /\ Owner(c) /\ Told(c) /\ OneBirth(c) /\ Subscriber(c)
  BY DEF StoredInv, StoredClient
<1>2. Live(c)' <=> Live(c)
  BY DEF Live
<1>3. Unused(c)'
  BY DEF Unused
<1>10. \A k : CountedBefore(c, k)' <=> CountedBefore(c, k)
  BY DEF CountedBefore
<1>11. Untouched(c)' <=> Untouched(c)
  BY <1>10 DEF Untouched
<1>4. Stored(c)'
  <2> SUFFICES ASSUME Linked(c)', Live(c)', NEW i \in 1..srv.cseqMap[c]
               PROVE  \/ InHistory(srv.history, dt'[c].buf.txs, i)
                      \/ CountedBefore(c, i)
    BY <1>10 DEF Stored
  <2> DEFINE old == dt[c].buf.txs
             new == dt'[c].buf.txs
             h == srv.history
  <2>1. InHistory(h, old, i) \/ CountedBefore(c, i)
    BY <1>1, <1>2 DEF Stored, Linked
  <2>2. /\ old \in Seq(Transactions) /\ new \in Seq(Transactions)
        /\ h \in Seq(Transactions) /\ srv.cseqMap[c] \in Nat
    <3>1. Replica(dt[c]) /\ Replica(dt'[c]) /\ ServerShape(srv)
      BY DEF ProtocolInv, ClientInv, Shape
    <3> QED
      BY <3>1 DEF Replica, Buffers, ServerShape
  <2>3. Longer(old, new)
    BY <1>2 DEF Keeps, Longer
  <2>4. Longer(h, h) /\ i \in Nat /\ i >= 1
    BY <2>2 DEF Longer
  <2> HIDE DEF old, new, h
  <2>5. InHistory(h, old, i) => InHistory(h, new, i)
    BY <2>2, <2>3, <2>4, InHistoryLater
  <2> QED
    BY <2>1, <2>5 DEF h, new
<1>5. Owner(c)'
  BY <1>1, <1>11 DEF Owner, Linked
<1>6. Told(c)'
  BY <1>1 DEF Told, Linked
<1>7. OneBirth(c)'
  BY <1>1 DEF OneBirth, InitialStates
<1>8. Subscriber(c)'
  BY <1>1, <1>11 DEF Subscriber
<1>9. StoredClient(c)'
  BY <1>3, <1>4, <1>5, <1>6, <1>7, <1>8 DEF StoredClient
<1> QED
  BY <1>9, SameUndisturbed, StoredOthers

(* The end of an exchange keeps it if the buffer is kept, or nothing is     *)
(* stored.                                                                  *)
LEMMA LoopKeeps ==
    ASSUME ProtocolInv, ProtocolInv', StoredInv, NEW c \in Clients, Frame(c), srv' = srv,
           net'[c].kind \in {"idle", "error"}, inst'[c] = inst[c], checked'[c] = checked[c],
           Seen(c)' \subseteq Seen(c) \cup {"Subscribed", "Disabled", "Unsubscribing"},
           dt'[c].state = "Subscribing" => dt[c].state = "Subscribing",
           dt'[c].pending # <<>> => dt[c].pending # <<>> /\ dt'[c].rollback = dt[c].rollback,
           Live(c)' => Live(c) /\ \/ dt'[c].buf = dt[c].buf
                                  \/ Linked(c) => Untouched(c),
           Linked(c) /\ (~Untouched(c) \/ Bound(c)') =>
               srv.created /\ duid'[c] = srv.duid
    PROVE  StoredInv'
<1>1. /\ Stored(c) /\ Owner(c) /\ OneBirth(c) /\ Subscriber(c)
  BY DEF StoredInv, StoredClient
<1>2. Unused(c)'
  BY DEF Unused
<1>9. \A k : CountedBefore(c, k)' <=> CountedBefore(c, k)
  BY DEF CountedBefore
<1>10. Untouched(c)' <=> Untouched(c)
  BY <1>9 DEF Untouched
<1>3. Stored(c)'
  <2> SUFFICES ASSUME Linked(c)', Live(c)'
               PROVE  \A i \in 1..srv.cseqMap[c] :
                          \/ InHistory(srv.history, dt'[c].buf.txs, i)
                          \/ CountedBefore(c, i)
    BY <1>9 DEF Stored
  <2>1. CASE dt'[c].buf = dt[c].buf
    BY <1>1, <2>1 DEF Stored, Linked
  <2>2. CASE Untouched(c)
    BY <2>2, OwnFacts, UntouchedStored
  <2> QED
    BY <2>1, <2>2 DEF Linked
<1>4. Owner(c)'
  BY <1>10 DEF Owner, Linked
<1>5. Told(c)'
  BY DEF Told
<1>6. OneBirth(c)'
  BY <1>1 DEF OneBirth, InitialStates
<1>7. Subscriber(c)'
  BY <1>1, <1>10 DEF Subscriber, Linked
<1>8. StoredClient(c)'
  BY <1>2, <1>3, <1>4, <1>5, <1>6, <1>7 DEF StoredClient
<1> QED
  BY <1>8, SameUndisturbed, StoredOthers

(* check_writable and check_subscribed. *)
LEMMA CheckStored ==
    ASSUME ProtocolInv, ProtocolInv', StoredInv, NEW c \in Clients, Frame(c),
           CheckWritable(c) \/ CheckSubscribed(c)
    PROVE  StoredInv'
<1>1. /\ Domains /\ Shape(c) /\ Subscriber(c)
  BY OwnFacts DEF StoredInv, StoredClient
<1>2. PICK k : /\ inst' = inst /\ dt' = dt /\ duid' = duid /\ loop' = loop
               /\ net' = net /\ srv' = srv
               /\ checked' = [checked EXCEPT ![c] = @ \cup {k}]
               /\ k = "unsub" => dt[c].state = "Subscribed"
               /\ dt[c].state # "Subscribing" /\ net[c].kind # "register"
  BY DEF CheckWritable, CheckSubscribed, ReadWritable, Built
<1>3. checked'[c] = checked[c] \cup {k}
  BY <1>1, <1>2 DEF Domains
<1>4. Bound(c)' => Bound(c)
  BY <1>2, <1>3 DEF Bound, Confirmed
<1>5. Seen(c)' = Seen(c)
  BY <1>2 DEF Seen
<1>6. Keeps(dt[c], dt'[c])
  BY <1>1, <1>2, KeepsSame DEF Shape
<1>7. dt'[c].pending # <<>> => dt'[c].rollback.state # "Subscribing"
  BY <1>1, <1>2 DEF Subscriber
<1> QED
  BY <1>2, <1>4, <1>5, <1>6, <1>7, UserKeeps

(* execute_local_operation, possibly after the datatype was disabled. *)
LEMMA ExecuteOpStored ==
    ASSUME ProtocolInv, ProtocolInv', StoredInv, NEW c \in Clients, Frame(c), ExecuteOp(c)
    PROVE  StoredInv'
<1> DEFINE m == dt[c]
           n == dt'[c]
           op == <<c, inst[c]>>
<1>1. /\ Domains /\ Shape(c) /\ Phase(c) /\ Subscriber(c) /\ Unused(c)
  BY OwnFacts DEF StoredInv, StoredClient
<1>2. /\ "write" \in checked[c] /\ dt' = [dt EXCEPT ![c] = ExecuteLocal(@, op)]
      /\ inst' = inst /\ net' = net /\ srv' = srv /\ duid' = duid /\ loop' = loop
      /\ checked' = [checked EXCEPT ![c] = @ \ {"write"}]
  BY DEF ExecuteOp
<1>3. inst[c] \in 1..MaxInst /\ op \in Origins
  BY <1>1, <1>2, SyncAssumption DEF Phase, Shape, Origins
<1>4. n = ExecuteLocal(m, op) /\ Replica(m) /\ checked'[c] = checked[c] \ {"write"}
  BY <1>1, <1>2 DEF Domains, Shape
<1>5. /\ n.buf = m.buf /\ n.state = m.state
      /\ m.pending = <<>> => n.rollback = [cseq |-> m.cseq, state |-> m.state]
      /\ m.pending # <<>> => n.rollback = m.rollback
  <2> HIDE DEF m, n, op
  <2> QED
    BY <1>3, <1>4, ExecuteLocalFields
<1>6. m.state # "Subscribing"
  BY <1>1, <1>2 DEF Subscriber
<1>7. n.state # "Subscribing" /\ n.rollback.state # "Subscribing"
  BY <1>1, <1>5, <1>6 DEF Subscriber
<1>8. Bound(c)' => Bound(c)
  BY <1>2, <1>4, <1>5 DEF Bound
<1>9. Keeps(m, n)
  BY <1>4, <1>5, KeepsSame
<1>10. Seen(c)' \subseteq Seen(c) \cup {"Subscribed", "Disabled", "Unsubscribing"}
  BY ExecuteOpOwn DEF OwnStep
<1>11. net[c].kind # "register"
  BY <1>1, <1>2 DEF Unused
<1> QED
  BY <1>2, <1>6, <1>7, <1>8, <1>9, <1>10, <1>11, UserKeeps

(* end_transaction. *)
LEMMA EndTxStored ==
    ASSUME ProtocolInv, ProtocolInv', StoredInv, NEW c \in Clients, Frame(c),
           NEW ok \in BOOLEAN, EndTx(c, ok)
    PROVE  StoredInv'
<1> DEFINE m == dt[c]
           n == dt'[c]
<1>1. /\ Domains /\ Shape(c) /\ Subscriber(c) /\ Unused(c)
  BY OwnFacts DEF StoredInv, StoredClient
<1>2. /\ m.pending # <<>> /\ dt' = [dt EXCEPT ![c] = EndTransaction(@, c, ok, MaxMem)]
      /\ inst' = inst /\ net' = net /\ srv' = srv /\ checked' = checked
      /\ duid' = duid /\ loop' = loop
  BY DEF EndTx, clientVars
<1>3. n = EndTransaction(m, c, ok, MaxMem) /\ Replica(m) /\ m.pending # <<>>
  BY <1>1, <1>2 DEF Domains, Shape
<1>4. /\ n.pending = <<>> /\ n.state \in {m.state, m.rollback.state}
      /\ n.buf = m.buf \/ \E tx : n.buf.txs = Append(m.buf.txs, tx) /\ tx \in Transactions
  <2> HIDE DEF m, n
  <2> QED
    BY <1>3, EndTransactionFields, DoRollbackFields
<1>5. Keeps(m, n)
  <2>1. m.buf.txs \in Seq(Transactions)
    BY <1>3 DEF Replica, Buffers
  <2> HIDE DEF m, n
  <2>2. CASE n.buf = m.buf
    BY <1>3, <2>2, KeepsSame
  <2>3. CASE n.buf # m.buf
    BY <1>4, <2>1, <2>3 DEF Keeps
  <2> QED
    BY <2>2, <2>3
<1>6. m.state # "Subscribing" /\ n.state # "Subscribing"
  BY <1>1, <1>2, <1>4 DEF Subscriber
<1>7. Bound(c)' => Bound(c)
  BY <1>2, <1>4 DEF Bound
<1>8. Seen(c)' \subseteq Seen(c) \cup {"Subscribed", "Disabled", "Unsubscribing"}
  BY EndTxOwn DEF OwnStep
<1>9. net[c].kind = "register" => checked'[c] = {}
  BY <1>1, <1>2 DEF Unused
<1> QED
  BY <1>2, <1>4, <1>5, <1>6, <1>7, <1>8, <1>9, UserKeeps

(* set_state(Unsubscribing). *)
LEMMA SetUnsubscribingStored ==
    ASSUME ProtocolInv, ProtocolInv', StoredInv, NEW c \in Clients, Frame(c),
           SetUnsubscribing(c)
    PROVE  StoredInv'
<1> DEFINE m == dt[c]
           n == dt'[c]
<1>1. /\ Domains /\ Shape(c) /\ Subscriber(c) /\ Unused(c)
  BY OwnFacts DEF StoredInv, StoredClient
<1>2. /\ "unsub" \in checked[c] /\ dt' = [dt EXCEPT ![c].state = "Unsubscribing"]
      /\ inst' = inst /\ net' = net /\ srv' = srv /\ duid' = duid /\ loop' = loop
  BY DEF SetUnsubscribing
<1>3. n = [m EXCEPT !.state = "Unsubscribing"] /\ Replica(m)
  BY <1>1, <1>2 DEF Domains, Shape
<1>4. /\ n.buf = m.buf /\ n.state = "Unsubscribing" /\ n.pending = m.pending
      /\ n.rollback = m.rollback
  <2> HIDE DEF m, n
  <2> QED
    BY <1>3 DEF Replica
<1>5. Keeps(m, n)
  BY <1>3, <1>4, KeepsSame
<1>6. Bound(c)
  BY <1>2 DEF Bound
<1>7. /\ m.state # "Subscribing"
      /\ n.pending # <<>> => n.rollback.state # "Subscribing"
  BY <1>1, <1>2, <1>4 DEF Subscriber
<1>8. Seen(c)' \subseteq Seen(c) \cup {"Subscribed", "Disabled", "Unsubscribing"}
  BY SetUnsubscribingOwn DEF OwnStep
<1>9. net[c].kind # "register"
  BY <1>1, <1>2 DEF Unused
<1> QED
  BY <1>2, <1>4, <1>5, <1>6, <1>7, <1>8, <1>9, UserKeeps

(* do_push_pull. *)
LEMMA StartPushStored ==
    ASSUME ProtocolInv, ProtocolInv', StoredInv, NEW c \in Clients, Frame(c), StartPush(c)
    PROVE  StoredInv'
<1>1. /\ Domains /\ Stored(c) /\ Owner(c) /\ OneBirth(c) /\ Subscriber(c)
  BY OwnFacts DEF StoredInv, StoredClient
<1>2. /\ inst' = inst /\ dt' = dt /\ srv' = srv /\ checked' = checked
      /\ duid' = duid /\ loop' = loop
      /\ net' = [net EXCEPT ![c] =
                    IF CannotPushFrom(dt[c].buf, dt[c].cp.cseq + 1)
                    THEN Failed("Disable") ELSE CreatePushPullPack(c)]
  BY Routed DEF StartPush, clientVars
<1>3. \/ net'[c].kind = "error"
      \/ net'[c].kind = "push" /\ net'[c].state = dt[c].state
  BY <1>1, <1>2 DEF Domains, Failed, CreatePushPullPack
<1>4. Bound(c)' => Bound(c)
  BY <1>2, <1>3 DEF Bound
<1>5. Seen(c)' \subseteq Seen(c)
  BY <1>2, <1>3 DEF Seen
<1>12. \A k : CountedBefore(c, k)' <=> CountedBefore(c, k)
  BY <1>2 DEF CountedBefore
<1>13. Untouched(c)' <=> Untouched(c)
  BY <1>2, <1>12 DEF Untouched
<1>6. Unused(c)' /\ Stored(c)'
  BY <1>1, <1>2, <1>3, <1>12 DEF Unused, Stored, Linked, Live
<1>7. Owner(c)'
  BY <1>1, <1>2, <1>4, <1>13 DEF Owner, Linked
<1>8. Told(c)'
  BY <1>3 DEF Told
<1>9. OneBirth(c)'
  BY <1>1, <1>5 DEF OneBirth
<1>10. Subscriber(c)'
  BY <1>1, <1>2, <1>3, <1>13 DEF Subscriber, Linked
<1>11. StoredClient(c)'
  BY <1>6, <1>7, <1>8, <1>9, <1>10 DEF StoredClient
<1> QED
  BY <1>2, <1>11, SameUndisturbed, StoredOthers

(* The exchange ends and the replica keeps all but its state. *)
LEMMA EndedStored ==
    ASSUME ProtocolInv, ProtocolInv', StoredInv, NEW c \in Clients, Frame(c), OwnStep(c),
           net'[c].kind \in {"idle", "error"},
           dt'[c].buf = dt[c].buf, dt'[c].pending = dt[c].pending,
           dt'[c].rollback = dt[c].rollback,
           dt'[c].state \notin {dt[c].state, "Disabled"} =>
               /\ dt'[c].state \in InitialStates /\ net[c].kind = "pulled"
               /\ dt'[c].state = net[c].state,
           inst' = inst, srv' = srv, checked' = checked, duid' = duid, loop' = loop
    PROVE  StoredInv'
<1>1. /\ Owner(c) /\ Subscriber(c)
  BY DEF StoredInv, StoredClient
<1>2. Seen(c)' \subseteq Seen(c) \cup {"Subscribed", "Disabled", "Unsubscribing"}
  BY DEF OwnStep
<1>3. Bound(c)' => Bound(c)
  BY DEF Bound, Confirmed, InitialStates
<1>4. dt'[c].state = "Subscribing" => dt[c].state = "Subscribing"
  BY <1>1 DEF Subscriber
<1>5. Linked(c) /\ (~Untouched(c) \/ Bound(c)') => srv.created /\ duid'[c] = srv.duid
  BY <1>1, <1>3 DEF Owner
<1>6. Live(c)' => Live(c)
  BY DEF Live
<1> QED
  BY <1>2, <1>4, <1>5, <1>6, LoopKeeps

(* A time-out. *)
LEMMA TimeOutStored ==
    ASSUME ProtocolInv, ProtocolInv', StoredInv, NEW c \in Clients, Frame(c), TimeOut(c)
    PROVE  StoredInv'
<1>1. /\ net' = [net EXCEPT ![c] = Failed("RetryWithBackOff")]
      /\ dt' = dt /\ inst' = inst /\ srv' = srv /\ checked' = checked
      /\ duid' = duid /\ loop' = loop
  BY Routed DEF TimeOut, clientVars
<1>2. net'[c].kind \in {"idle", "error"}
  BY <1>1, OwnFacts, FailedFields DEF Domains
<1> QED
  BY <1>1, <1>2, TimeOutOwn, EndedStored

(* A response that only sets the state. *)
LEMMA SetStateStored ==
    ASSUME ProtocolInv, ProtocolInv', StoredInv, NEW c \in Clients, Frame(c), OwnStep(c),
           NEW recovery \in {"RetryWithBackOff", "Disable"}, NEW st,
           st # "Disabled" =>
               st \in InitialStates /\ net[c].kind = "pulled" /\ st = net[c].state,
           dt' = [dt EXCEPT ![c].state = st], net' = [net EXCEPT ![c] = Failed(recovery)],
           UNCHANGED <<clientVars, duid, loop, srv>>
    PROVE  StoredInv'
<1> DEFINE m == dt[c]
           n == dt'[c]
<1>1. inst' = inst /\ srv' = srv /\ checked' = checked /\ duid' = duid /\ loop' = loop
  BY DEF clientVars
<1>2. n = [m EXCEPT !.state = st] /\ Replica(m)
  BY OwnFacts DEF Domains, Shape
<1>3. /\ n.buf = m.buf /\ n.state = st /\ n.pending = m.pending /\ n.rollback = m.rollback
  <2> HIDE DEF m, n
  <2> QED
    BY <1>2 DEF Replica
<1>4. net'[c].kind \in {"idle", "error"}
  BY OwnFacts, FailedFields DEF Domains
<1> QED
  BY <1>1, <1>3, <1>4, EndedStored

(* An error response. *)
LEMMA ApplyErrorStored ==
    ASSUME ProtocolInv, ProtocolInv', StoredInv, NEW c \in Clients, Frame(c), ApplyError(c)
    PROVE  StoredInv'
<1> DEFINE e == Mapping(ToDatatypeError(net[c].error))
           st == net[c].state
<1>1. Told(c) /\ net[c].kind = "pulled" /\ net[c].error # "none"
  BY DEF StoredInv, StoredClient, ApplyError, Arrived
<1>2. st # "Disabled" => st \in InitialStates /\ net[c].kind = "pulled" /\ st = net[c].state
  BY <1>1 DEF Told
<1>3. e \in {"RetryWithBackOff", "Disable"}
  BY Routed
<1>4. /\ dt' = [dt EXCEPT ![c].state = st] /\ net' = [net EXCEPT ![c] = Failed(e)]
      /\ UNCHANGED <<clientVars, duid, loop, srv>>
  BY DEF ApplyError
<1>5. OwnStep(c)
  BY ApplyErrorOwn
<1> HIDE DEF e, st
<1> QED
  BY <1>2, <1>3, <1>4, <1>5, SetStateStored

(* An illegal response. *)
LEMMA ApplyIllegalStored ==
    ASSUME ProtocolInv, ProtocolInv', StoredInv, NEW c \in Clients, Frame(c), ApplyIllegal(c)
    PROVE  StoredInv'
<1> DEFINE st == "Disabled"
<1>1. st # "Disabled" => st \in InitialStates /\ net[c].kind = "pulled" /\ st = net[c].state
  OBVIOUS
<1>2. /\ dt' = [dt EXCEPT ![c].state = st]
      /\ net' = [net EXCEPT ![c] = Failed("Disable")]
      /\ UNCHANGED <<clientVars, duid, loop, srv>>
  BY Routed DEF ApplyIllegal
<1>3. OwnStep(c)
  BY ApplyIllegalOwn
<1> HIDE DEF st
<1> QED
  BY <1>1, <1>2, <1>3, SetStateStored

(* Disable empties the buffer, but ends the loop with it. *)
LEMMA HandleErrorStored ==
    ASSUME ProtocolInv, ProtocolInv', StoredInv, NEW c \in Clients, Frame(c), HandleError(c)
    PROVE  StoredInv'
<1> DEFINE m == dt[c]
           n == dt'[c]
<1>1. /\ Domains /\ Shape(c) /\ Owner(c)
  BY OwnFacts DEF StoredInv, StoredClient
<1>2. net[c].kind = "error" /\ net[c].recovery = "Disable"
  BY <1>1 DEF HandleError, Shape, Exchange
<1>3. ApplyAction(m, "Disable") = Disable(m) /\ LoopModeFrom("Disable") = "Stopped"
  BY DEF ApplyAction, LoopModeFrom
<1>4. /\ dt' = [dt EXCEPT ![c] = Disable(@)] /\ net' = [net EXCEPT ![c] = Idle]
      /\ loop' = [loop EXCEPT ![c] = "Stopped"]
      /\ inst' = inst /\ checked' = checked /\ srv' = srv /\ duid' = duid
  BY <1>1, <1>2, <1>3 DEF HandleError, clientVars, Domains
<1>5. n = Disable(m) /\ net'[c].kind = "idle" /\ Replica(m) /\ loop'[c] = "Stopped"
  BY <1>1, <1>4 DEF Domains, Idle, Shape
<1>6. n.state = "Disabled" /\ n.pending = <<>>
  <2> DEFINE q == Reset(m)
  <2> HIDE DEF m, n
  <2>1. Replica(q) /\ q.pending = <<>>
    BY <1>5, ResetFields
  <2>2. n = [q EXCEPT !.state = "Disabled"]
    BY <1>5 DEF Disable
  <2> HIDE DEF q
  <2> QED
    BY <2>1, <2>2 DEF Replica
<1>7. Bound(c)' => Bound(c)
  BY <1>4, <1>5, <1>6 DEF Bound, Confirmed
<1>8. Linked(c) /\ (~Untouched(c) \/ Bound(c)') => srv.created /\ duid'[c] = srv.duid
  BY <1>1, <1>4, <1>7 DEF Owner
<1>9. ~Live(c)'
  BY <1>5 DEF Live
<1>10. Seen(c)' \subseteq Seen(c) \cup {"Subscribed", "Disabled", "Unsubscribing"}
  BY HandleErrorOwn DEF OwnStep
<1> QED
  BY <1>4, <1>5, <1>6, <1>8, <1>9, <1>10, LoopKeeps

(* A response without an error: a snapshot is applied to a datatype nothing *)
(* is stored of, and any other response confirms the client's own datatype. *)
LEMMA ApplyPulledStored ==
    ASSUME ProtocolInv, ProtocolInv', StoredInv, NEW c \in Clients, Frame(c), ApplyPulled(c)
    PROVE  StoredInv'
<1> DEFINE r == net[c]
           m == SubscribedReplica(c, r)
           n == dt'[c]
           applies == AppliesSubscription(c, r)
           panic == \/ dt[c].state = "Disabled"
                    \/ "debug" \in scenario.env /\ Underflows(m, r)
<1>1. /\ Domains /\ Shape(c) /\ Phase(c) /\ Owner(c) /\ Told(c) /\ Subscriber(c)
  BY OwnFacts DEF StoredInv, StoredClient
<1>2. /\ r.kind = "pulled" /\ r.error = "none"
      /\ dt[c].state = "Disabled" \/ LegalResponse(dt[c].state, r)
      /\ dt' = [dt EXCEPT ![c] = IF panic THEN m ELSE PulledReplica(m, r)]
      /\ inst' = inst /\ checked' = checked /\ srv' = srv
      /\ net' = [net EXCEPT ![c] = Idle]
      /\ duid' = IF applies THEN [duid EXCEPT ![c] = r.duid] ELSE duid
  BY DEF ApplyPulled, Arrived, clientVars
<1>3. dt[c].state = "Disabled" => panic
  OBVIOUS
<1> HIDE DEF panic, m, applies
<1>4. /\ n = IF panic THEN m ELSE PulledReplica(m, r)
      /\ duid'[c] = IF applies THEN r.duid ELSE duid[c]
      /\ net'[c].kind = "idle"
  BY <1>1, <1>2 DEF Domains, Idle
<1>5. Live(c) /\ r.cp \in Checkpoints /\ r.state \in States /\ dt[c].state \in States
  BY <1>1, <1>2 DEF Phase, Shape, Exchange, Response, Replica
<1>6. /\ Replica(m) /\ m.state = dt[c].state
      /\ \/ m = dt[c]
         \/ applies /\ r.snapshot # <<>> /\ m.pending = <<>>
  <2>1. m = SubscribedReplica(c, r)
    BY DEF m
  <2>2. /\ Replica(m) /\ m.state = dt[c].state
        /\ m = dt[c] \/ /\ AppliesSubscription(c, r) /\ r.snapshot # <<>> /\ m.pending = <<>>
    <3> HIDE DEF r
    <3> QED
      BY <1>5, <2>1, SubscribedReplicaFields
  <2> QED
    BY <2>2 DEF applies
<1>7. /\ n.buf = m.buf /\ n.pending = m.pending /\ n.rollback = m.rollback
      /\ panic => n.state = dt[c].state
      /\ ~panic => n.state = r.state
  <2>1. CASE panic
    BY <1>4, <1>6, <2>1
  <2>2. CASE ~panic
    <3>1. n = PulledReplica(m, r)
      BY <1>4, <2>2
    <3> HIDE DEF n, r
    <3> QED
      BY <1>5, <1>6, <2>2, <3>1, PulledFields
  <2> QED
    BY <2>1, <2>2
<1>8. applies => dt[c].state \in {"Subscribing", "SubscribingOrCreating"} /\ r.state = "Subscribed"
  BY <1>2 DEF applies, AppliesSubscription, LegalResponse
<1>9. Linked(c) /\ r.state = "Subscribed" => srv.created /\ r.duid = srv.duid
  BY <1>1, <1>2 DEF Told
<1>10. applies /\ Linked(c) /\ r.snapshot # <<>> => Untouched(c)
  <2> SUFFICES ASSUME applies, Linked(c), ~Untouched(c) PROVE FALSE
    OBVIOUS
  <2>1. duid[c] = srv.duid /\ r.duid = srv.duid
    BY <1>1, <1>8, <1>9 DEF Owner
  <2>2. dt[c].state = "Subscribing"
    BY <2>1 DEF applies, AppliesSubscription
  <2> QED
    BY <1>1, <2>2 DEF Subscriber
<1>11. Linked(c) /\ (~Untouched(c) \/ Bound(c)') => srv.created /\ duid'[c] = srv.duid
  <2> SUFFICES ASSUME Linked(c), ~Untouched(c) \/ Bound(c)'
               PROVE  srv.created /\ duid'[c] = srv.duid
    OBVIOUS
  <2>1. CASE applies
    BY <1>4, <1>8, <1>9, <2>1
  <2>2. CASE ~applies /\ (~Untouched(c) \/ Bound(c))
    BY <1>1, <1>4, <2>2 DEF Owner
  <2>3. CASE ~applies /\ ~(~Untouched(c) \/ Bound(c))
    <3>1. m = dt[c] /\ duid'[c] = duid[c]
      BY <1>4, <1>6, <2>3
    <3>2. ~panic /\ r.state = "Subscribed" /\ dt[c].state \notin Confirmed
      <4>1. Bound(c)' => n.state \in Confirmed \/ Bound(c)
        BY <1>2, <1>4, <1>7, <3>1 DEF Bound
      <4>2. n.state \in Confirmed /\ dt[c].state \notin Confirmed
        BY <2>3, <4>1 DEF Bound
      <4>3. ~panic /\ n.state = r.state
        BY <1>7, <4>2
      <4>4. LegalResponse(dt[c].state, r)
        BY <1>2, <1>3, <4>3
      <4> QED
        BY <4>2, <4>3, <4>4 DEF LegalResponse, Confirmed
    <3>3. CASE r.snapshot = <<>>
      BY <1>1, <1>2, <1>9, <3>1, <3>2, <3>3 DEF Told
    <3>4. CASE r.snapshot # <<>>
      <4>1. dt[c].state # "Creating"
        BY <1>1, <1>2, <3>2, <3>4 DEF Told, Seen
      <4>2. dt[c].state \in {"Subscribing", "SubscribingOrCreating"}
        BY <1>3, <1>5, <3>2, <4>1 DEF Confirmed, States
      <4>3. r.duid = duid[c]
        BY <2>3, <4>2 DEF applies, AppliesSubscription
      <4> QED
        BY <1>9, <3>1, <3>2, <4>3
    <3> QED
      BY <3>3, <3>4
  <2> QED
    BY <2>1, <2>2, <2>3
<1>12. n.state = "Subscribing" => dt[c].state = "Subscribing"
  BY <1>2, <1>3, <1>7 DEF LegalResponse
<1>13. n.pending # <<>> => dt[c].pending # <<>> /\ n.rollback = dt[c].rollback
  BY <1>6, <1>7
<1>14. n.buf = dt[c].buf \/ (Linked(c) => Untouched(c))
  BY <1>6, <1>7, <1>10
<1>15. Seen(c)' \subseteq Seen(c) \cup {"Subscribed", "Disabled", "Unsubscribing"}
  BY ApplyPulledOwn DEF OwnStep
<1> HIDE DEF r
<1> QED
  BY <1>2, <1>4, <1>5, <1>11, <1>12, <1>13, <1>14, <1>15, LoopKeeps

(* A server made afresh has nothing of anybody. *)
LEMMA BuildStored ==
    ASSUME ProtocolInv, ProtocolInv', StoredInv, NEW c \in Clients, Frame(c), NEW st,
           Build(c, st)
    PROVE  StoredInv'
<1>1. /\ Domains /\ Stored(c) /\ Owner(c) /\ OneBirth(c) /\ Subscriber(c)
  BY OwnFacts DEF StoredInv, StoredClient
<1>2. /\ inst' = inst /\ dt' = dt /\ duid' = duid /\ loop' = loop
      /\ checked' = [checked EXCEPT ![c] = {}]
      /\ net' = [net EXCEPT ![c] = [kind |-> "register", gen |-> srv'.gen, state |-> st]]
  BY DEF Build
<1>3. net'[c].kind = "register" /\ checked'[c] = {}
  BY <1>1, <1>2 DEF Domains
<1>4. \/ srv' = srv
      \/ srv'.wired = {} /\ srv'.cseqMap = [x \in Clients |-> 0]
  BY DEF Build, NewServer
<1>5. Bound(c)' => Bound(c)
  BY <1>2, <1>3 DEF Bound
<1>6. Seen(c)' \subseteq Seen(c)
  BY <1>2, <1>3 DEF Seen
<1>13. srv' = srv => \A k : CountedBefore(c, k)' <=> CountedBefore(c, k)
  BY <1>2 DEF CountedBefore
<1>14. srv' = srv => (Untouched(c)' <=> Untouched(c))
  BY <1>13 DEF Untouched
<1>7. Unused(c)' /\ Stored(c)'
  BY <1>1, <1>2, <1>3, <1>4, <1>13 DEF Unused, Stored, Linked, Live
<1>8. Owner(c)' /\ Told(c)'
  BY <1>1, <1>2, <1>3, <1>4, <1>5, <1>14 DEF Owner, Told, Linked
<1>9. OneBirth(c)'
  BY <1>1, <1>6 DEF OneBirth
<1>10. Subscriber(c)'
  BY <1>1, <1>2, <1>3, <1>4, <1>14 DEF Subscriber, Linked
<1>11. StoredClient(c)'
  BY <1>7, <1>8, <1>9, <1>10 DEF StoredClient
<1>12. \A d \in Clients \ {c} : Undisturbed(d)
  <2>1. CASE srv' = srv
    BY <2>1, SameUndisturbed
  <2>2. CASE srv'.wired = {} /\ srv'.cseqMap = [x \in Clients |-> 0]
    BY <2>2 DEF Undisturbed, Linked
  <2> QED
    BY <1>4, <2>1, <2>2
<1> QED
  BY <1>11, <1>12, StoredOthers

(* A new datatype finds stored what the client's earlier ones have left,    *)
(* since the cseq map outlives them.                                        *)
LEMMA RegisterStored ==
    ASSUME ProtocolInv, ProtocolInv', LedgerInv, StoredInv, NEW c \in Clients, Frame(c),
           Register(c)
    PROVE  StoredInv'
<1>1. /\ Domains /\ Shape(c) /\ Phase(c) /\ ServerShape(srv) /\ Unused(c) /\ Entered(c)
  BY OwnFacts DEF StoredInv, StoredClient, LedgerInv
<1>2. /\ net[c].kind = "register" /\ checked' = checked
      /\ inst' = [inst EXCEPT ![c] = @ + 1]
      /\ dt' = [dt EXCEPT ![c] = NewMutable(Origins, net[c].state)]
      /\ net' = [net EXCEPT ![c] = Idle]
      /\ srv' = IF srv.present /\ srv.gen = net[c].gen
                THEN [srv EXCEPT !.wired = @ \cup {c}] ELSE srv
  BY DEF Register
<1>3. inst[c] \in Nat /\ inst'[c] - 1 = inst[c]
  BY <1>1, <1>2, SyncAssumption DEF Shape, Domains
<1>4. checked'[c] = {}
  BY <1>1, <1>2 DEF Unused
<1>5. net[c].state \in InitialStates /\ net[c].state \in States
  BY <1>1, <1>2 DEF Shape, Exchange, InitialStates, States
<1>6. net'[c].kind = "idle" /\ dt'[c] = NewMutable(Origins, net[c].state)
  BY <1>1, <1>2 DEF Domains, Idle
<1>7. dt'[c].state = net[c].state /\ dt'[c].pending = <<>>
  BY <1>5, <1>6, NewMutableFields
<1>8. Seen(c)' = {net[c].state}
  BY <1>6, <1>7 DEF Seen
<1>9. /\ srv'.cseqMap = srv.cseqMap /\ srv'.history = srv.history /\ srv'.present = srv.present
      /\ srv'.created = srv.created /\ srv'.duid = srv.duid
      /\ srv'.wired \subseteq srv.wired \cup {c}
  BY <1>1, <1>2 DEF ServerShape
<1>10. ~Bound(c)'
  BY <1>4, <1>5, <1>6, <1>7 DEF Bound, InitialStates, Confirmed
<1>17. Untouched(c)'
  <2> DEFINE k == srv.cseqMap[c]
             h == srv.history
  <2>1. k \in Nat /\ h \in Seq(Transactions)
    BY <1>1 DEF ServerShape
  <2>2. CASE k = 0
    BY <1>9, <2>2 DEF Untouched
  <2>3. CASE k # 0
    <3>1. k > 0
      BY <2>1, <2>3
    <3>2. PICK i \in Entries(c) : h[i].cseq = k
      BY <1>1, <3>1 DEF Entered
    <3>3. /\ i \in 1..Len(h) /\ h[i].cuid = c /\ Signed(c, inst[c], h[i].ops)
      BY <1>1 DEF Entered, Entries
    <3>4. /\ i \in DOMAIN h /\ h[i].cseq >= k
          /\ h[i].ops[1] \in {c} \X (1..(inst'[c] - 1))
      BY <1>3, <2>1, <3>2, <3>3 DEF Signed
    <3>5. CountedBefore(c, k)'
      BY <1>9, <3>3, <3>4 DEF CountedBefore
    <3> QED
      BY <1>9, <3>5 DEF Untouched
  <2> QED
    BY <2>2, <2>3
<1>11. Unused(c)' /\ Owner(c)' /\ Told(c)'
  BY <1>6, <1>10, <1>17 DEF Unused, Owner, Told
<1>12. Stored(c)'
  <2>1. ServerShape(srv)'
    BY DEF ProtocolInv
  <2>2. (\A i \in 1..srv.cseqMap[c] : CountedBefore(c, i))'
    BY <1>17, <2>1, UntouchedStored, PTL
  <2> QED
    BY <2>2 DEF Stored
<1>13. OneBirth(c)' /\ Subscriber(c)'
  BY <1>4, <1>6, <1>7, <1>8, <1>17 DEF OneBirth, Subscriber
<1>14. StoredClient(c)'
  BY <1>11, <1>12, <1>13 DEF StoredClient
<1>15. Longer(srv.history, srv'.history)
  BY <1>1, <1>9 DEF Longer, ServerShape
<1>16. \A d \in Clients \ {c} : Undisturbed(d)
  BY <1>9, <1>15 DEF Undisturbed, Linked
<1> QED
  BY <1>14, <1>16, StoredOthers

(* The removal of the server entry. *)
LEMMA RemoveStored ==
    ASSUME ProtocolInv, ProtocolInv', StoredInv, NEW c \in Clients, Frame(c), RemoveServer(c)
    PROVE  StoredInv'
<1>1. /\ Domains /\ Phase(c) /\ Shape(c) /\ ServerShape(srv)
      /\ OneBirth(c) /\ Subscriber(c)
  BY OwnFacts DEF StoredInv, StoredClient
<1>2. /\ net[c].kind = "collect" /\ dt' = dt /\ inst' = inst /\ checked' = checked
      /\ net'[c] = net[c].reply
      /\ srv' = IF srv.gen = net[c].gen THEN [srv EXCEPT !.present = FALSE] ELSE srv
  BY <1>1 DEF RemoveServer, clientVars, Domains
<1>3. net'[c].kind = "pulled" /\ net'[c].state = "Disabled" /\ c \notin srv.wired
  BY <1>1, <1>2 DEF Phase, Shape, Exchange
<1>4. /\ srv'.cseqMap = srv.cseqMap /\ srv'.history = srv.history
      /\ srv'.created = srv.created /\ srv'.duid = srv.duid
      /\ srv'.wired = srv.wired /\ (srv'.present => srv.present)
  BY <1>1, <1>2 DEF ServerShape
<1>5. ~Linked(c)' /\ ~Linked(c)
  BY <1>3, <1>4 DEF Linked
<1>6. Seen(c)' \subseteq Seen(c) \cup {"Disabled"}
  BY <1>2, <1>3 DEF Seen
<1>7. Unused(c)' /\ Stored(c)' /\ Owner(c)' /\ Told(c)'
  BY <1>1, <1>2, <1>3, <1>4, <1>5 DEF Unused, Stored, Owner, Told
<1>8. OneBirth(c)'
  BY <1>1, <1>6 DEF OneBirth, InitialStates
<1>9. Subscriber(c)'
  BY <1>1, <1>2, <1>3, <1>5 DEF Subscriber
<1>10. StoredClient(c)'
  BY <1>7, <1>8, <1>9 DEF StoredClient
<1>11. Longer(srv.history, srv'.history)
  BY <1>1, <1>4 DEF Longer, ServerShape
<1>12. \A d \in Clients \ {c} : Undisturbed(d)
  BY <1>4, <1>11 DEF Undisturbed, Linked
<1> QED
  BY <1>10, <1>12, StoredOthers

(* Storing a pack of client c, whose transactions the server has up to its  *)
(* cseq, leaves it with the transactions up to the new one.                 *)
LEMMA PackStored ==
    ASSUME ProtocolInv, ProtocolInv', NEW c \in Clients, StoresPack(c), Linked(c),
           Stored(c), Live(c), dt' = dt, inst' = inst
    PROVE  \A i \in 1..srv'.cseqMap[c] :
               InHistory(srv'.history, dt[c].buf.txs, i) \/ CountedBefore(c, i)'
<1> DEFINE k == srv.cseqMap[c]
           all == dt[c].buf.txs
           h == srv.history
           g == srv'.history
<1>1. Acknowledged(c) /\ ServerShape(srv) /\ Shape(c) /\ ServerShape(srv)'
  BY OwnFacts DEF StoresPack
<1>2. dt[c].cp.cseq <= srv.cseqMap[c]
  BY <1>1 DEF Acknowledged, Reached
<1>3. PICK new \in Seq(Transactions) :
         srv'.history = srv.history \o new /\ Continues(c, srv'.cseqMap, new)
  BY <1>2 DEF StoresPack, Appends
<1>4. /\ k \in Nat /\ h \in Seq(Transactions) /\ all \in Seq(Transactions)
      /\ srv.cseqMap \in [Clients -> Nat]
  BY <1>1 DEF ServerShape, Shape, Replica, Buffers
<1>5. Len(h) \in Nat /\ Len(all) \in Nat /\ Len(new) \in Nat
  BY <1>4
<1>6. srv'.cseqMap[c] = k + Len(new)
  BY <1>3, <1>4 DEF Continues
<1>7. \A i \in 1..Len(new) : k + i <= Len(all) /\ new[i] = all[k + i]
  BY <1>3 DEF Continues
<1>8. \A i \in 1..k : InHistory(h, all, i) \/ CountedBefore(c, i)
  BY DEF Stored
<1>9. g = h \o new /\ g \in Seq(Transactions)
  BY <1>3, <1>4
<1>10. Longer(h, g) /\ Longer(all, all)
  BY <1>4, <1>9 DEF Longer
<1>11. ASSUME NEW i \in 1..(k + Len(new)) PROVE InHistory(g, all, i) \/ CountedBefore(c, i)'
  <2>1. CASE i <= k
    <3>1. i \in 1..k /\ i \in Nat /\ i >= 1
      BY <1>4, <1>5, <2>1
    <3>2. CASE CountedBefore(c, i)
      BY <1>1, <1>10, <3>2, LongerCounts
    <3>3. CASE InHistory(h, all, i)
      <4> HIDE DEF h, all, g
      <4> QED
        BY <1>4, <1>9, <1>10, <3>1, <3>3, InHistoryLater
    <3> QED
      BY <1>8, <3>1, <3>2, <3>3
  <2>2. CASE i > k
    <3> HIDE DEF h, all, g, k
    <3> DEFINE a == i - k
    <3>1. a \in 1..Len(new) /\ k + a = i
      BY <1>4, <1>5, <2>2
    <3> HIDE DEF a
    <3>2. new[a] = all[i] /\ i <= Len(all)
      BY <1>7, <3>1
    <3>3. Len(h) + a \in 1..Len(g) /\ g[Len(h) + a] = new[a]
      BY <1>4, <1>5, <1>9, <3>1
    <3> QED
      BY <3>2, <3>3 DEF Holds, InHistory
  <2> QED
    BY <1>4, <2>1, <2>2
<1> QED
  BY <1>6, <1>11

(* A push: what is stored comes from the buffer of the client it is counted *)
(* for.                                                                     *)
LEMMA ServerStored ==
    ASSUME ProtocolInv, ProtocolInv', StoredInv, NEW c \in Clients, Frame(c), ServerEffect(c)
    PROVE  StoredInv'
<1>1. /\ Domains /\ Phase(c) /\ ServerShape(srv)
      /\ Stored(c) /\ Owner(c) /\ OneBirth(c) /\ Subscriber(c)
  BY OwnFacts DEF StoredInv, StoredClient
<1>2. PICK r : Reply(c, srv', r) /\ Replies(c, r) /\ net[c].kind = "push"
  BY DEF ServerEffect
<1>3. /\ net'[c] = r /\ dt' = dt /\ inst' = inst /\ checked' = checked /\ duid' = duid
      /\ loop' = loop
  BY <1>1, <1>2 DEF Reply, clientVars, Domains
<1>4. net[c].state \in Seen(c)
  BY <1>2 DEF Seen
<1>5. /\ r.kind \in {"pulled", "collect"}
      /\ r.kind = "pulled" => r.state \in {net[c].state, "Subscribed", "Disabled"}
  BY <1>2 DEF Replies
<1>6. Seen(c)' \subseteq Seen(c) \cup {"Subscribed", "Disabled"}
  BY <1>3, <1>4, <1>5 DEF Seen
<1>7. Bound(c)' => Bound(c)
  BY <1>3, <1>5 DEF Bound
<1>8. srv' = srv \/ StoresPack(c)
  BY DEF ServerEffect
<1>9. Linked(c)' => Linked(c)
  BY <1>8 DEF StoresPack, Linked
<1>19. srv' = srv => \A k : CountedBefore(c, k)' <=> CountedBefore(c, k)
  BY <1>3 DEF CountedBefore
<1>20. srv' = srv => (Untouched(c)' <=> Untouched(c))
  BY <1>19 DEF Untouched
<1>10. Linked(c)' /\ (~Untouched(c)' \/ Bound(c)) => srv'.created /\ duid[c] = srv'.duid
  <2> SUFFICES ASSUME Linked(c)', ~Untouched(c)' \/ Bound(c)
               PROVE  srv'.created /\ duid[c] = srv'.duid
    OBVIOUS
  <2>1. CASE srv' = srv
    BY <1>1, <1>9, <1>20, <2>1 DEF Owner
  <2>2. CASE StoresPack(c) /\ net[c].state \in Confirmed
    <3>1. Bound(c)
      BY <1>2, <2>2 DEF Bound
    <3>2. srv.created /\ duid[c] = srv.duid
      BY <1>1, <1>9, <3>1 DEF Owner
    <3> QED
      BY <2>2, <3>2 DEF StoresPack
  <2>3. CASE StoresPack(c) /\ net[c].state \notin Confirmed
    BY <2>3 DEF StoresPack, Confirmed
  <2> QED
    BY <1>8, <2>1, <2>2, <2>3
<1>11. Unused(c)'
  BY <1>3, <1>5 DEF Unused
<1>12. Stored(c)'
  <2> SUFFICES ASSUME Linked(c)', Live(c)'
               PROVE  \A i \in 1..srv'.cseqMap[c] :
                          InHistory(srv'.history, dt[c].buf.txs, i) \/ CountedBefore(c, i)'
    BY <1>3 DEF Stored
  <2>1. Linked(c) /\ Live(c)
    BY <1>3, <1>9 DEF Live
  <2>2. CASE srv' = srv
    BY <1>1, <1>19, <2>1, <2>2 DEF Stored
  <2>3. CASE StoresPack(c)
    BY <1>1, <1>3, <2>1, <2>3, PackStored
  <2> QED
    BY <1>8, <2>2, <2>3
<1>13. Owner(c)'
  BY <1>3, <1>7, <1>10 DEF Owner
<1>14. Told(c)'
  <2> SUFFICES ASSUME r.kind = "pulled", r.state # "Disabled"
               PROVE  \/ r.error # "none" /\ r.state \in InitialStates
                      \/ /\ r.error = "none" /\ r.state = "Subscribed"
                         /\ r.snapshot = <<>> => r.duid = duid[c]
                         /\ r.snapshot # <<>> => "Creating" \notin Seen(c)'
                         /\ Linked(c)' => srv'.created /\ r.duid = srv'.duid
    BY <1>3 DEF Told
  <2>1. CASE r.error # "none"
    BY <1>2, <2>1 DEF Replies, InitialStates
  <2>2. CASE r.error = "none" /\ r.snapshot = <<>>
    <3>1. /\ r.state = "Subscribed" /\ r.duid = duid[c]
          /\ \/ net[c].state = "Subscribed"
             \/ srv'.created /\ srv'.duid = duid[c]
      BY <1>2, <2>2 DEF Replies
    <3>2. net[c].state = "Subscribed" => Bound(c)
      BY <1>2 DEF Bound, Confirmed
    <3> QED
      BY <1>10, <2>2, <3>1, <3>2
  <2>3. CASE r.error = "none" /\ r.snapshot # <<>>
    <3>1. /\ r.state = "Subscribed" /\ r.duid = srv.duid /\ srv.created /\ srv' = srv
          /\ net[c].state \in {"Subscribing", "SubscribingOrCreating"}
      BY <1>2, <2>3 DEF Replies
    <3>2. "Creating" \notin Seen(c)
      BY <1>1, <1>4, <3>1 DEF OneBirth, InitialStates
    <3> QED
      BY <1>6, <2>3, <3>1, <3>2
  <2> QED
    BY <2>1, <2>2, <2>3
<1>15. OneBirth(c)'
  BY <1>1, <1>6 DEF OneBirth, InitialStates
<1>16. Subscriber(c)'
  <2>1. r.kind = "pulled" /\ r.state = "Subscribing" => dt[c].state = "Subscribing"
    BY <1>1, <1>2, <1>5 DEF Subscriber
  <2>2. dt[c].state = "Subscribing" => srv' = srv
    BY <1>1, <1>2, <1>8 DEF Subscriber, StoresPack, Births
  <2> QED
    BY <1>1, <1>3, <1>5, <1>20, <2>1, <2>2 DEF Subscriber, Linked
<1>17. StoredClient(c)'
  BY <1>11, <1>12, <1>13, <1>14, <1>15, <1>16 DEF StoredClient
<1>18. \A d \in Clients \ {c} : Undisturbed(d)
  <2>1. CASE srv' = srv
    BY <2>1, SameUndisturbed
  <2>2. CASE StoresPack(c)
    <3>1. /\ srv.present /\ srv'.wired \subseteq srv.wired
          /\ \A d \in Clients \ {c} : srv'.cseqMap[d] = srv.cseqMap[d]
          /\ srv.created => srv'.created /\ srv'.duid = srv.duid
      BY <2>2 DEF StoresPack
    <3>2. PICK new \in Seq(Transactions) : srv'.history = srv.history \o new
      BY <2>2 DEF StoresPack, Appends
    <3>3. srv.history \in Seq(Transactions)
      BY <1>1 DEF ServerShape
    <3>4. Longer(srv.history, srv'.history)
      BY <3>2, <3>3 DEF Longer
    <3> QED
      BY <3>1, <3>4 DEF Undisturbed, Linked
  <2> QED
    BY <1>8, <2>1, <2>2
<1> QED
  BY <1>17, <1>18, StoredOthers

(* It holds before anything is built ... *)
LEMMA InitStored == Init => StoredInv
<1> SUFFICES ASSUME Init, NEW c \in Clients PROVE StoredClient(c)
  BY DEF StoredInv
<1>1. /\ inst[c] = 0 /\ dt[c] = NewMutable(Origins, "Disabled") /\ checked[c] = {}
      /\ net[c] = Idle /\ ~srv.present /\ srv.cseqMap[c] = 0
  BY DEF Init, NewServer
<1>2. net[c].kind = "idle"
  BY <1>1 DEF Idle
<1>3. dt[c].state = "Disabled" /\ dt[c].pending = <<>>
  BY <1>1, NewMutableFields DEF States
<1>4. Seen(c) = {"Disabled"}
  BY <1>2, <1>3 DEF Seen
<1> QED
  BY <1>1, <1>2, <1>3, <1>4
     DEF StoredClient, Unused, Stored, Owner, Told, OneBirth, Subscriber, Linked, InitialStates

(* ... and every step keeps it. *)
LEMMA NextStored ==
    ASSUME ProtocolInv, ProtocolInv', LedgerInv, StoredInv, [Next]_vars
    PROVE  StoredInv'
<1>1. CASE Next
  <2>1. PICK c \in Clients : User(c) \/ Server(c) \/ EventLoop(c)
    BY <1>1 DEF Next
  <2>2. Frame(c)
    BY <2>1, EveryStep DEF StepOf
  <2>3. CASE User(c)
    BY <2>2, <2>3, BuildStored, CheckStored, ExecuteOpStored, EndTxStored,
       SetUnsubscribingStored DEF User
  <2>4. CASE Server(c)
    <3>1. ServerEffect(c) \/ RemoveServer(c)
      BY <2>4, RefusalEffect, CreatingEffect, SubscribingEffect, SubscribedEffect,
         UnsubscribingEffect DEF Server
    <3> QED
      BY <2>2, <3>1, ServerStored, RemoveStored
  <2>5. CASE EventLoop(c)
    BY <2>2, <2>5, RegisterStored, StartPushStored, TimeOutStored, ApplyErrorStored,
       ApplyIllegalStored, ApplyPulledStored, HandleErrorStored DEF EventLoop
  <2> QED
    BY <2>1, <2>3, <2>4, <2>5
<1>2. CASE UNCHANGED vars
  <2>1. \A c, k : CountedBefore(c, k)' <=> CountedBefore(c, k)
    BY <1>2 DEF vars, CountedBefore
  <2>2. \A c : Untouched(c)' <=> Untouched(c)
    BY <1>2, <2>1 DEF vars, Untouched
  <2> QED
    BY <1>2, <2>1, <2>2 DEF vars, StoredInv, StoredClient, Unused, Stored, Owner, Told,
                            OneBirth, Subscriber, Bound, Seen, Linked, Live
<1> QED
  BY <1>1, <1>2

(* A checkpoint is within what the server counts, which is stored, and once *)
(* since the cseqs of a client's entries increase.                          *)
LEMMA StoredImplies == ProtocolInv /\ LedgerInv /\ StoredInv => AckedIsStored
<1> SUFFICES ASSUME ProtocolInv, LedgerInv, StoredInv, NEW c \in Clients, Attached(c),
                    NEW i \in DOMAIN dt[c].buf.txs, dt[c].buf.txs[i].cseq <= dt[c].cp.cseq
             PROVE  StoredOnce(dt[c].buf.txs[i]) \/ CountedBefore(c, dt[c].buf.txs[i].cseq)
  BY DEF AckedIsStored
<1> DEFINE tx == dt[c].buf.txs[i]
           h == srv.history
<1>1. /\ Shape(c) /\ Phase(c) /\ Numbered(c) /\ Acknowledged(c) /\ ServerShape(srv)
      /\ Stored(c) /\ Entered(c)
  BY OwnFacts DEF StoredInv, StoredClient, LedgerInv
<1>2. Linked(c) /\ Live(c)
  BY <1>1 DEF Attached, Linked, Phase, Gone
<1>3. /\ dt[c].buf.txs \in Seq(Transactions) /\ dt[c].cp.cseq \in Nat
      /\ srv.cseqMap[c] \in Nat /\ h \in Seq(Transactions)
  BY <1>1 DEF Shape, Replica, Buffers, Checkpoints, ServerShape
<1>4. i \in 1..Len(dt[c].buf.txs)
  BY <1>3
<1>5. tx.cseq = i /\ tx.cuid = c
  BY <1>1, <1>2, <1>4 DEF Numbered, OwnNumbering
<1>6. dt[c].cp.cseq <= srv.cseqMap[c]
  BY <1>1, <1>2 DEF Acknowledged, Reached
<1>7. i \in 1..srv.cseqMap[c]
  BY <1>3, <1>4, <1>5, <1>6
<1>8. InHistory(h, dt[c].buf.txs, i) \/ CountedBefore(c, i)
  BY <1>1, <1>2, <1>7 DEF Stored
<1>9. ASSUME InHistory(h, dt[c].buf.txs, i) PROVE StoredOnce(tx)
  <2>1. PICK j \in 1..Len(h) : h[j] = tx
    BY <1>9 DEF InHistory, Holds
  <2>2. DOMAIN h = 1..Len(h) /\ Len(h) \in Nat
    BY <1>3
  <2>3. ASSUME NEW k \in 1..Len(h), h[k] = tx PROVE k = j
    <3>1. k \in Entries(c) /\ j \in Entries(c)
      BY <1>5, <2>1, <2>3 DEF Entries
    <3>2. ~(tx.cseq < tx.cseq)
      BY <1>4, <1>5
    <3>3. ~(k < j) /\ ~(j < k)
      BY <1>1, <2>1, <2>3, <3>1, <3>2 DEF Entered
    <3> QED
      BY <2>2, <3>3
  <2> HIDE DEF tx
  <2>4. \A k \in DOMAIN h : h[k] = tx <=> k = j
    BY <2>1, <2>2, <2>3
  <2> QED
    BY <2>1, <2>2, <2>4 DEF StoredOnce, h
<1> QED
  BY <1>5, <1>8, <1>9

(* A transaction that the checkpoint of an attached client counts as        *)
(* synchronised is in the server's history, once, for any number of         *)
(* clients, faults, operations and datatypes, except where the server had   *)
(* counted its cseq for an earlier datatype of the client: a client's       *)
(* second datatype of a key starts at cseq 1 while the server's cseq map    *)
(* remembers the first one's, so that push_transactions skips its first     *)
(* transactions as known.                                                   *)
THEOREM NoAcknowledgedWriteLost == Spec => []AckedIsStored
<1>1. Init => ProtocolInv /\ LedgerInv /\ StoredInv
  BY InitInv, InitLedger, InitStored
<1>2. ProtocolInv /\ LedgerInv /\ StoredInv /\ [Next]_vars =>
          ProtocolInv' /\ LedgerInv' /\ StoredInv'
  BY NextInv, NextLedger, NextStored
<1>3. ProtocolInv /\ LedgerInv /\ StoredInv => AckedIsStored
  BY StoredImplies
<1> QED
  BY <1>1, <1>2, <1>3, PTL DEF Spec

(* The total size of one transaction is its size. *)
LEMMA OneSize ==
    ASSUME NEW txs, NEW i, TxSize(txs[i]) \in Int, i..i = {i}
    PROVE  RangeSize(txs, i, i) = TxSize(txs[i])
<1> DEFINE size(k) == TxSize(txs[k])
           S == {i}
           def(iter) == [s \in SUBSET S |->
                IF s = {} THEN 0
                ELSE LET x == CHOOSE y \in s : TRUE IN size(x) + iter[s \ {x}]]
           f == CHOOSE iter : iter = def(iter)
           g == [s \in SUBSET S |-> IF s = {} THEN 0 ELSE size(i)]
<1>1. RangeSize(txs, i, i) = f[S]
  BY DEF RangeSize, MapThenSumSet, MapThenFoldSet
<1> HIDE DEF size
<1>2. size(i) \in Int
  BY DEF size
<1>3. (CHOOSE y \in S : TRUE) = i
  OBVIOUS
<1>4. {} \in SUBSET S /\ S \in SUBSET S /\ S # {} /\ S \ {i} = {}
  OBVIOUS
<1>5. g = def(g)
  <2>1. ASSUME NEW s \in SUBSET S
        PROVE  g[s] = IF s = {} THEN 0
                      ELSE LET x == CHOOSE y \in s : TRUE IN size(x) + g[s \ {x}]
    <3>1. CASE s = {}
      BY <3>1
    <3>2. CASE s # {}
      <4>1. s = S
        BY <3>2
      <4>2. g[S] = size(i) /\ g[{}] = 0
        BY <1>4
      <4>3. size(i) + 0 = size(i)
        BY <1>2
      <4> HIDE DEF g
      <4>4. g[S] = size(i) + g[S \ {i}]
        BY <1>4, <4>2, <4>3
      <4> HIDE DEF S
      <4>5. g[S] = LET x == CHOOSE y \in S : TRUE IN size(x) + g[S \ {x}]
        BY <1>3, <4>4
      <4> QED
        BY <1>4, <4>1, <4>5
    <3> QED
      BY <3>1, <3>2
  <2> QED
    BY <2>1
<1>6. f = def(f)
  <2> HIDE DEF def, g
  <2> QED
    BY <1>5
<1> HIDE DEF f
<1>7. f[{}] = 0
  BY <1>4, <1>6
<1>8. f[S] = size(i) + f[S \ {i}]
  BY <1>3, <1>4, <1>6
<1> HIDE DEF S, def
<1> QED
  BY <1>1, <1>2, <1>4, <1>7, <1>8 DEF size

(* The first transaction of a pack fits if it is no larger than the pack. *)
LEMMA FirstFits ==
    ASSUME NEW txs \in Seq(Transactions), NEW i \in Nat, i < Len(txs), NEW max \in Int,
           TxSize(txs[i + 1]) \in Int, TxSize(txs[i + 1]) <= max
    PROVE  FittingCount(txs, i, max) \in 1..(Len(txs) - i)
<1> DEFINE n == Len(txs) - i
           S == {k \in 1..n : RangeSize(txs, i + 1, i + k) <= max}
<1>1. n \in Nat /\ 1 \in 1..n /\ (i + 1)..(i + 1) = {i + 1}
  OBVIOUS
<1>2. RangeSize(txs, i + 1, i + 1) = TxSize(txs[i + 1])
  BY <1>1, OneSize
<1>3. 1 \in S
  BY <1>1, <1>2
<1>4. FittingCount(txs, i, max) \in 0..n
  <2>1. i \in 0..Len(txs)
    OBVIOUS
  <2> QED
    BY <2>1, FittingBound
<1>5. FittingCount(txs, i, max) # 0
  <2>1. IsFiniteSet(1..n)
    BY <1>1, FS_Interval
  <2>2. S \in SUBSET (1..n)
    OBVIOUS
  <2>3. FittingCount(txs, i, max) = Cardinality(S)
    BY DEF FittingCount
  <2> HIDE DEF S, n
  <2>4. IsFiniteSet(S)
    BY <2>1, <2>2, FS_Subset
  <2> QED
    BY <1>3, <2>3, <2>4, FS_EmptySet
<1> QED
  BY <1>1, <1>4, <1>5

(* The transaction after the checkpoint is the first of the next pack, if   *)
(* it fits into one.                                                        *)
LEMMA NextIsPushed ==
    ASSUME ProtocolInv, NEW c \in Clients, Unacked(c),
           NEW next, next = dt[c].cp.cseq + 1
    PROVE  /\ ~CannotPushFrom(dt[c].buf, next)
           /\ next \in DOMAIN dt[c].buf.txs /\ dt[c].buf.txs[next].cseq = next
           /\ \/ TxSize(dt[c].buf.txs[next]) > scenario.transmit
              \/ NextTxs(c) # <<>> /\ NextTxs(c)[1] = dt[c].buf.txs[next]
<1> DEFINE m == dt[c]
           k == m.cp.cseq
           all == m.buf.txs
           max == scenario.transmit
           txs == PushingTransactions(m.buf, next, max)
           f == FittingCount(all, k, max)
<1>1. Replica(m) /\ OwnNumbering(m, c)
  <2>1. Live(c)
    BY OwnFacts DEF Phase, Unacked, Attached, Gone
  <2> QED
    BY <2>1, OwnFacts DEF Shape, Numbered
<1>2. /\ m.buf \in Buffers /\ all \in Seq(Transactions) /\ k \in Nat /\ max \in Nat
  BY <1>1, SyncAssumption DEF Replica, Buffers, Checkpoints, ProtocolInv
<1>3. k < Len(all) /\ Len(all) \in Nat
  <2> DEFINE n == Len(all)
  <2>1. k < n
    BY <1>1 DEF OwnNumbering, Unacked
  <2>2. n \in Nat /\ k \in Nat
    BY <1>2
  <2> QED
    BY <2>1, <2>2
<1>4. next \in 1..Len(all) /\ next \in DOMAIN all
  <2> DEFINE n == Len(all)
  <2>1. next = k + 1 /\ k < n /\ k \in Nat /\ n \in Nat
    BY <1>2, <1>3
  <2>2. DOMAIN all = 1..n
    BY <1>2
  <2> HIDE DEF k, n
  <2>3. next \in 1..n
    BY ONLY <2>1
  <2> QED
    BY <2>2, <2>3 DEF n
<1>5. m.buf.first_cseq = 1 /\ all[next].cseq = next
  <2>1. all # <<>>
    <3>1. Len(<<>>) = 0
      OBVIOUS
    <3> QED
      BY <1>2, <1>3, <3>1
  <2> QED
    BY <1>1, <1>4, <2>1 DEF OwnNumbering
<1>6. TxSize(all[next]) \in Nat
  <2>1. all[next] \in Transactions
    BY <1>2, <1>4
  <2>2. Len(all[next].ops) \in Nat
    <3> DEFINE tx == all[next]
    <3>1. tx \in Transactions
      BY <2>1
    <3> HIDE DEF tx
    <3>2. tx.ops \in Seq(Origins)
      BY ONLY <3>1 DEF Transactions
    <3>3. Len(tx.ops) \in Nat
      BY ONLY <3>2
    <3> QED
      BY <3>3 DEF tx
  <2> DEFINE n == Len(all[next].ops)
  <2>3. n \in Nat /\ TxSize(all[next]) = 1 + n
    BY <2>2 DEF TxSize
  <2> HIDE DEF n
  <2> QED
    BY <2>3
<1>7. ~CannotPushFrom(m.buf, next)
  BY <1>2, <1>5 DEF CannotPushFrom
<1>8. ASSUME TxSize(all[next]) <= max PROVE txs # <<>> /\ txs[1] = all[next]
  <2>1. f \in 1..(Len(all) - k)
    <3> HIDE DEF all, k, max
    <3>1. max \in Int /\ TxSize(all[k + 1]) \in Int /\ TxSize(all[k + 1]) <= max
      BY <1>2, <1>6, <1>8 DEF k
    <3> QED
      BY <1>2, <1>3, <3>1, FirstFits
  <2>2. txs = SubSeq(all, k + 1, k + f)
    <3>1. next - m.buf.first_cseq = k
      BY <1>2, <1>5
    <3>2. ~(Len(all) <= k)
      BY <1>2, <1>3
    <3> HIDE DEF k
    <3> QED
      BY <3>1, <3>2 DEF PushingTransactions
  <2>3. txs # <<>>
    <3>1. k + 1 \in 1..Len(all) /\ k + f \in 1..Len(all) /\ k + 1 <= k + f
      <4> DEFINE n == Len(all)
      <4>1. k \in Nat /\ n \in Nat /\ k < n /\ f \in 1..(n - k)
        BY <1>2, <1>3, <2>1
      <4> HIDE DEF f, k, n
      <4>2. k + 1 \in 1..n /\ k + f \in 1..n /\ k + 1 <= k + f
        BY <4>1
      <4> QED
        BY <4>2 DEF n
    <3> HIDE DEF f, all, k
    <3>2. Len(txs) = (k + f) - (k + 1) + 1
      BY <1>2, <2>2, <3>1, SubSeqProperties
    <3>3. Len(txs) # 0
      BY <1>2, <2>1, <3>2
    <3> HIDE DEF txs
    <3> QED
      BY <3>3
  <2>4. txs[1] = all[next]
    <3>1. /\ txs \in Seq(Transactions)
          /\ \A j \in 1..Len(txs) : k + j <= Len(all) /\ txs[j] = all[k + j]
      <4>1. next = m.cp.cseq + 1 /\ txs = PushingTransactions(m.buf, next, max)
        OBVIOUS
      <4> HIDE DEF m, max, txs
      <4>2. txs \in Seq(Transactions) /\ Unacknowledged(txs, m)
        BY <1>1, <4>1, PushingFields
      <4> QED
        BY <4>2 DEF Unacknowledged
    <3> HIDE DEF txs, all
    <3>2. 1 \in 1..Len(txs)
      BY <2>3, <3>1
    <3> QED
      BY <3>1, <3>2
  <2> QED
    BY <2>3, <2>4
<1>9. TxSize(all[next]) > max \/ TxSize(all[next]) <= max
  BY <1>2, <1>6
<1>10. NextTxs(c) = txs
  BY DEF NextTxs
<1> HIDE DEF txs
<1> QED
  BY <1>4, <1>5, <1>7, <1>8, <1>9, <1>10

(* What an attached client has committed and the server not acknowledged is *)
(* still in its buffer and at the head of the next pack (do_push_pull,      *)
(* get_pushing_transactions), unless it is larger than a pack: no committed *)
(* transaction is skipped, or dropped by a snapshot, a rollback or a reset, *)
(* however exchanges fail and repeat.                                       *)
THEOREM NothingPassedOver == Spec => []UnackedIsPushed
<1>1. ProtocolInv => UnackedIsPushed
  <2> SUFFICES ASSUME ProtocolInv, NEW c \in Clients, Unacked(c)
               PROVE  /\ ~CannotPushFrom(dt[c].buf, dt[c].cp.cseq + 1)
                      /\ \E i \in DOMAIN dt[c].buf.txs :
                            /\ dt[c].buf.txs[i].cseq = dt[c].cp.cseq + 1
                            /\ \/ TxSize(dt[c].buf.txs[i]) > scenario.transmit
                               \/ NextTxs(c) # <<>> /\ NextTxs(c)[1] = dt[c].buf.txs[i]
    BY DEF UnackedIsPushed
  <2> DEFINE next == dt[c].cp.cseq + 1
  <2>1. next = dt[c].cp.cseq + 1
    OBVIOUS
  <2> HIDE DEF next
  <2> QED
    BY <2>1, NextIsPushed
<1> QED
  BY <1>1, ProtocolInvariant, PTL
=============================================================================
