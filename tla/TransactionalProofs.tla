------------------------- MODULE TransactionalProofs -------------------------
(***************************************************************************)
(* Isolation, atomicity, gapless client sequence numbers and type          *)
(* correctness of TransactionalDatatype for any number of threads, any     *)
(* length of transaction and any push-buffer limit.                        *)
(*                                                                         *)
(* tx_mutex plays no part in the argument, and cannot: an operation's      *)
(* end_transaction releases it under a running transaction.  What isolates *)
(* transactions is the tx_ctx slot: a call is between begin_transaction    *)
(* and the clearing of tx_ctx exactly if the slot holds its context.       *)
(***************************************************************************)
EXTENDS Transactional, FiniteSetTheorems, TLAPS

Holds(t) ==
    \/ pc[t] \in {"lockOp", "execute", "unlockOp", "lockTx", "body", "end", "takeCtx"}
    \/ pc[t] = "begin" /\ kind[t] = "tx"

CtxOwner == \A t \in Threads : Holds(t) <=> txCtx = t

KindOfLabel ==
    \A t \in Threads :
        /\ pc[t] \in {"waitOp", "waitedOp"} => kind[t] = "op"
        /\ pc[t] \in {"txBegin", "waitTx", "waitedTx", "lockTx", "body"} => kind[t] = "tx"

EndedClean == \A t \in Threads : pc[t] = "takeCtx" => m.pending = <<>>

IsolationInv == TypeOK /\ CtxOwner /\ KindOfLabel /\ EndedClean /\ Isolation

(* The cseq of the last committed transaction. *)
CommittedCseq == IF m.pending = <<>> THEN m.cseq ELSE m.rollback.cseq

CseqInv ==
    /\ m.pending # <<>> => m.cseq = m.rollback.cseq + 1 /\ m.rollback.state = m.state
    /\ m.buf.last_cseq # 0 => m.buf.last_cseq = CommittedCseq
    /\ m.state # "Disabled" =>
           CommittedCseq = Len(m.buf.txs) /\ m.buf.last_cseq = Len(m.buf.txs)

(* The call is past the callback that commits or rolls back. *)
Ended(t) == pc[t] \in {"takeCtx", "unlockTx", "returned"}

(* What a call has in effect: before it ends, all its operations, which are *)
(* the open transaction; afterwards all or none.                            *)
Tally ==
    m.state # "Disabled" => \A t \in Threads :
        /\ ~Holds(t) /\ ~Ended(t) => done[t] = 0 /\ m.crdt[t] = 0
        /\ Holds(t) /\ ~Ended(t) => m.crdt[t] = done[t] /\ Len(m.pending) = done[t]
        /\ Ended(t) => m.crdt[t] = IF guard[t] THEN done[t] ELSE 0

(* The call committed a transaction that was not empty. *)
Committed(t) == Ended(t) /\ guard[t] /\ done[t] > 0

(* The buffer is a list of the committed calls, each once. *)
Attributed ==
    m.state # "Disabled" =>
        /\ \A i \in DOMAIN m.buf.txs : \E t \in Threads :
              Committed(t) /\ m.buf.txs[i].ops = [j \in 1..done[t] |-> t]
        /\ \A i, k \in DOMAIN m.buf.txs :
              m.buf.txs[i].ops[1] = m.buf.txs[k].ops[1] => i = k
        /\ \A t \in Threads : Committed(t) =>
              \E i \in DOMAIN m.buf.txs : m.buf.txs[i].ops[1] = t

-----------------------------------------------------------------------------
(* Counting an origin in a sequence of operations gives a natural number. *)
LEMMA OpCountNat ==
    ASSUME NEW O, NEW ops \in Seq(O), NEW o
    PROVE  OpCount(ops, o) \in Nat
<1> DEFINE S == {i \in DOMAIN ops : ops[i] = o}
<1>1. IsFiniteSet(1..Len(ops))
  BY FS_Interval
<1>2. S \in SUBSET (1..Len(ops))
  OBVIOUS
<1>3. IsFiniteSet(S)
  BY <1>1, <1>2, FS_Subset
<1> HIDE DEF S
<1>4. Cardinality(S) \in Nat
  BY <1>3, FS_CardinalityType
<1> QED
  BY <1>4 DEF OpCount, S

(* Executing and inverting operations keep a replica's counters integers. *)
LEMMA CrdtType ==
    ASSUME NEW O, NEW crdt \in [O -> Int], NEW ops \in Seq(O)
    PROVE  ExecuteOps(crdt, ops) \in [O -> Int] /\ InverseOps(crdt, ops) \in [O -> Int]
<1>1. \A o : OpCount(ops, o) \in Nat
  BY OpCountNat
<1> QED
  BY <1>1 DEF ExecuteOps, InverseOps

(* execute_local_operation keeps the replica well formed. *)
LEMMA ExecuteLocalType ==
    ASSUME NEW r \in MutableType(Threads), NEW t \in Threads
    PROVE  ExecuteLocal(r, t) \in MutableType(Threads)
<1>1. /\ r.crdt \in [Threads -> Int] /\ r.cseq \in Nat /\ r.state \in States
      /\ r.pending \in Seq(Threads)
  BY DEF MutableType
<1>2. <<t>> \in Seq(Threads) /\ Append(r.pending, t) \in Seq(Threads)
  BY <1>1
<1>3. ExecuteOps(r.crdt, <<t>>) \in [Threads -> Int]
  BY <1>1, <1>2, CrdtType
<1>4. CASE r.pending = <<>>
  <2> DEFINE crdt == ExecuteOps(r.crdt, <<t>>)
             ops  == <<t>>
             save == [cseq |-> r.cseq, state |-> r.state]
             next == r.cseq + 1
  <2>1. ExecuteLocal(r, t) =
            [r EXCEPT !.crdt = crdt, !.pending = ops, !.rollback = save, !.cseq = next]
    BY <1>4 DEF ExecuteLocal, MutableType
  <2>2. crdt \in [Threads -> Int]
    BY <1>3
  <2>3. ops \in Seq(Threads)
    BY <1>2
  <2>4. next \in Nat /\ save \in [cseq : Nat, state : States]
    BY <1>1
  <2> HIDE DEF crdt, ops, save, next
  <2> QED
    BY <2>1, <2>2, <2>3, <2>4 DEF MutableType
<1>5. CASE r.pending # <<>>
  BY <1>1, <1>2, <1>3, <1>5 DEF ExecuteLocal, MutableType
<1> QED
  BY <1>4, <1>5

(* do_rollback keeps the replica well formed. *)
LEMMA DoRollbackType ==
    ASSUME NEW r \in MutableType(Threads)
    PROVE  DoRollback(r) \in MutableType(Threads)
<1>1. /\ r.crdt \in [Threads -> Int] /\ r.pending \in Seq(Threads)
      /\ r.rollback.cseq \in Nat /\ r.rollback.state \in States
  BY DEF MutableType
<1>2. InverseOps(r.crdt, r.pending) \in [Threads -> Int]
  BY <1>1, CrdtType
<1>3. <<>> \in Seq(Threads)
  OBVIOUS
<1> QED
  BY <1>1, <1>2, <1>3 DEF DoRollback, MutableType

(* end_transaction keeps the replica well formed. *)
LEMMA EndTransactionType ==
    ASSUME NEW r \in MutableType(Threads), NEW ok \in BOOLEAN
    PROVE  EndTransaction(r, Cuid, ok, MaxMem) \in MutableType(Threads)
<1> DEFINE tx == PendingTx(r, Cuid)
<1>1. CASE ~ok \/ ~CommitFits(r, Cuid, MaxMem)
  BY <1>1, DoRollbackType DEF EndTransaction
<1>2. CASE ok /\ CommitFits(r, Cuid, MaxMem) /\ r.pending = <<>>
  BY <1>2 DEF EndTransaction
<1>3. CASE ok /\ CommitFits(r, Cuid, MaxMem) /\ r.pending # <<>>
  <2>1. tx \in TxType(Threads)
    BY DEF MutableType, TxType, PendingTx
  <2>2. TxSize(tx) \in Nat
    BY <2>1 DEF TxSize, TxType
  <2> HIDE DEF tx
  <2>3. tx.cseq \in Nat
    BY <2>1 DEF TxType
  <2>4. Enqueue(r.buf, tx) \in [txs : Seq(TxType(Threads)), mem_size : Nat,
                                first_cseq : Nat, last_cseq : Nat]
    BY <2>1, <2>2, <2>3 DEF Enqueue, MutableType
  <2>5. EndTransaction(r, Cuid, ok, MaxMem) =
            [r EXCEPT !.buf = Enqueue(r.buf, tx), !.pending = <<>>]
    BY <1>3 DEF EndTransaction, tx
  <2>6. <<>> \in Seq(Threads)
    OBVIOUS
  <2> QED
    BY <2>4, <2>5, <2>6 DEF MutableType
<1> QED
  BY <1>1, <1>2, <1>3

(* The end of a transaction, committed or rolled back, leaves none open. *)
LEMMA EndTransactionClears ==
    ASSUME NEW r \in MutableType(Threads), NEW ok \in BOOLEAN
    PROVE  EndTransaction(r, Cuid, ok, MaxMem).pending = <<>>
<1>1. DoRollback(r).pending = <<>>
  BY DEF DoRollback, MutableType
<1>2. CASE ~ok \/ ~CommitFits(r, Cuid, MaxMem)
  BY <1>1, <1>2 DEF EndTransaction
<1>3. CASE ok /\ CommitFits(r, Cuid, MaxMem)
  BY <1>3 DEF EndTransaction, MutableType
<1> QED
  BY <1>2, <1>3

(* disable keeps the replica well formed. *)
LEMMA DisableType ==
    ASSUME NEW r \in MutableType(Threads)
    PROVE  Disable(r) \in MutableType(Threads)
<1>1. EmptyBuffer \in [txs : Seq(TxType(Threads)), mem_size : Nat,
                       first_cseq : Nat, last_cseq : Nat]
  BY DEF EmptyBuffer
<1>2. <<>> \in Seq(Threads) /\ "Disabled" \in States
  BY DEF States
<1> QED
  BY <1>1, <1>2 DEF Disable, Reset, MutableType

-----------------------------------------------------------------------------
(* Type correctness is inductive on its own. *)
LEMMA TypeOKStep ==
    ASSUME TypeOK, [Next]_vars
    PROVE  TypeOK'
<1>1. CASE \E t \in Threads, k \in {"op", "tx"} : Call(t, k)
  BY <1>1 DEF Call, Goto, TypeOK, Labels
<1>2. CASE \E t \in Threads : Begin(t) \/ TxBegin(t)
  BY <1>2 DEF Begin, TxBegin, Goto, TypeOK, Labels
<1>3. CASE \E t \in Threads : \/ WaitLockOp(t) \/ WaitUnlockOp(t)
                              \/ WaitLockTx(t) \/ WaitUnlockTx(t)
  BY <1>3 DEF WaitLockOp, WaitUnlockOp, WaitLockTx, WaitUnlockTx, Goto, TypeOK, Labels
<1>4. CASE \E t \in Threads : LockOp(t) \/ UnlockOp(t) \/ LockTx(t) \/ UnlockTx(t)
  BY <1>4 DEF LockOp, UnlockOp, LockTx, UnlockTx, Goto, TypeOK, Labels
<1>5. CASE \E t \in Threads : Execute(t)
  <2> PICK t \in Threads : Execute(t)
    BY <1>5
  <2>1. m' \in MutableType(Threads)
    BY ExecuteLocalType DEF Execute, TypeOK
  <2> QED
    BY <2>1 DEF Execute, Goto, TypeOK, Labels
<1>6. CASE \E t \in Threads : BodyOp(t) \/ (\E ok \in BOOLEAN : BodyReturn(t, ok))
  BY <1>6 DEF BodyOp, BodyReturn, Goto, TypeOK, Labels
<1>7. CASE \E t \in Threads : End(t)
  <2> PICK t \in Threads : End(t)
    BY <1>7
  <2>1. m' \in MutableType(Threads)
    BY EndTransactionType DEF End, TypeOK
  <2>2. guard' \in [Threads -> BOOLEAN]
    BY DEF End, TypeOK, CommitFits
  <2> QED
    BY <2>1, <2>2 DEF End, Goto, TypeOK, Labels
<1>8. CASE \E t \in Threads : TakeCtx(t)
  BY <1>8 DEF TakeCtx, Goto, TypeOK, Labels
<1>9. CASE EventLoopDisable
  BY <1>9, DisableType DEF EventLoopDisable, TypeOK
<1>10. CASE Quiescent \/ UNCHANGED vars
  BY <1>10 DEF Quiescent, vars, TypeOK
<1> QED
  BY <1>1, <1>2, <1>3, <1>4, <1>5, <1>6, <1>7, <1>8, <1>9, <1>10 DEF Next, Progress

(* The initial state satisfies both invariants. *)
LEMMA InvInit == Init => IsolationInv /\ CseqInv
<1> SUFFICES ASSUME Init PROVE IsolationInv /\ CseqInv
  OBVIOUS
<1>1. m \in MutableType(Threads)
  BY DEF Init, NewMutable, EmptyBuffer, MutableType, States
<1>2. TypeOK
  BY <1>1 DEF Init, TypeOK, Labels
<1>3. m.pending = <<>> /\ m.cseq = 0 /\ m.buf = EmptyBuffer
  BY DEF Init, NewMutable
<1>4. CtxOwner /\ KindOfLabel /\ EndedClean /\ Isolation
  BY <1>3, NoneIsNoThread DEF Init, CtxOwner, Holds, KindOfLabel, EndedClean, Isolation
<1>5. CseqInv
  BY <1>3 DEF CseqInv, CommittedCseq, EmptyBuffer
<1> QED
  BY <1>2, <1>4, <1>5 DEF IsolationInv

(* The owner of the tx_ctx slot is the one call between begin_transaction   *)
(* and the clearing of the slot.                                            *)
LEMMA CtxOwnerStep ==
    ASSUME IsolationInv, [Next]_vars
    PROVE  CtxOwner' /\ KindOfLabel'
<1> USE DEF IsolationInv
<1>1. CASE \E t \in Threads, k \in {"op", "tx"} : Call(t, k)
  BY <1>1 DEF Call, Goto, TypeOK, CtxOwner, Holds, KindOfLabel
<1>2. CASE \E t \in Threads : Begin(t)
  BY <1>2, NoneIsNoThread DEF Begin, Goto, TypeOK, CtxOwner, Holds, KindOfLabel
<1>3. CASE \E t \in Threads : TxBegin(t)
  BY <1>3, NoneIsNoThread DEF TxBegin, Goto, TypeOK, CtxOwner, Holds, KindOfLabel
<1>4. CASE \E t \in Threads : \/ WaitLockOp(t) \/ WaitUnlockOp(t)
                              \/ WaitLockTx(t) \/ WaitUnlockTx(t)
  BY <1>4 DEF WaitLockOp, WaitUnlockOp, WaitLockTx, WaitUnlockTx, Goto, TypeOK,
              CtxOwner, Holds, KindOfLabel
<1>5. CASE \E t \in Threads : \/ LockOp(t) \/ Execute(t) \/ UnlockOp(t)
                              \/ LockTx(t) \/ UnlockTx(t)
  BY <1>5 DEF LockOp, Execute, UnlockOp, LockTx, UnlockTx, Goto, TypeOK,
              CtxOwner, Holds, KindOfLabel
<1>6. CASE \E t \in Threads : BodyOp(t) \/ (\E ok \in BOOLEAN : BodyReturn(t, ok))
  BY <1>6 DEF BodyOp, BodyReturn, Goto, TypeOK, CtxOwner, Holds, KindOfLabel
<1>7. CASE \E t \in Threads : End(t) \/ TakeCtx(t)
  BY <1>7, NoneIsNoThread DEF End, TakeCtx, Goto, TypeOK, CtxOwner, Holds, KindOfLabel
<1>8. CASE EventLoopDisable \/ Quiescent \/ UNCHANGED vars
  BY <1>8 DEF EventLoopDisable, Quiescent, vars, TypeOK, CtxOwner, Holds, KindOfLabel
<1> QED
  BY <1>1, <1>2, <1>3, <1>4, <1>5, <1>6, <1>7, <1>8 DEF Next, Progress

(* A step that touches neither the open transaction nor tx_ctx, and moves   *)
(* nobody to "takeCtx", preserves isolation.                                *)
LEMMA IsolationFrame ==
    ASSUME IsolationInv, m' = m,
           txCtx' = txCtx \/ txCtx = None,
           \A t \in Threads : pc'[t] = "takeCtx" => pc[t] = "takeCtx"
    PROVE  EndedClean' /\ Isolation'
BY DEF IsolationInv, EndedClean, Isolation

(* Operations join the open transaction of their own call only, and no call *)
(* clears tx_ctx while its transaction is open.                             *)
LEMMA IsolationStep ==
    ASSUME IsolationInv, [Next]_vars
    PROVE  EndedClean' /\ Isolation'
<1>1. CASE \E t \in Threads, k \in {"op", "tx"} : Call(t, k)
  BY <1>1, IsolationFrame DEF Call, Goto, IsolationInv, TypeOK
<1>2. CASE \E t \in Threads : Begin(t) \/ TxBegin(t)
  BY <1>2, IsolationFrame DEF Begin, TxBegin, Goto, IsolationInv, TypeOK
<1>3. CASE \E t \in Threads : \/ WaitLockOp(t) \/ WaitUnlockOp(t)
                              \/ WaitLockTx(t) \/ WaitUnlockTx(t)
  BY <1>3, IsolationFrame
     DEF WaitLockOp, WaitUnlockOp, WaitLockTx, WaitUnlockTx, Goto, IsolationInv, TypeOK
<1>4. CASE \E t \in Threads : \/ LockOp(t) \/ UnlockOp(t) \/ LockTx(t) \/ UnlockTx(t)
                              \/ BodyOp(t) \/ (\E ok \in BOOLEAN : BodyReturn(t, ok))
  BY <1>4, IsolationFrame
     DEF LockOp, UnlockOp, LockTx, UnlockTx, BodyOp, BodyReturn, Goto, IsolationInv, TypeOK
<1>5. CASE \E t \in Threads : Execute(t)
  <2> PICK t \in Threads : Execute(t)
    BY <1>5
  <2>1. txCtx = t /\ txCtx' = t /\ t # None
    BY NoneIsNoThread DEF Execute, IsolationInv, CtxOwner, Holds
  <2>2. m.pending \in Seq(Threads) /\ \A i \in DOMAIN m.pending : m.pending[i] = t
    BY <2>1 DEF IsolationInv, Isolation, TypeOK, MutableType
  <2>3. m'.pending = IF m.pending = <<>> THEN <<t>> ELSE Append(m.pending, t)
    BY DEF Execute, ExecuteLocal, IsolationInv, TypeOK, MutableType
  <2>4. \A i \in DOMAIN m'.pending : m'.pending[i] = t
    <3>1. CASE m.pending = <<>>
      BY <2>3, <3>1
    <3>2. CASE m.pending # <<>>
      BY <2>2, <2>3, <3>2
    <3> QED
      BY <3>1, <3>2
  <2>5. \A u \in Threads : pc'[u] # "takeCtx"
    BY <2>1 DEF Execute, Goto, IsolationInv, TypeOK, CtxOwner, Holds
  <2> QED
    BY <2>1, <2>4, <2>5 DEF Isolation, EndedClean
<1>6. CASE \E t \in Threads : End(t)
  <2>1. m'.pending = <<>>
    BY <1>6, EndTransactionClears DEF End, IsolationInv, TypeOK
  <2> QED
    BY <2>1 DEF Isolation, EndedClean
<1>7. CASE \E t \in Threads : TakeCtx(t)
  <2>1. m'.pending = <<>>
    BY <1>7 DEF TakeCtx, IsolationInv, EndedClean
  <2> QED
    BY <2>1 DEF Isolation, EndedClean
<1>8. CASE EventLoopDisable
  <2>1. m'.pending = <<>>
    BY <1>8 DEF EventLoopDisable, Disable, Reset, IsolationInv, TypeOK, MutableType
  <2> QED
    BY <2>1 DEF Isolation, EndedClean
<1>9. CASE Quiescent \/ UNCHANGED vars
  BY <1>9, IsolationFrame DEF Quiescent, vars
<1> QED
  BY <1>1, <1>2, <1>3, <1>4, <1>5, <1>6, <1>7, <1>8, <1>9 DEF Next, Progress

(* The inductive invariant behind isolation. *)
THEOREM IsolationInvariant == Spec => []IsolationInv
<1>1. Init => IsolationInv
  BY InvInit
<1>2. IsolationInv /\ [Next]_vars => IsolationInv'
  BY TypeOKStep, CtxOwnerStep, IsolationStep DEF IsolationInv
<1> QED
  BY <1>1, <1>2, PTL DEF Spec

(* Type correctness in every reachable state, for any number of threads. *)
THEOREM TypeCorrect == Spec => []TypeOK
BY IsolationInvariant, PTL DEF IsolationInv

(* Isolation of transactions on a shared handle, for any number of threads, *)
(* any limit of the push buffer and any moment of a disabling error.        *)
THEOREM Isolated == Spec => []Isolation
BY IsolationInvariant, PTL DEF IsolationInv

-----------------------------------------------------------------------------
(* CseqInv depends on the replica only. *)
LEMMA CseqInvFrame ==
    ASSUME CseqInv, m' = m
    PROVE  CseqInv'
BY DEF CseqInv, CommittedCseq

(* The first operation of a transaction takes the next cseq. *)
LEMMA CseqInvExecute ==
    ASSUME IsolationInv, CseqInv, NEW t \in Threads, Execute(t)
    PROVE  CseqInv'
<1>1. /\ m.cseq \in Nat /\ m.buf.last_cseq \in Nat /\ m.pending \in Seq(Threads)
      /\ m' = ExecuteLocal(m, t)
  BY DEF Execute, IsolationInv, TypeOK, MutableType
<1>2. m'.buf = m.buf /\ m'.state = m.state
  BY <1>1 DEF ExecuteLocal, IsolationInv, TypeOK, MutableType
<1>3. CASE m.pending = <<>>
  <2>1. /\ m'.pending = <<t>> /\ m'.pending # <<>>
        /\ m'.cseq = m.cseq + 1
        /\ m'.rollback = [cseq |-> m.cseq, state |-> m.state]
    BY <1>1, <1>3 DEF ExecuteLocal, IsolationInv, TypeOK, MutableType
  <2> QED
    BY <1>1, <1>2, <1>3, <2>1 DEF CseqInv, CommittedCseq
<1>4. CASE m.pending # <<>>
  <2>1. /\ m'.pending = Append(m.pending, t)
        /\ m'.cseq = m.cseq /\ m'.rollback = m.rollback
    BY <1>1, <1>4 DEF ExecuteLocal, IsolationInv, TypeOK, MutableType
  <2>2. m'.pending # <<>>
    BY <1>1, <2>1
  <2> QED
    BY <1>1, <1>2, <1>4, <2>1, <2>2 DEF CseqInv, CommittedCseq
<1> QED
  BY <1>3, <1>4

(* A rollback gives its cseq back; a commit appends exactly that cseq. *)
LEMMA CseqInvEnd ==
    ASSUME IsolationInv, CseqInv, NEW t \in Threads, End(t)
    PROVE  CseqInv'
<1> DEFINE ok == guard[t] /\ CommitFits(m, Cuid, MaxMem)
           tx == PendingTx(m, Cuid)
<1>1. /\ m.cseq \in Nat /\ m.rollback.cseq \in Nat /\ m.buf.last_cseq \in Nat
      /\ m.buf.txs \in Seq(TxType(Threads))
      /\ m' = EndTransaction(m, Cuid, guard[t], MaxMem)
  BY DEF End, IsolationInv, TypeOK, MutableType
<1>2. CASE m.pending = <<>>
  <2>1. m' = m
    BY <1>1, <1>2 DEF EndTransaction, DoRollback
  <2> QED
    BY <2>1, CseqInvFrame
<1>3. CASE m.pending # <<>> /\ ~ok
  <2>1. m' = DoRollback(m)
    BY <1>1, <1>3 DEF EndTransaction
  <2>2. /\ m'.pending = <<>> /\ m'.cseq = m.rollback.cseq
        /\ m'.state = m.rollback.state /\ m'.buf = m.buf
    BY <1>3, <2>1 DEF DoRollback, IsolationInv, TypeOK, MutableType
  <2> QED
    BY <1>1, <1>3, <2>2 DEF CseqInv, CommittedCseq
<1>4. CASE m.pending # <<>> /\ ok
  <2>1. m' = [m EXCEPT !.buf = Enqueue(m.buf, tx), !.pending = <<>>]
    BY <1>1, <1>4 DEF EndTransaction
  <2>2. /\ m'.pending = <<>> /\ m'.cseq = m.cseq
        /\ m'.state = m.state /\ m'.buf = Enqueue(m.buf, tx)
    BY <2>1 DEF IsolationInv, TypeOK, MutableType
  <2>3. tx.cseq = m.rollback.cseq + 1
    BY DEF PendingTx
  <2>4. m'.buf.last_cseq = tx.cseq /\ m'.buf.txs = Append(m.buf.txs, tx)
    BY <2>2 DEF Enqueue
  <2>5. tx \in TxType(Threads)
    BY DEF PendingTx, TxType, IsolationInv, TypeOK, MutableType
  <2> HIDE DEF tx
  <2>6. Len(m'.buf.txs) = Len(m.buf.txs) + 1 /\ Len(m.buf.txs) \in Nat
    BY <1>1, <2>4, <2>5
  <2>7. m.cseq = m.rollback.cseq + 1
    BY <1>4 DEF CseqInv
  <2>8. m.state # "Disabled" => m.rollback.cseq = Len(m.buf.txs)
    BY <1>4 DEF CseqInv, CommittedCseq
  <2>9. CommittedCseq' = m.cseq
    BY <2>2 DEF CommittedCseq
  <2> QED
    BY <1>1, <2>2, <2>3, <2>4, <2>6, <2>7, <2>8, <2>9 DEF CseqInv
<1> QED
  BY <1>2, <1>3, <1>4

(* disable empties the buffer and forgets the open transaction. *)
LEMMA CseqInvDisable ==
    ASSUME IsolationInv, EventLoopDisable
    PROVE  CseqInv'
<1>1. /\ m'.pending = <<>> /\ m'.state = "Disabled" /\ m'.buf = EmptyBuffer
  BY DEF EventLoopDisable, Disable, Reset, IsolationInv, TypeOK, MutableType
<1> QED
  BY <1>1 DEF CseqInv, CommittedCseq, EmptyBuffer

(* The inductive invariant behind the client sequence numbers. *)
THEOREM CseqInvariant == Spec => []CseqInv
<1>1. Init => CseqInv
  BY InvInit
<1>2. IsolationInv /\ CseqInv /\ [Next]_vars => CseqInv'
  <2> SUFFICES ASSUME IsolationInv, CseqInv, [Next]_vars PROVE CseqInv'
    OBVIOUS
  <2>1. CASE \E t \in Threads : Execute(t)
    BY <2>1, CseqInvExecute
  <2>2. CASE \E t \in Threads : End(t)
    BY <2>2, CseqInvEnd
  <2>3. CASE EventLoopDisable
    BY <2>3, CseqInvDisable
  <2>4. CASE \/ \E t \in Threads, k \in {"op", "tx"} : Call(t, k)
             \/ \E t \in Threads :
                    \/ Begin(t) \/ TxBegin(t) \/ WaitLockOp(t) \/ WaitUnlockOp(t)
                    \/ WaitLockTx(t) \/ WaitUnlockTx(t) \/ LockOp(t) \/ UnlockOp(t)
                    \/ LockTx(t) \/ BodyOp(t) \/ (\E ok \in BOOLEAN : BodyReturn(t, ok))
                    \/ TakeCtx(t) \/ UnlockTx(t)
             \/ Quiescent \/ UNCHANGED vars
    <3>1. m' = m
      BY <2>4 DEF Call, Begin, TxBegin, WaitLockOp, WaitUnlockOp, WaitLockTx,
                  WaitUnlockTx, LockOp, UnlockOp, LockTx, BodyOp, BodyReturn,
                  TakeCtx, UnlockTx, Quiescent, vars
    <3> QED
      BY <3>1, CseqInvFrame
  <2> QED
    BY <2>1, <2>2, <2>3, <2>4 DEF Next, Progress
<1> QED
  BY <1>1, <1>2, IsolationInvariant, PTL DEF Spec

(* Client sequence numbers have no gap across rollbacks and failed commits, *)
(* and the push buffer's NonSequentialCseq error is unreachable, for any    *)
(* number of threads and any push-buffer limit.                             *)
THEOREM CseqGapless == Spec => []CseqWithoutGap
<1>1. IsolationInv /\ CseqInv => CseqWithoutGap
  <2> SUFFICES ASSUME IsolationInv, CseqInv PROVE CseqWithoutGap
    OBVIOUS
  <2>1. /\ m.cseq \in Nat /\ m.rollback.cseq \in Nat /\ m.buf.last_cseq \in Nat
        /\ Len(m.buf.txs) \in Nat
    BY DEF IsolationInv, TypeOK, MutableType
  <2>2. m.state # "Disabled" =>
            m.cseq = Len(m.buf.txs) + (IF m.pending = <<>> THEN 0 ELSE 1)
    <3>1. CASE m.pending = <<>>
      BY <2>1, <3>1 DEF CseqInv, CommittedCseq
    <3>2. CASE m.pending # <<>>
      BY <2>1, <3>2 DEF CseqInv, CommittedCseq
    <3> QED
      BY <3>1, <3>2
  <2>3. m.pending # <<>> => ~NonSequentialCseq(m.buf, PendingTx(m, Cuid))
    BY <2>1 DEF CseqInv, CommittedCseq, NonSequentialCseq, PendingTx
  <2> QED
    BY <2>2, <2>3 DEF CseqWithoutGap
<1> QED
  BY <1>1, IsolationInvariant, CseqInvariant, PTL

-----------------------------------------------------------------------------
(* Operations that are all of one call count for that call alone. *)
LEMMA OpCountOfOneCall ==
    ASSUME NEW O, NEW ops \in Seq(O), NEW u, \A i \in 1..Len(ops) : ops[i] = u
    PROVE  OpCount(ops, u) = Len(ops) /\ \A o : o # u => OpCount(ops, o) = 0
<1> DEFINE n == Len(ops)
<1>0. n \in Nat
  OBVIOUS
<1>1. {i \in DOMAIN ops : ops[i] = u} = 1..n
  OBVIOUS
<1>2. Cardinality(1..n) = n
  BY <1>0, FS_Interval
<1>3. \A o : o # u => {i \in DOMAIN ops : ops[i] = o} = {}
  OBVIOUS
<1>4. Cardinality({}) = 0
  BY FS_EmptySet
<1> QED
  BY <1>1, <1>2, <1>3, <1>4 DEF OpCount

(* The open transaction is the context owner's operations, and no more. *)
LEMMA PendingOfOwner ==
    ASSUME IsolationInv, NEW t \in Threads, txCtx = t
    PROVE  /\ m.pending \in Seq(Threads) /\ Len(m.pending) \in Nat
           /\ m.pending = [j \in 1..Len(m.pending) |-> t]
           /\ OpCount(m.pending, t) = Len(m.pending)
           /\ \A u : u # t => OpCount(m.pending, u) = 0
<1>1. m.pending \in Seq(Threads) /\ Len(m.pending) \in Nat /\ DOMAIN m.pending = 1..Len(m.pending)
  BY DEF IsolationInv, TypeOK, MutableType
<1>2. \A i \in 1..Len(m.pending) : m.pending[i] = t
  BY <1>1 DEF IsolationInv, Isolation
<1>3. m.pending = [j \in 1..Len(m.pending) |-> t]
  BY <1>1, <1>2
<1> QED
  BY <1>1, <1>2, <1>3, OpCountOfOneCall

(* No call has begun: nothing is counted, nothing buffered. *)
LEMMA AtomicInit == Init => Tally /\ Attributed
<1> SUFFICES ASSUME Init PROVE Tally /\ Attributed
  OBVIOUS
<1>1. \A t \in Threads : ~Holds(t) /\ ~Ended(t) /\ done[t] = 0 /\ m.crdt[t] = 0
  BY DEF Init, NewMutable, Holds, Ended
<1>2. m.buf.txs = <<>>
  BY DEF Init, NewMutable, EmptyBuffer
<1>3. Tally
  BY <1>1 DEF Tally
<1>4. Attributed
  BY <1>1, <1>2 DEF Attributed, Committed
<1> QED
  BY <1>3, <1>4

(* Steps that leave the replica alone: a call that comes to hold the        *)
(* context finds no transaction open, one that lets it go has ended.        *)
LEMMA AtomicFrame ==
    ASSUME IsolationInv, Tally, Attributed, m' = m, done' = done,
           \A t \in Threads :
              /\ Ended(t)' <=> Ended(t)
              /\ Ended(t) => guard'[t] = guard[t]
              /\ Holds(t)' => Holds(t) \/ m.pending = <<>>
              /\ Holds(t) => Holds(t)' \/ Ended(t)
    PROVE  Tally' /\ Attributed'
<1>1. Len(<<>>) = 0
  OBVIOUS
<1>2. Tally'
  BY <1>1 DEF Tally
<1>3. \A t \in Threads : Committed(t)' <=> Committed(t)
  BY DEF Committed
<1>4. Attributed'
  BY <1>3 DEF Attributed
<1> QED
  BY <1>2, <1>4

(* An operation is in effect, in the open transaction and counted. *)
LEMMA AtomicExecute ==
    ASSUME IsolationInv, Tally, Attributed, NEW t \in Threads, Execute(t)
    PROVE  Tally' /\ Attributed'
<1>0. /\ m.crdt \in [Threads -> Int] /\ m.pending \in Seq(Threads)
      /\ done \in [Threads -> Nat] /\ pc \in [Threads -> Labels]
      /\ guard \in [Threads -> BOOLEAN]
      /\ m \in MutableType(Threads)
  BY DEF IsolationInv, TypeOK, MutableType
<1>1. /\ m' = ExecuteLocal(m, t) /\ done' = [done EXCEPT ![t] = @ + 1]
      /\ pc' = [pc EXCEPT ![t] = "unlockOp"] /\ kind' = kind /\ pc[t] = "execute"
      /\ \A u \in Threads : u # t => guard'[u] = guard[u]
  BY <1>0 DEF Execute, Goto
<1>2. txCtx = t /\ Holds(t) /\ \A u \in Threads : u # t => ~Holds(u)
  BY <1>1 DEF IsolationInv, CtxOwner, Holds
<1>3. /\ \A u \in Threads : u # t => (Holds(u)' <=> Holds(u)) /\ (Ended(u)' <=> Ended(u))
      /\ Holds(t)' /\ ~Ended(t)' /\ ~Ended(t)
  BY <1>0, <1>1 DEF Holds, Ended
<1>4. OpCount(<<t>>, t) = 1 /\ \A u : u # t => OpCount(<<t>>, u) = 0
  <2>1. <<t>> \in Seq(Threads) /\ Len(<<t>>) = 1 /\ \A i \in 1..Len(<<t>>) : <<t>>[i] = t
    OBVIOUS
  <2> QED
    BY <2>1, OpCountOfOneCall
<1>5. /\ m'.crdt = ExecuteOps(m.crdt, <<t>>) /\ m'.state = m.state /\ m'.buf = m.buf
      /\ m'.pending = IF m.pending = <<>> THEN <<t>> ELSE Append(m.pending, t)
  BY <1>0, <1>1 DEF ExecuteLocal, MutableType
<1>6. m'.crdt[t] = m.crdt[t] + 1 /\ \A u \in Threads : u # t => m'.crdt[u] = m.crdt[u]
  BY <1>0, <1>4, <1>5 DEF ExecuteOps
<1>7. Len(m'.pending) = Len(m.pending) + 1 /\ Len(m.pending) \in Nat
  <2>1. CASE m.pending = <<>>
    BY <1>5, <2>1
  <2>2. CASE m.pending # <<>>
    BY <1>0, <1>5, <2>2
  <2> QED
    BY <2>1, <2>2
<1>8. done'[t] = done[t] + 1 /\ \A u \in Threads : u # t => done'[u] = done[u]
  BY <1>0, <1>1
<1>9. Tally'
  <2> SUFFICES ASSUME m.state # "Disabled", NEW u \in Threads
               PROVE  /\ ~Holds(u)' /\ ~Ended(u)' => done'[u] = 0 /\ m'.crdt[u] = 0
                      /\ Holds(u)' /\ ~Ended(u)' =>
                            m'.crdt[u] = done'[u] /\ Len(m'.pending) = done'[u]
                      /\ Ended(u)' => m'.crdt[u] = IF guard'[u] THEN done'[u] ELSE 0
    BY <1>5 DEF Tally
  <2>1. CASE u = t
    <3>1. m.crdt[t] = done[t] /\ Len(m.pending) = done[t]
      BY <1>2, <1>3 DEF Tally
    <3> QED
      BY <1>3, <1>6, <1>7, <1>8, <2>1, <3>1
  <2>2. CASE u # t
    BY <1>1, <1>2, <1>3, <1>6, <1>8, <2>2 DEF Tally
  <2> QED
    BY <2>1, <2>2
<1>10. \A u \in Threads : /\ Committed(u)' <=> Committed(u)
                          /\ Committed(u) => done'[u] = done[u]
  BY <1>1, <1>3, <1>8 DEF Committed
<1>11. Attributed'
  <2> SUFFICES ASSUME m.state # "Disabled" PROVE Attributed'
    BY <1>5 DEF Attributed
  <2>1. \A i \in DOMAIN m'.buf.txs : \E u \in Threads :
            Committed(u)' /\ m'.buf.txs[i].ops = [j \in 1..done'[u] |-> u]
    <3> SUFFICES ASSUME NEW i \in DOMAIN m.buf.txs
                 PROVE  \E u \in Threads :
                           Committed(u)' /\ m.buf.txs[i].ops = [j \in 1..done'[u] |-> u]
      BY <1>5
    <3>1. PICK u \in Threads : Committed(u) /\ m.buf.txs[i].ops = [j \in 1..done[u] |-> u]
      BY DEF Attributed
    <3> QED
      BY <1>10, <3>1
  <2>2. \A u \in Threads : Committed(u)' =>
            \E i \in DOMAIN m'.buf.txs : m'.buf.txs[i].ops[1] = u
    BY <1>5, <1>10 DEF Attributed
  <2> QED
    BY <1>5, <2>1, <2>2 DEF Attributed
<1> QED
  BY <1>9, <1>11

(* The callback commits everything or takes everything back. *)
LEMMA AtomicEnd ==
    ASSUME IsolationInv, CseqInv, Tally, Attributed, NEW t \in Threads, End(t)
    PROVE  Tally' /\ Attributed'
<1>0. /\ m.crdt \in [Threads -> Int] /\ m.pending \in Seq(Threads)
      /\ done \in [Threads -> Nat] /\ pc \in [Threads -> Labels]
      /\ guard \in [Threads -> BOOLEAN]
      /\ m \in MutableType(Threads) /\ m.buf.txs \in Seq(TxType(Threads))
  BY DEF IsolationInv, TypeOK, MutableType
<1> DEFINE fits == CommitFits(m, Cuid, MaxMem)
<1>1. /\ m' = EndTransaction(m, Cuid, guard[t], MaxMem) /\ done' = done
      /\ pc' = [pc EXCEPT ![t] = "takeCtx"] /\ kind' = kind /\ pc[t] = "end"
      /\ \A u \in Threads : u # t => guard'[u] = guard[u]
      /\ guard'[t] = (guard[t] /\ fits)
  BY <1>0 DEF End, Goto
<1>2. txCtx = t /\ Holds(t) /\ \A u \in Threads : u # t => ~Holds(u)
  BY <1>1 DEF IsolationInv, CtxOwner, Holds
<1>3. /\ \A u \in Threads : u # t => (Holds(u)' <=> Holds(u)) /\ (Ended(u)' <=> Ended(u))
      /\ Ended(t)' /\ ~Ended(t)
  BY <1>0, <1>1 DEF Holds, Ended
<1>4. /\ m.pending = [j \in 1..Len(m.pending) |-> t]
      /\ OpCount(m.pending, t) = Len(m.pending)
      /\ \A u : u # t => OpCount(m.pending, u) = 0
  BY <1>2, PendingOfOwner
<1>5. m.state # "Disabled" => m.crdt[t] = done[t] /\ Len(m.pending) = done[t]
  BY <1>2, <1>3 DEF Tally
(* What the callers other than t have is as before. *)
<1>6. ASSUME m'.state = m.state, \A u \in Threads : u # t => m'.crdt[u] = m.crdt[u],
             m.state # "Disabled" => m'.crdt[t] = IF guard'[t] THEN done[t] ELSE 0
      PROVE  Tally'
  <2> SUFFICES ASSUME m.state # "Disabled", NEW u \in Threads
               PROVE  /\ ~Holds(u)' /\ ~Ended(u)' => done'[u] = 0 /\ m'.crdt[u] = 0
                      /\ Holds(u)' /\ ~Ended(u)' =>
                            m'.crdt[u] = done'[u] /\ Len(m'.pending) = done'[u]
                      /\ Ended(u)' => m'.crdt[u] = IF guard'[u] THEN done'[u] ELSE 0
    BY <1>6 DEF Tally
  <2>1. CASE u = t
    BY <1>1, <1>3, <1>6, <2>1
  <2>2. CASE u # t
    BY <1>1, <1>2, <1>3, <1>6, <2>2 DEF Tally
  <2> QED
    BY <2>1, <2>2
<1>7. \A u \in Threads : u # t => (Committed(u)' <=> Committed(u))
  BY <1>1, <1>3 DEF Committed
<1>8. ~Committed(t)
  BY <1>3 DEF Committed
<1>9. CASE m.pending = <<>>
  <2>1. m' = m
    BY <1>1, <1>9 DEF EndTransaction, DoRollback
  <2>2. Len(m.pending) = 0
    BY <1>9
  <2>3. m.state # "Disabled" => done[t] = 0 /\ m.crdt[t] = 0
    BY <1>5, <2>2
  <2>4. Tally'
    BY <1>6, <2>1, <2>3
  <2>5. m.state # "Disabled" => \A u \in Threads : Committed(u)' <=> Committed(u)
    BY <1>1, <1>7, <1>8, <2>3 DEF Committed
  <2>6. Attributed'
    BY <1>1, <2>1, <2>5 DEF Attributed
  <2> QED
    BY <2>4, <2>6
<1>10. CASE m.pending # <<>> /\ ~(guard[t] /\ fits)
  <2>1. m' = DoRollback(m)
    BY <1>1, <1>10 DEF EndTransaction
  <2>2. /\ m'.crdt = InverseOps(m.crdt, m.pending) /\ m'.buf = m.buf
        /\ m'.state = m.rollback.state
    BY <1>0, <1>10, <2>1 DEF DoRollback, MutableType
  <2>3. m'.state = m.state
    BY <1>10, <2>2 DEF CseqInv
  <2>4. \A u \in Threads : m'.crdt[u] = m.crdt[u] - OpCount(m.pending, u)
    BY <1>0, <2>2 DEF InverseOps
  <2>5. \A u \in Threads : u # t => m'.crdt[u] = m.crdt[u]
    BY <1>0, <1>4, <2>4
  <2>6. m.state # "Disabled" => m'.crdt[t] = 0
    BY <1>0, <1>4, <1>5, <2>4
  <2>7. ~guard'[t]
    BY <1>1, <1>10
  <2>8. Tally'
    BY <1>6, <2>3, <2>5, <2>6, <2>7
  <2>9. \A u \in Threads : Committed(u)' <=> Committed(u)
    BY <1>7, <1>8, <2>7 DEF Committed
  <2>10. Attributed'
    BY <1>1, <2>2, <2>3, <2>9 DEF Attributed
  <2> QED
    BY <2>8, <2>10
<1>11. CASE m.pending # <<>> /\ guard[t] /\ fits
  <2> DEFINE tx == PendingTx(m, Cuid)
             q == m.buf.txs
  <2>1. m' = [m EXCEPT !.buf = Enqueue(m.buf, tx), !.pending = <<>>]
    BY <1>1, <1>11 DEF EndTransaction
  <2>2. /\ m'.crdt = m.crdt /\ m'.state = m.state
        /\ m'.buf.txs = Append(q, tx)
    BY <1>0, <2>1 DEF Enqueue, MutableType
  <2>3. guard'[t] = TRUE
    BY <1>1, <1>11
  <2>4. Tally'
    BY <1>5, <1>6, <2>2, <2>3
  <2>5. Attributed'
    <3> SUFFICES ASSUME m.state # "Disabled" PROVE Attributed'
      BY <2>2 DEF Attributed
    <3>1. tx.ops = [j \in 1..done[t] |-> t] /\ tx \in TxType(Threads)
      BY <1>0, <1>4, <1>5 DEF PendingTx, TxType, MutableType
    <3>2. done[t] \in Nat /\ done[t] > 0
      <4>1. Len(m.pending) \in Nat /\ Len(m.pending) # 0
        BY <1>0, <1>11
      <4> QED
        BY <1>5, <4>1
    <3>3. tx.ops[1] = t /\ Committed(t)'
      BY <1>1, <1>3, <2>3, <3>1, <3>2 DEF Committed
    <3> HIDE DEF tx
    <3>4. /\ DOMAIN m'.buf.txs = 1..(Len(q) + 1) /\ Len(q) \in Nat /\ DOMAIN q = 1..Len(q)
          /\ m'.buf.txs[Len(q) + 1] = tx
          /\ \A i \in 1..Len(q) : m'.buf.txs[i] = q[i]
      BY <1>0, <2>2, <3>1
    <3>5. \A i \in 1..Len(q) : \E u \in Threads :
              u # t /\ Committed(u) /\ q[i].ops = [j \in 1..done[u] |-> u] /\ q[i].ops[1] = u
      <4> SUFFICES ASSUME NEW i \in 1..Len(q)
                   PROVE  \E u \in Threads :
              u # t /\ Committed(u) /\ q[i].ops = [j \in 1..done[u] |-> u] /\ q[i].ops[1] = u
        OBVIOUS
      <4>1. PICK u \in Threads : Committed(u) /\ q[i].ops = [j \in 1..done[u] |-> u]
        BY <3>4 DEF Attributed
      <4>2. u # t /\ done[u] > 0 /\ done[u] \in Nat
        BY <1>0, <1>8, <4>1 DEF Committed
      <4>3. q[i].ops[1] = u
        BY <4>1, <4>2
      <4> QED
        BY <4>1, <4>2, <4>3
    <3>6. \A i \in DOMAIN m'.buf.txs : \E u \in Threads :
              Committed(u)' /\ m'.buf.txs[i].ops = [j \in 1..done'[u] |-> u]
      <4> SUFFICES ASSUME NEW i \in DOMAIN m'.buf.txs
                   PROVE  \E u \in Threads :
                             Committed(u)' /\ m'.buf.txs[i].ops = [j \in 1..done'[u] |-> u]
        OBVIOUS
      <4>1. CASE i = Len(q) + 1
        BY <1>1, <3>1, <3>3, <3>4, <4>1
      <4>2. CASE i # Len(q) + 1
        <5>1. i \in 1..Len(q)
          BY <3>4, <4>2
        <5>2. PICK u \in Threads : u # t /\ Committed(u) /\ q[i].ops = [j \in 1..done[u] |-> u]
          BY <3>5, <5>1
        <5>3. Committed(u)' /\ done' = done /\ m'.buf.txs[i] = q[i]
          BY <1>1, <1>7, <3>4, <5>1, <5>2
        <5> QED
          BY <5>2, <5>3
      <4> QED
        BY <4>1, <4>2
    <3>7. \A i, k \in DOMAIN m'.buf.txs :
              m'.buf.txs[i].ops[1] = m'.buf.txs[k].ops[1] => i = k
      <4>1. \A i \in 1..Len(q) : m'.buf.txs[i].ops[1] # t
        BY <3>4, <3>5
      <4>2. \A i, k \in 1..Len(q) : m'.buf.txs[i].ops[1] = m'.buf.txs[k].ops[1] => i = k
        <5>1. \A i, k \in 1..Len(q) : q[i].ops[1] = q[k].ops[1] => i = k
          BY <3>4 DEF Attributed
        <5> QED
          BY <3>4, <5>1
      <4>3. m'.buf.txs[Len(q) + 1].ops[1] = t
        BY <3>3, <3>4
      <4> SUFFICES ASSUME NEW i \in 1..(Len(q) + 1), NEW k \in 1..(Len(q) + 1),
                          m'.buf.txs[i].ops[1] = m'.buf.txs[k].ops[1]
                   PROVE  i = k
        BY <3>4
      <4>4. CASE i \in 1..Len(q) /\ k \in 1..Len(q)
        BY <4>2, <4>4
      <4>5. CASE i = Len(q) + 1 /\ k = Len(q) + 1
        BY <4>5
      <4>6. ~(i \in 1..Len(q) /\ k = Len(q) + 1) /\ ~(k \in 1..Len(q) /\ i = Len(q) + 1)
        BY <4>1, <4>3
      <4>7. /\ i \in 1..Len(q) \/ i = Len(q) + 1
            /\ k \in 1..Len(q) \/ k = Len(q) + 1
        BY <3>4
      <4> QED
        BY <4>4, <4>5, <4>6, <4>7
    <3>8. \A u \in Threads : Committed(u)' =>
              \E i \in DOMAIN m'.buf.txs : m'.buf.txs[i].ops[1] = u
      <4> SUFFICES ASSUME NEW u \in Threads, Committed(u)'
                   PROVE  \E i \in DOMAIN m'.buf.txs : m'.buf.txs[i].ops[1] = u
        OBVIOUS
      <4>1. CASE u = t
        BY <3>3, <3>4, <4>1
      <4>2. CASE u # t
        <5>1. PICK i \in DOMAIN q : q[i].ops[1] = u
          BY <1>7, <4>2 DEF Attributed
        <5> QED
          BY <3>4, <5>1
      <4> QED
        BY <4>1, <4>2
    <3> QED
      BY <3>6, <3>7, <3>8 DEF Attributed
  <2> QED
    BY <2>4, <2>5
<1> QED
  BY <1>9, <1>10, <1>11

(* Every step keeps the tally and the attribution of transactions. *)
LEMMA AtomicStep ==
    ASSUME IsolationInv, CseqInv, Tally, Attributed, [Next]_vars
    PROVE  Tally' /\ Attributed'
<1>0. /\ pc \in [Threads -> Labels] /\ kind \in [Threads -> {"op", "tx"}]
      /\ guard \in [Threads -> BOOLEAN]
      /\ CtxOwner /\ KindOfLabel
      /\ txCtx = None => m.pending = <<>>
  BY DEF IsolationInv, TypeOK, Isolation
<1>1. CASE \E t \in Threads, k \in {"op", "tx"} : Call(t, k)
  BY <1>0, <1>1, AtomicFrame DEF Call, Goto, Ended, Holds
<1>2. CASE \E t \in Threads : Begin(t)
  <2> PICK t \in Threads : Begin(t)
    BY <1>2
  <2>1. m' = m /\ done' = done /\ kind' = kind /\ \A u \in Threads : u # t => guard'[u] = guard[u]
    BY <1>0 DEF Begin
  <2>2. Holds(t)' => Holds(t) \/ m.pending = <<>>
    <3>1. CASE txCtx = None
      BY <1>0, <3>1
    <3>2. CASE txCtx = t
      BY <1>0, <3>2 DEF CtxOwner
    <3>3. CASE txCtx \notin {None, t}
      BY <1>0, <3>3 DEF Begin, Goto, Holds
    <3> QED
      BY <3>1, <3>2, <3>3
  <2>3. Holds(t) => Holds(t)'
    BY <1>0, NoneIsNoThread DEF Begin, Goto, CtxOwner, Holds
  <2>4. /\ ~Ended(t) /\ ~Ended(t)'
        /\ \A u \in Threads : u # t => pc'[u] = pc[u]
    BY <1>0 DEF Begin, Goto, Ended
  <2>5. \A u \in Threads : u # t => (Holds(u)' <=> Holds(u)) /\ (Ended(u)' <=> Ended(u))
    BY <2>1, <2>4 DEF Ended, Holds
  <2> QED
    BY <2>1, <2>2, <2>3, <2>4, <2>5, AtomicFrame
<1>3. CASE \E t \in Threads : TxBegin(t)
  BY <1>0, <1>3, AtomicFrame DEF TxBegin, Goto, Ended, Holds
<1>4. CASE \E t \in Threads : \/ WaitLockOp(t) \/ WaitUnlockOp(t)
                              \/ WaitLockTx(t) \/ WaitUnlockTx(t)
  BY <1>0, <1>4, AtomicFrame DEF WaitLockOp, WaitUnlockOp, WaitLockTx, WaitUnlockTx, Goto,
                                 Ended, Holds, KindOfLabel
<1>5. CASE \E t \in Threads : LockOp(t) \/ UnlockOp(t) \/ LockTx(t) \/ UnlockTx(t)
  BY <1>0, <1>5, AtomicFrame DEF LockOp, UnlockOp, LockTx, UnlockTx, Goto, Ended, Holds,
                                 KindOfLabel
<1>6. CASE \E t \in Threads : BodyOp(t) \/ (\E ok \in BOOLEAN : BodyReturn(t, ok))
  BY <1>0, <1>6, AtomicFrame DEF BodyOp, BodyReturn, Goto, Ended, Holds, KindOfLabel
<1>7. CASE \E t \in Threads : TakeCtx(t)
  BY <1>0, <1>7, AtomicFrame DEF TakeCtx, Goto, Ended, Holds
<1>8. CASE \E t \in Threads : Execute(t)
  BY <1>8, AtomicExecute
<1>9. CASE \E t \in Threads : End(t)
  BY <1>9, AtomicEnd
<1>10. CASE EventLoopDisable
  <2>1. m'.state = "Disabled"
    BY <1>10 DEF EventLoopDisable, Disable, Reset, IsolationInv, TypeOK, MutableType
  <2> QED
    BY <2>1 DEF Tally, Attributed
<1>11. CASE Quiescent \/ UNCHANGED vars
  BY <1>11, AtomicFrame DEF Quiescent, vars, Ended, Holds
<1> QED
  BY <1>1, <1>2, <1>3, <1>4, <1>5, <1>6, <1>7, <1>8, <1>9, <1>10, <1>11 DEF Next, Progress

(* The inductive invariant behind atomicity. *)
THEOREM AtomicInvariant == Spec => [](Tally /\ Attributed)
<1>1. IsolationInv /\ CseqInv /\ Tally /\ Attributed /\ [Next]_vars => Tally' /\ Attributed'
  BY AtomicStep
<1> QED
  BY <1>1, AtomicInit, IsolationInvariant, CseqInvariant, PTL DEF Spec

(* A call that ended has all its operations in effect or none, for any      *)
(* number of threads, any length of transaction and any buffer limit.       *)
THEOREM AtomicCalls == Spec => []AllOrNothing
<1>1. Tally => AllOrNothing
  BY DEF Tally, AllOrNothing, Ended, Holds
<1> QED
  BY <1>1, AtomicInvariant, PTL

(* A committed call is one buffered transaction with exactly its            *)
(* operations, however the lock sections of calls interleave.               *)
THEOREM OneTransactionAlways == Spec => []OneTransactionPerCall
<1>1. IsolationInv /\ Attributed => OneTransactionPerCall
  <2> SUFFICES ASSUME IsolationInv, Attributed, m.state # "Disabled", NEW t \in Threads
               PROVE  LET txsOf == {i \in DOMAIN m.buf.txs : OpCount(m.buf.txs[i].ops, t) > 0}
                      IN  /\ Cardinality(txsOf) <= 1
                          /\ \A i \in txsOf : m.buf.txs[i].ops = [j \in 1..done[t] |-> t]
                          /\ pc[t] = "returned" /\ guard[t] /\ done[t] > 0 => txsOf # {}
    BY DEF OneTransactionPerCall
  <2> DEFINE txsOf == {i \in DOMAIN m.buf.txs : OpCount(m.buf.txs[i].ops, t) > 0}
  <2>0. done \in [Threads -> Nat] /\ m.buf.txs \in Seq(TxType(Threads))
    BY DEF IsolationInv, TypeOK, MutableType
  <2>1. ASSUME NEW i \in DOMAIN m.buf.txs
        PROVE  /\ OpCount(m.buf.txs[i].ops, t) > 0 =>
                     m.buf.txs[i].ops = [j \in 1..done[t] |-> t] /\ m.buf.txs[i].ops[1] = t
               /\ m.buf.txs[i].ops[1] = t => OpCount(m.buf.txs[i].ops, t) > 0
    <3>1. PICK u \in Threads : Committed(u) /\ m.buf.txs[i].ops = [j \in 1..done[u] |-> u]
      BY DEF Attributed
    <3>2. done[u] \in Nat /\ done[u] > 0
      BY <2>0, <3>1 DEF Committed
    <3> DEFINE ops == [j \in 1..done[u] |-> u]
    <3>3. ops \in Seq(Threads) /\ Len(ops) = done[u] /\ ops[1] = u
          /\ \A j \in 1..Len(ops) : ops[j] = u
      BY <3>2
    <3> HIDE DEF ops
    <3>4. OpCount(ops, u) = done[u] /\ \A o : o # u => OpCount(ops, o) = 0
      BY <3>3, OpCountOfOneCall
    <3>5. OpCount(ops, t) > 0 <=> u = t
      BY <3>2, <3>4
    <3> QED
      BY <3>1, <3>3, <3>5 DEF ops
  <2>2. \A i, k \in txsOf : i = k
    BY <2>1 DEF Attributed
  <2>3. Cardinality(txsOf) <= 1
    <3>1. txsOf = {} \/ \E x : txsOf = {x}
      BY <2>2
    <3> HIDE DEF txsOf
    <3>2. Cardinality({}) = 0 /\ \A x : Cardinality({x}) = 1
      BY FS_EmptySet, FS_Singleton
    <3>3. CASE txsOf = {}
      BY <3>2, <3>3
    <3>4. CASE \E x : txsOf = {x}
      BY <3>2, <3>4
    <3> QED
      BY <3>1, <3>3, <3>4
  <2>4. pc[t] = "returned" /\ guard[t] /\ done[t] > 0 => txsOf # {}
    <3> SUFFICES ASSUME pc[t] = "returned", guard[t], done[t] > 0 PROVE txsOf # {}
      OBVIOUS
    <3>1. Committed(t)
      BY DEF Committed, Ended
    <3>2. PICK i \in DOMAIN m.buf.txs : m.buf.txs[i].ops[1] = t
      BY <3>1 DEF Attributed
    <3>3. i \in txsOf
      BY <2>1, <3>2
    <3> QED
      BY <3>3
  <2>5. \A i \in txsOf : m.buf.txs[i].ops = [j \in 1..done[t] |-> t]
    BY <2>1
  <2> QED
    BY <2>3, <2>4, <2>5
<1> QED
  BY <1>1, AtomicInvariant, IsolationInvariant, PTL
=============================================================================
