----------------------------- MODULE Transactional -----------------------------
(***************************************************************************)
(* TransactionalDatatype (src/datatypes/transactional.rs): threads that    *)
(* share one handle run single operations (execute_local_operation_as_tx)  *)
(* and transactions (do_transaction) on one MutableDatatype.  Every lock   *)
(* section is one action: the tx_ctx slot, op_mutex, tx_mutex and the      *)
(* mutable lock are taken and released in the order of the code, DeferGuard*)
(* callbacks included.  A thread makes one call, so a thread also names a  *)
(* call, and it is the origin of the operations of that call.              *)
(***************************************************************************)
EXTENDS MutableOps

CONSTANTS Threads,    \* calls made on the shared handle
          MaxTxOps,   \* bound: operations one transaction function executes
          MaxMem,     \* option.max_mem_size_of_push_buffer, in size units
          Disables    \* TRUE: the event loop may disable the datatype

ASSUME TransactionalAssumption ==
    /\ MaxTxOps \in Nat
    /\ MaxMem \in Nat
    /\ Disables \in BOOLEAN

None == "none"

ASSUME NoneIsNoThread == None \notin Threads

VARIABLES
    m,        \* the MutableDatatype behind the `mutable` lock
    txCtx,    \* TransactionalDatatype.tx_ctx: the call whose context is stored
    opMutex,  \* op_mutex.is_locked()
    txMutex,  \* tx_mutex.is_locked()
    pc,       \* where each call is
    kind,     \* "op": a single operation, "tx": a transaction
    guard,    \* the DeferGuard's committed flag
    done      \* operations the call has executed, a history variable

vars == <<m, txCtx, opMutex, txMutex, pc, kind, guard, done>>

Cuid == "cuid"

Init ==
    /\ m = NewMutable(Threads, "Subscribed")
    /\ txCtx = None
    /\ opMutex = FALSE
    /\ txMutex = FALSE
    /\ pc = [t \in Threads |-> "idle"]
    /\ kind = [t \in Threads |-> "op"]
    /\ guard = [t \in Threads |-> FALSE]
    /\ done = [t \in Threads |-> 0]

Goto(t, l) == pc' = [pc EXCEPT ![t] = l]

Writable == m.state \in ReadWritable

-----------------------------------------------------------------------------
(* Counter::increase_by and Counter::transaction: check_writable first; a   *)
(* refused call returns at once.                                            *)
Call(t, k) ==
    /\ pc[t] = "idle"
    /\ kind' = [kind EXCEPT ![t] = k]
    /\ Goto(t, IF ~Writable THEN "refused"
               ELSE IF k = "op" THEN "begin" ELSE "txBegin")
    /\ UNCHANGED <<m, txCtx, opMutex, txMutex, guard, done>>

(* Definitions named Mut... are plausible faults of the definition after    *)
(* them; the mutation runs listed in PROJECT.json use them, nothing else.   *)

(* begin_transaction, called by execute_local_operation_as_tx.  A single    *)
(* operation stores a fresh context, an operation inside a transaction      *)
(* finds its own (SameCtx), any other call finds another one (OtherCtx).    *)
MutBeginJoinsAny(t) ==
    /\ pc[t] = "begin"
    /\ txCtx' = IF txCtx = None THEN t ELSE txCtx
    /\ guard' = IF txCtx = None THEN [guard EXCEPT ![t] = FALSE] ELSE guard
    /\ Goto(t, "lockOp")
    /\ UNCHANGED <<m, opMutex, txMutex, kind, done>>

Begin(t) ==
    /\ pc[t] = "begin"
    /\ \/ /\ txCtx = None
          /\ txCtx' = t
          /\ guard' = [guard EXCEPT ![t] = FALSE]
          /\ Goto(t, "lockOp")
       \/ /\ txCtx = t
          /\ Goto(t, "lockOp")
          /\ UNCHANGED <<txCtx, guard>>
       \/ /\ txCtx \notin {None, t}
          /\ Goto(t, "waitOp")
          /\ UNCHANGED <<txCtx, guard>>
    /\ UNCHANGED <<m, opMutex, txMutex, kind, done>>

(* begin_transaction, called by do_transaction. *)
TxBegin(t) ==
    /\ pc[t] = "txBegin"
    /\ \/ /\ txCtx = None
          /\ txCtx' = t
          /\ guard' = [guard EXCEPT ![t] = FALSE]
          /\ Goto(t, "lockTx")
       \/ /\ txCtx # None
          /\ Goto(t, "waitTx")
          /\ UNCHANGED <<txCtx, guard>>
    /\ UNCHANGED <<m, opMutex, txMutex, kind, done>>

(* wait_for_mutex and wait_for_tx_mutex: lock, unlock, try again. *)
WaitLockOp(t) ==
    /\ pc[t] = "waitOp" /\ ~opMutex
    /\ opMutex' = TRUE
    /\ Goto(t, "waitedOp")
    /\ UNCHANGED <<m, txCtx, txMutex, kind, guard, done>>

WaitUnlockOp(t) ==
    /\ pc[t] = "waitedOp"
    /\ opMutex' = FALSE
    /\ Goto(t, "begin")
    /\ UNCHANGED <<m, txCtx, txMutex, kind, guard, done>>

WaitLockTx(t) ==
    /\ pc[t] = "waitTx" /\ ~txMutex
    /\ txMutex' = TRUE
    /\ Goto(t, "waitedTx")
    /\ UNCHANGED <<m, txCtx, opMutex, kind, guard, done>>

(* NoGuardMutex::unlock releases whatever is locked, whoever locked it. *)
WaitUnlockTx(t) ==
    /\ pc[t] = "waitedTx"
    /\ txMutex' = FALSE
    /\ Goto(t, "txBegin")
    /\ UNCHANGED <<m, txCtx, opMutex, kind, guard, done>>

-----------------------------------------------------------------------------
(* The operation itself: op_mutex, then the mutable lock, which is released *)
(* before the DeferGuard runs its callbacks.                                *)
LockOp(t) ==
    /\ pc[t] = "lockOp" /\ ~opMutex
    /\ opMutex' = TRUE
    /\ Goto(t, "execute")
    /\ UNCHANGED <<m, txCtx, txMutex, kind, guard, done>>

Execute(t) ==
    /\ pc[t] = "execute"
    /\ m' = ExecuteLocal(m, t)
    /\ done' = [done EXCEPT ![t] = @ + 1]
    /\ guard' = IF kind[t] = "op" THEN [guard EXCEPT ![t] = TRUE] ELSE guard
    /\ Goto(t, "unlockOp")
    /\ UNCHANGED <<txCtx, opMutex, txMutex, kind>>

(* The callback added last runs first; a SameCtx guard has no other one. *)
UnlockOp(t) ==
    /\ pc[t] = "unlockOp"
    /\ opMutex' = FALSE
    /\ Goto(t, IF kind[t] = "op" THEN "end" ELSE "body")
    /\ UNCHANGED <<m, txCtx, txMutex, kind, guard, done>>

-----------------------------------------------------------------------------
(* do_transaction after BeginTx: tx_mutex, then the transaction function,   *)
(* which executes operations (each checks writability again and the         *)
(* function may ignore a refusal) and returns Ok or Err.                    *)
LockTx(t) ==
    /\ pc[t] = "lockTx" /\ ~txMutex
    /\ txMutex' = TRUE
    /\ Goto(t, "body")
    /\ UNCHANGED <<m, txCtx, opMutex, kind, guard, done>>

BodyOp(t) ==
    /\ pc[t] = "body"
    /\ Writable
    /\ done[t] < MaxTxOps
    /\ Goto(t, "begin")
    /\ UNCHANGED <<m, txCtx, opMutex, txMutex, kind, guard, done>>

BodyReturn(t, ok) ==
    /\ pc[t] = "body"
    /\ guard' = [guard EXCEPT ![t] = ok]
    /\ Goto(t, "end")
    /\ UNCHANGED <<m, txCtx, opMutex, txMutex, kind, done>>

-----------------------------------------------------------------------------
(* end_transaction: commit or roll back under the mutable lock, then clear  *)
(* tx_ctx, then unlock tx_mutex - also for a single operation, which never  *)
(* locked it.  The guard is dropped here; its slot keeps the outcome.       *)
End(t) ==
    /\ pc[t] = "end"
    /\ m' = EndTransaction(m, Cuid, guard[t], MaxMem)
    /\ guard' = [guard EXCEPT ![t] = @ /\ CommitFits(m, Cuid, MaxMem)]
    /\ Goto(t, "takeCtx")
    /\ UNCHANGED <<txCtx, opMutex, txMutex, kind, done>>

MutCtxKept(t) ==
    /\ pc[t] = "takeCtx"
    /\ Goto(t, "unlockTx")
    /\ UNCHANGED <<m, txCtx, opMutex, txMutex, kind, guard, done>>

TakeCtx(t) ==
    /\ pc[t] = "takeCtx"
    /\ txCtx' = None
    /\ Goto(t, "unlockTx")
    /\ UNCHANGED <<m, opMutex, txMutex, kind, guard, done>>

UnlockTx(t) ==
    /\ pc[t] = "unlockTx"
    /\ txMutex' = FALSE
    /\ Goto(t, "returned")
    /\ UNCHANGED <<m, txCtx, opMutex, kind, guard, done>>

(* WiredDatatype::handle_error on the event loop's thread: a permanent      *)
(* error of a push disables the datatype at any moment between two lock     *)
(* sections of the calls.                                                   *)
EventLoopDisable ==
    /\ Disables
    /\ m.state # "Disabled"
    /\ m' = Disable(m)
    /\ UNCHANGED <<txCtx, opMutex, txMutex, pc, kind, guard, done>>

-----------------------------------------------------------------------------
Finished(t) == pc[t] \in {"returned", "refused"}

(* All calls have returned: nothing more happens. *)
Quiescent == (\A t \in Threads : Finished(t)) /\ UNCHANGED vars

(* What a call does once it has been made. *)
Progress(t) ==
    \/ Begin(t) \/ TxBegin(t)
    \/ WaitLockOp(t) \/ WaitUnlockOp(t) \/ WaitLockTx(t) \/ WaitUnlockTx(t)
    \/ LockOp(t) \/ Execute(t) \/ UnlockOp(t)
    \/ LockTx(t) \/ BodyOp(t) \/ (\E ok \in BOOLEAN : BodyReturn(t, ok))
    \/ End(t) \/ TakeCtx(t) \/ UnlockTx(t)

Next ==
    \/ \E t \in Threads, k \in {"op", "tx"} : Call(t, k)
    \/ \E t \in Threads : Progress(t)
    \/ EventLoopDisable
    \/ Quiescent

Spec == Init /\ [][Next]_vars

(* A started call is scheduled by the operating system, and the mutexes are *)
(* released with unlock_fair, which hands them to a parked thread: a call   *)
(* whose next step is enabled again and again, as locking a mutex that      *)
(* others take and release is, eventually takes it.  Nothing is assumed     *)
(* about which waiting call finds tx_ctx empty first.                       *)
Fairness == \A t \in Threads : SF_vars(Progress(t))

FairSpec == Spec /\ Fairness

-----------------------------------------------------------------------------
Labels == {"idle", "begin", "txBegin", "waitOp", "waitedOp", "waitTx", "waitedTx",
           "lockOp", "execute", "unlockOp", "lockTx", "body",
           "end", "takeCtx", "unlockTx", "returned", "refused"}

TxType(origins) == [cuid : {Cuid}, cseq : Nat, ops : Seq(origins)]

MutableType(origins) ==
    [crdt     : [origins -> Int],
     cseq     : Nat,
     buf      : [txs : Seq(TxType(origins)), mem_size : Nat,
                 first_cseq : Nat, last_cseq : Nat],
     cp       : [sseq : Nat, cseq : Nat],
     state    : States,
     pending  : Seq(origins),
     rollback : [cseq : Nat, state : States]]

(* The replica and the calls' control state are well formed. *)
TypeOK ==
    /\ m \in MutableType(Threads)
    /\ txCtx \in Threads \cup {None}
    /\ opMutex \in BOOLEAN
    /\ txMutex \in BOOLEAN
    /\ pc \in [Threads -> Labels]
    /\ kind \in [Threads -> {"op", "tx"}]
    /\ guard \in [Threads -> BOOLEAN]
    /\ done \in [Threads -> Nat]

(* Isolation: the open transaction holds operations of one call only, the   *)
(* one whose context is in tx_ctx, although tx_mutex can be released under  *)
(* a running transaction by an unrelated operation's end_transaction.       *)
Isolation ==
    m.pending # <<>> =>
        /\ txCtx # None
        /\ \A i \in DOMAIN m.pending : m.pending[i] = txCtx

(* Atomicity: a call that ended has all its operations in effect or none,   *)
(* whatever ran between its lock sections, and a refused call has none, as  *)
(* long as the datatype was not disabled in the meantime.                   *)
AllOrNothing ==
    m.state # "Disabled" => \A t \in Threads :
        /\ pc[t] \in {"takeCtx", "unlockTx", "returned"} =>
               m.crdt[t] = IF guard[t] THEN done[t] ELSE 0
        /\ pc[t] = "refused" => m.crdt[t] = 0

(* A committed call is one buffered transaction that holds exactly its      *)
(* operations: two calls never share a transaction and none is split.       *)
OneTransactionPerCall ==
    m.state # "Disabled" => \A t \in Threads :
        LET txsOf == {i \in DOMAIN m.buf.txs : OpCount(m.buf.txs[i].ops, t) > 0}
        IN  /\ Cardinality(txsOf) <= 1
            /\ \A i \in txsOf : m.buf.txs[i].ops = [j \in 1..done[t] |-> t]
            /\ pc[t] = "returned" /\ guard[t] /\ done[t] > 0 => txsOf # {}

(* Client sequence numbers have no gap across rollbacks and failed commits: *)
(* op_id.cseq is the last buffered cseq, plus one for an open transaction,  *)
(* so enqueue's NonSequentialCseq error is never raised.                    *)
CseqWithoutGap ==
    /\ m.state # "Disabled" => m.cseq = Len(m.buf.txs) + (IF m.pending = <<>> THEN 0 ELSE 1)
    /\ m.pending # <<>> => ~NonSequentialCseq(m.buf, PendingTx(m, Cuid))

(* Counter::transaction: "If the transaction function returns an error, all *)
(* operations within the transaction are rolled back".                      *)
FailedTransactionLeavesNothing ==
    \A t \in Threads :
        pc[t] = "returned" /\ kind[t] = "tx" /\ ~guard[t] => m.crdt[t] = 0

(* Every call returns: the retry loops around tx_ctx, the two mutexes and   *)
(* the stray unlocks of tx_mutex never leave a call waiting for ever.       *)
EveryCallReturns == \A t \in Threads : pc[t] # "idle" ~> Finished(t)
=============================================================================
