------------------------------ MODULE PushBuffer ------------------------------
(***************************************************************************)
(* The push buffer of one replica as a state machine: enqueue at a local   *)
(* commit, get_pushing_transactions for every push, deque for an           *)
(* acknowledgement (the trait's operation; the synchronisation path in     *)
(* this repository never calls it, see SyncProtocol).                      *)
(***************************************************************************)
EXTENDS PushBufferOps

CONSTANTS Cuid,      \* the replica the buffer belongs to
          MaxMem,    \* option.max_mem_size_of_push_buffer, in size units
          MaxCseq,   \* bound: the largest cseq a commit uses
          MaxOps     \* bound: operations of one transaction

ASSUME PushBufferAssumption ==
    /\ MaxMem \in Nat
    /\ MaxCseq \in Nat
    /\ MaxOps \in Nat

VARIABLES
    buf,        \* the MemoryPushBuffer
    accepted,   \* history: every transaction enqueue accepted, in order
    released    \* history: how many of them deque returned

vars == <<buf, accepted, released>>

Transactions ==
    {[cuid |-> Cuid, cseq |-> n, ops |-> [i \in 1..k |-> Cuid]] :
        n \in 1..MaxCseq, k \in 1..MaxOps}

Init ==
    /\ buf = EmptyBuffer
    /\ accepted = <<>>
    /\ released = 0

(* MutableDatatype::end_transaction calls enqueue; a rejected transaction   *)
(* leaves the buffer as it was.                                             *)
EnqueueTx(tx) ==
    /\ CanEnqueue(buf, tx, MaxMem)
    /\ Len(accepted) < MaxCseq
    /\ buf' = Enqueue(buf, tx)
    /\ accepted' = Append(accepted, tx)
    /\ UNCHANGED released

DequeUpto(upto) ==
    /\ buf' = Deque(buf, upto)
    /\ released' = released + DequeCount(buf, upto)
    /\ UNCHANGED accepted

Next ==
    \/ \E tx \in Transactions : EnqueueTx(tx)
    \/ \E upto \in 0..(MaxCseq + 1) : DequeUpto(upto)

Spec == Init /\ [][Next]_vars

-----------------------------------------------------------------------------
BufferType ==
    [txs : Seq(Transactions), mem_size : Nat, first_cseq : Nat, last_cseq : Nat]

(* The buffer is a queue of this replica's transactions with natural        *)
(* counters (MemoryPushBuffer, push_buffer.rs).                             *)
TypeOK ==
    /\ buf \in BufferType
    /\ accepted \in Seq(Transactions)
    /\ released \in Nat

(* get_pushing_transactions turns a cseq into a position by subtracting     *)
(* first_cseq: that is right only while the queued cseqs have no gap and    *)
(* both markers agree with the ends of the queue, through every mix of      *)
(* accepted and rejected enqueues and partial, exact and excess deques.     *)
Contiguous ==
    /\ \A i \in DOMAIN buf.txs : buf.txs[i].cseq = buf.first_cseq + i - 1
    /\ buf.txs = <<>> => buf.first_cseq = 0 /\ buf.last_cseq = 0
    /\ buf.txs # <<>> => /\ buf.first_cseq > 0
                         /\ buf.last_cseq = buf.first_cseq + Len(buf.txs) - 1

(* mem_size is adjusted incrementally by enqueue and deque: it stays the    *)
(* exact size of what is queued, never above the configured limit, so space *)
(* released by deque is neither lost nor counted twice.                     *)
MemAccounting ==
    /\ buf.mem_size = RangeSize(buf.txs, 1, Len(buf.txs))
    /\ buf.mem_size <= MaxMem

(* Nothing accepted is lost, duplicated or reordered: what deque returned   *)
(* followed by what is queued is what enqueue accepted.                     *)
FifoNoLoss == buf.txs = SubSeq(accepted, released + 1, Len(accepted))

(* A push batch asked for from any cseq that is not rejected holds exactly  *)
(* the queued transactions with the cseqs from there on, without a gap,     *)
(* within the transmission limit, and no further transaction would fit      *)
(* (get_pushing_transactions).                                              *)
BatchExact ==
    \A cseq \in 1..(MaxCseq + 1), max \in 0..MaxMem :
        ~CannotPushFrom(buf, cseq) =>
            LET batch == PushingTransactions(buf, cseq, max)
                due   == {i \in DOMAIN buf.txs : buf.txs[i].cseq >= cseq}
            IN  /\ Len(batch) <= Cardinality(due)
                /\ \A i \in DOMAIN batch :
                       \E j \in due : /\ batch[i] = buf.txs[j]
                                      /\ batch[i].cseq = cseq + i - 1
                /\ RangeSize(batch, 1, Len(batch)) <= max
                /\ \A j \in due :
                       buf.txs[j].cseq = cseq + Len(batch) =>
                           RangeSize(batch, 1, Len(batch)) + TxSize(buf.txs[j]) > max

(* deque never returns a transaction above the acknowledged cseq and never  *)
(* keeps one at or below it.                                                *)
DequeExact ==
    [][\A upto \in 0..(MaxCseq + 1) :
          DequeUpto(upto) =>
              /\ \A i \in DOMAIN buf'.txs : buf'.txs[i].cseq > upto
              /\ \A i \in 1..DequeCount(buf, upto) : buf.txs[i].cseq <= upto]_vars
=============================================================================
