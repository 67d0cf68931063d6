---------------------------- MODULE PushBufferOps ----------------------------
(***************************************************************************)
(* MemoryPushBuffer (src/datatypes/push_buffer.rs) as operators on a       *)
(* record: the queue of committed local transactions that the event loop   *)
(* pushes.  A transaction is [cuid, cseq, ops]; its memory size is one     *)
(* unit of constant overhead plus one unit per operation.                  *)
(***************************************************************************)
EXTENDS Integers, Sequences, FiniteSets, FiniteSetsExt

(* Transaction::size: a constant part plus the size of every operation. *)
TxSize(tx) == 1 + Len(tx.ops)

(* Total size of the transactions at positions i..j of a queue. *)
RangeSize(txs, i, j) == MapThenSumSet(LAMBDA k : TxSize(txs[k]), i..j)

(* MemoryPushBuffer::new; zero is the code's "no cseq" marker. *)
EmptyBuffer == [txs |-> <<>>, mem_size |-> 0, first_cseq |-> 0, last_cseq |-> 0]

-----------------------------------------------------------------------------
(* Definitions named Mut... are plausible faults of the definition after    *)
(* them; the mutation runs listed in PROJECT.json use them, nothing else.   *)

(* enqueue: the two rejections, in the order the code tests them. *)
MutGapAllowed(b, tx) == b.last_cseq # 0 /\ b.last_cseq + 1 > tx.cseq

NonSequentialCseq(b, tx) == b.last_cseq # 0 /\ b.last_cseq + 1 # tx.cseq

ExceedsMaxMemSize(b, tx, maxMem) == b.mem_size + TxSize(tx) > maxMem

CanEnqueue(b, tx, maxMem) ==
    ~NonSequentialCseq(b, tx) /\ ~ExceedsMaxMemSize(b, tx, maxMem)

(* enqueue: the accepting path. *)
Enqueue(b, tx) ==
    [txs        |-> Append(b.txs, tx),
     mem_size   |-> b.mem_size + TxSize(tx),
     first_cseq |-> IF b.first_cseq = 0 THEN tx.cseq ELSE b.first_cseq,
     last_cseq  |-> tx.cseq]

-----------------------------------------------------------------------------
(* get_pushing_transactions: the rejected requests. *)
CannotPushFrom(b, cseq) == cseq = 0 \/ cseq < b.first_cseq

(* How many transactions after position i fit into maxSize: the loop adds   *)
(* transactions while the running total stays within it, and every size is  *)
(* positive, so the lengths that fit are an initial segment.                *)
FittingCount(txs, i, maxSize) ==
    Cardinality({k \in 1..(Len(txs) - i) : RangeSize(txs, i + 1, i + k) <= maxSize})

(* get_pushing_transactions: the batch that starts at cseq. *)
MutBatchSkipsFirst(b, cseq, maxSize) ==
    LET index == cseq - b.first_cseq + 1
    IN  IF Len(b.txs) <= index
        THEN <<>>
        ELSE SubSeq(b.txs, index + 1, index + FittingCount(b.txs, index, maxSize))

PushingTransactions(b, cseq, maxSize) ==
    LET index == cseq - b.first_cseq
    IN  IF Len(b.txs) <= index
        THEN <<>>
        ELSE SubSeq(b.txs, index + 1, index + FittingCount(b.txs, index, maxSize))

-----------------------------------------------------------------------------
(* deque: the transactions it removes ... *)
MutDequeAllButLast(b, upto) ==
    IF upto < b.first_cseq THEN 0
    ELSE IF upto > b.last_cseq THEN Len(b.txs)
    ELSE Cardinality({i \in DOMAIN b.txs : \A j \in 1..i : b.txs[j].cseq < upto})

DequeCount(b, upto) ==
    IF upto < b.first_cseq THEN 0
    ELSE IF upto > b.last_cseq THEN Len(b.txs)
    ELSE Cardinality({i \in DOMAIN b.txs : \A j \in 1..i : b.txs[j].cseq <= upto})

(* ... and the buffer it leaves: the front is popped while its cseq is      *)
(* within the acknowledged ones, and both markers are cleared with the last *)
(* transaction.                                                             *)
MutDequeMemTwice(b, upto) ==
    LET n    == DequeCount(b, upto)
        rest == SubSeq(b.txs, n + 1, Len(b.txs))
    IN  IF n = 0 THEN b
        ELSE [txs        |-> rest,
              mem_size   |-> b.mem_size - 2 * RangeSize(b.txs, 1, n),
              first_cseq |-> IF rest = <<>> THEN 0 ELSE rest[1].cseq,
              last_cseq  |-> IF rest = <<>> THEN 0 ELSE b.last_cseq]

MutDequeKeepsMem(b, upto) ==
    LET n    == DequeCount(b, upto)
        rest == SubSeq(b.txs, n + 1, Len(b.txs))
    IN  IF n = 0 THEN b
        ELSE IF rest = <<>> THEN EmptyBuffer
        ELSE [b EXCEPT !.txs = rest, !.first_cseq = rest[1].cseq]

MutDequeDropsNext(b, upto) ==
    LET n    == DequeCount(b, upto)
        rest == SubSeq(b.txs, n + 2, Len(b.txs))
    IN  IF n = 0 THEN b
        ELSE IF rest = <<>> THEN EmptyBuffer
        ELSE [txs        |-> rest,
              mem_size   |-> b.mem_size - RangeSize(b.txs, 1, n + 1),
              first_cseq |-> rest[1].cseq,
              last_cseq  |-> b.last_cseq]

Deque(b, upto) ==
    LET n    == DequeCount(b, upto)
        rest == SubSeq(b.txs, n + 1, Len(b.txs))
    IN  IF n = 0 THEN b
        ELSE IF rest = <<>> THEN EmptyBuffer
        ELSE [txs        |-> rest,
              mem_size   |-> b.mem_size - RangeSize(b.txs, 1, n),
              first_cseq |-> rest[1].cseq,
              last_cseq  |-> b.last_cseq]
=============================================================================
