--------------------------- MODULE PushBufferProofs ---------------------------
(***************************************************************************)
(* What holds of the push buffer for every memory limit, every number of   *)
(* commits and every size of transaction.  The sums over the queue are     *)
(* shown to count units, one per unit of size, so that what is known of    *)
(* cardinalities applies to them; induction over numbers and over finite   *)
(* sets is derived from the pigeonhole principle, for membership in a set. *)
(***************************************************************************)
EXTENDS PushBuffer, FiniteSetTheorems, SequenceTheorems, TLAPS

(* The inductive invariant: the queue, seen through positions, is the tail  *)
(* of what was accepted, and its cseqs are consecutive.                     *)
QueueType ==
    /\ buf.txs \in Seq(Transactions)
    /\ buf.first_cseq \in Nat
    /\ buf.last_cseq \in Nat
    /\ accepted \in Seq(Transactions)
    /\ released \in Nat

TailOfAccepted ==
    /\ Len(accepted) = released + Len(buf.txs)
    /\ \A i \in 1..Len(buf.txs) : buf.txs[i] = accepted[released + i]

QueueInv == QueueType /\ Contiguous /\ TailOfAccepted

(* A transaction of the model carries a positive cseq. *)
LEMMA TransactionType ==
    ASSUME NEW tx \in Transactions
    PROVE  tx.cseq \in Nat /\ tx.cseq > 0
BY PushBufferAssumption DEF Transactions

(* deque removes exactly the queued cseqs up to `upto`: the number of       *)
(* transactions it pops, in closed form.                                    *)
LEMMA DequeCountValue ==
    ASSUME QueueType, Contiguous, NEW upto \in Nat
    PROVE  DequeCount(buf, upto) =
               IF upto < buf.first_cseq THEN 0
               ELSE IF upto > buf.last_cseq THEN Len(buf.txs)
               ELSE IF buf.txs = <<>> THEN 0
               ELSE upto - buf.first_cseq + 1
<1> DEFINE S == {i \in DOMAIN buf.txs : \A j \in 1..i : buf.txs[j].cseq <= upto}
<1>1. CASE upto < buf.first_cseq \/ upto > buf.last_cseq
  BY <1>1 DEF DequeCount
<1>2. CASE ~(upto < buf.first_cseq) /\ ~(upto > buf.last_cseq) /\ buf.txs = <<>>
  <2>1. S = {}
    BY <1>2
  <2> QED
    BY <1>2, <2>1, FS_EmptySet DEF DequeCount
<1>3. CASE ~(upto < buf.first_cseq) /\ ~(upto > buf.last_cseq) /\ buf.txs # <<>>
  <2> DEFINE n == upto - buf.first_cseq + 1
  <2>1. n \in 1..Len(buf.txs)
    BY <1>3 DEF QueueType, Contiguous
  <2>2. \A j \in 1..Len(buf.txs) : buf.txs[j].cseq <= upto <=> j <= n
    BY SMTT(30) DEF QueueType, Contiguous
  <2>3. S = 1..n
    <3>1. DOMAIN buf.txs = 1..Len(buf.txs) /\ Len(buf.txs) \in Nat
      BY DEF QueueType
    <3>2. ASSUME NEW i \in S PROVE i \in 1..n
      BY <2>1, <2>2, <3>1
    <3>3. ASSUME NEW i \in 1..n PROVE i \in S
      <4>1. i \in 1..Len(buf.txs)
        BY <2>1, <3>1
      <4>2. \A j \in 1..i : j \in 1..Len(buf.txs) /\ j <= n
        BY <2>1, <3>1, <4>1
      <4> QED
        BY <2>2, <3>1, <4>1, <4>2
    <3> QED
      BY <3>2, <3>3
  <2>4. Cardinality(1..n) = n
    BY <2>1, FS_Interval DEF QueueType
  <2> QED
    BY <1>3, <2>3, <2>4 DEF DequeCount
<1> QED
  BY <1>1, <1>2, <1>3

(* ... which is at most the length of the queue. *)
LEMMA DequeCountBound ==
    ASSUME QueueType, Contiguous, NEW upto \in Nat
    PROVE  DequeCount(buf, upto) \in 0..Len(buf.txs)
BY DequeCountValue DEF QueueType, Contiguous

(* The initial buffer satisfies the invariant. *)
LEMMA QueueInvInit == Init => QueueInv
BY DEF Init, EmptyBuffer, QueueInv, QueueType, Contiguous, TailOfAccepted

(* enqueue preserves the invariant: a gap is rejected as NonSequentialCseq. *)
LEMMA QueueInvEnqueue ==
    ASSUME QueueInv, NEW tx \in Transactions, EnqueueTx(tx)
    PROVE  QueueInv'
<1>1. tx.cseq \in Nat /\ tx.cseq > 0
  BY TransactionType
<1>2. /\ buf'.txs = Append(buf.txs, tx)
      /\ buf'.first_cseq = IF buf.first_cseq = 0 THEN tx.cseq ELSE buf.first_cseq
      /\ buf'.last_cseq = tx.cseq
      /\ accepted' = Append(accepted, tx)
      /\ released' = released
      /\ buf.last_cseq # 0 => tx.cseq = buf.last_cseq + 1
  BY DEF EnqueueTx, Enqueue, CanEnqueue, NonSequentialCseq
<1>3. QueueType'
  BY <1>1, <1>2 DEF QueueInv, QueueType
<1>4. Contiguous'
  <2>1. /\ Len(buf'.txs) = Len(buf.txs) + 1
        /\ buf'.txs[Len(buf.txs) + 1] = tx
        /\ \A i \in 1..Len(buf.txs) : buf'.txs[i] = buf.txs[i]
    BY <1>2 DEF QueueInv, QueueType
  <2>2. CASE buf.txs = <<>>
    BY <1>1, <1>2, <2>1, <2>2 DEF QueueInv, QueueType, Contiguous
  <2>3. CASE buf.txs # <<>>
    <3>1. /\ Len(buf.txs) \in Nat \ {0}
          /\ DOMAIN buf.txs = 1..Len(buf.txs)
          /\ DOMAIN buf'.txs = 1..(Len(buf.txs) + 1)
      BY <2>1, <2>3, <1>3 DEF QueueInv, QueueType
    <3>2. /\ buf.first_cseq \in Nat /\ buf.first_cseq > 0
          /\ buf.last_cseq = buf.first_cseq + Len(buf.txs) - 1
          /\ \A i \in 1..Len(buf.txs) : buf.txs[i].cseq = buf.first_cseq + i - 1
      BY <2>3, <3>1 DEF QueueInv, QueueType, Contiguous
    <3>3. tx.cseq = buf.first_cseq + Len(buf.txs)
      BY <1>1, <1>2, <3>1, <3>2
    <3>4. ASSUME NEW i \in 1..(Len(buf.txs) + 1)
          PROVE  buf'.txs[i].cseq = buf.first_cseq + i - 1
      <4>1. CASE i = Len(buf.txs) + 1
        BY <2>1, <3>1, <3>2, <3>3, <4>1
      <4>2. CASE i \in 1..Len(buf.txs)
        BY <2>1, <3>2, <4>2
      <4> QED
        BY <3>1, <4>1, <4>2
    <3> QED
      BY <1>2, <2>1, <3>1, <3>2, <3>3, <3>4, SMTT(30) DEF Contiguous
  <2> QED
    BY <2>2, <2>3
<1>5. TailOfAccepted'
  <2>1. /\ Len(buf.txs) \in Nat /\ released \in Nat
        /\ Len(accepted) = released + Len(buf.txs)
        /\ \A i \in 1..Len(buf.txs) : buf.txs[i] = accepted[released + i]
    BY DEF QueueInv, QueueType, TailOfAccepted
  <2>2. /\ Len(buf'.txs) = Len(buf.txs) + 1
        /\ buf'.txs[Len(buf.txs) + 1] = tx
        /\ \A i \in 1..Len(buf.txs) : buf'.txs[i] = buf.txs[i]
    BY <1>2 DEF QueueInv, QueueType
  <2>3. /\ Len(accepted') = Len(accepted) + 1
        /\ accepted'[Len(accepted) + 1] = tx
        /\ \A i \in 1..Len(accepted) : accepted'[i] = accepted[i]
    BY <1>2 DEF QueueInv, QueueType
  <2> QED
    BY <1>2, <2>1, <2>2, <2>3 DEF TailOfAccepted
<1> QED
  BY <1>3, <1>4, <1>5 DEF QueueInv

(* What deque leaves, by position. *)
LEMMA DequeResult ==
    ASSUME QueueInv, NEW upto \in Nat, NEW n, n = DequeCount(buf, upto)
    PROVE  /\ Deque(buf, upto).txs \in Seq(Transactions)
           /\ Len(Deque(buf, upto).txs) = Len(buf.txs) - n
           /\ \A i \in 1..(Len(buf.txs) - n) : Deque(buf, upto).txs[i] = buf.txs[n + i]
           /\ Deque(buf, upto).first_cseq =
                  IF n = Len(buf.txs) THEN 0 ELSE buf.first_cseq + n
           /\ Deque(buf, upto).last_cseq =
                  IF n = Len(buf.txs) THEN 0 ELSE buf.last_cseq
<1> DEFINE rest == SubSeq(buf.txs, n + 1, Len(buf.txs))
<1>1. n \in 0..Len(buf.txs)
  BY DequeCountBound DEF QueueInv
<1>2. buf.txs \in Seq(Transactions) /\ Len(buf.txs) \in Nat
  BY DEF QueueInv, QueueType
<1>3. /\ rest \in Seq(Transactions)
      /\ Len(rest) = Len(buf.txs) - n
      /\ \A i \in 1..(Len(buf.txs) - n) : rest[i] = buf.txs[n + i]
  BY <1>1, <1>2
<1>4. CASE n = 0
  BY <1>1, <1>2, <1>4 DEF Deque, QueueInv, QueueType, Contiguous
<1>5. CASE n # 0 /\ rest = <<>>
  <2>1. n = Len(buf.txs)
    <3>1. Len(rest) = 0
      BY <1>5
    <3> HIDE DEF rest
    <3> QED
      BY <1>1, <1>2, <1>3, <3>1
  <2>2. Deque(buf, upto) = EmptyBuffer
    BY <1>5 DEF Deque
  <2> QED
    BY <1>2, <2>1, <2>2 DEF EmptyBuffer
<1>6. CASE n # 0 /\ rest # <<>>
  <2>1. n < Len(buf.txs)
    BY <1>1, <1>2, <1>3, <1>6
  <2>2. /\ Deque(buf, upto).txs = rest
        /\ Deque(buf, upto).first_cseq = rest[1].cseq
        /\ Deque(buf, upto).last_cseq = buf.last_cseq
    BY <1>6 DEF Deque
  <2>3. rest[1].cseq = buf.first_cseq + n
    BY <1>1, <1>2, <1>3, <2>1, SMTT(30) DEF QueueInv, QueueType, Contiguous
  <2> QED
    BY <1>1, <1>2, <1>3, <2>1, <2>2, <2>3
<1> QED
  BY <1>4, <1>5, <1>6

(* deque preserves the invariant, whichever cseq is acknowledged. *)
LEMMA QueueInvDeque ==
    ASSUME QueueInv, NEW upto \in Nat, DequeUpto(upto)
    PROVE  QueueInv'
<1> DEFINE n == DequeCount(buf, upto)
<1>1. n \in 0..Len(buf.txs)
  BY DequeCountBound DEF QueueInv
<1>2. /\ buf'.txs \in Seq(Transactions)
      /\ Len(buf'.txs) = Len(buf.txs) - n
      /\ \A i \in 1..(Len(buf.txs) - n) : buf'.txs[i] = buf.txs[n + i]
      /\ buf'.first_cseq = IF n = Len(buf.txs) THEN 0 ELSE buf.first_cseq + n
      /\ buf'.last_cseq = IF n = Len(buf.txs) THEN 0 ELSE buf.last_cseq
  BY DequeResult DEF DequeUpto
<1>3. accepted' = accepted /\ released' = released + n
  BY DEF DequeUpto
<1> HIDE DEF n
<1>4. QueueType'
  BY <1>1, <1>2, <1>3 DEF QueueInv, QueueType
<1>5. Contiguous'
  <2>1. CASE n = Len(buf.txs)
    BY <1>1, <1>2, <2>1 DEF QueueInv, QueueType, Contiguous
  <2>2. CASE n < Len(buf.txs)
    <3>1. /\ Len(buf.txs) \in Nat \ {0}
          /\ DOMAIN buf.txs = 1..Len(buf.txs)
          /\ DOMAIN buf'.txs = 1..(Len(buf.txs) - n)
      BY <1>1, <1>2, <2>2 DEF QueueInv, QueueType
    <3>2. /\ buf.first_cseq \in Nat /\ buf.first_cseq > 0
          /\ buf.last_cseq = buf.first_cseq + Len(buf.txs) - 1
          /\ \A i \in 1..Len(buf.txs) : buf.txs[i].cseq = buf.first_cseq + i - 1
      BY <3>1 DEF QueueInv, QueueType, Contiguous
    <3>3. buf'.first_cseq = buf.first_cseq + n /\ buf'.last_cseq = buf.last_cseq
      BY <1>2, <2>2
    <3>4. \A i \in 1..(Len(buf.txs) - n) : n + i \in 1..Len(buf.txs)
      BY <1>1, <3>1
    <3>5. ASSUME NEW i \in 1..(Len(buf.txs) - n)
          PROVE  buf'.txs[i].cseq = buf'.first_cseq + i - 1
      <4>1. buf'.txs[i].cseq = buf.first_cseq + (n + i) - 1
        BY <1>2, <3>2, <3>4
      <4> QED
        BY <1>1, <3>1, <3>2, <3>3, <4>1
    <3>6. buf'.txs # <<>> /\ buf'.first_cseq > 0
      BY <1>1, <1>2, <2>2, <3>1, <3>2, <3>3
    <3>7. buf'.last_cseq = buf'.first_cseq + Len(buf'.txs) - 1
      BY <1>1, <1>2, <3>1, <3>2, <3>3
    <3> QED
      BY <3>1, <3>5, <3>6, <3>7 DEF Contiguous
  <2> QED
    BY <1>1, <2>1, <2>2 DEF QueueInv, QueueType
<1>6. TailOfAccepted'
  <2>1. /\ Len(buf.txs) \in Nat /\ released \in Nat
        /\ Len(accepted) = released + Len(buf.txs)
        /\ \A i \in 1..Len(buf.txs) : buf.txs[i] = accepted[released + i]
    BY DEF QueueInv, QueueType, TailOfAccepted
  <2>2. \A i \in 1..(Len(buf.txs) - n) : n + i \in 1..Len(buf.txs)
    BY <1>1, <2>1
  <2>3. \A i \in 1..(Len(buf.txs) - n) : buf'.txs[i] = accepted[released + (n + i)]
    BY <1>2, <2>1, <2>2
  <2>4. Len(accepted') = released' + Len(buf'.txs)
    <3>1. Len(buf'.txs) = Len(buf.txs) - n /\ released' = released + n
      BY <1>2, <1>3
    <3>2. Len(accepted') = released + Len(buf.txs)
      BY <1>3, <2>1
    <3>3. Len(buf.txs) \in Nat /\ released \in Nat /\ n \in Nat
      BY <1>1, <2>1
    <3>4. \A a, b, c \in Nat : a + b = (a + c) + (b - c)
      OBVIOUS
    <3>5. released + Len(buf.txs) = (released + n) + (Len(buf.txs) - n)
      BY <3>3, <3>4
    <3> QED
      BY <3>1, <3>2, <3>5
  <2>5. ASSUME NEW i \in 1..Len(buf'.txs)
        PROVE  buf'.txs[i] = accepted'[released' + i]
    <3>1. Len(buf'.txs) = Len(buf.txs) - n /\ released' = released + n
      BY <1>2, <1>3
    <3>2. released \in Nat /\ n \in Nat /\ i \in Int
      BY <1>1, <2>1
    <3>3. released + (n + i) = released' + i
      BY <3>1, <3>2
    <3> QED
      BY <1>3, <2>3, <3>1, <3>3
  <2> QED
    BY <2>4, <2>5 DEF TailOfAccepted
<1> QED
  BY <1>4, <1>5, <1>6 DEF QueueInv

(* The inductive invariant holds in every reachable state. *)
THEOREM QueueInvariant == Spec => []QueueInv
<1>1. QueueInv /\ [Next]_vars => QueueInv'
  <2> SUFFICES ASSUME QueueInv, [Next]_vars PROVE QueueInv'
    OBVIOUS
  <2>1. CASE \E tx \in Transactions : EnqueueTx(tx)
    BY <2>1, QueueInvEnqueue
  <2>2. CASE \E upto \in 0..(MaxCseq + 1) : DequeUpto(upto)
    BY <2>2, QueueInvDeque, PushBufferAssumption
  <2>3. CASE UNCHANGED vars
    BY <2>3 DEF vars, QueueInv, QueueType, Contiguous, TailOfAccepted
  <2> QED
    BY <2>1, <2>2, <2>3 DEF Next
<1> QED
  BY <1>1, QueueInvInit, PTL DEF Spec

(* get_pushing_transactions may index the queue by cseq - first_cseq: the   *)
(* queued cseqs are consecutive and the markers name its ends.              *)
THEOREM ContiguousAlways == Spec => []Contiguous
BY QueueInvariant, PTL DEF QueueInv

(* Nothing enqueue accepted is lost, duplicated or reordered. *)
THEOREM FifoNoLossAlways == Spec => []FifoNoLoss
<1>1. QueueInv => FifoNoLoss
  <2> SUFFICES ASSUME QueueInv PROVE FifoNoLoss
    OBVIOUS
  <2> DEFINE rest == SubSeq(accepted, released + 1, Len(accepted))
  <2>1. /\ rest \in Seq(Transactions)
        /\ Len(rest) = Len(buf.txs)
        /\ \A i \in 1..Len(buf.txs) : rest[i] = buf.txs[i]
    BY DEF QueueInv, QueueType, TailOfAccepted
  <2> QED
    BY <2>1, SeqEqual DEF QueueInv, QueueType, FifoNoLoss
<1> QED
  BY <1>1, QueueInvariant, PTL

(* An acknowledgement releases exactly the transactions up to its cseq. *)
THEOREM DequeExactAlways == Spec => DequeExact
<1> DEFINE A == \A upto \in 0..(MaxCseq + 1) :
                    DequeUpto(upto) =>
                        /\ \A i \in DOMAIN buf'.txs : buf'.txs[i].cseq > upto
                        /\ \A i \in 1..DequeCount(buf, upto) : buf.txs[i].cseq <= upto
<1>1. QueueInv /\ [Next]_vars => [A]_vars
  <2> SUFFICES ASSUME QueueInv, NEW upto \in 0..(MaxCseq + 1), DequeUpto(upto)
               PROVE  /\ \A i \in DOMAIN buf'.txs : buf'.txs[i].cseq > upto
                      /\ \A i \in 1..DequeCount(buf, upto) : buf.txs[i].cseq <= upto
    OBVIOUS
  <2> DEFINE n == DequeCount(buf, upto)
  <2>0. upto \in Nat
    BY PushBufferAssumption
  <2>1. n \in 0..Len(buf.txs)
    BY <2>0, DequeCountBound DEF QueueInv
  <2>2. n = IF upto < buf.first_cseq THEN 0
            ELSE IF upto > buf.last_cseq THEN Len(buf.txs)
            ELSE IF buf.txs = <<>> THEN 0
            ELSE upto - buf.first_cseq + 1
    BY <2>0, DequeCountValue DEF QueueInv
  <2>3. /\ buf'.txs \in Seq(Transactions)
        /\ Len(buf'.txs) = Len(buf.txs) - n
        /\ \A i \in 1..(Len(buf.txs) - n) : buf'.txs[i] = buf.txs[n + i]
    BY <2>0, DequeResult DEF DequeUpto
  <2> HIDE DEF n
  <2>4. ASSUME NEW i \in 1..Len(buf.txs)
        PROVE  buf.txs[i].cseq \in Nat /\ (buf.txs[i].cseq <= upto <=> i <= n)
    <3>1. /\ Len(buf.txs) \in Nat \ {0} /\ buf.txs # <<>>
          /\ DOMAIN buf.txs = 1..Len(buf.txs)
      BY DEF QueueInv, QueueType
    <3>2. /\ buf.first_cseq \in Nat
          /\ buf.last_cseq = buf.first_cseq + Len(buf.txs) - 1
          /\ buf.txs[i].cseq = buf.first_cseq + i - 1
      BY <3>1 DEF QueueInv, QueueType, Contiguous
    <3> QED
      BY <2>0, <2>1, <2>2, <3>1, <3>2, SMTT(30)
  <2>5. ASSUME NEW i \in DOMAIN buf'.txs PROVE buf'.txs[i].cseq > upto
    <3>1. Len(buf.txs) \in Nat /\ DOMAIN buf'.txs = 1..(Len(buf.txs) - n)
      BY <2>1, <2>3 DEF QueueInv, QueueType
    <3>2. n + i \in 1..Len(buf.txs) /\ n + i > n /\ buf'.txs[i] = buf.txs[n + i]
      BY <2>1, <2>3, <3>1, SMTT(30)
    <3>3. n \in Int
      BY <2>1
    <3> QED
      BY <2>0, <2>4, <3>2, <3>3
  <2>6. \A i \in 1..n : buf.txs[i].cseq <= upto
    BY <2>1, <2>4 DEF QueueInv, QueueType
  <2> QED
    BY <2>5, <2>6 DEF n
<1> QED
  BY <1>1, QueueInvariant, PTL DEF Spec, DequeExact

-----------------------------------------------------------------------------
(* Finite sets of numbers, and induction over them. *)

(* A finite set of numbers has a largest one: otherwise counting the        *)
(* members up to each maps the set into fewer values, one to one.           *)
LEMMA FiniteMaximum ==
    ASSUME NEW S \in SUBSET Nat, IsFiniteSet(S), S # {}
    PROVE  \E x \in S : \A y \in S : y <= x
<1> SUFFICES ASSUME \A x \in S : \E y \in S : y > x PROVE FALSE
  OBVIOUS
<1> DEFINE n == Cardinality(S)
           Upto(x) == {y \in S : y <= x}
           c == [x \in S |-> Cardinality(Upto(x))]
<1>1. n \in Nat
  BY FS_CardinalityType
<1>2. ASSUME NEW x \in S
      PROVE  /\ Upto(x) \in SUBSET S /\ IsFiniteSet(Upto(x))
             /\ Cardinality(Upto(x)) \in 1..(n - 1)
  <2>1. Upto(x) \in SUBSET S /\ Upto(x) # S /\ Upto(x) # {}
    OBVIOUS
  <2> HIDE DEF Upto
  <2>2. /\ IsFiniteSet(Upto(x)) /\ Cardinality(Upto(x)) <= n
        /\ Cardinality(Upto(x)) # n
    BY <2>1, FS_Subset
  <2>3. Cardinality(Upto(x)) \in Nat /\ Cardinality(Upto(x)) # 0
    BY <2>1, <2>2, FS_CardinalityType, FS_EmptySet
  <2> HIDE DEF n
  <2> QED
    BY <1>1, <2>1, <2>2, <2>3
<1>3. n >= 1
  BY <1>1, FS_EmptySet
<1>4. IsFiniteSet(1..(n - 1)) /\ Cardinality(1..(n - 1)) < n
  <2> HIDE DEF n
  <2>1. 1 \in Int /\ n - 1 \in Int
    BY <1>1
  <2>2. IsFiniteSet(1..(n - 1)) /\ Cardinality(1..(n - 1)) = IF 1 > n - 1 THEN 0 ELSE (n - 1) - 1 + 1
    BY <2>1, FS_Interval
  <2> QED
    BY <1>1, <1>3, <2>2
<1>5. c \in [S -> 1..(n - 1)]
  BY <1>2
<1>6. PICK x \in S, y \in S : x # y /\ c[x] = c[y]
  <2> HIDE DEF c
  <2> QED
    BY <1>4, <1>5, FS_PigeonHole
<1>7. ASSUME NEW a \in S, NEW b \in S, a < b PROVE c[a] # c[b]
  <2>0. a \in Nat /\ b \in Nat
    OBVIOUS
  <2>a. ASSUME NEW z \in Upto(a) PROVE z \in Upto(b)
    <3>1. z \in S /\ z \in Nat /\ z <= a
      OBVIOUS
    <3>2. z <= b
      BY <1>7, <2>0, <3>1
    <3> QED
      BY <3>1, <3>2
  <2>b. b \in Upto(b) /\ b \notin Upto(a)
    BY <1>7, <2>0
  <2>1. Upto(a) \in SUBSET Upto(b) /\ b \in Upto(b) /\ b \notin Upto(a)
    BY <2>a, <2>b
  <2>2. Upto(a) # Upto(b) /\ IsFiniteSet(Upto(b))
    BY <1>2, <2>1
  <2> HIDE DEF Upto
  <2> QED
    BY <2>1, <2>2, FS_Subset
<1>8. x < y \/ y < x
  BY <1>6
<1> QED
  BY <1>6, <1>7, <1>8

(* The least-number principle for sets. *)
LEMMA LeastNatural ==
    ASSUME NEW S \in SUBSET Nat, S # {}
    PROVE  \E x \in S : \A y \in S : x <= y
<1>1. PICK n \in S : TRUE
  OBVIOUS
<1> DEFINE D == {n - k : k \in {k \in S : k <= n}}
<1>2. D \in SUBSET (0..n) /\ n - n \in D
  BY <1>1
<1>3. IsFiniteSet(D) /\ D # {} /\ D \in SUBSET Nat
  <2> HIDE DEF D
  <2>1. n \in Int /\ 0 \in Int
    BY <1>1
  <2>2. IsFiniteSet(0..n)
    BY <2>1, FS_Interval
  <2>3. IsFiniteSet(D)
    BY <1>2, <2>2, FS_Subset
  <2>4. D \in SUBSET Nat
    BY <1>2
  <2> QED
    BY <1>2, <2>3, <2>4
<1>4. PICK d \in D : \A e \in D : e <= d
  <2> HIDE DEF D
  <2> QED
    BY <1>3, FiniteMaximum
<1>5. PICK x \in S : x <= n /\ d = n - x
  BY <1>4
<1>6. ASSUME NEW y \in S PROVE x <= y
  <2>1. CASE y <= n
    <3>1. n - y \in D
      BY <2>1
    <3>2. n - y <= d
      BY <1>4, <3>1
    <3> QED
      BY <1>5, <3>2
  <2>2. CASE ~(y <= n)
    BY <1>5, <2>2
  <2> QED
    BY <2>1, <2>2
<1> QED
  BY <1>6

(* Induction over the natural numbers, for membership in a set. *)
LEMMA NaturalSteps ==
    ASSUME NEW S, 0 \in S, \A n \in Nat : n \in S => n + 1 \in S
    PROVE  \A n \in Nat : n \in S
<1> DEFINE B == {n \in Nat : n \notin S}
<1> SUFFICES B = {}
  OBVIOUS
<1> SUFFICES ASSUME B # {} PROVE FALSE
  OBVIOUS
<1>1. PICK x \in B : \A y \in B : x <= y
  <2>1. B \in SUBSET Nat
    OBVIOUS
  <2> HIDE DEF B
  <2> QED
    BY <2>1, LeastNatural
<1>2. x \in Nat /\ x # 0 /\ x - 1 \in Nat /\ x - 1 \notin B
  BY <1>1
<1>3. (x - 1) + 1 = x
  BY <1>2
<1> QED
  BY <1>1, <1>2, <1>3

(* Induction over the subsets of a finite set, for membership in a set. *)
LEMMA SubsetSteps ==
    ASSUME NEW S, IsFiniteSet(S), NEW Q, {} \in Q,
           \A s \in SUBSET S : s # {} /\ (\A x \in s : s \ {x} \in Q) => s \in Q
    PROVE  \A s \in SUBSET S : s \in Q
<1> DEFINE B == {s \in SUBSET S : s \notin Q}
           C == {Cardinality(s) : s \in B}
<1> SUFFICES ASSUME B # {} PROVE FALSE
  OBVIOUS
<1>1. \A s \in SUBSET S : IsFiniteSet(s) /\ Cardinality(s) \in Nat
  BY FS_Subset, FS_CardinalityType
<1>2. C \in SUBSET Nat /\ C # {}
  BY <1>1
<1>3. PICK n \in C : \A k \in C : n <= k
  <2> HIDE DEF C
  <2> QED
    BY <1>2, LeastNatural
<1>4. PICK s \in B : n = Cardinality(s)
  BY <1>3
<1>5. ASSUME NEW x \in s PROVE s \ {x} \in Q
  <2>1. Cardinality(s \ {x}) = n - 1
    BY <1>1, <1>4, FS_RemoveElement
  <2>2. n \in Nat
    BY <1>2, <1>3
  <2>3. ~(n <= Cardinality(s \ {x}))
    BY <2>1, <2>2
  <2>4. Cardinality(s \ {x}) \notin C
    BY <1>3, <2>3
  <2> QED
    BY <1>4, <2>4
<1>6. s # {} /\ s \in SUBSET S /\ s \notin Q
  BY <1>4
<1> QED
  BY <1>5, <1>6

-----------------------------------------------------------------------------
(* RangeSize as the recursive function that the folds define. *)
LEMMA RangeSizeFold ==
    ASSUME NEW txs, NEW i, NEW j
    PROVE  LET it == CHOOSE h : h = [s \in SUBSET (i..j) |->
                       IF s = {} THEN 0
                       ELSE TxSize(txs[CHOOSE x \in s : TRUE])
                            + h[s \ {CHOOSE x \in s : TRUE}]]
           IN  RangeSize(txs, i, j) = it[i..j]
BY Zenon DEF RangeSize, MapThenSumSet, MapThenFoldSet

(* The units of size of the transactions at the positions in s. *)
Units(txs, s) == {p \in s \X Nat : 1 <= p[2] /\ p[2] <= TxSize(txs[p[1]])}

(* One more position adds the size of its transaction. *)
LEMMA UnitsAdd ==
    ASSUME NEW txs, NEW s \in SUBSET Nat, NEW x \in s,
           TxSize(txs[x]) \in Nat,
           IsFiniteSet(Units(txs, s \ {x}))
    PROVE  /\ IsFiniteSet(Units(txs, s))
           /\ Cardinality(Units(txs, s)) = TxSize(txs[x]) + Cardinality(Units(txs, s \ {x}))
<1> DEFINE n == TxSize(txs[x])
           A == Units(txs, s \ {x})
           B == {x} \X (1..n)
<1>1. Units(txs, s) = A \cup B
  <2>1. ASSUME NEW p \in Units(txs, s) PROVE p \in A \cup B
    BY DEF Units
  <2>2. ASSUME NEW p \in A PROVE p \in Units(txs, s)
    BY DEF Units
  <2>3. ASSUME NEW p \in B PROVE p \in Units(txs, s)
    BY DEF Units
  <2> QED
    BY <2>1, <2>2, <2>3
<1>2. A \cap B = {}
  BY DEF Units
<1>3. IsFiniteSet(B) /\ Cardinality(B) = n
  <2>1. 1 \in Int /\ n \in Int /\ n \in Nat
    OBVIOUS
  <2> HIDE DEF n
  <2>2. IsFiniteSet(1..n) /\ Cardinality(1..n) = n
    <3>1. Cardinality(1..n) = IF 1 > n THEN 0 ELSE n - 1 + 1
      BY <2>1, FS_Interval
    <3> QED
      BY <2>1, <3>1, FS_Interval
  <2>3. IsFiniteSet({x}) /\ Cardinality({x}) = 1
    BY FS_Singleton
  <2>4. IsFiniteSet(B) /\ Cardinality(B) = Cardinality({x}) * Cardinality(1..n)
    <3> DEFINE X == {x}
               Y == 1..n
    <3> HIDE DEF X, Y
    <3>1. IsFiniteSet(X) /\ IsFiniteSet(Y)
      BY <2>2, <2>3 DEF X, Y
    <3>2. IsFiniteSet(X \X Y) /\ Cardinality(X \X Y) = Cardinality(X) * Cardinality(Y)
      BY <3>1, FS_Product
    <3> QED
      BY <3>2 DEF X, Y
  <2>5. Cardinality({x}) * Cardinality(1..n) = n
    BY <2>1, <2>2, <2>3
  <2> QED
    BY <2>4, <2>5
<1>4. /\ IsFiniteSet(A \cup B)
      /\ Cardinality(A \cup B) = Cardinality(A) + Cardinality(B) - Cardinality(A \cap B)
  <2> HIDE DEF A, B
  <2>1. IsFiniteSet(A)
    BY DEF A
  <2> QED
    BY <1>3, <2>1, FS_Union
<1>5. Cardinality(A) \in Nat /\ Cardinality(A \cap B) = 0
  BY <1>2, FS_EmptySet, FS_CardinalityType
<1>6. Cardinality(A \cup B) = n + Cardinality(A)
  <2> HIDE DEF A, B, n
  <2>1. n \in Nat
    BY DEF n
  <2> QED
    BY <1>3, <1>4, <1>5, <2>1
<1> QED
  BY <1>1, <1>4, <1>6

(* What the sum over a range of positions computes. *)
LEMMA RangeSizeUnits ==
    ASSUME NEW txs, NEW i \in Nat, NEW j \in Nat,
           \A k \in i..j : TxSize(txs[k]) \in Nat
    PROVE  /\ IsFiniteSet(Units(txs, i..j))
           /\ RangeSize(txs, i, j) = Cardinality(Units(txs, i..j))
<1> DEFINE I == i..j
           pick(s) == CHOOSE x \in s : TRUE
           step(h) == [s \in SUBSET I |->
                          IF s = {} THEN 0
                          ELSE TxSize(txs[pick(s)]) + h[s \ {pick(s)}]]
           it == CHOOSE h : h = step(h)
           sum == [s \in SUBSET I |-> Cardinality(Units(txs, s))]
<1>1. IsFiniteSet(I) /\ I \in SUBSET Nat
  <2>1. i \in Int /\ j \in Int
    OBVIOUS
  <2> QED
    BY <2>1, FS_Interval
<1>2. Units(txs, {}) = {}
  BY DEF Units
<1>3. ASSUME NEW s \in SUBSET I, s # {} PROVE pick(s) \in s /\ s \ {pick(s)} \in SUBSET I
  BY <1>3
<1>4. \A s \in SUBSET I : IsFiniteSet(Units(txs, s))
  <2> DEFINE Q == {s \in SUBSET I : IsFiniteSet(Units(txs, s))}
  <2>1. {} \in Q
    BY <1>2, FS_EmptySet
  <2>2. ASSUME NEW s \in SUBSET I, s # {}, \A x \in s : s \ {x} \in Q PROVE s \in Q
    <3>1. PICK x \in s : TRUE
      BY <2>2
    <3>2. IsFiniteSet(Units(txs, s \ {x})) /\ TxSize(txs[x]) \in Nat /\ s \in SUBSET Nat
      BY <1>1, <2>2, <3>1
    <3>3. IsFiniteSet(Units(txs, s))
      BY <3>1, <3>2, UnitsAdd
    <3> QED
      BY <3>3
  <2> HIDE DEF Q, I
  <2>3. \A s \in SUBSET I : s \in Q
    BY <1>1, <2>1, <2>2, SubsetSteps
  <2> QED
    BY <2>3 DEF Q
<1>5. ASSUME NEW s \in SUBSET I, s # {}
      PROVE  sum[s] = TxSize(txs[pick(s)]) + sum[s \ {pick(s)}]
  <2>1. pick(s) \in s /\ s \ {pick(s)} \in SUBSET I
    BY <1>3, <1>5
  <2> DEFINE x == pick(s)
  <2>2. x \in s /\ s \ {x} \in SUBSET I
    BY <2>1
  <2> HIDE DEF x
  <2>3. TxSize(txs[x]) \in Nat /\ s \in SUBSET Nat
    BY <1>1, <2>2
  <2>4. IsFiniteSet(Units(txs, s \ {x}))
    BY <1>4, <2>2
  <2>5. Cardinality(Units(txs, s)) = TxSize(txs[x]) + Cardinality(Units(txs, s \ {x}))
    BY <2>2, <2>3, <2>4, UnitsAdd
  <2>6. sum[s] = TxSize(txs[x]) + sum[s \ {x}]
    BY <2>2, <2>5
  <2> QED
    BY <2>6 DEF x
<1>6. sum[{}] = 0 /\ DOMAIN sum = SUBSET I
  BY <1>2, FS_EmptySet
<1>7. sum = step(sum)
  <2> SUFFICES ASSUME NEW s \in SUBSET I PROVE sum[s] = step(sum)[s]
    BY Zenon
  <2>1. CASE s = {}
    BY <1>6, <2>1
  <2>2. CASE s # {}
    <3>1. step(sum)[s] = TxSize(txs[pick(s)]) + sum[s \ {pick(s)}]
      <4> HIDE DEF sum
      <4> QED
        BY <2>2
    <3> HIDE DEF sum, pick
    <3> QED
      BY <1>5, <2>2, <3>1
  <2> QED
    BY <2>1, <2>2
<1>8. it = step(it)
  <2> HIDE DEF step, sum
  <2> QED
    BY <1>7
<1>9. \A s \in SUBSET I : it[s] = sum[s]
  <2> DEFINE Q == {s \in SUBSET I : it[s] = sum[s]}
  <2>0. ASSUME NEW s \in SUBSET I
        PROVE  it[s] = IF s = {} THEN 0 ELSE TxSize(txs[pick(s)]) + it[s \ {pick(s)}]
    <3> HIDE DEF it
    <3>1. step(it)[s] = IF s = {} THEN 0 ELSE TxSize(txs[pick(s)]) + it[s \ {pick(s)}]
      BY Zenon
    <3> QED
      BY <1>8, <3>1, Zenon
  <2> HIDE DEF it, sum
  <2>1. {} \in Q
    BY <1>6, <2>0
  <2>2. ASSUME NEW s \in SUBSET I, s # {}, \A x \in s : s \ {x} \in Q PROVE s \in Q
    <3>1. pick(s) \in s
      BY <1>3, <2>2
    <3> HIDE DEF pick
    <3>2. s \ {pick(s)} \in Q
      BY <2>2, <3>1
    <3>3. it[s \ {pick(s)}] = sum[s \ {pick(s)}]
      BY <3>2
    <3>4. it[s] = TxSize(txs[pick(s)]) + it[s \ {pick(s)}]
      BY <2>0, <2>2
    <3>5. it[s] = sum[s]
      BY <1>5, <2>2, <3>3, <3>4
    <3> QED
      BY <3>5
  <2> HIDE DEF Q, I
  <2>3. \A s \in SUBSET I : s \in Q
    BY <1>1, <2>1, <2>2, SubsetSteps
  <2> QED
    BY <2>3 DEF Q
<1>10. RangeSize(txs, i, j) = it[I]
  BY RangeSizeFold, Zenon
<1>11. I \in SUBSET I
  OBVIOUS
<1>12. sum[I] = Cardinality(Units(txs, I))
  BY <1>11
<1>13. it[I] = sum[I]
  <2> HIDE DEF it, sum, I
  <2> QED
    BY <1>9, <1>11
<1>14. IsFiniteSet(Units(txs, I))
  BY <1>4, <1>11
<1> HIDE DEF it, sum
<1> QED
  BY <1>10, <1>12, <1>13, <1>14

(* Every transaction takes some room. *)
LEMMA TxSizeType ==
    ASSUME NEW tx \in Transactions
    PROVE  TxSize(tx) \in Nat /\ TxSize(tx) >= 1
<1>1. PICK k \in 1..MaxOps : tx.ops = [i \in 1..k |-> Cuid]
  BY DEF Transactions
<1>2. k \in Nat
  BY <1>1, PushBufferAssumption
<1>3. [i \in 1..k |-> Cuid] \in Seq({Cuid})
  BY <1>2
<1>4. Len(tx.ops) \in Nat
  BY <1>1, <1>3
<1> QED
  BY <1>4 DEF TxSize

(* A range adds up to a natural number, and to zero when it is empty. *)
LEMMA RangeSizeType ==
    ASSUME NEW txs \in Seq(Transactions), NEW i \in Nat, i >= 1,
           NEW j \in Nat, j <= Len(txs)
    PROVE  /\ RangeSize(txs, i, j) \in Nat
           /\ j < i => RangeSize(txs, i, j) = 0
           /\ IsFiniteSet(Units(txs, i..j))
           /\ RangeSize(txs, i, j) = Cardinality(Units(txs, i..j))
<1>1. \A k \in i..j : TxSize(txs[k]) \in Nat
  <2> SUFFICES ASSUME NEW k \in i..j PROVE TxSize(txs[k]) \in Nat
    OBVIOUS
  <2>1. k \in 1..Len(txs)
    OBVIOUS
  <2>2. txs[k] \in Transactions
    BY <2>1
  <2> QED
    BY <2>2, TxSizeType
<1>2. /\ IsFiniteSet(Units(txs, i..j))
      /\ RangeSize(txs, i, j) = Cardinality(Units(txs, i..j))
  BY <1>1, RangeSizeUnits
<1>3. RangeSize(txs, i, j) \in Nat
  BY <1>2, FS_CardinalityType
<1>4. ASSUME j < i PROVE RangeSize(txs, i, j) = 0
  <2>1. i..j = {}
    BY <1>4
  <2>2. Units(txs, i..j) = {}
    BY <2>1 DEF Units
  <2> QED
    BY <1>2, <2>2, FS_EmptySet
<1> QED
  BY <1>2, <1>3, <1>4

(* The running total of get_pushing_transactions: one more transaction adds *)
(* its own size.                                                            *)
LEMMA RangeSizeExtend ==
    ASSUME NEW txs \in Seq(Transactions), NEW i \in Nat, i >= 1,
           NEW j \in Nat, i <= j + 1, j + 1 <= Len(txs)
    PROVE  RangeSize(txs, i, j + 1) = RangeSize(txs, i, j) + TxSize(txs[j + 1])
<1> DEFINE m == j + 1
           s == i..m
<1>1. m \in s /\ s \in SUBSET Nat /\ s \ {m} = i..j /\ m \in Nat /\ m <= Len(txs) /\ j <= Len(txs)
  OBVIOUS
<1>2. txs[m] \in Transactions
  BY <1>1
<1>3. TxSize(txs[m]) \in Nat
  BY <1>2, TxSizeType
<1>4. IsFiniteSet(Units(txs, i..j)) /\ RangeSize(txs, i, j) = Cardinality(Units(txs, i..j)) /\ RangeSize(txs, i, j) \in Nat
  BY <1>1, RangeSizeType
<1>5. RangeSize(txs, i, m) = Cardinality(Units(txs, i..m))
  <2> HIDE DEF m
  <2> QED
    BY <1>1, RangeSizeType
<1>6. Cardinality(Units(txs, s)) = TxSize(txs[m]) + Cardinality(Units(txs, s \ {m}))
  <2>1. IsFiniteSet(Units(txs, s \ {m}))
    BY <1>1, <1>4
  <2>2. m \in s /\ s \in SUBSET Nat
    BY <1>1
  <2> HIDE DEF m, s
  <2> QED
    BY <1>3, <2>1, <2>2, UnitsAdd
<1>7. RangeSize(txs, i, m) = TxSize(txs[m]) + RangeSize(txs, i, j)
  BY <1>1, <1>4, <1>5, <1>6
<1> HIDE DEF m
<1>8. RangeSize(txs, i, m) = RangeSize(txs, i, j) + TxSize(txs[m])
  BY <1>3, <1>4, <1>7
<1> QED
  BY <1>8 DEF m

(* A range holds what its two parts hold. *)
LEMMA RangeSizeSplit ==
    ASSUME NEW txs \in Seq(Transactions), NEW i \in Nat, i >= 1,
           NEW j \in Nat, i <= j + 1, NEW m \in Nat, j <= m, m <= Len(txs)
    PROVE  RangeSize(txs, i, m) = RangeSize(txs, i, j) + RangeSize(txs, j + 1, m)
<1> DEFINE Q == {n \in Nat : j + n <= Len(txs) =>
                    RangeSize(txs, i, j + n) = RangeSize(txs, i, j) + RangeSize(txs, j + 1, j + n)}
<1>0. Len(txs) \in Nat /\ j + 1 \in Nat /\ j + 1 >= 1 /\ j <= Len(txs)
  OBVIOUS
<1>a. RangeSize(txs, i, j) \in Nat
  BY <1>0, RangeSizeType
<1>1. 0 \in Q
  <2>1. RangeSize(txs, j + 1, j) = 0
    BY <1>0, RangeSizeType
  <2>2. j + 0 = j
    OBVIOUS
  <2> QED
    BY <1>a, <2>1, <2>2
<1>2. ASSUME NEW n \in Nat, n \in Q PROVE n + 1 \in Q
  <2> SUFFICES ASSUME j + (n + 1) <= Len(txs)
               PROVE  RangeSize(txs, i, j + (n + 1)) = RangeSize(txs, i, j) + RangeSize(txs, j + 1, j + (n + 1))
    OBVIOUS
  <2> DEFINE k == j + n
  <2>1. k \in Nat /\ i <= k + 1 /\ k + 1 <= Len(txs) /\ j + 1 <= k + 1 /\ k <= Len(txs) /\ j + (n + 1) = k + 1
    BY <1>0
  <2>2. RangeSize(txs, i, k) = RangeSize(txs, i, j) + RangeSize(txs, j + 1, k)
    BY <1>2, <2>1
  <2> HIDE DEF k
  <2>3. RangeSize(txs, i, k + 1) = RangeSize(txs, i, k) + TxSize(txs[k + 1])
    BY <2>1, RangeSizeExtend
  <2>4. RangeSize(txs, j + 1, k + 1) = RangeSize(txs, j + 1, k) + TxSize(txs[k + 1])
    BY <1>0, <2>1, RangeSizeExtend
  <2>5. RangeSize(txs, j + 1, k) \in Nat
    BY <1>0, <2>1, RangeSizeType
  <2>6. TxSize(txs[k + 1]) \in Nat
    <3>1. txs[k + 1] \in Transactions
      BY <1>0, <2>1
    <3> QED
      BY <3>1, TxSizeType
  <2>7. RangeSize(txs, i, k + 1) = RangeSize(txs, i, j) + RangeSize(txs, j + 1, k + 1)
    BY <1>a, <2>2, <2>3, <2>4, <2>5, <2>6
  <2> QED
    BY <2>1, <2>7
<1>3. \A n \in Nat : n \in Q
  <2> HIDE DEF Q
  <2> QED
    BY <1>1, <1>2, NaturalSteps
<1>4. m - j \in Nat /\ j + (m - j) = m
  OBVIOUS
<1>5. m - j \in Q
  BY <1>3, <1>4
<1> QED
  BY <1>4, <1>5

(* The size depends on the transactions of the range only, not on where in  *)
(* a queue they are.                                                        *)
LEMMA RangeSizeShift ==
    ASSUME NEW t \in Seq(Transactions), NEW u \in Seq(Transactions), NEW d \in Nat,
           NEW m \in Nat, m <= Len(t), d + m <= Len(u),
           \A k \in 1..m : t[k] = u[d + k]
    PROVE  RangeSize(t, 1, m) = RangeSize(u, d + 1, d + m)
<1> DEFINE Q == {n \in Nat : n <= m => RangeSize(t, 1, n) = RangeSize(u, d + 1, d + n)}
<1>0. Len(t) \in Nat /\ Len(u) \in Nat /\ d + 1 \in Nat /\ d + 1 >= 1 /\ d <= Len(u)
  OBVIOUS
<1>1. 0 \in Q
  <2>1. RangeSize(t, 1, 0) = 0
    BY <1>0, RangeSizeType
  <2>2. RangeSize(u, d + 1, d) = 0
    BY <1>0, RangeSizeType
  <2>3. d + 0 = d
    OBVIOUS
  <2> QED
    BY <2>1, <2>2, <2>3
<1>2. ASSUME NEW n \in Nat, n \in Q PROVE n + 1 \in Q
  <2> SUFFICES ASSUME n + 1 <= m
               PROVE  RangeSize(t, 1, n + 1) = RangeSize(u, d + 1, d + (n + 1))
    OBVIOUS
  <2> DEFINE k == d + n
  <2>1. k \in Nat /\ d + 1 <= k + 1 /\ k + 1 <= Len(u) /\ d + (n + 1) = k + 1 /\ 1 <= n + 1 /\ n + 1 <= Len(t) /\ n <= m
    BY <1>0
  <2>2. RangeSize(t, 1, n) = RangeSize(u, d + 1, k)
    BY <1>2, <2>1
  <2>3. t[n + 1] = u[d + (n + 1)]
    BY <2>1
  <2> HIDE DEF k
  <2>4. RangeSize(u, d + 1, k + 1) = RangeSize(u, d + 1, k) + TxSize(u[k + 1])
    BY <1>0, <2>1, RangeSizeExtend
  <2>5. RangeSize(t, 1, n + 1) = RangeSize(t, 1, n) + TxSize(t[n + 1])
    BY <2>1, RangeSizeExtend
  <2> QED
    BY <2>1, <2>2, <2>3, <2>4, <2>5
<1>3. \A n \in Nat : n \in Q
  <2> HIDE DEF Q
  <2> QED
    BY <1>1, <1>2, NaturalSteps
<1>4. m \in Q
  BY <1>3
<1> QED
  BY <1>4

(* A part of a queue takes the room its positions take in the queue. *)
LEMMA SegmentSize ==
    ASSUME NEW u \in Seq(Transactions), NEW a \in Nat, a >= 1,
           NEW b \in Nat, a <= b + 1, b <= Len(u)
    PROVE  /\ SubSeq(u, a, b) \in Seq(Transactions)
           /\ Len(SubSeq(u, a, b)) = b - a + 1
           /\ \A k \in 1..(b - a + 1) : SubSeq(u, a, b)[k] = u[a + k - 1]
           /\ RangeSize(SubSeq(u, a, b), 1, b - a + 1) = RangeSize(u, a, b)
<1> DEFINE d == a - 1
           m == b - a + 1
           t == SubSeq(u, a, b)
<1>1. /\ a \in Int /\ b \in Int /\ d \in Nat /\ m \in Nat
      /\ d + 1 = a /\ d + m = b /\ d + m <= Len(u)
      /\ (IF a <= b THEN b - a + 1 ELSE 0) = m
      /\ \A k \in 1..m : a + k - 1 = d + k
  OBVIOUS
<1>2. \A k \in a..b : u[k] \in Transactions
  OBVIOUS
<1>3. /\ t \in Seq(Transactions)
      /\ Len(t) = IF a <= b THEN b - a + 1 ELSE 0
      /\ \A k \in 1..(b - a + 1) : t[k] = u[a + k - 1]
  BY <1>1, <1>2, SubSeqProperties
<1>4. t \in Seq(Transactions) /\ Len(t) = m /\ m <= Len(t)
  <2> HIDE DEF t
  <2> QED
    BY <1>1, <1>3
<1>5. \A k \in 1..m : t[k] = u[d + k]
  <2> HIDE DEF t
  <2> QED
    BY <1>1, <1>3
<1>6. RangeSize(t, 1, m) = RangeSize(u, d + 1, d + m)
  <2> HIDE DEF d, m, t
  <2> QED
    BY <1>1, <1>4, <1>5, RangeSizeShift
<1>7. RangeSize(t, 1, m) = RangeSize(u, a, b)
  <2> HIDE DEF d, m, t
  <2> QED
    BY <1>1, <1>6
<1> QED
  BY <1>3, <1>4, <1>7

(* A set of numbers from 1 on without a gap is as long as it is large. *)
LEMMA InitialSegment ==
    ASSUME NEW n \in Nat, NEW S \in SUBSET (1..n),
           \A k \in S : \A l \in 1..k : l \in S
    PROVE  Cardinality(S) \in 0..n /\ S = 1..Cardinality(S)
<1>1. IsFiniteSet(1..n)
  <2>1. 1 \in Int /\ n \in Int
    OBVIOUS
  <2> QED
    BY <2>1, FS_Interval
<1>2. IsFiniteSet(S) /\ S \in SUBSET Nat
  <2>1. IsFiniteSet(S)
    BY <1>1, FS_Subset
  <2> QED
    BY <2>1
<1>3. CASE S = {}
  <2>1. Cardinality(S) = 0
    BY <1>3, FS_EmptySet
  <2> QED
    BY <1>3, <2>1
<1>4. CASE S # {}
  <2>1. PICK m \in S : \A y \in S : y <= m
    BY <1>2, <1>4, FiniteMaximum
  <2>2. m \in 1..n
    OBVIOUS
  <2>3. S = 1..m
    <3>1. ASSUME NEW l \in 1..m PROVE l \in S
      OBVIOUS
    <3>2. ASSUME NEW l \in S PROVE l \in 1..m
      <4>1. l \in 1..n /\ l <= m
        BY <2>1
      <4> QED
        BY <2>2, <4>1
    <3> QED
      BY <3>1, <3>2
  <2>4. Cardinality(1..m) = m
    <3>1. 1 \in Int /\ m \in Int /\ ~(1 > m)
      BY <2>2
    <3>2. Cardinality(1..m) = IF 1 > m THEN 0 ELSE m - 1 + 1
      BY <3>1, FS_Interval
    <3> QED
      BY <3>1, <3>2
  <2> QED
    BY <2>2, <2>3, <2>4
<1> QED
  BY <1>3, <1>4

-----------------------------------------------------------------------------
(* An empty queue takes no room. *)
LEMMA NothingQueued ==
    <<>> \in Seq(Transactions) /\ Len(<<>>) = 0 /\ RangeSize(<<>>, 1, 0) = 0
<1> DEFINE e == <<>>
<1>1. e \in Seq(Transactions) /\ Len(e) = 0
  OBVIOUS
<1>2. 0 \in Nat /\ 0 <= Len(e) /\ 1 \in Nat /\ 1 >= 1 /\ 0 < 1
  BY <1>1
<1>3. RangeSize(e, 1, 0) = 0
  <2> HIDE DEF e
  <2> QED
    BY <1>1, <1>2, RangeSizeType
<1> QED
  BY <1>1, <1>3

(* The accounting part of the invariant: the buffer's record, and mem_size  *)
(* as the size of what is queued.                                           *)
MemInv == buf \in BufferType /\ MemAccounting

(* The initial buffer satisfies it. *)
LEMMA MemInvInit == Init => MemInv
<1> SUFFICES ASSUME Init PROVE MemInv
  OBVIOUS
<1>1. buf = EmptyBuffer /\ <<>> \in Seq(Transactions) /\ Len(<<>>) = 0
  BY DEF Init
<1>2. RangeSize(<<>>, 1, 0) = 0
  BY NothingQueued
<1>3. buf \in BufferType
  BY <1>1 DEF EmptyBuffer, BufferType
<1>4. buf.mem_size = 0 /\ buf.txs = <<>>
  BY <1>1 DEF EmptyBuffer
<1> QED
  BY <1>1, <1>2, <1>3, <1>4, PushBufferAssumption DEF MemInv, MemAccounting

(* enqueue adds the size of what it appends, and rejects what would exceed  *)
(* the limit.                                                               *)
LEMMA MemInvEnqueue ==
    ASSUME QueueInv, MemInv, NEW tx \in Transactions, EnqueueTx(tx)
    PROVE  MemInv'
<1> DEFINE t == Append(buf.txs, tx)
           m == Len(buf.txs)
<1>1. buf.txs \in Seq(Transactions) /\ buf.mem_size \in Nat /\ buf.first_cseq \in Nat
  BY DEF MemInv, BufferType
<1>2. tx.cseq \in Nat /\ TxSize(tx) \in Nat
  BY TransactionType, TxSizeType
<1>3. buf' = [txs |-> t, mem_size |-> buf.mem_size + TxSize(tx),
              first_cseq |-> IF buf.first_cseq = 0 THEN tx.cseq ELSE buf.first_cseq,
              last_cseq |-> tx.cseq]
  BY DEF EnqueueTx, Enqueue
<1>4. /\ t \in Seq(Transactions) /\ m \in Nat /\ Len(t) = m + 1
      /\ t[m + 1] = tx
      /\ \A k \in 1..m : t[k] = buf.txs[0 + k]
  BY <1>1
<1>5. buf.mem_size = RangeSize(buf.txs, 1, m)
  BY DEF MemInv, MemAccounting
<1>6. ~(buf.mem_size + TxSize(tx) > MaxMem)
  BY DEF EnqueueTx, CanEnqueue, ExceedsMaxMemSize
<1>7. buf'.txs = t /\ buf'.mem_size = buf.mem_size + TxSize(tx)
  BY <1>3
<1>8. buf' \in BufferType
  <2> HIDE DEF t
  <2> QED
    BY <1>1, <1>2, <1>3, <1>4 DEF BufferType
<1> HIDE DEF t
<1>9. RangeSize(t, 1, m) = RangeSize(buf.txs, 1, m)
  <2> DEFINE d == 0
             u == buf.txs
  <2>1. /\ d + m <= Len(u) /\ m <= Len(t) /\ d + m = m /\ d + 1 = 1
        /\ d \in Nat /\ m \in Nat /\ u \in Seq(Transactions) /\ t \in Seq(Transactions)
    BY <1>1, <1>4
  <2>2. \A k \in 1..m : t[k] = u[d + k]
    BY <1>4
  <2>3. RangeSize(t, 1, m) = RangeSize(u, d + 1, d + m)
    <3> HIDE DEF m, d, u
    <3> QED
      BY <2>1, <2>2, RangeSizeShift
  <2> QED
    BY <2>1, <2>3
<1>10. RangeSize(t, 1, m + 1) = RangeSize(t, 1, m) + TxSize(t[m + 1])
  <2> HIDE DEF m
  <2> QED
    BY <1>4, RangeSizeExtend
<1>11. buf'.mem_size = RangeSize(buf'.txs, 1, Len(buf'.txs))
  BY <1>4, <1>5, <1>7, <1>9, <1>10
<1>12. buf'.mem_size <= MaxMem
  BY <1>1, <1>2, <1>6, <1>7, PushBufferAssumption
<1> QED
  BY <1>8, <1>11, <1>12 DEF MemInv, MemAccounting

(* deque takes off the size of exactly what it pops. *)
LEMMA MemInvDeque ==
    ASSUME QueueInv, MemInv, NEW upto \in Nat, DequeUpto(upto)
    PROVE  MemInv'
<1> DEFINE n == DequeCount(buf, upto)
           m == Len(buf.txs)
           rest == SubSeq(buf.txs, n + 1, m)
<1>1. /\ buf.txs \in Seq(Transactions) /\ m \in Nat
      /\ buf.mem_size \in Nat /\ buf.last_cseq \in Nat
      /\ buf.mem_size = RangeSize(buf.txs, 1, m) /\ buf.mem_size <= MaxMem
  BY DEF MemInv, MemAccounting, BufferType
<1>2. n \in 0..m
  BY DequeCountBound DEF QueueInv
<1>3. /\ rest \in Seq(Transactions) /\ Len(rest) = m - n
      /\ \A k \in 1..(m - n) : rest[k] = buf.txs[n + k]
  BY <1>1, <1>2, SMTT(30)
<1>4. buf' = IF n = 0 THEN buf
             ELSE IF rest = <<>> THEN EmptyBuffer
             ELSE [txs        |-> rest,
                   mem_size   |-> buf.mem_size - RangeSize(buf.txs, 1, n),
                   first_cseq |-> rest[1].cseq,
                   last_cseq  |-> buf.last_cseq]
  BY DEF DequeUpto, Deque
<1> HIDE DEF n, rest
<1>5. CASE n = 0
  BY <1>4, <1>5 DEF MemInv, MemAccounting
<1>6. CASE n # 0 /\ rest = <<>>
  <2>1. buf' = EmptyBuffer /\ <<>> \in Seq(Transactions) /\ Len(<<>>) = 0
    BY <1>4, <1>6
  <2>2. RangeSize(<<>>, 1, 0) = 0
    BY NothingQueued
  <2>3. buf' \in BufferType
    BY <2>1 DEF EmptyBuffer, BufferType
  <2>4. buf'.mem_size = 0 /\ buf'.txs = <<>>
    BY <2>1 DEF EmptyBuffer
  <2> QED
    BY <2>1, <2>2, <2>3, <2>4, PushBufferAssumption DEF MemInv, MemAccounting
<1>7. CASE n # 0 /\ rest # <<>>
  <2> DEFINE left == buf.mem_size - RangeSize(buf.txs, 1, n)
  <2>1. buf' = [txs |-> rest, mem_size |-> left,
                first_cseq |-> rest[1].cseq, last_cseq |-> buf.last_cseq]
    BY <1>4, <1>7
  <2>2. Len(rest) >= 1 /\ Len(rest) \in Nat
    BY <1>3, <1>7
  <2>3. rest[1].cseq \in Nat
    <3>1. rest[1] \in Transactions
      BY <1>3, <2>2
    <3> QED
      BY <3>1, TransactionType
  <2> HIDE DEF m
  <2>4. RangeSize(buf.txs, 1, m) = RangeSize(buf.txs, 1, n) + RangeSize(buf.txs, n + 1, m)
    <3>1. n \in Nat /\ 1 <= n + 1 /\ n <= m /\ m <= Len(buf.txs) /\ 1 \in Nat /\ 1 >= 1
      BY <1>1, <1>2 DEF m
    <3> QED
      BY <1>1, <3>1, RangeSizeSplit
  <2>5. RangeSize(rest, 1, m - n) = RangeSize(buf.txs, n + 1, m)
    <3>1. n \in Nat /\ m - n \in Nat /\ n + (m - n) = m /\ m - n <= Len(rest) /\ m <= Len(buf.txs)
      BY <1>1, <1>2, <1>3 DEF m
    <3> DEFINE d == m - n
    <3>2. d \in Nat /\ n + d = m /\ d <= Len(rest) /\ n + d <= Len(buf.txs)
      BY <3>1
    <3> DEFINE u == buf.txs
    <3>3. \A k \in 1..d : rest[k] = u[n + k]
      BY <1>3
    <3>a. u \in Seq(Transactions) /\ rest \in Seq(Transactions) /\ n \in Nat /\ n + d <= Len(u)
      BY <1>1, <1>3, <3>1, <3>2
    <3> HIDE DEF d, u
    <3>b. RangeSize(rest, 1, d) = RangeSize(u, n + 1, n + d)
      BY <3>2, <3>3, <3>a, RangeSizeShift
    <3>4. RangeSize(rest, 1, d) = RangeSize(buf.txs, n + 1, n + d)
      BY <3>b DEF u
    <3>5. RangeSize(rest, 1, d) = RangeSize(buf.txs, n + 1, m)
      BY <3>2, <3>4
    <3> QED
      BY <3>5 DEF d
  <2>6. RangeSize(buf.txs, 1, n) \in Nat /\ RangeSize(buf.txs, n + 1, m) \in Nat
    <3>1. n \in Nat /\ n + 1 \in Nat /\ n + 1 >= 1 /\ n <= Len(buf.txs) /\ m <= Len(buf.txs) /\ m \in Nat
      BY <1>1, <1>2 DEF m
    <3> QED
      BY <1>1, <3>1, RangeSizeType
  <2>7. left = RangeSize(buf.txs, n + 1, m) /\ left \in Nat /\ left <= MaxMem
    BY <1>1, <2>4, <2>6, PushBufferAssumption
  <2> HIDE DEF left
  <2>8. buf' \in BufferType
    BY <1>1, <1>3, <2>1, <2>3, <2>7 DEF BufferType
  <2>9. buf'.txs = rest /\ buf'.mem_size = left
    BY <2>1
  <2> QED
    BY <1>3, <2>5, <2>7, <2>8, <2>9 DEF MemInv, MemAccounting
<1> QED
  BY <1>5, <1>6, <1>7

(* The accounting part of the invariant holds in every reachable state. *)
THEOREM MemInvariant == Spec => []MemInv
<1>1. QueueInv /\ MemInv /\ [Next]_vars => MemInv'
  <2> SUFFICES ASSUME QueueInv, MemInv, [Next]_vars PROVE MemInv'
    OBVIOUS
  <2>1. CASE \E tx \in Transactions : EnqueueTx(tx)
    BY <2>1, MemInvEnqueue
  <2>2. CASE \E upto \in 0..(MaxCseq + 1) : DequeUpto(upto)
    BY <2>2, MemInvDeque, PushBufferAssumption
  <2>3. CASE UNCHANGED vars
    BY <2>3 DEF vars, MemInv, MemAccounting
  <2> QED
    BY <2>1, <2>2, <2>3 DEF Next
<1> QED
  BY <1>1, MemInvInit, QueueInvariant, PTL DEF Spec

(* mem_size, adjusted incrementally by enqueue and deque, is the exact size *)
(* of what is queued and within the limit, for every limit and every mix of *)
(* accepted and rejected enqueues and partial, exact and excess deques.     *)
THEOREM MemAccountingAlways == Spec => []MemAccounting
<1>1. MemInv => MemAccounting
  BY DEF MemInv
<1> QED
  BY <1>1, MemInvariant, PTL

(* Type correctness: deque never takes mem_size below zero. *)
THEOREM TypeCorrect == Spec => []TypeOK
<1>1. QueueInv /\ MemInv => TypeOK
  BY DEF QueueInv, QueueType, MemInv, TypeOK
<1> QED
  BY <1>1, QueueInvariant, MemInvariant, PTL

(* get_pushing_transactions from any cseq that is not rejected: the sizes   *)
(* that fit are an initial segment, so the batch is the longest run of      *)
(* queued transactions from that cseq on that fits.                         *)
LEMMA BatchOfQueue ==
    ASSUME QueueInv, MemInv, NEW cseq \in Nat, cseq >= 1, NEW max \in Nat,
           ~CannotPushFrom(buf, cseq),
           NEW batch, batch = PushingTransactions(buf, cseq, max),
           NEW due, due = {i \in DOMAIN buf.txs : buf.txs[i].cseq >= cseq}
    PROVE  /\ Len(batch) <= Cardinality(due)
           /\ \A i \in DOMAIN batch :
                  \E j \in due : /\ batch[i] = buf.txs[j]
                                 /\ batch[i].cseq = cseq + i - 1
           /\ RangeSize(batch, 1, Len(batch)) <= max
           /\ \A j \in due :
                  buf.txs[j].cseq = cseq + Len(batch) =>
                      RangeSize(batch, 1, Len(batch)) + TxSize(buf.txs[j]) > max
<1> DEFINE txs == buf.txs
           m == Len(txs)
           x == cseq - buf.first_cseq
<1>1. /\ txs \in Seq(Transactions) /\ m \in Nat /\ DOMAIN txs = 1..m
      /\ buf.first_cseq \in Nat /\ x \in Nat /\ cseq = buf.first_cseq + x
  BY DEF QueueInv, QueueType, CannotPushFrom
<1>2. \A k \in 1..m : txs[k].cseq = buf.first_cseq + k - 1
  BY <1>1 DEF QueueInv, Contiguous
<1>3. due = {k \in 1..m : k >= x + 1}
  <2>1. \A k \in 1..m : txs[k].cseq >= cseq <=> k >= x + 1
    <3> HIDE DEF x, m
    <3> QED
      BY <1>1, <1>2, SMTT(30)
  <2> QED
    BY <1>1, <2>1
<1>4. batch = IF m <= x THEN <<>>
              ELSE SubSeq(txs, x + 1, x + FittingCount(txs, x, max))
  BY DEF PushingTransactions
<1> HIDE DEF x, m, txs
<1>5. CASE m <= x
  <2>1. batch = <<>> /\ <<>> \in Seq(Transactions) /\ Len(<<>>) = 0 /\ DOMAIN <<>> = {}
    BY <1>4, <1>5
  <2>2. RangeSize(<<>>, 1, 0) = 0
    BY NothingQueued
  <2>3. due = {}
    BY <1>1, <1>3, <1>5
  <2> QED
    <3>1. Cardinality(due) = 0
      BY <2>3, FS_EmptySet
    <3>2. Len(batch) = 0 /\ RangeSize(batch, 1, Len(batch)) = 0 /\ DOMAIN batch = {}
      BY <2>1, <2>2
    <3> QED
      BY <2>3, <3>1, <3>2
<1>6. CASE ~(m <= x)
  <2> DEFINE S == {k \in 1..(m - x) : RangeSize(txs, x + 1, x + k) <= max}
             K == Cardinality(S)
  <2>1. m - x \in Nat /\ x + 1 \in Nat /\ x + 1 >= 1 /\ m = Len(txs)
    BY <1>1, <1>6 DEF m
  <2>2. ASSUME NEW k \in S, NEW l \in 1..k PROVE l \in S
    <3>1. /\ k \in Nat /\ l \in Nat /\ l <= k /\ k <= m - x /\ l \in 1..(m - x)
          /\ x + l \in Nat /\ x + k \in Nat /\ x + 1 <= (x + l) + 1 /\ x + l <= x + k /\ x + k <= m
          /\ x + l <= m /\ (x + l) + 1 >= 1 /\ (x + l) + 1 \in Nat
      BY <1>1, <2>1
    <3>2. RangeSize(txs, x + 1, x + k) <= max
      OBVIOUS
    <3> DEFINE a == x + k
               b == x + l
    <3>3. a \in Nat /\ b \in Nat /\ x + 1 <= b + 1 /\ b <= a /\ a <= Len(txs) /\ b <= Len(txs) /\ b + 1 \in Nat /\ b + 1 >= 1
      BY <2>1, <3>1
    <3>4. RangeSize(txs, x + 1, a) <= max
      BY <3>2
    <3> HIDE DEF a, b, S
    <3>5. RangeSize(txs, x + 1, a) = RangeSize(txs, x + 1, b) + RangeSize(txs, b + 1, a)
      BY <1>1, <2>1, <3>3, RangeSizeSplit
    <3>6. RangeSize(txs, x + 1, b) \in Nat /\ RangeSize(txs, b + 1, a) \in Nat
      BY <1>1, <2>1, <3>3, RangeSizeType
    <3>7. RangeSize(txs, x + 1, b) <= max
      BY <3>4, <3>5, <3>6
    <3> QED
      BY <3>1, <3>7 DEF S, b
  <2>3. K \in 0..(m - x) /\ S = 1..K
    <3> DEFINE N == m - x
    <3>1. N \in Nat /\ S \in SUBSET (1..N)
      BY <2>1
    <3> HIDE DEF S, N
    <3>2. Cardinality(S) \in 0..N /\ S = 1..Cardinality(S)
      BY <2>2, <3>1, InitialSegment
    <3> QED
      BY <3>2 DEF N
  <2>4. FittingCount(txs, x, max) = K
    BY <2>1 DEF FittingCount
  <2>4a. \A k \in 1..(m - x) : k \in S <=> RangeSize(txs, x + 1, x + k) <= max
    OBVIOUS
  <2> HIDE DEF S, K
  <2>5. K \in Nat /\ K <= m - x /\ x + K \in Nat /\ x + K <= m /\ x + 1 <= (x + K) + 1
    BY <1>1, <2>1, <2>3
  <2>6. batch = SubSeq(txs, x + 1, x + K)
    BY <1>4, <1>6, <2>4
  <2>7. /\ batch \in Seq(Transactions) /\ Len(batch) = K /\ DOMAIN batch = 1..K
        /\ \A k \in 1..K : batch[k] = txs[x + k]
        /\ RangeSize(batch, 1, K) = RangeSize(txs, x + 1, x + K)
    <3> DEFINE a == x + 1
               b == x + K
    <3>1. /\ a \in Nat /\ b \in Nat /\ a >= 1 /\ a <= b + 1 /\ b <= Len(txs)
          /\ b - a + 1 = K /\ \A k \in 1..K : a + k - 1 = x + k
      BY <1>1, <2>1, <2>5
    <3>2. batch = SubSeq(txs, a, b)
      BY <2>6
    <3> HIDE DEF a, b
    <3>3. /\ batch \in Seq(Transactions) /\ Len(batch) = b - a + 1
          /\ \A k \in 1..(b - a + 1) : batch[k] = txs[a + k - 1]
          /\ RangeSize(batch, 1, b - a + 1) = RangeSize(txs, a, b)
      <4>1. /\ txs \in Seq(Transactions) /\ a \in Nat /\ a >= 1
            /\ b \in Nat /\ a <= b + 1 /\ b <= Len(txs)
        BY <1>1, <3>1
      <4>2. /\ SubSeq(txs, a, b) \in Seq(Transactions)
            /\ Len(SubSeq(txs, a, b)) = b - a + 1
            /\ \A k \in 1..(b - a + 1) : SubSeq(txs, a, b)[k] = txs[a + k - 1]
            /\ RangeSize(SubSeq(txs, a, b), 1, b - a + 1) = RangeSize(txs, a, b)
        BY ONLY <4>1, SegmentSize
      <4> QED
        BY <3>2, <4>2
    <3>4. DOMAIN batch = 1..Len(batch)
      BY <3>3
    <3>5. \A k \in 1..K : batch[k] = txs[x + k]
      BY <3>1, <3>3
    <3>6. RangeSize(batch, 1, K) = RangeSize(txs, a, b)
      BY <3>1, <3>3
    <3> QED
      BY <3>1, <3>3, <3>4, <3>5, <3>6 DEF a, b
  <2>9. RangeSize(txs, x + 1, x + K) <= max
    <3>1. CASE K = 0
      <4>1. x + K < x + 1
        BY <1>1, <2>5, <3>1
      <4>2. RangeSize(txs, x + 1, x + K) = 0
        BY <1>1, <2>1, <2>5, <4>1, RangeSizeType
      <4> QED
        BY <4>2
    <3>2. CASE K # 0
      <4>1. K \in 1..K /\ K \in 1..(m - x)
        BY <2>1, <2>5, <3>2
      <4>2. K \in S
        BY <2>3, <4>1
      <4> QED
        BY <2>4a, <4>1, <4>2
    <3> QED
      BY <3>1, <3>2
  <2>10. Cardinality(due) = m - x
    <3>1. due = (x + 1)..m
      BY <1>1, <1>3, <2>1
    <3>2. x + 1 \in Int /\ m \in Int /\ ~(x + 1 > m) /\ m - (x + 1) + 1 = m - x
      BY <1>1, <1>6
    <3>3. Cardinality((x + 1)..m) = IF x + 1 > m THEN 0 ELSE m - (x + 1) + 1
      BY <3>2, FS_Interval
    <3> QED
      BY <3>1, <3>2, <3>3
  <2>11. ASSUME NEW k \in 1..K
         PROVE  \E j \in due : batch[k] = buf.txs[j] /\ batch[k].cseq = cseq + k - 1
    <3>1. x + k \in 1..m /\ x + k >= x + 1
      BY <1>1, <2>5
    <3>2. batch[k] = txs[x + k] /\ txs[x + k].cseq = buf.first_cseq + (x + k) - 1
      BY <1>2, <2>7, <3>1
    <3>3. buf.first_cseq + (x + k) - 1 = cseq + k - 1
      BY <1>1, <3>1
    <3>4. x + k \in due
      BY <1>3, <3>1
    <3> QED
      BY <3>2, <3>3, <3>4 DEF txs
  <2>12. ASSUME NEW j \in due, txs[j].cseq = cseq + K
         PROVE  RangeSize(txs, x + 1, x + K) + TxSize(txs[j]) > max
    <3>1. j \in 1..m /\ txs[j].cseq = buf.first_cseq + j - 1
      BY <1>2, <1>3
    <3>2. j = (x + K) + 1
      BY <1>1, <2>5, <2>12, <3>1
    <3>3. K + 1 \in 1..(m - x) /\ x + (K + 1) = (x + K) + 1 /\ K + 1 \notin 1..K
      BY <1>1, <2>1, <2>5, <3>1, <3>2
    <3>4. ~(RangeSize(txs, x + 1, x + (K + 1)) <= max)
      BY <2>3, <2>4a, <3>3
    <3> DEFINE b == x + K
    <3>5. b \in Nat /\ x + 1 <= b + 1 /\ b + 1 <= Len(txs) /\ j = b + 1 /\ b <= Len(txs) /\ b + 1 \in Nat
      BY <1>1, <2>1, <2>5, <3>1, <3>2
    <3>6. ~(RangeSize(txs, x + 1, b + 1) <= max)
      BY <3>3, <3>4
    <3> HIDE DEF b
    <3>7. RangeSize(txs, x + 1, b + 1) = RangeSize(txs, x + 1, b) + TxSize(txs[b + 1])
      BY <1>1, <2>1, <3>5, RangeSizeExtend
    <3>8. RangeSize(txs, x + 1, b + 1) \in Nat
      BY <1>1, <2>1, <3>5, RangeSizeType
    <3>9. RangeSize(txs, x + 1, b) + TxSize(txs[j]) > max
      BY <3>5, <3>6, <3>7, <3>8
    <3> QED
      BY <3>9 DEF b
  <2>13. Len(batch) <= Cardinality(due)
    BY <2>5, <2>7, <2>10
  <2>14. RangeSize(batch, 1, Len(batch)) <= max
    BY <2>7, <2>9
  <2>15. \A j \in due : buf.txs[j].cseq = cseq + Len(batch) =>
                RangeSize(batch, 1, Len(batch)) + TxSize(buf.txs[j]) > max
    BY <2>7, <2>12 DEF txs
  <2> QED
    BY <2>7, <2>11, <2>13, <2>14, <2>15
<1> QED
  BY <1>5, <1>6

(* A push batch is exactly what get_pushing_transactions promises: the      *)
(* queued transactions from the asked cseq on, without a gap, within the    *)
(* transmission limit, and as many of them as fit.                          *)
THEOREM BatchExactAlways == Spec => []BatchExact
<1>1. QueueInv /\ MemInv => BatchExact
  <2> SUFFICES ASSUME QueueInv, MemInv, NEW cseq \in 1..(MaxCseq + 1), NEW max \in 0..MaxMem,
                      ~CannotPushFrom(buf, cseq)
               PROVE  LET batch == PushingTransactions(buf, cseq, max)
                          due   == {i \in DOMAIN buf.txs : buf.txs[i].cseq >= cseq}
                      IN  /\ Len(batch) <= Cardinality(due)
                          /\ \A i \in DOMAIN batch :
                                 \E j \in due : /\ batch[i] = buf.txs[j]
                                                /\ batch[i].cseq = cseq + i - 1
                          /\ RangeSize(batch, 1, Len(batch)) <= max
                          /\ \A j \in due :
                                 buf.txs[j].cseq = cseq + Len(batch) =>
                                     RangeSize(batch, 1, Len(batch)) + TxSize(buf.txs[j]) > max
    BY DEF BatchExact
  <2>1. cseq \in Nat /\ cseq >= 1 /\ max \in Nat
    BY PushBufferAssumption
  <2> QED
    BY <2>1, BatchOfQueue
<1> QED
  BY <1>1, QueueInvariant, MemInvariant, PTL
=============================================================================
