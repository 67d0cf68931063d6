-------------------------- MODULE SyncExactProofs --------------------------
(*****************************************************************************)
(* What a replica holds in an orderly environment, where transactions roll   *)
(* back and exchanges of Subscribed datatypes are lost, but nobody           *)
(* unsubscribes or subscribes late and no response meets an open             *)
(* transaction: the history up to its checkpoint and its own operations,     *)
(* each exactly once.  Replicas in sync at the same point of the history are *)
(* therefore equal, and PullHandler meets no response that it panics at.     *)
(*                                                                           *)
(* Then release builds of sheltered environments, where users also           *)
(* unsubscribe: there, too, no response meets a datatype it panics at.       *)
(*                                                                           *)
(* The last part is about every environment: what the other proofs of the    *)
(* protocol leave open of the types.                                         *)
(*****************************************************************************)
EXTENDS SyncProtocolProofs

(* Induction over the natural numbers, for membership in a set. *)
LEMMA NaturalSteps ==
    ASSUME NEW S, 0 \in S, \A n \in Nat : n \in S => n + 1 \in S
    PROVE  \A n \in Nat : n \in S
<1> DEFINE B == {n \in Nat : n \notin S}
           R == OpToRel(<, Nat)
<1> SUFFICES ASSUME B # {} PROVE FALSE
  OBVIOUS
<1>1. PICK x \in B : \A y \in B : <<y, x>> \notin R
  <2>1. B \subseteq Nat /\ IsWellFoundedOn(R, Nat)
    BY NatLessThanWellFounded
  <2> HIDE DEF B, R
  <2> QED
    BY <2>1, WFMin
<1>2. x \in Nat /\ x \notin S
  OBVIOUS
<1>3. x # 0 /\ x - 1 \in Nat /\ (x - 1) + 1 = x /\ x - 1 < x
  BY ONLY <1>2, 0 \in S
<1>4. x - 1 \in B
  BY <1>3
<1>5. <<x - 1, x>> \in R
  BY <1>3 DEF OpToRel
<1> QED
  BY <1>1, <1>4, <1>5

(* How often an operation occurs is a number, and none if it does not. *)
LEMMA OpCountFacts ==
    ASSUME NEW O, NEW ops \in Seq(O), NEW o
    PROVE  /\ IsFiniteSet({i \in DOMAIN ops : ops[i] = o})
           /\ OpCount(ops, o) \in Nat
           /\ (\A i \in 1..Len(ops) : ops[i] # o) => OpCount(ops, o) = 0
<1> DEFINE D == {i \in DOMAIN ops : ops[i] = o}
<1>1. Len(ops) \in Nat /\ D \in SUBSET (1..Len(ops))
  OBVIOUS
<1>2. OpCount(ops, o) = Cardinality(D)
  BY DEF OpCount
<1>3. IsFiniteSet(1..Len(ops))
  BY <1>1, FS_Interval
<1>4. (\A i \in 1..Len(ops) : ops[i] # o) => D = {}
  OBVIOUS
<1> HIDE DEF D
<1>5. IsFiniteSet(D)
  BY <1>1, <1>3, FS_Subset
<1>6. Cardinality(D) \in Nat
  BY <1>5, FS_CardinalityType
<1> QED
  BY <1>2, <1>4, <1>5, <1>6, FS_EmptySet DEF D

(* One more operation. *)
LEMMA OpCountAppend ==
    ASSUME NEW O, NEW ops \in Seq(O), NEW x \in O, NEW o
    PROVE  OpCount(Append(ops, x), o) = OpCount(ops, o) + (IF x = o THEN 1 ELSE 0)
<1> DEFINE D == {i \in DOMAIN ops : ops[i] = o}
           n == Len(ops) + 1
           E == {i \in DOMAIN Append(ops, x) : Append(ops, x)[i] = o}
<1>1. OpCount(ops, o) = Cardinality(D) /\ OpCount(Append(ops, x), o) = Cardinality(E)
  BY DEF OpCount
<1>2. IsFiniteSet(D) /\ Cardinality(D) \in Nat
  BY <1>1, OpCountFacts
<1>3. n \notin D
  OBVIOUS
<1>4. E = IF x = o THEN D \cup {n} ELSE D
  <2>1. DOMAIN Append(ops, x) = 1..n /\ DOMAIN ops = 1..Len(ops) /\ Len(ops) \in Nat
    OBVIOUS
  <2>2. \A i \in 1..n : Append(ops, x)[i] = IF i = n THEN x ELSE ops[i]
    OBVIOUS
  <2>3. 1..n = (1..Len(ops)) \cup {n}
    BY <2>1
  <2> QED
    BY <2>1, <2>2, <2>3
<1> HIDE DEF D, E, n
<1>5. Cardinality(D \cup {n}) = Cardinality(D) + 1
  BY <1>2, <1>3, FS_AddElement
<1> QED
  BY ONLY <1>1, <1>2, <1>4, <1>5

(* A transaction of one operation. *)
LEMMA OpCountOne ==
    ASSUME NEW x, NEW o
    PROVE  /\ OpCount(<<>>, o) = 0
           /\ OpCount(<<x>>, o) = (IF x = o THEN 1 ELSE 0)
<1> DEFINE e == <<>>
           O == {x}
<1>1. e \in Seq(O) /\ x \in O
  OBVIOUS
<1>a. Append(e, x) = <<x>>
  OBVIOUS
<1>2. \A i \in 1..Len(e) : e[i] # o
  OBVIOUS
<1> HIDE DEF e, O
<1>3. OpCount(e, o) = 0
  BY ONLY <1>1, <1>2, OpCountFacts
<1>4. OpCount(Append(e, x), o) = OpCount(e, o) + (IF x = o THEN 1 ELSE 0)
  BY ONLY <1>1, OpCountAppend
<1>5. OpCount(<<x>>, o) = (IF x = o THEN 1 ELSE 0)
  BY ONLY <1>a, <1>3, <1>4
<1> QED
  BY <1>3, <1>5 DEF e

(* Where in a sequence of transactions an operation occurs. *)
Spots(txs, o) ==
    UNION {{i} \X {j \in DOMAIN txs[i].ops : txs[i].ops[j] = o} : i \in DOMAIN txs}

(* The operations of a transaction are a sequence. *)
LEMMA TransactionOps ==
    ASSUME NEW txs \in Seq(Transactions), NEW i \in 1..Len(txs)
    PROVE  txs[i] \in Transactions /\ txs[i].ops \in Seq(Origins)
<1>1. txs[i] \in Transactions
  BY ElementOfSeq
<1> QED
  BY ONLY <1>1 DEF Transactions

(* How often an operation occurs in transactions is a number, and none if   *)
(* it occurs in none.                                                       *)
LEMMA TxsCountFacts ==
    ASSUME NEW txs \in Seq(Transactions), NEW o
    PROVE  /\ IsFiniteSet(Spots(txs, o))
           /\ TxsCount(txs, o) = Cardinality(Spots(txs, o))
           /\ TxsCount(txs, o) \in Nat
           /\ (\A i \in 1..Len(txs) : \A j \in 1..Len(txs[i].ops) : txs[i].ops[j] # o) =>
                 TxsCount(txs, o) = 0
<1> DEFINE P(i) == {j \in DOMAIN txs[i].ops : txs[i].ops[j] = o}
           F == [i \in DOMAIN txs |-> {i} \X P(i)]
           U == {F[i] : i \in DOMAIN txs}
<1>1. Spots(txs, o) = UNION U
  BY DEF Spots
<1>2. DOMAIN txs = 1..Len(txs) /\ Len(txs) \in Nat
  OBVIOUS
<1>3. ASSUME NEW i \in DOMAIN txs PROVE IsFiniteSet(F[i])
  <2>1. txs[i].ops \in Seq(Origins)
    BY <1>2, TransactionOps
  <2>2. IsFiniteSet(P(i))
    BY <2>1, OpCountFacts
  <2>3. IsFiniteSet({i})
    BY FS_Singleton
  <2> HIDE DEF P
  <2>4. IsFiniteSet({i} \X P(i))
    BY <2>2, <2>3, FS_Product
  <2> QED
    BY <2>4
<1>4. IsFiniteSet(DOMAIN txs)
  BY <1>2, FS_Interval
<1>5. F \in Surjection(DOMAIN txs, U)
  BY DEF Surjection
<1>6. \A T \in U : IsFiniteSet(T)
  BY <1>3
<1>7. IsFiniteSet(UNION U)
  <2> HIDE DEF F, U
  <2>1. IsFiniteSet(U)
    BY <1>4, <1>5, FS_Surjection
  <2> QED
    BY <1>6, <2>1, FS_UNION
<1>8. TxsCount(txs, o) = Cardinality(Spots(txs, o))
  BY DEF TxsCount, Spots
<1>9. Cardinality(Spots(txs, o)) \in Nat
  BY <1>1, <1>7, FS_CardinalityType
<1>10. ASSUME \A i \in 1..Len(txs) : \A j \in 1..Len(txs[i].ops) : txs[i].ops[j] # o
       PROVE  Spots(txs, o) = {}
  <2>1. ASSUME NEW i \in DOMAIN txs PROVE P(i) = {}
    <3>1. txs[i].ops \in Seq(Origins)
      BY <1>2, TransactionOps
    <3> QED
      BY <1>2, <1>10, <3>1
  <2>2. \A i \in DOMAIN txs : {i} \X P(i) = {}
    BY <2>1
  <2> QED
    BY <2>2 DEF Spots
<1> QED
  BY <1>1, <1>7, <1>8, <1>9, <1>10, FS_EmptySet

(* One more transaction. *)
LEMMA TxsCountAppend ==
    ASSUME NEW txs \in Seq(Transactions), NEW tx \in Transactions, NEW o
    PROVE  TxsCount(Append(txs, tx), o) = TxsCount(txs, o) + OpCount(tx.ops, o)
<1> DEFINE n == Len(txs) + 1
           more == Append(txs, tx)
           P == {j \in DOMAIN tx.ops : tx.ops[j] = o}
           A == Spots(txs, o)
           B == {n} \X P
<1>1. more \in Seq(Transactions) /\ tx.ops \in Seq(Origins)
  BY DEF Transactions
<1>2. IsFiniteSet(A) /\ TxsCount(txs, o) = Cardinality(A) /\ Cardinality(A) \in Nat
  BY TxsCountFacts
<1>3. TxsCount(more, o) = Cardinality(Spots(more, o))
  BY <1>1, TxsCountFacts
<1>4. IsFiniteSet(P) /\ OpCount(tx.ops, o) = Cardinality(P) /\ Cardinality(P) \in Nat
  BY <1>1, OpCountFacts DEF OpCount
<1>5. IsFiniteSet(B) /\ Cardinality(B) = Cardinality(P)
  <2>1. IsFiniteSet({n}) /\ Cardinality({n}) = 1
    BY FS_Singleton
  <2> HIDE DEF P, n
  <2> QED
    BY <1>4, <2>1, FS_Product
<1>6. DOMAIN more = (DOMAIN txs) \cup {n} /\ n \notin DOMAIN txs /\ more[n] = tx
      /\ \A i \in DOMAIN txs : more[i] = txs[i]
  OBVIOUS
<1>7. Spots(more, o) = A \cup B
  <2> HIDE DEF more, n
  <2> QED
    BY <1>6 DEF Spots
<1>8. A \cap B = {}
  <2> HIDE DEF n
  <2> QED
    BY <1>6 DEF Spots
<1> HIDE DEF A, B, P, n
<1>9. Cardinality(A \cap B) = 0 /\ Cardinality(A \cup B) = Cardinality(A) + Cardinality(B) - Cardinality(A \cap B)
  BY <1>2, <1>5, <1>8, FS_EmptySet, FS_Union
<1> QED
  BY <1>2, <1>3, <1>4, <1>5, <1>7, <1>9 DEF more

-----------------------------------------------------------------------------
(* How many of the first n transactions of a history are client c's. *)
OwnCount(h, c, n) == Cardinality({j \in 1..n : h[j].cuid = c})

(* How often an operation occurs in the first n transactions. *)
Upto(h, n, o) == TxsCount(SubSeq(h, 1, n), o)

(* The beginning of a history is one. *)
LEMMA Beginning ==
    ASSUME NEW h \in Seq(Transactions), NEW n \in Nat, n <= Len(h)
    PROVE  /\ SubSeq(h, 1, n) \in Seq(Transactions) /\ Len(SubSeq(h, 1, n)) = n
           /\ \A i \in 1..n : SubSeq(h, 1, n)[i] = h[i]
<1>1. 1 \in Nat /\ Len(h) \in Nat
  OBVIOUS
<1>2. \A i \in 1..n : h[i] \in Transactions
  BY <1>1, ElementOfSeq
<1> QED
  BY <1>1, <1>2, SubSeqProperties

(* No transactions hold nothing, and one more those of its operations. *)
LEMMA UptoSteps ==
    ASSUME NEW h \in Seq(Transactions), NEW o
    PROVE  /\ Upto(h, 0, o) = 0
           /\ \A n \in 0..Len(h) : Upto(h, n, o) \in Nat
           /\ \A n \in 0..Len(h) :
                 n + 1 <= Len(h) => /\ OpCount(h[n + 1].ops, o) \in Nat
                                    /\ Upto(h, n + 1, o) = Upto(h, n, o) + OpCount(h[n + 1].ops, o)
<1>1. ASSUME NEW n \in 0..Len(h)
      PROVE  SubSeq(h, 1, n) \in Seq(Transactions) /\ Upto(h, n, o) \in Nat
  <2>1. SubSeq(h, 1, n) \in Seq(Transactions)
    BY Beginning
  <2> QED
    BY <2>1, TxsCountFacts DEF Upto
<1>2. Upto(h, 0, o) = 0
  <2>1. SubSeq(h, 1, 0) \in Seq(Transactions) /\ Len(SubSeq(h, 1, 0)) = 0
    BY Beginning, Len(h) \in Nat
  <2>2. \A i \in 1..Len(SubSeq(h, 1, 0)) :
           \A j \in 1..Len(SubSeq(h, 1, 0)[i].ops) : SubSeq(h, 1, 0)[i].ops[j] # o
    BY <2>1
  <2> QED
    BY <2>1, <2>2, TxsCountFacts DEF Upto
<1>3. ASSUME NEW n \in 0..Len(h), n + 1 <= Len(h)
      PROVE  /\ OpCount(h[n + 1].ops, o) \in Nat
             /\ Upto(h, n + 1, o) = Upto(h, n, o) + OpCount(h[n + 1].ops, o)
  <2> DEFINE a == SubSeq(h, 1, n)
             b == SubSeq(h, 1, n + 1)
             x == h[n + 1]
  <2>1. /\ a \in Seq(Transactions) /\ Len(a) = n /\ \A i \in 1..n : a[i] = h[i]
        /\ b \in Seq(Transactions) /\ Len(b) = n + 1 /\ \A i \in 1..(n + 1) : b[i] = h[i]
    BY <1>3, Beginning
  <2>2. x \in Transactions /\ x.ops \in Seq(Origins)
    <3>1. n + 1 \in 1..Len(h)
      BY <1>3
    <3> QED
      BY <3>1, TransactionOps
  <2>3. b = Append(a, x)
    <3> HIDE DEF a, b, x
    <3>1. Append(a, x) \in Seq(Transactions) /\ Len(Append(a, x)) = n + 1
      BY <2>1, <2>2
    <3>2. \A i \in 1..(n + 1) : Append(a, x)[i] = b[i]
      BY <2>1, <2>2 DEF x
    <3> QED
      BY <2>1, <3>1, <3>2, SeqEqual
  <2>4. OpCount(x.ops, o) \in Nat
    BY <2>2, OpCountFacts
  <2> HIDE DEF a, b, x
  <2>5. TxsCount(Append(a, x), o) = TxsCount(a, o) + OpCount(x.ops, o)
    BY <2>1, <2>2, TxsCountAppend
  <2> QED
    BY <2>3, <2>4, <2>5 DEF Upto, a, b, x
<1> QED
  BY <1>1, <1>2, <1>3

(* The number of client c's transactions grows by the next one if it is     *)
(* c's.                                                                     *)
LEMMA OwnCountSteps ==
    ASSUME NEW h, NEW c
    PROVE  /\ OwnCount(h, c, 0) = 0
           /\ \A n \in Nat : OwnCount(h, c, n) \in Nat
           /\ \A n \in Nat :
                 /\ h[n + 1].cuid = c => OwnCount(h, c, n + 1) = OwnCount(h, c, n) + 1
                 /\ h[n + 1].cuid # c => OwnCount(h, c, n + 1) = OwnCount(h, c, n)
           /\ \A m \in Nat, n \in Nat : m <= n => OwnCount(h, c, m) <= OwnCount(h, c, n)
<1> DEFINE O(n) == {j \in 1..n : h[j].cuid = c}
<1>1. ASSUME NEW n \in Nat
      PROVE  IsFiniteSet(O(n)) /\ OwnCount(h, c, n) = Cardinality(O(n)) /\ OwnCount(h, c, n) \in Nat
  <2>1. IsFiniteSet(1..n) /\ O(n) \in SUBSET (1..n)
    BY FS_Interval
  <2>2. OwnCount(h, c, n) = Cardinality(O(n))
    BY DEF OwnCount
  <2> HIDE DEF O
  <2>3. IsFiniteSet(O(n))
    BY <2>1, FS_Subset
  <2> QED
    BY <2>2, <2>3, FS_CardinalityType
<1>2. OwnCount(h, c, 0) = 0
  <2>1. O(0) = {}
    OBVIOUS
  <2> QED
    BY <1>1, <2>1, FS_EmptySet
<1>3. ASSUME NEW n \in Nat
      PROVE  /\ h[n + 1].cuid = c => OwnCount(h, c, n + 1) = OwnCount(h, c, n) + 1
             /\ h[n + 1].cuid # c => OwnCount(h, c, n + 1) = OwnCount(h, c, n)
  <2>1. O(n + 1) = (IF h[n + 1].cuid = c THEN O(n) \cup {n + 1} ELSE O(n)) /\ n + 1 \notin O(n)
    <3>1. 1..(n + 1) = (1..n) \cup {n + 1} /\ n + 1 \notin 1..n
      OBVIOUS
    <3> QED
      BY <3>1
  <2>2. n + 1 \in Nat
    OBVIOUS
  <2>3. /\ IsFiniteSet(O(n)) /\ OwnCount(h, c, n) = Cardinality(O(n)) /\ OwnCount(h, c, n) \in Nat
        /\ OwnCount(h, c, n + 1) = Cardinality(O(n + 1))
    BY <1>1, <2>2
  <2> HIDE DEF O
  <2>4. Cardinality(O(n) \cup {n + 1}) = Cardinality(O(n)) + 1
    BY <2>1, <2>3, FS_AddElement
  <2> QED
    BY ONLY <2>1, <2>3, <2>4
<1>4. ASSUME NEW m \in Nat, NEW n \in Nat, m <= n PROVE OwnCount(h, c, m) <= OwnCount(h, c, n)
  <2>1. O(m) \in SUBSET O(n)
    BY <1>4
  <2>2. IsFiniteSet(O(n)) /\ OwnCount(h, c, n) = Cardinality(O(n)) /\ OwnCount(h, c, m) = Cardinality(O(m))
    BY <1>1
  <2> HIDE DEF O
  <2> QED
    BY <2>1, <2>2, FS_Subset
<1> QED
  BY <1>1, <1>2, <1>3, <1>4

(* What comes later does not change the beginning of a history. *)
LEMMA BeginningStays ==
    ASSUME NEW h \in Seq(Transactions), NEW g \in Seq(Transactions), Longer(h, g),
           NEW n \in Nat, n <= Len(h)
    PROVE  /\ \A o : Upto(g, n, o) = Upto(h, n, o)
           /\ \A c : OwnCount(g, c, n) = OwnCount(h, c, n)
<1>1. n <= Len(g) /\ Len(h) \in Nat /\ Len(g) \in Nat /\ \A i \in 1..n : g[i] = h[i]
  BY DEF Longer
<1>2. SubSeq(g, 1, n) = SubSeq(h, 1, n)
  <2>1. /\ SubSeq(h, 1, n) \in Seq(Transactions) /\ Len(SubSeq(h, 1, n)) = n
        /\ SubSeq(g, 1, n) \in Seq(Transactions) /\ Len(SubSeq(g, 1, n)) = n
        /\ \A i \in 1..n : SubSeq(g, 1, n)[i] = SubSeq(h, 1, n)[i]
    BY <1>1, Beginning
  <2> DEFINE a == SubSeq(h, 1, n)
             b == SubSeq(g, 1, n)
  <2>2. /\ a \in Seq(Transactions) /\ b \in Seq(Transactions)
        /\ Len(a) = Len(b) /\ \A i \in 1..Len(a) : a[i] = b[i]
    BY <2>1
  <2> HIDE DEF a, b
  <2>3. a = b
    BY <2>2, SeqEqual
  <2> QED
    BY <2>3 DEF a, b
<1>3. \A c : {j \in 1..n : g[j].cuid = c} = {j \in 1..n : h[j].cuid = c}
  BY <1>1
<1> QED
  BY <1>2, <1>3 DEF Upto, OwnCount

-----------------------------------------------------------------------------
(* What pull_transactions has pulled after each entry of the history: the   *)
(* function that its definition chooses exists.                             *)
Pulls(F, h, c, from) ==
    /\ F \in [0..Len(h) -> Seq(Transactions)]
    /\ F[0] = <<>>
    /\ \A n \in 1..Len(h) :
          F[n] = IF n > from /\ h[n].cuid # c THEN Append(F[n - 1], h[n]) ELSE F[n - 1]

(* What pull_transactions returns is what it has pulled after the last      *)
(* entry of the history.                                                    *)
LEMMA PullingSteps ==
    ASSUME NEW s, s.history \in Seq(Transactions), NEW c, NEW from \in Nat
    PROVE  \E F : /\ Pulls(F, s.history, c, from)
                  /\ PullTransactions(s, c, from) = F[Len(s.history)]
<1> DEFINE h == s.history
           L == Len(h)
           Step(x, n) == IF n > from /\ h[n].cuid # c THEN Append(x, h[n]) ELSE x
           Body(f) == [n \in 0..L |-> IF n = 0 THEN <<>>
                                       ELSE IF n > from /\ h[n].cuid # c
                                       THEN Append(f[n - 1], h[n]) ELSE f[n - 1]]
           Partial(f, k) == /\ f \in [0..k -> Seq(Transactions)]
                            /\ f[0] = <<>>
                            /\ \A n \in 1..k : f[n] = Step(f[n - 1], n)
           Some(k) == \E f : Partial(f, k)
           Q == {k \in Nat : k <= L => Some(k)}
<1>1. L \in Nat
  OBVIOUS
<1>2. 0 \in Q
  <2> DEFINE f == [n \in 0..0 |-> <<>>]
  <2>1. f \in [0..0 -> Seq(Transactions)] /\ f[0] = <<>> /\ 1..0 = {}
    OBVIOUS
  <2>2. Partial(f, 0)
    BY <2>1
  <2> QED
    BY <2>2
<1>3. ASSUME NEW k \in Nat, k \in Q PROVE k + 1 \in Q
  <2> SUFFICES ASSUME k + 1 <= L PROVE Some(k + 1)
    <3> HIDE DEF Some
    <3> QED
      OBVIOUS
  <2>a. Some(k)
    <3> HIDE DEF Some
    <3> QED
      BY <1>1, <1>3
  <2>1. PICK f : Partial(f, k)
    BY <2>a
  <2> DEFINE x == Step(f[k], k + 1)
             e == [n \in 0..(k + 1) |-> IF n = k + 1 THEN x ELSE f[n]]
  <2>2. h[k + 1] \in Transactions /\ f[k] \in Seq(Transactions)
    <3>1. k + 1 \in 1..Len(h) /\ k \in 0..k
      BY <1>1
    <3> QED
      BY <2>1, <3>1, ElementOfSeq
  <2>3. x \in Seq(Transactions)
    BY <2>2
  <2>4. e \in [0..(k + 1) -> Seq(Transactions)]
    <3> HIDE DEF x
    <3> QED
      BY <2>1, <2>3
  <2>5. e[0] = <<>>
    BY <2>1
  <2>6. ASSUME NEW n \in 1..(k + 1) PROVE e[n] = Step(e[n - 1], n)
    <3>1. e[n - 1] = f[n - 1]
      OBVIOUS
    <3>2. CASE n = k + 1
      BY <3>1, <3>2
    <3>3. CASE n # k + 1
      <4>1. n \in 1..k /\ e[n] = f[n]
        BY <3>3
      <4>2. f[n] = Step(f[n - 1], n)
        BY <2>1, <4>1
      <4> QED
        BY <3>1, <4>1, <4>2
    <3> QED
      BY <3>2, <3>3
  <2>7. Partial(e, k + 1)
    <3> HIDE DEF e
    <3> QED
      BY <2>4, <2>5, <2>6
  <2> QED
    BY <2>7
<1>4. L \in Q
  <2> HIDE DEF Q
  <2> QED
    BY <1>1, <1>2, <1>3, NaturalSteps
<1>b. Some(L)
  <2> HIDE DEF Some
  <2> QED
    BY <1>1, <1>4
<1>5. PICK f : Partial(f, L)
  BY <1>b
<1>6. f = Body(f)
  <2>1. DOMAIN f = 0..L /\ DOMAIN Body(f) = 0..L /\ f \in [0..L -> Seq(Transactions)]
    BY <1>5
  <2>2. ASSUME NEW n \in 0..L PROVE f[n] = Body(f)[n]
    <3>1. CASE n = 0
      BY <1>5, <3>1
    <3>2. CASE n # 0
      <4>1. n \in 1..L
        BY <3>2
      <4> QED
        BY <1>5, <3>2, <4>1
    <3> QED
      BY <3>1, <3>2
  <2> QED
    BY <2>1, <2>2
<1> DEFINE G == CHOOSE g : g = Body(g)
<1>7. G = Body(G)
  BY <1>6
<1>8. PullTransactions(s, c, from) = G[L]
  BY DEF PullTransactions
<1>9. G[0] = <<>> /\ DOMAIN G = 0..L
  <2> HIDE DEF G
  <2> QED
    BY <1>1, <1>7
<1>10. ASSUME NEW n \in 1..L PROVE G[n] = Step(G[n - 1], n)
  <2> HIDE DEF G
  <2>1. Body(G)[n] = Step(G[n - 1], n)
    BY <1>1
  <2> HIDE DEF Body, Step
  <2> QED
    BY <1>7, <2>1
<1>11. \A n \in 0..L : G[n] \in Seq(Transactions)
  <2> DEFINE S == {n \in Nat : n <= L => G[n] \in Seq(Transactions)}
  <2>1. 0 \in S
    BY <1>9
  <2>2. ASSUME NEW n \in Nat, n \in S PROVE n + 1 \in S
    <3> SUFFICES ASSUME n + 1 <= L PROVE G[n + 1] \in Seq(Transactions)
      OBVIOUS
    <3>1. n + 1 \in 1..L /\ (n + 1) - 1 = n /\ n <= L
      BY <1>1
    <3>2. G[n] \in Seq(Transactions) /\ h[n + 1] \in Transactions
      BY <2>2, <3>1, ElementOfSeq
    <3>3. G[n + 1] = Step(G[n], n + 1)
      BY <1>10, <3>1
    <3> HIDE DEF G
    <3> QED
      BY <3>2, <3>3
  <2>3. \A n \in Nat : n \in S
    <3> HIDE DEF S
    <3> QED
      BY <2>1, <2>2, NaturalSteps
  <2> QED
    BY <2>3
<1>12. G = [n \in 0..L |-> G[n]]
  <2> HIDE DEF G
  <2> QED
    BY <1>7
<1>13. G \in [0..L -> Seq(Transactions)]
  <2> HIDE DEF G
  <2> QED
    BY <1>11, <1>12
<1>14. Pulls(G, h, c, from)
  <2> HIDE DEF G
  <2> QED
    BY <1>9, <1>10, <1>13 DEF Pulls
<1> QED
  BY <1>8, <1>14

(* Transactions P are as many as history h has of others than c after entry *)
(* `from`, with all their operations and no others.                         *)
Brought(P, h, c, from) ==
    /\ P \in Seq(Transactions)
    /\ Len(P) = (Len(h) - from) - (OwnCount(h, c, Len(h)) - OwnCount(h, c, from))
    /\ \A o : (\A j \in 1..Len(h) : h[j].cuid = c => OpCount(h[j].ops, o) = 0)
                => TxsCount(P, o) = Upto(h, Len(h), o) - Upto(h, from, o)
    /\ \A o : (\A j \in 1..Len(h) : h[j].cuid # c => OpCount(h[j].ops, o) = 0)
                => TxsCount(P, o) = 0

(* pull_transactions, from a checkpoint the history has reached. *)
LEMMA PullEffect ==
    ASSUME NEW s, NEW h \in Seq(Transactions), s.history = h, NEW c,
           NEW from \in Nat, from <= Len(h),
           NEW P, P = PullTransactions(s, c, from)
    PROVE  Brought(P, h, c, from)
<1> DEFINE L == Len(h)
<1>1. PICK F : Pulls(F, h, c, from) /\ P = F[L]
  BY PullingSteps
<1>2. L \in Nat /\ F \in [0..L -> Seq(Transactions)] /\ F[0] = <<>>
  BY <1>1 DEF Pulls
<1>3. ASSUME NEW n \in Nat, n + 1 <= L
      PROVE  /\ F[n] \in Seq(Transactions) /\ h[n + 1] \in Transactions
             /\ n + 1 > from /\ h[n + 1].cuid # c => F[n + 1] = Append(F[n], h[n + 1])
             /\ ~(n + 1 > from /\ h[n + 1].cuid # c) => F[n + 1] = F[n]
  <2>1. n + 1 \in 1..L /\ (n + 1) - 1 = n /\ n \in 0..L
    BY <1>2, <1>3
  <2>2. F[n] \in Seq(Transactions) /\ h[n + 1] \in Transactions
    BY <1>2, <2>1, ElementOfSeq
  <2>3. F[n + 1] = IF n + 1 > from /\ h[n + 1].cuid # c THEN Append(F[n], h[n + 1]) ELSE F[n]
    BY <1>1, <2>1 DEF Pulls
  <2> HIDE DEF L
  <2> QED
    BY ONLY <2>2, <2>3
<1> HIDE DEF L
<1>4. \A n \in Nat : n <= from => F[n] = <<>>
  <2> DEFINE S == {n \in Nat : n <= from => F[n] = <<>>}
  <2>1. 0 \in S
    BY <1>2
  <2>2. ASSUME NEW n \in Nat, n \in S PROVE n + 1 \in S
    BY <1>2, <1>3, <2>2 DEF L
  <2>3. \A n \in Nat : n \in S
    <3> HIDE DEF S
    <3> QED
      BY <2>1, <2>2, NaturalSteps
  <2> QED
    BY <2>3
<1>5. \A n \in Nat : n >= from /\ n <= L =>
          Len(F[n]) = (n - from) - (OwnCount(h, c, n) - OwnCount(h, c, from))
  <2> DEFINE K(n) == OwnCount(h, c, n)
             S == {n \in Nat : n >= from /\ n <= L => Len(F[n]) = (n - from) - (K(n) - K(from))}
  <2>1. \A n \in Nat : K(n) \in Nat
    BY OwnCountSteps
  <2>a. ASSUME NEW n \in Nat
        PROVE  /\ h[n + 1].cuid = c => K(n + 1) = K(n) + 1
               /\ h[n + 1].cuid # c => K(n + 1) = K(n)
    BY OwnCountSteps
  <2> HIDE DEF K
  <2>2. \A n \in Nat : n = from => n \in S
    <3>1. Len(F[from]) = 0
      BY <1>4, Len(<<>>) = 0
    <3>2. (from - from) - (K(from) - K(from)) = 0
      BY <2>1
    <3> QED
      BY <3>1, <3>2
  <2>3. 0 \in S
    BY <2>2
  <2>4. ASSUME NEW n \in Nat, n \in S PROVE n + 1 \in S
    <3>1. CASE n + 1 <= from
      BY <2>2, <3>1
    <3>2. CASE n >= from /\ n + 1 <= L
      <4>1. Len(F[n]) = (n - from) - (K(n) - K(from)) /\ n + 1 > from
        BY <1>2, <2>4, <3>2
      <4>2. F[n] \in Seq(Transactions) /\ h[n + 1] \in Transactions
        BY <1>3, <3>2
      <4>3. CASE h[n + 1].cuid # c
        <5>1. F[n + 1] = Append(F[n], h[n + 1])
          BY <1>3, <3>2, <4>1, <4>3
        <5>2. Len(F[n + 1]) = Len(F[n]) + 1
          BY <4>2, <5>1
        <5>3. K(n + 1) = K(n) /\ K(n) \in Nat /\ K(from) \in Nat
          BY <2>1, <2>a, <4>3
        <5> QED
          BY <4>1, <5>2, <5>3
      <4>4. CASE h[n + 1].cuid = c
        <5>1. F[n + 1] = F[n]
          BY <1>3, <3>2, <4>1, <4>4
        <5>3. K(n + 1) = K(n) + 1 /\ K(n) \in Nat /\ K(from) \in Nat
          BY <2>1, <2>a, <4>4
        <5> QED
          BY <4>1, <5>1, <5>3
      <4> QED
        BY <4>3, <4>4
    <3>3. CASE ~(n + 1 <= L)
      BY <3>3
    <3> QED
      BY <1>2, <3>1, <3>2, <3>3
  <2>5. \A n \in Nat : n \in S
    <3> HIDE DEF S
    <3> QED
      BY <2>3, <2>4, NaturalSteps
  <2> QED
    BY <2>5 DEF K
<1>6. ASSUME NEW o, \A j \in 1..L : h[j].cuid = c => OpCount(h[j].ops, o) = 0
      PROVE  \A n \in Nat : n >= from /\ n <= L =>
                 TxsCount(F[n], o) = Upto(h, n, o) - Upto(h, from, o)
  <2> DEFINE U(n) == Upto(h, n, o)
             T(n) == TxsCount(F[n], o)
             S == {n \in Nat : n >= from /\ n <= L => T(n) = U(n) - U(from)}
  <2>1. /\ \A n \in 0..L : U(n) \in Nat
        /\ \A n \in 0..L : n + 1 <= L => /\ OpCount(h[n + 1].ops, o) \in Nat
                                         /\ U(n + 1) = U(n) + OpCount(h[n + 1].ops, o)
    BY UptoSteps DEF L
  <2>2. TxsCount(<<>>, o) = 0
    <3> DEFINE e == <<>>
    <3>1. e \in Seq(Transactions) /\ Len(e) = 0
      OBVIOUS
    <3>2. \A i \in 1..Len(e) : \A j \in 1..Len(e[i].ops) : e[i].ops[j] # o
      BY <3>1
    <3> HIDE DEF e
    <3>3. TxsCount(e, o) = 0
      BY <3>1, <3>2, TxsCountFacts
    <3> QED
      BY <3>3 DEF e
  <2>3. \A n \in Nat : n = from => n \in S
    <3>1. from \in 0..L
      BY <1>2 DEF L
    <3>2. U(from) \in Nat /\ F[from] = <<>>
      BY <1>4, <2>1, <3>1
    <3>3. T(from) = 0 /\ U(from) - U(from) = 0
      BY <2>2, <3>2
    <3> HIDE DEF T, U
    <3> QED
      BY <3>3
  <2>4. 0 \in S
    BY <2>3
  <2>5. ASSUME NEW n \in Nat, n \in S PROVE n + 1 \in S
    <3>1. CASE n + 1 <= from
      BY <2>3, <3>1
    <3>2. CASE n >= from /\ n + 1 <= L
      <4>1. T(n) = U(n) - U(from) /\ n + 1 > from /\ n \in 0..L /\ from \in 0..L /\ n + 1 \in 1..L
        BY <1>2, <2>5, <3>2
      <4>2. F[n] \in Seq(Transactions) /\ h[n + 1] \in Transactions
        BY <1>3, <3>2
      <4>3. /\ U(n + 1) = U(n) + OpCount(h[n + 1].ops, o) /\ OpCount(h[n + 1].ops, o) \in Nat
            /\ U(n) \in Nat /\ U(from) \in Nat
        BY <2>1, <3>2, <4>1
      <4>4. T(n + 1) = T(n) + OpCount(h[n + 1].ops, o)
        <5>1. CASE h[n + 1].cuid # c
          <6>1. F[n + 1] = Append(F[n], h[n + 1])
            BY <1>3, <3>2, <4>1, <5>1
          <6>2. TxsCount(Append(F[n], h[n + 1]), o) = TxsCount(F[n], o) + OpCount(h[n + 1].ops, o)
            BY <4>2, TxsCountAppend
          <6> QED
            BY <6>1, <6>2
        <5>2. CASE h[n + 1].cuid = c
          <6>1. F[n + 1] = F[n]
            BY <1>3, <3>2, <4>1, <5>2
          <6>2. OpCount(h[n + 1].ops, o) = 0 /\ T(n) \in Int
            BY <1>6, <4>1, <4>3, <5>2
          <6> QED
            BY <6>1, <6>2
        <5> QED
          BY <5>1, <5>2
      <4> HIDE DEF T, U
      <4> QED
        BY <4>1, <4>3, <4>4
    <3>3. CASE ~(n + 1 <= L)
      BY <3>3
    <3> QED
      BY <1>2, <3>1, <3>2, <3>3
  <2>6. \A n \in Nat : n \in S
    <3> HIDE DEF S
    <3> QED
      BY <2>4, <2>5, NaturalSteps
  <2> QED
    BY <2>6
<1>7. ASSUME NEW o, \A j \in 1..L : h[j].cuid # c => OpCount(h[j].ops, o) = 0
      PROVE  \A n \in Nat : n <= L => TxsCount(F[n], o) = 0
  <2> DEFINE T(n) == TxsCount(F[n], o)
             S == {n \in Nat : n <= L => T(n) = 0}
  <2>1. 0 \in S
    <3> DEFINE e == <<>>
    <3>1. e \in Seq(Transactions) /\ Len(e) = 0
      OBVIOUS
    <3>2. \A i \in 1..Len(e) : \A j \in 1..Len(e[i].ops) : e[i].ops[j] # o
      BY <3>1
    <3> HIDE DEF e
    <3>3. TxsCount(e, o) = 0
      BY <3>1, <3>2, TxsCountFacts
    <3> QED
      BY <1>2, <3>3 DEF e
  <2>2. ASSUME NEW n \in Nat, n \in S PROVE n + 1 \in S
    <3> SUFFICES ASSUME n + 1 <= L PROVE T(n + 1) = 0
      OBVIOUS
    <3>1. T(n) = 0 /\ n + 1 \in 1..L
      BY <1>2, <2>2
    <3>2. F[n] \in Seq(Transactions) /\ h[n + 1] \in Transactions
      BY <1>3
    <3>3. CASE n + 1 > from /\ h[n + 1].cuid # c
      <4>1. F[n + 1] = Append(F[n], h[n + 1])
        BY <1>3, <3>3
      <4>2. TxsCount(Append(F[n], h[n + 1]), o) = TxsCount(F[n], o) + OpCount(h[n + 1].ops, o)
        BY <3>2, TxsCountAppend
      <4>3. OpCount(h[n + 1].ops, o) = 0
        BY <1>7, <3>1, <3>3
      <4> QED
        BY <3>1, <4>1, <4>2, <4>3
    <3>4. CASE ~(n + 1 > from /\ h[n + 1].cuid # c)
      <4>1. F[n + 1] = F[n]
        BY <1>3, <3>4
      <4> QED
        BY <3>1, <4>1
    <3> QED
      BY <3>3, <3>4
  <2>3. \A n \in Nat : n \in S
    <3> HIDE DEF S
    <3> QED
      BY <2>1, <2>2, NaturalSteps
  <2> QED
    BY <2>3
<1>8. L >= from /\ L <= L /\ L \in 0..L
  BY <1>2 DEF L
<1>9. P \in Seq(Transactions)
  BY <1>1, <1>2, <1>8
<1>10. Len(P) = (L - from) - (OwnCount(h, c, L) - OwnCount(h, c, from))
  BY <1>1, <1>2, <1>5, <1>8
<1> QED
  BY <1>1, <1>2, <1>6, <1>7, <1>8, <1>9, <1>10 DEF L, Brought

-----------------------------------------------------------------------------
(* The transactions of client c in a history carry the numbers 1, 2, ... in *)
(* this order, and are those of its push buffer.                            *)
Traced(h, c, txs) ==
    \A j \in 1..Len(h) : h[j].cuid = c =>
        /\ h[j].cseq = OwnCount(h, c, j)
        /\ h[j].cseq <= Len(txs) /\ h[j] = txs[h[j].cseq]

(* The beginning of a history has as many operations of client c as the     *)
(* beginning of its push buffer has, if the others have none of them.       *)
LEMMA OwnUpto ==
    ASSUME NEW h \in Seq(Transactions), NEW txs \in Seq(Transactions), NEW c,
           Traced(h, c, txs), NEW o,
           \A j \in 1..Len(h) : h[j].cuid # c => OpCount(h[j].ops, o) = 0
    PROVE  \A n \in 0..Len(h) :
              /\ OwnCount(h, c, n) <= Len(txs)
              /\ Upto(h, n, o) = Upto(txs, OwnCount(h, c, n), o)
<1> DEFINE K(n) == OwnCount(h, c, n)
           U(n) == Upto(h, n, o)
           V(n) == Upto(txs, n, o)
           S == {n \in Nat : n <= Len(h) => K(n) <= Len(txs) /\ U(n) = V(K(n))}
<1>1. Len(h) \in Nat /\ Len(txs) \in Nat
  OBVIOUS
<1>2. /\ K(0) = 0 /\ \A n \in Nat : K(n) \in Nat
      /\ \A n \in Nat : /\ h[n + 1].cuid = c => K(n + 1) = K(n) + 1
                        /\ h[n + 1].cuid # c => K(n + 1) = K(n)
  BY OwnCountSteps
<1>3. /\ U(0) = 0
      /\ \A n \in 0..Len(h) :
            n + 1 <= Len(h) => /\ OpCount(h[n + 1].ops, o) \in Nat
                               /\ U(n + 1) = U(n) + OpCount(h[n + 1].ops, o)
  BY UptoSteps
<1>4. /\ V(0) = 0 /\ \A n \in 0..Len(txs) : V(n) \in Nat
      /\ \A n \in 0..Len(txs) :
            n + 1 <= Len(txs) => V(n + 1) = V(n) + OpCount(txs[n + 1].ops, o)
  BY UptoSteps
<1>5. \A j \in 1..Len(h) :
          h[j].cuid = c => h[j].cseq = K(j) /\ K(j) <= Len(txs) /\ h[j] = txs[K(j)]
  BY DEF Traced
<1> HIDE DEF K, U, V
<1>6. 0 \in S
  BY <1>1, <1>2, <1>3, <1>4
<1>7. ASSUME NEW n \in Nat, n \in S PROVE n + 1 \in S
  <2> SUFFICES ASSUME n + 1 <= Len(h) PROVE K(n + 1) <= Len(txs) /\ U(n + 1) = V(K(n + 1))
    OBVIOUS
  <2>a. n \in 0..Len(h) /\ n + 1 \in 1..Len(h) /\ n <= Len(h)
    BY <1>1
  <2>b. K(n) <= Len(txs) /\ U(n) = V(K(n))
    BY <1>7, <2>a
  <2>c. K(n) \in Nat
    BY <1>2
  <2>1. n \in 0..Len(h) /\ n + 1 \in 1..Len(h) /\ K(n) <= Len(txs) /\ U(n) = V(K(n)) /\ K(n) \in Nat
    BY <2>a, <2>b, <2>c
  <2>2. OpCount(h[n + 1].ops, o) \in Nat /\ U(n + 1) = U(n) + OpCount(h[n + 1].ops, o)
    BY <1>3, <2>1
  <2>3. CASE h[n + 1].cuid = c
    <3>1. K(n + 1) = K(n) + 1 /\ K(n + 1) <= Len(txs) /\ h[n + 1] = txs[K(n + 1)]
      BY <1>2, <1>5, <2>1, <2>3
    <3>2. K(n) \in 0..Len(txs) /\ K(n) + 1 <= Len(txs)
      BY <1>1, <2>1, <3>1
    <3>3. V(K(n) + 1) = V(K(n)) + OpCount(txs[K(n) + 1].ops, o)
      BY <1>4, <3>2
    <3> QED
      BY <2>1, <2>2, <3>1, <3>3
  <2>4. CASE h[n + 1].cuid # c
    <3>1. K(n + 1) = K(n) /\ OpCount(h[n + 1].ops, o) = 0
      BY <1>2, <2>1, <2>4
    <3>2. V(K(n)) \in Nat
      BY <1>1, <1>4, <2>1
    <3> QED
      BY <2>1, <2>2, <3>1, <3>2
  <2> QED
    BY <2>3, <2>4
<1>8. \A n \in Nat : n \in S
  <2> HIDE DEF S
  <2> QED
    BY <1>6, <1>7, NaturalSteps
<1> QED
  BY <1>1, <1>8 DEF K, U, V

(* A whole sequence is its own beginning. *)
LEMMA UptoAll ==
    ASSUME NEW h \in Seq(Transactions), NEW o
    PROVE  Upto(h, Len(h), o) = TxsCount(h, o)
<1> DEFINE a == SubSeq(h, 1, Len(h))
<1>1. a \in Seq(Transactions) /\ Len(a) = Len(h) /\ \A i \in 1..Len(a) : a[i] = h[i]
  BY Beginning
<1>2. a = h
  <2> HIDE DEF a
  <2> QED
    BY <1>1, SeqEqual
<1> QED
  BY <1>2 DEF Upto

-----------------------------------------------------------------------------
(* The server has nothing of client c, which did not create the datatype.   *)
Free(c) == srv.cseqMap[c] = 0 /\ (srv.created => srv.creator # c)

(* The response under way to client c reports no error. *)
Confirms(c) == net[c].kind = "pulled" /\ net[c].error = "none"

(* Client c is Subscribed, or will be with its own replica. *)
Accepted(c) ==
    \/ dt[c].state = "Subscribed"
    \/ Confirms(c) /\ ~AppliesSubscription(c, net[c])

(* Nothing changes the state of a datatype while a transaction is open or   *)
(* while its pack is under way.                                             *)
Settled(c) ==
    /\ dt[c].pending # <<>> => dt[c].rollback.state = dt[c].state
    /\ net[c].kind = "push" =>
          net[c].state = dt[c].state /\ net[c].readonly = (c \in ReadOnly)
    /\ net[c].kind \in {"error", "register"} => dt[c].state = "Disabled"
    /\ inst[c] = 0 => dt[c].state = "Disabled"
    /\ loop[c] # "Panicked"

(* Who is neither accepted nor about to be has nothing stored; neither has  *)
(* a reader.                                                                *)
Fresh(c) == (Accepted(c) \/ Free(c)) /\ (c \in ReadOnly => Free(c))

(* Only who has nothing stored is refused for good, and only a server that  *)
(* cannot reach the creator's replica asks for a retry.                     *)
Refused(c) ==
    net[c].kind = "pulled" /\ net[c].error # "none" =>
        /\ \/ net[c].state = dt[c].state
           \/ net[c].state = "Disabled" /\ Free(c)
        /\ net[c].state = "Disabled" \/ net[c].error = "ServerInternalError"

(* A datatype that is not Subscribed yet has its own duid, has pulled       *)
(* nothing, and the server has created it only if the response says so.     *)
(* Who is Subscribed, or will be, finds the datatype created.               *)
Identified(c) ==
    /\ dt[c].state \in InitialStates =>
          /\ duid[c] = <<c, inst[c]>> /\ dt[c].cp = [sseq |-> 0, cseq |-> 0]
          /\ srv.created /\ srv.duid = duid[c] => Confirms(c)
    /\ srv.created => \A k \in Nat : k > inst[c] => srv.duid # <<c, k>>
    /\ dt[c].state = "Subscribed" \/ Confirms(c) => srv.created

(* Replica m, the i-th datatype of client c, executes operations of its own. *)
OwnReplica(m, c, i) ==
    /\ \A k \in 1..Len(m.pending) : m.pending[k] = <<c, i>>
    /\ \A k \in 1..Len(m.buf.txs) : \A j \in 1..Len(m.buf.txs[k].ops) :
          m.buf.txs[k].ops[j] = <<c, i>>

OwnOps(c) == OwnReplica(dt[c], c, inst[c])

(* What the server counts of client c is in its history, and is what c      *)
(* committed.                                                               *)
Recorded(c) ==
    /\ srv.cseqMap[c] = OwnCount(srv.history, c, Len(srv.history))
    /\ Traced(srv.history, c, dt[c].buf.txs)

(* The checkpoint k of client c cuts the history where it says: up to its   *)
(* sseq there are as many of c's transactions as its cseq.                  *)
Cuts(c, k) == k.cseq = OwnCount(srv.history, c, k.sseq)

(* The counter of replica m, the i-th datatype of client c, has the others' *)
(* operations of history h up to its checkpoint, and the own ones.          *)
ExactReplica(m, h, c, i) ==
    /\ m.crdt \in [Origins -> Int]
    /\ m.state # "Disabled" =>
          /\ m.cp.cseq = OwnCount(h, c, m.cp.sseq)
          /\ \A o \in Origins :
                m.crdt[o] = IF o = <<c, i>>
                            THEN TxsCount(m.buf.txs, o) + OpCount(m.pending, o)
                            ELSE Upto(h, m.cp.sseq, o)

Exact(c) == ExactReplica(dt[c], srv.history, c, inst[c])

(* The transactions of response r lead from the checkpoint of client c to   *)
(* that of r ...                                                            *)
Continued(c, r) ==
    \A o \in Origins :
        TxsCount(r.txs, o) = IF o = <<c, inst[c]>> THEN 0
                             ELSE Upto(srv.history, r.cp.sseq, o)
                                  - Upto(srv.history, dt[c].cp.sseq, o)

(* ... or from its snapshot. *)
Started(r) ==
    /\ r.snapshot # <<>> /\ r.snapshot[1] \in [Origins -> Int]
    /\ \A o \in Origins :
          r.snapshot[1][o] + TxsCount(r.txs, o) = Upto(srv.history, r.cp.sseq, o)

(* A response without an error finds its datatype waiting for it, brings as *)
(* many transactions as the checkpoints say, and those that are missing.    *)
Answered(c) ==
    LET r == net[c]
    IN  Confirms(c) =>
            /\ dt[c].state # "Disabled" /\ r.state = "Subscribed"
            /\ r.txs \in Seq(Transactions)
            /\ dt[c].cp.sseq <= r.cp.sseq /\ dt[c].cp.cseq <= r.cp.cseq
            /\ Len(r.txs) <= PullCount(dt[c], r)
            /\ Cuts(c, r.cp)
            /\ IF AppliesSubscription(c, r) THEN Free(c) /\ Started(r) ELSE Continued(c, r)

ExactClient(c) ==
    /\ Settled(c) /\ Fresh(c) /\ Refused(c) /\ Identified(c) /\ OwnOps(c)
    /\ Recorded(c) /\ Exact(c) /\ Answered(c)

(* Nothing is stored before the datatype is created by a client. *)
Creation ==
    /\ ~srv.created => srv.history = <<>>
    /\ srv.created => srv.creator \in Clients

(* What an orderly environment keeps, on top of ProtocolInv and ShelterInv. *)
ExactInv == Creation /\ \A c \in Clients : ExactClient(c)

(* What an orderly environment rules out. *)
LEMMA OrderlyFacts ==
    ASSUME Orderly
    PROVE  /\ "spanning" \notin scenario.env /\ "unsubscribe" \notin scenario.env
           /\ "loseCreate" \notin scenario.env /\ "late" \notin scenario.env
BY DEF Orderly

(* A client's part of the three invariants. *)
LEMMA ExactFacts ==
    ASSUME ProtocolInv, ShelterInv, Orderly, ExactInv, NEW c \in Clients
    PROVE  /\ Domains /\ ServerShape(srv) /\ srv.history \in Seq(Transactions)
           /\ srv.cseqMap[c] \in Nat
           /\ Shape(c) /\ Phase(c) /\ Packed(c) /\ Acknowledged(c)
           /\ dt[c].buf.txs \in Seq(Transactions) /\ dt[c].pending \in Seq(Origins)
           /\ inst[c] \in Nat /\ dt[c].cp \in Checkpoints
           /\ dt[c].cp.sseq \in Nat /\ dt[c].cp.cseq \in Nat
           /\ dt[c].state \in InitialStates \cup {"Subscribed", "Disabled"}
           /\ net[c].kind \notin {"idle", "register"} => inst[c] >= 1
           /\ dt[c].state # "Disabled" => inst[c] >= 1 /\ Live(c) /\ OwnNumbering(dt[c], c)
           /\ inst[c] >= 1 => /\ Linked(c) /\ dt[c].cp.sseq <= Len(srv.history)
                              /\ dt[c].cp.cseq <= srv.cseqMap[c]
           /\ net[c].kind # "collect" /\ "unsub" \notin checked[c]
           /\ net[c].kind = "push" => net[c].state # "Unsubscribing"
           /\ net[c].kind = "register" => srv.present /\ srv.gen = net[c].gen
           /\ net[c].kind = "pulled" => /\ net[c].cp \in Checkpoints
                                        /\ net[c].cp.sseq \in Nat /\ net[c].cp.cseq \in Nat
                                        /\ net[c].cp.sseq <= Len(srv.history)
           /\ Settled(c) /\ Fresh(c) /\ Refused(c) /\ Identified(c) /\ OwnOps(c)
           /\ Recorded(c) /\ Exact(c) /\ Answered(c)
<1>1. /\ Domains /\ ServerShape(srv)
      /\ Shape(c) /\ Phase(c) /\ Numbered(c) /\ Packed(c) /\ Acknowledged(c)
  BY OwnFacts
<1>2. /\ "Unsubscribing" \notin Seen(c) /\ "unsub" \notin checked[c]
      /\ net[c].kind # "collect"
      /\ inst[c] >= 1 => Linked(c)
      /\ net[c].kind = "register" => srv.present /\ srv.gen = net[c].gen
  BY OrderlyFacts DEF ShelterInv, Staying
<1>3. /\ Settled(c) /\ Fresh(c) /\ Refused(c) /\ Identified(c) /\ OwnOps(c)
      /\ Recorded(c) /\ Exact(c) /\ Answered(c)
  BY DEF ExactInv, ExactClient
<1>4. /\ srv.history \in Seq(Transactions) /\ srv.cseqMap[c] \in Nat
      /\ dt[c].buf.txs \in Seq(Transactions) /\ dt[c].pending \in Seq(Origins)
      /\ dt[c].cp \in Checkpoints /\ dt[c].state \in States
  BY <1>1 DEF ServerShape, Shape, Replica, Buffers
<1>5. inst[c] \in Nat /\ dt[c].cp.sseq \in Nat /\ dt[c].cp.cseq \in Nat
  BY <1>1, <1>4, SyncAssumption DEF Shape, Checkpoints
<1>6. /\ dt[c].state # "Unsubscribing"
      /\ net[c].kind = "push" => net[c].state # "Unsubscribing"
  BY <1>2 DEF Seen
<1>7. dt[c].state \in InitialStates \cup {"Subscribed", "Disabled"}
  BY <1>4, <1>6 DEF States, InitialStates
<1>8. net[c].kind \notin {"idle", "register"} => inst[c] >= 1
  BY <1>1 DEF Phase
<1>9. dt[c].state # "Disabled" => inst[c] >= 1 /\ Live(c) /\ OwnNumbering(dt[c], c)
  <2>1. dt[c].state # "Disabled" => inst[c] # 0
    BY <1>3 DEF Settled
  <2>2. dt[c].state # "Disabled" => Live(c)
    BY <1>1, <1>6 DEF Phase, Gone
  <2> QED
    BY <1>1, <1>5, <2>1, <2>2 DEF Numbered
<1>10. inst[c] >= 1 => /\ Linked(c) /\ dt[c].cp.sseq <= Len(srv.history)
                       /\ dt[c].cp.cseq <= srv.cseqMap[c]
  BY <1>1, <1>2 DEF Acknowledged, Reached
<1>11. net[c].kind = "pulled" => /\ net[c].cp \in Checkpoints
                                 /\ net[c].cp.sseq \in Nat /\ net[c].cp.cseq \in Nat
                                 /\ net[c].cp.sseq <= Len(srv.history)
  BY <1>1, <1>2, <1>8 DEF Acknowledged, Reached, Shape, Exchange, Response, Checkpoints
<1> QED
  BY <1>1, <1>2, <1>3, <1>4, <1>5, <1>6, <1>7, <1>8, <1>9, <1>10, <1>11

(* A transaction of the history has operations of its client only. *)
LEMMA HistoryOrigins ==
    ASSUME ProtocolInv, ShelterInv, Orderly, ExactInv, NEW j \in 1..Len(srv.history), NEW o
    PROVE  /\ srv.history[j].cuid \in Clients
           /\ o # <<srv.history[j].cuid, inst[srv.history[j].cuid]>> =>
                 OpCount(srv.history[j].ops, o) = 0
<1> DEFINE x == srv.history[j]
<1>1. srv.history \in Seq(Transactions)
  BY DEF ProtocolInv, ServerShape
<1>2. x \in Transactions /\ x.ops \in Seq(Origins)
  BY <1>1, TransactionOps
<1>3. x.cuid \in Clients
  BY <1>2 DEF Transactions
<1>4. PICK c \in Clients : c = x.cuid
  BY <1>3
<1>5. dt[c].buf.txs \in Seq(Transactions) /\ OwnOps(c) /\ Traced(srv.history, c, dt[c].buf.txs)
  BY ExactFacts DEF Recorded
<1>6. /\ x.cseq = OwnCount(srv.history, c, j) /\ x.cseq <= Len(dt[c].buf.txs)
      /\ x = dt[c].buf.txs[x.cseq]
  BY <1>4, <1>5 DEF Traced
<1>7. x.cseq \in 1..Len(dt[c].buf.txs)
  <2> DEFINE K(n) == OwnCount(srv.history, c, n)
             i == j - 1
  <2>1. j \in Nat /\ i \in Nat /\ i + 1 = j
    BY <1>1
  <2>2. K(i) \in Nat /\ K(i + 1) = K(i) + 1
    BY <1>4, <2>1, OwnCountSteps
  <2> HIDE DEF K
  <2>3. K(j) \in Nat /\ K(j) >= 1
    BY <2>1, <2>2
  <2> QED
    BY <1>5, <1>6, <2>3 DEF K
<1>8. PICK i \in 1..Len(dt[c].buf.txs) : x = dt[c].buf.txs[i]
  BY <1>6, <1>7
<1>9. \A k \in 1..Len(x.ops) : x.ops[k] = <<c, inst[c]>>
  BY <1>5, <1>8 DEF OwnOps, OwnReplica
<1>10. ASSUME o # <<c, inst[c]>> PROVE OpCount(x.ops, o) = 0
  <2>1. \A k \in 1..Len(x.ops) : x.ops[k] # o
    BY <1>9, <1>10
  <2> HIDE DEF x
  <2> QED
    BY <1>2, <2>1, OpCountFacts
<1> QED
  BY <1>3, <1>4, <1>10

(* Who has nothing stored has no transaction in the history. *)
LEMMA FreeHistory ==
    ASSUME ProtocolInv, ShelterInv, Orderly, ExactInv, NEW c \in Clients, srv.cseqMap[c] = 0
    PROVE  \A j \in 1..Len(srv.history) : srv.history[j].cuid # c
<1> SUFFICES ASSUME NEW j \in 1..Len(srv.history), srv.history[j].cuid = c PROVE FALSE
  OBVIOUS
<1> DEFINE K(n) == OwnCount(srv.history, c, n)
           i == j - 1
           L == Len(srv.history)
<1>1. srv.history \in Seq(Transactions) /\ K(L) = 0
  BY ExactFacts DEF Recorded
<1>2. j \in Nat /\ i \in Nat /\ i + 1 = j /\ L \in Nat /\ j <= L
  BY <1>1
<1>3. K(i) \in Nat /\ K(i + 1) = K(i) + 1 /\ K(j) <= K(L)
  <2> DEFINE h == srv.history
  <2>1. /\ \A n \in Nat : K(n) \in Nat
        /\ \A n \in Nat : h[n + 1].cuid = c => K(n + 1) = K(n) + 1
        /\ \A m \in Nat, n \in Nat : m <= n => K(m) <= K(n)
    BY ONLY OwnCountSteps
  <2>2. h[j].cuid = c
    OBVIOUS
  <2> HIDE DEF K, h, i, L
  <2>3. K(i) \in Nat /\ K(j) <= K(L)
    BY ONLY <1>2, <2>1
  <2>4. K(i + 1) = K(i) + 1
    BY ONLY <1>2, <2>1, <2>2
  <2> QED
    BY <2>3, <2>4
<1> HIDE DEF K
<1> QED
  BY <1>1, <1>2, <1>3

-----------------------------------------------------------------------------
(* A step of another client leaves what the server has of client d. *)
Spared(d) ==
    /\ srv'.cseqMap[d] = srv.cseqMap[d]
    /\ srv'.history \in Seq(Transactions) /\ Longer(srv.history, srv'.history)
    /\ \A j \in 1..Len(srv'.history) : j > Len(srv.history) => srv'.history[j].cuid # d
    /\ srv.created => srv'.created
    /\ srv'.created =>
          \/ srv.created /\ srv'.creator = srv.creator /\ srv'.duid = srv.duid
          \/ srv'.creator # d /\ \A k \in Nat : srv'.duid # <<d, k>>

(* Transactions of the others leave client d's record as it is. *)
LEMMA SparedRecord ==
    ASSUME NEW h \in Seq(Transactions), NEW g \in Seq(Transactions), Longer(h, g),
           NEW d, \A j \in 1..Len(g) : j > Len(h) => g[j].cuid # d,
           NEW txs, Traced(h, d, txs)
    PROVE  Traced(g, d, txs) /\ OwnCount(g, d, Len(g)) = OwnCount(h, d, Len(h))
<1>1. Len(h) \in Nat /\ Len(g) \in Nat /\ Len(h) <= Len(g) /\ \A i \in 1..Len(h) : g[i] = h[i]
  BY DEF Longer
<1>2. {j \in 1..Len(g) : g[j].cuid = d} = {j \in 1..Len(h) : h[j].cuid = d}
  BY <1>1
<1>3. ASSUME NEW j \in 1..Len(g), g[j].cuid = d
      PROVE  /\ g[j].cseq = OwnCount(g, d, j)
             /\ g[j].cseq <= Len(txs) /\ g[j] = txs[g[j].cseq]
  <2>1. j \in 1..Len(h) /\ g[j] = h[j] /\ j \in Nat /\ j <= Len(h)
    BY <1>1, <1>3
  <2>2. OwnCount(g, d, j) = OwnCount(h, d, j)
    BY <2>1, BeginningStays
  <2>3. /\ h[j].cseq = OwnCount(h, d, j)
        /\ h[j].cseq <= Len(txs) /\ h[j] = txs[h[j].cseq]
    BY <1>3, <2>1 DEF Traced
  <2> QED
    BY <2>1, <2>2, <2>3
<1> QED
  BY <1>2, <1>3 DEF Traced, OwnCount

(* A longer history cuts at the same places, and the counter stays exact. *)
LEMMA ExactStays ==
    ASSUME ProtocolInv, ShelterInv, Orderly, ExactInv, NEW d \in Clients,
           dt'[d] = dt[d], inst'[d] = inst[d], srv'.history \in Seq(Transactions),
           Longer(srv.history, srv'.history)
    PROVE  Exact(d)'
<1> DEFINE h == srv.history
           g == srv'.history
           n == dt[d].cp.sseq
<1>1. Exact(d) /\ h \in Seq(Transactions) /\ n \in Nat
  BY ExactFacts
<1>2. dt[d].state # "Disabled" => n <= Len(h)
  BY ExactFacts
<1>3. dt[d].state # "Disabled" => /\ \A o : Upto(g, n, o) = Upto(h, n, o)
                                  /\ OwnCount(g, d, n) = OwnCount(h, d, n)
  <2> HIDE DEF h, g, n
  <2> QED
    BY <1>1, <1>2, BeginningStays DEF h, g
<1> QED
  BY <1>1, <1>3 DEF Exact, ExactReplica

(* A response under way stays the right one. *)
LEMMA AnsweredStays ==
    ASSUME ProtocolInv, ShelterInv, Orderly, ExactInv, NEW d \in Clients,
           dt'[d].state = dt[d].state, dt'[d].cp = dt[d].cp,
           inst'[d] = inst[d], net'[d] = net[d], duid'[d] = duid[d],
           srv'.history \in Seq(Transactions), Longer(srv.history, srv'.history),
           Free(d) => Free(d)'
    PROVE  Answered(d)' /\ (Confirms(d)' <=> Confirms(d))
           /\ (AppliesSubscription(d, net[d])' <=> AppliesSubscription(d, net[d]))
<1> DEFINE h == srv.history
           g == srv'.history
           r == net[d]
           n == dt[d].cp.sseq
           k == r.cp.sseq
<1>1. /\ (Confirms(d)' <=> Confirms(d))
      /\ (AppliesSubscription(d, net[d])' <=> AppliesSubscription(d, r))
  BY DEF Confirms, AppliesSubscription
<1>2. SUFFICES ASSUME Confirms(d) PROVE Answered(d)'
  BY <1>1 DEF Answered
<1>3. Answered(d) /\ h \in Seq(Transactions) /\ n \in Nat /\ k \in Nat /\ k <= Len(h)
  BY <1>2, ExactFacts DEF Confirms
<1>4. n <= k
  BY <1>2, <1>3 DEF Answered
<1>5. n <= Len(h)
  BY <1>3, <1>4, LenProperties
<1>6. /\ \A o : Upto(g, n, o) = Upto(h, n, o) /\ Upto(g, k, o) = Upto(h, k, o)
      /\ OwnCount(g, d, k) = OwnCount(h, d, k)
  <2> HIDE DEF h, g, n, k
  <2> QED
    BY <1>3, <1>5, BeginningStays DEF h, g
<1>7. Cuts(d, r.cp) => Cuts(d, net[d].cp)'
  BY <1>6 DEF Cuts
<1>8. Started(r) => Started(net[d])'
  BY <1>6 DEF Started
<1>9. Continued(d, r) => Continued(d, net[d])'
  BY <1>6 DEF Continued
<1>10. PullCount(dt[d], net[d])' = PullCount(dt[d], r)
  BY DEF PullCount
<1>11. /\ dt[d].state # "Disabled" /\ r.state = "Subscribed"
       /\ r.txs \in Seq(Transactions)
       /\ dt[d].cp.sseq <= r.cp.sseq /\ dt[d].cp.cseq <= r.cp.cseq
       /\ Len(r.txs) <= PullCount(dt[d], r)
       /\ Cuts(d, r.cp)
       /\ IF AppliesSubscription(d, r) THEN Free(d) /\ Started(r) ELSE Continued(d, r)
  BY <1>2, <1>3 DEF Answered
<1> QED
  BY <1>1, <1>7, <1>8, <1>9, <1>10, <1>11 DEF Answered

(* A step of client c that spares the others keeps their part. *)
LEMMA ExactOthers ==
    ASSUME ProtocolInv, ShelterInv, Orderly, ExactInv, NEW c \in Clients, Frame(c),
           \A d \in Clients \ {c} : Spared(d), Creation', ExactClient(c)'
    PROVE  ExactInv'
<1> SUFFICES ASSUME NEW d \in Clients \ {c} PROVE ExactClient(d)'
  BY DEF ExactInv
<1>1. /\ inst'[d] = inst[d] /\ dt'[d] = dt[d] /\ duid'[d] = duid[d]
      /\ net'[d] = net[d] /\ loop'[d] = loop[d]
  BY DEF Frame
<1>2. /\ srv'.cseqMap[d] = srv.cseqMap[d]
      /\ srv'.history \in Seq(Transactions) /\ Longer(srv.history, srv'.history)
      /\ \A j \in 1..Len(srv'.history) : j > Len(srv.history) => srv'.history[j].cuid # d
      /\ srv.created => srv'.created
      /\ srv'.created =>
            \/ srv.created /\ srv'.creator = srv.creator /\ srv'.duid = srv.duid
            \/ srv'.creator # d /\ \A k \in Nat : srv'.duid # <<d, k>>
  BY DEF Spared
<1>3. /\ Settled(d) /\ Fresh(d) /\ Refused(d) /\ Identified(d) /\ OwnOps(d)
      /\ Recorded(d) /\ Exact(d) /\ Answered(d)
  BY ExactFacts
<1>4. Free(d) => Free(d)'
  BY <1>2 DEF Free
<1>5. Exact(d)'
  BY <1>1, <1>2, ExactStays
<1>6. /\ Answered(d)' /\ (Confirms(d)' <=> Confirms(d))
      /\ (AppliesSubscription(d, net[d])' <=> AppliesSubscription(d, net[d]))
  BY <1>1, <1>2, <1>4, AnsweredStays
<1>7. Settled(d)' /\ OwnOps(d)'
  BY <1>1, <1>3 DEF Settled, OwnOps
<1>8. Fresh(d)' /\ Refused(d)'
  BY <1>1, <1>3, <1>4, <1>6 DEF Fresh, Refused, Accepted
<1>9. Identified(d)'
  <2>1. inst[d] \in Nat
    BY ExactFacts
  <2>2. ASSUME dt[d].state \in InitialStates
        PROVE  /\ duid'[d] = <<d, inst[d]>> /\ dt'[d].cp = [sseq |-> 0, cseq |-> 0]
               /\ srv'.created /\ srv'.duid = duid'[d] => Confirms(d)'
    BY <1>1, <1>2, <1>3, <1>6, <2>1, <2>2 DEF Identified
  <2>3. srv'.created => \A k \in Nat : k > inst[d] => srv'.duid # <<d, k>>
    BY <1>2, <1>3 DEF Identified
  <2>4. dt'[d].state = "Subscribed" \/ Confirms(d)' => srv'.created
    BY <1>1, <1>2, <1>3, <1>6 DEF Identified
  <2> QED
    BY <1>1, <2>2, <2>3, <2>4 DEF Identified
<1>10. Recorded(d)'
  <2>1. srv.history \in Seq(Transactions)
    BY ExactFacts
  <2>2. /\ Traced(srv'.history, d, dt[d].buf.txs)
        /\ OwnCount(srv'.history, d, Len(srv'.history)) = OwnCount(srv.history, d, Len(srv.history))
    BY <1>2, <1>3, <2>1, SparedRecord DEF Recorded
  <2> QED
    BY <1>1, <1>2, <1>3, <2>2 DEF Recorded
<1> QED
  BY <1>5, <1>6, <1>7, <1>8, <1>9, <1>10 DEF ExactClient

(* A step that leaves the server alone spares everybody. *)
LEMMA SameSpared ==
    ASSUME ProtocolInv, ShelterInv, Orderly, ExactInv, srv' = srv
    PROVE  Creation' /\ \A d \in Clients : Spared(d)
<1>1. srv.history \in Seq(Transactions)
  BY DEF ProtocolInv, ServerShape
<1>2. Longer(srv.history, srv.history)
  BY <1>1 DEF Longer
<1> QED
  BY <1>1, <1>2 DEF Spared, ExactInv, Creation

-----------------------------------------------------------------------------
(* A history traced to a push buffer is traced to one that has grown. *)
LEMMA TracedLonger ==
    ASSUME NEW h \in Seq(Transactions), NEW c, NEW txs \in Seq(Transactions),
           NEW more \in Seq(Transactions), Traced(h, c, txs), Longer(txs, more)
    PROVE  Traced(h, c, more)
<1> SUFFICES ASSUME NEW j \in 1..Len(h), h[j].cuid = c
             PROVE  /\ h[j].cseq = OwnCount(h, c, j)
                    /\ h[j].cseq <= Len(more) /\ h[j] = more[h[j].cseq]
  BY DEF Traced
<1> DEFINE K(n) == OwnCount(h, c, n)
           i == j - 1
<1>1. j \in Nat /\ i \in Nat /\ i + 1 = j
  OBVIOUS
<1>2. K(i) \in Nat /\ K(i + 1) = K(i) + 1
  BY <1>1, OwnCountSteps
<1>3. h[j].cseq = K(j) /\ K(j) <= Len(txs) /\ h[j] = txs[K(j)]
  BY DEF Traced
<1> HIDE DEF K
<1>4. K(j) \in 1..Len(txs)
  BY <1>1, <1>2, <1>3
<1>5. Len(txs) <= Len(more) /\ more[K(j)] = txs[K(j)]
  BY <1>4 DEF Longer
<1>6. K(j) <= Len(more)
  BY <1>4, <1>5
<1> QED
  BY <1>3, <1>5, <1>6 DEF K

(* A step of a user thread keeps the invariant if the counter stays exact   *)
(* and the push buffer keeps what it has.                                   *)
LEMMA UserExact ==
    ASSUME ProtocolInv, ShelterInv, Orderly, ExactInv, NEW c \in Clients, Frame(c),
           srv' = srv, inst'[c] = inst[c], net'[c] = net[c], duid'[c] = duid[c],
           loop'[c] = loop[c], dt'[c].cp = dt[c].cp, dt'[c].state = dt[c].state,
           dt'[c].pending # <<>> => dt'[c].rollback.state = dt[c].state,
           dt'[c].buf.txs \in Seq(Transactions), Longer(dt[c].buf.txs, dt'[c].buf.txs),
           OwnOps(c)', Exact(c)'
    PROVE  ExactInv'
<1>1. Creation' /\ \A d \in Clients : Spared(d)
  BY SameSpared
<1>2. /\ Settled(c) /\ Fresh(c) /\ Refused(c) /\ Identified(c) /\ Recorded(c)
      /\ srv.history \in Seq(Transactions) /\ dt[c].buf.txs \in Seq(Transactions)
  BY ExactFacts
<1>3. (Free(c)' <=> Free(c)) /\ srv'.history \in Seq(Transactions) /\ Longer(srv.history, srv'.history)
  BY <1>1, <1>2 DEF Free, Spared
<1>4. /\ Answered(c)' /\ (Confirms(c)' <=> Confirms(c))
      /\ (AppliesSubscription(c, net[c])' <=> AppliesSubscription(c, net[c]))
  BY <1>3, AnsweredStays
<1>5. Settled(c)' /\ Refused(c)'
  BY <1>2, <1>3 DEF Settled, Refused
<1>6. Fresh(c)' /\ Identified(c)'
  BY <1>2, <1>3, <1>4 DEF Fresh, Identified, Accepted
<1>7. Recorded(c)'
  <2>1. Traced(srv.history, c, dt'[c].buf.txs)
    BY <1>2, TracedLonger DEF Recorded
  <2> QED
    BY <1>2, <2>1 DEF Recorded
<1>8. ExactClient(c)'
  BY <1>4, <1>5, <1>6, <1>7 DEF ExactClient
<1> QED
  BY <1>1, <1>8, ExactOthers

(* check_writable and check_subscribed. *)
LEMMA CheckExact ==
    ASSUME ProtocolInv, ShelterInv, Orderly, ExactInv, NEW c \in Clients, Frame(c),
           CheckWritable(c) \/ CheckSubscribed(c)
    PROVE  ExactInv'
<1>1. /\ inst' = inst /\ dt' = dt /\ duid' = duid /\ loop' = loop /\ net' = net /\ srv' = srv
  BY DEF CheckWritable, CheckSubscribed
<1>2. /\ Settled(c) /\ OwnOps(c) /\ dt[c].buf.txs \in Seq(Transactions)
      /\ srv.history \in Seq(Transactions)
  BY ExactFacts
<1>3. Longer(dt[c].buf.txs, dt[c].buf.txs) /\ Longer(srv.history, srv.history)
  BY <1>2 DEF Longer
<1>4. Exact(c)'
  BY <1>1, <1>2, <1>3, ExactStays
<1>5. OwnOps(c)' /\ (dt'[c].pending # <<>> => dt'[c].rollback.state = dt[c].state)
  BY <1>1, <1>2 DEF OwnOps, OwnReplica, Settled
<1> QED
  BY <1>1, <1>2, <1>3, <1>4, <1>5, UserExact

(* execute_local_operation adds its operation to the counter and to the     *)
(* open transaction.                                                        *)
LEMMA ExecuteLocalCounter ==
    ASSUME NEW m, Replica(m), m.crdt \in [Origins -> Int], NEW op \in Origins,
           NEW r, r = ExecuteLocal(m, op)
    PROVE  /\ r.pending = Append(m.pending, op)
           /\ r.crdt \in [Origins -> Int]
           /\ \A o \in Origins : r.crdt[o] = m.crdt[o] + (IF op = o THEN 1 ELSE 0)
<1>1. ExecuteOps(m.crdt, <<op>>) = [o \in Origins |-> m.crdt[o] + (IF op = o THEN 1 ELSE 0)]
  <2>1. \A o \in Origins : OpCount(<<op>>, o) = IF op = o THEN 1 ELSE 0
    BY OpCountOne
  <2>2. DOMAIN m.crdt = Origins
    OBVIOUS
  <2> QED
    BY <2>1, <2>2 DEF ExecuteOps
<1>2. r.crdt = ExecuteOps(m.crdt, <<op>>)
  BY DEF ExecuteLocal, Replica
<1>3. r.pending = Append(m.pending, op)
  <2>1. CASE m.pending = <<>>
    <3>1. r.pending = <<op>>
      BY <2>1 DEF ExecuteLocal, Replica
    <3> QED
      BY <2>1, <3>1
  <2>2. CASE m.pending # <<>>
    BY <2>2 DEF ExecuteLocal, Replica
  <2> QED
    BY <2>1, <2>2
<1> DEFINE e == [o \in Origins |-> m.crdt[o] + (IF op = o THEN 1 ELSE 0)]
<1>4. e \in [Origins -> Int]
  OBVIOUS
<1>5. r.crdt = e
  BY <1>1, <1>2
<1> QED
  BY <1>3, <1>4, <1>5

(* execute_local_operation. *)
LEMMA ExecuteOpExact ==
    ASSUME ProtocolInv, ShelterInv, Orderly, ExactInv, NEW c \in Clients, Frame(c), ExecuteOp(c)
    PROVE  ExactInv'
<1> DEFINE m == dt[c]
           n == dt'[c]
           op == <<c, inst[c]>>
<1>1. /\ Domains /\ Shape(c) /\ Phase(c) /\ Settled(c) /\ OwnOps(c) /\ Exact(c)
      /\ m.buf.txs \in Seq(Transactions) /\ m.pending \in Seq(Origins)
  BY ExactFacts
<1>2. /\ "write" \in checked[c] /\ dt' = [dt EXCEPT ![c] = ExecuteLocal(@, op)]
      /\ inst' = inst /\ duid' = duid /\ loop' = loop /\ net' = net /\ srv' = srv
  BY DEF ExecuteOp
<1>3. op \in Origins
  BY <1>1, <1>2, SyncAssumption DEF Phase, Shape, Origins
<1>4. n = ExecuteLocal(m, op) /\ Replica(m) /\ m.crdt \in [Origins -> Int]
  BY <1>1, <1>2 DEF Domains, Shape, Exact, ExactReplica
<1>5. /\ n.buf = m.buf /\ n.cp = m.cp /\ n.state = m.state
      /\ m.pending = <<>> => n.rollback = [cseq |-> m.cseq, state |-> m.state]
      /\ m.pending # <<>> => n.rollback = m.rollback
  <2> HIDE DEF m, n, op
  <2> QED
    BY <1>3, <1>4, ExecuteLocalFields
<1>6. /\ n.pending = Append(m.pending, op)
      /\ n.crdt \in [Origins -> Int]
      /\ \A o \in Origins : n.crdt[o] = m.crdt[o] + (IF op = o THEN 1 ELSE 0)
  <2> HIDE DEF m, n, op
  <2> QED
    BY <1>3, <1>4, ExecuteLocalCounter
<1>7. Longer(m.buf.txs, n.buf.txs) /\ n.buf.txs \in Seq(Transactions)
  BY <1>1, <1>5 DEF Longer
<1>8. n.rollback.state = m.state
  BY <1>1, <1>5 DEF Settled
<1>9. OwnOps(c)'
  <2>1. \A i \in 1..Len(n.pending) : n.pending[i] = op
    <3>1. \A i \in 1..Len(m.pending) : m.pending[i] = op
      BY <1>1 DEF OwnOps, OwnReplica
    <3> HIDE DEF m, n, op
    <3> QED
      BY <1>1, <1>3, <1>6, <3>1
  <2>2. \A i \in 1..Len(n.buf.txs) : \A j \in 1..Len(n.buf.txs[i].ops) : n.buf.txs[i].ops[j] = op
    BY <1>1, <1>5 DEF OwnOps, OwnReplica
  <2>3. OwnReplica(n, c, inst[c])
    BY <2>1, <2>2 DEF OwnReplica
  <2> QED
    BY <1>2, <2>3 DEF OwnOps
<1>10. Exact(c)'
  <2> SUFFICES ASSUME m.state # "Disabled"
               PROVE  /\ m.cp.cseq = OwnCount(srv.history, c, m.cp.sseq)
                      /\ \A o \in Origins :
                            n.crdt[o] = IF o = op
                                        THEN TxsCount(m.buf.txs, o) + OpCount(n.pending, o)
                                        ELSE Upto(srv.history, m.cp.sseq, o)
    <3>1. ExactReplica(n, srv.history, c, inst[c])
      <4> HIDE DEF m, n
      <4> QED
        BY <1>5, <1>6 DEF ExactReplica
    <3> QED
      BY <1>2, <3>1 DEF Exact
  <2>1. /\ m.cp.cseq = OwnCount(srv.history, c, m.cp.sseq)
        /\ \A o \in Origins :
              m.crdt[o] = IF o = op THEN TxsCount(m.buf.txs, o) + OpCount(m.pending, o)
                          ELSE Upto(srv.history, m.cp.sseq, o)
    BY <1>1 DEF Exact, ExactReplica
  <2>2. ASSUME NEW o \in Origins
        PROVE  n.crdt[o] = IF o = op THEN TxsCount(m.buf.txs, o) + OpCount(n.pending, o)
                           ELSE Upto(srv.history, m.cp.sseq, o)
    <3>1. m.crdt[o] \in Int
      BY <1>4
    <3>2. CASE o = op
      <4>1. /\ OpCount(n.pending, o) = OpCount(m.pending, o) + 1
            /\ OpCount(m.pending, o) \in Nat /\ TxsCount(m.buf.txs, o) \in Nat
        <5> HIDE DEF m, n, op
        <5>1. OpCount(Append(m.pending, op), o) = OpCount(m.pending, o) + (IF op = o THEN 1 ELSE 0)
          BY <1>1, <1>3, OpCountAppend
        <5>2. OpCount(m.pending, o) \in Nat /\ TxsCount(m.buf.txs, o) \in Nat
          BY <1>1, OpCountFacts, TxsCountFacts
        <5> QED
          BY <1>6, <3>2, <5>1, <5>2
      <4>2. n.crdt[o] = m.crdt[o] + 1 /\ m.crdt[o] = TxsCount(m.buf.txs, o) + OpCount(m.pending, o)
        BY <1>6, <2>1, <3>2
      <4> HIDE DEF m, n, op
      <4> QED
        BY <3>2, <4>1, <4>2
    <3>3. CASE o # op
      <4>1. n.crdt[o] = m.crdt[o] + 0 /\ m.crdt[o] = Upto(srv.history, m.cp.sseq, o)
        BY <1>6, <2>1, <3>3
      <4> HIDE DEF m, n, op
      <4> QED
        BY <3>1, <3>3, <4>1
    <3> QED
      BY <3>2, <3>3
  <2> QED
    BY <2>1, <2>2
<1> QED
  BY <1>2, <1>5, <1>7, <1>8, <1>9, <1>10, UserExact

(* do_rollback takes the operations of the open transaction back. *)
LEMMA RollbackCounter ==
    ASSUME NEW m, Replica(m), m.crdt \in [Origins -> Int], m.pending # <<>>,
           NEW r, r = DoRollback(m)
    PROVE  /\ r.crdt \in [Origins -> Int]
           /\ \A o \in Origins : r.crdt[o] = m.crdt[o] - OpCount(m.pending, o)
<1> DEFINE e == [o \in Origins |-> m.crdt[o] - OpCount(m.pending, o)]
           none == <<>>
<1>1. m.pending \in Seq(Origins)
  BY DEF Replica
<1>2. \A o : OpCount(m.pending, o) \in Nat
  BY <1>1, OpCountFacts
<1>3. e \in [Origins -> Int]
  BY <1>2
<1>4. InverseOps(m.crdt, m.pending) = e
  BY DEF InverseOps
<1>5. r = [m EXCEPT !.crdt = e, !.cseq = m.rollback.cseq,
                    !.state = m.rollback.state, !.pending = none]
  BY <1>4 DEF DoRollback, Replica
<1>6. r.crdt = e
  <2> HIDE DEF e, none
  <2> QED
    BY <1>5 DEF Replica
<1> QED
  BY <1>3, <1>6

(* A commit leaves the counter alone. *)
LEMMA CommitCounter ==
    ASSUME NEW m, Replica(m), NEW c \in Clients, NEW ok \in BOOLEAN, m.pending # <<>>,
           NEW r, r = EndTransaction(m, c, ok, MaxMem), r # DoRollback(m)
    PROVE  r.crdt = m.crdt /\ PendingTx(m, c).ops = m.pending
<1> DEFINE b == Enqueue(m.buf, PendingTx(m, c))
           none == <<>>
<1>1. r = [m EXCEPT !.buf = b, !.pending = none]
  BY DEF EndTransaction
<1>2. r.crdt = m.crdt
  <2> HIDE DEF b, none
  <2> QED
    BY <1>1 DEF Replica
<1> QED
  BY <1>2 DEF PendingTx

(* What a sequence with one more element holds. *)
LEMMA AppendElements ==
    ASSUME NEW S, NEW s \in Seq(S), NEW x \in S, NEW t, t = Append(s, x)
    PROVE  \A k \in 1..Len(t) : t[k] = x \/ (k \in 1..Len(s) /\ t[k] = s[k])
OBVIOUS

(* end_transaction keeps the counter exact: a commit moves the operations   *)
(* from the open transaction into the push buffer, a rollback undoes them.  *)
LEMMA EndTransactionExact ==
    ASSUME NEW m, Replica(m), NEW c \in Clients, NEW i, NEW h, NEW ok \in BOOLEAN,
           m.pending # <<>>, m.rollback.state = m.state,
           ExactReplica(m, h, c, i), OwnReplica(m, c, i),
           NEW r, r = EndTransaction(m, c, ok, MaxMem)
    PROVE  /\ r.cp = m.cp /\ r.state = m.state /\ r.pending = <<>>
           /\ r.buf.txs \in Seq(Transactions) /\ Longer(m.buf.txs, r.buf.txs)
           /\ ExactReplica(r, h, c, i) /\ OwnReplica(r, c, i)
<1> DEFINE tx == PendingTx(m, c)
           op == <<c, i>>
           none == <<>>
           P(o) == OpCount(m.pending, o)
           T(o) == TxsCount(m.buf.txs, o)
<1>1. m.buf.txs \in Seq(Transactions) /\ m.pending \in Seq(Origins) /\ m.crdt \in [Origins -> Int]
  BY DEF Replica, Buffers, ExactReplica
<1>2. \A o : P(o) \in Nat /\ T(o) \in Nat /\ OpCount(none, o) = 0
  <2>1. none \in Seq(Origins) /\ Len(none) = 0
    OBVIOUS
  <2> HIDE DEF none
  <2>2. \A o : P(o) \in Nat /\ T(o) \in Nat
    BY <1>1, OpCountFacts, TxsCountFacts
  <2>3. ASSUME NEW o PROVE OpCount(none, o) = 0
    <3>1. \A k \in 1..Len(none) : none[k] # o
      BY <2>1
    <3> QED
      BY <2>1, <3>1, OpCountFacts
  <2> QED
    BY <2>2, <2>3
<1>3. ASSUME NEW o, o # op PROVE P(o) = 0
  <2>1. \A k \in 1..Len(m.pending) : m.pending[k] # o
    BY <1>3 DEF OwnReplica
  <2> QED
    BY <1>1, <2>1, OpCountFacts
<1>4. m.state # "Disabled" =>
          /\ m.cp.cseq = OwnCount(h, c, m.cp.sseq)
          /\ \A o \in Origins : /\ o = op => m.crdt[o] = T(o) + P(o)
                                /\ o # op => m.crdt[o] = Upto(h, m.cp.sseq, o)
  BY DEF ExactReplica
<1>5. CASE r = DoRollback(m)
  <2>1. r.buf = m.buf /\ r.cp = m.cp /\ r.pending = none /\ r.state = m.state
    BY <1>5, DoRollbackFields
  <2>2. r.crdt \in [Origins -> Int] /\ \A o \in Origins : r.crdt[o] = m.crdt[o] - P(o)
    BY <1>1, <1>5, RollbackCounter
  <2>3. OwnReplica(r, c, i)
    BY <2>1 DEF OwnReplica
  <2>4. Longer(m.buf.txs, r.buf.txs)
    BY <1>1, <2>1 DEF Longer
  <2>5. ASSUME m.state # "Disabled", NEW o \in Origins
        PROVE  /\ o = op => r.crdt[o] = T(o) + OpCount(none, o)
               /\ o # op => r.crdt[o] = Upto(h, m.cp.sseq, o)
    <3>1. r.crdt[o] = m.crdt[o] - P(o) /\ m.crdt[o] \in Int
      BY <1>1, <2>2
    <3>2. CASE o = op
      <4>1. m.crdt[o] = T(o) + P(o) /\ OpCount(none, o) = 0
        BY <1>2, <1>4, <2>5, <3>2
      <4>2. P(o) \in Nat /\ T(o) \in Nat
        BY <1>2
      <4> HIDE DEF P, T, none
      <4> QED
        BY <3>1, <3>2, <4>1, <4>2
    <3>3. CASE o # op
      <4>1. m.crdt[o] = Upto(h, m.cp.sseq, o) /\ P(o) = 0
        BY <1>3, <1>4, <2>5, <3>3
      <4> HIDE DEF P
      <4> QED
        BY <3>1, <3>3, <4>1
    <3> QED
      BY <3>2, <3>3
  <2>6. ExactReplica(r, h, c, i)
    <3> HIDE DEF none
    <3> QED
      BY <1>4, <2>1, <2>2, <2>5 DEF ExactReplica
  <2> QED
    BY <1>1, <2>1, <2>3, <2>4, <2>6
<1>6. CASE r # DoRollback(m)
  <2>1. /\ r.cp = m.cp /\ r.state = m.state /\ r.pending = none
        /\ tx \in Transactions /\ r.buf.txs = Append(m.buf.txs, tx)
    BY <1>6, EndTransactionFields
  <2>2. r.crdt = m.crdt /\ tx.ops = m.pending
    BY <1>6, CommitCounter
  <2> HIDE DEF tx
  <2>3. Longer(m.buf.txs, r.buf.txs) /\ r.buf.txs \in Seq(Transactions)
    BY <1>1, <2>1 DEF Longer
  <2>4. OwnReplica(r, c, i)
    <3>1. \A k \in 1..Len(m.buf.txs) : \A j \in 1..Len(m.buf.txs[k].ops) : m.buf.txs[k].ops[j] = op
      BY DEF OwnReplica
    <3>2. \A j \in 1..Len(tx.ops) : tx.ops[j] = op
      BY <2>2 DEF OwnReplica
    <3>3. \A k \in 1..Len(r.buf.txs) :
              r.buf.txs[k] = tx \/ (k \in 1..Len(m.buf.txs) /\ r.buf.txs[k] = m.buf.txs[k])
      BY <1>1, <2>1, AppendElements
    <3>4. \A k \in 1..Len(r.pending) : r.pending[k] = op
      BY <2>1
    <3> HIDE DEF op
    <3>5. ASSUME NEW k \in 1..Len(r.buf.txs), NEW j \in 1..Len(r.buf.txs[k].ops)
          PROVE  r.buf.txs[k].ops[j] = op
      <4>1. CASE r.buf.txs[k] = tx
        BY <3>2, <3>5, <4>1
      <4>2. CASE k \in 1..Len(m.buf.txs) /\ r.buf.txs[k] = m.buf.txs[k]
        BY <3>1, <3>5, <4>2
      <4> QED
        BY <3>3, <4>1, <4>2
    <3> QED
      BY <3>4, <3>5 DEF OwnReplica, op
  <2>5. ASSUME m.state # "Disabled", NEW o \in Origins
        PROVE  /\ o = op => r.crdt[o] = TxsCount(r.buf.txs, o) + OpCount(none, o)
               /\ o # op => r.crdt[o] = Upto(h, m.cp.sseq, o)
    <3>1. o # op => r.crdt[o] = Upto(h, m.cp.sseq, o)
      BY <1>4, <2>2, <2>5
    <3>2. CASE o = op
      <4>1. m.crdt[o] = T(o) + P(o) /\ OpCount(none, o) = 0 /\ P(o) \in Nat /\ T(o) \in Nat
        BY <1>2, <1>4, <2>5, <3>2
      <4>2. TxsCount(r.buf.txs, o) = T(o) + P(o)
        BY <1>1, <2>1, <2>2, TxsCountAppend
      <4> HIDE DEF P, T, none
      <4> QED
        BY <2>2, <3>2, <4>1, <4>2
    <3> QED
      BY <3>1, <3>2
  <2>6. ExactReplica(r, h, c, i)
    <3> HIDE DEF none
    <3> QED
      BY <1>1, <1>4, <2>1, <2>2, <2>5 DEF ExactReplica
  <2> QED
    BY <2>1, <2>3, <2>4, <2>6
<1> QED
  BY <1>5, <1>6

(* end_transaction. *)
LEMMA EndTxExact ==
    ASSUME ProtocolInv, ShelterInv, Orderly, ExactInv, NEW c \in Clients, Frame(c),
           NEW ok \in BOOLEAN, EndTx(c, ok)
    PROVE  ExactInv'
<1> DEFINE m == dt[c]
           n == dt'[c]
<1>1. /\ Domains /\ Shape(c) /\ Settled(c) /\ OwnOps(c) /\ Exact(c)
  BY ExactFacts
<1>2. /\ m.pending # <<>> /\ dt' = [dt EXCEPT ![c] = EndTransaction(@, c, ok, MaxMem)]
      /\ inst' = inst /\ net' = net /\ srv' = srv /\ duid' = duid /\ loop' = loop
  BY DEF EndTx, clientVars
<1>3. /\ n = EndTransaction(m, c, ok, MaxMem) /\ Replica(m) /\ m.pending # <<>>
      /\ m.rollback.state = m.state
      /\ ExactReplica(m, srv.history, c, inst[c]) /\ OwnReplica(m, c, inst[c])
  BY <1>1, <1>2 DEF Domains, Shape, Settled, Exact, OwnOps
<1>4. /\ n.cp = m.cp /\ n.state = m.state /\ n.pending = <<>>
      /\ n.buf.txs \in Seq(Transactions) /\ Longer(m.buf.txs, n.buf.txs)
      /\ ExactReplica(n, srv.history, c, inst[c]) /\ OwnReplica(n, c, inst[c])
  <2> HIDE DEF m, n
  <2> QED
    BY <1>3, EndTransactionExact
<1>5. OwnOps(c)' /\ Exact(c)'
  BY <1>2, <1>4 DEF OwnOps, Exact
<1> QED
  BY <1>2, <1>4, <1>5, UserExact

-----------------------------------------------------------------------------
(* A Disabled datatype has nothing stored. *)
LEMMA DisabledFree ==
    ASSUME ProtocolInv, ShelterInv, Orderly, ExactInv, NEW c \in Clients,
           dt[c].state = "Disabled"
    PROVE  Free(c)
<1>1. Fresh(c) /\ Answered(c)
  BY ExactFacts
<1> QED
  BY <1>1 DEF Fresh, Accepted, Answered

(* A step of the event loop that ends an exchange keeps the invariant if    *)
(* the counter stays exact.                                                 *)
LEMMA LoopExact ==
    ASSUME ProtocolInv, ShelterInv, Orderly, ExactInv, NEW c \in Clients, Frame(c),
           srv' = srv, inst'[c] = inst[c], inst[c] >= 1, loop'[c] # "Panicked",
           net'[c].kind \in {"idle", "error"},
           net'[c].kind = "error" => dt'[c].state = "Disabled",
           dt'[c].pending = <<>> \/ dt'[c].rollback.state = dt'[c].state,
           Free(c) \/ dt'[c].state = "Subscribed",
           dt'[c].state \in InitialStates =>
              /\ dt[c].state = dt'[c].state /\ dt'[c].cp = dt[c].cp /\ duid'[c] = duid[c]
              /\ ~Confirms(c),
           dt'[c].state = "Subscribed" => dt[c].state = "Subscribed" \/ Confirms(c),
           Free(c) \/ dt'[c].buf = dt[c].buf,
           OwnOps(c)', Exact(c)'
    PROVE  ExactInv'
<1>1. Creation' /\ \A d \in Clients : Spared(d)
  BY SameSpared
<1>2. Fresh(c) /\ Identified(c) /\ Recorded(c) /\ inst[c] \in Nat
  BY ExactFacts
<1>3. Free(c)' <=> Free(c)
  BY DEF Free
<1>4. Settled(c)' /\ Refused(c)' /\ Answered(c)'
  BY <1>2 DEF Settled, Refused, Answered, Confirms
<1>5. Fresh(c)' /\ Identified(c)'
  <2>1. ~Confirms(c)'
    BY DEF Confirms
  <2> QED
    BY <1>2, <1>3, <2>1 DEF Fresh, Identified, Accepted
<1>6. Recorded(c)'
  <2>1. CASE dt'[c].buf = dt[c].buf
    BY <1>2, <2>1 DEF Recorded
  <2>2. CASE Free(c)
    <3>1. \A j \in 1..Len(srv.history) : srv.history[j].cuid # c
      BY <2>2, FreeHistory DEF Free
    <3>2. Traced(srv.history, c, dt'[c].buf.txs)
      BY <3>1 DEF Traced
    <3> QED
      BY <1>2, <3>2 DEF Recorded
  <2> QED
    BY <2>1, <2>2
<1>7. ExactClient(c)'
  BY <1>4, <1>5, <1>6 DEF ExactClient
<1> QED
  BY <1>1, <1>7, ExactOthers

(* A replica that only changes its state, to one it had or to Disabled. *)
LEMMA StateExact ==
    ASSUME NEW m, Replica(m), NEW st, NEW n, n = [m EXCEPT !.state = st],
           st \in {m.state, "Disabled"}, NEW h, NEW c, NEW i,
           ExactReplica(m, h, c, i), OwnReplica(m, c, i)
    PROVE  /\ n.state = st /\ n.cp = m.cp /\ n.buf = m.buf /\ n.pending = m.pending
           /\ n.rollback = m.rollback
           /\ ExactReplica(n, h, c, i) /\ OwnReplica(n, c, i)
<1>1. /\ n.state = st /\ n.cp = m.cp /\ n.buf = m.buf /\ n.pending = m.pending
      /\ n.rollback = m.rollback /\ n.crdt = m.crdt
  BY DEF Replica
<1>2. m.state = "Disabled" => st = "Disabled"
  OBVIOUS
<1> QED
  BY <1>1, <1>2 DEF ExactReplica, OwnReplica

(* do_push_pull finds every transaction it asks for. *)
LEMMA StartPushExact ==
    ASSUME ProtocolInv, ShelterInv, Orderly, ExactInv, NEW c \in Clients, Frame(c), StartPush(c)
    PROVE  ExactInv'
<1>1. /\ Domains /\ Settled(c) /\ Fresh(c) /\ Identified(c) /\ OwnOps(c) /\ Recorded(c) /\ Exact(c)
      /\ dt[c].cp.cseq \in Nat
  BY ExactFacts
<1>2. /\ net[c] = Idle /\ loop[c] = "Normal"
      /\ inst' = inst /\ dt' = dt /\ duid' = duid /\ loop' = loop /\ srv' = srv
      /\ net' = [net EXCEPT ![c] = IF CannotPushFrom(dt[c].buf, dt[c].cp.cseq + 1)
                                   THEN Failed(ReasonMapping("GetPushingTransactions"))
                                   ELSE CreatePushPullPack(c)]
  BY DEF StartPush, clientVars
<1>3. OwnNumbering(dt[c], c)
  BY <1>2, OwnFacts DEF Numbered, Live
<1>4. dt[c].buf.first_cseq \in {0, 1}
  BY <1>3 DEF OwnNumbering
<1>5. ~CannotPushFrom(dt[c].buf, dt[c].cp.cseq + 1)
  BY <1>1, <1>4 DEF CannotPushFrom
<1>6. /\ net'[c].kind = "push" /\ net'[c].state = dt[c].state
      /\ net'[c].readonly = (c \in ReadOnly)
  BY <1>1, <1>2, <1>5 DEF Domains, CreatePushPullPack
<1>7. ~Confirms(c) /\ ~Confirms(c)' /\ (Free(c)' <=> Free(c))
  BY <1>2, <1>6 DEF Confirms, Free, Idle
<1>8. Settled(c)' /\ Refused(c)' /\ Answered(c)'
  BY <1>1, <1>2, <1>6, <1>7 DEF Settled, Refused, Answered
<1>9. Fresh(c)' /\ Identified(c)'
  BY <1>1, <1>2, <1>7 DEF Fresh, Identified, Accepted
<1>10. OwnOps(c)' /\ Recorded(c)' /\ Exact(c)'
  BY <1>1, <1>2 DEF OwnOps, Recorded, Exact
<1>11. ExactClient(c)'
  BY <1>8, <1>9, <1>10 DEF ExactClient
<1> QED
  BY <1>2, <1>11, SameSpared, ExactOthers

(* A time-out. *)
LEMMA TimeOutExact ==
    ASSUME ProtocolInv, ShelterInv, Orderly, ExactInv, NEW c \in Clients, Frame(c), TimeOut(c)
    PROVE  ExactInv'
<1>1. /\ Domains /\ Settled(c) /\ OwnOps(c) /\ Exact(c)
      /\ dt[c].state \in InitialStates \cup {"Subscribed", "Disabled"}
      /\ net[c].kind \notin {"idle", "register"} => inst[c] >= 1
  BY ExactFacts
<1>2. /\ net[c].kind \in {"push", "pulled"} /\ net' = [net EXCEPT ![c] = Failed("RetryWithBackOff")]
      /\ inst' = inst /\ dt' = dt /\ duid' = duid /\ loop' = loop /\ srv' = srv
  BY Routed DEF TimeOut, clientVars
<1>3. dt[c].state \in {"Subscribed", "Disabled"}
  BY <1>1, OrderlyFacts DEF TimeOut, InitialStates
<1>4. net'[c].kind = "idle" /\ inst[c] >= 1
  BY <1>1, <1>2 DEF Domains, Failed, Idle
<1>5. Free(c) \/ dt[c].state = "Subscribed"
  BY <1>3, DisabledFree
<1>6. OwnOps(c)' /\ Exact(c)' /\ loop'[c] # "Panicked"
  BY <1>1, <1>2 DEF OwnOps, Exact, Settled
<1>7. dt'[c].pending = <<>> \/ dt'[c].rollback.state = dt'[c].state
  BY <1>1, <1>2 DEF Settled
<1>8. dt'[c].state \notin InitialStates
  BY <1>2, <1>3 DEF InitialStates
<1> QED
  BY <1>2, <1>4, <1>5, <1>6, <1>7, <1>8, LoopExact

(* An error response. *)
LEMMA ApplyErrorExact ==
    ASSUME ProtocolInv, ShelterInv, Orderly, ExactInv, NEW c \in Clients, Frame(c), ApplyError(c)
    PROVE  ExactInv'
<1> DEFINE m == dt[c]
           n == dt'[c]
           st == net[c].state
           e == Mapping(ToDatatypeError(net[c].error))
<1>1. /\ Domains /\ Shape(c) /\ Settled(c) /\ OwnOps(c) /\ Exact(c) /\ Refused(c) /\ Fresh(c)
      /\ net[c].kind \notin {"idle", "register"} => inst[c] >= 1
      /\ m.state \in InitialStates \cup {"Subscribed", "Disabled"}
  BY ExactFacts
<1>2. /\ net[c].kind = "pulled" /\ net[c].error # "none" /\ m.pending = <<>>
      /\ dt' = [dt EXCEPT ![c].state = st] /\ net' = [net EXCEPT ![c] = Failed(e)]
      /\ inst' = inst /\ duid' = duid /\ loop' = loop /\ srv' = srv
  BY OrderlyFacts DEF ApplyError, Arrived, clientVars
<1>3. /\ st = m.state \/ (st = "Disabled" /\ Free(c))
      /\ st = "Disabled" \/ net[c].error = "ServerInternalError"
  BY <1>1, <1>2 DEF Refused
<1>4. net'[c].kind \in {"idle", "error"} /\ (net'[c].kind = "error" => st = "Disabled")
  <2>1. net'[c] = Failed(e) /\ e \in {"RetryWithBackOff", "Disable"}
    BY <1>1, <1>2, Routed DEF Domains
  <2>2. net[c].error = "ServerInternalError" => e = "RetryWithBackOff"
    BY DEF ToDatatypeError, Mapping
  <2> HIDE DEF e
  <2> QED
    BY <1>3, <2>1, <2>2 DEF Failed, Idle
<1>5. /\ n = [m EXCEPT !.state = st] /\ Replica(m)
      /\ ExactReplica(m, srv.history, c, inst[c]) /\ OwnReplica(m, c, inst[c])
  BY <1>1, <1>2 DEF Domains, Shape, Exact, OwnOps
<1>6. /\ n.state = st /\ n.cp = m.cp /\ n.buf = m.buf /\ n.pending = m.pending
      /\ n.rollback = m.rollback
      /\ ExactReplica(n, srv.history, c, inst[c]) /\ OwnReplica(n, c, inst[c])
  <2> HIDE DEF m, n, st
  <2> QED
    BY <1>3, <1>5, StateExact
<1>7. OwnOps(c)' /\ Exact(c)' /\ loop'[c] # "Panicked"
  BY <1>1, <1>2, <1>6 DEF OwnOps, Exact, Settled
<1>8. ~Confirms(c) /\ (Free(c) \/ st = "Subscribed")
  BY <1>1, <1>2, <1>3 DEF Fresh, Accepted, Confirms
<1>9. st # "Disabled" => m.state = st
  BY <1>3
<1>10. inst'[c] = inst[c] /\ duid'[c] = duid[c] /\ inst[c] >= 1
  BY <1>1, <1>2
<1> QED
  BY <1>2, <1>4, <1>6, <1>7, <1>8, <1>9, <1>10, LoopExact DEF InitialStates

(* Every response without an error is legal. *)
LEMMA ApplyIllegalExact ==
    ASSUME ProtocolInv, ShelterInv, Orderly, ExactInv, NEW c \in Clients, ApplyIllegal(c)
    PROVE  FALSE
<1>1. Answered(c) /\ dt[c].state \in InitialStates \cup {"Subscribed", "Disabled"}
  BY ExactFacts
<1>2. Confirms(c) /\ ~LegalResponse(dt[c].state, net[c])
  BY DEF ApplyIllegal, Arrived, Confirms
<1> QED
  BY <1>1, <1>2 DEF Answered, LegalResponse, InitialStates

(* Disable finds a datatype nothing is stored of. *)
LEMMA HandleErrorExact ==
    ASSUME ProtocolInv, ShelterInv, Orderly, ExactInv, NEW c \in Clients, Frame(c), HandleError(c)
    PROVE  ExactInv'
<1> DEFINE m == dt[c]
           n == dt'[c]
<1>1. /\ Domains /\ Shape(c) /\ Settled(c) /\ Exact(c)
      /\ net[c].kind \notin {"idle", "register"} => inst[c] >= 1
  BY ExactFacts
<1>2. net[c].kind = "error" /\ net[c].recovery = "Disable" /\ m.state = "Disabled"
  BY <1>1 DEF HandleError, Shape, Exchange, Settled
<1>3. ApplyAction(m, "Disable") = Disable(m) /\ LoopModeFrom("Disable") = "Stopped"
  BY DEF ApplyAction, LoopModeFrom
<1>4. /\ dt' = [dt EXCEPT ![c] = Disable(@)] /\ net' = [net EXCEPT ![c] = Idle]
      /\ loop' = [loop EXCEPT ![c] = "Stopped"]
      /\ inst' = inst /\ srv' = srv /\ duid' = duid
  BY <1>1, <1>2, <1>3 DEF HandleError, clientVars, Domains
<1>5. /\ n = Disable(m) /\ net'[c].kind = "idle" /\ Replica(m) /\ loop'[c] = "Stopped"
      /\ m.crdt \in [Origins -> Int]
  BY <1>1, <1>4 DEF Domains, Idle, Shape, Exact, ExactReplica
<1>6. n.state = "Disabled" /\ n.pending = <<>> /\ n.buf = EmptyBuffer /\ n.crdt = m.crdt
  <2> DEFINE q == Reset(m)
  <2> HIDE DEF m, n
  <2>1. Replica(q) /\ q.pending = <<>> /\ q.buf = EmptyBuffer
    BY <1>5, ResetFields
  <2>2. q.crdt = m.crdt
    <3> DEFINE e == EmptyBuffer
               none == <<>>
               save == [cseq |-> m.cseq, state |-> m.state]
    <3>1. q = [m EXCEPT !.buf = e, !.pending = none, !.rollback = save]
      BY DEF Reset
    <3> HIDE DEF q, e, none, save
    <3> QED
      BY <1>5, <3>1 DEF Replica
  <2>3. n = [q EXCEPT !.state = "Disabled"]
    BY <1>5 DEF Disable
  <2> HIDE DEF q
  <2> QED
    BY <2>1, <2>2, <2>3 DEF Replica
<1>7. OwnReplica(n, c, inst[c]) /\ ExactReplica(n, srv.history, c, inst[c])
  <2>1. Len(<<>>) = 0 /\ EmptyBuffer.txs = <<>>
    BY DEF EmptyBuffer
  <2> HIDE DEF n
  <2> QED
    BY <1>5, <1>6, <2>1 DEF OwnReplica, ExactReplica
<1>8. OwnOps(c)' /\ Exact(c)'
  BY <1>4, <1>7 DEF OwnOps, Exact
<1>9. Free(c)
  BY <1>2, DisabledFree
<1> QED
  BY <1>1, <1>2, <1>4, <1>5, <1>6, <1>8, <1>9, LoopExact DEF InitialStates

(* apply_subscribe_response takes the snapshot over. *)
LEMMA SnapshotReplica ==
    ASSUME NEW m, Replica(m), NEW crdt, NEW n, n = ApplySnapshot(m, crdt)
    PROVE  /\ Replica(n) /\ n.cp = m.cp /\ n.buf = EmptyBuffer /\ n.pending = <<>>
           /\ n.crdt = crdt
<1> DEFINE q == [m EXCEPT !.crdt = crdt, !.cseq = 0]
           e == EmptyBuffer
           none == <<>>
           save == [cseq |-> q.cseq, state |-> q.state]
<1>1. Replica(q) /\ q.crdt = crdt
  BY DEF Replica
<1>2. n = [q EXCEPT !.buf = e, !.pending = none, !.rollback = save]
  BY DEF ApplySnapshot, Reset
<1>3. n.crdt = crdt
  <2> HIDE DEF q, e, none, save
  <2> QED
    BY <1>1, <1>2 DEF Replica
<1>4. Replica(n) /\ n.cp = m.cp /\ n.buf = EmptyBuffer /\ n.pending = <<>>
  <2>1. /\ Replica(n) /\ n.buf = EmptyBuffer /\ n.pending = <<>> /\ n.cseq = 0
        /\ n.cp = m.cp /\ n.state = m.state /\ n.rollback = [cseq |-> 0, state |-> m.state]
    BY SnapshotFields
  <2> QED
    BY <2>1
<1> QED
  BY <1>3, <1>4

(* A response whose transactions are no more than its checkpoint says is    *)
(* executed whole, and its checkpoint is taken over.                        *)
LEMMA PulledCounter ==
    ASSUME NEW m, Replica(m), m.crdt \in [Origins -> Int],
           NEW r, r.cp \in Checkpoints, r.txs \in Seq(Transactions),
           m.cp.sseq <= r.cp.sseq, m.cp.cseq <= r.cp.cseq, Len(r.txs) <= PullCount(m, r),
           NEW n, n = PulledReplica(m, r)
    PROVE  /\ ~Underflows(m, r) /\ n.cp = r.cp
           /\ n.crdt \in [Origins -> Int]
           /\ \A o \in Origins : n.crdt[o] = m.crdt[o] + TxsCount(r.txs, o)
<1> DEFINE k == PullCount(m, r)
           e == [o \in Origins |-> m.crdt[o] + TxsCount(r.txs, o)]
           cp == [sseq |-> Max({m.cp.sseq, r.cp.sseq}), cseq |-> Max({m.cp.cseq, r.cp.cseq})]
           all == SubSeq(r.txs, 1, Len(r.txs))
<1>1. /\ m.cp.sseq \in Nat /\ m.cp.cseq \in Nat /\ r.cp.sseq \in Nat /\ r.cp.cseq \in Nat
      /\ Len(r.txs) \in Nat
  BY DEF Replica, Checkpoints
<1>2. k \in Int
  BY <1>1 DEF PullCount
<1>3. k >= 0 /\ ~(Len(r.txs) > k)
  <2> HIDE DEF k
  <2> QED
    BY <1>1, <1>2 DEF k
<1>4. Skipped(m, r) = 0
  BY <1>3 DEF Skipped
<1>5. ~Underflows(m, r)
  BY <1>1, <1>2, <1>3 DEF Underflows
<1>6. all = r.txs
  <2>1. all \in Seq(Transactions) /\ Len(all) = Len(r.txs) /\ \A i \in 1..Len(all) : all[i] = r.txs[i]
    BY <1>1, Beginning
  <2> HIDE DEF all
  <2> QED
    BY <2>1, SeqEqual
<1>7. ExecuteTxs(m.crdt, SubSeq(r.txs, Skipped(m, r) + 1, Len(r.txs))) = e
  <2>1. SubSeq(r.txs, Skipped(m, r) + 1, Len(r.txs)) = all
    <3>1. Skipped(m, r) + 1 = 1
      BY <1>4
    <3> QED
      BY <3>1
  <2> HIDE DEF all
  <2> QED
    BY <1>6, <2>1 DEF ExecuteTxs
<1>8. cp = r.cp
  <2>1. Max({m.cp.sseq, r.cp.sseq}) = r.cp.sseq /\ Max({m.cp.cseq, r.cp.cseq}) = r.cp.cseq
    BY <1>1, MaxOfTwo
  <2> QED
    BY <2>1 DEF Checkpoints
<1>9. n = [m EXCEPT !.crdt = e, !.cp = cp, !.state = r.state]
  BY <1>7 DEF PulledReplica, Replica
<1>10. \A o : TxsCount(r.txs, o) \in Nat
  BY TxsCountFacts
<1>11. e \in [Origins -> Int]
  BY <1>10
<1>12. n.crdt = e /\ n.cp = cp
  <2> HIDE DEF e, cp
  <2> QED
    BY <1>9 DEF Replica
<1> QED
  BY <1>5, <1>8, <1>11, <1>12

(* Nothing that client c executes is in the history if nothing is stored of *)
(* it.                                                                      *)
LEMMA FreeUpto ==
    ASSUME ProtocolInv, ShelterInv, Orderly, ExactInv, NEW c \in Clients, srv.cseqMap[c] = 0,
           NEW i, NEW n \in Nat, n <= Len(srv.history)
    PROVE  Upto(srv.history, n, <<c, i>>) = 0 /\ OwnCount(srv.history, c, n) = 0
<1> DEFINE h == srv.history
           o == <<c, i>>
           none == <<>>
<1>1. h \in Seq(Transactions)
  BY ExactFacts
<1>2. \A j \in 1..Len(h) : h[j].cuid # c
  BY FreeHistory
<1>3. \A j \in 1..Len(h) : OpCount(h[j].ops, o) = 0
  <2> SUFFICES ASSUME NEW j \in 1..Len(h) PROVE OpCount(h[j].ops, o) = 0
    OBVIOUS
  <2>1. o # <<h[j].cuid, inst[h[j].cuid]>>
    BY <1>2
  <2> HIDE DEF o
  <2> QED
    BY <2>1, HistoryOrigins
<1>4. Traced(h, c, none)
  BY <1>2 DEF Traced
<1>5. none \in Seq(Transactions) /\ Len(none) = 0 /\ n \in 0..Len(h)
  BY <1>1
<1> HIDE DEF h, o, none
<1>6. OwnCount(h, c, n) <= Len(none) /\ Upto(h, n, o) = Upto(none, OwnCount(h, c, n), o)
  <2>1. \A j \in 1..Len(h) : h[j].cuid # c => OpCount(h[j].ops, o) = 0
    BY <1>3
  <2>2. h \in Seq(Transactions) /\ none \in Seq(Transactions) /\ n \in 0..Len(h)
    BY <1>1, <1>5
  <2>3. \A k \in 0..Len(h) : /\ OwnCount(h, c, k) <= Len(none)
                              /\ Upto(h, k, o) = Upto(none, OwnCount(h, c, k), o)
    BY ONLY <1>4, <2>1, <2>2, OwnUpto
  <2> QED
    BY <2>2, <2>3
<1>7. OwnCount(h, c, n) \in Nat
  BY OwnCountSteps
<1>8. Upto(none, 0, o) = 0
  BY <1>5, UptoSteps
<1>9. OwnCount(h, c, n) = 0
  BY <1>5, <1>6, <1>7
<1> QED
  BY <1>6, <1>8, <1>9 DEF h, o

(* PullHandler: a response brings exactly what its datatype misses. *)
LEMMA ApplyPulledExact ==
    ASSUME ProtocolInv, ShelterInv, Orderly, ExactInv, NEW c \in Clients, Frame(c), ApplyPulled(c)
    PROVE  ExactInv'
<1> DEFINE r == net[c]
           m == SubscribedReplica(c, r)
           n == dt'[c]
           q == dt[c]
           h == srv.history
           op == <<c, inst[c]>>
           applies == AppliesSubscription(c, r)
           panic == \/ dt[c].state = "Disabled"
                    \/ "debug" \in scenario.env /\ Underflows(m, r)
<1>1. /\ Domains /\ Shape(c) /\ Settled(c) /\ OwnOps(c) /\ Exact(c) /\ Answered(c)
      /\ Identified(c) /\ h \in Seq(Transactions)
      /\ net[c].kind \notin {"idle", "register"} => inst[c] >= 1
      /\ q.state # "Disabled" => Live(c)
      /\ r.kind = "pulled" => r.cp \in Checkpoints /\ r.cp.sseq \in Nat /\ r.cp.sseq <= Len(h)
  BY ExactFacts
<1>2. /\ r.kind = "pulled" /\ r.error = "none" /\ q.pending = <<>>
      /\ dt' = [dt EXCEPT ![c] = IF panic THEN m ELSE PulledReplica(m, r)]
      /\ inst' = inst /\ srv' = srv /\ net' = [net EXCEPT ![c] = Idle]
      /\ loop' = IF panic THEN [loop EXCEPT ![c] = "Panicked"] ELSE loop
  BY OrderlyFacts DEF ApplyPulled, Arrived, clientVars
<1>3. /\ q.state # "Disabled" /\ r.state = "Subscribed" /\ r.txs \in Seq(Transactions)
      /\ q.cp.sseq <= r.cp.sseq /\ q.cp.cseq <= r.cp.cseq
      /\ Len(r.txs) <= PullCount(q, r)
      /\ r.cp.cseq = OwnCount(h, c, r.cp.sseq)
      /\ applies => Free(c) /\ Started(r)
      /\ ~applies => Continued(c, r)
  BY <1>1, <1>2 DEF Answered, Confirms, Cuts
<1>4. /\ Live(c) /\ inst[c] >= 1 /\ r.cp \in Checkpoints /\ r.cp.sseq \in Nat
      /\ r.cp.sseq <= Len(h)
  BY <1>1, <1>2, <1>3
<1>5. /\ Replica(q) /\ ExactReplica(q, h, c, inst[c]) /\ OwnReplica(q, c, inst[c])
  BY <1>1 DEF Shape, Exact, OwnOps
<1>6. applies => /\ r.snapshot # <<>> /\ r.snapshot[1] \in [Origins -> Int]
                 /\ \A o \in Origins :
                       r.snapshot[1][o] + TxsCount(r.txs, o) = Upto(h, r.cp.sseq, o)
  BY <1>3 DEF Started
<1>7. /\ applies => m = ApplySnapshot(q, r.snapshot[1])
      /\ ~applies => m = q
  BY <1>6 DEF SubscribedReplica
<1>8. /\ Replica(m) /\ m.cp = q.cp /\ m.crdt \in [Origins -> Int]
      /\ applies => m.buf = EmptyBuffer /\ m.pending = <<>> /\ m.crdt = r.snapshot[1]
  <2>1. CASE applies
    <3> DEFINE s == r.snapshot[1]
    <3>1. m = ApplySnapshot(q, s) /\ s \in [Origins -> Int]
      BY <1>6, <1>7, <2>1
    <3> HIDE DEF s, m, q
    <3>2. /\ Replica(m) /\ m.cp = q.cp /\ m.buf = EmptyBuffer /\ m.pending = <<>>
          /\ m.crdt = s
      BY <1>5, <3>1, SnapshotReplica
    <3> QED
      BY <3>1, <3>2 DEF s
  <2>2. CASE ~applies
    BY <1>5, <1>7, <2>2 DEF ExactReplica
  <2> QED
    BY <2>1, <2>2
<1>9. PullCount(m, r) = PullCount(q, r)
  BY <1>8 DEF PullCount
<1> HIDE DEF m, applies
<1>10. ~Underflows(m, r)
  <2> HIDE DEF r, q
  <2> QED
    BY <1>3, <1>4, <1>8, <1>9, PulledCounter
<1>11. ~panic
  BY <1>3, <1>10
<1> HIDE DEF panic
<1>12. n = PulledReplica(m, r) /\ loop'[c] # "Panicked" /\ net'[c].kind = "idle"
  BY <1>1, <1>2, <1>11 DEF Domains, Settled, Idle
<1>13. n.buf = m.buf /\ n.pending = m.pending /\ n.state = "Subscribed"
  <2>1. r.state \in States
    BY <1>3 DEF States
  <2> HIDE DEF r, n
  <2> QED
    BY <1>3, <1>4, <1>8, <1>12, <2>1, PulledFields
<1>14. /\ n.cp = r.cp /\ n.crdt \in [Origins -> Int]
       /\ \A o \in Origins : n.crdt[o] = m.crdt[o] + TxsCount(r.txs, o)
  <2> HIDE DEF r, q, n
  <2> QED
    BY <1>3, <1>4, <1>8, <1>9, <1>12, PulledCounter
<1>15. OwnReplica(n, c, inst[c])
  <2>1. CASE applies
    <3>1. Len(<<>>) = 0 /\ EmptyBuffer.txs = <<>>
      BY DEF EmptyBuffer
    <3> HIDE DEF n
    <3> QED
      BY <1>8, <1>13, <2>1, <3>1 DEF OwnReplica
  <2>2. CASE ~applies
    <3>1. n.buf = q.buf /\ n.pending = q.pending
      BY <1>7, <1>13, <2>2
    <3> HIDE DEF n, q
    <3> QED
      BY <1>5, <3>1 DEF OwnReplica
  <2> QED
    BY <2>1, <2>2
<1>16. ASSUME NEW o \in Origins
       PROVE  /\ o = op => n.crdt[o] = TxsCount(n.buf.txs, o) + OpCount(n.pending, o)
              /\ o # op => n.crdt[o] = Upto(h, r.cp.sseq, o)
  <2> DEFINE M == m.crdt[o]
             N == n.crdt[o]
             X == TxsCount(r.txs, o)
             A == Upto(h, r.cp.sseq, o)
  <2>1. N = M + X
    BY <1>14
  <2>2. CASE applies
    <3>1. M + X = A
      BY <1>6, <1>8, <2>2
    <3>2. ASSUME o = op PROVE N = TxsCount(n.buf.txs, o) + OpCount(n.pending, o)
      <4>1. A = 0
        BY <1>3, <1>4, <2>2, <3>2, FreeUpto DEF Free
      <4> DEFINE none == <<>>
      <4>2. n.buf.txs = none /\ n.pending = none
        BY <1>8, <1>13, <2>2 DEF EmptyBuffer
      <4>3. none \in Seq(Transactions) /\ none \in Seq(Origins) /\ Len(none) = 0
        OBVIOUS
      <4> HIDE DEF none
      <4>4. /\ \A k \in 1..Len(none) : none[k] # o
            /\ \A k \in 1..Len(none) : \A j \in 1..Len(none[k].ops) : none[k].ops[j] # o
        BY <4>3
      <4>5. TxsCount(none, o) = 0 /\ OpCount(none, o) = 0
        BY <4>3, <4>4, TxsCountFacts, OpCountFacts
      <4> HIDE DEF N, M, X, A
      <4> QED
        BY <2>1, <3>1, <4>1, <4>2, <4>5
    <3> HIDE DEF M, X, A
    <3> QED
      BY <2>1, <3>1, <3>2 DEF N, A
  <2>3. CASE ~applies
    <3> DEFINE B == Upto(h, q.cp.sseq, o)
    <3>1. /\ o = op => X = 0
          /\ o # op => X = A - B
      BY <1>3, <2>3 DEF Continued
    <3>2. /\ o = op => M = TxsCount(q.buf.txs, o) + OpCount(q.pending, o)
          /\ o # op => M = B
      BY <1>3, <1>5, <1>7, <2>3 DEF ExactReplica
    <3>3. n.buf = q.buf /\ n.pending = q.pending
      BY <1>7, <1>13, <2>3
    <3>4. M \in Int /\ A \in Nat /\ B \in Nat
      <4>1. q.cp.sseq \in Nat
        BY <1>5 DEF Replica, Checkpoints
      <4>2. q.cp.sseq \in 0..Len(h) /\ r.cp.sseq \in 0..Len(h)
        BY <1>1, <1>3, <1>4, <4>1
      <4>3. \A k \in 0..Len(h) : Upto(h, k, o) \in Nat
        BY <1>1, UptoSteps
      <4> QED
        BY <1>8, <4>2, <4>3
    <3> HIDE DEF M, N, X, A, B
    <3>5. o = op => N = M
      BY <2>1, <3>1, <3>4
    <3>6. o # op => N = A
      BY <2>1, <3>1, <3>2, <3>4
    <3> QED
      BY <3>2, <3>3, <3>5, <3>6 DEF N, A
  <2> QED
    BY <2>2, <2>3
<1>17. ExactReplica(n, h, c, inst[c])
  <2> HIDE DEF n, h, r
  <2> QED
    BY <1>3, <1>14, <1>16 DEF ExactReplica
<1>18. OwnOps(c)' /\ Exact(c)'
  BY <1>2, <1>15, <1>17 DEF OwnOps, Exact
<1>19. Free(c) \/ n.buf = q.buf
  BY <1>3, <1>7, <1>13
<1>20. n.pending = <<>>
  BY <1>2, <1>7, <1>8, <1>13
<1>21. n.state \notin InitialStates /\ inst'[c] = inst[c] /\ Confirms(c)
  BY <1>2, <1>13 DEF InitialStates, Confirms
<1> QED
  BY <1>2, <1>4, <1>12, <1>13, <1>18, <1>19, <1>20, <1>21, LoopExact

-----------------------------------------------------------------------------
(* LocalConnectivity::register, first section: a server made afresh replaces *)
(* none that had anything.                                                  *)
LEMMA BuildExact ==
    ASSUME ProtocolInv, ShelterInv, Orderly, ExactInv, NEW c \in Clients, Frame(c), NEW st,
           Build(c, st)
    PROVE  ExactInv'
<1>1. /\ Domains /\ ServerShape(srv) /\ Settled(c) /\ Identified(c) /\ OwnOps(c) /\ Recorded(c)
      /\ Exact(c) /\ Fresh(c) /\ srv.history \in Seq(Transactions)
  BY ExactFacts
<1>2. /\ dt[c].state = "Disabled" /\ inst' = inst /\ dt' = dt /\ duid' = duid /\ loop' = loop
      /\ net' = [net EXCEPT ![c] = [kind |-> "register", gen |-> srv'.gen, state |-> st]]
  BY DEF Build
<1>3. net'[c].kind = "register"
  BY <1>1, <1>2 DEF Domains
<1>4. CASE srv' = srv
  <2>1. Creation' /\ \A d \in Clients : Spared(d)
    BY <1>4, SameSpared
  <2>2. Free(c) /\ Free(c)'
    BY <1>2, <1>4, DisabledFree DEF Free
  <2>3. Settled(c)' /\ Refused(c)' /\ Answered(c)' /\ Fresh(c)'
    BY <1>1, <1>2, <1>3, <2>2 DEF Settled, Refused, Answered, Fresh, Confirms
  <2>4. Identified(c)'
    BY <1>1, <1>2, <1>3, <1>4 DEF Identified, InitialStates, Confirms
  <2>5. OwnOps(c)' /\ Recorded(c)' /\ Exact(c)'
    BY <1>1, <1>2, <1>4 DEF OwnOps, Recorded, Exact
  <2>6. ExactClient(c)'
    BY <2>3, <2>4, <2>5 DEF ExactClient
  <2> QED
    BY <2>1, <2>6, ExactOthers
<1>5. CASE ~(srv' = srv)
  <2>1. ~srv.present /\ srv' = NewServer(c, <<c, inst[c] + 1>>, srv.gen + 1)
    BY <1>5 DEF Build
  <2>2. /\ srv'.history = <<>> /\ srv'.cseqMap = [x \in Clients |-> 0] /\ srv'.created = FALSE
    BY <2>1 DEF NewServer
  <2>3. ASSUME NEW d \in Clients PROVE dt[d].state = "Disabled" /\ Free(d)
    <3>1. inst[d] \in Nat /\ (inst[d] >= 1 => Linked(d)) /\ Settled(d)
      BY ExactFacts
    <3>2. inst[d] = 0
      BY <2>1, <3>1 DEF Linked
    <3> QED
      BY <3>1, <3>2, DisabledFree DEF Settled
  <2>4. Len(srv.history) = 0
    <3> SUFFICES ASSUME Len(srv.history) # 0 PROVE FALSE
      OBVIOUS
    <3>1. 1 \in 1..Len(srv.history)
      BY <1>1
    <3>2. PICK d \in Clients : d = srv.history[1].cuid
      BY <3>1, HistoryOrigins
    <3> QED
      BY <2>3, <3>1, <3>2, FreeHistory DEF Free
  <2>5. Len(<<>>) = 0 /\ <<>> \in Seq(Transactions)
    OBVIOUS
  <2>6. Creation'
    BY <2>2 DEF Creation
  <2>7. ASSUME NEW d \in Clients PROVE Spared(d)
    <3>1. srv'.cseqMap[d] = srv.cseqMap[d]
      BY <2>2, <2>3 DEF Free
    <3>2. /\ srv'.history \in Seq(Transactions) /\ Longer(srv.history, srv'.history)
          /\ \A j \in 1..Len(srv'.history) : j > Len(srv.history) => srv'.history[j].cuid # d
      BY <2>2, <2>4, <2>5 DEF Longer
    <3>3. ~srv.created
      BY <2>3 DEF Free, ExactInv, Creation
    <3> QED
      BY <2>2, <3>1, <3>2, <3>3 DEF Spared
  <2>8. Free(c)'
    BY <2>2 DEF Free
  <2>9. Settled(c)' /\ Refused(c)' /\ Answered(c)' /\ Fresh(c)'
    BY <1>1, <1>2, <1>3, <2>8 DEF Settled, Refused, Answered, Fresh, Confirms
  <2>10. Identified(c)'
    BY <1>1, <1>2, <1>3, <2>2 DEF Identified, InitialStates, Confirms
  <2>11. OwnOps(c)'
    BY <1>1, <1>2 DEF OwnOps
  <2>12. Exact(c)'
    BY <1>1, <1>2, <2>7, ExactStays DEF Spared
  <2>13. Recorded(c)'
    <3>1. /\ Traced(srv'.history, c, dt[c].buf.txs)
          /\ OwnCount(srv'.history, c, Len(srv'.history)) = OwnCount(srv.history, c, Len(srv.history))
      BY <1>1, <2>7, SparedRecord DEF Recorded, Spared
    <3> QED
      BY <1>1, <1>2, <2>7, <3>1 DEF Recorded, Spared
  <2>14. ExactClient(c)'
    BY <2>9, <2>10, <2>11, <2>12, <2>13 DEF ExactClient
  <2> QED
    BY <2>6, <2>7, <2>14, ExactOthers
<1> QED
  BY <1>4, <1>5

(* MutableDatatype::new has no operations. *)
LEMMA NewMutableExact ==
    ASSUME NEW n, NEW st \in States, n = NewMutable(Origins, st), NEW h \in Seq(Transactions),
           NEW c, NEW i
    PROVE  ExactReplica(n, h, c, i) /\ OwnReplica(n, c, i)
<1> DEFINE z == [o \in Origins |-> 0]
           none == <<>>
<1>1. /\ n.crdt = z /\ n.cp.sseq = 0 /\ n.cp.cseq = 0 /\ n.buf.txs = none /\ n.pending = none
  BY DEF NewMutable, EmptyBuffer
<1>2. none \in Seq(Transactions) /\ none \in Seq(Origins) /\ Len(none) = 0
  OBVIOUS
<1>3. OwnCount(h, c, 0) = 0
  BY OwnCountSteps
<1>4. \A o : Upto(h, 0, o) = 0
  BY UptoSteps
<1> HIDE DEF none
<1>5. /\ \A o : \A k \in 1..Len(none) : none[k] # o
      /\ \A o : \A k \in 1..Len(none) : \A j \in 1..Len(none[k].ops) : none[k].ops[j] # o
  BY <1>2
<1>6. \A o : TxsCount(none, o) = 0 /\ OpCount(none, o) = 0
  BY <1>2, <1>5, TxsCountFacts, OpCountFacts
<1>7. OwnReplica(n, c, i)
  BY <1>1, <1>2 DEF OwnReplica
<1>8. z \in [Origins -> Int] /\ \A o \in Origins : z[o] = 0
  OBVIOUS
<1> HIDE DEF z
<1>9. ExactReplica(n, h, c, i)
  BY <1>1, <1>3, <1>4, <1>6, <1>8 DEF ExactReplica
<1> QED
  BY <1>7, <1>9

(* ... and its second section: a new datatype of a client nothing is stored *)
(* of.                                                                      *)
LEMMA RegisterExact ==
    ASSUME ProtocolInv, ShelterInv, Orderly, ExactInv, NEW c \in Clients, Frame(c), Register(c)
    PROVE  ExactInv'
<1> DEFINE i == inst[c] + 1
           n == dt'[c]
<1>1. /\ Domains /\ ServerShape(srv) /\ Shape(c) /\ Settled(c) /\ Identified(c) /\ Recorded(c)
      /\ srv.history \in Seq(Transactions) /\ inst[c] \in Nat
      /\ net[c].kind = "register" => srv.present /\ srv.gen = net[c].gen
  BY ExactFacts
<1>2. /\ net[c].kind = "register"
      /\ inst' = [inst EXCEPT ![c] = @ + 1]
      /\ dt' = [dt EXCEPT ![c] = NewMutable(Origins, net[c].state)]
      /\ duid' = [duid EXCEPT ![c] = <<c, inst[c] + 1>>]
      /\ loop' = [loop EXCEPT ![c] = "Normal"]
      /\ net' = [net EXCEPT ![c] = Idle]
      /\ srv' = IF srv.present /\ srv.gen = net[c].gen
                THEN [srv EXCEPT !.wired = @ \cup {c}] ELSE srv
  BY DEF Register
<1>3. /\ inst'[c] = i /\ n = NewMutable(Origins, net[c].state) /\ duid'[c] = <<c, i>>
      /\ loop'[c] = "Normal" /\ net'[c].kind = "idle" /\ i \in Nat /\ i > inst[c]
  BY <1>1, <1>2 DEF Domains, Idle
<1>4. net[c].state \in InitialStates /\ net[c].state \in States
  BY <1>1, <1>2 DEF Shape, Exchange, InitialStates, States
<1>5. n.state = net[c].state /\ n.pending = <<>> /\ n.cp = [sseq |-> 0, cseq |-> 0]
  BY <1>3 DEF NewMutable
<1>6. /\ srv'.cseqMap = srv.cseqMap /\ srv'.history = srv.history
      /\ srv'.created = srv.created /\ srv'.duid = srv.duid /\ srv'.creator = srv.creator
  BY <1>1, <1>2 DEF ServerShape
<1>7. Free(c) /\ Free(c)'
  BY <1>1, <1>2, <1>6, DisabledFree DEF Free, Settled
<1>8. Creation' /\ \A d \in Clients : Spared(d)
  <2>1. Longer(srv.history, srv'.history)
    BY <1>1, <1>6 DEF Longer
  <2> QED
    BY <1>1, <1>6, <2>1 DEF Spared, ExactInv, Creation
<1>9. ExactReplica(n, srv.history, c, i) /\ OwnReplica(n, c, i)
  BY <1>1, <1>3, <1>4, NewMutableExact
<1> HIDE DEF i, n
<1>10. OwnOps(c)' /\ Exact(c)'
  BY <1>3, <1>6, <1>9 DEF OwnOps, Exact, n
<1>11. Settled(c)' /\ Refused(c)' /\ Answered(c)' /\ Fresh(c)'
  BY <1>1, <1>3, <1>5, <1>7 DEF Settled, Refused, Answered, Fresh, Confirms, n
<1>12. Identified(c)'
  <2>1. srv.created => \A k \in Nat : k > inst[c] => srv.duid # <<c, k>>
    BY <1>1 DEF Identified
  <2>2. srv'.created => srv'.duid # <<c, i>> /\ \A k \in Nat : k > i => srv'.duid # <<c, k>>
    BY <1>1, <1>3, <1>6, <2>1
  <2>3. n.state # "Subscribed" /\ ~Confirms(c)'
    BY <1>3, <1>4, <1>5 DEF InitialStates, Confirms
  <2> QED
    BY <1>3, <1>5, <2>2, <2>3 DEF Identified, n
<1>13. Recorded(c)'
  <2>1. \A j \in 1..Len(srv.history) : srv.history[j].cuid # c
    BY <1>7, FreeHistory DEF Free
  <2>2. Traced(srv.history, c, dt'[c].buf.txs)
    BY <2>1 DEF Traced
  <2> QED
    BY <1>1, <1>6, <2>2 DEF Recorded
<1>14. ExactClient(c)'
  BY <1>10, <1>11, <1>12, <1>13 DEF ExactClient
<1> QED
  BY <1>8, <1>14, ExactOthers

-----------------------------------------------------------------------------
(* An answer of the server keeps the invariant if it is right for client c, *)
(* what is stored is traced to c's push buffer, and the others are spared.  *)
LEMMA AnswerExact ==
    ASSUME ProtocolInv, ShelterInv, Orderly, ExactInv, NEW c \in Clients, Frame(c),
           inst'[c] = inst[c], dt'[c] = dt[c], duid'[c] = duid[c], loop'[c] = loop[c],
           net[c].kind = "push", net'[c].kind = "pulled",
           Creation', \A d \in Clients \ {c} : Spared(d),
           srv'.history \in Seq(Transactions), Longer(srv.history, srv'.history),
           Fresh(c)', Refused(c)', Identified(c)', Recorded(c)', Answered(c)'
    PROVE  ExactInv'
<1>1. Settled(c) /\ OwnOps(c)
  BY ExactFacts
<1>2. Exact(c)'
  BY ExactStays
<1>3. OwnOps(c)'
  BY <1>1 DEF OwnOps
<1>4. Settled(c)'
  BY <1>1 DEF Settled
<1>5. ExactClient(c)'
  BY <1>2, <1>3, <1>4 DEF ExactClient
<1> QED
  BY <1>5, ExactOthers

(* What an answer leaves alone. *)
LEMMA ReplyFacts ==
    ASSUME ProtocolInv, NEW c \in Clients, NEW s, NEW r, Reply(c, s, r)
    PROVE  /\ srv' = s /\ net'[c] = r /\ inst'[c] = inst[c] /\ dt'[c] = dt[c]
           /\ duid'[c] = duid[c] /\ loop'[c] = loop[c]
<1>1. Domains
  BY OwnFacts
<1> QED
  BY <1>1 DEF Reply, clientVars, Domains

(* An error that leaves the server alone: a refusal of who has nothing      *)
(* stored, or one that does not change the state.                           *)
LEMMA ErrorExact ==
    ASSUME ProtocolInv, ShelterInv, Orderly, ExactInv, NEW c \in Clients, Frame(c),
           net[c].kind = "push", NEW r, Reply(c, srv, r), r.kind = "pulled", r.error # "none",
           \/ r.state = dt[c].state
           \/ r.state = "Disabled" /\ Free(c),
           r.state = "Disabled" \/ r.error = "ServerInternalError"
    PROVE  ExactInv'
<1>1. /\ srv' = srv /\ net'[c] = r /\ inst'[c] = inst[c] /\ dt'[c] = dt[c]
      /\ duid'[c] = duid[c] /\ loop'[c] = loop[c]
  BY ReplyFacts
<1>2. Creation' /\ \A d \in Clients : Spared(d)
  BY <1>1, SameSpared
<1>3. Fresh(c) /\ Identified(c) /\ Recorded(c)
  BY ExactFacts
<1>4. ~Confirms(c) /\ ~Confirms(c)' /\ (Free(c)' <=> Free(c))
  BY <1>1 DEF Confirms, Free
<1>5. Fresh(c)' /\ Refused(c)'
  BY <1>1, <1>3, <1>4 DEF Fresh, Refused, Accepted
<1>6. Answered(c)'
  BY <1>4 DEF Answered
<1>7. Recorded(c)'
  BY <1>1, <1>3 DEF Recorded
<1>8. Identified(c)'
  BY <1>1, <1>3, <1>4 DEF Identified
<1>9. srv'.history \in Seq(Transactions) /\ Longer(srv.history, srv'.history)
  BY <1>2 DEF Spared
<1> QED
  BY <1>1, <1>2, <1>5, <1>6, <1>7, <1>8, <1>9, AnswerExact

(* A refusal of who is not Subscribed, or has nothing stored. *)
LEMMA RejectExact ==
    ASSUME ProtocolInv, ShelterInv, Orderly, ExactInv, NEW c \in Clients, Frame(c),
           net[c].kind = "push", NEW e, e # "none", Reply(c, srv, Reject(net[c], e)),
           dt[c].state # "Subscribed" \/ Free(c)
    PROVE  ExactInv'
<1> DEFINE r == Reject(net[c], e)
<1>1. r.kind = "pulled" /\ r.state = "Disabled" /\ r.error = e
  BY RejectFields
<1>2. Free(c)
  <2>1. Fresh(c) /\ ~Confirms(c)
    BY ExactFacts DEF Confirms
  <2> QED
    BY <2>1 DEF Fresh, Accepted
<1>3. Reply(c, srv, r)
  OBVIOUS
<1> HIDE DEF r
<1> QED
  BY <1>1, <1>2, <1>3, ErrorExact

(* The entry of a built datatype is there. *)
LEMMA MissingExact ==
    ASSUME ProtocolInv, ShelterInv, Orderly, ExactInv, NEW c \in Clients,
           ServerMissing(c) \/ ServerUnsubscribing(c) \/ RemoveServer(c)
    PROVE  FALSE
<1>1. /\ net[c].kind \notin {"idle", "register"} => inst[c] >= 1
      /\ inst[c] >= 1 => Linked(c)
      /\ net[c].kind # "collect"
      /\ net[c].kind = "push" => net[c].state # "Unsubscribing"
  BY ExactFacts
<1> QED
  BY <1>1 DEF ServerMissing, ServerUnsubscribing, RemoveServer, Linked, Pushed

(* process_disabled. *)
LEMMA DisabledExact ==
    ASSUME ProtocolInv, ShelterInv, Orderly, ExactInv, NEW c \in Clients, Frame(c),
           ServerDisabled(c)
    PROVE  ExactInv'
<1>1. /\ net[c].kind = "push" /\ net[c].state = "Disabled"
      /\ Reply(c, srv, Reject(net[c], "ProtocolViolation"))
  BY DEF ServerDisabled, Pushed
<1>2. dt[c].state = "Disabled"
  BY <1>1, ExactFacts DEF Settled
<1> QED
  BY <1>1, <1>2, RejectExact

-----------------------------------------------------------------------------
(* Transactions of client c that are the next in its push buffer, of which  *)
(* history h has the first k.                                               *)
Following(new, h, k, c, txs) ==
    /\ k = OwnCount(h, c, Len(h)) /\ Traced(h, c, txs)
    /\ \A i \in 1..Len(new) : /\ new[i].cuid = c /\ new[i].cseq = k + i
                              /\ k + i <= Len(txs) /\ new[i] = txs[k + i]

(* History g is h with n more transactions, all of client c. *)
Grown(g, h, n, k, c, txs) ==
    /\ g \in Seq(Transactions) /\ Longer(h, g) /\ Len(g) = Len(h) + n
    /\ OwnCount(g, c, Len(g)) = k + n /\ Traced(g, c, txs)
    /\ \A j \in 1..Len(g) : j > Len(h) => g[j].cuid = c

(* A history that client c's next transactions are added to is traced to    *)
(* its push buffer again.                                                   *)
LEMMA TracedMore ==
    ASSUME NEW h \in Seq(Transactions), NEW new \in Seq(Transactions), NEW c, NEW txs,
           NEW k, Following(new, h, k, c, txs), NEW g, g = h \o new
    PROVE  Grown(g, h, Len(new), k, c, txs)
<1> DEFINE L == Len(h)
           N == Len(new)
           K(n) == OwnCount(g, c, n)
           S == {i \in Nat : i <= N => K(L + i) = k + i}
<1>1. L \in Nat /\ N \in Nat /\ g \in Seq(Transactions) /\ Len(g) = L + N
  OBVIOUS
<1>2. (\A j \in 1..L : g[j] = h[j]) /\ \A i \in 1..N : g[L + i] = new[i]
  OBVIOUS
<1>3. Longer(h, g)
  BY <1>1, <1>2 DEF Longer
<1>4. \A n \in Nat : n <= L => K(n) = OwnCount(h, c, n)
  <2> SUFFICES ASSUME NEW n \in Nat, n <= Len(h) PROVE OwnCount(g, c, n) = OwnCount(h, c, n)
    OBVIOUS
  <2> QED
    BY ONLY <1>1, <1>3, n \in Nat, n <= Len(h), h \in Seq(Transactions), BeginningStays
<1>5. k \in Nat
  BY <1>1, OwnCountSteps DEF Following
<1>6. \A n \in Nat : g[n + 1].cuid = c => K(n + 1) = K(n) + 1
  BY OwnCountSteps
<1> HIDE DEF K, L, N
<1>7. 0 \in S
  BY <1>1, <1>4, <1>5 DEF L, Following
<1>8. ASSUME NEW i \in Nat, i \in S PROVE i + 1 \in S
  <2> SUFFICES ASSUME i + 1 <= N PROVE K(L + (i + 1)) = k + (i + 1)
    OBVIOUS
  <2> DEFINE n == L + i
  <2>1. K(n) = k + i /\ n \in Nat /\ n + 1 = L + (i + 1) /\ i + 1 \in 1..N
    BY <1>1, <1>8
  <2>2. g[L + (i + 1)] = new[i + 1] /\ new[i + 1].cuid = c
    BY <1>2, <2>1 DEF N, Following
  <2>3. g[n + 1].cuid = c
    BY <2>1, <2>2
  <2> HIDE DEF n
  <2>4. K(n + 1) = K(n) + 1
    BY <1>6, <2>1, <2>3
  <2> QED
    BY <1>5, <2>1, <2>4
<1>9. \A i \in Nat : i \in S
  <2> HIDE DEF S
  <2> QED
    BY <1>7, <1>8, NaturalSteps
<1>10. \A i \in 0..N : K(L + i) = k + i
  BY <1>1, <1>9
<1>11. ASSUME NEW j \in 1..(L + N), j > L
       PROVE  j - L \in 1..N /\ g[j] = new[j - L] /\ K(j) = k + (j - L)
  <2> DEFINE i == j - L
  <2>1. i \in 1..N /\ j = L + i /\ i \in 0..N
    BY <1>1, <1>11
  <2> HIDE DEF i
  <2> QED
    BY <1>2, <1>10, <2>1 DEF i
<1>12. ASSUME NEW j \in 1..(L + N), g[j].cuid = c
       PROVE  g[j].cseq = K(j) /\ g[j].cseq <= Len(txs) /\ g[j] = txs[g[j].cseq]
  <2>1. CASE j <= L
    <3>1. j \in 1..L /\ g[j] = h[j] /\ j \in Nat
      BY <1>1, <1>2, <2>1
    <3>2. K(j) = OwnCount(h, c, j)
      BY <1>4, <2>1, <3>1
    <3>3. h[j].cseq = OwnCount(h, c, j) /\ h[j].cseq <= Len(txs) /\ h[j] = txs[h[j].cseq]
      BY <1>12, <3>1 DEF Traced, L, Following
    <3> QED
      BY <3>1, <3>2, <3>3
  <2>2. CASE j > L
    <3> DEFINE i == j - L
    <3>1. i \in 1..N /\ g[j] = new[i] /\ K(j) = k + i
      BY <1>11, <2>2
    <3> HIDE DEF i
    <3>2. new[i].cseq = k + i /\ k + i <= Len(txs) /\ new[i] = txs[k + i]
      BY <3>1 DEF N, Following
    <3> QED
      BY <3>1, <3>2
  <2> QED
    BY <1>1, <2>1, <2>2
<1>13. Traced(g, c, txs)
  BY <1>1, <1>12 DEF Traced, K
<1>14. K(L + N) = k + N
  BY <1>1, <1>10
<1>15. ASSUME NEW j \in 1..(L + N), j > L PROVE g[j].cuid = c
  <2> DEFINE i == j - L
  <2>1. i \in 1..N /\ g[j] = new[i]
    BY <1>11, <1>15
  <2> HIDE DEF i
  <2> QED
    BY <2>1 DEF Following, N
<1> QED
  BY <1>1, <1>3, <1>13, <1>14, <1>15 DEF L, N, K, Grown

(* Storing client c's next transactions. *)
LEMMA PackRecorded ==
    ASSUME ProtocolInv, ShelterInv, Orderly, ExactInv, NEW c \in Clients, dt'[c] = dt[c],
           NEW new \in Seq(Transactions), srv'.history = srv.history \o new,
           Continues(c, srv'.cseqMap, new)
    PROVE  /\ srv'.history \in Seq(Transactions) /\ Longer(srv.history, srv'.history)
           /\ Len(srv'.history) = Len(srv.history) + Len(new)
           /\ srv'.cseqMap[c] = srv.cseqMap[c] + Len(new)
           /\ Recorded(c)'
           /\ \A d \in Clients \ {c} :
                 /\ srv'.cseqMap[d] = srv.cseqMap[d]
                 /\ \A j \in 1..Len(srv'.history) :
                       j > Len(srv.history) => srv'.history[j].cuid # d
<1> DEFINE h == srv.history
           g == srv'.history
           k == srv.cseqMap[c]
           txs == dt[c].buf.txs
<1>1. ServerShape(srv) /\ h \in Seq(Transactions) /\ Recorded(c) /\ k \in Nat
  BY ExactFacts
<1>2. k = OwnCount(h, c, Len(h)) /\ Traced(h, c, txs)
  BY <1>1 DEF Recorded
<1>3. Following(new, h, k, c, txs)
  BY <1>2 DEF Continues, Following
<1>4. /\ srv'.cseqMap[c] = k + Len(new)
      /\ \A d \in Clients \ {c} : srv'.cseqMap[d] = srv.cseqMap[d]
  BY <1>1 DEF Continues, ServerShape
<1>5. g = h \o new
  OBVIOUS
<1>6. Grown(g, h, Len(new), k, c, txs)
  <2> HIDE DEF h, g, k, txs
  <2> QED
    BY ONLY <1>1, <1>3, <1>5, new \in Seq(Transactions), TracedMore
<1>7. /\ g \in Seq(Transactions) /\ Longer(h, g) /\ Len(g) = Len(h) + Len(new)
      /\ OwnCount(g, c, Len(g)) = k + Len(new) /\ Traced(g, c, txs)
      /\ \A j \in 1..Len(g) : j > Len(h) => g[j].cuid = c
  BY <1>6 DEF Grown
<1>8. Recorded(c)'
  BY <1>4, <1>7 DEF Recorded
<1> QED
  BY <1>4, <1>7, <1>8

(* ... with operations of its own. *)
LEMMA PackOrigins ==
    ASSUME ProtocolInv, ShelterInv, Orderly, ExactInv, NEW c \in Clients,
           NEW g \in Seq(Transactions), Traced(g, c, dt[c].buf.txs),
           NEW j \in 1..Len(g), g[j].cuid = c, NEW o, o # <<c, inst[c]>>
    PROVE  OpCount(g[j].ops, o) = 0
<1> DEFINE txs == dt[c].buf.txs
           x == g[j]
           K(n) == OwnCount(g, c, n)
           i == j - 1
<1>1. txs \in Seq(Transactions) /\ OwnOps(c)
  BY ExactFacts
<1>2. x.cseq = K(j) /\ x.cseq <= Len(txs) /\ x = txs[x.cseq]
  BY DEF Traced
<1>3. j \in Nat /\ i \in Nat /\ i + 1 = j
  OBVIOUS
<1>4. K(i) \in Nat /\ K(i + 1) = K(i) + 1
  BY <1>3, OwnCountSteps
<1> HIDE DEF K
<1>5. x.cseq \in 1..Len(txs)
  BY <1>1, <1>2, <1>3, <1>4
<1>6. \A n \in 1..Len(x.ops) : x.ops[n] # o
  BY <1>2, <1>5 , <1>1 DEF OwnOps, OwnReplica
<1>7. x.ops \in Seq(Origins)
  BY TransactionOps
<1> HIDE DEF x
<1>8. OpCount(x.ops, o) = 0
  BY <1>6, <1>7, OpCountFacts
<1> QED
  BY <1>8 DEF x

(* An operation that no transaction of a history has. *)
LEMMA UptoNone ==
    ASSUME NEW h \in Seq(Transactions), NEW o,
           \A j \in 1..Len(h) : OpCount(h[j].ops, o) = 0
    PROVE  \A n \in 0..Len(h) : Upto(h, n, o) = 0
<1> DEFINE U(n) == Upto(h, n, o)
           S == {n \in Nat : n <= Len(h) => U(n) = 0}
<1>1. /\ U(0) = 0
      /\ \A n \in 0..Len(h) : n + 1 <= Len(h) => U(n + 1) = U(n) + OpCount(h[n + 1].ops, o)
  BY UptoSteps
<1> HIDE DEF U
<1>2. 0 \in S
  BY <1>1
<1>3. ASSUME NEW n \in Nat, n \in S PROVE n + 1 \in S
  <2> SUFFICES ASSUME n + 1 <= Len(h) PROVE U(n + 1) = 0
    OBVIOUS
  <2>1. n \in 0..Len(h) /\ n + 1 \in 1..Len(h) /\ U(n) = 0
    BY <1>3
  <2> QED
    BY <1>1, <2>1
<1>4. \A n \in Nat : n \in S
  <2> HIDE DEF S
  <2> QED
    BY <1>2, <1>3, NaturalSteps
<1> QED
  BY <1>4 DEF U

(* No transactions have no operations. *)
LEMMA TxsCountEmpty ==
    ASSUME NEW o
    PROVE  TxsCount(<<>>, o) = 0
<1> DEFINE e == <<>>
<1>1. e \in Seq(Transactions) /\ Len(e) = 0
  OBVIOUS
<1>2. \A i \in 1..Len(e) : \A j \in 1..Len(e[i].ops) : e[i].ops[j] # o
  BY <1>1
<1> HIDE DEF e
<1>3. TxsCount(e, o) = 0
  BY <1>1, <1>2, TxsCountFacts
<1> QED
  BY <1>3 DEF e

-----------------------------------------------------------------------------
(* process_creating: the datatype is created by whom nothing is stored of,  *)
(* and its history is what the pack brings.                                 *)
LEMMA CreatingExact ==
    ASSUME ProtocolInv, ShelterInv, Orderly, ExactInv, NEW c \in Clients, Frame(c),
           ServerCreating(c)
    PROVE  ExactInv'
<1> DEFINE p == net[c]
           t == [srv EXCEPT !.created = TRUE, !.creator = p.cuid, !.duid = p.duid]
           s == Created(p)
           r == [Stub(p) EXCEPT !.state = "Subscribed",
                    !.cp = [sseq |-> Len(s.history), cseq |-> s.cseqMap[c]]]
           g == srv'.history
<1>1. /\ Domains /\ ServerShape(srv) /\ Settled(c) /\ Fresh(c) /\ Identified(c) /\ OwnOps(c)
      /\ inst[c] \in Nat /\ srv.cseqMap[c] \in Nat
      /\ p.kind \notin {"idle", "register"} => inst[c] >= 1
      /\ inst[c] >= 1 => dt[c].cp.cseq <= srv.cseqMap[c]
  BY ExactFacts
<1>2. p.kind = "push" /\ p.state \in Births
  BY DEF ServerCreating, Pushed, Births
<1>3. /\ dt[c].state \in InitialStates /\ dt[c].state \notin {"Subscribed", "Subscribing", "Disabled"}
      /\ p.readonly = (c \in ReadOnly)
  BY <1>1, <1>2 DEF Settled, Births, InitialStates
<1>4. /\ \/ Reply(c, srv, Reject(p, "CreateFailed"))
         \/ Reply(c, srv, Reject(p, "ReadonlyViolation"))
         \/ Reply(c, s, r) /\ (srv.created => srv.duid = p.duid) /\ ~p.readonly
  BY DEF ServerCreating
<1>5. CASE Reply(c, srv, Reject(p, "CreateFailed"))
  BY <1>2, <1>3, <1>5, RejectExact
<1>6. CASE Reply(c, srv, Reject(p, "ReadonlyViolation"))
  BY <1>2, <1>3, <1>6, RejectExact
<1>7. CASE Reply(c, s, r) /\ (srv.created => srv.duid = p.duid) /\ ~p.readonly
  <2>1. p.duid = duid[c] /\ p.cuid = c
    BY <1>2, PackFacts
  <2>2. /\ ~Confirms(c) /\ duid[c] = <<c, inst[c]>> /\ dt[c].cp = [sseq |-> 0, cseq |-> 0]
    BY <1>1, <1>2, <1>3 DEF Identified, Confirms
  <2>3. ~srv.created /\ c \notin ReadOnly
    BY <1>1, <1>3, <1>7, <2>1, <2>2 DEF Identified
  <2>4. Len(srv.history) = 0 /\ srv.cseqMap[c] = 0
    <3>1. srv.history = <<>>
      BY <2>3 DEF ExactInv, Creation
    <3>2. ~Accepted(c)
      BY <1>3, <2>2 DEF Accepted
    <3> QED
      BY <1>1, <3>1, <3>2, Len(<<>>) = 0 DEF Fresh, Free
  <2>5. /\ ServerShape(t) /\ t.history = srv.history /\ t.cseqMap = srv.cseqMap
        /\ t.created /\ t.duid = duid[c] /\ t.creator = c
    <3> DEFINE pc == p.cuid
               pd == p.duid
    <3>1. /\ t = [srv EXCEPT !.created = TRUE, !.creator = pc, !.duid = pd]
          /\ pd = duid[c] /\ pc = c
      BY <2>1
    <3> HIDE DEF t, pc, pd
    <3> QED
      BY <1>1, <3>1 DEF ServerShape
  <2>6. s = PushTransactions(t, net[c])
    BY DEF Created
  <2>7. /\ srv' = s /\ net'[c] = r /\ inst'[c] = inst[c] /\ dt'[c] = dt[c]
        /\ duid'[c] = duid[c] /\ loop'[c] = loop[c]
    BY <1>7, ReplyFacts
  <2>8. /\ r.kind = "pulled" /\ r.state = "Subscribed" /\ r.error = "none"
        /\ r.duid = p.duid /\ r.txs = <<>>
        /\ r.cp = [sseq |-> Len(s.history), cseq |-> s.cseqMap[c]]
    BY DEF Stub
  <2> HIDE DEF s, r, t
  <2>9. SameEntry(t, s) /\ Appends(c, s.history, s.cseqMap)
    BY <1>2, <2>5, <2>6, StoreEffect
  <2>10. PICK new \in Seq(Transactions) :
            g = srv.history \o new /\ Continues(c, srv'.cseqMap, new)
    BY <1>1, <1>2, <2>7, <2>9 DEF Appends
  <2>11. /\ g \in Seq(Transactions) /\ Longer(srv.history, g)
         /\ Len(g) = Len(srv.history) + Len(new)
         /\ srv'.cseqMap[c] = srv.cseqMap[c] + Len(new)
         /\ Recorded(c)'
         /\ \A d \in Clients \ {c} :
               /\ srv'.cseqMap[d] = srv.cseqMap[d]
               /\ \A j \in 1..Len(g) : j > Len(srv.history) => g[j].cuid # d
    BY <2>7, <2>10, PackRecorded
  <2>12. srv'.created /\ srv'.creator = c /\ srv'.duid = <<c, inst[c]>>
    BY <2>2, <2>5, <2>7, <2>9 DEF SameEntry
  <2>13. Creation' /\ \A d \in Clients \ {c} : Spared(d)
    BY <2>11, <2>12 DEF Creation, Spared
  <2>14. Confirms(c)' /\ ~AppliesSubscription(c, net[c])'
    BY <1>3, <2>1, <2>7, <2>8 DEF Confirms, AppliesSubscription
  <2>15. Fresh(c)' /\ Refused(c)' /\ Identified(c)'
    BY <1>1, <2>2, <2>3, <2>7, <2>8, <2>12, <2>14 DEF Fresh, Accepted, Refused, Identified
  <2>16. Len(new) \in Nat /\ Len(g) = Len(new) /\ srv'.cseqMap[c] = Len(new)
    BY <2>4, <2>11
  <2>17. /\ r.cp.sseq = Len(new) /\ r.cp.cseq = Len(new)
         /\ dt[c].cp.sseq = 0 /\ dt[c].cp.cseq = 0 /\ Len(r.txs) = 0
         /\ r.txs \in Seq(Transactions)
    BY <2>2, <2>7, <2>8, <2>16, Len(<<>>) = 0
  <2>18. PullCount(dt[c], r) = 0
    BY <2>16, <2>17 DEF PullCount
  <2>19. Cuts(c, net[c].cp)'
    BY <2>7, <2>11, <2>16, <2>17 DEF Cuts, Recorded
  <2>20. ASSUME NEW o \in Origins, o # <<c, inst[c]>>
         PROVE  Upto(g, Len(g), o) = 0 /\ Upto(g, 0, o) = 0
    <3>1. Traced(g, c, dt[c].buf.txs)
      BY <2>7, <2>11 DEF Recorded
    <3>2. \A j \in 1..Len(g) : g[j].cuid = c
      <4>1. \A j \in 1..Len(g) : g[j].cuid \in Clients
        BY <2>11, TransactionOps DEF Transactions
      <4> QED
        BY <2>4, <2>11, <4>1
    <3>3. \A j \in 1..Len(g) : OpCount(g[j].ops, o) = 0
      BY <2>11, <2>20, <3>1, <3>2, PackOrigins
    <3>4. Len(g) \in 0..Len(g) /\ 0 \in 0..Len(g)
      BY <2>16
    <3> HIDE DEF g
    <3> QED
      BY <2>11, <3>3, <3>4, UptoNone
  <2>21. Continued(c, net[c])'
    <3>1. \A o \in Origins : TxsCount(r.txs, o) = 0
      BY <2>8, TxsCountEmpty
    <3>2. r.cp.sseq = Len(g)
      BY <2>16, <2>17
    <3> QED
      BY <2>7, <2>17, <2>20, <3>1, <3>2 DEF Continued
  <2>22. Answered(c)'
    BY <1>3, <2>7, <2>8, <2>14, <2>16, <2>17, <2>18, <2>19, <2>21 DEF Answered
  <2> QED
    BY <1>2, <2>7, <2>8, <2>11, <2>13, <2>15, <2>22, AnswerExact
<1> QED
  BY <1>4, <1>5, <1>6, <1>7

-----------------------------------------------------------------------------
(* A replica with nothing open and everything acknowledged has exactly the  *)
(* history up to its checkpoint: its own transactions, too, are those of    *)
(* the history.                                                             *)
LEMMA SyncedReplica ==
    ASSUME ProtocolInv, ShelterInv, Orderly, ExactInv, NEW a \in Clients,
           dt[a].state # "Disabled", InSync(a)
    PROVE  /\ dt[a].crdt \in [Origins -> Int]
           /\ \A o \in Origins : dt[a].crdt[o] = Upto(srv.history, dt[a].cp.sseq, o)
<1> DEFINE h == srv.history
           n == dt[a].cp.sseq
           txs == dt[a].buf.txs
           own == <<a, inst[a]>>
<1>1. /\ Exact(a) /\ Recorded(a) /\ OwnNumbering(dt[a], a) /\ h \in Seq(Transactions)
      /\ txs \in Seq(Transactions) /\ n \in Nat /\ n <= Len(h)
  BY ExactFacts
<1>2. /\ dt[a].crdt \in [Origins -> Int]
      /\ dt[a].cp.cseq = OwnCount(h, a, n)
      /\ \A o \in Origins : dt[a].crdt[o] = IF o = own THEN TxsCount(txs, o) + OpCount(dt[a].pending, o)
                                            ELSE Upto(h, n, o)
  BY <1>1 DEF Exact, ExactReplica
<1>3. OwnCount(h, a, n) = Len(txs) /\ dt[a].pending = <<>>
  BY <1>1, <1>2 DEF InSync, OwnNumbering, Committed
<1>4. ASSUME own \in Origins PROVE dt[a].crdt[own] = Upto(h, n, own)
  <2>1. Traced(h, a, txs)
    BY <1>1 DEF Recorded
  <2>2. \A j \in 1..Len(h) : h[j].cuid # a => OpCount(h[j].ops, own) = 0
    <3> SUFFICES ASSUME NEW j \in 1..Len(h), h[j].cuid # a PROVE OpCount(h[j].ops, own) = 0
      OBVIOUS
    <3>1. own # <<h[j].cuid, inst[h[j].cuid]>>
      OBVIOUS
    <3> HIDE DEF own
    <3> QED
      BY <3>1, HistoryOrigins
  <2>3. n \in 0..Len(h)
    BY <1>1
  <2>4. OpCount(dt[a].pending, own) = 0
    BY <1>3, OpCountOne
  <2>5. Upto(txs, Len(txs), own) = TxsCount(txs, own) /\ TxsCount(txs, own) \in Nat
    BY <1>1, UptoAll, TxsCountFacts
  <2>6. dt[a].crdt[own] = TxsCount(txs, own) + OpCount(dt[a].pending, own)
    BY <1>2, <1>4
  <2> HIDE DEF h, n, txs, own
  <2>7. \A k \in 0..Len(h) : /\ OwnCount(h, a, k) <= Len(txs)
                              /\ Upto(h, k, own) = Upto(txs, OwnCount(h, a, k), own)
    BY ONLY <1>1, <2>1, <2>2, OwnUpto
  <2>8. Upto(h, n, own) = TxsCount(txs, own)
    BY <1>3, <2>3, <2>5, <2>7
  <2> QED
    BY ONLY <2>4, <2>5, <2>6, <2>8
<1> QED
  BY <1>2, <1>4

(* process_subscribing: the snapshot and the transactions after it are the  *)
(* whole history.                                                           *)
LEMMA SubscribingExact ==
    ASSUME ProtocolInv, ShelterInv, Orderly, ExactInv, NEW c \in Clients, Frame(c),
           ServerSubscribing(c)
    PROVE  ExactInv'
<1> DEFINE p == net[c]
           a == srv.creator
           h == srv.history
           L == Len(h)
           from == dt[a].cp.sseq
           P == PullTransactions(srv, c, from)
           e == [Stub(p) EXCEPT !.duid = srv.duid, !.error = "ServerInternalError"]
           r == [Stub(p) EXCEPT !.duid = srv.duid, !.state = "Subscribed",
                    !.cp = [sseq |-> Sseq, cseq |-> 0], !.snapshot = <<dt[a].crdt>>, !.txs = P]
<1>1. /\ ServerShape(srv) /\ Settled(c) /\ Fresh(c) /\ Identified(c) /\ Recorded(c)
      /\ h \in Seq(Transactions) /\ inst[c] \in Nat
  BY ExactFacts
<1>2. p.kind = "push" /\ p.state \in {"Subscribing", "SubscribingOrCreating"}
  BY DEF ServerSubscribing, Pushed
<1>3. /\ dt[c].state = p.state /\ dt[c].state \in InitialStates /\ ~Confirms(c)
      /\ dt[c].state \notin {"Subscribed", "Disabled"}
  BY <1>1, <1>2 DEF Settled, Confirms, InitialStates
<1>4. \/ Reply(c, srv, Reject(p, "ResourceNotFound"))
      \/ Reply(c, srv, Reject(p, "ProtocolViolation"))
      \/ Reply(c, srv, e)
      \/ srv.created /\ a \in srv.wired /\ InSync(a) /\ Reply(c, srv, r)
  BY OrderlyFacts DEF ServerSubscribing
<1>5. CASE Reply(c, srv, Reject(p, "ResourceNotFound"))
  BY <1>2, <1>3, <1>5, RejectExact
<1>6. CASE Reply(c, srv, Reject(p, "ProtocolViolation"))
  BY <1>2, <1>3, <1>6, RejectExact
<1>7. CASE Reply(c, srv, e)
  <2>1. e.kind = "pulled" /\ e.state = p.state /\ e.error = "ServerInternalError"
    BY DEF Stub
  <2> HIDE DEF e
  <2> QED
    BY <1>2, <1>3, <1>7, <2>1, ErrorExact
<1>8. CASE srv.created /\ a \in srv.wired /\ InSync(a) /\ Reply(c, srv, r)
  <2>1. /\ srv' = srv /\ net'[c] = r /\ inst'[c] = inst[c] /\ dt'[c] = dt[c]
        /\ duid'[c] = duid[c] /\ loop'[c] = loop[c]
    BY <1>8, ReplyFacts
  <2>2. /\ r.kind = "pulled" /\ r.state = "Subscribed" /\ r.error = "none" /\ r.duid = srv.duid
        /\ r.cp.sseq = L /\ r.cp.cseq = 0 /\ r.txs = P
        /\ r.snapshot # <<>> /\ r.snapshot[1] = dt[a].crdt
    BY DEF Stub, Sseq
  <2>3. Free(c) /\ a \in Clients
    BY <1>1, <1>3, <1>8 DEF Fresh, Accepted, ExactInv, Creation
  <2>4. dt[c].cp.sseq = 0 /\ dt[c].cp.cseq = 0 /\ srv.duid # duid[c]
    BY <1>1, <1>3, <1>8 DEF Identified
  <2>5. dt[a].state # "Disabled"
    <3>1. Fresh(a) /\ Answered(a)
      BY <2>3, ExactFacts
    <3>2. Accepted(a)
      BY <1>8, <3>1 DEF Fresh, Free
    <3> QED
      BY <3>1, <3>2 DEF Accepted, Answered
  <2>6. from \in Nat /\ from <= L
    BY <2>3, <2>5, ExactFacts
  <2>7. /\ dt[a].crdt \in [Origins -> Int]
        /\ \A o \in Origins : dt[a].crdt[o] = Upto(h, from, o)
    BY <1>8, <2>3, <2>5, SyncedReplica
  <2>8. \A j \in 1..L : h[j].cuid # c
    BY <2>3, FreeHistory DEF Free
  <2>9. L \in Nat /\ OwnCount(h, c, L) = 0 /\ OwnCount(h, c, from) = 0
    <3>1. L \in Nat /\ L <= Len(srv.history) /\ srv.cseqMap[c] = 0
      BY <1>1, <2>3 DEF Free
    <3> QED
      BY <2>3, <2>6, <3>1, FreeUpto
  <2>10. srv.history = h /\ P = PullTransactions(srv, c, from)
    OBVIOUS
  <2>a. \A o : \A j \in 1..L : h[j].cuid = c => OpCount(h[j].ops, o) = 0
    BY <2>8
  <2> HIDE DEF h, from, P, r, a
  <2>11. /\ P \in Seq(Transactions)
         /\ Len(P) = (Len(h) - from) - (OwnCount(h, c, Len(h)) - OwnCount(h, c, from))
         /\ \A o : (\A j \in 1..Len(h) : h[j].cuid = c => OpCount(h[j].ops, o) = 0)
                     => TxsCount(P, o) = Upto(h, Len(h), o) - Upto(h, from, o)
    <3>1. Brought(P, h, c, from)
      BY ONLY <1>1, <2>6, <2>10, PullEffect
    <3> QED
      BY <3>1 DEF Brought
  <2>12. Len(P) = L - from
    BY <2>6, <2>9, <2>11
  <2>13. \A o : TxsCount(P, o) = Upto(h, L, o) - Upto(h, from, o)
    BY <2>a, <2>11
  <2>14. \A o : Upto(h, L, o) \in Nat /\ Upto(h, from, o) \in Nat
    <3>1. L \in 0..Len(h) /\ from \in 0..Len(h)
      BY <2>6, <2>9
    <3> QED
      BY <1>1, <3>1, UptoSteps
  <2>15. Started(net[c])'
    <3> DEFINE S(o) == r.snapshot[1][o]
               T(o) == TxsCount(r.txs, o)
               U(o) == Upto(h, L, o)
               V(o) == Upto(h, from, o)
    <3>1. \A o \in Origins : S(o) = V(o) /\ T(o) = U(o) - V(o) /\ U(o) \in Nat /\ V(o) \in Nat
      BY <2>2, <2>7, <2>13, <2>14
    <3> HIDE DEF S, T, U, V
    <3>2. \A o \in Origins : S(o) + T(o) = U(o)
      BY <3>1
    <3>3. \A o \in Origins : r.snapshot[1][o] + TxsCount(r.txs, o) = Upto(h, r.cp.sseq, o)
      BY <2>2, <3>2 DEF S, T, U
    <3>4. r.snapshot[1] \in [Origins -> Int]
      BY <2>2, <2>7
    <3>5. srv'.history = h /\ net'[c] = r
      BY <2>1 DEF h
    <3> HIDE DEF h
    <3> QED
      BY <2>2, <3>3, <3>4, <3>5 DEF Started
  <2>16. Confirms(c)' /\ AppliesSubscription(c, net[c])' /\ Free(c)'
    BY <1>2, <1>3, <2>1, <2>2, <2>3, <2>4 DEF Confirms, AppliesSubscription, Free
  <2>17. Cuts(c, net[c].cp)'
    BY <2>1, <2>2, <2>9 DEF Cuts, h
  <2>18. Len(r.txs) <= PullCount(dt[c], r)
    BY <2>2, <2>4, <2>6, <2>9, <2>12 DEF PullCount
  <2>b. /\ dt[c].state # "Disabled" /\ r.state = "Subscribed"
        /\ r.txs \in Seq(Transactions)
        /\ dt[c].cp.sseq <= r.cp.sseq /\ dt[c].cp.cseq <= r.cp.cseq
    BY <1>3, <2>2, <2>4, <2>9, <2>11
  <2>c. Len(net[c].txs)' <= PullCount(dt[c], net[c])'
    BY <2>1, <2>18 DEF PullCount
  <2>19. Answered(c)'
    BY <2>1, <2>16, <2>15, <2>17, <2>b, <2>c DEF Answered
  <2>20. Fresh(c)' /\ Refused(c)' /\ Recorded(c)'
    BY <1>1, <2>1, <2>2, <2>16 DEF Fresh, Refused, Recorded
  <2>21. Identified(c)'
    BY <1>1, <1>8, <2>1, <2>16 DEF Identified
  <2>22. Creation' /\ \A d \in Clients : Spared(d)
    BY <2>1, SameSpared
  <2>23. srv'.history \in Seq(Transactions) /\ Longer(srv.history, srv'.history)
    BY <2>22 DEF Spared
  <2> QED
    BY <1>2, <2>1, <2>2, <2>19, <2>20, <2>21, <2>22, <2>23, AnswerExact
<1> QED
  BY <1>4, <1>5, <1>6, <1>7, <1>8

-----------------------------------------------------------------------------
(* A pack without transactions stores nothing. *)
LEMMA EmptyPush ==
    ASSUME ProtocolInv, NEW c \in Clients, net[c].kind = "push", net[c].txs = <<>>
    PROVE  PushTransactions(srv, net[c]) = srv
<1> DEFINE txs == net[c].txs
           k == dt[c].cp.cseq
           known == srv.cseqMap[c]
           new == NewTxs(txs, known)
<1>1. txs \in Seq(Transactions) /\ k \in Nat /\ Consecutive(txs, k) /\ net[c].cuid = c
  BY PackFacts
<1>2. known \in Nat
  BY OwnFacts DEF ServerShape
<1>3. new = NewTxs(txs, known)
  OBVIOUS
<1>4. Len(txs) = 0
  BY Len(<<>>) = 0
<1>5. PushTransactions(srv, net[c]) = IF new = <<>> THEN srv
          ELSE [srv EXCEPT !.history = @ \o new, !.cseqMap[net[c].cuid] = new[Len(new)].cseq]
  BY <1>1 DEF PushTransactions
<1> HIDE DEF txs, k, known, new
<1>6. new \in Seq(Transactions) /\ Len(new) <= Len(txs)
  BY <1>1, <1>2, <1>3, NewTxsFields
<1>7. new = <<>>
  BY <1>4, <1>6, EmptySeq
<1> QED
  BY <1>5, <1>7

(* process_subscribed: the response brings the others' transactions since   *)
(* the checkpoint, and the history takes the client's.                      *)
LEMMA SubscribedExact ==
    ASSUME ProtocolInv, ShelterInv, Orderly, ExactInv, NEW c \in Clients, Frame(c),
           ServerSubscribed(c)
    PROVE  ExactInv'
<1> DEFINE p == net[c]
           s == AfterPush(p)
           r == ClientPush(p, s, "Subscribed")
           h == srv.history
           g == srv'.history
           L == Len(g)
           n == dt[c].cp.sseq
           own == <<c, inst[c]>>
           P == PullTransactions(srv', c, n)
<1>1. /\ ServerShape(srv) /\ Settled(c) /\ Fresh(c) /\ Identified(c) /\ Recorded(c) /\ Exact(c)
      /\ Packed(c) /\ h \in Seq(Transactions) /\ inst[c] \in Nat /\ srv.cseqMap[c] \in Nat
      /\ n \in Nat /\ dt[c].cp.cseq \in Nat
      /\ p.kind \notin {"idle", "register"} => inst[c] >= 1
      /\ inst[c] >= 1 => Linked(c) /\ n <= Len(h) /\ dt[c].cp.cseq <= srv.cseqMap[c]
  BY ExactFacts
<1>2. p.kind = "push" /\ p.state = "Subscribed"
  BY DEF ServerSubscribed, Pushed
<1>3. /\ dt[c].state = "Subscribed" /\ p.readonly = (c \in ReadOnly)
      /\ c \in srv.wired /\ n <= Len(h) /\ dt[c].cp.cseq <= srv.cseqMap[c]
      /\ p.cuid = c /\ p.sseq = n /\ srv.created
  BY <1>1, <1>2 DEF Settled, Linked, Packed, Identified
<1>4. Reply(c, s, r)
  BY <1>3 DEF ServerSubscribed
<1>5. CASE ReadonlyPush(p)
  <2>1. s = srv /\ r = Reject(p, "ReadonlyViolation")
    BY <1>5 DEF AfterPush, ClientPush
  <2>2. Free(c)
    BY <1>1, <1>3, <1>5 DEF ReadonlyPush, Fresh
  <2>3. Reply(c, srv, Reject(net[c], "ReadonlyViolation"))
    BY <1>4, <2>1
  <2> QED
    BY <1>2, <2>2, <2>3, RejectExact
<1>6. CASE ~ReadonlyPush(p)
  <2>1. s = PushTransactions(srv, net[c])
    BY <1>6 DEF AfterPush
  <2>2. /\ srv' = s /\ net'[c] = r /\ inst'[c] = inst[c] /\ dt'[c] = dt[c]
        /\ duid'[c] = duid[c] /\ loop'[c] = loop[c]
    BY <1>4, ReplyFacts
  <2>3. /\ r.kind = "pulled" /\ r.state = "Subscribed" /\ r.error = "none"
        /\ r.cp = [sseq |-> Len(s.history), cseq |-> s.cseqMap[p.cuid]]
        /\ r.txs = PullTransactions(s, p.cuid, p.sseq)
    <3> DEFINE k == [sseq |-> Len(s.history), cseq |-> s.cseqMap[p.cuid]]
               t == PullTransactions(s, p.cuid, p.sseq)
    <3>1. r = [Stub(p) EXCEPT !.state = "Subscribed", !.cp = k, !.txs = t]
      BY <1>6 DEF ClientPush
    <3> HIDE DEF s, r, k, t
    <3>2. /\ r.kind = "pulled" /\ r.state = "Subscribed" /\ r.error = "none"
          /\ r.cp = k /\ r.txs = t
      BY <3>1 DEF Stub
    <3> QED
      BY <3>2 DEF k, t
  <2>4. (c \in ReadOnly) => s = srv
    <3>1. (c \in ReadOnly) => p.txs = <<>>
      BY <1>3, <1>6 DEF ReadonlyPush
    <3> QED
      BY <1>2, <2>1, <3>1, EmptyPush
  <2> HIDE DEF s, r
  <2>5. SameEntry(srv, s) /\ Appends(c, s.history, s.cseqMap)
    BY <1>1, <1>2, <2>1, StoreEffect
  <2>6. PICK new \in Seq(Transactions) :
           srv'.history = srv.history \o new /\ Continues(c, srv'.cseqMap, new)
    BY <1>3, <2>2, <2>5 DEF Appends
  <2>7. /\ g \in Seq(Transactions) /\ Longer(h, g)
        /\ Len(g) = Len(h) + Len(new)
        /\ srv'.cseqMap[c] = srv.cseqMap[c] + Len(new)
        /\ Recorded(c)'
        /\ \A d \in Clients \ {c} :
              /\ srv'.cseqMap[d] = srv.cseqMap[d]
              /\ \A j \in 1..Len(g) : j > Len(h) => g[j].cuid # d
    BY <2>2, <2>6, PackRecorded
  <2>8. srv'.created /\ srv'.creator = srv.creator /\ srv'.duid = srv.duid
    BY <1>3, <2>2, <2>5 DEF SameEntry
  <2>9. Creation' /\ \A d \in Clients \ {c} : Spared(d)
    BY <1>3, <2>7, <2>8 DEF ExactInv, Creation, Spared
  <2>10. Confirms(c)' /\ ~AppliesSubscription(c, net[c])'
    BY <1>3, <2>2, <2>3 DEF Confirms, AppliesSubscription
  <2>11. Fresh(c)' /\ Refused(c)'
    BY <1>1, <1>3, <2>2, <2>3, <2>4 DEF Fresh, Accepted, Free, Refused
  <2>12. Identified(c)'
    BY <1>1, <1>3, <2>2, <2>8 DEF Identified, InitialStates
  <2>13. /\ Len(new) \in Nat /\ L \in Nat /\ n <= L /\ srv'.cseqMap[c] \in Nat
         /\ dt[c].cp.cseq <= srv'.cseqMap[c]
    <3> DEFINE N == Len(new)
               k == dt[c].cp.cseq
               m == srv.cseqMap[c]
               l == Len(h)
    <3>1. N \in Nat /\ k \in Nat /\ m \in Nat /\ l \in Nat /\ n \in Nat /\ n <= l /\ k <= m
      <4>1. new \in Seq(Transactions) /\ h \in Seq(Transactions)
        BY <1>1, <2>6
      <4>2. N \in Nat /\ l \in Nat
        BY ONLY <4>1
      <4> QED
        BY <1>1, <1>3, <4>2
    <3>2. L = l + N /\ srv'.cseqMap[c] = m + N
      BY <2>7
    <3> HIDE DEF N, k, m, l, L, n
    <3>3. L \in Nat /\ n <= L /\ m + N \in Nat /\ k <= m + N
      BY ONLY <3>1, <3>2
    <3> QED
      BY <3>1, <3>2, <3>3 DEF N, k
  <2>14. r.cp.sseq = L /\ r.cp.cseq = srv'.cseqMap[c] /\ r.txs = P
    BY <1>3, <2>2, <2>3
  <2>15. OwnCount(g, c, L) = srv'.cseqMap[c] /\ Traced(g, c, dt[c].buf.txs)
    BY <2>2, <2>7 DEF Recorded
  <2>16. OwnCount(g, c, n) = dt[c].cp.cseq
    <3>1. OwnCount(h, c, n) = dt[c].cp.cseq
      BY <1>1, <1>3 DEF Exact, ExactReplica
    <3>2. OwnCount(g, c, n) = OwnCount(h, c, n)
      <4> HIDE DEF h, g, n
      <4> QED
        BY <1>1, <1>3, <2>7, BeginningStays
    <3> QED
      BY <3>1, <3>2
  <2>17. \A j \in 1..L : g[j].cuid # c => OpCount(g[j].ops, own) = 0
    <3> SUFFICES ASSUME NEW j \in 1..L, g[j].cuid # c PROVE OpCount(g[j].ops, own) = 0
      OBVIOUS
    <3>1. g[j].cuid \in Clients
      BY <2>7, TransactionOps DEF Transactions
    <3>2. j <= Len(h)
      BY <1>1, <2>7, <3>1
    <3>3. j \in 1..Len(h) /\ g[j] = h[j]
      BY <2>7, <3>2 DEF Longer
    <3>4. own # <<h[j].cuid, inst[h[j].cuid]>>
      BY <3>3
    <3> HIDE DEF own
    <3> QED
      BY <3>3, <3>4, HistoryOrigins
  <2>18. ASSUME NEW o, o # own PROVE \A j \in 1..L : g[j].cuid = c => OpCount(g[j].ops, o) = 0
    BY <2>7, <2>15, <2>18, PackOrigins
  <2>19. srv'.history = g /\ P = PullTransactions(srv', c, n)
    OBVIOUS
  <2> DEFINE S == srv'
  <2>20. S.history = g /\ P = PullTransactions(S, c, n)
    BY <2>19
  <2>a. g \in Seq(Transactions) /\ n \in Nat /\ n <= Len(g)
    BY <1>1, <2>7, <2>13
  <2> HIDE DEF g, n, P, S
  <2>21. /\ P \in Seq(Transactions)
         /\ Len(P) = (Len(g) - n) - (OwnCount(g, c, Len(g)) - OwnCount(g, c, n))
         /\ \A o : (\A j \in 1..Len(g) : g[j].cuid = c => OpCount(g[j].ops, o) = 0)
                     => TxsCount(P, o) = Upto(g, Len(g), o) - Upto(g, n, o)
         /\ \A o : (\A j \in 1..Len(g) : g[j].cuid # c => OpCount(g[j].ops, o) = 0)
                     => TxsCount(P, o) = 0
    <3>1. Brought(P, g, c, n)
      BY ONLY <2>20, <2>a, PullEffect
    <3> QED
      BY <3>1 DEF Brought
  <2>22. TxsCount(P, own) = 0
    BY <2>17, <2>21
  <2>23. ASSUME NEW o, o # own PROVE TxsCount(P, o) = Upto(g, L, o) - Upto(g, n, o)
    BY <2>18, <2>21, <2>23
  <2>24. Continued(c, net[c])'
    <3>1. \A o \in Origins : TxsCount(r.txs, o) = IF o = own THEN 0
                                                  ELSE Upto(g, r.cp.sseq, o) - Upto(g, n, o)
      BY <2>14, <2>22, <2>23
    <3> QED
      BY <2>2, <3>1 DEF Continued, g, n
  <2>25. Len(r.txs) <= PullCount(dt[c], r)
    <3> DEFINE x == srv'.cseqMap[c]
               y == dt[c].cp.cseq
    <3>1. Len(r.txs) = (L - n) - (x - y)
      BY <2>14, <2>15, <2>16, <2>21
    <3>2. PullCount(dt[c], r) = (L - n) - (x - y)
      BY <2>14 DEF PullCount, n
    <3>3. x \in Nat /\ y \in Nat /\ L \in Nat /\ n \in Nat
      BY <1>1, <2>13
    <3> HIDE DEF x, y, L
    <3> QED
      BY <3>1, <3>2, <3>3
  <2>26. Cuts(c, net[c].cp)'
    BY <2>2, <2>14, <2>15 DEF Cuts, g
  <2>27. /\ dt[c].state # "Disabled" /\ r.state = "Subscribed" /\ r.txs \in Seq(Transactions)
         /\ dt[c].cp.sseq <= r.cp.sseq /\ dt[c].cp.cseq <= r.cp.cseq
    BY <1>3, <2>3, <2>13, <2>14, <2>21 DEF n
  <2>28. Len(net[c].txs)' <= PullCount(dt[c], net[c])'
    BY <2>2, <2>25 DEF PullCount
  <2>29. Answered(c)'
    BY <2>2, <2>10, <2>24, <2>26, <2>27, <2>28 DEF Answered
  <2> QED
    BY <1>2, <2>2, <2>3, <2>7, <2>9, <2>11, <2>12, <2>29, AnswerExact DEF g
<1> QED
  BY <1>5, <1>6

-----------------------------------------------------------------------------
(* It holds before anything is built ... *)
LEMMA InitExact == Init => ExactInv
<1> SUFFICES ASSUME Init PROVE ExactInv
  OBVIOUS
<1> DEFINE e == <<>>
<1>1. /\ srv.created = FALSE /\ srv.history = e /\ srv.cseqMap = [x \in Clients |-> 0]
  BY DEF Init, NewServer
<1>2. e \in Seq(Transactions) /\ Len(e) = 0
  OBVIOUS
<1>3. Creation
  BY <1>1 DEF Creation
<1>4. ASSUME NEW c \in Clients PROVE ExactClient(c)
  <2>1. /\ inst[c] = 0 /\ dt[c] = NewMutable(Origins, "Disabled") /\ net[c] = Idle
        /\ loop[c] = "Stopped"
    BY DEF Init
  <2>2. net[c].kind = "idle"
    BY <2>1 DEF Idle
  <2>3. dt[c].state = "Disabled" /\ dt[c].pending = <<>>
    BY <2>1 DEF NewMutable
  <2>4. Free(c) /\ ~Confirms(c)
    BY <1>1, <2>2 DEF Free, Confirms
  <2>5. Settled(c) /\ Fresh(c) /\ Refused(c) /\ Answered(c)
    BY <2>1, <2>2, <2>3, <2>4 DEF Settled, Fresh, Refused, Answered
  <2>6. Identified(c)
    BY <1>1, <2>3, <2>4 DEF Identified, InitialStates
  <2>7. ExactReplica(dt[c], e, c, inst[c]) /\ OwnReplica(dt[c], c, inst[c])
    <3>1. "Disabled" \in States
      BY DEF States
    <3> HIDE DEF e
    <3> QED
      BY <1>2, <2>1, <3>1, NewMutableExact
  <2>8. OwnOps(c) /\ Exact(c)
    BY <1>1, <2>7 DEF OwnOps, Exact
  <2>9. Recorded(c)
    <3>1. OwnCount(srv.history, c, 0) = 0
      BY OwnCountSteps
    <3> HIDE DEF e
    <3> QED
      BY <1>1, <1>2, <3>1 DEF Recorded, Traced
  <2> QED
    BY <2>5, <2>6, <2>8, <2>9 DEF ExactClient
<1> QED
  BY <1>3, <1>4 DEF ExactInv

(* ... and in an orderly environment every step keeps it. *)
LEMMA NextExact ==
    ASSUME ProtocolInv, ShelterInv, Orderly, ExactInv, [Next]_vars
    PROVE  ExactInv'
<1>1. CASE Next
  <2>1. PICK c \in Clients : User(c) \/ Server(c) \/ EventLoop(c)
    BY <1>1 DEF Next
  <2>2. Frame(c)
    BY <2>1, EveryStep DEF StepOf
  <2>3. CASE User(c)
    <3>1. ASSUME SetUnsubscribing(c) PROVE FALSE
      <4>1. "unsub" \notin checked[c]
        BY ExactFacts
      <4> QED
        BY <3>1, <4>1 DEF SetUnsubscribing
    <3> QED
      BY <2>2, <2>3, <3>1, BuildExact, CheckExact, ExecuteOpExact, EndTxExact DEF User
  <2>4. CASE Server(c)
    BY <2>2, <2>4, MissingExact, DisabledExact, CreatingExact, SubscribingExact,
       SubscribedExact DEF Server
  <2>5. CASE EventLoop(c)
    BY <2>2, <2>5, RegisterExact, StartPushExact, TimeOutExact, ApplyErrorExact,
       ApplyIllegalExact, ApplyPulledExact, HandleErrorExact DEF EventLoop
  <2> QED
    BY <2>1, <2>3, <2>4, <2>5
<1>2. CASE UNCHANGED vars
  BY <1>2 DEF vars, ExactInv, Creation, ExactClient, Settled, Fresh, Refused, Identified,
     OwnOps, Recorded, Exact, Answered, Accepted, Free, Confirms, AppliesSubscription,
     Started, Continued, Cuts
<1> QED
  BY <1>1, <1>2

(* A behaviour stays in its scenario. *)
LEMMA ScenarioStays == ProtocolInv /\ [Next]_vars => scenario' = scenario
<1> SUFFICES ASSUME ProtocolInv, [Next]_vars PROVE scenario' = scenario
  OBVIOUS
<1>1. ASSUME NEW c \in Clients, User(c) \/ Server(c) \/ EventLoop(c) PROVE scenario' = scenario
  BY <1>1, EveryStep DEF StepOf, Frame
<1> QED
  BY <1>1 DEF Next, vars

(* What is orderly stays so. *)
LEMMA OrderlyStays == ProtocolInv /\ [Next]_vars => (Orderly' <=> Orderly)
BY ScenarioStays DEF Orderly

(* The inductive invariant behind the three theorems below: in an orderly   *)
(* environment, for any number of clients, datatypes built one after        *)
(* another, rollbacks, retries and lost exchanges, what the server stores   *)
(* of a client is the beginning of its push buffer, every checkpoint cuts   *)
(* the history where it says, and every response brings what its datatype   *)
(* misses and nothing else.                                                 *)
THEOREM ExactInvariant == Spec => [](Orderly => ExactInv)
<1>1. Init => ProtocolInv /\ ShelterInv /\ (Orderly => ExactInv)
  BY InitInv, InitShelter, InitExact
<1>2. /\ ProtocolInv /\ ShelterInv /\ (Orderly => ExactInv) /\ [Next]_vars
      => ProtocolInv' /\ ShelterInv' /\ (Orderly' => ExactInv')
  BY NextInv, NextShelter, OrderlyStays, NextExact
<1> QED
  BY <1>1, <1>2, PTL DEF Spec

(* In an orderly environment an attached replica holds the history up to    *)
(* its checkpoint and its own operations, none twice and none missing       *)
(* (PullHandler, push_transactions, pull_transactions, do_rollback).        *)
THEOREM ReplicaExactAlways == Spec => []ReplicaExact
<1>1. ProtocolInv /\ (Orderly => ExactInv) => ReplicaExact
  <2> SUFFICES ASSUME ExactInv, NEW c \in Clients, Attached(c), NEW o \in Origins
               PROVE  dt[c].crdt[o] =
                          IF o = <<c, inst[c]>>
                          THEN TxsCount(dt[c].buf.txs, o) + OpCount(dt[c].pending, o)
                          ELSE TxsCount(SubSeq(srv.history, 1, dt[c].cp.sseq), o)
    BY DEF ReplicaExact
  <2>1. Exact(c) /\ dt[c].state # "Disabled"
    BY DEF ExactInv, ExactClient, Attached
  <2> QED
    BY <2>1 DEF Exact, ExactReplica, Upto
<1> QED
  BY <1>1, ProtocolInvariant, ExactInvariant, PTL

(* Strong convergence: in an orderly environment two attached clients that  *)
(* have synchronised everything and pulled up to the same sseq hold the     *)
(* same counter.                                                            *)
THEOREM OrderlyConvergedAlways == Spec => []OrderlyConverged
<1>1. ProtocolInv /\ ShelterInv /\ (Orderly => ExactInv) => OrderlyConverged
  <2> SUFFICES ASSUME ProtocolInv, ShelterInv, Orderly, ExactInv,
                      NEW c \in Clients, NEW d \in Clients, Attached(c), Attached(d),
                      InSync(c), InSync(d), dt[c].cp.sseq = dt[d].cp.sseq
               PROVE  dt[c].crdt = dt[d].crdt
    BY DEF OrderlyConverged, Converged
  <2>1. dt[c].state # "Disabled" /\ dt[d].state # "Disabled"
    BY DEF Attached
  <2>2. /\ dt[c].crdt \in [Origins -> Int]
        /\ \A o \in Origins : dt[c].crdt[o] = Upto(srv.history, dt[c].cp.sseq, o)
    BY <2>1, SyncedReplica
  <2>3. /\ dt[d].crdt \in [Origins -> Int]
        /\ \A o \in Origins : dt[d].crdt[o] = Upto(srv.history, dt[d].cp.sseq, o)
    BY <2>1, SyncedReplica
  <2> QED
    BY <2>2, <2>3
<1>2. Spec => []ShelterInv
  <2>1. Init => ProtocolInv /\ ShelterInv
    BY InitInv, InitShelter
  <2>2. ProtocolInv /\ ShelterInv /\ [Next]_vars => ProtocolInv' /\ ShelterInv'
    BY NextInv, NextShelter
  <2> QED
    BY <2>1, <2>2, PTL DEF Spec
<1> QED
  BY <1>1, <1>2, ProtocolInvariant, ExactInvariant, PTL

-----------------------------------------------------------------------------
(* Release builds.  Without checked subtractions a loop dies only in the    *)
(* todo!() that a response without an error meets if its datatype is        *)
(* Disabled by then.                                                        *)

(* The event loop has ended, or ends with the error at hand. *)
Ending(c) == loop[c] = "Stopped" \/ net[c].kind = "error"

(* A response that disables is never one to be tried again. *)
Final(c) ==
    /\ net[c].kind = "pulled" /\ net[c].state = "Disabled" =>
          net[c].error # "ServerInternalError"
    /\ net[c].kind = "collect" => net[c].reply.error # "ServerInternalError"

(* A Disabled datatype has no exchange but one that is refused. *)
Detached(c) ==
    dt[c].state = "Disabled" =>
        /\ net[c].kind # "collect"
        /\ net[c].kind = "push" => net[c].state = "Disabled"
        /\ net[c].kind = "pulled" => net[c].state = "Disabled" /\ net[c].error # "none"

(* If a datatype is disabled between the two sections of unsubscribe, its   *)
(* event loop ends, so that Unsubscribing is never pushed.                  *)
Overtaken(c) ==
    "unsub" \in checked[c] =>
        /\ dt[c].state # "Unsubscribing"
        /\ dt[c].state = "Disabled" => Ending(c)

(* Nor does a rollback disable a datatype under an exchange.                *)
Restores(c) ==
    dt[c].pending # <<>> =>
        /\ dt[c].rollback.state = "Unsubscribing" => dt[c].state = "Unsubscribing"
        /\ dt[c].rollback.state = "Disabled" /\ dt[c].state # "Disabled" =>
              dt[c].state = "Unsubscribing" /\ Ending(c)

Calm(c) ==
    loop[c] # "Panicked" /\ Final(c) /\ Detached(c) /\ Overtaken(c) /\ Restores(c)

CalmInv == \A c \in Clients : Calm(c)

(* A release build of a sheltered environment. *)
Release == Sheltered /\ "debug" \notin scenario.env

(* If responses arrive in open transactions nobody unsubscribes, so that no *)
(* rollback of theirs can disable or leave.                                 *)
LEMMA SpannedKeeps ==
    ASSUME ShelterInv, CalmInv, Release, NEW c \in Clients, "spanning" \in scenario.env,
           dt[c].pending # <<>>
    PROVE  /\ dt[c].rollback.state # "Unsubscribing" /\ dt[c].state # "Unsubscribing"
           /\ dt[c].rollback.state = "Disabled" => dt[c].state = "Disabled"
<1>1. "unsubscribe" \notin scenario.env
  BY DEF Release, Sheltered
<1>2. "Unsubscribing" \notin Seen(c)
  BY <1>1 DEF ShelterInv, Staying
<1>3. dt[c].rollback.state # "Unsubscribing" /\ dt[c].state # "Unsubscribing"
  BY <1>2 DEF Seen
<1> QED
  BY <1>3 DEF CalmInv, Calm, Restores

(* A step of client c that keeps its part keeps all of it. *)
LEMMA CalmOthers ==
    ASSUME CalmInv, NEW c \in Clients, Frame(c), Calm(c)'
    PROVE  CalmInv'
<1> SUFFICES ASSUME NEW d \in Clients \ {c} PROVE Calm(d)'
  BY DEF CalmInv
<1>1. /\ dt'[d] = dt[d] /\ checked'[d] = checked[d] /\ net'[d] = net[d] /\ loop'[d] = loop[d]
  BY DEF Frame
<1>2. Calm(d)
  BY DEF CalmInv
<1> QED
  BY <1>1, <1>2 DEF Calm, Final, Detached, Overtaken, Restores, Ending

(* check_writable and check_subscribed. *)
LEMMA CheckCalm ==
    ASSUME ProtocolInv, CalmInv, NEW c \in Clients, CheckWritable(c) \/ CheckSubscribed(c)
    PROVE  Calm(c)'
<1>1. Domains /\ Calm(c)
  BY OwnFacts DEF CalmInv
<1>2. dt' = dt /\ net' = net /\ loop' = loop
  BY DEF CheckWritable, CheckSubscribed
<1>3. "unsub" \in checked'[c] => "unsub" \in checked[c] \/ dt[c].state = "Subscribed"
  BY <1>1 DEF CheckWritable, CheckSubscribed, Domains
<1> QED
  BY <1>1, <1>2, <1>3 DEF Calm, Final, Detached, Overtaken, Restores, Ending

(* execute_local_operation: a first operation saves the state as it is. *)
LEMMA ExecuteOpCalm ==
    ASSUME ProtocolInv, CalmInv, NEW c \in Clients, ExecuteOp(c)
    PROVE  Calm(c)'
<1> DEFINE m == dt[c]
           n == dt'[c]
           op == <<c, inst[c]>>
<1>1. Domains /\ Shape(c) /\ Phase(c) /\ Calm(c)
  BY OwnFacts DEF CalmInv
<1>2. /\ "write" \in checked[c] /\ dt' = [dt EXCEPT ![c] = ExecuteLocal(@, op)]
      /\ checked' = [checked EXCEPT ![c] = @ \ {"write"}]
      /\ net' = net /\ loop' = loop
  BY DEF ExecuteOp
<1>3. inst[c] \in 1..MaxInst /\ op \in Origins
  BY <1>1, <1>2, SyncAssumption DEF Phase, Shape, Origins
<1>4. n = ExecuteLocal(m, op) /\ Replica(m) /\ checked'[c] = checked[c] \ {"write"}
  BY <1>1, <1>2 DEF Domains, Shape
<1>5. /\ n.state = m.state
      /\ m.pending = <<>> => n.rollback = [cseq |-> m.cseq, state |-> m.state]
      /\ m.pending # <<>> => n.rollback = m.rollback
  <2> HIDE DEF m, n, op
  <2> QED
    BY <1>3, <1>4, ExecuteLocalFields
<1>6. \/ n.rollback.state = m.state
      \/ m.pending # <<>> /\ n.rollback.state = m.rollback.state
  BY <1>5
<1> QED
  BY <1>1, <1>2, <1>4, <1>5, <1>6 DEF Calm, Final, Detached, Overtaken, Restores, Ending

(* end_transaction. *)
LEMMA EndTxCalm ==
    ASSUME ProtocolInv, CalmInv, NEW c \in Clients, NEW ok \in BOOLEAN, EndTx(c, ok)
    PROVE  Calm(c)'
<1> DEFINE m == dt[c]
           n == dt'[c]
<1>1. Domains /\ Shape(c) /\ Phase(c) /\ Calm(c)
  BY OwnFacts DEF CalmInv
<1>2. /\ m.pending # <<>> /\ dt' = [dt EXCEPT ![c] = EndTransaction(@, c, ok, MaxMem)]
      /\ net' = net /\ checked' = checked /\ loop' = loop
  BY DEF EndTx, clientVars
<1>3. n = EndTransaction(m, c, ok, MaxMem) /\ Replica(m) /\ m.pending # <<>>
  BY <1>1, <1>2 DEF Domains, Shape
<1>4. n.pending = <<>> /\ n.state \in {m.state, m.rollback.state}
  <2> HIDE DEF m, n
  <2> QED
    BY <1>3, EndTransactionFields, DoRollbackFields
<1>5. Ending(c) => net[c].kind \in {"idle", "register", "error"}
  BY <1>1 DEF Ending, Phase, Live
<1> QED
  BY <1>1, <1>2, <1>4, <1>5 DEF Calm, Final, Detached, Overtaken, Restores, Ending

(* set_state(Unsubscribing). *)
LEMMA SetUnsubscribingCalm ==
    ASSUME ProtocolInv, CalmInv, NEW c \in Clients, SetUnsubscribing(c)
    PROVE  Calm(c)'
<1> DEFINE m == dt[c]
           n == dt'[c]
<1>1. Domains /\ Shape(c) /\ Calm(c)
  BY OwnFacts DEF CalmInv
<1>2. /\ "unsub" \in checked[c] /\ dt' = [dt EXCEPT ![c].state = "Unsubscribing"]
      /\ checked' = [checked EXCEPT ![c] = @ \ {"unsub"}]
      /\ net' = net /\ loop' = loop
  BY DEF SetUnsubscribing
<1>3. n = [m EXCEPT !.state = "Unsubscribing"] /\ Replica(m) /\ "unsub" \notin checked'[c]
  BY <1>1, <1>2 DEF Domains, Shape
<1>4. n.state = "Unsubscribing" /\ n.pending = m.pending /\ n.rollback = m.rollback
  <2> HIDE DEF m, n
  <2> QED
    BY <1>3 DEF Replica
<1> QED
  BY <1>1, <1>2, <1>3, <1>4 DEF Calm, Final, Detached, Overtaken, Restores, Ending

(* LocalConnectivity::register, first section. *)
LEMMA BuildCalm ==
    ASSUME ProtocolInv, CalmInv, NEW c \in Clients, NEW st, Build(c, st)
    PROVE  Calm(c)'
<1>1. Domains /\ Calm(c)
  BY OwnFacts DEF CalmInv
<1>2. /\ dt' = dt /\ loop' = loop /\ net[c] = Idle
      /\ checked' = [checked EXCEPT ![c] = {}]
      /\ net' = [net EXCEPT ![c] = [kind |-> "register", gen |-> srv'.gen, state |-> st]]
  BY DEF Build
<1>3. net'[c].kind = "register" /\ net[c].kind = "idle" /\ checked'[c] = {}
  BY <1>1, <1>2 DEF Domains, Idle
<1> QED
  BY <1>1, <1>2, <1>3 DEF Calm, Final, Detached, Overtaken, Restores, Ending

(* ... and second section. *)
LEMMA RegisterCalm ==
    ASSUME ProtocolInv, StoredInv, CalmInv, NEW c \in Clients, Register(c)
    PROVE  Calm(c)'
<1>1. Domains /\ Shape(c) /\ Unused(c)
  BY OwnFacts DEF StoredInv, StoredClient
<1>2. /\ net[c].kind = "register" /\ checked' = checked
      /\ dt' = [dt EXCEPT ![c] = NewMutable(Origins, net[c].state)]
      /\ loop' = [loop EXCEPT ![c] = "Normal"]
      /\ net' = [net EXCEPT ![c] = Idle]
  BY DEF Register
<1>3. net[c].state \in InitialStates /\ net[c].state \in States /\ checked'[c] = {}
  BY <1>1, <1>2 DEF Shape, Exchange, InitialStates, States, Unused
<1>4. net'[c].kind = "idle" /\ dt'[c] = NewMutable(Origins, net[c].state) /\ loop'[c] = "Normal"
  BY <1>1, <1>2 DEF Domains, Idle
<1>5. dt'[c].state \in InitialStates /\ dt'[c].pending = <<>>
  BY <1>3, <1>4, NewMutableFields
<1> QED
  BY <1>3, <1>4, <1>5 DEF Calm, Final, Detached, Overtaken, Restores, InitialStates

(* do_push_pull, of a loop that has not ended. *)
LEMMA StartPushCalm ==
    ASSUME ProtocolInv, CalmInv, NEW c \in Clients, StartPush(c)
    PROVE  Calm(c)'
<1>1. Domains /\ Calm(c)
  BY OwnFacts DEF CalmInv
<1>2. /\ dt' = dt /\ checked' = checked /\ loop' = loop /\ net[c] = Idle /\ loop[c] = "Normal"
      /\ net' = [net EXCEPT ![c] =
                    IF CannotPushFrom(dt[c].buf, dt[c].cp.cseq + 1)
                    THEN Failed("Disable") ELSE CreatePushPullPack(c)]
  BY Routed DEF StartPush, clientVars
<1>3. \/ net'[c].kind = "error"
      \/ net'[c].kind = "push" /\ net'[c].state = dt[c].state
  BY <1>1, <1>2 DEF Domains, Failed, CreatePushPullPack
<1>4. ~Ending(c)
  BY <1>2 DEF Ending, Idle
<1> QED
  BY <1>1, <1>2, <1>3, <1>4 DEF Calm, Final, Detached, Overtaken, Restores

(* An exchange goes on or is lost. *)
LEMMA ExchangeCalm ==
    ASSUME ProtocolInv, CalmInv, NEW c \in Clients, net[c].kind \in {"push", "pulled", "collect"},
           dt' = dt, checked' = checked, loop' = loop, Final(c)', Detached(c)'
    PROVE  Calm(c)'
<1>1. Calm(c)
  BY DEF CalmInv
<1>2. Ending(c) => Ending(c)'
  BY DEF Ending
<1> QED
  BY <1>1, <1>2 DEF Calm, Overtaken, Restores

(* A time-out. *)
LEMMA TimeOutCalm ==
    ASSUME ProtocolInv, CalmInv, NEW c \in Clients, TimeOut(c)
    PROVE  Calm(c)'
<1>1. /\ net' = [net EXCEPT ![c] = Failed("RetryWithBackOff")]
      /\ dt' = dt /\ checked' = checked /\ loop' = loop
      /\ net[c].kind \in {"push", "pulled", "collect"}
  BY Routed DEF TimeOut, clientVars
<1>2. net'[c].kind \in {"idle", "error"}
  BY <1>1, OwnFacts, FailedFields DEF Domains
<1>3. Final(c)' /\ Detached(c)'
  BY <1>2 DEF Final, Detached
<1> QED
  BY <1>1, <1>3, ExchangeCalm

(* A push is answered: of a Disabled datatype, with a refusal. *)
LEMMA ServerCalm ==
    ASSUME ProtocolInv, CalmInv, NEW c \in Clients, ServerEffect(c)
    PROVE  Calm(c)'
<1>1. Domains /\ Calm(c)
  BY OwnFacts DEF CalmInv
<1>2. PICK r : Reply(c, srv', r) /\ Replies(c, r) /\ net[c].kind = "push"
  BY DEF ServerEffect
<1>3. net'[c] = r /\ dt' = dt /\ checked' = checked /\ loop' = loop
  BY <1>1, <1>2 DEF Reply, clientVars, Domains
<1>4. Final(c)'
  BY <1>2, <1>3 DEF Replies, Final
<1>5. Detached(c)'
  BY <1>1, <1>2, <1>3 DEF Replies, Calm, Detached, Births
<1> QED
  BY <1>2, <1>3, <1>4, <1>5, ExchangeCalm

(* The removal of the server entry. *)
LEMMA RemoveCalm ==
    ASSUME ProtocolInv, CalmInv, NEW c \in Clients, RemoveServer(c)
    PROVE  Calm(c)'
<1>1. Domains /\ Shape(c) /\ Calm(c)
  BY OwnFacts DEF CalmInv
<1>2. /\ net[c].kind = "collect" /\ net'[c] = net[c].reply
      /\ dt' = dt /\ checked' = checked /\ loop' = loop
  BY <1>1 DEF RemoveServer, clientVars, Domains
<1>3. net'[c].kind = "pulled"
  BY <1>1, <1>2 DEF Shape, Exchange
<1>4. Final(c)' /\ Detached(c)'
  BY <1>1, <1>2, <1>3 DEF Calm, Final, Detached
<1> QED
  BY <1>2, <1>4, ExchangeCalm

(* A response that only sets the state: Disabled, which ends the loop, or   *)
(* the one the datatype has not left.                                       *)
LEMMA SetStateCalm ==
    ASSUME ProtocolInv, ShelterInv, CalmInv, Release, NEW c \in Clients, Arrived(c),
           NEW recovery \in {"RetryWithBackOff", "Disable"}, NEW st,
           st = "Disabled" => recovery = "Disable",
           st # "Disabled" => st \in InitialStates /\ dt[c].state # "Disabled",
           dt' = [dt EXCEPT ![c].state = st], net' = [net EXCEPT ![c] = Failed(recovery)],
           checked' = checked, loop' = loop
    PROVE  Calm(c)'
<1> DEFINE m == dt[c]
           n == dt'[c]
<1>1. Domains /\ Shape(c) /\ Calm(c)
  BY OwnFacts DEF CalmInv
<1>2. n = [m EXCEPT !.state = st] /\ Replica(m)
  BY <1>1 DEF Domains, Shape
<1>3. n.state = st /\ n.pending = m.pending /\ n.rollback = m.rollback
  <2> HIDE DEF m, n
  <2> QED
    BY <1>2 DEF Replica
<1>4. net'[c] = Failed(recovery)
  BY <1>1 DEF Domains
<1>5. net'[c].kind \in {"idle", "error"} /\ (st = "Disabled" => net'[c].kind = "error")
  BY <1>4, FailedFields DEF Failed
<1>6. m.pending # <<>> =>
          m.rollback.state # "Unsubscribing" /\ (m.rollback.state = "Disabled" => st = "Disabled")
  BY SpannedKeeps DEF Arrived
<1>7. Final(c)' /\ Detached(c)'
  BY <1>5 DEF Final, Detached
<1>8. Overtaken(c)'
  BY <1>3, <1>5 DEF Overtaken, Ending, InitialStates
<1>9. Restores(c)'
  BY <1>3, <1>6 DEF Restores
<1> QED
  BY <1>1, <1>7, <1>8, <1>9 DEF Calm

(* An error response. *)
LEMMA ApplyErrorCalm ==
    ASSUME ProtocolInv, ShelterInv, StoredInv, CalmInv, Release, NEW c \in Clients, ApplyError(c)
    PROVE  Calm(c)'
<1> DEFINE e == Mapping(ToDatatypeError(net[c].error))
           st == net[c].state
<1>1. Told(c) /\ Calm(c) /\ Arrived(c) /\ net[c].kind = "pulled" /\ net[c].error # "none"
  BY DEF StoredInv, StoredClient, CalmInv, ApplyError, Arrived
<1>2. st # "Disabled" => st \in InitialStates /\ dt[c].state # "Disabled"
  BY <1>1 DEF Told, Calm, Detached
<1>3. e \in {"RetryWithBackOff", "Disable"} /\ (st = "Disabled" => e = "Disable")
  BY <1>1, Routed DEF Calm, Final
<1>4. /\ dt' = [dt EXCEPT ![c].state = st] /\ net' = [net EXCEPT ![c] = Failed(e)]
      /\ checked' = checked /\ loop' = loop
  BY DEF ApplyError, clientVars
<1> HIDE DEF e, st
<1> QED
  BY <1>1, <1>2, <1>3, <1>4, SetStateCalm

(* An illegal response. *)
LEMMA ApplyIllegalCalm ==
    ASSUME ProtocolInv, ShelterInv, CalmInv, Release, NEW c \in Clients, ApplyIllegal(c)
    PROVE  Calm(c)'
<1> DEFINE e == "Disable"
           st == "Disabled"
<1>1. /\ dt' = [dt EXCEPT ![c].state = st] /\ net' = [net EXCEPT ![c] = Failed(e)]
      /\ checked' = checked /\ loop' = loop /\ Arrived(c)
  BY Routed DEF ApplyIllegal, clientVars
<1>2. /\ e \in {"RetryWithBackOff", "Disable"} /\ (st = "Disabled" => e = "Disable")
      /\ st # "Disabled" => st \in InitialStates /\ dt[c].state # "Disabled"
  OBVIOUS
<1> HIDE DEF e, st
<1> QED
  BY <1>1, <1>2, SetStateCalm

(* A response without an error finds its datatype alive. *)
LEMMA ApplyPulledCalm ==
    ASSUME ProtocolInv, ShelterInv, CalmInv, Release, NEW c \in Clients, ApplyPulled(c)
    PROVE  Calm(c)'
<1> DEFINE r == net[c]
           m == SubscribedReplica(c, r)
           n == dt'[c]
<1>1. Domains /\ Shape(c) /\ Phase(c) /\ Calm(c)
  BY OwnFacts DEF CalmInv
<1>2. Arrived(c) /\ r.kind = "pulled" /\ r.error = "none"
  BY DEF ApplyPulled, Arrived
<1>3. dt[c].state # "Disabled"
  BY <1>1, <1>2 DEF Calm, Detached
<1>4. /\ LegalResponse(dt[c].state, r) /\ dt' = [dt EXCEPT ![c] = PulledReplica(m, r)]
      /\ checked' = checked /\ loop' = loop /\ net' = [net EXCEPT ![c] = Idle]
  BY <1>3 DEF ApplyPulled, clientVars, Release
<1>5. n = PulledReplica(m, r) /\ net'[c].kind = "idle"
  BY <1>1, <1>4 DEF Domains, Idle
<1>6. Live(c) /\ r.cp \in Checkpoints /\ r.state \in States
  BY <1>1, <1>2 DEF Phase, Shape, Exchange, Response
<1>7. Replica(m) /\ (m = dt[c] \/ m.pending = <<>>)
  <2>1. m = SubscribedReplica(c, r)
    OBVIOUS
  <2> HIDE DEF r, m
  <2> QED
    BY <1>6, <2>1, SubscribedReplicaFields
<1>8. n.state = r.state /\ n.pending = m.pending /\ n.rollback = m.rollback
  <2> HIDE DEF n, r, m
  <2> QED
    BY <1>5, <1>6, <1>7, PulledFields
<1>9. n.pending # <<>> =>
          n.rollback.state # "Unsubscribing" /\ n.rollback.state # "Disabled"
  BY <1>2, <1>3, <1>7, <1>8, SpannedKeeps DEF Arrived
<1>10. "unsub" \in checked'[c] => n.state = "Subscribed"
  BY <1>1, <1>4, <1>8 DEF Calm, Overtaken, LegalResponse
<1> QED
  BY <1>1, <1>4, <1>5, <1>9, <1>10 DEF Calm, Final, Detached, Overtaken, Restores

(* Disable ends the loop. *)
LEMMA HandleErrorCalm ==
    ASSUME ProtocolInv, CalmInv, NEW c \in Clients, HandleError(c)
    PROVE  Calm(c)'
<1> DEFINE m == dt[c]
           n == dt'[c]
<1>1. Domains /\ Shape(c)
  BY OwnFacts
<1>2. net[c].kind = "error" /\ net[c].recovery = "Disable"
  BY <1>1 DEF HandleError, Shape, Exchange
<1>3. ApplyAction(m, "Disable") = Disable(m) /\ LoopModeFrom("Disable") = "Stopped"
  BY DEF ApplyAction, LoopModeFrom
<1>4. /\ dt' = [dt EXCEPT ![c] = Disable(@)] /\ net' = [net EXCEPT ![c] = Idle]
      /\ loop' = [loop EXCEPT ![c] = "Stopped"]
  BY <1>1, <1>2, <1>3 DEF HandleError, Domains
<1>5. n = Disable(m) /\ net'[c].kind = "idle" /\ Replica(m) /\ loop'[c] = "Stopped"
  BY <1>1, <1>4 DEF Domains, Idle, Shape
<1>6. n.state = "Disabled" /\ n.pending = <<>>
  <2> DEFINE q == Reset(m)
  <2> HIDE DEF m, n
  <2>1. Replica(q) /\ q.pending = <<>>
    BY <1>5, ResetFields
  <2>2. n = [q EXCEPT !.state = "Disabled"]
    BY <1>5 DEF Disable
  <2> HIDE DEF q
  <2> QED
    BY <2>1, <2>2 DEF Replica
<1> QED
  BY <1>5, <1>6 DEF Calm, Final, Detached, Overtaken, Restores, Ending

(* It holds before anything is built ... *)
LEMMA InitCalm == Init => CalmInv
<1> SUFFICES ASSUME Init, NEW c \in Clients PROVE Calm(c)
  BY DEF CalmInv
<1>1. /\ dt[c] = NewMutable(Origins, "Disabled") /\ checked[c] = {} /\ net[c] = Idle
      /\ loop[c] = "Stopped"
  BY DEF Init
<1>2. net[c].kind = "idle"
  BY <1>1 DEF Idle
<1>3. dt[c].state = "Disabled" /\ dt[c].pending = <<>>
  BY <1>1, NewMutableFields DEF States
<1> QED
  BY <1>1, <1>2, <1>3 DEF Calm, Final, Detached, Overtaken, Restores

(* ... and every step of a release build in a sheltered environment keeps   *)
(* it.                                                                      *)
LEMMA NextCalm ==
    ASSUME ProtocolInv, ShelterInv, StoredInv, CalmInv, Release, [Next]_vars
    PROVE  CalmInv'
<1>1. CASE Next
  <2>1. PICK c \in Clients : User(c) \/ Server(c) \/ EventLoop(c)
    BY <1>1 DEF Next
  <2>2. Frame(c)
    BY <2>1, EveryStep DEF StepOf
  <2>3. CASE User(c)
    BY <2>2, <2>3, BuildCalm, CheckCalm, ExecuteOpCalm, EndTxCalm, SetUnsubscribingCalm,
       CalmOthers DEF User
  <2>4. CASE Server(c)
    <3>1. ServerEffect(c) \/ RemoveServer(c)
      BY <2>4, RefusalEffect, CreatingEffect, SubscribingEffect, SubscribedEffect,
         UnsubscribingEffect DEF Server
    <3> QED
      BY <2>2, <3>1, ServerCalm, RemoveCalm, CalmOthers
  <2>5. CASE EventLoop(c)
    BY <2>2, <2>5, RegisterCalm, StartPushCalm, TimeOutCalm, ApplyErrorCalm,
       ApplyIllegalCalm, ApplyPulledCalm, HandleErrorCalm, CalmOthers DEF EventLoop
  <2> QED
    BY <2>1, <2>3, <2>4, <2>5
<1>2. CASE UNCHANGED vars
  BY <1>2 DEF vars, CalmInv, Calm, Final, Detached, Overtaken, Restores, Ending
<1> QED
  BY <1>1, <1>2

(* No event loop dies in PullHandler, in a debug build of an orderly        *)
(* environment, where neither of the two differences of                     *)
(* calculate_pulling_transactions underflows, or in a release build of a    *)
(* sheltered one: no response without an error meets a Disabled datatype,   *)
(* however unsubscribes, rollbacks, refusals and time-outs interleave.      *)
THEOREM PanicFreeAlways == Spec => []PanicFree
<1>1. (Orderly => ExactInv) => (Orderly => NoPanic)
  BY DEF ExactInv, ExactClient, Settled, NoPanic
<1>2. (Release => CalmInv) => (Release => NoPanic)
  BY DEF CalmInv, Calm, NoPanic
<1>3. (Orderly => NoPanic) /\ (Release => NoPanic) => PanicFree
  BY DEF PanicFree, Release
<1>4. Init => ProtocolInv /\ ShelterInv /\ LedgerInv /\ StoredInv /\ (Release => CalmInv)
  BY InitInv, InitShelter, InitLedger, InitStored, InitCalm
<1>5. /\ ProtocolInv /\ ShelterInv /\ LedgerInv /\ StoredInv /\ (Release => CalmInv)
      /\ [Next]_vars
      => ProtocolInv' /\ ShelterInv' /\ LedgerInv' /\ StoredInv' /\ (Release' => CalmInv')
  <2> SUFFICES ASSUME ProtocolInv, ShelterInv, LedgerInv, StoredInv, Release => CalmInv,
                      [Next]_vars
               PROVE  /\ ProtocolInv' /\ ShelterInv' /\ LedgerInv' /\ StoredInv'
                      /\ Release' => CalmInv'
    OBVIOUS
  <2>1. ProtocolInv' /\ ShelterInv'
    BY NextInv, NextShelter
  <2>2. LedgerInv'
    BY <2>1, NextLedger
  <2>3. StoredInv'
    BY <2>1, NextStored
  <2>4. Release' <=> Release
    BY ScenarioStays DEF Release, Sheltered
  <2>5. Release => CalmInv'
    BY NextCalm
  <2> QED
    BY <2>1, <2>2, <2>3, <2>4, <2>5
<1> QED
  BY <1>1, <1>2, <1>3, <1>4, <1>5, ExactInvariant, PTL DEF Spec

-----------------------------------------------------------------------------
(* Type correctness, in every environment.  The shapes that the invariant   *)
(* above leaves open: what a counter holds, the identifiers and the phases. *)
Counters == [Origins -> Int]

ServerTyped(s) == s.gen \in Nat /\ s.creator \in Clients \cup {Nobody} /\ s.duid \in Duids

(* A checked write has budget left: execute_local_operation takes one.      *)
Typed(c) ==
    /\ dt[c].crdt \in Counters /\ duid[c] \in Duids
    /\ checked[c] \subseteq {"write", "unsub"} /\ net[c] \in Exchanges
    /\ loop[c] \in {"Normal", "Stopped", "Panicked"}
    /\ budget[c] \in Nat /\ ("write" \in checked[c] => budget[c] > 0)

(* A function of the clients. *)
Array(f) == f = [c \in Clients |-> f[c]]

Arrays ==
    /\ Array(inst) /\ Array(dt) /\ Array(duid) /\ Array(checked) /\ Array(net)
    /\ Array(loop) /\ Array(budget)

TypedInv == Arrays /\ ServerTyped(srv) /\ \A c \in Clients : Typed(c)

(* With the shapes of ProtocolInv that is the type invariant. *)
LEMMA TypedImplies == ProtocolInv /\ TypedInv => TypeOK
<1> SUFFICES ASSUME ProtocolInv, TypedInv PROVE TypeOK
  OBVIOUS
<1> DEFINE Bufs == [txs : Seq(Transactions), mem_size : Nat,
                    first_cseq : Nat, last_cseq : Nat]
           Cps == Checkpoints
           Crdts == [Origins -> Int]
           Pend == Seq(Origins)
           Back == [cseq : Nat, state : States]
           Hist == Seq(Transactions)
           Maps == [Clients -> Nat]
<1>1. Arrays /\ ServerShape(srv) /\ ServerTyped(srv)
  BY DEF ProtocolInv, TypedInv
<1>2. ASSUME NEW c \in Clients
      PROVE  dt[c] \in Mutables /\ inst[c] \in 0..MaxInst
  <2>1. Replica(dt[c]) /\ dt[c].crdt \in Crdts /\ inst[c] \in 0..MaxInst
    BY DEF ProtocolInv, ClientInv, Shape, TypedInv, Typed, Counters
  <2> DEFINE m == dt[c]
             C == {m.crdt}
  <2>2. m \in [crdt : C, cseq : Nat, buf : Bufs, cp : Cps, state : States,
               pending : Pend, rollback : Back]
    BY <2>1 DEF Replica, Buffers
  <2>3. C \subseteq Crdts
    BY <2>1
  <2> HIDE DEF m, C, Bufs, Cps, Crdts, Pend, Back
  <2>4. m \in [crdt : Crdts, cseq : Nat, buf : Bufs, cp : Cps, state : States,
               pending : Pend, rollback : Back]
    BY <2>2, <2>3
  <2> QED
    BY <2>1, <2>4 DEF m, Mutables, Bufs, Cps, Crdts, Pend, Back
<1>3. srv \in [gen : Nat, present : BOOLEAN, wired : SUBSET Clients,
               created : BOOLEAN, creator : Clients \cup {Nobody},
               duid : Duids, history : Seq(Transactions), cseqMap : [Clients -> Nat]]
  <2> DEFINE G == {srv.gen}
             K == {srv.creator}
             I == {srv.duid}
             W == SUBSET Clients
             Who == Clients \cup {Nobody}
             Ids == Duids
  <2>1. srv \in [gen : G, present : BOOLEAN, wired : W, created : BOOLEAN,
                 creator : K, duid : I, history : Hist, cseqMap : Maps]
    BY <1>1 DEF ServerShape
  <2>2. G \subseteq Nat /\ K \subseteq Who /\ I \subseteq Ids
    BY <1>1 DEF ServerTyped
  <2> HIDE DEF G, K, I, W, Who, Ids, Hist, Maps
  <2>3. srv \in [gen : Nat, present : BOOLEAN, wired : W, created : BOOLEAN,
                 creator : Who, duid : Ids, history : Hist, cseqMap : Maps]
    BY <2>1, <2>2
  <2> QED
    BY <2>3 DEF W, Who, Ids, Hist, Maps
<1>4. \A c \in Clients : Typed(c)
  BY DEF TypedInv
<1>5. /\ \A c \in Clients : dt[c] \in Mutables
      /\ \A c \in Clients : inst[c] \in 0..MaxInst
  BY <1>2
<1>6. ASSUME NEW f, NEW S, Array(f), \A c \in Clients : f[c] \in S PROVE f \in [Clients -> S]
  BY <1>6 DEF Array
<1>7. dt \in [Clients -> Mutables] /\ inst \in [Clients -> 0..MaxInst]
  BY <1>1, <1>5, <1>6 DEF Arrays
<1>8. duid \in [Clients -> Duids] /\ net \in [Clients -> Exchanges]
  BY <1>1, <1>4, <1>6 DEF Arrays, Typed
<1>9. /\ checked \in [Clients -> SUBSET {"write", "unsub"}]
      /\ loop \in [Clients -> {"Normal", "Stopped", "Panicked"}]
      /\ budget \in [Clients -> Nat]
  <2>1. \A c \in Clients : /\ checked[c] \in SUBSET {"write", "unsub"}
                           /\ loop[c] \in {"Normal", "Stopped", "Panicked"}
                           /\ budget[c] \in Nat
    BY <1>4 DEF Typed
  <2> QED
    BY <1>1, <1>6, <2>1 DEF Arrays
<1> QED
  BY <1>3, <1>7, <1>8, <1>9 DEF TypeOK

(* Every step changes one entry of an array. *)
LEMMA ArraysStay ==
    ASSUME Arrays, NEW c \in Clients, User(c) \/ Server(c) \/ EventLoop(c)
    PROVE  Arrays'
<1>1. ASSUME NEW f, Array(f), NEW v PROVE Array([f EXCEPT ![c] = v])
  BY <1>1 DEF Array
<1>2. ASSUME NEW s, NEW r, Reply(c, s, r) PROVE Arrays'
  BY <1>1, <1>2 DEF Arrays, Reply, clientVars
<1>3. ASSUME NEW st, Build(c, st) PROVE Arrays'
  BY <1>1, <1>3 DEF Arrays, Build
<1>4. CASE Register(c)
  BY <1>1, <1>4 DEF Arrays, Register
<1>5. CASE CheckWritable(c) \/ CheckSubscribed(c)
  BY <1>1, <1>5 DEF Arrays, CheckWritable, CheckSubscribed
<1>6. CASE ExecuteOp(c)
  BY <1>1, <1>6 DEF Arrays, ExecuteOp
<1>7. ASSUME NEW ok, EndTx(c, ok) PROVE Arrays'
  BY <1>1, <1>7 DEF Arrays, EndTx, clientVars
<1>8. CASE SetUnsubscribing(c)
  BY <1>1, <1>8 DEF Arrays, SetUnsubscribing
<1>9. CASE StartPush(c)
  BY <1>1, <1>9 DEF Arrays, StartPush, clientVars
<1>10. CASE TimeOut(c)
  BY <1>1, <1>10 DEF Arrays, TimeOut, clientVars
<1>11. CASE ApplyError(c)
  BY <1>1, <1>11 DEF Arrays, ApplyError, clientVars
<1>12. CASE ApplyIllegal(c)
  BY <1>1, <1>12 DEF Arrays, ApplyIllegal, clientVars
<1>13. CASE ApplyPulled(c)
  BY <1>1, <1>13 DEF Arrays, ApplyPulled, clientVars
<1>14. CASE HandleError(c)
  BY <1>1, <1>14 DEF Arrays, HandleError, clientVars
<1>15. CASE RemoveServer(c)
  BY <1>1, <1>15 DEF Arrays, RemoveServer, clientVars
<1>16. CASE ServerMissing(c) \/ ServerDisabled(c) \/ ServerCreating(c)
            \/ ServerSubscribing(c) \/ ServerSubscribed(c) \/ ServerUnsubscribing(c)
  BY <1>2, <1>16 DEF ServerMissing, ServerDisabled, ServerCreating, ServerSubscribing,
     ServerSubscribed, ServerUnsubscribing
<1> QED
  BY <1>3, <1>4, <1>5, <1>6, <1>7, <1>8, <1>9, <1>10, <1>11, <1>12, <1>13, <1>14, <1>15,
     <1>16 DEF User, Server, EventLoop

(* What a step of client c has to show. *)
TypedStep(c) ==
    /\ ServerTyped(srv)' /\ Typed(c)'
    /\ \A d \in Clients \ {c} : budget'[d] = budget[d]

(* The other clients are as they were. *)
LEMMA TypedOthers ==
    ASSUME TypedInv, NEW c \in Clients, Frame(c), Arrays', TypedStep(c)
    PROVE  TypedInv'
<1> SUFFICES ASSUME NEW d \in Clients \ {c} PROVE Typed(d)'
  BY DEF TypedInv, TypedStep
<1>1. /\ dt'[d] = dt[d] /\ duid'[d] = duid[d] /\ checked'[d] = checked[d]
      /\ net'[d] = net[d] /\ loop'[d] = loop[d] /\ budget'[d] = budget[d]
  BY DEF Frame, TypedStep
<1>2. Typed(d)
  BY DEF TypedInv
<1> QED
  BY <1>1, <1>2 DEF Typed

(* What is known of a client before a step of its own. *)
LEMMA TypedFacts ==
    ASSUME ProtocolInv, TypedInv, NEW c \in Clients
    PROVE  /\ Typed(c) /\ ServerTyped(srv) /\ ServerShape(srv) /\ Replica(dt[c]) /\ Shape(c)
           /\ Phase(c) /\ Domains /\ DOMAIN budget = Clients
           /\ dt[c].crdt \in Counters /\ net[c] \in Exchanges /\ duid[c] \in Duids
           /\ inst[c] \in Nat
<1>1. DOMAIN budget = Clients
  BY DEF TypedInv, Arrays, Array
<1>2. Shape(c) /\ Phase(c) /\ Domains /\ ServerShape(srv)
  BY OwnFacts
<1>3. Typed(c) /\ ServerTyped(srv)
  BY DEF TypedInv
<1>4. inst[c] \in Nat
  BY <1>2 DEF Shape
<1> QED
  BY <1>1, <1>2, <1>3, <1>4 DEF Shape, Typed

(* The phases of an exchange by their kinds. *)
LEMMA ExchangeKinds ==
    ASSUME NEW x \in Exchanges
    PROVE  /\ x.kind = "register" => x.gen \in Nat /\ x.state \in States
           /\ x.kind = "push" => x \in Packs
           /\ x.kind = "pulled" => x \in Responses
           /\ x.kind = "collect" => x.gen \in Nat /\ x.reply \in Responses
<1>1. x \in {Idle, Failed("Disable")} => x.kind \in {"idle", "error"}
  BY DEF Idle, Failed
<1>2. x \in Packs => x.kind = "push"
  BY DEF Packs
<1>3. x \in Responses => x.kind = "pulled"
  BY DEF Responses
<1> DEFINE R == Responses
<1>4. \/ x \in {Idle, Failed("Disable")} \/ x \in Packs \/ x \in R
      \/ x \in [kind : {"register"}, gen : Nat, state : States]
      \/ x \in [kind : {"collect"}, gen : Nat, reply : R]
  BY DEF Exchanges
<1> HIDE DEF R
<1>5. x \in [kind : {"register"}, gen : Nat, state : States] =>
          x.kind = "register" /\ x.gen \in Nat /\ x.state \in States
  OBVIOUS
<1>6. x \in [kind : {"collect"}, gen : Nat, reply : R] =>
          x.kind = "collect" /\ x.gen \in Nat /\ x.reply \in R
  OBVIOUS
<1> QED
  BY <1>1, <1>2, <1>3, <1>4, <1>5, <1>6 DEF R

(* ... and how they are entered. *)
LEMMA ExchangesMade ==
    /\ Idle \in Exchanges
    /\ \A e \in {"RetryWithBackOff", "Disable"} : Failed(e) \in Exchanges
    /\ Packs \subseteq Exchanges /\ Responses \subseteq Exchanges
    /\ \A g \in Nat, st \in States : [kind |-> "register", gen |-> g, state |-> st] \in Exchanges
    /\ \A g \in Nat, r \in Responses : [kind |-> "collect", gen |-> g, reply |-> r] \in Exchanges
<1>1. /\ Idle \in Exchanges /\ Packs \subseteq Exchanges /\ Responses \subseteq Exchanges
      /\ Failed("Disable") \in Exchanges
  BY DEF Exchanges
<1>2. Failed("RetryWithBackOff") = Idle
  BY DEF Failed
<1>3. \A g \in Nat, st \in States :
          [kind |-> "register", gen |-> g, state |-> st] \in [kind : {"register"}, gen : Nat, state : States]
  OBVIOUS
<1> DEFINE R == Responses
<1>4. \A g \in Nat, r \in R :
          [kind |-> "collect", gen |-> g, reply |-> r] \in [kind : {"collect"}, gen : Nat, reply : R]
  <2> HIDE DEF R
  <2> QED
    OBVIOUS
<1>5. /\ [kind : {"register"}, gen : Nat, state : States] \subseteq Exchanges
      /\ [kind : {"collect"}, gen : Nat, reply : R] \subseteq Exchanges
  BY DEF Exchanges
<1> HIDE DEF R
<1> QED
  BY <1>1, <1>2, <1>3, <1>4, <1>5 DEF R

(* A step of a user thread. *)
LEMMA UserTyped ==
    ASSUME ProtocolInv, TypedInv, NEW c \in Clients, srv' = srv, duid' = duid, net' = net,
           loop' = loop, dt'[c].crdt \in Counters, checked'[c] \subseteq {"write", "unsub"},
           budget'[c] \in Nat, "write" \in checked'[c] => budget'[c] > 0,
           \A d \in Clients \ {c} : budget'[d] = budget[d]
    PROVE  TypedStep(c)
<1>1. Typed(c) /\ ServerTyped(srv)
  BY TypedFacts
<1>2. Typed(c)'
  BY <1>1 DEF Typed
<1>3. ServerTyped(srv)'
  BY <1>1 DEF ServerTyped
<1> QED
  BY <1>2, <1>3 DEF TypedStep

(* check_writable and check_subscribed. *)
LEMMA CheckTyped ==
    ASSUME ProtocolInv, TypedInv, NEW c \in Clients, CheckWritable(c) \/ CheckSubscribed(c)
    PROVE  TypedStep(c)
<1>1. Typed(c) /\ Domains
  BY TypedFacts
<1>2. /\ srv' = srv /\ duid' = duid /\ net' = net /\ loop' = loop /\ dt' = dt /\ budget' = budget
  BY DEF CheckWritable, CheckSubscribed
<1>3. /\ checked'[c] \subseteq {"write", "unsub"}
      /\ "write" \in checked'[c] => budget[c] > 0
  <2>1. CASE CheckWritable(c)
    BY <1>1, <2>1 DEF CheckWritable, Typed, Domains
  <2>2. CASE CheckSubscribed(c)
    BY <1>1, <2>2 DEF CheckSubscribed, Typed, Domains
  <2> QED
    BY <2>1, <2>2
<1>4. dt'[c].crdt \in Counters /\ budget'[c] \in Nat
  BY <1>1, <1>2 DEF Typed
<1> QED
  BY <1>2, <1>3, <1>4, UserTyped

(* execute_local_operation: what it counts belongs to the datatype built    *)
(* last.                                                                    *)
LEMMA ExecuteOpTyped ==
    ASSUME ProtocolInv, TypedInv, NEW c \in Clients, ExecuteOp(c)
    PROVE  TypedStep(c)
<1> DEFINE op == <<c, inst[c]>>
           m == dt[c]
           n == dt'[c]
<1>1. /\ Typed(c) /\ Domains /\ Phase(c) /\ Shape(c) /\ DOMAIN budget = Clients
      /\ Replica(m) /\ m.crdt \in Counters
  BY TypedFacts
<1>2. /\ srv' = srv /\ duid' = duid /\ net' = net /\ loop' = loop
      /\ "write" \in checked[c] /\ dt' = [dt EXCEPT ![c] = ExecuteLocal(dt[c], op)]
      /\ checked' = [checked EXCEPT ![c] = checked[c] \ {"write"}]
      /\ budget' = [budget EXCEPT ![c] = budget[c] - 1]
  BY DEF ExecuteOp
<1>3. inst[c] >= 1 /\ inst[c] \in 0..MaxInst
  BY <1>1, <1>2 DEF Phase, Shape
<1>4. op \in Origins
  BY <1>3, SyncAssumption DEF Origins
<1>5. n = ExecuteLocal(m, op)
  BY <1>1, <1>2 DEF Domains
<1> HIDE DEF op, m, n
<1>6. n.crdt \in Counters
  BY <1>1, <1>4, <1>5, ExecuteLocalCounter DEF Counters
<1>7. /\ checked'[c] = checked[c] \ {"write"} /\ budget'[c] = budget[c] - 1
      /\ \A d \in Clients \ {c} : budget'[d] = budget[d]
  BY <1>1, <1>2 DEF Domains
<1>8. budget[c] \in Nat /\ budget[c] > 0 /\ checked[c] \subseteq {"write", "unsub"}
  BY <1>1, <1>2 DEF Typed
<1>9. budget'[c] \in Nat
  BY <1>7, <1>8
<1>10. checked'[c] \subseteq {"write", "unsub"} /\ "write" \notin checked'[c]
  BY <1>7, <1>8
<1> QED
  BY <1>2, <1>6, <1>7, <1>9, <1>10, UserTyped DEF n

(* end_transaction. *)
LEMMA EndTxTyped ==
    ASSUME ProtocolInv, TypedInv, NEW c \in Clients, NEW ok \in BOOLEAN, EndTx(c, ok)
    PROVE  TypedStep(c)
<1> DEFINE m == dt[c]
           n == dt'[c]
<1>1. /\ Typed(c) /\ Domains /\ Replica(m) /\ m.crdt \in Counters
  BY TypedFacts
<1>2. /\ srv' = srv /\ duid' = duid /\ net' = net /\ loop' = loop /\ checked' = checked
      /\ budget' = budget /\ m.pending # <<>>
      /\ dt' = [dt EXCEPT ![c] = EndTransaction(dt[c], c, ok, MaxMem)]
  BY DEF EndTx, clientVars
<1>3. n = EndTransaction(m, c, ok, MaxMem)
  BY <1>1, <1>2 DEF Domains
<1> HIDE DEF m, n
<1>6. n.crdt \in Counters
  <2>1. CASE n = DoRollback(m)
    BY <1>1, <1>2, <2>1, RollbackCounter DEF Counters
  <2>2. CASE n # DoRollback(m)
    BY <1>1, <1>2, <1>3, <2>2, CommitCounter
  <2> QED
    BY <2>1, <2>2
<1>7. /\ checked'[c] \subseteq {"write", "unsub"} /\ budget'[c] \in Nat
      /\ "write" \in checked'[c] => budget'[c] > 0
  BY <1>1, <1>2 DEF Typed
<1> QED
  BY <1>2, <1>6, <1>7, UserTyped DEF n

(* set_state of unsubscribe. *)
LEMMA SetUnsubscribingTyped ==
    ASSUME ProtocolInv, TypedInv, NEW c \in Clients, SetUnsubscribing(c)
    PROVE  TypedStep(c)
<1>1. /\ Typed(c) /\ Domains /\ Replica(dt[c]) /\ dt[c].crdt \in Counters
  BY TypedFacts
<1>2. /\ srv' = srv /\ duid' = duid /\ net' = net /\ loop' = loop /\ budget' = budget
      /\ checked' = [checked EXCEPT ![c] = checked[c] \ {"unsub"}]
      /\ dt' = [dt EXCEPT ![c].state = "Unsubscribing"]
  BY DEF SetUnsubscribing
<1>3. dt'[c].crdt = dt[c].crdt
  BY <1>1, <1>2 DEF Domains, Replica
<1>4. /\ checked'[c] \subseteq {"write", "unsub"} /\ budget'[c] \in Nat
      /\ "write" \in checked'[c] => budget'[c] > 0
  BY <1>1, <1>2 DEF Typed, Domains
<1> QED
  BY <1>1, <1>2, <1>3, <1>4, UserTyped

(* A step of the event loop, whose exchange becomes x. *)
LEMMA LoopTyped ==
    ASSUME ProtocolInv, TypedInv, NEW c \in Clients, ServerTyped(srv)', checked' = checked,
           budget' = budget, dt'[c].crdt \in Counters, duid'[c] \in Duids,
           net'[c] \in Exchanges, loop'[c] \in {"Normal", "Stopped", "Panicked"}
    PROVE  TypedStep(c)
<1>1. Typed(c)
  BY TypedFacts
<1>2. Typed(c)'
  BY <1>1 DEF Typed
<1> QED
  BY <1>2 DEF TypedStep

(* LocalConnectivity::register, first section. *)
LEMMA BuildTyped ==
    ASSUME ProtocolInv, TypedInv, NEW c \in Clients, NEW st \in InitialStates, Build(c, st)
    PROVE  TypedStep(c)
<1>1. /\ Typed(c) /\ Domains /\ ServerTyped(srv) /\ inst[c] \in Nat
  BY TypedFacts
<1> DEFINE g == srv'.gen
           d == <<c, inst[c] + 1>>
<1>2. /\ duid' = duid /\ loop' = loop /\ dt' = dt /\ budget' = budget
      /\ checked' = [checked EXCEPT ![c] = {}]
      /\ srv' = IF srv.present THEN srv ELSE NewServer(c, d, srv.gen + 1)
      /\ net' = [net EXCEPT ![c] = [kind |-> "register", gen |-> g, state |-> st]]
  BY DEF Build
<1>3. d \in Duids
  BY <1>1 DEF Duids
<1> HIDE DEF d
<1>4. ServerTyped(srv)'
  <2>1. CASE srv.present
    BY <1>1, <1>2, <2>1 DEF ServerTyped
  <2>2. CASE ~srv.present
    <3>1. srv'.gen = srv.gen + 1 /\ srv'.creator = c /\ srv'.duid = d
      BY <1>2, <2>2 DEF NewServer
    <3> QED
      BY <1>1, <1>3, <3>1 DEF ServerTyped
  <2> QED
    BY <2>1, <2>2
<1>5. g \in Nat /\ st \in States
  BY <1>4 DEF ServerTyped, InitialStates, States
<1> HIDE DEF g
<1>6. net'[c] \in Exchanges /\ checked'[c] = {}
  BY <1>1, <1>2, <1>5, ExchangesMade DEF Domains
<1>7. Typed(c)'
  BY <1>1, <1>2, <1>6 DEF Typed
<1> QED
  BY <1>2, <1>4, <1>7 DEF TypedStep

(* ... and its second section. *)
LEMMA RegisterTyped ==
    ASSUME ProtocolInv, TypedInv, NEW c \in Clients, Register(c)
    PROVE  TypedStep(c)
<1>1. /\ Typed(c) /\ Domains /\ ServerTyped(srv) /\ ServerShape(srv) /\ inst[c] \in Nat
  BY TypedFacts
<1> DEFINE w == srv.wired \cup {c}
           st == net[c].state
           z == [o \in Origins |-> 0]
           d == <<c, inst[c] + 1>>
<1>2. /\ checked' = checked /\ budget' = budget
      /\ dt' = [dt EXCEPT ![c] = NewMutable(Origins, st)]
      /\ duid' = [duid EXCEPT ![c] = d]
      /\ loop' = [loop EXCEPT ![c] = "Normal"] /\ net' = [net EXCEPT ![c] = Idle]
      /\ srv' = srv \/ srv' = [srv EXCEPT !.wired = w]
  BY DEF Register
<1>3. d \in Duids /\ z \in Counters
  BY <1>1 DEF Duids, Counters
<1>4. dt'[c].crdt = z
  BY <1>1, <1>2 DEF NewMutable, Domains
<1> HIDE DEF w, d, z, st
<1>5. ServerTyped(srv)'
  <2>1. srv'.gen = srv.gen /\ srv'.creator = srv.creator /\ srv'.duid = srv.duid
    BY <1>1, <1>2 DEF ServerShape
  <2> QED
    BY <1>1, <2>1 DEF ServerTyped
<1>6. duid'[c] \in Duids /\ net'[c] \in Exchanges /\ loop'[c] = "Normal"
  BY <1>1, <1>2, <1>3, ExchangesMade DEF Domains
<1> QED
  BY <1>2, <1>3, <1>4, <1>5, <1>6, LoopTyped

(* do_push_pull builds a pack. *)
LEMMA StartPushTyped ==
    ASSUME ProtocolInv, TypedInv, NEW c \in Clients, StartPush(c)
    PROVE  TypedStep(c)
<1>1. /\ Typed(c) /\ Domains /\ ServerTyped(srv) /\ Replica(dt[c]) /\ Phase(c)
  BY TypedFacts
<1>2. /\ checked' = checked /\ budget' = budget /\ dt' = dt /\ duid' = duid /\ loop' = loop
      /\ srv' = srv /\ loop[c] = "Normal"
      /\ \/ net' = [net EXCEPT ![c] = Failed(ReasonMapping("GetPushingTransactions"))]
         \/ net' = [net EXCEPT ![c] = CreatePushPullPack(c)]
  BY DEF StartPush, clientVars
<1>3. CreatePushPullPack(c) \in Packs
  <2> DEFINE m == dt[c]
             from == m.cp.cseq + 1
             txs == PushingTransactions(m.buf, from, scenario.transmit)
             ro == c \in ReadOnly
             id == duid[c]
             q == m.cp.sseq
             st == m.state
  <2>1. OwnNumbering(m, c)
    BY <1>2, OwnFacts DEF Numbered, Live
  <2>2. q \in Nat /\ st \in States /\ id \in Duids /\ ro \in BOOLEAN
    BY <1>1 DEF Typed, Replica, Checkpoints
  <2>3. CreatePushPullPack(c) =
            [kind |-> "push", cuid |-> c, duid |-> id, state |-> st, sseq |-> q,
             readonly |-> ro, txs |-> txs]
    BY DEF CreatePushPullPack
  <2>4. Replica(m) /\ from = m.cp.cseq + 1 /\ txs = PushingTransactions(m.buf, from, scenario.transmit)
    BY <1>1
  <2> HIDE DEF m, from, txs, ro, id, q, st
  <2>5. txs \in Seq(Transactions)
    BY <2>1, <2>4, PushingFields
  <2> DEFINE T == Seq(Transactions)
             I == Duids
  <2>6. txs \in T /\ id \in I
    BY <2>2, <2>5
  <2> HIDE DEF T, I
  <2>7. CreatePushPullPack(c) \in
            [kind : {"push"}, cuid : Clients, duid : I, state : States, sseq : Nat,
             readonly : BOOLEAN, txs : T]
    BY <2>2, <2>3, <2>6
  <2> QED
    BY <2>7 DEF Packs, T, I
<1>4. net'[c] \in Exchanges
  BY <1>1, <1>2, <1>3, Routed, ExchangesMade DEF Domains
<1> QED
  BY <1>1, <1>2, <1>4, LoopTyped DEF Typed, ServerTyped

(* TimedOut. *)
LEMMA TimeOutTyped ==
    ASSUME ProtocolInv, TypedInv, NEW c \in Clients, TimeOut(c)
    PROVE  TypedStep(c)
<1>1. /\ Typed(c) /\ Domains /\ ServerTyped(srv)
  BY TypedFacts
<1>2. /\ checked' = checked /\ budget' = budget /\ dt' = dt /\ duid' = duid /\ loop' = loop
      /\ srv' = srv /\ net' = [net EXCEPT ![c] = Failed(Mapping(TimedOut))]
  BY DEF TimeOut, clientVars
<1>3. net'[c] \in Exchanges
  BY <1>1, <1>2, Routed, ExchangesMade DEF Domains
<1> QED
  BY <1>1, <1>2, <1>3, LoopTyped DEF Typed, ServerTyped

(* PullHandler: an error response, or one that is illegal. *)
LEMMA ApplyErrorTyped ==
    ASSUME ProtocolInv, TypedInv, NEW c \in Clients, ApplyError(c) \/ ApplyIllegal(c)
    PROVE  TypedStep(c)
<1>1. /\ Typed(c) /\ Domains /\ ServerTyped(srv) /\ Replica(dt[c])
  BY TypedFacts
<1>2. PICK st, e :
         /\ checked' = checked /\ budget' = budget /\ duid' = duid /\ loop' = loop /\ srv' = srv
         /\ dt' = [dt EXCEPT ![c].state = st] /\ net' = [net EXCEPT ![c] = Failed(e)]
         /\ e \in {"RetryWithBackOff", "Disable"}
  BY Routed DEF ApplyError, ApplyIllegal, clientVars
<1>3. net'[c] \in Exchanges
  BY <1>1, <1>2, ExchangesMade DEF Domains
<1>4. dt'[c].crdt = dt[c].crdt
  BY <1>1, <1>2 DEF Domains, Replica
<1> QED
  BY <1>1, <1>2, <1>3, <1>4, LoopTyped DEF Typed, ServerTyped

(* handle_error. *)
LEMMA HandleErrorTyped ==
    ASSUME ProtocolInv, TypedInv, NEW c \in Clients, HandleError(c)
    PROVE  TypedStep(c)
<1> DEFINE m == dt[c]
           q == Reset(m)
           e == EmptyBuffer
           none == <<>>
           save == [cseq |-> m.cseq, state |-> m.state]
<1>1. /\ Typed(c) /\ Domains /\ ServerTyped(srv) /\ Replica(m) /\ Shape(c)
  BY TypedFacts
<1>2. net[c].recovery = "Disable"
  BY <1>1 DEF Shape, Exchange, HandleError
<1>3. /\ checked' = checked /\ budget' = budget /\ duid' = duid /\ srv' = srv
      /\ dt' = [dt EXCEPT ![c] = ApplyAction(m, "Disable")]
      /\ net' = [net EXCEPT ![c] = Idle]
      /\ loop' = [loop EXCEPT ![c] = LoopModeFrom("Disable")]
  BY <1>2 DEF HandleError, clientVars
<1>4. net'[c] \in Exchanges /\ loop'[c] = "Stopped"
  BY <1>1, <1>3, ExchangesMade DEF Domains, LoopModeFrom
<1>5. dt'[c] = [q EXCEPT !.state = "Disabled"]
  BY <1>1, <1>3 DEF Domains, ApplyAction, Disable
<1>6. q = [m EXCEPT !.buf = e, !.pending = none, !.rollback = save] /\ Replica(q)
  BY <1>1, ResetFields DEF Reset
<1>7. q.crdt = m.crdt
  <2> HIDE DEF e, none, save, q
  <2> QED
    BY <1>1, <1>6 DEF Replica
<1>8. dt'[c].crdt = m.crdt
  <2> HIDE DEF q
  <2> QED
    BY <1>5, <1>6, <1>7 DEF Replica
<1> QED
  BY <1>1, <1>3, <1>4, <1>8, LoopTyped DEF Typed, ServerTyped

(* execute_transactions adds numbers, however many it skips. *)
LEMMA PulledTyped ==
    ASSUME NEW m, Replica(m), m.crdt \in Counters, NEW r, r.cp \in Checkpoints,
           r.txs \in Seq(Transactions), NEW n, n = PulledReplica(m, r)
    PROVE  n.crdt \in Counters
<1> DEFINE k == PullCount(m, r)
           txs == r.txs
           rest == SubSeq(txs, Skipped(m, r) + 1, Len(txs))
           e == [o \in Origins |-> m.crdt[o] + TxsCount(rest, o)]
           cp == [sseq |-> Max({m.cp.sseq, r.cp.sseq}), cseq |-> Max({m.cp.cseq, r.cp.cseq})]
<1>1. /\ m.cp.sseq \in Nat /\ m.cp.cseq \in Nat /\ r.cp.sseq \in Nat /\ r.cp.cseq \in Nat
      /\ Len(txs) \in Nat
  BY DEF Replica, Checkpoints
<1>2. k \in Int
  BY <1>1 DEF PullCount
<1>3. Skipped(m, r) \in Nat
  <2>1. Skipped(m, r) = IF k >= 0 /\ Len(txs) > k THEN Len(txs) - k ELSE 0
    BY DEF Skipped
  <2> HIDE DEF k, txs
  <2> QED
    BY <1>1, <1>2, <2>1
<1>4. rest \in Seq(Transactions)
  <2> DEFINE a == Skipped(m, r) + 1
             L == Len(txs)
  <2>1. a \in Nat /\ a >= 1 /\ L = Len(txs) /\ rest = SubSeq(txs, a, L) /\ txs \in Seq(Transactions)
    BY <1>3
  <2> HIDE DEF a, L, txs, rest
  <2>2. \A i \in a..L : i \in 1..Len(txs) /\ txs[i] \in Transactions
    BY <2>1
  <2> QED
    BY <2>1, <2>2
<1>5. ExecuteTxs(m.crdt, rest) = e
  BY DEF ExecuteTxs, Counters
<1>6. n = [m EXCEPT !.crdt = e, !.cp = cp, !.state = r.state]
  BY <1>5 DEF PulledReplica, Replica
<1> HIDE DEF rest
<1>7. \A o : TxsCount(rest, o) \in Nat
  BY <1>4, TxsCountFacts
<1>8. e \in Counters
  BY <1>7 DEF Counters
<1> HIDE DEF e, cp
<1> QED
  BY <1>6, <1>8 DEF Replica

(* PullHandler: a response without an error. *)
LEMMA ApplyPulledTyped ==
    ASSUME ProtocolInv, TypedInv, NEW c \in Clients, ApplyPulled(c)
    PROVE  TypedStep(c)
<1> DEFINE r == net[c]
           m == SubscribedReplica(c, r)
           n == dt'[c]
           panic == \/ dt[c].state = "Disabled"
                    \/ "debug" \in scenario.env /\ Underflows(m, r)
<1>1. /\ Typed(c) /\ Domains /\ ServerTyped(srv) /\ Replica(dt[c]) /\ Phase(c)
      /\ dt[c].crdt \in Counters
  BY TypedFacts
<1>2. /\ r.kind = "pulled"
      /\ dt' = [dt EXCEPT ![c] = IF panic THEN m ELSE PulledReplica(m, r)]
      /\ budget' = budget /\ checked' = checked /\ srv' = srv
      /\ net' = [net EXCEPT ![c] = Idle]
      /\ loop' = IF panic THEN [loop EXCEPT ![c] = "Panicked"] ELSE loop
      /\ duid' = IF AppliesSubscription(c, r) THEN [duid EXCEPT ![c] = r.duid] ELSE duid
  BY DEF ApplyPulled, Arrived, clientVars
<1> HIDE DEF panic
<1>3. r \in Responses
  BY <1>1, <1>2, ExchangeKinds DEF Typed
<1>4. n = IF panic THEN m ELSE PulledReplica(m, r)
  BY <1>1, <1>2 DEF Domains
<1>5. r.duid \in Duids /\ r.cp \in Checkpoints /\ r.txs \in Seq(Transactions)
      /\ r.snapshot \in Seq(Counters)
  <2> HIDE DEF r
  <2> QED
    BY <1>3 DEF Responses, Counters
<1>6. net'[c] \in Exchanges /\ duid'[c] \in Duids
      /\ loop'[c] \in {"Normal", "Stopped", "Panicked"}
  <2> HIDE DEF r
  <2> QED
    BY <1>1, <1>2, <1>5, ExchangesMade DEF Domains, Typed
<1>7. Live(c)
  BY <1>1, <1>2 DEF Phase
<1>8. Replica(m) /\ m.crdt \in Counters
  <2>1. Replica(m)
    BY <1>7, SubscribedReplicaFields
  <2>2. CASE m = dt[c]
    BY <1>1, <2>1, <2>2
  <2>3. CASE m # dt[c]
    <3> DEFINE x == r.snapshot[1]
               d == dt[c]
               s == r.snapshot
    <3>1. m = ApplySnapshot(d, x) /\ s # <<>>
      BY <2>3 DEF SubscribedReplica
    <3>2. s \in Seq(Counters) /\ Replica(d) /\ x = s[1]
      BY <1>1, <1>5
    <3> HIDE DEF m, d, s, x
    <3>3. x \in Counters
      <4>1. 1 \in 1..Len(s)
        BY <3>1, <3>2
      <4> QED
        BY <3>2, <4>1
    <3>4. m.crdt = x
      BY <3>1, <3>2, SnapshotReplica
    <3> QED
      BY <2>1, <3>3, <3>4
  <2> QED
    BY <2>2, <2>3
<1> HIDE DEF r, m, n
<1>9. n.crdt \in Counters
  <2>1. CASE panic
    BY <1>4, <1>8, <2>1
  <2>2. CASE ~panic
    <3>1. n = PulledReplica(m, r)
      BY <1>4, <2>2
    <3> QED
      BY <1>5, <1>8, <3>1, PulledTyped
  <2> QED
    BY <2>1, <2>2
<1> QED
  BY <1>1, <1>2, <1>6, <1>9, LoopTyped DEF n, ServerTyped

(* What the server answers is a response: a stub with other fields. *)
LEMMA ResponseChanged ==
    ASSUME NEW q \in Responses
    PROVE  /\ \A st \in States : [q EXCEPT !.state = st] \in Responses
           /\ \A st \in States, e \in PushPullErrors :
                 [q EXCEPT !.state = st, !.error = e] \in Responses
           /\ \A d \in Duids, e \in PushPullErrors :
                 [q EXCEPT !.duid = d, !.error = e] \in Responses
           /\ \A st \in States, k \in Checkpoints :
                 [q EXCEPT !.state = st, !.cp = k] \in Responses
           /\ \A st \in States, k \in Checkpoints, txs \in Seq(Transactions) :
                 [q EXCEPT !.state = st, !.cp = k, !.txs = txs] \in Responses
           /\ \A d \in Duids, st \in States, k \in Checkpoints, snap \in Seq(Counters),
                 txs \in Seq(Transactions) :
                 [q EXCEPT !.duid = d, !.state = st, !.cp = k, !.snapshot = snap, !.txs = txs]
                     \in Responses
<1> DEFINE T == Seq(Transactions)
           C == Seq(Counters)
           I == Duids
           K == Checkpoints
           E == {"none"} \cup PushPullErrors
           S == States
           R == [kind : {"pulled"}, state : S, duid : I, cp : K, error : E, txs : T,
                 snapshot : C]
<1>1. \A e \in PushPullErrors : e \in E
  OBVIOUS
<1>2. R = Responses
  BY DEF Responses, Counters
<1> HIDE DEF T, C, I, K, E, S
<1>3. q \in R
  BY <1>2
<1>4. /\ \A st \in S : [q EXCEPT !.state = st] \in R
      /\ \A st \in S, e \in E : [q EXCEPT !.state = st, !.error = e] \in R
      /\ \A d \in I, e \in E : [q EXCEPT !.duid = d, !.error = e] \in R
  BY <1>3
<1>5. /\ \A st \in S, k \in K : [q EXCEPT !.state = st, !.cp = k] \in R
      /\ \A st \in S, k \in K, txs \in T : [q EXCEPT !.state = st, !.cp = k, !.txs = txs] \in R
  BY <1>3
<1>6. \A d \in I, st \in S, k \in K, snap \in C, txs \in T :
          [q EXCEPT !.duid = d, !.state = st, !.cp = k, !.snapshot = snap, !.txs = txs] \in R
  BY <1>3
<1> HIDE DEF R
<1> QED
  BY <1>1, <1>2, <1>4, <1>5, <1>6 DEF T, C, I, K, S

(* The fields of a pack under way. *)
LEMMA PackTyped ==
    ASSUME ProtocolInv, TypedInv, NEW c \in Clients, net[c].kind = "push"
    PROVE  /\ net[c].cuid = c /\ net[c].duid \in Duids /\ net[c].state \in States
           /\ net[c].sseq \in Nat /\ net[c].txs \in Seq(Transactions)
<1> DEFINE p == net[c]
<1>1. p \in Packs /\ p.cuid = c
  BY TypedFacts, ExchangeKinds, PackFacts
<1> HIDE DEF p
<1>2. p.duid \in Duids /\ p.state \in States /\ p.sseq \in Nat /\ p.txs \in Seq(Transactions)
  BY <1>1 DEF Packs
<1> QED
  BY <1>1, <1>2 DEF p

(* get_pulled_stub. *)
LEMMA StubTyped ==
    ASSUME NEW p, p.state \in States, p.duid \in Duids
    PROVE  Stub(p) \in Responses
<1> DEFINE none == <<>>
           k == [sseq |-> 0, cseq |-> 0]
           st == p.state
           d == p.duid
           T == Seq(Transactions)
           C == Seq(Counters)
           I == Duids
           K == Checkpoints
           E == {"none"} \cup PushPullErrors
<1>1. none \in T /\ none \in C /\ k \in K /\ "none" \in E /\ st \in States /\ d \in I
  BY DEF Checkpoints
<1>2. Stub(p) = [kind |-> "pulled", state |-> st, error |-> "none", duid |-> d,
                 cp |-> k, txs |-> none, snapshot |-> none]
  BY DEF Stub
<1> HIDE DEF none, k, st, d, T, C, I, K, E
<1>3. Stub(p) \in [kind : {"pulled"}, state : States, duid : I, cp : K, error : E, txs : T,
                   snapshot : C]
  BY <1>1, <1>2
<1> QED
  BY <1>3 DEF Responses, T, C, I, K, E, Counters

(* Every rejection is a response. *)
LEMMA RejectTyped ==
    ASSUME NEW p, p.state \in States, p.duid \in Duids, NEW e \in PushPullErrors
    PROVE  Reject(p, e) \in Responses
<1> DEFINE q == Stub(p)
           st == "Disabled"
<1>1. Reject(p, e) = [q EXCEPT !.state = st, !.error = e]
  BY DEF Reject
<1>2. st \in States /\ q \in Responses
  BY StubTyped DEF States
<1> HIDE DEF q, st
<1>3. [q EXCEPT !.state = st, !.error = e] \in Responses
  BY <1>2, ResponseChanged
<1> QED
  BY <1>1, <1>3

(* pull_transactions returns transactions. *)
LEMMA PullTyped ==
    ASSUME NEW s, ServerShape(s), NEW c, NEW from \in Nat
    PROVE  PullTransactions(s, c, from) \in Seq(Transactions)
<1>1. s.history \in Seq(Transactions)
  BY DEF ServerShape
<1>2. PICK F : /\ Pulls(F, s.history, c, from)
               /\ PullTransactions(s, c, from) = F[Len(s.history)]
  BY <1>1, PullingSteps
<1>3. Len(s.history) \in 0..Len(s.history)
  BY <1>1
<1> QED
  BY <1>2, <1>3 DEF Pulls

(* Where the server has got to is a checkpoint. *)
LEMMA ServerCheckpoint ==
    ASSUME NEW s, ServerShape(s), NEW c \in Clients
    PROVE  /\ [sseq |-> Len(s.history), cseq |-> s.cseqMap[c]] \in Checkpoints
           /\ [sseq |-> Len(s.history), cseq |-> 0] \in Checkpoints
<1>1. Len(s.history) \in Nat /\ s.cseqMap[c] \in Nat
  BY DEF ServerShape
<1> QED
  BY <1>1 DEF Checkpoints

(* process_client_push. *)
LEMMA ClientPushTyped ==
    ASSUME NEW p, NEW s, ServerShape(s), p.cuid \in Clients, p.duid \in Duids, p.sseq \in Nat,
           p.state \in States, NEW st \in States, NEW r, r = ClientPush(p, s, st)
    PROVE  r \in Responses
<1>1. CASE ReadonlyPush(p)
  BY <1>1, RejectTyped DEF ClientPush, PushPullErrors
<1>2. CASE ~ReadonlyPush(p)
  <2> DEFINE c == p.cuid
             from == p.sseq
             txs == PullTransactions(s, c, from)
             k == [sseq |-> Len(s.history), cseq |-> s.cseqMap[c]]
             q == Stub(p)
  <2>1. c \in Clients /\ from \in Nat /\ q \in Responses
    BY StubTyped
  <2>2. r = [q EXCEPT !.state = st, !.cp = k, !.txs = txs]
    BY <1>2 DEF ClientPush
  <2> HIDE DEF c, from, q
  <2>3. txs \in Seq(Transactions)
    BY <2>1, PullTyped
  <2>4. k \in Checkpoints
    BY <2>1, ServerCheckpoint
  <2> HIDE DEF txs, k
  <2>5. [q EXCEPT !.state = st, !.cp = k, !.txs = txs] \in Responses
    BY <2>1, <2>3, <2>4, ResponseChanged
  <2> QED
    BY <2>2, <2>5
<1> QED
  BY <1>1, <1>2

(* A reply keeps the types if its server and its response have them. *)
LEMMA ReplyTyped ==
    ASSUME ProtocolInv, TypedInv, NEW c \in Clients, NEW s, NEW r, Reply(c, s, r),
           ServerTyped(s), r \in Exchanges
    PROVE  TypedStep(c)
<1>1. Typed(c)
  BY TypedFacts
<1>2. /\ srv' = s /\ net'[c] = r /\ dt'[c] = dt[c] /\ duid'[c] = duid[c] /\ loop'[c] = loop[c]
  BY ReplyFacts
<1>3. checked' = checked /\ budget' = budget
  BY DEF Reply, clientVars
<1> QED
  BY <1>1, <1>2, <1>3, LoopTyped DEF Typed, ServerTyped

(* A rejection. *)
LEMMA RefusalTyped ==
    ASSUME ProtocolInv, TypedInv, NEW c \in Clients, net[c].kind = "push",
           NEW e \in PushPullErrors, Reply(c, srv, Reject(net[c], e))
    PROVE  TypedStep(c)
<1> DEFINE r == Reject(net[c], e)
<1>1. r \in Exchanges
  BY PackTyped, RejectTyped, ExchangesMade
<1>2. ServerTyped(srv) /\ Reply(c, srv, r)
  BY TypedFacts
<1> HIDE DEF r
<1> QED
  BY <1>1, <1>2, ReplyTyped

(* process_creating: the creator and the duid are those of the pack. *)
LEMMA CreatingTyped ==
    ASSUME ProtocolInv, TypedInv, NEW c \in Clients, ServerCreating(c)
    PROVE  TypedStep(c)
<1> DEFINE p == net[c]
           t == [srv EXCEPT !.created = TRUE, !.creator = p.cuid, !.duid = p.duid]
           s == Created(p)
           k == [sseq |-> Len(s.history), cseq |-> s.cseqMap[c]]
           r == [Stub(p) EXCEPT !.state = "Subscribed", !.cp = k]
<1>1. net[c].kind = "push"
  BY DEF ServerCreating, Pushed
<1>2. \/ Reply(c, srv, Reject(p, "CreateFailed"))
      \/ Reply(c, srv, Reject(p, "ReadonlyViolation"))
      \/ Reply(c, s, r)
  BY DEF ServerCreating
<1>3. CASE Reply(c, s, r)
  <2> DEFINE pc == p.cuid
             pd == p.duid
             q == Stub(p)
             st == "Subscribed"
  <2>1. /\ ServerShape(srv) /\ ServerTyped(srv) /\ pc = c /\ pd \in Duids
        /\ q \in Responses
    BY <1>1, TypedFacts, PackTyped, StubTyped
  <2>2. t = [srv EXCEPT !.created = TRUE, !.creator = pc, !.duid = pd]
    OBVIOUS
  <2>3. s = PushTransactions(t, net[c])
    BY DEF Created
  <2>4. r = [q EXCEPT !.state = st, !.cp = k]
    OBVIOUS
  <2>5. st \in States
    BY DEF States
  <2>6. Reply(c, s, r)
    BY <1>3
  <2>7. k = [sseq |-> Len(s.history), cseq |-> s.cseqMap[c]]
    OBVIOUS
  <2> HIDE DEF t, pc, pd, q, st, s, k, r
  <2>8. /\ ServerShape(t) /\ t.history = srv.history /\ t.cseqMap = srv.cseqMap
        /\ t.gen = srv.gen /\ t.creator = pc /\ t.duid = pd
    BY <2>1, <2>2 DEF ServerShape
  <2>9. ServerShape(s) /\ SameEntry(t, s)
    BY <1>1, <2>3, <2>8, StoreEffect
  <2>10. ServerTyped(s)
    BY <2>1, <2>8, <2>9 DEF ServerTyped, SameEntry
  <2>11. k \in Checkpoints
    BY <2>7, <2>9, ServerCheckpoint
  <2>12. [q EXCEPT !.state = st, !.cp = k] \in Responses
    BY <2>1, <2>5, <2>11, ResponseChanged
  <2>13. r \in Exchanges
    BY <2>4, <2>12, ExchangesMade
  <2> QED
    BY <2>6, <2>10, <2>13, ReplyTyped
<1> QED
  BY <1>1, <1>2, <1>3, RefusalTyped DEF PushPullErrors

(* process_subscribing: the snapshot is the counter of the creator. *)
LEMMA SubscribingTyped ==
    ASSUME ProtocolInv, TypedInv, NEW c \in Clients, ServerSubscribing(c)
    PROVE  TypedStep(c)
<1> DEFINE p == net[c]
           x == srv.creator
           from == dt[x].cp.sseq
           id == srv.duid
           failed == [Stub(p) EXCEPT !.duid = id, !.error = "ServerInternalError"]
           snap == <<dt[x].crdt>>
           txs == PullTransactions(srv, c, from)
           k == [sseq |-> Sseq, cseq |-> 0]
           r == [Stub(p) EXCEPT !.duid = id, !.state = "Subscribed", !.cp = k,
                                !.snapshot = snap, !.txs = txs]
<1>1. net[c].kind = "push"
  BY DEF ServerSubscribing, Pushed
<1>2. \/ Reply(c, srv, Reject(p, "ResourceNotFound"))
      \/ Reply(c, srv, Reject(p, "ProtocolViolation"))
      \/ Reply(c, srv, failed)
      \/ Reply(c, srv, r) /\ x \in srv.wired
  BY DEF ServerSubscribing
<1>3. ServerShape(srv) /\ ServerTyped(srv) /\ id \in Duids
  BY TypedFacts DEF ServerTyped
<1>4. CASE Reply(c, srv, failed)
  <2> DEFINE q == Stub(p)
             e == "ServerInternalError"
  <2>1. failed = [q EXCEPT !.duid = id, !.error = e]
    OBVIOUS
  <2>2. q \in Responses /\ e \in PushPullErrors
    BY <1>1, PackTyped, StubTyped DEF PushPullErrors
  <2>3. Reply(c, srv, failed)
    BY <1>4
  <2> HIDE DEF failed, q, e, id
  <2>4. [q EXCEPT !.duid = id, !.error = e] \in Responses
    BY <1>3, <2>2, ResponseChanged
  <2>5. failed \in Exchanges
    BY <2>1, <2>4, ExchangesMade
  <2> QED
    BY <1>3, <2>3, <2>5, ReplyTyped
<1>5. CASE Reply(c, srv, r) /\ x \in srv.wired
  <2>1. x \in Clients
    BY <1>3, <1>5 DEF ServerShape
  <2>2. Replica(dt[x]) /\ dt[x].crdt \in Counters
    BY <2>1, TypedFacts
  <2>3. from \in Nat /\ snap \in Seq(Counters)
    BY <2>2 DEF Replica, Checkpoints
  <2>4. txs \in Seq(Transactions)
    <3> HIDE DEF from
    <3> QED
      BY <1>3, <2>3, PullTyped
  <2>5. k \in Checkpoints
    BY <1>3, ServerCheckpoint DEF Sseq
  <2> DEFINE q == Stub(p)
             st == "Subscribed"
  <2>6. r = [q EXCEPT !.duid = id, !.state = st, !.cp = k, !.snapshot = snap, !.txs = txs]
    OBVIOUS
  <2>7. Reply(c, srv, r)
    BY <1>5
  <2>8. q \in Responses /\ st \in States
    BY <1>1, PackTyped, StubTyped DEF States
  <2> HIDE DEF r, k, txs, snap, id, q, st
  <2>10. [q EXCEPT !.duid = id, !.state = st, !.cp = k, !.snapshot = snap, !.txs = txs]
            \in Responses
    BY <1>3, <2>3, <2>4, <2>5, <2>8, ResponseChanged
  <2>9. r \in Exchanges
    BY <2>6, <2>10, ExchangesMade
  <2> QED
    BY <1>3, <2>7, <2>9, ReplyTyped
<1> QED
  BY <1>1, <1>2, <1>4, <1>5, RefusalTyped DEF PushPullErrors

(* process_subscribed. *)
LEMMA SubscribedTyped ==
    ASSUME ProtocolInv, TypedInv, NEW c \in Clients, ServerSubscribed(c)
    PROVE  TypedStep(c)
<1> DEFINE p == net[c]
           s == AfterPush(p)
           r == ClientPush(p, s, "Subscribed")
<1>1. net[c].kind = "push"
  BY DEF ServerSubscribed, Pushed
<1>2. Reply(c, srv, Reject(p, "MissingSubscription")) \/ Reply(c, s, r)
  BY DEF ServerSubscribed
<1>3. CASE Reply(c, s, r)
  <2>1. ServerShape(s) /\ SameEntry(srv, s) /\ ServerTyped(srv)
    BY <1>1, AfterPushShape, TypedFacts
  <2>2. /\ p.cuid \in Clients /\ p.duid \in Duids /\ p.sseq \in Nat /\ p.state \in States
        /\ "Subscribed" \in States
    BY <1>1, PackTyped DEF States
  <2>3. Reply(c, s, r) /\ r = ClientPush(p, s, "Subscribed")
    BY <1>3
  <2> HIDE DEF s, r, p
  <2>4. r \in Exchanges
    BY <2>1, <2>2, <2>3, ClientPushTyped, ExchangesMade
  <2>5. ServerTyped(s)
    BY <2>1 DEF ServerTyped, SameEntry
  <2> QED
    BY <2>3, <2>4, <2>5, ReplyTyped
<1> QED
  BY <1>1, <1>2, <1>3, RefusalTyped DEF PushPullErrors

(* process_unsubscribing: the next creator is a client. *)
LEMMA UnsubscribingTyped ==
    ASSUME ProtocolInv, TypedInv, NEW c \in Clients, ServerUnsubscribing(c)
    PROVE  TypedStep(c)
<1> DEFINE p == net[c]
           s == AfterPush(p)
           rest == srv.wired \ {c}
           r == ClientPush(p, s, "Disabled")
           left == [Stub(p) EXCEPT !.state = "Disabled"]
           g == srv.gen
<1>1. net[c].kind = "push"
  BY DEF ServerUnsubscribing, Pushed
<1>2. /\ ServerShape(s) /\ SameEntry(srv, s) /\ ServerTyped(srv) /\ ServerShape(srv)
      /\ p.cuid \in Clients /\ p.duid \in Duids /\ p.sseq \in Nat /\ p.state \in States
      /\ "Disabled" \in States
  BY <1>1, AfterPushShape, TypedFacts, PackTyped DEF States
<1>3. g \in Nat /\ srv.creator \in Clients \cup {Nobody} /\ rest \in SUBSET Clients
  BY <1>2 DEF ServerTyped, ServerShape
<1>4. CASE c \notin srv.wired
  <2>1. PICK a : Reply(c, srv, a) /\ a \in {left, [kind |-> "collect", gen |-> g, reply |-> left]}
    BY <1>4 DEF ServerUnsubscribing
  <2> DEFINE q == Stub(p)
             st == "Disabled"
  <2>2. left = [q EXCEPT !.state = st]
    OBVIOUS
  <2>3. q \in Responses /\ st \in States
    BY <1>2, StubTyped
  <2> HIDE DEF left, q, st, g
  <2>6. [q EXCEPT !.state = st] \in Responses
    BY <2>3, ResponseChanged
  <2>4. left \in Responses
    BY <2>2, <2>6
  <2>5. a \in Exchanges
    BY <1>3, <2>1, <2>4, ExchangesMade
  <2> QED
    BY <1>2, <2>1, <2>5, ReplyTyped
<1>5. CASE c \in srv.wired
  <2>1. PICK next \in IF srv.creator = c /\ rest # {} THEN rest ELSE {srv.creator} :
            Reply(c, [s EXCEPT !.wired = rest, !.creator = next],
                  IF rest = {} THEN [kind |-> "collect", gen |-> g, reply |-> r] ELSE r)
    BY <1>5 DEF ServerUnsubscribing
  <2> DEFINE w == rest
             t == [s EXCEPT !.wired = w, !.creator = next]
             a == IF rest = {} THEN [kind |-> "collect", gen |-> g, reply |-> r] ELSE r
  <2>2. Reply(c, t, a) /\ r = ClientPush(p, s, "Disabled")
        /\ a = (IF rest = {} THEN [kind |-> "collect", gen |-> g, reply |-> r] ELSE r)
        /\ t = [s EXCEPT !.wired = w, !.creator = next]
    BY <2>1
  <2>3. next \in Clients \cup {Nobody}
    BY <1>3, <2>1
  <2> HIDE DEF s, r, p, g, w, t, a, rest
  <2>4. r \in Responses
    BY <1>2, <2>2, ClientPushTyped
  <2>5. a \in Exchanges
    BY <1>3, <2>2, <2>4, ExchangesMade
  <2>6. t.gen = s.gen /\ t.duid = s.duid /\ t.creator = next
    BY <1>2, <2>2 DEF ServerShape
  <2>7. ServerTyped(t)
    BY <1>2, <2>3, <2>6 DEF ServerTyped, SameEntry
  <2> QED
    BY <2>2, <2>5, <2>7, ReplyTyped
<1> QED
  BY <1>4, <1>5

(* LocalConnectivity::push_pull removes the entry. *)
LEMMA RemoveTyped ==
    ASSUME ProtocolInv, TypedInv, NEW c \in Clients, RemoveServer(c)
    PROVE  TypedStep(c)
<1>1. /\ Typed(c) /\ Domains /\ ServerTyped(srv) /\ ServerShape(srv) /\ net[c] \in Exchanges
  BY TypedFacts
<1>2. /\ net[c].kind = "collect" /\ net' = [net EXCEPT ![c] = net[c].reply]
      /\ srv' = srv \/ srv' = [srv EXCEPT !.present = FALSE]
      /\ checked' = checked /\ budget' = budget /\ dt' = dt /\ duid' = duid /\ loop' = loop
  BY DEF RemoveServer, clientVars
<1>3. net[c].reply \in Responses
  BY <1>1, <1>2, ExchangeKinds
<1>4. net'[c] \in Exchanges
  BY <1>1, <1>2, <1>3, ExchangesMade DEF Domains
<1>5. srv'.gen = srv.gen /\ srv'.creator = srv.creator /\ srv'.duid = srv.duid
  BY <1>1, <1>2 DEF ServerShape
<1>6. ServerTyped(srv)'
  BY <1>1, <1>5 DEF ServerTyped
<1> QED
  BY <1>1, <1>2, <1>4, <1>6, LoopTyped DEF Typed

(* The types hold before anything is built ... *)
LEMMA InitTyped == Init => TypedInv
<1> SUFFICES ASSUME Init PROVE TypedInv
  OBVIOUS
<1> DEFINE z == [o \in Origins |-> 0]
           nobody == <<Nobody, 0>>
<1>1. /\ srv.gen = 0 /\ srv.creator = Nobody /\ srv.duid = nobody
  BY DEF Init, NewServer
<1>2. nobody \in Duids /\ z \in Counters
  BY DEF Duids, Counters
<1>3. ServerTyped(srv)
  BY <1>1, <1>2 DEF ServerTyped
<1>4. Arrays
  BY DEF Init, Arrays, Array
<1>5. ASSUME NEW c \in Clients PROVE Typed(c)
  <2>1. /\ dt[c] = NewMutable(Origins, "Disabled") /\ duid[c] = <<c, 0>> /\ checked[c] = {}
        /\ net[c] = Idle /\ loop[c] = "Stopped" /\ budget[c] = scenario.ops
        /\ scenario \in Scenarios
    BY DEF Init
  <2>2. dt[c].crdt = z
    BY <2>1 DEF NewMutable
  <2>3. scenario.ops \in Nat
    BY <2>1, SyncAssumption
  <2>4. duid[c] \in Duids
    BY <2>1 DEF Duids
  <2> HIDE DEF z
  <2> QED
    BY <1>2, <2>1, <2>2, <2>3, <2>4, ExchangesMade DEF Typed
<1> QED
  BY <1>3, <1>4, <1>5 DEF TypedInv

(* ... and every step keeps them. *)
LEMMA NextTyped == ProtocolInv /\ TypedInv /\ [Next]_vars => TypedInv'
<1> SUFFICES ASSUME ProtocolInv, TypedInv, [Next]_vars PROVE TypedInv'
  OBVIOUS
<1>1. CASE Next
  <2>1. PICK c \in Clients : User(c) \/ Server(c) \/ EventLoop(c)
    BY <1>1 DEF Next
  <2>2. Frame(c) /\ Arrays'
    BY <2>1, EveryStep, ArraysStay DEF StepOf, TypedInv
  <2>3. CASE User(c)
    <3>1. ASSUME NEW st \in scenario.as, Build(c, st) PROVE TypedStep(c)
      <4>1. st \in InitialStates
        BY SyncAssumption DEF ProtocolInv
      <4> QED
        BY <3>1, <4>1, BuildTyped
    <3>2. TypedStep(c)
      BY <2>3, <3>1, CheckTyped, ExecuteOpTyped, EndTxTyped, SetUnsubscribingTyped DEF User
    <3> QED
      BY <2>2, <3>2, TypedOthers
  <2>4. CASE Server(c)
    <3>1. ASSUME ServerMissing(c) \/ ServerDisabled(c) PROVE TypedStep(c)
      <4>1. PICK e \in PushPullErrors : net[c].kind = "push" /\ Reply(c, srv, Reject(net[c], e))
        BY <3>1 DEF ServerMissing, ServerDisabled, Pushed, PushPullErrors
      <4> QED
        BY <4>1, RefusalTyped
    <3>2. TypedStep(c)
      BY <2>4, <3>1, CreatingTyped, SubscribingTyped, SubscribedTyped, UnsubscribingTyped,
         RemoveTyped DEF Server
    <3> QED
      BY <2>2, <3>2, TypedOthers
  <2>5. CASE EventLoop(c)
    <3>1. TypedStep(c)
      BY <2>5, RegisterTyped, StartPushTyped, TimeOutTyped, ApplyErrorTyped, ApplyPulledTyped,
         HandleErrorTyped DEF EventLoop
    <3> QED
      BY <2>2, <3>1, TypedOthers
  <2> QED
    BY <2>1, <2>3, <2>4, <2>5
<1>2. CASE UNCHANGED vars
  BY <1>2 DEF vars, TypedInv, Arrays, ServerTyped, Typed
<1> QED
  BY <1>1, <1>2

(* Replicas, packs, responses and the server are well formed in every       *)
(* environment, for any number of clients and whatever is lost, retried or  *)
(* rebuilt: no sequence number goes below zero (do_rollback, reset,         *)
(* sync_checkpoint), a snapshot is always somebody's counter, and the       *)
(* creator the server names is a client or nobody.                          *)
THEOREM TypeCorrect == Spec => []TypeOK
<1>1. Init => ProtocolInv /\ TypedInv
  BY InitInv, InitTyped
<1>2. ProtocolInv /\ TypedInv /\ [Next]_vars => ProtocolInv' /\ TypedInv'
  BY NextInv, NextTyped
<1>3. ProtocolInv /\ TypedInv => TypeOK
  BY TypedImplies
<1> QED
  BY <1>1, <1>2, <1>3, PTL DEF Spec
=============================================================================
