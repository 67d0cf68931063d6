------------------------- MODULE LocalReplicaProofs -------------------------
(***************************************************************************)
(* What holds of the numbers of a replica for every width of the counter's  *)
(* integer, any replicas, deltas and bounds.  The model computes with       *)
(* loops; each is shown to be the one function that satisfies its equations *)
(* (LoopRuns, LoopUnique), so that what it computes follows by induction    *)
(* over its counter, for membership in a set (NaturalSteps).  First the     *)
(* arithmetic: wrapping, bytes, sums.  Then what the operators do to a      *)
(* replica.  Then LocalInv, with one lemma per action.                      *)
(***************************************************************************)
EXTENDS LocalReplica, SequenceTheorems, FiniteSetTheorems, TLAPS

-----------------------------------------------------------------------------
(* Induction over the natural numbers, for membership in a set. *)
LEMMA NaturalSteps ==
    ASSUME NEW S, 0 \in S, \A n \in Nat : n \in S => n + 1 \in S
    PROVE  \A n \in Nat : n \in S
<1> DEFINE B == {n \in Nat : n \notin S}
           R == OpToRel(<, Nat)
<1> SUFFICES ASSUME B # {} PROVE FALSE
  OBVIOUS
<1>1. PICK x \in B : \A y \in B : <<y, x>> \notin R
  <2>1. B \subseteq Nat /\ IsWellFoundedOn(R, Nat)
    BY NatLessThanWellFounded
  <2> HIDE DEF B, R
  <2> QED
    BY <2>1, WFMin
<1>2. x \in Nat /\ x \notin S
  OBVIOUS
<1>3. x # 0 /\ x - 1 \in Nat /\ (x - 1) + 1 = x /\ x - 1 < x
  BY ONLY <1>2, 0 \in S
<1>4. x - 1 \in B
  BY <1>3
<1>5. <<x - 1, x>> \in R
  BY <1>3 DEF OpToRel
<1> QED
  BY <1>1, <1>4, <1>5

(* f is what a loop over the numbers 1..L, whose body is the function step, *)
(* has computed after each of them, from x on.                              *)
Loop(f, S, L, x, step) ==
    /\ f \in [0..L -> S]
    /\ f[0] = x
    /\ \A n \in 1..L : f[n] = step[<<f[n - 1], n>>]

(* Every loop computes something. *)
LEMMA LoopRuns ==
    ASSUME NEW S, NEW L \in Nat, NEW x \in S, NEW step \in [(S \X (1..L)) -> S]
    PROVE  \E f : Loop(f, S, L, x, step)
<1> DEFINE Part(f, k) == /\ f \in [0..k -> S]
                         /\ f[0] = x
                         /\ \A n \in 1..k : f[n] = step[<<f[n - 1], n>>]
           Some(k) == \E f : Part(f, k)
           Q == {k \in Nat : k <= L => Some(k)}
<1>1. 0 \in Q
  <2> DEFINE f == [n \in 0..0 |-> x]
  <2>1. f \in [0..0 -> S] /\ f[0] = x /\ 1..0 = {}
    OBVIOUS
  <2>2. Part(f, 0)
    BY <2>1
  <2> QED
    BY <2>2
<1>2. ASSUME NEW k \in Nat, k \in Q PROVE k + 1 \in Q
  <2> SUFFICES ASSUME k + 1 <= L PROVE Some(k + 1)
    <3> HIDE DEF Some
    <3> QED
      OBVIOUS
  <2>1. Some(k)
    <3> HIDE DEF Some
    <3> QED
      BY <1>2
  <2>2. PICK f : Part(f, k)
    BY <2>1
  <2> DEFINE y == step[<<f[k], k + 1>>]
             e == [n \in 0..(k + 1) |-> IF n = k + 1 THEN y ELSE f[n]]
  <2>3. y \in S
    <3>1. f[k] \in S /\ k + 1 \in 1..L
      BY <2>2
    <3> QED
      BY <3>1
  <2>4. e \in [0..(k + 1) -> S]
    <3> HIDE DEF y
    <3> QED
      BY <2>2, <2>3
  <2>5. e[0] = x
    BY <2>2
  <2>6. ASSUME NEW n \in 1..(k + 1) PROVE e[n] = step[<<e[n - 1], n>>]
    <3>1. e[n - 1] = f[n - 1]
      OBVIOUS
    <3>2. CASE n = k + 1
      <4>1. e[n] = y /\ n - 1 = k
        BY <3>2
      <4> HIDE DEF e
      <4> QED
        BY <3>1, <3>2, <4>1
    <3>3. CASE n # k + 1
      <4>1. n \in 1..k /\ e[n] = f[n]
        BY <3>3
      <4>2. f[n] = step[<<f[n - 1], n>>]
        BY <2>2, <4>1
      <4> QED
        BY <3>1, <4>1, <4>2
    <3> QED
      BY <3>2, <3>3
  <2>7. Part(e, k + 1)
    <3> HIDE DEF e
    <3> QED
      BY <2>4, <2>5, <2>6
  <2> QED
    BY <2>7
<1>3. L \in Q
  <2> HIDE DEF Q
  <2> QED
    BY <1>1, <1>2, NaturalSteps
<1>4. Some(L)
  <2> HIDE DEF Some
  <2> QED
    BY <1>3
<1> QED
  BY <1>4 DEF Loop

(* Whatever starts and continues as the loop does is the loop. *)
LEMMA LoopUnique ==
    ASSUME NEW S, NEW L \in Nat, NEW x \in S, NEW step \in [(S \X (1..L)) -> S], NEW g,
           DOMAIN g = 0..L, g = [n \in DOMAIN g |-> g[n]], g[0] = x,
           \A n \in 1..L : g[n - 1] \in S => g[n] = step[<<g[n - 1], n>>]
    PROVE  Loop(g, S, L, x, step)
<1> DEFINE Q == {n \in Nat : n <= L => g[n] \in S}
<1>1. 0 \in Q
  OBVIOUS
<1>2. ASSUME NEW n \in Nat, n \in Q PROVE n + 1 \in Q
  <2> SUFFICES ASSUME n + 1 <= L PROVE g[n + 1] \in S
    OBVIOUS
  <2>1. n + 1 \in 1..L /\ (n + 1) - 1 = n /\ n <= L
    OBVIOUS
  <2>2. g[n] \in S
    BY <1>2, <2>1
  <2>3. g[n + 1] = step[<<g[n], n + 1>>]
    BY <2>1, <2>2
  <2> QED
    BY <2>1, <2>2, <2>3
<1>3. \A n \in Nat : n \in Q
  <2> HIDE DEF Q
  <2> QED
    BY <1>1, <1>2, NaturalSteps
<1>4. \A n \in 0..L : g[n] \in S
  BY <1>3
<1>5. g \in [0..L -> S]
  BY <1>4
<1>6. \A n \in 1..L : g[n] = step[<<g[n - 1], n>>]
  BY <1>4
<1> QED
  BY <1>5, <1>6 DEF Loop

-----------------------------------------------------------------------------
(* What Total has added up after each number. *)
Sums(f, s) ==
    /\ f \in [0..Len(s) -> Int]
    /\ f[0] = 0
    /\ \A n \in 1..Len(s) : f[n] = f[n - 1] + s[n]

LEMMA TotalLoop ==
    ASSUME NEW s \in Seq(Int)
    PROVE  \E f : Sums(f, s) /\ Total(s) = f[Len(s)]
<1> DEFINE L == Len(s)
           Z == Int
           step == [p \in Z \X (1..L) |-> p[1] + s[p[2]]]
           Body(f) == [n \in 0..L |-> IF n = 0 THEN 0 ELSE f[n - 1] + s[n]]
           G == CHOOSE f : f = Body(f)
<1>1. L \in Nat /\ 0 \in Z /\ \A n \in 1..L : s[n] \in Int
  OBVIOUS
<1>2. step \in [(Z \X (1..L)) -> Z]
  BY <1>1
<1>3. \A y \in Z, n \in 1..L : step[<<y, n>>] = y + s[n]
  OBVIOUS
<1>a. Total(s) = G[L]
  BY DEF Total
<1> HIDE DEF step, L, Z
<1>4. PICK f : Loop(f, Z, L, 0, step)
  BY <1>1, <1>2, LoopRuns
<1>5. f = Body(f)
  <2>1. ASSUME NEW n \in 1..L PROVE f[n] = f[n - 1] + s[n]
    <3>1. f[n - 1] \in Z /\ f[n] = step[<<f[n - 1], n>>]
      BY <1>1, <1>4 DEF Loop
    <3> QED
      BY <1>3, <3>1
  <2>2. ASSUME NEW n \in 0..L PROVE f[n] = Body(f)[n]
    <3>1. CASE n = 0
      BY <1>4, <3>1 DEF Loop
    <3>2. CASE n # 0
      <4>1. n \in 1..L
        BY <1>1, <3>2
      <4> QED
        BY <2>1, <3>2, <4>1
    <3> QED
      BY <3>1, <3>2
  <2>3. f \in [0..L -> Z]
    BY <1>4 DEF Loop
  <2> QED
    BY <2>2, <2>3
<1>6. G = Body(G)
  BY <1>5
<1> HIDE DEF G
<1>7. DOMAIN G = 0..L /\ G = [n \in DOMAIN G |-> G[n]] /\ G[0] = 0
  BY <1>1, <1>6
<1>8. ASSUME NEW n \in 1..L, G[n - 1] \in Z PROVE G[n] = step[<<G[n - 1], n>>]
  <2>1. G[n] = G[n - 1] + s[n]
    <3>1. n \in 0..L /\ n # 0
      BY <1>1
    <3>2. Body(G)[n] = G[n - 1] + s[n]
      BY <3>1
    <3> HIDE DEF Body
    <3> QED
      BY <1>6, <3>2
  <2> QED
    BY <1>3, <1>8, <2>1
<1>9. Loop(G, Z, L, 0, step)
  BY <1>1, <1>2, <1>7, <1>8, LoopUnique
<1>10. Sums(G, s)
  <2>1. ASSUME NEW n \in 1..L PROVE G[n] = G[n - 1] + s[n]
    <3>1. G[n - 1] \in Z /\ G[n] = step[<<G[n - 1], n>>]
      BY <1>1, <1>9 DEF Loop
    <3> QED
      BY <1>3, <3>1
  <2>2. G \in [0..L -> Z]
    BY <1>9 DEF Loop
  <2> QED
    BY <1>7, <2>1, <2>2 DEF Sums, L, Z
<1> QED
  BY <1>10, <1>a DEF L

(* The sum of nothing, and of one number more. *)
LEMMA TotalSteps ==
    ASSUME NEW s \in Seq(Int)
    PROVE  /\ Total(s) \in Int
           /\ Len(s) = 0 => Total(s) = 0
           /\ \A t \in Seq(Int) :
                 /\ Len(t) = Len(s) + 1 /\ \A i \in 1..Len(s) : t[i] = s[i]
                 => Total(t) = Total(s) + t[Len(t)]
<1>1. PICK f : Sums(f, s) /\ Total(s) = f[Len(s)]
  BY TotalLoop
<1>2. Len(s) \in Nat
  OBVIOUS
<1>3. Total(s) \in Int /\ (Len(s) = 0 => Total(s) = 0)
  BY <1>1, <1>2 DEF Sums
<1>4. ASSUME NEW t \in Seq(Int), Len(t) = Len(s) + 1, \A i \in 1..Len(s) : t[i] = s[i]
      PROVE  Total(t) = Total(s) + t[Len(t)]
  <2>1. PICK g : Sums(g, t) /\ Total(t) = g[Len(t)]
    BY TotalLoop
  <2> DEFINE L == Len(s)
             Q == {n \in Nat : n <= L => f[n] = g[n]}
  <2>2. 0 \in Q
    BY <1>1, <2>1 DEF Sums
  <2>3. ASSUME NEW n \in Nat, n \in Q PROVE n + 1 \in Q
    <3> SUFFICES ASSUME n + 1 <= L PROVE f[n + 1] = g[n + 1]
      OBVIOUS
    <3>1. n + 1 \in 1..Len(s) /\ n + 1 \in 1..Len(t) /\ (n + 1) - 1 = n /\ n <= L
      BY <1>2, <1>4
    <3>2. f[n + 1] = f[n] + s[n + 1] /\ g[n + 1] = g[n] + t[n + 1]
      BY <1>1, <2>1, <3>1 DEF Sums
    <3>3. f[n] = g[n] /\ s[n + 1] = t[n + 1]
      BY <1>4, <2>3, <3>1
    <3> QED
      BY <3>2, <3>3
  <2>4. \A n \in Nat : n \in Q
    <3> HIDE DEF Q
    <3> QED
      BY <2>2, <2>3, NaturalSteps
  <2>5. f[L] = g[L]
    BY <1>2, <2>4
  <2>6. g[L + 1] = g[L] + t[L + 1]
    <3>1. L + 1 \in 1..Len(t) /\ (L + 1) - 1 = L
      BY <1>2, <1>4
    <3> QED
      BY <2>1, <3>1 DEF Sums
  <2> QED
    BY <1>1, <1>4, <2>1, <2>5, <2>6
<1> QED
  BY <1>3, <1>4

-----------------------------------------------------------------------------
(* Weight is the power of Base it is defined to be, ... *)
LEMMA WeightSteps ==
    /\ Weight[0] = 1
    /\ \A n \in 0..Bytes : Weight[n] \in Nat \ {0}
    /\ \A n \in 1..Bytes : Weight[n] = Base * Weight[n - 1]
<1> DEFINE L == Bytes
           Z == Nat \ {0}
           step == [p \in Z \X (1..L) |-> Base * p[1]]
           Body(f) == [n \in 0..L |-> IF n = 0 THEN 1 ELSE Base * f[n - 1]]
           G == CHOOSE f : f = Body(f)
<1>1. L \in Nat /\ 1 \in Z /\ Base \in Z
  BY LocalReplicaAssumption
<1>2. step \in [(Z \X (1..L)) -> Z]
  <2>1. \A y \in Z : Base * y \in Z
    BY <1>1
  <2> HIDE DEF Z
  <2> QED
    BY <2>1
<1>3. \A y \in Z, n \in 1..L : step[<<y, n>>] = Base * y
  OBVIOUS
<1>a. Weight = G
  BY DEF Weight
<1>b. Z = Nat \ {0}
  OBVIOUS
<1> HIDE DEF step, L, Z
<1>4. PICK f : Loop(f, Z, L, 1, step)
  BY <1>1, <1>2, LoopRuns
<1>5. f = Body(f)
  <2>1. ASSUME NEW n \in 1..L PROVE f[n] = Base * f[n - 1]
    <3>1. f[n - 1] \in Z /\ f[n] = step[<<f[n - 1], n>>]
      BY <1>1, <1>4 DEF Loop
    <3> QED
      BY <1>3, <3>1
  <2>2. ASSUME NEW n \in 0..L PROVE f[n] = Body(f)[n]
    <3>1. CASE n = 0
      BY <1>4, <3>1 DEF Loop
    <3>2. CASE n # 0
      <4>1. n \in 1..L
        BY <1>1, <3>2
      <4> QED
        BY <2>1, <3>2, <4>1
    <3> QED
      BY <3>1, <3>2
  <2>3. f \in [0..L -> Z]
    BY <1>4 DEF Loop
  <2> QED
    BY <2>2, <2>3
<1>6. G = Body(G)
  BY <1>5
<1> HIDE DEF G
<1>7. DOMAIN G = 0..L /\ G = [n \in DOMAIN G |-> G[n]] /\ G[0] = 1
  BY <1>1, <1>6
<1>8. ASSUME NEW n \in 1..L PROVE G[n] = Base * G[n - 1]
  <2>1. n \in 0..L /\ n # 0
    BY <1>1
  <2>2. Body(G)[n] = Base * G[n - 1]
    BY <2>1
  <2> HIDE DEF Body
  <2> QED
    BY <1>6, <2>2
<1>9. Loop(G, Z, L, 1, step)
  <2>1. ASSUME NEW n \in 1..L, G[n - 1] \in Z PROVE G[n] = step[<<G[n - 1], n>>]
    BY <1>3, <1>8, <2>1
  <2> QED
    BY <1>1, <1>2, <1>7, <2>1, LoopUnique
<1>10. \A n \in 0..L : G[n] \in Z
  BY <1>9 DEF Loop
<1> QED
  BY <1>7, <1>8, <1>10, <1>a, <1>b DEF L

(* ... so that the counter has 2 * Half values, and at least two. *)
LEMMA HalfFacts == Half \in Nat \ {0} /\ 2 * Half = Weight[Bytes]
<1> DEFINE w == Weight[Bytes - 1]
           b == Base
<1>1. Bytes \in Nat /\ Bytes - 1 \in 0..Bytes /\ Bytes \in 1..Bytes /\ b \in Nat \ {0} /\ b % 2 = 0
  BY LocalReplicaAssumption
<1>2. w \in Nat \ {0} /\ Weight[Bytes] = b * w
  BY <1>1, WeightSteps
<1>3. Half = Weight[Bytes] \div 2
  BY DEF Half
<1> HIDE DEF w, b
<1>4. PICK k \in Nat : b = 2 * k
  <2>1. b = (2 * (b \div 2)) + (b % 2) /\ b \div 2 \in Nat
    BY <1>1
  <2> QED
    BY <1>1, <2>1
<1>5. Weight[Bytes] = 2 * (k * w) /\ k * w \in Nat \ {0}
  BY <1>1, <1>2, <1>4
<1> DEFINE m == k * w
<1>6. m \in Nat \ {0} /\ Half = (2 * m) \div 2 /\ Weight[Bytes] = 2 * m
  BY <1>3, <1>5
<1> HIDE DEF m
<1> QED
  BY <1>6

-----------------------------------------------------------------------------
Values == (-Half)..(Half - 1)

(* What division leaves, for a positive divisor. *)
LEMMA Division ==
    ASSUME NEW M \in Nat, M > 0, NEW x \in Int
    PROVE  /\ x = (M * (x \div M)) + (x % M) /\ x \div M \in Int
           /\ x % M \in Int /\ 0 <= x % M /\ x % M < M
OBVIOUS

LEMMA Remainder ==
    ASSUME NEW M \in Nat, M > 0, NEW q \in Int, NEW r \in Int, 0 <= r, r < M
    PROVE  ((M * q) + r) % M = r /\ ((M * q) + r) \div M = q
OBVIOUS

(* Whole divisors more or less do not change what is left. *)
LEMMA Congruence ==
    ASSUME NEW M \in Nat, M > 0, NEW q \in Int, NEW x \in Int
    PROVE  ((M * q) + x) % M = x % M
<1> DEFINE d == x \div M
           r == x % M
<1>1. x = (M * d) + r /\ d \in Int /\ r \in Int /\ 0 <= r /\ r < M
  BY Division
<1> HIDE DEF d, r
<1>2. (M * q) + x = (M * (q + d)) + r /\ q + d \in Int
  BY <1>1
<1>3. ((M * (q + d)) + r) % M = r
  BY <1>1, <1>2, Remainder
<1> QED
  BY <1>2, <1>3 DEF r

(* Two's complement: a value of the counter is stored as it is, any other   *)
(* number as one that differs by whole turns.                               *)
LEMMA WrapFacts ==
    ASSUME NEW x \in Int
    PROVE  /\ Wrap(x) \in Values
           /\ x \in Values => Wrap(x) = x
           /\ \E q \in Int : Wrap(x) = ((2 * Half) * q) + x
           /\ \A q \in Int : Wrap(((2 * Half) * q) + x) = Wrap(x)
<1> DEFINE H == Half
           M == 2 * H
           y == x + H
<1>1. H \in Nat /\ H > 0 /\ M \in Nat /\ M > 0 /\ y \in Int
  BY HalfFacts
<1>2. \A n \in Int : Wrap(n) = ((n + H) % M) - H
  BY DEF Wrap
<1>3. y = (M * (y \div M)) + (y % M) /\ y \div M \in Int /\ y % M \in Int /\ 0 <= y % M /\ y % M < M
  <2> HIDE DEF M, y
  <2> QED
    BY <1>1, Division
<1> DEFINE d == y \div M
           e == y % M
<1>4. Wrap(x) = e - H
  BY <1>2
<1>5. y = (M * d) + e /\ d \in Int /\ e \in Int /\ 0 <= e /\ e < M
  BY <1>3
<1>6. Wrap(x) \in Values
  <2> HIDE DEF d, e, H
  <2> QED
    BY <1>1, <1>4, <1>5 DEF Values, H
<1>7. ASSUME x \in Values PROVE Wrap(x) = x
  <2>1. 0 <= y /\ y < M
    BY <1>1, <1>7 DEF Values
  <2>2. y % M = y
    <3> HIDE DEF M, y
    <3>1. ((M * 0) + y) % M = y
      BY <1>1, <2>1, Remainder
    <3> QED
      BY <1>1, <3>1
  <2> QED
    BY <1>1, <1>4, <2>2
<1>8. \E q \in Int : Wrap(x) = (M * q) + x
  <2>1. -d \in Int
    BY <1>5
  <2>2. e - H = (M * (-d)) + x
    <3>1. x = y - H /\ x \in Int
      BY <1>1
    <3> HIDE DEF M, d, e, y, H
    <3>2. M * (-d) = -(M * d) /\ M * d \in Int
      BY <1>1, <1>5
    <3> DEFINE z == M * d
               u == M * (-d)
    <3>3. z \in Int /\ u = -z /\ y = z + e
      BY <1>5, <3>2
    <3> HIDE DEF z, u
    <3>4. e - H = u + x
      BY <1>1, <1>5, <3>1, <3>3
    <3> QED
      BY <3>4 DEF u
  <2> QED
    BY <1>4, <2>1, <2>2
<1>9. ASSUME NEW q \in Int PROVE Wrap((M * q) + x) = Wrap(x)
  <2> DEFINE z == M * q
  <2>1. z \in Int
    BY <1>1
  <2>2. (z + x) + H = z + y
    <3> HIDE DEF z
    <3> QED
      BY <1>1, <2>1
  <2>3. (z + y) % M = y % M
    <3> HIDE DEF M, y
    <3> QED
      BY <1>1, Congruence
  <2>4. Wrap(z + x) = (((z + x) + H) % M) - H
    BY <1>2, <2>1
  <2> QED
    BY <1>4, <2>2, <2>3, <2>4
<1> QED
  BY <1>6, <1>7, <1>8, <1>9

LEMMA WrapRange == ASSUME NEW x \in Int PROVE Wrap(x) \in Values
BY WrapFacts

LEMMA WrapSame == ASSUME NEW x \in Values PROVE Wrap(x) = x
<1>1. x \in Int
  BY HalfFacts DEF Values
<1> QED
  BY <1>1, WrapFacts

(* Wrapping at once or after every addition is the same, and so is adding a *)
(* wrapped negation.                                                        *)
LEMMA WrapAdd ==
    ASSUME NEW x \in Int, NEW y \in Int
    PROVE  /\ Wrap(x) \in Int
           /\ Wrap(Wrap(x) + y) = Wrap(x + y)
           /\ Wrap(x + Wrap(y)) = Wrap(x + y)
<1> DEFINE M == 2 * Half
<1>1. M \in Nat
  BY HalfFacts
<1>2. PICK q \in Int : Wrap(x) = (M * q) + x
  BY WrapFacts
<1>3. PICK p \in Int : Wrap(y) = (M * p) + y
  BY WrapFacts
<1>4. x + y \in Int /\ \A k \in Int : Wrap((M * k) + (x + y)) = Wrap(x + y)
  BY WrapFacts
<1> HIDE DEF M
<1>5. M * q \in Int /\ M * p \in Int
  BY <1>1
<1>6. Wrap(x) + y = (M * q) + (x + y) /\ x + Wrap(y) = (M * p) + (x + y)
  BY <1>2, <1>3, <1>5
<1> QED
  BY <1>2, <1>4, <1>5, <1>6

(* One digit more of a number. *)
LEMMA DigitStep ==
    ASSUME NEW W \in Nat, W > 0, NEW B \in Nat, B > 0, NEW u \in Nat
    PROVE  u % (B * W) = (u % W) + (((u \div W) % B) * W)
<1> DEFINE q == u \div W
           r == u % W
           p == q \div B
           d == q % B
<1>1. u = (W * q) + r /\ q \in Int /\ r \in Int /\ 0 <= r /\ r < W
  BY Division
<1>2. q = (B * p) + d /\ p \in Int /\ d \in Int /\ 0 <= d /\ d < B
  <2> HIDE DEF q
  <2> QED
    BY <1>1, Division
<1> HIDE DEF q, r, p, d
<1> DEFINE M == B * W
           s == r + (d * W)
<1>3. M \in Nat /\ M > 0
  BY ONLY W \in Nat, W > 0, B \in Nat, B > 0
<1>4. s \in Int /\ 0 <= s
  <2>1. d * W \in Int /\ 0 <= d * W
    BY <1>2
  <2> QED
    BY <1>1, <2>1
<1>5. s < M
  <2>1. d + 1 <= B
    BY <1>2
  <2>2. (d + 1) * W <= B * W
    BY ONLY <2>1, <1>2, W \in Nat, W > 0, B \in Nat
  <2>3. (d + 1) * W = (d * W) + W /\ d * W \in Int
    BY <1>2
  <2> QED
    BY <1>1, <1>3, <2>2, <2>3
<1>6. u = (M * p) + s
  <2>1. W * q = (M * p) + (d * W)
    BY ONLY <1>2, W \in Nat, B \in Nat
  <2>2. M * p \in Int /\ d * W \in Int
    BY <1>2, <1>3
  <2> QED
    BY <1>1, <2>1, <2>2
<1>7. ((M * p) + s) % M = s
  <2> HIDE DEF M, s
  <2> QED
    BY <1>2, <1>3, <1>4, <1>5, Remainder
<1>8. u % M = s
  BY <1>6, <1>7
<1> QED
  BY <1>8 DEF r, d, q

(* A function on 1..n with integer values is a sequence of integers. *)
LEMMA IntegerSequence ==
    ASSUME NEW n \in Nat, NEW s, s = [i \in 1..n |-> s[i]], \A i \in 1..n : s[i] \in Int
    PROVE  s \in Seq(Int) /\ Len(s) = n
OBVIOUS

(* from_bytes undoes to_bytes. *)
LEMMA RoundTrip ==
    ASSUME NEW v \in Values
    PROVE  FromBytes(ToBytes(v)) = v
<1> DEFINE M == 2 * Half
           u == (v + M) % M
           bs == ToBytes(v)
           L == Bytes
           s == [i \in 1..L |-> bs[i] * Weight[i - 1]]
<1>1. /\ M \in Nat /\ M > 0 /\ M = Weight[L] /\ v \in Int /\ v + M \in Int /\ L \in Nat
      /\ Base \in Nat /\ Base > 0
  BY HalfFacts, LocalReplicaAssumption DEF Values
<1>2. v + M = (M * ((v + M) \div M)) + u /\ (v + M) \div M \in Int /\ u \in Nat /\ u < M
  <2> DEFINE x == v + M
  <2>1. x = (M * (x \div M)) + (x % M) /\ x \div M \in Int /\ x % M \in Int /\ 0 <= x % M /\ x % M < M
    <3>1. x \in Int
      BY <1>1
    <3> HIDE DEF x, M
    <3> QED
      BY <1>1, <3>1, Division
  <2> QED
    BY <2>1
<1>3. ASSUME NEW i \in 1..L
      PROVE  s[i] = ((u \div Weight[i - 1]) % Base) * Weight[i - 1]
  BY DEF ToBytes
<1>4. \A n \in 0..L : Weight[n] \in Nat /\ Weight[n] > 0
  BY WeightSteps
<1>a. FromBytes(bs) = Wrap(Total(s))
  BY DEF FromBytes
<1> HIDE DEF u, bs, s, M, L
<1>5. ASSUME NEW i \in 1..L
      PROVE  /\ Weight[i - 1] \in Nat /\ Weight[i - 1] > 0 /\ s[i] \in Int
             /\ u % Weight[i] = (u % Weight[i - 1]) + s[i]
  <2> DEFINE W == Weight[i - 1]
  <2>1. W \in Nat /\ W > 0 /\ Weight[i] = Base * W
    BY <1>1, <1>4, WeightSteps DEF L
  <2>2. s[i] = ((u \div W) % Base) * W
    BY <1>3
  <2> HIDE DEF W
  <2>3. u % (Base * W) = (u % W) + (((u \div W) % Base) * W)
    BY <1>1, <1>2, <2>1, DigitStep
  <2>4. s[i] \in Int
    <3> DEFINE q == u \div W
               d == q % Base
    <3>1. q \in Int
      BY <1>2, <2>1, Division
    <3>2. d \in Int
      <4> HIDE DEF q
      <4> QED
        BY <1>1, <3>1, Division
    <3>3. s[i] = d * W
      BY <2>2
    <3> HIDE DEF d
    <3> QED
      BY <2>1, <3>2, <3>3
  <2> QED
    BY <2>1, <2>2, <2>3, <2>4 DEF W
<1>6. s \in Seq(Int) /\ Len(s) = L
  <2>1. s = [i \in 1..L |-> s[i]] /\ \A i \in 1..L : s[i] \in Int
    BY <1>5 DEF s
  <2> QED
    BY ONLY <1>1, <2>1, IntegerSequence
<1>7. PICK f : Sums(f, s) /\ Total(s) = f[L]
  BY <1>6, TotalLoop
<1> DEFINE Q == {n \in Nat : n <= L => f[n] = u % Weight[n]}
<1>8. 0 \in Q
  <2>1. u % 1 = 0
    BY <1>2
  <2> QED
    BY <1>1, <1>7, <2>1, WeightSteps DEF Sums
<1>9. ASSUME NEW n \in Nat, n \in Q PROVE n + 1 \in Q
  <2> SUFFICES ASSUME n + 1 <= L PROVE f[n + 1] = u % Weight[n + 1]
    OBVIOUS
  <2>1. n + 1 \in 1..L /\ (n + 1) - 1 = n /\ n <= L
    BY <1>1
  <2>2. f[n] = u % Weight[n]
    BY <1>9, <2>1
  <2>3. f[n + 1] = f[n] + s[n + 1]
    BY <1>6, <1>7, <2>1 DEF Sums
  <2>4. u % Weight[n + 1] = (u % Weight[n]) + s[n + 1]
    BY <1>5, <2>1
  <2> QED
    BY <2>2, <2>3, <2>4
<1>10. \A n \in Nat : n \in Q
  <2> HIDE DEF Q
  <2> QED
    BY <1>8, <1>9, NaturalSteps
<1>11. Total(s) = u % M
  BY <1>1, <1>7, <1>10
<1>12. u % M = u
  <2>1. ((M * 0) + u) % M = u
    <3>1. M \in Nat /\ M > 0 /\ u \in Nat /\ u < M /\ 0 \in Int
      BY <1>1, <1>2
    <3> QED
      BY ONLY <3>1, Remainder
  <2> QED
    BY ONLY <1>1, <1>2, <2>1
<1>13. Wrap(u) = v
  <2> DEFINE q == (v + M) \div M
             k == 1 - q
  <2>1. q \in Int /\ k \in Int /\ u \in Int /\ v + M = (M * q) + u
    BY <1>2
  <2> HIDE DEF q
  <2>2. M * k = M - (M * q) /\ M * q \in Int
    <3>1. M \in Int /\ q \in Int /\ k = 1 - q
      BY <1>1, <2>1
    <3> HIDE DEF k
    <3> QED
      BY ONLY <3>1
  <2>3. u = (M * k) + v
    <3> DEFINE z == M * q
               y == M * k
    <3>1. z \in Int /\ y = M - z /\ v + M = z + u
      BY <2>1, <2>2
    <3> HIDE DEF z, y
    <3>2. u = y + v
      BY <1>1, <2>1, <3>1
    <3> QED
      BY <3>2 DEF y
  <2> HIDE DEF k
  <2>4. Wrap((M * k) + v) = Wrap(v) /\ Wrap(v) = v
    BY <1>1, <2>1, WrapFacts DEF M
  <2> QED
    BY <2>3, <2>4
<1> QED
  BY <1>11, <1>12, <1>13, <1>a DEF bs

-----------------------------------------------------------------------------
LEMMA OpFacts ==
    ASSUME NEW ops \in Seq(Ops)
    PROVE  /\ Len(ops) \in Nat /\ DOMAIN ops = 1..Len(ops)
           /\ \A i \in 1..Len(ops) :
                 ops[i] \in Ops /\ ops[i].delta \in Int /\ ops[i].lamport \in Nat
<1>1. Len(ops) \in Nat /\ DOMAIN ops = 1..Len(ops) /\ \A i \in 1..Len(ops) : ops[i] \in Ops
  OBVIOUS
<1> QED
  BY <1>1 DEF Ops

LEMMA TxFacts ==
    ASSUME NEW txs \in Seq(Txs)
    PROVE  /\ Len(txs) \in Nat /\ DOMAIN txs = 1..Len(txs)
           /\ \A i \in 1..Len(txs) :
                 txs[i] \in Txs /\ txs[i].cuid \in Replicas /\ txs[i].ops \in Seq(Ops)
<1>1. Len(txs) \in Nat /\ DOMAIN txs = 1..Len(txs) /\ \A i \in 1..Len(txs) : txs[i] \in Txs
  OBVIOUS
<1> QED
  BY <1>1 DEF Txs

(* What no operations and one operation more add. *)
LEMMA DeltaSteps ==
    ASSUME NEW ops \in Seq(Ops)
    PROVE  /\ DeltaOf(ops) \in Int
           /\ ops = <<>> => DeltaOf(ops) = 0
           /\ \A op \in Ops : DeltaOf(Append(ops, op)) = DeltaOf(ops) + op.delta
<1> DEFINE s == [i \in DOMAIN ops |-> ops[i].delta]
           L == Len(ops)
<1>1. L \in Nat /\ DOMAIN ops = 1..L /\ \A i \in 1..L : ops[i].delta \in Int
  BY OpFacts
<1>2. s \in Seq(Int) /\ Len(s) = L
  <2>1. s = [i \in 1..L |-> s[i]] /\ \A i \in 1..L : s[i] \in Int
    BY <1>1
  <2> HIDE DEF s, L
  <2> QED
    BY <1>1, <2>1, IntegerSequence
<1>3. DeltaOf(ops) = Total(s)
  BY DEF DeltaOf
<1>4. DeltaOf(ops) \in Int /\ (ops = <<>> => DeltaOf(ops) = 0)
  <2>1. ops = <<>> => Len(ops) = 0
    OBVIOUS
  <2> HIDE DEF s
  <2> QED
    BY <1>2, <1>3, <2>1, TotalSteps
<1>5. ASSUME NEW op \in Ops PROVE DeltaOf(Append(ops, op)) = DeltaOf(ops) + op.delta
  <2> DEFINE more == Append(ops, op)
             t == [i \in DOMAIN more |-> more[i].delta]
  <2>1. more \in Seq(Ops) /\ Len(more) = L + 1 /\ more[L + 1] = op /\ \A i \in 1..L : more[i] = ops[i]
    BY <1>1
  <2>2. DOMAIN more = 1..(L + 1) /\ \A i \in 1..(L + 1) : more[i].delta \in Int
    <3> HIDE DEF more, L
    <3> QED
      BY <2>1, OpFacts
  <2>3. DeltaOf(more) = Total(t)
    BY DEF DeltaOf
  <2>4. t = [i \in 1..(L + 1) |-> t[i]] /\ \A i \in 1..(L + 1) : t[i] = more[i].delta
    BY <2>2
  <2> HIDE DEF more, t, s, L
  <2>5. t \in Seq(Int) /\ Len(t) = L + 1
    BY <1>1, <2>2, <2>4, IntegerSequence
  <2>6. L + 1 \in 1..(L + 1) /\ \A i \in 1..L : i \in 1..(L + 1)
    BY <1>1
  <2>7. t[L + 1] = op.delta
    BY <2>1, <2>4, <2>6
  <2>8. \A i \in 1..L : t[i] = s[i]
    BY <1>1, <2>1, <2>4, <2>6 DEF s
  <2>9. Total(t) = Total(s) + t[Len(t)]
    BY <1>2, <2>5, <2>8, TotalSteps
  <2> QED
    BY <1>3, <2>3, <2>5, <2>7, <2>9 DEF more
<1> QED
  BY <1>4, <1>5

(* Sequence t is s and one integer more. *)
OneMore(s, t, n) ==
    /\ s = [k \in 1..n |-> s[k]] /\ t = [k \in 1..(n + 1) |-> t[k]]
    /\ \A k \in 1..n : s[k] \in Int /\ t[k] = s[k]
    /\ t[n + 1] \in Int

LEMMA TotalMore ==
    ASSUME NEW n \in Nat, NEW s, NEW t, OneMore(s, t, n)
    PROVE  Total(s) \in Int /\ Total(t) = Total(s) + t[n + 1]
<1>1. s \in Seq(Int) /\ Len(s) = n
  BY IntegerSequence DEF OneMore
<1>2. \A k \in 1..(n + 1) : t[k] \in Int
  <2> SUFFICES ASSUME NEW k \in 1..(n + 1) PROVE t[k] \in Int
    OBVIOUS
  <2>1. k = n + 1 \/ k \in 1..n
    OBVIOUS
  <2> QED
    BY <2>1 DEF OneMore
<1>3. n + 1 \in Nat
  OBVIOUS
<1>4. t \in Seq(Int) /\ Len(t) = n + 1
  BY <1>2, <1>3, IntegerSequence DEF OneMore
<1> QED
  BY <1>1, <1>4, TotalSteps DEF OneMore

(* What the first n of a sequence of transactions add, without those of     *)
(* replica r.                                                               *)
OthersUpto(h, r, n) ==
    Total([k \in 1..n |-> IF IsOwn(r, h[k]) THEN 0 ELSE DeltaOf(h[k].ops)])

(* ... and with them. *)
AllUpto(h, n) == Total([k \in 1..n |-> DeltaOf(h[k].ops)])

LEMMA UptoSteps ==
    ASSUME NEW h \in Seq(Txs)
    PROVE  /\ AllUpto(h, 0) = 0 /\ \A n \in 0..Len(h) : AllUpto(h, n) \in Int
           /\ \A n \in 0..Len(h) :
                 n + 1 <= Len(h) => /\ DeltaOf(h[n + 1].ops) \in Int
                                    /\ AllUpto(h, n + 1) = AllUpto(h, n) + DeltaOf(h[n + 1].ops)
           /\ \A r : /\ OthersUpto(h, r, 0) = 0
                     /\ \A n \in 0..Len(h) : OthersUpto(h, r, n) \in Int
                     /\ \A n \in 0..Len(h) :
                           n + 1 <= Len(h) =>
                              OthersUpto(h, r, n + 1) =
                                  OthersUpto(h, r, n)
                                  + (IF IsOwn(r, h[n + 1]) THEN 0 ELSE DeltaOf(h[n + 1].ops))
<1> DEFINE L == Len(h)
           D(k) == DeltaOf(h[k].ops)
<1>1. L \in Nat /\ \A k \in 1..L : D(k) \in Int
  BY TxFacts, DeltaSteps
<1>a. ASSUME NEW s, NEW n \in Nat, s = [k \in 1..n |-> s[k]], \A k \in 1..n : s[k] \in Int
      PROVE  Total(s) \in Int /\ (n = 0 => Total(s) = 0)
  <2>1. s \in Seq(Int) /\ Len(s) = n
    BY <1>a, IntegerSequence
  <2> QED
    BY <2>1, TotalSteps
<1> HIDE DEF D
<1>4. ASSUME NEW n \in 0..L PROVE AllUpto(h, n) \in Int /\ (n = 0 => AllUpto(h, n) = 0)
  <2> DEFINE s == [k \in 1..n |-> D(k)]
  <2>1. n \in Nat /\ s = [k \in 1..n |-> s[k]] /\ \A k \in 1..n : s[k] \in Int
    BY <1>1
  <2>2. AllUpto(h, n) = Total(s)
    BY DEF AllUpto, D
  <2> HIDE DEF s
  <2> QED
    BY <1>a, <2>1, <2>2
<1>5. ASSUME NEW n \in 0..L, n + 1 <= L PROVE AllUpto(h, n + 1) = AllUpto(h, n) + D(n + 1)
  <2> DEFINE s == [k \in 1..n |-> D(k)]
             t == [k \in 1..(n + 1) |-> D(k)]
  <2>1. n \in Nat /\ s = [k \in 1..n |-> s[k]] /\ t = [k \in 1..(n + 1) |-> t[k]]
    BY <1>1
  <2>2. (\A k \in 1..n : s[k] \in Int /\ t[k] = s[k]) /\ t[n + 1] = D(n + 1) /\ D(n + 1) \in Int
    BY <1>1, <1>5
  <2>3. AllUpto(h, n) = Total(s) /\ AllUpto(h, n + 1) = Total(t)
    BY DEF AllUpto, D
  <2> HIDE DEF s, t
  <2>4. OneMore(s, t, n)
    BY <2>1, <2>2 DEF OneMore
  <2> QED
    BY <2>1, <2>2, <2>3, <2>4, TotalMore
<1>6. ASSUME NEW r, NEW n \in 0..L
      PROVE  OthersUpto(h, r, n) \in Int /\ (n = 0 => OthersUpto(h, r, n) = 0)
  <2> DEFINE s == [k \in 1..n |-> IF IsOwn(r, h[k]) THEN 0 ELSE D(k)]
  <2>1. n \in Nat /\ s = [k \in 1..n |-> s[k]] /\ \A k \in 1..n : s[k] \in Int
    BY <1>1
  <2>2. OthersUpto(h, r, n) = Total(s)
    BY DEF OthersUpto, D
  <2> HIDE DEF s
  <2> QED
    BY <1>a, <2>1, <2>2
<1>7. ASSUME NEW r, NEW n \in 0..L, n + 1 <= L
      PROVE  OthersUpto(h, r, n + 1) =
                 OthersUpto(h, r, n) + (IF IsOwn(r, h[n + 1]) THEN 0 ELSE D(n + 1))
  <2> DEFINE E(k) == IF IsOwn(r, h[k]) THEN 0 ELSE D(k)
             s == [k \in 1..n |-> E(k)]
             t == [k \in 1..(n + 1) |-> E(k)]
  <2>a. \A k \in 1..L : E(k) \in Int
    BY <1>1
  <2>3. OthersUpto(h, r, n) = Total(s) /\ OthersUpto(h, r, n + 1) = Total(t)
    BY DEF OthersUpto, D
  <2> HIDE DEF E
  <2>1. n \in Nat /\ s = [k \in 1..n |-> s[k]] /\ t = [k \in 1..(n + 1) |-> t[k]]
    BY <1>1
  <2>2. (\A k \in 1..n : s[k] \in Int /\ t[k] = s[k]) /\ t[n + 1] = E(n + 1) /\ E(n + 1) \in Int
    BY <1>1, <1>7, <2>a
  <2> HIDE DEF s, t
  <2>5. OneMore(s, t, n)
    BY <2>1, <2>2 DEF OneMore
  <2>4. Total(t) = Total(s) + E(n + 1)
    BY <2>1, <2>2, <2>5, TotalMore
  <2> QED
    BY <2>3, <2>4 DEF E
<1>8. 0 \in 0..L
  BY <1>1
<1>9. \A n \in 0..L : n + 1 <= L => D(n + 1) \in Int
  BY <1>1
<1>10. AllUpto(h, 0) = 0 /\ \A r : OthersUpto(h, r, 0) = 0
  BY <1>4, <1>6, <1>8
<1> QED
  BY <1>4, <1>5, <1>6, <1>7, <1>9, <1>10 DEF D

-----------------------------------------------------------------------------
Buffers == [txs : Seq(Txs), mem_size : Nat, first_cseq : Nat, last_cseq : Nat]

Reps == [value : Values, opId : OpIds, buf : Buffers, pending : Seq(Ops), rollback : OpIds]

(* Replica m after it has executed operations of others: only its value has *)
(* changed, and its clock has not gone back.                                *)
Caught(m, e) ==
    /\ e \in Reps
    /\ e.buf = m.buf /\ e.pending = m.pending /\ e.rollback = m.rollback
    /\ e.opId.cseq = m.opId.cseq /\ m.opId.lamport <= e.opId.lamport

LEMMA RepFacts ==
    ASSUME NEW m \in Reps
    PROVE  /\ m.value \in Values /\ m.value \in Int
           /\ m.opId \in OpIds /\ m.opId.lamport \in Nat /\ m.opId.cseq \in Nat
           /\ m.rollback \in OpIds /\ m.rollback.lamport \in Nat /\ m.rollback.cseq \in Nat
           /\ m.buf \in Buffers /\ m.buf.txs \in Seq(Txs) /\ m.pending \in Seq(Ops)
<1>1. Half \in Nat
  BY HalfFacts
<1> QED
  BY <1>1 DEF Reps, OpIds, Buffers, Values

LEMMA CaughtFacts ==
    ASSUME NEW m \in Reps
    PROVE  /\ Caught(m, m)
           /\ \A e, g : Caught(m, e) /\ Caught(e, g) => Caught(m, g)
<1>1. m.opId.lamport \in Nat
  BY RepFacts
<1>2. ASSUME NEW e, NEW g, Caught(m, e), Caught(e, g) PROVE Caught(m, g)
  <2>1. e \in Reps /\ g \in Reps
    BY <1>2 DEF Caught
  <2>2. e.opId.lamport \in Nat /\ g.opId.lamport \in Nat
    BY <2>1, RepFacts
  <2> QED
    BY <1>1, <1>2, <2>2 DEF Caught
<1> QED
  BY <1>1, <1>2 DEF Caught

(* One operation of another replica. *)
LEMMA RemoteOp ==
    ASSUME NEW m \in Reps, NEW op \in Ops
    PROVE  /\ Caught(m, ExecuteRemoteOp(m, op))
           /\ ExecuteRemoteOp(m, op).value = Wrap(m.value + op.delta)
           /\ op.lamport <= ExecuteRemoteOp(m, op).opId.lamport
<1> DEFINE l == IF op.lamport > m.opId.lamport THEN op.lamport ELSE m.opId.lamport
           v == Wrap(m.value + op.delta)
           e == [m EXCEPT !.value = v, !.opId.lamport = l]
<1>1. op.delta \in Int /\ op.lamport \in Nat /\ m.value \in Int /\ m.opId.lamport \in Nat
  BY RepFacts DEF Ops
<1>2. l \in Nat /\ m.opId.lamport <= l /\ op.lamport <= l
  BY <1>1
<1>3. v \in Values
  BY <1>1, WrapFacts
<1>4. ExecuteRemoteOp(m, op) = e
  BY DEF ExecuteRemoteOp, IncreaseBy
<1> HIDE DEF l, v
<1>5. e \in Reps
  BY <1>2, <1>3 DEF Reps, OpIds
<1>6. /\ e.value = v /\ e.opId.lamport = l /\ e.opId.cseq = m.opId.cseq
      /\ e.buf = m.buf /\ e.pending = m.pending /\ e.rollback = m.rollback
  BY DEF Reps, OpIds
<1> HIDE DEF e
<1> QED
  BY <1>2, <1>4, <1>5, <1>6 DEF Caught, v

(* What the loop of execute_remote_transaction has done after each          *)
(* operation.                                                               *)
Executes(f, m, ops) ==
    /\ f \in [0..Len(ops) -> Reps]
    /\ f[0] = m
    /\ \A n \in 1..Len(ops) : f[n] = ExecuteRemoteOp(f[n - 1], ops[n])

LEMMA RemoteLoop ==
    ASSUME NEW m \in Reps, NEW tx \in Txs
    PROVE  \E f : Executes(f, m, tx.ops) /\ ExecuteRemote(m, tx) = f[Len(tx.ops)]
<1> DEFINE ops == tx.ops
           L == Len(ops)
           Z == Reps
           step == [p \in Z \X (1..L) |-> ExecuteRemoteOp(p[1], ops[p[2]])]
           Body(f) == [n \in 0..L |-> IF n = 0 THEN m ELSE ExecuteRemoteOp(f[n - 1], ops[n])]
           G == CHOOSE f : f = Body(f)
<1>0. ops \in Seq(Ops)
  BY DEF Txs
<1>1. L \in Nat /\ m \in Z /\ \A n \in 1..L : ops[n] \in Ops
  <2> HIDE DEF ops
  <2> QED
    BY <1>0, OpFacts
<1>2. step \in [(Z \X (1..L)) -> Z]
  <2>1. \A y \in Z, n \in 1..L : ExecuteRemoteOp(y, ops[n]) \in Z
    BY <1>1, RemoteOp DEF Caught
  <2> HIDE DEF Z, L, ops
  <2> QED
    BY <2>1
<1>3. \A y \in Z, n \in 1..L : step[<<y, n>>] = ExecuteRemoteOp(y, ops[n])
  OBVIOUS
<1>a. ExecuteRemote(m, tx) = G[L]
  BY DEF ExecuteRemote
<1> HIDE DEF step, L, Z, ops
<1>4. PICK f : Loop(f, Z, L, m, step)
  BY <1>1, <1>2, LoopRuns
<1>5. f = Body(f)
  <2>1. ASSUME NEW n \in 1..L PROVE f[n] = ExecuteRemoteOp(f[n - 1], ops[n])
    <3>1. f[n - 1] \in Z /\ f[n] = step[<<f[n - 1], n>>]
      BY <1>1, <1>4 DEF Loop
    <3> QED
      BY <1>3, <3>1
  <2>2. ASSUME NEW n \in 0..L PROVE f[n] = Body(f)[n]
    <3>1. CASE n = 0
      BY <1>4, <3>1 DEF Loop
    <3>2. CASE n # 0
      <4>1. n \in 1..L
        BY <1>1, <3>2
      <4> QED
        BY <2>1, <3>2, <4>1
    <3> QED
      BY <3>1, <3>2
  <2>3. f \in [0..L -> Z]
    BY <1>4 DEF Loop
  <2> QED
    BY <2>2, <2>3
<1>6. G = Body(G)
  BY <1>5
<1> HIDE DEF G
<1>7. DOMAIN G = 0..L /\ G = [n \in DOMAIN G |-> G[n]] /\ G[0] = m
  BY <1>1, <1>6
<1>8. ASSUME NEW n \in 1..L PROVE G[n] = ExecuteRemoteOp(G[n - 1], ops[n])
  <2>1. n \in 0..L /\ n # 0
    BY <1>1
  <2>2. Body(G)[n] = ExecuteRemoteOp(G[n - 1], ops[n])
    BY <2>1
  <2> HIDE DEF Body
  <2> QED
    BY <1>6, <2>2
<1>9. Loop(G, Z, L, m, step)
  <2>1. ASSUME NEW n \in 1..L, G[n - 1] \in Z PROVE G[n] = step[<<G[n - 1], n>>]
    BY <1>3, <1>8, <2>1
  <2> QED
    BY <1>1, <1>2, <1>7, <2>1, LoopUnique
<1>10. G \in [0..L -> Z]
  BY <1>9 DEF Loop
<1> QED
  BY <1>7, <1>8, <1>10, <1>a DEF L, Z, ops, Executes

(* One transaction of another replica: its deltas are added, and the clock  *)
(* is not behind any of its operations.                                     *)
LEMMA RemoteTx ==
    ASSUME NEW m \in Reps, NEW tx \in Txs
    PROVE  /\ Caught(m, ExecuteRemote(m, tx))
           /\ ExecuteRemote(m, tx).value = Wrap(m.value + DeltaOf(tx.ops))
           /\ \A l \in LamportsOf(tx.ops) : l <= ExecuteRemote(m, tx).opId.lamport
<1> DEFINE ops == tx.ops
           L == Len(ops)
           s == [i \in DOMAIN ops |-> ops[i].delta]
<1>0. ops \in Seq(Ops)
  BY DEF Txs
<1>1. /\ L \in Nat /\ DOMAIN ops = 1..L
      /\ \A i \in 1..L : ops[i] \in Ops /\ ops[i].delta \in Int /\ ops[i].lamport \in Nat
  <2> HIDE DEF ops
  <2> QED
    BY <1>0, OpFacts
<1>2. s \in Seq(Int) /\ Len(s) = L
  <2>1. s = [i \in 1..L |-> s[i]] /\ \A i \in 1..L : s[i] \in Int
    BY <1>1
  <2> HIDE DEF s, L
  <2> QED
    BY <1>1, <2>1, IntegerSequence
<1>3. DeltaOf(ops) = Total(s)
  BY DEF DeltaOf
<1>4. \A i \in 1..L : s[i] = ops[i].delta
  BY <1>1
<1>5. PICK f : Executes(f, m, ops) /\ ExecuteRemote(m, tx) = f[L]
  BY RemoteLoop
<1> HIDE DEF s, L, ops
<1>6. PICK g : Sums(g, s) /\ Total(s) = g[L]
  BY <1>2, TotalLoop
<1>7. /\ f \in [0..L -> Reps] /\ f[0] = m
      /\ \A n \in 1..L : f[n] = ExecuteRemoteOp(f[n - 1], ops[n])
  BY <1>5 DEF Executes, L
<1>8. g \in [0..L -> Int] /\ g[0] = 0 /\ \A n \in 1..L : g[n] = g[n - 1] + ops[n].delta
  BY <1>2, <1>4, <1>6 DEF Sums
<1>9. m.value \in Int /\ m.value \in Values
  BY RepFacts
<1> DEFINE Good(n) == /\ Caught(m, f[n])
                      /\ f[n].value = Wrap(m.value + g[n])
                      /\ \A i \in 1..n : ops[i].lamport <= f[n].opId.lamport
           Q == {n \in Nat : n <= L => Good(n)}
<1>10. 0 \in Q
  <2>1. Wrap(m.value) = m.value /\ m.value + 0 = m.value
    BY <1>9, WrapFacts
  <2>2. Good(0)
    BY <1>7, <1>8, <2>1, CaughtFacts
  <2> HIDE DEF Good
  <2> QED
    BY <2>2
<1>11. ASSUME NEW n \in Nat, n \in Q PROVE n + 1 \in Q
  <2> SUFFICES ASSUME n + 1 <= L PROVE Good(n + 1)
    <3> HIDE DEF Good
    <3> QED
      OBVIOUS
  <2>1. n + 1 \in 1..L /\ (n + 1) - 1 = n /\ n <= L /\ n \in 0..L /\ n + 1 \in 0..L
    BY <1>1
  <2>2. Good(n)
    <3> HIDE DEF Good
    <3> QED
      BY <1>11, <2>1
  <2> DEFINE a == f[n]
             b == f[n + 1]
             op == ops[n + 1]
  <2>3. a \in Reps /\ b \in Reps /\ op \in Ops /\ op.delta \in Int /\ b = ExecuteRemoteOp(a, op)
    BY <1>1, <1>7, <2>1
  <2>4. g[n + 1] = g[n] + op.delta /\ g[n] \in Int
    BY <1>8, <2>1
  <2>5. Caught(m, a) /\ a.value = Wrap(m.value + g[n]) /\ \A i \in 1..n : ops[i].lamport <= a.opId.lamport
    BY <2>2
  <2> HIDE DEF a, b, op, Good
  <2>6. Caught(a, b) /\ b.value = Wrap(a.value + op.delta) /\ op.lamport <= b.opId.lamport
    BY <2>3, RemoteOp
  <2>7. Caught(m, b)
    BY <2>5, <2>6, CaughtFacts
  <2>8. b.value = Wrap(m.value + g[n + 1])
    <3> DEFINE x == m.value + g[n]
    <3>1. x \in Int /\ a.value = Wrap(x) /\ m.value + g[n + 1] = x + op.delta
      BY <1>9, <2>3, <2>4, <2>5
    <3> HIDE DEF x
    <3>2. Wrap(Wrap(x) + op.delta) = Wrap(x + op.delta)
      BY <2>3, <3>1, WrapAdd
    <3> QED
      BY <2>6, <3>1, <3>2
  <2>9. ASSUME NEW i \in 1..(n + 1) PROVE ops[i].lamport <= b.opId.lamport
    <3>1. CASE i = n + 1
      BY <2>6, <3>1 DEF op
    <3>2. CASE i # n + 1
      <4>1. i \in 1..n /\ i \in 1..L
        BY <1>1, <2>1, <3>2
      <4>2. ops[i].lamport \in Nat /\ ops[i].lamport <= a.opId.lamport
        BY <1>1, <2>5, <4>1
      <4>3. a.opId.lamport \in Nat /\ b.opId.lamport \in Nat /\ a.opId.lamport <= b.opId.lamport
        BY <2>3, <2>6, RepFacts DEF Caught
      <4> QED
        BY <4>2, <4>3
    <3> QED
      BY <3>1, <3>2
  <2> QED
    BY <2>7, <2>8, <2>9 DEF Good, b
<1>12. Good(L)
  <2>1. \A n \in Nat : n \in Q
    <3> HIDE DEF Q
    <3> QED
      BY <1>10, <1>11, NaturalSteps
  <2> HIDE DEF Good
  <2> QED
    BY <1>1, <2>1
<1> QED
  BY <1>1, <1>3, <1>5, <1>6, <1>12 DEF LamportsOf, ops

(* What an exchange has executed after each transaction of the log. *)
Pulls(f, m, r, from) ==
    /\ f \in [0..Len(log) -> Reps]
    /\ f[0] = m
    /\ \A n \in 1..Len(log) :
          f[n] = IF n <= from \/ IsOwn(r, log[n]) THEN f[n - 1]
                 ELSE ExecuteRemote(f[n - 1], log[n])

LEMMA OthersLoop ==
    ASSUME NEW r, rep[r] \in Reps, log \in Seq(Txs), NEW from
    PROVE  \E f : Pulls(f, rep[r], r, from) /\ ExecuteOthers(r, from) = f[Len(log)]
<1> DEFINE L == Len(log)
           Z == Reps
           m == rep[r]
           Skips(n) == n <= from \/ IsOwn(r, log[n])
           Do(y, n) == IF Skips(n) THEN y ELSE ExecuteRemote(y, log[n])
           step == [p \in Z \X (1..L) |-> Do(p[1], p[2])]
           Body(f) == [n \in 0..L |-> IF n = 0 THEN m ELSE IF n <= from \/ IsOwn(r, log[n])
                                      THEN f[n - 1] ELSE ExecuteRemote(f[n - 1], log[n])]
           G == CHOOSE f : f = Body(f)
<1>1. L \in Nat /\ m \in Z /\ \A n \in 1..L : log[n] \in Txs
  BY TxFacts
<1>2. step \in [(Z \X (1..L)) -> Z]
  <2>1. \A y \in Z, n \in 1..L : Do(y, n) \in Z
    BY <1>1, RemoteTx DEF Caught
  <2> HIDE DEF Z, L, Do
  <2> QED
    BY <2>1
<1>3. \A y \in Z, n \in 1..L : step[<<y, n>>] = Do(y, n)
  <2> HIDE DEF Do
  <2> QED
    OBVIOUS
<1>a. ExecuteOthers(r, from) = G[L]
  BY DEF ExecuteOthers
<1>b. \A f : Body(f) = [n \in 0..L |-> IF n = 0 THEN m ELSE Do(f[n - 1], n)]
  OBVIOUS
<1> HIDE DEF step, L, Z, Do, m, Body
<1>4. PICK f : Loop(f, Z, L, m, step)
  BY <1>1, <1>2, LoopRuns
<1>5. f = Body(f)
  <2>1. ASSUME NEW n \in 1..L PROVE f[n] = Do(f[n - 1], n)
    <3>1. f[n - 1] \in Z /\ f[n] = step[<<f[n - 1], n>>]
      BY <1>1, <1>4 DEF Loop
    <3> QED
      BY <1>3, <3>1
  <2>2. ASSUME NEW n \in 0..L PROVE f[n] = Body(f)[n]
    <3>1. CASE n = 0
      BY <1>4, <1>b, <3>1 DEF Loop
    <3>2. CASE n # 0
      <4>1. n \in 1..L
        BY <1>1, <3>2
      <4> QED
        BY <1>b, <2>1, <3>2, <4>1
    <3> QED
      BY <3>1, <3>2
  <2>3. f \in [0..L -> Z]
    BY <1>4 DEF Loop
  <2>4. DOMAIN Body(f) = 0..L /\ Body(f) = [n \in 0..L |-> Body(f)[n]]
    BY <1>b
  <2> QED
    BY <2>2, <2>3, <2>4
<1>6. G = Body(G)
  BY <1>5
<1> HIDE DEF G
<1>c. G = [n \in 0..L |-> IF n = 0 THEN m ELSE Do(G[n - 1], n)]
  BY <1>6, <1>b
<1>7. DOMAIN G = 0..L /\ G = [n \in DOMAIN G |-> G[n]] /\ G[0] = m
  BY <1>1, <1>c
<1>8. ASSUME NEW n \in 1..L PROVE G[n] = Do(G[n - 1], n)
  <2>1. n \in 0..L /\ n # 0
    BY <1>1
  <2> QED
    BY <1>c, <2>1
<1>9. Loop(G, Z, L, m, step)
  <2>1. ASSUME NEW n \in 1..L, G[n - 1] \in Z PROVE G[n] = step[<<G[n - 1], n>>]
    BY <1>3, <1>8, <2>1
  <2> QED
    BY <1>1, <1>2, <1>7, <2>1, LoopUnique
<1>10. G \in [0..L -> Z]
  BY <1>9 DEF Loop
<1> QED
  BY <1>7, <1>8, <1>10, <1>a DEF L, Z, m, Do, Pulls

(* An exchange: the deltas of the others' transactions after the first      *)
(* `from` are added, and the clock is not behind any of their operations.   *)
LEMMA RemoteOthers ==
    ASSUME NEW r, rep[r] \in Reps, log \in Seq(Txs), NEW from \in Nat, from <= Len(log)
    PROVE  /\ Caught(rep[r], ExecuteOthers(r, from))
           /\ ExecuteOthers(r, from).value =
                  Wrap(rep[r].value
                       + (OthersUpto(log, r, Len(log)) - OthersUpto(log, r, from)))
           /\ \A n \in 1..Len(log) : n > from /\ ~IsOwn(r, log[n]) =>
                 \A l \in LamportsOf(log[n].ops) : l <= ExecuteOthers(r, from).opId.lamport
<1> DEFINE m == rep[r]
           L == Len(log)
           U(n) == OthersUpto(log, r, n)
           D(n) == DeltaOf(log[n].ops)
           e == ExecuteOthers(r, from)
<1>1. L \in Nat /\ from \in 0..L /\ \A n \in 1..L : log[n] \in Txs
  BY TxFacts
<1>2. PICK f : Pulls(f, m, r, from) /\ e = f[L]
  BY OthersLoop
<1>3. /\ f \in [0..L -> Reps] /\ f[0] = m
      /\ \A n \in 1..L : f[n] = IF n <= from \/ IsOwn(r, log[n]) THEN f[n - 1]
                                ELSE ExecuteRemote(f[n - 1], log[n])
  BY <1>2 DEF Pulls
<1>4. /\ \A n \in 0..L : U(n) \in Int
      /\ \A n \in 0..L : n + 1 <= L =>
            /\ D(n + 1) \in Int
            /\ U(n + 1) = U(n) + (IF IsOwn(r, log[n + 1]) THEN 0 ELSE D(n + 1))
  BY UptoSteps
<1>5. m.value \in Int /\ m.value \in Values /\ Caught(m, m)
  BY RepFacts, CaughtFacts
<1> DEFINE New(n) == IF n <= from THEN 0 ELSE U(n) - U(from)
           Covers(n) == \A k \in 1..n : k > from /\ ~IsOwn(r, log[k]) =>
                           \A l \in LamportsOf(log[k].ops) : l <= f[n].opId.lamport
           Good(n) == /\ Caught(m, f[n])
                      /\ f[n].value = Wrap(m.value + New(n))
                      /\ Covers(n)
           Q == {n \in Nat : n <= L => Good(n)}
<1> HIDE DEF m, L, U, D, e
<1>6. 0 \in Q
  <2>a. 0 <= from
    BY <1>1
  <2>b. New(0) = 0
    BY <2>a
  <2>c. Wrap(m.value) = m.value /\ m.value + 0 = m.value
    <3> DEFINE x == m.value
    <3>1. x \in Int /\ x \in Values
      BY <1>5
    <3> HIDE DEF x
    <3>2. Wrap(x) = x
      BY ONLY <3>1, WrapFacts
    <3> QED
      BY <3>1, <3>2 DEF x
  <2>1. Wrap(m.value) = m.value /\ m.value + 0 = m.value /\ New(0) = 0
    BY <2>b, <2>c
  <2> HIDE DEF New
  <2>2. Good(0)
    BY <1>3, <1>5, <2>1
  <2> HIDE DEF Good
  <2> QED
    BY <2>2
<1>7. ASSUME NEW n \in Nat, n \in Q PROVE n + 1 \in Q
  <2> SUFFICES ASSUME n + 1 <= L PROVE Good(n + 1)
    <3> HIDE DEF Good
    <3> QED
      OBVIOUS
  <2>1. n + 1 \in 1..L /\ (n + 1) - 1 = n /\ n <= L /\ n \in 0..L /\ n + 1 \in 0..L
    BY <1>1
  <2>2. Good(n)
    <3> HIDE DEF Good
    <3> QED
      BY <1>7, <2>1
  <2> DEFINE a == f[n]
             b == f[n + 1]
             tx == log[n + 1]
  <2>3. a \in Reps /\ b \in Reps /\ tx \in Txs
    BY <1>1, <1>3, <2>1
  <2>4. Caught(m, a) /\ a.value = Wrap(m.value + New(n)) /\ Covers(n)
    BY <2>2
  <2>5. /\ U(n) \in Int /\ U(n + 1) \in Int /\ U(from) \in Int /\ D(n + 1) \in Int
        /\ U(n + 1) = U(n) + (IF IsOwn(r, tx) THEN 0 ELSE D(n + 1))
    BY <1>1, <1>4, <2>1
  <2>6. CASE n + 1 <= from \/ IsOwn(r, tx)
    <3>1. b = a
      BY <1>3, <2>1, <2>6
    <3>2. New(n + 1) = New(n)
      <4>1. CASE n + 1 <= from
        <5>1. n <= from
          BY <4>1, <1>1
        <5> QED
          BY <4>1, <5>1
      <4>2. CASE ~(n + 1 <= from)
        <5>1. U(n + 1) = U(n)
          BY <2>5, <2>6, <4>2
        <5>2. n <= from => n = from
          BY <1>1, <4>2
        <5>3. New(n + 1) = U(n + 1) - U(from)
          BY <4>2
        <5>4. CASE n <= from
          BY <2>5, <5>1, <5>2, <5>3, <5>4
        <5>5. CASE ~(n <= from)
          BY <5>1, <5>3, <5>5
        <5> QED
          BY <5>4, <5>5
      <4> QED
        BY <4>1, <4>2
    <3>3. Covers(n + 1)
      <4> SUFFICES ASSUME NEW k \in 1..(n + 1), k > from, ~IsOwn(r, log[k]),
                          NEW l \in LamportsOf(log[k].ops)
                   PROVE  l <= b.opId.lamport
        OBVIOUS
      <4>1. k # n + 1
        BY <1>1, <2>6
      <4>2. k \in 1..n
        BY <4>1
      <4>3. l <= a.opId.lamport
        BY <2>4, <4>2
      <4> QED
        BY <3>1, <4>3
    <3> HIDE DEF New, Covers
    <3> QED
      BY <2>4, <3>1, <3>2, <3>3
  <2>7. CASE ~(n + 1 <= from \/ IsOwn(r, tx))
    <3>1. b = ExecuteRemote(a, tx)
      BY <1>3, <2>1, <2>7
    <3>2. /\ Caught(a, b) /\ b.value = Wrap(a.value + D(n + 1))
          /\ \A l \in LamportsOf(tx.ops) : l <= b.opId.lamport
      <4>1. D(n + 1) = DeltaOf(tx.ops)
        BY DEF D
      <4> HIDE DEF a, b, tx
      <4> QED
        BY <2>3, <3>1, <4>1, RemoteTx
    <3>3. New(n + 1) = New(n) + D(n + 1) /\ New(n) \in Int
      <4>1. U(n + 1) = U(n) + D(n + 1) /\ New(n + 1) = U(n + 1) - U(from)
        BY <2>5, <2>7
      <4>2. n <= from => n = from
        BY <1>1, <2>7
      <4>3. CASE n <= from
        BY <2>5, <4>1, <4>2, <4>3
      <4>4. CASE ~(n <= from)
        BY <2>5, <4>1, <4>4
      <4> QED
        BY <4>3, <4>4
    <3>4. b.value = Wrap(m.value + New(n + 1))
      <4> DEFINE x == m.value + New(n)
                 y == D(n + 1)
      <4> HIDE DEF New
      <4>1. x \in Int /\ y \in Int /\ a.value = Wrap(x) /\ m.value + New(n + 1) = x + y
        BY <1>5, <2>4, <2>5, <3>3
      <4> HIDE DEF x, y
      <4>2. Wrap(Wrap(x) + y) = Wrap(x + y)
        BY <4>1, WrapAdd
      <4> QED
        BY <3>2, <4>1, <4>2 DEF y
    <3>5. Covers(n + 1)
      <4> SUFFICES ASSUME NEW k \in 1..(n + 1), k > from, ~IsOwn(r, log[k]),
                          NEW l \in LamportsOf(log[k].ops)
                   PROVE  l <= b.opId.lamport
        OBVIOUS
      <4>1. CASE k = n + 1
        BY <3>2, <4>1
      <4>2. CASE k # n + 1
        <5>1. k \in 1..n /\ k \in 1..L
          BY <1>1, <2>1, <4>2
        <5>2. l <= a.opId.lamport
          BY <2>4, <5>1
        <5>3. l \in Nat
          <6>1. log[k].ops \in Seq(Ops)
            BY <5>1, TxFacts DEF L
          <6> QED
            BY <6>1, OpFacts DEF LamportsOf
        <5>4. a.opId.lamport \in Nat /\ b.opId.lamport \in Nat /\ a.opId.lamport <= b.opId.lamport
          BY <2>3, <3>2, RepFacts DEF Caught
        <5> QED
          BY <5>2, <5>3, <5>4
      <4> QED
        BY <4>1, <4>2
    <3>6. Caught(m, b)
      <4>1. m \in Reps
        BY DEF m
      <4> QED
        BY <2>4, <3>2, <4>1, CaughtFacts
    <3> HIDE DEF New, Covers
    <3> QED
      BY <3>4, <3>5, <3>6
  <2> QED
    BY <2>6, <2>7
<1>8. Good(L)
  <2>1. \A n \in Nat : n \in Q
    <3> HIDE DEF Q
    <3> QED
      BY <1>6, <1>7, NaturalSteps
  <2> HIDE DEF Good
  <2> QED
    BY <1>1, <2>1
<1>9. New(L) = U(L) - U(from)
  <2>1. L <= from => L = from
    BY <1>1
  <2>2. U(from) \in Int
    BY <1>1, <1>4
  <2>3. CASE L <= from
    BY <2>1, <2>2, <2>3
  <2>4. CASE ~(L <= from)
    BY <2>4
  <2> QED
    BY <2>3, <2>4
<1>10. Caught(m, e) /\ e.value = Wrap(m.value + (U(L) - U(from)))
  <2> HIDE DEF New, Covers
  <2> QED
    BY <1>2, <1>8, <1>9
<1>11. \A n \in 1..L : n > from /\ ~IsOwn(r, log[n]) =>
          \A l \in LamportsOf(log[n].ops) : l <= e.opId.lamport
  BY <1>2, <1>8
<1> QED
  BY <1>10, <1>11 DEF m, e, U, L

(* The inverse of one operation takes its delta away, the smallest one too. *)
LEMMA InverseOp ==
    ASSUME NEW v \in Int, NEW op \in Ops
    PROVE  /\ ExecuteInverse(v, op) = Wrap(v - op.delta)
           /\ ExecuteInverse(v, op) \in Values
<1> DEFINE d == op.delta
           y == -d
<1>1. d \in Int /\ y \in Int /\ v + y = v - d /\ v - d \in Int
  BY DEF Ops
<1>2. ExecuteInverse(v, op) = Wrap(v + Wrap(y))
  BY DEF ExecuteInverse, IncreaseBy
<1> HIDE DEF d, y
<1>3. Wrap(v + Wrap(y)) = Wrap(v + y)
  BY <1>1, WrapAdd
<1>4. Wrap(v - d) \in Values
  BY <1>1, WrapFacts
<1> QED
  BY <1>1, <1>2, <1>3, <1>4 DEF d

(* What the loop of do_rollback has undone after each operation. *)
Undoes(f, v, ops) ==
    /\ f \in [0..Len(ops) -> Values]
    /\ f[0] = v
    /\ \A n \in 1..Len(ops) : f[n] = ExecuteInverse(f[n - 1], ops[Len(ops) + 1 - n])

LEMMA UndoLoop ==
    ASSUME NEW m \in Reps
    PROVE  \E f : /\ Undoes(f, m.value, m.pending)
                  /\ DoRollback(m) = [m EXCEPT !.value = f[Len(m.pending)],
                                               !.opId = m.rollback, !.pending = <<>>]
<1> DEFINE ops == m.pending
           v == m.value
           L == Len(ops)
           Z == Values
           Do(y, n) == ExecuteInverse(y, ops[L + 1 - n])
           step == [p \in Z \X (1..L) |-> Do(p[1], p[2])]
           Body(f) == [n \in 0..L |-> IF n = 0 THEN v ELSE ExecuteInverse(f[n - 1], ops[L + 1 - n])]
           G == CHOOSE f : f = Body(f)
<1>0. ops \in Seq(Ops) /\ v \in Z
  BY RepFacts
<1>1. L \in Nat /\ v \in Z /\ \A n \in 1..L : ops[n] \in Ops
  <2> HIDE DEF ops, Z
  <2> QED
    BY <1>0, OpFacts
<1>d. Z \subseteq Int
  BY HalfFacts DEF Values
<1>2. step \in [(Z \X (1..L)) -> Z]
  <2>1. ASSUME NEW y \in Z, NEW n \in 1..L PROVE Do(y, n) \in Z
    <3>1. L + 1 - n \in 1..L
      <4> HIDE DEF L
      <4> QED
        BY <1>1
    <3>2. y \in Int /\ ops[L + 1 - n] \in Ops
      BY <1>1, <1>d, <3>1
    <3> QED
      BY <3>2, InverseOp
  <2> HIDE DEF Z, L, Do
  <2> QED
    BY <2>1
<1>3. \A y \in Z, n \in 1..L : step[<<y, n>>] = Do(y, n)
  <2> HIDE DEF Do
  <2> QED
    OBVIOUS
<1>a. DoRollback(m) = [m EXCEPT !.value = G[L], !.opId = m.rollback, !.pending = <<>>]
  BY DEF DoRollback
<1>b. \A f : Body(f) = [n \in 0..L |-> IF n = 0 THEN v ELSE Do(f[n - 1], n)]
  OBVIOUS
<1> HIDE DEF step, L, Z, Do, v, Body, ops
<1>4. PICK f : Loop(f, Z, L, v, step)
  BY <1>1, <1>2, LoopRuns
<1>5. f = Body(f)
  <2>1. ASSUME NEW n \in 1..L PROVE f[n] = Do(f[n - 1], n)
    <3>1. f[n - 1] \in Z /\ f[n] = step[<<f[n - 1], n>>]
      BY <1>1, <1>4 DEF Loop
    <3> QED
      BY <1>3, <3>1
  <2>2. ASSUME NEW n \in 0..L PROVE f[n] = Body(f)[n]
    <3>1. CASE n = 0
      BY <1>4, <1>b, <3>1 DEF Loop
    <3>2. CASE n # 0
      <4>1. n \in 1..L
        BY <1>1, <3>2
      <4> QED
        BY <1>b, <2>1, <3>2, <4>1
    <3> QED
      BY <3>1, <3>2
  <2>3. f \in [0..L -> Z]
    BY <1>4 DEF Loop
  <2>4. DOMAIN Body(f) = 0..L /\ Body(f) = [n \in 0..L |-> Body(f)[n]]
    BY <1>b
  <2> QED
    BY <2>2, <2>3, <2>4
<1>6. G = Body(G)
  BY <1>5
<1> HIDE DEF G
<1>c. G = [n \in 0..L |-> IF n = 0 THEN v ELSE Do(G[n - 1], n)]
  BY <1>6, <1>b
<1>7. DOMAIN G = 0..L /\ G = [n \in DOMAIN G |-> G[n]] /\ G[0] = v
  BY <1>1, <1>c
<1>8. ASSUME NEW n \in 1..L PROVE G[n] = Do(G[n - 1], n)
  <2>1. n \in 0..L /\ n # 0
    BY <1>1
  <2> QED
    BY <1>c, <2>1
<1>9. Loop(G, Z, L, v, step)
  <2>1. ASSUME NEW n \in 1..L, G[n - 1] \in Z PROVE G[n] = step[<<G[n - 1], n>>]
    BY <1>3, <1>8, <2>1
  <2> QED
    BY <1>1, <1>2, <1>7, <2>1, LoopUnique
<1>10. G \in [0..L -> Z]
  BY <1>9 DEF Loop
<1>11. Undoes(G, m.value, m.pending)
  BY <1>7, <1>8, <1>10 DEF L, Z, v, Do, ops, Undoes
<1> QED
  BY <1>11, <1>a DEF L, ops

(* A rollback takes away what the open transaction has added, whatever      *)
(* wrapped around in between.                                               *)
LEMMA RollbackEffect ==
    ASSUME NEW m \in Reps
    PROVE  /\ DoRollback(m) \in Reps
           /\ DoRollback(m).value = Wrap(m.value - DeltaOf(m.pending))
           /\ DoRollback(m).opId = m.rollback /\ DoRollback(m).rollback = m.rollback
           /\ DoRollback(m).buf = m.buf /\ DoRollback(m).pending = <<>>
<1> DEFINE ops == m.pending
           v == m.value
           L == Len(ops)
           s == [i \in DOMAIN ops |-> ops[i].delta]
<1>0. ops \in Seq(Ops) /\ v \in Values /\ v \in Int
  BY RepFacts
<1>1. /\ L \in Nat /\ DOMAIN ops = 1..L
      /\ \A i \in 1..L : ops[i] \in Ops /\ ops[i].delta \in Int
  <2> HIDE DEF ops
  <2> QED
    BY <1>0, OpFacts
<1>2. s \in Seq(Int) /\ Len(s) = L
  <2>1. s = [i \in 1..L |-> s[i]] /\ \A i \in 1..L : s[i] \in Int
    BY <1>1
  <2> HIDE DEF s, L
  <2> QED
    BY <1>1, <2>1, IntegerSequence
<1>3. DeltaOf(ops) = Total(s)
  BY DEF DeltaOf
<1>4. \A i \in 1..L : s[i] = ops[i].delta
  BY <1>1
<1>5. PICK f : /\ Undoes(f, v, ops)
               /\ DoRollback(m) = [m EXCEPT !.value = f[L], !.opId = m.rollback, !.pending = <<>>]
  BY UndoLoop
<1>6. /\ f \in [0..L -> Values] /\ f[0] = v
      /\ \A n \in 1..L : f[n] = ExecuteInverse(f[n - 1], ops[L + 1 - n])
  BY <1>5 DEF Undoes
<1>e. Values \subseteq Int
  BY HalfFacts DEF Values
<1> HIDE DEF s, L, ops, v
<1>7. PICK g : Sums(g, s) /\ Total(s) = g[L]
  BY <1>2, TotalLoop
<1>8. /\ \A n \in 0..L : g[n] \in Int
      /\ g[0] = 0 /\ \A n \in 1..L : g[n] = g[n - 1] + ops[n].delta
  BY <1>2, <1>4, <1>7 DEF Sums
<1> DEFINE Q == {n \in Nat : n <= L => f[n] = Wrap(v - (g[L] - g[L - n]))}
<1>9. 0 \in Q
  <2>1. L - 0 = L /\ g[L] \in Int
    BY <1>1, <1>8
  <2>2. g[L] - g[L - 0] = 0
    BY <2>1
  <2>3. v - (g[L] - g[L - 0]) = v
    BY <1>0, <2>2
  <2>4. Wrap(v) = v
    BY <1>0, WrapFacts
  <2> QED
    BY <1>6, <2>3, <2>4
<1>10. ASSUME NEW n \in Nat, n \in Q PROVE n + 1 \in Q
  <2> SUFFICES ASSUME n + 1 <= L PROVE f[n + 1] = Wrap(v - (g[L] - g[L - (n + 1)]))
    OBVIOUS
  <2> DEFINE k == L - n
             op == ops[k]
             x == v - (g[L] - g[k])
  <2>1. /\ n + 1 \in 1..L /\ (n + 1) - 1 = n /\ n <= L /\ k \in 1..L
        /\ L + 1 - (n + 1) = k /\ L - (n + 1) = k - 1 /\ k - 1 \in 0..L /\ k \in 0..L /\ L \in 0..L
    BY <1>1
  <2>2. f[n] = Wrap(x)
    BY <1>10, <2>1
  <2>3. f[n + 1] = ExecuteInverse(f[n], op)
    BY <1>6, <2>1
  <2>4. g[k] = g[k - 1] + op.delta /\ g[k] \in Int /\ g[k - 1] \in Int /\ g[L] \in Int
    BY <1>8, <2>1
  <2>5. op \in Ops /\ op.delta \in Int
    BY <1>1, <2>1
  <2> DEFINE y == g[L] - g[k - 1]
             d == op.delta
             z == -d
  <2>6. x \in Int /\ d \in Int /\ z \in Int /\ v - y = x + z
    <3> DEFINE a == g[L]
               b == g[k]
               c == g[k - 1]
    <3>1. /\ a \in Int /\ b \in Int /\ c \in Int /\ b = c + d /\ d \in Int /\ v \in Int
          /\ x = v - (a - b) /\ y = a - c
      BY <1>0, <2>4, <2>5
    <3> HIDE DEF a, b, c, d, x, y
    <3> QED
      BY ONLY <3>1
  <2> HIDE DEF k, op, x, y, d
  <2>7. Wrap(x) \in Int /\ Wrap(Wrap(x) + z) = Wrap(x + z)
    BY <2>6, WrapAdd
  <2>8. f[n + 1] = Wrap(Wrap(x) - d)
    BY <2>2, <2>3, <2>5, <2>7, InverseOp DEF d
  <2>9. Wrap(x) - d = Wrap(x) + z
    BY <2>6, <2>7
  <2>10. f[n + 1] = Wrap(v - y)
    BY <2>6, <2>7, <2>8, <2>9
  <2> QED
    BY <2>1, <2>10 DEF y
<1>11. f[L] = Wrap(v - (g[L] - g[L - L]))
  <2>1. \A n \in Nat : n \in Q
    <3> HIDE DEF Q
    <3> QED
      BY <1>9, <1>10, NaturalSteps
  <2> QED
    BY <1>1, <2>1
<1>12. f[L] = Wrap(v - DeltaOf(ops)) /\ f[L] \in Values
  <2>1. L - L = 0 /\ L \in 0..L
    BY <1>1
  <2>2. g[L] - g[L - L] = g[L]
    BY <1>8, <2>1
  <2> QED
    BY <1>3, <1>6, <1>7, <1>11, <2>1, <2>2
<1> DEFINE e == [m EXCEPT !.value = f[L], !.opId = m.rollback, !.pending = <<>>]
<1>13. e \in Reps
  <2>1. <<>> \in Seq(Ops)
    OBVIOUS
  <2> QED
    BY <1>12, <2>1 DEF Reps
<1>14. /\ e.value = f[L] /\ e.opId = m.rollback /\ e.pending = <<>>
       /\ e.buf = m.buf /\ e.rollback = m.rollback
  BY DEF Reps
<1> HIDE DEF e
<1>15. DoRollback(m) = e
  BY <1>5 DEF e
<1> QED
  BY <1>12, <1>13, <1>14, <1>15 DEF v, ops

-----------------------------------------------------------------------------
(* How many of the first n transactions of h are replica r's. *)
OwnCount(h, r, n) == Cardinality({i \in 1..n : IsOwn(r, h[i])})

(* The types that TypeOK names, and those of the records as a whole. *)
Shape ==
    /\ rep \in [Replicas -> Reps] /\ log \in Seq(Txs)
    /\ joined \subseteq Replicas /\ Creator \in joined
    /\ pulled \in [Replicas -> Nat] /\ budget \in [Replicas -> Nat]
    /\ missed \in [Replicas -> [during : SUBSET Nat, for_good : SUBSET Nat]]
    /\ \A r \in Replicas : pulled[r] <= Len(log)

(* What a rollback would set the clock to. *)
Floor(m) == IF m.pending = <<>> THEN m.opId.lamport ELSE m.rollback.lamport

(* Lamport stamps grow along a sequence of operations, ... *)
Growing(ops) == \A i, j \in 1..Len(ops) : i < j => ops[i].lamport < ops[j].lamport

(* ... and along a sequence of transactions. *)
TxsGrowing(txs) ==
    \A a, b \in 1..Len(txs) : a < b =>
        \A k \in LamportsOf(txs[a].ops), l \in LamportsOf(txs[b].ops) : k < l

(* A replica's operations carry growing stamps: what is committed is not    *)
(* ahead of the clock a rollback restores, what is open is ahead of it.     *)
Stamped(m, r) ==
    /\ \A i \in 1..Len(m.buf.txs) :
          /\ m.buf.txs[i].cuid = r /\ Growing(m.buf.txs[i].ops)
          /\ \A l \in LamportsOf(m.buf.txs[i].ops) : l <= Floor(m)
    /\ TxsGrowing(m.buf.txs) /\ Growing(m.pending)
    /\ Floor(m) <= m.opId.lamport
    /\ \A l \in LamportsOf(m.pending) : Floor(m) < l /\ l <= m.opId.lamport

(* The log has the first of what a replica committed, in order, and all the *)
(* log has of it is within what the replica has pulled.                     *)
Logged(h, r, p, txs) ==
    /\ OwnCount(h, r, p) = OwnCount(h, r, Len(h)) /\ OwnCount(h, r, Len(h)) <= Len(txs)
    /\ \A n \in 1..Len(h) : IsOwn(r, h[n]) =>
          OwnCount(h, r, n) <= Len(txs) /\ h[n] = txs[OwnCount(h, r, n)]

(* What a replica pulled is not ahead of its clock, nor will it be after a  *)
(* rollback, but for what `missed` says.                                    *)
Heard(m, h, p, gone) ==
    \A n \in 1..p : \A l \in LamportsOf(h[n].ops) :
        /\ l <= m.opId.lamport \/ l \in gone.for_good
        /\ l <= Floor(m) \/ l \in gone.for_good \cup gone.during

(* The value is what was pulled, committed and left open. *)
Valued(m, h, r, p) ==
    m.value = Wrap(OthersUpto(h, r, p)
                   + (AllUpto(m.buf.txs, Len(m.buf.txs)) + DeltaOf(m.pending)))

ReplicaInv(r) ==
    /\ Stamped(rep[r], r)
    /\ Logged(log, r, pulled[r], rep[r].buf.txs)
    /\ r \notin joined => rep[r].buf.txs = <<>> /\ rep[r].pending = <<>>
    /\ r \in joined => /\ Heard(rep[r], log, pulled[r], missed[r])
                       /\ Valued(rep[r], log, r, pulled[r])

LocalInv == Shape /\ \A r \in Replicas : ReplicaInv(r)

LEMMA ShapeFacts ==
    ASSUME Shape, NEW r \in Replicas
    PROVE  /\ rep[r] \in Reps /\ log \in Seq(Txs) /\ Len(log) \in Nat
           /\ pulled[r] \in Nat /\ pulled[r] <= Len(log) /\ budget[r] \in Nat
           /\ missed[r].during \subseteq Nat /\ missed[r].for_good \subseteq Nat
<1>1. missed[r] \in [during : SUBSET Nat, for_good : SUBSET Nat]
  BY DEF Shape
<1> QED
  BY <1>1 DEF Shape

(* The number of a replica's transactions grows by the next one if it is    *)
(* the replica's.                                                           *)
LEMMA OwnCountSteps ==
    ASSUME NEW h, NEW r
    PROVE  /\ OwnCount(h, r, 0) = 0
           /\ \A n \in Nat : OwnCount(h, r, n) \in Nat
           /\ \A n \in Nat :
                 /\ IsOwn(r, h[n + 1]) => OwnCount(h, r, n + 1) = OwnCount(h, r, n) + 1
                 /\ ~IsOwn(r, h[n + 1]) => OwnCount(h, r, n + 1) = OwnCount(h, r, n)
           /\ \A m \in Nat, n \in Nat : m <= n => OwnCount(h, r, m) <= OwnCount(h, r, n)
<1> DEFINE O(n) == {j \in 1..n : IsOwn(r, h[j])}
<1>1. ASSUME NEW n \in Nat
      PROVE  IsFiniteSet(O(n)) /\ OwnCount(h, r, n) = Cardinality(O(n)) /\ OwnCount(h, r, n) \in Nat
  <2>1. IsFiniteSet(1..n) /\ O(n) \in SUBSET (1..n)
    BY FS_Interval
  <2>2. OwnCount(h, r, n) = Cardinality(O(n))
    BY DEF OwnCount
  <2> HIDE DEF O
  <2>3. IsFiniteSet(O(n))
    BY <2>1, FS_Subset
  <2> QED
    BY <2>2, <2>3, FS_CardinalityType
<1>2. OwnCount(h, r, 0) = 0
  <2>1. O(0) = {}
    OBVIOUS
  <2> QED
    BY <1>1, <2>1, FS_EmptySet
<1>3. ASSUME NEW n \in Nat
      PROVE  /\ IsOwn(r, h[n + 1]) => OwnCount(h, r, n + 1) = OwnCount(h, r, n) + 1
             /\ ~IsOwn(r, h[n + 1]) => OwnCount(h, r, n + 1) = OwnCount(h, r, n)
  <2>1. /\ O(n + 1) = (IF IsOwn(r, h[n + 1]) THEN O(n) \cup {n + 1} ELSE O(n))
        /\ n + 1 \notin O(n)
    <3>1. 1..(n + 1) = (1..n) \cup {n + 1} /\ n + 1 \notin 1..n
      OBVIOUS
    <3> QED
      BY <3>1
  <2>2. n + 1 \in Nat
    OBVIOUS
  <2>3. /\ IsFiniteSet(O(n)) /\ OwnCount(h, r, n) = Cardinality(O(n)) /\ OwnCount(h, r, n) \in Nat
        /\ OwnCount(h, r, n + 1) = Cardinality(O(n + 1))
    BY <1>1, <2>2
  <2> HIDE DEF O
  <2>4. Cardinality(O(n) \cup {n + 1}) = Cardinality(O(n)) + 1
    BY <2>1, <2>3, FS_AddElement
  <2> QED
    BY ONLY <2>1, <2>3, <2>4
<1>4. ASSUME NEW m \in Nat, NEW n \in Nat, m <= n PROVE OwnCount(h, r, m) <= OwnCount(h, r, n)
  <2>1. O(m) \in SUBSET O(n)
    BY <1>4
  <2>2. IsFiniteSet(O(n)) /\ OwnCount(h, r, n) = Cardinality(O(n)) /\ OwnCount(h, r, m) = Cardinality(O(m))
    BY <1>1
  <2> HIDE DEF O
  <2> QED
    BY <2>1, <2>2, FS_Subset
<1> QED
  BY <1>1, <1>2, <1>3, <1>4

(* Sequence g agrees with h on the first n. *)
Agree(g, h, n) == \A i \in 1..n : g[i] = h[i]

(* What comes later does not change the beginning. *)
LEMMA PrefixSame ==
    ASSUME NEW g, NEW h, NEW n \in Nat, Agree(g, h, n), NEW r
    PROVE  /\ OwnCount(g, r, n) = OwnCount(h, r, n)
           /\ OthersUpto(g, r, n) = OthersUpto(h, r, n)
           /\ AllUpto(g, n) = AllUpto(h, n)
<1>1. {i \in 1..n : IsOwn(r, g[i])} = {i \in 1..n : IsOwn(r, h[i])}
  BY DEF Agree
<1>2. [k \in 1..n |-> IF IsOwn(r, g[k]) THEN 0 ELSE DeltaOf(g[k].ops)]
         = [k \in 1..n |-> IF IsOwn(r, h[k]) THEN 0 ELSE DeltaOf(h[k].ops)]
  BY DEF Agree
<1>3. [k \in 1..n |-> DeltaOf(g[k].ops)] = [k \in 1..n |-> DeltaOf(h[k].ops)]
  BY DEF Agree
<1> QED
  BY <1>1, <1>2, <1>3 DEF OwnCount, OthersUpto, AllUpto

(* A step that changes nothing of a replica keeps its part. *)
LEMMA Elsewhere ==
    ASSUME NEW d \in Replicas, ReplicaInv(d), log' = log, rep'[d] = rep[d],
           pulled'[d] = pulled[d], missed'[d] = missed[d], d \in joined' <=> d \in joined
    PROVE  ReplicaInv(d)'
BY DEF ReplicaInv

-----------------------------------------------------------------------------
(* A local operation: the replica after it. *)
LEMMA LocalOp ==
    ASSUME NEW m \in Reps, NEW delta \in Int
    PROVE  /\ ExecuteLocal(m, delta) \in Reps
           /\ ExecuteLocal(m, delta).value = Wrap(m.value + delta)
           /\ ExecuteLocal(m, delta).buf = m.buf
           /\ ExecuteLocal(m, delta).opId.lamport = m.opId.lamport + 1
           /\ ExecuteLocal(m, delta).pending =
                  Append(m.pending, NewOperation(delta, m.opId.lamport + 1))
           /\ Floor(ExecuteLocal(m, delta)) = Floor(m)
           /\ NewOperation(delta, m.opId.lamport + 1) \in Ops
<1> DEFINE op == NewOperation(delta, m.opId.lamport + 1)
           v == Wrap(m.value + delta)
           rb == IF m.pending = <<>> THEN m.opId ELSE m.rollback
           id == [lamport |-> m.opId.lamport + 1,
                  cseq |-> IF m.pending = <<>> THEN m.opId.cseq + 1 ELSE m.opId.cseq]
           more == Append(m.pending, op)
           e == [m EXCEPT !.value = v, !.pending = more, !.rollback = rb, !.opId = id]
<1>1. /\ m.value \in Int /\ m.opId \in OpIds /\ m.rollback \in OpIds /\ m.opId.lamport \in Nat
      /\ m.opId.cseq \in Nat /\ m.pending \in Seq(Ops)
  BY RepFacts
<1>2. v \in Values
  <2>1. m.value + delta \in Int
    BY <1>1
  <2> QED
    BY <2>1, WrapRange
<1>3. op \in Ops
  BY <1>1 DEF NewOperation, Ops
<1>4. rb \in OpIds /\ id \in OpIds /\ id.lamport = m.opId.lamport + 1
  BY <1>1 DEF OpIds
<1>5. more \in Seq(Ops) /\ more # <<>>
  <2> HIDE DEF op
  <2> QED
    BY <1>1, <1>3
<1>6. ExecuteLocal(m, delta) = e
  BY DEF ExecuteLocal, IncreaseBy
<1>7. Floor(m) = rb.lamport
  BY DEF Floor
<1> HIDE DEF v, op, rb, id, more
<1>8. e \in Reps
  BY <1>2, <1>4, <1>5 DEF Reps
<1>9. e.value = v /\ e.pending = more /\ e.rollback = rb /\ e.opId = id /\ e.buf = m.buf
  BY DEF Reps
<1> HIDE DEF e
<1>10. Floor(e) = rb.lamport
  BY <1>5, <1>9 DEF Floor
<1> QED
  BY <1>3, <1>4, <1>6, <1>7, <1>8, <1>9, <1>10 DEF v, op, more

(* Stamps stay growing when a larger one is added. *)
LEMMA GrowingMore ==
    ASSUME NEW ops \in Seq(Ops), Growing(ops), NEW op \in Ops,
           \A l \in LamportsOf(ops) : l < op.lamport
    PROVE  /\ Growing(Append(ops, op))
           /\ LamportsOf(Append(ops, op)) = LamportsOf(ops) \cup {op.lamport}
<1> DEFINE more == Append(ops, op)
           L == Len(ops)
<1>1. /\ L \in Nat /\ DOMAIN ops = 1..L /\ Len(more) = L + 1 /\ DOMAIN more = 1..(L + 1)
      /\ more[L + 1] = op /\ \A i \in 1..L : more[i] = ops[i]
  OBVIOUS
<1>2. \A i \in 1..L : ops[i].lamport < op.lamport
  BY <1>1 DEF LamportsOf
<1>3. \A i \in 1..(L + 1) : i \in 1..L \/ i = L + 1
  BY <1>1
<1> HIDE DEF more, L
<1>4. Growing(more)
  <2> SUFFICES ASSUME NEW i \in 1..(L + 1), NEW j \in 1..(L + 1), i < j
               PROVE  more[i].lamport < more[j].lamport
    BY <1>1 DEF Growing
  <2>1. i \in 1..L
    BY <1>1
  <2>2. CASE j = L + 1
    BY <1>1, <1>2, <2>1, <2>2
  <2>3. CASE j # L + 1
    <3>1. j \in 1..L
      BY <1>3, <2>3
    <3> QED
      BY <1>1, <2>1, <3>1 DEF Growing, L
  <2> QED
    BY <2>2, <2>3
<1>5. LamportsOf(more) = LamportsOf(ops) \cup {op.lamport}
  <2>1. LamportsOf(more) = {more[i].lamport : i \in 1..(L + 1)}
    BY <1>1 DEF LamportsOf
  <2>2. LamportsOf(ops) = {ops[i].lamport : i \in 1..L}
    BY <1>1 DEF LamportsOf
  <2>3. L + 1 \in 1..(L + 1) /\ \A i \in 1..L : i \in 1..(L + 1)
    BY <1>1
  <2>4. ASSUME NEW l \in LamportsOf(more) PROVE l \in LamportsOf(ops) \cup {op.lamport}
    BY <1>1, <1>3, <2>1, <2>2
  <2>5. ASSUME NEW l \in LamportsOf(ops) \cup {op.lamport} PROVE l \in LamportsOf(more)
    BY <1>1, <2>1, <2>2, <2>3
  <2> QED
    BY <2>4, <2>5
<1> QED
  BY <1>4, <1>5 DEF more

LEMMA LamportFacts ==
    ASSUME NEW ops \in Seq(Ops)
    PROVE  LamportsOf(ops) \subseteq Nat /\ (ops = <<>> => LamportsOf(ops) = {})
BY OpFacts DEF LamportsOf

(* A step of replica r that only changes the replica itself. *)
LEMMA OwnStep ==
    ASSUME LocalInv, NEW r \in Replicas, NEW e \in Reps,
           rep' = [rep EXCEPT ![r] = e], log' = log, joined' = joined, pulled' = pulled,
           budget' \in [Replicas -> Nat],
           missed' \in [Replicas -> [during : SUBSET Nat, for_good : SUBSET Nat]],
           \A d \in Replicas \ {r} : missed'[d] = missed[d],
           Stamped(e, r), Logged(log, r, pulled[r], e.buf.txs),
           r \in joined,
           Heard(e, log, pulled[r], missed'[r]), Valued(e, log, r, pulled[r])
    PROVE  LocalInv'
<1>1. Shape /\ \A d \in Replicas : ReplicaInv(d)
  BY DEF LocalInv
<1>2. rep' \in [Replicas -> Reps] /\ rep'[r] = e /\ \A d \in Replicas \ {r} : rep'[d] = rep[d]
  BY <1>1 DEF Shape
<1>3. Shape'
  BY <1>1, <1>2 DEF Shape
<1>4. ASSUME NEW d \in Replicas, d # r PROVE ReplicaInv(d)'
  BY <1>1, <1>2, <1>4, Elsewhere
<1>5. ReplicaInv(r)'
  BY <1>2 DEF ReplicaInv
<1> QED
  BY <1>3, <1>4, <1>5 DEF LocalInv

LEMMA IncreaseInv ==
    ASSUME LocalInv, NEW r \in Replicas, NEW delta \in Deltas, Increase(r, delta)
    PROVE  LocalInv'
<1> DEFINE m == rep[r]
           e == ExecuteLocal(m, delta)
           l0 == m.opId.lamport
           op == NewOperation(delta, l0 + 1)
<1>1. /\ m \in Reps /\ pulled[r] \in Nat /\ pulled[r] <= Len(log) /\ log \in Seq(Txs)
      /\ budget[r] \in Nat
  BY ShapeFacts DEF LocalInv
<1>2. ReplicaInv(r) /\ r \in joined
  BY DEF LocalInv, Increase
<1>3. Stamped(m, r) /\ Logged(log, r, pulled[r], m.buf.txs) /\ Heard(m, log, pulled[r], missed[r])
      /\ Valued(m, log, r, pulled[r])
  BY <1>2 DEF ReplicaInv
<1>4. delta \in Int
  BY LocalReplicaAssumption, HalfFacts
<1>5. /\ e \in Reps /\ e.value = Wrap(m.value + delta) /\ e.buf = m.buf
      /\ e.opId.lamport = l0 + 1 /\ e.pending = Append(m.pending, op)
      /\ Floor(e) = Floor(m) /\ op \in Ops
  BY <1>1, <1>4, LocalOp
<1>6. op.lamport = l0 + 1 /\ op.delta = delta
  BY DEF NewOperation
<1>7. /\ l0 \in Nat /\ m.pending \in Seq(Ops) /\ m.value \in Int /\ m.buf.txs \in Seq(Txs)
      /\ Floor(m) \in Nat /\ LamportsOf(m.pending) \subseteq Nat
  <2>1. /\ l0 \in Nat /\ m.pending \in Seq(Ops) /\ m.value \in Int /\ m.buf.txs \in Seq(Txs)
        /\ m.rollback.lamport \in Nat
    BY <1>1, RepFacts
  <2> QED
    BY <2>1, LamportFacts DEF Floor
<1>8. /\ rep' = [rep EXCEPT ![r] = e] /\ log' = log /\ joined' = joined /\ pulled' = pulled
      /\ missed' = missed /\ budget' = [budget EXCEPT ![r] = @ - 1] /\ budget[r] > 0
  BY DEF Increase
<1>9. budget' \in [Replicas -> Nat] /\ missed' \in [Replicas -> [during : SUBSET Nat, for_good : SUBSET Nat]]
  <2>1. /\ budget \in [Replicas -> Nat]
        /\ missed \in [Replicas -> [during : SUBSET Nat, for_good : SUBSET Nat]]
    BY DEF LocalInv, Shape
  <2>2. budget[r] - 1 \in Nat
    BY <1>1, <1>8
  <2> QED
    BY <1>8, <2>1, <2>2
<1> HIDE DEF m, e, l0, op
<1>10. Stamped(e, r)
  <2>1. \A l \in LamportsOf(m.pending) : l < op.lamport
    BY <1>3, <1>6, <1>7 DEF Stamped, l0
  <2>2. /\ Growing(e.pending)
        /\ LamportsOf(e.pending) = LamportsOf(m.pending) \cup {op.lamport}
    BY <1>3, <1>5, <1>7, <2>1, GrowingMore DEF Stamped
  <2>3. Floor(m) <= l0 /\ \A l \in LamportsOf(m.pending) : Floor(m) < l /\ l <= l0
    BY <1>3 DEF Stamped, l0
  <2>4. Floor(e) <= e.opId.lamport
    BY <1>5, <1>7, <2>3
  <2>5. \A l \in LamportsOf(e.pending) : Floor(e) < l /\ l <= e.opId.lamport
    BY <1>5, <1>6, <1>7, <2>2, <2>3
  <2> QED
    BY <1>3, <1>5, <2>2, <2>4, <2>5 DEF Stamped
<1>11. Logged(log, r, pulled[r], e.buf.txs)
  BY <1>3, <1>5
<1>12. Heard(e, log, pulled[r], missed[r])
  <2> SUFFICES ASSUME NEW n \in 1..pulled[r], NEW l \in LamportsOf(log[n].ops)
               PROVE  /\ l <= e.opId.lamport \/ l \in missed[r].for_good
                      /\ l <= Floor(e) \/ l \in missed[r].for_good \cup missed[r].during
    BY DEF Heard
  <2>1. l \in Nat
    <3>1. n \in 1..Len(log)
      BY <1>1
    <3>2. log[n].ops \in Seq(Ops)
      BY <1>1, <3>1, TxFacts
    <3> QED
      BY <3>2, LamportFacts
  <2>2. /\ l <= l0 \/ l \in missed[r].for_good
        /\ l <= Floor(m) \/ l \in missed[r].for_good \cup missed[r].during
    BY <1>3 DEF Heard, l0
  <2> QED
    BY <1>5, <1>7, <2>1, <2>2
<1>13. Valued(e, log, r, pulled[r])
  <2> DEFINE a == OthersUpto(log, r, pulled[r])
             b == AllUpto(m.buf.txs, Len(m.buf.txs))
             c == DeltaOf(m.pending)
             x == a + (b + c)
  <2>1. a \in Int
    <3>1. pulled[r] \in 0..Len(log)
      BY <1>1
    <3> QED
      BY <1>1, <3>1, UptoSteps
  <2>2. b \in Int
    <3>1. Len(m.buf.txs) \in 0..Len(m.buf.txs)
      BY <1>7
    <3> QED
      BY <1>7, <3>1, UptoSteps
  <2>3. c \in Int /\ DeltaOf(e.pending) = c + delta
    BY <1>5, <1>6, <1>7, DeltaSteps
  <2>4. m.value = Wrap(x)
    BY <1>3 DEF Valued
  <2> HIDE DEF a, b, c
  <2>5. x \in Int /\ x + delta = a + (b + (c + delta))
    BY <1>4, <2>1, <2>2, <2>3
  <2> HIDE DEF x
  <2>6. Wrap(Wrap(x) + delta) = Wrap(x + delta)
    BY <1>4, <2>5, WrapAdd
  <2>7. e.value = Wrap(a + (b + DeltaOf(e.pending)))
    BY <1>5, <2>3, <2>4, <2>5, <2>6
  <2> QED
    BY <1>5, <2>7 DEF Valued, a, b
<1> QED
  BY <1>2, <1>5, <1>8, <1>9, <1>10, <1>11, <1>12, <1>13, OwnStep

(* A committed transaction: the replica after it. *)
Committed(m, e, r, tx) ==
    tx = PendingTx(r, m) /\ e = [m EXCEPT !.buf = Enqueue(m.buf, tx), !.pending = <<>>]

LEMMA CommitEffect ==
    ASSUME NEW m \in Reps, NEW r \in Replicas, NEW tx, NEW e, Committed(m, e, r, tx)
    PROVE  /\ tx \in Txs /\ tx.cuid = r /\ tx.ops = m.pending
           /\ e \in Reps /\ e.buf.txs = Append(m.buf.txs, tx) /\ e.pending = <<>>
           /\ e.value = m.value /\ e.opId = m.opId /\ e.rollback = m.rollback
<1>1. /\ m.rollback.cseq \in Nat /\ m.pending \in Seq(Ops) /\ m.buf \in Buffers
      /\ m.buf.txs \in Seq(Txs) /\ m.buf.mem_size \in Nat /\ m.buf.first_cseq \in Nat
  BY RepFacts DEF Buffers
<1>2. tx \in Txs /\ tx.cuid = r /\ tx.ops = m.pending /\ tx.cseq \in Nat
  BY <1>1 DEF PendingTx, Txs, Committed
<1>3. TxSize(tx) \in Nat
  BY <1>1, <1>2 DEF TxSize
<1> DEFINE b == Enqueue(m.buf, tx)
<1>4. Append(m.buf.txs, tx) \in Seq(Txs)
  BY <1>1, <1>2
<1>5. b \in Buffers /\ b.txs = Append(m.buf.txs, tx)
  BY <1>1, <1>2, <1>3, <1>4 DEF Enqueue, Buffers
<1>6. e = [m EXCEPT !.buf = b, !.pending = <<>>] /\ <<>> \in Seq(Ops)
  BY DEF Committed
<1> HIDE DEF b
<1>7. e \in Reps
  BY <1>5, <1>6 DEF Reps
<1>8. /\ e.buf = b /\ e.pending = <<>> /\ e.value = m.value /\ e.opId = m.opId
      /\ e.rollback = m.rollback
  BY <1>6 DEF Reps
<1> QED
  BY <1>2, <1>5, <1>7, <1>8

LEMMA CommitInv ==
    ASSUME LocalInv, NEW r \in Replicas, Commit(r)
    PROVE  LocalInv'
<1> DEFINE m == rep[r]
           tx == PendingTx(r, m)
           e == [m EXCEPT !.buf = Enqueue(m.buf, tx), !.pending = <<>>]
           txs == m.buf.txs
           L == Len(txs)
<1>1. /\ m \in Reps /\ pulled[r] \in Nat /\ pulled[r] <= Len(log) /\ log \in Seq(Txs)
      /\ Len(log) \in Nat
  BY ShapeFacts DEF LocalInv
<1>2. ReplicaInv(r) /\ m.pending # <<>> /\ r \in joined
  BY DEF LocalInv, Commit, ReplicaInv
<1>3. Stamped(m, r) /\ Logged(log, r, pulled[r], txs) /\ Heard(m, log, pulled[r], missed[r])
      /\ Valued(m, log, r, pulled[r])
  BY <1>2 DEF ReplicaInv
<1>4. /\ tx \in Txs /\ tx.cuid = r /\ tx.ops = m.pending
      /\ e \in Reps /\ e.buf.txs = Append(txs, tx) /\ e.pending = <<>>
      /\ e.value = m.value /\ e.opId = m.opId /\ e.rollback = m.rollback
  <2>1. Committed(m, e, r, tx)
    BY DEF Committed
  <2>2. txs = m.buf.txs
    OBVIOUS
  <2> HIDE DEF m, tx, e, txs
  <2>3. /\ tx \in Txs /\ tx.cuid = r /\ tx.ops = m.pending
        /\ e \in Reps /\ e.buf.txs = Append(m.buf.txs, tx) /\ e.pending = <<>>
        /\ e.value = m.value /\ e.opId = m.opId /\ e.rollback = m.rollback
    BY ONLY <1>1, <2>1, CommitEffect, r \in Replicas
  <2> QED
    BY ONLY <2>2, <2>3
<1>5. /\ txs \in Seq(Txs) /\ L \in Nat /\ m.pending \in Seq(Ops) /\ m.opId.lamport \in Nat
      /\ m.rollback.lamport \in Nat
  BY <1>1, RepFacts
<1>6. /\ rep' = [rep EXCEPT ![r] = e] /\ log' = log /\ joined' = joined /\ pulled' = pulled
      /\ budget' = budget /\ missed' = [missed EXCEPT ![r].during = {}]
  <2>1. rep' = [rep EXCEPT ![r].buf = Enqueue(@, tx), ![r].pending = <<>>]
    BY DEF Commit
  <2>2. rep \in [Replicas -> Reps]
    BY DEF LocalInv, Shape
  <2>3. rep' = [rep EXCEPT ![r] = e]
    BY <2>1, <2>2 DEF Reps
  <2> QED
    BY <2>3 DEF Commit
<1>7. /\ missed' \in [Replicas -> [during : SUBSET Nat, for_good : SUBSET Nat]]
      /\ \A d \in Replicas \ {r} : missed'[d] = missed[d]
      /\ missed'[r].for_good = missed[r].for_good
      /\ budget' \in [Replicas -> Nat]
  <2>1. /\ missed \in [Replicas -> [during : SUBSET Nat, for_good : SUBSET Nat]]
        /\ budget \in [Replicas -> Nat]
    BY DEF LocalInv, Shape
  <2>2. missed[r] \in [during : SUBSET Nat, for_good : SUBSET Nat]
    BY <2>1
  <2> QED
    BY <1>6, <2>1, <2>2
<1>8. /\ Len(e.buf.txs) = L + 1 /\ e.buf.txs[L + 1] = tx
      /\ \A i \in 1..L : e.buf.txs[i] = txs[i]
      /\ \A i \in 1..(L + 1) : i \in 1..L \/ i = L + 1
  BY <1>4, <1>5
<1>9. /\ Floor(e) = m.opId.lamport /\ Floor(m) = m.rollback.lamport
      /\ Floor(m) <= m.opId.lamport
  BY <1>2, <1>3, <1>4 DEF Floor, Stamped
<1> DEFINE more == e.buf.txs
<1> HIDE DEF m, tx, e, txs, L
<1>10. LamportsOf(m.pending) \subseteq Nat /\ \A i \in 1..L : LamportsOf(txs[i].ops) \subseteq Nat
  BY <1>5, TxFacts, LamportFacts DEF L
<1>11. \A l \in LamportsOf(tx.ops) : Floor(m) < l /\ l <= m.opId.lamport
  BY <1>3, <1>4 DEF Stamped
<1>12. /\ Growing(tx.ops) /\ TxsGrowing(txs)
       /\ \A i \in 1..L : /\ txs[i].cuid = r /\ Growing(txs[i].ops)
                          /\ \A l \in LamportsOf(txs[i].ops) : l <= Floor(m)
  BY <1>3, <1>4 DEF Stamped, txs, L
<1>13. Stamped(e, r)
  <2>1. ASSUME NEW i \in 1..(L + 1)
        PROVE  /\ more[i].cuid = r /\ Growing(more[i].ops)
               /\ \A l \in LamportsOf(more[i].ops) : l <= Floor(e)
    <3>1. CASE i = L + 1
      BY <1>4, <1>8, <1>9, <1>11, <1>12, <3>1
    <3>2. CASE i # L + 1
      <4>1. i \in 1..L /\ more[i] = txs[i]
        BY <1>8, <3>2
      <4>2. \A l \in LamportsOf(txs[i].ops) : l \in Nat /\ l <= Floor(m)
        BY <1>10, <1>12, <4>1
      <4>3. \A l \in LamportsOf(txs[i].ops) : l <= Floor(e)
        BY <1>5, <1>9, <4>2
      <4> QED
        BY <1>12, <4>1, <4>3
    <3> QED
      BY <3>1, <3>2
  <2>2. TxsGrowing(more)
    <3> SUFFICES ASSUME NEW a \in 1..(L + 1), NEW b \in 1..(L + 1), a < b,
                        NEW k \in LamportsOf(more[a].ops), NEW l \in LamportsOf(more[b].ops)
                 PROVE  k < l
      BY <1>8 DEF TxsGrowing
    <3>1. a \in 1..L /\ more[a] = txs[a]
      <4>1. a \in 1..L
        BY <1>5
      <4> QED
        BY <1>8, <4>1
    <3>2. CASE b = L + 1
      <4>1. more[b] = tx
        BY <1>8, <3>2
      <4>2. k <= Floor(m) /\ k \in Nat
        BY <1>10, <1>12, <3>1
      <4>3. Floor(m) < l /\ l \in Nat
        BY <1>4, <1>10, <1>11, <4>1
      <4> QED
        BY <1>5, <1>9, <4>2, <4>3
    <3>3. CASE b # L + 1
      <4>1. b \in 1..L /\ more[b] = txs[b]
        BY <1>8, <3>3
      <4> QED
        BY <1>12, <3>1, <4>1 DEF TxsGrowing, L
    <3> QED
      BY <3>2, <3>3
  <2>3. Growing(<<>>) /\ LamportsOf(<<>>) = {}
    <3>1. <<>> \in Seq(Ops) /\ Len(<<>>) = 0
      OBVIOUS
    <3>2. LamportsOf(<<>>) = {}
      BY <3>1, LamportFacts
    <3> QED
      BY <3>1, <3>2 DEF Growing
  <2>4. Floor(e) <= e.opId.lamport
    BY <1>4, <1>5, <1>9
  <2> QED
    BY <1>4, <1>8, <2>1, <2>2, <2>3, <2>4 DEF Stamped
<1>14. Logged(log, r, pulled[r], more)
  <2>1. OwnCount(log, r, Len(log)) \in Nat /\ \A n \in 1..Len(log) : OwnCount(log, r, n) \in Nat
    <3>1. \A n \in Nat : OwnCount(log, r, n) \in Nat
      BY OwnCountSteps
    <3>2. \A n \in 1..Len(log) : n \in Nat
      BY <1>1
    <3> QED
      BY <1>1, <3>1, <3>2
  <2>2. /\ OwnCount(log, r, pulled[r]) = OwnCount(log, r, Len(log))
        /\ OwnCount(log, r, Len(log)) <= L
        /\ \A n \in 1..Len(log) : IsOwn(r, log[n]) =>
              OwnCount(log, r, n) <= L /\ log[n] = txs[OwnCount(log, r, n)]
    BY <1>3 DEF Logged, L
  <2>3. OwnCount(log, r, Len(log)) <= L + 1
    BY <1>5, <2>1, <2>2
  <2>4. ASSUME NEW n \in 1..Len(log), IsOwn(r, log[n])
        PROVE  OwnCount(log, r, n) <= L + 1 /\ log[n] = more[OwnCount(log, r, n)]
    <3> DEFINE k == OwnCount(log, r, n)
               i == n - 1
    <3>1. k \in Nat /\ k <= L /\ log[n] = txs[k]
      BY <2>1, <2>2, <2>4
    <3>2. k # 0
      <4>1. i \in Nat /\ i + 1 = n
        BY <1>1
      <4> HIDE DEF i
      <4>2. IsOwn(r, log[i + 1]) /\ k = OwnCount(log, r, i + 1)
        BY <2>4, <4>1
      <4>3. OwnCount(log, r, i) \in Nat /\ OwnCount(log, r, i + 1) = OwnCount(log, r, i) + 1
        BY <4>1, <4>2, OwnCountSteps
      <4> HIDE DEF k
      <4> QED
        BY <4>2, <4>3
    <3> HIDE DEF k
    <3>3. k \in 1..L /\ k <= L + 1
      BY <1>5, <3>1, <3>2
    <3> QED
      BY <1>8, <3>1, <3>3 DEF k
  <2> QED
    BY <1>8, <2>2, <2>3, <2>4 DEF Logged
<1>15. Heard(e, log, pulled[r], missed'[r])
  BY <1>3, <1>4, <1>7, <1>9 DEF Heard
<1>16. Valued(e, log, r, pulled[r])
  <2>1. more \in Seq(Txs) /\ Len(more) = L + 1
    BY <1>4, <1>5, <1>8
  <2>2. AllUpto(more, L) = AllUpto(txs, L)
    <3>1. Agree(more, txs, L)
      BY <1>8 DEF Agree
    <3> HIDE DEF more
    <3> QED
      BY <1>5, <3>1, PrefixSame
  <2>3. /\ AllUpto(more, L) \in Int /\ DeltaOf(more[L + 1].ops) \in Int
        /\ AllUpto(more, L + 1) = AllUpto(more, L) + DeltaOf(more[L + 1].ops)
    <3>1. L \in 0..Len(more) /\ L + 1 <= Len(more)
      BY <1>5, <2>1
    <3> HIDE DEF more
    <3> QED
      BY <2>1, <3>1, UptoSteps
  <2> DEFINE a == OthersUpto(log, r, pulled[r])
             b == AllUpto(txs, L)
             c == DeltaOf(m.pending)
  <2>4. b \in Int /\ c \in Int /\ AllUpto(more, L + 1) = b + c
    BY <1>4, <1>8, <2>2, <2>3
  <2>5. DeltaOf(e.pending) = 0
    <3>1. e.pending = <<>> /\ e.pending \in Seq(Ops)
      BY <1>4
    <3> QED
      BY <3>1, DeltaSteps
  <2>6. m.value = Wrap(a + (b + c))
    BY <1>3 DEF Valued, txs, L
  <2> HIDE DEF a, b, c
  <2>7. (b + c) + 0 = b + c
    BY <2>4
  <2>8. e.value = Wrap(a + (AllUpto(more, L + 1) + DeltaOf(e.pending)))
    BY <1>4, <2>4, <2>5, <2>6, <2>7
  <2> QED
    BY <1>8, <2>8 DEF Valued, a
<1> QED
  BY <1>2, <1>4, <1>6, <1>7, <1>13, <1>14, <1>15, <1>16, OwnStep

LEMMA RollbackInv ==
    ASSUME LocalInv, NEW r \in Replicas, Rollback(r)
    PROVE  LocalInv'
<1> DEFINE m == rep[r]
           e == DoRollback(m)
<1>1. /\ m \in Reps /\ pulled[r] \in Nat /\ pulled[r] <= Len(log) /\ log \in Seq(Txs)
      /\ Len(log) \in Nat
  BY ShapeFacts DEF LocalInv
<1>2. ReplicaInv(r) /\ m.pending # <<>> /\ r \in joined
  BY DEF LocalInv, Rollback, ReplicaInv
<1>3. Stamped(m, r) /\ Logged(log, r, pulled[r], m.buf.txs) /\ Heard(m, log, pulled[r], missed[r])
      /\ Valued(m, log, r, pulled[r])
  BY <1>2 DEF ReplicaInv
<1>4. /\ e \in Reps /\ e.value = Wrap(m.value - DeltaOf(m.pending))
      /\ e.opId = m.rollback /\ e.rollback = m.rollback
      /\ e.buf = m.buf /\ e.pending = <<>>
  BY <1>1, RollbackEffect
<1>5. /\ rep' = [rep EXCEPT ![r] = e] /\ log' = log /\ joined' = joined /\ pulled' = pulled
      /\ budget' = budget
      /\ missed' = [missed EXCEPT ![r] = [during |-> {}, for_good |-> @.for_good \cup @.during]]
  BY DEF Rollback
<1>6. /\ missed' \in [Replicas -> [during : SUBSET Nat, for_good : SUBSET Nat]]
      /\ \A d \in Replicas \ {r} : missed'[d] = missed[d]
      /\ missed'[r].for_good = missed[r].for_good \cup missed[r].during
      /\ budget' \in [Replicas -> Nat]
  <2>1. /\ missed \in [Replicas -> [during : SUBSET Nat, for_good : SUBSET Nat]]
        /\ budget \in [Replicas -> Nat]
    BY DEF LocalInv, Shape
  <2>2. missed[r] \in [during : SUBSET Nat, for_good : SUBSET Nat]
    BY <2>1
  <2> QED
    BY <1>5, <2>1, <2>2
<1> HIDE DEF m, e
<1>7. Floor(e) = m.rollback.lamport /\ Floor(m) = m.rollback.lamport /\ m.rollback.lamport \in Nat
  BY <1>1, <1>2, <1>4, RepFacts DEF Floor
<1>8. Stamped(e, r)
  <2>1. Growing(<<>>) /\ LamportsOf(<<>>) = {}
    <3>1. <<>> \in Seq(Ops) /\ Len(<<>>) = 0
      OBVIOUS
    <3>2. LamportsOf(<<>>) = {}
      BY <3>1, LamportFacts
    <3> QED
      BY <3>1, <3>2 DEF Growing
  <2>2. Floor(e) <= e.opId.lamport
    BY <1>4, <1>7
  <2> QED
    BY <1>3, <1>4, <1>7, <2>1, <2>2 DEF Stamped
<1>9. Heard(e, log, pulled[r], missed'[r])
  BY <1>3, <1>4, <1>6, <1>7 DEF Heard
<1>10. Valued(e, log, r, pulled[r])
  <2> DEFINE a == OthersUpto(log, r, pulled[r])
             b == AllUpto(m.buf.txs, Len(m.buf.txs))
             c == DeltaOf(m.pending)
             x == a + (b + c)
             y == -c
  <2>a. m.buf.txs \in Seq(Txs) /\ m.pending \in Seq(Ops)
    BY <1>1, RepFacts
  <2>1. a \in Int
    <3>1. pulled[r] \in 0..Len(log)
      BY <1>1
    <3> QED
      BY <1>1, <3>1, UptoSteps
  <2>2. b \in Int
    <3>1. Len(m.buf.txs) \in 0..Len(m.buf.txs)
      BY <2>a
    <3> QED
      BY <2>a, <3>1, UptoSteps
  <2>3. c \in Int
    BY <2>a, DeltaSteps
  <2>4. m.value = Wrap(x)
    BY <1>3 DEF Valued
  <2>5. DeltaOf(e.pending) = 0
    <3>1. e.pending = <<>> /\ e.pending \in Seq(Ops)
      BY <1>4
    <3> QED
      BY <3>1, DeltaSteps
  <2>6. e.value = Wrap(m.value - c)
    BY <1>4
  <2> HIDE DEF a, b, c
  <2>7. x \in Int /\ y \in Int /\ x + y = a + (b + 0)
    BY <2>1, <2>2, <2>3
  <2> HIDE DEF x
  <2>8. Wrap(x) \in Int /\ Wrap(Wrap(x) + y) = Wrap(x + y)
    <3> HIDE DEF y
    <3> QED
      BY <2>7, WrapAdd
  <2>9. Wrap(x) - c = Wrap(x) + y
    BY <2>3, <2>8
  <2>10. e.value = Wrap(a + (b + DeltaOf(e.pending)))
    BY <2>4, <2>5, <2>6, <2>7, <2>8, <2>9
  <2> QED
    BY <1>4, <2>10 DEF Valued, a, b
<1> QED
  BY <1>2, <1>3, <1>4, <1>5, <1>6, <1>8, <1>9, <1>10, OwnStep

-----------------------------------------------------------------------------
(* Log g is log h and n transactions of replica r after it. *)
OwnTail(g, h, r, n) ==
    /\ g \in Seq(Txs) /\ h \in Seq(Txs) /\ Len(g) = Len(h) + n
    /\ Agree(g, h, Len(h))
    /\ \A i \in 1..n : IsOwn(r, g[Len(h) + i])

(* They count as the replica's and as nobody else's. *)
LEMMA OwnTailSteps ==
    ASSUME NEW g, NEW h, NEW r, NEW n \in Nat, OwnTail(g, h, r, n)
    PROVE  \A i \in 0..n :
              /\ OwnCount(g, r, Len(h) + i) = OwnCount(h, r, Len(h)) + i
              /\ OthersUpto(g, r, Len(h) + i) = OthersUpto(h, r, Len(h))
              /\ \A d : d # r => OwnCount(g, d, Len(h) + i) = OwnCount(h, d, Len(h))
<1> DEFINE L == Len(h)
           A(i) == OwnCount(g, r, L + i) = OwnCount(h, r, L) + i
           B(i) == OthersUpto(g, r, L + i) = OthersUpto(h, r, L)
           C(i) == \A d : d # r => OwnCount(g, d, L + i) = OwnCount(h, d, L)
           S == {i \in Nat : i <= n => A(i) /\ B(i) /\ C(i)}
<1>1. L \in Nat /\ g \in Seq(Txs) /\ Len(g) = L + n /\ Agree(g, h, L)
  BY DEF OwnTail
<1>2. \A i \in 1..n : IsOwn(r, g[L + i])
  BY DEF OwnTail
<1> HIDE DEF L
<1>3. 0 \in S
  <2>1. L + 0 = L /\ OwnCount(h, r, L) \in Nat
    <3>1. L + 0 = L
      BY <1>1
    <3> QED
      BY <1>1, <3>1, OwnCountSteps
  <2>2. OwnCount(h, r, L) + 0 = OwnCount(h, r, L)
    BY <2>1
  <2>3. \A d : /\ OwnCount(g, d, L) = OwnCount(h, d, L)
               /\ OthersUpto(g, d, L) = OthersUpto(h, d, L)
    BY <1>1, PrefixSame
  <2>4. A(0) /\ B(0) /\ C(0)
    BY <2>1, <2>2, <2>3
  <2> HIDE DEF A, B, C
  <2> QED
    BY <2>4
<1>4. ASSUME NEW i \in Nat, i \in S PROVE i + 1 \in S
  <2> SUFFICES ASSUME i + 1 <= n PROVE A(i + 1) /\ B(i + 1) /\ C(i + 1)
    <3> HIDE DEF A, B, C
    <3> QED
      OBVIOUS
  <2>1. A(i) /\ B(i) /\ C(i)
    <3>1. i <= n
      OBVIOUS
    <3> HIDE DEF A, B, C
    <3> QED
      BY <1>4, <3>1
  <2> DEFINE k == L + i
  <2>2. k \in Nat /\ L + (i + 1) = k + 1 /\ k \in 0..Len(g) /\ k + 1 <= Len(g)
    BY <1>1
  <2>3. IsOwn(r, g[k + 1]) /\ \A d : d # r => ~IsOwn(d, g[k + 1])
    <3>1. i + 1 \in 1..n
      OBVIOUS
    <3>2. IsOwn(r, g[L + (i + 1)])
      BY <1>2, <3>1
    <3>3. IsOwn(r, g[k + 1])
      BY <2>2, <3>2
    <3> QED
      BY <3>3 DEF IsOwn
  <2>4. /\ OwnCount(g, r, k) = OwnCount(h, r, L) + i
        /\ OthersUpto(g, r, k) = OthersUpto(h, r, L)
        /\ \A d : d # r => OwnCount(g, d, k) = OwnCount(h, d, L)
    BY <2>1
  <2> HIDE DEF k
  <2>5. OwnCount(g, r, k + 1) = OwnCount(g, r, k) + 1 /\ OwnCount(h, r, L) \in Nat
    BY <1>1, <2>2, <2>3, OwnCountSteps
  <2>6. \A d : d # r => OwnCount(g, d, k + 1) = OwnCount(g, d, k)
    BY <2>2, <2>3, OwnCountSteps
  <2>7. OthersUpto(g, r, k + 1) = OthersUpto(g, r, k) + 0 /\ OthersUpto(g, r, k) \in Int
    BY <1>1, <2>2, <2>3, UptoSteps
  <2>8. A(i + 1)
    <3> DEFINE x == OwnCount(h, r, L)
               y == OwnCount(g, r, k)
    <3>1. y = x + i /\ x \in Nat /\ OwnCount(g, r, k + 1) = y + 1
      BY <2>4, <2>5
    <3> HIDE DEF x, y
    <3>2. OwnCount(g, r, k + 1) = x + (i + 1)
      BY <3>1
    <3> QED
      BY <2>2, <3>2 DEF x
  <2>9. B(i + 1)
    BY <2>2, <2>4, <2>7
  <2>10. C(i + 1)
    BY <2>2, <2>4, <2>6
  <2> QED
    BY <2>8, <2>9, <2>10
<1> HIDE DEF S
<1>5. \A i \in Nat : i \in S
  BY <1>3, <1>4, NaturalSteps
<1>6. ASSUME NEW i \in 0..n PROVE A(i) /\ B(i) /\ C(i)
  <2>1. i \in S /\ i <= n
    BY <1>5
  <2> HIDE DEF A, B, C
  <2> QED
    BY <2>1 DEF S
<1> QED
  BY <1>6 DEF L

(* What an exchange appends to the log: those of the replica's transactions *)
(* that are not in it yet.                                                  *)
Pushes(g, h, r, txs, k, n) ==
    /\ g = h \o SubSeq(txs, k + 1, Len(txs)) /\ k <= Len(txs) /\ n = Len(txs) - k
    /\ \A i \in 1..Len(txs) : txs[i].cuid = r

Continues(g, h, txs, k, n) == \A i \in 1..n : g[Len(h) + i] = txs[k + i]

LEMMA PushedTail ==
    ASSUME NEW h \in Seq(Txs), NEW r, NEW txs \in Seq(Txs), NEW k \in Nat, NEW g,
           NEW n, Pushes(g, h, r, txs, k, n)
    PROVE  n \in Nat /\ OwnTail(g, h, r, n) /\ Continues(g, h, txs, k, n)
<1> DEFINE L == Len(h)
           T == Len(txs)
           t == SubSeq(txs, k + 1, T)
<1>1. L \in Nat /\ T \in Nat /\ n \in Nat /\ n = T - k
  BY DEF Pushes
<1>2. t \in Seq(Txs) /\ Len(t) = n /\ \A i \in 1..n : t[i] = txs[k + i]
  <2>1. \A i \in (k + 1)..T : txs[i] \in Txs
    OBVIOUS
  <2>2. /\ Len(t) = IF k + 1 <= T THEN T - (k + 1) + 1 ELSE 0
        /\ \A i \in 1..(T - (k + 1) + 1) : t[i] = txs[k + 1 + i - 1]
        /\ t \in Seq(Txs)
    BY <1>1, <2>1
  <2>3. T - (k + 1) + 1 = n /\ (~(k + 1 <= T) => n = 0)
    BY <1>1
  <2>4. \A i \in 1..n : k + 1 + i - 1 = k + i
    BY <1>1
  <2> HIDE DEF t, T
  <2> QED
    BY <2>2, <2>3, <2>4
<1> HIDE DEF t
<1>3. /\ g \in Seq(Txs) /\ Len(g) = L + n /\ (\A i \in 1..L : g[i] = h[i])
      /\ \A i \in 1..n : g[L + i] = t[i]
  <2>1. g = h \o t
    BY DEF t, Pushes
  <2>2. /\ g \in Seq(Txs) /\ Len(g) = L + n
        /\ \A i \in 1..(L + n) : g[i] = IF i <= L THEN h[i] ELSE t[i - L]
    <3>1. h \in Seq(Txs) /\ t \in Seq(Txs) /\ Len(t) = n /\ Len(h) = L
      BY <1>2
    <3>2. /\ h \o t \in Seq(Txs) /\ Len(h \o t) = Len(h) + Len(t)
          /\ \A i \in 1..(Len(h) + Len(t)) :
                (h \o t)[i] = IF i <= Len(h) THEN h[i] ELSE t[i - Len(h)]
      BY ONLY <3>1, ConcatProperties
    <3> QED
      BY ONLY <2>1, <3>1, <3>2
  <2>3. \A i \in 1..L : i \in 1..(L + n) /\ i <= L
    BY <1>1
  <2>4. \A i \in 1..n : L + i \in 1..(L + n) /\ ~(L + i <= L) /\ (L + i) - L = i
    BY <1>1
  <2> HIDE DEF L
  <2>5. \A i \in 1..L : g[i] = h[i]
    BY <2>2, <2>3
  <2>6. \A i \in 1..n : g[L + i] = t[i]
    BY <2>2, <2>4
  <2> QED
    BY <2>2, <2>5, <2>6
<1>4. \A i \in 1..n : g[L + i] = txs[k + i]
  BY <1>2, <1>3
<1>5. \A i \in 1..n : IsOwn(r, g[L + i])
  <2>1. \A i \in 1..n : k + i \in 1..Len(txs)
    BY <1>1
  <2> QED
    BY <1>4, <2>1 DEF IsOwn, Pushes
<1>6. OwnTail(g, h, r, n)
  BY <1>3, <1>5 DEF OwnTail, Agree
<1> QED
  BY <1>1, <1>4, <1>6 DEF Continues

LEMMA AgreeLess ==
    ASSUME NEW g, NEW h, NEW L \in Nat, Agree(g, h, L), NEW p \in Nat, p <= L
    PROVE  Agree(g, h, p)
<1>1. \A i \in 1..p : i \in 1..L
  OBVIOUS
<1> QED
  BY <1>1 DEF Agree

(* A replica's transaction has a place among them. *)
LEMMA OwnPlace ==
    ASSUME NEW h, NEW r, NEW n \in Nat \ {0}, IsOwn(r, h[n])
    PROVE  OwnCount(h, r, n) \in Nat \ {0}
<1> DEFINE i == n - 1
<1>1. i \in Nat /\ i + 1 = n
  OBVIOUS
<1> HIDE DEF i
<1>2. IsOwn(r, h[i + 1])
  BY <1>1
<1>3. OwnCount(h, r, i) \in Nat /\ OwnCount(h, r, i + 1) = OwnCount(h, r, i) + 1
  BY <1>1, <1>2, OwnCountSteps
<1> DEFINE x == OwnCount(h, r, i)
           y == OwnCount(h, r, i + 1)
<1>4. x \in Nat /\ y = x + 1 /\ y = OwnCount(h, r, n)
  BY <1>1, <1>3
<1> HIDE DEF x, y
<1> QED
  BY <1>4

(* A longer log does not matter for what a replica has pulled. *)
LEMMA Prolonged ==
    ASSUME NEW g, NEW h, NEW p \in Nat, Agree(g, h, p), NEW m, NEW d, NEW gone
    PROVE  /\ Heard(m, h, p, gone) => Heard(m, g, p, gone)
           /\ Valued(m, h, d, p) => Valued(m, g, d, p)
<1>1. OthersUpto(g, d, p) = OthersUpto(h, d, p)
  BY PrefixSame
<1>2. Valued(m, h, d, p) => Valued(m, g, d, p)
  BY <1>1 DEF Valued
<1>3. Heard(m, h, p, gone) => Heard(m, g, p, gone)
  BY DEF Heard, Agree
<1> QED
  BY <1>2, <1>3

(* Another replica's transactions at the end of the log. *)
LEMMA LoggedElsewhere ==
    ASSUME NEW g, NEW h, NEW r, NEW n \in Nat, OwnTail(g, h, r, n), NEW d, d # r,
           NEW p \in Nat, p <= Len(h), NEW txs, Logged(h, d, p, txs)
    PROVE  Logged(g, d, p, txs)
<1> DEFINE L == Len(h)
<1>1. L \in Nat /\ Len(g) = L + n /\ Agree(g, h, L) /\ \A i \in 1..n : IsOwn(r, g[L + i])
  BY DEF OwnTail
<1>2. n \in 0..n
  OBVIOUS
<1>3. OwnCount(g, d, L + n) = OwnCount(h, d, L)
  BY <1>2, OwnTailSteps
<1>4. OwnCount(g, d, p) = OwnCount(h, d, p)
  <2>1. Agree(g, h, p)
    BY <1>1, AgreeLess
  <2> QED
    BY <2>1, PrefixSame
<1>5. /\ OwnCount(h, d, p) = OwnCount(h, d, L) /\ OwnCount(h, d, L) <= Len(txs)
      /\ \A k \in 1..L : IsOwn(d, h[k]) =>
            OwnCount(h, d, k) <= Len(txs) /\ h[k] = txs[OwnCount(h, d, k)]
  BY DEF Logged
<1> HIDE DEF L
<1>6. ASSUME NEW k \in 1..(L + n), IsOwn(d, g[k])
      PROVE  OwnCount(g, d, k) <= Len(txs) /\ g[k] = txs[OwnCount(g, d, k)]
  <2>1. CASE k <= L
    <3>1. k \in Nat /\ k \in 1..L
      BY <1>1, <2>1
    <3>2. Agree(g, h, k)
      BY <1>1, <2>1, <3>1, AgreeLess
    <3>3. OwnCount(g, d, k) = OwnCount(h, d, k)
      BY <3>1, <3>2, PrefixSame
    <3>4. g[k] = h[k]
      BY <1>1, <3>1 DEF Agree
    <3> QED
      BY <1>5, <1>6, <3>1, <3>3, <3>4
  <2>2. CASE ~(k <= L)
    <3> DEFINE i == k - L
    <3>1. i \in 1..n /\ L + i = k
      BY <1>1, <2>2
    <3> HIDE DEF i
    <3>2. IsOwn(r, g[k])
      BY <1>1, <3>1
    <3> QED
      BY <1>6, <3>2 DEF IsOwn
  <2> QED
    BY <2>1, <2>2
<1> QED
  BY <1>1, <1>3, <1>4, <1>5, <1>6 DEF Logged, L

(* After an exchange the log has all of the replica's transactions. *)
LEMMA LoggedAll ==
    ASSUME NEW g, NEW h, NEW r, NEW n \in Nat, OwnTail(g, h, r, n), NEW p, NEW txs,
           Len(txs) \in Nat, Logged(h, r, p, txs),
           n = Len(txs) - OwnCount(h, r, Len(h)),
           \A i \in 1..n : g[Len(h) + i] = txs[OwnCount(h, r, Len(h)) + i]
    PROVE  Logged(g, r, Len(g), txs)
<1> DEFINE L == Len(h)
           c == OwnCount(h, r, L)
           T == Len(txs)
<1>1. L \in Nat /\ Len(g) = L + n /\ Agree(g, h, L)
  BY DEF OwnTail
<1>2. \A i \in 0..n : OwnCount(g, r, L + i) = c + i
  BY OwnTailSteps
<1>3. c \in Nat
  BY <1>1, OwnCountSteps
<1>4. /\ n = T - c /\ T \in Nat /\ \A i \in 1..n : g[L + i] = txs[c + i]
  OBVIOUS
<1>5. \A k \in 1..L : IsOwn(r, h[k]) =>
            OwnCount(h, r, k) <= T /\ h[k] = txs[OwnCount(h, r, k)]
  BY DEF Logged
<1> HIDE DEF L, c, T
<1>6. OwnCount(g, r, L + n) = T
  <2>1. n \in 0..n /\ c + n = T
    BY <1>3, <1>4
  <2> QED
    BY <1>2, <2>1
<1>7. ASSUME NEW k \in 1..(L + n), IsOwn(r, g[k])
      PROVE  OwnCount(g, r, k) <= T /\ g[k] = txs[OwnCount(g, r, k)]
  <2>1. CASE k <= L
    <3>1. k \in Nat /\ k \in 1..L
      BY <1>1, <2>1
    <3>2. Agree(g, h, k)
      BY <1>1, <2>1, <3>1, AgreeLess
    <3>3. OwnCount(g, r, k) = OwnCount(h, r, k)
      BY <3>1, <3>2, PrefixSame
    <3>4. g[k] = h[k]
      BY <1>1, <3>1 DEF Agree
    <3> QED
      BY <1>5, <1>7, <3>1, <3>3, <3>4
  <2>2. CASE ~(k <= L)
    <3> DEFINE i == k - L
    <3>1. i \in 1..n /\ L + i = k /\ i \in 0..n /\ c + i <= T
      BY <1>1, <1>3, <1>4, <2>2
    <3> HIDE DEF i
    <3>2. OwnCount(g, r, k) = c + i /\ g[k] = txs[c + i]
      BY <1>2, <1>4, <3>1
    <3> QED
      BY <3>1, <3>2
  <2> QED
    BY <2>1, <2>2
<1>8. T <= T
  BY <1>4
<1> QED
  BY <1>1, <1>6, <1>7, <1>8 DEF Logged, T

(* Executing what others did does not disturb the stamps of a replica. *)
LEMMA CaughtStamped ==
    ASSUME NEW m \in Reps, NEW e, Caught(m, e), NEW r, Stamped(m, r)
    PROVE  /\ Stamped(e, r) /\ Floor(m) \in Nat /\ Floor(e) \in Nat /\ Floor(m) <= Floor(e)
           /\ (m.pending = <<>> => Floor(e) = e.opId.lamport)
<1>1. /\ e \in Reps /\ e.buf = m.buf /\ e.pending = m.pending /\ e.rollback = m.rollback
      /\ m.opId.lamport <= e.opId.lamport
  BY DEF Caught
<1>2. /\ m.opId.lamport \in Nat /\ e.opId.lamport \in Nat /\ m.rollback.lamport \in Nat
      /\ m.pending \in Seq(Ops) /\ m.buf.txs \in Seq(Txs)
  BY <1>1, RepFacts
<1>3. /\ Floor(m) \in Nat /\ Floor(e) \in Nat /\ Floor(m) <= Floor(e)
      /\ (m.pending = <<>> => Floor(e) = e.opId.lamport)
      /\ (m.pending # <<>> => Floor(e) = Floor(m))
      /\ Floor(e) <= e.opId.lamport
  <2>1. Floor(m) <= m.opId.lamport
    BY DEF Stamped
  <2> QED
    BY <1>1, <1>2, <2>1 DEF Floor
<1>4. ASSUME NEW i \in 1..Len(m.buf.txs)
      PROVE  /\ m.buf.txs[i].cuid = r /\ Growing(m.buf.txs[i].ops)
             /\ \A l \in LamportsOf(m.buf.txs[i].ops) : l <= Floor(e)
  <2>1. LamportsOf(m.buf.txs[i].ops) \subseteq Nat
    BY <1>2, TxFacts, LamportFacts
  <2>2. /\ m.buf.txs[i].cuid = r /\ Growing(m.buf.txs[i].ops)
        /\ \A l \in LamportsOf(m.buf.txs[i].ops) : l <= Floor(m)
    BY DEF Stamped
  <2>3. \A l \in LamportsOf(m.buf.txs[i].ops) : l <= Floor(e)
    BY <1>3, <2>1, <2>2
  <2> QED
    BY <2>2, <2>3
<1>5. ASSUME NEW l \in LamportsOf(m.pending) PROVE Floor(e) < l /\ l <= e.opId.lamport
  <2>1. m.pending # <<>> /\ l \in Nat
    BY <1>2, LamportFacts
  <2>2. Floor(m) < l /\ l <= m.opId.lamport
    BY DEF Stamped
  <2> QED
    BY <1>1, <1>2, <1>3, <2>1, <2>2
<1>6. TxsGrowing(m.buf.txs) /\ Growing(m.pending)
  BY DEF Stamped
<1>7. Stamped(e, r)
  BY <1>1, <1>3, <1>4, <1>5, <1>6 DEF Stamped
<1> QED
  BY <1>3, <1>7

(* What an exchange leaves of a replica's clock: everything in the log is   *)
(* not ahead of it, but for what `missed` says.                             *)
NotAhead(h, r, p, m, e, now) ==
    \A k \in 1..Len(h) : k > p /\ ~IsOwn(r, h[k]) =>
       \A l \in LamportsOf(h[k].ops) :
          l <= e.opId.lamport /\ (m.pending = <<>> \/ l \in now.during)

LEMMA HeardAll ==
    ASSUME NEW m \in Reps, NEW e, Caught(m, e), NEW r, Stamped(m, r),
           NEW h, NEW g, NEW n \in Nat, OwnTail(g, h, r, n), NEW p \in Nat, p <= Len(h),
           Logged(g, r, Len(g), m.buf.txs), NEW gone, NEW now,
           Heard(m, h, p, gone),
           gone.for_good \subseteq now.for_good, gone.during \subseteq now.during,
           NotAhead(h, r, p, m, e, now)
    PROVE  Heard(e, g, Len(g), now)
<1> DEFINE L == Len(h)
           G == Len(g)
           txs == m.buf.txs
<1>1. /\ L \in Nat /\ G = L + n /\ Agree(g, h, L) /\ g \in Seq(Txs)
      /\ \A i \in 1..n : IsOwn(r, g[L + i])
  BY DEF OwnTail
<1>2. /\ e \in Reps /\ m.opId.lamport <= e.opId.lamport
      /\ m.opId.lamport \in Nat /\ e.opId.lamport \in Nat /\ txs \in Seq(Txs) /\ Len(txs) \in Nat
  BY RepFacts DEF Caught
<1>3. /\ Floor(m) \in Nat /\ Floor(e) \in Nat /\ Floor(m) <= Floor(e)
      /\ (m.pending = <<>> => Floor(e) = e.opId.lamport)
      /\ Floor(e) <= e.opId.lamport
  <2>1. /\ Stamped(e, r) /\ Floor(m) \in Nat /\ Floor(e) \in Nat /\ Floor(m) <= Floor(e)
        /\ (m.pending = <<>> => Floor(e) = e.opId.lamport)
    BY CaughtStamped
  <2> QED
    BY <2>1 DEF Stamped
<1>4. \A k \in 1..L : k > p /\ ~IsOwn(r, h[k]) =>
         \A l \in LamportsOf(h[k].ops) :
            l <= e.opId.lamport /\ (m.pending = <<>> \/ l \in now.during)
  BY DEF NotAhead
<1> HIDE DEF L, G, txs
<1> SUFFICES ASSUME NEW k \in 1..G, NEW l \in LamportsOf(g[k].ops)
             PROVE  /\ l <= e.opId.lamport \/ l \in now.for_good
                    /\ l <= Floor(e) \/ l \in now.for_good \cup now.during
  BY DEF Heard, G
<1>5. l \in Nat /\ k \in Nat /\ k # 0
  <2>1. k \in 1..Len(g)
    BY DEF G
  <2>2. g[k].ops \in Seq(Ops)
    BY <1>1, <2>1, TxFacts
  <2>3. LamportsOf(g[k].ops) \subseteq Nat
    BY <2>2, LamportFacts
  <2> QED
    BY <1>1, <2>3
<1>6. CASE k <= p
  <2>1. k \in 1..L /\ k \in 1..p
    BY <1>1, <1>5, <1>6 DEF L
  <2>2. g[k] = h[k]
    BY <1>1, <2>1 DEF Agree
  <2>3. /\ l <= m.opId.lamport \/ l \in gone.for_good
        /\ l <= Floor(m) \/ l \in gone.for_good \cup gone.during
    BY <2>1, <2>2 DEF Heard
  <2>4. /\ l <= m.opId.lamport => l <= e.opId.lamport
        /\ l <= Floor(m) => l <= Floor(e)
    <3>1. \A x, y \in Nat : x <= y /\ l <= x => l <= y
      BY ONLY <1>5
    <3> QED
      BY ONLY <1>2, <1>3, <3>1
  <2> QED
    BY <2>3, <2>4
<1>7. CASE IsOwn(r, g[k])
  <2> DEFINE c == OwnCount(g, r, k)
  <2>1. c \in Nat \ {0}
    BY <1>5, <1>7, OwnPlace
  <2>2. c <= Len(txs) /\ g[k] = txs[c]
    BY <1>7 DEF Logged, G, txs
  <2> HIDE DEF c
  <2>3. c \in 1..Len(txs)
    BY <1>2, <2>1, <2>2
  <2>4. l <= Floor(m)
    BY <2>2, <2>3 DEF Stamped, txs
  <2>5. l <= Floor(e) /\ l <= e.opId.lamport
    BY <1>2, <1>3, <1>5, <2>4
  <2> QED
    BY <2>5
<1>8. CASE ~(k <= p) /\ ~IsOwn(r, g[k])
  <2>1. k <= L
    <3> SUFFICES ASSUME ~(k <= L) PROVE FALSE
      OBVIOUS
    <3> DEFINE i == k - L
    <3>1. i \in 1..n /\ L + i = k
      BY <1>1, <1>5
    <3> HIDE DEF i
    <3>2. IsOwn(r, g[L + i])
      BY <1>1, <3>1
    <3> QED
      BY <1>8, <3>1, <3>2
  <2>2. k \in 1..L /\ k > p
    BY <1>1, <1>5, <1>8, <2>1
  <2>3. g[k] = h[k]
    BY <1>1, <2>2 DEF Agree
  <2>4. l <= e.opId.lamport /\ (m.pending = <<>> \/ l \in now.during)
    BY <1>4, <1>8, <2>2, <2>3
  <2> QED
    BY <1>3, <2>4
<1> QED
  BY <1>6, <1>7, <1>8

(* ... and of its value. *)
LEMMA ValuedAll ==
    ASSUME NEW m \in Reps, NEW e, Caught(m, e), NEW r, NEW h \in Seq(Txs), NEW g,
           NEW p \in 0..Len(h), Valued(m, h, r, p),
           OthersUpto(g, r, Len(g)) = OthersUpto(h, r, Len(h)),
           e.value = Wrap(m.value + (OthersUpto(h, r, Len(h)) - OthersUpto(h, r, p)))
    PROVE  Valued(e, g, r, Len(g))
<1> DEFINE a == OthersUpto(h, r, p)
           z == OthersUpto(h, r, Len(h))
           b == AllUpto(m.buf.txs, Len(m.buf.txs))
           c == DeltaOf(m.pending)
           x == a + (b + c)
           y == z - a
<1>a. m.buf.txs \in Seq(Txs) /\ m.pending \in Seq(Ops)
  BY RepFacts
<1>1. a \in Int /\ z \in Int
  <2>1. Len(h) \in 0..Len(h)
    OBVIOUS
  <2> QED
    BY <2>1, UptoSteps
<1>2. b \in Int
  <2>1. Len(m.buf.txs) \in 0..Len(m.buf.txs)
    BY <1>a
  <2> QED
    BY <1>a, <2>1, UptoSteps
<1>3. c \in Int
  BY <1>a, DeltaSteps
<1>4. m.value = Wrap(x)
  BY DEF Valued
<1>5. e.value = Wrap(m.value + y) /\ OthersUpto(g, r, Len(g)) = z
  OBVIOUS
<1>6. e.buf = m.buf /\ e.pending = m.pending
  BY DEF Caught
<1>b. z + (AllUpto(e.buf.txs, Len(e.buf.txs)) + DeltaOf(e.pending)) = z + (b + c)
  BY <1>6
<1> HIDE DEF a, b, c, z
<1>7. x \in Int /\ y \in Int /\ x + y = z + (b + c)
  BY <1>1, <1>2, <1>3
<1> HIDE DEF x, y
<1>8. Wrap(Wrap(x) + y) = Wrap(x + y)
  BY <1>7, WrapAdd
<1>9. e.value = Wrap(z + (b + c))
  BY <1>4, <1>5, <1>7, <1>8
<1> QED
  BY <1>5, <1>9, <1>b DEF Valued

(* The transactions of others that came in. *)
LEMMA ReceivedFacts ==
    ASSUME NEW r, NEW p \in Nat, log \in Seq(Txs)
    PROVE  /\ Received(r, p) \subseteq Nat
           /\ \A k \in 1..Len(log) : k > p /\ ~IsOwn(r, log[k]) =>
                 LamportsOf(log[k].ops) \subseteq Received(r, p)
<1> DEFINE K == {k \in (p + 1)..Len(log) : ~IsOwn(r, log[k])}
<1>1. \A k \in K : k \in 1..Len(log)
  BY TxFacts
<1>2. \A k \in K : LamportsOf(log[k].ops) \subseteq Nat
  BY <1>1, TxFacts, LamportFacts
<1>3. \A k \in 1..Len(log) : k > p /\ ~IsOwn(r, log[k]) => k \in K
  BY TxFacts
<1>4. Received(r, p) = UNION {LamportsOf(log[k].ops) : k \in K}
  BY DEF Received
<1> HIDE DEF K
<1> QED
  BY <1>2, <1>3, <1>4

LEMMA ExchangeInv ==
    ASSUME LocalInv, NEW r \in Replicas, Exchange(r)
    PROVE  LocalInv'
<1> DEFINE m == rep[r]
           e == ExecuteOthers(r, pulled[r])
           p == pulled[r]
           txs == m.buf.txs
           L == Len(log)
           c == OwnCount(log, r, L)
           n == Len(txs) - c
           g == log'
<1>1. m \in Reps /\ p \in Nat /\ p <= L /\ log \in Seq(Txs) /\ L \in Nat
  BY ShapeFacts DEF LocalInv
<1>2. ReplicaInv(r) /\ r \in joined
  BY DEF LocalInv, Exchange
<1>3. Stamped(m, r) /\ Logged(log, r, p, txs) /\ Heard(m, log, p, missed[r]) /\ Valued(m, log, r, p)
  BY <1>2 DEF ReplicaInv
<1>4. txs \in Seq(Txs) /\ Len(txs) \in Nat /\ c \in Nat /\ c <= Len(txs)
  <2>1. txs \in Seq(Txs)
    BY <1>1, RepFacts
  <2>2. c \in Nat
    BY <1>1, OwnCountSteps
  <2> QED
    BY <1>3, <2>1, <2>2 DEF Logged
<1>5. /\ rep' = [rep EXCEPT ![r] = e] /\ pulled' = [pulled EXCEPT ![r] = Len(g)]
      /\ joined' = joined /\ budget' = budget
      /\ g = log \o SubSeq(txs, c + 1, Len(txs))
  <2>1. DOMAIN log = 1..L
    BY <1>1
  <2>2. Unpushed(r) = SubSeq(txs, c + 1, Len(txs))
    BY <2>1 DEF Unpushed, OwnCount
  <2> QED
    BY <2>2 DEF Exchange
<1>6. /\ n \in Nat /\ OwnTail(g, log, r, n)
      /\ \A i \in 1..n : g[L + i] = txs[c + i]
  <2>1. \A i \in 1..Len(txs) : txs[i].cuid = r
    BY <1>3 DEF Stamped
  <2>2. Pushes(g, log, r, txs, c, n)
    BY <1>4, <1>5, <2>1 DEF Pushes
  <2> HIDE DEF g, txs, c, n
  <2>a. log \in Seq(Txs) /\ txs \in Seq(Txs) /\ c \in Nat
    BY <1>1, <1>4
  <2>3. n \in Nat /\ OwnTail(g, log, r, n) /\ Continues(g, log, txs, c, n)
    BY ONLY <2>a, <2>2, PushedTail
  <2> QED
    BY <2>3 DEF Continues
<1>7. g \in Seq(Txs) /\ Len(g) = L + n /\ Agree(g, log, L) /\ Len(g) \in Nat /\ p <= Len(g)
  <2>1. g \in Seq(Txs) /\ Len(g) = L + n /\ Agree(g, log, L)
    BY <1>6 DEF OwnTail
  <2> HIDE DEF g, n
  <2> QED
    BY <1>1, <1>6, <2>1
<1>8. /\ Caught(m, e)
      /\ e.value = Wrap(m.value + (OthersUpto(log, r, L) - OthersUpto(log, r, p)))
      /\ \A k \in 1..L : k > p /\ ~IsOwn(r, log[k]) =>
            \A l \in LamportsOf(log[k].ops) : l <= e.opId.lamport
  BY <1>1, RemoteOthers
<1>9. e \in Reps /\ e.buf = m.buf /\ e.pending = m.pending
  BY <1>8 DEF Caught
<1>10. /\ missed' \in [Replicas -> [during : SUBSET Nat, for_good : SUBSET Nat]]
       /\ \A d \in Replicas \ {r} : missed'[d] = missed[d]
       /\ missed[r].for_good \subseteq missed'[r].for_good
       /\ missed[r].during \subseteq missed'[r].during
       /\ m.pending # <<>> => Received(r, p) \subseteq missed'[r].during
  <2>1. missed \in [Replicas -> [during : SUBSET Nat, for_good : SUBSET Nat]]
    BY DEF LocalInv, Shape
  <2>2. missed[r] \in [during : SUBSET Nat, for_good : SUBSET Nat]
    BY <2>1
  <2>3. Received(r, p) \subseteq Nat
    BY <1>1, ReceivedFacts
  <2>4. missed' = IF m.pending = <<>> THEN missed
                  ELSE [missed EXCEPT ![r].during = @ \cup Received(r, p)]
    BY DEF Exchange
  <2> QED
    BY <2>1, <2>2, <2>3, <2>4
<1>11. rep' \in [Replicas -> Reps] /\ rep'[r] = e /\ \A d \in Replicas \ {r} : rep'[d] = rep[d]
  BY <1>5, <1>9 DEF LocalInv, Shape
<1>12. /\ pulled' \in [Replicas -> Nat] /\ pulled'[r] = Len(g)
       /\ \A d \in Replicas \ {r} : pulled'[d] = pulled[d]
  BY <1>5, <1>7 DEF LocalInv, Shape
<1> HIDE DEF m, e, p, txs, L, c, n
<1>13. Shape'
  <2>1. ASSUME NEW d \in Replicas PROVE pulled'[d] <= Len(g)
    <3>1. pulled[d] \in Nat /\ pulled[d] <= L
      BY ShapeFacts DEF LocalInv, L
    <3>2. pulled[d] <= Len(g)
      BY <1>1, <1>6, <1>7, <3>1
    <3>3. Len(g) <= Len(g)
      BY <1>7
    <3> QED
      BY <1>12, <3>2, <3>3
  <2> QED
    BY <1>5, <1>7, <1>10, <1>11, <1>12, <2>1 DEF LocalInv, Shape
<1>14. ASSUME NEW d \in Replicas, d # r PROVE ReplicaInv(d)'
  <2>1. /\ rep'[d] = rep[d] /\ pulled'[d] = pulled[d] /\ missed'[d] = missed[d]
        /\ joined' = joined
    BY <1>5, <1>10, <1>11, <1>12, <1>14
  <2>2. ReplicaInv(d) /\ pulled[d] \in Nat /\ pulled[d] <= Len(log)
    BY ShapeFacts DEF LocalInv
  <2>3. Logged(g, d, pulled[d], rep[d].buf.txs)
    <3>1. Logged(log, d, pulled[d], rep[d].buf.txs)
      BY <2>2 DEF ReplicaInv
    <3> HIDE DEF g
    <3> QED
      BY <1>6, <1>14, <2>2, <3>1, LoggedElsewhere
  <2>4. Agree(g, log, pulled[d])
    <3> HIDE DEF g
    <3> QED
      BY <1>1, <1>7, <2>2, AgreeLess DEF L
  <2>5. /\ Heard(rep[d], log, pulled[d], missed[d]) => Heard(rep[d], g, pulled[d], missed[d])
        /\ Valued(rep[d], log, d, pulled[d]) => Valued(rep[d], g, d, pulled[d])
    <3> HIDE DEF g
    <3> QED
      BY <2>2, <2>4, Prolonged
  <2> QED
    BY <2>1, <2>2, <2>3, <2>5 DEF ReplicaInv
<1>15. Logged(g, r, Len(g), txs)
  <2>1. n = Len(txs) - OwnCount(log, r, Len(log))
    BY DEF n, c, L
  <2>2. \A i \in 1..n : g[Len(log) + i] = txs[OwnCount(log, r, Len(log)) + i]
    BY <1>6 DEF c, L
  <2> HIDE DEF g
  <2> QED
    BY ONLY <1>3, <1>4, <1>6, <2>1, <2>2, LoggedAll
<1>16. Stamped(e, r)
  BY <1>1, <1>3, <1>8, CaughtStamped
<1>17. Heard(e, g, Len(g), missed'[r])
  <2> DEFINE gone == missed[r]
             now == missed'[r]
             h == log
  <2>1. ASSUME NEW k \in 1..Len(h), k > p /\ ~IsOwn(r, h[k]), NEW l \in LamportsOf(h[k].ops)
        PROVE  l <= e.opId.lamport /\ (m.pending = <<>> \/ l \in now.during)
    <3>1. l <= e.opId.lamport
      BY <1>8, <2>1 DEF L
    <3>2. l \in Received(r, p)
      BY <1>1, <2>1, ReceivedFacts
    <3> QED
      BY <1>10, <3>1, <3>2
  <2>2. /\ gone.for_good \subseteq now.for_good /\ gone.during \subseteq now.during
        /\ Heard(m, h, p, gone) /\ OwnTail(g, h, r, n) /\ p <= Len(h)
    BY <1>1, <1>3, <1>6, <1>10 DEF L
  <2>3. Logged(g, r, Len(g), m.buf.txs)
    BY <1>15 DEF txs
  <2>a. NotAhead(h, r, p, m, e, now)
    BY <2>1 DEF NotAhead
  <2> HIDE DEF g, h, gone, now
  <2>4. Heard(e, g, Len(g), now)
    BY ONLY <1>1, <1>6, <1>8, <2>2, <2>3, <2>a, <1>3, HeardAll
  <2> QED
    BY <2>4 DEF now
<1>18. Valued(e, g, r, Len(g))
  <2>1. OthersUpto(g, r, Len(g)) = OthersUpto(log, r, Len(log))
    <3>1. n \in 0..n
      BY <1>6
    <3> HIDE DEF g
    <3>2. OthersUpto(g, r, Len(log) + n) = OthersUpto(log, r, Len(log))
      BY ONLY <1>6, <3>1, OwnTailSteps
    <3> QED
      BY <1>7, <3>2 DEF L
  <2>2. p \in 0..Len(log)
    BY <1>1 DEF L
  <2>3. e.value = Wrap(m.value + (OthersUpto(log, r, Len(log)) - OthersUpto(log, r, p)))
    BY <1>8 DEF L
  <2> HIDE DEF g
  <2> QED
    BY ONLY <1>1, <1>3, <1>8, <2>1, <2>2, <2>3, ValuedAll
<1>19. ReplicaInv(r)'
  BY <1>2, <1>5, <1>9, <1>11, <1>12, <1>15, <1>16, <1>17, <1>18 DEF ReplicaInv, txs
<1> QED
  BY <1>13, <1>14, <1>19 DEF LocalInv

-----------------------------------------------------------------------------
(* No transaction of the first L is replica r's. *)
NoneOf(h, r, L) == \A n \in 1..L : ~IsOwn(r, h[n])

LEMMA NoneLogged ==
    ASSUME NEW h \in Seq(Txs), NEW r, NEW p, Logged(h, r, p, <<>>)
    PROVE  NoneOf(h, r, Len(h))
<1> SUFFICES ASSUME NEW n \in 1..Len(h), IsOwn(r, h[n]) PROVE FALSE
  BY DEF NoneOf
<1>1. OwnCount(h, r, n) <= 0
  <2>1. Len(<<>>) = 0
    OBVIOUS
  <2> QED
    BY <2>1 DEF Logged
<1>2. n \in Nat \ {0}
  OBVIOUS
<1>3. OwnCount(h, r, n) \in Nat \ {0}
  BY <1>2, OwnPlace
<1> DEFINE x == OwnCount(h, r, n)
<1>4. x <= 0 /\ x \in Nat \ {0}
  BY <1>1, <1>3
<1> HIDE DEF x
<1> QED
  BY <1>4

LEMMA NoneCounted ==
    ASSUME NEW h, NEW r, NEW L \in Nat, NoneOf(h, r, L)
    PROVE  OwnCount(h, r, L) = 0
<1>1. {i \in 1..L : IsOwn(r, h[i])} = {}
  BY DEF NoneOf
<1> QED
  BY <1>1, FS_EmptySet DEF OwnCount

(* To a replica that has written nothing, what replica c wrote is what      *)
(* others wrote: c's transactions in the log are the first of its own.      *)
LEMMA SameSum ==
    ASSUME NEW h \in Seq(Txs), NEW r, NoneOf(h, r, Len(h)),
           NEW c, NEW q, NEW txs \in Seq(Txs), Logged(h, c, q, txs)
    PROVE  \A n \in 0..Len(h) :
              OthersUpto(h, r, n) = OthersUpto(h, c, n) + AllUpto(txs, OwnCount(h, c, n))
<1> DEFINE L == Len(h)
           A(n) == OthersUpto(h, r, n) = OthersUpto(h, c, n) + AllUpto(txs, OwnCount(h, c, n))
           S == {n \in Nat : n <= L => A(n)}
<1>1. L \in Nat
  OBVIOUS
<1>2. \A n \in 1..L : IsOwn(c, h[n]) =>
         OwnCount(h, c, n) <= Len(txs) /\ h[n] = txs[OwnCount(h, c, n)]
  BY DEF Logged
<1>3. \A n \in 1..L : ~IsOwn(r, h[n])
  BY DEF NoneOf
<1>a. OwnCount(h, c, L) <= Len(txs)
  BY DEF Logged
<1>4. 0 \in S
  <2>1. OwnCount(h, c, 0) = 0
    BY OwnCountSteps
  <2>2. OthersUpto(h, r, 0) = 0 /\ OthersUpto(h, c, 0) = 0 /\ AllUpto(txs, 0) = 0
    BY UptoSteps
  <2>3. A(0)
    BY <2>1, <2>2
  <2> HIDE DEF A
  <2> QED
    BY <2>3
<1>5. ASSUME NEW n \in Nat, n \in S PROVE n + 1 \in S
  <2> SUFFICES ASSUME n + 1 <= L PROVE A(n + 1)
    <3> HIDE DEF A
    <3> QED
      OBVIOUS
  <2>1. A(n)
    <3>1. n <= L
      BY <1>1
    <3> HIDE DEF A
    <3> QED
      BY <1>5, <3>1
  <2> DEFINE k == OwnCount(h, c, n)
             j == OwnCount(h, c, n + 1)
             D == DeltaOf(h[n + 1].ops)
             a == OthersUpto(h, r, n)
             b == OthersUpto(h, c, n)
             x == AllUpto(txs, k)
             y == AllUpto(txs, j)
  <2>2. n + 1 \in 1..L /\ n + 1 \in Nat /\ n \in 0..L /\ n <= L /\ n <= n + 1
    BY <1>1
  <2>3. k \in Nat /\ j \in Nat /\ k <= j /\ j <= OwnCount(h, c, L)
    BY <1>1, <2>2, OwnCountSteps
  <2>4. /\ IsOwn(c, h[n + 1]) => j = k + 1
        /\ ~IsOwn(c, h[n + 1]) => j = k
    BY OwnCountSteps
  <2>5. /\ a \in Int /\ b \in Int /\ D \in Int
        /\ OthersUpto(h, r, n + 1) = a + D
        /\ OthersUpto(h, c, n + 1) = b + (IF IsOwn(c, h[n + 1]) THEN 0 ELSE D)
    BY <1>3, <2>2, UptoSteps
  <2>6. a = b + x
    BY <2>1
  <2>b. Len(txs) \in Nat /\ OwnCount(h, c, L) \in Nat
    <3>1. OwnCount(h, c, L) \in Nat
      BY <1>1, OwnCountSteps
    <3> QED
      BY <3>1
  <2> HIDE DEF k, j, D, a, b, x, y
  <2>7. k \in 0..Len(txs) /\ j <= Len(txs)
    BY <1>a, <2>3, <2>b
  <2>8. x \in Int
    BY <2>7, UptoSteps DEF x
  <2>9. CASE IsOwn(c, h[n + 1])
    <3>1. h[n + 1] = txs[j]
      BY <1>2, <2>2, <2>9 DEF j
    <3>2. y = x + D
      <4>1. j = k + 1 /\ k + 1 <= Len(txs)
        BY <2>4, <2>7, <2>9
      <4>2. AllUpto(txs, k + 1) = AllUpto(txs, k) + DeltaOf(txs[k + 1].ops)
        BY <2>7, <4>1, UptoSteps
      <4> QED
        BY <3>1, <4>1, <4>2 DEF x, y, D
    <3>3. OthersUpto(h, r, n + 1) = (b + 0) + y
      BY <2>5, <2>6, <2>8, <3>2
    <3> QED
      BY <2>5, <2>9, <3>3 DEF y, j
  <2>10. CASE ~IsOwn(c, h[n + 1])
    <3>1. y = x
      BY <2>4, <2>10 DEF x, y
    <3>2. OthersUpto(h, r, n + 1) = (b + D) + y
      BY <2>5, <2>6, <2>8, <3>1
    <3> QED
      BY <2>5, <2>10, <3>2 DEF y, j
  <2> QED
    BY <2>9, <2>10
<1> HIDE DEF S
<1>6. \A n \in Nat : n \in S
  BY <1>4, <1>5, NaturalSteps
<1>7. ASSUME NEW n \in 0..L PROVE A(n)
  <2>1. n \in S /\ n <= L
    BY <1>6
  <2> HIDE DEF A
  <2> QED
    BY <2>1 DEF S
<1> QED
  BY <1>7

(* The replica a snapshot makes. *)
LEMMA SnapshotEffect ==
    ASSUME NEW m \in Reps, NEW c \in Reps
    PROVE  /\ ApplySnapshot(m, Snapshot(c)) \in Reps
           /\ ApplySnapshot(m, Snapshot(c)).value = c.value
           /\ ApplySnapshot(m, Snapshot(c)).opId.lamport = c.opId.lamport
           /\ ApplySnapshot(m, Snapshot(c)).buf.txs = <<>>
           /\ ApplySnapshot(m, Snapshot(c)).pending = <<>>
<1> DEFINE v == FromBytes(ToBytes(c.value))
           id == [lamport |-> c.opId.lamport, cseq |-> 0]
           e == [m EXCEPT !.value = v, !.opId = id, !.rollback = id, !.buf = EmptyBuffer,
                          !.pending = <<>>]
<1>1. c.value \in Values /\ c.opId.lamport \in Nat
  BY RepFacts
<1>2. v = c.value
  BY <1>1, RoundTrip
<1>3. id \in OpIds /\ id.lamport = c.opId.lamport
  BY <1>1 DEF OpIds
<1>4. EmptyBuffer \in Buffers /\ EmptyBuffer.txs = <<>> /\ <<>> \in Seq(Ops)
  BY DEF EmptyBuffer, Buffers
<1>5. ApplySnapshot(m, Snapshot(c)) = e
  BY DEF ApplySnapshot, Snapshot
<1> HIDE DEF v, id
<1>6. e \in Reps
  BY <1>1, <1>2, <1>3, <1>4 DEF Reps
<1>7. e.value = v /\ e.opId = id /\ e.buf = EmptyBuffer /\ e.pending = <<>>
  BY DEF Reps
<1> HIDE DEF e
<1> QED
  BY <1>2, <1>3, <1>4, <1>5, <1>6, <1>7

(* A new replica has written nothing. *)
LEMMA Unwritten ==
    ASSUME NEW e \in Reps, e.buf.txs = <<>>, e.pending = <<>>, NEW r
    PROVE  Stamped(e, r) /\ Floor(e) = e.opId.lamport
<1>1. <<>> \in Seq(Ops) /\ Len(<<>>) = 0 /\ e.opId.lamport \in Nat
  BY RepFacts
<1>2. LamportsOf(<<>>) = {}
  BY <1>1, LamportFacts
<1>3. 1..0 = {}
  OBVIOUS
<1>4. Growing(<<>>) /\ TxsGrowing(<<>>)
  BY <1>1, <1>3 DEF Growing, TxsGrowing
<1>5. Floor(e) = e.opId.lamport /\ Floor(e) <= e.opId.lamport
  BY <1>1 DEF Floor
<1> QED
  BY <1>1, <1>2, <1>3, <1>4, <1>5 DEF Stamped

LEMMA NothingLogged ==
    ASSUME NEW h \in Seq(Txs), NEW r, NoneOf(h, r, Len(h)), NEW p \in Nat, p <= Len(h)
    PROVE  Logged(h, r, p, <<>>)
<1>1. Len(h) \in Nat /\ NoneOf(h, r, p)
  <2>1. \A i \in 1..p : i \in 1..Len(h)
    OBVIOUS
  <2> QED
    BY <2>1 DEF NoneOf
<1>2. OwnCount(h, r, p) = 0 /\ OwnCount(h, r, Len(h)) = 0
  BY <1>1, NoneCounted
<1>3. Len(<<>>) = 0
  OBVIOUS
<1> QED
  BY <1>2, <1>3 DEF Logged, NoneOf

LEMMA JoinInv ==
    ASSUME LocalInv, NEW r \in Replicas, Join(r)
    PROVE  LocalInv'
<1> DEFINE C == Creator
           m == rep[C]
           p == pulled[C]
           txs == m.buf.txs
           L == Len(log)
           k == OwnCount(log, C, L)
           e == ApplySnapshot(rep[r], Snapshot(m))
<1>1. C \in Replicas /\ C \in joined /\ r \notin joined /\ Shape
  BY LocalReplicaAssumption DEF LocalInv, Shape, Join
<1>2. /\ m \in Reps /\ rep[r] \in Reps /\ p \in Nat /\ p <= L /\ L \in Nat /\ log \in Seq(Txs)
  BY <1>1, ShapeFacts
<1>3. ReplicaInv(C) /\ ReplicaInv(r)
  BY <1>1 DEF LocalInv
<1>4. /\ Logged(log, C, p, txs) /\ Heard(m, log, p, missed[C]) /\ Valued(m, log, C, p)
      /\ rep[r].buf.txs = <<>> /\ Logged(log, r, pulled[r], <<>>)
  BY <1>1, <1>3 DEF ReplicaInv
<1>5. m.pending = <<>> /\ txs \in Seq(Txs) /\ Len(txs) \in Nat
  <2>1. txs \in Seq(Txs)
    BY <1>2, RepFacts
  <2> QED
    BY <2>1 DEF Join
<1>6. /\ rep' = [rep EXCEPT ![r] = e] /\ pulled' = [pulled EXCEPT ![r] = p]
      /\ joined' = joined \cup {r} /\ log' = log /\ budget' = budget
      /\ missed' = [missed EXCEPT ![r].for_good = missed[C].for_good]
      /\ Unpushed(C) = <<>>
  BY DEF Join
<1>7. k = Len(txs) /\ OwnCount(log, C, p) = k
  <2>1. k \in Nat
    BY <1>2, OwnCountSteps
  <2>2. k <= Len(txs) /\ OwnCount(log, C, p) = k
    BY <1>4 DEF Logged
  <2>3. DOMAIN log = 1..L
    BY <1>2
  <2>4. SubSeq(txs, k + 1, Len(txs)) = <<>>
    BY <1>6, <2>3 DEF Unpushed, OwnCount
  <2> HIDE DEF k, txs
  <2>5. ASSUME k + 1 <= Len(txs) PROVE FALSE
    <3>1. Len(SubSeq(txs, k + 1, Len(txs))) = Len(txs) - (k + 1) + 1
      BY <1>5, <2>1, <2>5
    <3>2. Len(<<>>) = 0
      OBVIOUS
    <3>3. Len(txs) - (k + 1) + 1 # 0
      BY <1>5, <2>1, <2>5
    <3> QED
      BY <2>4, <3>1, <3>2, <3>3
  <2> QED
    BY <1>5, <2>1, <2>2, <2>5
<1>8. /\ e \in Reps /\ e.value = m.value /\ e.opId.lamport = m.opId.lamport
      /\ e.buf.txs = <<>> /\ e.pending = <<>>
  BY <1>2, SnapshotEffect
<1>9. /\ rep' \in [Replicas -> Reps] /\ rep'[r] = e /\ \A d \in Replicas \ {r} : rep'[d] = rep[d]
      /\ pulled' \in [Replicas -> Nat] /\ pulled'[r] = p
      /\ \A d \in Replicas \ {r} : pulled'[d] = pulled[d]
  BY <1>1, <1>2, <1>6, <1>8 DEF Shape
<1>10. /\ missed' \in [Replicas -> [during : SUBSET Nat, for_good : SUBSET Nat]]
       /\ \A d \in Replicas \ {r} : missed'[d] = missed[d]
       /\ missed'[r].for_good = missed[C].for_good
  <2>1. missed \in [Replicas -> [during : SUBSET Nat, for_good : SUBSET Nat]]
    BY <1>1 DEF Shape
  <2>2. /\ missed[r] \in [during : SUBSET Nat, for_good : SUBSET Nat]
        /\ missed[C] \in [during : SUBSET Nat, for_good : SUBSET Nat]
    BY <1>1, <2>1
  <2> QED
    BY <1>6, <2>1, <2>2
<1> HIDE DEF C, m, p, txs, L, k, e
<1>11. Shape'
  <2>1. ASSUME NEW d \in Replicas PROVE pulled'[d] <= Len(log)
    <3>1. pulled[d] <= Len(log)
      BY <1>1, ShapeFacts
    <3> QED
      BY <1>2, <1>9, <3>1 DEF L
  <2> QED
    BY <1>1, <1>6, <1>9, <1>10, <2>1 DEF Shape
<1>12. ASSUME NEW d \in Replicas, d # r PROVE ReplicaInv(d)'
  <2>1. ReplicaInv(d)
    BY DEF LocalInv
  <2> QED
    BY <1>6, <1>9, <1>10, <1>12, <2>1, Elsewhere
<1>13. Stamped(e, r) /\ Floor(e) = e.opId.lamport
  BY <1>8, Unwritten
<1>14. NoneOf(log, r, Len(log))
  BY <1>2, <1>4, NoneLogged
<1>15. Logged(log, r, p, <<>>)
  BY <1>2, <1>14, NothingLogged DEF L
<1>16. Heard(e, log, p, missed'[r])
  BY <1>4, <1>5, <1>8, <1>10, <1>13 DEF Heard
<1>17. Valued(e, log, r, p)
  <2>1. p \in 0..Len(log)
    BY <1>2 DEF L
  <2>2. OthersUpto(log, r, p) = OthersUpto(log, C, p) + AllUpto(txs, OwnCount(log, C, p))
    BY <1>2, <1>4, <1>5, <1>14, <2>1, SameSum
  <2>3. OthersUpto(log, r, p) = OthersUpto(log, C, p) + AllUpto(txs, Len(txs))
    BY <1>7, <2>2
  <2> DEFINE a == OthersUpto(log, C, p)
             b == AllUpto(txs, Len(txs))
             z == OthersUpto(log, r, p)
  <2>4. a \in Int /\ z \in Int
    BY <1>2, <2>1, UptoSteps
  <2>5. b \in Int
    <3>1. Len(txs) \in 0..Len(txs)
      BY <1>5
    <3> QED
      BY <1>5, <3>1, UptoSteps
  <2>6. DeltaOf(<<>>) = 0
    <3>1. <<>> \in Seq(Ops)
      OBVIOUS
    <3> QED
      BY <3>1, DeltaSteps
  <2>7. AllUpto(<<>>, Len(<<>>)) = 0
    <3>1. <<>> \in Seq(Txs) /\ Len(<<>>) = 0
      OBVIOUS
    <3> QED
      BY <3>1, UptoSteps
  <2>8. m.value = Wrap(a + (b + 0))
    BY <1>4, <1>5, <2>6 DEF Valued, txs
  <2>9. z = a + b
    BY <2>3
  <2> HIDE DEF a, b, z
  <2>10. z + (0 + 0) = a + (b + 0)
    BY <2>4, <2>5, <2>9
  <2>11. e.value = Wrap(z + (0 + 0))
    BY <1>8, <2>8, <2>10
  <2> QED
    BY <1>8, <2>6, <2>7, <2>11 DEF Valued, z
<1>18. ReplicaInv(r)'
  BY <1>6, <1>8, <1>9, <1>13, <1>15, <1>16, <1>17 DEF ReplicaInv
<1> QED
  BY <1>11, <1>12, <1>18 DEF LocalInv

-----------------------------------------------------------------------------
LEMMA InitInv == Init => LocalInv
<1> SUFFICES ASSUME Init PROVE LocalInv
  OBVIOUS
<1>1. /\ rep = [r \in Replicas |-> NewReplica] /\ log = <<>> /\ joined = {Creator}
      /\ pulled = [r \in Replicas |-> 0] /\ budget = [r \in Replicas |-> MaxOps]
      /\ missed = [r \in Replicas |-> [during |-> {}, for_good |-> {}]]
  BY DEF Init
<1>2. Creator \in Replicas /\ MaxOps \in Nat
  BY LocalReplicaAssumption
<1>3. 0 \in Values
  BY HalfFacts DEF Values
<1>4. /\ NewReplica \in Reps /\ NewReplica.buf.txs = <<>> /\ NewReplica.pending = <<>>
      /\ NewReplica.value = 0 /\ NewReplica.opId.lamport = 0
  <2>1. EmptyBuffer \in Buffers /\ EmptyBuffer.txs = <<>>
    BY DEF EmptyBuffer, Buffers
  <2>2. [lamport |-> 0, cseq |-> 0] \in OpIds
    BY DEF OpIds
  <2>3. <<>> \in Seq(Ops)
    OBVIOUS
  <2> HIDE DEF EmptyBuffer
  <2> QED
    BY <1>3, <2>1, <2>2, <2>3 DEF NewReplica, Reps
<1>5. log \in Seq(Txs) /\ Len(log) = 0
  BY <1>1
<1>6. Shape
  <2>1. \A r \in Replicas : pulled[r] <= Len(log)
    BY <1>1, <1>5
  <2>2. missed \in [Replicas -> [during : SUBSET Nat, for_good : SUBSET Nat]]
    BY <1>1
  <2>3. rep \in [Replicas -> Reps]
    BY <1>1, <1>4
  <2>4. pulled \in [Replicas -> Nat] /\ budget \in [Replicas -> Nat]
    BY <1>1, <1>2
  <2> QED
    BY <1>1, <1>2, <1>5, <2>1, <2>2, <2>3, <2>4 DEF Shape
<1>7. ASSUME NEW r \in Replicas PROVE ReplicaInv(r)
  <2>1. rep[r] = NewReplica /\ pulled[r] = 0
    BY <1>1
  <2>2. Stamped(NewReplica, r)
    BY <1>4, Unwritten
  <2>3. NoneOf(log, r, Len(log))
    <3>1. 1..0 = {}
      OBVIOUS
    <3> QED
      BY <1>5, <3>1 DEF NoneOf
  <2>4. Logged(log, r, 0, <<>>)
    <3>1. 0 \in Nat /\ 0 <= Len(log)
      BY <1>5
    <3> QED
      BY <1>5, <2>3, <3>1, NothingLogged
  <2>5. Heard(NewReplica, log, 0, missed[r])
    <3>1. 1..0 = {}
      OBVIOUS
    <3> QED
      BY <3>1 DEF Heard
  <2>6. Valued(NewReplica, log, r, 0)
    <3>1. OthersUpto(log, r, 0) = 0
      BY <1>5, UptoSteps
    <3>2. AllUpto(<<>>, Len(<<>>)) = 0
      <4>1. <<>> \in Seq(Txs) /\ Len(<<>>) = 0
        OBVIOUS
      <4> QED
        BY <4>1, UptoSteps
    <3>3. DeltaOf(<<>>) = 0
      <4>1. <<>> \in Seq(Ops)
        OBVIOUS
      <4> QED
        BY <4>1, DeltaSteps
    <3>4. 0 + (0 + 0) = 0 /\ Wrap(0) = 0
      BY <1>3, WrapSame
    <3> QED
      BY <1>4, <3>1, <3>2, <3>3, <3>4 DEF Valued
  <2> QED
    BY <1>4, <2>1, <2>2, <2>4, <2>5, <2>6 DEF ReplicaInv
<1> QED
  BY <1>6, <1>7 DEF LocalInv

LEMMA NextInv == LocalInv /\ [Next]_vars => LocalInv'
<1> SUFFICES ASSUME LocalInv, [Next]_vars PROVE LocalInv'
  OBVIOUS
<1>1. CASE UNCHANGED vars
  <2>1. /\ rep' = rep /\ log' = log /\ joined' = joined /\ pulled' = pulled
        /\ missed' = missed /\ budget' = budget
    BY <1>1 DEF vars
  <2> QED
    BY <2>1 DEF LocalInv, Shape, ReplicaInv
<1>2. CASE Next
  <2>1. PICK r \in Replicas :
           \/ \E delta \in Deltas : Increase(r, delta)
           \/ Commit(r) \/ Rollback(r) \/ Exchange(r) \/ Join(r)
    BY <1>2 DEF Next
  <2>2. ASSUME NEW delta \in Deltas, Increase(r, delta) PROVE LocalInv'
    BY <2>2, IncreaseInv
  <2> QED
    BY <2>1, <2>2, CommitInv, RollbackInv, ExchangeInv, JoinInv
<1> QED
  BY <1>1, <1>2

(* Every reachable state of the replicas and the log is stamped, logged,    *)
(* heard and valued as LocalInv says.                                       *)
THEOREM LocalInvariant == Spec => []LocalInv
BY InitInv, NextInv, PTL DEF Spec

(* Values stay in the counter's range whatever is added to them, undone,    *)
(* pulled or restored from a snapshot, and clocks, sequence numbers and     *)
(* checkpoints are natural numbers, the latter within the log.              *)
THEOREM TypeCorrect == Spec => []TypeOK
<1>1. LocalInv => TypeOK
  <2> SUFFICES ASSUME LocalInv PROVE TypeOK
    OBVIOUS
  <2>1. Shape
    BY DEF LocalInv
  <2>2. ASSUME NEW r \in Replicas
        PROVE  /\ rep[r].value \in (-Half)..(Half - 1)
               /\ rep[r].opId \in OpIds /\ rep[r].rollback \in OpIds
               /\ rep[r].pending \in Seq(Ops) /\ rep[r].buf.txs \in Seq(Txs)
               /\ pulled[r] \in 0..Len(log)
               /\ missed[r].during \subseteq Nat /\ missed[r].for_good \subseteq Nat
    <3>1. /\ rep[r] \in Reps /\ Len(log) \in Nat /\ pulled[r] \in Nat /\ pulled[r] <= Len(log)
          /\ missed[r].during \subseteq Nat /\ missed[r].for_good \subseteq Nat
      BY <2>1, ShapeFacts
    <3>2. pulled[r] \in 0..Len(log)
      BY <3>1
    <3>3. /\ rep[r].value \in Values
          /\ rep[r].opId \in OpIds /\ rep[r].rollback \in OpIds
          /\ rep[r].pending \in Seq(Ops) /\ rep[r].buf.txs \in Seq(Txs)
      BY <3>1, RepFacts
    <3> QED
      BY <3>1, <3>2, <3>3 DEF Values
  <2> QED
    BY <2>1, <2>2 DEF TypeOK, Shape
<1> QED
  BY <1>1, LocalInvariant, PTL

(* Whatever the width of the counter's integer, however often it wraps      *)
(* around, and whatever is rolled back, interleaved or restored from a      *)
(* snapshot's bytes: a replica's value is the sum of the deltas it has.     *)
THEOREM ValueIsSumAlways == Spec => []ValueIsSum
<1>1. LocalInv => ValueIsSum
  <2> SUFFICES ASSUME LocalInv, NEW r \in joined
               PROVE  GetValue(r) = Wrap(Pulled(r) + Written(r))
    BY DEF ValueIsSum
  <2>1. r \in Replicas /\ rep[r] \in Reps
    BY ShapeFacts DEF LocalInv, Shape
  <2>2. Valued(rep[r], log, r, pulled[r])
    BY <2>1 DEF LocalInv, ReplicaInv
  <2>3. rep[r].buf.txs \in Seq(Txs)
    BY <2>1, RepFacts
  <2>4. DOMAIN rep[r].buf.txs = 1..Len(rep[r].buf.txs)
    BY <2>3
  <2>5. Pulled(r) = OthersUpto(log, r, pulled[r])
    BY DEF Pulled, OthersUpto
  <2>6. Written(r) = AllUpto(rep[r].buf.txs, Len(rep[r].buf.txs)) + DeltaOf(rep[r].pending)
    BY <2>4 DEF Written, AllUpto
  <2> QED
    BY <2>2, <2>5, <2>6 DEF Valued, GetValue
<1> QED
  BY <1>1, LocalInvariant, PTL

(* A rollback turns a clock back to before its transaction, never behind    *)
(* what was committed: in the log the operations of a replica carry         *)
(* lamports that grow in the order in which it executed them.               *)
THEOREM OperationIdsOrderedAlways == Spec => []OperationIdsOrdered
<1>1. LocalInv => OperationIdsOrdered
  <2> SUFFICES ASSUME LocalInv, NEW a \in DOMAIN log, NEW b \in DOMAIN log,
                      NEW i \in DOMAIN log[a].ops, NEW j \in DOMAIN log[b].ops,
                      log[a].cuid = log[b].cuid, a < b \/ (a = b /\ i < j)
               PROVE  Precedes(log[a].ops[i], log[b].ops[j])
    BY DEF OperationIdsOrdered
  <2> DEFINE r == log[a].cuid
             txs == rep[r].buf.txs
             x == OwnCount(log, r, a)
             y == OwnCount(log, r, b)
  <2>1. log \in Seq(Txs) /\ Len(log) \in Nat /\ DOMAIN log = 1..Len(log)
    BY DEF LocalInv, Shape
  <2>2. r \in Replicas /\ log[a].ops \in Seq(Ops) /\ log[b].ops \in Seq(Ops)
    BY <2>1, TxFacts
  <2>3. rep[r] \in Reps /\ ReplicaInv(r)
    BY <2>2, ShapeFacts DEF LocalInv
  <2>4. txs \in Seq(Txs) /\ Len(txs) \in Nat /\ Logged(log, r, pulled[r], txs) /\ Stamped(rep[r], r)
    <3>1. txs \in Seq(Txs)
      BY <2>3, RepFacts
    <3> QED
      BY <2>3, <3>1 DEF ReplicaInv
  <2>5. IsOwn(r, log[a]) /\ IsOwn(r, log[b])
    BY DEF IsOwn
  <2>6. a \in Nat \ {0} /\ b \in Nat \ {0} /\ a \in 1..Len(log) /\ b \in 1..Len(log)
    BY <2>1
  <2>7. x \in Nat \ {0} /\ y \in Nat \ {0}
    <3> HIDE DEF r
    <3> QED
      BY <2>5, <2>6, OwnPlace
  <2>8. x <= Len(txs) /\ y <= Len(txs) /\ log[a] = txs[x] /\ log[b] = txs[y]
    BY <2>4, <2>5, <2>6 DEF Logged
  <2>9. /\ i \in 1..Len(log[a].ops) /\ j \in 1..Len(log[b].ops)
        /\ log[a].ops[i].lamport \in LamportsOf(log[a].ops)
        /\ log[b].ops[j].lamport \in LamportsOf(log[b].ops)
    BY <2>2 DEF LamportsOf
  <2>a. x \in 1..Len(txs) /\ y \in 1..Len(txs)
    <3> HIDE DEF x, y, txs
    <3> QED
      BY ONLY <2>4, <2>7, <2>8
  <2>10. CASE a < b
    <3>1. x < y
      <4> DEFINE k == b - 1
      <4>1. k \in Nat /\ k + 1 = b /\ a <= k /\ a \in Nat
        BY <2>6, <2>10
      <4> HIDE DEF k, r
      <4>2. IsOwn(r, log[k + 1])
        BY <2>5, <4>1
      <4>3. /\ OwnCount(log, r, a) <= OwnCount(log, r, k)
            /\ OwnCount(log, r, k) \in Nat /\ OwnCount(log, r, a) \in Nat
            /\ OwnCount(log, r, k + 1) = OwnCount(log, r, k) + 1
        BY <4>1, <4>2, OwnCountSteps
      <4> DEFINE z == OwnCount(log, r, k)
      <4>4. x <= z /\ z \in Nat /\ x \in Nat /\ y = z + 1
        BY <4>1, <4>3
      <4> HIDE DEF x, y, z
      <4> QED
        BY <4>4
    <3>3. TxsGrowing(txs)
      BY <2>4 DEF Stamped
    <3>4. \A k \in LamportsOf(txs[x].ops), l \in LamportsOf(txs[y].ops) : k < l
      <4> HIDE DEF x, y, txs
      <4> QED
        BY <2>a, <3>1, <3>3 DEF TxsGrowing
    <3> HIDE DEF x, y, txs, r
    <3> QED
      BY <2>8, <2>9, <3>4 DEF Precedes
  <2>11. CASE a = b /\ i < j
    <3>2. Growing(txs[x].ops)
      BY <2>4, <2>a DEF Stamped
    <3> HIDE DEF x, y, txs, r
    <3> QED
      BY <2>8, <2>9, <2>11, <3>2 DEF Growing, Precedes
  <2> QED
    BY <2>10, <2>11
<1> QED
  BY <1>1, LocalInvariant, PTL

(* The clock of a replica is ahead of everything it has pulled, but for     *)
(* what came in during a transaction that was rolled back.                  *)
THEOREM CausalAlways == Spec => []CausalUnlessRolledBack
<1>1. LocalInv => CausalUnlessRolledBack
  BY DEF LocalInv, Shape, ReplicaInv, Heard, CausalUnlessRolledBack
<1> QED
  BY <1>1, LocalInvariant, PTL
=============================================================================
