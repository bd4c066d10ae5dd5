--------------------------- MODULE DataInduction ---------------------------
(***************************************************************************)
(* Induction over numbers without an operator parameter: a non-empty set   *)
(* of natural numbers has a least element.  To prove a statement for every *)
(* number, take the least one of the set of its counterexamples.           *)
(***************************************************************************)
EXTENDS Totals, SequencesExt, FiniteSetTheorems, TLAPS

(***************************************************************************)
(* Every induction of the project rests on this: over events recorded,     *)
(* over terms of a total, over sequences joined and over elements sorted.  *)
(***************************************************************************)
LEMMA LeastNumber ==
    ASSUME NEW T, T \subseteq Nat, T # {}
    PROVE  \E x \in T : \A y \in T : x <= y
<1>1. IsWellFoundedOn(OpToRel(<, Nat), Nat)
  BY NatLessThanWellFounded, Zenon
<1>2. PICK x \in T : \A y \in T : <<y, x>> \notin OpToRel(<, Nat)
  BY <1>1, WFMin, Zenon
<1>3. \A y \in T : x <= y
  <2> TAKE y \in T
  <2>1. x \in Nat /\ y \in Nat
    OBVIOUS
  <2>2. <<y, x>> \notin {ss \in Nat \X Nat : ss[1] < ss[2]}
    BY <1>2, Zenon DEF OpToRel
  <2>3. ~(y < x)
    BY <2>1, <2>2
  <2> QED BY <2>1, <2>3
<1> QED BY <1>3

(***************************************************************************)
(* Two functions that start alike, and are alike at i if they were at      *)
(* i - 1, are alike as far as that goes.                                   *)
(***************************************************************************)
InStep(f, g, n) ==
    f[0] = g[0] /\ \A i \in 1..n : f[i - 1] = g[i - 1] => f[i] = g[i]

\* Two functions in step have the same values.
LEMMA StepwiseEqual ==
    ASSUME NEW n \in Nat, NEW f, NEW g, InStep(f, g, n)
    PROVE  \A i \in 0..n : f[i] = g[i]
<1> DEFINE Bad == {i \in 0..n : f[i] # g[i]}
<1>1. ASSUME Bad # {} PROVE FALSE
  <2>1. PICK x \in Bad : \A y \in Bad : x <= y
    <3>1. Bad \subseteq Nat
      OBVIOUS
    <3> HIDE DEF Bad
    <3> QED BY <1>1, <3>1, LeastNumber
  <2>2. x \in 0..n /\ f[x] # g[x]
    BY DEF Bad
  <2>3. x \in 1..n /\ x - 1 \in 0..n
    BY <2>2 DEF InStep
  <2>4. ~(x <= x - 1)
    BY <2>3
  <2>5. x - 1 \notin Bad
    BY <2>1, <2>4
  <2> QED BY <2>2, <2>3, <2>5 DEF InStep
<1> QED BY <1>1

(***************************************************************************)
(* The values of a recursive function from 0 to n: step[i] makes the value *)
(* at i of the one before it.                                              *)
(***************************************************************************)
Folding(f, n, first, step) ==
    f = [i \in 0..n |-> IF i = 0 THEN first ELSE step[i][f[i - 1]]]

(***************************************************************************)
(* A recursive definition whose steps stay in V defines a function into V. *)
(***************************************************************************)
LEMMA FoldingExists ==
    ASSUME NEW n \in Nat, NEW V, NEW first \in V, NEW step \in [1..n -> [V -> V]]
    PROVE  \E f \in [0..n -> V] : Folding(f, n, first, step)
<1> DEFINE Has(m) == \E f \in [0..m -> V] : Folding(f, m, first, step)
           Bad == {m \in 0..n : ~Has(m)}
<1>1. Has(0)
  <2> DEFINE f == [i \in 0..0 |-> first]
  <2>1. f \in [0..0 -> V]
    OBVIOUS
  <2>2. f = [i \in 0..0 |-> IF i = 0 THEN first ELSE step[i][f[i - 1]]]
    OBVIOUS
  <2>3. Folding(f, 0, first, step)
    BY <2>2 DEF Folding
  <2> QED BY <2>1, <2>3
<1>2. ASSUME NEW m \in 0..n, m # n, Has(m) PROVE Has(m + 1)
  <2>1. PICK f \in [0..m -> V] : Folding(f, m, first, step)
    BY <1>2
  <2>2. f[0] = first /\ \A i \in 1..m : f[i] = step[i][f[i - 1]]
    <3>1. \A i \in 0..m : f[i] = IF i = 0 THEN first ELSE step[i][f[i - 1]]
      BY <2>1 DEF Folding
    <3> QED BY <3>1
  <2> DEFINE g == [i \in 0..(m + 1) |-> IF i \in 0..m THEN f[i] ELSE step[m + 1][f[m]]]
  <2>3. step[m + 1] \in [V -> V] /\ f[m] \in V
    <3>1. m + 1 \in 1..n /\ m \in 0..m
      BY <1>2
    <3> QED BY <3>1, <2>1
  <2>4. g \in [0..(m + 1) -> V]
    BY <2>3
  <2>5. \A i \in 0..(m + 1) : g[i] = IF i = 0 THEN first ELSE step[i][g[i - 1]]
    <3> TAKE i \in 0..(m + 1)
    <3>1. CASE i = 0
      BY <3>1, <2>2
    <3>2. CASE i \in 1..m
      <4>1. g[i] = f[i] /\ g[i - 1] = f[i - 1]
        BY <3>2
      <4> QED BY <4>1, <3>2, <2>2
    <3>3. CASE i = m + 1
      <4>1. g[i] = step[m + 1][f[m]] /\ g[i - 1] = f[m] /\ i # 0
        BY <3>3
      <4> QED BY <4>1, <3>3
    <3> QED BY <3>1, <3>2, <3>3
  <2>6. g = [i \in 0..(m + 1) |-> g[i]]
    OBVIOUS
  <2> HIDE DEF g
  <2>7. Folding(g, m + 1, first, step)
    BY <2>5, <2>6 DEF Folding
  <2> QED BY <2>4, <2>7
<1>3. ASSUME Bad # {} PROVE FALSE
  <2>1. PICK x \in Bad : \A y \in Bad : x <= y
    <3>1. Bad \subseteq Nat
      OBVIOUS
    <3> HIDE DEF Bad
    <3> QED BY <1>3, <3>1, LeastNumber
  <2>2. x \in 0..n /\ ~Has(x)
    BY DEF Bad
  <2> HIDE DEF Has
  <2>3. x - 1 \in 0..n /\ x - 1 # n /\ (x - 1) + 1 = x
    <3>1. x # 0
      BY <2>2, <1>1
    <3> QED BY <2>2, <3>1
  <2>4. ~(x <= x - 1)
    BY <2>3, <2>2
  <2>5. x - 1 \notin Bad
    BY <2>1, <2>4
  <2>6. Has(x - 1)
    BY <2>5, <2>3
  <2> QED BY <2>2, <2>3, <2>6, <1>2
<1>4. n \in 0..n /\ n \notin Bad
  BY <1>3
<1>5. Has(n)
  <2> HIDE DEF Has
  <2> QED BY <1>4
<1> QED BY <1>5

-----------------------------------------------------------------------------
(* Totals                                                                  *)

\* A function on 1..n is a sequence.
LEMMA FunctionIsSeq ==
    ASSUME NEW n \in Nat, NEW s \in [1..n -> Int]
    PROVE  s \in Seq(Int) /\ Len(s) = n
OBVIOUS

Summing(f, n, s) ==
    f = [i \in 0..n |-> IF i = 0 THEN 0 ELSE f[i - 1] + s[i]]

\* A total is the last of its partial sums.
LEMMA TotalUpto ==
    ASSUME NEW n \in Nat, NEW s \in [1..n -> Int]
    PROVE  \E f \in [0..n -> Int] :
              f[0] = 0 /\ (\A i \in 1..n : f[i] = f[i - 1] + s[i]) /\ Total(s) = f[n]
<1> DEFINE step == [i \in 1..n |-> [v \in Int |-> v + s[i]]]
<1>1. step \in [1..n -> [Int -> Int]] /\ 0 \in Int
  OBVIOUS
<1>2. PICK f \in [0..n -> Int] : Folding(f, n, 0, step)
  <2> HIDE DEF step
  <2> QED BY <1>1, FoldingExists
<1>3. Summing(f, n, s)
  <2>1. f = [i \in 0..n |-> IF i = 0 THEN 0 ELSE step[i][f[i - 1]]]
    BY <1>2 DEF Folding
  <2> HIDE DEF step
  <2>2. ASSUME NEW i \in 0..n PROVE f[i] = IF i = 0 THEN 0 ELSE f[i - 1] + s[i]
    <3>1. CASE i = 0
      BY <2>1, <3>1
    <3>2. CASE i # 0
      <4>1. f[i] = step[i][f[i - 1]]
        BY <2>1, <3>2
      <4>2. i \in 1..n /\ f[i - 1] \in Int
        BY <3>2, <1>2
      <4> QED BY <4>1, <4>2, <3>2 DEF step
    <3> QED BY <3>1, <3>2
  <2>3. f = [i \in 0..n |-> f[i]]
    BY <1>2
  <2> QED BY <2>2, <2>3 DEF Summing
<1> DEFINE R(g) == g = [i \in 0..Len(s) |-> IF i = 0 THEN 0 ELSE g[i - 1] + s[i]]
<1>4. Len(s) = n
  BY FunctionIsSeq
<1>5. R(f)
  BY <1>3, <1>4 DEF Summing
<1>6. R(CHOOSE g : R(g))
  BY <1>5, Zenon
<1> DEFINE u == CHOOSE g : R(g)
<1>7. Total(s) = u[Len(s)]
  BY Zenon DEF Total
<1>8. u = [i \in 0..n |-> IF i = 0 THEN 0 ELSE u[i - 1] + s[i]]
  BY <1>4, <1>6
<1> HIDE DEF u
<1>9. InStep(f, u, n)
  <2>1. f[0] = 0 /\ u[0] = 0
    BY <1>3, <1>8 DEF Summing
  <2>2. \A i \in 1..n : f[i] = f[i - 1] + s[i] /\ u[i] = u[i - 1] + s[i]
    <3> TAKE i \in 1..n
    <3>1. i \in 0..n /\ i # 0
      OBVIOUS
    <3>2. f[i] = f[i - 1] + s[i]
      BY <3>1, <1>3 DEF Summing
    <3>3. u[i] = u[i - 1] + s[i]
      BY <3>1, <1>8
    <3> QED BY <3>2, <3>3
  <2> QED BY <2>1, <2>2 DEF InStep
<1>10. f[n] = u[n]
  BY <1>9, StepwiseEqual
<1>11. f[0] = 0 /\ \A i \in 1..n : f[i] = f[i - 1] + s[i]
  <2>1. f[0] = 0
    BY <1>3 DEF Summing
  <2>2. ASSUME NEW i \in 1..n PROVE f[i] = f[i - 1] + s[i]
    <3>1. i \in 0..n /\ i # 0
      OBVIOUS
    <3> QED BY <3>1, <1>3 DEF Summing
  <2> QED BY <2>1, <2>2
<1> QED BY <1>4, <1>7, <1>10, <1>11

\* The total of integers is an integer, that of nothing is 0.
LEMMA TotalType ==
    ASSUME NEW n \in Nat, NEW s \in [1..n -> Int]
    PROVE  Total(s) \in Int /\ (n = 0 => Total(s) = 0)
BY TotalUpto

(***************************************************************************)
(* One term more.                                                          *)
(***************************************************************************)
LEMMA TotalLast ==
    ASSUME NEW n \in Nat, NEW r \in [1..n -> Int], NEW s \in [1..(n + 1) -> Int],
           \A i \in 1..n : s[i] = r[i]
    PROVE  Total(s) = Total(r) + s[n + 1]
<1>1. PICK f :
         f[0] = 0 /\ (\A i \in 1..n : f[i] = f[i - 1] + r[i]) /\ Total(r) = f[n]
  BY TotalUpto
<1>2. PICK g :
         g[0] = 0 /\ (\A i \in 1..(n + 1) : g[i] = g[i - 1] + s[i]) /\ Total(s) = g[n + 1]
  <2>1. n + 1 \in Nat
    OBVIOUS
  <2> QED BY <2>1, TotalUpto
<1>3. InStep(f, g, n)
  <2>1. \A i \in 1..n : f[i] = f[i - 1] + s[i] /\ g[i] = g[i - 1] + s[i]
    BY <1>1, <1>2
  <2> QED BY <1>1, <1>2, <2>1 DEF InStep
<1>4. f[n] = g[n]
  <2>1. n \in 0..n
    OBVIOUS
  <2>2. n \in Nat
    OBVIOUS
  <2>3. \A i \in 0..n : f[i] = g[i]
    BY <1>3, <2>2, StepwiseEqual
  <2> QED BY <2>1, <2>3
<1>5. n + 1 \in 1..(n + 1) /\ (n + 1) - 1 = n
  OBVIOUS
<1> QED BY <1>1, <1>2, <1>4, <1>5

(***************************************************************************)
(* The sizes of sets that share no element add up to the size of their     *)
(* union.                                                                  *)
(***************************************************************************)
Apart(n, B) ==
    /\ \A i \in 1..n : IsFiniteSet(B[i])
    /\ \A i, j \in 1..n : i # j => B[i] \cap B[j] = {}

\* Sizes of disjoint sets add up.
LEMMA TotalOfSizes ==
    ASSUME NEW n \in Nat, NEW B, Apart(n, B)
    PROVE  LET all == UNION {B[i] : i \in 1..n} IN
           /\ IsFiniteSet(all)
           /\ [i \in 1..n |-> Cardinality(B[i])] \in [1..n -> Nat]
           /\ Cardinality(all) \in Nat
           /\ Total([i \in 1..n |-> Cardinality(B[i])]) = Cardinality(all)
<1> DEFINE upto(m) == UNION {B[i] : i \in 1..m}
           size(m) == [i \in 1..m |-> Cardinality(B[i])]
           Good(m) == IsFiniteSet(upto(m)) /\ Total(size(m)) = Cardinality(upto(m))
           Bad == {m \in 0..n : ~Good(m)}
<1>1. \A i \in 1..n : Cardinality(B[i]) \in Nat /\ Cardinality(B[i]) \in Int
  BY FS_CardinalityType DEF Apart
<1>2. \A m \in 0..n : size(m) \in [1..m -> Nat] /\ size(m) \in [1..m -> Int]
  BY <1>1
<1>3. Good(0)
  <2>1. upto(0) = {}
    OBVIOUS
  <2>2. Total(size(0)) = 0
    <3>1. 0 \in Nat /\ 0 \in 0..n
      OBVIOUS
    <3> HIDE DEF size
    <3> QED BY <3>1, <1>2, TotalType
  <2> HIDE DEF upto, size
  <2> QED BY <2>1, <2>2, FS_EmptySet
<1>4. ASSUME NEW m \in 0..n, m # 0, Good(m - 1)
      PROVE  Good(m)
  <2>1. upto(m) = upto(m - 1) \cup B[m]
    <3>1. 1..m = 1..(m - 1) \cup {m}
      BY <1>4
    <3> QED BY <3>1, Zenon
  <2>2. upto(m - 1) \cap B[m] = {}
    <3> SUFFICES ASSUME NEW i \in 1..(m - 1) PROVE B[i] \cap B[m] = {}
      OBVIOUS
    <3>1. i \in 1..n /\ m \in 1..n /\ i # m
      BY <1>4
    <3> QED BY <3>1 DEF Apart
  <2>3. m - 1 \in Nat /\ m - 1 \in 0..n /\ (m - 1) + 1 = m /\ m \in 1..m
    BY <1>4
  <2>4. IsFiniteSet(B[m])
    BY <1>4 DEF Apart
  <2>5. size(m)[m] = Cardinality(B[m]) /\ Cardinality(B[m]) \in Nat
    BY <2>3, <1>1
  <2>6. \A i \in 1..(m - 1) : size(m)[i] = size(m - 1)[i]
    OBVIOUS
  <2>7. size(m) \in [1..((m - 1) + 1) -> Int] /\ size(m - 1) \in [1..(m - 1) -> Int]
    <3> HIDE DEF size
    <3> QED BY <2>3, <1>2
  <2> HIDE DEF size, upto
  <2>8. Total(size(m)) = Total(size(m - 1)) + size(m)[m]
    BY <2>3, <2>6, <2>7, TotalLast
  <2>9. IsFiniteSet(upto(m - 1)) /\ Total(size(m - 1)) = Cardinality(upto(m - 1))
    BY <1>4
  <2>10. Cardinality(upto(m - 1)) \in Nat
    BY <2>9, FS_CardinalityType
  <2>11. /\ IsFiniteSet(upto(m))
         /\ Cardinality(upto(m)) = Cardinality(upto(m - 1)) + Cardinality(B[m])
                                     - Cardinality(upto(m - 1) \cap B[m])
    BY <2>1, <2>4, <2>9, FS_Union
  <2>12. Cardinality(upto(m - 1) \cap B[m]) = 0
    BY <2>2, FS_EmptySet
  <2>13. Total(size(m)) = Cardinality(upto(m))
    BY <2>5, <2>8, <2>9, <2>10, <2>11, <2>12
  <2> QED BY <2>11, <2>13
<1>5. ASSUME Bad # {} PROVE FALSE
  <2>1. PICK x \in Bad : \A y \in Bad : x <= y
    <3>1. Bad \subseteq Nat
      OBVIOUS
    <3> HIDE DEF Bad
    <3> QED BY <1>5, <3>1, LeastNumber
  <2>2. x \in 0..n /\ ~Good(x)
    BY DEF Bad
  <2> HIDE DEF Good
  <2>3. x # 0
    BY <2>2, <1>3
  <2>4. x - 1 \in 0..n /\ ~(x <= x - 1)
    BY <2>2, <2>3
  <2>5. Good(x - 1)
    BY <2>1, <2>4
  <2> QED BY <2>2, <2>3, <2>5, <1>4
<1>6. Good(n)
  <2> HIDE DEF Good
  <2>1. n \in 0..n /\ n \notin Bad
    BY <1>5
  <2> QED BY <2>1
<1>7. Cardinality(upto(n)) \in Nat
  <2> HIDE DEF upto
  <2> QED BY <1>6, FS_CardinalityType
<1> QED BY <1>2, <1>6, <1>7

-----------------------------------------------------------------------------
(* Sequences of sequences                                                  *)

\* A function on 1..n to any set is a sequence over that set.
LEMMA FunctionIsSeqOf ==
    ASSUME NEW n \in Nat, NEW V, NEW s \in [1..n -> V]
    PROVE  s \in Seq(V) /\ Len(s) = n /\ DOMAIN s = 1..n
OBVIOUS

(***************************************************************************)
(* FlattenSeq joins one sequence after the other.                          *)
(***************************************************************************)
Joining(f, n, seqs) ==
    f[0] = <<>> /\ \A i \in 1..n : f[i] = f[i - 1] \o seqs[i]

\* FlattenSeq is the last of the partial joins.
LEMMA FlattenUpto ==
    ASSUME NEW n \in Nat, NEW W, NEW seqs \in [1..n -> Seq(W)]
    PROVE  \E f \in [0..n -> Seq(W)] :
              Joining(f, n, seqs) /\ FlattenSeq(seqs) = f[n]
<1> DEFINE step == [i \in 1..n |-> [v \in Seq(W) |-> v \o seqs[i]]]
<1>1. step \in [1..n -> [Seq(W) -> Seq(W)]] /\ <<>> \in Seq(W)
  <2>1. \A i \in 1..n, v \in Seq(W) : v \o seqs[i] \in Seq(W)
    OBVIOUS
  <2> QED BY <2>1
<1>2. PICK f \in [0..n -> Seq(W)] : Folding(f, n, <<>>, step)
  <2> HIDE DEF step
  <2> QED BY <1>1, FoldingExists
<1>3. Joining(f, n, seqs)
  <2>1. f = [i \in 0..n |-> IF i = 0 THEN <<>> ELSE step[i][f[i - 1]]]
    BY <1>2 DEF Folding
  <2> HIDE DEF step
  <2>2. f[0] = <<>>
    BY <2>1
  <2>3. ASSUME NEW i \in 1..n PROVE f[i] = f[i - 1] \o seqs[i]
    <3>1. i \in 0..n /\ i # 0 /\ f[i - 1] \in Seq(W)
      BY <1>2
    <3>2. f[i] = step[i][f[i - 1]]
      BY <2>1, <3>1
    <3> QED BY <3>1, <3>2 DEF step
  <2> QED BY <2>2, <2>3 DEF Joining
<1> HIDE DEF step
<1>4. Len(seqs) = n
  BY FunctionIsSeqOf
<1>5. CASE n = 0
  <2>1. seqs = <<>>
    BY <1>5
  <2>2. FlattenSeq(seqs) = seqs
    BY <1>4, <1>5 DEF FlattenSeq
  <2> QED BY <1>3, <1>5, <2>1, <2>2 DEF Joining
<1>6. CASE n # 0
  <2> DEFINE R(g) == g = [i \in 1..Len(seqs) |->
                             IF i = 1 THEN seqs[i] ELSE g[i - 1] \o seqs[i]]
             h == [i \in 1..n |-> f[i]]
  <2>1. R(h)
    <3>1. ASSUME NEW i \in 1..n
          PROVE  h[i] = IF i = 1 THEN seqs[i] ELSE h[i - 1] \o seqs[i]
      <4>1. f[i] = f[i - 1] \o seqs[i]
        BY <1>3 DEF Joining
      <4>2. CASE i = 1
        <5>1. f[i - 1] = <<>> /\ seqs[i] \in Seq(W)
          BY <4>2, <1>3 DEF Joining
        <5> QED BY <4>1, <4>2, <5>1
      <4>3. CASE i # 1
        <5>1. i - 1 \in 1..n
          BY <4>3
        <5> QED BY <4>1, <4>3, <5>1
      <4> QED BY <4>2, <4>3
    <3>2. h = [i \in 1..n |-> h[i]]
      OBVIOUS
    <3> HIDE DEF h
    <3> QED BY <1>4, <3>1, <3>2
  <2>2. R(CHOOSE g : R(g))
    BY <2>1, Zenon
  <2> DEFINE u == CHOOSE g : R(g)
  <2>3. FlattenSeq(seqs) = u[Len(seqs)]
    BY <1>4, <1>6, Zenon DEF FlattenSeq
  <2>4. \A i \in 1..n : u[i] = IF i = 1 THEN seqs[i] ELSE u[i - 1] \o seqs[i]
    BY <1>4, <2>2
  <2> HIDE DEF u
  <2> DEFINE v == [i \in 0..n |-> IF i = 0 THEN <<>> ELSE u[i]]
  <2>5. InStep(f, v, n)
    <3>1. f[0] = v[0]
      BY <1>3 DEF Joining
    <3>2. ASSUME NEW i \in 1..n, f[i - 1] = v[i - 1] PROVE f[i] = v[i]
      <4>1. f[i] = v[i - 1] \o seqs[i]
        <5>1. f[i] = f[i - 1] \o seqs[i]
          BY <1>3 DEF Joining
        <5> HIDE DEF v
        <5> QED BY <5>1, <3>2
      <4>2. v[i] = u[i]
        OBVIOUS
      <4>3. CASE i = 1
        <5>1. v[i - 1] = <<>> /\ u[i] = seqs[i] /\ seqs[i] \in Seq(W)
          BY <4>3, <2>4
        <5> HIDE DEF v
        <5>2. <<>> \o seqs[i] = seqs[i]
          BY <5>1
        <5> QED BY <4>1, <4>2, <5>1, <5>2
      <4>4. CASE i # 1
        <5>1. v[i - 1] = u[i - 1]
          BY <4>4
        <5>2. u[i] = u[i - 1] \o seqs[i]
          BY <4>4, <2>4
        <5> QED BY <4>1, <4>2, <5>1, <5>2
      <4> QED BY <4>3, <4>4
    <3> HIDE DEF v
    <3> QED BY <3>1, <3>2 DEF InStep
  <2>6. f[n] = v[n]
    <3> HIDE DEF v
    <3>1. \A i \in 0..n : f[i] = v[i]
      BY <2>5, StepwiseEqual
    <3> QED BY <3>1
  <2>7. v[n] = u[n]
    BY <1>6
  <2> QED BY <1>3, <1>4, <2>3, <2>6, <2>7
<1> QED BY <1>5, <1>6

(***************************************************************************)
(* The words of all parts, and how many they are.                          *)
(***************************************************************************)
LEMMA FlattenLength ==
    ASSUME NEW n \in Nat, NEW W, NEW seqs \in [1..n -> Seq(W)]
    PROVE  /\ FlattenSeq(seqs) \in Seq(W)
           /\ [i \in 1..n |-> Len(seqs[i])] \in [1..n -> Nat]
           /\ Len(FlattenSeq(seqs)) = Total([i \in 1..n |-> Len(seqs[i])])
<1>1. PICK f \in [0..n -> Seq(W)] : Joining(f, n, seqs) /\ FlattenSeq(seqs) = f[n]
  BY FlattenUpto
<1> DEFINE len == [i \in 1..n |-> Len(seqs[i])]
<1>2. \A i \in 1..n : Len(seqs[i]) \in Nat
  OBVIOUS
<1>3. len \in [1..n -> Nat] /\ len \in [1..n -> Int]
  BY <1>2
<1>4. PICK g \in [0..n -> Int] :
         g[0] = 0 /\ (\A i \in 1..n : g[i] = g[i - 1] + len[i]) /\ Total(len) = g[n]
  <2> HIDE DEF len
  <2> QED BY <1>3, TotalUpto
<1> DEFINE h == [i \in 0..n |-> Len(f[i])]
<1>5. InStep(h, g, n)
  <2>1. h[0] = g[0]
    BY <1>1, <1>4 DEF Joining
  <2>2. ASSUME NEW i \in 1..n, h[i - 1] = g[i - 1] PROVE h[i] = g[i]
    <3>1. i - 1 \in 0..n /\ i \in 0..n
      OBVIOUS
    <3>2. f[i] = f[i - 1] \o seqs[i] /\ f[i - 1] \in Seq(W) /\ seqs[i] \in Seq(W)
      BY <1>1, <3>1 DEF Joining
    <3>3. Len(f[i]) = Len(f[i - 1]) + Len(seqs[i])
      BY <3>2
    <3>4. h[i] = Len(f[i]) /\ h[i - 1] = Len(f[i - 1]) /\ len[i] = Len(seqs[i])
      BY <3>1
    <3> HIDE DEF h, len
    <3>5. g[i] = g[i - 1] + len[i]
      BY <1>4
    <3> QED BY <2>2, <3>3, <3>4, <3>5
  <2> HIDE DEF h
  <2> QED BY <2>1, <2>2 DEF InStep
<1>6. h[n] = g[n]
  <2> HIDE DEF h
  <2>1. \A i \in 0..n : h[i] = g[i]
    BY <1>5, StepwiseEqual
  <2> QED BY <2>1
<1>7. h[n] = Len(f[n]) /\ f[n] \in Seq(W)
  OBVIOUS
<1> HIDE DEF h
<1> QED BY <1>1, <1>3, <1>4, <1>6, <1>7

\* Two joined parts can be told apart by the length of the second.
LEMMA ConcatParts ==
    ASSUME NEW W, NEW a \in Seq(W), NEW b \in Seq(W), NEW c \in Seq(W),
           NEW d \in Seq(W), Len(b) = Len(d), a \o b = c \o d
    PROVE  a = c /\ b = d
<1>1. Len(a \o b) = Len(a) + Len(b) /\ Len(c \o d) = Len(c) + Len(d)
  <2>1. \A x, y \in Seq(W) : Len(x \o y) = Len(x) + Len(y)
    OBVIOUS
  <2> QED BY ONLY a \in Seq(W), b \in Seq(W), c \in Seq(W), d \in Seq(W), <2>1
<1>2. Len(a) = Len(c) /\ Len(a) \in Nat /\ Len(b) \in Nat
  BY <1>1
<1>3. \A i \in 1..Len(a) : a[i] = (a \o b)[i] /\ c[i] = (c \o d)[i]
  BY <1>2
<1>4. \A i \in 1..Len(b) :
         b[i] = (a \o b)[Len(a) + i] /\ d[i] = (c \o d)[Len(a) + i]
  BY <1>2
<1>5. \A i \in 1..Len(a) : a[i] = c[i]
  BY <1>3
<1>6. \A i \in 1..Len(b) : b[i] = d[i]
  BY <1>4
<1>7. a = c
  BY <1>2, <1>5
<1> QED BY <1>6, <1>7

(***************************************************************************)
(* Parts of given lengths can be read off what is joined of them.          *)
(***************************************************************************)
LEMMA FlattenInjective ==
    ASSUME NEW n \in Nat, NEW W, NEW r \in [1..n -> Seq(W)], NEW s \in [1..n -> Seq(W)],
           \A i \in 1..n : Len(r[i]) = Len(s[i]),
           FlattenSeq(r) = FlattenSeq(s)
    PROVE  r = s
<1>1. PICK f \in [0..n -> Seq(W)] : Joining(f, n, r) /\ FlattenSeq(r) = f[n]
  BY FlattenUpto
<1>2. PICK g \in [0..n -> Seq(W)] : Joining(g, n, s) /\ FlattenSeq(s) = g[n]
  BY FlattenUpto
<1>3. ASSUME NEW i \in 1..n, f[i] = g[i]
      PROVE  f[i - 1] = g[i - 1] /\ r[i] = s[i]
  <2>1. i - 1 \in 0..n
    OBVIOUS
  <2>2. /\ f[i - 1] \in Seq(W) /\ r[i] \in Seq(W)
        /\ g[i - 1] \in Seq(W) /\ s[i] \in Seq(W)
    BY <2>1
  <2>3. f[i - 1] \o r[i] = g[i - 1] \o s[i]
    BY <1>1, <1>2, <1>3 DEF Joining
  <2>4. Len(r[i]) = Len(s[i])
    OBVIOUS
  <2> DEFINE a == f[i - 1]
             b == r[i]
             c == g[i - 1]
             d == s[i]
  <2>5. /\ a \in Seq(W) /\ b \in Seq(W) /\ c \in Seq(W) /\ d \in Seq(W)
        /\ Len(b) = Len(d) /\ a \o b = c \o d
    BY <2>2, <2>3, <2>4
  <2> HIDE DEF a, b, c, d
  <2>6. a = c /\ b = d
    BY ONLY <2>5, ConcatParts
  <2> QED BY <2>6 DEF a, b, c, d
<1> DEFINE Bad == {k \in 0..n : f[n - k] # g[n - k]}
<1>4. ASSUME Bad # {} PROVE FALSE
  <2>1. PICK x \in Bad : \A y \in Bad : x <= y
    <3>1. Bad \subseteq Nat
      OBVIOUS
    <3> HIDE DEF Bad
    <3> QED BY <1>4, <3>1, LeastNumber
  <2>2. x \in 0..n /\ f[n - x] # g[n - x]
    BY DEF Bad
  <2>3. x # 0
    <3>1. f[n] = g[n]
      BY <1>1, <1>2, Zenon
    <3>2. n - 0 = n
      OBVIOUS
    <3> QED BY <2>2, <3>1, <3>2
  <2>4. x - 1 \in 0..n /\ ~(x <= x - 1)
    BY <2>2, <2>3
  <2>5. x - 1 \notin Bad
    BY <2>1, <2>4
  <2>6. f[n - (x - 1)] = g[n - (x - 1)]
    BY <2>4, <2>5 DEF Bad
  <2>7. n - (x - 1) \in 1..n /\ (n - (x - 1)) - 1 = n - x
    BY <2>2, <2>3
  <2> QED BY <2>2, <2>6, <2>7, <1>3
<1>5. ASSUME NEW i \in 0..n PROVE f[i] = g[i]
  <2>1. n - i \in 0..n /\ n - (n - i) = i
    OBVIOUS
  <2>2. n - i \notin Bad
    BY <1>4
  <2> QED BY <2>1, <2>2 DEF Bad
<1>6. \A i \in 1..n : r[i] = s[i]
  <2> TAKE i \in 1..n
  <2>1. i \in 0..n
    OBVIOUS
  <2> QED BY <2>1, <1>3, <1>5
<1> QED BY <1>6

-----------------------------------------------------------------------------
(* Finite sets in the order of their keys                                  *)

\* A finite set without one of its elements.
LEMMA OneLess ==
    ASSUME NEW T, IsFiniteSet(T), NEW x \in T
    PROVE  /\ IsFiniteSet(T \ {x}) /\ Cardinality(T) \in Nat
           /\ Cardinality(T) > 0 /\ Cardinality(T \ {x}) = Cardinality(T) - 1
<1>1. IsFiniteSet(T \ {x}) /\ Cardinality(T \ {x}) = Cardinality(T) - 1
  BY FS_RemoveElement
<1>2. Cardinality(T) \in Nat /\ Cardinality(T \ {x}) \in Nat
  BY <1>1, FS_CardinalityType
<1> QED BY <1>1, <1>2

\* Every non-empty part of a finite set has an element of highest key.
LEMMA HighestKey ==
    ASSUME NEW S, IsFiniteSet(S), NEW key, \A s \in S : key[s] \in Int
    PROVE  \A T \in (SUBSET S) \ {{}} : \E x \in T : \A y \in T : key[y] <= key[x]
<1> DEFINE Has(T) == \E x \in T : \A y \in T : key[y] <= key[x]
           Bad == {m \in Nat : \E T \in SUBSET S : T # {} /\ Cardinality(T) = m /\ ~Has(T)}
<1>1. ASSUME Bad # {} PROVE FALSE
  <2>1. PICK m \in Bad : \A k \in Bad : m <= k
    <3>1. Bad \subseteq Nat
      OBVIOUS
    <3> HIDE DEF Bad
    <3> QED BY <1>1, <3>1, LeastNumber
  <2>2. PICK T \in SUBSET S : T # {} /\ Cardinality(T) = m /\ ~Has(T)
    BY <2>1
  <2>3. PICK x \in T : TRUE
    BY <2>2
  <2>4. IsFiniteSet(T)
    BY FS_Subset
  <2> DEFINE U == T \ {x}
  <2>5. Cardinality(U) = m - 1 /\ m \in Nat /\ m > 0
    BY <2>2, <2>3, <2>4, OneLess
  <2>6. CASE U = {}
    <3>1. \A y \in T : y = x
      BY <2>6
    <3>2. key[x] \in Int
      BY <2>3
    <3>3. Has(T)
      BY <2>3, <3>1, <3>2
    <3> QED BY <2>2, <3>3
  <2>7. CASE U # {}
    <3>1. Has(U)
      <4>1. m - 1 \notin Bad /\ m - 1 \in Nat
        BY <2>1, <2>5
      <4>2. U \in SUBSET S
        OBVIOUS
      <4> HIDE DEF U, Has
      <4> QED BY <2>5, <2>7, <4>1, <4>2
    <3>2. PICK z \in U : \A y \in U : key[y] <= key[z]
      BY <3>1
    <3>3. z \in T /\ z \in S /\ x \in S /\ key[z] \in Int /\ key[x] \in Int
      BY <2>3
    <3>4. \A y \in T : y = x \/ key[y] <= key[z]
      BY <3>2
    <3>5. \A y \in T : key[y] \in Int
      OBVIOUS
    <3>6. CASE key[x] <= key[z]
      <4>1. Has(T)
        BY <3>3, <3>4, <3>6
      <4> QED BY <2>2, <4>1
    <3>7. CASE ~(key[x] <= key[z])
      <4>1. \A y \in T : key[y] <= key[x]
        BY <3>3, <3>4, <3>5, <3>7
      <4>2. Has(T)
        BY <2>3, <4>1
      <4> QED BY <2>2, <4>2
    <3> QED BY <3>6, <3>7
  <2> QED BY <2>6, <2>7
<1>2. ASSUME NEW T \in (SUBSET S) \ {{}} PROVE Has(T)
  <2>1. Cardinality(T) \in Nat /\ Cardinality(T) \notin Bad
    <3>1. IsFiniteSet(T)
      BY FS_Subset
    <3> QED BY <1>1, <3>1, FS_CardinalityType
  <2> HIDE DEF Has
  <2> QED BY <2>1
<1> QED BY <1>2

(***************************************************************************)
(* Keys that differ put a finite set in a sequence.                        *)
(***************************************************************************)
Sorted(seq, n, key) == \A i, j \in 1..n : i < j => key[seq[i]] < key[seq[j]]

\* Different keys sort a finite set.
LEMMA SortedExists ==
    ASSUME NEW S, IsFiniteSet(S), NEW key, \A s \in S : key[s] \in Int,
           \A s, t \in S : s # t => key[s] # key[t]
    PROVE  \E seq \in [1..Cardinality(S) -> S] : Sorted(seq, Cardinality(S), key)
<1> DEFINE Has(T) == \E seq \in [1..Cardinality(T) -> T] : Sorted(seq, Cardinality(T), key)
           Bad == {m \in Nat : \E T \in SUBSET S : Cardinality(T) = m /\ ~Has(T)}
<1>1. ASSUME Bad # {} PROVE FALSE
  <2>1. PICK m \in Bad : \A k \in Bad : m <= k
    <3>1. Bad \subseteq Nat
      OBVIOUS
    <3> HIDE DEF Bad
    <3> QED BY <1>1, <3>1, LeastNumber
  <2>2. PICK T \in SUBSET S : Cardinality(T) = m /\ ~Has(T)
    BY <2>1
  <2>3. IsFiniteSet(T)
    BY FS_Subset
  <2>4. T # {}
    <3> SUFFICES ASSUME T = {} PROVE FALSE
      OBVIOUS
    <3>1. Cardinality(T) = 0
      BY FS_EmptySet
    <3> DEFINE none == [i \in 1..0 |-> i]
    <3>2. none \in [1..0 -> T] /\ Sorted(none, 0, key)
      BY DEF Sorted
    <3> QED BY <2>2, <3>1, <3>2
  <2>5. PICK x \in T : \A y \in T : key[y] <= key[x]
    BY <2>4, HighestKey
  <2> DEFINE U == T \ {x}
  <2>6. Cardinality(U) = m - 1 /\ m \in Nat /\ m > 0
    BY <2>2, <2>3, <2>5, OneLess
  <2>7. Has(U)
    <3>1. m - 1 \notin Bad /\ m - 1 \in Nat
      BY <2>1, <2>6
    <3>2. U \in SUBSET S
      OBVIOUS
    <3> HIDE DEF U, Has
    <3> QED BY <2>6, <3>1, <3>2
  <2>8. PICK seq \in [1..(m - 1) -> U] : Sorted(seq, m - 1, key)
    BY <2>6, <2>7
  <2> DEFINE more == [i \in 1..m |-> IF i = m THEN x ELSE seq[i]]
  <2>9. \A i \in 1..m : i = m \/ (i \in 1..(m - 1) /\ seq[i] \in U /\ more[i] = seq[i])
    BY <2>6
  <2>10. more[m] = x /\ m \in 1..m
    BY <2>6
  <2>11. more \in [1..m -> T]
    BY <2>9
  <2> HIDE DEF more
  <2>12. Sorted(more, m, key)
    <3> SUFFICES ASSUME NEW i \in 1..m, NEW j \in 1..m, i < j
                 PROVE  key[more[i]] < key[more[j]]
      BY DEF Sorted
    <3>1. i # m /\ i \in 1..(m - 1) /\ seq[i] \in U /\ more[i] = seq[i]
      BY <2>6, <2>9
    <3>2. CASE j = m
      <4>1. seq[i] \in S /\ x \in S /\ seq[i] # x /\ seq[i] \in T
        BY <3>1
      <4>2. key[seq[i]] \in Int /\ key[x] \in Int /\ key[seq[i]] # key[x]
        BY <4>1
      <4>3. key[seq[i]] <= key[x]
        BY <4>1, <2>5
      <4> QED BY <3>1, <3>2, <2>10, <4>2, <4>3
    <3>3. CASE j # m
      <4>1. j \in 1..(m - 1) /\ more[j] = seq[j]
        BY <3>3, <2>9
      <4> QED BY <3>1, <4>1, <2>8 DEF Sorted
    <3> QED BY <3>2, <3>3
  <2>13. Has(T)
    BY <2>2, <2>11, <2>12
  <2> QED BY <2>2, <2>13
<1>2. Has(S)
  <2>1. Cardinality(S) \in Nat /\ Cardinality(S) \notin Bad
    BY <1>1, FS_CardinalityType
  <2> HIDE DEF Has
  <2> QED BY <2>1
<1> QED BY <1>2

(***************************************************************************)
(* A sequence of as many different elements as the set has holds them all. *)
(***************************************************************************)
LEMMA SortedIsOnto ==
    ASSUME NEW S, IsFiniteSet(S), NEW key, \A s \in S : key[s] \in Int,
           NEW seq \in [1..Cardinality(S) -> S], Sorted(seq, Cardinality(S), key)
    PROVE  /\ \A i, j \in 1..Cardinality(S) : i # j => seq[i] # seq[j]
           /\ \A x \in S : \E i \in 1..Cardinality(S) : seq[i] = x
<1> DEFINE n == Cardinality(S)
<1>1. n \in Nat
  BY FS_CardinalityType
<1> HIDE DEF n
<1>2. seq \in [1..n -> S] /\ Sorted(seq, n, key)
  BY DEF n
<1>3. ASSUME NEW i \in 1..n, NEW j \in 1..n, i # j PROVE seq[i] # seq[j]
  <2>1. key[seq[i]] \in Int /\ key[seq[j]] \in Int /\ (i < j \/ j < i)
    <3>1. seq[i] \in S /\ seq[j] \in S
      BY <1>2
    <3>2. i < j \/ j < i
      BY <1>1, <1>3
    <3> QED BY <3>1, <3>2
  <2>2. key[seq[i]] < key[seq[j]] \/ key[seq[j]] < key[seq[i]]
    BY <1>2, <2>1 DEF Sorted
  <2> QED BY <2>1, <2>2
<1>4. seq \in Injection(1..n, S)
  BY <1>2, <1>3 DEF Injection, IsInjective
<1>5. IsFiniteSet(1..n) /\ Cardinality(1..n) = n
  <2>1. 1 \in Int /\ n \in Int
    BY <1>1
  <2>2. IsFiniteSet(1..n) /\ Cardinality(1..n) = IF 1 > n THEN 0 ELSE n - 1 + 1
    BY <2>1, FS_Interval
  <2> QED BY <1>1, <2>2
<1>6. seq \in Surjection(1..n, S)
  BY <1>4, <1>5, FS_Injection DEF n
<1>7. \A x \in S : \E i \in 1..n : seq[i] = x
  BY <1>6 DEF Surjection
<1> QED BY <1>3, <1>7 DEF n

-----------------------------------------------------------------------------
(* Totals over the elements of a set                                       *)

\* k pairs of one element with the numbers up to k.
LEMMA CopiesOfOne ==
    ASSUME NEW x, NEW k \in Nat
    PROVE  IsFiniteSet({x} \X (1..k)) /\ Cardinality({x} \X (1..k)) = k
<1>1. IsFiniteSet({x}) /\ Cardinality({x}) = 1
  BY FS_Singleton
<1>2. IsFiniteSet(1..k) /\ Cardinality(1..k) = k
  <2>1. 1 \in Int /\ k \in Int
    OBVIOUS
  <2>2. IsFiniteSet(1..k) /\ Cardinality(1..k) = IF 1 > k THEN 0 ELSE k - 1 + 1
    BY <2>1, FS_Interval
  <2> QED BY <2>2
<1>3. /\ IsFiniteSet({x} \X (1..k))
      /\ Cardinality({x} \X (1..k)) = Cardinality({x}) * Cardinality(1..k)
  BY <1>1, <1>2, FS_Product
<1> QED BY <1>1, <1>2, <1>3

\* w[x] things for every x of S
Copies(S, w) == UNION {{x} \X (1..w[x]) : x \in S}

Enumerates(a, n, S) ==
    /\ a \in [1..n -> S]
    /\ \A i, j \in 1..n : i # j => a[i] # a[j]
    /\ \A x \in S : \E i \in 1..n : a[i] = x

\* The total of the weights of a[1] to a[n]
Weighed(a, n, w) == Total([i \in 1..n |-> w[a[i]]])

(***************************************************************************)
(* The total does not depend on the order of the elements.                 *)
(***************************************************************************)
LEMMA TotalIsCount ==
    ASSUME NEW n \in Nat, NEW S, NEW a, Enumerates(a, n, S), NEW w \in [S -> Nat]
    PROVE  /\ IsFiniteSet(Copies(S, w)) /\ Cardinality(Copies(S, w)) \in Nat
           /\ Weighed(a, n, w) = Cardinality(Copies(S, w))
<1> DEFINE B == [i \in 1..n |-> {a[i]} \X (1..w[a[i]])]
<1>1. \A i \in 1..n : a[i] \in S /\ w[a[i]] \in Nat
  BY DEF Enumerates
<1>2. \A i \in 1..n : IsFiniteSet(B[i]) /\ Cardinality(B[i]) = w[a[i]]
  BY <1>1, CopiesOfOne
<1>3. \A i, j \in 1..n : i # j => B[i] \cap B[j] = {}
  BY DEF Enumerates
<1>4. UNION {B[i] : i \in 1..n} = Copies(S, w)
  <2>1. \A i \in 1..n : B[i] = {a[i]} \X (1..w[a[i]])
    OBVIOUS
  <2> HIDE DEF B
  <2>2. ASSUME NEW i \in 1..n PROVE \E x \in S : B[i] = {x} \X (1..w[x])
    BY <1>1, <2>1
  <2>3. ASSUME NEW x \in S PROVE \E i \in 1..n : B[i] = {x} \X (1..w[x])
    BY <2>1 DEF Enumerates
  <2> QED BY <2>2, <2>3 DEF Copies
<1>5. [i \in 1..n |-> Cardinality(B[i])] = [i \in 1..n |-> w[a[i]]]
  <2> HIDE DEF B
  <2> QED BY <1>2
<1>6. Apart(n, B)
  <2> HIDE DEF B
  <2> QED BY <1>2, <1>3 DEF Apart
<1> HIDE DEF B
<1>7. LET all == UNION {B[i] : i \in 1..n} IN
      /\ IsFiniteSet(all) /\ Cardinality(all) \in Nat
      /\ Total([i \in 1..n |-> Cardinality(B[i])]) = Cardinality(all)
  BY <1>6, TotalOfSizes, Zenon
<1> QED BY <1>4, <1>5, <1>7, Zenon DEF Weighed

(***************************************************************************)
(* Fewer elements, or fewer of one of them, are less in total.             *)
(***************************************************************************)
Fewer(S, u, T, w, x) ==
    /\ S \subseteq T /\ u \in [S -> Nat] /\ w \in [T -> Nat]
    /\ \A y \in S : u[y] <= w[y]
    /\ x \in T /\ w[x] > 0 /\ (x \in S => u[x] < w[x])

\* Less of one element and no more of any other make a smaller total.
LEMMA LessInTotal ==
    ASSUME NEW m \in Nat, NEW n \in Nat, NEW S, NEW T, NEW u, NEW w, NEW x,
           NEW a, Enumerates(a, m, S), NEW b, Enumerates(b, n, T),
           Fewer(S, u, T, w, x)
    PROVE  /\ Weighed(a, m, u) \in Nat /\ Weighed(b, n, w) \in Nat
           /\ Weighed(a, m, u) < Weighed(b, n, w)
<1> DEFINE few == Copies(S, u)
           many == Copies(T, w)
<1>0. /\ S \subseteq T /\ u \in [S -> Nat] /\ w \in [T -> Nat]
      /\ \A y \in S : u[y] <= w[y]
      /\ x \in T /\ w[x] > 0 /\ (x \in S => u[x] < w[x])
  BY DEF Fewer
<1>1. /\ IsFiniteSet(few) /\ Cardinality(few) \in Nat
      /\ Weighed(a, m, u) = Cardinality(few)
  BY <1>0, TotalIsCount
<1>2. /\ IsFiniteSet(many) /\ Cardinality(many) \in Nat
      /\ Weighed(b, n, w) = Cardinality(many)
  BY <1>0, TotalIsCount
<1>3. few \subseteq many
  <2> SUFFICES ASSUME NEW y \in S, NEW k \in 1..u[y] PROVE <<y, k>> \in many
    BY DEF Copies
  <2>1. y \in T /\ k \in 1..w[y]
    <3>1. y \in T /\ u[y] \in Nat /\ w[y] \in Nat /\ u[y] <= w[y]
      BY <1>0
    <3> QED BY <3>1
  <2> QED BY <2>1 DEF Copies
<1>4. <<x, w[x]>> \in many /\ <<x, w[x]>> \notin few
  <2>1. x \in T /\ w[x] \in 1..w[x]
    BY <1>0
  <2>2. <<x, w[x]>> \in many
    BY <2>1 DEF Copies
  <2>3. ASSUME <<x, w[x]>> \in few PROVE FALSE
    <3>1. x \in S /\ w[x] \in 1..u[x]
      BY <2>3 DEF Copies
    <3>2. u[x] \in Nat /\ w[x] \in Nat /\ u[x] < w[x]
      BY <1>0, <3>1
    <3> QED BY <3>1, <3>2
  <2> QED BY <2>2, <2>3
<1> HIDE DEF few, many
<1>5. Cardinality(few) <= Cardinality(many) /\ Cardinality(few) # Cardinality(many)
  BY <1>2, <1>3, <1>4, FS_Subset
<1> QED BY <1>1, <1>2, <1>5
=============================================================================
