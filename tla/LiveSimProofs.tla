--------------------------- MODULE LiveSimProofs ---------------------------
(***************************************************************************)
(* Proofs about live_sim: its types, that the profit of PnLTracker is the  *)
(* cash of the fills, that the strategy's quotes are passive and its       *)
(* intent follows the lag, and that the kill switch is exact and final.    *)
(***************************************************************************)
EXTENDS LiveSim, DataInduction, SequenceTheorems

-----------------------------------------------------------------------------
(* Arithmetic                                                              *)

Positive == Nat \ {0}

LEMMA DivIdentity ==
    ASSUME NEW a \in Int, NEW b \in Int, b > 0
    PROVE  a = b * (a \div b) + (a % b)
BY SMTT(60)

LEMMA DivMod ==
    ASSUME NEW a \in Int, NEW b \in Int, b > 0
    PROVE  /\ a \div b \in Int /\ a % b \in 0..(b - 1)
           /\ a = b * (a \div b) + (a % b)
<1>1. a = b * (a \div b) + (a % b)
  BY DivIdentity
<1>2. a \div b \in Int /\ a % b \in 0..(b - 1)
  BY SMTT(60)
<1> QED BY <1>1, <1>2

LEMMA Cancel ==
    ASSUME NEW x \in Int, NEW y \in Int, NEW k \in Int, k # 0, x * k = y * k
    PROVE  x = y
BY SMTT(60)

LEMMA ProductNotPositive ==
    ASSUME NEW a \in Int, NEW b \in Int, a > 0, b <= 0
    PROVE  a * b <= 0
BY SMTT(60)

LEMMA ProductPositive ==
    ASSUME NEW a \in Int, NEW b \in Int, a > 0, b > 0
    PROVE  a * b \in Int /\ a * b > 0
BY SMTT(60)

LEMMA QuotientIs ==
    ASSUME NEW a \in Int, NEW b \in Int, b > 0, NEW q \in Int, NEW r \in 0..(b - 1),
           a = b * q + r
    PROVE  a \div b = q /\ a % b = r
BY SMTT(60)

LEMMA MinOfTwo ==
    ASSUME NEW a \in Int, NEW b \in Int
    PROVE  Min({a, b}) = IF a <= b THEN a ELSE b
<1> DEFINE m == IF a <= b THEN a ELSE b
<1>1. m \in {a, b} /\ m \in Int /\ \A y \in {a, b} : m <= y
  OBVIOUS
<1>2. \A x \in {a, b} : (\A y \in {a, b} : x <= y) => x = m
  OBVIOUS
<1> HIDE DEF m
<1>3. Min({a, b}) = m
  BY <1>1, <1>2 DEF Min
<1> QED BY <1>3 DEF m

LEMMA MaxOfTwo ==
    ASSUME NEW a \in Int, NEW b \in Int
    PROVE  Max({a, b}) = IF a >= b THEN a ELSE b
<1> DEFINE m == IF a >= b THEN a ELSE b
<1>1. m \in {a, b} /\ m \in Int /\ \A y \in {a, b} : m >= y
  OBVIOUS
<1>2. \A x \in {a, b} : (\A y \in {a, b} : x >= y) => x = m
  OBVIOUS
<1> HIDE DEF m
<1>3. Max({a, b}) = m
  BY <1>1, <1>2 DEF Max
<1> QED BY <1>3 DEF m

-----------------------------------------------------------------------------
(* Fractions                                                               *)

(***************************************************************************)
(* The fraction made of n and d has their value and a positive denominator.*)
(***************************************************************************)
LEMMA FracValue ==
    ASSUME NEW n \in Int, NEW d \in Int, d # 0
    PROVE  /\ Frac(n, d) \in [num : Int, den : Positive]
           /\ Frac(n, d).num * d = n * Frac(n, d).den
<1> DEFINE K == {k \in 1..Abs(d) : n % k = 0 /\ d % k = 0}
           g == Max(K)
           sign == IF d < 0 THEN -1 ELSE 1
<1>1. Abs(d) \in Positive /\ d = sign * Abs(d) /\ sign \in {-1, 1}
  BY DEF Abs, Positive
<1>2. 1 \in K
  <2>1. n % 1 = 0 /\ d % 1 = 0
    BY SMT
  <2> QED BY <2>1, <1>1 DEF Positive
<1>3. g \in K
  <2>1. \E x \in K : \A y \in K : x >= y
    <3> DEFINE T == {m \in 0..Abs(d) : Abs(d) - m \in K}
    <3>1. T \subseteq Nat /\ Abs(d) - 1 \in T
      BY <1>1, <1>2 DEF Positive
    <3>2. PICK m \in T : \A y \in T : m <= y
      <4> HIDE DEF T
      <4> QED BY <3>1, LeastNumber
    <3>3. Abs(d) - m \in K
      OBVIOUS
    <3>4. ASSUME NEW y \in K PROVE Abs(d) - m >= y
      <4>1. Abs(d) - y \in T
        <5>1. y \in 1..Abs(d) /\ Abs(d) - (Abs(d) - y) = y /\ Abs(d) - y \in 0..Abs(d)
          BY <1>1 DEF Positive
        <5> QED BY <5>1
      <4>2. m <= Abs(d) - y /\ m \in Int /\ y \in Int
        BY <4>1, <3>2
      <4> QED BY <4>2, <1>1 DEF Positive
    <3> QED BY <3>3, <3>4
  <2> HIDE DEF K
  <2>2. g = CHOOSE x \in K : \A y \in K : x >= y
    BY DEF Max
  <2> QED BY <2>1, <2>2
<1>4. g \in Positive /\ g <= Abs(d) /\ n % g = 0 /\ d % g = 0
  <2> HIDE DEF g
  <2> QED BY <1>3, <1>1 DEF Positive
<1> HIDE DEF g, K
<1>5. PICK u \in Int, v \in Int : n = g * u /\ d = g * v /\ n \div g = u
  <2>1. n \div g \in Int /\ n = g * (n \div g) + (n % g)
    BY <1>4, DivMod DEF Positive
  <2>2. d \div g \in Int /\ d = g * (d \div g) + (d % g)
    BY <1>4, DivMod DEF Positive
  <2>3. g * (n \div g) \in Int /\ g * (d \div g) \in Int
    BY <1>4, <2>1, <2>2 DEF Positive
  <2>4. n = g * (n \div g) /\ d = g * (d \div g)
    <3> DEFINE x == g * (n \div g)
               y == g * (d \div g)
    <3>1. n = x + 0 /\ d = y + 0 /\ x \in Int /\ y \in Int
      BY <2>1, <2>2, <2>3, <1>4
    <3> HIDE DEF x, y
    <3>2. n = x /\ d = y
      BY <3>1
    <3> QED BY <3>2 DEF x, y
  <2> QED BY <2>1, <2>2, <2>4, Zenon
<1>6. Abs(d) = g * (sign * v) /\ sign * v \in Int
  BY <1>1, <1>4, <1>5 DEF Positive
<1>7. sign * v \in Positive
  <2>1. ASSUME sign * v <= 0 PROVE FALSE
    <3>1. g * (sign * v) <= 0
      <4> DEFINE w == sign * v
      <4>1. w \in Int /\ w <= 0 /\ g \in Int /\ g > 0
        BY <1>4, <1>6, <2>1 DEF Positive
      <4> HIDE DEF w
      <4>2. g * w <= 0
        BY <4>1, ProductNotPositive, Zenon
      <4> QED BY <4>2 DEF w
    <3> QED BY <3>1, <1>6, <1>1 DEF Positive
  <2> QED BY <2>1, <1>6 DEF Positive
<1>8. Abs(d) \div g = sign * v
  BY <1>6, <1>4, QuotientIs DEF Positive
<1>9. Frac(n, d) = [num |-> sign * u, den |-> sign * v]
  BY <1>5, <1>8 DEF Frac, g, K
<1>10. sign * u \in Int
  BY <1>1, <1>5
<1>11. (sign * u) * d = n * (sign * v)
  BY <1>1, <1>4, <1>5 DEF Positive
<1> QED BY <1>7, <1>9, <1>10, <1>11

(***************************************************************************)
(* A whole value is written with the denominator 1.                        *)
(***************************************************************************)
LEMMA FracWhole ==
    ASSUME NEW c \in Int, NEW d \in Positive
    PROVE  Frac(c * d, d) = Whole(c)
<1> DEFINE K == {k \in 1..d : (c * d) % k = 0 /\ d % k = 0}
<1>1. Abs(d) = d /\ ~(d < 0) /\ d \in Int /\ d > 0
  BY DEF Abs, Positive
<1>2. (c * d) % d = 0 /\ (c * d) \div d = c
  <2>1. c * d = d * c + 0 /\ c * d \in Int
    BY <1>1
  <2> QED BY <2>1, <1>1, QuotientIs
<1>3. d % d = 0 /\ d \div d = 1
  <2>1. d = d * 1 + 0
    BY <1>1
  <2> QED BY <2>1, <1>1, QuotientIs
<1>4. d \in K /\ \A y \in K : d >= y
  BY <1>1, <1>2, <1>3
<1>5. Max(K) = d
  <2>1. \A x \in K : (\A y \in K : x >= y) => x = d
    <3> TAKE x \in K
    <3>1. x \in 1..d
      OBVIOUS
    <3> QED BY <3>1, <1>4, <1>1
  <2> HIDE DEF K
  <2> QED BY <1>4, <2>1 DEF Max
<1>6. Frac(c * d, d) = [num |-> 1 * ((c * d) \div d), den |-> d \div d]
  BY <1>1, <1>5 DEF Frac
<1> QED BY <1>2, <1>3, <1>6 DEF Whole

Rationals == [num : Int, den : Positive]

LEMMA PlusValue ==
    ASSUME NEW a \in Rationals, NEW b \in Rationals
    PROVE  /\ Plus(a, b) \in Rationals
           /\ Plus(a, b).num * (a.den * b.den) = (a.num * b.den + b.num * a.den) * Plus(a, b).den
<1>1. /\ a.num \in Int /\ b.num \in Int
      /\ a.den \in Int /\ b.den \in Int /\ a.den > 0 /\ b.den > 0
  BY DEF Rationals, Positive
<1>2. a.den * b.den \in Int /\ a.den * b.den > 0
  BY <1>1, ProductPositive, Zenon
<1>3. a.num * b.den + b.num * a.den \in Int
  BY <1>1
<1>4. a.den * b.den # 0
  BY <1>2
<1> QED BY <1>2, <1>3, <1>4, FracValue, Zenon DEF Plus, Rationals

LEMMA TimesValue ==
    ASSUME NEW a \in Rationals, NEW k \in Int
    PROVE  /\ Times(a, k) \in Rationals
           /\ Times(a, k).num * a.den = (a.num * k) * Times(a, k).den
<1>1. a.num * k \in Int /\ a.den \in Int /\ a.den # 0
  BY DEF Rationals, Positive
<1> QED BY <1>1, FracValue, Zenon DEF Times, Rationals

LEMMA WholeValue ==
    ASSUME NEW n \in Int
    PROVE  Whole(n) \in Rationals /\ Whole(n).num = n /\ Whole(n).den = 1
BY DEF Whole, Rationals, Positive

-----------------------------------------------------------------------------
(* Identities of the bookkeeping: R / S is realised, A / B the average, p  *)
(* the position and c the cash                                             *)

LEMMA SumOfFractions ==
    ASSUME NEW X \in Int, NEW Y \in Int, Y > 0, NEW A \in Int, NEW B \in Int, B > 0,
           NEW z \in Int, NEW U \in Int, NEW V \in Int,
           X * B = A * Y, U * Y = (X + z * Y) * V
    PROVE  U * B = (A + z * B) * V
<1>1. (U * B) * Y = ((A + z * B) * V) * Y
  <2>1. (U * B) * Y = (U * Y) * B
    BY SMT
  <2>2. ((X + z * Y) * V) * B = (X * B + z * Y * B) * V
    BY SMT
  <2>3. (A * Y + z * Y * B) * V = ((A + z * B) * V) * Y
    BY SMT
  <2> QED BY <2>1, <2>2, <2>3
<1>2. U * B \in Int /\ (A + z * B) * V \in Int /\ Y # 0
  OBVIOUS
<1> QED BY <1>1, <1>2, Cancel, Zenon

LEMMA AverageMoves ==
    ASSUME NEW A \in Int, NEW B \in Int, B > 0, NEW p \in Int, NEW z \in Int,
           NEW U \in Int, NEW V \in Int, V > 0, NEW N \in Int, NEW M \in Int, NEW np \in Int,
           U * B = (A * p + z * B) * V, N * (V * np) = U * M
    PROVE  (N * np) * B = (A * p + z * B) * M
<1>1. ((N * np) * B) * V = ((A * p + z * B) * M) * V
  <2>1. ((N * np) * B) * V = (N * (V * np)) * B
    BY SMT
  <2>2. (U * M) * B = (U * B) * M
    BY SMT
  <2>3. ((A * p + z * B) * V) * M = ((A * p + z * B) * M) * V
    BY SMT
  <2> QED BY <2>1, <2>2, <2>3
<1>2. (N * np) * B \in Int /\ (A * p + z * B) * M \in Int /\ V # 0
  OBVIOUS
<1> QED BY <1>1, <1>2, Cancel, Zenon

LEMMA OpenIdentity ==
    ASSUME NEW R \in Int, NEW S \in Int, NEW A \in Int, NEW B \in Int, B > 0, NEW p \in Int,
           NEW c \in Int, NEW z \in Int, NEW N \in Int, NEW M \in Int, NEW np \in Int,
           R * B = (A * p + c * B) * S, (N * np) * B = (A * p + z * B) * M
    PROVE  R * M = (N * np + (c - z) * M) * S
<1>1. (R * M) * B = ((N * np + (c - z) * M) * S) * B
  <2>1. (R * M) * B = (R * B) * M
    BY SMT
  <2>2. ((A * p + c * B) * S) * M = ((A * p + z * B) * M + (c - z) * M * B) * S
    BY SMT
  <2>3. ((N * np) * B + (c - z) * M * B) * S = ((N * np + (c - z) * M) * S) * B
    BY SMT
  <2> QED BY <2>1, <2>2, <2>3
<1>2. R * M \in Int /\ (N * np + (c - z) * M) * S \in Int /\ B # 0
  OBVIOUS
<1> QED BY <1>1, <1>2, Cancel, Zenon

\* What the gain G / B does to the realised profit
LEMMA RealizedMoves ==
    ASSUME NEW R \in Int, NEW S \in Int, NEW B \in Int, NEW G \in Int,
           NEW O \in Int, NEW P \in Int, P > 0, NEW R1 \in Int, NEW S1 \in Int,
           O * B = G * P, R1 * (S * P) = (R * P + O * S) * S1
    PROVE  (R1 * S) * B = (R * B + G * S) * S1
<1>1. ((R1 * S) * B) * P = ((R * B + G * S) * S1) * P
  <2>1. ((R1 * S) * B) * P = (R1 * (S * P)) * B
    BY SMT
  <2>2. ((R * P + O * S) * S1) * B = (R * P * B + (O * B) * S) * S1
    BY SMT
  <2>3. (R * P * B + (G * P) * S) * S1 = ((R * B + G * S) * S1) * P
    BY SMT
  <2> QED BY <2>1, <2>2, <2>3
<1> DEFINE x == (R1 * S) * B
           y == (R * B + G * S) * S1
<1>2. x \in Int /\ y \in Int /\ x * P = y * P /\ P # 0
  BY <1>1
<1> HIDE DEF x, y
<1>3. x = y
  BY <1>2, Cancel, Zenon
<1> QED BY <1>3 DEF x, y

\* The whole position is closed.
LEMMA CloseIdentity ==
    ASSUME NEW R \in Int, NEW S \in Int, S > 0, NEW A \in Int, NEW B \in Int, B > 0,
           NEW p \in Int, NEW c \in Int, NEW px \in Int, NEW R1 \in Int, NEW S1 \in Int,
           R * B = (A * p + c * B) * S,
           (R1 * S) * B = (R * B + ((px * B - A) * p) * S) * S1
    PROVE  R1 = (c + px * p) * S1
<1>1. R1 * (S * B) = ((c + px * p) * S1) * (S * B)
  <2>1. R1 * (S * B) = (R1 * S) * B
    BY SMT
  <2>2. ((A * p + c * B) * S + ((px * B - A) * p) * S) * S1 = ((c + px * p) * S1) * (S * B)
    BY SMT
  <2> QED BY <2>1, <2>2
<1>2. R1 \in Int /\ (c + px * p) * S1 \in Int /\ S * B \in Int /\ S * B # 0
  <2>1. S * B \in Int /\ S * B > 0
    BY ProductPositive, Zenon
  <2> QED BY <2>1
<1> QED BY <1>1, <1>2, Cancel, Zenon

\* A part of the position is closed: q of the other sign.
LEMMA ReduceIdentity ==
    ASSUME NEW R \in Int, NEW S \in Int, S > 0, NEW A \in Int, NEW B \in Int,
           NEW p \in Int, NEW c \in Int, NEW px \in Int, NEW q \in Int,
           NEW R1 \in Int, NEW S1 \in Int,
           R * B = (A * p + c * B) * S,
           (R1 * S) * B = (R * B + ((px * B - A) * (-q)) * S) * S1
    PROVE  R1 * B = (A * (p + q) + (c - px * q) * B) * S1
<1>1. (R1 * B) * S = ((A * (p + q) + (c - px * q) * B) * S1) * S
  <2>1. (R1 * B) * S = (R1 * S) * B
    BY SMT
  <2>2. ((A * p + c * B) * S + ((px * B - A) * (-q)) * S) * S1
        = ((A * (p + q) + (c - px * q) * B) * S1) * S
    BY SMT
  <2> QED BY <2>1, <2>2
<1>2. R1 * B \in Int /\ (A * (p + q) + (c - px * q) * B) * S1 \in Int /\ S # 0
  OBVIOUS
<1> DEFINE x == R1 * B
           y == (A * (p + q) + (c - px * q) * B) * S1
<1>3. x \in Int /\ y \in Int /\ x * S = y * S /\ S # 0
  BY <1>1, <1>2
<1> HIDE DEF x, y
<1>4. x = y
  BY <1>3, Cancel, Zenon
<1> QED BY <1>4 DEF x, y

-----------------------------------------------------------------------------
(* PnLTracker                                                              *)

LEMMA PositionParts ==
    ASSUME NEW st \in Positions
    PROVE  /\ st = [position |-> st.position, avgPrice |-> st.avgPrice,
                    realizedPnL |-> st.realizedPnL]
           /\ st.position \in Int
           /\ st.avgPrice \in Rationals /\ st.realizedPnL \in Rationals
           /\ st.avgPrice.num \in Int /\ st.avgPrice.num >= 0
           /\ st.avgPrice.den \in Int /\ st.avgPrice.den > 0
           /\ st.realizedPnL.num \in Int
           /\ st.realizedPnL.den \in Int /\ st.realizedPnL.den > 0
BY DEF Positions, Rationals, Positive

LEMMA RationalParts ==
    ASSUME NEW r \in Rationals
    PROVE  r.num \in Int /\ r.den \in Int /\ r.den > 0
BY DEF Rationals, Positive

(***************************************************************************)
(* The average price weighted with the new position, as a fraction.        *)
(***************************************************************************)
LEMMA OpenedAverage ==
    ASSUME NEW st \in Positions, NEW px \in Nat, NEW q \in Int, q # 0,
           st.position = 0 \/ SameSign(st.position, q)
    PROVE  LET A == st.avgPrice.num
               B == st.avgPrice.den
               p == st.position
               np == p + q
               avg == Opened(st, px, q).avgPrice
           IN /\ Opened(st, px, q) = [st EXCEPT !.position = np, !.avgPrice = avg]
              /\ avg \in Rationals /\ avg.num >= 0
              /\ (avg.num * np) * B = (A * p + (px * q) * B) * avg.den
<1> DEFINE A == st.avgPrice.num
           B == st.avgPrice.den
           p == st.position
           np == p + q
           x == Times(st.avgPrice, p)
           y == Plus(x, Whole(px * q))
           avg == Frac(y.num, y.den * np)
<1>1. /\ A \in Int /\ A >= 0 /\ B \in Int /\ B > 0 /\ p \in Int
      /\ st.avgPrice \in Rationals
  BY PositionParts
<1>2. np \in Int /\ np # 0 /\ px * q \in Int
      /\ (np > 0 => p >= 0 /\ q > 0) /\ (np < 0 => p <= 0 /\ q < 0)
  BY <1>1 DEF SameSign
<1>3. x \in Rationals /\ x.num * B = (A * p) * x.den
  BY <1>1, TimesValue, Zenon
<1>4. x.num \in Int /\ x.den \in Int /\ x.den > 0
  BY <1>3, RationalParts
<1>5. Whole(px * q) \in Rationals /\ Whole(px * q).num = px * q /\ Whole(px * q).den = 1
  BY <1>2, WholeValue
<1>6. y \in Rationals /\ y.num * (x.den * 1) = (x.num * 1 + (px * q) * x.den) * y.den
  <2>1. y \in Rationals /\ y.num * (x.den * Whole(px * q).den)
           = (x.num * Whole(px * q).den + Whole(px * q).num * x.den) * y.den
    BY <1>3, <1>5, PlusValue, Zenon
  <2> HIDE DEF y, x, np, p
  <2> QED BY <2>1, <1>5
<1>7. y.num \in Int /\ y.den \in Int /\ y.den > 0
  BY <1>6, RationalParts
<1> DEFINE yn == y.num
           yd == y.den
           xn == x.num
           xd == x.den
<1>8. yn * xd = (xn + (px * q) * xd) * yd /\ yn \in Int /\ yd \in Int /\ yd > 0
      /\ xn \in Int /\ xd \in Int /\ xd > 0 /\ xn * B = (A * p) * xd
  <2> HIDE DEF x, y, A, B, p
  <2> QED BY <1>3, <1>4, <1>6, <1>7
<1>9. yd * np \in Int /\ yd * np # 0
  <2> HIDE DEF yd, np
  <2>1. yd * np \in Int /\ (yd * np = 0 => np = 0)
    <3>1. ASSUME yd * np = 0 PROVE np = 0
      <4>1. np * yd = 0 * yd
        BY <3>1, <1>8, <1>2
      <4> QED BY <4>1, <1>8, <1>2, Cancel
    <3> QED BY <3>1, <1>8, <1>2
  <2> QED BY <2>1, <1>2
<1>10. avg \in Rationals /\ avg.num * (yd * np) = yn * avg.den
  BY <1>8, <1>9, FracValue, Zenon DEF Rationals
<1>11. avg.num \in Int /\ avg.den \in Int /\ avg.den > 0
  BY <1>10, RationalParts
<1>12. Opened(st, px, q) = [st EXCEPT !.position = np, !.avgPrice = avg]
  BY DEF Opened
<1>13. Opened(st, px, q).avgPrice = avg
  BY <1>12, PositionParts
<1> HIDE DEF A, B, p, np, avg, yn, yd, xn, xd
<1>14. yn * B = (A * p + (px * q) * B) * yd
  <2>1. A * p \in Int
    BY <1>1
  <2> QED BY <2>1, <1>1, <1>2, <1>8, SumOfFractions
<1>15. (avg.num * np) * B = (A * p + (px * q) * B) * avg.den
  <2> DEFINE z == px * q
             N == avg.num
             M == avg.den
  <2>1. /\ A \in Int /\ B \in Int /\ B > 0 /\ p \in Int /\ z \in Int /\ np \in Int
        /\ yn \in Int /\ yd \in Int /\ yd > 0 /\ N \in Int /\ M \in Int
    BY <1>1, <1>2, <1>8, <1>11
  <2>2. yn * B = (A * p + z * B) * yd /\ N * (yd * np) = yn * M
    BY <1>10, <1>14
  <2> HIDE DEF z, N, M
  <2>3. (N * np) * B = (A * p + z * B) * M
    BY <2>1, <2>2, AverageMoves
  <2> QED BY <2>3 DEF z, N, M
<1>16. avg.num >= 0
  <2> DEFINE N == avg.num
             M == avg.den
             w == A * p + (px * q) * B
  <2>1. N \in Int /\ M \in Int /\ M > 0 /\ (N * np) * B = w * M
    BY <1>11, <1>15
  <2>2. w \in Int /\ (np > 0 => w >= 0) /\ (np < 0 => w <= 0)
    <3>1. np > 0 => A * p >= 0 /\ (px * q) >= 0
      BY <1>1, <1>2, SMTT(60)
    <3>2. np < 0 => A * p <= 0 /\ (px * q) <= 0
      BY <1>1, <1>2, SMTT(60)
    <3> DEFINE z == px * q
               v == A * p
    <3>3. z \in Int /\ v \in Int /\ (np > 0 => z >= 0 /\ v >= 0) /\ (np < 0 => z <= 0 /\ v <= 0)
      BY <3>1, <3>2, <1>1, <1>2
    <3> HIDE DEF z, v
    <3>4. z * B \in Int /\ (z >= 0 => z * B >= 0) /\ (z <= 0 => z * B <= 0)
      BY <3>3, <1>1, SMTT(60)
    <3>5. v + z * B \in Int /\ (np > 0 => v + z * B >= 0) /\ (np < 0 => v + z * B <= 0)
      BY <3>3, <3>4
    <3> QED BY <3>5 DEF z, v
  <2> HIDE DEF N, M, w
  <2>3. ASSUME N < 0 PROVE FALSE
    <3>1. CASE np > 0
      <4>1. np * B > 0 /\ np * B \in Int
        BY <3>1, <1>1, <1>2, ProductPositive
      <4>2. N * (np * B) < 0
        BY <4>1, <2>1, <2>3, SMTT(60)
      <4>3. w * M >= 0
        BY <3>1, <2>1, <2>2, SMTT(60)
      <4>4. N * (np * B) = (N * np) * B
        BY <2>1, <1>1, <1>2, SMT
      <4>5. (N * np) * B \in Int /\ w * M \in Int
        BY <2>1, <2>2, <1>1, <1>2
      <4>6. (N * np) * B < 0
        BY <4>2, <4>4
      <4>7. (N * np) * B >= 0
        BY <4>3, <2>1
      <4> QED BY <4>5, <4>6, <4>7
    <3>2. CASE np < 0
      <4>1. (-np) * B > 0 /\ (-np) * B \in Int
        BY <3>2, <1>1, <1>2, ProductPositive
      <4>2. N * ((-np) * B) < 0
        BY <4>1, <2>1, <2>3, SMTT(60)
      <4>3. (-w) * M >= 0
        BY <3>2, <2>1, <2>2, SMTT(60)
      <4>4. N * ((-np) * B) = -((N * np) * B) /\ (-w) * M = -(w * M)
        BY <2>1, <2>2, <1>1, <1>2, SMT
      <4>5. (N * np) * B \in Int /\ w * M \in Int
        BY <2>1, <2>2, <1>1, <1>2
      <4> QED BY <4>2, <4>3, <4>4, <4>5, <2>1
    <3> QED BY <3>1, <3>2, <1>2
  <2> QED BY <2>1, <2>3 DEF N
<1> QED BY <1>10, <1>12, <1>13, <1>15, <1>16 DEF A, B, p, np

LEMMA MakePosition ==
    ASSUME NEW p \in Int, NEW a \in Rationals, a.num >= 0, NEW r \in Rationals
    PROVE  [position |-> p, avgPrice |-> a, realizedPnL |-> r] \in Positions
BY DEF Positions, Rationals, Positive

LEMMA LedgerParts ==
    ASSUME NEW st \in Positions, NEW c \in Int
    PROVE  Ledger(st, c) <=>
             st.realizedPnL.num * st.avgPrice.den =
                 (st.avgPrice.num * st.position + c * st.avgPrice.den) * st.realizedPnL.den
BY DEF Ledger

(***************************************************************************)
(* A fill that opens or adds to a position keeps the ledger.               *)
(***************************************************************************)
LEMMA OpenedKeepsLedger ==
    ASSUME NEW st \in Positions, NEW c \in Int, Ledger(st, c), NEW px \in Nat, NEW q \in Int,
           q # 0, st.position = 0 \/ SameSign(st.position, q)
    PROVE  Opened(st, px, q) \in Positions /\ Ledger(Opened(st, px, q), c - px * q)
<1> DEFINE A == st.avgPrice.num
           B == st.avgPrice.den
           R == st.realizedPnL.num
           S == st.realizedPnL.den
           p == st.position
           np == p + q
           avg == Opened(st, px, q).avgPrice
           N == avg.num
           M == avg.den
           z == px * q
           new == Opened(st, px, q)
<1>1. /\ A \in Int /\ B \in Int /\ B > 0 /\ R \in Int /\ S \in Int /\ p \in Int
      /\ np \in Int /\ z \in Int /\ st.realizedPnL \in Rationals
  BY PositionParts
<1>2. /\ new = [st EXCEPT !.position = np, !.avgPrice = avg]
      /\ avg \in Rationals /\ N >= 0
      /\ (N * np) * B = (A * p + z * B) * M
  BY OpenedAverage, Zenon
<1>3. new = [position |-> np, avgPrice |-> avg, realizedPnL |-> st.realizedPnL]
  <2>1. st = [position |-> st.position, avgPrice |-> st.avgPrice,
              realizedPnL |-> st.realizedPnL]
    BY PositionParts
  <2> HIDE DEF avg, np, new
  <2> QED BY <1>2, <2>1
<1>4. N \in Int /\ M \in Int
  BY <1>2, RationalParts
<1> HIDE DEF avg
<1>5. new \in Positions
  BY <1>1, <1>2, <1>3, MakePosition
<1>6. R * B = (A * p + c * B) * S
  BY LedgerParts
<1>7. R * M = (N * np + (c - z) * M) * S
  <2> HIDE DEF A, B, R, S, p, np, N, M, z
  <2>1. /\ A \in Int /\ B \in Int /\ B > 0 /\ R \in Int /\ S \in Int /\ p \in Int
        /\ np \in Int /\ z \in Int /\ N \in Int /\ M \in Int
        /\ R * B = (A * p + c * B) * S /\ (N * np) * B = (A * p + z * B) * M
    BY <1>1, <1>2, <1>4, <1>6
  <2> QED BY <2>1, OpenIdentity
<1>8. /\ new.position = np /\ new.avgPrice.num = N /\ new.avgPrice.den = M
      /\ new.realizedPnL.num = R /\ new.realizedPnL.den = S
  <2> HIDE DEF np, new
  <2> QED BY <1>3
<1>9. c - z \in Int
  BY <1>1
<1> HIDE DEF new, np, N, M, R, S, z
<1>10. Ledger(new, c - z)
  BY <1>5, <1>7, <1>8, <1>9, LedgerParts
<1> QED BY <1>5, <1>10 DEF new, z

LEMMA ClosedGain ==
    ASSUME NEW a \in Rationals, NEW px \in Int, NEW k \in Int
    PROVE  LET O == Times(Minus(Whole(px), a), k)
           IN /\ O \in Rationals
              /\ O.num * a.den = ((px * a.den - a.num) * k) * O.den
<1> DEFINE x == Times(a, -1)
           g == Plus(Whole(px), x)
           O == Times(g, k)
           A == a.num
           B == a.den
<1>1. A \in Int /\ B \in Int /\ B > 0
  BY RationalParts
<1>2. x \in Rationals /\ x.num * B = (A * (-1)) * x.den
  <2>1. -1 \in Int
    OBVIOUS
  <2> QED BY <2>1, TimesValue, Zenon
<1>3. x.num \in Int /\ x.den \in Int /\ x.den > 0
  BY <1>2, RationalParts
<1>4. Whole(px) \in Rationals /\ Whole(px).num = px /\ Whole(px).den = 1
  BY WholeValue
<1>5. g \in Rationals /\ g.num * (Whole(px).den * x.den)
         = (Whole(px).num * x.den + x.num * Whole(px).den) * g.den
  BY <1>2, <1>4, PlusValue, Zenon
<1>6. g.num \in Int /\ g.den \in Int /\ g.den > 0
  BY <1>5, RationalParts
<1>7. O \in Rationals /\ O.num * g.den = (g.num * k) * O.den
  BY <1>5, TimesValue, Zenon
<1>8. O.num \in Int /\ O.den \in Int /\ O.den > 0
  BY <1>7, RationalParts
<1> DEFINE xn == x.num
           xd == x.den
           gn == g.num
           gd == g.den
           on == O.num
           od == O.den
<1>9. /\ xn \in Int /\ xd \in Int /\ xd > 0 /\ gn \in Int /\ gd \in Int /\ gd > 0
      /\ on \in Int /\ od \in Int
      /\ xn * B = (-A) * xd /\ gn * xd = (xn + px * xd) * gd /\ on * gd = (gn * k) * od
  <2>1. A * (-1) = -A
    BY <1>1
  <2>2. gn * (1 * xd) = (px * xd + xn * 1) * gd
    BY <1>4, <1>5
  <2> HIDE DEF A, B, xn, xd, gn, gd, on, od
  <2>3. 1 * xd = xd /\ px * xd + xn * 1 = xn + px * xd
    BY <1>3, <1>4 DEF xn, xd
  <2> QED BY <1>2, <1>3, <1>6, <1>7, <1>8, <2>1, <2>2, <2>3 DEF xn, xd, gn, gd, on, od
<1>10. O = Times(Minus(Whole(px), a), k)
  BY DEF Minus
<1> HIDE DEF A, B, x, g, O, xn, xd, gn, gd, on, od
<1>11. gn * B = ((-A) + px * B) * gd
  BY <1>1, <1>9, SumOfFractions
<1>12. (on * B) * gd = (((px * B - A) * k) * od) * gd
  <2>1. (on * B) * gd = (on * gd) * B
    BY <1>1, <1>9, SMT
  <2>2. ((gn * k) * od) * B = (gn * B) * k * od
    BY <1>1, <1>9, SMT
  <2>3. (((-A) + px * B) * gd) * k * od = (((px * B - A) * k) * od) * gd
    BY <1>1, <1>9, SMT
  <2> QED BY <2>1, <2>2, <2>3, <1>9, <1>11
<1>13. on * B = ((px * B - A) * k) * od
  <2> DEFINE l == on * B
             r == ((px * B - A) * k) * od
  <2>1. l \in Int /\ r \in Int /\ gd \in Int /\ gd # 0 /\ l * gd = r * gd
    BY <1>1, <1>9, <1>12
  <2> HIDE DEF l, r
  <2>2. l = r
    BY <2>1, Cancel
  <2> QED BY <2>2 DEF l, r
<1> QED BY <1>7, <1>10, <1>13 DEF on, od, A, B

(***************************************************************************)
(* A fill against the position keeps the ledger: it closes a part, closes  *)
(* all, or flips.                                                          *)
(***************************************************************************)
LEMMA ClosedKeepsLedger ==
    ASSUME NEW st \in Positions, NEW c \in Int, Ledger(st, c), NEW px \in Nat, NEW q \in Int,
           q # 0, st.position # 0, ~SameSign(st.position, q)
    PROVE  Closed(st, px, q) \in Positions /\ Ledger(Closed(st, px, q), c - px * q)
<1> DEFINE A == st.avgPrice.num
           B == st.avgPrice.den
           R == st.realizedPnL.num
           S == st.realizedPnL.den
           p == st.position
           np == p + q
           k == IF Abs(p) <= Abs(q) THEN p ELSE -q
           O == OnClose(st, px, q)
           real == Plus(st.realizedPnL, O)
           avg == IF np = 0 THEN Whole(0)
                  ELSE IF SameSign(np, q) THEN Whole(px) ELSE st.avgPrice
           new == Closed(st, px, q)
<1>1. /\ A \in Int /\ A >= 0 /\ B \in Int /\ B > 0 /\ R \in Int /\ S \in Int /\ S > 0 /\ p \in Int
      /\ np \in Int /\ px * q \in Int
      /\ st.realizedPnL \in Rationals /\ st.avgPrice \in Rationals
  BY PositionParts
<1>2. k \in Int /\ O = Times(Minus(Whole(px), st.avgPrice), k)
  <2>1. Abs(p) \in Int /\ Abs(q) \in Int
    BY <1>1 DEF Abs
  <2>2. Min({Abs(p), Abs(q)}) = IF Abs(p) <= Abs(q) THEN Abs(p) ELSE Abs(q)
    BY <2>1, MinOfTwo
  <2> DEFINE m == Min({Abs(p), Abs(q)})
  <2>3. (IF p > 0 THEN m ELSE -m) = k
    <3>1. (p > 0 /\ q < 0) \/ (p < 0 /\ q > 0)
      BY <1>1 DEF SameSign
    <3> HIDE DEF p, m
    <3>2. m = IF Abs(p) <= Abs(q) THEN Abs(p) ELSE Abs(q)
      BY <2>2 DEF m
    <3> QED BY <3>1, <3>2, <1>1 DEF Abs
  <2>4. k \in Int
    BY <1>1
  <2> QED BY <2>3, <2>4 DEF OnClose
<1>3. O \in Rationals /\ O.num * B = ((px * B - A) * k) * O.den
  <2> HIDE DEF k, O
  <2>1. px \in Int
    OBVIOUS
  <2> QED BY <1>1, <1>2, <2>1, ClosedGain, Zenon
<1>4. O.num \in Int /\ O.den \in Int /\ O.den > 0
  BY <1>3, RationalParts
<1>5. real \in Rationals /\ real.num * (S * O.den) = (R * O.den + O.num * S) * real.den
  BY <1>1, <1>3, PlusValue, Zenon
<1>6. real.num \in Int /\ real.den \in Int /\ real.den > 0
  BY <1>5, RationalParts
<1> DEFINE R1 == real.num
           S1 == real.den
<1>7. R * B = (A * p + c * B) * S
  BY LedgerParts
<1>8. (R1 * S) * B = (R * B + ((px * B - A) * k) * S) * S1
  <2> DEFINE on == O.num
             od == O.den
  <2>1. /\ on \in Int /\ od \in Int /\ od > 0 /\ R1 \in Int /\ S1 \in Int /\ px \in Int
        /\ on * B = ((px * B - A) * k) * od /\ R1 * (S * od) = (R * od + on * S) * S1
    BY <1>3, <1>4, <1>5, <1>6
  <2> DEFINE G == (px * B - A) * k
  <2>2. /\ R \in Int /\ S \in Int /\ B \in Int /\ G \in Int
        /\ on \in Int /\ od \in Int /\ od > 0 /\ R1 \in Int /\ S1 \in Int
        /\ on * B = G * od /\ R1 * (S * od) = (R * od + on * S) * S1
    BY <2>1, <1>1, <1>2
  <2> HIDE DEF on, od, R1, S1, G, k, R, S, A, B
  <2>3. (R1 * S) * B = (R * B + G * S) * S1
    BY <2>2, RealizedMoves
  <2> QED BY <2>3 DEF G
<1>9. new = [position |-> np, avgPrice |-> avg, realizedPnL |-> real]
  BY DEF Closed
<1> HIDE DEF O, real, k
<1>10. k = p \/ k = -q
  BY DEF k
<1>11. (np = 0 \/ SameSign(np, q)) => k = p
  BY <1>1 DEF k, SameSign, Abs
<1>12. ~(np = 0 \/ SameSign(np, q)) => k = -q
  BY <1>1 DEF k, SameSign, Abs
<1>13. avg \in Rationals /\ avg.num >= 0
  <2>1. Whole(0) \in Rationals /\ Whole(0).num = 0 /\ Whole(px) \in Rationals /\ Whole(px).num = px
    BY WholeValue
  <2> HIDE DEF np
  <2> QED BY <2>1, <1>1
<1>14. new \in Positions
  BY <1>1, <1>5, <1>9, <1>13, MakePosition
<1> DEFINE N == avg.num
           M == avg.den
<1>15. R1 * M = (N * np + (c - px * q) * M) * S1
  <2>1. CASE k = p /\ (np = 0 \/ SameSign(np, q))
    <3>1. R1 = (c + px * p) * S1
      <4> HIDE DEF R1, S1, R, S, A, B, p
      <4>1. R1 \in Int /\ S1 \in Int /\ px \in Int
        BY <1>6 DEF R1, S1
      <4>2. (R1 * S) * B = (R * B + ((px * B - A) * p) * S) * S1
        BY <1>8, <2>1
      <4> QED BY <4>1, <4>2, <1>1, <1>7, CloseIdentity
    <3>2. M = 1 /\ N * np + (c - px * q) = c + px * p
      <4>1. CASE np = 0
        <5>1. N = 0 /\ M = 1
          BY <4>1, WholeValue
        <5>2. q = -p /\ px * q = -(px * p) /\ px * p \in Int
          BY <4>1, <1>1
        <5> HIDE DEF N, M, p, np
        <5> QED BY <5>1, <5>2, <4>1, <1>1
      <4>2. CASE np # 0
        <5>1. avg = Whole(px)
          BY <4>2, <2>1
        <5>2. N = px /\ M = 1
          BY <5>1, WholeValue
        <5>3. px * np = px * p + px * q /\ px * p \in Int
          BY <1>1
        <5> HIDE DEF N, M, p, np
        <5> QED BY <5>2, <5>3, <1>1
      <4> QED BY <4>1, <4>2
    <3> HIDE DEF R1, S1, N, M, np, p
    <3>3. R1 * M = R1 /\ (c - px * q) * M = c - px * q
      BY <3>2, <1>1, <1>6 DEF R1
    <3> QED BY <3>1, <3>2, <3>3
  <2>2. CASE k = -q /\ ~(np = 0 \/ SameSign(np, q))
    <3>1. N = A /\ M = B
      BY <2>2
    <3>2. (R1 * S) * B = (R * B + ((px * B - A) * (-q)) * S) * S1
      BY <1>8, <2>2
    <3>3. R1 * B = (A * (p + q) + (c - px * q) * B) * S1
      <4> HIDE DEF R1, S1, R, S, A, B, p
      <4>1. R1 \in Int /\ S1 \in Int /\ px \in Int
        BY <1>6 DEF R1, S1
      <4> QED BY <3>2, <4>1, <1>1, <1>7, ReduceIdentity
    <3> QED BY <3>1, <3>3
  <2> QED BY <2>1, <2>2, <1>11, <1>12
<1>16. /\ new.position = np /\ new.avgPrice.num = N /\ new.avgPrice.den = M
       /\ new.realizedPnL.num = R1 /\ new.realizedPnL.den = S1
  <2> HIDE DEF np, new, avg
  <2> QED BY <1>9
<1>17. c - px * q \in Int
  BY <1>1
<1> HIDE DEF new, np, N, M, R1, S1
<1>18. Ledger(new, c - px * q)
  BY <1>14, <1>15, <1>16, <1>17, LedgerParts
<1> QED BY <1>14, <1>18 DEF new

(***************************************************************************)
(* PnLTracker::onFill: whatever the side, the ledger moves by what is paid *)
(* or received.                                                            *)
(***************************************************************************)
LEMMA OnFillKeepsLedger ==
    ASSUME NEW st \in Positions, NEW c \in Int, Ledger(st, c), NEW px \in Nat,
           NEW side \in {"Bid", "Ask"}, NEW q \in Positive
    PROVE  /\ onFill(st, side, px, q) \in Positions
           /\ Ledger(onFill(st, side, px, q), c + px * q * IF side = "Bid" THEN -1 ELSE 1)
<1> DEFINE sq == IF side = "Bid" THEN q ELSE -q
<1>1. sq \in Int /\ sq # 0 /\ ~(q <= 0) /\ st.position \in Int
  BY PositionParts DEF Positive
<1>2. c - px * sq = c + px * q * IF side = "Bid" THEN -1 ELSE 1
  <2>1. px * q \in Int
    BY DEF Positive
  <2>2. CASE side = "Bid"
    <3>1. px * q * (-1) = -(px * q)
      BY <2>1
    <3> QED BY <2>1, <2>2, <3>1
  <2>3. CASE side # "Bid"
    <3>1. px * q * 1 = px * q /\ px * (-q) = -(px * q)
      BY <2>1 DEF Positive
    <3> QED BY <2>1, <2>3, <3>1
  <2> QED BY <2>2, <2>3
<1>3. onFill(st, side, px, q) =
         IF st.position = 0 \/ SameSign(st.position, sq) THEN Opened(st, px, sq)
         ELSE Closed(st, px, sq)
  BY <1>1 DEF onFill
<1> HIDE DEF sq
<1>4. CASE st.position = 0 \/ SameSign(st.position, sq)
  <2>1. Opened(st, px, sq) \in Positions /\ Ledger(Opened(st, px, sq), c - px * sq)
    BY <1>1, <1>4, OpenedKeepsLedger, Zenon
  <2> QED BY <2>1, <1>2, <1>3, <1>4
<1>5. CASE ~(st.position = 0 \/ SameSign(st.position, sq))
  <2>1. Closed(st, px, sq) \in Positions /\ Ledger(Closed(st, px, sq), c - px * sq)
    BY <1>1, <1>5, ClosedKeepsLedger, Zenon
  <2> QED BY <2>1, <1>2, <1>3, <1>5
<1> QED BY <1>4, <1>5

LEMMA TotalIdentity ==
    ASSUME NEW R \in Int, NEW S \in Int, NEW A \in Int, NEW B \in Int, B > 0, NEW p \in Int,
           NEW c \in Int, NEW mid \in Int, NEW O \in Int, NEW P \in Int,
           R * B = (A * p + c * B) * S, O * B = ((mid * B - A) * p) * P
    PROVE  R * P + O * S = (c + mid * p) * (S * P)
<1>1. (R * P + O * S) * B = ((c + mid * p) * (S * P)) * B
  <2>1. (R * P + O * S) * B = (R * B) * P + (O * B) * S
    BY SMT
  <2>2. ((A * p + c * B) * S) * P + (((mid * B - A) * p) * P) * S
        = ((c + mid * p) * (S * P)) * B
    BY SMT
  <2> QED BY <2>1, <2>2
<1> DEFINE x == R * P + O * S
           y == (c + mid * p) * (S * P)
<1>2. x \in Int /\ y \in Int /\ x * B = y * B /\ B # 0
  BY <1>1
<1> HIDE DEF x, y
<1>3. x = y
  BY <1>2, Cancel
<1> QED BY <1>3 DEF x, y

(***************************************************************************)
(* The mark of a position at any mid is its cash and its worth there.      *)
(***************************************************************************)
LEMMA TotalIsWorth ==
    ASSUME NEW st \in Positions, NEW c \in Int, Ledger(st, c), NEW mid \in Int
    PROVE  TotalAt(st, mid) = Whole(c + mid * st.position)
<1> DEFINE A == st.avgPrice.num
           B == st.avgPrice.den
           R == st.realizedPnL.num
           S == st.realizedPnL.den
           p == st.position
           O == Times(Minus(Whole(mid), st.avgPrice), p)
           on == O.num
           od == O.den
<1>1. /\ A \in Int /\ B \in Int /\ B > 0 /\ R \in Int /\ S \in Int /\ S > 0 /\ p \in Int
      /\ st.avgPrice \in Rationals
  BY PositionParts
<1>2. O \in Rationals /\ on * B = ((mid * B - A) * p) * od
  BY <1>1, ClosedGain, Zenon
<1>3. on \in Int /\ od \in Int /\ od > 0
  BY <1>2, RationalParts
<1>4. R * B = (A * p + c * B) * S
  BY LedgerParts
<1>5. TotalAt(st, mid) = Frac(R * od + on * S, S * od)
  BY DEF TotalAt, Plus
<1> HIDE DEF A, B, R, S, p, on, od, O
<1>6. R * od + on * S = (c + mid * p) * (S * od)
  BY <1>1, <1>2, <1>3, <1>4, TotalIdentity
<1>7. S * od \in Positive /\ c + mid * p \in Int
  <2>1. S * od \in Int /\ S * od > 0
    BY <1>1, <1>3, ProductPositive
  <2>2. S * od \in Positive
    BY <2>1 DEF Positive
  <2>3. c + mid * p \in Int
    BY <1>1
  <2> QED BY <2>2, <2>3
<1>8. Frac((c + mid * p) * (S * od), S * od) = Whole(c + mid * p)
  BY <1>7, FracWhole, Zenon
<1> QED BY <1>5, <1>6, <1>8 DEF p

-----------------------------------------------------------------------------
(* The strategy                                                            *)

LEMMA ImbalanceType ==
    ASSUME NEW bid \in Nat, NEW ask \in Nat
    PROVE  Imbalance(bid, ask) \in Imbalances
BY DEF Imbalance, Imbalances, Lean

LEMMA LeanType ==
    ASSUME NEW imb \in Imbalances
    PROVE  Lean(imb) \in Nat /\ imb.sum \in Nat /\ Lean(imb) <= imb.sum
BY DEF Lean, Imbalances

LEMMA MagnitudeType ==
    ASSUME NEW imb \in Imbalances, NEW mode \in Nat
    PROVE  LET m == Magnitude(imb, mode)
           IN m.num \in Nat /\ m.den \in Positive /\ m.num <= m.den
<1>1. Lean(imb) \in Nat /\ imb.sum \in Nat /\ Sensitivity2(mode) \in {1, 2, 3}
  BY LeanType DEF Sensitivity2
<1>2. Lean(imb) * Sensitivity2(mode) \in Nat
  BY <1>1
<1>3. CASE imb.sum = 0
  BY <1>3 DEF Magnitude, Positive
<1>4. CASE imb.sum # 0
  <2> DEFINE a == Lean(imb) * Sensitivity2(mode)
             b == 2 * imb.sum
  <2>1. a \in Nat /\ b \in Positive
    BY <1>1, <1>2, <1>4 DEF Positive
  <2>2. Magnitude(imb, mode) = [num |-> Min({a, b}), den |-> b]
    BY <1>4 DEF Magnitude
  <2> HIDE DEF a, b
  <2>3. Min({a, b}) = IF a <= b THEN a ELSE b
    BY <2>1, MinOfTwo DEF Positive
  <2>4. Min({a, b}) \in Nat /\ Min({a, b}) <= b
    BY <2>1, <2>3 DEF Positive
  <2> QED BY <2>1, <2>2, <2>4
<1> QED BY <1>3, <1>4

LEMMA QuotientBetween ==
    ASSUME NEW x \in Int, NEW d \in Int, d > 0, NEW a \in Int, NEW b \in Int,
           a * d <= x, x < (b + 1) * d
    PROVE  x \div d \in a..b
<1> DEFINE q == x \div d
           r == x % d
<1>1. q \in Int /\ r \in Int /\ r >= 0 /\ r < d /\ x = d * q + r
  BY DivMod
<1> HIDE DEF q, r
<1>2. ASSUME q < a PROVE FALSE
  <2>1. d * (a - q - 1) >= 0
    BY <1>1, <1>2, SMTT(60)
  <2>2. d * (a - q - 1) = a * d - d * q - d
    BY <1>1
  <2> DEFINE u == a * d
             v == d * q
  <2>3. u \in Int /\ v \in Int /\ u - v - d >= 0 /\ u <= x /\ x = v + r
    BY <2>1, <2>2, <1>1
  <2> HIDE DEF u, v
  <2> QED BY <2>3, <1>1
<1>3. ASSUME q > b PROVE FALSE
  <2>1. d * (q - b - 1) >= 0
    BY <1>1, <1>3, SMTT(60)
  <2>2. d * (q - b - 1) = d * q - (b + 1) * d
    BY <1>1
  <2> DEFINE u == (b + 1) * d
             v == d * q
  <2>3. u \in Int /\ v \in Int /\ v - u >= 0 /\ x < u /\ x = v + r
    BY <2>1, <2>2, <1>1
  <2> HIDE DEF u, v
  <2> QED BY <2>3, <1>1
<1> QED BY <1>1, <1>2, <1>3 DEF q

LEMMA ClipIdentity ==
    ASSUME NEW a \in Int, NEW b \in Int, a <= b, NEW n \in Int, NEW d \in Int,
           n >= 0, n <= d, d > 0
    PROVE  (2 * (a * d + n * (b - a)) + d - 1) \div (2 * d) \in a..b
<1> DEFINE x == 2 * (a * d + n * (b - a)) + d - 1
           w == n * (b - a)
           v == (d - n) * (b - a)
<1>1. x \in Int /\ 2 * d \in Int /\ 2 * d > 0 /\ w \in Int /\ v \in Int
  OBVIOUS
<1>2. w >= 0
  BY SMTT(60)
<1>3. v >= 0
  BY SMTT(60)
<1>4. x = a * (2 * d) + 2 * w + d - 1
  BY SMT
<1>5. (b + 1) * (2 * d) = x + 2 * v + d + 1
  BY SMT
<1> HIDE DEF x, w, v
<1>6. a * (2 * d) <= x
  <2> DEFINE u == a * (2 * d)
  <2>1. u \in Int /\ x = u + 2 * w + d - 1
    BY <1>4
  <2> HIDE DEF u
  <2>2. u <= x
    BY <2>1, <1>1, <1>2
  <2> QED BY <2>2 DEF u
<1>7. x < (b + 1) * (2 * d)
  <2> DEFINE u == (b + 1) * (2 * d)
  <2>1. u \in Int /\ u = x + 2 * v + d + 1
    BY <1>5
  <2> HIDE DEF u
  <2>2. x < u
    BY <2>1, <1>1, <1>3
  <2> QED BY <2>2 DEF u
<1>8. x \div (2 * d) \in a..b
  BY <1>1, <1>6, <1>7, QuotientBetween, Zenon
<1> QED BY <1>8 DEF x, w

LEMMA ParameterParts ==
    ASSUME NEW p \in Parameters
    PROVE  /\ p.basePrice \in Int /\ p.clipSize \in Positive /\ p.ticksPerOrder \in Positive
           /\ p.mode \in Nat /\ p.minClip \in Positive /\ p.maxClip \in Positive
           /\ p.minTicks \in Nat /\ p.maxTicks \in Nat /\ p.recalc \in Positive
           /\ p.lag \in Positive /\ p.lpOffset \in Positive /\ p.minClip <= p.maxClip
BY DEF Parameters, Positive

(***************************************************************************)
(* BasicStrategy::updateIntent keeps the clip within its limits.           *)
(***************************************************************************)
LEMMA IntentType ==
    ASSUME NEW p \in Parameters, NEW imb \in Imbalances
    PROVE  /\ Intent(p, imb) \in Intents
           /\ Intent(p, imb).imb = imb
           /\ Intent(p, imb).clip \in p.minClip..p.maxClip
<1> DEFINE m == Magnitude(imb, p.mode)
           a == p.minClip
           b == p.maxClip
           d == m.den
           n == m.num
<1>1. a \in Int /\ b \in Int /\ a >= 1 /\ a <= b /\ p.minTicks \in Int /\ p.maxTicks \in Int
      /\ p.mode \in Nat
  BY ParameterParts DEF Positive
<1>2. n \in Int /\ d \in Int /\ n >= 0 /\ n <= d /\ d > 0
  BY <1>1, MagnitudeType DEF Positive
<1> DEFINE c == (2 * (a * d + n * (b - a)) + d - 1) \div (2 * d)
           tt == (2 * (p.maxTicks * d - n * (p.maxTicks - p.minTicks)) + d) \div (2 * d)
<1>3. Clip(p, imb) = Max({1, c})
  BY DEF Clip
<1>4. TicksPerOrder(p, imb) = Max({1, tt})
  BY DEF TicksPerOrder
<1> HIDE DEF m, n, d, a, b
<1>5. c \in a..b
  BY <1>1, <1>2, ClipIdentity
<1>6. tt \in Int
  <2> DEFINE x == 2 * (p.maxTicks * d - n * (p.maxTicks - p.minTicks)) + d
             y == 2 * d
  <2>1. x \in Int /\ y \in Int /\ y > 0
    BY <1>1, <1>2
  <2> HIDE DEF x, y
  <2>2. x \div y \in Int
    BY <2>1, DivMod
  <2> QED BY <2>2 DEF x, y
<1> HIDE DEF c, tt
<1>7. Clip(p, imb) = c
  BY <1>1, <1>3, <1>5, MaxOfTwo
<1>8. TicksPerOrder(p, imb) \in Positive
  <2>1. Max({1, tt}) = IF 1 >= tt THEN 1 ELSE tt
    BY <1>6, MaxOfTwo
  <2> QED BY <1>4, <1>6, <2>1 DEF Positive
<1>9. Clip(p, imb) \in Positive
  BY <1>1, <1>5, <1>7 DEF Positive
<1>10. Intent(p, imb) = [imb |-> imb, clip |-> Clip(p, imb), ticks |-> TicksPerOrder(p, imb)]
  BY DEF Intent
<1>11. Intent(p, imb) \in Intents
  BY <1>8, <1>9, <1>10 DEF Intents, Imbalances, Positive
<1> QED BY <1>5, <1>7, <1>10, <1>11 DEF a, b

(***************************************************************************)
(* BasicStrategy::fireOne stays on its side of the mid.                    *)
(***************************************************************************)
Passive(order, mid) ==
    IF order.side = "Ask" THEN order.px > mid
    ELSE order.px < mid \/ (order.px = 1 /\ mid <= 1)

LEMMA FireOneIsPassive ==
    ASSUME NEW p \in Parameters, NEW int \in Intents, NEW mid \in Int,
           NEW coin \in {"Bid", "Ask"}
    PROVE  LET order == fireOne(p, int, mid, coin)
           IN order \in Orders /\ order.qty = int.clip /\ Passive(order, mid)
<1> DEFINE imb == int.imb
           m == Max({1, mid})
           off == Offset(p, imb)
           q == Quote(p, imb, mid, coin)
           order == fireOne(p, int, mid, coin)
<1>1. imb \in Imbalances /\ int.clip \in Positive
  BY DEF Intents, Imbalances, Positive
<1>2. Lean(imb) \in Nat /\ imb.sum \in Nat /\ p.lpOffset \in Positive
  BY <1>1, LeanType, ParameterParts
<1>3. m \in Int /\ m >= 1 /\ m >= mid /\ (mid >= 1 => m = mid) /\ (mid < 1 => m = 1)
  <2>1. m = IF 1 >= mid THEN 1 ELSE mid
    BY MaxOfTwo
  <2> HIDE DEF m
  <2> QED BY <2>1
<1>4. Directional(imb) => off \in Int /\ off >= 1
  <2> SUFFICES ASSUME Directional(imb) PROVE off \in Int /\ off >= 1
    OBVIOUS
  <2> DEFINE x == 5 * Lean(imb) - 1
             s == imb.sum
  <2>1. x + 1 > s /\ x \in Int /\ x >= 0 /\ s \in Int /\ s >= 0
    BY <1>2 DEF Directional
  <2>2. s # 0
    <3>1. imb.sum = 0 => x < 0
      BY <1>1, <1>2, LeanType
    <3> QED BY <3>1, <2>1
  <2>3. x \div s \in Int /\ x \div s >= 0
    <3>1. s > 0
      BY <2>1, <2>2
    <3> HIDE DEF x, s
    <3>2. 0 * s <= x /\ x < (x + 1) * s
      <4>1. 0 * s = 0
        BY <2>1
      <4>2. x < (x + 1) * s
        BY <2>1, <3>1, SMTT(60)
      <4> QED BY <4>1, <4>2, <2>1
    <3>3. x \div s \in 0..x
      BY <3>1, <3>2, <2>1, QuotientBetween
    <3> QED BY <3>3, <2>1
  <2> HIDE DEF x, s
  <2>4. off = p.lpOffset + x \div s
    BY DEF Offset, x, s
  <2> DEFINE z == x \div s
  <2>5. z \in Int /\ z >= 0 /\ off = p.lpOffset + z
    BY <2>3, <2>4
  <2> HIDE DEF z
  <2> QED BY <2>5, <1>2 DEF Positive
<1>5. order = [side |-> q.side, px |-> q.px, qty |-> int.clip]
  BY DEF fireOne
<1> HIDE DEF m, off
<1>6. q.side \in {"Bid", "Ask"} /\ q.px \in Positive
      /\ (q.side = "Ask" => q.px > mid)
      /\ (q.side = "Bid" => q.px < mid \/ (q.px = 1 /\ mid <= 1))
  <2>1. CASE Directional(imb) /\ imb.diff > 0
    <3>1. q = [side |-> "Ask", px |-> m + off]
      BY <2>1 DEF Quote, m, off
    <3> QED BY <3>1, <2>1, <1>3, <1>4 DEF Positive
  <2>2. CASE Directional(imb) /\ ~(imb.diff > 0)
    <3>1. q = [side |-> "Bid", px |-> Max({1, m - off})]
      BY <2>2 DEF Quote, m, off
    <3>2. Max({1, m - off}) = IF 1 >= m - off THEN 1 ELSE m - off
      BY <2>2, <1>3, <1>4, MaxOfTwo
    <3> QED BY <3>1, <3>2, <2>2, <1>3, <1>4 DEF Positive
  <2>3. CASE ~Directional(imb)
    <3> DEFINE j == IF coin = "Bid" THEN -1 ELSE 1
    <3>1. q = [side |-> coin, px |-> Max({1, m + j})]
      BY <2>3 DEF Quote, m
    <3>2. Max({1, m + j}) = IF 1 >= m + j THEN 1 ELSE m + j
      BY <1>3, MaxOfTwo
    <3> QED BY <3>1, <3>2, <1>3 DEF Positive
  <2> QED BY <2>1, <2>2, <2>3
<1> HIDE DEF q, order
<1>7. order \in Orders /\ order.qty = int.clip
  BY <1>1, <1>5, <1>6 DEF Orders, Positive
<1>8. Passive(order, mid)
  BY <1>5, <1>6 DEF Passive
<1> QED BY <1>7, <1>8 DEF order

-----------------------------------------------------------------------------
(* The impact model                                                        *)

LEMMA ClampRange ==
    ASSUME NEW x \in Int
    PROVE  clampImpact(x) \in (-MaxImpact)..MaxImpact /\ clampImpact(x) \in Int
BY ImpactAssumption DEF clampImpact

LEMMA ImpactParts ==
    ASSUME NEW st \in Impacts
    PROVE  /\ st = [temp |-> st.temp, perm |-> st.perm, lastSpread |-> st.lastSpread]
           /\ st.temp \in (-MaxImpact)..MaxImpact /\ st.temp \in Int
           /\ st.perm \in (-MaxImpact)..MaxImpact /\ st.perm \in Int
           /\ st.lastSpread \in Int
BY ImpactAssumption DEF Impacts

(***************************************************************************)
(* ImpactModel keeps both parts of the impact within the cap.              *)
(***************************************************************************)
LEMMA AfterTickType ==
    ASSUME NEW st \in Impacts, NEW spread \in Int, NEW moved \in AfterTick(st, spread)
    PROVE  moved \in Impacts
<1>1. PICK left \in {st.temp, Toward0(st.temp)} :
         moved = [st EXCEPT !.temp = left, !.lastSpread = spread]
  BY DEF AfterTick
<1>2. left \in (-MaxImpact)..MaxImpact
  BY <1>1, ImpactParts, ImpactAssumption DEF Toward0
<1>3. moved = [temp |-> left, perm |-> st.perm, lastSpread |-> spread]
  <2>1. st = [temp |-> st.temp, perm |-> st.perm, lastSpread |-> st.lastSpread]
    BY ImpactParts
  <2> QED BY <1>1, <2>1
<1> QED BY <1>2, <1>3, ImpactParts DEF Impacts

LEMMA OnTradeType ==
    ASSUME NEW st \in Impacts, NEW side \in {"Bid", "Ask"}, NEW delta \in Nat
    PROVE  onTrade(st, side, delta) \in Impacts
<1> DEFINE dir == IF side = "Bid" THEN 1 ELSE -1
           a == clampImpact(st.temp + 4 * delta * dir)
           b == clampImpact(st.perm + delta * dir)
<1>1. st.temp + 4 * delta * dir \in Int /\ st.perm + delta * dir \in Int
  BY ImpactParts
<1>2. a \in (-MaxImpact)..MaxImpact /\ b \in (-MaxImpact)..MaxImpact
  BY <1>1, ClampRange
<1>3. onTrade(st, side, delta) = [st EXCEPT !.temp = a, !.perm = b]
  BY DEF onTrade
<1> HIDE DEF a, b
<1>4. onTrade(st, side, delta) = [temp |-> a, perm |-> b, lastSpread |-> st.lastSpread]
  BY <1>3, ImpactParts
<1> QED BY <1>2, <1>4, ImpactParts DEF Impacts

LEMMA MidsAreWhole ==
    ASSUME NEW st \in Impacts, NEW mid \in Int, NEW side \in {"Bid", "Ask"}
    PROVE  /\ RoundTicks(effectiveMid(st, mid)) \in Int
           /\ RoundTicks(executionPrice(st, side, mid)) \in Int
<1>1. ASSUME NEW h \in Int PROVE RoundTicks(h) \in Int
  <2>1. (h + 1) \div 2 \in Int /\ (1 - h) \div 2 \in Int
    BY SMT
  <2> QED BY <2>1 DEF RoundTicks
<1>2. effectiveMid(st, mid) \in Int
  <2>1. st.temp + st.perm \in Int
    BY ImpactParts
  <2>2. clampImpact(st.temp + st.perm) \in Int
    BY <2>1, ClampRange
  <2> QED BY <2>2 DEF effectiveMid
<1>3. executionPrice(st, side, mid) \in Int
  BY <1>2, ImpactParts DEF executionPrice
<1> QED BY <1>1, <1>2, <1>3

-----------------------------------------------------------------------------
(* The symbols, the command line and the files                             *)

LEMMA Constants ==
    /\ Len(Symbols) \in Nat /\ Len(Symbols) >= 1 /\ DOMAIN Symbols = 1..Len(Symbols)
    /\ \A i \in 1..Len(Symbols) : Symbols[i] \in SymbolSet
    /\ \A s \in SymbolSet : \E i \in 1..Len(Symbols) : s = Symbols[i]
    /\ \A i, j \in 1..Len(Symbols) : Symbols[i] = Symbols[j] => i = j
    /\ VolWindow \in Nat /\ VolWindow >= 1 /\ BaselineWin \in Nat /\ BaselineWin >= 1
    /\ KillPnL \in Int /\ KillVar \in Int /\ KillSpreadMult \in Int
    /\ Proxy \in SymbolSet
<1>1. Symbols \in Seq(SymbolSet) /\ Symbols # <<>>
  BY SimAssumption
<1>2. Len(Symbols) \in Nat /\ DOMAIN Symbols = 1..Len(Symbols)
  BY <1>1, LenProperties
<1>3. Len(Symbols) >= 1
  <2>1. Len(Symbols) # 0
    BY <1>1, EmptySeq
  <2> QED BY <1>2, <2>1
<1>4. \A i \in 1..Len(Symbols) : Symbols[i] \in SymbolSet
  BY <1>2 DEF SymbolSet, Range
<1>5. \A s \in SymbolSet : \E i \in 1..Len(Symbols) : s = Symbols[i]
  BY <1>2 DEF SymbolSet, Range
<1>6. \A i, j \in 1..Len(Symbols) : Symbols[i] = Symbols[j] => i = j
  BY <1>2, SimAssumption DEF IsInjective
<1>7. /\ VolWindow \in Nat /\ VolWindow >= 1 /\ BaselineWin \in Nat /\ BaselineWin >= 1
      /\ KillPnL \in Int /\ KillVar \in Int /\ KillSpreadMult \in Int
      /\ Proxy \in SymbolSet
  BY SimAssumption
<1> QED BY <1>2, <1>3, <1>4, <1>5, <1>6, <1>7

Setup == options \in Options /\ files \in FileSets /\ config \in Configs

LEMMA CommandLine ==
    ASSUME Setup
    PROVE  /\ lag \in Positive /\ freezeBook \in Nat
           /\ config \in Parameters /\ params \in Parameters
           /\ params.lag = lag /\ params.recalc = config.recalc
           /\ params.minClip = config.minClip /\ params.maxClip = config.maxClip
           /\ \A s \in SymbolSet : Snapshots(files[s]) \in Seq(Snapshot)
<1>1. options.lag \in Int /\ options.freeze \in Int
  BY SimAssumption DEF Setup
<1>2. lag \in Positive /\ freezeBook \in Nat
  BY <1>1 DEF lag, freezeBook, Positive
<1>3. config \in Parameters
  BY SimAssumption DEF Setup
<1>4. /\ params = [config EXCEPT !.lag = lag]
      /\ params \in Parameters
      /\ params.lag = lag /\ params.recalc = config.recalc
      /\ params.minClip = config.minClip /\ params.maxClip = config.maxClip
  <2>1. params = [config EXCEPT !.lag = lag]
    BY DEF params
  <2> QED BY <1>2, <1>3, <2>1 DEF Parameters, Positive
<1>5. \A s \in SymbolSet : Snapshots(files[s]) \in Seq(Snapshot)
  BY SimAssumption DEF Setup
<1> QED BY <1>2, <1>3, <1>4, <1>5

LEMMA WidenedType ==
    ASSUME Setup, NEW x \in Int
    PROVE  Widened(x) \in Int
<1>1. 2 * x \in Int
  OBVIOUS
<1> QED BY <1>1 DEF Widened

LEMMA SnapshotParts ==
    ASSUME NEW row \in Snapshot
    PROVE  row.mid \in Int /\ row.spread \in Int /\ row.bid \in Nat /\ row.ask \in Nat
BY DEF Snapshot

Started == Loaded /\ feeds = [s \in SymbolSet |-> Snapshots(files[s])]

LEMMA FeedParts ==
    ASSUME Setup, Started, NEW s \in SymbolSet
    PROVE  /\ feeds[s] = Snapshots(files[s]) /\ feeds[s] \in Seq(Snapshot)
           /\ Len(feeds[s]) \in Nat /\ Len(feeds[s]) >= 1
           /\ DOMAIN feeds[s] = 1..Len(feeds[s])
<1>1. feeds[s] = Snapshots(files[s]) /\ feeds[s] \in Seq(Snapshot) /\ feeds[s] # <<>>
  BY CommandLine DEF Started, Loaded, Loads
<1>2. Len(feeds[s]) \in Nat /\ DOMAIN feeds[s] = 1..Len(feeds[s])
  BY <1>1, LenProperties
<1>3. Len(feeds[s]) # 0
  BY <1>1, EmptySeq
<1> QED BY <1>1, <1>2, <1>3

(***************************************************************************)
(* The number of ticks is that of the shortest feed at most.               *)
(***************************************************************************)
LEMMA TicksType ==
    ASSUME Setup, Started
    PROVE  ticks \in Nat /\ \A s \in SymbolSet : ticks <= Len(feeds[s])
<1> DEFINE T == {Len(feeds[s]) : s \in SymbolSet}
           least == Min(T)
<1>1. T \subseteq Nat /\ Len(feeds[Proxy]) \in T
  BY FeedParts, Constants
<1>2. least \in T /\ \A y \in T : least <= y
  <2> HIDE DEF T
  <2>1. \E x \in T : \A y \in T : x <= y
    BY <1>1, LeastNumber
  <2> QED BY <2>1 DEF Min
<1>3. least \in Nat /\ \A s \in SymbolSet : least <= Len(feeds[s])
  BY <1>1, <1>2
<1>4. options.maxTicks \in Int
  BY SimAssumption DEF Setup
<1>5. ticks = IF options.maxTicks > 0 THEN Min({least, options.maxTicks}) ELSE least
  BY DEF ticks
<1> HIDE DEF least
<1>6. Min({least, options.maxTicks}) =
         IF least <= options.maxTicks THEN least ELSE options.maxTicks
  BY <1>3, <1>4, MinOfTwo
<1>7. ticks \in Nat /\ ticks <= least
  BY <1>3, <1>4, <1>5, <1>6
<1>8. ASSUME NEW s \in SymbolSet PROVE ticks <= Len(feeds[s])
  <2>1. Len(feeds[s]) \in Nat
    BY FeedParts
  <2> QED BY <1>3, <1>7, <2>1
<1> QED BY <1>7, <1>8

LEMMA TicksTypeNext == Setup' /\ Started' => ticks' \in Nat
<1>1. Setup /\ Started => ticks \in Nat
  BY TicksType
<1>2. (Setup /\ Started => ticks \in Nat)'
  BY <1>1, PTL
<1> QED BY <1>2

(***************************************************************************)
(* While a tick runs, at finds the snapshot that tick is to show, and      *)
(* never one beyond the end.                                               *)
(***************************************************************************)
LEMMA ShownSnapshot ==
    ASSUME Setup, Started, t \in Nat, t < ticks, NEW s \in SymbolSet
    PROVE  /\ at(feeds[s], SnapIndex) = Shown(s, t)
           /\ Shown(s, t) \in Snapshot
<1> DEFINE n == Len(feeds[s])
<1>1. /\ n \in Nat /\ t < n /\ feeds[s] = Snapshots(files[s])
      /\ \A i \in 1..n : feeds[s][i] \in Snapshot
  <2>1. n \in Nat /\ feeds[s] = Snapshots(files[s]) /\ feeds[s] \in Seq(Snapshot)
    BY FeedParts
  <2>2. t < n
    <3>1. ticks \in Nat /\ ticks <= n
      BY TicksType
    <3> QED BY <2>1, <3>1
  <2> QED BY <2>1, <2>2, ElementOfSeq
<1>2. SnapIndex \in 0..(n - 1) /\ freezeBook \in Nat
      /\ SnapIndex = (IF freezeBook # 0 /\ t # 0 /\ t % freezeBook = 0 THEN t - 1 ELSE t)
  <2>1. freezeBook \in Nat
    BY CommandLine
  <2> QED BY <1>1, <2>1 DEF SnapIndex
<1>3. SnapIndex % n = SnapIndex
  <2> DEFINE i == SnapIndex
  <2>1. i \in 0..(n - 1) /\ i \in Int /\ n \in Int /\ n > 0 /\ i = n * 0 + i
    BY <1>1, <1>2
  <2> HIDE DEF i, n
  <2> QED BY <2>1, QuotientIs DEF i
<1>4. at(feeds[s], SnapIndex) = feeds[s][SnapIndex + 1] /\ SnapIndex + 1 \in 1..n
  BY <1>1, <1>2, <1>3 DEF at
<1>5. feeds[s][SnapIndex + 1] = Shown(s, t)
  BY <1>1, <1>2 DEF Shown
<1> QED BY <1>1, <1>4, <1>5

-----------------------------------------------------------------------------
(* The window of mids                                                      *)

LEMMA LongerWindow ==
    ASSUME NEW n \in Nat, NEW w \in [1..n -> Int], NEW mid \in Int
    PROVE  /\ Append(w, mid) \in Seq(Int) /\ Len(Append(w, mid)) = n + 1
           /\ Append(w, mid) = [i \in 1..(n + 1) |-> IF i = n + 1 THEN mid ELSE w[i]]
           /\ Tail(Append(w, mid)) = [i \in 1..n |-> IF i = n THEN mid ELSE w[i + 1]]
<1> DEFINE x == Append(w, mid)
           y == Tail(x)
<1>1. w \in Seq(Int) /\ Len(w) = n
  BY FunctionIsSeq
<1>2. /\ x \in Seq(Int) /\ Len(x) = n + 1 /\ DOMAIN x = 1..(n + 1)
      /\ \A i \in 1..n : x[i] = w[i]
      /\ x[n + 1] = mid
  BY <1>1, AppendProperties, LenProperties
<1>3. x = [i \in 1..(n + 1) |-> IF i = n + 1 THEN mid ELSE w[i]]
  <2> HIDE DEF x
  <2>1. x = [i \in 1..(n + 1) |-> x[i]]
    <3>1. x \in [1..(n + 1) -> Int]
      BY <1>2, LenProperties
    <3> QED BY <3>1
  <2>2. \A i \in 1..(n + 1) : x[i] = IF i = n + 1 THEN mid ELSE w[i]
    BY <1>2
  <2> QED BY <2>1, <2>2
<1>4. /\ y \in Seq(Int) /\ Len(y) = n /\ DOMAIN y = 1..n
      /\ \A i \in 1..n : y[i] = x[i + 1]
  <2> HIDE DEF x
  <2>1. x # <<>>
    <3>1. Len(x) # 0
      BY <1>2
    <3> QED BY <3>1, EmptySeq
  <2>2. y \in Seq(Int) /\ Len(y) = Len(x) - 1 /\ \A i \in 1..Len(y) : y[i] = x[i + 1]
    BY <1>2, <2>1, HeadTailProperties
  <2>3. Len(y) = n
    BY <1>2, <2>2
  <2> QED BY <2>2, <2>3, LenProperties
<1>5. y = [i \in 1..n |-> IF i = n THEN mid ELSE w[i + 1]]
  <2>1. y = [i \in 1..n |-> y[i]]
    <3> HIDE DEF y
    <3>1. y \in [1..n -> Int]
      BY <1>4, LenProperties
    <3> QED BY <3>1
  <2> HIDE DEF x, y
  <2>2. \A i \in 1..n : y[i] = IF i = n THEN mid ELSE w[i + 1]
    BY <1>2, <1>4
  <2> QED BY <2>1, <2>2
<1> QED BY <1>2, <1>3, <1>5

(***************************************************************************)
(* A window of the last mids, moved on by one.                             *)
(***************************************************************************)
LastOf(m, n) ==
    LET first == Max({0, n - VolWindow}) IN [i \in 1..(n - first) |-> m[first + i - 1]]

LEMMA LastOfParts ==
    ASSUME NEW n \in Nat, NEW m, NEW k \in Nat, k = IF n <= VolWindow THEN n ELSE VolWindow
    PROVE  /\ LastOf(m, n) = [i \in 1..k |-> LastOf(m, n)[i]]
           /\ \A i \in 1..k : LastOf(m, n)[i] = m[n - k + i - 1]
<1>1. VolWindow \in Nat
  BY Constants
<1>2. Max({0, n - VolWindow}) = IF 0 >= n - VolWindow THEN 0 ELSE n - VolWindow
  BY <1>1, MaxOfTwo
<1> DEFINE first == Max({0, n - VolWindow})
<1>3. first = n - k /\ n - first = k
  BY <1>1, <1>2
<1>4. LastOf(m, n) = [i \in 1..(n - first) |-> m[first + i - 1]]
  BY DEF LastOf
<1> HIDE DEF first
<1>5. LastOf(m, n) = [i \in 1..k |-> LastOf(m, n)[i]]
  BY <1>3, <1>4
<1>6. \A i \in 1..k : LastOf(m, n)[i] = m[first + i - 1] /\ first + i - 1 = n - k + i - 1
  BY <1>3, <1>4
<1> QED BY <1>5, <1>6

LEMMA PushedMid ==
    ASSUME NEW n \in Nat, NEW m \in [0..n -> Int]
    PROVE  /\ LastOf(m, n) \in Seq(Int) /\ Len(LastOf(m, n)) <= VolWindow
           /\ PushMid(LastOf(m, n), m[n]) = LastOf(m, n + 1)
<1>1. VolWindow \in Nat /\ VolWindow >= 1
  BY Constants
<1> DEFINE w == LastOf(m, n)
           x == Append(w, m[n])
           y == LastOf(m, n + 1)
<1>2. PICK k \in Nat : k = IF n <= VolWindow THEN n ELSE VolWindow
  BY <1>1
<1>3. PICK l \in Nat : l = IF n + 1 <= VolWindow THEN n + 1 ELSE VolWindow
  BY <1>1
<1>4. w = [i \in 1..k |-> w[i]] /\ \A i \in 1..k : w[i] = m[n - k + i - 1]
  BY <1>2, LastOfParts
<1>5. y = [i \in 1..l |-> y[i]] /\ \A i \in 1..l : y[i] = m[n + 1 - l + i - 1]
  <2>1. PICK q \in Nat : q = n + 1
    OBVIOUS
  <2>2. l = IF q <= VolWindow THEN q ELSE VolWindow
    BY <1>3, <2>1
  <2>3. /\ LastOf(m, q) = [i \in 1..l |-> LastOf(m, q)[i]]
        /\ \A i \in 1..l : LastOf(m, q)[i] = m[q - l + i - 1]
    BY <2>2, LastOfParts, Zenon
  <2>4. y = LastOf(m, q)
    BY <2>1
  <2> HIDE DEF y
  <2> QED BY <2>1, <2>3, <2>4
<1> HIDE DEF w, y
<1>6. k <= VolWindow /\ w \in [1..k -> Int]
  <2>1. k <= VolWindow /\ k <= n
    BY <1>1, <1>2
  <2>2. \A i \in 1..k : n - k + i - 1 \in 0..n
    BY <2>1
  <2>3. \A i \in 1..k : w[i] \in Int
    BY <1>4, <2>2
  <2> QED BY <1>4, <2>1, <2>3
<1>7. m[n] \in Int
  OBVIOUS
<1>8. w \in Seq(Int) /\ Len(w) = k
  BY <1>6, FunctionIsSeq
<1>9. /\ Len(x) = k + 1
      /\ x = [i \in 1..(k + 1) |-> IF i = k + 1 THEN m[n] ELSE w[i]]
      /\ Tail(x) = [i \in 1..k |-> IF i = k THEN m[n] ELSE w[i + 1]]
  BY <1>6, <1>7, LongerWindow
<1>10. PushMid(w, m[n]) = IF Len(x) > VolWindow THEN Tail(x) ELSE x
  BY DEF PushMid
<1> HIDE DEF x
<1>11. CASE n < VolWindow
  <2>1. k = n /\ l = k + 1 /\ ~(Len(x) > VolWindow)
    BY <1>1, <1>2, <1>3, <1>9, <1>11
  <2>2. \A i \in 1..l : (IF i = k + 1 THEN m[n] ELSE w[i]) = y[i]
    <3> TAKE i \in 1..l
    <3>1. y[i] = m[i - 1]
      <4>1. n + 1 - l + i - 1 = i - 1
        BY <2>1
      <4> QED BY <1>5, <4>1
    <3>2. CASE i = k + 1
      <4>1. i - 1 = n
        BY <2>1, <3>2
      <4> QED BY <3>1, <3>2, <4>1
    <3>3. CASE i # k + 1
      <4>1. i \in 1..k /\ n - k + i - 1 = i - 1
        BY <2>1, <3>3
      <4> QED BY <1>4, <3>1, <3>3, <4>1
    <3> QED BY <3>2, <3>3
  <2>3. x = [i \in 1..l |-> IF i = k + 1 THEN m[n] ELSE w[i]]
    BY <1>9, <2>1
  <2>4. x = y
    BY <1>5, <2>2, <2>3
  <2> QED BY <1>6, <1>8, <1>10, <2>1, <2>4 DEF w, y
<1>12. CASE ~(n < VolWindow)
  <2>1. k = VolWindow /\ l = k /\ Len(x) > VolWindow
    BY <1>1, <1>2, <1>3, <1>9, <1>12
  <2>2. \A i \in 1..l : (IF i = k THEN m[n] ELSE w[i + 1]) = y[i]
    <3> TAKE i \in 1..l
    <3>1. y[i] = m[n - l + i]
      <4>1. n + 1 - l + i - 1 = n - l + i
        BY <2>1
      <4> QED BY <1>5, <4>1
    <3>2. CASE i = k
      <4>1. n - l + i = n
        BY <2>1, <3>2
      <4> QED BY <3>1, <3>2, <4>1
    <3>3. CASE i # k
      <4>1. i + 1 \in 1..k /\ n - k + (i + 1) - 1 = n - l + i
        BY <2>1, <3>3
      <4> QED BY <1>4, <3>1, <3>3, <4>1
    <3> QED BY <3>2, <3>3
  <2>3. Tail(x) = [i \in 1..l |-> IF i = k THEN m[n] ELSE w[i + 1]]
    BY <1>9, <2>1
  <2>4. Tail(x) = y
    BY <1>5, <2>2, <2>3
  <2> QED BY <1>6, <1>8, <1>10, <2>1, <2>4 DEF w, y
<1> QED BY <1>11, <1>12

-----------------------------------------------------------------------------
(* What a step leaves as it was                                            *)

LEMMA ShownType ==
    ASSUME Setup, Started, NEW s \in SymbolSet, NEW k \in Nat, k < Len(feeds[s])
    PROVE  Shown(s, k) \in Snapshot /\ Snapshots(files[s])[k + 1] \in Snapshot
<1> DEFINE rows == Snapshots(files[s])
           n == Len(rows)
<1>1. n \in Nat /\ k < n /\ \A i \in 1..n : rows[i] \in Snapshot
  BY FeedParts, ElementOfSeq
<1>2. Shown(s, k) = IF freezeBook # 0 /\ k # 0 /\ k % freezeBook = 0 THEN rows[k] ELSE rows[k + 1]
  BY DEF Shown
<1>3. k + 1 \in 1..n /\ (k # 0 => k \in 1..n)
  BY <1>1
<1> HIDE DEF rows, n
<1>4. rows[k + 1] \in Snapshot /\ Shown(s, k) \in Snapshot
  BY <1>1, <1>2, <1>3
<1> QED BY <1>4 DEF rows

LEMMA SetupStays ==
    ASSUME setup' = setup
    PROVE  /\ \A u, k : Shown(u, k)' = Shown(u, k)
           /\ \A x : Widened(x)' = Widened(x)
           /\ lag' = lag /\ params' = params /\ files' = files /\ config' = config
           /\ options' = options /\ Setup' = Setup /\ Loaded' = Loaded
BY DEF setup, Shown, freezeBook, Widened, lag, params, Setup, Loaded

LEMMA TicksStay ==
    ASSUME setup' = setup, feeds' = feeds
    PROVE  ticks' = ticks /\ Started' = Started
BY DEF setup, ticks, Started, Loaded

LEMMA AfterTicks ==
    ASSUME setup' = setup, NEW s \in SymbolSet, NEW n \in Nat, Had(s)' = n
    PROVE  /\ IntentAfter(s, Had(s))' = IntentAfter(s, n)
           /\ Window(s, Had(s))' = Window(s, n)
           /\ Learnt(s, Min({Had(s), BaselineWin}))' = Learnt(s, Min({n, BaselineWin}))
<1>1. /\ \A u, k : Shown(u, k)' = Shown(u, k)
      /\ \A x : Widened(x)' = Widened(x)
      /\ lag' = lag /\ params' = params /\ config' = config
  BY SetupStays
<1>2. IntentAfter(s, Had(s))' = IntentAfter(s, n)
  BY <1>1 DEF IntentAfter
<1>3. Window(s, Had(s))' = Window(s, n)
  BY <1>1 DEF Window
<1>4. Learnt(s, Min({Had(s), BaselineWin}))' = Learnt(s, Min({n, BaselineWin}))
  BY <1>1 DEF Learnt
<1> QED BY <1>2, <1>3, <1>4

LEMMA HadType ==
    ASSUME t \in Nat, NEW s
    PROVE  Had(s) \in Nat /\ Had(s) <= t + 1 /\ Had(s) >= t
BY DEF Had

LEMMA SymbolInvStays ==
    ASSUME setup' = setup, t \in Nat, NEW s \in SymbolSet, SymbolInv(s),
           pnl'[s] = pnl[s], cash'[s] = cash[s], intent'[s] = intent[s],
           midHist'[s] = midHist[s], baseline'[s] = baseline[s], Had(s)' = Had(s)
    PROVE  SymbolInv(s)'
<1>1. PICK n \in Nat : n = Had(s)
  BY HadType
<1>2. /\ IntentAfter(s, Had(s))' = IntentAfter(s, n)
      /\ Window(s, Had(s))' = Window(s, n)
      /\ Learnt(s, Min({Had(s), BaselineWin}))' = Learnt(s, Min({n, BaselineWin}))
  BY <1>1, AfterTicks
<1>3. Ledger(pnl[s], cash[s])'
  BY DEF SymbolInv
<1>4. (Had(s) > 0 => intent[s] = IntentAfter(s, Had(s)))'
  BY <1>1, <1>2 DEF SymbolInv
<1>5. (midHist[s] = Window(s, Had(s)))'
  BY <1>1, <1>2 DEF SymbolInv
<1>6. (baseline[s] = Learnt(s, Min({Had(s), BaselineWin})))'
  BY <1>1, <1>2 DEF SymbolInv
<1> QED BY <1>3, <1>4, <1>5, <1>6 DEF SymbolInv

-----------------------------------------------------------------------------
(* A symbol's part of a tick                                               *)

LEMMA TickContext ==
    ASSUME IInv, NEW s \in SymbolSet, SymbolTick(s)
    PROVE  /\ Setup /\ Started /\ phase = "tick" /\ ~kill
           /\ t \in Nat /\ t < ticks
           /\ next \in 1..Len(Symbols) /\ s = Symbols[next]
           /\ at(feeds[s], SnapIndex) = Shown(s, t)
           /\ \A k \in 0..t : Shown(s, k) \in Snapshot
           /\ \A u \in SymbolSet : t < Len(feeds[u])
<1>1. Setup /\ t \in Nat /\ next \in Nat /\ kill \in BOOLEAN
  BY Constants DEF IInv, TypeOK, Setup
<1>2. phase = "tick" /\ next <= Len(Symbols) /\ s = Symbols[next] /\ (next = 1 => Continues)
  BY DEF SymbolTick
<1>3. Started
  BY <1>2 DEF IInv, TickInv, Started
<1>4. t < ticks /\ ~kill
  BY <1>2 DEF IInv, TickInv, Continues
<1>5. next \in 1..Len(Symbols)
  BY <1>1, <1>2, Constants DEF IInv, TypeOK
<1>6. at(feeds[s], SnapIndex) = Shown(s, t)
  BY <1>1, <1>3, <1>4, ShownSnapshot
<1>7. ASSUME NEW u \in SymbolSet PROVE t < Len(feeds[u])
  <2>1. ticks \in Nat /\ ticks <= Len(feeds[u]) /\ Len(feeds[u]) \in Nat
    BY <1>1, <1>3, TicksType, FeedParts
  <2> QED BY <1>1, <1>4, <2>1
<1>8. ASSUME NEW k \in 0..t PROVE Shown(s, k) \in Snapshot
  <2>1. Len(feeds[s]) \in Nat
    BY <1>1, <1>3, FeedParts
  <2>2. k \in Nat /\ k < Len(feeds[s])
    BY <1>1, <1>7, <2>1
  <2> QED BY <1>1, <1>3, <2>2, ShownType
<1> QED BY <1>1, <1>2, <1>3, <1>4, <1>5, <1>6, <1>7, <1>8

LEMMA TickFrame ==
    ASSUME NEW s \in SymbolSet, SymbolTick(s)
    PROVE  /\ setup' = setup /\ phase' = phase /\ feeds' = feeds /\ t' = t /\ kill' = kill
           /\ next' = next + 1
BY DEF SymbolTick

LEMMA HadAfterTick ==
    ASSUME IInv, NEW s \in SymbolSet, SymbolTick(s)
    PROVE  /\ Had(s) = t /\ Had(s)' = t + 1
           /\ \A u \in SymbolSet : u # s => Had(u)' = Had(u)
<1>1. /\ next \in 1..Len(Symbols) /\ s = Symbols[next] /\ next' = next + 1 /\ t' = t
      /\ t \in Nat /\ Len(Symbols) \in Nat
  BY TickContext, TickFrame, Constants
<1>2. ~ \E i \in 1..(next - 1) : Symbols[i] = s
  BY <1>1, Constants
<1>3. \E i \in 1..(next' - 1) : Symbols[i] = s
  <2>1. next \in 1..(next' - 1)
    BY <1>1
  <2> QED BY <1>1, <2>1
<1>4. ASSUME NEW u \in SymbolSet, u # s PROVE Had(u)' = Had(u)
  <2>1. (\E i \in 1..(next' - 1) : Symbols[i] = u) <=> \E i \in 1..(next - 1) : Symbols[i] = u
    <3>1. \A i \in 1..(next' - 1) : i = next \/ i \in 1..(next - 1)
      BY <1>1
    <3>2. \A i \in 1..(next - 1) : i \in 1..(next' - 1)
      BY <1>1
    <3> QED BY <1>1, <1>4, <3>1, <3>2
  <2> QED BY <1>1, <2>1 DEF Had
<1>5. Had(s) = t
  BY <1>2 DEF Had
<1>6. Had(s)' = t + 1
  BY <1>1, <1>3 DEF Had
<1> QED BY <1>4, <1>5, <1>6

LEMMA SinceIdentity ==
    ASSUME NEW n \in Nat, NEW d \in Int, d > 0
    PROVE  /\ n % d = 0 => (n \div d) * d = n
           /\ n % d # 0 => n > 0 /\ ((n - 1) \div d) * d = (n \div d) * d
<1> DEFINE q == n \div d
           r == n % d
<1>1. q \in Int /\ r \in 0..(d - 1) /\ n = d * q + r
  BY DivMod
<1> HIDE DEF q, r
<1>2. ASSUME r = 0 PROVE q * d = n
  BY <1>1, <1>2
<1>3. ASSUME r # 0 PROVE n > 0 /\ ((n - 1) \div d) * d = q * d
  <2>1. n > 0
    <3>1. CASE n = 0
      <4>1. n = d * 0 + 0
        BY <3>1
      <4>2. n % d = 0
        BY <4>1, QuotientIs
      <4> QED BY <4>2, <1>3 DEF r
    <3> QED BY <3>1
  <2>2. n - 1 \in Int /\ r - 1 \in 0..(d - 1) /\ n - 1 = d * q + (r - 1)
    <3> DEFINE z == d * q
    <3>1. z \in Int /\ n = z + r
      BY <1>1
    <3> HIDE DEF z
    <3>2. r - 1 \in 0..(d - 1) /\ n - 1 = z + (r - 1)
      BY <1>1, <1>3, <3>1
    <3> QED BY <3>2 DEF z
  <2>3. (n - 1) \div d = q
    <3> DEFINE a == n - 1
               b == r - 1
    <3>1. a \in Int /\ b \in 0..(d - 1) /\ a = d * q + b
      BY <2>2
    <3> HIDE DEF a, b
    <3>2. a \div d = q
      BY <1>1, <3>1, QuotientIs
    <3> QED BY <3>2 DEF a
  <2> QED BY <2>1, <2>3
<1> QED BY <1>2, <1>3 DEF q, r

(***************************************************************************)
(* --lag-strategy: the intent is recomputed when it is due, and at no      *)
(* other tick.                                                             *)
(***************************************************************************)
LEMMA TickIntent ==
    ASSUME IInv, NEW s \in SymbolSet, SymbolTick(s)
    PROVE  /\ intent'[s] = IntentAfter(s, t + 1)
           /\ intent' = [intent EXCEPT ![s] = intent'[s]]
           /\ intent'[s] \in Intents
           /\ intent'[s].clip \in config.minClip..config.maxClip
<1> DEFINE row == Shown(s, t)
           imb == Imbalance(row.bid, row.ask)
           since == lag * config.recalc
           day(k) == ((k - 1) \div since) * since
<1>1. /\ Setup /\ t \in Nat /\ at(feeds[s], SnapIndex) = row /\ row \in Snapshot
      /\ intent \in [SymbolSet -> Intents]
  <2>1. t \in 0..t
    BY TickContext
  <2> QED BY <2>1, TickContext DEF IInv, TypeOK
<1>2. intent' = [intent EXCEPT ![s] = updateIntent(params, t, @, imb)]
  BY <1>1 DEF SymbolTick
<1>3. intent'[s] = updateIntent(params, t, intent[s], imb)
  BY <1>1, <1>2
<1>4. /\ params \in Parameters /\ params.lag = lag /\ params.recalc = config.recalc
      /\ params.minClip = config.minClip /\ params.maxClip = config.maxClip
      /\ lag \in Positive /\ config.recalc \in Positive
  BY <1>1, CommandLine, ParameterParts
<1>5. since \in Int /\ since > 0
  BY <1>4, ProductPositive DEF Positive
<1>6. updateIntent(params, t, intent[s], imb) =
         IF t % since = 0 THEN Intent(params, imb) ELSE intent[s]
  BY <1>4 DEF updateIntent
<1>7. (t + 1) - 1 = t
  BY <1>1
<1>8. IntentAfter(s, t + 1) =
         LET r == Shown(s, (t \div since) * since) IN Intent(params, Imbalance(r.bid, r.ask))
  BY <1>7 DEF IntentAfter
<1>9. t % since = 0 => (t \div since) * since = t
  <2> HIDE DEF since
  <2> QED BY <1>1, <1>5, SinceIdentity
<1>10. t % since # 0 => t > 0 /\ ((t - 1) \div since) * since = (t \div since) * since
  <2> HIDE DEF since
  <2> QED BY <1>1, <1>5, SinceIdentity
<1>11. Had(s) = t /\ (t > 0 => intent[s] = IntentAfter(s, t))
  BY HadAfterTick DEF IInv, SymbolInv
<1>12. intent'[s] = IntentAfter(s, t + 1)
  <2>1. CASE t % since = 0
    <3> HIDE DEF since
    <3>1. intent'[s] = Intent(params, imb)
      BY <2>1, <1>3, <1>6
    <3> QED BY <2>1, <3>1, <1>8, <1>9
  <2>2. CASE t % since # 0
    <3>1. intent'[s] = IntentAfter(s, t)
      BY <2>2, <1>3, <1>6, <1>10, <1>11
    <3>2. IntentAfter(s, t) =
            LET r == Shown(s, ((t - 1) \div since) * since)
            IN Intent(params, Imbalance(r.bid, r.ask))
      BY DEF IntentAfter
    <3> HIDE DEF since
    <3> QED BY <2>2, <3>1, <3>2, <1>8, <1>10
  <2> QED BY <2>1, <2>2
<1>13. Shown(s, (t \div since) * since) \in Snapshot
  <2> HIDE DEF since
  <2>1. (t \div since) * since \in 0..t
    <3> DEFINE q == t \div since
               z == since * q
    <3>1. q \in Int /\ t % since \in 0..(since - 1) /\ t = since * q + (t % since)
      BY <1>1, <1>5, DivMod
    <3>2. q >= 0
      <4>1. q \in 0..t
        <5>1. 0 * since <= t /\ t < (t + 1) * since
          <6>1. 0 * since = 0
            BY <1>5
          <6>2. t < (t + 1) * since
            BY <1>1, <1>5, SMTT(60)
          <6> QED BY <6>1, <6>2, <1>1
        <5> QED BY <5>1, <1>1, <1>5, QuotientBetween
      <4> QED BY <4>1
    <3> HIDE DEF q
    <3>3. z \in Int /\ z >= 0
      BY <1>5, <3>1, <3>2, SMTT(60)
    <3>4. z <= t
      <4>1. z \in Int /\ t = z + (t % since)
        BY <3>1, <3>3
      <4> HIDE DEF z
      <4> QED BY <4>1, <3>1, <1>1
    <3>5. q * since = z
      BY <1>5, <3>1
    <3> HIDE DEF z
    <3>6. q * since \in 0..t
      BY <3>3, <3>4, <3>5, <1>1
    <3> QED BY <3>6 DEF q
  <2> QED BY <2>1, TickContext
<1>14. /\ intent'[s] \in Intents
       /\ intent'[s].clip \in config.minClip..config.maxClip
  <2> DEFINE r == Shown(s, (t \div since) * since)
  <2>1. Imbalance(r.bid, r.ask) \in Imbalances
    BY <1>13, SnapshotParts, ImbalanceType
  <2>2. intent'[s] = Intent(params, Imbalance(r.bid, r.ask))
    BY <1>8, <1>12
  <2> HIDE DEF r
  <2>3. Intent(params, Imbalance(r.bid, r.ask)) \in Intents
        /\ Intent(params, Imbalance(r.bid, r.ask)).clip \in params.minClip..params.maxClip
    BY <1>4, <2>1, IntentType
  <2> QED BY <1>4, <2>2, <2>3
<1> QED BY <1>1, <1>2, <1>3, <1>12, <1>14

(***************************************************************************)
(* What a filled order does: the position and the cash move together, the  *)
(* order is passive, and the impact stays within its cap.                  *)
(***************************************************************************)
LEMMA FilledEffect ==
    ASSUME IInv, NEW s \in SymbolSet, NEW order \in Orders, NEW moved \in Impacts, NEW mid \in Int,
           base'[s] \in Int, Filled(s, order, moved, mid)
    PROVE  /\ impact' = [impact EXCEPT ![s] = impact'[s]] /\ impact'[s] \in Impacts
           /\ pnl' = [pnl EXCEPT ![s] = pnl'[s]] /\ pnl'[s] \in Positions
           /\ cash' = [cash EXCEPT ![s] = cash'[s]] /\ cash'[s] \in Int
           /\ Ledger(pnl'[s], cash'[s])
           /\ newOrders' \in Nat
           /\ quote' = [quote EXCEPT ![s] = <<order, base'[s]>>]
<1> DEFINE hit(delta) == onTrade(moved, order.side, delta)
           px(delta) == 2 * Max({1, RoundTicks(executionPrice(hit(delta), order.side, mid))})
           move(delta) == px(delta) * order.qty * IF order.side = "Bid" THEN -1 ELSE 1
<1>1. PICK delta \in Deltas :
         /\ impact' = [impact EXCEPT ![s] = hit(delta)]
         /\ pnl' = [pnl EXCEPT ![s] = onFill(@, order.side, px(delta), order.qty)]
         /\ cash' = [cash EXCEPT ![s] = @ + move(delta)]
         /\ newOrders' = newOrders + 1
         /\ quote' = [quote EXCEPT ![s] = <<order, base'[s]>>]
  BY DEF Filled
<1>2. /\ impact \in [SymbolSet -> Impacts] /\ pnl \in [SymbolSet -> Positions]
      /\ cash \in [SymbolSet -> Int] /\ newOrders \in Nat
      /\ Ledger(pnl[s], cash[s])
  BY DEF IInv, TypeOK, SymbolInv
<1>3. order.side \in {"Bid", "Ask"} /\ order.qty \in Positive /\ order.qty \in Int
  BY DEF Orders, Positive
<1>4. delta \in Nat
  BY SimAssumption
<1>5. hit(delta) \in Impacts
  BY <1>3, <1>4, OnTradeType
<1>6. px(delta) \in Nat
  <2> DEFINE e == RoundTicks(executionPrice(hit(delta), order.side, mid))
  <2>1. e \in Int
    <3> HIDE DEF hit
    <3> QED BY <1>3, <1>5, MidsAreWhole
  <2> HIDE DEF e
  <2>2. Max({1, e}) = IF 1 >= e THEN 1 ELSE e
    BY <2>1, MaxOfTwo
  <2>3. 2 * Max({1, e}) \in Nat
    BY <2>1, <2>2
  <2> QED BY <2>3 DEF e
<1>7. move(delta) \in Int
  <2> HIDE DEF px
  <2>1. px(delta) * order.qty \in Int
    BY <1>3, <1>6
  <2> QED BY <2>1
<1>8. /\ pnl'[s] = onFill(pnl[s], order.side, px(delta), order.qty)
      /\ cash'[s] = cash[s] + move(delta)
      /\ impact'[s] = hit(delta)
  <2> HIDE DEF px, move, hit
  <2> QED BY <1>1, <1>2
<1>9. /\ onFill(pnl[s], order.side, px(delta), order.qty) \in Positions
      /\ Ledger(onFill(pnl[s], order.side, px(delta), order.qty), cash[s] + move(delta))
  <2> HIDE DEF px
  <2>1. pnl[s] \in Positions /\ cash[s] \in Int
    BY <1>2
  <2> QED BY <1>2, <1>3, <1>6, <2>1, OnFillKeepsLedger, Zenon
<1>10. cash'[s] \in Int
  <2> HIDE DEF move
  <2>1. cash[s] \in Int
    BY <1>2
  <2> QED BY <2>1, <1>7, <1>8
<1> HIDE DEF px, move, hit
<1>11. /\ impact' = [impact EXCEPT ![s] = impact'[s]] /\ pnl' = [pnl EXCEPT ![s] = pnl'[s]]
       /\ cash' = [cash EXCEPT ![s] = cash'[s]]
  BY <1>1, <1>8
<1> QED BY <1>1, <1>2, <1>5, <1>8, <1>9, <1>10, <1>11

LEMMA TickTrades ==
    ASSUME IInv, NEW s \in SymbolSet, SymbolTick(s)
    PROVE  /\ base' = [base EXCEPT ![s] = base'[s]] /\ base'[s] \in Int
           /\ impact' = [impact EXCEPT ![s] = impact'[s]] /\ impact'[s] \in Impacts
           /\ pnl' = [pnl EXCEPT ![s] = pnl'[s]] /\ pnl'[s] \in Positions
           /\ cash' = [cash EXCEPT ![s] = cash'[s]] /\ cash'[s] \in Int
           /\ Ledger(pnl'[s], cash'[s])
           /\ newOrders' \in Nat
           /\ \/ quote' = quote
              \/ \E order \in Orders :
                    /\ quote' = [quote EXCEPT ![s] = <<order, base'[s]>>]
                    /\ order.qty \in config.minClip..config.maxClip
                    /\ Passive(order, base'[s])
<1> DEFINE row == Shown(s, t)
<1>1. /\ Setup /\ at(feeds[s], SnapIndex) = row /\ row.mid \in Int /\ row.spread \in Int
      /\ base \in [SymbolSet -> Int] /\ impact \in [SymbolSet -> Impacts]
      /\ pnl \in [SymbolSet -> Positions] /\ cash \in [SymbolSet -> Int]
      /\ newOrders \in Nat /\ Ledger(pnl[s], cash[s])
  <2>1. row \in Snapshot
    <3>1. t \in 0..t
      BY TickContext
    <3> QED BY <3>1, TickContext
  <2>2. row.mid \in Int /\ row.spread \in Int
    BY <2>1, SnapshotParts
  <2> QED BY <2>2, TickContext DEF IInv, TypeOK, SymbolInv
<1> HIDE DEF row
<1>2. PICK moved \in AfterTick(impact[s], Widened(row.spread)) :
         /\ base' = [base EXCEPT ![s] = RoundTicks(effectiveMid(moved, row.mid))]
         /\ IF Fires(t, intent'[s])
            THEN \E coin \in {"Bid", "Ask"} :
                    Filled(s, fireOne(params, intent'[s], base'[s], coin), moved, row.mid)
            ELSE /\ impact' = [impact EXCEPT ![s] = moved]
                 /\ UNCHANGED <<pnl, cash, newOrders, quote>>
  BY <1>1 DEF SymbolTick
<1>3. moved \in Impacts
  <2>1. impact[s] \in Impacts /\ Widened(row.spread) \in Int
    BY <1>1, WidenedType
  <2> QED BY <2>1, AfterTickType
<1>4. base'[s] = RoundTicks(effectiveMid(moved, row.mid)) /\ base'[s] \in Int
  <2>1. base'[s] = RoundTicks(effectiveMid(moved, row.mid))
    BY <1>1, <1>2
  <2>2. "Bid" \in {"Bid", "Ask"}
    OBVIOUS
  <2> QED BY <1>1, <1>3, <2>1, <2>2, MidsAreWhole
<1>5. base' = [base EXCEPT ![s] = base'[s]]
  BY <1>2, <1>4
<1>6. CASE Fires(t, intent'[s])
  <2>1. PICK coin \in {"Bid", "Ask"} :
           Filled(s, fireOne(params, intent'[s], base'[s], coin), moved, row.mid)
    BY <1>2, <1>6
  <2> DEFINE order == fireOne(params, intent'[s], base'[s], coin)
  <2>2. order \in Orders /\ order.qty = intent'[s].clip /\ Passive(order, base'[s])
    <3>1. params \in Parameters /\ intent'[s] \in Intents
      BY <1>1, CommandLine, TickIntent
    <3> QED BY <3>1, <1>4, FireOneIsPassive
  <2>3. order.qty \in config.minClip..config.maxClip
    BY <2>2, TickIntent
  <2> HIDE DEF order
  <2>4. Filled(s, order, moved, row.mid)
    BY <2>1 DEF order
  <2>5. /\ impact' = [impact EXCEPT ![s] = impact'[s]] /\ impact'[s] \in Impacts
        /\ pnl' = [pnl EXCEPT ![s] = pnl'[s]] /\ pnl'[s] \in Positions
        /\ cash' = [cash EXCEPT ![s] = cash'[s]] /\ cash'[s] \in Int
        /\ Ledger(pnl'[s], cash'[s])
        /\ newOrders' \in Nat
        /\ quote' = [quote EXCEPT ![s] = <<order, base'[s]>>]
    BY <1>1, <1>3, <1>4, <2>2, <2>4, FilledEffect
  <2> QED BY <1>4, <1>5, <2>2, <2>3, <2>5
<1>7. CASE ~Fires(t, intent'[s])
  <2>1. /\ impact' = [impact EXCEPT ![s] = moved]
        /\ pnl' = pnl /\ cash' = cash /\ newOrders' = newOrders /\ quote' = quote
    BY <1>2, <1>7
  <2>2. impact'[s] = moved
    BY <1>1, <2>1
  <2>3. pnl = [pnl EXCEPT ![s] = pnl[s]] /\ cash = [cash EXCEPT ![s] = cash[s]]
    BY <1>1
  <2>4. pnl[s] \in Positions /\ cash[s] \in Int
    BY <1>1
  <2> QED BY <1>1, <1>3, <1>4, <1>5, <2>1, <2>2, <2>3, <2>4
<1> QED BY <1>6, <1>7

LEMMA WindowIsLast ==
    ASSUME NEW s, NEW n \in Nat, NEW m, \A k \in 0..(n - 1) : m[k] = Shown(s, k).mid
    PROVE  Window(s, n) = LastOf(m, n)
<1> DEFINE first == Max({0, n - VolWindow})
<1>1. first \in Nat
  <2>1. VolWindow \in Nat
    BY Constants
  <2>2. first = IF 0 >= n - VolWindow THEN 0 ELSE n - VolWindow
    BY <2>1, MaxOfTwo
  <2> HIDE DEF first
  <2> QED BY <2>1, <2>2
<1>2. Window(s, n) = [i \in 1..(n - first) |-> Shown(s, first + i - 1).mid]
  BY DEF Window
<1>3. LastOf(m, n) = [i \in 1..(n - first) |-> m[first + i - 1]]
  BY DEF LastOf
<1> HIDE DEF first
<1>4. \A i \in 1..(n - first) : m[first + i - 1] = Shown(s, first + i - 1).mid
  <2> TAKE i \in 1..(n - first)
  <2>1. first + i - 1 \in 0..(n - 1)
    BY <1>1
  <2> QED BY <2>1
<1> QED BY <1>2, <1>3, <1>4

LEMMA PushMidType ==
    ASSUME NEW w \in Seq(Int), Len(w) <= VolWindow, NEW mid \in Int
    PROVE  PushMid(w, mid) \in Seq(Int) /\ Len(PushMid(w, mid)) <= VolWindow
<1> DEFINE x == Append(w, mid)
<1>1. x \in Seq(Int) /\ Len(x) = Len(w) + 1 /\ Len(w) \in Nat /\ VolWindow \in Nat
  BY AppendProperties, LenProperties, Constants
<1>2. PushMid(w, mid) = IF Len(x) > VolWindow THEN Tail(x) ELSE x
  BY DEF PushMid
<1> HIDE DEF x
<1>3. x # <<>>
  <2>1. Len(x) # 0
    BY <1>1
  <2> QED BY <2>1, EmptySeq
<1>4. Tail(x) \in Seq(Int) /\ Len(Tail(x)) = Len(x) - 1
  BY <1>1, <1>3, HeadTailProperties
<1>5. CASE Len(x) > VolWindow
  <2>1. Len(Tail(x)) <= VolWindow
    BY <1>1, <1>4
  <2> QED BY <1>2, <1>4, <1>5, <2>1
<1>6. CASE ~(Len(x) > VolWindow)
  <2>1. Len(x) <= VolWindow
    BY <1>1, <1>6
  <2> QED BY <1>1, <1>2, <1>6, <2>1
<1> QED BY <1>5, <1>6

(***************************************************************************)
(* The window moves on by the tick's mid.                                  *)
(***************************************************************************)
LEMMA TickWindow ==
    ASSUME IInv, NEW s \in SymbolSet, SymbolTick(s)
    PROVE  /\ midHist' = [midHist EXCEPT ![s] = midHist'[s]]
           /\ midHist'[s] = Window(s, t + 1)
           /\ midHist'[s] \in Seq(Int) /\ Len(midHist'[s]) <= VolWindow
<1> DEFINE row == Shown(s, t)
           m == [k \in 0..t |-> Shown(s, k).mid]
<1>1. /\ t \in Nat /\ at(feeds[s], SnapIndex) = row
      /\ midHist \in [SymbolSet -> Seq(Int)] /\ Len(midHist[s]) <= VolWindow
      /\ midHist[s] = Window(s, t)
  <2>1. Had(s) = t
    BY HadAfterTick
  <2> QED BY <2>1, TickContext DEF IInv, TypeOK, SymbolInv
<1>2. \A k \in 0..t : Shown(s, k).mid \in Int
  BY TickContext, SnapshotParts
<1>3. m \in [0..t -> Int] /\ m[t] = row.mid /\ row.mid \in Int
  BY <1>1, <1>2
<1>4. midHist' = [midHist EXCEPT ![s] = PushMid(@, row.mid)]
  BY <1>1 DEF SymbolTick
<1>5. Window(s, t) = LastOf(m, t)
  <2>1. \A k \in 0..(t - 1) : m[k] = Shown(s, k).mid
    BY <1>1
  <2> HIDE DEF m
  <2> QED BY <1>1, <2>1, WindowIsLast
<1>6. Window(s, t + 1) = LastOf(m, t + 1)
  <2>1. t + 1 \in Nat /\ \A k \in 0..((t + 1) - 1) : m[k] = Shown(s, k).mid
    BY <1>1
  <2> HIDE DEF m
  <2> QED BY <2>1, WindowIsLast
<1> HIDE DEF m, row
<1>7. PushMid(LastOf(m, t), m[t]) = LastOf(m, t + 1)
  BY <1>1, <1>3, PushedMid
<1>8. midHist'[s] = PushMid(midHist[s], row.mid)
  BY <1>1, <1>4
<1>9. midHist'[s] = Window(s, t + 1)
  BY <1>1, <1>3, <1>5, <1>6, <1>7, <1>8
<1>10. midHist[s] \in Seq(Int)
  BY <1>1
<1>11. midHist'[s] \in Seq(Int) /\ Len(midHist'[s]) <= VolWindow
  BY <1>1, <1>3, <1>8, <1>10, PushMidType
<1> QED BY <1>4, <1>8, <1>9, <1>11

(***************************************************************************)
(* The mean of the spreads learns the first BaselineWin of them.           *)
(***************************************************************************)
LEMMA TickBaseline ==
    ASSUME IInv, NEW s \in SymbolSet, SymbolTick(s)
    PROVE  /\ baseline' = [baseline EXCEPT ![s] = baseline'[s]]
           /\ baseline'[s] = Learnt(s, Min({t + 1, BaselineWin}))
           /\ baseline'[s] \in [sum : Int, count : 0..BaselineWin]
<1> DEFINE spread(k) == Widened(Shown(s, k).spread)
           terms(n) == [i \in 1..n |-> spread(i - 1)]
<1>1. /\ Setup /\ t \in Nat /\ at(feeds[s], SnapIndex) = Shown(s, t)
      /\ baseline \in [SymbolSet -> [sum : Int, count : 0..BaselineWin]]
      /\ baseline[s] = Learnt(s, Min({t, BaselineWin}))
      /\ BaselineWin \in Nat /\ BaselineWin >= 1
  <2>1. Had(s) = t
    BY HadAfterTick
  <2> QED BY <2>1, TickContext, Constants DEF IInv, TypeOK, SymbolInv
<1>2. \A k \in 0..t : spread(k) \in Int
  <2> TAKE k \in 0..t
  <2>1. Shown(s, k).spread \in Int
    BY TickContext, SnapshotParts
  <2> QED BY <1>1, <2>1, WidenedType
<1>3. baseline' = [baseline EXCEPT ![s] = Learn(@, spread(t))]
  BY <1>1 DEF SymbolTick
<1>4. baseline'[s] = Learn(baseline[s], spread(t))
  BY <1>1, <1>3
<1>5. \A n : Learnt(s, n) = [sum |-> Total(terms(n)), count |-> n]
  BY DEF Learnt
<1>6. baseline'[s] = Learnt(s, Min({t + 1, BaselineWin}))
      /\ baseline'[s] \in [sum : Int, count : 0..BaselineWin]
  <2>1. CASE t < BaselineWin
    <3>1. Min({t, BaselineWin}) = t /\ Min({t + 1, BaselineWin}) = t + 1
      BY <1>1, <2>1, MinOfTwo
    <3>2. baseline[s] = [sum |-> Total(terms(t)), count |-> t]
      BY <1>1, <1>5, <3>1
    <3>3. baseline'[s] = [sum |-> Total(terms(t)) + spread(t), count |-> t + 1]
      <4> HIDE DEF terms, spread
      <4> QED BY <1>4, <2>1, <3>2 DEF Learn
    <3>4. Total(terms(t + 1)) = Total(terms(t)) + spread(t)
      <4>1. terms(t) \in [1..t -> Int]
        <5>1. \A i \in 1..t : spread(i - 1) \in Int
          <6>1. \A i \in 1..t : i - 1 \in 0..t
            BY <1>1
          <6> HIDE DEF spread
          <6> QED BY <1>2, <6>1
        <5> HIDE DEF spread
        <5> QED BY <5>1
      <4>2. terms(t + 1) \in [1..(t + 1) -> Int]
        <5>1. \A i \in 1..(t + 1) : spread(i - 1) \in Int
          <6>1. \A i \in 1..(t + 1) : i - 1 \in 0..t
            BY <1>1
          <6> HIDE DEF spread
          <6> QED BY <1>2, <6>1
        <5> HIDE DEF spread
        <5> QED BY <5>1
      <4>3. \A i \in 1..t : terms(t + 1)[i] = terms(t)[i]
        <5> HIDE DEF spread
        <5> QED BY <1>1
      <4>4. terms(t + 1)[t + 1] = spread(t)
        <5>1. t + 1 \in 1..(t + 1) /\ (t + 1) - 1 = t
          BY <1>1
        <5> HIDE DEF spread
        <5> QED BY <5>1
      <4> HIDE DEF terms
      <4>5. Total(terms(t + 1)) = Total(terms(t)) + terms(t + 1)[t + 1]
        BY <1>1, <4>1, <4>2, <4>3, TotalLast
      <4> QED BY <4>4, <4>5
    <3>5. Total(terms(t)) + spread(t) \in Int
      <4>1. terms(t) \in [1..t -> Int]
        <5>1. \A i \in 1..t : spread(i - 1) \in Int
          <6>1. \A i \in 1..t : i - 1 \in 0..t
            BY <1>1
          <6> HIDE DEF spread
          <6> QED BY <1>2, <6>1
        <5> HIDE DEF spread
        <5> QED BY <5>1
      <4>2. spread(t) \in Int
        <5>1. t \in 0..t
          BY <1>1
        <5> HIDE DEF spread
        <5> QED BY <5>1, <1>2
      <4> HIDE DEF terms, spread
      <4>3. Total(terms(t)) \in Int
        BY <1>1, <4>1, TotalType
      <4> QED BY <4>2, <4>3
    <3>6. t + 1 \in 0..BaselineWin
      BY <1>1, <2>1
    <3> HIDE DEF terms, spread
    <3>7. baseline'[s] = Learnt(s, t + 1)
      BY <3>3, <3>4, <1>5
    <3> QED BY <3>1, <3>3, <3>5, <3>6, <3>7
  <2>2. CASE ~(t < BaselineWin)
    <3>1. Min({t, BaselineWin}) = BaselineWin /\ Min({t + 1, BaselineWin}) = BaselineWin
      BY <1>1, <2>2, MinOfTwo
    <3>2. baseline[s].count = BaselineWin
      <4>1. baseline[s] = Learnt(s, BaselineWin)
        BY <1>1, <3>1
      <4> QED BY <4>1 DEF Learnt
    <3>3. ~(baseline[s].count < BaselineWin)
      BY <1>1, <3>2
    <3>4. baseline'[s] = baseline[s]
      BY <1>4, <3>3 DEF Learn
    <3> QED BY <1>1, <3>1, <3>4
  <2> QED BY <1>1, <2>1, <2>2
<1> QED BY <1>3, <1>4, <1>6

LEMMA PlusWhole ==
    ASSUME NEW a \in Int, NEW b \in Int
    PROVE  Plus(Whole(a), Whole(b)) = Whole(a + b)
<1>1. Plus(Whole(a), Whole(b)) = Frac(a * 1 + b * 1, 1 * 1)
  BY DEF Plus, Whole
<1>2. a * 1 + b * 1 = (a + b) * 1 /\ 1 * 1 = 1 /\ a + b \in Int
  OBVIOUS
<1>3. 1 \in Positive
  BY DEF Positive
<1>4. Frac((a + b) * 1, 1) = Whole(a + b)
  BY <1>2, <1>3, FracWhole, Zenon
<1> QED BY <1>1, <1>2, <1>4

(***************************************************************************)
(* The profit of the tick so far is the worth of the symbols it has had.   *)
(***************************************************************************)
LEMMA TickTotal ==
    ASSUME IInv, NEW s \in SymbolSet, SymbolTick(s)
    PROVE  totalPnL' = Whole(Worth(next - 1))'
<1> DEFINE worth(u) == cash[u] + Shown(u, t).mid * pnl[u].position
           after(u) == cash'[u] + Shown(u, t).mid * pnl'[u].position
<1>1. PICK k \in Nat : k = next - 1
  BY TickContext
<1> DEFINE r == [i \in 1..k |-> worth(Symbols[i])]
           q == [i \in 1..(k + 1) |-> after(Symbols[i])]
<1>2. /\ Setup /\ Started /\ t \in Nat /\ next = k + 1 /\ k + 1 \in 1..Len(Symbols)
      /\ s = Symbols[k + 1] /\ Len(Symbols) \in Nat
      /\ cash \in [SymbolSet -> Int] /\ pnl \in [SymbolSet -> Positions]
      /\ \A u \in SymbolSet : Shown(u, t).mid \in Int
  <2>1. Setup /\ Started /\ t \in Nat /\ \A u \in SymbolSet : t < Len(feeds[u])
    BY TickContext
  <2>2. \A u \in SymbolSet : Shown(u, t).mid \in Int
    <3> TAKE u \in SymbolSet
    <3>1. Shown(u, t) \in Snapshot
      BY <2>1, ShownType
    <3> QED BY <3>1, SnapshotParts
  <2>3. next \in 1..Len(Symbols) /\ s = Symbols[next] /\ Len(Symbols) \in Nat
    BY TickContext, Constants
  <2>4. next = k + 1
    BY <1>1, <2>3
  <2>5. k + 1 \in 1..Len(Symbols) /\ s = Symbols[k + 1]
    BY <2>3, <2>4
  <2> QED BY <2>1, <2>2, <2>3, <2>4, <2>5 DEF IInv, TypeOK
<1>3. /\ cash' = [cash EXCEPT ![s] = cash'[s]] /\ cash'[s] \in Int
      /\ pnl' = [pnl EXCEPT ![s] = pnl'[s]] /\ pnl'[s] \in Positions
      /\ Ledger(pnl'[s], cash'[s])
  BY TickTrades
<1>4. \A i \in 1..(k + 1) : Symbols[i] \in SymbolSet /\ (i # k + 1 => Symbols[i] # s)
  <2>1. \A i \in 1..(k + 1) : i \in 1..Len(Symbols)
    BY <1>2
  <2> QED BY <1>2, <2>1, Constants
<1>5. \A u \in SymbolSet : worth(u) \in Int /\ (u # s => after(u) = worth(u))
  <2> TAKE u \in SymbolSet
  <2>1. cash[u] \in Int /\ pnl[u].position \in Int /\ Shown(u, t).mid \in Int
    BY <1>2, PositionParts
  <2>2. u # s => cash'[u] = cash[u] /\ pnl'[u] = pnl[u]
    BY <1>2, <1>3
  <2> QED BY <2>1, <2>2
<1>6. after(s) \in Int
  <2>1. pnl'[s].position \in Int /\ Shown(s, t).mid \in Int
    BY <1>2, <1>3, PositionParts
  <2> QED BY <1>3, <2>1
<1>7. TotalAt(pnl'[s], Shown(s, t).mid) = Whole(after(s))
  <2>1. Shown(s, t).mid \in Int
    BY <1>2
  <2> QED BY <1>3, <2>1, TotalIsWorth, Zenon
<1>8. r \in [1..k -> Int] /\ q \in [1..(k + 1) -> Int] /\ \A i \in 1..k : q[i] = r[i]
  <2> HIDE DEF worth, after
  <2>1. \A i \in 1..(k + 1) : after(Symbols[i]) \in Int
    <3> TAKE i \in 1..(k + 1)
    <3>1. CASE i = k + 1
      BY <1>2, <1>6, <3>1
    <3>2. CASE i # k + 1
      BY <1>4, <1>5, <3>2
    <3> QED BY <3>1, <3>2
  <2>2. \A i \in 1..k : i \in 1..(k + 1) /\ i # k + 1
    OBVIOUS
  <2>3. \A i \in 1..k : worth(Symbols[i]) \in Int /\ after(Symbols[i]) = worth(Symbols[i])
    BY <1>4, <1>5, <2>2
  <2> QED BY <2>1, <2>2, <2>3
<1>9. Total(q) = Total(r) + after(s)
  <2>1. q[k + 1] = after(s)
    <3>1. k + 1 \in 1..(k + 1)
      OBVIOUS
    <3> HIDE DEF after
    <3> QED BY <3>1, <1>2
  <2> HIDE DEF q, r, after
  <2>2. Total(q) = Total(r) + q[k + 1]
    BY <1>8, TotalLast
  <2> QED BY <2>1, <2>2
<1>10. Total(r) \in Int /\ (k = 0 => Total(r) = 0)
  <2> HIDE DEF r
  <2> QED BY <1>8, TotalType
<1>11. (IF next = 1 THEN Whole(0) ELSE totalPnL) = Whole(Total(r))
  <2>1. CASE next = 1
    BY <2>1, <1>1, <1>10
  <2>2. CASE next # 1
    <3>1. next > 1
      BY <1>2, <2>2
    <3>2. Worth(next - 1) = Total(r)
      BY <1>1 DEF Worth
    <3> QED BY <2>2, <3>1, <3>2 DEF IInv
  <2> QED BY <2>1, <2>2
<1>12. totalPnL' = Plus(Whole(Total(r)), Whole(after(s)))
  <2>1. at(feeds[s], SnapIndex) = Shown(s, t)
    BY TickContext
  <2>2. totalPnL' = Plus(IF next = 1 THEN Whole(0) ELSE totalPnL,
                         TotalAt(pnl'[s], Shown(s, t).mid))
    BY <2>1 DEF SymbolTick
  <2> QED BY <2>2, <1>7, <1>11
<1>13. totalPnL' = Whole(Total(q))
  <2> HIDE DEF q, r, after
  <2>1. Plus(Whole(Total(r)), Whole(after(s))) = Whole(Total(r) + after(s))
    BY <1>6, <1>10, PlusWhole
  <2> QED BY <2>1, <1>9, <1>12
<1>14. Worth(next - 1)' = Total(q)
  <2>1. next' - 1 = k + 1 /\ t' = t
    BY <1>2, TickFrame
  <2>2. \A u, n : Shown(u, n)' = Shown(u, n)
    BY TickFrame, SetupStays
  <2>3. PICK n : n = t
    OBVIOUS
  <2>4. \A u : Shown(u, t)' = Shown(u, t)
    <3>1. \A u : Shown(u, t)' = Shown(u, n)
      BY <2>1, <2>3, TickFrame DEF Shown, freezeBook, setup
    <3> QED BY <3>1, <2>3
  <2>5. Worth(next - 1)' =
          Total([i \in 1..(next' - 1) |->
                  cash'[Symbols[i]] + Shown(Symbols[i], t)'.mid * pnl'[Symbols[i]].position])
    BY DEF Worth
  <2> QED BY <2>1, <2>4, <2>5
<1>15. Whole(Worth(next - 1))' = Whole(Total(q))
  BY <1>14 DEF Whole
<1> QED BY <1>13, <1>15

-----------------------------------------------------------------------------
(* The inductive invariant                                                 *)

LEMMA InitIInv == Init => IInv
<1> SUFFICES ASSUME Init PROVE IInv
  OBVIOUS
<1>1. /\ options \in Options /\ files \in FileSets /\ config \in Configs
      /\ phase = "load" /\ t = 0 /\ next = 1 /\ kill = FALSE /\ totalPnL = Whole(0)
      /\ base = [s \in SymbolSet |-> config.basePrice]
      /\ intent = [s \in SymbolSet |-> FirstIntent(config)]
      /\ impact = [s \in SymbolSet |-> NoImpact]
      /\ pnl = [s \in SymbolSet |-> Flat]
      /\ midHist = [s \in SymbolSet |-> <<>>]
      /\ baseline = [s \in SymbolSet |-> [sum |-> 0, count |-> 0]]
      /\ newOrders = 0 /\ quote = [s \in SymbolSet |-> <<>>]
      /\ cash = [s \in SymbolSet |-> 0]
  BY DEF Init
<1>2. config \in Parameters
  BY <1>1, CommandLine DEF Setup
<1>3. FirstIntent(config) \in Intents
  <2>1. Imbalance(0, 0) \in Imbalances
    BY ImbalanceType
  <2>2. config.clipSize \in Positive /\ config.ticksPerOrder \in Positive
    BY <1>2, ParameterParts
  <2> QED BY <2>1, <2>2 DEF FirstIntent, Balanced, Intents, Positive
<1>4. NoImpact \in Impacts
  BY ImpactAssumption DEF NoImpact, Impacts
<1>5. Flat \in Positions /\ Ledger(Flat, 0)
  <2>1. Flat \in Positions
    BY DEF Flat, Whole, Positions
  <2> QED BY <2>1 DEF Flat, Whole, Ledger
<1>6. TypeOK
  <2>1. base \in [SymbolSet -> Int]
    BY <1>1, <1>2, ParameterParts
  <2>2. next \in 1..(Len(Symbols) + 1)
    BY <1>1, Constants
  <2>3. midHist \in [SymbolSet -> Seq(Int)] /\ \A s \in SymbolSet : Len(midHist[s]) <= VolWindow
    <3>1. <<>> \in Seq(Int) /\ Len(<<>>) = 0
      BY EmptySeq
    <3> QED BY <1>1, <3>1, Constants
  <2>4. baseline \in [SymbolSet -> [sum : Int, count : 0..BaselineWin]]
    <3>1. 0 \in 0..BaselineWin /\ 0 \in Int
      BY Constants
    <3> QED BY <1>1, <3>1
  <2>5. intent \in [SymbolSet -> Intents] /\ impact \in [SymbolSet -> Impacts]
        /\ pnl \in [SymbolSet -> Positions]
    BY <1>1, <1>3, <1>4, <1>5
  <2>6. quote \in [SymbolSet -> {<<>>} \cup (Orders \X Int)] /\ cash \in [SymbolSet -> Int]
    BY <1>1
  <2> QED BY <1>1, <2>1, <2>2, <2>3, <2>4, <2>5, <2>6 DEF TypeOK
<1>7. TickInv
  BY <1>1 DEF TickInv
<1>8. ASSUME NEW s \in SymbolSet PROVE SymbolInv(s)
  <2>1. Had(s) = 0
    BY <1>1 DEF Had
  <2>2. Window(s, 0) = <<>>
    <3> DEFINE w == Window(s, 0)
               m == [k \in Nat |-> Shown(s, k).mid]
    <3>1. 0 \in Nat /\ 0 = IF 0 <= VolWindow THEN 0 ELSE VolWindow
      BY Constants
    <3>2. w = LastOf(m, 0)
      <4>1. \A k \in 0..(0 - 1) : m[k] = Shown(s, k).mid
        OBVIOUS
      <4> HIDE DEF m
      <4> QED BY <3>1, <4>1, WindowIsLast
    <3> HIDE DEF w, m
    <3>3. w = [i \in 1..0 |-> w[i]]
      BY <3>1, <3>2, LastOfParts
    <3>4. w \in [1..0 -> Int]
      <4>1. \A i \in 1..0 : w[i] \in Int
        OBVIOUS
      <4> QED BY <3>3, <4>1
    <3>5. w \in Seq(Int) /\ Len(w) = 0
      BY <3>1, <3>4, FunctionIsSeq
    <3> QED BY <3>5, EmptySeq DEF w
  <2>3. Min({0, BaselineWin}) = 0
    BY Constants, MinOfTwo
  <2>4. Learnt(s, 0) = [sum |-> 0, count |-> 0]
    <3> DEFINE q == [i \in 1..0 |-> Widened(Shown(s, i - 1).spread)]
    <3>1. q \in [1..0 -> Int]
      OBVIOUS
    <3> HIDE DEF q
    <3>2. Total(q) = 0
      BY <3>1, TotalType
    <3> QED BY <3>2 DEF Learnt, q
  <2> QED BY <1>1, <1>5, <2>1, <2>2, <2>3, <2>4 DEF SymbolInv
<1>9. QuotesArePassive /\ KillIsExact
  BY <1>1 DEF QuotesArePassive, KillIsExact
<1>10. ~(next > 1)
  BY <1>1
<1> QED BY <1>6, <1>7, <1>8, <1>9, <1>10 DEF IInv

LEMMA SymbolTickIInv ==
    ASSUME IInv, NEW s \in SymbolSet, SymbolTick(s)
    PROVE  IInv'
<1>1. /\ setup' = setup /\ phase' = phase /\ feeds' = feeds /\ t' = t /\ kill' = kill
      /\ next' = next + 1
  BY TickFrame
<1>2. /\ Setup /\ Started /\ phase = "tick" /\ ~kill
      /\ t \in Nat /\ t < ticks
      /\ next \in 1..Len(Symbols)
  BY TickContext
<1>3. ticks' = ticks /\ Setup' /\ files' = files /\ config' = config /\ options' = options
      /\ Loaded' = Loaded
  BY <1>1, <1>2, TicksStay, SetupStays
<1>4. TypeOK'
  <2>1. TypeOK
    BY DEF IInv
  <2>2. (options \in Options /\ files \in FileSets /\ config \in Configs)'
    BY <1>3 DEF Setup
  <2>3. (phase \in {"load", "tick", "done"} /\ kill \in BOOLEAN /\ newOrders \in Nat)'
    BY <1>1, <2>1, TickTrades DEF TypeOK
  <2>4. (t \in Nat /\ (phase = "tick" => t <= ticks) /\ next \in 1..(Len(Symbols) + 1))'
    <3>1. Len(Symbols) \in Nat
      BY Constants
    <3> QED BY <1>1, <1>2, <1>3, <2>1, <3>1 DEF TypeOK
  <2>5. (base \in [SymbolSet -> Int] /\ cash \in [SymbolSet -> Int])'
    BY <2>1, TickTrades DEF TypeOK
  <2>6. (intent \in [SymbolSet -> Intents] /\ impact \in [SymbolSet -> Impacts])'
    BY <2>1, TickTrades, TickIntent DEF TypeOK
  <2>7. (pnl \in [SymbolSet -> Positions])'
    BY <2>1, TickTrades DEF TypeOK
  <2>8. (midHist \in [SymbolSet -> Seq(Int)] /\ \A u \in SymbolSet : Len(midHist[u]) <= VolWindow)'
    <3>1. midHist \in [SymbolSet -> Seq(Int)] /\ \A u \in SymbolSet : Len(midHist[u]) <= VolWindow
      BY <2>1 DEF TypeOK
    <3> QED BY <3>1, TickWindow
  <2>9. (baseline \in [SymbolSet -> [sum : Int, count : 0..BaselineWin]])'
    BY <2>1, TickBaseline DEF TypeOK
  <2>10. (quote \in [SymbolSet -> {<<>>} \cup (Orders \X Int)])'
    <3>1. quote \in [SymbolSet -> {<<>>} \cup (Orders \X Int)]
      BY <2>1 DEF TypeOK
    <3>2. base'[s] \in Int
      BY TickTrades
    <3>3. \/ quote' = quote
          \/ \E order \in Orders : quote' = [quote EXCEPT ![s] = <<order, base'[s]>>]
      BY TickTrades
    <3> QED BY <3>1, <3>2, <3>3
  <2> QED BY <2>2, <2>3, <2>4, <2>5, <2>6, <2>7, <2>8, <2>9, <2>10 DEF TypeOK
<1>5. TickInv'
  <2>1. TickInv
    BY DEF IInv
  <2>2. next' # 1
    BY <1>1, <1>2
  <2> QED BY <1>1, <1>2, <1>3, <2>1, <2>2 DEF TickInv, Started
<1>6. ASSUME NEW u \in SymbolSet PROVE SymbolInv(u)'
  <2>1. /\ cash \in [SymbolSet -> Int] /\ pnl \in [SymbolSet -> Positions]
        /\ intent \in [SymbolSet -> Intents] /\ midHist \in [SymbolSet -> Seq(Int)]
        /\ baseline \in [SymbolSet -> [sum : Int, count : 0..BaselineWin]]
        /\ SymbolInv(u)
    BY DEF IInv, TypeOK
  <2>2. CASE u # s
    <3>1. /\ pnl'[u] = pnl[u] /\ cash'[u] = cash[u] /\ intent'[u] = intent[u]
          /\ midHist'[u] = midHist[u] /\ baseline'[u] = baseline[u]
      <4>1. pnl'[u] = pnl[u] /\ cash'[u] = cash[u]
        BY <2>1, <2>2, TickTrades
      <4>2. intent'[u] = intent[u]
        BY <2>1, <2>2, TickIntent
      <4>3. midHist'[u] = midHist[u]
        BY <2>1, <2>2, TickWindow
      <4>4. baseline'[u] = baseline[u]
        BY <2>1, <2>2, TickBaseline
      <4> QED BY <4>1, <4>2, <4>3, <4>4
    <3>2. Had(u)' = Had(u)
      BY <2>2, HadAfterTick
    <3> QED BY <1>1, <1>2, <2>1, <3>1, <3>2, SymbolInvStays
  <2>3. CASE u = s
    <3>1. PICK n \in Nat : n = t + 1
      BY <1>2
    <3>2. Had(u)' = n
      BY <2>3, <3>1, HadAfterTick
    <3>3. /\ IntentAfter(u, Had(u))' = IntentAfter(u, n)
          /\ Window(u, Had(u))' = Window(u, n)
          /\ Learnt(u, Min({Had(u), BaselineWin}))' = Learnt(u, Min({n, BaselineWin}))
      BY <1>1, <3>2, AfterTicks
    <3>4. Ledger(pnl[u], cash[u])'
      <4>1. Ledger(pnl'[s], cash'[s])
        BY TickTrades
      <4> QED BY <2>3, <4>1 DEF Ledger
    <3>5. (Had(u) > 0 => intent[u] = IntentAfter(u, Had(u)))'
      BY <2>3, <3>1, <3>3, TickIntent
    <3>6. (midHist[u] = Window(u, Had(u)))'
      BY <2>3, <3>1, <3>3, TickWindow
    <3>7. (baseline[u] = Learnt(u, Min({Had(u), BaselineWin})))'
      BY <2>3, <3>1, <3>3, TickBaseline
    <3> QED BY <3>4, <3>5, <3>6, <3>7 DEF SymbolInv
  <2> QED BY <2>2, <2>3
<1>7. (next > 1 => totalPnL = Whole(Worth(next - 1)))'
  BY TickTotal
<1>8. QuotesArePassive'
  <2> SUFFICES ASSUME NEW u \in SymbolSet, quote'[u] # <<>>
               PROVE  /\ quote'[u][1].px >= 1
                      /\ quote'[u][1].qty \in config'.minClip..config'.maxClip
                      /\ Passive(quote'[u][1], quote'[u][2])
    BY DEF QuotesArePassive, Passive
  <2>1. quote \in [SymbolSet -> {<<>>} \cup (Orders \X Int)]
    BY DEF IInv, TypeOK
  <2>2. CASE quote'[u] = quote[u]
    <3>1. /\ quote[u][1].px >= 1
          /\ quote[u][1].qty \in config.minClip..config.maxClip
          /\ Passive(quote[u][1], quote[u][2])
      BY <2>2 DEF IInv, QuotesArePassive, Passive
    <3> QED BY <1>3, <2>2, <3>1
  <2>3. CASE quote'[u] # quote[u]
    <3>1. PICK order \in Orders :
             /\ quote' = [quote EXCEPT ![s] = <<order, base'[s]>>]
             /\ order.qty \in config.minClip..config.maxClip
             /\ Passive(order, base'[s])
      BY <2>3, TickTrades
    <3>2. u = s /\ quote'[u] = <<order, base'[s]>>
      BY <2>1, <2>3, <3>1
    <3>3. order.px >= 1
      BY DEF Orders
    <3> QED BY <1>3, <3>1, <3>2, <3>3
  <2> QED BY <2>2, <2>3
<1>9. KillIsExact'
  <2>1. next' # 1
    BY <1>1, <1>2
  <2> QED BY <2>1 DEF KillIsExact
<1> QED BY <1>4, <1>5, <1>6, <1>7, <1>8, <1>9 DEF IInv

-----------------------------------------------------------------------------
(* The checks after a tick                                                 *)

LEMMA EndContext ==
    ASSUME IInv, EndTick
    PROVE  /\ Setup /\ Started /\ phase = "tick" /\ ~kill
           /\ t \in Nat /\ t < ticks
           /\ next = Len(Symbols) + 1
           /\ \A u \in SymbolSet : Had(u) = t + 1 /\ Had(u)' = Had(u)
           /\ \A u \in SymbolSet : t < Len(feeds[u]) /\ Len(feeds[u]) \in Nat
           /\ setup' = setup /\ phase' = phase /\ feeds' = feeds /\ market' = market
           /\ t' = t + 1 /\ next' = 1
<1>1. /\ Setup /\ t \in Nat /\ next \in 1..(Len(Symbols) + 1) /\ Len(Symbols) \in Nat
      /\ Len(Symbols) >= 1
  BY Constants DEF IInv, TypeOK, Setup
<1>2. /\ phase = "tick" /\ next > Len(Symbols) /\ t' = t + 1 /\ next' = 1
      /\ setup' = setup /\ phase' = phase /\ feeds' = feeds /\ market' = market
  BY DEF EndTick
<1>3. next = Len(Symbols) + 1 /\ next # 1
  BY <1>1, <1>2
<1>4. Started /\ t < ticks /\ ~kill
  BY <1>2, <1>3 DEF IInv, TickInv, Started
<1>5. ASSUME NEW u \in SymbolSet PROVE Had(u) = t + 1 /\ Had(u)' = Had(u)
  <2>1. \E i \in 1..(next - 1) : Symbols[i] = u
    <3>1. PICK i \in 1..Len(Symbols) : u = Symbols[i]
      BY Constants
    <3>2. i \in 1..(next - 1)
      BY <1>1, <1>3
    <3> QED BY <3>1, <3>2
  <2>2. ~ \E i \in 1..(next' - 1) : Symbols[i] = u
    <3>1. 1..(next' - 1) = {}
      BY <1>2
    <3> QED BY <3>1
  <2> QED BY <1>2, <2>1, <2>2 DEF Had
<1>6. ASSUME NEW u \in SymbolSet PROVE t < Len(feeds[u]) /\ Len(feeds[u]) \in Nat
  <2>1. ticks \in Nat /\ ticks <= Len(feeds[u]) /\ Len(feeds[u]) \in Nat
    BY <1>1, <1>4, TicksType, FeedParts
  <2> QED BY <1>1, <1>4, <2>1
<1> QED BY <1>1, <1>2, <1>3, <1>4, <1>5, <1>6

LEMMA BreachesStay ==
    ASSUME setup' = setup, cash' = cash, pnl' = pnl, NEW k, t' - 1 = k
    PROVE  /\ LossBreach(t - 1)' <=> LossBreach(k)
           /\ VolBreach(t - 1)' <=> VolBreach(k)
           /\ SpreadBreach(t - 1)' <=> SpreadBreach(k)
<1>1. /\ \A u, n : Shown(u, n)' = Shown(u, n)
      /\ \A x : Widened(x)' = Widened(x)
      /\ files' = files
  BY SetupStays
<1>2. \A u : Shown(u, t - 1)' = Shown(u, k)
  BY DEF Shown, freezeBook, setup
<1>3. LossBreach(t - 1)' <=> LossBreach(k)
  BY <1>2 DEF LossBreach
<1>4. VolBreach(t - 1)' <=> VolBreach(k)
  <2>1. Window(Proxy, (t - 1) + 1)' = Window(Proxy, k + 1)
    BY <1>1 DEF Window
  <2> QED BY <2>1 DEF VolBreach
<1>5. SpreadBreach(t - 1)' <=> SpreadBreach(k)
  BY <1>1 DEF SpreadBreach
<1> QED BY <1>3, <1>4, <1>5

(***************************************************************************)
(* Each of the three checks of main finds what the fills and the files     *)
(* say.                                                                    *)
(***************************************************************************)
LEMMA LossCheck ==
    ASSUME IInv, EndTick
    PROVE  PnLKill <=> LossBreach(t)
<1> DEFINE q == [i \in 1..Len(Symbols) |->
                    cash[Symbols[i]] + Shown(Symbols[i], t).mid * pnl[Symbols[i]].position]
<1>1. /\ next = Len(Symbols) + 1 /\ Len(Symbols) \in Nat /\ Len(Symbols) >= 1
      /\ DOMAIN Symbols = 1..Len(Symbols)
      /\ KillPnL \in Int
  BY EndContext, Constants
<1>2. totalPnL = Whole(Total(q))
  <2>1. next > 1 /\ next - 1 = Len(Symbols)
    BY <1>1
  <2>2. Worth(Len(Symbols)) = Total(q)
    BY DEF Worth
  <2> QED BY <2>1, <2>2 DEF IInv
<1>3. q \in [1..Len(Symbols) -> Int]
  <2> SUFFICES ASSUME NEW i \in 1..Len(Symbols)
               PROVE  cash[Symbols[i]] + Shown(Symbols[i], t).mid * pnl[Symbols[i]].position \in Int
    OBVIOUS
  <2>1. Symbols[i] \in SymbolSet
    BY Constants
  <2>2. cash[Symbols[i]] \in Int /\ pnl[Symbols[i]].position \in Int
    BY <2>1, PositionParts DEF IInv, TypeOK
  <2>3. Shown(Symbols[i], t).mid \in Int
    BY <2>1, EndContext, ShownType, SnapshotParts
  <2> QED BY <2>2, <2>3
<1>4. LossBreach(t) <=> Total(q) < KillPnL
  BY <1>1 DEF LossBreach
<1> HIDE DEF q
<1>5. Total(q) \in Int
  BY <1>1, <1>3, TotalType
<1>6. PnLKill <=> Total(q) * 1 < KillPnL * 1
  BY <1>2 DEF PnLKill, Less, Whole
<1> QED BY <1>1, <1>4, <1>5, <1>6

LEMMA VolatilityCheck ==
    ASSUME IInv, EndTick
    PROVE  Volatile(midHist[Proxy]) <=> VolBreach(t)
<1>1. midHist[Proxy] = Window(Proxy, t + 1)
  <2>1. Had(Proxy) = t + 1
    BY EndContext, Constants
  <2> QED BY <2>1, Constants DEF IInv, SymbolInv
<1>2. VolBreach(t) <=> Volatile(Window(Proxy, t + 1))
  BY DEF VolBreach
<1> QED BY <1>1, <1>2

LEMMA SpreadCheck ==
    ASSUME IInv, EndTick, NEW s \in SymbolSet
    PROVE  Exploded(s) <=>
             LET learnt == Total([i \in 1..BaselineWin |-> Widened(Shown(s, i - 1).spread)])
             IN /\ t + 1 >= BaselineWin /\ learnt > 0
                /\ Widened(Snapshots(files[s])[t + 1].spread) * BaselineWin > learnt * KillSpreadMult
<1> DEFINE learnt == Total([i \in 1..BaselineWin |-> Widened(Shown(s, i - 1).spread)])
           row == Snapshots(files[s])[t + 1]
<1>1. /\ t \in Nat /\ BaselineWin \in Nat /\ Had(s) = t + 1 /\ feeds[s] = Snapshots(files[s])
      /\ Len(feeds[s]) \in Nat /\ t < Len(feeds[s])
  BY EndContext, Constants, FeedParts
<1>2. baseline[s] = Learnt(s, Min({t + 1, BaselineWin}))
  BY <1>1 DEF IInv, SymbolInv
<1>3. at(feeds[s], Min({t, Len(feeds[s]) - 1})) = row
  <2> DEFINE n == Len(feeds[s])
  <2>1. t \in 0..(n - 1) /\ n \in Int /\ n > 0 /\ t = n * 0 + t /\ t \in Int /\ n - 1 \in Int
    BY <1>1
  <2>2. Min({t, n - 1}) = t
    <3>1. Min({t, n - 1}) = IF t <= n - 1 THEN t ELSE n - 1
      BY <2>1, MinOfTwo
    <3> QED BY <2>1, <3>1
  <2>3. t % n = t
    <3> HIDE DEF n
    <3> QED BY <2>1, QuotientIs
  <2> QED BY <1>1, <2>2, <2>3 DEF at
<1>4. Min({t + 1, BaselineWin}) = IF t + 1 <= BaselineWin THEN t + 1 ELSE BaselineWin
  BY <1>1, MinOfTwo
<1>5. CASE t + 1 >= BaselineWin
  <2>1. Min({t + 1, BaselineWin}) = BaselineWin
    BY <1>1, <1>4, <1>5
  <2>2. baseline[s] = [sum |-> learnt, count |-> BaselineWin]
    BY <1>2, <2>1 DEF Learnt
  <2>3. Exploded(s) <=>
           /\ baseline[s].count = BaselineWin /\ baseline[s].sum > 0
           /\ Widened(row.spread) * baseline[s].count > baseline[s].sum * KillSpreadMult
    BY <1>3 DEF Exploded
  <2> HIDE DEF learnt, row
  <2>4. Exploded(s) <=>
           learnt > 0 /\ Widened(row.spread) * BaselineWin > learnt * KillSpreadMult
    BY <2>2, <2>3
  <2> QED BY <1>5, <2>4 DEF learnt, row
<1>6. CASE ~(t + 1 >= BaselineWin)
  <2>1. Min({t + 1, BaselineWin}) = t + 1 /\ t + 1 # BaselineWin
    BY <1>1, <1>4, <1>6
  <2>2. baseline[s].count = t + 1
    BY <1>2, <2>1 DEF Learnt
  <2>3. ~Exploded(s)
    BY <2>1, <2>2 DEF Exploded
  <2> QED BY <1>6, <2>3
<1> QED BY <1>5, <1>6

LEMMA EndTickIInv == ASSUME IInv, EndTick PROVE IInv'
<1>1. /\ Setup /\ Started /\ phase = "tick" /\ ~kill /\ t \in Nat /\ t < ticks
      /\ setup' = setup /\ phase' = phase /\ feeds' = feeds
      /\ t' = t + 1 /\ next' = 1
      /\ \A u \in SymbolSet : Had(u)' = Had(u)
  BY EndContext
<1>2. /\ base' = base /\ intent' = intent /\ impact' = impact /\ pnl' = pnl
      /\ midHist' = midHist /\ baseline' = baseline /\ newOrders' = newOrders
      /\ quote' = quote /\ cash' = cash
  BY EndContext DEF market
<1>3. ticks' = ticks /\ Setup' /\ files' = files /\ config' = config /\ options' = options
      /\ Loaded' = Loaded
  BY <1>1, TicksStay, SetupStays
<1>4. kill' <=> PnLKill \/ Volatile(midHist[Proxy]) \/ \E s \in SymbolSet : Exploded(s)
  BY <1>1 DEF EndTick
<1>5. kill' \in BOOLEAN
  BY <1>1 DEF EndTick
<1>6. TypeOK'
  <2>1. TypeOK
    BY DEF IInv
  <2>2. t' \in Nat /\ t' <= ticks' /\ next' \in 1..(Len(Symbols) + 1)
    <3>1. ticks \in Nat
      BY <1>1, TicksType
    <3> QED BY <1>1, <1>3, <3>1, Constants
  <2> QED BY <1>1, <1>2, <1>3, <1>5, <2>1, <2>2 DEF TypeOK
<1>7. TickInv'
  BY <1>1, <1>3 DEF TickInv, Started
<1>8. ASSUME NEW u \in SymbolSet PROVE SymbolInv(u)'
  BY <1>1, <1>2, SymbolInvStays DEF IInv
<1>9. QuotesArePassive'
  BY <1>2, <1>3 DEF IInv, QuotesArePassive
<1>10. KillIsExact'
  <2>1. PICK k : k = t
    OBVIOUS
  <2>2. t' - 1 = k /\ t' > 0
    BY <1>1, <2>1
  <2>3. /\ LossBreach(t - 1)' <=> LossBreach(k)
        /\ VolBreach(t - 1)' <=> VolBreach(k)
        /\ SpreadBreach(t - 1)' <=> SpreadBreach(k)
    BY <1>1, <1>2, <2>2, BreachesStay
  <2>4. (\E s \in SymbolSet : Exploded(s)) <=> SpreadBreach(t)
    BY SpreadCheck DEF SpreadBreach
  <2>5. kill' <=> LossBreach(k) \/ VolBreach(k) \/ SpreadBreach(k)
    BY <1>4, <2>1, <2>4, LossCheck, VolatilityCheck
  <2> QED BY <2>2, <2>3, <2>5 DEF KillIsExact
<1>11. ~(next' > 1)
  BY <1>1
<1> QED BY <1>6, <1>7, <1>8, <1>9, <1>10, <1>11 DEF IInv

-----------------------------------------------------------------------------
(* The other steps                                                         *)

LEMMA StillIInv ==
    ASSUME IInv, setup' = setup, t' = t, next' = next, kill' = kill, totalPnL' = totalPnL,
           market' = market, TypeOK', TickInv', phase # "load" \/ t = 0
    PROVE  IInv'
<1>1. /\ base' = base /\ intent' = intent /\ impact' = impact /\ pnl' = pnl
      /\ midHist' = midHist /\ baseline' = baseline /\ newOrders' = newOrders
      /\ quote' = quote /\ cash' = cash
  BY DEF market
<1>2. t \in Nat
  BY DEF IInv, TypeOK
<1>3. config' = config
  BY SetupStays
<1>4. ASSUME NEW u \in SymbolSet PROVE SymbolInv(u)'
  <2>1. Had(u)' = Had(u)
    BY DEF Had
  <2> QED BY <1>1, <1>2, <2>1, SymbolInvStays DEF IInv
<1>5. QuotesArePassive'
  BY <1>1, <1>3 DEF IInv, QuotesArePassive
<1>6. PICK k : k = t - 1
  OBVIOUS
<1>7. /\ LossBreach(t - 1)' <=> LossBreach(k)
      /\ VolBreach(t - 1)' <=> VolBreach(k)
      /\ SpreadBreach(t - 1)' <=> SpreadBreach(k)
  BY <1>1, <1>6, BreachesStay
<1>8. (phase # "load" \/ ~kill) => KillIsExact'
  <2>1. KillIsExact
    BY DEF IInv
  <2>2. CASE phase # "load"
    BY <1>6, <1>7, <2>1, <2>2 DEF KillIsExact
  <2>3. CASE phase = "load" /\ ~kill
    <3>1. ~(t' > 0)
      BY <2>3
    <3> QED BY <2>3, <3>1 DEF KillIsExact
  <2> QED BY <2>2, <2>3
<1>9. phase # "load" \/ ~kill
  BY DEF IInv, TickInv
<1>10. (next > 1 => totalPnL = Whole(Worth(next - 1)))'
  <2>1. CASE next > 1
    <3>1. totalPnL = Whole(Worth(next - 1))
      BY <2>1 DEF IInv
    <3>2. PICK n, d : n = next - 1 /\ d = t
      OBVIOUS
    <3>3. \A u : Shown(u, t)' = Shown(u, d)
      BY <3>2 DEF Shown, freezeBook, setup
    <3>4. Worth(next - 1)' = Worth(next - 1)
      BY <1>1, <3>2, <3>3 DEF Worth
    <3>5. Whole(Worth(next - 1))' = Whole(Worth(next - 1))
      BY <3>4 DEF Whole
    <3> QED BY <3>1, <3>5
  <2>2. CASE ~(next > 1)
    BY <2>2
  <2> QED BY <2>1, <2>2
<1> QED BY <1>4, <1>5, <1>8, <1>9, <1>10 DEF IInv

LEMMA LoadIInv == ASSUME IInv, Load PROVE IInv'
<1>1. /\ phase = "load" /\ setup' = setup /\ t' = t /\ next' = next /\ kill' = kill
      /\ totalPnL' = totalPnL /\ market' = market
  BY DEF Load
<1>2. t = 0 /\ next = 1 /\ ~kill
  BY <1>1 DEF IInv, TickInv
<1>3. /\ Loaded => phase' = "tick" /\ feeds' = [s \in SymbolSet |-> Snapshots(files[s])]
      /\ ~Loaded => phase' = "done"
  BY DEF Load, Loaded
<1>4. Setup /\ Setup' /\ files' = files /\ config' = config /\ options' = options
      /\ Loaded' = Loaded
  BY <1>1, SetupStays DEF IInv, TypeOK, Setup
<1>5. TickInv'
  BY <1>1, <1>2, <1>3, <1>4 DEF TickInv
<1>6. phase' = "tick" => t' <= ticks'
  <2> SUFFICES ASSUME phase' = "tick" PROVE t' <= ticks'
    OBVIOUS
  <2>1. Started'
    BY <1>3, <1>4 DEF Started
  <2>2. ticks' \in Nat
    BY <1>4, <2>1, TicksTypeNext
  <2>3. t' = 0
    BY <1>1, <1>2
  <2> QED BY <2>2, <2>3
<1>7. TypeOK'
  <2>1. TypeOK
    BY DEF IInv
  <2> QED BY <1>1, <1>3, <1>4, <1>6, <2>1 DEF TypeOK, market
<1> QED BY <1>1, <1>2, <1>5, <1>7, StillIInv

LEMMA FinishIInv == ASSUME IInv, Finish PROVE IInv'
<1>1. /\ phase = "tick" /\ phase' = "done" /\ setup' = setup /\ feeds' = feeds /\ t' = t
      /\ next = 1 /\ next' = next /\ kill' = kill /\ totalPnL' = totalPnL /\ market' = market
  BY DEF Finish
<1>2. Setup' /\ files' = files /\ config' = config /\ options' = options /\ Loaded' = Loaded
  BY <1>1, SetupStays DEF IInv, TypeOK, Setup
<1>3. TickInv'
  BY <1>1, <1>2 DEF IInv, TickInv
<1>4. TypeOK'
  <2>1. TypeOK
    BY DEF IInv
  <2> QED BY <1>1, <1>2, <2>1 DEF TypeOK, market
<1> QED BY <1>1, <1>3, <1>4, StillIInv

LEMMA StutterIInv == ASSUME IInv, UNCHANGED vars PROVE IInv'
<1>1. /\ setup' = setup /\ phase' = phase /\ feeds' = feeds /\ t' = t
      /\ next' = next /\ kill' = kill /\ totalPnL' = totalPnL /\ market' = market
  BY DEF vars
<1>2. Setup' /\ files' = files /\ config' = config /\ options' = options /\ Loaded' = Loaded
      /\ ticks' = ticks
  BY <1>1, SetupStays, TicksStay DEF IInv, TypeOK, Setup
<1>3. TickInv'
  BY <1>1, <1>2 DEF IInv, TickInv
<1>4. TypeOK'
  <2>1. TypeOK
    BY DEF IInv
  <2> QED BY <1>1, <1>2, <2>1 DEF TypeOK, market
<1>5. phase # "load" \/ t = 0
  BY DEF IInv, TickInv
<1> QED BY <1>1, <1>3, <1>4, <1>5, StillIInv

(***************************************************************************)
(* The invariant holds of every run of the simulator.                      *)
(***************************************************************************)
THEOREM Invariance == Spec => []IInv
<1>1. Init => IInv
  BY InitIInv
<1>2. IInv /\ [Next]_vars => IInv'
  <2> SUFFICES ASSUME IInv, [Next]_vars PROVE IInv'
    OBVIOUS
  <2>1. CASE Load
    BY <2>1, LoadIInv
  <2>2. CASE \E s \in SymbolSet : SymbolTick(s)
    BY <2>2, SymbolTickIInv
  <2>3. CASE EndTick
    BY <2>3, EndTickIInv
  <2>4. CASE Finish
    BY <2>4, FinishIInv
  <2>5. CASE UNCHANGED vars
    BY <2>5, StutterIInv
  <2> QED BY <2>1, <2>2, <2>3, <2>4, <2>5 DEF Next
<1> QED BY <1>1, <1>2, PTL DEF Spec

(***************************************************************************)
(* Every variable has its type; the impact stays within its cap.           *)
(***************************************************************************)
THEOREM TypeCorrect == Spec => []TypeOK
<1>1. IInv => TypeOK
  BY DEF IInv
<1> QED BY <1>1, Invariance, PTL

(***************************************************************************)
(* PnLTracker: whatever the fills, realised profit less the cost of the    *)
(* open position is the cash paid and received.                            *)
(***************************************************************************)
THEOREM ProfitIsCashFlow == Spec => []PnLIsCashFlow
<1>1. IInv => PnLIsCashFlow
  <2> SUFFICES ASSUME IInv, NEW s \in SymbolSet
               PROVE  TotalAt(pnl[s], 0) = Whole(cash[s])
    BY DEF PnLIsCashFlow
  <2>1. pnl[s] \in Positions /\ cash[s] \in Int /\ Ledger(pnl[s], cash[s])
    BY DEF IInv, TypeOK, SymbolInv
  <2>2. TotalAt(pnl[s], 0) = Whole(cash[s] + 0 * pnl[s].position)
    <3>1. 0 \in Int
      OBVIOUS
    <3> QED BY <2>1, <3>1, TotalIsWorth, Zenon
  <2>3. cash[s] + 0 * pnl[s].position = cash[s]
    BY <2>1, PositionParts
  <2> QED BY <2>2, <2>3
<1> QED BY <1>1, Invariance, PTL

(***************************************************************************)
(* BasicStrategy never quotes through the mid it quotes about, nor outside *)
(* its clips.                                                              *)
(***************************************************************************)
THEOREM QuotesStayPassive == Spec => []QuotesArePassive
<1>1. IInv => QuotesArePassive
  BY DEF IInv
<1> QED BY <1>1, Invariance, PTL

(***************************************************************************)
(* --lag-strategy: what a strategy trades on is as old as the lag says.    *)
(***************************************************************************)
THEOREM IntentIsAsOldAsTheLag == Spec => []IntentIsLagged
<1>1. IInv => IntentIsLagged
  <2> SUFFICES ASSUME IInv PROVE IntentIsLagged
    OBVIOUS
  <2> SUFFICES ASSUME NEW s \in SymbolSet, Had(s) > 0
               PROVE  LET since == lag * config.recalc
                          row == Shown(s, ((Had(s) - 1) \div since) * since)
                      IN intent[s].imb = Imbalance(row.bid, row.ask)
    BY DEF IntentIsLagged
  <2>1. intent[s] = IntentAfter(s, Had(s))
    BY DEF IInv, SymbolInv
  <2> QED BY <2>1 DEF IntentAfter, Intent
<1> QED BY <1>1, Invariance, PTL

(***************************************************************************)
(* The kill switch is on exactly when a limit was broken after the tick    *)
(* before.                                                                 *)
(***************************************************************************)
THEOREM KillSwitchIsExact == Spec => []KillIsExact
<1>1. IInv => KillIsExact
  BY DEF IInv
<1> QED BY <1>1, Invariance, PTL

(***************************************************************************)
(* The kill switch is final: no order and no tick after it.                *)
(***************************************************************************)
THEOREM KillSwitchIsFinal == Spec => NoTradeAfterKill
<1>1. IInv /\ [Next]_vars => [kill => kill' /\ newOrders' = newOrders /\ pnl' = pnl /\ t' = t]_vars
  <2> SUFFICES ASSUME IInv, Next, kill
               PROVE  kill' /\ newOrders' = newOrders /\ pnl' = pnl /\ t' = t
    OBVIOUS
  <2>1. CASE Load
    BY <2>1 DEF Load, market
  <2>2. CASE \E s \in SymbolSet : SymbolTick(s)
    BY <2>2, TickContext
  <2>3. CASE EndTick
    BY <2>3, EndContext
  <2>4. CASE Finish
    BY <2>4 DEF Finish, market
  <2> QED BY <2>1, <2>2, <2>3, <2>4 DEF Next
<1> QED BY <1>1, Invariance, PTL DEF Spec, NoTradeAfterKill
=============================================================================
