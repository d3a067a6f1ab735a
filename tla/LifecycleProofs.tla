-------------------------- MODULE LifecycleProofs --------------------------
(***************************************************************************)
(* Theorems about the compile run for every set of notes, every vault it   *)
(* may start from, every request and every bound.                          *)
(***************************************************************************)
EXTENDS Lifecycle, WellFoundedInduction, SequenceTheorems, TLAPS

-----------------------------------------------------------------------------
(* The curve.                                                              *)

(* The order induction on the natural numbers goes down.                   *)
Below == {ss \in Nat \X Nat : ss[1] < ss[2]}

(* A set of numbers has a least.                                           *)
LEMMA Least ==
  ASSUME NEW T \in SUBSET Nat, T # {}
  PROVE  \E x \in T : \A y \in T : x <= y
<1>1. IsWellFoundedOn(Below, Nat)
  BY NatLessThanWellFounded DEF OpToRel, Below
<1>2. PICK x \in T : \A y \in T : <<y, x>> \notin Below
  BY <1>1, WFMin
<1>3. \A y \in T : y \in Nat /\ x \in Nat /\ ~(y < x)
  BY <1>2 DEF Below
<1>. QED  BY <1>3

(* The first n powers of b.                                               *)
Grows(g, b, n) == /\ g \in [0 .. n -> Nat] /\ g[0] = 1
                  /\ \A i \in 1 .. n : g[i] = b * g[i - 1]

(* They exist, and are the same for every n that reaches them.             *)
LEMMA GrowsExists ==
  ASSUME NEW b \in Nat, NEW n \in Nat
  PROVE  \E g : Grows(g, b, n)
<1>. DEFINE T == {k \in Nat : ~ \E g : Grows(g, b, k)}
<1>1. SUFFICES ASSUME T # {} PROVE FALSE
  OBVIOUS
<1>2. PICK x \in T : \A y \in T : x <= y
  BY <1>1, Least
<1>3. x # 0
  <2>1. Grows([i \in 0 .. 0 |-> 1], b, 0)
    BY DEF Grows
  <2>. QED  BY <2>1
<1>4. x - 1 \in Nat /\ x - 1 \notin T
  BY <1>2, <1>3
<1>5. PICK g : Grows(g, b, x - 1)
  BY <1>4
<1>. DEFINE h == [i \in 0 .. x |-> IF i = x THEN b * g[x - 1] ELSE g[i]]
<1>6. Grows(h, b, x)
  <2>1. g[x - 1] \in Nat
    BY <1>4, <1>5 DEF Grows
  <2>2. b * g[x - 1] \in Nat
    BY <2>1
  <2>3. h \in [0 .. x -> Nat] /\ h[0] = 1
    BY <1>3, <1>4, <1>5, <2>2 DEF Grows
  <2>4. ASSUME NEW i \in 1 .. x PROVE h[i] = b * h[i - 1]
    <3>1. CASE i = x
      BY <1>3, <1>4, <3>1
    <3>2. CASE i # x
      BY <1>3, <1>4, <1>5, <3>2 DEF Grows
    <3>. QED  BY <3>1, <3>2
  <2>. HIDE DEF h
  <2>. QED  BY <2>3, <2>4 DEF Grows
<1>. QED  BY <1>6

LEMMA GrowsUnique ==
  ASSUME NEW b \in Nat, NEW n \in Nat, NEW m \in Nat, n <= m,
         NEW g, NEW h, Grows(g, b, n), Grows(h, b, m)
  PROVE  g[n] = h[n]
<1>. DEFINE T == {k \in 0 .. n : g[k] # h[k]}
<1>1. SUFFICES ASSUME T # {} PROVE FALSE
  OBVIOUS
<1>2. PICK x \in T : \A y \in T : x <= y
  <2>1. T \in SUBSET Nat
    OBVIOUS
  <2>. HIDE DEF T
  <2>. QED  BY <1>1, <2>1, Least
<1>3. CASE x = 0
  BY <1>2, <1>3 DEF Grows
<1>4. CASE x # 0
  <2>1. x \in 1 .. n /\ x \in 1 .. m /\ x - 1 \in 0 .. n /\ x - 1 \notin T
    BY <1>2, <1>4
  <2>. QED  BY <1>2, <2>1 DEF Grows
<1>. QED  BY <1>3, <1>4

(* What the recursion of Power computes.                                   *)
LEMMA PowerDef ==
  ASSUME NEW b \in Nat
  PROVE  /\ Power(b) \in [Nat -> Nat] /\ Power(b)[0] = 1
         /\ \A n \in Nat : Power(b)[n + 1] = b * Power(b)[n]
<1>. DEFINE G == [n \in Nat |-> CHOOSE g : Grows(g, b, n)]
            q == [n \in Nat |-> G[n][n]]
<1>1. \A n \in Nat : Grows(G[n], b, n)
  BY GrowsExists
<1>. HIDE DEF G
<1>2. q \in [Nat -> Nat] /\ q[0] = 1
  BY <1>1 DEF Grows
<1>3. ASSUME NEW n \in Nat PROVE q[n + 1] = b * q[n]
  <2>1. G[n + 1][n + 1] = b * G[n + 1][n]
    BY <1>1 DEF Grows
  <2>2. G[n + 1][n] = G[n][n]
    BY <1>1, GrowsUnique
  <2>. QED  BY <2>1, <2>2
<1>4. q = [n \in Nat |-> IF n = 0 THEN 1 ELSE b * q[n - 1]]
  <2>1. ASSUME NEW n \in Nat PROVE q[n] = IF n = 0 THEN 1 ELSE b * q[n - 1]
    <3>1. CASE n = 0
      BY <1>2, <3>1
    <3>2. CASE n # 0
      <4>1. n - 1 \in Nat /\ (n - 1) + 1 = n
        BY <3>2
      <4>. HIDE DEF q
      <4>. QED  BY <1>3, <3>2, <4>1
    <3>. QED  BY <3>1, <3>2
  <2>. QED  BY <2>1
<1>. HIDE DEF q
<1>5. Power(b) = [n \in Nat |-> IF n = 0 THEN 1 ELSE b * Power(b)[n - 1]]
  BY <1>4 DEF Power
<1>. DEFINE r == Power(b)
<1>. HIDE DEF r
<1>6. r = q
  <2>. DEFINE T == {k \in Nat : r[k] # q[k]}
  <2>0. r = [n \in Nat |-> IF n = 0 THEN 1 ELSE b * r[n - 1]]
    BY <1>5 DEF r
  <2>1. SUFFICES ASSUME T # {} PROVE FALSE
    BY <1>2, <2>0
  <2>2. PICK x \in T : \A y \in T : x <= y
    <3>1. T \in SUBSET Nat
      OBVIOUS
    <3>. HIDE DEF T
    <3>. QED  BY <2>1, <3>1, Least
  <2>3. r[0] = 1 /\ \A n \in Nat : r[n + 1] = b * r[n]
    BY <2>0
  <2>4. x # 0
    BY <1>2, <2>2, <2>3
  <2>5. x - 1 \in Nat /\ x - 1 \notin T /\ (x - 1) + 1 = x
    BY <2>2, <2>4
  <2>6. r[x] = b * r[x - 1] /\ q[x] = b * q[x - 1]
    BY <1>3, <2>3, <2>5
  <2>. QED  BY <2>2, <2>5, <2>6
<1>. QED  BY <1>2, <1>3, <1>6 DEF r

LEMMA PowerBounds ==
  \A n \in Nat : Power(10)[n] >= 1 /\ Power(19)[n] >= Power(10)[n]
<1>. DEFINE T == {n \in Nat : ~(Power(10)[n] >= 1 /\ Power(19)[n] >= Power(10)[n])}
<1>1. SUFFICES ASSUME T # {} PROVE FALSE
  OBVIOUS
<1>2. PICK x \in T : \A y \in T : x <= y
  <2>1. T \in SUBSET Nat
    OBVIOUS
  <2>. HIDE DEF T
  <2>. QED  BY <1>1, <2>1, Least
<1>3. x # 0
  BY <1>2, PowerDef
<1>4. x - 1 \in Nat /\ x - 1 \notin T /\ (x - 1) + 1 = x
  BY <1>2, <1>3
<1>5. /\ Power(10)[x] = 10 * Power(10)[x - 1] /\ Power(19)[x] = 19 * Power(19)[x - 1]
      /\ Power(10)[x - 1] \in Nat /\ Power(19)[x - 1] \in Nat
  <2>1. \A b \in Nat : Power(b)[x] = b * Power(b)[x - 1] /\ Power(b)[x - 1] \in Nat
    BY <1>4, PowerDef
  <2>. QED  BY <2>1
<1>. QED  BY <1>2, <1>4, <1>5

(* A quotient is at least what its numerator covers.                       *)
LEMMA DivAtLeast ==
  ASSUME NEW p \in Nat, NEW d \in Nat \ {0}, NEW q \in Nat, p >= d * q
  PROVE  p \div d \in Nat /\ p \div d >= q
OBVIOUS

LEMMA QuotientAtLeast ==
  ASSUME NEW x \in Nat, NEW y \in Nat \ {0}, NEW q \in Nat, 2 * x + y >= (2 * y) * q
  PROVE  Quotient(x, y) \in Nat /\ Quotient(x, y) >= q
<1>1. 2 * x + y \in Nat /\ 2 * y \in Nat \ {0}
  OBVIOUS
<1>. QED  BY <1>1, DivAtLeast DEF Quotient

(* A multiple of a positive number orders as the number does.              *)
LEMMA Cancel ==
  ASSUME NEW x \in Int, NEW y \in Int, NEW b \in Nat \ {0}, x * b <= y * b
  PROVE  x <= y
<1>1. SUFFICES ASSUME x >= y + 1 PROVE FALSE
  OBVIOUS
<1>2. x * b >= (y + 1) * b /\ (y + 1) * b = y * b + b
  BY <1>1
<1>3. x * b \in Int /\ y * b \in Int
  OBVIOUS
<1>. QED  BY <1>2, <1>3

(* Rounding is off by at most half.                                        *)
LEMMA QuotientNear ==
  ASSUME NEW x \in Nat, NEW y \in Nat \ {0}
  PROVE  LET q == Quotient(x, y)
         IN q \in Nat /\ -y <= 2 * (x - q * y) /\ 2 * (x - q * y) <= y
<1>. DEFINE p == 2 * x + y
            d == 2 * y
            q == p \div d
            r == p % d
<1>1. p \in Nat /\ d \in Nat \ {0}
  OBVIOUS
<1>2. q \in Nat /\ r \in 0 .. (d - 1) /\ p = d * q + r
  <2>. HIDE DEF p, d
  <2>. QED  BY <1>1
<1>. HIDE DEF q, r
<1>3. d * q = 2 * (q * y) /\ q * y \in Nat
  BY <1>2
<1>4. -y <= 2 * (x - q * y) /\ 2 * (x - q * y) <= y
  BY <1>2, <1>3
<1>. QED  BY <1>2, <1>4 DEF Quotient, q

Bump(maturity) == IF maturity = "stable" THEN 4 ELSE 1

(* The curve's powers at a count.                                          *)
LEMMA PowersAt ==
  ASSUME NEW c \in Nat
  PROVE  /\ Power(10)[c] \in Nat /\ Power(10)[c] >= 1
         /\ Power(19)[c] \in Nat /\ Power(19)[c] >= Power(10)[c]
         /\ Power(10)[c + 1] = 10 * Power(10)[c] /\ Power(19)[c + 1] = 19 * Power(19)[c]
<1>1. \A b \in Nat : Power(b)[c] \in Nat /\ Power(b)[c + 1] = b * Power(b)[c]
  BY PowerDef
<1>. QED  BY <1>1, PowerBounds

(* A stability the curve can be evaluated with, never below that of a      *)
(* fresh note.                                                             *)
Curved(s) == s[1] \in Nat /\ s[2] \in Nat \ {0} /\ s[1] >= 1400 * s[2]

(* The ratio that a history has earned.                                    *)
Exactly(p, d, c, maturity) ==
  /\ c = 0 => d = 1
  /\ p * Power(10)[c] = (1400 * Bump(maturity) * Power(19)[c]) * d

(* What InitStability computes: the fresh stability, grown.                *)
LEMMA InitExact ==
  ASSUME NEW c \in Nat, NEW maturity
  PROVE  LET s == InitStability(c, maturity)
         IN Curved(s) /\ Exactly(s[1], s[2], c, maturity)
<1>. DEFINE k == Bump(maturity)
            A == Power(19)[c]
            B == Power(10)[c]
            days == 14 * A * k
            s == InitStability(c, maturity)
<1>1. k \in {1, 4} /\ A \in Nat /\ B \in Nat /\ B >= 1 /\ A >= B
  BY PowersAt DEF Bump
<1>2. s = IF c < 2 THEN <<days * Power(10)[2 - c], 1>> ELSE <<days, Power(10)[c - 2]>>
  BY DEF InitStability, Bump
<1>3. CASE c < 2
  <2>1. /\ Power(10)[0] = 1 /\ Power(10)[1] = 10 /\ Power(10)[2] = 100
        /\ Power(19)[0] = 1 /\ Power(19)[1] = 19
    <3>1. \A b \in Nat : Power(b)[0] = 1 /\ Power(b)[0 + 1] = b * Power(b)[0]
                        /\ Power(b)[1 + 1] = b * Power(b)[1]
      BY PowerDef
    <3>. QED  BY <3>1
  <2>2. CASE c = 0
    <3>1. s = <<14 * 1 * k * 100, 1>> /\ A = 1 /\ B = 1
      BY <1>2, <2>1, <2>2
    <3>2. s[1] = 1400 * k /\ s[2] = 1
      BY <1>1, <3>1
    <3>. QED  BY <1>1, <2>2, <3>1, <3>2 DEF Curved, Exactly
  <2>3. CASE c = 1
    <3>1. s = <<14 * 19 * k * 10, 1>> /\ A = 19 /\ B = 10
      BY <1>2, <2>1, <2>3
    <3>2. s[1] = 2660 * k /\ s[2] = 1
      BY <1>1, <3>1
    <3>. QED  BY <1>1, <2>3, <3>1, <3>2 DEF Curved, Exactly
  <2>. QED  BY <1>3, <2>2, <2>3
<1>4. CASE ~(c < 2)
  <2>. DEFINE y == Power(10)[c - 2]
  <2>1. c - 2 \in Nat /\ c - 1 \in Nat /\ (c - 2) + 1 = c - 1 /\ (c - 1) + 1 = c
    BY <1>4
  <2>2. y \in Nat /\ y >= 1 /\ B = 100 * y
    <3>1. Power(10)[c - 1] = 10 * y /\ B = 10 * Power(10)[c - 1] /\ y \in Nat /\ y >= 1
      BY <2>1, PowersAt
    <3>. QED  BY <3>1
  <2>3. s[1] = days /\ s[2] = y
    BY <1>2, <1>4
  <2>. HIDE DEF k, A, B, y, s
  <2>4. days \in Nat /\ days >= 1400 * y /\ 1400 * k * A = 100 * days
    BY <1>1, <2>2
  <2>5. s[1] * B = (1400 * k * A) * s[2]
    <3>1. days * (100 * y) = (100 * days) * y
      BY <2>2, <2>4
    <3>. HIDE DEF days
    <3>. QED  BY <2>2, <2>3, <2>4, <3>1
  <2>6. Curved(s)
    BY <2>2, <2>3, <2>4 DEF Curved
  <2>. QED  BY <1>4, <2>5, <2>6 DEF k, A, B, s, Exactly
<1>. QED  BY <1>3, <1>4

(* Rounded once, it is as earned.                                          *)
LEMMA RoundedAsEarned ==
  ASSUME NEW c \in Nat, NEW maturity, NEW p \in Nat, NEW d \in Nat \ {0},
         Exactly(p, d, c, maturity)
  PROVE  AsEarned(Quotient(p, d), c, maturity)
<1>. DEFINE k == Bump(maturity)
            A == Power(19)[c]
            B == Power(10)[c]
            held == Quotient(p, d)
            full == 1400 * k * A
            error == held * B - full
<1>1. k \in {1, 4} /\ A \in Nat /\ B \in Nat /\ A >= B /\ B >= 1
  BY PowersAt DEF Bump
<1>2. held \in Nat /\ -d <= 2 * (p - held * d) /\ 2 * (p - held * d) <= d
  BY ONLY p \in Nat, d \in Nat \ {0}, QuotientNear
<1>3. p * B = full * d /\ (c = 0 => d = 1)
  BY DEF Exactly
<1>4. c # 0 => 10 * A >= 19 * B
  <2>1. SUFFICES ASSUME c # 0 PROVE 10 * A >= 19 * B
    OBVIOUS
  <2>2. c - 1 \in Nat /\ (c - 1) + 1 = c
    BY <2>1
  <2>3. /\ A = 19 * Power(19)[c - 1] /\ B = 10 * Power(10)[c - 1]
        /\ Power(10)[c - 1] \in Nat /\ Power(19)[c - 1] \in Nat
        /\ Power(19)[c - 1] >= Power(10)[c - 1]
    BY <2>2, PowersAt
  <2>. QED  BY <2>3
<1>5. c = 0 => B = 1
  BY PowerDef
<1>6. full \in Nat
  <2>. HIDE DEF A, k
  <2>. QED  BY <1>1
<1>. HIDE DEF held, B, full
<1>7. error \in Int
  BY <1>1, <1>2, <1>6
<1>8. -B <= 2 * error /\ 2 * error <= B
  <2>. DEFINE e == p - held * d
  <2>1. e \in Int /\ -d <= 2 * e /\ 2 * e <= d
    BY <1>2
  <2>2. e * B = full * d - (held * B) * d
    <3>1. e * B = p * B - (held * d) * B
      BY <1>1, <1>2
    <3>2. (held * d) * B = (held * B) * d
      BY <1>1, <1>2
    <3>. QED  BY <1>3, <3>1, <3>2
  <2>3. e * B = -(error * d)
    BY <1>1, <1>2, <1>6, <2>2
  <2>. HIDE DEF e, error
  <2>4. -(d * B) <= 2 * (e * B) /\ 2 * (e * B) <= d * B
    <3>1. (-d) * B <= (2 * e) * B /\ (2 * e) * B <= d * B
      BY <1>1, <2>1
    <3>. QED  BY <1>1, <2>1, <3>1
  <2>5. (2 * error) * d <= B * d /\ (-B) * d <= (2 * error) * d
    BY <1>1, <1>7, <2>1, <2>3, <2>4
  <2>6. 2 * error \in Int /\ -B \in Int /\ B \in Int
    BY <1>1, <1>7
  <2>7. 2 * error <= B
    BY <2>5, <2>6, Cancel
  <2>8. -B <= 2 * error
    BY <2>5, <2>6, Cancel
  <2>. QED  BY <2>7, <2>8
<1>9. c = 0 => error = 0
  <2>1. SUFFICES ASSUME c = 0 PROVE error = 0
    OBVIOUS
  <2>2. d = 1 /\ B = 1
    BY <1>3, <1>5, <2>1
  <2>. QED  BY <1>2, <1>3, <1>6, <2>2
<1>. HIDE DEF A, error, k
<1>10. -(5 * k * (A - B)) <= 9 * error /\ 9 * error <= 5 * k * (A - B)
  BY <1>1, <1>4, <1>7, <1>8, <1>9
<1>. QED  BY <1>10 DEF AsEarned, FreshStability, A, B, error, k, full, held, Bump

(* A reinforcement keeps it as earned.                                     *)
LEMMA GrownAsEarned ==
  ASSUME NEW s \in Nat, NEW c \in Nat, NEW old \in Stages, AsEarned(s, c, old)
  PROVE  LET maturity == Promoted(old, c + 1)
             f == IF maturity = "stable" /\ old # "stable" THEN 76 ELSE 19
         IN AsEarned(Quotient(s * f, 10), c + 1, maturity)
<1>. DEFINE maturity == Promoted(old, c + 1)
            f == IF maturity = "stable" /\ old # "stable" THEN 76 ELSE 19
            k == Bump(old)
            l == Bump(maturity)
            A == Power(19)[c]
            B == Power(10)[c]
            q == Quotient(s * f, 10)
            X == s * B
            Y == q * B
            E == (10 * q - s * f) * B
<1>1. \/ k = 1 /\ l = 1 /\ f = 19
      \/ k = 1 /\ l = 4 /\ f = 76
      \/ k = 4 /\ l = 4 /\ f = 19
  BY DEF Promoted, Stages, Bump
<1>2. A \in Nat /\ B \in Nat /\ A >= B /\ B >= 1
      /\ Power(10)[c + 1] = 10 * B /\ Power(19)[c + 1] = 19 * A
  BY PowersAt
<1>3. f \in Nat /\ s * f \in Nat
  OBVIOUS
<1>. HIDE DEF f, k, l, A, B
<1>4. q \in Nat /\ -10 <= 2 * (s * f - q * 10) /\ 2 * (s * f - q * 10) <= 10
  BY <1>3, QuotientNear
<1>. HIDE DEF q
<1>5. /\ X \in Nat /\ Y \in Nat /\ E \in Int
      /\ E = 10 * Y - f * X
  BY <1>2, <1>3, <1>4
<1>6. -(5 * B) <= E /\ E <= 5 * B
  <2>. DEFINE e == 10 * q - s * f
  <2>1. e \in -5 .. 5
    BY <1>3, <1>4
  <2>. HIDE DEF e
  <2>2. -(5 * B) <= e * B /\ e * B <= 5 * B
    BY <1>2, <2>1
  <2>. QED  BY <2>2 DEF e
<1>. HIDE DEF X, Y, E
<1>7. /\ -(5 * k * (A - B)) <= 9 * (X - 1400 * k * A)
      /\ 9 * (X - 1400 * k * A) <= 5 * k * (A - B)
  BY DEF AsEarned, FreshStability, Bump, k, A, B, X
<1>8. /\ -(5 * l * (19 * A - 10 * B)) <= 9 * (10 * Y - 1400 * l * (19 * A))
      /\ 9 * (10 * Y - 1400 * l * (19 * A)) <= 5 * l * (19 * A - 10 * B)
  <2>1. CASE k = 1 /\ l = 1 /\ f = 19
    BY <1>2, <1>5, <1>6, <1>7, <2>1
  <2>2. CASE k = 1 /\ l = 4 /\ f = 76
    BY <1>2, <1>5, <1>6, <1>7, <2>2
  <2>3. CASE k = 4 /\ l = 4 /\ f = 19
    BY <1>2, <1>5, <1>6, <1>7, <2>3
  <2>. QED  BY <1>1, <2>1, <2>2, <2>3
<1>9. q * (10 * B) = 10 * Y
  BY <1>2, <1>4 DEF Y
<1>10. AsEarned(q, c + 1, maturity)
  <2>. HIDE DEF maturity
  <2>. QED  BY <1>2, <1>8, <1>9 DEF AsEarned, FreshStability, Bump, l
<1>. QED  BY <1>10 DEF q, f

(* A stability as earned is at least that of a fresh note.                 *)
LEMMA EarnedAtLeast ==
  ASSUME NEW s \in Nat, NEW c \in Nat, NEW maturity, AsEarned(s, c, maturity)
  PROVE  s >= FreshStability
<1>. DEFINE k == Bump(maturity)
            A == Power(19)[c]
            B == Power(10)[c]
            X == s * B
<1>1. k \in {1, 4} /\ A \in Nat /\ B \in Nat /\ A >= B /\ B >= 1 /\ X \in Nat
  BY PowersAt DEF Bump
<1>2. -(5 * k * (A - B)) <= 9 * (X - 1400 * k * A)
  BY DEF AsEarned, FreshStability, Bump
<1>. HIDE DEF k, A, B
<1>3. 1400 * B <= X
  <2>. HIDE DEF X
  <2>. QED  BY <1>1, <1>2
<1>. QED  BY <1>1, <1>3, Cancel DEF FreshStability

(* And within one part in two thousand of what InitStability computes.     *)
LEMMA EarnedNear ==
  ASSUME NEW s \in Nat, NEW c \in Nat, NEW maturity, AsEarned(s, c, maturity)
  PROVE  LET earned == InitStability(c, maturity)
             error  == s * earned[2] - earned[1]
         IN -earned[1] <= 2000 * error /\ 2000 * error <= earned[1]
<1>. DEFINE k == Bump(maturity)
            A == Power(19)[c]
            B == Power(10)[c]
            p == InitStability(c, maturity)[1]
            d == InitStability(c, maturity)[2]
            full == 1400 * k * A
            e == s * B - full
            error == s * d - p
<1>1. /\ k \in {1, 4} /\ A \in Nat /\ B \in Nat /\ A >= B /\ B >= 1
      /\ p \in Nat /\ d \in Nat \ {0} /\ p * B = full * d
  BY PowersAt, InitExact DEF Bump, Curved, Exactly
<1>2. -(5 * k * (A - B)) <= 9 * e /\ 9 * e <= 5 * k * (A - B)
  BY DEF AsEarned, FreshStability, Bump
<1>. HIDE DEF k, A, B, p, d
<1>3. full \in Nat /\ s * B \in Nat
  BY <1>1
<1>4. e \in Int /\ -full <= 2000 * e /\ 2000 * e <= full
  <2>. DEFINE X == s * B
  <2>1. X \in Nat
    BY <1>3
  <2>. HIDE DEF X
  <2>2. /\ X - 1400 * k * A \in Int
        /\ -(1400 * k * A) <= 2000 * (X - 1400 * k * A)
        /\ 2000 * (X - 1400 * k * A) <= 1400 * k * A
    BY <1>1, <1>2, <2>1 DEF X
  <2>. QED  BY <2>2 DEF X
<1>. HIDE DEF full
<1>5. error \in Int /\ error * B = e * d
  <2>1. error * B = (s * d) * B - p * B
    BY <1>1
  <2>2. (s * d) * B = (s * B) * d
    BY <1>1
  <2>. QED  BY <1>1, <1>3, <2>1, <2>2
<1>. HIDE DEF e, error
<1>6. (-full) * d <= (2000 * e) * d /\ (2000 * e) * d <= full * d
  BY <1>1, <1>3, <1>4
<1>7. (-p) * B <= (2000 * error) * B /\ (2000 * error) * B <= p * B
  BY <1>1, <1>3, <1>4, <1>5, <1>6
<1>8. 2000 * error \in Int /\ -p \in Int /\ p \in Int /\ B \in Nat \ {0}
  BY <1>1, <1>5
<1>9. -p <= 2000 * error
  BY <1>7, <1>8, Cancel
<1>10. 2000 * error <= p
  BY <1>7, <1>8, Cancel
<1>. QED  BY <1>9, <1>10 DEF error, p, d

(* A file's stability: none, or as earned.                                 *)
Earned(n) == n # None => n.stability = 0 \/ AsEarned(n.stability, n.count, n.maturity)

(* What is stored is what is read back.                                    *)
LEMMA Stored ==
  ASSUME NEW x \in Nat
  PROVE  Hundredths(<<x, 1>>) = x
<1>1. LET q == Quotient(x, 1) IN q \in Nat /\ -1 <= 2 * (x - q * 1) /\ 2 * (x - q * 1) <= 1
  BY QuotientNear
<1>. QED  BY <1>1 DEF Hundredths

LEMMA StabilityAtLeast ==
  ASSUME NEW n \in Note, Earned(n)
  PROVE  /\ Curved(StabilityOf(n))
         /\ Hundredths(StabilityOf(n)) \in Nat /\ Hundredths(StabilityOf(n)) >= FreshStability
         /\ AsEarned(Hundredths(StabilityOf(n)), n.count, n.maturity)
<1>1. n.count \in Nat /\ n.stability \in Nat /\ n # None
  BY LifecycleAssumption DEF Note
<1>2. CASE n.stability = 0
  <2>. DEFINE s == InitStability(n.count, n.maturity)
  <2>1. StabilityOf(n) = s
    BY <1>2 DEF StabilityOf
  <2>2. Curved(s) /\ AsEarned(Quotient(s[1], s[2]), n.count, n.maturity)
    <3>1. Curved(s) /\ Exactly(s[1], s[2], n.count, n.maturity)
      BY <1>1, InitExact
    <3>. HIDE DEF s
    <3>. DEFINE p == s[1]
                d == s[2]
                c == n.count
    <3>2. p \in Nat /\ d \in Nat \ {0} /\ c \in Nat /\ Exactly(p, d, c, n.maturity)
      BY <1>1, <3>1 DEF Curved
    <3>. HIDE DEF p, d, c
    <3>3. AsEarned(Quotient(p, d), c, n.maturity)
      BY <3>2, RoundedAsEarned
    <3>. QED  BY <3>1, <3>3 DEF p, d, c
  <2>. HIDE DEF s
  <2>3. Quotient(s[1], s[2]) \in Nat
    <3>. DEFINE p == s[1]
                d == s[2]
    <3>1. p \in Nat /\ d \in Nat \ {0}
      BY <2>2 DEF Curved
    <3>. HIDE DEF p, d
    <3>2. Quotient(p, d) \in Nat
      BY ONLY <3>1, QuotientNear
    <3>. QED  BY <3>2 DEF p, d
  <2>. QED  BY <1>1, <2>1, <2>2, <2>3, EarnedAtLeast DEF Hundredths
<1>3. CASE n.stability > 0 /\ AsEarned(n.stability, n.count, n.maturity)
  <2>1. n.stability >= 1400 /\ StabilityOf(n) = <<n.stability, 1>>
    BY <1>1, <1>3, EarnedAtLeast DEF StabilityOf, FreshStability
  <2>. QED  BY <1>1, <1>3, <2>1, Stored DEF Curved, FreshStability
<1>. QED  BY <1>1, <1>2, <1>3 DEF Earned

LEMMA GrownAtLeast ==
  ASSUME NEW n \in Note, Earned(n)
  PROVE  LET maturity == Promoted(n.maturity, n.count + 1)
         IN /\ Grown(n, maturity) \in Nat /\ Grown(n, maturity) >= FreshStability
            /\ AsEarned(Grown(n, maturity), n.count + 1, maturity)
<1>. DEFINE maturity == Promoted(n.maturity, n.count + 1)
            s == StabilityOf(n)
            f == IF maturity = "stable" /\ n.maturity # "stable" THEN 76 ELSE 19
            c == n.count
<1>1. Curved(s) /\ c \in Nat /\ c + 1 \in Nat /\ n.maturity \in Stages /\ n.stability \in Nat /\ n # None
  BY StabilityAtLeast, LifecycleAssumption DEF Note
<1>2. Grown(n, maturity) = Quotient(s[1] * f, 10 * s[2])
  BY DEF Grown
<1>3. ASSUME n.stability > 0 PROVE AsEarned(Grown(n, maturity), c + 1, maturity)
  <2>1. s = <<n.stability, 1>> /\ AsEarned(n.stability, c, n.maturity)
    BY <1>1, <1>3 DEF Earned, StabilityOf
  <2>2. Grown(n, maturity) = Quotient(n.stability * f, 10)
    BY <1>2, <2>1
  <2>3. AsEarned(Quotient(n.stability * f, 10), c + 1, maturity)
    BY <1>1, <2>1, GrownAsEarned
  <2>. QED  BY <2>2, <2>3
<1>4. ASSUME n.stability = 0 PROVE AsEarned(Grown(n, maturity), c + 1, maturity)
  <2>. DEFINE A == Power(19)[c]
              B == Power(10)[c]
              k == Bump(n.maturity)
              l == Bump(maturity)
              p == s[1]
              d == s[2]
  <2>1. /\ p \in Nat /\ d \in Nat \ {0} /\ p * B = (1400 * k * A) * d
        /\ A \in Nat /\ B \in Nat
        /\ Power(10)[c + 1] = 10 * B /\ Power(19)[c + 1] = 19 * A
    BY <1>1, <1>4, InitExact, PowersAt DEF StabilityOf, Curved, Exactly
  <2>2. \/ k = 1 /\ l = 1 /\ f = 19
        \/ k = 1 /\ l = 4 /\ f = 76
        \/ k = 4 /\ l = 4 /\ f = 19
    BY <1>1 DEF Promoted, Stages, Bump
  <2>. HIDE DEF A, B, k, l, p, d, f, s, c, maturity
  <2>3. (p * f) * (10 * B) = (1400 * l * (19 * A)) * (10 * d)
    <3>1. (p * f) * (10 * B) = (10 * f) * (p * B)
      BY <2>1, <2>2
    <3>3. A * d \in Nat /\ (1400 * k * A) * d = (1400 * k) * (A * d)
          /\ (1400 * l * (19 * A)) * (10 * d) = (1400 * l * 190) * (A * d)
      BY <2>1, <2>2
    <3>4. (10 * f) * ((1400 * k) * (A * d)) = (1400 * l * 190) * (A * d)
      <4>. DEFINE z == A * d
      <4>1. z \in Nat
        BY <3>3
      <4>. HIDE DEF z
      <4>2. (10 * f) * ((1400 * k) * z) = (1400 * l * 190) * z
        BY <2>2, <4>1
      <4>. QED  BY <4>2 DEF z
    <3>. QED  BY <2>1, <3>1, <3>3, <3>4
  <2>4. p * f \in Nat /\ 10 * d \in Nat \ {0} /\ c + 1 # 0
    BY <1>1, <2>1, <2>2
  <2>5. AsEarned(Quotient(p * f, 10 * d), c + 1, maturity)
    <3>1. Exactly(p * f, 10 * d, c + 1, maturity)
      BY <2>1, <2>3, <2>4 DEF l, Exactly
    <3>. DEFINE x == p * f
                y == 10 * d
    <3>2. x \in Nat /\ y \in Nat \ {0} /\ c + 1 \in Nat /\ c + 1 # 0
      BY <1>1, <2>4
    <3>. HIDE DEF x, y
    <3>3. Exactly(x, y, c + 1, maturity)
      BY <3>1 DEF x, y
    <3>. QED  BY <3>2, <3>3, RoundedAsEarned DEF x, y
  <2>. QED  BY <1>2, <2>5 DEF p, d
<1>5. AsEarned(Grown(n, maturity), c + 1, maturity)
  BY <1>1, <1>3, <1>4
<1>6. Grown(n, maturity) \in Nat
  <2>1. f \in {19, 76}
    OBVIOUS
  <2>. HIDE DEF f, s
  <2>2. s[1] * f \in Nat /\ 10 * s[2] \in Nat \ {0}
    BY <1>1, <2>1 DEF Curved
  <2>. QED  BY <1>2, <2>2, QuotientNear
<1>. HIDE DEF maturity
<1>. QED  BY <1>1, <1>5, <1>6, EarnedAtLeast DEF maturity, c

LEMMA ConfidenceTyped ==
  ASSUME NEW t \in Nat, NEW s, Curved(s)
  PROVE  Confidence(t, s) \in 0..10
<1>. DEFINE aged == 6 * s[1] + 25 * t * s[2]
            full == 2400 * s[1]
            P(k) == /\ k = 0 \/ (2 * k - 1) * (2 * k - 1) * aged <= full
                    /\ k = 10 \/ (2 * k + 1) * (2 * k + 1) * aged > full
<1>1. aged \in Nat /\ full \in Nat
  BY DEF Curved
<1>2. Confidence(t, s) = CHOOSE k \in 0..10 : P(k)
  BY DEF Confidence
<1>. HIDE DEF aged, full
<1>3. P(0) \/ P(1) \/ P(2) \/ P(3) \/ P(4) \/ P(5) \/ P(6) \/ P(7) \/ P(8) \/ P(9) \/ P(10)
  BY <1>1
<1>. HIDE DEF P
<1>4. \E k \in 0..10 : P(k)
  BY <1>3
<1>. QED  BY <1>2, <1>4

(* At its peak when no time has passed.                                    *)
LEMMA ConfidencePeak ==
  ASSUME NEW s, Curved(s)
  PROVE  Confidence(0, s) = 10
<1>. DEFINE aged == 6 * s[1] + 25 * 0 * s[2]
            full == 2400 * s[1]
            P(k) == /\ k = 0 \/ (2 * k - 1) * (2 * k - 1) * aged <= full
                    /\ k = 10 \/ (2 * k + 1) * (2 * k + 1) * aged > full
<1>1. aged = 6 * s[1] /\ s[1] \in Nat /\ s[1] > 0
  BY DEF Curved
<1>2. P(10)
  BY <1>1
<1>3. ~P(0) /\ ~P(1) /\ ~P(2) /\ ~P(3) /\ ~P(4) /\ ~P(5) /\ ~P(6) /\ ~P(7) /\ ~P(8) /\ ~P(9)
  BY <1>1
<1>4. Confidence(0, s) = CHOOSE k \in 0..10 : P(k)
  BY DEF Confidence
<1>. HIDE DEF P
<1>5. \A k \in 0..10 : P(k) <=> k = 10
  BY <1>2, <1>3
<1>. QED  BY <1>4, <1>5

(* Nothing fades as long as a citation can shield.                         *)
LEMMA NotYetFaded ==
  ASSUME NEW t \in Nat, t <= AncientAfter, NEW s, Curved(s)
  PROVE  ~Faded(t, s)
<1>. DEFINE d == s[2]
            p == s[1]
<1>1. p \in Nat /\ d \in Nat /\ p >= 1400 * d
  BY DEF Curved
<1>2. t \in 0 .. 4320
  BY DEF AncientAfter
<1>. HIDE DEF p, d
<1>3. t * d <= 4320 * d /\ t * d \in Nat /\ 25 * t * d = 25 * (t * d)
  BY <1>1, <1>2
<1>. QED  BY <1>1, <1>3 DEF Faded, p, d

-----------------------------------------------------------------------------
(* What a run decides on one note.                                         *)

LEMMA ReinforcedTyped ==
  ASSUME NEW n \in Note, Earned(n), NEW at \in Hours
  PROVE  LET m == Reinforced(n, at)
         IN /\ m \in Note /\ m.stability >= FreshStability
            /\ m.anchor = at /\ m.updated = n.updated
            /\ Frozen(m) <=> Frozen(n)
            /\ m.conf = (IF Frozen(n) THEN n.conf ELSE 10)
            /\ AsEarned(m.stability, m.count, m.maturity)
<1>. DEFINE maturity == Promoted(n.maturity, n.count + 1)
            grown == Grown(n, maturity)
            status == IF n.status = "disputed" THEN "active" ELSE n.status
            conf == IF Frozen(n) THEN n.conf ELSE 10
<1>1. maturity \in Stages /\ status \in Statuses /\ n.count + 1 \in Nat
      /\ (status = "paused" <=> n.status = "paused") /\ conf \in 0..10
  BY DEF Promoted, Note, Stages, Statuses
<1>2. grown \in Nat /\ grown >= FreshStability /\ AsEarned(grown, n.count + 1, maturity)
  BY GrownAtLeast
<1>3. Reinforced(n, at)
        = [n EXCEPT !.count = @ + 1, !.maturity = maturity, !.stability = grown,
                    !.anchor = at, !.status = status, !.conf = conf]
  BY DEF Reinforced, Note
<1>. HIDE DEF maturity, grown, status
<1>4. conf = (IF Frozen(n) THEN n.conf ELSE 10)
  OBVIOUS
<1>. HIDE DEF conf
<1>5. LET m == Reinforced(n, at)
      IN /\ m \in Note /\ m.stability = grown /\ m.anchor = at /\ m.updated = n.updated
         /\ m.status = status /\ m.graduated = n.graduated /\ m.conf = conf
         /\ m.count = n.count + 1 /\ m.maturity = maturity
  <2>. DEFINE count == n.count + 1
  <2>1. Reinforced(n, at)
          = [n EXCEPT !.count = count, !.maturity = maturity, !.stability = grown,
                      !.anchor = at, !.status = status, !.conf = conf]
    BY <1>3 DEF Note
  <2>2. count \in Nat
    BY <1>1
  <2>. HIDE DEF count
  <2>3. Reinforced(n, at)
          = [status |-> status, maturity |-> maturity, count |-> count, stability |-> grown,
             anchor |-> at, updated |-> n.updated, conf |-> conf, graduated |-> n.graduated]
    BY <2>1 DEF Note
  <2>4. n.updated \in Hours /\ n.graduated \in BOOLEAN
    BY DEF Note
  <2>. HIDE DEF Reinforced
  <2>. QED  BY <1>1, <1>2, <2>2, <2>3, <2>4 DEF Note, count
<1>. QED  BY <1>1, <1>2, <1>4, <1>5 DEF Frozen

(* Not reinforced, it has the confidence of its age.                       *)
LEMMA KeptTyped ==
  ASSUME NEW n \in Note, Earned(n), NEW at \in Hours
  PROVE  LET m == Assessed(n, FALSE, at)
         IN /\ m \in Note /\ m.stability = Hundredths(StabilityOf(n))
            /\ m.stability >= FreshStability
            /\ m.anchor = n.anchor /\ m.updated = n.updated
            /\ m.count = n.count /\ m.maturity = n.maturity
            /\ Frozen(m) <=> Frozen(n)
            /\ m.conf = (IF Frozen(n) THEN n.conf
                         ELSE Confidence(Elapsed(n.anchor, at), StabilityOf(n)))
            /\ AsEarned(m.stability, m.count, m.maturity)
<1>. DEFINE held == Hundredths(StabilityOf(n))
            conf == IF Frozen(n) THEN n.conf ELSE Confidence(Elapsed(n.anchor, at), StabilityOf(n))
<1>1. held \in Nat /\ held >= FreshStability /\ AsEarned(held, n.count, n.maturity)
  BY StabilityAtLeast
<1>2. conf \in 0..10
  <2>1. n.anchor \in Nat /\ at \in Nat /\ n.conf \in 0..10
    BY LifecycleAssumption DEF Note
  <2>2. Elapsed(n.anchor, at) \in Nat
    BY <2>1 DEF Elapsed
  <2>. QED  BY <2>1, <2>2, ConfidenceTyped, StabilityAtLeast
<1>3. Assessed(n, FALSE, at) = [n EXCEPT !.stability = held, !.conf = conf]
  BY DEF Assessed
<1>. HIDE DEF held, conf
<1>4. LET m == Assessed(n, FALSE, at)
      IN /\ m \in Note /\ m.stability = held /\ m.anchor = n.anchor /\ m.updated = n.updated
         /\ m.status = n.status /\ m.graduated = n.graduated /\ m.conf = conf
         /\ m.count = n.count /\ m.maturity = n.maturity
  BY <1>1, <1>2, <1>3 DEF Note
<1>. QED  BY <1>1, <1>4 DEF Frozen, held, conf

(* What is staged is a note of its own right: it keeps the hour it was     *)
(* edited and whether it is exempt.                                        *)
LEMMA AssessedTyped ==
  ASSUME NEW n \in Note, Earned(n), NEW again \in BOOLEAN, NEW at \in Hours
  PROVE  LET m == Assessed(n, again, at)
         IN /\ m \in Note /\ m.stability >= FreshStability
            /\ m.anchor = (IF again THEN at ELSE n.anchor)
            /\ m.updated = n.updated
            /\ Frozen(m) <=> Frozen(n)
            /\ Frozen(n) => m.conf = n.conf
            /\ AsEarned(m.stability, m.count, m.maturity)
<1>1. CASE again
  BY <1>1, ReinforcedTyped DEF Assessed
<1>2. CASE ~again
  <2>. DEFINE m == Assessed(n, FALSE, at)
  <2>1. Assessed(n, again, at) = m
    BY <1>2 DEF Assessed
  <2>2. /\ m \in Note /\ m.stability >= FreshStability /\ m.anchor = n.anchor
        /\ m.updated = n.updated
        /\ Frozen(m) <=> Frozen(n)
        /\ Frozen(n) => m.conf = n.conf
        /\ AsEarned(m.stability, m.count, m.maturity)
    BY KeptTyped
  <2>. HIDE DEF m
  <2>. QED  BY <1>2, <2>1, <2>2
<1>. QED  BY <1>1, <1>2

(* The stability it was timed with.                                        *)
Timed(m, age) ==
  \/ Fits(m, <<m.stability, 1>>, age)
  \/ LET held == InitStability(m.count, m.maturity)
     IN Hundredths(held) = m.stability /\ Fits(m, held, age)

(* And unless it is exempt it has the confidence of its age, which has not *)
(* faded if it is not about to be archived for that.                       *)
LEMMA AssessedTimed ==
  ASSUME NEW n \in Note, Earned(n), NEW again \in BOOLEAN, NEW at \in Hours, NEW cited,
         ~Frozen(n), ~WillFade(n, again, cited, at)
  PROVE  LET m == Assessed(n, again, at) IN Timed(m, Elapsed(m.anchor, at))
<1>. DEFINE m == Assessed(n, again, at)
<1>0. n.anchor \in Nat /\ at \in Nat /\ n.stability \in Nat
  BY LifecycleAssumption DEF Note
<1>1. CASE again
  <2>1. m \in Note /\ m.stability >= 1400 /\ m.anchor = at /\ m.conf = 10
    BY <1>1, ReinforcedTyped DEF Assessed, FreshStability
  <2>. HIDE DEF m
  <2>2. Elapsed(m.anchor, at) = 0
    BY <1>0, <2>1 DEF Elapsed
  <2>3. Curved(<<m.stability, 1>>)
    BY <2>1 DEF Curved, Note
  <2>4. Confidence(0, <<m.stability, 1>>) = 10 /\ ~Faded(0, <<m.stability, 1>>)
    BY <2>3, ConfidencePeak, NotYetFaded DEF AncientAfter
  <2>. QED  BY <2>1, <2>2, <2>4 DEF Timed, Fits, m
<1>2. CASE ~again
  <2>. DEFINE s == StabilityOf(n)
              age == Elapsed(n.anchor, at)
  <2>1. /\ m.stability = Hundredths(s) /\ m.anchor = n.anchor
        /\ m.count = n.count /\ m.maturity = n.maturity
        /\ m.conf = Confidence(age, s)
    <3>1. m = Assessed(n, FALSE, at)
      BY <1>2 DEF Assessed
    <3>. HIDE DEF m
    <3>. QED  BY <1>0, <3>1, KeptTyped
  <2>2. ~Faded(age, s)
    <3>1. CASE Shields(n, cited, at)
      <4>1. age \in Nat /\ age <= AncientAfter
        BY <1>0, <3>1 DEF Shields, RefreshBudget, AncientAfter, Elapsed
      <4>. QED  BY <4>1, NotYetFaded, StabilityAtLeast
    <3>2. CASE ~Shields(n, cited, at)
      BY <1>2, <3>2 DEF WillFade
    <3>. QED  BY <3>1, <3>2
  <2>3. \/ s = <<n.stability, 1>> /\ Hundredths(s) = n.stability
        \/ s = InitStability(n.count, n.maturity)
    BY <1>0, Stored DEF StabilityOf
  <2>. HIDE DEF m, s, age
  <2>. QED  BY <2>1, <2>2, <2>3 DEF Timed, Fits, m, age
<1>. QED  BY <1>1, <1>2

Deeds == Kinds \ {"skipped"}

LEMMA LinesTyped ==
  ASSUME NEW n, NEW again, NEW at
  PROVE  Lines(n, again, at) \in Seq(Deeds)
<1>. DEFINE p == IF Assessed(n, again, at).maturity # n.maturity THEN <<"promoted">> ELSE <<>>
            c == IF n.status = "disputed" THEN <<"dispute-cleared">> ELSE <<>>
<1>1. p \in Seq(Deeds) /\ c \in Seq(Deeds) /\ <<"reinforced">> \in Seq(Deeds)
      /\ <<"decayed">> \in Seq(Deeds) /\ <<"recalibrated">> \in Seq(Deeds) /\ <<>> \in Seq(Deeds)
  <2>1. {"reinforced", "promoted", "dispute-cleared", "decayed", "recalibrated"} \subseteq Deeds
    BY DEF Deeds, Kinds
  <2>2. <<>> \in Seq(Deeds) /\ \A k \in Deeds : <<k>> \in Seq(Deeds)
    BY EmptySeq
  <2>. QED  BY <2>1, <2>2
<1>2. <<"reinforced">> \o p \o c \in Seq(Deeds)
  <2>. HIDE DEF p, c
  <2>. QED  BY <1>1
<1>. QED  BY <1>1, <1>2 DEF Lines

-----------------------------------------------------------------------------
(* How the record of a run changes.                                        *)

Well(r) == r \in Run /\ r.mark <= Len(r.report)

Entries(s) == {s[k] : k \in 1..Len(s)}

FirstOf(s, n) == {s[k] : k \in 1..n}

(* What the report says.                                                   *)
Told(r) == Entries(r.report)

Of(lines, i) == {<<lines[k], i>> : k \in 1..Len(lines)}

Skipped == {"skipped"} \X Ids

(* The same request, at the same time, of the same vault.                  *)
Alike(r, s) == r.at = s.at /\ r.cited = s.cited /\ r.ask = s.ask

LEMMA ConcatTold ==
  ASSUME NEW S, NEW s \in Seq(S), NEW t \in Seq(S)
  PROVE  /\ s \o t \in Seq(S) /\ Len(s \o t) = Len(s) + Len(t)
         /\ Entries(s \o t) = Entries(s) \cup Entries(t)
<1>1. /\ s \o t \in Seq(S) /\ Len(s \o t) = Len(s) + Len(t)
      /\ \A k \in 1..(Len(s) + Len(t)) :
           (s \o t)[k] = IF k <= Len(s) THEN s[k] ELSE t[k - Len(s)]
  BY ConcatProperties
<1>2. Len(s) \in Nat /\ Len(t) \in Nat
  OBVIOUS
<1>3. ASSUME NEW k \in 1..Len(s) PROVE k \in 1..(Len(s) + Len(t)) /\ (s \o t)[k] = s[k]
  BY <1>1, <1>2
<1>4. ASSUME NEW k \in 1..Len(t)
      PROVE  k + Len(s) \in 1..(Len(s) + Len(t)) /\ (s \o t)[k + Len(s)] = t[k]
  BY <1>1, <1>2
<1>5. ASSUME NEW k \in 1..(Len(s) + Len(t))
      PROVE  \/ k \in 1..Len(s) /\ (s \o t)[k] = s[k]
             \/ k - Len(s) \in 1..Len(t) /\ (s \o t)[k] = t[k - Len(s)]
  BY <1>1, <1>2
<1>. DEFINE u == s \o t
<1>6. Len(u) = Len(s) + Len(t)
  BY <1>1
<1>. HIDE DEF u
<1>7. Entries(u) = Entries(s) \cup Entries(t)
  BY <1>3, <1>4, <1>5, <1>6 DEF u, Entries
<1>. QED  BY <1>1, <1>7 DEF u

LEMMA StagedRun ==
  ASSUME Well(run), NEW i \in Ids, NEW m \in Note, NEW lines \in Seq(Deeds)
  PROVE  LET r == Staged(i, m, lines)
         IN /\ Well(r) /\ Alike(r, run)
            /\ r.pc = run.pc /\ r.next = run.next /\ r.mark = run.mark
            /\ r.snap = [run.snap EXCEPT ![i] = m]
            /\ Told(r) = Told(run) \cup Of(lines, i)
<1>. DEFINE t == [k \in 1..Len(lines) |-> <<lines[k], i>>]
            snap == [run.snap EXCEPT ![i] = m]
            report == run.report \o t
<1>1. t \in Seq(Kinds \X Ids) /\ Len(t) = Len(lines)
  <2>1. \A k \in 1..Len(lines) : lines[k] \in Kinds
    BY DEF Deeds
  <2>2. Len(lines) \in Nat /\ t \in [1..Len(lines) -> Kinds \X Ids]
    BY <2>1
  <2>3. t \in Seq(Kinds \X Ids)
    BY <2>2, SeqDef
  <2>. QED  BY <2>2, <2>3
<1>2. run.report \in Seq(Kinds \X Ids) /\ run.snap \in [Ids -> Note \cup {None}] /\ run \in Run
  BY DEF Well, Run
<1>3. Entries(t) = Of(lines, i)
  BY <1>1 DEF Of, Entries
<1>. HIDE DEF t
<1>4. /\ report \in Seq(Kinds \X Ids) /\ Len(report) = Len(run.report) + Len(t)
      /\ Entries(report) = Told(run) \cup Of(lines, i)
  <2>1. run.report \o t \in Seq(Kinds \X Ids)
    BY <1>1, <1>2, ConcatTold
  <2>2. Len(run.report \o t) = Len(run.report) + Len(t)
    BY <1>1, <1>2, ConcatTold
  <2>3. Entries(run.report \o t) = Entries(run.report) \cup Entries(t)
    BY <1>1, <1>2, ConcatTold
  <2>. QED  BY <1>3, <2>1, <2>2, <2>3 DEF Told
<1>5. Staged(i, m, lines) = [run EXCEPT !.snap = snap, !.report = report]
  BY <1>2 DEF Staged, Run, t
<1>6. snap \in [Ids -> Note \cup {None}]
  BY <1>2
<1>. HIDE DEF snap, report
<1>. DEFINE r == [run EXCEPT !.snap = snap, !.report = report]
<1>7. /\ r \in Run /\ r.report = report /\ r.snap = snap /\ Alike(r, run)
      /\ r.pc = run.pc /\ r.next = run.next /\ r.mark = run.mark
  BY <1>2, <1>4, <1>6 DEF Run, Alike
<1>8. run.mark <= Len(report)
  BY <1>1, <1>2, <1>4 DEF Well, Run
<1>. HIDE DEF r
<1>9. Staged(i, m, lines) = r
  BY <1>5 DEF r
<1>. QED  BY <1>4, <1>7, <1>8, <1>9 DEF Well, Told, snap

LEMMA OnRun ==
  ASSUME NEW r, Well(r), r.next <= Len(Order)
  PROVE  /\ Well(On(r)) /\ Alike(On(r), r) /\ On(r).snap = r.snap /\ Told(On(r)) = Told(r)
         /\ On(r).pc = "note" /\ On(r).mark = Len(On(r).report)
<1>1. Len(Order) \in Nat /\ Len(r.report) \in Nat
  BY LifecycleAssumption DEF Well, Run
<1>2. r.next + 1 \in 1..(Len(Order) + 1)
  BY <1>1 DEF Well, Run
<1>3. /\ On(r) \in Run /\ On(r).report = r.report /\ On(r).mark = Len(r.report)
      /\ On(r).pc = "note" /\ On(r).snap = r.snap /\ Alike(On(r), r)
  BY <1>1, <1>2 DEF Well, Run, On, Alike
<1>. QED  BY <1>1, <1>3 DEF Well, Told

LEMMA MarkedRun ==
  ASSUME NEW r, Well(r)
  PROVE  /\ Well(Marked(r)) /\ Alike(Marked(r), r) /\ Marked(r).snap = r.snap
         /\ Told(Marked(r)) = Told(r) /\ Marked(r).next = r.next
         /\ Marked(r).mark = Len(Marked(r).report)
<1>1. Len(r.report) \in Nat
  BY DEF Well, Run
<1>. QED  BY <1>1 DEF Well, Run, Marked, Alike, Told

LEMMA ThenRun ==
  ASSUME NEW r, Well(r), r.next <= Len(Order), NEW g \in BOOLEAN
  PROVE  /\ Well(Then(r, g)) /\ Alike(Then(r, g), r) /\ Then(r, g).snap = r.snap
         /\ Told(Then(r, g)) = Told(r)
         /\ Then(r, g).pc = (IF g THEN "graduate" ELSE "note")
         /\ g => Then(r, g).next = r.next
         /\ ~g \/ r.mark = Len(r.report) => Then(r, g).mark = Len(Then(r, g).report)
<1>1. CASE g
  BY <1>1 DEF Then, Well, Run, Alike, Told
<1>2. CASE ~g
  BY <1>2, OnRun DEF Then
<1>. QED  BY <1>1, <1>2

LEMMA SkipRun ==
  ASSUME Well(run), NEW r, Well(r), NEW i \in Ids, run.mark = r.mark, run.next <= Len(Order)
  PROVE  LET s == On([run EXCEPT !.report = ReplaceSince(r.report, run.mark, <<"skipped", i>>)])
         IN /\ Well(s) /\ Alike(s, run) /\ s.pc = "note" /\ s.mark = Len(s.report)
            /\ s.snap = run.snap
            /\ Told(s) = FirstOf(r.report, run.mark) \cup {<<"skipped", i>>}
<1>. DEFINE head == SubSeq(r.report, 1, run.mark)
            report == ReplaceSince(r.report, run.mark, <<"skipped", i>>)
            s == [run EXCEPT !.report = report]
<1>1. /\ r.report \in Seq(Kinds \X Ids) /\ run.mark \in Nat /\ run.mark <= Len(r.report)
      /\ Len(r.report) \in Nat /\ <<"skipped", i>> \in Kinds \X Ids
  BY DEF Well, Run, Kinds
<1>2. \A k \in 1..run.mark : r.report[k] \in Kinds \X Ids
  BY <1>1
<1>3. /\ head \in Seq(Kinds \X Ids) /\ Len(head) = run.mark
      /\ \A k \in 1..run.mark : head[k] = r.report[k]
  <2>1. /\ head \in Seq(Kinds \X Ids) /\ Len(head) = (IF 1 <= run.mark THEN run.mark - 1 + 1 ELSE 0)
        /\ \A k \in 1..(run.mark - 1 + 1) : head[k] = r.report[1 + k - 1]
    BY <1>1, <1>2, SubSeqProperties
  <2>. HIDE DEF head
  <2>2. run.mark - 1 + 1 = run.mark /\ \A k \in 1..run.mark : 1 + k - 1 = k
    BY <1>1
  <2>. QED  BY <1>1, <2>1, <2>2
<1>. HIDE DEF head
<1>4. report = Append(head, <<"skipped", i>>)
  BY DEF ReplaceSince, head
<1>5. /\ report \in Seq(Kinds \X Ids) /\ Len(report) = run.mark + 1
      /\ \A k \in 1..run.mark : report[k] = r.report[k]
      /\ report[run.mark + 1] = <<"skipped", i>>
  <2>. DEFINE S == Kinds \X Ids
            e == <<"skipped", i>>
  <2>1. head \in Seq(S) /\ e \in S /\ Len(head) = run.mark /\ report = Append(head, e)
    BY <1>1, <1>3, <1>4
  <2>. HIDE DEF S, e, report
  <2>2. /\ report \in Seq(S) /\ Len(report) = run.mark + 1
        /\ \A k \in 1..run.mark : report[k] = head[k]
        /\ report[run.mark + 1] = e
    BY <1>1, <2>1
  <2>. QED  BY <1>3, <2>2 DEF S, e
<1>. HIDE DEF report
<1>6. Entries(report)
        = FirstOf(r.report, run.mark) \cup {<<"skipped", i>>}
  <2>1. \A k \in 1..Len(report) : k \in 1..run.mark \/ k = run.mark + 1
    BY <1>1, <1>5
  <2>2. \A k \in 1..run.mark : k \in 1..Len(report)
    BY <1>1, <1>5
  <2>3. run.mark + 1 \in 1..Len(report)
    BY <1>1, <1>5
  <2>. QED  BY <1>5, <2>1, <2>2, <2>3 DEF Entries, FirstOf
<1>7. s \in Run /\ s.report = report /\ s.mark = run.mark /\ s.next = run.next
      /\ s.snap = run.snap /\ Alike(s, run)
  BY <1>5 DEF Well, Run, Alike
<1>8. Well(s)
  BY <1>1, <1>5, <1>7 DEF Well
<1>9. Told(s) = FirstOf(r.report, run.mark) \cup {<<"skipped", i>>}
  BY <1>6, <1>7 DEF Told
<1>. HIDE DEF s
<1>10. /\ Well(On(s)) /\ Alike(On(s), s) /\ On(s).snap = s.snap /\ Told(On(s)) = Told(s)
       /\ On(s).pc = "note" /\ On(s).mark = Len(On(s).report)
  BY <1>7, <1>8, OnRun
<1>11. Alike(On(s), run)
  BY <1>7, <1>10 DEF Alike
<1>. QED  BY <1>7, <1>9, <1>10, <1>11 DEF s, report

LEMMA AbortRun ==
  ASSUME Well(run), Abort
  PROVE  /\ Well(run') /\ Alike(run', run) /\ run'.pc = "idle" /\ run'.snap = run.snap
         /\ Told(run') = {} /\ landed' = {} /\ settled' = settled
<1>1. <<>> \in Seq(Kinds \X Ids) /\ Len(<<>>) = 0
  BY EmptySeq
<1>2. /\ run'.report = <<>> /\ run'.mark = 0 /\ run'.pc = "idle" /\ run'.snap = run.snap
      /\ Alike(run', run) /\ run' \in Run
  BY <1>1 DEF Well, Run, Abort, Alike
<1>3. Told(run') = {} /\ Well(run')
  BY <1>1, <1>2 DEF Told, Entries, Well
<1>. QED  BY <1>2, <1>3 DEF Abort

-----------------------------------------------------------------------------
(* The invariants.                                                         *)

(* A stability that some run has written is as earned.                     *)
Rooted == \A i \in Ids : Earned(live[i]) /\ Earned(shelf[i]) /\ Earned(run.snap[i])

Contested == run.ask.falsify \cup run.ask.dispute

(* A run has a request, and turns to a note's graduation only after it has *)
(* assessed it.                                                            *)
Going ==
  run.pc # "idle" =>
    /\ run.ask # None
    /\ run.pc = "graduate" =>
         /\ run.next <= Len(Order) /\ Current \notin Contested
         /\ run.snap[Current] # None /\ run.snap[Current].stability > 0

(* The confidence is that of the note's age, which has not faded.          *)
Aged(m) == Frozen(m) \/ Timed(m, Elapsed(m.anchor, run.at))

(* Why a note that may be old is still under notes/.                       *)
Sheltered(i, m) ==
  \/ i \in run.ask.reinforce \/ Frozen(m) \/ run.at - m.updated <= AncientAfter
  \/ Shields(m, i \in run.cited, run.at)

Done(i, m) == m.stability > 0 /\ Aged(m) /\ Sheltered(i, m)

Decided ==
  /\ run.ask = None => settled = {} /\ run.pc = "idle"
  /\ run.ask # None =>
       /\ settled \cap Contested = {}
       /\ \A i \in settled : live[i] # None => Done(i, live[i])

(* The report so far is what was done, and ends where the next note's      *)
(* actions start.                                                          *)
Reporting == ReportIsTrue /\ (run.pc # "idle" /\ ~run.ask.dry => run.mark = Len(run.report))

-----------------------------------------------------------------------------
(* What a step of a run can do.                                            *)

(* The report is kept true.                                                *)
Reports ==
  ~run.ask.dry /\ run.mark = Len(run.report) /\ Told(run) \ Skipped = landed =>
    /\ Told(run') \ Skipped = landed'
    /\ run'.pc # "idle" => run'.mark = Len(run'.report)

(* The run goes on, or ends, and nothing was written.                      *)
Rests ==
  /\ Well(run') /\ Alike(run', run) /\ run'.snap = run.snap /\ run'.pc # "graduate"
  /\ run.pc # "idle" /\ Reports
  /\ budget' \in Bounds /\ landed' \subseteq Kinds \X Ids
  /\ UNCHANGED <<live, shelf, now, settled>>

(* What is staged for note i.                                              *)
Draft(i, m) ==
  /\ run.pc # "idle" /\ run.next <= Len(Order) /\ Current = i
  /\ run.snap[i] # None
  /\ m \in Note /\ Earned(m) /\ m.updated = run.snap[i].updated

(* What may replace a file under notes/.                                   *)
Proper(i, m) ==
  /\ i \notin Contested => Done(i, m)
  /\ Frozen(run.snap[i]) /\ i \notin run.ask.falsify => m.conf = run.snap[i].conf

(* The staged note reaches one of its places, or both, or none.            *)
Works(i, m) ==
  /\ Well(run') /\ Alike(run', run)
  /\ run'.snap \in {run.snap, [run.snap EXCEPT ![i] = m]}
  /\ \/ live' = live /\ shelf' \in {shelf, [shelf EXCEPT ![i] = m]}
     \/ /\ live' = [live EXCEPT ![i] = m] /\ shelf' = shelf
        /\ ~ChangedDuringRun(i) /\ Proper(i, m)
     \/ /\ live' = [live EXCEPT ![i] = None] /\ shelf' = [shelf EXCEPT ![i] = m]
        /\ ~ChangedDuringRun(i) /\ ~Frozen(run.snap[i])
  /\ \/ settled' = settled
     \/ /\ settled' = settled \cup {i} /\ i \notin Contested
        /\ live'[i] # None => Done(i, live'[i])
  /\ run'.pc = "graduate" =>
       run'.next = run.next /\ run'.snap[i] = m /\ m.stability > 0 /\ i \notin Contested
  /\ Reports
  /\ budget' \in Bounds /\ landed' \subseteq Kinds \X Ids
  /\ UNCHANGED now

LEMMA TypeRun == TypeOK => Well(run)
BY DEF TypeOK, Well

LEMMA SpendFault == budget \in Bounds /\ Fault => budget' \in Bounds
BY DEF Bounds, Fault

LEMMA DeedsApart ==
  ASSUME NEW i \in Ids, NEW lines \in Seq(Deeds)
  PROVE  Of(lines, i) \subseteq Kinds \X Ids /\ Of(lines, i) \cap Skipped = {}
<1>1. \A k \in 1..Len(lines) : lines[k] \in Deeds
  OBVIOUS
<1>. QED  BY <1>1 DEF Of, Skipped, Deeds

LEMMA AbortReports ==
  ASSUME Well(run), Abort
  PROVE  Reports
BY AbortRun DEF Reports

LEMMA SkipReports ==
  ASSUME Well(run), NEW i \in Ids, NEW m \in Note, NEW lines \in Seq(Deeds),
         run.next <= Len(Order), Skip(i, Staged(i, m, lines))
  PROVE  /\ Well(run') /\ Alike(run', run) /\ run'.pc = "note"
         /\ run'.snap = run.snap /\ Reports
<1>. DEFINE r == Staged(i, m, lines)
<1>1. /\ Well(r) /\ Alike(r, run) /\ r.next = run.next /\ r.mark = run.mark
      /\ r.snap = [run.snap EXCEPT ![i] = m]
  BY StagedRun
<1>2. r.report = run.report \o [k \in 1..Len(lines) |-> <<lines[k], i>>]
  BY DEF Staged, Well, Run
<1>. HIDE DEF r
<1>3. /\ Well(run') /\ Alike(run', run) /\ run'.pc = "note" /\ run'.mark = Len(run'.report)
      /\ run'.snap = run.snap
      /\ Told(run') = FirstOf(r.report, run.mark) \cup {<<"skipped", i>>}
  <2>1. run' = On([run EXCEPT !.report = ReplaceSince(r.report, run.mark, <<"skipped", i>>)])
    BY DEF Skip, r
  <2>2. run.mark = r.mark /\ run.next <= Len(Order)
    BY <1>1
  <2>. QED  BY <1>1, <2>1, <2>2, SkipRun
<1>4. ASSUME run.mark = Len(run.report)
      PROVE  Told(run') = Told(run) \cup {<<"skipped", i>>}
  <2>. DEFINE t == [k \in 1..Len(lines) |-> <<lines[k], i>>]
              S == Kinds \X Ids
  <2>1. t \in Seq(S)
    <3>1. Len(lines) \in Nat /\ \A k \in 1..Len(lines) : lines[k] \in Kinds
      BY DEF Deeds
    <3>2. t \in [1..Len(lines) -> S]
      BY <3>1
    <3>. QED  BY <3>1, <3>2, SeqDef
  <2>2. run.report \in Seq(S) /\ Len(run.report) \in Nat
    BY DEF Well, Run
  <2>. HIDE DEF t, S
  <2>3. Len(t) \in Nat
    BY <2>1
  <2>4. \A k \in 1..Len(run.report) : (run.report \o t)[k] = run.report[k]
    BY <2>1, <2>2, <2>3, ConcatProperties
  <2>5. \A k \in 1..run.mark : r.report[k] = run.report[k]
    BY <1>2, <1>4, <2>4 DEF t
  <2>6. FirstOf(r.report, run.mark) = Told(run)
    BY <1>4, <2>5 DEF Told, Entries, FirstOf
  <2>. QED  BY <1>3, <2>6
<1>5. Reports
  BY <1>3, <1>4 DEF Reports, Skipped, Skip
<1>. QED  BY <1>1, <1>3, <1>5 DEF Alike

LEMMA LandReports ==
  ASSUME Well(run), NEW i \in Ids, NEW m \in Note, NEW lines \in Seq(Deeds), NEW g \in BOOLEAN,
         run.next <= Len(Order), run' = Then(Marked(Staged(i, m, lines)), g), Land(i, lines)
  PROVE  /\ Well(run') /\ Alike(run', run)
         /\ run'.snap = [run.snap EXCEPT ![i] = m]
         /\ run'.pc = (IF g THEN "graduate" ELSE "note") /\ (g => run'.next = run.next)
         /\ Reports
<1>. DEFINE r == Staged(i, m, lines)
<1>1. /\ Well(r) /\ Alike(r, run) /\ r.next = run.next
      /\ r.snap = [run.snap EXCEPT ![i] = m] /\ Told(r) = Told(run) \cup Of(lines, i)
  BY StagedRun
<1>. HIDE DEF r
<1>. DEFINE q == Marked(r)
<1>2. /\ Well(q) /\ Alike(q, r) /\ q.snap = r.snap /\ Told(q) = Told(r) /\ q.next = r.next
      /\ q.mark = Len(q.report)
  BY <1>1, MarkedRun
<1>. HIDE DEF q
<1>3. /\ Well(run') /\ Alike(run', q) /\ run'.snap = q.snap /\ Told(run') = Told(q)
      /\ run'.pc = (IF g THEN "graduate" ELSE "note") /\ (g => run'.next = q.next)
      /\ run'.mark = Len(run'.report)
  BY <1>1, <1>2, ThenRun DEF q, r
<1>4. landed' = landed \cup Of(lines, i)
  BY DEF Land, Of
<1>5. Told(run') = Told(run) \cup Of(lines, i) /\ Of(lines, i) \cap Skipped = {}
  BY <1>1, <1>2, <1>3, DeedsApart
<1>6. Reports
  BY <1>3, <1>4, <1>5 DEF Reports
<1>. QED  BY <1>1, <1>2, <1>3, <1>6 DEF Alike

(* A rewrite is such a step.                                               *)
LEMMA RewriteWorks ==
  ASSUME TypeOK, NEW i \in Ids, NEW m, NEW lines \in Seq(Deeds), NEW g \in BOOLEAN,
         Draft(i, m), Proper(i, m), g => m.stability > 0 /\ i \notin Contested,
         Rewrite(i, m, lines, g), UNCHANGED now
  PROVE  Works(i, m)
<1>. DEFINE r == Staged(i, m, lines)
<1>1. Well(run) /\ budget \in Bounds /\ landed \subseteq Kinds \X Ids /\ m \in Note
      /\ run.next <= Len(Order) /\ live \in [Ids -> Note \cup {None}]
  BY TypeRun DEF TypeOK, Draft
<1>2. run.snap \in [Ids -> Note \cup {None}]
  BY <1>1 DEF Well, Run
<1>3. /\ Well(r) /\ Alike(r, run) /\ r.next = run.next
      /\ r.snap = [run.snap EXCEPT ![i] = m]
  BY <1>1, StagedRun
<1>. HIDE DEF r
<1>4. CASE run.ask.dry /\ run' = Then(r, g) /\ UNCHANGED <<live, shelf, landed, settled, budget>>
  <2>1. /\ Well(run') /\ Alike(run', r) /\ run'.snap = r.snap
        /\ run'.pc = (IF g THEN "graduate" ELSE "note") /\ (g => run'.next = r.next)
    BY <1>1, <1>3, <1>4, ThenRun
  <2>2. Alike(run', run) /\ Reports
    BY <1>3, <1>4, <2>1 DEF Alike, Reports
  <2>3. run'.snap[i] = m
    BY <1>2, <1>3, <2>1
  <2>. QED  BY <1>1, <1>3, <1>4, <2>1, <2>2, <2>3 DEF Works
<1>5. CASE Skip(i, r) /\ UNCHANGED budget
  <2>1. /\ Well(run') /\ Alike(run', run) /\ run'.pc = "note"
        /\ run'.snap = run.snap /\ Reports
    BY <1>1, <1>5, SkipReports DEF r
  <2>. QED  BY <1>1, <1>5, <2>1 DEF Works, Skip
<1>6. CASE /\ ~ChangedDuringRun(i) /\ live' = [live EXCEPT ![i] = m] /\ UNCHANGED shelf
           /\ run' = Then(Marked(r), g) /\ Land(i, lines) /\ UNCHANGED budget
  <2>1. /\ Well(run') /\ Alike(run', run)
        /\ run'.snap = [run.snap EXCEPT ![i] = m]
        /\ run'.pc = (IF g THEN "graduate" ELSE "note") /\ (g => run'.next = run.next)
        /\ Reports
    BY <1>1, <1>6, LandReports DEF r
  <2>2. landed' \subseteq Kinds \X Ids
    BY <1>1, <1>6, DeedsApart DEF Land, Of
  <2>3. run'.snap[i] = m /\ live'[i] = m
    BY <1>1, <1>2, <1>6, <2>1
  <2>4. \/ settled' = settled
        \/ settled' = settled \cup {i} /\ i \notin Contested
    <3>1. settled' = IF i \in Contested THEN settled ELSE settled \cup {i}
      BY <1>6 DEF Land, Contested
    <3>. HIDE DEF Contested
    <3>. QED  BY <3>1
  <2>5. i \notin Contested => Done(i, live'[i])
    BY <2>3 DEF Proper
  <2>6. run'.pc = "graduate" => run'.next = run.next /\ m.stability > 0 /\ i \notin Contested
    BY <2>1
  <2>. QED  BY <1>1, <1>6, <2>1, <2>2, <2>3, <2>4, <2>5, <2>6 DEF Works
<1>7. CASE /\ ~ChangedDuringRun(i) /\ live' = [live EXCEPT ![i] = m] /\ UNCHANGED shelf
           /\ Fault /\ Abort
  <2>1. /\ Well(run') /\ Alike(run', run) /\ run'.pc = "idle" /\ run'.snap = run.snap
        /\ landed' = {} /\ settled' = settled /\ Reports
    BY <1>1, <1>7, AbortRun, AbortReports
  <2>. QED  BY <1>1, <1>7, <2>1, SpendFault DEF Works
<1>. QED
  BY <1>4, <1>5, <1>6, <1>7 DEF Rewrite, r

(* So is a move.                                                           *)
LEMMA MoveWorks ==
  ASSUME TypeOK, NEW i \in Ids, NEW m, NEW lines \in Seq(Deeds),
         Draft(i, m), ~Frozen(run.snap[i]), i \notin Contested,
         Move(i, m, lines), UNCHANGED now
  PROVE  Works(i, m)
<1>. DEFINE r == Staged(i, m, lines)
<1>1. Well(run) /\ budget \in Bounds /\ landed \subseteq Kinds \X Ids /\ m \in Note
      /\ run.next <= Len(Order) /\ live \in [Ids -> Note \cup {None}]
  BY TypeRun DEF TypeOK, Draft
<1>2. /\ Well(r) /\ Alike(r, run) /\ r.next = run.next
      /\ r.snap = [run.snap EXCEPT ![i] = m]
  BY <1>1, StagedRun
<1>. HIDE DEF r
<1>3. CASE run.ask.dry /\ run' = On(r) /\ UNCHANGED <<live, shelf, landed, settled, budget>>
  <2>1. /\ Well(run') /\ Alike(run', r) /\ run'.snap = r.snap /\ run'.pc = "note"
    BY <1>1, <1>2, <1>3, OnRun
  <2>2. Alike(run', run) /\ Reports
    BY <1>2, <1>3, <2>1 DEF Alike, Reports
  <2>. QED  BY <1>1, <1>2, <1>3, <2>1, <2>2 DEF Works
<1>4. CASE Abort /\ UNCHANGED <<live, budget>> /\ shelf' \in {shelf, [shelf EXCEPT ![i] = m]}
  <2>1. /\ Well(run') /\ Alike(run', run) /\ run'.pc = "idle" /\ run'.snap = run.snap
        /\ landed' = {} /\ settled' = settled /\ Reports
    BY <1>1, <1>4, AbortRun, AbortReports
  <2>. QED  BY <1>1, <1>4, <2>1 DEF Works
<1>5. CASE Skip(i, r) /\ UNCHANGED budget
  <2>1. /\ Well(run') /\ Alike(run', run) /\ run'.pc = "note"
        /\ run'.snap = run.snap /\ Reports
    BY <1>1, <1>5, SkipReports DEF r
  <2>. QED  BY <1>1, <1>5, <2>1 DEF Works, Skip
<1>6. CASE /\ ~ChangedDuringRun(i) /\ shelf' = [shelf EXCEPT ![i] = m]
           /\ live' = [live EXCEPT ![i] = None]
           /\ run' = On(Marked(r)) /\ Land(i, lines) /\ UNCHANGED budget
  <2>1. run' = Then(Marked(r), FALSE)
    BY <1>6 DEF Then
  <2>2. /\ Well(run') /\ Alike(run', run)
        /\ run'.snap = [run.snap EXCEPT ![i] = m] /\ run'.pc = "note" /\ Reports
    BY <1>1, <1>6, <2>1, LandReports DEF r
  <2>3. landed' \subseteq Kinds \X Ids
    BY <1>1, <1>6, DeedsApart DEF Land, Of
  <2>4. live'[i] = None
    BY <1>1, <1>6
  <2>5. settled' = settled \cup {i}
    BY <1>6 DEF Land, Contested
  <2>. QED  BY <1>1, <1>6, <2>2, <2>3, <2>4, <2>5 DEF Works
<1>7. CASE shelf' = [shelf EXCEPT ![i] = m] /\ Fault /\ Abort /\ UNCHANGED live
  <2>1. /\ Well(run') /\ Alike(run', run) /\ run'.pc = "idle" /\ run'.snap = run.snap
        /\ landed' = {} /\ settled' = settled /\ Reports
    BY <1>1, <1>7, AbortRun, AbortReports
  <2>. QED  BY <1>1, <1>7, <2>1, SpendFault DEF Works
<1>. QED
  BY <1>3, <1>4, <1>5, <1>6, <1>7 DEF Move, r

(* What an assessment stages may replace the note.                         *)
LEMMA AssessedProper ==
  ASSUME TypeOK, Rooted, NEW i \in Ids, Deciding(i), Decays(i)
  PROVE  LET n     == run.snap[i]
             again == i \in run.ask.reinforce
             cited == i \in run.cited
             m     == Assessed(n, again, run.at)
         IN /\ Draft(i, m)
            /\ Draft(i, [m EXCEPT !.status = "faded"])
            /\ Draft(i, [m EXCEPT !.status = "archived"])
            /\ ~WillFade(n, again, cited, run.at) /\ ~WillArchive(n, again, cited, run.at)
                 => Done(i, m) /\ Proper(i, m)
<1>. DEFINE n == run.snap[i]
            again == i \in run.ask.reinforce
            m == Assessed(n, again, run.at)
            cited == i \in run.cited
<1>1. n \in Note /\ n # None /\ Earned(n) /\ run.at \in Hours /\ run.at \in Nat
      /\ run.next <= Len(Order) /\ run.pc # "idle" /\ Current = i
  BY LifecycleAssumption DEF TypeOK, Run, Rooted, Decays, Deciding
<1>2. n.anchor \in Nat /\ n.updated \in Nat
  BY <1>1, LifecycleAssumption DEF Note
<1>. HIDE DEF n
<1>3. /\ m \in Note /\ m.stability >= FreshStability
      /\ m.anchor = (IF again THEN run.at ELSE n.anchor)
      /\ m.updated = n.updated
      /\ Frozen(m) <=> Frozen(n)
      /\ Frozen(n) => m.conf = n.conf
      /\ AsEarned(m.stability, m.count, m.maturity)
  <2>1. again \in BOOLEAN
    OBVIOUS
  <2>. HIDE DEF again
  <2>2. ASSUME NEW x \in Note, Earned(x), NEW b \in BOOLEAN, NEW at \in Hours
        PROVE  LET y == Assessed(x, b, at)
               IN /\ y \in Note /\ y.stability >= FreshStability
                  /\ y.anchor = (IF b THEN at ELSE x.anchor)
                  /\ y.updated = x.updated
                  /\ Frozen(y) <=> Frozen(x)
                  /\ Frozen(x) => y.conf = x.conf
                  /\ AsEarned(y.stability, y.count, y.maturity)
    BY <2>2, AssessedTyped
  <2>. QED  BY <1>1, <2>1, <2>2
<1>. HIDE DEF m
<1>4. m.stability \in Nat /\ m.stability >= 1400 /\ m # None
  BY <1>3, LifecycleAssumption DEF Note, FreshStability
<1>5. ASSUME NEW s \in {"faded", "archived"}
      PROVE  LET q == [m EXCEPT !.status = s]
             IN /\ q \in Note /\ q.updated = m.updated /\ q.stability = m.stability
                /\ q.count = m.count /\ q.maturity = m.maturity
  BY <1>3 DEF Note, Statuses
<1>6. ASSUME NEW q \in Note, q.updated = m.updated, q.stability = m.stability,
             q.count = m.count, q.maturity = m.maturity
      PROVE  Draft(i, q)
  BY <1>1, <1>3, <1>4, <1>6 DEF Draft, Earned, n
<1>7. ASSUME ~WillFade(n, again, cited, run.at), ~WillArchive(n, again, cited, run.at)
      PROVE  Done(i, m) /\ Proper(i, m)
  <2>1. Aged(m)
    <3>1. SUFFICES ASSUME ~Frozen(n) PROVE Timed(m, Elapsed(m.anchor, run.at))
      BY <1>3 DEF Aged
    <3>2. again \in BOOLEAN
      OBVIOUS
    <3>. HIDE DEF again, cited
    <3>. QED  BY <1>1, <1>7, <3>1, <3>2, AssessedTimed DEF m
  <2>2. Sheltered(i, m)
    <3>1. CASE again \/ Frozen(n) \/ ~(run.at - n.updated > AncientAfter)
      <4>1. ~(run.at - n.updated > AncientAfter) => run.at - m.updated <= AncientAfter
        BY <1>1, <1>2, <1>3 DEF AncientAfter
      <4>. QED  BY <1>3, <3>1, <4>1 DEF Sheltered
    <3>2. CASE ~again /\ Shields(n, cited, run.at)
      BY <1>3, <3>2 DEF Sheltered, Shields
    <3>. QED  BY <1>7, <3>1, <3>2 DEF WillArchive
  <2>3. Done(i, m)
    BY <1>4, <2>1, <2>2 DEF Done
  <2>. QED  BY <1>3, <2>3 DEF Proper, n
<1>8. Draft(i, m) /\ Draft(i, [m EXCEPT !.status = "faded"])
      /\ Draft(i, [m EXCEPT !.status = "archived"])
  <2>1. ASSUME NEW s \in {"faded", "archived"} PROVE Draft(i, [m EXCEPT !.status = s])
    BY <1>5, <1>6
  <2>. QED  BY <1>3, <1>6, <2>1
<1>. QED  BY <1>7, <1>8 DEF m, n

Worked(i) == \E m \in Note : Draft(i, m) /\ Works(i, m)

LEMMA GoesOn == TypeOK /\ Going /\ run.pc # "idle" => run.ask \in Request
BY LifecycleAssumption DEF TypeOK, Run, Going

LEMMA HaltsRests ==
  ASSUME TypeOK, run.pc # "idle", Abort, UNCHANGED <<live, shelf, now>>,
         budget' = budget \/ Fault
  PROVE  Rests
<1>1. Well(run) /\ budget \in Bounds
  BY TypeRun DEF TypeOK
<1>2. /\ Well(run') /\ Alike(run', run) /\ run'.pc = "idle" /\ run'.snap = run.snap
      /\ landed' = {} /\ settled' = settled /\ Reports
  BY <1>1, AbortRun, AbortReports
<1>. QED  BY <1>1, <1>2, SpendFault DEF Rests

LEMMA FinishRests == TypeOK /\ Finish => Rests
<1>. SUFFICES ASSUME TypeOK, Finish PROVE Rests
  OBVIOUS
<1>1. CASE run' = [run EXCEPT !.pc = "idle"] /\ UNCHANGED <<landed, settled, budget>>
  <2>1. /\ Well(run') /\ Alike(run', run) /\ run'.pc = "idle" /\ run'.snap = run.snap
        /\ Told(run') = Told(run)
    BY <1>1, TypeRun DEF Well, Run, Alike, Told
  <2>2. Reports
    BY <1>1, <2>1 DEF Reports
  <2>. QED  BY <1>1, <2>1, <2>2 DEF Rests, Finish, TypeOK
<1>2. CASE Fault /\ Abort
  BY <1>2, HaltsRests DEF Finish
<1>. QED  BY <1>1, <1>2 DEF Finish

LEMMA PassOverRests ==
  ASSUME TypeOK, NEW i \in Ids, PassOver(i)
  PROVE  Rests
<1>1. Well(run) /\ run.next <= Len(Order) /\ run.pc = "note" /\ run' = On(run)
  BY TypeRun DEF PassOver, Deciding
<1>2. /\ Well(run') /\ Alike(run', run) /\ run'.snap = run.snap /\ Told(run') = Told(run)
      /\ run'.pc = "note" /\ run'.mark = Len(run'.report)
  BY <1>1, OnRun
<1>3. Reports
  BY <1>2 DEF Reports, PassOver
<1>. QED  BY <1>1, <1>2, <1>3 DEF Rests, PassOver, Deciding, TypeOK

LEMMA ContestWorks ==
  ASSUME TypeOK, Rooted, Going, NEW i \in Ids, Contest(i)
  PROVE  Rests \/ Worked(i)
<1>. DEFINE n == run.snap[i]
            status == IF i \in run.ask.falsify THEN "falsified" ELSE "disputed"
            m == [n EXCEPT !.status = status]
<1>1. n \in Note /\ n # None /\ Earned(n) /\ run.next <= Len(Order) /\ run.pc # "idle" /\ Current = i
  BY DEF Contest, TypeOK, Run, Rooted, Decays, Deciding
<1>2. i \in Contested /\ UNCHANGED now
  BY DEF Contest, Contested, Deciding
<1>3. CASE ~run.ask.reasons
  BY <1>1, <1>2, <1>3, HaltsRests DEF Contest
<1>4. CASE run.ask.reasons
  <2>1. Rewrite(i, m, <<status>>, FALSE)
    BY <1>4 DEF Contest
  <2>2. <<status>> \in Seq(Deeds)
    <3>1. status \in Deeds
      BY DEF Deeds, Kinds
    <3>. QED  BY <3>1
  <2>3. status \in Statuses
    BY DEF Statuses
  <2>. HIDE DEF status
  <2>4. m \in Note /\ m.updated = n.updated /\ m.stability = n.stability /\ m.conf = n.conf
        /\ m.count = n.count /\ m.maturity = n.maturity
    BY <1>1, <2>3 DEF Note
  <2>. HIDE DEF m
  <2>5. Draft(i, m) /\ Proper(i, m)
    BY <1>1, <1>2, <2>4 DEF Draft, Proper, Earned
  <2>6. Works(i, m)
    BY <1>2, <2>1, <2>2, <2>5, RewriteWorks
  <2>. QED  BY <2>4, <2>5, <2>6 DEF Worked
<1>. QED  BY <1>3, <1>4

LEMMA GraduateWorks ==
  ASSUME TypeOK, Rooted, Going, NEW i \in Ids, Graduate(i)
  PROVE  Rests \/ Worked(i)
<1>. DEFINE n == run.snap[i]
            m == [n EXCEPT !.graduated = TRUE]
<1>1. /\ run.pc = "graduate" /\ Current = i /\ run.next <= Len(Order) /\ i \notin Contested
      /\ n # None /\ n.stability > 0 /\ n \in Note /\ Earned(n) /\ UNCHANGED now
  BY DEF Graduate, Going, TypeOK, Run, Rooted
<1>2. CASE Abort /\ UNCHANGED <<live, shelf, budget>>
  BY <1>1, <1>2, HaltsRests
<1>3. CASE Rewrite(i, m, <<"graduated">>, FALSE)
  <2>1. <<"graduated">> \in Seq(Deeds)
    <3>1. "graduated" \in Deeds
      BY DEF Deeds, Kinds
    <3>. QED  BY <3>1
  <2>2. m \in Note /\ m.updated = n.updated /\ m.stability = n.stability /\ m.conf = n.conf
        /\ m.graduated /\ m.count = n.count /\ m.maturity = n.maturity
    BY <1>1 DEF Note
  <2>. HIDE DEF m
  <2>3. Draft(i, m)
    BY <1>1, <2>2 DEF Draft, Earned
  <2>4. Done(i, m) /\ Proper(i, m)
    BY <1>1, <2>2 DEF Done, Proper, Aged, Sheltered, Frozen
  <2>5. Works(i, m)
    BY <1>1, <1>3, <2>1, <2>3, <2>4, RewriteWorks DEF m
  <2>. QED  BY <2>2, <2>3, <2>5 DEF Worked
<1>. QED  BY <1>2, <1>3 DEF Graduate

LEMMA AssessWorks ==
  ASSUME TypeOK, Rooted, Going, NEW i \in Ids, Assess(i)
  PROVE  Rests \/ Worked(i)
<1>. DEFINE n       == run.snap[i]
            again   == i \in run.ask.reinforce
            cited   == i \in run.cited
            m       == Assessed(n, again, run.at)
            lines   == Lines(n, again, run.at)
            further == i \in run.ask.graduate
<1>1. /\ Deciding(i) /\ Decays(i) /\ i \notin Contested /\ run.pc = "note"
      /\ run.next <= Len(Order) /\ UNCHANGED now
  BY DEF Assess, Contested, Deciding
<1>2. /\ Draft(i, m)
      /\ Draft(i, [m EXCEPT !.status = "faded"])
      /\ Draft(i, [m EXCEPT !.status = "archived"])
      /\ ~WillFade(n, again, cited, run.at) /\ ~WillArchive(n, again, cited, run.at)
           => Done(i, m) /\ Proper(i, m)
  BY <1>1, AssessedProper
<1>3. lines \in Seq(Deeds) /\ Append(lines, "archived-faded") \in Seq(Deeds)
      /\ Append(lines, "archived-ancient") \in Seq(Deeds)
  <2>1. lines \in Seq(Deeds) /\ "archived-faded" \in Deeds /\ "archived-ancient" \in Deeds
    BY LinesTyped DEF Deeds, Kinds
  <2>. HIDE DEF lines
  <2>. QED  BY <2>1
<1>4. again \in BOOLEAN /\ further \in BOOLEAN
  OBVIOUS
<1>5. CASE WillFade(n, again, cited, run.at)
  <2>1. Move(i, [m EXCEPT !.status = "faded"], Append(lines, "archived-faded"))
    BY <1>5 DEF Assess
  <2>2. ~Frozen(n)
    BY <1>5 DEF WillFade
  <2>. HIDE DEF m, lines
  <2>3. Works(i, [m EXCEPT !.status = "faded"])
    BY <1>1, <1>2, <1>3, <2>1, <2>2, MoveWorks
  <2>. QED  BY <1>2, <2>3 DEF Worked, Draft
<1>6. CASE ~WillFade(n, again, cited, run.at) /\ WillArchive(n, again, cited, run.at)
  <2>1. Move(i, [m EXCEPT !.status = "archived"], Append(lines, "archived-ancient"))
    BY <1>6 DEF Assess
  <2>2. ~Frozen(n)
    BY <1>6 DEF WillArchive
  <2>. HIDE DEF m, lines
  <2>3. Works(i, [m EXCEPT !.status = "archived"])
    BY <1>1, <1>2, <1>3, <2>1, <2>2, MoveWorks
  <2>. QED  BY <1>2, <2>3 DEF Worked, Draft
<1>7. CASE ~WillFade(n, again, cited, run.at) /\ ~WillArchive(n, again, cited, run.at)
  <2>1. Done(i, m) /\ Proper(i, m)
    BY <1>2, <1>7
  <2>2. CASE Changed(n, again, run.at)
    <3>1. Rewrite(i, m, lines, further)
      BY <1>7, <2>2 DEF Assess
    <3>2. m.stability > 0
      BY <2>1 DEF Done
    <3>. HIDE DEF m, lines, further
    <3>3. Works(i, m)
      BY <1>1, <1>2, <1>3, <1>4, <2>1, <3>1, <3>2, RewriteWorks
    <3>. QED  BY <1>2, <3>3 DEF Worked, Draft
  <2>3. CASE ~Changed(n, again, run.at)
    <3>1. /\ run' = Then(run, further)
          /\ settled' = IF live[i] = n /\ ~run.ask.dry THEN settled \cup {i} ELSE settled
          /\ UNCHANGED <<live, shelf, landed, budget>>
      BY <1>7, <2>3 DEF Assess
    <3>2. m = n
      BY <2>3 DEF Changed
    <3>3. /\ Well(run') /\ Alike(run', run) /\ run'.snap = run.snap /\ Told(run') = Told(run)
          /\ run'.pc = "graduate" => run'.next = run.next
          /\ run.mark = Len(run.report) => run'.mark = Len(run'.report)
      BY <1>1, <1>4, <3>1, TypeRun, ThenRun
    <3>4. Reports
      BY <3>1, <3>3 DEF Reports
    <3>5. m.stability > 0
      BY <2>1 DEF Done
    <3>6. \/ settled' = settled
          \/ settled' = settled \cup {i} /\ live'[i] = m
      BY <3>1, <3>2
    <3>7. budget \in Bounds /\ landed \subseteq Kinds \X Ids
      BY DEF TypeOK
    <3>. HIDE DEF m
    <3>8. Works(i, m)
      BY <1>1, <2>1, <3>1, <3>2, <3>3, <3>4, <3>5, <3>6, <3>7 DEF Works
    <3>. QED  BY <1>2, <3>8 DEF Worked, Draft
  <2>. QED  BY <2>2, <2>3
<1>. QED  BY <1>5, <1>6, <1>7

(* Every step is one of these.                                             *)
LEMMA Steps ==
  ASSUME TypeOK, Rooted, Going, [Next]_vars
  PROVE  \/ Begin \/ Rests \/ Tick \/ UNCHANGED vars
         \/ \E i \in Ids : Edit(i) \/ Worked(i)
<1>1. CASE Begin \/ Tick \/ UNCHANGED vars \/ \E i \in Ids : Edit(i)
  BY <1>1
<1>2. CASE Finish
  BY <1>2, FinishRests
<1>3. CASE Crash
  BY <1>3, HaltsRests DEF Crash
<1>4. ASSUME NEW i \in Ids, PassOver(i) \/ Contest(i) \/ Assess(i) \/ Graduate(i)
      PROVE  Rests \/ Worked(i)
  BY <1>4, PassOverRests, ContestWorks, AssessWorks, GraduateWorks
<1>. QED  BY <1>1, <1>2, <1>3, <1>4 DEF Next, Compile

-----------------------------------------------------------------------------
(* Types.                                                                  *)

Standing == TypeOK /\ Rooted /\ Going

LEMMA InitStanding == Init => Standing
<1>. SUFFICES ASSUME Init PROVE Standing
  OBVIOUS
<1>1. live \in [Ids -> Note \cup {None}] /\ shelf \in [Ids -> Note \cup {None}]
  BY LifecycleAssumption DEF Init
<1>2. run \in Run /\ run.mark <= Len(run.report)
  <2>1. <<>> \in Seq(Kinds \X Ids) /\ Len(<<>>) = 0
    BY EmptySeq
  <2>2. 1 \in 1..(Len(Order) + 1) /\ 0 \in Hours /\ Len(Order) \in Nat
    BY LifecycleAssumption
  <2>. QED  BY <1>1, <2>1, <2>2 DEF Init, Run
<1>3. TypeOK
  BY <1>1, <1>2, LifecycleAssumption DEF Init, TypeOK
<1>4. Rooted
  BY StabilityAssumption DEF Init, Rooted, Earned
<1>. QED  BY <1>3, <1>4 DEF Standing, Going, Init

LEMMA BeginStanding == Standing /\ Begin => Standing'
<1>. SUFFICES ASSUME Standing, Begin PROVE Standing'
  OBVIOUS
<1>1. PICK ask \in Requests :
        run' = [pc |-> "note", next |-> 1, at |-> now, snap |-> live,
                cited |-> RecentlyCited(now), ask |-> ask, report |-> <<>>, mark |-> 0]
  BY DEF Begin
<1>2. ask # None
  BY LifecycleAssumption
<1>3. run' \in Run /\ run'.mark <= Len(run'.report)
  <2>1. <<>> \in Seq(Kinds \X Ids) /\ Len(<<>>) = 0
    BY EmptySeq
  <2>2. 1 \in 1..(Len(Order) + 1) /\ RecentlyCited(now) \subseteq Ids
    BY LifecycleAssumption DEF RecentlyCited
  <2>. HIDE DEF RecentlyCited
  <2>. QED  BY <1>1, <2>1, <2>2 DEF Standing, TypeOK, Run
<1>4. budget' \in Bounds
  BY DEF Begin, Standing, TypeOK, Bounds
<1>5. TypeOK'
  BY <1>3, <1>4 DEF Begin, Standing, TypeOK
<1>6. Rooted' /\ Going'
  BY <1>1, <1>2 DEF Begin, Standing, Rooted, Going
<1>. QED  BY <1>5, <1>6 DEF Standing

LEMMA WorksStanding ==
  ASSUME Standing, NEW i \in Ids, NEW m \in Note, Draft(i, m), Works(i, m)
  PROVE  Standing'
<1>1. /\ live \in [Ids -> Note \cup {None}] /\ shelf \in [Ids -> Note \cup {None}]
      /\ run.snap \in [Ids -> Note \cup {None}]
      /\ now \in Hours /\ settled \subseteq Ids /\ run.pc # "idle" /\ run.ask # None
  BY DEF Standing, Going, TypeOK, Run, Draft
<1>2. /\ live' \in [Ids -> Note \cup {None}]
      /\ \A j \in Ids : live'[j] \in {live[j], m, None}
  BY <1>1 DEF Works
<1>3. /\ shelf' \in [Ids -> Note \cup {None}]
      /\ \A j \in Ids : shelf'[j] \in {shelf[j], m}
  BY <1>1 DEF Works
<1>4. \A j \in Ids : run'.snap[j] \in {run.snap[j], m}
  BY <1>1 DEF Works
<1>5. TypeOK'
  BY <1>1, <1>2, <1>3 DEF Works, Well, TypeOK
<1>6. Rooted'
  BY <1>2, <1>3, <1>4 DEF Standing, Rooted, Draft, Earned
<1>7. Going'
  <2>1. run'.ask # None /\ Contested' = Contested
    BY <1>1 DEF Works, Alike, Contested
  <2>2. CASE run'.pc # "graduate"
    BY <2>1, <2>2 DEF Going
  <2>3. CASE run'.pc = "graduate"
    <3>1. run'.next = run.next /\ run'.snap[i] = m /\ m.stability > 0 /\ i \notin Contested
      BY <2>3 DEF Works
    <3>2. Current' = i /\ run.next <= Len(Order) /\ m # None
      BY <3>1, LifecycleAssumption DEF Draft, Current
    <3>. HIDE DEF Current
    <3>. QED  BY <2>1, <3>1, <3>2 DEF Going
  <2>. QED  BY <2>2, <2>3
<1>. QED  BY <1>5, <1>6, <1>7 DEF Standing

LEMMA EditStanding ==
  ASSUME Standing, NEW i \in Ids, Edit(i)
  PROVE  /\ Standing'
         /\ \E n \in Note : /\ live' = [live EXCEPT ![i] = n] /\ n.updated = now
                            /\ n.conf = live[i].conf
<1>1. PICK status \in Statuses :
        live' = [live EXCEPT ![i].status = status, ![i].updated = now]
  BY DEF Edit, Standing, TypeOK, Note, Statuses
<1>. DEFINE n == [live[i] EXCEPT !.status = status, !.updated = now]
<1>2. live[i] \in Note /\ live[i] # None /\ now \in Hours
  BY DEF Edit, Standing, TypeOK
<1>3. n \in Note /\ n.updated = now /\ n.stability = live[i].stability /\ n.conf = live[i].conf
      /\ n.count = live[i].count /\ n.maturity = live[i].maturity
  BY <1>2 DEF Note
<1>4. live' = [live EXCEPT ![i] = n]
  BY <1>1, <1>2 DEF Standing, TypeOK
<1>. HIDE DEF n
<1>5. /\ live' \in [Ids -> Note \cup {None}]
      /\ \A j \in Ids : live'[j] = (IF j = i THEN n ELSE live[j])
  BY <1>3, <1>4 DEF Standing, TypeOK
<1>6. TypeOK'
  <2>1. budget' \in Bounds
    BY DEF Edit, Standing, TypeOK, Bounds
  <2>. QED  BY <1>5, <2>1 DEF Edit, Standing, TypeOK
<1>7. Rooted'
  <2>1. Earned(n)
    BY <1>2, <1>3 DEF Standing, Rooted, Earned
  <2>. QED  BY <1>5, <2>1 DEF Edit, Standing, Rooted
<1>8. Going'
  BY DEF Edit, Standing, Going, Current, Contested
<1>. QED  BY <1>3, <1>4, <1>6, <1>7, <1>8 DEF Standing

LEMMA StandingStep == Standing /\ [Next]_vars => Standing'
<1>. SUFFICES ASSUME Standing, [Next]_vars PROVE Standing'
  OBVIOUS
<1>1. CASE Begin
  BY <1>1, BeginStanding
<1>2. CASE Rests
  <2>1. TypeOK'
    BY <1>2 DEF Standing, TypeOK, Rests, Well
  <2>2. Rooted' /\ Going'
    BY <1>2 DEF Standing, Rooted, Going, Rests, Alike
  <2>. QED  BY <2>1, <2>2 DEF Standing
<1>3. CASE Tick
  BY <1>3 DEF Tick, Standing, TypeOK, Rooted, Going, Current, Contested
<1>4. CASE UNCHANGED vars
  BY <1>4 DEF vars, Standing, TypeOK, Rooted, Going, Current, Contested
<1>5. ASSUME NEW i \in Ids, Edit(i) PROVE Standing'
  BY <1>5, EditStanding
<1>6. ASSUME NEW i \in Ids, Worked(i) PROVE Standing'
  BY <1>6, WorksStanding DEF Worked
<1>. QED  BY <1>1, <1>2, <1>3, <1>4, <1>5, <1>6, Steps DEF Standing

LEMMA StandingCorrect == Spec => []Standing
BY InitStanding, StandingStep, PTL DEF Spec

(* Every file, what is staged, the report and its mark are of their types, *)
(* whatever is written, skipped, moved or cut short; the rounding of the   *)
(* confidence always has a result (lifecycle.go, round1).                  *)
THEOREM TypeCorrect == Spec => []TypeOK
BY StandingCorrect, PTL DEF Standing

(* However many runs, skips, faults and edits lie between its               *)
(* reinforcements, and however many of those there were, the stability of  *)
(* every file is within one part in two thousand of what initStability     *)
(* reconstructs from its history: the relative error a rounding leaves     *)
(* shrinks as fast as the stability grows (lifecycle.go, initStability).   *)
THEOREM StabilityIsEarned == Spec => []EarnedStability
<1>1. Standing => EarnedStability
  <2>. SUFFICES ASSUME Standing, NEW i \in Ids, Present(i)
                PROVE  LET held   == StabilityOf(Read(i))
                           earned == InitStability(Read(i).count, Read(i).maturity)
                           error  == held[1] * earned[2] - earned[1] * held[2]
                           slack  == (earned[1] * held[2]) \div 2000
                       IN -slack <= error /\ error <= slack
    BY DEF EarnedStability
  <2>1. Read(i) \in Note /\ Earned(Read(i))
    BY DEF Standing, TypeOK, Rooted, Present, Read
  <2>. DEFINE n == Read(i)
              held == StabilityOf(n)
              earned == InitStability(n.count, n.maturity)
  <2>2. n.count \in Nat /\ n.stability \in Nat /\ n # None
    BY <2>1, LifecycleAssumption DEF Note
  <2>3. earned[1] \in Nat /\ earned[2] \in Nat
    BY <2>2, InitExact DEF Curved
  <2>4. CASE n.stability = 0
    <3>1. held = earned
      BY <2>4 DEF StabilityOf
    <3>. HIDE DEF held, earned, n
    <3>. DEFINE whole == earned[1] * held[2]
                error == held[1] * earned[2] - whole
    <3>2. whole \in Nat /\ error = 0
      BY <2>3, <3>1
    <3>. HIDE DEF whole, error
    <3>3. -(whole \div 2000) <= error /\ error <= whole \div 2000
      BY <3>2
    <3>. QED  BY <3>3 DEF whole, error, held, earned, n
  <2>5. CASE n.stability > 0
    <3>1. held = <<n.stability, 1>> /\ AsEarned(n.stability, n.count, n.maturity)
      BY <2>1, <2>2, <2>5 DEF StabilityOf, Earned
    <3>2. LET error == n.stability * earned[2] - earned[1]
          IN -earned[1] <= 2000 * error /\ 2000 * error <= earned[1]
      BY <2>2, <3>1, EarnedNear
    <3>. HIDE DEF held, earned, n
    <3>3. held[1] = n.stability /\ held[2] = 1
      BY <3>1
    <3>. DEFINE whole == earned[1] * held[2]
                error == held[1] * earned[2] - whole
    <3>4. whole \in Nat /\ error \in Int /\ -whole <= 2000 * error /\ 2000 * error <= whole
      <4>1. whole = earned[1] /\ error = n.stability * earned[2] - earned[1]
        BY <2>3, <3>3
      <4>. HIDE DEF whole, error
      <4>. QED  BY <2>2, <2>3, <3>2, <4>1
    <3>. HIDE DEF whole, error
    <3>5. -(whole \div 2000) <= error /\ error <= whole \div 2000
      BY <3>4
    <3>. QED  BY <3>5 DEF whole, error, held, earned, n
  <2>. QED  BY <2>2, <2>4, <2>5
<1>. QED  BY <1>1, StandingCorrect, PTL

-----------------------------------------------------------------------------
(* The report.                                                             *)

LEMMA ToldReport == Told(run) \ Skipped = landed <=>
  {run.report[k] : k \in 1..Len(run.report)} \ ({"skipped"} \X Ids) = landed
BY DEF Told, Entries, Skipped

LEMMA ReportsKept ==
  ASSUME Standing, Reporting, Reports, Alike(run', run), run.pc # "idle"
  PROVE  Reporting'
<1>1. run.ask # None /\ run'.ask = run.ask
  BY DEF Standing, Going, Alike
<1>2. CASE run.ask.dry
  BY <1>1, <1>2 DEF Reporting, ReportIsTrue
<1>3. CASE ~run.ask.dry
  <2>1. run.mark = Len(run.report) /\ Told(run) \ Skipped = landed
    BY <1>1, <1>3, ToldReport DEF Reporting, ReportIsTrue
  <2>2. Told(run') \ Skipped = landed' /\ (run'.pc # "idle" => run'.mark = Len(run'.report))
    BY <1>3, <2>1 DEF Reports
  <2>3. ReportIsTrue'
    BY <2>2 DEF ReportIsTrue, Told, Entries, Skipped
  <2>. QED  BY <2>2, <2>3 DEF Reporting
<1>. QED  BY <1>2, <1>3

LEMMA ReportingStep == Standing /\ Reporting /\ [Next]_vars => Reporting'
<1>. SUFFICES ASSUME Standing, Reporting, [Next]_vars PROVE Reporting'
  OBVIOUS
<1>1. CASE Begin
  <2>1. run'.report = <<>> /\ run'.mark = 0 /\ landed' = {}
    BY <1>1 DEF Begin
  <2>2. Len(run'.report) = 0
    BY <2>1
  <2>. QED  BY <2>1, <2>2 DEF Reporting, ReportIsTrue
<1>2. CASE Rests
  BY <1>2, ReportsKept DEF Rests
<1>3. ASSUME NEW i \in Ids, Worked(i) PROVE Reporting'
  BY <1>3, ReportsKept DEF Worked, Works, Draft
<1>4. CASE UNCHANGED <<run, landed>>
  BY <1>4 DEF Reporting, ReportIsTrue
<1>. QED
  BY <1>1, <1>2, <1>3, <1>4, Steps DEF Standing, Tick, Edit, vars

(* What a run says it did is what its writes have done, however many notes *)
(* it skipped and wherever it failed (report.go, replaceSince).            *)
THEOREM ReportIsWhatLanded == Spec => []ReportIsTrue
<1>1. Init => Reporting
  BY DEF Init, Reporting, ReportIsTrue
<1>. QED  BY <1>1, ReportingStep, StandingCorrect, PTL DEF Spec, Reporting

-----------------------------------------------------------------------------
(* What a run has decided.                                                 *)

LEMMA DoneAlike ==
  ASSUME Alike(run', run), NEW i, NEW m
  PROVE  Done(i, m) => Done(i, m)'
BY DEF Alike, Done, Aged, Sheltered

(* What becomes of the file a step of the run is about.                    *)
LEMMA WorksAt ==
  ASSUME live \in [Ids -> Note \cup {None}], NEW i \in Ids, NEW m, Works(i, m)
  PROVE  \/ live'[i] = live[i]
         \/ live'[i] = m /\ Proper(i, m) /\ ~ChangedDuringRun(i)
         \/ live'[i] = None /\ ~ChangedDuringRun(i) /\ ~Frozen(run.snap[i])
<1>1. CASE live' = live
  BY <1>1
<1>2. CASE live' = [live EXCEPT ![i] = m] /\ ~ChangedDuringRun(i) /\ Proper(i, m)
  BY <1>2
<1>3. CASE live' = [live EXCEPT ![i] = None] /\ ~ChangedDuringRun(i) /\ ~Frozen(run.snap[i])
  BY <1>3
<1>. QED  BY <1>1, <1>2, <1>3 DEF Works

LEMMA DecidedStep == Standing /\ Decided /\ [Next]_vars => Decided'
<1>. SUFFICES ASSUME Standing, Decided, [Next]_vars PROVE Decided'
  OBVIOUS
<1>1. CASE Begin
  <2>1. run'.ask # None /\ settled' = {}
    BY <1>1, LifecycleAssumption DEF Begin
  <2>. QED  BY <2>1 DEF Decided
<1>2. CASE Rests
  <2>1. run'.ask = run.ask /\ run.ask # None /\ Contested' = Contested
    BY <1>2 DEF Rests, Alike, Standing, Going, Contested
  <2>2. ASSUME NEW j \in settled, live[j] # None PROVE Done(j, live[j])'
    BY <1>2, <2>1, <2>2 DEF Decided, Rests, Alike, Done, Aged, Sheltered
  <2>. QED  BY <1>2, <2>1, <2>2 DEF Decided, Rests
<1>3. ASSUME NEW i \in Ids, Worked(i) PROVE Decided'
  <2>1. PICK m \in Note : Draft(i, m) /\ Works(i, m)
    BY <1>3 DEF Worked
  <2>2. /\ run'.ask = run.ask /\ run.ask # None /\ Contested' = Contested /\ Alike(run', run)
        /\ settled \subseteq Ids /\ live \in [Ids -> Note \cup {None}]
    BY <2>1 DEF Draft, Works, Alike, Standing, Going, Contested, TypeOK
  <2>3. settled' \cap Contested = {}
    BY <2>1, <2>2 DEF Works, Decided
  <2>4. ASSUME NEW j \in settled', live'[j] # None PROVE Done(j, live'[j])
    <3>1. CASE j = i /\ i \notin settled
      BY <2>1, <2>4, <3>1 DEF Works
    <3>2. CASE j = i /\ i \in settled
      <4>1. i \notin Contested /\ (live[i] # None => Done(i, live[i]))
        BY <2>2, <3>2 DEF Decided
      <4>2. live'[i] = live[i] \/ (live'[i] = m /\ Proper(i, m))
        BY <2>1, <2>2, <2>4, <3>2, WorksAt
      <4>. QED  BY <2>4, <3>2, <4>1, <4>2 DEF Proper
    <3>3. CASE j # i
      <4>1. j \in settled /\ live'[j] = live[j]
        BY <2>1, <2>2, <3>3 DEF Works
      <4>. QED  BY <2>2, <2>4, <4>1 DEF Decided
    <3>. QED  BY <3>1, <3>2, <3>3
  <2>5. ASSUME NEW j \in settled', live'[j] # None PROVE Done(j, live[j])'
    <3>1. Done(j, live'[j])
      BY <2>4, <2>5
    <3>. QED  BY <2>2, <3>1 DEF Alike, Done, Aged, Sheltered
  <2>. QED  BY <2>2, <2>3, <2>5 DEF Decided
<1>4. ASSUME NEW i \in Ids, Edit(i) PROVE Decided'
  <2>1. settled' = settled \ {i} /\ run' = run /\ \A j \in Ids \ {i} : live'[j] = live[j]
    BY <1>4 DEF Edit, Standing, TypeOK
  <2>2. settled \subseteq Ids
    BY DEF Standing, TypeOK
  <2>. QED  BY <2>1, <2>2 DEF Decided, Contested, Done, Aged, Sheltered
<1>5. CASE UNCHANGED <<live, run, settled>>
  BY <1>5 DEF Decided, Contested, Done, Aged, Sheltered
<1>. QED
  BY <1>1, <1>2, <1>3, <1>4, <1>5, Steps DEF Standing, Tick, vars

LEMMA DecidedCorrect == Spec => []Decided
<1>1. Init => Decided
  BY DEF Init, Decided
<1>. QED  BY <1>1, DecidedStep, StandingCorrect, PTL DEF Spec

(* A note that a run has decided on and nobody has edited since has the    *)
(* confidence of its age and is still under notes/ only if that has not    *)
(* faded: neither how many runs there were nor where they failed matters   *)
(* (lifecycle.go, decayConfidence).                                        *)
THEOREM ConfidenceIsAged == Spec => []AsTimed
<1>1. Decided => AsTimed
  BY DEF Decided, AsTimed, Done, Aged, Timed
<1>. QED  BY <1>1, DecidedCorrect, PTL

(* What is due to fade has not been reinforced for longer than a citation  *)
(* shields, so list_decaying has it: stability never falls below that of a *)
(* fresh note, which takes 336 days to fade (store/notes.go,               *)
(* ListDecaying).                                                          *)
THEOREM FadingIsListed == Spec => []Forewarned
<1>1. Standing => Forewarned
  <2>. SUFFICES ASSUME Standing, NEW i \in Ids, live[i] # None, live[i].status # "falsified",
                       WillFade(live[i], FALSE, i \in RecentlyCited(now), now)
                PROVE  i \in ListDecaying(now - RefreshBudget)
    BY DEF Forewarned
  <2>. DEFINE n == live[i]
              age == Elapsed(n.anchor, now)
  <2>1. n \in Note /\ Earned(n) /\ now \in Nat
    BY LifecycleAssumption DEF Standing, TypeOK, Rooted
  <2>2. n.anchor \in Nat
    BY <2>1, LifecycleAssumption DEF Note
  <2>3. ~Frozen(n) /\ Faded(age, StabilityOf(n))
    BY DEF WillFade
  <2>4. age \in Nat
    BY <2>1, <2>2 DEF Elapsed
  <2>5. ~(age <= AncientAfter)
    <3>1. Curved(StabilityOf(n))
      BY <2>1, StabilityAtLeast
    <3>. QED  BY <2>3, <2>4, <3>1, NotYetFaded
  <2>6. n.anchor <= now - RefreshBudget
    BY <2>1, <2>2, <2>5 DEF Elapsed, RefreshBudget, AncientAfter
  <2>. QED  BY <2>3, <2>6 DEF ListDecaying, Frozen
<1>. QED  BY <1>1, StandingCorrect, PTL

(* A run leaves the confidence and the place of a paused or graduated note *)
(* alone unless it was asked to falsify it, whatever it had read before.   *)
THEOREM ShieldedStaysPut == Spec => ShieldedIsInert
<1>1. ASSUME Standing, [Next]_vars, NEW j \in Ids, live[j] # None, Frozen(live[j]),
             run.pc # "idle", j \notin run.ask.falsify
      PROVE  live'[j] # None /\ live'[j].conf = live[j].conf
  <2>1. CASE UNCHANGED live
    BY <1>1, <2>1
  <2>2. ASSUME NEW i \in Ids, Edit(i) PROVE live'[j] # None /\ live'[j].conf = live[j].conf
    <3>1. PICK n \in Note : live' = [live EXCEPT ![i] = n] /\ n.conf = live[i].conf
      BY <1>1, <2>2, EditStanding
    <3>. QED  BY <1>1, <3>1, LifecycleAssumption DEF Standing, TypeOK
  <2>3. ASSUME NEW i \in Ids, Worked(i) PROVE live'[j] # None /\ live'[j].conf = live[j].conf
    <3>1. PICK m \in Note : Draft(i, m) /\ Works(i, m)
      BY <2>3 DEF Worked
    <3>2. CASE i # j
      <4>1. live'[j] = live[j]
        BY <1>1, <3>1, <3>2 DEF Works, Standing, TypeOK
      <4>. QED  BY <1>1, <4>1
    <3>3. CASE i = j /\ ~ChangedDuringRun(i)
      <4>1. live[j] = run.snap[j]
        BY <1>1, <3>3 DEF ChangedDuringRun
      <4>2. live'[j] = live[j] \/ (live'[j] = m /\ Proper(j, m))
        <5>1. live \in [Ids -> Note \cup {None}]
          BY <1>1 DEF Standing, TypeOK
        <5>. QED  BY <1>1, <3>1, <3>3, <4>1, <5>1, WorksAt
      <4>. QED  BY <1>1, <4>1, <4>2, LifecycleAssumption DEF Proper
    <3>4. CASE i = j /\ ChangedDuringRun(i)
      <4>1. live'[j] = live[j]
        BY <3>1, <3>4 DEF Works
      <4>. QED  BY <1>1, <4>1
    <3>. QED  BY <3>2, <3>3, <3>4
  <2>. QED
    BY <1>1, <2>1, <2>2, <2>3, Steps DEF Standing, Begin, Rests, Tick, vars
<1>2. Standing /\ [Next]_vars =>
        [\A i \in Ids :
           live[i] # None /\ Frozen(live[i]) /\ run.pc # "idle" /\ i \notin run.ask.falsify
             => live'[i] # None /\ live'[i].conf = live[i].conf]_<<live, shelf>>
  BY <1>1
<1>. QED  BY <1>2, StandingCorrect, PTL DEF Spec, ShieldedIsInert

-----------------------------------------------------------------------------
(* Citations.                                                              *)

(* A note that was edited lately when the run began still was.             *)
Lately(j) ==
  \A n \in {live[j], shelf[j], run.snap[j]} :
    n # None => run.at - n.updated <= RefreshWithin

(* What the run took for cited still is, by notes it may have moved, and   *)
(* is the first of its name among what was there when it began.            *)
Citing ==
  run.ask # None =>
    /\ run.at <= now
    /\ \A i \in Ids : live[i] # None => run.snap[i] # None
    /\ \A i \in run.cited :
         /\ run.snap[i] # None =>
              \A j \in Ids : run.snap[j] # None /\ Base[j] = Base[i] => Place(i) <= Place(j)
         /\ \E c \in Cites : c[1] # i /\ c[2] = Base[i] /\ Present(c[1]) /\ Lately(c[1])

LEMMA PlaceTyped ==
  ASSUME NEW i \in Ids
  PROVE  Place(i) \in Int
<1>1. \E k \in 1..Len(Order) : Order[k] = i
  BY LifecycleAssumption
<1>2. Place(i) \in 1..Len(Order)
  BY <1>1 DEF Place
<1>3. Len(Order) \in Nat
  BY LifecycleAssumption
<1>. QED  BY <1>2, <1>3

LEMMA BeginCiting == Standing /\ Begin => Citing'
<1>. SUFFICES ASSUME Standing, Begin PROVE Citing'
  OBVIOUS
<1>1. /\ run'.at = now /\ run'.snap = live /\ run'.cited = RecentlyCited(now)
      /\ now \in Nat /\ UNCHANGED <<live, shelf, now>>
      /\ \A i \in Ids : live[i] = None \/ shelf[i] = None
  BY LifecycleAssumption DEF Begin, Standing, TypeOK
<1>2. ASSUME NEW i \in RecentlyCited(now), live[i] # None,
             NEW j \in Ids, live[j] # None, Base[j] = Base[i]
      PROVE  Place(i) <= Place(j)
  <2>1. PICK c \in Cites : i \in Bearers(c[2])
    BY <1>2 DEF RecentlyCited
  <2>2. i \in Ids /\ Base[i] = c[2] /\ shelf[i] = None /\ shelf[j] = None
    BY <1>1, <1>2, <2>1 DEF Bearers, RecentlyCited
  <2>. QED  BY <1>2, <2>1, <2>2 DEF Bearers, Present
<1>3. ASSUME NEW i \in RecentlyCited(now)
      PROVE  \E c \in Cites : /\ c[1] # i /\ c[2] = Base[i]
                              /\ Present(c[1])' /\ Lately(c[1])'
  <2>1. PICK c \in Cites : /\ c[1] # i /\ Present(c[1]) /\ i \in Bearers(c[2])
                           /\ now - Read(c[1]).updated <= RefreshWithin
    BY <1>3 DEF RecentlyCited
  <2>2. c[1] \in Ids /\ c[2] = Base[i]
    BY <2>1, LifecycleAssumption DEF Bearers
  <2>3. Present(c[1])'
    BY <1>1, <2>1 DEF Present
  <2>4. Lately(c[1])'
    <3>1. ASSUME NEW n \in {live[c[1]], shelf[c[1]]}, n # None
          PROVE  now - n.updated <= RefreshWithin
      BY <1>1, <2>1, <2>2, <3>1 DEF Read
    <3>. QED  BY <1>1, <3>1 DEF Lately
  <2>. QED  BY <2>1, <2>2, <2>3, <2>4
<1>4. run'.at <= now' /\ \A i \in Ids : live'[i] # None => run'.snap[i] # None
  BY <1>1
<1>. QED
  BY <1>1, <1>2, <1>3, <1>4 DEF Citing

LEMMA WorksCiting ==
  ASSUME Standing, Citing, NEW i \in Ids, NEW m \in Note, Draft(i, m), Works(i, m)
  PROVE  Citing'
<1>1. /\ live \in [Ids -> Note \cup {None}] /\ shelf \in [Ids -> Note \cup {None}]
      /\ run.snap \in [Ids -> Note \cup {None}] /\ run.cited \subseteq Ids
      /\ run.ask # None /\ run.snap[i] # None /\ m # None /\ m.updated = run.snap[i].updated
      /\ run'.at = run.at /\ run'.cited = run.cited /\ now' = now
  BY LifecycleAssumption DEF Standing, Going, TypeOK, Run, Draft, Works, Alike
<1>2. \A j \in Ids : /\ live'[j] \in {live[j], m, None}
                     /\ live'[j] # None /\ live[j] = None => j = i
                     /\ live'[j] = m /\ live[j] # m => j = i
                     /\ live'[j] = None => live[j] = None \/ shelf'[j] # None
                     /\ shelf'[j] # None \/ shelf[j] = None
  BY <1>1 DEF Works
<1>3. \A j \in Ids : \/ /\ live'[j] \in {live[j], None} /\ shelf'[j] = shelf[j]
                        /\ run'.snap[j] = run.snap[j]
                     \/ j = i
  BY <1>1 DEF Works
<1>4. \A j \in Ids : run'.snap[j] = None <=> run.snap[j] = None
  BY <1>1 DEF Works
<1>5. /\ live'[i] \in {live[i], m, None} /\ shelf'[i] \in {shelf[i], m}
      /\ run'.snap[i] \in {run.snap[i], m}
  BY <1>1 DEF Works
<1>6. ASSUME NEW j \in Ids, Lately(j) PROVE Lately(j)'
  <2>1. ASSUME NEW n \in {live'[j], shelf'[j], run'.snap[j]}, n # None
        PROVE  run.at - n.updated <= RefreshWithin
    <3>1. CASE n \in {live[j], shelf[j], run.snap[j]}
      BY <1>6, <2>1, <3>1 DEF Lately
    <3>2. CASE j = i /\ n = m
      BY <1>1, <1>6, <3>2 DEF Lately
    <3>. QED  BY <1>3, <1>5, <2>1, <3>1, <3>2
  <2>. QED  BY <1>1, <2>1 DEF Lately
<1>7. ASSUME NEW j \in Ids, Present(j) PROVE Present(j)'
  BY <1>2, <1>7 DEF Present
<1>8. \A j \in Ids : live'[j] # None => run'.snap[j] # None
  BY <1>1, <1>2, <1>4 DEF Citing
<1>9. ASSUME NEW j \in run.cited
      PROVE  \E c \in Cites : /\ c[1] # j /\ c[2] = Base[j]
                              /\ Present(c[1])' /\ Lately(c[1])'
  <2>1. PICK c \in Cites : c[1] # j /\ c[2] = Base[j] /\ Present(c[1]) /\ Lately(c[1])
    BY <1>1 DEF Citing
  <2>2. c[1] \in Ids
    BY LifecycleAssumption
  <2>. QED  BY <1>6, <1>7, <2>1, <2>2
<1>10. \A j \in run.cited :
         run'.snap[j] # None =>
           \A k \in Ids : run'.snap[k] # None /\ Base[k] = Base[j] => Place(j) <= Place(k)
  BY <1>1, <1>4 DEF Citing
<1>11. run'.at <= now'
  BY <1>1 DEF Citing
<1>. QED
  BY <1>1, <1>8, <1>9, <1>10, <1>11 DEF Citing

LEMMA EditCiting ==
  ASSUME Standing, Citing, NEW i \in Ids, Edit(i)
  PROVE  Citing'
<1>1. PICK n \in Note : live' = [live EXCEPT ![i] = n] /\ n.updated = now
  BY EditStanding
<1>2. /\ live \in [Ids -> Note \cup {None}] /\ live[i] # None /\ n # None
      /\ UNCHANGED <<shelf, now, run>>
      /\ now \in Nat /\ run.at \in Nat /\ run.cited \subseteq Ids
  BY LifecycleAssumption DEF Edit, Standing, TypeOK, Run
<1>3. \A j \in Ids : live'[j] = (IF j = i THEN n ELSE live[j])
  BY <1>1, <1>2
<1>4. ASSUME run.ask # None, NEW j \in Ids, Lately(j) PROVE Lately(j)'
  <2>1. run.at - n.updated <= RefreshWithin
    BY <1>1, <1>2, <1>4 DEF Citing, RefreshWithin
  <2>. QED  BY <1>2, <1>3, <1>4, <2>1 DEF Lately
<1>5. ASSUME NEW j \in Ids, Present(j) PROVE Present(j)'
  BY <1>2, <1>3, <1>5 DEF Present
<1>6. \A c \in Cites : c[1] \in Ids
  BY LifecycleAssumption
<1>7. ASSUME run.ask # None, NEW j \in run.cited
      PROVE  \E c \in Cites : /\ c[1] # j /\ c[2] = Base[j]
                              /\ Present(c[1])' /\ Lately(c[1])'
  BY <1>4, <1>5, <1>6, <1>7 DEF Citing
<1>8. run.ask # None => \A j \in Ids : live'[j] # None => run.snap[j] # None
  BY <1>2, <1>3 DEF Citing
<1>. QED  BY <1>2, <1>7, <1>8 DEF Citing

LEMMA CitingStep == Standing /\ Citing /\ [Next]_vars => Citing'
<1>. SUFFICES ASSUME Standing, Citing, [Next]_vars PROVE Citing'
  OBVIOUS
<1>1. CASE Rests
  BY <1>1 DEF Rests, Alike, Citing, Present, Lately
<1>2. CASE UNCHANGED <<live, shelf, run>> /\ now' \in Nat /\ now <= now'
  <2>1. now \in Nat /\ run.at \in Nat
    BY LifecycleAssumption DEF Standing, TypeOK, Run
  <2>2. run.ask # None => run'.at <= now'
    BY <1>2, <2>1 DEF Citing
  <2>. QED  BY <1>2, <2>2 DEF Citing, Present, Lately
<1>3. CASE Tick \/ UNCHANGED vars
  <2>1. now \in Nat /\ now' \in Nat /\ now <= now'
    BY <1>3, LifecycleAssumption DEF Tick, vars, Standing, TypeOK
  <2>. QED  BY <1>2, <1>3, <2>1 DEF Tick, vars
<1>4. ASSUME NEW i \in Ids, Worked(i) PROVE Citing'
  BY <1>4, WorksCiting DEF Worked
<1>. QED
  BY <1>1, <1>3, <1>4, BeginCiting, EditCiting, Steps DEF Standing

(* What was cited when the run began is cited to a later run of the same   *)
(* time, unless an archived namesake has taken the citation over.          *)
LEMMA StillCited ==
  ASSUME Standing, Citing, run.ask # None, NEW i \in run.cited, live[i] # None,
         \A j \in Ids \ {i} : Base[j] = Base[i] => shelf[j] = None
  PROVE  i \in RecentlyCited(run.at)
<1>1. i \in Ids
  BY DEF Standing, TypeOK, Run
<1>2. PICK c \in Cites : c[1] # i /\ c[2] = Base[i] /\ Present(c[1]) /\ Lately(c[1])
  BY DEF Citing
<1>3. c[1] \in Ids
  BY LifecycleAssumption
<1>4. run.at - Read(c[1]).updated <= RefreshWithin
  BY <1>2 DEF Lately, Read, Present
<1>5. i \in Bearers(c[2])
  <2>1. ASSUME NEW j \in Ids, Present(j), Base[j] = Base[i], j # i, shelf[i] = None
        PROVE  shelf[j] = None /\ Place(i) <= Place(j)
    BY <1>1, <2>1 DEF Citing, Present
  <2>2. Place(i) <= Place(i)
    BY <1>1, PlaceTyped
  <2>. QED  BY <1>1, <1>2, <2>1, <2>2 DEF Bearers, Present
<1>. QED  BY <1>1, <1>2, <1>4, <1>5 DEF RecentlyCited

(* A second run at the same time that is asked for nothing leaves alone    *)
(* every note a run has decided on, however that run ended, with the       *)
(* exceptions the property names (io.go:40-42).                            *)
THEOREM SecondRunIsIdle == Spec => []Idempotent
<1>1. Init => Citing
  BY DEF Init, Citing
<1>2. Standing /\ Decided /\ Citing => Idempotent
  <2>. SUFFICES ASSUME Standing, Decided, Citing, NEW i \in settled, live[i] # None
                PROVE  LET n     == live[i]
                           cited == i \in RecentlyCited(run.at)
                       IN /\ Changed(n, FALSE, run.at) \/ WillFade(n, FALSE, cited, run.at) =>
                               Wavers(n, Elapsed(n.anchor, run.at))
                          /\ WillArchive(n, FALSE, cited, run.at) =>
                               \/ i \in run.ask.reinforce
                               \/ \E j \in Ids \ {i} : Base[j] = Base[i] /\ shelf[j] # None
    BY DEF Idempotent
  <2>. DEFINE n == live[i]
              cited == i \in RecentlyCited(run.at)
  <2>1. run.ask # None /\ Done(i, n) /\ i \in Ids /\ n \in Note /\ run.at \in Nat
    BY LifecycleAssumption DEF Decided, Standing, TypeOK, Run
  <2>2. n.updated \in Nat /\ n.anchor \in Nat /\ n.stability \in Nat
    BY <2>1, LifecycleAssumption DEF Note
  <2>. DEFINE age == Elapsed(n.anchor, run.at)
              held == InitStability(n.count, n.maturity)
              stored == <<n.stability, 1>>
  <2>3. StabilityOf(n) = stored /\ Hundredths(stored) = n.stability
    BY <2>1, <2>2, Stored DEF Done, StabilityOf
  <2>4. Wavers(n, age) \/ Frozen(n) \/ Fits(n, stored, age)
    <3>1. Frozen(n) \/ Timed(n, age)
      BY <2>1 DEF Done, Aged
    <3>. HIDE DEF n, age
    <3>. QED  BY <3>1 DEF Timed, Fits, Wavers
  <2>6. Frozen(n) \/ Fits(n, stored, age) =>
          ~Changed(n, FALSE, run.at) /\ ~WillFade(n, FALSE, cited, run.at)
    <3>. SUFFICES ASSUME Frozen(n) \/ Fits(n, stored, age)
                  PROVE  ~Changed(n, FALSE, run.at) /\ ~WillFade(n, FALSE, cited, run.at)
      OBVIOUS
    <3>1. Assessed(n, FALSE, run.at) = n
      <4>. HIDE DEF n, stored
      <4>. DEFINE conf == IF Frozen(n) THEN n.conf ELSE Confidence(age, stored)
      <4>1. conf = n.conf
        BY DEF Fits
      <4>2. Assessed(n, FALSE, run.at) = [n EXCEPT !.stability = n.stability, !.conf = conf]
        BY <2>3 DEF Assessed
      <4>. HIDE DEF conf
      <4>3. [n EXCEPT !.stability = n.stability, !.conf = conf] = n
        BY <2>1, <4>1 DEF Note
      <4>. QED  BY <4>2, <4>3
    <3>. HIDE DEF n, stored, cited
    <3>. QED  BY <2>3, <3>1 DEF Changed, WillFade, Fits
  <2>5. ASSUME WillArchive(n, FALSE, cited, run.at), i \notin run.ask.reinforce,
               \A j \in Ids \ {i} : Base[j] = Base[i] => shelf[j] = None
        PROVE  FALSE
    <3>1. Shields(n, i \in run.cited, run.at)
      <4>1. ~Frozen(n) /\ run.at - n.updated > AncientAfter
        BY <2>5 DEF WillArchive
      <4>2. ~(run.at - n.updated <= AncientAfter)
        BY <2>1, <2>2, <4>1 DEF AncientAfter
      <4>. QED  BY <2>1, <2>5, <4>1, <4>2 DEF Done, Sheltered
    <3>2. i \in run.cited /\ RefreshBudget - (run.at - n.anchor) > 0
      BY <3>1 DEF Shields
    <3>3. cited
      BY <2>1, <2>5, <3>2, StillCited
    <3>. QED  BY <2>5, <3>2, <3>3 DEF WillArchive, Shields
  <2>. QED  BY <2>4, <2>5, <2>6
<1>. QED
  BY <1>1, <1>2, CitingStep, DecidedCorrect, StandingCorrect, PTL DEF Spec

=============================================================================
