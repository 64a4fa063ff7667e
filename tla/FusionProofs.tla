---------------------------- MODULE FusionProofs ----------------------------
(***************************************************************************)
(* The fold of fuse() for every list of reports, however long and whatever *)
(* their confidences: it never meets a total conflict, does not depend on  *)
(* the order of reports that agree, is never lowered by a report that      *)
(* agrees, and does not bring about a mitigation for one agent alone.  And *)
(* what answers a mitigation: a playbook that runs to its end, that nobody *)
(* else can have changed, and the pivot that goes with it; what of it the  *)
(* ledger accepts; that the windows of events that producers send give     *)
(* such lists of reports; and that what it attributes to the agents adds   *)
(* up to the belief, in whatever order they are taken.                     *)
(*                                                                         *)
(* tlapm has no theory of a recursive function: LeastNumber and Upwards    *)
(* stand for induction, over a set of numbers, and AtMostIs and ProductIs  *)
(* say what the two recursive functions of Fusion are.                     *)
(***************************************************************************)
EXTENDS Decisions, ParsersProofs

(* Masses that add up to their denominator.                                *)
Whole == {x \in Mass : x.evil + x.benign + x.theta = x.of}

-----------------------------------------------------------------------------
(* Comparing fractions.                                                    *)

(* p/q with integer part i and remainder u.                                *)
LEMMA Divided ==
    ASSUME NEW p \in Nat, NEW q \in Nat \ {0}
    PROVE  /\ p \div q \in Nat /\ p % q \in 0 .. q - 1
           /\ p = (p \div q) * q + (p % q)
<1>1. p \div q \in Nat
    OBVIOUS
<1>2. p % q \in 0 .. q - 1
    OBVIOUS
<1>3. p = (p \div q) * q + (p % q)
    OBVIOUS
<1> QED
    BY <1>1, <1>2, <1>3

(* One step of Euclid, with a and b the integer parts of both fractions.   *)
LEMMA SamePart ==
    ASSUME NEW a \in Nat, NEW q \in Nat \ {0}, NEW u \in 0 .. q - 1,
           NEW s \in Nat \ {0}, NEW v \in 0 .. s - 1
    PROVE  (a * q + u) * s <= (a * s + v) * q <=> u = 0 \/ (v # 0 /\ s * u <= q * v)
<1>1. (a * q + u) * s = a * q * s + s * u /\ (a * s + v) * q = a * q * s + q * v
    OBVIOUS
<1>2. a * q * s \in Nat /\ s * u \in Nat /\ q * v \in Nat
    OBVIOUS
<1>3. u = 0 => s * u = 0
    OBVIOUS
<1>4. v = 0 => q * v = 0
    OBVIOUS
<1>5. u # 0 => s * u > 0
    OBVIOUS
<1> QED
    BY <1>1, <1>2, <1>3, <1>4, <1>5

LEMMA LessPart ==
    ASSUME NEW a \in Nat, NEW c \in Nat, a < c, NEW q \in Nat \ {0}, NEW u \in 0 .. q - 1,
           NEW s \in Nat \ {0}, NEW v \in 0 .. s - 1
    PROVE  (a * q + u) * s < (c * s + v) * q
<1>1. PICK k \in Nat : c = a + 1 + k
    BY c - a - 1 \in Nat
<1>2. PICK w \in Nat \ {0} : q = u + w
    BY q - u \in Nat \ {0}
<1>3. (a * q + u) * s = a * q * s + u * s
    OBVIOUS
<1>4. (c * s + v) * q = a * q * s + q * s + k * s * q + v * q
    BY <1>1
<1>5. q * s = u * s + w * s
    BY <1>2
<1>6. w * s > 0 /\ k * s * q >= 0 /\ v * q >= 0 /\ a * q * s \in Nat /\ u * s \in Nat
    OBVIOUS
<1> QED
    BY <1>3, <1>4, <1>5, <1>6

(* What the recursion of AtMost says of one pair.                          *)
LEMMA EuclidStep ==
    ASSUME NEW p \in Nat, NEW q \in Nat \ {0}, NEW r \in Nat, NEW s \in Nat \ {0}
    PROVE  /\ p \div q # r \div s => (p * s <= r * q <=> p \div q < r \div s)
           /\ p \div q = r \div s =>
                  (p * s <= r * q <=> p % q = 0 \/ (r % s # 0 /\ s * (p % q) <= q * (r % s)))
<1>1. PICK a \in Nat, u \in 0 .. q - 1 : a = p \div q /\ u = p % q /\ p = a * q + u
    BY Divided
<1>2. PICK c \in Nat, v \in 0 .. s - 1 : c = r \div s /\ v = r % s /\ r = c * s + v
    BY Divided
<1>3. CASE a = c
    BY <1>1, <1>2, <1>3, SamePart
<1>4. CASE a < c
    <2>1. p * s < r * q
        BY <1>1, <1>2, <1>4, LessPart
    <2>2. p * s \in Nat /\ r * q \in Nat
        OBVIOUS
    <2> QED
        BY <1>1, <1>2, <1>4, <2>1, <2>2
<1>5. CASE c < a
    <2>1. r * q < p * s
        BY <1>1, <1>2, <1>5, LessPart
    <2>2. p * s \in Nat /\ r * q \in Nat
        OBVIOUS
    <2> QED
        BY <1>1, <1>2, <1>5, <2>1, <2>2
<1> QED
    BY <1>1, <1>2, <1>3, <1>4, <1>5

Euclid(f, x) ==
    LET Part(y) == y[1] \div y[2]
        Rest(y) == y[1] % y[2]
    IN  IF Part(x[1]) # Part(x[2]) THEN Part(x[1]) < Part(x[2])
        ELSE \/ Rest(x[1]) = 0
             \/ /\ Rest(x[2]) # 0
                /\ f[<<<<x[2][2], Rest(x[2])>>, <<x[1][2], Rest(x[1])>>>>]

EuclidOf(p, q, r, s, z) ==
    IF p \div q # r \div s THEN p \div q < r \div s ELSE p % q = 0 \/ (r % s # 0 /\ z)

LEMMA EuclidOfIs ==
    ASSUME NEW p \in Nat, NEW q \in Nat \ {0}, NEW r \in Nat, NEW s \in Nat \ {0}, NEW z,
           p % q # 0 /\ r % s # 0 => (z <=> s * (p % q) <= q * (r % s))
    PROVE  EuclidOf(p, q, r, s, z) <=> p * s <= r * q
<1>1. CASE p \div q # r \div s
    <2>1. EuclidOf(p, q, r, s, z) <=> p \div q < r \div s
        BY <1>1, Zenon DEF EuclidOf
    <2>2. p * s <= r * q <=> p \div q < r \div s
        BY <1>1, EuclidStep, Zenon
    <2> QED
        BY <2>1, <2>2, Zenon
<1>2. CASE p \div q = r \div s /\ p % q # 0 /\ r % s # 0
    <2>1. EuclidOf(p, q, r, s, z) <=> z
        BY <1>2, Zenon DEF EuclidOf
    <2> QED
        BY <1>2, <2>1, EuclidStep, Zenon
<1>3. CASE p \div q = r \div s /\ p % q = 0
    <2>1. EuclidOf(p, q, r, s, z)
        BY <1>3, Zenon DEF EuclidOf
    <2> QED
        BY <1>3, <2>1, EuclidStep, Zenon
<1>4. CASE p \div q = r \div s /\ p % q # 0 /\ r % s = 0
    <2>1. ~EuclidOf(p, q, r, s, z)
        BY <1>4, Zenon DEF EuclidOf
    <2> QED
        BY <1>4, <2>1, EuclidStep, Zenon
<1> QED
    BY <1>1, <1>2, <1>3, <1>4

(* The recursion has one solution, the order of fractions.                 *)
LEMMA AtMostIs ==
    ASSUME NEW a \in Nat, NEW b \in Nat \ {0}, NEW c \in Nat, NEW d \in Nat \ {0}
    PROVE  AtMost(a, b, c, d) <=> a * d <= c * b
<1> DEFINE D == Fraction \X Fraction
           P(f) == f = [x \in D |-> Euclid(f, x)]
           w == CHOOSE f : P(f)
           At(x) == x[1][1] * x[2][2] <= x[2][1] * x[1][2]
           v == [x \in D |-> At(x)]
<1>1. ASSUME NEW p \in Nat, NEW q \in Nat \ {0}, NEW r \in Nat, NEW s \in Nat \ {0},
             NEW f
      PROVE  LET x == <<<<p, q>>, <<r, s>>>> IN
             /\ x \in D
             /\ Euclid(f, x) = EuclidOf(p, q, r, s, f[<<<<s, r % s>>, <<q, p % q>>>>])
    BY DEF Euclid, EuclidOf, Fraction
<1>2. ASSUME NEW x \in D
      PROVE  \E p \in Nat, q \in Nat \ {0}, r \in Nat, s \in Nat \ {0} : x = <<<<p, q>>, <<r, s>>>>
    BY DEF Fraction
<1>3. ASSUME NEW p \in Nat, NEW q \in Nat \ {0}, NEW r \in Nat, NEW s \in Nat \ {0}
      PROVE  /\ v[<<<<p, q>>, <<r, s>>>>] \in BOOLEAN
             /\ v[<<<<p, q>>, <<r, s>>>>] <=> p * s <= r * q
    <2> DEFINE x == <<<<p, q>>, <<r, s>>>>
    <2>1. x \in D
        BY <1>1
    <2>2. At(x) \in BOOLEAN
        OBVIOUS
    <2>3. At(x) <=> p * s <= r * q
        OBVIOUS
    <2> HIDE DEF At, x, D
    <2>4. v[x] = At(x)
        BY <2>1, Zenon
    <2> QED
        BY <2>2, <2>3, <2>4, Zenon DEF x
<1>4. ASSUME NEW x \in D
      PROVE  v[x] = Euclid(v, x)
    <2>1. PICK p \in Nat, q \in Nat \ {0}, r \in Nat, s \in Nat \ {0} : x = <<<<p, q>>, <<r, s>>>>
        BY <1>2
    <2>2. v[x] \in BOOLEAN /\ (v[x] <=> p * s <= r * q)
        <3> HIDE DEF v
        <3> QED
            BY <1>3, <2>1
    <2> DEFINE z == v[<<<<s, r % s>>, <<q, p % q>>>>]
    <2>3. p % q # 0 /\ r % s # 0 => z \in BOOLEAN /\ (z <=> s * (p % q) <= q * (r % s))
        <3>1. p % q # 0 /\ r % s # 0 =>
                  p % q \in Nat \ {0} /\ r % s \in Nat \ {0}
            BY Divided
        <3> HIDE DEF v
        <3> QED
            BY <1>3, <3>1, Zenon
    <2>4. Euclid(v, x) = EuclidOf(p, q, r, s, z)
        BY <1>1, <2>1
    <2> HIDE DEF v, z
    <2>5. EuclidOf(p, q, r, s, z) \in BOOLEAN
        <3>1. CASE p \div q # r \div s
            BY <3>1 DEF EuclidOf
        <3>2. CASE p \div q = r \div s /\ p % q # 0 /\ r % s # 0
            <4>1. EuclidOf(p, q, r, s, z) <=> z
                BY <3>2, Zenon DEF EuclidOf
            <4>2. EuclidOf(p, q, r, s, z) \in BOOLEAN
                BY <2>3, <3>2 , Zenon DEF EuclidOf
            <4> QED
                BY <4>2
        <3>3. CASE p \div q = r \div s /\ ~(p % q # 0 /\ r % s # 0)
            BY <3>3, Zenon DEF EuclidOf
        <3> QED
            BY <3>1, <3>2, <3>3, Zenon
    <2>6. EuclidOf(p, q, r, s, z) <=> p * s <= r * q
        BY <2>3, EuclidOfIs
    <2> QED
        BY <2>2, <2>4, <2>5, <2>6
<1>5. P(v)
    BY <1>4
<1>6. P(w)
    <2> HIDE DEF P, v
    <2> QED
        BY <1>5
<1>7. AtMost(a, b, c, d) = w[<<<<a, b>>, <<c, d>>>>]
    BY DEF AtMost, Euclid
<1> HIDE DEF w
<1> DEFINE S == {k \in 0 .. b + d :
                   \A p \in Nat, q \in Nat \ {0}, r \in Nat, s \in Nat \ {0} :
                       q + s <= k => (w[<<<<p, q>>, <<r, s>>>>] <=> p * s <= r * q)}
<1>8. 0 \in S
    OBVIOUS
<1>9. ASSUME NEW k \in 1 .. b + d, k - 1 \in S
      PROVE  k \in S
    <2> SUFFICES ASSUME NEW p \in Nat, NEW q \in Nat \ {0}, NEW r \in Nat, NEW s \in Nat \ {0},
                        q + s <= k
                 PROVE  w[<<<<p, q>>, <<r, s>>>>] <=> p * s <= r * q
        OBVIOUS
    <2> DEFINE z == w[<<<<s, r % s>>, <<q, p % q>>>>]
               x == <<<<p, q>>, <<r, s>>>>
    <2>1. x \in D /\ Euclid(w, x) = EuclidOf(p, q, r, s, z)
        BY <1>1
    <2>2. w[x] = EuclidOf(p, q, r, s, z)
        <3>1. w[x] = Euclid(w, x)
            <4> HIDE DEF D, x
            <4> QED
                BY <1>6, <2>1
        <3> QED
            BY <2>1, <3>1, Zenon
    <2>3. p % q # 0 /\ r % s # 0 => (z <=> s * (p % q) <= q * (r % s))
        <3>1. p % q \in 0 .. q - 1 /\ r % s \in 0 .. s - 1
            BY Divided
        <3>2. SUFFICES ASSUME p % q # 0, r % s # 0
                       PROVE  z <=> s * (p % q) <= q * (r % s)
            OBVIOUS
        <3>3. p % q \in Nat \ {0} /\ r % s \in Nat \ {0} /\ (r % s) + (p % q) <= k - 1
            BY <3>1, <3>2
        <3> QED
            BY <1>9, <3>3
    <2> HIDE DEF z, S, w
    <2>4. EuclidOf(p, q, r, s, z) <=> p * s <= r * q
        BY <2>3, EuclidOfIs
    <2> QED
        BY <2>2, <2>4, Zenon
<1> HIDE DEF S
<1>10. b + d \in S
    BY <1>8, <1>9, Upwards
<1>11. w[<<<<a, b>>, <<c, d>>>>] <=> a * d <= c * b
    BY <1>10 DEF S
<1> QED
    BY <1>7, <1>11, Zenon

-----------------------------------------------------------------------------
(* Arithmetic.                                                             *)

LEMMA ProductNat ==
    ASSUME NEW a \in Nat, NEW b \in Nat
    PROVE  a * b \in Nat
OBVIOUS

(* Two opinions that lean to the same side: half of the product of their   *)
(* certain parts agrees at least.                                          *)
LEMMA AgreeingHalf ==
    ASSUME NEW a \in Nat, NEW b \in Nat, NEW c \in Nat, NEW d \in Nat,
           (a >= b /\ c >= d) \/ (a <= b /\ c <= d)
    PROVE  a * d + b * c <= a * c + b * d
<1>1. CASE a >= b /\ c >= d
  <2>1. PICK k \in Nat : a = b + k
      BY <1>1
  <2>2. PICK l \in Nat : c = d + l
      BY <1>1
  <2>3. /\ a * d = b * d + k * d
        /\ b * c = b * d + b * l
        /\ a * c = b * d + b * l + k * d + k * l
      BY <2>1, <2>2
  <2>4. k * l >= 0
      OBVIOUS
  <2> QED
      BY <2>3, <2>4
<1>2. CASE a <= b /\ c <= d
  <2>1. PICK k \in Nat : b = a + k
      BY <1>2
  <2>2. PICK l \in Nat : d = c + l
      BY <1>2
  <2>3. /\ a * d = a * c + a * l
        /\ b * c = a * c + k * c
        /\ b * d = a * c + a * l + k * c + k * l
      BY <2>1, <2>2
  <2>4. k * l >= 0
      OBVIOUS
  <2> QED
      BY <2>3, <2>4
<1> QED
    BY <1>1, <1>2

(* The nine products of two masses.                                        *)
LEMMA Products ==
    ASSUME NEW x \in Whole, NEW y \in Whole
    PROVE  x.of * y.of =
               x.evil * y.evil + x.evil * y.benign + x.evil * y.theta
             + x.benign * y.evil + x.benign * y.benign + x.benign * y.theta
             + x.theta * y.evil + x.theta * y.benign + x.theta * y.theta
<1>1. \A a, b, c, d, e, f \in Nat :
          (a + b + c) * (d + e + f) = a * d + a * e + a * f + b * d + b * e + b * f
                                    + c * d + c * e + c * f
    OBVIOUS
<1>2. /\ x.evil \in Nat /\ x.benign \in Nat /\ x.theta \in Nat
      /\ y.evil \in Nat /\ y.benign \in Nat /\ y.theta \in Nat
      /\ x.of = x.evil + x.benign + x.theta /\ y.of = y.evil + y.benign + y.theta
    BY DEF Whole, Mass
<1> QED
    BY <1>1, <1>2

LEMMA ConflictNat ==
    ASSUME NEW x \in Whole, NEW y \in Whole
    PROVE  Conflict(x, y) \in Nat /\ x.of * y.of \in Nat \ {0}
<1>1. /\ x.evil \in Nat /\ x.benign \in Nat /\ x.of \in Nat \ {0}
      /\ y.evil \in Nat /\ y.benign \in Nat /\ y.of \in Nat \ {0}
    BY DEF Whole, Mass
<1>2. \A a, b \in Nat \ {0} : a * b \in Nat \ {0}
    OBVIOUS
<1>3. x.evil * y.benign \in Nat /\ x.benign * y.evil \in Nat
    BY <1>1, ProductNat
<1> QED
    BY <1>1, <1>2, <1>3 DEF Conflict

(* What is left to Dempster's rule conflicts in half of its mass at most.  *)
LEMMA HalfConflict ==
    ASSUME NEW x \in Whole, NEW y \in Whole, ~KWouldExceed(x, y)
    PROVE  2 * Conflict(x, y) <= x.of * y.of
<1>1. Conflict(x, y) \in Nat /\ x.of * y.of \in Nat
    BY ConflictNat
<1>2. CASE ~(10 * Conflict(x, y) >= 3 * (x.of * y.of))
    BY <1>1, <1>2
<1>3. CASE PrefersEvil(x) <=> PrefersEvil(y)
  <2>1. /\ x.evil \in Nat /\ x.benign \in Nat /\ x.theta \in Nat
        /\ y.evil \in Nat /\ y.benign \in Nat /\ y.theta \in Nat
      BY DEF Whole, Mass
  <2>2. x.evil * y.benign + x.benign * y.evil <= x.evil * y.evil + x.benign * y.benign
    <3>1. \/ x.evil >= x.benign /\ y.evil >= y.benign
          \/ x.evil <= x.benign /\ y.evil <= y.benign
        BY <1>3, <2>1 DEF PrefersEvil
    <3> QED
        BY <2>1, <3>1, AgreeingHalf
  <2>3. /\ x.evil * y.evil \in Nat /\ x.evil * y.benign \in Nat /\ x.evil * y.theta \in Nat
        /\ x.benign * y.evil \in Nat /\ x.benign * y.benign \in Nat /\ x.benign * y.theta \in Nat
        /\ x.theta * y.evil \in Nat /\ x.theta * y.benign \in Nat /\ x.theta * y.theta \in Nat
      BY <2>1, ProductNat
  <2> QED
      BY <2>2, <2>3, Products DEF Conflict
<1> QED
    BY <1>2, <1>3 DEF KWouldExceed

LEMMA PushedWhole ==
    ASSUME NEW met \in [evil : Nat, benign : Nat, theta : Nat, of : Int],
           NEW t \in Nat, NEW d \in Nat \ {0}, met.evil + met.benign + t = d
    PROVE  [met EXCEPT !.theta = t, !.of = d] \in Whole
<1> DEFINE Rec == [evil : Nat, benign : Nat, theta : Nat, of : Int]
           x == [met EXCEPT !.theta = t]
           y == [x EXCEPT !.of = d]
<1>1. x \in Rec /\ x.evil = met.evil /\ x.benign = met.benign /\ x.theta = t
    OBVIOUS
<1> HIDE DEF x
<1>2. y \in Rec /\ y.evil = x.evil /\ y.benign = x.benign /\ y.theta = x.theta /\ y.of = d
    BY <1>1
<1> HIDE DEF y
<1>3. y \in Mass
    BY <1>1, <1>2 DEF Mass
<1>4. y \in Whole
    BY <1>1, <1>2, <1>3 DEF Whole
<1> QED
    BY <1>4 DEF x, y

(* Both rules keep the sum.                                                *)
LEMMA MeetWhole ==
    ASSUME NEW x \in Whole, NEW y \in Whole
    PROVE  /\ Yager(x, y) \in Whole
           /\ Conflict(x, y) < x.of * y.of => Meet(x, y) \in Whole
<1> DEFINE E == x.evil * y.evil + x.evil * y.theta + x.theta * y.evil
           B == x.benign * y.benign + x.benign * y.theta + x.theta * y.benign
           T == x.theta * y.theta
           K == Conflict(x, y)
           D == x.of * y.of
<1>1. /\ x.evil \in Nat /\ x.benign \in Nat /\ x.theta \in Nat
      /\ y.evil \in Nat /\ y.benign \in Nat /\ y.theta \in Nat
    BY DEF Whole, Mass
<1>2. /\ x.evil * y.evil \in Nat /\ x.evil * y.benign \in Nat /\ x.evil * y.theta \in Nat
      /\ x.benign * y.evil \in Nat /\ x.benign * y.benign \in Nat /\ x.benign * y.theta \in Nat
      /\ x.theta * y.evil \in Nat /\ x.theta * y.benign \in Nat /\ x.theta * y.theta \in Nat
    BY <1>1, ProductNat
<1>3. E \in Nat /\ B \in Nat /\ T \in Nat
    BY <1>2
<1>4. K \in Nat /\ D \in Nat \ {0}
    BY ConflictNat
<1>5. E + B + T + K = D
    BY <1>2, Products DEF Conflict
<1>6. Meet(x, y) = [evil |-> E, benign |-> B, theta |-> T, of |-> D - K]
    BY DEF Meet
<1> DEFINE met == Meet(x, y)
           yager == [met EXCEPT !.theta = T + K, !.of = D]
<1>7. Yager(x, y) = yager
    BY <1>6 DEF Yager
<1> HIDE DEF E, B, T, K, D, met
<1>8. Yager(x, y) \in Whole
  <2>1. met \in [evil : Nat, benign : Nat, theta : Nat, of : Int]
      BY <1>3, <1>4, <1>6 DEF met
  <2>2. T + K \in Nat
      BY <1>3, <1>4
  <2>3. met.evil + met.benign + (T + K) = D
      BY <1>3, <1>4, <1>5, <1>6 DEF met
  <2> QED
      BY <1>4, <1>7, <2>1, <2>2, <2>3, PushedWhole, ZenonT(30)
<1>9. K < D => Meet(x, y) \in Whole
    BY <1>3, <1>4, <1>5, <1>6 DEF Whole, Mass
<1> QED
    BY <1>8, <1>9 DEF K, D

LEMMA WithinProduct ==
    ASSUME NEW x \in Whole, NEW y \in Whole
    PROVE  Conflict(x, y) <= x.of * y.of
<1>1. /\ x.evil \in Nat /\ x.benign \in Nat /\ x.theta \in Nat
      /\ y.evil \in Nat /\ y.benign \in Nat /\ y.theta \in Nat
    BY DEF Whole, Mass
<1>2. /\ x.evil * y.evil \in Nat /\ x.evil * y.benign \in Nat /\ x.evil * y.theta \in Nat
      /\ x.benign * y.evil \in Nat /\ x.benign * y.benign \in Nat /\ x.benign * y.theta \in Nat
      /\ x.theta * y.evil \in Nat /\ x.theta * y.benign \in Nat /\ x.theta * y.theta \in Nat
    BY <1>1, ProductNat
<1> QED
    BY <1>2, Products DEF Conflict

LEMMA BpaWhole ==
    ASSUME NEW r \in AgentReport, r.n <= r.of
    PROVE  Bpa(r) \in Whole
<1> DEFINE k == 20 - r.ignorance
           rest == r.of - r.n
<1>1. /\ r.n \in Nat /\ r.of \in Nat \ {0} /\ r.ignorance \in 0 .. 20
    BY DEF AgentReport
<1>2. k \in Nat /\ rest \in Nat /\ 5 + r.ignorance \in Nat /\ k + (5 + r.ignorance) = 25
      /\ r.n + rest = r.of
    BY <1>1
<1>3. /\ k * r.n \in Nat /\ k * rest \in Nat /\ (5 + r.ignorance) * r.of \in Nat
      /\ 25 * r.of \in Nat \ {0}
    BY <1>1, <1>2, ProductNat
<1>4. \A a, b, c, d \in Nat : a * b + a * c + d * (b + c) = (a + d) * (b + c)
    OBVIOUS
<1>5. k * r.n + k * rest + (5 + r.ignorance) * r.of = 25 * r.of
    BY <1>1, <1>2, <1>4
<1>6. Bpa(r) = [evil |-> k * r.n, benign |-> k * rest, theta |-> (5 + r.ignorance) * r.of,
                of |-> 25 * r.of]
    BY DEF Bpa
<1> HIDE DEF k, rest
<1> QED
    BY <1>3, <1>5, <1>6 DEF Whole, Mass

-----------------------------------------------------------------------------
(* The fold.                                                               *)

Actions == {"none", "mitigate", "escalate_human", "conflict_ledger", "observe"}

(* The invariant: the masses are whole at every turn, and the last use of  *)
(* Dempster's rule left half of them.                                      *)
Inv ==
    /\ Reporting(reports)
    /\ folded \in 1 .. Len(reports)
    /\ m \in Whole
    /\ norm \in Nat \X (Nat \ {0}) /\ norm[2] <= 2 * norm[1]
    /\ calm \in Nat \X (Nat \ {0})
    /\ action \in Actions

LEMMA ReportWhole ==
    ASSUME Reporting(reports), NEW i \in 1 .. Len(reports)
    PROVE  Bpa(reports[i]) \in Whole
<1>1. reports \in Seq(AgentReport) /\ \A j \in DOMAIN reports : reports[j].n <= reports[j].of
    BY DEF Reporting
<1>2. DOMAIN reports = 1 .. Len(reports) /\ reports[i] \in AgentReport
    BY <1>1, ElementOfSeq, LenProperties
<1> QED
    BY <1>1, <1>2, BpaWhole

LEMMA InitInv == Init => Inv
<1> SUFFICES ASSUME Init PROVE Inv
    OBVIOUS
<1>1. Reporting(reports)
    BY InputsAssumption DEF Init
<1>2. Len(reports) \in Nat \ {0}
    BY <1>1, LenProperties, EmptySeq DEF Reporting
<1>3. 1 \in 1 .. Len(reports)
    BY <1>2
<1>4. m \in Whole
    BY <1>1, <1>3, ReportWhole DEF Init
<1>5. /\ <<1, 1>> \in Nat \X (Nat \ {0})
      /\ <<1, 1>>[2] <= 2 * <<1, 1>>[1]
    OBVIOUS
<1> QED
    BY <1>1, <1>3, <1>4, <1>5 DEF Init, Inv, Actions

LEMMA CombineInv == Inv /\ Combine => Inv'
<1> SUFFICES ASSUME Inv, Combine PROVE Inv'
    OBVIOUS
<1> DEFINE y == Bpa(reports[folded + 1])
           K == Conflict(m, y)
           d == m.of * y.of
<1>1. /\ Reporting(reports) /\ m \in Whole /\ reports' = reports
      /\ folded \in 1 .. Len(reports) /\ folded < Len(reports)
    BY DEF Inv, Combine
<1>2. Len(reports) \in Nat
    BY <1>1, LenProperties DEF Reporting
<1>3. folded + 1 \in 1 .. Len(reports)
    BY <1>1, <1>2
<1>4. y \in Whole
    BY <1>1, <1>3, ReportWhole
<1>5. K \in Nat /\ d \in Nat \ {0}
    BY <1>1, <1>4, ConflictNat
<1>6. Reporting(reports') /\ folded + 1 \in 1 .. Len(reports')
    BY <1>1, <1>3
<1>7. CASE KWouldExceed(m, y)
  <2>1. /\ m' = Yager(m, y) /\ folded' = folded + 1 /\ norm' = norm /\ action' = action
        /\ calm' = <<calm[1] * (d - K), calm[2] * d>>
      BY <1>7 DEF Combine
  <2>2. m' \in Whole
      BY <1>1, <1>4, <2>1, MeetWhole
  <2>3. K <= d
      BY <1>1, <1>4, WithinProduct
  <2>4. calm' \in Nat \X (Nat \ {0})
    <3>1. calm[1] \in Nat /\ calm[2] \in Nat \ {0} /\ d - K \in Nat
        BY <1>5, <2>3 DEF Inv
    <3>2. calm[1] * (d - K) \in Nat
        BY <3>1, ProductNat
    <3>3. \A a, b \in Nat \ {0} : a * b \in Nat \ {0}
        OBVIOUS
    <3>4. calm[2] * d \in Nat \ {0}
        BY <1>5, <3>1, <3>3
    <3> HIDE DEF d, K
    <3> QED
        BY <2>1, <3>2, <3>4
  <2> QED
      BY <1>6, <2>1, <2>2, <2>4 DEF Inv
<1>8. CASE ~KWouldExceed(m, y)
  <2>1. 2 * K <= d
      BY <1>1, <1>4, <1>8, HalfConflict
  <2>2. K < d
      BY <1>5, <2>1
  <2>3. /\ m' = Meet(m, y) /\ folded' = folded + 1 /\ norm' = <<d - K, d>>
        /\ action' = action /\ calm' = calm
      BY <1>8, <2>2 DEF Combine
  <2>4. m' \in Whole
      BY <1>1, <1>4, <2>2, <2>3, MeetWhole
  <2>5. norm' \in Nat \X (Nat \ {0}) /\ norm'[2] <= 2 * norm'[1]
      BY <1>5, <2>1, <2>3
  <2> QED
      BY <1>6, <2>3, <2>4, <2>5 DEF Inv
<1> QED
    BY <1>7, <1>8

LEMMA DecideInv == Inv /\ Decide => Inv'
<1> SUFFICES ASSUME Inv, Decide PROVE Inv'
    OBVIOUS
<1>1. action' \in Actions
    BY DEF Decide, Action, Actions
<1> QED
    BY <1>1 DEF Inv, Decide

LEMMA Invariance == Spec => []Inv
<1>1. Inv /\ [Next]_vars => Inv'
    BY CombineInv, DecideInv DEF Next, vars, Inv
<1> QED
    BY <1>1, InitInv, PTL DEF Spec

(* Type correctness: whatever is fused, the masses stay natural numbers    *)
(* that add up to their denominator (ds_fusion.py:39-133).                 *)
THEOREM TypeCorrect == Spec => []TypeOK
<1>1. Inv => TypeOK
    BY DEF Inv, Whole, Actions, TypeOK
<1> QED
    BY <1>1, Invariance, PTL

(* The error for a total conflict cannot be raised, and Dempster's rule    *)
(* never divides by less than one half, for every list of reports          *)
(* (ds_fusion.py:84-133).                                                  *)
THEOREM NeverTotalConflict == Spec => []ConflictBounded
<1>1. Inv => ConflictBounded
    BY DEF Inv, Actions, ConflictBounded
<1> QED
    BY <1>1, Invariance, PTL

-----------------------------------------------------------------------------
(* Corroboration.                                                          *)

(* The evil that two masses have in common, over what they have in common  *)
(* at all, is no smaller share than that of the first.                     *)
LEMMA Lifted ==
    ASSUME NEW E \in Nat, NEW B \in Nat, NEW T \in Nat,
           NEW e \in Nat, NEW b \in Nat, NEW t \in Nat, e >= b
    PROVE  E * ((E*e + E*t + T*e) + (B*b + B*t + T*b) + T*t) <= (E*e + E*t + T*e) * (E + B + T)
<1>1. PICK k \in Nat : e = b + k
    BY e - b \in Nat
<1> DEFINE P == E*e + E*t + T*e
           D == E*B*k + E*T*k + B*T*e + T*T*e
<1>2. P * (E + B + T) = E * (P + (B*b + B*t + T*b) + T*t) + D
    BY <1>1
<1>3. D \in Nat /\ E * (P + (B*b + B*t + T*b) + T*t) \in Nat
    OBVIOUS
<1> HIDE DEF D, P
<1>4. E * (P + (B*b + B*t + T*b) + T*t) <= P * (E + B + T)
    BY <1>2, <1>3
<1> QED
    BY <1>4 DEF P

LEMMA CombineLifts ==
    Inv /\ Combine =>
        (folded' > folded /\ PrefersEvil(m) /\ PrefersEvil(Bpa(reports[folded']))
         => AtMost(m.evil, m.of, m'.evil, m'.of))
<1> SUFFICES ASSUME Inv, Combine, folded' > folded, PrefersEvil(m),
                    PrefersEvil(Bpa(reports[folded']))
             PROVE  AtMost(m.evil, m.of, m'.evil, m'.of)
    OBVIOUS
<1>1. folded' = folded + 1
    BY DEF Combine, Inv
<1> DEFINE y == Bpa(reports[folded + 1])
<1>2. PrefersEvil(y)
    BY <1>1
<1>3. ~KWouldExceed(m, y)
    BY <1>2 DEF KWouldExceed
<1>4. m \in Whole /\ y \in Whole
    <2>1. Reporting(reports) /\ folded \in 1 .. Len(reports) /\ folded < Len(reports) /\ m \in Whole
        BY DEF Inv, Combine
    <2>2. Len(reports) \in Nat
        BY <2>1, LenProperties DEF Reporting
    <2>3. folded + 1 \in 1 .. Len(reports)
        BY <2>1, <2>2
    <2> QED
        BY <2>1, <2>3, ReportWhole
<1>5. 2 * Conflict(m, y) <= m.of * y.of
    BY <1>3, <1>4, HalfConflict
<1>6. Conflict(m, y) < m.of * y.of
    BY <1>4, <1>5, ConflictNat
<1>7. m' = Meet(m, y)
    BY <1>3, <1>6 DEF Combine
<1>8. Meet(m, y) \in Whole
    BY <1>4, <1>6, MeetWhole
<1>9. PICK E \in Nat, B \in Nat, T \in Nat, e \in Nat, b \in Nat, t \in Nat :
          /\ E = m.evil /\ B = m.benign /\ T = m.theta
          /\ e = y.evil /\ b = y.benign /\ t = y.theta
    BY <1>4 DEF Whole, Mass
<1> DEFINE P == E*e + E*t + T*e
           Q == B*b + B*t + T*b
<1>10. /\ m'.evil = P /\ m'.benign = Q /\ m'.theta = T * t
       /\ m'.of = m'.evil + m'.benign + m'.theta
       /\ m'.evil \in Nat /\ m'.of \in Nat \ {0}
    BY <1>7, <1>8, <1>9 DEF Meet, Whole, Mass
<1>11. m.of = E + B + T /\ m.of \in Nat \ {0}
    BY <1>4, <1>9 DEF Whole, Mass
<1>12. e >= b
    BY <1>2, <1>9 DEF PrefersEvil
<1>13. E * (P + Q + T * t) <= P * (E + B + T)
    BY <1>12, Lifted
<1> HIDE DEF P, Q
<1> QED
    BY <1>9, <1>10, <1>11, <1>13, AtMostIs

(* A report that leans to evil never lowers the belief of a fold that      *)
(* leans to evil (ds_fusion.py:84-133): so it is for every list of         *)
(* reports, whatever their confidences.                                    *)
THEOREM CorroborationHolds == Spec => Corroborated
<1> DEFINE Lifts ==
        (/\ folded' > folded
         /\ PrefersEvil(m) /\ PrefersEvil(Bpa(reports[folded'])))
        => AtMost(m.evil, m.of, m'.evil, m'.of)
<1>1. Inv /\ [Next]_vars => [Lifts]_vars
    <2>1. ASSUME Inv, Decide PROVE Lifts
        <3>1. folded' = folded /\ folded \in Nat
            BY <2>1, LenProperties DEF Decide, Inv, Reporting
        <3> QED
            BY <3>1
    <2> QED
        BY <2>1, CombineLifts DEF Next
<1> QED
    BY <1>1, Invariance, PTL DEF Spec, Corroborated

-----------------------------------------------------------------------------
(* Agreement: the fold is a product.                                       *)

(* The partial products exist, and Product is the last of them.            *)
LEMMA ProductIs ==
    ASSUME NEW n \in Nat, NEW f \in [1 .. n -> Nat]
    PROVE  \E p \in [0 .. n -> Nat] :
               /\ p[0] = 1
               /\ \A i \in 1 .. n : p[i] = p[i - 1] * f[i]
               /\ Product(f) = p[n]
<1> DEFINE Step(p, k) == p[0] = 1 /\ \A i \in 1 .. k : p[i] = p[i - 1] * f[i]
           S == {k \in 0 .. n : \E p \in [0 .. k -> Nat] : Step(p, k)}
           P(p) == p = [i \in 0 .. n |-> IF i = 0 THEN 1 ELSE p[i - 1] * f[i]]
           w == CHOOSE p : P(p)
<1>1. 0 \in S
    <2> DEFINE p == [i \in 0 .. 0 |-> 1]
    <2>1. p \in [0 .. 0 -> Nat] /\ Step(p, 0)
        OBVIOUS
    <2> HIDE DEF p, Step
    <2> QED
        BY <2>1
<1>2. ASSUME NEW k \in 1 .. n, k - 1 \in S
      PROVE  k \in S
    <2>1. PICK p \in [0 .. k - 1 -> Nat] : Step(p, k - 1)
        BY <1>2
    <2> DEFINE q == [i \in 0 .. k |-> IF i = k THEN p[k - 1] * f[k] ELSE p[i]]
    <2>2. q \in [0 .. k -> Nat]
        OBVIOUS
    <2>3. Step(q, k)
        BY <2>1
    <2> HIDE DEF q, Step
    <2> QED
        BY <2>2, <2>3
<1>3. n \in S
    <2> HIDE DEF S
    <2>1. \A k \in 0 .. n : k \in S
        BY <1>1, <1>2, Upwards
    <2> QED
        BY <2>1
<1>4. PICK p \in [0 .. n -> Nat] : Step(p, n)
    BY <1>3
<1>5. P(p)
    BY <1>4
<1>6. P(w)
    <2> HIDE DEF P
    <2> QED
        BY <1>5
<1>7. Len(f) = n
    OBVIOUS
<1>8. Product(f) = w[n]
    BY <1>7 DEF Product
<1> HIDE DEF w
<1> DEFINE R == {k \in 0 .. n : w[k] \in Nat}
<1>9. 0 \in R
    BY <1>6
<1>10. ASSUME NEW k \in 1 .. n, k - 1 \in R
       PROVE  k \in R
    <2>1. w[k] = w[k - 1] * f[k]
        BY <1>6
    <2> QED
        BY <1>10, <2>1
<1>11. \A k \in 0 .. n : w[k] \in Nat
    <2>1. \A k \in 0 .. n : k \in R
        <3> HIDE DEF R
        <3> QED
            BY <1>9, <1>10, Upwards
    <2> QED
        BY <2>1
<1>12. w \in [0 .. n -> Nat] /\ w[0] = 1 /\ \A i \in 1 .. n : w[i] = w[i - 1] * f[i]
    BY <1>6, <1>11
<1> QED
    BY <1>8, <1>12

(* One factor more.                                                        *)
LEMMA ProductNext ==
    ASSUME NEW n \in Nat, NEW f \in [1 .. n -> Nat], NEW g \in [1 .. n + 1 -> Nat],
           \A i \in 1 .. n : g[i] = f[i]
    PROVE  Product(f) \in Nat /\ Product(g) = Product(f) * g[n + 1]
<1>1. PICK p \in [0 .. n -> Nat] :
          /\ p[0] = 1
          /\ \A i \in 1 .. n : p[i] = p[i - 1] * f[i]
          /\ Product(f) = p[n]
    BY ProductIs
<1>2. PICK q \in [0 .. n + 1 -> Nat] :
          /\ q[0] = 1
          /\ \A i \in 1 .. n + 1 : q[i] = q[i - 1] * g[i]
          /\ Product(g) = q[n + 1]
    BY ProductIs, n + 1 \in Nat
<1> DEFINE S == {k \in 0 .. n : p[k] = q[k]}
<1>3. 0 \in S
    BY <1>1, <1>2
<1>4. ASSUME NEW k \in 1 .. n, k - 1 \in S
      PROVE  k \in S
    <2>1. p[k] = p[k - 1] * f[k] /\ q[k] = q[k - 1] * g[k] /\ f[k] = g[k]
        BY <1>1, <1>2
    <2> QED
        BY <1>4, <2>1
<1>5. n \in S
    <2> HIDE DEF S
    <2>1. \A k \in 0 .. n : k \in S
        BY <1>3, <1>4, Upwards
    <2> QED
        BY <2>1
<1> QED
    BY <1>1, <1>2, <1>5

LEMMA ProductFirst ==
    ASSUME NEW f \in [1 .. 1 -> Nat]
    PROVE  Product(f) = f[1]
<1>1. PICK p \in [0 .. 1 -> Nat] :
          p[0] = 1 /\ (\A i \in 1 .. 1 : p[i] = p[i - 1] * f[i]) /\ Product(f) = p[1]
    BY ProductIs
<1> QED
    BY <1>1

(* The masses of the first n reports, and the sums that make a product.    *)
Thetas(n)  == [i \in 1 .. n |-> Bpa(reports[i]).theta]
Evils(n)   == [i \in 1 .. n |-> Bpa(reports[i]).evil + Bpa(reports[i]).theta]
Benigns(n) == [i \in 1 .. n |-> Bpa(reports[i]).benign + Bpa(reports[i]).theta]

Alike(n) ==
    \A i, j \in 1 .. n : PrefersEvil(Bpa(reports[i])) <=> PrefersEvil(Bpa(reports[j]))

(* The invariant: the preference, which tells the rule, is part of it.     *)
AgreeInv ==
    Alike(folded) =>
        /\ PrefersEvil(m) <=> PrefersEvil(Bpa(reports[1]))
        /\ m.theta = Product(Thetas(folded))
        /\ m.evil + m.theta = Product(Evils(folded))
        /\ m.benign + m.theta = Product(Benigns(folded))

(* Dempster's rule on two masses of one preference.                        *)
LEMMA MeetAlike ==
    ASSUME NEW E \in Nat, NEW B \in Nat, NEW T \in Nat,
           NEW e \in Nat, NEW b \in Nat, NEW t \in Nat, E >= B <=> e >= b
    PROVE  /\ E*e + E*t + T*e >= B*b + B*t + T*b <=> e >= b
           /\ (E*e + E*t + T*e) + T*t = (E + T) * (e + t)
           /\ (B*b + B*t + T*b) + T*t = (B + T) * (b + t)
<1>1. CASE E >= B /\ e >= b
    <2>1. PICK j \in Nat, k \in Nat : E = B + j /\ e = b + k
        BY <1>1, E - B \in Nat, e - b \in Nat
    <2>2. E*e + E*t + T*e = (B*b + B*t + T*b) + (B*k + j*b + j*k + j*t + T*k)
        BY <2>1
    <2>3. B*k + j*b + j*k + j*t + T*k \in Nat /\ B*b + B*t + T*b \in Nat
        OBVIOUS
    <2> DEFINE D == B*k + j*b + j*k + j*t + T*k
               Q == B*b + B*t + T*b
    <2> HIDE DEF D, Q
    <2>4. E*e + E*t + T*e >= Q
        BY <2>2, <2>3 DEF D, Q
    <2> QED
        BY <1>1, <2>4 DEF Q
<1>2. CASE E < B /\ e < b
    <2>1. PICK j \in Nat \ {0}, k \in Nat \ {0} : B = E + j /\ b = e + k
        BY <1>2, B - E \in Nat \ {0}, b - e \in Nat \ {0}
    <2> DEFINE D == E*k + j*e + j*k + j*t + T*k
               P == E*e + E*t + T*e
    <2>2. B*b + B*t + T*b = P + D
        BY <2>1
    <2>3. E*k \in Nat /\ j*e \in Nat /\ j*k \in Nat \ {0} /\ j*t \in Nat /\ T*k \in Nat
        OBVIOUS
    <2>4. D \in Nat \ {0} /\ P \in Nat
        BY <2>3
    <2> HIDE DEF D, P
    <2>5. ~(P >= B*b + B*t + T*b)
        BY <2>2, <2>4
    <2> QED
        BY <1>2, <2>5 DEF P
<1> QED
    BY <1>1, <1>2

LEMMA MassesNat ==
    ASSUME Reporting(reports), NEW n \in 0 .. Len(reports)
    PROVE  /\ Thetas(n) \in [1 .. n -> Nat]
           /\ Evils(n) \in [1 .. n -> Nat]
           /\ Benigns(n) \in [1 .. n -> Nat]
<1>1. Len(reports) \in Nat
    BY LenProperties DEF Reporting
<1>2. \A i \in 1 .. n : /\ Bpa(reports[i]).evil \in Nat
                        /\ Bpa(reports[i]).benign \in Nat
                        /\ Bpa(reports[i]).theta \in Nat
    BY <1>1, ReportWhole DEF Whole, Mass
<1>3. \A i \in 1 .. n : /\ Bpa(reports[i]).evil + Bpa(reports[i]).theta \in Nat
                        /\ Bpa(reports[i]).benign + Bpa(reports[i]).theta \in Nat
    BY <1>2
<1> QED
    BY <1>2, <1>3 DEF Thetas, Evils, Benigns

LEMMA MassesNext ==
    ASSUME Reporting(reports), NEW n \in 1 .. Len(reports), n < Len(reports)
    PROVE  LET y == Bpa(reports[n + 1]) IN
           /\ Product(Thetas(n)) \in Nat
           /\ Product(Evils(n)) \in Nat
           /\ Product(Benigns(n)) \in Nat
           /\ Product(Thetas(n + 1)) = Product(Thetas(n)) * y.theta
           /\ Product(Evils(n + 1)) = Product(Evils(n)) * (y.evil + y.theta)
           /\ Product(Benigns(n + 1)) = Product(Benigns(n)) * (y.benign + y.theta)
<1> DEFINE y == Bpa(reports[n + 1])
<1>1. n \in Nat /\ n + 1 \in 0 .. Len(reports) /\ n \in 0 .. Len(reports)
    BY LenProperties DEF Reporting
<1>2. Product(Thetas(n)) \in Nat /\ Product(Thetas(n + 1)) = Product(Thetas(n)) * y.theta
    <2>1. Thetas(n) \in [1 .. n -> Nat] /\ Thetas(n + 1) \in [1 .. n + 1 -> Nat]
        BY <1>1, MassesNat
    <2>2. (\A i \in 1 .. n : Thetas(n + 1)[i] = Thetas(n)[i]) /\ Thetas(n + 1)[n + 1] = y.theta
        BY <1>1 DEF Thetas
    <2> HIDE DEF y
    <2> QED
        BY <1>1, <2>1, <2>2, ProductNext
<1>3. /\ Product(Evils(n)) \in Nat
      /\ Product(Evils(n + 1)) = Product(Evils(n)) * (y.evil + y.theta)
    <2>1. Evils(n) \in [1 .. n -> Nat] /\ Evils(n + 1) \in [1 .. n + 1 -> Nat]
        BY <1>1, MassesNat
    <2>2. /\ \A i \in 1 .. n : Evils(n + 1)[i] = Evils(n)[i]
          /\ Evils(n + 1)[n + 1] = y.evil + y.theta
        BY <1>1 DEF Evils
    <2> HIDE DEF y
    <2> QED
        BY <1>1, <2>1, <2>2, ProductNext
<1>4. /\ Product(Benigns(n)) \in Nat
      /\ Product(Benigns(n + 1)) = Product(Benigns(n)) * (y.benign + y.theta)
    <2>1. Benigns(n) \in [1 .. n -> Nat] /\ Benigns(n + 1) \in [1 .. n + 1 -> Nat]
        BY <1>1, MassesNat
    <2>2. /\ \A i \in 1 .. n : Benigns(n + 1)[i] = Benigns(n)[i]
          /\ Benigns(n + 1)[n + 1] = y.benign + y.theta
        BY <1>1 DEF Benigns
    <2> HIDE DEF y
    <2> QED
        BY <1>1, <2>1, <2>2, ProductNext
<1> QED
    BY <1>2, <1>3, <1>4

LEMMA InitAgree == Init => AgreeInv
<1> SUFFICES ASSUME Init PROVE AgreeInv
    OBVIOUS
<1>1. Reporting(reports) /\ folded = 1 /\ m = Bpa(reports[1])
    BY InputsAssumption DEF Init
<1>2. 1 \in 0 .. Len(reports)
    BY <1>1, LenProperties, EmptySeq DEF Reporting
<1>3. /\ Thetas(1) \in [1 .. 1 -> Nat] /\ Evils(1) \in [1 .. 1 -> Nat]
      /\ Benigns(1) \in [1 .. 1 -> Nat]
    BY <1>1, <1>2, MassesNat
<1>4. /\ Product(Thetas(1)) = Thetas(1)[1] /\ Product(Evils(1)) = Evils(1)[1]
      /\ Product(Benigns(1)) = Benigns(1)[1]
    BY <1>3, ProductFirst
<1> QED
    BY <1>1, <1>4 DEF AgreeInv, Thetas, Evils, Benigns

(* What a turn does to the masses: one of the rules, on whole masses.      *)
LEMMA OneTurn ==
    ASSUME Inv, Combine
    PROVE  LET y == Bpa(reports[folded + 1]) IN
           /\ folded + 1 \in 1 .. Len(reports) /\ folded < Len(reports)
           /\ m \in Whole /\ y \in Whole
           /\ folded' = folded + 1 /\ reports' = reports /\ action' = action
           /\ \/ KWouldExceed(m, y) /\ m' = Yager(m, y)
              \/ ~KWouldExceed(m, y) /\ m' = Meet(m, y)
<1> DEFINE y == Bpa(reports[folded + 1])
<1>1. /\ Reporting(reports) /\ folded \in 1 .. Len(reports) /\ folded < Len(reports)
      /\ m \in Whole
    BY DEF Inv, Combine
<1>2. Len(reports) \in Nat
    BY <1>1, LenProperties DEF Reporting
<1>3. folded + 1 \in 1 .. Len(reports)
    BY <1>1, <1>2
<1>4. y \in Whole
    BY <1>1, <1>3, ReportWhole
<1>5. ~KWouldExceed(m, y) => Conflict(m, y) < m.of * y.of
    <2>1. ~KWouldExceed(m, y) => 2 * Conflict(m, y) <= m.of * y.of
        BY <1>1, <1>4, HalfConflict
    <2> QED
        BY <1>1, <1>4, <2>1, ConflictNat
<1>6. folded' = folded + 1 /\ reports' = reports /\ action' = action
    BY <1>5 DEF Combine
<1>7. \/ KWouldExceed(m, y) /\ m' = Yager(m, y)
      \/ ~KWouldExceed(m, y) /\ m' = Meet(m, y)
    BY <1>5 DEF Combine
<1> QED
    BY <1>1, <1>3, <1>4, <1>6, <1>7

LEMMA CombineAgree == Inv /\ AgreeInv /\ Combine => AgreeInv'
<1> SUFFICES ASSUME Inv, AgreeInv, Combine, Alike(folded)'
             PROVE  (/\ PrefersEvil(m) <=> PrefersEvil(Bpa(reports[1]))
                     /\ m.theta = Product(Thetas(folded))
                     /\ m.evil + m.theta = Product(Evils(folded))
                     /\ m.benign + m.theta = Product(Benigns(folded)))'
    BY DEF AgreeInv
<1> DEFINE y == Bpa(reports[folded + 1])
<1>1. /\ folded + 1 \in 1 .. Len(reports) /\ folded < Len(reports)
      /\ m \in Whole /\ y \in Whole
      /\ folded' = folded + 1 /\ reports' = reports
      /\ \/ KWouldExceed(m, y) /\ m' = Yager(m, y)
         \/ ~KWouldExceed(m, y) /\ m' = Meet(m, y)
    BY OneTurn
<1>2. Reporting(reports) /\ folded \in 1 .. Len(reports)
    BY DEF Inv
<1>3. Alike(folded + 1)
    BY <1>1 DEF Alike
<1>4. Alike(folded) /\ (PrefersEvil(y) <=> PrefersEvil(Bpa(reports[1])))
    <2>1. /\ \A i \in 1 .. folded : i \in 1 .. folded + 1
          /\ 1 \in 1 .. folded + 1 /\ folded + 1 \in 1 .. folded + 1
        BY <1>2
    <2> QED
        BY <1>3, <2>1, Zenon DEF Alike
<1>5. /\ PrefersEvil(m) <=> PrefersEvil(Bpa(reports[1]))
      /\ m.theta = Product(Thetas(folded))
      /\ m.evil + m.theta = Product(Evils(folded))
      /\ m.benign + m.theta = Product(Benigns(folded))
    BY <1>4 DEF AgreeInv
<1>6. PrefersEvil(m) <=> PrefersEvil(y)
    BY <1>4, <1>5
<1>7. m' = Meet(m, y)
    <2> HIDE DEF y
    <2>1. ~KWouldExceed(m, y)
        BY <1>6 DEF KWouldExceed, PrefersEvil
    <2> QED
        BY <1>1, <2>1
<1>8. PICK E \in Nat, B \in Nat, T \in Nat, e \in Nat, b \in Nat, t \in Nat :
          /\ E = m.evil /\ B = m.benign /\ T = m.theta
          /\ e = y.evil /\ b = y.benign /\ t = y.theta
    BY <1>1 DEF Whole, Mass
<1>9. E >= B <=> e >= b
    BY <1>6, <1>8 DEF PrefersEvil
<1>10. /\ m'.evil = E*e + E*t + T*e
       /\ m'.benign = B*b + B*t + T*b
       /\ m'.theta = T*t
    BY <1>7, <1>8 DEF Meet
<1>11. /\ m'.evil >= m'.benign <=> e >= b
       /\ m'.theta = T * t
       /\ m'.evil + m'.theta = (E + T) * (e + t)
       /\ m'.benign + m'.theta = (B + T) * (b + t)
    BY <1>9, <1>10, MeetAlike
<1>12. /\ Product(Thetas(folded + 1)) = Product(Thetas(folded)) * t
       /\ Product(Evils(folded + 1)) = Product(Evils(folded)) * (e + t)
       /\ Product(Benigns(folded + 1)) = Product(Benigns(folded)) * (b + t)
    BY <1>1, <1>2, <1>8, MassesNext
<1>13. PrefersEvil(m') <=> PrefersEvil(Bpa(reports[1]))
    BY <1>4, <1>8, <1>11 DEF PrefersEvil
<1>14. /\ m'.theta = Product(Thetas(folded + 1))
       /\ m'.evil + m'.theta = Product(Evils(folded + 1))
       /\ m'.benign + m'.theta = Product(Benigns(folded + 1))
    BY <1>5, <1>8, <1>11, <1>12
<1>15. /\ Thetas(folded)' = Thetas(folded + 1)
       /\ Evils(folded)' = Evils(folded + 1)
       /\ Benigns(folded)' = Benigns(folded + 1)
    BY <1>1 DEF Thetas, Evils, Benigns
<1> QED
    BY <1>1, <1>13, <1>14, <1>15

LEMMA DecideAgree == AgreeInv /\ Decide => AgreeInv'
BY DEF AgreeInv, Decide, Alike, Thetas, Evils, Benigns

(* One preference among the reports: they are alike.                       *)
LEMMA OnePreference ==
    ASSUME Reporting(reports), NEW n \in 1 .. Len(reports),
           Cardinality({PrefersEvil(Bpa(reports[i])) : i \in 1 .. n}) = 1
    PROVE  Alike(n)
<1> DEFINE S == {PrefersEvil(Bpa(reports[i])) : i \in 1 .. n}
<1>1. S \in SUBSET {TRUE, FALSE}
    <2>1. ASSUME NEW i \in 1 .. n PROVE PrefersEvil(Bpa(reports[i])) \in BOOLEAN
        <3>1. Bpa(reports[i]) \in Whole
            BY LenProperties, ReportWhole DEF Reporting
        <3>2. PICK e \in Nat, b \in Nat : e = Bpa(reports[i]).evil /\ b = Bpa(reports[i]).benign
            BY <3>1 DEF Whole, Mass
        <3>3. (e >= b) \in BOOLEAN
            OBVIOUS
        <3> QED
            BY <3>2, <3>3, Zenon DEF PrefersEvil
    <2>2. BOOLEAN = {TRUE, FALSE}
        OBVIOUS
    <2> QED
        BY <2>1, <2>2, Zenon
<1>2. IsFiniteSet({TRUE, FALSE})
    <2>1. IsFiniteSet({TRUE})
        BY FS_Singleton
    <2>2. IsFiniteSet({TRUE} \cup {FALSE})
        BY <2>1, FS_AddElement
    <2> QED
        BY <2>2
<1>3. IsFiniteSet(S)
    <2> HIDE DEF S
    <2> QED
        BY <1>1, <1>2, FS_Subset
<1>4. PICK x : S = {x}
    <2> HIDE DEF S
    <2>1. Cardinality(S) = 1
        BY DEF S
    <2> QED
        BY <1>3, <2>1, FS_Singleton
<1>5. \A i \in 1 .. n : PrefersEvil(Bpa(reports[i])) = x
    BY <1>4, Zenon
<1> QED
    BY <1>5, Zenon DEF Alike

(* While no two reports oppose each other the fold is a product over all   *)
(* of them, so it does not depend on their order (ds_fusion.py:84-133).    *)
THEOREM OrderDoesNotMatter == Spec => []AgreementIsProduct
<1>1. AgreeInv /\ Inv /\ [Next]_vars => AgreeInv'
    <2>1. AgreeInv /\ UNCHANGED vars => AgreeInv'
        BY DEF AgreeInv, vars, Alike, Thetas, Evils, Benigns
    <2> QED
        BY <2>1, CombineAgree, DecideAgree DEF Next
<1>2. Inv /\ AgreeInv => AgreementIsProduct
    <2> SUFFICES ASSUME Inv, AgreeInv PROVE AgreementIsProduct
        OBVIOUS
    <2> DEFINE xs == [i \in 1 .. folded |-> Bpa(reports[i])]
    <2>1. folded \in Nat /\ folded \in 1 .. Len(reports) /\ m \in Whole /\ Reporting(reports)
        BY LenProperties DEF Inv, Reporting
    <2>2. DOMAIN xs = 1 .. folded /\ \A i \in 1 .. folded : xs[i] = Bpa(reports[i])
        OBVIOUS
    <2>3. {PrefersEvil(xs[i]) : i \in DOMAIN xs} = {PrefersEvil(Bpa(reports[i])) : i \in 1 .. folded}
        BY <2>2, Zenon
    <2>4. /\ [i \in DOMAIN xs |-> xs[i].theta] = Thetas(folded)
          /\ [i \in DOMAIN xs |-> xs[i].evil + xs[i].theta] = Evils(folded)
          /\ [i \in DOMAIN xs |-> xs[i].benign + xs[i].theta] = Benigns(folded)
        BY <2>2 DEF Thetas, Evils, Benigns
    <2> HIDE DEF xs
    <2>5. ASSUME Cardinality({PrefersEvil(xs[i]) : i \in DOMAIN xs}) = 1
          PROVE  /\ m.theta = Product(Thetas(folded))
                 /\ m.evil = Product(Evils(folded)) - Product(Thetas(folded))
                 /\ m.benign = Product(Benigns(folded)) - Product(Thetas(folded))
        <3>1. Alike(folded)
            BY <2>1, <2>3, <2>5, OnePreference
        <3>2. /\ m.theta = Product(Thetas(folded))
              /\ m.evil + m.theta = Product(Evils(folded))
              /\ m.benign + m.theta = Product(Benigns(folded))
            BY <3>1 DEF AgreeInv
        <3>3. m.evil \in Nat /\ m.benign \in Nat /\ m.theta \in Nat
            BY <2>1 DEF Whole, Mass
        <3> QED
            BY <3>2, <3>3
    <2> QED
        BY <2>4, <2>5, Zenon DEF AgreementIsProduct, xs
<1> QED
    BY <1>1, <1>2, InitAgree, Invariance, PTL DEF Spec

-----------------------------------------------------------------------------
(* One report against the others.  The masses of a report are those of a   *)
(* confidence of f parts, e + b = s * f and t = (25 - s) * f, where s is   *)
(* 19 or 17: to_bpa with an ignorance of 0.05 or 0.15.                     *)

LEMMA MulLe ==
    ASSUME NEW a \in Nat, NEW b \in Nat, NEW c \in Nat, NEW d \in Nat, a <= b, c <= d
    PROVE  a * c <= b * d
<1>1. PICK j \in Nat, k \in Nat : b = a + j /\ d = c + k
    BY b - a \in Nat, d - c \in Nat
<1>2. b * d = a * c + (a * k + j * c + j * k)
    BY <1>1
<1>3. a * k \in Nat /\ j * c \in Nat /\ j * k \in Nat /\ a * c \in Nat
    OBVIOUS
<1> QED
    BY <1>2, <1>3

LEMMA Cancel ==
    ASSUME NEW a \in Nat, NEW b \in Nat, NEW f \in Nat, a * f < b * f
    PROVE  a < b
<1>1. CASE b <= a
    <2>1. b * f <= a * f
        BY <1>1, MulLe
    <2>2. a * f \in Nat /\ b * f \in Nat
        OBVIOUS
    <2> QED
        BY <2>1, <2>2
<1> QED
    BY <1>1

(* Opposed masses that are left to Dempster's rule: what is not ignorance  *)
(* in the fold is bounded by its ignorance.                                *)
LEMMA Hesitant ==
    ASSUME NEW E \in Nat, NEW B \in Nat, NEW T \in Nat,
           NEW e \in Nat, NEW b \in Nat, NEW f \in Nat, NEW s \in {17, 19},
           e + b = s * f, (E >= B /\ e <= b) \/ (E <= B /\ e >= b),
           10 * (E * b + B * e) < 3 * ((E + B + T) * (25 * f))
    PROVE  /\ s = 17 => 2 * (E + B) < 15 * T
           /\ s = 19 => 4 * (E + B) < 15 * T
<1>1. E * e + B * b <= E * b + B * e
    BY AgreeingHalf
<1>2. (E + B) * (e + b) = (E * e + B * b) + (E * b + B * e)
    OBVIOUS
<1>3. E * e + B * b \in Nat /\ E * b + B * e \in Nat
    OBVIOUS
<1>4. (E + B) * (s * f) <= 2 * (E * b + B * e)
    BY <1>1, <1>2, <1>3
<1> DEFINE K == E * b + B * e
           M == (E + B) * f
           N == (E + B + T) * f
<1>5. K \in Nat /\ M \in Nat /\ N \in Nat
    OBVIOUS
<1>6. (E + B + T) * (25 * f) = 25 * N /\ (E + B) * (s * f) = s * M
    OBVIOUS
<1>7. (s = 17 => (E + B) * (s * f) = 17 * M) /\ (s = 19 => (E + B) * (s * f) = 19 * M)
    BY <1>6
<1>8. (s = 17 => 17 * M < 15 * N) /\ (s = 19 => 19 * M < 15 * N)
    <2> HIDE DEF K, M, N
    <2>1. 10 * K < 75 * N
        BY <1>5, <1>6 DEF K
    <2>2. (s = 17 => 17 * M <= 2 * K) /\ (s = 19 => 19 * M <= 2 * K)
        BY <1>4, <1>7 DEF K
    <2> QED
        BY <1>5, <2>1, <2>2
<1>9. /\ 17 * M = (17 * (E + B)) * f /\ 19 * M = (19 * (E + B)) * f
      /\ 15 * N = (15 * (E + B + T)) * f
    OBVIOUS
<1> HIDE DEF K, M, N
<1>10. CASE s = 17
    <2>1. 17 * (E + B) < 15 * (E + B + T)
        BY <1>8, <1>9, <1>10, Cancel
    <2> QED
        BY <1>10, <2>1
<1>11. CASE s = 19
    <2>1. 19 * (E + B) < 15 * (E + B + T)
        BY <1>8, <1>9, <1>11, Cancel
    <2> QED
        BY <1>11, <2>1
<1> QED
    BY <1>10, <1>11

(* The same for what the fold becomes: no belief in evil of 4/5, and       *)
(* ignorance above the floor.                                              *)
LEMMA StillIgnorant ==
    ASSUME NEW E \in Nat, NEW B \in Nat, NEW T \in Nat, NEW f \in Nat, NEW s \in {17, 19},
           s = 17 => 2 * (E + B) < 15 * T, s = 19 => 4 * (E + B) < 15 * T
    PROVE  8 * ((E + B + T) * (25 * f)) <= 250 * (T * ((25 - s) * f))
<1> DEFINE N == (E + B + T) * f
           Z == T * f
<1>1. N \in Nat /\ Z \in Nat
    OBVIOUS
<1>2. (E + B + T) * (25 * f) = 25 * N
    OBVIOUS
<1>3. CASE s = 17
    <2>1. T * ((25 - s) * f) = 8 * Z
        BY <1>3
    <2>2. E + B + T <= 10 * T
        BY <1>3
    <2>3. (E + B + T) * f <= (10 * T) * f
        BY <2>2, MulLe
    <2>4. N <= 10 * Z
        BY <2>3
    <2> HIDE DEF N, Z
    <2> QED
        BY <1>1, <1>2, <2>1, <2>4
<1>4. CASE s = 19
    <2>1. T * ((25 - s) * f) = 6 * Z
        BY <1>4
    <2>2. 2 * (E + B + T) <= 15 * T
        BY <1>4
    <2>3. (2 * (E + B + T)) * f <= (15 * T) * f
        BY <2>2, MulLe
    <2>4. 2 * N <= 15 * Z
        BY <2>3
    <2> HIDE DEF N, Z
    <2> QED
        BY <1>1, <1>2, <2>1, <2>4
<1> QED
    BY <1>3, <1>4

(* The fold leans to evil, the report to benign.                           *)
LEMMA Countered ==
    ASSUME NEW E \in Nat, NEW B \in Nat, NEW T \in Nat, NEW e \in Nat, NEW b \in Nat,
           NEW f \in Nat \ {0}, NEW s \in {17, 19}, e + b = s * f, e < b,
           6 * (E + T) <= 25 * (B + T), E >= B,
           s = 17 => 2 * (E + B) < 15 * T, s = 19 => 4 * (E + B) < 15 * T
    PROVE  (E + T) * (e + (25 - s) * f) < T * ((25 - s) * f) + 4 * ((B + T) * (b + (25 - s) * f))
<1> DEFINE t == (25 - s) * f
           X == (E + T) * (e + t)
           Y == (B + T) * (b + t)
           Z == T * f
<1>1. t \in Nat /\ X \in Nat /\ Y \in Nat /\ Z \in Nat
    OBVIOUS
<1>2. E + T \in Nat \ {0}
    BY <1>1
<1>3. X < (E + T) * (b + t)
    <2>1. PICK k \in Nat \ {0} : b = e + k
        BY b - e \in Nat \ {0}
    <2>2. (E + T) * (b + t) = X + (E + T) * k
        BY <1>1, <2>1
    <2>3. (E + T) * k \in Nat \ {0}
        BY <1>2
    <2> HIDE DEF X
    <2> QED
        BY <1>1, <2>2, <2>3
<1>4. 6 * ((E + T) * (b + t)) <= 25 * Y
    <2>1. b + t \in Nat
        BY <1>1
    <2>2. (6 * (E + T)) * (b + t) <= (25 * (B + T)) * (b + t)
        <3> HIDE DEF t
        <3> QED
            BY <2>1, MulLe
    <2> QED
        BY <2>2
<1>5. X <= 25 * (T * t)
    <2>1. CASE s = 17
        <3>1. t = 8 * f /\ 2 * (e + t) <= 33 * f
            BY <2>1
        <3>2. 2 * (E + T) <= 17 * T
            BY <2>1
        <3>3. (2 * (E + T)) * (2 * (e + t)) <= (17 * T) * (33 * f)
            <4> HIDE DEF t
            <4> QED
                BY <1>1, <3>1, <3>2, MulLe
        <3>4. 4 * X <= 561 * Z
            BY <3>3
        <3>5. T * t = 8 * Z
            BY <3>1
        <3> HIDE DEF X, Z
        <3> QED
            BY <1>1, <3>4, <3>5
    <2>2. CASE s = 19
        <3>1. t = 6 * f /\ 2 * (e + t) <= 31 * f
            BY <2>2
        <3>2. 4 * (E + T) <= 19 * T
            BY <2>2
        <3>3. (4 * (E + T)) * (2 * (e + t)) <= (19 * T) * (31 * f)
            <4> HIDE DEF t
            <4> QED
                BY <1>1, <3>1, <3>2, MulLe
        <3>4. 8 * X <= 589 * Z
            BY <3>3
        <3>5. T * t = 6 * Z
            BY <3>1
        <3> HIDE DEF X, Z
        <3> QED
            BY <1>1, <3>4, <3>5
    <2> QED
        BY <2>1, <2>2
<1>6. T * t \in Nat /\ (E + T) * (b + t) \in Nat
    BY <1>1
<1> DEFINE U == T * t
           V == (E + T) * (b + t)
<1>7. X < U + 4 * Y
    <2> HIDE DEF U, V, X, Y
    <2>1. U \in Nat /\ V \in Nat /\ X < V /\ 6 * V <= 25 * Y /\ X <= 25 * U
        BY <1>3, <1>4, <1>5, <1>6 DEF U, V
    <2> QED
        BY <1>1, <2>1
<1> QED
    BY <1>7

(* The fold leans to benign, the report to evil.                           *)
LEMMA Opposing ==
    ASSUME NEW E \in Nat, NEW B \in Nat, NEW T \in Nat, NEW e \in Nat, NEW b \in Nat,
           NEW f \in Nat \ {0}, NEW s \in {17, 19}, e + b = s * f, E < B,
           s = 17 => 2 * (E + B) < 15 * T, s = 19 => 4 * (E + B) < 15 * T
    PROVE  (E + T) * (e + (25 - s) * f) < T * ((25 - s) * f) + 4 * ((B + T) * (b + (25 - s) * f))
<1> DEFINE t == (25 - s) * f
           X == (E + T) * (e + t)
           Y == (B + T) * (b + t)
           W == (B + T) * f
           Z == T * f
<1>1. t \in Nat /\ X \in Nat /\ Y \in Nat /\ Z \in Nat /\ W \in Nat \ {0}
    OBVIOUS
<1>2. X <= 25 * W
    <2>1. E + T <= B + T /\ e + t <= 25 * f
        OBVIOUS
    <2>2. (E + T) * (e + t) <= (B + T) * (25 * f)
        <3> HIDE DEF t
        <3> QED
            BY <1>1, <2>1, MulLe
    <2> QED
        BY <2>2
<1>3. (B + T) * t <= Y
    <2>1. t <= b + t
        BY <1>1
    <2> HIDE DEF t
    <2> QED
        BY <1>1, <2>1, MulLe
<1>4. CASE s = 17
    <2>1. (B + T) * t = 8 * W
        BY <1>4
    <2>2. T * t \in Nat
        BY <1>1
    <2>3. X < T * t + 4 * Y
        <3> HIDE DEF X, Y, W, t
        <3> QED
            BY <1>1, <1>2, <1>3, <2>1, <2>2
    <2> QED
        BY <2>3
<1>5. CASE s = 19
    <2>1. (B + T) * t = 6 * W /\ T * t = 6 * Z
        BY <1>5
    <2>2. PICK k \in Nat \ {0} : 6 * T = (B + T) + k
        BY <1>5, 5 * T - B \in Nat \ {0}
    <2>3. 6 * Z = W + k * f
        BY <2>2
    <2>4. k * f \in Nat \ {0}
        OBVIOUS
    <2>5. X < T * t + 4 * Y
        <3> HIDE DEF X, Y, W, Z, t
        <3> QED
            BY <1>1, <1>2, <1>3, <2>1, <2>3, <2>4
    <2> QED
        BY <2>5
<1> QED
    BY <1>4, <1>5

(* Evil is at most 25/6 as plausible as benign; evil is not believed to    *)
(* 4/5, also after the floor of the ignorance.                             *)
Tempered(x) == 6 * (x.evil + x.theta) <= 25 * (x.benign + x.theta)

Doubtful(x) ==
    /\ 5 * x.evil < 4 * x.of
    /\ x.evil >= x.benign => 8 * x.of <= 250 * x.theta

(* The masses of a report with an ignorance of 0.05 or 0.15.               *)
OfReport(y, f, s) ==
    /\ f \in Nat \ {0} /\ s \in {17, 19}
    /\ y.evil + y.benign = s * f
    /\ y.theta = (25 - s) * f
    /\ y.of = 25 * f

LEMMA TemperedProduct ==
    ASSUME NEW E \in Nat, NEW B \in Nat, NEW T \in Nat, NEW e \in Nat, NEW b \in Nat,
           NEW f \in Nat \ {0}, NEW s \in {17, 19}, e + b = s * f,
           (e < b /\ 6 * (E + T) <= 25 * (B + T)) \/ E < B
    PROVE  6 * ((E + T) * (e + (25 - s) * f)) <= 25 * ((B + T) * (b + (25 - s) * f))
<1> DEFINE t == (25 - s) * f
<1>1. t \in Nat
    OBVIOUS
<1>2. CASE e < b /\ 6 * (E + T) <= 25 * (B + T)
    <2>1. (6 * (E + T)) * (e + t) <= (25 * (B + T)) * (b + t)
        <3> HIDE DEF t
        <3> QED
            BY <1>1, <1>2, MulLe
    <2> QED
        BY <2>1
<1>3. CASE E < B
    <2>1. 6 * (e + t) <= 25 * (b + t)
        <3>1. e + t <= 25 * f /\ t >= 6 * f
            OBVIOUS
        <3> HIDE DEF t
        <3> QED
            BY <1>1, <3>1
    <2>2. (E + T) * (6 * (e + t)) <= (B + T) * (25 * (b + t))
        <3> HIDE DEF t
        <3> QED
            BY <1>1, <1>3, <2>1, MulLe
    <2> QED
        BY <2>2
<1> QED
    BY <1>2, <1>3

LEMMA OfReportTempered ==
    ASSUME NEW y \in Whole, NEW f, NEW s, OfReport(y, f, s)
    PROVE  Tempered(y)
<1>1. y.evil \in Nat /\ y.benign \in Nat /\ y.theta \in Nat
    BY DEF Whole, Mass
<1>2. PICK e \in Nat, b \in Nat, t \in Nat : e = y.evil /\ b = y.benign /\ t = y.theta
    BY <1>1
<1>3. f \in Nat \ {0} /\ s \in {17, 19} /\ e + b = s * f /\ t = (25 - s) * f
    BY <1>2 DEF OfReport
<1>4. 6 * (e + t) <= 25 * (b + t)
    BY <1>3
<1> QED
    BY <1>2, <1>4 DEF Tempered

(* The conflict that Yager's rule pushes to theta makes for doubt.         *)
LEMMA YagerDoubtful ==
    ASSUME NEW x \in Whole, NEW y \in Whole, KWouldExceed(x, y)
    PROVE  Doubtful(Yager(x, y))
<1> DEFINE z == Yager(x, y)
           K == Conflict(x, y)
           d == x.of * y.of
<1>1. K \in Nat /\ d \in Nat \ {0} /\ z \in Whole
    BY ConflictNat, MeetWhole
<1>2. 10 * K >= 3 * d
    BY DEF KWouldExceed
<1>3. z.of = d /\ z.theta = x.theta * y.theta + K
    BY DEF Yager, Meet
<1>4. x.theta * y.theta \in Nat
    BY ProductNat DEF Whole, Mass
<1> HIDE DEF z, K, d
<1>5. z.evil \in Nat /\ z.benign \in Nat /\ z.evil + z.benign + z.theta = z.of
    BY <1>1 DEF Whole, Mass
<1>6. z.theta >= K
    BY <1>1, <1>3, <1>4
<1>7. 5 * z.evil < 4 * z.of /\ 8 * z.of <= 250 * z.theta
    BY <1>1, <1>2, <1>3, <1>4, <1>5, <1>6
<1> QED
    BY <1>7 DEF Doubtful, z

(* One turn, against a report that leans to benign or a fold that does.    *)
LEMMA Turned ==
    ASSUME NEW x \in Whole, NEW y \in Whole, NEW f, NEW s, OfReport(y, f, s),
           (~PrefersEvil(y) /\ Tempered(x)) \/ ~PrefersEvil(x),
           NEW z,
           \/ KWouldExceed(x, y) /\ z = Yager(x, y)
           \/ ~KWouldExceed(x, y) /\ z = Meet(x, y)
    PROVE  /\ Tempered(z)
           /\ ~(PrefersEvil(x) <=> PrefersEvil(y)) => Doubtful(z)
<1>1. PICK E \in Nat, B \in Nat, T \in Nat, e \in Nat, b \in Nat, t \in Nat :
          /\ E = x.evil /\ B = x.benign /\ T = x.theta
          /\ e = y.evil /\ b = y.benign /\ t = y.theta
    BY DEF Whole, Mass
<1>2. /\ f \in Nat \ {0} /\ s \in {17, 19} /\ e + b = s * f /\ t = (25 - s) * f
      /\ y.of = 25 * f
    BY <1>1 DEF OfReport
<1>3. x.of = E + B + T
    BY <1>1 DEF Whole, Mass
<1>4. (e < b /\ 6 * (E + T) <= 25 * (B + T)) \/ E < B
    BY <1>1 DEF PrefersEvil, Tempered
<1>5. 6 * ((E + T) * (e + t)) <= 25 * ((B + T) * (b + t))
    BY <1>2, <1>4, TemperedProduct
<1> DEFINE K == E * b + B * e
           P == E*e + E*t + T*e
           Q == B*b + B*t + T*b
<1>6. Conflict(x, y) = K
    BY <1>1 DEF Conflict
<1>7. P + T * t = (E + T) * (e + t) /\ Q + T * t = (B + T) * (b + t)
    OBVIOUS
<1>8. K \in Nat /\ P \in Nat /\ Q \in Nat /\ T * t \in Nat
    OBVIOUS
<1>9. CASE KWouldExceed(x, y) /\ z = Yager(x, y)
    <2>1. z.evil = P /\ z.benign = Q /\ z.theta = T * t + K
        BY <1>1, <1>6, <1>9 DEF Yager, Meet
    <2>2. Tempered(z)
        <3> HIDE DEF K, P, Q
        <3>1. 6 * (P + T * t) <= 25 * (Q + T * t)
            BY <1>5, <1>7
        <3> QED
            BY <1>8, <2>1, <3>1 DEF Tempered
    <2> QED
        BY <1>9, <2>2, YagerDoubtful
<1>10. CASE ~KWouldExceed(x, y) /\ z = Meet(x, y)
    <2>1. z.evil = P /\ z.benign = Q /\ z.theta = T * t /\ z.of = x.of * y.of - K
        BY <1>1, <1>6, <1>10 DEF Meet
    <2>2. Tempered(z)
        <3> HIDE DEF K, P, Q
        <3> QED
            BY <1>5, <1>7, <2>1 DEF Tempered
    <2>3. ASSUME ~(PrefersEvil(x) <=> PrefersEvil(y))
          PROVE  Doubtful(z)
        <3>1. (E >= B /\ e <= b) \/ (E <= B /\ e >= b)
            BY <1>1, <1>4, <2>3 DEF PrefersEvil
        <3>2. x.of * y.of = (E + B + T) * (25 * f)
            BY <1>2, <1>3
        <3>3. 10 * K < 3 * ((E + B + T) * (25 * f))
            <4>1. ~(10 * K >= 3 * (x.of * y.of))
                BY <1>6, <1>10, <2>3 DEF KWouldExceed
            <4>2. x.of * y.of \in Nat
                BY ConflictNat
            <4> HIDE DEF K
            <4> QED
                BY <1>8, <3>2, <4>1, <4>2
        <3>4. (s = 17 => 2 * (E + B) < 15 * T) /\ (s = 19 => 4 * (E + B) < 15 * T)
            BY <1>2, <3>1, <3>3, Hesitant
        <3>5. 8 * ((E + B + T) * (25 * f)) <= 250 * (T * t)
            BY <1>2, <3>4, StillIgnorant
        <3>6. (E + T) * (e + t) < T * t + 4 * ((B + T) * (b + t))
            <4>1. CASE E < B
                BY <1>2, <3>4, <4>1, Opposing
            <4>2. CASE E >= B
                BY <1>2, <1>4, <3>4, <4>2, Countered
            <4> QED
                BY <4>1, <4>2
        <3>7. P < 4 * (Q + T * t)
            <4> HIDE DEF K, P, Q
            <4> QED
                BY <1>7, <1>8, <3>6
        <3>8. z.of = P + Q + T * t
            <4>1. x.of * y.of = P + Q + T * t + K
                BY <1>2, <1>3
            <4> HIDE DEF K, P, Q
            <4> QED
                BY <1>8, <2>1, <4>1
        <3>9. z.of <= x.of * y.of
            <4> HIDE DEF K, P, Q
            <4> QED
                BY <1>8, <2>1, ConflictNat
        <3>10. x.of * y.of \in Nat
            BY ConflictNat
        <3>11. 5 * z.evil < 4 * z.of
            <4> HIDE DEF K, P, Q
            <4> QED
                BY <1>8, <2>1, <3>7, <3>8
        <3>12. 8 * z.of <= 250 * z.theta
            <4> HIDE DEF K, P, Q
            <4> QED
                BY <1>8, <2>1, <3>2, <3>5, <3>8, <3>9, <3>10
        <3> QED
            BY <3>11, <3>12 DEF Doubtful
    <2> QED
        BY <2>2, <2>3
<1> QED
    BY <1>9, <1>10

-----------------------------------------------------------------------------
(* A mitigation needs two.                                                 *)

Leans(i) == PrefersEvil(Bpa(reports[i]))

NoneLeans(n) == \A i \in 1 .. n : ~Leans(i)

AtMostOne(n) == \A i, j \in 1 .. n : Leans(i) /\ Leans(j) => i = j

(* The invariant: of reports of which one leans to evil at most the fold   *)
(* does not believe in evil once there is a second.  For the next report   *)
(* that is known because evil is not much more plausible than benign.      *)
SoleInv ==
    /\ Evaluated(reports)
    /\ NoneLeans(folded) => ~PrefersEvil(m)
    /\ AtMostOne(folded) => Tempered(m) /\ (folded >= 2 => Doubtful(m))
    /\ MitigationNeedsTwo

LEMMA ReportMasses ==
    ASSUME Reporting(reports), Evaluated(reports), NEW i \in 1 .. Len(reports)
    PROVE  /\ Bpa(reports[i]) \in Whole
           /\ \E f, s : OfReport(Bpa(reports[i]), f, s)
<1>1. reports \in Seq(AgentReport) /\ \A j \in DOMAIN reports : reports[j].n <= reports[j].of
    BY DEF Reporting
<1>2. DOMAIN reports = 1 .. Len(reports) /\ reports[i] \in AgentReport
    BY <1>1, ElementOfSeq, LenProperties
<1>3. reports[i].ignorance \in {1, 3} /\ reports[i].n <= reports[i].of
    BY <1>1, <1>2 DEF Evaluated
<1>4. PICK n \in Nat, f \in Nat \ {0}, k \in {1, 3} :
          n = reports[i].n /\ f = reports[i].of /\ k = reports[i].ignorance /\ n <= f
    BY <1>2, <1>3 DEF AgentReport
<1> DEFINE y == Bpa(reports[i])
<1>5. /\ y.evil = (20 - k) * n /\ y.benign = (20 - k) * (f - n)
      /\ y.theta = (5 + k) * f /\ y.of = 25 * f
    BY <1>4 DEF Bpa
<1> HIDE DEF y
<1>6. PICK r \in Nat : f = n + r
    BY <1>4, f - n \in Nat
<1>7. 20 - k \in {17, 19} /\ 5 + k = 25 - (20 - k)
    OBVIOUS
<1>8. (20 - k) * n + (20 - k) * (f - n) = (20 - k) * f
    BY <1>6
<1>9. OfReport(y, f, 20 - k)
    BY <1>5, <1>7, <1>8 DEF OfReport
<1> QED
    BY <1>1, <1>2, <1>9, BpaWhole DEF y

LEMMA InitSole == Init => SoleInv
<1> SUFFICES ASSUME Init PROVE SoleInv
    OBVIOUS
<1>1. /\ Reporting(reports) /\ Evaluated(reports) /\ folded = 1 /\ m = Bpa(reports[1])
      /\ action = "none"
    BY InputsAssumption, EvaluatedAssumption DEF Init
<1>2. 1 \in 1 .. Len(reports)
    BY <1>1, LenProperties, EmptySeq DEF Reporting
<1>3. Tempered(m)
    BY <1>1, <1>2, ReportMasses, OfReportTempered
<1>4. NoneLeans(1) => ~PrefersEvil(m)
    BY <1>1 DEF NoneLeans, Leans
<1> QED
    BY <1>1, <1>3, <1>4 DEF SoleInv, MitigationNeedsTwo

LEMMA CombineSole == Inv /\ SoleInv /\ Combine => SoleInv'
<1> SUFFICES ASSUME Inv, SoleInv, Combine PROVE SoleInv'
    OBVIOUS
<1> DEFINE y == Bpa(reports[folded + 1])
<1>1. /\ folded + 1 \in 1 .. Len(reports) /\ folded < Len(reports)
      /\ m \in Whole /\ y \in Whole
      /\ folded' = folded + 1 /\ reports' = reports /\ action' = action
      /\ \/ KWouldExceed(m, y) /\ m' = Yager(m, y)
         \/ ~KWouldExceed(m, y) /\ m' = Meet(m, y)
    BY OneTurn
<1>2. /\ Reporting(reports) /\ Evaluated(reports) /\ folded \in 1 .. Len(reports)
      /\ NoneLeans(folded) => ~PrefersEvil(m)
      /\ AtMostOne(folded) => Tempered(m)
      /\ MitigationNeedsTwo
    BY DEF Inv, SoleInv
<1>3. PICK f, s : OfReport(y, f, s)
    BY <1>1, <1>2, ReportMasses
<1>4. (\A i \in 1 .. folded : i \in 1 .. folded + 1) /\ folded + 1 \in 1 .. folded + 1
    BY <1>2
<1>5. /\ NoneLeans(folded + 1) => NoneLeans(folded) /\ ~PrefersEvil(y)
      /\ AtMostOne(folded + 1) => AtMostOne(folded)
    BY <1>4, Zenon DEF NoneLeans, AtMostOne, Leans
<1>6. AtMostOne(folded + 1) /\ PrefersEvil(y) => NoneLeans(folded)
    <2>1. \A i \in 1 .. folded : i # folded + 1
        BY <1>2
    <2> QED
        BY <1>4, <2>1, Zenon DEF AtMostOne, NoneLeans, Leans
<1> DEFINE z == m'
<1>7. z \in Whole
    <2>1. ~KWouldExceed(m, y) => Conflict(m, y) < m.of * y.of
        <3>1. ~KWouldExceed(m, y) => 2 * Conflict(m, y) <= m.of * y.of
            BY <1>1, HalfConflict
        <3> HIDE DEF y
        <3> QED
            BY <1>1, <3>1, ConflictNat
    <2> HIDE DEF y
    <2> QED
        BY <1>1, <2>1, MeetWhole
<1> HIDE DEF y
<1>8. ~PrefersEvil(m) /\ ~PrefersEvil(y) => ~PrefersEvil(z)
    <2> SUFFICES ASSUME ~PrefersEvil(m), ~PrefersEvil(y) PROVE ~PrefersEvil(z)
        OBVIOUS
    <2>1. ~KWouldExceed(m, y)
        BY DEF KWouldExceed, PrefersEvil
    <2>2. z = Meet(m, y)
        BY <1>1, <2>1
    <2>3. PICK E \in Nat, B \in Nat, T \in Nat, e \in Nat, b \in Nat, t \in Nat :
              /\ E = m.evil /\ B = m.benign /\ T = m.theta
              /\ e = y.evil /\ b = y.benign /\ t = y.theta
        BY <1>1 DEF Whole, Mass
    <2>4. E < B /\ e < b
        BY <2>3 DEF PrefersEvil
    <2>5. ~(E*e + E*t + T*e >= B*b + B*t + T*b)
        BY <2>4, MeetAlike
    <2> QED
        BY <2>2, <2>3, <2>5 DEF PrefersEvil, Meet
<1>9. NoneLeans(folded + 1) => ~PrefersEvil(z)
    BY <1>2, <1>5, <1>8
<1>10. AtMostOne(folded + 1) => Tempered(z) /\ Doubtful(z)
    <2> SUFFICES ASSUME AtMostOne(folded + 1) PROVE Tempered(z) /\ Doubtful(z)
        OBVIOUS
    <2>1. (~PrefersEvil(y) /\ Tempered(m)) \/ ~PrefersEvil(m)
        BY <1>2, <1>5, <1>6
    <2>2. Tempered(z) /\ (~(PrefersEvil(m) <=> PrefersEvil(y)) => Doubtful(z))
        <3> HIDE DEF z
        <3>1. \/ KWouldExceed(m, y) /\ z = Yager(m, y)
              \/ ~KWouldExceed(m, y) /\ z = Meet(m, y)
            BY <1>1 DEF z
        <3> QED
            BY <1>1, <1>3, <2>1, <3>1, Turned
    <2>3. CASE PrefersEvil(m) <=> PrefersEvil(y)
        <3>1. ~PrefersEvil(z)
            BY <1>8, <2>1, <2>3
        <3>2. z.evil \in Nat /\ z.benign \in Nat /\ z.theta \in Nat
              /\ z.of = z.evil + z.benign + z.theta
            BY <1>7 DEF Whole, Mass
        <3>3. z.evil < z.benign
            BY <3>1, <3>2 DEF PrefersEvil
        <3> HIDE DEF z
        <3> QED
            BY <2>2, <3>2, <3>3 DEF Doubtful
    <2> QED
        BY <2>2, <2>3
<1>11. NoneLeans(folded)' = NoneLeans(folded + 1) /\ AtMostOne(folded)' = AtMostOne(folded + 1)
    BY <1>1 DEF NoneLeans, AtMostOne, Leans
<1>12. Evaluated(reports)' /\ MitigationNeedsTwo'
    BY <1>1, <1>2 DEF MitigationNeedsTwo
<1> QED
    BY <1>9, <1>10, <1>11, <1>12 DEF SoleInv

LEMMA FloorIs ==
    ASSUME Reporting(reports), Evaluated(reports)
    PROVE  Floor \in {6, 8}
<1> DEFINE declared == {i \in DOMAIN reports : reports[i].ignorance > 0}
           Most(i) == \A j \in declared : reports[j].ignorance <= reports[i].ignorance
           most == CHOOSE i \in declared : Most(i)
<1>1. DOMAIN reports = 1 .. Len(reports) /\ Len(reports) \in Nat \ {0}
    BY LenProperties, EmptySeq DEF Reporting
<1>2. \A i \in DOMAIN reports : reports[i].ignorance \in {1, 3}
    BY DEF Evaluated
<1>3. declared = DOMAIN reports /\ 1 \in declared
    BY <1>1, <1>2
<1>4. \E i \in declared : Most(i)
    <2>1. CASE \E i \in declared : reports[i].ignorance = 3
        BY <1>2, <1>3, <2>1
    <2>2. CASE \A i \in declared : reports[i].ignorance # 3
        BY <1>2, <1>3, <2>2
    <2> QED
        BY <2>1, <2>2
<1>5. most \in declared
    <2> HIDE DEF Most, declared
    <2> QED
        BY <1>4
<1>6. Floor = 5 + reports[most].ignorance
    BY <1>3 DEF Floor
<1> HIDE DEF most
<1>7. reports[most].ignorance \in {1, 3}
    BY <1>2, <1>3, <1>5
<1> QED
    BY <1>6, <1>7

(* A doubtful fold does not reach 4/5.                                     *)
LEMMA DoubtfulBelief ==
    ASSUME Reporting(reports), Evaluated(reports), m \in Whole, Doubtful(m)
    PROVE  ~BeliefAtLeast(4, 5)
<1>1. PICK F \in {6, 8} : F = Floor
    BY FloorIs
<1>2. PICK E \in Nat, B \in Nat, T \in Nat, of \in Nat \ {0} :
          E = m.evil /\ B = m.benign /\ T = m.theta /\ of = m.of /\ of = E + B + T
    BY DEF Whole, Mass
<1>3. 5 * E < 4 * of /\ (E >= B => 8 * of <= 250 * T)
    BY <1>2 DEF Doubtful
<1>4. AtMost(F, 250, T, of) <=> F * of <= T * 250
    BY AtMostIs
<1>5. CASE AtMost(F, 250, T, of)
    <2>1. AtMost(4, 5, E, of) <=> 4 * of <= E * 5
        BY AtMostIs
    <2>2. ~AtMost(4, 5, E, of)
        BY <1>3, <2>1
    <2> QED
        BY <1>1, <1>2, <1>5, <2>2 DEF BeliefAtLeast
<1>6. CASE ~AtMost(F, 250, T, of)
    <2>1. F * of > T * 250
        BY <1>4, <1>6
    <2>2. E < B /\ E + B \in Nat \ {0}
        BY <1>2, <1>3, <2>1
    <2>3. PICK c \in Nat \ {0} : c = (250 - F) * 5 /\ c <= 1220
        OBVIOUS
    <2>4. AtMost(1000, c, E, E + B) <=> 1000 * (E + B) <= E * c
        BY <2>2, <2>3, AtMostIs
    <2>5. E * c <= E * 1220
        BY <2>3, MulLe
    <2>6. ~AtMost(1000, c, E, E + B)
        <3>1. E * c \in Nat
            BY <2>3
        <3> QED
            BY <2>2, <2>4, <2>5, <3>1
    <2>7. BeliefAtLeast(4, 5) <=> AtMost(1000, c, E, E + B)
        <3>1. 250 * 4 = 1000
            OBVIOUS
        <3> QED
            BY <1>1, <1>2, <1>6, <2>3, <3>1 DEF BeliefAtLeast
    <2> QED
        BY <2>6, <2>7
<1> QED
    BY <1>5, <1>6

LEMMA OneSensor ==
    ASSUME Reporting(reports), Len(reports) = 1
    PROVE  ~(SensorDiversity >= 2)
<1>1. DOMAIN reports = {1}
    BY LenProperties DEF Reporting
<1>2. {reports[i].sensor : i \in DOMAIN reports} = {reports[1].sensor}
    BY <1>1, Zenon
<1>3. Cardinality({reports[1].sensor}) = 1
    BY FS_Singleton
<1> QED
    BY <1>2, <1>3 DEF SensorDiversity

LEMMA DecideSole == Inv /\ SoleInv /\ Decide => SoleInv'
<1> SUFFICES ASSUME Inv, SoleInv, Decide PROVE SoleInv'
    OBVIOUS
<1>1. /\ Reporting(reports) /\ Evaluated(reports) /\ folded = Len(reports) /\ m \in Whole
      /\ AtMostOne(folded) /\ folded >= 2 => Doubtful(m)
    BY DEF Inv, SoleInv, Decide
<1>2. reports' = reports /\ folded' = folded /\ m' = m /\ action' = Action
    BY DEF Decide
<1>3. DOMAIN reports = 1 .. folded /\ folded \in Nat \ {0}
    BY <1>1, LenProperties, EmptySeq DEF Reporting
<1>4. ASSUME Action = "mitigate"
      PROVE  ~AtMostOne(folded)
    <2>1. BeliefAtLeast(4, 5) /\ SensorDiversity >= 2
        BY <1>4 DEF Action
    <2>2. folded # 1
        BY <1>1, <2>1, OneSensor
    <2>3. folded >= 2
        BY <1>3, <2>2
    <2> QED
        BY <1>1, <2>1, <2>3, DoubtfulBelief
<1>5. ~AtMostOne(folded) =>
          \E i, j \in DOMAIN reports :
              /\ i # j /\ reports[i].agent # reports[j].agent
              /\ PrefersEvil(Bpa(reports[i])) /\ PrefersEvil(Bpa(reports[j]))
    <2> SUFFICES ASSUME ~AtMostOne(folded)
                 PROVE  \E i, j \in DOMAIN reports :
                            /\ i # j /\ reports[i].agent # reports[j].agent
                            /\ PrefersEvil(Bpa(reports[i])) /\ PrefersEvil(Bpa(reports[j]))
        OBVIOUS
    <2>1. PICK i \in 1 .. folded : \E j \in 1 .. folded : Leans(i) /\ Leans(j) /\ i # j
        BY DEF AtMostOne
    <2>2. PICK j \in 1 .. folded : Leans(i) /\ Leans(j) /\ i # j
        BY <2>1
    <2>3. i \in DOMAIN reports /\ j \in DOMAIN reports
        BY <1>3
    <2>4. reports[i].agent # reports[j].agent
        BY <1>1, <2>2, <2>3 DEF Evaluated
    <2> QED
        BY <2>2, <2>3, <2>4 DEF Leans
<1>6. MitigationNeedsTwo'
    BY <1>2, <1>4, <1>5 DEF MitigationNeedsTwo
<1>7. NoneLeans(folded)' = NoneLeans(folded) /\ AtMostOne(folded)' = AtMostOne(folded)
    BY <1>2 DEF NoneLeans, AtMostOne, Leans
<1> QED
    BY <1>2, <1>6, <1>7 DEF SoleInv

LEMMA SoleInvariance == Spec => [](Inv /\ SoleInv)
<1>1. Inv /\ SoleInv /\ [Next]_vars => SoleInv'
    <2>1. SoleInv /\ UNCHANGED vars => SoleInv'
        BY DEF SoleInv, vars, NoneLeans, AtMostOne, Leans, MitigationNeedsTwo
    <2> QED
        BY <2>1, CombineSole, DecideSole DEF Next
<1> QED
    BY <1>1, InitSole, Invariance, PTL DEF Spec

(* A mitigation needs two agents that do not lean to benign, of any number *)
(* of agents with any confidences: neither counter-evidence, which counts  *)
(* as a sensor, nor the conflict it makes lifts a single opinion to 4/5    *)
(* (ds_fusion.py:112-160, evaluator.py:40-48).  It rests on the ignorance  *)
(* that threshold.evaluate declares (threshold.py:80-82): an agent with an *)
(* ignorance of 0 that is certain reaches 4/5 against one of 0.15 that     *)
(* leans a little to benign.                                               *)
THEOREM NobodyMitigatesAlone == Spec => []MitigationNeedsTwo
<1>1. SoleInv => MitigationNeedsTwo
    BY DEF SoleInv
<1> QED
    BY <1>1, SoleInvariance, PTL

-----------------------------------------------------------------------------
(* Decisions.                                                              *)

(* None is no number, technique, signature, consensus or key pair, neither *)
(* it nor an exception is a target, and another key pair is not that of    *)
(* the deployment.                                                         *)
NoneIsNothing ==
    /\ None \notin Nat /\ None \notin Technique
    /\ \A c, b, p, o :
           None # [contributing |-> c, belief |-> b, plausibility |-> p, of |-> o]
    /\ \A type, value : [type |-> type, value |-> value] \notin {None, Raises}
    /\ \A key, body : None # [by |-> key, over |-> body]
    /\ CacaoKey # None /\ CacaoKey # "another key"

(* Actuators, one at least, none of them the end step or a forged one.     *)
Ends == {"another", "findevil.end"}

Acting(acts, n) ==
    /\ n \in Nat \ {0} /\ Len(acts) = n
    /\ \A i \in 1 .. n : acts[i] \notin Ends

LEMMA OneActs == ASSUME NEW a, a \notin Ends PROVE Acting(<<a>>, 1)
    BY DEF Acting

LEMMA TwoAct == ASSUME NEW a, NEW b, a \notin Ends, b \notin Ends PROVE Acting(<<a, b>>, 2)
    BY DEF Acting

LEMMA ThreeAct ==
    ASSUME NEW a, NEW b, NEW c, a \notin Ends, b \notin Ends, c \notin Ends
    PROVE  Acting(<<a, b, c>>, 3)
    BY DEF Acting

LEMMA ActionsAct ==
    ASSUME NEW name, CacaoActions(name) # <<>>
    PROVE  \E n : Acting(CacaoActions(name), n)
<1> DEFINE Does(acts) == \E n : Acting(acts, n)
<1>1. /\ Does(<<"edr.remove_persistence">>) /\ Does(<<"edr.delete_scheduled_task">>)
      /\ Does(<<"iam.disable_account">>) /\ Does(<<"yara.quarantine_file">>)
      /\ Does(<<"edr.reenable_defender">>)
    <2>1. {"edr.remove_persistence", "edr.delete_scheduled_task", "iam.disable_account",
           "yara.quarantine_file", "edr.reenable_defender"} \cap Ends = {}
        BY DEF Ends
    <2> QED
        BY <2>1, OneActs
<1>2. /\ Does(<<"edr.kill_process", "edr.network_isolate">>)
      /\ Does(<<"edr.acquire_memory", "edr.network_isolate">>)
      /\ Does(<<"edr.block_domain", "edr.sinkhole">>)
      /\ Does(<<"edr.block_url", "yara.quarantine">>)
      /\ Does(<<"edr.network_isolate", "edr.snapshot_disk">>)
      /\ Does(<<"yara.quarantine", "yara.block_hash">>)
    <2>1. {"edr.kill_process", "edr.network_isolate", "edr.acquire_memory", "edr.block_domain",
           "edr.sinkhole", "edr.block_url", "yara.quarantine", "edr.snapshot_disk",
           "yara.block_hash"} \cap Ends = {}
        BY DEF Ends
    <2> QED
        BY <2>1, TwoAct
<1>3. Does(<<"edr.kill_process", "iam.force_reset", "yara.block_hash">>)
    <2>1. {"edr.kill_process", "iam.force_reset", "yara.block_hash"} \cap Ends = {}
        BY DEF Ends
    <2> QED
        BY <2>1, ThreeAct
<1> HIDE DEF Does
<1>4. CacaoActions(name) = <<>> \/ Does(CacaoActions(name))
    BY <1>1, <1>2, <1>3 DEF CacaoActions
<1> QED
    BY <1>4 DEF Does

LEMMA ActuatorsAct ==
    ASSUME NEW technique
    PROVE  \E n : Acting(Actuators(technique), n)
<1>1. CASE technique # None /\ CacaoActions(technique.name) # <<>>
    BY <1>1, ActionsAct, Zenon DEF Actuators
<1>2. CASE ~(technique # None /\ CacaoActions(technique.name) # <<>>)
    <2>1. Actuators(technique) = <<"analyst.review">>
        BY <1>2 DEF Actuators
    <2>2. "analyst.review" \notin Ends
        BY DEF Ends
    <2> QED
        BY <2>1, <2>2, OneActs
<1> QED
    BY <1>1, <1>2

Forged(step) == [step EXCEPT !.actuator = "another"]

(* A chain of n steps to an end step, which a failure of the last one      *)
(* does not reach.                                                         *)
Chained(steps, n) ==
    /\ n \in Nat \ {0}
    /\ steps \in Seq({steps[i] : i \in DOMAIN steps}) /\ Len(steps) = n + 1
    /\ \A i \in 1 .. n :
           /\ steps[i].actuator \notin Ends
           /\ steps[i].onSuccess = i + 1
           /\ steps[i].onFailure = IF i < n THEN i + 1 ELSE None
    /\ steps[n + 1].actuator = "findevil.end" /\ steps[n + 1].onSuccess = None
    /\ \A i \in 1 .. n + 1 : Forged(steps[i]).actuator = "another"

(* A function on 1 .. n is a list of n.                                    *)
LEMMA ListIs ==
    ASSUME NEW S, NEW n \in Nat, NEW s \in [1 .. n -> S]
    PROVE  s \in Seq(S) /\ Len(s) = n
<1>1. s \in Seq(S)
    BY SeqDef
<1>2. Len(s) \in Nat /\ DOMAIN s = 1 .. Len(s) /\ DOMAIN s = 1 .. n
    BY <1>1, LenProperties
<1>3. 1 .. Len(s) = 1 .. n
    BY <1>2
<1> DEFINE l == Len(s)
<1> HIDE DEF l
<1>4. \A a, b \in Nat : 1 .. a = 1 .. b => a <= b
    OBVIOUS
<1>5. l \in Nat /\ 1 .. l = 1 .. n
    BY <1>2, <1>3 DEF l
<1>6. l <= n /\ n <= l
    BY <1>4, <1>5
<1>7. l = n
    BY <1>5, <1>6
<1> QED
    BY <1>1, <1>7 DEF l

LEMMA WorkflowChained ==
    ASSUME NEW acts, NEW n, Acting(acts, n), NEW target
    PROVE  Chained(Workflow(acts, target), n)
<1> DEFINE steps == Workflow(acts, target)
<1>1. n \in Nat \ {0} /\ \A i \in 1 .. n : acts[i] \notin Ends
    BY DEF Acting
<1>2. Len(acts) = n
    BY DEF Acting
<1>3. steps = [i \in 1 .. n + 1 |->
                  IF i <= n
                  THEN [actuator |-> acts[i], commands |-> <<target>>,
                        onSuccess |-> i + 1, onFailure |-> IF i < n THEN i + 1 ELSE None]
                  ELSE [actuator |-> "findevil.end", commands |-> <<>>,
                        onSuccess |-> None, onFailure |-> None]]
    BY <1>2 DEF Workflow
<1>4. DOMAIN steps = 1 .. n + 1
    BY <1>3
<1>5. steps \in [1 .. n + 1 -> {steps[i] : i \in DOMAIN steps}]
    BY <1>3, <1>4
<1>6. /\ \A i \in 1 .. n :
             steps[i] = [actuator |-> acts[i], commands |-> <<target>>,
                         onSuccess |-> i + 1, onFailure |-> IF i < n THEN i + 1 ELSE None]
      /\ steps[n + 1] = [actuator |-> "findevil.end", commands |-> <<>>,
                         onSuccess |-> None, onFailure |-> None]
    BY <1>1, <1>3
<1> HIDE DEF steps
<1>7. steps \in Seq({steps[i] : i \in DOMAIN steps}) /\ Len(steps) = n + 1
    <2>1. n + 1 \in Nat
        BY <1>1
    <2> QED
        BY <1>5, <2>1, ListIs
<1>8. \A i \in 1 .. n : /\ steps[i].actuator = acts[i] /\ acts[i] \notin Ends
                         /\ steps[i].onSuccess = i + 1
                         /\ steps[i].onFailure = IF i < n THEN i + 1 ELSE None
    <2> TAKE i \in 1 .. n
    <2> DEFINE next == IF i < n THEN i + 1 ELSE None
    <2>1. steps[i] = [actuator |-> acts[i], commands |-> <<target>>,
                      onSuccess |-> i + 1, onFailure |-> next]
        BY <1>6
    <2> HIDE DEF next
    <2>2. /\ steps[i].actuator = acts[i] /\ steps[i].onSuccess = i + 1
          /\ steps[i].onFailure = next
        BY <2>1
    <2> QED
        BY <1>1, <2>2 DEF next
<1>9. steps[n + 1].actuator = "findevil.end" /\ steps[n + 1].onSuccess = None
    BY <1>6
<1>10. \A i \in 1 .. n + 1 : Forged(steps[i]).actuator = "another"
    <2>1. ASSUME NEW i \in 1 .. n
          PROVE  Forged(steps[i]).actuator = "another"
        BY <1>6 DEF Forged
    <2>2. Forged(steps[n + 1]).actuator = "another"
        BY <1>6 DEF Forged
    <2> QED
        BY <1>1, <2>1, <2>2
<1>11. Chained(steps, n)
    BY <1>1, <1>7, <1>8, <1>9, <1>10 DEF Chained
<1> QED
    BY <1>11 DEF steps

(* Where an execution is after each of its steps.                          *)
After(s, steps, failing) ==
    IF s = None THEN None
    ELSE IF s \in failing THEN steps[s].onFailure ELSE steps[s].onSuccess

Run(at, steps, failing) ==
    at = [n \in 0 .. Len(steps) |-> IF n = 0 THEN 1 ELSE After(at[n - 1], steps, failing)]

Visited(at, steps) ==
    {s \in {at[k] : k \in DOMAIN at} \ {None} : steps[s].actuator # "findevil.end"}

LEMMA RunVisits ==
    ASSUME NEW steps, NEW n, Chained(steps, n), None \notin Nat,
           NEW failing \in SUBSET (1 .. n)
    PROVE  /\ \E at : Run(at, steps, failing)
           /\ \A at : Run(at, steps, failing) => Visited(at, steps) = 1 .. n
<1>1. /\ n \in Nat \ {0} /\ Len(steps) = n + 1
      /\ \A i \in 1 .. n :
             /\ steps[i].actuator # "findevil.end"
             /\ steps[i].onSuccess = i + 1
             /\ i < n => steps[i].onFailure = i + 1
      /\ steps[n].onFailure = None
      /\ steps[n + 1].actuator = "findevil.end" /\ steps[n + 1].onSuccess = None
    BY DEF Chained, Ends
<1> DEFINE stop == IF n \in failing THEN None ELSE n + 1
           way == [k \in 0 .. n + 1 |->
                      IF k < n THEN k + 1 ELSE IF k = n THEN stop ELSE None]
<1>2. Run(way, steps, failing)
    <2>1. ASSUME NEW k \in 0 .. n + 1
          PROVE  way[k] = IF k = 0 THEN 1 ELSE After(way[k - 1], steps, failing)
        <3>1. CASE k = 0
            BY <1>1, <3>1
        <3>2. CASE k \in 1 .. n
            <4>1. way[k - 1] = k /\ k # None
                BY <1>1, <3>2
            <4>2. way[k] = IF k \in failing THEN steps[k].onFailure ELSE steps[k].onSuccess
                BY <1>1, <3>2
            <4> HIDE DEF way
            <4> QED
                BY <3>2, <4>1, <4>2 DEF After
        <3>3. CASE k = n + 1
            <4>1. way[k - 1] = stop /\ way[k] = None
                BY <1>1, <3>3
            <4>2. n + 1 \notin failing /\ n + 1 # None
                BY <1>1
            <4> HIDE DEF way
            <4> QED
                BY <1>1, <3>3, <4>1, <4>2 DEF After
        <3> HIDE DEF way
        <3> QED
            BY <1>1, <3>1, <3>2, <3>3
    <2>2. way = [k \in 0 .. n + 1 |-> way[k]]
        OBVIOUS
    <2> HIDE DEF way
    <2> QED
        BY <1>1, <2>1, <2>2 DEF Run
<1>3. ASSUME NEW at, Run(at, steps, failing)
      PROVE  Visited(at, steps) = 1 .. n
    <2>1. /\ DOMAIN at = 0 .. n + 1 /\ at[0] = 1
          /\ \A k \in 1 .. n + 1 : at[k] = After(at[k - 1], steps, failing)
        BY <1>1, <1>3 DEF Run
    <2> DEFINE S == {k \in 0 .. n - 1 : at[k] = k + 1}
    <2>2. 0 \in S
        BY <1>1, <2>1
    <2>3. ASSUME NEW k \in 1 .. n - 1, k - 1 \in S
          PROVE  k \in S
        <3>1. at[k - 1] = k /\ k # None /\ k \in 1 .. n + 1
            BY <1>1, <2>3
        <3>2. steps[k].onFailure = k + 1 /\ steps[k].onSuccess = k + 1
            BY <1>1
        <3> QED
            BY <2>1, <3>1, <3>2 DEF After
    <2>4. \A k \in 0 .. n - 1 : k \in S
        <3>1. n - 1 \in Nat
            BY <1>1
        <3> HIDE DEF S
        <3> QED
            BY <2>2, <2>3, <3>1, Upwards
    <2>5. \A k \in 0 .. n - 1 : at[k] = k + 1
        BY <2>4
    <2>6. at[n] \in {None, n + 1}
        <3>1. at[n - 1] = n /\ n # None /\ at[n] = After(at[n - 1], steps, failing)
            BY <1>1, <2>1, <2>5
        <3>2. steps[n].onFailure = None /\ steps[n].onSuccess = n + 1
            BY <1>1
        <3> QED
            BY <3>1, <3>2 DEF After
    <2>7. at[n + 1] = None
        <3>1. n + 1 \notin failing /\ steps[n + 1].onSuccess = None
            BY <1>1
        <3>2. at[n + 1] = After(at[n], steps, failing)
            BY <1>1, <2>1
        <3> QED
            BY <2>6, <3>1, <3>2 DEF After
    <2>8. ASSUME NEW s \in 1 .. n
          PROVE  s \in {at[k] : k \in DOMAIN at} \ {None}
        <3>1. s - 1 \in DOMAIN at /\ at[s - 1] = s /\ s # None
            BY <1>1, <2>1, <2>5
        <3> QED
            BY <3>1
    <2>9. ASSUME NEW k \in DOMAIN at, at[k] # None, steps[at[k]].actuator # "findevil.end"
          PROVE  at[k] \in 1 .. n
        <3>1. k \in 0 .. n - 1 \/ k = n \/ k = n + 1
            BY <1>1, <2>1
        <3> QED
            BY <1>1, <2>5, <2>6, <2>7, <2>9, <3>1
    <2>10. \A s \in 1 .. n : steps[s].actuator # "findevil.end"
        BY <1>1
    <2> QED
        BY <2>8, <2>9, <2>10 DEF Visited
<1> QED
    BY <1>2, <1>3

(* Whichever of its steps fail, a playbook runs all of them.               *)
LEMMA AllStepsRun ==
    ASSUME NEW pb, NEW n, Chained(pb.body.workflow, n), None \notin Nat,
           pb.body.workflowStart = 1, NEW failing \in SUBSET (1 .. n)
    PROVE  StepsRun(pb, failing) = 1 .. n
<1> DEFINE steps == pb.body.workflow
           at == CHOOSE f : Run(f, steps, failing)
<1>1. Run(at, steps, failing)
    <2> HIDE DEF steps
    <2> QED
        BY RunVisits, Zenon DEF steps
<1>2. Visited(at, steps) = 1 .. n
    <2> HIDE DEF at, steps
    <2>1. Chained(steps, n)
        BY DEF steps
    <2>2. \A f : Run(f, steps, failing) => Visited(f, steps) = 1 .. n
        BY <2>1, RunVisits
    <2> QED
        BY <1>1, <2>2
<1>3. StepsRun(pb, failing) = Visited(at, steps)
    BY DEF StepsRun, Run, After, Visited
<1> QED
    BY <1>2, <1>3

LEMMA FirstItem ==
    ASSUME NEW T, NEW ts \in Seq(T), ts # <<>>
    PROVE  1 \in DOMAIN ts /\ ts[1] \in T
<1>1. Len(ts) \in Nat /\ Len(ts) # 0 /\ DOMAIN ts = 1 .. Len(ts)
    BY EmptySeq, LenProperties
<1>2. 1 \in DOMAIN ts
    BY <1>1
<1> QED
    BY <1>2

(* The pivot looks into the technique of the playbook, unless that is a    *)
(* word.                                                                   *)
LEMMA SameTechnique ==
    ASSUME NEW rs, Reporting(rs), None \notin Technique
    PROVE  \/ SeedTechnique(rs) = PlaybookTechnique(rs)
           \/ PlaybookTechnique(rs) # None /\ PlaybookTechnique(rs).form = "word"
<1> DEFINE Found(i) == {k \in DOMAIN rs[i].techniques : rs[i].techniques[k].form # "word"}
           mentioning == {i \in DOMAIN rs : rs[i].techniques # <<>>}
           found == {i \in DOMAIN rs : Found(i) # {}}
<1>1. \A i \in DOMAIN rs : rs[i].techniques \in Seq(Technique)
    <2>1. \A i \in DOMAIN rs : rs[i] \in AgentReport
        BY DEF Reporting
    <2> QED
        BY <2>1 DEF AgentReport
<1>2. \A i \in DOMAIN rs : Found(i) \subseteq Nat
    BY <1>1
<1>3. mentioning \subseteq Nat /\ found \subseteq mentioning
    <2>1. DOMAIN rs \subseteq Nat
        BY LenProperties DEF Reporting
    <2>2. ASSUME NEW i \in found, rs[i].techniques = <<>> PROVE FALSE
        BY <2>2
    <2> QED
        BY <2>1, <2>2
<1>4. CASE mentioning = {}
    <2>1. \A i \in DOMAIN rs : Found(i) = {}
        BY <1>3, <1>4
    <2> QED
        BY <1>4, <2>1, Zenon DEF SeedTechnique, PlaybookTechnique
<1>5. CASE mentioning # {}
    <2> DEFINE first == Min(mentioning)
               technique == rs[first].techniques[1]
    <2>1. first \in mentioning /\ \A i \in mentioning : first <= i
        <3> HIDE DEF mentioning
        <3> QED
            BY <1>3, <1>5, LeastNumber DEF Min
    <2>2. PlaybookTechnique(rs) = technique
        BY <1>5 DEF PlaybookTechnique
    <2>3. technique \in Technique /\ 1 \in DOMAIN rs[first].techniques
        <3>1. rs[first].techniques \in Seq(Technique)
              /\ rs[first].techniques # <<>>
            BY <1>1, <2>1
        <3> HIDE DEF first
        <3> QED
            BY <3>1, FirstItem, Zenon
    <2>4. CASE technique.form = "word"
        <3> HIDE DEF technique
        <3>1. technique # None
            BY <2>3
        <3> QED
            BY <2>2, <2>4, <3>1, Zenon
    <2>5. CASE technique.form # "word"
        <3>1. 1 \in Found(first) /\ first \in found
            BY <2>1, <2>3, <2>5
        <3>2. Min(found) = first
            <4>1. \A i \in found : first <= i
                BY <1>3, <2>1
            <4> HIDE DEF first, found
            <4>2. \A x \in found : (\A y \in found : x <= y) => x = first
                BY <1>3, <3>1, <4>1
            <4> QED
                BY <3>1, <4>1, <4>2 DEF Min
        <3>3. Min(Found(first)) = 1
            <4>1. \A k \in Found(first) : 1 <= k /\ k \in Nat
                BY <1>1, <2>1
            <4> HIDE DEF first, Found
            <4>2. ASSUME NEW x \in Found(first), \A y \in Found(first) : x <= y PROVE x = 1
                <5>1. x <= 1 /\ 1 <= x /\ x \in Nat
                    BY <3>1, <4>1, <4>2
                <5> HIDE DEF mentioning, technique
                <5> QED
                    BY <5>1
            <4> QED
                BY <3>1, <4>1, <4>2 DEF Min
        <3>4. SeedTechnique(rs) = rs[Min(found)].techniques[Min(Found(Min(found)))]
            BY <3>1, Zenon DEF SeedTechnique
        <3> QED
            BY <2>2, <3>2, <3>3, <3>4, Zenon
    <2> QED
        BY <2>4, <2>5
<1> QED
    BY <1>4, <1>5

(* The exhibits of a pivot are different, since each agent reports once.   *)
LEMMA ExhibitsDiffer ==
    ASSUME NEW frame, Reporting(frame.reports), Evaluated(frame.reports)
    PROVE  \A i, j \in DOMAIN PivotSpawn(frame).exhibits :
               PivotSpawn(frame).exhibits[i].exhibitId = PivotSpawn(frame).exhibits[j].exhibitId
                   => i = j
<1> DEFINE rs == frame.reports
           shown == SubSeq(rs, 1, IF Len(rs) < 8 THEN Len(rs) ELSE 8)
           about == [i \in DOMAIN shown |-> [kind |-> "agent_report", of |-> shown[i]]]
           items == <<[kind |-> "consensus_frame", of |-> frame.key]>> \o about
           Things == {about[i] : i \in DOMAIN about}
                        \cup {[kind |-> "consensus_frame", of |-> frame.key]}
<1>1. rs \in Seq(AgentReport) /\ Len(rs) \in Nat /\ DOMAIN rs = 1 .. Len(rs)
    BY LenProperties DEF Reporting
<1>2. /\ shown \in Seq(AgentReport) /\ Len(shown) \in Nat /\ DOMAIN shown = 1 .. Len(shown)
      /\ Len(shown) <= Len(rs) /\ \A i \in 1 .. Len(shown) : shown[i] = rs[i]
    BY <1>1
<1> HIDE DEF shown
<1>3. about \in [1 .. Len(shown) -> Things]
    BY <1>2
<1>4. about \in Seq(Things) /\ Len(about) = Len(shown)
    <2> HIDE DEF about, Things
    <2> QED
        BY <1>2, <1>3
<1>5. <<[kind |-> "consensus_frame", of |-> frame.key]>> \in Seq(Things)
    OBVIOUS
<1>6. /\ DOMAIN items = 1 .. Len(shown) + 1
      /\ items[1] = [kind |-> "consensus_frame", of |-> frame.key]
      /\ \A i \in 2 .. Len(shown) + 1 : items[i] = about[i - 1]
    <2> HIDE DEF about, Things
    <2> QED
        BY <1>2, <1>4, <1>5
<1>7. /\ items[1].kind = "consensus_frame"
      /\ \A i \in 2 .. Len(shown) + 1 :
             items[i].kind = "agent_report" /\ items[i].of = rs[i - 1] /\ i - 1 \in DOMAIN rs
    <2>0. items[1].kind = "consensus_frame"
        <3> HIDE DEF items
        <3> QED
            BY <1>6
    <2> SUFFICES ASSUME NEW i \in 2 .. Len(shown) + 1
                 PROVE  items[i].kind = "agent_report" /\ items[i].of = rs[i - 1]
                            /\ i - 1 \in DOMAIN rs
        BY <2>0
    <2>1. i - 1 \in 1 .. Len(shown) /\ items[i] = about[i - 1]
        BY <1>2, <1>6
    <2>2. about[i - 1] = [kind |-> "agent_report", of |-> rs[i - 1]]
        BY <1>2, <2>1
    <2>3. items[i] = [kind |-> "agent_report", of |-> rs[i - 1]]
        BY <2>1, <2>2
    <2>4. i - 1 \in DOMAIN rs
        BY <1>1, <1>2, <2>1
    <2> HIDE DEF items
    <2> QED
        BY <2>3, <2>4
<1> HIDE DEF items, Things, about
<1>8. ASSUME NEW i \in DOMAIN items, NEW j \in DOMAIN items, items[i] = items[j]
      PROVE  i = j
    <2>1. i \in 1 .. Len(shown) + 1 /\ j \in 1 .. Len(shown) + 1 /\ Len(shown) \in Nat
        BY <1>2, <1>6
    <2>2. items[i].kind = "consensus_frame" <=> i = 1
        BY <1>7, <2>1
    <2>3. items[j].kind = "consensus_frame" <=> j = 1
        BY <1>7, <2>1
    <2>4. CASE i = 1 \/ j = 1
        BY <1>8, <2>2, <2>3, <2>4
    <2>5. CASE i # 1 /\ j # 1
        <3>1. /\ items[i].of = rs[i - 1] /\ i - 1 \in DOMAIN rs
              /\ items[j].of = rs[j - 1] /\ j - 1 \in DOMAIN rs
            BY <1>7, <2>1, <2>5
        <3>2. rs[i - 1].agent = rs[j - 1].agent
            BY <1>8, <3>1
        <3>3. i - 1 = j - 1
            BY <3>1, <3>2 DEF Evaluated
        <3> QED
            BY <2>1, <3>3
    <2> QED
        BY <2>4, <2>5
<1>9. PivotSpawn(frame).exhibits = Exhibits(items)
    BY DEF PivotSpawn, items, about, shown
<1>10. /\ DOMAIN Exhibits(items) = DOMAIN items
       /\ \A i \in DOMAIN items : Exhibits(items)[i].exhibitId = items[i]
    BY DEF Exhibits
<1> QED
    BY <1>8, <1>9, <1>10

(* The executor accepts what the deployment has signed.                    *)
LEMMA SignedVerifies ==
    ASSUME NoneIsNothing, NEW body
    PROVE  VerifyPlaybook(Signed(body, CacaoKey), CacaoKey)
<1>1. CacaoKey # None /\ \A key, b : None # [by |-> key, over |-> b]
    BY DEF NoneIsNothing
<1>2. /\ Signed(body, CacaoKey).signature = [by |-> CacaoKey, over |-> body]
      /\ Signed(body, CacaoKey).signer = CacaoKey /\ Signed(body, CacaoKey).body = body
    BY DEF Signed
<1> QED
    BY <1>1, <1>2 DEF VerifyPlaybook

(* Who changes an actuator of a signed playbook has to sign it anew, with  *)
(* another key pair.                                                       *)
ForgedBody(body, i) == [body EXCEPT !.workflow[i].actuator = "another"]

LEMMA ForgeryFails ==
    ASSUME NoneIsNothing, NEW start, NEW steps, NEW technique, NEW parent, NEW body,
           body = [workflowStart |-> start, workflow |-> steps,
                   technique |-> technique, parent |-> parent],
           NEW n, Chained(steps, n), NEW i \in DOMAIN steps,
           NEW pb, pb = Signed(body, CacaoKey)
    PROVE  /\ ~VerifyPlaybook([pb EXCEPT !.body = ForgedBody(body, i)], CacaoKey)
           /\ ~VerifyPlaybook(Signed(ForgedBody(body, i), "another key"), CacaoKey)
<1> DEFINE forged == ForgedBody(body, i)
<1>1. /\ CacaoKey # None /\ CacaoKey # "another key"
      /\ \A key, b : None # [by |-> key, over |-> b]
    BY DEF NoneIsNothing
<1>2. DOMAIN steps = 1 .. n + 1 /\ n \in Nat
    BY LenProperties DEF Chained
<1>3. steps[i].actuator # "another" /\ Forged(steps[i]).actuator = "another"
    <2>1. i \in 1 .. n \/ i = n + 1
        BY <1>2
    <2>2. i \in 1 .. n => steps[i].actuator \notin Ends
        BY DEF Chained
    <2>3. steps[n + 1].actuator = "findevil.end"
        BY DEF Chained
    <2> QED
        BY <1>2, <2>1, <2>2, <2>3 DEF Chained, Ends
<1>4. forged.workflow[i] = Forged(steps[i])
    BY DEF Forged, ForgedBody
<1>5. body # forged
    <2>1. body.workflow[i] = steps[i]
        OBVIOUS
    <2> HIDE DEF forged
    <2> QED
        BY <1>3, <1>4, <2>1
<1> HIDE DEF forged
<1>6. pb = [body |-> body, signature |-> [by |-> CacaoKey, over |-> body], signer |-> CacaoKey]
    BY DEF Signed
<1>7. ~VerifyPlaybook([pb EXCEPT !.body = forged], CacaoKey)
    <2>1. /\ [pb EXCEPT !.body = forged].body = forged
          /\ [pb EXCEPT !.body = forged].signature = [by |-> CacaoKey, over |-> body]
        BY <1>6
    <2>2. \A k : [by |-> CacaoKey, over |-> body] # [by |-> k, over |-> forged]
        BY <1>5
    <2> QED
        BY <2>1, <2>2 DEF VerifyPlaybook
<1>8. ~VerifyPlaybook(Signed(forged, "another key"), CacaoKey)
    <2>1. Signed(forged, "another key").signer = "another key"
        BY DEF Signed
    <2> QED
        BY <1>1, <2>1 DEF VerifyPlaybook
<1> QED
    BY <1>7, <1>8 DEF forged

(* A mitigation is answered, for any list of reports and every key but     *)
(* those of an unclassified scheme and of a process without a number: by a *)
(* playbook that the executor accepts, that nobody without the key can     *)
(* have changed, that runs every action of its technique whichever of them *)
(* fail, and that is about the technique into which the pivot looks, with  *)
(* exhibits of different names.  It holds of every decision, since the     *)
(* playbook depends on the reports alone (factory.py:58-147,               *)
(* schema.py:144-179, flow.py:162-213, executor.py:297-324).               *)
THEOREM MitigationsAnswered == NoneIsNothing => (Spec => []Answered)
<1> SUFFICES ASSUME NoneIsNothing PROVE Spec => []Answered
    OBVIOUS
<1>1. Reporting(reports) /\ Evaluated(reports) => Answered
    <2>0. ASSUME NEW key, Target(key) \in {None, Raises}
          PROVE  /\ key[1] \notin {"ip", "hash", "domain"}
                 /\ key[1] = "proc" => key[2].pid = None
        BY <2>0 DEF Target, NoneIsNothing
    <2> SUFFICES ASSUME Reporting(reports), Evaluated(reports), NEW key \in Keys,
                        Target(key) \notin {None, Raises}, NEW pl \in Plausibilities(m)
                 PROVE  Answers(BuildPlaybook(FrameOf(key, pl), Target(key)),
                                PivotSpawn(FrameOf(key, pl)))
        BY <2>0 DEF Answered
    <2> DEFINE frame     == FrameOf(key, pl)
               pb        == BuildPlaybook(frame, Target(key))
               spawn     == PivotSpawn(frame)
               technique == PlaybookTechnique(reports)
               flow      == Workflow(Actuators(technique), Target(key))
               steps     == 1 .. Len(pb.body.workflow) - 1
    <2>1. frame.reports = reports
        BY DEF FrameOf
    <2>2. PICK n : Acting(Actuators(technique), n)
        <3> HIDE DEF technique
        <3> QED
            BY ActuatorsAct
    <2>3. Chained(flow, n)
        <3> HIDE DEF technique
        <3> QED
            BY <2>2, WorkflowChained
    <2>4. pb = Signed([workflowStart |-> 1, workflow |-> flow, technique |-> technique,
                       parent |-> frame.parent], CacaoKey)
        <3> HIDE DEF frame
        <3> QED
            BY <2>1 DEF BuildPlaybook
    <2> HIDE DEF pb, flow, frame, technique
    <2>5. /\ pb.body = [workflowStart |-> 1, workflow |-> flow, technique |-> technique,
                        parent |-> frame.parent]
          /\ pb.body.workflow = flow /\ pb.body.workflowStart = 1
          /\ pb.body.technique = technique
        BY <2>4 DEF Signed
    <2>6. n \in Nat \ {0} /\ DOMAIN flow = 1 .. n + 1 /\ steps = 1 .. n
        BY <2>3, <2>5, LenProperties DEF Chained
    <2>7. VerifyPlaybook(pb, CacaoKey)
        BY <2>4, SignedVerifies
    <2>8. ASSUME NEW i \in DOMAIN flow
          PROVE  /\ ~VerifyPlaybook([pb EXCEPT !.body = ForgedBody(pb.body, i)], CacaoKey)
                 /\ ~VerifyPlaybook(Signed(ForgedBody(pb.body, i), "another key"), CacaoKey)
        <3>1. pb = Signed(pb.body, CacaoKey)
            BY <2>4, <2>5
        <3> QED
            BY <2>3, <2>5, <3>1, ForgeryFails
    <2>9. ASSUME NEW failing \in SUBSET (1 .. n)
          PROVE  StepsRun(pb, failing) = 1 .. n
        BY <2>3, <2>5, AllStepsRun DEF NoneIsNothing
    <2>10. \/ spawn.seed = technique
           \/ technique # None /\ technique.form = "word"
        <3>1. spawn.seed = SeedTechnique(reports)
            BY <2>1 DEF PivotSpawn
        <3> QED
            BY <3>1, SameTechnique DEF NoneIsNothing, technique
    <2>11. \A i, j \in DOMAIN spawn.exhibits :
               spawn.exhibits[i].exhibitId = spawn.exhibits[j].exhibitId => i = j
        BY <2>1, ExhibitsDiffer
    <2> HIDE DEF spawn, steps
    <2>12. Answers(pb, spawn)
        BY <2>5, <2>6, <2>7, <2>8, <2>9, <2>10, <2>11 DEF Answers, steps, ForgedBody
    <2> QED
        BY <2>12 DEF frame, pb, spawn
<1>2. Inv /\ SoleInv => Reporting(reports) /\ Evaluated(reports)
    BY DEF Inv, SoleInv
<1> QED
    BY <1>1, <1>2, SoleInvariance, PTL

-----------------------------------------------------------------------------
(* What is recorded of a decision.                                         *)

(* What two sequences hold together.                                       *)
LEMMA RangeJoined ==
    ASSUME NEW T, NEW a \in Seq(T), NEW b \in Seq(T)
    PROVE  a \o b \in Seq(T) /\ Range(a \o b) = Range(a) \cup Range(b)
<1> DEFINE c == a \o b
<1>1. /\ c \in Seq(T) /\ Len(c) = Len(a) + Len(b)
      /\ \A i \in 1 .. Len(a) + Len(b) : c[i] = IF i <= Len(a) THEN a[i] ELSE b[i - Len(a)]
    BY ConcatProperties
<1>2. /\ Len(a) \in Nat /\ Len(b) \in Nat /\ DOMAIN a = 1 .. Len(a) /\ DOMAIN b = 1 .. Len(b)
      /\ DOMAIN c = 1 .. Len(a) + Len(b)
    BY <1>1, LenProperties
<1> HIDE DEF c
<1>3. ASSUME NEW i \in DOMAIN a PROVE a[i] \in Range(c)
    <2>1. i \in DOMAIN c /\ c[i] = a[i]
        BY <1>1, <1>2
    <2> QED
        BY <2>1 DEF Range
<1>4. ASSUME NEW i \in DOMAIN b PROVE b[i] \in Range(c)
    <2>1. /\ i + Len(a) \in DOMAIN c /\ ~(i + Len(a) <= Len(a)) /\ i + Len(a) - Len(a) = i
        BY <1>2
    <2>2. c[i + Len(a)] = b[i]
        BY <1>1, <1>2, <2>1
    <2> QED
        BY <2>1, <2>2 DEF Range
<1>5. ASSUME NEW i \in DOMAIN c PROVE c[i] \in Range(a) \cup Range(b)
    <2>1. CASE i <= Len(a)
        <3>1. i \in DOMAIN a /\ c[i] = a[i]
            BY <1>1, <1>2, <2>1
        <3> QED
            BY <3>1 DEF Range
    <2>2. CASE ~(i <= Len(a))
        <3>1. i - Len(a) \in DOMAIN b /\ c[i] = b[i - Len(a)]
            BY <1>1, <1>2, <2>2
        <3> QED
            BY <3>1 DEF Range
    <2> QED
        BY <2>1, <2>2
<1>6. Range(c) = Range(a) \cup Range(b)
    BY <1>3, <1>4, <1>5 DEF Range
<1> QED
    BY <1>1, <1>6 DEF c

(* What the sequences of a sequence hold together.                         *)
LEMMA FlattenIs ==
    ASSUME NEW n \in Nat, NEW T, NEW s \in [1 .. n -> Seq(T)]
    PROVE  /\ FlattenSeq(s) \in Seq(T)
           /\ Range(FlattenSeq(s)) = UNION {Range(s[i]) : i \in 1 .. n}
<1> DEFINE Joined(p, i) == IF i = 1 THEN s[i] ELSE p[i - 1] \o s[i]
           P(p, k) == p = [i \in 1 .. k |-> Joined(p, i)]
           w == CHOOSE p : P(p, n)
           E == {k \in 0 .. n : \E p : P(p, k)}
           Held(k) == UNION {Range(s[i]) : i \in 1 .. k}
           S == {k \in 0 .. n : k # 0 => w[k] \in Seq(T) /\ Range(w[k]) = Held(k)}
<1>1. Len(s) = n
    OBVIOUS
<1>2. CASE n = 0
    <2>1. FlattenSeq(s) = s
        BY <1>1, <1>2, Zenon DEF FlattenSeq
    <2>2. s \in Seq(T) /\ DOMAIN s = {}
        BY <1>2
    <2>3. Range(s) = {} /\ 1 .. n = {}
        BY <1>2, <2>2 DEF Range
    <2> QED
        BY <2>1, <2>2, <2>3
<1>3. CASE n # 0
    <2>1. FlattenSeq(s) = w[n]
        BY <1>1, <1>3, Zenon DEF FlattenSeq
    <2>2. 0 \in E
        <3> DEFINE p == [i \in 1 .. 0 |-> 0]
        <3>1. p = [i \in 1 .. 0 |-> Joined(p, i)]
            <4>1. 1 .. 0 = {}
                OBVIOUS
            <4> HIDE DEF Joined
            <4> QED
                BY <4>1
        <3>2. P(p, 0)
            BY <3>1
        <3> HIDE DEF P, p
        <3> QED
            BY <3>2
    <2>3. ASSUME NEW k \in 1 .. n, k - 1 \in E PROVE k \in E
        <3>1. PICK p : P(p, k - 1)
            BY <2>3
        <3>4. \A j \in 1 .. k - 1 : p[j] = Joined(p, j)
            <4> HIDE DEF Joined
            <4> QED
                BY <3>1
        <3> DEFINE q == [i \in 1 .. k |-> IF i = k THEN Joined(p, k) ELSE p[i]]
        <3>2. ASSUME NEW i \in 1 .. k PROVE q[i] = Joined(q, i)
            <4>1. i # 1 => i - 1 \in 1 .. k /\ i - 1 # k
                BY <3>2
            <4>2. i # 1 => q[i - 1] = p[i - 1]
                BY <4>1
            <4>3. Joined(q, i) = Joined(p, i)
                <5> HIDE DEF q
                <5> QED
                    BY <4>2, Zenon
            <4>4. i # k => p[i] = Joined(p, i)
                <5> HIDE DEF Joined
                <5> QED
                    BY <3>4
            <4> HIDE DEF Joined
            <4> QED
                BY <4>3, <4>4
        <3>3. P(q, k)
            <4> HIDE DEF Joined
            <4>1. q = [i \in 1 .. k |-> q[i]]
                OBVIOUS
            <4> HIDE DEF q
            <4> QED
                BY <3>2, <4>1
        <3> HIDE DEF P
        <3> QED
            BY <3>3
    <2>4. P(w, n)
        <3>1. n \in E
            <4> HIDE DEF E
            <4>1. \A k \in 0 .. n : k \in E
                BY <2>2, <2>3, Upwards
            <4> QED
                BY <4>1
        <3> HIDE DEF P
        <3> QED
            BY <3>1
    <2>5. \A i \in 1 .. n : w[i] = Joined(w, i)
        <3> HIDE DEF w, Joined
        <3> QED
            BY <2>4
    <2> HIDE DEF w
    <2>6. 0 \in S
        OBVIOUS
    <2>7. ASSUME NEW k \in 1 .. n, k - 1 \in S PROVE k \in S
        <3>1. CASE k = 1
            <4>1. w[k] = s[k] /\ s[k] \in Seq(T)
                BY <2>5, <3>1
            <4>2. Held(k) = Range(s[k])
                BY <3>1
            <4> QED
                BY <4>1, <4>2
        <3>2. CASE k # 1
            <4>1. w[k] = w[k - 1] \o s[k] /\ s[k] \in Seq(T)
                BY <2>5, <3>2
            <4>2. w[k - 1] \in Seq(T) /\ Range(w[k - 1]) = Held(k - 1)
                BY <2>7, <3>2
            <4>3. Held(k) = Held(k - 1) \cup Range(s[k])
                <5>1. 1 .. k = 1 .. k - 1 \cup {k}
                    BY <3>2
                <5> QED
                    BY <5>1
            <4> HIDE DEF Held
            <4>4. w[k] \in Seq(T) /\ Range(w[k]) = Held(k)
                BY <4>1, <4>2, <4>3, RangeJoined
            <4> QED
                BY <4>4
        <3> QED
            BY <3>1, <3>2
    <2>8. n \in S
        <3> HIDE DEF S
        <3>1. \A k \in 0 .. n : k \in S
            BY <2>6, <2>7, Upwards
        <3> QED
            BY <3>1
    <2> QED
        BY <1>3, <2>1, <2>8
<1> QED
    BY <1>2, <1>3
(* The techniques that begin with a T.                                     *)
LEMMA TechnicalIs ==
    ASSUME NEW ts \in Seq(Technique)
    PROVE  /\ Technical(ts) \in Seq(Technique)
           /\ Range(Technical(ts)) = {t \in Range(ts) : t.form # "word"}
<1> DEFINE P == {i \in DOMAIN ts : ts[i].form # "word"}
<1>1. Len(ts) \in Nat /\ DOMAIN ts = 1 .. Len(ts) /\ \A i \in DOMAIN ts : ts[i] \in Technique
    BY LenProperties, ElementOfSeq
<1>2. P \in SUBSET (1 .. Len(ts)) /\ \A i \in P : ts[i] \in Technique
    BY <1>1
<1>3. {ts[i] : i \in P} = {t \in Range(ts) : t.form # "word"}
    BY Zenon DEF Range
<1> HIDE DEF P
<1>4. Kept(ts, P) \in Seq(Technique) /\ Range(Kept(ts, P)) = {ts[i] : i \in P}
    BY <1>1, <1>2, KeptItems
<1>5. Technical(ts) = Kept(ts, P)
    BY Zenon DEF Technical, P
<1> QED
    BY <1>3, <1>4, <1>5

(* What the entries of a frame say of its techniques: the first 32.        *)
LEMMA CutIs ==
    ASSUME NEW ts \in Seq(Technique)
    PROVE  LET out   == TechniquesFromEvents(ts)
               shown == {t \in Range(ts) : t.form # "word"}
           IN  /\ out \in Seq(Technique) /\ Len(out) <= 32
               /\ Range(out) \subseteq shown
               /\ Cardinality(shown) <= 32 => Range(out) = shown
<1> DEFINE found == Distinct(Technical(ts))
           l     == IF Len(found) < 32 THEN Len(found) ELSE 32
           out   == SubSeq(found, 1, l)
           shown == {t \in Range(ts) : t.form # "word"}
<1>1. Technical(ts) \in Seq(Technique) /\ Range(Technical(ts)) = shown
    BY TechnicalIs
<1> HIDE DEF shown
<1>2. /\ found \in Seq(Technique) /\ Range(found) = shown
      /\ Len(found) = Cardinality(shown)
    <2>1. /\ Distinct(Technical(ts)) \in Seq(Technique)
          /\ Range(Distinct(Technical(ts))) = Range(Technical(ts))
          /\ Len(Distinct(Technical(ts))) = Cardinality(Range(Technical(ts)))
        BY <1>1, DistinctItems
    <2> QED
        BY <1>1, <2>1
<1>3. TechniquesFromEvents(ts) = out
    BY Zenon DEF TechniquesFromEvents
<1> HIDE DEF found
<1>4. /\ Len(found) \in Nat /\ DOMAIN found = 1 .. Len(found)
      /\ \A i \in DOMAIN found : found[i] \in Technique
    BY <1>2, LenProperties, ElementOfSeq
<1>5. l \in Nat /\ l <= Len(found) /\ l <= 32 /\ \A i \in 1 .. l : found[i] \in Technique
    BY <1>4
<1> HIDE DEF l
<1>6. out \in Seq(Technique) /\ Len(out) = l /\ \A i \in 1 .. l : out[i] = found[i]
    <2>1. /\ out \in Seq(Technique) /\ Len(out) = IF 1 <= l THEN l - 1 + 1 ELSE 0
          /\ \A i \in 1 .. l - 1 + 1 : out[i] = found[1 + i - 1]
        BY <1>5, SubSeqProperties
    <2>2. \A i \in 1 .. l : i \in 1 .. l - 1 + 1 /\ 1 + i - 1 = i
        BY <1>5
    <2>3. Len(out) = l
        BY <1>5, <2>1
    <2> QED
        BY <2>1, <2>2, <2>3
<1> HIDE DEF out
<1>7. DOMAIN out = 1 .. l
    BY <1>6, LenProperties
<1>8. Range(out) \subseteq Range(found)
    BY <1>4, <1>5, <1>6, <1>7 DEF Range
<1>9. ASSUME Cardinality(shown) <= 32 PROVE Range(found) \subseteq Range(out)
    <2>1. l = Len(found)
        BY <1>2, <1>4, <1>9 DEF l
    <2> QED
        BY <1>4, <1>6, <1>7, <2>1 DEF Range
<1> QED
    BY <1>2, <1>3, <1>5, <1>6, <1>8, <1>9 DEF shown

(* The techniques of a frame are those of its reports.                     *)
LEMMA MentionedIs ==
    ASSUME NEW rs \in Seq(AgentReport)
    PROVE  /\ Mentioned(rs) \in Seq(Technique)
           /\ Range(Mentioned(rs)) = UNION {Range(rs[i].techniques) : i \in DOMAIN rs}
<1> DEFINE s == [i \in DOMAIN rs |-> rs[i].techniques]
<1>1. /\ Len(rs) \in Nat /\ DOMAIN rs = 1 .. Len(rs)
      /\ \A i \in DOMAIN rs : rs[i].techniques \in Seq(Technique)
    <2>1. \A i \in DOMAIN rs : rs[i] \in AgentReport
        BY ElementOfSeq, LenProperties
    <2> QED
        BY <2>1, LenProperties DEF AgentReport
<1>2. s \in [1 .. Len(rs) -> Seq(Technique)] /\ \A i \in 1 .. Len(rs) : s[i] = rs[i].techniques
    BY <1>1
<1>3. UNION {Range(s[i]) : i \in 1 .. Len(rs)} = UNION {Range(rs[i].techniques) : i \in DOMAIN rs}
    BY <1>1
<1>4. Mentioned(rs) = FlattenSeq(s)
    BY Zenon DEF Mentioned
<1> HIDE DEF s
<1>5. FlattenSeq(s) \in Seq(Technique) /\ Range(FlattenSeq(s)) = UNION {Range(s[i]) : i \in 1 .. Len(rs)}
    BY <1>1, <1>2, FlattenIs
<1> QED
    BY <1>3, <1>4, <1>5

(* The artifact of a key is accepted.                                      *)
LEMMA ArtifactFits ==
    ASSUME NEW key, KeyFits(key)
    PROVE  ArtifactRefFits(ArtifactForPherKey(key))
<1> DEFINE ref == ArtifactForPherKey(key)
<1>1. CASE key[1] = "hash"
    <2>1. ref.sha256 = key[2] /\ key[2] # None /\ key[2].form = "lower"
        BY <1>1 DEF ArtifactForPherKey, KeyFits
    <2> HIDE DEF ref
    <2>2. ArtifactRefFits(ref)
        BY <2>1, Zenon DEF ArtifactRefFits
    <2> QED
        BY <2>2 DEF ref
<1>2. CASE key[1] \in {"ip", "domain", "proc"}
    <2>1. ref.sha256 = None /\ ref.type # "file"
        BY <1>2 DEF ArtifactForPherKey
    <2> HIDE DEF ref
    <2>2. ArtifactRefFits(ref)
        BY <2>1, Zenon DEF ArtifactRefFits
    <2> QED
        BY <2>2 DEF ref
<1>3. CASE key[1] \notin {"ip", "domain", "hash", "proc"}
    <2>1. ref.sha256 = None /\ (ref.type # "file" \/ ref.blake3)
        <3>1. CASE key[2][1] = "file"
            BY <1>3, <3>1 DEF ArtifactForPherKey
        <3>2. CASE key[2][1] \in {"user", "reg", "task", "url"}
            BY <1>3, <3>2 DEF ArtifactForPherKey
        <3>3. CASE key[2][1] \notin {"file", "user", "reg", "task", "url"}
            BY <1>3, <3>3 DEF ArtifactForPherKey
        <3> QED
            BY <3>1, <3>2, <3>3
    <2> HIDE DEF ref
    <2>2. ArtifactRefFits(ref)
        BY <2>1, Zenon DEF ArtifactRefFits
    <2> QED
        BY <2>2 DEF ref
<1> QED
    BY <1>1, <1>2, <1>3

(* What an entry of a frame is accepted for.                               *)
LEMMA EntryAccepted ==
    ASSUME NEW key, KeyFits(key), NEW e,
           e.evidence = <<ArtifactForPherKey(key)>>, e.artifactKey = <<"pher", key>>,
           e.confidence.n \in Nat, e.confidence.of \in Nat, e.confidence.n <= e.confidence.of,
           e.mitre \in Seq(Technique), Len(e.mitre) <= 32
    PROVE  EntryFits(e) <=> /\ NameIn(key) \notin LongNames
                            /\ e.agents \cap LongAgents = {}
                            /\ \A t \in Range(e.mitre) : t.form = "attack"
                            /\ e.consensus # None => ConsensusFits(e.consensus) /\ e.custody # <<>>
<1>1. Len(e.evidence) = 1 /\ DOMAIN e.evidence = {1} /\ e.evidence[1] = ArtifactForPherKey(key)
    OBVIOUS
<1>2. \A i \in DOMAIN e.evidence : ArtifactRefFits(e.evidence[i])
    BY <1>1, ArtifactFits
<1>3. Named(e.artifactKey) = NameIn(key)
    BY DEF Named
<1>4. (\A i \in DOMAIN e.mitre : e.mitre[i].form = "attack") <=> \A t \in Range(e.mitre) : t.form = "attack"
    BY DEF Range
<1> QED
    BY <1>1, <1>2, <1>3, <1>4 DEF EntryFits

(* The first l items of a sequence.                                        *)
LEMMA FirstItems ==
    ASSUME NEW S, NEW s, NEW l \in Nat \ {0}, \A i \in 1 .. l : s[i] \in S
    PROVE  /\ SubSeq(s, 1, l) \in Seq(S) /\ Len(SubSeq(s, 1, l)) = l
           /\ \A i \in 1 .. l : SubSeq(s, 1, l)[i] = s[i]
<1>1. 1 \in Int /\ l \in Int /\ 1 <= l /\ l - 1 + 1 = l
    OBVIOUS
<1> DEFINE cut == SubSeq(s, 1, l)
<1>2. /\ cut \in Seq(S) /\ Len(cut) = l - 1 + 1
      /\ \A i \in 1 .. l - 1 + 1 : cut[i] = s[1 + i - 1]
    BY <1>1, SubSeqProperties
<1>3. \A i \in 1 .. l : 1 + i - 1 = i
    OBVIOUS
<1> HIDE DEF cut
<1>4. cut \in Seq(S) /\ Len(cut) = l /\ \A i \in 1 .. l : cut[i] = s[i]
    BY <1>1, <1>2, <1>3
<1> QED
    BY <1>4 DEF cut

(* What the entries of a frame are accepted for.                           *)
LEMMA FrameAccepted ==
    ASSUME NoneIsNothing,
           NEW frame, KeyFits(frame.key), Reporting(frame.reports),
           frame.belief \in Nat, frame.plausibility \in Nat, frame.of \in Nat,
           frame.belief <= frame.plausibility, frame.belief <= frame.of
    PROVE  FrameFits(frame) <=>
               /\ NameIn(frame.key) \notin LongNames
               /\ \A i \in DOMAIN frame.reports :
                      i <= 16 => frame.reports[i].agent \notin LongAgents
               /\ frame.plausibility <= frame.of
               /\ \A t \in Range(TechniquesFromEvents(Mentioned(frame.reports))) : t.form = "attack"
<1> DEFINE rs  == frame.reports
           l   == IF Len(rs) < 16 THEN Len(rs) ELSE 16
           cut == SubSeq(rs, 1, l)
           techniques == TechniquesFromEvents(Mentioned(rs))
           Entry(agents, n, of) ==
               [agents |-> agents, evidence |-> <<ArtifactForPherKey(frame.key)>>,
                artifactKey |-> <<"pher", frame.key>>,
                confidence |-> [n |-> n, of |-> of], consensus |-> None, custody |-> <<>>,
                mitre |-> techniques]
           parents == [i \in DOMAIN cut |-> i]
           consensus == [contributing |-> parents, belief |-> frame.belief,
                         plausibility |-> frame.plausibility, of |-> frame.of]
           parts == [i \in DOMAIN cut |-> Entry({cut[i].agent}, cut[i].n, cut[i].of)]
           fused == [Entry({}, frame.belief, frame.of) EXCEPT !.consensus = consensus, !.custody = parents]
           all   == FrameEntries(frame)
           Common == /\ NameIn(frame.key) \notin LongNames
                     /\ \A t \in Range(techniques) : t.form = "attack"
           Short == \A i \in DOMAIN rs : i <= 16 => rs[i].agent \notin LongAgents
           Fits  == Common /\ Short /\ frame.plausibility <= frame.of
<1>1. all = Append(parts, fused)
    BY Zenon DEF FrameEntries
<1>2. techniques \in Seq(Technique) /\ Len(techniques) <= 32
    <2>1. Mentioned(rs) \in Seq(Technique)
        BY MentionedIs DEF Reporting
    <2> QED
        BY <2>1, CutIs
<1> HIDE DEF techniques
<1>3. /\ Len(rs) \in Nat \ {0} /\ DOMAIN rs = 1 .. Len(rs)
      /\ \A i \in DOMAIN rs : rs[i] \in AgentReport /\ rs[i].n <= rs[i].of
    BY LenProperties, EmptySeq, ElementOfSeq DEF Reporting
<1>4. l \in 1 .. 16 /\ l <= Len(rs)
    <2>1. \A x \in Nat \ {0} : LET y == IF x < 16 THEN x ELSE 16 IN y \in 1 .. 16 /\ y <= x
        OBVIOUS
    <2> HIDE DEF rs
    <2> QED
        BY <1>3, <2>1
<1> HIDE DEF l
<1>5. /\ cut \in Seq(AgentReport) /\ Len(cut) = l /\ DOMAIN cut = 1 .. l
      /\ \A i \in 1 .. l : cut[i] = rs[i]
    <2>1. \A i \in 1 .. l : rs[i] \in AgentReport
        BY <1>3, <1>4
    <2>2. l \in Nat \ {0}
        BY <1>4
    <2> HIDE DEF rs
    <2>3. /\ cut \in Seq(AgentReport) /\ Len(cut) = l
          /\ \A i \in 1 .. l : cut[i] = rs[i]
        BY <2>1, <2>2, FirstItems
    <2> HIDE DEF cut
    <2>4. DOMAIN cut = 1 .. l
        BY <2>3, LenProperties
    <2> QED
        BY <2>3, <2>4, Zenon
<1> HIDE DEF cut
<1>6. ASSUME NEW i \in 1 .. l
      PROVE  EntryFits(parts[i]) <=> Common /\ rs[i].agent \notin LongAgents
    <2>1. /\ cut[i].n \in Nat /\ cut[i].of \in Nat /\ cut[i].n <= cut[i].of
        <3>1. i \in 1 .. Len(rs)
            <4>1. Len(rs) \in Nat
                BY <1>3
            <4> DEFINE k == Len(rs)
            <4> HIDE DEF k, l
            <4>2. k \in Nat /\ l \in Nat /\ l <= k
                BY <1>4, <4>1 DEF k
            <4>3. i \in 1 .. k
                BY <4>2
            <4> QED
                BY <4>3 DEF k
        <3>2. rs[i] \in AgentReport /\ rs[i].n <= rs[i].of /\ cut[i] = rs[i]
            BY <1>3, <1>5, <3>1
        <3> HIDE DEF rs
        <3>3. rs[i].n \in Nat /\ rs[i].of \in Nat
            BY <3>2 DEF AgentReport
        <3> QED
            BY <3>2, <3>3
    <2>2. parts[i] = Entry({cut[i].agent}, cut[i].n, cut[i].of) /\ cut[i].agent = rs[i].agent
        BY <1>5
    <2> DEFINE e == Entry({cut[i].agent}, cut[i].n, cut[i].of)
    <2>3. /\ e.evidence = <<ArtifactForPherKey(frame.key)>> /\ e.artifactKey = <<"pher", frame.key>>
          /\ e.confidence.n = cut[i].n /\ e.confidence.of = cut[i].of
          /\ e.mitre = techniques /\ e.consensus = None /\ e.agents = {cut[i].agent}
        OBVIOUS
    <2> HIDE DEF e
    <2>4. EntryFits(e) <=> Common /\ e.agents \cap LongAgents = {}
        BY <1>2, <2>1, <2>3, EntryAccepted
    <2>5. e.agents \cap LongAgents = {} <=> rs[i].agent \notin LongAgents
        BY <2>2, <2>3
    <2> QED
        BY <2>2, <2>4, <2>5 DEF e
<1>7. EntryFits(fused) <=> Common /\ frame.plausibility <= frame.of
    <2>1. /\ parents = [i \in 1 .. l |-> i] /\ Len(parents) = l /\ parents # <<>>
        BY <1>4, <1>5
    <2>2. /\ ConsensusFits(consensus) <=> frame.plausibility <= frame.of
          /\ consensus # None
        <3>1. consensus # None
            BY Zenon DEF NoneIsNothing
        <3> HIDE DEF parents
        <3>2. ConsensusFits(consensus) <=> frame.plausibility <= frame.of
            BY <1>4, <2>1 DEF ConsensusFits
        <3> QED
            BY <3>1, <3>2
    <2>3. /\ fused.evidence = <<ArtifactForPherKey(frame.key)>>
          /\ fused.artifactKey = <<"pher", frame.key>>
          /\ fused.confidence.n = frame.belief /\ fused.confidence.of = frame.of
          /\ fused.mitre = techniques /\ fused.consensus = consensus /\ fused.custody = parents
          /\ fused.agents = {}
        <3> DEFINE base == Entry({}, frame.belief, frame.of)
        <3>1. /\ base.evidence = <<ArtifactForPherKey(frame.key)>>
              /\ base.artifactKey = <<"pher", frame.key>>
              /\ base.confidence.n = frame.belief /\ base.confidence.of = frame.of
              /\ base.mitre = techniques /\ base.agents = {}
              /\ "consensus" \in DOMAIN base /\ "custody" \in DOMAIN base
            OBVIOUS
        <3> HIDE DEF consensus, parents, base
        <3> QED
            BY <3>1
    <2> HIDE DEF fused, consensus, parents
    <2>4. (fused.consensus # None => ConsensusFits(fused.consensus) /\ fused.custody # <<>>)
              <=> frame.plausibility <= frame.of
        BY <2>1, <2>2, <2>3
    <2>5. /\ fused.confidence.n \in Nat /\ fused.confidence.of \in Nat
          /\ fused.confidence.n <= fused.confidence.of
        BY <2>3
    <2>6. fused.mitre \in Seq(Technique) /\ Len(fused.mitre) <= 32
        BY <1>2, <2>3
    <2>7. EntryFits(fused) <=>
              /\ NameIn(frame.key) \notin LongNames
              /\ fused.agents \cap LongAgents = {}
              /\ \A t \in Range(fused.mitre) : t.form = "attack"
              /\ fused.consensus # None => ConsensusFits(fused.consensus) /\ fused.custody # <<>>
        BY <2>3, <2>5, <2>6, EntryAccepted
    <2> QED
        BY <2>3, <2>4, <2>7
<1>8. /\ DOMAIN all = 1 .. l + 1 /\ all[l + 1] = fused
      /\ \A i \in 1 .. l : all[i] = parts[i]
    <2>1. parts \in Seq({parts[i] : i \in 1 .. l}) /\ Len(parts) = l
        <3>1. DOMAIN parts = 1 .. l
            BY <1>5
        <3>2. parts = [i \in 1 .. l |-> parts[i]]
            BY <1>5
        <3> HIDE DEF parts
        <3>3. parts \in [1 .. l -> {parts[i] : i \in 1 .. l}]
            BY <3>2
        <3>4. l \in Nat
            BY <1>4
        <3> QED
            BY <3>3, <3>4, ListIs
    <2> HIDE DEF parts, fused, all
    <2>2. /\ Len(all) = l + 1 /\ DOMAIN all = 1 .. Len(all)
          /\ \A i \in 1 .. l : all[i] = parts[i]
          /\ all[l + 1] = fused
        BY <1>1, <1>4, <2>1, AppendProperties
    <2> QED
        BY <2>2
<1>9. Short <=> \A i \in 1 .. l : rs[i].agent \notin LongAgents
    <2>1. \A i \in Nat : i \in 1 .. l <=> i \in 1 .. Len(rs) /\ i <= 16
        <3> DEFINE k == Len(rs)
        <3>1. k \in Nat
            BY <1>3
        <3>2. l = IF k < 16 THEN k ELSE 16
            BY DEF l
        <3> HIDE DEF k, l
        <3>3. \A i \in Nat : i \in 1 .. l <=> i \in 1 .. k /\ i <= 16
            BY <3>1, <3>2
        <3> QED
            BY <3>3 DEF k
    <2> HIDE DEF rs
    <2> QED
        BY <1>3, <1>4, <2>1
<1> HIDE DEF all, parts, fused, Common, Short
<1>10. (\A i \in DOMAIN all : EntryFits(all[i])) <=> Fits
    <2>1. ASSUME Fits, NEW i \in 1 .. l + 1 PROVE EntryFits(all[i])
        BY <1>4, <1>6, <1>7, <1>8, <1>9, <2>1
    <2>2. l + 1 \in 1 .. l + 1 /\ \A i \in 1 .. l : i \in 1 .. l + 1
        BY <1>4
    <2>3. ASSUME \A i \in DOMAIN all : EntryFits(all[i]) PROVE Fits
        <3>1. Common /\ frame.plausibility <= frame.of
            BY <1>7, <1>8, <2>2, <2>3
        <3>2. \A i \in 1 .. l : rs[i].agent \notin LongAgents
            BY <1>6, <1>8, <2>2, <2>3
        <3> QED
            BY <1>9, <3>1, <3>2
    <2> QED
        BY <1>8, <2>1, <2>3
<1> QED
    BY <1>10, Zenon DEF FrameFits, all, Fits, Common, Short, techniques

Given == reports \in Inputs

LEMMA GivenInvariance == Spec => []Given
<1>1. Init => Given
    BY DEF Init, Given
<1>2. Given /\ [Next]_vars => Given'
    BY DEF Next, Combine, Decide, vars, Given
<1> QED
    BY <1>1, <1>2, PTL DEF Spec

(* A frame that is acted on can be recorded, whatever its key and its      *)
(* reports, unless the key or the id of one of its first 16 agents is too  *)
(* long, an EDR sensor mentions something that begins with a T and is no   *)
(* ATT&CK id, or its plausibility has been rounded to more than one; and   *)
(* then it cannot, unless what the sensor mentions is cut off behind 32    *)
(* techniques (flow.py:363-376, events.py:132-239, schema.py:50-188).      *)
THEOREM FramesRecorded == NoneIsNothing => (Spec => []Recordable)
<1> SUFFICES ASSUME NoneIsNothing PROVE Spec => []Recordable
    OBVIOUS
<1>1. Inv /\ Given => Recordable
    <2> SUFFICES ASSUME Inv, Given, NEW key \in Keys, NEW pl \in Plausibilities(m)
                 PROVE  LET mentioned == UNION {Range(reports[i].techniques) : i \in DOMAIN reports}
                            accepted  == \A i \in DOMAIN reports : reports[i].agent[1] = "edr" =>
                                             \A t \in Range(reports[i].techniques) : t.form # "tactic"
                            named     == \A i \in DOMAIN reports :
                                             i <= 16 => reports[i].agent \notin LongAgents
                        IN  /\ NameIn(key) \notin LongNames /\ named /\ accepted /\ pl <= m.of =>
                                   FrameFits(FrameOf(key, pl))
                            /\ FrameFits(FrameOf(key, pl)) =>
                                   /\ NameIn(key) \notin LongNames /\ named /\ pl <= m.of
                                   /\ Cardinality({t \in mentioned : t.form # "word"}) <= 32 => accepted
        BY Zenon DEF Recordable
    <2> DEFINE frame     == FrameOf(key, pl)
               named     == \A i \in DOMAIN reports : i <= 16 => reports[i].agent \notin LongAgents
               mentioned == UNION {Range(reports[i].techniques) : i \in DOMAIN reports}
               accepted  == \A i \in DOMAIN reports : reports[i].agent[1] = "edr" =>
                                \A t \in Range(reports[i].techniques) : t.form # "tactic"
               shown     == {t \in mentioned : t.form # "word"}
               out       == TechniquesFromEvents(Mentioned(reports))
    <2>1. Reporting(reports) /\ reports \in Seq(AgentReport) /\ m \in Whole
        BY DEF Inv, Reporting
    <2>2. /\ frame.key = key /\ frame.reports = reports
          /\ frame.belief = m.evil /\ frame.plausibility = pl /\ frame.of = m.of
        BY DEF FrameOf
    <2>3. FrameFits(frame) <=> /\ NameIn(key) \notin LongNames /\ named /\ pl <= m.of
                               /\ \A t \in Range(out) : t.form = "attack"
        <3>1. /\ m.evil \in Nat /\ pl \in Nat /\ m.of \in Nat
              /\ m.evil <= pl /\ m.evil <= m.of
            <4>1. /\ m.evil \in Nat /\ m.theta \in Nat /\ m.of \in Nat
                  /\ m.evil + m.theta <= m.of
                BY <2>1 DEF Whole, Mass
            <4>2. pl = m.evil + m.theta \/ pl = m.of + 1
                BY DEF Plausibilities
            <4> QED
                BY <4>1, <4>2
        <3>2. KeyFits(key)
            BY KeysAssumption
        <3> HIDE DEF frame
        <3> QED
            BY <2>1, <2>2, <3>1, <3>2, FrameAccepted DEF out
    <2>4. /\ Mentioned(reports) \in Seq(Technique) /\ Range(Mentioned(reports)) = mentioned
        BY <2>1, MentionedIs
    <2>5. /\ Range(out) \subseteq shown
          /\ Cardinality(shown) <= 32 => Range(out) = shown
        <3> HIDE DEF mentioned
        <3> QED
            BY <2>4, CutIs
    <2> HIDE DEF out
    <2>6. ASSUME accepted, NEW t \in shown PROVE t.form = "attack"
        <3>1. PICK i \in DOMAIN reports : t \in Range(reports[i].techniques)
            OBVIOUS
        <3>2. PICK k \in DOMAIN reports[i].techniques : t = reports[i].techniques[k]
            BY <3>1 DEF Range
        <3>3. t \in Technique
            <4>1. reports[i] \in AgentReport
                BY <2>1, ElementOfSeq, LenProperties
            <4>2. reports[i].techniques \in Seq(Technique)
                BY <4>1 DEF AgentReport
            <4> QED
                BY <3>2, <4>2, ElementOfSeq, LenProperties
        <3>4. t.form # "attack" => t.form = "tactic"
            BY <3>3 DEF Technique
        <3>5. ASSUME t.form # "attack" PROVE FALSE
            <4>1. PICK j \in DOMAIN reports :
                      reports[j].agent[1] = "edr" /\ reports[j].techniques = reports[i].techniques
                <5>1. TacticsByEdr(reports)
                    BY TacticsAssumption DEF Given
                <5> QED
                    BY <3>2, <3>5, <5>1 DEF TacticsByEdr
            <4>2. t \in Range(reports[j].techniques)
                BY <3>1, <4>1
            <4> QED
                BY <2>6, <3>4, <3>5, <4>1, <4>2
        <3> QED
            BY <3>5
    <2>7. ASSUME \A t \in Range(out) : t.form = "attack", Range(out) = shown PROVE accepted
        <3> SUFFICES ASSUME NEW i \in DOMAIN reports, NEW t \in Range(reports[i].techniques),
                            t.form = "tactic"
                     PROVE  FALSE
            OBVIOUS
        <3>1. t \in shown
            OBVIOUS
        <3> QED
            BY <2>7, <3>1
    <2> HIDE DEF shown, accepted, named, frame
    <2>8. /\ NameIn(key) \notin LongNames /\ named /\ accepted /\ pl <= m.of => FrameFits(frame)
          /\ FrameFits(frame) => /\ NameIn(key) \notin LongNames /\ named /\ pl <= m.of
                                 /\ Cardinality(shown) <= 32 => accepted
        BY <2>3, <2>5, <2>6, <2>7
    <2> QED
        BY <2>8, Zenon DEF shown, accepted, named, frame
<1> QED
    BY <1>1, Invariance, GivenInvariance, PTL

-----------------------------------------------------------------------------
(* Fractions in lowest terms.                                              *)

Divides(d, a) == \E k \in Nat : a = d * k

Divisors(a, b) == {d \in Nat : Divides(d, a) /\ Divides(d, b)}

(* The common divisors of two numbers stay what they are when the one is   *)
(* replaced by its remainder.                                              *)
LEMMA RemainderDivisors ==
    ASSUME NEW a \in Nat, NEW b \in Nat \ {0}
    PROVE  Divisors(a, b) = Divisors(b, a % b)
<1>1. PICK c \in Nat, u \in 0 .. b - 1 : c = a \div b /\ u = a % b /\ a = c * b + u
    BY Divided
<1>2. ASSUME NEW d \in Nat, Divides(d, a), Divides(d, b)
      PROVE  Divides(d, u)
    <2>1. PICK k \in Nat, l \in Nat : a = d * k /\ b = d * l
        BY <1>2 DEF Divides
    <2>2. d * k = c * (d * l) + u
        BY <1>1, <2>1
    <2>3. c * (d * l) = d * (c * l) /\ c * l \in Nat
        OBVIOUS
    <2>4. u = d * k - d * (c * l) /\ d * k - d * (c * l) = d * (k - c * l)
        BY <2>2, <2>3
    <2>5. k - c * l \in Nat \/ u = 0
        <3>1. CASE k >= c * l
            BY <2>3, <3>1
        <3>2. CASE ~(k >= c * l)
            <4>1. PICK j \in Nat : c * l = k + j
                BY <2>3, <3>2, c * l - k \in Nat
            <4>2. d * (c * l) = d * k + d * j /\ d * j \in Nat /\ d * k \in Nat
                BY <4>1
            <4> QED
                BY <2>2, <2>3, <4>2
        <3> QED
            BY <3>1, <3>2
    <2>6. u = 0 => u = d * 0
        OBVIOUS
    <2> QED
        BY <2>4, <2>5, <2>6 DEF Divides
<1>3. ASSUME NEW d \in Nat, Divides(d, b), Divides(d, u)
      PROVE  Divides(d, a)
    <2>1. PICK k \in Nat, l \in Nat : b = d * k /\ u = d * l
        BY <1>3 DEF Divides
    <2>2. a = c * (d * k) + d * l
        BY <1>1, <2>1
    <2>3. c * (d * k) + d * l = d * (c * k + l) /\ c * k + l \in Nat
        OBVIOUS
    <2> QED
        BY <2>2, <2>3 DEF Divides
<1> QED
    BY <1>1, <1>2, <1>3 DEF Divisors

(* The one of some numbers that all of them divide.                        *)
Greatest(S) == CHOOSE g \in S : \A d \in S : Divides(d, g)

LEMMA GreatestIs ==
    ASSUME NEW a \in Nat
    PROVE  Greatest(Divisors(a, 0)) = a
<1> DEFINE S == Divisors(a, 0)
<1>1. a \in S
    <2>1. a = a * 1 /\ 0 = a * 0
        OBVIOUS
    <2> QED
        BY <2>1 DEF Divisors, Divides
<1>2. \A d \in S : Divides(d, a) /\ d \in Nat
    BY DEF Divisors
<1>3. ASSUME NEW g \in S, Divides(a, g) PROVE g = a
    <2>1. PICK k \in Nat, l \in Nat : g = a * k /\ a = g * l
        BY <1>2, <1>3 DEF Divides
    <2>2. g \in Nat
        BY <1>2
    <2>3. CASE k = 0
        BY <2>1, <2>2, <2>3
    <2>4. CASE l = 0
        BY <2>1, <2>2, <2>4
    <2>5. CASE k # 0 /\ l # 0
        <3>1. PICK i \in Nat, j \in Nat : k = 1 + i /\ l = 1 + j
            BY <2>5, k - 1 \in Nat, l - 1 \in Nat
        <3>2. a * k = a + a * i /\ g * l = g + g * j /\ a * i \in Nat /\ g * j \in Nat
            BY <2>2, <3>1
        <3> QED
            BY <2>1, <2>2, <3>2
    <2> QED
        BY <2>3, <2>4, <2>5
<1> HIDE DEF S
<1> QED
    BY <1>1, <1>2, <1>3 DEF Greatest, S

(* The recursion of Lowest has a solution, and what it gives divides both. *)
LEMMA LowestIs ==
    ASSUME NEW c, c.of \in Nat \ {0}, c.n \in 0 .. c.of
    PROVE  /\ Lowest(c).n \in Nat /\ Lowest(c).of \in Nat \ {0}
           /\ Lowest(c).n <= Lowest(c).of
           /\ Lowest(c).n * c.of = c.n * Lowest(c).of
<1> DEFINE D == Nat \X Nat
           Euc(f, p) == IF p[2] = 0 THEN p[1] ELSE f[<<p[2], p[1] % p[2]>>]
           P(f) == f = [p \in D |-> Euc(f, p)]
           w == CHOOSE f : P(f)
           v == [p \in D |-> Greatest(Divisors(p[1], p[2]))]
<1>1. ASSUME NEW a \in Nat, NEW b \in Nat PROVE v[<<a, b>>] = Greatest(Divisors(a, b))
    OBVIOUS
<1> HIDE DEF v
<1>2. ASSUME NEW p \in D PROVE v[p] = Euc(v, p)
    <2>1. PICK a \in Nat, b \in Nat : p = <<a, b>>
        OBVIOUS
    <2>2. CASE b = 0
        <3>1. v[<<a, 0>>] = a
            BY <1>1, GreatestIs
        <3> QED
            BY <2>1, <2>2, <3>1
    <2>3. CASE b # 0
        <3>1. a % b \in Nat
            BY <2>3, Divided
        <3>2. v[<<b, a % b>>] = Greatest(Divisors(b, a % b))
            BY <1>1, <3>1
        <3>3. Divisors(a, b) = Divisors(b, a % b)
            BY <2>3, RemainderDivisors
        <3>4. v[<<a, b>>] = v[<<b, a % b>>]
            BY <1>1, <3>2, <3>3
        <3> QED
            BY <2>1, <2>3, <3>4
    <2> QED
        BY <2>2, <2>3
<1>3. P(v)
    <2>1. v = [p \in D |-> v[p]]
        BY DEF v
    <2> HIDE DEF Euc, D
    <2> QED
        BY <1>2, <2>1
<1>4. P(w)
    <2> HIDE DEF P
    <2> QED
        BY <1>3
<1>5. Lowest(c) = [n |-> c.n \div w[<<c.n, c.of>>], of |-> c.of \div w[<<c.n, c.of>>]]
    BY Zenon DEF Lowest
<1> HIDE DEF w
<1>6. \A a, b \in Nat : w[<<a, b>>] = IF b = 0 THEN a ELSE w[<<b, a % b>>]
    <2>1. ASSUME NEW p \in D PROVE w[p] = Euc(w, p)
        <3> HIDE DEF Euc, D
        <3> QED
            BY <1>4
    <2> QED
        BY <2>1
<1> DEFINE S == {k \in 0 .. c.of : \A a \in Nat, b \in Nat : b <= k => w[<<a, b>>] \in Divisors(a, b)}
<1>7. ASSUME NEW a \in Nat PROVE w[<<a, 0>>] \in Divisors(a, 0)
    <2>1. a = a * 1 /\ 0 = a * 0
        OBVIOUS
    <2>2. w[<<a, 0>>] = a
        <3>1. 0 \in Nat
            OBVIOUS
        <3> QED
            BY <1>6, <3>1, Zenon
    <2> QED
        BY <2>1, <2>2 DEF Divisors, Divides
<1>8. 0 \in S
    BY <1>7
<1>9. ASSUME NEW k \in 1 .. c.of, k - 1 \in S PROVE k \in S
    <2> SUFFICES ASSUME NEW a \in Nat, NEW b \in Nat, b <= k
                 PROVE  w[<<a, b>>] \in Divisors(a, b)
        OBVIOUS
    <2>1. CASE b = 0
        BY <1>7, <2>1
    <2>2. CASE b # 0
        <3>1. a % b \in Nat /\ a % b <= k - 1
            BY <2>2, Divided
        <3>2. w[<<b, a % b>>] \in Divisors(b, a % b)
            BY <1>9, <3>1
        <3>3. w[<<a, b>>] = w[<<b, a % b>>]
            BY <1>6, <2>2
        <3> QED
            BY <2>2, <3>2, <3>3, RemainderDivisors
    <2> QED
        BY <2>1, <2>2
<1>10. w[<<c.n, c.of>>] \in Divisors(c.n, c.of)
    <2>1. c.of \in S
        <3> HIDE DEF S
        <3>1. \A k \in 0 .. c.of : k \in S
            BY <1>8, <1>9, Upwards
        <3> QED
            BY <3>1
    <2> QED
        BY <2>1
<1> DEFINE g == w[<<c.n, c.of>>]
<1>11. PICK k \in Nat, l \in Nat : g \in Nat /\ c.n = g * k /\ c.of = g * l
    BY <1>10 DEF Divisors, Divides
<1> HIDE DEF g
<1>12. g \in Nat \ {0} /\ l # 0
    BY <1>11
<1>13. c.n \div g = k /\ c.of \div g = l
    <2>1. ASSUME NEW x \in Nat, NEW y \in Nat, x = g * y PROVE x \div g = y
        BY <1>12, <2>1
    <2> QED
        BY <1>11, <2>1
<1>14. k <= l
    <2>1. CASE ~(k <= l)
        <3>1. PICK j \in Nat : k = l + 1 + j
            BY <2>1, k - l - 1 \in Nat
        <3>2. g * k = g * l + g + g * j /\ g * j \in Nat /\ g * l \in Nat
            BY <1>12, <3>1
        <3> QED
            BY <1>11, <1>12, <3>2
    <2> QED
        BY <2>1
<1>15. k * c.of = c.n * l
    BY <1>11, <1>12
<1> QED
    BY <1>5, <1>12, <1>13, <1>14, <1>15 DEF g

-----------------------------------------------------------------------------
(* Windows of parsed events.                                               *)

(* A raw event as producers send it: its techniques are names.  A flat one *)
(* has no Junk among them, since its parser reads whatever there is.       *)
Sent(raw) ==
    /\ raw.source \in STRING /\ raw.sensor \in STRING
    /\ Written(raw)
    /\ {Get(raw.body, "mitre_technique"), Get(raw.body, "techniques")} \subseteq
           Seq(Technique) \cup {None, Junk}
    /\ Get(raw.body, "indicator_key") # None =>
           Junk \notin {Get(raw.body, "mitre_technique"), Get(raw.body, "techniques")}

(* What the fusion sees of a parsed event.                                 *)
Shaped(ev) ==
    /\ ev.source \in STRING /\ ev.sensor \in STRING
    /\ ev.confidence \in Int
    /\ ev.techniques \in Seq(Technique)
    /\ ev.source # "edr" => \A t \in Range(ev.techniques) : t.form = "attack"

LEMMA TechniquesAre ==
    ASSUME NEW x \in Seq(Technique) \cup {None}, NEW y \in Seq(Technique) \cup {None}
    PROVE  /\ Techniques(x, y) \in Seq(Technique)
           /\ \A t \in Range(Techniques(x, y)) : t.form = "attack"
<1> DEFINE both == Or(x, <<>>) \o Or(y, <<>>)
           P == {i \in DOMAIN both : both[i].form = "attack"}
<1>1. Or(x, <<>>) \in Seq(Technique) /\ Or(y, <<>>) \in Seq(Technique)
    BY DEF Or
<1>2. both \in Seq(Technique)
    BY <1>1
<1>3. Techniques(x, y) = Distinct(Kept(both, P))
    BY Zenon DEF Techniques
<1> HIDE DEF both
<1>4. Len(both) \in Nat /\ DOMAIN both = 1 .. Len(both) /\ \A i \in DOMAIN both : both[i] \in Technique
    BY <1>2, LenProperties, ElementOfSeq
<1>5. P \in SUBSET (1 .. Len(both)) /\ \A i \in P : both[i] \in Technique /\ both[i].form = "attack"
    BY <1>4
<1> HIDE DEF P
<1>6. Kept(both, P) \in Seq(Technique) /\ Range(Kept(both, P)) = {both[i] : i \in P}
    BY <1>4, <1>5, KeptItems
<1>7. /\ Distinct(Kept(both, P)) \in Seq(Technique)
      /\ Range(Distinct(Kept(both, P))) = Range(Kept(both, P))
    BY <1>6, DistinctItems
<1> QED
    BY <1>3, <1>5, <1>6, <1>7

LEMMA ParsedShaped ==
    ASSUME NEW raw, Sent(raw), NEW ev \in Parse(raw)
    PROVE  Shaped(ev)
<1> DEFINE Plain(e) == /\ e.source = raw.source /\ e.sensor = raw.sensor
                       /\ e.confidence \in Int /\ e.techniques = <<>>
<1>1. ASSUME NEW e, Plain(e) PROVE Shaped(e)
    <2>1. <<>> \in Seq(Technique) /\ Range(<<>>) = {}
        BY DEF Range
    <2> QED
        BY <1>1, <2>1 DEF Shaped, Sent
<1>2. \A x \in Int : Clamped(x) \in Int
    BY DEF Clamped
<1> DEFINE p == Parsed(raw)
<1>p. /\ p.source = raw.source /\ p.sensor = raw.sensor /\ p.techniques = <<>>
      /\ {"ip", "domain", "sha256", "pid", "confidence"} \subseteq DOMAIN p
    BY DEF Parsed
<1>e. ASSUME NEW x, NEW y, NEW z \in Int
      PROVE  /\ Plain([p EXCEPT !.ip = x, !.confidence = z])
             /\ Plain([p EXCEPT !.domain = x, !.confidence = z])
             /\ Plain([p EXCEPT !.sha256 = x, !.confidence = z])
             /\ Plain([[p EXCEPT !.pid = x] EXCEPT !.confidence = z])
             /\ Plain([[p EXCEPT !.pid = x] EXCEPT !.confidence = z, !.sha256 = y])
             /\ Plain([[p EXCEPT !.pid = x] EXCEPT !.confidence = z, !.ip = y])
    <2> HIDE DEF p
    <2> QED
        BY <1>p, <1>e
<1> HIDE DEF Plain
<1>n. {1, 2, 3, 4, 5} \subseteq Int
    OBVIOUS
<1>3. \A e \in ParseZeekConn(raw) : Plain(e)
    <2> DEFINE one == [p EXCEPT !.ip = Or(Get(raw.body, "id.resp_h"), Or(Get(raw.body, "dest_ip"), Get(raw.body, "dst"))),
                                 !.confidence = 1]
    <2>1. ParseZeekConn(raw) = {one}
        BY Zenon DEF ParseZeekConn
    <2>2. Plain(one)
        <3> HIDE DEF p
        <3> QED
            BY <1>e, <1>n, Zenon
    <2> HIDE DEF one
    <2> QED
        BY <2>1, <2>2
<1>4. \A e \in ParseZeekDns(raw) : Plain(e)
    <2> DEFINE one == [p EXCEPT !.domain = Or(Get(raw.body, "query"), Get(raw.body, "answer")),
                                 !.confidence = 1]
    <2>1. ParseZeekDns(raw) = {one}
        BY Zenon DEF ParseZeekDns
    <2>2. Plain(one)
        <3> HIDE DEF p
        <3> QED
            BY <1>e, <1>n, Zenon
    <2> HIDE DEF one
    <2> QED
        BY <2>1, <2>2
<1>5. \A e \in ParseZeekSsl(raw) : Plain(e)
    <2> DEFINE z == IF Get(raw.body, "validation_status") \in {None, "ok"} THEN 1 ELSE 2
    <2> DEFINE one == [p EXCEPT !.ip = Get(raw.body, "id.resp_h"), !.confidence = z]
    <2>1. z \in Int
        OBVIOUS
    <2>2. ParseZeekSsl(raw) =
              {one}
        BY Zenon DEF ParseZeekSsl
    <2>3. Plain(one)
        <3> HIDE DEF z, p
        <3> QED
            BY <1>e, <2>1, Zenon
    <2> HIDE DEF one
    <2> QED
        BY <2>2, <2>3
<1>6. \A e \in ParseSuricataAlert(raw) : Plain(e)
    <2> DEFINE severity == Or(Get(raw.body, "severity"), 3)
               table    == <<17, 11, 6, 2>>
               z        == IF severity \in DOMAIN table THEN table[severity] ELSE 6
    <2> DEFINE one == [p EXCEPT !.ip = Get(raw.body, "dest_ip"), !.confidence = z]
    <2>1. z \in Int
        OBVIOUS
    <2>2. ParseSuricataAlert(raw) =
              IF severity = Junk THEN {}
              ELSE {one}
        BY Zenon DEF ParseSuricataAlert
    <2>3. Plain(one)
        <3> HIDE DEF z, p
        <3> QED
            BY <1>e, <2>1, Zenon
    <2> HIDE DEF one
    <2> QED
        BY <2>2, <2>3
<1>7. \A e \in ParseSysmon(raw) : Plain(e)
    <2> DEFINE b    == raw.body
               eid  == Or(Get(b, "event_id"), Or(Get(b, "EventID"), 0))
               data == IF Get(b, "event_data") \in {None, Junk} THEN b ELSE b["event_data"]
               pid  == IF Get(data, "ProcessId") = Junk THEN None ELSE Get(data, "ProcessId")
               event == [p EXCEPT !.pid = pid]
               one  == [event EXCEPT !.confidence = 5, !.sha256 = Sha(Get(data, "Hashes"))]
               two  == [event EXCEPT !.confidence = 2]
               four == [event EXCEPT !.confidence = 4]
               three == [event EXCEPT !.confidence = 3, !.ip = Get(data, "DestinationIp")]
    <2>1. ParseSysmon(raw) =
              IF eid = Junk THEN {}
              ELSE CASE eid = 1 -> {one} [] eid = 11 -> {two} [] eid \in 12 .. 14 -> {four}
                     [] eid = 3 -> {three} [] OTHER -> {}
        BY Zenon DEF ParseSysmon
    <2>2. Plain(one) /\ Plain(two) /\ Plain(three) /\ Plain(four)
        <3> HIDE DEF p, pid, data
        <3> QED
            BY <1>e, <1>n, Zenon
    <2> HIDE DEF one, two, three, four, eid
    <2>3. 12 .. 14 = {12, 13, 14}
        OBVIOUS
    <2>4. ParseSysmon(raw) \in {{}, {one}, {two}, {three}, {four}}
        <3>1. CASE eid = 1 BY <2>1, <2>3, <3>1
        <3>2. CASE eid = 11 BY <2>1, <2>3, <3>2
        <3>3. CASE eid = 3 BY <2>1, <2>3, <3>3
        <3>4. CASE eid \in 12 .. 14 BY <2>1, <2>3, <3>4
        <3>5. CASE eid \notin {1, 11, 3} \cup 12 .. 14 BY <2>1, <2>3, <3>5
        <3> QED
            BY <3>1, <3>2, <3>3, <3>4, <3>5
    <2> QED
        BY <2>2, <2>4, Zenon
<1>8. \A e \in ParseYara(raw) : Plain(e)
    <2> DEFINE tags == Or(Get(raw.body, "tags"), {})
               z    == IF "strong" \in tags THEN 17 ELSE 11
    <2> DEFINE one == [p EXCEPT !.sha256 = Sha(Get(raw.body, "sha256")), !.confidence = z]
    <2>1. z \in Int
        OBVIOUS
    <2>2. ParseYara(raw) =
              IF tags = Junk THEN {}
              ELSE {one}
        BY Zenon DEF ParseYara
    <2>3. Plain(one)
        <3> HIDE DEF z, p
        <3> QED
            BY <1>e, <2>1, Zenon
    <2> HIDE DEF one
    <2> QED
        BY <2>2, <2>3
<1>9. ASSUME NEW e \in ParseEdr(raw), raw.source = "edr" PROVE Shaped(e)
    <2>1. /\ e.source = raw.source /\ e.sensor = raw.sensor
          /\ e.confidence = Clamped(Or(Get(raw.body, "score"), 4))
          /\ e.techniques = Or(Get(raw.body, "techniques"), <<>>)
          /\ Or(Get(raw.body, "score"), 4) # Junk /\ Get(raw.body, "techniques") # Junk
        BY DEF ParseEdr, Parsed
    <2>2. Or(Get(raw.body, "score"), 4) \in Int
        BY <2>1 DEF Or, Sent, Written
    <2>3. Or(Get(raw.body, "techniques"), <<>>) \in Seq(Technique)
        BY <2>1 DEF Or, Sent, Written
    <2> QED
        BY <1>2, <1>9, <2>1, <2>2, <2>3 DEF Shaped, Sent
<1>10. ASSUME NEW e \in ParseFlat(raw), Get(raw.body, "indicator_key") # None PROVE Shaped(e)
    <2> DEFINE parts == IndicatorParts(Parsed(raw), raw.body["indicator_key"])
               conf  == Or(Get(raw.body, "confidence"), 0)
               found == Techniques(Get(raw.body, "mitre_technique"), Get(raw.body, "techniques"))
    <2>1. /\ parts.source = raw.source /\ parts.sensor = raw.sensor
          /\ {"confidence", "techniques", "indicator"} \subseteq DOMAIN parts
        BY DEF IndicatorParts, Parsed
    <2>2. e = [parts EXCEPT !.indicator = raw.body["indicator_key"], !.techniques = found,
                            !.confidence = Clamped(conf)] /\ conf # Junk
        BY Zenon DEF ParseFlat
    <2> HIDE DEF parts, found, conf
    <2>3. /\ e.source = raw.source /\ e.sensor = raw.sensor
          /\ e.confidence = Clamped(conf) /\ e.techniques = found
        BY <2>1, <2>2
    <2>4. conf \in Int
        BY <2>2 DEF conf, Or, Sent, Written
    <2>5. found \in Seq(Technique) /\ \A t \in Range(found) : t.form = "attack"
        <3>1. /\ Get(raw.body, "mitre_technique") \in Seq(Technique) \cup {None}
              /\ Get(raw.body, "techniques") \in Seq(Technique) \cup {None}
            BY <1>10 DEF Sent
        <3> QED
            BY <3>1, TechniquesAre DEF found
    <2> QED
        BY <1>2, <2>3, <2>4, <2>5 DEF Shaped, Sent
<1> HIDE DEF Plain
<1> QED
    BY <1>1, <1>3, <1>4, <1>5, <1>6, <1>7, <1>8, <1>9, <1>10 DEF Parse

(* What the reports of a sensor show: what its events mention.             *)
LEMMA TechniquesBySensorIs ==
    ASSUME NEW n \in Nat, NEW window, DOMAIN window = 1 .. n,
           \A i \in 1 .. n : Shaped(window[i]),
           NEW s \in {window[i].sensor : i \in 1 .. n}
    PROVE  LET shown == TechniquesBySensor(window)[s] IN
           /\ shown \in Seq(Technique)
           /\ Range(shown) = UNION {Range(window[i].techniques) :
                                       i \in {j \in 1 .. n : window[j].sensor = s}}
<1> DEFINE P     == {i \in 1 .. n : window[i].sensor = s}
           mine  == Kept(window, P)
           lists == [i \in DOMAIN mine |-> mine[i].techniques]
           Evs   == {window[i] : i \in P}
<1>1. TechniquesBySensor(window)[s] = Distinct(FlattenSeq(lists))
    BY Zenon DEF TechniquesBySensor
<1>2. P \in SUBSET (1 .. n) /\ \A i \in P : window[i] \in Evs
    OBVIOUS
<1>3. \A e \in Evs : e.techniques \in Seq(Technique)
    BY DEF Shaped
<1> HIDE DEF P, Evs
<1>4. mine \in Seq(Evs) /\ Range(mine) = {window[i] : i \in P}
    BY <1>2, KeptItems
<1> HIDE DEF mine
<1>5. /\ Len(mine) \in Nat /\ DOMAIN mine = 1 .. Len(mine)
      /\ \A i \in DOMAIN mine : mine[i] \in Evs
    BY <1>4, LenProperties, ElementOfSeq
<1>6. lists \in [1 .. Len(mine) -> Seq(Technique)]
    BY <1>3, <1>5
<1>7. UNION {Range(lists[i]) : i \in 1 .. Len(mine)} = UNION {Range(window[i].techniques) : i \in P}
    <2>1. \A i \in 1 .. Len(mine) : lists[i] = mine[i].techniques
        BY <1>5
    <2>2. \A i \in 1 .. Len(mine) : \E j \in P : mine[i] = window[j]
        BY <1>4, <1>5 DEF Range
    <2>3. \A j \in P : \E i \in 1 .. Len(mine) : mine[i] = window[j]
        BY <1>4, <1>5 DEF Range
    <2> HIDE DEF lists
    <2>4. ASSUME NEW t
          PROVE  (\E i \in 1 .. Len(mine) : t \in Range(lists[i])) <=>
                     \E j \in P : t \in Range(window[j].techniques)
        BY <2>1, <2>2, <2>3
    <2> QED
        BY <2>4
<1> HIDE DEF lists
<1>8. /\ FlattenSeq(lists) \in Seq(Technique)
      /\ Range(FlattenSeq(lists)) = UNION {Range(window[i].techniques) : i \in P}
    <2>1. /\ FlattenSeq(lists) \in Seq(Technique)
          /\ Range(FlattenSeq(lists)) = UNION {Range(lists[i]) : i \in 1 .. Len(mine)}
        BY <1>5, <1>6, FlattenIs
    <2> QED
        BY <1>7, <2>1
<1> QED
    BY <1>1, <1>8, DistinctItems DEF P

(* A window of parsed events for a key of them all, as the dataflow gives  *)
(* it to the fusion.                                                       *)
Gathered(window, n, key) ==
    /\ DOMAIN window = 1 .. n
    /\ \A i \in 1 .. n : /\ \E raw : Sent(raw) /\ window[i] \in Parse(raw)
                         /\ key \in AggKeys(window[i])

(* Whatever producers send, the reports of a window are inputs of the      *)
(* fusion, of threshold.evaluate's kind, and its key is one that a frame   *)
(* can be recorded under: the parsers clamp confidences, take ATT&CK ids   *)
(* only unless the source is an EDR, and put hashes in lower case.         *)
(* (threshold.py:57-110, parsers.py:27-235, flow.py:244-300).              *)
THEOREM WindowsAreInputs ==
    ASSUME NEW n \in Nat \ {0}, NEW window, NEW key, Gathered(window, n, key)
    PROVE  LET rs == ReportsOf(window, key)
           IN  Reporting(rs) /\ Evaluated(rs) /\ TacticsByEdr(rs) /\ KeyFits(key)
<1> DEFINE given == Reports(window, key)
           By    == TechniquesBySensor(window)
           Shown(r) == [agent |-> r.agent, sensor |-> r.sensor,
                        n |-> Lowest(r.confidence).n, of |-> Lowest(r.confidence).of,
                        ignorance |-> r.ignorance, techniques |-> By[r.sensor]]
           rs    == ReportsOf(window, key)
<1>1. DOMAIN window = 1 .. n /\ \A i \in 1 .. n : key \in AggKeys(window[i])
    BY DEF Gathered
<1>2. ASSUME NEW i \in 1 .. n PROVE Shaped(window[i])
    BY ParsedShaped DEF Gathered
<1>3. \A i \in 1 .. n : /\ window[i].source \in STRING /\ window[i].sensor \in STRING
                        /\ window[i].confidence \in Int
    BY <1>2 DEF Shaped
<1>4. /\ \A i \in 1 .. n :
             Cardinality({r \in DOMAIN given : given[r].agent = AgentOf(window[i])}) = 1
      /\ \A r \in DOMAIN given :
             /\ given[r].confidence.n \in 0 .. given[r].confidence.of
             /\ given[r].confidence.of \in Nat \ {0}
             /\ given[r].sensor = given[r].agent[2]
             /\ given[r].ignorance \in {1, 3}
             /\ \E i \in 1 .. n : given[r].agent = AgentOf(window[i])
      /\ \A r, s \in DOMAIN given : given[r].agent = given[s].agent => r = s
      /\ \E q \in Nat : DOMAIN given = 1 .. q
    <2> HIDE DEF given
    <2> QED
        BY <1>1, <1>3, ReportsAre, n \in Nat DEF given
<1>5. PICK q \in Nat : DOMAIN given = 1 .. q
    BY <1>4
<1>6. rs = [r \in DOMAIN given |-> Shown(given[r])]
    BY Zenon DEF ReportsOf
<1> HIDE DEF given, rs
<1>7. ASSUME NEW i \in 1 .. n
      PROVE  \E r \in 1 .. q : given[r].agent = AgentOf(window[i])
    <2>1. CASE {r \in DOMAIN given : given[r].agent = AgentOf(window[i])} = {}
        BY <1>4, <2>1, FS_EmptySet
    <2> QED
        BY <1>5, <2>1
<1>8. ASSUME NEW r \in 1 .. q
      PROVE  /\ rs[r] \in AgentReport /\ rs[r].n <= rs[r].of /\ rs[r].ignorance \in {1, 3}
             /\ rs[r].agent = given[r].agent /\ rs[r].techniques = By[rs[r].sensor]
             /\ rs[r].sensor = rs[r].agent[2]
             /\ rs[r].sensor \in {window[i].sensor : i \in 1 .. n}
    <2> DEFINE c == given[r].confidence
               s == given[r].sensor
    <2>1. rs[r] = Shown(given[r])
        BY <1>5, <1>6
    <2>2. Lowest(c).n \in Nat /\ Lowest(c).of \in Nat \ {0} /\ Lowest(c).n <= Lowest(c).of
        BY <1>4, <1>5, LowestIs
    <2>3. PICK i \in 1 .. n : given[r].agent = AgentOf(window[i])
        BY <1>4, <1>5
    <2>4. /\ given[r].agent \in STRING \X STRING
          /\ s \in STRING /\ s = given[r].agent[2] /\ s = window[i].sensor
        BY <1>3, <1>4, <1>5, <2>3 DEF AgentOf
    <2>5. By[s] \in Seq(Technique)
        BY <1>1, <1>2, <2>4, TechniquesBySensorIs, n \in Nat
    <2>6. given[r].ignorance \in {1, 3}
        BY <1>4, <1>5
    <2> HIDE DEF By
    <2>7. rs[r] \in AgentReport
        BY <2>1, <2>2, <2>4, <2>5, <2>6 DEF AgentReport
    <2>8. /\ rs[r].sensor = s /\ rs[r].agent = given[r].agent
          /\ rs[r].n = Lowest(c).n /\ rs[r].of = Lowest(c).of
          /\ rs[r].ignorance = given[r].ignorance /\ rs[r].techniques = By[s]
        BY <2>1
    <2> QED
        BY <2>2, <2>4, <2>6, <2>7, <2>8
<1>9. DOMAIN rs = 1 .. q /\ rs \in Seq(AgentReport) /\ rs # <<>>
    <2>1. DOMAIN rs = 1 .. q /\ rs = [r \in 1 .. q |-> rs[r]]
        BY <1>5, <1>6
    <2>2. q # 0
        BY <1>7
    <2>3. rs \in Seq(AgentReport)
        BY <1>8, <2>1
    <2>4. rs # <<>>
        BY <2>1, <2>2, <2>3, LenProperties, EmptySeq
    <2> QED
        BY <2>1, <2>3, <2>4
<1> HIDE DEF By
<1>10. Reporting(rs)
    BY <1>8, <1>9 DEF Reporting
<1>11. Evaluated(rs)
    BY <1>4, <1>5, <1>8, <1>9 DEF Evaluated
<1>12. TacticsByEdr(rs)
    <2> SUFFICES ASSUME NEW r \in 1 .. q, NEW k \in DOMAIN rs[r].techniques,
                        rs[r].techniques[k].form # "attack"
                 PROVE  \E j \in 1 .. q : /\ rs[j].agent[1] = "edr"
                                          /\ rs[j].techniques = rs[r].techniques
        BY <1>9 DEF TacticsByEdr
    <2> DEFINE s == rs[r].sensor
               t == rs[r].techniques[k]
    <2>1. t \in Range(By[s])
        BY <1>8 DEF Range
    <2>2. Range(By[s]) = UNION {Range(window[i].techniques) :
                                   i \in {j \in 1 .. n : window[j].sensor = s}}
        <3>1. s \in {window[i].sensor : i \in 1 .. n}
            BY <1>8
        <3> HIDE DEF s
        <3> QED
            BY <1>1, <1>2, <3>1, TechniquesBySensorIs, n \in Nat DEF By
    <2>3. PICK i \in 1 .. n : window[i].sensor = s /\ t \in Range(window[i].techniques)
        BY <2>1, <2>2
    <2>4. window[i].source = "edr"
        BY <1>2, <2>3 DEF Shaped
    <2>5. PICK j \in 1 .. q : given[j].agent = AgentOf(window[i])
        BY <1>7
    <2>6. rs[j].agent = <<"edr", s>>
        BY <1>8, <2>3, <2>4, <2>5 DEF AgentOf
    <2>7. rs[j].sensor = s
        BY <1>8, <2>6
    <2> QED
        BY <1>8, <2>6, <2>7
<1>13. KeyFits(key)
    <2>1. PICK raw : Sent(raw) /\ window[1] \in Parse(raw) /\ key \in AggKeys(window[1])
        BY 1 \in 1 .. n DEF Gathered
    <2>2. Written(raw)
        BY <2>1 DEF Sent
    <2> QED
        BY <2>1, <2>2, AggregatedHash DEF KeyFits
<1> QED
    BY <1>10, <1>11, <1>12, <1>13 DEF rs

-----------------------------------------------------------------------------
(* Induction over the subsets of a finite set.                             *)
LEMMA SetUpwards ==
    ASSUME NEW U, IsFiniteSet(U), NEW Q, {} \in Q,
           \A T \in SUBSET U : \A x \in U \ T : T \in Q => T \cup {x} \in Q
    PROVE  \A T \in SUBSET U : T \in Q
<1> DEFINE S == {k \in Nat : \A T \in SUBSET U : Cardinality(T) = k => T \in Q}
           n == Cardinality(U)
<1>1. n \in Nat /\ \A T \in SUBSET U : IsFiniteSet(T) /\ Cardinality(T) \in 0 .. n
    <2>1. n \in Nat
        BY FS_CardinalityType
    <2>2. ASSUME NEW T \in SUBSET U PROVE IsFiniteSet(T) /\ Cardinality(T) \in 0 .. n
        BY <2>1, FS_Subset, FS_CardinalityType
    <2> QED
        BY <2>1, <2>2
<1> HIDE DEF n
<1>2. 0 \in S
    <2>1. ASSUME NEW T \in SUBSET U, Cardinality(T) = 0 PROVE T \in Q
        BY <1>1, <2>1, FS_EmptySet
    <2> QED
        BY <2>1
<1>3. ASSUME NEW i \in 1 .. n, i - 1 \in S PROVE i \in S
    <2> SUFFICES ASSUME NEW T \in SUBSET U, Cardinality(T) = i PROVE T \in Q
        BY <1>1
    <2>0. T # {}
        BY <1>1, FS_EmptySet
    <2>1. PICK x \in T : TRUE
        BY <2>0
    <2>2. Cardinality(T \ {x}) = i - 1
        BY <1>1, FS_RemoveElement
    <2>3. T \ {x} \in Q /\ T \ {x} \in SUBSET U /\ x \in U \ (T \ {x})
        BY <1>3, <2>2
    <2>4. (T \ {x}) \cup {x} \in Q
        BY <2>3
    <2>5. (T \ {x}) \cup {x} = T
        OBVIOUS
    <2> QED
        BY <2>4, <2>5
<1>4. \A i \in 0 .. n : i \in S
    <2> HIDE DEF S
    <2> QED
        BY <1>1, <1>2, <1>3, Upwards
<1> QED
    BY <1>1, <1>4

-----------------------------------------------------------------------------
(* Sums of weights.                                                        *)

Weigh(S) == MapThenSumSet(LAMBDA g : g.weight, S)

Weighted(S) == IsFiniteSet(S) /\ \A g \in S : g.weight \in Nat

Adds(sum, U) ==
    /\ sum \in [SUBSET U -> Nat]
    /\ sum[{}] = 0
    /\ \A T \in SUBSET U : \A x \in U \ T : sum[T \cup {x}] = sum[T] + x.weight

LEMMA SumExists ==
    ASSUME NEW U, Weighted(U)
    PROVE  \E sum : Adds(sum, U)
<1> DEFINE Q == {V \in SUBSET U : \E sum : Adds(sum, V)}
<1>1. {} \in Q
    <2> DEFINE sum == [T \in SUBSET {} |-> 0]
    <2>1. Adds(sum, {})
        BY DEF Adds
    <2> HIDE DEF sum
    <2> QED
        BY <2>1
<1>2. ASSUME NEW V \in SUBSET U, NEW y \in U \ V, V \in Q PROVE V \cup {y} \in Q
    <2>1. PICK old : Adds(old, V)
        BY <1>2
    <2> DEFINE W == V \cup {y}
               sum == [T \in SUBSET W |-> IF y \in T THEN old[T \ {y}] + y.weight ELSE old[T]]
    <2>2. y.weight \in Nat
        BY DEF Weighted
    <2>3. \A T \in SUBSET W : T \ {y} \in SUBSET V /\ (y \notin T => T \in SUBSET V)
        OBVIOUS
    <2>4. sum \in [SUBSET W -> Nat]
        BY <2>1, <2>2, <2>3 DEF Adds
    <2>5. sum[{}] = 0
        BY <2>1 DEF Adds
    <2>6. ASSUME NEW T \in SUBSET W, NEW x \in W \ T
          PROVE  sum[T \cup {x}] = sum[T] + x.weight
        <3>1. CASE x = y
            <4>1. (T \cup {x}) \ {y} = T /\ T \cup {x} \in SUBSET W
                BY <3>1
            <4> QED
                BY <3>1, <4>1
        <3>2. CASE x # y /\ y \in T
            <4>1. /\ (T \cup {x}) \ {y} = (T \ {y}) \cup {x} /\ T \cup {x} \in SUBSET W
                  /\ T \ {y} \in SUBSET V /\ x \in V \ (T \ {y}) /\ y \in T \cup {x}
                BY <3>2
            <4>2. old[(T \ {y}) \cup {x}] = old[T \ {y}] + x.weight
                BY <2>1, <4>1 DEF Adds
            <4>3. old[T \ {y}] \in Nat /\ x.weight \in Nat
                BY <2>1, <4>1 DEF Adds, Weighted
            <4>4. sum[T \cup {x}] = old[T \ {y}] + x.weight + y.weight
                BY <4>1, <4>2
            <4>5. sum[T] = old[T \ {y}] + y.weight
                BY <3>2
            <4> HIDE DEF sum
            <4> QED
                BY <2>2, <4>3, <4>4, <4>5
        <3>3. CASE x # y /\ y \notin T
            <4>1. /\ T \cup {x} \in SUBSET W /\ T \in SUBSET V /\ x \in V \ T /\ y \notin T \cup {x}
                BY <3>3
            <4>2. old[T \cup {x}] = old[T] + x.weight
                BY <2>1, <4>1 DEF Adds
            <4> QED
                BY <3>3, <4>1, <4>2
        <3> QED
            BY <3>1, <3>2, <3>3
    <2>7. Adds(sum, W)
        <3> HIDE DEF sum, W
        <3> QED
            BY <2>4, <2>5, <2>6 DEF Adds
    <2> HIDE DEF sum
    <2> QED
        BY <2>7
<1>3. U \in Q
    <2> HIDE DEF Q
    <2>1. IsFiniteSet(U)
        BY DEF Weighted
    <2> QED
        BY <1>1, <1>2, <2>1, SetUpwards
<1> QED
    BY <1>3

(* MapThenSumSet, a recursion that takes some element first, is that sum.  *)
LEMMA WeighIs ==
    ASSUME NEW U, Weighted(U), NEW sum, Adds(sum, U)
    PROVE  Weigh(U) = sum[U]
<1> DEFINE Iter(f, s) == IF s = {} THEN 0
                         ELSE (CHOOSE x \in s : TRUE).weight + f[s \ {CHOOSE x \in s : TRUE}]
           P(f) == f = [s \in SUBSET U |-> Iter(f, s)]
           w == CHOOSE f : P(f)
<1>1. Weigh(U) = w[U]
    BY Zenon DEF Weigh, MapThenSumSet, MapThenFoldSet
<1>2. ASSUME NEW s \in SUBSET U, s # {}
      PROVE  LET x == CHOOSE x \in s : TRUE
             IN  x \in s /\ s \ {x} \in SUBSET U /\ sum[s] = x.weight + sum[s \ {x}]
    <2> DEFINE x == CHOOSE x \in s : TRUE
    <2>1. x \in s
        BY <1>2
    <2> HIDE DEF x
    <2>2. s \ {x} \in SUBSET U /\ x \in U \ (s \ {x}) /\ (s \ {x}) \cup {x} = s
        BY <2>1
    <2>3. sum[s] = sum[s \ {x}] + x.weight /\ sum[s \ {x}] \in Nat /\ x.weight \in Nat
        BY <2>2 DEF Adds, Weighted
    <2>4. sum[s] = x.weight + sum[s \ {x}]
        BY <2>3
    <2> QED
        BY <2>1, <2>2, <2>4 DEF x
<1>3. P(sum)
    <2>1. ASSUME NEW s \in SUBSET U PROVE sum[s] = Iter(sum, s)
        BY <1>2 DEF Adds
    <2>2. sum = [s \in SUBSET U |-> sum[s]]
        BY DEF Adds
    <2> HIDE DEF Iter
    <2> QED
        BY <2>1, <2>2
<1>4. P(w)
    <2> HIDE DEF P
    <2> QED
        BY <1>3
<1> HIDE DEF w
<1>5. \A s \in SUBSET U : w[s] = Iter(w, s)
    <2> HIDE DEF Iter
    <2> QED
        BY <1>4
<1> DEFINE n == Cardinality(U)
           S == {k \in Nat : \A s \in SUBSET U : Cardinality(s) = k => w[s] = sum[s]}
<1>6. n \in Nat /\ \A s \in SUBSET U : IsFiniteSet(s)
    BY FS_Subset, FS_CardinalityType DEF Weighted
<1>7. 0 \in S
    <2>1. ASSUME NEW s \in SUBSET U, Cardinality(s) = 0 PROVE w[s] = sum[s]
        <3>1. s = {}
            BY <1>6, <2>1, FS_EmptySet
        <3> QED
            BY <1>5, <3>1 DEF Adds
    <2> QED
        BY <2>1
<1> HIDE DEF n
<1>8. ASSUME NEW k \in 1 .. n, k - 1 \in S PROVE k \in S
    <2> SUFFICES ASSUME NEW s \in SUBSET U, Cardinality(s) = k PROVE w[s] = sum[s]
        BY <1>6
    <2> DEFINE x == CHOOSE x \in s : TRUE
    <2>1. s # {}
        BY FS_EmptySet
    <2>2. x \in s /\ s \ {x} \in SUBSET U /\ sum[s] = x.weight + sum[s \ {x}]
        BY <1>2, <2>1
    <2>3. w[s] = x.weight + w[s \ {x}]
        BY <1>5, <2>1
    <2> HIDE DEF x
    <2>4. Cardinality(s \ {x}) = k - 1
        BY <1>6, <2>2, FS_RemoveElement
    <2>5. w[s \ {x}] = sum[s \ {x}]
        BY <1>8, <2>2, <2>4
    <2> QED
        BY <2>2, <2>3, <2>5
<1>9. n \in S
    <2> HIDE DEF S
    <2>1. \A k \in 0 .. n : k \in S
        BY <1>6, <1>7, <1>8, Upwards
    <2> QED
        BY <1>6, <2>1
<1> QED
    BY <1>1, <1>9 DEF n

(* The sums over parts, over one element and over two sets.                 *)
LEMMA WeightedSubset ==
    ASSUME NEW U, Weighted(U), NEW T \in SUBSET U
    PROVE  Weighted(T)
BY FS_Subset DEF Weighted

(* One sum for all the subsets of a set.                                   *)
LEMMA WeighSums ==
    ASSUME NEW U, Weighted(U)
    PROVE  \E sum : Adds(sum, U) /\ \A T \in SUBSET U : Weigh(T) = sum[T]
<1>1. PICK sum : Adds(sum, U)
    BY SumExists
<1>2. ASSUME NEW T \in SUBSET U PROVE Weigh(T) = sum[T]
    <2> DEFINE part == [s \in SUBSET T |-> sum[s]]
    <2>1. \A s \in SUBSET T : s \in SUBSET U
        OBVIOUS
    <2>2. Adds(part, T)
        <3>1. part \in [SUBSET T -> Nat] /\ part[{}] = 0
            BY <1>1, <2>1 DEF Adds
        <3>2. ASSUME NEW s \in SUBSET T, NEW x \in T \ s
              PROVE  part[s \cup {x}] = part[s] + x.weight
            <4>1. s \in SUBSET U /\ x \in U \ s /\ s \cup {x} \in SUBSET T
                OBVIOUS
            <4> QED
                BY <1>1, <4>1 DEF Adds
        <3> HIDE DEF part
        <3> QED
            BY <3>1, <3>2 DEF Adds
    <2>3. Weighted(T)
        BY WeightedSubset
    <2>4. part[T] = sum[T]
        OBVIOUS
    <2> HIDE DEF part
    <2> QED
        BY <2>2, <2>3, <2>4, WeighIs
<1> QED
    BY <1>1, <1>2

LEMMA WeighEmpty == Weighted({}) /\ Weigh({}) = 0
<1>1. Weighted({})
    BY FS_EmptySet DEF Weighted
<1>2. PICK sum : Adds(sum, {}) /\ \A T \in SUBSET {} : Weigh(T) = sum[T]
    BY <1>1, WeighSums
<1> QED
    BY <1>1, <1>2 DEF Adds

LEMMA WeighOne ==
    ASSUME NEW x, x.weight \in Nat
    PROVE  Weighted({x}) /\ Weigh({x}) = x.weight
<1>1. Weighted({x})
    BY FS_Singleton DEF Weighted
<1>2. PICK sum : Adds(sum, {x}) /\ \A T \in SUBSET {x} : Weigh(T) = sum[T]
    BY <1>1, WeighSums
<1>3. {} \in SUBSET {x} /\ x \in {x} \ {} /\ {} \cup {x} = {x}
    OBVIOUS
<1>4. sum[{} \cup {x}] = sum[{}] + x.weight /\ sum[{}] = 0
    BY <1>2, <1>3 DEF Adds
<1> QED
    BY <1>1, <1>2, <1>3, <1>4

LEMMA WeighUnion ==
    ASSUME NEW A, NEW B, Weighted(A), Weighted(B), A \cap B = {}
    PROVE  /\ Weighted(A \cup B) /\ Weigh(A) \in Nat /\ Weigh(B) \in Nat
           /\ Weigh(A \cup B) = Weigh(A) + Weigh(B)
<1> DEFINE U == A \cup B
<1>1. Weighted(U)
    BY FS_Union DEF Weighted
<1>2. PICK sum : Adds(sum, U) /\ \A T \in SUBSET U : Weigh(T) = sum[T]
    <2> HIDE DEF U
    <2> QED
        BY <1>1, WeighSums
<1> DEFINE Q == {T \in SUBSET B : sum[A \cup T] = sum[A] + sum[T]}
<1>3. sum[A] \in Nat /\ sum[B] \in Nat
    BY <1>2 DEF Adds
<1>4. {} \in Q
    <2>1. A \cup {} = A /\ sum[{}] = 0
        BY <1>2 DEF Adds
    <2> QED
        BY <1>3, <2>1
<1>5. ASSUME NEW T \in SUBSET B, NEW x \in B \ T, T \in Q
      PROVE  T \cup {x} \in Q
    <2>1. /\ A \cup T \in SUBSET U /\ T \in SUBSET U /\ x \in U \ (A \cup T) /\ x \in U \ T
          /\ A \cup (T \cup {x}) = (A \cup T) \cup {x}
        OBVIOUS
    <2>2. sum[(A \cup T) \cup {x}] = sum[A \cup T] + x.weight /\ sum[T \cup {x}] = sum[T] + x.weight
        BY <1>2, <2>1 DEF Adds
    <2>3. sum[T] \in Nat /\ x.weight \in Nat
        BY <1>2, <2>1 DEF Adds, Weighted
    <2>4. sum[A \cup T] = sum[A] + sum[T]
        BY <1>5
    <2>5. sum[A] + (sum[T] + x.weight) = (sum[A] + sum[T]) + x.weight
        BY <1>3, <2>3
    <2>6. sum[A \cup (T \cup {x})] = sum[A] + sum[T \cup {x}]
        BY <2>1, <2>2, <2>4, <2>5, Zenon
    <2> QED
        BY <2>6
<1>6. B \in Q
    <2>1. IsFiniteSet(B)
        BY DEF Weighted
    <2> HIDE DEF Q
    <2> QED
        BY <1>4, <1>5, <2>1, SetUpwards
<1> QED
    BY <1>1, <1>2, <1>3, <1>6

-----------------------------------------------------------------------------
(* Sums over a family of sets that have nothing in common.                 *)

All(f, X) == UNION {f[x] : x \in X}

Apart(f, X) ==
    /\ \A x \in X : Weighted(f[x])
    /\ \A x, y \in X : x # y => f[x] \cap f[y] = {}

LEMMA WeighNext ==
    ASSUME NEW X, NEW f, Apart(f, X), NEW T \in SUBSET X, NEW x \in X \ T, Weighted(All(f, T))
    PROVE  /\ Weighted(All(f, T \cup {x}))
           /\ Weigh(All(f, T)) \in Nat /\ Weigh(f[x]) \in Nat
           /\ Weigh(All(f, T \cup {x})) = Weigh(All(f, T)) + Weigh(f[x])
<1>1. All(f, T \cup {x}) = All(f, T) \cup f[x]
    BY DEF All
<1>2. All(f, T) \cap f[x] = {} /\ Weighted(f[x])
    BY DEF All, Apart
<1> DEFINE a == All(f, T)
           b == f[x]
<1>3. Weighted(a) /\ Weighted(b) /\ a \cap b = {}
    BY <1>2
<1> HIDE DEF a, b
<1>4. /\ Weighted(a \cup b) /\ Weigh(a) \in Nat /\ Weigh(b) \in Nat
      /\ Weigh(a \cup b) = Weigh(a) + Weigh(b)
    BY <1>3, WeighUnion
<1> QED
    BY <1>1, <1>4 DEF a, b

(* Sets that weigh the same one by one do so together.                     *)
LEMMA WeighLike ==
    ASSUME NEW X, IsFiniteSet(X), NEW f, NEW g, Apart(f, X), Apart(g, X),
           \A x \in X : Weigh(f[x]) = Weigh(g[x])
    PROVE  /\ Weighted(All(f, X)) /\ Weighted(All(g, X))
           /\ Weigh(All(f, X)) = Weigh(All(g, X))
<1> DEFINE Q == {T \in SUBSET X : /\ Weighted(All(f, T)) /\ Weighted(All(g, T))
                                  /\ Weigh(All(f, T)) = Weigh(All(g, T))}
<1>1. {} \in Q
    <2>1. All(f, {}) = {} /\ All(g, {}) = {}
        BY DEF All
    <2> QED
        BY <2>1, WeighEmpty
<1>2. ASSUME NEW T \in SUBSET X, NEW x \in X \ T, T \in Q PROVE T \cup {x} \in Q
    BY <1>2, WeighNext
<1>3. X \in Q
    <2> HIDE DEF Q
    <2> QED
        BY <1>1, <1>2, SetUpwards
<1> QED
    BY <1>3

(* Sets of one weight.                                                     *)
LEMMA WeighEach ==
    ASSUME NEW X, IsFiniteSet(X), NEW f, Apart(f, X), NEW c \in Nat,
           \A x \in X : Weigh(f[x]) = c
    PROVE  /\ Weighted(All(f, X))
           /\ Weigh(All(f, X)) = Cardinality(X) * c
<1> DEFINE Q == {T \in SUBSET X : /\ Weighted(All(f, T))
                                  /\ Weigh(All(f, T)) = Cardinality(T) * c}
<1>1. {} \in Q
    <2>1. All(f, {}) = {} /\ Cardinality({}) = 0 /\ 0 * c = 0
        BY FS_EmptySet DEF All
    <2> QED
        BY <2>1, WeighEmpty
<1>2. ASSUME NEW T \in SUBSET X, NEW x \in X \ T, T \in Q PROVE T \cup {x} \in Q
    <2>1. /\ Weighted(All(f, T \cup {x}))
          /\ Weigh(All(f, T \cup {x})) = Cardinality(T) * c + c
        BY <1>2, WeighNext
    <2>2. IsFiniteSet(T) /\ Cardinality(T) \in Nat
        BY FS_Subset, FS_CardinalityType
    <2>3. Cardinality(T \cup {x}) = Cardinality(T) + 1
        BY <2>2, FS_AddElement
    <2>4. (Cardinality(T) + 1) * c = Cardinality(T) * c + c
        BY <2>2
    <2> QED
        BY <2>1, <2>3, <2>4
<1>3. X \in Q
    <2> HIDE DEF Q
    <2> QED
        BY <1>1, <1>2, SetUpwards
<1> QED
    BY <1>3

-----------------------------------------------------------------------------
(* factorial, of the community modules.                                    *)
LEMMA FactorialIs ==
    /\ factorial \in [Nat -> Nat] /\ factorial[0] = 1
    /\ \A n \in Nat \ {0} : factorial[n] = n * factorial[n - 1]
<1> DEFINE P(f) == f = [n \in Nat |-> IF n = 0 THEN 1 ELSE n * f[n - 1]]
           Of(n) == [i \in 1 .. n |-> i]
           p == [n \in Nat |-> CHOOSE q : Partial(q, n, Of(n))]
           f == [n \in Nat |-> p[n][n]]
<1>1. ASSUME NEW n \in Nat
      PROVE  /\ p[n] \in [0 .. n -> Nat] /\ p[n][0] = 1
             /\ \A i \in 1 .. n : p[n][i] = p[n][i - 1] * i
    <2>1. Of(n) \in [1 .. n -> Nat]
        OBVIOUS
    <2>2. \A i \in 1 .. n : Of(n)[i] = i
        OBVIOUS
    <2>3. p[n] = CHOOSE q : Partial(q, n, Of(n))
        OBVIOUS
    <2> HIDE DEF Of, p
    <2>4. Partial(p[n], n, Of(n))
        BY <2>1, <2>3, PartialIs
    <2>5. /\ p[n] \in [0 .. n -> Nat] /\ p[n][0] = 1
          /\ \A i \in 1 .. n : p[n][i] = p[n][i - 1] * Of(n)[i]
        BY <2>1, <2>4, PartialIs
    <2> QED
        BY <2>2, <2>5
<1> HIDE DEF p
<1>2. ASSUME NEW n \in Nat \ {0} PROVE p[n][n - 1] = p[n - 1][n - 1]
    <2> DEFINE S == {i \in 0 .. n - 1 : p[n][i] = p[n - 1][i]}
    <2>1. n - 1 \in Nat
        OBVIOUS
    <2>2. 0 \in S
        BY <1>1, <2>1
    <2>3. ASSUME NEW i \in 1 .. n - 1, i - 1 \in S PROVE i \in S
        <3>1. p[n][i] = p[n][i - 1] * i
            BY <1>1
        <3>2. p[n - 1][i] = p[n - 1][i - 1] * i
            BY <1>1, <2>1
        <3> QED
            BY <2>3, <3>1, <3>2
    <2>4. \A i \in 0 .. n - 1 : i \in S
        <3> HIDE DEF S
        <3> QED
            BY <2>1, <2>2, <2>3, Upwards
    <2> QED
        BY <2>1, <2>4
<1>3. f \in [Nat -> Nat]
    BY <1>1
<1>4. f[0] = 1
    BY <1>1
<1>5. ASSUME NEW n \in Nat \ {0} PROVE f[n] = n * f[n - 1]
    <2>1. p[n][n] = p[n][n - 1] * n
        BY <1>1
    <2>2. n - 1 \in Nat /\ p[n - 1][n - 1] \in Nat
        BY <1>1
    <2> QED
        BY <1>2, <2>1, <2>2
<1> HIDE DEF f
<1>6. P(f)
    BY <1>3, <1>4, <1>5
<1>7. P(factorial)
    <2>1. factorial = CHOOSE g : P(g)
        BY Zenon DEF factorial
    <2> HIDE DEF P
    <2> QED
        BY <1>6, <2>1
<1>8. factorial[0] = 1 /\ \A n \in Nat \ {0} : factorial[n] = n * factorial[n - 1]
    BY <1>7
<1>9. ASSUME NEW n \in Nat PROVE factorial[n] \in Nat
    <2> DEFINE S == {i \in 0 .. n : factorial[i] \in Nat}
    <2>1. 0 \in S
        BY <1>8
    <2>2. ASSUME NEW i \in 1 .. n, i - 1 \in S PROVE i \in S
        BY <1>8, <2>2
    <2>3. \A i \in 0 .. n : i \in S
        <3> HIDE DEF S
        <3> QED
            BY <2>1, <2>2, Upwards
    <2> QED
        BY <2>3
<1>10. factorial \in [Nat -> Nat]
    BY <1>7, <1>9
<1> QED
    BY <1>8, <1>10

-----------------------------------------------------------------------------
(* Orders.  A record of each has weight 1, and so many begin in one way.   *)

Tells(h, n) == \A p \in Bijection(1 .. n, 1 .. n) : h[p].weight = 1 /\ h[p].order = p

(* The first k places of p.                                                *)
Starts(p, k, q) == \A l \in 1 .. k : p[l] = q[l]

Beginning(h, n, k, q) == {h[p] : p \in {p \in Bijection(1 .. n, 1 .. n) : Starts(p, k, q)}}

LEMMA OrderIs ==
    ASSUME NEW A, NEW B, NEW p \in Bijection(A, B)
    PROVE  /\ p \in [A -> B] /\ \A a, b \in A : p[a] = p[b] => a = b
           /\ \A y \in B : \E a \in A : p[a] = y
<1>1. p \in [A -> B] /\ \A a, b \in A : p[a] = p[b] => a = b
    BY Fun_BijectionProperties
<1>2. \A y \in B : \E a \in A : p[a] = y
    <2>1. p \in Surjection(A, B)
        BY DEF Bijection
    <2> QED
        BY <2>1 DEF Surjection
<1> QED
    BY <1>1, <1>2

(* One place more.                                                         *)
Then(k, q, x) == [l \in 1 .. k + 1 |-> IF l = k + 1 THEN x ELSE q[l]]

LEMMA ThenIs ==
    ASSUME NEW U, NEW k \in Nat, NEW q \in Injection(1 .. k, U),
           NEW x \in U \ {q[l] : l \in 1 .. k}
    PROVE  /\ Then(k, q, x) \in Injection(1 .. k + 1, U)
           /\ \A p : Starts(p, k + 1, Then(k, q, x)) <=> Starts(p, k, q) /\ p[k + 1] = x
<1> DEFINE t == Then(k, q, x)
<1>1. q \in [1 .. k -> U] /\ \A a, b \in 1 .. k : q[a] = q[b] => a = b
    BY Fun_InjectionProperties
<1>2. \A l \in 1 .. k + 1 : l = k + 1 \/ l \in 1 .. k
    OBVIOUS
<1>3. /\ t[k + 1] = x /\ \A l \in 1 .. k : t[l] = q[l] /\ l # k + 1 /\ l \in 1 .. k + 1
      /\ k + 1 \in 1 .. k + 1
    BY DEF Then
<1>4. t \in [1 .. k + 1 -> U]
    BY <1>1, <1>2 DEF Then
<1> HIDE DEF t
<1>5. \A a, b \in 1 .. k + 1 : t[a] = t[b] => a = b
    BY <1>1, <1>2, <1>3
<1>6. t \in Injection(1 .. k + 1, U)
    BY <1>4, <1>5, Fun_IsInj
<1>7. \A p : Starts(p, k + 1, t) <=> Starts(p, k, q) /\ p[k + 1] = x
    BY <1>2, <1>3 DEF Starts
<1> QED
    BY <1>6, <1>7 DEF t

(* What is left for the next place.                                        *)
LEMMA RemainingPlaces ==
    ASSUME NEW U, IsFiniteSet(U), NEW k \in Nat, NEW q \in Injection(1 .. k, U)
    PROVE  LET X == U \ {q[l] : l \in 1 .. k}
           IN  IsFiniteSet(X) /\ Cardinality(X) = Cardinality(U) - k
<1> DEFINE R == {q[l] : l \in 1 .. k}
           X == U \ R
<1>1. q \in [1 .. k -> U] /\ \A a, b \in 1 .. k : q[a] = q[b] => a = b
    BY Fun_InjectionProperties
<1>2. q \in Bijection(1 .. k, R)
    <2>1. q \in [1 .. k -> R] /\ \A y \in R : \E l \in 1 .. k : q[l] = y
        BY <1>1
    <2> HIDE DEF R
    <2> QED
        BY <1>1, <2>1, Fun_IsBij
<1>3. X \cup R = U /\ X \cap R = {} /\ R \in SUBSET U
    BY <1>1
<1> HIDE DEF R
<1>4. IsFiniteSet(R) /\ IsFiniteSet(X)
    BY <1>3, FS_Subset
<1>5. Cardinality(R) = k
    BY <1>2, FS_CountingElements DEF ExistsBijection
<1>6. Cardinality(U) = Cardinality(X) + Cardinality(R) - 0
    BY <1>3, <1>4, FS_Union, FS_EmptySet
<1>7. Cardinality(X) \in Nat
    BY <1>4, FS_CardinalityType
<1> QED
    BY <1>4, <1>5, <1>6, <1>7 DEF R

(* n - k places are left after k.                                          *)
LEMMA BeginningIs ==
    ASSUME NEW n \in Nat, NEW h, Tells(h, n)
    PROVE  \A k \in 0 .. n : \A q \in Injection(1 .. k, 1 .. n) :
               /\ Weighted(Beginning(h, n, k, q))
               /\ Weigh(Beginning(h, n, k, q)) = factorial[n - k]
<1> DEFINE N == 1 .. n
           Fits(j) == \A q \in Injection(1 .. (n - j), N) :
                          /\ Weighted(Beginning(h, n, n - j, q))
                          /\ Weigh(Beginning(h, n, n - j, q)) = factorial[j]
           S == {j \in 0 .. n : Fits(j)}
<1>1. IsFiniteSet(N) /\ Cardinality(N) = n
    BY FS_Interval
<1>2. 0 \in S
    <2> SUFFICES ASSUME NEW q \in Injection(1 .. n, N)
                 PROVE  /\ Weighted(Beginning(h, n, n, q))
                        /\ Weigh(Beginning(h, n, n, q)) = factorial[0]
        BY n - 0 = n
    <2>1. q \in Bijection(N, N)
        <3>1. q \in Surjection(N, N)
            BY <1>1, FS_Injection
        <3> QED
            BY <3>1 DEF Bijection
    <2>2. \A p \in Bijection(N, N) : Starts(p, n, q) <=> p = q
        <3>1. q \in [N -> N]
            BY <2>1, Fun_BijectionProperties
        <3>2. ASSUME NEW p \in Bijection(N, N), Starts(p, n, q) PROVE p = q
            <4>1. p \in [N -> N]
                BY Fun_BijectionProperties
            <4> QED
                BY <3>1, <3>2, <4>1 DEF Starts
        <3> QED
            BY <3>2 DEF Starts
    <2>3. Beginning(h, n, n, q) = {h[q]}
        BY <2>1, <2>2 DEF Beginning
    <2>4. h[q].weight = 1
        BY <2>1 DEF Tells
    <2> QED
        BY <2>3, <2>4, WeighOne, FactorialIs
<1>3. ASSUME NEW j \in 1 .. n, j - 1 \in S PROVE j \in S
    <2> DEFINE k == n - j
    <2>0. k \in Nat /\ k + 1 \in N /\ k + 1 = n - (j - 1) /\ k + 1 \in Nat
        OBVIOUS
    <2> SUFFICES ASSUME NEW q \in Injection(1 .. k, N)
                 PROVE  /\ Weighted(Beginning(h, n, k, q))
                        /\ Weigh(Beginning(h, n, k, q)) = factorial[j]
        OBVIOUS
    <2> HIDE DEF k
    <2> DEFINE X == N \ {q[l] : l \in 1 .. k}
               f == [x \in X |-> Beginning(h, n, k + 1, Then(k, q, x))]
    <2>1. IsFiniteSet(X) /\ Cardinality(X) = j
        <3>1. IsFiniteSet(X) /\ Cardinality(X) = n - k
            BY <1>1, <2>0, RemainingPlaces
        <3> QED
            BY <3>1 DEF k
    <2>2. ASSUME NEW x \in X
          PROVE  /\ Weighted(f[x]) /\ Weigh(f[x]) = factorial[j - 1]
                 /\ f[x] = {h[p] : p \in {p \in Bijection(N, N) : Starts(p, k, q) /\ p[k + 1] = x}}
        <3>1. /\ Then(k, q, x) \in Injection(1 .. k + 1, N)
              /\ \A p : Starts(p, k + 1, Then(k, q, x)) <=> Starts(p, k, q) /\ p[k + 1] = x
            BY <2>0, ThenIs
        <3>2. Fits(j - 1)
            BY <1>3
        <3>3. /\ Weighted(Beginning(h, n, k + 1, Then(k, q, x)))
              /\ Weigh(Beginning(h, n, k + 1, Then(k, q, x))) = factorial[j - 1]
            BY <2>0, <3>1, <3>2
        <3>4. f[x] = Beginning(h, n, k + 1, Then(k, q, x))
            OBVIOUS
        <3> HIDE DEF f, X, N
        <3> QED
            BY <3>1, <3>3, <3>4 DEF Beginning, N
    <2>3. ASSUME NEW p \in Bijection(N, N), Starts(p, k, q) PROVE p[k + 1] \in X
        <3>1. p \in [N -> N] /\ \A a, b \in N : p[a] = p[b] => a = b
            BY OrderIs
        <3>2. \A l \in 1 .. k : l \in N /\ l # k + 1
            BY <2>0
        <3> QED
            BY <2>0, <2>3, <3>1, <3>2 DEF Starts
    <2> HIDE DEF f, X
    <2>4. All(f, X) = Beginning(h, n, k, q)
        <3>1. ASSUME NEW g \in Beginning(h, n, k, q) PROVE g \in All(f, X)
            <4>1. PICK p \in Bijection(N, N) : Starts(p, k, q) /\ g = h[p]
                BY DEF Beginning
            <4>2. p[k + 1] \in X /\ g \in f[p[k + 1]]
                BY <2>2, <2>3, <4>1
            <4> QED
                BY <4>2 DEF All
        <3>2. ASSUME NEW x \in X, NEW g \in f[x] PROVE g \in Beginning(h, n, k, q)
            BY <2>2 DEF Beginning
        <3> QED
            BY <3>1, <3>2 DEF All
    <2>5. Apart(f, X)
        <3>1. ASSUME NEW x \in X, NEW y \in X, NEW g \in f[x], g \in f[y] PROVE x = y
            <4>1. PICK p \in Bijection(N, N) : p[k + 1] = x /\ g = h[p]
                BY <2>2
            <4>2. PICK o \in Bijection(N, N) : o[k + 1] = y /\ g = h[o]
                BY <2>2, <3>1
            <4>3. p = o
                BY <4>1, <4>2 DEF Tells
            <4> QED
                BY <4>1, <4>2, <4>3
        <3> QED
            BY <2>2, <3>1 DEF Apart
    <2>6. factorial[j - 1] \in Nat /\ factorial[j] = j * factorial[j - 1]
        <3>1. j \in Nat \ {0} /\ j - 1 \in Nat
            OBVIOUS
        <3> QED
            BY <3>1, FactorialIs
    <2> QED
        BY <2>1, <2>2, <2>4, <2>5, <2>6, WeighEach
<1>4. \A j \in 0 .. n : j \in S
    <2> HIDE DEF S
    <2> QED
        BY <1>2, <1>3, Upwards
<1> QED
    <2> SUFFICES ASSUME NEW k \in 0 .. n, NEW q \in Injection(1 .. k, N)
                 PROVE  /\ Weighted(Beginning(h, n, k, q))
                        /\ Weigh(Beginning(h, n, k, q)) = factorial[n - k]
        OBVIOUS
    <2>1. n - k \in 0 .. n /\ n - (n - k) = k
        OBVIOUS
    <2>2. Fits(n - k)
        BY <1>4, <2>1
    <2> QED
        BY <2>1, <2>2

-----------------------------------------------------------------------------
(* The orders in which those of S are the ones before i.                   *)
Placed(p, S, i) ==
    /\ \A l \in 1 .. Cardinality(S) : p[l] \in S
    /\ p[Cardinality(S) + 1] = i

Placing(h, n, S, i, k, q) ==
    {h[p] : p \in {p \in Bijection(1 .. n, 1 .. n) : Starts(p, k, q) /\ Placed(p, S, i)}}

LEMMA PlacingIs ==
    ASSUME NEW n \in Nat, NEW h, Tells(h, n), NEW i \in 1 .. n, NEW S \in SUBSET (1 .. n \ {i})
    PROVE  LET s == Cardinality(S) IN
           /\ s \in 0 .. n - 1
           /\ \A k \in 0 .. s : \A q \in Injection(1 .. k, S) :
                  /\ Weighted(Placing(h, n, S, i, k, q))
                  /\ Weigh(Placing(h, n, S, i, k, q)) = factorial[s - k] * factorial[n - 1 - s]
<1> DEFINE N == 1 .. n
           s == Cardinality(S)
           c == factorial[n - 1 - s]
           Fits(j) == \A q \in Injection(1 .. (s - j), S) :
                          /\ Weighted(Placing(h, n, S, i, s - j, q))
                          /\ Weigh(Placing(h, n, S, i, s - j, q)) = factorial[j] * c
           Z == {j \in 0 .. s : Fits(j)}
<1>1. /\ IsFiniteSet(S) /\ s \in 0 .. n - 1
    <2> DEFINE V == N \ {i}
    <2>1. IsFiniteSet(N) /\ Cardinality(N) = n
        BY FS_Interval
    <2>2. IsFiniteSet(V) /\ Cardinality(V) = n - 1
        BY <2>1, FS_RemoveElement
    <2>3. S \in SUBSET V
        OBVIOUS
    <2> HIDE DEF V
    <2>4. IsFiniteSet(S) /\ Cardinality(S) <= Cardinality(V)
        BY <2>2, <2>3, FS_Subset
    <2> QED
        BY <2>2, <2>4, FS_CardinalityType
<1> HIDE DEF s
<1>2. c \in Nat
    BY <1>1, FactorialIs
<1> HIDE DEF c
<1>3. 0 \in Z
    <2> SUFFICES ASSUME NEW q \in Injection(1 .. s, S)
                 PROVE  /\ Weighted(Placing(h, n, S, i, s, q))
                        /\ Weigh(Placing(h, n, S, i, s, q)) = factorial[0] * c
        BY <1>1, s - 0 = s
    <2>1. q \in [1 .. s -> S] /\ \A a, b \in 1 .. s : q[a] = q[b] => a = b
        BY Fun_InjectionProperties
    <2>2. q \in Injection(1 .. s, N) /\ i \in N \ {q[l] : l \in 1 .. s}
        BY <2>1, Fun_IsInj
    <2>3. /\ Then(s, q, i) \in Injection(1 .. s + 1, N)
          /\ \A p : Starts(p, s + 1, Then(s, q, i)) <=> Starts(p, s, q) /\ p[s + 1] = i
        BY <1>1, <2>2, ThenIs
    <2>4. \A p : Starts(p, s, q) => (Placed(p, S, i) <=> p[s + 1] = i)
        BY <2>1 DEF Starts, Placed, s
    <2>5. Placing(h, n, S, i, s, q) = Beginning(h, n, s + 1, Then(s, q, i))
        BY <2>3, <2>4 DEF Placing, Beginning
    <2>6. s + 1 \in 0 .. n /\ n - (s + 1) = n - 1 - s
        BY <1>1
    <2>7. /\ Weighted(Beginning(h, n, s + 1, Then(s, q, i)))
          /\ Weigh(Beginning(h, n, s + 1, Then(s, q, i))) = factorial[n - (s + 1)]
        BY <2>3, <2>6, BeginningIs
    <2>8. factorial[0] * c = c
        BY <1>2, FactorialIs
    <2> QED
        BY <2>5, <2>6, <2>7, <2>8 DEF c
<1>4. ASSUME NEW j \in 1 .. s, j - 1 \in Z PROVE j \in Z
    <2> DEFINE k == s - j
    <2>0. k \in Nat /\ k + 1 \in N /\ k + 1 = s - (j - 1) /\ k + 1 \in 1 .. s /\ j \in Nat \ {0}
        BY <1>1
    <2> SUFFICES ASSUME NEW q \in Injection(1 .. k, S)
                 PROVE  /\ Weighted(Placing(h, n, S, i, k, q))
                        /\ Weigh(Placing(h, n, S, i, k, q)) = factorial[j] * c
        BY <1>1
    <2> HIDE DEF k
    <2> DEFINE X == S \ {q[l] : l \in 1 .. k}
               f == [x \in X |-> Placing(h, n, S, i, k + 1, Then(k, q, x))]
    <2>1. IsFiniteSet(X) /\ Cardinality(X) = j
        <3>1. IsFiniteSet(X) /\ Cardinality(X) = s - k
            BY <1>1, <2>0, RemainingPlaces DEF s
        <3> QED
            BY <1>1, <3>1 DEF k
    <2>2. ASSUME NEW x \in X
          PROVE  /\ Weighted(f[x]) /\ Weigh(f[x]) = factorial[j - 1] * c
                 /\ f[x] = {h[p] : p \in {p \in Bijection(N, N) :
                              Starts(p, k, q) /\ p[k + 1] = x /\ Placed(p, S, i)}}
        <3>1. /\ Then(k, q, x) \in Injection(1 .. k + 1, S)
              /\ \A p : Starts(p, k + 1, Then(k, q, x)) <=> Starts(p, k, q) /\ p[k + 1] = x
            BY <2>0, ThenIs
        <3>2. Fits(j - 1)
            BY <1>4
        <3>3. /\ Weighted(Placing(h, n, S, i, k + 1, Then(k, q, x)))
              /\ Weigh(Placing(h, n, S, i, k + 1, Then(k, q, x))) = factorial[j - 1] * c
            BY <2>0, <3>1, <3>2
        <3>4. f[x] = Placing(h, n, S, i, k + 1, Then(k, q, x))
            OBVIOUS
        <3> HIDE DEF f, X, N
        <3> QED
            BY <3>1, <3>3, <3>4 DEF Placing, N
    <2>3. ASSUME NEW p \in Bijection(N, N), Starts(p, k, q), Placed(p, S, i) PROVE p[k + 1] \in X
        <3>1. p \in [N -> N] /\ \A a, b \in N : p[a] = p[b] => a = b
            BY OrderIs
        <3>2. \A l \in 1 .. k : l \in N /\ l # k + 1
            BY <2>0
        <3>3. p[k + 1] \in S
            BY <2>0, <2>3 DEF Placed, s
        <3> QED
            BY <2>0, <2>3, <3>1, <3>2, <3>3 DEF Starts
    <2> HIDE DEF f, X
    <2>4. All(f, X) = Placing(h, n, S, i, k, q)
        <3>1. ASSUME NEW g \in Placing(h, n, S, i, k, q) PROVE g \in All(f, X)
            <4>1. PICK p \in Bijection(N, N) : Starts(p, k, q) /\ Placed(p, S, i) /\ g = h[p]
                BY DEF Placing
            <4>2. p[k + 1] \in X /\ g \in f[p[k + 1]]
                BY <2>2, <2>3, <4>1
            <4> QED
                BY <4>2 DEF All
        <3>2. ASSUME NEW x \in X, NEW g \in f[x] PROVE g \in Placing(h, n, S, i, k, q)
            BY <2>2 DEF Placing
        <3> QED
            BY <3>1, <3>2 DEF All
    <2>5. Apart(f, X)
        <3>1. ASSUME NEW x \in X, NEW y \in X, NEW g \in f[x], g \in f[y] PROVE x = y
            <4>1. PICK p \in Bijection(N, N) : p[k + 1] = x /\ g = h[p]
                BY <2>2
            <4>2. PICK o \in Bijection(N, N) : o[k + 1] = y /\ g = h[o]
                BY <2>2, <3>1
            <4>3. p = o
                BY <4>1, <4>2 DEF Tells
            <4> QED
                BY <4>1, <4>2, <4>3
        <3> QED
            BY <2>2, <3>1 DEF Apart
    <2>6. factorial[j - 1] \in Nat /\ factorial[j] = j * factorial[j - 1]
        BY <2>0, FactorialIs
    <2>7. factorial[j - 1] * c \in Nat /\ j * (factorial[j - 1] * c) = factorial[j] * c
        <3> DEFINE d == factorial[j - 1]
        <3> HIDE DEF d
        <3>1. d \in Nat /\ factorial[j] = j * d
            BY <2>6 DEF d
        <3>2. d * c \in Nat /\ j * (d * c) = (j * d) * c
            BY <1>2, <2>0, <3>1
        <3> QED
            BY <3>1, <3>2 DEF d
    <2> QED
        BY <2>1, <2>2, <2>4, <2>5, <2>7, WeighEach
<1>5. \A j \in 0 .. s : j \in Z
    <2>1. s \in Nat
        BY <1>1
    <2> HIDE DEF Z
    <2> QED
        BY <1>3, <1>4, <2>1, Upwards
<1>6. ASSUME NEW k \in 0 .. s, NEW q \in Injection(1 .. k, S)
      PROVE  /\ Weighted(Placing(h, n, S, i, k, q))
             /\ Weigh(Placing(h, n, S, i, k, q)) = factorial[s - k] * c
    <2>1. s - k \in 0 .. s /\ s - (s - k) = k
        BY <1>1
    <2>2. Fits(s - k)
        BY <1>5, <2>1
    <2> QED
        BY <2>1, <2>2
<1> QED
    BY <1>1, <1>6 DEF s, c

-----------------------------------------------------------------------------
(* Masses that are joined one after the other, in any order.               *)

(* A mass function by its masses.                                          *)
Masses(e, b, t) == [evil |-> e, benign |-> b, theta |-> t, of |-> e + b + t]

Additive == {Masses(a[1], a[2], a[3]) : a \in Nat \X Nat \X Nat}

Vacuous == Masses(0, 0, 1)

LEMMA AdditiveIs ==
    ASSUME NEW x \in Additive
    PROVE  /\ x.evil \in Nat /\ x.benign \in Nat /\ x.theta \in Nat
           /\ x = Masses(x.evil, x.benign, x.theta)
BY DEF Additive, Masses

LEMMA MassesAdditive ==
    ASSUME NEW e \in Nat, NEW b \in Nat, NEW t \in Nat
    PROVE  Masses(e, b, t) \in Additive
<1> DEFINE a == <<e, b, t>>
<1>1. a \in Nat \X Nat \X Nat /\ Masses(a[1], a[2], a[3]) = Masses(e, b, t)
    OBVIOUS
<1> HIDE DEF a
<1> QED
    BY <1>1 DEF Additive

LEMMA WholeAdditive ==
    ASSUME NEW x \in Whole
    PROVE  x \in Additive
<1>1. /\ x.evil \in Nat /\ x.benign \in Nat /\ x.theta \in Nat
      /\ x = Masses(x.evil, x.benign, x.theta)
    BY DEF Whole, Mass, Masses
<1> QED
    BY <1>1, MassesAdditive

LEMMA MeetMasses ==
    ASSUME NEW x \in Additive, NEW y \in Additive
    PROVE  /\ Meet(x, y) = Masses(x.evil * y.evil + x.evil * y.theta + x.theta * y.evil,
                                  x.benign * y.benign + x.benign * y.theta + x.theta * y.benign,
                                  x.theta * y.theta)
           /\ Meet(x, y) \in Additive
<1>1. /\ x.evil \in Nat /\ x.benign \in Nat /\ x.theta \in Nat
      /\ y.evil \in Nat /\ y.benign \in Nat /\ y.theta \in Nat
      /\ x.of = x.evil + x.benign + x.theta /\ y.of = y.evil + y.benign + y.theta
    BY AdditiveIs DEF Masses
<1>2. \A e, b, t, E, B, T \in Nat :
          (e + b + t) * (E + B + T) - (e * B + b * E) =
              (e * E + e * T + t * E) + (b * B + b * T + t * B) + t * T
    OBVIOUS
<1>3. Meet(x, y) = Masses(x.evil * y.evil + x.evil * y.theta + x.theta * y.evil,
                          x.benign * y.benign + x.benign * y.theta + x.theta * y.benign,
                          x.theta * y.theta)
    BY <1>1, <1>2 DEF Meet, Masses, Conflict
<1>4. \A e, t, E, T \in Nat : e * E + e * T + t * E \in Nat /\ t * T \in Nat
    OBVIOUS
<1>5. /\ x.evil * y.evil + x.evil * y.theta + x.theta * y.evil \in Nat
      /\ x.benign * y.benign + x.benign * y.theta + x.theta * y.benign \in Nat
      /\ x.theta * y.theta \in Nat
    BY <1>1, <1>4
<1> QED
    BY <1>3, <1>5, MassesAdditive

(* Dempster's rule does not depend on the order of what it is given.       *)
LEMMA MetBoth ==
    ASSUME NEW e \in Nat, NEW t \in Nat, NEW E \in Nat, NEW T \in Nat, NEW f \in Nat, NEW u \in Nat,
           NEW E1, NEW T1, NEW E2, NEW T2,
           E1 = e * E + e * T + t * E, T1 = t * T, E2 = e * f + e * u + t * f, T2 = t * u
    PROVE  E1 * f + E1 * u + T1 * f = E2 * E + E2 * T + T2 * E
<1>1. (e * E + e * T + t * E) * f + (e * E + e * T + t * E) * u + (t * T) * f
          = (e * f + e * u + t * f) * E + (e * f + e * u + t * f) * T + (t * u) * E
    OBVIOUS
<1> QED
    BY <1>1, Zenon

LEMMA MeetSwap ==
    ASSUME NEW x \in Additive, NEW y \in Additive, NEW z \in Additive
    PROVE  Meet(Meet(x, y), z) = Meet(Meet(x, z), y)
<1> DEFINE a == Meet(x, y)
           b == Meet(x, z)
<1>1. /\ x.evil \in Nat /\ x.benign \in Nat /\ x.theta \in Nat
      /\ y.evil \in Nat /\ y.benign \in Nat /\ y.theta \in Nat
      /\ z.evil \in Nat /\ z.benign \in Nat /\ z.theta \in Nat
    BY AdditiveIs
<1>2. /\ a.evil = x.evil * y.evil + x.evil * y.theta + x.theta * y.evil
      /\ a.benign = x.benign * y.benign + x.benign * y.theta + x.theta * y.benign
      /\ a.theta = x.theta * y.theta
      /\ b.evil = x.evil * z.evil + x.evil * z.theta + x.theta * z.evil
      /\ b.benign = x.benign * z.benign + x.benign * z.theta + x.theta * z.benign
      /\ b.theta = x.theta * z.theta
    BY DEF Meet
<1>3. a \in Additive /\ b \in Additive
    BY MeetMasses
<1> HIDE DEF a, b
<1>4. a.evil * z.evil + a.evil * z.theta + a.theta * z.evil
          = b.evil * y.evil + b.evil * y.theta + b.theta * y.evil
    BY <1>1, <1>2, MetBoth
<1>5. a.benign * z.benign + a.benign * z.theta + a.theta * z.benign
          = b.benign * y.benign + b.benign * y.theta + b.theta * y.benign
    BY <1>1, <1>2, MetBoth
<1>6. a.theta * z.theta = b.theta * y.theta
    <2>1. \A t, T, u \in Nat : (t * T) * u = (t * u) * T
        OBVIOUS
    <2> QED
        BY <1>1, <1>2, <2>1
<1>7. /\ Meet(a, z) = Masses(a.evil * z.evil + a.evil * z.theta + a.theta * z.evil,
                             a.benign * z.benign + a.benign * z.theta + a.theta * z.benign,
                             a.theta * z.theta)
      /\ Meet(b, y) = Masses(b.evil * y.evil + b.evil * y.theta + b.theta * y.evil,
                             b.benign * y.benign + b.benign * y.theta + b.theta * y.benign,
                             b.theta * y.theta)
    BY <1>3, MeetMasses
<1>8. Meet(a, z) = Meet(b, y)
    BY <1>4, <1>5, <1>6, <1>7, Zenon
<1> QED
    BY <1>8 DEF a, b

LEMMA MeetVacuous ==
    ASSUME NEW x \in Additive
    PROVE  Vacuous \in Additive /\ Meet(Vacuous, x) = x
<1>1. Vacuous \in Additive
    BY MassesAdditive DEF Vacuous
<1>2. /\ x.evil \in Nat /\ x.benign \in Nat /\ x.theta \in Nat
      /\ x = Masses(x.evil, x.benign, x.theta)
    BY AdditiveIs
<1>3. Vacuous.evil = 0 /\ Vacuous.benign = 0 /\ Vacuous.theta = 1
    BY DEF Vacuous, Masses
<1>4. Meet(Vacuous, x) = Masses(0 * x.evil + 0 * x.theta + 1 * x.evil,
                               0 * x.benign + 0 * x.theta + 1 * x.benign, 1 * x.theta)
    BY <1>1, <1>3, MeetMasses
<1>5. /\ 0 * x.evil + 0 * x.theta + 1 * x.evil = x.evil
      /\ 0 * x.benign + 0 * x.theta + 1 * x.benign = x.benign
      /\ 1 * x.theta = x.theta
    BY <1>2
<1> QED
    BY <1>1, <1>2, <1>4, <1>5, Zenon

-----------------------------------------------------------------------------
(* One mass function for each set of reports.                              *)

Melds(mu, b, V) ==
    /\ mu \in [SUBSET V -> Additive]
    /\ mu[{}] = Vacuous
    /\ \A T \in SUBSET V : \A x \in V \ T : mu[T \cup {x}] = Meet(mu[T], b[x])

LEMMA MeldExists ==
    ASSUME NEW U, IsFiniteSet(U), NEW b \in [U -> Additive]
    PROVE  \E mu : Melds(mu, b, U)
<1> DEFINE Q == {V \in SUBSET U : \E mu : Melds(mu, b, V)}
<1>1. {} \in Q
    <2> DEFINE mu == [T \in SUBSET {} |-> Vacuous]
    <2>1. Vacuous \in Additive
        BY MassesAdditive DEF Vacuous
    <2>2. Melds(mu, b, {})
        BY <2>1 DEF Melds
    <2> HIDE DEF mu
    <2> QED
        BY <2>2
<1>2. ASSUME NEW V \in SUBSET U, NEW y \in U \ V, V \in Q PROVE V \cup {y} \in Q
    <2>1. PICK old : Melds(old, b, V)
        BY <1>2
    <2> DEFINE W == V \cup {y}
               mu == [T \in SUBSET W |-> IF y \in T THEN Meet(old[T \ {y}], b[y]) ELSE old[T]]
    <2>2. \A T \in SUBSET V : old[T] \in Additive
        BY <2>1 DEF Melds
    <2>3. \A T \in SUBSET W : T \ {y} \in SUBSET V /\ (y \notin T => T \in SUBSET V)
        OBVIOUS
    <2>4. mu \in [SUBSET W -> Additive]
        <3>1. \A T \in SUBSET W : y \in T => Meet(old[T \ {y}], b[y]) \in Additive
            BY <2>2, <2>3, MeetMasses
        <3> QED
            BY <2>2, <2>3, <3>1
    <2>5. mu[{}] = Vacuous
        BY <2>1 DEF Melds
    <2>6. ASSUME NEW T \in SUBSET W, NEW x \in W \ T
          PROVE  mu[T \cup {x}] = Meet(mu[T], b[x])
        <3>1. CASE x = y
            <4>1. (T \cup {x}) \ {y} = T /\ T \cup {x} \in SUBSET W
                BY <3>1
            <4> QED
                BY <3>1, <4>1
        <3>2. CASE x # y /\ y \in T
            <4>1. /\ (T \cup {x}) \ {y} = (T \ {y}) \cup {x} /\ T \cup {x} \in SUBSET W
                  /\ T \ {y} \in SUBSET V /\ x \in V \ (T \ {y}) /\ y \in T \cup {x}
                BY <3>2
            <4>2. old[(T \ {y}) \cup {x}] = Meet(old[T \ {y}], b[x])
                BY <2>1, <4>1 DEF Melds
            <4>3. mu[T \cup {x}] = Meet(Meet(old[T \ {y}], b[x]), b[y])
                BY <4>1, <4>2
            <4>4. mu[T] = Meet(old[T \ {y}], b[y])
                BY <3>2
            <4>5. old[T \ {y}] \in Additive /\ b[x] \in Additive /\ b[y] \in Additive
                BY <2>2, <4>1
            <4> HIDE DEF mu
            <4> QED
                BY <4>3, <4>4, <4>5, MeetSwap
        <3>3. CASE x # y /\ y \notin T
            <4>1. /\ T \cup {x} \in SUBSET W /\ T \in SUBSET V /\ x \in V \ T /\ y \notin T \cup {x}
                BY <3>3
            <4>2. old[T \cup {x}] = Meet(old[T], b[x])
                BY <2>1, <4>1 DEF Melds
            <4> QED
                BY <3>3, <4>1, <4>2
        <3> QED
            BY <3>1, <3>2, <3>3
    <2>7. Melds(mu, b, W)
        <3> HIDE DEF mu, W
        <3> QED
            BY <2>4, <2>5, <2>6 DEF Melds
    <2> HIDE DEF mu
    <2> QED
        BY <2>7
<1>3. U \in Q
    <2> HIDE DEF Q
    <2> QED
        BY <1>1, <1>2, SetUpwards
<1> QED
    BY <1>3

(* One step of the fold in FusedBelief.                                    *)
Joined(x, y) == IF KWouldExceed(x, y) THEN Yager(x, y) ELSE Meet(x, y)

(* Every set of reports has one fold, in whatever order.                   *)
Coalesces(mu, rs) ==
    /\ \A i \in 1 .. Len(rs) : mu[{i}] = Bpa(rs[i])
    /\ \A T \in SUBSET (1 .. Len(rs)) : \A i \in (1 .. Len(rs)) \ T :
           T # {} => mu[T \cup {i}] = Joined(mu[T], Bpa(rs[i]))
    /\ \A i, j \in 1 .. Len(rs) : \A T \in SUBSET ((1 .. Len(rs)) \ {i, j}) :
           Bpa(rs[i]) = Bpa(rs[j]) => mu[T \cup {i}] = mu[T \cup {j}]

LEMMA BpasAdditive ==
    ASSUME NEW rs, Reporting(rs)
    PROVE  /\ Len(rs) \in Nat \ {0} /\ DOMAIN rs = 1 .. Len(rs)
           /\ \A i \in 1 .. Len(rs) :
                  rs[i] \in AgentReport /\ Bpa(rs[i]) \in Whole /\ Bpa(rs[i]) \in Additive
<1>1. rs \in Seq(AgentReport) /\ rs # <<>> /\ \A i \in DOMAIN rs : rs[i].n <= rs[i].of
    BY DEF Reporting
<1>2. Len(rs) \in Nat \ {0} /\ DOMAIN rs = 1 .. Len(rs)
    BY <1>1, LenProperties, EmptySeq
<1>3. ASSUME NEW i \in 1 .. Len(rs)
      PROVE  rs[i] \in AgentReport /\ Bpa(rs[i]) \in Whole
    <2>1. rs[i] \in AgentReport
        BY <1>1, ElementOfSeq
    <2> QED
        BY <1>1, <1>2, <2>1, BpaWhole
<1> QED
    BY <1>2, <1>3, WholeAdditive

LEMMA AlikeCoalesce ==
    ASSUME NEW rs, Reporting(rs),
           \A i, j \in 1 .. Len(rs) : PrefersEvil(Bpa(rs[i])) = PrefersEvil(Bpa(rs[j]))
    PROVE  \E mu : Coalesces(mu, rs)
<1> DEFINE N == 1 .. Len(rs)
           b == [i \in N |-> Bpa(rs[i])]
<1>1. /\ Len(rs) \in Nat \ {0} /\ 1 \in N /\ IsFiniteSet(N)
      /\ \A i \in N : Bpa(rs[i]) \in Additive
    BY BpasAdditive, FS_Interval
<1>2. b \in [N -> Additive] /\ \A i \in N : b[i] = Bpa(rs[i])
    BY <1>1
<1>3. PICK mu : Melds(mu, b, N)
    <2> HIDE DEF b, N
    <2> QED
        BY <1>1, <1>2, MeldExists
<1> HIDE DEF b
<1>4. \A T \in SUBSET N : mu[T] \in Additive
    BY <1>3 DEF Melds
<1>5. \A T \in SUBSET N : \A i \in N \ T : mu[T \cup {i}] = Meet(mu[T], Bpa(rs[i]))
    BY <1>2, <1>3 DEF Melds
<1>6. ASSUME NEW i \in N PROVE mu[{i}] = Bpa(rs[i])
    <2>1. {} \in SUBSET N /\ i \in N \ {} /\ {} \cup {i} = {i} /\ mu[{}] = Vacuous
        BY <1>3 DEF Melds
    <2>2. mu[{i}] = Meet(Vacuous, Bpa(rs[i]))
        BY <1>5, <2>1
    <2> QED
        BY <1>1, <2>2, MeetVacuous
<1>7. \A T \in SUBSET N : T # {} => (PrefersEvil(mu[T]) <=> PrefersEvil(Bpa(rs[1])))
    <2> DEFINE Q == {T \in SUBSET N : T # {} => (PrefersEvil(mu[T]) <=> PrefersEvil(Bpa(rs[1])))}
    <2>1. {} \in Q
        OBVIOUS
    <2>2. ASSUME NEW T \in SUBSET N, NEW i \in N \ T, T \in Q PROVE T \cup {i} \in Q
        <3>1. PrefersEvil(Bpa(rs[i])) <=> PrefersEvil(Bpa(rs[1]))
            BY <1>1
        <3>2. CASE T = {}
            <4>1. T \cup {i} = {i}
                BY <3>2
            <4> QED
                BY <1>6, <3>1, <4>1
        <3>3. CASE T # {}
            <4>1. PrefersEvil(mu[T]) <=> PrefersEvil(Bpa(rs[i]))
                BY <2>2, <3>1, <3>3
            <4>2. /\ mu[T].evil \in Nat /\ mu[T].benign \in Nat /\ mu[T].theta \in Nat
                  /\ Bpa(rs[i]).evil \in Nat /\ Bpa(rs[i]).benign \in Nat
                  /\ Bpa(rs[i]).theta \in Nat
                BY <1>1, <1>4, AdditiveIs
            <4>3. PrefersEvil(Meet(mu[T], Bpa(rs[i]))) <=> PrefersEvil(Bpa(rs[i]))
                <5> DEFINE x == mu[T]
                           y == Bpa(rs[i])
                <5> HIDE DEF x, y
                <5>1. x.evil >= x.benign <=> y.evil >= y.benign
                    BY <4>1 DEF PrefersEvil, x, y
                <5>2. /\ x.evil \in Nat /\ x.benign \in Nat /\ x.theta \in Nat
                      /\ y.evil \in Nat /\ y.benign \in Nat /\ y.theta \in Nat
                    BY <4>2 DEF x, y
                <5>3. /\ Meet(x, y).evil = x.evil * y.evil + x.evil * y.theta + x.theta * y.evil
                      /\ Meet(x, y).benign =
                             x.benign * y.benign + x.benign * y.theta + x.theta * y.benign
                    BY DEF Meet
                <5>4. x.evil * y.evil + x.evil * y.theta + x.theta * y.evil
                          >= x.benign * y.benign + x.benign * y.theta + x.theta * y.benign
                      <=> y.evil >= y.benign
                    BY <5>1, <5>2, MeetAlike
                <5>5. PrefersEvil(Meet(x, y)) <=> PrefersEvil(y)
                    BY <5>3, <5>4, Zenon DEF PrefersEvil
                <5> QED
                    BY <5>5 DEF x, y
            <4> QED
                BY <1>5, <3>1, <4>3
        <3> QED
            BY <3>2, <3>3
    <2>3. \A T \in SUBSET N : T \in Q
        <3> HIDE DEF Q, N
        <3> QED
            BY <1>1, <2>1, <2>2, SetUpwards
    <2> QED
        BY <2>3
<1>8. ASSUME NEW T \in SUBSET N, NEW i \in N \ T, T # {}
      PROVE  mu[T \cup {i}] = Joined(mu[T], Bpa(rs[i]))
    <2>1. PrefersEvil(mu[T]) <=> PrefersEvil(Bpa(rs[i]))
        BY <1>1, <1>7, <1>8
    <2>2. ~KWouldExceed(mu[T], Bpa(rs[i]))
        BY <2>1 DEF KWouldExceed, PrefersEvil
    <2> QED
        BY <1>5, <2>2 DEF Joined
<1>9. ASSUME NEW i \in N, NEW j \in N, NEW T \in SUBSET (N \ {i, j}), Bpa(rs[i]) = Bpa(rs[j])
      PROVE  mu[T \cup {i}] = mu[T \cup {j}]
    <2>1. T \in SUBSET N /\ i \in N \ T /\ j \in N \ T
        OBVIOUS
    <2>2. mu[T \cup {i}] = Meet(mu[T], Bpa(rs[i])) /\ mu[T \cup {j}] = Meet(mu[T], Bpa(rs[j]))
        BY <1>5, <2>1
    <2> QED
        BY <1>9, <2>2
<1> QED
    BY <1>6, <1>8, <1>9 DEF Coalesces

LEMMA JoinedEither ==
    ASSUME NEW x \in Additive, NEW y \in Additive
    PROVE  Joined(x, y) = Joined(y, x)
<1>1. /\ x.evil \in Nat /\ x.benign \in Nat /\ x.theta \in Nat /\ x.of \in Nat
      /\ y.evil \in Nat /\ y.benign \in Nat /\ y.theta \in Nat /\ y.of \in Nat
    BY AdditiveIs DEF Masses
<1>2. \A a, b, c, d \in Nat : a * b = b * a /\ a * b + c * d = d * c + b * a
    OBVIOUS
<1>3. Conflict(x, y) = Conflict(y, x) /\ x.of * y.of = y.of * x.of
    BY <1>1, <1>2 DEF Conflict
<1>4. KWouldExceed(x, y) <=> KWouldExceed(y, x)
    BY <1>3 DEF KWouldExceed
<1>5. Meet(x, y) = Meet(y, x)
    <2>1. \A e, t, E, T \in Nat : e * E + e * T + t * E = E * e + E * t + T * e
        OBVIOUS
    <2> QED
        BY <1>1, <1>2, <1>3, <2>1 DEF Meet
<1>6. Yager(x, y) = Yager(y, x)
    BY <1>3, <1>5, Zenon DEF Yager
<1> QED
    BY <1>4, <1>5, <1>6, Zenon DEF Joined

LEMMA PairCoalesces ==
    ASSUME NEW rs, Reporting(rs), Len(rs) = 2
    PROVE  \E mu : Coalesces(mu, rs)
<1> DEFINE x == Bpa(rs[1])
           y == Bpa(rs[2])
           mu == [T \in SUBSET {1, 2} |->
                     IF T = {1} THEN x ELSE IF T = {2} THEN y ELSE Joined(x, y)]
<1>1. 1 .. Len(rs) = {1, 2}
    OBVIOUS
<1>2. x \in Additive /\ y \in Additive
    BY <1>1, BpasAdditive
<1>3. /\ {1} # {2} /\ {1, 2} # {1} /\ {1, 2} # {2}
      /\ {1} \in SUBSET {1, 2} /\ {2} \in SUBSET {1, 2} /\ {1, 2} \in SUBSET {1, 2}
    <2>1. 1 # 2
        OBVIOUS
    <2> QED
        BY <2>1, Zenon
<1>4. mu[{1}] = x /\ mu[{2}] = y /\ mu[{1, 2}] = Joined(x, y)
    BY <1>3
<1> HIDE DEF mu
<1>5. \A T \in SUBSET {1, 2} : \A i \in {1, 2} \ T :
          T # {} => (T = {1} /\ i = 2) \/ (T = {2} /\ i = 1)
    OBVIOUS
<1>6. ASSUME NEW T \in SUBSET {1, 2}, NEW i \in {1, 2} \ T, T # {}
      PROVE  mu[T \cup {i}] = Joined(mu[T], Bpa(rs[i]))
    <2>1. CASE T = {1} /\ i = 2
        <3>1. T \cup {i} = {1, 2}
            BY <2>1
        <3> QED
            BY <1>4, <2>1, <3>1
    <2>2. CASE T = {2} /\ i = 1
        <3>1. T \cup {i} = {1, 2}
            BY <2>2
        <3> QED
            BY <1>2, <1>4, <2>2, <3>1, JoinedEither
    <2> QED
        BY <1>5, <1>6, <2>1, <2>2
<1>7. ASSUME NEW i \in {1, 2}, NEW j \in {1, 2}, NEW T \in SUBSET ({1, 2} \ {i, j}),
             Bpa(rs[i]) = Bpa(rs[j])
      PROVE  mu[T \cup {i}] = mu[T \cup {j}]
    <2>1. CASE i # j
        <3>1. T \cup {i} = {i} /\ T \cup {j} = {j}
            BY <2>1
        <3>2. mu[{i}] = Bpa(rs[i]) /\ mu[{j}] = Bpa(rs[j])
            BY <1>4
        <3> QED
            BY <1>7, <3>1, <3>2
    <2> QED
        BY <2>1
<1>8. \A i \in {1, 2} : mu[{i}] = Bpa(rs[i])
    BY <1>4
<1>9. Coalesces(mu, rs)
    <2> HIDE DEF x, y
    <2> DEFINE N == 1 .. Len(rs)
    <2>1. N = {1, 2}
        BY <1>1
    <2> HIDE DEF N
    <2>2. \A i \in N : mu[{i}] = Bpa(rs[i])
        BY <1>8, <2>1
    <2>3. \A T \in SUBSET N : \A i \in N \ T :
              T # {} => mu[T \cup {i}] = Joined(mu[T], Bpa(rs[i]))
        BY <1>6, <2>1
    <2>4. \A i, j \in N : \A T \in SUBSET (N \ {i, j}) :
              Bpa(rs[i]) = Bpa(rs[j]) => mu[T \cup {i}] = mu[T \cup {j}]
        BY <1>7, <2>1
    <2> QED
        BY <2>2, <2>3, <2>4 DEF Coalesces, N
<1> QED
    BY <1>9

-----------------------------------------------------------------------------
(* The belief of a fold.                                                   *)

Belief(all, ignorances) ==
    LET floor == 5 + Max(ignorances)
    IN  IF all.evil = 0 THEN Zero
        ELSE IF AtMost(floor, 250, all.theta, all.of)
        THEN Lowest([n |-> all.evil, of |-> all.of]) @@ [floor |-> 0]
        ELSE Lowest([n |-> all.evil, of |-> all.evil + all.benign]) @@ [floor |-> floor]

(* g is the fold of the k reports of s.                                    *)
FoldOf(g, s, k, ignorances) ==
    /\ ignorances = {s[i].ignorance : i \in 1 .. k}
    /\ k \in Nat \ {0} /\ s # <<>> /\ Len(s) = k /\ DOMAIN s = 1 .. k
    /\ g[1] = Bpa(s[1]) /\ \A i \in 2 .. k : g[i] = Joined(g[i - 1], Bpa(s[i]))

LEMMA FusedIs ==
    ASSUME NEW k, NEW s, NEW g, NEW ignorances, FoldOf(g, s, k, ignorances)
    PROVE  FusedBelief(s) = Belief(g[k], ignorances)
<1> DEFINE P(f) == f = [i \in DOMAIN s |->
                           IF i = 1 THEN Bpa(s[1])
                           ELSE IF KWouldExceed(f[i - 1], Bpa(s[i]))
                                THEN Yager(f[i - 1], Bpa(s[i])) ELSE Meet(f[i - 1], Bpa(s[i]))]
           w == CHOOSE f : P(f)
           t == [i \in 1 .. k |-> g[i]]
<1>0. /\ ignorances = {s[i].ignorance : i \in 1 .. k}
      /\ k \in Nat \ {0} /\ s # <<>> /\ Len(s) = k /\ DOMAIN s = 1 .. k
      /\ g[1] = Bpa(s[1]) /\ \A i \in 2 .. k : g[i] = Joined(g[i - 1], Bpa(s[i]))
    BY DEF FoldOf
<1>1. P(t)
    <2>1. ASSUME NEW i \in 1 .. k
          PROVE  t[i] = IF i = 1 THEN Bpa(s[1])
                        ELSE IF KWouldExceed(t[i - 1], Bpa(s[i]))
                             THEN Yager(t[i - 1], Bpa(s[i])) ELSE Meet(t[i - 1], Bpa(s[i]))
        <3>1. CASE i = 1
            BY <1>0, <3>1
        <3>2. CASE i # 1
            <4>1. i \in 2 .. k /\ i - 1 \in 1 .. k
                BY <1>0, <3>2
            <4> QED
                BY <1>0, <3>2, <4>1 DEF Joined
        <3> QED
            BY <3>1, <3>2
    <2> HIDE DEF t
    <2>2. t = [i \in 1 .. k |-> t[i]]
        BY DEF t
    <2> QED
        BY <1>0, <2>1, <2>2
<1>2. P(w)
    <2> HIDE DEF P
    <2> QED
        BY <1>1
<1>3. FusedBelief(s) = Belief(w[Len(s)], {s[i].ignorance : i \in DOMAIN s})
    <2>1. FusedBelief(s) =
              IF s = <<>> \/ w[Len(s)].evil = 0 THEN Zero
              ELSE IF AtMost(5 + Max({s[i].ignorance : i \in DOMAIN s}), 250,
                             w[Len(s)].theta, w[Len(s)].of)
              THEN Lowest([n |-> w[Len(s)].evil, of |-> w[Len(s)].of]) @@ [floor |-> 0]
              ELSE Lowest([n |-> w[Len(s)].evil, of |-> w[Len(s)].evil + w[Len(s)].benign])
                       @@ [floor |-> 5 + Max({s[i].ignorance : i \in DOMAIN s})]
        BY Zenon DEF FusedBelief
    <2> HIDE DEF w
    <2> QED
        BY <1>0, <2>1, Zenon DEF Belief
<1> HIDE DEF w
<1>4. /\ w[1] = Bpa(s[1])
      /\ \A i \in 2 .. k : w[i] = Joined(w[i - 1], Bpa(s[i]))
    <2>1. \A i \in 1 .. k :
              w[i] = IF i = 1 THEN Bpa(s[1])
                     ELSE IF KWouldExceed(w[i - 1], Bpa(s[i]))
                          THEN Yager(w[i - 1], Bpa(s[i])) ELSE Meet(w[i - 1], Bpa(s[i]))
        BY <1>0, <1>2
    <2>2. \A i \in 1 .. k : w[i] = IF i = 1 THEN Bpa(s[1]) ELSE Joined(w[i - 1], Bpa(s[i]))
        BY <2>1, Zenon DEF Joined
    <2>3. 1 \in 1 .. k /\ \A i \in 2 .. k : i \in 1 .. k /\ i # 1
        BY <1>0
    <2> QED
        BY <2>2, <2>3
<1>5. w[k] = g[k]
    <2> DEFINE S == {i \in 0 .. k : i = 0 \/ w[i] = g[i]}
    <2>1. 0 \in S
        BY <1>0
    <2>2. ASSUME NEW i \in 1 .. k, i - 1 \in S PROVE i \in S
        <3>1. CASE i = 1
            BY <1>0, <1>4, <3>1
        <3>2. CASE i # 1
            <4>1. i \in 2 .. k /\ i - 1 # 0
                BY <1>0, <3>2
            <4> QED
                BY <1>0, <1>4, <2>2, <4>1
        <3> QED
            BY <3>1, <3>2
    <2>3. \A i \in 0 .. k : i \in S
        <3> HIDE DEF S
        <3> QED
            BY <1>0, <2>1, <2>2, Upwards
    <2> QED
        BY <1>0, <2>3
<1> QED
    BY <1>0, <1>3, <1>5

(* The belief of a set of reports.                                         *)
Value(mu, rs, T) == IF T = {} THEN Zero ELSE Belief(mu[T], {rs[i].ignorance : i \in T})

Picks(q, k, n) ==
    /\ \A l \in 1 .. k : q[l] \in 1 .. n
    /\ \A a, b \in 1 .. k : q[a] = q[b] => a = b

LEMMA FusedVia ==
    ASSUME NEW rs, Reporting(rs), NEW mu, Coalesces(mu, rs),
           NEW s \in Seq(AgentReport), NEW q, Picks(q, Len(s), Len(rs)),
           \A l \in 1 .. Len(s) : s[l] = rs[q[l]]
    PROVE  FusedBelief(s) = Value(mu, rs, {q[l] : l \in 1 .. Len(s)})
<1> DEFINE N == 1 .. Len(rs)
           k == Len(s)
           Img(j) == {q[l] : l \in 1 .. j}
           g == [j \in 1 .. k |-> mu[Img(j)]]
<1>1. k \in Nat /\ DOMAIN s = 1 .. k /\ (k = 0 <=> s = <<>>)
    BY LenProperties, EmptySeq
<1>2. CASE k = 0
    <2>1. s = <<>> /\ Img(k) = {}
        BY <1>1, <1>2
    <2>2. FusedBelief(s) = Zero
        BY <2>1, Zenon DEF FusedBelief
    <2> QED
        BY <2>1, <2>2 DEF Value
<1>3. CASE k # 0
    <2>1. k \in Nat \ {0} /\ s # <<>>
        BY <1>1, <1>3
    <2>2. \A l \in 1 .. k : q[l] \in N /\ \A a, b \in 1 .. k : q[a] = q[b] => a = b
        BY DEF Picks
    <2> HIDE DEF k, N
    <2>3. g[1] = Bpa(s[1])
        <3>1. 1 \in 1 .. k /\ 1 .. 1 = {1}
            BY <2>1
        <3>2. Img(1) = {q[1]}
            BY <3>1
        <3>3. g[1] = mu[{q[1]}] /\ q[1] \in N /\ s[1] = rs[q[1]]
            BY <2>2, <3>1, <3>2 DEF k
        <3> HIDE DEF g
        <3> QED
            BY <3>3 DEF Coalesces, N
    <2>4. ASSUME NEW j \in 2 .. k PROVE g[j] = Joined(g[j - 1], Bpa(s[j]))
        <3> DEFINE i == q[j]
                   T == Img(j - 1)
        <3>1. /\ j \in 1 .. k /\ j - 1 \in 1 .. k
              /\ \A l \in 1 .. j - 1 : l \in 1 .. k /\ l # j /\ l \in 1 .. j
              /\ \A l \in 1 .. j : l = j \/ l \in 1 .. j - 1
              /\ j \in 1 .. j /\ 1 \in 1 .. j - 1
            BY <2>1
        <3>2. i \in N /\ T \in SUBSET N /\ T # {} /\ i \notin T /\ Img(j) = T \cup {i}
            BY <2>2, <3>1
        <3>3. g[j] = mu[T \cup {i}] /\ g[j - 1] = mu[T] /\ s[j] = rs[i]
            BY <3>1, <3>2 DEF k
        <3> HIDE DEF g, i, T
        <3>4. mu[T \cup {i}] = Joined(mu[T], Bpa(rs[i]))
            BY <3>2 DEF Coalesces, N
        <3> QED
            BY <3>3, <3>4
    <2>5. g[k] = mu[Img(k)]
        BY <2>1
    <2> HIDE DEF g
    <2> DEFINE ignorances == {s[i].ignorance : i \in 1 .. k}
    <2>0. ignorances = {s[i].ignorance : i \in 1 .. k}
        OBVIOUS
    <2> HIDE DEF ignorances
    <2>6. FusedBelief(s) = Belief(g[k], ignorances)
        <3>1. Len(s) = k
            BY DEF k
        <3>2. FoldOf(g, s, k, ignorances)
            BY <1>1, <2>0, <2>1, <2>3, <2>4, <3>1 DEF FoldOf
        <3> QED
            BY <3>2, FusedIs
    <2>7. ignorances = {rs[i].ignorance : i \in Img(k)}
        BY <2>0 DEF k
    <2>8. Img(k) # {}
        <3>1. 1 \in 1 .. k
            BY <2>1
        <3>2. q[1] \in Img(k)
            BY <3>1
        <3> QED
            BY <3>2
    <2> HIDE DEF Img
    <2>9. FusedBelief(s) = Value(mu, rs, Img(k))
        BY <2>5, <2>6, <2>7, <2>8 DEF Value
    <2> QED
        BY <2>9 DEF Img, k
<1> QED
    BY <1>2, <1>3

(* An agent after a coalition, in the order of their numbers.              *)
LEMMA KeptFused ==
    ASSUME NEW rs, Reporting(rs), NEW mu, Coalesces(mu, rs),
           NEW i \in 1 .. Len(rs), NEW T \in SUBSET ((1 .. Len(rs)) \ {i})
    PROVE  /\ FusedBelief(Kept(rs, T)) = Value(mu, rs, T)
           /\ FusedBelief(Append(Kept(rs, T), rs[i])) = Value(mu, rs, T \cup {i})
<1> DEFINE N == 1 .. Len(rs)
           t == Kept(rs, T)
           s == Append(t, rs[i])
<1>1. Len(rs) \in Nat /\ \A j \in N : rs[j] \in AgentReport
    BY BpasAdditive
<1>2. PICK k \in Nat : ItemsAt(t, rs, T, k)
    BY <1>1, KeptIs
<1>3. t \in Seq(AgentReport)
    BY <1>1, KeptItems
<1> HIDE DEF t
<1>4. PICK q \in Bijection(1 .. k, T) : \A l \in 1 .. k : t[l] = rs[q[l]]
    BY <1>2 DEF ItemsAt
<1>5. Len(t) = k
    BY <1>2 DEF ItemsAt
<1>6. /\ \A l \in 1 .. k : q[l] \in T
      /\ \A a, b \in 1 .. k : q[a] = q[b] => a = b
      /\ \A j \in T : \E l \in 1 .. k : q[l] = j
    BY OrderIs
<1>7. FusedBelief(t) = Value(mu, rs, T)
    <2>1. Picks(q, k, Len(rs))
        BY <1>6 DEF Picks
    <2>2. {q[l] : l \in 1 .. k} = T
        <3> DEFINE R == {q[l] : l \in 1 .. k}
        <3>1. R \subseteq T
            BY <1>6
        <3>2. T \subseteq R
            BY <1>6
        <3> HIDE DEF R
        <3>3. R = T
            BY <3>1, <3>2
        <3> QED
            BY <3>3 DEF R
    <2> QED
        BY <1>3, <1>4, <1>5, <2>1, <2>2, FusedVia
<1>8. FusedBelief(s) = Value(mu, rs, T \cup {i})
    <2> DEFINE r == Then(k, q, i)
    <2>1. /\ s \in Seq(AgentReport) /\ Len(s) = k + 1
          /\ \A l \in 1 .. k : s[l] = t[l]
          /\ s[k + 1] = rs[i]
        BY <1>1, <1>3, <1>5, AppendProperties
    <2>2. /\ \A l \in 1 .. k : r[l] = q[l] /\ l # k + 1 /\ l \in 1 .. k + 1
          /\ r[k + 1] = i /\ k + 1 \in 1 .. k + 1
          /\ \A l \in 1 .. k + 1 : l = k + 1 \/ l \in 1 .. k
        BY DEF Then
    <2> HIDE DEF r, s
    <2>3. Picks(r, k + 1, Len(rs))
        BY <1>6, <2>2 DEF Picks
    <2>4. {r[l] : l \in 1 .. k + 1} = T \cup {i}
        <3> DEFINE R == {r[l] : l \in 1 .. k + 1}
        <3>1. R \subseteq T \cup {i}
            BY <1>6, <2>2
        <3>2. T \subseteq R
            BY <1>6, <2>2
        <3>3. i \in R
            BY <2>2
        <3> HIDE DEF R
        <3>4. R = T \cup {i}
            BY <3>1, <3>2, <3>3
        <3> QED
            BY <3>4 DEF R
    <2>5. \A l \in 1 .. k + 1 : s[l] = rs[r[l]]
        BY <1>4, <2>1, <2>2
    <2>6. Picks(r, Len(s), Len(rs)) /\ \A l \in 1 .. Len(s) : s[l] = rs[r[l]]
        BY <2>1, <2>3, <2>5
    <2>7. FusedBelief(s) = Value(mu, rs, {r[l] : l \in 1 .. Len(s)})
        BY <2>1, <2>6, FusedVia
    <2> QED
        BY <2>1, <2>4, <2>7, Zenon
<1> QED
    BY <1>7, <1>8 DEF t

(* Agents that say the same are worth the same.                            *)
LEMMA ValueAlike ==
    ASSUME NEW rs, Reporting(rs), NEW mu, Coalesces(mu, rs),
           NEW i \in 1 .. Len(rs), NEW j \in 1 .. Len(rs), Bpa(rs[i]) = Bpa(rs[j]),
           NEW T \in SUBSET (1 .. Len(rs)), i \notin T, j \notin T
    PROVE  Value(mu, rs, T \cup {i}) = Value(mu, rs, T \cup {j})
<1>1. mu[T \cup {i}] = mu[T \cup {j}]
    BY DEF Coalesces
<1>2. rs[i].ignorance = rs[j].ignorance
    <2>1. rs[i] \in AgentReport /\ rs[j] \in AgentReport
        BY BpasAdditive
    <2> DEFINE a == rs[i].of
               b == rs[j].of
               x == 5 + rs[i].ignorance
               y == 5 + rs[j].ignorance
    <2>2. /\ a \in Nat \ {0} /\ b \in Nat \ {0} /\ x \in Nat /\ y \in Nat
          /\ rs[i].ignorance \in Nat /\ rs[j].ignorance \in Nat
        <3>1. \A r \in AgentReport : r.of \in Nat \ {0} /\ r.ignorance \in 0 .. 20
            BY DEF AgentReport
        <3>2. /\ rs[i].of \in Nat \ {0} /\ rs[i].ignorance \in 0 .. 20
              /\ rs[j].of \in Nat \ {0} /\ rs[j].ignorance \in 0 .. 20
            BY <2>1, <3>1
        <3>3. \A g \in 0 .. 20 : g \in Nat /\ 5 + g \in Nat
            OBVIOUS
        <3>4. Nat \ {0} \subseteq Nat
            OBVIOUS
        <3> QED
            BY <3>2, <3>3, <3>4, Zenon
    <2>3. 25 * a = 25 * b /\ x * a = y * b
        BY DEF Bpa
    <2> HIDE DEF a, b, x, y
    <2>4. a = b
        BY <2>2, <2>3
    <2>5. ~(x * a < y * a) /\ ~(y * a < x * a)
        <3>1. x * a \in Nat
            BY <2>2
        <3> QED
            BY <2>3, <2>4, <3>1
    <2>6. \A c, d \in Nat : c < d => c * a < d * a
        <3> SUFFICES ASSUME NEW c \in Nat, NEW d \in Nat, c < d PROVE c * a < d * a
            OBVIOUS
        <3>1. PICK e \in Nat \ {0} : d = c + e
            BY d - c \in Nat \ {0}
        <3>2. d * a = c * a + e * a /\ e * a \in Nat \ {0} /\ c * a \in Nat
            BY <2>2, <3>1
        <3> QED
            BY <3>2
    <2>7. x = y
        BY <2>2, <2>5, <2>6
    <2> QED
        BY <2>2, <2>7 DEF x, y
<1>3. {rs[l].ignorance : l \in T \cup {i}} = {rs[l].ignorance : l \in T \cup {j}}
    BY <1>2
<1> QED
    BY <1>1, <1>3 DEF Value

-----------------------------------------------------------------------------
(* The gains, by what is before and after them.                            *)

(* What i adds to the others in T.                                         *)
Gain(mu, rs, i, T) ==
    [agent |-> i, coalition |-> T, weight |-> Weight(Cardinality(T), Len(rs)),
     after |-> Value(mu, rs, T \cup {i}), before |-> Value(mu, rs, T)]

LEMMA GainsAre ==
    ASSUME NEW rs, Reporting(rs), NEW mu, Coalesces(mu, rs)
    PROVE  \A g : g \in Gains(rs) <=>
               \E i \in 1 .. Len(rs) : \E T \in SUBSET ((1 .. Len(rs)) \ {i}) :
                   g = Gain(mu, rs, i, T)
<1> DEFINE N == 1 .. Len(rs)
           G(i, T) ==
               [agent |-> i, coalition |-> T, weight |-> Weight(Cardinality(T), Len(rs)),
                after |-> FusedBelief(Append(Kept(rs, T), rs[i])),
                before |-> FusedBelief(Kept(rs, T))]
           Of(i) == {G(i, T) : T \in SUBSET (N \ {i})}
<1>1. Gains(rs) = UNION {Of(i) : i \in N}
    BY Zenon DEF Gains
<1>2. ASSUME NEW i \in N, NEW T \in SUBSET (N \ {i})
      PROVE  G(i, T) = Gain(mu, rs, i, T)
    <2>1. /\ FusedBelief(Kept(rs, T)) = Value(mu, rs, T)
          /\ FusedBelief(Append(Kept(rs, T), rs[i])) = Value(mu, rs, T \cup {i})
        BY KeptFused
    <2> QED
        BY <2>1, Zenon DEF Gain
<1> HIDE DEF G
<1>3. \A g : (\E i \in N : g \in Of(i)) <=>
               \E i \in N : \E T \in SUBSET (N \ {i}) : g = Gain(mu, rs, i, T)
    BY <1>2
<1> HIDE DEF Of
<1>4. \A g : g \in Gains(rs) <=> \E i \in N : g \in Of(i)
    BY <1>1
<1> QED
    BY <1>3, <1>4, Zenon

LEMMA Agents ==
    ASSUME NEW rs, Reporting(rs)
    PROVE  /\ Len(rs) \in Nat /\ IsFiniteSet(1 .. Len(rs))
           /\ Cardinality(1 .. Len(rs)) = Len(rs)
<1>1. Len(rs) \in Nat \ {0}
    BY BpasAdditive
<1> QED
    BY <1>1, FS_Interval

LEMMA Coalition ==
    ASSUME NEW n \in Nat, NEW i \in 1 .. n, NEW T \in SUBSET ((1 .. n) \ {i})
    PROVE  IsFiniteSet(T) /\ Cardinality(T) \in 0 .. n - 1
<1> DEFINE N == 1 .. n
           V == N \ {i}
<1>1. IsFiniteSet(N) /\ Cardinality(N) = n
    BY FS_Interval
<1>2. IsFiniteSet(V) /\ Cardinality(V) = n - 1
    BY <1>1, FS_RemoveElement
<1>3. T \in SUBSET V
    OBVIOUS
<1> HIDE DEF V
<1>4. IsFiniteSet(T) /\ Cardinality(T) <= Cardinality(V)
    BY <1>2, <1>3, FS_Subset
<1> QED
    BY <1>2, <1>4, FS_CardinalityType

GainFacts(g, mu, rs, i, T) ==
    /\ g.agent = i /\ g.coalition = T
    /\ g.after = Value(mu, rs, T \cup {i}) /\ g.before = Value(mu, rs, T)
    /\ g.weight \in Nat
    /\ g.weight = factorial[Cardinality(T)] * factorial[Len(rs) - 1 - Cardinality(T)]
    /\ Weighted({g}) /\ Weigh({g}) = g.weight

LEMMA GainIs ==
    ASSUME NEW rs, Reporting(rs), NEW mu,
           NEW i \in 1 .. Len(rs), NEW T \in SUBSET ((1 .. Len(rs)) \ {i})
    PROVE  GainFacts(Gain(mu, rs, i, T), mu, rs, i, T)
<1> DEFINE g == Gain(mu, rs, i, T)
           k == Cardinality(T)
<1>1. /\ g.agent = i /\ g.coalition = T
      /\ g.after = Value(mu, rs, T \cup {i}) /\ g.before = Value(mu, rs, T)
      /\ g.weight = factorial[k] * factorial[Len(rs) - 1 - k]
    BY DEF Gain, Weight
<1>2. k \in Nat /\ Len(rs) - 1 - k \in Nat
    <2>1. Len(rs) \in Nat
        BY Agents
    <2>2. k \in 0 .. Len(rs) - 1
        BY <2>1, Coalition
    <2> HIDE DEF k
    <2> QED
        BY <2>1, <2>2
<1> HIDE DEF g, k
<1>3. factorial[k] \in Nat /\ factorial[Len(rs) - 1 - k] \in Nat
    BY <1>2, FactorialIs
<1>4. g.weight \in Nat
    BY <1>1, <1>3
<1>5. Weighted({g}) /\ Weigh({g}) = g.weight
    BY <1>4, WeighOne
<1>6. GainFacts(g, mu, rs, i, T)
    BY <1>1, <1>4, <1>5, Zenon DEF GainFacts, k
<1> QED
    BY <1>6 DEF g

(* What makes up the set T, and what others add to it, balance.            *)
Joining(mu, rs, T) == {Gain(mu, rs, i, T \ {i}) : i \in T}

Offered(mu, rs, T) == {Gain(mu, rs, i, T) : i \in (1 .. Len(rs)) \ T}

LEMMA JoiningWeighs ==
    ASSUME NEW rs, Reporting(rs), NEW mu, NEW T \in SUBSET (1 .. Len(rs)), T # {}
    PROVE  /\ Weighted(Joining(mu, rs, T))
           /\ Weigh(Joining(mu, rs, T)) =
                  factorial[Cardinality(T)] * factorial[Len(rs) - Cardinality(T)]
<1> DEFINE N == 1 .. Len(rs)
           n == Len(rs)
           k == Cardinality(T)
           f == [i \in T |-> {Gain(mu, rs, i, T \ {i})}]
           c == factorial[k - 1] * factorial[n - k]
<1>1. n \in Nat /\ IsFiniteSet(T) /\ k \in 1 .. n
    <2>1. n \in Nat
        BY BpasAdditive
    <2>2. IsFiniteSet(N) /\ Cardinality(N) = n
        BY Agents
    <2>3. IsFiniteSet(T) /\ k <= n
        BY <2>2, FS_Subset
    <2> QED
        BY <2>1, <2>3, FS_CardinalityType, FS_EmptySet
<1>2. ASSUME NEW i \in T PROVE Weighted(f[i]) /\ Weigh(f[i]) = c
    <2>1. i \in N /\ T \ {i} \in SUBSET (N \ {i})
        OBVIOUS
    <2>2. Cardinality(T \ {i}) = k - 1
        BY <1>1, FS_RemoveElement
    <2>3. n - 1 - (k - 1) = n - k
        BY <1>1
    <2> DEFINE g == Gain(mu, rs, i, T \ {i})
    <2>5. f[i] = {g} /\ g = Gain(mu, rs, i, T \ {i})
        OBVIOUS
    <2> HIDE DEF g, f
    <2>4. GainFacts(g, mu, rs, i, T \ {i})
        BY <2>1, GainIs DEF g
    <2>6. /\ Weighted({g}) /\ Weigh({g}) = g.weight
          /\ g.weight = factorial[Cardinality(T \ {i})] * factorial[n - 1 - Cardinality(T \ {i})]
        BY <2>4, Zenon DEF GainFacts
    <2> HIDE DEF k, n
    <2> QED
        BY <2>2, <2>3, <2>5, <2>6
<1>3. Apart(f, T)
    <2>1. ASSUME NEW i \in T, NEW j \in T, i # j PROVE f[i] \cap f[j] = {}
        <3>1. f[i] = {Gain(mu, rs, i, T \ {i})} /\ f[j] = {Gain(mu, rs, j, T \ {j})}
            OBVIOUS
        <3>2. Gain(mu, rs, i, T \ {i}) # Gain(mu, rs, j, T \ {j})
            <4>1. Gain(mu, rs, i, T \ {i}).agent = i /\ Gain(mu, rs, j, T \ {j}).agent = j
                BY DEF Gain
            <4> QED
                BY <2>1, <4>1
        <3> QED
            BY <3>1, <3>2
    <2> QED
        BY <1>2, <2>1 DEF Apart
<1>4. All(f, T) = Joining(mu, rs, T)
    <2>1. All(f, T) \subseteq Joining(mu, rs, T)
        BY DEF All, Joining
    <2>2. ASSUME NEW g \in Joining(mu, rs, T) PROVE g \in All(f, T)
        <3>1. PICK i \in T : g = Gain(mu, rs, i, T \ {i})
            BY DEF Joining
        <3>2. g \in f[i]
            BY <3>1
        <3> HIDE DEF f
        <3> QED
            BY <3>2 DEF All
    <2> QED
        BY <2>1, <2>2
<1> HIDE DEF f
<1>5. k \in Nat \ {0} /\ k - 1 \in Nat /\ n - k \in Nat
    BY <1>1
<1>6. /\ factorial[k - 1] \in Nat /\ factorial[n - k] \in Nat
      /\ factorial[k] = k * factorial[k - 1]
    <2> HIDE DEF k, n
    <2> QED
        BY <1>5, FactorialIs
<1>7. c \in Nat /\ k * c = factorial[k] * factorial[n - k]
    <2> DEFINE a == factorial[k - 1]
               b == factorial[n - k]
    <2> HIDE DEF a, b, k
    <2>1. a \in Nat /\ b \in Nat /\ factorial[k] = k * a /\ c = a * b
        BY <1>6 DEF a, b
    <2>2. a * b \in Nat /\ k * (a * b) = (k * a) * b
        BY <1>5, <2>1
    <2> QED
        BY <2>1, <2>2 DEF b
<1> HIDE DEF c
<1>8. Weighted(All(f, T)) /\ Weigh(All(f, T)) = Cardinality(T) * c
    BY <1>1, <1>2, <1>3, <1>7, WeighEach
<1> QED
    BY <1>4, <1>7, <1>8

LEMMA OfferedWeighs ==
    ASSUME NEW rs, Reporting(rs), NEW mu, NEW T \in SUBSET (1 .. Len(rs)), T # 1 .. Len(rs)
    PROVE  /\ Weighted(Offered(mu, rs, T))
           /\ Weigh(Offered(mu, rs, T)) =
                  factorial[Cardinality(T)] * factorial[Len(rs) - Cardinality(T)]
<1> DEFINE N == 1 .. Len(rs)
           n == Len(rs)
           k == Cardinality(T)
           X == N \ T
           f == [i \in X |-> {Gain(mu, rs, i, T)}]
           c == factorial[k] * factorial[n - 1 - k]
<1>1. /\ n \in Nat /\ IsFiniteSet(T) /\ k \in 0 .. n - 1
      /\ IsFiniteSet(X) /\ Cardinality(X) = n - k
    <2>1. n \in Nat
        BY BpasAdditive
    <2>2. IsFiniteSet(N) /\ Cardinality(N) = n
        BY Agents
    <2>3. IsFiniteSet(T) /\ IsFiniteSet(X) /\ X \cup T = N /\ X \cap T = {} /\ X # {}
        BY <2>2, FS_Subset
    <2> HIDE DEF X, N
    <2>4. Cardinality(N) = Cardinality(X) + k - 0
        BY <2>3, FS_Union, FS_EmptySet
    <2>5. Cardinality(X) \in Nat \ {0} /\ k \in Nat
        BY <2>3, FS_CardinalityType, FS_EmptySet
    <2> HIDE DEF k, n
    <2> QED
        BY <2>1, <2>2, <2>3, <2>4, <2>5
<1>2. ASSUME NEW i \in X PROVE Weighted(f[i]) /\ Weigh(f[i]) = c
    <2>1. i \in N /\ T \in SUBSET (N \ {i})
        OBVIOUS
    <2> DEFINE g == Gain(mu, rs, i, T)
    <2>3. f[i] = {g} /\ g = Gain(mu, rs, i, T)
        OBVIOUS
    <2> HIDE DEF g, f
    <2>2. GainFacts(g, mu, rs, i, T)
        BY <2>1, GainIs DEF g
    <2>4. /\ Weighted({g}) /\ Weigh({g}) = g.weight
          /\ g.weight = factorial[k] * factorial[n - 1 - k]
        BY <2>2, Zenon DEF GainFacts
    <2> HIDE DEF k, n
    <2> QED
        BY <2>3, <2>4
<1>3. Apart(f, X)
    <2>1. ASSUME NEW i \in X, NEW j \in X, i # j PROVE f[i] \cap f[j] = {}
        <3>1. f[i] = {Gain(mu, rs, i, T)} /\ f[j] = {Gain(mu, rs, j, T)}
            OBVIOUS
        <3>2. Gain(mu, rs, i, T) # Gain(mu, rs, j, T)
            <4>1. Gain(mu, rs, i, T).agent = i /\ Gain(mu, rs, j, T).agent = j
                BY DEF Gain
            <4> QED
                BY <2>1, <4>1
        <3> QED
            BY <3>1, <3>2
    <2> QED
        BY <1>2, <2>1 DEF Apart
<1>4. All(f, X) = Offered(mu, rs, T)
    <2>1. All(f, X) \subseteq Offered(mu, rs, T)
        BY DEF All, Offered
    <2>2. ASSUME NEW g \in Offered(mu, rs, T) PROVE g \in All(f, X)
        <3>1. PICK i \in X : g = Gain(mu, rs, i, T)
            BY DEF Offered
        <3>2. g \in f[i]
            BY <3>1
        <3> HIDE DEF f
        <3> QED
            BY <3>2 DEF All
    <2> QED
        BY <2>1, <2>2
<1> HIDE DEF f
<1>5. k \in Nat /\ n - k \in Nat \ {0} /\ n - 1 - k \in Nat /\ (n - k) - 1 = n - 1 - k
    BY <1>1
<1>6. /\ factorial[k] \in Nat /\ factorial[n - 1 - k] \in Nat
      /\ factorial[n - k] = (n - k) * factorial[n - 1 - k]
    <2> DEFINE r == n - k
    <2> HIDE DEF r
    <2>1. r \in Nat \ {0} /\ r - 1 = n - 1 - k
        BY <1>5 DEF r
    <2>2. factorial[r] = r * factorial[r - 1]
        <3>1. \A p \in Nat \ {0} : factorial[p] = p * factorial[p - 1]
            BY FactorialIs
        <3> HIDE DEF k, n
        <3> QED
            BY <2>1, <3>1
    <2>3. factorial[k] \in Nat /\ factorial[n - 1 - k] \in Nat
        <3>1. \A p \in Nat : factorial[p] \in Nat
            BY FactorialIs
        <3> DEFINE d == n - 1 - k
        <3>2. k \in Nat /\ d \in Nat
            BY <1>5
        <3> HIDE DEF k, d
        <3>3. factorial[k] \in Nat /\ factorial[d] \in Nat
            BY <3>1, <3>2
        <3> QED
            BY <3>3 DEF d
    <2> QED
        BY <2>1, <2>2, <2>3 DEF r
<1>7. c \in Nat /\ (n - k) * c = factorial[k] * factorial[n - k]
    <2> DEFINE a == factorial[k]
               b == factorial[n - 1 - k]
               r == n - k
    <2> HIDE DEF a, b, k, r
    <2>1. a \in Nat /\ b \in Nat /\ r \in Nat /\ factorial[r] = r * b /\ c = a * b
        BY <1>5, <1>6 DEF a, b, r
    <2>2. a * b \in Nat /\ r * (a * b) = a * (r * b)
        BY <2>1
    <2> QED
        BY <2>1, <2>2 DEF a, r
<1> HIDE DEF c, X
<1>8. Weighted(All(f, X)) /\ Weigh(All(f, X)) = Cardinality(X) * c
    BY <1>1, <1>2, <1>3, <1>7, WeighEach
<1> QED
    BY <1>1, <1>4, <1>7, <1>8

(* A coefficient: what arrives at v less what leaves it.                   *)
LEMMA CoefficientIs ==
    ASSUME NEW gains, NEW v
    PROVE  Coefficient(gains, v) =
               Weigh({g \in gains : g.after = v}) - Weigh({g \in gains : g.before = v})
BY Zenon DEF Weigh, Coefficient

(* For a belief v every coalition but that of all is reached as much as    *)
(* it is left.                                                             *)
LEMMA SharesAddUp ==
    ASSUME NEW rs, Reporting(rs), NEW mu, Coalesces(mu, rs), NEW v, v # Zero
    PROVE  Coefficient(Gains(rs), v) =
               IF v = Value(mu, rs, 1 .. Len(rs)) THEN factorial[Len(rs)] ELSE 0
<1> DEFINE N == 1 .. Len(rs)
           n == Len(rs)
           V == {T \in SUBSET N : Value(mu, rs, T) = v}
           W == V \ {N}
           f == [T \in V |-> Joining(mu, rs, T)]
           o == [T \in V |-> Offered(mu, rs, T)]
           Gained == {g \in Gains(rs) : g.after = v}
           Lost == {g \in Gains(rs) : g.before = v}
<1>1. n \in Nat \ {0} /\ IsFiniteSet(N) /\ Cardinality(N) = n
    BY Agents, BpasAdditive
<1>2. IsFiniteSet(V) /\ IsFiniteSet(W) /\ \A T \in V : T # {}
    <2>1. IsFiniteSet(SUBSET N)
        BY <1>1, FS_SUBSET
    <2>2. Value(mu, rs, {}) = Zero
        BY DEF Value
    <2> QED
        BY <2>1, <2>2, FS_Subset
<1>3. \A T \in V : f[T] = Joining(mu, rs, T) /\ o[T] = Offered(mu, rs, T)
    OBVIOUS
<1>4. \A T \in W : T \in V /\ T \in SUBSET N /\ T # N /\ T # {}
    BY <1>2
<1>5. ASSUME NEW T \in V PROVE Weighted(f[T]) /\ Weighted(o[T])
    <2>1. Weighted(f[T])
        BY <1>2, <1>3, JoiningWeighs
    <2>2. CASE T = N
        <3>1. Offered(mu, rs, T) = {}
            BY <2>2 DEF Offered
        <3> QED
            BY <1>3, <2>1, <3>1, WeighEmpty
    <2>3. CASE T # N
        BY <1>3, <2>1, <2>3, OfferedWeighs
    <2> QED
        BY <2>2, <2>3
<1>6. ASSUME NEW T \in W PROVE Weigh(f[T]) = Weigh(o[T])
    BY <1>3, <1>4, JoiningWeighs, OfferedWeighs
<1>7. ASSUME NEW T \in V, NEW S \in V, NEW g
      PROVE  /\ g \in f[T] /\ g \in f[S] => T = S
             /\ g \in o[T] /\ g \in o[S] => T = S
    <2>1. \A i, R : Gain(mu, rs, i, R).agent = i /\ Gain(mu, rs, i, R).coalition = R
        BY DEF Gain
    <2>2. ASSUME NEW R \in SUBSET N, g \in Joining(mu, rs, R) PROVE R = g.coalition \cup {g.agent}
        <3>1. PICK i \in R : g = Gain(mu, rs, i, R \ {i})
            BY <2>2 DEF Joining
        <3>2. g.agent = i /\ g.coalition = R \ {i}
            BY <2>1, <3>1
        <3> QED
            BY <3>2
    <2>3. ASSUME NEW R \in SUBSET N, g \in Offered(mu, rs, R) PROVE R = g.coalition
        BY <2>1, <2>3 DEF Offered
    <2> QED
        BY <1>3, <2>2, <2>3
<1>8. Apart(f, V) /\ Apart(o, V)
    <2> HIDE DEF f, o, V
    <2> QED
        BY <1>5, <1>7 DEF Apart
<1>9. Gained = All(f, V)
    <2>1. ASSUME NEW g \in Gained PROVE g \in All(f, V)
        <3>1. PICK i \in N : \E T \in SUBSET (N \ {i}) : g = Gain(mu, rs, i, T)
            BY GainsAre
        <3>0. PICK T \in SUBSET (N \ {i}) : g = Gain(mu, rs, i, T)
            BY <3>1
        <3>2. g.after = Value(mu, rs, T \cup {i})
            BY <3>0 DEF Gain
        <3>3. T \cup {i} \in V /\ (T \cup {i}) \ {i} = T
            BY <3>2
        <3>4. g \in f[T \cup {i}]
            BY <1>3, <3>0, <3>3 DEF Joining
        <3> HIDE DEF f, V
        <3> QED
            BY <3>3, <3>4 DEF All
    <2>2. ASSUME NEW T \in V, NEW g \in f[T] PROVE g \in Gained
        <3>1. PICK i \in T : g = Gain(mu, rs, i, T \ {i})
            BY <1>3, <2>2 DEF Joining
        <3>2. i \in N /\ T \ {i} \in SUBSET (N \ {i}) /\ (T \ {i}) \cup {i} = T
            OBVIOUS
        <3>3. g \in Gains(rs)
            BY <3>1, <3>2, GainsAre
        <3>4. g.after = v
            BY <3>1, <3>2 DEF Gain
        <3> QED
            BY <3>3, <3>4
    <2> HIDE DEF Gained, f, V
    <2> QED
        BY <2>1, <2>2 DEF All
<1>10. Lost = All(o, V)
    <2>1. ASSUME NEW g \in Lost PROVE g \in All(o, V)
        <3>1. PICK i \in N : \E T \in SUBSET (N \ {i}) : g = Gain(mu, rs, i, T)
            BY GainsAre
        <3>0. PICK T \in SUBSET (N \ {i}) : g = Gain(mu, rs, i, T)
            BY <3>1
        <3>2. g.before = Value(mu, rs, T)
            BY <3>0 DEF Gain
        <3>3. T \in V /\ i \in N \ T
            BY <3>2
        <3>4. g \in o[T]
            BY <1>3, <3>0, <3>3 DEF Offered
        <3> HIDE DEF o, V
        <3> QED
            BY <3>3, <3>4 DEF All
    <2>2. ASSUME NEW T \in V, NEW g \in o[T] PROVE g \in Lost
        <3>1. PICK i \in N \ T : g = Gain(mu, rs, i, T)
            BY <1>3, <2>2 DEF Offered
        <3>2. i \in N /\ T \in SUBSET (N \ {i})
            OBVIOUS
        <3>3. g \in Gains(rs)
            BY <3>1, <3>2, GainsAre
        <3>4. g.before = v
            BY <3>1 DEF Gain
        <3> QED
            BY <3>3, <3>4
    <2> HIDE DEF Lost, o, V
    <2> QED
        BY <2>1, <2>2 DEF All
<1>11. Coefficient(Gains(rs), v) = Weigh(All(f, V)) - Weigh(All(o, V))
    BY <1>9, <1>10, CoefficientIs, Zenon
<1>12. W \in SUBSET V /\ (N \in V <=> v = Value(mu, rs, N))
    OBVIOUS
<1> HIDE DEF f, o
<1>13. /\ Weighted(All(f, W)) /\ Weighted(All(o, W))
       /\ Weigh(All(f, W)) = Weigh(All(o, W))
    <2>1. Apart(f, W) /\ Apart(o, W)
        BY <1>8, <1>12 DEF Apart
    <2> HIDE DEF W
    <2> QED
        BY <1>2, <1>6, <2>1, WeighLike
<1>14. CASE N \in V
    <2>1. V = W \cup {N} /\ N \in V \ W
        BY <1>14
    <2> HIDE DEF V, W, N, n
    <2>2. /\ Weigh(All(f, V)) = Weigh(All(f, W)) + Weigh(f[N]) /\ Weigh(All(f, W)) \in Nat
          /\ Weigh(All(o, V)) = Weigh(All(o, W)) + Weigh(o[N])
        BY <1>8, <1>12, <1>13, <2>1, WeighNext
    <2>3. Weigh(o[N]) = 0
        <3>1. o[N] = {}
            BY <1>3, <2>1 DEF Offered, N
        <3> QED
            BY <3>1, WeighEmpty
    <2>4. Weigh(f[N]) = factorial[n]
        <3>1. N \in SUBSET (1 .. Len(rs)) /\ N # {} /\ n - n = 0 /\ n \in Nat
            <4>1. N \in SUBSET (1 .. Len(rs))
                BY DEF N
            <4>2. N # {}
                BY <1>2, <2>1
            <4>3. n \in Nat
                BY <1>1
            <4>4. n - n = 0
                BY <4>3
            <4> QED
                BY <4>1, <4>2, <4>3, <4>4
        <3>2. Weigh(f[N]) = factorial[n] * factorial[n - n]
            BY <1>1, <1>3, <2>1, <3>1, JoiningWeighs DEF n
        <3>3. factorial[n] \in Nat /\ factorial[0] = 1
            BY <3>1, FactorialIs
        <3> QED
            BY <3>1, <3>2, <3>3
    <2>5. factorial[n] \in Nat
        BY <1>1, FactorialIs
    <2>6. Weigh(All(f, V)) - Weigh(All(o, V)) = factorial[n]
        BY <1>13, <2>2, <2>3, <2>4, <2>5
    <2> QED
        BY <1>11, <1>12, <1>14, <2>6 DEF n, N
<1>15. CASE N \notin V
    <2>1. V = W
        BY <1>15
    <2>2. Weigh(All(f, V)) \in Nat
        <3> HIDE DEF V, W
        <3>1. Weighted({}) /\ All(f, V) \cap {} = {}
            BY WeighEmpty
        <3> QED
            BY <1>13, <2>1, <3>1, WeighUnion
    <2> HIDE DEF V, W
    <2>3. Weigh(All(f, V)) - Weigh(All(o, V)) = 0
        BY <1>13, <2>1, <2>2
    <2> QED
        BY <1>11, <1>12, <1>15, <2>3
<1> QED
    BY <1>14, <1>15

(* What i adds to each of the coalitions in X.                             *)
Share(mu, rs, i, X) == {Gain(mu, rs, i, T) : T \in X}

(* It weighs what sets of the same weights do, one for each coalition.     *)
LEMMA ShareLike ==
    ASSUME NEW rs, Reporting(rs), NEW mu, NEW i \in 1 .. Len(rs),
           NEW X \in SUBSET (SUBSET ((1 .. Len(rs)) \ {i})), NEW o, Apart(o, X),
           \A T \in X : Weigh(o[T]) =
               factorial[Cardinality(T)] * factorial[Len(rs) - 1 - Cardinality(T)]
    PROVE  Weigh(Share(mu, rs, i, X)) = Weigh(All(o, X))
<1> DEFINE f == [T \in X |-> {Gain(mu, rs, i, T)}]
<1>1. IsFiniteSet(X)
    <2>1. IsFiniteSet(SUBSET (1 .. Len(rs)))
        BY Agents, FS_SUBSET
    <2>2. X \in SUBSET (SUBSET (1 .. Len(rs)))
        OBVIOUS
    <2> QED
        BY <2>1, <2>2, FS_Subset
<1>2. ASSUME NEW T \in X PROVE Weighted(f[T]) /\ Weigh(f[T]) = Weigh(o[T])
    <2> DEFINE g == Gain(mu, rs, i, T)
    <2>1. f[T] = {g}
        OBVIOUS
    <2> HIDE DEF g, f
    <2>2. GainFacts(g, mu, rs, i, T)
        BY GainIs DEF g
    <2>3. /\ Weighted({g}) /\ Weigh({g}) = g.weight
          /\ g.weight = factorial[Cardinality(T)] * factorial[Len(rs) - 1 - Cardinality(T)]
        BY <2>2, Zenon DEF GainFacts
    <2> QED
        BY <2>1, <2>3
<1>3. Apart(f, X)
    <2>1. ASSUME NEW T \in X, NEW S \in X, T # S PROVE f[T] \cap f[S] = {}
        <3>1. f[T] = {Gain(mu, rs, i, T)} /\ f[S] = {Gain(mu, rs, i, S)}
            OBVIOUS
        <3>2. Gain(mu, rs, i, T) # Gain(mu, rs, i, S)
            <4>1. Gain(mu, rs, i, T).coalition = T /\ Gain(mu, rs, i, S).coalition = S
                BY DEF Gain
            <4> QED
                BY <2>1, <4>1
        <3> QED
            BY <3>1, <3>2
    <2> QED
        BY <1>2, <2>1 DEF Apart
<1>4. All(f, X) = Share(mu, rs, i, X)
    <2>1. All(f, X) \subseteq Share(mu, rs, i, X)
        BY DEF All, Share
    <2>2. ASSUME NEW g \in Share(mu, rs, i, X) PROVE g \in All(f, X)
        <3>1. PICK T \in X : g = Gain(mu, rs, i, T)
            BY DEF Share
        <3>2. g \in f[T]
            BY <3>1
        <3> HIDE DEF f
        <3> QED
            BY <3>2 DEF All
    <2> QED
        BY <2>1, <2>2
<1> HIDE DEF f
<1>5. Weigh(All(f, X)) = Weigh(All(o, X))
    BY <1>1, <1>2, <1>3, WeighLike
<1> QED
    BY <1>4, <1>5

(* The coalitions that i brings to the belief v, and that have it before.  *)
Reached(mu, rs, i, v) ==
    {T \in SUBSET ((1 .. Len(rs)) \ {i}) : Value(mu, rs, T \cup {i}) = v}

Left(mu, rs, i, v) == {T \in SUBSET ((1 .. Len(rs)) \ {i}) : Value(mu, rs, T) = v}

(* The coefficients of i alone.                                            *)
LEMMA ShareIs ==
    ASSUME NEW rs, Reporting(rs), NEW mu, Coalesces(mu, rs), NEW i \in 1 .. Len(rs), NEW v
    PROVE  Coefficient({g \in Gains(rs) : g.agent = i}, v) =
               Weigh(Share(mu, rs, i, Reached(mu, rs, i, v)))
                   - Weigh(Share(mu, rs, i, Left(mu, rs, i, v)))
<1> DEFINE N == 1 .. Len(rs)
           mine == {g \in Gains(rs) : g.agent = i}
           Gained == {g \in mine : g.after = v}
           Lost == {g \in mine : g.before = v}
<1>1. \A j, T : /\ Gain(mu, rs, j, T).agent = j
                /\ Gain(mu, rs, j, T).after = Value(mu, rs, T \cup {j})
                /\ Gain(mu, rs, j, T).before = Value(mu, rs, T)
    BY DEF Gain
<1>2. \A g : g \in mine <=> \E T \in SUBSET (N \ {i}) : g = Gain(mu, rs, i, T)
    <2>1. ASSUME NEW g \in mine PROVE \E T \in SUBSET (N \ {i}) : g = Gain(mu, rs, i, T)
        <3>1. PICK j \in N : \E T \in SUBSET (N \ {j}) : g = Gain(mu, rs, j, T)
            BY GainsAre
        <3>2. j = i
            BY <1>1, <3>1
        <3> QED
            BY <3>1, <3>2
    <2>2. ASSUME NEW T \in SUBSET (N \ {i}) PROVE Gain(mu, rs, i, T) \in mine
        BY <1>1, GainsAre
    <2> QED
        BY <2>1, <2>2
<1> HIDE DEF mine
<1>3. Gained = Share(mu, rs, i, Reached(mu, rs, i, v))
    <2>1. ASSUME NEW g \in Gained PROVE g \in Share(mu, rs, i, Reached(mu, rs, i, v))
        <3>1. PICK T \in SUBSET (N \ {i}) : g = Gain(mu, rs, i, T)
            BY <1>2
        <3>2. T \in Reached(mu, rs, i, v)
            BY <1>1, <3>1 DEF Reached
        <3> QED
            BY <3>1, <3>2 DEF Share
    <2>2. ASSUME NEW g \in Share(mu, rs, i, Reached(mu, rs, i, v)) PROVE g \in Gained
        <3>1. PICK T \in Reached(mu, rs, i, v) : g = Gain(mu, rs, i, T)
            BY DEF Share
        <3>2. T \in SUBSET (N \ {i}) /\ Value(mu, rs, T \cup {i}) = v
            BY DEF Reached
        <3> QED
            BY <1>1, <1>2, <3>1, <3>2
    <2> HIDE DEF Gained
    <2> QED
        BY <2>1, <2>2
<1>4. Lost = Share(mu, rs, i, Left(mu, rs, i, v))
    <2>1. ASSUME NEW g \in Lost PROVE g \in Share(mu, rs, i, Left(mu, rs, i, v))
        <3>1. PICK T \in SUBSET (N \ {i}) : g = Gain(mu, rs, i, T)
            BY <1>2
        <3>2. T \in Left(mu, rs, i, v)
            BY <1>1, <3>1 DEF Left
        <3> QED
            BY <3>1, <3>2 DEF Share
    <2>2. ASSUME NEW g \in Share(mu, rs, i, Left(mu, rs, i, v)) PROVE g \in Lost
        <3>1. PICK T \in Left(mu, rs, i, v) : g = Gain(mu, rs, i, T)
            BY DEF Share
        <3>2. T \in SUBSET (N \ {i}) /\ Value(mu, rs, T) = v
            BY DEF Left
        <3> QED
            BY <1>1, <1>2, <3>1, <3>2
    <2> HIDE DEF Lost
    <2> QED
        BY <2>1, <2>2
<1>5. Coefficient(mine, v) = Weigh(Gained) - Weigh(Lost)
    BY CoefficientIs
<1> QED
    BY <1>3, <1>4, <1>5 DEF mine

-----------------------------------------------------------------------------
(* Agents that say the same: one takes the place of the other.             *)

Swap(i, j, T) == IF j \in T THEN (T \ {j}) \cup {i} ELSE T

LEMMA SwapIs ==
    ASSUME NEW n \in Nat, NEW i \in 1 .. n, NEW j \in 1 .. n, i # j,
           NEW T \in SUBSET (1 .. n), i \notin T
    PROVE  /\ Swap(i, j, T) \in SUBSET (1 .. n) /\ j \notin Swap(i, j, T)
           /\ Swap(j, i, Swap(i, j, T)) = T
           /\ Cardinality(Swap(i, j, T)) = Cardinality(T)
<1>1. CASE j \in T
    <2> DEFINE S == T \ {j}
    <2>1. Swap(i, j, T) = S \cup {i} /\ i \notin S /\ j \notin S
        BY <1>1 DEF Swap
    <2>2. Swap(j, i, Swap(i, j, T)) = T
        BY <1>1, <2>1 DEF Swap
    <2>3. IsFiniteSet(T) /\ Cardinality(T) \in Nat
        <3>1. IsFiniteSet(T) /\ Cardinality(T) \in 0 .. n - 1
            BY Coalition
        <3> QED
            BY <3>1
    <2>4. IsFiniteSet(S) /\ Cardinality(S) = Cardinality(T) - 1
        BY <1>1, <2>3, FS_RemoveElement
    <2>5. Swap(i, j, T) \in SUBSET (1 .. n) /\ j \notin Swap(i, j, T)
        BY <2>1
    <2> HIDE DEF S
    <2>6. Cardinality(S \cup {i}) = Cardinality(S) + 1
        BY <2>1, <2>4, FS_AddElement
    <2>7. Cardinality(Swap(i, j, T)) = Cardinality(T)
        BY <2>1, <2>3, <2>4, <2>6
    <2> QED
        BY <2>2, <2>5, <2>7
<1>2. CASE j \notin T
    BY <1>2 DEF Swap
<1> QED
    BY <1>1, <1>2

LEMMA SwapValues ==
    ASSUME NEW rs, Reporting(rs), NEW mu, Coalesces(mu, rs),
           NEW i \in 1 .. Len(rs), NEW j \in 1 .. Len(rs), i # j, Bpa(rs[i]) = Bpa(rs[j]),
           NEW T \in SUBSET (1 .. Len(rs)), i \notin T
    PROVE  /\ Value(mu, rs, Swap(i, j, T) \cup {j}) = Value(mu, rs, T \cup {i})
           /\ Value(mu, rs, Swap(i, j, T)) = Value(mu, rs, T)
<1>1. CASE j \in T
    <2> DEFINE S == T \ {j}
    <2>1. /\ Swap(i, j, T) = S \cup {i} /\ T = S \cup {j}
          /\ (S \cup {i}) \cup {j} = T \cup {i} /\ S \in SUBSET (1 .. Len(rs))
          /\ i \notin S /\ j \notin S
        BY <1>1 DEF Swap
    <2> HIDE DEF S
    <2>2. Value(mu, rs, S \cup {i}) = Value(mu, rs, S \cup {j})
        BY <2>1, ValueAlike
    <2> QED
        BY <2>1, <2>2
<1>2. CASE j \notin T
    <2>1. Swap(i, j, T) = T
        BY <1>2 DEF Swap
    <2>2. Value(mu, rs, T \cup {i}) = Value(mu, rs, T \cup {j})
        BY <1>2, ValueAlike
    <2>3. Value(mu, rs, Swap(i, j, T)) = Value(mu, rs, T)
        BY <2>1
    <2>4. Value(mu, rs, Swap(i, j, T) \cup {j}) = Value(mu, rs, T \cup {j})
        BY <2>1
    <2> QED
        BY <2>2, <2>3, <2>4
<1> QED
    BY <1>1, <1>2

Exchanges(i, j, X, Y) ==
    /\ \A T \in X : Swap(i, j, T) \in Y
    /\ \A T \in Y : Swap(j, i, T) \in X

(* Shares of coalitions that correspond.                                   *)
LEMMA SwapWeighs ==
    ASSUME NEW rs, Reporting(rs), NEW mu,
           NEW i \in 1 .. Len(rs), NEW j \in 1 .. Len(rs), i # j,
           NEW X \in SUBSET (SUBSET ((1 .. Len(rs)) \ {i})),
           NEW Y \in SUBSET (SUBSET ((1 .. Len(rs)) \ {j})),
           Exchanges(i, j, X, Y)
    PROVE  Weigh(Share(mu, rs, i, X)) = Weigh(Share(mu, rs, j, Y))
<1> DEFINE o == [T \in X |-> {Gain(mu, rs, j, Swap(i, j, T))}]
<1>1. Len(rs) \in Nat
    BY Agents
<1>2. ASSUME NEW T \in X
      PROVE  /\ Swap(i, j, T) \in SUBSET (1 .. Len(rs)) /\ j \notin Swap(i, j, T)
             /\ Swap(j, i, Swap(i, j, T)) = T
             /\ Cardinality(Swap(i, j, T)) = Cardinality(T)
    <2>1. T \in SUBSET ((1 .. Len(rs)) \ {i})
        OBVIOUS
    <2> HIDE DEF o
    <2> DEFINE n == Len(rs)
    <2>2. n \in Nat /\ i \in 1 .. n /\ j \in 1 .. n /\ T \in SUBSET (1 .. n) /\ i \notin T
        BY <1>1, <2>1
    <2> HIDE DEF n
    <2>3. /\ Swap(i, j, T) \in SUBSET (1 .. n) /\ j \notin Swap(i, j, T)
          /\ Swap(j, i, Swap(i, j, T)) = T
          /\ Cardinality(Swap(i, j, T)) = Cardinality(T)
        BY <2>2, SwapIs
    <2> QED
        BY <2>3 DEF n
<1>3. ASSUME NEW S \in Y PROVE Swap(i, j, Swap(j, i, S)) = S
    <2>1. S \in SUBSET (1 .. Len(rs)) /\ j \notin S /\ j # i
        OBVIOUS
    <2> QED
        BY <1>1, <2>1, SwapIs
<1>4. ASSUME NEW T \in X
      PROVE  /\ Weighted(o[T])
             /\ Weigh(o[T]) =
                    factorial[Cardinality(T)] * factorial[Len(rs) - 1 - Cardinality(T)]
    <2> DEFINE S == Swap(i, j, T)
               g == Gain(mu, rs, j, S)
    <2>1. o[T] = {g}
        OBVIOUS
    <2>2. S \in SUBSET ((1 .. Len(rs)) \ {j}) /\ Cardinality(S) = Cardinality(T)
        <3>1. S \in SUBSET (1 .. Len(rs)) /\ j \notin S /\ Cardinality(S) = Cardinality(T)
            BY <1>2
        <3> HIDE DEF S
        <3> QED
            BY <3>1
    <2> HIDE DEF S, g, o
    <2>3. GainFacts(g, mu, rs, j, S)
        BY <2>2, GainIs DEF g
    <2>4. /\ Weighted({g}) /\ Weigh({g}) = g.weight
          /\ g.weight = factorial[Cardinality(S)] * factorial[Len(rs) - 1 - Cardinality(S)]
        BY <2>3, Zenon DEF GainFacts
    <2> QED
        BY <2>1, <2>2, <2>4
<1>5. Apart(o, X)
    <2>1. ASSUME NEW T \in X, NEW S \in X, T # S PROVE o[T] \cap o[S] = {}
        <3>1. o[T] = {Gain(mu, rs, j, Swap(i, j, T))} /\ o[S] = {Gain(mu, rs, j, Swap(i, j, S))}
            OBVIOUS
        <3>2. Gain(mu, rs, j, Swap(i, j, T)) # Gain(mu, rs, j, Swap(i, j, S))
            <4>1. /\ Gain(mu, rs, j, Swap(i, j, T)).coalition = Swap(i, j, T)
                  /\ Gain(mu, rs, j, Swap(i, j, S)).coalition = Swap(i, j, S)
                BY DEF Gain
            <4>2. Swap(i, j, T) # Swap(i, j, S)
                BY <1>2, <2>1
            <4> QED
                BY <4>1, <4>2
        <3> QED
            BY <3>1, <3>2
    <2> QED
        BY <1>4, <2>1 DEF Apart
<1>6. All(o, X) = Share(mu, rs, j, Y)
    <2>1. ASSUME NEW g \in Share(mu, rs, j, Y) PROVE g \in All(o, X)
        <3>1. PICK S \in Y : g = Gain(mu, rs, j, S)
            BY DEF Share
        <3>2. Swap(j, i, S) \in X /\ g \in o[Swap(j, i, S)]
            BY <1>3, <3>1 DEF Exchanges
        <3> HIDE DEF o
        <3> QED
            BY <3>2 DEF All
    <2>2. ASSUME NEW T \in X PROVE o[T] \subseteq Share(mu, rs, j, Y)
        BY DEF Share, Exchanges
    <2> HIDE DEF o
    <2> QED
        BY <2>1, <2>2 DEF All
<1> HIDE DEF o
<1>7. Weigh(Share(mu, rs, i, X)) = Weigh(All(o, X))
    BY <1>4, <1>5, ShareLike
<1> QED
    BY <1>6, <1>7

(* The third part of AttributionAddsUp.                                    *)
LEMMA SharesAlike ==
    ASSUME NEW rs, Reporting(rs), NEW mu, Coalesces(mu, rs), NEW v,
           NEW i \in 1 .. Len(rs), NEW j \in 1 .. Len(rs), Bpa(rs[i]) = Bpa(rs[j])
    PROVE  Coefficient({g \in Gains(rs) : g.agent = i}, v) =
               Coefficient({g \in Gains(rs) : g.agent = j}, v)
<1>1. CASE i = j
    BY <1>1
<1>2. CASE i # j
    <2>0. Len(rs) \in Nat /\ j # i
        BY <1>2, Agents
    <2>1. ASSUME NEW a \in {i, j}, NEW b \in {i, j}, a # b, NEW T \in SUBSET ((1 .. Len(rs)) \ {a})
          PROVE  /\ Swap(a, b, T) \in SUBSET ((1 .. Len(rs)) \ {b})
                 /\ Value(mu, rs, Swap(a, b, T) \cup {b}) = Value(mu, rs, T \cup {a})
                 /\ Value(mu, rs, Swap(a, b, T)) = Value(mu, rs, T)
        <3>1. a \in 1 .. Len(rs) /\ b \in 1 .. Len(rs) /\ Bpa(rs[a]) = Bpa(rs[b])
            OBVIOUS
        <3>2. a # b /\ T \in SUBSET (1 .. Len(rs)) /\ a \notin T
            BY <2>1
        <3>3. Swap(a, b, T) \in SUBSET (1 .. Len(rs)) /\ b \notin Swap(a, b, T)
            BY <2>0, <3>1, <3>2, SwapIs
        <3>4. /\ Value(mu, rs, Swap(a, b, T) \cup {b}) = Value(mu, rs, T \cup {a})
              /\ Value(mu, rs, Swap(a, b, T)) = Value(mu, rs, T)
            BY <3>1, <3>2, SwapValues
        <3> QED
            BY <3>3, <3>4
    <2>2. Weigh(Share(mu, rs, i, Reached(mu, rs, i, v))) = Weigh(Share(mu, rs, j, Reached(mu, rs, j, v)))
        <3> DEFINE X == Reached(mu, rs, i, v)
                   Y == Reached(mu, rs, j, v)
        <3>1. /\ X \in SUBSET (SUBSET ((1 .. Len(rs)) \ {i}))
              /\ Y \in SUBSET (SUBSET ((1 .. Len(rs)) \ {j}))
            BY DEF Reached
        <3>2. Exchanges(i, j, X, Y)
            BY <1>2, <2>1 DEF Reached, Exchanges
        <3> HIDE DEF X, Y
        <3>3. Weigh(Share(mu, rs, i, X)) = Weigh(Share(mu, rs, j, Y))
            BY <1>2, <3>1, <3>2, SwapWeighs
        <3> QED
            BY <3>3 DEF X, Y
    <2>3. Weigh(Share(mu, rs, i, Left(mu, rs, i, v))) = Weigh(Share(mu, rs, j, Left(mu, rs, j, v)))
        <3> DEFINE X == Left(mu, rs, i, v)
                   Y == Left(mu, rs, j, v)
        <3>1. /\ X \in SUBSET (SUBSET ((1 .. Len(rs)) \ {i}))
              /\ Y \in SUBSET (SUBSET ((1 .. Len(rs)) \ {j}))
            BY DEF Left
        <3>2. Exchanges(i, j, X, Y)
            BY <1>2, <2>1 DEF Left, Exchanges
        <3> HIDE DEF X, Y
        <3>3. Weigh(Share(mu, rs, i, X)) = Weigh(Share(mu, rs, j, Y))
            BY <1>2, <3>1, <3>2, SwapWeighs
        <3> QED
            BY <3>3 DEF X, Y
    <2> QED
        BY <2>2, <2>3, ShareIs
<1> QED
    BY <1>1, <1>2

-----------------------------------------------------------------------------
(* Every order once.  The agents before i in p.                            *)

Place(p, n, i) == CHOOSE k \in 1 .. n : p[k] = i

Earlier(p, n, i) == {p[l] : l \in 1 .. Place(p, n, i) - 1}

(* They are the one coalition that p places before i.                      *)
LEMMA PlacedIs ==
    ASSUME NEW n \in Nat, NEW p \in Bijection(1 .. n, 1 .. n), NEW i \in 1 .. n
    PROVE  /\ Place(p, n, i) \in 1 .. n /\ p[Place(p, n, i)] = i
           /\ Earlier(p, n, i) \in SUBSET ((1 .. n) \ {i})
           /\ \A T \in SUBSET ((1 .. n) \ {i}) : Placed(p, T, i) <=> T = Earlier(p, n, i)
<1> DEFINE N == 1 .. n
           k == Place(p, n, i)
           E == {p[l] : l \in 1 .. k - 1}
<1>1. p \in [N -> N] /\ (\A a, b \in N : p[a] = p[b] => a = b) /\ \A y \in N : \E a \in N : p[a] = y
    <2>1. p \in Bijection(N, N)
        OBVIOUS
    <2> HIDE DEF N
    <2> QED
        BY <2>1, OrderIs
<1>2. k \in N /\ p[k] = i
    BY <1>1 DEF Place
<1> HIDE DEF k
<1>3. k - 1 \in Nat /\ \A l \in 1 .. k - 1 : l \in N /\ l # k
    BY <1>2
<1>4. E \in SUBSET (N \ {i})
    BY <1>1, <1>2, <1>3
<1>5. IsFiniteSet(E) /\ Cardinality(E) = k - 1
    <2> DEFINE r == [l \in 1 .. k - 1 |-> p[l]]
    <2>1. /\ r \in [1 .. k - 1 -> E] /\ (\A a, b \in 1 .. k - 1 : r[a] = r[b] => a = b)
          /\ \A y \in E : \E a \in 1 .. k - 1 : r[a] = y
        BY <1>1, <1>3
    <2>2. IsFiniteSet(E)
        BY <1>4, Coalition
    <2> HIDE DEF r, E
    <2>3. r \in Bijection(1 .. k - 1, E)
        BY <2>1, Fun_IsBij
    <2> QED
        BY <1>3, <2>2, <2>3, FS_CountingElements DEF ExistsBijection
<1>6. ASSUME NEW T \in SUBSET (N \ {i}), Placed(p, T, i) PROVE T = E
    <2>1. IsFiniteSet(T) /\ Cardinality(T) \in 0 .. n - 1
        BY Coalition
    <2> DEFINE s == Cardinality(T)
    <2>2. (\A l \in 1 .. s : p[l] \in T) /\ p[s + 1] = i
        BY <1>6 DEF Placed
    <2>3. s + 1 \in N /\ s \in Nat
        BY <2>1
    <2>4. s + 1 = k
        BY <1>1, <1>2, <2>2, <2>3
    <2>5. s = k - 1
        BY <1>2, <2>3, <2>4
    <2>6. E \in SUBSET T
        BY <2>2, <2>5
    <2> HIDE DEF E
    <2> QED
        BY <1>5, <2>1, <2>5, <2>6, FS_Subset
<1>7. Placed(p, E, i)
    <2>1. \A l \in 1 .. k - 1 : p[l] \in E
        OBVIOUS
    <2>2. (k - 1) + 1 = k
        BY <1>2
    <2> HIDE DEF E
    <2> QED
        BY <1>2, <1>5, <2>1, <2>2 DEF Placed
<1>8. E = Earlier(p, n, i)
    BY DEF Earlier, k
<1> HIDE DEF E
<1> QED
    BY <1>2, <1>4, <1>6, <1>7, <1>8 DEF k

(* What i adds to them.                                                    *)
Told(mu, rs, i, p) ==
    [agent |-> i, order |-> p, weight |-> 1,
     after |-> Value(mu, rs, Earlier(p, Len(rs), i) \cup {i}),
     before |-> Value(mu, rs, Earlier(p, Len(rs), i))]

(* The reports of the first k places of p, and the agents in them.         *)
Along(rs, p, k) == [l \in 1 .. k |-> rs[p[l]]]

Upto(p, k) == {p[l] : l \in 1 .. k}

LEMMA PlacesFused ==
    ASSUME NEW rs, Reporting(rs), NEW mu, Coalesces(mu, rs),
           NEW p \in Bijection(1 .. Len(rs), 1 .. Len(rs)), NEW k \in 0 .. Len(rs)
    PROVE  FusedBelief(Along(rs, p, k)) = Value(mu, rs, Upto(p, k))
<1> DEFINE N == 1 .. Len(rs)
           s == [l \in 1 .. k |-> rs[p[l]]]
<1>1. Len(rs) \in Nat /\ \A j \in N : rs[j] \in AgentReport
    BY BpasAdditive
<1>2. p \in [N -> N] /\ \A a, b \in N : p[a] = p[b] => a = b
    <2>1. p \in Bijection(N, N)
        OBVIOUS
    <2> HIDE DEF N
    <2> QED
        BY <2>1, OrderIs
<1>3. k \in Nat /\ \A l \in 1 .. k : l \in N
    BY <1>1
<1>4. s \in Seq(AgentReport) /\ Len(s) = k
    BY <1>1, <1>2, <1>3
<1>5. \A l \in 1 .. k : s[l] = rs[p[l]]
    OBVIOUS
<1>6. Picks(p, k, Len(rs))
    BY <1>2, <1>3 DEF Picks
<1> HIDE DEF s
<1>7. FusedBelief(s) = Value(mu, rs, {p[l] : l \in 1 .. k})
    BY <1>4, <1>5, <1>6, FusedVia
<1> QED
    BY <1>7 DEF s, Along, Upto

(* The record of Sampled is that.                                          *)
LEMMA ToldIs ==
    ASSUME NEW rs, Reporting(rs), NEW mu, Coalesces(mu, rs),
           NEW p \in Bijection(1 .. Len(rs), 1 .. Len(rs)), NEW k \in 1 .. Len(rs)
    PROVE  [agent |-> p[k], order |-> p, weight |-> 1,
            after |-> FusedBelief(Along(rs, p, k)),
            before |-> FusedBelief(Along(rs, p, k - 1))] = Told(mu, rs, p[k], p)
<1> DEFINE N == 1 .. Len(rs)
           i == p[k]
           E == Earlier(p, Len(rs), i)
<1>1. Len(rs) \in Nat /\ k \in 0 .. Len(rs) /\ k - 1 \in 0 .. Len(rs)
    BY Agents
<1>2. p \in [N -> N] /\ \A a, b \in N : p[a] = p[b] => a = b
    <2>1. p \in Bijection(N, N)
        OBVIOUS
    <2> HIDE DEF N
    <2> QED
        BY <2>1, OrderIs
<1>3. Place(p, Len(rs), i) = k
    <2>1. i \in N
        BY <1>2
    <2>2. Place(p, Len(rs), i) \in N /\ p[Place(p, Len(rs), i)] = i
        BY <1>1, <2>1, PlacedIs
    <2> QED
        BY <1>2, <2>2
<1>4. E = Upto(p, k - 1)
    BY <1>3 DEF Earlier, Upto
<1>5. Upto(p, k) = E \cup {i}
    <2> DEFINE R == {p[l] : l \in 1 .. k}
    <2>1. /\ \A l \in 1 .. k : l = k \/ l \in 1 .. k - 1
          /\ \A l \in 1 .. k - 1 : l \in 1 .. k
          /\ k \in 1 .. k
        BY <1>1
    <2>2. R \subseteq E \cup {i}
        BY <1>4, <2>1 DEF Upto
    <2>3. E \subseteq R /\ i \in R
        BY <1>4, <2>1 DEF Upto
    <2> HIDE DEF R
    <2>4. R = E \cup {i}
        BY <2>2, <2>3
    <2> QED
        BY <2>4 DEF R, Upto
<1>6. FusedBelief(Along(rs, p, k)) = Value(mu, rs, E \cup {i})
    <2>1. FusedBelief(Along(rs, p, k)) = Value(mu, rs, Upto(p, k))
        BY <1>1, PlacesFused
    <2> HIDE DEF E, i
    <2> QED
        BY <1>5, <2>1
<1>7. FusedBelief(Along(rs, p, k - 1)) = Value(mu, rs, E)
    BY <1>1, <1>4, PlacesFused
<1> QED
    BY <1>6, <1>7, Zenon DEF Told

LEMMA SampledAre ==
    ASSUME NEW rs, Reporting(rs), NEW mu, Coalesces(mu, rs)
    PROVE  \A g : g \in Sampled(rs, Bijection(1 .. Len(rs), 1 .. Len(rs))) <=>
               \E i \in 1 .. Len(rs) : \E p \in Bijection(1 .. Len(rs), 1 .. Len(rs)) :
                   g = Told(mu, rs, i, p)
<1> DEFINE N == 1 .. Len(rs)
           B == Bijection(N, N)
           G(p, k) ==
               [agent |-> p[k], order |-> p, weight |-> 1,
                after |-> FusedBelief(Along(rs, p, k)),
                before |-> FusedBelief(Along(rs, p, k - 1))]
<1>1. DOMAIN rs = N
    BY BpasAdditive
<1>2. \A g : g \in Sampled(rs, B) <=> \E p \in B : \E k \in N : g = G(p, k)
    <2>1. Sampled(rs, B) = {G(p, k) : p \in B, k \in DOMAIN rs}
        BY DEF Sampled, Along
    <2> HIDE DEF G, B, N
    <2> QED
        BY <1>1, <2>1
<1>3. ASSUME NEW p \in B, NEW k \in N PROVE G(p, k) = Told(mu, rs, p[k], p)
    BY ToldIs, Zenon
<1> HIDE DEF G
<1>4. ASSUME NEW p \in B PROVE (\A k \in N : p[k] \in N) /\ \A i \in N : \E k \in N : p[k] = i
    <2> HIDE DEF N
    <2> QED
        BY OrderIs
<1> HIDE DEF B, N
<1>5. \A g : (\E p \in B : \E k \in N : g = G(p, k)) <=>
             \E i \in N : \E p \in B : g = Told(mu, rs, i, p)
    BY <1>3, <1>4
<1>6. \A g : g \in Sampled(rs, B) <=> \E i \in N : \E p \in B : g = Told(mu, rs, i, p)
    BY <1>2, <1>5, Zenon
<1> QED
    BY <1>6 DEF B, N

(* The orders that bring i to the coalitions in X.                         *)
Ordered(mu, rs, i, X) ==
    {Told(mu, rs, i, p) : p \in {p \in Bijection(1 .. Len(rs), 1 .. Len(rs)) :
                                     Earlier(p, Len(rs), i) \in X}}

(* |T|! orders of those before i, (n - 1 - |T|)! of those behind.          *)
LEMMA OrderedWeighs ==
    ASSUME NEW rs, Reporting(rs), NEW mu, NEW i \in 1 .. Len(rs),
           NEW X \in SUBSET (SUBSET ((1 .. Len(rs)) \ {i}))
    PROVE  Weigh(Ordered(mu, rs, i, X)) = Weigh(Share(mu, rs, i, X))
<1> DEFINE n == Len(rs)
           N == 1 .. n
           B == Bijection(N, N)
           h == [p \in B |-> Told(mu, rs, i, p)]
           q == [l \in 1 .. 0 |-> i]
           o == [T \in X |-> Placing(h, n, T, i, 0, q)]
<1>1. n \in Nat /\ i \in N /\ \A T \in X : T \in SUBSET (N \ {i})
    BY Agents
<1>2. \A p \in B : h[p] = Told(mu, rs, i, p)
    OBVIOUS
<1>3. Tells(h, n)
    BY <1>2 DEF Tells, Told
<1> HIDE DEF h, q
<1>4. \A T \in X : o[T] = Placing(h, n, T, i, 0, q)
    OBVIOUS
<1>5. \A p : Starts(p, 0, q)
    BY DEF Starts
<1> HIDE DEF o, n
<1>6. ASSUME NEW T \in X
      PROVE  \A g : g \in o[T] <=> \E p \in B : T = Earlier(p, n, i) /\ g = h[p]
    <2>1. \A p \in B : Placed(p, T, i) <=> T = Earlier(p, n, i)
        BY <1>1, PlacedIs
    <2> HIDE DEF B, N
    <2> QED
        BY <1>4, <1>5, <2>1 DEF Placing, B, N
<1>7. ASSUME NEW T \in X
      PROVE  /\ Weighted(o[T])
             /\ Weigh(o[T]) = factorial[Cardinality(T)] * factorial[n - 1 - Cardinality(T)]
    <2> DEFINE s == Cardinality(T)
    <2>1. q \in Injection(1 .. 0, T)
        <3>1. q \in [1 .. 0 -> T] /\ \A a, b \in 1 .. 0 : q[a] = q[b] => a = b
            BY DEF q
        <3> QED
            BY <3>1, Fun_IsInj
    <2>2. /\ s \in 0 .. n - 1
          /\ \A k \in 0 .. s : \A r \in Injection(1 .. k, T) :
                 /\ Weighted(Placing(h, n, T, i, k, r))
                 /\ Weigh(Placing(h, n, T, i, k, r)) = factorial[s - k] * factorial[n - 1 - s]
        BY <1>1, <1>3, PlacingIs
    <2>3. 0 \in 0 .. s /\ s - 0 = s
        BY <2>2
    <2> HIDE DEF s
    <2>4. /\ Weighted(Placing(h, n, T, i, 0, q))
          /\ Weigh(Placing(h, n, T, i, 0, q)) = factorial[s] * factorial[n - 1 - s]
        BY <2>1, <2>2, <2>3
    <2> QED
        BY <1>4, <2>4 DEF s
<1>8. Apart(o, X)
    <2>1. ASSUME NEW T \in X, NEW S \in X, NEW g \in o[T], g \in o[S] PROVE T = S
        <3>1. PICK p \in B : T = Earlier(p, n, i) /\ g = h[p]
            BY <1>6
        <3>2. PICK r \in B : S = Earlier(r, n, i) /\ g = h[r]
            BY <1>6, <2>1
        <3>3. p = r
            BY <1>3, <3>1, <3>2 DEF Tells
        <3> QED
            BY <3>1, <3>2, <3>3
    <2> QED
        BY <1>7, <2>1 DEF Apart
<1>9. All(o, X) = Ordered(mu, rs, i, X)
    <2>1. ASSUME NEW T \in X, NEW g \in o[T] PROVE g \in Ordered(mu, rs, i, X)
        BY <1>2, <1>6 DEF Ordered, n
    <2>2. ASSUME NEW g \in Ordered(mu, rs, i, X) PROVE g \in All(o, X)
        <3>1. PICK p \in B : Earlier(p, n, i) \in X /\ g = h[p]
            BY <1>2 DEF Ordered, n
        <3>2. g \in o[Earlier(p, n, i)]
            BY <1>6, <3>1
        <3> QED
            BY <3>1, <3>2 DEF All
    <2> QED
        BY <2>1, <2>2 DEF All
<1>10. Weigh(Share(mu, rs, i, X)) = Weigh(All(o, X))
    BY <1>7, <1>8, ShareLike DEF n
<1> QED
    BY <1>9, <1>10

(* Sampling every order once attributes to i what the coalitions do.       *)
LEMMA SampledAlike ==
    ASSUME NEW rs, Reporting(rs), NEW mu, Coalesces(mu, rs), NEW i \in 1 .. Len(rs), NEW v
    PROVE  Coefficient({g \in Sampled(rs, Bijection(1 .. Len(rs), 1 .. Len(rs))) : g.agent = i}, v)
               = Coefficient({g \in Gains(rs) : g.agent = i}, v)
<1> DEFINE N == 1 .. Len(rs)
           B == Bijection(N, N)
           mine == {g \in Sampled(rs, B) : g.agent = i}
           Gained == {g \in mine : g.after = v}
           Lost == {g \in mine : g.before = v}
           X == Reached(mu, rs, i, v)
           Y == Left(mu, rs, i, v)
<1>1. \A j, p : /\ Told(mu, rs, j, p).agent = j
                /\ Told(mu, rs, j, p).after = Value(mu, rs, Earlier(p, Len(rs), j) \cup {j})
                /\ Told(mu, rs, j, p).before = Value(mu, rs, Earlier(p, Len(rs), j))
    BY DEF Told
<1>2. \A g : g \in mine <=> \E p \in B : g = Told(mu, rs, i, p)
    <2>1. \A g : g \in Sampled(rs, B) <=> \E j \in N : \E p \in B : g = Told(mu, rs, j, p)
        BY SampledAre
    <2> HIDE DEF B
    <2> QED
        BY <1>1, <2>1
<1>3. ASSUME NEW p \in B PROVE Earlier(p, Len(rs), i) \in SUBSET (N \ {i})
    BY Agents, PlacedIs
<1> HIDE DEF mine
<1>4. Gained = Ordered(mu, rs, i, X)
    <2>1. ASSUME NEW g \in Gained PROVE g \in Ordered(mu, rs, i, X)
        <3>1. PICK p \in B : g = Told(mu, rs, i, p)
            BY <1>2
        <3>2. Earlier(p, Len(rs), i) \in X
            BY <1>1, <1>3, <3>1 DEF Reached
        <3> HIDE DEF X
        <3> QED
            BY <3>1, <3>2 DEF Ordered
    <2>2. ASSUME NEW g \in Ordered(mu, rs, i, X) PROVE g \in Gained
        <3>1. PICK p \in B : Earlier(p, Len(rs), i) \in X /\ g = Told(mu, rs, i, p)
            BY DEF Ordered
        <3>2. g.after = v
            BY <1>1, <3>1 DEF Reached
        <3> QED
            BY <1>2, <3>1, <3>2
    <2> HIDE DEF Gained, X
    <2> QED
        BY <2>1, <2>2
<1>5. Lost = Ordered(mu, rs, i, Y)
    <2>1. ASSUME NEW g \in Lost PROVE g \in Ordered(mu, rs, i, Y)
        <3>1. PICK p \in B : g = Told(mu, rs, i, p)
            BY <1>2
        <3>2. Earlier(p, Len(rs), i) \in Y
            BY <1>1, <1>3, <3>1 DEF Left
        <3> HIDE DEF Y
        <3> QED
            BY <3>1, <3>2 DEF Ordered
    <2>2. ASSUME NEW g \in Ordered(mu, rs, i, Y) PROVE g \in Lost
        <3>1. PICK p \in B : Earlier(p, Len(rs), i) \in Y /\ g = Told(mu, rs, i, p)
            BY DEF Ordered
        <3>2. g.before = v
            BY <1>1, <3>1 DEF Left
        <3> QED
            BY <1>2, <3>1, <3>2
    <2> HIDE DEF Lost, Y
    <2> QED
        BY <2>1, <2>2
<1>6. X \in SUBSET (SUBSET (N \ {i})) /\ Y \in SUBSET (SUBSET (N \ {i}))
    BY DEF Reached, Left
<1>7. Coefficient(mine, v) = Weigh(Gained) - Weigh(Lost)
    BY CoefficientIs
<1>8. Coefficient({g \in Gains(rs) : g.agent = i}, v) =
          Weigh(Share(mu, rs, i, X)) - Weigh(Share(mu, rs, i, Y))
    BY ShareIs
<1> HIDE DEF X, Y, Gained, Lost
<1>9. /\ Weigh(Ordered(mu, rs, i, X)) = Weigh(Share(mu, rs, i, X))
      /\ Weigh(Ordered(mu, rs, i, Y)) = Weigh(Share(mu, rs, i, Y))
    BY <1>6, OrderedWeighs
<1>10. Coefficient(mine, v) = Coefficient({g \in Gains(rs) : g.agent = i}, v)
    BY <1>4, <1>5, <1>7, <1>8, <1>9
<1> QED
    BY <1>10 DEF mine

-----------------------------------------------------------------------------
(* Two agents whatever they say, or more that are not opposed.             *)
Compatible(rs) ==
    LET opposed == \E i, j \in 1 .. Len(rs) : PrefersEvil(Bpa(rs[i])) # PrefersEvil(Bpa(rs[j]))
    IN  Len(rs) > 2 => ~opposed

LEMMA CompatibleCoalesce ==
    ASSUME NEW rs, Reporting(rs), Len(rs) >= 2, Compatible(rs)
    PROVE  \E mu : Coalesces(mu, rs)
<1>1. Len(rs) \in Nat
    BY Agents
<1>2. CASE Len(rs) = 2
    BY <1>2, PairCoalesces
<1>3. CASE Len(rs) > 2
    <2>1. \A i, j \in 1 .. Len(rs) : PrefersEvil(Bpa(rs[i])) = PrefersEvil(Bpa(rs[j]))
        BY <1>3, Zenon DEF Compatible
    <2> QED
        BY <2>1, AlikeCoalesce
<1> QED
    BY <1>1, <1>2, <1>3

(* The belief of the entry is that of all the reports.                     *)
LEMMA WholeFused ==
    ASSUME NEW rs, Reporting(rs), NEW mu, Coalesces(mu, rs)
    PROVE  FusedBelief(rs) = Value(mu, rs, 1 .. Len(rs))
<1> DEFINE k == Len(rs)
           q == [l \in 1 .. k |-> l]
<1>1. rs \in Seq(AgentReport)
    BY DEF Reporting
<1>2. \A l \in 1 .. k : q[l] = l
    OBVIOUS
<1>3. {q[l] : l \in 1 .. k} = 1 .. k
    OBVIOUS
<1> HIDE DEF q
<1>4. Picks(q, k, k) /\ \A l \in 1 .. k : rs[l] = rs[q[l]]
    BY <1>2 DEF Picks
<1>5. FusedBelief(rs) = Value(mu, rs, {q[l] : l \in 1 .. k})
    BY <1>1, <1>4, FusedVia
<1> QED
    BY <1>3, <1>5

(* AttributionAddsUp for one belief.                                       *)
Balances(rs, v) ==
    LET gains == Gains(rs)
        Of(i) == {g \in gains : g.agent = i}
        sampled == Sampled(rs, Bijection(1 .. Len(rs), 1 .. Len(rs)))
    IN  /\ Coefficient(gains, v) = IF v = FusedBelief(rs) THEN factorial[Len(rs)] ELSE 0
        /\ \A i \in 1 .. Len(rs) :
               Coefficient({g \in sampled : g.agent = i}, v) = Coefficient(Of(i), v)
        /\ \A i, j \in 1 .. Len(rs) :
               Bpa(rs[i]) = Bpa(rs[j]) => Coefficient(Of(i), v) = Coefficient(Of(j), v)

LEMMA GainsBalance ==
    ASSUME NEW rs, Reporting(rs), Len(rs) >= 2, Compatible(rs), NEW v, v # Zero
    PROVE  Balances(rs, v)
<1>0. PICK mu : Coalesces(mu, rs)
    BY CompatibleCoalesce
<1> DEFINE sampled == Sampled(rs, Bijection(1 .. Len(rs), 1 .. Len(rs)))
           Of(i) == {g \in Gains(rs) : g.agent = i}
<1>1. Coefficient(Gains(rs), v) = IF v = FusedBelief(rs) THEN factorial[Len(rs)] ELSE 0
    <2>1. FusedBelief(rs) = Value(mu, rs, 1 .. Len(rs))
        BY <1>0, WholeFused
    <2> QED
        BY <1>0, <2>1, SharesAddUp
<1>2. ASSUME NEW i \in 1 .. Len(rs)
      PROVE  Coefficient({g \in sampled : g.agent = i}, v) = Coefficient(Of(i), v)
    BY <1>0, SampledAlike
<1>3. ASSUME NEW i \in 1 .. Len(rs), NEW j \in 1 .. Len(rs), Bpa(rs[i]) = Bpa(rs[j])
      PROVE  Coefficient(Of(i), v) = Coefficient(Of(j), v)
    BY <1>0, <1>3, SharesAlike
<1> HIDE DEF Of, sampled
<1>4. (\A i \in 1 .. Len(rs) : Coefficient({g \in sampled : g.agent = i}, v) = Coefficient(Of(i), v))
      /\ \A i, j \in 1 .. Len(rs) :
             Bpa(rs[i]) = Bpa(rs[j]) => Coefficient(Of(i), v) = Coefficient(Of(j), v)
    BY <1>2, <1>3
<1> QED
    BY <1>1, <1>4, Zenon DEF Balances, Of, sampled

LEMMA Attributed == Given => AttributionAddsUp
<1> SUFFICES ASSUME Given PROVE AttributionAddsUp
    OBVIOUS
<1> DEFINE n == Len(reports)
           gains == Recorded(reports)
           beliefs == {g.after : g \in gains} \ {Zero}
           opposed == \E i, j \in 1 .. n : PrefersEvil(Bpa(reports[i])) # PrefersEvil(Bpa(reports[j]))
<1>1. Reporting(reports) /\ n \in Nat
    BY InputsAssumption, Agents DEF Given
<1>2. CASE n < 2
    <2>1. gains = {}
        BY <1>2, Zenon DEF Recorded
    <2>2. beliefs = {}
        BY <2>1
    <2> QED
        BY <2>2, Zenon DEF AttributionAddsUp
<1>3. CASE n >= 2 /\ ~(n > 2 => ~opposed)
    BY <1>3, Zenon DEF AttributionAddsUp
<1>4. CASE n >= 2 /\ (n > 2 => ~opposed)
    <2>1. gains = Gains(reports)
        <3>1. ~(n < 2)
            BY <1>1, <1>4
        <3> QED
            BY <3>1, Zenon DEF Recorded
    <2>2. Compatible(reports)
        BY <1>4, Zenon DEF Compatible
    <2>3. ASSUME NEW v \in beliefs PROVE Balances(reports, v)
        <3>1. v # Zero /\ n >= 2
            BY <1>4
        <3> HIDE DEF n, gains
        <3> QED
            BY <1>1, <2>2, <3>1, GainsBalance DEF n
    <2> QED
        BY <2>1, <2>3, Zenon DEF AttributionAddsUp, Balances
<1> QED
    BY <1>1, <1>2, <1>3, <1>4

(* The attributions of a consensus entry add up to its belief, sampling    *)
(* every order once gives the same, and agents that report the same are    *)
(* attributed the same, for any number of reports and any confidences: of  *)
(* two agents, or of more that are not opposed (shapley.py:21-65,          *)
(* events.py:102-129).                                                     *)
THEOREM AttributionsAddUp == Spec => []AttributionAddsUp
BY GivenInvariance, Attributed, PTL
=============================================================================
