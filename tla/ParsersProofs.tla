---------------------------- MODULE ParsersProofs ----------------------------
(***************************************************************************)
(* What the functions of Parsers give, for windows of any length: Kept,    *)
(* Distinct, NoisyOr and Reports, and the keys of an event.                *)
(*                                                                         *)
(* tlapm has no theory of a recursive function: LeastNumber and Upwards    *)
(* stand for induction, over a set of numbers.                             *)
(***************************************************************************)
EXTENDS Parsers, SequenceTheorems, FiniteSetTheorems, FunctionTheorems, WellFoundedInduction,
        TLAPS

-----------------------------------------------------------------------------
(* Induction.                                                              *)

(* A set of numbers that is not empty has a least one.                     *)
LEMMA LeastNumber ==
    ASSUME NEW T \in SUBSET Nat, T # {}
    PROVE  \E n \in T : \A k \in T : n <= k
<1>1. IsWellFoundedOn(OpToRel(<, Nat), Nat)
    BY NatLessThanWellFounded
<1>2. PICK n \in T : \A k \in T : <<k, n>> \notin OpToRel(<, Nat)
    BY <1>1, WFMin
<1>3. OpToRel(<, Nat) = {ss \in Nat \X Nat : ss[1] < ss[2]}
    BY DEF OpToRel
<1>4. \A k \in T : ~(k < n)
    BY <1>2, <1>3
<1> QED
    BY <1>4

(* Induction, over a set: that of the numbers for which a formula holds.   *)
LEMMA Upwards ==
    ASSUME NEW S, NEW n \in Nat, 0 \in S,
           \A i \in 1 .. n : i - 1 \in S => i \in S
    PROVE  \A i \in 0 .. n : i \in S
<1> DEFINE T == {i \in 0 .. n : i \notin S}
<1>1. SUFFICES ASSUME T # {} PROVE FALSE
    OBVIOUS
<1>2. PICK least \in T : \A k \in T : least <= k
    <2>1. T \in SUBSET Nat
        OBVIOUS
    <2> HIDE DEF T
    <2> QED
        BY <1>1, <2>1, LeastNumber
<1>3. least # 0 /\ least \in 1 .. n /\ least - 1 \in 0 .. n
    BY <1>2
<1>4. least - 1 \in S
    BY <1>2, <1>3
<1> QED
    BY <1>2, <1>3, <1>4

-----------------------------------------------------------------------------
(* Kept and Distinct.                                                      *)

(* The places in order: a place is numbered by those up to it.             *)
Rank(places, i) == Cardinality({j \in places : j <= i})

LEMMA RankIs ==
    ASSUME NEW n \in Nat, NEW places \in SUBSET (1 .. n)
    PROVE  /\ IsFiniteSet(places) /\ Cardinality(places) \in Nat
           /\ [i \in places |-> Rank(places, i)] \in Bijection(places, 1 .. Cardinality(places))
<1> DEFINE m == Cardinality(places)
           Up(i) == {j \in places : j <= i}
           r == [i \in places |-> Cardinality(Up(i))]
<1>1. IsFiniteSet(places)
  <2>1. IsFiniteSet(1 .. n)
      BY FS_Interval
  <2> QED
      BY <2>1, FS_Subset
<1>2. m \in Nat
    BY <1>1, FS_CardinalityType
<1>3. ASSUME NEW i \in places
      PROVE  IsFiniteSet(Up(i)) /\ Cardinality(Up(i)) \in 1 .. m
  <2>1. Up(i) \in SUBSET places /\ i \in Up(i)
      OBVIOUS
  <2> HIDE DEF Up
  <2>2. IsFiniteSet(Up(i)) /\ Cardinality(Up(i)) <= m
      BY <1>1, <2>1, FS_Subset
  <2>3. Cardinality(Up(i)) \in Nat /\ Cardinality(Up(i)) # 0
      BY <2>1, <2>2, FS_CardinalityType, FS_EmptySet
  <2> HIDE DEF m
  <2> QED
      BY <1>2, <2>2, <2>3
<1>4. ASSUME NEW i \in places, NEW k \in places, i < k
      PROVE  Cardinality(Up(i)) # Cardinality(Up(k))
  <2>1. i \in Int /\ k \in Int /\ \A j \in places : j \in Int
      OBVIOUS
  <2>2. Up(i) \in SUBSET Up(k) /\ k \in Up(k) /\ k \notin Up(i)
    <3>1. \A j \in places : j <= i => j <= k
        BY <1>4, <2>1
    <3>2. k <= k /\ ~(k <= i)
        BY <1>4, <2>1
    <3> QED
        BY <3>1, <3>2, Zenon
  <2> HIDE DEF Up
  <2> QED
      BY <1>3, <2>2, FS_Subset
<1>5. r \in Injection(places, 1 .. m)
  <2>1. r \in [places -> 1 .. m]
      BY <1>3
  <2>2. ASSUME NEW i \in places, NEW k \in places, r[i] = r[k]
        PROVE  i = k
    <3>1. Cardinality(Up(i)) = Cardinality(Up(k))
        BY <2>2
    <3> HIDE DEF Up
    <3> QED
        BY <1>4, <3>1
  <2> HIDE DEF r
  <2> QED
      BY <2>1, <2>2, Fun_IsInj
<1>6. IsFiniteSet(1 .. m) /\ Cardinality(1 .. m) = m
  <2> HIDE DEF m
  <2> QED
      BY <1>2, FS_Interval
<1> HIDE DEF r
<1>7. r \in Surjection(places, 1 .. m)
    BY <1>5, <1>6, FS_Injection
<1>8. r \in Bijection(places, 1 .. m)
    BY <1>5, <1>7 DEF Bijection
<1> QED
    BY <1>1, <1>2, <1>8, Zenon DEF r, Rank

(* `t` has m items: those of `s` at the places, each place once.           *)
ItemsAt(t, s, places, m) ==
    /\ m = Cardinality(places)
    /\ t \in Seq({s[i] : i \in places})
    /\ Len(t) = m /\ DOMAIN t = 1 .. m
    /\ \E f \in Bijection(1 .. m, places) : \A k \in 1 .. m : t[k] = s[f[k]]

LEMMA KeptIs ==
    ASSUME NEW n \in Nat, NEW s, NEW places \in SUBSET (1 .. n)
    PROVE  \E m \in Nat : ItemsAt(Kept(s, places), s, places, m)
<1> DEFINE m == Cardinality(places)
           r == [i \in places |-> Rank(places, i)]
           Nth(k) == CHOOSE i \in places : Rank(places, i) = k
           f == [k \in 1 .. m |-> Nth(k)]
<1>1. m \in Nat /\ r \in Bijection(places, 1 .. m)
    BY RankIs
<1>2. ASSUME NEW k \in 1 .. m
      PROVE  Nth(k) \in places /\ r[Nth(k)] = k
  <2>1. PICK i \in places : r[i] = k
    <3> HIDE DEF r, m
    <3>1. r \in Surjection(places, 1 .. m)
        BY <1>1 DEF Bijection
    <3> QED
        BY <3>1, Zenon DEF Surjection
  <2>2. Rank(places, i) = k
      BY <2>1
  <2>3. Nth(k) \in places /\ Rank(places, Nth(k)) = k
      BY <2>2
  <2> QED
      BY <2>3
<1>3. ASSUME NEW i \in places
      PROVE  r[i] \in 1 .. m /\ Nth(r[i]) = i
  <2>1. r[i] \in 1 .. m
      BY <1>1, Fun_BijectionProperties
  <2> HIDE DEF r, Nth
  <2>2. Nth(r[i]) \in places /\ r[Nth(r[i])] = r[i]
      BY <1>2, <2>1
  <2> QED
      BY <1>1, <2>1, <2>2, Fun_BijectionProperties
<1> HIDE DEF r
<1>4. f \in Bijection(1 .. m, places)
  <2>1. f \in [1 .. m -> places]
      BY <1>2
  <2>2. \A i \in places : f[r[i]] = i /\ r[i] \in 1 .. m
      BY <1>3
  <2>3. \A k \in 1 .. m : r[f[k]] = k
      BY <1>2
  <2> HIDE DEF f, m
  <2>4. \A i \in 1 .. m, k \in 1 .. m : f[i] = f[k] => i = k
      BY <2>3
  <2>5. \A i \in places : \E k \in 1 .. m : f[k] = i
      BY <2>2
  <2> QED
      BY <2>1, <2>4, <2>5, Fun_IsBij
<1>5. Kept(s, places) = [k \in 1 .. m |-> s[Nth(k)]]
    BY Zenon DEF Kept, Rank
<1>6. \A k \in 1 .. m : Kept(s, places)[k] = s[f[k]] /\ f[k] \in places
    BY <1>2, <1>5
<1>7. DOMAIN Kept(s, places) = 1 .. m
    BY <1>5
<1> HIDE DEF f, m
<1>8. /\ Kept(s, places) \in Seq({s[i] : i \in places})
      /\ Len(Kept(s, places)) = m
  <2> DEFINE R == {s[i] : i \in places}
  <2>1. \A k \in 1 .. m : Kept(s, places)[k] \in R
      BY <1>6
  <2> HIDE DEF R
  <2>2. Kept(s, places) \in [1 .. m -> R]
      BY <1>5, <1>7, <2>1 DEF m
  <2>3. Kept(s, places) \in Seq(R)
      BY <1>1, <2>2, SeqDef
  <2> QED
      BY <1>1, <1>7, <2>3, LenProperties DEF R
<1> QED
    BY <1>1, <1>4, <1>6, <1>7, <1>8 DEF m, ItemsAt

LEMMA DistinctIs ==
    ASSUME NEW n \in Nat, NEW s, DOMAIN s = 1 .. n
    PROVE  \E m \in Nat :
               /\ DOMAIN Distinct(s) = 1 .. m
               /\ \A i \in 1 .. n : \E k \in 1 .. m : Distinct(s)[k] = s[i]
               /\ \A k, l \in 1 .. m : Distinct(s)[k] = Distinct(s)[l] => k = l
               /\ \A k \in 1 .. m : \E i \in 1 .. n : Distinct(s)[k] = s[i]
<1> DEFINE P == {i \in DOMAIN s : \A j \in 1 .. i - 1 : s[j] # s[i]}
<1>1. P \in SUBSET (1 .. n)
    OBVIOUS
<1>2. ASSUME NEW i \in 1 .. n
      PROVE  \E p \in P : s[p] = s[i]
  <2> DEFINE T == {j \in 1 .. n : s[j] = s[i]}
  <2>1. T \in SUBSET Nat /\ T # {}
      OBVIOUS
  <2>2. PICK p \in T : \A k \in T : p <= k
    <3> HIDE DEF T
    <3> QED
        BY <2>1, LeastNumber
  <2>3. \A j \in 1 .. p - 1 : s[j] # s[p]
      BY <2>2
  <2> QED
      BY <2>3
<1>3. ASSUME NEW p \in P, NEW q \in P, s[p] = s[q]
      PROVE  p = q
    BY <1>3
<1> HIDE DEF P
<1>4. Distinct(s) = Kept(s, P)
    BY Zenon DEF Distinct, P
<1>5. PICK m \in Nat : ItemsAt(Kept(s, P), s, P, m)
    BY <1>1, KeptIs
<1>6. PICK f \in Bijection(1 .. m, P) : \A k \in 1 .. m : Kept(s, P)[k] = s[f[k]]
    BY <1>5 DEF ItemsAt
<1>7. /\ f \in [1 .. m -> P]
      /\ \A k, l \in 1 .. m : f[k] = f[l] => k = l
      /\ \A p \in P : \E k \in 1 .. m : f[k] = p
    BY Fun_BijectionProperties
<1>8. ASSUME NEW i \in 1 .. n
      PROVE  \E k \in 1 .. m : Kept(s, P)[k] = s[i]
    <2>1. PICK p \in P : s[p] = s[i]
        BY <1>2
    <2>2. PICK k \in 1 .. m : f[k] = p
        BY <1>7
    <2>3. Kept(s, P)[k] = s[i]
        BY <1>6, <2>1, <2>2
    <2> QED
        BY <2>3
<1>9. ASSUME NEW k \in 1 .. m, NEW l \in 1 .. m, Kept(s, P)[k] = Kept(s, P)[l]
      PROVE  k = l
  <2>1. f[k] \in P /\ f[l] \in P /\ s[f[k]] = s[f[l]]
      BY <1>6, <1>7, <1>9
  <2> QED
      BY <1>3, <1>7, <2>1
<1>10. ASSUME NEW k \in 1 .. m
       PROVE  \E i \in 1 .. n : Kept(s, P)[k] = s[i]
    BY <1>1, <1>6, <1>7
<1> QED
    BY <1>4, <1>5, <1>8, <1>9, <1>10 DEF ItemsAt

(* The items at some places, as a sequence and as a set.                   *)
LEMMA KeptItems ==
    ASSUME NEW n \in Nat, NEW s, NEW places \in SUBSET (1 .. n), NEW T,
           \A i \in places : s[i] \in T
    PROVE  /\ Kept(s, places) \in Seq(T)
           /\ Range(Kept(s, places)) = {s[i] : i \in places}
<1> DEFINE t == Kept(s, places)
<1>1. PICK m \in Nat : ItemsAt(t, s, places, m)
    BY KeptIs
<1> HIDE DEF t
<1>2. PICK f \in Bijection(1 .. m, places) : \A k \in 1 .. m : t[k] = s[f[k]]
    BY <1>1 DEF ItemsAt
<1>3. /\ \A k \in 1 .. m : f[k] \in places
      /\ \A p \in places : \E k \in 1 .. m : f[k] = p
    BY Fun_BijectionProperties
<1>4. DOMAIN t = 1 .. m /\ Len(t) = m /\ t \in Seq({s[i] : i \in places})
    BY <1>1 DEF ItemsAt
<1>5. t = [k \in 1 .. m |-> t[k]]
    BY <1>4, SeqDef
<1>6. t \in Seq(T)
    <2>1. \A k \in 1 .. m : t[k] \in T
        BY <1>2, <1>3
    <2>2. t \in [1 .. m -> T]
        BY <1>5, <2>1
    <2> QED
        BY <1>1, <2>2, SeqDef
<1>7. Range(t) = {s[i] : i \in places}
    <2> DEFINE X == {s[i] : i \in places}
    <2>1. \A k \in DOMAIN t : t[k] \in X
        BY <1>2, <1>3, <1>4
    <2>2. ASSUME NEW i \in places PROVE s[i] \in Range(t)
        <3>1. PICK k \in 1 .. m : f[k] = i
            BY <1>3
        <3> QED
            BY <1>2, <1>4, <3>1 DEF Range
    <2>3. Range(t) \subseteq X
        <3> HIDE DEF X
        <3> QED
            BY <2>1 DEF Range
    <2> QED
        BY <2>2, <2>3
<1> QED
    BY <1>6, <1>7, Zenon DEF t

(* The items of a sequence, each once: as many as there are.               *)
LEMMA DistinctItems ==
    ASSUME NEW T, NEW s \in Seq(T)
    PROVE  /\ Distinct(s) \in Seq(T)
           /\ Range(Distinct(s)) = Range(s)
           /\ Len(Distinct(s)) = Cardinality(Range(s))
<1> DEFINE P == {i \in DOMAIN s : \A j \in 1 .. i - 1 : s[j] # s[i]}
           t == Distinct(s)
<1>1. Len(s) \in Nat /\ DOMAIN s = 1 .. Len(s)
    BY LenProperties
<1>2. PICK m \in Nat :
          /\ DOMAIN t = 1 .. m
          /\ \A i \in 1 .. Len(s) : \E k \in 1 .. m : t[k] = s[i]
          /\ \A k, l \in 1 .. m : t[k] = t[l] => k = l
    <2> HIDE DEF t
    <2> QED
        BY <1>1, DistinctIs DEF t
<1>3. t = Kept(s, P)
    BY Zenon DEF Distinct
<1>4. P \in SUBSET (1 .. Len(s)) /\ \A i \in P : s[i] \in T
    BY <1>1
<1>5. t \in Seq(T) /\ Range(t) = {s[i] : i \in P}
    <2> HIDE DEF P, t
    <2> QED
        BY <1>1, <1>3, <1>4, KeptItems
<1>6. Range(t) \subseteq Range(s)
    BY <1>5 DEF Range
<1> HIDE DEF t, P
<1>7. Range(s) \subseteq Range(t)
    BY <1>1, <1>2 DEF Range
<1>8. Len(t) = m
    BY <1>2, <1>5, LenProperties
<1>9. t \in Bijection(1 .. m, Range(t))
    <2>1. t \in [1 .. m -> Range(t)] /\ \A x \in Range(t) : \E k \in 1 .. m : t[k] = x
        BY <1>2, <1>5 DEF Range
    <2> QED
        BY <1>2, <2>1, Fun_IsBij
<1>10. Cardinality(Range(t)) = m
    BY <1>9, FS_CountingElements DEF ExistsBijection
<1> QED
    BY <1>5, <1>6, <1>7, <1>8, <1>10 DEF t
-----------------------------------------------------------------------------
(* Confidences.                                                            *)

(* Partial products exist, and are natural numbers.                        *)
Partial(p, n, g) == p = [i \in 0 .. n |-> IF i = 0 THEN 1 ELSE p[i - 1] * g[i]]

LEMMA PartialIs ==
    ASSUME NEW n \in Nat, NEW g \in [1 .. n -> Nat]
    PROVE  /\ \E p : Partial(p, n, g)
           /\ \A p : Partial(p, n, g) =>
                  /\ p \in [0 .. n -> Nat] /\ p[0] = 1
                  /\ \A i \in 1 .. n : p[i] = p[i - 1] * g[i]
<1> DEFINE Factored(p, k) == p[0] = 1 /\ \A i \in 1 .. k : p[i] = p[i - 1] * g[i]
           S == {k \in 0 .. n : \E p \in [0 .. k -> Nat] : Factored(p, k)}
<1>1. 0 \in S
    <2> DEFINE p == [i \in 0 .. 0 |-> 1]
    <2>1. p \in [0 .. 0 -> Nat] /\ Factored(p, 0)
        OBVIOUS
    <2> HIDE DEF p, Factored
    <2> QED
        BY <2>1
<1>2. ASSUME NEW k \in 1 .. n, k - 1 \in S
      PROVE  k \in S
    <2>1. PICK p \in [0 .. k - 1 -> Nat] : Factored(p, k - 1)
        BY <1>2
    <2> DEFINE q == [i \in 0 .. k |-> IF i = k THEN p[k - 1] * g[k] ELSE p[i]]
    <2>2. q \in [0 .. k -> Nat]
        OBVIOUS
    <2>3. Factored(q, k)
        BY <2>1
    <2> HIDE DEF q, Factored
    <2> QED
        BY <2>2, <2>3
<1>3. n \in S
    <2> HIDE DEF S
    <2>1. \A k \in 0 .. n : k \in S
        BY <1>1, <1>2, Upwards
    <2> QED
        BY <2>1
<1>4. PICK p \in [0 .. n -> Nat] : Factored(p, n)
    BY <1>3
<1>5. Partial(p, n, g)
    BY <1>4 DEF Partial
<1>6. ASSUME NEW w, Partial(w, n, g)
      PROVE  /\ w \in [0 .. n -> Nat] /\ w[0] = 1
             /\ \A i \in 1 .. n : w[i] = w[i - 1] * g[i]
    <2> DEFINE W == {k \in 0 .. n : w[k] \in Nat}
    <2>1. w[0] = 1 /\ \A i \in 1 .. n : w[i] = w[i - 1] * g[i]
        BY <1>6 DEF Partial
    <2>2. 0 \in W
        BY <2>1
    <2>3. ASSUME NEW k \in 1 .. n, k - 1 \in W
          PROVE  k \in W
        BY <2>1, <2>3
    <2>4. \A k \in 0 .. n : k \in W
        <3> HIDE DEF W
        <3> QED
            BY <2>2, <2>3, Upwards
    <2>5. w \in [0 .. n -> Nat]
        BY <1>6, <2>4 DEF Partial
    <2> QED
        BY <2>1, <2>5
<1> HIDE DEF Factored
<1> QED
    BY <1>5, <1>6

(* Independent signals of one agent give a confidence between none and     *)
(* certainty.                                                              *)
LEMMA NoisyOrIs ==
    ASSUME NEW n \in Nat, NEW c \in [1 .. n -> Int]
    PROVE  NoisyOr(c).n \in 0 .. NoisyOr(c).of /\ NoisyOr(c).of \in Nat \ {0}
<1> DEFINE g == [i \in 1 .. n |-> 20 - Clamped(c[i])]
           h == [i \in 1 .. n |-> 20]
           miss == CHOOSE p : p = [i \in 0 .. n |->
                       IF i = 0 THEN 1 ELSE p[i - 1] * (20 - Clamped(c[i]))]
           all == CHOOSE p : p = [i \in 0 .. n |-> IF i = 0 THEN 1 ELSE p[i - 1] * 20]
<1>1. Len(c) = n
    OBVIOUS
<1>2. NoisyOr(c) = [n |-> all[n] - miss[n], of |-> all[n]]
    BY <1>1, Zenon DEF NoisyOr
<1>3. \A i \in 1 .. n : 20 - Clamped(c[i]) \in 0 .. 20
    <2>1. \A x \in Int : 20 - Clamped(x) \in 0 .. 20
        BY DEF Clamped
    <2> QED
        BY <2>1
<1>4. g \in [1 .. n -> Nat] /\ h \in [1 .. n -> Nat]
    <2>1. \A x \in Int : 20 - Clamped(x) \in Nat
        BY DEF Clamped
    <2> QED
        BY <2>1
<1>5. Partial(miss, n, g)
    <2>1. PICK p : Partial(p, n, g)
        <3> HIDE DEF g
        <3> QED
            BY <1>4, PartialIs
    <2>2. \A i \in 1 .. n : g[i] = 20 - Clamped(c[i])
        BY Zenon
    <2> HIDE DEF g
    <2>3. \A i \in 0 .. n : i = 0 \/ i \in 1 .. n
        OBVIOUS
    <2>4. ASSUME NEW w
          PROVE  [i \in 0 .. n |-> IF i = 0 THEN 1 ELSE w[i - 1] * g[i]]
                 = [i \in 0 .. n |-> IF i = 0 THEN 1 ELSE w[i - 1] * (20 - Clamped(c[i]))]
        BY <2>2, <2>3, Zenon
    <2>5. \A w : Partial(w, n, g) <=> w = [i \in 0 .. n |->
                       IF i = 0 THEN 1 ELSE w[i - 1] * (20 - Clamped(c[i]))]
        BY <2>4, Zenon DEF Partial
    <2> QED
        BY <2>1, <2>5, Zenon
<1>6. Partial(all, n, h)
    <2>1. PICK p : Partial(p, n, h)
        <3> HIDE DEF h
        <3> QED
            BY <1>4, PartialIs
    <2>2. \A w : Partial(w, n, h) <=> w = [i \in 0 .. n |-> IF i = 0 THEN 1 ELSE w[i - 1] * 20]
        BY DEF Partial
    <2> HIDE DEF h
    <2> QED
        BY <2>1, <2>2
<1> HIDE DEF miss, all, g, h
<1>7. /\ miss \in [0 .. n -> Nat] /\ miss[0] = 1
      /\ \A i \in 1 .. n : miss[i] = miss[i - 1] * g[i]
      /\ all \in [0 .. n -> Nat] /\ all[0] = 1
      /\ \A i \in 1 .. n : all[i] = all[i - 1] * h[i]
    BY <1>4, <1>5, <1>6, PartialIs
<1> DEFINE S == {i \in 0 .. n : miss[i] <= all[i] /\ all[i] # 0}
<1>8. 0 \in S
    BY <1>7
<1>9. ASSUME NEW i \in 1 .. n, i - 1 \in S
      PROVE  i \in S
    <2>1. /\ miss[i - 1] \in Nat /\ all[i - 1] \in Nat /\ miss[i - 1] <= all[i - 1]
          /\ all[i - 1] # 0
        BY <1>7, <1>9
    <2>2. g[i] \in 0 .. 20 /\ h[i] = 20
        BY <1>3 DEF g, h
    <2>3. ASSUME NEW a \in Nat, NEW b \in Nat, a <= b, NEW f \in 0 .. 20
          PROVE  a * f <= b * 20
        <3>1. PICK d \in Nat : b = a + d
            BY <2>3, b - a \in Nat
        <3>2. PICK e \in Nat : 20 = f + e
            BY 20 - f \in Nat
        <3>3. b * 20 = a * f + a * e + d * 20
            BY <3>1, <3>2
        <3>4. a * e \in Nat /\ d * 20 \in Nat /\ a * f \in Nat
            OBVIOUS
        <3> QED
            BY <3>3, <3>4
    <2>4. miss[i - 1] * g[i] <= all[i - 1] * 20
        BY <2>1, <2>2, <2>3
    <2>5. miss[i] <= all[i]
        BY <1>7, <2>2, <2>4
    <2>6. all[i] = all[i - 1] * 20
        BY <1>7, <2>2
    <2>7. all[i] # 0
        BY <2>1, <2>6
    <2> QED
        BY <2>5, <2>7
<1>10. n \in S
    <2> HIDE DEF S
    <2>1. \A k \in 0 .. n : k \in S
        BY <1>8, <1>9, Upwards
    <2> QED
        BY <2>1
<1>11. miss[n] \in Nat /\ all[n] \in Nat /\ miss[n] <= all[n] /\ all[n] # 0
    BY <1>7, <1>10
<1>12. NoisyOr(c).n = all[n] - miss[n] /\ NoisyOr(c).of = all[n]
    BY <1>2
<1> QED
    BY <1>11, <1>12

-----------------------------------------------------------------------------
(* The reports of a window.                                                *)

(* The events of an agent, each once, in a window whose events all have    *)
(* the key.                                                                *)
PlacesBy(evs, a) == {i \in DOMAIN evs : AgentOf(evs[i]) = a}

AreBy(by, evs, a, l) ==
    /\ Len(by) = l /\ DOMAIN by = 1 .. l
    /\ l = Cardinality({i \in DOMAIN evs : AgentOf(evs[i]) = a})
    /\ \A k \in 1 .. l : \E i \in DOMAIN evs : by[k] = evs[i]

LEMMA EventsBy ==
    ASSUME NEW n \in Nat, NEW evs, DOMAIN evs = 1 .. n, NEW a,
           NEW mine, ItemsAt(mine, evs, 1 .. n, n)
    PROVE  \E l \in Nat : AreBy(Kept(mine, PlacesBy(mine, a)), evs, a, l)
<1> DEFINE M == {i \in DOMAIN mine : AgentOf(mine[i]) = a}
           E == {i \in DOMAIN evs : AgentOf(evs[i]) = a}
           by == Kept(mine, M)
<1>1. PICK f \in Bijection(1 .. n, 1 .. n) : \A k \in 1 .. n : mine[k] = evs[f[k]]
    BY DEF ItemsAt
<1>2. /\ f \in [1 .. n -> 1 .. n]
      /\ \A k, l \in 1 .. n : f[k] = f[l] => k = l
      /\ \A i \in 1 .. n : \E k \in 1 .. n : f[k] = i
    <2>1. f \in Injection(1 .. n, 1 .. n) /\ f \in Surjection(1 .. n, 1 .. n)
        BY DEF Bijection
    <2>2. f \in [1 .. n -> 1 .. n]
        BY <2>1, Zenon DEF Injection
    <2>3. ASSUME NEW k \in 1 .. n, NEW l \in 1 .. n, f[k] = f[l]
          PROVE  k = l
        BY <2>1, <2>3, Fun_InjectionProperties
    <2>4. \A i \in 1 .. n : \E k \in 1 .. n : f[k] = i
        BY <2>1, Zenon DEF Surjection
    <2> QED
        BY <2>2, <2>3, <2>4
<1>3. DOMAIN mine = 1 .. n
    BY DEF ItemsAt
<1>4. M \in SUBSET (1 .. n) /\ E \in SUBSET (1 .. n)
    BY <1>3
<1>5. IsFiniteSet(1 .. n)
    BY FS_Interval
<1> DEFINE g == [i \in M |-> f[i]]
<1>6. \A i \in 1 .. n : i \in M <=> f[i] \in E
    BY <1>1, <1>2, <1>3
<1> HIDE DEF M, E
<1>7. g \in Bijection(M, E)
    <2>1. g \in [M -> E]
        BY <1>2, <1>4, <1>6
    <2>2. \A k, l \in M : g[k] = g[l] => k = l
        BY <1>2, <1>4
    <2>3. \A i \in E : \E k \in M : g[k] = i
        BY <1>2, <1>4, <1>6
    <2> HIDE DEF g
    <2> QED
        BY <2>1, <2>2, <2>3, Fun_IsBij
<1>8. Cardinality(E) = Cardinality(M)
    <2>1. IsFiniteSet(M)
        BY <1>4, <1>5, FS_Subset
    <2>2. ExistsBijection(M, E)
        BY <1>7 DEF ExistsBijection
    <2> QED
        BY <2>1, <2>2, FS_Bijection
<1>9. PICK l \in Nat : ItemsAt(by, mine, M, l)
    BY <1>4, KeptIs
<1>10. ASSUME NEW k \in 1 .. l
       PROVE  \E i \in 1 .. n : by[k] = evs[i]
    <2>1. PICK h \in Bijection(1 .. l, M) : \A j \in 1 .. l : by[j] = mine[h[j]]
        BY <1>9 DEF ItemsAt
    <2>2. h[k] \in M /\ by[k] = mine[h[k]]
        BY <2>1, Fun_BijectionProperties
    <2>3. h[k] \in 1 .. n /\ f[h[k]] \in 1 .. n
        BY <1>2, <1>4, <2>2
    <2> QED
        BY <1>1, <2>2, <2>3
<1>11. Len(by) = l /\ DOMAIN by = 1 .. l /\ l = Cardinality(E)
    BY <1>8, <1>9 DEF ItemsAt
<1> HIDE DEF by
<1>12. AreBy(by, evs, a, l)
    BY <1>10, <1>11 DEF AreBy, E
<1> QED
    BY <1>12 DEF by, M, PlacesBy

LEMMA ReportsAre ==
    ASSUME NEW n \in Nat, NEW evs, DOMAIN evs = 1 .. n, NEW key,
           \A i \in 1 .. n : key \in AggKeys(evs[i]) /\ evs[i].confidence \in Int
    PROVE  LET reports == Reports(evs, key) IN
           /\ \A i \in 1 .. n :
                  Cardinality({r \in DOMAIN reports : reports[r].agent = AgentOf(evs[i])}) = 1
           /\ \A r \in DOMAIN reports :
                  reports[r].events = Cardinality({i \in DOMAIN evs :
                                          AgentOf(evs[i]) = reports[r].agent})
           /\ \A r \in DOMAIN reports :
                  /\ reports[r].confidence.n \in 0 .. reports[r].confidence.of
                  /\ reports[r].confidence.of \in Nat \ {0}
                  /\ reports[r].sensor = reports[r].agent[2]
                  /\ reports[r].ignorance \in {1, 3}
                  /\ \E i \in 1 .. n : reports[r].agent = AgentOf(evs[i])
           /\ \A r, s \in DOMAIN reports : reports[r].agent = reports[s].agent => r = s
           /\ \E q \in Nat : DOMAIN reports = 1 .. q
<1> DEFINE mine == Kept(evs, {i \in DOMAIN evs : key \in AggKeys(evs[i])})
           names == [i \in DOMAIN mine |-> AgentOf(mine[i])]
           agents == Distinct(names)
           By(a) == Kept(mine, PlacesBy(mine, a))
           reports == Reports(evs, key)
<1>1. reports = [r \in DOMAIN agents |-> Report(agents[r], By(agents[r]))]
    BY Zenon DEF Reports, PlacesBy
<1>2. ItemsAt(mine, evs, 1 .. n, n)
    <2>1. {i \in DOMAIN evs : key \in AggKeys(evs[i])} = 1 .. n
        OBVIOUS
    <2>2. PICK l \in Nat : ItemsAt(Kept(evs, 1 .. n), evs, 1 .. n, l)
        BY KeptIs, (1 .. n) \in SUBSET (1 .. n)
    <2>3. l = n
        BY <2>2, FS_Interval DEF ItemsAt
    <2> QED
        BY <2>1, <2>2, <2>3
<1>3. DOMAIN mine = 1 .. n
    BY <1>2 DEF ItemsAt
<1>4. PICK f \in Bijection(1 .. n, 1 .. n) : \A k \in 1 .. n : mine[k] = evs[f[k]]
    BY <1>2 DEF ItemsAt
<1>5. \A i \in 1 .. n : \E k \in 1 .. n : f[k] = i
    BY Zenon DEF Bijection, Surjection
<1>6. ASSUME NEW i \in 1 .. n
      PROVE  \E k \in 1 .. n : names[k] = AgentOf(evs[i])
    <2>1. PICK k \in 1 .. n : f[k] = i
        BY <1>5
    <2>2. names[k] = AgentOf(mine[k]) /\ mine[k] = evs[i]
        BY <1>3, <1>4, <2>1
    <2> QED
        BY <2>2
<1>7. DOMAIN names = 1 .. n
    BY <1>3
<1>8. ASSUME NEW k \in 1 .. n
       PROVE  \E i \in 1 .. n : names[k] = AgentOf(evs[i])
    <2>1. f[k] \in 1 .. n
        <3>1. f \in [1 .. n -> 1 .. n]
            BY Zenon DEF Bijection, Injection
        <3> QED
            BY <3>1
    <2>2. names[k] = AgentOf(mine[k])
        BY <1>3
    <2>3. mine[k] = evs[f[k]]
        BY <1>4
    <2> QED
        BY <2>1, <2>2, <2>3
<1> HIDE DEF mine
<1> DEFINE Once(q) == /\ DOMAIN agents = 1 .. q
                      /\ \A i \in 1 .. n : \E k \in 1 .. q : agents[k] = names[i]
                      /\ \A k, l \in 1 .. q : agents[k] = agents[l] => k = l
                      /\ \A k \in 1 .. q : \E i \in 1 .. n : agents[k] = names[i]
<1>9. PICK q \in Nat : Once(q)
    <2> HIDE DEF names
    <2> QED
        BY <1>7, DistinctIs
<1> HIDE DEF names, agents, reports
<1>10. ASSUME NEW r \in 1 .. q
      PROVE  /\ r \in DOMAIN reports /\ reports[r].agent = agents[r]
             /\ reports[r].events = Len(By(agents[r]))
             /\ reports[r].sensor = agents[r][2] /\ reports[r].ignorance \in {1, 3}
             /\ reports[r].confidence =
                    NoisyOr([i \in DOMAIN By(agents[r]) |-> By(agents[r])[i].confidence])
    <2>1. reports[r] = Report(agents[r], By(agents[r])) /\ r \in DOMAIN reports
        BY <1>1, <1>9
    <2> HIDE DEF By
    <2> QED
        BY <2>1 DEF Report
<1>11. DOMAIN reports = 1 .. q
    BY <1>1, <1>9
<1>12. ASSUME NEW i \in 1 .. n
       PROVE  Cardinality({r \in DOMAIN reports : reports[r].agent = AgentOf(evs[i])}) = 1
    <2>1. PICK k \in 1 .. q : agents[k] = AgentOf(evs[i])
        <3>1. PICK l \in 1 .. n : names[l] = AgentOf(evs[i])
            BY <1>6
        <3>2. PICK k \in 1 .. q : agents[k] = names[l]
            BY <1>9
        <3> QED
            BY <3>1, <3>2
    <2>2. ASSUME NEW r \in 1 .. q
          PROVE  reports[r].agent = AgentOf(evs[i]) <=> r = k
        <3>1. reports[r].agent = agents[r]
            BY <1>10
        <3>2. agents[r] = agents[k] => r = k
            BY <1>9
        <3> QED
            BY <2>1, <3>1, <3>2
    <2>3. {r \in DOMAIN reports : reports[r].agent = AgentOf(evs[i])} = {k}
        BY <1>11, <2>2
    <2> QED
        BY <2>3, FS_Singleton
<1>13. ASSUME NEW r \in 1 .. q
       PROVE  /\ reports[r].events = Cardinality({i \in DOMAIN evs :
                                         AgentOf(evs[i]) = reports[r].agent})
              /\ reports[r].confidence.n \in 0 .. reports[r].confidence.of
             /\ reports[r].confidence.of \in Nat \ {0}
    <2> DEFINE by == By(agents[r])
    <2>1. PICK l \in Nat : AreBy(by, evs, agents[r], l)
        BY <1>2, EventsBy
    <2> DEFINE c == [i \in DOMAIN by |-> by[i].confidence]
    <2>2. c \in [1 .. l -> Int]
        <3> HIDE DEF By
        <3>1. \A k \in 1 .. l : by[k].confidence \in Int
            BY <2>1 DEF AreBy
        <3> QED
            BY <2>1, <3>1 DEF AreBy
    <2>3. NoisyOr(c).n \in 0 .. NoisyOr(c).of /\ NoisyOr(c).of \in Nat \ {0}
        <3> HIDE DEF c
        <3> QED
            BY <2>2, NoisyOrIs
    <2> HIDE DEF By
    <2> QED
        BY <1>10, <2>1, <2>3 DEF AreBy
<1>14. ASSUME NEW r \in 1 .. q
       PROVE  /\ reports[r].sensor = reports[r].agent[2] /\ reports[r].ignorance \in {1, 3}
              /\ \E i \in 1 .. n : reports[r].agent = AgentOf(evs[i])
    <2>1. PICK l \in 1 .. n : agents[r] = names[l]
        BY <1>9
    <2>2. PICK i \in 1 .. n : names[l] = AgentOf(evs[i])
        BY <1>8
    <2>3. reports[r].agent = AgentOf(evs[i])
        BY <1>10, <2>1, <2>2
    <2> QED
        BY <1>10, <2>3
<1>15. ASSUME NEW r \in 1 .. q, NEW s \in 1 .. q, reports[r].agent = reports[s].agent
       PROVE  r = s
    <2>1. agents[r] = agents[s]
        BY <1>10, <1>15
    <2> QED
        BY <1>9, <2>1
<1> QED
    BY <1>11, <1>12, <1>13, <1>14, <1>15 DEF reports

-----------------------------------------------------------------------------
(* Parsed events.                                                          *)

(* A raw event has one parsed event at most.                               *)
LEMMA OneParsed ==
    ASSUME NEW raw, NEW x \in Parse(raw), NEW y \in Parse(raw)
    PROVE  x = y
<1>1. \A u, v \in ParseFlat(raw) : u = v
    BY DEF ParseFlat
<1>2. \A u, v \in ParseZeekConn(raw) : u = v
    BY DEF ParseZeekConn
<1>3. \A u, v \in ParseZeekDns(raw) : u = v
    BY DEF ParseZeekDns
<1>4. \A u, v \in ParseZeekSsl(raw) : u = v
    BY DEF ParseZeekSsl
<1>5. \A u, v \in ParseSuricataAlert(raw) : u = v
    BY DEF ParseSuricataAlert
<1>6. \A u, v \in ParseSysmon(raw) : u = v
    BY DEF ParseSysmon
<1>7. \A u, v \in ParseYara(raw) : u = v
    BY DEF ParseYara
<1>8. \A u, v \in ParseEdr(raw) : u = v
    BY DEF ParseEdr
<1> QED
    BY <1>1, <1>2, <1>3, <1>4, <1>5, <1>6, <1>7, <1>8 DEF Parse

(* The windows to which the dataflow sends an event are among those in     *)
(* which the evaluator takes it into account.                              *)
LEMMA KeyAggregated ==
    ASSUME NEW ev, NEW k \in Keyer(ev)
    PROVE  k \in AggKeys(ev)
BY DEF Keyer, AggKeys, Key

-----------------------------------------------------------------------------
(* The hashes in the keys.                                                 *)

Lower(v) == v = [hash |-> v.hash, form |-> "lower"]

LEMMA ShaIsLower ==
    ASSUME NEW v, v # None => v = [hash |-> v.hash, form |-> v.form], Sha(v) # None
    PROVE  Lower(Sha(v))
<1>1. v = [hash |-> v.hash, form |-> v.form] /\ Sha(v) = [v EXCEPT !.form = "lower"]
    BY DEF Sha
<1> QED
    BY <1>1 DEF Lower

(* A hash in a parsed event is in lower case.                              *)
LEMMA ParsedHash ==
    ASSUME NEW raw, Written(raw), NEW ev \in Parse(raw)
    PROVE  /\ ev.sha256 # None => Lower(ev.sha256)
           /\ ev.indicator # None => ev.indicator = Get(raw.body, "indicator_key")
<1> DEFINE Good(e) == /\ e.sha256 = None \/ \E v \in HashesOf(raw) : e.sha256 = Sha(v)
                      /\ e.indicator # None => e.indicator = Get(raw.body, "indicator_key")
<1> SUFFICES Good(ev)
  <2>1. ASSUME NEW v \in HashesOf(raw), Sha(v) # None
        PROVE  Lower(Sha(v))
      BY <2>1, ShaIsLower DEF Written
  <2> QED
      BY <2>1
<1>1. ASSUME NEW b \in {raw.body} \cup
                 ({Get(raw.body, "event_data"), Get(raw.body, "indicators")} \ {None, Junk}),
             NEW f \in {"Hashes", "sha256"}
      PROVE  Get(b, f) \in HashesOf(raw)
    BY DEF HashesOf
<1>2. Parsed(raw).sha256 = None /\ Parsed(raw).indicator = None
    BY DEF Parsed
<1>3. \A f \in {"ip", "domain", "sha256", "pid", "indicator", "techniques", "confidence"} :
          f \in DOMAIN Parsed(raw)
    BY DEF Parsed
<1>4. CASE ev \in ParseFlat(raw) /\ Get(raw.body, "indicator_key") # None
  <2> DEFINE uri == Get(raw.body, "indicator_key")
             found == IndicatorParts(Parsed(raw), uri)
  <2>1. uri = raw.body["indicator_key"]
      BY <1>4 DEF Get
  <2>2. PICK ts, c : ev = [found EXCEPT !.indicator = uri, !.techniques = ts, !.confidence = c]
      BY <1>4, <2>1 DEF ParseFlat
  <2>3. uri.scheme \in {"hash", "sha256"} => uri.value \in HashesOf(raw)
      BY <1>4 DEF HashesOf
  <2> HIDE DEF uri
  <2>4. /\ "indicator" \in DOMAIN found
        /\ \/ found.sha256 = None
           \/ uri.scheme \in {"hash", "sha256"} /\ found.sha256 = Sha(uri.value)
      BY <1>2, <1>3 DEF IndicatorParts
  <2> HIDE DEF found
  <2>5. ev.indicator = uri /\ ev.sha256 = found.sha256
      BY <2>2, <2>4
  <2> QED
      BY <2>3, <2>4, <2>5 DEF uri
<1>5. CASE \/ ev \in ParseZeekConn(raw) \/ ev \in ParseZeekDns(raw) \/ ev \in ParseZeekSsl(raw)
           \/ ev \in ParseSuricataAlert(raw)
  <2>1. PICK x, c : \/ ev = [Parsed(raw) EXCEPT !.ip = x, !.confidence = c]
                    \/ ev = [Parsed(raw) EXCEPT !.domain = x, !.confidence = c]
      BY <1>5 DEF ParseZeekConn, ParseZeekDns, ParseZeekSsl, ParseSuricataAlert
  <2>2. ev.sha256 = None /\ ev.indicator = None
      BY <1>2, <1>3, <2>1
  <2> QED
      BY <2>2
<1>6. CASE ev \in ParseSysmon(raw)
  <2> DEFINE data == IF Get(raw.body, "event_data") \in {None, Junk} THEN raw.body
                     ELSE raw.body["event_data"]
             v == Get(data, "Hashes")
             event(x) == [Parsed(raw) EXCEPT !.pid = x]
  <2>1. data \in {raw.body} \cup ({Get(raw.body, "event_data")} \ {None, Junk})
      BY DEF Get
  <2>2. v \in HashesOf(raw)
      BY <1>1, <2>1, SMTT(30)
  <2>3. \E x, y, c : \/ ev = [event(x) EXCEPT !.confidence = c, !.sha256 = Sha(v)]
                     \/ ev = [event(x) EXCEPT !.confidence = c]
                     \/ ev = [event(x) EXCEPT !.confidence = c, !.ip = y]
      BY <1>6 DEF ParseSysmon
  <2> HIDE DEF data, v
  <2> QED
      BY <1>2, <1>3, <2>2, <2>3
<1>7. CASE ev \in ParseYara(raw)
  <2>1. Get(raw.body, "sha256") \in HashesOf(raw)
      BY <1>1
  <2>2. \E c : ev = [Parsed(raw) EXCEPT !.sha256 = Sha(Get(raw.body, "sha256")),
                                        !.confidence = c]
      BY <1>7 DEF ParseYara
  <2> QED
      BY <1>2, <1>3, <2>1, <2>2
<1>8. CASE ev \in ParseEdr(raw)
  <2> DEFINE inds == Or(Get(raw.body, "indicators"), <<>>)
             v == Get(inds, "sha256")
  <2>1. Sha(v) = None \/ v \in HashesOf(raw)
    <3>1. CASE Get(raw.body, "indicators") = None
        BY <3>1 DEF Or, Get, Sha
    <3>2. CASE Get(raw.body, "indicators") # None
        BY <1>1, <1>8, <3>2 DEF Or, ParseEdr
    <3> QED
        BY <3>1, <3>2
  <2>2. ev = [Parsed(raw) EXCEPT
                 !.ip = Get(inds, "ip"), !.domain = Get(inds, "domain"),
                 !.sha256 = Sha(v), !.pid = Get(inds, "pid"),
                 !.techniques = Or(Get(raw.body, "techniques"), <<>>),
                 !.confidence = Clamped(Or(Get(raw.body, "score"), 4))]
      BY <1>8 DEF ParseEdr
  <2> HIDE DEF v, inds
  <2> QED
      BY <1>2, <1>3, <2>1, <2>2
<1> QED
  <2> HIDE DEF Good
  <2> QED
      BY <1>4, <1>5, <1>6, <1>7, <1>8 DEF Parse

(* The hash in a key is in lower case too.                                 *)
LEMMA AggregatedHash ==
    ASSUME NEW raw, Written(raw), NEW ev \in Parse(raw), NEW k \in AggKeys(ev), k[1] = "hash"
    PROVE  k = <<"hash", [hash |-> k[2].hash, form |-> "lower"]>> /\ k[2] # None
<1> DEFINE direct == IndicatorTuple(ev.indicator)
           uri == ev.indicator
<1>2. CASE direct # None
  <2>1. k = direct
      BY <1>2 DEF AggKeys
  <2>2. /\ uri # None /\ uri.scheme \in {"hash", "sha256"}
        /\ Sha(uri.value) # None /\ k = <<"hash", Sha(uri.value)>>
      BY <1>2, <2>1 DEF IndicatorTuple, Key
  <2>3. uri.value \in HashesOf(raw)
      BY <2>2, ParsedHash DEF HashesOf
  <2>4. Lower(Sha(uri.value))
      BY <2>2, <2>3, ShaIsLower DEF Written
  <2> QED
      BY <2>2, <2>4 DEF Lower
<1>3. CASE direct = None
  <2>1. k = <<"hash", ev.sha256>> /\ ev.sha256 # None
      BY <1>3 DEF AggKeys, Key
  <2>2. Lower(ev.sha256)
      BY <2>1, ParsedHash
  <2> QED
      BY <2>1, <2>2 DEF Lower
<1> QED
    BY <1>2, <1>3
=============================================================================
