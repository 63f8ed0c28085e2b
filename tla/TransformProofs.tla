-------------------------- MODULE TransformProofs --------------------------
(***************************************************************************)
(* Proofs that every step of a pipeline does what TransformReference says, *)
(* and that TransInv holds in every reachable state of Transforms, for any *)
(* tensor, any types whose ends and numbers are in order (MaxOfAssumption, *)
(* HeldAssumption), and pipelines of any steps and length.                 *)
(*                                                                         *)
(* First the numbers: what rounding to a float type gives and that it      *)
(* keeps the order.  Then the steps: for any number, add, scale, clamp and *)
(* standardize refuse what the reference does not define, and give its     *)
(* value otherwise.  Then the pipelines.                                   *)
(*                                                                         *)
(* The reference rounds where the code's floats do, and for an i64 tensor  *)
(* takes the float 2^63 for 2^63 - 1 (Taken) as the code does.             *)
(***************************************************************************)
EXTENDS TransformReference, TLAPS, FiniteSetTheorems, WellFoundedInduction

\* The types' ends are whole numbers around zero.
LEMMA TypeEnds ==
  ASSUME NEW t \in Types
  PROVE  /\ MaxOf[t] \in Nat /\ MinOf(t) \in Int /\ MinOf(t) <= 0
         /\ MaxOf[t] % 2 = 0 /\ MinOf(t) % 2 = 0
         /\ t \notin IntTypes => MinOf(t) = -MaxOf[t]
         /\ MinOf(t) <= MaxOf[t]
<1>1. MaxOf[t] \in Nat /\ MaxOf[t] % 2 = 0
  BY MaxOfAssumption
<1>2. \A m \in Nat : m % 2 = 0 => (-m) % 2 = 0 /\ (-m - 2) % 2 = 0
  OBVIOUS
<1> QED
  BY <1>1, <1>2 DEF MinOf, IntTypes

\* Which types reach at least as far as which others, on both sides.
LEMMA TypesOrdered ==
  /\ \A t \in IntTypes, u \in Types \ IntTypes :
       u # "f16" \/ t \in {"u8", "i8"} => MinOf(u) <= MinOf(t) /\ MaxOf[t] <= MaxOf[u]
  /\ \A t \in {"u8", "i8", "i32"} : MinOf("i32") <= MinOf(t) /\ MaxOf[t] <= MaxOf["i32"]
  /\ \A t \in IntTypes : MinOf("i64") <= MinOf(t) /\ MaxOf[t] <= MaxOf["i64"]
  /\ \A t \in HalfTypes : MinOf("f32") <= MinOf(t) /\ MaxOf[t] <= MaxOf["f32"]
  /\ \A t \in Types : MinOf("f64") <= MinOf(t) /\ MaxOf[t] <= MaxOf["f64"]
<1>1. \A m, n \in Nat : m % 2 = 0 /\ n % 2 = 0 /\ m < n => m + 2 <= n
  OBVIOUS
<1>2. \A t \in Types : MaxOf[t] \in Nat /\ MaxOf[t] % 2 = 0
  BY MaxOfAssumption
<1> DEFINE m == MaxOf
<1>3. /\ m["i8"] + 2 <= m["u8"] /\ m["u8"] + 2 <= m["f16"] /\ m["f16"] + 2 <= m["i32"]
      /\ m["i32"] + 2 <= m["i64"] /\ m["i64"] + 2 <= m["bf16"]
      /\ m["bf16"] <= m["f32"] /\ m["f32"] + 2 <= m["f64"]
  BY <1>1, <1>2, MaxOfAssumption DEF Types, IntTypes, HalfTypes, FloatTypes
<1> QED
  BY <1>2, <1>3 DEF Types, IntTypes, HalfTypes, FloatTypes, MinOf

\* The whole numbers of an integer type.
LEMMA NumbersCounted ==
  ASSUME NEW t \in IntTypes
  PROVE  2 * Cardinality(Numbers(t)) = MaxOf[t] - MinOf(t) + 2
<1> DEFINE a == MinOf(t)
           b == MaxOf[t]
           n == (b - a) \div 2 + 1
           f == [i \in 1 .. n |-> a + 2 * (i - 1)]
<1>1. a \in Int /\ b \in Int /\ a <= b /\ a % 2 = 0 /\ b % 2 = 0
  BY TypeEnds DEF Types
<1> HIDE DEF a, b
<1>2. n \in Nat /\ 2 * n = b - a + 2
  BY <1>1
<1>3. Numbers(t) = { k \in a .. b : k % 2 = 0 }
  BY DEF Numbers, a, b
<1>4. \A i \in 1 .. n : f[i] \in Numbers(t)
  BY <1>1, <1>2, <1>3
<1>5. ASSUME NEW k \in Numbers(t)
      PROVE  \E i \in 1 .. n : f[i] = k
  <2> DEFINE j == (k - a) \div 2 + 1
  <2>1. j \in 1 .. n /\ a + 2 * (j - 1) = k
    BY <1>1, <1>2, <1>3
  <2> HIDE DEF j, n
  <2> QED
    BY <2>1
<1>6. f \in Bijection(1 .. n, Numbers(t))
  <2>1. \A i, j \in 1 .. n : f[i] = f[j] => i = j
    BY <1>1, <1>2
  <2> QED
    BY <1>4, <1>5, <2>1 DEF Bijection, Injection, Surjection, IsInjective
<1>7. Cardinality(Numbers(t)) = Cardinality(1 .. n)
  <2>1. IsFiniteSet(1 .. n)
    BY <1>2, FS_Interval
  <2> QED
    BY <1>6, <2>1, FS_Bijection DEF ExistsBijection
<1>8. Cardinality(1 .. n) = n
  BY <1>2, FS_Interval
<1> QED
  BY <1>2, <1>7, <1>8 DEF a, b

\* No multiple of w but 0 is nearer to 0 than w.
LEMMA MultipleOfWidth ==
  ASSUME NEW w \in Int, w > 0, NEW k \in Int
  PROVE  /\ (w * k) % w = 0
         /\ -w < w * k /\ w * k < w => k = 0
<1>1. \A j \in Int : -w < w * j /\ w * j < w => j = 0
  <2> TAKE j \in Int
  <2>1. j >= 1 => w * j >= w
    OBVIOUS
  <2>2. j <= -1 => w * j <= -w
    OBVIOUS
  <2> QED
    BY <2>1, <2>2
<1> DEFINE x == w * k
           e == x \div w
           r == x % w
<1>2. x \in Int /\ e \in Int /\ r \in 0 .. w - 1 /\ x = w * e + r
  OBVIOUS
<1>3. w * (k - e) = w * k - w * e
  BY <1>2
<1> HIDE DEF e, r
<1>4. k - e = 0
  BY <1>1, <1>2, <1>3
<1>5. r = 0
  BY <1>2, <1>4
<1> QED
  BY <1>1, <1>5 DEF r

\* Wrapping gives the one number of the type that differs from n by whole turns.
LEMMA WrappedNumber ==
  ASSUME NEW t \in IntTypes, NEW n \in Int, n % 2 = 0
  PROVE  /\ Wrapped(t, n) \in Numbers(t)
         /\ (Wrapped(t, n) - n) % (MaxOf[t] - MinOf(t) + 2) = 0
         /\ \A m \in Numbers(t) :
              (m - n) % (MaxOf[t] - MinOf(t) + 2) = 0 => m = Wrapped(t, n)
<1> DEFINE a == MinOf(t)
           w == MaxOf[t] - MinOf(t) + 2
           r == (n - a) % w
           q == (n - a) \div w
           z == Wrapped(t, n)
<1>1. a \in Int /\ w \in Int /\ w > 0 /\ a % 2 = 0 /\ w % 2 = 0 /\ MaxOf[t] = a + w - 2
  BY TypeEnds DEF Types
<1>2. z = a + r
  BY DEF Wrapped
<1> HIDE DEF a, w, z
<1>3. q \in Int /\ r \in 0 .. w - 1 /\ n - a = w * q + r
  BY <1>1
<1>4. PICK h \in Int : w = 2 * h
  BY <1>1
<1> HIDE DEF q, r
<1>5. r = n - a - 2 * (h * q)
  BY <1>1, <1>3, <1>4
<1>6. r % 2 = 0
  <2>1. h * q \in Int
    BY <1>3, <1>4
  <2> QED
    BY <1>1, <1>5, <2>1
<1>7. z \in Numbers(t)
  BY <1>1, <1>2, <1>3, <1>6 DEF Numbers, a
<1>8. \A k \in Int : (w * k) % w = 0
  BY <1>1, MultipleOfWidth
<1>9. (z - n) % w = 0
  <2>1. z - n = w * (-q)
    BY <1>1, <1>2, <1>3
  <2> QED
    BY <1>3, <1>8, <2>1
<1>10. ASSUME NEW m \in Numbers(t), (m - n) % w = 0
       PROVE  m = z
  <2> DEFINE p == (m - n) \div w
  <2>1. m \in Int /\ m >= a /\ m < a + w
    BY <1>1 DEF Numbers, a
  <2>2. p \in Int /\ m - n = w * p
    BY <1>1, <1>10, <2>1
  <2> HIDE DEF p
  <2>3. m - a = w * (p + q) + r
    BY <1>1, <1>3, <2>1, <2>2
  <2>4. (m - a) - r = w * (p + q)
    BY <1>1, <1>3, <2>1, <2>2, <2>3
  <2>5. p + q = 0
    <3>1. p + q \in Int /\ -w < w * (p + q) /\ w * (p + q) < w
      BY <1>1, <1>3, <2>1, <2>2, <2>4
    <3> QED
      BY <1>1, <3>1, MultipleOfWidth
  <2> QED
    BY <1>1, <1>2, <1>3, <2>1, <2>2, <2>3, <2>5
<1> QED
  BY <1>7, <1>9, <1>10 DEF z, w, a

\* The numbers of a type: whole ones in its range, or those the cast keeps.
LEMMA NumberCases ==
  ASSUME NEW t \in Types, NEW v
  PROVE  /\ t \in IntTypes => (NumberOf(t, v) <=> \E n \in Numbers(t) : v = Num(n))
         /\ t \notin IntTypes => (NumberOf(t, v) <=> v \in AnyNumber /\ AsFloat(t, v) = v)
<1>1. NumberOf(t, v) <=>
        /\ v \in AnyNumber
        /\ IF t \in IntTypes THEN Finite(v) /\ v.n % 2 = 0 /\ Fits(t, v.n) ELSE AsFloat(t, v) = v
  BY DEF NumberOf, ScalarsOver, Scalar
<1>2. CASE t \in IntTypes
  <2>1. v \in AnyNumber /\ Finite(v) <=> \E n \in Int : v = Num(n)
    BY DEF AnyNumber, Finite, Num, NaN, Inf
  <2>2. MinOf(t) \in Int /\ MaxOf[t] \in Int
    BY TypeEnds
  <2> QED
    BY <1>1, <1>2, <2>1, <2>2 DEF Numbers, Fits, Num
<1> QED
  BY <1>1, <1>2

\* A scalar is a number of its type.
LEMMA ScalarNumbers ==
  ASSUME NEW s
  PROVE  s \in AnyScalar <=> /\ s = Scalar(s.ty, s.v)
                             /\ s.ty \in Types /\ NumberOf(s.ty, s.v)
BY DEF AnyScalar, ScalarsOver, NumberOf, Scalar

\* What tells numbers, infinities and NaN apart.
LEMMA NumbersAre ==
  /\ \A n \in Int : Num(n) \in AnyNumber /\ Finite(Num(n)) /\ Num(n).n = n /\ Num(n).is = "num"
  /\ NaN \in AnyNumber /\ Inf(1) \in AnyNumber /\ Inf(-1) \in AnyNumber /\ Zero \in AnyNumber
  /\ \A v \in AnyNumber :
       /\ v.is \in {"num", "nan", "inf"} /\ v.n \in Int /\ v = [is |-> v.is, n |-> v.n]
       /\ Finite(v) <=> v.is = "num"
       /\ Finite(v) => v = Num(v.n)
       /\ v.is = "nan" <=> v = NaN
       /\ v.is = "inf" => v \in {Inf(1), Inf(-1)} /\ v.n \in {1, -1} /\ v = Inf(v.n)
  /\ ~Finite(NaN) /\ ~Finite(Inf(1)) /\ ~Finite(Inf(-1))
  /\ NaN.is = "nan" /\ \A i \in Int : Inf(i).is = "inf" /\ Inf(i).n = i
BY DEF AnyNumber, Num, NaN, Inf, Zero, Finite

\* A set of numbers has a least one.
LEMMA LeastNumber ==
  ASSUME NEW S \in SUBSET Nat, S # {}
  PROVE  \E n \in S : \A m \in S : n <= m
<1> DEFINE R == OpToRel(<, Nat)
<1>1. IsWellFoundedOn(R, Nat)
  BY NatLessThanWellFounded
<1>2. PICK n \in S : \A m \in S : ~ (<<m, n>> \in R)
  <2> HIDE DEF R
  <2> QED
    BY <1>1, WFMin
<1>3. ASSUME NEW m \in S
      PROVE  n <= m
  <2>1. ~ (<<m, n>> \in R)
    BY <1>2
  <2> QED
    BY <2>1 DEF OpToRel
<1> QED
  BY <1>3

\* The magnitudes of a float type: 0, its end and the one that stands for infinity.
LEMMA HeldIs ==
  ASSUME NEW t \in Types \ IntTypes
  PROVE  /\ Held[t] \subseteq Nat /\ 0 \in Held[t] /\ MaxOf[t] \in Held[t]
         /\ \E b \in Held[t] : b > MaxOf[t] /\ \A h \in Held[t] : h <= MaxOf[t] \/ h = b
BY HeldAssumption DEF Types

\* There is a nearest magnitude.
LEMMA NearestIs ==
  ASSUME NEW t \in Types \ IntTypes, NEW m \in Int, NEW d \in Int
  PROVE  /\ Nearest(t, m, d) \in Held[t]
         /\ \A k \in Held[t] : Distance(m, Nearest(t, m, d) * d) <= Distance(m, k * d)
<1> DEFINE D(h) == Distance(m, h * d)
           near == { h \in Held[t] : \A k \in Held[t] : D(h) <= D(k) }
           even == { h \in near : \A k \in near \ {h} : h % (2 * Distance(h, k)) = 0 }
<1>1. Held[t] \subseteq Nat /\ Held[t] # {}
  BY HeldIs
<1>2. \A h \in Held[t] : D(h) \in Nat
  <2> TAKE h \in Held[t]
  <2>1. h * d \in Int
    BY <1>1
  <2> QED
    BY <2>1 DEF Distance
<1>3. near # {}
  <2> HIDE DEF D
  <2>1. { D(h) : h \in Held[t] } \in SUBSET Nat /\ { D(h) : h \in Held[t] } # {}
    BY <1>1, <1>2
  <2>2. PICK n \in { D(h) : h \in Held[t] } : \A k \in { D(h) : h \in Held[t] } : n <= k
    BY <2>1, LeastNumber
  <2>3. PICK h \in Held[t] : n = D(h)
    BY <2>2
  <2> QED
    BY <2>2, <2>3
<1>4. Nearest(t, m, d) = CHOOSE h \in near : even # {} => h \in even
  BY DEF Nearest, EvenOf
<1>5. even \subseteq near
  OBVIOUS
<1> HIDE DEF even, D
<1>6. \E h \in near : even # {} => h \in even
  BY <1>3, <1>5
<1>7. Nearest(t, m, d) \in near
  <2> HIDE DEF near
  <2> QED
    BY <1>4, <1>6
<1> QED
  BY <1>7 DEF D

\* The number nearest to n, beyond the end of the type perhaps.
Closest(t, n) == Sign(n) * Nearest(t, Sign(n) * n, 1)

LEMMA ClosestIs ==
  ASSUME NEW t \in Types \ IntTypes, NEW n \in Int
  PROVE  /\ Closest(t, n) \in Int /\ Distance(Closest(t, n), 0) \in Held[t]
         /\ n >= 0 => Closest(t, n) \in Held[t]
         /\ n <= 0 => -Closest(t, n) \in Held[t]
         /\ \A k \in Held[t] : /\ n >= 0 => Distance(n, Closest(t, n)) <= Distance(n, k)
                               /\ n <= 0 => Distance(n, Closest(t, n)) <= Distance(n, -k)
<1> DEFINE h == Nearest(t, Sign(n) * n, 1)
<1>1. Held[t] \subseteq Nat /\ 0 \in Held[t]
  BY HeldIs
<1>2. Sign(n) * n \in Int
  BY DEF Sign
<1>3. h \in Held[t] /\ h \in Nat /\ \A k \in Held[t] : Distance(Sign(n) * n, h * 1) <= Distance(Sign(n) * n, k * 1)
  BY <1>1, <1>2, NearestIs
<1>4. Closest(t, n) = Sign(n) * h
  BY DEF Closest
<1> HIDE DEF h
<1>5. \A k \in Held[t] : k * 1 = k /\ k \in Nat
  BY <1>1
<1>6. h * 1 = h
  BY <1>3
<1>7. CASE n > 0
  <2>1. Sign(n) = 1 /\ Sign(n) * n = n /\ Closest(t, n) = h
    BY <1>3, <1>4, <1>7 DEF Sign
  <2> QED
    BY <1>3, <1>5, <1>6, <1>7, <2>1 DEF Distance
<1>8. CASE n < 0
  <2>1. Sign(n) = -1 /\ Sign(n) * n = -n /\ Closest(t, n) = -h
    BY <1>3, <1>4, <1>8 DEF Sign
  <2> QED
    BY <1>3, <1>5, <1>6, <1>8, <2>1 DEF Distance
<1>9. CASE n = 0
  <2>1. Closest(t, n) = 0
    BY <1>3, <1>4, <1>9 DEF Sign
  <2> QED
    BY <1>1, <1>5, <1>9, <2>1 DEF Distance
<1> QED
  BY <1>7, <1>8, <1>9

\* A number the type has is the nearest to itself, and the others keep their order.
LEMMA ClosestOrder ==
  ASSUME NEW t \in Types \ IntTypes, NEW m \in Int, NEW n \in Int
  PROVE  /\ Distance(n, 0) \in Held[t] => Closest(t, n) = n
         /\ m <= n => Closest(t, m) <= Closest(t, n)
<1> DEFINE a == Closest(t, m)
           b == Closest(t, n)
<1>0. Held[t] \subseteq Nat /\ 0 \in Held[t]
  BY HeldIs
<1>1. /\ a \in Int
      /\ m >= 0 => a \in Held[t]
      /\ m <= 0 => -a \in Held[t]
      /\ \A k \in Held[t] : /\ m >= 0 => Distance(m, a) <= Distance(m, k)
                            /\ m <= 0 => Distance(m, a) <= Distance(m, -k)
  BY ClosestIs
<1>2. /\ b \in Int
      /\ n >= 0 => b \in Held[t]
      /\ n <= 0 => -b \in Held[t]
      /\ \A k \in Held[t] : /\ n >= 0 => Distance(n, b) <= Distance(n, k)
                            /\ n <= 0 => Distance(n, b) <= Distance(n, -k)
  BY ClosestIs
<1> HIDE DEF a, b
<1>3. Distance(n, 0) \in Held[t] => b = n
  <2> SUFFICES ASSUME Distance(n, 0) \in Held[t] PROVE b = n
    OBVIOUS
  <2>1. Distance(n, b) <= Distance(n, n)
    <3>1. n >= 0 => Distance(n, 0) = n
      BY DEF Distance
    <3>2. n < 0 => Distance(n, 0) = -n /\ -(-n) = n
      BY DEF Distance
    <3> QED
      BY <1>2, <3>1, <3>2
  <2> QED
    BY <1>2, <2>1 DEF Distance
<1>4. ASSUME m <= n, Distance(m, a) <= Distance(m, b), Distance(n, b) <= Distance(n, a)
      PROVE  a <= b
  <2>1. m = n => a = b
    BY DEF a, b
  <2>2. m < n => a <= b
    BY <1>1, <1>2, <1>4 DEF Distance
  <2> QED
    BY <1>1, <1>2, <1>4, <2>1, <2>2
<1>5. ASSUME m <= n
      PROVE  a <= b
  <2>1. CASE m >= 0
    <3>1. Distance(m, a) <= Distance(m, b) /\ Distance(n, b) <= Distance(n, a)
      BY <1>1, <1>2, <1>5, <2>1
    <3> QED
      BY <1>4, <1>5, <3>1
  <2>2. CASE n <= 0
    <3>1. -(-a) = a /\ -(-b) = b
      BY <1>1, <1>2
    <3>2. Distance(m, a) <= Distance(m, b) /\ Distance(n, b) <= Distance(n, a)
      BY <1>1, <1>2, <1>5, <2>2, <3>1
    <3> QED
      BY <1>4, <1>5, <3>2
  <2>3. CASE m < 0 /\ n > 0
    BY <1>0, <1>1, <1>2, <2>3
  <2> QED
    BY <1>5, <2>1, <2>2, <2>3
<1> QED
  BY <1>3, <1>5 DEF a, b

\* A float type has the numbers whose magnitude it has, up to its end.
LEMMA HasIs ==
  ASSUME NEW t \in Types \ IntTypes, NEW n \in Int
  PROVE  /\ Has(t, n) <=> Distance(n, 0) \in Held[t] /\ -MaxOf[t] <= n /\ n <= MaxOf[t]
         /\ Has(t, 0) /\ Has(t, MaxOf[t]) /\ Has(t, -MaxOf[t])
         /\ Has(t, n) => Has(t, -n) /\ Closest(t, n) = n
<1>1. MaxOf[t] \in Nat /\ MinOf(t) = -MaxOf[t]
  BY TypeEnds
<1>2. 0 \in Held[t] /\ MaxOf[t] \in Held[t]
  BY HeldIs
<1>3. Distance(-n, 0) = Distance(n, 0) /\ Distance(0, 0) = 0
      /\ Distance(MaxOf[t], 0) = MaxOf[t] /\ Distance(-MaxOf[t], 0) = MaxOf[t]
  BY <1>1 DEF Distance
<1> QED
  BY <1>1, <1>2, <1>3, ClosestOrder DEF Has, Fits

\* Rounding a quotient, and a number, to a float type.
LEMMA RoundToIs ==
  ASSUME NEW t \in Types \ IntTypes, NEW n \in Int, NEW d \in Int, d > 0
  PROVE  /\ RoundTo(t, n, d) \in AnyNumber /\ RoundTo(t, n, d) # NaN
         /\ Finite(RoundTo(t, n, d)) => Has(t, RoundTo(t, n, d).n)
         /\ d = 1 => RoundTo(t, n, d) = IF Fits(t, Closest(t, n)) THEN Num(Closest(t, n))
                                        ELSE Inf(Sign(Closest(t, n)))
<1> DEFINE h == Nearest(t, Sign(n) * n, d)
           s == Sign(n)
<1>1. s * n \in Int /\ s \in {1, 0, -1} /\ s * n = IF n < 0 THEN -n ELSE n
  BY DEF Sign
<1>2. h \in Held[t] /\ h \in Nat
  BY <1>1, NearestIs, HeldIs
<1>3. RoundTo(t, n, d) = IF h > MaxOf[t] THEN Inf(s) ELSE Num(s * h)
  BY DEF RoundTo, FloatOf
<1>4. d = 1 => Closest(t, n) = s * h
  BY DEF Closest
<1>5. MaxOf[t] \in Nat /\ MinOf(t) = -MaxOf[t]
  BY TypeEnds
<1>6. n = 0 => h = 0
  <2>1. SUFFICES ASSUME n = 0 PROVE h = 0
    OBVIOUS
  <2>2. 0 \in Held[t] /\ s * n = 0
    BY <1>1, <2>1, HeldIs
  <2>3. Distance(0, h * d) <= Distance(0, 0 * d)
    BY <2>2, NearestIs
  <2>4. Distance(0, 0 * d) = 0
    BY DEF Distance
  <2> HIDE DEF h
  <2>5. h * d \in Nat
    BY <1>2
  <2>6. h * d = 0
    BY <2>3, <2>4, <2>5 DEF Distance
  <2> QED
    BY <1>2, <2>6
<1>7. n # 0 => s \in {1, -1}
  BY DEF Sign
<1> HIDE DEF h, s
<1>8. CASE h > MaxOf[t]
  <2>1. s \in {1, -1} /\ RoundTo(t, n, d) = Inf(s)
    BY <1>3, <1>5, <1>6, <1>7, <1>8
  <2>2. ~Fits(t, s * h) /\ Sign(s * h) = s
    BY <1>2, <1>5, <1>8, <2>1 DEF Fits, Sign
  <2> QED
    BY <1>4, <2>1, <2>2, NumbersAre
<1>9. CASE ~(h > MaxOf[t])
  <2>1. s * h \in Int /\ RoundTo(t, n, d) = Num(s * h)
    BY <1>1, <1>2, <1>3, <1>9
  <2>2. Fits(t, s * h) /\ s * h \in {h, 0, -h}
    BY <1>1, <1>2, <1>5, <1>9 DEF Fits
  <2>3. Distance(s * h, 0) \in {h, 0}
    BY <1>2, <2>2 DEF Distance
  <2>4. Has(t, s * h)
    BY <1>2, <2>2, <2>3, HeldIs DEF Has
  <2> QED
    BY <1>4, <2>1, <2>2, <2>4, NumbersAre
<1> QED
  BY <1>8, <1>9

\* So is the cast, and it keeps what the type has.
LEMMA AsFloatIs ==
  ASSUME NEW t \in Types \ IntTypes, NEW n \in Int
  PROVE  /\ AsFloat(t, Num(n)) = IF Fits(t, Closest(t, n)) THEN Num(Closest(t, n))
                                 ELSE Inf(Sign(Closest(t, n)))
         /\ AsFloat(t, Num(n)) = Num(n) <=> Has(t, n)
<1>1. Finite(Num(n)) /\ Num(n).n = n
  BY NumbersAre
<1>2. AsFloat(t, Num(n)) = IF Has(t, n) THEN Num(n) ELSE RoundTo(t, n, 1)
  BY <1>1 DEF AsFloat
<1>3. /\ Finite(RoundTo(t, n, 1)) => Has(t, RoundTo(t, n, 1).n)
      /\ RoundTo(t, n, 1) = IF Fits(t, Closest(t, n)) THEN Num(Closest(t, n))
                            ELSE Inf(Sign(Closest(t, n)))
  BY RoundToIs
<1>4. Has(t, n) => Closest(t, n) = n /\ Fits(t, n)
  BY HasIs DEF Has
<1> QED
  BY <1>1, <1>2, <1>3, <1>4

\* A number up to the end of a float type is not rounded to an infinity.
LEMMA InRange ==
  ASSUME NEW t \in Types \ IntTypes, NEW u \in Types \ IntTypes, NEW n \in Int,
         Has(u, MaxOf[t]), -MaxOf[t] <= n, n <= MaxOf[t]
  PROVE  /\ AsFloat(u, Num(n)) = Num(Closest(u, n))
         /\ Closest(u, n) \in Int /\ -MaxOf[t] <= Closest(u, n) /\ Closest(u, n) <= MaxOf[t]
<1>1. MaxOf[t] \in Nat /\ MaxOf[u] \in Nat /\ MinOf(u) = -MaxOf[u] /\ -MaxOf[t] \in Int
  BY TypeEnds
<1>2. Closest(u, MaxOf[t]) = MaxOf[t] /\ Closest(u, -MaxOf[t]) = -MaxOf[t] /\ MaxOf[t] <= MaxOf[u]
  BY <1>1, HasIs
<1>3. Closest(u, n) \in Int /\ -MaxOf[t] <= Closest(u, n) /\ Closest(u, n) <= MaxOf[t]
  BY <1>1, <1>2, ClosestIs, ClosestOrder
<1>4. Fits(u, Closest(u, n))
  BY <1>1, <1>2, <1>3 DEF Fits
<1> QED
  BY <1>3, <1>4, AsFloatIs

\* What a float type makes of a number is a number of the type, which it keeps.
LEMMA FloatNumber ==
  ASSUME NEW t \in Types \ IntTypes, NEW v \in AnyNumber
  PROVE  /\ NumberOf(t, v) <=> (Finite(v) => Has(t, v.n))
         /\ NumberOf(t, AsFloat(t, v)) /\ AsFloat(t, v) \in AnyNumber
         /\ ~Finite(v) \/ NumberOf(t, v) => AsFloat(t, v) = v
         /\ AsFloat(t, v) = NaN <=> v = NaN
<1>1. \A w \in AnyNumber :
        /\ ~Finite(w) => AsFloat(t, w) = w
        /\ Finite(w) => w = Num(w.n) /\ w.n \in Int /\ (AsFloat(t, w) = w <=> Has(t, w.n))
  BY NumbersAre, AsFloatIs DEF AsFloat
<1>2. \A w \in AnyNumber : NumberOf(t, w) <=> (Finite(w) => Has(t, w.n))
  BY <1>1, NumberCases
<1>3. CASE ~Finite(v)
  BY <1>1, <1>2, <1>3
<1>4. CASE Finite(v)
  <2>1. v = Num(v.n) /\ v.n \in Int
    BY <1>1, <1>4
  <2>2. AsFloat(t, v) = IF Has(t, v.n) THEN v ELSE RoundTo(t, v.n, 1)
    BY <1>4 DEF AsFloat
  <2>3. /\ RoundTo(t, v.n, 1) \in AnyNumber /\ RoundTo(t, v.n, 1) # NaN
        /\ Finite(RoundTo(t, v.n, 1)) => Has(t, RoundTo(t, v.n, 1).n)
    BY <2>1, RoundToIs
  <2>4. v # NaN
    BY <1>4, NumbersAre
  <2> QED
    BY <1>1, <1>2, <1>4, <2>2, <2>3, <2>4
<1> QED
  BY <1>3, <1>4

\* A finite number of a type lies in its range.
LEMMA FloatRange ==
  ASSUME NEW t \in Types, NEW v, NumberOf(t, v), Finite(v)
  PROVE  /\ v = Num(v.n) /\ v.n \in Int /\ Fits(t, v.n)
         /\ v.n \in -MaxOf["f64"] .. MaxOf["f64"]
         /\ t \in IntTypes => v.n % 2 = 0
         /\ t \notin IntTypes => Has(t, v.n)
<1>0. v \in AnyNumber
  BY DEF NumberOf
<1>1. v = Num(v.n) /\ v.n \in Int
  BY <1>0, NumbersAre
<1>2. Fits(t, v.n) /\ (t \in IntTypes => v.n % 2 = 0) /\ (t \notin IntTypes => Has(t, v.n))
  <2>1. CASE t \in IntTypes
    BY <2>1, NumberCases, NumbersAre, TypeEnds DEF Numbers, Fits
  <2>2. CASE t \notin IntTypes
    BY <1>0, <2>2, FloatNumber DEF Has
  <2> QED
    BY <2>1, <2>2
<1>3. MinOf("f64") <= MinOf(t) /\ MaxOf[t] <= MaxOf["f64"] /\ MinOf("f64") = -MaxOf["f64"]
      /\ MinOf(t) \in Int /\ MaxOf[t] \in Int /\ MaxOf["f64"] \in Int
  BY TypesOrdered, TypeEnds DEF Types, IntTypes, FloatTypes
<1> QED
  BY <1>1, <1>2, <1>3 DEF Fits

\* The numbers that every float type has.
LEMMA FloatConstants ==
  ASSUME NEW t \in Types \ IntTypes
  PROVE  /\ NumberOf(t, Zero) /\ AsFloat(t, Zero) = Zero
         /\ NumberOf(t, NaN) /\ NumberOf(t, Inf(1)) /\ NumberOf(t, Inf(-1))
<1>1. Zero \in AnyNumber /\ Zero.n = 0
  BY NumbersAre DEF Zero
<1>2. Has(t, 0)
  BY HasIs
<1> QED
  BY <1>1, <1>2, NumbersAre, FloatNumber

\* Arithmetic in a float type gives numbers of the type.
LEMMA FloatArithmetic ==
  ASSUME NEW t \in Types \ IntTypes, NEW v, NEW w, NumberOf(t, v), NumberOf(t, w)
  PROVE  /\ NumberOf(t, FloatAdd(t, v, w))
         /\ NumberOf(t, FloatMul(t, v, w))
         /\ NumberOf(t, FloatDiv(t, v, w))
         /\ NumberOf(t, Negative(v))
<1>1. v \in AnyNumber /\ w \in AnyNumber
  BY DEF NumberOf
<1>2. /\ v.is \in {"num", "nan", "inf"} /\ v.n \in Int
      /\ v.is = "inf" => v.n \in {1, -1} /\ v = Inf(v.n)
      /\ w.is \in {"num", "nan", "inf"} /\ w.n \in Int
      /\ w.is = "inf" => w.n \in {1, -1} /\ w = Inf(w.n)
      /\ (v.is = "num" <=> Finite(v)) /\ (w.is = "num" <=> Finite(w))
  BY <1>1, NumbersAre
<1>3. \A i, d \in Int : d > 0 => NumberOf(t, RoundTo(t, i, d))
  BY FloatNumber, RoundToIs
<1>4. \A i \in Int : i # 0 => NumberOf(t, Inf(Sign(i)))
  BY FloatConstants DEF Sign
<1>5. NumberOf(t, FloatAdd(t, v, w))
  <2>1. NumberOf(t, RoundTo(t, v.n + w.n, 1))
    BY <1>2, <1>3
  <2> QED
    BY <1>2, <2>1, FloatConstants DEF FloatAdd
<1>6. NumberOf(t, FloatMul(t, v, w))
  <2>1. v.n * w.n \in Int /\ NumberOf(t, RoundTo(t, v.n * w.n, 2))
    BY <1>2, <1>3
  <2>2. \A k \in Int : NumberOf(t, IF k = 0 THEN NaN ELSE Inf(Sign(k)))
    BY <1>4, FloatConstants
  <2> QED
    BY <1>2, <2>1, <2>2, FloatConstants DEF FloatMul
<1>7. NumberOf(t, FloatDiv(t, v, w))
  <2>1. CASE v.is = "nan" \/ w.is = "nan" \/ (v.is = "inf" /\ w.is = "inf")
    <3>1. FloatDiv(t, v, w) = NaN
      BY <1>2, <2>1 DEF FloatDiv
    <3> QED
      BY <3>1, FloatConstants
  <2>2. CASE v.is = "inf" /\ Finite(w)
    <3>1. FloatDiv(t, v, w) = Inf(IF w.n < 0 THEN -v.n ELSE v.n)
      BY <1>2, <2>2 DEF FloatDiv
    <3> QED
      BY <1>2, <2>2, <3>1, FloatConstants
  <2>3. CASE Finite(v) /\ w.is = "inf"
    <3>1. FloatDiv(t, v, w) = Zero
      BY <1>2, <2>3 DEF FloatDiv
    <3> QED
      BY <3>1, FloatConstants
  <2>4. CASE Finite(v) /\ Finite(w) /\ w.n = 0
    <3>1. FloatDiv(t, v, w) = IF v.n = 0 THEN NaN ELSE Inf(Sign(v.n))
      BY <1>2, <2>4 DEF FloatDiv
    <3> QED
      BY <1>2, <1>4, <3>1, FloatConstants
  <2>5. CASE Finite(v) /\ Finite(w) /\ w.n # 0
    <3>1. FloatDiv(t, v, w) = RoundTo(t, 2 * v.n * Sign(w.n), Sign(w.n) * w.n)
      BY <1>2, <2>5 DEF FloatDiv
    <3>2. Sign(w.n) * w.n \in Int /\ Sign(w.n) * w.n > 0 /\ 2 * v.n * Sign(w.n) \in Int
      BY <1>2, <2>5 DEF Sign
    <3> QED
      BY <1>3, <3>1, <3>2
  <2> QED
    BY <1>2, <2>1, <2>2, <2>3, <2>4, <2>5
<1>8. NumberOf(t, Negative(v))
  <2>1. Negative(v) = [is |-> v.is, n |-> -v.n]
    BY <1>1, NumbersAre DEF Negative
  <2>2. CASE Finite(v)
    <3>1. Has(t, v.n)
      BY <2>2, FloatRange
    <3>2. Has(t, -v.n) /\ -v.n \in Int
      BY <1>2, <3>1, HasIs
    <3>3. Negative(v) = Num(-v.n)
      BY <1>2, <2>1, <2>2 DEF Num
    <3> QED
      BY <3>2, <3>3, NumbersAre, FloatNumber
  <2>3. CASE ~Finite(v)
    <3>1. Negative(v) \in {NaN, Inf(1), Inf(-1)}
      BY <1>1, <1>2, <2>1, <2>3, NumbersAre DEF NaN, Inf
    <3> QED
      BY <3>1, FloatConstants
  <2> QED
    BY <2>2, <2>3
<1> QED
  BY <1>5, <1>6, <1>7, <1>8

\* The order of the numbers that the scalars' types hold.
LEMMA LessIs ==
  ASSUME NEW v \in AnyNumber, NEW w \in AnyNumber,
         \A u \in {v, w} : Finite(u) => u.n \in -MaxOf["f64"] .. MaxOf["f64"]
  PROVE  Less(v, w) <=>
           \/ Finite(v) /\ Finite(w) /\ v.n < w.n
           \/ Finite(v) /\ w = Inf(1)
           \/ v = Inf(-1) /\ Finite(w)
           \/ v = Inf(-1) /\ w = Inf(1)
<1>1. MaxOf["f64"] \in Nat
  BY TypeEnds DEF Types, FloatTypes
<1> DEFINE m == MaxOf["f64"] + 1
           Rank(x) == IF x.is = "inf" THEN x.n * m ELSE x.n
<1>2. Less(v, w) <=> v.is # "nan" /\ w.is # "nan" /\ Rank(v) < Rank(w)
  BY DEF Less
<1>3. ASSUME NEW u \in {v, w}
      PROVE  /\ u.n \in Int /\ u.is \in {"num", "nan", "inf"} /\ (Finite(u) <=> u.is = "num")
             /\ u = Inf(1) <=> (u.is = "inf" /\ u.n = 1)
             /\ u = Inf(-1) <=> (u.is = "inf" /\ u.n = -1)
             /\ u.is = "inf" => u.n = 1 \/ u.n = -1
  BY NumbersAre
<1>4. ASSUME NEW u \in {v, w}
      PROVE  /\ u = Inf(1) => Rank(u) = m
             /\ u = Inf(-1) => Rank(u) = -m
             /\ Finite(u) => Rank(u) = u.n /\ -m < u.n /\ u.n < m
  BY <1>1, <1>3
<1> HIDE DEF m, Rank
<1>5. m \in Int /\ m > 0
  BY <1>1 DEF m
<1> QED
  BY <1>2, <1>3, <1>4, <1>5

\* How the float types lie in each other, and the whole numbers in them.
LEMMA TypesBeside ==
  ASSUME NEW n \in Int
  PROVE  /\ n % 2 = 0 /\ -MaxOf["i32"] - 4 <= n /\ n <= MaxOf["i32"] + 4 => Has("f64", n)
         /\ n % 2 = 0 /\ -MaxOf["u8"] <= n /\ n <= MaxOf["u8"] => Has("f32", n)
         /\ \A t \in HalfTypes : Has(t, n) => Has("f32", n)
         /\ \A t \in Types \ IntTypes : Has(t, n) => Has("f64", n)
         /\ Has("f64", n) /\ n % 2 # 0 => Has("f64", n - 1) /\ Has("f64", n + 1)
         /\ Has("f64", n) => F64(n) = n
<1> DEFINE m == MaxOf
           a == Distance(n, 0)
<1>1. \A t \in Types : m[t] \in Nat /\ m[t] % 2 = 0
  BY MaxOfAssumption
<1>2. m["u8"] <= m["f32"] /\ m["i32"] + 4 <= m["f64"] /\ m["f32"] <= m["f64"]
      /\ \A t \in HalfTypes : m[t] <= m["f32"]
  <2>1. \A i, j \in Nat : i % 2 = 0 /\ j % 2 = 0 /\ i < j => i + 2 <= j
    OBVIOUS
  <2> QED
    BY <1>1, <2>1, MaxOfAssumption DEF Types, IntTypes, HalfTypes, FloatTypes
<1>3. \A t \in Types \ IntTypes : Has(t, n) <=> a \in Held[t] /\ -m[t] <= n /\ n <= m[t]
  BY HasIs
<1>4. a \in Nat /\ (a = n \/ a = -n) /\ (n % 2 = 0 => a % 2 = 0) /\ (n % 2 # 0 => a % 2 # 0)
  BY DEF Distance
<1>5. "f32" \in Types \ IntTypes /\ "f64" \in Types \ IntTypes
      /\ HalfTypes \subseteq Types \ IntTypes
      /\ (\A t \in Types \ IntTypes : t \in HalfTypes \/ t = "f32" \/ t = "f64")
      /\ {"u8", "i32"} \subseteq Types
  BY DEF Types, IntTypes, HalfTypes, FloatTypes
<1> HIDE DEF a, m
<1>6. n % 2 = 0 /\ -m["i32"] - 4 <= n /\ n <= m["i32"] + 4 => Has("f64", n)
  <2>1. \A k \in 0 .. m["i32"] + 4 : k % 2 = 0 => k \in Held["f64"]
    BY HeldAssumption DEF m
  <2> QED
    BY <1>1, <1>2, <1>3, <1>4, <1>5, <2>1
<1>7. n % 2 = 0 /\ -m["u8"] <= n /\ n <= m["u8"] => Has("f32", n)
  <2>1. \A k \in 0 .. m["u8"] : k % 2 = 0 => k \in Held["f32"]
    BY HeldAssumption DEF m
  <2> QED
    BY <1>1, <1>2, <1>3, <1>4, <1>5, <2>1
<1>8. \A t \in HalfTypes : Has(t, n) => Has("f32", n)
  <2>1. \A t \in HalfTypes : \A h \in Held[t] : h <= m[t] => h \in Held["f32"]
    BY HeldAssumption DEF m
  <2> QED
    BY <1>1, <1>2, <1>3, <1>4, <1>5, <2>1
<1>9. Has("f32", n) => Has("f64", n)
  <2>1. \A h \in Held["f32"] : h <= m["f32"] => h \in Held["f64"]
    BY HeldAssumption DEF m
  <2> QED
    BY <1>1, <1>2, <1>3, <1>4, <1>5, <2>1
<1>10. Has("f64", n) /\ n % 2 # 0 => Has("f64", n - 1) /\ Has("f64", n + 1)
  <2> SUFFICES ASSUME Has("f64", n), n % 2 # 0 PROVE Has("f64", n - 1) /\ Has("f64", n + 1)
    OBVIOUS
  <2>1. a - 1 \in Held["f64"] /\ a + 1 \in Held["f64"]
    BY <1>3, <1>4, <1>5, HeldAssumption
  <2>2. {Distance(n - 1, 0), Distance(n + 1, 0)} = {a - 1, a + 1}
    BY DEF Distance, a
  <2>3. -m["f64"] <= n - 1 /\ n + 1 <= m["f64"]
    BY <1>1, <1>3, <1>5
  <2>4. m["f64"] \in Int /\ -m["f64"] <= n /\ n <= m["f64"]
    BY <1>1, <1>3, <1>5
  <2>5. Distance(n - 1, 0) \in Held["f64"] /\ Distance(n + 1, 0) \in Held["f64"]
    BY <2>1, <2>2
  <2>6. -m["f64"] <= n + 1 /\ n - 1 <= m["f64"]
    BY <2>4
  <2> QED
    BY <1>5, <2>3, <2>5, <2>6, HasIs DEF m
<1>11. Has("f64", n) => F64(n) = n
  BY <1>5, AsFloatIs, NumbersAre DEF F64
<1> QED
  BY <1>5, <1>6, <1>7, <1>8, <1>9, <1>10, <1>11 DEF m

\* The ends of the integer types as f64: exact, but for the upper one of i64.
LEMMA EndsIs ==
  ASSUME NEW t \in IntTypes
  PROVE  /\ F64(MinOf(t)) = MinOf(t)
         /\ F64(MaxOf[t]) = IF t = "i64" THEN MaxOf[t] + 2 ELSE MaxOf[t]
<1>1. /\ MaxOf[t] \in Nat /\ MinOf(t) \in Int /\ MaxOf[t] % 2 = 0 /\ MinOf(t) % 2 = 0
      /\ MinOf(t) = 0 \/ MinOf(t) = -MaxOf[t] - 2
  BY TypeEnds DEF Types, MinOf
<1>2. CASE t # "i64"
  <2>1. MaxOf[t] <= MaxOf["i32"] /\ MaxOf["i32"] \in Nat
    BY <1>2, TypesOrdered, TypeEnds DEF IntTypes, Types
  <2>2. Has("f64", MaxOf[t]) /\ Has("f64", MinOf(t))
    BY <1>1, <2>1, TypesBeside
  <2> QED
    BY <1>1, <1>2, <2>2, TypesBeside
<1>3. CASE t = "i64"
  <2> DEFINE m == MaxOf["i64"]
  <2>1. "f64" \in Types \ IntTypes /\ "i64" \in Types
    BY DEF Types, IntTypes, FloatTypes
  <2>2. m \in Nat /\ m > 0 /\ m + 2 <= MaxOf["f64"] /\ MinOf("i64") = -m - 2 /\ MaxOf["f64"] \in Nat
    <3>1. \A i, j \in Nat : i % 2 = 0 /\ j % 2 = 0 /\ i < j => i + 2 <= j
      OBVIOUS
    <3> QED
      BY <3>1, MaxOfAssumption DEF Types, IntTypes, HalfTypes, FloatTypes, MinOf
  <2>3. m + 2 \in Held["f64"] /\ Nearest("f64", m, 1) = m + 2
    BY HeldAssumption
  <2> HIDE DEF m
  <2>4. Has("f64", m + 2) /\ Has("f64", -m - 2)
    <3>1. Distance(m + 2, 0) = m + 2 /\ Distance(-m - 2, 0) = m + 2
      BY <2>2 DEF Distance
    <3> QED
      BY <2>1, <2>2, <2>3, <3>1, HasIs
  <2>5. Closest("f64", m) = m + 2
    BY <2>2, <2>3 DEF Closest, Sign
  <2>6. Fits("f64", m + 2)
    BY <2>4 DEF Has
  <2>7. AsFloat("f64", Num(m)) = Num(m + 2)
    BY <2>1, <2>2, <2>5, <2>6, AsFloatIs
  <2>8. F64(m) = m + 2
    BY <2>2, <2>7, NumbersAre DEF F64
  <2>9. F64(-m - 2) = -m - 2
    BY <2>2, <2>4, TypesBeside
  <2> QED
    BY <1>3, <2>2, <2>8, <2>9 DEF m
<1> QED
  BY <1>2, <1>3

\* A float's conversion to an integer is exact, where 2^63 is taken for the
\* largest i64.
LEMMA FloatToIntIs ==
  ASSUME NEW t \in IntTypes, NEW v \in AnyNumber
  PROVE  FloatToInt(t, v) = IF ~Finite(v) THEN Err("InvalidValue")
                            ELSE IF v.n % 2 # 0 THEN Err("FractionalValue")
                            ELSE IF Fits(t, Taken(t, v.n)) THEN Ok(Num(Taken(t, v.n)))
                            ELSE Err("Overflow")
<1> DEFINE n == v.n
<1>1. /\ MaxOf[t] \in Nat /\ MinOf(t) \in Int /\ MinOf(t) <= MaxOf[t]
      /\ MaxOf[t] % 2 = 0 /\ n \in Int
  BY TypeEnds, NumbersAre DEF Types
<1>2. ASSUME n % 2 = 0
      PROVE  /\ n \in F64(MinOf(t)) .. F64(MaxOf[t]) <=> Fits(t, Taken(t, n))
             /\ Fits(t, Taken(t, n)) => Clip(t, n) = Taken(t, n)
  <2>1. CASE t = "i64"
    <3>1. n \in F64(MinOf(t)) .. F64(MaxOf[t]) <=> MinOf(t) <= n /\ n <= MaxOf[t] + 2
      BY <1>1, <2>1, EndsIs
    <3> HIDE DEF n
    <3>2. n = MaxOf[t] + 2 \/ n <= MaxOf[t] \/ n > MaxOf[t] + 2
      BY <1>1, <1>2
    <3> QED
      BY <1>1, <2>1, <3>1, <3>2 DEF Taken, Fits, Clip
  <2>2. CASE t # "i64"
    <3>1. n \in F64(MinOf(t)) .. F64(MaxOf[t]) <=> MinOf(t) <= n /\ n <= MaxOf[t]
      BY <1>1, <2>2, EndsIs
    <3> HIDE DEF n
    <3> QED
      BY <1>1, <2>2, <3>1 DEF Taken, Fits, Clip
  <2> QED
    BY <2>1, <2>2
<1> QED
  BY <1>2 DEF FloatToInt

\* A number that an integer type has none for lies beyond one of its ends as an
\* f64, too, on the same side.
LEMMA BeyondEnd ==
  ASSUME NEW t \in IntTypes, NEW n \in Int, n % 2 = 0, ~Fits(t, Taken(t, n)),
         Has("f64", n) \/ Fits("i64", n)
  PROVE  /\ F64(n) \notin F64(MinOf(t)) .. F64(MaxOf[t])
         /\ F64(n) < F64(MinOf(t)) <=> n < MinOf(t)
         /\ n < MinOf(t) \/ n > MaxOf[t]
<1>1. /\ MaxOf[t] \in Nat /\ MinOf(t) \in Int /\ MinOf(t) <= MaxOf[t]
      /\ MaxOf[t] % 2 = 0 /\ MinOf(t) % 2 = 0
  BY TypeEnds DEF Types
<1>2. F64(MinOf(t)) = MinOf(t) /\ F64(MaxOf[t]) = IF t = "i64" THEN MaxOf[t] + 2 ELSE MaxOf[t]
  BY EndsIs
<1>3. n < MinOf(t) \/ n > IF t = "i64" THEN MaxOf[t] + 2 ELSE MaxOf[t]
  BY <1>1 DEF Taken, Fits
<1>4. CASE Has("f64", n)
  <2>1. F64(n) = n
    BY <1>4, TypesBeside
  <2> QED
    BY <1>1, <1>2, <1>3, <2>1
<1>5. CASE Fits("i64", n)
  <2>1. t # "i64"
    BY <1>1, <1>3, <1>5 DEF Fits
  <2>2. "f64" \in Types \ IntTypes /\ "f32" \in Types \ IntTypes
    BY DEF Types, IntTypes, FloatTypes
  <2>3. MaxOf[t] <= MaxOf["i32"] /\ MinOf("i32") <= MinOf(t) /\ MaxOf["i32"] \in Nat
        /\ MinOf("i32") = -MaxOf["i32"] - 2
    BY <2>1, TypesOrdered, TypeEnds DEF IntTypes, Types, MinOf
  <2>4. Has("f64", MaxOf[t] + 2) /\ Has("f64", MinOf(t) - 2)
    BY <1>1, <2>3, TypesBeside
  <2>5. Closest("f64", MaxOf[t] + 2) = MaxOf[t] + 2 /\ Closest("f64", MinOf(t) - 2) = MinOf(t) - 2
    BY <1>1, <2>2, <2>4, HasIs
  <2>6. Has("f64", MaxOf["f32"])
    BY <2>2, HasIs, TypesBeside, TypeEnds
  <2>7. -MaxOf["f32"] <= n /\ n <= MaxOf["f32"]
    <3>1. MinOf("f32") <= MinOf("i64") /\ MaxOf["i64"] <= MaxOf["f32"] /\ MinOf("f32") = -MaxOf["f32"]
          /\ MinOf("i64") \in Int /\ MaxOf["i64"] \in Int /\ MaxOf["f32"] \in Int
      BY <2>2, TypesOrdered, TypeEnds DEF Types, IntTypes
    <3> QED
      BY <1>5, <3>1 DEF Fits
  <2>8. F64(n) = Closest("f64", n) /\ Closest("f64", n) \in Int
    BY <2>2, <2>6, <2>7, InRange, NumbersAre DEF F64
  <2>9. n > MaxOf[t] => n >= MaxOf[t] + 2
    BY <1>1
  <2>10. n < MinOf(t) => n <= MinOf(t) - 2
    BY <1>1
  <2>11. n > MaxOf[t] => Closest("f64", n) >= MaxOf[t] + 2
    BY <1>1, <2>2, <2>5, <2>8, <2>9, ClosestOrder
  <2>12. n < MinOf(t) => Closest("f64", n) <= MinOf(t) - 2
    BY <1>1, <2>2, <2>5, <2>8, <2>10, ClosestOrder
  <2> QED
    BY <1>1, <1>2, <1>3, <2>1, <2>8, <2>11, <2>12
<1> QED
  BY <1>4, <1>5

\* Whether a half holds a number does not change when it becomes an f64.
LEMMA HalfEnds ==
  ASSUME NEW t \in HalfTypes, NEW s \in AnyScalar, Finite(s.v)
  PROVE  LET n == s.v.n
         IN  /\ AsFloat("f64", s.v) = Num(F64(n)) /\ F64(n) \in Int
             /\ Fits(t, F64(n)) <=> Fits(t, n)
             /\ ~Fits(t, n) => (F64(n) < F64(MinOf(t)) <=> n < MinOf(t))
<1> DEFINE n == s.v.n
<1>1. s.ty \in Types /\ NumberOf(s.ty, s.v)
  BY ScalarNumbers
<1>2. /\ s.v = Num(n) /\ n \in Int /\ Fits(s.ty, n)
      /\ s.ty \in IntTypes => n % 2 = 0
      /\ s.ty \notin IntTypes => Has(s.ty, n)
  BY <1>1, FloatRange
<1> HIDE DEF n
<1>3. /\ "f64" \in Types \ IntTypes /\ "f32" \in Types \ IntTypes /\ t \in Types \ IntTypes
      /\ {"i64", "i32"} \subseteq Types
  BY DEF Types, IntTypes, FloatTypes, HalfTypes
<1>4. MaxOf[t] \in Nat /\ MinOf(t) = -MaxOf[t] /\ MaxOf[t] % 2 = 0
  BY <1>3, TypeEnds
<1>5. Has("f64", MaxOf[t]) /\ Has("f64", -MaxOf[t])
  BY <1>3, <1>4, HasIs, TypesBeside
<1>6. F64(MinOf(t)) = -MaxOf[t]
  BY <1>4, <1>5, TypesBeside
<1>7. SUFFICES /\ AsFloat("f64", Num(n)) = Num(F64(n)) /\ F64(n) \in Int
               /\ n > MaxOf[t] => F64(n) > MaxOf[t]
               /\ n < -MaxOf[t] => F64(n) < -MaxOf[t]
               /\ -MaxOf[t] <= n /\ n <= MaxOf[t] => -MaxOf[t] <= F64(n) /\ F64(n) <= MaxOf[t]
  BY <1>2, <1>4, <1>6, <1>7 DEF Fits, n
<1>8. CASE s.ty \notin IntTypes
  <2>1. Has("f64", n)
    BY <1>1, <1>2, <1>8, TypesBeside
  <2>2. F64(n) = n /\ AsFloat("f64", Num(n)) = Num(n)
    BY <1>2, <1>3, <2>1, TypesBeside, AsFloatIs
  <2> QED
    BY <1>2, <2>2
<1>9. CASE s.ty \in IntTypes
  <2> DEFINE m == MaxOf
  <2>1. \A i, j \in Nat : i % 2 = 0 /\ j % 2 = 0 /\ i < j => i + 2 <= j
    OBVIOUS
  <2>2. /\ m["i64"] + 2 <= m["bf16"] /\ m["bf16"] <= m["f32"] /\ m["f16"] + 2 <= m["i32"]
        /\ \A k \in {"i64", "bf16", "f32", "f16", "i32"} : m[k] \in Nat /\ m[k] % 2 = 0
    BY <2>1, MaxOfAssumption DEF Types, IntTypes, HalfTypes, FloatTypes
  <2>3. -m["i64"] - 2 <= n /\ n <= m["i64"] /\ n % 2 = 0
    <3>1. MinOf("i64") <= MinOf(s.ty) /\ m[s.ty] <= m["i64"] /\ MinOf("i64") = -m["i64"] - 2
          /\ MinOf(s.ty) \in Int /\ m[s.ty] \in Int
      BY <1>1, <1>9, TypesOrdered, TypeEnds DEF MinOf, IntTypes
    <3> QED
      BY <1>2, <1>9, <2>2, <3>1 DEF Fits
  <2>4. Has("f64", m["f32"])
    BY <1>3, <2>2, HasIs, TypesBeside
  <2>5. -m["f32"] <= n /\ n <= m["f32"]
    BY <1>2, <2>2, <2>3
  <2>6. AsFloat("f64", Num(n)) = Num(Closest("f64", n)) /\ Closest("f64", n) \in Int
    BY <1>2, <1>3, <2>4, <2>5, InRange
  <2>7. F64(n) = Closest("f64", n)
    BY <2>6, NumbersAre DEF F64
  <2>8. Closest("f64", m[t]) = m[t] /\ Closest("f64", -m[t]) = -m[t]
    BY <1>3, <1>4, <1>5, HasIs
  <2>9. /\ n <= m[t] => Closest("f64", n) <= m[t]
        /\ -m[t] <= n => -m[t] <= Closest("f64", n)
    BY <1>2, <1>3, <1>4, <2>8, ClosestOrder
  <2>10. CASE t = "bf16"
    BY <1>2, <2>2, <2>3, <2>6, <2>7, <2>9, <2>10
  <2>11. CASE t = "f16"
    <3>1. Has("f64", m["f16"] + 2) /\ Has("f64", -m["f16"] - 2)
          /\ m["f16"] + 2 \in Int /\ -m["f16"] - 2 \in Int
      BY <2>2, TypesBeside
    <3>2. Closest("f64", m["f16"] + 2) = m["f16"] + 2 /\ Closest("f64", -m["f16"] - 2) = -m["f16"] - 2
      BY <1>3, <3>1, HasIs
    <3>3. n > m["f16"] => n >= m["f16"] + 2
      BY <1>2, <2>2, <2>3
    <3>4. n < -m["f16"] => n <= -m["f16"] - 2
      BY <1>2, <2>2, <2>3
    <3>5. /\ n > m["f16"] => Closest("f64", n) >= m["f16"] + 2
          /\ n < -m["f16"] => Closest("f64", n) <= -m["f16"] - 2
      BY <1>2, <1>3, <3>1, <3>2, <3>3, <3>4, ClosestOrder
    <3> QED
      BY <2>2, <2>6, <2>7, <2>9, <2>11, <3>5
  <2> QED
    BY <2>10, <2>11 DEF HalfTypes
<1> QED
  BY <1>8, <1>9

\* The cast of a number to a float type, for the halves by way of f64.
LEMMA CastIs ==
  ASSUME NEW t \in Types \ IntTypes, NEW v \in AnyNumber
  PROVE  /\ NumberOf(t, Cast(t, v)) /\ Cast(t, v) \in AnyNumber
         /\ Cast(t, v) = NaN <=> v = NaN
         /\ ~Finite(v) => Cast(t, v) = v
         /\ Cast(t, Zero) = Zero
<1>1. "f64" \in Types \ IntTypes
  BY DEF Types, IntTypes, FloatTypes
<1>2. AsFloat("f64", v) \in AnyNumber /\ (AsFloat("f64", v) = NaN <=> v = NaN)
      /\ (~Finite(v) => AsFloat("f64", v) = v) /\ AsFloat("f64", Zero) = Zero
  BY <1>1, FloatNumber, FloatConstants
<1>3. \A w \in AnyNumber :
        /\ NumberOf(t, AsFloat(t, w)) /\ AsFloat(t, w) \in AnyNumber
        /\ AsFloat(t, w) = NaN <=> w = NaN
        /\ ~Finite(w) => AsFloat(t, w) = w
  BY FloatNumber
<1>4. AsFloat(t, Zero) = Zero
  BY FloatConstants
<1> QED
  BY <1>2, <1>3, <1>4 DEF Cast

\* What a conversion gives, whatever type the scalar comes from.
LEMMA ConvertIs ==
  ASSUME NEW s \in AnyScalar, NEW t \in Types
  PROVE  /\ t \in IntTypes =>
              Convert(t, s) = IF ~Finite(s.v) THEN Err("InvalidValue")
                              ELSE IF s.v.n % 2 # 0 THEN Err("FractionalValue")
                              ELSE IF Fits(t, Taken(t, s.v.n)) THEN Ok(Num(Taken(t, s.v.n)))
                              ELSE Err("Overflow")
         /\ t \notin IntTypes =>
              Convert(t, s) = IF /\ t \in HalfTypes /\ s.ty \notin HalfTypes
                                 /\ Finite(s.v) /\ ~Fits(t, s.v.n)
                              THEN Err("Overflow") ELSE Ok(Cast(t, s.v))
<1>1. s.ty \in Types /\ NumberOf(s.ty, s.v) /\ s.v \in AnyNumber
  BY ScalarNumbers DEF NumberOf
<1>2. s.ty \in IntTypes =>
        Finite(s.v) /\ s.v = Num(s.v.n) /\ s.v.n % 2 = 0 /\ s.v.n \in Int /\ Fits(s.ty, s.v.n)
  BY <1>1, NumberCases, NumbersAre, TypeEnds DEF Numbers, Fits
<1>0. /\ t \in IntTypes => t \notin HalfTypes /\ t \notin FloatTypes
      /\ t \in HalfTypes => t \notin IntTypes /\ t \notin FloatTypes
  BY DEF IntTypes, HalfTypes, FloatTypes
<1>3. CASE t \in IntTypes
  <2>1. CASE s.ty \in IntTypes
    <3>1. Convert(t, s) = IF Fits(t, s.v.n) THEN Ok(s.v) ELSE Err("Overflow")
      BY <1>0, <1>3, <2>1 DEF Convert, IntToInt
    <3>2. Taken(t, s.v.n) = s.v.n
      <4>1. MaxOf[s.ty] <= MaxOf["i64"] /\ MaxOf[s.ty] \in Int /\ MaxOf["i64"] \in Int
            /\ MinOf(s.ty) \in Int
        BY <1>1, <2>1, TypesOrdered, TypeEnds DEF Types, IntTypes
      <4> QED
        BY <1>2, <2>1, <4>1 DEF Taken, Fits
    <3> QED
      BY <1>2, <1>3, <2>1, <3>1, <3>2
  <2>2. CASE s.ty \notin IntTypes
    <3>1. Convert(t, s) = FloatToInt(t, s.v)
      BY <1>0, <1>3, <2>2 DEF Convert
    <3> QED
      BY <1>1, <1>3, <3>1, FloatToIntIs
  <2> QED
    BY <2>1, <2>2
<1>4. CASE t \in HalfTypes
  <2>1. t \notin IntTypes
    BY <1>4 DEF HalfTypes, IntTypes
  <2>2. Convert(t, s) = ToHalf(t, s)
    BY <1>0, <1>4, <2>1 DEF Convert
  <2> DEFINE i == AsFloat("f64", s.v)
  <2>3. ToHalf(t, s) = IF s.ty \notin HalfTypes /\ Finite(i) /\ ~Fits(t, i.n)
                       THEN Err("Overflow") ELSE Ok(AsFloat(t, i))
    BY DEF ToHalf, HalfOf
  <2>4. Cast(t, s.v) = AsFloat(t, i)
    BY <1>4 DEF Cast
  <2>5. Finite(s.v) => Finite(i) /\ (Fits(t, i.n) <=> Fits(t, s.v.n))
    <3>1. Finite(s.v) => i = Num(F64(s.v.n)) /\ F64(s.v.n) \in Int
                         /\ (Fits(t, F64(s.v.n)) <=> Fits(t, s.v.n))
      BY <1>4, HalfEnds
    <3> HIDE DEF i
    <3> QED
      BY <3>1, NumbersAre
  <2>6. ~Finite(s.v) => ~Finite(i)
    BY <1>1, FloatNumber DEF Types, IntTypes, FloatTypes
  <2> HIDE DEF i
  <2> QED
    BY <1>4, <2>1, <2>2, <2>3, <2>4, <2>5, <2>6
<1>5. CASE t \in FloatTypes
  <2>1. s.ty \in IntTypes => Fits(t, s.v.n)
    <3>1. ASSUME s.ty \in IntTypes
          PROVE  MinOf(t) <= MinOf(s.ty) /\ MaxOf[s.ty] <= MaxOf[t]
      BY <1>5, <3>1, TypesOrdered DEF Types, FloatTypes, IntTypes
    <3>2. MinOf(t) \in Int /\ MaxOf[t] \in Int /\ MinOf(s.ty) \in Int /\ MaxOf[s.ty] \in Int
      BY <1>1, TypeEnds
    <3> QED
      BY <1>2, <3>1, <3>2 DEF Fits
  <2>2. t \notin IntTypes /\ t \notin HalfTypes
    BY <1>5 DEF FloatTypes, IntTypes, HalfTypes
  <2> QED
    BY <1>5, <2>1, <2>2 DEF Convert, ToFloat, Cast
<1> QED
  BY <1>3, <1>4, <1>5 DEF Types, IntTypes, HalfTypes, FloatTypes

\* A result is a number or an error, and its value is that of a number.
LEMMA Results ==
  /\ \A v : Ok(v).err = "none" /\ Ok(v).v = v
  /\ \A e : Err(e).err = e /\ Err(e).v = NaN
  /\ \A v, w : Ok(v) = Ok(w) <=> v = w
  /\ \A v, e : e # "none" => Err(e) # Ok(v)
BY DEF Ok, Err

\* Rounding to a float type keeps the order.
LEMMA FloatOrder ==
  ASSUME NEW t \in Types \ IntTypes, NEW v \in AnyNumber, NEW w \in AnyNumber,
         \A u \in {v, w} : Finite(u) => u.n \in -MaxOf["f64"] .. MaxOf["f64"],
         v # NaN, w # NaN, ~Less(w, v)
  PROVE  ~Less(AsFloat(t, w), AsFloat(t, v))
<1> DEFINE N(u) == Closest(t, u.n)
<1>1. ASSUME NEW u \in {v, w}
      PROVE  /\ AsFloat(t, u) \in AnyNumber
             /\ Finite(AsFloat(t, u)) => AsFloat(t, u).n \in -MaxOf["f64"] .. MaxOf["f64"]
  BY FloatNumber, FloatRange DEF NumberOf
<1>2. MaxOf[t] \in Nat /\ MinOf(t) = -MaxOf[t]
  BY TypeEnds
<1>3. ASSUME NEW u \in {v, w}
      PROVE  /\ u \in {Inf(1), Inf(-1)} => AsFloat(t, u) = u
             /\ Finite(u) => N(u) \in Int
             /\ Finite(u) /\ Fits(t, N(u)) => AsFloat(t, u) = Num(N(u))
             /\ Finite(u) /\ N(u) > MaxOf[t] => AsFloat(t, u) = Inf(1)
             /\ Finite(u) /\ N(u) < -MaxOf[t] => AsFloat(t, u) = Inf(-1)
             /\ Finite(u) \/ u \in {Inf(1), Inf(-1)}
  <2>1. u.n \in Int /\ N(u) \in Int
    BY NumbersAre, ClosestIs
  <2>2. Finite(u) => AsFloat(t, u) = IF Fits(t, N(u)) THEN Num(N(u)) ELSE Inf(Sign(N(u)))
    BY <2>1, AsFloatIs, NumbersAre
  <2> HIDE DEF N
  <2>3. /\ N(u) > MaxOf[t] => ~Fits(t, N(u)) /\ Sign(N(u)) = 1
        /\ N(u) < -MaxOf[t] => ~Fits(t, N(u)) /\ Sign(N(u)) = -1
    BY <1>2, <2>1 DEF Fits, Sign
  <2>4. u \in {Inf(1), Inf(-1)} => AsFloat(t, u) = u
    BY FloatNumber, NumbersAre
  <2>5. Finite(u) \/ u \in {Inf(1), Inf(-1)}
    BY NumbersAre
  <2> QED
    BY <2>1, <2>2, <2>3, <2>4, <2>5
<1>4. CASE Finite(v) /\ Finite(w)
  <2>1. v.n <= w.n /\ v.n \in Int /\ w.n \in Int
    BY <1>4, LessIs, NumbersAre
  <2>2. N(v) <= N(w)
    BY <2>1, ClosestOrder
  <2> HIDE DEF N
  <2>3. \A u \in {v, w} : Fits(t, N(u)) \/ N(u) > MaxOf[t] \/ N(u) < -MaxOf[t]
    BY <1>2, <1>3, <1>4 DEF Fits
  <2>4. \A u \in {v, w} : /\ Num(N(u)).n = N(u) /\ Finite(Num(N(u)))
                          /\ Num(N(u)) \notin {Inf(1), Inf(-1)}
    BY <1>3, <1>4, NumbersAre
  <2> DEFINE a == AsFloat(t, v)
             b == AsFloat(t, w)
  <2>5. Less(b, a) <=>
           \/ Finite(b) /\ Finite(a) /\ b.n < a.n
           \/ Finite(b) /\ a = Inf(1)
           \/ b = Inf(-1) /\ Finite(a)
           \/ b = Inf(-1) /\ a = Inf(1)
    <3> HIDE DEF a, b
    <3>1. a \in AnyNumber /\ b \in AnyNumber
          /\ \A u \in {a, b} : Finite(u) => u.n \in -MaxOf["f64"] .. MaxOf["f64"]
      BY <1>1 DEF a, b
    <3> QED
      BY <3>1, LessIs
  <2>6. CASE Fits(t, N(v)) /\ Fits(t, N(w))
    BY <1>3, <1>4, <2>2, <2>4, <2>5, <2>6
  <2>7. CASE N(w) > MaxOf[t]
    <3>1. b = Inf(1) /\ ~Finite(b) /\ b # Inf(-1)
      BY <1>3, <1>4, <2>7, NumbersAre
    <3> QED
      BY <2>5, <3>1
  <2>8. CASE N(v) < -MaxOf[t]
    <3>1. a = Inf(-1) /\ ~Finite(a) /\ a # Inf(1)
      BY <1>3, <1>4, <2>8, NumbersAre
    <3> QED
      BY <2>5, <3>1
  <2>9. (Fits(t, N(v)) /\ Fits(t, N(w))) \/ N(w) > MaxOf[t] \/ N(v) < -MaxOf[t]
    BY <1>2, <1>3, <1>4, <2>2, <2>3 DEF Fits
  <2> QED
    BY <2>6, <2>7, <2>8, <2>9
<1>5. CASE ~Finite(v) \/ ~Finite(w)
  <2>1. v = Inf(-1) \/ w = Inf(1)
    BY <1>3, <1>5, LessIs, NumbersAre
  <2> DEFINE a == AsFloat(t, v)
             b == AsFloat(t, w)
  <2>2. a = Inf(-1) \/ b = Inf(1)
    BY <1>3, <2>1
  <2> HIDE DEF a, b
  <2>3. a \in AnyNumber /\ b \in AnyNumber
        /\ \A u \in {a, b} : Finite(u) => u.n \in -MaxOf["f64"] .. MaxOf["f64"]
    BY <1>1 DEF a, b
  <2>4. ~Less(b, a)
    BY <2>2, <2>3, LessIs, NumbersAre
  <2> QED
    BY <2>4 DEF a, b
<1> QED
  BY <1>4, <1>5

\* And so does the cast.
LEMMA CastOrder ==
  ASSUME NEW t \in Types \ IntTypes, NEW v \in AnyNumber, NEW w \in AnyNumber,
         \A u \in {v, w} : Finite(u) => u.n \in -MaxOf["f64"] .. MaxOf["f64"],
         v # NaN, w # NaN, ~Less(w, v)
  PROVE  ~Less(Cast(t, w), Cast(t, v))
<1>1. CASE t \notin HalfTypes
  BY <1>1, FloatOrder DEF Cast
<1>2. CASE t \in HalfTypes
  <2> DEFINE a == AsFloat("f64", v)
             b == AsFloat("f64", w)
  <2>1. "f64" \in Types \ IntTypes /\ "f64" \in Types
    BY DEF Types, IntTypes, FloatTypes
  <2>2. /\ a \in AnyNumber /\ a # NaN /\ NumberOf("f64", a)
        /\ b \in AnyNumber /\ b # NaN /\ NumberOf("f64", b)
    BY <2>1, FloatNumber
  <2>3. ~Less(b, a)
    BY <2>1, FloatOrder
  <2>4. Cast(t, v) = AsFloat(t, a) /\ Cast(t, w) = AsFloat(t, b)
    BY <1>2 DEF Cast
  <2> HIDE DEF a, b
  <2>5. \A u \in {a, b} : Finite(u) => u.n \in -MaxOf["f64"] .. MaxOf["f64"]
    BY <2>1, <2>2, FloatRange
  <2> QED
    BY <2>2, <2>3, <2>4, <2>5, FloatOrder
<1> QED
  BY <1>1, <1>2

\* What is taken for a number is a number of its kind.
LEMMA TakenIs ==
  ASSUME NEW t \in IntTypes, NEW n \in Int
  PROVE  /\ Taken(t, n) \in Int /\ (n % 2 = 0 => Taken(t, n) % 2 = 0)
         /\ Fits(t, n) \/ t # "i64" => Taken(t, n) = n
BY TypeEnds DEF Taken, Types, Fits

-----------------------------------------------------------------------------
\* A step does for a number what the reference says: it refuses those that it is
\* not defined for, and makes of the others the number of the same type that is
\* their value.
Exact(step, t, x) ==
  LET taken == StepError(step, t) = "none" /\ Element(step, t, x).err = "none"
  IN  /\ taken <=> Defined(step, t, x)
      /\ taken => Element(step, t, x).v = Value(step, t, x) /\ NumberOf(t, Value(step, t, x))
      /\ StepError(step, t) # "panic"
      /\ StepError(step, t) = "none" => Element(step, t, x).err # "panic"

\* Two even numbers of halves are multiplied to an even number of halves.
LEMMA WholeProduct ==
  ASSUME NEW m \in Int, NEW n \in Int, m % 2 = 0, n % 2 = 0
  PROVE  (m * n) \div 2 \in Int /\ ((m * n) \div 2) % 2 = 0
<1>1. PICK i \in Int : m = 2 * i
  OBVIOUS
<1>2. PICK j \in Int : n = 2 * j
  OBVIOUS
<1>3. \A p \in Int : (4 * p) \div 2 = 2 * p /\ (2 * p) % 2 = 0
  OBVIOUS
<1>4. m * n = 4 * (i * j) /\ i * j \in Int
  BY <1>1, <1>2
<1> QED
  BY <1>3, <1>4

\* apply returns early for a zero of any type, and for nothing else.
LEMMA AddsNothingIs ==
  ASSUME NEW step \in AddSteps(AnyScalar)
  PROVE  AddsNothing(step) <=> step.value.v = Zero
<1>1. step.value \in AnyScalar
  BY DEF AddSteps
<1>2. Convert("u8", step.value)
        = IF ~Finite(step.value.v) THEN Err("InvalidValue")
          ELSE IF step.value.v.n % 2 # 0 THEN Err("FractionalValue")
          ELSE IF Fits("u8", step.value.v.n) THEN Ok(step.value.v) ELSE Err("Overflow")
  <2>1. step.value.v \in AnyNumber /\ step.value.v.n \in Int
        /\ (Finite(step.value.v) => step.value.v = Num(step.value.v.n))
    BY <1>1, ScalarNumbers, NumbersAre DEF NumberOf
  <2>2. Taken("u8", step.value.v.n) = step.value.v.n
    BY <2>1, TakenIs DEF IntTypes
  <2> QED
    BY <1>1, <2>1, <2>2, ConvertIs DEF Types, IntTypes
<1>3. Fits("u8", 0) /\ Finite(Zero) /\ Zero.n = 0
  BY TypeEnds DEF Fits, Types, IntTypes, Zero, Num, Finite
<1> QED
  BY <1>2, <1>3, Results DEF AddsNothing

\* The addend is what was given, where the type, or minus it for u8, holds it.
LEMMA AddendIs ==
  ASSUME NEW step \in AddSteps(AnyScalar), NEW t \in IntTypes
  PROVE  LET v == step.value.v
             h == Taken(t, v.n)
         IN  /\ Addend(step, t).err = "none" <=>
                  Whole(v) /\ (Fits(t, h) \/ (t = "u8" /\ Fits(t, -h)))
             /\ Addend(step, t).err = "none" => Addend(step, t).v = Num(h)
             /\ Addend(step, t).err # "panic"
<1> DEFINE v == step.value.v
<1>1. step.value \in AnyScalar /\ v \in AnyNumber /\ v.n \in Int
  BY ScalarNumbers, NumbersAre DEF AddSteps, NumberOf
<1>2. \A u \in IntTypes :
        Convert(u, step.value)
          = IF ~Finite(v) THEN Err("InvalidValue")
            ELSE IF v.n % 2 # 0 THEN Err("FractionalValue")
            ELSE IF Fits(u, Taken(u, v.n)) THEN Ok(Num(Taken(u, v.n))) ELSE Err("Overflow")
  BY <1>1, ConvertIs DEF Types
<1> HIDE DEF v
<1>3. \A u \in IntTypes :
        /\ Convert(u, step.value).err = "none" <=> Whole(v) /\ Fits(u, Taken(u, v.n))
        /\ Convert(u, step.value).err = "none" => Convert(u, step.value).v = Num(Taken(u, v.n))
        /\ Convert(u, step.value).err # "panic"
  BY <1>2, Results DEF Whole
<1>4. CASE t # "u8"
  BY <1>3, <1>4 DEF Addend, Signed, v
<1>5. CASE t = "u8"
  <2> DEFINE c == Convert("i32", step.value)
  <2>0. Taken("i32", v.n) = v.n /\ Taken("u8", v.n) = v.n
    BY <1>1, TakenIs DEF IntTypes
  <2>1. /\ c.err = "none" <=> Whole(v) /\ Fits("i32", v.n)
        /\ c.err = "none" => c.v = Num(v.n)
        /\ c.err # "panic"
    BY <1>3, <2>0 DEF IntTypes
  <2>2. Addend(step, t) = IF c.err = "none" /\ c.v.n \notin -MaxOf["u8"] .. MaxOf["u8"]
                          THEN Err("Overflow") ELSE c
    BY <1>5 DEF Addend, Signed
  <2> HIDE DEF c
  <2>3. /\ MaxOf["u8"] \in Nat /\ MinOf("u8") = 0 /\ MinOf("i32") = -MaxOf["i32"] - 2
        /\ MaxOf["i32"] \in Nat /\ MaxOf["u8"] <= MaxOf["i32"]
    BY TypeEnds, TypesOrdered DEF MinOf, Types, IntTypes
  <2>4. /\ v.n \in -MaxOf["u8"] .. MaxOf["u8"] <=> Fits("u8", v.n) \/ Fits("u8", -v.n)
        /\ v.n \in -MaxOf["u8"] .. MaxOf["u8"] => Fits("i32", v.n)
    BY <1>1, <2>3 DEF Fits
  <2>5. Num(v.n).n = v.n
    BY <1>1, NumbersAre
  <2> QED
    BY <1>5, <2>0, <2>1, <2>2, <2>4, <2>5, Results DEF v
<1> QED
  BY <1>4, <1>5

\* Add on integers: the reference takes the number congruent to the sum.
LEMMA AddIsExactOnIntegers ==
  ASSUME NEW step \in AddSteps(AnyScalar), NEW t \in IntTypes, NEW x, NumberOf(t, x)
  PROVE  Exact(step, t, x)
<1> DEFINE v == step.value.v
           k == Taken(t, v.n)
           n == x.n + k
           h == IF AddsNothing(step) THEN Zero ELSE Addend(step, t).v
<1>1. step.op = "add" /\ step.wrapping \in BOOLEAN /\ v \in AnyNumber /\ v.n \in Int
  BY ScalarNumbers, NumbersAre DEF AddSteps, NumberOf
<1>k. k \in Int /\ (Whole(v) => k % 2 = 0) /\ Num(k).n = k
  BY <1>1, TakenIs, NumbersAre DEF Whole
<1>2. t \in Types /\ Finite(x) /\ x.n \in Int /\ x.n % 2 = 0 /\ Fits(t, x.n)
  BY NumberCases, NumbersAre, TypeEnds DEF Types, Numbers, Fits
<1>3. MinOf(t) \in Int /\ MaxOf[t] \in Int /\ Fits(t, 0)
  BY <1>2, TypeEnds DEF Fits
<1>4. StepError(step, t) = IF AddsNothing(step) THEN "none" ELSE Addend(step, t).err
  BY <1>1 DEF StepError
<1>5. AddsNothing(step) => Zero = Num(k) /\ Whole(v) /\ Fits(t, k)
  <2>1. AddsNothing(step) => v = Zero /\ Whole(v) /\ Fits(t, v.n) /\ v.n = 0
    BY <1>3, AddsNothingIs DEF Zero, Num, Whole, Finite
  <2> QED
    BY <1>1, <2>1, TakenIs DEF Zero
<1>6. /\ StepError(step, t) = "none" <=>
           Whole(v) /\ (Fits(t, k) \/ (t = "u8" /\ Fits(t, -k)))
      /\ StepError(step, t) = "none" => h = Num(k)
      /\ StepError(step, t) # "panic"
  BY <1>4, <1>5, AddendIs
<1>7. Element(step, t, x) =
        IF step.wrapping THEN Ok(Num(Wrapped(t, x.n + h.n)))
        ELSE IF Fits(t, x.n + h.n) THEN Ok(Num(x.n + h.n)) ELSE Err("Overflow")
  BY <1>1 DEF Element, AddTo, Sum
<1>8. Defined(step, t, x) <=>
         /\ Whole(v)
         /\ Fits(t, k) \/ (t = "u8" /\ Fits(t, -k))
         /\ step.wrapping \/ Fits(t, n)
  BY <1>1 DEF Defined
<1>9. Value(step, t, x) =
        Num(CHOOSE j \in Numbers(t) : (j - n) % (2 * Cardinality(Numbers(t))) = 0)
  BY <1>1 DEF Value
<1> HIDE DEF h, v, k
<1>10. ASSUME StepError(step, t) = "none"
       PROVE  /\ Element(step, t, x).err = "none" <=> step.wrapping \/ Fits(t, n)
              /\ Element(step, t, x).err # "panic"
              /\ Element(step, t, x).err = "none" =>
                   Element(step, t, x).v = Value(step, t, x) /\ NumberOf(t, Value(step, t, x))
  <2>1. n \in Int /\ n % 2 = 0
    BY <1>2, <1>k, <1>6, <1>10
  <2>2. Value(step, t, x) = Num(Wrapped(t, n))
    <3> HIDE DEF n
    <3>1. \A j \in Numbers(t) :
            (j - n) % (2 * Cardinality(Numbers(t))) = 0 <=> j = Wrapped(t, n)
      BY <2>1, WrappedNumber, NumbersCounted
    <3>2. Wrapped(t, n) \in Numbers(t)
      BY <2>1, WrappedNumber
    <3> QED
      BY <1>9, <3>1, <3>2
  <2>3. Fits(t, n) => n = Wrapped(t, n)
    <3> HIDE DEF n
    <3>1. Fits(t, n) => n \in Numbers(t)
      BY <2>1 DEF Fits, Numbers
    <3>2. \A w \in Int : w > 0 => (n - n) % w = 0
      BY <2>1
    <3>3. MaxOf[t] - MinOf(t) + 2 \in Int /\ MaxOf[t] - MinOf(t) + 2 > 0
      BY <1>2, <1>3, TypeEnds
    <3> QED
      BY <2>1, <3>1, <3>2, <3>3, WrappedNumber
  <2>4. NumberOf(t, Num(Wrapped(t, n)))
    BY <1>2, <2>1, NumberCases, WrappedNumber
  <2>5. h.n = k
    BY <1>k, <1>6, <1>10
  <2> HIDE DEF n
  <2>6. Element(step, t, x) =
        IF step.wrapping THEN Ok(Num(Wrapped(t, n)))
        ELSE IF Fits(t, n) THEN Ok(Num(n)) ELSE Err("Overflow")
    BY <1>7, <2>5 DEF n
  <2> QED
    BY <2>2, <2>3, <2>4, <2>6, Results
<1> QED
  BY <1>6, <1>8, <1>10 DEF Exact

\* Add on floats.
LEMMA AddIsExactOnFloats ==
  ASSUME NEW step \in AddSteps(AnyScalar), NEW t \in Types \ IntTypes, NEW x, NumberOf(t, x)
  PROVE  Exact(step, t, x)
<1> DEFINE s == step.value
           c == Convert(t, s)
<1>1. step.op = "add" /\ s \in AnyScalar /\ s.v \in AnyNumber
  BY ScalarNumbers DEF AddSteps, NumberOf
<1>2. c.err # "panic" /\ (c.err = "none" => c.v = Cast(t, s.v))
  BY <1>1, ConvertIs, Results
<1>3. AddsNothing(step) => s.v = Zero /\ c.err = "none"
  <2>1. Fits(t, 0) /\ Zero.n = 0
    BY TypeEnds DEF Fits, Zero, Num
  <2> QED
    BY <1>1, <2>1, AddsNothingIs, ConvertIs, Results
<1>4. t # "u8"
  BY DEF IntTypes
<1>5. StepError(step, t) = IF AddsNothing(step) THEN "none" ELSE c.err
  BY <1>1, <1>4 DEF StepError, Addend, Signed
<1>6. Element(step, t, x) = Ok(FloatAdd(t, x, IF AddsNothing(step) THEN Zero ELSE c.v))
  BY <1>1, <1>4 DEF Element, AddTo, Sum, Addend, Signed
<1>7. Defined(step, t, x) <=> c.err = "none"
  BY <1>1 DEF Defined
<1>8. Value(step, t, x) = FloatAdd(t, x, Cast(t, s.v))
  BY <1>1 DEF Value
<1> HIDE DEF c, s
<1>9. NumberOf(t, FloatAdd(t, x, Cast(t, s.v)))
  BY <1>1, CastIs, FloatArithmetic
<1>10. Cast(t, Zero) = Zero
  BY NumbersAre, CastIs
<1>11. StepError(step, t) # "panic"
  BY <1>2, <1>5
<1> QED
  BY <1>2, <1>3, <1>5, <1>6, <1>7, <1>8, <1>9, <1>10, <1>11, Results DEF Exact

\* Scale, on integers and floats.
LEMMA ScaleIsExact ==
  ASSUME NEW step \in ScaleSteps(AnyScalar), NEW t \in Types, NEW x, NumberOf(t, x)
  PROVE  Exact(step, t, x)
<1> DEFINE s == step.factor
           c == Convert(t, s)
           f == Taken(t, s.v.n)
           n == (x.n * f) \div 2
<1>1. step.op = "scale" /\ s \in AnyScalar /\ s.v \in AnyNumber /\ s.v.n \in Int
  BY ScalarNumbers, NumbersAre DEF ScaleSteps, NumberOf
<1>2. StepError(step, t) = c.err /\ Element(step, t, x) = ScaleBy(step, t, x)
  BY <1>1 DEF StepError, Element
<1>3. CASE t \in IntTypes
  <2>0. f \in Int /\ (Whole(s.v) => f % 2 = 0) /\ Num(f).n = f
    BY <1>1, <1>3, TakenIs, NumbersAre DEF Whole
  <2>1. c = IF ~Finite(s.v) THEN Err("InvalidValue")
            ELSE IF s.v.n % 2 # 0 THEN Err("FractionalValue")
            ELSE IF Fits(t, f) THEN Ok(Num(f)) ELSE Err("Overflow")
    BY <1>1, <1>3, ConvertIs
  <2>2. ScaleBy(step, t, x) = IF Fits(t, (x.n * c.v.n) \div 2)
                              THEN Ok(Num((x.n * c.v.n) \div 2)) ELSE Err("Overflow")
    BY <1>3 DEF ScaleBy, Product
  <2>3. Defined(step, t, x) <=> Whole(s.v) /\ Fits(t, f) /\ Fits(t, n)
    BY <1>1, <1>3 DEF Defined
  <2>4. Value(step, t, x) = Num(n)
    BY <1>1, <1>3 DEF Value
  <2>5. Fits(t, n) /\ Whole(s.v) => NumberOf(t, Num(n))
    <3>1. x.n \in Int /\ x.n % 2 = 0
      BY <1>3, NumberCases, NumbersAre, TypeEnds DEF Numbers
    <3>2. Whole(s.v) => n \in Int /\ n % 2 = 0
      BY <2>0, <3>1, WholeProduct
    <3> HIDE DEF n
    <3>3. Fits(t, n) /\ Whole(s.v) => n \in Numbers(t)
      BY <3>2 DEF Fits, Numbers
    <3> QED
      BY <1>3, <3>3, NumberCases
  <2>6. c.err # "panic" /\ (c.err = "none" <=> Whole(s.v) /\ Fits(t, f))
    BY <2>1, Results DEF Whole
  <2>7. c.err = "none" => c.v.n = f
    BY <2>0, <2>1, Results
  <2> HIDE DEF c, s, f
  <2>8. c.err = "none" => Element(step, t, x) = IF Fits(t, n) THEN Ok(Num(n)) ELSE Err("Overflow")
    BY <1>2, <2>2, <2>7
  <2> HIDE DEF n
  <2> QED
    BY <1>2, <2>3, <2>4, <2>5, <2>6, <2>8, Results DEF Exact
<1>4. CASE t \notin IntTypes
  <2>1. c.err # "panic" /\ (c.err = "none" => c.v = Cast(t, s.v))
    BY <1>1, <1>4, ConvertIs, Results
  <2>2. ScaleBy(step, t, x) = Ok(FloatMul(t, x, c.v))
    BY <1>4 DEF ScaleBy, Product
  <2>3. Defined(step, t, x) <=> c.err = "none"
    BY <1>1, <1>4 DEF Defined
  <2>4. Value(step, t, x) = FloatMul(t, x, Cast(t, s.v))
    BY <1>1, <1>4 DEF Value
  <2> HIDE DEF c, s
  <2>5. NumberOf(t, FloatMul(t, x, Cast(t, s.v)))
    BY <1>1, <1>4, CastIs, FloatArithmetic
  <2> QED
    BY <1>2, <2>1, <2>2, <2>3, <2>4, <2>5, Results DEF Exact
<1> QED
  BY <1>3, <1>4

\* Standardize is refused for integers and for a deviation that becomes zero.
LEMMA StandardizeIsExact ==
  ASSUME NEW step \in StandardizeSteps(AnyScalar), NEW t \in Types, NEW x, NumberOf(t, x)
  PROVE  Exact(step, t, x)
<1> DEFINE mean == Convert(t, step.mean)
           std  == Convert(t, step.std)
<1>1. /\ step.op = "standardize"
      /\ step.mean \in AnyScalar /\ step.mean.v \in AnyNumber
      /\ step.std \in AnyScalar /\ step.std.v \in AnyNumber
  BY ScalarNumbers DEF StandardizeSteps, NumberOf
<1>2. StepError(step, t) = StandardizeError(step, t)
      /\ Element(step, t, x) = StandardizeElement(step, t, x)
  BY <1>1 DEF StepError, Element
<1>3. Defined(step, t, x) <=>
         /\ t \notin IntTypes
         /\ mean.err = "none" /\ std.err = "none"
         /\ Cast(t, step.std.v) # Zero
  BY <1>1 DEF Defined
<1>4. CASE t \in IntTypes
  <2>1. StandardizeError(step, t) = "UnsupportedDtype"
    BY <1>4 DEF StandardizeError, MomentsError
  <2> QED
    BY <1>2, <1>3, <1>4, <2>1 DEF Exact
<1>5. CASE t \notin IntTypes
  <2>1. /\ mean.err # "panic" /\ std.err # "panic"
        /\ mean.err = "none" => mean.v = Cast(t, step.mean.v)
        /\ std.err = "none" => std.v = Cast(t, step.std.v)
    BY <1>1, <1>5, ConvertIs, Results
  <2>2. StandardizeError(step, t) = "none" <=> mean.err = "none" /\ std.err = "none" /\ std.v # Zero
    BY <1>5 DEF StandardizeError, MomentsError
  <2>6. StandardizeError(step, t) # "panic"
    BY <1>5, <2>1 DEF StandardizeError, MomentsError
  <2>3. StandardizeElement(step, t, x) = Ok(FloatDiv(t, FloatAdd(t, x, Negative(mean.v)), std.v))
    BY DEF StandardizeElement
  <2>4. Value(step, t, x)
          = FloatDiv(t, FloatAdd(t, x, Negative(Cast(t, step.mean.v))), Cast(t, step.std.v))
    BY <1>1 DEF Value
  <2> HIDE DEF mean, std
  <2>5. NumberOf(t, Value(step, t, x))
    <3>1. NumberOf(t, Cast(t, step.mean.v)) /\ NumberOf(t, Cast(t, step.std.v))
      BY <1>1, <1>5, CastIs
    <3>2. NumberOf(t, FloatAdd(t, x, Negative(Cast(t, step.mean.v))))
      BY <1>5, <3>1, FloatArithmetic
    <3> QED
      BY <1>5, <2>4, <3>1, <3>2, FloatArithmetic
  <2> QED
    BY <1>2, <1>3, <1>5, <2>1, <2>2, <2>3, <2>4, <2>5, <2>6, Results DEF Exact
<1> QED
  BY <1>4, <1>5

-----------------------------------------------------------------------------
AnyClamp == ClampSteps(AnyScalar \cup {NoBound}, Rounding)

\* What `new` accepts: bounds of one type, in order, and not NaN.
LEMMA ClampFields ==
  ASSUME NEW step \in AnyClamp
  PROVE  /\ step.op = "clamp" /\ step.rounding \in Rounding /\ step.saturate \in BOOLEAN
         /\ \A b \in {step.min, step.max} :
              b # NoBound => /\ b \in AnyScalar /\ b.v \in AnyNumber /\ b.v # NaN /\ b.v.n \in Int
                             /\ Finite(b.v) => b.v.n \in -MaxOf["f64"] .. MaxOf["f64"]
                             /\ Finite(b.v) => Has("f64", b.v.n) \/ (Fits("i64", b.v.n) /\ b.v.n % 2 = 0)
         /\ step.min # NoBound /\ step.max # NoBound =>
              step.min.ty = step.max.ty /\ ~Less(step.max.v, step.min.v)
<1>1. /\ step.op = "clamp" /\ step.rounding \in Rounding /\ step.saturate \in BOOLEAN
      /\ \A b \in {step.min, step.max} :
           b \in AnyScalar \cup {NoBound} /\ (b # NoBound => b.v.is # "nan")
      /\ step.min # NoBound /\ step.max # NoBound =>
           step.min.ty = step.max.ty /\ ~Less(step.max.v, step.min.v)
  BY DEF AnyClamp, ClampSteps
<1>2. ASSUME NEW b \in AnyScalar
      PROVE  /\ b.v \in AnyNumber /\ b.v.n \in Int
             /\ Finite(b.v) => b.v.n \in -MaxOf["f64"] .. MaxOf["f64"]
             /\ Finite(b.v) => Has("f64", b.v.n) \/ (Fits("i64", b.v.n) /\ b.v.n % 2 = 0)
  <2>1. b.ty \in Types /\ NumberOf(b.ty, b.v) /\ b.v \in AnyNumber /\ b.v.n \in Int
    BY ScalarNumbers, NumbersAre DEF NumberOf
  <2>2. SUFFICES ASSUME Finite(b.v)
                 PROVE  /\ b.v.n \in -MaxOf["f64"] .. MaxOf["f64"]
                        /\ Has("f64", b.v.n) \/ (Fits("i64", b.v.n) /\ b.v.n % 2 = 0)
    BY <2>1
  <2>3. /\ b.v.n \in -MaxOf["f64"] .. MaxOf["f64"] /\ Fits(b.ty, b.v.n)
        /\ b.ty \in IntTypes => b.v.n % 2 = 0
        /\ b.ty \notin IntTypes => Has(b.ty, b.v.n)
    BY <2>1, <2>2, FloatRange
  <2>4. b.ty \in IntTypes => Fits("i64", b.v.n)
    <3>1. b.ty \in IntTypes => MinOf("i64") <= MinOf(b.ty) /\ MaxOf[b.ty] <= MaxOf["i64"]
      BY TypesOrdered
    <3>2. "i64" \in Types /\ b.ty \in Types
      BY <2>1 DEF Types, IntTypes
    <3>3. MinOf("i64") \in Int /\ MaxOf["i64"] \in Int /\ MinOf(b.ty) \in Int /\ MaxOf[b.ty] \in Int
      BY <3>2, TypeEnds
    <3> QED
      BY <2>1, <2>3, <3>1, <3>3 DEF Fits
  <2> QED
    BY <2>1, <2>3, <2>4, TypesBeside
<1>3. NaN.is = "nan"
  BY NumbersAre
<1> QED
  BY <1>1, <1>2, <1>3

\* The rounding of a bound that is a fraction, or none.
LEMMA WholeNearIs ==
  ASSUME NEW mode \in Rounding, NEW n \in Int, n % 2 = 0 \/ mode # "error"
  PROVE  /\ WholeNear(mode, n) \in Int /\ WholeNear(mode, n) % 2 = 0
         /\ WholeNear(mode, n) = IF n % 2 = 0 THEN n ELSE Rounded(mode, n)
<1> DEFINE Good(m) == /\ m % 2 = 0
                      /\ n % 2 # 0 => CASE mode = "floor" -> m < n
                                        [] mode = "ceil"  -> m > n
                                        [] mode = "round" -> (m > n) <=> (n > 0)
           w == IF n % 2 = 0 THEN n ELSE Rounded(mode, n)
<1>1. WholeNear(mode, n) = CHOOSE m \in {n - 1, n, n + 1} : Good(m)
  BY DEF WholeNear
<1>2. CASE n % 2 = 0
  <2>1. \A m : Good(m) <=> m % 2 = 0
    BY <1>2, Zenon
  <2>2. (n - 1) % 2 # 0 /\ (n + 1) % 2 # 0
    BY <1>2
  <2> HIDE DEF Good
  <2> QED
    BY <1>1, <1>2, <2>1, <2>2
<1>3. CASE n % 2 # 0
  <2>1. n # 0 /\ (n - 1) % 2 = 0 /\ (n + 1) % 2 = 0
    BY <1>3
  <2>2. CASE mode = "floor"
    <3>1. \A m \in {n - 1, n, n + 1} : Good(m) <=> m = n - 1
      BY <1>3, <2>1, <2>2
    <3>2. w = n - 1
      BY <1>3, <2>2 DEF Rounded
    <3> HIDE DEF Good, w
    <3> QED
      BY <1>1, <1>3, <2>1, <3>1, <3>2 DEF w
  <2>3. CASE mode = "ceil"
    <3>1. \A m \in {n - 1, n, n + 1} : Good(m) <=> m = n + 1
      BY <1>3, <2>1, <2>3
    <3>2. w = n + 1
      BY <1>3, <2>3 DEF Rounded
    <3> HIDE DEF Good, w
    <3> QED
      BY <1>1, <1>3, <2>1, <3>1, <3>2 DEF w
  <2>4. CASE mode = "round"
    <3>1. \A m \in {n - 1, n, n + 1} : Good(m) <=> m = n + Sign(n)
      BY <1>3, <2>1, <2>4 DEF Sign
    <3>2. w = n + Sign(n)
      BY <1>3, <2>4 DEF Rounded
    <3>3. n + Sign(n) \in {n - 1, n + 1}
      BY <2>1 DEF Sign
    <3> HIDE DEF Good, w
    <3> QED
      BY <1>1, <1>3, <2>1, <3>1, <3>2, <3>3 DEF w
  <2> QED
    BY <1>3, <2>2, <2>3, <2>4 DEF Rounding
<1> QED
  BY <1>2, <1>3

\* Rounding keeps the order of the bounds.
LEMMA WholeNearOrder ==
  ASSUME NEW mode \in Rounding, NEW m \in Int, NEW n \in Int,
         m % 2 = 0 \/ mode # "error", n % 2 = 0 \/ mode # "error", m <= n
  PROVE  WholeNear(mode, m) <= WholeNear(mode, n)
<1>1. /\ WholeNear(mode, m) = IF m % 2 = 0 THEN m ELSE Rounded(mode, m)
      /\ WholeNear(mode, n) = IF n % 2 = 0 THEN n ELSE Rounded(mode, n)
  BY WholeNearIs
<1>2. CASE mode = "floor"
  BY <1>1, <1>2 DEF Rounded
<1>3. CASE mode = "ceil"
  BY <1>1, <1>3 DEF Rounded
<1>4. CASE mode = "round"
  BY <1>1, <1>4 DEF Rounded, Sign
<1>5. CASE mode = "error"
  BY <1>1, <1>5
<1> QED
  BY <1>2, <1>3, <1>4, <1>5 DEF Rounding

\* Clipping gives whole numbers of the type, in the order of what is clipped.
LEMMA ClipIs ==
  ASSUME NEW t \in Types, NEW m \in Int, NEW n \in Int
  PROVE  /\ Clip(t, n) \in MinOf(t) .. MaxOf[t]
         /\ Fits(t, n) => Clip(t, n) = n
         /\ n % 2 = 0 => Clip(t, n) % 2 = 0
         /\ m <= n => Clip(t, m) <= Clip(t, n)
         /\ t \in IntTypes /\ Fits(t, Taken(t, n)) => Taken(t, n) = Clip(t, n)
BY TypeEnds DEF Clip, Fits, Taken

\* A bound resolved for an integer type is the type's number nearest to the whole
\* number it stands for, and one that overflows lies beyond an end as an f64, too.
LEMMA IntBound ==
  ASSUME NEW step \in AnyClamp, NEW t \in IntTypes,
         NEW b \in {step.min, step.max}, b # NoBound
  PROVE  LET r == Resolve(step, t, b)
             near == WholeNear(step.rounding, b.v.n)
         IN  /\ r.err = "none" <=> BoundAllowed(step, t, b)
             /\ r.err # "panic"
             /\ r.err = "none" =>
                  /\ r.v = Num(Clip(t, near)) /\ near \in Int /\ near % 2 = 0
                  /\ Finite(b.v) /\ (b.v.n % 2 = 0 \/ step.rounding # "error")
<1> DEFINE n == b.v.n
           r == Resolve(step, t, b)
           near == WholeNear(step.rounding, n)
           c == Convert(t, b)
<1>1. /\ b \in AnyScalar /\ b.v \in AnyNumber /\ n \in Int
      /\ step.rounding \in Rounding /\ step.saturate \in BOOLEAN
      /\ Finite(b.v) => Has("f64", n) \/ (Fits("i64", n) /\ n % 2 = 0)
  BY ClampFields
<1>2. c = IF ~Finite(b.v) THEN Err("InvalidValue")
          ELSE IF n % 2 # 0 THEN Err("FractionalValue")
          ELSE IF Fits(t, Taken(t, n)) THEN Ok(Num(Taken(t, n))) ELSE Err("Overflow")
  BY <1>1, ConvertIs DEF Types
<1>3. r = ResolveInt(step, t, b)
  BY DEF Resolve
<1>4. BoundAllowed(step, t, b) <=>
        /\ Finite(b.v)
        /\ n % 2 = 0 \/ step.rounding # "error"
        /\ Fits(t, Taken(t, near)) \/ step.saturate
  BY DEF BoundAllowed, Whole
<1>5. ASSUME NEW k \in Int, k % 2 = 0, Has("f64", k) \/ Fits("i64", k)
      PROVE  /\ Fits(t, Taken(t, k)) => Taken(t, k) = Clip(t, k)
             /\ ~Fits(t, Taken(t, k)) =>
                  /\ ~Unreachable(step, t, k)
                  /\ Saturated(step, t, k)
                       = IF step.saturate THEN Ok(Num(Clip(t, k))) ELSE Err("Overflow")
  <2>1. MinOf(t) \in Int /\ MaxOf[t] \in Int /\ MinOf(t) <= MaxOf[t]
    BY TypeEnds DEF Types
  <2>2. ~Fits(t, Taken(t, k)) =>
          /\ F64(k) \notin F64(MinOf(t)) .. F64(MaxOf[t])
          /\ F64(k) < F64(MinOf(t)) <=> k < MinOf(t)
          /\ k < MinOf(t) \/ k > MaxOf[t]
    BY <1>5, BeyondEnd
  <2>3. ~Fits(t, Taken(t, k)) => Clip(t, k) = IF F64(k) < F64(MinOf(t)) THEN MinOf(t) ELSE MaxOf[t]
    BY <1>5, <2>1, <2>2 DEF Clip
  <2>4. Fits(t, Taken(t, k)) => Taken(t, k) = Clip(t, k)
    BY <1>5, ClipIs DEF Types
  <2> QED
    BY <2>2, <2>3, <2>4 DEF Unreachable, Saturated
<1>6. ASSUME NEW k \in Int, k % 2 = 0, Has("f64", k)
      PROVE  RoundedBound(step, t, k)
               = IF Fits(t, Taken(t, k)) \/ step.saturate THEN Ok(Num(Clip(t, k))) ELSE Err("Overflow")
  <2>1. FloatToInt(t, Num(k)) = IF Fits(t, Taken(t, k)) THEN Ok(Num(Taken(t, k))) ELSE Err("Overflow")
    BY <1>6, FloatToIntIs, NumbersAre
  <2> QED
    BY <1>5, <1>6, <2>1, Results DEF RoundedBound, OrSaturated
<1> HIDE DEF n, near, c
<1>7. CASE ~Finite(b.v)
  <2>1. r = Err("InvalidValue")
    BY <1>2, <1>3, <1>7, Results DEF ResolveInt, IntBoundOf, c
  <2> QED
    BY <1>4, <1>7, <2>1, Results DEF n
<1>8. CASE Finite(b.v) /\ n % 2 # 0
  <2>1. CASE step.rounding = "error"
    <3>1. r = Err("FractionalValue")
      BY <1>2, <1>3, <1>8, <2>1, Results DEF ResolveInt, IntBoundOf, c
    <3> QED
      BY <1>4, <1>8, <2>1, <3>1, Results DEF n
  <2>2. CASE step.rounding # "error"
    <3>1. near \in Int /\ near % 2 = 0 /\ near = Rounded(step.rounding, n)
      BY <1>1, <1>8, <2>2, WholeNearIs DEF near
    <3>2. r = RoundedBound(step, t, near)
      BY <1>2, <1>3, <1>8, <2>2, <3>1, Results DEF ResolveInt, IntBoundOf, c, n
    <3>3. near \in {n - 1, n + 1}
      BY <1>1, <1>8, <2>2, <3>1 DEF Rounded, Rounding, Sign
    <3>4. Has("f64", near)
      BY <1>1, <1>8, <3>3, TypesBeside
    <3> QED
      BY <1>1, <1>4, <1>6, <1>8, <2>2, <3>1, <3>2, <3>4, Results DEF near, n
  <2> QED
    BY <2>1, <2>2
<1>9. CASE Finite(b.v) /\ n % 2 = 0
  <2>1. near = n
    BY <1>1, <1>9, WholeNearIs DEF near
  <2>2. Has("f64", n) \/ Fits("i64", n)
    BY <1>1, <1>9
  <2>3. r = IF Fits(t, Taken(t, n)) \/ step.saturate THEN Ok(Num(Clip(t, n))) ELSE Err("Overflow")
    <3>1. CASE Fits(t, Taken(t, n))
      <4>1. c = Ok(Num(Clip(t, n)))
        BY <1>1, <1>2, <1>5, <1>9, <2>2, <3>1
      <4>2. r = c
        BY <1>3, <4>1, Results DEF ResolveInt, IntBoundOf, c
      <4> QED
        BY <3>1, <4>1, <4>2
    <3>2. CASE ~Fits(t, Taken(t, n))
      <4>1. c = Err("Overflow")
        BY <1>2, <1>9, <3>2
      <4>2. ~Unreachable(step, t, n)
            /\ Saturated(step, t, n) = IF step.saturate THEN Ok(Num(Clip(t, n))) ELSE Err("Overflow")
        BY <1>1, <1>5, <1>9, <2>2, <3>2
      <4>3. r = Saturated(step, t, n)
        BY <1>3, <4>1, <4>2, Results DEF ResolveInt, IntBoundOf, c, n
      <4> QED
        BY <3>2, <4>2, <4>3
    <3> QED
      BY <3>1, <3>2
  <2> QED
    BY <1>1, <1>4, <1>9, <2>1, <2>3, Results DEF near, n
<1> QED
  BY <1>7, <1>8, <1>9

\* Both bounds are resolved exactly when both are allowed.
LEMMA ResolveErrorIs ==
  ASSUME NEW step \in AnyClamp, NEW t \in Types
  PROVE  /\ StepError(step, t) = "none" <=>
              \A b \in {step.min, step.max} : b # NoBound => Resolve(step, t, b).err = "none"
         /\ (\A b \in {step.min, step.max} : b # NoBound => Resolve(step, t, b).err # "panic")
              => StepError(step, t) # "panic"
<1>1. StepError(step, t) = ResolveError(step, t)
  BY ClampFields DEF StepError
<1> QED
  BY <1>1 DEF ResolveError, FirstError

\* What two bounds leave of a type's numbers, the nearest end of the type when
\* they leave nothing, and the number of these that is nearest to x.
Within(t, L, H) == { n \in Numbers(t) : n >= L /\ n <= H }

Allowed(t, L, H) ==
  IF Within(t, L, H) # {} THEN Within(t, L, H)
  ELSE IF \A n \in Numbers(t) : n <= H THEN {MaxOf[t]} ELSE {MinOf(t)}

Chosen(t, L, H, x) ==
  IF x < Clip(t, L) THEN Clip(t, L) ELSE IF Clip(t, H) < x THEN Clip(t, H) ELSE x

\* That number is the only one nearest to x.
LEMMA NearestAllowed ==
  ASSUME NEW t \in IntTypes, NEW x \in Numbers(t),
         NEW L \in Int, NEW H \in Int, L % 2 = 0, H % 2 = 0,
         L <= H \/ L = MinOf(t) \/ H = MaxOf[t]
  PROVE  /\ Chosen(t, L, H, x) \in Numbers(t) /\ Chosen(t, L, H, x) \in Allowed(t, L, H)
         /\ \A n \in Allowed(t, L, H) :
              (\A m \in Allowed(t, L, H) : Distance(n, x) <= Distance(m, x))
                <=> n = Chosen(t, L, H, x)
<1> DEFINE inside  == { n \in Numbers(t) : n >= L /\ n <= H }
           between == IF inside # {} THEN inside
                      ELSE IF \A n \in Numbers(t) : n <= H THEN {MaxOf[t]} ELSE {MinOf(t)}
           lo == Clip(t, L)
           hi == Clip(t, H)
           z == IF x < lo THEN lo ELSE IF hi < x THEN hi ELSE x
           a == MinOf(t)
           b == MaxOf[t]
<1>1. a \in Int /\ b \in Int /\ a <= b /\ a % 2 = 0 /\ b % 2 = 0
  BY TypeEnds DEF Types
<1>2. lo = (IF L < a THEN a ELSE IF L > b THEN b ELSE L)
      /\ hi = (IF H < a THEN a ELSE IF H > b THEN b ELSE H)
  BY DEF Clip
<1>3. Numbers(t) = { n \in a .. b : n % 2 = 0 }
  BY DEF Numbers
<1>4. x \in Int /\ a <= x /\ x <= b /\ x % 2 = 0
  BY <1>3
<1>5. L <= H \/ L = a \/ H = b
  OBVIOUS
<1> HIDE DEF a, b, lo, hi
<1>6. z \in Numbers(t)
  BY <1>1, <1>2, <1>3, <1>4
<1>7. ASSUME z \in between,
             \A m \in between : m \in Int /\ (m = z \/ Distance(z, x) < Distance(m, x))
      PROVE  \A n \in between : (\A m \in between : Distance(n, x) <= Distance(m, x)) <=> n = z
  <2>1. z \in Int
    BY <1>7
  <2> HIDE DEF z, between
  <2>2. \A m \in between : Distance(m, x) \in Int
    BY <1>4, <1>7 DEF Distance
  <2> QED
    BY <1>7, <2>1, <2>2
<1>8. CASE inside # {}
  <2>1. PICK k \in Numbers(t) : k >= L /\ k <= H
    BY <1>8
  <2>2. between = inside
    BY <1>8
  <2>3. z \in inside
    BY <1>1, <1>2, <1>3, <1>4, <2>1
  <2>4. ASSUME NEW m \in inside
        PROVE  m \in Int /\ (m = z \/ Distance(z, x) < Distance(m, x))
    <3>1. m \in Int /\ a <= m /\ m <= b /\ m >= L /\ m <= H
      BY <1>1, <1>3
    <3>2. m >= lo /\ m <= hi
      BY <1>1, <1>2, <1>4, <3>1
    <3>3. lo \in Int /\ hi \in Int
      BY <1>1, <1>2
    <3> HIDE DEF inside
    <3> QED
      BY <1>4, <3>1, <3>2, <3>3 DEF Distance
  <2> HIDE DEF z, inside, between
  <2> QED
    BY <1>6, <1>7, <2>2, <2>3, <2>4 DEF z, inside, between, lo, hi, a, b, Chosen, Allowed, Within
<1>9. CASE inside = {}
  <2>1. \A k \in Int : a <= k /\ k <= b /\ k % 2 = 0 => k < L \/ k > H
    BY <1>1, <1>3, <1>9
  <2>2. L > b \/ H < a
    BY <1>1, <1>5, <2>1
  <2>3. CASE L > b
    <3>1. \A n \in Numbers(t) : n <= H
      BY <1>1, <1>3, <1>5, <2>3
    <3>2. between = {b}
      BY <1>9, <3>1 DEF b
    <3>3. z = b
      BY <1>1, <1>2, <1>4, <1>5, <2>3
    <3> HIDE DEF z, between
    <3> QED
      BY <1>1, <1>6, <1>7, <3>2, <3>3 DEF z, between, inside, lo, hi, a, b, Chosen, Allowed, Within
  <2>4. CASE H < a /\ ~(L > b)
    <3>1. ~(\A n \in Numbers(t) : n <= H)
      BY <1>1, <1>3, <2>4
    <3>2. between = {a}
      BY <1>9, <3>1 DEF a
    <3>3. z = a
      BY <1>1, <1>2, <1>4, <1>5, <2>4
    <3> HIDE DEF z, between
    <3> QED
      BY <1>1, <1>6, <1>7, <3>2, <3>3 DEF z, between, inside, lo, hi, a, b, Chosen, Allowed, Within
  <2> QED
    BY <2>2, <2>3, <2>4
<1> QED
  BY <1>8, <1>9

\* Clamp on integers: resolving each bound for itself gives the nearest number
\* between the two.
LEMMA ClampIsExactOnIntegers ==
  ASSUME NEW step \in AnyClamp, NEW t \in IntTypes, NEW x, NumberOf(t, x)
  PROVE  Exact(step, t, x)
<1> DEFINE A == step.min # NoBound
           B == step.max # NoBound
           L == WholeNear(step.rounding, step.min.v.n)
           H == WholeNear(step.rounding, step.max.v.n)
           lo == Resolve(step, t, step.min).v
           hi == Resolve(step, t, step.max).v
           z == IF A /\ x.n < Clip(t, L) THEN Clip(t, L)
                ELSE IF B /\ Clip(t, H) < x.n THEN Clip(t, H) ELSE x.n
<1>1. step.op = "clamp"
  BY ClampFields
<1>2. StepError(step, t) = "none" <=> Defined(step, t, x)
  <2>1. Defined(step, t, x) <=> \A b \in {step.min, step.max} : BoundAllowed(step, t, b)
    BY <1>1 DEF Defined
  <2>2. BoundAllowed(step, t, NoBound)
    BY DEF BoundAllowed
  <2> QED
    BY <2>1, <2>2, IntBound, ResolveErrorIs DEF Types
<1>p. StepError(step, t) # "panic"
  BY IntBound, ResolveErrorIs DEF Types
<1>3. Element(step, t, x) = ClampElement(step, t, x)
  BY <1>1 DEF Element
<1>4. x \in AnyNumber /\ Finite(x) /\ x.n \in Numbers(t) /\ x = Num(x.n) /\ x.n \in Int
  BY NumberCases, NumbersAre, TypeEnds DEF Types, Numbers
<1>5. ASSUME StepError(step, t) = "none"
      PROVE  Element(step, t, x) = Ok(Value(step, t, x)) /\ NumberOf(t, Value(step, t, x))
  <2>1. A => /\ lo = Num(Clip(t, L)) /\ L \in Int /\ L % 2 = 0 /\ Finite(step.min.v)
             /\ step.min.v.n % 2 = 0 \/ step.rounding # "error"
    BY <1>5, IntBound, ResolveErrorIs DEF Types
  <2>2. B => /\ hi = Num(Clip(t, H)) /\ H \in Int /\ H % 2 = 0 /\ Finite(step.max.v)
             /\ step.max.v.n % 2 = 0 \/ step.rounding # "error"
    BY <1>5, IntBound, ResolveErrorIs DEF Types
  <2>3. A /\ B => L <= H
    <3>1. SUFFICES ASSUME A, B PROVE L <= H
      OBVIOUS
    <3>2. ~Less(step.max.v, step.min.v) /\ step.rounding \in Rounding
      BY <3>1, ClampFields
    <3>3. /\ step.min.v \in AnyNumber /\ step.max.v \in AnyNumber
          /\ step.min.v.n \in Int /\ step.max.v.n \in Int
          /\ \A u \in {step.max.v, step.min.v} : Finite(u) => u.n \in -MaxOf["f64"] .. MaxOf["f64"]
      BY <3>1, ClampFields
    <3>4. step.min.v.n <= step.max.v.n
      BY <2>1, <2>2, <3>1, <3>2, <3>3, LessIs
    <3> QED
      BY <2>1, <2>2, <3>1, <3>2, <3>3, <3>4, WholeNearOrder
  <2>4. /\ A => Clip(t, L) \in Int
        /\ B => Clip(t, H) \in Int
        /\ A /\ B => Clip(t, L) <= Clip(t, H)
    BY <2>1, <2>2, <2>3, ClipIs, TypeEnds DEF Types
  <2>5. \A m, n \in Int : m \in MinOf(t) .. MaxOf[t] /\ n \in MinOf(t) .. MaxOf[t] =>
          (Less(Num(m), Num(n)) <=> m < n)
    <3> TAKE m, n \in Int
    <3> HAVE m \in MinOf(t) .. MaxOf[t] /\ n \in MinOf(t) .. MaxOf[t]
    <3> QED
      BY NumbersAre DEF Less, Num
  <2>6. /\ A => (Less(x, lo) <=> x.n < Clip(t, L))
        /\ B => (Less(hi, x) <=> Clip(t, H) < x.n)
        /\ A /\ B => ~Less(hi, lo)
    <3>1. A => Clip(t, L) \in MinOf(t) .. MaxOf[t]
      BY <2>1, ClipIs DEF Types
    <3>2. B => Clip(t, H) \in MinOf(t) .. MaxOf[t]
      BY <2>2, ClipIs DEF Types
    <3>3. x.n \in MinOf(t) .. MaxOf[t]
      BY <1>4 DEF Numbers
    <3> QED
      BY <1>4, <2>1, <2>2, <2>4, <2>5, <3>1, <3>2, <3>3
  <2>7. x.is # "nan"
    BY <1>4, NumbersAre
  <2> HIDE DEF L, H
  <2>8. Element(step, t, x) = Ok(Num(z))
    <3> HIDE DEF lo, hi
    <3>1. CASE A /\ B
      <4>1. Element(step, t, x)
              = IF Less(hi, lo) THEN Err("panic")
                ELSE Ok(IF Less(x, lo) THEN lo ELSE IF Less(hi, x) THEN hi ELSE x)
        BY <1>3, <3>1 DEF ClampElement, ClampTo, lo, hi
      <4> QED
        BY <1>4, <2>1, <2>2, <2>6, <3>1, <4>1
    <3>2. CASE A /\ ~B
      <4>1. Element(step, t, x) = Ok(IF x.is = "nan" \/ Less(x, lo) THEN lo ELSE x)
        BY <1>3, <3>2 DEF ClampElement, ClampTo, lo
      <4> QED
        BY <1>4, <2>1, <2>6, <2>7, <3>2, <4>1
    <3>3. CASE ~A /\ B
      <4>1. Element(step, t, x) = Ok(IF x.is = "nan" \/ Less(hi, x) THEN hi ELSE x)
        BY <1>3, <3>3 DEF ClampElement, ClampTo, hi
      <4> QED
        BY <1>4, <2>2, <2>6, <2>7, <3>3, <4>1
    <3>4. CASE ~A /\ ~B
      <4>1. Element(step, t, x) = Ok(x)
        BY <1>3, <3>4 DEF ClampElement, ClampTo
      <4> QED
        BY <1>4, <3>4, <4>1
    <3> QED
      BY <3>1, <3>2, <3>3, <3>4
  <2> DEFINE L0 == IF A THEN L ELSE MinOf(t)
             H0 == IF B THEN H ELSE MaxOf[t]
             between == Allowed(t, L0, H0)
             z0 == Chosen(t, L0, H0, x.n)
  <2>0. MinOf(t) \in Int /\ MaxOf[t] \in Int /\ MinOf(t) <= MaxOf[t]
        /\ MinOf(t) % 2 = 0 /\ MaxOf[t] % 2 = 0
    BY TypeEnds DEF Types
  <2>9. /\ L0 \in Int /\ H0 \in Int /\ L0 % 2 = 0 /\ H0 % 2 = 0
        /\ L0 <= H0 \/ L0 = MinOf(t) \/ H0 = MaxOf[t]
    BY <2>0, <2>1, <2>2, <2>3
  <2>10. Between(step, t) = between
    <3>1. \A n \in Numbers(t) :
            /\ n >= L0 <=> step.min = NoBound \/ n >= L
            /\ n <= H0 <=> step.max = NoBound \/ n <= H
      BY <2>0 DEF Numbers
    <3> HIDE DEF L0, H0
    <3>2. Within(t, L0, H0)
            = { n \in Numbers(t) : (step.min = NoBound \/ n >= L) /\ (step.max = NoBound \/ n <= H) }
      BY <3>1 DEF Within
    <3>3. (\A n \in Numbers(t) : n <= H0)
            <=> \A n \in Numbers(t) : step.max = NoBound \/ n <= H
      BY <3>1
    <3> QED
      BY <3>2, <3>3 DEF Between, Allowed, L, H
  <2>11. z0 = z
    BY <1>4, <2>0, ClipIs DEF Clip, Numbers, Chosen
  <2>12. Value(step, t, x)
           = Num(CHOOSE n \in Between(step, t) :
                   \A m \in Between(step, t) : Distance(n, x.n) <= Distance(m, x.n))
    BY <1>1 DEF Value
  <2>13. /\ z0 \in Numbers(t) /\ z0 \in between
         /\ \A n \in between :
              (\A m \in between : Distance(n, x.n) <= Distance(m, x.n)) <=> n = z0
    <3> DEFINE k == x.n
    <3>1. k \in Numbers(t)
      BY <1>4
    <3> HIDE DEF L0, H0, k
    <3> QED
      BY <2>9, <3>1, NearestAllowed DEF k
  <2>14. Value(step, t, x) = Num(z) /\ z \in Numbers(t)
    <3> HIDE DEF z, z0, between
    <3> QED
      BY <2>10, <2>11, <2>12, <2>13
  <2>15. NumberOf(t, Num(z))
    <3> HIDE DEF z
    <3> QED
      BY <2>14, NumberCases DEF Types
  <2> QED
    BY <2>8, <2>14, <2>15
<1>6. StepError(step, t) = "none" => Element(step, t, x).err = "none"
  BY <1>5, Results
<1> QED
  BY <1>2, <1>p, <1>5, <1>6, Results DEF Exact

\* A bound resolved for a float type.
LEMMA FloatBoundIs ==
  ASSUME NEW step \in AnyClamp, NEW t \in Types \ IntTypes,
         NEW b \in {step.min, step.max}, b # NoBound
  PROVE  LET r == Resolve(step, t, b)
         IN  /\ r.err = "none" <=> BoundAllowed(step, t, b)
             /\ r.err # "panic"
             /\ r.err = "none" => r.v = FloatBound(step, t, b)
<1> DEFINE n == b.v.n
           r == Resolve(step, t, b)
           cut == t \in HalfTypes /\ b.ty \notin HalfTypes /\ Finite(b.v) /\ ~Fits(t, n)
<1>1. b \in AnyScalar /\ n \in Int /\ step.saturate \in BOOLEAN
  BY ClampFields
<1>2. Convert(t, b) = IF cut THEN Err("Overflow") ELSE Ok(Cast(t, b.v))
  BY <1>1, ConvertIs
<1>3. r = IF cut THEN Saturated(step, t, n) ELSE Ok(Cast(t, b.v))
  BY <1>2, Results DEF Resolve, ResolveFloat, OrSaturated
<1>4. t \in HalfTypes <=> t \notin FloatTypes
  BY DEF Types, IntTypes, HalfTypes, FloatTypes
<1>5. BoundAllowed(step, t, b) <=> ~cut \/ step.saturate
  BY <1>1, <1>4 DEF BoundAllowed
<1>6. cut => Saturated(step, t, n)
               = IF step.saturate THEN Ok(Num(Sign(n) * MaxOf[t])) ELSE Err("Overflow")
  <2>1. MaxOf[t] \in Nat /\ MinOf(t) = -MaxOf[t]
    BY TypeEnds
  <2>2. cut => (IF n < MinOf(t) THEN MinOf(t) ELSE MaxOf[t]) = Sign(n) * MaxOf[t]
    BY <1>1, <2>1 DEF Fits, Sign
  <2>3. cut => (F64(n) < F64(MinOf(t)) <=> n < MinOf(t))
    BY <1>1, HalfEnds
  <2> QED
    BY <2>2, <2>3 DEF Saturated
<1>7. FloatBound(step, t, b)
        = IF cut /\ step.saturate THEN Num(Sign(n) * MaxOf[t]) ELSE Cast(t, b.v)
  BY DEF FloatBound
<1> HIDE DEF cut, n
<1> QED
  BY <1>1, <1>3, <1>5, <1>6, <1>7, Results DEF n

\* It is a number of the type, which is not NaN.
LEMMA FloatBoundTyped ==
  ASSUME NEW step \in AnyClamp, NEW t \in Types \ IntTypes,
         NEW b \in {step.min, step.max}, b # NoBound
  PROVE  /\ NumberOf(t, FloatBound(step, t, b)) /\ FloatBound(step, t, b) # NaN
         /\ FloatBound(step, t, b) \in AnyNumber
         /\ Finite(FloatBound(step, t, b)) =>
              FloatBound(step, t, b).n \in -MaxOf["f64"] .. MaxOf["f64"]
<1>1. b.v \in AnyNumber /\ b.v.n \in Int /\ b.v # NaN
  BY ClampFields
<1>2. NumberOf(t, Cast(t, b.v)) /\ Cast(t, b.v) # NaN
  BY <1>1, CastIs
<1>3. MaxOf[t] \in Nat
  BY TypeEnds
<1>4. \A n \in Int : Has(t, n) => NumberOf(t, Num(n)) /\ Num(n) # NaN
  BY FloatNumber, NumbersAre
<1>5. \A n \in Int : NumberOf(t, Num(Sign(n) * MaxOf[t])) /\ Num(Sign(n) * MaxOf[t]) # NaN
  <2> TAKE n \in Int
  <2>1. Sign(n) * MaxOf[t] \in {MaxOf[t], -MaxOf[t], 0}
    BY <1>3 DEF Sign
  <2>2. Has(t, MaxOf[t]) /\ Has(t, -MaxOf[t]) /\ Has(t, 0)
    BY HasIs
  <2> QED
    BY <1>3, <1>4, <2>1, <2>2
<1>6. NumberOf(t, FloatBound(step, t, b)) /\ FloatBound(step, t, b) # NaN
  BY <1>1, <1>2, <1>5 DEF FloatBound
<1> QED
  BY <1>6, FloatRange DEF NumberOf

\* Two bounds in order stay in order.
LEMMA FloatBoundOrder ==
  ASSUME NEW step \in AnyClamp, NEW t \in Types \ IntTypes,
         step.min # NoBound, step.max # NoBound
  PROVE  ~Less(FloatBound(step, t, step.max), FloatBound(step, t, step.min))
<1> DEFINE v == step.min.v
           w == step.max.v
           cut(u) == /\ step.saturate /\ step.min.ty \notin HalfTypes /\ t \in HalfTypes
                     /\ Finite(u) /\ ~Fits(t, u.n)
           F(u) == IF cut(u) THEN Num(Sign(u.n) * MaxOf[t]) ELSE Cast(t, u)
<1>1. /\ v \in AnyNumber /\ w \in AnyNumber /\ v # NaN /\ w # NaN
      /\ \A u \in {v, w} : Finite(u) => u.n \in -MaxOf["f64"] .. MaxOf["f64"]
      /\ step.min.ty = step.max.ty /\ ~Less(w, v)
  BY ClampFields
<1>2. FloatBound(step, t, step.min) = F(v) /\ FloatBound(step, t, step.max) = F(w)
  BY <1>1 DEF FloatBound
<1>3. MaxOf[t] \in Nat /\ MinOf(t) = -MaxOf[t] /\ MaxOf[t] % 2 = 0
  BY TypeEnds
<1>4. F(v) \in AnyNumber /\ F(w) \in AnyNumber
      /\ \A u \in {F(v), F(w)} : Finite(u) => u.n \in -MaxOf["f64"] .. MaxOf["f64"]
  BY <1>2, FloatBoundTyped
<1>5. ~Less(Cast(t, w), Cast(t, v))
  BY <1>1, CastOrder
<1>6. ASSUME NEW u \in {v, w}
      PROVE  /\ Finite(u) \/ u = Inf(1) \/ u = Inf(-1)
             /\ Finite(u) => u.n \in Int
             /\ ~Finite(u) => Cast(t, u) = u /\ ~cut(u)
             /\ cut(u) => IF u.n > MaxOf[t] THEN F(u) = Num(MaxOf[t])
                          ELSE u.n < -MaxOf[t] /\ F(u) = Num(-MaxOf[t])
  <2>1. u \in AnyNumber /\ u # NaN /\ u.n \in Int
    BY <1>1, NumbersAre
  <2>2. Finite(u) \/ u = Inf(1) \/ u = Inf(-1)
    BY <2>1, NumbersAre
  <2>3. ~Finite(u) => Cast(t, u) = u
    BY <2>1, CastIs
  <2>4. cut(u) => IF u.n > MaxOf[t] THEN Sign(u.n) * MaxOf[t] = MaxOf[t]
                  ELSE u.n < -MaxOf[t] /\ Sign(u.n) * MaxOf[t] = -MaxOf[t]
    BY <1>3, <2>1 DEF Fits, Sign
  <2> QED
    BY <2>1, <2>2, <2>3, <2>4
\* A number that is not cut lies between the ends, or is infinite.
<1>7. ASSUME NEW u \in {v, w}, step.saturate, step.min.ty \notin HalfTypes, t \in HalfTypes, ~cut(u)
      PROVE  \/ Finite(F(u)) /\ F(u).n \in -MaxOf[t] .. MaxOf[t] /\ Finite(u)
             \/ F(u) = u /\ u \in {Inf(1), Inf(-1)}
  <2>1. CASE Finite(u)
    <3>1. Fits(t, u.n) /\ u.n \in Int
      BY <1>6, <1>7, <2>1
    <3>2. Has("f64", MaxOf[t]) /\ Has(t, MaxOf[t]) /\ "f64" \in Types \ IntTypes
      BY <1>3, HasIs, TypesBeside DEF Types, IntTypes, FloatTypes
    <3>3. u = Num(u.n) /\ -MaxOf[t] <= u.n /\ u.n <= MaxOf[t]
      BY <1>1, <1>3, <2>1, <3>1, NumbersAre DEF Fits
    <3> DEFINE k == Closest("f64", u.n)
    <3>4. AsFloat("f64", u) = Num(k) /\ k \in Int /\ -MaxOf[t] <= k /\ k <= MaxOf[t]
      BY <3>1, <3>2, <3>3, InRange
    <3> HIDE DEF k
    <3>5. AsFloat(t, Num(k)) = Num(Closest(t, k)) /\ Closest(t, k) \in -MaxOf[t] .. MaxOf[t]
      BY <1>3, <3>2, <3>4, InRange
    <3>6. F(u) = Num(Closest(t, k))
      BY <1>7, <3>4, <3>5 DEF Cast
    <3> HIDE DEF F
    <3> QED
      BY <1>3, <2>1, <3>5, <3>6, NumbersAre
  <2>2. CASE ~Finite(u)
    BY <1>6, <1>7, <2>2
  <2> QED
    BY <2>1, <2>2
<1> DEFINE a == F(v)
           b == F(w)
<1>8. Less(b, a) <=>
        \/ Finite(b) /\ Finite(a) /\ b.n < a.n
        \/ Finite(b) /\ a = Inf(1)
        \/ b = Inf(-1) /\ Finite(a)
        \/ b = Inf(-1) /\ a = Inf(1)
  <2> HIDE DEF a, b
  <2> QED
    BY <1>4, LessIs DEF a, b
<1>9. /\ Finite(v) /\ Finite(w) => v.n <= w.n
      /\ v = Inf(1) => w = Inf(1)
      /\ w = Inf(-1) => v = Inf(-1)
  BY <1>1, <1>6, LessIs, NumbersAre
<1>10. ~Finite(Inf(1)) /\ ~Finite(Inf(-1)) /\ Inf(1) # Inf(-1)
       /\ \A n \in Int : Finite(Num(n)) /\ Num(n).n = n
  BY NumbersAre
<1>11. CASE ~cut(v) /\ ~cut(w)
  BY <1>2, <1>5, <1>11
<1>12. CASE cut(v)
  <2>1. Finite(v) /\ Finite(a) /\ a # Inf(1)
    BY <1>3, <1>6, <1>10, <1>12
  <2>2. CASE v.n > MaxOf[t]
    <3>1. a.n = MaxOf[t]
      BY <1>3, <1>6, <1>10, <1>12, <2>2
    <3>2. CASE Finite(w)
      <4>1. w.n > MaxOf[t] /\ cut(w)
        BY <1>3, <1>6, <1>9, <1>12, <2>1, <2>2, <3>2 DEF Fits
      <4>2. b = Num(MaxOf[t])
        BY <1>6, <4>1
      <4> HIDE DEF a, b
      <4> QED
        BY <1>2, <1>3, <1>8, <1>10, <2>1, <3>1, <4>2 DEF a, b
    <3>3. CASE ~Finite(w)
      <4>1. b = Inf(1)
        BY <1>6, <1>9, <1>10, <2>1, <3>3
      <4> HIDE DEF a, b
      <4> QED
        BY <1>2, <1>8, <1>10, <4>1 DEF a, b
    <3> QED
      BY <3>2, <3>3
  <2>3. CASE ~(v.n > MaxOf[t])
    <3>1. a.n = -MaxOf[t]
      BY <1>3, <1>6, <1>10, <1>12, <2>3
    <3>2. b # Inf(-1) /\ (Finite(b) => b.n \in Int /\ b.n >= -MaxOf[t])
      <4>1. CASE cut(w)
        BY <1>3, <1>6, <1>10, <4>1
      <4>2. CASE ~cut(w)
        <5>1. \/ Finite(b) /\ b.n \in -MaxOf[t] .. MaxOf[t]
              \/ b = w /\ w \in {Inf(1), Inf(-1)}
          BY <1>7, <1>12, <4>2
        <5>2. w # Inf(-1)
          BY <1>9, <1>10, <2>1
        <5> HIDE DEF b
        <5> QED
          BY <1>3, <1>10, <5>1, <5>2
      <4> QED
        BY <4>1, <4>2
    <3> HIDE DEF a, b
    <3> QED
      BY <1>2, <1>3, <1>8, <2>1, <3>1, <3>2 DEF a, b
  <2> QED
    BY <2>2, <2>3
<1>13. CASE cut(w) /\ ~cut(v)
  <2>1. Finite(w) /\ Finite(b) /\ b # Inf(-1)
    BY <1>3, <1>6, <1>10, <1>13
  <2>2. \/ Finite(a) /\ a.n \in -MaxOf[t] .. MaxOf[t] /\ Finite(v)
        \/ a = v /\ v \in {Inf(1), Inf(-1)}
    BY <1>7, <1>13
  <2>3. v # Inf(1)
    BY <1>9, <1>10, <2>1
  <2>4. CASE w.n > MaxOf[t]
    <3>1. b.n = MaxOf[t]
      BY <1>3, <1>6, <1>10, <1>13, <2>4
    <3> HIDE DEF a, b
    <3> QED
      BY <1>2, <1>3, <1>8, <1>10, <2>1, <2>2, <2>3, <3>1 DEF a, b
  <2>5. CASE ~(w.n > MaxOf[t])
    <3>1. w.n < -MaxOf[t]
      BY <1>6, <1>13, <2>5
    <3>2. Finite(v) => cut(v)
      BY <1>3, <1>6, <1>9, <1>13, <2>1, <3>1 DEF Fits
    <3>3. a = Inf(-1)
      BY <1>13, <2>2, <2>3, <3>2
    <3> HIDE DEF a, b
    <3> QED
      BY <1>2, <1>8, <1>10, <2>1, <3>3 DEF a, b
  <2> QED
    BY <2>4, <2>5
<1> QED
  BY <1>11, <1>12, <1>13

\* Clamp on floats, where only one-sided bounds replace NaN.
LEMMA ClampIsExactOnFloats ==
  ASSUME NEW step \in AnyClamp, NEW t \in Types \ IntTypes, NEW x, NumberOf(t, x)
  PROVE  Exact(step, t, x)
<1> DEFINE A == step.min # NoBound
           B == step.max # NoBound
           lo == FloatBound(step, t, step.min)
           hi == FloatBound(step, t, step.max)
<1>1. step.op = "clamp"
  BY ClampFields
<1>2. StepError(step, t) = "none" <=> Defined(step, t, x)
  <2>1. Defined(step, t, x) <=> \A b \in {step.min, step.max} : BoundAllowed(step, t, b)
    BY <1>1 DEF Defined
  <2>2. BoundAllowed(step, t, NoBound)
    BY DEF BoundAllowed
  <2> QED
    BY <2>1, <2>2, FloatBoundIs, ResolveErrorIs
<1>p. StepError(step, t) # "panic"
  BY FloatBoundIs, ResolveErrorIs
<1>3. ASSUME StepError(step, t) = "none"
      PROVE  Element(step, t, x) = Ok(Value(step, t, x)) /\ NumberOf(t, Value(step, t, x))
  <2>1. /\ A => Resolve(step, t, step.min).v = lo /\ NumberOf(t, lo)
        /\ B => Resolve(step, t, step.max).v = hi /\ NumberOf(t, hi)
        /\ A /\ B => ~Less(hi, lo)
    BY <1>3, FloatBoundIs, FloatBoundTyped, FloatBoundOrder, ResolveErrorIs
  <2>2. Element(step, t, x) = ClampElement(step, t, x)
    BY <1>1 DEF Element
  <2>3. Value(step, t, x) = ClampedFloat(step, t, x)
    BY <1>1 DEF Value
  <2>4. x.is = "nan" <=> x = NaN
    BY NumbersAre DEF NumberOf
  <2>5. x = NaN => ~Less(x, lo) /\ ~Less(hi, x)
    BY <2>4 DEF Less
  <2> HIDE DEF lo, hi
  <2>6. CASE A /\ B
    <3>1. Element(step, t, x) = Ok(IF Less(x, lo) THEN lo ELSE IF Less(hi, x) THEN hi ELSE x)
      BY <2>1, <2>2, <2>6 DEF ClampElement, ClampTo
    <3>2. ClampedFloat(step, t, x) = IF Less(x, lo) THEN lo ELSE IF Less(hi, x) THEN hi ELSE x
      <4>1. /\ lo = FloatBound(step, t, step.min) /\ hi = FloatBound(step, t, step.max)
        BY DEF lo, hi
      <4>2. ~(Less(x, lo) /\ Less(hi, x))
        <5>1. SUFFICES ASSUME Less(x, lo), Less(hi, x) PROVE FALSE
          OBVIOUS
        <5>2. Less(hi, lo)
          <6>1. \A u \in {x, lo, hi} : u \in AnyNumber /\ u.n \in Int
            BY <2>1, <2>6, NumbersAre DEF NumberOf
          <6>2. MaxOf["f64"] \in Int
            BY TypeEnds DEF Types, FloatTypes
          <6> QED
            BY <5>1, <6>1, <6>2 DEF Less
        <5> QED
          BY <2>1, <2>6, <5>2
      <4> QED
        BY <2>6, <4>1, <4>2 DEF ClampedFloat
    <3> QED
      BY <2>1, <2>3, <2>6, <3>1, <3>2
  <2>7. CASE A /\ ~B
    <3>1. Element(step, t, x) = Ok(IF x.is = "nan" \/ Less(x, lo) THEN lo ELSE x)
      BY <2>1, <2>2, <2>7 DEF ClampElement, ClampTo
    <3>2. ClampedFloat(step, t, x) = IF x = NaN \/ Less(x, lo) THEN lo ELSE x
      BY <2>7 DEF ClampedFloat, lo
    <3> QED
      BY <2>1, <2>3, <2>4, <2>7, <3>1, <3>2
  <2>8. CASE ~A /\ B
    <3>1. Element(step, t, x) = Ok(IF x.is = "nan" \/ Less(hi, x) THEN hi ELSE x)
      BY <2>1, <2>2, <2>8 DEF ClampElement, ClampTo
    <3>2. ClampedFloat(step, t, x) = IF x = NaN \/ Less(hi, x) THEN hi ELSE x
      BY <2>8 DEF ClampedFloat, hi
    <3> QED
      BY <2>1, <2>3, <2>4, <2>8, <3>1, <3>2
  <2>9. CASE ~A /\ ~B
    <3>1. Element(step, t, x) = Ok(x)
      BY <2>2, <2>9 DEF ClampElement, ClampTo
    <3>2. ClampedFloat(step, t, x) = x
      BY <2>9 DEF ClampedFloat
    <3> QED
      BY <2>3, <3>1, <3>2
  <2> QED
    BY <2>6, <2>7, <2>8, <2>9
<1> QED
  BY <1>2, <1>p, <1>3, Results DEF Exact

\* Every step that a constructor returns does for every number of every type
\* what the reference says: it refuses what is not Defined, gives the others
\* their Value, and never panics.  For integers Value is the exact result, the
\* addend, factor or bound 2^63 of an i64 being taken for 2^63 - 1; for floats it
\* is the result rounded to the type.
THEOREM StepsAreExact ==
  ASSUME NEW step \in AnyStep, NEW t \in Types, NEW x, NumberOf(t, x)
  PROVE  Exact(step, t, x)
<1>1. CASE step \in AddSteps(AnyScalar)
  BY <1>1, AddIsExactOnIntegers, AddIsExactOnFloats
<1>2. CASE step \in ScaleSteps(AnyScalar)
  BY <1>2, ScaleIsExact
<1>3. CASE step \in StandardizeSteps(AnyScalar)
  BY <1>3, StandardizeIsExact
<1>4. CASE step \in AnyClamp
  BY <1>4, ClampIsExactOnIntegers, ClampIsExactOnFloats
<1> QED
  BY <1>1, <1>2, <1>3, <1>4 DEF AnyStep, AnyClamp

-----------------------------------------------------------------------------
(* What a pipeline of any length makes of a number.                        *)
\* A set of naturals with 0 and the successor of each of its members has them all.
LEMMA InductionOnSet ==
  ASSUME NEW T, 0 \in T, \A n \in Nat : n \in T => n + 1 \in T
  PROVE  Nat \subseteq T
<1> DEFINE R == OpToRel(<, Nat)
           B == Nat \ T
<1>1. IsWellFoundedOn(R, Nat)
  BY NatLessThanWellFounded
<1>2. SUFFICES ASSUME B # {} PROVE FALSE
  OBVIOUS
<1>3. PICK n \in B : \A m \in B : ~ (<<m, n>> \in R)
  <2>1. B \subseteq Nat
    OBVIOUS
  <2> HIDE DEF R, B
  <2> QED
    BY <1>1, <1>2, <2>1, WFMin
<1>4. n # 0
  OBVIOUS
<1>5. n - 1 \in Nat
  BY <1>4
<1>6. <<n - 1, n>> \in R
  BY <1>5 DEF OpToRel
<1>7. n - 1 \in T
  BY <1>3, <1>5, <1>6
<1>8. (n - 1) + 1 = n
  OBVIOUS
<1> QED
  BY <1>5, <1>7, <1>8

\* What one step makes of the number the steps before it have made.
OneStep(pipeline, t, y, i) ==
  IF y = Undefined \/ ~Defined(pipeline[i], t, y) THEN Undefined
  ELSE Value(pipeline[i], t, y)

\* The reference exists for pipelines of any length and goes from step to step.
LEMMA ThroughSteps ==
  ASSUME NEW p, NEW t, NEW x, NEW k \in Nat
  PROVE  /\ Through(p, t, x, 0) = x
         /\ Through(p, t, x, k + 1) = OneStep(p, t, Through(p, t, x, k), k + 1)
<1> DEFINE
  Body(f, n) == [i \in 0 .. n |->
                   IF i = 0 THEN x
                   ELSE IF f[i - 1] = Undefined \/ ~Defined(p[i], t, f[i - 1]) THEN Undefined
                   ELSE Value(p[i], t, f[i - 1])]
  Values(n) == CHOOSE f : f = Body(f, n)
<1>1. \A n \in Nat : Through(p, t, x, n) = Values(n)[n]
  BY DEF Through
<1>2. \A n \in Nat : \E f : f = Body(f, n)
  <2> DEFINE T == { n \in Nat : \E f : f = Body(f, n) }
  <2>1. 0 \in T
    <3> DEFINE f == [i \in 0 .. 0 |-> x]
    <3>1. f = Body(f, 0)
      OBVIOUS
    <3> QED
      BY <3>1
  <2>2. \A n \in Nat : n \in T => n + 1 \in T
    <3> SUFFICES ASSUME NEW n \in Nat, NEW f, f = Body(f, n)
                 PROVE  \E g : g = Body(g, n + 1)
      OBVIOUS
    <3> DEFINE g == [i \in 0 .. n + 1 |-> IF i <= n THEN f[i] ELSE OneStep(p, t, f[n], n + 1)]
    <3>1. ASSUME NEW i \in 0 .. n + 1
          PROVE  g[i] = Body(g, n + 1)[i]
      <4>1. CASE i = 0
        BY <4>1
      <4>2. CASE i \in 1 .. n
        <5>1. g[i - 1] = f[i - 1]
          BY <4>2
        <5>2. g[i] = f[i]
          BY <4>2
        <5>3. f[i] = Body(f, n)[i]
          OBVIOUS
        <5>4. Body(f, n)[i] = Body(g, n + 1)[i]
          BY <4>2, <5>1
        <5> QED
          BY <5>2, <5>3, <5>4
      <4>3. CASE i = n + 1
        <5>1. g[i - 1] = f[n]
          BY <4>3
        <5> QED
          BY <4>3, <5>1 DEF OneStep
      <4> QED
        BY <4>1, <4>2, <4>3
    <3>2. g = Body(g, n + 1)
      BY <3>1
    <3> QED
      BY <3>2
  <2> HIDE DEF T
  <2>3. Nat \subseteq T
    BY <2>1, <2>2, InductionOnSet
  <2> QED
    BY <2>3 DEF T
<1>3. \A n \in Nat : Values(n) = Body(Values(n), n)
  BY <1>2
<1>4. ASSUME NEW n \in Nat, NEW m \in Nat, n <= m
      PROVE  \A i \in 0 .. n : Values(n)[i] = Values(m)[i]
  <2> DEFINE T == { i \in Nat : i <= n => Values(n)[i] = Values(m)[i] }
  <2> HIDE DEF Values
  <2>1. \A i \in 0 .. n : Values(n)[i] = Body(Values(n), n)[i] /\ Values(m)[i] = Body(Values(m), m)[i]
    BY <1>3, <1>4
  <2>2. 0 \in T
    <3>1. 0 \in 0 .. n /\ 0 \in 0 .. m
      OBVIOUS
    <3> QED
      BY <2>1, <3>1
  <2>3. \A i \in Nat : i \in T => i + 1 \in T
    <3> SUFFICES ASSUME NEW i \in Nat, i \in T, i + 1 <= n
                 PROVE  Values(n)[i + 1] = Values(m)[i + 1]
      OBVIOUS
    <3>1. Values(n)[i] = Values(m)[i]
      OBVIOUS
    <3>2. i + 1 \in 0 .. n /\ i + 1 \in 0 .. m /\ i + 1 # 0 /\ (i + 1) - 1 = i
      BY <1>4
    <3> DEFINE v == Values(n)
               u == Values(m)
    <3>3. \A j \in 0 .. n : v[j] = Body(v, n)[j]
      BY <2>1
    <3>4. \A j \in 0 .. n : u[j] = Body(u, m)[j]
      BY <2>1
    <3>5. v[i] = u[i]
      BY <3>1
    <3> HIDE DEF v, u, T
    <3>6. Body(v, n)[i + 1] = Body(u, m)[i + 1]
      BY <3>2, <3>5
    <3>7. v[i + 1] = u[i + 1]
      BY <3>2, <3>3, <3>4, <3>6
    <3> QED
      BY <3>7 DEF v, u
  <2> HIDE DEF T
  <2>4. Nat \subseteq T
    BY <2>2, <2>3, InductionOnSet
  <2> QED
    BY <2>4 DEF T
<1> HIDE DEF Values
<1>5. Values(0)[0] = x
  BY <1>3
<1>6. Values(k + 1)[k + 1] = OneStep(p, t, Values(k + 1)[k], k + 1)
  <2>1. Values(k + 1)[k + 1] = Body(Values(k + 1), k + 1)[k + 1]
    BY <1>3
  <2>2. k + 1 \in 0 .. k + 1 /\ k + 1 # 0 /\ (k + 1) - 1 = k
    OBVIOUS
  <2> QED
    BY <2>1, <2>2 DEF OneStep
<1>7. Values(k + 1)[k] = Values(k)[k]
  BY <1>4
<1> QED
  BY <1>1, <1>5, <1>6, <1>7

-----------------------------------------------------------------------------
(* Scalars computed from others.                                           *)
\* Two integer types are promoted to an integer type, any other two to a float,
\* and the promoted type reaches as far as both.
LEMMA PromotedReaches ==
  ASSUME NEW a \in Types, NEW b \in Types
  PROVE  LET p == Promoted(a, b)
         IN  /\ p \in Types
             /\ p \in IntTypes => a \in IntTypes /\ b \in IntTypes
             /\ \A t \in {a, b} : t # p => MinOf(p) <= MinOf(t) /\ MaxOf[t] <= MaxOf[p]
<1> DEFINE p == Promoted(a, b)
<1>1. CASE a = b
  BY <1>1 DEF Promoted
<1>2. CASE a # b /\ ("f64" \in {a, b} \/ {a, b} = {"i64", "f32"})
  <2>1. p = "f64"
    BY <1>2 DEF Promoted, IntTypes
  <2> QED
    BY <2>1, TypesOrdered DEF Types, IntTypes, FloatTypes
<1>3. CASE a # b /\ {a, b} \subseteq IntTypes
  <2>1. p = IF "i64" \in {a, b} THEN "i64" ELSE "i32"
    BY <1>3 DEF Promoted, IntTypes
  <2> QED
    BY <1>3, <2>1, TypesOrdered DEF Types, IntTypes
<1>4. CASE a # b /\ ~("f64" \in {a, b}) /\ {a, b} # {"i64", "f32"} /\ ~({a, b} \subseteq IntTypes)
  <2>1. p = "f32"
    BY <1>4 DEF Promoted
  <2>2. \A t \in {a, b} : t \in IntTypes \cup HalfTypes \cup {"f32"}
    BY <1>4 DEF Types, FloatTypes
  <2> QED
    BY <2>1, <2>2, TypesOrdered DEF Types, IntTypes, HalfTypes, FloatTypes
<1> QED
  BY <1>1, <1>2, <1>3, <1>4

\* The types a promotion ends in.
LEMMA PromotedTo ==
  ASSUME NEW a \in Types, NEW b \in Types, a # b
  PROVE  LET p == Promoted(a, b)
         IN  \/ p = "f64" /\ ("f64" \in {a, b} \/ {a, b} = {"i64", "f32"})
             \/ p = (IF "i64" \in {a, b} THEN "i64" ELSE "i32") /\ a \in IntTypes /\ b \in IntTypes
             \/ /\ p = "f32" /\ a # "f64" /\ b # "f64" /\ {a, b} # {"i64", "f32"}
                /\ ~(a \in IntTypes /\ b \in IntTypes)
BY DEF Promoted, IntTypes

\* A float type has what a number becomes as one of it.
LEMMA KeptByCast ==
  ASSUME NEW t \in Types \ IntTypes, NEW v \in AnyNumber
  PROVE  NumberOf(t, AsFloat(t, v)) /\ (NumberOf(t, v) => AsFloat(t, v) = v)
BY FloatNumber

\* The number of a smaller type is a number of f64, and that of an u8, an i8 or a
\* half is one of f32.
LEMMA SmallerKept ==
  ASSUME NEW a \in AnyScalar
  PROVE  /\ a.ty # "i64" => NumberOf("f64", a.v)
         /\ a.ty \in {"u8", "i8"} \cup HalfTypes => NumberOf("f32", a.v)
<1>1. a.ty \in Types /\ NumberOf(a.ty, a.v) /\ a.v \in AnyNumber
  BY ScalarNumbers DEF NumberOf
<1>2. "f64" \in Types \ IntTypes /\ "f32" \in Types \ IntTypes
  BY DEF Types, IntTypes, FloatTypes
<1>3. CASE ~Finite(a.v)
  BY <1>1, <1>2, <1>3, FloatNumber
<1>4. CASE Finite(a.v)
  <2>1. /\ a.v.n \in Int /\ Fits(a.ty, a.v.n)
        /\ a.ty \in IntTypes => a.v.n % 2 = 0
        /\ a.ty \notin IntTypes => Has(a.ty, a.v.n)
    BY <1>1, <1>4, FloatRange
  <2>2. MinOf("i32") = -MaxOf["i32"] - 2 /\ MinOf("i8") = -MaxOf["i8"] - 2 /\ MinOf("u8") = 0
        /\ MaxOf["i32"] \in Nat /\ MaxOf["i8"] \in Nat /\ MaxOf["u8"] \in Nat
        /\ MaxOf["i8"] < MaxOf["u8"] /\ MaxOf["u8"] < MaxOf["i32"]
        /\ MaxOf["i8"] % 2 = 0 /\ MaxOf["u8"] % 2 = 0
    <3>1. {"u8", "i8", "i32"} \subseteq Types
      BY DEF Types, IntTypes
    <3>2. \A t \in {"u8", "i8", "i32"} : MaxOf[t] \in Nat /\ MaxOf[t] % 2 = 0
      BY <3>1, TypeEnds
    <3>3. MinOf("i32") = -MaxOf["i32"] - 2 /\ MinOf("i8") = -MaxOf["i8"] - 2 /\ MinOf("u8") = 0
      BY DEF MinOf, IntTypes
    <3>4. MaxOf["i8"] < MaxOf["u8"] /\ MaxOf["u8"] < MaxOf["i32"]
      <4>1. MaxOf["u8"] < MaxOf["f16"] /\ MaxOf["f16"] < MaxOf["i32"] /\ MaxOf["i8"] < MaxOf["u8"]
        BY MaxOfAssumption
      <4>2. MaxOf["u8"] \in Nat /\ MaxOf["f16"] \in Nat /\ MaxOf["i32"] \in Nat
        BY TypeEnds DEF Types, IntTypes, HalfTypes
      <4> QED
        BY <4>1, <4>2
    <3> QED
      BY <3>2, <3>3, <3>4
  <2>3. CASE a.ty \in {"u8", "i8", "i32"}
    <3>1. a.v.n \in MinOf(a.ty) .. MaxOf[a.ty] /\ a.v.n % 2 = 0
      BY <2>1, <2>3 DEF Fits, IntTypes
    <3>2. -MaxOf["i32"] - 4 <= a.v.n /\ a.v.n <= MaxOf["i32"] + 4
      BY <2>1, <2>2, <2>3, <3>1
    <3>3. a.ty # "i32" => -MaxOf["u8"] <= a.v.n /\ a.v.n <= MaxOf["u8"]
      BY <2>1, <2>2, <2>3, <3>1
    <3>4. Has("f64", a.v.n) /\ (a.ty # "i32" => Has("f32", a.v.n))
      BY <2>1, <3>1, <3>2, <3>3, TypesBeside
    <3> QED
      BY <1>1, <1>2, <2>3, <3>4, FloatNumber DEF HalfTypes
  <2>4. CASE a.ty \in Types \ IntTypes
    <3>1. Has("f64", a.v.n) /\ (a.ty \in HalfTypes => Has("f32", a.v.n))
      BY <2>1, <2>4, TypesBeside
    <3> QED
      BY <1>1, <1>2, <2>4, <3>1, FloatNumber DEF IntTypes
  <2> QED
    BY <1>1, <2>3, <2>4 DEF IntTypes, HalfTypes
<1> QED
  BY <1>3, <1>4

\* The promoted type has an operand as KeptAs says.
LEMMA PromotedKeeps ==
  ASSUME NEW a \in AnyScalar, NEW b \in AnyScalar
  PROVE  NumberOf(Promoted(a.ty, b.ty), KeptAs(a, b)) /\ NumberOf(Promoted(b.ty, a.ty), KeptAs(a, b))
<1> DEFINE p == Promoted(a.ty, b.ty)
<1>1. a.ty \in Types /\ b.ty \in Types /\ NumberOf(a.ty, a.v) /\ a.v \in AnyNumber
  BY ScalarNumbers DEF NumberOf
<1>2. Promoted(b.ty, a.ty) = p
  BY DEF Promoted
<1>3. "f64" \in Types \ IntTypes /\ "f32" \in Types \ IntTypes
  BY DEF Types, IntTypes, FloatTypes
<1>4. CASE a.ty = b.ty
  <2>1. p = a.ty
    BY <1>4 DEF Promoted
  <2>2. KeptAs(a, b) = a.v
    BY <1>4 DEF KeptAs, FloatTypes, HalfTypes
  <2> QED
    BY <1>1, <1>2, <2>1, <2>2
<1>5. CASE a.ty # b.ty /\ p = "f64" /\ ("f64" \in {a.ty, b.ty} \/ {a.ty, b.ty} = {"i64", "f32"})
  <2>1. KeptAs(a, b) = IF a.ty = "i64" THEN AsFloat("f64", a.v) ELSE a.v
    BY <1>5 DEF KeptAs, FloatTypes, HalfTypes
  <2> QED
    BY <1>1, <1>2, <1>3, <1>5, <2>1, KeptByCast, SmallerKept
<1>6. CASE a.ty # b.ty /\ p = (IF "i64" \in {a.ty, b.ty} THEN "i64" ELSE "i32")
           /\ a.ty \in IntTypes /\ b.ty \in IntTypes
  <2>1. KeptAs(a, b) = a.v
    BY <1>6 DEF KeptAs, FloatTypes, HalfTypes, IntTypes
  <2>2. a.v.n \in Int /\ Fits(a.ty, a.v.n) /\ a.v.n % 2 = 0 /\ a.v = Num(a.v.n)
    <3>1. \E n \in Numbers(a.ty) : a.v = Num(n)
      BY <1>1, <1>6, NumberCases
    <3>2. Finite(a.v)
      BY <1>1, <1>6, <3>1, TypeEnds, NumbersAre DEF Numbers
    <3> QED
      BY <1>1, <1>6, <3>2, FloatRange
  <2>3. p \in IntTypes /\ p \in Types /\ MinOf(p) <= MinOf(a.ty) /\ MaxOf[a.ty] <= MaxOf[p]
    <3>1. CASE p = "i64"
      BY <1>6, <3>1, TypesOrdered DEF IntTypes, Types
    <3>2. CASE p = "i32"
      <4>1. a.ty \in {"u8", "i8", "i32"}
        BY <1>6, <3>2 DEF IntTypes
      <4> QED
        BY <3>2, <4>1, TypesOrdered DEF IntTypes, Types
    <3> QED
      BY <1>6, <3>1, <3>2
  <2> HIDE DEF p
  <2>4. MinOf(p) \in Int /\ MaxOf[p] \in Int /\ MinOf(a.ty) \in Int /\ MaxOf[a.ty] \in Int
    BY <1>1, <2>3, TypeEnds
  <2>5. a.v.n \in Numbers(p)
    BY <2>2, <2>3, <2>4 DEF Numbers, Fits
  <2>6. NumberOf(p, a.v)
    BY <2>2, <2>3, <2>5, NumberCases
  <2> QED
    BY <1>2, <2>1, <2>6 DEF p
<1>7. CASE /\ a.ty # b.ty /\ p = "f32" /\ a.ty # "f64" /\ b.ty # "f64" /\ {a.ty, b.ty} # {"i64", "f32"}
           /\ ~(a.ty \in IntTypes /\ b.ty \in IntTypes)
  <2>1. CASE a.ty \in {"i64", "i32"}
    <3>1. b.ty \in HalfTypes \cup {"f32"}
      BY <1>1, <1>7, <2>1 DEF Types, FloatTypes, IntTypes
    <3>2. a.ty = "i64" => b.ty \in HalfTypes
      BY <1>7, <3>1
    <3>3. KeptAs(a, b) = AsFloat("f32", a.v)
      BY <2>1, <3>1, <3>2 DEF KeptAs, FloatTypes, HalfTypes
    <3> QED
      BY <1>1, <1>2, <1>3, <1>7, <3>3, KeptByCast
  <2>2. CASE a.ty \in {"u8", "i8"} \cup HalfTypes
    <3>1. KeptAs(a, b) = a.v
      BY <2>2 DEF KeptAs, HalfTypes
    <3> QED
      BY <1>2, <1>7, <2>2, <3>1, SmallerKept
  <2>3. CASE a.ty = "f32"
    <3>1. KeptAs(a, b) = a.v
      BY <2>3 DEF KeptAs
    <3> QED
      BY <1>1, <1>2, <1>7, <2>3, <3>1
  <2> QED
    BY <1>1, <1>7, <2>1, <2>2, <2>3 DEF Types, IntTypes, FloatTypes
<1> QED
  BY <1>1, <1>4, <1>5, <1>6, <1>7, PromotedTo

\* An integer scalar is a whole number in its type's range.
LEMMA WholeScalar ==
  ASSUME NEW s \in AnyScalar, s.ty \in IntTypes
  PROVE  s.v.n \in Int /\ s.v.n % 2 = 0 /\ s.v.n \in MinOf(s.ty) .. MaxOf[s.ty]
BY ScalarNumbers, FloatRange, NumberCases, NumbersAre, TypeEnds DEF Types, Numbers

\* A type and a number of it make a scalar.
LEMMA ScalarFields ==
  \A t, v : Scalar(t, v).ty = t /\ Scalar(t, v).v = v
            /\ (t \in Types /\ NumberOf(t, v) => Scalar(t, v) \in AnyScalar)
BY ScalarNumbers DEF Scalar

\* The quotient of two integers is an integer.
LEMMA WholeQuotient ==
  ASSUME NEW m \in Int, NEW n \in Int, n # 0
  PROVE  LET q == 2 * Sign(m) * Sign(n) * ((Sign(m) * m) \div (Sign(n) * n))
         IN  q \in Int /\ q % 2 = 0
<1> DEFINE k == (Sign(m) * m) \div (Sign(n) * n)
           i == Sign(m) * Sign(n) * k
<1>1. Sign(m) \in {-1, 0, 1} /\ Sign(n) \in {-1, 1}
  BY DEF Sign
<1>2. Sign(m) * m \in Int /\ Sign(n) * n \in Int /\ Sign(n) * n > 0
  BY DEF Sign
<1>3. k \in Int
  BY <1>2
<1> HIDE DEF k
<1>4. i \in Int /\ 2 * Sign(m) * Sign(n) * k = 2 * i
  BY <1>1, <1>3
<1> HIDE DEF i
<1>5. (2 * i) \in Int /\ (2 * i) % 2 = 0
  BY <1>4
<1> QED
  BY <1>4, <1>5 DEF k

\* What scalar arithmetic gives is a scalar of the promoted type.
LEMMA ArithmeticGives ==
  ASSUME NEW a \in AnyScalar, NEW b \in AnyScalar, NEW op \in {"+", "-", "*", "/"},
         NEW r \in Arithmetic(op, a, b)
  PROVE  r.err # "panic" => r.v \in AnyScalar /\ r.v.ty = Promoted(a.ty, b.ty)
<1> DEFINE t == Promoted(a.ty, b.ty)
           m == a.v.n
           k == b.v.n
           n == IntResult(op, m, k)
           x == AsFloat(t, a.v)
           y == AsFloat(t, b.v)
<1>1. a.ty \in Types /\ b.ty \in Types /\ a.v \in AnyNumber /\ b.v \in AnyNumber
  BY ScalarNumbers DEF NumberOf
<1>2. t \in Types /\ (t \in IntTypes => a.ty \in IntTypes /\ b.ty \in IntTypes)
  BY <1>1, PromotedReaches
<1>3. CASE t \in IntTypes /\ op = "/" /\ k = 0
  <2>1. r = Err("panic")
    BY <1>3 DEF Arithmetic, IntArithmetic
  <2> QED
    BY <2>1, Results
<1>4. CASE t \in IntTypes /\ ~(op = "/" /\ k = 0)
  <2>1. m \in Int /\ m % 2 = 0 /\ k \in Int /\ k % 2 = 0
    BY <1>2, <1>4, WholeScalar
  <2>2. r = Ok(Scalar(t, Num(Wrapped(t, n)))) \/ r = Err("panic")
    BY <1>4 DEF Arithmetic, IntArithmetic
  <2> HIDE DEF t, m, k
  <2>3. n \in Int /\ n % 2 = 0
    <3>1. CASE op = "+"
      BY <2>1, <3>1 DEF IntResult
    <3>2. CASE op = "-"
      BY <2>1, <3>2 DEF IntResult
    <3>3. CASE op = "*"
      BY <2>1, <3>3, WholeProduct DEF IntResult
    <3>4. CASE op = "/"
      <4>1. n = 2 * Sign(m) * Sign(k) * ((Sign(m) * m) \div (Sign(k) * k))
        BY <3>4 DEF IntResult
      <4>2. k # 0
        BY <1>4, <3>4
      <4> HIDE DEF n
      <4> QED
        BY <2>1, <4>1, <4>2, WholeQuotient
    <3> QED
      BY <3>1, <3>2, <3>3, <3>4
  <2> HIDE DEF n
  <2>4. NumberOf(t, Num(Wrapped(t, n)))
    BY <1>2, <1>4, <2>3, WrappedNumber, NumberCases
  <2> QED
    BY <1>2, <2>2, <2>4, Results, ScalarFields DEF t
<1>5. CASE t \notin IntTypes
  <2>1. r = Ok(Scalar(t, FloatResult(op, t, x, y)))
    BY <1>5 DEF Arithmetic
  <2> HIDE DEF t
  <2>2. NumberOf(t, x) /\ NumberOf(t, y)
    BY <1>1, <1>2, <1>5, FloatNumber
  <2> HIDE DEF x, y
  <2>3. NumberOf(t, FloatAdd(t, x, y)) /\ NumberOf(t, FloatMul(t, x, y))
        /\ NumberOf(t, FloatDiv(t, x, y)) /\ NumberOf(t, Negative(y))
    BY <1>2, <1>5, <2>2, FloatArithmetic
  <2>4. NumberOf(t, FloatAdd(t, x, Negative(y)))
    BY <1>2, <1>5, <2>2, <2>3, FloatArithmetic
  <2>5. NumberOf(t, FloatResult(op, t, x, y))
    BY <2>3, <2>4 DEF FloatResult
  <2> QED
    BY <1>2, <2>1, <2>5, Results, ScalarFields DEF t
<1> QED
  BY <1>3, <1>4, <1>5

\* -a is a scalar of a type that has a.
LEMMA NegationGives ==
  ASSUME NEW a \in AnyScalar, NEW r \in Negation(a), r.err # "panic"
  PROVE  r.v \in AnyScalar /\ NumberOf(r.v.ty, a.v)
<1> DEFINE t == IF a.ty = "u8" THEN "i32" ELSE a.ty
<1>1. a.ty \in Types /\ NumberOf(a.ty, a.v) /\ t \in Types
  BY ScalarNumbers DEF Types, IntTypes
<1>2. NumberOf(t, a.v)
  <2>1. SUFFICES ASSUME a.ty = "u8" PROVE NumberOf("i32", a.v)
    BY <1>1
  <2>2. PICK n \in Numbers("u8") : a.v = Num(n)
    BY <1>1, <2>1, NumberCases DEF IntTypes
  <2>3. MinOf("i32") <= MinOf("u8") /\ MaxOf["u8"] <= MaxOf["i32"]
    BY TypesOrdered
  <2>4. "i32" \in Types /\ "u8" \in Types /\ "i32" \in IntTypes
    BY DEF Types, IntTypes
  <2>5. MinOf("i32") \in Int /\ MaxOf["i32"] \in Int /\ MinOf("u8") \in Int /\ MaxOf["u8"] \in Int
    BY <2>4, TypeEnds
  <2>6. n \in Numbers("i32")
    BY <2>3, <2>5 DEF Numbers
  <2> QED
    BY <2>2, <2>4, <2>6, NumberCases
<1>3. CASE t \in IntTypes
  <2>1. r = Ok(Scalar(t, Num(Wrapped(t, -a.v.n)))) \/ r = Err("panic")
    BY <1>3 DEF Negation
  <2>2. -a.v.n \in Int /\ (-a.v.n) % 2 = 0
    <3>1. a.ty \in IntTypes
      BY <1>3 DEF IntTypes
    <3> QED
      BY <3>1, WholeScalar
  <2> HIDE DEF t
  <2>3. NumberOf(t, Num(Wrapped(t, -a.v.n)))
    BY <1>1, <1>3, <2>2, WrappedNumber, NumberCases
  <2> QED
    BY <1>1, <1>2, <2>1, <2>3, Results, ScalarFields
<1>4. CASE t \notin IntTypes
  <2>1. r = Ok(Scalar(t, Negative(a.v))) /\ a.ty = t
    BY <1>4 DEF Negation, IntTypes
  <2> HIDE DEF t
  <2>2. NumberOf(t, Negative(a.v))
    BY <1>1, <1>4, <2>1, FloatArithmetic
  <2> QED
    BY <1>1, <2>1, <2>2, Results, ScalarFields
<1> QED
  BY <1>3, <1>4

\* !a is a scalar of a's type.
LEMMA ComplementGives ==
  ASSUME NEW a \in AnyScalar
  PROVE  Complement(a) \in AnyScalar /\ Complement(a).ty = a.ty
<1>1. a.ty \in Types
  BY ScalarNumbers
<1>2. CASE a.ty = "u8"
  <2>1. a.v.n \in Int /\ a.v.n % 2 = 0 /\ 0 <= a.v.n /\ a.v.n <= MaxOf["u8"]
    BY <1>2, WholeScalar, TypeEnds DEF MinOf, IntTypes, Types
  <2>2. MaxOf["u8"] \in Int /\ MaxOf["u8"] % 2 = 0 /\ MinOf("u8") = 0
    BY TypeEnds DEF MinOf, IntTypes, Types
  <2>3. MaxOf["u8"] - a.v.n \in Numbers("u8")
    BY <2>1, <2>2 DEF Numbers
  <2>4. NumberOf("u8", Num(MaxOf["u8"] - a.v.n))
    BY <2>3, NumberCases DEF Types, IntTypes
  <2>5. Complement(a) = Scalar("u8", Num(MaxOf["u8"] - a.v.n))
    BY <1>2 DEF Complement
  <2> QED
    BY <1>1, <1>2, <2>4, <2>5, ScalarFields
<1>3. CASE a.ty \in IntTypes \ {"u8"}
  <2>1. a.v.n \in Int /\ a.v.n % 2 = 0 /\ MinOf(a.ty) <= a.v.n /\ a.v.n <= MaxOf[a.ty]
    BY <1>3, WholeScalar, TypeEnds DEF Types
  <2>2. MaxOf[a.ty] \in Int /\ MinOf(a.ty) = -MaxOf[a.ty] - 2
    BY <1>3, TypeEnds DEF MinOf, Types
  <2>3. -a.v.n - 2 \in Numbers(a.ty)
    BY <2>1, <2>2 DEF Numbers
  <2>4. NumberOf(a.ty, Num(-a.v.n - 2))
    BY <1>1, <1>3, <2>3, NumberCases
  <2>5. Complement(a) = Scalar(a.ty, Num(-a.v.n - 2))
    BY <1>3 DEF Complement
  <2> QED
    BY <1>1, <2>4, <2>5, ScalarFields
<1>4. CASE a.ty \notin IntTypes
  <2>1. Complement(a) = a
    BY <1>4 DEF Complement, IntTypes
  <2> QED
    BY <2>1
<1> QED
  BY <1>2, <1>3, <1>4

-----------------------------------------------------------------------------
(* The steps of the machine.                                               *)
\* The rows share the cells out.
LEMMA CellsOfRows ==
  /\ \A r \in Rows : {r} \X Columns \subseteq Cells
  /\ \A r, s : r # s => ({r} \X Columns) \cap ({s} \X Columns) = {}
  /\ \A c \in Cells : \E r \in Rows : c \in {r} \X Columns
  /\ Cells # {} => Rows # {} /\ \A r : {r} \X Columns # {}
<1>1. \A r \in Rows : {r} \X Columns \subseteq Cells
  BY DEF Cells
<1>2. \A r, s : r # s => ({r} \X Columns) \cap ({s} \X Columns) = {}
  OBVIOUS
<1>3. ASSUME NEW c \in Cells
      PROVE  \E r \in Rows : c \in {r} \X Columns
  <2>1. PICK r \in Rows, k \in Columns : c = <<r, k>>
    BY DEF Cells
  <2> QED
    BY <2>1
<1>4. ASSUME Cells # {}
      PROVE  Rows # {} /\ \A r : {r} \X Columns # {}
  <2>1. PICK r \in Rows, k \in Columns : TRUE
    BY <1>4 DEF Cells
  <2>2. \A s : <<s, k>> \in {s} \X Columns
    BY <2>1
  <2> QED
    BY <2>1, <2>2
<1> QED
  BY <1>1, <1>2, <1>3, <1>4

\* Every type has a zero.
LEMMA ZeroNumber ==
  ASSUME NEW t \in Types
  PROVE  NumberOf(t, Zero)
<1>1. CASE t \in IntTypes
  <2>1. 0 \in Numbers(t)
    BY <1>1, TypeEnds DEF Numbers
  <2> QED
    BY <1>1, <2>1, NumberCases DEF Zero
<1>2. CASE t \notin IntTypes
  BY <1>2, FloatConstants
<1> QED
  BY <1>1, <1>2

\* One step, on the cells of some rows: it is refused when it is not defined for
\* one of them, and otherwise each of them gets its value; none ever panics.
LEMMA CellsStep ==
  ASSUME NEW step \in AnyStep, NEW t \in Types, NEW cells \in SUBSET Cells,
         NEW d \in [Cells -> AnyNumber], \A c \in Cells : NumberOf(t, d[c])
  PROVE  /\ Refused(step, t, cells, d) /\ cells # {} => \E c \in cells : ~Defined(step, t, d[c])
         /\ ~Refused(step, t, cells, d) =>
              /\ \A c \in cells : /\ Defined(step, t, d[c])
                                  /\ Applied(step, t, cells, d)[c] = Value(step, t, d[c])
              /\ \A c \in Cells \ cells : Applied(step, t, cells, d)[c] = d[c]
              /\ Applied(step, t, cells, d) \in [Cells -> AnyNumber]
              /\ \A c \in Cells : NumberOf(t, Applied(step, t, cells, d)[c])
         /\ StepError(step, t) # "panic"
         /\ ~(StepError(step, t) = "none" /\ \E c \in cells : Element(step, t, d[c]).err = "panic")
<1>1. \A c \in Cells : Exact(step, t, d[c])
  BY StepsAreExact
<1>2. \A c \in Cells : NumberOf(t, d[c])
  OBVIOUS
<1>3. \A c \in Cells : Applied(step, t, cells, d)[c]
        = IF c \in cells THEN Element(step, t, d[c]).v ELSE d[c]
  BY DEF Applied
<1>4. ASSUME Refused(step, t, cells, d), cells # {}
      PROVE  \E c \in cells : ~Defined(step, t, d[c])
  BY <1>1, <1>4 DEF Refused, Exact
<1>5. ASSUME ~Refused(step, t, cells, d)
      PROVE  \A c \in cells : /\ Defined(step, t, d[c])
                              /\ Applied(step, t, cells, d)[c] = Value(step, t, d[c])
                              /\ NumberOf(t, Applied(step, t, cells, d)[c])
  BY <1>1, <1>3, <1>5 DEF Refused, Exact
<1>6. ASSUME ~Refused(step, t, cells, d)
      PROVE  /\ \A c \in Cells \ cells : Applied(step, t, cells, d)[c] = d[c]
             /\ Applied(step, t, cells, d) \in [Cells -> AnyNumber]
             /\ \A c \in Cells : NumberOf(t, Applied(step, t, cells, d)[c])
  <2>1. \A c \in Cells : NumberOf(t, Applied(step, t, cells, d)[c])
    BY <1>2, <1>3, <1>5, <1>6
  <2>2. \A c \in Cells : Applied(step, t, cells, d)[c] \in AnyNumber
    BY <2>1 DEF NumberOf
  <2> QED
    BY <1>3, <2>1, <2>2 DEF Applied
<1>7. ~(StepError(step, t) = "none" /\ \E c \in cells : Element(step, t, d[c]).err = "panic")
  BY <1>1 DEF Exact
<1>8. StepError(step, t) # "panic"
  <2>1. NumberOf(t, Zero)
    BY ZeroNumber
  <2> QED
    BY <2>1, StepsAreExact DEF Exact
<1> QED
  BY <1>4, <1>5, <1>6, <1>7, <1>8

\* How the reference goes from one step to the next.
LEMMA AfterSteps ==
  /\ \A c : After(c, 0) = tensor[c]
  /\ \A c : \A k \in Nat :
       After(c, k + 1) = IF After(c, k) = Undefined \/ ~Defined(steps[k + 1], ty, After(c, k))
                         THEN Undefined ELSE Value(steps[k + 1], ty, After(c, k))
BY ThroughSteps DEF After, OneStep

\* A number is not the mark for an undefined result.
LEMMA NumbersDefined ==
  \A t, v : NumberOf(t, v) => v # Undefined
BY NumbersAre DEF NumberOf, Undefined

\* The cells hold numbers of the tensor's type.
LEMMA DataTyped ==
  ASSUME TransTypeOK, PipelineInv
  PROVE  \A c \in Cells : NumberOf(ty, data[c])
BY DEF TransTypeOK, PipelineInv, NumberOf

\* The steps a pipeline is built from are such as the constructors return.
LEMMA ConstructedSteps ==
  /\ FirstSteps \subseteq AnyStep /\ LaterSteps \subseteq AnyStep
  /\ \A s \in AnyScalar : [op |-> "add", value |-> s, wrapping |-> FALSE] \in AnyStep
BY TransformAssumption DEF AnyStep, AddSteps

\* A tensor that exec has not seen satisfies the invariant.
LEMMA TransInvInitially ==
  TransInit => TransInv
<1> SUFFICES ASSUME TransInit PROVE TransInv
  OBVIOUS
<1> USE DEF TransInit
<1>1. ty \in Types /\ \A c \in Cells : NumberOf(ty, tensor[c]) /\ tensor[c] \in AnyNumber
  BY TransformAssumption DEF Holding, NumberOf
<1>2. MaxSteps \in Nat /\ MaxSteps >= 1 /\ Len(steps) = 0 /\ steps \in Seq(AnyStep)
  BY TransformAssumption
<1>3. PipelineInv
  BY <1>1, <1>2 DEF PipelineInv
<1>4. TransTypeOK
  <2>1. \A c \in Cells : Scalar(ty, data[c]) \in ScalarsOver({ty}, {data[c]})
    BY <1>1 DEF NumberOf
  <2>2. next \in [Rows -> 1 .. MaxSteps + 2] /\ failedAt \in 0 .. MaxSteps
    BY <1>2
  <2> QED
    BY <2>1, <2>2 DEF TransTypeOK
<1>5. BuildInv /\ OutcomeInv /\ BoundsNeverCross /\ PromotionKeepsOperands
  BY <1>2 DEF BuildInv, OutcomeInv, BoundsNeverCross, PromotionKeepsOperands
<1>6. RowsHoldWholeSteps
  BY <1>2, AfterSteps, CellsOfRows DEF RowsHoldWholeSteps, Done
<1> QED
  BY <1>3, <1>4, <1>5, <1>6 DEF TransInv

\* The reference depends on the pipeline and on the tensor as it was given.
LEMMA AfterKept ==
  ASSUME steps' = steps, ty' = ty, tensor' = tensor
  PROVE  \A c, k : After(c, k)' = After(c, k)
BY DEF After

\* A step is added at the end.
LEMMA AppendedSteps ==
  ASSUME NEW s \in Seq(AnyStep), NEW step \in AnyStep
  PROVE  /\ Append(s, step) \in Seq(AnyStep) /\ Len(Append(s, step)) = Len(s) + 1
         /\ Append(s, step) # << >>
         /\ s # << >> => Append(s, step)[1] = s[1]
         /\ s = << >> => Append(s, step)[1] = step
OBVIOUS

\* A pipeline of one step.
LEMMA SingleStep ==
  ASSUME NEW step \in AnyStep
  PROVE  <<step>> \in Seq(AnyStep) /\ Len(<<step>>) = 1 /\ <<step>> # << >> /\ <<step>>[1] = step
OBVIOUS

\* An operand is kept beside one of its own type.
LEMMA KeptAlone ==
  \A a : KeptAs(a, a) = a.v
BY DEF KeptAs, FloatTypes, HalfTypes

\* A computation of the first step's addend panics and leaves the pipeline
\* empty, or makes it a step whose type has the operands as KeptAs says.
LEMMA ComputeGives ==
  ASSUME Compute
  PROVE  /\ run = "build" /\ steps = << >>
         /\ ty' = ty /\ tensor' = tensor /\ data' = data /\ next' = next /\ failedAt' = failedAt
         /\ \/ run' = "panic" /\ steps' = << >>
            \/ /\ run' = "build"
               /\ \E s \in AnyScalar :
                    /\ steps' = << [op |-> "add", value |-> s, wrapping |-> FALSE] >>
                    /\ \A a, b \in operands' : a # b \/ operands' = {a} => NumberOf(s.ty, KeptAs(a, b))
<1>1. run = "build" /\ steps = << >>
      /\ ty' = ty /\ tensor' = tensor /\ data' = data /\ next' = next /\ failedAt' = failedAt
  BY DEF Compute
<1>2. ASSUME NEW used, NEW r, Computes(used, r),
             r.err # "panic" =>
               /\ r.v \in AnyScalar
               /\ \A a, b \in used : a # b \/ used = {a} => NumberOf(r.v.ty, KeptAs(a, b))
      PROVE  \/ run' = "panic" /\ steps' = << >>
             \/ /\ run' = "build"
                /\ \E s \in AnyScalar :
                     /\ steps' = << [op |-> "add", value |-> s, wrapping |-> FALSE] >>
                     /\ \A a, b \in operands' : a # b \/ operands' = {a} => NumberOf(s.ty, KeptAs(a, b))
  BY <1>1, <1>2 DEF Computes
<1>3. PICK a \in Operands :
        \/ \E b \in Operands, op \in {"+", "-", "*", "/"} : \E r \in Arithmetic(op, a, b) : Computes({a, b}, r)
        \/ \E r \in Negation(a) : Computes({a}, r)
        \/ Computes({a}, Ok(Complement(a)))
  BY DEF Compute
<1>4. Operands \subseteq AnyScalar
  BY TransformAssumption
<1>5. CASE \E b \in Operands, op \in {"+", "-", "*", "/"} : \E r \in Arithmetic(op, a, b) : Computes({a, b}, r)
  <2>1. PICK b \in Operands, op \in {"+", "-", "*", "/"} : \E r \in Arithmetic(op, a, b) : Computes({a, b}, r)
    BY <1>5
  <2>2. PICK r \in Arithmetic(op, a, b) : Computes({a, b}, r)
    BY <2>1
  <2>3. r.err # "panic" =>
          /\ r.v \in AnyScalar
          /\ \A s, u \in {a, b} : s # u \/ {a, b} = {s} => NumberOf(r.v.ty, KeptAs(s, u))
    <3>1. r.err # "panic" => r.v \in AnyScalar /\ r.v.ty = Promoted(a.ty, b.ty)
      BY <1>4, ArithmeticGives
    <3>2. /\ NumberOf(Promoted(a.ty, b.ty), KeptAs(a, b))
          /\ NumberOf(Promoted(a.ty, b.ty), KeptAs(b, a))
      BY <1>4, PromotedKeeps
    <3> QED
      BY <3>1, <3>2
  <2> QED
    BY <1>1, <1>2, <2>2, <2>3
<1>6. CASE \E r \in Negation(a) : Computes({a}, r)
  <2>1. PICK r \in Negation(a) : Computes({a}, r)
    BY <1>6
  <2>2. r.err # "panic" => r.v \in AnyScalar /\ NumberOf(r.v.ty, a.v)
    BY <1>4, <2>1, NegationGives
  <2>3. KeptAs(a, a) = a.v
    BY KeptAlone
  <2>4. r.err # "panic" =>
          /\ r.v \in AnyScalar
          /\ \A s, u \in {a} : s # u \/ {a} = {s} => NumberOf(r.v.ty, KeptAs(s, u))
    BY <2>2, <2>3
  <2> QED
    BY <1>1, <1>2, <2>1, <2>4
<1>7. CASE Computes({a}, Ok(Complement(a)))
  <2>1. Ok(Complement(a)).v \in AnyScalar /\ Ok(Complement(a)).v.ty = a.ty
    BY <1>4, ComplementGives, Results
  <2>2. NumberOf(a.ty, a.v)
    BY <1>4, ScalarNumbers
  <2>3. KeptAs(a, a) = a.v
    BY KeptAlone
  <2> DEFINE r == Ok(Complement(a))
  <2>4. r.v \in AnyScalar /\ NumberOf(r.v.ty, a.v)
    BY <2>1, <2>2
  <2>5. Computes({a}, r)
    BY <1>7
  <2> HIDE DEF r
  <2>6. r.err # "panic" =>
          /\ r.v \in AnyScalar
          /\ \A s, u \in {a} : s # u \/ {a} = {s} => NumberOf(r.v.ty, KeptAs(s, u))
    BY <2>3, <2>4
  <2> QED
    BY <1>1, <1>2, <2>5, <2>6
<1> QED
  BY <1>1, <1>3, <1>5, <1>6, <1>7

\* Then adds a step as its constructor returned it.
LEMMA ThenGives ==
  ASSUME TransInv, Then
  PROVE  /\ run = "build" /\ run' = "build"
         /\ operands' = operands
         /\ ty' = ty /\ tensor' = tensor /\ data' = data /\ next' = next /\ failedAt' = failedAt
         /\ steps' \in Seq(AnyStep) /\ steps' # << >>
         /\ Len(steps') = Len(steps) + 1 /\ Len(steps') <= MaxSteps
         /\ steps # << >> => steps'[1] = steps[1]
<1>1. PICK step \in FirstSteps \cup LaterSteps : steps' = Append(steps, step)
  BY DEF Then
<1>2. step \in AnyStep
  BY ConstructedSteps
<1>3. steps \in Seq(AnyStep) /\ Len(steps) \in Nat
  BY DEF TransInv, PipelineInv
<1>4. MaxSteps \in Nat /\ Len(steps) < MaxSteps
  BY TransformAssumption DEF Then
<1> QED
  BY <1>1, <1>2, <1>3, <1>4, AppendedSteps DEF Then

\* The reference after a row's next step.
LEMMA NextAfter ==
  ASSUME TransInv, NEW r \in Rows, next[r] \in 1 .. Len(steps), NEW c \in {r} \X Columns
  PROVE  After(c, next[r]) = IF Defined(steps[next[r]], ty, data[c])
                             THEN Value(steps[next[r]], ty, data[c]) ELSE Undefined
<1>1. c \in Cells
  BY CellsOfRows
<1>2. RowsHoldWholeSteps
  BY <1>1 DEF TransInv
<1>3. Len(steps) \in Nat
  BY DEF TransInv, PipelineInv
<1>4. Done(r) = {next[r] - 1}
  BY <1>3 DEF Done
<1>5. data[c] = After(c, next[r] - 1)
  BY <1>2, <1>4 DEF RowsHoldWholeSteps
<1>6. next[r] - 1 \in Nat /\ (next[r] - 1) + 1 = next[r]
  BY <1>3
<1>7. NumberOf(ty, data[c])
  BY <1>1, DataTyped DEF TransInv
<1>8. data[c] # Undefined
  BY <1>7, NumbersDefined
<1> DEFINE k == next[r] - 1
<1>9. After(c, k + 1) = IF After(c, k) = Undefined \/ ~Defined(steps[k + 1], ty, After(c, k))
                        THEN Undefined ELSE Value(steps[k + 1], ty, After(c, k))
  BY <1>6, AfterSteps
<1> QED
  BY <1>5, <1>6, <1>8, <1>9

\* exec_seq goes on with every row.
LEMMA SeqStepGives ==
  ASSUME TransInv, SeqStep
  PROVE  /\ run = "seq" /\ steps' = steps /\ ty' = ty /\ tensor' = tensor /\ operands' = operands
         /\ \E i \in 1 .. Len(steps) :
              /\ \A r \in Rows : next[r] = i
              /\ \/ /\ run' = "failed" /\ failedAt' = i /\ data' = data /\ next' = next
                    /\ Cells # {} => \E c \in Cells : After(c, i) = Undefined
                 \/ /\ run' = IF i = Len(steps) THEN "ok" ELSE "seq"
                    /\ failedAt' = failedAt
                    /\ next' = [r \in Rows |-> i + 1]
                    /\ data' \in [Cells -> AnyNumber]
                    /\ \A c \in Cells : NumberOf(ty, data'[c]) /\ data'[c] = After(c, i)
<1>1. PICK i \in 1 .. Len(steps) :
        /\ \A r \in Rows : next[r] = i
        /\ IF Refused(steps[i], ty, Cells, data)
           THEN /\ run' = IF Panics(steps[i], Cells) THEN "panic" ELSE "failed"
                /\ failedAt' = i
                /\ UNCHANGED <<data, next>>
           ELSE /\ data' = Applied(steps[i], ty, Cells, data)
                /\ next' = [r \in Rows |-> i + 1]
                /\ run' = IF i = Len(steps) THEN "ok" ELSE run
                /\ UNCHANGED failedAt
  BY DEF SeqStep
<1>2. run = "seq" /\ steps' = steps /\ ty' = ty /\ tensor' = tensor /\ operands' = operands
  BY DEF SeqStep
<1>3. /\ steps[i] \in AnyStep /\ ty \in Types
      /\ data \in [Cells -> AnyNumber] /\ \A c \in Cells : NumberOf(ty, data[c])
  BY DataTyped DEF TransInv, PipelineInv
<1>4. \A c \in Cells : After(c, i) = IF Defined(steps[i], ty, data[c])
                                     THEN Value(steps[i], ty, data[c]) ELSE Undefined
  BY <1>1, CellsOfRows, NextAfter
<1>5. CASE Refused(steps[i], ty, Cells, data)
  <2>1. ~Panics(steps[i], Cells)
    BY <1>3, CellsStep DEF Panics
  <2>2. Cells # {} => \E c \in Cells : ~Defined(steps[i], ty, data[c])
    BY <1>3, <1>5, CellsStep
  <2> QED
    BY <1>1, <1>2, <1>4, <1>5, <2>1, <2>2
<1>6. CASE ~Refused(steps[i], ty, Cells, data)
  <2>1. data' = Applied(steps[i], ty, Cells, data)
    BY <1>1, <1>6
  <2>2. /\ data' \in [Cells -> AnyNumber]
        /\ \A c \in Cells : NumberOf(ty, data'[c]) /\ data'[c] = Value(steps[i], ty, data[c])
                            /\ Defined(steps[i], ty, data[c])
    <3> DEFINE step    == steps[i]
               applied == Applied(step, ty, Cells, data)
    <3>1. step \in AnyStep /\ ~Refused(step, ty, Cells, data) /\ data' = applied
      BY <1>3, <1>6, <2>1
    <3> SUFFICES /\ applied \in [Cells -> AnyNumber]
                 /\ \A c \in Cells : /\ NumberOf(ty, applied[c]) /\ applied[c] = Value(step, ty, data[c])
                                     /\ Defined(step, ty, data[c])
      BY <3>1
    <3> HIDE DEF step
    <3>2. /\ applied \in [Cells -> AnyNumber]
          /\ \A c \in Cells : NumberOf(ty, applied[c])
      BY <1>3, <3>1, CellsStep
    <3>3. \A c \in Cells : applied[c] = Value(step, ty, data[c]) /\ Defined(step, ty, data[c])
      BY <1>3, <3>1, CellsStep
    <3> QED
      BY <3>2, <3>3
  <2> QED
    BY <1>1, <1>2, <1>4, <1>6, <2>2
<1> QED
  BY <1>5, <1>6

\* exec_parallel goes on with one row.
LEMMA RowStepGives ==
  ASSUME TransInv, NEW r \in Rows, RowStep(r)
  PROVE  /\ run = "par" /\ run' = "par" /\ steps' = steps /\ ty' = ty /\ tensor' = tensor
         /\ operands' = operands /\ next[r] \in 1 .. Len(steps)
         /\ \/ /\ failedAt' = IF failedAt = 0 THEN next[r] ELSE failedAt
               /\ next' = [next EXCEPT ![r] = Len(steps) + 2] /\ data' = data
               /\ Cells # {} => \E c \in {r} \X Columns : After(c, next[r]) = Undefined
            \/ /\ failedAt' = failedAt /\ next' = [next EXCEPT ![r] = next[r] + 1]
               /\ data' \in [Cells -> AnyNumber]
               /\ \A c \in Cells : NumberOf(ty, data'[c])
               /\ \A c \in {r} \X Columns : data'[c] = After(c, next[r])
               /\ \A c \in Cells \ ({r} \X Columns) : data'[c] = data[c]
<1> DEFINE cells == {r} \X Columns
           step  == steps[next[r]]
<1>0. /\ run = "par" /\ steps' = steps /\ ty' = ty /\ tensor' = tensor
      /\ operands' = operands /\ next[r] \in 1 .. Len(steps)
  BY DEF RowStep
<1>2. /\ step \in AnyStep /\ ty \in Types /\ cells \in SUBSET Cells
      /\ data \in [Cells -> AnyNumber] /\ \A c \in Cells : NumberOf(ty, data[c])
  BY <1>0, DataTyped, CellsOfRows DEF TransInv, PipelineInv
<1>1. /\ run = "par" /\ run' = "par" /\ steps' = steps /\ ty' = ty /\ tensor' = tensor
      /\ operands' = operands /\ next[r] \in 1 .. Len(steps)
  <2>1. ~Panics(step, cells)
    <3> HIDE DEF cells, step
    <3> QED
      BY <1>2, CellsStep DEF Panics
  <2>2. run' \in {IF Panics(step, cells) THEN "panic" ELSE run, run}
    <3>1. CASE Refused(step, ty, cells, data)
      BY <3>1 DEF RowStep
    <3>2. CASE ~Refused(step, ty, cells, data)
      BY <3>2 DEF RowStep
    <3> QED
      BY <3>1, <3>2
  <2> QED
    BY <1>0, <2>1, <2>2
<1>3. \A c \in cells : After(c, next[r]) = IF Defined(step, ty, data[c])
                                           THEN Value(step, ty, data[c]) ELSE Undefined
  BY <1>1, NextAfter
<1>4. CASE Refused(step, ty, cells, data)
  <2>1. Cells # {} => \E c \in cells : ~Defined(step, ty, data[c])
    <3>1. Cells # {} => cells # {}
      BY CellsOfRows
    <3> HIDE DEF cells, step
    <3> QED
      BY <1>2, <1>4, <3>1, CellsStep
  <2>2. /\ failedAt' = IF failedAt = 0 THEN next[r] ELSE failedAt
        /\ next' = [next EXCEPT ![r] = Len(steps) + 2] /\ data' = data
    BY <1>4 DEF RowStep
  <2> QED
    BY <1>1, <1>3, <2>1, <2>2
<1>5. CASE ~Refused(step, ty, cells, data)
  <2>1. /\ data' = Applied(step, ty, cells, data)
        /\ failedAt' = failedAt /\ next' = [next EXCEPT ![r] = next[r] + 1]
    BY <1>5 DEF RowStep
  <2>2. /\ data' \in [Cells -> AnyNumber]
        /\ \A c \in Cells : NumberOf(ty, data'[c])
        /\ \A c \in cells : data'[c] = Value(step, ty, data[c]) /\ Defined(step, ty, data[c])
        /\ \A c \in Cells \ cells : data'[c] = data[c]
    BY <1>2, <1>5, <2>1, CellsStep
  <2> QED
    BY <1>1, <1>3, <2>1, <2>2
<1> QED
  BY <1>4, <1>5

-----------------------------------------------------------------------------
(* The invariant, one lemma for every part of it.                          *)
\* What the other actions leave: they touch no number and no row.
LEMMA RemainingGives ==
  ASSUME TransInv, Exec \/ Join \/ Returned \/ UNCHANGED transVars
  PROVE  /\ steps' = steps /\ ty' = ty /\ tensor' = tensor /\ operands' = operands
         /\ data' = data /\ next' = next /\ failedAt' = failedAt
         /\ \/ run' = run
            \/ run = "build" /\ run' \in {"seq", "par"}
            \/ run' = "ok" /\ \A r \in Rows : next[r] = Len(steps) + 1
            \/ run' = "failed" /\ run = "par" /\ failedAt # 0
<1>1. CASE Exec
  <2>1. \/ run' = "ok" /\ run = "build" /\ steps = << >>
        \/ run = "build" /\ run' \in {"seq", "par"}
    BY <1>1 DEF Exec
  <2>2. run = "build" /\ steps = << >> => \A r \in Rows : next[r] = Len(steps) + 1
    BY DEF TransInv, BuildInv
  <2> QED
    BY <1>1, <2>1, <2>2 DEF Exec
<1>2. CASE Join
  <2>1. \A r \in Rows : failedAt = 0 => next[r] = Len(steps) + 1
    <3> SUFFICES ASSUME NEW r \in Rows, failedAt = 0 PROVE next[r] = Len(steps) + 1
      OBVIOUS
    <3>1. next[r] > Len(steps) /\ next[r] # Len(steps) + 2
      BY <1>2 DEF Join, TransInv, OutcomeInv
    <3>2. next[r] \in 1 .. Len(steps) + 2 /\ Len(steps) \in Nat
      BY DEF TransInv, PipelineInv
    <3> QED
      BY <3>1, <3>2
  <2> QED
    BY <1>2, <2>1 DEF Join
<1>3. CASE Returned \/ UNCHANGED transVars
  BY <1>3 DEF Returned, transVars
<1> QED
  BY <1>1, <1>2, <1>3

\* The cases of a step.
LEMMA TransSteps ==
  ASSUME [TransNext]_transVars
  PROVE  \/ Compute \/ Then \/ SeqStep
         \/ \E r \in Rows : RowStep(r)
         \/ Exec \/ Join \/ Returned \/ UNCHANGED transVars
BY DEF TransNext

\* Every step keeps the types.
LEMMA TypedStep ==
  ASSUME TransInv, [TransNext]_transVars
  PROVE  TransTypeOK' /\ PipelineInv'
<1> USE DEF TransInv, PipelineInv
<1>0. /\ MaxSteps \in Nat /\ MaxSteps >= 1 /\ Len(steps) \in Nat
      /\ run \in {"build", "seq", "par", "ok", "failed", "panic"}
      /\ failedAt \in 0 .. MaxSteps /\ next \in [Rows -> 1 .. Len(steps) + 2]
  BY TransformAssumption DEF TransTypeOK
<1>d. \A c \in Cells : NumberOf(ty, data[c])
  BY DataTyped
<1>1. SUFFICES /\ run' \in {"build", "seq", "par", "ok", "failed", "panic"}
               /\ failedAt' \in 0 .. MaxSteps
               /\ steps' \in Seq(AnyStep) /\ Len(steps') <= MaxSteps
               /\ ty' = ty /\ tensor' = tensor
               /\ data' \in [Cells -> AnyNumber] /\ \A c \in Cells : NumberOf(ty, data'[c])
               /\ next' \in [Rows -> 1 .. Len(steps') + 2]
  <2>1. Len(steps') \in Nat
    BY <1>1
  <2>2. next' \in [Rows -> 1 .. MaxSteps + 2]
    BY <1>0, <1>1, <2>1
  <2>3. \A c \in Cells : Scalar(ty, data'[c]) \in ScalarsOver({ty}, {data'[c]})
    BY <1>1 DEF NumberOf
  <2>4. \A c \in Cells : NumberOf(ty, tensor[c])
    OBVIOUS
  <2>5. TransTypeOK'
    BY <1>1, <2>2, <2>3 DEF TransTypeOK
  <2>6. PipelineInv'
    BY <1>1, <2>4
  <2> QED
    BY <2>5, <2>6
<1>2. CASE Compute
  <2>1. \A s \in AnyScalar : << [op |-> "add", value |-> s, wrapping |-> FALSE] >> \in Seq(AnyStep)
          /\ Len(<< [op |-> "add", value |-> s, wrapping |-> FALSE] >>) = 1
    BY ConstructedSteps, SingleStep
  <2>2. run = "build" /\ \A r \in Rows : next[r] = 1
    BY <1>2, ComputeGives DEF BuildInv
  <2>3. steps' \in Seq(AnyStep) /\ Len(steps') \in {0, 1}
    BY <1>2, <2>1, ComputeGives
  <2>4. next' \in [Rows -> 1 .. Len(steps') + 2]
    BY <1>0, <1>2, <2>2, <2>3, ComputeGives
  <2> QED
    BY <1>0, <1>d, <1>2, <2>3, <2>4, ComputeGives
<1>3. CASE Then
  <2>1. \A r \in Rows : next[r] = 1
    BY <1>3, ThenGives DEF BuildInv
  <2>2. Len(steps') \in Nat /\ next' = next
    BY <1>3, ThenGives
  <2>3. next' \in [Rows -> 1 .. Len(steps') + 2]
    BY <1>0, <2>1, <2>2
  <2> QED
    BY <1>0, <1>d, <1>3, <2>3, ThenGives
<1>4. CASE SeqStep
  <2>1. PICK i \in 1 .. Len(steps) :
          \/ /\ run' = "failed" /\ failedAt' = i /\ data' = data /\ next' = next
          \/ /\ run' = IF i = Len(steps) THEN "ok" ELSE "seq"
             /\ failedAt' = failedAt
             /\ next' = [r \in Rows |-> i + 1]
             /\ data' \in [Cells -> AnyNumber]
             /\ \A c \in Cells : NumberOf(ty, data'[c])
    BY <1>4, SeqStepGives
  <2>2. steps' = steps /\ ty' = ty /\ tensor' = tensor
    BY <1>4, SeqStepGives
  <2> QED
    BY <1>0, <1>d, <2>1, <2>2
<1>5. CASE \E r \in Rows : RowStep(r)
  <2>1. PICK r \in Rows : RowStep(r)
    BY <1>5
  <2>2. /\ run' = "par" /\ steps' = steps /\ ty' = ty /\ tensor' = tensor
        /\ next[r] \in 1 .. Len(steps)
        /\ failedAt' \in {failedAt, next[r]}
        /\ \/ next' = [next EXCEPT ![r] = Len(steps) + 2] /\ data' = data
           \/ /\ next' = [next EXCEPT ![r] = next[r] + 1]
              /\ data' \in [Cells -> AnyNumber]
              /\ \A c \in Cells : NumberOf(ty, data'[c])
    BY <2>1, RowStepGives
  <2>3. next' \in [Rows -> 1 .. Len(steps) + 2]
    BY <1>0, <2>2
  <2> QED
    BY <1>0, <1>d, <2>2, <2>3
<1>6. CASE Exec \/ Join \/ Returned \/ UNCHANGED transVars
  BY <1>0, <1>d, <1>6, RemainingGives
<1> QED
  BY <1>2, <1>3, <1>4, <1>5, <1>6, TransSteps

\* Nothing is applied before exec.
LEMMA BuildStep ==
  ASSUME TransInv, [TransNext]_transVars
  PROVE  BuildInv'
<1> USE DEF BuildInv
<1>1. CASE Compute
  <2>1. steps' = << >> => run' = "panic"
    <3>1. \A s \in AnyScalar : << [op |-> "add", value |-> s, wrapping |-> FALSE] >> # << >>
      BY ConstructedSteps, SingleStep
    <3> QED
      BY <1>1, <3>1, ComputeGives
  <2> QED
    BY <1>1, <2>1, ComputeGives DEF TransInv
<1>2. CASE Then
  BY <1>2, ThenGives DEF TransInv
<1>3. CASE SeqStep
  BY <1>3, SeqStepGives
<1>4. CASE \E r \in Rows : RowStep(r)
  BY <1>4, RowStepGives
<1>5. CASE Exec \/ Join \/ Returned \/ UNCHANGED transVars
  BY <1>5, RemainingGives DEF TransInv
<1> QED
  BY <1>1, <1>2, <1>3, <1>4, <1>5, TransSteps

\* An outcome is that of the reference.
LEMMA OutcomeStep ==
  ASSUME TransInv, [TransNext]_transVars
  PROVE  OutcomeInv'
<1>0. /\ Len(steps) \in Nat /\ next \in [Rows -> 1 .. Len(steps) + 2]
      /\ \A r \in Rows : next[r] = Len(steps) + 2 => failedAt # 0
      /\ run = "ok" => \A r \in Rows : next[r] = Len(steps) + 1
      /\ run = "failed" => failedAt # 0
      /\ failedAt # 0 =>
           /\ failedAt \in 1 .. Len(steps)
           /\ Cells # {} => \E c \in Cells : After(c, failedAt) = Undefined
  BY DEF TransInv, PipelineInv, OutcomeInv
<1>1. CASE run = "build" /\ run' \in {"build", "panic"} /\ next' = next /\ failedAt' = failedAt
           /\ Len(steps') \in Nat
  <2>1. failedAt = 0 /\ \A r \in Rows : next[r] = 1
    BY <1>1 DEF TransInv, BuildInv
  <2> QED
    BY <1>1, <2>1 DEF OutcomeInv
<1>2. CASE Compute
  <2>1. \A s \in AnyScalar : Len(<< [op |-> "add", value |-> s, wrapping |-> FALSE] >>) = 1
    BY ConstructedSteps, SingleStep
  <2> QED
    BY <1>1, <1>2, <2>1, ComputeGives
<1>3. CASE Then
  <2>1. Len(steps') \in Nat
    BY <1>0, <1>3, ThenGives
  <2> QED
    BY <1>1, <1>3, <2>1, ThenGives
<1>4. CASE SeqStep
  <2>1. PICK i \in 1 .. Len(steps) :
          /\ \A r \in Rows : next[r] = i
          /\ \/ /\ run' = "failed" /\ failedAt' = i /\ next' = next
                /\ Cells # {} => \E c \in Cells : After(c, i) = Undefined
             \/ /\ run' = IF i = Len(steps) THEN "ok" ELSE "seq"
                /\ failedAt' = failedAt
                /\ next' = [r \in Rows |-> i + 1]
    BY <1>4, SeqStepGives
  <2>2. steps' = steps /\ \A c, k : After(c, k)' = After(c, k)
    BY <1>4, SeqStepGives, AfterKept
  <2>3. CASE run' = "failed" /\ failedAt' = i /\ next' = next
             /\ (Cells # {} => \E c \in Cells : After(c, i) = Undefined)
    BY <1>0, <2>2, <2>3 DEF OutcomeInv
  <2>4. CASE /\ run' = IF i = Len(steps) THEN "ok" ELSE "seq"
             /\ failedAt' = failedAt
             /\ next' = [r \in Rows |-> i + 1]
    BY <1>0, <2>2, <2>4 DEF OutcomeInv
  <2> QED
    BY <2>1, <2>3, <2>4
<1>5. CASE \E r \in Rows : RowStep(r)
  <2>1. PICK r \in Rows : RowStep(r)
    BY <1>5
  <2>2. run' = "par" /\ steps' = steps /\ next[r] \in 1 .. Len(steps)
        /\ \A c, k : After(c, k)' = After(c, k)
    BY <2>1, RowStepGives, AfterKept
  <2>3. CASE /\ failedAt' = IF failedAt = 0 THEN next[r] ELSE failedAt
             /\ next' = [next EXCEPT ![r] = Len(steps) + 2]
             /\ Cells # {} => \E c \in {r} \X Columns : After(c, next[r]) = Undefined
    <3>1. Cells # {} => \E c \in Cells : After(c, next[r]) = Undefined
      BY <2>3, CellsOfRows
    <3>2. failedAt' # 0
      BY <2>2, <2>3
    <3> QED
      BY <1>0, <2>2, <2>3, <3>1, <3>2 DEF OutcomeInv
  <2>4. CASE failedAt' = failedAt /\ next' = [next EXCEPT ![r] = next[r] + 1]
    <3>1. \A s \in Rows : next'[s] = Len(steps) + 2 => next[s] = Len(steps) + 2
      BY <1>0, <2>2, <2>4
    <3> QED
      BY <1>0, <2>2, <2>4, <3>1 DEF OutcomeInv
  <2> QED
    BY <2>1, <2>3, <2>4, RowStepGives
<1>6. CASE Exec \/ Join \/ Returned \/ UNCHANGED transVars
  <2>1. \A c, k : After(c, k)' = After(c, k)
    BY <1>6, RemainingGives, AfterKept
  <2> QED
    BY <1>0, <1>6, <2>1, RemainingGives DEF OutcomeInv
<1> QED
  BY <1>2, <1>3, <1>4, <1>5, <1>6, TransSteps

\* Every row holds a whole number of steps: the row that moves takes all of one or
\* nothing of it.
LEMMA RowsStep ==
  ASSUME TransInv, [TransNext]_transVars, Cells # {}
  PROVE  RowsHoldWholeSteps'
<1>0. /\ Len(steps) \in Nat /\ next \in [Rows -> 1 .. Len(steps) + 2]
      /\ RowsHoldWholeSteps
      /\ \A c \in Cells : NumberOf(ty, data[c])
  BY DataTyped DEF TransInv, PipelineInv
<1>1. CASE run = "build" /\ run' \in {"build", "panic"} /\ next' = next /\ data' = data
           /\ tensor' = tensor /\ Len(steps') \in Nat
  <2>1. data = tensor /\ \A r \in Rows : next[r] = 1
    BY <1>1 DEF TransInv, BuildInv
  <2>2. \A r \in Rows : Done(r)' = {0}
    BY <1>1, <2>1 DEF Done
  <2>3. \A r \in Rows, c \in Cells : (data[c] = After(c, 0))'
    <3>1. (\A c : After(c, 0) = tensor[c])'
      BY AfterSteps, PTL
    <3> QED
      BY <1>1, <2>1, <3>1
  <2> QED
    BY <2>2, <2>3, CellsOfRows DEF RowsHoldWholeSteps
<1>2. CASE Compute
  <2>1. \A s \in AnyScalar : Len(<< [op |-> "add", value |-> s, wrapping |-> FALSE] >>) = 1
    BY ConstructedSteps, SingleStep
  <2> QED
    BY <1>1, <1>2, <2>1, ComputeGives
<1>3. CASE Then
  <2>1. Len(steps') \in Nat
    BY <1>0, <1>3, ThenGives
  <2> QED
    BY <1>1, <1>3, <2>1, ThenGives
<1>4. CASE SeqStep
  <2>1. PICK i \in 1 .. Len(steps) :
          /\ \A r \in Rows : next[r] = i
          /\ \/ data' = data /\ next' = next
             \/ /\ next' = [r \in Rows |-> i + 1]
                /\ \A c \in Cells : data'[c] = After(c, i)
    BY <1>4, SeqStepGives
  <2>2. steps' = steps /\ \A c, k : After(c, k)' = After(c, k)
    BY <1>4, SeqStepGives, AfterKept
  <2>3. CASE data' = data /\ next' = next
    BY <1>0, <2>2, <2>3 DEF RowsHoldWholeSteps, Done
  <2>4. CASE /\ next' = [r \in Rows |-> i + 1]
             /\ \A c \in Cells : data'[c] = After(c, i)
    <3>1. \A r \in Rows : Done(r)' = {i}
      BY <1>0, <2>2, <2>4 DEF Done
    <3>2. \A r \in Rows : \A c \in {r} \X Columns : data'[c] = After(c, i)'
      BY <2>2, <2>4, CellsOfRows
    <3> QED
      BY <3>1, <3>2 DEF RowsHoldWholeSteps
  <2> QED
    BY <2>1, <2>3, <2>4
<1>5. CASE \E r \in Rows : RowStep(r)
  <2>1. PICK r \in Rows : RowStep(r)
    BY <1>5
  <2>2. steps' = steps /\ next[r] \in 1 .. Len(steps)
        /\ \A c, k : After(c, k)' = After(c, k)
    BY <2>1, RowStepGives, AfterKept
  <2>3. SUFFICES ASSUME NEW s \in Rows
                 PROVE  (\E k \in Done(s) : \A c \in {s} \X Columns : data[c] = After(c, k))'
    BY DEF RowsHoldWholeSteps
  <2>4. CASE s # r
    <3>1. next'[s] = next[s] /\ \A c \in {s} \X Columns : data'[c] = data[c]
      BY <1>0, <2>1, <2>4, RowStepGives, CellsOfRows
    <3>2. Done(s)' = Done(s)
      BY <2>2, <3>1 DEF Done
    <3> QED
      BY <1>0, <2>2, <3>1, <3>2 DEF RowsHoldWholeSteps
  <2>5. CASE s = r /\ next' = [next EXCEPT ![r] = next[r] + 1]
             /\ \A c \in {r} \X Columns : data'[c] = After(c, next[r])
    <3>1. Done(r)' = {next[r]}
      BY <1>0, <2>2, <2>5 DEF Done
    <3> QED
      BY <2>2, <2>5, <3>1
  <2>6. CASE s = r /\ next' = [next EXCEPT ![r] = Len(steps) + 2] /\ data' = data
             /\ \E c \in {r} \X Columns : After(c, next[r]) = Undefined
    <3>1. Done(r) = {next[r] - 1}
      BY <1>0, <2>2 DEF Done
    <3>2. \A c \in {r} \X Columns : data[c] = After(c, next[r] - 1)
      BY <1>0, <3>1 DEF RowsHoldWholeSteps
    <3>3. next[r] - 1 \in 0 .. Len(steps) - 1 /\ (next[r] - 1) + 1 = next[r]
      BY <1>0, <2>2
    <3>4. next[r] - 1 \in Done(r)'
      BY <1>0, <2>2, <2>6, <3>3 DEF Done
    <3> QED
      BY <2>2, <2>6, <3>2, <3>4
  <2> QED
    BY <2>1, <2>4, <2>5, <2>6, RowStepGives
<1>6. CASE Exec \/ Join \/ Returned \/ UNCHANGED transVars
  <2>1. \A c, k : After(c, k)' = After(c, k)
    BY <1>6, RemainingGives, AfterKept
  <2> QED
    <3>1. \A r : Done(r)' = Done(r)
      BY <1>6, <2>1, RemainingGives DEF Done
    <3> QED
      BY <1>0, <1>6, <2>1, <3>1, RemainingGives DEF RowsHoldWholeSteps
<1> QED
  BY <1>2, <1>3, <1>4, <1>5, <1>6, TransSteps

\* No step of a pipeline panics.
LEMMA PanicStep ==
  ASSUME TransInv, [TransNext]_transVars
  PROVE  BoundsNeverCross'
<1> USE DEF BoundsNeverCross
<1>1. CASE Compute
  <2>1. \A s \in AnyScalar : << [op |-> "add", value |-> s, wrapping |-> FALSE] >> # << >>
    BY ConstructedSteps, SingleStep
  <2> QED
    BY <1>1, ComputeGives
<1>2. CASE Then
  BY <1>2, ThenGives
<1>3. CASE SeqStep
  BY <1>3, SeqStepGives
<1>4. CASE \E r \in Rows : RowStep(r)
  BY <1>4, RowStepGives
<1>5. CASE Exec \/ Join \/ Returned \/ UNCHANGED transVars
  BY <1>5, RemainingGives DEF TransInv
<1> QED
  BY <1>1, <1>2, <1>3, <1>4, <1>5, TransSteps

\* The type of the first step has the operands it was computed from.
LEMMA PromotionStep ==
  ASSUME TransInv, [TransNext]_transVars
  PROVE  PromotionKeepsOperands'
<1> USE DEF PromotionKeepsOperands
<1>1. CASE Compute
  <2>1. CASE steps' = << >>
    BY <2>1
  <2>2. CASE steps' # << >>
    <3>1. PICK s \in AnyScalar :
            /\ steps' = << [op |-> "add", value |-> s, wrapping |-> FALSE] >>
            /\ \A a, b \in operands' : a # b \/ operands' = {a} => NumberOf(s.ty, KeptAs(a, b))
      BY <1>1, <2>2, ComputeGives
    <3>2. steps'[1].value = s
      BY <3>1, ConstructedSteps, SingleStep
    <3> QED
      BY <3>1, <3>2
  <2> QED
    BY <2>1, <2>2
<1>2. CASE Then
  <2>1. steps = << >> => operands = {}
    BY <1>2, ThenGives DEF TransInv, BuildInv
  <2> QED
    BY <1>2, <2>1, ThenGives DEF TransInv
<1>3. CASE SeqStep
  BY <1>3, SeqStepGives DEF TransInv
<1>4. CASE \E r \in Rows : RowStep(r)
  BY <1>4, RowStepGives DEF TransInv
<1>5. CASE Exec \/ Join \/ Returned \/ UNCHANGED transVars
  BY <1>5, RemainingGives DEF TransInv
<1> QED
  BY <1>1, <1>2, <1>3, <1>4, <1>5, TransSteps

\* The invariant of a pipeline holds whatever the tensor, its type, the pipeline
\* and the order of the rows, for the results that TransformReference states: the
\* ones of the code's floats, rounded, with 2^63 taken for the largest i64.
THEOREM TransformInvariant ==
  TransSpec => []TransInv
<1>1. TransInv /\ [TransNext]_transVars => TransInv'
  BY TypedStep, BuildStep, OutcomeStep, RowsStep, PanicStep, PromotionStep DEF TransInv
<1> QED
  BY TransInvInitially, <1>1, PTL DEF TransSpec

\* A cell always holds a number of the tensor's type.
THEOREM TransformTypeCorrect ==
  TransSpec => []TransTypeOK
<1>1. TransInv => TransTypeOK
  BY DEF TransInv
<1> QED
  BY <1>1, TransformInvariant, PTL

\* A row holds what the reference gives after a whole number of steps, in either
\* mode and after any failure.  A step is exact up to the rounding of a float type;
\* an i64 tensor takes the addend or the factor 2^63 for 2^63 - 1 (Taken), which
\* i64_end shows to be against the tests.
THEOREM RowsAlwaysHoldWholeSteps ==
  ASSUME Cells # {}
  PROVE  TransSpec => []RowsHoldWholeSteps
<1>1. TransInv => RowsHoldWholeSteps
  BY DEF TransInv
<1> QED
  BY <1>1, TransformInvariant, PTL

\* A pipeline run row by row succeeds exactly where every step is defined for every
\* cell, and the step that is named is one that is not.  Defined takes 2^63 for an
\* i64, as the code does.
THEOREM PipelinesFailAsOnePiece ==
  ASSUME Cells # {}
  PROVE  TransSpec => []FailsAsOnePiece
<1>1. ASSUME TransInv
      PROVE  FailsAsOnePiece
  <2>0. /\ RowsHoldWholeSteps /\ OutcomeInv /\ Len(steps) \in Nat
        /\ \A c \in Cells : NumberOf(ty, data[c])
    BY <1>1, DataTyped DEF TransInv, PipelineInv
  <2>1. ASSUME NEW r \in Rows, NEW c \in {r} \X Columns, next[r] <= Len(steps) + 1
        PROVE  After(c, next[r] - 1) # Undefined
    <3>1. Done(r) = {next[r] - 1}
      BY <2>1 DEF Done
    <3>2. data[c] = After(c, next[r] - 1)
      BY <2>0, <3>1 DEF RowsHoldWholeSteps
    <3>3. NumberOf(ty, data[c])
      BY <2>0, CellsOfRows
    <3> QED
      BY <3>2, <3>3, NumbersDefined
  <2>2. ASSUME run = "ok", NEW c \in Cells
        PROVE  After(c, Len(steps)) # Undefined
    <3>1. PICK r \in Rows : c \in {r} \X Columns
      BY CellsOfRows
    <3>2. next[r] = Len(steps) + 1 /\ next[r] - 1 = Len(steps)
      BY <2>0, <2>2 DEF OutcomeInv
    <3> QED
      BY <2>0, <2>1, <3>1, <3>2
  <2>3. ASSUME run = "failed"
        PROVE  /\ failedAt > 0 /\ failedAt <= Len(steps)
               /\ \E c \in Cells : After(c, failedAt) = Undefined
    BY <2>0, <2>3 DEF OutcomeInv
  <2>4. ASSUME run = "failed", \A r \in Rows : next[r] = failedAt, NEW c \in Cells
        PROVE  After(c, failedAt - 1) # Undefined
    <3>1. PICK r \in Rows : c \in {r} \X Columns
      BY CellsOfRows
    <3>2. failedAt \in 1 .. Len(steps)
      BY <2>0, <2>4 DEF OutcomeInv
    <3>3. next[r] = failedAt /\ next[r] <= Len(steps) + 1
      BY <2>0, <2>4, <3>2
    <3> QED
      BY <2>1, <3>1, <3>3
  <2> QED
    BY <2>2, <2>3, <2>4 DEF FailsAsOnePiece
<1> QED
  BY <1>1, TransformInvariant, PTL

\* Clamp never panics: bounds that `new` accepted do not cross in any type, and
\* the unreachable! of the saturating mode is not reached.
THEOREM ResolvedBoundsNeverCross ==
  TransSpec => []BoundsNeverCross
<1>1. TransInv => BoundsNeverCross
  BY DEF TransInv
<1> QED
  BY <1>1, TransformInvariant, PTL

\* The type of a computed scalar has each operand to the last digit, but for an
\* i64 beside a float and an i32 beside a half or an f32: of these it has the f64 or
\* the f32 nearest to them (KeptAs).
THEOREM PromotionAlwaysKeepsOperands ==
  TransSpec => []PromotionKeepsOperands
<1>1. TransInv => PromotionKeepsOperands
  BY DEF TransInv
<1> QED
  BY <1>1, TransformInvariant, PTL
===============================================================================
