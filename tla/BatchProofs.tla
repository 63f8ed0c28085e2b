---------------------------- MODULE BatchProofs -----------------------------
(***************************************************************************)
(* Proofs that BatchInv holds in every reachable state of BatchPath, for   *)
(* any datasets and batches, and that the batches of a measured dataset    *)
(* fit in their slots and are written nowhere else.  First come lemmas     *)
(* about the operators the batch path is made of: loops and sums, sizes    *)
(* and alignment, headers, layouts and slot sizes.  The others go the way  *)
(* an item goes: reader, buffer, decoder, augmentations, writer; then      *)
(* there is one for each action.                                           *)
(***************************************************************************)
EXTENDS BatchInvariants, TLAPS, WellFoundedInduction, FiniteSetTheorems

-----------------------------------------------------------------------------
(* Loops and sums.                                                         *)

(***************************************************************************)
(* A set of naturals with 0 and the successor of each of its members has   *)
(* them all.                                                               *)
(***************************************************************************)
LEMMA InductionOnSet ==
  ASSUME NEW T, 0 \in T, \A n \in Nat : n \in T => n + 1 \in T
  PROVE  Nat \subseteq T
<1> DEFINE R == OpToRel(<, Nat)
           B == Nat \ T
<1>1. IsWellFoundedOn(R, Nat)
  BY NatLessThanWellFounded
<1>2. SUFFICES ASSUME B # {} PROVE FALSE
  OBVIOUS
<1>3. PICK n \in B : \A m \in B : ~ (<<m, n>> \in R)
  <2>1. B \subseteq Nat
    OBVIOUS
  <2> HIDE DEF R, B
  <2> QED
    BY <1>1, <1>2, <2>1, WFMin
<1>4. n # 0
  OBVIOUS
<1>5. n - 1 \in Nat
  BY <1>4
<1>6. <<n - 1, n>> \in R
  BY <1>5 DEF OpToRel
<1>7. n - 1 \in T
  BY <1>3, <1>5, <1>6
<1>8. (n - 1) + 1 = n
  OBVIOUS
<1> QED
  BY <1>5, <1>7, <1>8

(***************************************************************************)
(* The elements of a sequence of three.                                    *)
(***************************************************************************)
LEMMA Triple ==
  ASSUME NEW S, NEW s \in Seq(S), Len(s) = 3
  PROVE  /\ DOMAIN s = 1 .. 3 /\ s[1] \in S /\ s[2] \in S /\ s[3] \in S
         /\ \A j \in 1 .. 3 : s[j] \in S
  OBVIOUS

\* The values of a loop over 1 .. n, whose round k makes G[k][v] of v.
HasLoop(n, S, a, G) ==
  \E f \in [0 .. n -> S] : f[0] = a /\ \A k \in 1 .. n : f[k] = G[k][f[k - 1]]

(***************************************************************************)
(* A loop whose rounds go from S to S has a value after each of them.      *)
(***************************************************************************)
LEMMA LoopExists ==
  ASSUME NEW n \in Nat, NEW S, NEW a \in S, NEW G \in [1 .. n -> [S -> S]]
  PROVE  HasLoop(n, S, a, G)
<1> DEFINE Loop(f, m) == f \in [0 .. m -> S] /\ f[0] = a /\ \A k \in 1 .. m : f[k] = G[k][f[k - 1]]
           T == { m \in Nat : m <= n => \E f : Loop(f, m) }
<1>1. 0 \in T
  <2> DEFINE f == [k \in 0 .. 0 |-> a]
  <2>1. Loop(f, 0)
    OBVIOUS
  <2> QED
    BY <2>1
<1>2. \A m \in Nat : m \in T => m + 1 \in T
  <2> HIDE DEF Loop
  <2> SUFFICES ASSUME NEW m \in Nat, m \in T, m + 1 <= n
               PROVE  \E f : Loop(f, m + 1)
    OBVIOUS
  <2>1. PICK f : Loop(f, m)
    OBVIOUS
  <2> USE DEF Loop
  <2> DEFINE g == [k \in 0 .. m + 1 |-> IF k <= m THEN f[k] ELSE G[m + 1][f[m]]]
  <2>2. G[m + 1] \in [S -> S] /\ f[m] \in S
    BY <2>1
  <2>3. g \in [0 .. m + 1 -> S] /\ g[0] = a
    BY <2>1, <2>2
  <2>4. ASSUME NEW k \in 1 .. m + 1
        PROVE  g[k] = G[k][g[k - 1]]
    BY <2>1, <2>4
  <2> QED
    BY <2>3, <2>4
<1> HIDE DEF T
<1>3. Nat \subseteq T
  BY <1>1, <1>2, InductionOnSet
<1> QED
  BY <1>3 DEF T, HasLoop

-----------------------------------------------------------------------------
(* Sums and products of sequences of naturals.                             *)

\* The values of the loop that Total is the last of.
Sums(s) == CHOOSE f : f = [k \in 0 .. Len(s) |-> IF k = 0 THEN 0 ELSE f[k - 1] + s[k]]

(***************************************************************************)
(* The sums of total_bytes and of the header blocks exist, and each adds   *)
(* one number to the one before.                                           *)
(***************************************************************************)
LEMMA SumsAre ==
  ASSUME NEW s \in Seq(Nat)
  PROVE  /\ Total(s) = Sums(s)[Len(s)] /\ Total(s) \in Nat
         /\ Sums(s) \in [0 .. Len(s) -> Nat]
         /\ Sums(s)[0] = 0
         /\ \A k \in 1 .. Len(s) : Sums(s)[k] = Sums(s)[k - 1] + s[k]
<1> DEFINE n == Len(s)
           G == [k \in 1 .. n |-> [x \in Nat |-> x + s[k]]]
           Body(f) == [k \in 0 .. n |-> IF k = 0 THEN 0 ELSE f[k - 1] + s[k]]
<1>1. n \in Nat /\ G \in [1 .. n -> [Nat -> Nat]]
  OBVIOUS
<1>2. PICK f \in [0 .. n -> Nat] : f[0] = 0 /\ \A k \in 1 .. n : f[k] = G[k][f[k - 1]]
  <2>1. 0 \in Nat
    OBVIOUS
  <2> HIDE DEF G, n
  <2>2. HasLoop(n, Nat, 0, G)
    BY <1>1, <2>1, LoopExists
  <2> QED
    BY <2>2 DEF HasLoop
<1>3. f = Body(f)
  <2>1. \A k \in 1 .. n : G[k][f[k - 1]] = f[k - 1] + s[k]
    <3>1. \A k \in 1 .. n : G[k] = [x \in Nat |-> x + s[k]]
      OBVIOUS
    <3> HIDE DEF G
    <3>2. n \in Nat
      OBVIOUS
    <3> HIDE DEF n
    <3>3. \A k \in 1 .. n : f[k - 1] \in Nat
      BY <3>2
    <3> QED
      BY <3>1, <3>3
  <2> HIDE DEF G
  <2>2. \A k \in 0 .. n : f[k] = Body(f)[k]
    BY <1>2, <2>1
  <2> QED
    BY <2>2
<1>4. Sums(s) = Body(Sums(s))
  BY <1>3 DEF Sums
<1>5. Sums(s)[0] = 0 /\ \A k \in 1 .. n : Sums(s)[k] = Sums(s)[k - 1] + s[k]
  <2> DEFINE g == Sums(s)
  <2> HIDE DEF g
  <2>1. g = Body(g)
    BY <1>4 DEF g
  <2> HIDE DEF G
  <2>3. n \in Nat
    OBVIOUS
  <2> HIDE DEF n
  <2>4. g = [k \in 0 .. n |-> IF k = 0 THEN 0 ELSE g[k - 1] + s[k]]
    BY <2>1
  <2> HIDE DEF Body
  <2>2. g[0] = 0 /\ \A k \in 1 .. n : g[k] = g[k - 1] + s[k]
    BY <2>3, <2>4
  <2> QED
    BY <2>2 DEF g
<1> DEFINE T == { k \in Nat : k <= n => Sums(s)[k] \in Nat }
<1>6. 0 \in T
  BY <1>5
<1>7. \A k \in Nat : k \in T => k + 1 \in T
  <2> SUFFICES ASSUME NEW k \in Nat, k \in T, k + 1 <= n
               PROVE  Sums(s)[k + 1] \in Nat
    OBVIOUS
  <2>1. Sums(s)[k] \in Nat /\ s[k + 1] \in Nat /\ k + 1 \in 1 .. n /\ (k + 1) - 1 = k
    OBVIOUS
  <2> QED
    BY <1>5, <2>1
<1> HIDE DEF T
<1>8. Nat \subseteq T
  BY <1>6, <1>7, InductionOnSet
<1>9. \A k \in 0 .. n : Sums(s)[k] \in Nat
  BY <1>8 DEF T
<1>10. Sums(s) \in [0 .. n -> Nat]
  BY <1>4, <1>9
<1>11. Total(s) = Sums(s)[n]
  BY DEF Total, Sums
<1> QED
  BY <1>5, <1>9, <1>10, <1>11

(***************************************************************************)
(* What is added up first is part of what is added up later.               *)
(***************************************************************************)
LEMMA SumsGrow ==
  ASSUME NEW s \in Seq(Nat), NEW j \in 0 .. Len(s), NEW k \in 0 .. Len(s), j <= k
  PROVE  Sums(s)[j] <= Sums(s)[k]
<1> DEFINE T == { d \in Nat : j + d <= Len(s) => Sums(s)[j] <= Sums(s)[j + d] }
<1>1. /\ Total(s) = Sums(s)[Len(s)] /\ Sums(s)[0] = 0
      /\ \A i \in 0 .. Len(s) : Sums(s)[i] \in Nat
      /\ \A i \in 1 .. Len(s) : Sums(s)[i] = Sums(s)[i - 1] + s[i]
  BY SumsAre
<1>2. 0 \in T
  BY <1>1
<1>3. \A d \in Nat : d \in T => d + 1 \in T
  <2> SUFFICES ASSUME NEW d \in Nat, d \in T, j + (d + 1) <= Len(s)
               PROVE  Sums(s)[j] <= Sums(s)[j + (d + 1)]
    OBVIOUS
  <2>1. j + (d + 1) \in 1 .. Len(s) /\ (j + (d + 1)) - 1 = j + d /\ s[j + (d + 1)] \in Nat
    OBVIOUS
  <2>2. Sums(s)[j + (d + 1)] = Sums(s)[j + d] + s[j + (d + 1)] /\ Sums(s)[j + d] \in Nat
    BY <1>1, <2>1
  <2>3. Sums(s)[j] <= Sums(s)[j + d] /\ Sums(s)[j] \in Nat
    BY <1>1
  <2> QED
    BY <2>1, <2>2, <2>3
<1> HIDE DEF T
<1>4. Nat \subseteq T
  BY <1>2, <1>3, InductionOnSet
<1>5. k - j \in T /\ j + (k - j) = k
  BY <1>4
<1> QED
  BY <1>5 DEF T

(***************************************************************************)
(* The sum of a prefix is the sum that the loop has after that many        *)
(* rounds.                                                                 *)
(***************************************************************************)
LEMMA SumOfPrefix ==
  ASSUME NEW s \in Seq(Nat), NEW t \in Seq(Nat), Len(t) <= Len(s), \A i \in 1 .. Len(t) : t[i] = s[i]
  PROVE  Total(t) = Sums(s)[Len(t)]
<1> DEFINE T == { k \in Nat : k <= Len(t) => Sums(t)[k] = Sums(s)[k] }
<1>1. /\ Total(s) = Sums(s)[Len(s)] /\ Sums(s)[0] = 0
      /\ \A i \in 0 .. Len(s) : Sums(s)[i] \in Nat
      /\ \A i \in 1 .. Len(s) : Sums(s)[i] = Sums(s)[i - 1] + s[i]
      /\ Total(t) = Sums(t)[Len(t)] /\ Sums(t)[0] = 0
      /\ \A i \in 0 .. Len(t) : Sums(t)[i] \in Nat
      /\ \A i \in 1 .. Len(t) : Sums(t)[i] = Sums(t)[i - 1] + t[i]
  BY SumsAre
<1>2. 0 \in T
  BY <1>1
<1>3. \A k \in Nat : k \in T => k + 1 \in T
  <2> SUFFICES ASSUME NEW k \in Nat, k \in T, k + 1 <= Len(t)
               PROVE  Sums(t)[k + 1] = Sums(s)[k + 1]
    OBVIOUS
  <2>1. k + 1 \in 1 .. Len(t) /\ k + 1 \in 1 .. Len(s) /\ (k + 1) - 1 = k
    OBVIOUS
  <2> QED
    BY <1>1, <2>1
<1> HIDE DEF T
<1>4. Nat \subseteq T
  BY <1>2, <1>3, InductionOnSet
<1> QED
  BY <1>1, <1>4 DEF T

(***************************************************************************)
(* A sum of larger numbers is larger.                                      *)
(***************************************************************************)
LEMMA SumOfLarger ==
  ASSUME NEW s \in Seq(Nat), NEW t \in Seq(Nat), Len(t) = Len(s), \A i \in 1 .. Len(t) : s[i] <= t[i]
  PROVE  Total(s) <= Total(t)
<1> DEFINE T == { k \in Nat : k <= Len(t) => Sums(s)[k] <= Sums(t)[k] }
<1>1. /\ Total(s) = Sums(s)[Len(s)] /\ Sums(s)[0] = 0
      /\ \A i \in 0 .. Len(s) : Sums(s)[i] \in Nat
      /\ \A i \in 1 .. Len(s) : Sums(s)[i] = Sums(s)[i - 1] + s[i]
      /\ Total(t) = Sums(t)[Len(t)] /\ Sums(t)[0] = 0
      /\ \A i \in 0 .. Len(t) : Sums(t)[i] \in Nat
      /\ \A i \in 1 .. Len(t) : Sums(t)[i] = Sums(t)[i - 1] + t[i]
  BY SumsAre
<1>2. 0 \in T
  BY <1>1
<1>3. \A k \in Nat : k \in T => k + 1 \in T
  <2> SUFFICES ASSUME NEW k \in Nat, k \in T, k + 1 <= Len(t)
               PROVE  Sums(s)[k + 1] <= Sums(t)[k + 1]
    OBVIOUS
  <2>1. /\ k + 1 \in 1 .. Len(t) /\ k + 1 \in 1 .. Len(s) /\ (k + 1) - 1 = k
        /\ k \in 0 .. Len(t) /\ k \in 0 .. Len(s)
        /\ s[k + 1] \in Nat /\ t[k + 1] \in Nat
    OBVIOUS
  <2>2. /\ Sums(s)[k + 1] = Sums(s)[k] + s[k + 1] /\ Sums(t)[k + 1] = Sums(t)[k] + t[k + 1]
        /\ Sums(s)[k] \in Nat /\ Sums(t)[k] \in Nat /\ s[k + 1] \in Nat /\ t[k + 1] \in Nat
    BY <1>1, <2>1
  <2> QED
    BY <2>1, <2>2
<1> HIDE DEF T
<1>4. Nat \subseteq T
  BY <1>2, <1>3, InductionOnSet
<1> QED
  BY <1>1, <1>4 DEF T

-----------------------------------------------------------------------------
(* Loops and products.                                                     *)

\* The values of a loop are all in S.
Stays(g, n, S) == \A k \in 0 .. n : g[k] \in S

(***************************************************************************)
(* A set that no round of a loop leaves, the loop never leaves.            *)
(***************************************************************************)
LEMMA LoopStays ==
  ASSUME NEW n \in Nat, NEW S, NEW g, g[0] \in S, \A k \in 1 .. n : g[k - 1] \in S => g[k] \in S
  PROVE  Stays(g, n, S)
<1> DEFINE T == { k \in Nat : k <= n => g[k] \in S }
<1>1. 0 \in T
  OBVIOUS
<1>2. \A k \in Nat : k \in T => k + 1 \in T
  <2> SUFFICES ASSUME NEW k \in Nat, k \in T, k + 1 <= n
               PROVE  g[k + 1] \in S
    OBVIOUS
  <2>1. g[k] \in S /\ k + 1 \in 1 .. n /\ (k + 1) - 1 = k
    OBVIOUS
  <2> QED
    BY <2>1
<1> HIDE DEF T
<1>3. Nat \subseteq T
  BY <1>1, <1>2, InductionOnSet
<1> QED
  BY <1>3 DEF T, Stays

\* The values of the loop that Product is the last of.
Products(s) == CHOOSE f : f = [k \in 0 .. Len(s) |-> IF k = 0 THEN 1 ELSE f[k - 1] * s[k]]

(***************************************************************************)
(* The element counts of shapes exist, and each multiplies the one before. *)
(***************************************************************************)
LEMMA ProductsAre ==
  ASSUME NEW s \in Seq(Nat)
  PROVE  /\ Product(s) = Products(s)[Len(s)]
         /\ Product(s) \in Nat
         /\ Products(s)[0] = 1
         /\ \A k \in 1 .. Len(s) : Products(s)[k] = Products(s)[k - 1] * s[k]
<1> DEFINE n == Len(s)
           G == [k \in 1 .. n |-> [x \in Nat |-> x * s[k]]]
           Body(f) == [k \in 0 .. n |-> IF k = 0 THEN 1 ELSE f[k - 1] * s[k]]
<1>1. \A x, y \in Nat : x * y \in Nat
  OBVIOUS
<1>2. n \in Nat /\ G \in [1 .. n -> [Nat -> Nat]]
  BY <1>1
<1>3. PICK f \in [0 .. n -> Nat] : f[0] = 1 /\ \A k \in 1 .. n : f[k] = G[k][f[k - 1]]
  <2>1. 1 \in Nat
    OBVIOUS
  <2> HIDE DEF G, n
  <2>2. HasLoop(n, Nat, 1, G)
    BY <1>2, <2>1, LoopExists
  <2> QED
    BY <2>2 DEF HasLoop
<1>4. f = Body(f)
  <2>1. \A k \in 1 .. n : G[k][f[k - 1]] = f[k - 1] * s[k]
    <3>1. \A k \in 1 .. n : G[k] = [x \in Nat |-> x * s[k]]
      OBVIOUS
    <3> HIDE DEF G
    <3>2. n \in Nat
      OBVIOUS
    <3> HIDE DEF n
    <3>3. \A k \in 1 .. n : f[k - 1] \in Nat
      BY <3>2
    <3> QED
      BY <3>1, <3>3
  <2> HIDE DEF G
  <2>2. \A k \in 0 .. n : f[k] = Body(f)[k]
    BY <1>3, <2>1
  <2> QED
    BY <2>2
<1> DEFINE g == Products(s)
<1>5. g = Body(g)
  BY <1>4 DEF Products
<1> HIDE DEF g
<1>6. g[0] = 1 /\ \A k \in 1 .. n : g[k] = g[k - 1] * s[k]
  <2>1. n \in Nat
    OBVIOUS
  <2> HIDE DEF G, n
  <2>2. Body(g)[0] = 1 /\ \A k \in 1 .. n : Body(g)[k] = g[k - 1] * s[k]
    BY <2>1
  <2> HIDE DEF Body
  <2> QED
    BY <1>5, <2>2
<1>7. Stays(g, n, Nat)
  <2>1. \A k \in 1 .. n : g[k - 1] \in Nat => g[k] \in Nat
    BY <1>1, <1>6
  <2>2. g[0] \in Nat
    BY <1>6
  <2> HIDE DEF n
  <2> QED
    BY <1>2, <2>1, <2>2, LoopStays
<1>8. Product(s) = g[n]
  BY DEF Product, Products, g
<1> QED
  BY <1>6, <1>7, <1>8 DEF Stays, g

(***************************************************************************)
(* The element count of an image's shape.                                  *)
(***************************************************************************)
LEMMA ProductOfThree ==
  ASSUME NEW a \in Nat, NEW b \in Nat, NEW c \in Nat
  PROVE  Product(<< a, b, c >>) = a * b * c
<1> DEFINE s == << a, b, c >>
           g == Products(s)
<1>1. s \in Seq(Nat) /\ Len(s) = 3 /\ s[1] = a /\ s[2] = b /\ s[3] = c
  OBVIOUS
<1> HIDE DEF s
<1>2. Product(s) = g[3] /\ g[0] = 1 /\ \A k \in 1 .. 3 : g[k] = g[k - 1] * s[k]
  BY <1>1, ProductsAre
<1> HIDE DEF g
<1>3. g[1] = g[0] * a /\ g[2] = g[1] * b /\ g[3] = g[2] * c
  <2>1. g[1] = g[1 - 1] * s[1] /\ g[2] = g[2 - 1] * s[2] /\ g[3] = g[3 - 1] * s[3]
    BY <1>2
  <2> QED
    BY <1>1, <2>1
<1>4. g[1] = a
  BY <1>2, <1>3
<1> QED
  BY <1>2, <1>3, <1>4 DEF s

(***************************************************************************)
(* A label's shape is empty, and it has one element.                       *)
(***************************************************************************)
LEMMA ProductOfNone ==
  Product(<< >>) = 1
<1> DEFINE s == << >>
<1>1. s \in Seq(Nat) /\ Len(s) = 0
  OBVIOUS
<1> HIDE DEF s
<1>2. Product(s) = 1
  BY <1>1, ProductsAre
<1> QED
  BY <1>2 DEF s

-----------------------------------------------------------------------------
(* Sizes of layouts.                                                       *)

(***************************************************************************)
(* align_to returns no less than it is given.                              *)
(***************************************************************************)
LEMMA Aligned ==
  ASSUME NEW n \in Nat, NEW to \in Nat \ {0}
  PROVE  AlignTo(n, to) \in Nat /\ n <= AlignTo(n, to)
<1> DEFINE q == (n + to - 1) \div to
           r == (n + to - 1) % to
<1>1. q \in Nat /\ r \in 0 .. to - 1 /\ n + to - 1 = to * q + r
  OBVIOUS
<1> HIDE DEF q, r
<1>2. to * q \in Nat /\ to * q = q * to
  BY <1>1
<1> QED
  BY <1>1, <1>2 DEF AlignTo, q

(***************************************************************************)
(* What needs more room never gets less of it from align_to.               *)
(***************************************************************************)
LEMMA AlignedGrows ==
  ASSUME NEW m \in Nat, NEW n \in Nat, m <= n, NEW to \in Nat \ {0}
  PROVE  AlignTo(m, to) <= AlignTo(n, to)
<1> DEFINE p == (m + to - 1) \div to
           q == (n + to - 1) \div to
           a == (m + to - 1) % to
           b == (n + to - 1) % to
<1>1. /\ p \in Nat /\ a \in 0 .. to - 1 /\ m + to - 1 = to * p + a
      /\ q \in Nat /\ b \in 0 .. to - 1 /\ n + to - 1 = to * q + b
  OBVIOUS
<1> HIDE DEF p, q, a, b
<1>2. p <= q
  <2>1. SUFFICES ASSUME q + 1 <= p PROVE FALSE
    BY <1>1
  <2>2. to * (q + 1) <= to * p
    BY <1>1, <2>1
  <2>3. to * (q + 1) = to * q + to /\ to * q \in Nat /\ to * p \in Nat
    BY <1>1
  <2> QED
    BY <1>1, <2>2, <2>3
<1>3. p * to <= q * to
  BY <1>1, <1>2
<1> QED
  BY <1>3 DEF AlignTo, p, q

(***************************************************************************)
(* The bytes of a layout are a number, and fit in the bytes it is aligned  *)
(* to.                                                                     *)
(***************************************************************************)
LEMMA BytesTyped ==
  ASSUME NEW l \in AnyLayout
  PROVE  TotalBytes(l) \in Nat /\ AlignedBytes(l) \in Nat /\ TotalBytes(l) <= AlignedBytes(l)
<1>1. Product(l.shape) \in Nat /\ DtypeCells[l.dt] \in Nat
  BY ProductsAre, LayoutAssumption DEF AnyLayout
<1>2. TotalBytes(l) \in Nat
  <2> DEFINE c == DtypeCells[l.dt]
             p == Product(l.shape)
  <2>1. p \in Nat /\ c \in Nat
    BY <1>1
  <2> HIDE DEF c, p
  <2>2. p * c \in Nat
    BY <2>1
  <2> QED
    BY <2>2 DEF TotalBytes, TotalElements, p, c
<1> QED
  BY <1>2, Aligned, LayoutAssumption DEF AlignedBytes

(***************************************************************************)
(* The size of an item is a number.                                        *)
(***************************************************************************)
LEMMA ItemSizeTyped ==
  ASSUME NEW ls \in Seq(AnyLayout)
  PROVE  ItemSize(ls) \in Nat
<1> DEFINE s == Map(AlignedBytes, ls)
<1>1. s \in Seq(Nat)
  BY BytesTyped DEF Map
<1> HIDE DEF s
<1>2. Total(s) \in Nat
  BY <1>1, SumsAre
<1> QED
  BY <1>2 DEF ItemSize, s

(***************************************************************************)
(* The block of a header has room for its rank, its shape and its strides. *)
(***************************************************************************)
LEMMA BlockSizeTyped ==
  ASSUME NEW n \in Nat
  PROVE  BlockSize(n) \in Nat /\ 1 + 2 * n <= BlockSize(n)
<1>1. 1 + 2 * n \in Nat
  OBVIOUS
<1> QED
  BY <1>1, Aligned, LayoutAssumption DEF BlockSize

-----------------------------------------------------------------------------
(* Headers.                                                                *)

\* Where the k-th header of a batch is.
PlaceOf(at, bl, k) == at + HeaderSize(First(bl, k - 1))

\* One round of the loop of write_tensor_metadata.
HeaderRound(mem, at, bl, k, m) ==
  IF m.err # "none" THEN m
  ELSE IF ~HeaderFits(bl[k], PlaceOf(at, bl, k), mem) THEN Fail("BufferOverflow", m.out)
  ELSE Done(Overlay(m.out, MovedTo(PlaceOf(at, bl, k), HeaderCells(bl[k]))))

(***************************************************************************)
(* A member of a sequence of layouts is a layout.                          *)
(***************************************************************************)
LEMMA LayoutOf ==
  ASSUME NEW bl \in Seq(AnyLayout), NEW i \in 1 .. Len(bl)
  PROVE  bl[i] \in AnyLayout /\ bl[i].shape \in Seq(Nat) /\ Len(bl[i].shape) \in Nat
<1>1. bl[i] \in AnyLayout
  OBVIOUS
<1>2. bl[i].shape \in Seq(Nat)
  BY <1>1 DEF AnyLayout
<1> QED
  BY <1>1, <1>2

(***************************************************************************)
(* A function on 1 .. n is a sequence of length n.                         *)
(***************************************************************************)
LEMMA SequenceOf ==
  ASSUME NEW n \in Nat, NEW S, NEW f \in [1 .. n -> S]
  PROVE  f \in Seq(S) /\ Len(f) = n
  OBVIOUS

\* The sizes of the header blocks.
Blocks(bl) == [i \in DOMAIN bl |-> BlockSize(Len(bl[i].shape))]

(***************************************************************************)
(* The headers of a batch take the sum of their blocks.                    *)
(***************************************************************************)
LEMMA BlocksAre ==
  ASSUME NEW bl \in Seq(AnyLayout)
  PROVE  /\ HeaderSize(bl) = Total(Blocks(bl)) /\ HeaderSize(bl) \in Nat
         /\ Blocks(bl) \in Seq(Nat) /\ Len(Blocks(bl)) = Len(bl)
         /\ \A i \in 1 .. Len(bl) : Blocks(bl)[i] = BlockSize(Len(bl[i].shape))
<1>1. HeaderSize(bl) = Total(Blocks(bl))
  BY DEF HeaderSize, Map, Blocks
<1>2. DOMAIN bl = 1 .. Len(bl) /\ Len(bl) \in Nat
  OBVIOUS
<1>3. \A i \in 1 .. Len(bl) : BlockSize(Len(bl[i].shape)) \in Nat
  BY LayoutOf, BlockSizeTyped
<1>4. /\ Blocks(bl) \in [1 .. Len(bl) -> Nat]
      /\ \A i \in 1 .. Len(bl) : Blocks(bl)[i] = BlockSize(Len(bl[i].shape))
  BY <1>2, <1>3 DEF Blocks
<1>5. Blocks(bl) \in Seq(Nat) /\ Len(Blocks(bl)) = Len(bl)
  BY <1>2, <1>4, SequenceOf
<1> QED
  BY <1>1, <1>4, <1>5, SumsAre

(***************************************************************************)
(* The blocks of headers lie one after the other, from the start of the    *)
(* slot to the first item.                                                 *)
(***************************************************************************)
LEMMA HeaderPlaces ==
  ASSUME NEW at \in Nat, NEW bl \in Seq(AnyLayout), NEW k \in 1 .. Len(bl)
  PROVE  /\ HeaderSize(bl) \in Nat
         /\ PlaceOf(at, bl, k) \in Nat /\ at <= PlaceOf(at, bl, k)
         /\ Len(bl[k].shape) \in Nat
         /\ PlaceOf(at, bl, k) + 1 + 2 * Len(bl[k].shape) <= at + HeaderSize(bl)
<1> DEFINE before == First(bl, k - 1)
           s == Blocks(bl)
           t == Blocks(before)
<1>1. /\ before \in Seq(AnyLayout) /\ Len(before) = k - 1
      /\ \A i \in 1 .. k - 1 : before[i] = bl[i]
  BY DEF First
<1>2. /\ s \in Seq(Nat) /\ Len(s) = Len(bl) /\ s[k] = BlockSize(Len(bl[k].shape))
      /\ HeaderSize(bl) = Total(s) /\ HeaderSize(bl) \in Nat
  BY BlocksAre
<1> HIDE DEF before
<1>3. /\ t \in Seq(Nat) /\ Len(t) = k - 1 /\ HeaderSize(before) = Total(t)
      /\ \A i \in 1 .. k - 1 : t[i] = BlockSize(Len(before[i].shape))
  BY <1>1, BlocksAre
<1>4. ASSUME NEW i \in 1 .. k - 1
       PROVE  t[i] = s[i]
  <2>1. i \in 1 .. Len(bl)
    OBVIOUS
  <2>2. s[i] = BlockSize(Len(bl[i].shape))
    BY <2>1, BlocksAre
  <2>3. t[i] = BlockSize(Len(before[i].shape)) /\ before[i] = bl[i]
    BY <1>1, <1>3
  <2> QED
    BY <2>2, <2>3
<1> HIDE DEF s, t
<1>5. Total(t) = Sums(s)[k - 1]
  <2>1. Len(t) <= Len(s)
    BY <1>2, <1>3
  <2> QED
    BY <1>2, <1>3, <1>4, <2>1, SumOfPrefix
<1>6. /\ Total(s) = Sums(s)[Len(bl)] /\ Sums(s)[k] = Sums(s)[k - 1] + s[k]
      /\ \A i \in 0 .. Len(bl) : Sums(s)[i] \in Nat
  BY <1>2, SumsAre
<1>7. Sums(s)[k] <= Sums(s)[Len(bl)]
  <2>1. k \in 0 .. Len(s) /\ Len(bl) \in 0 .. Len(s) /\ k <= Len(bl)
    BY <1>2
  <2> QED
    BY <1>2, <2>1, SumsGrow
<1>8. Len(bl[k].shape) \in Nat /\ s[k] \in Nat /\ 1 + 2 * Len(bl[k].shape) <= s[k]
  BY <1>2, LayoutOf, BlockSizeTyped
<1>9. Sums(s)[k - 1] \in Nat /\ Sums(s)[Len(bl)] \in Nat
  BY <1>6
<1>10. PlaceOf(at, bl, k) = at + Sums(s)[k - 1]
  BY <1>3, <1>5 DEF PlaceOf, before
<1> DEFINE a == Sums(s)[k - 1]
           b == Sums(s)[Len(bl)]
           c == s[k]
           d == Len(bl[k].shape)
<1>11. /\ a \in Nat /\ b \in Nat /\ c \in Nat /\ d \in Nat /\ a + c <= b /\ 1 + 2 * d <= c
       /\ HeaderSize(bl) = b /\ PlaceOf(at, bl, k) = at + a
  BY <1>2, <1>6, <1>7, <1>8, <1>9, <1>10
<1> HIDE DEF a, b, c, d
<1>12. at + a + 1 + 2 * d <= at + b /\ at + a \in Nat /\ at <= at + a
  BY <1>11
<1> QED
  BY <1>11, <1>12 DEF d

(***************************************************************************)
(* write_tensor_metadata changes nothing outside the headers of the batch, *)
(* at whichever layout it fails.                                           *)
(***************************************************************************)
LEMMA HeadersStay ==
  ASSUME NEW mem, DOMAIN mem \subseteq Int, NEW at \in Nat, NEW bl \in Seq(AnyLayout)
  PROVE  LET w == WriteHeaders(mem, at, bl)
         IN  /\ w.err \in {"none", "BufferOverflow"}
             /\ DOMAIN w.out = DOMAIN mem
             /\ \A i \in DOMAIN mem :
                  w.out[i] # mem[i] => at <= i /\ i < at + HeaderSize(bl)
<1> DEFINE n == Len(bl)
           Round(k, m) == HeaderRound(mem, at, bl, k, m)
           Body(f, j) == [k \in 0 .. j |-> IF k = 0 THEN Done(mem) ELSE Round(k, f[k - 1])]
           g == CHOOSE f : f = Body(f, n)
<1>1. WriteHeaders(mem, at, bl) = g[n]
  BY DEF WriteHeaders, HeaderRound, PlaceOf
<1>2. \E f : f = Body(f, n)
  <2> DEFINE Exists(j) == \E f : f = Body(f, j)
             T == { j \in Nat : Exists(j) }
  <2> HIDE DEF Round
  <2>1. Exists(0)
    <3> DEFINE f == [k \in 0 .. 0 |-> Done(mem)]
    <3>1. f = Body(f, 0)
      OBVIOUS
    <3> QED
      BY <3>1
  <2>2. ASSUME NEW j \in Nat, Exists(j)
        PROVE  Exists(j + 1)
    <3>0. PICK f : f = Body(f, j)
      BY <2>2
    <3> DEFINE h == [k \in 0 .. j + 1 |-> IF k <= j THEN f[k] ELSE Round(j + 1, f[j])]
    <3>1. ASSUME NEW k \in 0 .. j + 1
          PROVE  h[k] = Body(h, j + 1)[k]
      <4>1. CASE k <= j
        <5>1. f[k] = Body(f, j)[k] /\ h[k] = f[k]
          BY <3>0, <4>1
        <5>2. k # 0 => h[k - 1] = f[k - 1]
          BY <4>1
        <5> QED
          BY <4>1, <5>1, <5>2
      <4>2. CASE k = j + 1
        BY <4>2
      <4> QED
        BY <4>1, <4>2
    <3>2. h = Body(h, j + 1)
      BY <3>1
    <3> QED
      BY <3>2
  <2>3. Nat \subseteq T
    <3> HIDE DEF Exists
    <3>1. 0 \in T /\ \A j \in Nat : j \in T => j + 1 \in T
      BY <2>1, <2>2
    <3> HIDE DEF T
    <3> QED
      BY <3>1, InductionOnSet
  <2>4. Exists(n)
    <3> HIDE DEF Exists
    <3> QED
      BY <2>3
  <2> QED
    BY <2>4
<1>3. g = Body(g, n)
  BY <1>2
<1> HIDE DEF g
<1>4. g[0] = Done(mem) /\ \A k \in 1 .. n : g[k] = Round(k, g[k - 1])
  <2> HIDE DEF Round
  <2> QED
    BY <1>3
<1> DEFINE KeepsRest(m) == /\ m.err \in {"none", "BufferOverflow"}
                      /\ DOMAIN m.out = DOMAIN mem
                      /\ \A i \in DOMAIN mem : m.out[i] # mem[i] => at <= i /\ i < at + HeaderSize(bl)
           T == { k \in Nat : k <= n => KeepsRest(g[k]) }
<1>5. 0 \in T
  BY <1>4 DEF Done
<1>6. \A k \in Nat : k \in T => k + 1 \in T
  <2> SUFFICES ASSUME NEW k \in Nat, k \in T, k + 1 <= n
               PROVE  KeepsRest(g[k + 1])
    OBVIOUS
  <2>1. g[k + 1] = Round(k + 1, g[k]) /\ KeepsRest(g[k]) /\ k + 1 \in 1 .. n
    <3>1. k + 1 \in 1 .. n /\ (k + 1) - 1 = k
      OBVIOUS
    <3> QED
      BY <1>4, <3>1
  <2> DEFINE l == bl[k + 1]
             place == PlaceOf(at, bl, k + 1)
             cells == MovedTo(place, HeaderCells(l))
             many == Len(l.shape)
             room == HeaderSize(bl)
  <2>2. /\ place \in Nat /\ at <= place /\ many \in Nat /\ room \in Nat
        /\ place + 1 + 2 * many <= at + room
    BY <2>1, HeaderPlaces
  <2>3. DOMAIN cells = { place + j : j \in 0 .. 2 * many }
    BY DEF MovedTo, HeaderCells
  <2> HIDE DEF cells, place, many, room, l, T
  <2>4. \A i \in DOMAIN mem : i \in DOMAIN cells => at <= i /\ i < at + HeaderSize(bl)
    <3>1. \A j \in 0 .. 2 * many : at <= place + j /\ place + j < at + room
      BY <2>2
    <3> QED
      BY <2>3, <3>1 DEF room
  <2> DEFINE out == Overlay(g[k].out, cells)
  <2>5. /\ DOMAIN out = DOMAIN mem
        /\ \A i \in DOMAIN mem : i \notin DOMAIN cells => out[i] = g[k].out[i]
    BY <2>1 DEF Overlay
  <2> HIDE DEF out
  <2>6. KeepsRest(Done(out))
    BY <2>1, <2>4, <2>5 DEF Done
  <2>7. KeepsRest(Fail("BufferOverflow", g[k].out))
    BY <2>1 DEF Fail
  <2>8. g[k + 1] \in {g[k], Fail("BufferOverflow", g[k].out), Done(out)}
    BY <2>1 DEF HeaderRound, out, cells, place, l
  <2> QED
    BY <2>1, <2>6, <2>7, <2>8
<1> HIDE DEF T
<1>7. Nat \subseteq T
  BY <1>5, <1>6, InductionOnSet
<1>8. KeepsRest(g[n])
  BY <1>7 DEF T
<1> QED
  BY <1>1, <1>8

-----------------------------------------------------------------------------
(* Pipelines and samples.                                                  *)

(***************************************************************************)
(* The largest of finitely many numbers is one of them, and none is above  *)
(* it.                                                                     *)
(***************************************************************************)
LEMMA LargestOf ==
  ASSUME NEW n \in Nat, NEW h \in [1 .. n -> Nat], NEW S \in SUBSET (1 .. n), S # {}
  PROVE  /\ \E i \in S : Largest({ h[j] : j \in S }) = h[i]
         /\ \A i \in S : h[i] <= Largest({ h[j] : j \in S })
<1> DEFINE Top(R, i) == i \in R /\ \A j \in R : h[j] <= h[i]
           Tops(m) == \A R \in SUBSET (1 .. n) : R \subseteq 1 .. m /\ R # {} => \E i : Top(R, i)
           T == { m \in Nat : Tops(m) }
<1>1. 0 \in T
  <2>1. 1 .. 0 = {}
    OBVIOUS
  <2> QED
    BY <2>1
<1>2. ASSUME NEW m \in Nat, m \in T
      PROVE  m + 1 \in T
  <2>0. Tops(m)
    BY <1>2
  <2> SUFFICES ASSUME NEW R \in SUBSET (1 .. n), R \subseteq 1 .. m + 1, R # {}
               PROVE  \E i : Top(R, i)
    <3> HIDE DEF Top
    <3> QED
      OBVIOUS
  <2> DEFINE Q == R \ {m + 1}
  <2>1. Q \in SUBSET (1 .. n) /\ Q \subseteq 1 .. m
    OBVIOUS
  <2>2. \A j \in R : h[j] \in Nat
    OBVIOUS
  <2>3. CASE m + 1 \notin R
    <3>1. Q = R
      BY <2>3
    <3> QED
      BY <2>0, <2>1, <3>1
  <2>4. CASE m + 1 \in R /\ Q = {}
    <3>1. Top(R, m + 1)
      BY <2>2, <2>4
    <3> QED
      BY <3>1
  <2>5. CASE m + 1 \in R /\ Q # {}
    <3>1. PICK i : Top(Q, i)
      <4> HIDE DEF Top, Q
      <4> QED
        BY <2>0, <2>1, <2>5
    <3>2. CASE h[i] <= h[m + 1]
      <4>1. \A j \in R : h[j] <= h[m + 1]
        <5> TAKE j \in R
        <5>1. h[j] \in Nat /\ h[i] \in Nat /\ h[m + 1] \in Nat
          BY <2>2, <2>5, <3>1
        <5>2. j = m + 1 \/ h[j] <= h[i]
          BY <3>1
        <5> QED
          BY <3>2, <5>1, <5>2
      <4>2. Top(R, m + 1)
        BY <2>5, <4>1
      <4> QED
        BY <4>2
    <3>3. CASE ~ (h[i] <= h[m + 1])
      <4>1. \A j \in R : h[j] <= h[i]
        <5> TAKE j \in R
        <5>1. h[j] \in Nat /\ h[i] \in Nat /\ h[m + 1] \in Nat
          BY <2>2, <2>5, <3>1
        <5>2. j = m + 1 \/ h[j] <= h[i]
          BY <3>1
        <5> QED
          BY <3>3, <5>1, <5>2
      <4>2. Top(R, i)
        BY <3>1, <4>1
      <4> QED
        BY <4>2
    <3> QED
      BY <3>2, <3>3
  <2> QED
    BY <2>3, <2>4, <2>5
<1> HIDE DEF T
<1>3. n \in T
  BY <1>1, <1>2, InductionOnSet
<1>4. PICK i : Top(S, i)
  BY <1>3 DEF T
<1> DEFINE H == { h[j] : j \in S }
<1>5. h[i] \in H /\ \A k \in H : k <= h[i]
  BY <1>4
<1>6. Largest(H) \in H /\ \A k \in H : k <= Largest(H)
  <2> HIDE DEF H
  <2> QED
    BY <1>5 DEF Largest
<1> QED
  BY <1>6

(***************************************************************************)
(* The last of a set of positions is one of them.                          *)
(***************************************************************************)
LEMMA LargestIn ==
  ASSUME NEW n \in Nat, NEW S \in SUBSET (1 .. n), S # {}
  PROVE  Largest(S) \in S /\ \A i \in S : i <= Largest(S)
<1> DEFINE h == [i \in 1 .. n |-> i]
<1>1. h \in [1 .. n -> Nat] /\ \A i \in S : h[i] = i
  OBVIOUS
<1>2. { h[j] : j \in S } = S
  OBVIOUS
<1> HIDE DEF h
<1>3. (\E i \in S : Largest(S) = h[i]) /\ \A i \in S : h[i] <= Largest(S)
  BY <1>1, <1>2, LargestOf
<1> QED
  BY <1>1, <1>3

-----------------------------------------------------------------------------
(* Sizes.                                                                  *)

(***************************************************************************)
(* The size that the last such step of a pipeline fixes is a size.         *)
(***************************************************************************)
LEMMA StepSize ==
  ASSUME NEW pipe \in Seq(AnyStep), NEW S \in SUBSET (DOMAIN pipe), S # {}
  PROVE  FixedSize(pipe[Largest(S)]) \in Nat \X Nat
<1>1. DOMAIN pipe = 1 .. Len(pipe) /\ Len(pipe) \in Nat
  OBVIOUS
<1>2. Largest(S) \in DOMAIN pipe
  BY <1>1, LargestIn
<1>3. pipe[Largest(S)] \in AnyStep
  BY <1>1, <1>2
<1> QED
  BY <1>3 DEF FixedSize, AnyStep

(***************************************************************************)
(* The output size and the largest intermediate size of a pipeline are     *)
(* sizes.                                                                  *)
(***************************************************************************)
LEMMA PipelineSizes ==
  ASSUME NEW pipe \in Seq(AnyStep)
  PROVE  OutputSize(pipe) \in Nat \X Nat /\ MaxIntermediateSize(pipe) \in Nat \X Nat
<1>1. SizeChanging(pipe) \in SUBSET (DOMAIN pipe)
  BY DEF SizeChanging
<1>2. NoSize \in Nat \X Nat
  BY DEF NoSize
<1>3. OutputSize(pipe) \in Nat \X Nat
  BY <1>1, <1>2, StepSize DEF OutputSize
<1> DEFINE Area(k) == pipe[k].h * pipe[k].w
           Most == { k \in SizeChanging(pipe) : \A j \in SizeChanging(pipe) : Area(j) <= Area(k) }
<1>4. MaxIntermediateSize(pipe) = IF Most = {} THEN NoSize ELSE FixedSize(pipe[Largest(Most)])
  BY DEF MaxIntermediateSize
<1>5. Most \in SUBSET (DOMAIN pipe)
  BY <1>1
<1> HIDE DEF Most
<1> QED
  BY <1>2, <1>3, <1>4, <1>5, StepSize

(***************************************************************************)
(* The samples of a folder are among its files.                            *)
(***************************************************************************)
LEMMA SamplesAre ==
  ASSUME NEW files \in Seq(AnyFile)
  PROVE  Samples(files) \in Seq(AnyFile)
<1> DEFINE n == Len(files)
           S == Seq(AnyFile)
           Round(k, x) == IF files[k].jpeg /\ files[k].label # NoLabel THEN Append(x, files[k]) ELSE x
           G == [k \in 1 .. n |-> [x \in S |-> Round(k, x)]]
           none == << >>
           Body(f) == [k \in 0 .. n |-> IF k = 0 THEN none ELSE Round(k, f[k - 1])]
           g == CHOOSE f : f = Body(f)
<1>1. Samples(files) = g[n]
  BY DEF Samples
<1>2. n \in Nat /\ none \in S /\ \A k \in 1 .. n : \A x \in S : Round(k, x) \in S
  OBVIOUS
<1> HIDE DEF n, S, Round, none
<1>3. /\ G \in [1 .. n -> [S -> S]]
      /\ \A k \in 1 .. n : \A x \in S : G[k][x] = Round(k, x)
  BY <1>2
<1> HIDE DEF G
<1>4. HasLoop(n, S, none, G)
  BY <1>2, <1>3, LoopExists
<1>5. PICK f \in [0 .. n -> S] : f[0] = none /\ \A k \in 1 .. n : f[k] = G[k][f[k - 1]]
  BY <1>4 DEF HasLoop
<1>6. f = Body(f)
  <2>1. ASSUME NEW k \in 1 .. n
        PROVE  f[k] = Round(k, f[k - 1])
    <3>1. f[k - 1] \in S /\ f[k] = G[k][f[k - 1]]
      BY <1>2, <1>5
    <3> QED
      BY <1>3, <3>1
  <2>2. \A k \in 0 .. n : f[k] = Body(f)[k]
    BY <1>2, <1>5, <2>1
  <2> QED
    BY <2>2
<1>7. g = Body(g)
  BY <1>6
<1> HIDE DEF g
<1>8. g[0] = none /\ \A k \in 1 .. n : g[k] = Round(k, g[k - 1])
  BY <1>2, <1>7
<1>9. Stays(g, n, S)
  <2>1. \A k \in 1 .. n : g[k - 1] \in S => g[k] \in S
    BY <1>2, <1>8
  <2> QED
    BY <1>2, <1>8, <2>1, LoopStays
<1> QED
  BY <1>1, <1>2, <1>9 DEF Stays, S

-----------------------------------------------------------------------------
(* Layouts.                                                                *)

(***************************************************************************)
(* Where the largest of a folder's images fits, every one of them does,    *)
(* and it is no larger than one of them is high and one wide.              *)
(***************************************************************************)
LEMMA LargestSizeIs ==
  ASSUME NEW files \in Seq(AnyFile), NEW items \in SUBSET (DOMAIN files), items # {}
  PROVE  /\ LargestSize(files, items) \in Nat \X Nat
         /\ \A i \in items : /\ files[i].img.h <= LargestSize(files, items)[1]
                             /\ files[i].img.w <= LargestSize(files, items)[2]
         /\ \E i \in items : LargestSize(files, items)[1] = files[i].img.h
         /\ \E i \in items : LargestSize(files, items)[2] = files[i].img.w
<1> DEFINE n == Len(files)
           h == [i \in 1 .. n |-> files[i].img.h]
           w == [i \in 1 .. n |-> files[i].img.w]
           H == { h[i] : i \in items }
           W == { w[i] : i \in items }
<1>1. n \in Nat /\ items \in SUBSET (1 .. n)
  OBVIOUS
<1>2. h \in [1 .. n -> Nat] /\ w \in [1 .. n -> Nat]
  <2>1. \A i \in 1 .. n : files[i] \in AnyFile
    OBVIOUS
  <2>2. \A i \in 1 .. n : files[i].img.h \in Nat /\ files[i].img.w \in Nat
    BY <2>1 DEF AnyFile, AnyImage
  <2> QED
    BY <2>2
<1>3. LargestSize(files, items) = << Largest(H), Largest(W) >>
  <2>1. H = { files[i].img.h : i \in items } /\ W = { files[i].img.w : i \in items }
    BY <1>1
  <2> QED
    BY <2>1 DEF LargestSize
<1>4. \A i \in items : h[i] = files[i].img.h /\ w[i] = files[i].img.w
  BY <1>1
<1> HIDE DEF n, h, w
<1>5. (\E i \in items : Largest(H) = h[i]) /\ (\A i \in items : h[i] <= Largest(H))
  BY <1>1, <1>2, LargestOf
<1>6. (\E i \in items : Largest(W) = w[i]) /\ (\A i \in items : w[i] <= Largest(W))
  BY <1>1, <1>2, LargestOf
<1>7. Largest(H) \in Nat /\ Largest(W) \in Nat
  BY <1>1, <1>2, <1>5, <1>6
<1> HIDE DEF H, W
<1> QED
  BY <1>3, <1>4, <1>5, <1>6, <1>7

-----------------------------------------------------------------------------
(* Layouts.                                                                *)

(***************************************************************************)
(* The layout of an image has three dimensions.                            *)
(***************************************************************************)
LEMMA ImageLayoutTyped ==
  ASSUME NEW dt \in DOMAIN DtypeCells, NEW h \in Nat, NEW w \in Nat
  PROVE  /\ ImageLayout(dt, h, w) \in AnyLayout
         /\ ImageLayout(dt, h, w).shape = << 3, h, w >>
         /\ ImageLayout(dt, h, w).dt = dt
<1>1. h * w \in Nat
  OBVIOUS
<1>2. << 3, h, w >> \in Seq(Nat) /\ << h * w, w, 1 >> \in Seq(Nat)
  BY <1>1
<1>3. "image" \in KeyNames
  BY DEF KeyNames
<1> DEFINE shape == << 3, h, w >>
           strides == << h * w, w, 1 >>
<1>4. ImageLayout(dt, h, w) = [key |-> "image", shape |-> shape, strides |-> strides, dt |-> dt]
  BY DEF ImageLayout, Layout, Channels
<1> HIDE DEF shape, strides
<1> QED
  BY <1>2, <1>3, <1>4 DEF AnyLayout, shape, strides

(***************************************************************************)
(* The layout of a label has none.                                         *)
(***************************************************************************)
LEMMA LabelLayoutTyped ==
  LabelLayout \in AnyLayout /\ LabelLayout.shape = << >>
<1>1. LabelDtype \in DOMAIN DtypeCells
  BY BatchAssumption
<1>2. "label" \in KeyNames /\ << >> \in Seq(Nat)
  BY DEF KeyNames
<1> DEFINE none == << >>
<1>3. LabelLayout = [key |-> "label", shape |-> none, strides |-> none, dt |-> LabelDtype]
  BY DEF LabelLayout, Layout
<1> HIDE DEF none
<1> QED
  BY <1>1, <1>2, <1>3 DEF AnyLayout, none

(***************************************************************************)
(* The strides of an image, and of a label, are those of row-major order.  *)
(***************************************************************************)
LEMMA ImageStrides ==
  ASSUME NEW c \in Nat, NEW h \in Nat, NEW w \in Nat
  PROVE  RowMajor(<< c, h, w >>) = << h * w, w, 1 >>
<1> DEFINE s == << c, h, w >>
<1>1. /\ SubSeq(s, 2, 3) = << h, w >> /\ SubSeq(s, 3, 3) = << w >> /\ SubSeq(s, 4, 3) = << >>
      /\ DOMAIN s = 1 .. 3 /\ Len(s) = 3
  <2>1. s \in Seq(Nat) /\ Len(s) = 3 /\ DOMAIN s = 1 .. 3 /\ s[2] = h /\ s[3] = w
    OBVIOUS
  <2> HIDE DEF s
  <2>2. SubSeq(s, 2, 3) = << h, w >>
    <3>1. SubSeq(s, 2, 3) = [i \in 1 .. 2 |-> s[2 + i - 1]]
      BY <2>1
    <3>2. [i \in 1 .. 2 |-> s[2 + i - 1]] = << h, w >>
      BY <2>1
    <3> QED
      BY <3>1, <3>2
  <2>3. SubSeq(s, 3, 3) = << w >>
    <3>1. SubSeq(s, 3, 3) = [i \in 1 .. 1 |-> s[3 + i - 1]]
      BY <2>1
    <3>2. [i \in 1 .. 1 |-> s[3 + i - 1]] = << w >>
      BY <2>1
    <3> QED
      BY <3>1, <3>2
  <2>4. SubSeq(s, 4, 3) = << >>
    BY <2>1
  <2> QED
    BY <2>1, <2>2, <2>3, <2>4
<1>2. Product(<< h, w >>) = h * w
  <2> DEFINE t == << h, w >>
             g == Products(t)
  <2>1. t \in Seq(Nat) /\ Len(t) = 2 /\ t[1] = h /\ t[2] = w
    OBVIOUS
  <2> HIDE DEF t
  <2>2. Product(t) = g[2] /\ g[0] = 1 /\ \A k \in 1 .. 2 : g[k] = g[k - 1] * t[k]
    BY <2>1, ProductsAre
  <2> HIDE DEF g
  <2>3. g[1] = g[1 - 1] * t[1] /\ g[2] = g[2 - 1] * t[2]
    BY <2>2
  <2>4. g[1] = h
    BY <2>1, <2>2, <2>3
  <2>5. g[2] = g[1] * w
    BY <2>1, <2>3
  <2> QED
    BY <2>2, <2>4, <2>5 DEF t
<1>3. Product(<< w >>) = w
  <2> DEFINE t == << w >>
             g == Products(t)
  <2>1. t \in Seq(Nat) /\ Len(t) = 1 /\ t[1] = w
    OBVIOUS
  <2> HIDE DEF t
  <2>2. Product(t) = g[1] /\ g[0] = 1 /\ \A k \in 1 .. 1 : g[k] = g[k - 1] * t[k]
    BY <2>1, ProductsAre
  <2> HIDE DEF g
  <2>3. g[1] = g[1 - 1] * t[1]
    BY <2>2
  <2> QED
    BY <2>1, <2>2, <2>3 DEF t
<1> DEFINE f == [k \in 1 .. 3 |-> Product(SubSeq(s, k + 1, 3))]
<1>4. RowMajor(s) = f
  <2> HIDE DEF s
  <2> QED
    BY <1>1 DEF RowMajor
<1>5. f[1] = Product(SubSeq(s, 2, 3)) /\ f[2] = Product(SubSeq(s, 3, 3)) /\ f[3] = Product(SubSeq(s, 4, 3))
  <2> HIDE DEF s
  <2>1. 1 + 1 = 2 /\ 2 + 1 = 3 /\ 3 + 1 = 4
    OBVIOUS
  <2> QED
    BY <2>1
<1>6. f[1] = h * w /\ f[2] = w /\ f[3] = 1
  <2> HIDE DEF s, f
  <2> QED
    BY <1>1, <1>2, <1>3, <1>5, ProductOfNone
<1>7. f = << f[1], f[2], f[3] >>
  <2> DEFINE P(k) == Product(SubSeq(s, k + 1, 3))
  <2> HIDE DEF P
  <2>1. [k \in 1 .. 3 |-> P(k)] = << P(1), P(2), P(3) >>
    OBVIOUS
  <2>2. f = [k \in 1 .. 3 |-> P(k)] /\ f[1] = P(1) /\ f[2] = P(2) /\ f[3] = P(3)
    BY DEF P
  <2> HIDE DEF f
  <2> QED
    BY <2>1, <2>2
<1> QED
  BY <1>4, <1>6, <1>7

(***************************************************************************)
(* A label has no strides.                                                 *)
(***************************************************************************)
LEMMA NoStrides ==
  RowMajor(<< >>) = << >>
BY DEF RowMajor

(***************************************************************************)
(* The two layouts that both processors make.                              *)
(***************************************************************************)
LEMMA ImageAndLabelTyped ==
  ASSUME NEW dt \in DOMAIN DtypeCells, NEW h \in Nat, NEW w \in Nat
  PROVE  ImageAndLabel(<< ImageLayout(dt, h, w), LabelLayout >>)
<1> DEFINE i == ImageLayout(dt, h, w)
           l == LabelLayout
<1>1. /\ i \in AnyLayout /\ l \in AnyLayout /\ Len(i.shape) = 3 /\ Len(l.shape) = 0
  <2>1. i \in AnyLayout /\ i.shape = << 3, h, w >> /\ l \in AnyLayout /\ l.shape = << >>
    BY ImageLayoutTyped, LabelLayoutTyped
  <2> QED
    BY <2>1
<1>2. i.key = "image" /\ i.strides = RowMajor(i.shape)
  <2> DEFINE s == << h * w, w, 1 >>
  <2>1. i.key = "image" /\ i.strides = s /\ i.shape = << 3, h, w >>
    <3> HIDE DEF s
    <3>1. i = [key |-> "image", shape |-> << Channels, h, w >>, strides |-> s, dt |-> dt]
      BY DEF ImageLayout, Layout, s
    <3> HIDE DEF i
    <3> QED
      BY <3>1 DEF Channels
  <2>2. RowMajor(<< 3, h, w >>) = s
    BY ImageStrides
  <2> HIDE DEF i, s
  <2> QED
    BY <2>1, <2>2
<1>3. l.key = "label" /\ l.dt = LabelDtype /\ l.strides = RowMajor(l.shape)
  <2> DEFINE none == << >>
  <2>1. LabelLayout = [key |-> "label", shape |-> none, strides |-> none, dt |-> LabelDtype]
    BY DEF LabelLayout, Layout
  <2>2. RowMajor(none) = none
    BY NoStrides
  <2> HIDE DEF none
  <2> QED
    BY <2>1, <2>2
<1> HIDE DEF i, l
<1> QED
  BY <1>1, <1>2, <1>3 DEF ImageAndLabel, i, l

(***************************************************************************)
(* Every suffix of a shape has a product: the strides are as many as the   *)
(* dimensions.                                                             *)
(***************************************************************************)
LEMMA RowMajorTyped ==
  ASSUME NEW shape \in Seq(Nat)
  PROVE  RowMajor(shape) \in Seq(Nat) /\ Len(RowMajor(shape)) = Len(shape)
<1> DEFINE n == Len(shape)
           f == [k \in 1 .. n |-> Product(SubSeq(shape, k + 1, n))]
<1>1. n \in Nat /\ RowMajor(shape) = f
  BY DEF RowMajor
<1>2. ASSUME NEW k \in 1 .. n
      PROVE  Product(SubSeq(shape, k + 1, n)) \in Nat
  <2>1. SubSeq(shape, k + 1, n) \in Seq(Nat)
    OBVIOUS
  <2> QED
    BY <2>1, ProductsAre
<1>3. f \in [1 .. n -> Nat]
  BY <1>2
<1> HIDE DEF f
<1>4. f \in Seq(Nat) /\ Len(f) = n
  BY <1>1, <1>3, SequenceOf
<1> QED
  BY <1>1, <1>4

(***************************************************************************)
(* Layouts of one rank merge to a dense layout of that rank.               *)
(***************************************************************************)
LEMMA MergeTyped ==
  ASSUME NEW l \in AnyLayout, NEW o \in AnyLayout, Len(l.shape) = Len(o.shape)
  PROVE  /\ Merge(l, o) \in AnyLayout /\ Len(Merge(l, o).shape) = Len(l.shape)
         /\ Merge(l, o).key = l.key /\ Merge(l, o).dt = l.dt /\ Merge(l, o).strides = RowMajor(Merge(l, o).shape)
<1> DEFINE n == Len(l.shape)
           shape == [k \in 1 .. n |-> Larger(l.shape[k], o.shape[k])]
<1>1. /\ l.shape \in Seq(Nat) /\ o.shape \in Seq(Nat) /\ n \in Nat /\ DOMAIN l.shape = 1 .. n
      /\ l = [key |-> l.key, shape |-> l.shape, strides |-> l.strides, dt |-> l.dt]
      /\ l.key \in KeyNames /\ l.dt \in DOMAIN DtypeCells
  BY DEF AnyLayout
<1>2. shape \in [1 .. n -> Nat]
  BY <1>1 DEF Larger
<1>3. Merge(l, o) = [key |-> l.key, shape |-> shape, strides |-> RowMajor(shape), dt |-> l.dt]
  <2>1. Merge(l, o) = [l EXCEPT !.shape = shape, !.strides = RowMajor(shape)]
    BY <1>1 DEF Merge
  <2> HIDE DEF shape
  <2> QED
    BY <1>1, <2>1
<1> HIDE DEF shape
<1>4. shape \in Seq(Nat) /\ Len(shape) = n
  BY <1>1, <1>2, SequenceOf
<1>5. RowMajor(shape) \in Seq(Nat)
  BY <1>4, RowMajorTyped
<1> QED
  BY <1>1, <1>3, <1>4, <1>5 DEF AnyLayout

\* dynamic_layouts of a TarDataset: nothing, or an image's layout and a label's.
MaybeLayouts == { ls \in Seq(AnyLayout) : ls = << >> \/ ImageAndLabel(ls) }

(***************************************************************************)
(* The layouts of two records merge to the layouts of an image and a       *)
(* label.                                                                  *)
(***************************************************************************)
LEMMA MergedLayouts ==
  ASSUME NEW a \in MaybeLayouts, a # << >>, NEW b \in MaybeLayouts, b # << >>
  PROVE  [i \in DOMAIN b |-> Merge(a[i], b[i])] \in MaybeLayouts
<1> DEFINE m == [i \in DOMAIN b |-> Merge(a[i], b[i])]
<1>1. /\ DOMAIN b = 1 .. 2 /\ a[1] \in AnyLayout /\ a[2] \in AnyLayout /\ b[1] \in AnyLayout /\ b[2] \in AnyLayout
      /\ Len(a[1].shape) = 3 /\ Len(b[1].shape) = 3 /\ Len(a[2].shape) = 0 /\ Len(b[2].shape) = 0
      /\ a[1].key = "image" /\ a[2].key = "label" /\ a[2].dt = LabelDtype
  BY DEF MaybeLayouts, ImageAndLabel
<1>2. /\ m[1] \in AnyLayout /\ m[1].key = "image" /\ Len(m[1].shape) = 3 /\ m[1].strides = RowMajor(m[1].shape)
      /\ m[2] \in AnyLayout /\ m[2].key = "label" /\ Len(m[2].shape) = 0 /\ m[2].strides = RowMajor(m[2].shape)
      /\ m[2].dt = LabelDtype
  <2>1. m[1] = Merge(a[1], b[1]) /\ m[2] = Merge(a[2], b[2])
    BY <1>1
  <2> HIDE DEF m
  <2> QED
    BY <1>1, <2>1, MergeTyped
<1>3. m \in [1 .. 2 -> AnyLayout]
  <2>1. \A i \in 1 .. 2 : Merge(a[i], b[i]) \in AnyLayout
    BY <1>1, MergeTyped
  <2> QED
    BY <1>1, <2>1
<1> HIDE DEF m
<1>4. m \in Seq(AnyLayout) /\ Len(m) = 2
  BY <1>3, SequenceOf
<1>5. m \in MaybeLayouts
  BY <1>2, <1>4 DEF MaybeLayouts, ImageAndLabel
<1> QED
  BY <1>5 DEF m

\* The layout of one more cell.
MergeLayout(x, layout) ==
  IF layout = << >> THEN x
  ELSE IF x = << >> THEN layout
  ELSE [i \in DOMAIN layout |-> Merge(x[i], layout[i])]

\* The layouts that dynamic_layouts of a TarDataset goes through.
TarMerges(b, items, g) ==
  /\ g[0] = << >> /\ \A k \in 0 .. Len(items) : g[k] \in MaybeLayouts
  /\ \A k \in 1 .. Len(items) : g[k] = MergeLayout(g[k - 1], b.cells[items[k]].layout)

(***************************************************************************)
(* dynamic_layouts of a TarDataset merges one cell after the other.        *)
(***************************************************************************)
LEMMA TarLayoutsAre ==
  ASSUME NEW b, NEW items \in Seq(Nat), \A k \in DOMAIN items : b.cells[items[k]].layout \in MaybeLayouts
  PROVE  \E g : TarMerges(b, items, g) /\ TarLayouts(b, items) = g[Len(items)]
<1> DEFINE n == Len(items)
           S == MaybeLayouts
           Held(k) == b.cells[items[k]].layout
           Round(k, x) == MergeLayout(x, Held(k))
           G == [k \in 1 .. n |-> [x \in S |-> Round(k, x)]]
           none == << >>
           Body(f) == [k \in 0 .. n |-> IF k = 0 THEN none ELSE Round(k, f[k - 1])]
           g == CHOOSE f : f = Body(f)
<1>1. TarLayouts(b, items) = g[n]
  BY DEF TarLayouts, MergeLayout
<1>2. n \in Nat /\ none \in S /\ \A k \in 1 .. n : \A x \in S : Round(k, x) \in S
  <2>1. none \in S
    BY DEF MaybeLayouts
  <2>2. ASSUME NEW k \in 1 .. n, NEW x \in S
        PROVE  Round(k, x) \in S
    <3>1. Held(k) \in S
      OBVIOUS
    <3> HIDE DEF S, Held
    <3>2. Held(k) # << >> /\ x # << >> => [i \in DOMAIN Held(k) |-> Merge(x[i], Held(k)[i])] \in S
      BY <3>1, MergedLayouts DEF S
    <3> QED
      BY <3>1, <3>2 DEF MergeLayout
  <2> QED
    BY <2>1, <2>2
<1> HIDE DEF n, S, Round, none
<1>3. /\ G \in [1 .. n -> [S -> S]]
      /\ \A k \in 1 .. n : \A x \in S : G[k][x] = Round(k, x)
  BY <1>2
<1> HIDE DEF G
<1>4. HasLoop(n, S, none, G)
  BY <1>2, <1>3, LoopExists
<1>5. PICK f \in [0 .. n -> S] : f[0] = none /\ \A k \in 1 .. n : f[k] = G[k][f[k - 1]]
  BY <1>4 DEF HasLoop
<1>6. f = Body(f)
  <2>1. ASSUME NEW k \in 1 .. n
        PROVE  f[k] = Round(k, f[k - 1])
    <3>1. f[k - 1] \in S /\ f[k] = G[k][f[k - 1]]
      BY <1>2, <1>5
    <3> QED
      BY <1>3, <3>1
  <2>2. \A k \in 0 .. n : f[k] = Body(f)[k]
    BY <1>2, <1>5, <2>1
  <2> QED
    BY <2>2
<1>7. g = Body(g)
  BY <1>6
<1> HIDE DEF g
<1>8. g[0] = none /\ \A k \in 1 .. n : g[k] = Round(k, g[k - 1])
  BY <1>2, <1>7
<1>9. Stays(g, n, S)
  <2>1. \A k \in 1 .. n : g[k - 1] \in S => g[k] \in S
    BY <1>2, <1>8
  <2> QED
    BY <1>2, <1>8, <2>1, LoopStays
<1>10. TarMerges(b, items, g)
  BY <1>8, <1>9 DEF TarMerges, Stays, S, n, none, Round
<1> QED
  BY <1>1, <1>10 DEF n

(***************************************************************************)
(* The result is nothing, or an image's layout and a label's.              *)
(***************************************************************************)
LEMMA TarLayoutsTyped ==
  ASSUME NEW b, NEW items \in Seq(Nat), \A k \in DOMAIN items : b.cells[items[k]].layout \in MaybeLayouts
  PROVE  TarLayouts(b, items) \in MaybeLayouts
<1>1. PICK g : TarMerges(b, items, g) /\ TarLayouts(b, items) = g[Len(items)]
  BY TarLayoutsAre
<1>2. Len(items) \in 0 .. Len(items)
  OBVIOUS
<1> QED
  BY <1>1, <1>2 DEF TarMerges

-----------------------------------------------------------------------------
(* The slot that calculate_slot_size makes.                                *)

(***************************************************************************)
(* Products of larger numbers are larger.                                  *)
(***************************************************************************)
LEMMA ProductsGrow ==
  ASSUME NEW a \in Nat, NEW b \in Nat, a <= b, NEW c \in Nat, NEW d \in Nat, c <= d
  PROVE  a * c \in Nat /\ b * d \in Nat /\ a * c <= b * d
<1>1. PICK x \in Nat : b = a + x
  <2>1. b - a \in Nat /\ b = a + (b - a)
    OBVIOUS
  <2> QED
    BY <2>1
<1>2. PICK y \in Nat : d = c + y
  <2>1. d - c \in Nat /\ d = c + (d - c)
    OBVIOUS
  <2> QED
    BY <2>1
<1>3. a * c \in Nat /\ a * y \in Nat /\ x * c \in Nat /\ x * y \in Nat
  OBVIOUS
<1>4. b * d = a * c + a * y + x * c + x * y
  BY <1>1, <1>2
<1> QED
  BY <1>3, <1>4

(***************************************************************************)
(* Every layout of a batch has one dimension more than an item's.          *)
(***************************************************************************)
LEMMA WithBatchIs ==
  ASSUME NEW ls \in Seq(AnyLayout), NEW n \in Nat
  PROVE  /\ WithBatch(ls, n) \in Seq(AnyLayout) /\ Len(WithBatch(ls, n)) = Len(ls)
         /\ \A i \in 1 .. Len(ls) : Len(WithBatch(ls, n)[i].shape) = Len(ls[i].shape) + 1
<1> DEFINE f == [i \in 1 .. Len(ls) |-> AddBatchDimension(ls[i], n)]
<1>1. WithBatch(ls, n) = f
  BY DEF WithBatch, Map
<1>2. ASSUME NEW l \in AnyLayout
      PROVE  AddBatchDimension(l, n) \in AnyLayout /\ Len(AddBatchDimension(l, n).shape) = Len(l.shape) + 1
  <2> DEFINE shape == << n >> \o l.shape
             strides == << Product(l.shape) >> \o l.strides
  <2>1. /\ l.shape \in Seq(Nat) /\ l.strides \in Seq(Nat)
        /\ l = [key |-> l.key, shape |-> l.shape, strides |-> l.strides, dt |-> l.dt]
        /\ l.key \in KeyNames /\ l.dt \in DOMAIN DtypeCells
    BY DEF AnyLayout
  <2>2. shape \in Seq(Nat) /\ Len(shape) = Len(l.shape) + 1
    BY <2>1
  <2>3. strides \in Seq(Nat)
    <3>1. Product(l.shape) \in Nat
      BY <2>1, ProductsAre
    <3> HIDE DEF strides
    <3>2. << Product(l.shape) >> \in Seq(Nat)
      BY <3>1
    <3> QED
      BY <2>1, <3>2 DEF strides
  <2>4. AddBatchDimension(l, n) = [l EXCEPT !.shape = shape, !.strides = strides]
    BY DEF AddBatchDimension
  <2> HIDE DEF shape, strides
  <2>5. AddBatchDimension(l, n) = [key |-> l.key, shape |-> shape, strides |-> strides, dt |-> l.dt]
    BY <2>1, <2>4
  <2> QED
    BY <2>1, <2>2, <2>3, <2>5 DEF AnyLayout
<1>3. \A i \in 1 .. Len(ls) : ls[i] \in AnyLayout
  OBVIOUS
<1>4. /\ f \in [1 .. Len(ls) -> AnyLayout]
      /\ \A i \in 1 .. Len(ls) : Len(f[i].shape) = Len(ls[i].shape) + 1
  BY <1>2, <1>3
<1> HIDE DEF f
<1>5. f \in Seq(AnyLayout) /\ Len(f) = Len(ls)
  <2>1. Len(ls) \in Nat
    OBVIOUS
  <2> QED
    BY <1>4, <2>1, SequenceOf
<1> QED
  BY <1>1, <1>4, <1>5

\* What calculate_slot_size adds up: the headers with the batch dimension.
BatchBlocks(ms) == [i \in 1 .. Len(ms) |-> BlockSize(Len(ms[i].shape) + 1)]

(***************************************************************************)
(* calculate_slot_size aligns the headers with their batch dimension and   *)
(* as many items as a batch has.                                           *)
(***************************************************************************)
LEMMA SlotSizeIs ==
  ASSUME NEW ms \in Seq(AnyLayout), NEW m \in Nat
  PROVE  CalculateSlotSize(ms, m) = AlignTo(Total(BatchBlocks(ms)) + ItemSize(ms) * m, SlotAlign)
BY DEF CalculateSlotSize, Map, BatchBlocks

(***************************************************************************)
(* A slot that is sized for layouts holds a batch of any layouts that are  *)
(* no larger, and of any length up to the one it is sized for.             *)
(***************************************************************************)
LEMMA SlotHoldsBatch ==
  ASSUME NEW ls \in Seq(AnyLayout), NEW ms \in Seq(AnyLayout), Len(ls) = Len(ms),
         \A i \in 1 .. Len(ls) : Len(ls[i].shape) = Len(ms[i].shape) /\ AlignedBytes(ls[i]) <= AlignedBytes(ms[i]),
         NEW n \in Nat, NEW m \in Nat, n <= m
  PROVE  HeaderSize(WithBatch(ls, n)) + ItemSize(ls) * n <= CalculateSlotSize(ms, m)
<1> DEFINE bl == WithBatch(ls, n)
           blocks == BatchBlocks(ms)
           a == ItemSize(ls)
           b == ItemSize(ms)
           head == HeaderSize(bl)
<1>1. CalculateSlotSize(ms, m) = AlignTo(Total(blocks) + b * m, SlotAlign)
  BY SlotSizeIs
<1>2. head = Total(blocks) /\ head \in Nat
  <2>1. /\ bl \in Seq(AnyLayout) /\ Len(bl) = Len(ls)
        /\ \A i \in 1 .. Len(ls) : Len(bl[i].shape) = Len(ls[i].shape) + 1
    BY WithBatchIs
  <2> HIDE DEF bl
  <2>2. head = Total(Blocks(bl)) /\ head \in Nat
    BY <2>1, BlocksAre
  <2>3. Blocks(bl) = blocks
    <3> HIDE DEF head, a, b
    <3>1. DOMAIN bl = 1 .. Len(ls) /\ Len(ls) = Len(ms)
      BY <2>1
    <3> QED
      BY <2>1, <3>1 DEF Blocks, BatchBlocks
  <2> QED
    BY <2>2, <2>3
<1>3. a \in Nat /\ b \in Nat /\ a <= b
  <2> DEFINE s == Map(AlignedBytes, ls)
             t == Map(AlignedBytes, ms)
  <2>1. s \in Seq(Nat) /\ t \in Seq(Nat) /\ Len(s) = Len(ls) /\ Len(t) = Len(ms)
    BY BytesTyped DEF Map
  <2>2. \A i \in 1 .. Len(t) : s[i] <= t[i]
    BY <2>1 DEF Map
  <2>3. a = Total(s) /\ b = Total(t)
    BY DEF ItemSize
  <2>4. a \in Nat /\ b \in Nat
    BY ItemSizeTyped
  <2> HIDE DEF s, t, a, b
  <2> QED
    BY <2>1, <2>2, <2>3, <2>4, SumOfLarger
<1> HIDE DEF blocks, head, a, b
<1>4. a * n <= b * m /\ a * n \in Nat /\ b * m \in Nat
  BY <1>3, ProductsGrow
<1>5. head + b * m <= AlignTo(head + b * m, SlotAlign)
  <2>1. head + b * m \in Nat /\ SlotAlign \in Nat \ {0}
    BY <1>2, <1>4, LayoutAssumption
  <2> DEFINE c == head + b * m
  <2> HIDE DEF c
  <2>2. c <= AlignTo(c, SlotAlign)
    BY <2>1, Aligned DEF c
  <2> QED
    BY <2>2 DEF c
<1>6. AlignTo(head + b * m, SlotAlign) \in Nat
  <2>1. head + b * m \in Nat /\ SlotAlign \in Nat \ {0}
    BY <1>2, <1>4, LayoutAssumption
  <2> QED
    BY <2>1, Aligned
<1> DEFINE x == a * n
           y == b * m
           z == AlignTo(head + y, SlotAlign)
<1>7. head \in Nat /\ x \in Nat /\ y \in Nat /\ z \in Nat /\ x <= y /\ head + y <= z
  BY <1>2, <1>4, <1>5, <1>6
<1>8. HeaderSize(bl) + ItemSize(ls) * n = head + x /\ CalculateSlotSize(ms, m) = z
  BY <1>1, <1>2 DEF head, a
<1> HIDE DEF x, y, z
<1> QED
  BY <1>7, <1>8

(***************************************************************************)
(* The slot size is a number.                                              *)
(***************************************************************************)
LEMMA SlotSizeTyped ==
  ASSUME NEW ms \in Seq(AnyLayout), NEW m \in Nat
  PROVE  CalculateSlotSize(ms, m) \in Nat
<1> DEFINE blocks == BatchBlocks(ms)
           a == Total(blocks)
           b == ItemSize(ms)
<1>1. CalculateSlotSize(ms, m) = AlignTo(a + b * m, SlotAlign)
  BY SlotSizeIs
<1>2. a \in Nat
  <2>1. \A i \in 1 .. Len(ms) : BlockSize(Len(ms[i].shape) + 1) \in Nat
    <3> TAKE i \in 1 .. Len(ms)
    <3>1. Len(ms[i].shape) + 1 \in Nat
      BY LayoutOf
    <3> QED
      BY <3>1, BlockSizeTyped
  <2>2. Len(ms) \in Nat /\ blocks \in [1 .. Len(ms) -> Nat]
    BY <2>1 DEF BatchBlocks
  <2> HIDE DEF blocks
  <2>3. blocks \in Seq(Nat)
    BY <2>2, SequenceOf
  <2> QED
    BY <2>3, SumsAre
<1>3. b \in Nat
  BY ItemSizeTyped
<1> HIDE DEF a, b
<1>4. a + b * m \in Nat
  BY <1>2, <1>3
<1> QED
  BY <1>1, <1>4, Aligned, LayoutAssumption

(***************************************************************************)
(* A smaller image needs no more bytes than a larger one.                  *)
(***************************************************************************)
LEMMA FolderBytesGrow ==
  ASSUME NEW dt \in DOMAIN DtypeCells, NEW h \in Nat, NEW w \in Nat, NEW bh \in Nat, NEW bw \in Nat, h <= bh, w <= bw
  PROVE  AlignedBytes(ImageLayout(dt, h, w)) <= AlignedBytes(ImageLayout(dt, bh, bw))
<1> DEFINE c == DtypeCells[dt]
<1>1. c \in Nat
  BY LayoutAssumption
<1>2. \A x \in Nat, y \in Nat : TotalBytes(ImageLayout(dt, x, y)) = 3 * x * y * c
  <2> TAKE x \in Nat, y \in Nat
  <2>1. ImageLayout(dt, x, y).shape = << 3, x, y >> /\ ImageLayout(dt, x, y).dt = dt
    BY ImageLayoutTyped
  <2>2. Product(<< 3, x, y >>) = 3 * x * y
    BY ProductOfThree
  <2> QED
    BY <2>1, <2>2 DEF TotalBytes, TotalElements
<1>3. TotalBytes(ImageLayout(dt, h, w)) <= TotalBytes(ImageLayout(dt, bh, bw))
  <2> HIDE DEF c
  <2>1. 3 * h \in Nat /\ 3 * bh \in Nat /\ 3 * h <= 3 * bh
    OBVIOUS
  <2>2. 3 * h * w \in Nat /\ 3 * bh * bw \in Nat /\ 3 * h * w <= 3 * bh * bw
    BY <2>1, ProductsGrow
  <2>3. 3 * h * w * c <= 3 * bh * bw * c
    BY <1>1, <2>2, ProductsGrow
  <2> QED
    BY <1>2, <2>3
<1>4. TotalBytes(ImageLayout(dt, h, w)) \in Nat /\ TotalBytes(ImageLayout(dt, bh, bw)) \in Nat
  BY BytesTyped, ImageLayoutTyped
<1> QED
  BY <1>3, <1>4, AlignedGrows, LayoutAssumption DEF AlignedBytes

-----------------------------------------------------------------------------
(* The reader.                                                             *)

\* An archive of blocks.
AnyArchive(a) == a \in Seq({ a[k] : k \in DOMAIN a }) /\ \A k \in DOMAIN a : AnyBlock(a[k])

\* What next_record may find.
GoodOutcome(a, r) ==
  /\ r.res \in {"record", "Eof", "Overflow", "HeaderError"}
  /\ r.img \in AnyImage
  /\ r.reader.offset \in 0 .. Len(a)

(***************************************************************************)
(* What a header leads to is good where its parts are.                     *)
(***************************************************************************)
LEMMA OutcomeGood ==
  ASSUME NEW a, NEW res \in {"record", "Eof", "Overflow", "HeaderError"}, NEW name, NEW img \in AnyImage,
         NEW o \in 0 .. Len(a), NEW eof
  PROVE  GoodOutcome(a, Outcome(res, name, img, o, eof))
BY DEF GoodOutcome, Outcome

(***************************************************************************)
(* An error of next_record is a good outcome.                              *)
(***************************************************************************)
LEMMA ErrGood ==
  ASSUME NEW a, NEW res \in {"record", "Eof", "Overflow", "HeaderError"}, NEW o \in 0 .. Len(a), NEW eof
  PROVE  GoodOutcome(a, Err(res, o, eof))
<1>1. NoImage \in AnyImage
  BY DEF NoImage, AnyImage, Damages
<1> QED
  BY <1>1 DEF Err, GoodOutcome, Outcome

(***************************************************************************)
(* What a header leads to is good where what the headers after it lead to  *)
(* is.                                                                     *)
(***************************************************************************)
LEMMA FoundAtGood ==
  ASSUME NEW a, AnyArchive(a), NEW o \in 0 .. Len(a), NEW l \in LongNames(a), NEW later,
         \A j \in o + 1 .. Len(a) : \A m \in LongNames(a) : GoodOutcome(a, later[j][m])
  PROVE  GoodOutcome(a, FoundAt(a, o, l, later))
<1> DEFINE n == Len(a)
           block == a[o + 1]
           blocks == FileSize(block)
           next  == o + 1 + blocks
           text  == IF FileSize(block) = 0 THEN "" ELSE a[o + 2].name
           long  == LongName(block, text, l)
           x     == FoundAt(a, o, l, later)
<1>1. n \in Nat /\ DOMAIN a = 1 .. n /\ \A k \in 1 .. n : AnyBlock(a[k])
  BY DEF AnyArchive
<1> DEFINE outside == o + 1 > n
           beyond  == next > n
<1>2. ~outside => o + 1 \in 1 .. n
  BY <1>1
<1>3. CASE outside
  <2>1. x = Err("Overflow", o, FALSE)
    BY <1>3 DEF FoundAt
  <2> QED
    BY <2>1, ErrGood
<1>4. CASE ~outside /\ IsEnd(block)
  <2>1. x = Err("Eof", o, TRUE)
    BY <1>4 DEF FoundAt
  <2> QED
    BY <2>1, ErrGood
<1>5. CASE ~outside /\ ~IsEnd(block) /\ blocks = NotOctal
  <2>1. x = Err("HeaderError", o, FALSE)
    BY <1>5 DEF FoundAt
  <2> QED
    BY <2>1, ErrGood
<1>6. CASE ~outside /\ ~IsEnd(block) /\ blocks # NotOctal /\ beyond
  <2>1. x = Err("Overflow", o + 1, FALSE)
    BY <1>6 DEF FoundAt
  <2>2. o + 1 \in 0 .. n
    BY <1>1, <1>2, <1>6
  <2> QED
    BY <2>1, <2>2, ErrGood
<1>7. CASE ~outside /\ ~IsEnd(block) /\ blocks # NotOctal /\ ~beyond
  <2>1. blocks \in Nat
    BY <1>1, <1>2, <1>7 DEF FileSize, AnyBlock
  <2>2. next \in o + 1 .. n /\ next \in 0 .. n /\ (blocks # 0 => o + 2 \in 1 .. n)
    <3> HIDE DEF blocks
    <3> QED
      BY <1>1, <1>2, <1>7, <2>1
  <2>3. /\ ~IsRegularFile(block) => x = later[next][long]
        /\ IsRegularFile(block) /\ l # NoName => x = Outcome("record", l, DataOf(a, o), next, FALSE)
        /\ IsRegularFile(block) /\ l = NoName /\ FileName(block) = NotUtf8 => x = Err("HeaderError", next, FALSE)
        /\ IsRegularFile(block) /\ l = NoName /\ FileName(block) # NotUtf8 =>
             x = Outcome("record", FileName(block), DataOf(a, o), next, FALSE)
    BY <1>7 DEF FoundAt
  <2>4. long \in LongNames(a)
    <3>1. CASE text = ""
      <4>1. long \in {l, NoName}
        BY <3>1 DEF LongName, NoName
      <4>2. NoName \in LongNames(a)
        BY DEF LongNames
      <4> QED
        BY <4>1, <4>2
    <3>2. CASE text # ""
      <4>1. blocks # 0 /\ text = a[o + 2].name
        BY <3>2
      <4>2. a[o + 2] \in { a[k] : k \in DOMAIN a }
        BY <1>1, <2>2, <4>1
      <4>3. << "", a[o + 2].name >> \in LongNames(a)
        BY <4>2 DEF LongNames
      <4>4. long \in {l, << "", a[o + 2].name >>}
        BY <4>1 DEF LongName
      <4> QED
        BY <4>3, <4>4
    <3> QED
      BY <3>1, <3>2
  <2>5. DataOf(a, o) \in AnyImage
    <3>1. NoImage \in AnyImage
      BY DEF NoImage, AnyImage, Damages
    <3>2. blocks # 0 => a[o + 2].img \in AnyImage
      BY <1>1, <2>2 DEF AnyBlock
    <3> QED
      BY <3>1, <3>2 DEF DataOf
  <2>6. GoodOutcome(a, later[next][long])
    BY <2>2, <2>4
  <2>7. /\ GoodOutcome(a, Outcome("record", l, DataOf(a, o), next, FALSE))
        /\ GoodOutcome(a, Outcome("record", FileName(block), DataOf(a, o), next, FALSE))
    BY <2>2, <2>5, OutcomeGood
  <2>8. GoodOutcome(a, Err("HeaderError", next, FALSE))
    BY <2>2, ErrGood
  <2> HIDE DEF x, next, long, block, n
  <2>9. GoodOutcome(a, x)
    BY <2>3, <2>6, <2>7, <2>8
  <2> QED
    BY <2>9 DEF x
<1> QED
  BY <1>2, <1>3, <1>4, <1>5, <1>6, <1>7

(***************************************************************************)
(* What a header leads to depends on headers after it alone, so that the   *)
(* reader's loop ends.                                                     *)
(***************************************************************************)
LEMMA FoundAtReads ==
  ASSUME NEW a, AnyArchive(a), NEW o \in 0 .. Len(a), NEW l, NEW f, NEW h, \A j \in o + 1 .. Len(a) : f[j] = h[j]
  PROVE  FoundAt(a, o, l, f) = FoundAt(a, o, l, h)
<1> DEFINE n == Len(a)
           blocks == FileSize(a[o + 1])
           next  == o + 1 + blocks
<1>1. n \in Nat /\ DOMAIN a = 1 .. n /\ \A k \in 1 .. n : AnyBlock(a[k])
  BY DEF AnyArchive
<1>2. CASE ~(o + 1 > n) /\ blocks # NotOctal /\ ~(next > n)
  <2>1. blocks \in Nat
    <3>1. AnyBlock(a[o + 1])
      BY <1>1, <1>2
    <3> QED
      BY <1>2, <3>1 DEF FileSize, AnyBlock
  <2>2. next \in o + 1 .. n
    <3> HIDE DEF blocks
    <3> QED
      BY <1>1, <1>2, <2>1
  <2>3. f[next] = h[next]
    BY <2>2
  <2> QED
    BY <2>3 DEF FoundAt
<1>3. CASE ~(~(o + 1 > n) /\ blocks # NotOctal /\ ~(next > n))
  BY <1>3 DEF FoundAt
<1> QED
  BY <1>2, <1>3

\* What is found from each header on, after each long name.
Records(a, g) == g = [o \in 0 .. Len(a) |-> [longName \in LongNames(a) |-> FoundAt(a, o, longName, g)]]

(***************************************************************************)
(* The function by which next_record is defined exists: what there is to   *)
(* find at a header is known once it is known for those after it.          *)
(***************************************************************************)
LEMMA NextRecordIs ==
  ASSUME NEW a, AnyArchive(a), NEW reader
  PROVE  \E g : /\ Records(a, g)
                /\ NextRecord(a, reader) = IF reader.eof THEN Err("Eof", reader.offset, TRUE) ELSE g[reader.offset][NoName]
<1> DEFINE n == Len(a)
           names == LongNames(a)
           Round(o, f) == [longName \in names |-> FoundAt(a, o, longName, f)]
           Body(f, d) == [o \in n - d .. n |-> Round(o, f)]
           g == CHOOSE f : f = [o \in 0 .. n |-> Round(o, f)]
<1>1. NextRecord(a, reader) = IF reader.eof THEN Err("Eof", reader.offset, TRUE) ELSE g[reader.offset][NoName]
  BY DEF NextRecord
<1>2. n \in Nat
  BY DEF AnyArchive
<1>3. ASSUME NEW o \in 0 .. n, NEW f, NEW h, \A j \in o + 1 .. n : f[j] = h[j]
      PROVE  Round(o, f) = Round(o, h)
  BY <1>3, FoundAtReads
<1> HIDE DEF Round, n
<1>4. \E f : f = [o \in 0 .. n |-> Round(o, f)]
  <2> DEFINE Exists(d) == d <= n => \E f : f = Body(f, d)
             T == { d \in Nat : Exists(d) }
  <2>1. Exists(0)
    <3> DEFINE f == [o \in n .. n |-> Round(n, n)]
    <3>1. Round(n, n) = Round(n, f)
      <4> HIDE DEF f
      <4>1. n \in 0 .. n /\ \A j \in n + 1 .. n : n[j] = f[j]
        BY <1>2
      <4> QED
        BY <4>1, <1>3
    <3>2. n - 0 .. n = {n} /\ f[n] = Round(n, n) /\ f = [o \in n - 0 .. n |-> f[o]]
      BY <1>2
    <3> HIDE DEF f
    <3>3. f = Body(f, 0)
      BY <3>1, <3>2
    <3> QED
      BY <3>3
  <2>2. ASSUME NEW d \in Nat, Exists(d)
        PROVE  Exists(d + 1)
    <3> SUFFICES ASSUME d + 1 <= n
                 PROVE  \E f : f = Body(f, d + 1)
      OBVIOUS
    <3>0. PICK f : f = Body(f, d)
      BY <1>2, <2>2
    <3> DEFINE p == n - (d + 1)
               h == [o \in p .. n |-> IF o = p THEN Round(p, f) ELSE f[o]]
    <3>1. p \in 0 .. n /\ n - d = p + 1
      BY <1>2
    <3> HIDE DEF p
    <3>2. ASSUME NEW j \in p + 1 .. n
          PROVE  f[j] = h[j] /\ f[j] = Round(j, f)
      <4>1. j \in p .. n /\ j # p /\ j \in n - d .. n
        BY <1>2, <3>1
      <4>2. f[j] = Body(f, d)[j]
        BY <3>0
      <4> QED
        BY <4>1, <4>2
    <3>3. ASSUME NEW o \in p .. n
          PROVE  h[o] = Round(o, h)
      <4>1. o \in 0 .. n /\ \A j \in o + 1 .. n : f[j] = h[j]
        BY <1>2, <3>1, <3>2
      <4>2. Round(o, f) = Round(o, h)
        <5> HIDE DEF h
        <5> QED
          BY <1>3, <4>1
      <4>3. h[o] = Round(o, f)
        <5>1. CASE o = p
          BY <5>1
        <5>2. CASE o # p
          <6>1. o \in p + 1 .. n
            BY <1>2, <3>1, <5>2
          <6> QED
            BY <3>2, <6>1
        <5> QED
          BY <5>1, <5>2
      <4> QED
        BY <4>2, <4>3
    <3>4. h = Body(h, d + 1)
      BY <3>3 DEF p
    <3> QED
      BY <3>4
  <2>3. n \in T
    <3> HIDE DEF Exists
    <3>1. 0 \in T /\ \A d \in Nat : d \in T => d + 1 \in T
      BY <2>1, <2>2
    <3> HIDE DEF T
    <3> QED
      BY <1>2, <3>1, InductionOnSet
  <2>4. PICK f : f = Body(f, n)
    BY <1>2, <2>3
  <2>5. n - n = 0
    BY <1>2
  <2> QED
    BY <2>4, <2>5
<1>5. g = [o \in 0 .. n |-> Round(o, g)]
  BY <1>4
<1>6. Records(a, g)
  <2> HIDE DEF g
  <2> QED
    BY <1>5 DEF Records, Round, n
<1> QED
  BY <1>1, <1>6

(***************************************************************************)
(* next_record ends inside the archive, and finds an image or says why     *)
(* not.                                                                    *)
(***************************************************************************)
LEMMA NextRecordTyped ==
  ASSUME NEW a, AnyArchive(a), NEW reader, reader.offset \in 0 .. Len(a)
  PROVE  GoodOutcome(a, NextRecord(a, reader))
<1> DEFINE n == Len(a)
           names == LongNames(a)
           Round(o, f) == [longName \in names |-> FoundAt(a, o, longName, f)]
           Good(x) == \A l \in names : GoodOutcome(a, x[l])
<1>1. PICK g : /\ Records(a, g)
               /\ NextRecord(a, reader) = IF reader.eof THEN Err("Eof", reader.offset, TRUE) ELSE g[reader.offset][NoName]
  BY NextRecordIs
<1>2. n \in Nat /\ reader.offset \in 0 .. n
  BY DEF AnyArchive
<1>3. ASSUME NEW o \in 0 .. n, NEW f, \A j \in o + 1 .. n : Good(f[j])
      PROVE  Good(Round(o, f))
  <2> SUFFICES ASSUME NEW l \in names
               PROVE  GoodOutcome(a, FoundAt(a, o, l, f))
    OBVIOUS
  <2> QED
    BY <1>3, FoundAtGood
<1>4. g = [o \in 0 .. n |-> Round(o, g)]
  BY <1>1 DEF Records
<1> HIDE DEF Round, n, Good
<1> DEFINE T == { d \in Nat : d <= n => \A o \in n - d .. n : Good(g[o]) }
<1>5. 0 \in T
  <2>1. n \in 0 .. n /\ n - 0 .. n = {n} /\ \A j \in n + 1 .. n : Good(g[j])
    BY <1>2
  <2>2. Good(Round(n, g))
    BY <1>3, <2>1
  <2> QED
    BY <1>2, <1>4, <2>1, <2>2
<1>6. ASSUME NEW d \in Nat, d \in T
      PROVE  d + 1 \in T
  <2> SUFFICES ASSUME d + 1 <= n, NEW o \in n - (d + 1) .. n
               PROVE  Good(g[o])
    OBVIOUS
  <2>1. \A j \in n - d .. n : Good(g[j])
    BY <1>2, <1>6
  <2>2. o \in 0 .. n /\ \A j \in o + 1 .. n : Good(g[j])
    BY <1>2, <2>1
  <2>3. Good(Round(o, g))
    BY <1>3, <2>2
  <2> QED
    BY <1>4, <2>2, <2>3
<1>7. n \in T
  <2> HIDE DEF T
  <2> QED
    BY <1>2, <1>5, <1>6, InductionOnSet
<1>8. Good(g[reader.offset])
  <2>1. n - n .. n = 0 .. n /\ reader.offset \in 0 .. n
    BY <1>2 DEF n
  <2> QED
    BY <1>2, <1>7, <2>1
<1>9. NoName \in names
  BY DEF LongNames
<1> QED
  BY <1>1, <1>8, <1>9, ErrGood DEF Good

-----------------------------------------------------------------------------
(* The cells of a TarDataset.                                              *)

(***************************************************************************)
(* The size a record is processed to is a size.                            *)
(***************************************************************************)
LEMMA TarSizeTyped ==
  ASSUME NEW d, AnyDataset(d), NEW img \in AnyImage
  PROVE  TarSize(d, img) \in Nat \X Nat
<1>1. img.h \in Nat /\ img.w \in Nat /\ d.pipe \in Seq(AnyStep)
  BY DEF AnyImage, AnyDataset
<1>2. OutputSize(d.pipe) \in Nat \X Nat
  BY <1>1, PipelineSizes
<1> QED
  BY <1>1, <1>2 DEF TarSize, TargetSize

(***************************************************************************)
(* The layouts of a record are an image's and a label's.                   *)
(***************************************************************************)
LEMMA TarLayoutTyped ==
  ASSUME NEW d, AnyDataset(d), NEW img \in AnyImage
  PROVE  ImageAndLabel(TarLayout(d, img))
<1>1. TarSize(d, img) \in Nat \X Nat /\ d.dt \in DOMAIN DtypeCells
  BY TarSizeTyped DEF AnyDataset
<1>2. TarSize(d, img)[1] \in Nat /\ TarSize(d, img)[2] \in Nat
  BY <1>1
<1> QED
  BY <1>1, <1>2, ImageAndLabelTyped DEF TarLayout

(***************************************************************************)
(* A buffer of which one cell is filled or emptied is a good buffer.       *)
(***************************************************************************)
LEMMA CellSet ==
  ASSUME NEW d, NEW b, GoodBuffer(d, b), NEW i \in 1 .. d.cap, NEW cell, GoodCell(cell),
         NEW c, DOMAIN c = {"cells", "reader", "exhausted", "err"}, c.cells = [b.cells EXCEPT ![i] = cell],
         c.reader.offset \in 0 .. Len(d.archive), c.err \in Errors
  PROVE  GoodBuffer(d, c)
<1> DEFINE cells == [b.cells EXCEPT ![i] = cell]
<1>1. /\ DOMAIN cells = 1 .. d.cap /\ cells = [j \in 1 .. d.cap |-> cells[j]]
      /\ \A j \in 1 .. d.cap : cells[j] = IF j = i THEN cell ELSE b.cells[j]
  BY DEF GoodBuffer
<1>2. \A j \in 1 .. d.cap : GoodCell(cells[j])
  BY <1>1 DEF GoodBuffer
<1>3. c.cells = cells
  OBVIOUS
<1> HIDE DEF cells
<1> QED
  BY <1>1, <1>2, <1>3 DEF GoodBuffer

(***************************************************************************)
(* A buffer of which only the reader has moved is a good buffer.           *)
(***************************************************************************)
LEMMA ReaderSet ==
  ASSUME NEW d, NEW b, GoodBuffer(d, b),
         NEW c, DOMAIN c = {"cells", "reader", "exhausted", "err"}, c.cells = b.cells,
         c.reader.offset \in 0 .. Len(d.archive), c.err \in Errors
  PROVE  GoodBuffer(d, c)
BY DEF GoodBuffer

(***************************************************************************)
(* update_cell keeps the buffer good.                                      *)
(***************************************************************************)
LEMMA UpdateCellGood ==
  ASSUME NEW d, AnyDataset(d), NEW b, GoodBuffer(d, b), NEW i \in 1 .. d.cap,
         NEW r, GoodOutcome(d.archive, r)
  PROVE  GoodBuffer(d, UpdateCell(d, b, i, r))
<1> DEFINE cell == [img |-> r.img, name |-> r.name, layout |-> TarLayout(d, r.img)]
           c == UpdateCell(d, b, i, r)
<1>1. /\ r.img \in AnyImage /\ r.reader.offset \in 0 .. Len(d.archive)
      /\ DOMAIN b = {"cells", "reader", "exhausted", "err"} /\ b.err \in Errors /\ "DecoderError" \in Errors
  BY DEF GoodOutcome, GoodBuffer, Errors
<1>2. GoodCell(cell)
  <2>1. ImageAndLabel(TarLayout(d, r.img))
    BY <1>1, TarLayoutTyped
  <2> QED
    BY <1>1, <2>1 DEF GoodCell
<1>3. CASE HasLayout(d, r.img)
  <2>1. /\ DOMAIN c = {"cells", "reader", "exhausted", "err"} /\ c.cells = [b.cells EXCEPT ![i] = cell]
        /\ c.reader = r.reader /\ c.err = b.err
    BY <1>1, <1>3 DEF UpdateCell
  <2> HIDE DEF c, cell
  <2>2. GoodBuffer(d, c)
    BY <1>1, <1>2, <2>1, CellSet
  <2> QED
    BY <2>2 DEF c
<1>4. CASE ~HasLayout(d, r.img)
  <2>1. /\ DOMAIN c = {"cells", "reader", "exhausted", "err"} /\ c.cells = b.cells
        /\ c.reader = r.reader /\ c.err = "DecoderError"
    BY <1>1, <1>4 DEF UpdateCell
  <2> HIDE DEF c
  <2>2. GoodBuffer(d, c)
    BY <1>1, <2>1, ReaderSet
  <2> QED
    BY <2>2 DEF c
<1> QED
  BY <1>3, <1>4

(***************************************************************************)
(* Emptying a cell keeps the buffer good.                                  *)
(***************************************************************************)
LEMMA ClearCellGood ==
  ASSUME NEW d, NEW b, GoodBuffer(d, b), NEW i \in 1 .. d.cap
  PROVE  GoodBuffer(d, ClearCell(b, i))
<1> DEFINE cell == [b.cells[i] EXCEPT !.img = NoImage, !.layout = << >>]
           c == ClearCell(b, i)
<1>1. /\ DOMAIN b = {"cells", "reader", "exhausted", "err"} /\ b.err \in Errors
      /\ b.reader.offset \in 0 .. Len(d.archive) /\ DOMAIN b.cells[i] = {"img", "name", "layout"}
  BY DEF GoodBuffer, GoodCell
<1>2. GoodCell(cell)
  <2>1. NoImage \in AnyImage
    BY DEF NoImage, AnyImage, Damages
  <2>2. DOMAIN cell = {"img", "name", "layout"} /\ cell.img = NoImage /\ cell.layout = << >>
    BY <1>1
  <2> HIDE DEF cell
  <2> QED
    BY <2>1, <2>2 DEF GoodCell
<1>3. /\ DOMAIN c = {"cells", "reader", "exhausted", "err"} /\ c.cells = [b.cells EXCEPT ![i] = cell]
      /\ c.reader = b.reader /\ c.err = b.err
  BY <1>1 DEF ClearCell
<1> HIDE DEF c, cell
<1>4. GoodBuffer(d, c)
  BY <1>1, <1>2, <1>3, CellSet
<1> QED
  BY <1>4 DEF c

(***************************************************************************)
(* The reader of a good buffer finds a good outcome.                       *)
(***************************************************************************)
LEMMA NextOfBuffer ==
  ASSUME NEW d, AnyDataset(d), NEW b, GoodBuffer(d, b)
  PROVE  GoodOutcome(d.archive, NextRecord(d.archive, b.reader))
<1>1. AnyArchive(d.archive) /\ b.reader.offset \in 0 .. Len(d.archive)
  BY DEF AnyDataset, AnyArchive, GoodBuffer
<1> QED
  BY <1>1, NextRecordTyped

(***************************************************************************)
(* The refill of a written cell keeps the buffer good, whether a record is *)
(* found or not.                                                           *)
(***************************************************************************)
LEMMA RefillGood ==
  ASSUME NEW d, AnyDataset(d), NEW b, GoodBuffer(d, b), NEW i \in 1 .. d.cap
  PROVE  GoodBuffer(d, Refill(d, b, i))
<1> DEFINE r == NextRecord(d.archive, b.reader)
<1>1. GoodOutcome(d.archive, r)
  BY NextOfBuffer
<1> HIDE DEF r
<1>2. /\ DOMAIN b = {"cells", "reader", "exhausted", "err"} /\ b.err \in Errors
      /\ r.reader.offset \in 0 .. Len(d.archive) /\ r.res \in {"record", "Eof", "Overflow", "HeaderError"}
  BY <1>1 DEF GoodBuffer, GoodOutcome
<1>3. CASE b.exhausted
  BY <1>3, ClearCellGood DEF Refill
<1>4. CASE ~b.exhausted /\ r.res = "record"
  BY <1>1, <1>4, UpdateCellGood DEF Refill, r
<1>5. CASE ~b.exhausted /\ r.res = "Eof"
  <2> DEFINE c == [b EXCEPT !.reader = r.reader, !.exhausted = TRUE]
  <2>1. Refill(d, b, i) = ClearCell(c, i)
    BY <1>5 DEF Refill, r
  <2>2. DOMAIN c = {"cells", "reader", "exhausted", "err"} /\ c.cells = b.cells /\ c.reader = r.reader /\ c.err = b.err
    BY <1>2
  <2> HIDE DEF c
  <2>3. GoodBuffer(d, c)
    BY <1>2, <2>2, ReaderSet
  <2> QED
    BY <2>1, <2>3, ClearCellGood
<1>6. CASE ~b.exhausted /\ r.res # "record" /\ r.res # "Eof"
  <2> DEFINE c == [b EXCEPT !.reader = r.reader, !.err = r.res]
  <2>1. Refill(d, b, i) = c
    BY <1>6 DEF Refill, r
  <2>2. DOMAIN c = {"cells", "reader", "exhausted", "err"} /\ c.cells = b.cells /\ c.reader = r.reader /\ c.err = r.res
    BY <1>2
  <2> HIDE DEF c
  <2>3. r.res \in Errors
    BY <1>2, <1>6 DEF Errors
  <2> QED
    BY <1>2, <2>1, <2>2, <2>3, ReaderSet
<1> QED
  BY <1>3, <1>4, <1>5, <1>6

(***************************************************************************)
(* A buffer of empty cells is good.                                        *)
(***************************************************************************)
LEMMA NewBufferGood ==
  ASSUME NEW d, AnyDataset(d)
  PROVE  GoodBuffer(d, NewBuffer(d))
<1> DEFINE cells == [i \in 1 .. d.cap |-> EmptyCell]
           b == NewBuffer(d)
<1>1. /\ DOMAIN b = {"cells", "reader", "exhausted", "err"}
      /\ b.cells = cells /\ b.reader = AtStart /\ b.err = "none"
  BY DEF NewBuffer, Buffer
<1>2. AtStart.offset \in 0 .. Len(d.archive)
  BY DEF AtStart, AnyDataset
<1>3. GoodCell(EmptyCell)
  BY DEF GoodCell, EmptyCell, NoImage, AnyImage, Damages
<1>4. "none" \in Errors
  BY DEF Errors
<1> HIDE DEF b
<1> QED
  BY <1>1, <1>2, <1>3, <1>4 DEF GoodBuffer, b

-----------------------------------------------------------------------------
(* prime_initial_buffer.                                                   *)

\* One cell of the buffer is filled.
PrimeCell(d, b, i) ==
  LET r == NextRecord(d.archive, b.reader)
  IN  IF b.exhausted \/ b.err # "none" THEN b
      ELSE IF r.res = "record" THEN UpdateCell(d, b, i, r)
      ELSE [b EXCEPT !.reader = r.reader, !.exhausted = r.res = "Eof",
                     !.err = IF r.res = "Eof" THEN "none" ELSE r.res]

(***************************************************************************)
(* prime_initial_buffer keeps the buffer good, one cell at a time.         *)
(***************************************************************************)
LEMMA PrimeCellGood ==
  ASSUME NEW d, AnyDataset(d), NEW b, GoodBuffer(d, b), NEW i \in 1 .. d.cap
  PROVE  GoodBuffer(d, PrimeCell(d, b, i))
<1> DEFINE r == NextRecord(d.archive, b.reader)
<1>1. GoodOutcome(d.archive, r)
  BY NextOfBuffer
<1> HIDE DEF r
<1>2. /\ DOMAIN b = {"cells", "reader", "exhausted", "err"} /\ b.err \in Errors
      /\ r.reader.offset \in 0 .. Len(d.archive) /\ r.res \in {"record", "Eof", "Overflow", "HeaderError"}
  BY <1>1 DEF GoodBuffer, GoodOutcome
<1>3. CASE b.exhausted \/ b.err # "none"
  BY <1>3 DEF PrimeCell
<1>4. CASE ~(b.exhausted \/ b.err # "none") /\ r.res = "record"
  BY <1>1, <1>4, UpdateCellGood DEF PrimeCell, r
<1>5. CASE ~(b.exhausted \/ b.err # "none") /\ r.res # "record"
  <2> DEFINE e == IF r.res = "Eof" THEN "none" ELSE r.res
             c == [b EXCEPT !.reader = r.reader, !.exhausted = r.res = "Eof", !.err = e]
  <2>1. PrimeCell(d, b, i) = c
    BY <1>5 DEF PrimeCell, r
  <2>2. e \in Errors
    BY <1>2, <1>5 DEF Errors
  <2> HIDE DEF e
  <2>3. DOMAIN c = {"cells", "reader", "exhausted", "err"} /\ c.cells = b.cells /\ c.reader = r.reader /\ c.err = e
    BY <1>2
  <2> HIDE DEF c
  <2> QED
    BY <1>2, <2>1, <2>2, <2>3, ReaderSet
<1> QED
  BY <1>3, <1>4, <1>5

\* The buffers that prime_initial_buffer goes through, from the empty one.
Primings(d, g) == g[0] = NewBuffer(d) /\ \A k \in 1 .. d.cap : g[k] = PrimeCell(d, g[k - 1], k)

(***************************************************************************)
(* prime_initial_buffer is a sequence of buffers, a cell filled in each.   *)
(***************************************************************************)
LEMMA PrimedIs ==
  ASSUME NEW d, d.cap \in Nat
  PROVE  \E g : Primings(d, g) /\ Primed(d) = g[d.cap]
<1> DEFINE n == d.cap
           start == NewBuffer(d)
           Round(i, b) == PrimeCell(d, b, i)
           Body(f, j) == [i \in 0 .. j |-> IF i = 0 THEN start ELSE Round(i, f[i - 1])]
           g == CHOOSE f : f = Body(f, n)
<1>1. Primed(d) = g[n]
  BY DEF Primed, PrimeCell
<1>2. n \in Nat
  OBVIOUS
<1> HIDE DEF start, Round, n
<1>3. \E f : f = Body(f, n)
  <2> DEFINE Exists(j) == \E f : f = Body(f, j)
             T == { j \in Nat : Exists(j) }
  <2>1. Exists(0)
    <3> DEFINE f == [k \in 0 .. 0 |-> start]
    <3>1. f = Body(f, 0)
      OBVIOUS
    <3> QED
      BY <3>1
  <2>2. ASSUME NEW j \in Nat, Exists(j)
        PROVE  Exists(j + 1)
    <3>0. PICK f : f = Body(f, j)
      BY <2>2
    <3> DEFINE h == [k \in 0 .. j + 1 |-> IF k <= j THEN f[k] ELSE Round(j + 1, f[j])]
    <3>1. ASSUME NEW k \in 0 .. j + 1
          PROVE  h[k] = Body(h, j + 1)[k]
      <4>1. CASE k <= j
        <5>1. f[k] = Body(f, j)[k] /\ h[k] = f[k]
          BY <3>0, <4>1
        <5>2. k # 0 => h[k - 1] = f[k - 1]
          BY <4>1
        <5> QED
          BY <4>1, <5>1, <5>2
      <4>2. CASE k = j + 1
        BY <4>2
      <4> QED
        BY <4>1, <4>2
    <3>2. h = Body(h, j + 1)
      BY <3>1
    <3> QED
      BY <3>2
  <2>3. n \in T
    <3> HIDE DEF Exists
    <3>1. 0 \in T /\ \A j \in Nat : j \in T => j + 1 \in T
      BY <2>1, <2>2
    <3> HIDE DEF T
    <3> QED
      BY <1>2, <3>1, InductionOnSet
  <2> QED
    BY <2>3
<1>4. g = Body(g, n)
  BY <1>3
<1> HIDE DEF g
<1>5. g[0] = start /\ \A k \in 1 .. n : g[k] = Round(k, g[k - 1])
  BY <1>2, <1>4
<1>6. Primings(d, g)
  BY <1>5 DEF Primings, start, Round, n
<1> QED
  BY <1>1, <1>6 DEF n

(***************************************************************************)
(* A primed buffer is good, wherever in the archive priming ends.          *)
(***************************************************************************)
LEMMA PrimedGood ==
  ASSUME NEW d, AnyDataset(d)
  PROVE  GoodBuffer(d, Primed(d))
<1> DEFINE n == d.cap
<1>1. PICK g : Primings(d, g) /\ Primed(d) = g[n]
  BY PrimedIs DEF AnyDataset
<1>2. n \in Nat
  BY DEF AnyDataset
<1>3. g[0] = NewBuffer(d) /\ \A k \in 1 .. n : g[k] = PrimeCell(d, g[k - 1], k)
  BY <1>1 DEF Primings
<1> HIDE DEF n
<1> DEFINE T == { k \in Nat : k <= n => GoodBuffer(d, g[k]) }
<1>4. 0 \in T
  BY <1>3, NewBufferGood
<1>5. ASSUME NEW k \in Nat, k \in T
      PROVE  k + 1 \in T
  <2> SUFFICES ASSUME k + 1 <= n
               PROVE  GoodBuffer(d, g[k + 1])
    OBVIOUS
  <2>1. k + 1 \in 1 .. n /\ (k + 1) - 1 = k /\ GoodBuffer(d, g[k])
    BY <1>2, <1>5
  <2>2. GoodBuffer(d, PrimeCell(d, g[k], k + 1))
    BY <2>1, PrimeCellGood DEF n
  <2> QED
    BY <1>3, <2>1, <2>2
<1> HIDE DEF T
<1>6. n \in T
  BY <1>2, <1>4, <1>5, InductionOnSet
<1> QED
  BY <1>1, <1>2, <1>6 DEF T

-----------------------------------------------------------------------------
(* What decoding, augmenting and copying may fail with.                    *)

\* What decoding and copying return.
Returned(r) == DOMAIN r = {"err", "out"} /\ r.err \in Errors

(***************************************************************************)
(* Succeeding and failing are the two ways to return.                      *)
(***************************************************************************)
LEMMA DoneReturned ==
  ASSUME NEW out
  PROVE  Returned(Done(out)) /\ \A e \in Errors : Returned(Fail(e, out))
<1>1. "none" \in Errors
  BY DEF Errors
<1> QED
  BY <1>1 DEF Returned, Done, Fail

(***************************************************************************)
(* The decoder returns, or fails with an error of its own.                 *)
(***************************************************************************)
LEMMA DecodeReturned ==
  ASSUME NEW img \in AnyImage, NEW out, NEW stride \in Nat, NEW maxHeight \in Nat
  PROVE  Returned(Decode(img, out, stride, maxHeight))
<1>1. img.h \in Nat /\ img.w \in Nat
  BY DEF AnyImage
<1>2. (stride < img.w \/ maxHeight < img.h) \/ (stride >= img.w /\ maxHeight >= img.h)
  BY <1>1
<1>3. {"DecoderError", "InvalidStride", "BufferOverflow"} \subseteq Errors
  BY DEF Errors
<1>4. \/ \E e \in Errors : Decode(img, out, stride, maxHeight) = Fail(e, out)
      \/ \E o : Decode(img, out, stride, maxHeight) = Done(o)
  <2>1. CASE img.damage = "header"
    <3>1. Decode(img, out, stride, maxHeight) = Fail("DecoderError", out)
      BY <2>1 DEF Decode
    <3> QED
      BY <1>3, <3>1
  <2>2. CASE img.damage # "header" /\ (stride < img.w \/ maxHeight < img.h)
    <3>1. Decode(img, out, stride, maxHeight) = Fail("InvalidStride", out)
      BY <1>1, <2>2 DEF Decode
    <3> QED
      BY <1>3, <3>1
  <2>3. CASE img.damage # "header" /\ stride >= img.w /\ maxHeight >= img.h
    <3>1. Decode(img, out, stride, maxHeight) \in
            {Fail("BufferOverflow", out), Fail("DecoderError", out), Done(Overlay(out, Decoded(img, stride, maxHeight)))}
      BY <1>1, <2>3 DEF Decode
    <3> QED
      BY <1>3, <3>1
  <2> QED
    BY <1>2, <2>1, <2>2, <2>3
<1> QED
  BY <1>4, DoneReturned

(***************************************************************************)
(* Copying a decoded image returns, or fails with an error of its own.     *)
(***************************************************************************)
LEMMA CopyReturned ==
  ASSUME NEW src, NEW h, NEW w, NEW out, NEW maxH, NEW maxW
  PROVE  /\ Returned(FolderCopy(src, h, w, out, maxH, maxW))
         /\ Returned(TarCopy(src, h, w, out, maxH, maxW))
<1>1. "panic" \in Errors
  BY DEF Errors
<1>2. Returned(PaddedRows(src, h, w, out, maxH, maxW))
  <2> DEFINE p == PaddedRows(src, h, w, out, maxH, maxW)
  <2>1. p = Fail("panic", out) \/ \E o : p = Done(o)
    BY DEF PaddedRows
  <2> HIDE DEF p
  <2>2. Returned(p)
    BY <1>1, <2>1, DoneReturned
  <2> QED
    BY <2>2 DEF p
<1>3. FolderCopy(src, h, w, out, maxH, maxW) \in
        {Fail("panic", out), Done(Overlay(out, src)), PaddedRows(src, h, w, out, maxH, maxW)}
  BY DEF FolderCopy
<1>4. TarCopy(src, h, w, out, maxH, maxW) \in {Done(src), PaddedRows(src, h, w, out, maxH, maxW)}
  BY DEF TarCopy
<1>5. Returned(Done(src)) /\ Returned(Done(Overlay(out, src))) /\ Returned(Fail("panic", out))
  BY <1>1, DoneReturned
<1> QED
  BY <1>2, <1>3, <1>4, <1>5

(***************************************************************************)
(* An augmentation fails with one of the known errors.                     *)
(***************************************************************************)
LEMMA ApplyErr ==
  ASSUME NEW step \in AnyStep, NEW dt, NEW in, NEW h, NEW w, NEW out, NEW d
  PROVE  Apply(step, dt, in, h, w, out, d).err \in Errors
<1> USE DEF To, Broken
<1>1. {"none", "panic", "InvalidParameter", "UnsupportedDtype"} \subseteq Errors
  BY DEF Errors
<1>2. FlipApply(step, in, h, w, out, d).err \in Errors
  BY <1>1 DEF FlipApply
<1>3. CropApply(step, in, h, w, out, d).err \in Errors
  BY <1>1 DEF CropApply
<1>4. ResizeApply(step, dt, in, h, w, out).err \in Errors
  BY <1>1 DEF ResizeApply
<1>5. NormalizeApply(step, dt, in, h, w, out).err \in Errors
  BY <1>1 DEF NormalizeApply
<1>6. JitterApply(step, dt, in, h, w, out, d).err \in Errors
  BY <1>1 DEF JitterApply
<1>7. step.op \in {"RandomHorizontalFlip", "RandomCrop", "Resize", "Normalize", "ColorJitter"}
  BY DEF AnyStep
<1> QED
  BY <1>2, <1>3, <1>4, <1>5, <1>6, <1>7 DEF Apply

\* The state of a pipeline between two steps.
GoodStage(s) == DOMAIN s = {"err", "h", "w", "active", "a", "b"} /\ s.err \in Errors

(***************************************************************************)
(* A step that resizes leaves the pipeline in a stage that the next can    *)
(* start from.                                                             *)
(***************************************************************************)
LEMMA ResizingStage ==
  ASSUME NEW s, GoodStage(s), NEW step \in AnyStep, NEW dt, NEW in, NEW d
  PROVE  GoodStage(ResizingStep(s, step, dt, in, d))
<1>1. ASSUME NEW into, NEW r, r.err \in Errors
      PROVE  GoodStage(Resized(s, into, r))
  BY <1>1 DEF GoodStage, Resized
<1> DEFINE into == IF s.active = "a" THEN "b" ELSE "a"
           r == Apply(step, dt, Holding(s, in), s.h, s.w, IF into = "a" THEN s.a ELSE s.b, d)
<1>2. r.err \in Errors
  BY ApplyErr
<1>3. ResizingStep(s, step, dt, in, d) = Resized(s, into, r)
  BY DEF ResizingStep
<1> HIDE DEF into, r
<1> QED
  BY <1>1, <1>2, <1>3

(***************************************************************************)
(* A step that keeps the size leaves the pipeline in a stage that the next *)
(* can start from.                                                         *)
(***************************************************************************)
LEMMA KeepingStage ==
  ASSUME NEW s, GoodStage(s), NEW step \in AnyStep, NEW dt, NEW in, NEW d, NEW first
  PROVE  GoodStage(KeepingStep(s, step, dt, in, d, first))
<1>1. ASSUME NEW t, GoodStage(t), NEW r, r.err \in Errors
      PROVE  GoodStage(Kept(t, r))
  BY <1>1 DEF GoodStage, Kept
<1>2. ASSUME NEW t, GoodStage(t), NEW n
      PROVE  GoodStage(KeepInTurn(t, step, dt, d, n))
  <2> DEFINE r == Apply(step, dt, Slice(IF t.active = "a" THEN t.a ELSE t.b, n), t.h, t.w,
                        Slice(IF t.active = "a" THEN t.b ELSE t.a, n), d)
  <2>1. r.err \in Errors
    BY ApplyErr
  <2>2. KeepInTurn(t, step, dt, d, n) = Kept(t, r)
    BY DEF KeepInTurn
  <2> HIDE DEF r
  <2> QED
    BY <1>1, <1>2, <2>1, <2>2
<1>3. GoodStage(InFirst(s, in))
  BY DEF GoodStage, InFirst
<1> DEFINE t == IF first /\ s.active # "a" THEN InFirst(s, in) ELSE s
<1>4. GoodStage(t)
  BY <1>3
<1>5. KeepingStep(s, step, dt, in, d, first) = KeepInTurn(t, step, dt, d, Elements(s.h, s.w))
  BY DEF KeepingStep
<1> HIDE DEF t
<1> QED
  BY <1>2, <1>4, <1>5

-----------------------------------------------------------------------------
(* Pipelines, processors and the tensor writer.                            *)

(***************************************************************************)
(* A pipeline of any length fails with one of the known errors.            *)
(***************************************************************************)
LEMMA PipelineErr ==
  ASSUME NEW pipe \in Seq(AnyStep), NEW dt, NEW in, NEW ih, NEW iw, NEW out, NEW doubles, NEW draws
  PROVE  PipelineApply(pipe, dt, in, ih, iw, out, doubles, draws).err \in Errors
<1> DEFINE n == Len(pipe)
           longer == Larger(Cardinality(DOMAIN in), Cardinality(DOMAIN out))
           start == [err |-> "none", h |-> ih, w |-> iw, active |-> "in",
                     a |-> Fresh(longer), b |-> Fresh(Larger(doubles, 2 * longer) - longer)]
           Round(k, s) == IF s.err # "none" THEN s
                          ELSE IF ChangesSize(pipe[k]) THEN ResizingStep(s, pipe[k], dt, in, draws[k])
                          ELSE KeepingStep(s, pipe[k], dt, in, draws[k], \A j \in 1 .. k - 1 : ChangesSize(pipe[j]))
           Body(f, j) == [k \in 0 .. j |-> IF k = 0 THEN start ELSE Round(k, f[k - 1])]
           g == CHOOSE f : f = Body(f, n)
<1>1. PipelineApply(pipe, dt, in, ih, iw, out, doubles, draws) = CopiedOut(g[n], in, out)
  BY DEF PipelineApply
<1>2. n \in Nat
  OBVIOUS
<1>3. GoodStage(start)
  BY DEF GoodStage, Errors
<1>4. ASSUME NEW k \in 1 .. n, NEW s, GoodStage(s)
      PROVE  GoodStage(Round(k, s))
  <2>1. pipe[k] \in AnyStep
    OBVIOUS
  <2> QED
    BY <1>4, <2>1, ResizingStage, KeepingStage
<1> HIDE DEF start, Round, n
<1>5. \E f : f = Body(f, n)
  <2> DEFINE Exists(j) == \E f : f = Body(f, j)
             T == { j \in Nat : Exists(j) }
  <2>1. Exists(0)
    <3> DEFINE f == [k \in 0 .. 0 |-> start]
    <3>1. f = Body(f, 0)
      OBVIOUS
    <3> QED
      BY <3>1
  <2>2. ASSUME NEW j \in Nat, Exists(j)
        PROVE  Exists(j + 1)
    <3>0. PICK f : f = Body(f, j)
      BY <2>2
    <3> DEFINE h == [k \in 0 .. j + 1 |-> IF k <= j THEN f[k] ELSE Round(j + 1, f[j])]
    <3>1. ASSUME NEW k \in 0 .. j + 1
          PROVE  h[k] = Body(h, j + 1)[k]
      <4>1. CASE k <= j
        <5>1. f[k] = Body(f, j)[k] /\ h[k] = f[k]
          BY <3>0, <4>1
        <5>2. k # 0 => h[k - 1] = f[k - 1]
          BY <4>1
        <5> QED
          BY <4>1, <5>1, <5>2
      <4>2. CASE k = j + 1
        BY <4>2
      <4> QED
        BY <4>1, <4>2
    <3>2. h = Body(h, j + 1)
      BY <3>1
    <3> QED
      BY <3>2
  <2>3. n \in T
    <3> HIDE DEF Exists
    <3>1. 0 \in T /\ \A j \in Nat : j \in T => j + 1 \in T
      BY <2>1, <2>2
    <3> HIDE DEF T
    <3> QED
      BY <1>2, <3>1, InductionOnSet
  <2> QED
    BY <2>3
<1>6. g = Body(g, n)
  BY <1>5
<1> HIDE DEF g
<1>7. g[0] = start /\ \A k \in 1 .. n : g[k] = Round(k, g[k - 1])
  BY <1>2, <1>6
<1> DEFINE T == { k \in Nat : k <= n => GoodStage(g[k]) }
<1>8. 0 \in T
  BY <1>3, <1>7
<1>9. ASSUME NEW k \in Nat, k \in T
      PROVE  k + 1 \in T
  <2> SUFFICES ASSUME k + 1 <= n
               PROVE  GoodStage(g[k + 1])
    OBVIOUS
  <2>1. k + 1 \in 1 .. n /\ (k + 1) - 1 = k /\ GoodStage(g[k])
    BY <1>2, <1>9
  <2> QED
    BY <1>4, <1>7, <2>1
<1>10. GoodStage(g[n])
  <2>1. n \in T
    <3> HIDE DEF T
    <3> QED
      BY <1>2, <1>8, <1>9, InductionOnSet
  <2> QED
    BY <1>2, <2>1
<1>11. ASSUME NEW s, GoodStage(s)
       PROVE  CopiedOut(s, in, out).err \in Errors
  BY <1>11 DEF CopiedOut, GoodStage, Errors, To, Broken
<1> QED
  BY <1>1, <1>10, <1>11

-----------------------------------------------------------------------------
(* What the closures of the two processors return.                         *)

(***************************************************************************)
(* Decoding into scratch and augmenting fails with one of the known        *)
(* errors.                                                                 *)
(***************************************************************************)
LEMMA AugmentedErr ==
  ASSUME NEW d, AnyDataset(d), NEW img \in AnyImage, NEW h, NEW w, NEW doubles, NEW draws
  PROVE  AugmentedImage(d, img, h, w, doubles, draws).err \in Errors
<1> DEFINE decoded == Decode(img, Fresh(Elements(img.h, img.w)), img.w, img.h)
           into == Fresh(LongestImage(d, img, h, w))
<1>1. decoded.err \in Errors
  <2>1. img.h \in Nat /\ img.w \in Nat
    BY DEF AnyImage
  <2>2. Returned(decoded)
    BY <2>1, DecodeReturned
  <2> QED
    BY <2>2 DEF Returned
<1>2. PipelineApply(d.pipe, d.dt, decoded.out, img.h, img.w, into, doubles, draws).err \in Errors
  <2>1. d.pipe \in Seq(AnyStep)
    BY DEF AnyDataset
  <2> HIDE DEF decoded, into
  <2> QED
    BY <2>1, PipelineErr
<1>3. AugmentedImage(d, img, h, w, doubles, draws) =
        IF decoded.err # "none" THEN decoded
        ELSE PipelineApply(d.pipe, d.dt, decoded.out, img.h, img.w, into, doubles, draws)
  BY DEF AugmentedImage
<1> HIDE DEF decoded, into
<1> QED
  BY <1>1, <1>2, <1>3

(***************************************************************************)
(* Padding returns with the error it was given, if any.                    *)
(***************************************************************************)
LEMMA PaddedReturned ==
  ASSUME NEW r, r.err \in Errors, NEW part, NEW sz
  PROVE  Returned(PadToFolder(r, part, sz)) /\ Returned(PadToTar(r, part, sz))
<1>1. Returned(Fail(r.err, part))
  BY DoneReturned
<1>2. /\ Returned(FolderCopy(Slice(r.out, Elements(r.h, r.w)), r.h, r.w, part, sz[1], sz[2]))
      /\ Returned(TarCopy(Slice(r.out, Elements(r.h, r.w)), r.h, r.w, part, sz[1], sz[2]))
  BY CopyReturned
<1> QED
  BY <1>1, <1>2 DEF PadToFolder, PadToTar

(***************************************************************************)
(* Writing an image of a folder fails with one of the known errors.        *)
(***************************************************************************)
LEMMA FolderImageErr ==
  ASSUME NEW d, AnyDataset(d), NEW idx \in DOMAIN Samples(d.files), NEW sz \in Nat \X Nat,
         NEW part, NEW doubles, NEW draws
  PROVE  FolderImage(d, idx, sz, part, doubles, draws).err \in Errors
<1> DEFINE img == Samples(d.files)[idx].img
           r == IF ~d.augmented THEN Decode(img, part, sz[2], sz[1])
                ELSE PadToFolder(AugmentedImage(d, img, sz[1], sz[2], doubles, draws), part, sz)
<1>1. img \in AnyImage
  <2>1. Samples(d.files) \in Seq(AnyFile)
    BY SamplesAre DEF AnyDataset
  <2>2. Samples(d.files)[idx] \in AnyFile
    BY <2>1
  <2> QED
    BY <2>2 DEF AnyFile
<1> HIDE DEF img
<1>2. Returned(Decode(img, part, sz[2], sz[1]))
  <2>1. sz[1] \in Nat /\ sz[2] \in Nat
    OBVIOUS
  <2> QED
    BY <1>1, <2>1, DecodeReturned
<1>3. Returned(PadToFolder(AugmentedImage(d, img, sz[1], sz[2], doubles, draws), part, sz))
  BY <1>1, AugmentedErr, PaddedReturned
<1>4. Returned(r)
  BY <1>2, <1>3
<1>5. FolderImage(d, idx, sz, part, doubles, draws) = Closed(r, Elements(sz[1], sz[2]))
  BY DEF FolderImage, img
<1> HIDE DEF r
<1> QED
  BY <1>4, <1>5 DEF Closed, Returned

(***************************************************************************)
(* Writing an image of a record fails with one of the known errors.        *)
(***************************************************************************)
LEMMA TarImageErr ==
  ASSUME NEW d, AnyDataset(d), NEW img \in AnyImage, NEW sz, sz[1] \in Nat, sz[2] \in Nat,
         NEW part, NEW doubles, NEW draws
  PROVE  TarImage(d, img, sz, part, doubles, draws).err \in Errors
<1> DEFINE n == Elements(sz[1], sz[2])
           dest == Slice(part, n)
           r == IF ~d.augmented THEN Decode(img, dest, sz[2], sz[1])
                ELSE PadToTar(AugmentedImage(d, img, sz[1], sz[2], doubles, draws), dest, sz)
<1>1. TarImage(d, img, sz, part, doubles, draws) =
        IF n > Cardinality(DOMAIN part) THEN Closed(Fail("BufferTooSmall", part), n) ELSE Closed(IntoPart(r, part), n)
  BY DEF TarImage
<1> HIDE DEF n, dest
<1>2. Returned(Decode(img, dest, sz[2], sz[1]))
  BY DecodeReturned
<1>3. Returned(PadToTar(AugmentedImage(d, img, sz[1], sz[2], doubles, draws), dest, sz))
  BY AugmentedErr, PaddedReturned
<1>4. Returned(r)
  BY <1>2, <1>3
<1> HIDE DEF r
<1>5. IntoPart(r, part).err = r.err
  BY <1>4 DEF IntoPart, Returned
<1>6. "BufferTooSmall" \in Errors
  BY DEF Errors
<1> QED
  BY <1>1, <1>4, <1>5, <1>6 DEF Closed, Fail, Returned

-----------------------------------------------------------------------------
(* The writer.                                                             *)

\* The writer of a chunk with these cells.
WriterOf(w, cells) ==
  /\ DOMAIN w = {"err", "out", "keys", "offset", "size", "written"}
  /\ w.err \in Errors /\ DOMAIN w.out = cells

(***************************************************************************)
(* TensorWriter starts on exactly its chunk.                               *)
(***************************************************************************)
LEMMA NewWriterIs ==
  ASSUME NEW ls, NEW chunk
  PROVE  WriterOf(NewWriter(ls, chunk), DOMAIN chunk)
<1>1. "none" \in Errors /\ "BufferTooSmall" \in Errors
  BY DEF Errors
<1> DEFINE w == NewWriter(ls, chunk)
<1>2. /\ DOMAIN w = {"err", "out", "keys", "offset", "size", "written"} /\ w.out = chunk
      /\ w.err \in {"none", "BufferTooSmall"}
  BY DEF NewWriter
<1> HIDE DEF w
<1>3. WriterOf(w, DOMAIN chunk)
  BY <1>1, <1>2 DEF WriterOf
<1> QED
  BY <1>3 DEF w

(***************************************************************************)
(* A writer that refuses a tensor keeps its chunk.                         *)
(***************************************************************************)
LEMMA RefuseIs ==
  ASSUME NEW w, NEW cells, WriterOf(w, cells), NEW e \in Errors
  PROVE  WriterOf(Refuse(w, e), cells)
BY DEF WriterOf, Refuse

(***************************************************************************)
(* A writer that takes a tensor keeps its chunk.                           *)
(***************************************************************************)
LEMMA PutIs ==
  ASSUME NEW w, NEW cells, WriterOf(w, cells), NEW k, NEW part
  PROVE  WriterOf(Put(w, k, part), cells)
<1> DEFINE out == Overlay(w.out, MovedTo(w.offset[k], part))
<1>1. DOMAIN out = cells
  BY DEF WriterOf, Overlay
<1> HIDE DEF out
<1>2. Put(w, k, part) = [w EXCEPT !.out = out]
  BY DEF Put, out
<1> QED
  BY <1>1, <1>2 DEF WriterOf

(***************************************************************************)
(* A write, refused or taken, keeps the writer's chunk.                    *)
(***************************************************************************)
LEMMA WriteIs ==
  ASSUME NEW w, NEW cells, WriterOf(w, cells), NEW key, NEW r, r.err \in Errors
  PROVE  WriterOf(Write(w, key, r), cells)
<1> DEFINE k == KeyPos(w, key)
           part == [i \in DOMAIN r.out |-> IF i < r.n THEN r.out[i] ELSE Zero]
<1>1. {"UnknownKey", "KeyExists", "BufferOutOfBounds"} \subseteq Errors
  BY DEF Errors
<1> HIDE DEF k
<1>2. WriterOf(Put(w, k, r.out), cells) /\ WriterOf(Put(w, k, part), cells)
  BY PutIs
<1>3. WriterOf(AfterClosure(w, k, r.out, r.n), cells)
  <2>1. WriterOf(Refuse(Put(w, k, r.out), "BufferOutOfBounds"), cells)
    BY <1>1, <1>2, RefuseIs
  <2>2. WriterOf([Put(w, k, part) EXCEPT !.written[k] = TRUE], cells)
    <3> DEFINE p == Put(w, k, part)
    <3>1. WriterOf(p, cells)
      BY <1>2
    <3> HIDE DEF p, part
    <3>2. WriterOf([p EXCEPT !.written[k] = TRUE], cells)
      BY <3>1 DEF WriterOf
    <3> QED
      BY <3>2 DEF p
  <2>3. AfterClosure(w, k, r.out, r.n) =
          IF r.n > w.size[k] THEN Refuse(Put(w, k, r.out), "BufferOutOfBounds") ELSE [Put(w, k, part) EXCEPT !.written[k] = TRUE]
    BY DEF AfterClosure
  <2> QED
    BY <2>1, <2>2, <2>3
<1>4. CASE ~HasKey(w, key)
  <2>1. Write(w, key, r) = Refuse(w, "UnknownKey")
    BY <1>4 DEF Write
  <2> QED
    BY <1>1, <2>1, RefuseIs
<1>5. CASE HasKey(w, key) /\ w.written[KeyPos(w, key)]
  <2>1. Write(w, key, r) = Refuse(w, "KeyExists")
    BY <1>5 DEF Write
  <2> QED
    BY <1>1, <2>1, RefuseIs
<1>6. CASE HasKey(w, key) /\ ~w.written[KeyPos(w, key)]
  <2>1. Write(w, key, r) = IF r.err # "none" THEN Refuse(Put(w, k, r.out), r.err) ELSE AfterClosure(w, k, r.out, r.n)
    BY <1>6 DEF Write, k
  <2>2. WriterOf(Refuse(Put(w, k, r.out), r.err), cells)
    BY <1>2, RefuseIs
  <2> QED
    BY <1>3, <2>1, <2>2
<1> QED
  BY <1>4, <1>5, <1>6

(***************************************************************************)
(* finalize keeps the writer's chunk.                                      *)
(***************************************************************************)
LEMMA FinalizeIs ==
  ASSUME NEW w, NEW cells, WriterOf(w, cells)
  PROVE  WriterOf(Finalize(w), cells)
<1>1. WriterOf(Refuse(w, "MissingKeys"), cells)
  BY RefuseIs DEF Errors
<1> QED
  BY <1>1 DEF Finalize

(***************************************************************************)
(* Writing the label keeps the writer's chunk.                             *)
(***************************************************************************)
LEMMA ThenLabelIs ==
  ASSUME NEW w, NEW cells, WriterOf(w, cells), NEW label
  PROVE  WriterOf(ThenLabel(w, label), cells)
<1> DEFINE r == PutLabel(label, KeyPart(w, "label"))
<1>1. r.err \in Errors
  BY DEF PutLabel, Errors
<1> HIDE DEF r
<1>2. WriterOf(Write(w, "label", r), cells)
  BY <1>1, WriteIs
<1> QED
  BY <1>2 DEF ThenLabel, r

(***************************************************************************)
(* write_item of an image folder never leaves the chunk its writer was     *)
(* given.                                                                  *)
(***************************************************************************)
LEMMA FolderWriteIs ==
  ASSUME NEW d, AnyDataset(d), NEW idx \in DOMAIN Samples(d.files), NEW sz \in Nat \X Nat,
         NEW w, NEW cells, WriterOf(w, cells), NEW doubles, NEW draws
  PROVE  WriterOf(FolderWrite(d, idx, sz, w, doubles, draws), cells)
<1> DEFINE r == FolderImage(d, idx, sz, KeyPart(w, "image"), doubles, draws)
<1>1. r.err \in Errors
  BY FolderImageErr
<1> HIDE DEF r
<1>2. WriterOf(Write(w, "image", r), cells)
  BY <1>1, WriteIs
<1> QED
  BY <1>2, ThenLabelIs DEF FolderWrite, r

(***************************************************************************)
(* process of a tar record never leaves the chunk its writer was given.    *)
(***************************************************************************)
LEMMA TarWriteIs ==
  ASSUME NEW d, AnyDataset(d), NEW cell, cell.img \in AnyImage, NEW ls, ImageAndLabel(ls),
         NEW w, NEW cells, WriterOf(w, cells), NEW doubles, NEW draws
  PROVE  WriterOf(TarWrite(d, cell, ls, w, doubles, draws), cells)
<1> DEFINE image == ls[1]
           sz == << image.shape[2], image.shape[3] >>
           need == TarSize(d, cell.img)
           r == TarImage(d, cell.img, sz, KeyPart(w, "image"), doubles, draws)
           wrong == \/ image.shape[1] # Channels \/ image.dt # d.dt \/ image.strides # RowMajor(image.shape)
                    \/ sz[1] < need[1] \/ sz[2] < need[2]
<1>1. r.err \in Errors
  <2>1. ls[1].shape \in Seq(Nat) /\ Len(ls[1].shape) = 3
    <3>1. 1 \in 1 .. Len(ls)
      BY DEF ImageAndLabel
    <3> QED
      BY <3>1, LayoutOf DEF ImageAndLabel
  <2>2. sz[1] \in Nat /\ sz[2] \in Nat
    BY <2>1
  <2> QED
    BY <2>2, TarImageErr
<1>2. {"Exhausted", "DecoderError", "InvalidLayout"} \subseteq Errors
  BY DEF Errors
<1>3. CASE cell.img = NoImage
  <2>1. TarWrite(d, cell, ls, w, doubles, draws) = Refuse(w, "Exhausted")
    BY <1>3 DEF TarWrite
  <2> QED
    BY <1>2, <2>1, RefuseIs
<1>4. CASE cell.img # NoImage /\ cell.img.damage = "header"
  <2>1. TarWrite(d, cell, ls, w, doubles, draws) = Refuse(w, "DecoderError")
    BY <1>4 DEF TarWrite
  <2> QED
    BY <1>2, <2>1, RefuseIs
<1>5. CASE cell.img # NoImage /\ cell.img.damage # "header"
  <2>1. TarWrite(d, cell, ls, w, doubles, draws) =
          IF wrong THEN Refuse(w, "InvalidLayout") ELSE ThenLabel(Write(w, "image", r), cell.name)
    BY <1>5 DEF TarWrite
  <2> HIDE DEF r, wrong
  <2>2. WriterOf(ThenLabel(Write(w, "image", r), cell.name), cells)
    BY <1>1, WriteIs, ThenLabelIs
  <2>3. WriterOf(Refuse(w, "InvalidLayout"), cells)
    BY <1>2, RefuseIs
  <2> QED
    BY <2>1, <2>2, <2>3
<1> QED
  BY <1>3, <1>4, <1>5

(***************************************************************************)
(* write_item of a user's dataset, whatever it writes and however often,   *)
(* never leaves the chunk its writer was given.                            *)
(***************************************************************************)
LEMMA CustomWriteIs ==
  ASSUME NEW d, AnyDataset(d), NEW idx \in DOMAIN d.scripts, NEW w, NEW cells, WriterOf(w, cells)
  PROVE  WriterOf(CustomWrite(d, idx, w), cells)
<1> DEFINE script == d.scripts[idx]
           n == Len(script)
           start == w
           Wrote(k, v) == Write(v, script[k].key, PutGiven(idx, script[k], KeyPart(v, script[k].key)))
           Round(k, v) == IF v.err # "none" THEN v
                          ELSE IF d.goesOn THEN [Wrote(k, v) EXCEPT !.err = "none"] ELSE Wrote(k, v)
           Body(f, j) == [k \in 0 .. j |-> IF k = 0 THEN start ELSE Round(k, f[k - 1])]
           g == CHOOSE f : f = Body(f, n)
<1>1. CustomWrite(d, idx, w) = g[n]
  BY DEF CustomWrite
<1>2. n \in Nat
  <2> DEFINE S == Seq([key : STRING, cells : Nat, says : Nat, err : {"none", "Custom"}])
  <2>1. d.scripts \in Seq(S)
    BY DEF AnyDataset
  <2>2. script \in S
    <3> HIDE DEF S
    <3> QED
      BY <2>1
  <2> QED
    BY <2>2
<1>3. WriterOf(start, cells)
  OBVIOUS
<1>4. ASSUME NEW k \in 1 .. n, NEW v, WriterOf(v, cells)
      PROVE  WriterOf(Round(k, v), cells)
  <2> DEFINE p == PutGiven(idx, script[k], KeyPart(v, script[k].key))
             q == Wrote(k, v)
  <2>1. p.err \in Errors
    <3>1. script[k].err \in {"none", "Custom"}
      <4> DEFINE Entry == [key : STRING, cells : Nat, says : Nat, err : {"none", "Custom"}]
      <4>1. script \in Seq(Entry)
        <5>1. d.scripts \in Seq(Seq(Entry))
          BY DEF AnyDataset
        <5> HIDE DEF Entry
        <5> QED
          BY <5>1
      <4>2. script[k] \in Entry
        <5> HIDE DEF script, Entry
        <5> QED
          BY <4>1
      <4> QED
        BY <4>2
    <3> HIDE DEF script
    <3> QED
      BY <3>1 DEF PutGiven, Errors
  <2>2. WriterOf(q, cells)
    <3> HIDE DEF p
    <3>1. WriterOf(Write(v, script[k].key, p), cells)
      BY <1>4, <2>1, WriteIs
    <3> QED
      BY <3>1 DEF p
  <2> HIDE DEF q
  <2>3. WriterOf([q EXCEPT !.err = "none"], cells)
    BY <2>2 DEF WriterOf, Errors
  <2> QED
    BY <1>4, <2>2, <2>3 DEF q
<1> HIDE DEF start, Round, n
<1>5. \E f : f = Body(f, n)
  <2> DEFINE Exists(j) == \E f : f = Body(f, j)
             T == { j \in Nat : Exists(j) }
  <2>1. Exists(0)
    <3> DEFINE f == [k \in 0 .. 0 |-> start]
    <3>1. f = Body(f, 0)
      OBVIOUS
    <3> QED
      BY <3>1
  <2>2. ASSUME NEW j \in Nat, Exists(j)
        PROVE  Exists(j + 1)
    <3>0. PICK f : f = Body(f, j)
      BY <2>2
    <3> DEFINE h == [k \in 0 .. j + 1 |-> IF k <= j THEN f[k] ELSE Round(j + 1, f[j])]
    <3>1. ASSUME NEW k \in 0 .. j + 1
          PROVE  h[k] = Body(h, j + 1)[k]
      <4>1. CASE k <= j
        <5>1. f[k] = Body(f, j)[k] /\ h[k] = f[k]
          BY <3>0, <4>1
        <5>2. k # 0 => h[k - 1] = f[k - 1]
          BY <4>1
        <5> QED
          BY <4>1, <5>1, <5>2
      <4>2. CASE k = j + 1
        BY <4>2
      <4> QED
        BY <4>1, <4>2
    <3>2. h = Body(h, j + 1)
      BY <3>1
    <3> QED
      BY <3>2
  <2>3. n \in T
    <3> HIDE DEF Exists
    <3>1. 0 \in T /\ \A j \in Nat : j \in T => j + 1 \in T
      BY <2>1, <2>2
    <3> HIDE DEF T
    <3> QED
      BY <1>2, <3>1, InductionOnSet
  <2> QED
    BY <2>3
<1>6. g = Body(g, n)
  BY <1>5
<1> HIDE DEF g
<1>7. g[0] = start /\ \A k \in 1 .. n : g[k] = Round(k, g[k - 1])
  BY <1>2, <1>6
<1> DEFINE T == { k \in Nat : k <= n => WriterOf(g[k], cells) }
<1>8. 0 \in T
  BY <1>3, <1>7
<1>9. ASSUME NEW k \in Nat, k \in T
      PROVE  k + 1 \in T
  <2> SUFFICES ASSUME k + 1 <= n
               PROVE  WriterOf(g[k + 1], cells)
    OBVIOUS
  <2>1. k + 1 \in 1 .. n /\ (k + 1) - 1 = k /\ WriterOf(g[k], cells)
    BY <1>2, <1>9
  <2> QED
    BY <1>4, <1>7, <2>1
<1>10. WriterOf(g[n], cells)
  <2>1. n \in T
    <3> HIDE DEF T
    <3> QED
      BY <1>2, <1>8, <1>9, InductionOnSet
  <2> QED
    BY <1>2, <2>1
<1> QED
  BY <1>1, <1>10

-----------------------------------------------------------------------------
(* The layouts of the items of a batch.                                    *)

\* The items of a batch, in no order.
Within(items) == { items[k] : k \in DOMAIN items }

(***************************************************************************)
(* The items of a dataset are finitely many numbers.                       *)
(***************************************************************************)
LEMMA ItemsAre ==
  ASSUME NEW d, AnyDataset(d)
  PROVE  Items(d) \subseteq Nat /\ IsFiniteSet(Items(d))
<1>1. \E n \in Nat : Items(d) = 1 .. n
  <2>1. CASE d.kind = "folder"
    <3>1. Samples(d.files) \in Seq(AnyFile)
      BY SamplesAre DEF AnyDataset
    <3>2. Items(d) = 1 .. Len(Samples(d.files)) /\ Len(Samples(d.files)) \in Nat
      BY <2>1, <3>1 DEF Items
    <3> QED
      BY <3>2
  <2>2. CASE d.kind = "tar"
    <3>1. Items(d) = 1 .. d.cap /\ d.cap \in Nat
      BY <2>2 DEF Items, AnyDataset
    <3> QED
      BY <3>1
  <2>3. CASE d.kind = "custom"
    <3> DEFINE S == Seq([key : STRING, cells : Nat, says : Nat, err : {"none", "Custom"}])
    <3>1. d.scripts \in Seq(S) /\ Items(d) = DOMAIN d.scripts
      BY <2>3 DEF Items, AnyDataset
    <3>2. DOMAIN d.scripts = 1 .. Len(d.scripts) /\ Len(d.scripts) \in Nat
      <4> HIDE DEF S
      <4> QED
        BY <3>1
    <3> QED
      BY <3>1, <3>2
  <2> QED
    BY <2>1, <2>2, <2>3 DEF AnyDataset
<1>2. PICK n \in Nat : Items(d) = 1 .. n
  BY <1>1
<1> QED
  BY <1>2, FS_Interval

(***************************************************************************)
(* The items that are probed, in some order, are those items.              *)
(***************************************************************************)
LEMMA ProbesAre ==
  ASSUME NEW d, AnyDataset(d), NEW p \in SUBSET Items(d), Cardinality(p) > 0
  PROVE  /\ SetToSeq(p) \in Seq(Nat) /\ SetToSeq(p) # << >>
         /\ Within(SetToSeq(p)) = p /\ p # {}
<1> DEFINE n == Cardinality(p)
           f == SetToSeq(p)
<1>1. IsFiniteSet(p) /\ p \subseteq Nat
  BY ItemsAre, FS_Subset
<1>2. n \in Nat /\ ExistsBijection(1 .. n, p)
  BY <1>1, FS_CardinalityType
<1>3. \E g \in [1 .. n -> p] : IsInjective(g)
  BY <1>2 DEF ExistsBijection, Bijection, Injection
<1>4. f \in [1 .. n -> p] /\ IsInjective(f)
  BY <1>3 DEF SetToSeq
<1> HIDE DEF f
<1>5. f \in Injection(1 .. n, p)
  BY <1>4 DEF Injection
<1>6. Cardinality(1 .. n) = n
  <2>1. Cardinality(1 .. n) = IF 1 > n THEN 0 ELSE n - 1 + 1
    BY <1>2, FS_Interval
  <2> HIDE DEF n
  <2> QED
    BY <1>2, <2>1
<1>7. f \in Surjection(1 .. n, p)
  BY <1>1, <1>5, <1>6, FS_Injection
<1>8. Within(f) = p
  BY <1>4, <1>7 DEF Surjection, Within
<1>9. n > 0
  OBVIOUS
<1>10. p # {}
  BY <1>9, FS_EmptySet
<1> HIDE DEF n
<1>11. f \in [1 .. n -> Nat]
  BY <1>1, <1>4
<1>12. f \in Seq(Nat) /\ Len(f) = n
  BY <1>2, <1>11, SequenceOf
<1>13. f # << >>
  BY <1>9, <1>12
<1> QED
  BY <1>8, <1>10, <1>12, <1>13 DEF f

(***************************************************************************)
(* The size that the images of a batch are brought to is a size.           *)
(***************************************************************************)
LEMMA FolderSizeTyped ==
  ASSUME NEW d, AnyDataset(d), d.kind = "folder", NEW items \in SUBSET Items(d), items # {}
  PROVE  FolderSize(d, items) \in Nat \X Nat
<1>1. Samples(d.files) \in Seq(AnyFile)
  BY SamplesAre DEF AnyDataset
<1>2. items \in SUBSET (DOMAIN Samples(d.files))
  BY DEF Items
<1>3. LargestSize(Samples(d.files), items) \in Nat \X Nat
  BY <1>1, <1>2, LargestSizeIs
<1>4. MaxIntermediateSize(d.pipe) \in Nat \X Nat
  BY PipelineSizes DEF AnyDataset
<1> QED
  BY <1>3, <1>4 DEF FolderSize

(***************************************************************************)
(* No batch of a folder is brought to a larger size than all of its images *)
(* together.                                                               *)
(***************************************************************************)
LEMMA FolderSizeGrows ==
  ASSUME NEW d, AnyDataset(d), d.kind = "folder", NEW items \in SUBSET Items(d), items # {}
  PROVE  /\ FolderSize(d, Items(d)) \in Nat \X Nat
         /\ FolderSize(d, items)[1] <= FolderSize(d, Items(d))[1]
         /\ FolderSize(d, items)[2] <= FolderSize(d, Items(d))[2]
<1> DEFINE files == Samples(d.files)
           all == DOMAIN files
<1>1. files \in Seq(AnyFile)
  BY SamplesAre DEF AnyDataset
<1>2. items \in SUBSET all /\ Items(d) = all
  BY DEF Items
<1>3. FolderSize(d, Items(d)) \in Nat \X Nat /\ FolderSize(d, items) \in Nat \X Nat
  BY FolderSizeTyped
<1>4. CASE d.augmented /\ MaxIntermediateSize(d.pipe) # NoSize
  <2>1. FolderSize(d, Items(d)) = FolderSize(d, items)
    BY <1>4 DEF FolderSize
  <2> QED
    BY <1>3, <2>1
<1>5. CASE ~(d.augmented /\ MaxIntermediateSize(d.pipe) # NoSize)
  <2>1. FolderSize(d, Items(d)) = LargestSize(files, all) /\ FolderSize(d, items) = LargestSize(files, items)
    BY <1>2, <1>5 DEF FolderSize
  <2> HIDE DEF files
  <2>2. /\ \E i \in items : LargestSize(files, items)[1] = files[i].img.h
        /\ \E i \in items : LargestSize(files, items)[2] = files[i].img.w
    BY <1>1, <1>2, LargestSizeIs
  <2>3. \A i \in all : files[i].img.h <= LargestSize(files, all)[1] /\ files[i].img.w <= LargestSize(files, all)[2]
    <3>1. all \in SUBSET (DOMAIN files) /\ all # {}
      BY <1>2
    <3> QED
      BY <1>1, <3>1, LargestSizeIs
  <2> QED
    BY <1>2, <1>3, <2>1, <2>2, <2>3
<1> QED
  BY <1>4, <1>5

(***************************************************************************)
(* What dynamic_layouts, or static_layouts, makes of items are layouts,    *)
(* and a processor's are an image's and a label's.                         *)
(***************************************************************************)
LEMMA LayoutsOfTyped ==
  ASSUME AnyDataset(data), GoodBuffer(data, buffer), NEW items \in Seq(Nat), items # << >>,
         \A k \in DOMAIN items : items[k] \in Items(data)
  PROVE  /\ LayoutsOf(items) \in Seq(AnyLayout)
         /\ data.kind # "custom" => LayoutsOf(items) = << >> \/ ImageAndLabel(LayoutsOf(items))
         /\ data.kind = "folder" => NewSize(items) \in Nat \X Nat
<1>1. Within(items) \in SUBSET Items(data) /\ Within(items) # {}
  BY DEF Within
<1>2. CASE data.kind = "folder"
  <2> DEFINE sz == FolderSize(data, Within(items))
  <2>1. sz \in Nat \X Nat
    BY <1>1, <1>2, FolderSizeTyped
  <2>2. LayoutsOf(items) = FolderLayouts(data, sz) /\ NewSize(items) = sz
    BY <1>2 DEF LayoutsOf, NewSize, Within
  <2> HIDE DEF sz
  <2>3. sz[1] \in Nat /\ sz[2] \in Nat
    BY <2>1
  <2>4. ImageAndLabel(FolderLayouts(data, sz))
    BY <2>3, ImageAndLabelTyped DEF FolderLayouts, AnyDataset
  <2> QED
    BY <1>2, <2>1, <2>2, <2>4 DEF ImageAndLabel
<1>3. CASE data.kind = "tar"
  <2>1. \A k \in DOMAIN items : buffer.cells[items[k]].layout \in MaybeLayouts
    <3>1. \A k \in DOMAIN items : items[k] \in 1 .. data.cap
      BY <1>3 DEF Items
    <3>2. \A i \in 1 .. data.cap : GoodCell(buffer.cells[i])
      BY DEF GoodBuffer
    <3>3. ASSUME NEW c, GoodCell(c)
          PROVE  c.layout \in MaybeLayouts
      <4> DEFINE ls == c.layout
      <4>1. ls = << >> \/ ImageAndLabel(ls)
        BY <3>3 DEF GoodCell
      <4> HIDE DEF ls
      <4>2. << >> \in Seq(AnyLayout)
        OBVIOUS
      <4>3. ls \in Seq(AnyLayout)
        BY <4>1, <4>2 DEF ImageAndLabel
      <4> QED
        BY <4>1, <4>3 DEF MaybeLayouts, ls
    <3> QED
      BY <3>1, <3>2, <3>3
  <2>2. TarLayouts(buffer, items) \in MaybeLayouts
    BY <2>1, TarLayoutsTyped
  <2>3. LayoutsOf(items) = TarLayouts(buffer, items)
    BY <1>3 DEF LayoutsOf
  <2> QED
    BY <1>3, <2>2, <2>3 DEF MaybeLayouts, ImageAndLabel
<1>4. CASE data.kind = "custom"
  BY <1>4 DEF LayoutsOf, AnyDataset
<1> QED
  BY <1>2, <1>3, <1>4 DEF AnyDataset

-----------------------------------------------------------------------------
(* One item.                                                               *)

(***************************************************************************)
(* A batch of no layouts needs no room.                                    *)
(***************************************************************************)
LEMMA NoLayouts ==
  ItemSize(<< >>) = 0 /\ HeaderSize(<< >>) = 0
<1> DEFINE none == << >>
           f == Map(AlignedBytes, none)
<1>1. f \in Seq(Nat) /\ Len(f) = 0
  BY DEF Map
<1>2. ItemSize(none) = Total(f) /\ HeaderSize(none) = Total(Blocks(none))
  <2>1. HeaderSize(none) = Total(Blocks(none))
    <3>1. none \in Seq(AnyLayout)
      OBVIOUS
    <3> QED
      BY <3>1, BlocksAre
  <2> QED
    BY <2>1 DEF ItemSize
<1>3. Blocks(none) \in Seq(Nat) /\ Len(Blocks(none)) = 0
  BY DEF Blocks
<1>4. \A s \in Seq(Nat) : Len(s) = 0 => Total(s) = 0
  BY SumsAre
<1> HIDE DEF f
<1> QED
  BY <1>1, <1>2, <1>3, <1>4

\* What a state says in which an item is to be written.
Writable(k) ==
  /\ AnyDataset(data) /\ GoodBuffer(data, buffer)
  /\ k \in DOMAIN batch /\ batch[k] \in Items(data)
  /\ layouts \in Seq(AnyLayout) /\ (data.kind # "custom" => ImageAndLabel(layouts))
  /\ size \in Nat \X Nat
  /\ scratch \in [Threads -> Nat]

(***************************************************************************)
(* An item that is still to be written is one of the dataset's, and has    *)
(* layouts.                                                                *)
(***************************************************************************)
LEMMA WritableIs ==
  ASSUME BatchInv, NEW k \in toWrite
  PROVE  Writable(k)
<1>1. AnyDataset(data)
  BY BatchAssumption DEF BatchInv, ChosenInv
<1>2. layouts # << >>
  <2>1. DataSize > 0 /\ batch \in Seq(Nat)
    BY DEF BatchInv, ChosenInv
  <2> SUFFICES ASSUME layouts = << >>
               PROVE  FALSE
    OBVIOUS
  <2>2. DataSize = 0 * Len(batch) /\ Len(batch) \in Nat
    BY <2>1, NoLayouts DEF DataSize
  <2> QED
    BY <2>1, <2>2
<1>3. k \in DOMAIN batch
  BY DEF BatchInv, BatchTypeOK
<1>4. GoodBuffer(data, buffer)
  BY DEF BatchInv, CellInv
<1>5. scratch \in [Threads -> Nat]
  BY DEF BatchInv, BatchTypeOK
<1> QED
  BY <1>1, <1>2, <1>3, <1>4, <1>5 DEF BatchInv, ChosenInv, Writable

(***************************************************************************)
(* There is an image behind every item that is to be written.              *)
(***************************************************************************)
LEMMA ImageOfTyped ==
  ASSUME NEW k, Writable(k), data.kind # "custom"
  PROVE  ImageOf(batch[k]) \in AnyImage
<1>1. CASE data.kind = "folder"
  <2>1. Samples(data.files) \in Seq(AnyFile) /\ batch[k] \in DOMAIN Samples(data.files)
    BY <1>1, SamplesAre DEF Writable, AnyDataset, Items
  <2>2. Samples(data.files)[batch[k]] \in AnyFile
    BY <2>1
  <2> QED
    BY <1>1, <2>2 DEF ImageOf, AnyFile
<1>2. CASE data.kind = "tar"
  <2>1. batch[k] \in 1 .. data.cap
    BY <1>2 DEF Writable, Items
  <2>2. GoodCell(buffer.cells[batch[k]])
    BY <2>1 DEF Writable, GoodBuffer
  <2> QED
    BY <1>2, <2>2 DEF ImageOf, GoodCell
<1> QED
  BY <1>1, <1>2 DEF Writable, AnyDataset

(***************************************************************************)
(* Whatever the kind of the dataset, an item is written in the writer's    *)
(* own chunk.                                                              *)
(***************************************************************************)
LEMMA ItemWrittenIs ==
  ASSUME NEW k, Writable(k), NEW t, NEW draws, NEW w, NEW cells, WriterOf(w, cells)
  PROVE  WriterOf(ItemWritten(batch[k], t, draws, w), cells)
<1>1. CASE data.kind = "folder"
  <2>1. batch[k] \in DOMAIN Samples(data.files)
    BY <1>1 DEF Writable, Items
  <2>2. WriterOf(FolderWrite(data, batch[k], size, w, scratch[t], draws), cells)
    BY <2>1, FolderWriteIs DEF Writable
  <2> QED
    BY <1>1, <2>2 DEF ItemWritten
<1>2. CASE data.kind = "tar"
  <2>1. buffer.cells[batch[k]].img \in AnyImage
    BY <1>2, ImageOfTyped DEF ImageOf
  <2>2. WriterOf(TarWrite(data, buffer.cells[batch[k]], layouts, w, scratch[t], draws), cells)
    BY <1>2, <2>1, TarWriteIs DEF Writable
  <2> QED
    BY <1>2, <2>2 DEF ItemWritten
<1>3. CASE data.kind = "custom"
  <2>1. batch[k] \in DOMAIN data.scripts
    BY <1>3 DEF Writable, Items
  <2>2. WriterOf(CustomWrite(data, batch[k], w), cells)
    BY <2>1, CustomWriteIs DEF Writable
  <2> QED
    BY <1>3, <2>2 DEF ItemWritten
<1> QED
  BY <1>1, <1>2, <1>3 DEF Writable, AnyDataset

(***************************************************************************)
(* An item ends with its chunk and a known error or none, and leaves a     *)
(* good buffer.                                                            *)
(***************************************************************************)
LEMMA ItemResultIs ==
  ASSUME NEW k, Writable(k), NEW w, NEW cells, WriterOf(w, cells), NEW draws
  PROVE  LET item == ItemResult(w, batch[k], draws)
         IN  DOMAIN item.out = cells /\ item.err \in Errors /\ GoodBuffer(data, item.buffer)
<1> DEFINE refill == IF data.kind = "tar" /\ w.err = "none" THEN Refill(data, buffer, batch[k]) ELSE buffer
           left == [refill EXCEPT !.err = "none"]
           ended == Ended(w, refill)
<1>1. GoodBuffer(data, refill)
  <2>1. data.kind = "tar" => GoodBuffer(data, Refill(data, buffer, batch[k]))
    BY RefillGood DEF Writable, Items
  <2> QED
    BY <2>1 DEF Writable
<1> HIDE DEF refill
<1>2. GoodBuffer(data, left)
  <2>1. DOMAIN refill = {"cells", "reader", "exhausted", "err"}
    BY <1>1 DEF GoodBuffer
  <2>2. DOMAIN left = {"cells", "reader", "exhausted", "err"} /\ left.cells = refill.cells /\ left.reader = refill.reader /\ left.err = "none"
    BY <2>1
  <2> HIDE DEF left
  <2>3. left.reader.offset \in 0 .. Len(data.archive) /\ left.err \in Errors
    BY <1>1, <2>2 DEF GoodBuffer, Errors
  <2> QED
    BY <1>1, <2>2, <2>3, ReaderSet
<1>3. ended.err \in Errors
  <2>1. refill.err \in Errors
    BY <1>1 DEF GoodBuffer
  <2>2. WriterOf(Refuse(w, refill.err), cells) /\ WriterOf(Finalize(w), cells)
    BY <2>1, RefuseIs, FinalizeIs
  <2>3. WriterOf(ended, cells)
    BY <2>2 DEF Ended
  <2> QED
    BY <2>3 DEF WriterOf
<1>4. ItemResult(w, batch[k], draws) = [out |-> w.out, draws |-> draws, buffer |-> left, err |-> ended.err]
  BY DEF ItemResult, refill
<1> HIDE DEF left, ended
<1> QED
  BY <1>2, <1>3, <1>4 DEF WriterOf

(***************************************************************************)
(* A writer is opened over the chunk of the item, and keeps it.            *)
(***************************************************************************)
LEMMA OpenedIs ==
  ASSUME NEW k, Writable(k), NEW t, NEW draws
  PROVE  WriterOf(IfOpened(NewWriter(layouts, Chunk(k)), batch[k], t, draws), 0 .. ItemSize(layouts) - 1)
<1> DEFINE cells == 0 .. ItemSize(layouts) - 1
           w == NewWriter(layouts, Chunk(k))
<1>1. WriterOf(w, cells)
  <2>1. DOMAIN Chunk(k) = cells
    BY DEF Chunk
  <2> QED
    BY <2>1, NewWriterIs
<1> HIDE DEF w, cells
<1>2. WriterOf(ItemWritten(batch[k], t, draws, w), cells)
  BY <1>1, ItemWrittenIs
<1>3. WriterOf(IfOpened(w, batch[k], t, draws), cells)
  BY <1>1, <1>2 DEF IfOpened
<1> QED
  BY <1>3 DEF w, cells

(***************************************************************************)
(* So does every outcome of an item, its thread dying included.            *)
(***************************************************************************)
LEMMA ItemResultsAre ==
  ASSUME NEW k, Writable(k), NEW t, NEW item \in ItemResults(k, t)
  PROVE  DOMAIN item.out = 0 .. ItemSize(layouts) - 1 /\ item.err \in Errors /\ GoodBuffer(data, item.buffer)
<1> DEFINE cells == 0 .. ItemSize(layouts) - 1
           w == NewWriter(layouts, Chunk(k))
<1>1. PICK draws : item = ItemResult(IfOpened(w, batch[k], t, draws), batch[k], draws)
  BY DEF ItemResults
<1>2. WriterOf(IfOpened(w, batch[k], t, draws), cells)
  BY OpenedIs
<1> HIDE DEF w, cells
<1> QED
  BY <1>1, <1>2, ItemResultIs DEF cells

-----------------------------------------------------------------------------
(* The scratch of a thread.                                                *)

(***************************************************************************)
(* The scratch that a thread keeps has a size.                             *)
(***************************************************************************)
LEMMA ScratchLeftTyped ==
  ASSUME NEW d, AnyDataset(d), NEW img \in AnyImage, NEW h \in Nat, NEW w \in Nat, NEW n \in Nat
  PROVE  ScratchLeft(d, img, h, w, n) \in Nat
<1> DEFINE a == Elements(img.h, img.w)
           b == LongestImage(d, img, h, w)
           inter == MaxIntermediateSize(d.pipe)
<1>1. img.h \in Nat /\ img.w \in Nat
  BY DEF AnyImage
<1>2. \A x \in Nat, y \in Nat : Elements(x, y) \in Nat
  BY DEF Elements, Channels
<1>3. inter[1] \in Nat /\ inter[2] \in Nat
  BY PipelineSizes DEF AnyDataset
<1>4. a \in Nat
  BY <1>1, <1>2
<1>5. b \in Nat
  <2> DEFINE x == Elements(h, w)
             y == Elements(inter[1], inter[2])
             m == Largest({ x, y, a })
  <2>1. x \in Nat /\ y \in Nat
    BY <1>2, <1>3
  <2>2. b = m
    BY DEF LongestImage
  <2> HIDE DEF x, y, a
  <2>3. \E i \in {x, y, a} : \A j \in {x, y, a} : j <= i
    BY <1>4, <2>1
  <2>4. m \in {x, y, a}
    BY <2>3 DEF Largest
  <2> QED
    BY <1>4, <2>1, <2>2, <2>4
<1> HIDE DEF a, b
<1>6. \A m \in Nat : Cardinality(DOMAIN Fresh(m)) \in Nat
  <2> TAKE m \in Nat
  <2>1. DOMAIN Fresh(m) = 0 .. m - 1 /\ 0 \in Int /\ m - 1 \in Int
    BY DEF Fresh
  <2>2. IsFiniteSet(0 .. m - 1)
    BY <2>1, FS_Interval
  <2> QED
    BY <2>1, <2>2, FS_CardinalityType
<1>7. ScratchAfter(d.pipe, n, Fresh(a), Fresh(b)) \in Nat
  <2>1. Cardinality(DOMAIN Fresh(a)) \in Nat /\ Cardinality(DOMAIN Fresh(b)) \in Nat
    BY <1>4, <1>5, <1>6
  <2> QED
    BY <2>1 DEF ScratchAfter, Larger
<1>8. ScratchLeft(d, img, h, w, n) = IF ~d.augmented THEN n ELSE ScratchAfter(d.pipe, n, Fresh(a), Fresh(b))
  BY DEF ScratchLeft, a, b
<1> QED
  BY <1>7, <1>8

(***************************************************************************)
(* The scratch that a thread keeps after an item has a size.               *)
(***************************************************************************)
LEMMA ScratchOfTyped ==
  ASSUME NEW k, Writable(k), NEW t \in Threads
  PROVE  ScratchOf(batch[k], t) \in Nat
<1>1. scratch[t] \in Nat /\ size[1] \in Nat /\ size[2] \in Nat /\ AnyDataset(data)
  BY DEF Writable
<1>2. CASE data.kind = "folder"
  <2>1. ScratchLeft(data, ImageOf(batch[k]), size[1], size[2], scratch[t]) \in Nat
    BY <1>1, <1>2, ImageOfTyped, ScratchLeftTyped
  <2> QED
    BY <1>2, <2>1 DEF ScratchOf
<1>3. CASE data.kind = "tar"
  <2> DEFINE sh == layouts[1].shape
  <2>1. sh \in Seq(Nat) /\ Len(sh) = 3
    <3>1. layouts \in Seq(AnyLayout) /\ 1 \in 1 .. Len(layouts) /\ Len(sh) = 3
      <4>1. ImageAndLabel(layouts)
        BY <1>3 DEF Writable
      <4> QED
        BY <4>1 DEF ImageAndLabel
    <3> QED
      BY <3>1, LayoutOf
  <2>2. sh[2] \in Nat /\ sh[3] \in Nat
    BY <2>1
  <2>3. ScratchLeft(data, ImageOf(batch[k]), sh[2], sh[3], scratch[t]) \in Nat
    BY <1>1, <1>3, <2>2, ImageOfTyped, ScratchLeftTyped
  <2> QED
    BY <1>3, <2>3 DEF ScratchOf
<1>4. CASE data.kind = "custom"
  BY <1>1, <1>4 DEF ScratchOf
<1> QED
  BY <1>1, <1>2, <1>3, <1>4 DEF AnyDataset

-----------------------------------------------------------------------------
(* The inductive invariant, action by action.                              *)

(***************************************************************************)
(* A cell without layouts holds no image.                                  *)
(***************************************************************************)
LEMMA CellsHold ==
  ASSUME NEW b, GoodBuffer(data, b)
  PROVE  \A i \in DOMAIN b.cells : b.cells[i].layout = << >> => b.cells[i].img = NoImage
<1>1. ~ImageAndLabel(<< >>)
  BY DEF ImageAndLabel
<1>2. DOMAIN b.cells = 1 .. data.cap /\ \A i \in 1 .. data.cap : GoodCell(b.cells[i])
  BY DEF GoodBuffer
<1>3. ASSUME NEW c, GoodCell(c), c.layout = << >>
      PROVE  c.img = NoImage
  BY <1>1, <1>3 DEF GoodCell
<1> QED
  BY <1>2, <1>3

(***************************************************************************)
(* A step that leaves the batch and its source alone leaves ChosenInv, if  *)
(* it only takes items off the list of those to write.                     *)
(***************************************************************************)
LEMMA SourceStays ==
  ASSUME BatchInv, UNCHANGED sourceVars, toWrite' \subseteq toWrite,
         toWrite' # {} => state' \in {"writing", "failed", "panicked"},
         state' \in {"prepare", "writing"} => streamed' < MaxBatches
  PROVE  ChosenInv'
<1>1. DataSize' = DataSize
  BY DEF DataSize, sourceVars
<1> QED
  BY <1>1 DEF BatchInv, ChosenInv, sourceVars

(***************************************************************************)
(* A step that leaves the batch and its source alone leaves SizedInv.      *)
(***************************************************************************)
LEMMA SizedStays ==
  ASSUME BatchInv, UNCHANGED sourceVars, state' # "new", state' \in Live => state \in Live
  PROVE  SizedInv'
BY DEF BatchInv, SizedInv, sourceVars

(***************************************************************************)
(* A step that leaves the buffer alone leaves CellInv.                     *)
(***************************************************************************)
LEMMA CellsStay ==
  ASSUME BatchInv, data' = data, buffer' = buffer
  PROVE  CellInv'
BY DEF BatchInv, CellInv

(***************************************************************************)
(* BatchInv after a step that leaves the source of the batch alone, from   *)
(* what the step does to the rest.                                         *)
(***************************************************************************)
LEMMA InvariantFrom ==
  ASSUME BatchInv, UNCHANGED sourceVars, ChosenInv', toWrite' \subseteq DOMAIN batch,
         state' \in Live => state \in Live,
         CellInv',
         state' \in States, error' \in Errors, error' # "none" <=> state' \in {"failed", "panicked"},
         state' # "new", DOMAIN memory' = 0 .. slotSize * NSlots - 1,
         slot' \in Slots, scratch' \in [Threads -> Nat], streamed' \in 0 .. MaxBatches
  PROVE  BatchInv'
<1>1. SizedInv'
  BY SizedStays
<1>2. (\A i \in DOMAIN buffer.cells : buffer.cells[i].layout = << >> => buffer.cells[i].img = NoImage)'
  <2>1. GoodBuffer(data, buffer')
    BY DEF CellInv, sourceVars
  <2> QED
    BY <2>1, CellsHold
<1>3. toWrite' \subseteq DOMAIN batch'
  BY DEF BatchInv, BatchTypeOK, sourceVars
<1>4. state' # "new" => DOMAIN memory' = 0 .. slotSize' * NSlots - 1
  BY DEF BatchInv, BatchTypeOK, sourceVars
<1>5. BatchTypeOK'
  BY <1>2, <1>3, <1>4 DEF BatchTypeOK
<1> QED
  BY <1>1, <1>5 DEF BatchInv

(***************************************************************************)
(* The same where the step leaves the chosen batch alone as well.          *)
(***************************************************************************)
LEMMA InvariantStays ==
  ASSUME BatchInv, UNCHANGED sourceVars, toWrite' \subseteq toWrite,
         toWrite' # {} => state' \in {"writing", "failed", "panicked"},
         state' \in {"prepare", "writing"} => streamed' < MaxBatches,
         state' \in Live => state \in Live,
         CellInv',
         state' \in States, error' \in Errors, error' # "none" <=> state' \in {"failed", "panicked"},
         state' # "new", DOMAIN memory' = 0 .. slotSize * NSlots - 1,
         slot' \in Slots, scratch' \in [Threads -> Nat], streamed' \in 0 .. MaxBatches
  PROVE  BatchInv'
<1>1. ChosenInv'
  BY SourceStays
<1>2. toWrite' \subseteq DOMAIN batch
  BY DEF BatchInv, BatchTypeOK
<1> QED
  BY <1>1, <1>2, InvariantFrom

(***************************************************************************)
(* BatchInv holds before the builder is called.                            *)
(***************************************************************************)
LEMMA InitGives ==
  ASSUME BatchInit
  PROVE  BatchInv
<1>1. AnyDataset(data)
  BY BatchAssumption DEF BatchInit
<1>2. GoodBuffer(data, buffer)
  BY <1>1, NewBufferGood DEF BatchInit
<1>3. BatchTypeOK
  <2>1. \A i \in DOMAIN buffer.cells : buffer.cells[i].layout = << >> => buffer.cells[i].img = NoImage
    BY <1>2, CellsHold
  <2>2. 0 \in Slots /\ 0 \in 0 .. MaxBatches
    BY LayoutAssumption, BatchAssumption DEF Slots
  <2>3. scratch \in [Threads -> Nat]
    BY DEF BatchInit
  <2> QED
    BY <2>1, <2>2, <2>3 DEF BatchInit, BatchTypeOK, States, Errors
<1>4. ChosenInv
  <2>1. << >> \in Seq(Nat) /\ << >> \in Seq(AnyLayout) /\ << 0, 0 >> \in Nat \X Nat
    OBVIOUS
  <2> QED
    BY <2>1 DEF BatchInit, ChosenInv, NoSize
<1>5. SizedInv
  BY DEF BatchInit, SizedInv, Live
<1> QED
  BY <1>2, <1>3, <1>4, <1>5 DEF BatchInv, CellInv

(***************************************************************************)
(* The memory has the slots' cells and no more.                            *)
(***************************************************************************)
LEMMA MemoryHas ==
  ASSUME BatchInv
  PROVE  DOMAIN memory = 0 .. slotSize * NSlots - 1
<1>1. CASE state = "new"
  <2>1. slotSize = 0 /\ DOMAIN memory = {}
    BY <1>1 DEF BatchInv, SizedInv
  <2>2. 0 .. 0 * NSlots - 1 = {}
    BY LayoutAssumption
  <2> QED
    BY <2>1, <2>2
<1> QED
  BY <1>1 DEF BatchInv, BatchTypeOK

(***************************************************************************)
(* What BatchInv says that most actions need.                              *)
(***************************************************************************)
LEMMA InvariantSays ==
  ASSUME BatchInv
  PROVE  /\ AnyDataset(data) /\ GoodBuffer(data, buffer)
         /\ state \in States /\ error \in Errors /\ (error # "none" <=> state \in {"failed", "panicked"})
         /\ slot \in Slots /\ toWrite \subseteq DOMAIN batch /\ scratch \in [Threads -> Nat] /\ streamed \in 0 .. MaxBatches
         /\ toWrite # {} => state \in {"writing", "failed", "panicked"}
         /\ state \in {"prepare", "writing"} => streamed < MaxBatches
         /\ state \in Live => slotSize > 0
BY BatchAssumption DEF BatchInv, BatchTypeOK, ChosenInv, CellInv, SizedInv

(***************************************************************************)
(* A dataset that cannot be opened or probed.                              *)
(***************************************************************************)
LEMMA UnusableKeeps ==
  ASSUME BatchInv, Unusable
  PROVE  BatchInv'
<1>1. Unopened \in Errors
  BY DEF Unopened, OpenError, Errors
<1>2. state' = "failed" /\ error' = Unopened /\ Unopened # "none"
  BY DEF Unusable, End
<1>3. /\ UNCHANGED sourceVars /\ data' = data /\ memory' = memory /\ toWrite' = toWrite /\ buffer' = buffer /\ slot' = slot
      /\ scratch' = scratch /\ streamed' = streamed
  BY DEF Unusable, sourceVars
<1>4. CellInv'
  BY <1>3, CellsStay
<1> QED
  BY <1>1, <1>2, <1>3, <1>4, InvariantSays, MemoryHas, InvariantStays DEF States, Live

(***************************************************************************)
(* The first epoch of a dataset, for a TarDataset the priming of its       *)
(* buffer.                                                                 *)
(***************************************************************************)
LEMMA FirstEpochKeeps ==
  ASSUME BatchInv, FirstEpoch
  PROVE  BatchInv'
<1>1. /\ UNCHANGED sourceVars /\ data' = data /\ memory' = memory /\ toWrite' = toWrite /\ slot' = slot
      /\ scratch' = scratch /\ streamed' = streamed /\ state = "built" /\ toWrite = {}
  BY InvariantSays DEF FirstEpoch, sourceVars
<1>2. GoodBuffer(data, Primed(data))
  BY PrimedGood, InvariantSays
<1>3. CellInv'
  BY <1>1, <1>2, InvariantSays DEF FirstEpoch, CellInv
<1>4. \/ state' = "idle" /\ error' = "none"
      \/ state' = "failed" /\ error' # "none" /\ error' \in Errors
  BY <1>2 DEF FirstEpoch, End, GoodBuffer
<1>5. "none" \in Errors
  BY DEF Errors
<1> QED
  BY <1>1, <1>3, <1>4, <1>5, InvariantSays, MemoryHas, InvariantStays DEF States, Live

(***************************************************************************)
(* Ctrl-C between batches.                                                 *)
(***************************************************************************)
LEMMA CtrlCKeeps ==
  ASSUME BatchInv, CtrlC
  PROVE  BatchInv'
<1>1. /\ UNCHANGED sourceVars /\ data' = data /\ memory' = memory /\ toWrite' = toWrite /\ slot' = slot /\ buffer' = buffer
      /\ scratch' = scratch /\ streamed' = streamed /\ state' = state /\ error' = error /\ state = "writing"
  BY DEF CtrlC, sourceVars
<1>2. CellInv'
  BY <1>1, CellsStay
<1> QED
  BY <1>1, <1>2, InvariantSays, MemoryHas, InvariantStays

(***************************************************************************)
(* set_slot_ready.                                                         *)
(***************************************************************************)
LEMMA PublishKeeps ==
  ASSUME BatchInv, Publish
  PROVE  BatchInv'
<1>1. /\ UNCHANGED sourceVars /\ data' = data /\ toWrite' = {} /\ toWrite = {} /\ buffer' = buffer
      /\ scratch' = scratch /\ state' = "idle" /\ error' = "none" /\ state = "writing"
  BY DEF Publish, sourceVars, End
<1>2. CellInv'
  BY <1>1, CellsStay
<1>3. DOMAIN memory' = DOMAIN memory
  BY DEF Publish, SetSlotReady
<1>4. slot' \in Slots
  <2>1. slot \in Nat /\ NSlots \in Nat \ {0}
    BY InvariantSays, LayoutAssumption DEF Slots
  <2> QED
    BY <2>1 DEF Publish, Slots
<1>5. streamed' \in 0 .. MaxBatches
  <2>1. streamed < MaxBatches /\ streamed \in 0 .. MaxBatches /\ MaxBatches \in Nat
    BY <1>1, InvariantSays, BatchAssumption
  <2> QED
    BY <2>1 DEF Publish
<1>6. "none" \in Errors
  BY DEF Errors
<1> QED
  BY <1>1, <1>2, <1>3, <1>4, <1>5, <1>6, InvariantSays, MemoryHas, InvariantStays DEF States, Live

(***************************************************************************)
(* Ctrl-C before an item, and after the last of them.                      *)
(***************************************************************************)
LEMMA InterruptedKeeps ==
  ASSUME BatchInv, InterruptedLate \/ \E k \in toWrite : Interrupted(k)
  PROVE  BatchInv'
<1>1. /\ UNCHANGED sourceVars /\ data' = data /\ memory' = memory /\ slot' = slot /\ buffer' = buffer
      /\ scratch' = scratch /\ streamed' = streamed /\ state' = "failed" /\ error' = "Interrupted"
  BY DEF InterruptedLate, Interrupted, sourceVars, End
<1>2. toWrite' \subseteq toWrite
  BY DEF InterruptedLate, Interrupted
<1>3. CellInv'
  BY <1>1, CellsStay
<1>4. "Interrupted" \in Errors /\ "Interrupted" # "none"
  BY DEF Errors
<1> QED
  BY <1>1, <1>2, <1>3, <1>4, InvariantSays, MemoryHas, InvariantStays DEF States, Live

-----------------------------------------------------------------------------
(* Preparing a batch and writing its items.                                *)

(***************************************************************************)
(* Where the headers and the chunks of a batch are.                        *)
(***************************************************************************)
LEMMA PlacesAre ==
  ASSUME BatchInv
  PROVE  /\ SlotOffset(slot, slotSize) \in Nat /\ slot \in Nat /\ slotSize \in Nat
         /\ BatchHeaders \in Seq(AnyLayout) /\ HeaderSize(BatchHeaders) \in Nat
         /\ ItemSize(layouts) \in Nat /\ Len(batch) \in Nat /\ DataSize \in Nat /\ DataAt \in Nat
<1>1. slot \in Nat /\ slotSize \in Nat
  BY InvariantSays DEF Slots, BatchInv, ChosenInv
<1>2. SlotOffset(slot, slotSize) \in Nat
  BY <1>1 DEF SlotOffset
<1>3. layouts \in Seq(AnyLayout) /\ Len(batch) \in Nat
  BY DEF BatchInv, ChosenInv
<1>4. BatchHeaders \in Seq(AnyLayout)
  BY <1>3, WithBatchIs DEF BatchHeaders
<1>5. HeaderSize(BatchHeaders) \in Nat
  BY <1>4, BlocksAre
<1>6. ItemSize(layouts) \in Nat
  BY <1>3, ItemSizeTyped
<1>7. DataSize \in Nat
  <2> DEFINE a == ItemSize(layouts)
             n == Len(batch)
  <2>1. a \in Nat /\ n \in Nat
    BY <1>3, <1>6
  <2> HIDE DEF a, n
  <2>2. a * n \in Nat
    BY <2>1
  <2> QED
    BY <2>2 DEF DataSize, a, n
<1>8. DataAt \in Nat
  BY <1>2, <1>5 DEF DataAt
<1> QED
  BY <1>1, <1>2, <1>3, <1>4, <1>5, <1>6, <1>7, <1>8

(***************************************************************************)
(* prepare_batch_metadata writes headers, and nothing behind them.         *)
(***************************************************************************)
LEMMA PrepareMemory ==
  ASSUME BatchInv, Prepare
  PROVE  /\ DOMAIN memory' = DOMAIN memory
         /\ \A i \in DOMAIN memory :
              memory'[i] # memory[i] => SlotOffset(slot, slotSize) <= i /\ i < SlotOffset(slot, slotSize) + HeaderSize(BatchHeaders)
<1> DEFINE w == WriteHeaders(memory, SlotOffset(slot, slotSize), BatchHeaders)
<1>1. memory' = memory \/ memory' = w.out
  BY DEF Prepare
<1>2. DOMAIN memory \subseteq Int
  BY MemoryHas
<1>3. /\ DOMAIN w.out = DOMAIN memory
      /\ \A i \in DOMAIN memory :
           w.out[i] # memory[i] => SlotOffset(slot, slotSize) <= i /\ i < SlotOffset(slot, slotSize) + HeaderSize(BatchHeaders)
  BY <1>2, PlacesAre, HeadersStay
<1> HIDE DEF w
<1> QED
  BY <1>1, <1>3

(***************************************************************************)
(* prepare_batch_metadata ends in an error, or hands all items out.        *)
(***************************************************************************)
LEMMA PrepareEnds ==
  ASSUME BatchInv, Prepare
  PROVE  \/ state' = "failed" /\ error' \in {"InvalidShape", "BufferOverflow"} /\ toWrite' = toWrite
         \/ state' = "writing" /\ error' = "none" /\ toWrite' = DOMAIN batch /\ DataSize > 0
<1> DEFINE w == WriteHeaders(memory, SlotOffset(slot, slotSize), BatchHeaders)
<1>1. toWrite = {}
  BY InvariantSays DEF Prepare
<1>2. w.err \in {"none", "BufferOverflow"}
  <2>1. DOMAIN memory \subseteq Int
    BY MemoryHas
  <2> QED
    BY <2>1, PlacesAre, HeadersStay
<1>3. CASE \E k \in DOMAIN layouts : ~CanAddBatch(layouts[k])
  BY <1>3 DEF Prepare, End
<1>4. CASE ~(\E k \in DOMAIN layouts : ~CanAddBatch(layouts[k])) /\ w.err # "none"
  <2>1. state' = "failed" /\ error' = w.err /\ toWrite' = toWrite
    BY <1>4 DEF Prepare, End
  <2> HIDE DEF w
  <2> QED
    BY <1>2, <1>4, <2>1
<1>5. CASE ~(\E k \in DOMAIN layouts : ~CanAddBatch(layouts[k])) /\ w.err = "none"
  <2>1. DataSize = 0 \/ DataSize > 0
    BY PlacesAre
  <2>2. CASE DataSize = 0
    BY <1>5, <2>2 DEF Prepare, End
  <2>3. CASE DataSize > 0 /\ SliceFits(memory, DataAt, DataSize)
    BY <1>5, <2>3 DEF Prepare, End
  <2>4. CASE DataSize > 0 /\ ~SliceFits(memory, DataAt, DataSize)
    BY <1>5, <2>4 DEF Prepare, End
  <2> QED
    BY <2>1, <2>2, <2>3, <2>4
<1> QED
  BY <1>3, <1>4, <1>5

(***************************************************************************)
(* prepare_batch_metadata, its errors included.                            *)
(***************************************************************************)
LEMMA PrepareKeeps ==
  ASSUME BatchInv, Prepare
  PROVE  BatchInv'
<1>1. /\ UNCHANGED sourceVars /\ data' = data /\ slot' = slot /\ buffer' = buffer
      /\ scratch' = scratch /\ streamed' = streamed /\ state = "prepare" /\ toWrite = {}
  BY InvariantSays DEF Prepare, sourceVars
<1>2. \/ state' = "failed" /\ error' \in {"InvalidShape", "BufferOverflow"} /\ toWrite' = toWrite
      \/ state' = "writing" /\ error' = "none" /\ toWrite' = DOMAIN batch /\ DataSize > 0
  BY PrepareEnds
<1>3. {"none", "InvalidShape", "BufferOverflow"} \subseteq Errors
  BY DEF Errors
<1>4. CellInv'
  BY <1>1, CellsStay
<1>5. DOMAIN memory' = 0 .. slotSize * NSlots - 1
  BY PrepareMemory, MemoryHas
<1>6. DataSize' = DataSize
  BY <1>1 DEF DataSize, sourceVars
<1>7. ChosenInv' /\ toWrite' \subseteq DOMAIN batch
  BY <1>1, <1>2, <1>6, InvariantSays DEF BatchInv, ChosenInv, sourceVars
<1> QED
  BY <1>1, <1>2, <1>3, <1>4, <1>5, <1>7, InvariantSays, InvariantFrom DEF States, Live

(***************************************************************************)
(* An item is written in its own chunk of the batch.                       *)
(***************************************************************************)
LEMMA WriteItemMemory ==
  ASSUME BatchInv, NEW k \in toWrite, NEW t \in Threads, WriteItem(k, t)
  PROVE  /\ DOMAIN memory' = DOMAIN memory
         /\ \A i \in DOMAIN memory : memory'[i] # memory[i] => DataAt <= i /\ i < DataAt + DataSize
<1>1. PICK item \in ItemResults(k, t) : memory' = Overlay(memory, MovedTo(ChunkAt(k), item.out))
  BY DEF WriteItem
<1>2. DOMAIN item.out = 0 .. ItemSize(layouts) - 1
  BY WritableIs, ItemResultsAre
<1> DEFINE a == ItemSize(layouts)
           n == Len(batch)
           at == ChunkAt(k)
           cells == MovedTo(at, item.out)
<1>3. k \in 1 .. n /\ a \in Nat /\ n \in Nat /\ DataAt \in Nat
  <2>1. k \in DOMAIN batch /\ batch \in Seq(Nat)
    BY InvariantSays DEF BatchInv, ChosenInv
  <2> QED
    BY <2>1, PlacesAre
<1>4. at = DataAt + (k - 1) * a /\ DataSize = a * n
  BY DEF ChunkAt, DataSize
<1>5. DOMAIN cells = { at + j : j \in 0 .. a - 1 }
  BY <1>2 DEF MovedTo
<1>6. at \in Nat /\ DataAt <= at /\ at + a <= DataAt + DataSize
  <2> DEFINE below == (k - 1) * a
  <2>1. k - 1 \in Nat /\ k \in Nat /\ k <= n
    BY <1>3
  <2> HIDE DEF a, n, at
  <2>2. below \in Nat /\ below + a = k * a
    BY <1>3, <2>1
  <2>3. k * a \in Nat /\ n * a \in Nat /\ k * a <= n * a
    BY <1>3, <2>1, ProductsGrow
  <2>4. a * n = n * a
    BY <1>3
  <2> HIDE DEF below
  <2>5. at = DataAt + below
    BY <1>4 DEF below
  <2> DEFINE x == k * a
             y == n * a
  <2>6. below \in Nat /\ x \in Nat /\ y \in Nat /\ below + a = x /\ x <= y /\ DataSize = y
    BY <1>4, <2>2, <2>3, <2>4
  <2> HIDE DEF x, y
  <2> QED
    BY <1>3, <2>5, <2>6
<1>7. DataSize \in Nat
  BY PlacesAre
<1> HIDE DEF a, n, at, cells
<1>8. \A i \in DOMAIN memory : i \in DOMAIN cells => DataAt <= i /\ i < DataAt + DataSize
  BY <1>3, <1>5, <1>6, <1>7
<1>9. /\ DOMAIN memory' = DOMAIN memory
      /\ \A i \in DOMAIN memory : i \notin DOMAIN cells => memory'[i] = memory[i]
  <2>1. memory' = Overlay(memory, cells)
    BY <1>1 DEF cells, at
  <2> QED
    BY <2>1 DEF Overlay
<1> QED
  BY <1>8, <1>9

(***************************************************************************)
(* write_item on any thread, with any outcome.                             *)
(***************************************************************************)
LEMMA WriteItemKeeps ==
  ASSUME BatchInv, NEW k \in toWrite, NEW t \in Threads, WriteItem(k, t)
  PROVE  BatchInv'
<1>1. /\ UNCHANGED sourceVars /\ data' = data /\ slot' = slot /\ streamed' = streamed /\ toWrite' \subseteq toWrite
      /\ state \in {"writing", "failed"}
  BY DEF WriteItem, MayWrite, sourceVars
<1>2. PICK item \in ItemResults(k, t) :
        /\ buffer' = item.buffer
        /\ scratch' = [scratch EXCEPT ![t] = ScratchOf(batch[k], t)]
        /\ IF item.err = "none" THEN UNCHANGED << state, error >> ELSE EndWith(item.err)
  BY DEF WriteItem
<1>3. item.err \in Errors /\ GoodBuffer(data, item.buffer)
  BY WritableIs, ItemResultsAre
<1>4. CellInv'
  BY <1>1, <1>2, <1>3 DEF CellInv
<1>5. scratch' \in [Threads -> Nat]
  <2>1. ScratchOf(batch[k], t) \in Nat
    BY WritableIs, ScratchOfTyped
  <2> QED
    BY <1>2, <2>1, InvariantSays
<1>6. DOMAIN memory' = 0 .. slotSize * NSlots - 1
  BY WriteItemMemory, MemoryHas
<1>7. \/ state' = state /\ error' = error
      \/ state' \in {"failed", "panicked"} /\ error' = item.err /\ item.err # "none"
  BY <1>2 DEF EndWith, End
<1>8. /\ state' \in {"writing", "failed", "panicked"} /\ (state' = "writing" => state = "writing")
      /\ error' \in Errors /\ (error' # "none" <=> state' \in {"failed", "panicked"})
  BY <1>1, <1>3, <1>7, InvariantSays
<1> QED
  BY <1>1, <1>4, <1>5, <1>6, <1>8, InvariantSays, InvariantStays DEF States, Live

-----------------------------------------------------------------------------
(* Building and choosing.                                                  *)

(***************************************************************************)
(* The size that the images of a batch get is a size.                      *)
(***************************************************************************)
LEMMA NewSizeTyped ==
  ASSUME BatchInv, NEW items \in Seq(Nat), items # << >>, \A k \in DOMAIN items : items[k] \in Items(data)
  PROVE  NewSize(items) \in Nat \X Nat
<1>1. data.kind = "folder" => NewSize(items) \in Nat \X Nat
  BY InvariantSays, LayoutsOfTyped
<1>2. size \in Nat \X Nat
  BY DEF BatchInv, ChosenInv
<1> QED
  BY <1>1, <1>2 DEF NewSize

(***************************************************************************)
(* A measured dataset's layouts are those of the items alone, not of what  *)
(* was streamed before.                                                    *)
(***************************************************************************)
LEMMA LayoutsFrom ==
  ASSUME Measured(data), NEW items
  PROVE  LayoutsOf(items) = LayoutsOver(data, Within(items))
<1>1. data.kind = "custom" \/ data.kind = "folder"
  BY DEF Measured
<1> QED
  BY <1>1 DEF LayoutsOf, LayoutsOver, Within

(***************************************************************************)
(* The next batch of the epoch, its layouts and its size.                  *)
(***************************************************************************)
LEMMA ChooseKeeps ==
  ASSUME BatchInv, NEW items \in Batches, Choose(items)
  PROVE  BatchInv'
<1>1. /\ data' = data /\ slotSize' = slotSize /\ memory' = memory /\ slot' = slot /\ buffer' = buffer /\ toWrite' = toWrite
      /\ scratch' = scratch /\ streamed' = streamed /\ streamed < MaxBatches
      /\ state = "idle" /\ state' = "prepare" /\ error' = error
      /\ batch' = items /\ layouts' = LayoutsOf(items) /\ size' = NewSize(items)
      /\ \A k \in DOMAIN items : items[k] \in Items(data)
  BY DEF Choose
<1>2. items \in Seq(Nat) /\ items # << >>
  BY BatchAssumption
<1>3. toWrite = {}
  BY <1>1, InvariantSays
<1>4. /\ LayoutsOf(items) \in Seq(AnyLayout)
      /\ data.kind # "custom" => LayoutsOf(items) = << >> \/ ImageAndLabel(LayoutsOf(items))
  BY <1>1, <1>2, InvariantSays, LayoutsOfTyped
<1>5. NewSize(items) \in Nat \X Nat
  BY <1>1, <1>2, NewSizeTyped
<1>6. ChosenInv'
  BY <1>1, <1>2, <1>3, <1>4, <1>5 DEF BatchInv, ChosenInv
<1>7. CellInv'
  BY <1>1, CellsStay
<1>8. SizedInv'
  <2>1. Measured(data) => slotSize = CalculateSlotSize(LayoutsOver(data, Items(data)), BatchSize)
    BY <1>1 DEF BatchInv, SizedInv, Live
  <2>2. Measured(data) => LayoutsOf(items) = LayoutsOver(data, { items[k] : k \in DOMAIN items })
    BY LayoutsFrom DEF Within
  <2>3. slotSize > 0
    BY <1>1, InvariantSays DEF Live
  <2> QED
    BY <1>1, <1>2, <2>1, <2>2, <2>3 DEF SizedInv
<1>9. BatchTypeOK'
  <2>1. (\A i \in DOMAIN buffer.cells : buffer.cells[i].layout = << >> => buffer.cells[i].img = NoImage)'
    <3>1. GoodBuffer(data, buffer')
      BY <1>1, InvariantSays
    <3> QED
      BY <3>1, CellsHold
  <2>2. toWrite' \subseteq DOMAIN batch'
    BY <1>1, <1>3
  <2>3. state' \in States /\ error' \in Errors /\ (error' # "none" <=> state' \in {"failed", "panicked"})
    BY <1>1, InvariantSays DEF States
  <2>4. DOMAIN memory' = 0 .. slotSize' * NSlots - 1
    BY <1>1, MemoryHas
  <2>5. slot' \in Slots /\ scratch' \in [Threads -> Nat] /\ streamed' \in 0 .. MaxBatches
    BY <1>1, InvariantSays
  <2> QED
    BY <2>1, <2>2, <2>3, <2>4, <2>5 DEF BatchTypeOK
<1> QED
  BY <1>6, <1>7, <1>8, <1>9 DEF BatchInv

(***************************************************************************)
(* The slot size that is probed is that of all items together, where the   *)
(* dataset is measured.                                                    *)
(***************************************************************************)
LEMMA ProbedSize ==
  ASSUME BatchInv, NEW p \in Probes, data.probe # 0
  PROVE  LET sized == CalculateSlotSize(LayoutsOf(SetToSeq(p)), BatchSize)
         IN  /\ sized \in Nat /\ NewSize(SetToSeq(p)) \in Nat \X Nat
             /\ Measured(data) => sized = CalculateSlotSize(LayoutsOver(data, Items(data)), BatchSize)
<1> DEFINE f == SetToSeq(p)
<1>1. p \in SUBSET Items(data) /\ Cardinality(p) = data.probe
  BY DEF Probes
<1>2. Cardinality(p) > 0
  BY <1>1, InvariantSays DEF AnyDataset
<1>3. f \in Seq(Nat) /\ f # << >> /\ Within(f) = p
  BY <1>1, <1>2, InvariantSays, ProbesAre
<1> HIDE DEF f
<1>4. \A k \in DOMAIN f : f[k] \in Items(data)
  BY <1>1, <1>3 DEF Within
<1>5. LayoutsOf(f) \in Seq(AnyLayout)
  BY <1>3, <1>4, InvariantSays, LayoutsOfTyped
<1>6. CalculateSlotSize(LayoutsOf(f), BatchSize) \in Nat
  BY <1>5, SlotSizeTyped, BatchAssumption
<1>7. NewSize(f) \in Nat \X Nat
  BY <1>3, <1>4, NewSizeTyped
<1>8. ASSUME Measured(data)
      PROVE  LayoutsOf(f) = LayoutsOver(data, Items(data))
  <2>1. LayoutsOf(f) = LayoutsOver(data, p)
    BY <1>3, <1>8, LayoutsFrom
  <2>2. CASE data.kind = "custom"
    BY <2>1, <2>2 DEF LayoutsOver
  <2>3. CASE OneSize(data)
    BY <2>1, <2>3 DEF LayoutsOver, OneSize, FolderSize
  <2>4. CASE data.probe = Cardinality(Items(data))
    <3>1. p = Items(data)
      BY <1>1, <2>4, InvariantSays, ItemsAre, FS_Subset
    <3> QED
      BY <2>1, <3>1
  <2> QED
    BY <1>8, <2>2, <2>3, <2>4 DEF Measured
<1> QED
  BY <1>6, <1>7, <1>8 DEF f

(***************************************************************************)
(* The builder, with the slot size it is given or one that it probes, and  *)
(* its errors.                                                             *)
(***************************************************************************)
LEMMA BuildKeeps ==
  ASSUME BatchInv, Build
  PROVE  BatchInv'
<1>1. PICK p \in Probes :
        LET sized == IF data.probe = 0 THEN RoundedSize(GivenSize)
                     ELSE CalculateSlotSize(LayoutsOf(SetToSeq(p)), BatchSize)
        IN  /\ slotSize' = sized
            /\ size' = IF data.probe = 0 THEN size ELSE NewSize(SetToSeq(p))
            /\ memory' = [i \in 0 .. sized * NSlots - 1 |-> Zero]
            /\ IF sized = 0 THEN End("failed", "InvalidSlotSize") ELSE End("built", "none")
  BY DEF Build
<1>2. /\ data' = data /\ slot' = slot /\ buffer' = buffer /\ toWrite' = toWrite /\ batch' = batch /\ layouts' = layouts
      /\ scratch' = scratch /\ streamed' = streamed /\ state = "new" /\ toWrite = {}
  BY InvariantSays DEF Build
<1>3. RoundedSize(GivenSize) \in Nat
  BY Aligned, BatchAssumption, LayoutAssumption DEF RoundedSize
<1>4. slotSize' \in Nat
  BY <1>1, <1>3, ProbedSize
<1>5. size' \in Nat \X Nat
  <2>1. size \in Nat \X Nat
    BY DEF BatchInv, ChosenInv
  <2> QED
    BY <1>1, <2>1, ProbedSize
<1>6. Measured(data) => slotSize' = CalculateSlotSize(LayoutsOver(data, Items(data)), BatchSize)
  <2> SUFFICES ASSUME Measured(data)
               PROVE  slotSize' = CalculateSlotSize(LayoutsOver(data, Items(data)), BatchSize)
    OBVIOUS
  <2>1. data.probe # 0
    BY InvariantSays DEF Measured, AnyDataset
  <2> QED
    BY <1>1, <2>1, ProbedSize
<1>7. DOMAIN memory' = 0 .. slotSize' * NSlots - 1
  BY <1>1
<1>8. \/ slotSize' = 0 /\ state' = "failed" /\ error' = "InvalidSlotSize"
      \/ slotSize' # 0 /\ state' = "built" /\ error' = "none"
  BY <1>1 DEF End
<1>9. ChosenInv'
  BY <1>2, <1>4, <1>5, <1>8 DEF BatchInv, ChosenInv
<1>10. CellInv'
  BY <1>2, CellsStay
<1>11. SizedInv'
  <2>1. state' \in Live => slotSize' > 0
    BY <1>4, <1>8 DEF Live
  <2> QED
    BY <1>2, <1>6, <1>8, <2>1 DEF BatchInv, SizedInv
<1>12. BatchTypeOK'
  <2>1. (\A i \in DOMAIN buffer.cells : buffer.cells[i].layout = << >> => buffer.cells[i].img = NoImage)'
    <3>1. GoodBuffer(data, buffer')
      BY <1>2, InvariantSays
    <3> QED
      BY <3>1, CellsHold
  <2>2. toWrite' \subseteq DOMAIN batch'
    BY <1>2
  <2>3. state' \in States /\ error' \in Errors /\ (error' # "none" <=> state' \in {"failed", "panicked"})
    BY <1>8 DEF States, Errors
  <2>4. slot' \in Slots /\ scratch' \in [Threads -> Nat] /\ streamed' \in 0 .. MaxBatches
    BY <1>2, InvariantSays
  <2> QED
    BY <1>7, <2>1, <2>2, <2>3, <2>4 DEF BatchTypeOK
<1> QED
  BY <1>9, <1>10, <1>11, <1>12 DEF BatchInv

-----------------------------------------------------------------------------
(* The theorems.                                                           *)

(***************************************************************************)
(* BatchInv is an invariant, for any datasets, batches, slot sizes and     *)
(* numbers of slots and threads.                                           *)
(***************************************************************************)
THEOREM BatchInvariant == BatchSpec => []BatchInv
<1>1. BatchInit => BatchInv
  BY InitGives
<1>2. BatchInv /\ [BatchNext]_batchVars => BatchInv'
  <2> SUFFICES ASSUME BatchInv, [BatchNext]_batchVars
               PROVE  BatchInv'
    OBVIOUS
  <2>1. CASE Unusable
    BY <2>1, UnusableKeeps
  <2>2. CASE Build
    BY <2>2, BuildKeeps
  <2>3. CASE FirstEpoch
    BY <2>3, FirstEpochKeeps
  <2>4. CASE Prepare
    BY <2>4, PrepareKeeps
  <2>5. CASE CtrlC
    BY <2>5, CtrlCKeeps
  <2>6. CASE Publish
    BY <2>6, PublishKeeps
  <2>7. CASE InterruptedLate \/ \E k \in toWrite : Interrupted(k)
    BY <2>7, InterruptedKeeps
  <2>8. CASE \E items \in Batches : Choose(items)
    BY <2>8, ChooseKeeps
  <2>9. CASE \E k \in toWrite : \E t \in Threads : WriteItem(k, t)
    BY <2>9, WriteItemKeeps
  <2>10. CASE UNCHANGED batchVars
    BY <2>10 DEF batchVars, BatchInv, BatchTypeOK, ChosenInv, CellInv, SizedInv, DataSize
  <2> QED
    BY <2>1, <2>2, <2>3, <2>4, <2>5, <2>6, <2>7, <2>8, <2>9, <2>10 DEF BatchNext
<1> QED
  BY <1>1, <1>2, PTL DEF BatchSpec

(***************************************************************************)
(* Every variable of the batch path keeps its type: the memory its length, *)
(* errors only of the known kinds, and never one while the producer goes   *)
(* on.                                                                     *)
(***************************************************************************)
THEOREM BatchTypeCorrect == BatchSpec => []BatchTypeOK
<1>1. BatchInv => BatchTypeOK
  BY DEF BatchInv
<1> QED
  BY <1>1, BatchInvariant, PTL

(***************************************************************************)
(* The next slot begins where this one ends.                               *)
(***************************************************************************)
LEMMA SlotEnds ==
  ASSUME BatchInv
  PROVE  /\ SlotOffset(slot, slotSize) \in Nat /\ slotSize \in Nat
         /\ SlotOffset(slot + 1, slotSize) = SlotOffset(slot, slotSize) + slotSize
<1>1. slot \in Nat /\ slotSize \in Nat
  BY PlacesAre
<1>2. (slot + 1) * slotSize = slot * slotSize + slotSize
  BY <1>1
<1> QED
  BY <1>1, <1>2, PlacesAre DEF SlotOffset

\* A step changes no memory but the slot's.
StaysInSlot ==
  state \notin {"new"} =>
    \A i \in DOMAIN memory :
      memory'[i] # memory[i] => SlotOffset(slot, slotSize) <= i /\ i < SlotOffset(slot + 1, slotSize)

(***************************************************************************)
(* A batch that fits is written in its slot, step by step: headers, items  *)
(* and is_ready.                                                           *)
(***************************************************************************)
LEMMA FittingStep ==
  ASSUME BatchInv, BatchFits, [BatchNext]_batchVars
  PROVE  StaysInSlot
<1> DEFINE at == SlotOffset(slot, slotSize)
           end == SlotOffset(slot + 1, slotSize)
           head == HeaderSize(BatchHeaders)
<1>1. at \in Nat /\ head \in Nat /\ DataSize \in Nat /\ slotSize \in Nat /\ end = at + slotSize /\ head + DataSize <= slotSize
  BY PlacesAre, SlotEnds DEF BatchFits
<1>2. CASE UNCHANGED memory
  BY <1>2 DEF StaysInSlot
<1>3. CASE Build
  BY <1>3 DEF StaysInSlot, Build
<1>4. CASE Prepare
  <2>1. \A i \in DOMAIN memory : memory'[i] # memory[i] => at <= i /\ i < at + head
    BY <1>4, PrepareMemory
  <2>2. DOMAIN memory \subseteq Int
    BY MemoryHas
  <2> HIDE DEF at, end, head
  <2>3. \A i \in DOMAIN memory : memory'[i] # memory[i] => at <= i /\ i < end
    BY <1>1, <2>1, <2>2
  <2> QED
    BY <2>3 DEF StaysInSlot, at, end
<1>5. CASE Publish
  <2>1. \A i \in DOMAIN memory : memory'[i] # memory[i] => i = at
    BY <1>5 DEF Publish, SetSlotReady
  <2>2. slotSize > 0
    BY <1>5, InvariantSays DEF Publish, Live
  <2> HIDE DEF at, end, head
  <2>3. \A i \in DOMAIN memory : memory'[i] # memory[i] => at <= i /\ i < end
    BY <1>1, <2>1, <2>2
  <2> QED
    BY <2>3 DEF StaysInSlot, at, end
<1>6. CASE \E k \in toWrite : \E t \in Threads : WriteItem(k, t)
  <2>1. \A i \in DOMAIN memory : memory'[i] # memory[i] => DataAt <= i /\ i < DataAt + DataSize
    BY <1>6, WriteItemMemory
  <2>2. DOMAIN memory \subseteq Int /\ DataAt = at + head
    BY MemoryHas DEF DataAt
  <2> HIDE DEF at, end, head
  <2>3. \A i \in DOMAIN memory : memory'[i] # memory[i] => at <= i /\ i < end
    BY <1>1, <2>1, <2>2
  <2> QED
    BY <2>3 DEF StaysInSlot, at, end
<1>7. \/ UNCHANGED memory \/ Build \/ Prepare \/ Publish
      \/ \E k \in toWrite : \E t \in Threads : WriteItem(k, t)
  BY DEF BatchNext, batchVars, Unusable, FirstEpoch, CtrlC, InterruptedLate, Choose, Interrupted
<1> QED
  BY <1>2, <1>3, <1>4, <1>5, <1>6, <1>7

(***************************************************************************)
(* A producer whose batches all fit never writes in another slot than the  *)
(* batch's own: not by headers, by items on any thread, nor by is_ready,   *)
(* and not when an item fails.                                             *)
(***************************************************************************)
THEOREM FittingBatchesStayInSlot == BatchSpec /\ []BatchFits => WritesStayInSlot
<1>1. BatchInv /\ BatchFits /\ [BatchNext]_batchVars => [StaysInSlot]_batchVars
  BY FittingStep
<1>2. BatchSpec /\ []BatchFits => [][StaysInSlot]_batchVars
  BY <1>1, BatchInvariant, PTL DEF BatchSpec
<1> QED
  BY <1>2 DEF WritesStayInSlot, StaysInSlot

(***************************************************************************)
(* The slot size that was probed is enough for the batch that has been     *)
(* chosen.                                                                 *)
(***************************************************************************)
LEMMA MeasuredFit ==
  ASSUME BatchInv
  PROVE  MeasuredBatchesFit
<1> SUFFICES ASSUME Measured(data), Len(batch) <= BatchSize
             PROVE  BatchFits
  BY DEF MeasuredBatchesFit
<1>1. CASE batch = << >>
  <2>1. layouts = << >> /\ Len(batch) = 0
    BY <1>1, BatchAssumption DEF BatchInv, SizedInv
  <2>2. WithBatch(layouts, 0) = << >>
    <3>1. \A ls \in Seq(AnyLayout) : WithBatch(ls, 0) \in Seq(AnyLayout) /\ Len(WithBatch(ls, 0)) = Len(ls)
      BY WithBatchIs
    <3>2. layouts \in Seq(AnyLayout) /\ Len(layouts) = 0
      BY <2>1
    <3> DEFINE bl == WithBatch(layouts, 0)
    <3>3. bl \in Seq(AnyLayout) /\ Len(bl) = 0
      BY <3>1, <3>2
    <3> HIDE DEF bl
    <3>4. bl = << >>
      BY <3>3
    <3> QED
      BY <3>4 DEF bl
  <2>3. HeaderSize(BatchHeaders) = 0
    BY <2>1, <2>2, NoLayouts DEF BatchHeaders
  <2>4. DataSize = 0
    BY <2>1, PlacesAre DEF DataSize
  <2> QED
    BY <2>3, <2>4, PlacesAre DEF BatchFits
<1>2. CASE batch # << >>
  <2> DEFINE most == LayoutsOver(data, Items(data))
             all == Items(data)
             items == Within(batch)
  <2>1. slotSize = CalculateSlotSize(most, BatchSize) /\ layouts = LayoutsOver(data, items)
    BY <1>2 DEF BatchInv, SizedInv, Within
  <2>2. items \in SUBSET all /\ items # {} /\ AnyDataset(data)
    BY <1>2, InvariantSays DEF Within, BatchInv, ChosenInv
  <2>3. /\ most \in Seq(AnyLayout) /\ Len(layouts) = Len(most)
        /\ \A i \in 1 .. Len(layouts) : Len(layouts[i].shape) = Len(most[i].shape) /\ AlignedBytes(layouts[i]) <= AlignedBytes(most[i])
    <3>1. CASE data.kind = "folder"
      <4> DEFINE few == FolderSize(data, items)
                 full == FolderSize(data, all)
                 small == ImageLayout(data.dt, few[1], few[2])
                 large == ImageLayout(data.dt, full[1], full[2])
                 label == LabelLayout
      <4>1. /\ few \in Nat \X Nat /\ full \in Nat \X Nat
            /\ few[1] <= full[1] /\ few[2] <= full[2]
        BY <2>2, <3>1, FolderSizeTyped, FolderSizeGrows
      <4>2. data.dt \in DOMAIN DtypeCells
        BY <2>2 DEF AnyDataset
      <4>3. layouts = << small, label >> /\ most = << large, label >>
        BY <2>1, <3>1 DEF LayoutsOver, FolderLayouts
      <4> HIDE DEF few, full
      <4>4. few[1] \in Nat /\ few[2] \in Nat /\ full[1] \in Nat /\ full[2] \in Nat
        BY <4>1
      <4>5. /\ small \in AnyLayout /\ large \in AnyLayout /\ label \in AnyLayout
            /\ Len(small.shape) = 3 /\ Len(large.shape) = 3
        <5> DEFINE dt == data.dt
        <5>1. dt \in DOMAIN DtypeCells
          BY <4>2
        <5> HIDE DEF dt
        <5>2. ASSUME NEW h \in Nat, NEW w \in Nat
              PROVE  ImageLayout(dt, h, w) \in AnyLayout /\ Len(ImageLayout(dt, h, w).shape) = 3
          <6>1. ImageLayout(dt, h, w) \in AnyLayout /\ ImageLayout(dt, h, w).shape = << 3, h, w >>
            BY <5>1, ImageLayoutTyped
          <6> DEFINE shape == ImageLayout(dt, h, w).shape
          <6>2. shape = << 3, h, w >>
            BY <6>1
          <6> HIDE DEF shape
          <6>3. Len(shape) = 3
            BY <6>2
          <6> QED
            BY <6>1, <6>3 DEF shape
        <5>3. /\ ImageLayout(dt, few[1], few[2]) \in AnyLayout /\ Len(ImageLayout(dt, few[1], few[2]).shape) = 3
              /\ ImageLayout(dt, full[1], full[2]) \in AnyLayout /\ Len(ImageLayout(dt, full[1], full[2]).shape) = 3
          BY <4>4, <5>2
        <5>4. label \in AnyLayout
          BY LabelLayoutTyped
        <5> QED
          BY <5>3, <5>4 DEF dt
      <4>6. AlignedBytes(small) <= AlignedBytes(large)
        BY <4>1, <4>2, <4>4, FolderBytesGrow
      <4>7. AlignedBytes(label) <= AlignedBytes(label)
        BY <4>5, BytesTyped
      <4> HIDE DEF small, large, label, most
      <4> QED
        BY <4>3, <4>5, <4>6, <4>7
    <3>2. CASE data.kind = "custom"
      <4>1. most = data.layouts /\ layouts = data.layouts /\ data.layouts \in Seq(AnyLayout)
        BY <2>1, <2>2, <3>2 DEF LayoutsOver, AnyDataset
      <4>2. \A i \in 1 .. Len(layouts) : AlignedBytes(layouts[i]) \in Nat
        <5> TAKE i \in 1 .. Len(layouts)
        <5>1. layouts[i] \in AnyLayout
          BY <4>1
        <5> QED
          BY <5>1, BytesTyped
      <4> HIDE DEF most
      <4> QED
        BY <4>1, <4>2
    <3> QED
      BY <3>1, <3>2 DEF Measured
  <2>4. layouts \in Seq(AnyLayout) /\ Len(batch) \in Nat /\ BatchSize \in Nat
    BY BatchAssumption DEF BatchInv, ChosenInv
  <2> HIDE DEF most
  <2>5. HeaderSize(WithBatch(layouts, Len(batch))) + ItemSize(layouts) * Len(batch) <= CalculateSlotSize(most, BatchSize)
    BY <2>3, <2>4, SlotHoldsBatch
  <2> QED
    BY <2>1, <2>5 DEF BatchFits, BatchHeaders, DataSize
<1> QED
  BY <1>1, <1>2

(***************************************************************************)
(* Where the builder has measured the largest item, each batch that is no  *)
(* longer than it was told fits in a slot, though calculate_slot_size and  *)
(* prepare_batch_metadata add up different layouts, of different items, at *)
(* different times.                                                        *)
(***************************************************************************)
THEOREM MeasuredBatchesAlwaysFit == BatchSpec => []MeasuredBatchesFit
<1>1. BatchInv => MeasuredBatchesFit
  BY MeasuredFit
<1> QED
  BY <1>1, BatchInvariant, PTL

(***************************************************************************)
(* Where only measured datasets are streamed, in batches no longer than    *)
(* the builder was told, every batch fits.                                 *)
(***************************************************************************)
LEMMA MeasuredBatchFits ==
  ASSUME \A d \in Datasets : Measured(d), \A items \in Batches : Len(items) <= BatchSize, BatchInv
  PROVE  BatchFits
<1>1. Measured(data) /\ BatchSize \in Nat
  BY BatchAssumption DEF BatchInv, ChosenInv
<1>2. Len(batch) <= BatchSize
  BY <1>1 DEF BatchInv, SizedInv
<1> QED
  BY <1>1, <1>2, MeasuredFit DEF MeasuredBatchesFit

(***************************************************************************)
(* So a producer of measured datasets whose batches are no longer than the *)
(* builder was told writes in the batch's own slot alone.                  *)
(***************************************************************************)
THEOREM MeasuredBatchesStayInSlot ==
  ASSUME \A d \in Datasets : Measured(d), \A items \in Batches : Len(items) <= BatchSize
  PROVE  BatchSpec => WritesStayInSlot
<1>1. BatchInv => BatchFits
  BY MeasuredBatchFits
<1> QED
  BY <1>1, BatchInvariant, FittingBatchesStayInSlot, PTL
=============================================================================
