------------------------------ MODULE Scalars ------------------------------
(***************************************************************************)
(* The numbers of the transforms (transform/scalar): eight types, the      *)
(* conversions between them, their order and their arithmetic.             *)
(*                                                                         *)
(* A number is counted in halves, so that 1 is the fraction 1/2 and an     *)
(* integer is even: [is |-> "num", n |-> 3] is 1.5.  A type ends at MaxOf; *)
(* a float type has of the numbers up to there those in Held, and every    *)
(* result of its arithmetic and of a cast to it is rounded to the nearest  *)
(* of them.  The sign of a zero is left out.                               *)
(***************************************************************************)
EXTENDS Integers

CONSTANTS
  MaxOf,     \* for every type the largest number it has, in halves
  Held       \* for every float type the magnitudes it has, and the one at which
             \* its infinity begins

IntTypes   == {"u8", "i8", "i32", "i64"}
HalfTypes  == {"bf16", "f16"}
FloatTypes == {"f32", "f64"}
Types      == IntTypes \cup HalfTypes \cup FloatTypes

ASSUME MaxOfAssumption ==
  /\ MaxOf \in [Types -> Nat]
  /\ \A t \in Types : MaxOf[t] % 2 = 0
  /\ MaxOf["i8"] < MaxOf["u8"] /\ MaxOf["u8"] < MaxOf["f16"] /\ MaxOf["f16"] < MaxOf["i32"]
  /\ MaxOf["i32"] < MaxOf["i64"] /\ MaxOf["i64"] < MaxOf["bf16"]
  /\ MaxOf["bf16"] <= MaxOf["f32"] /\ MaxOf["f32"] < MaxOf["f64"]

MinOf(t) ==
  CASE t = "u8"                 -> 0
    [] t \in IntTypes \ {"u8"}  -> -MaxOf[t] - 2
    [] OTHER                    -> -MaxOf[t]

Num(n)   == [is |-> "num", n |-> n]
NaN      == [is |-> "nan", n |-> 0]
Inf(s)   == [is |-> "inf", n |-> s]     \* its sign is n
Zero     == Num(0)
AnyNumber == [is : {"num"}, n : Int] \cup {NaN, Inf(1), Inf(-1)}
Sign(n)        == IF n > 0 THEN 1 ELSE IF n < 0 THEN -1 ELSE 0

Distance(m, n) == IF m < n THEN n - m ELSE m - n

Finite(v)   == v.is = "num"
Fits(t, n)  == n \in MinOf(t) .. MaxOf[t]

\* v < w in the order of the reals; NaN is neither below nor above anything.
Less(v, w) ==
  LET Rank(x) == IF x.is = "inf" THEN x.n * (MaxOf["f64"] + 1) ELSE x.n
  IN  v.is # "nan" /\ w.is # "nan" /\ Rank(v) < Rank(w)

-----------------------------------------------------------------------------
(* Results: a number, or the error of a ScalarConversionError.             *)
Ok(v)  == [err |-> "none", v |-> v]
Err(e) == [err |-> e, v |-> NaN]

\* The magnitude of a float type that is nearest to m / d; of two the even one.
EvenOf(near) ==
  LET even == { h \in near : \A k \in near \ {h} : h % (2 * Distance(h, k)) = 0 }
  IN  CHOOSE h \in near : even # {} => h \in even

Nearest(t, m, d) ==
  EvenOf({ h \in Held[t] : \A k \in Held[t] : Distance(m, h * d) <= Distance(m, k * d) })

\* m / d as a number of a float type.
FloatOf(t, sign, h) == IF h > MaxOf[t] THEN Inf(sign) ELSE Num(sign * h)
RoundTo(t, m, d)    == FloatOf(t, Sign(m), Nearest(t, Sign(m) * m, d))

Has(t, n) == Distance(n, 0) \in Held[t] /\ Fits(t, n)

\* The cast `x as t` to a float type.
AsFloat(t, v) == IF ~Finite(v) \/ Has(t, v.n) THEN v ELSE RoundTo(t, v.n, 1)

\* `n as f64` of a number in range.
F64(n) == AsFloat("f64", Num(n)).n

(***************************************************************************)
(* The types are made of each other as the real ones are: what a float     *)
(* type has the wider ones have, every u8 and i8 is a number of f32, and   *)
(* every i32, and some more, of f64, but the largest i64 is none of f64,   *)
(* where it becomes the number after it.  Where f64 has fractions it has   *)
(* the whole numbers next to them.                                         *)
(***************************************************************************)
ASSUME HeldAssumption ==
  /\ Held \in [HalfTypes \cup FloatTypes -> SUBSET Nat]
  /\ \A t \in HalfTypes \cup FloatTypes :
       /\ {0, MaxOf[t]} \subseteq Held[t]
       /\ \E b \in Held[t] : b > MaxOf[t] /\ \A h \in Held[t] : h <= MaxOf[t] \/ h = b
  /\ \A t \in HalfTypes : \A h \in Held[t] : h <= MaxOf[t] => h \in Held["f32"]
  /\ \A h \in Held["f32"] : h <= MaxOf["f32"] => h \in Held["f64"]
  /\ \A n \in 0 .. MaxOf["u8"] : n % 2 = 0 => n \in Held["f32"]
  /\ \A n \in 0 .. MaxOf["i32"] + 4 : n % 2 = 0 => n \in Held["f64"]
  /\ \A h \in Held["f64"] : h % 2 # 0 => {h - 1, h + 1} \subseteq Held["f64"]
  /\ MaxOf["i64"] + 2 \in Held["f64"] /\ Nearest("f64", MaxOf["i64"], 1) = MaxOf["i64"] + 2

IntToInt(t, v) == IF Fits(t, v.n) THEN Ok(v) ELSE Err("Overflow")

\* The cast `x as t` to an integer type keeps to its range.
Clip(t, n) == IF n < MinOf(t) THEN MinOf(t) ELSE IF n > MaxOf[t] THEN MaxOf[t] ELSE n

\* The ends of the integer type are compared as f64 each: for i64 the upper one
\* is rounded up, and the number there is let through.
FloatToInt(t, v) ==
  CASE ~Finite(v)                  -> Err("InvalidValue")
    [] Finite(v) /\ v.n % 2 # 0    -> Err("FractionalValue")
    [] Finite(v) /\ v.n % 2 = 0    ->
         IF v.n \in F64(MinOf(t)) .. F64(MaxOf[t]) THEN Ok(Num(Clip(t, v.n))) ELSE Err("Overflow")

\* NaN and the infinities are converted to a half, what is out of its range as
\* an f64 is not; between the two halves nothing is checked.
HalfOf(t, ty, i) ==
  IF ty \notin HalfTypes /\ Finite(i) /\ ~Fits(t, i.n) THEN Err("Overflow") ELSE Ok(AsFloat(t, i))
ToHalf(t, s) == HalfOf(t, s.ty, AsFloat("f64", s.v))

\* Only an integer's conversion to f32 and f64 can fail: a float is cast.
ToFloat(t, s) ==
  IF s.ty \in IntTypes /\ ~Fits(t, s.v.n) THEN Err("Overflow") ELSE Ok(AsFloat(t, s.v))

\* TryFrom<Scalar> for each type.
Convert(t, s) ==
  CASE t \in IntTypes /\ s.ty \in IntTypes    -> IntToInt(t, s.v)
    [] t \in IntTypes /\ s.ty \notin IntTypes -> FloatToInt(t, s.v)
    [] t \in HalfTypes                        -> ToHalf(t, s)
    [] t \in FloatTypes                       -> ToFloat(t, s)

Scalar(t, v) == [ty |-> t, v |-> v]

\* The scalars of a set of types over a set of numbers each type can hold.
ScalarsOver(types, numbers) ==
  { s \in [ty : types, v : numbers] :
      IF s.ty \in IntTypes THEN Finite(s.v) /\ s.v.n % 2 = 0 /\ Fits(s.ty, s.v.n)
                           ELSE AsFloat(s.ty, s.v) = s.v }

-----------------------------------------------------------------------------
(* Arithmetic within one type.                                             *)

\* Wrapping integer arithmetic: n modulo the type's width.
Wrapped(t, n) == MinOf(t) + ((n - MinOf(t)) % (MaxOf[t] - MinOf(t) + 2))

\* Arithmetic of a half goes through f32, which has digits enough for the result
\* to be rounded as if once.
FloatAdd(t, v, w) ==
  CASE v.is = "nan" \/ w.is = "nan"                    -> NaN
    [] v.is = "inf" /\ w.is = "inf" /\ v.n # w.n       -> NaN
    [] v.is = "inf" /\ ~(w.is = "nan") /\ ~(w.is = "inf" /\ v.n # w.n) -> v
    [] v.is = "num" /\ w.is = "inf"                    -> w
    [] v.is = "num" /\ w.is = "num"                    -> RoundTo(t, v.n + w.n, 1)

Negative(v) == [v EXCEPT !.n = -v.n]

FloatMul(t, v, w) ==
  CASE Finite(v) /\ Finite(w)                                -> RoundTo(t, v.n * w.n, 2)
    [] v.is = "nan" \/ w.is = "nan"                          -> NaN
    [] "inf" \in {v.is, w.is} /\ "nan" \notin {v.is, w.is}   ->
         IF v.n * w.n = 0 THEN NaN ELSE Inf(Sign(v.n * w.n))

FloatDiv(t, v, w) ==
  CASE v.is = "nan" \/ w.is = "nan" \/ (v.is = "inf" /\ w.is = "inf") -> NaN
    [] v.is = "inf" /\ Finite(w)                 -> Inf(IF w.n < 0 THEN -v.n ELSE v.n)
    [] Finite(v) /\ w.is = "inf"                 -> Zero
    [] Finite(v) /\ Finite(w) /\ w.n = 0         -> IF v.n = 0 THEN NaN ELSE Inf(Sign(v.n))
    [] Finite(v) /\ Finite(w) /\ w.n # 0         -> RoundTo(t, 2 * v.n * Sign(w.n), Sign(w.n) * w.n)

-----------------------------------------------------------------------------
(* Arithmetic between scalars of different types (scalar/ops.rs).          *)

\* Mutant: no operator needs an f64 unless it is given one.
PromotedToF32(a, b) ==
  CASE a = b                                                   -> a
    [] a # b /\ "f64" \in {a, b}                              -> "f64"
    [] a # b /\ {a, b} \subseteq IntTypes                      -> IF "i64" \in {a, b} THEN "i64" ELSE "i32"
    [] OTHER                                                   -> "f32"

Promoted(a, b) ==
  CASE a = b                                                   -> a
    [] a # b /\ ("f64" \in {a, b} \/ {a, b} = {"i64", "f32"})  -> "f64"
    [] a # b /\ {a, b} \subseteq IntTypes                      -> IF "i64" \in {a, b} THEN "i64" ELSE "i32"
    [] OTHER                                                   -> "f32"

\* Division of integers cuts the fraction off.
IntResult(op, m, n) ==
  CASE op = "+" -> m + n
    [] op = "-" -> m - n
    [] op = "*" -> (m * n) \div 2
    [] op = "/" -> 2 * Sign(m) * Sign(n) * ((Sign(m) * m) \div (Sign(n) * n))

\* Integers that overflow wrap in a release build and panic in a debug build; a
\* division that has no result, or none in the type, panics in both.
IntArithmetic(op, t, m, n) ==
  LET r     == IntResult(op, m, n)
      value == Ok(Scalar(t, Num(Wrapped(t, r))))
  IN  CASE op = "/" /\ n = 0             -> { Err("panic") }
        [] op = "/" /\ n # 0 /\ ~Fits(t, r) -> { Err("panic") }
        [] op # "/" /\ ~Fits(t, r)        -> { value, Err("panic") }
        [] OTHER                          -> { value }

FloatResult(op, t, x, y) ==
  CASE op = "+" -> FloatAdd(t, x, y)
    [] op = "-" -> FloatAdd(t, x, Negative(y))
    [] op = "*" -> FloatMul(t, x, y)
    [] op = "/" -> FloatDiv(t, x, y)

\* What a + b, a - b, a * b and a / b may give.
Arithmetic(op, a, b) ==
  LET t == Promoted(a.ty, b.ty)
  IN  IF t \in IntTypes
      THEN IntArithmetic(op, t, a.v.n, b.v.n)
      ELSE { Ok(Scalar(t, FloatResult(op, t, AsFloat(t, a.v), AsFloat(t, b.v)))) }

\* -a: an unsigned number is widened first, the least signed one overflows.
Negation(a) ==
  LET t == IF a.ty = "u8" THEN "i32" ELSE a.ty
  IN  IF t \in IntTypes
      THEN { Ok(Scalar(t, Num(Wrapped(t, -a.v.n)))) }
             \cup (IF Fits(t, -a.v.n) THEN {} ELSE { Err("panic") })
      ELSE { Ok(Scalar(t, Negative(a.v))) }

\* !a: the bits of an integer, and nothing of a float.
Complement(a) ==
  CASE a.ty = "u8"                   -> Scalar("u8", Num(MaxOf["u8"] - a.v.n))
    [] a.ty \in IntTypes \ {"u8"}    -> Scalar(a.ty, Num(-a.v.n - 2))
    [] OTHER                         -> a
=============================================================================
