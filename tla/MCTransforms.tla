---------------------------- MODULE MCTransforms ----------------------------
(***************************************************************************)
(* Transforms with types a few numbers wide, in the order of the real ones:*)
(* f16 ends between u8 and i32, bf16 reaches as far as f32.  A float has   *)
(* two binary digits, an f64 three, so that it has every i32 and not the   *)
(* largest i64, 22, which is 24 in it.                                     *)
(***************************************************************************)
EXTENDS TransformReference, TLC

Widths ==
  [t \in Types |->
     CASE t = "i8" -> 2 [] t = "u8" -> 6 [] t = "f16" -> 8 [] t = "i32" -> 12
       [] t = "i64" -> 22 [] t \in {"bf16", "f32"} -> 24 [] t = "f64" -> 28]

Magnitudes ==
  [t \in HalfTypes \cup FloatTypes |->
     CASE t = "f16"  -> {0, 2, 4, 6, 8, 12}
       [] t = "bf16" -> {0, 2, 4, 6, 8, 12, 16, 24, 32}
       [] t = "f32"  -> {0, 1, 2, 3, 4, 6, 8, 12, 16, 24, 32}
       [] t = "f64"  -> 0 .. 8 \cup {10, 12, 14, 16, 20, 24, 28, 32}]

CONSTANTS r1, r2

TwoRows == {r1, r2}
OneColumn == {1}
RowSymmetry == Permutations(TwoRows)

TensorTypes == {"u8", "i8", "i32", "i64", "f16", "f32"}

TensorNumbers == {Num(2), Num(6), Num(-2), Num(3), NaN}

UserScalars ==
  { Scalar("u8", Zero), Scalar("u8", Num(2)), Scalar("i8", Num(-4)), Scalar("i64", Num(14)),
    Scalar("f32", Num(3)), Scalar("f16", Num(4)) }

\* Scalars a step is made of; 24 is one more than the largest i64.
Values ==
  ScalarsOver({"u8", "i32"}, {Num(0), Num(4), Num(-4)})
    \cup ScalarsOver({"f64"}, {Num(1), Num(-6), Num(24)}) \cup {Scalar("f32", Inf(1))}

Deviations == {Scalar("f64", Num(1)), Scalar("f64", Num(-4)), Scalar("i32", Num(12))}

Bounds ==
  {NoBound} \cup ScalarsOver({"f64"}, {Num(3), Num(-3), Num(24), Num(-28)})
            \cup {Scalar("i64", Num(14)), Scalar("bf16", Num(24))}

AllSteps ==
  AddSteps(Values) \cup ScaleSteps(Values) \cup StandardizeSteps(Deviations)
    \cup ClampSteps(Bounds, Rounding)

FewSteps == { [op |-> "add", value |-> Scalar("i32", Num(4)), wrapping |-> FALSE] }
=============================================================================
