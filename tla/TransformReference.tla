------------------------- MODULE TransformReference -------------------------
(***************************************************************************)
(* What the transforms promise, number by number and in the reals, and     *)
(* what a pipeline makes of it.                                            *)
(***************************************************************************)
EXTENDS Transforms, FiniteSets

Whole(v)  == Finite(v) /\ v.n % 2 = 0

\* The number after the largest i64, 2^63, is what the largest one is as an f64,
\* and it is taken for that one.
Taken(t, n) == IF t = "i64" /\ n = MaxOf[t] + 2 THEN MaxOf[t] ELSE n

\* A number as one of a float type: a half is made of an f64.
Cast(t, v) == IF t \in HalfTypes THEN AsFloat(t, AsFloat("f64", v)) ELSE AsFloat(t, v)
Numbers(t) == { n \in MinOf(t) .. MaxOf[t] : n % 2 = 0 }

\* The whole number a fraction stands for.
WholeNear(mode, n) ==
  CHOOSE m \in {n - 1, n, n + 1} :
    /\ m % 2 = 0
    /\ n % 2 # 0 => CASE mode = "floor" -> m < n
                      [] mode = "ceil"  -> m > n
                      [] mode = "round" -> (m > n) <=> (n > 0)

\* A type holds a bound exactly, or the step says what to take for it.
BoundAllowed(step, t, b) ==
  \/ b = NoBound
  \/ /\ t \in IntTypes /\ Finite(b.v)
     /\ Whole(b.v) \/ step.rounding # "error"
     /\ Fits(t, Taken(t, WholeNear(step.rounding, b.v.n))) \/ step.saturate
  \/ /\ t \notin IntTypes
     /\ \/ ~Finite(b.v) \/ Fits(t, b.v.n) \/ step.saturate
        \/ t \in FloatTypes \/ b.ty \in HalfTypes     \* a cast, perhaps to an infinity

\* The numbers of an integer type on the right side of its bounds; when there
\* are none, the end of the type nearest to them.
Between(step, t) ==
  LET Above(n) == step.min = NoBound \/ n >= WholeNear(step.rounding, step.min.v.n)
      Below(n) == step.max = NoBound \/ n <= WholeNear(step.rounding, step.max.v.n)
      inside   == { n \in Numbers(t) : Above(n) /\ Below(n) }
  IN  IF inside # {} THEN inside
      ELSE IF \A n \in Numbers(t) : Below(n) THEN {MaxOf[t]} ELSE {MinOf(t)}

\* A float's bound: what its type makes of it, cut to the type if asked to.
FloatBound(step, t, b) ==
  IF step.saturate /\ b.ty \notin HalfTypes /\ t \in HalfTypes /\ Finite(b.v) /\ ~Fits(t, b.v.n)
  THEN Num(Sign(b.v.n) * MaxOf[t]) ELSE Cast(t, b.v)

ClampedFloat(step, t, x) ==
  LET bounded(b) == b # NoBound
      one == bounded(step.min) # bounded(step.max)
      low  == bounded(step.min) /\ Less(x, FloatBound(step, t, step.min))
      high == bounded(step.max) /\ Less(FloatBound(step, t, step.max), x)
  IN  CASE low \/ (x = NaN /\ one /\ bounded(step.min))  -> FloatBound(step, t, step.min)
        [] high \/ (x = NaN /\ one /\ bounded(step.max)) -> FloatBound(step, t, step.max)
        [] OTHER -> x

\* A step is defined for a number of type t,
Defined(step, t, x) ==
  CASE step.op = "add" /\ t \in IntTypes ->
         LET h == Taken(t, step.value.v.n)
         IN  /\ Whole(step.value.v)
             /\ Fits(t, h) \/ (t = "u8" /\ Fits(t, -h))
             /\ step.wrapping \/ Fits(t, x.n + h)
    [] step.op = "scale" /\ t \in IntTypes ->
         LET f == Taken(t, step.factor.v.n)
         IN  Whole(step.factor.v) /\ Fits(t, f) /\ Fits(t, (x.n * f) \div 2)
    [] step.op = "clamp" -> \A b \in {step.min, step.max} : BoundAllowed(step, t, b)
    [] step.op = "standardize" ->
         /\ t \notin IntTypes
         /\ \A s \in {step.mean, step.std} : Convert(t, s).err = "none"
         /\ Cast(t, step.std.v) # Zero
    [] OTHER -> Convert(t, IF step.op = "add" THEN step.value ELSE step.factor).err = "none"

\* and has this value.
Value(step, t, x) ==
  CASE step.op = "add" /\ t \in IntTypes ->
         Num(CHOOSE n \in Numbers(t) :
               (n - (x.n + Taken(t, step.value.v.n))) % (2 * Cardinality(Numbers(t))) = 0)
    [] step.op = "scale" /\ t \in IntTypes -> Num((x.n * Taken(t, step.factor.v.n)) \div 2)
    [] step.op = "clamp" /\ t \in IntTypes ->
         Num(CHOOSE n \in Between(step, t) :
               \A m \in Between(step, t) : Distance(n, x.n) <= Distance(m, x.n))
    [] step.op = "clamp" /\ t \notin IntTypes -> ClampedFloat(step, t, x)
    [] step.op = "add" /\ t \notin IntTypes   -> FloatAdd(t, x, Cast(t, step.value.v))
    [] step.op = "scale" /\ t \notin IntTypes -> FloatMul(t, x, Cast(t, step.factor.v))
    [] OTHER -> FloatDiv(t, FloatAdd(t, x, Negative(Cast(t, step.mean.v))), Cast(t, step.std.v))

\* A number after the first k steps of a pipeline: what it has become, or none
\* when one of them is not defined for it.
Undefined == [is |-> "undefined", n |-> 0]

Through(pipeline, t, x, k) ==
  LET value[i \in 0 .. k] ==
        IF i = 0 THEN x
        ELSE LET before == value[i - 1]
             IN  IF before = Undefined \/ ~Defined(pipeline[i], t, before) THEN Undefined
                 ELSE Value(pipeline[i], t, before)
  IN  value[k]

After(c, k) == Through(steps, ty, tensor[c], k)

-----------------------------------------------------------------------------
(***************************************************************************)
(* Type invariant: a cell always holds a number of the tensor's type.      *)
(***************************************************************************)
TransTypeOK ==
  /\ run \in {"build", "seq", "par", "ok", "failed", "panic"}
  /\ next \in [Rows -> 1 .. MaxSteps + 2] /\ failedAt \in 0 .. MaxSteps
  /\ \A c \in Cells : Scalar(ty, data[c]) \in ScalarsOver({ty}, {data[c]})

(***************************************************************************)
(* A row always holds the result of a whole number of steps, each of them  *)
(* exact: a step that fails has changed nothing, and one that fails in the *)
(* middle of a pipeline leaves the steps before it applied, in sequential  *)
(* mode too.                                                               *)
(***************************************************************************)
Done(r) ==
  IF next[r] <= Len(steps) + 1 THEN {next[r] - 1}
  ELSE { k \in 0 .. Len(steps) - 1 : \E c \in {r} \X Columns : After(c, k + 1) = Undefined }

RowsHoldWholeSteps ==
  \A r \in Rows : \E k \in Done(r) : \A c \in {r} \X Columns : data[c] = After(c, k)

(***************************************************************************)
(* Cutting a tensor into rows does not change what is refused: the         *)
(* pipeline fails exactly when a step is not defined for some cell, in     *)
(* either mode, and the step it names is one that is not.                  *)
(***************************************************************************)
FailsAsOnePiece ==
  LET bad(k) == \E c \in Cells : After(c, k) = Undefined
  IN  /\ run = "ok" => ~bad(Len(steps))
      /\ run = "failed" => failedAt > 0 /\ bad(failedAt)
      /\ run = "failed" /\ (\A r \in Rows : next[r] = failedAt) => ~bad(failedAt - 1)

(***************************************************************************)
(* Whatever the type of the tensor and the modes, the bounds of a Clamp    *)
(* that `new` accepted do not cross when they are resolved, where clamp    *)
(* would panic, and one that overflows lies beyond an end of the type when *)
(* it is looked at again, where unreachable! would (clamp.rs:129, 212).    *)
(***************************************************************************)
BoundsNeverCross == run = "panic" => steps = << >>

NumberOf(t, v) == v \in AnyNumber /\ Scalar(t, v) \in ScalarsOver({t}, {v})

\* The type of a and b together has a: an integer that has more digits than the
\* float beside it is rounded, a large i64 as an f64, and as an f32 where the
\* other is a half, or the other is an f32 and a is an i32.
KeptAs(a, b) ==
  CASE a.ty = "i64" /\ b.ty \in FloatTypes -> AsFloat("f64", a.v)
    [] \/ a.ty = "i64" /\ b.ty \in HalfTypes
       \/ a.ty = "i32" /\ b.ty \in HalfTypes \cup {"f32"} -> AsFloat("f32", a.v)
    [] OTHER -> a.v

(***************************************************************************)
(* A scalar computed from two others has a type that has both of them, to  *)
(* the last digit, whatever signs and widths meet in it; but for an i64    *)
(* beside a float and an i32 beside a half or an f32, of which that type   *)
(* has what the float nearest to it is.  So has the type of what is        *)
(* computed from one.  Only a result may overflow or be rounded            *)
(* (scalar/ops.rs:5-58).                                                   *)
(***************************************************************************)
PromotionKeepsOperands ==
  steps # << >> =>
    \A a, b \in operands :
      a # b \/ operands = {a} => NumberOf(steps[1].value.ty, KeptAs(a, b))

-----------------------------------------------------------------------------
(***************************************************************************)
(* The inductive invariant, in named parts.                                *)
(***************************************************************************)

\* A pipeline has steps as their constructors return them, and the tensor
\* numbers of its type, when exec was called and at any time later.
PipelineInv ==
  /\ steps \in Seq(AnyStep) /\ Len(steps) <= MaxSteps
  /\ ty \in Types
  /\ tensor \in [Cells -> AnyNumber] /\ data \in [Cells -> AnyNumber]
  /\ \A c \in Cells : NumberOf(ty, tensor[c])
  /\ next \in [Rows -> 1 .. Len(steps) + 2]

\* Until exec is called nothing is applied.
BuildInv ==
  run = "build" =>
    /\ data = tensor /\ failedAt = 0
    /\ \A r \in Rows : next[r] = 1
    /\ steps = << >> => operands = {}

\* A row is given up for an error only, which is that of a step not defined for
\* some cell, and a success has all the rows at the end.
OutcomeInv ==
  /\ failedAt # 0 =>
       /\ failedAt \in 1 .. Len(steps)
       /\ Cells # {} => \E c \in Cells : After(c, failedAt) = Undefined
  /\ \A r \in Rows : next[r] = Len(steps) + 2 => failedAt # 0
  /\ run = "ok" => \A r \in Rows : next[r] = Len(steps) + 1
  /\ run = "failed" => failedAt # 0

TransInv ==
  /\ TransTypeOK
  /\ PipelineInv
  /\ BuildInv
  /\ OutcomeInv
  /\ Cells # {} => RowsHoldWholeSteps
  /\ BoundsNeverCross
  /\ PromotionKeepsOperands
=============================================================================
