----------------------------- MODULE Transforms -----------------------------
(***************************************************************************)
(* The transforms of a tensor and the pipeline that runs them              *)
(* (transform/{add,scale,clamp,standardize}.rs and pipeline/mod.rs).       *)
(*                                                                         *)
(* A tensor is a function from its cells to numbers of one type.  Its      *)
(* first axis are the rows; a large tensor is cut along it, and its rows   *)
(* go through the steps each on their own, in parallel.                    *)
(***************************************************************************)
EXTENDS Scalars, Sequences

CONSTANTS
  Rows, Columns,   \* the cells of the tensor
  ElementTypes,    \* the types a tensor may have
  Elements,        \* and the numbers it may hold at first, where its type can
  Operands,        \* scalars the user computes with,
  FirstSteps,      \* the steps a pipeline may begin with,
  LaterSteps,      \* and those that may follow, as the constructors return them
  MaxSteps         \* bound: the longest pipeline

Cells   == Rows \X Columns
NoBound == [ty |-> "none", v |-> NaN]
Rounding == {"error", "round", "floor", "ceil"}

-----------------------------------------------------------------------------
(* Add, with its mode of integer overflow.                                 *)

AddSteps(values) == [op : {"add"}, value : values, wrapping : BOOLEAN]

\* The addend as a number of the tensor's type; an unsigned tensor also takes
\* a negative one, down to minus its maximum.
Signed(c) ==
  IF c.err = "none" /\ c.v.n \notin -MaxOf["u8"] .. MaxOf["u8"] THEN Err("Overflow") ELSE c
Addend(step, t) ==
  IF t # "u8" THEN Convert(t, step.value) ELSE Signed(Convert("i32", step.value))

AddsNothing(step) == Convert("u8", step.value) = Ok(Zero)

\* Mutant: integers are added unchecked.
AddToUnchecked(step, t, x) == Ok(FloatAdd("f64", x, Addend(step, t).v))

Sum(step, t, x, h) ==
  LET n == x.n + h.n
  IN  CASE t \notin IntTypes                                    -> Ok(FloatAdd(t, x, h))
        [] t \in IntTypes /\ step.wrapping                      -> Ok(Num(Wrapped(t, n)))
        [] t \in IntTypes /\ ~step.wrapping /\ Fits(t, n)       -> Ok(Num(n))
        [] t \in IntTypes /\ ~step.wrapping /\ ~Fits(t, n)      -> Err("Overflow")

AddTo(step, t, x) == Sum(step, t, x, IF AddsNothing(step) THEN Zero ELSE Addend(step, t).v)

-----------------------------------------------------------------------------
(* Scale.                                                                  *)

ScaleSteps(values) == [op : {"scale"}, factor : values]

Product(t, x, f) ==
  LET n == (x.n * f.n) \div 2
  IN  CASE t \notin IntTypes                -> Ok(FloatMul(t, x, f))
        [] t \in IntTypes /\ Fits(t, n)     -> Ok(Num(n))
        [] t \in IntTypes /\ ~Fits(t, n)    -> Err("Overflow")

ScaleBy(step, t, x) == Product(t, x, Convert(t, step.factor).v)

-----------------------------------------------------------------------------
(* Standardize, for floats only.                                           *)

StandardizeSteps(values) ==
  { s \in [op : {"standardize"}, mean : values, std : values] :
      Finite(s.mean.v) /\ Finite(s.std.v) /\ s.std.v.n # 0 }

\* A deviation that is not zero as given may be zero in the tensor's type.
MomentsError(t, mean, std) ==
  CASE t \in IntTypes -> "UnsupportedDtype"
    [] t \notin IntTypes /\ mean.err # "none" -> mean.err
    [] t \notin IntTypes /\ mean.err = "none" /\ std.err # "none" -> std.err
    [] t \notin IntTypes /\ mean.err = "none" /\ std.err = "none" ->
         IF std.v = Zero THEN "InvalidValue" ELSE "none"

StandardizeError(step, t) == MomentsError(t, Convert(t, step.mean), Convert(t, step.std))

StandardizeElement(step, t, x) ==
  Ok(FloatDiv(t, FloatAdd(t, x, Negative(Convert(t, step.mean).v)), Convert(t, step.std).v))

-----------------------------------------------------------------------------
(* Clamp: its bounds are resolved for the tensor's type, with a rounding   *)
(* mode for fractions and a mode for bounds the type cannot hold.          *)

ClampSteps(bounds, roundings) ==
  { s \in [op : {"clamp"}, min : bounds, max : bounds, rounding : roundings, saturate : BOOLEAN] :
      /\ \A b \in {s.min, s.max} : b # NoBound => b.v.is # "nan"
      /\ s.min # NoBound /\ s.max # NoBound =>
           s.min.ty = s.max.ty /\ ~Less(s.max.v, s.min.v) }

\* Rust rounds halves away from zero.
Rounded(mode, n) ==
  CASE mode = "floor" -> n - 1
    [] mode = "ceil"  -> n + 1
    [] mode = "round" -> n + Sign(n)

\* Mutant: the ends are swapped.
SaturatedSwapped(step, t, n) ==
  IF step.saturate THEN Ok(Num(IF F64(n) < F64(MinOf(t)) THEN MaxOf[t] ELSE MinOf(t))) ELSE Err("Overflow")

\* A bound out of the type's range becomes the type's nearest end.
Saturated(step, t, n) ==
  IF step.saturate THEN Ok(Num(IF F64(n) < F64(MinOf(t)) THEN MinOf(t) ELSE MaxOf[t])) ELSE Err("Overflow")

OrSaturated(step, t, n, c) == IF c.err = "Overflow" THEN Saturated(step, t, n) ELSE c

\* A fraction is rounded as an f64 and converted again.
RoundedBound(step, t, n) == OrSaturated(step, t, n, FloatToInt(t, Num(n)))

\* A bound that overflows must lie beyond an end as an f64, too.
Unreachable(step, t, n) == step.saturate /\ F64(n) \in F64(MinOf(t)) .. F64(MaxOf[t])

IntBoundOf(step, t, n, c) ==
  CASE c.err = "FractionalValue" /\ step.rounding # "error" ->
         RoundedBound(step, t, Rounded(step.rounding, n))
    [] c.err = "Overflow" -> IF Unreachable(step, t, n) THEN Err("panic") ELSE Saturated(step, t, n)
    [] OTHER -> c

ResolveInt(step, t, bound)   == IntBoundOf(step, t, bound.v.n, Convert(t, bound))
ResolveFloat(step, t, bound) == OrSaturated(step, t, bound.v.n, Convert(t, bound))

Resolve(step, t, bound) ==
  IF t \in IntTypes THEN ResolveInt(step, t, bound) ELSE ResolveFloat(step, t, bound)

FirstError(e, f) == IF e # "none" THEN e ELSE f
ResolveError(step, t) ==
  LET Of(b) == IF b = NoBound THEN "none" ELSE Resolve(step, t, b).err
  IN  FirstError(Of(step.min), Of(step.max))

\* x.clamp(min, max) panics when the bounds cross, and keeps NaN; x.max(min)
\* and x.min(max) give the bound for NaN.
ClampTo(step, x, lo, hi) ==
  LET Raised  == IF x.is = "nan" \/ Less(x, lo) THEN lo ELSE x
      Lowered == IF x.is = "nan" \/ Less(hi, x) THEN hi ELSE x
  IN  CASE step.min # NoBound /\ step.max # NoBound ->
             IF Less(hi, lo) THEN Err("panic")
             ELSE Ok(IF Less(x, lo) THEN lo ELSE IF Less(hi, x) THEN hi ELSE x)
        [] step.min # NoBound /\ step.max = NoBound -> Ok(Raised)
        [] step.min = NoBound /\ step.max # NoBound -> Ok(Lowered)
        [] step.min = NoBound /\ step.max = NoBound -> Ok(x)

ClampElement(step, t, x) ==
  ClampTo(step, x, Resolve(step, t, step.min).v, Resolve(step, t, step.max).v)

-----------------------------------------------------------------------------
(* One step applied to some cells of a tensor of type t: every cell is     *)
(* looked at before the first is changed.                                  *)

\* The error a step gives for the type alone.
StepError(step, t) ==
  CASE step.op = "add"         -> IF AddsNothing(step) THEN "none" ELSE Addend(step, t).err
    [] step.op = "scale"       -> Convert(t, step.factor).err
    [] step.op = "clamp"       -> ResolveError(step, t)
    [] step.op = "standardize" -> StandardizeError(step, t)

Element(step, t, x) ==
  CASE step.op = "add"         -> AddTo(step, t, x)
    [] step.op = "scale"       -> ScaleBy(step, t, x)
    [] step.op = "clamp"       -> ClampElement(step, t, x)
    [] step.op = "standardize" -> StandardizeElement(step, t, x)

\* Mutant: the loop that looks at every cell first is missing.
RefusedByTypeOnly(step, t, cells, data) == StepError(step, t) # "none"

Refused(step, t, cells, data) ==
  \/ StepError(step, t) # "none"
  \/ \E c \in cells : Element(step, t, data[c]).err # "none"

Applied(step, t, cells, data) ==
  [c \in Cells |-> IF c \in cells THEN Element(step, t, data[c]).v ELSE data[c]]

-----------------------------------------------------------------------------
\* Whatever the constructors accept.
AnyScalar == ScalarsOver(Types, AnyNumber)

AnyStep ==
  AddSteps(AnyScalar) \cup ScaleSteps(AnyScalar) \cup StandardizeSteps(AnyScalar)
    \cup ClampSteps(AnyScalar \cup {NoBound}, Rounding)

ASSUME TransformAssumption ==
  /\ ElementTypes \subseteq Types /\ Elements \subseteq AnyNumber
  /\ Operands \subseteq AnyScalar
  /\ FirstSteps \cup LaterSteps \subseteq AnyStep
  /\ MaxSteps \in Nat \ {0}

VARIABLES
  operands,    \* the scalars the user has computed the first step's from
  steps,       \* the pipeline
  ty,          \* the tensor's type,
  tensor,      \* what it held when exec was called,
  data,        \* and holds now
  run,         \* "build" | "seq" | "par" | "ok" | "failed" | "panic"
  next,        \* for every row the next step it goes through
  failedAt     \* the step an error was reported for, 0 for none

transVars == <<operands, steps, ty, tensor, data, run, next, failedAt>>

Holding(t) == { v \in Elements : Scalar(t, v) \in ScalarsOver({t}, {v}) }

TransInit ==
  /\ operands = {} /\ steps = << >>
  /\ ty \in ElementTypes
  /\ tensor \in [Cells -> Holding(ty)]
  /\ data = tensor
  /\ run = "build" /\ next = [r \in Rows |-> 1] /\ failedAt = 0

\* What a computation gives: the scalar, or a panic.
Computes(used, r) ==
  /\ operands' = used
  /\ IF r.err = "panic" THEN run' = "panic" /\ UNCHANGED steps
     ELSE /\ steps' = << [op |-> "add", value |-> r.v, wrapping |-> FALSE] >>
          /\ UNCHANGED run

\* The user computes the addend of the first step from other scalars.
Compute ==
  /\ run = "build" /\ steps = << >>
  /\ \E a \in Operands :
       \/ \E b \in Operands, op \in {"+", "-", "*", "/"} : \E r \in Arithmetic(op, a, b) : Computes({a, b}, r)
       \/ \E r \in Negation(a) : Computes({a}, r)
       \/ Computes({a}, Ok(Complement(a)))
  /\ UNCHANGED <<ty, tensor, data, next, failedAt>>

\* Pipeline::then
Then ==
  /\ run = "build" /\ Len(steps) < MaxSteps
  /\ \E step \in (IF steps = << >> THEN FirstSteps ELSE LaterSteps) : steps' = Append(steps, step)
  /\ UNCHANGED <<operands, ty, tensor, data, run, next, failedAt>>

\* Pipeline::exec: a tensor below the threshold, or a pipeline that is forced
\* to, runs as one piece; an empty pipeline does nothing.
Exec ==
  /\ run = "build"
  /\ IF steps = << >> THEN run' = "ok"
     ELSE \E large, force_atomic \in BOOLEAN :
            run' = IF force_atomic \/ ~large THEN "seq" ELSE "par"
  /\ UNCHANGED <<operands, steps, ty, tensor, data, next, failedAt>>

Panics(step, cells) ==
  \/ StepError(step, ty) = "panic"
  \/ StepError(step, ty) = "none" /\ \E c \in cells : Element(step, ty, data[c]).err = "panic"

\* exec_seq: the next step, on the whole tensor.
SeqStep ==
  /\ run = "seq"
  /\ \E i \in 1 .. Len(steps) :
       /\ \A r \in Rows : next[r] = i
       /\ IF Refused(steps[i], ty, Cells, data)
          THEN /\ run' = IF Panics(steps[i], Cells) THEN "panic" ELSE "failed"
               /\ failedAt' = i
               /\ UNCHANGED <<data, next>>
          ELSE /\ data' = Applied(steps[i], ty, Cells, data)
               /\ next' = [r \in Rows |-> i + 1]
               /\ run' = IF i = Len(steps) THEN "ok" ELSE run
               /\ UNCHANGED failedAt
  /\ UNCHANGED <<operands, steps, ty, tensor>>

\* exec_parallel: a row's next step.  The first error is the one reported; the
\* other rows may still go on.  A panic is raised again where the rows join.
RowStep(r) ==
  LET cells == {r} \X Columns
      step  == steps[next[r]]
  IN  /\ run = "par" /\ next[r] \in 1 .. Len(steps)
      /\ IF Refused(step, ty, cells, data)
         THEN /\ failedAt' = IF failedAt = 0 THEN next[r] ELSE failedAt
              /\ next' = [next EXCEPT ![r] = Len(steps) + 2]
              /\ run' = IF Panics(step, cells) THEN "panic" ELSE run
              /\ UNCHANGED data
         ELSE /\ data' = Applied(step, ty, cells, data)
              /\ next' = [next EXCEPT ![r] = @ + 1]
              /\ UNCHANGED <<run, failedAt>>
      /\ UNCHANGED <<operands, steps, ty, tensor>>

\* Mutant: an error of a row that is not the last to end is lost.
JoinForgets ==
  /\ run = "par"
  /\ \A r \in Rows : next[r] > Len(steps) \/ (failedAt # 0 /\ next[r] = 1)
  /\ run' = IF \E r \in Rows : next[r] = Len(steps) + 1 THEN "ok" ELSE "failed"
  /\ UNCHANGED <<operands, steps, ty, tensor, data, next, failedAt>>

\* try_for_each returns: after an error no row that has not begun need begin,
\* but what has begun is ended.
Join ==
  /\ run = "par"
  /\ \A r \in Rows : next[r] > Len(steps) \/ (failedAt # 0 /\ next[r] = 1)
  /\ run' = IF failedAt = 0 THEN "ok" ELSE "failed"
  /\ UNCHANGED <<operands, steps, ty, tensor, data, next, failedAt>>

Returned == run \in {"ok", "failed", "panic"} /\ UNCHANGED transVars

TransNext ==
  \/ Compute \/ Then \/ Exec \/ SeqStep \/ Join \/ Returned
  \/ \E r \in Rows : RowStep(r)

TransSpec == TransInit /\ [][TransNext]_transVars
=============================================================================
