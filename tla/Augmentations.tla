---------------------------- MODULE Augmentations ----------------------------
(***************************************************************************)
(* The augmentations and the pipeline that runs them over two scratch      *)
(* buffers of the thread (augmentation/).                                  *)
(*                                                                         *)
(* What an augmentation draws from the random number generator is a pair   *)
(* of numbers: the corner of a crop, whether to flip, whether the contrast *)
(* and the saturation factors of a jitter differ from 1.                   *)
(***************************************************************************)
EXTENDS Images

Step(op, h, w, arg) == [op |-> op, h |-> h, w |-> w, arg |-> arg]

RandomCrop(h, w) == Step("RandomCrop", h, w, 0)

Resize(h, w) == Step("Resize", h, w, 0)

\* The probability in halves, the only arguments `new` lets through.
Flips == { Step("RandomHorizontalFlip", 0, 0, p) : p \in 0 .. 2 }

\* With a mean and a deviation for each of so many channels.
Normalizes(means, deviations) ==
  { Step("Normalize", 0, 0, n) : n \in { k \in means : k \in deviations } }

\* Which of contrast and saturation are jittered; brightness always is.
Jitters == { Step("ColorJitter", 0, 0, k) : k \in 0 .. 3 }

ChangesSize(step) == step.op \in {"RandomCrop", "Resize"}

\* AugmentationPipeline::then: a sequence with the longer pipeline, or none.
Then(pipe, step) ==
  IF ChangesSize(step) /\ \E k \in DOMAIN pipe : ~ChangesSize(pipe[k]) THEN << >> ELSE << Append(pipe, step) >>

NoSize == << 0, 0 >>

SizeChanging(pipe) == { k \in DOMAIN pipe : ChangesSize(pipe[k]) }

FixedSize(step) == << step.h, step.w >>

OutputSize(pipe) ==
  IF SizeChanging(pipe) = {} THEN NoSize ELSE FixedSize(pipe[Largest(SizeChanging(pipe))])

\* The last of those with the largest area.
MaxIntermediateSize(pipe) ==
  LET Area(k) == pipe[k].h * pipe[k].w
      Most    == { k \in SizeChanging(pipe) : \A j \in SizeChanging(pipe) : Area(j) <= Area(k) }
  IN  IF Most = {} THEN NoSize ELSE FixedSize(pipe[Largest(Most)])

-----------------------------------------------------------------------------
(***************************************************************************)
(* One step, from an input buffer whose first elements are an image of     *)
(* h x w to an output buffer: the new size and the output, or an error.    *)
(***************************************************************************)
To(h, w, out)         == [err |-> "none", h |-> h, w |-> w, out |-> out]
Broken(e, h, w, out)  == [err |-> e, h |-> h, w |-> w, out |-> out]

Elements(h, w) == Channels * h * w

\* Both buffers hold the image and nothing else.
FitsExactly(in, h, w, out) ==
  DOMAIN in = 0 .. Elements(h, w) - 1 /\ DOMAIN out = DOMAIN in

\* A value made of several: all their sources, adjusted as often.
Blend(values) == << UNION { v[1] : v \in values }, Largest({ v[2] : v \in values }) >>

Adjusted(v) == << v[1], v[2] + 1 >>

FlipDraws(step) ==
  { << b, 0 >> : b \in {0, 1} \ (IF step.arg = 0 THEN {1} ELSE IF step.arg = 2 THEN {0} ELSE {}) }

FlipApply(step, in, h, w, out, d) ==
  IF ~FitsExactly(in, h, w, out) THEN Broken("InvalidParameter", h, w, out)
  ELSE To(h, w, [i \in DOMAIN out |-> IF d[1] = 0 THEN in[i] ELSE in[i - ColumnOf(i, w) + w - 1 - ColumnOf(i, w)]])

CropFits(step, h, w) == step.h <= h /\ step.w <= w

CropDraws(step, h, w) ==
  IF CropFits(step, h, w) THEN (0 .. h - step.h) \X (0 .. w - step.w) ELSE {NoSize}

CropApply(step, in, h, w, out, d) ==
  IF ~CropFits(step, h, w) THEN Broken("InvalidParameter", h, w, out)
  ELSE IF Elements(step.h, step.w) > Cardinality(DOMAIN out) THEN Broken("panic", h, w, out)
  ELSE To(step.h, step.w, Overlay(out, [ i \in 0 .. Elements(step.h, step.w) - 1 |->
         in[ Index(ChannelOf(i, step.h, step.w), d[1] + RowOf(i, step.h, step.w), d[2] + ColumnOf(i, step.w), h, w) ] ]))

\* The bilinear filter of the resizer: the rows, or columns, of n that row k
\* of m is an average of.
Support(k, n, m) ==
  { r \in 0 .. n - 1 : LET gap == (2 * k + 1) * n - (2 * r + 1) * m
                       IN  -2 * Larger(n, m) < gap /\ gap < 2 * Larger(n, m) }

ResizedTypes == {"f32", "u8"}

ResizeApply(step, dt, in, h, w, out) ==
  LET n == Elements(step.h, step.w)
      At(i) == Blend({ in[Index(ChannelOf(i, step.h, step.w), y, x, h, w)] :
                       y \in Support(RowOf(i, step.h, step.w), h, step.h),
                       x \in Support(ColumnOf(i, step.w), w, step.w) })
  IN  CASE FixedSize(step) = << h, w >> ->
             IF Cardinality(DOMAIN in) > Cardinality(DOMAIN out) THEN Broken("panic", h, w, out)
             ELSE To(h, w, Overlay(out, in))
        [] FixedSize(step) # << h, w >> /\ dt \notin ResizedTypes -> Broken("UnsupportedDtype", h, w, out)
        [] FixedSize(step) # << h, w >> /\ dt \in ResizedTypes ->
             IF n > Cardinality(DOMAIN out) THEN Broken("panic", h, w, out)
             ELSE To(step.h, step.w, Overlay(out, [i \in 0 .. n - 1 |-> At(i)]))

NormalizeApply(step, dt, in, h, w, out) ==
  CASE dt # "f32" -> Broken("UnsupportedDtype", h, w, out)
    [] dt = "f32" /\ (step.arg # Channels \/ ~FitsExactly(in, h, w, out)) -> Broken("InvalidParameter", h, w, out)
    [] dt = "f32" /\ step.arg = Channels /\ FitsExactly(in, h, w, out) ->
         To(h, w, [i \in DOMAIN in |-> Adjusted(in[i])])

JitterDraws(step) ==
  (IF step.arg \in {1, 3} THEN {0, 1} ELSE {0}) \X (IF step.arg \in {2, 3} THEN {0, 1} ELSE {0})

\* Contrast is about the mean of the image, saturation about the pixel's luma.
JitterApply(step, dt, in, h, w, out, d) ==
  LET bright == [i \in DOMAIN in |-> Adjusted(in[i])]
      contrast == IF d[1] = 0 THEN bright ELSE [i \in DOMAIN in |-> Blend({ bright[j] : j \in DOMAIN in })]
      Luma(i) == Blend({ contrast[c * h * w + (i % (h * w))] : c \in 0 .. Channels - 1 })
  IN  CASE dt # "f32" -> Broken("UnsupportedDtype", h, w, out)
        [] dt = "f32" /\ ~FitsExactly(in, h, w, out) -> Broken("InvalidParameter", h, w, out)
        [] dt = "f32" /\ FitsExactly(in, h, w, out) ->
             To(h, w, IF d[2] = 0 THEN contrast ELSE [i \in DOMAIN in |-> Luma(i)])

StepDraws(step, h, w) ==
  CASE step.op = "RandomHorizontalFlip" -> FlipDraws(step)
    [] step.op = "RandomCrop"           -> CropDraws(step, h, w)
    [] step.op = "ColorJitter"          -> JitterDraws(step)
    [] OTHER                            -> {NoSize}

Apply(step, dt, in, h, w, out, d) ==
  CASE step.op = "RandomHorizontalFlip" -> FlipApply(step, in, h, w, out, d)
    [] step.op = "RandomCrop"           -> CropApply(step, in, h, w, out, d)
    [] step.op = "Resize"               -> ResizeApply(step, dt, in, h, w, out)
    [] step.op = "Normalize"            -> NormalizeApply(step, dt, in, h, w, out)
    [] step.op = "ColorJitter"          -> JitterApply(step, dt, in, h, w, out, d)

-----------------------------------------------------------------------------
(***************************************************************************)
(* The pipeline.  Its two buffers are cut out of the thread's scratch: the *)
(* first is as long as the longer of input and output, the second is all   *)
(* the rest, longer still once a larger image has been through.            *)
(***************************************************************************)
\* All that a pipeline may draw for an image of h x w.
Draws(pipe, h, w) ==
  LET SizeAt(k) == LET before == { j \in SizeChanging(pipe) : j < k }
                   IN  IF before = {} THEN << h, w >> ELSE FixedSize(pipe[Largest(before)])
      drawn[k \in 0 .. Len(pipe)] ==
        IF k = 0 THEN { << >> }
        ELSE { Append(ds, d) : ds \in drawn[k - 1], d \in StepDraws(pipe[k], SizeAt(k)[1], SizeAt(k)[2]) }
  IN  drawn[Len(pipe)]

ScratchAfter(pipe, scratch, in, out) ==
  IF pipe = << >> THEN scratch
  ELSE Larger(scratch, 2 * Larger(Cardinality(DOMAIN in), Cardinality(DOMAIN out)))

\* The image is in the input, in the first buffer or in the second.
Holding(s, in) == IF s.active = "in" THEN in ELSE IF s.active = "a" THEN s.a ELSE s.b

\* A step that changes the size goes from one whole buffer to the other.
Resized(s, into, r) ==
  [ err |-> r.err, h |-> r.h, w |-> r.w, active |-> into,
    a |-> IF into = "a" THEN r.out ELSE s.a, b |-> IF into = "b" THEN r.out ELSE s.b ]

ResizingStep(s, step, dt, in, d) ==
  LET into == IF s.active = "a" THEN "b" ELSE "a"
  IN  Resized(s, into, Apply(step, dt, Holding(s, in), s.h, s.w, IF into = "a" THEN s.a ELSE s.b, d))

\* The others work on the image's elements alone, beginning in the first.
InFirst(s, in) ==
  [s EXCEPT !.a = Overlay(s.a, Slice(Holding(s, in), Elements(s.h, s.w))), !.active = "a"]

Kept(s, r) ==
  IF s.active = "a" THEN [s EXCEPT !.err = r.err, !.b = Overlay(s.b, r.out), !.active = "b"]
                    ELSE [s EXCEPT !.err = r.err, !.a = Overlay(s.a, r.out), !.active = "a"]

KeepInTurn(s, step, dt, d, n) ==
  Kept(s, Apply(step, dt, Slice(IF s.active = "a" THEN s.a ELSE s.b, n), s.h, s.w,
                          Slice(IF s.active = "a" THEN s.b ELSE s.a, n), d))

KeepingStep(s, step, dt, in, d, first) ==
  KeepInTurn(IF first /\ s.active # "a" THEN InFirst(s, in) ELSE s, step, dt, d, Elements(s.h, s.w))

\* The result is copied to the output.
CopiedOut(s, in, out) ==
  IF s.err # "none" THEN Broken(s.err, s.h, s.w, out)
  ELSE IF Elements(s.h, s.w) > Cardinality(DOMAIN out) THEN Broken("panic", s.h, s.w, out)
  ELSE To(s.h, s.w, Overlay(out, Slice(Holding(s, in), Elements(s.h, s.w))))

PipelineApply(pipe, dt, in, h, w, out, scratch, draws) ==
  LET n == Larger(Cardinality(DOMAIN in), Cardinality(DOMAIN out))
      start == [err |-> "none", h |-> h, w |-> w, active |-> "in",
                a |-> Fresh(n), b |-> Fresh(Larger(scratch, 2 * n) - n)]
      after[k \in 0 .. Len(pipe)] ==
        IF k = 0 THEN start
        ELSE LET s == after[k - 1]
             IN  IF s.err # "none" THEN s
                 ELSE IF ChangesSize(pipe[k]) THEN ResizingStep(s, pipe[k], dt, in, draws[k])
                 ELSE KeepingStep(s, pipe[k], dt, in, draws[k], \A j \in 1 .. k - 1 : ChangesSize(pipe[j]))
  IN  CopiedOut(after[Len(pipe)], in, out)
=============================================================================
