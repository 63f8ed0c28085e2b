----------------------------- MODULE SoundProofs -----------------------------
(***************************************************************************)
(* Proofs that from sound data only Ctrl-C, or a TarDataset without more   *)
(* records, ends the stream, where the batches fit in their slots.  The    *)
(* lemmas go the way an item goes, and say of each part that it does not   *)
(* fail: pipeline, copies, writer, reader, buffer, layouts, headers; then  *)
(* there is one for each action.                                           *)
(***************************************************************************)
EXTENDS ReaderProofs

-----------------------------------------------------------------------------
(* The pipeline.                                                           *)

\* A step that an image of h x w goes through.
Takes(step, dt, h, w) ==
  /\ step.op = "RandomCrop" => CropFits(step, h, w)
  /\ step.op = "Resize" => dt \in ResizedTypes \/ FixedSize(step) = << h, w >>
  /\ step.op = "Normalize" => dt = "f32" /\ step.arg = Channels
  /\ step.op = "ColorJitter" => dt = "f32"

(***************************************************************************)
(* A pipeline that accepts an image takes what its steps make of it.       *)
(***************************************************************************)
LEMMA EachTakes ==
  ASSUME NEW pipe, NEW dt, NEW h, NEW w, Accepts(pipe, dt, h, w), NEW k \in DOMAIN pipe,
         NEW y, NEW x, << y, x >> = SizeBefore(pipe, k, h, w)
  PROVE  Takes(pipe[k], dt, y, x)
<1> DEFINE z == SizeBefore(pipe, k, h, w)
           before == { j \in SizeChanging(pipe) : j < k }
<1>1. z = IF before = {} THEN << h, w >> ELSE FixedSize(pipe[Largest(before)])
  BY DEF SizeBefore
<1>2. /\ pipe[k].op = "RandomCrop" =>
            CropFits(pipe[k], (IF before = {} THEN << h, w >> ELSE FixedSize(pipe[Largest(before)]))[1],
                              (IF before = {} THEN << h, w >> ELSE FixedSize(pipe[Largest(before)]))[2])
      /\ pipe[k].op = "Resize" =>
            dt \in ResizedTypes \/ FixedSize(pipe[k]) = IF before = {} THEN << h, w >> ELSE FixedSize(pipe[Largest(before)])
      /\ pipe[k].op = "Normalize" => dt = "f32" /\ pipe[k].arg = Channels
      /\ pipe[k].op = "ColorJitter" => dt = "f32"
  BY DEF Accepts
<1>3. << y, x >> = z
  OBVIOUS
<1> HIDE DEF before
<1>4. pipe[k].op = "RandomCrop" => CropFits(pipe[k], z[1], z[2])
  BY <1>1, <1>2
<1>5. pipe[k].op = "Resize" => dt \in ResizedTypes \/ FixedSize(pipe[k]) = z
  BY <1>1, <1>2
<1> HIDE DEF z
<1>6. z[1] = y /\ z[2] = x
  BY <1>3
<1> QED
  BY <1>2, <1>3, <1>4, <1>5, <1>6 DEF Takes

(***************************************************************************)
(* A step that changes the size does not fail: the buffers are long        *)
(* enough, if it does not copy a longer one.                               *)
(***************************************************************************)
LEMMA ResizingNeverFails ==
  ASSUME NEW s, NEW in, IsBuffer(in), NEW n \in Nat, NEW pic, ShowsStage(s, in, n, pic),
         NEW step \in AnyStep, ChangesSize(step), Elements(step.h, step.w) <= n,
         NEW dt, Takes(step, dt, pic.h, pic.w), NEW d,
         s.active = "in" => Cardinality(DOMAIN in) <= n,
         s.active = "b" => ~ (step.op = "Resize" /\ FixedSize(step) = << pic.h, pic.w >>)
  PROVE  /\ ResizingStep(s, step, dt, in, d).err = "none"
         /\ ResizingStep(s, step, dt, in, d).active = IF s.active = "a" THEN "b" ELSE "a"
<1> DEFINE into == IF s.active = "a" THEN "b" ELSE "a"
           o == IF into = "a" THEN s.a ELSE s.b
           i == Holding(s, in)
           r == Apply(step, dt, i, s.h, s.w, o, d)
<1>1. /\ ResizingStep(s, step, dt, in, d).err = r.err
      /\ ResizingStep(s, step, dt, in, d).active = into
  BY DEF ResizingStep, Resized
<1>2. /\ s.active \in {"in", "a", "b"} /\ DOMAIN s.a = 0 .. n - 1 /\ IsBuffer(s.b) /\ n <= Cardinality(DOMAIN s.b)
      /\ s.h = pic.h /\ s.w = pic.w
  BY DEF ShowsStage
<1>3. Cardinality(DOMAIN s.a) = n
  BY <1>2, FS_Interval
<1>4. Cardinality(DOMAIN s.b) \in Nat /\ Cardinality(DOMAIN in) \in Nat
  BY <1>2, BufferIs
<1>5. n <= Cardinality(DOMAIN o) /\ Cardinality(DOMAIN o) \in Nat
  BY <1>2, <1>3, <1>4
<1>6. Elements(step.h, step.w) \in Nat
  BY ElementsTyped DEF AnyStep
<1>7. ~ (Elements(step.h, step.w) > Cardinality(DOMAIN o))
  BY <1>5, <1>6
<1>8. FixedSize(step) = << s.h, s.w >> /\ step.op = "Resize" => ~ (Cardinality(DOMAIN i) > Cardinality(DOMAIN o))
  BY <1>2, <1>3, <1>4 DEF Holding
<1> HIDE DEF i, o, into
<1>9. CASE step.op = "RandomCrop"
  <2>1. r = CropApply(step, i, s.h, s.w, o, d)
    BY <1>9 DEF Apply
  <2>2. CropFits(step, s.h, s.w)
    BY <1>2, <1>9 DEF Takes
  <2>3. r.err = "none"
    BY <1>7, <2>1, <2>2 DEF CropApply, To
  <2> QED
    BY <1>1, <2>3 DEF into
<1>10. CASE step.op = "Resize"
  <2>1. r = ResizeApply(step, dt, i, s.h, s.w, o)
    BY <1>10 DEF Apply
  <2>2. dt \in ResizedTypes \/ FixedSize(step) = << s.h, s.w >>
    BY <1>2, <1>10 DEF Takes
  <2>3. r.err = "none"
    <3>1. CASE FixedSize(step) = << s.h, s.w >>
      <4>1. ~ (Cardinality(DOMAIN i) > Cardinality(DOMAIN o))
        BY <1>8, <1>10, <3>1
      <4> QED
        BY <2>1, <3>1, <4>1 DEF ResizeApply, To
    <3>2. CASE FixedSize(step) # << s.h, s.w >>
      BY <1>7, <2>1, <2>2, <3>2 DEF ResizeApply, To
    <3> QED
      BY <3>1, <3>2
  <2> QED
    BY <1>1, <2>3 DEF into
<1> QED
  BY <1>9, <1>10 DEF ChangesSize

(***************************************************************************)
(* A step that keeps the size does not fail: it works on slices of the     *)
(* image's own length.                                                     *)
(***************************************************************************)
LEMMA KeepingNeverFails ==
  ASSUME NEW s, s.h \in Nat, s.w \in Nat, DOMAIN s = {"err", "h", "w", "active", "a", "b"},
         NEW step \in AnyStep, ~ChangesSize(step), NEW dt, Takes(step, dt, s.h, s.w), NEW d
  PROVE  KeepInTurn(s, step, dt, d, Elements(s.h, s.w)).err = "none"
<1> DEFINE n == Elements(s.h, s.w)
           i == Slice(IF s.active = "a" THEN s.a ELSE s.b, n)
           o == Slice(IF s.active = "a" THEN s.b ELSE s.a, n)
           r == Apply(step, dt, i, s.h, s.w, o, d)
<1>1. KeepInTurn(s, step, dt, d, n) = Kept(s, r)
  BY DEF KeepInTurn
<1>2. FitsExactly(i, s.h, s.w, o)
  BY DEF FitsExactly, Slice
<1> HIDE DEF n, i, o
<1>3. step.op \in {"RandomHorizontalFlip", "Normalize", "ColorJitter"}
  BY DEF AnyStep, ChangesSize
<1>4. r.err = "none"
  <2>1. CASE step.op = "RandomHorizontalFlip"
    BY <1>2, <2>1 DEF Apply, FlipApply, To
  <2>2. CASE step.op = "Normalize"
    BY <1>2, <2>2 DEF Apply, NormalizeApply, To, Takes
  <2>3. CASE step.op = "ColorJitter"
    BY <1>2, <2>3 DEF Apply, JitterApply, To, Takes
  <2> QED
    BY <1>3, <2>1, <2>2, <2>3
<1> HIDE DEF r
<1>5. Kept(s, r).err = r.err
  BY DEF Kept
<1> QED
  BY <1>1, <1>4, <1>5 DEF n

\* While sizes change, the image goes from one buffer to the other.
Turn(pipe, k, s) ==
  (\A j \in 1 .. k : ChangesSize(pipe[j])) => s.active = IF k = 0 THEN "in" ELSE IF k % 2 = 1 THEN "a" ELSE "b"

(***************************************************************************)
(* A step of a sound pipeline does not fail.                               *)
(***************************************************************************)
LEMMA StageNeverFails ==
  ASSUME NEW pipe \in Seq(AnyStep), NEW k \in 1 .. Len(pipe), NEW in, IsBuffer(in), NEW n \in Nat,
         Cardinality(DOMAIN in) <= n, NEW h \in Nat, NEW w \in Nat,
         NEW s, s.err = "none", NEW pic, ShowsStage(s, in, n, pic), << pic.h, pic.w >> = SizeBefore(pipe, k, h, w),
         HasRoom(pipe, n), NEW dt, NEW draws, Accepts(pipe, dt, h, w), InOrder(pipe), ~CopiesScratch(pipe),
         Turn(pipe, k - 1, s)
  PROVE  StageAfter(pipe, dt, in, draws, k, s).err = "none" /\ Turn(pipe, k, StageAfter(pipe, dt, in, draws, k, s))
<1> DEFINE step == pipe[k]
           d == draws[k]
           t == StageAfter(pipe, dt, in, draws, k, s)
<1>1. step \in AnyStep /\ k \in DOMAIN pipe /\ k - 1 \in Nat
  OBVIOUS
<1>2. pic.h \in Nat /\ pic.w \in Nat /\ s.h = pic.h /\ s.w = pic.w /\ DOMAIN s = {"err", "h", "w", "active", "a", "b"}
  BY DEF ShowsStage, IsPicture
<1>3. Takes(step, dt, pic.h, pic.w)
  BY <1>1, EachTakes
<1>4. CASE ChangesSize(step)
  <2>1. t = ResizingStep(s, step, dt, in, d)
    BY <1>4 DEF StageAfter
  <2>2. Elements(step.h, step.w) <= n
    <3> DEFINE most == Elements(MaxIntermediateSize(pipe)[1], MaxIntermediateSize(pipe)[2])
    <3>1. k \in SizeChanging(pipe)
      BY <1>4 DEF SizeChanging
    <3>2. Elements(step.h, step.w) <= most
      BY <3>1, LargestArea
    <3>3. most <= n
      BY <3>1 DEF HasRoom
    <3>4. Elements(step.h, step.w) \in Nat
      BY <1>1, ElementsTyped DEF AnyStep
    <3>5. most \in Nat
      <4>1. MaxIntermediateSize(pipe) \in Nat \X Nat
        BY PipelineSizes
      <4> QED
        BY <4>1, ElementsTyped
    <3> HIDE DEF most, step
    <3> QED
      BY <3>2, <3>3, <3>4, <3>5
  <2>3. \A j \in 1 .. k : ChangesSize(pipe[j])
    BY <1>1, <1>4 DEF InOrder
  <2>4. s.active = IF k - 1 = 0 THEN "in" ELSE IF (k - 1) % 2 = 1 THEN "a" ELSE "b"
    BY <2>3 DEF Turn
  <2>5. ASSUME s.active = "b", step.op = "Resize", FixedSize(step) = << pic.h, pic.w >>
        PROVE  FALSE
    <3>1. k > 2 /\ k % 2 = 1 /\ k - 1 \in 1 .. Len(pipe) /\ (k - 1) + 1 = k
      <4>1. k - 1 # 0 /\ (k - 1) % 2 # 1
        BY <2>4, <2>5
      <4>2. k \in Nat /\ k > 2 /\ k % 2 = 1
        BY <1>1, <4>1
      <4> QED
        BY <4>2
    <3>2. SizeBefore(pipe, (k - 1) + 1, h, w) = FixedSize(pipe[k - 1])
      <4>1. ChangesSize(pipe[k - 1])
        BY <2>3, <3>1
      <4> QED
        BY <3>1, <4>1, SizesFollow
    <3>3. FixedSize(pipe[k]) = FixedSize(pipe[k - 1])
      BY <2>5, <3>1, <3>2
    <3> QED
      BY <1>1, <2>5, <3>1, <3>3 DEF CopiesScratch
  <2> HIDE DEF t, step, d
  <2>6. /\ ResizingStep(s, step, dt, in, d).err = "none"
        /\ ResizingStep(s, step, dt, in, d).active = IF s.active = "a" THEN "b" ELSE "a"
    BY <1>1, <1>3, <1>4, <2>2, <2>5, ResizingNeverFails
  <2>7. t.err = "none" /\ t.active = IF k = 0 THEN "in" ELSE IF k % 2 = 1 THEN "a" ELSE "b"
    BY <2>1, <2>4, <2>6
  <2> QED
    BY <2>7 DEF t, Turn
<1>5. CASE ~ChangesSize(step)
  <2> DEFINE first == \A j \in 1 .. k - 1 : ChangesSize(pipe[j])
             u == IF first /\ s.active # "a" THEN InFirst(s, in) ELSE s
             v == KeepInTurn(u, step, dt, d, Elements(u.h, u.w))
  <2>1. u.h = s.h /\ u.w = s.w /\ DOMAIN u = DOMAIN s
    BY <1>2 DEF InFirst
  <2>2. t = v
    <3>1. t = KeepingStep(s, step, dt, in, d, first)
      BY <1>5 DEF StageAfter
    <3> HIDE DEF first
    <3>2. KeepingStep(s, step, dt, in, d, first) = KeepInTurn(u, step, dt, d, Elements(s.h, s.w))
      BY DEF KeepingStep
    <3> QED
      BY <2>1, <3>1, <3>2
  <2> HIDE DEF u, t, step, d
  <2>3. v.err = "none"
    <3>1. u.h \in Nat /\ u.w \in Nat /\ DOMAIN u = {"err", "h", "w", "active", "a", "b"} /\ Takes(step, dt, u.h, u.w)
      BY <1>2, <1>3, <2>1
    <3> QED
      BY <1>1, <1>5, <3>1, KeepingNeverFails
  <2>4. Turn(pipe, k, t)
    BY <1>5 DEF Turn, step
  <2> QED
    BY <2>2, <2>3, <2>4 DEF t
<1> QED
  BY <1>4, <1>5

(***************************************************************************)
(* A pipeline that accepts an image does not fail on it, whatever images   *)
(* have been through the thread's scratch buffers.                         *)
(***************************************************************************)
THEOREM PipelineNeverFails ==
  ASSUME NEW pipe \in Seq(AnyStep), NEW pic, IsPicture(pic), NEW in, IsBuffer(in), Holds(in, pic),
         NEW dt, NEW out, IsBuffer(out), NEW doubles \in Nat, NEW draws \in Draws(pipe, pic.h, pic.w),
         HasRoom(pipe, Cardinality(DOMAIN out)), Cardinality(DOMAIN in) <= Cardinality(DOMAIN out),
         Accepts(pipe, dt, pic.h, pic.w), InOrder(pipe), ~CopiesScratch(pipe)
  PROVE  PipelineApply(pipe, dt, in, pic.h, pic.w, out, doubles, draws).err = "none"
<1> DEFINE last == Len(pipe)
           n == Larger(Cardinality(DOMAIN in), Cardinality(DOMAIN out))
           g == Stages(pipe, dt, in, pic.h, pic.w, out, doubles, draws)
           p == PicturesOf(pipe, pic, draws)
           r == PipelineApply(pipe, dt, in, pic.h, pic.w, out, doubles, draws)
           Goes(k) == /\ g[k].err = "none" /\ Turn(pipe, k, g[k])
                      /\ ShowsStage(g[k], in, n, p[k])
                      /\ << p[k].h, p[k].w >> = SizeBefore(pipe, k + 1, pic.h, pic.w)
                      /\ k # 0 => g[k].active # "in"
           T == { k \in Nat : k <= last => Goes(k) }
<1>1. last \in Nat /\ pic.h \in Nat /\ pic.w \in Nat
  BY DEF IsPicture
<1>2. /\ r = CopiedOut(g[last], in, out)
      /\ g[0] = FirstStage(in, pic.h, pic.w, out, doubles)
      /\ \A k \in 1 .. last : g[k] = StageAfter(pipe, dt, in, draws, k, g[k - 1])
  BY <1>1, StagesAre
<1>3. p[0] = pic /\ \A k \in 1 .. last : p[k] = Augmented(p[k - 1], pipe[k], draws[k])
  BY <1>1, PicturesAre
<1> HIDE DEF g, p
<1>4. n \in Nat /\ ShowsStage(g[0], in, n, p[0])
  BY <1>2, <1>3, FirstShows
<1>5. n = Cardinality(DOMAIN out) /\ Cardinality(DOMAIN in) <= n
  <2>1. Cardinality(DOMAIN in) \in Nat /\ Cardinality(DOMAIN out) \in Nat
    BY BufferIs
  <2> QED
    BY <2>1 DEF Larger
<1>6. HasRoom(pipe, n)
  BY <1>5
<1>7. g[0].err = "none" /\ g[0].active = "in"
  BY <1>2 DEF FirstStage
<1> HIDE DEF n, last, r
<1>8. 0 \in T
  <2>1. SizeBefore(pipe, 1, pic.h, pic.w) = << pic.h, pic.w >>
    BY <1>1, SizesFollow
  <2>2. 0 + 1 = 1
    OBVIOUS
  <2>3. SizeBefore(pipe, 0 + 1, pic.h, pic.w) = << pic.h, pic.w >>
    BY <2>1, <2>2
  <2>4. Turn(pipe, 0, g[0])
    BY <1>7 DEF Turn
  <2>5. Goes(0)
    BY <1>3, <1>4, <1>7, <2>3, <2>4
  <2> QED
    BY <2>5
<1>9. ASSUME NEW k \in Nat, k \in T
      PROVE  k + 1 \in T
  <2> SUFFICES ASSUME k + 1 <= last
               PROVE  Goes(k + 1)
    OBVIOUS
  <2>1. k + 1 \in 1 .. Len(pipe) /\ (k + 1) - 1 = k /\ k <= last
    BY <1>1 DEF last
  <2>2. g[k + 1] = StageAfter(pipe, dt, in, draws, k + 1, g[k]) /\ p[k + 1] = Augmented(p[k], pipe[k + 1], draws[k + 1])
    BY <1>2, <1>3, <2>1 DEF last
  <2>3. Goes(k)
    BY <1>9, <2>1
  <2> HIDE DEF T
  <2> DEFINE j == k + 1
             s == g[k]
             q == p[k]
             h == pic.h
             w == pic.w
  <2>4. /\ j \in 1 .. Len(pipe) /\ h \in Nat /\ w \in Nat /\ ShowsStage(s, in, n, q) /\ s.err = "none"
        /\ << q.h, q.w >> = SizeBefore(pipe, j, h, w) /\ (j # 1 => s.active # "in")
        /\ HasRoom(pipe, n) /\ draws \in Draws(pipe, h, w) /\ Accepts(pipe, dt, h, w)
        /\ Turn(pipe, j - 1, s)
    BY <1>1, <1>6, <2>1, <2>3
  <2> HIDE DEF j, s, q, h, w
  <2>5. StageAfter(pipe, dt, in, draws, j, s).err = "none" /\ Turn(pipe, j, StageAfter(pipe, dt, in, draws, j, s))
    BY <1>4, <1>5, <2>4, StageNeverFails
  <2>6. /\ ShowsStage(StageAfter(pipe, dt, in, draws, j, s), in, n, Augmented(q, pipe[j], draws[j]))
        /\ StageAfter(pipe, dt, in, draws, j, s).active # "in"
        /\ << Augmented(q, pipe[j], draws[j]).h, Augmented(q, pipe[j], draws[j]).w >> = SizeBefore(pipe, j + 1, h, w)
    BY <1>4, <2>4, <2>5, StageShows
  <2>7. j # 0 /\ g[j] = StageAfter(pipe, dt, in, draws, j, s) /\ p[j] = Augmented(q, pipe[j], draws[j])
    BY <2>2, <2>4 DEF j, s, q
  <2>8. Goes(j)
    BY <2>5, <2>6, <2>7 DEF Goes, h, w
  <2> QED
    BY <2>8 DEF j
<1>10. Nat \subseteq T
  BY <1>8, <1>9, InductionOnSet
<1>11. g[last].err = "none" /\ ShowsStage(g[last], in, n, p[last])
  <2>1. last \in T
    BY <1>1, <1>10
  <2> QED
    BY <1>1, <2>1
<1>12. ~ (Elements(g[last].h, g[last].w) > Cardinality(DOMAIN out))
  <2>1. g[last].h = p[last].h /\ g[last].w = p[last].w /\ Elements(p[last].h, p[last].w) <= n /\ IsPicture(p[last])
    BY <1>11 DEF ShowsStage
  <2>2. Elements(p[last].h, p[last].w) \in Nat
    BY <2>1, ElementsTyped DEF IsPicture
  <2> QED
    BY <1>4, <1>5, <2>1, <2>2
<1>13. r.err = "none"
  BY <1>2, <1>11, <1>12 DEF CopiedOut, To
<1> QED
  BY <1>13 DEF r

-----------------------------------------------------------------------------
(* Sound images.                                                           *)

(***************************************************************************)
(* A sound image is decoded into a buffer that is large enough.            *)
(***************************************************************************)
LEMMA DecodeNeverFails ==
  ASSUME NEW img \in AnyImage, img.damage = "none", NEW out, NEW stride \in Nat, NEW height \in Nat,
         img.w <= stride, img.h <= height, Elements(height, stride) <= Cardinality(DOMAIN out),
         Cardinality(DOMAIN out) \in Nat
  PROVE  Decode(img, out, stride, height).err = "none"
<1>1. img.h \in Nat /\ img.w \in Nat
  BY DEF AnyImage
<1>2. ~ (stride < img.w \/ height < img.h)
  BY <1>1
<1>3. ~ (Channels * stride * height > Cardinality(DOMAIN out))
  <2>1. Elements(height, stride) = Channels * height * stride
    BY DEF Elements
  <2>2. Channels * stride * height = Channels * height * stride /\ Channels * height * stride \in Nat
    BY DEF Channels
  <2> QED
    BY <2>1, <2>2
<1> QED
  BY <1>1, <1>2, <1>3 DEF Decode, Done

(***************************************************************************)
(* All rows of an image fit a buffer for a larger one.                     *)
(***************************************************************************)
LEMMA RowsNeverFail ==
  ASSUME NEW src, NEW h \in Nat, NEW w \in Nat, NEW out, Cardinality(DOMAIN out) \in Nat,
         NEW H \in Nat, NEW W \in Nat, h <= H, w <= W, Elements(H, W) <= Cardinality(DOMAIN out)
  PROVE  PaddedRows(src, h, w, out, H, W).err = "none"
<1> DEFINE c == Cardinality(DOMAIN out)
<1>1. ASSUME NEW r \in 0 .. Channels * h - 1
      PROVE  ~ (RowStart(r, h, H, W) + w > c)
  <2> DEFINE p == r \div h
             y == r % h
             s == RowStart(r, h, H, W)
  <2>1. p \in Planes /\ y \in 0 .. h - 1
    BY RowHas
  <2>2. s \in Nat /\ s + 0 = Index(p, y, 0, H, W)
    <3> HIDE DEF s, p, y
    <3>1. 0 \in Nat
      OBVIOUS
    <3> QED
      BY <3>1, RowStartIs DEF s, p, y
  <2>3. s = p * H * W + y * W
    <3> HIDE DEF s, p, y
    <3>1. p * H * W + y * W + 0 = p * H * W + y * W
      <4>1. p * H * W \in Nat /\ y * W \in Nat
        BY <2>1 DEF Planes, Channels
      <4> QED
        BY <4>1
    <3> QED
      BY <2>2, <3>1 DEF Index
  <2> HIDE DEF s, p, y
  <2>4. Elements(H, W) = 3 * (H * W)
    BY DEF Elements, Channels
  <2>5. y * W + W <= H * W /\ y * W \in Nat /\ H * W \in Nat
    <3>1. y + 1 \in Nat /\ y + 1 <= H /\ y \in Nat
      BY <2>1
    <3>2. (y + 1) * W <= H * W
      BY <3>1, ProductsGrow
    <3>3. (y + 1) * W = y * W + W
      BY <3>1
    <3> QED
      BY <3>1, <3>2, <3>3
  <2>6. p * H * W + H * W <= 3 * (H * W) /\ p * H * W \in Nat
    <3> DEFINE a == H * W
    <3>1. a \in Nat /\ p \in {0, 1, 2}
      BY <2>1 DEF Planes, Channels
    <3>2. p * H * W = p * a
      BY <2>1 DEF Planes, Channels
    <3> HIDE DEF a
    <3>3. p * a + a <= 3 * a /\ p * a \in Nat
      BY <3>1
    <3> QED
      BY <3>2, <3>3 DEF a
  <2>7. s + w <= 3 * (H * W)
    <3> DEFINE u == p * H * W
               v == y * W
               a == H * W
    <3>1. u \in Nat /\ v \in Nat /\ a \in Nat /\ s = u + v /\ v + W <= a /\ u + a <= 3 * a
      BY <2>3, <2>5, <2>6
    <3> HIDE DEF u, v, a
    <3>2. s + w <= 3 * a
      BY <3>1
    <3> QED
      BY <3>2 DEF a
  <2> DEFINE a == 3 * (H * W)
  <2>8. a \in Nat /\ a <= c
    BY <2>4
  <2> HIDE DEF a, c
  <2>9. s + w <= a
    BY <2>7 DEF a
  <2>10. ~ (s + w > c)
    BY <2>2, <2>8, <2>9 DEF c
  <2> QED
    BY <2>10 DEF s
<1>2. ~ \E r \in 0 .. Channels * h - 1 : RowStart(r, h, H, W) + w > Cardinality(DOMAIN out)
  BY <1>1
<1> QED
  BY <1>2 DEF PaddedRows, Done

(***************************************************************************)
(* Neither copy fails on an image that fits.                               *)
(***************************************************************************)
LEMMA CopiesNeverFail ==
  ASSUME NEW h \in Nat, NEW w \in Nat, NEW src, DOMAIN src = 0 .. Elements(h, w) - 1,
         NEW out, Cardinality(DOMAIN out) \in Nat,
         NEW H \in Nat, NEW W \in Nat, h <= H, w <= W, Elements(H, W) <= Cardinality(DOMAIN out)
  PROVE  FolderCopy(src, h, w, out, H, W).err = "none" /\ TarCopy(src, h, w, out, H, W).err = "none"
<1>1. PaddedRows(src, h, w, out, H, W).err = "none"
  BY RowsNeverFail
<1>2. h = H /\ w = W => ~ (Cardinality(DOMAIN src) > Cardinality(DOMAIN out))
  <2> SUFFICES ASSUME h = H, w = W PROVE ~ (Cardinality(DOMAIN src) > Cardinality(DOMAIN out))
    OBVIOUS
  <2> DEFINE e == Elements(H, W)
  <2>1. e \in Nat /\ DOMAIN src = 0 .. e - 1
    BY ElementsTyped
  <2> HIDE DEF e
  <2>2. Cardinality(DOMAIN src) = e
    BY <2>1, FS_Interval
  <2> QED
    BY <2>1, <2>2 DEF e
<1> QED
  BY <1>1, <1>2 DEF FolderCopy, TarCopy, Done

(***************************************************************************)
(* Augmenting a sound image does not fail: both buffers have room for the  *)
(* image, for every step in between and for the result.                    *)
(***************************************************************************)
LEMMA AugmentedNeverFails ==
  ASSUME NEW d, d.pipe \in Seq(AnyStep), d.augmented, SoundPipeline(d),
         NEW img \in AnyImage, SoundImage(d, img), NEW h \in Nat, NEW w \in Nat, NEW doubles \in Nat,
         NEW draws \in MayDraw(d, img)
  PROVE  AugmentedImage(d, img, h, w, doubles, draws).err = "none"
<1> DEFINE n == Elements(img.h, img.w)
           buf == Fresh(n)
           decoded == Decode(img, buf, img.w, img.h)
           out == Fresh(LongestImage(d, img, h, w))
           pic == PictureOf(img)
           r == AugmentedImage(d, img, h, w, doubles, draws)
<1>1. img.h \in Nat /\ img.w \in Nat /\ n \in Nat
  BY ElementsTyped DEF AnyImage
<1>2. r = IF decoded.err # "none" THEN decoded
          ELSE PipelineApply(d.pipe, d.dt, decoded.out, img.h, img.w, out, doubles, draws)
  BY DEF AugmentedImage
<1>3. IsBuffer(buf) /\ DOMAIN buf = 0 .. n - 1 /\ Cardinality(DOMAIN buf) = n
  BY <1>1, FreshIs
<1>4. decoded.err = "none"
  <2>1. img.damage = "none" /\ img.w <= img.w /\ img.h <= img.h /\ n <= n
    BY <1>1 DEF SoundImage
  <2> HIDE DEF buf
  <2>2. n <= Cardinality(DOMAIN buf) /\ Cardinality(DOMAIN buf) \in Nat
    BY <1>1, <1>3
  <2> QED
    BY <1>1, <2>1, <2>2, DecodeNeverFails
<1> HIDE DEF r, decoded
<1>5. r = PipelineApply(d.pipe, d.dt, decoded.out, img.h, img.w, out, doubles, draws)
  BY <1>2, <1>4
<1>6. IsPicture(pic) /\ pic.h = img.h /\ pic.w = img.w
  BY PictureOfIs
<1> HIDE DEF buf, pic
<1>7. DOMAIN decoded.out = DOMAIN buf /\ Pads(decoded.out, img.h, img.w, pic)
  BY <1>1, <1>3, <1>4, DecodeShows DEF decoded, pic
<1>8. Holds(decoded.out, pic)
  BY <1>6, <1>7, PadsHolds
<1>9. IsBuffer(decoded.out) /\ Cardinality(DOMAIN decoded.out) = n
  BY <1>1, <1>3, <1>7 DEF IsBuffer
<1> DEFINE most == MaxIntermediateSize(d.pipe)
           long == LongestImage(d, img, h, w)
<1>10. long \in Nat /\ Elements(most[1], most[2]) <= long /\ n <= long
  <2>1. most[1] \in Nat /\ most[2] \in Nat
    BY PipelineSizes
  <2>2. Elements(h, w) \in Nat /\ Elements(most[1], most[2]) \in Nat
    BY <2>1, ElementsTyped
  <2>3. long = Largest({ Elements(h, w), Elements(most[1], most[2]), n })
    BY DEF LongestImage
  <2> HIDE DEF long, most, n
  <2> QED
    BY <1>1, <2>2, <2>3, LongestIs
<1>11. IsBuffer(out) /\ Cardinality(DOMAIN out) = long
  <2> HIDE DEF long
  <2>1. IsBuffer(Fresh(long)) /\ Cardinality(DOMAIN Fresh(long)) = long
    BY <1>10, FreshIs
  <2> QED
    BY <2>1 DEF long
<1>12. Accepts(d.pipe, d.dt, pic.h, pic.w) /\ InOrder(d.pipe) /\ ~CopiesScratch(d.pipe)
  BY <1>6 DEF SoundImage, SoundPipeline
<1>13. draws \in Draws(d.pipe, pic.h, pic.w)
  BY <1>6 DEF MayDraw
<1>14. HasRoom(d.pipe, Cardinality(DOMAIN out)) /\ Cardinality(DOMAIN decoded.out) <= Cardinality(DOMAIN out)
  <2> HIDE DEF out, n, long
  <2> QED
    BY <1>9, <1>10, <1>11 DEF HasRoom
<1> HIDE DEF out, most, n, long
<1> DEFINE in == decoded.out
           pipe == d.pipe
           dt == d.dt
<1>15. /\ IsBuffer(in) /\ IsBuffer(out) /\ IsPicture(pic) /\ Holds(in, pic) /\ pipe \in Seq(AnyStep)
       /\ draws \in Draws(pipe, pic.h, pic.w) /\ HasRoom(pipe, Cardinality(DOMAIN out))
       /\ Cardinality(DOMAIN in) <= Cardinality(DOMAIN out)
       /\ Accepts(pipe, dt, pic.h, pic.w) /\ InOrder(pipe) /\ ~CopiesScratch(pipe)
  BY <1>6, <1>8, <1>9, <1>11, <1>12, <1>13, <1>14
<1> HIDE DEF in, pipe, dt
<1>16. PipelineApply(pipe, dt, in, pic.h, pic.w, out, doubles, draws).err = "none"
  BY <1>15, PipelineNeverFails
<1>17. r.err = "none"
  BY <1>5, <1>6, <1>16 DEF in, pipe, dt
<1> QED
  BY <1>17 DEF r

\* What an image needs of its dataset and of the size that is chosen for it.
Placed(d, img, sz) ==
  AnyDataset(d) /\ (d.augmented => SoundPipeline(d)) /\ SoundImage(d, img) /\ Fits(IntendedSize(d, img), sz)

(***************************************************************************)
(* The image of a folder's item is written in full.                        *)
(***************************************************************************)
LEMMA FolderImageNeverFails ==
  ASSUME NEW d, NEW idx \in DOMAIN Samples(d.files), NEW sz \in Nat \X Nat,
         Placed(d, Samples(d.files)[idx].img, sz),
         NEW part, IsBuffer(part), Elements(sz[1], sz[2]) <= Cardinality(DOMAIN part), NEW doubles \in Nat,
         NEW draws \in MayDraw(d, Samples(d.files)[idx].img)
  PROVE  FolderImage(d, idx, sz, part, doubles, draws).err = "none"
<1> DEFINE img == Samples(d.files)[idx].img
           made == AugmentedImage(d, img, sz[1], sz[2], doubles, draws)
           pic == Intended(d, img, draws)
           r == IF ~d.augmented THEN Decode(img, part, sz[2], sz[1]) ELSE PadToFolder(made, part, sz)
           f == FolderImage(d, idx, sz, part, doubles, draws)
<1>1. img \in AnyImage
  <2>1. Samples(d.files) \in Seq(AnyFile)
    BY SamplesAre DEF AnyDataset, Placed
  <2>2. Samples(d.files)[idx] \in AnyFile
    BY <2>1
  <2> QED
    BY <2>2 DEF AnyFile
<1>2. f = Closed(r, Elements(sz[1], sz[2]))
  BY DEF FolderImage
<1>3. draws \in MayDraw(d, img) /\ sz[1] \in Nat /\ sz[2] \in Nat
  BY DEF img
<1>4. d.pipe \in Seq(AnyStep) /\ d.augmented \in BOOLEAN /\ SoundImage(d, img) /\ Fits(IntendedSize(d, img), sz)
      /\ (d.augmented => SoundPipeline(d))
  BY DEF AnyDataset, Placed
<1>5. Cardinality(DOMAIN part) \in Nat
  BY BufferIs
<1> HIDE DEF img, f
<1>6. r.err = "none"
  <2>1. CASE ~d.augmented
    <3>1. r = Decode(img, part, sz[2], sz[1])
      BY <2>1
    <3>2. img.w <= sz[2] /\ img.h <= sz[1] /\ img.damage = "none"
      BY <1>4, <2>1 DEF IntendedSize, Fits, SoundImage
    <3> HIDE DEF r
    <3> QED
      BY <1>1, <1>3, <1>5, <3>1, <3>2, DecodeNeverFails
  <2>2. CASE d.augmented
    <3> DEFINE src == Slice(made.out, Elements(made.h, made.w))
    <3>1. r = IF made.err # "none" THEN Fail(made.err, part)
              ELSE FolderCopy(src, made.h, made.w, part, sz[1], sz[2])
      BY <2>2 DEF PadToFolder
    <3> HIDE DEF r, made
    <3> DEFINE h == sz[1]
               w == sz[2]
    <3>2. h \in Nat /\ w \in Nat /\ SoundPipeline(d)
      BY <1>3, <1>4, <2>2
    <3> HIDE DEF h, w, pic, src
    <3>3. AugmentedImage(d, img, h, w, doubles, draws).err = "none"
      BY <1>1, <1>3, <1>4, <2>2, <3>2, AugmentedNeverFails
    <3>4. Makes(AugmentedImage(d, img, h, w, doubles, draws), Intended(d, img, draws), IntendedSize(d, img))
      BY <1>1, <1>3, <1>4, <2>2, <3>2, <3>3, IntendedIs
    <3>5. made.err = "none" /\ Makes(made, pic, IntendedSize(d, img))
      BY <3>3, <3>4 DEF made, pic, h, w
    <3>6. /\ IsPicture(pic) /\ << pic.h, pic.w >> = IntendedSize(d, img)
          /\ made.h = pic.h /\ made.w = pic.w
          /\ DOMAIN src = 0 .. Elements(pic.h, pic.w) - 1
      BY <3>5 DEF Makes, src
    <3>7. pic.h \in Nat /\ pic.w \in Nat /\ pic.h <= h /\ pic.w <= w
      BY <1>4, <3>6 DEF Fits, IsPicture, h, w
    <3>8. Elements(h, w) <= Cardinality(DOMAIN part)
      BY DEF h, w
    <3>9. FolderCopy(src, pic.h, pic.w, part, h, w).err = "none"
      BY <1>5, <3>2, <3>6, <3>7, <3>8, CopiesNeverFail
    <3>10. r = FolderCopy(src, pic.h, pic.w, part, h, w)
      BY <3>1, <3>5, <3>6 DEF h, w
    <3> QED
      BY <3>9, <3>10
  <2> QED
    BY <1>4, <2>1, <2>2
<1> HIDE DEF r
<1>7. f.err = "none"
  BY <1>2, <1>6 DEF Closed
<1> QED
  BY <1>7 DEF f

(***************************************************************************)
(* The image of a record is written in full.                               *)
(***************************************************************************)
LEMMA TarImageNeverFails ==
  ASSUME NEW d, NEW img \in AnyImage, NEW sz \in Nat \X Nat, Placed(d, img, sz),
         NEW part, IsBuffer(part), Elements(sz[1], sz[2]) <= Cardinality(DOMAIN part), NEW doubles \in Nat,
         NEW draws \in MayDraw(d, img)
  PROVE  TarImage(d, img, sz, part, doubles, draws).err = "none"
<1> DEFINE n == Elements(sz[1], sz[2])
           dest == Slice(part, n)
           made == AugmentedImage(d, img, sz[1], sz[2], doubles, draws)
           pic == Intended(d, img, draws)
           r == IF ~d.augmented THEN Decode(img, dest, sz[2], sz[1]) ELSE PadToTar(made, dest, sz)
           f == TarImage(d, img, sz, part, doubles, draws)
<1>1. f = IF n > Cardinality(DOMAIN part) THEN Closed(Fail("BufferTooSmall", part), n) ELSE Closed(IntoPart(r, part), n)
  BY DEF TarImage
<1>2. sz[1] \in Nat /\ sz[2] \in Nat /\ n \in Nat
  BY ElementsTyped
<1>3. d.pipe \in Seq(AnyStep) /\ d.augmented \in BOOLEAN /\ SoundImage(d, img) /\ Fits(IntendedSize(d, img), sz)
      /\ (d.augmented => SoundPipeline(d)) /\ AnyDataset(d)
  BY DEF AnyDataset, Placed
<1>4. IsBuffer(dest) /\ DOMAIN dest = 0 .. n - 1 /\ Cardinality(DOMAIN dest) = n
  <2> HIDE DEF n
  <2> QED
    BY <1>2, SliceIs
<1>5. Returned(r)
  <2>1. Returned(Decode(img, dest, sz[2], sz[1]))
    BY <1>2, DecodeReturned
  <2>2. Returned(PadToTar(made, dest, sz))
    BY <1>2, <1>3, AugmentedErr, PaddedReturned
  <2> QED
    BY <2>1, <2>2
<1>6. f = Closed(IntoPart(r, part), n)
  <2>1. ~ (n > Cardinality(DOMAIN part))
    <3>1. Cardinality(DOMAIN part) \in Nat
      BY BufferIs
    <3> HIDE DEF n
    <3>2. n <= Cardinality(DOMAIN part)
      BY DEF n
    <3> QED
      BY <1>2, <3>1, <3>2
  <2> QED
    BY <1>1, <2>1
<1> HIDE DEF f, r, dest
<1>7. r.err = "none"
  <2>1. CASE ~d.augmented
    <3>1. r = Decode(img, dest, sz[2], sz[1])
      BY <2>1 DEF r
    <3>2. img.w <= sz[2] /\ img.h <= sz[1] /\ img.damage = "none"
      BY <1>3, <2>1 DEF IntendedSize, Fits, SoundImage
    <3>3. n <= Cardinality(DOMAIN dest) /\ Cardinality(DOMAIN dest) \in Nat
      <4> HIDE DEF n
      <4> QED
        BY <1>2, <1>4
    <3> QED
      BY <1>2, <3>1, <3>2, <3>3, DecodeNeverFails
  <2>2. CASE d.augmented
    <3> DEFINE src == Slice(made.out, Elements(made.h, made.w))
    <3>1. r = IF made.err # "none" THEN Fail(made.err, dest) ELSE TarCopy(src, made.h, made.w, dest, sz[1], sz[2])
      BY <2>2 DEF PadToTar, r
    <3> HIDE DEF made
    <3> DEFINE h == sz[1]
               w == sz[2]
    <3>2. h \in Nat /\ w \in Nat /\ SoundPipeline(d)
      BY <1>2, <1>3, <2>2
    <3>3. Elements(h, w) <= Cardinality(DOMAIN dest) /\ Cardinality(DOMAIN dest) \in Nat
      <4> DEFINE e == n
      <4>1. Elements(h, w) = n /\ Cardinality(DOMAIN dest) = n /\ n \in Nat
        BY <1>2, <1>4
      <4> HIDE DEF n, h, w
      <4> QED
        BY <4>1
    <3> HIDE DEF h, w, pic, src
    <3>4. AugmentedImage(d, img, h, w, doubles, draws).err = "none"
      BY <1>3, <2>2, <3>2, AugmentedNeverFails
    <3>5. Makes(AugmentedImage(d, img, h, w, doubles, draws), Intended(d, img, draws), IntendedSize(d, img))
      BY <1>3, <2>2, <3>2, <3>4, IntendedIs
    <3>6. made.err = "none" /\ Makes(made, pic, IntendedSize(d, img))
      BY <3>4, <3>5 DEF made, pic, h, w
    <3>7. /\ IsPicture(pic) /\ << pic.h, pic.w >> = IntendedSize(d, img)
          /\ made.h = pic.h /\ made.w = pic.w
          /\ DOMAIN src = 0 .. Elements(pic.h, pic.w) - 1
      BY <3>6 DEF Makes, src
    <3>8. pic.h \in Nat /\ pic.w \in Nat /\ pic.h <= h /\ pic.w <= w
      BY <1>3, <3>7 DEF Fits, IsPicture, h, w
    <3>9. TarCopy(src, pic.h, pic.w, dest, h, w).err = "none"
      BY <3>2, <3>3, <3>7, <3>8, CopiesNeverFail
    <3>10. r = TarCopy(src, pic.h, pic.w, dest, h, w)
      BY <3>1, <3>6, <3>7 DEF h, w
    <3> QED
      BY <3>9, <3>10
  <2> QED
    BY <1>3, <2>1, <2>2
<1>8. f.err = "none"
  <2>1. DOMAIN r = {"err", "out"}
    BY <1>5 DEF Returned
  <2> QED
    BY <1>6, <1>7, <2>1 DEF Closed, IntoPart
<1> QED
  BY <1>8 DEF f

-----------------------------------------------------------------------------
(* The writer.                                                             *)

\* A writer that has not failed, and has written those tensors.
Open(w, ls, n, S) == WriterFor(w, ls, n) /\ w.err = "none" /\ \A j \in DOMAIN ls : w.written[j] <=> j \in S

(***************************************************************************)
(* A write of a tensor that is not written yet is taken, where it fits.    *)
(***************************************************************************)
LEMMA WriteNeverFails ==
  ASSUME NEW ls \in Seq(AnyLayout), DistinctKeys(ls), NEW n \in Nat, ItemSize(ls) <= n, NEW S, NEW w, Open(w, ls, n, S),
         NEW k \in DOMAIN ls, k \notin S, NEW r, DOMAIN r.out = 0 .. AlignedBytes(ls[k]) - 1, Taken(r, ls[k])
  PROVE  Open(Write(w, ls[k].key, r), ls, n, S \cup {k})
<1> DEFINE v == Write(w, ls[k].key, r)
           part == [i \in DOMAIN r.out |-> IF i < r.n THEN r.out[i] ELSE Zero]
           u == Put(w, k, part)
<1>1. /\ WriterFor(w, ls, n) /\ w.err = "none" /\ w.written \in [DOMAIN ls -> BOOLEAN] /\ ~w.written[k]
      /\ \A j \in DOMAIN ls : w.written[j] <=> j \in S
  BY DEF Open, WriterFor
<1>2. HasKey(w, ls[k].key) /\ KeyPos(w, ls[k].key) = k /\ w.size[k] = AlignedBytes(ls[k])
  <2>1. HasKey(w, ls[k].key) /\ KeyPos(w, ls[k].key) = k
    BY <1>1, KeyFound
  <2>2. w.size[k] = AlignedBytes(ls[k])
    BY <1>1 DEF WriterFor
  <2> QED
    BY <2>1, <2>2
<1>3. v = [u EXCEPT !.written[k] = TRUE]
  BY <1>1, <1>2 DEF Write, AfterClosure, Taken
<1>4. DOMAIN part = 0 .. AlignedBytes(ls[k]) - 1
  OBVIOUS
<1> HIDE DEF part
<1>5. WriterFor(u, ls, n) /\ u.err = w.err /\ u.written = w.written
  <2> DEFINE cells == part
  <2>1. DOMAIN cells = 0 .. AlignedBytes(ls[k]) - 1
    BY <1>4
  <2> HIDE DEF cells
  <2>2. WriterFor(Put(w, k, cells), ls, n) /\ Put(w, k, cells).err = w.err /\ Put(w, k, cells).written = w.written
    BY <1>1, <2>1, PutShows
  <2> QED
    BY <2>2 DEF cells
<1> HIDE DEF u
<1> DEFINE written == [w.written EXCEPT ![k] = TRUE]
<1>6. /\ DOMAIN v = DOMAIN u /\ v.out = u.out /\ v.keys = u.keys /\ v.offset = u.offset
      /\ v.size = u.size /\ v.err = "none" /\ v.written = written
  <2> HIDE DEF v
  <2> QED
    BY <1>1, <1>3, <1>5 DEF WriterFor
<1>7. written \in [DOMAIN ls -> BOOLEAN] /\ written[k] /\ \A j \in DOMAIN ls : j # k => written[j] = w.written[j]
  BY <1>1
<1> HIDE DEF v, written
<1>8. WriterFor(v, ls, n)
  BY <1>5, <1>6, <1>7 DEF WriterFor
<1>9. \A j \in DOMAIN ls : v.written[j] <=> j \in S \cup {k}
  BY <1>1, <1>6, <1>7
<1> QED
  BY <1>6, <1>8, <1>9 DEF Open, v

(***************************************************************************)
(* An item of which every tensor is written is not refused.                *)
(***************************************************************************)
LEMMA FinalizeNeverFails ==
  ASSUME NEW ls, NEW n, NEW w, Open(w, ls, n, DOMAIN ls)
  PROVE  Finalize(w).err = "none"
<1>1. DOMAIN w.keys = DOMAIN ls /\ w.err = "none" /\ \A j \in DOMAIN ls : w.written[j]
  BY DEF Open, WriterFor, Keys
<1> QED
  BY <1>1 DEF Finalize

(***************************************************************************)
(* The image and then the label are both taken.                            *)
(***************************************************************************)
LEMMA BothNeverFail ==
  ASSUME NEW ls, ImageAndLabel(ls), NEW n \in Nat, ItemSize(ls) <= n, NEW w, Open(w, ls, n, {}),
         NEW r, DOMAIN r.out = 0 .. AlignedBytes(ls[1]) - 1, Taken(r, ls[1]), NEW label
  PROVE  Open(ThenLabel(Write(w, "image", r), label), ls, n, DOMAIN ls)
<1> DEFINE v == Write(w, "image", r)
           put == PutLabel(label, KeyPart(v, "label"))
<1>1. /\ ls \in Seq(AnyLayout) /\ Len(ls) = 2 /\ DOMAIN ls = 1 .. 2 /\ ls[1].key = "image" /\ ls[2].key = "label"
      /\ Len(ls[2].shape) = 0 /\ ls[2].dt = LabelDtype
  BY DEF ImageAndLabel
<1>2. DistinctKeys(ls)
  <2>1. \A j \in 1 .. 2 : j = 1 \/ j = 2
    OBVIOUS
  <2>2. "image" # "label"
    OBVIOUS
  <2> QED
    BY <1>1, <2>1, <2>2 DEF DistinctKeys
<1>3. ThenLabel(v, label) = IF v.err # "none" THEN v ELSE Write(v, "label", put)
  BY DEF ThenLabel
<1>4. Open(v, ls, n, {1})
  <2>1. 1 \in DOMAIN ls /\ 1 \notin {} /\ {} \cup {1} = {1}
    BY <1>1
  <2>2. Open(Write(w, ls[1].key, r), ls, n, {} \cup {1})
    BY <1>1, <1>2, <2>1, WriteNeverFails
  <2> QED
    BY <1>1, <2>1, <2>2
<1> HIDE DEF v, put
<1> DEFINE part == KeyPart(v, "label")
           c == AlignedBytes(ls[2])
<1>5. 2 \in DOMAIN ls /\ 2 \notin {1} /\ {1} \cup {2} = DOMAIN ls
  BY <1>1
<1>6. WriterFor(v, ls, n) /\ v.err = "none"
  BY <1>4 DEF Open
<1>7. DOMAIN part = 0 .. c - 1 /\ Cardinality(DOMAIN part) = c
  <2>1. DOMAIN KeyPart(v, ls[2].key) = 0 .. AlignedBytes(ls[2]) - 1 /\ Cardinality(DOMAIN KeyPart(v, ls[2].key)) = AlignedBytes(ls[2])
    BY <1>1, <1>2, <1>5, <1>6, KeyPartIs
  <2> QED
    BY <1>1, <2>1
<1>8. c \in Nat /\ TotalBytes(ls[2]) <= c
  BY <1>1, <1>5, PartsAre
<1>9. DtypeCells[LabelDtype] \in Nat /\ TotalBytes(ls[2]) = DtypeCells[LabelDtype]
  <2> DEFINE d == DtypeCells[LabelDtype]
  <2>1. d \in Nat
    BY BatchAssumption, LayoutAssumption
  <2>2. ls[2].shape = << >>
    <3>1. ls[2].shape \in Seq(Nat)
      BY <1>1, <1>5, LayoutOf
    <3> QED
      BY <1>1, <3>1
  <2>3. TotalBytes(ls[2]) = 1 * d
    BY <1>1, <2>2, ProductOfNone DEF TotalBytes, TotalElements
  <2> HIDE DEF d
  <2>4. TotalBytes(ls[2]) = d
    BY <2>1, <2>3
  <2> QED
    BY <2>1, <2>4 DEF d
<1>10. Taken(put, ls[2]) /\ DOMAIN put.out = 0 .. AlignedBytes(ls[2]) - 1
  <2> DEFINE d == DtypeCells[LabelDtype]
  <2>1. put.err = (IF d > Cardinality(DOMAIN part) THEN "BufferTooSmall" ELSE "none") /\ put.n = d /\ DOMAIN put.out = DOMAIN part
    BY DEF put, PutLabel
  <2>2. ~ (d > c) /\ Cardinality(DOMAIN part) = c
    <3>1. d <= c /\ d \in Nat
      BY <1>8, <1>9
    <3> HIDE DEF d, c
    <3> QED
      BY <1>7, <1>8, <3>1
  <2>3. put.err = "none" /\ ~ (put.n > c) /\ DOMAIN put.out = 0 .. c - 1
    <3> HIDE DEF d, c, part
    <3> QED
      BY <1>7, <2>1, <2>2
  <2> HIDE DEF d, part
  <2> QED
    BY <2>3 DEF Taken
<1>11. Open(Write(v, ls[2].key, put), ls, n, {1} \cup {2})
  <2> HIDE DEF c, part
  <2> QED
    BY <1>1, <1>2, <1>4, <1>5, <1>10, WriteNeverFails
<1> QED
  BY <1>1, <1>3, <1>5, <1>6, <1>11 DEF v

(***************************************************************************)
(* The image of a folder, and its label.                                   *)
(***************************************************************************)
LEMMA FolderWriteNeverFails ==
  ASSUME NEW d, NEW idx \in DOMAIN Samples(d.files), NEW sz \in Nat \X Nat, Placed(d, Samples(d.files)[idx].img, sz),
         NEW draws \in MayDraw(d, Samples(d.files)[idx].img),
         NEW n \in Nat, ItemSize(FolderLayouts(d, sz)) <= n, NEW w, Open(w, FolderLayouts(d, sz), n, {}),
         NEW doubles \in Nat
  PROVE  Open(FolderWrite(d, idx, sz, w, doubles, draws), FolderLayouts(d, sz), n, DOMAIN FolderLayouts(d, sz))
<1> DEFINE img == Samples(d.files)[idx].img
           label == Samples(d.files)[idx].label
           ls == FolderLayouts(d, sz)
           part == KeyPart(w, "image")
           r == FolderImage(d, idx, sz, part, doubles, draws)
           h == sz[1]
           wd == sz[2]
<1>1. h \in Nat /\ wd \in Nat /\ sz = << h, wd >> /\ d.dt \in DOMAIN DtypeCells /\ AnyDataset(d) /\ Fits(IntendedSize(d, img), sz)
  BY DEF AnyDataset, Placed
<1>2. ImageAndLabel(ls) /\ ls[1].shape = << 3, h, wd >>
  <2> HIDE DEF h, wd
  <2>1. ls = << ImageLayout(d.dt, h, wd), LabelLayout >>
    BY DEF FolderLayouts, h, wd
  <2> HIDE DEF ls
  <2>2. ImageLayout(d.dt, h, wd).shape = << 3, h, wd >>
    BY <1>1, ImageLayoutTyped
  <2> QED
    BY <1>1, <2>1, <2>2, ImageAndLabelTyped
<1>3. Open(w, ls, n, {}) /\ ItemSize(ls) <= n
  OBVIOUS
<1>4. FolderWrite(d, idx, sz, w, doubles, draws) = ThenLabel(Write(w, "image", r), label)
  BY DEF FolderWrite
<1> HIDE DEF ls
<1>5. /\ DOMAIN part = 0 .. AlignedBytes(ls[1]) - 1 /\ IsBuffer(part) /\ Cardinality(DOMAIN part) = AlignedBytes(ls[1])
      /\ Elements(h, wd) <= AlignedBytes(ls[1])
  <2> HIDE DEF h, wd
  <2>1. WriterFor(w, ls, n)
    BY <1>3 DEF Open
  <2> QED
    BY <1>1, <1>2, <2>1, ImagePartIs
<1> HIDE DEF part
<1>6. Elements(sz[1], sz[2]) <= Cardinality(DOMAIN part)
  BY <1>5
<1>7. r.err = "none"
  BY <1>5, <1>6, FolderImageNeverFails
<1>8. DOMAIN r.out = DOMAIN part /\ r.n = Elements(h, wd)
  <2>1. PadsPart(r, part, sz, Intended(d, img, draws))
    BY <1>1, <1>5, <1>6, <1>7, FolderImageShows
  <2> QED
    BY <2>1 DEF PadsPart
<1> HIDE DEF r, label
<1>9. Taken(r, ls[1])
  <2>1. AlignedBytes(ls[1]) \in Nat /\ Elements(h, wd) \in Nat
    <3>1. ls \in Seq(AnyLayout) /\ 1 \in 1 .. Len(ls)
      BY <1>1, <1>2 DEF ImageAndLabel
    <3>2. AlignedBytes(ls[1]) \in Nat
      BY <3>1, PartsAre
    <3>3. Elements(h, wd) \in Nat
      BY <1>1, <1>2, ElementsTyped
    <3> QED
      BY <3>2, <3>3
  <2>2. ~ (r.n > AlignedBytes(ls[1]))
    <3> DEFINE a == AlignedBytes(ls[1])
               e == Elements(h, wd)
    <3>1. e <= a /\ r.n = e /\ a \in Nat /\ e \in Nat
      BY <1>5, <1>8, <2>1
    <3> HIDE DEF a, e
    <3>2. ~ (r.n > a)
      BY <3>1
    <3> QED
      BY <3>2 DEF a
  <2> QED
    BY <1>7, <2>2 DEF Taken
<1>10. Open(ThenLabel(Write(w, "image", r), label), ls, n, DOMAIN ls)
  BY <1>2, <1>3, <1>5, <1>8, <1>9, BothNeverFail
<1> QED
  BY <1>4, <1>10 DEF ls, label

(***************************************************************************)
(* The image of a record, and the label of its name.                       *)
(***************************************************************************)
LEMMA TarWriteNeverFails ==
  ASSUME NEW d, AnyDataset(d), d.augmented => SoundPipeline(d), NEW cell, cell.img \in AnyImage, cell.img # NoImage,
         SoundImage(d, cell.img), NEW ls, ImageAndLabel(ls), Laid(d, cell.img, ls[1]),
         NEW draws \in MayDraw(d, cell.img), NEW n \in Nat, ItemSize(ls) <= n, NEW w, Open(w, ls, n, {}),
         NEW doubles \in Nat
  PROVE  Open(TarWrite(d, cell, ls, w, doubles, draws), ls, n, DOMAIN ls)
<1> DEFINE img == cell.img
           label == cell.name
           image == ls[1]
           h == image.shape[2]
           wd == image.shape[3]
           sz == << h, wd >>
           need == TarSize(d, img)
           part == KeyPart(w, "image")
           r == TarImage(d, img, sz, part, doubles, draws)
           wrong == \/ image.shape[1] # Channels \/ image.dt # d.dt \/ image.strides # RowMajor(image.shape)
                    \/ sz[1] < need[1] \/ sz[2] < need[2]
           v == TarWrite(d, cell, ls, w, doubles, draws)
<1>1. image.shape \in Seq(Nat) /\ Len(image.shape) = 3 /\ image.shape[1] = 3
  <2>1. 1 \in 1 .. Len(ls) /\ ls \in Seq(AnyLayout) /\ Len(ls[1].shape) = 3
    BY DEF ImageAndLabel
  <2>2. ls[1] \in AnyLayout
    BY <2>1
  <2> QED
    BY <2>1, <2>2 DEF AnyLayout, Laid, Channels
<1>2. h \in Nat /\ wd \in Nat
  <2> HIDE DEF image
  <2> QED
    BY <1>1, Triple
<1>3. v = IF img = NoImage THEN Refuse(w, "Exhausted")
              ELSE IF img.damage = "header" THEN Refuse(w, "DecoderError")
              ELSE IF wrong THEN Refuse(w, "InvalidLayout") ELSE ThenLabel(Write(w, "image", r), label)
  BY DEF TarWrite
<1>4. img.damage # "header"
  BY DEF SoundImage
<1>5. need \in Nat \X Nat
  <2>1. d.pipe \in Seq(AnyStep) /\ img.h \in Nat /\ img.w \in Nat
    BY DEF AnyDataset, AnyImage
  <2>2. OutputSize(d.pipe) \in Nat \X Nat
    BY <2>1, PipelineSizes
  <2> QED
    BY <2>1, <2>2 DEF TarSize, TargetSize, NoSize
<1>6. ~wrong /\ need[1] <= h /\ need[2] <= wd
  <2>1. image.dt = d.dt /\ image.shape[1] = Channels /\ image.strides = RowMajor(image.shape) /\ need[1] <= h /\ need[2] <= wd
    BY DEF Laid
  <2>2. sz[1] = h /\ sz[2] = wd
    OBVIOUS
  <2> HIDE DEF h, wd, sz, need, image
  <2>3. ~ (sz[1] < need[1]) /\ ~ (sz[2] < need[2])
    BY <1>2, <1>5, <2>1, <2>2
  <2> QED
    BY <2>1, <2>3
<1>7. image.shape = << 3, h, wd >>
  <2> DEFINE s == image.shape
  <2>1. s \in Seq(Nat) /\ Len(s) = 3 /\ s[1] = 3 /\ h = s[2] /\ wd = s[3]
    BY <1>1
  <2> HIDE DEF s, h, wd
  <2> QED
    BY <2>1 DEF s
<1>8. v = ThenLabel(Write(w, "image", r), label)
  <2> HIDE DEF v, wrong, r
  <2> QED
    BY <1>3, <1>4, <1>6
<1>9. sz \in Nat \X Nat /\ sz[1] = h /\ sz[2] = wd /\ sz = << h, wd >>
  BY <1>2
<1> HIDE DEF h, wd, sz, need, wrong, image, v
<1>10. /\ DOMAIN part = 0 .. AlignedBytes(ls[1]) - 1 /\ IsBuffer(part) /\ Cardinality(DOMAIN part) = AlignedBytes(ls[1])
       /\ Elements(h, wd) <= AlignedBytes(ls[1])
  <2>1. ls[1].shape = << 3, h, wd >> /\ WriterFor(w, ls, n)
    BY <1>7 DEF image, Open
  <2> QED
    BY <1>2, <2>1, ImagePartIs
<1>11. Placed(d, img, sz)
  <2>1. ~ (sz[1] < need[1]) /\ ~ (sz[2] < need[2])
    BY <1>2, <1>5, <1>6, <1>9
  <2>2. Fits(IntendedSize(d, img), sz)
    BY <1>9, <2>1, TarFits DEF need
  <2> QED
    BY <2>2 DEF Placed
<1> HIDE DEF part
<1>12. Elements(sz[1], sz[2]) <= Cardinality(DOMAIN part)
  BY <1>9, <1>10
<1>13. r.err = "none"
  BY <1>9, <1>10, <1>11, <1>12, TarImageNeverFails
<1>14. DOMAIN r.out = DOMAIN part /\ r.n = Elements(h, wd)
  <2>1. PadsPart(r, part, sz, Intended(d, img, draws))
    BY <1>9, <1>10, <1>11, <1>12, <1>13, TarImageShows DEF Placed
  <2> QED
    BY <1>9, <2>1 DEF PadsPart
<1> HIDE DEF r, label
<1>15. Taken(r, ls[1])
  <2>1. AlignedBytes(ls[1]) \in Nat /\ Elements(h, wd) \in Nat
    <3>1. ls \in Seq(AnyLayout) /\ 1 \in 1 .. Len(ls)
      BY <1>2 DEF ImageAndLabel
    <3>2. AlignedBytes(ls[1]) \in Nat
      BY <3>1, PartsAre
    <3>3. Elements(h, wd) \in Nat
      BY <1>2, ElementsTyped
    <3> QED
      BY <3>2, <3>3
  <2>2. ~ (r.n > AlignedBytes(ls[1]))
    <3> DEFINE a == AlignedBytes(ls[1])
               e == Elements(h, wd)
    <3>1. e <= a /\ r.n = e /\ a \in Nat /\ e \in Nat
      BY <1>10, <1>14, <2>1
    <3> HIDE DEF a, e
    <3>2. ~ (r.n > a)
      BY <3>1
    <3> QED
      BY <3>2 DEF a
  <2> QED
    BY <1>13, <2>2 DEF Taken
<1>16. Open(ThenLabel(Write(w, "image", r), label), ls, n, DOMAIN ls)
  BY <1>10, <1>14, <1>15, BothNeverFail
<1> QED
  BY <1>8, <1>16 DEF v

(***************************************************************************)
(* What a user writes once for each of its tensors, and no more than fits, *)
(* is taken.                                                               *)
(***************************************************************************)
LEMMA CustomWriteNeverFails ==
  ASSUME NEW d, NEW idx, NEW script, script = d.scripts[idx], script \in Seq(AnyEntry),
         NEW ls \in Seq(AnyLayout), ls = d.layouts, DistinctKeys(ls), SoundScript(d, script),
         NEW n \in Nat, ItemSize(ls) <= n, NEW w, Open(w, ls, n, {})
  PROVE  Open(CustomWrite(d, idx, w), ls, n, DOMAIN ls)
<1> DEFINE m == Len(script)
<1>1. /\ m \in Nat /\ DOMAIN script = 1 .. m /\ DOMAIN ls = 1 .. m
      /\ \A k \in 1 .. m : script[k].key = ls[k].key /\ script[k].err = "none" /\ script[k].says <= AlignedBytes(ls[k])
  <2>1. m \in Nat /\ DOMAIN script = 1 .. m
    OBVIOUS
  <2>2. [k \in DOMAIN script |-> script[k].key] = [k \in DOMAIN ls |-> ls[k].key]
    BY DEF SoundScript, Keys
  <2>3. DOMAIN ls = DOMAIN script /\ \A k \in DOMAIN script : script[k].key = ls[k].key
    <3> DEFINE f == [k \in DOMAIN script |-> script[k].key]
               g == [k \in DOMAIN ls |-> ls[k].key]
    <3>1. f = g /\ DOMAIN f = DOMAIN script /\ DOMAIN g = DOMAIN ls
      BY <2>2
    <3>2. DOMAIN script = DOMAIN ls
      <4> HIDE DEF f, g
      <4> QED
        BY <3>1
    <3>3. \A k \in DOMAIN script : f[k] = script[k].key /\ g[k] = ls[k].key
      BY <3>2
    <3> HIDE DEF f, g
    <3> QED
      BY <3>1, <3>2, <3>3
  <2>4. \A k \in DOMAIN script : script[k].err = "none" /\ script[k].says <= AlignedBytes(ls[k])
    BY DEF SoundScript
  <2> QED
    BY <2>1, <2>3, <2>4
<1>2. PICK g : /\ g[0] = w
               /\ \A k \in 1 .. m : g[k] = CustomRound(d, idx, k, g[k - 1])
               /\ CustomWrite(d, idx, w) = g[m]
  BY <1>1, CustomRounds
<1> DEFINE T == { k \in Nat : k <= m => Open(g[k], ls, n, 1 .. k) }
<1> HIDE DEF m
<1>3. 0 \in T
  <2>1. 1 .. 0 = {}
    OBVIOUS
  <2> QED
    BY <1>2, <2>1
<1>4. ASSUME NEW k \in Nat, k \in T
      PROVE  k + 1 \in T
  <2> SUFFICES ASSUME k + 1 <= m
               PROVE  Open(g[k + 1], ls, n, 1 .. k + 1)
    OBVIOUS
  <2> DEFINE j == k + 1
             v == g[k]
             entry == script[j]
             r == PutGiven(idx, entry, KeyPart(v, entry.key))
             u == Write(v, entry.key, r)
  <2>1. j \in 1 .. m /\ j - 1 = k /\ Open(v, ls, n, 1 .. k) /\ j \notin 1 .. k /\ (1 .. k) \cup {j} = 1 .. j
    BY <1>1, <1>4
  <2>2. g[j] = CustomRound(d, idx, j, v)
    BY <1>2, <2>1
  <2>3. CustomRound(d, idx, j, v) = IF v.err # "none" THEN v ELSE IF d.goesOn THEN [u EXCEPT !.err = "none"] ELSE u
    BY DEF CustomRound
  <2> HIDE DEF j, v
  <2>4. entry.key = ls[j].key /\ entry.err = "none" /\ entry.says <= AlignedBytes(ls[j]) /\ entry.says \in Nat /\ j \in DOMAIN ls
    <3>1. entry \in AnyEntry
      BY <1>1, <2>1
    <3> QED
      BY <1>1, <2>1, <3>1 DEF AnyEntry
  <2>5. DOMAIN KeyPart(v, entry.key) = 0 .. AlignedBytes(ls[j]) - 1
    <3>1. WriterFor(v, ls, n)
      BY <2>1 DEF Open
    <3>2. DOMAIN KeyPart(v, ls[j].key) = 0 .. AlignedBytes(ls[j]) - 1
      BY <2>4, <3>1, KeyPartIs
    <3> QED
      BY <2>4, <3>2
  <2>6. DOMAIN r.out = 0 .. AlignedBytes(ls[j]) - 1 /\ r.err = "none" /\ r.n = entry.says
    BY <2>4, <2>5 DEF PutGiven
  <2>7. Taken(r, ls[j])
    <3> DEFINE a == AlignedBytes(ls[j])
    <3>1. a \in Nat /\ entry.says <= a
      <4>1. j \in 1 .. Len(ls)
        BY <2>4
      <4>2. AlignedBytes(ls[j]) \in Nat
        BY <4>1, PartsAre
      <4> QED
        BY <2>4, <4>2
    <3> HIDE DEF a, r, entry
    <3>2. ~ (r.n > a)
      BY <2>4, <2>6, <3>1
    <3> QED
      BY <2>6, <3>2 DEF Taken, a
  <2> HIDE DEF r
  <2>8. Open(Write(v, ls[j].key, r), ls, n, (1 .. k) \cup {j})
    <3> DEFINE S == 1 .. k
    <3>1. Open(v, ls, n, S) /\ j \notin S
      BY <2>1
    <3> HIDE DEF S
    <3>2. Open(Write(v, ls[j].key, r), ls, n, S \cup {j})
      BY <2>4, <2>6, <2>7, <3>1, WriteNeverFails
    <3> QED
      BY <3>2 DEF S
  <2>9. Open(u, ls, n, 1 .. j)
    BY <2>1, <2>4, <2>8
  <2> HIDE DEF u
  <2>10. v.err = "none" /\ u.err = "none" /\ [u EXCEPT !.err = "none"] = u
    <3>1. u.err = "none" /\ v.err = "none"
      BY <2>1, <2>9 DEF Open
    <3>2. u = [e \in DOMAIN u |-> u[e]]
      BY DEF u, Write, Refuse, Put, AfterClosure
    <3> QED
      BY <3>1, <3>2
  <2>11. Open(g[j], ls, n, 1 .. j)
    BY <2>2, <2>3, <2>9, <2>10
  <2> QED
    BY <2>11 DEF j
<1>5. Open(g[m], ls, n, 1 .. m)
  <2>1. m \in T
    <3> HIDE DEF T
    <3> QED
      BY <1>1, <1>3, <1>4, InductionOnSet
  <2> QED
    BY <1>1, <2>1
<1> QED
  BY <1>1, <1>2, <1>5

-----------------------------------------------------------------------------
(* The reader of a sound archive.                                          *)

(***************************************************************************)
(* At a place from which an archive is sound is its end mark, or a sound   *)
(* entry that such a place follows.                                        *)
(***************************************************************************)
LEMMA SoundFromIs ==
  ASSUME NEW a, NEW o, SoundFrom(a, o)
  PROVE  /\ o \in 0 .. Len(a) - 1
         /\ \/ IsEnd(a[o + 1])
            \/ SoundEntry(a, o) /\ SoundFrom(a, o + 1 + a[o + 1].size)
<1>1. PICK entries \in SUBSET { p \in 0 .. Len(a) - 1 : a[p + 1].is = "header" } :
        /\ o \in entries
        /\ \A p \in entries : \/ IsEnd(a[p + 1])
                              \/ SoundEntry(a, p) /\ p + 1 + a[p + 1].size \in entries
  BY DEF SoundFrom
<1>2. \A p \in entries : SoundFrom(a, p)
  BY <1>1 DEF SoundFrom
<1> QED
  BY <1>1, <1>2

\* A dataset of one sound archive with sound images.
SoundTar(d) ==
  /\ AnyDataset(d) /\ SoundFrom(d.archive, 0)
  /\ \A k \in DOMAIN d.archive : d.archive[k].img # NoImage => SoundImage(d, d.archive[k].img)

\* The reader has found a sound image, or the end of the archive.
SoundOutcome(d, r) ==
  \/ r.res = "Eof"
  \/ /\ r.res = "record" /\ r.img # NoImage /\ SoundImage(d, r.img)
     /\ ~r.reader.eof /\ SoundFrom(d.archive, r.reader.offset)

(***************************************************************************)
(* The name that an entry leaves for those after it is a name of the       *)
(* archive.                                                                *)
(***************************************************************************)
LEMMA LongNameKept ==
  ASSUME NEW a, AnyArchive(a), NEW o \in 0 .. Len(a), FileSize(a[o + 1]) \in Nat,
         o + 1 + FileSize(a[o + 1]) <= Len(a), NEW l \in LongNames(a)
  PROVE  LongName(a[o + 1], IF FileSize(a[o + 1]) = 0 THEN "" ELSE a[o + 2].name, l) \in LongNames(a)
<1> DEFINE blocks == FileSize(a[o + 1])
           text == IF blocks = 0 THEN "" ELSE a[o + 2].name
           long == LongName(a[o + 1], text, l)
<1>1. Len(a) \in Nat /\ DOMAIN a = 1 .. Len(a)
  BY DEF AnyArchive
<1>2. CASE blocks = 0
  <2>1. text = ""
    BY <1>2
  <2> HIDE DEF text
  <2>2. long \in {l, NoName}
    BY <2>1 DEF LongName, NoName
  <2>3. NoName \in LongNames(a)
    BY DEF LongNames
  <2> QED
    BY <2>2, <2>3 DEF text
<1>3. CASE blocks # 0
  <2>1. o + 2 \in DOMAIN a
    <3> HIDE DEF blocks
    <3> QED
      BY <1>1, <1>3 DEF blocks
  <2>2. a[o + 2] \in { a[k] : k \in DOMAIN a }
    BY <2>1
  <2>3. << "", a[o + 2].name >> \in LongNames(a)
    BY <2>2 DEF LongNames
  <2>4. long \in {l, << "", a[o + 2].name >>}
    BY <1>3 DEF LongName
  <2> QED
    BY <2>3, <2>4
<1> QED
  BY <1>2, <1>3

(***************************************************************************)
(* At a sound header the reader finds a sound image or the end, if it does *)
(* so at those after it.                                                   *)
(***************************************************************************)
LEMMA FoundAtSound ==
  ASSUME NEW d, SoundTar(d), NEW o \in 0 .. Len(d.archive), SoundFrom(d.archive, o), NEW l \in LongNames(d.archive),
         NEW later,
         \A j \in o + 1 .. Len(d.archive) :
           SoundFrom(d.archive, j) => \A m \in LongNames(d.archive) : SoundOutcome(d, later[j][m])
  PROVE  SoundOutcome(d, FoundAt(d.archive, o, l, later))
<1> DEFINE a == d.archive
           n == Len(a)
           block == a[o + 1]
           blocks == FileSize(block)
           next  == o + 1 + blocks
           long  == LongName(block, IF blocks = 0 THEN "" ELSE a[o + 2].name, l)
           x     == FoundAt(a, o, l, later)
<1>1. AnyArchive(a) /\ n \in Nat /\ DOMAIN a = 1 .. n /\ \A k \in 1 .. n : AnyBlock(a[k])
  BY DEF AnyArchive, SoundTar, AnyDataset
<1>2. /\ o \in 0 .. n - 1
      /\ IsEnd(block) \/ (SoundEntry(a, o) /\ SoundFrom(a, o + 1 + block.size))
  BY SoundFromIs
<1>3. o + 1 \in 1 .. n /\ ~ (o + 1 > n)
  BY <1>1, <1>2
<1>4. CASE IsEnd(block)
  <2>1. x = Err("Eof", o, TRUE)
    BY <1>3, <1>4 DEF FoundAt
  <2> QED
    BY <2>1 DEF SoundOutcome, Err, Outcome
<1>5. CASE ~IsEnd(block)
  <2>1. /\ block.size # NotOctal /\ ~block.spaced /\ o + 1 + block.size < n
        /\ IsRegularFile(block) => FileName(block) # NotUtf8 /\ block.size > 0 /\ a[o + 2].img # NoImage
        /\ SoundFrom(a, o + 1 + block.size)
    BY <1>2, <1>5 DEF SoundEntry
  <2>2. blocks = block.size /\ block.size \in Nat
    <3>1. AnyBlock(block)
      BY <1>1, <1>3
    <3> QED
      BY <2>1, <3>1 DEF FileSize, AnyBlock
  <2>3. next \in o + 1 .. n /\ ~ (next > n) /\ SoundFrom(a, next)
    <3> DEFINE s == block.size
    <3>1. s \in Nat /\ o + 1 + s < n /\ next = o + 1 + s
      BY <2>1, <2>2
    <3> HIDE DEF s, next
    <3> QED
      BY <1>1, <1>2, <2>1, <3>1 DEF s
  <2>4. CASE ~IsRegularFile(block)
    <3>1. x = later[next][long]
      BY <1>3, <1>5, <2>1, <2>2, <2>3, <2>4 DEF FoundAt
    <3>2. long \in LongNames(a)
      <4>1. o + 1 + FileSize(a[o + 1]) <= Len(a)
        <5> HIDE DEF blocks
        <5>1. next <= n
          BY <1>1, <1>2, <2>3
        <5> QED
          BY <5>1 DEF blocks
      <4>2. FileSize(a[o + 1]) \in Nat
        BY <2>2
      <4> QED
        BY <1>1, <4>1, <4>2, LongNameKept
    <3> HIDE DEF x, next, long, n
    <3>3. SoundOutcome(d, later[next][long])
      BY <2>3, <3>2 DEF n
    <3> QED
      BY <3>1, <3>3 DEF x
  <2>5. CASE IsRegularFile(block)
    <3> DEFINE name == IF l # NoName THEN l ELSE FileName(block)
    <3>1. x = Outcome("record", name, DataOf(a, o), next, FALSE)
      BY <1>3, <1>5, <2>1, <2>2, <2>3, <2>5 DEF FoundAt
    <3>2. DataOf(a, o) = a[o + 2].img /\ o + 2 \in DOMAIN a
      <4>1. blocks # 0
        BY <2>1, <2>2, <2>5
      <4>2. DataOf(a, o) = a[o + 2].img
        BY <4>1 DEF DataOf
      <4>3. o + 2 \in 1 .. n
        <5> DEFINE s == block.size
        <5>1. s \in Nat /\ s > 0 /\ o + 1 + s < n
          BY <2>1, <2>2, <2>5
        <5> HIDE DEF s
        <5> QED
          BY <1>1, <5>1
      <4> QED
        BY <1>1, <4>2, <4>3
    <3> DEFINE img == a[o + 2].img
    <3>3. img # NoImage /\ SoundImage(d, img)
      BY <2>1, <2>5, <3>2 DEF SoundTar
    <3>4. x = Outcome("record", name, img, next, FALSE)
      BY <3>1, <3>2
    <3> HIDE DEF name, img, next, x
    <3>5. SoundOutcome(d, x)
      BY <2>3, <3>3, <3>4 DEF SoundOutcome, Outcome
    <3> QED
      BY <3>5 DEF x
  <2> QED
    BY <2>4, <2>5
<1> QED
  BY <1>4, <1>5

(***************************************************************************)
(* next_record finds the end or a sound image, and is then again at a      *)
(* place from which the archive is sound.                                  *)
(***************************************************************************)
LEMMA NextRecordSound ==
  ASSUME NEW d, SoundTar(d), NEW reader, ~reader.eof, SoundFrom(d.archive, reader.offset)
  PROVE  SoundOutcome(d, NextRecord(d.archive, reader))
<1> DEFINE a == d.archive
           n == Len(a)
           names == LongNames(a)
           Round(o, f) == [longName \in names |-> FoundAt(a, o, longName, f)]
           Good(o, x) == SoundFrom(a, o) => \A l \in names : SoundOutcome(d, x[l])
<1>1. AnyArchive(a)
  BY DEF SoundTar, AnyDataset, AnyArchive
<1>2. PICK g : /\ Records(a, g)
               /\ NextRecord(a, reader) = IF reader.eof THEN Err("Eof", reader.offset, TRUE) ELSE g[reader.offset][NoName]
  BY <1>1, NextRecordIs
<1>3. n \in Nat /\ reader.offset \in 0 .. n
  <2>1. n \in Nat
    BY <1>1 DEF AnyArchive
  <2>2. reader.offset \in 0 .. n - 1
    BY SoundFromIs
  <2> QED
    BY <2>1, <2>2
<1>4. ASSUME NEW o \in 0 .. n, NEW f, \A j \in o + 1 .. n : Good(j, f[j])
      PROVE  Good(o, Round(o, f))
  <2> SUFFICES ASSUME NEW l \in names, SoundFrom(a, o)
               PROVE  SoundOutcome(d, FoundAt(a, o, l, f))
    OBVIOUS
  <2> QED
    BY <1>4, FoundAtSound
<1>5. g = [o \in 0 .. n |-> Round(o, g)]
  BY <1>2 DEF Records
<1>6. NoName \in names
  BY DEF LongNames
<1> HIDE DEF Round, n, Good
<1> DEFINE T == { k \in Nat : k <= n => \A o \in n - k .. n : Good(o, g[o]) }
<1>7. 0 \in T
  <2>1. n \in 0 .. n /\ n - 0 .. n = {n} /\ \A j \in n + 1 .. n : Good(j, g[j])
    BY <1>3
  <2>2. Good(n, Round(n, g))
    BY <1>4, <2>1
  <2> QED
    BY <1>3, <1>5, <2>1, <2>2
<1>8. ASSUME NEW k \in Nat, k \in T
      PROVE  k + 1 \in T
  <2> SUFFICES ASSUME k + 1 <= n, NEW o \in n - (k + 1) .. n
               PROVE  Good(o, g[o])
    OBVIOUS
  <2>1. \A j \in n - k .. n : Good(j, g[j])
    BY <1>3, <1>8
  <2>2. o \in 0 .. n /\ \A j \in o + 1 .. n : Good(j, g[j])
    BY <1>3, <2>1
  <2>3. Good(o, Round(o, g))
    BY <1>4, <2>2
  <2> QED
    BY <1>5, <2>2, <2>3
<1>9. n \in T
  <2> HIDE DEF T
  <2> QED
    BY <1>3, <1>7, <1>8, InductionOnSet
<1>10. Good(reader.offset, g[reader.offset])
  <2>1. n - n .. n = 0 .. n /\ reader.offset \in 0 .. n
    BY <1>3
  <2> QED
    BY <1>3, <1>9, <2>1
<1> QED
  BY <1>2, <1>6, <1>10 DEF Good

-----------------------------------------------------------------------------
(* The cells of a sound archive.                                           *)

\* No cell but one differs.
OnlyCell(d, b, c, i) == \A j \in 1 .. d.cap : j # i => c.cells[j] = b.cells[j]

(***************************************************************************)
(* update_cell keeps the buffer sound, and the other cells.                *)
(***************************************************************************)
LEMMA UpdateCellSound ==
  ASSUME NEW d, NEW b, GoodBuffer(d, b), SoundBuffer(d, b), NEW i \in 1 .. d.cap,
         NEW r, SoundOutcome(d, r), r.res = "record"
  PROVE  SoundBuffer(d, UpdateCell(d, b, i, r)) /\ OnlyCell(d, b, UpdateCell(d, b, i, r), i)
<1> DEFINE cell == [img |-> r.img, name |-> r.name, layout |-> TarLayout(d, r.img)]
           c == UpdateCell(d, b, i, r)
<1>1. /\ DOMAIN b = {"cells", "reader", "exhausted", "err"} /\ DOMAIN b.cells = 1 .. d.cap
      /\ b.err = "none" /\ \A j \in 1 .. d.cap : SoundCell(d, b.cells[j])
  BY DEF GoodBuffer, SoundBuffer
<1>2. /\ r.img # NoImage /\ SoundImage(d, r.img) /\ ~r.reader.eof /\ SoundFrom(d.archive, r.reader.offset)
  BY DEF SoundOutcome
<1>3. HasLayout(d, r.img)
  <2>1. r.img.damage # "header"
    BY <1>2 DEF SoundImage
  <2> QED
    BY <2>1 DEF HasLayout
<1>4. c.cells = [b.cells EXCEPT ![i] = cell] /\ c.reader = r.reader /\ c.err = "none"
  BY <1>1, <1>3 DEF UpdateCell
<1>5. SoundCell(d, cell)
  BY <1>2 DEF SoundCell
<1> HIDE DEF c, cell
<1>6. \A j \in 1 .. d.cap : c.cells[j] = IF j = i THEN cell ELSE b.cells[j]
  BY <1>1, <1>4
<1>7. SoundBuffer(d, c) /\ OnlyCell(d, b, c, i)
  BY <1>1, <1>2, <1>4, <1>5, <1>6 DEF SoundBuffer, OnlyCell
<1> QED
  BY <1>7 DEF c

(***************************************************************************)
(* So does emptying a cell, once there are no more records.                *)
(***************************************************************************)
LEMMA ClearCellSound ==
  ASSUME NEW d, NEW b, GoodBuffer(d, b), SoundBuffer(d, b), b.exhausted, NEW i \in 1 .. d.cap
  PROVE  SoundBuffer(d, ClearCell(b, i)) /\ OnlyCell(d, b, ClearCell(b, i), i)
<1> DEFINE cell == [b.cells[i] EXCEPT !.img = NoImage, !.layout = << >>]
           c == ClearCell(b, i)
<1>1. /\ DOMAIN b = {"cells", "reader", "exhausted", "err"} /\ DOMAIN b.cells = 1 .. d.cap
      /\ DOMAIN b.cells[i] = {"img", "name", "layout"}
      /\ b.err = "none" /\ \A j \in 1 .. d.cap : SoundCell(d, b.cells[j])
  BY DEF GoodBuffer, GoodCell, SoundBuffer
<1>2. SoundCell(d, cell)
  <2>1. cell.img = NoImage /\ cell.layout = << >>
    BY <1>1
  <2> HIDE DEF cell
  <2> QED
    BY <2>1 DEF SoundCell
<1>3. c.cells = [b.cells EXCEPT ![i] = cell] /\ c.exhausted = b.exhausted /\ c.err = "none"
  BY <1>1 DEF ClearCell
<1> HIDE DEF c, cell
<1>4. \A j \in 1 .. d.cap : c.cells[j] = IF j = i THEN cell ELSE b.cells[j]
  BY <1>1, <1>3
<1>5. SoundBuffer(d, c) /\ OnlyCell(d, b, c, i)
  BY <1>1, <1>2, <1>3, <1>4 DEF SoundBuffer, OnlyCell
<1> QED
  BY <1>5 DEF c

(***************************************************************************)
(* The reader of a sound buffer finds a sound image or the end.            *)
(***************************************************************************)
LEMMA NextIsSound ==
  ASSUME NEW d, SoundTar(d), NEW b, SoundBuffer(d, b), ~b.exhausted
  PROVE  SoundOutcome(d, NextRecord(d.archive, b.reader))
<1>1. ~b.reader.eof /\ SoundFrom(d.archive, b.reader.offset)
  BY DEF SoundBuffer
<1> QED
  BY <1>1, NextRecordSound

(***************************************************************************)
(* A written cell is refilled, or emptied at the end of the archive, and   *)
(* nothing fails.                                                          *)
(***************************************************************************)
LEMMA RefillSound ==
  ASSUME NEW d, SoundTar(d), NEW b, GoodBuffer(d, b), SoundBuffer(d, b), NEW i \in 1 .. d.cap
  PROVE  SoundBuffer(d, Refill(d, b, i)) /\ OnlyCell(d, b, Refill(d, b, i), i)
<1> DEFINE r == NextRecord(d.archive, b.reader)
<1>1. /\ DOMAIN b = {"cells", "reader", "exhausted", "err"} /\ b.err = "none" /\ b.err \in Errors
      /\ AnyDataset(d)
  BY DEF GoodBuffer, SoundBuffer, SoundTar
<1>2. GoodOutcome(d.archive, r) /\ (~b.exhausted => SoundOutcome(d, r))
  BY <1>1, NextOfBuffer, NextIsSound
<1> HIDE DEF r
<1>3. CASE b.exhausted
  BY <1>3, ClearCellSound DEF Refill
<1>4. CASE ~b.exhausted /\ r.res = "record"
  BY <1>2, <1>4, UpdateCellSound DEF Refill, r
<1>5. CASE ~b.exhausted /\ r.res # "record"
  <2> DEFINE c == [b EXCEPT !.reader = r.reader, !.exhausted = TRUE]
  <2>0. r.res = "Eof"
    BY <1>2, <1>5 DEF SoundOutcome
  <2>1. Refill(d, b, i) = ClearCell(c, i)
    BY <1>5, <2>0 DEF Refill, r
  <2>2. /\ DOMAIN c = {"cells", "reader", "exhausted", "err"}
        /\ c.cells = b.cells /\ c.reader = r.reader /\ c.err = b.err /\ c.exhausted
    BY <1>1
  <2> HIDE DEF c
  <2>3. GoodBuffer(d, c)
    <3>1. r.reader.offset \in 0 .. Len(d.archive)
      BY <1>2 DEF GoodOutcome
    <3> QED
      BY <1>1, <2>2, <3>1, ReaderSet
  <2>4. SoundBuffer(d, c)
    BY <2>2 DEF SoundBuffer
  <2>5. SoundBuffer(d, ClearCell(c, i)) /\ OnlyCell(d, c, ClearCell(c, i), i)
    BY <2>2, <2>3, <2>4, ClearCellSound
  <2> QED
    BY <2>1, <2>2, <2>5 DEF OnlyCell
<1> QED
  BY <1>3, <1>4, <1>5

(***************************************************************************)
(* So it is before the first batch.                                        *)
(***************************************************************************)
LEMMA PrimeCellSound ==
  ASSUME NEW d, SoundTar(d), NEW b, GoodBuffer(d, b), SoundBuffer(d, b), NEW i \in 1 .. d.cap
  PROVE  SoundBuffer(d, PrimeCell(d, b, i))
<1> DEFINE r == NextRecord(d.archive, b.reader)
<1>1. DOMAIN b = {"cells", "reader", "exhausted", "err"} /\ b.err = "none"
  BY DEF GoodBuffer, SoundBuffer
<1>2. ~b.exhausted => SoundOutcome(d, r)
  BY NextIsSound
<1> HIDE DEF r
<1>3. CASE b.exhausted
  BY <1>3 DEF PrimeCell
<1>4. CASE ~b.exhausted /\ r.res = "record"
  BY <1>1, <1>2, <1>4, UpdateCellSound DEF PrimeCell, r
<1>5. CASE ~b.exhausted /\ r.res # "record"
  <2> DEFINE c == [b EXCEPT !.reader = r.reader, !.exhausted = r.res = "Eof",
                            !.err = IF r.res = "Eof" THEN "none" ELSE r.res]
  <2>0. r.res = "Eof"
    BY <1>2, <1>5 DEF SoundOutcome
  <2>1. PrimeCell(d, b, i) = c
    BY <1>1, <1>5 DEF PrimeCell, r
  <2>2. c.cells = b.cells /\ c.exhausted /\ c.err = "none"
    BY <1>1, <2>0
  <2> HIDE DEF c
  <2>3. SoundBuffer(d, c)
    BY <2>2 DEF SoundBuffer
  <2> QED
    BY <2>1, <2>3
<1> QED
  BY <1>3, <1>4, <1>5

(***************************************************************************)
(* Nothing has been read of a buffer of empty cells.                       *)
(***************************************************************************)
LEMMA NewBufferSound ==
  ASSUME NEW d, SoundFrom(d.archive, 0)
  PROVE  SoundBuffer(d, NewBuffer(d))
<1> DEFINE b == NewBuffer(d)
<1>1. b.cells = [i \in 1 .. d.cap |-> EmptyCell] /\ b.reader = AtStart /\ b.err = "none"
  BY DEF NewBuffer, Buffer
<1> HIDE DEF b
<1>2. \A i \in 1 .. d.cap : SoundCell(d, b.cells[i])
  BY <1>1 DEF EmptyCell, SoundCell
<1>3. ~b.reader.eof /\ b.reader.offset = 0
  BY <1>1 DEF AtStart
<1>4. SoundBuffer(d, b)
  BY <1>1, <1>2, <1>3 DEF SoundBuffer
<1> QED
  BY <1>4 DEF b

(***************************************************************************)
(* prime_initial_buffer does not fail on a sound archive, whether it has   *)
(* a record for every cell or not.                                         *)
(***************************************************************************)
LEMMA PrimedSound ==
  ASSUME NEW d, SoundTar(d)
  PROVE  SoundBuffer(d, Primed(d))
<1> DEFINE n == d.cap
           Good(b) == GoodBuffer(d, b) /\ SoundBuffer(d, b)
<1>1. AnyDataset(d) /\ n \in Nat /\ SoundFrom(d.archive, 0)
  BY DEF SoundTar, AnyDataset
<1>2. PICK g : Primings(d, g) /\ Primed(d) = g[n]
  BY <1>1, PrimedIs
<1>3. g[0] = NewBuffer(d) /\ \A k \in 1 .. n : g[k] = PrimeCell(d, g[k - 1], k)
  BY <1>2 DEF Primings
<1>4. Good(g[0])
  BY <1>1, <1>3, NewBufferGood, NewBufferSound
<1> HIDE DEF n
<1> DEFINE T == { k \in Nat : k <= n => Good(g[k]) }
<1>5. 0 \in T
  BY <1>4
<1>6. ASSUME NEW k \in Nat, k \in T
      PROVE  k + 1 \in T
  <2> SUFFICES ASSUME k + 1 <= n
               PROVE  Good(g[k + 1])
    OBVIOUS
  <2>1. k + 1 \in 1 .. n /\ (k + 1) - 1 = k /\ Good(g[k])
    BY <1>1, <1>6
  <2>2. Good(PrimeCell(d, g[k], k + 1))
    BY <1>1, <2>1, PrimeCellGood, PrimeCellSound DEF n
  <2> QED
    BY <1>3, <2>1, <2>2
<1> HIDE DEF T
<1>7. n \in T
  BY <1>1, <1>5, <1>6, InductionOnSet
<1> QED
  BY <1>1, <1>2, <1>7 DEF T

-----------------------------------------------------------------------------
(* The layouts of a batch of sound records.                                *)

\* If there are layouts, the first is that of a dataset's images.
OfImages(d, ls) == ls # << >> => ls[1].dt = d.dt /\ ls[1].shape[1] = Channels

(***************************************************************************)
(* A record's own layouts are those of its image.                          *)
(***************************************************************************)
LEMMA OwnLayouts ==
  ASSUME NEW d, AnyDataset(d), NEW img \in AnyImage
  PROVE  LET ls == TarLayout(d, img)
         IN  /\ ls \in MaybeLayouts /\ ls # << >> /\ ls[1].dt = d.dt /\ ls[1].shape[1] = Channels
             /\ ls[1].shape[2] = TarSize(d, img)[1] /\ ls[1].shape[3] = TarSize(d, img)[2]
<1> DEFINE ls == TarLayout(d, img)
           sz == TarSize(d, img)
<1>1. ImageAndLabel(ls) /\ sz \in Nat \X Nat /\ d.dt \in DOMAIN DtypeCells
  BY TarLayoutTyped, TarSizeTyped DEF AnyDataset
<1>2. ls[1] = ImageLayout(d.dt, sz[1], sz[2])
  BY DEF TarLayout
<1> HIDE DEF sz
<1>3. ls[1].shape = << 3, sz[1], sz[2] >> /\ ls[1].dt = d.dt
  BY <1>1, <1>2, ImageLayoutTyped
<1> HIDE DEF ls
<1>4. ls \in MaybeLayouts /\ ls # << >>
  <2>1. ls \in Seq(AnyLayout) /\ Len(ls) = 2
    BY <1>1 DEF ImageAndLabel
  <2>2. ls \in MaybeLayouts
    BY <1>1, <2>1 DEF MaybeLayouts
  <2> QED
    BY <2>1, <2>2
<1> QED
  BY <1>3, <1>4 DEF ls, sz, Channels

(***************************************************************************)
(* A merged image layout is as large as both in every dimension.           *)
(***************************************************************************)
LEMMA MergedImages ==
  ASSUME NEW d, NEW a \in MaybeLayouts, a # << >>, OfImages(d, a), NEW b \in MaybeLayouts, b # << >>, OfImages(d, b)
  PROVE  LET m == [i \in DOMAIN b |-> Merge(a[i], b[i])]
         IN  /\ m \in MaybeLayouts /\ m # << >> /\ OfImages(d, m)
             /\ \A j \in 1 .. 3 : m[1].shape[j] \in Nat /\ a[1].shape[j] <= m[1].shape[j] /\ b[1].shape[j] <= m[1].shape[j]
             /\ \A j \in 1 .. 3 : a[1].shape[j] \in Nat /\ b[1].shape[j] \in Nat
<1> DEFINE m == [i \in DOMAIN b |-> Merge(a[i], b[i])]
           shape == [j \in 1 .. 3 |-> Larger(a[1].shape[j], b[1].shape[j])]
<1>1. /\ DOMAIN b = 1 .. 2 /\ a[1] \in AnyLayout /\ b[1] \in AnyLayout
      /\ Len(a[1].shape) = 3 /\ Len(b[1].shape) = 3
  BY DEF MaybeLayouts, ImageAndLabel
<1>2. /\ a[1].shape \in Seq(Nat) /\ b[1].shape \in Seq(Nat) /\ DOMAIN a[1].shape = 1 .. 3
      /\ DOMAIN a[1] = {"key", "shape", "strides", "dt"}
  BY <1>1 DEF AnyLayout
<1>3. \A j \in 1 .. 3 : a[1].shape[j] \in Nat /\ b[1].shape[j] \in Nat
  <2> HIDE DEF m, shape
  <2> QED
    BY <1>1, <1>2, Triple
<1>4. m \in MaybeLayouts
  BY MergedLayouts
<1>5. m[1] = Merge(a[1], b[1])
  BY <1>1
<1>6. m[1].shape = shape /\ m[1].dt = a[1].dt
  BY <1>2, <1>5 DEF Merge
<1>7. m # << >>
  BY <1>1
<1>8. \A j \in 1 .. 3 : shape[j] \in Nat /\ a[1].shape[j] <= shape[j] /\ b[1].shape[j] <= shape[j]
  BY <1>3 DEF Larger
<1>9. shape[1] = Channels
  BY DEF OfImages, Larger
<1> HIDE DEF m, shape
<1>10. OfImages(d, m)
  BY <1>6, <1>9 DEF OfImages
<1> QED
  BY <1>3, <1>4, <1>6, <1>7, <1>8, <1>10 DEF m

(***************************************************************************)
(* What a layout has room for, a larger one has room for.                  *)
(***************************************************************************)
LEMMA LaidInLarger ==
  ASSUME NEW d, AnyDataset(d), NEW img \in AnyImage, NEW a \in MaybeLayouts, a # << >>,
         TarSize(d, img)[1] <= a[1].shape[2], TarSize(d, img)[2] <= a[1].shape[3],
         NEW m \in MaybeLayouts, m # << >>, OfImages(d, m),
         \A j \in 1 .. 3 : a[1].shape[j] \in Nat /\ m[1].shape[j] \in Nat /\ a[1].shape[j] <= m[1].shape[j]
  PROVE  Covered(d, img, m)
<1>1. TarSize(d, img) \in Nat \X Nat
  BY TarSizeTyped
<1> DEFINE y == TarSize(d, img)[1]
           x == TarSize(d, img)[2]
<1>2. y \in Nat /\ x \in Nat /\ y <= a[1].shape[2] /\ x <= a[1].shape[3]
  BY <1>1
<1> HIDE DEF y, x
<1>3. y <= m[1].shape[2] /\ x <= m[1].shape[3]
  <2>1. 2 \in 1 .. 3 /\ 3 \in 1 .. 3
    OBVIOUS
  <2>2. /\ a[1].shape[2] \in Nat /\ m[1].shape[2] \in Nat /\ a[1].shape[2] <= m[1].shape[2]
        /\ a[1].shape[3] \in Nat /\ m[1].shape[3] \in Nat /\ a[1].shape[3] <= m[1].shape[3]
    BY <2>1
  <2> QED
    BY <1>2, <2>2
<1>4. Len(m[1].shape) = 3 /\ m[1].strides = RowMajor(m[1].shape) /\ m[1].dt = d.dt /\ m[1].shape[1] = Channels
  BY DEF MaybeLayouts, ImageAndLabel, OfImages
<1> QED
  BY <1>3, <1>4 DEF Covered, Laid, y, x

(***************************************************************************)
(* With one more cell, the layouts have room for its image, and still for  *)
(* those of the cells before.                                              *)
(***************************************************************************)
LEMMA MergeCovers ==
  ASSUME NEW d, AnyDataset(d), NEW x \in MaybeLayouts, OfImages(d, x),
         NEW cell, cell.img \in AnyImage, SoundCell(d, cell)
  PROVE  LET m == MergeLayout(x, cell.layout)
         IN  /\ OfImages(d, m) /\ Covered(d, cell.img, m)
             /\ \A img \in AnyImage : Covered(d, img, x) => Covered(d, img, m)
<1> DEFINE m == MergeLayout(x, cell.layout)
           own == TarLayout(d, cell.img)
<1>1. CASE cell.img = NoImage
  <2>1. m = x
    BY <1>1 DEF SoundCell, MergeLayout
  <2> QED
    BY <1>1, <2>1 DEF Covered
<1>2. CASE cell.img # NoImage
  <2>1. cell.layout = own
    BY <1>2 DEF SoundCell
  <2>2. /\ own \in MaybeLayouts /\ own # << >> /\ own[1].dt = d.dt /\ own[1].shape[1] = Channels
        /\ own[1].shape[2] = TarSize(d, cell.img)[1] /\ own[1].shape[3] = TarSize(d, cell.img)[2]
    BY OwnLayouts
  <2>3. OfImages(d, own)
    BY <2>2 DEF OfImages
  <2>4. \A j \in 1 .. 3 : own[1].shape[j] \in Nat
    <3> HIDE DEF own
    <3>1. own \in Seq(AnyLayout) /\ Len(own) = 2 /\ Len(own[1].shape) = 3
      BY <2>2 DEF MaybeLayouts, ImageAndLabel
    <3>2. own[1].shape \in Seq(Nat)
      <4>1. 1 \in 1 .. Len(own)
        BY <3>1
      <4> QED
        BY <3>1, <4>1, LayoutOf
    <3> QED
      BY <3>1, <3>2
  <2>5. TarSize(d, cell.img) \in Nat \X Nat
    BY TarSizeTyped
  <2>6. TarSize(d, cell.img)[1] <= own[1].shape[2] /\ TarSize(d, cell.img)[2] <= own[1].shape[3]
    <3> DEFINE sz == TarSize(d, cell.img)
    <3>1. sz[1] \in Nat /\ sz[2] \in Nat /\ own[1].shape[2] = sz[1] /\ own[1].shape[3] = sz[2]
      BY <2>2, <2>5
    <3> HIDE DEF sz, own
    <3>2. sz[1] <= own[1].shape[2] /\ sz[2] <= own[1].shape[3]
      BY <3>1
    <3> QED
      BY <3>2 DEF sz
  <2> HIDE DEF own, m
  <2>7. CASE x = << >>
    <3>1. m = own
      BY <2>1, <2>2, <2>7 DEF MergeLayout, m
    <3>2. Covered(d, cell.img, own)
      <4>1. \A j \in 1 .. 3 : own[1].shape[j] <= own[1].shape[j]
        BY <2>4
      <4> QED
        BY <2>2, <2>3, <2>4, <2>6, <4>1, LaidInLarger
    <3>3. \A img \in AnyImage : Covered(d, img, x) => Covered(d, img, own)
      BY <2>7 DEF Covered
    <3> QED
      BY <2>3, <3>1, <3>2, <3>3 DEF m
  <2>8. CASE x # << >>
    <3>1. m = [i \in DOMAIN own |-> Merge(x[i], own[i])]
      BY <2>1, <2>2, <2>8 DEF MergeLayout, m
    <3>2. /\ m \in MaybeLayouts /\ m # << >> /\ OfImages(d, m)
          /\ \A j \in 1 .. 3 : m[1].shape[j] \in Nat /\ x[1].shape[j] <= m[1].shape[j] /\ own[1].shape[j] <= m[1].shape[j]
          /\ \A j \in 1 .. 3 : x[1].shape[j] \in Nat /\ own[1].shape[j] \in Nat
      BY <2>2, <2>3, <2>8, <3>1, MergedImages
    <3>3. Covered(d, cell.img, m)
      BY <2>2, <2>6, <3>2, LaidInLarger
    <3>4. ASSUME NEW img \in AnyImage, Covered(d, img, x)
          PROVE  Covered(d, img, m)
      <4>1. img # NoImage => TarSize(d, img)[1] <= x[1].shape[2] /\ TarSize(d, img)[2] <= x[1].shape[3]
        BY <3>4 DEF Covered, Laid
      <4>2. img # NoImage => Covered(d, img, m)
        BY <2>8, <3>2, <4>1, LaidInLarger
      <4> QED
        BY <4>2 DEF Covered
    <3> QED
      BY <3>2, <3>3, <3>4 DEF m
  <2> QED
    BY <2>7, <2>8
<1> QED
  BY <1>1, <1>2

(***************************************************************************)
(* dynamic_layouts of a TarDataset has room for every image of the batch.  *)
(***************************************************************************)
LEMMA TarLayoutsCover ==
  ASSUME NEW d, AnyDataset(d), NEW b, GoodBuffer(d, b), SoundBuffer(d, b),
         NEW items \in Seq(Nat), \A k \in DOMAIN items : items[k] \in 1 .. d.cap
  PROVE  \A k \in DOMAIN items : Covered(d, b.cells[items[k]].img, TarLayouts(b, items))
<1> DEFINE n == Len(items)
           cell(k) == b.cells[items[k]]
<1>1. n \in Nat /\ DOMAIN items = 1 .. n
  OBVIOUS
<1>2. \A k \in 1 .. n : cell(k).layout \in MaybeLayouts /\ cell(k).img \in AnyImage /\ SoundCell(d, cell(k))
  <2>1. \A i \in 1 .. d.cap : GoodCell(b.cells[i]) /\ SoundCell(d, b.cells[i])
    BY DEF GoodBuffer, SoundBuffer
  <2>2. << >> \in MaybeLayouts /\ \A ls : ImageAndLabel(ls) => ls \in MaybeLayouts
    BY DEF MaybeLayouts, ImageAndLabel
  <2> QED
    BY <1>1, <2>1, <2>2 DEF GoodCell
<1>3. PICK g : TarMerges(b, items, g) /\ TarLayouts(b, items) = g[n]
  <2>1. \A k \in DOMAIN items : b.cells[items[k]].layout \in MaybeLayouts
    BY <1>1, <1>2
  <2> QED
    BY <2>1, TarLayoutsAre
<1>4. /\ g[0] = << >> /\ \A k \in 0 .. n : g[k] \in MaybeLayouts
      /\ \A k \in 1 .. n : g[k] = MergeLayout(g[k - 1], cell(k).layout)
  BY <1>3 DEF TarMerges
<1> HIDE DEF n, cell
<1> DEFINE Covering(k) == OfImages(d, g[k]) /\ \A j \in 1 .. k : Covered(d, cell(j).img, g[k])
           T == { k \in Nat : k <= n => Covering(k) }
<1>5. 0 \in T
  BY <1>4 DEF OfImages
<1>6. ASSUME NEW k \in Nat, k \in T
      PROVE  k + 1 \in T
  <2> SUFFICES ASSUME k + 1 <= n
               PROVE  Covering(k + 1)
    OBVIOUS
  <2>1. k + 1 \in 1 .. n /\ (k + 1) - 1 = k /\ k \in 0 .. n /\ Covering(k)
    BY <1>1, <1>6
  <2> DEFINE m == MergeLayout(g[k], cell(k + 1).layout)
  <2>2. g[k + 1] = m /\ g[k] \in MaybeLayouts
    BY <1>4, <2>1
  <2>3. cell(k + 1).img \in AnyImage /\ SoundCell(d, cell(k + 1))
    BY <1>2, <2>1
  <2>4. /\ OfImages(d, m) /\ Covered(d, cell(k + 1).img, m)
        /\ \A img \in AnyImage : Covered(d, img, g[k]) => Covered(d, img, m)
    BY <2>1, <2>2, <2>3, MergeCovers
  <2> HIDE DEF m
  <2>5. ASSUME NEW j \in 1 .. k + 1
        PROVE  Covered(d, cell(j).img, m)
    <3>1. CASE j = k + 1
      BY <2>4, <3>1
    <3>2. CASE j # k + 1
      <4>1. j \in 1 .. k /\ j \in 1 .. n
        BY <1>1, <2>1, <3>2
      <4>2. cell(j).img \in AnyImage /\ Covered(d, cell(j).img, g[k])
        BY <1>2, <2>1, <4>1
      <4> QED
        BY <2>4, <4>2
    <3> QED
      BY <3>1, <3>2
  <2> QED
    BY <2>2, <2>4, <2>5
<1>7. n \in T
  <2> HIDE DEF T
  <2> QED
    BY <1>1, <1>5, <1>6, InductionOnSet
<1>8. \A j \in 1 .. n : Covered(d, cell(j).img, g[n])
  BY <1>1, <1>7
<1> QED
  BY <1>1, <1>3, <1>8 DEF cell

-----------------------------------------------------------------------------
(* The headers of a batch.                                                 *)

(***************************************************************************)
(* Where the data of each tensor fits behind the headers, every header is  *)
(* taken.                                                                  *)
(***************************************************************************)
LEMMA HeadersNeverFail ==
  ASSUME NEW c \in Nat, NEW mem, DOMAIN mem = 0 .. c - 1, NEW at \in Nat, NEW bl \in Seq(AnyLayout), NEW sz \in Nat,
         at + HeaderSize(bl) + sz <= c, \A k \in 1 .. Len(bl) : TotalBytes(bl[k]) <= sz
  PROVE  WriteHeaders(mem, at, bl).err = "none"
<1> DEFINE l == Len(bl)
<1>1. l \in Nat
  OBVIOUS
<1>2. PICK g : HeaderLoop(mem, at, bl, g) /\ WriteHeaders(mem, at, bl) = g[l]
  BY <1>1, HeaderRounds
<1>3. /\ g[0] = Done(mem)
      /\ \A k \in 1 .. l : g[k] = HeaderRound(mem, at, bl, k, g[k - 1])
      /\ WriteHeaders(mem, at, bl) = g[l]
  BY <1>2 DEF HeaderLoop
<1>4. Cardinality(DOMAIN mem) = c
  <2>1. 0 \in Int /\ c - 1 \in Int /\ (c - 1) - 0 + 1 = c /\ (0 <= c - 1 => 0 .. c - 1 # {})
    OBVIOUS
  <2>2. Cardinality(0 .. c - 1) = c
    BY <2>1, FS_Interval
  <2> QED
    BY <2>2
<1>5. ASSUME NEW k \in 1 .. l
      PROVE  HeaderFits(bl[k], PlaceOf(at, bl, k), mem)
  <2> DEFINE place == PlaceOf(at, bl, k)
             h == HeaderSize(bl)
             len == Len(bl[k].shape)
             b == TotalBytes(bl[k])
  <2>1. place \in Nat /\ h \in Nat /\ len \in Nat /\ place + 1 + 2 * len <= at + h
    BY HeaderPlaces
  <2>2. b \in Nat /\ b <= sz /\ at + h + sz <= c
    BY LayoutOf, BytesTyped
  <2> HIDE DEF place, h, len, b
  <2>3. place + 1 + 2 * len + b <= c
    BY <2>1, <2>2
  <2> QED
    BY <1>4, <2>3 DEF HeaderFits, place, len, b
<1> HIDE DEF l
<1> DEFINE T == { k \in Nat : k <= l => g[k].err = "none" }
<1>6. 0 \in T
  BY <1>3 DEF Done
<1>7. ASSUME NEW k \in Nat, k \in T
      PROVE  k + 1 \in T
  <2> SUFFICES ASSUME k + 1 <= l
               PROVE  g[k + 1].err = "none"
    OBVIOUS
  <2>1. k + 1 \in 1 .. l /\ (k + 1) - 1 = k /\ g[k].err = "none"
    BY <1>1, <1>7
  <2>2. g[k + 1] = HeaderRound(mem, at, bl, k + 1, g[k])
    BY <1>3, <2>1
  <2>3. HeaderFits(bl[k + 1], PlaceOf(at, bl, k + 1), mem)
    BY <1>5, <2>1
  <2> QED
    BY <2>1, <2>2, <2>3 DEF HeaderRound, Done
<1>8. l \in T
  <2> HIDE DEF T
  <2> QED
    BY <1>1, <1>6, <1>7, InductionOnSet
<1> QED
  BY <1>1, <1>3, <1>8

(***************************************************************************)
(* A tensor of a batch has no more data than the whole batch.              *)
(***************************************************************************)
LEMMA BatchBytes ==
  ASSUME NEW ls \in Seq(AnyLayout), NEW n \in Nat, NEW k \in 1 .. Len(ls)
  PROVE  TotalBytes(WithBatch(ls, n)[k]) <= ItemSize(ls) * n
<1> DEFINE b == WithBatch(ls, n)[k]
           u == b.shape
           t == ls[k].shape
           e == DtypeCells[ls[k].dt]
           p == Product(t)
           z == ItemSize(ls)
           bytes == TotalBytes(ls[k])
<1>1. /\ b.dt = ls[k].dt /\ Len(u) = Len(t) + 1 /\ u[1] = n /\ \A j \in 1 .. Len(t) : u[j + 1] = t[j]
  BY BatchedLayout
<1>2. u \in Seq(Nat) /\ t \in Seq(Nat) /\ ls[k] \in AnyLayout
  <2>1. WithBatch(ls, n) \in Seq(AnyLayout) /\ k \in 1 .. Len(WithBatch(ls, n))
    BY WithBatchIs
  <2> QED
    BY <2>1, LayoutOf
<1>3. e \in Nat
  BY <1>2, LayoutAssumption DEF AnyLayout
<1>4. Product(u) = n * p /\ p \in Nat
  <2> HIDE DEF u, t
  <2> QED
    BY <1>1, <1>2, ProductOfRest, ProductsAre DEF p
<1>5. bytes = p * e /\ TotalBytes(b) = (n * p) * e
  <2>1. TotalBytes(b) = Product(u) * e
    BY <1>1 DEF TotalBytes, TotalElements
  <2> QED
    BY <1>4, <2>1 DEF TotalBytes, TotalElements
<1>6. bytes \in Nat /\ z \in Nat /\ bytes <= z
  <2> DEFINE a == AlignedBytes(ls[k])
             at == PartAt(ls, k)
  <2>1. /\ at \in Nat /\ a \in Nat /\ bytes \in Nat /\ z \in Nat
        /\ bytes <= a /\ at + a <= z
    BY PartsAre
  <2> HIDE DEF a, at, bytes, z
  <2> QED
    BY <2>1
<1> HIDE DEF b, u, t, e, p, z, bytes
<1>7. (n * p) * e = (p * e) * n
  BY <1>3, <1>4
<1>8. bytes * n <= z * n
  BY <1>6, ProductsGrow
<1> QED
  BY <1>5, <1>7, <1>8 DEF b, z

(***************************************************************************)
(* An image with its label takes some space, however small the image.      *)
(***************************************************************************)
LEMMA LabelsTakeSpace ==
  ASSUME NEW ls, ImageAndLabel(ls)
  PROVE  ItemSize(ls) > 0
<1>1. ls \in Seq(AnyLayout) /\ Len(ls) = 2 /\ Len(ls[2].shape) = 0 /\ ls[2].dt = LabelDtype
  BY DEF ImageAndLabel
<1>2. 2 \in 1 .. Len(ls)
  BY <1>1
<1> DEFINE bytes == TotalBytes(ls[2])
           a == AlignedBytes(ls[2])
           z == ItemSize(ls)
           at == PartAt(ls, 2)
           e == DtypeCells[LabelDtype]
<1>3. e \in Nat \ {0}
  BY BatchAssumption, LayoutAssumption
<1>4. bytes = 1 * e
  <2>1. ls[2].shape \in Seq(Nat)
    BY <1>1, <1>2, LayoutOf
  <2>2. ls[2].shape = << >>
    BY <1>1, <2>1
  <2> QED
    BY <1>1, <2>2, ProductOfNone DEF TotalBytes, TotalElements
<1>5. at \in Nat /\ a \in Nat /\ z \in Nat /\ bytes <= a /\ at + a <= z
  BY <1>1, <1>2, PartsAre
<1> HIDE DEF bytes, a, z, at, e
<1>6. z > 0
  BY <1>3, <1>4, <1>5
<1> QED
  BY <1>6 DEF z

(***************************************************************************)
(* The headers and the data of a batch that fits its slot are in memory.   *)
(***************************************************************************)
LEMMA FittingHeaders ==
  ASSUME BatchInv, BatchFits, state # "new"
  PROVE  /\ WriteHeaders(memory, SlotOffset(slot, slotSize), BatchHeaders).err = "none"
         /\ SliceFits(memory, DataAt, DataSize)
<1> DEFINE at == SlotOffset(slot, slotSize)
           w == WriteHeaders(memory, at, BatchHeaders)
           c == slotSize * NSlots
           h == HeaderSize(BatchHeaders)
           n == Len(batch)
<1>1. /\ at \in Nat /\ h \in Nat /\ BatchHeaders \in Seq(AnyLayout) /\ DataSize \in Nat /\ n \in Nat /\ slot \in Slots
      /\ slotSize \in Nat /\ layouts \in Seq(AnyLayout)
  BY PlacesAre, InvariantSays DEF BatchInv, ChosenInv
<1>2. DOMAIN memory = 0 .. c - 1 /\ c \in Nat /\ at + slotSize <= c
  BY <1>1, MemoryHas, SlotInMemory, InvariantSays
<1>3. h + DataSize <= slotSize
  BY DEF BatchFits
<1>4. at + h + DataSize <= c /\ DataAt = at + h
  <2>1. DataAt = at + h
    BY DEF DataAt
  <2> HIDE DEF at, c, h
  <2>2. at + h + DataSize <= c
    BY <1>1, <1>2, <1>3
  <2> QED
    BY <2>1, <2>2
<1>5. \A k \in 1 .. Len(BatchHeaders) : TotalBytes(BatchHeaders[k]) <= DataSize
  <2>1. Len(BatchHeaders) = Len(layouts)
    BY <1>1, WithBatchIs DEF BatchHeaders
  <2> QED
    BY <1>1, <2>1, BatchBytes DEF BatchHeaders, DataSize
<1>6. w.err = "none"
  <2> DEFINE bl == BatchHeaders
             sz == DataSize
  <2>1. bl \in Seq(AnyLayout) /\ sz \in Nat /\ at + HeaderSize(bl) + sz <= c /\ \A k \in 1 .. Len(bl) : TotalBytes(bl[k]) <= sz
    BY <1>1, <1>4, <1>5
  <2> HIDE DEF bl, sz, at, c
  <2>2. WriteHeaders(memory, at, bl).err = "none"
    BY <1>1, <1>2, <2>1, HeadersNeverFail
  <2> QED
    BY <2>2 DEF bl
<1>7. SliceFits(memory, DataAt, DataSize)
  <2>1. Cardinality(DOMAIN memory) = c
    <3>1. 0 \in Int /\ c - 1 \in Int /\ (c - 1) - 0 + 1 = c
      BY <1>2
    <3>2. Cardinality(0 .. c - 1) = c
      BY <1>2, <3>1, FS_Interval
    <3> QED
      BY <1>2, <3>2
  <2>2. DataAt + DataSize <= c
    BY <1>4
  <2> QED
    BY <2>1, <2>2 DEF SliceFits
<1> QED
  BY <1>6, <1>7

(***************************************************************************)
(* A batch that fits its slot is prepared, if it has any data.             *)
(***************************************************************************)
LEMMA PrepareNeverFails ==
  ASSUME BatchInv, BatchFits, Prepare, \A k \in DOMAIN layouts : CanAddBatch(layouts[k]), DataSize > 0
  PROVE  state' = "writing" /\ error' = "none"
<1>1. state # "new"
  BY DEF Prepare
<1>2. WriteHeaders(memory, SlotOffset(slot, slotSize), BatchHeaders).err = "none" /\ SliceFits(memory, DataAt, DataSize)
  BY <1>1, FittingHeaders
<1>3. DataSize > 0 /\ ~(\E k \in DOMAIN layouts : ~CanAddBatch(layouts[k]))
  OBVIOUS
<1> QED
  BY <1>2, <1>3 DEF Prepare, End

-----------------------------------------------------------------------------
(* An item of a batch of a sound dataset.                                  *)

\* Those files are among these, and are images.
OfJpegs(files, xs) == \A i \in DOMAIN xs : \E j \in DOMAIN files : files[j].jpeg /\ xs[i] = files[j]

(***************************************************************************)
(* Every sample of a folder is a file whose name ends in .jpg or .jpeg.    *)
(***************************************************************************)
LEMMA SamplesOfJpegs ==
  ASSUME NEW files \in Seq(AnyFile)
  PROVE  OfJpegs(files, Samples(files))
<1> DEFINE n == Len(files)
           S == { x \in Seq(AnyFile) : OfJpegs(files, x) }
           Round(k, x) == IF files[k].jpeg /\ files[k].label # NoLabel THEN Append(x, files[k]) ELSE x
           G == [k \in 1 .. n |-> [x \in S |-> Round(k, x)]]
           none == << >>
           Body(f) == [k \in 0 .. n |-> IF k = 0 THEN none ELSE Round(k, f[k - 1])]
           g == CHOOSE f : f = Body(f)
<1>1. Samples(files) = g[n]
  BY DEF Samples
<1>2. n \in Nat /\ none \in S /\ \A k \in 1 .. n : \A x \in S : Round(k, x) \in S
  <2>1. n \in Nat /\ none \in S
    BY DEF OfJpegs
  <2>2. ASSUME NEW k \in 1 .. n, NEW x \in S
        PROVE  Round(k, x) \in S
    <3>1. CASE files[k].jpeg /\ files[k].label # NoLabel
      <4> DEFINE y == Append(x, files[k])
      <4>1. x \in Seq(AnyFile) /\ files[k] \in AnyFile /\ k \in DOMAIN files
        OBVIOUS
      <4>2. y \in Seq(AnyFile) /\ DOMAIN y = 1 .. Len(x) + 1 /\ \A i \in 1 .. Len(x) + 1 : y[i] = IF i <= Len(x) THEN x[i] ELSE files[k]
        BY <4>1
      <4>3. \A i \in DOMAIN x : \E j \in DOMAIN files : files[j].jpeg /\ x[i] = files[j]
        BY DEF OfJpegs
      <4>4. Round(k, x) = y
        BY <3>1
      <4> HIDE DEF y, Round
      <4>5. OfJpegs(files, y)
        <5> SUFFICES ASSUME NEW i \in DOMAIN y
                     PROVE  \E j \in DOMAIN files : files[j].jpeg /\ y[i] = files[j]
          BY DEF OfJpegs
        <5>1. CASE i <= Len(x)
          <6>1. i \in DOMAIN x
            BY <4>1, <4>2, <5>1
          <6> QED
            BY <4>2, <4>3, <5>1, <6>1
        <5>2. CASE ~(i <= Len(x))
          BY <3>1, <4>1, <4>2, <5>2
        <5> QED
          BY <5>1, <5>2
      <4> QED
        BY <4>2, <4>4, <4>5
    <3>2. CASE ~(files[k].jpeg /\ files[k].label # NoLabel)
      <4>1. Round(k, x) = x
        BY <3>2
      <4> QED
        BY <4>1
    <3> QED
      BY <3>1, <3>2
  <2> HIDE DEF Round
  <2> QED
    BY <2>1, <2>2
<1> HIDE DEF n, S, Round, none
<1>3. /\ G \in [1 .. n -> [S -> S]]
      /\ \A k \in 1 .. n : \A x \in S : G[k][x] = Round(k, x)
  BY <1>2
<1> HIDE DEF G
<1>4. HasLoop(n, S, none, G)
  BY <1>2, <1>3, LoopExists
<1>5. PICK f \in [0 .. n -> S] : f[0] = none /\ \A k \in 1 .. n : f[k] = G[k][f[k - 1]]
  BY <1>4 DEF HasLoop
<1>6. f = Body(f)
  <2>1. ASSUME NEW k \in 1 .. n
        PROVE  f[k] = Round(k, f[k - 1])
    <3>1. f[k - 1] \in S /\ f[k] = G[k][f[k - 1]]
      BY <1>2, <1>5
    <3> QED
      BY <1>3, <3>1
  <2>2. \A k \in 0 .. n : f[k] = Body(f)[k]
    BY <1>2, <1>5, <2>1
  <2> QED
    BY <2>2
<1>7. g = Body(g)
  BY <1>6
<1> HIDE DEF g
<1>8. g[0] = none /\ \A k \in 1 .. n : g[k] = Round(k, g[k - 1])
  BY <1>2, <1>7
<1>9. Stays(g, n, S)
  <2>1. \A k \in 1 .. n : g[k - 1] \in S => g[k] \in S
    BY <1>2, <1>8
  <2> QED
    BY <1>2, <1>8, <2>1, LoopStays
<1>10. g[n] \in S
  BY <1>2, <1>9 DEF Stays
<1> QED
  BY <1>1, <1>10 DEF S

(***************************************************************************)
(* So the images of a sound folder are all sound.                          *)
(***************************************************************************)
LEMMA SamplesSound ==
  ASSUME NEW d, AnyDataset(d), Sound(d), d.kind = "folder", NEW idx \in DOMAIN Samples(d.files)
  PROVE  SoundImage(d, Samples(d.files)[idx].img)
<1>1. OfJpegs(d.files, Samples(d.files))
  BY SamplesOfJpegs DEF AnyDataset
<1>2. PICK j \in DOMAIN d.files : d.files[j].jpeg /\ Samples(d.files)[idx] = d.files[j]
  BY <1>1 DEF OfJpegs
<1>3. \A i \in DOMAIN d.files : d.files[i].jpeg => SoundImage(d, d.files[i].img)
  BY DEF Sound
<1> QED
  BY <1>2, <1>3

(***************************************************************************)
(* What Sound says of an archive.                                          *)
(***************************************************************************)
LEMMA SoundTarIs ==
  ASSUME NEW d, AnyDataset(d), Sound(d), d.kind = "tar"
  PROVE  SoundTar(d) /\ d.probe = 0 /\ SoundFrom(d.archive, 0) /\ (d.augmented => SoundPipeline(d))
BY DEF Sound, SoundTar

\* An item of the batch of a TarDataset that has run out of records.
Missing(k) == data.kind = "tar" /\ buffer.cells[batch[k]].img = NoImage

\* What a state says in which an item of a sound dataset can be written.
Sure == Sound(data) /\ OriginInv /\ SoundInv /\ \A j \in DOMAIN batch : batch[j] \in Items(data)

(***************************************************************************)
(* What a sound dataset writes of an item is all taken, or its cell has no *)
(* record.                                                                 *)
(***************************************************************************)
LEMMA WrittenNeverFails ==
  ASSUME NEW k \in toWrite, Writable(k), Sure, state # "prepare", NEW t \in Threads, NEW draws \in ItemDraws(batch[k]),
         NEW w, Open(w, layouts, ItemSize(layouts), {}), ~Missing(k)
  PROVE  Open(ItemWritten(batch[k], t, draws, w), layouts, ItemSize(layouts), DOMAIN layouts)
<1> DEFINE idx == batch[k]
           n == ItemSize(layouts)
           img == ImageOf(idx)
           v == ItemWritten(idx, t, draws, w)
<1>1. /\ AnyDataset(data) /\ GoodBuffer(data, buffer) /\ k \in DOMAIN batch /\ idx \in Items(data)
      /\ layouts \in Seq(AnyLayout) /\ (data.kind # "custom" => ImageAndLabel(layouts))
      /\ size \in Nat \X Nat /\ scratch[t] \in Nat /\ Sound(data)
  BY DEF Writable, Sure
<1>2. n \in Nat /\ n <= n
  <2>1. n \in Nat
    BY <1>1, ItemSizeTyped
  <2> QED
    BY <2>1
<1>3. /\ data.kind = "folder" => /\ size = FolderSize(data, { batch[j] : j \in DOMAIN batch })
                                 /\ layouts = FolderLayouts(data, size)
      /\ data.kind = "custom" => layouts = data.layouts
  <2>1. batch # << >>
    BY <1>1
  <2> QED
    BY <2>1 DEF Sure, OriginInv
<1>4. data.kind # "custom" => draws \in MayDraw(data, img)
  BY DEF ItemDraws, MayDraw
<1>5. data.augmented => SoundPipeline(data)
  BY <1>1 DEF Sound
<1>6. CASE data.kind = "folder"
  <2> DEFINE files == Samples(data.files)
  <2>1. idx \in DOMAIN files /\ img = files[idx].img
    BY <1>1, <1>6 DEF Items, ImageOf
  <2>2. v = FolderWrite(data, idx, size, w, scratch[t], draws)
    BY <1>6 DEF ItemWritten
  <2>3. Fits(IntendedSize(data, img), size)
    <3> DEFINE items == { batch[j] : j \in DOMAIN batch }
    <3>1. items \in SUBSET Items(data) /\ idx \in items
      <4>1. \A j \in DOMAIN batch : batch[j] \in Items(data)
        BY DEF Sure
      <4> QED
        BY <1>1, <4>1
    <3>2. ~CutsImages(data) /\ size = FolderSize(data, items)
      BY <1>3, <1>5, <1>6 DEF SoundPipeline, CutsImages
    <3> HIDE DEF items
    <3>3. Fits(IntendedSize(data, files[idx].img), FolderSize(data, items))
      BY <1>1, <1>6, <3>1, <3>2, FolderFits
    <3> QED
      BY <2>1, <3>2, <3>3
  <2>4. SoundImage(data, files[idx].img)
    BY <1>1, <1>6, <2>1, SamplesSound
  <2>5. Placed(data, files[idx].img, size)
    BY <1>1, <1>5, <2>1, <2>3, <2>4 DEF Placed
  <2> HIDE DEF v, n
  <2> DEFINE ls == FolderLayouts(data, size)
  <2>6. layouts = ls /\ Open(w, ls, n, {}) /\ ItemSize(ls) <= n
    BY <1>2, <1>3, <1>6 DEF n
  <2>7. draws \in MayDraw(data, files[idx].img)
    BY <1>4, <1>6, <2>1
  <2> HIDE DEF idx
  <2>8. Open(FolderWrite(data, idx, size, w, scratch[t], draws), FolderLayouts(data, size), n, DOMAIN FolderLayouts(data, size))
    BY <1>1, <1>2, <2>1, <2>5, <2>6, <2>7, FolderWriteNeverFails
  <2> QED
    BY <2>2, <2>6, <2>8 DEF v, n, idx
<1>7. CASE data.kind = "tar"
  <2> DEFINE cell == buffer.cells[idx]
  <2>1. idx \in 1 .. data.cap /\ img = cell.img /\ cell.img \in AnyImage /\ cell.img # NoImage
    <3>1. idx \in 1 .. data.cap
      BY <1>1, <1>7 DEF Items
    <3>2. img \in AnyImage
      BY <1>7, ImageOfTyped
    <3> QED
      BY <1>7, <3>1, <3>2 DEF ImageOf, Missing
  <2>2. v = TarWrite(data, cell, layouts, w, scratch[t], draws)
    BY <1>7 DEF ItemWritten
  <2>3. SoundBuffer(data, buffer) /\ Covered(data, cell.img, layouts)
    <3>1. SoundBuffer(data, buffer) /\ Covers(toWrite)
      BY <1>1, <1>7 DEF Sure, SoundInv, Awaited
    <3> QED
      BY <3>1 DEF Covers
  <2>4. SoundImage(data, cell.img)
    <3>1. SoundCell(data, cell)
      BY <2>1, <2>3 DEF SoundBuffer
    <3> QED
      BY <2>1, <3>1 DEF SoundCell
  <2>5. Laid(data, cell.img, layouts[1])
    BY <2>1, <2>3 DEF Covered
  <2> HIDE DEF v, n
  <2>6. /\ ImageAndLabel(layouts) /\ draws \in MayDraw(data, cell.img) /\ ItemSize(layouts) <= n
        /\ Open(w, layouts, n, {})
    BY <1>1, <1>2, <1>4, <1>7, <2>1 DEF n
  <2> HIDE DEF cell
  <2>7. Open(TarWrite(data, cell, layouts, w, scratch[t], draws), layouts, n, DOMAIN layouts)
    BY <1>1, <1>2, <1>5, <2>1, <2>4, <2>5, <2>6, TarWriteNeverFails
  <2> QED
    BY <2>2, <2>7 DEF v, n
<1>8. CASE data.kind = "custom"
  <2> DEFINE script == data.scripts[idx]
  <2>1. v = CustomWrite(data, idx, w)
    BY <1>8 DEF ItemWritten
  <2>2. script \in Seq(AnyEntry) /\ idx \in DOMAIN data.scripts
    <3>1. idx \in DOMAIN data.scripts /\ data.scripts \in Seq(Seq(AnyEntry))
      BY <1>1, <1>8 DEF Items, AnyDataset, AnyEntry
    <3> QED
      BY <3>1
  <2>3. layouts = data.layouts /\ DistinctKeys(layouts) /\ SoundScript(data, script)
    <3>1. DistinctKeys(data.layouts) /\ \A i \in DOMAIN data.scripts : SoundScript(data, data.scripts[i])
      BY <1>1, <1>8 DEF Sound
    <3> QED
      BY <1>3, <1>8, <2>2, <3>1
  <2>4. ItemSize(layouts) <= n /\ Open(w, layouts, n, {}) /\ script = data.scripts[idx]
    BY <1>2 DEF n, script
  <2> HIDE DEF v, n, script, idx
  <2>5. Open(CustomWrite(data, idx, w), layouts, n, DOMAIN layouts)
    BY <1>1, <1>2, <2>2, <2>3, <2>4, CustomWriteNeverFails
  <2> QED
    BY <2>1, <2>5 DEF v, n, idx
<1> QED
  BY <1>1, <1>6, <1>7, <1>8 DEF AnyDataset

\* An item that is written, or has no record to write; no other cell is touched.
Goes(k, item) ==
  /\ item.buffer.err = "none"
  /\ IF Missing(k) THEN item.err = "Exhausted" /\ item.buffer.cells = buffer.cells ELSE item.err = "none"
  /\ data.kind = "tar" => SoundBuffer(data, item.buffer) /\ OnlyCell(data, buffer, item.buffer, batch[k])

(***************************************************************************)
(* An item of a sound dataset is written, or its cell has no record.       *)
(***************************************************************************)
LEMMA ItemNeverFails ==
  ASSUME NEW k \in toWrite, Writable(k), Sure, state # "prepare", NEW t \in Threads, NEW item \in ItemResults(k, t)
  PROVE  Goes(k, item)
<1> DEFINE idx == batch[k]
           n == ItemSize(layouts)
           chunk == Chunk(k)
           w == NewWriter(layouts, chunk)
<1>1. layouts \in Seq(AnyLayout) /\ n \in Nat /\ AnyDataset(data) /\ GoodBuffer(data, buffer) /\ Sound(data)
  BY ItemSizeTyped DEF Writable, Sure
<1>2. DOMAIN chunk = 0 .. n - 1
  BY DEF Chunk
<1> HIDE DEF chunk
<1>3. WriterFor(w, layouts, n) /\ w.err = "none" /\ Open(w, layouts, n, {})
  BY <1>1, <1>2, WriterStarts DEF Open
<1>4. PICK draws \in ItemDraws(idx) : item = ItemResult(IfOpened(w, idx, t, draws), idx, draws)
  BY DEF ItemResults, chunk
<1> DEFINE v == ItemWritten(idx, t, draws, w)
<1>5. IfOpened(w, idx, t, draws) = v
  <2> HIDE DEF w, v
  <2> QED
    BY <1>3 DEF IfOpened, v
<1> HIDE DEF w
<1>6. ~Missing(k) => Open(v, layouts, n, DOMAIN layouts)
  BY <1>3, <1>4, WrittenNeverFails
<1>7. Missing(k) => v.err = "Exhausted"
  <2> SUFFICES ASSUME Missing(k) PROVE v.err = "Exhausted"
    OBVIOUS
  <2>1. v = TarWrite(data, buffer.cells[idx], layouts, w, scratch[t], draws)
    BY DEF ItemWritten, Missing
  <2> HIDE DEF v
  <2>2. v = Refuse(w, "Exhausted")
    BY <2>1 DEF TarWrite, Missing
  <2> QED
    BY <1>3, <2>2 DEF Refuse, WriterFor
<1> DEFINE refill == IF data.kind = "tar" /\ v.err = "none" THEN Refill(data, buffer, idx) ELSE buffer
           left == [refill EXCEPT !.err = "none"]
<1> HIDE DEF v
<1>8. item.buffer = left /\ item.err = Ended(v, refill).err
  <2>1. ItemResult(v, idx, draws) = [out |-> v.out, draws |-> draws, buffer |-> left, err |-> Ended(v, refill).err]
    BY DEF ItemResult
  <2> HIDE DEF refill, left
  <2> QED
    BY <1>4, <1>5, <2>1
<1>9. /\ Missing(k) => refill = buffer
      /\ data.kind = "tar" =>
           /\ SoundBuffer(data, refill) /\ OnlyCell(data, buffer, refill, idx)
           /\ SoundBuffer(data, buffer) /\ GoodBuffer(data, refill)
      /\ data.kind # "tar" => refill = buffer
  <2>1. data.kind # "tar" => refill = buffer
    OBVIOUS
  <2>2. Missing(k) => refill = buffer
    BY <1>7
  <2>3. ASSUME data.kind = "tar"
        PROVE  /\ SoundBuffer(data, refill) /\ OnlyCell(data, buffer, refill, idx)
               /\ SoundBuffer(data, buffer) /\ GoodBuffer(data, refill)
    <3>1. SoundBuffer(data, buffer)
      BY <1>1, <2>3 DEF Sure, SoundInv
    <3>2. SoundTar(data) /\ idx \in 1 .. data.cap
      BY <1>1, <2>3, SoundTarIs DEF Writable, Items
    <3>3. SoundBuffer(data, Refill(data, buffer, idx)) /\ OnlyCell(data, buffer, Refill(data, buffer, idx), idx)
      BY <1>1, <3>1, <3>2, RefillSound
    <3>4. GoodBuffer(data, Refill(data, buffer, idx))
      BY <1>1, <3>2, RefillGood
    <3>5. OnlyCell(data, buffer, buffer, idx)
      BY DEF OnlyCell
    <3> QED
      BY <1>1, <3>1, <3>3, <3>4, <3>5
  <2> QED
    BY <2>1, <2>2, <2>3
<1> HIDE DEF refill
<1>10. /\ refill.err = "none"
       /\ left.cells = refill.cells /\ left.reader = refill.reader /\ left.exhausted = refill.exhausted /\ left.err = "none"
  <2>1. refill.err = "none"
    <3>1. CASE data.kind = "tar"
      BY <1>9, <3>1 DEF SoundBuffer
    <3>2. CASE data.kind # "tar"
      BY <1>1, <1>9, <3>2 DEF Sure, SoundInv
    <3> QED
      BY <3>1, <3>2
  <2>2. DOMAIN refill = {"cells", "reader", "exhausted", "err"}
    BY <1>1, <1>9 DEF GoodBuffer
  <2> QED
    BY <2>1, <2>2
<1> HIDE DEF left
<1>11. data.kind = "tar" => SoundBuffer(data, left) /\ OnlyCell(data, buffer, left, idx)
  BY <1>9, <1>10 DEF SoundBuffer, OnlyCell
<1>12. CASE Missing(k)
  <2>1. item.err = "Exhausted"
    BY <1>7, <1>8, <1>12 DEF Ended
  <2>2. item.buffer.cells = buffer.cells
    BY <1>8, <1>9, <1>10, <1>12
  <2> QED
    BY <1>8, <1>10, <1>12, <1>11, <2>1, <2>2 DEF Goes
<1>13. CASE ~Missing(k)
  <2>1. v.err = "none" /\ Finalize(v).err = "none"
    BY <1>6, <1>13, FinalizeNeverFails DEF Open
  <2>2. item.err = "none"
    BY <1>8, <1>10, <2>1 DEF Ended
  <2> QED
    BY <1>8, <1>10, <1>13, <1>11, <2>2 DEF Goes
<1> QED
  BY <1>12, <1>13

-----------------------------------------------------------------------------
(* The steps.                                                              *)

\* The inductive invariant, beside BatchInv and OriginInv.
NeverFailInv == SoundInv /\ SoundItemsNeverFail

(***************************************************************************)
(* At the start the buffer is empty, and nothing has failed.               *)
(***************************************************************************)
LEMMA NeverFailInit ==
  ASSUME BatchInit
  PROVE  NeverFailInv
<1>1. buffer = NewBuffer(data) /\ error = "none" /\ state = "new" /\ toWrite = {} /\ data \in Datasets
  BY DEF BatchInit
<1>2. AnyDataset(data)
  BY <1>1, BatchAssumption
<1>3. buffer.err = "none"
  BY <1>1 DEF NewBuffer, Buffer
<1>4. Covers(Awaited)
  BY <1>1 DEF Covers, Awaited
<1>5. ASSUME Sound(data), data.kind = "tar"
      PROVE  SoundBuffer(data, buffer)
  <2>1. SoundFrom(data.archive, 0)
    BY <1>2, <1>5, SoundTarIs
  <2> QED
    BY <1>1, <2>1, NewBufferSound
<1> QED
  BY <1>1, <1>3, <1>4, <1>5 DEF NeverFailInv, SoundInv, SoundItemsNeverFail

(***************************************************************************)
(* A step that leaves the dataset, the buffer and the batch alone leaves   *)
(* what the batch has of sound records.                                    *)
(***************************************************************************)
LEMMA SoundStays ==
  ASSUME SoundInv, UNCHANGED << data, buffer, batch, layouts >>, Awaited' \subseteq Awaited,
         state' = "prepare" => state = "prepare"
  PROVE  SoundInv'
BY DEF SoundInv, Covers

(***************************************************************************)
(* Nothing else fails in such a step.                                      *)
(***************************************************************************)
LEMMA NeverFailStays ==
  ASSUME NeverFailInv, UNCHANGED << data, buffer, batch, layouts >>, Awaited' \subseteq Awaited,
         state' = "prepare" => state = "prepare", error' \in {error, "none", "Interrupted"}
  PROVE  NeverFailInv'
<1>1. SoundInv'
  BY SoundStays DEF NeverFailInv
<1>2. SoundItemsNeverFail'
  BY DEF NeverFailInv, SoundItemsNeverFail
<1> QED
  BY <1>1, <1>2 DEF NeverFailInv

(***************************************************************************)
(* A sound dataset is opened.                                              *)
(***************************************************************************)
LEMMA UnusableIsUnsound ==
  ASSUME BatchInv, Unusable
  PROVE  NeverFailInv'
<1>1. data' = data /\ Unopened # "none"
  BY DEF Unusable, sourceVars
<1>2. ~Sound(data)
  BY <1>1 DEF Unopened, Sound
<1> QED
  BY <1>1, <1>2 DEF NeverFailInv, SoundInv, SoundItemsNeverFail

(***************************************************************************)
(* Layouts that take space make a slot that does.                          *)
(***************************************************************************)
LEMMA SlotsTakeSpace ==
  ASSUME NEW ls \in Seq(AnyLayout), ItemSize(ls) > 0, NEW m \in Nat
  PROVE  CalculateSlotSize(ls, m) > 0
<1> DEFINE n == Total(BatchBlocks(ls)) + ItemSize(ls) * m
<1>1. ls # << >>
  BY NoLayouts
<1>2. 1 \in 1 .. Len(ls) /\ Len(ls) \in Nat
  BY <1>1
<1>3. /\ BatchBlocks(ls) \in Seq(Nat) /\ Len(BatchBlocks(ls)) = Len(ls)
      /\ \A i \in 1 .. Len(ls) : BatchBlocks(ls)[i] > 0
  <2>1. \A i \in 1 .. Len(ls) : BlockSize(Len(ls[i].shape) + 1) \in Nat /\ BlockSize(Len(ls[i].shape) + 1) > 0
    <3> SUFFICES ASSUME NEW i \in 1 .. Len(ls)
                 PROVE  BlockSize(Len(ls[i].shape) + 1) \in Nat /\ BlockSize(Len(ls[i].shape) + 1) > 0
      OBVIOUS
    <3> DEFINE r == Len(ls[i].shape) + 1
    <3>1. r \in Nat
      BY LayoutOf
    <3> HIDE DEF r
    <3>2. BlockSize(r) \in Nat /\ 1 + 2 * r <= BlockSize(r)
      BY <3>1, BlockSizeTyped
    <3>3. BlockSize(r) > 0
      BY <3>1, <3>2
    <3> QED
      BY <3>2, <3>3 DEF r
  <2> DEFINE f == BatchBlocks(ls)
  <2>2. f \in [1 .. Len(ls) -> Nat] /\ \A i \in 1 .. Len(ls) : f[i] > 0
    BY <2>1 DEF BatchBlocks
  <2> HIDE DEF f
  <2>3. f \in Seq(Nat) /\ Len(f) = Len(ls)
    BY <1>2, <2>2, SequenceOf
  <2> QED
    BY <2>2, <2>3 DEF f
<1>4. Total(BatchBlocks(ls)) \in Nat /\ Total(BatchBlocks(ls)) > 0
  <2> DEFINE s == BatchBlocks(ls)
  <2>1. s \in Seq(Nat) /\ 1 \in 1 .. Len(s) /\ s[1] > 0 /\ s[1] \in Nat /\ Len(s) \in Nat
    BY <1>2, <1>3
  <2> HIDE DEF s
  <2>2. /\ Total(s) = Sums(s)[Len(s)] /\ Total(s) \in Nat
        /\ Sums(s)[0] = 0 /\ Sums(s)[1] = Sums(s)[1 - 1] + s[1]
    BY <2>1, SumsAre
  <2>3. Sums(s)[1] <= Sums(s)[Len(s)]
    <3>1. 1 \in 0 .. Len(s) /\ Len(s) \in 0 .. Len(s) /\ 1 <= Len(s)
      BY <2>1
    <3> QED
      BY <2>1, <3>1, SumsGrow
  <2>4. Sums(s)[1] = s[1]
    BY <2>1, <2>2
  <2>5. Total(s) > 0
    BY <2>1, <2>2, <2>3, <2>4
  <2> QED
    BY <2>2, <2>5 DEF s
<1>5. CalculateSlotSize(ls, m) = AlignTo(n, SlotAlign)
  BY SlotSizeIs
<1>6. n \in Nat /\ n > 0
  <2> DEFINE a == Total(BatchBlocks(ls))
             z == ItemSize(ls)
  <2>1. a \in Nat /\ a > 0 /\ z \in Nat
    BY <1>4, ItemSizeTyped
  <2>2. z * m \in Nat
    <3> HIDE DEF z
    <3> QED
      BY <2>1, ProductsGrow
  <2> HIDE DEF a, z
  <2>3. a + z * m \in Nat /\ a + z * m > 0
    BY <2>1, <2>2
  <2> QED
    BY <2>3 DEF a, z
<1> HIDE DEF n
<1>7. AlignTo(n, SlotAlign) \in Nat /\ n <= AlignTo(n, SlotAlign)
  BY <1>6, Aligned, LayoutAssumption
<1> QED
  BY <1>5, <1>6, <1>7

(***************************************************************************)
(* The builder finds a slot size for a sound dataset.                      *)
(***************************************************************************)
LEMMA BuildNeverFails ==
  ASSUME BatchInv, NeverFailInv, Build
  PROVE  NeverFailInv'
<1>1. PICK p \in Probes :
        LET sized == IF data.probe = 0 THEN RoundedSize(GivenSize)
                     ELSE CalculateSlotSize(LayoutsOf(SetToSeq(p)), BatchSize)
        IN  IF sized = 0 THEN End("failed", "InvalidSlotSize") ELSE End("built", "none")
  BY DEF Build
<1>2. /\ UNCHANGED << data, buffer, batch, layouts, toWrite >> /\ state = "new" /\ AnyDataset(data) /\ GoodBuffer(data, buffer)
      /\ state' # "prepare"
  BY InvariantSays DEF Build, End
<1>3. Awaited' \subseteq Awaited
  BY <1>2 DEF Awaited
<1>4. CASE ~Sound(data)
  BY <1>2, <1>4 DEF NeverFailInv, SoundInv, SoundItemsNeverFail
<1>5. CASE Sound(data) /\ data.probe = 0
  <2>1. GivenSize > 0 /\ GivenSize \in Nat
    BY <1>5, BatchAssumption DEF Sound
  <2>2. RoundedSize(GivenSize) \in Nat /\ GivenSize <= RoundedSize(GivenSize)
    BY <2>1, Aligned, LayoutAssumption DEF RoundedSize
  <2>3. RoundedSize(GivenSize) # 0
    BY <2>1, <2>2
  <2>4. error' = "none"
    BY <1>1, <1>5, <2>3 DEF End
  <2> QED
    BY <1>2, <1>3, <2>4, NeverFailStays
<1>6. CASE Sound(data) /\ data.probe # 0
  <2> DEFINE f == SetToSeq(p)
             ls == LayoutsOf(f)
  <2>1. p \in SUBSET Items(data) /\ Cardinality(p) = data.probe
    BY DEF Probes
  <2>2. Cardinality(p) > 0
    BY <1>2, <1>6, <2>1 DEF AnyDataset
  <2>3. f \in Seq(Nat) /\ f # << >> /\ Within(f) = p
    BY <1>2, <2>1, <2>2, ProbesAre
  <2> HIDE DEF f
  <2>4. \A k \in DOMAIN f : f[k] \in Items(data)
    BY <2>1, <2>3 DEF Within
  <2>5. ls \in Seq(AnyLayout) /\ (data.kind = "folder" => ls = << >> \/ ImageAndLabel(ls))
    BY <1>2, <2>3, <2>4, LayoutsOfTyped
  <2>6. ItemSize(ls) > 0
    <3>1. CASE data.kind = "folder"
      <4>1. ls # << >>
        BY <3>1 DEF LayoutsOf, FolderLayouts
      <4> QED
        BY <2>5, <3>1, <4>1, LabelsTakeSpace
    <3>2. CASE data.kind = "custom"
      <4>1. ls = data.layouts /\ ItemSize(data.layouts) > 0
        BY <1>6, <3>2 DEF LayoutsOf, Sound
      <4> QED
        BY <4>1
    <3>3. data.kind # "tar"
      BY <1>2, <1>6, SoundTarIs
    <3> QED
      BY <1>2, <3>1, <3>2, <3>3 DEF AnyDataset
  <2> HIDE DEF ls
  <2>7. CalculateSlotSize(ls, BatchSize) \in Nat /\ CalculateSlotSize(ls, BatchSize) > 0
    BY <2>5, <2>6, SlotsTakeSpace, SlotSizeTyped, BatchAssumption
  <2>8. error' = "none"
    <3>1. CalculateSlotSize(ls, BatchSize) # 0
      BY <2>7
    <3> QED
      BY <1>1, <1>6, <3>1 DEF End, ls, f
  <2> QED
    BY <1>2, <1>3, <2>8, NeverFailStays
<1> QED
  BY <1>4, <1>5, <1>6

(***************************************************************************)
(* The buffer of a sound archive is primed without an error.               *)
(***************************************************************************)
LEMMA FirstEpochNeverFails ==
  ASSUME BatchInv, NeverFailInv, FirstEpoch
  PROVE  NeverFailInv'
<1>1. /\ UNCHANGED << data, batch, layouts, toWrite >> /\ state = "built" /\ toWrite = {} /\ AnyDataset(data)
      /\ state' # "prepare"
  BY InvariantSays DEF FirstEpoch, sourceVars, End
<1>2. Awaited' \subseteq Awaited /\ Awaited' = {}
  BY <1>1 DEF Awaited
<1>3. CASE ~Sound(data)
  BY <1>1, <1>3 DEF NeverFailInv, SoundInv, SoundItemsNeverFail
<1>4. CASE data.kind # "tar"
  <2>1. buffer' = buffer /\ error' = "none"
    BY <1>4 DEF FirstEpoch, End
  <2> QED
    BY <1>1, <1>2, <2>1, NeverFailStays
<1>5. CASE Sound(data) /\ data.kind = "tar"
  <2>1. buffer' = Primed(data) /\ IF buffer'.err = "none" THEN End("idle", "none") ELSE End("failed", buffer'.err)
    BY <1>5 DEF FirstEpoch
  <2>2. SoundBuffer(data, buffer')
    BY <1>1, <1>5, <2>1, SoundTarIs, PrimedSound
  <2>3. buffer'.err = "none" /\ error' = "none"
    BY <2>1, <2>2 DEF SoundBuffer, End
  <2>4. Covers(Awaited)'
    BY <1>2 DEF Covers
  <2> QED
    BY <1>1, <2>2, <2>3, <2>4 DEF NeverFailInv, SoundInv, SoundItemsNeverFail
<1> QED
  BY <1>3, <1>4, <1>5

(***************************************************************************)
(* The layouts of a batch are laid out for its images.                     *)
(***************************************************************************)
LEMMA ChooseNeverFails ==
  ASSUME BatchInv, NeverFailInv, NEW items \in Batches, Choose(items)
  PROVE  NeverFailInv'
<1>1. /\ data' = data /\ buffer' = buffer /\ error' = error /\ batch' = items /\ layouts' = LayoutsOf(items)
      /\ state = "idle" /\ state' = "prepare" /\ \A k \in DOMAIN items : items[k] \in Items(data)
  BY DEF Choose
<1>2. AnyDataset(data) /\ GoodBuffer(data, buffer) /\ items \in Seq(Nat) /\ error = "none"
  BY <1>1, InvariantSays, BatchAssumption
<1>3. SoundItemsNeverFail'
  BY <1>1, <1>2 DEF SoundItemsNeverFail
<1>4. ASSUME Sound(data), data.kind = "tar"
      PROVE  SoundBuffer(data, buffer) /\ Covers(Awaited)'
  <2>1. SoundBuffer(data, buffer)
    BY <1>4 DEF NeverFailInv, SoundInv
  <2>2. \A k \in DOMAIN items : items[k] \in 1 .. data.cap
    BY <1>1, <1>4 DEF Items
  <2>3. \A k \in DOMAIN items : Covered(data, buffer.cells[items[k]].img, TarLayouts(buffer, items))
    BY <1>2, <2>1, <2>2, TarLayoutsCover
  <2>4. layouts' = TarLayouts(buffer, items)
    BY <1>1, <1>4 DEF LayoutsOf
  <2>5. Awaited' = DOMAIN items
    BY <1>1 DEF Awaited
  <2> QED
    BY <1>1, <2>1, <2>3, <2>4, <2>5 DEF Covers
<1>5. SoundInv'
  BY <1>1, <1>4, BatchAssumption DEF NeverFailInv, SoundInv
<1> QED
  BY <1>3, <1>5 DEF NeverFailInv

(***************************************************************************)
(* What a sound dataset has layouts for can have batches, with data.       *)
(***************************************************************************)
LEMMA SoundBatches ==
  ASSUME BatchInv, OriginInv, Sound(data), batch # << >>, layouts # << >>
  PROVE  (\A k \in DOMAIN layouts : CanAddBatch(layouts[k])) /\ DataSize > 0
<1>1. /\ layouts \in Seq(AnyLayout) /\ (data.kind # "custom" => ImageAndLabel(layouts))
      /\ batch \in Seq(Nat) /\ Len(batch) \in Nat /\ Len(batch) > 0 /\ AnyDataset(data)
  <2>1. layouts \in Seq(AnyLayout) /\ batch \in Seq(Nat) /\ (data.kind # "custom" => ImageAndLabel(layouts)) /\ AnyDataset(data)
    BY InvariantSays DEF BatchInv, ChosenInv
  <2>2. Len(batch) \in Nat /\ Len(batch) > 0
    BY <2>1
  <2> QED
    BY <2>1, <2>2
<1>2. (\A k \in DOMAIN layouts : CanAddBatch(layouts[k])) /\ ItemSize(layouts) > 0
  <2>1. CASE data.kind = "custom"
    <3>1. layouts = data.layouts
      BY <2>1 DEF OriginInv
    <3> QED
      BY <2>1, <3>1 DEF Sound
  <2>2. CASE data.kind # "custom"
    <3>1. ItemSize(layouts) > 0
      BY <1>1, <2>2, LabelsTakeSpace
    <3>2. ASSUME NEW k \in DOMAIN layouts
          PROVE  CanAddBatch(layouts[k])
      <4>1. layouts[k].shape \in Seq(Nat) /\ k \in 1 .. 2
        BY <1>1, <2>2, LayoutOf DEF ImageAndLabel
      <4>2. layouts[k].strides = RowMajor(layouts[k].shape)
        BY <1>1, <2>2, <4>1 DEF ImageAndLabel
      <4> QED
        BY <4>1, <4>2, RowMajorTyped DEF CanAddBatch
    <3> QED
      BY <3>1, <3>2
  <2> QED
    BY <2>1, <2>2
<1>3. DataSize > 0
  <2> DEFINE z == ItemSize(layouts)
             n == Len(batch)
  <2>1. z \in Nat /\ z > 0 /\ n \in Nat /\ n > 0
    BY <1>1, <1>2, ItemSizeTyped
  <2>2. DataSize = z * n
    BY DEF DataSize
  <2> HIDE DEF z, n
  <2>3. z * n \in Nat /\ 1 * n <= z * n
    <3>1. 1 <= z /\ n <= n
      BY <2>1
    <3> QED
      BY <2>1, <3>1, ProductsGrow
  <2> QED
    BY <2>1, <2>2, <2>3
<1> QED
  BY <1>2, <1>3

(***************************************************************************)
(* A batch without layouts has no record to show.                          *)
(***************************************************************************)
LEMMA NothingToPrepare ==
  ASSUME BatchInv, BatchFits, OriginInv, SoundInv, Sound(data), Prepare, layouts = << >>
  PROVE  error' = "InvalidShape" /\ data.kind = "tar" /\ \E k \in DOMAIN batch : buffer.cells[batch[k]].img = NoImage
<1>1. state = "prepare" /\ batch # << >> /\ batch \in Seq(Nat) /\ AnyDataset(data)
  BY InvariantSays DEF Prepare, SoundInv, BatchInv, ChosenInv
<1>2. data.kind = "tar"
  <2>1. data.kind # "folder"
    BY <1>1 DEF OriginInv, FolderLayouts
  <2>2. data.kind # "custom"
    <3> SUFFICES ASSUME data.kind = "custom" PROVE FALSE
      OBVIOUS
    <3>1. data.layouts = << >> /\ ItemSize(data.layouts) > 0
      BY <1>1 DEF OriginInv, Sound
    <3> QED
      BY <3>1, NoLayouts
  <2> QED
    BY <1>1, <2>1, <2>2 DEF AnyDataset
<1>3. \E k \in DOMAIN batch : buffer.cells[batch[k]].img = NoImage
  <2>1. Covers(DOMAIN batch)
    BY <1>1, <1>2 DEF SoundInv, Awaited
  <2>2. 1 \in DOMAIN batch
    BY <1>1
  <2> QED
    BY <2>1, <2>2 DEF Covers, Covered
<1>4. DataSize = 0
  <2>1. ItemSize(layouts) = 0 /\ Len(batch) \in Nat
    BY <1>1, NoLayouts
  <2>2. DataSize = 0 * Len(batch)
    BY <2>1 DEF DataSize
  <2> QED
    BY <2>1, <2>2
<1>5. WriteHeaders(memory, SlotOffset(slot, slotSize), BatchHeaders).err = "none"
  BY <1>1, FittingHeaders
<1>6. ~(\E k \in DOMAIN layouts : ~CanAddBatch(layouts[k]))
  OBVIOUS
<1>7. error' = "InvalidShape"
  BY <1>4, <1>5, <1>6 DEF Prepare, End
<1> QED
  BY <1>2, <1>3, <1>7

(***************************************************************************)
(* A batch of a sound dataset is prepared, or its cells have no records.   *)
(***************************************************************************)
LEMMA SoundPrepareNeverFails ==
  ASSUME BatchInv, BatchFits, OriginInv, NeverFailInv, Prepare
  PROVE  NeverFailInv'
<1>1. /\ UNCHANGED << data, buffer, batch, layouts >> /\ toWrite = {} /\ state = "prepare"
  BY PrepareBegins DEF Prepare
<1>2. state' # "prepare" /\ (toWrite' = {} \/ toWrite' = DOMAIN batch)
  BY <1>1, PrepareEnds
<1>3. Awaited' \subseteq Awaited
  BY <1>1, <1>2 DEF Awaited
<1>4. SoundInv'
  BY <1>1, <1>2, <1>3, SoundStays DEF NeverFailInv
<1>5. SoundItemsNeverFail'
  <2> SUFFICES ASSUME Sound(data)
               PROVE  \/ error' = "none"
                      \/ error' = "InvalidShape" /\ data.kind = "tar" /\ \E k \in DOMAIN batch : buffer.cells[batch[k]].img = NoImage
    BY <1>1 DEF SoundItemsNeverFail
  <2>1. CASE layouts = << >>
    BY <2>1, NothingToPrepare DEF NeverFailInv
  <2>2. CASE layouts # << >>
    <3>1. batch # << >>
      BY <1>1 DEF NeverFailInv, SoundInv
    <3> QED
      BY <2>2, <3>1, SoundBatches, PrepareNeverFails
  <2> QED
    BY <2>1, <2>2
<1> QED
  BY <1>4, <1>5 DEF NeverFailInv

(***************************************************************************)
(* The items of a batch have cells of their own.                           *)
(***************************************************************************)
LEMMA OtherCells ==
  ASSUME BatchInv, data.kind = "tar", NEW j \in DOMAIN batch, NEW k \in DOMAIN batch, j # k,
         NEW b, OnlyCell(data, buffer, b, batch[k])
  PROVE  b.cells[batch[j]] = buffer.cells[batch[j]]
<1>1. batch \in Batches
  BY DEF BatchInv, SizedInv
<1>2. batch[j] # batch[k]
  BY <1>1, BatchAssumption
<1>3. batch[j] \in 1 .. data.cap
  BY DEF BatchInv, ChosenInv, Items
<1> QED
  BY <1>2, <1>3 DEF OnlyCell

(***************************************************************************)
(* An item of a sound dataset is written, or has no record, whatever has   *)
(* become of the others.                                                   *)
(***************************************************************************)
LEMMA WriteItemNeverFails ==
  ASSUME BatchInv, OriginInv, NeverFailInv, NEW k \in toWrite, NEW t \in Threads, WriteItem(k, t)
  PROVE  NeverFailInv'
<1>1. UNCHANGED << data, batch, layouts >> /\ toWrite' = toWrite \ {k} /\ state \in {"writing", "failed"}
  BY DEF WriteItem, MayWrite, sourceVars
<1>2. CASE ~Sound(data)
  BY <1>1, <1>2 DEF NeverFailInv, SoundInv, SoundItemsNeverFail
<1>3. CASE Sound(data)
  <2>1. PICK item \in ItemResults(k, t) :
          /\ buffer' = item.buffer
          /\ IF item.err = "none" THEN UNCHANGED << state, error >> ELSE EndWith(item.err)
    BY DEF WriteItem
  <2>2. Writable(k) /\ k \in DOMAIN batch
    BY WritableIs DEF Writable
  <2>3. Sure
    BY <1>3 DEF Sure, NeverFailInv, BatchInv, ChosenInv
  <2>4. Goes(k, item)
    BY <1>1, <2>2, <2>3, ItemNeverFails
  <2>5. state' # "prepare"
    BY <1>1, <2>1 DEF EndWith, End
  <2>6. Awaited' = toWrite \ {k} /\ Awaited = toWrite
    BY <1>1, <2>5 DEF Awaited
  <2>7. ASSUME data.kind = "tar", NEW j \in DOMAIN batch, j # k
        PROVE  buffer'.cells[batch[j]] = buffer.cells[batch[j]]
    <3>1. OnlyCell(data, buffer, buffer', batch[k])
      BY <2>1, <2>4, <2>7 DEF Goes
    <3> QED
      BY <2>2, <2>7, <3>1, OtherCells
  <2>8. SoundInv'
    <3>1. ASSUME data.kind = "tar"
          PROVE  SoundBuffer(data, buffer') /\ Covers(Awaited)'
      <4>1. SoundBuffer(data, buffer')
        BY <2>1, <2>4, <3>1 DEF Goes
      <4>2. Covers(toWrite)
        BY <1>3, <2>6, <3>1 DEF NeverFailInv, SoundInv
      <4>3. toWrite \subseteq DOMAIN batch
        BY InvariantSays
      <4>4. ASSUME NEW j \in toWrite \ {k}
            PROVE  Covered(data, buffer'.cells[batch[j]].img, layouts)
        <5>1. buffer'.cells[batch[j]] = buffer.cells[batch[j]]
          BY <2>7, <3>1, <4>3
        <5> QED
          BY <4>2, <5>1 DEF Covers
      <4> QED
        BY <1>1, <2>6, <4>1, <4>4 DEF Covers
    <3>2. buffer'.err = "none"
      BY <2>1, <2>4 DEF Goes
    <3> QED
      BY <1>1, <2>5, <3>1, <3>2 DEF SoundInv
  <2>9. SoundItemsNeverFail'
    <3>1. CASE Missing(k)
      <4>1. error' = "Exhausted"
        BY <2>1, <2>4, <3>1 DEF Goes, EndWith, End
      <4>2. data.kind = "tar" /\ buffer'.cells[batch[k]].img = NoImage
        BY <2>1, <2>4, <3>1 DEF Goes, Missing
      <4> QED
        BY <1>1, <2>2, <4>1, <4>2 DEF SoundItemsNeverFail
    <3>2. CASE ~Missing(k)
      <4>1. error' = error
        BY <2>1, <2>4, <3>2 DEF Goes
      <4>2. CASE error \in {"none", "Interrupted"}
        BY <4>1, <4>2 DEF SoundItemsNeverFail
      <4>3. CASE error \notin {"none", "Interrupted"}
        <5>1. PICK j \in DOMAIN batch : buffer.cells[batch[j]].img = NoImage
          BY <1>3, <4>3 DEF NeverFailInv, SoundItemsNeverFail
        <5>2. data.kind = "tar" /\ error \in {"Exhausted", "InvalidShape"}
          BY <1>3, <4>3 DEF NeverFailInv, SoundItemsNeverFail
        <5>3. j # k
          BY <3>2, <5>1, <5>2 DEF Missing
        <5>4. buffer'.cells[batch[j]].img = NoImage
          BY <2>7, <5>1, <5>2, <5>3
        <5> QED
          BY <1>1, <4>1, <5>2, <5>4 DEF SoundItemsNeverFail
      <4> QED
        BY <4>2, <4>3
    <3> QED
      BY <3>1, <3>2
  <2> QED
    BY <2>8, <2>9 DEF NeverFailInv
<1> QED
  BY <1>2, <1>3

(***************************************************************************)
(* NeverFailInv is inductive beside BatchInv, where the batches fit.       *)
(***************************************************************************)
LEMMA NeverFailStep ==
  ASSUME BatchInv, BatchFits, OriginInv, NeverFailInv, [BatchNext]_batchVars
  PROVE  NeverFailInv'
<1>1. CASE Unusable
  BY <1>1, UnusableIsUnsound
<1>2. CASE Build
  BY <1>2, BuildNeverFails
<1>3. CASE FirstEpoch
  BY <1>3, FirstEpochNeverFails
<1>4. CASE Prepare
  BY <1>4, SoundPrepareNeverFails
<1>5. CASE CtrlC
  BY <1>5, NeverFailStays DEF CtrlC, sourceVars, Awaited
<1>6. CASE Publish
  BY <1>6, NeverFailStays DEF Publish, sourceVars, End, Awaited
<1>7. CASE InterruptedLate
  BY <1>7, NeverFailStays DEF InterruptedLate, sourceVars, End, Awaited
<1>8. CASE \E k \in toWrite : Interrupted(k)
  <2>1. PICK k \in toWrite : Interrupted(k)
    BY <1>8
  <2>2. /\ UNCHANGED << data, buffer, batch, layouts >> /\ toWrite' = toWrite \ {k} /\ state' = "failed" /\ error' = "Interrupted"
        /\ state # "prepare"
    BY <2>1 DEF Interrupted, MayWrite, sourceVars, End
  <2>3. Awaited' \subseteq Awaited
    BY <2>2 DEF Awaited
  <2> QED
    BY <2>2, <2>3, NeverFailStays
<1>9. CASE \E items \in Batches : Choose(items)
  BY <1>9, ChooseNeverFails
<1>10. CASE \E k \in toWrite : \E t \in Threads : WriteItem(k, t)
  BY <1>10, WriteItemNeverFails
<1>11. CASE UNCHANGED batchVars
  BY <1>11, NeverFailStays DEF batchVars, Awaited
<1> QED
  BY <1>1, <1>2, <1>3, <1>4, <1>5, <1>6, <1>7, <1>8, <1>9, <1>10, <1>11 DEF BatchNext

(***************************************************************************)
(* Where every batch fits in its slot, only Ctrl-C, or a TarDataset that   *)
(* has run out of records, ends the stream of a sound dataset.             *)
(***************************************************************************)
THEOREM FittingSoundItemsNeverFail ==
  BatchSpec /\ []BatchFits => []SoundItemsNeverFail
<1>1. BatchInit => NeverFailInv /\ OriginInv
  BY NeverFailInit, OriginInit
<1>2. BatchInv /\ BatchFits /\ OriginInv /\ NeverFailInv /\ [BatchNext]_batchVars => NeverFailInv' /\ OriginInv'
  BY NeverFailStep, OriginStep
<1>3. NeverFailInv => SoundItemsNeverFail
  BY DEF NeverFailInv
<1> QED
  BY <1>1, <1>2, <1>3, BatchInvariant, PTL DEF BatchSpec

(***************************************************************************)
(* So it is with measured datasets, in batches no longer than the builder  *)
(* was told: no size that the builder found is too small for them.         *)
(***************************************************************************)
THEOREM MeasuredSoundItemsNeverFail ==
  ASSUME \A d \in Datasets : Measured(d), \A items \in Batches : Len(items) <= BatchSize
  PROVE  BatchSpec => []SoundItemsNeverFail
<1>1. BatchInv => BatchFits
  BY MeasuredBatchFits
<1> QED
  BY <1>1, BatchInvariant, FittingSoundItemsNeverFail, PTL
==============================================================================
