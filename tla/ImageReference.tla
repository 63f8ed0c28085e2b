--------------------------- MODULE ImageReference ---------------------------
(***************************************************************************)
(* What images and augmentations are, apart from any buffer: an image is a *)
(* function of channel, row and column, and an augmentation maps images to *)
(* images.  The code's flat buffers are held against this.                 *)
(***************************************************************************)
EXTENDS Augmentations

Planes == 0 .. Channels - 1

Picture(h, w, at) == [h |-> h, w |-> w, at |-> at]

Positions(h, w) == Planes \X (0 .. h - 1) \X (0 .. w - 1)

PictureOf(img) ==
  Picture(img.h, img.w, [p \in Positions(img.h, img.w) |-> Pixel(img.id, p[1], p[2], p[3])])

Flipped(pic, flip) ==
  IF flip THEN [pic EXCEPT !.at = [p \in DOMAIN pic.at |-> pic.at[<< p[1], p[2], pic.w - 1 - p[3] >>]]] ELSE pic

Cropped(pic, h, w, y, x) ==
  Picture(h, w, [p \in Positions(h, w) |-> pic.at[<< p[1], p[2] + y, p[3] + x >>]])

ResizedTo(pic, h, w) ==
  IF h = pic.h /\ w = pic.w THEN pic
  ELSE Picture(h, w, [p \in Positions(h, w) |->
         Blend({ pic.at[<< p[1], y, x >>] : y \in Support(p[2], pic.h, h), x \in Support(p[3], pic.w, w) })])

Normalized(pic) == [pic EXCEPT !.at = [p \in DOMAIN pic.at |-> Adjusted(pic.at[p])]]

Jittered(pic, contrast, saturation) ==
  LET bright   == Normalized(pic).at
      even     == IF contrast THEN [p \in DOMAIN bright |-> Blend({ bright[q] : q \in DOMAIN bright })] ELSE bright
      Grey(p)  == Blend({ even[<< c, p[2], p[3] >>] : c \in Planes })
  IN  [pic EXCEPT !.at = IF saturation THEN [p \in DOMAIN even |-> Grey(p)] ELSE even]

Augmented(pic, step, d) ==
  CASE step.op = "RandomHorizontalFlip" -> Flipped(pic, d[1] = 1)
    [] step.op = "RandomCrop"           -> Cropped(pic, step.h, step.w, d[1], d[2])
    [] step.op = "Resize"               -> ResizedTo(pic, step.h, step.w)
    [] step.op = "Normalize"            -> Normalized(pic)
    [] step.op = "ColorJitter"          -> Jittered(pic, d[1] = 1, d[2] = 1)

PipelineOf(pipe, pic, draws) ==
  LET after[k \in 0 .. Len(pipe)] ==
        IF k = 0 THEN pic ELSE Augmented(after[k - 1], pipe[k], draws[k])
  IN  after[Len(pipe)]

\* A pipeline that every image of h x w goes through: the sizes fit, and the
\* element type is one its steps can work with.
Accepts(pipe, dt, h, w) ==
  LET SizeAt(k) == LET before == { j \in SizeChanging(pipe) : j < k }
                   IN  IF before = {} THEN << h, w >> ELSE FixedSize(pipe[Largest(before)])
  IN  \A k \in DOMAIN pipe :
        /\ pipe[k].op = "RandomCrop" => CropFits(pipe[k], SizeAt(k)[1], SizeAt(k)[2])
        /\ pipe[k].op = "Resize" => dt \in ResizedTypes \/ FixedSize(pipe[k]) = SizeAt(k)
        /\ pipe[k].op = "Normalize" => dt = "f32" /\ pipe[k].arg = Channels
        /\ pipe[k].op = "ColorJitter" => dt = "f32"

\* From the third step on, every other Resize that leaves the size as it is
\* copies the whole of the second scratch buffer to the first, and panics when
\* an earlier image has left the thread a longer second buffer.
CopiesScratch(pipe) ==
  \E k \in DOMAIN pipe : k > 2 /\ k % 2 = 1 /\ pipe[k].op = "Resize" /\ FixedSize(pipe[k]) = FixedSize(pipe[k - 1])
=============================================================================
