------------------------------- MODULE Images -------------------------------
(***************************************************************************)
(* Images as flat buffers: the JPEG decoder and the copy into a padded     *)
(* destination (decoder/ and copy_with_padding of the two processors).     *)
(*                                                                         *)
(* A buffer is a function from 0 .. n - 1 to values.  A value is known by  *)
(* what it was computed from and how often it was adjusted since: a pair   *)
(* of a set of sources and a number.  The type of the elements is left     *)
(* out: every element of an image takes one cell.                          *)
(***************************************************************************)
EXTENDS Integers, Sequences, FiniteSets

Larger(a, b) == IF a < b THEN b ELSE a

Largest(S) == CHOOSE n \in S : \A k \in S : k <= n

Source(kind, a, b, c, d) == << { << kind, a, b, c, d >> }, 0 >>

Zero == << {}, 0 >>

Pixel(id, c, y, x) == Source("pixel", id, c, y, x)

\* What a buffer that nothing was written to holds.
Stale == Source("stale", 0, 0, 0, 0)

\* The decoder always asks for RGB.
Channels == 3

Fresh(n) == [i \in 0 .. n - 1 |-> Stale]

Slice(buf, n) == [i \in 0 .. n - 1 |-> buf[i]]

Overlay(buf, part) ==
  [i \in DOMAIN buf |-> IF i \in DOMAIN part THEN part[i] ELSE buf[i]]

\* The element of a dense planar image that a flat index names.
ChannelOf(i, h, w) == i \div (h * w)
RowOf(i, h, w)     == (i % (h * w)) \div w
ColumnOf(i, w)     == i % w

Index(c, y, x, h, w) == c * h * w + y * w + x

Done(out)   == [err |-> "none", out |-> out]
Fail(e, out) == [err |-> e, out |-> out]

-----------------------------------------------------------------------------
(***************************************************************************)
(* The decoder.  A file is a record of an image's number and size; it may  *)
(* be damaged in its header, or after it.                                  *)
(***************************************************************************)
Damages == {"none", "header", "body"}

Decoded(img, stride, maxHeight) ==
  [ i \in 0 .. Channels * maxHeight * stride - 1 |->
      IF RowOf(i, maxHeight, stride) < img.h /\ ColumnOf(i, stride) < img.w
        THEN Pixel(img.id, ChannelOf(i, maxHeight, stride), RowOf(i, maxHeight, stride), ColumnOf(i, stride))
        ELSE Zero ]

Decode(img, out, stride, maxHeight) ==
  CASE img.damage = "header" -> Fail("DecoderError", out)
    [] img.damage # "header" /\ (stride < img.w \/ maxHeight < img.h) -> Fail("InvalidStride", out)
    [] img.damage # "header" /\ stride >= img.w /\ maxHeight >= img.h ->
         IF Channels * stride * maxHeight > Cardinality(DOMAIN out) THEN Fail("BufferOverflow", out)
         ELSE IF img.damage = "body" THEN Fail("DecoderError", out)
         ELSE Done(Overlay(out, Decoded(img, stride, maxHeight)))

-----------------------------------------------------------------------------
(***************************************************************************)
(* copy_with_padding: the rows of a dense image of h x w, one by one, to   *)
(* the places they have in planes of maxH x maxW.  Row r is row r % h of   *)
(* channel r \div h.  A row that does not fit the output is a panic.       *)
(***************************************************************************)
RowStart(r, h, maxH, maxW) == (r \div h) * maxH * maxW + (r % h) * maxW

PaddedRows(src, h, w, out, maxH, maxW) ==
  LET rows == 0 .. Channels * h - 1
      Covering(i) == { r \in rows : RowStart(r, h, maxH, maxW) <= i /\ i < RowStart(r, h, maxH, maxW) + w }
      At(i) == IF Covering(i) = {} THEN Zero
               ELSE LET r == Largest(Covering(i)) IN src[r * w + i - RowStart(r, h, maxH, maxW)]
  IN  IF \E r \in rows : RowStart(r, h, maxH, maxW) + w > Cardinality(DOMAIN out)
        THEN Fail("panic", out)
        ELSE Done([i \in DOMAIN out |-> At(i)])

\* The folder's copy goes by the shape, the tar processor's by the length.
FolderCopy(src, h, w, out, maxH, maxW) ==
  IF h = maxH /\ w = maxW
    THEN IF Cardinality(DOMAIN src) > Cardinality(DOMAIN out) THEN Fail("panic", out) ELSE Done(Overlay(out, src))
    ELSE PaddedRows(src, h, w, out, maxH, maxW)

TarCopy(src, h, w, out, maxH, maxW) ==
  IF DOMAIN src = DOMAIN out THEN Done(src) ELSE PaddedRows(src, h, w, out, maxH, maxW)
=============================================================================
