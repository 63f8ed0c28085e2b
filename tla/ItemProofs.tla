------------------------------ MODULE ItemProofs ------------------------------
(***************************************************************************)
(* Proofs that an item, where it is written without an error, shows what   *)
(* is promised of it. First what the augmentations, any pipeline of them   *)
(* and the copies that pad make of flat, dense, planar buffers is what     *)
(* ImageReference says of pictures, for images of any size and any draws.  *)
(* Then the image fits the size that was chosen for it, and the writer     *)
(* leaves in each part of an item what its closure wrote, and zeros behind *)
(* it.                                                                     *)
(***************************************************************************)
EXTENDS BatchProofs

-----------------------------------------------------------------------------
(* Quotients and indices.                                                  *)

(***************************************************************************)
(* Quotient and remainder are the only ones there are.                     *)
(***************************************************************************)
LEMMA Divided ==
  ASSUME NEW d \in Nat \ {0}, NEW q \in Nat, NEW r \in 0 .. d - 1
  PROVE  /\ q * d + r \in Nat /\ (q * d + r) \div d = q /\ (q * d + r) % d = r
<1> DEFINE n == q * d + r
           p == n \div d
           s == n % d
<1>1. q * d \in Nat /\ n \in Nat
  OBVIOUS
<1>2. p \in Nat /\ s \in 0 .. d - 1 /\ n = d * p + s
  BY <1>1
<1>3. n = q * d + r
  OBVIOUS
<1> HIDE DEF n, p, s
<1>4. ~ (p + 1 <= q)
  <2> SUFFICES ASSUME p + 1 <= q PROVE FALSE
    OBVIOUS
  <2>1. (p + 1) * d <= q * d
    BY <1>2, ProductsGrow
  <2>2. (p + 1) * d = d * p + d
    BY <1>2
  <2> QED
    BY <1>1, <1>2, <1>3, <2>1, <2>2
<1>5. ~ (q + 1 <= p)
  <2> SUFFICES ASSUME q + 1 <= p PROVE FALSE
    OBVIOUS
  <2>1. (q + 1) * d <= p * d
    BY <1>2, ProductsGrow
  <2>2. (q + 1) * d = q * d + d /\ p * d = d * p
    BY <1>2
  <2> QED
    BY <1>1, <1>2, <1>3, <2>1, <2>2
<1>6. p = q
  BY <1>2, <1>4, <1>5
<1>7. d * p = q * d
  BY <1>2, <1>6
<1> QED
  BY <1>1, <1>2, <1>3, <1>6, <1>7 DEF n, p, s

(***************************************************************************)
(* The flat index of an element of a dense planar image, and the element   *)
(* that a flat index names, are each other's inverse.                      *)
(***************************************************************************)
LEMMA IndexIs ==
  ASSUME NEW h \in Nat, NEW w \in Nat, NEW c \in Planes, NEW y \in 0 .. h - 1, NEW x \in 0 .. w - 1
  PROVE  /\ Index(c, y, x, h, w) \in 0 .. Elements(h, w) - 1
         /\ ChannelOf(Index(c, y, x, h, w), h, w) = c
         /\ RowOf(Index(c, y, x, h, w), h, w) = y
         /\ ColumnOf(Index(c, y, x, h, w), w) = x
         /\ Index(c, y, x, h, w) % (h * w) = y * w + x
<1> DEFINE a == h * w
           b == y * w + x
           i == Index(c, y, x, h, w)
<1>0. c \in Nat /\ c <= 2 /\ h \in Nat \ {0} /\ w \in Nat \ {0}
  BY DEF Planes, Channels
<1>1. y * w \in Nat /\ b \in Nat /\ a \in Nat
  BY <1>0
<1>2. b \in 0 .. a - 1
  <2>1. (y + 1) * w <= h * w
    BY <1>0, ProductsGrow
  <2>2. (y + 1) * w = y * w + w
    BY <1>0
  <2> QED
    BY <1>0, <1>1, <2>1, <2>2
<1>3. i = c * a + b
  <2>1. c * h * w = c * (h * w)
    BY <1>0
  <2>2. i = c * h * w + y * w + x
    BY DEF Index
  <2>3. c * (h * w) \in Nat
    BY <1>0, <1>1
  <2> HIDE DEF i
  <2> QED
    BY <1>1, <2>1, <2>2, <2>3
<1>4. b \div w = y /\ b % w = x
  BY <1>0, Divided
<1>5. a # 0
  BY <1>1, <1>2
<1>6. i \div a = c /\ i % a = b
  <2> HIDE DEF a, b, i
  <2> QED
    BY <1>0, <1>1, <1>2, <1>3, <1>5, Divided
<1>7. i % w = x
  <2> DEFINE q == c * h + y
  <2>1. c * h \in Nat /\ q \in Nat
    BY <1>0
  <2>2. i = q * w + x
    <3>1. q * w = c * h * w + y * w
      BY <1>0, <2>1
    <3>2. c * h * w \in Nat
      BY <1>0, <2>1
    <3> HIDE DEF q
    <3> QED
      BY <1>1, <3>1, <3>2 DEF i, Index
  <2> HIDE DEF q, i
  <2> QED
    BY <1>0, <2>1, <2>2, Divided
<1>8. i \in 0 .. Elements(h, w) - 1
  <2>1. c * a \in Nat /\ (c + 1) * a <= 3 * a
    BY <1>0, <1>1, ProductsGrow
  <2>2. (c + 1) * a = c * a + a
    BY <1>0, <1>1
  <2>3. Elements(h, w) = 3 * a
    BY <1>0 DEF Elements, Channels
  <2> HIDE DEF a, b, i
  <2> QED
    BY <1>0, <1>1, <1>2, <1>3, <2>1, <2>2, <2>3
<1> QED
  BY <1>4, <1>6, <1>7, <1>8 DEF ChannelOf, RowOf, ColumnOf

(***************************************************************************)
(* Every flat index of an image names an element of it.                    *)
(***************************************************************************)
LEMMA IndexedIs ==
  ASSUME NEW h \in Nat, NEW w \in Nat, NEW i \in 0 .. Elements(h, w) - 1
  PROVE  /\ ChannelOf(i, h, w) \in Planes /\ RowOf(i, h, w) \in 0 .. h - 1 /\ ColumnOf(i, w) \in 0 .. w - 1
         /\ i = Index(ChannelOf(i, h, w), RowOf(i, h, w), ColumnOf(i, w), h, w)
         /\ i % (h * w) = RowOf(i, h, w) * w + ColumnOf(i, w)
<1> DEFINE a == h * w
           c == i \div a
           b == i % a
           y == b \div w
           x == b % w
<1>1. a \in Nat /\ Elements(h, w) = 3 * a /\ i \in Nat
  BY DEF Elements, Channels
<1>2. a # 0 /\ h # 0 /\ w # 0
  <2>1. a # 0
    <3> SUFFICES ASSUME a = 0 PROVE FALSE
      OBVIOUS
    <3> HIDE DEF a
    <3> QED
      BY <1>1
  <2> QED
    BY <2>1
<1>3. c \in Nat /\ b \in 0 .. a - 1 /\ i = a * c + b
  <2> HIDE DEF a
  <2> QED
    BY <1>1, <1>2
<1>4. y \in Nat /\ x \in 0 .. w - 1 /\ b = w * y + x
  <2> HIDE DEF b, a
  <2> QED
    BY <1>1, <1>2, <1>3
<1> HIDE DEF c, b, y, x
<1>5. c \in Planes
  <2>1. SUFFICES ASSUME 3 <= c PROVE FALSE
    BY <1>3 DEF Planes, Channels
  <2>2. 3 * a <= c * a /\ c * a \in Nat
    BY <1>1, <1>3, <2>1, ProductsGrow
  <2>3. c * a = a * c
    BY <1>1, <1>3
  <2> HIDE DEF a
  <2> QED
    BY <1>1, <1>3, <2>2, <2>3
<1>6. y \in 0 .. h - 1
  <2>1. SUFFICES ASSUME h <= y PROVE FALSE
    BY <1>4
  <2>2. h * w <= y * w /\ y * w \in Nat
    BY <1>4, <2>1, ProductsGrow
  <2>3. y * w = w * y
    BY <1>4
  <2> QED
    BY <1>1, <1>3, <1>4, <2>2, <2>3 DEF a
<1>7. i = Index(c, y, x, h, w)
  <2>1. a * c = c * h * w /\ w * y = y * w
    BY <1>3, <1>4 DEF a
  <2>2. c * h * w \in Nat /\ y * w \in Nat
    BY <1>3, <1>4
  <2> QED
    BY <1>3, <1>4, <2>1, <2>2 DEF Index
<1>8. ChannelOf(i, h, w) = c /\ RowOf(i, h, w) = y /\ ColumnOf(i, w) = x /\ i % (h * w) = y * w + x
  BY <1>4, <1>5, <1>6, <1>7, IndexIs
<1> QED
  BY <1>4, <1>5, <1>6, <1>7, <1>8

-----------------------------------------------------------------------------
(* Pictures in buffers.                                                    *)

\* The element of a picture that a flat index names.
Element(i, h, w) == << ChannelOf(i, h, w), RowOf(i, h, w), ColumnOf(i, w) >>

\* What pictures are.
IsPicture(pic) ==
  /\ pic = [h |-> pic.h, w |-> pic.w, at |-> pic.at]
  /\ pic.h \in Nat /\ pic.w \in Nat
  /\ pic.at = [p \in Positions(pic.h, pic.w) |-> pic.at[p]]

\* The first elements of a buffer are those of a picture.
Holds(buf, pic) ==
  \A i \in 0 .. Elements(pic.h, pic.w) - 1 :
    i \in DOMAIN buf /\ buf[i] = pic.at[Element(i, pic.h, pic.w)]

\* A step has made a picture of its input.
Gives(r, pic, out) ==
  IsPicture(pic) /\ r.h = pic.h /\ r.w = pic.w /\ DOMAIN r.out = DOMAIN out /\ Holds(r.out, pic)

(***************************************************************************)
(* The number of elements of an image.                                     *)
(***************************************************************************)
LEMMA ElementsTyped ==
  ASSUME NEW h \in Nat, NEW w \in Nat
  PROVE  Elements(h, w) \in Nat
<1> DEFINE n == Channels * h
<1>1. n \in Nat
  BY DEF Channels
<1> HIDE DEF n
<1>2. n * w \in Nat
  BY <1>1
<1> QED
  BY <1>2 DEF Elements, n

(***************************************************************************)
(* Flat indices name positions of the picture, and positions have flat     *)
(* indices.                                                                *)
(***************************************************************************)
LEMMA ElementIs ==
  ASSUME NEW h \in Nat, NEW w \in Nat
  PROVE  /\ \A i \in 0 .. Elements(h, w) - 1 : Element(i, h, w) \in Positions(h, w)
         /\ \A p \in Positions(h, w) :
              /\ Index(p[1], p[2], p[3], h, w) \in 0 .. Elements(h, w) - 1
              /\ Element(Index(p[1], p[2], p[3], h, w), h, w) = p
<1>1. ASSUME NEW i \in 0 .. Elements(h, w) - 1
      PROVE  Element(i, h, w) \in Positions(h, w)
  BY IndexedIs DEF Element, Positions
<1>2. ASSUME NEW p \in Positions(h, w)
      PROVE  /\ Index(p[1], p[2], p[3], h, w) \in 0 .. Elements(h, w) - 1
             /\ Element(Index(p[1], p[2], p[3], h, w), h, w) = p
  <2>1. p[1] \in Planes /\ p[2] \in 0 .. h - 1 /\ p[3] \in 0 .. w - 1 /\ p = << p[1], p[2], p[3] >>
    BY DEF Positions
  <2> QED
    BY <2>1, IndexIs DEF Element
<1> QED
  BY <1>1, <1>2

(***************************************************************************)
(* What a buffer that holds a picture has at the flat index of an element. *)
(***************************************************************************)
LEMMA HeldAt ==
  ASSUME NEW buf, NEW pic, IsPicture(pic), Holds(buf, pic),
         NEW c \in Planes, NEW y \in 0 .. pic.h - 1, NEW x \in 0 .. pic.w - 1
  PROVE  /\ Index(c, y, x, pic.h, pic.w) \in DOMAIN buf
         /\ buf[Index(c, y, x, pic.h, pic.w)] = pic.at[<< c, y, x >>]
<1> DEFINE i == Index(c, y, x, pic.h, pic.w)
<1>1. pic.h \in Nat /\ pic.w \in Nat
  BY DEF IsPicture
<1>2. i \in 0 .. Elements(pic.h, pic.w) - 1 /\ Element(i, pic.h, pic.w) = << c, y, x >>
  <2>1. /\ i \in 0 .. Elements(pic.h, pic.w) - 1 /\ ChannelOf(i, pic.h, pic.w) = c
        /\ RowOf(i, pic.h, pic.w) = y /\ ColumnOf(i, pic.w) = x
    <3> DEFINE h == pic.h
               w == pic.w
    <3>1. h \in Nat /\ w \in Nat /\ y \in 0 .. h - 1 /\ x \in 0 .. w - 1
      BY <1>1
    <3> HIDE DEF h, w
    <3>2. /\ Index(c, y, x, h, w) \in 0 .. Elements(h, w) - 1 /\ ChannelOf(Index(c, y, x, h, w), h, w) = c
          /\ RowOf(Index(c, y, x, h, w), h, w) = y /\ ColumnOf(Index(c, y, x, h, w), w) = x
      BY <3>1, IndexIs
    <3> QED
      BY <3>2 DEF h, w
  <2> HIDE DEF i
  <2> QED
    BY <2>1 DEF Element
<1> HIDE DEF i
<1>3. i \in DOMAIN buf /\ buf[i] = pic.at[Element(i, pic.h, pic.w)]
  BY <1>2 DEF Holds
<1> QED
  BY <1>2, <1>3 DEF i

(***************************************************************************)
(* A picture is what its parts say.                                        *)
(***************************************************************************)
LEMMA PictureIs ==
  ASSUME NEW h \in Nat, NEW w \in Nat, NEW f, f = [p \in Positions(h, w) |-> f[p]]
  PROVE  LET pic == Picture(h, w, f)
         IN  IsPicture(pic) /\ pic.h = h /\ pic.w = w /\ pic.at = f
<1> DEFINE pic == Picture(h, w, f)
<1>1. pic = [h |-> h, w |-> w, at |-> f]
  BY DEF Picture
<1>2. pic.h = h /\ pic.w = w /\ pic.at = f
  BY <1>1
<1> HIDE DEF pic
<1>3. IsPicture(pic)
  BY <1>1, <1>2 DEF IsPicture
<1> QED
  BY <1>2, <1>3 DEF pic

(***************************************************************************)
(* A picture of the same size with other elements.                         *)
(***************************************************************************)
LEMMA SameSize ==
  ASSUME NEW pic, IsPicture(pic), NEW f, f = [p \in Positions(pic.h, pic.w) |-> f[p]]
  PROVE  LET q == [pic EXCEPT !.at = f]
         IN  IsPicture(q) /\ q.h = pic.h /\ q.w = pic.w /\ q.at = f
<1> DEFINE q == [pic EXCEPT !.at = f]
<1>1. pic = [h |-> pic.h, w |-> pic.w, at |-> pic.at] /\ pic.h \in Nat /\ pic.w \in Nat
  BY DEF IsPicture
<1>2. q = Picture(pic.h, pic.w, f)
  BY <1>1 DEF Picture
<1> QED
  BY <1>1, <1>2, PictureIs

-----------------------------------------------------------------------------
(* The augmentations.                                                      *)

(***************************************************************************)
(* A flip shows the picture, or its mirror image.                          *)
(***************************************************************************)
LEMMA FlipShows ==
  ASSUME NEW pic, IsPicture(pic), NEW in, Holds(in, pic), NEW step, NEW out, NEW d, d[1] \in {0, 1},
         FlipApply(step, in, pic.h, pic.w, out, d).err = "none"
  PROVE  Gives(FlipApply(step, in, pic.h, pic.w, out, d), Flipped(pic, d[1] = 1), out)
<1> DEFINE h == pic.h
           w == pic.w
           n == Elements(h, w)
           Turned(i) == i - ColumnOf(i, w) + w - 1 - ColumnOf(i, w)
           f == [i \in DOMAIN out |-> IF d[1] = 0 THEN in[i] ELSE in[Turned(i)]]
           r == FlipApply(step, in, h, w, out, d)
<1>1. h \in Nat /\ w \in Nat /\ DOMAIN pic.at = Positions(h, w)
  BY DEF IsPicture
<1>2. FitsExactly(in, h, w, out) /\ r = To(h, w, f)
  BY DEF FlipApply, Broken
<1>3. DOMAIN out = 0 .. n - 1 /\ DOMAIN in = 0 .. n - 1
  BY <1>2 DEF FitsExactly
<1>4. r.h = h /\ r.w = w /\ r.out = f /\ DOMAIN f = DOMAIN out
  BY <1>2 DEF To
<1>5. CASE d[1] = 0
  <2>1. Flipped(pic, d[1] = 1) = pic
    BY <1>5 DEF Flipped
  <2>2. \A i \in 0 .. n - 1 : f[i] = in[i]
    BY <1>3, <1>5
  <2> HIDE DEF f
  <2>3. Holds(f, pic)
    BY <1>3, <1>4, <2>2 DEF Holds
  <2> QED
    BY <1>4, <2>1, <2>3 DEF Gives
<1>6. CASE d[1] = 1
  <2> DEFINE at == [p \in DOMAIN pic.at |-> pic.at[<< p[1], p[2], w - 1 - p[3] >>]]
             q == [pic EXCEPT !.at = at]
  <2>1. Flipped(pic, d[1] = 1) = q
    BY <1>6 DEF Flipped
  <2>2. at = [p \in Positions(h, w) |-> at[p]]
    BY <1>1
  <2>3. IsPicture(q) /\ q.h = h /\ q.w = w /\ q.at = at
    <3> HIDE DEF at
    <3> QED
      BY <2>2, SameSize
  <2>4. ASSUME NEW i \in 0 .. n - 1
        PROVE  f[i] = at[Element(i, h, w)]
    <3> DEFINE c == ChannelOf(i, h, w)
               y == RowOf(i, h, w)
               x == ColumnOf(i, w)
    <3>1. c \in Planes /\ y \in 0 .. h - 1 /\ x \in 0 .. w - 1 /\ i = Index(c, y, x, h, w)
      BY <1>1, IndexedIs
    <3>2. Element(i, h, w) = << c, y, x >> /\ << c, y, x >> \in Positions(h, w)
      BY <3>1 DEF Element, Positions
    <3>3. f[i] = in[Turned(i)] /\ Turned(i) = i - x + w - 1 - x
      BY <1>3, <1>6
    <3>4. at[<< c, y, x >>] = pic.at[<< c, y, w - 1 - x >>]
      BY <1>1, <3>2
    <3> HIDE DEF c, y, x, f, at
    <3>5. w - 1 - x \in 0 .. w - 1
      BY <1>1, <3>1
    <3>6. i - x + w - 1 - x = Index(c, y, w - 1 - x, h, w)
      <4>1. c * h * w \in Int /\ y * w \in Int
        BY <1>1, <3>1 DEF Planes, Channels
      <4> QED
        BY <1>1, <3>1, <4>1 DEF Index
    <3>7. in[Index(c, y, w - 1 - x, h, w)] = pic.at[<< c, y, w - 1 - x >>]
      BY <3>1, <3>5, HeldAt
    <3> QED
      BY <3>2, <3>3, <3>4, <3>6, <3>7
  <2> HIDE DEF f, at, q
  <2>5. Holds(f, q)
    BY <1>3, <1>4, <2>3, <2>4 DEF Holds
  <2> QED
    BY <1>4, <2>1, <2>3, <2>5 DEF Gives
<1> QED
  BY <1>5, <1>6

\* What the buffers of images are: arrays of some length.
IsBuffer(buf) == \E n \in Nat : DOMAIN buf = 0 .. n - 1

(***************************************************************************)
(* The length of a buffer is the number of its indices.                    *)
(***************************************************************************)
LEMMA BufferIs ==
  ASSUME NEW buf, IsBuffer(buf)
  PROVE  Cardinality(DOMAIN buf) \in Nat /\ DOMAIN buf = 0 .. Cardinality(DOMAIN buf) - 1
<1>1. PICK n \in Nat : DOMAIN buf = 0 .. n - 1
  BY DEF IsBuffer
<1>2. Cardinality(0 .. n - 1) = n
  BY FS_Interval
<1> QED
  BY <1>1, <1>2

(***************************************************************************)
(* A part that is no longer than a buffer is where the buffer begins.      *)
(***************************************************************************)
LEMMA OverlayIs ==
  ASSUME NEW buf, IsBuffer(buf), NEW part, NEW n \in Nat, DOMAIN part = 0 .. n - 1
  PROVE  /\ DOMAIN Overlay(buf, part) = DOMAIN buf
         /\ n <= Cardinality(DOMAIN buf) =>
              \A i \in 0 .. n - 1 : i \in DOMAIN buf /\ Overlay(buf, part)[i] = part[i]
<1> DEFINE m == Cardinality(DOMAIN buf)
<1>1. m \in Nat /\ DOMAIN buf = 0 .. m - 1
  BY BufferIs
<1> HIDE DEF m
<1>2. n <= m => \A i \in 0 .. n - 1 : i \in DOMAIN buf
  BY <1>1
<1> QED
  BY <1>2 DEF Overlay, m

(***************************************************************************)
(* A crop is the picture's part from the corner that was drawn.            *)
(***************************************************************************)
LEMMA CropShows ==
  ASSUME NEW pic, IsPicture(pic), NEW in, Holds(in, pic), NEW step, step.h \in Nat, step.w \in Nat,
         NEW out, IsBuffer(out), NEW d, d \in CropDraws(step, pic.h, pic.w),
         CropApply(step, in, pic.h, pic.w, out, d).err = "none"
  PROVE  Gives(CropApply(step, in, pic.h, pic.w, out, d), Cropped(pic, step.h, step.w, d[1], d[2]), out)
<1> DEFINE h == step.h
           w == step.w
           n == Elements(h, w)
           Of(i) == Index(ChannelOf(i, h, w), d[1] + RowOf(i, h, w), d[2] + ColumnOf(i, w), pic.h, pic.w)
           f == [i \in 0 .. n - 1 |-> in[Of(i)]]
           g == Overlay(out, f)
           r == CropApply(step, in, pic.h, pic.w, out, d)
           at == [p \in Positions(h, w) |-> pic.at[<< p[1], p[2] + d[1], p[3] + d[2] >>]]
           q == Cropped(pic, h, w, d[1], d[2])
<1>1. pic.h \in Nat /\ pic.w \in Nat /\ n \in Nat
  BY ElementsTyped DEF IsPicture
<1>2. CropFits(step, pic.h, pic.w) /\ n <= Cardinality(DOMAIN out) /\ r = To(h, w, g)
  <2>1. Cardinality(DOMAIN out) \in Nat
    BY BufferIs
  <2> QED
    BY <1>1, <2>1 DEF CropApply, Broken
<1>3. h <= pic.h /\ w <= pic.w /\ d[1] \in 0 .. pic.h - h /\ d[2] \in 0 .. pic.w - w
  BY <1>2 DEF CropFits, CropDraws
<1>4. q = Picture(h, w, at)
  BY DEF Cropped
<1>5. IsPicture(q) /\ q.h = h /\ q.w = w /\ q.at = at
  <2> HIDE DEF q
  <2>1. at = [p \in Positions(h, w) |-> at[p]]
    OBVIOUS
  <2> HIDE DEF at
  <2> QED
    BY <1>4, <2>1, PictureIs
<1>6. /\ DOMAIN g = DOMAIN out
      /\ \A i \in 0 .. n - 1 : i \in DOMAIN out /\ g[i] = f[i]
  <2>1. DOMAIN f = 0 .. n - 1
    OBVIOUS
  <2> HIDE DEF f
  <2> QED
    BY <1>1, <1>2, <2>1, OverlayIs
<1>7. ASSUME NEW i \in 0 .. n - 1
      PROVE  f[i] = at[Element(i, h, w)]
  <2> DEFINE c == ChannelOf(i, h, w)
             y == RowOf(i, h, w)
             x == ColumnOf(i, w)
  <2>1. c \in Planes /\ y \in 0 .. h - 1 /\ x \in 0 .. w - 1
    BY IndexedIs
  <2>2. Element(i, h, w) = << c, y, x >> /\ << c, y, x >> \in Positions(h, w)
    BY <2>1 DEF Element, Positions
  <2>3. f[i] = in[Index(c, d[1] + y, d[2] + x, pic.h, pic.w)]
    OBVIOUS
  <2>4. at[<< c, y, x >>] = pic.at[<< c, y + d[1], x + d[2] >>]
    BY <2>2
  <2> HIDE DEF c, y, x, f, at
  <2>5. d[1] + y \in 0 .. pic.h - 1 /\ d[2] + x \in 0 .. pic.w - 1 /\ d[1] + y = y + d[1] /\ d[2] + x = x + d[2]
    BY <1>1, <1>3, <2>1
  <2>6. in[Index(c, d[1] + y, d[2] + x, pic.h, pic.w)] = pic.at[<< c, d[1] + y, d[2] + x >>]
    BY <2>1, <2>5, HeldAt
  <2> QED
    BY <2>2, <2>3, <2>4, <2>5, <2>6
<1>8. r.h = h /\ r.w = w /\ r.out = g
  BY <1>2 DEF To
<1> HIDE DEF f, g, at, q
<1>9. Holds(g, q)
  BY <1>5, <1>6, <1>7 DEF Holds
<1> QED
  BY <1>5, <1>6, <1>8, <1>9 DEF Gives, q

(***************************************************************************)
(* A resize is the picture itself, or its rows and columns blended.        *)
(***************************************************************************)
LEMMA ResizeShows ==
  ASSUME NEW pic, IsPicture(pic), NEW in, IsBuffer(in), Holds(in, pic), NEW step, step.h \in Nat, step.w \in Nat,
         NEW dt, NEW out, IsBuffer(out), ResizeApply(step, dt, in, pic.h, pic.w, out).err = "none"
  PROVE  Gives(ResizeApply(step, dt, in, pic.h, pic.w, out), ResizedTo(pic, step.h, step.w), out)
<1> DEFINE h == step.h
           w == step.w
           n == Elements(h, w)
           Mixed(i) == Blend({ in[Index(ChannelOf(i, h, w), y, x, pic.h, pic.w)] :
                               y \in Support(RowOf(i, h, w), pic.h, h), x \in Support(ColumnOf(i, w), pic.w, w) })
           f == [i \in 0 .. n - 1 |-> Mixed(i)]
           r == ResizeApply(step, dt, in, pic.h, pic.w, out)
           q == ResizedTo(pic, h, w)
<1>1. pic.h \in Nat /\ pic.w \in Nat /\ n \in Nat
  BY ElementsTyped DEF IsPicture
<1>2. /\ Cardinality(DOMAIN out) \in Nat /\ DOMAIN out = 0 .. Cardinality(DOMAIN out) - 1
      /\ Cardinality(DOMAIN in) \in Nat /\ DOMAIN in = 0 .. Cardinality(DOMAIN in) - 1
  BY BufferIs
<1>3. CASE FixedSize(step) = << pic.h, pic.w >>
  <2> DEFINE g == Overlay(out, in)
  <2>1. h = pic.h /\ w = pic.w
    BY <1>3 DEF FixedSize
  <2>2. q = pic
    BY <2>1 DEF ResizedTo
  <2>3. Cardinality(DOMAIN in) <= Cardinality(DOMAIN out) /\ r = To(pic.h, pic.w, g)
    BY <1>2, <1>3 DEF ResizeApply, Broken
  <2>4. /\ DOMAIN g = DOMAIN out
        /\ \A i \in 0 .. Cardinality(DOMAIN in) - 1 : i \in DOMAIN out /\ g[i] = in[i]
    BY <1>2, <2>3, OverlayIs
  <2> HIDE DEF g
  <2>5. Holds(g, pic)
    BY <1>2, <2>4 DEF Holds
  <2>6. r.h = pic.h /\ r.w = pic.w /\ r.out = g
    BY <2>3 DEF To
  <2> QED
    BY <2>2, <2>4, <2>5, <2>6 DEF Gives
<1>4. CASE FixedSize(step) # << pic.h, pic.w >>
  <2> DEFINE g == Overlay(out, f)
             Around(p) == { pic.at[<< p[1], y, x >>] : y \in Support(p[2], pic.h, h), x \in Support(p[3], pic.w, w) }
             at == [p \in Positions(h, w) |-> Blend(Around(p))]
  <2>1. ~ (h = pic.h /\ w = pic.w)
    BY <1>4 DEF FixedSize
  <2>2. q = Picture(h, w, at)
    BY <2>1 DEF ResizedTo
  <2>3. IsPicture(q) /\ q.h = h /\ q.w = w /\ q.at = at
    <3> HIDE DEF q
    <3>1. at = [p \in Positions(h, w) |-> at[p]]
      OBVIOUS
    <3> HIDE DEF at
    <3> QED
      BY <2>2, <3>1, PictureIs
  <2>4. dt \in ResizedTypes
    BY <1>4 DEF ResizeApply, Broken
  <2>5. n <= Cardinality(DOMAIN out) /\ r = To(h, w, g)
    BY <1>1, <1>2, <1>4, <2>4 DEF ResizeApply, Broken
  <2>6. /\ DOMAIN g = DOMAIN out
        /\ \A i \in 0 .. n - 1 : i \in DOMAIN out /\ g[i] = f[i]
    <3>1. DOMAIN f = 0 .. n - 1
      OBVIOUS
    <3> HIDE DEF f
    <3> QED
      BY <1>1, <2>5, <3>1, OverlayIs
  <2>7. ASSUME NEW i \in 0 .. n - 1
        PROVE  f[i] = at[Element(i, h, w)]
    <3> DEFINE p == Element(i, h, w)
               c == ChannelOf(i, h, w)
               k == RowOf(i, h, w)
               m == ColumnOf(i, w)
               Ours == { in[Index(ChannelOf(i, h, w), y, x, pic.h, pic.w)] :
                         y \in Support(RowOf(i, h, w), pic.h, h), x \in Support(ColumnOf(i, w), pic.w, w) }
               Theirs == Around(p)
    <3>1. c \in Planes /\ k \in 0 .. h - 1 /\ m \in 0 .. w - 1
      BY IndexedIs
    <3>2. p[1] = c /\ p[2] = k /\ p[3] = m /\ p \in Positions(h, w)
      BY <3>1 DEF Element, Positions
    <3>3. f[i] = Blend(Ours)
      OBVIOUS
    <3>4. at[p] = Blend(Theirs)
      <4> HIDE DEF p, Around
      <4> QED
        BY <3>2
    <3>5. \A y \in Support(k, pic.h, h), x \in Support(m, pic.w, w) :
            in[Index(c, y, x, pic.h, pic.w)] = pic.at[<< c, y, x >>]
      <4>1. Support(k, pic.h, h) \subseteq 0 .. pic.h - 1 /\ Support(m, pic.w, w) \subseteq 0 .. pic.w - 1
        BY DEF Support
      <4> HIDE DEF c, k, m
      <4> QED
        BY <3>1, <4>1, HeldAt
    <3>6. ASSUME NEW v \in Ours
          PROVE  v \in Theirs
      <4>1. PICK y \in Support(k, pic.h, h), x \in Support(m, pic.w, w) : v = in[Index(c, y, x, pic.h, pic.w)]
        OBVIOUS
      <4>2. y \in Support(p[2], pic.h, h) /\ x \in Support(p[3], pic.w, w) /\ v = pic.at[<< p[1], y, x >>]
        BY <3>2, <3>5, <4>1
      <4> HIDE DEF p
      <4> QED
        BY <4>2
    <3>7. ASSUME NEW v \in Theirs
          PROVE  v \in Ours
      <4>1. PICK y \in Support(p[2], pic.h, h), x \in Support(p[3], pic.w, w) : v = pic.at[<< p[1], y, x >>]
        <5> HIDE DEF p
        <5> QED
          OBVIOUS
      <4>2. y \in Support(k, pic.h, h) /\ x \in Support(m, pic.w, w) /\ v = in[Index(c, y, x, pic.h, pic.w)]
        BY <3>2, <3>5, <4>1
      <4> QED
        BY <4>2
    <3> HIDE DEF Ours, Theirs, f, at, p
    <3>8. f[i] = at[p]
      <4>1. Ours = Theirs
        BY <3>6, <3>7
      <4> QED
        BY <3>3, <3>4, <4>1
    <3> QED
      BY <3>8 DEF p
  <2>8. r.h = h /\ r.w = w /\ r.out = g
    BY <2>5 DEF To
  <2> HIDE DEF f, g, at, q
  <2>9. Holds(g, q)
    BY <2>3, <2>6, <2>7 DEF Holds
  <2> QED
    BY <2>3, <2>6, <2>8, <2>9 DEF Gives, q
<1> QED
  BY <1>3, <1>4

\* A picture with each element put through a function of positions.
Redrawn(pic, f) == [pic EXCEPT !.at = [p \in DOMAIN pic.at |-> f[p]]]

(***************************************************************************)
(* A buffer whose elements are as long as the image, each what a function  *)
(* gives for the position it has, holds the picture redrawn.               *)
(***************************************************************************)
LEMMA RedrawnShows ==
  ASSUME NEW pic, IsPicture(pic), NEW f, NEW g,
         \A i \in 0 .. Elements(pic.h, pic.w) - 1 : i \in DOMAIN g /\ g[i] = f[Element(i, pic.h, pic.w)]
  PROVE  LET q == Redrawn(pic, f) IN IsPicture(q) /\ q.h = pic.h /\ q.w = pic.w /\ Holds(g, q)
<1> DEFINE at == [p \in Positions(pic.h, pic.w) |-> f[p]]
           q == [pic EXCEPT !.at = at]
<1>1. pic.h \in Nat /\ pic.w \in Nat /\ DOMAIN pic.at = Positions(pic.h, pic.w)
  BY DEF IsPicture
<1>2. Redrawn(pic, f) = q
  BY <1>1 DEF Redrawn
<1>3. at = [p \in Positions(pic.h, pic.w) |-> at[p]]
  OBVIOUS
<1>4. \A i \in 0 .. Elements(pic.h, pic.w) - 1 : at[Element(i, pic.h, pic.w)] = f[Element(i, pic.h, pic.w)]
  BY <1>1, ElementIs
<1> HIDE DEF at
<1>5. IsPicture(q) /\ q.h = pic.h /\ q.w = pic.w /\ q.at = at
  BY <1>3, SameSize
<1> HIDE DEF q
<1>6. Holds(g, q)
  BY <1>4, <1>5 DEF Holds
<1> QED
  BY <1>2, <1>5, <1>6 DEF at

(***************************************************************************)
(* Elements that are all adjusted are those of the picture normalized.     *)
(***************************************************************************)
LEMMA AdjustedShows ==
  ASSUME NEW pic, IsPicture(pic), NEW in, Holds(in, pic)
  PROVE  LET g == [i \in DOMAIN in |-> Adjusted(in[i])]
             q == Normalized(pic)
         IN  IsPicture(q) /\ q.h = pic.h /\ q.w = pic.w /\ Holds(g, q)
<1> DEFINE f == [p \in DOMAIN pic.at |-> Adjusted(pic.at[p])]
           g == [i \in DOMAIN in |-> Adjusted(in[i])]
           h == pic.h
           w == pic.w
<1>1. h \in Nat /\ w \in Nat /\ DOMAIN pic.at = Positions(h, w)
  BY DEF IsPicture
<1>2. Normalized(pic) = Redrawn(pic, f)
  BY DEF Normalized, Redrawn
<1>3. \A i \in 0 .. Elements(h, w) - 1 : i \in DOMAIN g /\ g[i] = f[Element(i, h, w)]
  <2> TAKE i \in 0 .. Elements(h, w) - 1
  <2>1. i \in DOMAIN in /\ in[i] = pic.at[Element(i, h, w)]
    BY DEF Holds
  <2>2. Element(i, h, w) \in DOMAIN pic.at
    BY <1>1, ElementIs
  <2> QED
    BY <2>1, <2>2
<1> HIDE DEF f, g
<1>4. LET q == Redrawn(pic, f) IN IsPicture(q) /\ q.h = pic.h /\ q.w = pic.w /\ Holds(g, q)
  BY <1>3, RedrawnShows
<1> QED
  BY <1>2, <1>4 DEF g

(***************************************************************************)
(* Normalize adjusts every element.                                        *)
(***************************************************************************)
LEMMA NormalizeShows ==
  ASSUME NEW pic, IsPicture(pic), NEW in, Holds(in, pic), NEW step, NEW dt, NEW out,
         NormalizeApply(step, dt, in, pic.h, pic.w, out).err = "none"
  PROVE  Gives(NormalizeApply(step, dt, in, pic.h, pic.w, out), Normalized(pic), out)
<1> DEFINE g == [i \in DOMAIN in |-> Adjusted(in[i])]
           r == NormalizeApply(step, dt, in, pic.h, pic.w, out)
<1>1. FitsExactly(in, pic.h, pic.w, out) /\ r = To(pic.h, pic.w, g)
  BY DEF NormalizeApply, Broken
<1>2. r.h = pic.h /\ r.w = pic.w /\ r.out = g /\ DOMAIN g = DOMAIN out
  BY <1>1 DEF To, FitsExactly
<1>3. LET q == Normalized(pic) IN IsPicture(q) /\ q.h = pic.h /\ q.w = pic.w /\ Holds(g, q)
  BY AdjustedShows
<1> HIDE DEF g, r
<1> QED
  BY <1>2, <1>3 DEF Gives, r

\* The values that a buffer or a picture has.
ValuesOf(f) == { f[i] : i \in DOMAIN f }

(***************************************************************************)
(* The values of a buffer that holds a picture and nothing else are the    *)
(* values of the picture.                                                  *)
(***************************************************************************)
LEMMA SameValues ==
  ASSUME NEW pic, IsPicture(pic), NEW in, Holds(in, pic), DOMAIN in = 0 .. Elements(pic.h, pic.w) - 1
  PROVE  ValuesOf(in) = ValuesOf(pic.at)
<1>1. pic.h \in Nat /\ pic.w \in Nat /\ DOMAIN pic.at = Positions(pic.h, pic.w)
  BY DEF IsPicture
<1>2. \A j \in DOMAIN in : Element(j, pic.h, pic.w) \in DOMAIN pic.at /\ in[j] = pic.at[Element(j, pic.h, pic.w)]
  BY <1>1, ElementIs DEF Holds
<1>3. \A q \in DOMAIN pic.at : \E j \in DOMAIN in : pic.at[q] = in[j]
  <2> TAKE q \in DOMAIN pic.at
  <2> DEFINE j == Index(q[1], q[2], q[3], pic.h, pic.w)
  <2>1. j \in DOMAIN in /\ Element(j, pic.h, pic.w) = q
    BY <1>1, ElementIs
  <2> HIDE DEF j
  <2> QED
    BY <1>2, <2>1
<1> QED
  BY <1>2, <1>3 DEF ValuesOf

(***************************************************************************)
(* A color jitter is brightness, then contrast, then saturation.           *)
(***************************************************************************)
LEMMA JitterShows ==
  ASSUME NEW pic, IsPicture(pic), NEW in, Holds(in, pic), NEW step, NEW dt, NEW out,
         NEW d, d[1] \in {0, 1}, d[2] \in {0, 1},
         JitterApply(step, dt, in, pic.h, pic.w, out, d).err = "none"
  PROVE  Gives(JitterApply(step, dt, in, pic.h, pic.w, out, d), Jittered(pic, d[1] = 1, d[2] = 1), out)
<1> DEFINE h == pic.h
           w == pic.w
           n == Elements(h, w)
           bright == [i \in DOMAIN in |-> Adjusted(in[i])]
           contrast == IF d[1] = 0 THEN bright ELSE [i \in DOMAIN in |-> Blend({ bright[j] : j \in DOMAIN in })]
           Luma(i) == Blend({ contrast[c * h * w + (i % (h * w))] : c \in 0 .. Channels - 1 })
           last == IF d[2] = 0 THEN contrast ELSE [i \in DOMAIN in |-> Luma(i)]
           r == JitterApply(step, dt, in, h, w, out, d)
           lit == Normalized(pic).at
           even == IF d[1] = 1 THEN [p \in DOMAIN lit |-> Blend({ lit[q] : q \in DOMAIN lit })] ELSE lit
           Grey(p) == Blend({ even[<< c, p[2], p[3] >>] : c \in Planes })
           grey == IF d[2] = 1 THEN [p \in DOMAIN even |-> Grey(p)] ELSE even
           q == [pic EXCEPT !.at = grey]
<1>1. FitsExactly(in, h, w, out) /\ r = To(h, w, last)
  BY DEF JitterApply, Broken
<1>2. r.h = h /\ r.w = w /\ r.out = last /\ DOMAIN in = 0 .. n - 1 /\ DOMAIN out = 0 .. n - 1
  <2> HIDE DEF last
  <2> QED
    BY <1>1 DEF To, FitsExactly
<1>3. h \in Nat /\ w \in Nat
  BY DEF IsPicture
<1>4. Jittered(pic, d[1] = 1, d[2] = 1) = q
  BY DEF Jittered
<1> DEFINE np == Normalized(pic)
<1>5. IsPicture(np) /\ np.h = h /\ np.w = w /\ Holds(bright, np) /\ DOMAIN bright = 0 .. n - 1
  BY <1>2, AdjustedShows
<1>6. DOMAIN lit = Positions(h, w)
  <2> HIDE DEF np
  <2> QED
    BY <1>5 DEF IsPicture, np
<1>7. /\ DOMAIN contrast = 0 .. n - 1 /\ DOMAIN even = Positions(h, w)
      /\ \A i \in 0 .. n - 1 : contrast[i] = even[Element(i, h, w)]
  <2>1. \A i \in 0 .. n - 1 : bright[i] = lit[Element(i, h, w)] /\ Element(i, h, w) \in Positions(h, w)
    <3> HIDE DEF bright, np
    <3> QED
      BY <1>3, <1>5, ElementIs DEF Holds, np
  <2>2. CASE d[1] = 0
    <3> HIDE DEF bright, lit
    <3> QED
      BY <1>5, <1>6, <2>1, <2>2
  <2>3. CASE d[1] = 1
    <3> DEFINE one == Blend({ bright[j] : j \in DOMAIN in })
               two == Blend({ lit[p] : p \in DOMAIN lit })
    <3>1. one = two
      <4>1. ValuesOf(bright) = ValuesOf(np.at)
        <5>1. DOMAIN bright = 0 .. Elements(np.h, np.w) - 1
          BY <1>5
        <5> HIDE DEF bright, np
        <5> QED
          BY <1>5, <5>1, SameValues
      <4>2. DOMAIN bright = DOMAIN in
        OBVIOUS
      <4>3. { bright[j] : j \in DOMAIN in } = ValuesOf(bright)
        <5> HIDE DEF bright
        <5> QED
          BY <4>2 DEF ValuesOf
      <4>4. { lit[p] : p \in DOMAIN lit } = ValuesOf(np.at)
        <5> HIDE DEF np
        <5> QED
          BY DEF ValuesOf, np
      <4> HIDE DEF bright, np, lit
      <4> QED
        BY <4>1, <4>3, <4>4
    <3>2. contrast = [i \in DOMAIN in |-> one] /\ even = [p \in DOMAIN lit |-> two]
      BY <2>3
    <3> HIDE DEF one, two, contrast, even, lit
    <3> QED
      BY <1>2, <1>6, <2>1, <3>1, <3>2
  <2> QED
    BY <2>2, <2>3
<1> HIDE DEF contrast, even
<1>8. /\ DOMAIN last = 0 .. n - 1 /\ grey = [p \in Positions(h, w) |-> grey[p]]
      /\ \A i \in 0 .. n - 1 : last[i] = grey[Element(i, h, w)]
  <2>0. even = [p \in Positions(h, w) |-> even[p]]
    <3>1. DOMAIN lit = Positions(h, w) /\ lit = [p \in Positions(h, w) |-> lit[p]]
      BY DEF Normalized, IsPicture
    <3> HIDE DEF lit
    <3> QED
      BY <3>1 DEF even
  <2>1. CASE d[2] = 0
    BY <1>7, <2>0, <2>1
  <2>2. CASE d[2] = 1
    <3>1. last = [i \in DOMAIN in |-> Luma(i)] /\ grey = [p \in DOMAIN even |-> Grey(p)]
      BY <2>2
    <3>2. ASSUME NEW i \in 0 .. n - 1
          PROVE  Luma(i) = Grey(Element(i, h, w)) /\ Element(i, h, w) \in Positions(h, w)
      <4> DEFINE c0 == ChannelOf(i, h, w)
                 y == RowOf(i, h, w)
                 x == ColumnOf(i, w)
                 p == Element(i, h, w)
      <4>1. c0 \in Planes /\ y \in 0 .. h - 1 /\ x \in 0 .. w - 1 /\ i = Index(c0, y, x, h, w)
        BY <1>3, IndexedIs
      <4>2. p[1] = c0 /\ p[2] = y /\ p[3] = x /\ p \in Positions(h, w)
        BY <4>1 DEF Element, Positions
      <4>3. ASSUME NEW c \in Planes
            PROVE  contrast[c * h * w + (i % (h * w))] = even[<< c, p[2], p[3] >>]
        <5> DEFINE j == Index(c, y, x, h, w)
        <5>1. j \in 0 .. n - 1 /\ Element(j, h, w) = << c, y, x >>
          <6>1. y \in 0 .. h - 1 /\ x \in 0 .. w - 1
            BY <4>1
          <6> HIDE DEF c0, y, x, h, w
          <6> QED
            <7>1. /\ j \in 0 .. Elements(h, w) - 1 /\ ChannelOf(j, h, w) = c
                  /\ RowOf(j, h, w) = y /\ ColumnOf(j, w) = x
              <8>1. h \in Nat /\ w \in Nat
                BY <1>3
              <8> QED
                BY <6>1, <8>1, IndexIs, ZenonT(40)
            <7> HIDE DEF j
            <7> QED
              BY <1>3, <7>1 DEF Element
        <5>2. i % (h * w) = y * w + x
          BY <1>3, IndexedIs
        <5>3. c * h * w + (i % (h * w)) = j
          <6>1. c * h * w \in Int /\ y * w \in Int /\ x \in Int
            BY <1>3, <4>1 DEF Planes, Channels
          <6> HIDE DEF y, x
          <6> QED
            BY <5>2, <6>1 DEF Index
        <5> HIDE DEF j, y, x, p
        <5> QED
          BY <1>7, <4>2, <5>1, <5>3
      <4>4. { contrast[c * h * w + (i % (h * w))] : c \in 0 .. Channels - 1 } = { even[<< c, p[2], p[3] >>] : c \in Planes }
        <5> HIDE DEF p
        <5> QED
          BY <4>3 DEF Planes
      <4> QED
        BY <4>2, <4>4
    <3> HIDE DEF Luma, Grey, last, grey
    <3> QED
      BY <1>2, <1>7, <3>1, <3>2
  <2> QED
    BY <2>1, <2>2
<1> HIDE DEF last, grey
<1>9. IsPicture(q) /\ q.h = h /\ q.w = w /\ q.at = grey
  BY <1>8, SameSize
<1> HIDE DEF q, r
<1>10. Holds(last, q)
  BY <1>3, <1>8, <1>9 DEF Holds
<1> QED
  BY <1>2, <1>4, <1>8, <1>9, <1>10 DEF Gives, r

(***************************************************************************)
(* Only a crop and a resize change the size, and make it their own.        *)
(***************************************************************************)
LEMMA StepSizes ==
  ASSUME NEW pic, IsPicture(pic), NEW step \in AnyStep, NEW d
  PROVE  /\ Augmented(pic, step, d).h = IF ChangesSize(step) THEN step.h ELSE pic.h
         /\ Augmented(pic, step, d).w = IF ChangesSize(step) THEN step.w ELSE pic.w
<1>1. step.op \in {"RandomHorizontalFlip", "RandomCrop", "Resize", "Normalize", "ColorJitter"}
  BY DEF AnyStep
<1>2. CASE step.op = "RandomHorizontalFlip"
  <2>1. Augmented(pic, step, d) = Flipped(pic, d[1] = 1) /\ ~ChangesSize(step)
    BY <1>2 DEF Augmented, ChangesSize
  <2>2. Flipped(pic, d[1] = 1).h = pic.h /\ Flipped(pic, d[1] = 1).w = pic.w
    BY DEF Flipped, IsPicture
  <2> QED
    BY <2>1, <2>2
<1>3. CASE step.op = "RandomCrop"
  <2>1. Augmented(pic, step, d) = Cropped(pic, step.h, step.w, d[1], d[2]) /\ ChangesSize(step)
    BY <1>3 DEF Augmented, ChangesSize
  <2>2. Cropped(pic, step.h, step.w, d[1], d[2]).h = step.h /\ Cropped(pic, step.h, step.w, d[1], d[2]).w = step.w
    BY DEF Cropped, Picture
  <2> QED
    BY <2>1, <2>2
<1>4. CASE step.op = "Resize"
  <2>1. Augmented(pic, step, d) = ResizedTo(pic, step.h, step.w) /\ ChangesSize(step)
    BY <1>4 DEF Augmented, ChangesSize
  <2>2. ResizedTo(pic, step.h, step.w).h = step.h /\ ResizedTo(pic, step.h, step.w).w = step.w
    BY DEF ResizedTo, Picture
  <2> QED
    BY <2>1, <2>2
<1>5. CASE step.op = "Normalize"
  <2>1. Augmented(pic, step, d) = Normalized(pic) /\ ~ChangesSize(step)
    BY <1>5 DEF Augmented, ChangesSize
  <2>2. Normalized(pic).h = pic.h /\ Normalized(pic).w = pic.w
    BY DEF Normalized, IsPicture
  <2> QED
    BY <2>1, <2>2
<1>6. CASE step.op = "ColorJitter"
  <2>1. Augmented(pic, step, d) = Jittered(pic, d[1] = 1, d[2] = 1) /\ ~ChangesSize(step)
    BY <1>6 DEF Augmented, ChangesSize
  <2>2. Jittered(pic, d[1] = 1, d[2] = 1).h = pic.h /\ Jittered(pic, d[1] = 1, d[2] = 1).w = pic.w
    <3> DEFINE even == IF d[1] = 1 THEN [p \in DOMAIN Normalized(pic).at |-> Blend({ Normalized(pic).at[q] : q \in DOMAIN Normalized(pic).at })]
                       ELSE Normalized(pic).at
               at == IF d[2] = 1 THEN [p \in DOMAIN even |-> Blend({ even[<< c, p[2], p[3] >>] : c \in Planes })] ELSE even
    <3>1. Jittered(pic, d[1] = 1, d[2] = 1) = [pic EXCEPT !.at = at]
      BY DEF Jittered
    <3> HIDE DEF at
    <3>2. pic = [h |-> pic.h, w |-> pic.w, at |-> pic.at]
      BY DEF IsPicture
    <3> QED
      BY <3>1, <3>2
  <2> QED
    BY <2>1, <2>2
<1> QED
  BY <1>1, <1>2, <1>3, <1>4, <1>5, <1>6

(***************************************************************************)
(* Every augmentation makes of an image in a buffer what the reference     *)
(* makes of the picture, or fails.                                         *)
(***************************************************************************)
LEMMA StepShows ==
  ASSUME NEW pic, IsPicture(pic), NEW in, IsBuffer(in), Holds(in, pic), NEW step \in AnyStep, NEW dt,
         NEW out, IsBuffer(out), NEW d, d \in StepDraws(step, pic.h, pic.w),
         Apply(step, dt, in, pic.h, pic.w, out, d).err = "none"
  PROVE  Gives(Apply(step, dt, in, pic.h, pic.w, out, d), Augmented(pic, step, d), out)
<1>1. step.h \in Nat /\ step.w \in Nat
      /\ step.op \in {"RandomHorizontalFlip", "RandomCrop", "Resize", "Normalize", "ColorJitter"}
  BY DEF AnyStep
<1>2. CASE step.op = "RandomHorizontalFlip"
  <2>1. /\ Apply(step, dt, in, pic.h, pic.w, out, d) = FlipApply(step, in, pic.h, pic.w, out, d)
        /\ Augmented(pic, step, d) = Flipped(pic, d[1] = 1) 
    BY <1>2 DEF Apply, Augmented
  <2>2. d[1] \in {0, 1}
    BY <1>2 DEF StepDraws, FlipDraws
  <2>3. Gives(FlipApply(step, in, pic.h, pic.w, out, d), Flipped(pic, d[1] = 1), out)
    BY <2>1, <2>2, FlipShows
  <2> QED
    BY <2>1, <2>3
<1>3. CASE step.op = "RandomCrop"
  <2>1. /\ Apply(step, dt, in, pic.h, pic.w, out, d) = CropApply(step, in, pic.h, pic.w, out, d)
        /\ Augmented(pic, step, d) = Cropped(pic, step.h, step.w, d[1], d[2])
    BY <1>3 DEF Apply, Augmented
  <2>2. d \in CropDraws(step, pic.h, pic.w)
    BY <1>3 DEF StepDraws
  <2>3. Gives(CropApply(step, in, pic.h, pic.w, out, d), Cropped(pic, step.h, step.w, d[1], d[2]), out)
    BY <1>1, <2>1, <2>2, CropShows
  <2> QED
    BY <2>1, <2>3
<1>4. CASE step.op = "Resize"
  <2>1. /\ Apply(step, dt, in, pic.h, pic.w, out, d) = ResizeApply(step, dt, in, pic.h, pic.w, out)
        /\ Augmented(pic, step, d) = ResizedTo(pic, step.h, step.w)
    BY <1>4 DEF Apply, Augmented
  <2>3. Gives(ResizeApply(step, dt, in, pic.h, pic.w, out), ResizedTo(pic, step.h, step.w), out)
    BY <1>1, <2>1, ResizeShows
  <2> QED
    BY <2>1, <2>3
<1>5. CASE step.op = "Normalize"
  <2>1. /\ Apply(step, dt, in, pic.h, pic.w, out, d) = NormalizeApply(step, dt, in, pic.h, pic.w, out)
        /\ Augmented(pic, step, d) = Normalized(pic) 
    BY <1>5 DEF Apply, Augmented
  <2>3. Gives(NormalizeApply(step, dt, in, pic.h, pic.w, out), Normalized(pic), out)
    BY <2>1, NormalizeShows
  <2> QED
    BY <2>1, <2>3
<1>6. CASE step.op = "ColorJitter"
  <2>1. /\ Apply(step, dt, in, pic.h, pic.w, out, d) = JitterApply(step, dt, in, pic.h, pic.w, out, d)
        /\ Augmented(pic, step, d) = Jittered(pic, d[1] = 1, d[2] = 1) 
    BY <1>6 DEF Apply, Augmented
  <2>2. d[1] \in {0, 1} /\ d[2] \in {0, 1}
    BY <1>6 DEF StepDraws, JitterDraws
  <2>3. Gives(JitterApply(step, dt, in, pic.h, pic.w, out, d), Jittered(pic, d[1] = 1, d[2] = 1), out)
    BY <2>1, <2>2, JitterShows
  <2> QED
    BY <2>1, <2>3
<1> QED
  BY <1>1, <1>2, <1>3, <1>4, <1>5, <1>6

-----------------------------------------------------------------------------
(* Sizes along a pipeline.                                                 *)

\* The size of the image that the k-th step is given.
SizeBefore(pipe, k, h, w) ==
  LET before == { j \in SizeChanging(pipe) : j < k }
  IN  IF before = {} THEN << h, w >> ELSE FixedSize(pipe[Largest(before)])

(***************************************************************************)
(* The size is the image's own at first, and only the steps that change    *)
(* sizes change it.                                                        *)
(***************************************************************************)
LEMMA SizesFollow ==
  ASSUME NEW pipe \in Seq(AnyStep), NEW h \in Nat, NEW w \in Nat
  PROVE  /\ SizeBefore(pipe, 1, h, w) = << h, w >>
         /\ \A k \in 1 .. Len(pipe) :
              SizeBefore(pipe, k + 1, h, w) =
                IF ChangesSize(pipe[k]) THEN FixedSize(pipe[k]) ELSE SizeBefore(pipe, k, h, w)
         /\ \A k \in 1 .. Len(pipe) + 1 : SizeBefore(pipe, k, h, w) \in Nat \X Nat
         /\ SizeBefore(pipe, Len(pipe) + 1, h, w) =
              IF SizeChanging(pipe) = {} THEN << h, w >> ELSE OutputSize(pipe)
<1> DEFINE n == Len(pipe)
           Before(k) == { j \in SizeChanging(pipe) : j < k }
<1>1. n \in Nat /\ DOMAIN pipe = 1 .. n /\ SizeChanging(pipe) \in SUBSET (1 .. n)
  BY DEF SizeChanging
<1> HIDE DEF n
<1>2. SizeBefore(pipe, 1, h, w) = << h, w >>
  <2>1. Before(1) = {}
    BY <1>1
  <2> QED
    BY <2>1 DEF SizeBefore
<1>3. ASSUME NEW k \in 1 .. n
      PROVE  SizeBefore(pipe, k + 1, h, w) =
               IF ChangesSize(pipe[k]) THEN FixedSize(pipe[k]) ELSE SizeBefore(pipe, k, h, w)
  <2>1. CASE ChangesSize(pipe[k])
    <3>1. k \in Before(k + 1) /\ \A j \in Before(k + 1) : j <= k
      BY <1>1, <2>1 DEF SizeChanging
    <3>2. Before(k + 1) \in SUBSET (1 .. n) /\ Before(k + 1) # {}
      BY <1>1, <3>1
    <3>3. Largest(Before(k + 1)) \in Before(k + 1) /\ k <= Largest(Before(k + 1))
      <4> HIDE DEF Before
      <4> QED
        BY <1>1, <3>1, <3>2, LargestIn
    <3>4. Largest(Before(k + 1)) = k
      <4>1. \A x \in 1 .. n : x <= k /\ k <= x => x = k
        BY <1>1
      <4> HIDE DEF Before
      <4> QED
        BY <3>1, <3>2, <3>3, <4>1
    <3> QED
      BY <2>1, <3>2, <3>4 DEF SizeBefore
  <2>2. CASE ~ChangesSize(pipe[k])
    <3>1. Before(k + 1) = Before(k)
      BY <1>1, <2>2 DEF SizeChanging
    <3> QED
      BY <2>2, <3>1 DEF SizeBefore
  <2> QED
    BY <2>1, <2>2
<1>4. ASSUME NEW k \in 1 .. n + 1
      PROVE  SizeBefore(pipe, k, h, w) \in Nat \X Nat
  <2>1. Before(k) \in SUBSET (DOMAIN pipe)
    BY <1>1
  <2>2. Before(k) # {} => FixedSize(pipe[Largest(Before(k))]) \in Nat \X Nat
    <3> HIDE DEF Before
    <3> QED
      BY <2>1, StepSize
  <2>3. SizeBefore(pipe, k, h, w) = IF Before(k) = {} THEN << h, w >> ELSE FixedSize(pipe[Largest(Before(k))])
    BY DEF SizeBefore
  <2> HIDE DEF Before
  <2> QED
    BY <2>2, <2>3
<1>5. SizeBefore(pipe, n + 1, h, w) = IF SizeChanging(pipe) = {} THEN << h, w >> ELSE OutputSize(pipe)
  <2>1. Before(n + 1) = SizeChanging(pipe)
    BY <1>1
  <2> QED
    BY <2>1 DEF SizeBefore, OutputSize
<1> QED
  BY <1>2, <1>3, <1>4, <1>5 DEF n

(***************************************************************************)
(* No step makes a larger image than the one with the largest area.        *)
(***************************************************************************)
LEMMA LargestArea ==
  ASSUME NEW pipe \in Seq(AnyStep), NEW k \in SizeChanging(pipe)
  PROVE  Elements(pipe[k].h, pipe[k].w) <= Elements(MaxIntermediateSize(pipe)[1], MaxIntermediateSize(pipe)[2])
<1> DEFINE n == Len(pipe)
           a == [j \in 1 .. n |-> pipe[j].h * pipe[j].w]
           S == SizeChanging(pipe)
           Most == { j \in S : \A i \in S : pipe[i].h * pipe[i].w <= pipe[j].h * pipe[j].w }
<1>1. n \in Nat /\ DOMAIN pipe = 1 .. n /\ S \in SUBSET (1 .. n) /\ S # {}
  BY DEF SizeChanging
<1>2. \A j \in 1 .. n : pipe[j].h \in Nat /\ pipe[j].w \in Nat
  <2>1. \A j \in 1 .. n : pipe[j] \in AnyStep
    BY <1>1
  <2> QED
    BY <2>1 DEF AnyStep
<1>3. \A j \in 1 .. n : pipe[j].h * pipe[j].w \in Nat
  BY <1>2
<1> HIDE DEF n, S
<1>4. a \in [1 .. n -> Nat] /\ \A j \in 1 .. n : a[j] = pipe[j].h * pipe[j].w
  BY <1>3
<1> HIDE DEF a
<1>5. /\ \E i \in S : Largest({ a[j] : j \in S }) = a[i]
      /\ \A i \in S : a[i] <= Largest({ a[j] : j \in S })
  BY <1>1, <1>4, LargestOf
<1>6. \E i \in S : \A j \in S : a[j] <= a[i]
  BY <1>5
<1>7. Most # {} /\ Most \in SUBSET (1 .. n)
  BY <1>1, <1>4, <1>6
<1> DEFINE m == Largest(Most)
<1>8. m \in Most
  <2> HIDE DEF Most
  <2> QED
    BY <1>1, <1>7, LargestIn
<1>9. MaxIntermediateSize(pipe) = FixedSize(pipe[m])
  BY <1>7 DEF MaxIntermediateSize, S
<1> HIDE DEF m
<1>10. pipe[k].h * pipe[k].w <= pipe[m].h * pipe[m].w /\ m \in 1 .. n /\ k \in 1 .. n
  BY <1>1, <1>8 DEF S
<1>11. \A h, w \in Nat : Elements(h, w) = 3 * (h * w)
  BY DEF Elements, Channels
<1>12. MaxIntermediateSize(pipe)[1] = pipe[m].h /\ MaxIntermediateSize(pipe)[2] = pipe[m].w
  BY <1>9 DEF FixedSize
<1> DEFINE x == pipe[k].h * pipe[k].w
           y == pipe[m].h * pipe[m].w
<1>13. x \in Nat /\ y \in Nat /\ x <= y
  BY <1>3, <1>10
<1>14. Elements(pipe[k].h, pipe[k].w) = 3 * x /\ Elements(pipe[m].h, pipe[m].w) = 3 * y
  BY <1>2, <1>10, <1>11
<1> HIDE DEF x, y
<1> QED
  BY <1>12, <1>13, <1>14

-----------------------------------------------------------------------------
(* What is drawn.                                                          *)

(***************************************************************************)
(* What a step draws is a pair of numbers.                                 *)
(***************************************************************************)
LEMMA StepDrawsTyped ==
  ASSUME NEW step \in AnyStep, NEW h \in Nat, NEW w \in Nat
  PROVE  StepDraws(step, h, w) \subseteq Nat \X Nat
<1>1. step.h \in Nat /\ step.w \in Nat
  BY DEF AnyStep
<1>2. NoSize \in Nat \X Nat
  BY DEF NoSize
<1>3. FlipDraws(step) \subseteq Nat \X Nat
  BY DEF FlipDraws
<1>4. CropDraws(step, h, w) \subseteq Nat \X Nat
  BY <1>1, <1>2 DEF CropDraws, CropFits
<1>5. JitterDraws(step) \subseteq Nat \X Nat
  BY DEF JitterDraws
<1> QED
  BY <1>2, <1>3, <1>4, <1>5 DEF StepDraws

(***************************************************************************)
(* A pipeline draws for each of its steps what that step may draw for an   *)
(* image of the size it is given.                                          *)
(***************************************************************************)
LEMMA DrawsAre ==
  ASSUME NEW pipe \in Seq(AnyStep), NEW h \in Nat, NEW w \in Nat, NEW ds \in Draws(pipe, h, w)
  PROVE  \A k \in 1 .. Len(pipe) :
           ds[k] \in StepDraws(pipe[k], SizeBefore(pipe, k, h, w)[1], SizeBefore(pipe, k, h, w)[2])
<1> DEFINE n == Len(pipe)
           D == Nat \X Nat
           S == SUBSET Seq(D)
           May(k) == StepDraws(pipe[k], SizeBefore(pipe, k, h, w)[1], SizeBefore(pipe, k, h, w)[2])
           Round(k, X) == { Append(xs, d) : xs \in X, d \in May(k) }
           G == [k \in 1 .. n |-> [X \in S |-> Round(k, X)]]
           a == { << >> }
           Body(f) == [k \in 0 .. n |-> IF k = 0 THEN a ELSE Round(k, f[k - 1])]
           g == CHOOSE f : f = Body(f)
<1>1. Draws(pipe, h, w) = g[n]
  BY DEF Draws, SizeBefore
<1>2. n \in Nat /\ a \in S
  OBVIOUS
<1>3. ASSUME NEW k \in 1 .. n
      PROVE  May(k) \subseteq D
  <2>1. pipe[k] \in AnyStep
    OBVIOUS
  <2>2. SizeBefore(pipe, k, h, w)[1] \in Nat /\ SizeBefore(pipe, k, h, w)[2] \in Nat
    <3>1. k \in 1 .. Len(pipe) + 1
      OBVIOUS
    <3> HIDE DEF n
    <3>2. SizeBefore(pipe, k, h, w) \in Nat \X Nat
      BY <3>1, SizesFollow
    <3> QED
      BY <3>2
  <2> QED
    BY <2>1, <2>2, StepDrawsTyped
<1> HIDE DEF May
<1>4. \A k \in 1 .. n : \A X \in S : Round(k, X) \in S
  <2> TAKE k \in 1 .. n
  <2> TAKE X \in S
  <2>1. \A xs \in X, d \in May(k) : Append(xs, d) \in Seq(D)
    <3> TAKE xs \in X, d \in May(k)
    <3>1. xs \in Seq(D) /\ d \in D
      BY <1>3
    <3> HIDE DEF D
    <3> QED
      BY <3>1
  <2> HIDE DEF D
  <2> QED
    BY <2>1
<1>5. a = { << >> }
  OBVIOUS
<1> HIDE DEF n, S, Round, a
<1>6. /\ G \in [1 .. n -> [S -> S]]
      /\ \A k \in 1 .. n : \A X \in S : G[k][X] = Round(k, X)
  BY <1>4
<1> HIDE DEF G
<1>7. HasLoop(n, S, a, G)
  BY <1>2, <1>6, LoopExists
<1>8. PICK f \in [0 .. n -> S] : f[0] = a /\ \A k \in 1 .. n : f[k] = G[k][f[k - 1]]
  BY <1>7 DEF HasLoop
<1>9. f = Body(f)
  <2>1. ASSUME NEW k \in 1 .. n
        PROVE  f[k] = Round(k, f[k - 1])
    <3>1. f[k - 1] \in S /\ f[k] = G[k][f[k - 1]]
      BY <1>2, <1>8
    <3> QED
      BY <1>6, <3>1
  <2>2. \A k \in 0 .. n : f[k] = Body(f)[k]
    BY <1>2, <1>8, <2>1
  <2> QED
    BY <2>2
<1>10. g = Body(g)
  BY <1>9
<1> HIDE DEF g
<1>11. g[0] = a /\ \A k \in 1 .. n : g[k] = Round(k, g[k - 1])
  BY <1>2, <1>10
<1> DEFINE Fair(k, xs) == xs \in Seq(D) /\ Len(xs) = k /\ \A j \in 1 .. k : xs[j] \in May(j)
           T == { k \in Nat : k <= n => \A xs \in g[k] : Fair(k, xs) }
<1>12. 0 \in T
  <2>1. \A xs \in a : Fair(0, xs)
    BY <1>5
  <2> QED
    BY <1>11, <2>1
<1>13. ASSUME NEW k \in Nat, k \in T
       PROVE  k + 1 \in T
  <2> SUFFICES ASSUME k + 1 <= n, NEW xs \in g[k + 1]
               PROVE  Fair(k + 1, xs)
    OBVIOUS
  <2>1. k + 1 \in 1 .. n /\ (k + 1) - 1 = k
    BY <1>2
  <2>2. g[k + 1] = Round(k + 1, g[k])
    BY <1>11, <2>1
  <2>3. PICK ys \in g[k], d \in May(k + 1) : xs = Append(ys, d)
    BY <2>2 DEF Round
  <2>4. Fair(k, ys) /\ d \in D
    <3>1. k <= n /\ ys \in g[k]
      BY <1>2, <2>3
    <3>2. \A xs_1 \in g[k] : Fair(k, xs_1)
      BY <1>13, <3>1
    <3>3. May(k + 1) \subseteq D
      BY <1>3, <2>1
    <3> HIDE DEF Fair, D
    <3> QED
      BY <2>3, <3>1, <3>2, <3>3
  <2>5. xs \in Seq(D) /\ Len(xs) = k + 1 /\ xs[k + 1] = d /\ \A j \in 1 .. k : xs[j] = ys[j]
    <3> HIDE DEF D
    <3> QED
      BY <2>3, <2>4
  <2> HIDE DEF D
  <2>6. \A j \in 1 .. k + 1 : xs[j] \in May(j)
    BY <2>3, <2>4, <2>5
  <2> QED
    BY <2>5, <2>6
<1>14. n \in T
  <2> HIDE DEF T
  <2> QED
    BY <1>2, <1>12, <1>13, InductionOnSet
<1>15. Fair(n, ds)
  BY <1>1, <1>2, <1>14
<1> QED
  BY <1>15 DEF May, n

-----------------------------------------------------------------------------
(* The stages of a pipeline.                                               *)

\* Where the pipeline begins, and one round of its loop.
FirstStage(in, h, w, out, doubles) ==
  LET n == Larger(Cardinality(DOMAIN in), Cardinality(DOMAIN out))
  IN  [err |-> "none", h |-> h, w |-> w, active |-> "in", a |-> Fresh(n), b |-> Fresh(Larger(doubles, 2 * n) - n)]

\* One step of the pipeline, as PipelineApply takes it.
StageAfter(pipe, dt, in, draws, k, s) ==
  IF s.err # "none" THEN s
  ELSE IF ChangesSize(pipe[k]) THEN ResizingStep(s, pipe[k], dt, in, draws[k])
  ELSE KeepingStep(s, pipe[k], dt, in, draws[k], \A j \in 1 .. k - 1 : ChangesSize(pipe[j]))

\* The stages that PipelineApply goes through.
Stages(pipe, dt, in, h, w, out, doubles, draws) ==
  CHOOSE f : f = [k \in 0 .. Len(pipe) |->
                    IF k = 0 THEN FirstStage(in, h, w, out, doubles) ELSE StageAfter(pipe, dt, in, draws, k, f[k - 1])]

\* The same of the reference.
PicturesOf(pipe, pic, draws) ==
  CHOOSE f : f = [k \in 0 .. Len(pipe) |-> IF k = 0 THEN pic ELSE Augmented(f[k - 1], pipe[k], draws[k])]

(***************************************************************************)
(* A pipeline has a stage after each of its steps.                         *)
(***************************************************************************)
LEMMA StagesAre ==
  ASSUME NEW pipe, Len(pipe) \in Nat, NEW dt, NEW in, NEW h, NEW w, NEW out, NEW doubles, NEW draws
  PROVE  /\ PipelineApply(pipe, dt, in, h, w, out, doubles, draws) =
              CopiedOut(Stages(pipe, dt, in, h, w, out, doubles, draws)[Len(pipe)], in, out)
         /\ Stages(pipe, dt, in, h, w, out, doubles, draws)[0] = FirstStage(in, h, w, out, doubles)
         /\ \A k \in 1 .. Len(pipe) :
              Stages(pipe, dt, in, h, w, out, doubles, draws)[k] =
                StageAfter(pipe, dt, in, draws, k, Stages(pipe, dt, in, h, w, out, doubles, draws)[k - 1])
<1> DEFINE n == Len(pipe)
           start == FirstStage(in, h, w, out, doubles)
           Round(k, s) == StageAfter(pipe, dt, in, draws, k, s)
           Body(f, j) == [k \in 0 .. j |-> IF k = 0 THEN start ELSE Round(k, f[k - 1])]
           g == Stages(pipe, dt, in, h, w, out, doubles, draws)
<1>1. PipelineApply(pipe, dt, in, h, w, out, doubles, draws) = CopiedOut(g[n], in, out)
  BY DEF PipelineApply, Stages, FirstStage, StageAfter
<1>2. g = CHOOSE f : f = Body(f, n)
  BY DEF Stages
<1> HIDE DEF start, Round, g
<1>3. n \in Nat
  OBVIOUS
<1> HIDE DEF n
<1>4. \E f : f = Body(f, n)
  <2> DEFINE Exists(j) == \E f : f = Body(f, j)
             T == { j \in Nat : Exists(j) }
  <2>1. Exists(0)
    <3> DEFINE f == [k \in 0 .. 0 |-> start]
    <3>1. f = Body(f, 0)
      OBVIOUS
    <3> QED
      BY <3>1
  <2>2. ASSUME NEW j \in Nat, Exists(j)
        PROVE  Exists(j + 1)
    <3>0. PICK f : f = Body(f, j)
      BY <2>2
    <3> DEFINE e == [k \in 0 .. j + 1 |-> IF k <= j THEN f[k] ELSE Round(j + 1, f[j])]
    <3>1. ASSUME NEW k \in 0 .. j + 1
          PROVE  e[k] = Body(e, j + 1)[k]
      <4>1. CASE k <= j
        <5>1. f[k] = Body(f, j)[k] /\ e[k] = f[k]
          BY <3>0, <4>1
        <5>2. k # 0 => e[k - 1] = f[k - 1]
          BY <4>1
        <5> QED
          BY <4>1, <5>1, <5>2
      <4>2. CASE k = j + 1
        BY <4>2
      <4> QED
        BY <4>1, <4>2
    <3>2. e = Body(e, j + 1)
      BY <3>1
    <3> QED
      BY <3>2
  <2>3. n \in T
    <3> HIDE DEF Exists
    <3>1. 0 \in T /\ \A j \in Nat : j \in T => j + 1 \in T
      BY <2>1, <2>2
    <3> HIDE DEF T
    <3> QED
      BY <1>3, <3>1, InductionOnSet
  <2> QED
    BY <2>3
<1>5. g = Body(g, n)
  BY <1>2, <1>4
<1>6. g[0] = start /\ \A k \in 1 .. n : g[k] = Round(k, g[k - 1])
  BY <1>3, <1>5
<1> QED
  BY <1>1, <1>6 DEF n, start, Round, g

(***************************************************************************)
(* So has the reference.                                                   *)
(***************************************************************************)
LEMMA PicturesAre ==
  ASSUME NEW pipe, Len(pipe) \in Nat, NEW pic, NEW draws
  PROVE  /\ PipelineOf(pipe, pic, draws) = PicturesOf(pipe, pic, draws)[Len(pipe)]
         /\ PicturesOf(pipe, pic, draws)[0] = pic
         /\ \A k \in 1 .. Len(pipe) :
              PicturesOf(pipe, pic, draws)[k] = Augmented(PicturesOf(pipe, pic, draws)[k - 1], pipe[k], draws[k])
<1> DEFINE n == Len(pipe)
           Round(k, s) == Augmented(s, pipe[k], draws[k])
           Body(f, j) == [k \in 0 .. j |-> IF k = 0 THEN pic ELSE Round(k, f[k - 1])]
           g == PicturesOf(pipe, pic, draws)
<1>1. PipelineOf(pipe, pic, draws) = g[n]
  BY DEF PipelineOf, PicturesOf
<1>2. g = CHOOSE f : f = Body(f, n)
  BY DEF PicturesOf
<1> HIDE DEF Round, g
<1>3. n \in Nat
  OBVIOUS
<1> HIDE DEF n
<1>4. \E f : f = Body(f, n)
  <2> DEFINE Exists(j) == \E f : f = Body(f, j)
             T == { j \in Nat : Exists(j) }
  <2>1. Exists(0)
    <3> DEFINE f == [k \in 0 .. 0 |-> pic]
    <3>1. f = Body(f, 0)
      OBVIOUS
    <3> QED
      BY <3>1
  <2>2. ASSUME NEW j \in Nat, Exists(j)
        PROVE  Exists(j + 1)
    <3>0. PICK f : f = Body(f, j)
      BY <2>2
    <3> DEFINE e == [k \in 0 .. j + 1 |-> IF k <= j THEN f[k] ELSE Round(j + 1, f[j])]
    <3>1. ASSUME NEW k \in 0 .. j + 1
          PROVE  e[k] = Body(e, j + 1)[k]
      <4>1. CASE k <= j
        <5>1. f[k] = Body(f, j)[k] /\ e[k] = f[k]
          BY <3>0, <4>1
        <5>2. k # 0 => e[k - 1] = f[k - 1]
          BY <4>1
        <5> QED
          BY <4>1, <5>1, <5>2
      <4>2. CASE k = j + 1
        BY <4>2
      <4> QED
        BY <4>1, <4>2
    <3>2. e = Body(e, j + 1)
      BY <3>1
    <3> QED
      BY <3>2
  <2>3. n \in T
    <3> HIDE DEF Exists
    <3>1. 0 \in T /\ \A j \in Nat : j \in T => j + 1 \in T
      BY <2>1, <2>2
    <3> HIDE DEF T
    <3> QED
      BY <1>3, <3>1, InductionOnSet
  <2> QED
    BY <2>3
<1>5. g = Body(g, n)
  BY <1>2, <1>4
<1>6. g[0] = pic /\ \A k \in 1 .. n : g[k] = Round(k, g[k - 1])
  BY <1>3, <1>5
<1> QED
  BY <1>1, <1>6 DEF n, Round, g

\* What a stage is to hold: the picture in one of three buffers, all of which
\* are long enough for it.
ShowsStage(s, in, n, pic) ==
  /\ DOMAIN s = {"err", "h", "w", "active", "a", "b"}
  /\ s.active \in {"in", "a", "b"}
  /\ DOMAIN s.a = 0 .. n - 1
  /\ IsBuffer(s.b) /\ n <= Cardinality(DOMAIN s.b)
  /\ s.h = pic.h /\ s.w = pic.w
  /\ IsPicture(pic) /\ Elements(pic.h, pic.w) <= n
  /\ Holds(Holding(s, in), pic)

(***************************************************************************)
(* The first elements of a buffer.                                         *)
(***************************************************************************)
LEMMA SliceIs ==
  ASSUME NEW buf, NEW m \in Nat
  PROVE  /\ DOMAIN Slice(buf, m) = 0 .. m - 1 /\ IsBuffer(Slice(buf, m)) /\ Cardinality(DOMAIN Slice(buf, m)) = m
         /\ \A i \in 0 .. m - 1 : Slice(buf, m)[i] = buf[i]
<1>1. DOMAIN Slice(buf, m) = 0 .. m - 1 /\ \A i \in 0 .. m - 1 : Slice(buf, m)[i] = buf[i]
  BY DEF Slice
<1>2. Cardinality(0 .. m - 1) = m
  BY FS_Interval
<1> QED
  BY <1>1, <1>2 DEF IsBuffer

(***************************************************************************)
(* The part of a buffer that a picture is in holds it.                     *)
(***************************************************************************)
LEMMA SliceHolds ==
  ASSUME NEW buf, NEW pic, IsPicture(pic), Holds(buf, pic)
  PROVE  Holds(Slice(buf, Elements(pic.h, pic.w)), pic)
<1>1. Elements(pic.h, pic.w) \in Nat
  BY ElementsTyped DEF IsPicture
<1> QED
  BY <1>1, SliceIs DEF Holds

(***************************************************************************)
(* A buffer that begins with what holds a picture holds it.                *)
(***************************************************************************)
LEMMA OverlayHolds ==
  ASSUME NEW buf, IsBuffer(buf), NEW part, NEW pic, IsPicture(pic), Holds(part, pic),
         DOMAIN part = 0 .. Elements(pic.h, pic.w) - 1, Elements(pic.h, pic.w) <= Cardinality(DOMAIN buf)
  PROVE  Holds(Overlay(buf, part), pic) /\ DOMAIN Overlay(buf, part) = DOMAIN buf
<1> DEFINE m == Elements(pic.h, pic.w)
           o == Overlay(buf, part)
<1>1. m \in Nat
  BY ElementsTyped DEF IsPicture
<1>2. DOMAIN o = DOMAIN buf /\ \A i \in 0 .. m - 1 : i \in DOMAIN buf /\ o[i] = part[i]
  <2> HIDE DEF m, o
  <2> QED
    BY <1>1, OverlayIs DEF m, o
<1>3. Holds(o, pic)
  <2> HIDE DEF o
  <2> QED
    BY <1>2 DEF Holds
<1> QED
  BY <1>2, <1>3

(***************************************************************************)
(* A buffer that holds a picture is as long as it.                         *)
(***************************************************************************)
LEMMA HoldsAll ==
  ASSUME NEW buf, IsBuffer(buf), NEW pic, IsPicture(pic), Holds(buf, pic)
  PROVE  Elements(pic.h, pic.w) <= Cardinality(DOMAIN buf)
<1> DEFINE m == Elements(pic.h, pic.w)
           n == Cardinality(DOMAIN buf)
<1>1. m \in Nat /\ n \in Nat /\ DOMAIN buf = 0 .. n - 1
  BY ElementsTyped, BufferIs DEF IsPicture
<1>2. \A i \in 0 .. m - 1 : i \in DOMAIN buf
  BY DEF Holds
<1> HIDE DEF m, n
<1>3. SUFFICES ASSUME n < m PROVE FALSE
  BY <1>1 DEF m, n
<1>4. n \in 0 .. m - 1
  BY <1>1, <1>3
<1> QED
  BY <1>1, <1>2, <1>4

(***************************************************************************)
(* A step that changes the size goes from one buffer to another.           *)
(***************************************************************************)
LEMMA ResizingShows ==
  ASSUME NEW s, NEW in, IsBuffer(in), NEW n \in Nat, NEW pic, ShowsStage(s, in, n, pic),
         NEW step \in AnyStep, ChangesSize(step), Elements(step.h, step.w) <= n,
         NEW dt, NEW d, d \in StepDraws(step, pic.h, pic.w),
         ResizingStep(s, step, dt, in, d).err = "none"
  PROVE  /\ ShowsStage(ResizingStep(s, step, dt, in, d), in, n, Augmented(pic, step, d))
         /\ ResizingStep(s, step, dt, in, d).active # "in"
<1> DEFINE into == IF s.active = "a" THEN "b" ELSE "a"
           from == Holding(s, in)
           dest == IF into = "a" THEN s.a ELSE s.b
           r == Apply(step, dt, from, s.h, s.w, dest, d)
           t == ResizingStep(s, step, dt, in, d)
           q == Augmented(pic, step, d)
<1>1. t = Resized(s, into, r)
  BY DEF ResizingStep
<1>2. s.h = pic.h /\ s.w = pic.w /\ IsPicture(pic) /\ Holds(from, pic)
  BY DEF ShowsStage
<1>3. IsBuffer(s.a) /\ IsBuffer(s.b) /\ IsBuffer(from) /\ IsBuffer(dest)
  <2>1. IsBuffer(s.a) /\ IsBuffer(s.b)
    BY DEF ShowsStage, IsBuffer
  <2> QED
    BY <2>1 DEF Holding
<1> HIDE DEF r, t, dest, from
<1>4. r.err = "none"
  BY <1>1 DEF Resized, t
<1>5. Gives(r, q, dest) /\ q.h = step.h /\ q.w = step.w
  <2>1. r = Apply(step, dt, from, pic.h, pic.w, dest, d)
    BY <1>2 DEF r
  <2>2. Apply(step, dt, from, pic.h, pic.w, dest, d).err = "none"
    BY <1>4, <2>1
  <2>3. Gives(Apply(step, dt, from, pic.h, pic.w, dest, d), Augmented(pic, step, d), dest)
    BY <1>2, <1>3, <2>2, StepShows
  <2>4. Augmented(pic, step, d).h = step.h /\ Augmented(pic, step, d).w = step.w
    BY <1>2, StepSizes
  <2> QED
    BY <2>1, <2>3, <2>4
<1>6. /\ DOMAIN t = {"err", "h", "w", "active", "a", "b"}
      /\ t.h = r.h /\ t.w = r.w /\ t.active = into
      /\ t.a = IF into = "a" THEN r.out ELSE s.a
      /\ t.b = IF into = "b" THEN r.out ELSE s.b
  BY <1>1 DEF Resized
<1>7. Holding(t, in) = r.out
  BY <1>6 DEF Holding
<1>8. DOMAIN r.out = DOMAIN dest /\ Holds(r.out, q) /\ IsPicture(q) /\ r.h = q.h /\ r.w = q.w
  BY <1>5 DEF Gives
<1>9. DOMAIN t.a = DOMAIN s.a /\ DOMAIN t.b = DOMAIN s.b
  BY <1>6, <1>8 DEF dest
<1>10. IsBuffer(t.b) /\ Cardinality(DOMAIN t.b) = Cardinality(DOMAIN s.b)
  BY <1>3, <1>9 DEF IsBuffer
<1>11. DOMAIN s.a = 0 .. n - 1 /\ n <= Cardinality(DOMAIN s.b)
  BY DEF ShowsStage
<1>12. Elements(q.h, q.w) <= n
  BY <1>5
<1> HIDE DEF q
<1> QED
  BY <1>6, <1>7, <1>8, <1>9, <1>10, <1>11, <1>12 DEF ShowsStage, t, q

(***************************************************************************)
(* A step that keeps the size goes from one buffer to the other and works  *)
(* on the image's elements alone.                                          *)
(***************************************************************************)
LEMMA KeepingShows ==
  ASSUME NEW s, NEW in, IsBuffer(in), NEW n \in Nat, NEW pic, ShowsStage(s, in, n, pic), s.active # "in",
         NEW step \in AnyStep, ~ChangesSize(step),
         NEW dt, NEW d, d \in StepDraws(step, pic.h, pic.w),
         KeepInTurn(s, step, dt, d, Elements(s.h, s.w)).err = "none"
  PROVE  /\ ShowsStage(KeepInTurn(s, step, dt, d, Elements(s.h, s.w)), in, n, Augmented(pic, step, d))
         /\ KeepInTurn(s, step, dt, d, Elements(s.h, s.w)).active # "in"
<1> DEFINE m == Elements(s.h, s.w)
           from == Slice(IF s.active = "a" THEN s.a ELSE s.b, m)
           dest == Slice(IF s.active = "a" THEN s.b ELSE s.a, m)
           r == Apply(step, dt, from, s.h, s.w, dest, d)
           t == KeepInTurn(s, step, dt, d, m)
           q == Augmented(pic, step, d)
<1>1. t = Kept(s, r)
  BY DEF KeepInTurn
<1>2. /\ s.h = pic.h /\ s.w = pic.w /\ IsPicture(pic) /\ Holds(Holding(s, in), pic)
      /\ m <= n /\ m \in Nat
      /\ DOMAIN s.a = 0 .. n - 1 /\ IsBuffer(s.b) /\ n <= Cardinality(DOMAIN s.b)
      /\ s.active \in {"a", "b"} /\ DOMAIN s = {"err", "h", "w", "active", "a", "b"}
  BY ElementsTyped DEF ShowsStage, IsPicture
<1>3. Holding(s, in) = IF s.active = "a" THEN s.a ELSE s.b
  BY <1>2 DEF Holding
<1>4. Holds(from, pic) /\ IsBuffer(from)
  BY <1>2, <1>3, SliceHolds, SliceIs
<1>5. IsBuffer(dest) /\ DOMAIN dest = 0 .. m - 1
  BY <1>2, SliceIs
<1> HIDE DEF r, t, dest, from
<1>6. r.err = "none"
  <2>1. t.err = r.err
    BY <1>1, <1>2 DEF Kept
  <2> QED
    BY <2>1 DEF t
<1>7. Gives(r, q, dest) /\ q.h = pic.h /\ q.w = pic.w
  <2>1. r = Apply(step, dt, from, pic.h, pic.w, dest, d)
    BY <1>2 DEF r
  <2>2. Apply(step, dt, from, pic.h, pic.w, dest, d).err = "none"
    BY <1>6, <2>1
  <2>3. Gives(Apply(step, dt, from, pic.h, pic.w, dest, d), Augmented(pic, step, d), dest)
    <3> HIDE DEF m, q
    <3> QED
      BY <1>2, <1>4, <1>5, <2>2, StepShows
  <2>4. Augmented(pic, step, d).h = pic.h /\ Augmented(pic, step, d).w = pic.w
    BY <1>2, StepSizes
  <2> QED
    BY <2>1, <2>3, <2>4
<1>8. DOMAIN r.out = 0 .. m - 1 /\ Holds(r.out, q) /\ IsPicture(q) /\ Elements(q.h, q.w) = m
  BY <1>2, <1>5, <1>7 DEF Gives
<1> HIDE DEF q, m
<1>9. CASE s.active = "a"
  <2>1. /\ DOMAIN t = {"err", "h", "w", "active", "a", "b"} /\ t.h = s.h /\ t.w = s.w /\ t.active = "b"
        /\ t.a = s.a /\ t.b = Overlay(s.b, r.out)
    BY <1>1, <1>2, <1>9 DEF Kept
  <2>2. m <= Cardinality(DOMAIN s.b)
    BY <1>2, BufferIs
  <2>3. Holds(t.b, q) /\ DOMAIN t.b = DOMAIN s.b
    BY <1>2, <1>8, <2>1, <2>2, OverlayHolds
  <2>4. IsBuffer(t.b) /\ Holding(t, in) = t.b
    BY <1>2, <2>1, <2>3 DEF IsBuffer, Holding
  <2> QED
    BY <1>2, <1>7, <1>8, <2>1, <2>3, <2>4 DEF ShowsStage, t, q, m
<1>10. CASE s.active = "b"
  <2>1. /\ DOMAIN t = {"err", "h", "w", "active", "a", "b"} /\ t.h = s.h /\ t.w = s.w /\ t.active = "a"
        /\ t.a = Overlay(s.a, r.out) /\ t.b = s.b
    BY <1>1, <1>2, <1>10 DEF Kept
  <2>5. Cardinality(0 .. n - 1) = n
    BY FS_Interval
  <2>2. IsBuffer(s.a) /\ Cardinality(DOMAIN s.a) = n
    BY <1>2, <2>5 DEF IsBuffer
  <2>3. Holds(t.a, q) /\ DOMAIN t.a = DOMAIN s.a
    BY <1>2, <1>8, <2>1, <2>2, OverlayHolds
  <2>4. Holding(t, in) = t.a
    BY <2>1 DEF Holding
  <2> QED
    BY <1>2, <1>7, <1>8, <2>1, <2>3, <2>4 DEF ShowsStage, t, q, m
<1> QED
  BY <1>2, <1>9, <1>10

(***************************************************************************)
(* The first of these steps begins in the first buffer.                    *)
(***************************************************************************)
LEMMA InFirstShows ==
  ASSUME NEW s, NEW in, NEW n \in Nat, NEW pic, ShowsStage(s, in, n, pic)
  PROVE  /\ ShowsStage(InFirst(s, in), in, n, pic)
         /\ InFirst(s, in).active = "a" /\ InFirst(s, in).h = s.h /\ InFirst(s, in).w = s.w
<1> DEFINE m == Elements(s.h, s.w)
           part == Slice(Holding(s, in), m)
           t == InFirst(s, in)
<1>1. /\ s.h = pic.h /\ s.w = pic.w /\ IsPicture(pic) /\ Holds(Holding(s, in), pic)
      /\ m <= n /\ m \in Nat
      /\ DOMAIN s.a = 0 .. n - 1 /\ IsBuffer(s.b) /\ n <= Cardinality(DOMAIN s.b)
      /\ DOMAIN s = {"err", "h", "w", "active", "a", "b"}
  BY ElementsTyped DEF ShowsStage, IsPicture
<1>2. Holds(part, pic) /\ DOMAIN part = 0 .. m - 1
  BY <1>1, SliceHolds, SliceIs
<1>3. /\ DOMAIN t = {"err", "h", "w", "active", "a", "b"} /\ t.h = s.h /\ t.w = s.w /\ t.active = "a"
      /\ t.a = Overlay(s.a, part) /\ t.b = s.b
  BY <1>1 DEF InFirst
<1>4. IsBuffer(s.a) /\ Cardinality(DOMAIN s.a) = n
  <2>1. Cardinality(0 .. n - 1) = n
    BY FS_Interval
  <2> QED
    BY <1>1, <2>1 DEF IsBuffer
<1> HIDE DEF t, part
<1>5. Holds(t.a, pic) /\ DOMAIN t.a = DOMAIN s.a
  BY <1>1, <1>2, <1>3, <1>4, OverlayHolds
<1>6. Holding(t, in) = t.a
  BY <1>3 DEF Holding
<1> QED
  BY <1>1, <1>3, <1>5, <1>6 DEF ShowsStage, t

\* Buffers of n elements are long enough for the images in between.
HasRoom(pipe, n) ==
  SizeChanging(pipe) # {} => Elements(MaxIntermediateSize(pipe)[1], MaxIntermediateSize(pipe)[2]) <= n

(***************************************************************************)
(* A pipeline begins with the image in its input and two buffers that are  *)
(* each as long as the longer of input and output.                         *)
(***************************************************************************)
LEMMA FirstShows ==
  ASSUME NEW in, IsBuffer(in), NEW pic, IsPicture(pic), Holds(in, pic), NEW out, IsBuffer(out), NEW doubles \in Nat
  PROVE  /\ Larger(Cardinality(DOMAIN in), Cardinality(DOMAIN out)) \in Nat
         /\ ShowsStage(FirstStage(in, pic.h, pic.w, out, doubles), in,
                       Larger(Cardinality(DOMAIN in), Cardinality(DOMAIN out)), pic)
<1> DEFINE n == Larger(Cardinality(DOMAIN in), Cardinality(DOMAIN out))
           m == Larger(doubles, 2 * n) - n
           s == FirstStage(in, pic.h, pic.w, out, doubles)
<1>1. n \in Nat /\ Cardinality(DOMAIN in) <= n
  BY BufferIs DEF Larger
<1>2. m \in Nat /\ n <= m
  <2> HIDE DEF n
  <2> QED
    BY <1>1 DEF Larger
<1>3. s = [err |-> "none", h |-> pic.h, w |-> pic.w, active |-> "in", a |-> Fresh(n), b |-> Fresh(m)]
  BY DEF FirstStage
<1>4. Elements(pic.h, pic.w) <= n
  <2>1. Elements(pic.h, pic.w) <= Cardinality(DOMAIN in) /\ Cardinality(DOMAIN in) \in Nat
    BY HoldsAll, BufferIs
  <2>2. Elements(pic.h, pic.w) \in Nat
    BY ElementsTyped DEF IsPicture
  <2> HIDE DEF n
  <2> QED
    BY <1>1, <2>1, <2>2
<1> HIDE DEF s, n, m
<1>5. /\ DOMAIN s = {"err", "h", "w", "active", "a", "b"} /\ s.h = pic.h /\ s.w = pic.w /\ s.active = "in"
      /\ s.a = Fresh(n) /\ s.b = Fresh(m)
  BY <1>3
<1>6. DOMAIN s.a = 0 .. n - 1 /\ DOMAIN s.b = 0 .. m - 1
  BY <1>5 DEF Fresh
<1>7. IsBuffer(s.b) /\ Cardinality(DOMAIN s.b) = m
  <2>1. Cardinality(0 .. m - 1) = m
    BY <1>2, FS_Interval
  <2> QED
    BY <1>2, <1>6, <2>1 DEF IsBuffer
<1>8. Holding(s, in) = in
  BY <1>5 DEF Holding
<1>9. ShowsStage(s, in, n, pic)
  BY <1>2, <1>4, <1>5, <1>6, <1>7, <1>8 DEF ShowsStage
<1> QED
  BY <1>1, <1>9 DEF s, n

(***************************************************************************)
(* A stage that has not failed holds the picture that the reference has    *)
(* after as many steps.                                                    *)
(***************************************************************************)
LEMMA StageShows ==
  ASSUME NEW pipe \in Seq(AnyStep), NEW k \in 1 .. Len(pipe), NEW in, IsBuffer(in), NEW n \in Nat,
         NEW h \in Nat, NEW w \in Nat, NEW s, NEW pic, ShowsStage(s, in, n, pic),
         << pic.h, pic.w >> = SizeBefore(pipe, k, h, w), k # 1 => s.active # "in",
         HasRoom(pipe, n),
         NEW dt, NEW draws \in Draws(pipe, h, w),
         StageAfter(pipe, dt, in, draws, k, s).err = "none"
  PROVE  /\ ShowsStage(StageAfter(pipe, dt, in, draws, k, s), in, n, Augmented(pic, pipe[k], draws[k]))
         /\ StageAfter(pipe, dt, in, draws, k, s).active # "in"
         /\ << Augmented(pic, pipe[k], draws[k]).h, Augmented(pic, pipe[k], draws[k]).w >> = SizeBefore(pipe, k + 1, h, w)
<1> DEFINE step == pipe[k]
           d == draws[k]
           t == StageAfter(pipe, dt, in, draws, k, s)
           q == Augmented(pic, step, d)
<1>1. s.err = "none"
  BY DEF StageAfter
<1>2. IsPicture(pic) /\ step \in AnyStep
  BY DEF ShowsStage
<1>3. d \in StepDraws(step, pic.h, pic.w)
  <2>1. d \in StepDraws(step, SizeBefore(pipe, k, h, w)[1], SizeBefore(pipe, k, h, w)[2])
    BY DrawsAre
  <2>2. SizeBefore(pipe, k, h, w)[1] = pic.h /\ SizeBefore(pipe, k, h, w)[2] = pic.w
    <3> DEFINE z == SizeBefore(pipe, k, h, w)
    <3>1. z = << pic.h, pic.w >>
      OBVIOUS
    <3> HIDE DEF z
    <3>2. z[1] = pic.h /\ z[2] = pic.w
      BY <3>1
    <3> QED
      BY <3>2 DEF z
  <2> QED
    BY <2>1, <2>2
<1>4. << q.h, q.w >> = SizeBefore(pipe, k + 1, h, w)
  <2>1. SizeBefore(pipe, k + 1, h, w) = IF ChangesSize(step) THEN FixedSize(step) ELSE SizeBefore(pipe, k, h, w)
    BY SizesFollow
  <2>2. q.h = (IF ChangesSize(step) THEN step.h ELSE pic.h) /\ q.w = (IF ChangesSize(step) THEN step.w ELSE pic.w)
    BY <1>2, StepSizes
  <2> HIDE DEF q, step
  <2> QED
    BY <2>1, <2>2 DEF FixedSize
<1> HIDE DEF d, q
<1>5. CASE ChangesSize(step)
  <2>1. t = ResizingStep(s, step, dt, in, d)
    BY <1>1, <1>5 DEF StageAfter, d
  <2>2. Elements(step.h, step.w) <= n
    <3> DEFINE most == Elements(MaxIntermediateSize(pipe)[1], MaxIntermediateSize(pipe)[2])
    <3>1. k \in SizeChanging(pipe)
      BY <1>5 DEF SizeChanging
    <3>2. Elements(step.h, step.w) <= most
      BY <3>1, LargestArea
    <3>3. most <= n
      BY <3>1 DEF HasRoom
    <3>4. Elements(step.h, step.w) \in Nat
      BY <1>2, ElementsTyped DEF AnyStep
    <3>5. most \in Nat
      <4>1. MaxIntermediateSize(pipe) \in Nat \X Nat
        BY PipelineSizes
      <4> QED
        BY <4>1, ElementsTyped
    <3> HIDE DEF most, step
    <3> QED
      BY <3>2, <3>3, <3>4, <3>5
  <2>3. ResizingStep(s, step, dt, in, d).err = "none"
    BY <2>1
  <2> HIDE DEF t, step
  <2>4. /\ ShowsStage(ResizingStep(s, step, dt, in, d), in, n, Augmented(pic, step, d))
        /\ ResizingStep(s, step, dt, in, d).active # "in"
    BY <1>2, <1>3, <1>5, <2>2, <2>3, ResizingShows
  <2> QED
    BY <1>4, <2>1, <2>4 DEF t, step, d, q
<1>6. CASE ~ChangesSize(step)
  <2> DEFINE first == \A j \in 1 .. k - 1 : ChangesSize(pipe[j])
             u == IF first /\ s.active # "a" THEN InFirst(s, in) ELSE s
             v == KeepInTurn(u, step, dt, d, Elements(u.h, u.w))
  <2>1. ShowsStage(u, in, n, pic) /\ u.active # "in" /\ u.h = s.h /\ u.w = s.w
    <3>1. CASE first /\ s.active # "a"
      <4>1. u = InFirst(s, in)
        BY <3>1
      <4> QED
        BY <4>1, InFirstShows
    <3>2. CASE ~ (first /\ s.active # "a")
      <4>1. u = s
        BY <3>2
      <4>2. s.active # "in"
        <5>1. CASE first
          BY <3>2, <5>1
        <5>2. CASE ~first
          <6>1. k # 1
            BY <5>2
          <6> QED
            BY <6>1
        <5> QED
          BY <5>1, <5>2
      <4> QED
        BY <4>1, <4>2
    <3> QED
      BY <3>1, <3>2
  <2>2. t = v
    <3>1. t = KeepingStep(s, step, dt, in, d, first)
      BY <1>1, <1>6 DEF StageAfter, d
    <3> HIDE DEF first
    <3>2. KeepingStep(s, step, dt, in, d, first) = KeepInTurn(u, step, dt, d, Elements(s.h, s.w))
      BY DEF KeepingStep
    <3> QED
      BY <2>1, <3>1, <3>2
  <2> HIDE DEF u
  <2>3. v.err = "none"
    BY <2>2
  <2> HIDE DEF t, step
  <2>4. ShowsStage(v, in, n, Augmented(pic, step, d)) /\ v.active # "in"
    BY <1>2, <1>3, <1>6, <2>1, <2>3, KeepingShows
  <2> QED
    BY <1>4, <2>2, <2>4 DEF t, step, d, q
<1> QED
  BY <1>5, <1>6

(***************************************************************************)
(* An augmentation pipeline over two scratch buffers, of which the second  *)
(* is the longer the larger the images before it were, makes of an image   *)
(* what the reference makes of the picture, whichever buffer the image is  *)
(* in after each step: if it does not fail, and the buffers have room for  *)
(* the largest image in between.                                           *)
(***************************************************************************)
THEOREM PipelineShows ==
  ASSUME NEW pipe \in Seq(AnyStep), NEW pic, IsPicture(pic), NEW in, IsBuffer(in), Holds(in, pic),
         NEW dt, NEW out, IsBuffer(out), NEW doubles \in Nat, NEW draws \in Draws(pipe, pic.h, pic.w),
         HasRoom(pipe, Larger(Cardinality(DOMAIN in), Cardinality(DOMAIN out))),
         PipelineApply(pipe, dt, in, pic.h, pic.w, out, doubles, draws).err = "none"
  PROVE  /\ Gives(PipelineApply(pipe, dt, in, pic.h, pic.w, out, doubles, draws), PipelineOf(pipe, pic, draws), out)
         /\ << PipelineOf(pipe, pic, draws).h, PipelineOf(pipe, pic, draws).w >> =
              SizeBefore(pipe, Len(pipe) + 1, pic.h, pic.w)
<1> DEFINE last == Len(pipe)
           n == Larger(Cardinality(DOMAIN in), Cardinality(DOMAIN out))
           g == Stages(pipe, dt, in, pic.h, pic.w, out, doubles, draws)
           p == PicturesOf(pipe, pic, draws)
           r == PipelineApply(pipe, dt, in, pic.h, pic.w, out, doubles, draws)
           Follows(k) == /\ ShowsStage(g[k], in, n, p[k])
                         /\ << p[k].h, p[k].w >> = SizeBefore(pipe, k + 1, pic.h, pic.w)
                         /\ k # 0 => g[k].active # "in"
           T == { k \in Nat : k <= last => (g[k].err = "none" => Follows(k)) }
<1>1. last \in Nat /\ pic.h \in Nat /\ pic.w \in Nat
  BY DEF IsPicture
<1>2. /\ r = CopiedOut(g[last], in, out)
      /\ g[0] = FirstStage(in, pic.h, pic.w, out, doubles)
      /\ \A k \in 1 .. last : g[k] = StageAfter(pipe, dt, in, draws, k, g[k - 1])
  BY <1>1, StagesAre
<1>3. /\ PipelineOf(pipe, pic, draws) = p[last] /\ p[0] = pic
      /\ \A k \in 1 .. last : p[k] = Augmented(p[k - 1], pipe[k], draws[k])
  BY <1>1, PicturesAre
<1> HIDE DEF g, p
<1>4. n \in Nat /\ ShowsStage(g[0], in, n, p[0])
  BY <1>2, <1>3, FirstShows
<1>5. HasRoom(pipe, n)
  OBVIOUS
<1> HIDE DEF n, last, r
<1>6. 0 \in T
  <2>1. SizeBefore(pipe, 1, pic.h, pic.w) = << pic.h, pic.w >>
    BY <1>1, SizesFollow
  <2>2. 0 + 1 = 1
    OBVIOUS
  <2>3. SizeBefore(pipe, 0 + 1, pic.h, pic.w) = << pic.h, pic.w >>
    BY <2>1, <2>2
  <2>4. Follows(0)
    BY <1>3, <1>4, <2>3
  <2> QED
    BY <2>4
<1>7. ASSUME NEW k \in Nat, k \in T
      PROVE  k + 1 \in T
  <2> SUFFICES ASSUME k + 1 <= last, g[k + 1].err = "none"
               PROVE  Follows(k + 1)
    OBVIOUS
  <2>1. k + 1 \in 1 .. Len(pipe) /\ (k + 1) - 1 = k /\ k <= last
    BY <1>1 DEF last
  <2>2. g[k + 1] = StageAfter(pipe, dt, in, draws, k + 1, g[k]) /\ p[k + 1] = Augmented(p[k], pipe[k + 1], draws[k + 1])
    BY <1>2, <1>3, <2>1 DEF last
  <2>3. g[k].err = "none"
    BY <2>2 DEF StageAfter
  <2>4. Follows(k)
    BY <1>7, <2>1, <2>3
  <2>5. StageAfter(pipe, dt, in, draws, k + 1, g[k]).err = "none" /\ (k + 1 # 1 => g[k].active # "in")
    BY <2>2, <2>4
  <2>6. ShowsStage(g[k], in, n, p[k]) /\ << p[k].h, p[k].w >> = SizeBefore(pipe, k + 1, pic.h, pic.w)
    BY <2>4
  <2> HIDE DEF Follows, T
  <2> DEFINE j == k + 1
             s == g[k]
             q == p[k]
             h == pic.h
             w == pic.w
  <2>7. /\ j \in 1 .. Len(pipe) /\ h \in Nat /\ w \in Nat /\ ShowsStage(s, in, n, q)
        /\ << q.h, q.w >> = SizeBefore(pipe, j, h, w) /\ (j # 1 => s.active # "in")
        /\ HasRoom(pipe, n) /\ draws \in Draws(pipe, h, w)
        /\ StageAfter(pipe, dt, in, draws, j, s).err = "none"
    BY <1>1, <1>5, <2>1, <2>5, <2>6
  <2> HIDE DEF j, s, q, h, w
  <2>8. /\ ShowsStage(StageAfter(pipe, dt, in, draws, j, s), in, n, Augmented(q, pipe[j], draws[j]))
        /\ StageAfter(pipe, dt, in, draws, j, s).active # "in"
        /\ << Augmented(q, pipe[j], draws[j]).h, Augmented(q, pipe[j], draws[j]).w >> = SizeBefore(pipe, j + 1, h, w)
    BY <1>4, <2>7, StageShows
  <2>9. j # 0 /\ g[j] = StageAfter(pipe, dt, in, draws, j, s) /\ p[j] = Augmented(q, pipe[j], draws[j])
    BY <2>2, <2>7 DEF j, s, q
  <2>10. Follows(j)
    BY <2>8, <2>9 DEF Follows, h, w
  <2> QED
    BY <2>10 DEF j
<1>8. last \in T
  <2> HIDE DEF T
  <2> QED
    BY <1>1, <1>6, <1>7, InductionOnSet
<1> DEFINE s == g[last]
           q == p[last]
           m == Elements(s.h, s.w)
<1>9. s.err = "none" /\ m <= Cardinality(DOMAIN out) /\ r = To(s.h, s.w, Overlay(out, Slice(Holding(s, in), m)))
  <2>1. r = CopiedOut(s, in, out) /\ r.err = "none"
    BY <1>2 DEF r
  <2> HIDE DEF s
  <2>2. s.err = "none"
    BY <2>1 DEF CopiedOut, Broken
  <2>3. ~ (m > Cardinality(DOMAIN out))
    BY <2>1, <2>2 DEF CopiedOut, Broken
  <2>4. r = To(s.h, s.w, Overlay(out, Slice(Holding(s, in), m)))
    BY <2>1, <2>2, <2>3 DEF CopiedOut
  <2>5. m \in Nat
    <3>1. ShowsStage(s, in, n, q)
      BY <1>1, <1>8, <2>2 DEF s
    <3> QED
      BY <3>1, ElementsTyped DEF ShowsStage, IsPicture
  <2>6. Cardinality(DOMAIN out) \in Nat
    BY BufferIs
  <2> HIDE DEF m
  <2> QED
    BY <2>2, <2>3, <2>4, <2>5, <2>6
<1>10. Follows(last)
  BY <1>1, <1>8, <1>9
<1>11. ShowsStage(s, in, n, q)
  BY <1>10
<1> HIDE DEF s, q, Follows, T
<1>12. s.h = q.h /\ s.w = q.w /\ IsPicture(q) /\ Holds(Holding(s, in), q)
  BY <1>11 DEF ShowsStage
<1> DEFINE part == Slice(Holding(s, in), m)
           o == Overlay(out, part)
<1>13. Holds(part, q) /\ DOMAIN part = 0 .. Elements(q.h, q.w) - 1
  <2>1. m = Elements(q.h, q.w) /\ m \in Nat
    BY <1>12, ElementsTyped DEF IsPicture
  <2> QED
    BY <1>12, <2>1, SliceHolds, SliceIs
<1>14. Holds(o, q) /\ DOMAIN o = DOMAIN out
  <2>1. Elements(q.h, q.w) <= Cardinality(DOMAIN out)
    BY <1>9, <1>12
  <2> HIDE DEF part
  <2> QED
    BY <1>12, <1>13, <2>1, OverlayHolds
<1>15. r.h = q.h /\ r.w = q.w /\ r.out = o
  <2> HIDE DEF o
  <2> QED
    BY <1>9, <1>12 DEF To, o
<1>16. Gives(r, q, out)
  <2> HIDE DEF o
  <2> QED
    BY <1>12, <1>14, <1>15 DEF Gives
<1>17. << q.h, q.w >> = SizeBefore(pipe, last + 1, pic.h, pic.w)
  BY <1>10 DEF Follows, q
<1>18. PipelineOf(pipe, pic, draws) = q
  BY <1>3 DEF q
<1> QED
  BY <1>16, <1>17, <1>18 DEF r, last

-----------------------------------------------------------------------------
(* Decoding and padding.                                                   *)

\* The first cells show the picture in its corner of a larger image, and zeros
\* around it.
Pads(cells, h, w, pic) ==
  /\ pic.h <= h /\ pic.w <= w
  /\ \A i \in 0 .. Elements(h, w) - 1 :
       /\ i \in DOMAIN cells
       /\ cells[i] = IF RowOf(i, h, w) < pic.h /\ ColumnOf(i, w) < pic.w THEN pic.at[Element(i, h, w)] ELSE Zero

(***************************************************************************)
(* A decoded file is a picture.                                            *)
(***************************************************************************)
LEMMA PictureOfIs ==
  ASSUME NEW img \in AnyImage
  PROVE  /\ IsPicture(PictureOf(img)) /\ PictureOf(img).h = img.h /\ PictureOf(img).w = img.w
         /\ \A p \in Positions(img.h, img.w) : PictureOf(img).at[p] = Pixel(img.id, p[1], p[2], p[3])
<1> DEFINE at == [p \in Positions(img.h, img.w) |-> Pixel(img.id, p[1], p[2], p[3])]
<1>1. img.h \in Nat /\ img.w \in Nat
  BY DEF AnyImage
<1>2. at = [p \in Positions(img.h, img.w) |-> at[p]]
  OBVIOUS
<1>3. \A p \in Positions(img.h, img.w) : at[p] = Pixel(img.id, p[1], p[2], p[3])
  OBVIOUS
<1>4. PictureOf(img) = Picture(img.h, img.w, at)
  BY DEF PictureOf
<1> HIDE DEF at
<1> QED
  BY <1>1, <1>2, <1>3, <1>4, PictureIs

(***************************************************************************)
(* The decoder makes the picture, and zeros to the right of it and below.  *)
(***************************************************************************)
LEMMA DecodeShows ==
  ASSUME NEW img \in AnyImage, NEW out, IsBuffer(out), NEW stride \in Nat, NEW height \in Nat,
         Decode(img, out, stride, height).err = "none"
  PROVE  /\ DOMAIN Decode(img, out, stride, height).out = DOMAIN out
         /\ Pads(Decode(img, out, stride, height).out, height, stride, PictureOf(img))
<1> DEFINE n == Elements(height, stride)
           dec == Decoded(img, stride, height)
           r == Decode(img, out, stride, height)
           o == Overlay(out, dec)
           pic == PictureOf(img)
<1>1. img.h \in Nat /\ img.w \in Nat /\ n \in Nat
  BY ElementsTyped DEF AnyImage
<1>2. img.damage # "header"
  BY DEF Decode, Fail
<1>3. ~ (stride < img.w \/ height < img.h)
  <2> SUFFICES ASSUME stride < img.w \/ height < img.h
               PROVE  FALSE
    OBVIOUS
  <2>1. Decode(img, out, stride, height) = Fail("InvalidStride", out)
    <3> HIDE DEF n, dec, o, pic
    <3> QED
      BY <1>1, <1>2 DEF Decode
  <2>2. Fail("InvalidStride", out).err # "none"
    BY DEF Fail
  <2> QED
    BY <2>1, <2>2
<1>4. img.h <= height /\ img.w <= stride
  BY <1>1, <1>3
<1>5. /\ ~ (Channels * stride * height > Cardinality(DOMAIN out))
      /\ r = Done(o)
  BY <1>2, <1>3, <1>4 DEF Decode, Fail
<1>6. Channels * stride * height = n /\ Channels * height * stride = n
  BY DEF Elements, Channels
<1>7. n <= Cardinality(DOMAIN out)
  <2>1. Cardinality(DOMAIN out) \in Nat
    BY BufferIs
  <2> HIDE DEF n
  <2> QED
    BY <1>1, <1>5, <1>6, <2>1
<1>8. /\ DOMAIN dec = 0 .. n - 1
      /\ \A i \in 0 .. n - 1 :
           dec[i] = IF RowOf(i, height, stride) < img.h /\ ColumnOf(i, stride) < img.w
                      THEN Pixel(img.id, ChannelOf(i, height, stride), RowOf(i, height, stride), ColumnOf(i, stride))
                      ELSE Zero
  <2> HIDE DEF n
  <2> QED
    BY <1>6 DEF Decoded
<1> HIDE DEF n, dec
<1>9. DOMAIN o = DOMAIN out /\ \A i \in 0 .. n - 1 : i \in DOMAIN out /\ o[i] = dec[i]
  <2> HIDE DEF o
  <2>1. DOMAIN dec = 0 .. n - 1
    BY <1>8
  <2>2. /\ DOMAIN Overlay(out, dec) = DOMAIN out
        /\ n <= Cardinality(DOMAIN out) => \A i \in 0 .. n - 1 : i \in DOMAIN out /\ Overlay(out, dec)[i] = dec[i]
    <3>1. n \in Nat
      BY <1>1
    <3> QED
      BY <2>1, <3>1, OverlayIs, ZenonT(40)
  <2> QED
    BY <1>7, <2>2 DEF o
<1>10. r.out = o
  BY <1>5 DEF Done
<1>11. ASSUME NEW i \in 0 .. n - 1
       PROVE  dec[i] = IF RowOf(i, height, stride) < img.h /\ ColumnOf(i, stride) < img.w
                         THEN pic.at[Element(i, height, stride)] ELSE Zero
  <2> DEFINE c == ChannelOf(i, height, stride)
             y == RowOf(i, height, stride)
             x == ColumnOf(i, stride)
  <2>1. c \in Planes /\ y \in Nat /\ x \in Nat
    BY IndexedIs DEF n
  <2>2. dec[i] = IF y < img.h /\ x < img.w THEN Pixel(img.id, c, y, x) ELSE Zero
    BY <1>8
  <2>3. Element(i, height, stride) = << c, y, x >>
    BY DEF Element
  <2> HIDE DEF c, y, x
  <2>4. y < img.h /\ x < img.w => << c, y, x >> \in Positions(img.h, img.w)
    BY <1>1, <2>1 DEF Positions
  <2>5. \A p \in Positions(img.h, img.w) : pic.at[p] = Pixel(img.id, p[1], p[2], p[3])
    BY PictureOfIs
  <2> HIDE DEF pic
  <2>6. y < img.h /\ x < img.w => pic.at[<< c, y, x >>] = Pixel(img.id, c, y, x)
    <3> SUFFICES ASSUME y < img.h /\ x < img.w
                 PROVE  pic.at[<< c, y, x >>] = Pixel(img.id, c, y, x)
      OBVIOUS
    <3> DEFINE p == << c, y, x >>
    <3>1. p \in Positions(img.h, img.w) /\ p[1] = c /\ p[2] = y /\ p[3] = x
      BY <2>4
    <3> HIDE DEF p
    <3>2. pic.at[p] = Pixel(img.id, p[1], p[2], p[3])
      BY <2>5, <3>1
    <3>3. pic.at[p] = Pixel(img.id, c, y, x)
      BY <3>1, <3>2
    <3> QED
      BY <3>3 DEF p
  <2>7. dec[i] = IF y < img.h /\ x < img.w THEN pic.at[<< c, y, x >>] ELSE Zero
    BY <2>2, <2>6
  <2> QED
    BY <2>3, <2>7 DEF y, x
<1>12. pic.h = img.h /\ pic.w = img.w
  BY PictureOfIs
<1> HIDE DEF o, r, pic
<1>13. Pads(o, height, stride, pic)
  <2>1. \A i \in 0 .. n - 1 :
          /\ i \in DOMAIN o
          /\ o[i] = IF RowOf(i, height, stride) < pic.h /\ ColumnOf(i, stride) < pic.w
                      THEN pic.at[Element(i, height, stride)] ELSE Zero
    BY <1>9, <1>11, <1>12
  <2> QED
    BY <1>4, <1>12, <2>1 DEF Pads, n
<1> QED
  BY <1>9, <1>10, <1>13 DEF r, pic

(***************************************************************************)
(* What pads a picture to its own size holds it, and the other way round.  *)
(***************************************************************************)
LEMMA PadsHolds ==
  ASSUME NEW cells, NEW pic, IsPicture(pic)
  PROVE  Pads(cells, pic.h, pic.w, pic) <=> Holds(cells, pic)
<1>1. \A i \in 0 .. Elements(pic.h, pic.w) - 1 : RowOf(i, pic.h, pic.w) < pic.h /\ ColumnOf(i, pic.w) < pic.w
  <2> TAKE i \in 0 .. Elements(pic.h, pic.w) - 1
  <2>1. pic.h \in Nat /\ pic.w \in Nat
    BY DEF IsPicture
  <2>2. RowOf(i, pic.h, pic.w) \in 0 .. pic.h - 1 /\ ColumnOf(i, pic.w) \in 0 .. pic.w - 1
    BY <2>1, IndexedIs
  <2> QED
    BY <2>1, <2>2
<1>2. pic.h \in Nat /\ pic.w \in Nat
  BY DEF IsPicture
<1> QED
  BY <1>1, <1>2 DEF Pads, Holds

(***************************************************************************)
(* The rows of an image of h rows, and where they are in larger planes.    *)
(***************************************************************************)
LEMMA RowIs ==
  ASSUME NEW h \in Nat, NEW c \in Planes, NEW y \in 0 .. h - 1
  PROVE  c * h + y \in 0 .. Channels * h - 1 /\ (c * h + y) \div h = c /\ (c * h + y) % h = y
<1>1. c \in Nat /\ c <= 2 /\ h \in Nat \ {0}
  BY DEF Planes, Channels
<1>2. (c + 1) * h <= 3 * h /\ (c + 1) * h = c * h + h /\ c * h \in Nat
  BY <1>1, ProductsGrow
<1>3. c * h + y \in 0 .. Channels * h - 1
  <2> DEFINE a == c * h
  <2>1. a \in Nat /\ a + h <= 3 * h
    BY <1>2
  <2> HIDE DEF a
  <2>2. a + y \in 0 .. 3 * h - 1
    BY <1>1, <2>1
  <2> QED
    BY <2>2 DEF a, Channels
<1> QED
  BY <1>1, <1>3, Divided

(***************************************************************************)
(* A row has a channel and a place in it.                                  *)
(***************************************************************************)
LEMMA RowHas ==
  ASSUME NEW h \in Nat, NEW r \in 0 .. Channels * h - 1
  PROVE  r \div h \in Planes /\ r % h \in 0 .. h - 1 /\ r = (r \div h) * h + (r % h)
<1>1. h # 0 /\ r \in Nat
  BY DEF Channels
<1> DEFINE c == r \div h
           y == r % h
<1>2. c \in Nat /\ y \in 0 .. h - 1 /\ r = h * c + y
  BY <1>1
<1> HIDE DEF c, y
<1>3. c \in Planes
  <2>1. SUFFICES ASSUME 3 <= c PROVE FALSE
    BY <1>2 DEF Planes, Channels
  <2>2. 3 * h <= c * h /\ c * h = h * c /\ c * h \in Nat
    BY <1>1, <1>2, <2>1, ProductsGrow
  <2> DEFINE a == c * h
  <2>3. a \in Nat /\ 3 * h <= a /\ r = a + y
    BY <1>2, <2>2
  <2> HIDE DEF a
  <2> QED
    BY <1>1, <1>2, <2>3 DEF Channels
<1>4. h * c = c * h
  BY <1>2
<1> QED
  BY <1>2, <1>3, <1>4 DEF c, y

(***************************************************************************)
(* A row begins where the element in its first column is.                  *)
(***************************************************************************)
LEMMA RowStartIs ==
  ASSUME NEW h \in Nat, NEW r \in 0 .. Channels * h - 1, NEW H \in Nat, NEW W \in Nat, NEW x \in Nat
  PROVE  /\ RowStart(r, h, H, W) \in Nat
         /\ RowStart(r, h, H, W) + x = Index(r \div h, r % h, x, H, W)
<1> DEFINE c == r \div h
           y == r % h
<1>1. c \in Nat /\ y \in Nat
  BY RowHas DEF Planes, Channels
<1> HIDE DEF c, y
<1>2. c * H \in Nat /\ y * W \in Nat
  BY <1>1
<1>3. c * H * W \in Nat
  BY <1>2
<1>4. RowStart(r, h, H, W) = c * H * W + y * W
  BY DEF RowStart, c, y
<1>5. Index(c, y, x, H, W) = c * H * W + y * W + x
  BY DEF Index
<1> QED
  BY <1>2, <1>3, <1>4, <1>5 DEF c, y

(***************************************************************************)
(* A row covers the elements of its channel and row, up to its width.      *)
(***************************************************************************)
LEMMA RowCovers ==
  ASSUME NEW h \in Nat, NEW w \in Nat, NEW H \in Nat, NEW W \in Nat, h <= H, w <= W,
         NEW i \in 0 .. Elements(H, W) - 1, NEW r \in 0 .. Channels * h - 1
  PROVE  /\ RowStart(r, h, H, W) \in Nat
         /\ (RowStart(r, h, H, W) <= i /\ i < RowStart(r, h, H, W) + w) <=>
              (ChannelOf(i, H, W) = r \div h /\ RowOf(i, H, W) = r % h /\ ColumnOf(i, W) < w)
         /\ RowStart(r, h, H, W) <= i /\ i < RowStart(r, h, H, W) + w => i - RowStart(r, h, H, W) = ColumnOf(i, W)
<1> DEFINE c == r \div h
           y == r % h
           s == RowStart(r, h, H, W)
<1>1. c \in Planes /\ y \in 0 .. h - 1 /\ s \in Nat /\ i \in Nat /\ y \in 0 .. H - 1
  <2>1. s \in Nat
    BY 0 \in Nat, RowStartIs
  <2>2. i \in Nat
    BY ElementsTyped
  <2> QED
    BY <2>1, <2>2, RowHas
<1> HIDE DEF c, y, s
<1>2. ASSUME s <= i, i < s + w
      PROVE  ChannelOf(i, H, W) = c /\ RowOf(i, H, W) = y /\ ColumnOf(i, W) < w /\ i - s = ColumnOf(i, W)
  <2> DEFINE x == i - s
  <2>1. x \in Nat /\ x < w /\ i = s + x /\ x \in 0 .. W - 1
    BY <1>1, <1>2
  <2> HIDE DEF x
  <2>2. i = Index(c, y, x, H, W)
    BY <2>1, RowStartIs DEF s, c, y
  <2>3. ChannelOf(i, H, W) = c /\ RowOf(i, H, W) = y /\ ColumnOf(i, W) = x
    <3> DEFINE e == Index(c, y, x, H, W)
    <3>1. ChannelOf(e, H, W) = c /\ RowOf(e, H, W) = y /\ ColumnOf(e, W) = x
      BY <1>1, <2>1, IndexIs
    <3> HIDE DEF e
    <3> QED
      BY <2>2, <3>1 DEF e
  <2> QED
    BY <2>1, <2>3 DEF x
<1>3. ASSUME ChannelOf(i, H, W) = c, RowOf(i, H, W) = y, ColumnOf(i, W) < w
      PROVE  s <= i /\ i < s + w
  <2> DEFINE x == ColumnOf(i, W)
  <2>1. x \in Nat /\ x < w /\ i = Index(c, y, x, H, W)
    BY <1>3, IndexedIs
  <2> HIDE DEF x
  <2>2. s + x = Index(c, y, x, H, W)
    BY <2>1, RowStartIs DEF s, c, y
  <2> QED
    BY <1>1, <2>1, <2>2
<1> QED
  BY <1>1, <1>2, <1>3 DEF c, y, s

(***************************************************************************)
(* Copying the rows of an image one by one pads it.                        *)
(***************************************************************************)
LEMMA RowsShow ==
  ASSUME NEW pic, IsPicture(pic), NEW src, Holds(src, pic), NEW out, IsBuffer(out),
         NEW H \in Nat, NEW W \in Nat, pic.h <= H, pic.w <= W, Elements(H, W) <= Cardinality(DOMAIN out),
         PaddedRows(src, pic.h, pic.w, out, H, W).err = "none"
  PROVE  /\ DOMAIN PaddedRows(src, pic.h, pic.w, out, H, W).out = DOMAIN out
         /\ Pads(PaddedRows(src, pic.h, pic.w, out, H, W).out, H, W, pic)
<1> DEFINE h == pic.h
           w == pic.w
           rows == 0 .. Channels * h - 1
           Covering(i) == { r \in rows : RowStart(r, h, H, W) <= i /\ i < RowStart(r, h, H, W) + w }
           At(i) == IF Covering(i) = {} THEN Zero
                    ELSE src[Largest(Covering(i)) * w + i - RowStart(Largest(Covering(i)), h, H, W)]
           o == [i \in DOMAIN out |-> At(i)]
<1>1. h \in Nat /\ w \in Nat /\ Elements(H, W) \in Nat
  BY ElementsTyped DEF IsPicture
<1>2. PaddedRows(src, h, w, out, H, W).out = o
  <2> DEFINE wide == \E r \in rows : RowStart(r, h, H, W) + w > Cardinality(DOMAIN out)
  <2>1. PaddedRows(src, h, w, out, H, W) = IF wide THEN Fail("panic", out) ELSE Done(o)
    BY DEF PaddedRows
  <2> HIDE DEF wide, o
  <2>2. ~wide
    BY <2>1 DEF Fail
  <2> QED
    BY <2>1, <2>2 DEF Done
<1>3. \A i \in 0 .. Elements(H, W) - 1 : i \in DOMAIN out
  <2>1. Cardinality(DOMAIN out) \in Nat /\ DOMAIN out = 0 .. Cardinality(DOMAIN out) - 1
    BY BufferIs
  <2> QED
    BY <1>1, <2>1
<1>4. ASSUME NEW i \in 0 .. Elements(H, W) - 1
      PROVE  At(i) = IF RowOf(i, H, W) < h /\ ColumnOf(i, W) < w THEN pic.at[Element(i, H, W)] ELSE Zero
  <2> DEFINE c == ChannelOf(i, H, W)
             y == RowOf(i, H, W)
             x == ColumnOf(i, W)
             q == c * h + y
  <2>1. c \in Planes /\ y \in 0 .. H - 1 /\ x \in 0 .. W - 1
    BY IndexedIs
  <2>2. CASE ~ (y < h /\ x < w)
    <3>1. ASSUME NEW r \in Covering(i)
          PROVE  FALSE
      <4>1. r \in rows /\ RowStart(r, h, H, W) <= i /\ i < RowStart(r, h, H, W) + w
        OBVIOUS
      <4>2. y = r % h /\ x < w
        BY <1>1, <4>1, RowCovers, SMTT(30)
      <4>3. r % h \in 0 .. h - 1
        BY <1>1, <4>1, RowHas
      <4> HIDE DEF y, x
      <4> QED
        BY <1>1, <2>2, <4>2, <4>3
    <3>2. Covering(i) = {}
      BY <3>1
    <3> QED
      BY <2>2, <3>2
  <2>3. CASE y < h /\ x < w
    <3>1. y \in 0 .. h - 1 /\ x \in 0 .. w - 1
      BY <1>1, <2>1, <2>3
    <3>2. q \in rows /\ q \div h = c /\ q % h = y
      <4> HIDE DEF c, y
      <4> QED
        BY <1>1, <2>1, <3>1, RowIs
    <3> HIDE DEF q
    <3>3. RowStart(q, h, H, W) <= i /\ i < RowStart(q, h, H, W) + w /\ i - RowStart(q, h, H, W) = x
      <4>1. ChannelOf(i, H, W) = q \div h /\ RowOf(i, H, W) = q % h /\ ColumnOf(i, W) < w
        BY <2>3, <3>2
      <4>2. RowStart(q, h, H, W) <= i /\ i < RowStart(q, h, H, W) + w
        <5>1. q \in 0 .. Channels * h - 1 /\ h \in Nat /\ w \in Nat /\ h <= H /\ w <= W
          BY <1>1, <3>2
        <5> HIDE DEF h, w
        <5> QED
          BY <4>1, <5>1, RowCovers, SMTT(30)
      <4>3. i - RowStart(q, h, H, W) = ColumnOf(i, W)
        BY <1>1, <3>2, <4>2, RowCovers, SMTT(30)
      <4> QED
        BY <4>2, <4>3
    <3>4. ASSUME NEW r \in Covering(i)
          PROVE  r = q
      <4>1. r \in rows /\ RowStart(r, h, H, W) <= i /\ i < RowStart(r, h, H, W) + w
        OBVIOUS
      <4>2. c = r \div h /\ y = r % h
        BY <1>1, <4>1, RowCovers, SMTT(30)
      <4>3. r = (r \div h) * h + (r % h)
        BY <1>1, <4>1, RowHas
      <4>4. r = c * h + y
        <5> HIDE DEF c, y
        <5> QED
          BY <4>2, <4>3
      <4> QED
        BY <4>4 DEF q
    <3>5. Covering(i) = {q}
      BY <3>2, <3>3, <3>4
    <3>6. Largest({q}) = q
      <4>1. \E n \in {q} : \A k \in {q} : k <= n
        BY <3>2
      <4>2. Largest({q}) \in {q}
        BY <4>1 DEF Largest
      <4> QED
        BY <4>2
    <3>7. At(i) = src[q * w + i - RowStart(q, h, H, W)]
      <4> HIDE DEF Covering
      <4> QED
        BY <3>5, <3>6
    <3>8. q * w + i - RowStart(q, h, H, W) = Index(c, y, x, h, w)
      <4>1. RowStart(q, h, H, W) \in Nat /\ i \in Nat
        BY <1>1, <3>2, RowCovers
      <4>2. q * w \in Nat /\ q \in Nat
        BY <1>1, <3>2
      <4>3. q * w + i - RowStart(q, h, H, W) = q * w + x
        BY <3>3, <4>1, <4>2
      <4>4. q * w = c * h * w + y * w
        <5>1. c \in Nat /\ y \in Nat
          BY <2>1 DEF Planes, Channels
        <5> HIDE DEF c, y
        <5> QED
          BY <1>1, <5>1 DEF q
      <4> QED
        BY <4>3, <4>4 DEF Index
    <3>9. src[Index(c, y, x, h, w)] = pic.at[<< c, y, x >>]
      <4> HIDE DEF c, y, x
      <4> QED
        BY <2>1, <3>1, HeldAt
    <3> HIDE DEF At
    <3> QED
      BY <2>3, <3>7, <3>8, <3>9 DEF Element
  <2> QED
    BY <2>2, <2>3
<1>5. ASSUME NEW i \in 0 .. Elements(H, W) - 1
      PROVE  o[i] = At(i)
  BY <1>3
<1>6. DOMAIN o = DOMAIN out
  OBVIOUS
<1> HIDE DEF o, At
<1>7. Pads(o, H, W, pic)
  BY <1>3, <1>4, <1>5, <1>6 DEF Pads
<1> QED
  BY <1>2, <1>6, <1>7

(***************************************************************************)
(* Products of two factors each no larger are equal only if both are, or   *)
(* nothing is left.                                                        *)
(***************************************************************************)
LEMMA EqualAreas ==
  ASSUME NEW h \in Nat, NEW w \in Nat, NEW H \in Nat, NEW W \in Nat, h <= H, w <= W,
         Elements(h, w) = Elements(H, W), Elements(H, W) # 0
  PROVE  h = H /\ w = W
<1>1. Elements(h, w) = 3 * (h * w) /\ Elements(H, W) = 3 * (H * W)
  BY DEF Elements, Channels
<1>2. h * w \in Nat /\ H * W \in Nat
  OBVIOUS
<1>3. h * w = H * W /\ H * W # 0
  <2> DEFINE a == h * w
             b == H * W
  <2>1. a \in Nat /\ b \in Nat /\ 3 * a = 3 * b /\ 3 * b # 0
    BY <1>1, <1>2
  <2> HIDE DEF a, b
  <2>2. a = b /\ b # 0
    BY <2>1
  <2> QED
    BY <2>2 DEF a, b
<1>4. h # 0 /\ w # 0
  BY <1>3
<1>5. h = H
  <2>1. SUFFICES ASSUME h + 1 <= H PROVE FALSE
    OBVIOUS
  <2>2. (h + 1) * w <= H * w
    BY <2>1, ProductsGrow
  <2>3. H * w = w * H /\ W * H = H * W /\ w * H <= W * H
    BY ProductsGrow
  <2>4. (h + 1) * w = h * w + w
    OBVIOUS
  <2>5. H * w \in Nat
    OBVIOUS
  <2> DEFINE a == h * w
             b == H * W
             c == H * w
  <2>6. a \in Nat /\ b \in Nat /\ c \in Nat /\ a = b /\ a + w <= c /\ c <= b
    BY <1>2, <1>3, <2>2, <2>3, <2>4, <2>5
  <2> HIDE DEF a, b, c
  <2> QED
    BY <1>4, <2>6
<1>6. w = W
  <2>1. SUFFICES ASSUME w + 1 <= W PROVE FALSE
    OBVIOUS
  <2>2. (w + 1) * h <= W * h
    BY <2>1, ProductsGrow
  <2>3. (w + 1) * h = h * w + h /\ W * h = H * W
    BY <1>5
  <2> DEFINE a == h * w
             b == H * W
  <2>4. a \in Nat /\ b \in Nat /\ a = b /\ a + h <= b
    BY <1>2, <1>3, <2>2, <2>3
  <2> HIDE DEF a, b
  <2> QED
    BY <1>4, <2>4
<1> QED
  BY <1>5, <1>6

(***************************************************************************)
(* The folder pads what it copies.                                         *)
(***************************************************************************)
LEMMA FolderCopyShows ==
  ASSUME NEW pic, IsPicture(pic), NEW src, Holds(src, pic), DOMAIN src = 0 .. Elements(pic.h, pic.w) - 1,
         NEW out, IsBuffer(out), NEW H \in Nat, NEW W \in Nat, pic.h <= H, pic.w <= W,
         Elements(H, W) <= Cardinality(DOMAIN out),
         FolderCopy(src, pic.h, pic.w, out, H, W).err = "none"
  PROVE  /\ DOMAIN FolderCopy(src, pic.h, pic.w, out, H, W).out = DOMAIN out
         /\ Pads(FolderCopy(src, pic.h, pic.w, out, H, W).out, H, W, pic)
<1>1. CASE pic.h = H /\ pic.w = W
  <2> DEFINE o == Overlay(out, src)
             r == FolderCopy(src, pic.h, pic.w, out, H, W)
  <2>1. r = IF Cardinality(DOMAIN src) > Cardinality(DOMAIN out) THEN Fail("panic", out) ELSE Done(o)
    BY <1>1 DEF FolderCopy
  <2>2. r.err = "none"
    OBVIOUS
  <2> HIDE DEF r, o
  <2>3. r = Done(o)
    BY <2>1, <2>2 DEF Fail
  <2>4. r.out = o
    BY <2>3 DEF Done
  <2>5. Holds(o, pic) /\ DOMAIN o = DOMAIN out
    BY <1>1, OverlayHolds DEF o
  <2>6. Pads(o, pic.h, pic.w, pic)
    BY <2>5, PadsHolds
  <2> QED
    BY <1>1, <2>4, <2>5, <2>6 DEF r
<1>2. CASE ~ (pic.h = H /\ pic.w = W)
  <2>1. FolderCopy(src, pic.h, pic.w, out, H, W) = PaddedRows(src, pic.h, pic.w, out, H, W)
    BY <1>2 DEF FolderCopy
  <2> QED
    BY <2>1, RowsShow
<1> QED
  BY <1>1, <1>2

(***************************************************************************)
(* So does the tar processor, which goes by the length of the image alone. *)
(***************************************************************************)
LEMMA TarCopyShows ==
  ASSUME NEW pic, IsPicture(pic), NEW src, Holds(src, pic), DOMAIN src = 0 .. Elements(pic.h, pic.w) - 1,
         NEW H \in Nat, NEW W \in Nat, pic.h <= H, pic.w <= W,
         NEW out, DOMAIN out = 0 .. Elements(H, W) - 1,
         TarCopy(src, pic.h, pic.w, out, H, W).err = "none"
  PROVE  /\ DOMAIN TarCopy(src, pic.h, pic.w, out, H, W).out = DOMAIN out
         /\ Pads(TarCopy(src, pic.h, pic.w, out, H, W).out, H, W, pic)
<1>1. pic.h \in Nat /\ pic.w \in Nat /\ Elements(H, W) \in Nat /\ Elements(pic.h, pic.w) \in Nat
  BY ElementsTyped DEF IsPicture
<1>2. IsBuffer(out) /\ Cardinality(DOMAIN out) = Elements(H, W)
  <2>1. Cardinality(0 .. Elements(H, W) - 1) = Elements(H, W)
    BY <1>1, FS_Interval, SMTT(30)
  <2> QED
    BY <1>1, <2>1 DEF IsBuffer
<1>3. CASE DOMAIN src = DOMAIN out
  <2>1. TarCopy(src, pic.h, pic.w, out, H, W) = Done(src)
    BY <1>3 DEF TarCopy
  <2>2. TarCopy(src, pic.h, pic.w, out, H, W).out = src
    BY <2>1 DEF Done
  <2>3. Elements(pic.h, pic.w) = Elements(H, W)
    <3>1. Cardinality(0 .. Elements(pic.h, pic.w) - 1) = Elements(pic.h, pic.w)
      BY <1>1, FS_Interval, SMTT(30)
    <3> QED
      BY <1>2, <1>3, <3>1
  <2>4. CASE Elements(H, W) = 0
    <3>1. Pads(src, H, W, pic)
      BY <2>4 DEF Pads
    <3> QED
      BY <1>3, <2>2, <3>1
  <2>5. CASE Elements(H, W) # 0
    <3>1. pic.h = H /\ pic.w = W
      BY <1>1, <2>3, <2>5, EqualAreas
    <3>2. Pads(src, pic.h, pic.w, pic)
      BY PadsHolds
    <3> QED
      BY <1>3, <2>2, <3>1, <3>2
  <2> QED
    BY <2>4, <2>5
<1>4. CASE DOMAIN src # DOMAIN out
  <2>1. TarCopy(src, pic.h, pic.w, out, H, W) = PaddedRows(src, pic.h, pic.w, out, H, W)
    BY <1>4 DEF TarCopy
  <2>2. Elements(H, W) <= Cardinality(DOMAIN out)
    BY <1>1, <1>2
  <2> QED
    BY <1>2, <2>1, <2>2, RowsShow
<1> QED
  BY <1>3, <1>4

-----------------------------------------------------------------------------
(* The images of an item.                                                  *)

\* What the tensor of an image is to show.
Intended(d, img, draws) ==
  IF d.augmented THEN PipelineOf(d.pipe, PictureOf(img), draws) ELSE PictureOf(img)

\* All that writing an item may draw.
MayDraw(d, img) == IF d.augmented THEN Draws(d.pipe, img.h, img.w) ELSE { << >> }

(***************************************************************************)
(* A buffer of n elements.                                                 *)
(***************************************************************************)
LEMMA FreshIs ==
  ASSUME NEW n \in Nat
  PROVE  IsBuffer(Fresh(n)) /\ Cardinality(DOMAIN Fresh(n)) = n /\ DOMAIN Fresh(n) = 0 .. n - 1
<1>1. Cardinality(0 .. n - 1) = n
  BY FS_Interval
<1> QED
  BY <1>1 DEF Fresh, IsBuffer

(***************************************************************************)
(* The image buffers have room for the largest of three images.            *)
(***************************************************************************)
LEMMA LongestIs ==
  ASSUME NEW a \in Nat, NEW b \in Nat, NEW c \in Nat
  PROVE  Largest({a, b, c}) \in Nat /\ a <= Largest({a, b, c}) /\ b <= Largest({a, b, c}) /\ c <= Largest({a, b, c})
<1> DEFINE S == {a, b, c}
<1>1. \E n \in S : \A k \in S : k <= n
  BY a <= b \/ b <= a, b <= c \/ c <= b, a <= c \/ c <= a
<1>2. Largest(S) \in S /\ \A k \in S : k <= Largest(S)
  <2> HIDE DEF S
  <2> QED
    BY <1>1 DEF Largest
<1> QED
  BY <1>2

(***************************************************************************)
(* A file that is decoded and augmented in the thread's buffers gives the  *)
(* reference's picture, whatever the thread has in its scratch.            *)
(***************************************************************************)
LEMMA AugmentedShows ==
  ASSUME NEW d, d.pipe \in Seq(AnyStep), NEW img \in AnyImage, NEW h \in Nat, NEW w \in Nat, NEW doubles \in Nat,
         NEW draws \in Draws(d.pipe, img.h, img.w),
         AugmentedImage(d, img, h, w, doubles, draws).err = "none"
  PROVE  \E out : /\ Gives(AugmentedImage(d, img, h, w, doubles, draws), PipelineOf(d.pipe, PictureOf(img), draws), out)
                  /\ << PipelineOf(d.pipe, PictureOf(img), draws).h, PipelineOf(d.pipe, PictureOf(img), draws).w >> =
                       SizeBefore(d.pipe, Len(d.pipe) + 1, img.h, img.w)
<1> DEFINE n == Elements(img.h, img.w)
           buf == Fresh(n)
           decoded == Decode(img, buf, img.w, img.h)
           out == Fresh(LongestImage(d, img, h, w))
           pic == PictureOf(img)
           r == AugmentedImage(d, img, h, w, doubles, draws)
<1>1. img.h \in Nat /\ img.w \in Nat /\ n \in Nat
  BY ElementsTyped DEF AnyImage
<1>2. r = IF decoded.err # "none" THEN decoded
          ELSE PipelineApply(d.pipe, d.dt, decoded.out, img.h, img.w, out, doubles, draws)
  BY DEF AugmentedImage
<1>3. r.err = "none"
  OBVIOUS
<1> HIDE DEF r, decoded
<1>4. decoded.err = "none" /\ r = PipelineApply(d.pipe, d.dt, decoded.out, img.h, img.w, out, doubles, draws)
  BY <1>2, <1>3
<1>5. IsPicture(pic) /\ pic.h = img.h /\ pic.w = img.w
  BY PictureOfIs
<1>6. IsBuffer(buf) /\ DOMAIN buf = 0 .. n - 1 /\ Cardinality(DOMAIN buf) = n
  BY <1>1, FreshIs
<1> HIDE DEF buf, pic
<1>7. DOMAIN decoded.out = DOMAIN buf /\ Pads(decoded.out, img.h, img.w, pic)
  BY <1>1, <1>4, <1>6, DecodeShows DEF decoded, pic
<1>8. Holds(decoded.out, pic)
  BY <1>5, <1>7, PadsHolds
<1>9. IsBuffer(decoded.out) /\ Cardinality(DOMAIN decoded.out) = n
  BY <1>1, <1>6, <1>7 DEF IsBuffer
<1> DEFINE most == MaxIntermediateSize(d.pipe)
           long == LongestImage(d, img, h, w)
<1>10. long \in Nat /\ Elements(most[1], most[2]) <= long /\ Elements(most[1], most[2]) \in Nat
  <2>1. most[1] \in Nat /\ most[2] \in Nat
    BY PipelineSizes
  <2>2. Elements(h, w) \in Nat /\ Elements(most[1], most[2]) \in Nat
    BY <2>1, ElementsTyped
  <2>3. long = Largest({ Elements(h, w), Elements(most[1], most[2]), n })
    BY DEF LongestImage
  <2> HIDE DEF long, most, n
  <2> QED
    BY <1>1, <2>2, <2>3, LongestIs
<1>11. IsBuffer(out) /\ Cardinality(DOMAIN out) = long
  <2> HIDE DEF long
  <2>1. IsBuffer(Fresh(long)) /\ Cardinality(DOMAIN Fresh(long)) = long
    BY <1>10, FreshIs
  <2> QED
    BY <2>1 DEF long
<1>12. Elements(most[1], most[2]) <= Larger(Cardinality(DOMAIN decoded.out), Cardinality(DOMAIN out))
  <2> HIDE DEF n, most, long, out
  <2> QED
    BY <1>1, <1>9, <1>10, <1>11 DEF Larger
<1> HIDE DEF out
<1>13. PipelineApply(d.pipe, d.dt, decoded.out, pic.h, pic.w, out, doubles, draws).err = "none"
  BY <1>3, <1>4, <1>5
<1>14. draws \in Draws(d.pipe, pic.h, pic.w)
  BY <1>5
<1>15. /\ Gives(PipelineApply(d.pipe, d.dt, decoded.out, pic.h, pic.w, out, doubles, draws), PipelineOf(d.pipe, pic, draws), out)
       /\ << PipelineOf(d.pipe, pic, draws).h, PipelineOf(d.pipe, pic, draws).w >> =
            SizeBefore(d.pipe, Len(d.pipe) + 1, pic.h, pic.w)
  <2>1. Elements(MaxIntermediateSize(d.pipe)[1], MaxIntermediateSize(d.pipe)[2])
          <= Larger(Cardinality(DOMAIN decoded.out), Cardinality(DOMAIN out))
    BY <1>12
  <2>2. IsBuffer(decoded.out) /\ IsBuffer(out)
    BY <1>9, <1>11
  <2> HIDE DEF most, n, long
  <2> DEFINE in == decoded.out
             pipe == d.pipe
             dt == d.dt
  <2>3. /\ IsBuffer(in) /\ IsBuffer(out) /\ IsPicture(pic) /\ Holds(in, pic) /\ pipe \in Seq(AnyStep)
        /\ draws \in Draws(pipe, pic.h, pic.w)
        /\ PipelineApply(pipe, dt, in, pic.h, pic.w, out, doubles, draws).err = "none"
        /\ HasRoom(pipe, Larger(Cardinality(DOMAIN in), Cardinality(DOMAIN out)))
    BY <1>5, <1>8, <1>13, <1>14, <2>1, <2>2 DEF HasRoom
  <2> HIDE DEF in, pipe, dt
  <2>4. /\ Gives(PipelineApply(pipe, dt, in, pic.h, pic.w, out, doubles, draws), PipelineOf(pipe, pic, draws), out)
        /\ << PipelineOf(pipe, pic, draws).h, PipelineOf(pipe, pic, draws).w >> =
             SizeBefore(pipe, Len(pipe) + 1, pic.h, pic.w)
    BY <2>3, PipelineShows
  <2> QED
    BY <2>4 DEF in, pipe, dt
<1>16. /\ Gives(r, PipelineOf(d.pipe, pic, draws), out)
       /\ << PipelineOf(d.pipe, pic, draws).h, PipelineOf(d.pipe, pic, draws).w >> =
            SizeBefore(d.pipe, Len(d.pipe) + 1, img.h, img.w)
  BY <1>4, <1>5, <1>15
<1> QED
  BY <1>16 DEF r, pic

(***************************************************************************)
(* The size of what is intended: the file's, or the last one that a step   *)
(* makes.                                                                  *)
(***************************************************************************)
IntendedSize(d, img) ==
  IF d.augmented /\ SizeChanging(d.pipe) # {} THEN OutputSize(d.pipe) ELSE << img.h, img.w >>

\* An image that is made in a buffer and to be copied from it.
Makes(r, pic, sz) ==
  /\ IsPicture(pic) /\ << pic.h, pic.w >> = sz
  /\ r.h = pic.h /\ r.w = pic.w
  /\ Holds(Slice(r.out, Elements(r.h, r.w)), pic)
  /\ DOMAIN Slice(r.out, Elements(r.h, r.w)) = 0 .. Elements(pic.h, pic.w) - 1

(***************************************************************************)
(* What the augmentations leave in the thread's buffer is what is intended. *)
(***************************************************************************)
LEMMA IntendedIs ==
  ASSUME NEW d, d.pipe \in Seq(AnyStep), d.augmented, NEW img \in AnyImage,
         NEW h \in Nat, NEW w \in Nat, NEW doubles \in Nat, NEW draws \in MayDraw(d, img),
         AugmentedImage(d, img, h, w, doubles, draws).err = "none"
  PROVE  Makes(AugmentedImage(d, img, h, w, doubles, draws), Intended(d, img, draws), IntendedSize(d, img))
<1> DEFINE r == AugmentedImage(d, img, h, w, doubles, draws)
           pic == Intended(d, img, draws)
<1>1. draws \in Draws(d.pipe, img.h, img.w) /\ pic = PipelineOf(d.pipe, PictureOf(img), draws)
  BY DEF MayDraw, Intended
<1>2. img.h \in Nat /\ img.w \in Nat
  BY DEF AnyImage
<1> HIDE DEF pic
<1>3. PICK out : Gives(r, pic, out) /\ << pic.h, pic.w >> = SizeBefore(d.pipe, Len(d.pipe) + 1, img.h, img.w)
  BY <1>1, AugmentedShows
<1> HIDE DEF r
<1>4. IsPicture(pic) /\ r.h = pic.h /\ r.w = pic.w /\ Holds(r.out, pic)
  BY <1>3 DEF Gives
<1>5. Elements(pic.h, pic.w) \in Nat
  BY <1>4, ElementsTyped DEF IsPicture
<1>6. Holds(Slice(r.out, Elements(r.h, r.w)), pic) /\ DOMAIN Slice(r.out, Elements(r.h, r.w)) = 0 .. Elements(pic.h, pic.w) - 1
  BY <1>4, <1>5, SliceHolds, SliceIs
<1>7. << pic.h, pic.w >> = IntendedSize(d, img)
  <2>1. SizeBefore(d.pipe, Len(d.pipe) + 1, img.h, img.w) =
          IF SizeChanging(d.pipe) = {} THEN << img.h, img.w >> ELSE OutputSize(d.pipe)
    BY <1>2, SizesFollow, SMTT(30)
  <2> QED
    BY <1>3, <2>1 DEF IntendedSize
<1>8. Makes(r, pic, IntendedSize(d, img))
  BY <1>4, <1>6, <1>7 DEF Makes
<1> QED
  BY <1>8 DEF r, pic

-----------------------------------------------------------------------------
(* Images fit the size that is chosen for them.                            *)

\* An image of a fits one of b.
Fits(a, b) == a[1] <= b[1] /\ a[2] <= b[2]

(***************************************************************************)
(* A pipeline of which no step has an area ends with no size.              *)
(***************************************************************************)
LEMMA NoAreas ==
  ASSUME NEW pipe \in Seq(AnyStep), MaxIntermediateSize(pipe) = NoSize
  PROVE  OutputSize(pipe) = NoSize
<1> DEFINE n == Len(pipe)
           S == SizeChanging(pipe)
           Area(k) == pipe[k].h * pipe[k].w
           Most == { k \in S : \A j \in S : Area(j) <= Area(k) }
<1>1. CASE S = {}
  BY <1>1 DEF OutputSize
<1>2. CASE S # {}
  <2>1. n \in Nat /\ DOMAIN pipe = 1 .. n /\ S \in SUBSET (1 .. n)
    BY DEF SizeChanging
  <2>2. \A k \in S : pipe[k] \in AnyStep
    BY <2>1
  <2>3. ASSUME NEW k \in S
        PROVE  Area(k) = 0
    <3>1. Elements(pipe[k].h, pipe[k].w) <= Elements(MaxIntermediateSize(pipe)[1], MaxIntermediateSize(pipe)[2])
      BY LargestArea
    <3>2. Elements(0, 0) = 0
      BY DEF Elements, Channels
    <3>3. pipe[k].h \in Nat /\ pipe[k].w \in Nat
      BY <2>2 DEF AnyStep
    <3>4. Elements(pipe[k].h, pipe[k].w) = 3 * Area(k) /\ Area(k) \in Nat
      BY <3>3 DEF Elements, Channels
    <3>5. Elements(pipe[k].h, pipe[k].w) <= 0
      BY <3>1, <3>2 DEF NoSize
    <3> HIDE DEF Area
    <3> QED
      BY <3>4, <3>5
  <2>4. Most = S
    <3> HIDE DEF Area
    <3>1. \A j, k \in S : Area(j) <= Area(k)
      BY <2>3
    <3> QED
      BY <3>1
  <2>5. MaxIntermediateSize(pipe) = IF Most = {} THEN NoSize ELSE FixedSize(pipe[Largest(Most)])
    BY DEF MaxIntermediateSize
  <2>6. OutputSize(pipe) = FixedSize(pipe[Largest(S)])
    BY <1>2 DEF OutputSize
  <2> HIDE DEF Most, S
  <2> QED
    BY <1>2, <2>4, <2>5, <2>6
<1> QED
  BY <1>1, <1>2

(***************************************************************************)
(* Save for the images that a folder cuts, every image of a batch fits the *)
(* size that the folder chooses for the batch.                             *)
(***************************************************************************)
LEMMA FolderFits ==
  ASSUME NEW d, AnyDataset(d), d.kind = "folder", ~CutsImages(d), NEW items \in SUBSET Items(d), NEW idx \in items
  PROVE  Fits(IntendedSize(d, Samples(d.files)[idx].img), FolderSize(d, items))
<1> DEFINE files == Samples(d.files)
           img == files[idx].img
           most == MaxIntermediateSize(d.pipe)
           last == OutputSize(d.pipe)
<1>1. d.pipe \in Seq(AnyStep) /\ most \in Nat \X Nat /\ last \in Nat \X Nat
  BY PipelineSizes DEF AnyDataset
<1>2. files \in Seq(AnyFile) /\ items \in SUBSET (DOMAIN files) /\ items # {}
  BY SamplesAre DEF AnyDataset, Items
<1>3. /\ LargestSize(files, items) \in Nat \X Nat
      /\ img.h <= LargestSize(files, items)[1] /\ img.w <= LargestSize(files, items)[2]
  <2> HIDE DEF files
  <2>1. \A i \in items : /\ files[i].img.h <= LargestSize(files, items)[1]
                         /\ files[i].img.w <= LargestSize(files, items)[2]
    BY <1>2, LargestSizeIs
  <2> QED
    BY <1>2, <2>1, LargestSizeIs
<1>4. FolderSize(d, items) = IF d.augmented /\ most # NoSize THEN most ELSE LargestSize(files, items)
  BY DEF FolderSize
<1>5. IntendedSize(d, img) = IF d.augmented /\ SizeChanging(d.pipe) # {} THEN last ELSE << img.h, img.w >>
  BY DEF IntendedSize
<1>6. d.augmented /\ most # NoSize => ~ (most[1] < last[1] \/ most[2] < last[2])
  BY DEF CutsImages
<1>7. SizeChanging(d.pipe) = {} => most = NoSize
  <2> SUFFICES ASSUME SizeChanging(d.pipe) = {} PROVE most = NoSize
    OBVIOUS
  <2> DEFINE Area(k) == d.pipe[k].h * d.pipe[k].w
             Most == { k \in SizeChanging(d.pipe) : \A j \in SizeChanging(d.pipe) : Area(j) <= Area(k) }
  <2>1. most = IF Most = {} THEN NoSize ELSE FixedSize(d.pipe[Largest(Most)])
    BY DEF MaxIntermediateSize
  <2>2. Most = {}
    OBVIOUS
  <2> QED
    BY <2>1, <2>2
<1>8. most = NoSize => last = NoSize
  BY <1>1, NoAreas
<1> HIDE DEF files, img, most, last
<1>9. CASE d.augmented /\ most # NoSize
  <2>1. FolderSize(d, items) = most /\ IntendedSize(d, img) = last
    BY <1>4, <1>5, <1>7, <1>9
  <2> QED
    BY <1>1, <1>6, <1>9, <2>1 DEF Fits, img, files
<1>10. CASE ~(d.augmented /\ most # NoSize)
  <2>1. FolderSize(d, items) = LargestSize(files, items)
    BY <1>4, <1>10
  <2>2. IntendedSize(d, img) = << img.h, img.w >> \/ IntendedSize(d, img) = NoSize
    BY <1>5, <1>8, <1>10
  <2>3. Fits(<< img.h, img.w >>, LargestSize(files, items)) /\ Fits(NoSize, LargestSize(files, items))
    BY <1>3 DEF Fits, NoSize
  <2>4. Fits(IntendedSize(d, img), FolderSize(d, items))
    BY <2>1, <2>2, <2>3
  <2> QED
    BY <2>4 DEF img, files
<1> QED
  BY <1>9, <1>10

(***************************************************************************)
(* An image fits every size that the tar processor takes it for.           *)
(***************************************************************************)
LEMMA TarFits ==
  ASSUME NEW d, AnyDataset(d), NEW img \in AnyImage, NEW sz \in Nat \X Nat, ~ (sz[1] < TarSize(d, img)[1]), ~ (sz[2] < TarSize(d, img)[2])
  PROVE  Fits(IntendedSize(d, img), sz)
<1> DEFINE last == OutputSize(d.pipe)
<1>1. img.h \in Nat /\ img.w \in Nat /\ last \in Nat \X Nat
  BY PipelineSizes DEF AnyDataset, AnyImage
<1>2. TarSize(d, img) \in Nat \X Nat
  BY TarSizeTyped
<1>3. TarSize(d, img) = IF d.augmented /\ last # NoSize THEN last ELSE << img.h, img.w >>
  BY DEF TarSize, TargetSize
<1>4. SizeChanging(d.pipe) = {} => last = NoSize
  BY DEF OutputSize
<1>5. IntendedSize(d, img) = IF d.augmented /\ SizeChanging(d.pipe) # {} THEN last ELSE << img.h, img.w >>
  BY DEF IntendedSize
<1> HIDE DEF last
<1>6. IntendedSize(d, img) = TarSize(d, img) \/ IntendedSize(d, img) = NoSize
  BY <1>3, <1>4, <1>5
<1>7. Fits(TarSize(d, img), sz)
  BY <1>2 DEF Fits
<1>8. Fits(NoSize, sz)
  BY DEF Fits, NoSize
<1> QED
  BY <1>6, <1>7, <1>8

(***************************************************************************)
(* Without augmentations, the file as it is is intended.                   *)
(***************************************************************************)
LEMMA PlainIntended ==
  ASSUME NEW d, ~d.augmented, NEW img \in AnyImage, NEW draws
  PROVE  Intended(d, img, draws) = PictureOf(img)
BY DEF Intended

\* What a closure that makes an image of a part of its item is to leave in it.
PadsPart(r, part, sz, pic) ==
  DOMAIN r.out = DOMAIN part /\ r.n = Elements(sz[1], sz[2]) /\ Pads(r.out, sz[1], sz[2], pic)

(***************************************************************************)
(* The closure of a folder makes the image that is intended, with zeros    *)
(* around it.                                                              *)
(***************************************************************************)
LEMMA FolderImageShows ==
  ASSUME NEW d, AnyDataset(d), NEW idx \in DOMAIN Samples(d.files), NEW sz \in Nat \X Nat,
         NEW part, IsBuffer(part), Elements(sz[1], sz[2]) <= Cardinality(DOMAIN part), NEW doubles \in Nat,
         NEW draws \in MayDraw(d, Samples(d.files)[idx].img), Fits(IntendedSize(d, Samples(d.files)[idx].img), sz),
         FolderImage(d, idx, sz, part, doubles, draws).err = "none"
  PROVE  PadsPart(FolderImage(d, idx, sz, part, doubles, draws), part, sz, Intended(d, Samples(d.files)[idx].img, draws))
<1> DEFINE img == Samples(d.files)[idx].img
           made == AugmentedImage(d, img, sz[1], sz[2], doubles, draws)
           pic == Intended(d, img, draws)
           r == IF ~d.augmented THEN Decode(img, part, sz[2], sz[1]) ELSE PadToFolder(made, part, sz)
           f == FolderImage(d, idx, sz, part, doubles, draws)
<1>1. img \in AnyImage
  <2>1. Samples(d.files) \in Seq(AnyFile)
    BY SamplesAre DEF AnyDataset
  <2>2. Samples(d.files)[idx] \in AnyFile
    BY <2>1
  <2> QED
    BY <2>2 DEF AnyFile
<1>2. f = Closed(r, Elements(sz[1], sz[2])) /\ f.err = "none"
  BY DEF FolderImage
<1>3. draws \in MayDraw(d, img) /\ Fits(IntendedSize(d, img), sz) /\ sz[1] \in Nat /\ sz[2] \in Nat
  BY DEF img
<1>4. d.pipe \in Seq(AnyStep) /\ d.augmented \in BOOLEAN
  BY DEF AnyDataset
<1> HIDE DEF img, f
<1>5. r.err = "none" /\ f.out = r.out /\ f.n = Elements(sz[1], sz[2])
  <2> HIDE DEF r
  <2> QED
    BY <1>2 DEF Closed
<1>6. DOMAIN r.out = DOMAIN part /\ Pads(r.out, sz[1], sz[2], pic)
  <2>1. CASE ~d.augmented
    <3>1. r = Decode(img, part, sz[2], sz[1])
      BY <2>1
    <3>2. pic = PictureOf(img)
      BY <1>1, <2>1, PlainIntended
    <3> HIDE DEF r, pic
    <3> QED
      BY <1>1, <1>3, <1>5, <3>1, <3>2, DecodeShows
  <2>2. CASE d.augmented
    <3> DEFINE src == Slice(made.out, Elements(made.h, made.w))
    <3>1. r = IF made.err # "none" THEN Fail(made.err, part)
              ELSE FolderCopy(src, made.h, made.w, part, sz[1], sz[2])
      BY <2>2 DEF PadToFolder
    <3> HIDE DEF r, made
    <3>2. made.err = "none"
      BY <1>5, <3>1 DEF Fail
    <3>3. /\ IsPicture(pic) /\ << pic.h, pic.w >> = IntendedSize(d, img)
          /\ made.h = pic.h /\ made.w = pic.w /\ Holds(src, pic)
          /\ DOMAIN src = 0 .. Elements(pic.h, pic.w) - 1
      <4> DEFINE h == sz[1]
                 w == sz[2]
      <4>1. h \in Nat /\ w \in Nat /\ AugmentedImage(d, img, h, w, doubles, draws).err = "none"
        BY <1>1, <1>3, <1>4, <2>2, <3>2 DEF made
      <4> HIDE DEF h, w, pic, src
      <4>2. Makes(AugmentedImage(d, img, h, w, doubles, draws), Intended(d, img, draws), IntendedSize(d, img))
        BY <1>1, <1>3, <1>4, <2>2, <3>2, <4>1, IntendedIs
      <4>3. Makes(made, pic, IntendedSize(d, img))
        BY <4>2 DEF made, pic, h, w
      <4> QED
        BY <4>3 DEF Makes, src
    <3> HIDE DEF src, pic
    <3>4. pic.h <= sz[1] /\ pic.w <= sz[2]
      BY <1>3, <3>3 DEF Fits
    <3>5. r = FolderCopy(src, pic.h, pic.w, part, sz[1], sz[2])
      BY <3>1, <3>2, <3>3
    <3> QED
      BY <1>3, <1>5, <3>3, <3>4, <3>5, FolderCopyShows
  <2> QED
    BY <1>4, <2>1, <2>2
<1> HIDE DEF r, pic
<1>7. PadsPart(f, part, sz, pic)
  BY <1>5, <1>6 DEF PadsPart
<1> QED
  BY <1>7 DEF f, pic, img

(***************************************************************************)
(* So does that of the tar processor.                                      *)
(***************************************************************************)
LEMMA TarImageShows ==
  ASSUME NEW d, AnyDataset(d), NEW img \in AnyImage, NEW sz \in Nat \X Nat,
         NEW part, IsBuffer(part), Elements(sz[1], sz[2]) <= Cardinality(DOMAIN part), NEW doubles \in Nat,
         NEW draws \in MayDraw(d, img), Fits(IntendedSize(d, img), sz),
         TarImage(d, img, sz, part, doubles, draws).err = "none"
  PROVE  PadsPart(TarImage(d, img, sz, part, doubles, draws), part, sz, Intended(d, img, draws))
<1> DEFINE n == Elements(sz[1], sz[2])
           dest == Slice(part, n)
           made == AugmentedImage(d, img, sz[1], sz[2], doubles, draws)
           pic == Intended(d, img, draws)
           r == IF ~d.augmented THEN Decode(img, dest, sz[2], sz[1]) ELSE PadToTar(made, dest, sz)
           f == TarImage(d, img, sz, part, doubles, draws)
<1>1. f = IF n > Cardinality(DOMAIN part) THEN Closed(Fail("BufferTooSmall", part), n) ELSE Closed(IntoPart(r, part), n)
  BY DEF TarImage
<1>2. sz[1] \in Nat /\ sz[2] \in Nat /\ n \in Nat
  BY ElementsTyped
<1>3. d.pipe \in Seq(AnyStep) /\ d.augmented \in BOOLEAN
  BY DEF AnyDataset
<1>4. IsBuffer(dest) /\ DOMAIN dest = 0 .. n - 1 /\ Cardinality(DOMAIN dest) = n
  <2> HIDE DEF n
  <2> QED
    BY <1>2, SliceIs
<1>5. Returned(r)
  <2>1. Returned(Decode(img, dest, sz[2], sz[1]))
    BY <1>2, DecodeReturned
  <2>2. Returned(PadToTar(made, dest, sz))
    BY <1>2, AugmentedErr, PaddedReturned
  <2> QED
    BY <2>1, <2>2
<1>6. f = Closed(IntoPart(r, part), n) /\ f.err = "none"
  <2>1. ~ (n > Cardinality(DOMAIN part))
    <3>1. Cardinality(DOMAIN part) \in Nat
      BY BufferIs
    <3> HIDE DEF n
    <3>2. n <= Cardinality(DOMAIN part)
      BY DEF n
    <3> QED
      BY <1>2, <3>1, <3>2
  <2> QED
    BY <1>1, <2>1
<1> HIDE DEF f, r, dest
<1>7. r.err = "none" /\ f.out = Overlay(part, r.out) /\ f.n = n
  <2>1. DOMAIN r = {"err", "out"}
    BY <1>5 DEF Returned
  <2> QED
    BY <1>6, <2>1 DEF Closed, IntoPart
<1>8. DOMAIN r.out = DOMAIN dest /\ Pads(r.out, sz[1], sz[2], pic)
  <2>1. CASE ~d.augmented
    <3>1. r = Decode(img, dest, sz[2], sz[1])
      BY <2>1 DEF r
    <3>2. pic = PictureOf(img)
      BY <2>1, PlainIntended
    <3> HIDE DEF pic
    <3> QED
      BY <1>2, <1>4, <1>7, <3>1, <3>2, DecodeShows
  <2>2. CASE d.augmented
    <3> DEFINE src == Slice(made.out, Elements(made.h, made.w))
    <3>1. r = IF made.err # "none" THEN Fail(made.err, dest) ELSE TarCopy(src, made.h, made.w, dest, sz[1], sz[2])
      BY <2>2 DEF PadToTar, r
    <3> HIDE DEF made
    <3>2. made.err = "none"
      BY <1>7, <3>1 DEF Fail
    <3>3. /\ IsPicture(pic) /\ << pic.h, pic.w >> = IntendedSize(d, img)
          /\ made.h = pic.h /\ made.w = pic.w /\ Holds(src, pic)
          /\ DOMAIN src = 0 .. Elements(pic.h, pic.w) - 1
      <4> DEFINE h == sz[1]
                 w == sz[2]
      <4>1. h \in Nat /\ w \in Nat /\ AugmentedImage(d, img, h, w, doubles, draws).err = "none"
        BY <1>2, <1>3, <2>2, <3>2 DEF made
      <4> HIDE DEF h, w, pic, src
      <4>2. Makes(AugmentedImage(d, img, h, w, doubles, draws), Intended(d, img, draws), IntendedSize(d, img))
        BY <1>2, <1>3, <2>2, <3>2, <4>1, IntendedIs
      <4>3. Makes(made, pic, IntendedSize(d, img))
        BY <4>2 DEF made, pic, h, w
      <4> QED
        BY <4>3 DEF Makes, src
    <3> HIDE DEF src, pic
    <3>4. pic.h <= sz[1] /\ pic.w <= sz[2]
      BY <3>3 DEF Fits
    <3>5. r = TarCopy(src, pic.h, pic.w, dest, sz[1], sz[2])
      BY <3>1, <3>2, <3>3
    <3> QED
      BY <1>2, <1>4, <1>7, <3>3, <3>4, <3>5, TarCopyShows
  <2> QED
    BY <1>3, <2>1, <2>2
<1> HIDE DEF pic
<1>9. DOMAIN f.out = DOMAIN part /\ \A i \in 0 .. n - 1 : i \in DOMAIN part /\ f.out[i] = r.out[i]
  <2>1. DOMAIN r.out = 0 .. n - 1
    BY <1>4, <1>8
  <2>2. n <= Cardinality(DOMAIN part)
    OBVIOUS
  <2> HIDE DEF n
  <2> QED
    BY <1>2, <1>7, <2>1, <2>2, OverlayIs
<1>10. Pads(f.out, sz[1], sz[2], pic)
  BY <1>8, <1>9 DEF Pads
<1>11. PadsPart(f, part, sz, pic)
  BY <1>7, <1>9, <1>10 DEF PadsPart
<1> QED
  BY <1>11 DEF f, pic

\* The sizes of the parts of an item.
PartSizes(ls) == [i \in DOMAIN ls |-> AlignedBytes(ls[i])]

(***************************************************************************)
(* The size of an item is the sum of those of its parts, and a part begins *)
(* where those before it end.                                              *)
(***************************************************************************)
LEMMA PartSizesAre ==
  ASSUME NEW ls \in Seq(AnyLayout)
  PROVE  /\ PartSizes(ls) \in Seq(Nat) /\ Len(PartSizes(ls)) = Len(ls)
         /\ ItemSize(ls) = Total(PartSizes(ls))
         /\ \A k \in 1 .. Len(ls) : PartSizes(ls)[k] = AlignedBytes(ls[k]) /\ PartAt(ls, k) = Sums(PartSizes(ls))[k - 1]
<1> DEFINE s == PartSizes(ls)
<1>1. DOMAIN ls = 1 .. Len(ls) /\ Len(ls) \in Nat
  OBVIOUS
<1>2. \A i \in 1 .. Len(ls) : AlignedBytes(ls[i]) \in Nat
  BY LayoutOf, BytesTyped
<1>3. s \in [1 .. Len(ls) -> Nat] /\ \A i \in 1 .. Len(ls) : s[i] = AlignedBytes(ls[i])
  BY <1>1, <1>2 DEF PartSizes
<1>4. s \in Seq(Nat) /\ Len(s) = Len(ls)
  BY <1>1, <1>3, SequenceOf
<1>5. ItemSize(ls) = Total(s)
  BY DEF ItemSize, Map, PartSizes
<1>6. ASSUME NEW k \in 1 .. Len(ls)
      PROVE  PartAt(ls, k) = Sums(s)[k - 1]
  <2> DEFINE before == First(ls, k - 1)
             t == PartSizes(before)
  <2>1. before \in Seq(AnyLayout) /\ Len(before) = k - 1 /\ DOMAIN before = 1 .. k - 1
        /\ \A i \in 1 .. k - 1 : before[i] = ls[i]
    BY DEF First
  <2>2. ItemSize(before) = Total(t)
    BY DEF ItemSize, Map, PartSizes
  <2> HIDE DEF before
  <2>3. t = [i \in 1 .. k - 1 |-> AlignedBytes(ls[i])]
    BY <2>1 DEF PartSizes
  <2>4. t \in [1 .. k - 1 -> Nat] /\ \A i \in 1 .. k - 1 : t[i] = s[i]
    BY <1>2, <1>3, <2>3
  <2> HIDE DEF t, s
  <2>5. t \in Seq(Nat) /\ Len(t) = k - 1
    <3>1. k - 1 \in Nat
      OBVIOUS
    <3> QED
      BY <2>4, <3>1, SequenceOf
  <2>6. Total(t) = Sums(s)[Len(t)]
    <3>1. Len(t) <= Len(s) /\ \A i \in 1 .. Len(t) : t[i] = s[i]
      BY <1>4, <2>4, <2>5
    <3> QED
      BY <1>4, <2>5, <3>1, SumOfPrefix
  <2> QED
    BY <2>2, <2>5, <2>6 DEF PartAt, before
<1> QED
  BY <1>3, <1>4, <1>5, <1>6

(***************************************************************************)
(* Every part has room for its tensor and is inside the item.              *)
(***************************************************************************)
LEMMA PartsAre ==
  ASSUME NEW ls \in Seq(AnyLayout), NEW k \in 1 .. Len(ls)
  PROVE  /\ PartAt(ls, k) \in Nat /\ AlignedBytes(ls[k]) \in Nat /\ TotalBytes(ls[k]) \in Nat /\ ItemSize(ls) \in Nat
         /\ TotalBytes(ls[k]) <= AlignedBytes(ls[k])
         /\ PartAt(ls, k) + AlignedBytes(ls[k]) <= ItemSize(ls)
<1> DEFINE s == PartSizes(ls)
<1>1. /\ s \in Seq(Nat) /\ Len(s) = Len(ls) /\ ItemSize(ls) = Total(s)
      /\ s[k] = AlignedBytes(ls[k]) /\ PartAt(ls, k) = Sums(s)[k - 1]
  BY PartSizesAre
<1>2. TotalBytes(ls[k]) \in Nat /\ AlignedBytes(ls[k]) \in Nat /\ TotalBytes(ls[k]) <= AlignedBytes(ls[k])
  BY LayoutOf, BytesTyped
<1> HIDE DEF s
<1>3. /\ Total(s) = Sums(s)[Len(s)] /\ Total(s) \in Nat /\ Sums(s)[k] = Sums(s)[k - 1] + s[k]
      /\ Sums(s)[k - 1] \in Nat /\ Sums(s)[k] \in Nat
  <2>1. k \in 1 .. Len(s) /\ k - 1 \in 0 .. Len(s) /\ k \in 0 .. Len(s)
    BY <1>1
  <2> QED
    BY <1>1, <2>1, SumsAre
<1>4. Sums(s)[k] <= Sums(s)[Len(s)]
  BY <1>1, SumsGrow
<1> QED
  BY <1>1, <1>2, <1>3, <1>4

(***************************************************************************)
(* A part ends before those that follow it begin.                          *)
(***************************************************************************)
LEMMA PartsApart ==
  ASSUME NEW ls \in Seq(AnyLayout), NEW j \in 1 .. Len(ls), NEW k \in 1 .. Len(ls), j < k
  PROVE  PartAt(ls, j) + AlignedBytes(ls[j]) <= PartAt(ls, k)
<1> DEFINE s == PartSizes(ls)
<1>1. /\ s \in Seq(Nat) /\ Len(s) = Len(ls)
      /\ s[j] = AlignedBytes(ls[j]) /\ PartAt(ls, j) = Sums(s)[j - 1] /\ PartAt(ls, k) = Sums(s)[k - 1]
  BY PartSizesAre
<1> HIDE DEF s
<1>2. Sums(s)[j] = Sums(s)[j - 1] + s[j]
  BY <1>1, SumsAre
<1>3. Sums(s)[j] <= Sums(s)[k - 1]
  <2>1. j \in 0 .. Len(s) /\ k - 1 \in 0 .. Len(s) /\ j <= k - 1
    BY <1>1
  <2> QED
    BY <1>1, <2>1, SumsGrow
<1> QED
  BY <1>1, <1>2, <1>3

-----------------------------------------------------------------------------
(* The writer.                                                             *)

\* A writer of an item of these layouts in a chunk of n cells.
WriterFor(w, ls, n) ==
  /\ DOMAIN w = {"err", "out", "keys", "offset", "size", "written"}
  /\ DOMAIN w.out = 0 .. n - 1
  /\ w.keys = Keys(ls)
  /\ \A k \in DOMAIN ls : w.offset[k] = PartAt(ls, k) /\ w.size[k] = AlignedBytes(ls[k])
  /\ w.written \in [DOMAIN ls -> BOOLEAN]

\* The tensor of the k-th layout of the item at a place shows q.
TensorShows(m, at, ls, k, q) ==
  ShowsTensor([i \in 0 .. TotalBytes(ls[k]) - 1 |-> m[at + PartAt(ls, k) + i]], ls[k].shape, q)

\* What has been written shows what it is to show.
WrittenShow(w, ls, p) == \A k \in DOMAIN ls : w.written[k] => TensorShows(w.out, 0, ls, k, p[k])

\* What a closure leaves in the part of a layout, once the rest is cleared.
LeavesShown(r, l, q) ==
  ShowsTensor([i \in 0 .. TotalBytes(l) - 1 |-> IF i < r.n THEN r.out[i] ELSE Zero], l.shape, q)

(***************************************************************************)
(* A key is found at its layout.                                           *)
(***************************************************************************)
LEMMA KeyFound ==
  ASSUME NEW ls \in Seq(AnyLayout), DistinctKeys(ls), NEW n, NEW w, WriterFor(w, ls, n), NEW k \in DOMAIN ls
  PROVE  HasKey(w, ls[k].key) /\ KeyPos(w, ls[k].key) = k
<1>1. DOMAIN w.keys = DOMAIN ls /\ \A j \in DOMAIN ls : w.keys[j] = ls[j].key
  BY DEF WriterFor, Keys
<1>2. HasKey(w, ls[k].key)
  BY <1>1 DEF HasKey
<1>3. KeyPos(w, ls[k].key) \in DOMAIN ls /\ ls[KeyPos(w, ls[k].key)].key = ls[k].key
  BY <1>1 DEF KeyPos
<1> QED
  BY <1>2, <1>3 DEF DistinctKeys

(***************************************************************************)
(* A part is a buffer of its size.                                         *)
(***************************************************************************)
LEMMA KeyPartIs ==
  ASSUME NEW ls \in Seq(AnyLayout), DistinctKeys(ls), NEW n, NEW w, WriterFor(w, ls, n), NEW k \in DOMAIN ls
  PROVE  LET part == KeyPart(w, ls[k].key)
         IN  /\ DOMAIN part = 0 .. AlignedBytes(ls[k]) - 1 /\ IsBuffer(part) /\ Cardinality(DOMAIN part) = AlignedBytes(ls[k])
<1>1. AlignedBytes(ls[k]) \in Nat
  <2>1. k \in 1 .. Len(ls)
    OBVIOUS
  <2> QED
    BY <2>1, PartsAre
<1>2. KeyPos(w, ls[k].key) = k /\ w.size[k] = AlignedBytes(ls[k])
  BY KeyFound DEF WriterFor
<1>3. DOMAIN KeyPart(w, ls[k].key) = 0 .. AlignedBytes(ls[k]) - 1
  BY <1>2 DEF KeyPart, PartOf
<1>4. Cardinality(0 .. AlignedBytes(ls[k]) - 1) = AlignedBytes(ls[k])
  BY <1>1, FS_Interval
<1> QED
  BY <1>1, <1>3, <1>4 DEF IsBuffer

\* The cells from a place on are those of a buffer.
Carries(m, at, cells, n) == \A i \in 0 .. n - 1 : m[at + i] = cells[i]

(***************************************************************************)
(* Putting cells into a part changes no other.                             *)
(***************************************************************************)
LEMMA PutShows ==
  ASSUME NEW ls \in Seq(AnyLayout), NEW n \in Nat, ItemSize(ls) <= n, NEW w, WriterFor(w, ls, n),
         NEW k \in DOMAIN ls, NEW part, DOMAIN part = 0 .. AlignedBytes(ls[k]) - 1
  PROVE  /\ WriterFor(Put(w, k, part), ls, n)
         /\ Put(w, k, part).err = w.err /\ Put(w, k, part).written = w.written
         /\ Carries(Put(w, k, part).out, PartAt(ls, k), part, AlignedBytes(ls[k]))
         /\ \A j \in DOMAIN ls \ {k} : \A i \in 0 .. AlignedBytes(ls[j]) - 1 :
              Put(w, k, part).out[PartAt(ls, j) + i] = w.out[PartAt(ls, j) + i]
<1> DEFINE at == PartAt(ls, k)
           m == AlignedBytes(ls[k])
           moved == MovedTo(at, part)
           out == Overlay(w.out, moved)
<1>1. at \in Nat /\ m \in Nat /\ at + m <= ItemSize(ls) /\ ItemSize(ls) \in Nat
  BY PartsAre
<1>2. w.offset[k] = at /\ DOMAIN w.out = 0 .. n - 1
  BY DEF WriterFor
<1>3. /\ DOMAIN moved = { at + j : j \in 0 .. m - 1 }
      /\ \A i \in 0 .. m - 1 : at + i \in DOMAIN moved /\ moved[at + i] = part[i]
  <2> HIDE DEF at, m
  <2>1. DOMAIN moved = { at + j : j \in DOMAIN part } /\ \A i \in { at + j : j \in DOMAIN part } : moved[i] = part[i - at]
    BY DEF MovedTo
  <2> HIDE DEF moved
  <2>2. DOMAIN part = 0 .. m - 1
    BY DEF m
  <2>3. \A i \in 0 .. m - 1 : (at + i) - at = i
    BY <1>1
  <2> QED
    BY <2>1, <2>2, <2>3
<1> HIDE DEF moved, at, m
<1>4. Put(w, k, part) = [w EXCEPT !.out = out]
  BY <1>2 DEF Put, moved
<1>5. /\ DOMAIN out = 0 .. n - 1
      /\ \A i \in 0 .. n - 1 : out[i] = IF i \in DOMAIN moved THEN moved[i] ELSE w.out[i]
  BY <1>2 DEF Overlay
<1> HIDE DEF out
<1> DEFINE p == Put(w, k, part)
<1>6. /\ DOMAIN p = DOMAIN w /\ p.err = w.err /\ p.out = out /\ p.keys = w.keys /\ p.offset = w.offset
      /\ p.size = w.size /\ p.written = w.written
  BY <1>4 DEF WriterFor
<1> HIDE DEF p
<1>7. WriterFor(p, ls, n)
  BY <1>5, <1>6 DEF WriterFor
<1>8. ASSUME NEW i \in 0 .. m - 1
      PROVE  out[at + i] = part[i]
  <2>1. at + i \in 0 .. n - 1
    BY <1>1
  <2> QED
    BY <1>3, <1>5, <2>1
<1>9. ASSUME NEW j \in DOMAIN ls \ {k}, NEW i \in 0 .. AlignedBytes(ls[j]) - 1
      PROVE  out[PartAt(ls, j) + i] = w.out[PartAt(ls, j) + i]
  <2> DEFINE a == PartAt(ls, j)
             b == AlignedBytes(ls[j])
  <2>1. a \in Nat /\ b \in Nat /\ a + b <= ItemSize(ls)
    BY PartsAre
  <2>2. a + b <= at \/ at + m <= a
    <3>1. j < k \/ k < j
      OBVIOUS
    <3>2. j < k => a + b <= at
      BY PartsApart DEF at
    <3>3. k < j => at + m <= a
      BY PartsApart DEF at, m
    <3> HIDE DEF a, b
    <3> QED
      BY <3>1, <3>2, <3>3
  <2>3. i \in 0 .. b - 1
    OBVIOUS
  <2> HIDE DEF a, b
  <2>4. a + i \notin DOMAIN moved
    <3> SUFFICES ASSUME NEW y \in 0 .. m - 1, a + i = at + y PROVE FALSE
      BY <1>3
    <3> QED
      BY <1>1, <2>1, <2>2, <2>3
  <2>5. a + i \in 0 .. n - 1
    BY <1>1, <2>1, <2>3
  <2>6. out[a + i] = w.out[a + i]
    BY <1>5, <2>4, <2>5
  <2> QED
    BY <2>6 DEF a
<1> QED
  BY <1>6, <1>7, <1>8, <1>9 DEF p, at, m, Carries

(***************************************************************************)
(* A tensor shows what it did where its cells are the same.                *)
(***************************************************************************)
LEMMA TensorStays ==
  ASSUME NEW ls, NEW k, NEW q, NEW m, NEW at, NEW m2, NEW at2, TensorShows(m, at, ls, k, q),
         \A i \in 0 .. TotalBytes(ls[k]) - 1 : m2[at2 + PartAt(ls, k) + i] = m[at + PartAt(ls, k) + i]
  PROVE  TensorShows(m2, at2, ls, k, q)
<1>1. [i \in 0 .. TotalBytes(ls[k]) - 1 |-> m2[at2 + PartAt(ls, k) + i]] =
        [i \in 0 .. TotalBytes(ls[k]) - 1 |-> m[at + PartAt(ls, k) + i]]
  OBVIOUS
<1> QED
  BY <1>1 DEF TensorShows

(***************************************************************************)
(* A tensor shows what its closure left in its part.                       *)
(***************************************************************************)
LEMMA LeftShows ==
  ASSUME NEW ls \in Seq(AnyLayout), NEW k \in DOMAIN ls, NEW r, NEW q, LeavesShown(r, ls[k], q), NEW m,
         \A i \in 0 .. AlignedBytes(ls[k]) - 1 : m[PartAt(ls, k) + i] = IF i < r.n THEN r.out[i] ELSE Zero
  PROVE  TensorShows(m, 0, ls, k, q)
<1>1. /\ PartAt(ls, k) \in Nat /\ AlignedBytes(ls[k]) \in Nat /\ TotalBytes(ls[k]) \in Nat
      /\ TotalBytes(ls[k]) <= AlignedBytes(ls[k])
  BY PartsAre
<1>2. \A i \in 0 .. TotalBytes(ls[k]) - 1 : m[0 + PartAt(ls, k) + i] = IF i < r.n THEN r.out[i] ELSE Zero
  BY <1>1
<1>3. [i \in 0 .. TotalBytes(ls[k]) - 1 |-> m[0 + PartAt(ls, k) + i]] =
        [i \in 0 .. TotalBytes(ls[k]) - 1 |-> IF i < r.n THEN r.out[i] ELSE Zero]
  BY <1>2
<1> QED
  BY <1>3 DEF TensorShows, LeavesShown

(***************************************************************************)
(* A writer that refuses keeps what has been written.                      *)
(***************************************************************************)
LEMMA RefuseShows ==
  ASSUME NEW ls, NEW n, NEW w, WriterFor(w, ls, n), NEW p, WrittenShow(w, ls, p), NEW e
  PROVE  /\ WriterFor(Refuse(w, e), ls, n) /\ WrittenShow(Refuse(w, e), ls, p)
         /\ Refuse(w, e).written = w.written /\ Refuse(w, e).err = e
<1> DEFINE v == Refuse(w, e)
<1>1. /\ DOMAIN v = DOMAIN w /\ v.err = e /\ v.out = w.out /\ v.keys = w.keys /\ v.offset = w.offset
      /\ v.size = w.size /\ v.written = w.written
  BY DEF Refuse, WriterFor
<1> HIDE DEF v
<1>2. WriterFor(v, ls, n) /\ WrittenShow(v, ls, p)
  BY <1>1 DEF WriterFor, WrittenShow
<1> QED
  BY <1>1, <1>2 DEF v

(***************************************************************************)
(* What a closure leaves in a part that is not written yet changes nothing *)
(* that is.                                                                *)
(***************************************************************************)
LEMMA PutKeeps ==
  ASSUME NEW ls \in Seq(AnyLayout), NEW n \in Nat, ItemSize(ls) <= n, NEW w, WriterFor(w, ls, n),
         NEW p, WrittenShow(w, ls, p), NEW k \in DOMAIN ls, ~w.written[k],
         NEW part, DOMAIN part = 0 .. AlignedBytes(ls[k]) - 1
  PROVE  WriterFor(Put(w, k, part), ls, n) /\ WrittenShow(Put(w, k, part), ls, p)
<1> DEFINE v == Put(w, k, part)
<1>1. /\ WriterFor(v, ls, n) /\ v.written = w.written
      /\ \A j \in DOMAIN ls \ {k} : \A i \in 0 .. AlignedBytes(ls[j]) - 1 :
           v.out[PartAt(ls, j) + i] = w.out[PartAt(ls, j) + i]
  BY PutShows
<1> HIDE DEF v
<1>2. ASSUME NEW j \in DOMAIN ls, w.written[j]
      PROVE  TensorShows(v.out, 0, ls, j, p[j])
  <2>1. j # k /\ TensorShows(w.out, 0, ls, j, p[j])
    BY <1>2 DEF WrittenShow
  <2>2. /\ PartAt(ls, j) \in Nat /\ AlignedBytes(ls[j]) \in Nat /\ TotalBytes(ls[j]) \in Nat
        /\ TotalBytes(ls[j]) <= AlignedBytes(ls[j])
    BY PartsAre
  <2>3. ASSUME NEW i \in 0 .. TotalBytes(ls[j]) - 1
        PROVE  v.out[0 + PartAt(ls, j) + i] = w.out[0 + PartAt(ls, j) + i]
    <3> DEFINE a == PartAt(ls, j)
    <3>1. i \in 0 .. AlignedBytes(ls[j]) - 1 /\ a \in Nat
      BY <2>2
    <3>2. v.out[a + i] = w.out[a + i]
      BY <1>1, <2>1, <3>1
    <3> HIDE DEF a
    <3>3. 0 + a + i = a + i
      BY <3>1
    <3> QED
      BY <3>2, <3>3 DEF a
  <2> QED
    BY <2>1, <2>3, TensorStays
<1>3. WrittenShow(v, ls, p)
  BY <1>1, <1>2 DEF WrittenShow
<1> QED
  BY <1>1, <1>3 DEF v

\* Whether a write of the k-th tensor that is not written yet is taken.
Taken(r, l) == r.err = "none" /\ ~(r.n > AlignedBytes(l))

\* What a closure that is taken leaves is what the tensor is to show.
Closes(w, ls, p, k, r) == ~w.written[k] /\ Taken(r, ls[k]) => LeavesShown(r, ls[k], p[k])

(***************************************************************************)
(* After a write, taken or refused, all that is written shows what it is   *)
(* to show; a tensor is written once a write of its key has been taken.    *)
(***************************************************************************)
LEMMA WriteShows ==
  ASSUME NEW ls \in Seq(AnyLayout), DistinctKeys(ls), NEW n \in Nat, ItemSize(ls) <= n, NEW w, WriterFor(w, ls, n),
         NEW p, WrittenShow(w, ls, p), NEW k \in DOMAIN ls,
         NEW r, DOMAIN r.out = 0 .. AlignedBytes(ls[k]) - 1, Closes(w, ls, p, k, r)
  PROVE  /\ WriterFor(Write(w, ls[k].key, r), ls, n) /\ WrittenShow(Write(w, ls[k].key, r), ls, p)
         /\ Write(w, ls[k].key, r).written = [w.written EXCEPT ![k] = w.written[k] \/ Taken(r, ls[k])]
<1> DEFINE key == ls[k].key
           v == Write(w, key, r)
           part == [i \in DOMAIN r.out |-> IF i < r.n THEN r.out[i] ELSE Zero]
<1>1. HasKey(w, key) /\ KeyPos(w, key) = k /\ w.size[k] = AlignedBytes(ls[k]) /\ w.written \in [DOMAIN ls -> BOOLEAN]
  BY KeyFound DEF WriterFor
<1>2. CASE w.written[k]
  <2>1. v = Refuse(w, "KeyExists")
    BY <1>1, <1>2 DEF Write
  <2>2. WriterFor(v, ls, n) /\ WrittenShow(v, ls, p) /\ v.written = w.written
    BY <2>1, RefuseShows
  <2> HIDE DEF v
  <2>3. v.written = [w.written EXCEPT ![k] = w.written[k] \/ Taken(r, ls[k])]
    <3>1. (w.written[k] \/ Taken(r, ls[k])) = w.written[k]
      BY <1>1, <1>2
    <3> QED
      BY <1>1, <2>2, <3>1
  <2> QED
    BY <2>2, <2>3 DEF v
<1>3. CASE ~w.written[k] /\ ~Taken(r, ls[k])
  <2>1. v = IF r.err # "none" THEN Refuse(Put(w, k, r.out), r.err) ELSE Refuse(Put(w, k, r.out), "BufferOutOfBounds")
    BY <1>1, <1>3 DEF Write, AfterClosure, Taken
  <2>2. WriterFor(Put(w, k, r.out), ls, n) /\ WrittenShow(Put(w, k, r.out), ls, p)
    BY <1>3, PutKeeps
  <2>3. Put(w, k, r.out).written = w.written
    BY PutShows
  <2>4. WriterFor(v, ls, n) /\ WrittenShow(v, ls, p) /\ v.written = w.written
    <3> DEFINE u == Put(w, k, r.out)
    <3> HIDE DEF u, v
    <3>1. v = Refuse(u, r.err) \/ v = Refuse(u, "BufferOutOfBounds")
      BY <2>1 DEF u
    <3>2. WriterFor(u, ls, n) /\ WrittenShow(u, ls, p) /\ u.written = w.written
      BY <2>2, <2>3 DEF u
    <3> QED
      BY <3>1, <3>2, RefuseShows
  <2> HIDE DEF v
  <2>5. v.written = [w.written EXCEPT ![k] = w.written[k] \/ Taken(r, ls[k])]
    <3>1. (w.written[k] \/ Taken(r, ls[k])) = w.written[k]
      BY <1>1, <1>3
    <3> QED
      BY <1>1, <2>4, <3>1
  <2> QED
    BY <2>4, <2>5 DEF v
<1>4. CASE ~w.written[k] /\ Taken(r, ls[k])
  <2> DEFINE u == Put(w, k, part)
  <2>1. v = [u EXCEPT !.written[k] = TRUE]
    BY <1>1, <1>4 DEF Write, AfterClosure, Taken
  <2>2. DOMAIN part = 0 .. AlignedBytes(ls[k]) - 1
    OBVIOUS
  <2>3. \A i \in 0 .. AlignedBytes(ls[k]) - 1 : part[i] = IF i < r.n THEN r.out[i] ELSE Zero
    OBVIOUS
  <2> HIDE DEF part
  <2>4. /\ WriterFor(u, ls, n) /\ u.written = w.written
        /\ Carries(u.out, PartAt(ls, k), part, AlignedBytes(ls[k]))
    <3> DEFINE cells == part
    <3>1. DOMAIN cells = 0 .. AlignedBytes(ls[k]) - 1
      BY <2>2
    <3> HIDE DEF cells
    <3>2. /\ WriterFor(Put(w, k, cells), ls, n) /\ Put(w, k, cells).written = w.written
          /\ Carries(Put(w, k, cells).out, PartAt(ls, k), cells, AlignedBytes(ls[k]))
      BY <3>1, PutShows
    <3> QED
      BY <3>2 DEF cells
  <2>5. WrittenShow(u, ls, p)
    BY <1>4, <2>2, PutKeeps
  <2> HIDE DEF u
  <2>6. TensorShows(u.out, 0, ls, k, p[k])
    <3>1. LeavesShown(r, ls[k], p[k])
      BY <1>4 DEF Closes
    <3> DEFINE q == p[k]
               m == u.out
    <3>2. \A i \in 0 .. AlignedBytes(ls[k]) - 1 : m[PartAt(ls, k) + i] = IF i < r.n THEN r.out[i] ELSE Zero
      BY <2>3, <2>4 DEF Carries
    <3>3. LeavesShown(r, ls[k], q)
      BY <3>1
    <3> HIDE DEF q, m
    <3>4. TensorShows(m, 0, ls, k, q)
      BY <3>2, <3>3, LeftShows
    <3> QED
      BY <3>4 DEF q, m
  <2> DEFINE written == [w.written EXCEPT ![k] = TRUE]
  <2>7. /\ DOMAIN v = DOMAIN u /\ v.out = u.out /\ v.keys = u.keys /\ v.offset = u.offset
        /\ v.size = u.size /\ v.written = written
    <3> HIDE DEF v
    <3> QED
      BY <2>1, <2>4 DEF WriterFor
  <2>8. written \in [DOMAIN ls -> BOOLEAN] /\ written[k] /\ \A j \in DOMAIN ls : j # k => written[j] = w.written[j]
    BY <1>1
  <2>9. written = [w.written EXCEPT ![k] = w.written[k] \/ Taken(r, ls[k])]
    <3>1. (w.written[k] \/ Taken(r, ls[k])) = TRUE
      BY <1>4
    <3> QED
      BY <3>1
  <2> HIDE DEF v, written
  <2>10. WriterFor(v, ls, n)
    BY <2>4, <2>7, <2>8 DEF WriterFor
  <2>11. ASSUME NEW j \in DOMAIN ls, v.written[j]
         PROVE  TensorShows(v.out, 0, ls, j, p[j])
    <3>1. CASE j = k
      BY <2>6, <2>7, <3>1
    <3>2. CASE j # k
      BY <2>4, <2>5, <2>7, <2>8, <2>11, <3>2 DEF WrittenShow
    <3> QED
      BY <3>1, <3>2
  <2>12. WrittenShow(v, ls, p)
    BY <2>11 DEF WrittenShow
  <2> QED
    BY <2>7, <2>9, <2>10, <2>12 DEF v
<1> QED
  BY <1>2, <1>3, <1>4

(***************************************************************************)
(* An item of which every tensor is written shows what it is to show.      *)
(***************************************************************************)
LEMMA FinalizeShows ==
  ASSUME NEW ls \in Seq(AnyLayout), NEW n, NEW w, WriterFor(w, ls, n), NEW p, WrittenShow(w, ls, p), Len(p) = Len(ls),
         Finalize(w).err = "none"
  PROVE  ShowsItem(w.out, 0, ls, p)
<1>1. DOMAIN w.keys = DOMAIN ls
  BY DEF WriterFor, Keys
<1>2. \A k \in DOMAIN ls : w.written[k]
  BY <1>1 DEF Finalize, Refuse, WriterFor
<1>3. \A k \in DOMAIN ls : TensorShows(w.out, 0, ls, k, p[k])
  BY <1>2 DEF WrittenShow
<1> QED
  BY <1>3 DEF ShowsItem, TensorShows

-----------------------------------------------------------------------------
(* The items of the datasets.                                              *)

(***************************************************************************)
(* A part with a padded image shows the image.                             *)
(***************************************************************************)
LEMMA PadsShows ==
  ASSUME NEW l, NEW h \in Nat, NEW w \in Nat, l.shape = << 3, h, w >>, DtypeCells[l.dt] = 1,
         NEW r, NEW part, NEW sz, sz = << h, w >>, NEW pic, PadsPart(r, part, sz, pic)
  PROVE  LeavesShown(r, l, Shown("picture", pic, << >>))
<1> DEFINE n == Elements(h, w)
           p == Shown("picture", pic, << >>)
           cells == [i \in 0 .. n - 1 |-> IF i < r.n THEN r.out[i] ELSE Zero]
<1>1. sz[1] = h /\ sz[2] = w
  OBVIOUS
<1>2. r.n = n /\ Pads(r.out, h, w, pic)
  BY <1>1 DEF PadsPart
<1>3. n \in Nat
  BY DEF Elements, Channels
<1>4. TotalBytes(l) = n
  <2>1. Product(<< 3, h, w >>) = 3 * h * w
    BY ProductOfThree
  <2>2. 3 * h * w \in Nat
    OBVIOUS
  <2>3. TotalBytes(l) = 3 * h * w * 1
    BY <2>1 DEF TotalBytes, TotalElements
  <2> QED
    BY <2>2, <2>3 DEF Elements, Channels
<1> HIDE DEF n
<1>5. /\ pic.h <= h /\ pic.w <= w /\ DOMAIN cells = 0 .. n - 1
      /\ \A i \in 0 .. n - 1 : cells[i] = IF RowOf(i, h, w) < pic.h /\ ColumnOf(i, w) < pic.w
                                          THEN pic.at[<< ChannelOf(i, h, w), RowOf(i, h, w), ColumnOf(i, w) >>] ELSE Zero
  <2>1. \A i \in 0 .. n - 1 : i < n
    BY <1>3
  <2> QED
    BY <1>2, <2>1 DEF Pads, Element, n
<1> HIDE DEF cells
<1>6. l.shape[2] = h /\ l.shape[3] = w
  OBVIOUS
<1>7. ShowsPicture(cells, l.shape, pic)
  BY <1>5, <1>6 DEF ShowsPicture
<1>8. p.is = "picture" /\ p.pic = pic
  BY DEF Shown
<1> HIDE DEF p
<1>9. ShowsTensor(cells, l.shape, p)
  BY <1>7, <1>8 DEF ShowsTensor
<1> QED
  BY <1>4, <1>9 DEF LeavesShown, cells, p

(***************************************************************************)
(* A label closure shows the label.                                        *)
(***************************************************************************)
LEMMA LabelLeaves ==
  ASSUME NEW l, l.shape = << >>, l.dt = LabelDtype, NEW label, NEW part, NEW n \in Nat, DOMAIN part = 0 .. n - 1, TotalBytes(l) <= n
  PROVE  LeavesShown(PutLabel(label, part), l, LabelShown(label))
<1> DEFINE c == DtypeCells[LabelDtype]
           r == PutLabel(label, part)
           flat == [i \in 0 .. c - 1 |-> LabelCell(label, i)]
           p == LabelShown(label)
           cells == [i \in 0 .. c - 1 |-> IF i < r.n THEN r.out[i] ELSE Zero]
<1>1. c \in Nat
  BY BatchAssumption, LayoutAssumption
<1>2. TotalBytes(l) = c
  <2>1. TotalBytes(l) = 1 * c
    BY ProductOfNone DEF TotalBytes, TotalElements
  <2> HIDE DEF c
  <2> QED
    BY <1>1, <2>1
<1>3. r.n = c /\ \A i \in 0 .. n - 1 : r.out[i] = IF i < c THEN LabelCell(label, i) ELSE part[i]
  BY DEF PutLabel
<1>4. p.is = "flat" /\ p.flat = flat
  BY DEF LabelShown, Shown
<1>5. c <= n
  BY <1>2
<1> HIDE DEF c, r, p
<1>6. \A i \in 0 .. c - 1 : i < r.n /\ i < c /\ i \in 0 .. n - 1
  BY <1>1, <1>3, <1>5
<1>7. cells = flat
  BY <1>3, <1>6
<1>8. DOMAIN flat = 0 .. c - 1
  OBVIOUS
<1> HIDE DEF cells, flat
<1>9. ShowsFlat(cells, flat)
  BY <1>7 DEF ShowsFlat
<1>10. ShowsTensor(cells, l.shape, p)
  BY <1>4, <1>9 DEF ShowsTensor
<1> QED
  BY <1>2, <1>10 DEF LeavesShown, cells, c, r, p

(***************************************************************************)
(* A write that is taken was made by a closure that did not fail.          *)
(***************************************************************************)
LEMMA WriteTakes ==
  ASSUME NEW w, NEW key, NEW r, Write(w, key, r).err = "none", "err" \in DOMAIN w
  PROVE  r.err = "none"
<1> SUFFICES ASSUME r.err # "none" PROVE FALSE
  OBVIOUS
<1>1. ASSUME NEW v, "err" \in DOMAIN v, NEW e
      PROVE  Refuse(v, e).err = e
  BY <1>1 DEF Refuse
<1>2. ASSUME NEW k, NEW part
      PROVE  "err" \in DOMAIN Put(w, k, part)
  BY DEF Put
<1> QED
  BY <1>1, <1>2 DEF Write

\* What the closure of an image leaves, where it does not fail.
Lands(r, l, q) == r.err = "none" => DOMAIN r.out = 0 .. AlignedBytes(l) - 1 /\ LeavesShown(r, l, q)

(***************************************************************************)
(* The image and then the label: what has been written shows them, if both *)
(* are.                                                                    *)
(***************************************************************************)
LEMMA BothShow ==
  ASSUME NEW ls, ImageAndLabel(ls), NEW n \in Nat, ItemSize(ls) <= n, NEW w, WriterFor(w, ls, n),
         NEW p, WrittenShow(w, ls, p), NEW label, p[2] = LabelShown(label),
         NEW r, Lands(r, ls[1], p[1]), ThenLabel(Write(w, "image", r), label).err = "none"
  PROVE  /\ WriterFor(ThenLabel(Write(w, "image", r), label), ls, n)
         /\ WrittenShow(ThenLabel(Write(w, "image", r), label), ls, p)
<1> DEFINE v == Write(w, "image", r)
           put == PutLabel(label, KeyPart(v, "label"))
<1>1. /\ ls \in Seq(AnyLayout) /\ Len(ls) = 2 /\ DOMAIN ls = 1 .. 2 /\ ls[1].key = "image" /\ ls[2].key = "label"
      /\ Len(ls[2].shape) = 0 /\ ls[2].dt = LabelDtype
  BY DEF ImageAndLabel
<1>2. DistinctKeys(ls)
  <2>1. \A j \in 1 .. 2 : j = 1 \/ j = 2
    OBVIOUS
  <2>2. "image" # "label"
    OBVIOUS
  <2> QED
    BY <1>1, <2>1, <2>2 DEF DistinctKeys
<1>3. ThenLabel(v, label) = IF v.err # "none" THEN v ELSE Write(v, "label", put)
  BY DEF ThenLabel
<1> HIDE DEF v, put
<1>4. v.err = "none"
  BY <1>3 DEF v
<1>5. r.err = "none"
  BY <1>4, WriteTakes DEF v, WriterFor
<1>6. WriterFor(v, ls, n) /\ WrittenShow(v, ls, p)
  <2>1. 1 \in DOMAIN ls /\ DOMAIN r.out = 0 .. AlignedBytes(ls[1]) - 1
    BY <1>1, <1>5 DEF Lands
  <2>2. Closes(w, ls, p, 1, r)
    BY <1>5 DEF Closes, Lands
  <2>3. WriterFor(Write(w, ls[1].key, r), ls, n) /\ WrittenShow(Write(w, ls[1].key, r), ls, p)
    BY <1>1, <1>2, <2>1, <2>2, WriteShows
  <2> QED
    BY <1>1, <2>3 DEF v
<1>7. WriterFor(Write(v, "label", put), ls, n) /\ WrittenShow(Write(v, "label", put), ls, p)
  <2> DEFINE part == KeyPart(v, "label")
             c == AlignedBytes(ls[2])
  <2>1. 2 \in DOMAIN ls
    BY <1>1
  <2>2. DOMAIN part = 0 .. c - 1
    BY <1>1, <1>2, <1>6, <2>1, KeyPartIs
  <2>3. c \in Nat /\ TotalBytes(ls[2]) <= c
    BY <1>1, <2>1, PartsAre
  <2>4. ls[2].shape = << >>
    <3>1. ls[2].shape \in Seq(Nat)
      BY <1>1, <2>1, LayoutOf
    <3> QED
      BY <1>1, <3>1
  <2> HIDE DEF part, c
  <2>5. LeavesShown(put, ls[2], p[2])
    <3>1. LeavesShown(PutLabel(label, part), ls[2], LabelShown(label))
      BY <1>1, <2>2, <2>3, <2>4, LabelLeaves
    <3> QED
      BY <3>1 DEF put, part
  <2>6. DOMAIN put.out = 0 .. AlignedBytes(ls[2]) - 1
    BY <2>2 DEF put, part, PutLabel, c
  <2>7. Closes(v, ls, p, 2, put)
    BY <2>5 DEF Closes
  <2>8. WriterFor(Write(v, ls[2].key, put), ls, n) /\ WrittenShow(Write(v, ls[2].key, put), ls, p)
    BY <1>1, <1>2, <1>6, <2>1, <2>6, <2>7, WriteShows
  <2> QED
    BY <1>1, <2>8
<1> QED
  BY <1>3, <1>4, <1>7 DEF v

(***************************************************************************)
(* The part of an image has room for all of its elements.                  *)
(***************************************************************************)
LEMMA ImagePartIs ==
  ASSUME NEW ls, ImageAndLabel(ls), NEW h \in Nat, NEW wd \in Nat, ls[1].shape = << 3, h, wd >>,
         NEW n, NEW w, WriterFor(w, ls, n)
  PROVE  /\ DOMAIN KeyPart(w, "image") = 0 .. AlignedBytes(ls[1]) - 1 /\ IsBuffer(KeyPart(w, "image"))
         /\ Cardinality(DOMAIN KeyPart(w, "image")) = AlignedBytes(ls[1])
         /\ Elements(h, wd) <= AlignedBytes(ls[1])
<1> DEFINE part == KeyPart(w, "image")
<1>1. ls \in Seq(AnyLayout) /\ 1 \in DOMAIN ls /\ ls[1].key = "image" /\ DistinctKeys(ls)
  <2>1. /\ ls \in Seq(AnyLayout) /\ Len(ls) = 2 /\ DOMAIN ls = 1 .. 2 /\ ls[1].key = "image" /\ ls[2].key = "label"
    BY DEF ImageAndLabel
  <2>2. \A j \in 1 .. 2 : j = 1 \/ j = 2
    OBVIOUS
  <2>3. "image" # "label"
    OBVIOUS
  <2> QED
    BY <2>1, <2>2, <2>3 DEF DistinctKeys
<1>2. DOMAIN part = 0 .. AlignedBytes(ls[1]) - 1 /\ IsBuffer(part) /\ Cardinality(DOMAIN part) = AlignedBytes(ls[1])
  BY <1>1, KeyPartIs
<1>3. TotalBytes(ls[1]) <= AlignedBytes(ls[1])
  BY <1>1, PartsAre
<1>4. Elements(h, wd) <= TotalBytes(ls[1]) /\ Elements(h, wd) \in Nat /\ TotalBytes(ls[1]) \in Nat
  <2> DEFINE a == 3 * h * wd
             c == DtypeCells[ls[1].dt]
  <2>1. Product(<< 3, h, wd >>) = a /\ a \in Nat
    BY ProductOfThree
  <2>2. c \in Nat \ {0}
    <3>1. ls[1] \in AnyLayout
      BY <1>1
    <3> QED
      BY <3>1, LayoutAssumption DEF AnyLayout
  <2>3. TotalBytes(ls[1]) = a * c /\ Elements(h, wd) = a
    BY <2>1 DEF TotalBytes, TotalElements, Elements, Channels
  <2> HIDE DEF a, c
  <2>4. a * 1 <= a * c /\ a * c \in Nat
    <3>1. a <= a /\ 1 <= c
      BY <2>1, <2>2
    <3> QED
      BY <2>1, <2>2, <3>1, ProductsGrow
  <2>5. a * 1 = a
    BY <2>1
  <2> QED
    BY <2>1, <2>3, <2>4, <2>5
<1>5. Elements(h, wd) <= AlignedBytes(ls[1])
  <2>1. AlignedBytes(ls[1]) \in Nat
    BY <1>1, PartsAre
  <2> QED
    BY <1>3, <1>4, <2>1
<1> QED
  BY <1>2, <1>5

\* What an image and its label are to show.
PairShown(d, img, draws, label) == << Shown("picture", Intended(d, img, draws), << >>), LabelShown(label) >>

(***************************************************************************)
(* The image of a folder, and its label.                                   *)
(***************************************************************************)
LEMMA FolderWriteShows ==
  ASSUME NEW d, AnyDataset(d), DtypeCells[d.dt] = 1, NEW idx \in DOMAIN Samples(d.files), NEW sz \in Nat \X Nat,
         Fits(IntendedSize(d, Samples(d.files)[idx].img), sz), NEW draws \in MayDraw(d, Samples(d.files)[idx].img),
         NEW n \in Nat, ItemSize(FolderLayouts(d, sz)) <= n, NEW w, WriterFor(w, FolderLayouts(d, sz), n),
         WrittenShow(w, FolderLayouts(d, sz), PairShown(d, Samples(d.files)[idx].img, draws, Samples(d.files)[idx].label)),
         NEW doubles \in Nat, FolderWrite(d, idx, sz, w, doubles, draws).err = "none"
  PROVE  /\ WriterFor(FolderWrite(d, idx, sz, w, doubles, draws), FolderLayouts(d, sz), n)
         /\ WrittenShow(FolderWrite(d, idx, sz, w, doubles, draws), FolderLayouts(d, sz),
                        PairShown(d, Samples(d.files)[idx].img, draws, Samples(d.files)[idx].label))
<1> DEFINE img == Samples(d.files)[idx].img
           label == Samples(d.files)[idx].label
           ls == FolderLayouts(d, sz)
           p == PairShown(d, img, draws, label)
           part == KeyPart(w, "image")
           r == FolderImage(d, idx, sz, part, doubles, draws)
           pic == Intended(d, img, draws)
           h == sz[1]
           wd == sz[2]
<1>1. h \in Nat /\ wd \in Nat /\ sz = << h, wd >> /\ d.dt \in DOMAIN DtypeCells
  BY DEF AnyDataset
<1>2. ImageAndLabel(ls) /\ ls[1].shape = << 3, h, wd >> /\ ls[1].dt = d.dt
  <2> HIDE DEF h, wd
  <2>1. ls = << ImageLayout(d.dt, h, wd), LabelLayout >>
    BY DEF FolderLayouts, h, wd
  <2> HIDE DEF ls
  <2>2. ImageLayout(d.dt, h, wd).shape = << 3, h, wd >> /\ ImageLayout(d.dt, h, wd).dt = d.dt
    BY <1>1, ImageLayoutTyped
  <2> QED
    BY <1>1, <2>1, <2>2, ImageAndLabelTyped
<1>3. p[1] = Shown("picture", pic, << >>) /\ p[2] = LabelShown(label)
  BY DEF PairShown
<1>4. WriterFor(w, ls, n) /\ WrittenShow(w, ls, p) /\ ItemSize(ls) <= n
  OBVIOUS
<1>5. FolderWrite(d, idx, sz, w, doubles, draws) = ThenLabel(Write(w, "image", r), label)
  BY DEF FolderWrite
<1> HIDE DEF p, ls
<1>6. /\ DOMAIN part = 0 .. AlignedBytes(ls[1]) - 1 /\ IsBuffer(part) /\ Cardinality(DOMAIN part) = AlignedBytes(ls[1])
      /\ Elements(h, wd) <= AlignedBytes(ls[1])
  <2> HIDE DEF h, wd
  <2>1. ls[1].shape = << 3, h, wd >> /\ DtypeCells[ls[1].dt] = 1
    BY <1>2
  <2> QED
    BY <1>1, <1>2, <1>4, <2>1, ImagePartIs
<1> HIDE DEF part
<1>7. Lands(r, ls[1], p[1])
  <2> SUFFICES ASSUME r.err = "none" PROVE DOMAIN r.out = 0 .. AlignedBytes(ls[1]) - 1 /\ LeavesShown(r, ls[1], p[1])
    BY DEF Lands
  <2>1. PadsPart(r, part, sz, pic)
    BY <1>6, FolderImageShows
  <2> HIDE DEF r, h, wd, pic
  <2>2. DOMAIN r.out = DOMAIN part
    BY <2>1 DEF PadsPart
  <2>3. LeavesShown(r, ls[1], Shown("picture", pic, << >>))
    <3> DEFINE l == ls[1]
    <3>1. l.shape = << 3, h, wd >> /\ DtypeCells[l.dt] = 1
      BY <1>2
    <3> HIDE DEF l
    <3>2. LeavesShown(r, l, Shown("picture", pic, << >>))
      BY <1>1, <2>1, <3>1, PadsShows
    <3> QED
      BY <3>2 DEF l
  <2> QED
    BY <1>3, <1>6, <2>2, <2>3
<1>8. ThenLabel(Write(w, "image", r), label).err = "none"
  BY <1>5
<1> HIDE DEF r, label
<1>9. WriterFor(ThenLabel(Write(w, "image", r), label), ls, n) /\ WrittenShow(ThenLabel(Write(w, "image", r), label), ls, p)
  BY <1>2, <1>3, <1>4, <1>7, <1>8, BothShow
<1> QED
  BY <1>5, <1>9 DEF p, ls, label

(***************************************************************************)
(* The image of a record, and the label of its name.                       *)
(***************************************************************************)
LEMMA TarWriteShows ==
  ASSUME NEW d, AnyDataset(d), DtypeCells[d.dt] = 1, NEW cell, cell.img \in AnyImage, NEW ls, ImageAndLabel(ls),
         NEW draws \in MayDraw(d, cell.img), NEW n \in Nat, ItemSize(ls) <= n, NEW w, WriterFor(w, ls, n), w.err = "none",
         WrittenShow(w, ls, PairShown(d, cell.img, draws, cell.name)),
         NEW doubles \in Nat, TarWrite(d, cell, ls, w, doubles, draws).err = "none"
  PROVE  /\ cell.img # NoImage
         /\ WriterFor(TarWrite(d, cell, ls, w, doubles, draws), ls, n)
         /\ WrittenShow(TarWrite(d, cell, ls, w, doubles, draws), ls, PairShown(d, cell.img, draws, cell.name))
<1> DEFINE img == cell.img
           label == cell.name
           image == ls[1]
           h == image.shape[2]
           wd == image.shape[3]
           sz == << h, wd >>
           need == TarSize(d, img)
           p == PairShown(d, img, draws, label)
           part == KeyPart(w, "image")
           r == TarImage(d, img, sz, part, doubles, draws)
           pic == Intended(d, img, draws)
           wrong == \/ image.shape[1] # Channels \/ image.dt # d.dt \/ image.strides # RowMajor(image.shape)
                    \/ sz[1] < need[1] \/ sz[2] < need[2]
           v == TarWrite(d, cell, ls, w, doubles, draws)
<1>1. image.shape \in Seq(Nat) /\ Len(image.shape) = 3 /\ image.dt \in DOMAIN DtypeCells
  <2>1. 1 \in 1 .. Len(ls) /\ ls \in Seq(AnyLayout) /\ Len(ls[1].shape) = 3
    BY DEF ImageAndLabel
  <2>2. ls[1] \in AnyLayout
    BY <2>1
  <2> QED
    BY <2>1, <2>2 DEF AnyLayout
<1>2. h \in Nat /\ wd \in Nat
  <2> HIDE DEF image
  <2> QED
    BY <1>1, Triple
<1>3. /\ v = IF img = NoImage THEN Refuse(w, "Exhausted")
              ELSE IF img.damage = "header" THEN Refuse(w, "DecoderError")
              ELSE IF wrong THEN Refuse(w, "InvalidLayout") ELSE ThenLabel(Write(w, "image", r), label)
      /\ v.err = "none"
  BY DEF TarWrite
<1>4. Refuse(w, "Exhausted").err # "none" /\ Refuse(w, "DecoderError").err # "none" /\ Refuse(w, "InvalidLayout").err # "none"
  BY DEF Refuse, WriterFor
<1> DEFINE both == ThenLabel(Write(w, "image", r), label)
<1>5. img # NoImage /\ ~wrong /\ v = both /\ both.err = "none"
  <2> HIDE DEF wrong, v, both
  <2> QED
    BY <1>3, <1>4 DEF both
<1> HIDE DEF both, v
<1>6. image.shape[1] = 3 /\ image.dt = d.dt /\ ~(sz[1] < need[1]) /\ ~(sz[2] < need[2])
  BY <1>5 DEF Channels
<1>7. image.shape = << 3, h, wd >>
  <2> DEFINE s == image.shape
  <2>1. s \in Seq(Nat) /\ Len(s) = 3 /\ s[1] = 3 /\ h = s[2] /\ wd = s[3]
    BY <1>1, <1>6
  <2> HIDE DEF s, h, wd
  <2> QED
    BY <2>1 DEF s
<1>8. p[1] = Shown("picture", pic, << >>) /\ p[2] = LabelShown(label)
  BY DEF PairShown
<1>9. sz \in Nat \X Nat /\ sz[1] = h /\ sz[2] = wd /\ sz = << h, wd >>
  BY <1>2
<1>10. DtypeCells[image.dt] = 1 /\ WrittenShow(w, ls, p) /\ img \in AnyImage /\ draws \in MayDraw(d, img)
  BY <1>6
<1> HIDE DEF h, wd, sz, need, p, wrong, image
<1>11. /\ DOMAIN part = 0 .. AlignedBytes(ls[1]) - 1 /\ IsBuffer(part) /\ Cardinality(DOMAIN part) = AlignedBytes(ls[1])
       /\ Elements(h, wd) <= AlignedBytes(ls[1])
  <2>1. ls[1].shape = << 3, h, wd >> /\ DtypeCells[ls[1].dt] = 1
    BY <1>7, <1>10 DEF image
  <2> QED
    BY <1>2, <2>1, ImagePartIs
<1>12. Fits(IntendedSize(d, img), sz)
  BY <1>6, <1>9, <1>10, TarFits DEF need
<1> HIDE DEF part
<1>13. Lands(r, ls[1], p[1])
  <2> SUFFICES ASSUME r.err = "none" PROVE DOMAIN r.out = 0 .. AlignedBytes(ls[1]) - 1 /\ LeavesShown(r, ls[1], p[1])
    BY DEF Lands
  <2> HIDE DEF img
  <2>1. PadsPart(r, part, sz, pic)
    BY <1>9, <1>10, <1>11, <1>12, TarImageShows
  <2> HIDE DEF r, pic
  <2>2. DOMAIN r.out = DOMAIN part
    BY <2>1 DEF PadsPart
  <2>3. LeavesShown(r, ls[1], Shown("picture", pic, << >>))
    <3> DEFINE l == ls[1]
    <3>1. l.shape = << 3, h, wd >> /\ DtypeCells[l.dt] = 1
      BY <1>7, <1>10 DEF image
    <3> HIDE DEF l
    <3>2. LeavesShown(r, l, Shown("picture", pic, << >>))
      BY <1>2, <1>9, <2>1, <3>1, PadsShows
    <3> QED
      BY <3>2 DEF l
  <2> QED
    BY <1>8, <1>11, <2>2, <2>3
<1> HIDE DEF r, label
<1>14. WriterFor(both, ls, n) /\ WrittenShow(both, ls, p)
  BY <1>5, <1>8, <1>10, <1>13, BothShow DEF both
<1> QED
  BY <1>5, <1>14 DEF p, v, label, img

\* What a user's dataset does at one entry of its script.
CustomRound(d, idx, k, v) ==
  LET entry == d.scripts[idx][k]
      wrote == Write(v, entry.key, PutGiven(idx, entry, KeyPart(v, entry.key)))
  IN  IF v.err # "none" THEN v ELSE IF d.goesOn THEN [wrote EXCEPT !.err = "none"] ELSE wrote

(***************************************************************************)
(* A script is written entry by entry.                                     *)
(***************************************************************************)
LEMMA CustomRounds ==
  ASSUME NEW d, NEW idx, NEW w, Len(d.scripts[idx]) \in Nat
  PROVE  \E g : /\ g[0] = w
                /\ \A k \in 1 .. Len(d.scripts[idx]) : g[k] = CustomRound(d, idx, k, g[k - 1])
                /\ CustomWrite(d, idx, w) = g[Len(d.scripts[idx])]
<1> DEFINE n == Len(d.scripts[idx])
           Round(k, v) == CustomRound(d, idx, k, v)
           Body(f, j) == [k \in 0 .. j |-> IF k = 0 THEN w ELSE Round(k, f[k - 1])]
           g == CHOOSE f : f = Body(f, n)
<1>1. CustomWrite(d, idx, w) = g[n]
  BY DEF CustomWrite, CustomRound
<1> HIDE DEF Round, n
<1>2. n \in Nat
  BY DEF n
<1>5. \E f : f = Body(f, n)
  <2> DEFINE Exists(j) == \E f : f = Body(f, j)
             T == { j \in Nat : Exists(j) }
  <2>1. Exists(0)
    <3> DEFINE f == [k \in 0 .. 0 |-> w]
    <3>1. f = Body(f, 0)
      OBVIOUS
    <3> QED
      BY <3>1
  <2>2. ASSUME NEW j \in Nat, Exists(j)
        PROVE  Exists(j + 1)
    <3>0. PICK f : f = Body(f, j)
      BY <2>2
    <3> DEFINE h == [k \in 0 .. j + 1 |-> IF k <= j THEN f[k] ELSE Round(j + 1, f[j])]
    <3>1. ASSUME NEW k \in 0 .. j + 1
          PROVE  h[k] = Body(h, j + 1)[k]
      <4>1. CASE k <= j
        <5>1. f[k] = Body(f, j)[k] /\ h[k] = f[k]
          BY <3>0, <4>1
        <5>2. k # 0 => h[k - 1] = f[k - 1]
          BY <4>1
        <5> QED
          BY <4>1, <5>1, <5>2
      <4>2. CASE k = j + 1
        BY <4>2
      <4> QED
        BY <4>1, <4>2
    <3>2. h = Body(h, j + 1)
      BY <3>1
    <3> QED
      BY <3>2
  <2>3. n \in T
    <3> HIDE DEF Exists
    <3>1. 0 \in T /\ \A j \in Nat : j \in T => j + 1 \in T
      BY <2>1, <2>2
    <3> HIDE DEF T
    <3> QED
      BY <1>2, <3>1, InductionOnSet
  <2> QED
    BY <2>3
<1>6. g = Body(g, n)
  BY <1>5
<1> HIDE DEF g
<1>7. g[0] = w /\ \A k \in 1 .. n : g[k] = Round(k, g[k - 1])
  BY <1>2, <1>6
<1> QED
  BY <1>1, <1>7 DEF Round, n

\* The entries of a script that a writer takes for a layout.
TakenOf(script, l) ==
  { k \in DOMAIN script : script[k].key = l.key /\ script[k].err = "none" /\ script[k].says <= AlignedBytes(l) }

\* What a user does for a tensor.
AnyEntry == [key : STRING, cells : Nat, says : Nat, err : {"none", "Custom"}]

(***************************************************************************)
(* The first entry of a key that is taken leaves what is given.            *)
(***************************************************************************)
LEMMA GivenLeaves ==
  ASSUME NEW idx, NEW l \in AnyLayout, NEW script, script = data.scripts[idx], script \in Seq(AnyEntry),
         NEW k \in TakenOf(script, l), \A j \in TakenOf(script, l) : ~(j < k), HonestEntry(script[k], l),
         NEW part, DOMAIN part = 0 .. AlignedBytes(l) - 1
  PROVE  LeavesShown(PutGiven(idx, script[k], part), l, GivenShown(idx, l))
<1> DEFINE entry == script[k]
           r == PutGiven(idx, entry, part)
           flat == [i \in 0 .. entry.says - 1 |-> Given(idx, l.key, i)]
           c == TotalBytes(l)
           a == AlignedBytes(l)
           p == GivenShown(idx, l)
           cells == [i \in 0 .. c - 1 |-> IF i < r.n THEN r.out[i] ELSE Zero]
<1>1. c \in Nat /\ a \in Nat /\ c <= a
  BY BytesTyped
<1>2. /\ entry.key = l.key /\ entry.err = "none" /\ entry.says <= a /\ entry.says \in Nat /\ entry.cells \in Nat
      /\ k \in DOMAIN script
  <2>1. k \in DOMAIN script /\ entry.key = l.key /\ entry.err = "none" /\ entry.says <= a
    BY DEF TakenOf
  <2>2. entry \in AnyEntry
    <3> HIDE DEF a
    <3> QED
      BY <2>1
  <2> QED
    BY <2>1, <2>2 DEF AnyEntry
<1>3. entry.says <= entry.cells
  BY <1>1, <1>2 DEF HonestEntry
<1>4. (CHOOSE e \in TakenOf(script, l) : \A j \in TakenOf(script, l) : e <= j) = k
  <2> DEFINE F == TakenOf(script, l)
  <2>1. F \in SUBSET Nat
    BY DEF TakenOf
  <2>2. k \in F /\ \A j \in F : ~(j < k)
    OBVIOUS
  <2> HIDE DEF F
  <2>3. \A j \in F : k <= j
    BY <2>1, <2>2
  <2>4. \A e \in F : (\A j \in F : e <= j) => e = k
    BY <2>1, <2>2, <2>3
  <2> QED
    BY <2>2, <2>3, <2>4 DEF F
<1>5. p = Shown("flat", << >>, flat)
  BY <1>4 DEF GivenShown, TakenOf
<1>6. r.n = entry.says /\ \A i \in 0 .. a - 1 : r.out[i] = IF i < entry.cells THEN Given(idx, entry.key, i) ELSE part[i]
  BY DEF PutGiven
<1>7. ASSUME NEW i \in 0 .. c - 1
      PROVE  cells[i] = IF i \in DOMAIN flat THEN flat[i] ELSE Zero
  <2> HIDE DEF r, a, c
  <2>1. cells[i] = IF i < entry.says THEN r.out[i] ELSE Zero
    BY <1>6
  <2>2. i \in 0 .. a - 1 /\ i \in Nat
    BY <1>1
  <2>3. i < entry.says => i < entry.cells /\ i \in DOMAIN flat /\ flat[i] = Given(idx, l.key, i)
    BY <1>2, <1>3, <2>2
  <2>4. ~(i < entry.says) => i \notin DOMAIN flat
    BY <1>2, <2>2
  <2> QED
    BY <1>2, <1>6, <2>1, <2>2, <2>3, <2>4
<1>8. DOMAIN cells = 0 .. c - 1
  OBVIOUS
<1>9. p.is = "flat" /\ p.flat = flat
  BY <1>5 DEF Shown
<1> HIDE DEF cells, flat, p
<1>10. ShowsTensor(cells, l.shape, p)
  BY <1>7, <1>8, <1>9 DEF ShowsTensor, ShowsFlat
<1> QED
  BY <1>10 DEF LeavesShown, cells, p, c, r

\* What the closures of a script have given is what is promised.
GivesAll(idx, ls, p) == Len(p) = Len(ls) /\ \A j \in DOMAIN ls : p[j] = GivenShown(idx, ls[j])

\* A script all of whose closures say what they have written.
HonestScript(script, ls) == \A k \in DOMAIN script : \A j \in DOMAIN ls : HonestEntry(script[k], ls[j])

\* A tensor is written once an entry for it has been taken.
WrittenTo(v, ls, script, k) ==
  v.err = "none" => \A j \in DOMAIN ls : v.written[j] <=> \E e \in 1 .. k : e \in TakenOf(script, ls[j])

\* The writer after k entries of a script.
CustomShows(v, ls, n, p, script, k) == WriterFor(v, ls, n) /\ WrittenShow(v, ls, p) /\ WrittenTo(v, ls, script, k)

(***************************************************************************)
(* After every entry of a script, what is written shows what is given.     *)
(***************************************************************************)
LEMMA CustomRoundShows ==
  ASSUME NEW ls \in Seq(AnyLayout), DistinctKeys(ls), NEW n \in Nat, ItemSize(ls) <= n,
         NEW idx, NEW p, GivesAll(idx, ls, p), NEW script, script = data.scripts[idx], script \in Seq(AnyEntry),
         HonestScript(script, ls), NEW k \in 1 .. Len(script), NEW v, CustomShows(v, ls, n, p, script, k - 1)
  PROVE  CustomShows(CustomRound(data, idx, k, v), ls, n, p, script, k)
<1> DEFINE entry == script[k]
           key == entry.key
           part == KeyPart(v, key)
           r == PutGiven(idx, entry, part)
           u == Write(v, key, r)
           x == CustomRound(data, idx, k, v)
<1>1. x = IF v.err # "none" THEN v ELSE IF data.goesOn THEN [u EXCEPT !.err = "none"] ELSE u
  BY DEF CustomRound
<1>2. /\ WriterFor(v, ls, n) /\ WrittenShow(v, ls, p)
      /\ v.err = "none" => \A j \in DOMAIN ls : v.written[j] <=> \E e \in 1 .. k - 1 : e \in TakenOf(script, ls[j])
  BY DEF CustomShows, WrittenTo
<1>3. /\ k \in DOMAIN script /\ k \in Nat /\ key \in STRING /\ entry.says \in Nat
      /\ entry.err \in {"none", "Custom"}
  <2>1. k \in DOMAIN script /\ k \in Nat
    OBVIOUS
  <2>2. entry \in AnyEntry
    BY <2>1
  <2> QED
    BY <2>1, <2>2 DEF AnyEntry
<1> HIDE DEF x
<1>4. CASE v.err # "none"
  BY <1>1, <1>2, <1>4 DEF CustomShows, WrittenTo, x
<1>5. CASE v.err = "none"
  <2> DEFINE Took(j) == key = ls[j].key /\ Taken(r, ls[j])
  <2>1. \A j \in DOMAIN ls : Took(j) <=> k \in TakenOf(script, ls[j])
    <3> SUFFICES ASSUME NEW j \in DOMAIN ls PROVE Took(j) <=> k \in TakenOf(script, ls[j])
      OBVIOUS
    <3>1. r.err = entry.err /\ r.n = entry.says
      BY DEF PutGiven
    <3>2. AlignedBytes(ls[j]) \in Nat
      BY PartsAre
    <3> DEFINE a == AlignedBytes(ls[j])
    <3>3. ~(entry.says > a) <=> entry.says <= a
      <4> HIDE DEF a
      <4> QED
        BY <1>3, <3>2 DEF a
    <3> HIDE DEF r
    <3> QED
      BY <1>3, <3>1, <3>3 DEF Taken, TakenOf
  <2>2. /\ WriterFor(u, ls, n) /\ WrittenShow(u, ls, p)
        /\ \A j \in DOMAIN ls : u.written[j] <=> (v.written[j] \/ Took(j))
    <3>1. CASE \A j \in DOMAIN ls : ls[j].key # key
      <4>1. u = Refuse(v, "UnknownKey")
        <5>1. ~HasKey(v, key)
          <6>1. DOMAIN v.keys = DOMAIN ls /\ \A j \in DOMAIN ls : v.keys[j] = ls[j].key
            BY <1>2 DEF WriterFor, Keys
          <6> QED
            BY <3>1, <6>1 DEF HasKey
        <5> HIDE DEF r
        <5> QED
          BY <5>1 DEF Write
      <4>2. WriterFor(u, ls, n) /\ WrittenShow(u, ls, p) /\ u.written = v.written
        BY <1>2, <4>1, RefuseShows
      <4> HIDE DEF u, r
      <4> QED
        BY <3>1, <4>2
    <3>2. CASE \E j \in DOMAIN ls : ls[j].key = key
      <4>0. PICK j \in DOMAIN ls : ls[j].key = key
        BY <3>2
      <4> DEFINE l == ls[j]
      <4>1. l \in AnyLayout /\ l.key = key
        BY <4>0
      <4>2. DOMAIN part = 0 .. AlignedBytes(l) - 1
        <5>1. DOMAIN KeyPart(v, ls[j].key) = 0 .. AlignedBytes(ls[j]) - 1
          BY <1>2, KeyPartIs
        <5> QED
          BY <4>0, <5>1
      <4>3. DOMAIN r.out = 0 .. AlignedBytes(l) - 1
        BY <4>2 DEF PutGiven
      <4>4. Closes(v, ls, p, j, r)
        <5> SUFFICES ASSUME ~v.written[j], Taken(r, l) PROVE LeavesShown(r, l, p[j])
          BY DEF Closes
        <5>1. k \in TakenOf(script, l)
          BY <2>1, <4>0
        <5>2. \A e \in TakenOf(script, l) : ~(e < k)
          <6> SUFFICES ASSUME NEW e \in TakenOf(script, l), e < k PROVE FALSE
            OBVIOUS
          <6>1. e \in 1 .. k - 1
            <7>1. e \in DOMAIN script
              BY DEF TakenOf
            <7> QED
              BY <1>3, <7>1
          <6> QED
            BY <1>2, <1>5, <6>1
        <5>3. HonestEntry(script[k], l)
          BY <1>3 DEF HonestScript
        <5> HIDE DEF l, part, r
        <5>4. LeavesShown(PutGiven(idx, script[k], part), l, GivenShown(idx, l))
          BY <4>1, <4>2, <5>1, <5>2, <5>3, GivenLeaves
        <5>5. p[j] = GivenShown(idx, l)
          BY DEF GivesAll, l
        <5> QED
          BY <5>4, <5>5 DEF r
      <4> HIDE DEF r
      <4>5. /\ WriterFor(Write(v, ls[j].key, r), ls, n) /\ WrittenShow(Write(v, ls[j].key, r), ls, p)
            /\ Write(v, ls[j].key, r).written = [v.written EXCEPT ![j] = v.written[j] \/ Taken(r, ls[j])]
        BY <1>2, <4>3, <4>4, WriteShows
      <4>6. /\ WriterFor(u, ls, n) /\ WrittenShow(u, ls, p)
            /\ u.written = [v.written EXCEPT ![j] = v.written[j] \/ Taken(r, ls[j])]
        BY <4>0, <4>5
      <4>7. v.written \in [DOMAIN ls -> BOOLEAN]
        BY <1>2 DEF WriterFor
      <4>8. ASSUME NEW i \in DOMAIN ls
            PROVE  u.written[i] <=> (v.written[i] \/ Took(i))
        <5>1. CASE i = j
          <6>1. u.written[i] = (v.written[j] \/ Taken(r, ls[j]))
            BY <4>6, <4>7, <5>1
          <6> QED
            BY <4>0, <5>1, <6>1
        <5>2. CASE i # j
          <6>1. u.written[i] = v.written[i]
            BY <4>6, <4>7, <5>2
          <6>2. ls[i].key # key
            BY <4>0, <5>2 DEF DistinctKeys
          <6> QED
            BY <6>1, <6>2
        <5> QED
          BY <5>1, <5>2
      <4> QED
        BY <4>6, <4>8
    <3> QED
      BY <3>1, <3>2
  <2> HIDE DEF u, Took
  <2>3. \A j \in DOMAIN ls : u.written[j] <=> \E e \in 1 .. k : e \in TakenOf(script, ls[j])
    <3> SUFFICES ASSUME NEW j \in DOMAIN ls PROVE u.written[j] <=> \E e \in 1 .. k : e \in TakenOf(script, ls[j])
      OBVIOUS
    <3>1. u.written[j] <=> ((\E e \in 1 .. k - 1 : e \in TakenOf(script, ls[j])) \/ k \in TakenOf(script, ls[j]))
      BY <1>2, <1>5, <2>1, <2>2
    <3>2. \A e : e \in 1 .. k <=> e \in 1 .. k - 1 \/ e = k
      BY <1>3
    <3> QED
      BY <3>1, <3>2
  <2>4. WriterFor(x, ls, n) /\ WrittenShow(x, ls, p) /\ x.written = u.written
    <3> DEFINE y == [u EXCEPT !.err = "none"]
    <3>1. /\ DOMAIN y = DOMAIN u /\ y.out = u.out /\ y.keys = u.keys /\ y.offset = u.offset
          /\ y.size = u.size /\ y.written = u.written
      BY <2>2 DEF WriterFor
    <3>2. x = u \/ x = y
      BY <1>1, <1>5 DEF u
    <3> HIDE DEF y
    <3>3. WriterFor(y, ls, n) /\ WrittenShow(y, ls, p)
      BY <2>2, <3>1 DEF WriterFor, WrittenShow
    <3> QED
      BY <2>2, <3>1, <3>2, <3>3
  <2> QED
    BY <2>3, <2>4 DEF CustomShows, WrittenTo, x
<1> QED
  BY <1>4, <1>5

(***************************************************************************)
(* What a user's closures have written is what they were to write.         *)
(***************************************************************************)
LEMMA CustomWriteShows ==
  ASSUME NEW ls \in Seq(AnyLayout), DistinctKeys(ls), NEW n \in Nat, ItemSize(ls) <= n,
         NEW idx, NEW p, GivesAll(idx, ls, p), NEW script, script = data.scripts[idx], script \in Seq(AnyEntry),
         HonestScript(script, ls), NEW w, WriterFor(w, ls, n), \A j \in DOMAIN ls : ~w.written[j]
  PROVE  WriterFor(CustomWrite(data, idx, w), ls, n) /\ WrittenShow(CustomWrite(data, idx, w), ls, p)
<1> DEFINE m == Len(script)
<1>1. m \in Nat
  OBVIOUS
<1>2. PICK g : /\ g[0] = w
               /\ \A k \in 1 .. m : g[k] = CustomRound(data, idx, k, g[k - 1])
               /\ CustomWrite(data, idx, w) = g[m]
  BY <1>1, CustomRounds
<1>3. CustomShows(w, ls, n, p, script, 0)
  <2>1. 1 .. 0 = {}
    OBVIOUS
  <2> QED
    BY <2>1 DEF CustomShows, WrittenTo, WrittenShow
<1> DEFINE T == { k \in Nat : k <= m => CustomShows(g[k], ls, n, p, script, k) }
<1> HIDE DEF m
<1>4. 0 \in T
  BY <1>2, <1>3
<1>5. ASSUME NEW k \in Nat, k \in T
      PROVE  k + 1 \in T
  <2> SUFFICES ASSUME k + 1 <= m
               PROVE  CustomShows(g[k + 1], ls, n, p, script, k + 1)
    OBVIOUS
  <2> DEFINE j == k + 1
  <2>1. j \in 1 .. m /\ j - 1 = k /\ CustomShows(g[k], ls, n, p, script, k)
    BY <1>1, <1>5
  <2>2. g[j] = CustomRound(data, idx, j, g[k])
    BY <1>2, <2>1
  <2> HIDE DEF j
  <2>3. CustomShows(g[k], ls, n, p, script, j - 1) /\ j \in 1 .. Len(script)
    BY <2>1 DEF m
  <2>4. CustomShows(CustomRound(data, idx, j, g[k]), ls, n, p, script, j)
    BY <2>3, CustomRoundShows
  <2> QED
    BY <2>2, <2>4 DEF j
<1>6. CustomShows(g[m], ls, n, p, script, m)
  <2>1. m \in T
    <3> HIDE DEF T
    <3> QED
      BY <1>1, <1>4, <1>5, InductionOnSet
  <2> QED
    BY <1>1, <2>1
<1> QED
  BY <1>2, <1>6 DEF CustomShows

-----------------------------------------------------------------------------
(* An item of a batch.                                                     *)

(***************************************************************************)
(* A new writer has written nothing.                                       *)
(***************************************************************************)
LEMMA WriterStarts ==
  ASSUME NEW ls \in Seq(AnyLayout), NEW n \in Nat, n = ItemSize(ls), NEW chunk, DOMAIN chunk = 0 .. n - 1
  PROVE  /\ WriterFor(NewWriter(ls, chunk), ls, n) /\ NewWriter(ls, chunk).err = "none"
         /\ \A j \in DOMAIN ls : ~NewWriter(ls, chunk).written[j]
<1> DEFINE w == NewWriter(ls, chunk)
<1>1. Cardinality(DOMAIN chunk) = n
  BY FS_Interval
<1>2. /\ DOMAIN w = {"err", "out", "keys", "offset", "size", "written"} /\ w.out = chunk /\ w.keys = Keys(ls)
      /\ w.err = (IF ItemSize(ls) > Cardinality(DOMAIN chunk) THEN "BufferTooSmall" ELSE "none")
      /\ \A k \in DOMAIN ls : w.offset[k] = ItemSize(First(ls, k - 1)) /\ w.size[k] = AlignedBytes(ls[k])
      /\ w.written = [k \in DOMAIN ls |-> FALSE]
  BY DEF NewWriter
<1> HIDE DEF w
<1>3. w.err = "none"
  BY <1>1, <1>2
<1>4. w.written \in [DOMAIN ls -> BOOLEAN] /\ \A j \in DOMAIN ls : ~w.written[j]
  BY <1>2
<1>5. WriterFor(w, ls, n)
  BY <1>2, <1>4 DEF WriterFor, PartAt
<1> QED
  BY <1>3, <1>4, <1>5 DEF w

\* The records in the cells have the names of their images.
NamedCells ==
  data.kind = "tar" => \A i \in DOMAIN buffer.cells :
    buffer.cells[i].img # NoImage => buffer.cells[i].name = data.names[buffer.cells[i].img.id]

\* What a state says in which an item that is written shows what is promised.
Showable ==
  /\ Readable(data) /\ ~CutsImages(data)
  /\ OriginInv /\ NamedCells
  /\ \A j \in DOMAIN batch : batch[j] \in Items(data)

(***************************************************************************)
(* What the dataset writes of an item is what is promised of it.           *)
(***************************************************************************)
LEMMA WrittenAsPromised ==
  ASSUME NEW k, Writable(k), Showable, NEW t \in Threads, NEW draws \in ItemDraws(batch[k]),
         NEW w, WriterFor(w, layouts, ItemSize(layouts)), w.err = "none", \A j \in DOMAIN layouts : ~w.written[j],
         ItemWritten(batch[k], t, draws, w).err = "none"
  PROVE  /\ WriterFor(ItemWritten(batch[k], t, draws, w), layouts, ItemSize(layouts))
         /\ WrittenShow(ItemWritten(batch[k], t, draws, w), layouts, Promise(batch[k], draws))
         /\ Len(Promise(batch[k], draws)) = Len(layouts)
<1> DEFINE idx == batch[k]
           n == ItemSize(layouts)
           p == Promise(idx, draws)
           img == ImageOf(idx)
           v == ItemWritten(idx, t, draws, w)
<1>1. /\ AnyDataset(data) /\ GoodBuffer(data, buffer) /\ k \in DOMAIN batch /\ idx \in Items(data)
      /\ layouts \in Seq(AnyLayout) /\ (data.kind # "custom" => ImageAndLabel(layouts))
      /\ size \in Nat \X Nat /\ scratch[t] \in Nat
  BY DEF Writable
<1>2. n \in Nat /\ n <= n
  <2>1. n \in Nat
    BY <1>1, ItemSizeTyped
  <2> QED
    BY <2>1
<1>3. \A q : WrittenShow(w, layouts, q)
  BY DEF WrittenShow
<1>4. /\ data.kind = "folder" => /\ size = FolderSize(data, { batch[j] : j \in DOMAIN batch })
                                 /\ layouts = FolderLayouts(data, size)
      /\ data.kind = "custom" => layouts = data.layouts
  <2>1. batch # << >>
    BY <1>1
  <2> QED
    BY <2>1 DEF Showable, OriginInv
<1>5. data.kind # "custom" => DtypeCells[data.dt] = 1 /\ draws \in MayDraw(data, img)
  BY DEF Showable, Readable, ItemDraws, MayDraw
<1>6. PictureShown(img, draws) = Shown("picture", Intended(data, img, draws), << >>)
  BY DEF PictureShown, Intended
<1>7. CASE data.kind = "folder"
  <2> DEFINE files == Samples(data.files)
  <2>1. idx \in DOMAIN files /\ img = files[idx].img
    BY <1>1, <1>7 DEF Items, ImageOf
  <2>2. p = PairShown(data, img, draws, files[idx].label)
    BY <1>6, <1>7 DEF Promise, PairShown
  <2>3. v = FolderWrite(data, idx, size, w, scratch[t], draws)
    BY <1>7 DEF ItemWritten
  <2>4. Fits(IntendedSize(data, img), size)
    <3> DEFINE items == { batch[j] : j \in DOMAIN batch }
    <3>1. items \in SUBSET Items(data) /\ idx \in items
      <4>1. \A j \in DOMAIN batch : batch[j] \in Items(data)
        BY DEF Showable
      <4> QED
        BY <1>1, <4>1
    <3>2. ~CutsImages(data) /\ size = FolderSize(data, items)
      BY <1>4, <1>7 DEF Showable
    <3> HIDE DEF items
    <3>3. Fits(IntendedSize(data, files[idx].img), FolderSize(data, items))
      BY <1>1, <1>7, <3>1, <3>2, FolderFits
    <3> QED
      BY <2>1, <3>2, <3>3
  <2> HIDE DEF v, n
  <2>5. WriterFor(v, layouts, n) /\ WrittenShow(v, layouts, p)
    <3> DEFINE ls == FolderLayouts(data, size)
    <3>1. layouts = ls /\ WriterFor(w, ls, n) /\ ItemSize(ls) <= n
      BY <1>2, <1>4, <1>7 DEF n
    <3>2. WrittenShow(w, ls, PairShown(data, files[idx].img, draws, files[idx].label))
      BY <1>3, <3>1
    <3>3. /\ DtypeCells[data.dt] = 1 /\ Fits(IntendedSize(data, files[idx].img), size)
          /\ draws \in MayDraw(data, files[idx].img)
      BY <1>5, <1>7, <2>1, <2>4
    <3>4. FolderWrite(data, idx, size, w, scratch[t], draws).err = "none"
      BY <2>3 DEF v
    <3> HIDE DEF idx
    <3>5. /\ WriterFor(FolderWrite(data, idx, size, w, scratch[t], draws), FolderLayouts(data, size), n)
          /\ WrittenShow(FolderWrite(data, idx, size, w, scratch[t], draws), FolderLayouts(data, size),
                         PairShown(data, Samples(data.files)[idx].img, draws, Samples(data.files)[idx].label))
      BY <1>1, <1>2, <2>1, <3>1, <3>2, <3>3, <3>4, FolderWriteShows
    <3> QED
      BY <2>1, <2>2, <2>3, <3>1, <3>5
  <2>6. Len(p) = 2 /\ Len(layouts) = 2
    BY <1>1, <1>7, <2>2 DEF PairShown, ImageAndLabel
  <2> QED
    BY <2>5, <2>6 DEF v, n
<1>8. CASE data.kind = "tar"
  <2> DEFINE cell == buffer.cells[idx]
  <2>1. idx \in DOMAIN buffer.cells /\ img = cell.img /\ cell.img \in AnyImage
    <3>1. idx \in 1 .. data.cap /\ DOMAIN buffer.cells = 1 .. data.cap
      BY <1>1, <1>8 DEF Items, GoodBuffer
    <3>2. img \in AnyImage
      BY <1>8, ImageOfTyped
    <3> QED
      BY <1>8, <3>1, <3>2 DEF ImageOf
  <2>2. p = PairShown(data, img, draws, data.names[img.id])
    BY <1>6, <1>8 DEF Promise, PairShown
  <2>3. v = TarWrite(data, cell, layouts, w, scratch[t], draws)
    BY <1>8 DEF ItemWritten
  <2> HIDE DEF v, n
  <2> DEFINE q == PairShown(data, cell.img, draws, cell.name)
  <2>4. cell.img # NoImage /\ WriterFor(v, layouts, n) /\ WrittenShow(v, layouts, q)
    <3>1. /\ DtypeCells[data.dt] = 1 /\ ImageAndLabel(layouts) /\ WriterFor(w, layouts, n)
          /\ draws \in MayDraw(data, cell.img) /\ ItemSize(layouts) <= n
      BY <1>1, <1>2, <1>5, <1>8, <2>1 DEF n
    <3>2. WrittenShow(w, layouts, q)
      BY <1>3
    <3>3. TarWrite(data, cell, layouts, w, scratch[t], draws).err = "none"
      BY <2>3 DEF v
    <3> HIDE DEF cell
    <3>4. /\ cell.img # NoImage
          /\ WriterFor(TarWrite(data, cell, layouts, w, scratch[t], draws), layouts, n)
          /\ WrittenShow(TarWrite(data, cell, layouts, w, scratch[t], draws), layouts, PairShown(data, cell.img, draws, cell.name))
      BY <1>1, <1>2, <2>1, <3>1, <3>2, <3>3, TarWriteShows
    <3> QED
      BY <2>3, <3>4
  <2>5. cell.name = data.names[img.id]
    BY <1>8, <2>1, <2>4 DEF Showable, NamedCells
  <2>6. p = q
    BY <2>1, <2>2, <2>5
  <2>7. Len(p) = 2 /\ Len(layouts) = 2
    BY <1>1, <1>8, <2>2 DEF PairShown, ImageAndLabel
  <2> QED
    BY <2>4, <2>6, <2>7 DEF v, n
<1>9. CASE data.kind = "custom"
  <2> DEFINE script == data.scripts[idx]
  <2>1. p = [j \in DOMAIN layouts |-> GivenShown(idx, layouts[j])]
    BY <1>9 DEF Promise
  <2>2. Len(p) = Len(layouts) /\ \A j \in DOMAIN layouts : p[j] = GivenShown(idx, layouts[j])
    BY <1>1, <2>1
  <2>3. v = CustomWrite(data, idx, w)
    BY <1>9 DEF ItemWritten
  <2>4. script \in Seq(AnyEntry) /\ idx \in DOMAIN data.scripts
    <3>1. idx \in DOMAIN data.scripts /\ data.scripts \in Seq(Seq(AnyEntry))
      BY <1>1, <1>9 DEF Items, AnyDataset, AnyEntry
    <3> QED
      BY <3>1
  <2>5. DistinctKeys(layouts) /\ HonestScript(script, layouts) /\ layouts = data.layouts
    BY <1>4, <1>9, <2>4 DEF Showable, Readable, HonestScript
  <2> HIDE DEF v, n, p, script
  <2>6. GivesAll(idx, layouts, p)
    BY <2>2 DEF GivesAll
  <2>7. WriterFor(CustomWrite(data, idx, w), layouts, n) /\ WrittenShow(CustomWrite(data, idx, w), layouts, p)
    <3>1. ItemSize(layouts) <= n /\ WriterFor(w, layouts, n) /\ script = data.scripts[idx]
      BY <1>2 DEF n, script
    <3> HIDE DEF idx
    <3> QED
      BY <1>1, <1>2, <2>4, <2>5, <2>6, <3>1, CustomWriteShows
  <2> QED
    BY <2>2, <2>3, <2>7 DEF v, n, p
<1> QED
  BY <1>1, <1>7, <1>8, <1>9 DEF AnyDataset

(***************************************************************************)
(* An item that is written without an error shows what is promised of it.  *)
(***************************************************************************)
THEOREM ItemShows ==
  ASSUME NEW k, Writable(k), Showable, NEW t \in Threads, NEW item \in ItemResults(k, t), item.err = "none"
  PROVE  ShowsItem(item.out, 0, layouts, Promise(batch[k], item.draws))
<1> DEFINE idx == batch[k]
           n == ItemSize(layouts)
           chunk == Chunk(k)
           w == NewWriter(layouts, chunk)
<1>1. layouts \in Seq(AnyLayout) /\ n \in Nat
  BY ItemSizeTyped DEF Writable
<1>2. DOMAIN chunk = 0 .. n - 1
  BY DEF Chunk
<1> HIDE DEF chunk
<1>3. WriterFor(w, layouts, n) /\ w.err = "none" /\ \A j \in DOMAIN layouts : ~w.written[j]
  BY <1>1, <1>2, WriterStarts
<1>4. PICK draws \in ItemDraws(idx) : item = ItemResult(IfOpened(w, idx, t, draws), idx, draws)
  BY DEF ItemResults, chunk
<1> DEFINE v == ItemWritten(idx, t, draws, w)
<1>5. IfOpened(w, idx, t, draws) = v
  <2> HIDE DEF w, v
  <2> QED
    BY <1>3 DEF IfOpened, v
<1> HIDE DEF w
<1> DEFINE refill == IF data.kind = "tar" /\ v.err = "none" THEN Refill(data, buffer, idx) ELSE buffer
           left == [refill EXCEPT !.err = "none"]
<1> HIDE DEF v
<1>6. item.out = v.out /\ item.draws = draws /\ item.err = Ended(v, refill).err
  <2>1. ItemResult(v, idx, draws) = [out |-> v.out, draws |-> draws, buffer |-> left, err |-> Ended(v, refill).err]
    BY DEF ItemResult
  <2> HIDE DEF refill, left
  <2> QED
    BY <1>4, <1>5, <2>1
<1> HIDE DEF refill
<1>7. v.err = "none"
  BY <1>6 DEF Ended
<1>8. /\ WriterFor(v, layouts, n) /\ WrittenShow(v, layouts, Promise(idx, draws))
      /\ Len(Promise(idx, draws)) = Len(layouts)
  BY <1>3, <1>4, <1>7, WrittenAsPromised DEF v
<1>9. Finalize(v).err = "none"
  <2>1. Ended(v, refill).err = "none"
    BY <1>6
  <2>2. Ended(v, refill) = IF refill.err # "none" THEN Refuse(v, refill.err) ELSE Finalize(v)
    BY <1>7 DEF Ended
  <2>3. Refuse(v, refill.err).err = refill.err
    BY <1>8 DEF Refuse, WriterFor
  <2> QED
    BY <2>1, <2>2, <2>3
<1> DEFINE p == Promise(idx, draws)
<1>10. ShowsItem(v.out, 0, layouts, p)
  <2> HIDE DEF p, n
  <2>1. WriterFor(v, layouts, n) /\ WrittenShow(v, layouts, p) /\ Len(p) = Len(layouts)
    BY <1>8 DEF p
  <2> QED
    BY <1>1, <1>9, <2>1, FinalizeShows
<1> QED
  BY <1>6, <1>10
===============================================================================
