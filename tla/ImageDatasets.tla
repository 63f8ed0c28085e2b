---------------------------- MODULE ImageDatasets ----------------------------
(***************************************************************************)
(* The datasets: a folder of images, the image processor of a TarDataset,  *)
(* and a dataset of the user's own (dataset/, core/dataset/mod.rs).  For   *)
(* each, the layouts of a batch and what write_item_into does to the       *)
(* writer of an item.                                                      *)
(*                                                                         *)
(* A dataset is a record: its kind, the files of a folder, the archive of  *)
(* a TarDataset and its number of cells, whether there is a pipeline and   *)
(* which, the type of the elements, and of the user's dataset its static   *)
(* layouts and what it does for each item.                                 *)
(***************************************************************************)
EXTENDS ImageReference, TensorWriter, TarReader

LabelDtype == "i64"

LabelLayout == Layout("label", << >>, << >>, LabelDtype)

ImageLayout(dt, h, w) == Layout("image", << Channels, h, w >>, << h * w, w, 1 >>, dt)

LabelCell(label, i) == Source("label", label, i, 0, 0)

\* A closure that writes a label, and one that fails before it writes.
PutLabel(label, part) ==
  [ err |-> IF DtypeCells[LabelDtype] > Cardinality(DOMAIN part) THEN "BufferTooSmall" ELSE "none",
    out |-> [i \in DOMAIN part |-> IF i < DtypeCells[LabelDtype] THEN LabelCell(label, i) ELSE part[i]],
    n   |-> DtypeCells[LabelDtype] ]

Closed(r, n) == [err |-> r.err, out |-> r.out, n |-> n]

\* Mutant: the buffers have no room for the steps in between.
LongestEnd(data, img, h, w) == Larger(Elements(h, w), Elements(img.h, img.w))

\* The length of both of the thread's image buffers.
LongestImage(data, img, h, w) ==
  LET inter == MaxIntermediateSize(data.pipe)
  IN  Largest({ Elements(h, w), Elements(inter[1], inter[2]), Elements(img.h, img.w) })

\* The image is decoded densely and augmented into a second buffer, from
\* which it is to be copied.
AugmentedImage(data, img, h, w, scratch, draws) ==
  LET decoded == Decode(img, Fresh(Elements(img.h, img.w)), img.w, img.h)
  IN  IF decoded.err # "none" THEN decoded
      ELSE PipelineApply(data.pipe, data.dt, decoded.out, img.h, img.w,
                         Fresh(LongestImage(data, img, h, w)), scratch, draws)

ScratchLeft(data, img, h, w, scratch) ==
  IF ~data.augmented THEN scratch
  ELSE ScratchAfter(data.pipe, scratch, Fresh(Elements(img.h, img.w)), Fresh(LongestImage(data, img, h, w)))

-----------------------------------------------------------------------------
(***************************************************************************)
(* JpegFolderDataset.  A folder is a sequence of files in the order of     *)
(* their paths: the image, whether its name ends in .jpg or .jpeg, what    *)
(* label_fn says of it, and whether it is shorter than the buffer that its *)
(* header is read into.                                                    *)
(***************************************************************************)
NoLabel == 0

File(img, jpeg, label, short) == [img |-> img, jpeg |-> jpeg, label |-> label, short |-> short]

Samples(files) ==
  LET found[k \in 0 .. Len(files)] ==
        IF k = 0 THEN << >>
        ELSE IF files[k].jpeg /\ files[k].label # NoLabel THEN Append(found[k - 1], files[k])
        ELSE found[k - 1]
  IN  found[Len(files)]

\* new: every sample's header is read, also those that are never streamed.
OpenError(files) ==
  LET samples == Samples(files)
      faulty  == { k \in DOMAIN samples : samples[k].short \/ samples[k].img.damage = "header" }
  IN  IF samples = << >> THEN "Empty"
      ELSE IF faulty = {} THEN "none"
      ELSE IF samples[CHOOSE k \in faulty : \A j \in faulty : k <= j].short THEN "IoError" ELSE "DecoderError"

\* compute_max_size.
LargestSize(files, items) ==
  << Largest({ files[i].img.h : i \in items }), Largest({ files[i].img.w : i \in items }) >>

\* The size that dynamic_layouts chooses, and keeps for the writes.
FolderSize(data, items) ==
  CASE data.augmented /\ MaxIntermediateSize(data.pipe) # NoSize -> MaxIntermediateSize(data.pipe)
    [] OTHER -> LargestSize(Samples(data.files), items)

FolderLayouts(data, size) == << ImageLayout(data.dt, size[1], size[2]), LabelLayout >>

PadToFolder(r, part, size) ==
  IF r.err # "none" THEN Fail(r.err, part)
  ELSE FolderCopy(Slice(r.out, Elements(r.h, r.w)), r.h, r.w, part, size[1], size[2])

FolderImage(data, idx, size, part, scratch, draws) ==
  LET img == Samples(data.files)[idx].img
  IN  Closed(IF ~data.augmented THEN Decode(img, part, size[2], size[1])
             ELSE PadToFolder(AugmentedImage(data, img, size[1], size[2], scratch, draws), part, size),
             Elements(size[1], size[2]))

\* The second write is not made if the first fails.
ThenLabel(w, label) ==
  IF w.err # "none" THEN w ELSE Write(w, "label", PutLabel(label, KeyPart(w, "label")))

FolderWrite(data, idx, size, writer, scratch, draws) ==
  ThenLabel(Write(writer, "image", FolderImage(data, idx, size, KeyPart(writer, "image"), scratch, draws)),
            Samples(data.files)[idx].label)

-----------------------------------------------------------------------------
(* TarJpegProcessor: label_fn is given the name of the record.             *)

TargetSize(data) == IF data.augmented THEN OutputSize(data.pipe) ELSE NoSize

TarSize(data, img) == IF TargetSize(data) # NoSize THEN TargetSize(data) ELSE << img.h, img.w >>

TarLayout(data, img) == << ImageLayout(data.dt, TarSize(data, img)[1], TarSize(data, img)[2]), LabelLayout >>

HasLayout(data, img) == TargetSize(data) # NoSize \/ img.damage # "header"

PadToTar(r, dest, size) ==
  IF r.err # "none" THEN Fail(r.err, dest)
  ELSE TarCopy(Slice(r.out, Elements(r.h, r.w)), r.h, r.w, dest, size[1], size[2])

IntoPart(r, part) == [r EXCEPT !.out = Overlay(part, r.out)]

TarImage(data, img, size, part, scratch, draws) ==
  LET n    == Elements(size[1], size[2])
      dest == Slice(part, n)
  IN  IF n > Cardinality(DOMAIN part) THEN Closed(Fail("BufferTooSmall", part), n)
      ELSE Closed(IntoPart(IF ~data.augmented THEN Decode(img, dest, size[2], size[1])
                           ELSE PadToTar(AugmentedImage(data, img, size[1], size[2], scratch, draws), dest, size), part), n)

TarWrite(data, cell, layouts, writer, scratch, draws) ==
  LET image == layouts[1]
      size  == << image.shape[2], image.shape[3] >>
      need  == TarSize(data, cell.img)
      wrote == TarImage(data, cell.img, size, KeyPart(writer, "image"), scratch, draws)
  IN  CASE cell.img = NoImage -> Refuse(writer, "Exhausted")
        [] cell.img # NoImage /\ cell.img.damage = "header" -> Refuse(writer, "DecoderError")
        [] cell.img # NoImage /\ cell.img.damage # "header" ->
             IF image.shape[1] # Channels \/ image.dt # data.dt \/ image.strides # RowMajor(image.shape)
                  \/ size[1] < need[1] \/ size[2] < need[2]
               THEN Refuse(writer, "InvalidLayout")
               ELSE ThenLabel(Write(writer, "image", wrote), cell.name)

(***************************************************************************)
(* The cells of the TarDataset, over a single archive: cells hold records, *)
(* the reader finds the next.  Several shards, and threads that refill at  *)
(* once, are the subject of TarDataset.                                    *)
(***************************************************************************)
EmptyCell == [img |-> NoImage, name |-> NoName, layout |-> << >>]

Buffer(cells, reader, exhausted, err) ==
  [cells |-> cells, reader |-> reader, exhausted |-> exhausted, err |-> err]

NewBuffer(data) == Buffer([i \in 1 .. data.cap |-> EmptyCell], AtStart, FALSE, "none")

\* update_cell: a record without a layout leaves the cell as it was.
UpdateCell(data, buffer, i, r) ==
  IF HasLayout(data, r.img)
    THEN [buffer EXCEPT !.cells[i] = [img |-> r.img, name |-> r.name, layout |-> TarLayout(data, r.img)],
                        !.reader = r.reader]
    ELSE [buffer EXCEPT !.reader = r.reader, !.err = "DecoderError"]

\* Mutant: the data is not cleared.
ClearLayout(buffer, i) == [buffer EXCEPT !.cells[i].layout = << >>]

ClearCell(buffer, i) ==
  [buffer EXCEPT !.cells[i] = [buffer.cells[i] EXCEPT !.img = NoImage, !.layout = << >>]]

\* prime_initial_buffer, up to the first error.
Primed(data) ==
  LET upTo[i \in 0 .. data.cap] ==
        IF i = 0 THEN NewBuffer(data)
        ELSE LET b == upTo[i - 1]
                 r == NextRecord(data.archive, b.reader)
             IN  IF b.exhausted \/ b.err # "none" THEN b
                 ELSE IF r.res = "record" THEN UpdateCell(data, b, i, r)
                 ELSE [b EXCEPT !.reader = r.reader, !.exhausted = r.res = "Eof",
                                !.err = IF r.res = "Eof" THEN "none" ELSE r.res]
  IN  upTo[data.cap]

\* What write_item_into does with the cell once its record is written.
Refill(data, buffer, i) ==
  LET r == NextRecord(data.archive, buffer.reader)
  IN  IF buffer.exhausted THEN ClearCell(buffer, i)
      ELSE IF r.res = "record" THEN UpdateCell(data, buffer, i, r)
      ELSE IF r.res = "Eof" THEN ClearCell([buffer EXCEPT !.reader = r.reader, !.exhausted = TRUE], i)
      ELSE [buffer EXCEPT !.reader = r.reader, !.err = r.res]

\* dynamic_layouts: the layouts of the batch's cells, those of one key merged.
TarLayouts(buffer, batch) ==
  LET merged[k \in 0 .. Len(batch)] ==
        IF k = 0 THEN << >>
        ELSE LET layout == buffer.cells[batch[k]].layout
             IN  IF layout = << >> THEN merged[k - 1]
                 ELSE IF merged[k - 1] = << >> THEN layout
                 ELSE [i \in DOMAIN layout |-> Merge(merged[k - 1][i], layout[i])]
  IN  merged[Len(batch)]

-----------------------------------------------------------------------------
(***************************************************************************)
(* A dataset of the user: for each item a script of writes, each with how  *)
(* many cells its closure writes, how many it says it has, and its error.  *)
(* It gives up at the first error, or goes on.                             *)
(***************************************************************************)
Given(idx, key, i) == Source("given", idx, key, i, 0)

PutGiven(idx, entry, part) ==
  [ err |-> entry.err,
    out |-> [i \in DOMAIN part |-> IF i < entry.cells THEN Given(idx, entry.key, i) ELSE part[i]],
    n   |-> entry.says ]

CustomWrite(data, idx, writer) ==
  LET script == data.scripts[idx]
      after[k \in 0 .. Len(script)] ==
        IF k = 0 THEN writer
        ELSE LET w == after[k - 1]
                 r == Write(w, script[k].key, PutGiven(idx, script[k], KeyPart(w, script[k].key)))
             IN  IF w.err # "none" THEN w
                 ELSE IF data.goesOn THEN [r EXCEPT !.err = "none"] ELSE r
  IN  after[Len(script)]
=============================================================================
