-------------------------- MODULE BatchInvariants --------------------------
(***************************************************************************)
(* The inductive invariant of BatchPath, in named parts, and what a batch  *)
(* needs to stay in its slot.                                              *)
(***************************************************************************)
EXTENDS BatchPath

\* The layouts of an image and its label, as both processors make them.
ImageAndLabel(ls) ==
  /\ ls \in Seq(AnyLayout) /\ Len(ls) = 2
  /\ ls[1].key = "image" /\ Len(ls[1].shape) = 3 /\ ls[1].strides = RowMajor(ls[1].shape)
  /\ ls[2].key = "label" /\ Len(ls[2].shape) = 0 /\ ls[2].strides = RowMajor(ls[2].shape) /\ ls[2].dt = LabelDtype

\* What prepare_batch_metadata was asked for, and what it has found.
ChosenInv ==
  /\ data \in Datasets
  /\ slotSize \in Nat
  /\ batch \in Seq(Nat) /\ \A k \in DOMAIN batch : batch[k] \in Items(data)
  /\ layouts \in Seq(AnyLayout) /\ (data.kind # "custom" => layouts = << >> \/ ImageAndLabel(layouts))
  /\ size \in Nat \X Nat
  /\ toWrite # {} => DataSize > 0 /\ state \in {"writing", "failed", "panicked"}
  /\ state \in {"prepare", "writing"} => streamed < MaxBatches

\* A cell holds nothing, or a record with the layouts of its image and label.
GoodCell(cell) ==
  /\ DOMAIN cell = {"img", "name", "layout"}
  /\ cell.img \in AnyImage
  /\ \/ cell.layout = << >> /\ cell.img = NoImage
     \/ ImageAndLabel(cell.layout)

GoodBuffer(d, b) ==
  /\ DOMAIN b = {"cells", "reader", "exhausted", "err"}
  /\ DOMAIN b.cells = 1 .. d.cap /\ b.cells = [i \in 1 .. d.cap |-> b.cells[i]]
  /\ \A i \in 1 .. d.cap : GoodCell(b.cells[i])
  /\ b.reader.offset \in 0 .. Len(d.archive)
  /\ b.err \in Errors

CellInv == GoodBuffer(data, buffer)

(***************************************************************************)
(* The datasets of which the builder has measured the largest item: a      *)
(* user's, whose layouts are static, and a folder whose images are all     *)
(* probed or all made the same size.                                       *)
(***************************************************************************)
OneSize(d) == d.augmented /\ MaxIntermediateSize(d.pipe) # NoSize

Measured(d) ==
  /\ d.probe > 0
  /\ \/ d.kind = "custom"
     \/ d.kind = "folder" /\ (OneSize(d) \/ d.probe = Cardinality(Items(d)))

\* The layouts of a batch of these items, of all of a dataset's that is measured.
LayoutsOver(d, items) ==
  IF d.kind = "folder" THEN FolderLayouts(d, FolderSize(d, items)) ELSE d.layouts

Live == {"built", "idle", "prepare", "writing"}

\* How large the slots are, and where the layouts of the batch come from.
SizedInv ==
  /\ state = "new" => slotSize = 0 /\ memory = << >>
  /\ state \in Live => slotSize > 0
  /\ \/ batch = << >> /\ layouts = << >>
     \/ batch \in Batches
  /\ Measured(data) =>
       /\ state \in Live \/ batch # << >> =>
            slotSize = CalculateSlotSize(LayoutsOver(data, Items(data)), BatchSize)
       /\ batch # << >> => layouts = LayoutsOver(data, { batch[k] : k \in DOMAIN batch })

BatchInv == BatchTypeOK /\ ChosenInv /\ CellInv /\ SizedInv

-----------------------------------------------------------------------------
\* The batch is no larger than its slot.
BatchFits == HeaderSize(BatchHeaders) + DataSize <= slotSize

(***************************************************************************)
(* The slot size that calculate_slot_size makes of probed items is enough  *)
(* for what prepare_batch_metadata later writes for a batch of other       *)
(* items, if the largest item has been measured and the batch is no longer *)
(* than the builder was told (builder.rs, helpers.rs:91).                  *)
(***************************************************************************)
MeasuredBatchesFit == Measured(data) /\ Len(batch) <= BatchSize => BatchFits

-----------------------------------------------------------------------------
(* What is in the slots.                                                   *)

\* Where the layouts of the batch come from.
OriginInv ==
  /\ state \in {"new", "built"} => batch = << >> /\ \A s \in Slots : promised[s] = << >>
  /\ batch # << >> =>
       /\ data.kind = "folder" => /\ size = FolderSize(data, { batch[k] : k \in DOMAIN batch })
                                 /\ layouts = FolderLayouts(data, size)
       /\ data.kind = "custom" => layouts = data.layouts

\* The long name that an 'L' entry leaves for the entry at an offset.
PendingName(archive, o) ==
  IF o > 1 /\ archive[o - 1].is = "header" /\ archive[o - 1].type = "L" /\ archive[o].name # NotUtf8
    THEN << "", archive[o].name >> ELSE NoName

NameAt(archive, o) == IF PendingName(archive, o) # NoName THEN PendingName(archive, o) ELSE FileName(archive[o + 1])

(***************************************************************************)
(* An archive as tar writes it, up to where it is cut or damaged: the data *)
(* of an entry follows its header, that of an 'L' entry in one block, and  *)
(* `names` holds the names that the images have in it.                     *)
(***************************************************************************)
Legible(d) ==
  LET a == d.archive
  IN  \A k \in DOMAIN a :
        /\ a[k].is = "data" => a[k].size = NotOctal /\ ~a[k].spaced
        /\ a[k].is = "header" /\ FileSize(a[k]) # NotOctal =>
             \A i \in k + 1 .. k + FileSize(a[k]) : i \in DOMAIN a => a[i].is = "data"
        /\ a[k].is = "header" /\ a[k].type = "L" => FileSize(a[k]) = 1
        /\ a[k].is = "header" /\ IsRegularFile(a[k]) /\ k + 1 \in DOMAIN a /\ a[k + 1].img # NoImage =>
             \/ PendingName(a, k - 1) = NoName /\ FileName(a[k]) = NotUtf8
             \/ NameAt(a, k - 1) = d.names[a[k + 1].img.id]

\* Every record in a cell has the name of its image, and no name is left over.
NamedBuffer(d, b) ==
  /\ \A i \in DOMAIN b.cells : b.cells[i].img # NoImage => b.cells[i].name = d.names[b.cells[i].img.id]
  /\ b.exhausted \/ b.reader.eof \/ PendingName(d.archive, b.reader.offset) = NoName

NamesInv ==
  data.kind = "tar" /\ Legible(data) /\ ~MisnamesFiles(data) /\ state \in {"idle", "prepare", "writing"} =>
    NamedBuffer(data, buffer)

RowMajorLayouts(ls) == \A k \in DOMAIN ls : ls[k].strides = RowMajor(ls[k].shape)

\* A closure that succeeds says no more than it has written, or more than there
\* is room for.
HonestEntry(e, l) == e.err = "none" /\ e.key = l.key => e.says <= e.cells \/ AlignedBytes(l) < e.says

(***************************************************************************)
(* The datasets of which the reference says what their tensors show: an    *)
(* element of an image is a cell, and a user's tensors are dense, with     *)
(* keys of their own, and written by closures that say what they do.       *)
(***************************************************************************)
Readable(d) ==
  /\ d.kind # "custom" => DtypeCells[d.dt] = 1
  /\ d.kind = "tar" => Legible(d)
  /\ d.kind = "custom" =>
       /\ DistinctKeys(d.layouts)
       /\ (\A k \in DOMAIN d.layouts : CanAddBatch(d.layouts[k])) => RowMajorLayouts(d.layouts)
       /\ \A i \in DOMAIN d.scripts : \A e \in DOMAIN d.scripts[i] : \A k \in DOMAIN d.layouts :
            HonestEntry(d.scripts[i][e], d.layouts[k])

ItemAt(at, ls, n, b) == at + HeaderSize(WithBatch(ls, n)) + (b - 1) * ItemSize(ls)

PartAt(ls, k) == ItemSize(First(ls, k - 1))

\* The headers of a batch of n items are at a place.
HoldsHeaders(m, at, ls, n, ready) ==
  LET bl == WithBatch(ls, n)
  IN  \A k \in DOMAIN bl : \A i \in 0 .. 2 * Len(bl[k].shape) :
        m[at + HeaderSize(First(bl, k - 1)) + i] =
          IF k = 1 /\ i = 0 THEN Header(bl[1].dt, Len(bl[1].shape), ready) ELSE HeaderCells(bl[k])[i]

ShowsTensor(cells, shape, p) == IF p.is = "flat" THEN ShowsFlat(cells, p.flat) ELSE ShowsPicture(cells, shape, p.pic)

\* The tensors of the item at a place show what is promised of it.
ShowsItem(m, at, ls, p) ==
  /\ Len(p) = Len(ls)
  /\ \A k \in DOMAIN ls :
       ShowsTensor([i \in 0 .. TotalBytes(ls[k]) - 1 |-> m[at + PartAt(ls, k) + i]], ls[k].shape, p[k])

IsSequence(s) == s \in Seq({ s[k] : k \in DOMAIN s })

\* Those items of a batch of n, whose first header is at a place, show what is promised.
HoldsItems(m, at, ls, n, places, p) == \A b \in places : ShowsItem(m, ItemAt(at, ls, n, b), ls, p[b])

\* If the slot at a place is ready, it holds the whole batch that is promised, within its size.
ReadyShows(LS, m, at, sz, p) ==
  p # << >> /\ IsReady(m, at) /\ p[1] # << >> =>
    \E ls \in LS :
      /\ RowMajorLayouts(ls)
      /\ HeaderSize(WithBatch(ls, Len(p))) + Len(p) * ItemSize(ls) <= sz
      /\ HoldsHeaders(m, at, ls, Len(p), 1)
      /\ HoldsItems(m, at, ls, Len(p), 1 .. Len(p), p)

\* The slot in which a batch is written holds its headers, not ready, and the
\* items that have been written.
WritingShows ==
  LET at == SlotOffset(slot, slotSize)
      n  == Len(batch)
  IN  /\ DOMAIN promised[slot] = DOMAIN batch
      /\ layouts # << >> /\ RowMajorLayouts(layouts)
      /\ HoldsHeaders(memory, at, layouts, n, 0)
      /\ state = "writing" => HoldsItems(memory, at, layouts, n, DOMAIN batch \ toWrite, promised[slot])

SlotsInv(LS) ==
  /\ DOMAIN promised = Slots
  /\ \A s \in Slots : IsSequence(promised[s]) /\ ReadyShows(LS, memory, SlotOffset(s, slotSize), slotSize, promised[s])
  /\ toWrite # {} \/ state = "writing" => WritingShows

-----------------------------------------------------------------------------
(* What a TarDataset holds of a sound archive.                             *)

\* A cell holds nothing, or a sound image with its own layout.
SoundCell(d, cell) ==
  \/ cell.img = NoImage /\ cell.layout = << >>
  \/ cell.img # NoImage /\ SoundImage(d, cell.img) /\ cell.layout = TarLayout(d, cell.img)

\* The reader is at an entry from which the archive is sound, or is not used again.
SoundBuffer(d, b) ==
  /\ b.err = "none"
  /\ \A i \in 1 .. d.cap : SoundCell(d, b.cells[i])
  /\ b.exhausted \/ (~b.reader.eof /\ SoundFrom(d.archive, b.reader.offset))

\* An image fits into the layout that its batch has for it.
Laid(d, img, l) == /\ l.dt = d.dt /\ Len(l.shape) = 3 /\ l.shape[1] = Channels /\ l.strides = RowMajor(l.shape)
                   /\ TarSize(d, img)[1] <= l.shape[2] /\ TarSize(d, img)[2] <= l.shape[3]

\* The layouts of a batch, if it has this image, have room for it.
Covered(d, img, ls) == img # NoImage => ls # << >> /\ Laid(d, img, ls[1])

Covers(places) == \A k \in places : Covered(data, buffer.cells[batch[k]].img, layouts)

\* The places of the batch that are still to be written.
Awaited == IF state = "prepare" THEN DOMAIN batch ELSE toWrite

SoundInv ==
  Sound(data) =>
    /\ state = "prepare" => batch # << >>
    /\ buffer.err = "none"
    /\ data.kind = "tar" => SoundBuffer(data, buffer) /\ Covers(Awaited)
=============================================================================
