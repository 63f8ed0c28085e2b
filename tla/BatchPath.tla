------------------------------ MODULE BatchPath ------------------------------
(***************************************************************************)
(* The way of a batch from the dataset to the consumer's tensors: the size *)
(* of the slots, the layouts of the batch, its headers, its items written  *)
(* by one thread or by several, and what _parse_slot finds in the slot     *)
(* (core/producer/{builder,helpers}.rs over the modules extended here).    *)
(*                                                                         *)
(*   new -> idle -> writing -> idle ...          failed, panicked          *)
(*                                                                         *)
(* Slots are used in turn and always free; Stream models who may use them. *)
(***************************************************************************)
EXTENDS ImageDatasets

CONSTANTS
  Datasets,    \* what the user may stream
  Batches,     \* the orders of items a batch may have
  BatchSize,   \* batch_size, of which slots are sized
  GivenSize,   \* the size of a slot where no dataset is probed
  Threads,     \* the threads of the pool; the first also runs the loop
  Threshold,   \* RAYON_THRESHOLD
  MaxBatches   \* bound: batches streamed

-----------------------------------------------------------------------------
(* What the constants are.                                                 *)

AnyImage == [id : Nat, h : Nat, w : Nat, damage : Damages]

AnyStep ==
  [op : {"RandomHorizontalFlip", "RandomCrop", "Resize", "Normalize", "ColorJitter"}, h : Nat, w : Nat, arg : Nat]

KeyNames == {"image", "label"} \cup UNION { { d.layouts[k].key : k \in DOMAIN d.layouts } : d \in Datasets }

AnyLayout == [key : KeyNames, shape : Seq(Nat), strides : Seq(Nat), dt : DOMAIN DtypeCells]

AnyFile == [img : AnyImage, jpeg : BOOLEAN, label : Nat, short : BOOLEAN]

AnyBlock(b) ==
  /\ b.is \in {"header", "data"} /\ b.type \in EntryTypes
  /\ b.size \in Nat \cup {NotOctal} /\ b.spaced \in BOOLEAN
  /\ b.img \in AnyImage

AnyDataset(d) ==
  /\ d.kind \in {"folder", "tar", "custom"} /\ d.probe \in Nat
  /\ d.files \in Seq(AnyFile)
  /\ d.archive \in Seq({ d.archive[k] : k \in DOMAIN d.archive }) /\ \A k \in DOMAIN d.archive : AnyBlock(d.archive[k])
  /\ d.cap \in Nat
  /\ d.augmented \in BOOLEAN /\ d.pipe \in Seq(AnyStep) /\ d.dt \in DOMAIN DtypeCells
  /\ d.layouts \in Seq(AnyLayout) /\ d.goesOn \in BOOLEAN
  /\ d.scripts \in Seq(Seq([key : STRING, cells : Nat, says : Nat, err : {"none", "Custom"}]))

\* A batch is a chunk of the epoch's items, which are permuted: it has at least
\* one item, and none twice.
ASSUME BatchAssumption ==
  /\ \A d \in Datasets : AnyDataset(d)
  /\ Batches \subseteq Seq(Nat) \ { << >> }
  /\ \A items \in Batches : \A j, k \in DOMAIN items : items[j] = items[k] => j = k
  /\ BatchSize \in Nat /\ GivenSize \in Nat /\ MaxBatches \in Nat
  /\ LabelDtype \in DOMAIN DtypeCells
  /\ NotOctal \notin Nat

VARIABLES
  data,      \* the dataset
  slotSize,  \* slot_size
  memory,    \* the slots
  state,     \* where the producer is
  error,     \* what it has ended in
  running,   \* FALSE after Ctrl-C
  slot,      \* current_slot
  batch,     \* batch_indices
  layouts,   \* single_layouts of the batch
  size,      \* current_batch_max of a folder
  toWrite,   \* places of the batch that no thread has written
  buffer,    \* the cells of a TarDataset and its reader
  scratch,   \* per thread: the length of DOUBLE_SCRATCH
  streamed,  \* batches published
  promised   \* history: per slot, what its batch is to show

sourceVars == << data, slotSize, batch, layouts, size >>
batchVars == << data, slotSize, memory, state, error, running, slot, batch, layouts,
                size, toWrite, buffer, scratch, streamed, promised >>

MainThread == CHOOSE t \in Threads : \A u \in Threads : t <= u

Items(d) == CASE d.kind = "folder" -> DOMAIN Samples(d.files)
              [] d.kind = "tar"    -> 1 .. d.cap
              [] d.kind = "custom" -> DOMAIN d.scripts

BatchInit ==
  /\ data \in Datasets
  /\ slotSize = 0
  /\ memory = << >>
  /\ state = "new"
  /\ error = "none"
  /\ running = TRUE
  /\ slot = 0
  /\ batch = << >>
  /\ layouts = << >>
  /\ size = NoSize
  /\ toWrite = {}
  /\ buffer = NewBuffer(data)
  /\ scratch = [t \in Threads |-> 0]
  /\ streamed = 0
  /\ promised = [s \in Slots |-> << >>]

\* Why the dataset cannot be made.
Unopened == IF data.kind = "folder" THEN OpenError(data.files) ELSE "none"

\* The layouts of one item, as the dataset gives them for these items.
LayoutsOf(items) ==
  CASE data.kind = "folder" -> FolderLayouts(data, FolderSize(data, { items[k] : k \in DOMAIN items }))
    [] data.kind = "tar"    -> TarLayouts(buffer, items)
    [] data.kind = "custom" -> data.layouts

NewSize(items) ==
  IF data.kind = "folder" THEN FolderSize(data, { items[k] : k \in DOMAIN items }) ELSE size

End(how, e) == state' = how /\ error' = e

EndWith(e) == IF e = "panic" THEN End("panicked", e) ELSE End("failed", e)

-----------------------------------------------------------------------------
(***************************************************************************)
(* The builder: from_dataset probes some items of the dataset, or the user *)
(* gives the size.  The cells of a TarDataset are empty until next_epoch.  *)
(***************************************************************************)
Probes == { p \in SUBSET Items(data) : Cardinality(p) = data.probe }

RoundedSize(n) == AlignTo(n, SlotAlign)

Unusable ==
  /\ state = "new"
  /\ Unopened # "none"
  /\ End("failed", Unopened)
  /\ UNCHANGED << sourceVars, memory, running, slot, toWrite, buffer, scratch, streamed, promised >>

Build ==
  /\ state = "new"
  /\ Unopened = "none"
  /\ \E p \in Probes :
       LET sized == IF data.probe = 0 THEN RoundedSize(GivenSize)
                    ELSE CalculateSlotSize(LayoutsOf(SetToSeq(p)), BatchSize)
       IN  /\ slotSize' = sized
           /\ size' = IF data.probe = 0 THEN size ELSE NewSize(SetToSeq(p))
           /\ memory' = [i \in 0 .. sized * NSlots - 1 |-> Zero]
           /\ IF sized = 0 THEN End("failed", "InvalidSlotSize") ELSE End("built", "none")
  /\ UNCHANGED << data, running, slot, batch, layouts, toWrite, buffer, scratch, streamed, promised >>

\* next_epoch, before the first batch.
FirstEpoch ==
  /\ state = "built"
  /\ IF data.kind = "tar"
       THEN /\ buffer' = Primed(data)
            /\ IF buffer'.err = "none" THEN End("idle", "none") ELSE End("failed", buffer'.err)
       ELSE End("idle", "none") /\ UNCHANGED buffer
  /\ UNCHANGED << sourceVars, memory, running, slot, toWrite, scratch, streamed, promised >>

-----------------------------------------------------------------------------
(* prepare_batch_metadata, and the head of copy_batch_to_shm.              *)

BatchHeaders == WithBatch(layouts, Len(batch))

DataAt == SlotOffset(slot, slotSize) + HeaderSize(BatchHeaders)

DataSize == ItemSize(layouts) * Len(batch)

Choose(items) ==
  /\ state = "idle"
  /\ streamed < MaxBatches
  /\ \A k \in DOMAIN items : items[k] \in Items(data)
  /\ batch' = items
  /\ layouts' = LayoutsOf(items)
  /\ size' = NewSize(items)
  /\ state' = "prepare"
  /\ UNCHANGED << data, slotSize, memory, error, running, slot, toWrite, buffer, scratch, streamed, promised >>

Prepare ==
  /\ state = "prepare"
  /\ LET at == SlotOffset(slot, slotSize)
         headers == WriteHeaders(memory, at, BatchHeaders)
     IN  IF \E k \in DOMAIN layouts : ~CanAddBatch(layouts[k])
           THEN End("failed", "InvalidShape") /\ UNCHANGED << memory, toWrite, promised >>
           ELSE /\ memory' = headers.out
                /\ promised' = [promised EXCEPT ![slot] = [k \in DOMAIN batch |-> << >>]]
                /\ CASE headers.err # "none" -> End("failed", headers.err) /\ UNCHANGED toWrite
                     [] headers.err = "none" /\ DataSize = 0 -> End("failed", "InvalidShape") /\ UNCHANGED toWrite
                     [] headers.err = "none" /\ DataSize > 0 ->
                          IF SliceFits(memory, DataAt, DataSize)
                            THEN End("writing", "none") /\ toWrite' = DOMAIN batch
                            ELSE End("failed", "BufferOverflow") /\ UNCHANGED toWrite
  /\ UNCHANGED << sourceVars, running, slot, buffer, scratch, streamed >>

-----------------------------------------------------------------------------
(***************************************************************************)
(* process_chunk: one item.  Few items are written in their order by the   *)
(* thread of the loop, many by all threads of the pool in any order.       *)
(***************************************************************************)
Parallel == DataSize >= Threshold

MayWrite(k, t) ==
  /\ k \in toWrite
  /\ \/ state = "writing"
     \/ state = "failed" /\ Parallel
  /\ ~Parallel => (t = MainThread /\ \A j \in toWrite : k <= j)

ChunkAt(k) == DataAt + (k - 1) * ItemSize(layouts)

Chunk(k) == [i \in 0 .. ItemSize(layouts) - 1 |-> memory[ChunkAt(k) + i]]

\* The image of an item of the batch.
ImageOf(idx) == IF data.kind = "folder" THEN Samples(data.files)[idx].img ELSE buffer.cells[idx].img

ItemDraws(idx) ==
  IF data.kind # "custom" /\ data.augmented THEN Draws(data.pipe, ImageOf(idx).h, ImageOf(idx).w) ELSE { << >> }

ScratchOf(idx, t) ==
  CASE data.kind = "folder" -> ScratchLeft(data, ImageOf(idx), size[1], size[2], scratch[t])
    [] data.kind = "tar"    -> ScratchLeft(data, ImageOf(idx), layouts[1].shape[2], layouts[1].shape[3], scratch[t])
    [] data.kind = "custom" -> scratch[t]

ItemWritten(idx, t, draws, writer) ==
  CASE data.kind = "folder" -> FolderWrite(data, idx, size, writer, scratch[t], draws)
    [] data.kind = "tar"    -> TarWrite(data, buffer.cells[idx], layouts, writer, scratch[t], draws)
    [] data.kind = "custom" -> CustomWrite(data, idx, writer)

\* What the consumer is to find of the item: pictures, labels, given cells.
Shown(what, pic, flat) == [is |-> what, pic |-> pic, flat |-> flat]

LabelShown(label) == Shown("flat", << >>, [i \in 0 .. DtypeCells[LabelDtype] - 1 |-> LabelCell(label, i)])

PictureShown(img, draws) ==
  Shown("picture", IF data.augmented THEN PipelineOf(data.pipe, PictureOf(img), draws) ELSE PictureOf(img), << >>)

\* The first write of a key that succeeds is the one that counts.
GivenShown(idx, l) ==
  LET script == data.scripts[idx]
      fits  == { k \in DOMAIN script : script[k].key = l.key /\ script[k].err = "none" /\ script[k].says <= AlignedBytes(l) }
      entry == script[CHOOSE k \in fits : \A j \in fits : k <= j]
  IN  Shown("flat", << >>, [i \in 0 .. entry.says - 1 |-> Given(idx, l.key, i)])

Promise(idx, draws) ==
  CASE data.kind = "folder" -> << PictureShown(ImageOf(idx), draws), LabelShown(Samples(data.files)[idx].label) >>
    [] data.kind = "tar"    -> << PictureShown(ImageOf(idx), draws), LabelShown(data.names[ImageOf(idx).id]) >>
    [] data.kind = "custom" -> [k \in DOMAIN layouts |-> GivenShown(idx, layouts[k])]

Interrupted(k) ==
  /\ \E t \in Threads : MayWrite(k, t)
  /\ ~running
  /\ toWrite' = toWrite \ {k}
  /\ End("failed", "Interrupted")
  /\ UNCHANGED << sourceVars, memory, running, slot, buffer, scratch, streamed, promised >>

\* Nothing is written with a writer that could not be opened.
IfOpened(w, idx, t, draws) == IF w.err # "none" THEN w ELSE ItemWritten(idx, t, draws, w)

\* The cell of a written record is refilled; an item whose cell cannot be
\* refilled fails as one that is not written in full.
Ended(wrote, refill) ==
  IF wrote.err # "none" THEN wrote
  ELSE IF refill.err # "none" THEN Refuse(wrote, refill.err) ELSE Finalize(wrote)

ItemResult(wrote, idx, draws) ==
  LET refill == IF data.kind = "tar" /\ wrote.err = "none" THEN Refill(data, buffer, idx) ELSE buffer
  IN  [out |-> wrote.out, draws |-> draws, buffer |-> [refill EXCEPT !.err = "none"], err |-> Ended(wrote, refill).err]

ItemResults(k, t) ==
  { ItemResult(IfOpened(NewWriter(layouts, Chunk(k)), batch[k], t, draws), batch[k], draws) : draws \in ItemDraws(batch[k]) }

WriteItem(k, t) ==
  /\ MayWrite(k, t)
  /\ running
  /\ \E item \in ItemResults(k, t) :
       /\ memory' = Overlay(memory, MovedTo(ChunkAt(k), item.out))
       /\ buffer' = item.buffer
       /\ scratch' = [scratch EXCEPT ![t] = ScratchOf(batch[k], t)]
       /\ IF item.err = "none"
            THEN promised' = [promised EXCEPT ![slot][k] = Promise(batch[k], item.draws)] /\ UNCHANGED << state, error >>
            ELSE EndWith(item.err) /\ UNCHANGED promised
  /\ toWrite' = toWrite \ {k}
  /\ UNCHANGED << sourceVars, running, slot, streamed >>

CtrlC ==
  /\ running
  /\ state = "writing"
  /\ running' = FALSE
  /\ UNCHANGED << sourceVars, memory, state, error, slot, toWrite, buffer, scratch, streamed, promised >>

\* set_slot_ready, and the next slot.
Publish ==
  /\ state = "writing"
  /\ toWrite = {}
  /\ memory' = SetSlotReady(memory, SlotOffset(slot, slotSize))
  /\ slot' = (slot + 1) % NSlots
  /\ streamed' = streamed + 1
  /\ End("idle", "none")
  /\ UNCHANGED << sourceVars, running, toWrite, buffer, scratch, promised >>

\* Ctrl-C was pressed before the check that follows the last write.
InterruptedLate ==
  /\ state = "writing"
  /\ toWrite = {}
  /\ ~running
  /\ End("failed", "Interrupted")
  /\ UNCHANGED << sourceVars, memory, running, slot, toWrite, buffer, scratch, streamed, promised >>

BatchNext ==
  \/ Unusable \/ Build \/ FirstEpoch \/ Prepare \/ CtrlC \/ Publish \/ InterruptedLate
  \/ \E items \in Batches : Choose(items)
  \/ \E k \in toWrite : Interrupted(k) \/ \E t \in Threads : WriteItem(k, t)

BatchSpec == BatchInit /\ [][BatchNext]_batchVars

-----------------------------------------------------------------------------
(* Properties.                                                             *)

States == {"new", "built", "idle", "prepare", "writing", "failed", "panicked"}

Errors == {"none", "panic", "Interrupted", "Exhausted", "MissingKeys", "UnknownKey", "KeyExists", "Custom",
           "BufferTooSmall", "BufferOutOfBounds", "BufferOverflow", "InvalidSlotSize", "InvalidShape",
           "InvalidLayout", "InvalidStride", "DecoderError", "InvalidParameter", "UnsupportedDtype",
           "Overflow", "HeaderError", "Empty", "IoError"}

(***************************************************************************)
(* Types: the memory always has the size the producer mapped, an item is   *)
(* written at most once, and an error ends the stream (core/producer/      *)
(* helpers.rs, core/buffer/mod.rs).                                        *)
(***************************************************************************)
BatchTypeOK ==
  /\ state \in States
  /\ error \in Errors
  /\ error # "none" <=> state \in {"failed", "panicked"}
  /\ state # "new" => DOMAIN memory = 0 .. slotSize * NSlots - 1
  /\ slot \in Slots
  /\ toWrite \subseteq DOMAIN batch
  /\ scratch \in [Threads -> Nat]
  /\ streamed \in 0 .. MaxBatches
  /\ \A i \in DOMAIN buffer.cells : buffer.cells[i].layout = << >> => buffer.cells[i].img = NoImage

\* The folder takes the step with the largest area to be the largest in both
\* dimensions, and cuts what is longer the other way.
CutsImages(d) ==
  d.kind = "folder" /\ d.augmented /\
    LET most == MaxIntermediateSize(d.pipe)
    IN  most # NoSize /\ (most[1] < OutputSize(d.pipe)[1] \/ most[2] < OutputSize(d.pipe)[2])

\* A long name that belongs to a skipped entry is given to the next file.
MisnamesFiles(d) ==
  d.kind = "tar" /\ \E k \in DOMAIN d.archive :
    /\ d.archive[k].type = "L" /\ d.archive[k].is = "header"
    /\ k + 2 \in DOMAIN d.archive /\ ~IsRegularFile(d.archive[k + 2])

ShowsFlat(cells, p) == \A i \in DOMAIN cells : cells[i] = IF i \in DOMAIN p THEN p[i] ELSE Zero

ShowsPicture(cells, shape, pic) ==
  LET h == shape[2]  w == shape[3]
  IN  /\ pic.h <= h /\ pic.w <= w
      /\ \A i \in DOMAIN cells :
           LET y == RowOf(i, h, w)  x == ColumnOf(i, w)
           IN  cells[i] = IF y < pic.h /\ x < pic.w THEN pic.at[<< ChannelOf(i, h, w), y, x >>] ELSE Zero

Shows(tensor, b, p) ==
  IF p.is = "flat" THEN ShowsFlat(tensor.items[b], p.flat) ELSE ShowsPicture(tensor.items[b], tensor.shape, p.pic)

Published == { s \in Slots : promised[s] # << >> /\ IsReady(memory, SlotOffset(s, slotSize)) }

(***************************************************************************)
(* Whatever batch a ready slot holds, the consumer's _parse_slot finds in  *)
(* it, for every item, the image as the decoder and the augmentations make *)
(* it, padded with zeros, and its label, and of a user's dataset what its  *)
(* closures wrote, padded with zeros.  It finds nothing of the batches     *)
(* that were in the slot before, and nothing that another thread left in   *)
(* its buffers.  Two cases of the code are left out, in which it finds     *)
(* something else: CutsImages and MisnamesFiles.                           *)
(***************************************************************************)
ReadersSeeItems ==
  ~CutsImages(data) /\ ~MisnamesFiles(data) =>
    \A s \in Published :
      LET tensors == ParseSlot(memory, SlotOffset(s, slotSize), Len(promised[s][1]))
      IN  \A k \in DOMAIN tensors :
            /\ Len(tensors[k].items) = Len(promised[s])
            /\ \A b \in DOMAIN promised[s] : Shows(tensors[k], b, promised[s][b][k])

(***************************************************************************)
(* A batch is written inside its slot: no step changes a cell of another,  *)
(* where the consumer may be reading (buffer/mod.rs:238, 269).             *)
(***************************************************************************)
WritesStayInSlot ==
  [][ state \notin {"new"} =>
        \A i \in DOMAIN memory :
          memory'[i] # memory[i] => SlotOffset(slot, slotSize) <= i /\ i < SlotOffset(slot + 1, slotSize) ]_batchVars

\* Nothing about the data is wrong: images decode, the pipeline takes them,
\* the archive is whole, the user's writes are each made once and fit.
SoundImage(d, img) == img.damage = "none" /\ (d.augmented => Accepts(d.pipe, d.dt, img.h, img.w))

SoundScript(d, script) ==
  /\ [k \in DOMAIN script |-> script[k].key] = Keys(d.layouts)
  /\ \A k \in DOMAIN script : script[k].err = "none" /\ script[k].says <= AlignedBytes(d.layouts[k])

DistinctKeys(ls) == \A j, k \in DOMAIN ls : ls[j].key = ls[k].key => j = k

\* The header at a place says what follows it, and of a file an image follows.
SoundEntry(archive, o) ==
  LET block == archive[o + 1]
  IN  /\ block.size # NotOctal /\ ~block.spaced
      /\ o + 1 + block.size < Len(archive)
      /\ IsRegularFile(block) => FileName(block) # NotUtf8 /\ block.size > 0 /\ archive[o + 2].img # NoImage

\* From a place on, one such entry follows another up to the end mark.
SoundFrom(archive, o) ==
  \E entries \in SUBSET { p \in 0 .. Len(archive) - 1 : archive[p + 1].is = "header" } :
    /\ o \in entries
    /\ \A p \in entries :
         \/ IsEnd(archive[p + 1])
         \/ SoundEntry(archive, p) /\ p + 1 + archive[p + 1].size \in entries

\* `then` puts no step that changes the size after one that does not.
InOrder(pipe) == \A j, k \in DOMAIN pipe : j < k /\ ChangesSize(pipe[k]) => ChangesSize(pipe[j])

SoundPipeline(d) == ~CutsImages(d) /\ InOrder(d.pipe) /\ ~CopiesScratch(d.pipe)

Sound(d) ==
  /\ d.probe = 0 => GivenSize > 0
  /\ d.augmented => SoundPipeline(d)
  /\ CASE d.kind = "folder" -> /\ OpenError(d.files) = "none"
                          /\ \A i \in DOMAIN d.files : (d.files[i].jpeg => SoundImage(d, d.files[i].img))
       [] d.kind = "tar" ->
            /\ d.probe = 0
            /\ SoundFrom(d.archive, 0)
            /\ \A k \in DOMAIN d.archive : d.archive[k].img # NoImage => SoundImage(d, d.archive[k].img)
       [] d.kind = "custom" ->
            /\ DistinctKeys(d.layouts) /\ ItemSize(d.layouts) > 0
            /\ \A i \in DOMAIN d.scripts : SoundScript(d, d.scripts[i])
            /\ \A k \in DOMAIN d.layouts : CanAddBatch(d.layouts[k])

(***************************************************************************)
(* From sound data only Ctrl-C, or a TarDataset that has run out of        *)
(* records, ends the stream, if the slots are as large as the batches: no  *)
(* buffer on the way is too small, no slice out of bounds, no key missing, *)
(* on any thread after any other images.  Not so for CutsImages, and for a *)
(* pipeline that CopiesScratch, which panics or not by what the thread has *)
(* done before.                                                            *)
(***************************************************************************)
SoundItemsNeverFail ==
  Sound(data) => \/ error \in {"none", "Interrupted"}
                 \/ /\ error \in {"Exhausted", "InvalidShape"}
                    /\ data.kind = "tar" /\ \E k \in DOMAIN batch : buffer.cells[batch[k]].img = NoImage
=============================================================================
