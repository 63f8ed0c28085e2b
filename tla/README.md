# Verification of zero-tensor

zero-tensor streams training batches from a Rust process (the *producer*,
`zero-tensor-rs`) to a Python process (the *consumer*, `zero-tensor-py`) through
a ring of slots in shared memory. This directory holds TLA+ modules of that
system, the TLC configurations that check them on small instances, and proofs
that TLAPS checks for every value of their parameters. Five subsystems are
modelled: the *stream* (producer, consumer and the ring between them), the
*lifecycle* (producers built and dropped on the same names, and the consumers
that connect to them), the *tar dataset* (the buffer that threads refill from tar
shards, and the streaming loop's schedule over it), the *path of a batch* (from
images and archives through augmentations and writers into the bytes of a slot,
and out of it), and the *transforms* (the operators of a pipeline over tensors).

    tlc -config stream_faults.cfg MCStream.tla     # one run
    tlc -config lifecycle.cfg MCLifecycle.tla
    tlc -config tar_stream.cfg MCTarStream.tla
    tlc -config batch_path.cfg MCBatchPath.tla
    tlc -config transforms.cfg MCTransforms.tla
    tlapm StreamProofs.tla                         # the ring, and that it is a channel
    tlapm TarStreamProofs.tla                      # the tar buffer and the loop over it
    tlapm LifecycleProofs.tla                      # names and whom they belong to
    tlapm TransformProofs.tla                      # operators, and pipelines of them
    tlapm BatchProofs.tla                          # batches stay in their slots
    tlapm ItemProofs.tla                           # what is written of an item
    tlapm ReaderProofs.tla                         # what the consumer finds of it
    tlapm SoundProofs.tla                          # that sound data never fails

## 1. The system

### Components, their state and their operations

| Component | Source | State | Operations |
|---|---|---|---|
| Ring | `core/buffer/control_block.rs`, `core/buffer/mod.rs`, `tensor_meta.rs` | `head`, `tail`, `is_running`, per slot: `is_ready`, tensor headers, items | atomic loads and stores, `write_tensor`, `get_item_slice_mut`, `set_slot_ready` |
| Stream socket | `producer/mod.rs`, `consumer.py` | bytes in flight, two ends open or closed | `EPOCH_DONE`, `START`, `STOP`, handshake, end of file |
| Streaming loop | `producer/mod.rs`, `producer/helpers.rs` | `cur_head`, `current_epoch`, `epoch_step`, the Ctrl-C flag, writer caches | roll an epoch over, claim a slot, undo the claim, spin, write headers and items, publish, return |
| Producer lifecycle | `producer/builder.rs`, `producer/mod.rs`, `buffer/mod.rs` | shared memory file, socket file, listener, Ctrl-C handler of the process | build, accept, handshake, drop; `connect` and `close` on the other side |
| Prefetch worker | `consumer.py` (`_prefetch_worker`, `_read_next_slot`, `_parse_slot`) | `read_tail`, the prefetch queue, `_prefetch_exc` | throttle, poll head, select, receive, wait for `is_ready`, parse, put |
| Iteration and release | `consumer.py` (`_iter_epoch`, `_drain_releases`, `to_device`, `close`) | `_pending_releases`, `_release_tail`, the batch held by the user | take a batch, record a GPU copy, release, end an epoch, raise, close |
| Tensor writer | `core/writer` | offset and size of each key, which keys are written | write a tensor of an item into its part, clear the rest of the part, finalize |
| Dataset trait | `core/dataset` | - | layouts of an item, of a batch, merging, strides |
| Tar dataset and reader | `dataset/tar` | `shuffle_buffer` (a lock per cell), `tar_reader`, `shard_paths` and `current_shard_idx` (a lock each), `exhausted` | next epoch, prime the buffer, write an item and refill its cell, go to the next shard |
| Tar reader | `dataset/tar/tar_reader` | place in the archive, a long name not yet used | next record: header, long name, skipped entries, end |
| JPEG folder, JPEG processor, decoder | `dataset/image`, `dataset/tar/processors`, `decoder` | samples, `current_batch_max`, two buffers per thread | decode, augment, pad, write image and label |
| Augmentation pipeline | `augmentation` | two scratch buffers per thread | run each augmentation from one buffer to the other |
| Transform pipeline | `pipeline`, `transform` | the tensor | element-wise operators, in place, in sequence or row by row |

### How they interact

The two processes share one memory segment and one Unix stream socket. The
producer claims a slot by raising `head`, writes it, and sets the slot's
`is_ready`; the consumer's worker thread waits for `head` to pass its own
`read_tail` and for `is_ready`, reads the tensor headers and puts *views* of the
slot into a bounded queue; the user's thread takes them from there, lends them
to the training loop and releases a slot by raising `tail`, at once or when the
GPU copies taken from it have completed. The socket carries `EPOCH_DONE` from
the producer, in no order with the ring, and tells each side of the other's end.

Inside the producer, the streaming loop asks the dataset for the next epoch,
permutes the numbers of its items, and cuts them into batches; rayon's threads
then call `write_item_into` for the items of one batch at once. A `TarDataset`
answers from its buffer, and the same call refills the cell it has emptied, from
one reader shared by all threads, which goes from shard to shard.

An item is written into its part of the slot by the dataset, through a
`TensorWriter` that hands out the bytes of one key at a time: an image is decoded
(into a buffer of the thread if it is to be augmented), goes through the
augmentations from one buffer to the next, and is copied with padding to the size
that the whole batch has; the label follows. The consumer's `_parse_slot` finds
the tensors again from the headers alone.

Around the stream, a producer makes the memory and then the socket under names
the user gives; drop takes both names away. Nothing ties the names to one
producer: a second one on the same names opens the same memory, before it looks
whether the socket exists.

### What is hard in it

- `head` is raised *before* the slot is written, and the check for space comes
  after that: a claim is visible, and may be undone, before it means anything.
- `is_ready` of a reused slot stays set from the lap before until the first
  header of the new batch is written.
- `tail` is counted and not named: the release list must stay in step with it
  across forced releases, `break`, `close()` and GPU copies that end out of order.
- The worker and the user's thread share a queue, an exception slot and a dead
  flag, and look at them one after the other.
- Either process may be killed, interrupted or closed at any step.
- A refill reads `exhausted` before it takes the reader's lock, and may find it
  changed; it loops under the lock over shards that are empty.
- `next_epoch` does not empty the buffer, and may come after an epoch that was
  given up half-way; `exhausted`, the shard index and the cells are then old.
- An epoch has `total_epoch_len` items for the number of steps and `len()` items
  for the cells that exist; for a tar dataset they differ.
- Slots, scratch buffers and caches are reused: what a batch does not write is
  what another one left.
- The size of a batch is chosen three times: when slots are sized from probed
  items, when the layouts of the batch are asked for, and when an item is written.
- Build, drop and Ctrl-C of several producers meet in two names and one handler a
  process; each may be killed between any two system calls, and consumers connect,
  wait and leave meanwhile.
- Overflow of an operator is looked for over the whole tensor, or over a row,
  before an element is changed; bounds and scalars are converted between types
  that do not hold each other, and a float has fewer digits than an integer as wide.

`PROJECT.json` lists each hazard at its line, with the properties that cover it,
or why none does.

## 2. The modules

| Module | What it is |
|---|---|
| `SharedMemory` | the ring, the socket, the state after the handshake |
| `Producer` | `start_streaming_loop`, one action per step another process can observe |
| `Consumer` | the prefetch worker and the user's thread, up to `close()` |
| `Stream` | the composition, its fairness and its properties |
| `BatchStream` | the abstract specification: a bounded channel of batches |
| `StreamInvariants` | the inductive invariant, in named parts |
| `MCStream` | what TLC's runs need on top |
| `StreamProofs` | arithmetic of `seq % NSlots`, the invariant's proof, the theorems that follow from it, and that `Stream` implements `BatchStream` |
| `TarDataset` | the buffer, the shared reader, and every call on them, with any number of threads |
| `TarInvariants` | the buffer's inductive invariant |
| `TarStream` | the streaming loop over a `TarDataset`: epochs, shuffling, batches, skipped steps |
| `TarStreamInvariants` | the loop's inductive invariant |
| `MCTarStream` | shards for TLC |
| `TarStreamProofs` | the buffer's theorems, then the loop's, among them that it is one of the callers `TarDataset` allows |
| `Lifecycle` | producers and consumers on the same two names, with their inductive invariant |
| `MCLifecycle` | what producers are built with in TLC's run |
| `LifecycleProofs` | the lifecycle's theorems |
| `Images` | pictures cell by cell: decoding and the two ways of padding |
| `Augmentations` | flip, crop, resize, normalize, jitter, and the pipeline over two scratch buffers |
| `ImageReference` | what the augmentations are to do, on whole pictures, without buffers |
| `TensorSlots` | layouts, sizes and headers of a slot, and `_parse_slot` |
| `TensorWriter` | the parts of an item and who may write them |
| `TarReader` | `next_record` over an archive of blocks |
| `ImageDatasets` | `JpegFolderDataset`, `TarJpegProcessor` over a `TarDataset`'s cells, and a user's dataset |
| `BatchPath` | builder, batch metadata, headers, threads, publishing; composes the modules above |
| `BatchInvariants` | the inductive invariants of `BatchPath`: what it takes for a batch to fit in its slot, and what the slots hold |
| `MCBatchPath` | datasets with small images |
| `BatchProofs` | loops and sums, headers, layouts, slot sizes; reader, buffer, decoder, augmentations and writer: their types and how they may end; then where the batch path writes |
| `ItemProofs` | pictures in buffers, each augmentation, pipelines of any length, padding, and the item that is made of them |
| `ReaderProofs` | headers and `_parse_slot`, what each action leaves in the slots, and what the consumer finds there |
| `SoundProofs` | what sound data needs on its way through pipeline, writer, reader, buffer and headers, and that no step of it fails |
| `Scalars` | the scalar type: conversions, rounding, comparison, promotion, arithmetic |
| `Transforms` | the four operators and the two ways a pipeline runs them |
| `TransformReference` | what a pipeline is to do, on whole tensors, and its properties |
| `MCTransforms` | small types in the order of the real ones |
| `TransformProofs` | rounding and its order, the theorem that each operator gives what the reference gives of one element, then the pipeline's theorems |

### How state and actions correspond to the code

Batches are named by the value of `head` that claimed them: 0, 1, 2, ... A slot
is `[ready, meta, data]`: the `is_ready` flag, the batch whose headers it holds
and the batch whose items it holds, `NoBatch` when the bytes are those of no one
batch. `read_tail` of the worker, `cur_head` of the producer, `_pending_releases`
(`pending`) and the queue appear under their own names. `_release_tail` is always
the value last stored in `tail`, and is not a variable of its own.

The producer's program counter `ppc` walks through the loop body:

    top -> claim (fetch_add) -> load (tail, compare)
        -> prepare -> headers (is_ready cleared) -> items -> ready -> top
        -> undo (fetch_sub) -> spin -> top

An access to the control block that another process can observe, or whose value
another process can change, is a step of its own. Where the code reads two
shared values in one expression (`head - tail` while spinning) one of them
belongs to the reader, so one step is enough. `prepare_batch_metadata` touches
no shared state and is the step from `load` to `prepare`. The rayon chunks of
one batch write disjoint parts of a slot and are joined before `set_slot_ready`:
they are the one step `CopyItems`.

`Return` stands for every `return` of the loop: the caller's stream is dropped,
which closes the producer's end. `TopInterrupted` and `SpinInterrupted` also
clear `is_running`; an error in the middle of a batch (`BatchFails`,
`CopyInterrupted`) does not, and leaves `head` raised.

The worker's `wpc` and the user's `ipc` follow `_prefetch_worker`,
`_read_next_slot`, `_iter_epoch`, `_drain_releases` and `close()` in the same
manner. `_drain_releases` is a loop with one `tail` store per round; `forceTo` is
its argument and `after` the place its caller goes on from. `event.synchronize()`
is the step that waits until `CopyCompletes`. `None` in the queue is an end
marker: `"end"` for an epoch, `"stop"` for the worker's end, which the code does
not tell apart and the model only names for the properties.

In `TarDataset` a record is the pair of its shard and its place there, and the
reader is how many records of the open shard it has read. Every mutex that threads
contend for is visible in the model: a thread that is not `idle` holds its cell's,
the one in `refill` also holds the reader's (`holder`). The list of shards is only
read by them, and changed only when none of them is in a call. The call
`write_item_into` is

    idle -WriteItem-> check (exhausted) -> lock -> refill (loop) -> idle

and one round of its loop is one step, which finds a record (`RefillRecord`), the
end of a shard (`RefillNextShard`), an `exhausted` set by another thread
(`RefillExhausted`), or fails. `prime_initial_buffer` is the same loop on the
calling thread, one step a round. `ReaderFails` is what a damaged archive, a
shard that does not open and a record without a layout leave behind. A failed
call is `phase = "failed"`: threads that are inside a call go on, no new call is
made, and `next_epoch` may start again, as the trait allows. `served` (what was
handed out since `next_epoch`) and `damaged` (something was found damaged) are
history variables; no guard reads them.

`TarStream` adds the variables of `start_streaming_loop` under their names; its
steps call the actions of `TarDataset`, with `BatchItems` in the place of
`indices[start_idx..end_idx]`. `primed`, the buffer as `next_epoch` left it, is
history. The ring is left out there: a batch finds a slot. `Stream` has the loop
with the ring and without the dataset; both map to the same lines.

`Lifecycle` has a producer's `pc` go through the system calls of `build`,
`start_streaming` and `drop` in their order:

    new -> opened (shm_open) -> cleared (ftruncate, mmap, zeroes) -> buffered
        -> [removing] -> binding -> built -> listening -> accepted -> reading
        -> streaming -> built -> unlinking -> closing -> ended

with `unwinding` for a build whose buffer exists and is dropped, and `failed` for
one in which `ZeroTensorBuffer::new` itself fails. A segment bears the number of
the producer whose `shm_open` made it, so that `shm` (what has the name) and
`mapped` (what a producer writes) can differ. Producers are numbered in the order
their builds begin, consumers in the order they connect; a process that is killed
may be begun again, with producers that are new. `options` gives each producer its
process, since a process has one Ctrl-C handler and the first producer keeps it. A
stream only begins and ends there; `Stream` is its inside. `segments[s].stopper`,
`recycled`, `late` and `asked` (whom Ctrl-C has found alive) are history.

`BatchPath` has memory cell by cell, a cell holding one header field or one
element of the type that is one cell wide (`DtypeCells`); a pixel is named by
image, row, column and channel, and by what was done to its value. `WriteItem` is
one call of `write_item_into` and `finalize`: threads write disjoint parts of the
slot, and their order is free; each keeps the length of its own scratch buffers.
Scratch that no one has written this time is `Stale`, so that it would be seen in
a slot. In the arguments of `Write`, `r` is what the closure makes of its part.

In `Transforms` a tensor is a matrix; `RowStep` is one operator on one row by any
thread, `SeqStep` one operator on the whole. A number is counted in halves, so that
the fraction 1/2 is 1 and an integer is even. A type ends at `MaxOf`; of the numbers
up to there a float type has those in `Held`, and every cast to it and every result
in it is rounded to the nearest of them, of two to the even one, or to an infinity.
A bound of an integer type that is compared as an `f64` is rounded first, as
`float_to_int` does it: the largest `i64` becomes the number after it.
`Arithmetic` has the four operators of `Scalar`; an integer result that does not fit
wraps or panics, as the build has it, and a division without a result panics.

Data races are choices: `ParseSlot` reads the headers a slot has at that moment,
whatever the producer is doing to it (`NoBatch` is what it finds half-way).

## 3. What the runs check

`U64` is 1024 in the runs: the only place the width
shows is `Occupied`, where a negative difference wraps to more than any ring
holds, and any modulus above the ring's size does that.

| Run | Instance | Shows |
|---|---|---|
| `stream_faults` | 2 slots, prefetch 2, epoch longer than the dataset, limit 7; dataset errors, Ctrl-C, both kills, GPU copies, `break`, `close()`; fair | the ring implements `BatchStream`: an exact bounded channel on its first lap, with a receiver at most one batch early later; without GPU copies every batch handed out is released, unless the consumer is killed, and the producer ends, unless `tail` overran `head`; published batches stay whole; which slot may be written and released when; headers are one lap old at most; the queue has room; the inductive invariant; each side notices the other's end, the user gets the exception |
| `tar_stream` | shards of 2, 0 and 3 records, 3 cells, 3 threads, batches of 2, 3 steps an epoch of which one is empty, limit 8, shuffled, `start_streaming` called again at will; damage; fair | no record is lost or handed out twice, whatever epoch was given up before; cells are empty only at the end; an error only on damage; every call and the loop end; both inductive invariants |
| `lifecycle` | 2 producers of one process or of two, with and without `overwrite_socket`, with sizes that are valid or not; 2 consumers; kills and Ctrl-C of both processes, kills of consumers; fair | names in the file system have owners; a stream is stopped by its own consumer or by Ctrl-C; a consumer waits for ever only behind another's stream, or another's silence; Ctrl-C ends a producer unless its handler was refused or it reads from a silent consumer; the inductive invariant |
| `batch_path` | folders, archives and a user's datasets: images of up to 2 x 2 by 3 channels, pipelines of up to 4 augmentations, 2 threads, 3 batches over 2 slots | the consumer finds in a ready slot exactly the items of its batch, augmented as the reference says and padded with zeros; sound data never fails; batches of measured datasets fit in their slots; a batch stays in its slot; `BatchInv` is the proofs' invariant |
| `transforms` | every operator with integer and float scalars, alone and followed by another, or made of scalars by `+ - * /`, `-` and `!`, over two rows of six types (`i64` among them); sequential and by rows | every step gives the reference's result or leaves the data alone; both modes refuse the same tensors; bounds never cross into a panic, and `unreachable!` is not reached; promotion keeps the operands, but for those that it names; `TransInv` is the proofs' invariant |
| `stale_lap`, `undone_claim`, `copy_stall`, `epoch_boundary`, `death_unseen`, `slot_overrun`, `epoch_cut` | as small as shows it | seven promises of the documents and tests that the code does not keep (section 6) |

**Bounds.** `MaxSteps`, the program's own `max_steps`, ends the producer; nothing
else is cut off, and no state constraint is used. `max_steps` counts one epoch
too many (`LimitReached`), so a limit of 7 with 3 steps an epoch, of which the
dataset has items for 2, streams 3 batches, or a lap and a half of a ring of 2:
enough for a slot to be claimed, undone, filled, released and reused with the flag
of the lap before, with every failure at every step. The runs without failures
that look for a counterexample have 8 steps, up to 2.5 laps. What holds on every
lap of every ring is proved. A prefetch factor of 2
over 2 slots lets the worker run a whole ring ahead of the user and makes it wait
at the throttle. Two epochs let `EPOCH_DONE` overtake batches. `TailBound` only
bounds a quantifier over the values of `tail`.

Three threads are the fewest where one is in the refill while another has read a
stale `exhausted` and a third is still to write. An empty shard makes a refill
loop, and a shard list longer than the buffer and shorter than twice its size
lets a buffer run empty in the middle of an epoch. The tar runs have no bound but
the constants: `start_streaming` is called again for ever, and the state is
finite. `TotalSamples = 5` is the number of records, as the constructor counts
it; with 3 cells and batches of 2 the second batch is short and the third step
has no item.

Two producers and two consumers are the fewest with a producer over another's
segment, a consumer behind another's stream, and one greeted by a producer that
the next replaces; the producers and consumers themselves are not used again, so
that the state is finite without a bound. `MCGiven` has the pairs of options that
differ in what they can reach: one handler for both, a build over a socket that is
there, sizes that no control block takes.

`MaxBatches = 3` over 2 slots reuses a slot for another batch, of other and of
fewer items; the threshold is set so that pairs of larger items go to both threads
and smaller ones to the first. The images differ in both directions, so that
padding, transposition and the wrong one of two sizes show. `MCDatasets` has, for
each `match` and early return of the datasets, data that takes it. Transforms'
types keep the order of the real ones (`f16` between `u8` and `i32`, `bf16` as far
as `f32`), and their digits: a half or an `f32` of two binary digits lacks some
`i32`, an `f64` of three has them all and lacks the largest `i64`, 11, which is 12 in
it. The numbers are on and beside these limits. Rows are symmetric: no definition
tells them apart.

**Fairness** (`FairSpec`). Weak fairness of the producer's thread, of the worker,
of the user's thread and of the completion of GPU copies: the kernel schedules
runnable threads, a CUDA event completes, and the user's loop body ends. The
user is never obliged to copy, `break`, close or be killed, and Ctrl-C and
dataset errors never have to happen. No strong fairness is assumed.
`TarFairSpec` has weak fairness of each thread inside a call and of the thread
inside `next_epoch`, and no obligation to call. Weak fairness is enough for
`LockReader` although the lock comes and goes: another thread can take it only
with a record to read or a shard to open, `next_epoch` waits for all threads, and
so a waiting thread is overtaken finitely often. `StreamFairSpec` only asks that
the producer as a whole does not stop. `Lifecycle`'s `Going` has weak fairness
of each producer's thread and of each consumer's `connect`, and strong fairness of
`DropSocket`: the program does not call `start_streaming` for ever, which weak
fairness does not say, since dropping is impossible during each call. `SayStart` is
not among a consumer's fair steps: who has connected may say nothing for ever, for
nothing in the protocol makes it speak. `StreamOver`, `Connect`, `Close`, Ctrl-C and
kills are never obliged either. `batch_path` and
`transforms` check safety only.

**Properties** are stated in `Stream`, `TarDataset`, `TarStream`, `Lifecycle`,
`BatchPath` and `TransformReference` (and `EveryBatchReleased` and `ReleasedUnlessCopied` in `MCStream`,
`MeasuredBatchesFit` in `BatchInvariants`), each with the sentence that it formalises. `ReadersSeeItems` compares two descriptions:
what the cells of the slot hold after decoding, scratch buffers, padding and
parsing, and what `ImageReference` makes of the picture as a whole.

## 4. What is proved

**The stream.** For every `NSlots >= 1`, every `PrefetchFactor >= 1`, every schedule, every
choice of failures and user actions, and every `U64 > NSlots`:

| Theorem | States |
|---|---|
| `StreamProofs!Invariance` | `Spec => []Inv` |
| `TypeCorrect` | `[]TypeOK` |
| `PublishedStaysWhole` | a batch published and not released is ready in its slot, headers and items |
| `FirstLapIsGated` | no batch is parsed unpublished before the ring has been filled once |
| `HeadersAreOfOneLap` | headers that are parsed are the batch's own, those of the slot's last batch, or half-written |
| `PutNeverBlocks` | the queue never exceeds the prefetch factor |
| `ReleasesAreCounted` | the release list is in step with `tail` |
| `ListedSlotsKeepTheirBatch` | the producer writes a slot of the release list only for the batch that the list has it for |
| `ImplementsLookaheadStream` | `Stream` implements `BatchStream`: batches are published, received and released in order, each once, at most `NSlots` published and not released, the receiver never early on the first lap and at most one batch early later |

Assumptions: `RingAssumption`, `ScheduleAssumption` and `PrefetchAssumption`,
which bound the constants and nothing more.

Its inductive invariant (`StreamInvariants!Inv`) has these parts:

- `HeadInv` ties `head` to the producer's counter: equal to the batches
  published, one more while a claim is held, or one more for ever once the loop
  has returned in the middle of one.
- `SpaceInv`: after `CheckSpace` there is room, so a batch is only written when
  the one a lap below has been released.
- `SlotInv`: every published, unreleased batch is whole, and of the slot being
  written what is written so far.
- `ReaderInv`: `read_tail` is at most one ahead of what is published, and the
  places from which it may move on are reached only when `head` had passed it.
- `LapInv`: the slots of the next `NSlots` batches have headers of the batch one
  lap before or of none, whoever has released that batch; only the first of them
  may have its own already. With `PublishedIntact` it says what a reader can find
  in any slot it can be at.
- `QueueInv`: room in the queue, per place of the worker.
- `ReleaseInv`: `tail`, the release list, the batch in hand, the queue and
  `read_tail` form one chain of consecutive batches (`Chain`), with gaps only
  where `close()` throws the queue away.

None of the listed properties is inductive alone. `PublishedIntact` needs
`SpaceInv` (or the writer could be on a published slot); `SpaceInv` needs that
`tail` does not outrun what was published by more than the one batch a reader
may be early, which needs `ReaderInv` and the whole of `ReleaseInv`, since `tail`
is raised from the release list. Wrapping of `head - tail` when `tail` is ahead
of `head` is what makes the space check answer *full* there, and is used in the
proof of `SpaceInv`.

The first lemmas of `StreamProofs` hold the arithmetic: two batches in one slot are equal or a
multiple of `NSlots` apart, so within one lap they are equal.

**The tar dataset.** For every list of shards (empty ones included), size of the
buffer, set of threads and choice of damage, and for the loop every batch
size, `total_epoch_len`, limit and shuffling:

| Theorem | States |
|---|---|
| `TarStreamProofs!TarInvariance` | `TarSpec => []TarInv` |
| `TarTypes` | `[]TarTypeOK` |
| `RecordsAreConserved` | while an epoch is in order, what has been read is, each record once, handed out or in a cell still to be |
| `EmptyCellsMeanTheEnd` | a cell is empty only when the last shard has been read to its end |
| `LoopIsACaller` | `StreamSpec => TarSpec`: the loop keeps to what `TarDataset` allows its caller (one `next_epoch` at a time, none during a call), so that the theorems above hold in it |
| `TarStreamInvariance` | `StreamSpec => []TarStreamInv` |
| `FullBufferStreams` | with at least as many records as cells and no empty record, the loop returns an error only after damage |

Assumptions: `TarAssumption` and `StreamAssumption`, the constants' types.

`TarInv` needs, besides the properties themselves, `PositionInv` (the reader is
inside the open shard, so that the next record has not been read),
`ThreadInv` (two threads are never in one cell, and a busy cell is not empty: a
refill overwrites only a record that was handed out), and `PrimeInv` (the same
conservation in the middle of priming, where the cells above `cell_idx` hold what
an old epoch left there). Its last conjunct, that the number of records read
equals `cellIdx`, is what `SpareInv` needs: a cell beyond the number of all
records is never filled. Without `SpareInv`, `EmptyOnlyAtEnd` could not be
inductive for an epoch that follows one given up, because such a cell keeps its
old content through priming; with a counted prefix it is seen that it has none.

`TarStreamInv` adds what the loop guarantees: where it may call (`LoopInv`), that
epoch 0 is a phantom whose steps are never streamed (`PhantomInv`), that the
cells not yet taken are as they were primed (`ScheduleInv`, which follows because
`indices` is a permutation, so that no later batch meets an earlier cell), and
that a full buffer is primed full (`FullInv`).

**The lifecycle.** For any producers and consumers (numbers), any processes, and
any options they are built with:

| Theorem | States |
|---|---|
| `LifecycleProofs!LifecycleInvariant` | `LifecycleSpec => []LifecycleInv` |
| `LifecycleTypeCorrect` | `[]LifecycleTypeOK`, with it that a producer has a connection exactly while it serves one |
| `NamesAlwaysHaveOwners` | a name belongs to a producer that is still to be dropped, was killed, or failed in `ZeroTensorBuffer::new` |
| `StreamsStoppedByTheirOwn` | as long as no segment has been opened twice, a control block is stopped by its producer, by the consumer it serves, or by one that opened the name late |

Assumption: `LifecycleAssumption`, the constants' types. `StoppedByItsOwn` is not
inductive: a consumer stops the segment it has mapped, so one must know whose that
is. `SegmentsApart` says it: until a segment is opened again, a producer between
`shm_open` and `shm_unlink` has its own segment and the name (a build that finds
no name has no such producer beside it), a running control block is its
segment's own, and a consumer that opened the name in time has the segment of the
producer it reached. For that, `ConsumersLinked` has to say where the producer of
a consumer can be, and `HeldMapped` that a producer that writes has a segment.

**The transforms.** For any tensor (any rows, columns and elements), any ends and
numbers of the types that are in the order of the real ones, and pipelines of any
steps and any length:

| Theorem | States |
|---|---|
| `TransformProofs!StepsAreExact` | on a number of a type, each operator gives the reference's value where that is defined, an error exactly where it is not, and never panics. For integers the value is the exact result, with 2^63 taken for the largest `i64` as the code takes it; for floats it is rounded |
| `TransformInvariant` | `TransSpec => []TransInv` |
| `TransformTypeCorrect` | a cell holds a number of the tensor's type |
| `RowsAlwaysHoldWholeSteps` | each row holds what the reference makes of it in a whole number of steps, in both modes and after any failure |
| `PipelinesFailAsOnePiece` | in either mode a pipeline succeeds only where the reference defines each step for each cell, and fails at a step that it does not define for some cell |
| `ResolvedBoundsNeverCross` | no clamp panics, neither on crossed bounds nor in `unreachable!` |
| `PromotionAlwaysKeepsOperands` | a promoted type has both its operands to the last digit, but for an `i64` beside a float and an `i32` beside a half or an `f32`: of these it has the `f64` or `f32` nearest to them (`KeptAs`) |

Assumptions: `MaxOfAssumption` (the order of the types' ends: `bf16` reaches no
further than `f32`, an integer type's ends are whole), `HeldAssumption` (which numbers
a float type has: its ends and zero, one magnitude where infinity begins, the numbers
of the narrower float types, every `u8` and `i8` in `f32`, every `i32` in `f64`, the
whole numbers beside each fraction, and that the largest `i64` becomes the number
after it as an `f64`) and `TransformAssumption` (the constants' types). The real
types meet them, without their fractions below 1/2. `RowsAlwaysHoldWholeSteps` and
`PipelinesFailAsOnePiece` are about tensors with an element: on an empty one, a step
whose scalar does not convert is an error and yet no element exists for which it is
undefined.

The first theorem says nothing of states. It compares the operators as the code
computes them (conversions first, then a loop over the cells, wrapping, rounding
and saturating by cases on the types) with the reference, which states the result
in unbounded arithmetic: the one number of the type that is congruent to the sum,
the number nearest to the element that the bounds allow. It needs that the number
the reference chooses exists and is unique (`NumbersCounted`, that a type of `k`
numbers wraps at `k`), which numbers a type converts to which others
(`TypesOrdered`, `TypesBeside`), and that rounding keeps the order of what it rounds
(`ClosestOrder`), so that neither bounds nor the ends of a type cross by it.

The rest is induction over states. `RowsHoldWholeSteps` speaks of `After(c, k)`, a
recursive function of the number of steps, and `ThroughSteps` unfolds it: the
function exists for each length, those of two lengths agree, and so one more step
is one more `Value`. It is proved by `InductionOnSet`, which follows from the
well-foundedness of `Nat` and takes a set and no operator. To be inductive the
property needs that steps are as their constructors return them and every cell,
finished or not, holds a number of its type (`PipelineInv`: a step is exact on
nothing else), that nothing is applied while the pipeline is built (`BuildInv`: the
reference starts from the tensor as `exec` gets it), and where a row may be when
the call returns (`OutcomeInv`).

**The batch path.** For any datasets (folders with any files, archives of any
blocks, a user's with any scripts), any batches of their items, any pipelines,
slot sizes, numbers of slots and threads:

| Theorem | States |
|---|---|
| `BatchProofs!BatchInvariant` | `BatchSpec => []BatchInv` |
| `BatchTypeCorrect` | `[]BatchTypeOK` (in the run a part of `BatchInv`): the memory keeps its length, errors are of the known kinds, and there is none while the producer goes on |
| `MeasuredBatchesAlwaysFit` | where the builder has probed the largest item, every batch that is no longer than it was told fits in a slot |
| `FittingBatchesStayInSlot` | `BatchSpec /\ []BatchFits => WritesStayInSlot`: as long as batches fit, no header, item, padding or `is_ready` is written outside the batch's slot, also when an item fails or its thread dies |
| `MeasuredBatchesStayInSlot` | both together: with measured datasets and batches of at most `BatchSize` items, `BatchSpec => WritesStayInSlot` |
| `ItemProofs!PipelineShows` | a pipeline over two scratch buffers makes of an image, cell by cell, what `ImageReference` says of the picture |
| `ItemShows` | an item that is written without an error holds what is promised of it |
| `ReaderProofs!SlotRead` | `_parse_slot` finds the tensors of each item, from the headers alone, where the writer put them |
| `FittingReadersSeeItems` | `BatchSpec /\ []BatchFits => [](Readable(data) => ReadersSeeItems)`: as long as batches fit, the consumer finds in a ready slot what the reference makes of the items of its batch |
| `MeasuredReadersSeeItems` | with measured and readable datasets and batches of at most `BatchSize` items, `BatchSpec => []ReadersSeeItems` |
| `SoundProofs!PipelineNeverFails` | a pipeline goes through each image it accepts, without an error or a panic, in buffers with room for its images |
| `FittingSoundItemsNeverFail` | `BatchSpec /\ []BatchFits => []SoundItemsNeverFail`: as long as batches fit, a stream of sound data ends by Ctrl-C or for want of records alone |
| `MeasuredSoundItemsNeverFail` | with measured datasets and batches of at most `BatchSize` items, `BatchSpec => []SoundItemsNeverFail` |

Assumptions: `BatchAssumption`, the constants' types (a batch is a chunk of a
permutation: it has an item, and none twice), and
`DtypeAssumption`, that each element type with a size has a code in the header.
`MeasuredBatchesStayInSlot`'s two hypotheses are not true of every use: `slot_overrun` is the run in
which the probed items are smaller than those that are streamed, and there the
property fails. `Measured` says for which datasets the builder can have seen the
largest item: a user's with static layouts, and a folder of which all images are
probed or all are brought to one size. A `TarDataset` is never measured, since
its cells change; for it only `FittingBatchesStayInSlot` speaks.

`WritesStayInSlot` is about one step, and what a step writes depends on layouts
chosen in an earlier one, for cells filled in others. `BatchInv` therefore has

- `ChosenInv`: what `prepare_batch_metadata` has chosen are layouts, of items the
  dataset has, a processor's always of an image and a label; an item is still to
  be written only while there is data to write.
- `CellInv`: a cell of the tar buffer is empty, or holds an image and the two
  layouts `get_layout` made of it; the reader is inside the archive. This is what
  gives the merged layouts of a batch their ranks. It needs all of `next_record`,
  which goes over long names and skipped entries (`NextRecordTyped`), of priming
  and of refills, since each may end with an error in the middle.
- `SizedInv`: where the dataset is measured, the slots have the size that
  `calculate_slot_size` makes of all items together, and the layouts in use are
  those of the batch's items. Without it `MeasuredBatchesFit` is not inductive:
  slots are sized once and batches are chosen later.

That a batch fits then compares two sums term by term: the headers of a batch with
those `calculate_slot_size` counts with one dimension more (`SlotSizeIs`), and the
items' aligned bytes, which grow with both directions of an image
(`FolderBytesGrow`, `SlotHoldsBatch`). That headers stay in front of the items is
induction over the loop of `copy_batch_to_shm` (`HeadersStay`), and that an item
stays in its chunk goes through every kind of dataset and every way a closure of a
`TensorWriter` may end (`FolderWriteIs`, `TarWriteIs`, `CustomWriteIs`: the writer's
cells are the same before and after each of its calls).

Loops over data (`Total`, `Product`, `Merge`d layouts, the reader, the buffer's
priming, pipelines) are recursive functions of the number of rounds. `LoopExists`
shows that such a function has its values when each round stays in a set, and
`LoopStays` that a set no round leaves is never left; both rest on
`InductionOnSet`, as in `TransformProofs`.

*What the consumer finds.* That batches fit is needed here too: a batch written
over the next slot is what a reader of that slot then sees. `Readable` says of
which datasets the reference speaks at all:

- an element of an image is one cell of the memory, so that pixels have places;
- an archive is `Legible`, as `tar` writes it up to where it is cut or damaged: the
  blocks after a header are its data and hold no headers, a long name takes one
  block, and the names the reference has are those in the archive. Where a file's
  `prefix` is not UTF-8 its directory is lost (`FileName`, `header.rs`), which is
  a third way to a wrong name beside the two of `MisnamesFiles`; it is outside of
  `Legible`, since the archive has a name there that the consumer never gets;
- a user's layouts are dense with distinct keys, and a closure says it has written
  no more than it has. A closure that says more leaves in the slot what was there
  before, and nothing in the program can tell.

All folders, all archives but one, and all user's datasets of the run are
readable, damaged and failing ones included: the theorem is about every item that
does get into a ready slot.

The argument has four parts. *Pictures*: `Holds(in, pic)` says that a flat buffer
is a picture, planar and dense. Each augmentation, a loop or slice copies over two
buffers, gives a buffer that holds what `ImageReference` says of the whole picture
(one lemma per step, from the index arithmetic of `RowOf`, `ColumnOf` and
`ChannelOf`), and `PipelineShows` carries that through any number of steps, where
the result may be in either buffer and the scratch may be longer than the image.
*Items*: the size that was chosen for the batch, from layouts, is one that every
image of it fits after augmentation (`CutsImages` is where that fails), so
padding puts each row in its place; the writer finds the part of each key, and
clears what the closure left. *Slots*: the headers written for the layouts are
read back as the same types, shapes, strides and offsets, and `SlotRead` finds
cell `i` of tensor `k` of item `b` where it was written. *Frames*: each action
leaves the other slots alone (`WritesStayInSlot` again), and a thread that writes
item `b` leaves the headers and the other items of its batch.

The invariant that is inductive is `SeenInv`, beside `BatchInv`:

- `OriginInv`: a folder's sizes and layouts are those of *this* batch's files. The
  promise is made of sizes that `Prepare` chose, the item is written later.
- `NamesInv`: every record in a cell of the tar buffer has the name of its image,
  and no name is left over in the reader. This is what a record's label is made
  of, possibly batches later, and the reason `Legible` is needed: that a pending
  long name is used by the next file, over shards, cells and refills.
- `SlotsInv`: every slot whose first header is ready holds headers and items of
  what was promised of *some* layouts (the producer has chosen others since), and
  the slot that is being written holds its headers, not ready, and the items of
  those threads that have finished.

*That sound data never fails.* `SoundItemsNeverFail` is about every error path of an
item at once: an archive that cannot be read, a decoder's error, a crop larger
than its image, a buffer too small, a key twice or missing, a slice out of bounds.
`Sound` says, of the data alone, what the user has to see to: from its first block
on an archive is one well-formed entry after another up to its end mark, with an
image behind each regular file (`SoundFrom`, a set of places closed under "the next
entry"); every image decodes, with enough channels and large enough for the
pipeline's crops; a step that needs floats gets them; a user's closures write the
tensors of the dataset's own layouts, each once. Of pipelines it says that steps
that change the size come first, as `then` sees to (`InOrder`), and that it is not
one with `CutsImages` or `CopiesScratch`. Of slots the theorem asks `BatchFits`, as the ones before; a tar
dataset is never `Measured`, so for it `FittingSoundItemsNeverFail` is all there is.

The proof goes the way of an item, and each part has a lemma that it does not
fail: the steps of a pipeline, whose sizes are those `Accepts` was asked about
(`EachTakes`) and which leave both buffers with room (`Turn`); padding, by the size
that the layout has; `try_get_view_mut` and `finalize`, from which parts the writer
has given away so far (`Open`); `next_record` over any entries that are skipped;
a refill; the merge of a batch's layouts; header after header. Over the steps of
the producer the invariant is `SoundInv`, beside `BatchInv` and `OriginInv`:

- a cell holds nothing, or a sound image with the layout `get_layout` made of it,
  and the reader is at a place from which the archive is sound, or is not used
  again (`SoundBuffer`);
- the layouts of the batch have room for the images of all items *still awaited*
  (`Covers(Awaited)`). Not of all items: a cell is refilled as soon as its item is
  written, with an image the layouts were not merged from. That is harmless only
  because a refill touches its own cell (`OnlyCell`) and a batch has no item
  twice, which is what `BatchAssumption` takes from the shuffle (`mod.rs:176-189`:
  a permutation of the indices, cut into batches).

An item whose cell is empty is the one way that is left: then the dataset has run
out of records, or the merge of its empty layout with the others has failed.

**Only model-checked**: the liveness properties (`HangsOnlyOnOverrun`,
`ReleasedUnlessCopied`, `ProducerDeathSeen`, `ProducerDeathRaised`,
`ConsumerDeathSeen`, `CallsReturn`, `StreamEnds`, `WaitsOnlyForOther`,
`CtrlCLostOnlyTwoWays`), which need fairness and are out of the prover's reach. Every
invariant that a passing run checks is stated by a theorem.

## 5. What is not modelled

- Values of pixels and floats: a pixel is a name for where it came from and what
  was done to it; resizing takes its value from a neighbourhood that the library
  chooses. SIMD is not visible at this level. What a JPEG decodes to is given, as are
  its errors.
- Of the transforms' floats: the sign of a zero, and fractions smaller than 1/2. An
  operation on halves is rounded once, not to `f32` first, whose digits are enough for
  that to be the same.
- The text of the handshake and its parsing: a handshake is one message. A list of
  keys that is one number, which `_parse_handshake` does not take for a string
  (consumer.py:75-122), is left out with it.
- The inside of a batch in `Stream`, and the ring in `BatchPath` and `TarStream`:
  each of the three has the streaming loop with the part that it is about.
- Time limits: one may run out whenever the program waits, and none of them
  decides between two outcomes that the models tell apart. `read_timeout` is not
  set on the socket until the handshake has been sent.
- `ZeroTensorBuffer::open`, its read-only views, `try_view_mut` of the writer, the
  batch iterators of the dataset trait, the tar header's checksum: nothing in the
  program calls them.
- Weak memory: the code uses acquire loads and release stores on every word that
  is modelled as one access; the copies of items into a slot are ordered before
  `set_slot_ready` by its release store. Python's accesses go through `atomics`.
- Panics inside a processor's lock: the locks of a tar dataset are not poisoned by
  one, and the producer's thread ends with it.
- Benchmarks, examples and the blank binary hold no logic of the system.

## 6. What the code does otherwise than it says

Each is a run with `expect: violation`, and TLC prints the trace.

1. `stale_lap` - from the second lap on, a batch is parsed before it is
   published (README.md:122-124). `head` is raised first and the reused slot's
   `is_ready` is still set. The training loop, or a GPU copy, may then read a slot that is
   being written.
2. `undone_claim` - a consumer that acts on a claim that is then undone releases
   a batch that does not exist; `head - tail` wraps and both sides wait for ever
   (README.md:113). A debug build panics on the subtraction.
3. `copy_stall` - a release that waits for a GPU copy is retried only when the
   next batch comes, which a full ring never brings (README.md:125).
4. `epoch_boundary` - an iteration may end before its epoch's last batches
   (README.md:185-186).
5. `death_unseen` - the producer's death may end an iteration without the
   exception (`zero-tensor-py/tests/test_consumer.py:58-60`).
6. `slot_overrun` - a batch whose items are larger than those that were probed is
   written over the next slot, since writes are bounded by the segment
   (README.md:321).
7. `epoch_cut` - an epoch over a tar dataset reads as many records as the buffer has
   cells: a batch ends at `dataset.len()`, the size of the buffer
   (`producer/mod.rs:302`), and the steps past it have no items. The records that
   have refilled the cells are dropped by the next priming. `core/dataset/mod.rs:28`
   says that the next epoch starts after `total_epoch_len` items are read.

A passing property names in its own text what the code does not keep it for:

- `ReadersSeeItems` leaves out `CutsImages` (a pipeline whose largest intermediate
  image is smaller, in one direction, than its output: the folder then cuts the
  output, `jpeg_folder/mod.rs:269-281`, `pipeline.rs:65-73`) and `MisnamesFiles` (a
  GNU long name of an entry that is skipped is given to the next file,
  `tar_reader/mod.rs:99-119`).
- `SoundItemsNeverFail` leaves out `CopiesScratch` (from the third step on, every
  other resize to the size that is there already copies the whole of the second
  scratch buffer, and panics when an earlier image has left the thread a longer
  one, `pipeline.rs:112`, `resize.rs:57`) and `CutsImages`. It is proved for batches
  that fit in their slots: one that is too large, `slot_overrun`, ends the stream
  with an error once it would pass the end of the memory.
- `NamesHaveOwners` allows the name of a segment whose `ZeroTensorBuffer::new` has
  failed after `shm_open`: nothing takes it away (`buffer/mod.rs:147-156`), nor
  what a killed producer leaves.
- `StoppedByItsOwn` allows a segment that is opened twice (`builder.rs:138` comes
  before the socket is looked at, and a killed producer's segment is taken over),
  and a consumer that is greeted and opens the name when the next producer has it.
- `WaitsOnlyForOther` and `CtrlCLostOnlyTwoWays` name the silent consumer: a producer
  that waits for it in `read_line` looks at no flag (`producer/mod.rs:95-99`), and
  neither a waiting consumer nor Ctrl-C gets on (README.md:319 says that Ctrl-C is
  handled). `CtrlCLostOnlyTwoWays` names the refused handler too:
  `ctrlc::set_handler` fails for the second producer of a process, its error is
  dropped (`builder.rs:134`), Ctrl-C does not reach that producer and its names are
  not unlinked (README.md:115).
- `RowsHoldWholeSteps` and `FailsAsOnePiece` are about the results of
  `TransformReference`, which takes 2^63 for the largest `i64` (`Taken`): a float is
  compared with `i64::MAX as f64`, which is 2^63 (`scalar/mod.rs:39`).
- `PromotionKeepsOperands` names the integers that have more digits than the float
  beside them (`KeptAs`, `ops.rs:35-39`, 53-56).

The proofs and the passing runs are about what remains true in spite of these.

## 7. Plan

1. *(done)* The stream: producer loop, consumer, ring, refinement, proofs.
2. *(done)* `TarDataset` and `TarStream`: the buffer and the loop's schedule over
   it, with proofs.
3. *(done)* `Transforms`: operators and both modes against a reference, with proofs.
4. *(done)* `BatchPath`: slots, writer, images, augmentations, archives; proofs
   that a batch stays in its slot, that the consumer finds in it the items, and
   that sound items never fail.
5. *(done)* `Lifecycle`: build, accept, handshake, drop, with proofs.
6. Left: the handshake's text; `Stream` with the loop of `TarStream` in the place
   of its dataset choice.
