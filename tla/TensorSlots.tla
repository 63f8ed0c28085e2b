----------------------------- MODULE TensorSlots -----------------------------
(***************************************************************************)
(* What is where in a slot: layouts of tensors, the headers of a batch,    *)
(* the data of its items, and how the consumer finds them again            *)
(* (core/dataset/item.rs, core/buffer/, core/producer/helpers.rs and       *)
(* _parse_slot of consumer.py).                                            *)
(*                                                                         *)
(*   header | shape | strides | pad   one block per tensor                 *)
(*   tensor | pad | tensor | pad      one chunk per item                   *)
(*                                                                         *)
(* A header and a dimension take one cell each, an element as many as its  *)
(* type has.  The map from keys to layouts is a sequence of layouts, each  *)
(* with its key.  The memory is the slots alone.                           *)
(***************************************************************************)
EXTENDS Images, SequencesExt

CONSTANTS
  Alignment,   \* TensorWriter::ALIGNMENT, and the consumer's slot_alignment
  SlotAlign,   \* recommended_slot_alignment
  NSlots,      \* num_slots
  DtypeCells   \* get_dt_size

ASSUME LayoutAssumption ==
  /\ Alignment \in Nat \ {0}
  /\ SlotAlign \in Nat \ {0}
  /\ NSlots \in Nat \ {0}
  /\ \A dt \in DOMAIN DtypeCells : DtypeCells[dt] \in Nat \ {0}

Slots == 0 .. NSlots - 1

AlignTo(n, to) == ((n + to - 1) \div to) * to

\* Loops over a sequence.  They are functions of the number of rounds, as every
\* loop of these modules is, so that a proof can go from one round to the next.
Product(s) ==
  LET upTo[k \in 0 .. Len(s)] == IF k = 0 THEN 1 ELSE upTo[k - 1] * s[k]
  IN  upTo[Len(s)]

Total(s) ==
  LET upTo[k \in 0 .. Len(s)] == IF k = 0 THEN 0 ELSE upTo[k - 1] + s[k]
  IN  upTo[Len(s)]

First(s, k) == SubSeq(s, 1, k)

Map(Op(_), s) == [k \in DOMAIN s |-> Op(s[k])]

-----------------------------------------------------------------------------
(* Layouts.                                                                *)

RowMajor(shape) == [k \in DOMAIN shape |-> Product(SubSeq(shape, k + 1, Len(shape)))]

Layout(key, shape, strides, dt) == [key |-> key, shape |-> shape, strides |-> strides, dt |-> dt]

TotalElements(l) == Product(l.shape)

TotalBytes(l) == TotalElements(l) * DtypeCells[l.dt]

MergesWith(l, o) == l.dt = o.dt /\ Len(l.shape) = Len(o.shape)

Merge(l, o) ==
  LET shape == [k \in DOMAIN l.shape |-> Larger(l.shape[k], o.shape[k])]
  IN  [l EXCEPT !.shape = shape, !.strides = RowMajor(shape)]

CanAddBatch(l) == Len(l.shape) = Len(l.strides)

AddBatchDimension(l, n) ==
  [l EXCEPT !.shape = << n >> \o l.shape, !.strides = << Product(l.shape) >> \o l.strides]

-----------------------------------------------------------------------------
(* Sizes.                                                                  *)

BlockSize(ndims) == AlignTo(1 + 2 * ndims, Alignment)

AlignedBytes(l) == AlignTo(TotalBytes(l), Alignment)

ItemSize(layouts) == Total(Map(AlignedBytes, layouts))

\* Mutant: the batch dimension is forgotten.
SlotSizeOfItems(layouts, batchSize) ==
  LET Block(l) == BlockSize(Len(l.shape))
  IN  AlignTo(Total(Map(Block, layouts)) + ItemSize(layouts) * batchSize, SlotAlign)

\* calculate_slot_size: layouts are those of one item.
CalculateSlotSize(layouts, batchSize) ==
  LET Block(l) == BlockSize(Len(l.shape) + 1)
  IN  AlignTo(Total(Map(Block, layouts)) + ItemSize(layouts) * batchSize, SlotAlign)

\* prepare_batch_metadata: layouts with the batch dimension.
HeaderSize(batchLayouts) ==
  LET Block(l) == BlockSize(Len(l.shape)) IN Total(Map(Block, batchLayouts))

WithBatch(layouts, n) ==
  LET Add(l) == AddBatchDimension(l, n) IN Map(Add, layouts)

SlotOffset(slot, slotSize) == slot * slotSize

-----------------------------------------------------------------------------
(* Headers.                                                                *)

Dtypes == << "f16", "f32", "f64", "bf16", "i8", "i32", "i64", "u8" >>

\* get_dt_size is defined for every type that there is a code for.
ASSUME DtypeAssumption == DOMAIN DtypeCells \subseteq { Dtypes[k] : k \in DOMAIN Dtypes }

DtypeCode(dt) == CHOOSE k \in DOMAIN Dtypes : Dtypes[k] = dt

Header(dt, ndims, ready) == Source("header", DtypeCode(dt), ndims, ready, 0)

Dimension(n) == Source("dimension", n, 0, 0, 0)

\* What a header or a dimension says, of a cell that is one.
Says(cell, k) == (CHOOSE s \in cell[1] : TRUE)[k + 1]

HeaderCells(l) ==
  LET n == Len(l.shape)
  IN  [ i \in 0 .. 2 * n |->
          IF i = 0 THEN Header(l.dt, n, 0)
          ELSE IF i <= n THEN Dimension(l.shape[i]) ELSE Dimension(l.strides[i - n]) ]

\* write_tensor_metadata: the bound is that of the whole memory, and takes the
\* tensor's data to follow its header.
HeaderFits(l, at, memory) ==
  at + 1 + 2 * Len(l.shape) + TotalBytes(l) <= Cardinality(DOMAIN memory)

MovedTo(at, buf) == [i \in { at + j : j \in DOMAIN buf } |-> buf[i - at]]

\* The headers one after the other, up to the first that does not fit.
WriteHeaders(memory, at, batchLayouts) ==
  LET Place(k) == at + HeaderSize(First(batchLayouts, k - 1))
      written[k \in 0 .. Len(batchLayouts)] ==
        IF k = 0 THEN Done(memory)
        ELSE LET m == written[k - 1]
             IN  IF m.err # "none" THEN m
                 ELSE IF ~HeaderFits(batchLayouts[k], Place(k), memory) THEN Fail("BufferOverflow", m.out)
                 ELSE Done(Overlay(m.out, MovedTo(Place(k), HeaderCells(batchLayouts[k]))))
  IN  written[Len(batchLayouts)]

\* get_item_slice_mut: within the memory, whatever the slot's size is.
SliceFits(memory, at, n) == at + n <= Cardinality(DOMAIN memory)

IsHeader(cell) == cell[1] # {} /\ (CHOOSE s \in cell[1] : TRUE)[1] = "header"

IsReady(memory, at) == IsHeader(memory[at]) /\ Says(memory[at], 3) = 1

SetSlotReady(memory, at) ==
  [memory EXCEPT ![at] = Source("header", Says(memory[at], 1), Says(memory[at], 2), 1, 0)]

-----------------------------------------------------------------------------
(***************************************************************************)
(* _parse_slot: per key, the shape of an item and its cells, for each item *)
(* of the batch.  The consumer knows the keys, and all else from headers.  *)
(***************************************************************************)
ParseHeader(memory, at) ==
  LET ndims == Says(memory[at], 2)
  IN  [ dt      |-> Dtypes[Says(memory[at], 1)],
        batch   |-> Says(memory[at + 1], 1),
        shape   |-> [k \in 1 .. ndims - 1 |-> Says(memory[at + 1 + k], 1)],
        strides |-> [k \in 1 .. ndims - 1 |-> Says(memory[at + 1 + ndims + k], 1)],
        next    |-> at + BlockSize(ndims) ]

ParseHeaders(memory, at, nkeys) ==
  LET header[k \in 1 .. nkeys] == ParseHeader(memory, IF k = 1 THEN at ELSE header[k - 1].next)
  IN  [k \in 1 .. nkeys |-> header[k]]

\* The place of element e of a tensor, in elements, by its strides.
ElementPlace(t, e) ==
  LET Digit(k) == (e \div RowMajor(t.shape)[k]) % t.shape[k]
  IN  Total([k \in DOMAIN t.shape |-> Digit(k) * t.strides[k]])

ParseSlot(memory, at, nkeys) ==
  LET headers == ParseHeaders(memory, at, nkeys)
      data    == headers[nkeys].next
      size    == ItemSize(headers)
      KeyAt(k) == ItemSize(First(headers, k - 1))
      CellOf(k, b, i) ==
        LET w == DtypeCells[headers[k].dt]
        IN  memory[data + b * size + KeyAt(k) + ElementPlace(headers[k], i \div w) * w + (i % w)]
  IN  [k \in 1 .. nkeys |->
         [ shape |-> headers[k].shape,
           items |-> [b \in 1 .. headers[1].batch |->
                        [i \in 0 .. TotalBytes(headers[k]) - 1 |-> CellOf(k, b - 1, i)]] ]]
=============================================================================
