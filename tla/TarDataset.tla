----------------------------- MODULE TarDataset -----------------------------
(***************************************************************************)
(* TarDataset of dataset/tar/dataset: a buffer of cells, each holding one  *)
(* record of the tar shards.  Writing an item hands a cell's record out    *)
(* and refills the cell from the one reader that all threads share.        *)
(*                                                                         *)
(*   a writing thread   idle -> check -> lock -> refill -> ... -> idle     *)
(*                                                                         *)
(* A thread holds the lock of its cell from the write to the end of the    *)
(* refill, and the lock of the reader during the refill.  Records are      *)
(* named by their shard and their place in it.                             *)
(***************************************************************************)
EXTENDS Integers, Sequences, FiniteSets

CONSTANTS
  ShardSizes,   \* the number of records of each shard
  BufferCap,    \* buffer_cap
  Threads,      \* threads that write items
  NoRecord,     \* the data of an empty cell
  EmptyRecords, \* records with no bytes of data
  TarFaults     \* which of "archive", "item" may happen

NShards == Len(ShardSizes)

Shards == 1 .. NShards

Records == UNION { {s} \X (1 .. ShardSizes[s]) : s \in Shards }

ASSUME TarAssumption ==
  /\ ShardSizes \in Seq(Nat)
  /\ NShards > 0
  /\ BufferCap \in Nat \ {0}
  /\ NoRecord \notin Records
  /\ EmptyRecords \subseteq Records
  /\ TarFaults \subseteq {"archive", "item"}

VARIABLES
  order,      \* shards, in the order of this epoch
  shardIdx,   \* current_shard_idx
  readPos,    \* tar_reader: records read from the open shard
  exhausted,  \* exhausted
  cells,      \* shuffle_buffer
  phase,      \* what next_epoch has done: "new", "priming", "ready", "failed"
  cellIdx,    \* cell_idx of prime_initial_buffer
  holder,     \* the threads inside the reader's lock
  work,       \* per thread: where it is and the cell it has locked
  served,     \* history: records handed out since next_epoch
  damaged     \* history: an archive or a record has been found damaged

tarVars == << order, shardIdx, readPos, exhausted, cells, phase, cellIdx,
              holder, work, served, damaged >>

ShardIndex == 0 .. NShards - 1

CellIndex == 0 .. BufferCap - 1

Orders == { f \in [ShardIndex -> Shards] :
              \A i, j \in ShardIndex : f[i] = f[j] => i = j }

ThreadPCs == {"idle", "check", "lock", "refill"}

Idle == [pc |-> "idle", cell |-> 0]

Busy(t) == work[t].pc # "idle"

AllIdle == \A t \in Threads : ~Busy(t)

CellLocked(i) == \E t \in Threads : Busy(t) /\ work[t].cell = i

TarInit ==
  /\ order = [i \in ShardIndex |-> i + 1]
  /\ shardIdx = 0
  /\ readPos = 0
  /\ exhausted = FALSE
  /\ cells = [i \in CellIndex |-> NoRecord]
  /\ phase = "new"
  /\ cellIdx = 0
  /\ holder = {}
  /\ work = [t \in Threads |-> Idle]
  /\ served = {}
  /\ damaged = FALSE

-----------------------------------------------------------------------------
(***************************************************************************)
(* The reader.  next_record finds a record or the end of the open shard.   *)
(***************************************************************************)
HasRecord == readPos < ShardSizes[order[shardIdx]]

NextRecord == << order[shardIdx], readPos + 1 >>

\* Fault: the same shard is opened again.
MoveToNextShardReopens ==
  /\ readPos' = 0
  /\ UNCHANGED << shardIdx, exhausted >>

MoveToNextShard ==
  /\ shardIdx' = shardIdx + 1
  /\ IF shardIdx + 1 >= NShards
       THEN exhausted' = TRUE /\ UNCHANGED readPos
       ELSE readPos' = 0 /\ UNCHANGED exhausted

(***************************************************************************)
(* What can go wrong with the reader: a damaged archive; a shard that does *)
(* not open, from which nothing is read then; a record without a layout.   *)
(***************************************************************************)
ReaderFails ==
  \/ /\ "archive" \in TarFaults
     /\ UNCHANGED << shardIdx, readPos >>
  \/ /\ "archive" \in TarFaults
     /\ ~HasRecord
     /\ shardIdx + 1 < NShards
     /\ shardIdx' = shardIdx + 1
     /\ readPos' = ShardSizes[order[shardIdx + 1]]
  \/ /\ "item" \in TarFaults
     /\ HasRecord
     /\ readPos' = readPos + 1
     /\ UNCHANGED shardIdx

(***************************************************************************)
(* next_epoch, on the thread that runs the streaming loop: the reader goes *)
(* back to the first shard and prime_initial_buffer fills the cells.  The  *)
(* cells are not emptied first.                                            *)
(***************************************************************************)
\* Fault: exhausted is not reset.
NextEpochKeepsExhausted(shuffle) ==
  /\ phase # "priming"
  /\ AllIdle
  /\ order' \in IF shuffle THEN Orders ELSE {order}
  /\ shardIdx' = 0
  /\ readPos' = 0
  /\ phase' = "priming"
  /\ cellIdx' = 0
  /\ served' = {}
  /\ UNCHANGED << exhausted, cells, holder, work, damaged >>

NextEpochCall(shuffle) ==
  /\ phase # "priming"
  /\ AllIdle
  /\ order' \in IF shuffle THEN Orders ELSE {order}
  /\ shardIdx' = 0
  /\ readPos' = 0
  /\ exhausted' = FALSE
  /\ phase' \in {"priming"} \cup (IF "archive" \in TarFaults THEN {"failed"} ELSE {})
  /\ cellIdx' = 0
  /\ served' = {}
  /\ damaged' = (damaged \/ phase' = "failed")
  /\ UNCHANGED << cells, holder, work >>

Priming == phase = "priming" /\ cellIdx < BufferCap /\ ~exhausted

PrimeCell ==
  /\ Priming
  /\ HasRecord
  /\ cells' = [cells EXCEPT ![cellIdx] = NextRecord]
  /\ readPos' = readPos + 1
  /\ cellIdx' = cellIdx + 1
  /\ UNCHANGED << order, shardIdx, exhausted, phase, holder, work, served, damaged >>

PrimeNextShard ==
  /\ Priming
  /\ ~HasRecord
  /\ MoveToNextShard
  /\ UNCHANGED << order, cells, phase, cellIdx, holder, work, served, damaged >>

PrimeReturns ==
  /\ phase = "priming"
  /\ cellIdx = BufferCap \/ exhausted
  /\ phase' = "ready"
  /\ UNCHANGED << order, shardIdx, readPos, exhausted, cells, cellIdx, holder, work, served, damaged >>

PrimeFails ==
  /\ Priming
  /\ ReaderFails
  /\ phase' = "failed"
  /\ damaged' = TRUE
  /\ UNCHANGED << order, exhausted, cells, cellIdx, holder, work, served >>

-----------------------------------------------------------------------------
(***************************************************************************)
(* write_item_into(i), on thread t.  No call is made once one has failed;  *)
(* one that began at the same time could as well have begun before.        *)
(***************************************************************************)
CanCall(t, i) == phase = "ready" /\ ~Busy(t) /\ ~CellLocked(i)

\* The call returns Exhausted, and changes nothing.
Refuses(i) == cells[i] = NoRecord \/ cells[i] \in EmptyRecords

\* The processor writes the cell's record into the batch.
WriteItem(t, i) ==
  /\ CanCall(t, i)
  /\ ~Refuses(i)
  /\ served' = served \cup {cells[i]}
  /\ work' = [work EXCEPT ![t] = [pc |-> "check", cell |-> i]]
  /\ UNCHANGED << order, shardIdx, readPos, exhausted, cells, phase, cellIdx, holder, damaged >>

\* The call returns an error: the caller gives the epoch up.
ItemFails(t, i) ==
  /\ CanCall(t, i)
  /\ \/ Refuses(i)
     \/ "item" \in TarFaults
  /\ phase' = "failed"
  /\ damaged' = (damaged \/ ~Refuses(i))
  /\ UNCHANGED << order, shardIdx, readPos, exhausted, cells, cellIdx, holder, work, served >>

\* dynamic_layouts finds records whose layouts do not go together.
LayoutsDiffer ==
  /\ phase = "ready"
  /\ "item" \in TarFaults
  /\ phase' = "failed"
  /\ damaged' = TRUE
  /\ UNCHANGED << order, shardIdx, readPos, exhausted, cells, cellIdx, holder, work, served >>

\* The call returns with its cell empty.
LeaveEmpty(t) ==
  /\ cells' = [cells EXCEPT ![work[t].cell] = NoRecord]
  /\ work' = [work EXCEPT ![t] = Idle]

\* exhausted, read without the reader's lock.
CheckExhausted(t) ==
  /\ work[t].pc = "check"
  /\ IF exhausted
       THEN LeaveEmpty(t)
       ELSE work' = [work EXCEPT ![t].pc = "lock"] /\ UNCHANGED cells
  /\ UNCHANGED << order, shardIdx, readPos, exhausted, phase, cellIdx, holder, served, damaged >>

LockReader(t) ==
  /\ work[t].pc = "lock"
  /\ holder = {}
  /\ holder' = {t}
  /\ work' = [work EXCEPT ![t].pc = "refill"]
  /\ UNCHANGED << order, shardIdx, readPos, exhausted, cells, phase, cellIdx, served, damaged >>

\* Another thread came to the end of the last shard in the meantime.
RefillExhausted(t) ==
  /\ work[t].pc = "refill"
  /\ exhausted
  /\ LeaveEmpty(t)
  /\ holder' = {}
  /\ UNCHANGED << order, shardIdx, readPos, exhausted, phase, cellIdx, served, damaged >>

\* Fault: the cell is filled and the reader stays where it was.
RefillRecordTwice(t) ==
  /\ work[t].pc = "refill"
  /\ ~exhausted
  /\ HasRecord
  /\ cells' = [cells EXCEPT ![work[t].cell] = NextRecord]
  /\ work' = [work EXCEPT ![t] = Idle]
  /\ holder' = {}
  /\ UNCHANGED << order, shardIdx, readPos, exhausted, phase, cellIdx, served, damaged >>

\* Fault: the end of the shard is not noticed.
RefillRecordPastEnd(t) ==
  /\ work[t].pc = "refill"
  /\ ~exhausted
  /\ cells' = [cells EXCEPT ![work[t].cell] = NextRecord]
  /\ readPos' = readPos + 1
  /\ work' = [work EXCEPT ![t] = Idle]
  /\ holder' = {}
  /\ UNCHANGED << order, shardIdx, exhausted, phase, cellIdx, served, damaged >>

RefillRecord(t) ==
  /\ work[t].pc = "refill"
  /\ ~exhausted
  /\ HasRecord
  /\ cells' = [cells EXCEPT ![work[t].cell] = NextRecord]
  /\ readPos' = readPos + 1
  /\ work' = [work EXCEPT ![t] = Idle]
  /\ holder' = {}
  /\ UNCHANGED << order, shardIdx, exhausted, phase, cellIdx, served, damaged >>

\* Fault: a refill that meets the end of a shard leaves its cell empty.
RefillNextShardGivesUp(t) ==
  /\ work[t].pc = "refill"
  /\ ~exhausted
  /\ ~HasRecord
  /\ MoveToNextShard
  /\ LeaveEmpty(t)
  /\ holder' = {}
  /\ UNCHANGED << order, phase, cellIdx, served, damaged >>

\* The end of a shard: the next one is opened, or there is none.
RefillNextShard(t) ==
  /\ work[t].pc = "refill"
  /\ ~exhausted
  /\ ~HasRecord
  /\ MoveToNextShard
  /\ IF exhausted'
       THEN LeaveEmpty(t) /\ holder' = {}
       ELSE UNCHANGED << cells, work, holder >>
  /\ UNCHANGED << order, phase, cellIdx, served, damaged >>

\* The call returns an error with the record it wrote still in the cell.
RefillFails(t) ==
  /\ work[t].pc = "refill"
  /\ ~exhausted
  /\ ReaderFails
  /\ phase' = "failed"
  /\ work' = [work EXCEPT ![t] = Idle]
  /\ holder' = {}
  /\ damaged' = TRUE
  /\ UNCHANGED << order, exhausted, cells, cellIdx, served >>

PrimeStep == PrimeCell \/ PrimeNextShard \/ PrimeReturns \/ PrimeFails

ThreadStep(t) ==
  \/ CheckExhausted(t) \/ LockReader(t) \/ RefillExhausted(t)
  \/ RefillRecord(t) \/ RefillNextShard(t) \/ RefillFails(t)

(***************************************************************************)
(* Any caller: epochs whenever no call is in progress, and any thread on   *)
(* any cell.                                                               *)
(***************************************************************************)
TarNext ==
  \/ \E shuffle \in BOOLEAN : NextEpochCall(shuffle)
  \/ PrimeStep
  \/ LayoutsDiffer
  \/ \E t \in Threads :
       \/ \E i \in CellIndex : WriteItem(t, i) \/ ItemFails(t, i)
       \/ ThreadStep(t)

TarSpec == TarInit /\ [][TarNext]_tarVars

\* A call that has begun goes on; nobody has to make one.
TarFairSpec ==
  /\ TarSpec
  /\ WF_tarVars(PrimeStep)
  /\ \A t \in Threads : WF_tarVars(ThreadStep(t))

-----------------------------------------------------------------------------
TarTypeOK ==
  /\ order \in Orders
  /\ shardIdx \in 0 .. NShards
  /\ readPos \in Nat
  /\ exhausted \in BOOLEAN
  /\ cells \in [CellIndex -> Records \cup {NoRecord}]
  /\ phase \in {"new", "priming", "ready", "failed"}
  /\ cellIdx \in 0 .. BufferCap
  /\ holder \subseteq Threads
  /\ work \in [Threads -> [pc : ThreadPCs, cell : CellIndex]]
  /\ served \subseteq Records
  /\ damaged \in BOOLEAN

\* What a reader has gone past that has read pos records of the shard-th.
ReadUpTo(shards, shard, pos) ==
  { r \in Records : \E j \in ShardIndex :
      /\ shards[j] = r[1]
      /\ j < shard \/ (j = shard /\ r[2] <= pos) }

Read == ReadUpTo(order, shardIdx, readPos)

\* Cells whose record is still to be handed out.
Live == { i \in CellIndex : cells[i] # NoRecord /\ ~CellLocked(i) }

(***************************************************************************)
(* concurrent_refills_cross_shards_without_losing_or_repeating_records:    *)
(* what has been read is, each record once, either handed out or in a cell *)
(* that is still to be, over any number of threads, shards and epochs, and *)
(* whatever an epoch given up before has left in the cells.                *)
(***************************************************************************)
Conservation ==
  phase = "ready" =>
    /\ Read = served \cup { cells[i] : i \in Live }
    /\ \A i \in Live : cells[i] \notin served
    /\ \A i, j \in Live : cells[i] = cells[j] => i = j

(***************************************************************************)
(* Cells are empty for one reason only: there was nothing left to read.    *)
(***************************************************************************)
EmptyOnlyAtEnd ==
  phase = "ready" =>
    \A i \in CellIndex : cells[i] = NoRecord => exhausted

(***************************************************************************)
(* No lock is kept and no wait is circular: every write_item_into returns, *)
(* and next_epoch does.                                                    *)
(***************************************************************************)
CallsReturn ==
  /\ \A t \in Threads : Busy(t) ~> ~Busy(t)
  /\ phase = "priming" ~> phase # "priming"
=============================================================================
