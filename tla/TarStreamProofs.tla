--------------------------- MODULE TarStreamProofs ----------------------------
(***************************************************************************)
(* Proofs that TarInv holds in every reachable state of TarDataset, for    *)
(* every list of shards, size of the buffer, number of threads and set of  *)
(* faults, and of what the streaming loop makes of it: it is one of the    *)
(* callers TarDataset allows; an epoch hands out the records it was primed *)
(* with; with records enough the loop never fails.  The lemmas on ReadUpTo *)
(* say what the reader has passed; each part of TarInv then has a lemma of *)
(* its own.                                                                *)
(***************************************************************************)
EXTENDS TarStreamInvariants, TarInvariants, FiniteSetTheorems, TLAPS

LEMMA RecordShape ==
  ASSUME NEW r \in Records
  PROVE  /\ r[1] \in Shards
         /\ r[2] \in 1 .. ShardSizes[r[1]]
         /\ r = << r[1], r[2] >>
  BY DEF Records

LEMMA RecordOf ==
  ASSUME NEW s \in Shards, NEW k \in 1 .. ShardSizes[s]
  PROVE  << s, k >> \in Records
  BY DEF Records

LEMMA SizeType ==
  /\ NShards \in Nat \ {0}
  /\ \A s \in Shards : ShardSizes[s] \in Nat
  BY TarAssumption DEF NShards, Shards

LEMMA RecordsFinite == IsFiniteSet(Records)
<1> DEFINE Of(s) == {s} \X (1 .. ShardSizes[s])
           Parts == { Of(s) : s \in Shards }
           f == [s \in Shards |-> Of(s)]
<1>1. IsFiniteSet(Shards)
  BY SizeType, FS_Interval DEF Shards
<1>2. f \in Surjection(Shards, Parts)
  BY DEF Surjection
<1>3. IsFiniteSet(Parts)
  BY <1>1, <1>2, FS_Surjection
<1>4. ASSUME NEW s \in Shards
      PROVE  IsFiniteSet(Of(s))
  <2>1. IsFiniteSet({s})
    BY FS_Singleton
  <2>2. IsFiniteSet(1 .. ShardSizes[s])
    BY SizeType, FS_Interval
  <2> QED
    BY <2>1, <2>2, FS_Product
<1>5. \A T \in Parts : IsFiniteSet(T)
  BY <1>4
<1> QED
  BY <1>3, <1>5, FS_UNION DEF Records

(***************************************************************************)
(* An order of the shards has every shard in it.                           *)
(***************************************************************************)
LEMMA OrderIsOnto ==
  ASSUME NEW f \in Orders, NEW s \in Shards
  PROVE  \E j \in ShardIndex : f[j] = s
<1>1. f \in Injection(ShardIndex, Shards)
  BY DEF Orders, Injection, IsInjective
<1>2. /\ IsFiniteSet(Shards)
      /\ Cardinality(Shards) = NShards
  BY SizeType, FS_Interval DEF Shards
<1>3. Cardinality(ShardIndex) = NShards
  BY SizeType, FS_Interval DEF ShardIndex
<1>4. f \in Surjection(ShardIndex, Shards)
  BY <1>1, <1>2, <1>3, FS_Injection
<1> QED
  BY <1>4 DEF Surjection

-----------------------------------------------------------------------------
(***************************************************************************)
(* The reader at the start of the first shard has read nothing.            *)
(***************************************************************************)
LEMMA ReadAtStart ==
  ASSUME NEW f \in Orders
  PROVE  ReadUpTo(f, 0, 0) = {}
<1> SUFFICES ASSUME NEW r \in Records, NEW j \in ShardIndex,
                    j < 0 \/ (j = 0 /\ r[2] <= 0)
             PROVE  FALSE
  BY DEF ReadUpTo
<1>1. r[2] >= 1 /\ r[2] \in Int
  BY RecordShape, SizeType
<1> QED
  BY <1>1 DEF ShardIndex

(***************************************************************************)
(* A record is read: it is new, and it is the only one.                    *)
(***************************************************************************)
LEMMA ReadOneMore ==
  ASSUME NEW f \in Orders, NEW j \in ShardIndex, NEW pos \in Nat,
         pos < ShardSizes[f[j]]
  PROVE  /\ << f[j], pos + 1 >> \in Records
         /\ << f[j], pos + 1 >> \notin ReadUpTo(f, j, pos)
         /\ ReadUpTo(f, j, pos + 1) = ReadUpTo(f, j, pos) \cup {<< f[j], pos + 1 >>}
<1> DEFINE next == << f[j], pos + 1 >>
<1>0. f[j] \in Shards /\ ShardSizes[f[j]] \in Nat
  BY SizeType DEF Orders
<1>1. next \in Records
  BY <1>0, RecordOf
<1>2. next \notin ReadUpTo(f, j, pos)
  <2> SUFFICES ASSUME NEW i \in ShardIndex, f[i] = f[j],
                      i < j \/ (i = j /\ pos + 1 <= pos)
               PROVE  FALSE
    BY DEF ReadUpTo
  <2>1. i = j
    BY DEF Orders
  <2> QED
    BY <2>1 DEF ShardIndex
<1>3. ASSUME NEW r \in Records
      PROVE  r \in ReadUpTo(f, j, pos + 1) <=> r \in ReadUpTo(f, j, pos) \/ r = next
  <2>1. r = << r[1], r[2] >> /\ r[2] \in Int
    BY RecordShape
  <2>2. r[2] <= pos + 1 <=> r[2] <= pos \/ r[2] = pos + 1
    BY <2>1
  <2>3. r = next <=> r[1] = f[j] /\ r[2] = pos + 1
    BY <2>1
  <2> QED
    BY <2>2, <2>3 DEF ReadUpTo
<1> QED
  BY <1>1, <1>2, <1>3 DEF ReadUpTo

(***************************************************************************)
(* Past the end of a shard nothing more of it has been read, and nothing   *)
(* of the next one.                                                        *)
(***************************************************************************)
LEMMA ReadNextShard ==
  ASSUME NEW f \in Orders, NEW j \in ShardIndex, NEW pos \in Nat, NEW q \in Nat,
         pos >= ShardSizes[f[j]],
         q = 0 \/ j + 1 >= NShards
  PROVE  ReadUpTo(f, j + 1, q) = ReadUpTo(f, j, pos)
<1>1. ASSUME NEW r \in Records
      PROVE  r \in ReadUpTo(f, j + 1, q) <=> r \in ReadUpTo(f, j, pos)
  <2> DEFINE s == r[1]
             k == r[2]
  <2>2. k \in Int /\ k >= 1 /\ k <= ShardSizes[s] /\ ShardSizes[s] \in Nat
    BY RecordShape, SizeType
  <2> HIDE DEF s, k
  <2>3. ASSUME NEW i \in ShardIndex, f[i] = s
        PROVE  (i < j + 1 \/ (i = j + 1 /\ k <= q)) <=> (i < j \/ (i = j /\ k <= pos))
    <3>1. i \in Int /\ j \in Int /\ i < NShards /\ NShards \in Nat
      BY SizeType DEF ShardIndex
    <3>2. ~(i = j + 1 /\ k <= q)
      BY <3>1, <2>2
    <3>3. i = j => k <= pos
      BY <2>2, <2>3
    <3> QED
      BY <3>1, <3>2, <3>3
  <2>4. r[1] = s /\ r[2] = k
    BY DEF s, k
  <2> QED
    BY <2>3, <2>4 DEF ReadUpTo
<1> QED
  BY <1>1 DEF ReadUpTo

(***************************************************************************)
(* A reader past the last shard has read everything.                       *)
(***************************************************************************)
LEMMA ReadAll ==
  ASSUME NEW f \in Orders, NEW pos \in Nat
  PROVE  ReadUpTo(f, NShards, pos) = Records
<1> SUFFICES ASSUME NEW r \in Records
             PROVE  \E j \in ShardIndex : f[j] = r[1] /\ j < NShards
  BY DEF ReadUpTo
<1>1. r[1] \in Shards
  BY RecordShape
<1>2. PICK j \in ShardIndex : f[j] = r[1]
  BY <1>1, OrderIsOnto
<1>3. j < NShards
  BY SizeType DEF ShardIndex
<1> QED
  BY <1>2, <1>3

-----------------------------------------------------------------------------
(***************************************************************************)
(* Where the reader stands when it may be asked for a record.              *)
(***************************************************************************)
LEMMA ReaderInside ==
  ASSUME TarTypeOK, PositionInv, ~exhausted
  PROVE  /\ shardIdx \in ShardIndex
         /\ order[shardIdx] \in Shards
         /\ ShardSizes[order[shardIdx]] \in Nat
         /\ readPos \in Nat
         /\ readPos <= ShardSizes[order[shardIdx]]
<1>1. shardIdx \in ShardIndex
  BY SizeType DEF TarTypeOK, PositionInv, ShardIndex
<1> QED
  BY <1>1, SizeType DEF TarTypeOK, PositionInv, Orders

LEMMA NextRecordIsNew ==
  ASSUME TarTypeOK, PositionInv, ~exhausted, HasRecord
  PROVE  /\ NextRecord \in Records
         /\ NextRecord \notin Read
         /\ ReadUpTo(order, shardIdx, readPos + 1) = Read \cup {NextRecord}
<1>1. order \in Orders
  BY DEF TarTypeOK
<1> QED
  BY <1>1, ReaderInside, ReadOneMore DEF HasRecord, NextRecord, Read

(***************************************************************************)
(* Going on to the next shard keeps the reader inside or past the last.    *)
(***************************************************************************)
LEMMA NextShardMoves ==
  ASSUME TarTypeOK, PositionInv, ~exhausted, ~HasRecord,
         MoveToNextShard, UNCHANGED order
  PROVE  /\ shardIdx' \in 0 .. NShards
         /\ readPos' \in Nat
         /\ exhausted' \in BOOLEAN
         /\ PositionInv'
         /\ Read' = Read
<1> USE DEF MoveToNextShard
<1>0. /\ shardIdx \in ShardIndex /\ readPos \in Nat
      /\ readPos >= ShardSizes[order[shardIdx]]
      /\ order \in Orders
      /\ NShards \in Nat
  BY ReaderInside, SizeType DEF HasRecord, TarTypeOK
<1>1. shardIdx' = shardIdx + 1
  OBVIOUS
<1>2. CASE shardIdx + 1 >= NShards
  <2>1. /\ shardIdx' = NShards
        /\ exhausted' = TRUE
        /\ readPos' = readPos
    BY <1>2, <1>0 DEF ShardIndex
  <2>2. Read' = Read
    BY <2>1, <1>0, <1>1, <1>2, ReadNextShard DEF Read
  <2> QED
    BY <2>1, <2>2, <1>0 DEF PositionInv
<1>3. CASE shardIdx + 1 < NShards
  <2>1. /\ exhausted' = FALSE
        /\ readPos' = 0
        /\ shardIdx' \in ShardIndex
    BY <1>3, <1>0 DEF ShardIndex
  <2>2. Read' = Read
    BY <2>1, <1>0, <1>1, <1>3, ReadNextShard DEF Read
  <2>3. ShardSizes[order[shardIdx']] \in Nat
    BY <2>1, <1>0, SizeType DEF Orders
  <2>4. PositionInv'
    BY <2>1, <2>3, <1>0, <1>1, <1>3 DEF PositionInv
  <2>5. shardIdx' \in 0 .. NShards
    BY <2>1, <1>0 DEF ShardIndex
  <2>6. exhausted' \in BOOLEAN /\ readPos' \in Nat
    BY <2>1
  <2> QED
    BY <2>2, <2>4, <2>5, <2>6
<1> QED
  BY <1>0, <1>2, <1>3 DEF ShardIndex

LEMMA FailureMoves ==
  ASSUME TarTypeOK, PositionInv, ~exhausted, ReaderFails, UNCHANGED << order, exhausted >>
  PROVE  /\ shardIdx' \in 0 .. NShards
         /\ readPos' \in Nat
         /\ PositionInv'
<1>0. /\ shardIdx \in ShardIndex /\ readPos \in Nat
      /\ order \in Orders
      /\ NShards \in Nat
  BY ReaderInside, SizeType DEF TarTypeOK
<1>1. CASE UNCHANGED << shardIdx, readPos >>
  BY <1>0, <1>1 DEF PositionInv, ShardIndex
<1>2. CASE /\ shardIdx + 1 < NShards
           /\ shardIdx' = shardIdx + 1
           /\ readPos' = ShardSizes[order[shardIdx + 1]]
  <2>1. shardIdx + 1 \in ShardIndex
    BY <1>0, <1>2 DEF ShardIndex
  <2>2. readPos' \in Nat
    BY <2>1, <1>0, <1>2, SizeType DEF Orders
  <2> QED
    BY <2>1, <2>2, <1>0, <1>2 DEF PositionInv, ShardIndex
<1>3. CASE HasRecord /\ readPos' = readPos + 1 /\ UNCHANGED shardIdx
  <2>1. ShardSizes[order[shardIdx]] \in Nat
    BY ReaderInside
  <2> QED
    BY <2>1, <1>0, <1>3 DEF PositionInv, ShardIndex, HasRecord
<1> QED
  BY <1>1, <1>2, <1>3 DEF ReaderFails

-----------------------------------------------------------------------------
(***************************************************************************)
(* The reader's position and the types.                                    *)
(***************************************************************************)
LEMMA IndexZero ==
  /\ 0 \in ShardIndex /\ 0 \in 0 .. NShards
  /\ 0 \in CellIndex /\ 0 \in 0 .. BufferCap
  BY SizeType, TarAssumption DEF ShardIndex, CellIndex

LEMMA IdleType == Idle \in [pc : ThreadPCs, cell : CellIndex]
  BY TarAssumption DEF Idle, ThreadPCs, CellIndex

LEMMA StartOfShard ==
  ASSUME NEW f \in Orders, NEW j \in ShardIndex
  PROVE  f[j] \in Shards /\ ShardSizes[f[j]] \in Nat /\ 0 <= ShardSizes[f[j]]
<1>1. f[j] \in Shards
  BY DEF Orders
<1> QED
  BY <1>1, SizeType

LEMMA TypeInit ==
  ASSUME TarInit
  PROVE  TarTypeOK /\ PositionInv
<1>1. order \in Orders
  BY SizeType DEF TarInit, Orders, ShardIndex, Shards
<1>2. work \in [Threads -> [pc : ThreadPCs, cell : CellIndex]]
  BY IdleType DEF TarInit
<1>3. cells \in [CellIndex -> Records \cup {NoRecord}]
  BY DEF TarInit
<1>4. shardIdx \in 0 .. NShards /\ readPos \in Nat /\ shardIdx # NShards
  BY SizeType DEF TarInit
<1>5. exhausted = FALSE /\ exhausted \in BOOLEAN
  BY DEF TarInit
<1>6. readPos <= ShardSizes[order[shardIdx]]
  BY <1>1, StartOfShard, IndexZero DEF TarInit
<1>7. cellIdx \in 0 .. BufferCap
  BY IndexZero DEF TarInit
<1>8. PositionInv
  BY <1>4, <1>5, <1>6 DEF PositionInv
<1>9. phase \in {"new", "priming", "ready", "failed"} /\ holder \subseteq Threads /\ served \subseteq Records
  BY DEF TarInit
<1> QED
  BY <1>1, <1>2, <1>3, <1>4, <1>5, <1>7, <1>8, <1>9 DEF TarTypeOK, TarInit

LEMMA TypeStep ==
  ASSUME TarTypeOK, PositionInv, ThreadInv, [TarNext]_tarVars
  PROVE  TarTypeOK' /\ PositionInv'
<1>1. ASSUME NEW shuffle \in BOOLEAN, NextEpochCall(shuffle)
      PROVE  TarTypeOK' /\ PositionInv'
  <2>1. order' \in Orders
    BY <1>1 DEF NextEpochCall, TarTypeOK
  <2>2. shardIdx' = 0 /\ readPos' = 0 /\ exhausted' = FALSE
    BY <1>1 DEF NextEpochCall
  <2>3. PositionInv'
    BY <2>1, <2>2, StartOfShard, IndexZero, SizeType DEF PositionInv
  <2>4. phase' \in {"priming", "failed"}
    BY <1>1 DEF NextEpochCall
  <2>5. shardIdx' \in 0 .. NShards /\ readPos' \in Nat /\ exhausted' \in BOOLEAN
    BY <2>2, IndexZero
  <2>6. served' \subseteq Records /\ cellIdx' \in 0 .. BufferCap
    BY <1>1, IndexZero DEF NextEpochCall
  <2> QED
    BY <1>1, <2>1, <2>3, <2>4, <2>5, <2>6 DEF NextEpochCall, TarTypeOK
<1>2. CASE PrimeCell
  <2>0. ~exhausted /\ HasRecord /\ shardIdx \in ShardIndex
    BY <1>2, ReaderInside DEF PrimeCell, Priming
  <2>1. NextRecord \in Records
    BY <2>0, NextRecordIsNew
  <2>2. readPos' \in Nat /\ readPos' <= ShardSizes[order[shardIdx]]
    BY <1>2, <2>0, ReaderInside DEF PrimeCell, HasRecord
  <2>3. PositionInv'
    BY <1>2, <2>0, <2>2 DEF PrimeCell, PositionInv
  <2>4. cellIdx' \in 0 .. BufferCap
    BY <1>2, TarAssumption DEF PrimeCell, Priming, TarTypeOK
  <2>5. cells' \in [CellIndex -> Records \cup {NoRecord}]
    BY <1>2, <2>1 DEF PrimeCell, TarTypeOK
  <2> QED
    BY <1>2, <2>2, <2>3, <2>4, <2>5 DEF PrimeCell, TarTypeOK
<1>3. CASE PrimeNextShard
  <2>1. PositionInv' /\ shardIdx' \in 0 .. NShards /\ readPos' \in Nat /\ exhausted' \in BOOLEAN
    BY <1>3, NextShardMoves DEF PrimeNextShard, Priming
  <2> QED
    BY <1>3, <2>1 DEF PrimeNextShard, TarTypeOK
<1>4. CASE PrimeReturns
  BY <1>4 DEF PrimeReturns, TarTypeOK, PositionInv
<1>5. CASE PrimeFails
  <2>1. PositionInv' /\ shardIdx' \in 0 .. NShards /\ readPos' \in Nat
    BY <1>5, FailureMoves DEF PrimeFails, Priming
  <2> QED
    BY <1>5, <2>1 DEF PrimeFails, TarTypeOK
<1>6. ASSUME NEW t \in Threads, NEW i \in CellIndex, WriteItem(t, i) \/ ItemFails(t, i)
      PROVE  TarTypeOK' /\ PositionInv'
  <2>1. PositionInv'
    BY <1>6 DEF WriteItem, ItemFails, PositionInv
  <2>2. CASE WriteItem(t, i)
    <3>1. served' \subseteq Records
      BY <2>2 DEF WriteItem, Refuses, TarTypeOK
    <3>2. work' \in [Threads -> [pc : ThreadPCs, cell : CellIndex]]
      BY <2>2 DEF WriteItem, TarTypeOK, ThreadPCs
    <3> QED
      BY <2>1, <2>2, <3>1, <3>2 DEF WriteItem, TarTypeOK
  <2>3. CASE ItemFails(t, i)
    BY <2>1, <2>3 DEF ItemFails, TarTypeOK
  <2> QED
    BY <1>6, <2>2, <2>3
<1>7. ASSUME NEW t \in Threads, ThreadStep(t)
      PROVE  TarTypeOK' /\ PositionInv'
  <2>0. work[t].cell \in CellIndex
    BY DEF TarTypeOK
  <2>1. LeaveEmpty(t) => /\ cells' \in [CellIndex -> Records \cup {NoRecord}]
                         /\ work' \in [Threads -> [pc : ThreadPCs, cell : CellIndex]]
    BY <2>0, IdleType DEF LeaveEmpty, TarTypeOK
  <2>2. CASE CheckExhausted(t)
    <3>1. work' \in [Threads -> [pc : ThreadPCs, cell : CellIndex]]
          /\ cells' \in [CellIndex -> Records \cup {NoRecord}]
      BY <2>1, <2>2 DEF CheckExhausted, TarTypeOK, ThreadPCs
    <3> QED
      BY <2>2, <3>1 DEF CheckExhausted, TarTypeOK, PositionInv
  <2>3. CASE LockReader(t)
    <3>1. work' \in [Threads -> [pc : ThreadPCs, cell : CellIndex]]
      BY <2>3 DEF LockReader, TarTypeOK, ThreadPCs
    <3> QED
      BY <2>3, <3>1 DEF LockReader, TarTypeOK, PositionInv
  <2>4. CASE RefillExhausted(t)
    BY <2>1, <2>4 DEF RefillExhausted, TarTypeOK, PositionInv
  <2>5. CASE RefillRecord(t)
    <3>0. ~exhausted /\ HasRecord /\ shardIdx \in ShardIndex
      BY <2>5, ReaderInside DEF RefillRecord
    <3>1. NextRecord \in Records
      BY <3>0, NextRecordIsNew
    <3>2. readPos' \in Nat /\ readPos' <= ShardSizes[order[shardIdx]]
      BY <2>5, <3>0, ReaderInside DEF RefillRecord, HasRecord
    <3>3. PositionInv'
      BY <2>5, <3>0, <3>2 DEF RefillRecord, PositionInv
    <3>4. cells' \in [CellIndex -> Records \cup {NoRecord}]
          /\ work' \in [Threads -> [pc : ThreadPCs, cell : CellIndex]]
      BY <2>5, <2>0, <3>1, IdleType DEF RefillRecord, TarTypeOK
    <3> QED
      BY <2>5, <3>2, <3>3, <3>4 DEF RefillRecord, TarTypeOK
  <2>6. CASE RefillNextShard(t)
    <3>1. PositionInv' /\ shardIdx' \in 0 .. NShards /\ readPos' \in Nat /\ exhausted' \in BOOLEAN
      BY <2>6, NextShardMoves DEF RefillNextShard
    <3>2. cells' \in [CellIndex -> Records \cup {NoRecord}]
          /\ work' \in [Threads -> [pc : ThreadPCs, cell : CellIndex]]
          /\ holder' \subseteq Threads
      BY <2>1, <2>6 DEF RefillNextShard, TarTypeOK
    <3> QED
      BY <2>6, <3>1, <3>2 DEF RefillNextShard, TarTypeOK
  <2>7. CASE RefillFails(t)
    <3>1. PositionInv' /\ shardIdx' \in 0 .. NShards /\ readPos' \in Nat
      BY <2>7, FailureMoves DEF RefillFails
    <3>2. work' \in [Threads -> [pc : ThreadPCs, cell : CellIndex]]
      BY <2>7, IdleType DEF RefillFails, TarTypeOK
    <3> QED
      BY <2>7, <3>1, <3>2 DEF RefillFails, TarTypeOK
  <2> QED
    BY <1>7, <2>2, <2>3, <2>4, <2>5, <2>6, <2>7 DEF ThreadStep
<1>8. CASE UNCHANGED tarVars
  BY <1>8 DEF tarVars, TarTypeOK, PositionInv
<1>9. CASE LayoutsDiffer
  BY <1>9 DEF LayoutsDiffer, TarTypeOK, PositionInv
<1> QED
  BY <1>1, <1>2, <1>3, <1>4, <1>5, <1>6, <1>7, <1>8, <1>9 DEF TarNext, PrimeStep

-----------------------------------------------------------------------------
(***************************************************************************)
(* The threads.  A call ends: its thread is idle, and only its cell may    *)
(* have changed.                                                           *)
(***************************************************************************)
CallEnds(t) ==
  /\ Busy(t)
  /\ work' = [work EXCEPT ![t] = Idle]
  /\ cells' \in [CellIndex -> Records \cup {NoRecord}]
  /\ \A i \in CellIndex : i # work[t].cell => cells'[i] = cells[i]
  /\ phase' \in {"ready", "failed"}

\* A call goes on, and no cell changes.
CallGoesOn(t) ==
  /\ Busy(t)
  /\ \E pc \in ThreadPCs \ {"idle"} : work' = [work EXCEPT ![t].pc = pc]
  /\ UNCHANGED cells
  /\ phase' \in {"ready", "failed"}

LEMMA BusyInPhase ==
  ASSUME TarTypeOK, ThreadInv, NEW t \in Threads, Busy(t)
  PROVE  phase \in {"ready", "failed"}
  BY DEF TarTypeOK, ThreadInv, AllIdle

LEMMA ThreadStepIs ==
  ASSUME TarTypeOK, PositionInv, ThreadInv, TarTypeOK', NEW t \in Threads, ThreadStep(t)
  PROVE  CallEnds(t) \/ CallGoesOn(t) \/ (RefillNextShard(t) /\ UNCHANGED << cells, work, phase >>)
<1>0. Busy(t) /\ work[t].cell \in CellIndex
  BY DEF ThreadStep, CheckExhausted, LockReader, RefillExhausted, RefillRecord,
         RefillNextShard, RefillFails, Busy, TarTypeOK
<1>1. phase \in {"ready", "failed"}
  BY <1>0, BusyInPhase
<1>2. cells' \in [CellIndex -> Records \cup {NoRecord}]
  BY DEF TarTypeOK
<1>3. ASSUME LeaveEmpty(t), UNCHANGED phase
      PROVE  CallEnds(t)
  BY <1>0, <1>1, <1>2, <1>3 DEF LeaveEmpty, CallEnds, TarTypeOK
<1>4. CASE CheckExhausted(t)
  <2>1. CASE exhausted
    BY <1>3, <1>4, <2>1 DEF CheckExhausted
  <2>2. CASE ~exhausted
    BY <1>0, <1>1, <1>4, <2>2 DEF CheckExhausted, CallGoesOn, ThreadPCs
  <2> QED
    BY <2>1, <2>2
<1>5. CASE LockReader(t)
  BY <1>0, <1>1, <1>5 DEF LockReader, CallGoesOn, ThreadPCs
<1>6. CASE RefillExhausted(t)
  BY <1>3, <1>6 DEF RefillExhausted
<1>7. CASE RefillRecord(t)
  BY <1>0, <1>1, <1>2, <1>7 DEF RefillRecord, CallEnds, TarTypeOK
<1>8. CASE RefillNextShard(t)
  <2>1. CASE exhausted'
    BY <1>3, <1>8, <2>1 DEF RefillNextShard
  <2>2. CASE ~exhausted'
    BY <1>8, <2>2 DEF RefillNextShard
  <2> QED
    BY <2>1, <2>2
<1>9. CASE RefillFails(t)
  BY <1>0, <1>1, <1>2, <1>9 DEF RefillFails, CallEnds, TarTypeOK
<1> QED
  BY <1>4, <1>5, <1>6, <1>7, <1>8, <1>9 DEF ThreadStep

(***************************************************************************)
(* When a call ends its cell is live again, unless it has been left empty. *)
(***************************************************************************)
LEMMA LiveWhenCallEnds ==
  ASSUME TarTypeOK, ThreadInv, NEW t \in Threads, CallEnds(t)
  PROVE  /\ work[t].cell \in CellIndex
         /\ work[t].cell \notin Live
         /\ Live' = IF cells'[work[t].cell] = NoRecord
                      THEN Live ELSE Live \cup {work[t].cell}
         /\ ThreadInv'
<1> DEFINE c == work[t].cell
<1>1. c \in CellIndex /\ Busy(t)
  BY DEF TarTypeOK, CallEnds
<1>2. c \notin Live
  BY <1>1 DEF Live, CellLocked
<1>3. \A u \in Threads : /\ Busy(u)' <=> Busy(u) /\ u # t
                         /\ u # t => work'[u] = work[u]
  BY DEF CallEnds, TarTypeOK, Busy, Idle
<1>4. \A u \in Threads : Busy(u)' => work[u].cell \in CellIndex /\ work[u].cell # c
  BY <1>1, <1>3 DEF ThreadInv, TarTypeOK
<1>5. \A i \in CellIndex : CellLocked(i)' <=> CellLocked(i) /\ i # c
  BY <1>1, <1>3, <1>4 DEF CellLocked
<1>6. \A i \in CellIndex : i # c => cells'[i] = cells[i]
  BY DEF CallEnds
<1>7. \A i \in CellIndex : i \in Live' <=> cells'[i] # NoRecord /\ (i = c \/ ~CellLocked(i))
  BY <1>5 DEF Live
<1>8. \A i \in CellIndex : i \in Live' <=> (i = c /\ cells'[c] # NoRecord) \/ i \in Live
  BY <1>1, <1>2, <1>6, <1>7 DEF Live
<1>9. Live' \subseteq CellIndex /\ Live \subseteq CellIndex
  BY DEF Live
<1>10. Live' = IF cells'[c] = NoRecord THEN Live ELSE Live \cup {c}
  BY <1>1, <1>8, <1>9
<1>11. ThreadInv'
  <2>1. phase' \notin {"new", "priming"}
    BY DEF CallEnds
  <2>2. \A u \in Threads : Busy(u)' => cells'[work'[u].cell] # NoRecord
    BY <1>3, <1>4, <1>6 DEF ThreadInv
  <2>3. \A u, v \in Threads : Busy(u)' /\ Busy(v)' /\ work'[u].cell = work'[v].cell => u = v
    BY <1>3 DEF ThreadInv
  <2> QED
    BY <2>1, <2>2, <2>3 DEF ThreadInv
<1> QED
  BY <1>1, <1>2, <1>10, <1>11

LEMMA LiveWhenCallGoesOn ==
  ASSUME TarTypeOK, ThreadInv, NEW t \in Threads, CallGoesOn(t)
  PROVE  Live' = Live /\ ThreadInv'
<1>1. PICK pc \in ThreadPCs \ {"idle"} : work' = [work EXCEPT ![t].pc = pc]
  BY DEF CallGoesOn
<1>2. \A u \in Threads : /\ Busy(u)' <=> Busy(u)
                         /\ work'[u].cell = work[u].cell
  BY <1>1 DEF CallGoesOn, TarTypeOK, Busy
<1>3. cells' = cells
  BY DEF CallGoesOn
<1>4. Live' = Live
  BY <1>2, <1>3 DEF Live, CellLocked
<1>5. phase' \notin {"new", "priming"}
  BY DEF CallGoesOn
<1> QED
  BY <1>2, <1>3, <1>4, <1>5 DEF ThreadInv

(***************************************************************************)
(* A write takes its cell out of the live ones.                            *)
(***************************************************************************)
LEMMA LiveWhenWritten ==
  ASSUME TarTypeOK, ThreadInv, NEW t \in Threads, NEW i \in CellIndex, WriteItem(t, i)
  PROVE  /\ i \in Live
         /\ Live' = Live \ {i}
         /\ ThreadInv'
<1>0. ~Busy(t) /\ ~CellLocked(i) /\ cells[i] # NoRecord /\ cells' = cells /\ phase' = "ready"
  BY DEF WriteItem, CanCall, Refuses
<1>1. \A u \in Threads : /\ Busy(u)' <=> Busy(u) \/ u = t
                         /\ u # t => work'[u] = work[u]
  BY DEF WriteItem, TarTypeOK, Busy
<1>2. work'[t].cell = i
  BY DEF WriteItem, TarTypeOK
<1>3. i \in Live
  BY <1>0 DEF Live
<1>4. \A j \in CellIndex : CellLocked(j)' <=> CellLocked(j) \/ j = i
  BY <1>0, <1>1, <1>2 DEF CellLocked
<1>5. Live' = Live \ {i}
  BY <1>0, <1>4 DEF Live
<1>6. \A u \in Threads : Busy(u)' => cells'[work'[u].cell] # NoRecord
  BY <1>0, <1>1, <1>2 DEF ThreadInv
<1>7. \A u, v \in Threads : Busy(u)' /\ Busy(v)' /\ work'[u].cell = work'[v].cell => u = v
  BY <1>0, <1>1, <1>2 DEF ThreadInv, CellLocked
<1>8. ThreadInv'
  BY <1>0, <1>6, <1>7 DEF ThreadInv
<1> QED
  BY <1>3, <1>5, <1>8

LEMMA IdleKeepsThreadInv ==
  ASSUME AllIdle, UNCHANGED work
  PROVE  ThreadInv'
  BY DEF ThreadInv, AllIdle, Busy

LEMMA PrimingIsIdle ==
  ASSUME ThreadInv, PrimeStep
  PROVE  AllIdle /\ UNCHANGED work
<1>1. phase = "priming"
  BY DEF PrimeStep, PrimeCell, PrimeNextShard, PrimeReturns, PrimeFails, Priming
<1>2. UNCHANGED work
  BY DEF PrimeStep, PrimeCell, PrimeNextShard, PrimeReturns, PrimeFails
<1> QED
  BY <1>1, <1>2 DEF ThreadInv

LEMMA ThreadInvStep ==
  ASSUME TarTypeOK, PositionInv, ThreadInv, TarTypeOK', [TarNext]_tarVars
  PROVE  ThreadInv'
<1>1. ASSUME NEW shuffle \in BOOLEAN, NextEpochCall(shuffle)
      PROVE  ThreadInv'
  BY <1>1, IdleKeepsThreadInv DEF NextEpochCall
<1>2. CASE PrimeStep
  BY <1>2, PrimingIsIdle, IdleKeepsThreadInv
<1>3. ASSUME NEW t \in Threads, NEW i \in CellIndex, WriteItem(t, i)
      PROVE  ThreadInv'
  BY <1>3, LiveWhenWritten
<1>4. ASSUME NEW t \in Threads, NEW i \in CellIndex, ItemFails(t, i)
      PROVE  ThreadInv'
  BY <1>4 DEF ItemFails, ThreadInv, Busy
<1>5. ASSUME NEW t \in Threads, ThreadStep(t)
      PROVE  ThreadInv'
  <2>1. CASE CallEnds(t)
    BY <2>1, LiveWhenCallEnds
  <2>2. CASE CallGoesOn(t)
    BY <2>2, LiveWhenCallGoesOn
  <2>3. CASE UNCHANGED << cells, work, phase >>
    BY <2>3 DEF ThreadInv, AllIdle, Busy
  <2> QED
    BY <1>5, <2>1, <2>2, <2>3, ThreadStepIs
<1>6. CASE UNCHANGED tarVars
  BY <1>6 DEF tarVars, ThreadInv, AllIdle, Busy
<1>7. CASE LayoutsDiffer
  BY <1>7 DEF LayoutsDiffer, ThreadInv, Busy
<1> QED
  BY <1>1, <1>2, <1>3, <1>4, <1>5, <1>6, <1>7 DEF TarNext

-----------------------------------------------------------------------------
(***************************************************************************)
(* Priming.  As many cells are filled as records are read.                 *)
(***************************************************************************)
LEMMA ReadFinite ==
  ASSUME TarTypeOK
  PROVE  /\ Read \subseteq Records
         /\ IsFiniteSet(Read)
         /\ Cardinality(Read) \in Nat
         /\ Cardinality(Records) \in Nat
         /\ Cardinality(Read) <= Cardinality(Records)
<1>1. Read \subseteq Records
  BY DEF Read, ReadUpTo
<1> QED
  BY <1>1, RecordsFinite, FS_Subset, FS_CardinalityType

LEMMA PrimeCellReads ==
  ASSUME TarTypeOK, PositionInv, PrimeCell
  PROVE  /\ NextRecord \in Records
         /\ NextRecord \notin Read
         /\ Read' = Read \cup {NextRecord}
         /\ Cardinality(Read') = Cardinality(Read) + 1
         /\ Cardinality(Read) < Cardinality(Records)
<1>1. ~exhausted /\ HasRecord
  BY DEF PrimeCell, Priming
<1>2. /\ NextRecord \in Records
      /\ NextRecord \notin Read
      /\ ReadUpTo(order, shardIdx, readPos + 1) = Read \cup {NextRecord}
  BY <1>1, NextRecordIsNew
<1>3. Read' = Read \cup {NextRecord}
  BY <1>2 DEF PrimeCell, Read
<1>4. Cardinality(Read') = Cardinality(Read) + 1
  BY <1>2, <1>3, ReadFinite, FS_AddElement
<1>5. Read' \subseteq Records
  BY <1>2, <1>3, ReadFinite
<1>6. Cardinality(Read') <= Cardinality(Records)
  BY <1>5, RecordsFinite, FS_Subset
<1>7. Cardinality(Read) < Cardinality(Records)
  BY <1>4, <1>6, ReadFinite
<1> QED
  BY <1>2, <1>3, <1>4, <1>7

LEMMA PrimeInvStep ==
  ASSUME TarTypeOK, PositionInv, ThreadInv, PrimeInv, TarTypeOK', [TarNext]_tarVars
  PROVE  PrimeInv'
<1>1. ASSUME NEW shuffle \in BOOLEAN, NextEpochCall(shuffle)
      PROVE  PrimeInv'
  <2>1. shardIdx' = 0 /\ readPos' = 0 /\ served' = {} /\ cellIdx' = 0
    BY <1>1 DEF NextEpochCall
  <2>2. order' \in Orders
    BY DEF TarTypeOK
  <2>3. Read' = {}
    BY <2>1, <2>2, ReadAtStart DEF Read
  <2>4. 0 .. cellIdx' - 1 = {}
    BY <2>1
  <2>5. Cardinality(Read') = cellIdx'
    BY <2>1, <2>3, FS_EmptySet
  <2> QED
    BY <2>1, <2>3, <2>4, <2>5 DEF PrimeInv
<1>2. CASE PrimeCell
  <2>0. /\ cellIdx \in CellIndex /\ cellIdx \in Nat /\ cellIdx' = cellIdx + 1
        /\ cells' = [cells EXCEPT ![cellIdx] = NextRecord]
        /\ phase = "priming" /\ served' = served
    BY <1>2, TarAssumption DEF PrimeCell, Priming, TarTypeOK, CellIndex
  <2>1. /\ served = {}
        /\ Read = { cells[i] : i \in 0 .. cellIdx - 1 }
        /\ \A i, j \in 0 .. cellIdx - 1 : cells[i] = cells[j] => i = j
        /\ Cardinality(Read) = cellIdx
    BY <2>0 DEF PrimeInv
  <2>2. 0 .. cellIdx' - 1 = (0 .. cellIdx - 1) \cup {cellIdx} /\ cellIdx \notin 0 .. cellIdx - 1
    BY <2>0
  <2>3. \A i \in 0 .. cellIdx - 1 : i \in CellIndex /\ cells'[i] = cells[i]
    <3> TAKE i \in 0 .. cellIdx - 1
    <3>1. i \in CellIndex /\ i # cellIdx
      BY <2>0, TarAssumption DEF CellIndex
    <3> QED
      BY <3>1, <2>0 DEF TarTypeOK
  <2>4. cells'[cellIdx] = NextRecord
    BY <2>0 DEF TarTypeOK
  <2>5. Read' = { cells'[i] : i \in 0 .. cellIdx' - 1 }
    BY <1>2, <2>1, <2>2, <2>3, <2>4, PrimeCellReads
  <2>6. \A i \in 0 .. cellIdx - 1 : cells'[i] # NextRecord
    BY <1>2, <2>1, <2>3, PrimeCellReads
  <2>7. \A i, j \in 0 .. cellIdx' - 1 : cells'[i] = cells'[j] => i = j
    BY <2>1, <2>2, <2>3, <2>4, <2>6
  <2>8. Cardinality(Read') = cellIdx'
    BY <1>2, <2>0, <2>1, PrimeCellReads
  <2> QED
    BY <2>0, <2>1, <2>5, <2>7, <2>8 DEF PrimeInv
<1>3. CASE PrimeNextShard
  <2>1. Read' = Read
    BY <1>3, NextShardMoves DEF PrimeNextShard, Priming
  <2> QED
    BY <1>3, <2>1 DEF PrimeNextShard, PrimeInv
<1>4. CASE PrimeReturns \/ PrimeFails
  BY <1>4 DEF PrimeReturns, PrimeFails, PrimeInv
<1>5. ASSUME NEW t \in Threads, NEW i \in CellIndex, WriteItem(t, i) \/ ItemFails(t, i)
      PROVE  PrimeInv'
  BY <1>5 DEF WriteItem, ItemFails, CanCall, PrimeInv
<1>6. ASSUME NEW t \in Threads, ThreadStep(t)
      PROVE  PrimeInv'
  <2>1. Busy(t)
    BY <1>6 DEF ThreadStep, CheckExhausted, LockReader, RefillExhausted, RefillRecord,
                RefillNextShard, RefillFails, Busy
  <2>2. phase # "priming"
    BY <2>1, BusyInPhase
  <2>3. phase' # "priming"
    BY <1>6, <2>2, ThreadStepIs DEF CallEnds, CallGoesOn
  <2> QED
    BY <2>3 DEF PrimeInv
<1>7. CASE UNCHANGED tarVars
  BY <1>7 DEF tarVars, PrimeInv, Read
<1>8. CASE LayoutsDiffer
  BY <1>8 DEF LayoutsDiffer, PrimeInv
<1> QED
  BY <1>1, <1>2, <1>3, <1>4, <1>5, <1>6, <1>7, <1>8 DEF TarNext, PrimeStep

(***************************************************************************)
(* A cell is filled where there was a record, or where one is due.         *)
(***************************************************************************)
LEMMA SpareInvStep ==
  ASSUME TarTypeOK, PositionInv, ThreadInv, PrimeInv, SpareInv, TarTypeOK',
         [TarNext]_tarVars
  PROVE  SpareInv'
<1>1. CASE UNCHANGED cells
  BY <1>1 DEF SpareInv
<1>2. CASE PrimeCell
  <2>1. cells' = [cells EXCEPT ![cellIdx] = NextRecord] /\ phase = "priming"
    BY <1>2 DEF PrimeCell, Priming
  <2>2. cellIdx < Cardinality(Records)
    BY <1>2, <2>1, PrimeCellReads DEF PrimeInv
  <2> QED
    BY <2>1, <2>2 DEF SpareInv, TarTypeOK
<1>3. ASSUME NEW t \in Threads, CallEnds(t)
      PROVE  SpareInv'
  <2>1. cells[work[t].cell] # NoRecord /\ work[t].cell \in CellIndex
    BY <1>3 DEF CallEnds, ThreadInv, TarTypeOK
  <2> QED
    BY <1>3, <2>1 DEF CallEnds, SpareInv
<1>4. ASSUME NEW t \in Threads, ThreadStep(t)
      PROVE  SpareInv'
  BY <1>1, <1>3, <1>4, ThreadStepIs DEF CallGoesOn
<1>5. (\E shuffle \in BOOLEAN : NextEpochCall(shuffle)) => UNCHANGED cells
  BY DEF NextEpochCall
<1>6. PrimeStep => PrimeCell \/ UNCHANGED cells
  BY DEF PrimeStep, PrimeNextShard, PrimeReturns, PrimeFails
<1>7. (\E t \in Threads : \E i \in CellIndex : WriteItem(t, i) \/ ItemFails(t, i)) => UNCHANGED cells
  BY DEF WriteItem, ItemFails
<1>8. LayoutsDiffer => UNCHANGED cells
  BY DEF LayoutsDiffer
<1> QED
  BY <1>1, <1>2, <1>4, <1>5, <1>6, <1>7, <1>8 DEF TarNext, tarVars

-----------------------------------------------------------------------------
(***************************************************************************)
(* A step of a thread that changes cells or goes past a shard: what is     *)
(* read afterwards is what was, with the record the cell now holds.        *)
(***************************************************************************)
LEMMA CallEndsReads ==
  ASSUME TarTypeOK, PositionInv, NEW t \in Threads, ThreadStep(t), CallEnds(t),
         phase' = "ready"
  PROVE  /\ served' = served /\ phase = "ready"
         /\ \/ /\ cells'[work[t].cell] = NoRecord
               /\ exhausted'
               /\ Read' = Read
            \/ /\ cells'[work[t].cell] \in Records \ Read
               /\ Read' = Read \cup {cells'[work[t].cell]}
               /\ exhausted' = exhausted
<1>0. work[t].cell \in CellIndex /\ work'[t].pc = "idle"
  BY DEF TarTypeOK, CallEnds, Idle
<1>1. LeaveEmpty(t) => cells'[work[t].cell] = NoRecord
  BY <1>0 DEF LeaveEmpty, TarTypeOK
<1>2. CASE CheckExhausted(t)
  <2>1. exhausted
    BY <1>0, <1>2 DEF CheckExhausted, TarTypeOK
  <2> QED
    BY <1>1, <1>2, <2>1 DEF CheckExhausted, Read
<1>3. CASE LockReader(t)
  BY <1>0, <1>3 DEF LockReader, TarTypeOK
<1>4. CASE RefillExhausted(t)
  BY <1>1, <1>4 DEF RefillExhausted, Read
<1>5. CASE RefillRecord(t)
  <2>1. /\ NextRecord \in Records
        /\ NextRecord \notin Read
        /\ ReadUpTo(order, shardIdx, readPos + 1) = Read \cup {NextRecord}
    BY <1>5, NextRecordIsNew DEF RefillRecord
  <2>2. cells'[work[t].cell] = NextRecord
    BY <1>0, <1>5 DEF RefillRecord, TarTypeOK
  <2> QED
    BY <1>5, <2>1, <2>2 DEF RefillRecord, Read
<1>6. CASE RefillNextShard(t)
  <2>1. Read' = Read
    BY <1>6, NextShardMoves DEF RefillNextShard
  <2>2. exhausted'
    BY <1>0, <1>6 DEF RefillNextShard
  <2> QED
    BY <1>1, <1>6, <2>1, <2>2 DEF RefillNextShard
<1>7. CASE RefillFails(t)
  BY <1>7 DEF RefillFails
<1> QED
  BY <1>2, <1>3, <1>4, <1>5, <1>6, <1>7 DEF ThreadStep

LEMMA CallGoesOnReads ==
  ASSUME TarTypeOK, PositionInv, NEW t \in Threads, ThreadStep(t),
         CallGoesOn(t) \/ (RefillNextShard(t) /\ UNCHANGED << cells, work, phase >>),
         phase' = "ready"
  PROVE  /\ served' = served /\ phase = "ready"
         /\ Read' = Read
         /\ exhausted => exhausted'
<1>0. work'[t].pc # "idle"
  BY DEF CallGoesOn, TarTypeOK, RefillNextShard
<1>1. CASE CheckExhausted(t)
  BY <1>1 DEF CheckExhausted, Read
<1>2. CASE LockReader(t)
  BY <1>2 DEF LockReader, Read
<1>3. CASE RefillExhausted(t)
  BY <1>0, <1>3 DEF RefillExhausted, LeaveEmpty, TarTypeOK, Idle
<1>4. CASE RefillRecord(t)
  BY <1>0, <1>4 DEF RefillRecord, TarTypeOK, Idle
<1>5. CASE RefillNextShard(t)
  <2>1. Read' = Read
    BY <1>5, NextShardMoves DEF RefillNextShard
  <2> QED
    BY <1>5, <2>1 DEF RefillNextShard
<1>6. CASE RefillFails(t)
  BY <1>6 DEF RefillFails
<1> QED
  BY <1>1, <1>2, <1>3, <1>4, <1>5, <1>6 DEF ThreadStep

(***************************************************************************)
(* next_epoch returns: the filled cells are the first ones, and they are   *)
(* all there are when the records have run out.                            *)
(***************************************************************************)
LEMMA PrimedCells ==
  ASSUME TarTypeOK, PositionInv, PrimeInv, SpareInv, PrimeReturns
  PROVE  /\ \A i \in CellIndex : cells[i] # NoRecord <=> i < cellIdx
         /\ cellIdx < BufferCap => exhausted
<1>1. phase = "priming" /\ cellIdx \in 0 .. BufferCap /\ (cellIdx = BufferCap \/ exhausted)
  BY DEF PrimeReturns, TarTypeOK
<1>2. BufferCap \in Nat
  BY TarAssumption
<1>3. ASSUME NEW i \in CellIndex, i < cellIdx
      PROVE  cells[i] # NoRecord
  <2>1. i \in 0 .. cellIdx - 1
    BY <1>1, <1>2, <1>3 DEF CellIndex
  <2>2. cells[i] \in Read
    BY <1>1, <2>1 DEF PrimeInv
  <2> QED
    BY <2>2, ReadFinite, TarAssumption
<1>4. ASSUME NEW i \in CellIndex, i >= cellIdx
      PROVE  cells[i] = NoRecord
  <2>1. exhausted
    BY <1>1, <1>2, <1>4 DEF CellIndex
  <2>2. shardIdx = NShards
    BY <2>1 DEF PositionInv
  <2>3. Read = Records
    BY <2>2, ReadAll DEF Read, TarTypeOK
  <2>4. Cardinality(Records) = cellIdx
    BY <1>1, <2>3 DEF PrimeInv
  <2> QED
    BY <1>1, <1>2, <1>4, <2>4 DEF SpareInv, CellIndex
<1>5. \A i \in CellIndex : i < cellIdx \/ i >= cellIdx
  BY <1>1, <1>2 DEF CellIndex
<1>6. cellIdx < BufferCap => exhausted
  BY <1>1, <1>2
<1> QED
  BY <1>3, <1>4, <1>5, <1>6

LEMMA EmptyOnlyAtEndStep ==
  ASSUME TarInv, TarTypeOK', [TarNext]_tarVars
  PROVE  EmptyOnlyAtEnd'
<1> USE DEF TarInv
<1>1. (\E shuffle \in BOOLEAN : NextEpochCall(shuffle)) => phase' # "ready"
  BY DEF NextEpochCall
<1>2. PrimeCell \/ PrimeNextShard \/ PrimeFails => phase' # "ready"
  BY DEF PrimeCell, PrimeNextShard, PrimeFails, Priming
<1>3. CASE PrimeReturns
  <2>1. cells' = cells /\ exhausted' = exhausted
    BY <1>3 DEF PrimeReturns
  <2>2. \A i \in CellIndex : cells[i] = NoRecord => exhausted
    BY <1>3, PrimedCells, TarAssumption DEF CellIndex, TarTypeOK
  <2> QED
    BY <2>1, <2>2 DEF EmptyOnlyAtEnd
<1>4. ASSUME NEW t \in Threads, NEW i \in CellIndex, WriteItem(t, i) \/ ItemFails(t, i)
      PROVE  EmptyOnlyAtEnd'
  BY <1>4 DEF WriteItem, ItemFails, CanCall, EmptyOnlyAtEnd
<1>5. ASSUME NEW t \in Threads, ThreadStep(t), phase' = "ready"
      PROVE  EmptyOnlyAtEnd'
  <2>1. CASE CallEnds(t)
    <3>0. \A i \in CellIndex : i # work[t].cell => cells'[i] = cells[i]
      BY <2>1 DEF CallEnds
    <3>1. phase = "ready" /\ (exhausted => exhausted')
      BY <1>5, <2>1, CallEndsReads
    <3>2. cells'[work[t].cell] = NoRecord => exhausted'
      BY <1>5, <2>1, CallEndsReads, TarAssumption
    <3> QED
      BY <3>0, <3>1, <3>2 DEF EmptyOnlyAtEnd
  <2>2. CASE CallGoesOn(t) \/ (RefillNextShard(t) /\ UNCHANGED << cells, work, phase >>)
    BY <1>5, <2>2, CallGoesOnReads DEF CallGoesOn, EmptyOnlyAtEnd
  <2> QED
    BY <1>5, <2>1, <2>2, ThreadStepIs
<1>6. CASE UNCHANGED tarVars
  BY <1>6 DEF tarVars, EmptyOnlyAtEnd
<1>7. phase' # "ready" => EmptyOnlyAtEnd'
  BY DEF EmptyOnlyAtEnd
<1>8. LayoutsDiffer => phase' # "ready"
  BY DEF LayoutsDiffer
<1> QED
  BY <1>1, <1>2, <1>3, <1>4, <1>5, <1>6, <1>7, <1>8 DEF TarNext, PrimeStep

(***************************************************************************)
(* What has been read is handed out or live, before and after any step.    *)
(***************************************************************************)
LEMMA ConservationWhenPrimed ==
  ASSUME TarInv, TarTypeOK', ThreadInv', PrimeReturns
  PROVE  Conservation'
<1> USE DEF TarInv
<1>0. /\ cells' = cells /\ served' = served /\ Read' = Read /\ AllIdle /\ work' = work
      /\ phase = "priming" /\ cellIdx \in 0 .. BufferCap
  BY PrimingIsIdle DEF PrimeReturns, PrimeStep, Read, TarTypeOK
<1>1. Live' = 0 .. cellIdx - 1
  <2>1. Live' = { i \in CellIndex : cells[i] # NoRecord }
    BY <1>0 DEF Live, CellLocked, AllIdle, Busy
  <2>2. \A i \in CellIndex : cells[i] # NoRecord <=> i < cellIdx
    BY PrimedCells
  <2>3. \A i : i \in 0 .. cellIdx - 1 <=> i \in CellIndex /\ i < cellIdx
    BY <1>0, TarAssumption DEF CellIndex
  <2> QED
    BY <2>1, <2>2, <2>3
<1> QED
  BY <1>0, <1>1 DEF Conservation, PrimeInv

LEMMA ConservationWhenWritten ==
  ASSUME TarInv, NEW t \in Threads, NEW i \in CellIndex, WriteItem(t, i)
  PROVE  Conservation'
<1> USE DEF TarInv
<1>1. /\ i \in Live /\ Live' = Live \ {i}
      /\ cells' = cells /\ served' = served \cup {cells[i]} /\ Read' = Read /\ phase = "ready"
  BY LiveWhenWritten DEF WriteItem, CanCall, Read
<1>2. /\ Read = served \cup { cells[j] : j \in Live }
      /\ \A j \in Live : cells[j] \notin served
      /\ \A j, k \in Live : cells[j] = cells[k] => j = k
  BY <1>1 DEF Conservation
<1>3. Read' = served' \cup { cells'[j] : j \in Live' }
  BY <1>1, <1>2
<1>4. \A j \in Live' : cells'[j] \notin served'
  BY <1>1, <1>2
<1> QED
  BY <1>1, <1>2, <1>3, <1>4 DEF Conservation

LEMMA ConservationWhenCallEnds ==
  ASSUME TarInv, NEW t \in Threads, ThreadStep(t), CallEnds(t), phase' = "ready"
  PROVE  Conservation'
<1> USE DEF TarInv
<1> DEFINE c == work[t].cell
<1>1. /\ c \in CellIndex /\ c \notin Live
      /\ Live' = IF cells'[c] = NoRecord THEN Live ELSE Live \cup {c}
  BY LiveWhenCallEnds
<1>2. \A i \in Live : cells'[i] = cells[i]
  BY <1>1 DEF CallEnds, Live
<1>3. served' = served /\ phase = "ready"
  BY CallEndsReads
<1>4. /\ Read = served \cup { cells[j] : j \in Live }
      /\ \A j \in Live : cells[j] \notin served
      /\ \A j, k \in Live : cells[j] = cells[k] => j = k
  BY <1>3 DEF Conservation
<1>5. CASE cells'[c] = NoRecord
  <2>1. Read' = Read /\ Live' = Live
    BY <1>1, <1>5, CallEndsReads, TarAssumption
  <2> QED
    BY <2>1, <1>2, <1>3, <1>4 DEF Conservation
<1>6. CASE cells'[c] # NoRecord
  <2>1. /\ cells'[c] \notin Read
        /\ Read' = Read \cup {cells'[c]}
        /\ Live' = Live \cup {c}
    BY <1>1, <1>6, CallEndsReads
  <2>2. Read' = served' \cup { cells'[j] : j \in Live' }
    BY <2>1, <1>2, <1>3, <1>4
  <2>3. \A j \in Live' : cells'[j] \notin served'
    BY <2>1, <1>2, <1>3, <1>4
  <2>4. \A j \in Live : cells'[j] # cells'[c]
    BY <2>1, <1>2, <1>4
  <2>5. \A j, k \in Live' : cells'[j] = cells'[k] => j = k
    BY <2>1, <2>4, <1>2, <1>4
  <2> QED
    BY <2>2, <2>3, <2>5 DEF Conservation
<1> QED
  BY <1>5, <1>6

LEMMA ConservationWhenCallGoesOn ==
  ASSUME TarInv, NEW t \in Threads, ThreadStep(t), phase' = "ready",
         CallGoesOn(t) \/ (RefillNextShard(t) /\ UNCHANGED << cells, work, phase >>)
  PROVE  Conservation'
<1> USE DEF TarInv
<1>1. served' = served /\ phase = "ready" /\ Read' = Read
  BY CallGoesOnReads
<1>2. Live' = Live /\ cells' = cells
  BY LiveWhenCallGoesOn DEF CallGoesOn, Live, CellLocked, Busy
<1> QED
  BY <1>1, <1>2 DEF Conservation

LEMMA ConservationStep ==
  ASSUME TarInv, TarTypeOK', ThreadInv', [TarNext]_tarVars
  PROVE  Conservation'
<1>0. phase' # "ready" => Conservation'
  BY DEF Conservation
<1>1. (\E shuffle \in BOOLEAN : NextEpochCall(shuffle)) => phase' # "ready"
  BY DEF NextEpochCall
<1>2. PrimeCell \/ PrimeNextShard \/ PrimeFails => phase' # "ready"
  BY DEF PrimeCell, PrimeNextShard, PrimeFails, Priming
<1>3. CASE PrimeReturns
  BY <1>3, ConservationWhenPrimed
<1>4. ASSUME NEW t \in Threads, NEW i \in CellIndex, WriteItem(t, i) \/ ItemFails(t, i)
      PROVE  Conservation'
  BY <1>0, <1>4, ConservationWhenWritten DEF ItemFails
<1>5. ASSUME NEW t \in Threads, ThreadStep(t), phase' = "ready"
      PROVE  Conservation'
  BY <1>5, ThreadStepIs, ConservationWhenCallEnds, ConservationWhenCallGoesOn DEF TarInv
<1>6. CASE UNCHANGED tarVars
  BY <1>6 DEF tarVars, TarInv, Conservation, Read, Live, CellLocked, Busy
<1>7. LayoutsDiffer => phase' # "ready"
  BY DEF LayoutsDiffer
<1> QED
  BY <1>0, <1>1, <1>2, <1>3, <1>4, <1>5, <1>6, <1>7 DEF TarNext, PrimeStep

-----------------------------------------------------------------------------
LEMMA TarInvInit ==
  ASSUME TarInit
  PROVE  TarInv
<1>1. TarTypeOK /\ PositionInv
  BY TypeInit
<1>2. phase = "new" /\ AllIdle
  BY DEF TarInit, AllIdle, Busy, Idle
<1>3. ThreadInv
  BY <1>2 DEF ThreadInv, AllIdle
<1>4. PrimeInv /\ Conservation /\ EmptyOnlyAtEnd
  BY <1>2 DEF PrimeInv, Conservation, EmptyOnlyAtEnd
<1>5. SpareInv
  BY DEF TarInit, SpareInv
<1> QED
  BY <1>1, <1>3, <1>4, <1>5 DEF TarInv

LEMMA TarInvStep ==
  ASSUME TarInv, [TarNext]_tarVars
  PROVE  TarInv'
<1>1. TarTypeOK' /\ PositionInv'
  BY TypeStep DEF TarInv
<1>2. ThreadInv'
  BY <1>1, ThreadInvStep DEF TarInv
<1>3. PrimeInv'
  BY <1>1, PrimeInvStep DEF TarInv
<1>4. SpareInv'
  BY <1>1, SpareInvStep DEF TarInv
<1>5. EmptyOnlyAtEnd'
  BY <1>1, EmptyOnlyAtEndStep
<1>6. Conservation'
  BY <1>1, <1>2, ConservationStep
<1> QED
  BY <1>1, <1>2, <1>3, <1>4, <1>5, <1>6 DEF TarInv

(***************************************************************************)
(* TarInv holds in every reachable state of a TarDataset.                  *)
(***************************************************************************)
THEOREM TarInvariance == TarSpec => []TarInv
<1>1. TarInit => TarInv
  BY TarInvInit
<1>2. TarInv /\ [TarNext]_tarVars => TarInv'
  BY TarInvStep
<1> QED
  BY <1>1, <1>2, PTL DEF TarSpec

(***************************************************************************)
(* The variables of TarDataset keep to their types.                        *)
(***************************************************************************)
THEOREM TarTypes == TarSpec => []TarTypeOK
<1>1. TarInv => TarTypeOK
  BY DEF TarInv
<1> QED
  BY <1>1, TarInvariance, PTL

(***************************************************************************)
(* Whatever threads refill at the same time, and whatever an epoch given   *)
(* up has left behind: a record that was read is handed out once or waits  *)
(* in one cell.                                                            *)
(***************************************************************************)
THEOREM RecordsAreConserved == TarSpec => []Conservation
<1>1. TarInv => Conservation
  BY DEF TarInv
<1> QED
  BY <1>1, TarInvariance, PTL

(***************************************************************************)
(* No cell is left empty while a shard still has a record.                 *)
(***************************************************************************)
THEOREM EmptyCellsMeanTheEnd == TarSpec => []EmptyOnlyAtEnd
<1>1. TarInv => EmptyOnlyAtEnd
  BY DEF TarInv
<1> QED
  BY <1>1, TarInvariance, PTL

-----------------------------------------------------------------------------
(* The loop.                                                               *)

(***************************************************************************)
(* What each action of the loop is for the dataset.                        *)
(***************************************************************************)
LEMMA LoopSteps ==
  ASSUME LoopTypeOK, StreamNext
  PROVE  \/ NextEpochCall(Shuffle)
         \/ PrimeStep
         \/ \E t \in Threads : \E i \in todo : WriteItem(t, i) \/ ItemFails(t, i)
         \/ \E t \in Threads : ThreadStep(t)
         \/ LayoutsDiffer
         \/ UNCHANGED tarVars
<1>1. CASE FirstEpoch \/ RollOver
  BY <1>1 DEF FirstEpoch, RollOver
<1>2. CASE Prime
  BY <1>2 DEF Prime
<1>3. CASE EpochPrimed \/ EpochFails \/ TopLimit
  BY <1>3 DEF EpochPrimed, EpochFails, TopLimit
<1>4. CASE SkipStep \/ BeginBatch \/ BatchHasNoLayout
  BY <1>4 DEF SkipStep, BeginBatch, BatchHasNoLayout
<1>5. CASE WriteNext \/ ThreadGoesOn
  BY <1>5 DEF WriteNext, ThreadGoesOn
<1>6. CASE EndBatch \/ BatchFails \/ StartAgain
  BY <1>6 DEF EndBatch, BatchFails, StartAgain
<1> QED
  BY <1>1, <1>2, <1>3, <1>4, <1>5, <1>6 DEF StreamNext, Streaming

LEMMA StreamStepIsTarStep ==
  ASSUME LoopTypeOK, [StreamNext]_streamVars
  PROVE  [TarNext]_tarVars
<1>1. CASE UNCHANGED streamVars
  BY <1>1 DEF streamVars
<1>2. CASE StreamNext
  <2>1. Shuffle \in BOOLEAN
    BY StreamAssumption
  <2>2. todo \subseteq CellIndex
    BY DEF LoopTypeOK
  <2> QED
    BY <1>2, <2>1, <2>2, LoopSteps DEF TarNext
<1> QED
  BY <1>1, <1>2

-----------------------------------------------------------------------------
(***************************************************************************)
(* The types of the loop's variables.                                      *)
(***************************************************************************)
LEMMA StepsType == StepsPerEpoch \in Nat
<1>1. /\ TotalSamples \in Nat /\ BatchSize \in Nat /\ BatchSize > 0
      /\ TotalSamples + BatchSize - 1 \in Nat
  BY StreamAssumption
<1>2. (TotalSamples + BatchSize - 1) \div BatchSize \in Nat
  BY <1>1
<1> QED
  BY <1>2 DEF StepsPerEpoch

LEMMA ItemsAreCells ==
  ASSUME LoopTypeOK, NEW n \in Int
  PROVE  FirstItems(n) \subseteq CellIndex
  BY DEF FirstItems, LoopTypeOK, CellOrders

LEMMA MoreItems ==
  ASSUME NEW m \in Int, NEW n \in Int, m <= n
  PROVE  FirstItems(m) \subseteq FirstItems(n)
  BY TarAssumption DEF FirstItems, CellIndex

LEMMA NoItems ==
  ASSUME NEW n \in Int, n <= 0
  PROVE  FirstItems(n) = {}
  BY TarAssumption DEF FirstItems, CellIndex

LEMMA StepBounds ==
  ASSUME NEW s \in Nat
  PROVE  /\ s * BatchSize \in Int
         /\ (s + 1) * BatchSize \in Int
         /\ s * BatchSize <= (s + 1) * BatchSize
<1> DEFINE a == s * BatchSize
<1>1. BatchSize \in Nat
  BY StreamAssumption
<1>2. a \in Nat
  BY <1>1
<1>3. (s + 1) * BatchSize = a + BatchSize
  BY <1>1
<1> QED
  BY <1>1, <1>2, <1>3

LEMMA LoopTypeInit ==
  ASSUME StreamInit, TarTypeOK
  PROVE  LoopTypeOK
<1>1. indices \in CellOrders
  BY DEF StreamInit, CellOrders
<1>2. primed \in [CellIndex -> Records \cup {NoRecord}]
  BY DEF StreamInit, TarTypeOK
<1> QED
  BY <1>1, <1>2, StepsType DEF StreamInit, LoopTypeOK

LEMMA LoopTypeStep ==
  ASSUME LoopTypeOK, TarTypeOK, [StreamNext]_streamVars
  PROVE  LoopTypeOK'
<1> USE DEF LoopTypeOK
<1>1. CASE FirstEpoch
  BY <1>1 DEF FirstEpoch
<1>2. CASE Prime
  <2>1. cells' \in [CellIndex -> Records \cup {NoRecord}] \/ phase' # "ready"
    BY <1>2 DEF Prime, PrimeStep, PrimeCell, PrimeNextShard, PrimeReturns, PrimeFails, Priming, TarTypeOK
  <2> QED
    BY <1>2, <2>1 DEF Prime, TarTypeOK
<1>3. CASE EpochPrimed
  BY <1>3 DEF EpochPrimed
<1>4. CASE EpochFails \/ TopLimit \/ BatchHasNoLayout \/ BatchFails
  BY <1>4 DEF EpochFails, TopLimit, BatchHasNoLayout, BatchFails, End
<1>5. CASE RollOver
  BY <1>5 DEF RollOver
<1>6. CASE SkipStep
  BY <1>6 DEF SkipStep
<1>7. CASE BeginBatch
  <2>1. BatchItems \subseteq CellIndex
    BY ItemsAreCells, StepBounds DEF BatchItems
  <2> QED
    BY <1>7, <2>1 DEF BeginBatch
<1>8. CASE WriteNext
  BY <1>8 DEF WriteNext
<1>9. CASE ThreadGoesOn \/ UNCHANGED streamVars
  BY <1>9 DEF ThreadGoesOn, streamVars, loopVars
<1>10. CASE EndBatch
  BY <1>10 DEF EndBatch
<1>11. CASE StartAgain
  <2>1. indices' \in CellOrders
    BY <1>11 DEF StartAgain, CellOrders
  <2> QED
    BY <1>11, <2>1, StepsType DEF StartAgain
<1> QED
  BY <1>1, <1>2, <1>3, <1>4, <1>5, <1>6, <1>7, <1>8, <1>9, <1>10, <1>11 DEF StreamNext, Streaming

-----------------------------------------------------------------------------
(***************************************************************************)
(* Where the loop is, and what the dataset is doing meanwhile.             *)
(***************************************************************************)
LEMMA AllIdleKept ==
  ASSUME AllIdle, UNCHANGED work
  PROVE  AllIdle'
  BY DEF AllIdle, Busy

LEMMA BusyInBatch ==
  ASSUME TarInv, LoopTypeOK, LoopInv, NEW t \in Threads, ThreadStep(t)
  PROVE  loop = "batch" /\ phase \in {"ready", "failed"}
<1>1. Busy(t)
  BY DEF ThreadStep, CheckExhausted, LockReader, RefillExhausted, RefillRecord,
         RefillNextShard, RefillFails, Busy
<1> QED
  BY <1>1 DEF LoopInv, AllIdle

LEMMA LoopInvInit ==
  ASSUME StreamInit
  PROVE  LoopInv /\ PhantomInv
  BY DEF StreamInit, TarInit, LoopInv, PhantomInv, AllIdle, Busy, Idle

LEMMA LoopInvStep ==
  ASSUME TarInv, TarTypeOK', LoopTypeOK, LoopInv, [StreamNext]_streamVars
  PROVE  LoopInv'
<1> USE DEF LoopInv, LoopTypeOK
<1>1. CASE FirstEpoch
  <2>1. AllIdle'
    BY <1>1, AllIdleKept DEF FirstEpoch, NextEpochCall
  <2> QED
    BY <1>1, <2>1 DEF FirstEpoch
<1>2. CASE Prime
  <2>1. phase = "priming" /\ PrimeStep /\ loop' = loop
    BY <1>2 DEF Prime, PrimeStep, PrimeCell, PrimeNextShard, PrimeReturns, PrimeFails, Priming
  <2>2. loop \in {"primed", "rolling", "ended"}
    BY <2>1
  <2>3. AllIdle'
    BY <2>1, PrimingIsIdle, AllIdleKept DEF TarInv
  <2> QED
    BY <2>1, <2>2, <2>3
<1>3. CASE EpochPrimed
  <2>1. AllIdle' /\ phase' = "ready" /\ loop' \in {"top", "step"}
    BY <1>3, AllIdleKept DEF EpochPrimed, tarVars
  <2> QED
    BY <2>1
<1>4. CASE EpochFails \/ TopLimit \/ BatchHasNoLayout \/ BatchFails
  <2>1. AllIdle' /\ loop' = "ended" /\ phase' # "priming"
    BY <1>4, AllIdleKept DEF EpochFails, TopLimit, BatchHasNoLayout, LayoutsDiffer, BatchFails, End, tarVars, AtStep
  <2> QED
    BY <2>1
<1>5. CASE RollOver
  <2>1. loop = "top" /\ AllIdle /\ work' = work
    BY <1>5 DEF RollOver, EpochOver, tarVars, NextEpochCall
  <2>2. AllIdle'
    BY <2>1, AllIdleKept
  <2> QED
    BY <1>5, <2>1, <2>2 DEF RollOver, tarVars
<1>6. CASE SkipStep \/ BeginBatch
  <2>1. loop \in {"top", "step"} /\ phase' = phase /\ loop' \in {"top", "batch"} /\ work' = work
    BY <1>6 DEF SkipStep, BeginBatch, AtStep, tarVars
  <2>2. AllIdle'
    BY <2>1, AllIdleKept
  <2> QED
    BY <2>1, <2>2
<1>7. CASE WriteNext
  <2>1. loop' = "batch" /\ phase' \in {"ready", "failed"}
    BY <1>7 DEF WriteNext, WriteItem, ItemFails, CanCall
  <2> QED
    BY <2>1
<1>8. CASE ThreadGoesOn
  <2>1. PICK t \in Threads : ThreadStep(t)
    BY <1>8 DEF ThreadGoesOn
  <2>2. loop = "batch" /\ phase \in {"ready", "failed"}
    BY <2>1, BusyInBatch
  <2>3. phase' \in {"ready", "failed"}
    BY <2>1, <2>2, ThreadStepIs DEF TarInv, CallEnds, CallGoesOn
  <2>4. loop' = "batch"
    BY <1>8, <2>2 DEF ThreadGoesOn, loopVars
  <2> QED
    BY <2>3, <2>4
<1>9. CASE EndBatch
  <2>1. AllIdle' /\ loop' = "top" /\ phase' = "ready"
    BY <1>9, AllIdleKept DEF EndBatch, tarVars
  <2> QED
    BY <2>1
<1>10. CASE UNCHANGED streamVars
  BY <1>10 DEF streamVars, loopVars, tarVars, AllIdle, Busy
<1>11. CASE StartAgain
  <2>1. AllIdle' /\ loop' = "start" /\ phase' = phase /\ phase # "priming"
    BY <1>11, AllIdleKept DEF StartAgain, tarVars
  <2> QED
    BY <2>1
<1> QED
  BY <1>1, <1>2, <1>3, <1>4, <1>5, <1>6, <1>7, <1>8, <1>9, <1>10, <1>11 DEF StreamNext, Streaming

LEMMA PhantomInvStep ==
  ASSUME LoopTypeOK, PhantomInv, [StreamNext]_streamVars
  PROVE  PhantomInv'
<1> USE DEF LoopTypeOK, PhantomInv
<1>0. StepsPerEpoch' = StepsPerEpoch
  BY DEF StepsPerEpoch
<1>1. CASE FirstEpoch \/ Prime \/ ThreadGoesOn \/ StartAgain \/ UNCHANGED streamVars
  BY <1>0, <1>1 DEF FirstEpoch, Prime, ThreadGoesOn, StartAgain, streamVars, loopVars
<1>2. CASE EpochPrimed
  BY <1>0, <1>2 DEF EpochPrimed
<1>3. CASE EpochFails \/ TopLimit \/ BatchHasNoLayout \/ BatchFails
  BY <1>0, <1>3 DEF EpochFails, TopLimit, BatchHasNoLayout, BatchFails, End
<1>4. CASE RollOver
  BY <1>0, <1>4 DEF RollOver
<1>5. AtStep => epoch > 0
  BY StepsType DEF AtStep
<1>6. CASE SkipStep \/ BeginBatch
  BY <1>0, <1>5, <1>6 DEF SkipStep, BeginBatch
<1>7. CASE WriteNext \/ EndBatch
  BY <1>0, <1>7 DEF WriteNext, EndBatch
<1> QED
  BY <1>1, <1>2, <1>3, <1>4, <1>6, <1>7 DEF StreamNext, Streaming

-----------------------------------------------------------------------------
(***************************************************************************)
(* The schedule.  The items of a step are none of the steps' before it.    *)
(***************************************************************************)
LEMMA FreshItems ==
  ASSUME LoopTypeOK, PhantomInv, AtStep
  PROVE  /\ epoch > 0
         /\ Taken = FirstItems(epochStep * BatchSize)
         /\ BatchItems \cap Taken = {}
<1>1. epoch > 0 /\ loop # "batch"
  BY StepsType DEF AtStep, PhantomInv, LoopTypeOK
<1> QED
  BY <1>1 DEF Taken, BatchItems

LEMMA ItemsOfSteps ==
  ASSUME LoopTypeOK
  PROVE  FirstItems((epochStep + 1) * BatchSize) = FirstItems(epochStep * BatchSize) \cup BatchItems
<1>1. FirstItems(epochStep * BatchSize) \subseteq FirstItems((epochStep + 1) * BatchSize)
  BY StepBounds, MoreItems DEF LoopTypeOK
<1> QED
  BY <1>1 DEF BatchItems

\* The schedule's part of a state in which nothing has been taken.
LEMMA NothingTaken ==
  ASSUME LoopTypeOK, served = {}, Taken = {}, loop # "batch", AllIdle,
         \A i \in CellIndex : cells[i] = primed[i]
  PROVE  ScheduleInv
  BY DEF ScheduleInv, AllIdle, CellLocked

LEMMA ScheduleKept ==
  ASSUME ScheduleInv, UNCHANGED << tarVars, primed >>, Taken' = Taken,
         loop' = "batch" => todo' \subseteq BatchItems',
         loop = "start" => loop' = "start"
  PROVE  ScheduleInv'
  BY DEF ScheduleInv, tarVars, CellLocked, Busy

\* A thread in a call has to do with no other cell than its own.
LEMMA ThreadsKeepOff ==
  ASSUME TarInv, TarTypeOK', NEW t \in Threads, ThreadStep(t), phase' = "ready"
  PROVE  /\ served' = served /\ phase = "ready"
         /\ \A i \in CellIndex : ~CellLocked(i) => cells'[i] = cells[i] /\ ~CellLocked(i)'
<1> USE DEF TarInv
<1>1. CASE CallEnds(t)
  <2>1. served' = served /\ phase = "ready"
    BY <1>1, CallEndsReads
  <2>2. \A u \in Threads : u # t => work'[u] = work[u]
    BY <1>1 DEF CallEnds, TarTypeOK
  <2>3. ~Busy(t)'
    BY <1>1 DEF CallEnds, TarTypeOK, Busy, Idle
  <2>4. \A i \in CellIndex : CellLocked(i)' => CellLocked(i)
    BY <2>2, <2>3 DEF CellLocked, Busy
  <2>5. \A i \in CellIndex : ~CellLocked(i) => cells'[i] = cells[i]
    BY <1>1 DEF CallEnds, CellLocked
  <2> QED
    BY <2>1, <2>4, <2>5
<1>2. CASE CallGoesOn(t) \/ (RefillNextShard(t) /\ UNCHANGED << cells, work, phase >>)
  <2>1. served' = served /\ phase = "ready" /\ cells' = cells
    BY <1>2, CallGoesOnReads DEF CallGoesOn
  <2>2. \A u \in Threads : Busy(u)' => Busy(u) /\ work'[u].cell = work[u].cell
    BY <1>2 DEF CallGoesOn, TarTypeOK, Busy
  <2> QED
    BY <2>1, <2>2 DEF CellLocked
<1> QED
  BY <1>1, <1>2, ThreadStepIs

LEMMA ScheduleInvStep ==
  ASSUME TarInv, TarTypeOK', LoopTypeOK, LoopTypeOK', LoopInv, LoopInv', PhantomInv, PhantomInv',
         ScheduleInv, [StreamNext]_streamVars
  PROVE  ScheduleInv'
<1>0. loop' # "batch" /\ phase' # "ready" => ScheduleInv'
  BY DEF ScheduleInv
<1>1. CASE FirstEpoch
  BY <1>0, <1>1 DEF FirstEpoch, NextEpochCall
<1>2. CASE Prime
  <2>1. phase = "priming" /\ PrimeStep /\ loop' = loop /\ loop # "batch"
    BY <1>2 DEF Prime, PrimeStep, PrimeCell, PrimeNextShard, PrimeReturns, PrimeFails, Priming, LoopInv
  <2>2. CASE phase' = "ready"
    <3>1. PrimeReturns
      BY <2>1, <2>2 DEF PrimeStep, PrimeCell, PrimeNextShard, PrimeFails, Priming
    <3>2. served' = {} /\ cells' = cells /\ primed' = cells
      BY <1>2, <2>1, <2>2, <3>1 DEF TarInv, PrimeInv, PrimeReturns, Prime
    <3>3. AllIdle'
      BY <2>1, PrimingIsIdle, AllIdleKept DEF TarInv
    <3>4. Taken' = {}
      <4>1. loop \in {"primed", "rolling"}
        BY <2>1 DEF LoopInv
      <4>2. epoch = 0 \/ epochStep = 0
        BY <4>1 DEF PhantomInv
      <4>3. epoch' = epoch /\ epochStep' = epochStep /\ indices' = indices
        BY <1>2 DEF Prime
      <4>4. epochStep = 0 => FirstItems(epochStep * BatchSize) = {}
        BY StreamAssumption, NoItems
      <4>5. FirstItems(epochStep * BatchSize)' = FirstItems(epochStep * BatchSize)
        BY <4>3 DEF FirstItems
      <4> QED
        BY <2>1, <4>2, <4>3, <4>4, <4>5 DEF Taken
    <3> QED
      BY <2>1, <3>2, <3>3, <3>4 DEF ScheduleInv, AllIdle, CellLocked
  <2> QED
    BY <1>0, <2>1, <2>2
<1>3. CASE EpochPrimed
  <2>1. Taken' = Taken /\ loop' # "batch" /\ loop # "start"
    BY <1>3 DEF EpochPrimed, Taken, FirstItems
  <2> QED
    BY <1>3, <2>1, ScheduleKept DEF EpochPrimed
<1>4. CASE TopLimit \/ BatchHasNoLayout
  <2>1. Taken' = Taken /\ loop' # "batch" /\ loop # "start" /\ primed' = primed
    BY <1>4 DEF TopLimit, BatchHasNoLayout, AtStep, End, Taken, FirstItems
  <2>2. CASE UNCHANGED tarVars
    BY <2>1, <2>2, ScheduleKept
  <2>3. CASE LayoutsDiffer
    BY <1>0, <2>1, <2>3 DEF LayoutsDiffer
  <2> QED
    BY <1>4, <2>2, <2>3 DEF TopLimit, BatchHasNoLayout
<1>5. CASE EpochFails \/ BatchFails
  BY <1>0, <1>5 DEF EpochFails, BatchFails, End, tarVars
<1>6. CASE RollOver
  <2>1. CASE epoch = 0
    <3>1. epoch' = 1 /\ epochStep' = 0 /\ loop = "top" /\ loop' = "step" /\ UNCHANGED << tarVars, primed >>
      BY <1>6, <2>1 DEF RollOver, EpochOver
    <3>2. Taken = {}
      BY <2>1 DEF Taken
    <3>3. epochStep' * BatchSize = 0
      BY <3>1, StreamAssumption
    <3>4. Taken' = {}
      BY <3>1, <3>3, TarAssumption DEF Taken, FirstItems, CellIndex
    <3> QED
      BY <3>1, <3>2, <3>4, ScheduleKept
  <2>2. CASE epoch # 0
    BY <1>0, <1>6, <2>2 DEF RollOver, NextEpochCall
  <2> QED
    BY <2>1, <2>2
<1>7. CASE SkipStep
  <2>1. AtStep /\ BatchItems = {} /\ loop' = "top" /\ epoch' = epoch /\ epochStep' = epochStep + 1
        /\ UNCHANGED << tarVars, primed, indices >>
    BY <1>7 DEF SkipStep
  <2>2. Taken' = FirstItems((epochStep + 1) * BatchSize)
    BY <2>1, FreshItems DEF Taken, FirstItems
  <2>3. Taken' = Taken /\ loop # "start"
    BY <2>1, <2>2, FreshItems, ItemsOfSteps DEF AtStep
  <2> QED
    BY <2>1, <2>3, ScheduleKept
<1>8. CASE BeginBatch
  <2>1. AtStep /\ loop' = "batch" /\ todo' = BatchItems
        /\ UNCHANGED << tarVars, primed, indices, epoch, epochStep >>
    BY <1>8 DEF BeginBatch
  <2>2. BatchItems' = BatchItems /\ loop # "start"
    BY <2>1 DEF BatchItems, FirstItems, AtStep
  <2>3. Taken' = FirstItems(epochStep * BatchSize)
    BY <2>1, <2>2, FreshItems DEF Taken, FirstItems
  <2> QED
    BY <2>1, <2>2, <2>3, FreshItems, ScheduleKept
<1>9. CASE EndBatch
  <2>1. loop = "batch" /\ todo = {} /\ loop' = "top" /\ epoch' = epoch /\ epochStep' = epochStep + 1
        /\ UNCHANGED << tarVars, primed, indices >>
    BY <1>9 DEF EndBatch
  <2>2. epoch # 0
    BY <2>1 DEF PhantomInv, LoopTypeOK
  <2>3. Taken = FirstItems((epochStep + 1) * BatchSize)
    <3>1. Taken = FirstItems(epochStep * BatchSize) \cup (BatchItems \ todo)
      BY <2>1, <2>2 DEF Taken
    <3> QED
      BY <2>1, <3>1, ItemsOfSteps
  <2>4. Taken' = FirstItems((epochStep + 1) * BatchSize)
    BY <2>1, <2>2 DEF Taken, FirstItems
  <2> QED
    BY <2>1, <2>3, <2>4, ScheduleKept
<1>10. CASE WriteNext
  <2>1. PICK t \in Threads, i \in todo : (WriteItem(t, i) \/ ItemFails(t, i)) /\ todo' = todo \ {i}
    BY <1>10 DEF WriteNext
  <2>2. loop = "batch" /\ epoch > 0
        /\ UNCHANGED << loop, epoch, epochStep, indices, primed >>
    BY <1>10 DEF WriteNext, PhantomInv
  <2>3. /\ todo \subseteq BatchItems /\ BatchItems' = BatchItems /\ i \in CellIndex
        /\ i \in BatchItems /\ i \notin FirstItems(epochStep * BatchSize)
    BY <2>2 DEF ScheduleInv, BatchItems, FirstItems, LoopTypeOK
  <2>4. i \notin Taken /\ Taken' = Taken \cup {i}
    BY <2>1, <2>2, <2>3 DEF Taken, FirstItems
  <2>5. loop' = "batch" => todo' \subseteq BatchItems'
    BY <2>1, <2>3
  <2>6. CASE WriteItem(t, i)
    <3>1. phase = "ready" /\ cells' = cells /\ served' = served \cup {cells[i]}
      BY <2>6 DEF WriteItem, CanCall
    <3>2. served' = { primed'[j] : j \in Taken' }
      BY <2>2, <2>3, <2>4, <3>1 DEF ScheduleInv
    <3>3. \A u \in Threads : u # t => work'[u] = work[u]
      BY <2>6 DEF WriteItem, TarInv, TarTypeOK
    <3>4. work'[t].cell = i
      BY <2>6 DEF WriteItem, TarInv, TarTypeOK
    <3>5. \A j \in CellIndex : CellLocked(j)' => CellLocked(j) \/ j = i
      BY <3>3, <3>4 DEF CellLocked, Busy
    <3>6. \A j \in CellIndex \ Taken' : cells'[j] = primed'[j] /\ ~CellLocked(j)'
      BY <2>2, <2>4, <3>1, <3>5 DEF ScheduleInv
    <3> QED
      BY <2>5, <3>2, <3>6 DEF ScheduleInv
  <2>7. CASE ItemFails(t, i)
    BY <2>5, <2>7 DEF ItemFails, ScheduleInv
  <2> QED
    BY <2>1, <2>6, <2>7
<1>11. CASE ThreadGoesOn
  <2>1. PICK t \in Threads : ThreadStep(t)
    BY <1>11 DEF ThreadGoesOn
  <2>2. Taken' = Taken /\ primed' = primed /\ BatchItems' = BatchItems /\ todo' = todo /\ loop' = loop
    BY <1>11 DEF ThreadGoesOn, loopVars, Taken, BatchItems, FirstItems
  <2>3. CASE phase' = "ready"
    BY <2>1, <2>2, <2>3, ThreadsKeepOff DEF ScheduleInv
  <2>4. CASE phase' # "ready"
    BY <2>2, <2>4 DEF ScheduleInv
  <2> QED
    BY <2>3, <2>4
<1>13. CASE StartAgain
  BY <1>13 DEF StartAgain, ScheduleInv
<1>12. CASE UNCHANGED streamVars
  <2>1. UNCHANGED << tarVars, primed >> /\ Taken' = Taken /\ BatchItems' = BatchItems /\ todo' = todo /\ loop' = loop
    BY <1>12 DEF streamVars, loopVars, Taken, BatchItems, FirstItems
  <2> QED
    BY <2>1, ScheduleKept DEF ScheduleInv
<1> QED
  BY <1>1, <1>2, <1>3, <1>4, <1>5, <1>6, <1>7, <1>8, <1>9, <1>10, <1>11, <1>12, <1>13 DEF StreamNext, Streaming

-----------------------------------------------------------------------------
(***************************************************************************)
(* With records enough no cell is primed empty, and no call fails unless   *)
(* something is found damaged.                                             *)
(***************************************************************************)
LEMMA FullPriming ==
  ASSUME TarInv, FullBuffer, PrimeReturns
  PROVE  \A i \in CellIndex : cells[i] # NoRecord
<1> USE DEF TarInv
<1>1. phase = "priming" /\ cellIdx \in 0 .. BufferCap /\ BufferCap \in Nat
  BY TarAssumption DEF PrimeReturns, TarTypeOK
<1>2. cellIdx >= BufferCap
  <2>1. CASE cellIdx = BufferCap
    BY <1>1, <2>1
  <2>2. CASE exhausted
    <3>1. Read = Records
      BY <2>2, ReadAll DEF Read, TarTypeOK, PositionInv
    <3> QED
      BY <1>1, <3>1 DEF PrimeInv, FullBuffer
  <2> QED
    BY <2>1, <2>2 DEF PrimeReturns
<1>3. \A i \in CellIndex : i < cellIdx
  BY <1>1, <1>2 DEF CellIndex
<1> QED
  BY <1>3, PrimedCells

LEMMA FullCallsSucceed ==
  ASSUME TarInv, LoopTypeOK, PhantomInv, ScheduleInv, FullInv, FullBuffer,
         loop = "batch", phase = "ready",
         NEW i \in todo
  PROVE  ~Refuses(i)
<1>1. i \in CellIndex /\ i \notin Taken
  BY DEF LoopTypeOK, ScheduleInv, Taken, BatchItems
<1>2. cells[i] = primed[i] /\ primed[i] # NoRecord
  BY <1>1 DEF ScheduleInv, FullInv
<1> QED
  BY <1>2 DEF Refuses, FullBuffer

\* Damage that has been found is not forgotten.
LEMMA DamageStays ==
  ASSUME TarTypeOK, [TarNext]_tarVars
  PROVE  damaged => damaged'
<1>1. (\E shuffle \in BOOLEAN : NextEpochCall(shuffle)) => (damaged => damaged')
  BY DEF NextEpochCall
<1>2. PrimeStep \/ LayoutsDiffer => (damaged => damaged')
  BY DEF PrimeStep, PrimeCell, PrimeNextShard, PrimeReturns, PrimeFails, LayoutsDiffer
<1>3. (\E t \in Threads : \E i \in CellIndex : WriteItem(t, i) \/ ItemFails(t, i)) => (damaged => damaged')
  BY DEF WriteItem, ItemFails
<1>4. (\E t \in Threads : ThreadStep(t)) => (damaged => damaged')
  BY DEF ThreadStep, CheckExhausted, LockReader, RefillExhausted, RefillRecord, RefillNextShard, RefillFails
<1> QED
  BY <1>1, <1>2, <1>3, <1>4 DEF TarNext, tarVars

LEMMA FullInvStep ==
  ASSUME TarInv, TarTypeOK', LoopTypeOK, LoopInv, PhantomInv, ScheduleInv, FullInv,
         [StreamNext]_streamVars
  PROVE  FullInv'
<1> SUFFICES ASSUME FullBuffer
             PROVE  /\ failed' \/ phase' = "failed" => damaged'
                    /\ phase' = "ready" => \A i \in CellIndex : primed'[i] # NoRecord
  BY DEF FullInv, FullBuffer
<1>0. /\ failed \/ phase = "failed" => damaged
      /\ phase = "ready" => \A i \in CellIndex : primed[i] # NoRecord
      /\ damaged => damaged'
  BY StreamStepIsTarStep, DamageStays DEF FullInv, TarInv
<1>1. CASE FirstEpoch
  BY <1>0, <1>1 DEF FirstEpoch, NextEpochCall
<1>2. CASE Prime
  <2>1. CASE PrimeReturns
    BY <1>0, <1>2, <2>1, FullPriming DEF Prime, PrimeReturns
  <2>2. CASE PrimeCell \/ PrimeNextShard
    BY <1>0, <1>2, <2>2 DEF Prime, PrimeCell, PrimeNextShard, Priming
  <2>3. CASE PrimeFails
    BY <2>3 DEF PrimeFails
  <2> QED
    BY <1>2, <2>1, <2>2, <2>3 DEF Prime, PrimeStep
<1>3. CASE EpochPrimed \/ TopLimit \/ SkipStep \/ BeginBatch \/ EndBatch
  BY <1>0, <1>3 DEF EpochPrimed, TopLimit, End, SkipStep, BeginBatch, EndBatch, tarVars
<1>4. CASE EpochFails \/ BatchFails
  BY <1>0, <1>4 DEF EpochFails, BatchFails, End, tarVars
<1>5. CASE RollOver
  BY <1>0, <1>5 DEF RollOver, NextEpochCall, tarVars
<1>6. CASE BatchHasNoLayout
  <2>1. CASE LayoutsDiffer
    BY <2>1 DEF LayoutsDiffer
  <2>2. ~(\A i \in BatchItems : cells[i] = NoRecord)
    <3>1. AtStep /\ BatchItems # {}
      BY <1>6 DEF BatchHasNoLayout
    <3>2. PICK i \in BatchItems : TRUE
      BY <3>1
    <3>3. i \in CellIndex /\ i \notin Taken
      BY <3>1, FreshItems, ItemsAreCells, StepBounds DEF BatchItems, LoopTypeOK
    <3>4. phase = "ready"
      BY <3>1 DEF AtStep, LoopInv
    <3>5. loop # "start"
      BY <3>1 DEF AtStep
    <3> QED
      BY <1>0, <3>3, <3>4, <3>5 DEF ScheduleInv
  <2> QED
    BY <1>6, <2>1, <2>2 DEF BatchHasNoLayout
<1>7. CASE WriteNext
  <2>1. PICK t \in Threads, i \in todo : WriteItem(t, i) \/ ItemFails(t, i)
    BY <1>7 DEF WriteNext
  <2>2. loop = "batch" /\ phase = "ready" /\ failed' = failed /\ primed' = primed
    BY <1>7, <2>1 DEF WriteNext, WriteItem, ItemFails, CanCall
  <2>3. CASE WriteItem(t, i)
    BY <1>0, <2>2, <2>3 DEF WriteItem
  <2>4. CASE ItemFails(t, i)
    BY <2>2, <2>4, FullCallsSucceed DEF ItemFails
  <2> QED
    BY <2>1, <2>3, <2>4
<1>8. CASE ThreadGoesOn
  <2>1. PICK t \in Threads : ThreadStep(t)
    BY <1>8 DEF ThreadGoesOn
  <2>2. phase' = phase \/ damaged'
    BY <2>1 DEF ThreadStep, CheckExhausted, LockReader, RefillExhausted, RefillRecord, RefillNextShard, RefillFails
  <2>3. phase' = "ready" => phase = "ready"
    BY <2>1 DEF ThreadStep, CheckExhausted, LockReader, RefillExhausted, RefillRecord, RefillNextShard, RefillFails
  <2> QED
    BY <1>0, <1>8, <2>2, <2>3 DEF ThreadGoesOn, loopVars
<1>9. CASE StartAgain \/ UNCHANGED streamVars
  BY <1>0, <1>9 DEF StartAgain, streamVars, loopVars, tarVars
<1> QED
  BY <1>1, <1>2, <1>3, <1>4, <1>5, <1>6, <1>7, <1>8, <1>9 DEF StreamNext, Streaming

-----------------------------------------------------------------------------
LEMMA TarStreamInvInit ==
  ASSUME StreamInit
  PROVE  TarStreamInv
<1>1. TarInv
  BY TarInvInit DEF StreamInit
<1>2. LoopTypeOK
  BY <1>1, LoopTypeInit DEF TarInv
<1>3. LoopInv /\ PhantomInv
  BY LoopInvInit
<1>4. ScheduleInv /\ FullInv
  BY DEF StreamInit, TarInit, ScheduleInv, FullInv
<1> QED
  BY <1>1, <1>2, <1>3, <1>4 DEF TarStreamInv

LEMMA TarStreamInvStep ==
  ASSUME TarStreamInv, [StreamNext]_streamVars
  PROVE  TarStreamInv'
<1> USE DEF TarStreamInv
<1>1. TarInv'
  BY StreamStepIsTarStep, TarInvStep
<1>2. TarTypeOK /\ TarTypeOK'
  BY <1>1 DEF TarInv
<1>3. LoopTypeOK'
  BY <1>2, LoopTypeStep
<1>4. LoopInv'
  BY <1>2, LoopInvStep
<1>5. PhantomInv'
  BY PhantomInvStep
<1>6. ScheduleInv'
  BY <1>2, <1>3, <1>4, <1>5, ScheduleInvStep
<1>7. FullInv'
  BY <1>2, FullInvStep
<1> QED
  BY <1>1, <1>3, <1>4, <1>5, <1>6, <1>7

(***************************************************************************)
(* TarStreamInv holds in every reachable state of the loop over a          *)
(* TarDataset, whatever is damaged and whenever a call fails.              *)
(***************************************************************************)
THEOREM TarStreamInvariance == StreamSpec => []TarStreamInv
<1>1. StreamInit => TarStreamInv
  BY TarStreamInvInit
<1>2. TarStreamInv /\ [StreamNext]_streamVars => TarStreamInv'
  BY TarStreamInvStep
<1> QED
  BY <1>1, <1>2, PTL DEF StreamSpec

(***************************************************************************)
(* The streaming loop is a caller as TarDataset wants it: it is never in   *)
(* next_epoch while a thread is writing an item.                           *)
(***************************************************************************)
THEOREM LoopIsACaller == StreamSpec => TarSpec
<1>1. StreamInit => TarInit
  BY DEF StreamInit
<1>2. TarStreamInv /\ [StreamNext]_streamVars => [TarNext]_tarVars
  BY StreamStepIsTarStep DEF TarStreamInv
<1> QED
  BY <1>1, <1>2, TarStreamInvariance, PTL DEF StreamSpec, TarSpec

(***************************************************************************)
(* The loop ends with an error only when a shard or a record was found     *)
(* damaged, or where the buffer has more cells than there are records.     *)
(***************************************************************************)
THEOREM FullBufferStreams == StreamSpec => []FullBufferNeverFails
<1>1. TarStreamInv => FullBufferNeverFails
  <2>1. Cardinality(Records) \in Nat /\ BufferCap \in Nat
    BY RecordsFinite, FS_CardinalityType, TarAssumption
  <2> QED
    BY <2>1 DEF TarStreamInv, FullInv, FullBuffer, FullBufferNeverFails
<1> QED
  BY <1>1, TarStreamInvariance, PTL
===============================================================================
