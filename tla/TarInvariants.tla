--------------------------- MODULE TarInvariants ---------------------------
(***************************************************************************)
(* The inductive invariant of TarDataset, in named parts.                  *)
(***************************************************************************)
EXTENDS TarDataset

\* The reader is inside the open shard, or past the last one.
PositionInv ==
  /\ exhausted <=> shardIdx = NShards
  /\ ~exhausted => readPos <= ShardSizes[order[shardIdx]]

\* Threads in a call have cells of their own, which hold a record.
ThreadInv ==
  /\ phase \in {"new", "priming"} => AllIdle
  /\ \A t \in Threads : Busy(t) => cells[work[t].cell] # NoRecord
  /\ \A t, u \in Threads :
       Busy(t) /\ Busy(u) /\ work[t].cell = work[u].cell => t = u

\* The cells filled so far hold what has been read, each record once.
PrimeInv ==
  phase = "priming" =>
    /\ served = {}
    /\ Read = { cells[i] : i \in 0 .. cellIdx - 1 }
    /\ \A i, j \in 0 .. cellIdx - 1 : cells[i] = cells[j] => i = j
    /\ Cardinality(Read) = cellIdx

\* A cell that there never are records enough for is never filled.
SpareInv ==
  \A i \in CellIndex : cells[i] # NoRecord => i < Cardinality(Records)

TarInv ==
  /\ TarTypeOK
  /\ PositionInv
  /\ ThreadInv
  /\ PrimeInv
  /\ SpareInv
  /\ Conservation
  /\ EmptyOnlyAtEnd
=============================================================================
