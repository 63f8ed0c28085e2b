------------------------------ MODULE TarStream ------------------------------
(***************************************************************************)
(* The streaming loop of core/producer/mod.rs over a TarDataset: which     *)
(* items of the buffer it writes, and when it calls next_epoch, over any   *)
(* number of calls of start_streaming.  The ring is left out: a slot is    *)
(* always free (Stream models it).                                         *)
(*                                                                         *)
(*   start -> primed -> top -> (rolling ->) step -> batch -> top ... ended *)
(***************************************************************************)
EXTENDS TarDataset

CONSTANTS
  BatchSize,    \* batch_size
  TotalSamples, \* total_samples, counted or given by shard_size_fn
  StepLimit,    \* max_steps
  Shuffle       \* shuffle

ASSUME StreamAssumption ==
  /\ BatchSize \in Nat \ {0}
  /\ TotalSamples \in Nat
  /\ StepLimit \in Nat
  /\ Shuffle \in BOOLEAN

VARIABLES
  loop,       \* where the streaming loop is
  epoch,      \* current_epoch
  epochStep,  \* epoch_step
  indices,    \* indices: the order of the cells in this epoch
  todo,       \* items of the current batch that no thread has taken
  failed,     \* the loop has returned an error
  primed      \* history: the cells as next_epoch left them

loopVars == << loop, epoch, epochStep, indices, todo, failed, primed >>
streamVars == << tarVars, loopVars >>

\* steps_per_epoch
StepsPerEpoch == (TotalSamples + BatchSize - 1) \div BatchSize

CellOrders == { f \in [CellIndex -> CellIndex] :
                  \A i, j \in CellIndex : f[i] = f[j] => i = j }

StreamInit ==
  /\ TarInit
  /\ loop = "start"
  /\ epoch = 0
  /\ epochStep = StepsPerEpoch
  /\ indices = [i \in CellIndex |-> i]
  /\ todo = {}
  /\ failed = FALSE
  /\ primed = cells

End(error) ==
  /\ loop' = "ended"
  /\ failed' = error
  /\ UNCHANGED << epoch, epochStep, indices, todo, primed >>

-----------------------------------------------------------------------------
\* next_epoch with epoch 0, before the consumer has said START.
FirstEpoch ==
  /\ loop = "start"
  /\ NextEpochCall(Shuffle)
  /\ loop' = "primed"
  /\ UNCHANGED << epoch, epochStep, indices, todo, failed, primed >>

Prime ==
  /\ PrimeStep
  /\ UNCHANGED << loop, epoch, epochStep, indices, todo, failed >>
  /\ primed' = IF phase' = "ready" THEN cells ELSE primed

\* next_epoch has returned.
EpochPrimed ==
  /\ loop \in {"primed", "rolling"}
  /\ phase = "ready"
  /\ loop' = IF loop = "primed" THEN "top" ELSE "step"
  /\ UNCHANGED << tarVars, epoch, epochStep, indices, todo, failed, primed >>

EpochFails ==
  /\ loop \in {"primed", "rolling"}
  /\ phase = "failed"
  /\ End(TRUE)
  /\ UNCHANGED tarVars

LimitReached == epochStep + epoch * StepsPerEpoch >= StepLimit

TopLimit ==
  /\ loop = "top"
  /\ LimitReached
  /\ End(FALSE)
  /\ UNCHANGED tarVars

EpochOver == loop = "top" /\ ~LimitReached /\ epochStep >= StepsPerEpoch

\* The first epoch was primed before the loop, the others are now.
RollOver ==
  /\ EpochOver
  /\ epoch' = epoch + 1
  /\ epochStep' = 0
  /\ indices' \in IF Shuffle THEN CellOrders ELSE {indices}
  /\ IF epoch = 0
       THEN loop' = "step" /\ UNCHANGED tarVars
       ELSE loop' = "rolling" /\ NextEpochCall(Shuffle)
  /\ UNCHANGED << todo, failed, primed >>

\* The loop is about to cut the batch of epochStep out of indices.
AtStep ==
  \/ loop = "step"
  \/ loop = "top" /\ ~LimitReached /\ epochStep < StepsPerEpoch

FirstItems(n) == { indices[k] : k \in { j \in CellIndex : j < n } }

\* Fault: end_idx is one too far.
BatchItemsOneMore ==
  FirstItems((epochStep + 1) * BatchSize + 1) \ FirstItems(epochStep * BatchSize)

\* indices[start_idx .. end_idx], none past the end of the buffer.
BatchItems ==
  FirstItems((epochStep + 1) * BatchSize) \ FirstItems(epochStep * BatchSize)

\* Fault: `continue` without epoch_step += 1.
SkipStepForgets ==
  /\ AtStep
  /\ BatchItems = {}
  /\ loop' = "top"
  /\ UNCHANGED << tarVars, epoch, epochStep, indices, todo, failed, primed >>

SkipStep ==
  /\ AtStep
  /\ BatchItems = {}
  /\ epochStep' = epochStep + 1
  /\ loop' = "top"
  /\ UNCHANGED << tarVars, epoch, indices, todo, failed, primed >>

BeginBatch ==
  /\ AtStep
  /\ \E i \in BatchItems : cells[i] # NoRecord
  /\ todo' = BatchItems
  /\ loop' = "batch"
  /\ UNCHANGED << tarVars, epoch, epochStep, indices, failed, primed >>

\* dynamic_layouts has nothing to merge, or layouts that do not match.
BatchHasNoLayout ==
  /\ AtStep
  /\ BatchItems # {}
  /\ \/ /\ \A i \in BatchItems : cells[i] = NoRecord
        /\ UNCHANGED tarVars
     \/ /\ \E i, j \in BatchItems : i # j /\ cells[i] # NoRecord /\ cells[j] # NoRecord
        /\ LayoutsDiffer
  /\ End(TRUE)

WriteNext ==
  /\ loop = "batch"
  /\ \E t \in Threads, i \in todo :
       /\ WriteItem(t, i) \/ ItemFails(t, i)
       /\ todo' = todo \ {i}
  /\ UNCHANGED << loop, epoch, epochStep, indices, failed, primed >>

ThreadGoesOn ==
  /\ \E t \in Threads : ThreadStep(t)
  /\ UNCHANGED loopVars

\* All items are written: the slot is published.
EndBatch ==
  /\ loop = "batch"
  /\ phase = "ready"
  /\ todo = {}
  /\ AllIdle
  /\ epochStep' = epochStep + 1
  /\ loop' = "top"
  /\ UNCHANGED << tarVars, epoch, indices, todo, failed, primed >>

\* Threads that are writing finish, then the error is returned.
BatchFails ==
  /\ loop = "batch"
  /\ phase = "failed"
  /\ AllIdle
  /\ End(TRUE)
  /\ UNCHANGED tarVars

Streaming ==
  \/ FirstEpoch \/ Prime \/ EpochPrimed \/ EpochFails
  \/ TopLimit \/ RollOver \/ SkipStep
  \/ BeginBatch \/ BatchHasNoLayout \/ WriteNext \/ ThreadGoesOn
  \/ EndBatch \/ BatchFails

\* start_streaming is called again, with the dataset as the last call left it.
StartAgain ==
  /\ loop = "ended"
  /\ loop' = "start"
  /\ epoch' = 0
  /\ epochStep' = StepsPerEpoch
  /\ indices' = [i \in CellIndex |-> i]
  /\ todo' = {}
  /\ failed' = FALSE
  /\ UNCHANGED << tarVars, primed >>

StreamNext == Streaming \/ StartAgain

StreamSpec == StreamInit /\ [][StreamNext]_streamVars

(***************************************************************************)
(* The loop goes on.  Nobody has to start it again, and no shard or record *)
(* has to be found damaged: a loop that spins is not helped by an error.   *)
(***************************************************************************)
Progress == Streaming /\ damaged' = damaged

StreamFairSpec == StreamSpec /\ WF_streamVars(Progress)

-----------------------------------------------------------------------------
\* The loop has come to the next item to write, or to the epoch's end.
BetweenBatches == loop = "top" /\ epoch > 0 /\ phase = "ready"

(***************************************************************************)
(* core/dataset/mod.rs:28: the producer starts the next epoch after        *)
(* total_epoch_len items are read.  It does not: the steps past the buffer *)
(* have no items and are skipped, so that an epoch reads one item of each  *)
(* cell, and the records that refilled the cells are never read.           *)
(***************************************************************************)
EpochsReadTheirTotal ==
  BetweenBatches /\ EpochOver => Cardinality(served) = TotalSamples

(***************************************************************************)
(* As long as there are records enough to fill the buffer, the loop never  *)
(* meets an empty cell: it only returns an error when an archive or a      *)
(* record was found damaged.                                               *)
(***************************************************************************)
FullBufferNeverFails ==
  failed =>
    \/ damaged
    \/ EmptyRecords # {}
    \/ Cardinality(Records) < BufferCap

(***************************************************************************)
(* Every batch and every next_epoch comes to its end, and with a limit the *)
(* loop does, in whatever state the dataset was when it began.             *)
(***************************************************************************)
StreamEnds == loop # "ended" ~> loop = "ended"
=============================================================================
