------------------------------ MODULE Producer ------------------------------
(***************************************************************************)
(* start_streaming_loop of core/producer/mod.rs from its `loop` on, with   *)
(* copy_batch_to_shm and process_chunk of core/producer/helpers.rs.  Every *)
(* access to the control block that another process can observe or change  *)
(* is a step of its own.                                                   *)
(*                                                                         *)
(*   top -> claim -> load -> prepare -> headers -> items -> ready -> top   *)
(*                     \-> undo -> spin -> top                             *)
(*                                                                         *)
(* and to "closed" from every return: the stream is dropped on the way out.*)
(***************************************************************************)
EXTENDS SharedMemory

CONSTANTS
  StepsPerEpoch,  \* total_epoch_len.div_ceil(batch_size)
  DataSteps,      \* len.div_ceil(batch_size): later steps have no items
  MaxSteps,       \* max_steps, NoLimit for None
  ProducerFaults  \* which of "dataset", "sigint", "kill" may happen

NoLimit == -1

ASSUME ScheduleAssumption ==
  /\ StepsPerEpoch \in Nat \ {0}
  /\ DataSteps \in Nat \ {0}
  /\ MaxSteps \in Nat \cup {NoLimit}
  /\ ProducerFaults \subseteq {"dataset", "sigint", "kill"}

VARIABLES
  ppc,        \* where the producer thread is
  curHead,    \* local cur_head: the batch being claimed or written
  epoch,      \* local current_epoch
  epochStep,  \* local epoch_step
  running,    \* the flag the Ctrl-C handler clears
  published   \* history: batches whose is_ready has been set for them

prodVars == << ppc, curHead, epoch, epochStep, running, published >>

WritingPCs == {"prepare", "headers", "items", "ready"}

ProducerPCs == {"top", "claim", "load", "undo", "spin", "closed"} \cup WritingPCs

ProducerInit ==
  /\ ppc = "top"
  /\ curHead = 0
  /\ epoch = 0
  /\ epochStep = StepsPerEpoch
  /\ running = TRUE
  /\ published = 0

\* The loop returns; the caller's stream is dropped and so closed.
Return ==
  /\ ppc' = "closed"
  /\ CloseProducerEnd
  /\ UNCHANGED << curHead, epoch, epochStep, running, published, head, tail, slots >>

(***************************************************************************)
(* The checks at the top of the loop.                                      *)
(***************************************************************************)
TopInterrupted ==
  /\ ppc = "top"
  /\ ~running
  /\ isRunning' = FALSE
  /\ Return

TopStopped ==
  /\ ppc = "top"
  /\ running
  /\ ~isRunning
  /\ Return
  /\ UNCHANGED isRunning

\* total_steps counts from StepsPerEpoch: epoch_step starts there.
LimitReached ==
  /\ MaxSteps # NoLimit
  /\ epochStep + epoch * StepsPerEpoch >= MaxSteps

TopLimit ==
  /\ ppc = "top"
  /\ running
  /\ isRunning
  /\ LimitReached
  /\ Return
  /\ UNCHANGED isRunning

\* The checks let the loop body go on.
Proceeds == ppc = "top" /\ running /\ isRunning /\ ~LimitReached

\* Epoch rollover: EPOCH_DONE is written except before the first epoch.
NextEpoch ==
  /\ Proceeds
  /\ epochStep >= StepsPerEpoch
  /\ epoch = 0 \/ socket.consumerOpen
  /\ epoch' = epoch + 1
  /\ epochStep' = 0
  /\ ppc' = "claim"
  /\ IF epoch = 0 THEN UNCHANGED socket ELSE SendEpochDone
  /\ UNCHANGED << curHead, running, published, head, tail, isRunning, slots >>

\* next_epoch of the dataset fails, or the write of EPOCH_DONE does.
NextEpochFails ==
  /\ Proceeds
  /\ epochStep >= StepsPerEpoch
  /\ epoch # 0
  /\ "dataset" \in ProducerFaults \/ ~socket.consumerOpen
  /\ Return
  /\ UNCHANGED isRunning

TakeStep ==
  /\ Proceeds
  /\ epochStep < StepsPerEpoch
  /\ epochStep < DataSteps
  /\ ppc' = "claim"
  /\ UNCHANGED << curHead, epoch, epochStep, running, published, shmVars >>

\* start_idx >= end_idx: a step of an epoch longer than the dataset's len.
SkipStep ==
  /\ Proceeds
  /\ epochStep < StepsPerEpoch
  /\ epochStep >= DataSteps
  /\ epochStep' = epochStep + 1
  /\ UNCHANGED << ppc, curHead, epoch, running, published, shmVars >>

(***************************************************************************)
(* Claiming a slot: fetch_add on head comes first, the check for space     *)
(* second, and a full ring is repaired with fetch_sub.                     *)
(***************************************************************************)
\* Fault: cur_head taken one below the value fetch_add returned.
ClaimBelow ==
  /\ ppc = "claim"
  /\ curHead' = head - 1
  /\ head' = head + 1
  /\ ppc' = "load"
  /\ UNCHANGED << epoch, epochStep, running, published, tail, isRunning, slots, socket >>

Claim ==
  /\ ppc = "claim"
  /\ curHead' = head
  /\ head' = head + 1
  /\ ppc' = "load"
  /\ UNCHANGED << epoch, epochStep, running, published, tail, isRunning, slots, socket >>

\* Fault: a full ring is taken for one with a free slot.
CheckSpaceOffByOne ==
  /\ ppc = "load"
  /\ ppc' = IF Occupied(curHead, tail) > NSlots THEN "undo" ELSE "prepare"
  /\ UNCHANGED << curHead, epoch, epochStep, running, published, shmVars >>

CheckSpace ==
  /\ ppc = "load"
  /\ ppc' = IF Occupied(curHead, tail) >= NSlots THEN "undo" ELSE "prepare"
  /\ UNCHANGED << curHead, epoch, epochStep, running, published, shmVars >>

UndoClaim ==
  /\ ppc = "undo"
  /\ head' = head - 1
  /\ ppc' = "spin"
  /\ UNCHANGED << curHead, epoch, epochStep, running, published, tail, isRunning, slots, socket >>

Full == Occupied(head, tail) >= NSlots

SpaceFreed ==
  /\ ppc = "spin"
  /\ ~Full
  /\ ppc' = "top"
  /\ UNCHANGED << curHead, epoch, epochStep, running, published, shmVars >>

SpinInterrupted ==
  /\ ppc = "spin"
  /\ Full
  /\ ~running
  /\ isRunning' = FALSE
  /\ Return

SpinStopped ==
  /\ ppc = "spin"
  /\ Full
  /\ running
  /\ ~isRunning
  /\ Return
  /\ UNCHANGED isRunning

\* Fault: the end of file is taken for a live peer, and the loop spins on.
SpinIgnoresPeer ==
  /\ ppc = "spin"
  /\ Full
  /\ ~socket.consumerOpen
  /\ UNCHANGED << prodVars, shmVars >>

\* is_peer_alive reads end of file, or the reset of a closed peer.
SpinPeerGone ==
  /\ ppc = "spin"
  /\ Full
  /\ running
  /\ isRunning
  /\ ~socket.consumerOpen
  /\ Return
  /\ UNCHANGED isRunning

(***************************************************************************)
(* Writing the claimed slot.  is_ready is cleared by the first header that *)
(* is written, after prepare_batch_metadata has computed the layouts.      *)
(***************************************************************************)
CurSlot == SlotOf(curHead)

BeginHeaders ==
  /\ ppc = "prepare"
  /\ slots' = [slots EXCEPT ![CurSlot] = EmptySlot]
  /\ ppc' = "headers"
  /\ UNCHANGED << curHead, epoch, epochStep, running, published, head, tail, isRunning, socket >>

EndHeaders ==
  /\ ppc = "headers"
  /\ slots' = [slots EXCEPT ![CurSlot].meta = curHead]
  /\ ppc' = "items"
  /\ UNCHANGED << curHead, epoch, epochStep, running, published, head, tail, isRunning, socket >>

CopyItems ==
  /\ ppc = "items"
  /\ running
  /\ slots' = [slots EXCEPT ![CurSlot].data = curHead]
  /\ ppc' = "ready"
  /\ UNCHANGED << curHead, epoch, epochStep, running, published, head, tail, isRunning, socket >>

\* process_chunk saw the Ctrl-C flag: the error returns without stop().
CopyInterrupted ==
  /\ ppc = "items"
  /\ ~running
  /\ Return
  /\ UNCHANGED isRunning

\* dynamic_layouts, a bounds check or write_item_into fails: head stays up.
BatchFails ==
  /\ ppc \in {"prepare", "headers", "items"}
  /\ "dataset" \in ProducerFaults
  /\ Return
  /\ UNCHANGED isRunning

SetSlotReady ==
  /\ ppc = "ready"
  /\ slots' = [slots EXCEPT ![CurSlot].ready = TRUE]
  /\ published' = curHead + 1
  /\ epochStep' = epochStep + 1
  /\ ppc' = "top"
  /\ UNCHANGED << curHead, epoch, running, head, tail, isRunning, socket >>

ProducerStep ==
  \/ TopInterrupted \/ TopStopped \/ TopLimit
  \/ NextEpoch \/ NextEpochFails \/ TakeStep \/ SkipStep
  \/ Claim \/ CheckSpace \/ UndoClaim
  \/ SpaceFreed \/ SpinInterrupted \/ SpinStopped \/ SpinPeerGone
  \/ BeginHeaders \/ EndHeaders \/ CopyItems \/ CopyInterrupted
  \/ BatchFails \/ SetSlotReady

(***************************************************************************)
(* What happens to the producer from outside.                              *)
(***************************************************************************)
CtrlC ==
  /\ "sigint" \in ProducerFaults
  /\ ppc # "closed"
  /\ running
  /\ running' = FALSE
  /\ UNCHANGED << ppc, curHead, epoch, epochStep, published, shmVars >>

ProducerKilled ==
  /\ "kill" \in ProducerFaults
  /\ ppc # "closed"
  /\ Return
  /\ UNCHANGED isRunning

ProducerEnv == CtrlC \/ ProducerKilled

ProducerTypeOK ==
  /\ ppc \in ProducerPCs
  /\ curHead \in Nat
  /\ epoch \in Nat
  /\ epochStep \in Nat
  /\ running \in BOOLEAN
  /\ published \in Nat
=============================================================================
