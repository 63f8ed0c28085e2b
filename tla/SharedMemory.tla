---------------------------- MODULE SharedMemory ----------------------------
(***************************************************************************)
(* What the Rust producer and the Python consumer share: the control block *)
(* and the slots of the memory segment (core/buffer), and the Unix stream  *)
(* socket that carries EPOCH_DONE and, by its end of file, each side's     *)
(* death.  Init is the state right after the handshake.                    *)
(*                                                                         *)
(* Batches are named by the value of the head counter that claimed them:   *)
(* 0, 1, 2, ...  The bytes of a slot are abstracted to the batch whose     *)
(* tensor headers it holds and the batch whose items it holds.             *)
(***************************************************************************)
EXTENDS Integers

CONSTANTS
  NSlots,      \* nslots of the control block
  U64          \* number of values of the u64 counters head and tail (2^64)

ASSUME RingAssumption ==
  /\ NSlots \in Nat \ {0}
  /\ U64 \in Nat
  /\ NSlots < U64

VARIABLES
  head,        \* control block: slots claimed by the producer
  tail,        \* control block: slots released by the consumer
  isRunning,   \* control block: is_running = 1
  slots,       \* the slot area
  socket       \* the stream between the two processes

shmVars == << head, tail, isRunning, slots, socket >>

NoBatch == -1  \* the bytes are not those of any one batch

SlotIndex == 0 .. NSlots - 1

SlotOf(seq) == seq % NSlots

(***************************************************************************)
(* head - tail, as both sides of the ring compute it: in u64, wrapping.    *)
(***************************************************************************)
Occupied(h, t) == IF t <= h THEN h - t ELSE h + U64 - t

EmptySlot == [ready |-> FALSE, meta |-> NoBatch, data |-> NoBatch]

HoldsBatch(slot, seq) == slot = [ready |-> TRUE, meta |-> seq, data |-> seq]

(***************************************************************************)
(* The socket.  epochMsgs counts the EPOCH_DONE lines written by the       *)
(* producer and not yet received; either end may be closed.                *)
(***************************************************************************)
SendEpochDone == socket' = [socket EXCEPT !.epochMsgs = @ + 1]

RecvAll == socket' = [socket EXCEPT !.epochMsgs = 0]

CloseProducerEnd == socket' = [socket EXCEPT !.producerOpen = FALSE]

CloseConsumerEnd == socket' = [socket EXCEPT !.consumerOpen = FALSE]

\* select() reports the consumer's end readable: data, or end of file.
Readable == socket.epochMsgs > 0 \/ ~socket.producerOpen

SharedInit ==
  /\ head = 0
  /\ tail = 0
  /\ isRunning = TRUE
  /\ slots = [i \in SlotIndex |-> EmptySlot]
  /\ socket = [epochMsgs |-> 0, producerOpen |-> TRUE, consumerOpen |-> TRUE]

SharedTypeOK ==
  /\ head \in Nat
  /\ tail \in Nat
  /\ isRunning \in BOOLEAN
  /\ slots \in [SlotIndex -> [ready : BOOLEAN,
                              meta : Nat \cup {NoBatch},
                              data : Nat \cup {NoBatch}]]
  /\ socket \in [epochMsgs : Nat, producerOpen : BOOLEAN,
                 consumerOpen : BOOLEAN]
=============================================================================
