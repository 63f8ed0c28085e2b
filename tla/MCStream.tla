------------------------------ MODULE MCStream ------------------------------
(***************************************************************************)
(* Stream with the bounds the model checker needs.  Every run gives        *)
(* MaxSteps a value, so that the program itself ends the behaviours.       *)
(***************************************************************************)
EXTENDS StreamInvariants

\* An upper bound on tail: no run publishes more batches than MaxSteps, and
\* a full ring is misread at most once more per slot.
TailBound == MaxSteps + NSlots

(***************************************************************************)
(* README, data flow: the consumer increments tail after processing.       *)
(* Whenever a batch has been handed to an iterating user, tail moves on.   *)
(***************************************************************************)
EveryBatchReleased ==
  \A n \in 0 .. TailBound : (tail = n /\ pending # << >>) ~> tail > n

(***************************************************************************)
(* Without GPU copies that holds whatever fails, and whenever the user     *)
(* breaks or closes, unless the consumer is killed: every batch that has   *)
(* been handed out is released and tail moves on to the next slot          *)
(* (consumer.py:377, 403, 530), in a ring of two slots or more.           *)
(***************************************************************************)
ReleasedUnlessCopied ==
  []NoCopies =>
    \A i \in SlotIndex :
      (SlotOf(tail) = i /\ pending # << >>) ~> SlotOf(tail) # i \/ ~socket.consumerOpen
=============================================================================
