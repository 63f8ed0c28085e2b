---------------------------- MODULE BatchStream ----------------------------
(***************************************************************************)
(* What the ring promises to a training loop: batches 0, 1, 2, ... are     *)
(* published in order, received in order, each once, and released in       *)
(* order, with at most Capacity published and not released.                *)
(*                                                                         *)
(* Until Capacity batches have been published this is a bounded FIFO       *)
(* channel; from then on the receiver may hold the one batch that is still *)
(* being written, into a place that an earlier batch has had.              *)
(***************************************************************************)
EXTENDS Integers

CONSTANT Capacity  \* a positive number

VARIABLES published, received, released

streamVars == << published, received, released >>

Init == published = 0 /\ received = 0 /\ released = 0

Publish ==
  /\ published - released < Capacity
  /\ published' = published + 1
  /\ UNCHANGED << received, released >>

Receive ==
  /\ \/ received < published
     \/ received = published /\ published >= Capacity
  /\ received' = received + 1
  /\ UNCHANGED << published, released >>

Release ==
  /\ released < received
  /\ released' = released + 1
  /\ UNCHANGED << published, received >>

Next == Publish \/ Receive \/ Release

Spec == Init /\ [][Next]_streamVars
=============================================================================
