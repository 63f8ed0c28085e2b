-------------------------- MODULE StreamInvariants --------------------------
(***************************************************************************)
(* The inductive invariant behind the safety properties of Stream, in      *)
(* named parts.  The model checker tests it, StreamProofs proves it.       *)
(***************************************************************************)
EXTENDS Stream

\* head counts the published batches, plus the claim in progress.
HeadInv ==
  /\ head \in {published, published + 1}
  /\ ppc \in {"top", "claim", "spin"} => head = published
  /\ ppc \in {"load", "undo"} \cup WritingPCs =>
       head = published + 1 /\ curHead = published

\* A claim that passed the check stays within one ring of the releases.
SpaceInv ==
  /\ ppc \in WritingPCs => curHead < tail + NSlots
  /\ published <= tail + NSlots

\* What the slot being written holds, and the slots of the first lap.
SlotInv ==
  /\ PublishedIntact
  /\ ppc = "headers" => slots[CurSlot] = EmptySlot
  /\ ppc = "items" => slots[CurSlot] = [ready |-> FALSE, meta |-> curHead, data |-> NoBatch]
  /\ ppc = "ready" => slots[CurSlot] = [ready |-> FALSE, meta |-> curHead, data |-> curHead]
  /\ \A i \in SlotIndex : i >= published => ~slots[i].ready

\* How far ahead of the publisher the worker gets, and when.
ReaderInv ==
  /\ readTail <= published + 1
  /\ wpc \in {"ready", "readySelect", "parse"} => readTail <= published
  /\ wpc = "parse" /\ readTail = published => published >= NSlots
  /\ FirstLapGated

\* The throttle leaves room for the item the worker is about to put.
QueueInv ==
  /\ QueueHasRoom
  /\ wpc \notin {"throttle", "done"} => Len(queue) < PrefetchFactor

\* What the next batches find in their slots, whoever has released it: the
\* headers of the batch a lap before, or of none; and the first of them its own.
LapInv ==
  /\ \A seq \in published .. published + NSlots - 1 :
       slots[SlotOf(seq)].meta \in {seq - NSlots, NoBatch} \cup (IF seq = published THEN {seq} ELSE {})
  /\ HeadersAtMostOneLapOld

-----------------------------------------------------------------------------
\* A batch was taken from the queue and waits for forced releases.
Mid == ipc = "append" \/ (ipc = "drain" /\ after = "append")

\* The user's side is neither closing nor dead.
Live == prefetching /\ ipc # "closed"

\* The user's thread is inside close(), or past it.
Closing ==
  \/ ipc \in {"join", "stop", "unmap", "closed"}
  \/ ipc = "drain" /\ after = "stop"

\* How many batches have left the queue.
Out == tail + Len(pending) + (IF Mid THEN 1 ELSE 0)

\* How many batches the worker had read once it had put the item.
Follow(item) == IF item.kind = "batch" THEN item.seq + 1 ELSE item.seq

\* The items of q are those the worker put while it went from batch first
\* to batch last.
Links(q, first, last) ==
  /\ q = << >> => last = first
  /\ q # << >> => q[1].seq = first /\ Follow(q[Len(q)]) = last
  /\ \A i \in 1 .. Len(q) - 1 : q[i + 1].seq = Follow(q[i])
  /\ \A i \in 1 .. Len(q) : Follow(q[i]) <= last

\* The queue carries on where the user is and ends where the worker is.
Chain == Links(queue, Out, readTail)

ReleaseInv ==
  /\ tail + Len(pending) <= readTail
  /\ ReleasesMatchTail
  /\ ipc = "hold" => pending # << >>
  /\ Mid => cur.seq = tail + Len(pending) /\ cur.seq < readTail
  /\ ~prefetching => Closing
  /\ Live => Chain

Inv ==
  /\ TypeOK
  /\ HeadInv
  /\ SpaceInv
  /\ SlotInv
  /\ ReaderInv
  /\ LapInv
  /\ QueueInv
  /\ ReleaseInv
=============================================================================
