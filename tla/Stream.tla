------------------------------- MODULE Stream -------------------------------
(***************************************************************************)
(* One producer process and one consumer process over one shared ring,     *)
(* from the handshake to the exit of both.                                 *)
(***************************************************************************)
EXTENDS Producer, Consumer

vars == << shmVars, prodVars, consVars >>

Init ==
  /\ SharedInit
  /\ ProducerInit
  /\ ConsumerInit

Produce == ProducerStep /\ UNCHANGED consVars

Prefetch == WorkerStep /\ UNCHANGED prodVars

Iterate == UserStep /\ UNCHANGED prodVars

Complete == CopyCompletes /\ UNCHANGED prodVars

Choose == UserChoice /\ UNCHANGED prodVars

Disturb ==
  \/ ProducerEnv /\ UNCHANGED consVars
  \/ ConsumerKilled /\ UNCHANGED prodVars

\* Both sides have returned, or are dead: nothing has to happen any more.
Finished ==
  /\ ppc = "closed"
  /\ wpc = "done"
  /\ ipc \in {"raised", "closed"}
  /\ UNCHANGED vars

Next ==
  \/ Produce \/ Prefetch \/ Iterate \/ Complete \/ Choose \/ Disturb
  \/ Finished

Spec == Init /\ [][Next]_vars

(***************************************************************************)
(* The kernel schedules the producer thread and both consumer threads, and *)
(* a GPU copy completes.  Nobody has to break, close, copy or be killed.   *)
(***************************************************************************)
Fairness ==
  /\ WF_vars(Produce)
  /\ WF_vars(Prefetch)
  /\ WF_vars(Iterate)
  /\ WF_vars(Complete)

FairSpec == Spec /\ Fairness

-----------------------------------------------------------------------------
TypeOK == SharedTypeOK /\ ProducerTypeOK /\ ConsumerTypeOK

(***************************************************************************)
(* A batch that has been published and not released is whole: its slot is  *)
(* ready and holds its headers and its items.  In particular a producer    *)
(* that laps the ring never writes a slot whose batch is queued, held, or  *)
(* being copied to a GPU, once that batch was published.                   *)
(***************************************************************************)
PublishedIntact ==
  \A seq \in tail .. published - 1 : HoldsBatch(slots[SlotOf(seq)], seq)

(***************************************************************************)
(* In the first lap of the ring is_ready does gate the reader: a batch is  *)
(* only ever parsed before it is published when its slot had been used     *)
(* before, so that a flag of an earlier lap was still set.                 *)
(***************************************************************************)
FirstLapGated == readTail <= published \/ published >= NSlots

(***************************************************************************)
(* _prefetch_queue never holds more than prefetch_factor items, so its     *)
(* maxsize of prefetch_factor + 1 means that the worker never blocks in    *)
(* put, which nothing but an iterating user could end.                     *)
(***************************************************************************)
QueueHasRoom == Len(queue) <= PrefetchFactor

(***************************************************************************)
(* The release list stores slots, not batches, and tail is only counted    *)
(* up: the i-th pending slot is still that of batch tail + i - 1, across   *)
(* forced releases, break and close, and the batch the user holds is the   *)
(* last of them.                                                           *)
(***************************************************************************)
ReleasesMatchTail ==
  /\ \A i \in DOMAIN pending : pending[i].slot = SlotOf(tail + i - 1)
  /\ ipc = "hold" => cur.seq = tail + Len(pending) - 1

(***************************************************************************)
(* The producer never writes a slot on the release list, a slot the user   *)
(* reads or the GPU copies from, for any other batch than the one that the *)
(* list has it for: what is overwritten under a reader can only be a batch *)
(* that was handed out while it was still being written.                   *)
(***************************************************************************)
WritesOwnBatch ==
  \A i \in DOMAIN pending :
    ppc \in WritingPCs /\ CurSlot = pending[i].slot => curHead = tail + i - 1

(***************************************************************************)
(* What the worker takes for the headers of a batch is one lap old at      *)
(* most: the batch's own, those of the slot's last batch, or those of none *)
(* while they are being rewritten.                                         *)
(***************************************************************************)
HeadersAtMostOneLapOld ==
  \A i \in DOMAIN queue :
    queue[i].kind = "batch" =>
      queue[i].meta \in {queue[i].seq, queue[i].seq - NSlots, NoBatch}

(***************************************************************************)
(* README, data flow: the producer writes into a free slot, then sets      *)
(* is_ready and head; the consumer polls head and reads.  So whatever the  *)
(* consumer has parsed was published.                                      *)
(***************************************************************************)
ReadsOnlyPublished == readTail <= published

(***************************************************************************)
(* `for epoch ...: for batch in consumer`: an iteration ends with an       *)
(* epoch, after the last batch of that epoch and no other.                 *)
(***************************************************************************)
EpochsEndOnBoundary ==
  \A i \in DOMAIN queue :
    queue[i].kind = "end" => queue[i].seq % DataSteps = 0

-----------------------------------------------------------------------------
(***************************************************************************)
(* The ring as a channel, whatever fails: the publisher is at most NSlots  *)
(* ahead of the releases, and the receiver is never ahead of the publisher *)
(* on the first lap of the ring and by at most one batch on the later ones.*)
(***************************************************************************)
Lookahead == INSTANCE BatchStream WITH
  Capacity <- NSlots, received <- readTail, released <- tail

LookaheadStream == Lookahead!Spec

-----------------------------------------------------------------------------
(***************************************************************************)
(* README: a lock-free single-producer single-consumer ring.  With a user  *)
(* who keeps iterating, a producer with a step limit gets to its end: the  *)
(* two sides never wait for each other for ever.                           *)
(***************************************************************************)
ProducerFinishes == <>(ppc = "closed")

(***************************************************************************)
(* The consumer has released a batch that was never claimed: it read the   *)
(* head of a claim that the producer then undid, and head - tail wraps.    *)
(***************************************************************************)
Overrun == tail > head

\* No batch that the user was handed is being copied to a GPU.
NoCopies == \A i \in DOMAIN pending : ~pending[i].copying

(***************************************************************************)
(* Without GPU copies, that wrapped difference is the only way for the two *)
(* sides to wait for each other, whatever fails and whenever the user      *)
(* breaks or closes: else the producer gets to its end.                    *)
(***************************************************************************)
HangsOnlyOnOverrun == <>(ppc = "closed" \/ Overrun \/ ~NoCopies)

(***************************************************************************)
(* When the producer has gone, however it went, the prefetch worker        *)
(* notices, and every batch the iterating user had is released.            *)
(***************************************************************************)
ProducerDeathSeen ==
  ppc = "closed" ~> wpc = "done" /\ (pending = << >> \/ ~socket.consumerOpen)

(***************************************************************************)
(* A producer that went without setting is_running = 0 is reported to the  *)
(* iterating user by an exception (test_consumer_detects_producer_death).  *)
(***************************************************************************)
ProducerDeathRaised ==
  ppc = "closed" /\ isRunning ~>
    ipc = "raised" \/ ~isRunning \/ ~socket.consumerOpen

(***************************************************************************)
(* test_consumer_detects_producer_death: the loop that is running when the *)
(* producer dies raises; no iteration ends as if an epoch had once the     *)
(* worker has recorded the exception and left.                             *)
(***************************************************************************)
DeathEndsLoopInError == [][ipc = "empty" /\ ipc' = "drain" => ~excSet]_vars

(***************************************************************************)
(* When the consumer has closed or died, the producer notices and returns. *)
(***************************************************************************)
ConsumerDeathSeen == ipc = "closed" ~> ppc = "closed"
=============================================================================
