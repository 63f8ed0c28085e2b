---------------------------- MODULE StreamProofs ----------------------------
(***************************************************************************)
(* Proofs that Inv of StreamInvariants holds in every reachable state of   *)
(* Stream, for every value of the constants, and of the safety properties  *)
(* that follow; and that Stream implements BatchStream.  A step is the     *)
(* producer's or the consumer's; a lemma per side says what the other      *)
(* side's step leaves alone, and then each part of Inv has a lemma of its  *)
(* own.                                                                    *)
(***************************************************************************)
EXTENDS StreamInvariants, SequenceTheorems, TLAPS

-----------------------------------------------------------------------------
(* Arithmetic of slot numbers: which batches share a slot of the ring.     *)

(***************************************************************************)
(* Division with remainder: slot_offset(head % nslots) is a slot.          *)
(***************************************************************************)
LEMMA Remainder ==
  ASSUME NEW N \in Nat \ {0}, NEW a \in Nat
  PROVE  /\ a % N \in 0 .. N - 1
         /\ a \div N \in Nat
         /\ a = N * (a \div N) + (a % N)
  OBVIOUS

(***************************************************************************)
(* On the first lap of the ring a batch's slot has the batch's number.     *)
(***************************************************************************)
LEMMA FirstLapSlot ==
  ASSUME NEW N \in Nat \ {0}, NEW a \in Nat, a < N
  PROVE  a % N = a
  OBVIOUS

(***************************************************************************)
(* A batch's slot number is never above the batch's number.                *)
(***************************************************************************)
LEMMA SlotBelow ==
  ASSUME NEW N \in Nat \ {0}, NEW a \in Nat
  PROVE  a % N <= a
<1>1. CASE a < N
  BY <1>1, FirstLapSlot
<1>2. CASE a >= N
  BY <1>2, Remainder
<1> QED
  BY <1>1, <1>2

(***************************************************************************)
(* A batch and the one a lap later share a slot.                           *)
(***************************************************************************)
LEMMA OneLapLater ==
  ASSUME NEW N \in Nat \ {0}, NEW a \in Nat
  PROVE  (a + N) % N = a % N
<1>1. a = N * (a \div N) + (a % N) /\ a % N \in 0 .. N - 1 /\ a \div N \in Nat
  BY Remainder
<1>2. a + N = N * (a \div N + 1) + (a % N)
  BY <1>1
<1>3. a + N = N * ((a + N) \div N) + ((a + N) % N) /\ (a + N) % N \in 0 .. N - 1 /\ (a + N) \div N \in Nat
  <2>1. a + N \in Nat
    OBVIOUS
  <2> DEFINE b == a + N
  <2>2. b \in Nat
    BY <2>1
  <2> HIDE DEF b
  <2>3. b = N * (b \div N) + (b % N) /\ b % N \in 0 .. N - 1 /\ b \div N \in Nat
    BY <2>2, Remainder
  <2> QED
    BY <2>3 DEF b
<1> DEFINE q == a \div N + 1
           p == (a + N) \div N
           r == a % N
           s == (a + N) % N
<1>4. N * (p - q) = r - s /\ p \in Nat /\ q \in Nat /\ r \in 0 .. N - 1 /\ s \in 0 .. N - 1
  BY <1>1, <1>2, <1>3
<1> HIDE DEF p, q, r, s
<1>5. p = q
  <2>1. CASE p > q
    <3>1. N * (p - q) >= N
      BY <1>4, <2>1
    <3> QED
      BY <1>4, <3>1
  <2>2. CASE p < q
    <3>1. N * (q - p) >= N
      BY <1>4, <2>2
    <3> QED
      BY <1>4, <3>1
  <2> QED
    BY <1>4, <2>1, <2>2
<1>6. r = s
  BY <1>4, <1>5
<1> QED
  BY <1>6 DEF r, s

(***************************************************************************)
(* Two batches less than a lap apart have different slots.                 *)
(***************************************************************************)
LEMMA WithinOneLap ==
  ASSUME NEW N \in Nat \ {0}, NEW a \in Nat, NEW b \in Nat, a < b, b < a + N
  PROVE  a % N # b % N
<1> SUFFICES ASSUME a % N = b % N PROVE FALSE
  OBVIOUS
<1> DEFINE qa == a \div N
           qb == b \div N
<1>1. /\ a = N * qa + (a % N)
      /\ b = N * qb + (b % N)
      /\ qa \in Nat /\ qb \in Nat
  BY Remainder
<1> HIDE DEF qa, qb
<1>2. a % N \in Int
  OBVIOUS
<1>3. b - a = N * (qb - qa)
  BY <1>1, <1>2
<1>4. CASE qb <= qa
  <2>1. N * (qa - qb) >= 0
    BY <1>1, <1>4
  <2> QED
    BY <2>1, <1>1, <1>2, <1>3
<1>5. CASE qb >= qa + 1
  <2>1. N * (qb - qa) >= N
    BY <1>1, <1>5
  <2> QED
    BY <2>1, <1>3
<1> QED
  BY <1>1, <1>4, <1>5

-----------------------------------------------------------------------------
(* The steps.                                                              *)

ProducerMove == (ProducerStep \/ ProducerEnv) /\ UNCHANGED consVars

ConsumerMove ==
  /\ WorkerStep \/ UserStep \/ UserChoice \/ CopyCompletes \/ ConsumerKilled
  /\ UNCHANGED prodVars

\* The parts of Inv that the producer's side rests on.
ProducerInv ==
  /\ SharedTypeOK
  /\ ProducerTypeOK
  /\ HeadInv
  /\ SpaceInv
  /\ SlotInv

(***************************************************************************)
(* Every step is one side's step, or changes nothing.                      *)
(***************************************************************************)
LEMMA NextSplits ==
  ASSUME [Next]_vars
  PROVE  ProducerMove \/ ConsumerMove \/ UNCHANGED vars
<1>1. Finished => UNCHANGED vars
  BY DEF Finished
<1>2. Produce => ProducerMove
  BY DEF Produce, ProducerMove
<1>3. Prefetch \/ Iterate \/ Complete \/ Choose => ConsumerMove
  BY DEF Prefetch, Iterate, Complete, Choose, ConsumerMove
<1>4. Disturb => ProducerMove \/ ConsumerMove
  BY DEF Disturb, ProducerMove, ConsumerMove
<1> QED
  BY <1>1, <1>2, <1>3, <1>4 DEF Next

(***************************************************************************)
(* The consumer writes nothing of the producer's, neither head nor a slot, *)
(* and moves tail up by at most one in a step.                             *)
(***************************************************************************)
LEMMA ConsumerFrame ==
  ASSUME SharedTypeOK, ConsumerMove
  PROVE  /\ UNCHANGED << head, slots, prodVars >>
         /\ (tail' = tail \/ tail' = tail + 1)
         /\ SharedTypeOK'
<1> USE DEF SharedTypeOK
<1>0. UNCHANGED prodVars
  BY DEF ConsumerMove
<1>1. CASE WorkerStep
  <2>1. CASE WorkerEnds(FALSE) \/ WorkerEnds(TRUE)
    BY <2>1, <1>0 DEF WorkerEnds, shmVars
  <2>2. CASE Throttle \/ ThrottleStops \/ PollRunning \/ PollHead \/ SelectTimeout \/ SelectReadable
             \/ CheckReady \/ ParseSlot
    BY <2>2, <1>0 DEF Throttle, ThrottleStops, PollRunning, PollHead, SelectTimeout, SelectReadable,
                      CheckReady, ParseSlot, shmVars
  <2>3. CASE RecvEpochDone
    BY <2>3, <1>0 DEF RecvEpochDone, RecvAll
  <2> QED
    BY <1>1, <2>1, <2>2, <2>3 DEF WorkerStep, PollStopped, SelectStopped, RecvDisconnected, WorkerUnmapped
<1>2. CASE UserStep
  <2>1. CASE Release
    BY <2>1, <1>0 DEF Release
  <2>2. CASE DrainReturns \/ StartIteration \/ CheckException \/ TakeNone \/ TakeBatch
    BY <2>2, <1>0 DEF DrainReturns, StartIteration, CheckException, TakeNone, TakeBatch, shmVars
  <2>3. CASE AppendAfterDrain \/ TakeTimeout \/ CheckWorker \/ NextBatch \/ JoinReturns
    BY <2>3, <1>0 DEF AppendAfterDrain, TakeTimeout, CheckWorker, NextBatch, JoinReturns, shmVars
  <2>4. CASE StoreStopped
    BY <2>4, <1>0 DEF StoreStopped
  <2>5. CASE Unmap
    BY <2>5, <1>0 DEF Unmap, CloseConsumerEnd
  <2> QED
    BY <1>2, <2>1, <2>2, <2>3, <2>4, <2>5 DEF UserStep
<1>3. CASE UserChoice \/ CopyCompletes
  BY <1>3, <1>0 DEF UserChoice, StartCopy, BreakLoop, CloseBegins, CopyCompletes, shmVars
<1>4. CASE ConsumerKilled
  BY <1>4, <1>0 DEF ConsumerKilled, CloseConsumerEnd
<1> QED
  BY <1>1, <1>2, <1>3, <1>4 DEF ConsumerMove

(***************************************************************************)
(* A return of the loop, or its death, leaves everything but the socket,   *)
(* is_running and the program counter.                                     *)
(***************************************************************************)
LEMMA ReturnFrame ==
  ASSUME SharedTypeOK, ProducerTypeOK, Return
  PROVE  /\ ppc' = "closed"
         /\ UNCHANGED << curHead, epoch, epochStep, running, published, head, tail, slots >>
         /\ socket' \in [epochMsgs : Nat, producerOpen : BOOLEAN, consumerOpen : BOOLEAN]
BY DEF Return, CloseProducerEnd, SharedTypeOK

-----------------------------------------------------------------------------
(***************************************************************************)
(* A consumer step keeps the producer's part: tail only grows, so fewer    *)
(* slots have to be whole and a claim that had space still has it.         *)
(***************************************************************************)
LEMMA ConsumerKeepsProducerInv ==
  ASSUME ProducerInv, ConsumerMove
  PROVE  ProducerInv'
<1>1. UNCHANGED << head, slots, ppc, curHead, epoch, epochStep, running, published >>
  BY ConsumerFrame DEF ProducerInv, prodVars
<1>2. (tail' = tail \/ tail' = tail + 1) /\ tail \in Nat /\ SharedTypeOK'
  BY ConsumerFrame DEF ProducerInv, SharedTypeOK
<1>3. ProducerTypeOK'
  BY <1>1 DEF ProducerInv, ProducerTypeOK
<1>4. HeadInv'
  BY <1>1 DEF ProducerInv, HeadInv
<1>5. SpaceInv'
  <2>1. curHead \in Nat /\ published \in Nat /\ NSlots \in Nat
    BY RingAssumption DEF ProducerInv, ProducerTypeOK
  <2> QED
    BY <1>1, <1>2, <2>1 DEF ProducerInv, SpaceInv, WritingPCs
<1>6. SlotInv'
  <2>1. PublishedIntact'
    <3>1. tail' .. published' - 1 \subseteq tail .. published - 1
      BY <1>1, <1>2 DEF ProducerInv, ProducerTypeOK
    <3> QED
      BY <1>1, <3>1 DEF ProducerInv, SlotInv, PublishedIntact, HoldsBatch, SlotOf
  <2> QED
    BY <1>1, <2>1 DEF ProducerInv, SlotInv, CurSlot, SlotOf, EmptySlot
<1> QED
  BY <1>2, <1>3, <1>4, <1>5, <1>6 DEF ProducerInv

(***************************************************************************)
(* The batch that is being written has a slot, and no batch that is        *)
(* published and not released shares it.                                   *)
(***************************************************************************)
LEMMA CurSlotIsFree ==
  ASSUME ProducerInv, ppc \in WritingPCs
  PROVE  /\ CurSlot \in SlotIndex
         /\ CurSlot <= curHead
         /\ curHead = published
         /\ \A seq \in tail .. published - 1 : SlotOf(seq) # CurSlot
<1>1. curHead \in Nat /\ tail \in Nat /\ published \in Nat /\ NSlots \in Nat \ {0}
  BY RingAssumption DEF ProducerInv, ProducerTypeOK, SharedTypeOK
<1>2. curHead = published /\ curHead < tail + NSlots
  BY DEF ProducerInv, HeadInv, SpaceInv
<1>3. CurSlot \in SlotIndex /\ CurSlot <= curHead
  BY <1>1, Remainder, SlotBelow DEF CurSlot, SlotOf, SlotIndex
<1>4. ASSUME NEW seq \in tail .. published - 1 PROVE SlotOf(seq) # CurSlot
  <2>1. seq \in Nat /\ seq < curHead /\ curHead < seq + NSlots
    BY <1>1, <1>2
  <2> QED
    BY <1>1, <2>1, WithinOneLap DEF CurSlot, SlotOf
<1> QED
  BY <1>2, <1>3, <1>4

(***************************************************************************)
(* A write to the claimed slot leaves the published batches whole and, if  *)
(* it does not set is_ready, no flag above the published ones.             *)
(***************************************************************************)
LEMMA WriteKeepsPublished ==
  ASSUME ProducerInv, ppc \in WritingPCs,
         NEW new \in [ready : BOOLEAN, meta : Nat \cup {NoBatch}, data : Nat \cup {NoBatch}],
         slots' = [slots EXCEPT ![CurSlot] = new],
         UNCHANGED << head, tail, isRunning, socket, published >>
  PROVE  /\ SharedTypeOK'
         /\ PublishedIntact'
         /\ slots'[CurSlot] = new
         /\ ~new.ready => \A i \in SlotIndex : i >= published => ~slots'[i].ready
<1>1. SharedTypeOK'
  BY CurSlotIsFree DEF ProducerInv, SharedTypeOK
<1>2. slots'[CurSlot] = new /\ \A i \in SlotIndex \ {CurSlot} : slots'[i] = slots[i]
  BY CurSlotIsFree DEF ProducerInv, SharedTypeOK
<1>3. PublishedIntact'
  <2> SUFFICES ASSUME NEW seq \in tail .. published - 1
               PROVE  slots'[SlotOf(seq)] = slots[SlotOf(seq)]
    BY DEF ProducerInv, SlotInv, PublishedIntact, HoldsBatch, SlotOf
  <2>1. seq \in Nat /\ NSlots \in Nat \ {0}
    BY RingAssumption DEF ProducerInv, ProducerTypeOK, SharedTypeOK
  <2>2. SlotOf(seq) \in SlotIndex
    BY <2>1, Remainder DEF SlotOf, SlotIndex
  <2> QED
    BY <2>2, <1>2, CurSlotIsFree
<1>4. ~new.ready => \A i \in SlotIndex : i >= published => ~slots'[i].ready
  BY <1>2 DEF ProducerInv, SlotInv
<1> QED
  BY <1>1, <1>2, <1>3, <1>4

(***************************************************************************)
(* A producer step keeps the producer's part.                              *)
(***************************************************************************)
LEMMA ProducerKeepsProducerInv ==
  ASSUME ProducerInv, ProducerMove
  PROVE  ProducerInv'
<1> DEFINE Quiet == UNCHANGED << head, tail, slots, curHead, published >>
<1>1. /\ SharedTypeOK /\ ProducerTypeOK /\ HeadInv /\ SpaceInv /\ SlotInv
      /\ StepsPerEpoch \in Nat
  BY ScheduleAssumption DEF ProducerInv
<1>2. ASSUME Quiet, SharedTypeOK', ProducerTypeOK', HeadInv',
             ppc' \notin WritingPCs \/ (ppc' = "prepare" /\ curHead < tail + NSlots)
      PROVE  ProducerInv'
  <2>1. SpaceInv'
    BY <1>1, <1>2 DEF SpaceInv
  <2>2. PublishedIntact'
    BY <1>1, <1>2 DEF SlotInv, PublishedIntact, HoldsBatch, SlotOf
  <2>3. SlotInv'
    BY <1>1, <1>2, <2>2 DEF SlotInv, WritingPCs
  <2> QED
    BY <1>2, <2>1, <2>3 DEF ProducerInv
<1>3. ASSUME Return, isRunning' \in BOOLEAN
      PROVE  ProducerInv'
  <2>1. /\ ppc' = "closed" /\ Quiet /\ UNCHANGED << epoch, epochStep, running >>
        /\ SharedTypeOK'
    BY <1>1, <1>3, ReturnFrame DEF SharedTypeOK
  <2>2. ProducerTypeOK' /\ HeadInv'
    BY <1>1, <2>1 DEF ProducerTypeOK, ProducerPCs, HeadInv, WritingPCs
  <2> QED
    BY <1>2, <2>1, <2>2 DEF WritingPCs
<1>4. CASE TopInterrupted \/ TopStopped \/ TopLimit \/ NextEpochFails
  BY <1>1, <1>3, <1>4 DEF TopInterrupted, TopStopped, TopLimit, NextEpochFails, SharedTypeOK
<1>5. CASE SpinInterrupted \/ SpinStopped \/ SpinPeerGone \/ CopyInterrupted \/ BatchFails \/ ProducerKilled
  BY <1>1, <1>3, <1>5 DEF SpinInterrupted, SpinStopped, SpinPeerGone, CopyInterrupted,
                          BatchFails, ProducerKilled, SharedTypeOK
<1>6. CASE NextEpoch
  <2>1. /\ SharedTypeOK'
    BY <1>1, <1>6 DEF NextEpoch, SendEpochDone, SharedTypeOK
  <2>2. ProducerTypeOK' /\ HeadInv'
    BY <1>1, <1>6 DEF NextEpoch, Proceeds, ProducerTypeOK, ProducerPCs, HeadInv, WritingPCs
  <2> QED
    BY <1>2, <1>6, <2>1, <2>2 DEF NextEpoch, WritingPCs
<1>7. CASE TakeStep \/ SkipStep \/ SpaceFreed \/ CtrlC
  <2>1. /\ SharedTypeOK' /\ Quiet
    BY <1>1, <1>7 DEF TakeStep, SkipStep, SpaceFreed, CtrlC, SharedTypeOK, shmVars
  <2>2. ppc' \in {ppc, "claim", "top"} /\ (ppc' # ppc => ppc \in {"top", "spin"})
    BY <1>7 DEF TakeStep, SkipStep, SpaceFreed, CtrlC, Proceeds
  <2>3. ProducerTypeOK'
    <3>1. CASE TakeStep \/ SpaceFreed \/ CtrlC
      BY <1>1, <3>1 DEF TakeStep, SpaceFreed, CtrlC, ProducerTypeOK, ProducerPCs
    <3>2. CASE SkipStep
      BY <1>1, <3>2 DEF SkipStep, ProducerTypeOK
    <3> QED
      BY <1>7, <3>1, <3>2
  <2>4. HeadInv'
    BY <1>1, <2>1, <2>2 DEF HeadInv, WritingPCs
  <2>5. SpaceInv' /\ SlotInv'
    BY <1>1, <2>1, <2>2 DEF SpaceInv, SlotInv, PublishedIntact, HoldsBatch, SlotOf, CurSlot, WritingPCs, EmptySlot
  <2> QED
    BY <2>1, <2>3, <2>4, <2>5 DEF ProducerInv
<1>8. CASE Claim
  <2>1. SharedTypeOK' /\ ProducerTypeOK' /\ HeadInv'
    BY <1>1, <1>8 DEF Claim, SharedTypeOK, ProducerTypeOK, ProducerPCs, HeadInv, WritingPCs
  <2>2. SpaceInv'
    BY <1>1, <1>8 DEF Claim, SpaceInv, WritingPCs
  <2>3. SlotInv'
    BY <1>1, <1>8 DEF Claim, SlotInv, PublishedIntact, HoldsBatch, SlotOf, WritingPCs
  <2> QED
    BY <2>1, <2>2, <2>3 DEF ProducerInv
<1>9. CASE CheckSpace
  <2>1. /\ SharedTypeOK' /\ Quiet
    BY <1>1, <1>9 DEF CheckSpace, SharedTypeOK, shmVars
  <2>2. ProducerTypeOK' /\ HeadInv'
    BY <1>1, <1>9, <2>1 DEF CheckSpace, ProducerTypeOK, ProducerPCs, HeadInv, WritingPCs
  <2>3. CASE Occupied(curHead, tail) >= NSlots
    BY <1>2, <1>9, <2>1, <2>2, <2>3 DEF CheckSpace, WritingPCs
  <2>4. CASE ~(Occupied(curHead, tail) >= NSlots)
    <3>1. curHead < tail + NSlots
      BY <1>1, <2>4, RingAssumption DEF Occupied, SharedTypeOK, ProducerTypeOK
    <3> QED
      BY <1>2, <1>9, <2>1, <2>2, <2>4, <3>1 DEF CheckSpace
  <2> QED
    BY <2>3, <2>4
<1>10. CASE UndoClaim
  <2>1. SharedTypeOK' /\ ProducerTypeOK' /\ HeadInv'
    BY <1>1, <1>10 DEF UndoClaim, SharedTypeOK, ProducerTypeOK, ProducerPCs, HeadInv, WritingPCs
  <2>2. SpaceInv'
    BY <1>1, <1>10 DEF UndoClaim, SpaceInv, WritingPCs
  <2>3. SlotInv'
    BY <1>1, <1>10 DEF UndoClaim, SlotInv, PublishedIntact, HoldsBatch, SlotOf, WritingPCs
  <2> QED
    BY <2>1, <2>2, <2>3 DEF ProducerInv
<1>11. ASSUME ppc \in WritingPCs, ppc' \in {"headers", "items", "ready"},
              UNCHANGED << curHead, epoch, epochStep, running, published,
                           head, tail, isRunning, socket >>,
              NEW new \in [ready : {FALSE}, meta : Nat \cup {NoBatch}, data : Nat \cup {NoBatch}],
              slots' = [slots EXCEPT ![CurSlot] = new],
              ppc' = "headers" => new = EmptySlot,
              ppc' = "items" => new = [ready |-> FALSE, meta |-> curHead, data |-> NoBatch],
              ppc' = "ready" => new = [ready |-> FALSE, meta |-> curHead, data |-> curHead]
       PROVE  ProducerInv'
  <2>1. /\ SharedTypeOK' /\ PublishedIntact' /\ slots'[CurSlot] = new
        /\ \A i \in SlotIndex : i >= published => ~slots'[i].ready
    BY <1>11, WriteKeepsPublished
  <2>2. ProducerTypeOK' /\ HeadInv'
    BY <1>1, <1>11 DEF ProducerTypeOK, ProducerPCs, HeadInv, WritingPCs
  <2>3. SpaceInv'
    BY <1>1, <1>11 DEF SpaceInv, WritingPCs
  <2>4. SlotInv'
    BY <1>11, <2>1 DEF SlotInv, CurSlot, SlotOf, EmptySlot
  <2> QED
    BY <2>1, <2>2, <2>3, <2>4 DEF ProducerInv
<1>12. CASE BeginHeaders
  BY <1>11, <1>12 DEF BeginHeaders, EmptySlot, WritingPCs
<1>13. CASE EndHeaders
  <2> DEFINE new == [ready |-> FALSE, meta |-> curHead, data |-> NoBatch]
  <2>1. slots' = [slots EXCEPT ![CurSlot] = new]
    <3> DEFINE old == slots[CurSlot]
    <3>1. old = [ready |-> FALSE, meta |-> NoBatch, data |-> NoBatch]
      BY <1>1, <1>13 DEF EndHeaders, SlotInv, EmptySlot
    <3>2. slots' = [slots EXCEPT ![CurSlot] = [old EXCEPT !.meta = curHead]]
      BY <1>13 DEF EndHeaders
    <3> HIDE DEF old
    <3>3. old = [ready |-> old.ready, meta |-> old.meta, data |-> old.data]
      BY <3>1
    <3>4. [old EXCEPT !.meta = curHead] = [ready |-> old.ready, meta |-> curHead, data |-> old.data]
      BY <3>3
    <3> QED
      BY <3>1, <3>2, <3>4
  <2>2. new \in [ready : {FALSE}, meta : Nat \cup {NoBatch}, data : Nat \cup {NoBatch}]
    BY <1>1 DEF ProducerTypeOK
  <2> HIDE DEF new
  <2> QED
    BY <1>11, <1>13, <2>1, <2>2 DEF EndHeaders, WritingPCs, new
<1>14. CASE CopyItems
  <2> DEFINE new == [ready |-> FALSE, meta |-> curHead, data |-> curHead]
  <2>1. slots' = [slots EXCEPT ![CurSlot] = new]
    <3> DEFINE old == slots[CurSlot]
    <3>1. old = [ready |-> FALSE, meta |-> curHead, data |-> NoBatch]
      BY <1>1, <1>14 DEF CopyItems, SlotInv
    <3>2. slots' = [slots EXCEPT ![CurSlot] = [old EXCEPT !.data = curHead]]
      BY <1>14 DEF CopyItems
    <3> HIDE DEF old
    <3>3. old = [ready |-> old.ready, meta |-> old.meta, data |-> old.data]
      BY <3>1
    <3>4. [old EXCEPT !.data = curHead] = [ready |-> old.ready, meta |-> old.meta, data |-> curHead]
      BY <3>3
    <3> QED
      BY <3>1, <3>2, <3>4
  <2>2. new \in [ready : {FALSE}, meta : Nat \cup {NoBatch}, data : Nat \cup {NoBatch}]
    BY <1>1 DEF ProducerTypeOK
  <2> HIDE DEF new
  <2> QED
    BY <1>11, <1>14, <2>1, <2>2 DEF CopyItems, WritingPCs, new
<1>15. CASE SetSlotReady
  <2>1. /\ ppc = "ready" /\ curHead = published
        /\ CurSlot \in SlotIndex /\ CurSlot <= curHead
        /\ \A seq \in tail .. published - 1 : SlotOf(seq) # CurSlot
    BY <1>15, CurSlotIsFree DEF SetSlotReady, WritingPCs
  <2> DEFINE new == [ready |-> TRUE, meta |-> curHead, data |-> curHead]
  <2>2. slots' = [slots EXCEPT ![CurSlot] = new]
    <3> DEFINE old == slots[CurSlot]
               set == TRUE
    <3>1. old = [ready |-> FALSE, meta |-> curHead, data |-> curHead]
      BY <1>1, <2>1 DEF SlotInv
    <3>2. slots' = [slots EXCEPT ![CurSlot] = [old EXCEPT !.ready = set]]
      BY <1>15 DEF SetSlotReady
    <3> HIDE DEF old, set
    <3>3. old = [ready |-> old.ready, meta |-> old.meta, data |-> old.data]
      BY <3>1
    <3>4. [old EXCEPT !.ready = set] = [ready |-> set, meta |-> old.meta, data |-> old.data]
      BY <3>3
    <3> QED
      BY <3>1, <3>2, <3>4 DEF set
  <2>3. new \in [ready : BOOLEAN, meta : Nat \cup {NoBatch}, data : Nat \cup {NoBatch}]
    BY <1>1 DEF ProducerTypeOK
  <2> HIDE DEF new
  <2>4. SharedTypeOK' /\ slots'[CurSlot] = new
    BY <1>1, <1>15, <2>1, <2>2, <2>3 DEF SharedTypeOK, SetSlotReady
  <2>5. \A i \in SlotIndex \ {CurSlot} : slots'[i] = slots[i]
    BY <1>1, <2>1, <2>2 DEF SharedTypeOK
  <2>6. ProducerTypeOK' /\ HeadInv'
    BY <1>1, <1>15 DEF SetSlotReady, ProducerTypeOK, ProducerPCs, HeadInv, WritingPCs
  <2>7. SpaceInv'
    <3>1. NSlots \in Nat /\ tail \in Nat /\ curHead \in Nat
      BY <1>1, RingAssumption DEF SharedTypeOK, ProducerTypeOK
    <3> QED
      BY <1>1, <1>15, <3>1 DEF SetSlotReady, SpaceInv, WritingPCs
  <2>8. PublishedIntact'
    <3> SUFFICES ASSUME NEW seq \in tail .. curHead
                 PROVE  slots'[SlotOf(seq)] = [ready |-> TRUE, meta |-> seq, data |-> seq]
      <4>1. tail' .. published' - 1 = tail .. curHead
        BY <1>1, <1>15 DEF SetSlotReady, ProducerTypeOK, SharedTypeOK
      <4> QED
        BY <4>1 DEF PublishedIntact, HoldsBatch, SlotOf
    <3>1. CASE seq = curHead
      BY <2>4, <3>1 DEF CurSlot, new
    <3>2. CASE seq # curHead
      <4>1. seq \in tail .. published - 1 /\ seq \in Nat /\ NSlots \in Nat \ {0}
        BY <1>1, <2>1, <3>2, RingAssumption DEF SharedTypeOK, ProducerTypeOK
      <4>2. SlotOf(seq) \in SlotIndex \ {CurSlot}
        BY <2>1, <4>1, Remainder DEF SlotOf, SlotIndex
      <4> QED
        BY <1>1, <2>5, <4>1, <4>2 DEF SlotInv, PublishedIntact, HoldsBatch
    <3> QED
      BY <3>1, <3>2
  <2>9. \A i \in SlotIndex : i >= published' => ~slots'[i].ready
    <3> SUFFICES ASSUME NEW i \in SlotIndex, i >= curHead + 1
                 PROVE  ~slots'[i].ready
      BY <1>15 DEF SetSlotReady
    <3>1. i # CurSlot /\ i >= published
      BY <1>1, <2>1 DEF ProducerTypeOK, SlotIndex
    <3> QED
      BY <1>1, <2>5, <3>1 DEF SlotInv
  <2>10. SlotInv'
    BY <1>15, <2>8, <2>9 DEF SlotInv, SetSlotReady
  <2> QED
    BY <2>4, <2>6, <2>7, <2>10 DEF ProducerInv
<1> QED
  BY <1>4, <1>5, <1>6, <1>7, <1>8, <1>9, <1>10, <1>12, <1>13, <1>14, <1>15
  DEF ProducerMove, ProducerStep, ProducerEnv

(***************************************************************************)
(* The producer writes nothing of the consumer's, not tail either, and     *)
(* publishes at most one batch in a step.                                  *)
(***************************************************************************)
LEMMA ProducerFrame ==
  ASSUME ProducerInv, ProducerMove
  PROVE  /\ UNCHANGED << tail, consVars >>
         /\ published' = published \/ published' = published + 1
<1>1. UNCHANGED consVars
  BY DEF ProducerMove
<1>2. curHead = published \/ ppc # "ready"
  BY DEF ProducerInv, HeadInv, WritingPCs
<1>3. CASE Return
  BY <1>1, <1>3 DEF Return
<1>4. CASE NextEpoch \/ TakeStep \/ SkipStep \/ Claim \/ CheckSpace \/ UndoClaim \/ SpaceFreed \/ CtrlC
  BY <1>1, <1>4 DEF NextEpoch, TakeStep, SkipStep, Claim, CheckSpace, UndoClaim, SpaceFreed, CtrlC, shmVars
<1>5. CASE BeginHeaders \/ EndHeaders \/ CopyItems
  BY <1>1, <1>5 DEF BeginHeaders, EndHeaders, CopyItems
<1>6. CASE SetSlotReady
  BY <1>1, <1>2, <1>6 DEF SetSlotReady
<1> QED
  BY <1>3, <1>4, <1>5, <1>6
  DEF ProducerMove, ProducerStep, ProducerEnv, TopInterrupted, TopStopped, TopLimit, NextEpochFails,
      SpinInterrupted, SpinStopped, SpinPeerGone, CopyInterrupted, BatchFails, ProducerKilled

-----------------------------------------------------------------------------
(***************************************************************************)
(* The moves of the worker, apart from what they are for: it goes on       *)
(* without reading, ends or reports an epoch, or reads one batch.          *)
(***************************************************************************)
LEMMA WorkerMoves ==
  ASSUME ConsumerTypeOK, WorkerStep
  PROVE  /\ UNCHANGED << tail, userVars >>
         /\ excSet' \in BOOLEAN
         /\ \/ /\ UNCHANGED << readTail, queue >>
               /\ \/ wpc = "throttle" /\ wpc' = "poll" /\ Len(queue) < PrefetchFactor
                  \/ wpc = "throttle" /\ wpc' = "done"
                  \/ wpc = "poll" /\ wpc' = "head"
                  \/ wpc = "head" /\ wpc' = "ready" /\ head > readTail
                  \/ wpc = "head" /\ wpc' = "select"
                  \/ wpc = "select" /\ wpc' = "poll"
                  \/ wpc \in {"select", "readySelect"} /\ wpc' = "recv"
                  \/ wpc = "readySelect" /\ wpc' = "ready"
                  \/ wpc = "ready" /\ wpc' = "parse" /\ slots[SlotOf(readTail)].ready
                  \/ wpc = "ready" /\ wpc' = "readySelect"
            \/ /\ wpc \notin {"throttle", "done"}
               /\ wpc' \in {"throttle", "done"}
               /\ readTail' = readTail
               /\ queue' = Append(queue, EpochEnd(readTail)) \/ queue' = Append(queue, StopItem(readTail))
            \/ /\ wpc = "parse"
               /\ wpc' = "throttle"
               /\ readTail' = readTail + 1
               /\ queue' = Append(queue, Batch(readTail, slots[SlotOf(readTail)].meta))
<1>0. excSet \in BOOLEAN
  BY DEF ConsumerTypeOK
<1>1. CASE Throttle \/ ThrottleStops
  BY <1>0, <1>1 DEF Throttle, ThrottleStops, shmVars
<1>2. CASE PollRunning \/ PollHead
  BY <1>0, <1>2 DEF PollRunning, PollHead, shmVars
<1>3. CASE SelectTimeout \/ SelectReadable
  BY <1>0, <1>3 DEF SelectTimeout, SelectReadable, Selecting, shmVars
<1>4. CASE CheckReady
  BY <1>0, <1>4 DEF CheckReady, shmVars
<1>5. CASE PollStopped \/ SelectStopped \/ RecvDisconnected \/ WorkerUnmapped
  <2>1. wpc \notin {"throttle", "done"} /\ (WorkerEnds(FALSE) \/ WorkerEnds(TRUE))
    BY <1>5 DEF PollStopped, SelectStopped, RecvDisconnected, WorkerUnmapped, Selecting
  <2> QED
    BY <1>0, <2>1 DEF WorkerEnds, Put, shmVars
<1>6. CASE RecvEpochDone
  BY <1>0, <1>6 DEF RecvEpochDone, Put
<1>7. CASE ParseSlot
  BY <1>0, <1>7 DEF ParseSlot, Put, shmVars
<1> QED
  BY <1>1, <1>2, <1>3, <1>4, <1>5, <1>6, <1>7 DEF WorkerStep

(***************************************************************************)
(* A step of the consumer that is not the worker's: the worker's state     *)
(* stays, unless the process is killed, and the queue loses its first      *)
(* item, or all of them, or nothing.                                       *)
(***************************************************************************)
LEMMA UserFrame ==
  ASSUME UserStep \/ UserChoice \/ CopyCompletes \/ ConsumerKilled
  PROVE  /\ UNCHANGED << readTail, excSet >>
         /\ wpc' = wpc \/ wpc' = "done"
         /\ queue' = queue \/ queue' = << >> \/ (queue # << >> /\ queue' = Tail(queue))
<1>1. CASE Release \/ DrainReturns \/ StartIteration \/ CheckException
  BY <1>1 DEF Release, DrainReturns, StartIteration, CheckException, workerVars
<1>2. CASE TakeNone \/ TakeBatch \/ AppendAfterDrain \/ TakeTimeout \/ CheckWorker
  BY <1>2 DEF TakeNone, TakeBatch, AppendAfterDrain, TakeTimeout, CheckWorker, workerVars
<1>3. CASE NextBatch \/ JoinReturns \/ StoreStopped \/ Unmap
  BY <1>3 DEF NextBatch, JoinReturns, StoreStopped, Unmap, workerVars
<1>4. CASE UserChoice \/ CopyCompletes
  BY <1>4 DEF UserChoice, StartCopy, BreakLoop, CloseBegins, CopyCompletes, workerVars
<1>5. CASE ConsumerKilled
  BY <1>5 DEF ConsumerKilled
<1> QED
  BY <1>1, <1>2, <1>3, <1>4, <1>5 DEF UserStep

-----------------------------------------------------------------------------
(***************************************************************************)
(* ReaderInv is kept.  The worker gets past PollHead only if head counts   *)
(* more batches than it has read, and past CheckReady, with the batch that *)
(* is being written, only on a flag of an earlier lap.                     *)
(***************************************************************************)
LEMMA StepKeepsReaderInv ==
  ASSUME ProducerInv, ConsumerTypeOK, ReaderInv, ProducerMove \/ ConsumerMove
  PROVE  ReaderInv'
<1>1. readTail \in Nat /\ published \in Nat /\ NSlots \in Nat \ {0} /\ head \in {published, published + 1}
  BY RingAssumption DEF ConsumerTypeOK, ProducerInv, ProducerTypeOK, HeadInv
<1>2. ASSUME published' = published \/ published' = published + 1,
             readTail' = readTail, wpc' = wpc \/ wpc' \in {"throttle", "poll", "head", "select", "recv", "done"}
      PROVE  ReaderInv'
  BY <1>1, <1>2 DEF ReaderInv, FirstLapGated
<1>3. CASE ProducerMove
  BY <1>2, <1>3, ProducerFrame DEF consVars, workerVars
<1>4. CASE ConsumerMove
  <2>1. published' = published
    BY <1>4 DEF ConsumerMove, prodVars
  <2>2. CASE WorkerStep
    <3>1. CASE wpc = "head" /\ wpc' = "ready" /\ head > readTail /\ readTail' = readTail
      BY <1>1, <2>1, <3>1 DEF ReaderInv, FirstLapGated
    <3>2. CASE wpc = "readySelect" /\ wpc' = "ready" /\ readTail' = readTail
      BY <1>1, <2>1, <3>2 DEF ReaderInv, FirstLapGated
    <3>3. CASE wpc = "ready" /\ wpc' = "readySelect" /\ readTail' = readTail
      BY <1>1, <2>1, <3>3 DEF ReaderInv, FirstLapGated
    <3>4. CASE wpc = "ready" /\ wpc' = "parse" /\ readTail' = readTail /\ slots[SlotOf(readTail)].ready
      <4>1. readTail <= published /\ FirstLapGated
        BY <3>4 DEF ReaderInv
      <4>2. ASSUME readTail = published, published < NSlots PROVE FALSE
        <5>1. SlotOf(readTail) \in SlotIndex /\ SlotOf(readTail) = published
          BY <1>1, <4>2, FirstLapSlot, Remainder DEF SlotOf, SlotIndex
        <5>2. ~slots[SlotOf(readTail)].ready
          BY <1>1, <5>1 DEF ProducerInv, SlotInv
        <5> QED
          BY <3>4, <5>2
      <4> QED
        BY <1>1, <2>1, <3>4, <4>1, <4>2 DEF ReaderInv, FirstLapGated
    <3>5. CASE wpc = "parse" /\ wpc' = "throttle" /\ readTail' = readTail + 1
      <4>1. readTail <= published /\ (readTail = published => published >= NSlots)
        BY <3>5 DEF ReaderInv
      <4> QED
        BY <1>1, <2>1, <3>5, <4>1 DEF ReaderInv, FirstLapGated
    <3> QED
      BY <1>2, <2>1, <2>2, <3>1, <3>2, <3>3, <3>4, <3>5, WorkerMoves
  <2>3. CASE UserStep \/ UserChoice \/ CopyCompletes \/ ConsumerKilled
    BY <1>2, <2>1, <2>3, UserFrame
  <2> QED
    BY <1>4, <2>2, <2>3 DEF ConsumerMove
<1> QED
  BY <1>3, <1>4

(***************************************************************************)
(* QueueInv is kept: between the throttle and the put the queue only       *)
(* shrinks, and after the put the worker is back at the throttle.          *)
(***************************************************************************)
LEMMA StepKeepsQueueInv ==
  ASSUME ProducerInv, ConsumerTypeOK, QueueInv, ProducerMove \/ ConsumerMove
  PROVE  QueueInv'
<1>1. queue \in Seq(Items) /\ Len(queue) \in Nat /\ PrefetchFactor \in Nat
  BY PrefetchAssumption, LenProperties DEF ConsumerTypeOK
<1>2. CASE ProducerMove
  BY <1>2, ProducerFrame DEF consVars, workerVars, QueueInv, QueueHasRoom
<1>3. CASE WorkerStep
  <2>1. CASE UNCHANGED queue
    BY <1>3, <2>1, WorkerMoves DEF QueueInv, QueueHasRoom
  <2>2. CASE wpc \notin {"throttle", "done"} /\ wpc' \in {"throttle", "done"} /\ \E item : queue' = Append(queue, item)
    <3>1. Len(queue') = Len(queue) + 1
      BY <1>1, <2>2, AppendProperties
    <3> QED
      BY <1>1, <2>2, <3>1 DEF QueueInv, QueueHasRoom
  <2> QED
    BY <1>3, <2>1, <2>2, WorkerMoves
<1>4. CASE UserStep \/ UserChoice \/ CopyCompletes \/ ConsumerKilled
  <2>1. Len(queue') <= Len(queue) /\ Len(queue') \in Nat
    BY <1>1, <1>4, UserFrame, HeadTailProperties, EmptySeq
  <2>2. wpc' = wpc \/ wpc' = "done"
    BY <1>4, UserFrame
  <2> QED
    BY <1>1, <2>1, <2>2 DEF QueueInv, QueueHasRoom
<1> QED
  BY <1>2, <1>3, <1>4 DEF ConsumerMove

-----------------------------------------------------------------------------
\* The elements of the release list.
Releases == [slot : SlotIndex, copying : BOOLEAN]

(***************************************************************************)
(* Marking a copy begun or completed changes no slot of the release list.  *)
(***************************************************************************)
LEMMA MarkingKeepsSlots ==
  ASSUME ConsumerTypeOK, NEW i \in 1 .. Len(pending), NEW b \in BOOLEAN,
         pending' = [pending EXCEPT ![i].copying = b]
  PROVE  /\ pending' \in Seq(Releases)
         /\ Len(pending') = Len(pending)
         /\ \A j \in 1 .. Len(pending) : pending'[j].slot = pending[j].slot
<1> DEFINE old == pending[i]
           new == [old EXCEPT !.copying = b]
<1>1. pending \in Seq(Releases)
  BY DEF ConsumerTypeOK, Releases
<1>2. old \in Releases
  BY <1>1, ElementOfSeq
<1>3. pending' = [pending EXCEPT ![i] = new]
  OBVIOUS
<1> HIDE DEF old
<1>4. new \in Releases /\ new.slot = old.slot
  BY <1>2 DEF Releases
<1> HIDE DEF new
<1>5. /\ [pending EXCEPT ![i] = new] \in Seq(Releases)
      /\ Len([pending EXCEPT ![i] = new]) = Len(pending)
      /\ \A j \in 1 .. Len(pending) : [pending EXCEPT ![i] = new][j] = IF j = i THEN new ELSE pending[j]
  BY <1>1, <1>4, ExceptSeq
<1>6. \A j \in 1 .. Len(pending) : pending'[j].slot = pending[j].slot
  BY <1>3, <1>4, <1>5 DEF old
<1> QED
  BY <1>3, <1>5, <1>6

(***************************************************************************)
(* The consumer's part of TypeOK is kept.  The user can start a copy only  *)
(* of a batch that is held, which is in the release list.                  *)
(***************************************************************************)
LEMMA StepKeepsConsumerTypeOK ==
  ASSUME ProducerInv, ConsumerTypeOK, ipc = "hold" => pending # << >>,
         ProducerMove \/ ConsumerMove
  PROVE  ConsumerTypeOK'
<1>1. /\ wpc \in WorkerPCs /\ readTail \in Nat /\ excSet \in BOOLEAN
      /\ queue \in Seq(Items) /\ Len(queue) \in Nat
      /\ prefetching \in BOOLEAN /\ ipc \in UserPCs /\ cur \in Items
      /\ pending \in Seq(Releases) /\ Len(pending) \in Nat
      /\ forceTo \in Nat /\ after \in AfterPCs
      /\ tail \in Nat /\ NSlots \in Nat \ {0}
  BY RingAssumption, LenProperties DEF ConsumerTypeOK, Releases, ProducerInv, SharedTypeOK
<1>2. Nothing \in Items
  BY DEF Nothing, StopItem, Items
<1>3. CASE ProducerMove
  BY <1>3, ProducerFrame DEF ConsumerTypeOK, consVars, workerVars, userVars
<1>4. CASE WorkerStep
  <2>1. UNCHANGED userVars /\ wpc' \in WorkerPCs /\ readTail' \in Nat /\ excSet' \in BOOLEAN
    BY <1>1, <1>4, WorkerMoves DEF WorkerPCs
  <2>2. /\ EpochEnd(readTail) \in Items
        /\ StopItem(readTail) \in Items
        /\ Batch(readTail, slots[SlotOf(readTail)].meta) \in Items
    <3>1. SlotOf(readTail) \in SlotIndex
      BY <1>1, Remainder DEF SlotOf, SlotIndex
    <3>2. slots[SlotOf(readTail)].meta \in Nat \cup {NoBatch}
      BY <3>1 DEF ProducerInv, SharedTypeOK
    <3> QED
      BY <1>1, <3>2 DEF EpochEnd, StopItem, Batch, Items
  <2>3. queue' \in Seq(Items)
    <3>1. ASSUME NEW item \in Items PROVE Append(queue, item) \in Seq(Items)
      BY <1>1, AppendProperties
    <3>2. \/ queue' = queue
          \/ queue' = Append(queue, EpochEnd(readTail))
          \/ queue' = Append(queue, StopItem(readTail))
          \/ queue' = Append(queue, Batch(readTail, slots[SlotOf(readTail)].meta))
      BY <1>4, WorkerMoves
    <3> QED
      BY <1>1, <2>2, <3>1, <3>2
  <2> QED
    BY <2>1, <2>3, <1>1 DEF ConsumerTypeOK, userVars, Releases
<1>5. CASE UserStep \/ UserChoice \/ CopyCompletes \/ ConsumerKilled
  <2>1. /\ UNCHANGED << readTail, excSet >> /\ wpc' \in WorkerPCs
        /\ queue' \in Seq(Items)
    BY <1>1, <1>5, UserFrame, HeadTailProperties, EmptySeq DEF WorkerPCs
  <2>2. queue # << >> => Head(queue) \in Items
    BY <1>1, HeadTailProperties
  <2>3. ASSUME NEW force \in Nat, NEW next \in AfterPCs, StartDrain(force, next)
        PROVE  ipc' \in UserPCs /\ forceTo' \in Nat /\ after' \in AfterPCs
    BY <2>3 DEF StartDrain, UserPCs
  <2>4. ASSUME NEW next \in AfterPCs, DrainAll(next)
        PROVE  ipc' \in UserPCs /\ forceTo' \in Nat /\ after' \in AfterPCs
    BY <1>1, <2>3, <2>4 DEF DrainAll
  <2>5. ASSUME NEW item \in Items, HoldBatch(item)
        PROVE  ipc' \in UserPCs /\ pending' \in Seq(Releases)
    <3>1. [slot |-> SlotOf(item.seq), copying |-> FALSE] \in Releases
      BY <1>1, Remainder DEF Items, Releases, SlotOf, SlotIndex
    <3> QED
      BY <1>1, <2>5, <3>1, AppendProperties DEF HoldBatch, UserPCs
  <2>6. /\ prefetching' \in BOOLEAN /\ ipc' \in UserPCs /\ cur' \in Items
        /\ pending' \in Seq(Releases) /\ forceTo' \in Nat /\ after' \in AfterPCs
    <3>1. CASE Release
      BY <1>1, <3>1, HeadTailProperties DEF Release
    <3>2. CASE DrainReturns \/ StartIteration
      BY <1>1, <3>2 DEF DrainReturns, StartIteration, UserPCs, AfterPCs
    <3>3. CASE CheckException
      BY <1>1, <2>4, <3>3 DEF CheckException, UserPCs, AfterPCs
    <3>4. CASE TakeNone
      BY <1>1, <2>4, <3>4 DEF TakeNone, AfterPCs
    <3>5. CASE TakeBatch
      <4>1. Head(queue) \in Items /\ cur' = Head(queue) /\ UNCHANGED prefetching
        BY <2>2, <3>5 DEF TakeBatch
      <4>2. CASE Head(queue).seq - tail >= NSlots
        <5>1. Head(queue).seq - NSlots + 1 \in Nat
          BY <1>1, <4>1, <4>2 DEF Items
        <5>2. StartDrain(Head(queue).seq - NSlots + 1, "append") /\ UNCHANGED pending
          BY <3>5, <4>2 DEF TakeBatch
        <5> QED
          BY <1>1, <2>3, <4>1, <5>1, <5>2 DEF AfterPCs
      <4>3. CASE ~(Head(queue).seq - tail >= NSlots)
        <5>1. HoldBatch(Head(queue)) /\ UNCHANGED << forceTo, after >>
          BY <3>5, <4>3 DEF TakeBatch
        <5> QED
          BY <1>1, <2>5, <4>1, <5>1
      <4> QED
        BY <4>2, <4>3
    <3>6. CASE AppendAfterDrain
      BY <1>1, <2>5, <3>6 DEF AppendAfterDrain
    <3>7. CASE TakeTimeout \/ CheckWorker
      BY <1>1, <2>4, <3>7 DEF TakeTimeout, CheckWorker, UserPCs, AfterPCs
    <3>8. CASE NextBatch
      BY <1>1, <1>2, <2>3, <3>8 DEF NextBatch, AfterPCs
    <3>9. CASE JoinReturns
      BY <1>1, <2>4, <3>9 DEF JoinReturns, AfterPCs
    <3>10. CASE StoreStopped \/ Unmap \/ ConsumerKilled
      BY <1>1, <3>10 DEF StoreStopped, Unmap, ConsumerKilled, UserPCs
    <3>11. CASE StartCopy
      <4>1. Len(pending) \in 1 .. Len(pending)
        BY <1>1, <3>11, EmptySeq DEF StartCopy
      <4> QED
        BY <1>1, <3>11, <4>1, MarkingKeepsSlots DEF StartCopy
    <3>12. CASE BreakLoop
      BY <1>1, <1>2, <2>4, <3>12 DEF BreakLoop, AfterPCs
    <3>13. CASE CloseBegins
      BY <1>1, <1>2, <3>13 DEF CloseBegins, UserPCs
    <3>14. CASE CopyCompletes
      <4>1. PICK i \in DOMAIN pending : pending' = [pending EXCEPT ![i].copying = FALSE]
        BY <3>14 DEF CopyCompletes
      <4>2. i \in 1 .. Len(pending)
        BY <1>1, LenProperties
      <4> QED
        BY <1>1, <3>14, <4>1, <4>2, MarkingKeepsSlots DEF CopyCompletes
    <3> QED
      BY <1>5, <3>1, <3>2, <3>3, <3>4, <3>5, <3>6, <3>7, <3>8, <3>9, <3>10, <3>11, <3>12, <3>13, <3>14
      DEF UserStep, UserChoice
  <2> QED
    BY <1>1, <2>1, <2>6 DEF ConsumerTypeOK, Releases
<1> QED
  BY <1>3, <1>4, <1>5 DEF ConsumerMove

-----------------------------------------------------------------------------
(***************************************************************************)
(* An item put at the end of the queue carries on from the worker's        *)
(* read_tail.                                                              *)
(***************************************************************************)
LEMMA LinksAppend ==
  ASSUME NEW q \in Seq(Items), NEW first \in Nat, NEW last \in Nat, Links(q, first, last),
         NEW item \in Items, item.seq = last
  PROVE  Links(Append(q, item), first, Follow(item))
<1> DEFINE p == Append(q, item)
<1>1. /\ p # << >> /\ Len(q) \in Nat /\ Len(p) = Len(q) + 1
      /\ \A i \in 1 .. Len(q) : p[i] = q[i]
      /\ p[Len(p)] = item
  BY AppendProperties, LenProperties
<1>2. item.seq \in Nat /\ Follow(item) \in Nat /\ last <= Follow(item)
  BY DEF Items, Follow
<1>3. \A i \in 1 .. Len(q) : q[i] \in Items
  BY ElementOfSeq
<1>4. \A i \in 1 .. Len(q) : Follow(q[i]) \in Nat
  BY <1>3 DEF Items, Follow
<1>5. q # << >> => Len(q) > 0
  BY EmptySeq
<1> HIDE DEF p
<1>6. p[1].seq = first
  <2>1. CASE q = << >>
    <3>1. Len(q) = 0
      BY <2>1, EmptySeq
    <3> QED
      BY <1>1, <2>1, <3>1 DEF Links
  <2>2. CASE q # << >>
    BY <1>1, <1>5, <2>2 DEF Links
  <2> QED
    BY <2>1, <2>2
<1>7. ASSUME NEW i \in 1 .. Len(p) - 1 PROVE p[i + 1].seq = Follow(p[i])
  <2>1. CASE i < Len(q)
    BY <1>1, <1>7, <2>1 DEF Links
  <2>2. CASE i = Len(q)
    <3>1. q # << >> /\ p[i] = q[Len(q)] /\ p[i + 1] = item
      BY <1>1, <1>7, <2>2, EmptySeq
    <3> QED
      BY <3>1 DEF Links
  <2> QED
    BY <1>1, <1>7, <2>1, <2>2
<1>8. ASSUME NEW i \in 1 .. Len(p) PROVE Follow(p[i]) <= Follow(item)
  <2>1. CASE i <= Len(q)
    <3>1. p[i] = q[i] /\ Follow(q[i]) <= last /\ Follow(q[i]) \in Nat
      BY <1>1, <1>4, <1>8, <2>1 DEF Links
    <3> QED
      BY <1>2, <3>1
  <2>2. CASE i = Len(p)
    BY <1>1, <1>2, <2>2
  <2> QED
    BY <1>1, <1>8, <2>1, <2>2
<1>9. Follow(p[Len(p)]) = Follow(item)
  BY <1>1
<1> QED
  BY <1>1, <1>6, <1>7, <1>8, <1>9 DEF Links, p

(***************************************************************************)
(* With its first item gone, the queue carries on from what follows it.    *)
(***************************************************************************)
LEMMA LinksTail ==
  ASSUME NEW q \in Seq(Items), NEW first \in Nat, NEW last \in Nat, Links(q, first, last),
         q # << >>
  PROVE  /\ Head(q).seq = first
         /\ Follow(Head(q)) <= last
         /\ Links(Tail(q), Follow(Head(q)), last)
<1> DEFINE p == Tail(q)
<1>1. /\ p \in Seq(Items) /\ Len(q) \in Nat \ {0} /\ Len(p) \in Nat /\ Len(p) = Len(q) - 1
      /\ \A i \in 1 .. Len(p) : p[i] = q[i + 1]
  BY HeadTailProperties, LenProperties, EmptySeq
<1>2. Head(q) = q[1]
  BY <1>1
<1> HIDE DEF p
<1>3. q[1].seq = first /\ Follow(q[1]) <= last
  BY <1>1 DEF Links
<1>4. CASE p = << >>
  <2>1. Len(p) = 0 /\ Len(q) = 1
    BY <1>1, <1>4, EmptySeq
  <2>2. Follow(q[1]) = last
    BY <2>1 DEF Links
  <2>3. Links(p, Follow(q[1]), last)
    BY <1>4, <2>1, <2>2 DEF Links
  <2> QED
    BY <1>2, <1>3, <2>3 DEF p
<1>5. CASE p # << >>
  <2>1. Len(p) > 0
    BY <1>1, <1>5, EmptySeq
  <2>2. p[1] = q[2] /\ q[2].seq = Follow(q[1])
    BY <1>1, <2>1 DEF Links
  <2>3. p[Len(p)] = q[Len(q)]
    BY <1>1, <2>1
  <2>4. \A i \in 1 .. Len(p) - 1 : p[i + 1].seq = Follow(p[i])
    BY <1>1 DEF Links
  <2>5. \A i \in 1 .. Len(p) : Follow(p[i]) <= last
    BY <1>1 DEF Links
  <2>6. Links(p, Follow(q[1]), last)
    BY <1>5, <2>2, <2>3, <2>4, <2>5 DEF Links
  <2> QED
    BY <1>2, <1>3, <2>6 DEF p
<1> QED
  BY <1>4, <1>5

-----------------------------------------------------------------------------
\* The i-th release is that of the i-th batch after the released ones.
ReleaseOrder == \A i \in 1 .. Len(pending) : pending[i].slot = SlotOf(tail + i - 1)

(***************************************************************************)
(* Holding the batch that follows the listed ones keeps the release order. *)
(***************************************************************************)
LEMMA HoldKeepsOrder ==
  ASSUME ConsumerTypeOK, tail \in Nat, ReleaseOrder,
         NEW item \in Items, item.seq = tail + Len(pending),
         HoldBatch(item), UNCHANGED tail
  PROVE  /\ Len(pending') = Len(pending) + 1
         /\ pending' # << >>
         /\ ReleaseOrder'
<1> DEFINE new == [slot |-> SlotOf(item.seq), copying |-> FALSE]
<1>1. pending \in Seq(Releases) /\ Len(pending) \in Nat
  BY LenProperties DEF ConsumerTypeOK, Releases
<1>2. new \in Releases
  BY RingAssumption, Remainder DEF Items, Releases, SlotOf, SlotIndex
<1>3. pending' = Append(pending, new)
  BY DEF HoldBatch
<1>4. /\ pending' # << >> /\ Len(pending') = Len(pending) + 1
      /\ \A i \in 1 .. Len(pending) : pending'[i] = pending[i]
      /\ pending'[Len(pending) + 1] = new
  BY <1>1, <1>2, <1>3, AppendProperties
<1>5. ASSUME NEW i \in 1 .. Len(pending) + 1
      PROVE  pending'[i].slot = SlotOf(tail + i - 1)
  <2>1. CASE i <= Len(pending)
    BY <1>1, <1>4, <1>5, <2>1 DEF ReleaseOrder
  <2>2. CASE i = Len(pending) + 1
    <3>1. tail + i - 1 = item.seq
      BY <1>1, <2>2
    <3> QED
      BY <1>4, <2>2, <3>1
  <2> QED
    BY <1>1, <1>5, <2>1, <2>2
<1>6. ReleaseOrder'
  BY <1>4, <1>5 DEF ReleaseOrder, SlotOf
<1> QED
  BY <1>4, <1>6

(***************************************************************************)
(* Releasing the oldest batch keeps the release order.                     *)
(***************************************************************************)
LEMMA ReleaseKeepsOrder ==
  ASSUME ConsumerTypeOK, tail \in Nat, ReleaseOrder,
         pending # << >>, pending' = Tail(pending), tail' = tail + 1
  PROVE  /\ Len(pending') = Len(pending) - 1
         /\ ReleaseOrder'
<1>1. pending \in Seq(Releases) /\ Len(pending) \in Nat
  BY LenProperties DEF ConsumerTypeOK, Releases
<1>2. /\ Len(pending') = Len(pending) - 1
      /\ \A i \in 1 .. Len(pending) - 1 : pending'[i] = pending[i + 1]
  BY <1>1, HeadTailProperties
<1>3. ASSUME NEW i \in 1 .. Len(pending) - 1
      PROVE  pending'[i].slot = SlotOf((tail + 1) + i - 1)
  <2>1. i + 1 \in 1 .. Len(pending) /\ tail + (i + 1) - 1 = (tail + 1) + i - 1
    BY <1>1, <1>3
  <2>2. pending[i + 1].slot = SlotOf(tail + (i + 1) - 1)
    BY <2>1 DEF ReleaseOrder
  <2> QED
    BY <1>2, <2>1, <2>2
<1>4. ReleaseOrder'
  BY <1>2, <1>3 DEF ReleaseOrder, SlotOf
<1> QED
  BY <1>2, <1>4

(***************************************************************************)
(* ReleaseInv is kept: the batches the user has taken from the queue are   *)
(* the released ones, then the listed ones in order, then at most one that *)
(* waits for forced releases; the queue carries on from there.             *)
(***************************************************************************)
LEMMA StepKeepsReleaseInv ==
  ASSUME ProducerInv, ConsumerTypeOK, ReleaseInv, ProducerMove \/ ConsumerMove
  PROVE  ReleaseInv'
<1>1. /\ tail \in Nat /\ readTail \in Nat /\ queue \in Seq(Items)
      /\ pending \in Seq(Releases) /\ Len(pending) \in Nat
      /\ DOMAIN pending = 1 .. Len(pending)
      /\ cur.seq \in Nat /\ after \in AfterPCs
  BY LenProperties DEF ConsumerTypeOK, Releases, ProducerInv, SharedTypeOK, Items
<1>2. /\ tail + Len(pending) <= readTail
      /\ ReleaseOrder
      /\ ipc = "hold" => cur.seq = tail + Len(pending) - 1 /\ pending # << >>
      /\ Mid => cur.seq = tail + Len(pending) /\ cur.seq < readTail
      /\ ~prefetching => Closing
      /\ Live => Links(queue, Out, readTail)
  BY <1>1 DEF ReleaseInv, ReleasesMatchTail, ReleaseOrder, Chain
<1>3. Out \in Nat /\ (~Mid => Out = tail + Len(pending)) /\ (Mid => Out = tail + Len(pending) + 1)
  BY <1>1 DEF Out
<1>4. ASSUME DOMAIN pending' = 1 .. Len(pending'),
             tail' + Len(pending') <= readTail',
             ReleaseOrder',
             ipc' = "hold" => cur'.seq = tail' + Len(pending') - 1 /\ pending' # << >>,
             Mid' => cur'.seq = tail' + Len(pending') /\ cur'.seq < readTail',
             ~prefetching' => Closing',
             Live' => Links(queue', Out', readTail')
      PROVE  ReleaseInv'
  <2>1. ReleasesMatchTail'
    BY <1>4 DEF ReleasesMatchTail, ReleaseOrder, SlotOf
  <2>2. Chain' <=> Links(queue', Out', readTail')
    BY DEF Chain, Links, Follow
  <2> QED
    BY <1>4, <2>1, <2>2 DEF ReleaseInv
<1>5. CASE UNCHANGED << tail, readTail, queue, userVars >>
  BY <1>2, <1>4, <1>1, <1>5 DEF userVars, ReleaseOrder, SlotOf, Mid, Closing, Live, Out, Links, Follow
<1>6. CASE ProducerMove
  BY <1>5, <1>6, ProducerFrame DEF consVars, workerVars
<1>7. CASE WorkerStep
  <2>1. UNCHANGED << tail, prefetching, ipc, cur, pending, forceTo, after >>
    BY <1>7, WorkerMoves DEF userVars
  <2>2. ASSUME NEW item \in Items, item.seq = readTail,
               queue' = Append(queue, item), readTail' = Follow(item)
        PROVE  ReleaseInv'
    <3>1. Live => Links(Append(queue, item), Out, Follow(item))
      BY <1>1, <1>2, <1>3, <2>2, LinksAppend
    <3>2. Live' => Links(queue', Out', readTail')
      BY <2>1, <2>2, <3>1 DEF Live, Out, Mid
    <3>3. readTail' \in Nat /\ readTail <= readTail'
      BY <2>2 DEF Items, Follow
    <3>4. ReleaseOrder' /\ (~prefetching' => Closing') /\ (Mid' <=> Mid)
      BY <1>2, <2>1 DEF ReleaseOrder, SlotOf, Closing, Mid
    <3> QED
      BY <1>1, <1>2, <1>4, <2>1, <3>2, <3>3, <3>4
  <2>3. /\ EpochEnd(readTail) \in Items /\ Follow(EpochEnd(readTail)) = readTail
        /\ StopItem(readTail) \in Items /\ Follow(StopItem(readTail)) = readTail
    BY <1>1 DEF EpochEnd, StopItem, Items, Follow
  <2>4. CASE queue' = Append(queue, EpochEnd(readTail)) /\ readTail' = readTail
    BY <2>2, <2>3, <2>4 DEF EpochEnd
  <2>5. CASE queue' = Append(queue, StopItem(readTail)) /\ readTail' = readTail
    BY <2>2, <2>3, <2>5 DEF StopItem
  <2>6. CASE queue' = Append(queue, Batch(readTail, slots[SlotOf(readTail)].meta)) /\ readTail' = readTail + 1
    <3>1. slots[SlotOf(readTail)].meta \in Nat \cup {NoBatch}
      BY <1>1, RingAssumption, Remainder DEF SlotOf, SlotIndex, ProducerInv, SharedTypeOK
    <3> DEFINE item == Batch(readTail, slots[SlotOf(readTail)].meta)
    <3>2. item \in Items /\ item.seq = readTail /\ Follow(item) = readTail + 1
      BY <1>1, <3>1 DEF Batch, Items, Follow
    <3> HIDE DEF item
    <3>3. queue' = Append(queue, item)
      BY <2>6 DEF item
    <3> QED
      BY <2>2, <2>6, <3>2, <3>3
  <2> QED
    BY <1>5, <1>7, <2>4, <2>5, <2>6, WorkerMoves
<1>8. CASE UserStep \/ UserChoice \/ CopyCompletes \/ ConsumerKilled
  <2>1. readTail' = readTail
    BY <1>8, UserFrame
  <2>2. ASSUME UNCHANGED << tail, pending, queue >>,
               ipc' # "hold", ~Mid', ~prefetching' => Closing',
               Live' => Live /\ ~Mid
        PROVE  ReleaseInv'
    <3>1. ReleaseOrder'
      BY <1>2, <2>2 DEF ReleaseOrder, SlotOf
    <3>2. Live' => Links(queue', Out', readTail')
      BY <1>2, <2>1, <2>2 DEF Out, Links, Follow
    <3> QED
      BY <1>1, <1>2, <1>4, <2>1, <2>2, <3>1, <3>2
  <2>3. CASE \/ StartIteration \/ CheckException \/ TakeTimeout \/ CheckWorker
             \/ NextBatch \/ BreakLoop \/ JoinReturns
    <3>1. UNCHANGED << tail, pending, queue, prefetching >>
      BY <2>3 DEF StartIteration, CheckException, TakeTimeout, CheckWorker, NextBatch, BreakLoop, JoinReturns, shmVars
    <3>2. \/ ipc' \in {"check", "take", "empty"} /\ ipc \in {"idle", "check", "take", "empty"}
          \/ ipc' = "drain" /\ after' \in {"raised", "idle", "check"} /\ ipc \in {"check", "empty", "hold"}
          \/ ipc' = "drain" /\ after' = "stop" /\ ipc = "join"
      BY <2>3 DEF StartIteration, CheckException, TakeTimeout, CheckWorker, NextBatch, BreakLoop, JoinReturns,
                  DrainAll, StartDrain
    <3> QED
      BY <1>2, <2>2, <3>1, <3>2 DEF Mid, Closing, Live
  <2>4. CASE StoreStopped \/ Unmap \/ ConsumerKilled
    <3>1. UNCHANGED << tail, pending, queue, prefetching >> /\ ipc' \in {"unmap", "closed"}
      BY <2>4 DEF StoreStopped, Unmap, ConsumerKilled
    <3>2. ipc' = "unmap" => ipc = "stop"
      BY <2>4 DEF StoreStopped, Unmap, ConsumerKilled
    <3> QED
      BY <1>2, <2>2, <3>1, <3>2 DEF Mid, Closing, Live
  <2>5. CASE CloseBegins
    <3>1. UNCHANGED << tail, pending >> /\ ipc' = "join" /\ prefetching' = FALSE
      BY <2>5 DEF CloseBegins, shmVars
    <3>2. ReleaseOrder' /\ Closing' /\ ~Live' /\ ~Mid'
      BY <1>2, <3>1 DEF ReleaseOrder, SlotOf, Closing, Live, Mid
    <3> QED
      BY <1>1, <1>2, <1>4, <2>1, <3>1, <3>2
  <2>6. CASE DrainReturns
    <3>1. UNCHANGED << tail, pending, queue, cur, prefetching, after >> /\ ipc = "drain" /\ ipc' = after
      BY <2>6 DEF DrainReturns, shmVars
    <3>2. ipc' # "hold" /\ (Mid' <=> Mid) /\ (Live' <=> Live)
      BY <1>1, <3>1 DEF AfterPCs, Mid, Live
    <3>3. ReleaseOrder' /\ (~prefetching' => Closing')
      BY <1>2, <3>1 DEF ReleaseOrder, SlotOf, Closing
    <3>4. Live' => Links(queue', Out', readTail')
      BY <1>2, <2>1, <3>1, <3>2 DEF Out, Links, Follow
    <3> QED
      BY <1>1, <1>2, <1>4, <2>1, <3>1, <3>2, <3>3, <3>4
  <2>7. CASE Release
    <3>1. /\ UNCHANGED << queue, cur, prefetching, ipc, after >> /\ ipc = "drain"
          /\ pending # << >> /\ pending' = Tail(pending) /\ tail' = tail + 1
      BY <2>7 DEF Release
    <3>2. Len(pending') = Len(pending) - 1 /\ ReleaseOrder' /\ DOMAIN pending' = 1 .. Len(pending')
      <4>1. pending' \in Seq(Releases)
        BY <1>1, <3>1, HeadTailProperties
      <4> QED
        BY <1>1, <1>2, <3>1, <4>1, ReleaseKeepsOrder, LenProperties
    <3>3. tail' + Len(pending') = tail + Len(pending)
      BY <1>1, <3>1, <3>2
    <3>4. (Mid' <=> Mid) /\ (Live' <=> Live) /\ (~prefetching' => Closing')
      BY <1>2, <3>1 DEF Mid, Live, Closing
    <3>5. Out' = Out
      BY <3>3, <3>4 DEF Out
    <3>6. Live' => Links(queue', Out', readTail')
      BY <1>2, <2>1, <3>1, <3>4, <3>5 DEF Links, Follow
    <3> QED
      BY <1>2, <1>4, <2>1, <3>1, <3>2, <3>3, <3>4, <3>6
  <2>8. ASSUME queue # << >>
        PROVE  /\ Head(queue) \in Items
               /\ Follow(Head(queue)) \in Nat
               /\ Live => /\ Head(queue).seq = Out
                          /\ Follow(Head(queue)) <= readTail
                          /\ Links(Tail(queue), Follow(Head(queue)), readTail)
    <3>1. Head(queue) \in Items
      BY <1>1, <2>8, HeadTailProperties
    <3>2. Follow(Head(queue)) \in Nat
      BY <3>1 DEF Items, Follow
    <3>3. Live => /\ Head(queue).seq = Out
                  /\ Follow(Head(queue)) <= readTail
                  /\ Links(Tail(queue), Follow(Head(queue)), readTail)
      BY <1>1, <1>2, <1>3, <2>8, LinksTail
    <3> QED
      BY <3>1, <3>2, <3>3
  <2>9. ipc = "take" => ~Mid /\ Live /\ prefetching /\ Out = tail + Len(pending)
    BY <1>2, <1>3 DEF Mid, Live, Closing
  <2>10. CASE TakeNone
    <3>1. /\ UNCHANGED << tail, pending, prefetching >> /\ ipc = "take"
          /\ queue # << >> /\ Head(queue).kind # "batch" /\ queue' = Tail(queue)
          /\ ipc' = "drain" /\ after' \in {"raised", "idle"}
      BY <2>10 DEF TakeNone, shmVars, DrainAll, StartDrain
    <3>2. Links(Tail(queue), Out, readTail)
      BY <2>8, <2>9, <3>1 DEF Follow
    <3>3. ~Mid' /\ Live' /\ prefetching' /\ ReleaseOrder'
      BY <1>2, <2>9, <3>1 DEF Mid, Live, ReleaseOrder, SlotOf
    <3>4. Out' = Out
      BY <2>9, <3>1, <3>3 DEF Out
    <3>5. Links(queue', Out', readTail')
      BY <2>1, <3>1, <3>2, <3>4
    <3> QED
      BY <1>1, <1>2, <1>4, <2>1, <3>1, <3>3, <3>5
  <2>11. CASE TakeBatch
    <3>1. /\ UNCHANGED << tail, prefetching >> /\ ipc = "take"
          /\ queue # << >> /\ Head(queue).kind = "batch" /\ queue' = Tail(queue) /\ cur' = Head(queue)
      BY <2>11 DEF TakeBatch, shmVars
    <3> DEFINE item == Head(queue)
    <3>2. /\ item \in Items /\ item.seq = tail + Len(pending)
          /\ Follow(item) = tail + Len(pending) + 1
          /\ tail + Len(pending) + 1 <= readTail
          /\ Links(Tail(queue), tail + Len(pending) + 1, readTail)
      BY <1>1, <2>8, <2>9, <3>1 DEF Follow
    <3>3. \/ HoldBatch(item)
          \/ ipc' = "drain" /\ after' = "append" /\ UNCHANGED pending
      BY <2>11 DEF TakeBatch, StartDrain
    <3> HIDE DEF item
    <3>4. CASE HoldBatch(item)
      <4>1. Len(pending') = Len(pending) + 1 /\ pending' # << >> /\ ReleaseOrder'
        BY <1>1, <1>2, <3>1, <3>2, <3>4, HoldKeepsOrder
      <4>2. DOMAIN pending' = 1 .. Len(pending')
        BY <3>4 DEF HoldBatch
      <4>3. ipc' = "hold" /\ ~Mid' /\ prefetching'
        BY <2>9, <3>1, <3>4 DEF HoldBatch, Mid
      <4>4. Out' = tail + Len(pending) + 1
        BY <1>1, <3>1, <4>1, <4>3 DEF Out
      <4>5. Links(queue', Out', readTail')
        BY <2>1, <3>1, <3>2, <4>4
      <4>6. tail' + Len(pending') <= readTail' /\ cur'.seq = tail' + Len(pending') - 1
        BY <1>1, <2>1, <3>1, <3>2, <4>1 DEF item
      <4> QED
        BY <1>4, <4>1, <4>2, <4>3, <4>5, <4>6
    <3>5. CASE ipc' = "drain" /\ after' = "append" /\ UNCHANGED pending
      <4>1. Mid' /\ prefetching' /\ ReleaseOrder'
        BY <1>2, <2>9, <3>1, <3>5 DEF Mid, ReleaseOrder, SlotOf
      <4>2. Out' = tail + Len(pending) + 1
        BY <3>1, <3>5, <4>1 DEF Out
      <4>3. Links(queue', Out', readTail')
        BY <2>1, <3>1, <3>2, <4>2
      <4>4. cur'.seq = tail' + Len(pending') /\ cur'.seq < readTail'
        BY <1>1, <2>1, <3>1, <3>2, <3>5 DEF item
      <4> QED
        BY <1>1, <1>2, <1>4, <2>1, <3>1, <3>5, <4>1, <4>3, <4>4
    <3> QED
      BY <3>3, <3>4, <3>5
  <2>12. CASE AppendAfterDrain
    <3>1. /\ UNCHANGED << tail, prefetching, queue, cur >> /\ ipc = "append" /\ HoldBatch(cur)
      BY <2>12 DEF AppendAfterDrain, shmVars
    <3>2. Mid /\ Live /\ prefetching /\ cur.seq = tail + Len(pending) /\ cur.seq < readTail
      BY <1>2, <3>1 DEF Mid, Live, Closing
    <3>3. Len(pending') = Len(pending) + 1 /\ pending' # << >> /\ ReleaseOrder'
      BY <1>1, <1>2, <3>1, <3>2, HoldKeepsOrder DEF ConsumerTypeOK
    <3>4. DOMAIN pending' = 1 .. Len(pending')
      BY <3>1 DEF HoldBatch
    <3>5. ipc' = "hold" /\ ~Mid' /\ prefetching'
      BY <3>1, <3>2 DEF HoldBatch, Mid
    <3>6. Out' = Out
      BY <1>1, <1>3, <3>1, <3>2, <3>3, <3>5 DEF Out
    <3>7. Links(queue', Out', readTail')
      BY <1>2, <2>1, <3>1, <3>2, <3>6
    <3>8. tail' + Len(pending') <= readTail' /\ cur'.seq = tail' + Len(pending') - 1
      BY <1>1, <2>1, <3>1, <3>2, <3>3
    <3> QED
      BY <1>4, <3>3, <3>4, <3>5, <3>7, <3>8
  <2>13. ASSUME NEW i \in 1 .. Len(pending), NEW b \in BOOLEAN,
                pending' = [pending EXCEPT ![i].copying = b],
                UNCHANGED << tail, queue, prefetching, ipc, cur, after >>
         PROVE  ReleaseInv'
    <3>1. /\ pending' \in Seq(Releases) /\ Len(pending') = Len(pending)
          /\ \A j \in 1 .. Len(pending) : pending'[j].slot = pending[j].slot
      BY <2>13, MarkingKeepsSlots
    <3>2. DOMAIN pending' = 1 .. Len(pending') /\ pending' # << >>
      BY <1>1, <3>1, LenProperties, EmptySeq
    <3>3. ReleaseOrder'
      BY <1>2, <2>13, <3>1 DEF ReleaseOrder, SlotOf
    <3>4. (Mid' <=> Mid) /\ (Live' <=> Live) /\ (~prefetching' => Closing')
      BY <1>2, <2>13 DEF Mid, Live, Closing
    <3>5. Out' = Out
      BY <2>13, <3>1, <3>4 DEF Out
    <3>6. Live' => Links(queue', Out', readTail')
      BY <1>2, <2>1, <2>13, <3>4, <3>5
    <3> QED
      BY <1>1, <1>2, <1>4, <2>1, <2>13, <3>1, <3>2, <3>3, <3>4, <3>6
  <2>14. CASE StartCopy
    <3>1. Len(pending) \in 1 .. Len(pending)
      BY <1>1, <1>2, <2>14, EmptySeq DEF StartCopy
    <3> QED
      BY <2>13, <2>14, <3>1 DEF StartCopy, shmVars
  <2>15. CASE CopyCompletes
    <3>1. PICK i \in DOMAIN pending : pending' = [pending EXCEPT ![i].copying = FALSE]
      BY <2>15 DEF CopyCompletes
    <3> QED
      BY <1>1, <2>13, <2>15, <3>1 DEF CopyCompletes, shmVars
  <2> QED
    BY <1>8, <2>3, <2>4, <2>5, <2>6, <2>7, <2>10, <2>11, <2>12, <2>14, <2>15 DEF UserStep, UserChoice
<1> QED
  BY <1>6, <1>7, <1>8 DEF ConsumerMove

-----------------------------------------------------------------------------
(***************************************************************************)
(* The slots of the next batches keep what the lap before has left there:  *)
(* the producer writes into none of them but the first, and a batch that   *)
(* is published leaves its headers to the one a lap later.                 *)
(***************************************************************************)
LEMMA ProducerKeepsLaps ==
  ASSUME ProducerInv, LapInv, ProducerMove
  PROVE  LapInv'
<1>1. /\ published \in Nat /\ NSlots \in Nat \ {0} /\ curHead \in Nat
      /\ SharedTypeOK /\ HeadInv /\ SlotInv
  BY RingAssumption DEF ProducerInv, ProducerTypeOK
<1>2. \A seq \in published .. published + NSlots - 1 :
        slots[SlotOf(seq)].meta \in {seq - NSlots, NoBatch} \cup (IF seq = published THEN {seq} ELSE {})
  BY DEF LapInv
<1>3. \A seq \in published .. published + NSlots :
        SlotOf(seq) \in SlotIndex /\ (seq \notin {published, published + NSlots} => SlotOf(seq) # SlotOf(published))
  <2> SUFFICES ASSUME NEW seq \in published .. published + NSlots
               PROVE  /\ SlotOf(seq) \in SlotIndex
                      /\ seq \notin {published, published + NSlots} => SlotOf(seq) # SlotOf(published)
    OBVIOUS
  <2>1. seq \in Nat
    BY <1>1
  <2>2. SlotOf(seq) \in SlotIndex
    BY <1>1, <2>1, Remainder DEF SlotOf, SlotIndex
  <2>3. ASSUME seq \notin {published, published + NSlots} PROVE SlotOf(published) # SlotOf(seq)
    <3>1. published < seq /\ seq < published + NSlots
      BY <1>1, <2>3
    <3> QED
      BY <1>1, <2>1, <3>1, WithinOneLap DEF SlotOf
  <2> QED
    BY <2>2, <2>3
<1>4. HeadersAtMostOneLapOld'
  BY ProducerFrame DEF LapInv, HeadersAtMostOneLapOld, consVars
<1>5. ASSUME published' = published,
             \A i \in SlotIndex : i # SlotOf(published) => slots'[i] = slots[i],
             slots'[SlotOf(published)].meta \in {slots[SlotOf(published)].meta, published, NoBatch}
      PROVE  LapInv'
  <2>1. ASSUME NEW seq \in published .. published + NSlots - 1
        PROVE  slots'[SlotOf(seq)].meta \in {seq - NSlots, NoBatch} \cup (IF seq = published THEN {seq} ELSE {})
    <3>1. CASE seq = published
      BY <1>1, <1>2, <1>5, <3>1
    <3>2. CASE seq # published
      BY <1>1, <1>2, <1>3, <1>5, <3>2
    <3> QED
      BY <3>1, <3>2
  <2> QED
    BY <1>4, <1>5, <2>1 DEF LapInv, SlotOf
<1>6. CASE UNCHANGED << slots, published >>
  BY <1>5, <1>6
<1>7. ppc \in WritingPCs => CurSlot = SlotOf(published) /\ curHead = published
  BY <1>1 DEF HeadInv, CurSlot
<1>8. \A i \in SlotIndex : slots[i] \in [ready : BOOLEAN, meta : Nat \cup {NoBatch}, data : Nat \cup {NoBatch}]
  BY <1>1 DEF SharedTypeOK
<1>9. DOMAIN slots = SlotIndex /\ SlotOf(published) \in SlotIndex
  BY <1>1, <1>3 DEF SharedTypeOK
<1>10. CASE BeginHeaders
  BY <1>5, <1>7, <1>9, <1>10 DEF BeginHeaders, WritingPCs, EmptySlot
<1>11. CASE EndHeaders
  <2>1. slots' = [slots EXCEPT ![SlotOf(published)].meta = published] /\ published' = published
    BY <1>7, <1>11 DEF EndHeaders, WritingPCs
  <2> QED
    BY <1>5, <1>8, <1>9, <2>1
<1>12. CASE CopyItems
  <2>1. slots' = [slots EXCEPT ![SlotOf(published)].data = published] /\ published' = published
    BY <1>7, <1>12 DEF CopyItems, WritingPCs
  <2> QED
    BY <1>5, <1>8, <1>9, <2>1
<1>13. CASE SetSlotReady
  <2>1. /\ slots' = [slots EXCEPT ![SlotOf(published)].ready = TRUE]
        /\ published' = published + 1
        /\ slots[SlotOf(published)].meta = published
    BY <1>1, <1>7, <1>13 DEF SetSlotReady, WritingPCs, SlotInv
  <2>2. slots'[SlotOf(published)].meta = published
    BY <1>8, <1>9, <2>1
  <2>3. SlotOf(published + NSlots) = SlotOf(published)
    BY <1>1, OneLapLater DEF SlotOf
  <2>4. ASSUME NEW seq \in published + 1 .. published + NSlots
        PROVE  slots'[SlotOf(seq)].meta \in {seq - NSlots, NoBatch} \cup (IF seq = published + 1 THEN {seq} ELSE {})
    <3>1. CASE seq = published + NSlots
      BY <1>1, <2>2, <2>3, <3>1
    <3>2. CASE seq # published + NSlots
      <4>1. slots'[SlotOf(seq)] = slots[SlotOf(seq)]
        BY <1>1, <1>3, <1>9, <2>1, <3>2
      <4> QED
        BY <1>1, <1>2, <3>2, <4>1
    <3> QED
      BY <3>1, <3>2
  <2>5. published' .. published' + NSlots - 1 = published + 1 .. published + NSlots
    BY <1>1, <2>1
  <2> QED
    BY <1>4, <2>1, <2>4, <2>5 DEF LapInv, SlotOf
<1>14. CASE Return
  BY <1>6, <1>14 DEF Return
<1>15. CASE NextEpoch \/ TakeStep \/ SkipStep \/ Claim \/ CheckSpace \/ UndoClaim \/ SpaceFreed \/ CtrlC
  BY <1>6, <1>15 DEF NextEpoch, TakeStep, SkipStep, Claim, CheckSpace, UndoClaim, SpaceFreed, CtrlC, shmVars
<1> QED
  BY <1>10, <1>11, <1>12, <1>13, <1>14, <1>15
  DEF ProducerMove, ProducerStep, ProducerEnv, TopInterrupted, TopStopped, TopLimit, NextEpochFails,
      SpinInterrupted, SpinStopped, SpinPeerGone, CopyInterrupted, BatchFails, ProducerKilled

(***************************************************************************)
(* What the worker puts in the queue has headers of one lap ago at most:   *)
(* a batch that is published has its own, and one that is not is the next. *)
(***************************************************************************)
LEMMA ConsumerKeepsLaps ==
  ASSUME ProducerInv, ConsumerTypeOK, ReaderInv, ReleaseInv, LapInv, ConsumerMove
  PROVE  LapInv'
<1>1. /\ published \in Nat /\ tail \in Nat /\ readTail \in Nat /\ Len(pending) \in Nat
      /\ NSlots \in Nat \ {0} /\ queue \in Seq(Items) /\ Len(queue) \in Nat
  BY RingAssumption, LenProperties DEF ProducerInv, ProducerTypeOK, SharedTypeOK, ConsumerTypeOK
<1>2. UNCHANGED << slots, published >>
  BY ConsumerFrame DEF ProducerInv, prodVars
<1>3. \A i \in DOMAIN queue :
        queue[i].kind = "batch" => queue[i].meta \in {queue[i].seq, queue[i].seq - NSlots, NoBatch}
  BY DEF LapInv, HeadersAtMostOneLapOld
<1>4. ASSUME HeadersAtMostOneLapOld' PROVE LapInv'
  BY <1>2, <1>4 DEF LapInv, SlotOf
<1>5. ASSUME NEW item, item.kind = "batch" => item.meta \in {item.seq, item.seq - NSlots, NoBatch},
             item \in Items, queue' = Append(queue, item)
      PROVE  LapInv'
  <2>1. /\ Len(queue') = Len(queue) + 1 /\ DOMAIN queue' = 1 .. Len(queue) + 1
        /\ \A i \in 1 .. Len(queue) : queue'[i] = queue[i]
        /\ queue'[Len(queue) + 1] = item
    BY <1>1, <1>5, AppendProperties, LenProperties
  <2>2. HeadersAtMostOneLapOld'
    BY <1>1, <1>3, <1>5, <2>1, LenProperties DEF HeadersAtMostOneLapOld
  <2> QED
    BY <1>4, <2>2
<1>6. CASE WorkerStep
  <2>1. CASE UNCHANGED queue
    BY <1>3, <1>4, <2>1 DEF HeadersAtMostOneLapOld
  <2>2. CASE queue' = Append(queue, EpochEnd(readTail)) \/ queue' = Append(queue, StopItem(readTail))
    BY <1>1, <1>5, <2>2 DEF EpochEnd, StopItem, Items
  <2>3. CASE wpc = "parse" /\ queue' = Append(queue, Batch(readTail, slots[SlotOf(readTail)].meta))
    <3>1. readTail <= published /\ tail <= readTail
      BY <1>1, <2>3 DEF ReaderInv, ReleaseInv
    <3>2. SlotOf(readTail) \in SlotIndex
      BY <1>1, Remainder DEF SlotOf, SlotIndex
    <3>3. slots[SlotOf(readTail)].meta \in Nat \cup {NoBatch}
      BY <3>2 DEF ProducerInv, SharedTypeOK
    <3>4. slots[SlotOf(readTail)].meta \in {readTail, readTail - NSlots, NoBatch}
      <4>1. CASE readTail = published
        BY <1>1, <4>1 DEF LapInv
      <4>2. CASE readTail < published
        <5>1. HoldsBatch(slots[SlotOf(readTail)], readTail)
          BY <1>1, <3>1, <4>2 DEF ProducerInv, SlotInv, PublishedIntact
        <5> QED
          BY <5>1 DEF HoldsBatch
      <4> QED
        BY <1>1, <3>1, <4>1, <4>2
    <3> QED
      BY <1>1, <1>5, <2>3, <3>3, <3>4 DEF Batch, Items
  <2> QED
    BY <1>6, <2>1, <2>2, <2>3, WorkerMoves
<1>7. CASE UserStep \/ UserChoice \/ CopyCompletes \/ ConsumerKilled
  <2>1. CASE queue' = queue
    BY <1>3, <1>4, <2>1 DEF HeadersAtMostOneLapOld
  <2>2. CASE queue' = << >>
    BY <1>4, <2>2, EmptySeq DEF HeadersAtMostOneLapOld
  <2>3. CASE queue # << >> /\ queue' = Tail(queue)
    <3>1. /\ DOMAIN queue' = 1 .. Len(queue) - 1
          /\ \A i \in 1 .. Len(queue) - 1 : queue'[i] = queue[i + 1]
      BY <1>1, <2>3, HeadTailProperties, LenProperties
    <3>2. \A i \in 1 .. Len(queue) - 1 : i + 1 \in DOMAIN queue
      BY <1>1, LenProperties
    <3>3. HeadersAtMostOneLapOld'
      BY <1>3, <3>1, <3>2 DEF HeadersAtMostOneLapOld
    <3> QED
      BY <1>4, <3>3
  <2> QED
    BY <1>7, <2>1, <2>2, <2>3, UserFrame
<1> QED
  BY <1>6, <1>7 DEF ConsumerMove

-----------------------------------------------------------------------------
(***************************************************************************)
(* The state right after the handshake satisfies the invariant.            *)
(***************************************************************************)
LEMMA InitEstablishesInv ==
  ASSUME Init
  PROVE  Inv
<1> USE DEF Init, SharedInit, ProducerInit, ConsumerInit
<1>1. /\ NSlots \in Nat \ {0} /\ StepsPerEpoch \in Nat /\ PrefetchFactor \in Nat \ {0}
      /\ Nothing \in Items
  BY RingAssumption, ScheduleAssumption, PrefetchAssumption DEF Nothing, StopItem, Items
<1>2. SharedTypeOK
  BY DEF SharedTypeOK, EmptySlot
<1>3. ProducerTypeOK
  BY <1>1 DEF ProducerTypeOK, ProducerPCs
<1>4. ConsumerTypeOK
  BY <1>1, EmptySeq DEF ConsumerTypeOK, WorkerPCs, UserPCs, AfterPCs
<1>5. HeadInv /\ SpaceInv
  BY <1>1 DEF HeadInv, SpaceInv, WritingPCs
<1>6. SlotInv
  BY DEF SlotInv, PublishedIntact, EmptySlot
<1>7. ReaderInv
  BY DEF ReaderInv, FirstLapGated
<1>8. QueueInv
  BY <1>1, EmptySeq DEF QueueInv, QueueHasRoom
<1>9. ReleaseInv
  <2>1. Len(pending) = 0 /\ Len(queue) = 0
    BY EmptySeq
  <2>2. Chain
    BY <2>1 DEF Chain, Links, Out, Mid
  <2> QED
    BY <2>1, <2>2 DEF ReleaseInv, ReleasesMatchTail, Mid
<1>10. LapInv
  <2>1. \A seq \in published .. published + NSlots - 1 : SlotOf(seq) \in SlotIndex
    BY <1>1, Remainder DEF SlotOf, SlotIndex
  <2> QED
    BY <2>1, EmptySeq DEF LapInv, HeadersAtMostOneLapOld, EmptySlot
<1> QED
  BY <1>2, <1>3, <1>4, <1>5, <1>6, <1>7, <1>8, <1>9, <1>10 DEF Inv, TypeOK

(***************************************************************************)
(* Every step keeps the invariant.                                         *)
(***************************************************************************)
LEMMA NextKeepsInv ==
  ASSUME Inv, [Next]_vars
  PROVE  Inv'
<1>1. ProducerInv /\ ConsumerTypeOK /\ ReaderInv /\ LapInv /\ QueueInv /\ ReleaseInv
  BY DEF Inv, TypeOK, ProducerInv
<1>2. CASE ProducerMove \/ ConsumerMove
  <2>1. ProducerInv'
    BY <1>1, <1>2, ProducerKeepsProducerInv, ConsumerKeepsProducerInv
  <2>2. ConsumerTypeOK'
    BY <1>1, <1>2, StepKeepsConsumerTypeOK DEF ReleaseInv
  <2>3. ReaderInv' /\ QueueInv' /\ ReleaseInv'
    BY <1>1, <1>2, StepKeepsReaderInv, StepKeepsQueueInv, StepKeepsReleaseInv
  <2>4. LapInv'
    BY <1>1, <1>2, ProducerKeepsLaps, ConsumerKeepsLaps
  <2> QED
    BY <2>1, <2>2, <2>3, <2>4 DEF Inv, TypeOK, ProducerInv
<1>3. CASE UNCHANGED vars
  <2> USE <1>1, <1>3 DEF vars, shmVars, prodVars, consVars, workerVars, userVars
  <2>1. SharedTypeOK' /\ ProducerTypeOK' /\ ConsumerTypeOK'
    BY DEF ProducerInv, SharedTypeOK, ProducerTypeOK, ConsumerTypeOK
  <2>2. HeadInv' /\ SpaceInv'
    BY DEF ProducerInv, HeadInv, SpaceInv
  <2>3. SlotInv'
    BY DEF ProducerInv, SlotInv, PublishedIntact, HoldsBatch, SlotOf, CurSlot, EmptySlot
  <2>4. ReaderInv' /\ QueueInv'
    BY DEF ReaderInv, FirstLapGated, QueueInv, QueueHasRoom
  <2>5. ReleaseInv'
    BY DEF ReleaseInv, ReleasesMatchTail, SlotOf, Mid, Live, Closing, Chain, Links, Out, Follow
  <2>6. LapInv'
    BY DEF LapInv, HeadersAtMostOneLapOld, SlotOf
  <2> QED
    BY <2>1, <2>2, <2>3, <2>4, <2>5, <2>6 DEF Inv, TypeOK
<1> QED
  BY <1>2, <1>3, NextSplits

(***************************************************************************)
(* The invariant holds in every reachable state, for every number of slots *)
(* and prefetch factor, every schedule and every choice of faults and of   *)
(* the user.                                                               *)
(***************************************************************************)
THEOREM Invariance == Spec => []Inv
<1>1. Init => Inv
  BY InitEstablishesInv
<1>2. Inv /\ [Next]_vars => Inv'
  BY NextKeepsInv
<1> QED
  BY <1>1, <1>2, PTL DEF Spec

(***************************************************************************)
(* The type invariant of the two processes and what they share.            *)
(***************************************************************************)
THEOREM TypeCorrect == Spec => []TypeOK
<1>1. Inv => TypeOK
  BY DEF Inv
<1> QED
  BY <1>1, Invariance, PTL

(***************************************************************************)
(* Once published and until released, a batch is never overwritten: a      *)
(* producer that laps the ring finds no slot that is still in use.         *)
(***************************************************************************)
THEOREM PublishedStaysWhole == Spec => []PublishedIntact
<1>1. Inv => PublishedIntact
  BY DEF Inv, SlotInv
<1> QED
  BY <1>1, Invariance, PTL

(***************************************************************************)
(* On the first lap of the ring is_ready does gate the reader.             *)
(***************************************************************************)
THEOREM FirstLapIsGated == Spec => []FirstLapGated
<1>1. Inv => FirstLapGated
  BY DEF Inv, ReaderInv
<1> QED
  BY <1>1, Invariance, PTL

(***************************************************************************)
(* Headers that are parsed too early are the slot's last, not older.       *)
(***************************************************************************)
THEOREM HeadersAreOfOneLap == Spec => []HeadersAtMostOneLapOld
<1>1. Inv => HeadersAtMostOneLapOld
  BY DEF Inv, LapInv
<1> QED
  BY <1>1, Invariance, PTL

(***************************************************************************)
(* The prefetch worker never blocks in put.                                *)
(***************************************************************************)
THEOREM PutNeverBlocks == Spec => []QueueHasRoom
<1>1. Inv => QueueHasRoom
  BY DEF Inv, QueueInv
<1> QED
  BY <1>1, Invariance, PTL

(***************************************************************************)
(* Counting tail up releases the slots of the release list, in its order.  *)
(***************************************************************************)
THEOREM ReleasesAreCounted == Spec => []ReleasesMatchTail
<1>1. Inv => ReleasesMatchTail
  BY DEF Inv, ReleaseInv
<1> QED
  BY <1>1, Invariance, PTL

(***************************************************************************)
(* A slot on the release list is written for no other batch than its own.  *)
(***************************************************************************)
THEOREM ListedSlotsKeepTheirBatch == Spec => []WritesOwnBatch
<1>1. Inv => WritesOwnBatch
  <2> SUFFICES ASSUME Inv, NEW i \in DOMAIN pending,
                      ppc \in WritingPCs, CurSlot = pending[i].slot
               PROVE  curHead = tail + i - 1
    BY DEF WritesOwnBatch
  <2>1. ProducerInv
    BY DEF Inv, TypeOK, ProducerInv
  <2>2. /\ tail \in Nat /\ published \in Nat /\ readTail \in Nat
        /\ pending \in Seq(Releases) /\ Len(pending) \in Nat
    BY LenProperties DEF Inv, TypeOK, SharedTypeOK, ProducerTypeOK, ConsumerTypeOK, Releases
  <2>3. i \in 1 .. Len(pending)
    BY <2>2, LenProperties
  <2>4. tail + i - 1 <= published
    <3>1. tail + Len(pending) <= published + 1
      BY <2>2 DEF Inv, ReleaseInv, ReaderInv
    <3> QED
      BY <2>2, <2>3, <3>1
  <2>5. CurSlot = SlotOf(tail + i - 1)
    BY DEF Inv, ReleaseInv, ReleasesMatchTail
  <2>6. /\ curHead = published
        /\ \A seq \in tail .. published - 1 : SlotOf(seq) # CurSlot
    BY <2>1, CurSlotIsFree
  <2>7. tail + i - 1 \notin tail .. published - 1
    BY <2>5, <2>6
  <2>8. tail + i - 1 \in Nat /\ tail <= tail + i - 1
    BY <2>2, <2>3
  <2>9. ~(tail + i - 1 <= published - 1)
    BY <2>2, <2>7, <2>8
  <2>10. tail + i - 1 = published
    BY <2>2, <2>4, <2>8, <2>9
  <2> QED
    BY <2>6, <2>10
<1> QED
  BY <1>1, Invariance, PTL

-----------------------------------------------------------------------------
(* Stream implements BatchStream: each step publishes, receives or releases *)
(* the next batch, or is a stutter.                                        *)

(***************************************************************************)
(* A step of the program is a step of the abstract stream or a stutter.    *)
(***************************************************************************)
LEMMA StepIsStreamStep ==
  ASSUME Inv, Inv', [Next]_vars
  PROVE  [Lookahead!Next]_Lookahead!streamVars
<1> USE DEF Lookahead!Next, Lookahead!streamVars
<1>1. /\ tail \in Nat /\ readTail \in Nat /\ published \in Nat /\ NSlots \in Nat
      /\ ProducerInv /\ ConsumerTypeOK
  BY RingAssumption DEF Inv, TypeOK, SharedTypeOK, ProducerTypeOK, ConsumerTypeOK, ProducerInv
<1>2. ASSUME published' = published + 1, UNCHANGED << readTail, tail >>
      PROVE  Lookahead!Publish
  <2>1. published + 1 <= tail + NSlots
    BY <1>2 DEF Inv, SpaceInv
  <2> QED
    BY <1>1, <1>2, <2>1 DEF Lookahead!Publish
<1>3. ASSUME readTail' = readTail + 1, UNCHANGED << published, tail >>
      PROVE  Lookahead!Receive
  <2>1. /\ readTail + 1 <= published + 1
        /\ readTail + 1 <= published \/ published >= NSlots
    BY <1>3 DEF Inv, ReaderInv, FirstLapGated
  <2> QED
    BY <1>1, <1>3, <2>1 DEF Lookahead!Receive
<1>4. ASSUME tail' = tail + 1, UNCHANGED << published, readTail >>
      PROVE  Lookahead!Release
  <2>1. Len(pending') \in Nat
    BY LenProperties DEF Inv, TypeOK, ConsumerTypeOK
  <2>2. tail' + Len(pending') <= readTail
    BY <1>4 DEF Inv, ReleaseInv
  <2>3. tail + 1 <= readTail
    BY <1>1, <1>4, <2>1, <2>2
  <2> QED
    BY <1>1, <1>4, <2>3 DEF Lookahead!Release
<1>5. CASE ProducerMove
  <2>1. UNCHANGED << readTail, tail >> /\ (published' = published \/ published' = published + 1)
    BY <1>1, <1>5, ProducerFrame DEF consVars, workerVars
  <2> QED
    BY <1>2, <2>1
<1>6. CASE ConsumerMove
  <2>1. published' = published
    BY <1>6 DEF ConsumerMove, prodVars
  <2>2. CASE WorkerStep
    <3>1. tail' = tail /\ (readTail' = readTail \/ readTail' = readTail + 1)
      BY <1>1, <2>2, WorkerMoves
    <3> QED
      BY <1>3, <2>1, <3>1
  <2>3. CASE UserStep \/ UserChoice \/ CopyCompletes \/ ConsumerKilled
    <3>1. readTail' = readTail
      BY <2>3, UserFrame
    <3>2. tail' = tail \/ tail' = tail + 1
      BY <1>1, <1>6, ConsumerFrame DEF ProducerInv
    <3> QED
      BY <1>4, <2>1, <3>1, <3>2
  <2> QED
    BY <1>6, <2>2, <2>3 DEF ConsumerMove
<1>7. CASE UNCHANGED vars
  BY <1>7 DEF vars, shmVars, prodVars, consVars, workerVars
<1> QED
  BY <1>5, <1>6, <1>7, NextSplits

(***************************************************************************)
(* Whatever fails and whatever the user does, every batch is received and  *)
(* released once and in order, the publisher is at most nslots ahead of    *)
(* the releases, and the worker at most one batch ahead of the publisher,  *)
(* and not at all before the ring has been filled once.                    *)
(***************************************************************************)
THEOREM ImplementsLookaheadStream == Spec => LookaheadStream
<1>1. Init => Lookahead!Init
  BY DEF Init, SharedInit, ProducerInit, ConsumerInit, Lookahead!Init
<1>2. Inv /\ Inv' /\ [Next]_vars => [Lookahead!Next]_Lookahead!streamVars
  BY StepIsStreamStep
<1>3. LookaheadStream <=> Lookahead!Init /\ [][Lookahead!Next]_Lookahead!streamVars
  BY DEF LookaheadStream, Lookahead!Spec
<1> QED
  BY <1>1, <1>2, <1>3, Invariance, PTL DEF Spec
=============================================================================
