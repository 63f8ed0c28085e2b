------------------------------ MODULE Consumer ------------------------------
(***************************************************************************)
(* ZeroTensorConsumer of zero_tensor_py/consumer.py, from the moment       *)
(* connect() has started the prefetch thread.  Two threads:                *)
(*                                                                         *)
(*   the prefetch worker   throttle -> poll -> head -> ready -> parse ->   *)
(*                         throttle ... done, with select -> recv on the   *)
(*                         way when there is nothing to read               *)
(*   the user's thread     idle -> check -> take -> hold -> drain -> ...   *)
(*                         (take -> empty when the queue is)               *)
(*                         and close(): join -> drain -> stop -> unmap ->  *)
(*                         closed                                          *)
(*                                                                         *)
(* The tensors handed out are views of the slot: the worker reads only the *)
(* headers, the user reads the items while the batch is held, and the GPU  *)
(* copies them until the copy's event completes.                           *)
(***************************************************************************)
EXTENDS SharedMemory, Sequences

CONSTANTS
  PrefetchFactor,  \* prefetch_factor
  UserActs         \* which of "copy", "break", "close", "kill" the user does

ASSUME PrefetchAssumption ==
  /\ PrefetchFactor \in Nat \ {0}
  /\ UserActs \subseteq {"copy", "break", "close", "kill"}

VARIABLES
  wpc,          \* where the prefetch worker is
  readTail,     \* the worker's read_tail
  queue,        \* _prefetch_queue
  excSet,       \* _prefetch_exc is not None
  prefetching,  \* _running
  ipc,          \* where the user's thread is
  cur,          \* the item taken from the queue and not yet given back
  pending,      \* _pending_releases: slot, and whether a copy is in flight
  forceTo,      \* force_up_to of the _drain_releases call in progress
  after         \* where the user's thread goes when that call returns

workerVars == << wpc, readTail, excSet >>
userVars == << prefetching, ipc, cur, pending, forceTo, after >>
consVars == << workerVars, queue, userVars >>

WorkerPCs ==
  {"throttle", "poll", "head", "select", "recv", "ready", "readySelect", "parse", "done"}

AfterPCs == {"check", "append", "idle", "raised", "stop"}

UserPCs == {"take", "empty", "hold", "drain", "join", "unmap", "closed"} \cup AfterPCs

(***************************************************************************)
(* Queue items.  "end" and "stop" are both None in the code; seq records   *)
(* how many batches the worker had read when it put them.                  *)
(***************************************************************************)
Batch(seq, meta) == [kind |-> "batch", seq |-> seq, meta |-> meta]
EpochEnd(seq) == [kind |-> "end", seq |-> seq, meta |-> NoBatch]
StopItem(seq) == [kind |-> "stop", seq |-> seq, meta |-> NoBatch]

Items == [kind : {"batch", "end", "stop"}, seq : Nat, meta : Nat \cup {NoBatch}]

\* cur when no batch is out.
Nothing == StopItem(0)

\* queue.Queue(maxsize = prefetch_factor + 1).put, which blocks when full.
Put(item) ==
  /\ Len(queue) < PrefetchFactor + 1
  /\ queue' = Append(queue, item)

ConsumerInit ==
  /\ wpc = "throttle"
  /\ readTail = tail
  /\ queue = << >>
  /\ excSet = FALSE
  /\ prefetching = TRUE
  /\ ipc = "idle"
  /\ cur = Nothing
  /\ pending = << >>
  /\ forceTo = 0
  /\ after = "idle"

-----------------------------------------------------------------------------
(***************************************************************************)
(* The prefetch worker.                                                    *)
(***************************************************************************)
Unmapped == ipc = "closed"

\* Fault: the exception is swallowed and only None is put.
WorkerEndsSilently(raised) ==
  /\ wpc' = "done"
  /\ Put(StopItem(readTail))
  /\ UNCHANGED << readTail, excSet, userVars, shmVars >>

\* The worker ends: None is put, with _prefetch_exc set first if it raised.
WorkerEnds(raised) ==
  /\ wpc' = "done"
  /\ excSet' = (excSet \/ raised)
  /\ Put(StopItem(readTail))
  /\ UNCHANGED << readTail, userVars, shmVars >>

\* Fault: the throttle lets one item too many through.
ThrottleOffByOne ==
  /\ wpc = "throttle"
  /\ prefetching
  /\ Len(queue) <= PrefetchFactor
  /\ wpc' = "poll"
  /\ UNCHANGED << readTail, excSet, queue, userVars, shmVars >>

Throttle ==
  /\ wpc = "throttle"
  /\ prefetching
  /\ Len(queue) < PrefetchFactor
  /\ wpc' = "poll"
  /\ UNCHANGED << readTail, excSet, queue, userVars, shmVars >>

\* The while condition, or the break after the throttle loop.
ThrottleStops ==
  /\ wpc = "throttle"
  /\ ~prefetching
  /\ wpc' = "done"
  /\ UNCHANGED << readTail, excSet, queue, userVars, shmVars >>

PollRunning ==
  /\ wpc = "poll"
  /\ ~Unmapped
  /\ isRunning
  /\ wpc' = "head"
  /\ UNCHANGED << readTail, excSet, queue, userVars, shmVars >>

PollStopped ==
  /\ wpc = "poll"
  /\ ~Unmapped
  /\ ~isRunning
  /\ WorkerEnds(FALSE)

PollHead ==
  /\ wpc = "head"
  /\ ~Unmapped
  /\ wpc' = IF head > readTail THEN "ready" ELSE "select"
  /\ UNCHANGED << readTail, excSet, queue, userVars, shmVars >>

(***************************************************************************)
(* select() on the socket, from the head loop ("select") or the is_ready   *)
(* loop ("readySelect"), for at most 1 ms.                                 *)
(***************************************************************************)
Selecting == wpc \in {"select", "readySelect"} /\ ~Unmapped

SelectTimeout ==
  /\ Selecting
  /\ ~Readable
  /\ wpc' = IF wpc = "select" THEN "poll" ELSE "ready"
  /\ UNCHANGED << readTail, excSet, queue, userVars, shmVars >>

SelectReadable ==
  /\ Selecting
  /\ Readable
  /\ isRunning
  /\ wpc' = "recv"
  /\ UNCHANGED << readTail, excSet, queue, userVars, shmVars >>

SelectStopped ==
  /\ Selecting
  /\ Readable
  /\ ~isRunning
  /\ WorkerEnds(FALSE)

\* recv(1024) takes every EPOCH_DONE there is; one None goes to the queue.
RecvEpochDone ==
  /\ wpc = "recv"
  /\ ~Unmapped
  /\ socket.epochMsgs > 0
  /\ RecvAll
  /\ Put(EpochEnd(readTail))
  /\ wpc' = "throttle"
  /\ UNCHANGED << readTail, excSet, userVars, head, tail, isRunning, slots >>

\* Fault: an empty chunk is taken for nothing received.
RecvIgnoresEof ==
  /\ wpc = "recv"
  /\ ~Unmapped
  /\ socket.epochMsgs = 0
  /\ wpc' = "poll"
  /\ UNCHANGED << readTail, excSet, queue, userVars, shmVars >>

\* recv returned nothing: end of file.
RecvDisconnected ==
  /\ wpc = "recv"
  /\ ~Unmapped
  /\ socket.epochMsgs = 0
  /\ WorkerEnds(TRUE)

\* Fault: head alone decides, is_ready is not waited for.
CheckReadySkipped ==
  /\ wpc = "ready"
  /\ ~Unmapped
  /\ wpc' = "parse"
  /\ UNCHANGED << readTail, excSet, queue, userVars, shmVars >>

CheckReady ==
  /\ wpc = "ready"
  /\ ~Unmapped
  /\ wpc' = IF slots[SlotOf(readTail)].ready THEN "parse" ELSE "readySelect"
  /\ UNCHANGED << readTail, excSet, queue, userVars, shmVars >>

\* _parse_slot reads the headers and makes views; no item is copied.
ParseSlot ==
  /\ wpc = "parse"
  /\ ~Unmapped
  /\ Put(Batch(readTail, slots[SlotOf(readTail)].meta))
  /\ readTail' = readTail + 1
  /\ wpc' = "throttle"
  /\ UNCHANGED << excSet, userVars, shmVars >>

\* A worker that outlived close(): its views and socket are gone.
WorkerUnmapped ==
  /\ Unmapped
  /\ wpc \notin {"throttle", "done"}
  /\ WorkerEnds(TRUE)

WorkerStep ==
  \/ Throttle \/ ThrottleStops \/ PollRunning \/ PollStopped \/ PollHead
  \/ SelectTimeout \/ SelectReadable \/ SelectStopped
  \/ RecvEpochDone \/ RecvDisconnected
  \/ CheckReady \/ ParseSlot \/ WorkerUnmapped

-----------------------------------------------------------------------------
(***************************************************************************)
(* The user's thread.  _drain_releases is a loop of tail stores, one step  *)
(* each; it is entered with the force bound and the place to return to.    *)
(***************************************************************************)
StartDrain(force, next) ==
  /\ ipc' = "drain"
  /\ forceTo' = force
  /\ after' = next

DrainAll(next) == StartDrain(tail + Len(pending), next)

OldestCopying == pending # << >> /\ Head(pending).copying

\* Fault: the newest release is popped instead of the oldest.
ReleaseNewest ==
  /\ ipc = "drain"
  /\ pending # << >>
  /\ ~OldestCopying
  /\ pending' = SubSeq(pending, 1, Len(pending) - 1)
  /\ tail' = tail + 1
  /\ UNCHANGED << ipc, cur, forceTo, after, prefetching, queue, workerVars, head, isRunning, slots, socket >>

\* Fault: the release is forgotten before tail is stored.
ReleaseWithoutStore ==
  /\ ipc = "drain"
  /\ pending # << >>
  /\ ~OldestCopying
  /\ pending' = Tail(pending)
  /\ UNCHANGED << ipc, cur, forceTo, after, prefetching, queue, workerVars, shmVars >>

\* pop the oldest release and store tail; it has no copy in flight.
Release ==
  /\ ipc = "drain"
  /\ pending # << >>
  /\ ~OldestCopying
  /\ pending' = Tail(pending)
  /\ tail' = tail + 1
  /\ UNCHANGED << ipc, cur, forceTo, after, prefetching, queue, workerVars, head, isRunning, slots, socket >>

\* Nothing left, or the oldest is still copying and need not be awaited.
DrainReturns ==
  /\ ipc = "drain"
  /\ \/ pending = << >>
     \/ OldestCopying /\ tail >= forceTo
  /\ ipc' = after
  /\ UNCHANGED << cur, pending, forceTo, after, prefetching, queue, workerVars, shmVars >>

\* `for batch in consumer`
StartIteration ==
  /\ ipc = "idle"
  /\ ipc' = "check"
  /\ UNCHANGED << cur, pending, forceTo, after, prefetching, queue, workerVars, shmVars >>

\* The exception is looked at before the queue is.
CheckException ==
  /\ ipc = "check"
  /\ IF excSet
       THEN DrainAll("raised")
       ELSE ipc' = "take" /\ UNCHANGED << forceTo, after >>
  /\ UNCHANGED << cur, pending, prefetching, queue, workerVars, shmVars >>

TakeNone ==
  /\ ipc = "take"
  /\ queue # << >>
  /\ Head(queue).kind # "batch"
  /\ queue' = Tail(queue)
  /\ DrainAll(IF excSet THEN "raised" ELSE "idle")
  /\ UNCHANGED << cur, pending, prefetching, workerVars, shmVars >>

HoldBatch(item) ==
  /\ ipc' = "hold"
  /\ pending' = Append(pending, [slot |-> SlotOf(item.seq), copying |-> FALSE])

\* Held at once, or after releases forced by a batch a whole ring ahead.
TakeBatch ==
  /\ ipc = "take"
  /\ queue # << >>
  /\ Head(queue).kind = "batch"
  /\ queue' = Tail(queue)
  /\ cur' = Head(queue)
  /\ IF Head(queue).seq - tail >= NSlots
       THEN StartDrain(Head(queue).seq - NSlots + 1, "append") /\ UNCHANGED pending
       ELSE HoldBatch(Head(queue)) /\ UNCHANGED << forceTo, after >>
  /\ UNCHANGED << prefetching, workerVars, shmVars >>

AppendAfterDrain ==
  /\ ipc = "append"
  /\ HoldBatch(cur)
  /\ UNCHANGED << cur, forceTo, after, prefetching, queue, workerVars, shmVars >>

\* queue.Empty after 0.1 s; only then is the worker looked at.
TakeTimeout ==
  /\ ipc = "take"
  /\ queue = << >>
  /\ ipc' = "empty"
  /\ UNCHANGED << cur, pending, forceTo, after, prefetching, queue, workerVars, shmVars >>

CheckWorker ==
  /\ ipc = "empty"
  /\ IF wpc = "done"
       THEN DrainAll("idle")
       ELSE ipc' = "check" /\ UNCHANGED << forceTo, after >>
  /\ UNCHANGED << cur, pending, prefetching, queue, workerVars, shmVars >>

\* to_device(non_blocking = True): copies of one slot are chained, so the
\* last recorded event stands for all of them.
StartCopy ==
  /\ ipc = "hold"
  /\ "copy" \in UserActs
  /\ pending' = [pending EXCEPT ![Len(pending)].copying = TRUE]
  /\ UNCHANGED << ipc, cur, forceTo, after, prefetching, queue, workerVars, shmVars >>

\* Fault: releases are left to the end of the iteration.
NextBatchKeeps ==
  /\ ipc = "hold"
  /\ cur' = Nothing
  /\ ipc' = "check"
  /\ UNCHANGED << pending, forceTo, after, prefetching, queue, workerVars, shmVars >>

\* The loop body ends: whatever has completed is released.
NextBatch ==
  /\ ipc = "hold"
  /\ cur' = Nothing
  /\ StartDrain(tail, "check")
  /\ UNCHANGED << pending, prefetching, queue, workerVars, shmVars >>

\* `break`: the generator is closed and every release is awaited.
BreakLoop ==
  /\ ipc = "hold"
  /\ "break" \in UserActs
  /\ cur' = Nothing
  /\ DrainAll("idle")
  /\ UNCHANGED << pending, prefetching, queue, workerVars, shmVars >>

-----------------------------------------------------------------------------
(***************************************************************************)
(* close(), from inside or outside an iteration.                           *)
(***************************************************************************)
CloseBegins ==
  /\ ipc \in {"idle", "hold", "raised"}
  /\ "close" \in UserActs
  /\ prefetching' = FALSE
  /\ queue' = << >>
  /\ cur' = Nothing
  /\ ipc' = "join"
  /\ UNCHANGED << pending, forceTo, after, workerVars, shmVars >>

\* join(timeout = 2.0) returns, with the worker ended or not.
JoinReturns ==
  /\ ipc = "join"
  /\ DrainAll("stop")
  /\ UNCHANGED << cur, pending, prefetching, queue, workerVars, shmVars >>

StoreStopped ==
  /\ ipc = "stop"
  /\ isRunning' = FALSE
  /\ ipc' = "unmap"
  /\ UNCHANGED << cur, pending, forceTo, after, prefetching, queue, workerVars, head, tail, slots, socket >>

Unmap ==
  /\ ipc = "unmap"
  /\ CloseConsumerEnd
  /\ ipc' = "closed"
  /\ UNCHANGED << cur, pending, forceTo, after, prefetching, queue, workerVars, head, tail, isRunning, slots >>

\* What the user's thread does whenever it is scheduled.
UserStep ==
  \/ Release \/ DrainReturns \/ StartIteration \/ CheckException
  \/ TakeNone \/ TakeBatch \/ AppendAfterDrain \/ TakeTimeout \/ CheckWorker
  \/ NextBatch
  \/ JoinReturns \/ StoreStopped \/ Unmap

\* What the user may choose to do.
UserChoice == StartCopy \/ BreakLoop \/ CloseBegins

CopyCompletes ==
  /\ \E i \in DOMAIN pending :
       /\ pending[i].copying
       /\ pending' = [pending EXCEPT ![i].copying = FALSE]
  /\ UNCHANGED << ipc, cur, forceTo, after, prefetching, queue, workerVars, shmVars >>

ConsumerKilled ==
  /\ "kill" \in UserActs
  /\ ipc # "closed"
  /\ ipc' = "closed"
  /\ wpc' = "done"
  /\ CloseConsumerEnd
  /\ UNCHANGED << readTail, excSet, queue, prefetching, cur, pending, forceTo, after,
                  head, tail, isRunning, slots >>

ConsumerTypeOK ==
  /\ wpc \in WorkerPCs
  /\ readTail \in Nat
  /\ queue \in Seq(Items)
  /\ excSet \in BOOLEAN
  /\ prefetching \in BOOLEAN
  /\ ipc \in UserPCs
  /\ cur \in Items
  /\ pending \in Seq([slot : SlotIndex, copying : BOOLEAN])
  /\ forceTo \in Nat
  /\ after \in AfterPCs
=============================================================================
