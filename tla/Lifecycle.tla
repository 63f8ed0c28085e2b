------------------------------ MODULE Lifecycle ------------------------------
(***************************************************************************)
(* Producers that are built on the same two names, a shared memory segment *)
(* and a socket, one after the other or at once, and the consumers that    *)
(* connect to them (core/producer/builder.rs, core/producer/mod.rs,        *)
(* ZeroTensorBuffer::new and Drop, connect and close of consumer.py).      *)
(*                                                                         *)
(*   new -> opened -> cleared -> buffered -> binding -> built              *)
(*   built -> listening -> accepted -> reading -> streaming -> built       *)
(*   built -> unlinking -> closing -> ended                                *)
(*                                                                         *)
(* A segment is named after the producer whose shm_open made it, a socket  *)
(* file after the producer that bound it.  What is streamed is the subject *)
(* of Stream; here a stream begins and ends.  Producers are numbered in    *)
(* the order in which their builds begin, consumers in that in which they  *)
(* connect.                                                                *)
(***************************************************************************)
EXTENDS Naturals, Sequences

CONSTANTS
  Producers, Consumers, Processes,
  None,        \* no producer, consumer or process
  Given        \* what producers may be built with

Options == [process : Processes, overwrite : BOOLEAN, valid : BOOLEAN]

ASSUME LifecycleAssumption ==
  /\ Producers \subseteq Nat
  /\ Consumers \subseteq Nat
  /\ None \notin Nat
  /\ Given \subseteq [Producers -> Options]

VARIABLES
  options,   \* per producer: its process, overwrite_socket, and whether its sizes are valid
  pc,        \* per producer
  running,   \* per producer: the flag of its Ctrl-C handler
  asked,     \* history: the producers that were there when Ctrl-C came to their process
  handler,   \* per process: the producer whose flag its Ctrl-C handler clears
  shm,       \* the segment that has the name
  sock,      \* the producer whose socket has the name
  mapped,    \* per producer: the segment it has mapped
  segments,  \* per segment: its control block
  backlog,   \* per producer: the consumers its listener has not accepted
  client,    \* per producer: the consumer it serves
  cpc,       \* per consumer
  server,    \* per consumer: the producer it has reached
  view,      \* per consumer: the segment it has mapped
  recycled,  \* history: a producer was built on a segment that had the name
  late       \* history: consumers that opened the name after their producer had let go of it

names     == << shm, sock >>
memory    == << mapped, segments >>
sockets   == << backlog, client >>
consumers == << cpc, server, view >>
history   == << recycled, late >>
vars == << options, pc, running, asked, handler, names, memory, sockets, consumers, history >>

\* What is left of a control block that is cleared: its is_running is 0.
NoBlock == [by |-> None, up |-> FALSE, stopper |-> "none"]

Block(p) == [by |-> p, up |-> TRUE, stopper |-> "none"]

\* is_running is cleared; history: by whom first.
Stopped(segment, who) ==
  IF segment.up THEN [segment EXCEPT !.up = FALSE, !.stopper = who] ELSE segment

StoppedBy(segment, c) ==
  Stopped(segment, IF server[c] = segment.by THEN "own" ELSE IF c \in late THEN "late" ELSE "other")

LifecycleInit ==
  /\ options \in Given
  /\ pc = [p \in Producers |-> "new"]
  /\ running = [p \in Producers |-> TRUE]
  /\ asked = {}
  /\ handler = [o \in Processes |-> None]
  /\ shm = None
  /\ sock = None
  /\ mapped = [p \in Producers |-> None]
  /\ segments = [s \in Producers |-> NoBlock]
  /\ backlog = [p \in Producers |-> << >>]
  /\ client = [p \in Producers |-> None]
  /\ cpc = [c \in Consumers |-> "off"]
  /\ server = [c \in Consumers |-> None]
  /\ view = [c \in Consumers |-> None]
  /\ recycled = FALSE
  /\ late = {}

Goto(p, from, to) == pc[p] = from /\ pc' = [pc EXCEPT ![p] = to]

-----------------------------------------------------------------------------
(* build: the calls of the system that others can come between.            *)

\* A second handler in one process is refused, and the error is ignored;
\* shm_open is with O_CREAT, without O_EXCL.
OpenShm(p) ==
  /\ Goto(p, "new", "opened")
  /\ \A other \in Producers : other < p => pc[other] # "new"
  /\ LET o == options[p].process
     IN  handler' = IF handler[o] = None THEN [handler EXCEPT ![o] = p] ELSE handler
  /\ shm' = IF shm = None THEN p ELSE shm
  /\ mapped' = [mapped EXCEPT ![p] = shm']
  /\ recycled' = (recycled \/ shm # None)
  /\ UNCHANGED << options, running, asked, sock, segments, sockets, consumers, late >>

\* ftruncate, mmap, or the control block that takes no segment without slots:
\* the segment keeps its name.
BufferFails(p) ==
  /\ \/ Goto(p, "opened", "failed")
     \/ ~options[p].valid /\ Goto(p, "cleared", "failed")
  /\ UNCHANGED << options, running, asked, handler, names, memory, sockets, consumers, history >>

Clear(p) ==
  /\ Goto(p, "opened", "cleared")
  /\ segments' = [segments EXCEPT ![mapped[p]] = NoBlock]
  /\ UNCHANGED << options, running, asked, handler, names, mapped, sockets, consumers, history >>

WriteControl(p) ==
  /\ options[p].valid
  /\ Goto(p, "cleared", "buffered")
  /\ segments' = [segments EXCEPT ![mapped[p]] = Block(p)]
  /\ UNCHANGED << options, running, asked, handler, names, mapped, sockets, consumers, history >>

CheckSocket(p) ==
  /\ Goto(p, "buffered", IF sock = None THEN "binding" ELSE IF options[p].overwrite THEN "removing" ELSE "unwinding")
  /\ UNCHANGED << options, running, asked, handler, names, memory, sockets, consumers, history >>

\* remove_file fails when another was faster.
RemoveSocket(p) ==
  /\ Goto(p, "removing", IF sock = None THEN "unwinding" ELSE "binding")
  /\ sock' = None
  /\ UNCHANGED << options, running, asked, handler, shm, memory, sockets, consumers, history >>

Bind(p) ==
  /\ Goto(p, "binding", IF sock = None THEN "built" ELSE "unwinding")
  /\ sock' = IF sock = None THEN p ELSE sock
  /\ UNCHANGED << options, running, asked, handler, shm, memory, sockets, consumers, history >>

\* The buffer of a build that failed is dropped.
Unwind(p) ==
  /\ Goto(p, "unwinding", "ended")
  /\ shm' = None
  /\ UNCHANGED << options, running, asked, handler, sock, memory, sockets, consumers, history >>

-----------------------------------------------------------------------------
(* start_streaming: it returns with the connection closed.                 *)

\* Mutant: the connection stays open.
ReturnConnected(p) ==
  /\ pc' = [pc EXCEPT ![p] = "built"]
  /\ client' = client

Return(p) ==
  /\ pc' = [pc EXCEPT ![p] = "built"]
  /\ client' = [client EXCEPT ![p] = None]

Call(p) ==
  /\ Goto(p, "built", "listening")
  /\ UNCHANGED << options, running, asked, handler, names, memory, sockets, consumers, history >>

Accept(p) ==
  /\ Goto(p, "listening", "accepted")
  /\ running[p]
  /\ backlog[p] # << >>
  /\ client' = [client EXCEPT ![p] = Head(backlog[p])]
  /\ backlog' = [backlog EXCEPT ![p] = Tail(backlog[p])]
  /\ UNCHANGED << options, running, asked, handler, names, memory, consumers, history >>

\* Mutant: Ctrl-C is looked at when a consumer has come.
InterruptedByConsumer(p) ==
  /\ pc[p] = "listening"
  /\ ~running[p]
  /\ backlog[p] # << >>
  /\ Return(p)
  /\ UNCHANGED << options, running, asked, handler, names, memory, backlog, consumers, history >>

AcceptInterrupted(p) ==
  /\ pc[p] = "listening"
  /\ ~running[p]
  /\ Return(p)
  /\ UNCHANGED << options, running, asked, handler, names, memory, backlog, consumers, history >>

\* next_command looks at Ctrl-C before it reads, not while it does.
ReadCommand(p) ==
  /\ Goto(p, "accepted", "reading")
  /\ running[p]
  /\ UNCHANGED << options, running, asked, handler, names, memory, sockets, consumers, history >>

\* The dataset is empty or fails; or Ctrl-C.
NothingToRead(p) ==
  /\ pc[p] = "accepted"
  /\ Return(p)
  /\ UNCHANGED << options, running, asked, handler, names, memory, backlog, consumers, history >>

\* START, and the handshake.
Greet(p) ==
  /\ Goto(p, "reading", "streaming")
  /\ cpc[client[p]] = "waiting"
  /\ cpc' = [cpc EXCEPT ![client[p]] = "greeted"]
  /\ UNCHANGED << options, running, asked, handler, names, memory, sockets, server, view, history >>

Left(c) == cpc[c] = "closed"

\* Mutant: the end of the connection is no command, and read again.
ReadsOn(p) ==
  /\ pc[p] = "reading"
  /\ Left(client[p])
  /\ ~running[p]
  /\ Return(p)
  /\ UNCHANGED << options, running, asked, handler, names, memory, backlog, consumers, history >>

\* The consumer left before START, or before the handshake.
NobodyToGreet(p) ==
  /\ pc[p] = "reading"
  /\ Left(client[p])
  /\ Return(p)
  /\ UNCHANGED << options, running, asked, handler, names, memory, backlog, consumers, history >>

StreamInterrupted(p) ==
  /\ pc[p] = "streaming"
  /\ ~running[p]
  /\ segments' = [segments EXCEPT ![mapped[p]] = Stopped(segments[mapped[p]], "own")]
  /\ Return(p)
  /\ UNCHANGED << options, running, asked, handler, names, mapped, backlog, consumers, history >>

\* is_running is 0, or the consumer is gone.
StreamStops(p) ==
  /\ pc[p] = "streaming"
  /\ ~segments[mapped[p]].up \/ Left(client[p])
  /\ Return(p)
  /\ UNCHANGED << options, running, asked, handler, names, memory, backlog, consumers, history >>

\* max_steps, or an error of the dataset.
StreamOver(p) ==
  /\ pc[p] = "streaming"
  /\ Return(p)
  /\ UNCHANGED << options, running, asked, handler, names, memory, backlog, consumers, history >>

-----------------------------------------------------------------------------
(* drop: the producer's own, then its buffer's, then its listener's.       *)

DropSocket(p) ==
  /\ Goto(p, "built", "unlinking")
  /\ sock' = None
  /\ UNCHANGED << options, running, asked, handler, shm, memory, sockets, consumers, history >>

\* Mutant: the buffer does not own its segment.
NoUnlink(p) ==
  /\ Goto(p, "unlinking", "closing")
  /\ UNCHANGED << options, running, asked, handler, names, memory, sockets, consumers, history >>

Unlink(p) ==
  /\ Goto(p, "unlinking", "closing")
  /\ shm' = None
  /\ UNCHANGED << options, running, asked, handler, sock, memory, sockets, consumers, history >>

CloseListener(p) ==
  /\ Goto(p, "closing", "ended")
  /\ backlog' = [backlog EXCEPT ![p] = << >>]
  /\ UNCHANGED << options, running, asked, handler, names, memory, client, consumers, history >>

-----------------------------------------------------------------------------
(* The consumers.                                                          *)

Listening == {"built", "listening", "accepted", "reading", "streaming", "unlinking", "closing"}

Connect(c) ==
  /\ cpc[c] = "off"
  /\ \A other \in Consumers : other < c => cpc[other] # "off"
  /\ sock # None
  /\ pc[sock] \in Listening
  /\ cpc' = [cpc EXCEPT ![c] = "connected"]
  /\ server' = [server EXCEPT ![c] = sock]
  /\ backlog' = [backlog EXCEPT ![sock] = Append(backlog[sock], c)]
  /\ UNCHANGED << options, pc, running, asked, handler, names, memory, client, view, history >>

HasConnection(c) ==
  client[server[c]] = c \/ \E k \in DOMAIN backlog[server[c]] : backlog[server[c]][k] = c

Gone(c) ==
  /\ cpc' = [cpc EXCEPT ![c] = "closed"]
  /\ server' = [server EXCEPT ![c] = None]
  /\ view' = [view EXCEPT ![c] = None]
  /\ late' = late \ {c}

SayStart(c) ==
  /\ cpc[c] = "connected"
  /\ HasConnection(c)
  /\ cpc' = [cpc EXCEPT ![c] = "waiting"]
  /\ UNCHANGED << options, pc, running, asked, handler, names, memory, sockets, server, view, history >>

\* The send fails, or recv returns nothing: connect fails and closes.
NoHandshake(c) ==
  /\ cpc[c] \in {"connected", "waiting"}
  /\ ~HasConnection(c)
  /\ Gone(c)
  /\ UNCHANGED << options, pc, running, asked, handler, names, memory, sockets, recycled >>

\* open(/dev/shm/name), and the control block is read.
OpenName(c) ==
  /\ cpc[c] = "greeted"
  /\ shm # None
  /\ cpc' = [cpc EXCEPT ![c] = "attached"]
  /\ view' = [view EXCEPT ![c] = shm]
  /\ late' = IF pc[server[c]] \in {"closing", "ended", "killed"} THEN late \union {c} ELSE late
  /\ UNCHANGED << options, pc, running, asked, handler, names, memory, sockets, server, recycled >>

NoName(c) ==
  /\ cpc[c] = "greeted"
  /\ shm = None
  /\ Gone(c)
  /\ UNCHANGED << options, pc, running, asked, handler, names, memory, sockets, recycled >>

\* Mutant: the memory is found by its name.
CloseByName(c) ==
  /\ cpc[c] = "attached"
  /\ shm # None
  /\ segments' = [segments EXCEPT ![shm] = StoppedBy(segments[shm], c)]
  /\ Gone(c)
  /\ UNCHANGED << options, pc, running, asked, handler, names, mapped, sockets, recycled >>

\* close: _store_is_running, and the socket.
Close(c) ==
  /\ cpc[c] = "attached"
  /\ segments' = [segments EXCEPT ![view[c]] = StoppedBy(segments[view[c]], c)]
  /\ Gone(c)
  /\ UNCHANGED << options, pc, running, asked, handler, names, mapped, sockets, recycled >>

-----------------------------------------------------------------------------
(* The system.                                                             *)

Final == {"ended", "failed", "killed"}

\* The one flag of the process's handler is cleared, whoever reads it still.
CtrlC(o) ==
  /\ handler[o] # None
  /\ running' = [running EXCEPT ![handler[o]] = FALSE]
  /\ asked' = asked \union { p \in Producers : options[p].process = o /\ pc[p] \notin Final \union {"new"} }
  /\ UNCHANGED << options, pc, handler, names, memory, sockets, consumers, history >>

\* A process ends without a word, or by the SIGBUS of a segment that another
\* build has made shorter; it may be begun again, with producers that are new.
Kill(o) ==
  LET dead == { p \in Producers : options[p].process = o /\ pc[p] \notin Final \union {"new"} }
  IN  /\ dead # {}
      /\ pc' = [p \in Producers |-> IF p \in dead THEN "killed" ELSE pc[p]]
      /\ client' = [p \in Producers |-> IF p \in dead THEN None ELSE client[p]]
      /\ backlog' = [p \in Producers |-> IF p \in dead THEN << >> ELSE backlog[p]]
      /\ handler' = [handler EXCEPT ![o] = None]
      /\ UNCHANGED << options, running, asked, names, memory, consumers, history >>

KillConsumer(c) ==
  /\ cpc[c] \notin {"off", "closed"}
  /\ Gone(c)
  /\ UNCHANGED << options, pc, running, asked, handler, names, memory, sockets, recycled >>

BuildStep(p) ==
  \/ OpenShm(p) \/ Clear(p) \/ BufferFails(p) \/ WriteControl(p)
  \/ CheckSocket(p) \/ RemoveSocket(p) \/ Bind(p) \/ Unwind(p)

StreamStep(p) ==
  \/ Call(p) \/ Accept(p) \/ AcceptInterrupted(p) \/ ReadCommand(p) \/ NothingToRead(p)
  \/ Greet(p) \/ NobodyToGreet(p) \/ StreamInterrupted(p) \/ StreamStops(p)

DropStep(p) == DropSocket(p) \/ Unlink(p) \/ CloseListener(p)

ProducerStep(p) == BuildStep(p) \/ StreamStep(p) \/ DropStep(p)

ConsumerStep(c) == NoHandshake(c) \/ OpenName(c) \/ NoName(c)

LifecycleNext ==
  \/ \E p \in Producers : ProducerStep(p) \/ StreamOver(p)
  \/ \E c \in Consumers : Connect(c) \/ SayStart(c) \/ ConsumerStep(c) \/ Close(c) \/ KillConsumer(c)
  \/ \E o \in Processes : CtrlC(o) \/ Kill(o)

LifecycleSpec == LifecycleInit /\ [][LifecycleNext]_vars

\* The user's program goes on with its producer and does not call
\* start_streaming for ever; a consumer that has asked goes on until it is
\* attached.  No stream has to end, and who has connected need not say START.
Going ==
  /\ \A p \in Producers : WF_vars(ProducerStep(p)) /\ SF_vars(DropSocket(p))
  /\ \A c \in Consumers : WF_vars(ConsumerStep(c))

LifecycleFairSpec == LifecycleSpec /\ Going

-----------------------------------------------------------------------------
(* Properties.                                                             *)

ProducerPCs ==
  {"new", "opened", "cleared", "buffered", "removing", "binding", "unwinding"} \union Listening \union Final

ConsumerPCs == {"off", "connected", "waiting", "greeted", "attached", "closed"}

Stoppers == {"none", "own", "late", "other"}

Blocks == [by : Producers \union {None}, up : BOOLEAN, stopper : Stoppers]

Serving == {"accepted", "reading", "streaming"}

(***************************************************************************)
(* Types: a producer has a connection exactly while it serves one, and a   *)
(* consumer that a producer serves or has not accepted is its own          *)
(* (core/producer/mod.rs:374-410).                                         *)
(***************************************************************************)
LifecycleTypeOK ==
  /\ options \in Given
  /\ pc \in [Producers -> ProducerPCs]
  /\ running \in [Producers -> BOOLEAN]
  /\ asked \subseteq Producers
  /\ handler \in [Processes -> Producers \union {None}]
  /\ shm \in Producers \union {None}
  /\ sock \in Producers \union {None}
  /\ mapped \in [Producers -> Producers \union {None}]
  /\ segments \in [Producers -> Blocks]
  /\ backlog \in [Producers -> Seq(Consumers)]
  /\ client \in [Producers -> Consumers \union {None}]
  /\ cpc \in [Consumers -> ConsumerPCs]
  /\ server \in [Consumers -> Producers \union {None}]
  /\ view \in [Consumers -> Producers \union {None}]
  /\ recycled \in BOOLEAN
  /\ late \subseteq Consumers
  /\ \A p \in Producers : client[p] # None <=> pc[p] \in Serving
  /\ \A p \in Producers : client[p] # None => server[client[p]] = p \/ Left(client[p])

(***************************************************************************)
(* README.md:115: sockets and segments are tied to the lives of producers. *)
(* Whoever is built over, undone or dropped by whom in which order, a name *)
(* in the file system belongs to a producer that is still to be dropped,   *)
(* or has been killed, or has failed in ZeroTensorBuffer::new, which       *)
(* leaves its segment behind (core/buffer/mod.rs:147-156).                 *)
(***************************************************************************)
NamesHaveOwners ==
  /\ sock # None => pc[sock] \in (Listening \ {"unlinking", "closing"}) \union {"killed"}
  /\ shm # None => pc[shm] \notin {"new", "closing", "ended"}

(***************************************************************************)
(* A stream is stopped through its control block by Ctrl-C or by the       *)
(* consumer it serves, not by one that a producer before it on the same    *)
(* names has served, as that one's segment has lost its name.  Not so when *)
(* a segment is opened again, of a producer that lives or was killed; nor  *)
(* for a consumer that is greeted and opens the name when its producer has *)
(* ended and the next is there (builder.rs:138, consumer.py:148, 213).     *)
(***************************************************************************)
StoppedByItsOwn ==
  ~recycled => \A s \in Producers : segments[s].stopper # "other"

\* The producer reads from a consumer that has connected and says nothing.
ReadsSilence(p) == pc[p] = "reading" /\ cpc[client[p]] = "connected"

(***************************************************************************)
(* A consumer waits for its handshake for ever only while the producer it  *)
(* has connected to serves another for ever, one that it streams to or one *)
(* that has not said START: whatever other consumers do, and whether the   *)
(* producer ends or is killed (mod.rs:88-119, 374-410,                     *)
(* consumer.py:140-145).                                                   *)
(***************************************************************************)
WaitsOnlyForOther ==
  \A c \in Consumers :
    <>[](cpc[c] = "waiting") =>
      <>[](/\ server[c] # None
           /\ client[server[c]] # c
           /\ pc[server[c]] = "streaming" \/ ReadsSilence(server[c]))

(***************************************************************************)
(* Ctrl-C is lost on a producer in two cases only, and in every other one  *)
(* it ends, wherever it was in its life: the handler of its process clears *)
(* the flag of another producer (builder.rs:134), or it is in read_line,   *)
(* which waits without a timeout for a consumer that does not say START    *)
(* and does not leave (mod.rs:95-99, 265, 386).                            *)
(* README.md:115, 319 promises more: that names are unlinked on SIGINT.    *)
(***************************************************************************)
CtrlCLostOnlyTwoWays ==
  \A p \in Producers :
    <>[](p \in asked /\ pc[p] \notin Final) =>
      <>[](handler[options[p].process] # p \/ ReadsSilence(p))

-----------------------------------------------------------------------------
(* The inductive invariant.                                                *)

\* From shm_open to shm_unlink.
Held == ProducerPCs \ ({"new", "closing"} \union Final)

HeldMapped == \A p \in Producers : pc[p] \in Held => mapped[p] # None

ConsumersLinked ==
  /\ \A p \in Producers : \A k \in DOMAIN backlog[p] : server[backlog[p][k]] = p \/ Left(backlog[p][k])
  /\ \A c \in Consumers : server[c] # None <=> cpc[c] \notin {"off", "closed"}
  /\ \A c \in Consumers : server[c] # None => pc[server[c]] \in Listening \union {"ended", "killed"}
  /\ \A c \in Consumers : view[c] # None <=> cpc[c] = "attached"

SegmentsApart ==
  /\ \A p \in Producers : pc[p] \in Held => shm = p /\ mapped[p] = p
  /\ \A s \in Producers : segments[s].up => segments[s].by = s
  /\ \A c \in Consumers : cpc[c] = "attached" /\ c \notin late => view[c] = server[c]

(***************************************************************************)
(* What keeps a consumer from stopping the next producer: a build finds no *)
(* name only when no producer holds its segment, so until a segment is     *)
(* opened again each producer has its own, which has the name while the    *)
(* producer is there; and a consumer that opens the name in time opens the *)
(* segment of the producer it has reached (builder.rs:138, mod.rs:413).    *)
(***************************************************************************)
LifecycleInv ==
  /\ LifecycleTypeOK
  /\ NamesHaveOwners
  /\ HeldMapped
  /\ ConsumersLinked
  /\ ~recycled => SegmentsApart
  /\ StoppedByItsOwn
=============================================================================
