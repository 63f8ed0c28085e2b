-------------------------- MODULE LifecycleProofs --------------------------
(***************************************************************************)
(* Proofs that LifecycleInv holds in every reachable state of Lifecycle,   *)
(* for any number of producers, consumers and processes.  Each part of it  *)
(* has a lemma with one step per action.                                   *)
(***************************************************************************)
EXTENDS Lifecycle, TLAPS

\* A control block has its type whoever writes it or stops it.
LEMMA BlocksTyped ==
  /\ NoBlock \in Blocks
  /\ \A p \in Producers : Block(p) \in Blocks
  /\ \A b \in Blocks, who \in Stoppers : Stopped(b, who) \in Blocks
  /\ \A b \in Blocks, c \in Consumers : StoppedBy(b, c) \in Blocks
<1>1. /\ NoBlock \in Blocks
      /\ \A p \in Producers : Block(p) \in Blocks
  BY DEF NoBlock, Block, Blocks, Stoppers
<1>2. \A b \in Blocks, who \in Stoppers : Stopped(b, who) \in Blocks
  BY DEF Stopped, Blocks
<1>3. \A b \in Blocks, c \in Consumers : StoppedBy(b, c) \in Blocks
  BY <1>2 DEF StoppedBy, Stoppers
<1> QED
  BY <1>1, <1>2, <1>3

\* No step leaves a name to a producer that is gone: who lets go of its own has
\* taken the name away, whoever had it.
LEMMA OwnersStep ==
  ASSUME LifecycleInv, [LifecycleNext]_vars
  PROVE  NamesHaveOwners'
<1> USE LifecycleAssumption DEF LifecycleInv, LifecycleTypeOK, Listening, Final, NamesHaveOwners
<1>1. ASSUME NEW p \in Producers, OpenShm(p)
      PROVE  NamesHaveOwners'
  BY <1>1 DEF OpenShm, Goto, names, memory, sockets, consumers, history
<1>2. ASSUME NEW p \in Producers, BufferFails(p)
      PROVE  NamesHaveOwners'
  BY <1>2 DEF BufferFails, Goto, names, memory, sockets, consumers, history
<1>3. ASSUME NEW p \in Producers, Clear(p)
      PROVE  NamesHaveOwners'
  BY <1>3 DEF Clear, Goto, NoBlock, names, memory, sockets, consumers, history
<1>4. ASSUME NEW p \in Producers, WriteControl(p)
      PROVE  NamesHaveOwners'
  BY <1>4 DEF WriteControl, Goto, Block, names, memory, sockets, consumers, history
<1>5. ASSUME NEW p \in Producers, CheckSocket(p)
      PROVE  NamesHaveOwners'
  BY <1>5 DEF CheckSocket, Goto, names, memory, sockets, consumers, history
<1>6. ASSUME NEW p \in Producers, RemoveSocket(p)
      PROVE  NamesHaveOwners'
  BY <1>6 DEF RemoveSocket, Goto, names, memory, sockets, consumers, history
<1>7. ASSUME NEW p \in Producers, Bind(p)
      PROVE  NamesHaveOwners'
  BY <1>7 DEF Bind, Goto, names, memory, sockets, consumers, history
<1>8. ASSUME NEW p \in Producers, Unwind(p)
      PROVE  NamesHaveOwners'
  BY <1>8 DEF Unwind, Goto, names, memory, sockets, consumers, history
<1>9. ASSUME NEW p \in Producers, Call(p)
      PROVE  NamesHaveOwners'
  BY <1>9 DEF Call, Goto, names, memory, sockets, consumers, history
<1>10. ASSUME NEW p \in Producers, Accept(p)
      PROVE  NamesHaveOwners'
  BY <1>10 DEF Accept, Goto, names, memory, sockets, consumers, history
<1>11. ASSUME NEW p \in Producers, AcceptInterrupted(p)
      PROVE  NamesHaveOwners'
  BY <1>11 DEF AcceptInterrupted, Return, names, memory, sockets, consumers, history
<1>12. ASSUME NEW p \in Producers, ReadCommand(p)
      PROVE  NamesHaveOwners'
  BY <1>12 DEF ReadCommand, Goto, names, memory, sockets, consumers, history
<1>13. ASSUME NEW p \in Producers, NothingToRead(p)
      PROVE  NamesHaveOwners'
  BY <1>13 DEF NothingToRead, Return, names, memory, sockets, consumers, history
<1>14. ASSUME NEW p \in Producers, Greet(p)
      PROVE  NamesHaveOwners'
  BY <1>14 DEF Greet, Goto, names, memory, sockets, consumers, history
<1>15. ASSUME NEW p \in Producers, NobodyToGreet(p)
      PROVE  NamesHaveOwners'
  BY <1>15 DEF NobodyToGreet, Return, names, memory, sockets, consumers, history
<1>16. ASSUME NEW p \in Producers, StreamInterrupted(p)
      PROVE  NamesHaveOwners'
  BY <1>16 DEF StreamInterrupted, Return, Stopped, names, memory, sockets, consumers, history
<1>17. ASSUME NEW p \in Producers, StreamStops(p)
      PROVE  NamesHaveOwners'
  BY <1>17 DEF StreamStops, Return, names, memory, sockets, consumers, history
<1>18. ASSUME NEW p \in Producers, StreamOver(p)
      PROVE  NamesHaveOwners'
  BY <1>18 DEF StreamOver, Return, names, memory, sockets, consumers, history
<1>19. ASSUME NEW p \in Producers, DropSocket(p)
      PROVE  NamesHaveOwners'
  BY <1>19 DEF DropSocket, Goto, names, memory, sockets, consumers, history
<1>20. ASSUME NEW p \in Producers, Unlink(p)
      PROVE  NamesHaveOwners'
  BY <1>20, SMTT(40) DEF Unlink, Goto, names, memory, sockets, consumers, history
<1>21. ASSUME NEW p \in Producers, CloseListener(p)
      PROVE  NamesHaveOwners'
  BY <1>21 DEF CloseListener, Goto, names, memory, sockets, consumers, history
<1>22. ASSUME NEW c \in Consumers, Connect(c)
      PROVE  NamesHaveOwners'
  BY <1>22 DEF Connect, names, memory, sockets, consumers, history
<1>23. ASSUME NEW c \in Consumers, SayStart(c)
      PROVE  NamesHaveOwners'
  BY <1>23 DEF SayStart, names, memory, sockets, consumers, history
<1>24. ASSUME NEW c \in Consumers, NoHandshake(c)
      PROVE  NamesHaveOwners'
  BY <1>24 DEF NoHandshake, Gone, names, memory, sockets, consumers, history
<1>25. ASSUME NEW c \in Consumers, OpenName(c)
      PROVE  NamesHaveOwners'
  BY <1>25 DEF OpenName, names, memory, sockets, consumers, history
<1>26. ASSUME NEW c \in Consumers, NoName(c)
      PROVE  NamesHaveOwners'
  BY <1>26 DEF NoName, Gone, names, memory, sockets, consumers, history
<1>27. ASSUME NEW c \in Consumers, Close(c)
      PROVE  NamesHaveOwners'
  BY <1>27 DEF Close, Gone, StoppedBy, Stopped, names, memory, sockets, consumers, history
<1>28. ASSUME NEW c \in Consumers, KillConsumer(c)
      PROVE  NamesHaveOwners'
  BY <1>28 DEF KillConsumer, Gone, names, memory, sockets, consumers, history
<1>29. ASSUME NEW o \in Processes, CtrlC(o)
      PROVE  NamesHaveOwners'
  BY <1>29 DEF CtrlC, names, memory, sockets, consumers, history
<1>30. ASSUME NEW o \in Processes, Kill(o)
      PROVE  NamesHaveOwners'
  BY <1>30 DEF Kill, names, memory, sockets, consumers, history
<1>31. CASE UNCHANGED vars
  BY <1>31 DEF names, memory, sockets, consumers, history, vars
<1> QED
  BY <1>1, <1>2, <1>3, <1>4, <1>5, <1>6, <1>7, <1>8, <1>9, <1>10, <1>11, <1>12, <1>13, <1>14, <1>15, <1>16, <1>17, <1>18, <1>19, <1>20, <1>21, <1>22, <1>23, <1>24, <1>25, <1>26, <1>27, <1>28, <1>29, <1>30, <1>31 DEF LifecycleNext, ProducerStep, BuildStep, StreamStep, DropStep, ConsumerStep

\* A producer that has opened its segment keeps its mapping.
LEMMA MappedStep ==
  ASSUME LifecycleInv, [LifecycleNext]_vars
  PROVE  HeldMapped'
<1> USE LifecycleAssumption DEF LifecycleInv, LifecycleTypeOK, Listening, Final, HeldMapped, Held, ProducerPCs
<1>1. ASSUME NEW p \in Producers, OpenShm(p)
      PROVE  HeldMapped'
  BY <1>1 DEF OpenShm, Goto, names, memory, sockets, consumers, history
<1>2. ASSUME NEW p \in Producers, BufferFails(p)
      PROVE  HeldMapped'
  BY <1>2 DEF BufferFails, Goto, names, memory, sockets, consumers, history
<1>3. ASSUME NEW p \in Producers, Clear(p)
      PROVE  HeldMapped'
  BY <1>3 DEF Clear, Goto, NoBlock, names, memory, sockets, consumers, history
<1>4. ASSUME NEW p \in Producers, WriteControl(p)
      PROVE  HeldMapped'
  BY <1>4 DEF WriteControl, Goto, Block, names, memory, sockets, consumers, history
<1>5. ASSUME NEW p \in Producers, CheckSocket(p)
      PROVE  HeldMapped'
  BY <1>5 DEF CheckSocket, Goto, names, memory, sockets, consumers, history
<1>6. ASSUME NEW p \in Producers, RemoveSocket(p)
      PROVE  HeldMapped'
  BY <1>6 DEF RemoveSocket, Goto, names, memory, sockets, consumers, history
<1>7. ASSUME NEW p \in Producers, Bind(p)
      PROVE  HeldMapped'
  BY <1>7 DEF Bind, Goto, names, memory, sockets, consumers, history
<1>8. ASSUME NEW p \in Producers, Unwind(p)
      PROVE  HeldMapped'
  BY <1>8 DEF Unwind, Goto, names, memory, sockets, consumers, history
<1>9. ASSUME NEW p \in Producers, Call(p)
      PROVE  HeldMapped'
  BY <1>9 DEF Call, Goto, names, memory, sockets, consumers, history
<1>10. ASSUME NEW p \in Producers, Accept(p)
      PROVE  HeldMapped'
  BY <1>10 DEF Accept, Goto, names, memory, sockets, consumers, history
<1>11. ASSUME NEW p \in Producers, AcceptInterrupted(p)
      PROVE  HeldMapped'
  BY <1>11 DEF AcceptInterrupted, Return, names, memory, sockets, consumers, history
<1>12. ASSUME NEW p \in Producers, ReadCommand(p)
      PROVE  HeldMapped'
  BY <1>12 DEF ReadCommand, Goto, names, memory, sockets, consumers, history
<1>13. ASSUME NEW p \in Producers, NothingToRead(p)
      PROVE  HeldMapped'
  BY <1>13 DEF NothingToRead, Return, names, memory, sockets, consumers, history
<1>14. ASSUME NEW p \in Producers, Greet(p)
      PROVE  HeldMapped'
  BY <1>14 DEF Greet, Goto, names, memory, sockets, consumers, history
<1>15. ASSUME NEW p \in Producers, NobodyToGreet(p)
      PROVE  HeldMapped'
  BY <1>15 DEF NobodyToGreet, Return, names, memory, sockets, consumers, history
<1>16. ASSUME NEW p \in Producers, StreamInterrupted(p)
      PROVE  HeldMapped'
  BY <1>16 DEF StreamInterrupted, Return, Stopped, names, memory, sockets, consumers, history
<1>17. ASSUME NEW p \in Producers, StreamStops(p)
      PROVE  HeldMapped'
  BY <1>17 DEF StreamStops, Return, names, memory, sockets, consumers, history
<1>18. ASSUME NEW p \in Producers, StreamOver(p)
      PROVE  HeldMapped'
  BY <1>18 DEF StreamOver, Return, names, memory, sockets, consumers, history
<1>19. ASSUME NEW p \in Producers, DropSocket(p)
      PROVE  HeldMapped'
  BY <1>19 DEF DropSocket, Goto, names, memory, sockets, consumers, history
<1>20. ASSUME NEW p \in Producers, Unlink(p)
      PROVE  HeldMapped'
  BY <1>20, SMTT(40) DEF Unlink, Goto, names, memory, sockets, consumers, history
<1>21. ASSUME NEW p \in Producers, CloseListener(p)
      PROVE  HeldMapped'
  BY <1>21 DEF CloseListener, Goto, names, memory, sockets, consumers, history
<1>22. ASSUME NEW c \in Consumers, Connect(c)
      PROVE  HeldMapped'
  BY <1>22 DEF Connect, names, memory, sockets, consumers, history
<1>23. ASSUME NEW c \in Consumers, SayStart(c)
      PROVE  HeldMapped'
  BY <1>23 DEF SayStart, names, memory, sockets, consumers, history
<1>24. ASSUME NEW c \in Consumers, NoHandshake(c)
      PROVE  HeldMapped'
  BY <1>24 DEF NoHandshake, Gone, names, memory, sockets, consumers, history
<1>25. ASSUME NEW c \in Consumers, OpenName(c)
      PROVE  HeldMapped'
  BY <1>25 DEF OpenName, names, memory, sockets, consumers, history
<1>26. ASSUME NEW c \in Consumers, NoName(c)
      PROVE  HeldMapped'
  BY <1>26 DEF NoName, Gone, names, memory, sockets, consumers, history
<1>27. ASSUME NEW c \in Consumers, Close(c)
      PROVE  HeldMapped'
  BY <1>27 DEF Close, Gone, StoppedBy, Stopped, names, memory, sockets, consumers, history
<1>28. ASSUME NEW c \in Consumers, KillConsumer(c)
      PROVE  HeldMapped'
  BY <1>28 DEF KillConsumer, Gone, names, memory, sockets, consumers, history
<1>29. ASSUME NEW o \in Processes, CtrlC(o)
      PROVE  HeldMapped'
  BY <1>29 DEF CtrlC, names, memory, sockets, consumers, history
<1>30. ASSUME NEW o \in Processes, Kill(o)
      PROVE  HeldMapped'
  BY <1>30 DEF Kill, names, memory, sockets, consumers, history
<1>31. CASE UNCHANGED vars
  BY <1>31 DEF names, memory, sockets, consumers, history, vars
<1> QED
  BY <1>1, <1>2, <1>3, <1>4, <1>5, <1>6, <1>7, <1>8, <1>9, <1>10, <1>11, <1>12, <1>13, <1>14, <1>15, <1>16, <1>17, <1>18, <1>19, <1>20, <1>21, <1>22, <1>23, <1>24, <1>25, <1>26, <1>27, <1>28, <1>29, <1>30, <1>31 DEF LifecycleNext, ProducerStep, BuildStep, StreamStep, DropStep, ConsumerStep

\* A connection is one of the producer the consumer has reached, and only
\* attached consumers have a view.
LEMMA LinkedStep ==
  ASSUME LifecycleInv, [LifecycleNext]_vars
  PROVE  ConsumersLinked'
<1> USE LifecycleAssumption DEF LifecycleInv, LifecycleTypeOK, Listening, Final, ConsumersLinked, Left, ConsumerPCs, ProducerPCs, HasConnection, Serving
<1>1. ASSUME NEW p \in Producers, OpenShm(p)
      PROVE  ConsumersLinked'
  BY <1>1 DEF OpenShm, Goto, names, memory, sockets, consumers, history
<1>2. ASSUME NEW p \in Producers, BufferFails(p)
      PROVE  ConsumersLinked'
  <2>1. /\ pc[p] \notin Listening \union {"ended", "killed"}
        /\ \A x \in Producers \ {p} : pc'[x] = pc[x]
        /\ UNCHANGED << cpc, server, view, backlog >>
    BY <1>2 DEF BufferFails, Goto, names, memory, sockets, consumers, history
  <2>2. \A c \in Consumers : server[c] # p
    BY <2>1
  <2>3. ASSUME NEW c \in Consumers, server'[c] # None
        PROVE  pc'[server'[c]] \in Listening \union {"ended", "killed"}
    <3>1. server[c] \in Producers \ {p} /\ server'[c] = server[c]
      BY <2>1, <2>2, <2>3
    <3>2. pc'[server[c]] = pc[server[c]]
      BY <2>1, <3>1
    <3>3. server[c] # None
      BY <2>3, <3>1
    <3>4. pc[server[c]] \in Listening \union {"ended", "killed"}
      BY <3>3
    <3> QED
      BY <3>1, <3>2, <3>4
  <2> QED
    BY <2>1, <2>3
<1>3. ASSUME NEW p \in Producers, Clear(p)
      PROVE  ConsumersLinked'
  BY <1>3 DEF Clear, Goto, NoBlock, names, memory, sockets, consumers, history
<1>4. ASSUME NEW p \in Producers, WriteControl(p)
      PROVE  ConsumersLinked'
  BY <1>4 DEF WriteControl, Goto, Block, names, memory, sockets, consumers, history
<1>5. ASSUME NEW p \in Producers, CheckSocket(p)
      PROVE  ConsumersLinked'
  BY <1>5 DEF CheckSocket, Goto, names, memory, sockets, consumers, history
<1>6. ASSUME NEW p \in Producers, RemoveSocket(p)
      PROVE  ConsumersLinked'
  BY <1>6 DEF RemoveSocket, Goto, names, memory, sockets, consumers, history
<1>7. ASSUME NEW p \in Producers, Bind(p)
      PROVE  ConsumersLinked'
  BY <1>7 DEF Bind, Goto, names, memory, sockets, consumers, history
<1>8. ASSUME NEW p \in Producers, Unwind(p)
      PROVE  ConsumersLinked'
  BY <1>8 DEF Unwind, Goto, names, memory, sockets, consumers, history
<1>9. ASSUME NEW p \in Producers, Call(p)
      PROVE  ConsumersLinked'
  BY <1>9 DEF Call, Goto, names, memory, sockets, consumers, history
<1>10. ASSUME NEW p \in Producers, Accept(p)
      PROVE  ConsumersLinked'
  BY <1>10 DEF Accept, Goto, names, memory, sockets, consumers, history
<1>11. ASSUME NEW p \in Producers, AcceptInterrupted(p)
      PROVE  ConsumersLinked'
  BY <1>11 DEF AcceptInterrupted, Return, names, memory, sockets, consumers, history
<1>12. ASSUME NEW p \in Producers, ReadCommand(p)
      PROVE  ConsumersLinked'
  BY <1>12 DEF ReadCommand, Goto, names, memory, sockets, consumers, history
<1>13. ASSUME NEW p \in Producers, NothingToRead(p)
      PROVE  ConsumersLinked'
  BY <1>13 DEF NothingToRead, Return, names, memory, sockets, consumers, history
<1>14. ASSUME NEW p \in Producers, Greet(p)
      PROVE  ConsumersLinked'
  BY <1>14 DEF Greet, Goto, names, memory, sockets, consumers, history
<1>15. ASSUME NEW p \in Producers, NobodyToGreet(p)
      PROVE  ConsumersLinked'
  BY <1>15 DEF NobodyToGreet, Return, names, memory, sockets, consumers, history
<1>16. ASSUME NEW p \in Producers, StreamInterrupted(p)
      PROVE  ConsumersLinked'
  BY <1>16 DEF StreamInterrupted, Return, Stopped, names, memory, sockets, consumers, history
<1>17. ASSUME NEW p \in Producers, StreamStops(p)
      PROVE  ConsumersLinked'
  BY <1>17 DEF StreamStops, Return, names, memory, sockets, consumers, history
<1>18. ASSUME NEW p \in Producers, StreamOver(p)
      PROVE  ConsumersLinked'
  BY <1>18 DEF StreamOver, Return, names, memory, sockets, consumers, history
<1>19. ASSUME NEW p \in Producers, DropSocket(p)
      PROVE  ConsumersLinked'
  BY <1>19 DEF DropSocket, Goto, names, memory, sockets, consumers, history
<1>20. ASSUME NEW p \in Producers, Unlink(p)
      PROVE  ConsumersLinked'
  BY <1>20, SMTT(40) DEF Unlink, Goto, names, memory, sockets, consumers, history
<1>21. ASSUME NEW p \in Producers, CloseListener(p)
      PROVE  ConsumersLinked'
  BY <1>21 DEF CloseListener, Goto, names, memory, sockets, consumers, history
<1>22. ASSUME NEW c \in Consumers, Connect(c)
      PROVE  ConsumersLinked'
  BY <1>22, SMTT(30) DEF Connect, names, memory, sockets, consumers, history
<1>23. ASSUME NEW c \in Consumers, SayStart(c)
      PROVE  ConsumersLinked'
  BY <1>23 DEF SayStart, names, memory, sockets, consumers, history
<1>24. ASSUME NEW c \in Consumers, NoHandshake(c)
      PROVE  ConsumersLinked'
  BY <1>24 DEF NoHandshake, Gone, names, memory, sockets, consumers, history
<1>25. ASSUME NEW c \in Consumers, OpenName(c)
      PROVE  ConsumersLinked'
  BY <1>25 DEF OpenName, names, memory, sockets, consumers, history
<1>26. ASSUME NEW c \in Consumers, NoName(c)
      PROVE  ConsumersLinked'
  BY <1>26 DEF NoName, Gone, names, memory, sockets, consumers, history
<1>27. ASSUME NEW c \in Consumers, Close(c)
      PROVE  ConsumersLinked'
  BY <1>27 DEF Close, Gone, StoppedBy, Stopped, names, memory, sockets, consumers, history
<1>28. ASSUME NEW c \in Consumers, KillConsumer(c)
      PROVE  ConsumersLinked'
  BY <1>28 DEF KillConsumer, Gone, names, memory, sockets, consumers, history
<1>29. ASSUME NEW o \in Processes, CtrlC(o)
      PROVE  ConsumersLinked'
  BY <1>29 DEF CtrlC, names, memory, sockets, consumers, history
<1>30. ASSUME NEW o \in Processes, Kill(o)
      PROVE  ConsumersLinked'
  BY <1>30 DEF Kill, names, memory, sockets, consumers, history
<1>31. CASE UNCHANGED vars
  BY <1>31 DEF names, memory, sockets, consumers, history, vars
<1> QED
  BY <1>1, <1>2, <1>3, <1>4, <1>5, <1>6, <1>7, <1>8, <1>9, <1>10, <1>11, <1>12, <1>13, <1>14, <1>15, <1>16, <1>17, <1>18, <1>19, <1>20, <1>21, <1>22, <1>23, <1>24, <1>25, <1>26, <1>27, <1>28, <1>29, <1>30, <1>31 DEF LifecycleNext, ProducerStep, BuildStep, StreamStep, DropStep, ConsumerStep

\* Until a segment is opened again, each producer holds its own, and only one
\* at a time has the name.
LEMMA ApartStep ==
  ASSUME LifecycleInv, [LifecycleNext]_vars
  PROVE  (~recycled => SegmentsApart)'
<1> USE LifecycleAssumption DEF LifecycleInv, LifecycleTypeOK, Listening, Final, NamesHaveOwners, HeldMapped, ConsumersLinked, SegmentsApart, Held, ProducerPCs
<1>1. ASSUME NEW p \in Producers, OpenShm(p)
      PROVE  (~recycled => SegmentsApart)'
  <2> SUFFICES ASSUME ~recycled'
               PROVE  SegmentsApart'
    OBVIOUS
  <2>1. /\ ~recycled /\ shm = None /\ shm' = p
        /\ pc' = [pc EXCEPT ![p] = "opened"]
        /\ mapped' = [mapped EXCEPT ![p] = p]
        /\ UNCHANGED << segments, cpc, server, view, late >>
    BY <1>1 DEF OpenShm, Goto, names, memory, sockets, consumers, history
  <2>2. \A x \in Producers : pc[x] \notin Held
    BY <2>1
  <2>3. \A x \in Producers : pc'[x] \in Held => shm' = x /\ mapped'[x] = x
    BY <2>1, <2>2
  <2> QED
    BY <2>1, <2>3
<1>2. ASSUME NEW p \in Producers, BufferFails(p)
      PROVE  (~recycled => SegmentsApart)'
  BY <1>2 DEF BufferFails, Goto, names, memory, sockets, consumers, history
<1>3. ASSUME NEW p \in Producers, Clear(p)
      PROVE  (~recycled => SegmentsApart)'
  BY <1>3 DEF Clear, Goto, NoBlock, names, memory, sockets, consumers, history
<1>4. ASSUME NEW p \in Producers, WriteControl(p)
      PROVE  (~recycled => SegmentsApart)'
  BY <1>4 DEF WriteControl, Goto, Block, names, memory, sockets, consumers, history
<1>5. ASSUME NEW p \in Producers, CheckSocket(p)
      PROVE  (~recycled => SegmentsApart)'
  BY <1>5 DEF CheckSocket, Goto, names, memory, sockets, consumers, history
<1>6. ASSUME NEW p \in Producers, RemoveSocket(p)
      PROVE  (~recycled => SegmentsApart)'
  BY <1>6 DEF RemoveSocket, Goto, names, memory, sockets, consumers, history
<1>7. ASSUME NEW p \in Producers, Bind(p)
      PROVE  (~recycled => SegmentsApart)'
  BY <1>7 DEF Bind, Goto, names, memory, sockets, consumers, history
<1>8. ASSUME NEW p \in Producers, Unwind(p)
      PROVE  (~recycled => SegmentsApart)'
  BY <1>8 DEF Unwind, Goto, names, memory, sockets, consumers, history
<1>9. ASSUME NEW p \in Producers, Call(p)
      PROVE  (~recycled => SegmentsApart)'
  BY <1>9 DEF Call, Goto, names, memory, sockets, consumers, history
<1>10. ASSUME NEW p \in Producers, Accept(p)
      PROVE  (~recycled => SegmentsApart)'
  BY <1>10 DEF Accept, Goto, names, memory, sockets, consumers, history
<1>11. ASSUME NEW p \in Producers, AcceptInterrupted(p)
      PROVE  (~recycled => SegmentsApart)'
  BY <1>11 DEF AcceptInterrupted, Return, names, memory, sockets, consumers, history
<1>12. ASSUME NEW p \in Producers, ReadCommand(p)
      PROVE  (~recycled => SegmentsApart)'
  BY <1>12 DEF ReadCommand, Goto, names, memory, sockets, consumers, history
<1>13. ASSUME NEW p \in Producers, NothingToRead(p)
      PROVE  (~recycled => SegmentsApart)'
  BY <1>13 DEF NothingToRead, Return, names, memory, sockets, consumers, history
<1>14. ASSUME NEW p \in Producers, Greet(p)
      PROVE  (~recycled => SegmentsApart)'
  BY <1>14 DEF Greet, Goto, names, memory, sockets, consumers, history
<1>15. ASSUME NEW p \in Producers, NobodyToGreet(p)
      PROVE  (~recycled => SegmentsApart)'
  BY <1>15 DEF NobodyToGreet, Return, names, memory, sockets, consumers, history
<1>16. ASSUME NEW p \in Producers, StreamInterrupted(p)
      PROVE  (~recycled => SegmentsApart)'
  BY <1>16 DEF StreamInterrupted, Return, Stopped, names, memory, sockets, consumers, history
<1>17. ASSUME NEW p \in Producers, StreamStops(p)
      PROVE  (~recycled => SegmentsApart)'
  BY <1>17 DEF StreamStops, Return, names, memory, sockets, consumers, history
<1>18. ASSUME NEW p \in Producers, StreamOver(p)
      PROVE  (~recycled => SegmentsApart)'
  BY <1>18 DEF StreamOver, Return, names, memory, sockets, consumers, history
<1>19. ASSUME NEW p \in Producers, DropSocket(p)
      PROVE  (~recycled => SegmentsApart)'
  BY <1>19 DEF DropSocket, Goto, names, memory, sockets, consumers, history
<1>20. ASSUME NEW p \in Producers, Unlink(p)
      PROVE  (~recycled => SegmentsApart)'
  BY <1>20, SMTT(40) DEF Unlink, Goto, names, memory, sockets, consumers, history
<1>21. ASSUME NEW p \in Producers, CloseListener(p)
      PROVE  (~recycled => SegmentsApart)'
  BY <1>21 DEF CloseListener, Goto, names, memory, sockets, consumers, history
<1>22. ASSUME NEW c \in Consumers, Connect(c)
      PROVE  (~recycled => SegmentsApart)'
  BY <1>22 DEF Connect, names, memory, sockets, consumers, history
<1>23. ASSUME NEW c \in Consumers, SayStart(c)
      PROVE  (~recycled => SegmentsApart)'
  BY <1>23 DEF SayStart, names, memory, sockets, consumers, history
<1>24. ASSUME NEW c \in Consumers, NoHandshake(c)
      PROVE  (~recycled => SegmentsApart)'
  BY <1>24 DEF NoHandshake, Gone, names, memory, sockets, consumers, history
<1>25. ASSUME NEW c \in Consumers, OpenName(c)
      PROVE  (~recycled => SegmentsApart)'
  <2> SUFFICES ASSUME ~recycled'
               PROVE  SegmentsApart'
    OBVIOUS
  <2>1. /\ cpc[c] = "greeted" /\ ~recycled
        /\ cpc' = [cpc EXCEPT ![c] = "attached"]
        /\ view' = [view EXCEPT ![c] = shm]
        /\ UNCHANGED << pc, shm, mapped, segments, server >>
    BY <1>25, SMTT(40) DEF OpenName, names, memory, sockets, consumers, history
  <2>2. /\ late' = late \/ late' = late \union {c}
        /\ c \notin late' => pc[server[c]] \notin {"closing", "ended", "killed"}
    BY <1>25 DEF OpenName
  <2>3. server[c] \in Producers /\ pc[server[c]] \in Listening \union {"ended", "killed"}
    BY <2>1
  <2>4. c \notin late' => view'[c] = server'[c]
    <3>1. c \notin late' => pc[server[c]] \in Held
      BY <2>2, <2>3
    <3>2. pc[server[c]] \in Held => shm = server[c]
      <4> HIDE DEF Held
      <4> QED
        BY <2>1, <2>3
    <3>3. view'[c] = shm /\ server'[c] = server[c]
      BY <2>1
    <3> QED
      BY <3>1, <3>2, <3>3
  <2> QED
    BY <2>1, <2>2, <2>4
<1>26. ASSUME NEW c \in Consumers, NoName(c)
      PROVE  (~recycled => SegmentsApart)'
  BY <1>26 DEF NoName, Gone, names, memory, sockets, consumers, history
<1>27. ASSUME NEW c \in Consumers, Close(c)
      PROVE  (~recycled => SegmentsApart)'
  BY <1>27 DEF Close, Gone, StoppedBy, Stopped, names, memory, sockets, consumers, history
<1>28. ASSUME NEW c \in Consumers, KillConsumer(c)
      PROVE  (~recycled => SegmentsApart)'
  BY <1>28 DEF KillConsumer, Gone, names, memory, sockets, consumers, history
<1>29. ASSUME NEW o \in Processes, CtrlC(o)
      PROVE  (~recycled => SegmentsApart)'
  BY <1>29 DEF CtrlC, names, memory, sockets, consumers, history
<1>30. ASSUME NEW o \in Processes, Kill(o)
      PROVE  (~recycled => SegmentsApart)'
  BY <1>30 DEF Kill, names, memory, sockets, consumers, history
<1>31. CASE UNCHANGED vars
  BY <1>31 DEF names, memory, sockets, consumers, history, vars
<1> QED
  BY <1>1, <1>2, <1>3, <1>4, <1>5, <1>6, <1>7, <1>8, <1>9, <1>10, <1>11, <1>12, <1>13, <1>14, <1>15, <1>16, <1>17, <1>18, <1>19, <1>20, <1>21, <1>22, <1>23, <1>24, <1>25, <1>26, <1>27, <1>28, <1>29, <1>30, <1>31 DEF LifecycleNext, ProducerStep, BuildStep, StreamStep, DropStep, ConsumerStep

\* So the consumer that stops a segment is its producer's, or late.
LEMMA StoppedStep ==
  ASSUME LifecycleInv, [LifecycleNext]_vars
  PROVE  StoppedByItsOwn'
<1> USE LifecycleAssumption DEF LifecycleInv, LifecycleTypeOK, Listening, Final, ConsumersLinked, SegmentsApart, StoppedByItsOwn, Held, ProducerPCs
<1>1. ASSUME NEW p \in Producers, OpenShm(p)
      PROVE  StoppedByItsOwn'
  BY <1>1 DEF OpenShm, Goto, names, memory, sockets, consumers, history
<1>2. ASSUME NEW p \in Producers, BufferFails(p)
      PROVE  StoppedByItsOwn'
  BY <1>2 DEF BufferFails, Goto, names, memory, sockets, consumers, history
<1>3. ASSUME NEW p \in Producers, Clear(p)
      PROVE  StoppedByItsOwn'
  BY <1>3 DEF Clear, Goto, NoBlock, names, memory, sockets, consumers, history
<1>4. ASSUME NEW p \in Producers, WriteControl(p)
      PROVE  StoppedByItsOwn'
  BY <1>4 DEF WriteControl, Goto, Block, names, memory, sockets, consumers, history
<1>5. ASSUME NEW p \in Producers, CheckSocket(p)
      PROVE  StoppedByItsOwn'
  BY <1>5 DEF CheckSocket, Goto, names, memory, sockets, consumers, history
<1>6. ASSUME NEW p \in Producers, RemoveSocket(p)
      PROVE  StoppedByItsOwn'
  BY <1>6 DEF RemoveSocket, Goto, names, memory, sockets, consumers, history
<1>7. ASSUME NEW p \in Producers, Bind(p)
      PROVE  StoppedByItsOwn'
  BY <1>7 DEF Bind, Goto, names, memory, sockets, consumers, history
<1>8. ASSUME NEW p \in Producers, Unwind(p)
      PROVE  StoppedByItsOwn'
  BY <1>8 DEF Unwind, Goto, names, memory, sockets, consumers, history
<1>9. ASSUME NEW p \in Producers, Call(p)
      PROVE  StoppedByItsOwn'
  BY <1>9 DEF Call, Goto, names, memory, sockets, consumers, history
<1>10. ASSUME NEW p \in Producers, Accept(p)
      PROVE  StoppedByItsOwn'
  BY <1>10 DEF Accept, Goto, names, memory, sockets, consumers, history
<1>11. ASSUME NEW p \in Producers, AcceptInterrupted(p)
      PROVE  StoppedByItsOwn'
  BY <1>11 DEF AcceptInterrupted, Return, names, memory, sockets, consumers, history
<1>12. ASSUME NEW p \in Producers, ReadCommand(p)
      PROVE  StoppedByItsOwn'
  BY <1>12 DEF ReadCommand, Goto, names, memory, sockets, consumers, history
<1>13. ASSUME NEW p \in Producers, NothingToRead(p)
      PROVE  StoppedByItsOwn'
  BY <1>13 DEF NothingToRead, Return, names, memory, sockets, consumers, history
<1>14. ASSUME NEW p \in Producers, Greet(p)
      PROVE  StoppedByItsOwn'
  BY <1>14 DEF Greet, Goto, names, memory, sockets, consumers, history
<1>15. ASSUME NEW p \in Producers, NobodyToGreet(p)
      PROVE  StoppedByItsOwn'
  BY <1>15 DEF NobodyToGreet, Return, names, memory, sockets, consumers, history
<1>16. ASSUME NEW p \in Producers, StreamInterrupted(p)
      PROVE  StoppedByItsOwn'
  BY <1>16 DEF StreamInterrupted, Return, Stopped, names, memory, sockets, consumers, history
<1>17. ASSUME NEW p \in Producers, StreamStops(p)
      PROVE  StoppedByItsOwn'
  BY <1>17 DEF StreamStops, Return, names, memory, sockets, consumers, history
<1>18. ASSUME NEW p \in Producers, StreamOver(p)
      PROVE  StoppedByItsOwn'
  BY <1>18 DEF StreamOver, Return, names, memory, sockets, consumers, history
<1>19. ASSUME NEW p \in Producers, DropSocket(p)
      PROVE  StoppedByItsOwn'
  BY <1>19 DEF DropSocket, Goto, names, memory, sockets, consumers, history
<1>20. ASSUME NEW p \in Producers, Unlink(p)
      PROVE  StoppedByItsOwn'
  BY <1>20, SMTT(40) DEF Unlink, Goto, names, memory, sockets, consumers, history
<1>21. ASSUME NEW p \in Producers, CloseListener(p)
      PROVE  StoppedByItsOwn'
  BY <1>21 DEF CloseListener, Goto, names, memory, sockets, consumers, history
<1>22. ASSUME NEW c \in Consumers, Connect(c)
      PROVE  StoppedByItsOwn'
  BY <1>22 DEF Connect, names, memory, sockets, consumers, history
<1>23. ASSUME NEW c \in Consumers, SayStart(c)
      PROVE  StoppedByItsOwn'
  BY <1>23 DEF SayStart, names, memory, sockets, consumers, history
<1>24. ASSUME NEW c \in Consumers, NoHandshake(c)
      PROVE  StoppedByItsOwn'
  BY <1>24 DEF NoHandshake, Gone, names, memory, sockets, consumers, history
<1>25. ASSUME NEW c \in Consumers, OpenName(c)
      PROVE  StoppedByItsOwn'
  BY <1>25 DEF OpenName, names, memory, sockets, consumers, history
<1>26. ASSUME NEW c \in Consumers, NoName(c)
      PROVE  StoppedByItsOwn'
  BY <1>26 DEF NoName, Gone, names, memory, sockets, consumers, history
<1>27. ASSUME NEW c \in Consumers, Close(c)
      PROVE  StoppedByItsOwn'
  BY <1>27 DEF Close, Gone, StoppedBy, Stopped, names, memory, sockets, consumers, history
<1>28. ASSUME NEW c \in Consumers, KillConsumer(c)
      PROVE  StoppedByItsOwn'
  BY <1>28 DEF KillConsumer, Gone, names, memory, sockets, consumers, history
<1>29. ASSUME NEW o \in Processes, CtrlC(o)
      PROVE  StoppedByItsOwn'
  BY <1>29 DEF CtrlC, names, memory, sockets, consumers, history
<1>30. ASSUME NEW o \in Processes, Kill(o)
      PROVE  StoppedByItsOwn'
  BY <1>30 DEF Kill, names, memory, sockets, consumers, history
<1>31. CASE UNCHANGED vars
  BY <1>31 DEF names, memory, sockets, consumers, history, vars
<1> QED
  BY <1>1, <1>2, <1>3, <1>4, <1>5, <1>6, <1>7, <1>8, <1>9, <1>10, <1>11, <1>12, <1>13, <1>14, <1>15, <1>16, <1>17, <1>18, <1>19, <1>20, <1>21, <1>22, <1>23, <1>24, <1>25, <1>26, <1>27, <1>28, <1>29, <1>30, <1>31 DEF LifecycleNext, ProducerStep, BuildStep, StreamStep, DropStep, ConsumerStep

\* Types; the first of a backlog becomes the client of the producer it reached.
LEMMA TypeStep ==
  ASSUME LifecycleInv, [LifecycleNext]_vars
  PROVE  LifecycleTypeOK'
<1> USE LifecycleAssumption DEF LifecycleInv, LifecycleTypeOK, Listening, Final, ConsumersLinked, ProducerPCs, ConsumerPCs, Serving, Left
<1>1. ASSUME NEW p \in Producers, OpenShm(p)
      PROVE  LifecycleTypeOK'
  <2>1. /\ shm' \in Producers
        /\ mapped' \in [Producers -> Producers \union {None}]
        /\ handler' \in [Processes -> Producers \union {None}]
        /\ recycled' \in BOOLEAN
    BY <1>1, BlocksTyped DEF OpenShm, Goto, Stoppers, HeldMapped, Held, names, memory, sockets, consumers, history
  <2> QED
    BY <1>1, <2>1, SMTT(40) DEF OpenShm, Goto, names, memory, sockets, consumers, history
<1>2. ASSUME NEW p \in Producers, BufferFails(p)
      PROVE  LifecycleTypeOK'
  <2>1. /\ pc' \in [Producers -> ProducerPCs]
        /\ \A x \in Producers : pc'[x] \in Serving <=> pc[x] \in Serving
    BY <1>2, BlocksTyped DEF BufferFails, Goto, Stoppers, HeldMapped, Held, names, memory, sockets, consumers, history
  <2> QED
    BY <1>2, <2>1, SMTT(40) DEF BufferFails, Goto, names, memory, sockets, consumers, history
<1>3. ASSUME NEW p \in Producers, Clear(p)
      PROVE  LifecycleTypeOK'
  <2>1. segments' \in [Producers -> Blocks]
    BY <1>3, BlocksTyped DEF Clear, Goto, Stoppers, HeldMapped, Held, names, memory, sockets, consumers, history
  <2> QED
    BY <1>3, <2>1, SMTT(40) DEF Clear, Goto, names, memory, sockets, consumers, history
<1>4. ASSUME NEW p \in Producers, WriteControl(p)
      PROVE  LifecycleTypeOK'
  <2>1. segments' \in [Producers -> Blocks]
    BY <1>4, BlocksTyped DEF WriteControl, Goto, Stoppers, HeldMapped, Held, names, memory, sockets, consumers, history
  <2> QED
    BY <1>4, <2>1, SMTT(40) DEF WriteControl, Goto, names, memory, sockets, consumers, history
<1>5. ASSUME NEW p \in Producers, CheckSocket(p)
      PROVE  LifecycleTypeOK'
  BY <1>5, SMTT(40) DEF CheckSocket, Goto, names, memory, sockets, consumers, history
<1>6. ASSUME NEW p \in Producers, RemoveSocket(p)
      PROVE  LifecycleTypeOK'
  BY <1>6, SMTT(40) DEF RemoveSocket, Goto, names, memory, sockets, consumers, history
<1>7. ASSUME NEW p \in Producers, Bind(p)
      PROVE  LifecycleTypeOK'
  BY <1>7, SMTT(40) DEF Bind, Goto, names, memory, sockets, consumers, history
<1>8. ASSUME NEW p \in Producers, Unwind(p)
      PROVE  LifecycleTypeOK'
  BY <1>8, SMTT(40) DEF Unwind, Goto, names, memory, sockets, consumers, history
<1>9. ASSUME NEW p \in Producers, Call(p)
      PROVE  LifecycleTypeOK'
  BY <1>9, SMTT(40) DEF Call, Goto, names, memory, sockets, consumers, history
<1>10. ASSUME NEW p \in Producers, Accept(p)
      PROVE  LifecycleTypeOK'
  <2> DEFINE first == Head(backlog[p])
  <2>1. /\ first \in Consumers
        /\ server[first] = p \/ Left(first)
        /\ backlog' \in [Producers -> Seq(Consumers)]
    BY <1>10 DEF Accept
  <2>2. /\ client' = [client EXCEPT ![p] = first]
        /\ pc[p] = "listening" /\ pc' = [pc EXCEPT ![p] = "accepted"]
        /\ UNCHANGED << options, running, asked, handler, names, memory, consumers, history >>
    BY <1>10 DEF Accept, Goto
  <2> HIDE DEF first
  <2> QED
    BY <2>1, <2>2, SMTT(40) DEF names, memory, sockets, consumers, history
<1>11. ASSUME NEW p \in Producers, AcceptInterrupted(p)
      PROVE  LifecycleTypeOK'
  BY <1>11, SMTT(40) DEF AcceptInterrupted, Return, names, memory, sockets, consumers, history
<1>12. ASSUME NEW p \in Producers, ReadCommand(p)
      PROVE  LifecycleTypeOK'
  BY <1>12, SMTT(40) DEF ReadCommand, Goto, names, memory, sockets, consumers, history
<1>13. ASSUME NEW p \in Producers, NothingToRead(p)
      PROVE  LifecycleTypeOK'
  BY <1>13, SMTT(40) DEF NothingToRead, Return, names, memory, sockets, consumers, history
<1>14. ASSUME NEW p \in Producers, Greet(p)
      PROVE  LifecycleTypeOK'
  BY <1>14, SMTT(40) DEF Greet, Goto, names, memory, sockets, consumers, history
<1>15. ASSUME NEW p \in Producers, NobodyToGreet(p)
      PROVE  LifecycleTypeOK'
  BY <1>15, SMTT(40) DEF NobodyToGreet, Return, names, memory, sockets, consumers, history
<1>16. ASSUME NEW p \in Producers, StreamInterrupted(p)
      PROVE  LifecycleTypeOK'
  <2>1. segments' \in [Producers -> Blocks]
    BY <1>16, BlocksTyped DEF StreamInterrupted, Return, Stoppers, HeldMapped, Held, names, memory, sockets, consumers, history
  <2> QED
    BY <1>16, <2>1, SMTT(40) DEF StreamInterrupted, Return, names, memory, sockets, consumers, history
<1>17. ASSUME NEW p \in Producers, StreamStops(p)
      PROVE  LifecycleTypeOK'
  BY <1>17, SMTT(40) DEF StreamStops, Return, names, memory, sockets, consumers, history
<1>18. ASSUME NEW p \in Producers, StreamOver(p)
      PROVE  LifecycleTypeOK'
  BY <1>18, SMTT(40) DEF StreamOver, Return, names, memory, sockets, consumers, history
<1>19. ASSUME NEW p \in Producers, DropSocket(p)
      PROVE  LifecycleTypeOK'
  BY <1>19, SMTT(40) DEF DropSocket, Goto, names, memory, sockets, consumers, history
<1>20. ASSUME NEW p \in Producers, Unlink(p)
      PROVE  LifecycleTypeOK'
  BY <1>20, SMTT(40) DEF Unlink, Goto, names, memory, sockets, consumers, history
<1>21. ASSUME NEW p \in Producers, CloseListener(p)
      PROVE  LifecycleTypeOK'
  BY <1>21, SMTT(40) DEF CloseListener, Goto, names, memory, sockets, consumers, history
<1>22. ASSUME NEW c \in Consumers, Connect(c)
      PROVE  LifecycleTypeOK'
  <2>1. backlog' \in [Producers -> Seq(Consumers)]
    BY <1>22, BlocksTyped DEF Connect, Stoppers, HeldMapped, Held, names, memory, sockets, consumers, history
  <2> QED
    BY <1>22, <2>1, SMTT(40) DEF Connect, names, memory, sockets, consumers, history
<1>23. ASSUME NEW c \in Consumers, SayStart(c)
      PROVE  LifecycleTypeOK'
  BY <1>23 DEF SayStart, names, memory, sockets, consumers, history
<1>24. ASSUME NEW c \in Consumers, NoHandshake(c)
      PROVE  LifecycleTypeOK'
  BY <1>24 DEF NoHandshake, Gone, names, memory, sockets, consumers, history
<1>25. ASSUME NEW c \in Consumers, OpenName(c)
      PROVE  LifecycleTypeOK'
  BY <1>25 DEF OpenName, names, memory, sockets, consumers, history
<1>26. ASSUME NEW c \in Consumers, NoName(c)
      PROVE  LifecycleTypeOK'
  BY <1>26 DEF NoName, Gone, names, memory, sockets, consumers, history
<1>27. ASSUME NEW c \in Consumers, Close(c)
      PROVE  LifecycleTypeOK'
  <2>1. segments' \in [Producers -> Blocks]
    BY <1>27, BlocksTyped DEF Close, Gone, Stoppers, HeldMapped, Held, names, memory, sockets, consumers, history
  <2> QED
    BY <1>27, <2>1, SMTT(40) DEF Close, Gone, names, memory, sockets, consumers, history
<1>28. ASSUME NEW c \in Consumers, KillConsumer(c)
      PROVE  LifecycleTypeOK'
  BY <1>28 DEF KillConsumer, Gone, names, memory, sockets, consumers, history
<1>29. ASSUME NEW o \in Processes, CtrlC(o)
      PROVE  LifecycleTypeOK'
  BY <1>29 DEF CtrlC, names, memory, sockets, consumers, history
<1>30. ASSUME NEW o \in Processes, Kill(o)
      PROVE  LifecycleTypeOK'
  BY <1>30 DEF Kill, names, memory, sockets, consumers, history
<1>31. CASE UNCHANGED vars
  BY <1>31 DEF names, memory, sockets, consumers, history, vars
<1> QED
  BY <1>1, <1>2, <1>3, <1>4, <1>5, <1>6, <1>7, <1>8, <1>9, <1>10, <1>11, <1>12, <1>13, <1>14, <1>15, <1>16, <1>17, <1>18, <1>19, <1>20, <1>21, <1>22, <1>23, <1>24, <1>25, <1>26, <1>27, <1>28, <1>29, <1>30, <1>31 DEF LifecycleNext, ProducerStep, BuildStep, StreamStep, DropStep, ConsumerStep

LEMMA InitHolds == LifecycleInit => LifecycleInv
<1> SUFFICES ASSUME LifecycleInit
             PROVE  LifecycleInv
  OBVIOUS
<1>1. LifecycleTypeOK
  <2>1. backlog \in [Producers -> Seq(Consumers)]
    BY DEF LifecycleInit
  <2>2. segments \in [Producers -> Blocks]
    BY BlocksTyped DEF LifecycleInit
  <2>3. /\ pc \in [Producers -> ProducerPCs]
        /\ cpc \in [Consumers -> ConsumerPCs]
    BY DEF LifecycleInit, ProducerPCs, ConsumerPCs
  <2>4. \A p \in Producers : client[p] = None /\ pc[p] \notin Serving
    BY DEF LifecycleInit, Serving
  <2>5. /\ options \in Given
        /\ running \in [Producers -> BOOLEAN]
        /\ asked \subseteq Producers
        /\ handler \in [Processes -> Producers \union {None}]
        /\ shm \in Producers \union {None}
        /\ sock \in Producers \union {None}
        /\ mapped \in [Producers -> Producers \union {None}]
        /\ client \in [Producers -> Consumers \union {None}]
        /\ server \in [Consumers -> Producers \union {None}]
        /\ view \in [Consumers -> Producers \union {None}]
        /\ recycled \in BOOLEAN
        /\ late \subseteq Consumers
    BY DEF LifecycleInit
  <2> QED
    BY <2>1, <2>2, <2>3, <2>4, <2>5 DEF LifecycleTypeOK
<1>2. NamesHaveOwners
  BY DEF LifecycleInit, NamesHaveOwners
<1>3. HeldMapped /\ ConsumersLinked
  BY DEF LifecycleInit, HeldMapped, Held, ConsumersLinked
<1>4. SegmentsApart /\ StoppedByItsOwn
  BY DEF LifecycleInit, SegmentsApart, Held, StoppedByItsOwn, NoBlock
<1> QED
  BY <1>1, <1>2, <1>3, <1>4 DEF LifecycleInv

(***************************************************************************)
(* The inductive invariant holds in every reachable state.                 *)
(***************************************************************************)
THEOREM LifecycleInvariant == LifecycleSpec => []LifecycleInv
<1>1. LifecycleInit => LifecycleInv
  BY InitHolds
<1>2. LifecycleInv /\ [LifecycleNext]_vars => LifecycleInv'
  BY OwnersStep, MappedStep, LinkedStep, ApartStep, StoppedStep, TypeStep DEF LifecycleInv
<1> QED
  BY <1>1, <1>2, PTL DEF LifecycleSpec

(***************************************************************************)
(* Every variable keeps its type, a producer has a connection exactly      *)
(* while it serves one, and it is one of a consumer that reached it        *)
(* (core/producer/mod.rs:374-410).                                         *)
(***************************************************************************)
THEOREM LifecycleTypeCorrect == LifecycleSpec => []LifecycleTypeOK
<1>1. LifecycleInv => LifecycleTypeOK
  BY DEF LifecycleInv
<1> QED
  BY <1>1, LifecycleInvariant, PTL

(***************************************************************************)
(* However many producers are built, fail, are undone, dropped or killed   *)
(* in whatever order, a socket file or a segment's name is left only by a  *)
(* kill or by an error in ZeroTensorBuffer::new (README.md:115).           *)
(***************************************************************************)
THEOREM NamesAlwaysHaveOwners == LifecycleSpec => []NamesHaveOwners
<1>1. LifecycleInv => NamesHaveOwners
  BY DEF LifecycleInv
<1> QED
  BY <1>1, LifecycleInvariant, PTL

(***************************************************************************)
(* As long as no build finds the segment of another, a stream is stopped   *)
(* by Ctrl-C, by its own consumer, or by one that opened the name late     *)
(* (builder.rs:138, consumer.py:148, 213).                                 *)
(***************************************************************************)
THEOREM StreamsStoppedByTheirOwn == LifecycleSpec => []StoppedByItsOwn
<1>1. LifecycleInv => StoppedByItsOwn
  BY DEF LifecycleInv
<1> QED
  BY <1>1, LifecycleInvariant, PTL
=============================================================================
