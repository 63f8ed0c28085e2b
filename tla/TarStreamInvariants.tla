------------------------ MODULE TarStreamInvariants ------------------------
(***************************************************************************)
(* The inductive invariant of TarStream, in named parts.                   *)
(***************************************************************************)
EXTENDS TarStream, TarInvariants

LoopTypeOK ==
  /\ loop \in {"start", "primed", "top", "rolling", "step", "batch", "ended"}
  /\ epoch \in Nat
  /\ epochStep \in Nat
  /\ indices \in CellOrders
  /\ todo \subseteq CellIndex
  /\ failed \in BOOLEAN
  /\ primed \in [CellIndex -> Records \cup {NoRecord}]

\* What the dataset is doing where the loop is.
LoopInv ==
  /\ loop \in {"top", "step"} => phase = "ready"
  /\ loop = "batch" => phase \in {"ready", "failed"}
  /\ phase = "priming" => loop \in {"primed", "rolling"}
  /\ loop # "batch" => AllIdle

\* The first epoch is only a phantom, which has no step to stream.
PhantomInv ==
  /\ epoch = 0 => epochStep = StepsPerEpoch
  /\ loop \in {"start", "primed"} => epoch = 0
  /\ loop \in {"rolling", "step", "batch"} => epoch > 0
  /\ loop \in {"rolling", "step"} => epochStep = 0

\* The cells that this epoch has handed out.
Taken ==
  IF epoch = 0 THEN {}
    ELSE FirstItems(epochStep * BatchSize)
           \cup (IF loop = "batch" THEN BatchItems \ todo ELSE {})

\* The other cells are as next_epoch left them, and nobody writes them.
ScheduleInv ==
  /\ loop = "batch" => todo \subseteq BatchItems
  /\ phase = "ready" /\ loop # "start" =>
       /\ served = { primed[i] : i \in Taken }
       /\ \A i \in CellIndex \ Taken : cells[i] = primed[i] /\ ~CellLocked(i)

FullBuffer == EmptyRecords = {} /\ Cardinality(Records) >= BufferCap

\* A full buffer is primed full, and then only damage makes a call fail.
FullInv ==
  FullBuffer =>
    /\ failed \/ phase = "failed" => damaged
    /\ phase = "ready" => \A i \in CellIndex : primed[i] # NoRecord

TarStreamInv ==
  /\ TarInv
  /\ LoopTypeOK
  /\ LoopInv
  /\ PhantomInv
  /\ ScheduleInv
  /\ FullInv
=============================================================================
