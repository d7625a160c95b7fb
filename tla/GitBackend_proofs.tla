------------------------- MODULE GitBackend_proofs -------------------------
(***************************************************************************)
(* Proofs about the git-backend container, for every number of requests,   *)
(* FastCGI processes and slots.  What GoQueue_proofs shows of a step of    *)
(* go-queue is used for the steps of the container that contain one.       *)
(***************************************************************************)
EXTENDS GitBackend, GoQueue_proofs

USE GoQueueAssumption, GitBackendAssumption

LEMMA InitBackendInv == BackendInit => BackendInv
<1> SUFFICES ASSUME BackendInit PROVE BackendInv
  OBVIOUS
<1>1. QueueInv
  BY InitQueueInv DEF BackendInit
<1>2. BackendTypeOK
  BY <1>1 DEF BackendInit, BackendTypeOK, QueueInv, WrapperStates, PackStates
<1>3. RequestInv
  BY DEF BackendInit, Init, RequestInv, Connected
<1>4. QED
  BY <1>1, <1>2, <1>3 DEF BackendInv

----------------------------------------------------------------------------
(* What the container does to the state of go-queue: a step of go-queue or   *)
(* of its clients, the death of the process, or a new container.            *)
LEMMA GoQueueDiesQueueInv ==
    ASSUME QueueInv, GoQueueDies
    PROVE  QueueInv'
<1>1. TypeOK'
  BY DEF QueueInv, GoQueueDies, TypeOK
<1>2. PendingInv' /\ SlotInv' /\ ReporterInv'
  BY DEF QueueInv, PendingInv, SlotInv, ReporterInv, Told, GoQueueDies
<1>3. QED
  BY <1>1, <1>2 DEF QueueInv

LEMMA RestartedBackendInv ==
    ASSUME Restarted
    PROVE  BackendInv'
<1>1. TypeOK'
  BY DEF Restarted, TypeOK, PeerStates, WaiterStates, ReporterStates, NothingRead
<1>2. PendingInv'
  BY DEF Restarted, PendingInv
<1>3. SlotInv'
  BY DEF Restarted, SlotInv
<1>4. ReporterInv'
  BY DEF Restarted, ReporterInv, Told, NothingRead
<1>5. BackendTypeOK'
  BY <1>1 DEF Restarted, BackendTypeOK, WrapperStates, PackStates
<1>6. RequestInv'
  BY DEF Restarted, RequestInv, Connected
<1>7. QED
  BY <1>1, <1>2, <1>3, <1>4, <1>5, <1>6 DEF BackendInv, QueueInv

LEMMA RequestQueueInv ==
    ASSUME QueueInv, NEW c \in Clients, Request(c)
    PROVE  QueueInv'
<1>1. Client(c) \/ UNCHANGED vars
  BY DEF Request, RunHook, InputBuffered, ReadResponse, QueueDisconnects,
         PackObjectsExits, WrapperExits, KillWrapper, Client
<1>2. [Next]_vars
  BY <1>1 DEF Next
<1>3. QED
  BY <1>2, NextQueueInv

LEMMA QueueStepQueueInv ==
    ASSUME QueueInv, QueueStep
    PROVE  QueueInv'
BY NextQueueInv DEF QueueStep, Next

(* The goroutines touch neither a client's end nor what it read.  *)
LEMMA QueueStepClients ==
    ASSUME QueueStep
    PROVE  UNCHANGED <<peer, shown, wvars>>
<1>1. UNCHANGED wvars
  BY DEF QueueStep
<1>2. CASE ServeClient \/ IDOverflow \/ \E w \in Workers : WorkerReleases(w)
  BY <1>1, <1>2 DEF ServeClient, IDOverflow, WorkerReleases
<1>3. ASSUME NEW c \in Clients, Waiter(c) \/ ReaderCloses(c)
      PROVE  UNCHANGED <<peer, shown>>
  BY <1>3 DEF Waiter, Handoff, CloseWakeUp, WaiterQuits, ReaderCloses
<1>4. ASSUME NEW c \in Clients, Reporter(c)
      PROVE  UNCHANGED <<peer, shown>>
  BY <1>4 DEF Reporter, TimerFires, PrintPosition, ReporterWakes, UpdateCurrentID,
              LoadCurrentID, CompareAndSwap, PrintGrant, ReporterQuits
<1>5. QED
  BY <1>1, <1>2, <1>3, <1>4 DEF QueueStep

----------------------------------------------------------------------------
(* The wrapper of one request.  *)
LEMMA RequestTypeOK ==
    ASSUME BackendInv, NEW c \in Clients, Request(c)
    PROVE  BackendTypeOK'
<1>1. TypeOK'
  BY RequestQueueInv DEF BackendInv, QueueInv
<1>2. /\ wrapper \in [Clients -> WrapperStates] /\ pack \in [Clients -> PackStates]
      /\ listening \in BOOLEAN /\ running \in SUBSET Services
  BY DEF BackendInv, BackendTypeOK
<1>3. wrapper' \in [Clients -> WrapperStates]
  BY <1>2 DEF Request, RunHook, InputBuffered, ReadResponse, QueueDisconnects,
              PackObjectsExits, WrapperExits, KillWrapper, WrapperStates
<1>4. pack' \in [Clients -> PackStates]
  BY <1>2 DEF Request, RunHook, InputBuffered, ReadResponse, QueueDisconnects,
              PackObjectsExits, WrapperExits, KillWrapper, PackStates
<1>5. UNCHANGED <<listening, running>>
  BY DEF Request, RunHook, InputBuffered, ReadResponse, QueueDisconnects,
         PackObjectsExits, WrapperExits, KillWrapper
<1>6. QED
  BY <1>1, <1>2, <1>3, <1>4, <1>5 DEF BackendTypeOK

LEMMA RequestKeepsRequestInv ==
    ASSUME BackendInv, NEW c \in Clients, Request(c)
    PROVE  RequestInv'
<1>1. /\ wrapper \in [Clients -> WrapperStates] /\ pack \in [Clients -> PackStates]
      /\ peer \in [Clients -> PeerStates]
      /\ shown \in [Clients -> 0..NothingRead]
      /\ RequestInv
  BY DEF BackendInv, BackendTypeOK, TypeOK
<1> USE <1>1 DEF RequestInv, Connected
<1>2. CASE RunHook(c)
  <2>1. CASE Connect(c) /\ wrapper' = [wrapper EXCEPT ![c] = "buffering"]
    BY <1>2, <2>1 DEF RunHook, Connect
  <2>2. CASE wrapper' = [wrapper EXCEPT ![c] = "refused"] /\ UNCHANGED vars
    BY <1>2, <2>2 DEF RunHook, vars
  <2>3. QED
    BY <1>2, <2>1, <2>2 DEF RunHook
<1>3. CASE InputBuffered(c)
  BY <1>3 DEF InputBuffered, vars
<1>4. CASE ReadResponse(c)
  <2>1. /\ wrapper[c] = "reading" /\ UNCHANGED peer
        /\ shown' = [shown EXCEPT ![c] = Head(wire[c])]
    BY <1>4 DEF ReadResponse, ReadLine
  <2>2. CASE /\ Head(wire[c]) = 0
             /\ wrapper' = [wrapper EXCEPT ![c] = "packing"]
             /\ pack' = [pack EXCEPT ![c] = "running"]
    BY <2>1, <2>2
  <2>3. CASE UNCHANGED <<wrapper, pack>>
    BY <2>1, <2>3
  <2>4. QED
    BY <1>4, <2>2, <2>3 DEF ReadResponse
<1>5. CASE QueueDisconnects(c)
  BY <1>5 DEF QueueDisconnects, Hangup
<1>6. CASE PackObjectsExits(c)
  BY <1>6 DEF PackObjectsExits, vars
<1>7. CASE WrapperExits(c)
  BY <1>7 DEF WrapperExits, Hangup
<1>8. CASE KillWrapper(c)
  BY <1>8 DEF KillWrapper, Hangup
<1>9. QED
  BY <1>2, <1>3, <1>4, <1>5, <1>6, <1>7, <1>8 DEF Request

LEMMA NextBackendInv == BackendInv /\ [BackendNext]_allVars => BackendInv'
<1> SUFFICES ASSUME BackendInv, [BackendNext]_allVars PROVE BackendInv'
  OBVIOUS
<1>1. QueueInv /\ BackendTypeOK /\ RequestInv
  BY DEF BackendInv
<1>2. CASE QueueStep
  <2>1. QueueInv'
    BY <1>1, <1>2, QueueStepQueueInv
  <2>2. UNCHANGED <<peer, shown, wrapper, pack, listening, running>>
    BY <1>2, QueueStepClients DEF wvars
  <2>3. QED
    BY <1>1, <2>1, <2>2 DEF BackendInv, QueueInv, BackendTypeOK, RequestInv
<1>3. ASSUME NEW c \in Clients, Request(c)
      PROVE  BackendInv'
  BY <1>1, <1>3, RequestQueueInv, RequestTypeOK, RequestKeepsRequestInv DEF BackendInv
<1>4. CASE GoQueueDies
  <2>1. QueueInv'
    BY <1>1, <1>4, GoQueueDiesQueueInv
  <2>2. UNCHANGED <<peer, shown, wrapper, pack, listening, running>>
    BY <1>4 DEF GoQueueDies, wvars
  <2>3. QED
    BY <1>1, <2>1, <2>2 DEF BackendInv, QueueInv, BackendTypeOK, RequestInv
<1>5. CASE Listen \/ (\E s \in Services : ServiceDies(s)) \/ UNCHANGED allVars
  <2>1. UNCHANGED vars
    BY <1>5 DEF Listen, ServiceDies, allVars
  <2>2. QueueInv'
    BY <1>1, <2>1, NextQueueInv
  <2>3. /\ UNCHANGED <<peer, shown, wrapper, pack>>
        /\ listening' \in BOOLEAN /\ running' \in SUBSET Services
    BY <1>1, <1>5 DEF Listen, ServiceDies, allVars, vars, wvars, BackendTypeOK
  <2>4. QED
    BY <1>1, <2>2, <2>3 DEF BackendInv, QueueInv, BackendTypeOK, RequestInv
<1>6. CASE ContainerRestarts
  BY <1>6, RestartedBackendInv DEF ContainerRestarts
<1>7. QED
  BY <1>2, <1>3, <1>4, <1>5, <1>6 DEF BackendNext

(* The inductive invariant of the container: that of go-queue, and what the  *)
(* state of a wrapper says of its connection.                                *)
THEOREM BackendCorrect == BackendSpec => []BackendInv
BY InitBackendInv, NextBackendInv, PTL DEF BackendSpec

(* The state of the hooks and services stays well typed through restarts.    *)
THEOREM BackendTypeCorrect == BackendSpec => []BackendTypeOK
<1>1. BackendInv => BackendTypeOK
  BY DEF BackendInv
<1>2. QED
  BY <1>1, BackendCorrect, PTL

(* A wrapper that packs read 0 and is connected: it was told.  *)
LEMMA BackendInvPackHoldsSlot == BackendInv => PackHoldsSlot
<1> SUFFICES ASSUME BackendInv, NEW c \in Clients, wrapper[c] = "packing"
             PROVE  \E w \in Workers : Holds(w, c)
  BY DEF PackHoldsSlot
<1>1. Told(c) /\ peer[c] = "up"
  BY DEF BackendInv, RequestInv, Connected, Told
<1>2. QED
  BY <1>1, QueueInvGrantHoldsSlot DEF BackendInv, GrantHoldsSlot

(* Every supervised pack-objects has a slot of the queue, through crashes of *)
(* the services, killed hooks, an exhausted ID counter and restarts.         *)
THEOREM PackSafe == BackendSpec => []PackHoldsSlot
BY BackendCorrect, BackendInvPackHoldsSlot, PTL

LEMMA BackendInvPacksWithinQueue == BackendInv => PacksWithinQueue
<1> SUFFICES ASSUME BackendInv PROVE PacksWithinQueue
  OBVIOUS
<1> DEFINE P == {c \in Busy : pack[c] = "running"}
<1>1. P \subseteq Held
  <2>1. SUFFICES ASSUME NEW c \in P PROVE c \in Held
    OBVIOUS
  <2>2. c \in Clients /\ wrapper[c] = "packing"
    BY <2>1 DEF Busy, Connected, BackendInv, RequestInv
  <2>3. QED
    BY <2>2, BackendInvPackHoldsSlot DEF PackHoldsSlot, Holds, Held
<1>2. /\ IsFiniteSet(Held) /\ Cardinality(Held) \in Nat
      /\ Cardinality(Workers) \in Nat /\ Cardinality(Held) <= Cardinality(Workers)
  BY HeldClients DEF BackendInv, QueueInv
<1>3. IsFiniteSet(P) /\ Cardinality(P) <= Cardinality(Held)
  BY <1>1, <1>2, FS_Subset
<1>4. Cardinality(P) \in Nat
  BY <1>3, FS_CardinalityType
<1>5. QED
  BY <1>2, <1>3, <1>4 DEF PacksWithinQueue

(* No more supervised pack-objects processes run than the queue has slots.   *)
THEOREM PacksBounded == BackendSpec => []PacksWithinQueue
BY BackendCorrect, BackendInvPacksWithinQueue, PTL
=============================================================================
