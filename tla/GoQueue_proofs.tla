--------------------------- MODULE GoQueue_proofs ---------------------------
(***************************************************************************)
(* Proofs about GoQueue, for every set of clients, every number of workers *)
(* and every ID and buffer limit.                                          *)
(***************************************************************************)
EXTENDS GoQueue, FiniteSetTheorems, TLAPS

USE GoQueueAssumption

(* The state is well typed.  Every action assigns a few variables; the     *)
(* others are unchanged.                                                   *)
LEMMA InitTypeOK == Init => TypeOK
BY DEF Init, TypeOK, PeerStates, WaiterStates, ReporterStates, NothingRead

LEMMA ClientTypeOK ==
    ASSUME TypeOK, NEW c \in Clients, Client(c)
    PROVE  TypeOK'
<1> USE DEF TypeOK
<1>1. CASE Connect(c)
  BY <1>1 DEF Connect, PeerStates
<1>2. CASE ReadLine(c)
  <2>1. /\ wire[c] \in Seq(0..MaxID)
        /\ wire[c] # <<>>
    BY <1>2 DEF ReadLine
  <2>2. /\ Head(wire[c]) \in 0..MaxID
        /\ Tail(wire[c]) \in Seq(0..MaxID)
    BY <2>1
  <2>3. Head(wire[c]) \in 0..NothingRead
    BY <2>2 DEF NothingRead
  <2>4. QED
    BY <1>2, <2>2, <2>3 DEF ReadLine
<1>3. CASE Hangup(c)
  BY <1>3 DEF Hangup, PeerStates, NothingRead
<1>4. QED
  BY <1>1, <1>2, <1>3 DEF Client

LEMMA MainTypeOK ==
    ASSUME TypeOK, ServeClient \/ IDOverflow
    PROVE  TypeOK'
<1> USE DEF TypeOK
<1>1. CASE ServeClient
  <2>1. /\ Head(pending) \in Clients
        /\ Tail(pending) \in Seq(Clients)
    BY <1>1 DEF ServeClient
  <2>2. idCounter + 1 \in 0..MaxID
    BY <1>1 DEF ServeClient
  <2>3. QED
    BY <1>1, <2>1, <2>2 DEF ServeClient, WaiterStates, ReporterStates
<1>2. CASE IDOverflow
  BY <1>2 DEF IDOverflow
<1>3. QED
  BY <1>1, <1>2

LEMMA WaiterTypeOK ==
    ASSUME TypeOK, NEW c \in Clients, Waiter(c) \/ ReaderCloses(c)
    PROVE  TypeOK'
<1> USE DEF TypeOK
<1>1. CASE \E w \in Workers : Handoff(c, w)
  BY <1>1 DEF Handoff, WaiterStates
<1>2. CASE CloseWakeUp(c)
  BY <1>2 DEF CloseWakeUp, WaiterStates
<1>3. CASE WaiterQuits(c)
  BY <1>3 DEF WaiterQuits, WaiterStates
<1>4. CASE ReaderCloses(c)
  BY <1>4 DEF ReaderCloses
<1>5. QED
  BY <1>1, <1>2, <1>3, <1>4 DEF Waiter

LEMMA WorkerTypeOK ==
    ASSUME TypeOK, NEW w \in Workers, WorkerReleases(w)
    PROVE  TypeOK'
BY DEF TypeOK, WorkerReleases

(* The reporter moves to another of its states.  *)
LEMMA ReporterType ==
    ASSUME TypeOK, NEW c \in Clients, NEW r \in ReporterStates,
           reporter' = [reporter EXCEPT ![c] = r]
    PROVE  reporter' \in [Clients -> ReporterStates]
BY DEF TypeOK

(* A write keeps the lines of every connection well typed.  *)
LEMMA WriteType ==
    ASSUME TypeOK, NEW c \in Clients, NEW line \in 0..MaxID, Write(c, line)
    PROVE  wire' \in [Clients -> Seq(0..MaxID)]
<1>1. Append(wire[c], line) \in Seq(0..MaxID)
  BY DEF TypeOK
<1>2. QED
  BY <1>1 DEF TypeOK, Write

LEMMA ReporterTypeOK ==
    ASSUME TypeOK, NEW c \in Clients, Reporter(c)
    PROVE  TypeOK'
<1>1. CASE TimerFires(c)
  <2>1. reporter' \in [Clients -> ReporterStates]
    BY <1>1, ReporterType DEF TimerFires, ReporterStates
  <2>2. Position(id[c], currentID) \in 0..MaxID
    BY DEF Position, TypeOK
  <2>3. QED
    BY <1>1, <2>1, <2>2 DEF TimerFires, TypeOK
<1>2. CASE PrintPosition(c)
  <2>1. reporter' \in [Clients -> ReporterStates]
    BY <1>2, ReporterType DEF PrintPosition, ReporterStates
  <2>2. wire' \in [Clients -> Seq(0..MaxID)]
    BY <1>2, WriteType DEF PrintPosition, TypeOK
  <2>3. QED
    BY <1>2, <2>1, <2>2 DEF PrintPosition, TypeOK
<1>3. CASE ReporterWakes(c)
  <2>1. reporter' \in [Clients -> ReporterStates]
    BY <1>3, ReporterType DEF ReporterWakes, ReporterStates
  <2>2. QED
    BY <1>3, <2>1 DEF ReporterWakes, TypeOK
<1>4. CASE LoadCurrentID(c)
  <2>1. reporter' \in [Clients -> ReporterStates]
    BY <1>4, ReporterType DEF LoadCurrentID, ReporterStates
  <2>2. local' \in [Clients -> 0..MaxID]
    BY <1>4 DEF LoadCurrentID, TypeOK
  <2>3. QED
    BY <1>4, <2>1, <2>2 DEF LoadCurrentID, TypeOK
<1>5. CASE CompareAndSwap(c)
  <2>1. reporter' \in [Clients -> ReporterStates]
    BY <1>5, ReporterType DEF CompareAndSwap, ReporterStates
  <2>2. QED
    BY <1>5, <2>1 DEF CompareAndSwap, TypeOK
<1>6. CASE PrintGrant(c)
  <2>1. reporter' \in [Clients -> ReporterStates]
    BY <1>6, ReporterType DEF PrintGrant, ReporterStates
  <2>2. wire' \in [Clients -> Seq(0..MaxID)]
    BY <1>6, WriteType DEF PrintGrant, TypeOK
  <2>3. QED
    BY <1>6, <2>1, <2>2 DEF PrintGrant, TypeOK
<1>7. CASE ReporterQuits(c)
  <2>1. reporter' \in [Clients -> ReporterStates]
    BY <1>7, ReporterType DEF ReporterQuits, ReporterStates
  <2>2. QED
    BY <1>7, <2>1 DEF ReporterQuits, TypeOK
<1>8. QED
  BY <1>1, <1>2, <1>3, <1>4, <1>5, <1>6, <1>7 DEF Reporter, UpdateCurrentID

LEMMA NextTypeOK == TypeOK /\ [Next]_vars => TypeOK'
<1>1. ASSUME TypeOK, Next
      PROVE  TypeOK'
  BY <1>1, ClientTypeOK, MainTypeOK, WaiterTypeOK, WorkerTypeOK, ReporterTypeOK
     DEF Next
<1>2. TypeOK /\ UNCHANGED vars => TypeOK'
  BY DEF TypeOK, vars
<1>3. QED
  BY <1>1, <1>2

(* Every reachable state of go-queue is well typed: no ID passes the limit of *)
(* its type, and no position is negative.                                    *)
THEOREM TypeCorrect == Spec => []TypeOK
BY InitTypeOK, NextTypeOK, PTL DEF Spec

----------------------------------------------------------------------------
LEMMA InitQueueInv == Init => QueueInv
<1> SUFFICES ASSUME Init PROVE QueueInv
  OBVIOUS
<1>1. TypeOK
  BY InitTypeOK
<1>2. PendingInv
  BY DEF Init, PendingInv
<1>3. SlotInv
  BY DEF Init, SlotInv
<1>4. ReporterInv
  BY DEF Init, ReporterInv, Told, NothingRead
<1>5. QED
  BY <1>1, <1>2, <1>3, <1>4 DEF QueueInv

LEMMA ConnectQueueInv ==
    ASSUME QueueInv, NEW c \in Clients, Connect(c)
    PROVE  PendingInv' /\ SlotInv' /\ ReporterInv'
<1> USE DEF QueueInv, TypeOK
<1>1. PendingInv'
  <2>1. /\ id[c] = 0
        /\ \A i \in DOMAIN pending : pending[i] # c
    BY DEF Connect, PendingInv
  <2>2. \A i \in DOMAIN pending' :
           \/ i \in DOMAIN pending /\ pending'[i] = pending[i]
           \/ i = Len(pending) + 1 /\ pending'[i] = c
    <3>1. pending \in Seq(Clients) /\ pending' = Append(pending, c)
      BY DEF Connect
    <3> HIDE DEF QueueInv, TypeOK
    <3>2. QED
      BY <3>1
  <2>3. peer' = [peer EXCEPT ![c] = "up"] /\ id' = id
    BY DEF Connect
  <2>4. /\ \A i \in DOMAIN pending' : id'[pending'[i]] = 0 /\ peer'[pending'[i]] # "none"
        /\ \A i, j \in DOMAIN pending' : pending'[i] = pending'[j] => i = j
    <3>1. \A i \in DOMAIN pending' : id'[pending'[i]] = 0 /\ peer'[pending'[i]] # "none"
      <4>1. \A i \in DOMAIN pending : pending[i] \in Clients
        OBVIOUS
      <4>2. QED
        BY <2>1, <2>2, <2>3, <4>1 DEF PendingInv
    <3>2. \A i, j \in DOMAIN pending' : pending'[i] = pending'[j] => i = j
      <4>1. \A i, j \in DOMAIN pending : pending[i] = pending[j] => i = j
        BY DEF PendingInv
      <4>2. SUFFICES ASSUME NEW i \in DOMAIN pending', NEW j \in DOMAIN pending',
                            pending'[i] = pending'[j]
                     PROVE  i = j
        OBVIOUS
      <4>3. CASE i \in DOMAIN pending /\ pending'[i] = pending[i]
        BY <2>1, <2>2, <4>1, <4>2, <4>3
      <4>4. CASE i = Len(pending) + 1 /\ pending'[i] = c
        BY <2>1, <2>2, <4>2, <4>4
      <4>5. QED
        BY <2>2, <4>3, <4>4
    <3>3. QED
      BY <3>1, <3>2
  <2>5. \A d \in Clients :
          /\ peer'[d] = "none" => id'[d] = 0
          /\ id'[d] = 0 => /\ waiter'[d] = "none" /\ reporter'[d] = "none"
                           /\ ~closed'[d]
                           /\ wire'[d] = <<>> /\ shown'[d] = NothingRead
    BY <2>3 DEF Connect, PendingInv
  <2>6. QED
    BY <2>4, <2>5 DEF PendingInv
<1>2. SlotInv'
  BY DEF Connect, SlotInv
<1>3. ReporterInv'
  BY DEF Connect, ReporterInv, Told
<1>4. QED
  BY <1>1, <1>2, <1>3

LEMMA ReadLineQueueInv ==
    ASSUME QueueInv, NEW c \in Clients, ReadLine(c)
    PROVE  PendingInv' /\ SlotInv' /\ ReporterInv'
<1> USE DEF QueueInv, TypeOK
<1>1. PendingInv'
  BY DEF ReadLine, PendingInv
<1>2. SlotInv'
  BY DEF ReadLine, SlotInv
<1>3. ReporterInv'
  <2>1. \A d \in Clients : Told(d)' => Told(d)
    <3>1. SUFFICES ASSUME NEW d \in Clients, Told(d)' PROVE Told(d)
      OBVIOUS
    <3>2. CASE d # c
      BY <3>1, <3>2 DEF Told, ReadLine
    <3>3. CASE d = c
      <4>1. /\ wire[c] \in Seq(0..MaxID) /\ wire[c] # <<>>
            /\ shown'[c] = wire[c][1] /\ wire'[c] = Tail(wire[c])
        BY DEF ReadLine
      <4>2. /\ 1 \in DOMAIN wire[c]
            /\ \A i \in DOMAIN wire'[c] :
                  i + 1 \in DOMAIN wire[c] /\ wire'[c][i] = wire[c][i + 1]
        BY <4>1
      <4>3. QED
        BY <3>1, <3>3, <4>1, <4>2 DEF Told
    <3>4. QED
      BY <3>2, <3>3
  <2>2. QED
    BY <2>1 DEF ReadLine, ReporterInv
<1>4. QED
  BY <1>1, <1>2, <1>3

LEMMA HangupQueueInv ==
    ASSUME QueueInv, NEW c \in Clients, Hangup(c)
    PROVE  PendingInv' /\ SlotInv' /\ ReporterInv'
<1> USE DEF QueueInv, TypeOK
<1>1. PendingInv'
  BY DEF Hangup, PendingInv
<1>2. SlotInv'
  BY DEF Hangup, SlotInv
<1>3. ReporterInv'
  BY DEF Hangup, ReporterInv, Told, NothingRead
<1>4. QED
  BY <1>1, <1>2, <1>3

(* Serving the first connection of the queue: nobody else waits under its    *)
(* name, so the rest of the queue is still unserved.                         *)
LEMMA ServeQueueInv ==
    ASSUME QueueInv, ServeClient
    PROVE  PendingInv' /\ SlotInv' /\ ReporterInv'
<1> USE DEF QueueInv, TypeOK
<1> DEFINE c == Head(pending)
<1>1. /\ c \in Clients /\ 1 \in DOMAIN pending /\ c = pending[1]
      /\ DOMAIN pending' = 1..Len(pending) - 1
      /\ \A i \in DOMAIN pending' :
            i + 1 \in DOMAIN pending /\ pending'[i] = pending[i + 1]
  BY DEF ServeClient
<1>2. id[c] = 0 /\ peer[c] # "none"
  BY <1>1 DEF PendingInv
<1>3. /\ id' = [id EXCEPT ![c] = idCounter + 1]
      /\ waiter' = [waiter EXCEPT ![c] = "offer"]
      /\ reporter' = [reporter EXCEPT ![c] = "select"]
      /\ idCounter + 1 > 0
  BY DEF ServeClient
<1> HIDE DEF c
<1>4. PendingInv'
  <2>1. \A i, j \in DOMAIN pending' : pending'[i] = pending'[j] => i = j
    BY <1>1 DEF PendingInv
  <2>2. \A i \in DOMAIN pending' : pending'[i] # c
    BY <1>1 DEF PendingInv
  <2>3. \A i \in DOMAIN pending' : pending'[i] \in Clients
    BY <1>1
  <2>4. \A i \in DOMAIN pending' : id'[pending'[i]] = 0 /\ peer'[pending'[i]] # "none"
    BY <1>1, <1>3, <2>2, <2>3 DEF ServeClient, PendingInv
  <2>5. QED
    BY <1>1, <1>2, <1>3, <2>1, <2>4 DEF ServeClient, PendingInv
<1>5. SlotInv'
  BY <1>1, <1>3 DEF ServeClient, SlotInv
<1>6. ReporterInv'
  <2>1. ~Told(c) /\ \A d \in Clients : Told(d)' = Told(d)
    BY <1>1, <1>2 DEF ServeClient, PendingInv, Told, NothingRead
  <2>2. QED
    BY <1>1, <1>2, <1>3, <2>1 DEF ServeClient, ReporterInv
<1>7. QED
  BY <1>4, <1>5, <1>6

(* The other steps of go-queue leave the queue of connections, the clients'  *)
(* ends and the IDs alone.                                                   *)
LEMMA IDOverflowQueueInv ==
    ASSUME QueueInv, IDOverflow
    PROVE  PendingInv' /\ SlotInv' /\ ReporterInv'
BY DEF QueueInv, PendingInv, SlotInv, ReporterInv, Told, IDOverflow

LEMMA HandoffQueueInv ==
    ASSUME QueueInv, NEW c \in Clients, NEW w \in Workers, Handoff(c, w)
    PROVE  PendingInv' /\ SlotInv' /\ ReporterInv'
<1> USE DEF QueueInv, TypeOK
<1>1. PendingInv'
  BY DEF Handoff, PendingInv
<1>2. SlotInv'
  <2>1. /\ worker'[w] = c
        /\ \A v \in Workers : worker[v] # NoClient => worker'[v] = worker[v]
    BY DEF Handoff
  <2>2. \A d \in Clients : (\E v \in Workers : worker[v] = d) =>
                                (\E v \in Workers : worker'[v] = d)
    BY <2>1
  <2>3. QED
    BY <2>1, <2>2 DEF Handoff, SlotInv
<1>3. ReporterInv'
  BY DEF Handoff, ReporterInv, Told
<1>4. QED
  BY <1>1, <1>2, <1>3

LEMMA WaiterQueueInv ==
    ASSUME QueueInv, NEW c \in Clients,
           CloseWakeUp(c) \/ WaiterQuits(c) \/ ReaderCloses(c)
    PROVE  PendingInv' /\ SlotInv' /\ ReporterInv'
<1> USE DEF QueueInv, TypeOK
<1>1. PendingInv'
  BY DEF CloseWakeUp, WaiterQuits, ReaderCloses, PendingInv
<1>2. SlotInv'
  <2>1. CASE CloseWakeUp(c)
    BY <2>1 DEF CloseWakeUp, SlotInv
  <2>2. CASE WaiterQuits(c)
    BY <2>2 DEF WaiterQuits, SlotInv
  <2>3. CASE ReaderCloses(c)
    BY <2>3 DEF ReaderCloses, SlotInv
  <2>4. QED
    BY <2>1, <2>2, <2>3
<1>3. ReporterInv'
  BY DEF CloseWakeUp, WaiterQuits, ReaderCloses, ReporterInv, Told
<1>4. QED
  BY <1>1, <1>2, <1>3

(* A worker only lets go of a client that is closed.  *)
LEMMA WorkerQueueInv ==
    ASSUME QueueInv, NEW w \in Workers, WorkerReleases(w)
    PROVE  PendingInv' /\ SlotInv' /\ ReporterInv'
<1> USE DEF QueueInv, TypeOK
<1>1. PendingInv'
  BY DEF WorkerReleases, PendingInv
<1>2. SlotInv'
  <2>1. \A d \in Clients : ~closed[d] /\ (\E v \in Workers : worker[v] = d) =>
                                (\E v \in Workers : worker'[v] = d)
    BY DEF WorkerReleases
  <2>2. QED
    BY <2>1 DEF WorkerReleases, SlotInv
<1>3. ReporterInv'
  BY DEF WorkerReleases, ReporterInv, Told
<1>4. QED
  BY <1>1, <1>2, <1>3

(* Only a write of 0 can tell a client 0.  *)
LEMMA WriteTold ==
    ASSUME TypeOK, NEW c \in Clients, NEW line \in 0..MaxID, Write(c, line),
           UNCHANGED shown, NEW d \in Clients, Told(d)'
    PROVE  Told(d) \/ (d = c /\ line = 0)
<1>1. CASE d # c \/ wire' = wire
  <2>1. wire'[d] = wire[d]
    BY <1>1 DEF Write, TypeOK
  <2>2. QED
    BY <2>1 DEF Told
<1>2. CASE d = c /\ wire' = [wire EXCEPT ![c] = Append(@, line)]
  <2>1. wire[c] \in Seq(0..MaxID) /\ wire'[c] = Append(wire[c], line)
    BY <1>2 DEF TypeOK
  <2>2. \A i \in DOMAIN wire'[c] :
           \/ i \in DOMAIN wire[c] /\ wire'[c][i] = wire[c][i]
           \/ wire'[c][i] = line
    BY <2>1
  <2>3. QED
    BY <1>2, <2>2 DEF Told
<1>3. QED
  BY <1>1, <1>2 DEF Write

(* A connection whose reporter runs was served: it is not in the queue.  *)
LEMMA ReporterServed ==
    ASSUME QueueInv, NEW c \in Clients, reporter[c] # "none"
    PROVE  id[c] # 0 /\ id[c] > 0
BY DEF QueueInv, PendingInv, TypeOK

LEMMA WritePendingInv ==
    ASSUME QueueInv, NEW c \in Clients, NEW line \in 0..MaxID, Write(c, line),
           id[c] # 0, reporter'[c] # "none",
           \A d \in Clients : d # c => reporter'[d] = reporter[d],
           UNCHANGED <<pending, peer, id, closed, waiter, shown>>
    PROVE  PendingInv'
<1>1. \A d \in Clients : d # c => wire'[d] = wire[d]
  BY DEF Write, QueueInv, TypeOK
<1>2. QED
  BY <1>1 DEF QueueInv, PendingInv

LEMMA PrintPositionQueueInv ==
    ASSUME QueueInv, NEW c \in Clients, PrintPosition(c)
    PROVE  PendingInv' /\ SlotInv' /\ ReporterInv'
<1>1. TypeOK /\ local[c] \in 0..MaxID /\ local[c] > 0
  BY DEF QueueInv, TypeOK, ReporterInv, PrintPosition
<1>2. /\ reporter' = [reporter EXCEPT ![c] = "select"]
      /\ local' = [local EXCEPT ![c] = 0]
      /\ Write(c, local[c])
      /\ UNCHANGED <<pending, peer, id, closed, waiter, worker, shown>>
  BY DEF PrintPosition
<1>3. reporter[c] = "report"
  BY DEF PrintPosition
<1>4. PendingInv'
  BY <1>1, <1>2, <1>3, ReporterServed, WritePendingInv DEF TypeOK
<1>5. SlotInv'
  BY <1>1, <1>2, <1>3 DEF QueueInv, SlotInv, TypeOK
<1>6. ReporterInv'
  <2>1. \A d \in Clients : Told(d)' => Told(d)
    BY <1>1, <1>2, WriteTold
  <2>2. QED
    BY <1>1, <1>2, <1>3, <2>1 DEF QueueInv, ReporterInv, TypeOK
<1>7. QED
  BY <1>4, <1>5, <1>6

LEMMA PrintGrantQueueInv ==
    ASSUME QueueInv, NEW c \in Clients, PrintGrant(c)
    PROVE  PendingInv' /\ SlotInv' /\ ReporterInv'
<1>1. TypeOK /\ 0 \in 0..MaxID
  BY DEF QueueInv
<1>2. /\ reporter' = [reporter EXCEPT ![c] = "granted"]
      /\ Write(c, 0)
      /\ UNCHANGED <<pending, peer, id, closed, waiter, local, worker, shown>>
  BY DEF PrintGrant
<1>3. reporter[c] = "grant"
  BY DEF PrintGrant
<1>4. PendingInv'
  BY <1>1, <1>2, <1>3, ReporterServed, WritePendingInv DEF TypeOK
<1>5. SlotInv'
  BY <1>1, <1>2, <1>3 DEF QueueInv, SlotInv, TypeOK
<1>6. ReporterInv'
  <2>1. \A d \in Clients : Told(d)' => Told(d) \/ d = c
    BY <1>1, <1>2, WriteTold
  <2>2. QED
    BY <1>1, <1>2, <1>3, <2>1 DEF QueueInv, ReporterInv, TypeOK
<1>7. QED
  BY <1>4, <1>5, <1>6

(* The other steps of a reporter write nothing.  *)
LEMMA TimerFiresQueueInv ==
    ASSUME QueueInv, NEW c \in Clients, TimerFires(c)
    PROVE  PendingInv' /\ SlotInv' /\ ReporterInv'
<1> USE DEF QueueInv, TypeOK
<1>1. Position(id[c], currentID) > 0
  BY DEF Position
<1>2. PendingInv'
  BY ReporterServed DEF TimerFires, PendingInv
<1>3. SlotInv'
  BY DEF TimerFires, SlotInv
<1>4. ReporterInv'
  BY <1>1 DEF TimerFires, ReporterInv, Told
<1>5. QED
  BY <1>2, <1>3, <1>4

LEMMA WakeQueueInv ==
    ASSUME QueueInv, NEW c \in Clients, ReporterWakes(c) \/ ReporterQuits(c)
    PROVE  PendingInv' /\ SlotInv' /\ ReporterInv'
<1> USE DEF QueueInv, TypeOK
<1>1. PendingInv'
  BY ReporterServed DEF ReporterWakes, ReporterQuits, PendingInv
<1>2. SlotInv'
  BY DEF ReporterWakes, ReporterQuits, SlotInv
<1>3. ReporterInv'
  BY DEF ReporterWakes, ReporterQuits, ReporterInv, Told
<1>4. QED
  BY <1>1, <1>2, <1>3

LEMMA UpdateCurrentIDQueueInv ==
    ASSUME QueueInv, NEW c \in Clients, UpdateCurrentID(c)
    PROVE  PendingInv' /\ SlotInv' /\ ReporterInv'
<1> USE DEF QueueInv, TypeOK
<1>1. CASE LoadCurrentID(c)
  <2>1. PendingInv'
    BY <1>1, ReporterServed DEF LoadCurrentID, PendingInv
  <2>2. SlotInv'
    BY <1>1 DEF LoadCurrentID, SlotInv
  <2>3. ReporterInv'
    BY <1>1 DEF LoadCurrentID, ReporterInv, Told
  <2>4. QED
    BY <2>1, <2>2, <2>3
<1>2. CASE CompareAndSwap(c)
  <2>1. PendingInv'
    BY <1>2, ReporterServed DEF CompareAndSwap, PendingInv
  <2>2. SlotInv'
    BY <1>2 DEF CompareAndSwap, SlotInv
  <2>3. ReporterInv'
    BY <1>2 DEF CompareAndSwap, ReporterInv, Told
  <2>4. QED
    BY <2>1, <2>2, <2>3
<1>3. QED
  BY <1>1, <1>2 DEF UpdateCurrentID

LEMMA NextQueueInv == QueueInv /\ [Next]_vars => QueueInv'
<1>1. ASSUME QueueInv, Next
      PROVE  PendingInv' /\ SlotInv' /\ ReporterInv'
  <2>1. CASE ServeClient \/ IDOverflow
    BY <1>1, <2>1, ServeQueueInv, IDOverflowQueueInv
  <2>2. CASE \E w \in Workers : WorkerReleases(w)
    BY <1>1, <2>2, WorkerQueueInv
  <2>3. ASSUME NEW c \in Clients, Client(c)
        PROVE  PendingInv' /\ SlotInv' /\ ReporterInv'
    BY <1>1, <2>3, ConnectQueueInv, ReadLineQueueInv, HangupQueueInv DEF Client
  <2>4. ASSUME NEW c \in Clients, Waiter(c) \/ ReaderCloses(c)
        PROVE  PendingInv' /\ SlotInv' /\ ReporterInv'
    BY <1>1, <2>4, HandoffQueueInv, WaiterQueueInv DEF Waiter
  <2>5. ASSUME NEW c \in Clients, Reporter(c)
        PROVE  PendingInv' /\ SlotInv' /\ ReporterInv'
    BY <1>1, <2>5, PrintPositionQueueInv, PrintGrantQueueInv, TimerFiresQueueInv,
       WakeQueueInv, UpdateCurrentIDQueueInv DEF Reporter
  <2>6. QED
    BY <1>1, <2>1, <2>2, <2>3, <2>4, <2>5 DEF Next
<1>2. QueueInv /\ UNCHANGED vars => PendingInv' /\ SlotInv' /\ ReporterInv'
  BY DEF QueueInv, PendingInv, SlotInv, ReporterInv, Told, vars
<1>3. QED
  BY <1>1, <1>2, NextTypeOK DEF QueueInv

(* The inductive invariant holds in every reachable state.  *)
THEOREM QueueCorrect == Spec => []QueueInv
BY InitQueueInv, NextQueueInv, PTL DEF Spec

----------------------------------------------------------------------------
LEMMA QueueInvGrantHoldsSlot == QueueInv => GrantHoldsSlot
<1> SUFFICES ASSUME QueueInv, NEW c \in Clients, Told(c), peer[c] = "up"
             PROVE  \E w \in Workers : Holds(w, c)
  BY DEF GrantHoldsSlot
<1>1. waiter[c] = "woke"
  BY DEF QueueInv, ReporterInv, SlotInv
<1>2. ~closed[c]
  BY DEF QueueInv, SlotInv
<1>3. QED
  BY <1>1, <1>2 DEF QueueInv, SlotInv, Holds

(* Whoever was told 0 and is connected keeps a worker waiting for the end of *)
(* its connection.                                                           *)
THEOREM GrantSafe == Spec => []GrantHoldsSlot
BY QueueCorrect, QueueInvGrantHoldsSlot, PTL

LEMMA StatusType == status \in [Clients -> A!Statuses]
BY DEF status, A!Statuses

LEMMA StatusActive ==
    ASSUME NEW c \in Clients
    PROVE  status[c] = "active" <=> peer[c] = "up" /\ Told(c)
BY DEF status

Held == {worker[w] : w \in Workers}

(* The workers hold at most as many clients as there are workers, and the   *)
(* active clients are among them.                                           *)
LEMMA HeldClients ==
    ASSUME TypeOK
    PROVE  /\ IsFiniteSet(Held)
           /\ Cardinality(Held) \in Nat /\ Cardinality(Workers) \in Nat
           /\ Cardinality(Held) <= Cardinality(Workers)
<1>1. worker \in Surjection(Workers, Held)
  BY DEF TypeOK, Surjection, Held
<1>2. IsFiniteSet(Held) /\ Cardinality(Held) <= Cardinality(Workers)
  BY <1>1, FS_Surjection
<1>3. QED
  BY <1>2, FS_CardinalityType

LEMMA ActiveHeld == QueueInv => A!Active \subseteq Held
BY StatusActive, QueueInvGrantHoldsSlot DEF A!Active, GrantHoldsSlot, Holds, Held

(* Cardinality as Admission sees it is the one of this module.  *)
LEMMA SameCardinality == \A S : A!Cardinality(S) = Cardinality(S)
BY DEF A!Cardinality, Cardinality

LEMMA QueueInvAdmissionLimit == QueueInv => AdmissionLimit
<1> SUFFICES ASSUME QueueInv PROVE Cardinality(A!Active) <= Cardinality(Workers)
  BY SameCardinality DEF AdmissionLimit, A!WithinCapacity
<1>1. /\ IsFiniteSet(Held) /\ Cardinality(Held) <= Cardinality(Workers)
      /\ Cardinality(Held) \in Nat /\ Cardinality(Workers) \in Nat
  BY HeldClients DEF QueueInv
<1>2. Cardinality(A!Active) <= Cardinality(Held) /\ IsFiniteSet(A!Active)
  BY <1>1, ActiveHeld, FS_Subset
<1>3. Cardinality(A!Active) \in Nat
  BY <1>2, FS_CardinalityType
<1>4. QED
  BY <1>1, <1>2, <1>3

(* At most --queue-size admitted clients are connected, for every queue size *)
(* and every number of clients.                                              *)
THEOREM AdmissionLimited == Spec => []AdmissionLimit
BY QueueCorrect, QueueInvAdmissionLimit, PTL

(* Only the compare-and-swap writes currentID, and only to raise it.  *)
LEMMA NextCurrentID == QueueInv /\ [Next]_vars => currentID' >= currentID
<1> SUFFICES ASSUME QueueInv, [Next]_vars, currentID' # currentID
             PROVE  currentID' >= currentID
  BY DEF QueueInv, TypeOK
<1>1. PICK c \in Clients : CompareAndSwap(c)
  BY DEF Next, vars, Client, Connect, ReadLine, Hangup, ServeClient, IDOverflow,
         Waiter, Handoff, CloseWakeUp, WaiterQuits, ReaderCloses, WorkerReleases,
         Reporter, TimerFires, PrintPosition, ReporterWakes, UpdateCurrentID,
         LoadCurrentID, PrintGrant, ReporterQuits
<1>2. currentID = local[c] /\ currentID' = id[c] /\ local[c] < id[c]
  BY <1>1 DEF CompareAndSwap, QueueInv, ReporterInv
<1>3. QED
  BY <1>2 DEF QueueInv, TypeOK

(* However many reporters update it at the same time, currentID never falls. *)
THEOREM CurrentIDMonotone == Spec => CurrentIDNeverFalls
<1>1. QueueInv /\ [Next]_vars => [currentID' >= currentID]_vars
  BY NextCurrentID
<1>2. QED
  BY <1>1, QueueCorrect, PTL DEF Spec, CurrentIDNeverFalls

(* Only serveClient gives out IDs, and the counter only grows.  *)
LEMMA NextIDs ==
    ASSUME TypeOK, IDInv, [Next]_vars
    PROVE  /\ IDInv'
           /\ \A c \in Clients :
                 id'[c] # id[c] => \A d \in Clients : id[d] < id'[c]
<1>1. CASE ServeClient
  <2>1. /\ Head(pending) \in Clients
        /\ id' = [id EXCEPT ![Head(pending)] = idCounter + 1]
        /\ idCounter' = idCounter + 1
    BY <1>1 DEF ServeClient, TypeOK
  <2>2. \A d \in Clients : id[d] < idCounter + 1 /\ id[d] \in Nat /\ idCounter \in Nat
    BY DEF IDInv, TypeOK
  <2>3. \A d \in Clients : id'[d] = IF d = Head(pending) THEN idCounter + 1 ELSE id[d]
    BY <2>1 DEF TypeOK
  <2>4. \A d \in Clients : id'[d] <= idCounter'
    BY <2>1, <2>2, <2>3
  <2>5. ASSUME NEW d \in Clients, NEW e \in Clients, id'[d] # 0, id'[d] = id'[e]
        PROVE  d = e
    BY <2>2, <2>3, <2>5 DEF IDInv
  <2>6. \A d \in Clients : id'[d] # id[d] => \A e \in Clients : id[e] < id'[d]
    BY <2>2, <2>3
  <2>7. QED
    BY <2>4, <2>5, <2>6 DEF IDInv
<1>2. CASE UNCHANGED <<id, idCounter>>
  BY <1>2 DEF IDInv
<1>3. CASE IDOverflow \/ (\E w \in Workers : WorkerReleases(w)) \/ UNCHANGED vars
  BY <1>2, <1>3 DEF IDOverflow, WorkerReleases, vars
<1>4. ASSUME NEW c \in Clients, Client(c) \/ Waiter(c) \/ ReaderCloses(c)
      PROVE  UNCHANGED <<id, idCounter>>
  BY <1>4 DEF Client, Connect, ReadLine, Hangup, Waiter, Handoff, CloseWakeUp,
              WaiterQuits, ReaderCloses
<1>5. ASSUME NEW c \in Clients, Reporter(c)
      PROVE  UNCHANGED <<id, idCounter>>
  BY <1>5 DEF Reporter, TimerFires, PrintPosition, ReporterWakes, UpdateCurrentID,
              LoadCurrentID, CompareAndSwap, PrintGrant, ReporterQuits
<1>6. QED
  BY <1>1, <1>2, <1>3, <1>4, <1>5 DEF Next

LEMMA InitIDs == Init => IDInv
BY DEF Init, IDInv

(* The IDs identify the connections.  *)
THEOREM IDsCorrect == Spec => []IDInv
<1>1. TypeOK /\ IDInv /\ [Next]_vars => IDInv'
  BY NextIDs
<1>2. QED
  BY <1>1, InitIDs, TypeCorrect, PTL DEF Spec

(* No ID is given twice, and a later connection has a larger one.  *)
THEOREM IDsGivenInOrder == Spec => IDsAscend
<1>1. TypeOK /\ IDInv /\ [Next]_vars =>
        [\A c \in Clients :
            id'[c] \notin {0, id[c]} => \A d \in Clients : id[d] < id'[c]]_vars
  BY NextIDs
<1>2. QED
  BY <1>1, IDsCorrect, TypeCorrect, PTL DEF Spec, IDsAscend


----------------------------------------------------------------------------
(* A position is a positive number below the one nothing was read with, and  *)
(* it falls as currentID rises.                                              *)
LEMMA PositionBounds ==
    ASSUME NEW myID \in 1..MaxID, NEW current \in 0..MaxID
    PROVE  /\ Position(myID, current) \in 1..MaxID
           /\ Position(myID, current) < NothingRead
           /\ \A later \in 0..MaxID :
                 later >= current => Position(myID, later) <= Position(myID, current)
BY DEF Position, NothingRead

LEMMA InitLinesInv == Init => LinesInv
BY DEF Init, LinesInv, LinesInvOf, Told, NothingRead

(* A step that writes, reads and serves nothing, and starts no report, keeps *)
(* the lines in order.                                                       *)
LEMMA QuietLinesInv ==
    ASSUME TypeOK, TypeOK', LinesInv, currentID' >= currentID,
           UNCHANGED <<wire, shown, id>>,
           \A d \in Clients : reporter'[d] = "report" =>
                               reporter[d] = "report" /\ local'[d] = local[d]
    PROVE  LinesInv'
<1> SUFFICES ASSUME NEW d \in Clients
             PROVE  /\ id[d] # 0 /\ ~Told(d) =>
                          /\ shown[d] >= Position(id[d], currentID')
                          /\ \A i \in DOMAIN wire[d] :
                                wire[d][i] >= Position(id[d], currentID')
                    /\ reporter'[d] = "report" => local[d] >= Position(id[d], currentID')
  BY DEF LinesInv, LinesInvOf, Told
<1>1. /\ currentID \in 0..MaxID /\ currentID' \in 0..MaxID /\ id[d] \in 0..MaxID
      /\ local[d] \in 0..MaxID /\ shown[d] \in 0..NothingRead
      /\ wire[d] \in Seq(0..MaxID)
  BY DEF TypeOK
<1>2. Position(id[d], currentID') <= Position(id[d], currentID)
  BY <1>1 DEF Position
<1>3. /\ Position(id[d], currentID) \in Nat /\ Position(id[d], currentID') \in Nat
      /\ \A i \in DOMAIN wire[d] : wire[d][i] \in Nat
      /\ shown[d] \in Nat
  BY <1>1 DEF Position, NothingRead
<1>4. QED
  BY <1>1, <1>2, <1>3 DEF LinesInv, LinesInvOf

LEMMA ServeLinesInv ==
    ASSUME QueueInv, TypeOK', LinesInv, ServeClient
    PROVE  LinesInv'
<1> DEFINE c == Head(pending)
<1>1. c \in Clients /\ 1 \in DOMAIN pending /\ c = pending[1]
  BY DEF ServeClient, QueueInv, TypeOK
<1>2. wire[c] = <<>> /\ shown[c] = NothingRead
  BY <1>1 DEF QueueInv, PendingInv
<1>3. /\ id' = [id EXCEPT ![c] = idCounter + 1]
      /\ idCounter + 1 \in 1..MaxID /\ currentID \in 0..MaxID
      /\ id \in [Clients -> 0..MaxID]
      /\ reporter \in [Clients -> ReporterStates]
      /\ reporter' = [reporter EXCEPT ![c] = "select"]
      /\ UNCHANGED <<wire, shown, currentID, local>>
  BY DEF ServeClient, QueueInv, TypeOK
<1>4. NothingRead >= Position(idCounter + 1, currentID)
  BY <1>3, PositionBounds DEF NothingRead
<1> HIDE DEF c
<1>5. QED
  BY <1>1, <1>2, <1>3, <1>4 DEF LinesInv, LinesInvOf, Told

LEMMA ReadLineLinesInv ==
    ASSUME QueueInv, LinesInv, NEW c \in Clients, ReadLine(c)
    PROVE  LinesInv'
<1>1. /\ wire[c] \in Seq(0..MaxID) /\ wire[c] # <<>>
      /\ shown \in [Clients -> 0..NothingRead] /\ wire \in [Clients -> Seq(0..MaxID)]
      /\ shown' = [shown EXCEPT ![c] = wire[c][1]]
      /\ wire' = [wire EXCEPT ![c] = Tail(wire[c])]
      /\ UNCHANGED <<id, currentID, reporter, local>>
  BY DEF QueueInv, TypeOK, ReadLine
<1>2. /\ 1 \in DOMAIN wire[c]
      /\ \A i \in DOMAIN Tail(wire[c]) :
            /\ i \in Nat /\ 1 < i + 1
            /\ i + 1 \in DOMAIN wire[c] /\ Tail(wire[c])[i] = wire[c][i + 1]
  BY <1>1
<1>3. \A i, j \in DOMAIN Tail(wire[c]) : i < j => i + 1 < j + 1
  BY <1>2
<1>4. Told(c) \/ ~Told(c)'
  BY <1>1, <1>2 DEF Told
<1>5. Told(c) => Told(c)'
  <2>1. shown[c] # 0
    BY <1>2 DEF LinesInv, LinesInvOf
  <2>2. SUFFICES ASSUME NEW i \in DOMAIN wire[c], wire[c][i] = 0
                 PROVE  Told(c)'
    BY <2>1 DEF Told
  <2>3. CASE i = 1
    BY <1>1, <2>2, <2>3 DEF Told
  <2>4. CASE i # 1
    <3>1. i - 1 \in DOMAIN Tail(wire[c]) /\ Tail(wire[c])[i - 1] = wire[c][i]
      BY <1>1, <2>4
    <3>2. QED
      BY <1>1, <2>2, <3>1 DEF Told
  <2>5. QED
    BY <2>3, <2>4
<1>6. \A d \in Clients : d # c =>
         shown'[d] = shown[d] /\ wire'[d] = wire[d] /\ Told(d)' = Told(d)
  BY <1>1 DEF Told
<1>7. shown'[c] = wire[c][1] /\ wire'[c] = Tail(wire[c])
  BY <1>1
<1>8. QED
  <2> SUFFICES ASSUME NEW d \in Clients
               PROVE  LinesInvOf(d)'
    BY DEF LinesInv
  <2>1. CASE d # c
    BY <1>1, <1>6, <2>1 DEF LinesInv, LinesInvOf
  <2>2. CASE d = c
    BY <1>1, <1>2, <1>3, <1>4, <1>5, <1>7, <2>2 DEF LinesInv, LinesInvOf
  <2>3. QED
    BY <2>1, <2>2

LEMMA HangupLinesInv ==
    ASSUME QueueInv, LinesInv, NEW c \in Clients, Hangup(c)
    PROVE  LinesInv'
<1>1. /\ shown' = [shown EXCEPT ![c] = NothingRead] /\ wire' = [wire EXCEPT ![c] = <<>>]
      /\ UNCHANGED <<id, currentID, reporter, local>>
      /\ shown \in [Clients -> 0..NothingRead] /\ wire \in [Clients -> Seq(0..MaxID)]
      /\ id[c] \in 0..MaxID /\ currentID \in 0..MaxID /\ local[c] \in 0..MaxID
  BY DEF Hangup, QueueInv, TypeOK
<1>2. /\ NothingRead >= local[c]
      /\ id[c] # 0 => NothingRead >= Position(id[c], currentID)
  <2>1. NothingRead >= local[c]
    BY <1>1 DEF NothingRead
  <2>2. ASSUME id[c] # 0
        PROVE  Position(id[c], currentID) \in 1..MaxID
    <3>1. id[c] \in 1..MaxID
      BY <1>1, <2>2
    <3>2. QED
      BY <1>1, <3>1, PositionBounds
  <2>3. QED
    BY <2>1, <2>2 DEF NothingRead
<1>3. SUFFICES ASSUME NEW d \in Clients PROVE LinesInvOf(d)'
  BY DEF LinesInv
<1>4. CASE d # c
  <2>1. shown'[d] = shown[d] /\ wire'[d] = wire[d] /\ Told(d)' = Told(d)
    BY <1>1, <1>4 DEF Told
  <2>2. QED
    BY <1>1, <2>1 DEF LinesInv, LinesInvOf
<1>5. CASE d = c
  <2>1. shown'[c] = NothingRead /\ wire'[c] = <<>>
    BY <1>1
  <2>2. QED
    BY <1>1, <1>2, <1>5, <2>1 DEF LinesInv, LinesInvOf
<1>6. QED
  BY <1>4, <1>5

LEMMA TimerFiresLinesInv ==
    ASSUME QueueInv, LinesInv, NEW c \in Clients, TimerFires(c)
    PROVE  LinesInv'
<1>1. id[c] \in 1..MaxID /\ currentID \in 0..MaxID
  BY ReporterServed DEF TimerFires, QueueInv, TypeOK
<1>2. Position(id[c], currentID) \in 1..MaxID
  BY <1>1, PositionBounds
<1>3. ~Told(c)
  BY DEF QueueInv, ReporterInv, TimerFires
<1>4. /\ local' = [local EXCEPT ![c] = Position(id[c], currentID)]
      /\ reporter' = [reporter EXCEPT ![c] = "report"]
      /\ local \in [Clients -> 0..MaxID] /\ reporter \in [Clients -> ReporterStates]
      /\ UNCHANGED <<id, currentID, wire, shown>>
  BY DEF TimerFires, QueueInv, TypeOK
<1>5. QED
  BY <1>1, <1>2, <1>3, <1>4 DEF LinesInv, LinesInvOf, Told

(* A line that no earlier line is below is appended in order.  *)
LEMMA WriteLinesInv ==
    ASSUME QueueInv, LinesInv, NEW c \in Clients, NEW line \in 0..MaxID,
           Write(c, line), ~Told(c),
           shown[c] >= line, \A i \in DOMAIN wire[c] : wire[c][i] >= line,
           line # 0 => line >= Position(id[c], currentID),
           reporter'[c] # "report",
           \A d \in Clients : d # c => reporter'[d] = reporter[d] /\ local'[d] = local[d],
           UNCHANGED <<id, currentID, shown>>
    PROVE  LinesInv'
<1>1. SUFFICES ASSUME NEW d \in Clients PROVE LinesInvOf(d)'
  BY DEF LinesInv
<1>2. CASE d # c
  <2>1. wire'[d] = wire[d] /\ Told(d)' = Told(d)
    BY <1>2 DEF Write, Told, QueueInv, TypeOK
  <2>2. QED
    BY <1>2, <2>1 DEF LinesInv, LinesInvOf
<1>3. CASE d = c /\ wire' = wire
  BY <1>3 DEF LinesInv, LinesInvOf, Told
<1>4. CASE d = c /\ wire' = [wire EXCEPT ![c] = Append(@, line)]
  <2>1. /\ wire[c] \in Seq(0..MaxID) /\ wire'[c] = Append(wire[c], line)
        /\ shown[c] \in 0..NothingRead
    BY <1>4 DEF QueueInv, TypeOK
  <2>2. /\ DOMAIN wire'[c] = 1..Len(wire[c]) + 1
        /\ wire'[c][Len(wire[c]) + 1] = line
        /\ \A i \in DOMAIN wire[c] : wire'[c][i] = wire[c][i] /\ i <= Len(wire[c])
    BY <2>1
  <2>3. \A i \in DOMAIN wire'[c] :
           \/ i \in DOMAIN wire[c] /\ wire'[c][i] = wire[c][i] /\ i <= Len(wire[c])
           \/ i = Len(wire[c]) + 1 /\ wire'[c][i] = line
    BY <2>1, <2>2
  <2>4. \A i \in DOMAIN wire[c] : wire[c][i] # 0
    BY DEF Told
  <2>5. shown[c] # 0
    BY DEF Told
  <2>6. \A i \in DOMAIN wire'[c] : shown[c] # 0 /\ shown[c] >= wire'[c][i]
    BY <2>3, <2>5 DEF LinesInv, LinesInvOf
  <2>7. \A i, j \in DOMAIN wire'[c] :
           i < j => wire'[c][i] # 0 /\ wire'[c][i] >= wire'[c][j]
    <3>1. SUFFICES ASSUME NEW i \in DOMAIN wire'[c], NEW j \in DOMAIN wire'[c], i < j
                   PROVE  wire'[c][i] # 0 /\ wire'[c][i] >= wire'[c][j]
      OBVIOUS
    <3>2. i \in DOMAIN wire[c] /\ wire'[c][i] = wire[c][i]
      BY <2>1, <2>2, <3>1
    <3>3. QED
      BY <2>3, <2>4, <3>1, <3>2 DEF LinesInv, LinesInvOf
  <2>8. ~Told(c)' => line # 0
    BY <2>2 DEF Told
  <2>9. id[c] # 0 /\ ~Told(c)' =>
           /\ shown[c] >= Position(id[c], currentID)
           /\ \A i \in DOMAIN wire'[c] : wire'[c][i] >= Position(id[c], currentID)
    BY <2>3, <2>8 DEF LinesInv, LinesInvOf
  <2>10. QED
    BY <1>4, <2>6, <2>7, <2>9 DEF LinesInvOf
<1>5. QED
  BY <1>2, <1>3, <1>4 DEF Write

LEMMA PrintLinesInv ==
    ASSUME QueueInv, LinesInv, NEW c \in Clients, PrintPosition(c) \/ PrintGrant(c)
    PROVE  LinesInv'
<1>1. /\ reporter \in [Clients -> ReporterStates] /\ local \in [Clients -> 0..MaxID]
      /\ shown[c] \in 0..NothingRead /\ wire[c] \in Seq(0..MaxID)
      /\ ~Told(c)
  BY DEF QueueInv, TypeOK, ReporterInv, PrintPosition, PrintGrant
<1>2. CASE PrintPosition(c)
  <2>1. /\ local[c] >= Position(id[c], currentID)
        /\ shown[c] >= local[c]
        /\ \A i \in DOMAIN wire[c] : wire[c][i] >= local[c]
    BY <1>2 DEF PrintPosition, LinesInv, LinesInvOf
  <2>2. /\ Write(c, local[c]) /\ local[c] \in 0..MaxID
        /\ reporter'[c] # "report"
        /\ \A d \in Clients : d # c => reporter'[d] = reporter[d] /\ local'[d] = local[d]
        /\ UNCHANGED <<id, currentID, shown>>
    BY <1>1, <1>2 DEF PrintPosition
  <2>3. QED
    BY <1>1, <2>1, <2>2, WriteLinesInv
<1>3. CASE PrintGrant(c)
  <2>1. shown[c] >= 0 /\ \A i \in DOMAIN wire[c] : wire[c][i] >= 0
    BY <1>1 DEF NothingRead
  <2>2. /\ Write(c, 0) /\ 0 \in 0..MaxID
        /\ reporter'[c] # "report"
        /\ \A d \in Clients : d # c => reporter'[d] = reporter[d] /\ local'[d] = local[d]
        /\ UNCHANGED <<id, currentID, shown>>
    BY <1>1, <1>3 DEF PrintGrant
  <2>3. QED
    BY <1>1, <2>1, <2>2, WriteLinesInv
<1>4. QED
  BY <1>2, <1>3

LEMMA NextLinesInv ==
    QueueInv /\ QueueInv' /\ LinesInv /\ [Next]_vars => LinesInv'
<1> SUFFICES ASSUME QueueInv, QueueInv', LinesInv, [Next]_vars PROVE LinesInv'
  OBVIOUS
<1> USE DEF QueueInv
<1>1. currentID' >= currentID
  BY NextCurrentID
<1>2. CASE UNCHANGED vars \/ IDOverflow \/ \E w \in Workers : WorkerReleases(w)
  BY <1>1, <1>2, QuietLinesInv DEF vars, IDOverflow, WorkerReleases
<1>3. CASE ServeClient
  BY <1>3, ServeLinesInv
<1>4. ASSUME NEW c \in Clients, Client(c)
      PROVE  LinesInv'
  <2>1. CASE Connect(c)
    BY <1>1, <2>1, QuietLinesInv DEF Connect
  <2>2. QED
    BY <1>4, <2>1, ReadLineLinesInv, HangupLinesInv DEF Client
<1>5. ASSUME NEW c \in Clients, Waiter(c) \/ ReaderCloses(c)
      PROVE  LinesInv'
  BY <1>1, <1>5, QuietLinesInv DEF Waiter, Handoff, CloseWakeUp, WaiterQuits, ReaderCloses
<1>6. ASSUME NEW c \in Clients, Reporter(c)
      PROVE  LinesInv'
  <2>1. CASE TimerFires(c)
    BY <2>1, TimerFiresLinesInv
  <2>2. CASE PrintPosition(c) \/ PrintGrant(c)
    BY <2>2, PrintLinesInv
  <2>3. CASE ReporterWakes(c) \/ ReporterQuits(c)
    <3>1. \A d \in Clients : reporter'[d] = "report" =>
                               reporter[d] = "report" /\ local'[d] = local[d]
      BY <2>3 DEF ReporterWakes, ReporterQuits, TypeOK
    <3>2. QED
      BY <1>1, <2>3, <3>1, QuietLinesInv DEF ReporterWakes, ReporterQuits
  <2>4. CASE UpdateCurrentID(c)
    <3>1. \A d \in Clients : reporter'[d] = "report" =>
                               reporter[d] = "report" /\ local'[d] = local[d]
      BY <2>4 DEF UpdateCurrentID, LoadCurrentID, CompareAndSwap, TypeOK
    <3>2. QED
      BY <1>1, <2>4, <3>1, QuietLinesInv DEF UpdateCurrentID, LoadCurrentID, CompareAndSwap
  <2>5. QED
    BY <1>6, <2>1, <2>2, <2>3, <2>4 DEF Reporter
<1>7. QED
  BY <1>2, <1>3, <1>4, <1>5, <1>6 DEF Next

(* The lines in the order they are read.  *)
LEMMA LinesInvPositionsFall == QueueInv /\ LinesInv => PositionsFall
<1> SUFFICES ASSUME QueueInv, LinesInv, NEW c \in Clients,
                    NEW i \in DOMAIN Lines(c), NEW j \in DOMAIN Lines(c), i < j
             PROVE  Lines(c)[i] # 0 /\ Lines(c)[i] >= Lines(c)[j]
  BY DEF PositionsFall
<1>1. wire[c] \in Seq(0..MaxID) /\ shown[c] \in 0..NothingRead
  BY DEF QueueInv, TypeOK
<1>2. /\ DOMAIN Lines(c) = 1..Len(wire[c]) + 1
      /\ Lines(c)[1] = shown[c]
      /\ \A k \in 2..Len(wire[c]) + 1 : k - 1 \in DOMAIN wire[c] /\ Lines(c)[k] = wire[c][k - 1]
  BY <1>1 DEF Lines
<1>3. j - 1 \in DOMAIN wire[c] /\ Lines(c)[j] = wire[c][j - 1]
  BY <1>1, <1>2
<1>4. CASE i = 1
  BY <1>2, <1>3, <1>4 DEF LinesInv, LinesInvOf
<1>5. CASE i # 1
  <2>1. i - 1 \in DOMAIN wire[c] /\ Lines(c)[i] = wire[c][i - 1] /\ i - 1 < j - 1
    BY <1>1, <1>2, <1>5
  <2>2. QED
    BY <1>3, <2>1 DEF LinesInv, LinesInvOf
<1>6. QED
  BY <1>4, <1>5

THEOREM LinesCorrect == Spec => []LinesInv
BY InitLinesInv, NextLinesInv, QueueCorrect, PTL DEF Spec

(* What a client is shown never rises and ends with the 0, in whatever order *)
(* the clients are admitted.                                                 *)
THEOREM PositionsOrdered == Spec => []PositionsFall
BY LinesCorrect, QueueCorrect, LinesInvPositionsFall, PTL

(* The clients ahead of one have different IDs, all between the largest one  *)
(* admitted so far and its own.                                              *)
LEMMA AheadBounded ==
    ASSUME TypeOK, IDInv, NEW c \in Clients, AheadOf(c) # {}
    PROVE  /\ currentID < id[c]
           /\ Cardinality(AheadOf(c)) \in Nat
           /\ Cardinality(AheadOf(c)) <= id[c] - 1 - currentID
<1> DEFINE between == currentID + 1..id[c] - 1
           number  == [d \in AheadOf(c) |-> id[d]]
<1>1. currentID \in Nat /\ \A d \in Clients : id[d] \in Nat
  BY DEF TypeOK
<1>2. \A d \in AheadOf(c) : d \in Clients /\ id[d] \in between /\ id[d] # 0
  BY <1>1 DEF AheadOf
<1>3. number \in Injection(AheadOf(c), between)
  <2>1. number \in [AheadOf(c) -> between]
    BY <1>2
  <2>2. \A d, e \in AheadOf(c) : number[d] = number[e] => d = e
    BY <1>2 DEF IDInv
  <2>3. QED
    BY <2>1, <2>2 DEF Injection, IsInjective
<1>4. PICK d \in AheadOf(c) : id[d] \in between
  BY <1>2
<1>5. currentID + 1 <= id[c] - 1
  BY <1>1, <1>4
<1>6. IsFiniteSet(between) /\ Cardinality(between) = id[c] - 1 - currentID
  BY <1>1, <1>5, FS_Interval
<1> HIDE DEF between, number
<1>7. IsFiniteSet(AheadOf(c)) /\ Cardinality(AheadOf(c)) <= Cardinality(between)
  BY <1>3, <1>6, FS_Injection
<1>8. Cardinality(AheadOf(c)) \in Nat
  BY <1>7, FS_CardinalityType
<1>9. QED
  BY <1>1, <1>5, <1>6, <1>7, <1>8

LEMMA PositionCovers ==
    QueueInv /\ LinesInv /\ IDInv => PositionCoversQueue
<1> SUFFICES ASSUME QueueInv, LinesInv, IDInv, NEW c \in Clients, reporter[c] = "report"
             PROVE  Cardinality(AheadOf(c)) < local[c]
  BY DEF PositionCoversQueue
<1>1. /\ TypeOK /\ local[c] \in Nat /\ id[c] \in Nat /\ currentID \in Nat
      /\ local[c] > 0 /\ local[c] >= Position(id[c], currentID)
  BY DEF QueueInv, TypeOK, ReporterInv, LinesInv, LinesInvOf
<1>2. CASE AheadOf(c) = {}
  BY <1>1, <1>2, FS_EmptySet
<1>3. CASE AheadOf(c) # {}
  <2>1. /\ currentID < id[c]
        /\ Cardinality(AheadOf(c)) \in Nat
        /\ Cardinality(AheadOf(c)) <= id[c] - 1 - currentID
    BY <1>1, <1>3, AheadBounded
  <2>2. Position(id[c], currentID) = id[c] - currentID
    BY <2>1 DEF Position
  <2>3. QED
    BY <1>1, <2>1, <2>2
<1>4. QED
  BY <1>2, <1>3

(* The position printed for a client counts it and everyone ahead of it, in  *)
(* whatever order clients are admitted, leave and read.                      *)
THEOREM PositionsCoverQueue == Spec => []PositionCoversQueue
BY QueueCorrect, LinesCorrect, IDsCorrect, PositionCovers, PTL

----------------------------------------------------------------------------
(* The refinement.  A step that changes neither a client's end nor what it   *)
(* was told is a stuttering step of Admission; Connect is Arrive, Hangup is  *)
(* Leave and PrintGrant is Admit.                                            *)
LEMMA InitRefines == Init => A!Init
<1> SUFFICES ASSUME Init PROVE status = [c \in Clients |-> "outside"]
  BY DEF A!Init
<1>1. QED
  BY DEF Init, status

LEMMA StatusKept ==
    ASSUME NEW d \in Clients, peer'[d] = peer[d], Told(d)' = Told(d)
    PROVE  status'[d] = status[d]
BY DEF status

LEMMA StatusChange ==
    ASSUME NEW c \in Clients, NEW s, status'[c] = s,
           \A d \in Clients : d # c => status'[d] = status[d]
    PROVE  status' = [status EXCEPT ![c] = s]
<1>1. status = [d \in Clients |-> status[d]] /\ status' = [d \in Clients |-> status'[d]]
  BY DEF status
<1>2. QED
  BY <1>1

LEMMA StatusStutters ==
    ASSUME \A d \in Clients : peer'[d] = peer[d] /\ Told(d)' = Told(d)
    PROVE  UNCHANGED status
<1>1. \A d \in Clients : status'[d] = status[d]
  BY StatusKept
<1>2. status = [d \in Clients |-> status[d]] /\ status' = [d \in Clients |-> status'[d]]
  BY DEF status
<1>3. QED
  BY <1>1, <1>2

LEMMA ConnectRefines ==
    ASSUME QueueInv, NEW c \in Clients, Connect(c)
    PROVE  A!Arrive(c)
<1>1. peer[c] = "none" /\ peer' = [peer EXCEPT ![c] = "up"] /\ UNCHANGED <<wire, shown>>
      /\ peer \in [Clients -> PeerStates]
  BY DEF Connect, QueueInv, TypeOK
<1>2. \A d \in Clients : Told(d)' = Told(d)
  BY <1>1 DEF Told
<1>3. ~Told(c)
  <2>1. id[c] = 0
    BY <1>1 DEF QueueInv, PendingInv
  <2>2. wire[c] = <<>> /\ shown[c] = NothingRead
    BY <2>1 DEF QueueInv, PendingInv
  <2>3. QED
    BY <2>2 DEF Told, NothingRead
<1>4. status[c] = "outside" /\ status'[c] = "waiting"
  BY <1>1, <1>2, <1>3 DEF status
<1>5. \A d \in Clients : d # c => status'[d] = status[d]
  BY <1>1, <1>2, StatusKept
<1>6. QED
  BY <1>4, <1>5, StatusChange DEF A!Arrive

LEMMA HangupRefines ==
    ASSUME QueueInv, NEW c \in Clients, Hangup(c)
    PROVE  A!Leave(c)
<1>1. /\ peer[c] = "up" /\ peer' = [peer EXCEPT ![c] = "down"]
      /\ peer \in [Clients -> PeerStates]
      /\ shown \in [Clients -> 0..NothingRead] /\ wire \in [Clients -> Seq(0..MaxID)]
      /\ shown' = [shown EXCEPT ![c] = NothingRead] /\ wire' = [wire EXCEPT ![c] = <<>>]
  BY DEF Hangup, QueueInv, TypeOK
<1>2. \A d \in Clients : d # c => peer'[d] = peer[d] /\ Told(d)' = Told(d)
  BY <1>1 DEF Told
<1>3. status[c] \in {"waiting", "active"} /\ status'[c] = "left"
  BY <1>1 DEF status
<1>4. \A d \in Clients : d # c => status'[d] = status[d]
  BY <1>2, StatusKept
<1>5. QED
  BY <1>3, <1>4, StatusChange DEF A!Leave

(* A line that is read is remembered, so a client once told stays told.  *)
LEMMA ReadLineRefines ==
    ASSUME QueueInv, LinesInv, NEW c \in Clients, ReadLine(c)
    PROVE  UNCHANGED status
<1>1. /\ wire[c] \in Seq(0..MaxID) /\ wire[c] # <<>>
      /\ shown' = [shown EXCEPT ![c] = wire[c][1]]
      /\ wire' = [wire EXCEPT ![c] = Tail(wire[c])]
      /\ shown \in [Clients -> 0..NothingRead] /\ wire \in [Clients -> Seq(0..MaxID)]
      /\ UNCHANGED peer
  BY DEF QueueInv, TypeOK, ReadLine
<1>2. 1 \in DOMAIN wire[c] /\ shown[c] # 0
  BY <1>1 DEF LinesInv, LinesInvOf
<1>3. /\ \A i \in DOMAIN Tail(wire[c]) : Tail(wire[c])[i] = wire[c][i + 1] /\ i + 1 \in DOMAIN wire[c]
      /\ \A i \in DOMAIN wire[c] :
            i # 1 => i - 1 \in DOMAIN Tail(wire[c]) /\ Tail(wire[c])[i - 1] = wire[c][i]
  BY <1>1
<1>4. Told(c)' => Told(c)
  BY <1>1, <1>2, <1>3 DEF Told
<1>5. Told(c) => Told(c)'
  BY <1>1, <1>2, <1>3 DEF Told
<1>6. \A d \in Clients : d # c => Told(d)' = Told(d)
  BY <1>1 DEF Told
<1>7. Told(c)' = Told(c)
  BY <1>4, <1>5 DEF Told
<1>8. QED
  BY <1>1, <1>6, <1>7, StatusStutters

LEMMA PrintPositionRefines ==
    ASSUME QueueInv, NEW c \in Clients, PrintPosition(c)
    PROVE  UNCHANGED status
<1>1. /\ TypeOK /\ local[c] \in 0..MaxID /\ local[c] # 0
      /\ Write(c, local[c]) /\ UNCHANGED <<peer, shown>>
  BY DEF PrintPosition, QueueInv, TypeOK, ReporterInv
<1>2. \A d \in Clients : Told(d)' => Told(d)
  BY <1>1, WriteTold
<1>3. \A d \in Clients : Told(d) => Told(d)'
  <2>1. SUFFICES ASSUME NEW d \in Clients, NEW i \in DOMAIN wire[d], wire[d][i] = 0
                 PROVE  i \in DOMAIN wire'[d] /\ wire'[d][i] = 0
    BY <1>1 DEF Told
  <2>2. wire[d] \in Seq(0..MaxID) /\ wire[c] \in Seq(0..MaxID)
    BY <1>1 DEF TypeOK
  <2>3. wire'[d] = wire[d] \/ wire'[d] = Append(wire[d], local[c])
    BY <1>1 DEF Write, TypeOK
  <2>4. CASE wire'[d] = Append(wire[d], local[c])
    <3>1. i \in 1..Len(wire[d]) /\ Append(wire[d], local[c])[i] = wire[d][i]
      BY <1>1, <2>1, <2>2
    <3>2. i \in DOMAIN Append(wire[d], local[c])
      BY <1>1, <2>2, <3>1
    <3>3. QED
      BY <2>1, <2>4, <3>1, <3>2
  <2>5. QED
    BY <2>1, <2>3, <2>4
<1>4. \A d \in Clients : Told(d)' = Told(d)
  BY <1>2, <1>3 DEF Told
<1>5. QED
  BY <1>1, <1>4, StatusStutters

(* The grant: the client holds a worker and is not active yet, so the active *)
(* clients were fewer than the workers.                                      *)
LEMMA PrintGrantRefines ==
    ASSUME QueueInv, NEW c \in Clients, PrintGrant(c)
    PROVE  A!Admit(c) \/ UNCHANGED status
<1>1. /\ TypeOK /\ ~Told(c) /\ Write(c, 0) /\ UNCHANGED <<peer, shown, worker>>
      /\ wire[c] \in Seq(0..MaxID) /\ wire \in [Clients -> Seq(0..MaxID)]
  BY DEF PrintGrant, QueueInv, TypeOK, ReporterInv
<1>2. CASE peer[c] = "down" /\ wire' = wire
  BY <1>1, <1>2, StatusStutters DEF Told
<1>3. CASE peer[c] = "up" /\ wire' = [wire EXCEPT ![c] = Append(@, 0)]
  <2>1. Told(c)'
    <3>1. Len(wire[c]) + 1 \in DOMAIN wire'[c] /\ wire'[c][Len(wire[c]) + 1] = 0
      BY <1>1, <1>3
    <3>2. QED
      BY <3>1 DEF Told
  <2>2. \A d \in Clients : d # c => status'[d] = status[d]
    BY <1>1, <1>3, StatusKept DEF Told
  <2>3. status[c] = "waiting" /\ status'[c] = "active"
    BY <1>1, <1>3, <2>1 DEF status
  <2>4. c \notin A!Active
    BY <2>3 DEF A!Active
  <2>5. A!Active \cup {c} \subseteq Held
    <3>1. waiter[c] = "woke" /\ ~closed[c]
      BY <1>3 DEF PrintGrant, QueueInv, SlotInv
    <3>2. c \in Held
      BY <3>1 DEF QueueInv, SlotInv, Held
    <3>3. QED
      BY <3>2, ActiveHeld
  <2>6. /\ IsFiniteSet(Held) /\ Cardinality(Held) \in Nat
        /\ Cardinality(Workers) \in Nat /\ Cardinality(Held) <= Cardinality(Workers)
    BY <1>1, HeldClients
  <2>7. /\ IsFiniteSet(A!Active \cup {c})
        /\ Cardinality(A!Active \cup {c}) <= Cardinality(Held)
    BY <2>5, <2>6, FS_Subset
  <2>8. IsFiniteSet(A!Active) /\ Cardinality(A!Active) \in Nat
    BY <2>7, FS_Subset, FS_CardinalityType
  <2>9. Cardinality(A!Active \cup {c}) = Cardinality(A!Active) + 1
    BY <2>4, <2>8, FS_AddElement
  <2>10. A!Cardinality(A!Active) < Cardinality(Workers)
    BY <2>6, <2>7, <2>8, <2>9, SameCardinality
  <2>11. QED
    BY <2>2, <2>3, <2>10, StatusChange DEF A!Admit
<1>4. QED
  BY <1>1, <1>2, <1>3 DEF Write

LEMMA NextRefines ==
    QueueInv /\ LinesInv /\ [Next]_vars => [A!Next]_status
<1> SUFFICES ASSUME QueueInv, LinesInv, [Next]_vars
             PROVE  A!Next \/ UNCHANGED status
  OBVIOUS
<1>1. ASSUME UNCHANGED <<peer, wire, shown>>
      PROVE  UNCHANGED status
  BY <1>1, StatusStutters DEF Told
<1>2. CASE UNCHANGED vars \/ ServeClient \/ IDOverflow \/ \E w \in Workers : WorkerReleases(w)
  BY <1>1, <1>2 DEF vars, ServeClient, IDOverflow, WorkerReleases
<1>3. ASSUME NEW c \in Clients, Client(c)
      PROVE  A!Next \/ UNCHANGED status
  BY <1>3, ConnectRefines, ReadLineRefines, HangupRefines DEF Client, A!Next
<1>4. ASSUME NEW c \in Clients, Waiter(c) \/ ReaderCloses(c)
      PROVE  UNCHANGED status
  BY <1>1, <1>4 DEF Waiter, Handoff, CloseWakeUp, WaiterQuits, ReaderCloses
<1>5. ASSUME NEW c \in Clients, Reporter(c)
      PROVE  A!Next \/ UNCHANGED status
  <2>1. CASE PrintGrant(c)
    BY <2>1, PrintGrantRefines DEF A!Next
  <2>2. CASE PrintPosition(c)
    BY <2>2, PrintPositionRefines
  <2>3. CASE TimerFires(c) \/ ReporterWakes(c) \/ ReporterQuits(c)
    BY <1>1, <2>3 DEF TimerFires, ReporterWakes, ReporterQuits
  <2>4. CASE UpdateCurrentID(c)
    BY <1>1, <2>4 DEF UpdateCurrentID, LoadCurrentID, CompareAndSwap
  <2>5. QED
    BY <1>5, <2>1, <2>2, <2>3, <2>4 DEF Reporter
<1>6. QED
  BY <1>2, <1>3, <1>4, <1>5 DEF Next

(* go-queue implements the abstract admission queue, whatever the number of  *)
(* slots and of clients.                                                     *)
THEOREM GoQueueImplementsAdmission == Spec => ImplementsAdmission
BY InitRefines, NextRefines, QueueCorrect, LinesCorrect, PTL
   DEF Spec, ImplementsAdmission, A!Spec
=============================================================================
