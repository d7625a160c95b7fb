------------------------------ MODULE GoQueue ------------------------------
(***************************************************************************)
(* src/git-backend/go-queue.go: the TCP server that admits git clients to  *)
(* a bounded number of slots.  A connection is served by three goroutines  *)
(* that serveClient starts:                                                *)
(*   - the waiter offers the client's "closed" channel to the slot workers *)
(*     and closes "wakeUp" once a worker took it;                          *)
(*   - the reader watches the socket and closes "closed" when it fails;    *)
(*   - the reporter prints the queue position periodically, and 0 once     *)
(*     woken.                                                              *)
(* A worker goroutine is a slot: it takes one "closed" channel at a time   *)
(* and waits for it.  The channels are unbuffered, so a send and its       *)
(* receive are one step, and a select takes any branch that is ready.      *)
(*                                                                         *)
(* A client is one connection; it is never used again.                     *)
(***************************************************************************)
EXTENDS Integers, Sequences, FiniteSets

CONSTANTS
    Clients,    \* the connections that are made during a behaviour
    Workers,    \* the slot workers, one per unit of --queue-size
    NoClient,   \* what an idle worker holds
    MaxID,      \* the largest connection ID, 2^64 - 1 in the code
    SocketRoom  \* how many lines fit in a connection before a write blocks

\* parseCLIParams refuses a queue size below 1; IDs and buffers are finite.
ASSUME GoQueueAssumption ==
    /\ IsFiniteSet(Clients)
    /\ IsFiniteSet(Workers) /\ Workers # {}
    /\ NoClient \notin Clients
    /\ MaxID \in Nat \ {0}
    /\ SocketRoom \in Nat \ {0}

VARIABLES
    alive,      \* the go-queue process runs
    idCounter,  \* the last ID given out
    currentID,  \* the largest ID admitted so far
    pending,    \* connections accepted by the kernel and not yet served
    peer,       \* the client's end of each connection
    id,         \* the ID of a served connection, 0 before
    closed,     \* the "closed" channel is closed (and the socket with it)
    waiter,     \* where the waiter goroutine is
    reporter,   \* where the reporter goroutine is
    local,      \* the reporter's local: the old ID, or the position to print
                \* (0 outside the scope of either)
    worker,     \* whose "closed" channel each worker waits for
    wire,       \* lines written by the server and not yet read
    shown       \* the last line the client read

vars == <<alive, idCounter, currentID, pending, peer, id, closed, waiter,
          reporter, local, worker, wire, shown>>

PeerStates     == {"none", "up", "down"}
WaiterStates   == {"none", "offer", "sent", "woke", "quit"}
ReporterStates == {"none", "select", "report", "load", "cas", "grant",
                   "granted", "quit"}

NothingRead == MaxID + 1    \* above every position a client can be shown

Init ==
    /\ alive = TRUE
    /\ idCounter = 0
    /\ currentID = 0
    /\ pending = <<>>
    /\ peer = [c \in Clients |-> "none"]
    /\ id = [c \in Clients |-> 0]
    /\ closed = [c \in Clients |-> FALSE]
    /\ waiter = [c \in Clients |-> "none"]
    /\ reporter = [c \in Clients |-> "none"]
    /\ local = [c \in Clients |-> 0]
    /\ worker = [w \in Workers |-> NoClient]
    /\ wire = [c \in Clients |-> <<>>]
    /\ shown = [c \in Clients |-> NothingRead]

----------------------------------------------------------------------------
(* The clients.                                                            *)

\* A client connects; the listener queues it for the main loop.
Connect(c) ==
    /\ alive
    /\ peer[c] = "none"
    /\ peer' = [peer EXCEPT ![c] = "up"]
    /\ pending' = Append(pending, c)
    /\ UNCHANGED <<alive, idCounter, currentID, id, closed, waiter, reporter,
                   local, worker, wire, shown>>

\* A client reads one line.
ReadLine(c) ==
    /\ peer[c] = "up"
    /\ wire[c] # <<>>
    /\ shown' = [shown EXCEPT ![c] = Head(wire[c])]
    /\ wire' = [wire EXCEPT ![c] = Tail(@)]
    /\ UNCHANGED <<alive, idCounter, currentID, pending, peer, id, closed,
                   waiter, reporter, local, worker>>

\* A client closes its end, or dies: what it read and what is on the wire is
\* lost.
Hangup(c) ==
    /\ peer[c] = "up"
    /\ peer' = [peer EXCEPT ![c] = "down"]
    /\ wire' = [wire EXCEPT ![c] = <<>>]
    /\ shown' = [shown EXCEPT ![c] = NothingRead]
    /\ UNCHANGED <<alive, idCounter, currentID, pending, id, closed, waiter,
                   reporter, local, worker>>

----------------------------------------------------------------------------
(* The main loop.                                                          *)

\* Mutant: the ID counter starts again at its limit.
ServeClientWraps ==
    /\ alive
    /\ pending # <<>>
    /\ pending' = Tail(pending)
    /\ idCounter' = (idCounter % MaxID) + 1
    /\ id' = [id EXCEPT ![Head(pending)] = (idCounter % MaxID) + 1]
    /\ waiter' = [waiter EXCEPT ![Head(pending)] = "offer"]
    /\ reporter' = [reporter EXCEPT ![Head(pending)] = "select"]
    /\ UNCHANGED <<alive, currentID, peer, closed, local, worker, wire, shown>>

\* serveClient: the next connection gets an ID and its three goroutines.
ServeClient ==
    /\ alive
    /\ pending # <<>>
    /\ idCounter < MaxID
    /\ pending' = Tail(pending)
    /\ idCounter' = idCounter + 1
    /\ id' = [id EXCEPT ![Head(pending)] = idCounter + 1]
    /\ waiter' = [waiter EXCEPT ![Head(pending)] = "offer"]
    /\ reporter' = [reporter EXCEPT ![Head(pending)] = "select"]
    /\ UNCHANGED <<alive, currentID, peer, closed, local, worker, wire, shown>>

\* generateID at its limit: klog.Fatal ends the process.
IDOverflow ==
    /\ alive
    /\ pending # <<>>
    /\ idCounter = MaxID
    /\ alive' = FALSE
    /\ UNCHANGED <<idCounter, currentID, pending, peer, id, closed, waiter,
                   reporter, local, worker, wire, shown>>

----------------------------------------------------------------------------
(* The waiter and the reader of a client, and the slot workers.            *)

\* Mutant: clientQueue buffered, so a send completes without a receiver.
HandoffBuffered(c, w) ==
    /\ alive
    /\ waiter[c] = "offer"
    /\ waiter' = [waiter EXCEPT ![c] = "sent"]
    /\ UNCHANGED <<alive, idCounter, currentID, pending, peer, id, closed,
                   reporter, local, worker, wire, shown>>

\* Either branch of the waiter's select can be taken when both are ready: a
\* client that already hung up can still be handed to a worker.
Handoff(c, w) ==
    /\ alive
    /\ waiter[c] = "offer"
    /\ worker[w] = NoClient
    /\ worker' = [worker EXCEPT ![w] = c]
    /\ waiter' = [waiter EXCEPT ![c] = "sent"]
    /\ UNCHANGED <<alive, idCounter, currentID, pending, peer, id, closed,
                   reporter, local, wire, shown>>

CloseWakeUp(c) ==
    /\ alive
    /\ waiter[c] = "sent"
    /\ waiter' = [waiter EXCEPT ![c] = "woke"]
    /\ UNCHANGED <<alive, idCounter, currentID, pending, peer, id, closed,
                   reporter, local, worker, wire, shown>>

WaiterQuits(c) ==
    /\ alive
    /\ waiter[c] = "offer"
    /\ closed[c]
    /\ waiter' = [waiter EXCEPT ![c] = "quit"]
    /\ UNCHANGED <<alive, idCounter, currentID, pending, peer, id, closed,
                   reporter, local, worker, wire, shown>>

\* Mutant: the socket is only watched while the client waits.
ReaderStopsAtHandoff(c) ==
    /\ alive
    /\ id[c] # 0
    /\ peer[c] = "down"
    /\ ~closed[c]
    /\ waiter[c] = "offer"
    /\ closed' = [closed EXCEPT ![c] = TRUE]
    /\ UNCHANGED <<alive, idCounter, currentID, pending, peer, id, waiter,
                   reporter, local, worker, wire, shown>>

\* The reader's conn.Read fails: close(closed), conn.Close().
ReaderCloses(c) ==
    /\ alive
    /\ id[c] # 0
    /\ peer[c] = "down"
    /\ ~closed[c]
    /\ closed' = [closed EXCEPT ![c] = TRUE]
    /\ UNCHANGED <<alive, idCounter, currentID, pending, peer, id, waiter,
                   reporter, local, worker, wire, shown>>

\* Mutant: the worker does not wait for the channel it received.
WorkerDoesNotWait(w) ==
    /\ alive
    /\ worker[w] # NoClient
    /\ worker' = [worker EXCEPT ![w] = NoClient]
    /\ UNCHANGED <<alive, idCounter, currentID, pending, peer, id, closed,
                   waiter, reporter, local, wire, shown>>

\* Mutant: a worker without its loop serves one client.
WorkerServesOnce(w) ==
    /\ alive
    /\ worker[w] # NoClient
    /\ closed[worker[w]]
    /\ UNCHANGED vars

\* <-done returns: the slot is free again.
WorkerReleases(w) ==
    /\ alive
    /\ worker[w] # NoClient
    /\ closed[worker[w]]
    /\ worker' = [worker EXCEPT ![w] = NoClient]
    /\ UNCHANGED <<alive, idCounter, currentID, pending, peer, id, closed,
                   waiter, reporter, local, wire, shown>>

----------------------------------------------------------------------------
(* The reporter of a client.                                               *)

\* Mutant: the position of the first client in the queue is 0.
PositionFromZero(myID, current) ==
    IF current < myID THEN myID - current - 1 ELSE 1

\* Mutant: no case for a client that was overtaken.
PositionUnguarded(myID, current) == myID - current

\* The position reported to a client while it waits.
Position(myID, current) == IF current < myID THEN myID - current ELSE 1

\* A write to the socket: it blocks while the buffer is full, and is lost
\* when the client is gone.
Write(c, line) ==
    \/ /\ peer[c] = "up"
       /\ Len(wire[c]) < SocketRoom
       /\ wire' = [wire EXCEPT ![c] = Append(@, line)]
    \/ /\ peer[c] = "down"
       /\ wire' = wire

TimerFires(c) ==
    /\ alive
    /\ reporter[c] = "select"
    /\ local' = [local EXCEPT ![c] = Position(id[c], currentID)]
    /\ reporter' = [reporter EXCEPT ![c] = "report"]
    /\ UNCHANGED <<alive, idCounter, currentID, pending, peer, id, closed,
                   waiter, worker, wire, shown>>

PrintPosition(c) ==
    /\ alive
    /\ reporter[c] = "report"
    /\ Write(c, local[c])
    /\ local' = [local EXCEPT ![c] = 0]
    /\ reporter' = [reporter EXCEPT ![c] = "select"]
    /\ UNCHANGED <<alive, idCounter, currentID, pending, peer, id, closed,
                   waiter, worker, shown>>

ReporterWakes(c) ==
    /\ alive
    /\ reporter[c] = "select"
    /\ waiter[c] = "woke"
    /\ reporter' = [reporter EXCEPT ![c] = "load"]
    /\ UNCHANGED <<alive, idCounter, currentID, pending, peer, id, closed,
                   waiter, local, worker, wire, shown>>

\* updateCurrentID: load the value, return when it is already as large, else
\* compare-and-swap and start again when another reporter changed it.
LoadCurrentID(c) ==
    /\ alive
    /\ reporter[c] = "load"
    /\ \/ /\ currentID >= id[c]
          /\ reporter' = [reporter EXCEPT ![c] = "grant"]
          /\ UNCHANGED local
       \/ /\ currentID < id[c]
          /\ reporter' = [reporter EXCEPT ![c] = "cas"]
          /\ local' = [local EXCEPT ![c] = currentID]
    /\ UNCHANGED <<alive, idCounter, currentID, pending, peer, id, closed,
                   waiter, worker, wire, shown>>

\* Mutant: a plain store where the code compares and swaps.
StoreCurrentID(c) ==
    /\ alive
    /\ reporter[c] = "cas"
    /\ currentID' = id[c]
    /\ reporter' = [reporter EXCEPT ![c] = "grant"]
    /\ local' = [local EXCEPT ![c] = 0]
    /\ UNCHANGED <<alive, idCounter, pending, peer, id, closed, waiter, worker,
                   wire, shown>>

CompareAndSwap(c) ==
    /\ alive
    /\ reporter[c] = "cas"
    /\ \/ /\ currentID = local[c]
          /\ currentID' = id[c]
          /\ reporter' = [reporter EXCEPT ![c] = "grant"]
       \/ /\ currentID # local[c]
          /\ reporter' = [reporter EXCEPT ![c] = "load"]
          /\ UNCHANGED currentID
    /\ local' = [local EXCEPT ![c] = 0]
    /\ UNCHANGED <<alive, idCounter, pending, peer, id, closed, waiter, worker,
                   wire, shown>>

PrintGrant(c) ==
    /\ alive
    /\ reporter[c] = "grant"
    /\ Write(c, 0)
    /\ reporter' = [reporter EXCEPT ![c] = "granted"]
    /\ UNCHANGED <<alive, idCounter, currentID, pending, peer, id, closed,
                   waiter, local, worker, shown>>

ReporterQuits(c) ==
    /\ alive
    /\ reporter[c] = "select"
    /\ closed[c]
    /\ reporter' = [reporter EXCEPT ![c] = "quit"]
    /\ UNCHANGED <<alive, idCounter, currentID, pending, peer, id, closed,
                   waiter, local, worker, wire, shown>>

----------------------------------------------------------------------------
UpdateCurrentID(c) == LoadCurrentID(c) \/ CompareAndSwap(c)

Reporter(c) ==
    \/ TimerFires(c) \/ PrintPosition(c)
    \/ ReporterWakes(c) \/ UpdateCurrentID(c) \/ PrintGrant(c)
    \/ ReporterQuits(c)

Waiter(c) == (\E w \in Workers : Handoff(c, w)) \/ CloseWakeUp(c) \/ WaiterQuits(c)

Client(c) == Connect(c) \/ ReadLine(c) \/ Hangup(c)

Next ==
    \/ ServeClient \/ IDOverflow
    \/ \E c \in Clients : Client(c) \/ Waiter(c) \/ ReaderCloses(c) \/ Reporter(c)
    \/ \E w \in Workers : WorkerReleases(w)

Spec == Init /\ [][Next]_vars

(* The Go scheduler runs every goroutine that can run, and a select that is *)
(* reached again and again with a ready branch eventually takes it.  The   *)
(* wrapper reads the lines it is sent and ends once it was admitted or the *)
(* server is gone; a client that waits may wait for ever.                  *)
Fairness ==
    /\ WF_vars(ServeClient \/ IDOverflow)
    /\ \A w \in Workers : WF_vars(WorkerReleases(w))
    /\ \A c \in Clients :
          /\ WF_vars(Waiter(c))
          /\ WF_vars(ReaderCloses(c))
          /\ WF_vars(PrintPosition(c))
          /\ WF_vars(UpdateCurrentID(c))
          /\ WF_vars(PrintGrant(c))
          /\ SF_vars(ReporterWakes(c) \/ ReporterQuits(c))
          /\ WF_vars(ReadLine(c))
          /\ WF_vars((shown[c] = 0 \/ ~alive) /\ Hangup(c))

FairSpec == Spec /\ Fairness

----------------------------------------------------------------------------
(* Properties.                                                             *)

TypeOK ==
    /\ alive \in BOOLEAN
    /\ idCounter \in 0..MaxID
    /\ currentID \in 0..MaxID
    /\ pending \in Seq(Clients)
    /\ peer \in [Clients -> PeerStates]
    /\ id \in [Clients -> 0..MaxID]
    /\ closed \in [Clients -> BOOLEAN]
    /\ waiter \in [Clients -> WaiterStates]
    /\ reporter \in [Clients -> ReporterStates]
    /\ local \in [Clients -> 0..MaxID]
    /\ worker \in [Workers -> Clients \cup {NoClient}]
    /\ wire \in [Clients -> Seq(0..MaxID)]
    /\ shown \in [Clients -> 0..NothingRead]

\* The client was told 0: its wrapper starts pack-objects when it reads it.
Told(c) == shown[c] = 0 \/ \E i \in DOMAIN wire[c] : wire[c][i] = 0

\* The lines a client was sent, as far as they still matter: the last one it
\* read and those on their way.
Lines(c) == <<shown[c]>> \o wire[c]

Holds(w, c) == worker[w] = c

\* Whoever is told 0 and is still connected has a worker of its own waiting for
\* its connection to close, whatever positions were reported before and
\* however the waiter and the reporter of the client interleave.
GrantHoldsSlot ==
    \A c \in Clients : Told(c) /\ peer[c] = "up" => \E w \in Workers : Holds(w, c)

\* Why GrantHoldsSlot and PositionsFall hold, in four inductive parts.  A connection waits once
\* for the main loop, and before that nothing is known of it;
PendingInv ==
    /\ \A i \in DOMAIN pending :
          id[pending[i]] = 0 /\ peer[pending[i]] # "none"
    /\ \A i, j \in DOMAIN pending : pending[i] = pending[j] => i = j
    /\ \A c \in Clients :
          /\ peer[c] = "none" => id[c] = 0
          /\ id[c] = 0 => /\ waiter[c] = "none" /\ reporter[c] = "none"
                          /\ ~closed[c]
                          /\ wire[c] = <<>> /\ shown[c] = NothingRead

\* a client that was handed over and is not closed has a worker, and only a
\* client that was handed over is woken;
SlotInv ==
    \A c \in Clients :
        /\ closed[c] => peer[c] = "down"
        /\ waiter[c] \in {"sent", "woke"} /\ ~closed[c] =>
              \E w \in Workers : worker[w] = c
        /\ reporter[c] \in {"load", "cas", "grant", "granted"} =>
              waiter[c] = "woke"

\* a line that is not the grant is a positive position;
ReporterInv ==
    \A c \in Clients :
        /\ reporter[c] = "report" => local[c] > 0
        /\ reporter[c] = "cas" => local[c] < id[c]
        /\ Told(c) => reporter[c] = "granted"

\* and the lines of a client fall, down to the position it would be told now.
LinesInvOf(c) ==
    /\ \A i \in DOMAIN wire[c] : shown[c] # 0 /\ shown[c] >= wire[c][i]
    /\ \A i, j \in DOMAIN wire[c] :
          i < j => wire[c][i] # 0 /\ wire[c][i] >= wire[c][j]
    /\ id[c] # 0 /\ ~Told(c) =>
          /\ shown[c] >= Position(id[c], currentID)
          /\ \A i \in DOMAIN wire[c] : wire[c][i] >= Position(id[c], currentID)
    /\ reporter[c] = "report" =>
          /\ local[c] >= Position(id[c], currentID)
          /\ shown[c] >= local[c]
          /\ \A i \in DOMAIN wire[c] : wire[c][i] >= local[c]

LinesInv == \A c \in Clients : LinesInvOf(c)

QueueInv == TypeOK /\ PendingInv /\ SlotInv /\ ReporterInv

status ==
    [c \in Clients |->
        CASE peer[c] = "none" -> "outside"
          [] peer[c] = "down" -> "left"
          [] peer[c] = "up" /\ Told(c) -> "active"
          [] OTHER -> "waiting"]

A == INSTANCE Admission WITH Capacity <- Cardinality(Workers)

\* At most --queue-size clients that were told 0 are connected at a time.
AdmissionLimit == A!WithinCapacity

\* The goroutines, channels and sockets implement the admission of clients to
\* a bounded number of slots: a client is only ever admitted while a slot is
\* free, exactly once, and only while it waits.
ImplementsAdmission == A!Spec

\* The position a client is shown never rises, and nothing follows the 0, even
\* when clients are admitted out of order and their reporters update currentID
\* concurrently.
PositionsFall ==
    \A c \in Clients : \A i, j \in DOMAIN Lines(c) :
        i < j => Lines(c)[i] # 0 /\ Lines(c)[i] >= Lines(c)[j]

\* The clients ahead of c in the queue: served before it, above the largest ID
\* admitted so far, and still waiting.
AheadOf(c) ==
    {d \in Clients : /\ currentID < id[d] /\ id[d] < id[c]
                     /\ waiter[d] = "offer" /\ peer[d] = "up"}

\* A position about to be printed counts the client itself and at least every
\* client ahead of it.
PositionCoversQueue ==
    \A c \in Clients :
        reporter[c] = "report" => Cardinality(AheadOf(c)) < local[c]

\* No step lowers the largest ID admitted so far: the compare-and-swap loop of
\* updateCurrentID loses no concurrent update.
CurrentIDNeverFalls == [][currentID' >= currentID]_vars

\* A new connection gets an ID above all that were given out, up to the limit
\* of the counter: positions are differences of IDs, so an ID that came round
\* again would put its client ahead of the queue.  Only a new process, which
\* has no clients (ID 0), starts over.
IDsAscend ==
    [][\A c \in Clients :
          id'[c] \notin {0, id[c]} => \A d \in Clients : id[d] < id'[c]]_vars

\* Why IDsAscend and PositionCoversQueue hold: the counter has passed every ID,
\* and no two connections have the same one.
IDInv ==
    /\ \A c \in Clients : id[c] <= idCounter
    /\ \A c, d \in Clients : id[c] # 0 /\ id[c] = id[d] => c = d

\* Every goroutine of a client has ended and no worker waits for it.
GoroutinesEnded(c) ==
    /\ waiter[c] \in {"woke", "quit"}
    /\ reporter[c] \in {"granted", "quit"}
    /\ \A w \in Workers : ~Holds(w, c)

\* A client that hangs up, at whatever moment, leaves no goroutine behind and
\* keeps no slot: a canceled waiter does not consume one.  Only the end of the
\* process, which ends every goroutine, comes before that.
HungUpClientEnds ==
    \A c \in Clients : peer[c] = "down" ~> (GoroutinesEnded(c) \/ ~alive)

\* Every client that waits is admitted or hangs up by itself, also one whose
\* server ended at the limit of the IDs.
EveryoneServed == A!EveryoneServed
=============================================================================
