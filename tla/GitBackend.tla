----------------------------- MODULE GitBackend -----------------------------
(***************************************************************************)
(* The git-backend container: nginx and spawn-fcgi start a bounded number  *)
(* of git-http-backend processes; the upload-pack of each runs             *)
(* queue-wrapper.sh as its pack-objects hook, which waits for go-queue     *)
(* before it runs pack-objects; cmd.sh ends the container when one of the  *)
(* three services exits, and the container is started again.               *)
(*                                                                         *)
(* Every connection of GoQueue is the file descriptor 3 of one wrapper.    *)
(***************************************************************************)
EXTENDS GoQueue

CONSTANTS
    Threads,    \* multiwatch -f $THREADS: requests handled at a time
    Services    \* the critical processes of cmd.sh beside go-queue

ASSUME GitBackendAssumption == Threads \in Nat \ {0}

VARIABLES
    wrapper,    \* where the wrapper of each request is
    pack,       \* the pack-objects process of each request
    listening,  \* go-queue accepts connections
    running     \* the other services that run

wvars == <<wrapper, pack, listening, running>>
allVars == <<vars, wvars>>

WrapperStates == {"idle", "buffering", "reading", "packing",
                  "finished", "refused", "killed"}
PackStates    == {"none", "running", "done"}

Connected == {"buffering", "reading", "packing"}
Busy      == {c \in Clients : wrapper[c] \in Connected}

BackendInit ==
    /\ Init
    /\ wrapper = [c \in Clients |-> "idle"]
    /\ pack = [c \in Clients |-> "none"]
    /\ listening = FALSE
    /\ running = Services

----------------------------------------------------------------------------
(* queue-wrapper.sh                                                        *)

\* A fetch reaches pack-objects: the hook connects to the queue, or exits 75
\* when it cannot.
RunHook(c) ==
    /\ running = Services
    /\ Cardinality(Busy) < Threads
    /\ wrapper[c] = "idle"
    /\ \/ /\ listening
          /\ Connect(c)
          /\ wrapper' = [wrapper EXCEPT ![c] = "buffering"]
       \/ /\ ~(alive /\ listening)
          /\ wrapper' = [wrapper EXCEPT ![c] = "refused"]
          /\ UNCHANGED vars
    /\ UNCHANGED <<pack, listening, running>>

\* The whole standard input is in the temporary file.
InputBuffered(c) ==
    /\ wrapper[c] = "buffering"
    /\ wrapper' = [wrapper EXCEPT ![c] = "reading"]
    /\ UNCHANGED <<vars, pack, listening, running>>

\* Mutant: any line from the queue starts pack-objects.
ReadResponseAny(c) ==
    /\ wrapper[c] = "reading"
    /\ ReadLine(c)
    /\ wrapper' = [wrapper EXCEPT ![c] = "packing"]
    /\ pack' = [pack EXCEPT ![c] = "running"]
    /\ UNCHANGED <<listening, running>>

\* One turn of the read loop: 0 starts pack-objects, a position is shown.
ReadResponse(c) ==
    /\ wrapper[c] = "reading"
    /\ ReadLine(c)
    /\ \/ /\ Head(wire[c]) = 0
          /\ wrapper' = [wrapper EXCEPT ![c] = "packing"]
          /\ pack' = [pack EXCEPT ![c] = "running"]
       \/ /\ Head(wire[c]) # 0
          /\ UNCHANGED <<wrapper, pack>>
    /\ UNCHANGED <<listening, running>>

\* Mutant: the end of the connection is not told from a grant.
QueueDisconnectsIgnored(c) ==
    /\ ~alive
    /\ wrapper[c] = "reading"
    /\ wire[c] = <<>>
    /\ wrapper' = [wrapper EXCEPT ![c] = "packing"]
    /\ pack' = [pack EXCEPT ![c] = "running"]
    /\ UNCHANGED <<vars, listening, running>>

\* The connection ends before a 0: exit 75.
QueueDisconnects(c) ==
    /\ ~alive
    /\ wrapper[c] = "reading"
    /\ wire[c] = <<>>
    /\ Hangup(c)
    /\ wrapper' = [wrapper EXCEPT ![c] = "refused"]
    /\ UNCHANGED <<pack, listening, running>>

PackObjectsExits(c) ==
    /\ pack[c] = "running"
    /\ pack' = [pack EXCEPT ![c] = "done"]
    /\ UNCHANGED <<vars, wrapper, listening, running>>

\* The wrapper exits after pack-objects, and its descriptor 3 with it.
WrapperExits(c) ==
    /\ wrapper[c] = "packing"
    /\ pack[c] = "done"
    /\ Hangup(c)
    /\ wrapper' = [wrapper EXCEPT ![c] = "finished"]
    /\ UNCHANGED <<pack, listening, running>>

\* A signal ends the wrapper (upload-pack was stopped, or the kernel ran out of
\* memory).  The script traps only EXIT: bash dies at once and does not pass
\* the signal to pack-objects.
KillWrapper(c) ==
    /\ wrapper[c] \in Connected
    /\ Hangup(c)
    /\ wrapper' = [wrapper EXCEPT ![c] = "killed"]
    /\ UNCHANGED <<pack, listening, running>>

----------------------------------------------------------------------------
(* cmd.sh and the container                                                *)

Listen ==
    /\ alive
    /\ ~listening
    /\ listening' = TRUE
    /\ UNCHANGED <<vars, wrapper, pack, running>>

GoQueueDies ==
    /\ alive
    /\ alive' = FALSE
    /\ UNCHANGED <<idCounter, currentID, pending, peer, id, closed, waiter,
                   reporter, local, worker, wire, shown, wvars>>

ServiceDies(s) ==
    /\ s \in running
    /\ running' = running \ {s}
    /\ UNCHANGED <<vars, wrapper, pack, listening>>

\* A new container: what BackendInit says of the first.
Restarted ==
    /\ alive' = TRUE
    /\ idCounter' = 0
    /\ currentID' = 0
    /\ pending' = <<>>
    /\ peer' = [c \in Clients |-> "none"]
    /\ id' = [c \in Clients |-> 0]
    /\ closed' = [c \in Clients |-> FALSE]
    /\ waiter' = [c \in Clients |-> "none"]
    /\ reporter' = [c \in Clients |-> "none"]
    /\ local' = [c \in Clients |-> 0]
    /\ worker' = [w \in Workers |-> NoClient]
    /\ wire' = [c \in Clients |-> <<>>]
    /\ shown' = [c \in Clients |-> NothingRead]
    /\ wrapper' = [c \in Clients |-> "idle"]
    /\ pack' = [c \in Clients |-> "none"]
    /\ listening' = FALSE
    /\ running' = Services

\* wait -n; exit 1: every process of the container is gone, and the restart
\* policy starts it again.
ContainerRestarts ==
    /\ ~alive \/ running # Services
    /\ Restarted

----------------------------------------------------------------------------
Request(c) ==
    \/ RunHook(c) \/ InputBuffered(c) \/ ReadResponse(c) \/ QueueDisconnects(c)
    \/ PackObjectsExits(c) \/ WrapperExits(c) \/ KillWrapper(c)

QueueStep ==
    /\ \/ ServeClient \/ IDOverflow
       \/ \E c \in Clients : Waiter(c) \/ ReaderCloses(c) \/ Reporter(c)
       \/ \E w \in Workers : WorkerReleases(w)
    /\ UNCHANGED wvars

BackendNext ==
    \/ QueueStep
    \/ \E c \in Clients : Request(c)
    \/ Listen \/ GoQueueDies \/ ContainerRestarts
    \/ \E s \in Services : ServiceDies(s)

BackendSpec == BackendInit /\ [][BackendNext]_allVars

\* The goroutines as in GoQueue; the wrapper's steps, pack-objects and the
\* restart happen eventually, a crash or a signal need not.
BackendFairness ==
    /\ WF_allVars(ServeClient /\ UNCHANGED wvars)
    /\ WF_allVars(IDOverflow /\ UNCHANGED wvars)
    /\ WF_allVars(ContainerRestarts)
    /\ \A w \in Workers : WF_allVars(WorkerReleases(w) /\ UNCHANGED wvars)
    /\ \A c \in Clients :
          /\ WF_allVars(Waiter(c) /\ UNCHANGED wvars)
          /\ WF_allVars(ReaderCloses(c) /\ UNCHANGED wvars)
          /\ WF_allVars(PrintPosition(c) /\ UNCHANGED wvars)
          /\ WF_allVars(UpdateCurrentID(c) /\ UNCHANGED wvars)
          /\ WF_allVars(PrintGrant(c) /\ UNCHANGED wvars)
          /\ SF_allVars((ReporterWakes(c) \/ ReporterQuits(c)) /\ UNCHANGED wvars)
          /\ WF_allVars(InputBuffered(c) \/ ReadResponse(c) \/ QueueDisconnects(c))
          /\ WF_allVars(PackObjectsExits(c))
          /\ WF_allVars(WrapperExits(c))

FairBackendSpec == BackendSpec /\ BackendFairness

----------------------------------------------------------------------------
(* Properties.                                                             *)

BackendTypeOK ==
    /\ TypeOK
    /\ wrapper \in [Clients -> WrapperStates]
    /\ pack \in [Clients -> PackStates]
    /\ listening \in BOOLEAN
    /\ running \in SUBSET Services

\* Why PackHoldsSlot holds: a wrapper that has not ended keeps its connection
\* open, only a wrapper that read the 0 packs, and pack-objects runs under a
\* wrapper that is past the queue.
RequestInv ==
    \A c \in Clients :
        /\ wrapper[c] \in Connected => peer[c] = "up"
        /\ wrapper[c] = "idle" => peer[c] = "none"
        /\ wrapper[c] = "packing" => shown[c] = 0
        /\ wrapper[c] \in {"idle", "buffering", "reading"} => pack[c] = "none"

BackendInv == QueueInv /\ BackendTypeOK /\ RequestInv

\* pack-objects of a wrapper that still runs has a slot of the queue, also after
\* go-queue died, after other clients were cancelled or killed, and after
\* restarts.
PackHoldsSlot ==
    \A c \in Clients :
        wrapper[c] = "packing" => \E w \in Workers : Holds(w, c)

\* Without killed wrappers, at most --queue-size pack-objects processes run.
PacksWithinQueue ==
    Cardinality({c \in Busy : pack[c] = "running"}) <= Cardinality(Workers)

\* A request that got a hook process is over in the end: finished, refused,
\* killed, or gone with the container; no FastCGI thread is lost to a full
\* queue, a dead queue or a cancelled neighbour.
RequestEnds == \A c \in Clients : c \in Busy ~> c \notin Busy

\* "Do not exec: keeping fd 3 open tells the queue that this slot remains active
\* until pack-objects exits": a running pack-objects always has a slot.
SlotUntilPackExits ==
    \A c \in Clients :
        pack[c] = "running" => \E w \in Workers : Holds(w, c)
=============================================================================
