-------------------------- MODULE RepoSizeCollector --------------------------
(***************************************************************************)
(* mirror-repo-size-collector.py on one mirror host: the daily service and *)
(* a run by hand may overlap, a run may fail or be killed anywhere, the    *)
(* repositories and their list change meanwhile, and node_exporter reads   *)
(* the two published files one after the other.                            *)
(***************************************************************************)
EXTENDS Naturals

CONSTANTS
    Procs,       \* processes of the collector
    Repos,       \* repositories, numbered in the order of their names
    MaxClock,    \* bound on the time
    MaxRuns,     \* bound on the starts of the collector
    MaxChanges   \* bound on the changes under data_dir and of the list

ASSUME CollectorAssumption ==
    /\ Repos \subseteq Nat
    /\ MaxClock \in Nat \ {0} /\ MaxRuns \in Nat /\ MaxChanges \in Nat
    /\ "nobody" \notin Procs

Nobody == "nobody"

VARIABLES
    clock,         \* time.time()
    dirs,          \* the repository directories under data_dir
    listed,        \* local-repositories.txt
    pc,            \* where each process is
    timestamp,     \* main's timestamp
    lock,          \* who holds the lock of the site
    repositories,  \* what repository_paths returned
    sizes,         \* when each repository was measured; 0 if it is not yet
    success,
    turn,          \* which attempt this is, counted at the lock
    files,         \* the two published files
    scrape,        \* the status file node_exporter has read, while it is between the two
    turns, runs, changes

proc == <<pc, timestamp, lock, repositories, sizes, success, turn, turns, runs>>

vars == <<clock, dirs, listed, proc, files, scrape, changes>>

NotMeasured == [r \in Repos |-> 0]

NoSizes  == [whole |-> FALSE, sizes |-> NotMeasured, timestamp |-> 0, turn |-> 0]
NoStatus == [whole |-> FALSE, success |-> FALSE, timestamp |-> 0, turn |-> 0]

Init ==
    /\ clock = 1
    /\ dirs = Repos /\ listed = Repos
    /\ pc = [p \in Procs |-> "idle"]
    /\ timestamp = [p \in Procs |-> 0]
    /\ lock = Nobody
    /\ repositories = [p \in Procs |-> {}]
    /\ sizes = [p \in Procs |-> NotMeasured]
    /\ success = [p \in Procs |-> FALSE]
    /\ turn = timestamp
    /\ files = [sizes |-> NoSizes, status |-> NoStatus]
    /\ scrape = [reading |-> FALSE, status |-> NoStatus]
    /\ turns = 0 /\ runs = 0 /\ changes = 0

----------------------------------------------------------------------------
(* The world around the collector                                          *)

Tick ==
    /\ clock < MaxClock
    /\ clock' = clock + 1
    /\ UNCHANGED <<dirs, listed, proc, files, scrape, changes>>

\* Repositories come and go, and the list is installed anew; while that goes on
\* the file may be empty.
Change ==
    /\ changes < MaxChanges
    /\ changes' = changes + 1
    /\ \/ \E r \in Repos : dirs' = (dirs \ {r}) \cup ({r} \ dirs)
          /\ UNCHANGED listed
       \/ listed' \in (SUBSET Repos) \ {listed}
          /\ UNCHANGED dirs
    /\ UNCHANGED <<clock, proc, files, scrape>>

\* node_exporter reads the *.prom files in the order of their names.
ScrapeStatus ==
    /\ ~scrape.reading
    /\ scrape' = [reading |-> TRUE, status |-> files.status]
    /\ UNCHANGED <<clock, dirs, listed, proc, files, changes>>

ScrapeSizes ==
    /\ scrape.reading
    /\ scrape' = [reading |-> FALSE, status |-> NoStatus]
    /\ UNCHANGED <<clock, dirs, listed, proc, files, changes>>

----------------------------------------------------------------------------
(* The collector                                                           *)

Goto(p, step) == pc' = [pc EXCEPT ![p] = step]

\* What a process knows goes with it.
End(p) ==
    /\ Goto(p, "idle")
    /\ timestamp' = [timestamp EXCEPT ![p] = 0]
    /\ repositories' = [repositories EXCEPT ![p] = {}]
    /\ sizes' = [sizes EXCEPT ![p] = NotMeasured]
    /\ success' = [success EXCEPT ![p] = FALSE]
    /\ turn' = [turn EXCEPT ![p] = 0]

\* main up to the lock: the time is taken before it.
Start(p) ==
    /\ pc[p] = "idle" /\ runs < MaxRuns
    /\ runs' = runs + 1
    /\ timestamp' = [timestamp EXCEPT ![p] = clock]
    /\ Goto(p, "flock")
    /\ UNCHANGED <<clock, dirs, listed, lock, repositories, sizes, success, turn, turns,
                   files, scrape, changes>>

\* Mutant: the lock is not exclusive.
LockFreeShared(p) == p \in Procs

LockFree(p) == lock = Nobody

Flock(p) ==
    /\ pc[p] = "flock" /\ LockFree(p)
    /\ lock' = p
    /\ turns' = turns + 1
    /\ turn' = [turn EXCEPT ![p] = turns + 1]
    /\ Goto(p, "paths")
    /\ UNCHANGED <<clock, dirs, listed, timestamp, repositories, sizes, success, runs,
                   files, scrape, changes>>

\* The directories with a name on the list, without those that cannot be looked
\* at; none at all is an error, and so is a list that cannot be read.
RepositoryPaths(p) ==
    /\ pc[p] = "paths"
    /\ \/ /\ \E found \in (SUBSET (listed \cap dirs)) \ {{}} :
                repositories' = [repositories EXCEPT ![p] = found]
          /\ Goto(p, "du")
       \/ Goto(p, "status") /\ UNCHANGED repositories
    /\ UNCHANGED <<clock, dirs, listed, timestamp, lock, sizes, success, turn, turns, runs,
                   files, scrape, changes>>

ToMeasure(p) == {r \in repositories[p] : sizes[p][r] = 0}

\* for name, path in sorted(...)
IsNext(p, r) == r \in ToMeasure(p) /\ \A other \in ToMeasure(p) : r <= other

\* Mutant: a repository that cannot be measured is left out.
AfterFailureSkips == {"sizes"}

\* Where an attempt goes on when du fails.
AfterFailure == {"status"}

\* One du after the other; it fails on a directory that is gone, and may fail on
\* one whose files change under it.
Du(p) ==
    /\ pc[p] = "du"
    /\ \/ \E r \in dirs :
             /\ IsNext(p, r)
             /\ sizes' = [sizes EXCEPT ![p][r] = clock]
             /\ Goto(p, IF ToMeasure(p) = {r} THEN "sizes" ELSE "du")
       \/ /\ \E step \in AfterFailure : Goto(p, step)
          /\ UNCHANGED sizes
    /\ UNCHANGED <<clock, dirs, listed, timestamp, lock, repositories, success, turn, turns,
                   runs, files, scrape, changes>>

\* Mutant: the file is opened where node_exporter reads it.
WriteTemporaryInPlace(f) ==
    files' = IF f = "sizes" THEN [files EXCEPT !.sizes = NoSizes]
             ELSE [files EXCEPT !.status = NoStatus]

\* The text goes to a file of its own that node_exporter does not look at.
WriteTemporary(f) == UNCHANGED files

\* Mutant: the time of the end stands for the time of the scan.
ScanTimestampLate(p) == clock

ScanTimestamp(p) == timestamp[p]

\* atomic_write of the sizes, up to the rename.  An error ends the attempt, not
\* the process.
WriteSizes(p) ==
    /\ pc[p] = "sizes"
    /\ \/ WriteTemporary("sizes") /\ Goto(p, "replace_sizes")
       \/ Goto(p, "status") /\ UNCHANGED files
    /\ UNCHANGED <<clock, dirs, listed, timestamp, lock, repositories, sizes, success, turn,
                   turns, runs, scrape, changes>>

ReplaceSizes(p) ==
    /\ pc[p] = "replace_sizes"
    /\ Goto(p, "status")
    /\ \/ /\ files' = [files EXCEPT !.sizes =
                 [whole |-> TRUE, sizes |-> sizes[p], timestamp |-> ScanTimestamp(p),
                  turn |-> turn[p]]]
          /\ success' = [success EXCEPT ![p] = TRUE]
       \/ UNCHANGED <<files, success>>
    /\ UNCHANGED <<clock, dirs, listed, timestamp, lock, repositories, sizes, turn, turns,
                   runs, scrape, changes>>

\* Mutant: the lock of an attempt that failed is kept.
ReleaseOnSuccess(p) == lock' = IF success[p] THEN Nobody ELSE lock

\* The lock goes with the process.
Release(p) == lock' = Nobody

\* The finally clause; an error in it ends the process.
WriteStatus(p) ==
    /\ pc[p] = "status"
    /\ \/ /\ WriteTemporary("status") /\ Goto(p, "replace_status")
          /\ UNCHANGED <<timestamp, lock, repositories, sizes, success, turn>>
       \/ End(p) /\ Release(p) /\ UNCHANGED files
    /\ UNCHANGED <<clock, dirs, listed, turns, runs, scrape, changes>>

ReplaceStatus(p) ==
    /\ pc[p] = "replace_status"
    /\ End(p) /\ Release(p)
    /\ \/ files' = [files EXCEPT !.status =
                 [whole |-> TRUE, success |-> success[p], timestamp |-> timestamp[p],
                  turn |-> turn[p]]]
       \/ UNCHANGED files
    /\ UNCHANGED <<clock, dirs, listed, turns, runs, scrape, changes>>

\* Also when the 24 hours of the service are over, or the lock cannot be opened.
Kill(p) ==
    /\ pc[p] # "idle"
    /\ End(p)
    /\ lock' = IF lock = p THEN Nobody ELSE lock
    /\ UNCHANGED <<clock, dirs, listed, turns, runs, files, scrape, changes>>

Collect(p) ==
    \/ Flock(p) \/ RepositoryPaths(p) \/ Du(p) \/ WriteSizes(p) \/ ReplaceSizes(p)
    \/ WriteStatus(p) \/ ReplaceStatus(p)

Next ==
    \/ Tick \/ Change \/ ScrapeStatus \/ ScrapeSizes
    \/ \E p \in Procs : Start(p) \/ Collect(p) \/ Kill(p)

Spec == Init /\ [][Next]_vars

\* du ends, and the kernel wakes who waits for a lock that is free.
FairSpec == Spec /\ \A p \in Procs : WF_vars(Collect(p))

----------------------------------------------------------------------------
(* Properties                                                              *)

Locked == {"paths", "du", "sizes", "replace_sizes", "status", "replace_status"}

SizesFiles ==
    [whole : BOOLEAN, sizes : [Repos -> 0..MaxClock], timestamp : 0..MaxClock, turn : Nat]

StatusFiles ==
    [whole : BOOLEAN, success : BOOLEAN, timestamp : 0..MaxClock, turn : Nat]

\* Every variable has its type, and who is past the lock holds it alone.
CollectorTypeOK ==
    /\ clock \in 1..MaxClock
    /\ dirs \subseteq Repos /\ listed \subseteq Repos
    /\ pc \in [Procs -> Locked \cup {"idle", "flock"}]
    /\ timestamp \in [Procs -> 0..MaxClock]
    /\ lock \in Procs \cup {Nobody}
    /\ repositories \in [Procs -> SUBSET Repos]
    /\ sizes \in [Procs -> [Repos -> 0..MaxClock]]
    /\ success \in [Procs -> BOOLEAN]
    /\ turn \in [Procs -> Nat]
    /\ files \in [sizes : SizesFiles, status : StatusFiles]
    /\ scrape \in [reading : BOOLEAN, status : StatusFiles]
    /\ \A p \in Procs : pc[p] \in Locked <=> lock = p
    /\ turns \in Nat /\ runs \in 0..MaxRuns /\ changes \in 0..MaxChanges

\* What node_exporter exposes when it reads the sizes now.
Sample == [status |-> scrape.status, sizes |-> files.sizes]

\* Of what Prometheus gets, although the two files are published and read one
\* after the other: a status of success stands beside the whole sizes of that
\* attempt or of a later one, a failure never beside sizes of that attempt.
SampleVouched ==
    Sample.status.whole =>
        IF Sample.status.success
        THEN Sample.sizes.whole /\ Sample.sizes.turn >= Sample.status.turn
        ELSE Sample.sizes.turn # Sample.status.turn

\* However long a run waits for the lock: no size is older than the time of the
\* scan says, which is what the alert on stale sizes goes by.
ScanNeverOverstated ==
    \A r \in Repos :
        files.sizes.sizes[r] # 0 => files.sizes.sizes[r] >= files.sizes.timestamp

\* Published sizes only ever change to those of one whole scan, by the process that
\* has the lock: the repositories with a size are all that this scan found.
SizesAreOneScan ==
    [][files'.sizes # files.sizes =>
          /\ files'.sizes.turn > files.sizes.turn
          /\ \E p \in Procs :
                /\ lock = p /\ repositories[p] # {}
                /\ {r \in Repos : files'.sizes.sizes[r] # 0} = repositories[p]]_files

\* A run that waits for the lock ends, whatever becomes of the runs before it.
CollectionEnds == \A p \in Procs : pc[p] = "flock" ~> pc[p] = "idle"

----------------------------------------------------------------------------
(* The inductive invariant                                                 *)

Measured(table) == {r \in Repos : table[r] # 0}

\* What a process knows at each step.
ProcInv ==
    \A p \in Procs :
        /\ timestamp[p] <= clock
        /\ \A r \in Measured(sizes[p]) : sizes[p][r] >= timestamp[p]
        /\ pc[p] \in {"idle", "flock", "paths"} => Measured(sizes[p]) = {}
        /\ pc[p] = "du" => Measured(sizes[p]) \subseteq repositories[p]
        /\ pc[p] \in {"du", "sizes", "replace_sizes"} => repositories[p] # {}
        /\ pc[p] \in {"sizes", "replace_sizes"} => Measured(sizes[p]) = repositories[p]
        /\ success[p] => pc[p] \in {"status", "replace_status"}

\* The attempts are counted at the lock; the holder's is the latest, and it has
\* published its sizes if it has succeeded, and no status yet.
TurnInv ==
    /\ \A p \in Procs : pc[p] \in Locked => turn[p] = turns /\ turns > 0
    /\ files.status.turn <= turns /\ scrape.status.turn <= turns
    /\ files.sizes.turn <= turns
    /\ \A p \in Procs : pc[p] \in Locked =>
          /\ files.status.turn < turns /\ scrape.status.turn < turns
          /\ IF success[p] THEN files.sizes.turn = turns /\ files.sizes.whole
             ELSE files.sizes.turn < turns

Vouched(status) ==
    status.whole =>
        IF status.success THEN files.sizes.whole /\ files.sizes.turn >= status.turn
        ELSE files.sizes.turn # status.turn

CollectorInv ==
    /\ CollectorTypeOK /\ ProcInv /\ TurnInv
    /\ Vouched(files.status) /\ Vouched(scrape.status)
    /\ ScanNeverOverstated
=============================================================================
