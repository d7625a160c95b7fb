---------------------- MODULE RepoSizeCollector_proofs ----------------------
(***************************************************************************)
(* Proofs about the size collector, for any number of processes, runs and  *)
(* repositories: the lock is exclusive, a status vouches for the sizes     *)
(* beside it, and the time of a scan is never overstated.                  *)
(***************************************************************************)
EXTENDS RepoSizeCollector, TLAPS

USE CollectorAssumption DEF Nobody

LEMMA InitInv == Init => CollectorInv
<1> SUFFICES ASSUME Init PROVE CollectorInv
  OBVIOUS
<1>1. 0 \in 0..MaxClock /\ 1 \in 1..MaxClock
  OBVIOUS
<1>2. NotMeasured \in [Repos -> 0..MaxClock]
  BY <1>1 DEF NotMeasured
<1>3. NoSizes \in SizesFiles
  BY <1>1, <1>2 DEF NoSizes, SizesFiles
<1>4. NoStatus \in StatusFiles
  BY <1>1 DEF NoStatus, StatusFiles
<1>5. CollectorTypeOK
  <2>1. files \in [sizes : SizesFiles, status : StatusFiles]
        /\ scrape \in [reading : BOOLEAN, status : StatusFiles]
    BY <1>3, <1>4 DEF Init
  <2>2. /\ pc \in [Procs -> Locked \cup {"idle", "flock"}]
        /\ lock \in Procs \cup {Nobody}
        /\ \A p \in Procs : pc[p] \in Locked <=> lock = p
    BY DEF Init, Locked
  <2>3. /\ timestamp \in [Procs -> 0..MaxClock] /\ turn \in [Procs -> Nat]
        /\ repositories \in [Procs -> SUBSET Repos]
        /\ sizes \in [Procs -> [Repos -> 0..MaxClock]]
    BY <1>1, <1>2 DEF Init
  <2>4. success \in [Procs -> BOOLEAN]
    BY DEF Init
  <2>5. /\ clock \in 1..MaxClock /\ dirs \subseteq Repos /\ listed \subseteq Repos
        /\ turns \in Nat /\ runs \in 0..MaxRuns /\ changes \in 0..MaxChanges
    BY <1>1 DEF Init
  <2>6. QED
    BY <2>1, <2>2, <2>3, <2>4, <2>5 DEF CollectorTypeOK
<1>6. ProcInv
  <2>1. Measured(NotMeasured) = {}
    BY DEF Measured, NotMeasured
  <2>2. ASSUME NEW p \in Procs
        PROVE  pc[p] = "idle" /\ timestamp[p] = 0 /\ ~success[p] /\ sizes[p] = NotMeasured
    BY DEF Init
  <2>3. ASSUME NEW p \in Procs
        PROVE  timestamp[p] <= clock
    <3>1. timestamp[p] = 0 /\ clock = 1
      BY DEF Init
    <3>2. QED
      BY <3>1
  <2>4. \A p \in Procs : Measured(sizes[p]) = {}
    BY <2>1, <2>2
  <2>5. QED
    BY <2>2, <2>3, <2>4 DEF ProcInv
<1>7. TurnInv
  <2>1. \A p \in Procs : pc[p] \notin Locked
    BY DEF Init, Locked
  <2>2. files.status.turn = 0 /\ scrape.status.turn = 0 /\ files.sizes.turn = 0 /\ turns = 0
    BY DEF Init, NoSizes, NoStatus
  <2>3. QED
    BY <2>1, <2>2 DEF TurnInv
<1>8. Vouched(files.status) /\ Vouched(scrape.status)
  BY DEF Init, Vouched, NoStatus
<1>9. ScanNeverOverstated
  BY DEF Init, ScanNeverOverstated, NoSizes, NotMeasured
<1>10. QED
  BY <1>5, <1>6, <1>7, <1>8, <1>9 DEF CollectorInv

\* The clock, the repositories and node_exporter disturb nothing.
LEMMA WorldInv ==
    ASSUME CollectorInv, Tick \/ Change \/ ScrapeStatus \/ ScrapeSizes
    PROVE  CollectorInv'
<1>1. UNCHANGED <<proc, files>>
  BY DEF Tick, Change, ScrapeStatus, ScrapeSizes
<1>2. clock' \in 1..MaxClock /\ clock' >= clock
  BY DEF CollectorInv, CollectorTypeOK, Tick, Change, ScrapeStatus, ScrapeSizes
<1>3. dirs' \subseteq Repos /\ listed' \subseteq Repos /\ changes' \in 0..MaxChanges
  <2>1. CASE Change
    <3>1. changes' \in 0..MaxChanges
      BY <2>1 DEF CollectorInv, CollectorTypeOK, Change
    <3>2. dirs' \subseteq Repos /\ listed' \subseteq Repos
      BY <2>1 DEF CollectorInv, CollectorTypeOK, Change
    <3>3. QED
      BY <3>1, <3>2
  <2>2. CASE Tick \/ ScrapeStatus \/ ScrapeSizes
    BY <2>2 DEF CollectorInv, CollectorTypeOK, Tick, ScrapeStatus, ScrapeSizes
  <2>3. QED
    BY <2>1, <2>2
<1>4. /\ scrape' \in [reading : BOOLEAN, status : StatusFiles]
      /\ scrape'.status \in {scrape.status, files.status, NoStatus}
  <2>1. NoStatus \in StatusFiles /\ files.status \in StatusFiles
        /\ scrape \in [reading : BOOLEAN, status : StatusFiles]
    BY DEF CollectorInv, CollectorTypeOK, NoStatus, StatusFiles
  <2>2. \/ scrape' = scrape
        \/ scrape' = [reading |-> TRUE, status |-> files.status]
        \/ scrape' = [reading |-> FALSE, status |-> NoStatus]
    BY DEF Tick, Change, ScrapeStatus, ScrapeSizes
  <2>3. CASE scrape' = scrape
    BY <2>1, <2>3
  <2>4. CASE scrape' = [reading |-> TRUE, status |-> files.status]
    BY <2>1, <2>4
  <2>5. CASE scrape' = [reading |-> FALSE, status |-> NoStatus]
    BY <2>1, <2>5
  <2>6. QED
    BY <2>2, <2>3, <2>4, <2>5
<1>5. CollectorTypeOK'
  BY <1>1, <1>2, <1>3, <1>4 DEF CollectorInv, CollectorTypeOK, proc
<1>6. ProcInv'
  <2>1. \A p \in Procs : timestamp[p] \in Nat /\ clock \in Nat /\ clock' \in Nat
    BY <1>2 DEF CollectorInv, CollectorTypeOK
  <2>2. ASSUME NEW p \in Procs
        PROVE  timestamp'[p] <= clock'
    <3>1. timestamp'[p] = timestamp[p] /\ timestamp[p] <= clock
      BY <1>1 DEF CollectorInv, ProcInv, proc
    <3>2. QED
      BY <1>2, <2>1, <3>1
  <2>3. QED
    BY <1>1, <2>2 DEF CollectorInv, ProcInv, Measured, proc
<1>7. TurnInv'
  BY <1>1, <1>4 DEF CollectorInv, CollectorTypeOK, TurnInv, NoStatus, proc
<1>8. Vouched(files.status)' /\ Vouched(scrape.status)'
  BY <1>1, <1>4 DEF CollectorInv, Vouched, NoStatus
<1>9. ScanNeverOverstated'
  BY <1>1 DEF CollectorInv, ScanNeverOverstated
<1>10. QED
  BY <1>5, <1>6, <1>7, <1>8, <1>9 DEF CollectorInv

\* A process that ends and takes its lock with it.
LEMMA EndInv ==
    ASSUME CollectorInv, NEW p \in Procs, End(p),
           lock' = (IF lock = p THEN Nobody ELSE lock),
           UNCHANGED <<clock, dirs, listed, turns, runs, changes, scrape>>,
           files'.sizes = files.sizes, files' \in [sizes : SizesFiles, status : StatusFiles],
           \/ files'.status = files.status
           \/ lock = p /\ files'.status.turn <= turns /\ Vouched(files'.status)
    PROVE  CollectorInv'
<1>1. NotMeasured \in [Repos -> 0..MaxClock] /\ Measured(NotMeasured) = {} /\ 0 \in 0..MaxClock
  BY DEF NotMeasured, Measured
<1>2. /\ pc' = [pc EXCEPT ![p] = "idle"]
      /\ timestamp' = [timestamp EXCEPT ![p] = 0]
      /\ repositories' = [repositories EXCEPT ![p] = {}]
      /\ sizes' = [sizes EXCEPT ![p] = NotMeasured]
      /\ success' = [success EXCEPT ![p] = FALSE]
      /\ turn' = [turn EXCEPT ![p] = 0]
  BY DEF End, Goto
<1>3. CollectorTypeOK'
  <2>1. /\ pc' \in [Procs -> Locked \cup {"idle", "flock"}]
        /\ lock' \in Procs \cup {Nobody}
        /\ \A q \in Procs : pc'[q] \in Locked <=> lock' = q
    BY <1>2 DEF CollectorInv, CollectorTypeOK, Locked
  <2>2. /\ timestamp' \in [Procs -> 0..MaxClock] /\ turn' \in [Procs -> Nat]
        /\ repositories' \in [Procs -> SUBSET Repos]
        /\ sizes' \in [Procs -> [Repos -> 0..MaxClock]]
    BY <1>1, <1>2 DEF CollectorInv, CollectorTypeOK
  <2>3. success' \in [Procs -> BOOLEAN]
    BY <1>2 DEF CollectorInv, CollectorTypeOK
  <2>4. QED
    BY <2>1, <2>2, <2>3 DEF CollectorInv, CollectorTypeOK
<1>4. ProcInv'
  <2>1. ASSUME NEW q \in Procs
        PROVE  IF q = p THEN /\ pc'[q] = "idle" /\ timestamp'[q] = 0 /\ ~success'[q]
                             /\ sizes'[q] = NotMeasured
               ELSE /\ pc'[q] = pc[q] /\ timestamp'[q] = timestamp[q]
                    /\ success'[q] = success[q] /\ sizes'[q] = sizes[q]
                    /\ repositories'[q] = repositories[q]
    BY <1>2 DEF CollectorInv, CollectorTypeOK
  <2>2. clock' = clock /\ clock \in Nat
    BY DEF CollectorInv, CollectorTypeOK
  <2>3. QED
    BY <1>1, <2>1, <2>2 DEF CollectorInv, ProcInv
<1>5. TurnInv'
  <2>1. \A q \in Procs : pc'[q] \in Locked =>
            pc[q] \in Locked /\ q # p /\ turn'[q] = turn[q] /\ success'[q] = success[q]
    BY <1>2 DEF CollectorInv, CollectorTypeOK, Locked
  <2>2. ASSUME NEW q \in Procs, pc'[q] \in Locked
        PROVE  lock # p /\ files'.status = files.status
    BY <2>1, <2>2 DEF CollectorInv, CollectorTypeOK
  <2>3. files'.status.turn <= turns' /\ scrape'.status.turn <= turns' /\ files'.sizes.turn <= turns'
    BY DEF CollectorInv, TurnInv
  <2>4. ASSUME NEW q \in Procs, pc'[q] \in Locked
        PROVE  /\ turn'[q] = turns' /\ turns' > 0
               /\ files'.status.turn < turns' /\ scrape'.status.turn < turns'
               /\ IF success'[q] THEN files'.sizes.turn = turns' /\ files'.sizes.whole
                  ELSE files'.sizes.turn < turns'
    BY <2>1, <2>2, <2>4 DEF CollectorInv, TurnInv
  <2>5. QED
    BY <2>3, <2>4 DEF TurnInv
<1>6. Vouched(files.status)' /\ Vouched(scrape.status)' /\ ScanNeverOverstated'
  BY DEF CollectorInv, Vouched, ScanNeverOverstated
<1>7. QED
  BY <1>3, <1>4, <1>5, <1>6 DEF CollectorInv

\* A process that goes on changes only what is its own: a step within one attempt.
LEMMA StepInv ==
    ASSUME CollectorInv, NEW p \in Procs, NEW step \in Locked, pc[p] \in Locked,
           Goto(p, step),
           UNCHANGED <<clock, dirs, listed, timestamp, lock, turn, turns, runs, changes,
                       scrape>>,
           repositories' \in [Procs -> SUBSET Repos],
           sizes' \in [Procs -> [Repos -> 0..MaxClock]],
           success' \in [Procs -> BOOLEAN],
           files' \in [sizes : SizesFiles, status : StatusFiles],
           files'.status = files.status,
           \A q \in Procs \ {p} : /\ repositories'[q] = repositories[q]
                                  /\ sizes'[q] = sizes[q] /\ success'[q] = success[q],
           \A r \in Measured(sizes'[p]) : sizes'[p][r] >= timestamp[p],
           step = "du" => Measured(sizes'[p]) \subseteq repositories'[p],
           step # "paths",
           step \in {"du", "sizes", "replace_sizes"} => repositories'[p] # {},
           step \in {"sizes", "replace_sizes"} => Measured(sizes'[p]) = repositories'[p],
           success'[p] => step \in {"status", "replace_status"},
           \/ files'.sizes = files.sizes /\ success'[p] = success[p]
           \/ /\ success'[p] /\ files'.sizes.turn = turns /\ files'.sizes.whole
              /\ ScanNeverOverstated'
    PROVE  CollectorInv'
<1>1. CollectorTypeOK'
  <2>1. pc' \in [Procs -> Locked \cup {"idle", "flock"}]
        /\ \A q \in Procs : pc'[q] \in Locked <=> lock' = q
    BY DEF CollectorInv, CollectorTypeOK, Goto
  <2>2. QED
    BY <2>1 DEF CollectorInv, CollectorTypeOK
<1>2. \A q \in Procs : pc'[q] = IF q = p THEN step ELSE pc[q]
  BY DEF CollectorInv, CollectorTypeOK, Goto
<1>3. ProcInv'
  <2>1. ASSUME NEW q \in Procs
        PROVE  /\ timestamp'[q] <= clock'
               /\ \A r \in Measured(sizes'[q]) : sizes'[q][r] >= timestamp'[q]
               /\ pc'[q] \in {"idle", "flock", "paths"} => Measured(sizes'[q]) = {}
               /\ pc'[q] = "du" => Measured(sizes'[q]) \subseteq repositories'[q]
               /\ pc'[q] \in {"du", "sizes", "replace_sizes"} => repositories'[q] # {}
               /\ pc'[q] \in {"sizes", "replace_sizes"} => Measured(sizes'[q]) = repositories'[q]
               /\ success'[q] => pc'[q] \in {"status", "replace_status"}
    <3>1. CASE q = p
      <4>1. step \notin {"idle", "flock", "paths"}
        BY DEF Locked
      <4>2. QED
        BY <1>2, <3>1, <4>1 DEF CollectorInv, ProcInv
    <3>2. CASE q # p
      BY <1>2, <3>2 DEF CollectorInv, ProcInv
    <3>3. QED
      BY <3>1, <3>2
  <2>2. QED
    BY <2>1 DEF ProcInv, Measured
<1>4. turn[p] = turns /\ turns > 0 /\ \A q \in Procs : pc'[q] \in Locked => q = p
  BY <1>2 DEF CollectorInv, CollectorTypeOK, TurnInv
<1>5. TurnInv'
  BY <1>4 DEF CollectorInv, CollectorTypeOK, TurnInv
<1>6. Vouched(files.status)' /\ Vouched(scrape.status)'
  <2>1. CASE files'.sizes = files.sizes
    BY <2>1 DEF CollectorInv, Vouched
  <2>2. CASE files'.sizes.turn = turns /\ files'.sizes.whole
    <3>1. files.status.turn < turns /\ scrape.status.turn < turns
      BY DEF CollectorInv, TurnInv
    <3>2. turns \in Nat /\ files.status.turn \in Nat /\ scrape.status.turn \in Nat
      BY DEF CollectorInv, CollectorTypeOK, StatusFiles
    <3>3. QED
      BY <2>2, <3>1, <3>2 DEF Vouched
  <2>3. QED
    BY <2>1, <2>2
<1>7. ScanNeverOverstated'
  <2>1. CASE files'.sizes = files.sizes
    BY <2>1 DEF CollectorInv, ScanNeverOverstated
  <2>2. QED
    BY <2>1
<1>8. QED
  BY <1>1, <1>3, <1>5, <1>6, <1>7 DEF CollectorInv

LEMMA StartInv ==
    ASSUME CollectorInv, NEW p \in Procs, Start(p)
    PROVE  CollectorInv'
<1>1. /\ pc[p] = "idle" /\ pc' = [pc EXCEPT ![p] = "flock"]
      /\ timestamp' = [timestamp EXCEPT ![p] = clock]
      /\ UNCHANGED <<clock, dirs, listed, lock, repositories, sizes, success, turn, turns,
                     files, scrape, changes>>
  BY DEF Start, Goto
<1>2. clock \in 0..MaxClock /\ runs' \in 0..MaxRuns
  BY DEF CollectorInv, CollectorTypeOK, Start
<1>3. CollectorTypeOK'
  <2>1. /\ pc' \in [Procs -> Locked \cup {"idle", "flock"}]
        /\ \A q \in Procs : pc'[q] \in Locked <=> lock' = q
    BY <1>1 DEF CollectorInv, CollectorTypeOK, Locked
  <2>2. timestamp' \in [Procs -> 0..MaxClock]
    BY <1>1, <1>2 DEF CollectorInv, CollectorTypeOK
  <2>3. QED
    BY <1>1, <1>2, <2>1, <2>2 DEF CollectorInv, CollectorTypeOK
<1>4. ProcInv'
  <2>1. \A q \in Procs : /\ pc'[q] = IF q = p THEN "flock" ELSE pc[q]
                         /\ timestamp'[q] = IF q = p THEN clock ELSE timestamp[q]
    BY <1>1 DEF CollectorInv, CollectorTypeOK
  <2>2. clock <= clock /\ Measured(sizes[p]) = {} /\ ~success[p]
    BY <1>1, <1>2 DEF CollectorInv, ProcInv
  <2>3. QED
    BY <1>1, <2>1, <2>2 DEF CollectorInv, ProcInv, Measured
<1>5. TurnInv'
  <2>1. \A q \in Procs : pc'[q] \in Locked => pc[q] \in Locked
    BY <1>1 DEF CollectorInv, CollectorTypeOK, Locked
  <2>2. QED
    BY <1>1, <2>1 DEF CollectorInv, TurnInv
<1>6. Vouched(files.status)' /\ Vouched(scrape.status)' /\ ScanNeverOverstated'
  BY <1>1 DEF CollectorInv, Vouched, ScanNeverOverstated
<1>7. QED
  BY <1>3, <1>4, <1>5, <1>6 DEF CollectorInv

LEMMA FlockInv ==
    ASSUME CollectorInv, NEW p \in Procs, Flock(p)
    PROVE  CollectorInv'
<1>1. /\ pc[p] = "flock" /\ lock = Nobody /\ lock' = p
      /\ pc' = [pc EXCEPT ![p] = "paths"]
      /\ turns' = turns + 1 /\ turn' = [turn EXCEPT ![p] = turns + 1]
      /\ UNCHANGED <<clock, dirs, listed, timestamp, repositories, sizes, success, runs,
                     files, scrape, changes>>
  BY DEF Flock, LockFree, Goto
<1>2. CollectorTypeOK'
  <2>1. /\ pc' \in [Procs -> Locked \cup {"idle", "flock"}]
        /\ \A q \in Procs : pc'[q] \in Locked <=> lock' = q
    BY <1>1 DEF CollectorInv, CollectorTypeOK, Locked
  <2>2. turn' \in [Procs -> Nat] /\ turns' \in Nat
    BY <1>1 DEF CollectorInv, CollectorTypeOK
  <2>3. QED
    BY <1>1, <2>1, <2>2 DEF CollectorInv, CollectorTypeOK
<1>3. \A q \in Procs : pc'[q] = IF q = p THEN "paths" ELSE pc[q]
  BY <1>1 DEF CollectorInv, CollectorTypeOK
<1>4. ProcInv'
  <2>1. Measured(sizes[p]) = {} /\ ~success[p]
    BY <1>1 DEF CollectorInv, ProcInv
  <2>2. QED
    BY <1>1, <1>3, <2>1 DEF CollectorInv, ProcInv, Measured
<1>5. TurnInv'
  <2>1. \A q \in Procs : pc'[q] \in Locked => q = p /\ ~success[q]
    BY <1>1, <1>3 DEF CollectorInv, CollectorTypeOK, ProcInv
  <2>2. turn'[p] = turns' /\ turns \in Nat
    BY <1>1 DEF CollectorInv, CollectorTypeOK
  <2>3. /\ files.status.turn \in Nat /\ scrape.status.turn \in Nat /\ files.sizes.turn \in Nat
        /\ files.status.turn <= turns /\ scrape.status.turn <= turns
        /\ files.sizes.turn <= turns
    BY DEF CollectorInv, CollectorTypeOK, TurnInv, StatusFiles, SizesFiles
  <2>4. QED
    BY <1>1, <2>1, <2>2, <2>3 DEF TurnInv
<1>6. Vouched(files.status)' /\ Vouched(scrape.status)' /\ ScanNeverOverstated'
  BY <1>1 DEF CollectorInv, Vouched, ScanNeverOverstated
<1>7. QED
  BY <1>2, <1>4, <1>5, <1>6 DEF CollectorInv

LEMMA RepositoryPathsInv ==
    ASSUME CollectorInv, NEW p \in Procs, RepositoryPaths(p)
    PROVE  CollectorInv'
<1>1. /\ pc[p] = "paths" /\ pc[p] \in Locked
      /\ UNCHANGED <<clock, dirs, listed, timestamp, lock, sizes, success, turn, turns, runs,
                     files, scrape, changes>>
  BY DEF RepositoryPaths, Locked
<1>2. Measured(sizes[p]) = {} /\ ~success[p]
  BY <1>1 DEF CollectorInv, ProcInv
<1>3. CASE Goto(p, "status") /\ UNCHANGED repositories
  <2>1. "status" \in Locked
    BY DEF Locked
  <2>2. QED
    BY <1>1, <1>2, <1>3, <2>1, StepInv DEF CollectorInv, CollectorTypeOK
<1>4. ASSUME NEW found \in (SUBSET (listed \cap dirs)) \ {{}},
             repositories' = [repositories EXCEPT ![p] = found], Goto(p, "du")
      PROVE  CollectorInv'
  <2>1. "du" \in Locked
    BY DEF Locked
  <2>2. repositories' \in [Procs -> SUBSET Repos] /\ repositories'[p] # {}
        /\ \A q \in Procs \ {p} : repositories'[q] = repositories[q]
    BY <1>4 DEF CollectorInv, CollectorTypeOK
  <2>3. /\ sizes' \in [Procs -> [Repos -> 0..MaxClock]] /\ success' \in [Procs -> BOOLEAN]
        /\ files' \in [sizes : SizesFiles, status : StatusFiles]
    BY <1>1 DEF CollectorInv, CollectorTypeOK
  <2>4. Measured(sizes'[p]) = {} /\ ~success'[p]
    BY <1>1, <1>2
  <2>5. /\ \A r \in Measured(sizes'[p]) : sizes'[p][r] >= timestamp[p]
        /\ Measured(sizes'[p]) \subseteq repositories'[p]
        /\ files'.sizes = files.sizes /\ success'[p] = success[p]
        /\ files'.status = files.status
    BY <1>1, <2>4
  <2>6. \A q \in Procs \ {p} :
            repositories'[q] = repositories[q] /\ sizes'[q] = sizes[q] /\ success'[q] = success[q]
    BY <1>1, <2>2
  <2>7. QED
    BY <1>1, <1>4, <2>1, <2>2, <2>3, <2>4, <2>5, <2>6, StepInv
<1>5. QED
  BY <1>3, <1>4 DEF RepositoryPaths

LEMMA DuInv ==
    ASSUME CollectorInv, NEW p \in Procs, Du(p)
    PROVE  CollectorInv'
<1>1. /\ pc[p] = "du" /\ {"du", "sizes", "status"} \subseteq Locked
      /\ UNCHANGED <<clock, dirs, listed, timestamp, lock, repositories, success, turn, turns,
                     runs, files, scrape, changes>>
  BY DEF Du, Locked
<1>2. /\ Measured(sizes[p]) \subseteq repositories[p] /\ repositories[p] # {} /\ ~success[p]
      /\ \A r \in Measured(sizes[p]) : sizes[p][r] >= timestamp[p]
      /\ timestamp[p] <= clock
  BY <1>1 DEF CollectorInv, ProcInv
<1>3. /\ repositories' \in [Procs -> SUBSET Repos] /\ success' \in [Procs -> BOOLEAN]
      /\ files' \in [sizes : SizesFiles, status : StatusFiles]
      /\ sizes \in [Procs -> [Repos -> 0..MaxClock]] /\ clock \in 1..MaxClock
      /\ repositories[p] \subseteq Repos
  BY <1>1 DEF CollectorInv, CollectorTypeOK
<1>4. CASE Goto(p, "status") /\ UNCHANGED sizes
  BY <1>1, <1>2, <1>3, <1>4, StepInv
<1>5. ASSUME NEW r \in Repos, r \in ToMeasure(p), sizes' = [sizes EXCEPT ![p][r] = clock],
             NEW step, step = IF ToMeasure(p) = {r} THEN "sizes" ELSE "du", Goto(p, step)
      PROVE  CollectorInv'
  <2>1. /\ sizes' \in [Procs -> [Repos -> 0..MaxClock]]
        /\ \A q \in Procs \ {p} : sizes'[q] = sizes[q]
        /\ \A x \in Repos : sizes'[p][x] = IF x = r THEN clock ELSE sizes[p][x]
    BY <1>3, <1>5
  <2>2. Measured(sizes'[p]) = Measured(sizes[p]) \cup {r} /\ r \in repositories[p]
    BY <1>3, <1>5, <2>1 DEF Measured, ToMeasure
  <2>3. \A x \in Measured(sizes'[p]) : sizes'[p][x] >= timestamp[p]
    <3>1. timestamp[p] \in Nat /\ clock \in Nat
      BY DEF CollectorInv, CollectorTypeOK
    <3>2. r \in Repos /\ Measured(sizes[p]) \subseteq Repos
      BY <1>5 DEF Measured
    <3>3. QED
      BY <1>2, <2>1, <2>2, <3>1, <3>2
  <2>4. step = "sizes" => Measured(sizes'[p]) = repositories[p]
    BY <1>2, <1>3, <1>5, <2>2 DEF ToMeasure, Measured
  <2>5. step \in {"du", "sizes"}
    BY <1>5
  <2>6. Measured(sizes'[p]) \subseteq repositories[p]
    BY <1>2, <2>2
  <2>7. step \in Locked /\ step \notin {"paths", "replace_sizes"}
    BY <2>5 DEF Locked
  <2>8. /\ repositories'[p] # {} /\ Measured(sizes'[p]) \subseteq repositories'[p]
        /\ ~success'[p] /\ success'[p] = success[p] /\ files' = files
        /\ step \in {"sizes", "replace_sizes"} => Measured(sizes'[p]) = repositories'[p]
        /\ \A q \in Procs \ {p} :
              /\ repositories'[q] = repositories[q]
              /\ sizes'[q] = sizes[q] /\ success'[q] = success[q]
    BY <1>1, <1>2, <2>1, <2>4, <2>6, <2>7
  <2>9. QED
    BY <1>1, <1>3, <1>5, <2>1, <2>3, <2>7, <2>8, StepInv
<1>6. QED
  <2>1. CASE \E r \in dirs :
                 /\ IsNext(p, r) /\ sizes' = [sizes EXCEPT ![p][r] = clock]
                 /\ Goto(p, IF ToMeasure(p) = {r} THEN "sizes" ELSE "du")
    <3>1. dirs \subseteq Repos
      BY DEF CollectorInv, CollectorTypeOK
    <3>2. QED
      BY <1>5, <2>1, <3>1 DEF IsNext
  <2>2. QED
    BY <1>4, <2>1 DEF Du, AfterFailure

LEMMA WriteSizesInv ==
    ASSUME CollectorInv, NEW p \in Procs, WriteSizes(p)
    PROVE  CollectorInv'
<1>1. /\ pc[p] = "sizes" /\ {"sizes", "replace_sizes", "status"} \subseteq Locked
      /\ UNCHANGED <<clock, dirs, listed, timestamp, lock, repositories, sizes, success, turn,
                     turns, runs, files, scrape, changes>>
  BY DEF WriteSizes, WriteTemporary, Locked
<1>2. /\ Measured(sizes[p]) = repositories[p] /\ repositories[p] # {} /\ ~success[p]
      /\ \A r \in Measured(sizes[p]) : sizes[p][r] >= timestamp[p]
  BY <1>1 DEF CollectorInv, ProcInv
<1>3. /\ repositories' \in [Procs -> SUBSET Repos] /\ success' \in [Procs -> BOOLEAN]
      /\ files' \in [sizes : SizesFiles, status : StatusFiles]
      /\ sizes' \in [Procs -> [Repos -> 0..MaxClock]]
  BY <1>1 DEF CollectorInv, CollectorTypeOK
<1>4. ASSUME NEW step \in {"replace_sizes", "status"}, Goto(p, step)
      PROVE  CollectorInv'
  BY <1>1, <1>2, <1>3, <1>4, StepInv
<1>5. QED
  BY <1>4 DEF WriteSizes

LEMMA ReplaceSizesInv ==
    ASSUME CollectorInv, NEW p \in Procs, ReplaceSizes(p)
    PROVE  CollectorInv'
<1> DEFINE new == [whole |-> TRUE, sizes |-> sizes[p], timestamp |-> timestamp[p],
                   turn |-> turn[p]]
<1>1. /\ pc[p] = "replace_sizes" /\ {"replace_sizes", "status"} \subseteq Locked
      /\ Goto(p, "status")
      /\ UNCHANGED <<clock, dirs, listed, timestamp, lock, repositories, sizes, turn, turns,
                     runs, scrape, changes>>
  BY DEF ReplaceSizes, Locked
<1>2. \A r \in Measured(sizes[p]) : sizes[p][r] >= timestamp[p]
  BY DEF CollectorInv, ProcInv
<1>3. /\ repositories' \in [Procs -> SUBSET Repos] /\ success \in [Procs -> BOOLEAN]
      /\ files \in [sizes : SizesFiles, status : StatusFiles]
      /\ sizes' \in [Procs -> [Repos -> 0..MaxClock]]
  BY <1>1 DEF CollectorInv, CollectorTypeOK
<1>4. turn[p] = turns
  BY <1>1 DEF CollectorInv, TurnInv
<1>5. CASE UNCHANGED <<files, success>>
  BY <1>1, <1>2, <1>3, <1>5, StepInv
<1>6. CASE files' = [files EXCEPT !.sizes = new] /\ success' = [success EXCEPT ![p] = TRUE]
  <2>1. new \in SizesFiles
    BY DEF CollectorInv, CollectorTypeOK, SizesFiles
  <2>2. /\ files' \in [sizes : SizesFiles, status : StatusFiles]
        /\ files'.status = files.status /\ files'.sizes = new
    BY <1>3, <1>6, <2>1
  <2>3. success' \in [Procs -> BOOLEAN] /\ \A q \in Procs \ {p} : success'[q] = success[q]
    BY <1>3, <1>6
  <2>4. success'[p]
    BY <1>3, <1>6
  <2>5. files'.sizes.turn = turns /\ files'.sizes.whole
    BY <1>4, <2>2
  <2>6. ScanNeverOverstated'
    BY <1>2, <2>2 DEF ScanNeverOverstated, Measured
  <2>7. QED
    BY <1>1, <1>2, <1>3, <2>2, <2>3, <2>4, <2>5, <2>6, StepInv
<1>7. QED
  BY <1>5, <1>6 DEF ReplaceSizes, ScanTimestamp

LEMMA WriteStatusInv ==
    ASSUME CollectorInv, NEW p \in Procs, WriteStatus(p)
    PROVE  CollectorInv'
<1>1. /\ pc[p] = "status" /\ {"status", "replace_status"} \subseteq Locked
      /\ UNCHANGED <<clock, dirs, listed, turns, runs, files, scrape, changes>>
  BY DEF WriteStatus, WriteTemporary, Locked
<1>2. /\ files' \in [sizes : SizesFiles, status : StatusFiles] /\ lock = p
  BY <1>1 DEF CollectorInv, CollectorTypeOK
<1>3. CASE End(p) /\ Release(p)
  BY <1>1, <1>2, <1>3, EndInv DEF Release
<1>4. CASE /\ Goto(p, "replace_status")
           /\ UNCHANGED <<timestamp, lock, repositories, sizes, success, turn>>
  <2>1. \A r \in Measured(sizes[p]) : sizes[p][r] >= timestamp[p]
    BY DEF CollectorInv, ProcInv
  <2>2. /\ repositories' \in [Procs -> SUBSET Repos] /\ success' \in [Procs -> BOOLEAN]
        /\ sizes' \in [Procs -> [Repos -> 0..MaxClock]]
    BY <1>4 DEF CollectorInv, CollectorTypeOK
  <2>3. QED
    BY <1>1, <1>2, <1>4, <2>1, <2>2, StepInv
<1>5. QED
  BY <1>3, <1>4 DEF WriteStatus

LEMMA ReplaceStatusInv ==
    ASSUME CollectorInv, NEW p \in Procs, ReplaceStatus(p)
    PROVE  CollectorInv'
<1> DEFINE new == [whole |-> TRUE, success |-> success[p], timestamp |-> timestamp[p],
                   turn |-> turn[p]]
<1>1. /\ pc[p] = "replace_status" /\ pc[p] \in Locked /\ End(p) /\ Release(p)
      /\ UNCHANGED <<clock, dirs, listed, turns, runs, scrape, changes>>
  BY DEF ReplaceStatus, Locked
<1>2. files \in [sizes : SizesFiles, status : StatusFiles] /\ lock = p
  BY <1>1 DEF CollectorInv, CollectorTypeOK
<1>3. CASE UNCHANGED files
  BY <1>1, <1>2, <1>3, EndInv DEF Release
<1>4. CASE files' = [files EXCEPT !.status = new]
  <2>1. new \in StatusFiles
    BY DEF CollectorInv, CollectorTypeOK, StatusFiles
  <2>2. /\ files' \in [sizes : SizesFiles, status : StatusFiles]
        /\ files'.sizes = files.sizes /\ files'.status = new
    BY <1>2, <1>4, <2>1
  <2>3. turn[p] = turns /\ turns \in Nat
    BY <1>1 DEF CollectorInv, CollectorTypeOK, TurnInv
  <2>4. Vouched(new) /\ new.turn <= turns
    <3>1. IF success[p] THEN files.sizes.turn = turns /\ files.sizes.whole
          ELSE files.sizes.turn < turns
      BY <1>1 DEF CollectorInv, TurnInv
    <3>2. files.sizes.turn \in Nat
      BY <1>2 DEF SizesFiles
    <3>3. QED
      BY <2>3, <3>1, <3>2 DEF Vouched
  <2>5. QED
    BY <1>1, <1>2, <2>2, <2>4, EndInv DEF Release
<1>5. QED
  BY <1>3, <1>4 DEF ReplaceStatus

LEMMA KillInv ==
    ASSUME CollectorInv, NEW p \in Procs, Kill(p)
    PROVE  CollectorInv'
<1>1. files' \in [sizes : SizesFiles, status : StatusFiles]
  BY DEF CollectorInv, CollectorTypeOK, Kill
<1>2. QED
  BY <1>1, EndInv DEF Kill

LEMMA NextInv == CollectorInv /\ [Next]_vars => CollectorInv'
<1> SUFFICES ASSUME CollectorInv, [Next]_vars PROVE CollectorInv'
  OBVIOUS
<1>1. CASE Tick \/ Change \/ ScrapeStatus \/ ScrapeSizes
  BY <1>1, WorldInv
<1>2. ASSUME NEW p \in Procs, Start(p) \/ Collect(p) \/ Kill(p)
      PROVE  CollectorInv'
  BY <1>2, StartInv, FlockInv, RepositoryPathsInv, DuInv, WriteSizesInv, ReplaceSizesInv,
     WriteStatusInv, ReplaceStatusInv, KillInv DEF Collect
<1>3. CASE UNCHANGED vars
  <2>1. UNCHANGED <<clock, dirs, listed, pc, timestamp, lock, repositories, sizes, success,
                    turn, turns, runs, files, scrape, changes>>
    BY <1>3 DEF vars, proc
  <2>2. CollectorTypeOK'
    BY <2>1 DEF CollectorInv, CollectorTypeOK
  <2>3. ProcInv' /\ TurnInv' /\ Vouched(files.status)' /\ Vouched(scrape.status)'
        /\ ScanNeverOverstated'
    BY <2>1 DEF CollectorInv, ProcInv, Measured, TurnInv, Vouched, ScanNeverOverstated
  <2>4. QED
    BY <2>2, <2>3 DEF CollectorInv
<1>4. QED
  BY <1>1, <1>2, <1>3 DEF Next

----------------------------------------------------------------------------
\* The inductive invariant holds in every reachable state.
THEOREM CollectorInvariant == Spec => []CollectorInv
<1>1. QED
  BY InitInv, NextInv, PTL DEF Spec

\* Type correctness, and the lock is exclusive.
THEOREM CollectorTypeCorrect == Spec => []CollectorTypeOK
<1>1. CollectorInv => CollectorTypeOK
  BY DEF CollectorInv
<1>2. QED
  BY <1>1, CollectorInvariant, PTL

\* A status that Prometheus gets vouches for the sizes it gets beside it.
THEOREM StatusVouches == Spec => []SampleVouched
<1>1. CollectorInv => SampleVouched
  BY DEF CollectorInv, Vouched, SampleVouched, Sample
<1>2. QED
  BY <1>1, CollectorInvariant, PTL

\* No published size is older than the time of its scan.
THEOREM ScanTimeIsSafe == Spec => []ScanNeverOverstated
<1>1. CollectorInv => ScanNeverOverstated
  BY DEF CollectorInv
<1>2. QED
  BY <1>1, CollectorInvariant, PTL

\* Sizes are replaced by those of one later, whole scan.
THEOREM OneScanAtATime == Spec => SizesAreOneScan
<1> DEFINE Step == files'.sizes # files.sizes =>
                     /\ files'.sizes.turn > files.sizes.turn
                     /\ \E p \in Procs :
                           /\ lock = p /\ repositories[p] # {}
                           /\ {r \in Repos : files'.sizes.sizes[r] # 0} = repositories[p]
<1>1. CollectorInv /\ [Next]_vars => [Step]_files
  <2> SUFFICES ASSUME CollectorInv, Next, files'.sizes # files.sizes PROVE Step
    BY DEF vars
  <2>1. PICK p \in Procs : ReplaceSizes(p)
    BY DEF Next, Collect, Tick, Change, ScrapeStatus, ScrapeSizes, Start, Flock,
           RepositoryPaths, Du, WriteSizes, WriteTemporary, WriteStatus, ReplaceStatus, Kill,
           CollectorInv, CollectorTypeOK
  <2>2. /\ pc[p] = "replace_sizes" /\ pc[p] \in Locked
        /\ files' = [files EXCEPT !.sizes =
               [whole |-> TRUE, sizes |-> sizes[p], timestamp |-> timestamp[p],
                turn |-> turn[p]]]
    BY <2>1 DEF ReplaceSizes, ScanTimestamp, Locked
  <2>3. files'.sizes.turn = turn[p] /\ files'.sizes.sizes = sizes[p]
    BY <2>2 DEF CollectorInv, CollectorTypeOK
  <2>4. lock = p /\ repositories[p] # {} /\ Measured(sizes[p]) = repositories[p]
        /\ ~success[p]
    BY <2>2 DEF CollectorInv, CollectorTypeOK, ProcInv
  <2>5. turn[p] = turns /\ files.sizes.turn < turns
    BY <2>2, <2>4 DEF CollectorInv, TurnInv
  <2>6. turns \in Nat /\ files.sizes.turn \in Nat
    BY DEF CollectorInv, CollectorTypeOK, SizesFiles
  <2>7. QED
    BY <2>3, <2>4, <2>5, <2>6 DEF Measured
<1>2. QED
  BY <1>1, CollectorInvariant, PTL DEF Spec, SizesAreOneScan
=============================================================================
