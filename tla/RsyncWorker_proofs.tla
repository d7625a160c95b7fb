------------------------- MODULE RsyncWorker_proofs -------------------------
(***************************************************************************)
(* Proofs about RsyncWorker, for every number of retries of the script and *)
(* of lug, and every set of exit codes.                                    *)
(***************************************************************************)
EXTENDS RsyncWorker, TLAPS

USE RsyncWorkerAssumption

(* What is known of a run of the script between two of its steps: how many   *)
(* attempts a transient exit code stands for, and what a 0 stands for.      *)
ScriptInv ==
    /\ pc \in {"rsync", "sleep"} => attempt <= MaxRetries
    /\ pc \in {"decide", "sleep"} => attempt > 0
    /\ pc = "exit" /\ entry = "rsync" /\ IsRetryable(code) => attempt > MaxRetries
    /\ pc \in {"decide", "exit"} /\ code = 0 => mirror = "new"
    /\ outcome = "ok" => pc = "idle" /\ mirror = "new"
    /\ pc \in {"strip", "append", "install"} => scanned \in Keys
    /\ pc = "install" => tmp \in Keys

RsyncInv == TypeOK /\ ScriptInv

LEMMA InitRsyncInv == Init => RsyncInv
BY DEF Init, RsyncInv, TypeOK, ScriptInv, Entries, Steps, Hosts, Keys, Mirrors,
       Outcomes

LEMMA AgedHosts ==
    ASSUME NEW key \in Hosts
    PROVE  Aged(key) \in Hosts /\ (key \in Keys => Aged(key) \in Keys)
BY DEF Aged, Hosts, Keys

LEMMA ResultCode ==
    ASSUME NEW r \in Results
    PROVE  r[1] \in 0..255
<1>1. CASE r \in {<<NoHostKey, FALSE>>}
  <2>1. r = <<NoHostKey, FALSE>>
    BY <1>1
  <2>2. r[1] = 255
    BY <2>1 DEF NoHostKey
  <2>3. QED
    BY <2>2
<1>2. CASE r \in RsyncCodes \X BOOLEAN
  <2>1. r[1] \in RsyncCodes
    BY <1>2
  <2>2. QED
    BY <2>1
<1>3. QED
  BY <1>1, <1>2 DEF Results

(* The state is well typed: only a turn of the loop adds to the attempts, and *)
(* it starts below its limit.                                                *)
LEMMA NextTypeOK == RsyncInv /\ [Next]_vars => TypeOK'
<1> SUFFICES ASSUME RsyncInv, [Next]_vars PROVE TypeOK'
  OBVIOUS
<1> USE DEF RsyncInv, TypeOK, Entries, Steps, Hosts, Keys, Mirrors, Outcomes
<1>1. CASE KeyScan \/ Strip \/ AppendKeys \/ InstallKeys
  BY <1>1 DEF KeyScan, Strip, AppendKeys, InstallKeys, Exit
<1>2. CASE MakeTempFile
  BY <1>2 DEF MakeTempFile, Exit
<1>3. CASE RunRsync
  <2>1. attempt' \in 0..MaxRetries + 1
    BY <1>3 DEF RunRsync, ScriptInv
  <2>2. PICK r \in Results :
          /\ mirror' = IF Complete(r[1]) THEN "new" ELSE "partial"
          /\ \/ Exit(r[1])
             \/ pc' = "decide" /\ code' = VanishIgnored(r[1], r[2])
    BY <1>3 DEF RunRsync
  <2>3. r[1] \in 0..255
    BY ResultCode
  <2>4. VanishIgnored(r[1], r[2]) \in 0..255
    BY <2>3 DEF VanishIgnored
  <2>5. code' \in 0..255 /\ pc' \in Steps /\ mirror' \in Mirrors
    BY <2>2, <2>3, <2>4 DEF Exit
  <2>6. QED
    BY <1>3, <2>1, <2>5 DEF RunRsync
<1>4. CASE Break \/ Sleep \/ Wake
  BY <1>4 DEF Break, Sleep, Wake, Exit
<1>5. CASE StartSync \/ Lug
  BY <1>5 DEF StartSync, Lug, SyncSucceeds, LugRetry, FirstStep
<1>6. CASE Killed
  BY <1>6 DEF Killed
<1>7. CASE HostRotates
  BY <1>7, AgedHosts DEF HostRotates
<1>8. CASE UNCHANGED vars
  BY <1>8 DEF vars
<1>9. QED
  BY <1>1, <1>2, <1>3, <1>4, <1>5, <1>6, <1>7, <1>8 DEF Next, Script

LEMMA NextScriptInv == RsyncInv /\ [Next]_vars => ScriptInv'
<1> SUFFICES ASSUME RsyncInv, [Next]_vars PROVE ScriptInv'
  OBVIOUS
<1> USE DEF RsyncInv, TypeOK, ScriptInv, Keys
<1>1. CASE KeyScan \/ Strip \/ AppendKeys \/ InstallKeys
  BY <1>1 DEF KeyScan, Strip, AppendKeys, InstallKeys, Exit, IsRetryable
<1>2. CASE MakeTempFile
  BY <1>2 DEF MakeTempFile, Exit, IsRetryable
<1>3. CASE RunRsync
  <2>1. PICK r \in Results :
          /\ mirror' = IF Complete(r[1]) THEN "new" ELSE "partial"
          /\ \/ ErrExit /\ r[1] # 0 /\ Exit(r[1])
             \/ pc' = "decide" /\ code' = VanishIgnored(r[1], r[2])
    BY <1>3 DEF RunRsync
  <2>2. pc = "rsync" /\ attempt' > 0 /\ UNCHANGED <<entry, outcome, tmp, scanned>>
    BY <1>3 DEF RunRsync
  <2>3. CASE ErrExit /\ r[1] # 0 /\ Exit(r[1])
    BY <2>1, <2>2, <2>3 DEF ErrExit, Exit
  <2>4. CASE pc' = "decide" /\ code' = VanishIgnored(r[1], r[2])
    BY <2>1, <2>2, <2>4 DEF VanishIgnored, Complete
  <2>5. QED
    BY <2>1, <2>3, <2>4
<1>4. CASE Break \/ Sleep \/ Wake
  BY <1>4 DEF Break, Sleep, Wake, Exit, ErrExit, LastAttempt, IsRetryable
<1>5. CASE StartSync \/ Lug
  BY <1>5 DEF StartSync, Lug, SyncSucceeds, LugRetry, FirstStep
<1>6. CASE Killed
  BY <1>6 DEF Killed
<1>7. CASE HostRotates
  BY <1>7, AgedHosts DEF HostRotates
<1>8. CASE UNCHANGED vars
  BY <1>8 DEF vars
<1>9. QED
  BY <1>1, <1>2, <1>3, <1>4, <1>5, <1>6, <1>7, <1>8 DEF Next, Script

(* The inductive invariant of a mirrored repository: the attempts behind     *)
(* every exit code and the copy behind every success.                       *)
THEOREM RsyncCorrect == Spec => []RsyncInv
<1>1. RsyncInv /\ [Next]_vars => RsyncInv'
  BY NextTypeOK, NextScriptInv DEF RsyncInv
<1>2. QED
  BY <1>1, InitRsyncInv, PTL DEF Spec

(* The counters of both ladders and the exit code stay within their limits.   *)
THEOREM RsyncTypeCorrect == Spec => []TypeOK
<1>1. RsyncInv => TypeOK
  BY DEF RsyncInv
<1>2. QED
  BY <1>1, RsyncCorrect, PTL

(* rsync.sh gives up on a transient failure only after rsync_retries extra   *)
(* attempts.                                                                 *)
THEOREM RetriesKept == Spec => []TransientRetried
<1>1. RsyncInv => TransientRetried
  BY DEF RsyncInv, ScriptInv, TransientRetried, GivesUpLate
<1>2. QED
  BY <1>1, RsyncCorrect, PTL

(* A success that lug notes stands for a complete copy, from either script.  *)
THEOREM SuccessSynced == Spec => []SuccessMeansSynced
<1>1. RsyncInv => SuccessMeansSynced
  BY DEF RsyncInv, ScriptInv, SuccessMeansSynced
<1>2. QED
  BY <1>1, RsyncCorrect, PTL

(* A value below a modulus is its own remainder.  *)
LEMMA RemainderOfSmall ==
    ASSUME NEW a \in Nat, NEW b \in Nat, a < b
    PROVE  a % b = a
OBVIOUS

(* The shift of a configured backoff doubles it and wraps nowhere: neither   *)
(* the shift count nor the word reaches its limit.                           *)
LEMMA BackoffDoubles ==
    ASSUME NEW n \in 0..(MaxRetries - 1)
    PROVE  /\ RetryBase * 2 ^ n \in Nat
           /\ Shl(RetryBase, n) = RetryBase * 2 ^ n
<1> DEFINE doubled == RetryBase * 2 ^ n
<1>1. HalfWord \in Nat
  BY RsyncBackoffAssumption DEF HalfWord
<1>2. n % WordBits = n
  <2>1. n < WordBits
    BY RsyncBackoffAssumption
  <2>2. QED
    BY <2>1, RemainderOfSmall
<1>3. doubled \in Nat /\ doubled < HalfWord
  BY <1>1, RsyncBackoffAssumption
<1>4. Shl(RetryBase, n) =
        IF doubled % (2 * HalfWord) < HalfWord THEN doubled % (2 * HalfWord)
        ELSE (doubled % (2 * HalfWord)) - 2 * HalfWord
  BY <1>2 DEF Shl
<1> HIDE DEF doubled
<1>5. doubled % (2 * HalfWord) = doubled
  BY <1>1, <1>3, RemainderOfSmall
<1>6. QED
  BY <1>3, <1>4, <1>5 DEF doubled

(* Every sleep is the doubled backoff or the cap and at most one base more,  *)
(* for every configuration whose backoff fits the shell's words.             *)
THEOREM DelaysBounded == Spec => []DelayBounds
<1>1. RsyncInv => DelayBounds
  <2> SUFFICES ASSUME RsyncInv, pc = "sleep", NEW jitter \in 0..RetryBase
               PROVE  LET doubled == RetryBase * 2 ^ (attempt - 1)
                          least   == IF doubled < RetryCap THEN doubled ELSE RetryCap
                      IN  Delay(attempt, jitter) \in least..least + RetryBase
    BY DEF DelayBounds
  <2> DEFINE n == attempt - 1
             doubled == RetryBase * 2 ^ n
  <2>1. n \in 0..(MaxRetries - 1)
    BY DEF RsyncInv, TypeOK, ScriptInv
  <2>2. doubled \in Nat /\ Shl(RetryBase, n) = doubled
    BY <2>1, BackoffDoubles
  <2>3. Delay(attempt, jitter) =
          (IF doubled > RetryCap THEN RetryCap ELSE doubled) + jitter
    BY <2>2 DEF Delay
  <2> HIDE DEF doubled
  <2>4. LET least == IF doubled < RetryCap THEN doubled ELSE RetryCap
        IN  Delay(attempt, jitter) \in least..least + RetryBase
    BY <2>2, <2>3
  <2>5. QED
    BY <2>4 DEF doubled
<1>2. QED
  BY <1>1, RsyncCorrect, PTL

(* No step of a refresh, interrupted anywhere, loses the entry of the host.  *)
THEOREM KnownHostsSafe == Spec => KnownHostsKept
<1>1. RsyncInv /\ [Next]_vars => [(known \in Keys) => (known' \in Keys)]_vars
  <2> SUFFICES ASSUME RsyncInv, Next, known \in Keys PROVE known' \in Keys
    OBVIOUS
  <2>1. CASE InstallKeys
    BY <2>1 DEF InstallKeys, Exit, RsyncInv, ScriptInv
  <2>2. CASE HostRotates
    BY <2>2 DEF HostRotates, Aged, Keys
  <2>3. CASE KeyScan \/ Strip \/ AppendKeys \/ MakeTempFile \/ RunRsync \/ Break \/ Sleep \/ Wake
    BY <2>3 DEF KeyScan, Strip, AppendKeys, MakeTempFile, RunRsync, Break, Sleep, Wake
  <2>4. CASE StartSync \/ Lug \/ Killed
    BY <2>4 DEF StartSync, Lug, SyncSucceeds, LugRetry, Killed
  <2>5. QED
    BY <2>1, <2>2, <2>3, <2>4 DEF Next, Script
<1>2. QED
  BY <1>1, RsyncCorrect, PTL DEF Spec, KnownHostsKept
=============================================================================
