---------------------------- MODULE RsyncWorker ----------------------------
(***************************************************************************)
(* One repository that lug mirrors with src/lug/worker-script/rsync.sh, or *)
(* with rsync-ssh.sh, which refreshes the host's key in known_hosts and    *)
(* then sources rsync.sh.  lug starts the script, and starts it again when *)
(* it fails; the script itself repeats rsync after a transient failure.    *)
(*                                                                         *)
(* rsync-ssh.sh runs under "set -e", and so does the rsync.sh it sources.  *)
(***************************************************************************)
EXTENDS Integers

CONSTANTS
    MaxRetries,  \* LUG_rsync_retries
    RetryBase,   \* LUG_rsync_retry_base
    RetryCap,    \* LUG_rsync_retry_cap
    WordBits,    \* the width of the shell's integers, 64 in bash
    LugRetries,  \* "retry" of oneshot_common
    RsyncCodes   \* the exit codes of rsync that occur

ASSUME RsyncWorkerAssumption ==
    /\ MaxRetries \in Nat /\ RetryBase \in Nat /\ RetryCap \in Nat
    /\ WordBits \in Nat \ {0}
    /\ LugRetries \in Nat
    /\ RsyncCodes \in SUBSET (0..255)

\* Half the range of the shell's words: the positive ones are below it.
HalfWord == 2 ^ (WordBits - 1)

\* The configured retries never double the backoff out of a word: in 64 bits the
\* default base of 30 s is doubled out of it after the 60th attempt.
ASSUME RsyncBackoffAssumption ==
    \A n \in 0..(MaxRetries - 1) :
        n < WordBits /\ RetryBase * 2 ^ n \in 0..(HalfWord - 1)

VARIABLES
    entry,         \* the script lug runs
    ignoreVanish,  \* LUG_ignore_vanish is set
    pc,            \* where the script is; "idle" between two syncs
    known,         \* the entry of the host in known_hosts
    tmp,           \* the same in known_hosts.tmp
    scanned,       \* the key ssh-keyscan printed
    attempt,       \* the rsync processes of this run of the script
    code,          \* retcode, and the exit code of the script
    tries,         \* the runs of the script in this sync, after the first
    mirror,        \* how much of what the upstream had the mirror holds
    outcome        \* what lug noted of the last sync

vars == <<entry, ignoreVanish, pc, known, tmp, scanned, attempt, code, tries,
          mirror, outcome>>

Entries  == {"rsync", "rsync-ssh"}
Steps    == {"idle", "keyscan", "strip", "append", "install", "begin",
             "rsync", "decide", "sleep", "exit"}
Keys     == {"stale", "current"}
Hosts    == Keys \cup {"empty", "others"}
Mirrors  == {"old", "partial", "new"}
Outcomes == {"none", "ok", "failed"}

Vanished == 24   \* IGNOREEXIT
NoHostKey == 255 \* ssh under BatchMode does not know the host

Init ==
    /\ entry \in Entries
    /\ ignoreVanish \in BOOLEAN
    /\ known \in Hosts
    /\ pc = "idle" /\ tmp = "empty" /\ scanned = "empty"
    /\ attempt = 0 /\ code = 0 /\ tries = 0
    /\ mirror = "old" /\ outcome = "none"

ErrExit == entry = "rsync-ssh"

FirstStep == IF entry = "rsync-ssh" THEN "keyscan" ELSE "begin"

Exit(c) == pc' = "exit" /\ code' = c

----------------------------------------------------------------------------
(* rsync-ssh.sh                                                            *)

\* ssh-keyscan prints keys; or it fails and the cached file must do, which is
\* only looked at for being empty.
KeyScan ==
    /\ pc = "keyscan"
    /\ \/ /\ pc' = "strip" /\ scanned' = "current"
          /\ UNCHANGED code
       \/ /\ known = "empty"
          /\ Exit(1) /\ UNCHANGED scanned
       \/ /\ known # "empty"
          /\ pc' = "begin" /\ UNCHANGED <<code, scanned>>
    /\ UNCHANGED <<entry, ignoreVanish, known, tmp, attempt, tries, mirror, outcome>>

\* Mutant: the entry is replaced in place.
StripInPlace ==
    /\ pc = "strip"
    /\ pc' = "append"
    /\ known' = "others" /\ tmp' = "others"
    /\ UNCHANGED <<entry, ignoreVanish, scanned, attempt, code, tries, mirror, outcome>>

\* touch may fail; grep -v ... > known_hosts.tmp || true: a leftover of a killed
\* run is truncated.
Strip ==
    /\ pc = "strip"
    /\ \/ /\ pc' = "append" /\ tmp' = "others"
          /\ UNCHANGED code
       \/ Exit(1) /\ UNCHANGED tmp
    /\ UNCHANGED <<entry, ignoreVanish, known, scanned, attempt, tries, mirror, outcome>>

\* The new keys are appended; a full disk ends the script.
AppendKeys ==
    /\ pc = "append"
    /\ \/ /\ pc' = "install" /\ tmp' = scanned
          /\ UNCHANGED code
       \/ Exit(1) /\ UNCHANGED tmp
    /\ UNCHANGED <<entry, ignoreVanish, known, scanned, attempt, tries, mirror, outcome>>

\* mv known_hosts.tmp known_hosts
InstallKeys ==
    /\ pc = "install"
    /\ \/ /\ pc' = "begin"
          /\ known' = tmp /\ tmp' = "empty"
          /\ UNCHANGED code
       \/ Exit(1) /\ UNCHANGED <<known, tmp>>
    /\ UNCHANGED <<entry, ignoreVanish, scanned, attempt, tries, mirror, outcome>>

----------------------------------------------------------------------------
(* rsync.sh                                                                *)

\* Without a file for its messages rsync is never started.
MakeTempFile ==
    /\ pc = "begin"
    /\ attempt' = 0
    /\ \/ pc' = "rsync" /\ UNCHANGED code
       \/ Exit(1)
    /\ UNCHANGED <<entry, ignoreVanish, known, tmp, scanned, tries, mirror, outcome>>

IsRetryable(c) == c \in {5, 10, 12, 23, 30, 35}

\* What rsync may end with, and whether its messages name vanished files: over
\* ssh only a host with a current key can be reached.
Results ==
    IF entry = "rsync-ssh" /\ known # "current"
        THEN {<<NoHostKey, FALSE>>}
        ELSE RsyncCodes \X BOOLEAN

\* rsync copied everything that did not vanish meanwhile.
Complete(c) == c \in {0, Vanished}

\* Mutant: the option ignores every exit code with such a message.
AnyVanishIgnored(c, messages) == IF ignoreVanish /\ messages THEN 0 ELSE c

VanishIgnored(c, messages) ==
    IF ignoreVanish /\ c = Vanished /\ messages THEN 0 ELSE c

\* Mutant: attempt=0 inside the loop.
RunRsyncForgets ==
    /\ pc = "rsync"
    /\ attempt' = 1
    /\ code' \in RsyncCodes
    /\ pc' = "decide"
    /\ UNCHANGED <<entry, ignoreVanish, known, tmp, scanned, tries, mirror, outcome>>

\* One turn of the loop up to the exit code.  Under set -e a failure of rsync is
\* the end of the script, before retcode is assigned.
RunRsync ==
    /\ pc = "rsync"
    /\ attempt' = attempt + 1
    /\ \E r \in Results :
          /\ mirror' = IF Complete(r[1]) THEN "new" ELSE "partial"
          /\ \/ /\ ErrExit /\ r[1] # 0
                /\ Exit(r[1])
             \/ /\ ~(ErrExit /\ r[1] # 0)
                /\ pc' = "decide"
                /\ code' = VanishIgnored(r[1], r[2])
    /\ UNCHANGED <<entry, ignoreVanish, known, tmp, scanned, tries, outcome>>

\* Mutant: one attempt less than promised.
LastAttemptTooEarly == attempt >= MaxRetries

\* Mutant: one attempt more than promised.
LastAttemptTooLate == attempt > MaxRetries + 1

LastAttempt == attempt > MaxRetries

\* break, and the end of the script: a chmod that fails changes the exit code
\* only under set -e.
Break ==
    /\ pc = "decide"
    /\ code = 0 \/ LastAttempt \/ ~IsRetryable(code)
    /\ \/ Exit(code)
       \/ ErrExit /\ Exit(1)
    /\ UNCHANGED <<entry, ignoreVanish, known, tmp, scanned, attempt, tries,
                   mirror, outcome>>

Sleep ==
    /\ pc = "decide"
    /\ code # 0 /\ ~LastAttempt /\ IsRetryable(code)
    /\ pc' = "sleep"
    /\ UNCHANGED <<entry, ignoreVanish, known, tmp, scanned, attempt, code, tries,
                   mirror, outcome>>

Wake ==
    /\ pc = "sleep"
    /\ pc' = "rsync"
    /\ UNCHANGED <<entry, ignoreVanish, known, tmp, scanned, attempt, code, tries,
                   mirror, outcome>>

\* $((x << n)): the shell's words wrap, and so does the shift count.
Shl(x, n) ==
    LET word == (x * 2 ^ (n % WordBits)) % (2 * HalfWord)
    IN  IF word < HalfWord THEN word ELSE word - 2 * HalfWord

\* Mutant: doubled once more, from the first attempt on, and not capped.
DelayUncapped(n, jitter) == Shl(RetryBase, n) + jitter

\* How long the script sleeps after attempt n, for one value of
\* RANDOM % (retry_base + 1): the jitter is added after the cap.
Delay(n, jitter) ==
    LET backoff == Shl(RetryBase, n - 1)
    IN  (IF backoff > RetryCap THEN RetryCap ELSE backoff) + jitter

----------------------------------------------------------------------------
(* lug, and what happens around the script                                 *)

\* The next sync is due; the upstream has changed since the last one.
StartSync ==
    /\ pc = "idle"
    /\ pc' = FirstStep
    /\ tries' = 0
    /\ mirror' = "old" /\ outcome' = "none"
    /\ UNCHANGED <<entry, ignoreVanish, known, tmp, scanned, attempt, code>>

SyncSucceeds ==
    /\ pc = "exit" /\ code = 0
    /\ pc' = "idle" /\ outcome' = "ok"
    /\ UNCHANGED <<entry, ignoreVanish, known, tmp, scanned, attempt, code, tries, mirror>>

\* lug starts the script again, "retry" times.
LugRetry ==
    /\ pc = "exit" /\ code # 0
    /\ \/ /\ tries < LugRetries
          /\ tries' = tries + 1 /\ pc' = FirstStep
          /\ UNCHANGED outcome
       \/ /\ tries >= LugRetries
          /\ pc' = "idle" /\ outcome' = "failed"
          /\ UNCHANGED tries
    /\ UNCHANGED <<entry, ignoreVanish, known, tmp, scanned, attempt, code, mirror>>

\* The container is stopped: the files stay as they are.
Killed ==
    /\ pc # "idle"
    /\ pc' = "idle"
    /\ outcome' = "failed"
    /\ \/ pc = "rsync" /\ mirror' = "partial"
       \/ UNCHANGED mirror
    /\ UNCHANGED <<entry, ignoreVanish, known, tmp, scanned, attempt, code, tries>>

Aged(key) == IF key = "current" THEN "stale" ELSE key

\* The host gets a new key: every copy of the old one is stale.
HostRotates ==
    /\ known' = Aged(known) /\ tmp' = Aged(tmp) /\ scanned' = Aged(scanned)
    /\ UNCHANGED <<entry, ignoreVanish, pc, attempt, code, tries, mirror, outcome>>

Script ==
    \/ KeyScan \/ Strip \/ AppendKeys \/ InstallKeys
    \/ MakeTempFile \/ RunRsync \/ Break \/ Sleep \/ Wake

Lug == SyncSucceeds \/ LugRetry

Next == StartSync \/ Script \/ Lug \/ Killed \/ HostRotates

Spec == Init /\ [][Next]_vars

\* Every command of the script ends (rsync by its time-outs), and lug acts on
\* the end of the script.
FairSpec == Spec /\ WF_vars(Script \/ Lug)

----------------------------------------------------------------------------
(* Properties.                                                             *)

TypeOK ==
    /\ entry \in Entries
    /\ ignoreVanish \in BOOLEAN
    /\ pc \in Steps
    /\ known \in Hosts /\ tmp \in Hosts /\ scanned \in Hosts
    /\ attempt \in 0..MaxRetries + 1
    /\ code \in 0..255
    /\ tries \in 0..LugRetries
    /\ mirror \in Mirrors
    /\ outcome \in Outcomes

\* The script gives a transient failure back to lug only after the promised
\* number of attempts.
GivesUpLate == pc = "exit" /\ IsRetryable(code) => attempt > MaxRetries

\* "Retry transient rsync failures here with exponential backoff and jitter",
\* where lug runs rsync.sh.
TransientRetried == entry = "rsync" => GivesUpLate

\* The same of every repository that uses rsync.sh.
TransientRetriedEverywhere == GivesUpLate

\* lug notes a success only when the last rsync of the sync copied everything,
\* over retries of the script and of lug, an ignored exit code and a chmod
\* that fails.
SuccessMeansSynced == outcome = "ok" => mirror = "new"

\* A sleep is as long as the doubled backoff or the cap, and at most retry_base
\* longer: a wrapped shift or a lost cap would hammer or starve the upstream.
DelayBounds ==
    pc = "sleep" =>
        \A jitter \in 0..RetryBase :
            LET doubled == RetryBase * 2 ^ (attempt - 1)
                least   == IF doubled < RetryCap THEN doubled ELSE RetryCap
            IN  Delay(attempt, jitter) \in least..least + RetryBase

\* A refresh that fails, is killed halfway or meets a leftover of another one
\* never loses the entry of the host.
KnownHostsKept == [][(known \in Keys) => (known' \in Keys)]_vars

\* A sync ends, whatever rsync answers.
SyncEnds == pc # "idle" ~> pc = "idle"
=============================================================================
