------------------------------ MODULE GitMirror ------------------------------
(***************************************************************************)
(* A bare repository that lug mirrors with src/lug/worker-script/git.sh:   *)
(* clone it if it has no HEAD, configure it, fetch, drop the namespaces    *)
(* that are not to be served, and push to a second server.  The container  *)
(* may be killed between any two writes, and the next run starts from what *)
(* is left.                                                                *)
(***************************************************************************)
EXTENDS Naturals

CONSTANTS
    MaxVersion,  \* bound on the changes of the source
    MaxFaults    \* bound on the kills and failures

ASSUME GitMirrorAssumption == MaxVersion \in Nat \ {0} /\ MaxFaults \in Nat

\* The namespaces of references: what the refspecs name, what the script deletes,
\* and the rest, which only a clone brings.
Fetched == {"heads", "tags"}
Dropped == {"remotes", "pull"}
Namespaces == Fetched \cup Dropped \cup {"other"}

VARIABLES
    source,    \* the version of LUG_source
    target,    \* what the second server has of each namespace
    pushes,    \* LUG_target is set
    dir, head, \* $LUG_path and $LUG_path/HEAD exist
    remotes,   \* the remotes configured in it
    refspec,   \* the namespaces of remote.origin.fetch
    refs,      \* the version of each namespace in it; 0 is none
    stale,     \* the lock files a killed git has left
    pc,        \* where the script is
    snapshot,  \* the version the fetch of this run is about
    result,    \* what lug noted of the last run
    faults

repo == <<dir, head, remotes, refspec, refs, stale>>

vars == <<source, target, pushes, repo, pc, snapshot, result, faults>>

NoRefs == [n \in Namespaces |-> 0]

Init ==
    /\ source = 1
    /\ target = NoRefs
    /\ pushes \in BOOLEAN
    /\ dir = FALSE /\ head = FALSE
    /\ remotes = {} /\ refspec = {} /\ stale = {}
    /\ refs = NoRefs
    /\ pc = "idle" /\ snapshot = 0 /\ result = "none"
    /\ faults = 0

----------------------------------------------------------------------------
(* The world                                                               *)

Change ==
    /\ source < MaxVersion
    /\ source' = source + 1
    /\ UNCHANGED <<target, pushes, repo, pc, snapshot, result, faults>>

\* lug starts the script when it is due.
Start ==
    /\ pc = "idle"
    /\ pc' = "head"
    /\ UNCHANGED <<source, target, pushes, repo, snapshot, result, faults>>

End(r) == pc' = "idle" /\ result' = r

Writes == [config |-> {"clone_config", "set_url", "set_upstream", "unset", "add_heads",
                       "add_tags"},
           refs   |-> {"clone_fetch", "fetch", "update", "remotes", "pull"}]

\* A killed git may leave the lock of the file it was writing.
Kill ==
    /\ pc # "idle" /\ faults < MaxFaults
    /\ faults' = faults + 1
    /\ End("killed")
    /\ \/ UNCHANGED stale
       \/ \E file \in DOMAIN Writes : pc \in Writes[file] /\ stale' = stale \cup {file}
    /\ UNCHANGED <<source, target, pushes, dir, head, remotes, refspec, refs, snapshot>>

\* A command fails: set -e ends the script.  What it wrote before stays.
Fail ==
    /\ pc \in {"fetch", "update", "gc", "remotes", "pull", "push"}
    /\ faults < MaxFaults
    /\ faults' = faults + 1
    /\ End("failed")
    /\ UNCHANGED <<source, target, pushes, repo, snapshot>>

----------------------------------------------------------------------------
(* git.sh                                                                  *)

Goto(step) == pc' = step /\ UNCHANGED result

\* Mutant: any directory is taken for a clone.
IsCloneAnyDirectory == dir

IsClone == head

\* Without HEAD everything goes, and a clone begins with an empty directory.
CheckHead ==
    /\ pc = "head"
    /\ \/ /\ IsClone
          /\ Goto("set_url") /\ UNCHANGED repo
       \/ /\ ~IsClone
          /\ dir' = TRUE /\ head' = FALSE /\ remotes' = {} /\ refspec' = {}
          /\ refs' = NoRefs /\ stale' = {}
          /\ Goto("clone_head")
    /\ UNCHANGED <<source, target, pushes, snapshot, faults>>

\* git clone --mirror: HEAD, the configuration, then the references.
CloneHead ==
    /\ pc = "clone_head"
    /\ head' = TRUE
    /\ Goto("clone_config")
    /\ UNCHANGED <<source, target, pushes, dir, remotes, refspec, refs, stale, snapshot, faults>>

CloneConfig ==
    /\ pc = "clone_config"
    /\ remotes' = {"origin"} /\ refspec' = Namespaces
    /\ Goto("clone_fetch")
    /\ UNCHANGED <<source, target, pushes, dir, head, refs, stale, snapshot, faults>>

CloneFetch ==
    /\ pc = "clone_fetch"
    /\ refs' = [n \in Namespaces |-> source]
    /\ Goto("set_url")
    /\ UNCHANGED <<source, target, pushes, dir, head, remotes, refspec, stale, snapshot, faults>>

\* A clone that fails by itself removes what it has made.
CloneFails ==
    /\ pc \in {"clone_head", "clone_config", "clone_fetch"}
    /\ faults < MaxFaults
    /\ faults' = faults + 1
    /\ dir' = FALSE /\ head' = FALSE /\ remotes' = {} /\ refspec' = {}
    /\ refs' = NoRefs /\ stale' = {}
    /\ End("failed")
    /\ UNCHANGED <<source, target, pushes, snapshot>>

\* The configuration can be written: it is a repository, and nobody else writes.
Configurable == head /\ "config" \notin stale

SetURL ==
    /\ pc = "set_url"
    /\ IF Configurable /\ "origin" \in remotes
       THEN Goto(IF pushes THEN "set_upstream" ELSE "unset")
       ELSE End("failed")
    /\ UNCHANGED <<source, target, pushes, repo, snapshot, faults>>

\* remote set-url or remote add
SetUpstream ==
    /\ pc = "set_upstream"
    /\ IF Configurable
       THEN remotes' = remotes \cup {"upstream"} /\ Goto("unset")
       ELSE End("failed") /\ UNCHANGED remotes
    /\ UNCHANGED <<source, target, pushes, dir, head, refspec, refs, stale, snapshot, faults>>

\* Mutant: what the clone configured stays.
AfterUnsetKept == refspec

\* --unset-all || true
AfterUnset == IF Configurable THEN {} ELSE refspec

UnsetRefspec ==
    /\ pc = "unset"
    /\ refspec' = AfterUnset
    /\ Goto("add_heads")
    /\ UNCHANGED <<source, target, pushes, dir, head, remotes, refs, stale, snapshot, faults>>

AddRefspec(step, namespace, next) ==
    /\ pc = step
    /\ IF Configurable
       THEN refspec' = refspec \cup {namespace} /\ Goto(next)
       ELSE End("failed") /\ UNCHANGED refspec
    /\ UNCHANGED <<source, target, pushes, dir, head, remotes, refs, stale, snapshot, faults>>

\* The source tells its references, and then one namespace after the other is
\* brought to that, with what is gone there pruned.
Fetch ==
    /\ pc = "fetch"
    /\ snapshot' = source
    /\ Goto("update")
    /\ UNCHANGED <<source, target, pushes, repo, faults>>

UpdateRefs(n) ==
    /\ pc = "update"
    /\ n \in refspec /\ refs[n] # snapshot
    /\ refs' = [refs EXCEPT ![n] = snapshot]
    /\ UNCHANGED <<source, target, pushes, dir, head, remotes, refspec, stale, pc, snapshot,
                   result, faults>>

\* Mutant: fetch -p origin || true
FetchFailsQuietly == Goto("gc")

\* A reference that is not up to date cannot be locked.
FetchFails == End("failed")

FetchEnds ==
    /\ pc = "update"
    /\ \/ /\ \A n \in refspec : refs[n] = snapshot
          /\ Goto("gc")
       \/ /\ "refs" \in stale /\ \E n \in refspec : refs[n] # snapshot
          /\ FetchFails
    /\ UNCHANGED <<source, target, pushes, repo, snapshot, faults>>

GC ==
    /\ pc = "gc"
    /\ Goto("remotes")
    /\ UNCHANGED <<source, target, pushes, repo, snapshot, faults>>

\* Mutant: the namespace is only looked at.
DeletedKept(n) == refs

Deleted(n) == [refs EXCEPT ![n] = 0]

\* for-each-ref | update-ref --stdin
DeleteRefs(n, next) ==
    /\ pc = n
    /\ IF refs[n] # 0 /\ "refs" \in stale THEN End("failed") /\ UNCHANGED refs
       ELSE refs' = Deleted(n) /\ Goto(next)
    /\ UNCHANGED <<source, target, pushes, dir, head, remotes, refspec, stale, snapshot, faults>>

\* push --mirror, one namespace after the other; the timeout is one of the faults.
Push(n) ==
    /\ pc = "push" /\ pushes
    /\ target[n] # refs[n]
    /\ target' = [target EXCEPT ![n] = refs[n]]
    /\ UNCHANGED <<source, pushes, repo, pc, snapshot, result, faults>>

Succeed ==
    /\ pc = "push"
    /\ pushes => target = refs
    /\ End("ok")
    /\ UNCHANGED <<source, target, pushes, repo, snapshot, faults>>

Script ==
    \/ CheckHead \/ CloneHead \/ CloneConfig \/ CloneFetch
    \/ SetURL \/ SetUpstream \/ UnsetRefspec
    \/ AddRefspec("add_heads", "heads", "add_tags")
    \/ AddRefspec("add_tags", "tags", "fetch")
    \/ Fetch \/ (\E n \in Namespaces : UpdateRefs(n)) \/ FetchEnds \/ GC
    \/ DeleteRefs("remotes", "pull") \/ DeleteRefs("pull", "push")
    \/ (\E n \in Namespaces : Push(n)) \/ Succeed

Next == Change \/ Start \/ Kill \/ Fail \/ CloneFails \/ Script

Spec == Init /\ [][Next]_vars

\* lug runs the script again and again, and a command that does not fail ends.
FairSpec == Spec /\ WF_vars(Start) /\ WF_vars(Script)

----------------------------------------------------------------------------
(* Properties                                                              *)

Steps == {"idle", "head", "clone_head", "clone_config", "clone_fetch", "set_url",
          "set_upstream", "unset", "add_heads", "add_tags", "fetch", "update", "gc",
          "remotes", "pull", "push"}

\* Every variable has its type, what is configured or fetched is in a repository
\* that has a HEAD, and no fetch is about more than heads and tags.
GitTypeOK ==
    /\ source \in 1..MaxVersion /\ snapshot \in 0..MaxVersion /\ faults \in 0..MaxFaults
    /\ refs \in [Namespaces -> 0..MaxVersion] /\ target \in [Namespaces -> 0..MaxVersion]
    /\ dir \in BOOLEAN /\ head \in BOOLEAN /\ pushes \in BOOLEAN
    /\ remotes \subseteq {"origin", "upstream"} /\ refspec \subseteq Namespaces
    /\ stale \subseteq DOMAIN Writes
    /\ pc \in Steps /\ result \in {"none", "ok", "failed", "killed"}
    /\ remotes # {} \/ refs # NoRefs => head
    /\ head => dir
    /\ pc \in {"fetch", "update", "gc"} => refspec = Fetched

\* Whatever was left by killed and failed runs: what is pushed is one version of
\* the source, fetched by this run, without the namespaces that are not served;
\* and after a success the second server has the same.
PublishedWhole ==
    pc = "push" \/ (pc = "idle" /\ result = "ok") =>
        /\ \A n \in Fetched : refs[n] = snapshot
        /\ \A n \in Dropped : refs[n] = 0
        /\ pc = "idle" /\ pushes => target = refs

\* What no later run gets past: a clone with a HEAD but without its remote, or
\* the lock file of a killed git.
Stuck == head /\ ("origin" \notin remotes \/ stale # {})

Current == pc = "idle" /\ result = "ok" /\ \A n \in Fetched : refs[n] = source

\* From whatever a run has left, except what Stuck describes, the repository
\* follows the source again, unless another kill or failure comes first.
SyncRecovers ==
    \A f \in 0..MaxFaults :
        (pc = "idle" /\ ~Stuck /\ faults = f) ~> (Current \/ faults > f)

Success == pc = "idle" /\ result = "ok"

\* A run has ended with a directory, and nothing of the source is in it.
PartialClone == pc = "idle" /\ dir /\ refs = NoRefs /\ stale = {}

\* What the comment in git.sh:5-7 says of a directory that "holds a partial/failed
\* clone": it is removed and cloned again, and some run succeeds.
PartialCloneHeals == PartialClone ~> Success

----------------------------------------------------------------------------
(* The inductive invariant                                                 *)

\* What each step may rely on.
StepInv ==
    /\ pc \in {"clone_config", "clone_fetch", "set_url", "set_upstream", "unset", "add_heads",
               "add_tags", "fetch", "update", "gc", "remotes", "pull", "push"} => head
    /\ pc = "clone_head" => dir
    /\ pc = "add_heads" => refspec = {} \/ "config" \in stale
    /\ pc = "add_tags" => refspec = {"heads"}
    /\ pc \in {"gc", "remotes", "pull", "push"} \/ Success =>
          \A n \in Fetched : refs[n] = snapshot
    /\ pc \in {"pull", "push"} \/ Success => refs["remotes"] = 0
    /\ pc = "push" \/ Success => refs["pull"] = 0
    /\ Success /\ pushes => target = refs

GitInv == GitTypeOK /\ StepInv
=============================================================================
