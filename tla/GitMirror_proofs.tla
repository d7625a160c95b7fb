-------------------------- MODULE GitMirror_proofs --------------------------
(***************************************************************************)
(* Proofs about git.sh, for any number of changes of the source, of kills  *)
(* and of failures.                                                        *)
(***************************************************************************)
EXTENDS GitMirror, TLAPS

USE GitMirrorAssumption DEF Namespaces, Fetched, Dropped

LEMMA InitInv == Init => GitInv
<1> SUFFICES ASSUME Init PROVE GitInv
  OBVIOUS
<1>1. NoRefs \in [Namespaces -> 0..MaxVersion]
  BY DEF NoRefs
<1>2. refs \in [Namespaces -> 0..MaxVersion] /\ target \in [Namespaces -> 0..MaxVersion]
  BY <1>1 DEF Init
<1>3. dir \in BOOLEAN /\ head \in BOOLEAN /\ pushes \in BOOLEAN
  BY DEF Init
<1>4. source \in 1..MaxVersion /\ snapshot \in 0..MaxVersion /\ faults \in 0..MaxFaults
  BY DEF Init
<1>5. remotes = {} /\ refs = NoRefs /\ head = FALSE
  BY DEF Init
<1>6. pc = "idle" /\ result = "none" /\ refspec = {} /\ stale = {}
  BY DEF Init
<1>7. GitTypeOK
  BY <1>2, <1>3, <1>4, <1>5, <1>6 DEF GitTypeOK, Steps
<1>8. StepInv
  BY <1>6 DEF StepInv, Success
<1>9. QED
  BY <1>7, <1>8 DEF GitInv

\* Nothing outside the script touches the repository, and a run that ends without
\* success promises nothing.
LEMMA WorldInv ==
    ASSUME GitInv, Change \/ Start \/ Kill \/ Fail
    PROVE  GitInv'
<1>1. CASE Change
  <2>1. source' \in 1..MaxVersion
    BY <1>1 DEF GitInv, GitTypeOK, Change
  <2>2. QED
    BY <1>1, <2>1 DEF GitInv, GitTypeOK, StepInv, Success, Change, repo
<1>2. CASE Start
  BY <1>2 DEF GitInv, GitTypeOK, StepInv, Success, Steps, Start, repo
<1>3. CASE Kill
  <2>1. /\ pc' = "idle" /\ result' = "killed" /\ faults' \in 0..MaxFaults
        /\ UNCHANGED <<source, target, pushes, dir, head, remotes, refspec, refs, snapshot>>
    BY <1>3 DEF GitInv, GitTypeOK, Kill, End
  <2>2. stale' \subseteq DOMAIN Writes
    BY <1>3 DEF GitInv, GitTypeOK, Kill
  <2>3. QED
    BY <2>1, <2>2 DEF GitInv, GitTypeOK, StepInv, Success, Steps
<1>4. CASE Fail
  <2>1. faults' \in 0..MaxFaults
    BY <1>4 DEF GitInv, GitTypeOK, Fail
  <2>2. QED
    BY <1>4, <2>1 DEF GitInv, GitTypeOK, StepInv, Success, Steps, Fail, End, repo
<1>5. QED
  BY <1>1, <1>2, <1>3, <1>4

LEMMA CloneInv ==
    ASSUME GitInv, CheckHead \/ CloneHead \/ CloneConfig \/ CloneFetch \/ CloneFails
    PROVE  GitInv'
<1>0. NoRefs \in [Namespaces -> 0..MaxVersion]
  BY DEF NoRefs
<1>1. CASE CheckHead
  BY <1>0, <1>1 DEF GitInv, GitTypeOK, StepInv, Success, Steps, CheckHead, IsClone, Goto, repo
<1>2. CASE CloneHead
  BY <1>2 DEF GitInv, GitTypeOK, StepInv, Success, Steps, CloneHead, Goto
<1>3. CASE CloneConfig
  BY <1>3 DEF GitInv, GitTypeOK, StepInv, Success, Steps, CloneConfig, Goto
<1>4. CASE CloneFetch
  <2>1. refs' \in [Namespaces -> 0..MaxVersion]
    BY <1>4 DEF GitInv, GitTypeOK, CloneFetch
  <2>2. QED
    BY <1>4, <2>1 DEF GitInv, GitTypeOK, StepInv, Success, Steps, CloneFetch, Goto
<1>5. CASE CloneFails
  <2>1. faults' \in 0..MaxFaults
    BY <1>5 DEF GitInv, GitTypeOK, CloneFails
  <2>2. QED
    BY <1>0, <1>5, <2>1 DEF GitInv, GitTypeOK, StepInv, Success, Steps, CloneFails, End
<1>6. QED
  BY <1>1, <1>2, <1>3, <1>4, <1>5

LEMMA ConfigureInv ==
    ASSUME GitInv,
           \/ SetURL \/ SetUpstream \/ UnsetRefspec
           \/ AddRefspec("add_heads", "heads", "add_tags")
           \/ AddRefspec("add_tags", "tags", "fetch")
    PROVE  GitInv'
<1>1. CASE SetURL
  BY <1>1 DEF GitInv, GitTypeOK, StepInv, Success, Steps, SetURL, Goto, End, repo
<1>2. CASE SetUpstream
  BY <1>2 DEF GitInv, GitTypeOK, StepInv, Success, Steps, SetUpstream, Configurable, Goto, End
<1>3. CASE UnsetRefspec
  BY <1>3 DEF GitInv, GitTypeOK, StepInv, Success, Steps, UnsetRefspec, AfterUnset,
              Configurable, Goto
<1>4. CASE AddRefspec("add_heads", "heads", "add_tags")
  BY <1>4 DEF GitInv, GitTypeOK, StepInv, Success, Steps, AddRefspec, Configurable, Goto, End
<1>5. CASE AddRefspec("add_tags", "tags", "fetch")
  BY <1>5 DEF GitInv, GitTypeOK, StepInv, Success, Steps, AddRefspec, Configurable, Goto, End
<1>6. QED
  BY <1>1, <1>2, <1>3, <1>4, <1>5

LEMMA FetchInv ==
    ASSUME GitInv, Fetch \/ (\E n \in Namespaces : UpdateRefs(n)) \/ FetchEnds \/ GC
    PROVE  GitInv'
<1>1. CASE Fetch
  <2>1. snapshot' \in 0..MaxVersion
    BY <1>1 DEF GitInv, GitTypeOK, Fetch
  <2>2. QED
    BY <1>1, <2>1 DEF GitInv, GitTypeOK, StepInv, Success, Steps, Fetch, Goto, repo
<1>2. ASSUME NEW n \in Namespaces, UpdateRefs(n)
      PROVE  GitInv'
  <2>1. refs' \in [Namespaces -> 0..MaxVersion]
    BY <1>2 DEF GitInv, GitTypeOK, UpdateRefs
  <2>2. QED
    BY <1>2, <2>1 DEF GitInv, GitTypeOK, StepInv, Success, Steps, UpdateRefs
<1>3. CASE FetchEnds
  BY <1>3 DEF GitInv, GitTypeOK, StepInv, Success, Steps, FetchEnds, FetchFails, Goto, End, repo
<1>4. CASE GC
  BY <1>4 DEF GitInv, GitTypeOK, StepInv, Success, Steps, GC, Goto, repo
<1>5. QED
  BY <1>1, <1>2, <1>3, <1>4

LEMMA PublishInv ==
    ASSUME GitInv,
           \/ DeleteRefs("remotes", "pull") \/ DeleteRefs("pull", "push")
           \/ (\E n \in Namespaces : Push(n)) \/ Succeed
    PROVE  GitInv'
<1>1. CASE DeleteRefs("remotes", "pull")
  <2>1. refs' \in [Namespaces -> 0..MaxVersion]
    BY <1>1 DEF GitInv, GitTypeOK, DeleteRefs, Deleted
  <2>2. QED
    BY <1>1, <2>1 DEF GitInv, GitTypeOK, StepInv, Success, Steps, DeleteRefs, Deleted, Goto, End
<1>2. CASE DeleteRefs("pull", "push")
  <2>1. refs' \in [Namespaces -> 0..MaxVersion]
    BY <1>2 DEF GitInv, GitTypeOK, DeleteRefs, Deleted
  <2>2. QED
    BY <1>2, <2>1 DEF GitInv, GitTypeOK, StepInv, Success, Steps, DeleteRefs, Deleted, Goto, End
<1>3. ASSUME NEW n \in Namespaces, Push(n)
      PROVE  GitInv'
  <2>1. target' \in [Namespaces -> 0..MaxVersion]
    BY <1>3 DEF GitInv, GitTypeOK, Push
  <2>2. QED
    BY <1>3, <2>1 DEF GitInv, GitTypeOK, StepInv, Success, Push, repo
<1>4. CASE Succeed
  BY <1>4 DEF GitInv, GitTypeOK, StepInv, Success, Steps, Succeed, End, repo
<1>5. QED
  BY <1>1, <1>2, <1>3, <1>4

LEMMA NextInv == GitInv /\ [Next]_vars => GitInv'
<1> SUFFICES ASSUME GitInv, [Next]_vars PROVE GitInv'
  OBVIOUS
<1>1. CASE Next
  BY <1>1, WorldInv, CloneInv, ConfigureInv, FetchInv, PublishInv DEF Next, Script
<1>2. CASE UNCHANGED vars
  BY <1>2 DEF GitInv, GitTypeOK, StepInv, Success, vars, repo
<1>3. QED
  BY <1>1, <1>2

\* The inductive invariant holds in every reachable state.
THEOREM GitInvariant == Spec => []GitInv
<1>1. QED
  BY InitInv, NextInv, PTL DEF Spec

\* Type correctness, and no fetch is about more than heads and tags.
THEOREM GitTypeCorrect == Spec => []GitTypeOK
<1>1. GitInv => GitTypeOK
  BY DEF GitInv
<1>2. QED
  BY <1>1, GitInvariant, PTL

\* Whatever is killed and fails: the script pushes one whole version of what it
\* serves, and a success means that the second server has it.
THEOREM PublishesWhole == Spec => []PublishedWhole
<1>1. GitInv => PublishedWhole
  BY DEF GitInv, StepInv, Success, PublishedWhole
<1>2. QED
  BY <1>1, GitInvariant, PTL
=============================================================================
