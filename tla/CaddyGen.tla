------------------------------ MODULE CaddyGen ------------------------------
(***************************************************************************)
(* caddy-gen.py and gateway-gen.py as programs: a run reads the sites'     *)
(* files one by one, merges them in place, and rewrites its outputs one by *)
(* one, while the files are edited, the run may end at any step, and the   *)
(* hosts load what lies on disk.                                           *)
(***************************************************************************)
EXTENDS CaddyRoutes

CONSTANTS
    SiteFiles,   \* what config.<site>.yaml may say, for every site
    MaxEdits,    \* bound on the edits
    MaxRuns      \* bound on the runs

Programs == {"caddy-gen", "gateway-gen"}

\* Every output of a program for one site, in the order of writing.
Outputs(p) == IF p = "caddy-gen" THEN <<"caddy", "csv", "locals">> ELSE <<"toml">>

FileNames == {"caddy", "csv", "locals", "toml"}

EmptySite == [n \in Names |-> NoEntry]

ASSUME CaddyGenAssumption ==
    /\ SiteOrder \in Seq(Sites) /\ SiteOrder # <<>>
    /\ MaxEdits \in Nat /\ MaxRuns \in Nat
    /\ \A n \in Names : n \in Seq(STRING) /\ n # <<>>
    /\ \A text \in SiteFiles : text = [n \in Names |-> text[n]]

\* No repository is configured to redirect to its own name at a site, as in the
\* deployed files.
ASSUME RedirectAssumption ==
    \A text \in SiteFiles, n \in Names, s \in Sites :
        text[n].serve_mode \in {"redir", "redir_force"} => text[n].target # HomeTarget(n, s)

VARIABLES
    yaml,          \* config.<site>.yaml, as last edited
    program, pc,   \* the program that runs, and where it is
    flag,          \* --fail-on-change
    i, k,          \* positions in SiteOrder and in the outputs
    parsed,        \* what the run read
    site_configs,  \* what it reads and extends in place
    locals,        \* local_top_level_repos
    rewritten,     \* rewritten_repos
    old,           \* old_content
    changed,       \* changed_outputs is not empty
    exit,          \* how the last run ended
    disk,          \* the generated files; a torn one is absent or a beginning of its text
    before,        \* the files when the run began
    live,          \* what each host has loaded of its Caddyfile
    edits, runs

run == <<program, pc, flag, i, k, parsed, site_configs, locals, rewritten, old,
         changed, exit, before, runs>>

vars == <<yaml, run, disk, live, edits>>

NoFile == [torn |-> TRUE, data |-> EmptySite, from |-> [s \in Sites |-> EmptySite]]

\* What a host keeps of a file.
Content(file) == [data |-> file.data, from |-> file.from]

Init ==
    /\ yaml \in [Sites -> SiteFiles]
    /\ program = "caddy-gen" /\ pc = "idle" /\ flag = FALSE
    /\ i = 1 /\ k = 1
    /\ parsed = [s \in Sites |-> EmptySite]
    /\ site_configs = parsed
    /\ locals = [s \in Sites |-> {}]
    /\ rewritten = EmptySite
    /\ old = NoFile
    /\ changed = FALSE
    /\ exit = "none"
    /\ disk = [s \in Sites |-> [f \in FileNames |-> NoFile]]
    /\ before = disk
    /\ live = [s \in Sites |-> Content(NoFile)]
    /\ edits = 0 /\ runs = 0

\* The loops over the sites.
LastSite == i = Len(SiteOrder)
Site == SiteOrder[i]

\* Mutant: the loop runs one site too far.
NextSiteTooFar(loop) ==
    IF i > Len(SiteOrder) THEN i' = 1 /\ pc' = loop ELSE i' = i + 1 /\ UNCHANGED pc

\* The next site, or the next loop from its first site.
NextSite(loop) ==
    IF LastSite THEN i' = 1 /\ pc' = loop ELSE i' = i + 1 /\ UNCHANGED pc

----------------------------------------------------------------------------
(* The world around the program                                            *)

Edit(s) ==
    /\ edits < MaxEdits
    /\ edits' = edits + 1
    /\ \E text \in SiteFiles \ {yaml[s]} : yaml' = [yaml EXCEPT ![s] = text]
    /\ UNCHANGED <<run, disk, live>>

\* What a host may have after it loads a file.  A torn one is refused, and Caddy
\* keeps what it has, or has nothing when it was starting; or the text ends after
\* the block of the site's first base and that block is served.
Loaded(s, file) ==
    IF file.torn THEN {live[s], Content(NoFile), Content(file)} ELSE {Content(file)}

\* A host loads its Caddyfile at any time, also during a run or after a failed one.
Reload(s) ==
    /\ \E content \in Loaded(s, disk[s]["caddy"]) : live' = [live EXCEPT ![s] = content]
    /\ UNCHANGED <<yaml, run, disk, edits>>

\* A process begins with nothing in memory, and leaves nothing there.
NoMemory ==
    /\ i' = 1 /\ k' = 1
    /\ parsed' = [s \in Sites |-> EmptySite]
    /\ site_configs' = parsed'
    /\ locals' = [s \in Sites |-> {}]
    /\ rewritten' = EmptySite
    /\ old' = NoFile
    /\ changed' = FALSE

Kill ==
    /\ pc # "idle"
    /\ pc' = "idle" /\ exit' = "killed"
    /\ NoMemory
    /\ UNCHANGED <<yaml, disk, live, edits, program, flag, before, runs>>

----------------------------------------------------------------------------
(* A run                                                                   *)

Start(p, f) ==
    /\ pc = "idle" /\ runs < MaxRuns
    /\ runs' = runs + 1
    /\ program' = p /\ flag' = f
    /\ pc' = "load" /\ exit' = "none"
    /\ NoMemory
    /\ before' = disk
    /\ UNCHANGED <<yaml, disk, live, edits>>

Shared(E) == {n \in Names : E[n] # NoEntry /\ E[n].unified # "disable"}

\* The first component of every shared name.
LocalTopLevel(E) == {n[1] : n \in Shared(E)}

Load ==
    /\ pc = "load"
    /\ parsed' = [parsed EXCEPT ![Site] = yaml[Site]]
    /\ site_configs' = [site_configs EXCEPT ![Site] = yaml[Site]]
    /\ locals' = [locals EXCEPT ![Site] = LocalTopLevel(yaml[Site])]
    /\ NextSite(IF program = "caddy-gen" THEN "rewrite" ELSE "generate")
    /\ UNCHANGED <<yaml, disk, live, edits, program, flag, k, rewritten, old, changed,
                   exit, before, runs>>

\* Mutant: the test for a name that is there already is missing.
MergeRepoOverwrites(n) ==
    IF n \in Shared(site_configs[Site]) THEN RewriteConfig(n, site_configs[Site][n], Site)
    ELSE rewritten[n]

\* The body of the loop over one site's repositories, for one name.
MergeRepo(n) ==
    IF rewritten[n] = NoEntry /\ n \in Shared(site_configs[Site])
    THEN RewriteConfig(n, site_configs[Site][n], Site)
    ELSE rewritten[n]

RewriteSite ==
    /\ pc = "rewrite"
    /\ rewritten' = [n \in Names |-> MergeRepo(n)]
    /\ NextSite("append")
    /\ UNCHANGED <<yaml, disk, live, edits, program, flag, k, parsed, site_configs, locals,
                   old, changed, exit, before, runs>>

\* Mutant: a name the site has is replaced.
AppendRepoReplaces(n) ==
    IF rewritten[n] # NoEntry THEN rewritten[n] ELSE site_configs[Site][n]

\* The site's list gets every rewritten repository whose name it lacks.
AppendRepo(n) ==
    IF site_configs[Site][n] = NoEntry THEN rewritten[n] ELSE site_configs[Site][n]

AppendSite ==
    /\ pc = "append"
    /\ site_configs' = [site_configs EXCEPT ![Site] = [n \in Names |-> AppendRepo(n)]]
    /\ NextSite("generate")
    /\ UNCHANGED <<yaml, disk, live, edits, program, flag, k, parsed, locals, rewritten,
                   old, changed, exit, before, runs>>

\* What a repository is called in repositories.<site>.csv.
Label(n) == IF n[1] = "git" /\ Len(n) > 1 THEN n ELSE <<n[1]>>

CsvNames(E) == {Label(n) : n \in {m \in Names : E[m] # NoEntry}}

\* Mutant: the list is computed when it is written.
LocalRepositoriesLate(s) == LocalTopLevel(site_configs[s])

LocalRepositories(s) == locals[s]

Data(f) ==
    CASE f = "caddy"  -> site_configs[Site]
      [] f = "csv"    -> CsvNames(site_configs[Site])
      [] f = "locals" -> LocalRepositories(Site)
      [] f = "toml"   -> Endpoints(site_configs[Site])

\* The text of a site's files is computed before the first one is opened; a
\* repository without its keys ends the run there.
Generate ==
    /\ pc = "generate"
    /\ IF program = "caddy-gen" /\ \E n \in Names : KeyErrors(site_configs[Site][n])
       THEN pc' = "idle" /\ exit' = "error"
       ELSE pc' = "truncate" /\ UNCHANGED exit
    /\ UNCHANGED <<yaml, disk, live, edits, program, flag, i, k, parsed, site_configs,
                   locals, rewritten, old, changed, before, runs>>

File == Outputs(program)[k]

\* What a file holds of its text when it is written, or before: nothing, or a
\* beginning of it.
Output(torn) == [torn |-> torn, data |-> Data(File), from |-> parsed]

\* write_generated: the old text is read, then the file is opened with "w".
Truncate ==
    /\ pc = "truncate"
    /\ old' = disk[Site][File]
    /\ disk' = [disk EXCEPT ![Site][File] = Output(TRUE)]
    /\ pc' = "write"
    /\ UNCHANGED <<yaml, live, edits, program, flag, i, k, parsed, site_configs, locals,
                   rewritten, changed, exit, before, runs>>

\* Mutant: only the last file decides.
ReportsLast(content) == flag /\ (old.torn \/ old.data # content)

\* changed_outputs after this file.
Reports(content) == changed \/ (flag /\ (old.torn \/ old.data # content))

Write ==
    /\ pc = "write"
    /\ disk' = [disk EXCEPT ![Site][File] = Output(FALSE)]
    /\ changed' = Reports(Data(File))
    /\ \/ /\ k < Len(Outputs(program))
          /\ k' = k + 1 /\ pc' = "truncate" /\ UNCHANGED <<i, exit>>
       \/ /\ k = Len(Outputs(program)) /\ ~LastSite
          /\ k' = 1 /\ i' = i + 1 /\ pc' = "generate" /\ UNCHANGED exit
       \/ /\ k = Len(Outputs(program)) /\ LastSite
          /\ pc' = "idle" /\ exit' = IF changed' THEN "changed" ELSE "clean"
          /\ UNCHANGED <<i, k>>
    /\ UNCHANGED <<yaml, live, edits, program, flag, parsed, site_configs, locals,
                   rewritten, old, before, runs>>

Next ==
    \/ \E s \in Sites : Edit(s) \/ Reload(s)
    \/ \E p \in Programs, f \in BOOLEAN : Start(p, f)
    \/ Load \/ RewriteSite \/ AppendSite \/ Generate \/ Truncate \/ Write \/ Kill

Spec == Init /\ [][Next]_vars

----------------------------------------------------------------------------
(* Properties                                                              *)

\* The program counters and positions stay in range; a file has text once it is
\* not torn.
GenTypeOK ==
    /\ program \in Programs /\ flag \in BOOLEAN /\ changed \in BOOLEAN
    /\ pc \in {"idle", "load", "rewrite", "append", "generate", "truncate", "write"}
    /\ exit \in {"none", "clean", "changed", "error", "killed"}
    /\ i \in 1..Len(SiteOrder)
    /\ k \in 1..Len(Outputs(program))
    /\ yaml \in [Sites -> SiteFiles]
    /\ edits \in 0..MaxEdits /\ runs \in 0..MaxRuns

\* What the first of the first j sites that shares the name makes of it.
FirstRegistered(cfg, n, e, j) ==
    \/ e = NoEntry /\ \A m \in 1..j : ~Registers(cfg, SiteOrder[m], n)
    \/ \E m \in 1..j :
          /\ Registers(cfg, SiteOrder[m], n)
          /\ \A l \in 1..(m - 1) : ~Registers(cfg, SiteOrder[l], n)
          /\ e = RewriteConfig(n, cfg[SiteOrder[m]][n], SiteOrder[m])

\* The first loop finds for every name what the first site that shares it lets
\* the others serve; after the second every site has its own entries unchanged
\* and these in place of the names it lacks.  The lists that the loops extend in
\* place do not feed back into the merge.
UnifiedNamespace ==
    /\ pc = "append" => \A n \in Names : FirstRegistered(parsed, n, rewritten[n], Len(SiteOrder))
    /\ pc \in {"generate", "truncate", "write"} /\ program = "caddy-gen" =>
          \A s \in Range(SiteOrder), n \in Names :
              IF parsed[s][n] # NoEntry THEN site_configs[s][n] = parsed[s][n]
              ELSE FirstRegistered(parsed, n, site_configs[s][n], Len(SiteOrder))

\* The Caddyfile that host s has loaded sends requests for n to the same name at t.
SendsOn(s, n, t) ==
    /\ live[s].data[n].serve_mode \in {"redir", "redir_force"}
    /\ live[s].data[n].target = HomeTarget(n, t)

\* However edits, kills, failed runs and loads interleave, also loads of a file
\* that a run is writing or has left cut off: among the hosts that serve one
\* reading of the configuration no name is redirected in a circle.  (Hosts of two
\* readings may: of a repository that moves each can take the other for its home.)
NoRedirectLoop ==
    \A n \in Names, S \in SUBSET Range(SiteOrder) :
        (S # {} /\ \A s, t \in S : live[s].from = live[t].from)
            => \E s \in S : \A t \in S : ~SendsOn(s, n, t)

\* The size collector's list names only repositories that the site has itself,
\* although caddy-gen appends the other site's to the list it read.  When both
\* files come from one reading, every listed name is a label of the csv, but for
\* "git": below it every repository has its whole name as a label.
LocalListsAreLocal ==
    \A s \in Sites :
        LET list == disk[s]["locals"]
            csv  == disk[s]["csv"]
            Has(n) == list.from[s][n] # NoEntry
        IN ~list.torn =>
            /\ \A top \in list.data : \E n \in Names : Has(n) /\ n[1] = top
            /\ ~csv.torn /\ csv.from = list.from =>
                  /\ \A top \in list.data \ {"git"} : <<top>> \in csv.data
                  /\ \A n \in Names : Has(n) /\ n[1] = "git" => n \in csv.data

\* When the pre-commit hook passes, nothing on disk was stale: every output of
\* every site had the text that the configuration it read asks for.
CleanHookMeansFresh ==
    exit = "clean" /\ flag /\ pc = "idle" =>
        \A s \in Range(SiteOrder), f \in Range(Outputs(program)) :
            /\ ~before[s][f].torn
            /\ disk[s][f].data = before[s][f].data
            /\ disk[s][f].from = parsed

----------------------------------------------------------------------------
(* The inductive invariant                                                 *)

ReadTexts == SiteFiles \cup {EmptySite}

\* What a host can find in a Caddyfile, whole or torn: the merge of one reading,
\* which is the empty one before the first run.
GeneratedFor(s, file) ==
    /\ file.from \in [Sites -> ReadTexts]
    /\ \A n \in Names :
          IF file.from[s][n] # NoEntry THEN file.data[n] = file.from[s][n]
          ELSE FirstRegistered(file.from, n, file.data[n], Len(SiteOrder))

\* The second loop is over for s.
Appended(s) ==
    \A n \in Names :
        site_configs[s][n] = IF parsed[s][n] # NoEntry THEN parsed[s][n] ELSE rewritten[n]

Generating == pc \in {"generate", "truncate", "write"} /\ program = "caddy-gen"

Shapes ==
    /\ parsed \in [Sites -> ReadTexts]
    /\ site_configs = [s \in Sites |-> site_configs[s]]
    /\ disk = [s \in Sites |-> [f \in FileNames |-> disk[s][f]]]
    /\ live = [s \in Sites |-> live[s]]

LoopInv ==
    /\ pc \in {"rewrite", "append"} => program = "caddy-gen"
    /\ pc \in {"load", "rewrite"} => site_configs = parsed
    /\ pc = "load" => rewritten = EmptySite
    /\ pc = "rewrite" =>
          \A n \in Names : FirstRegistered(parsed, n, rewritten[n], i - 1)
    /\ (pc = "append" \/ Generating) =>
          \A n \in Names : FirstRegistered(parsed, n, rewritten[n], Len(SiteOrder))
    /\ pc = "append" =>
          /\ \A m \in 1..(i - 1) : Appended(SiteOrder[m])
          /\ \A s \in Sites : Appended(s) \/ site_configs[s] = parsed[s]
    /\ Generating => \A m \in 1..Len(SiteOrder) : Appended(SiteOrder[m])

FilesInv ==
    \A s \in Sites : GeneratedFor(s, disk[s]["caddy"]) /\ GeneratedFor(s, live[s])

GenInv == GenTypeOK /\ Shapes /\ LoopInv /\ FilesInv

\* The list of a site comes from what was read of it, and so do the labels.
ListsInv ==
    /\ locals = [s \in Sites |-> locals[s]]
    /\ \A s \in Sites :
          /\ locals[s] \subseteq LocalTopLevel(parsed[s])
          /\ ~disk[s]["locals"].torn =>
                disk[s]["locals"].data \subseteq LocalTopLevel(disk[s]["locals"].from[s])
          /\ ~disk[s]["csv"].torn =>
                \A n \in Names : disk[s]["csv"].from[s][n] # NoEntry =>
                    Label(n) \in disk[s]["csv"].data

\* A file is of this run, and the run has reported it if it was stale.
IsFresh(file, s, f) ==
    /\ ~file.torn /\ file.from = parsed
    /\ flag /\ ~changed => ~before[s][f].torn /\ before[s][f].data = file.data

Fresh(s, f) == IsFresh(disk[s][f], s, f)

Writing(s, f) == pc = "write" /\ s = Site /\ f = File

\* What the run has left behind it, also when a site is named twice.
HookInv ==
    /\ pc \in {"load", "rewrite", "append"} => disk = before /\ k = 1
    /\ pc \in {"generate", "truncate", "write"} =>
          /\ \A s \in Sites, f \in FileNames :
                Fresh(s, f) \/ disk[s][f] = before[s][f] \/ Writing(s, f)
          /\ \A m \in 1..(i - 1) : \A j \in 1..Len(Outputs(program)) :
                Fresh(SiteOrder[m], Outputs(program)[j])
                    \/ Writing(SiteOrder[m], Outputs(program)[j])
          /\ \A j \in 1..(k - 1) : Fresh(Site, Outputs(program)[j])
    /\ pc = "generate" => k = 1
    /\ pc = "write" => IsFresh(old, Site, File) \/ old = before[Site][File]
    /\ pc = "idle" /\ exit = "clean" =>
          /\ ~changed
          /\ \A m \in 1..Len(SiteOrder), j \in 1..Len(Outputs(program)) :
                Fresh(SiteOrder[m], Outputs(program)[j])
=============================================================================
