-------------------------- MODULE CaddyGen_proofs --------------------------
(***************************************************************************)
(* Proofs about the generators, for every set of sites, names and files:   *)
(* the merge that the loops compute, and why what the hosts load has no    *)
(* circular redirect.                                                      *)
(***************************************************************************)
EXTENDS CaddyGen, TLAPS

USE CaddyGenAssumption

LEMMA SiteIsSite ==
    ASSUME GenTypeOK
    PROVE  Site \in Sites
  BY DEF GenTypeOK, Site

\* One more site: the name keeps what an earlier site made of it, or gets what
\* this one makes of it.
LEMMA MergeOneSite ==
    ASSUME NEW cfg, NEW n \in Names, NEW e, NEW j \in Nat \ {0},
           FirstRegistered(cfg, n, e, j - 1)
    PROVE  FirstRegistered(cfg, n,
               IF /\ e = NoEntry
                  /\ cfg[SiteOrder[j]][n] # NoEntry
                  /\ cfg[SiteOrder[j]][n].unified # "disable"
               THEN RewriteConfig(n, cfg[SiteOrder[j]][n], SiteOrder[j]) ELSE e, j)
<1>1. CASE e # NoEntry
  <2>1. PICK m \in 1..(j - 1) :
            /\ Registers(cfg, SiteOrder[m], n)
            /\ \A l \in 1..(m - 1) : ~Registers(cfg, SiteOrder[l], n)
            /\ e = RewriteConfig(n, cfg[SiteOrder[m]][n], SiteOrder[m])
    BY <1>1 DEF FirstRegistered
  <2>2. m \in 1..j
    OBVIOUS
  <2>3. QED
    BY <1>1, <2>1, <2>2 DEF FirstRegistered
<1>2. CASE e = NoEntry
  <2>1. \A m \in 1..(j - 1) : ~Registers(cfg, SiteOrder[m], n)
    <3>1. CASE \E m \in 1..(j - 1) : Registers(cfg, SiteOrder[m], n) /\
                  e = RewriteConfig(n, cfg[SiteOrder[m]][n], SiteOrder[m])
      BY <1>2, <3>1 DEF Registers
    <3>2. QED
      BY <3>1 DEF FirstRegistered
  <2>2. CASE Registers(cfg, SiteOrder[j], n)
    <3>1. j \in 1..j
      OBVIOUS
    <3>2. QED
      BY <1>2, <2>1, <2>2, <3>1 DEF FirstRegistered, Registers
  <2>3. CASE ~Registers(cfg, SiteOrder[j], n)
    <3>1. \A m \in 1..j : ~Registers(cfg, SiteOrder[m], n)
      BY <2>1, <2>3
    <3>2. (IF /\ e = NoEntry
              /\ cfg[SiteOrder[j]][n] # NoEntry
              /\ cfg[SiteOrder[j]][n].unified # "disable"
           THEN RewriteConfig(n, cfg[SiteOrder[j]][n], SiteOrder[j]) ELSE e) = NoEntry
      BY <1>2, <2>3 DEF Registers
    <3>3. QED
      BY <3>1, <3>2 DEF FirstRegistered
  <2>4. QED
    BY <2>2, <2>3
<1>3. QED
  BY <1>1, <1>2

----------------------------------------------------------------------------
\* Before the first run a file, and a host, has the merge of nothing.
LEMMA NothingGenerated ==
    ASSUME NEW s \in Sites
    PROVE  GeneratedFor(s, NoFile) /\ GeneratedFor(s, Content(NoFile))
<1>1. \A n \in Names : FirstRegistered(NoFile.from, n, NoEntry, Len(SiteOrder))
  BY DEF FirstRegistered, Registers, NoFile, EmptySite
<1>2. QED
  BY <1>1 DEF GeneratedFor, Content, NoFile, EmptySite, ReadTexts

LEMMA InitGenInv == Init => GenInv
<1> SUFFICES ASSUME Init PROVE GenInv
  OBVIOUS
<1>1. GenTypeOK
  <2>1. 1 \in 1..Len(SiteOrder) /\ 1 \in 1..Len(Outputs("caddy-gen"))
    BY DEF Outputs
  <2>2. yaml \in [Sites -> SiteFiles] /\ edits \in 0..MaxEdits /\ runs \in 0..MaxRuns
    BY DEF Init
  <2>3. flag \in BOOLEAN /\ changed \in BOOLEAN
    BY Zenon DEF Init
  <2>4. program = "caddy-gen" /\ pc = "idle" /\ exit = "none" /\ i = 1 /\ k = 1
    BY DEF Init
  <2>5. QED
    BY <2>1, <2>2, <2>3, <2>4 DEF GenTypeOK, Programs
<1>2. Shapes
  BY DEF Init, Shapes, ReadTexts
<1>3. LoopInv
  BY DEF Init, LoopInv, Generating
<1>4. FilesInv
  <2>1. \A s \in Sites : disk[s]["caddy"] = NoFile /\ live[s] = Content(NoFile)
    BY DEF Init, FileNames
  <2>2. QED
    BY <2>1, NothingGenerated DEF FilesInv
<1>5. QED
  BY <1>1, <1>2, <1>3, <1>4 DEF GenInv

\* Nothing that the hosts or an editor do reaches into a run.
LEMMA WorldGenInv ==
    ASSUME GenInv, NEW s \in Sites, Edit(s) \/ Reload(s)
    PROVE  GenInv'
<1>1. UNCHANGED <<run, disk>>
  BY DEF Edit, Reload
<1>2. GenTypeOK'
  <2>1. CASE Edit(s)
    <3>1. yaml' \in [Sites -> SiteFiles] /\ edits' \in 0..MaxEdits /\ runs' = runs
      BY <1>1, <2>1 DEF GenInv, GenTypeOK, Edit, run
    <3>2. QED
      BY <1>1, <3>1 DEF GenInv, GenTypeOK, run
  <2>2. CASE Reload(s)
    BY <1>1, <2>2 DEF GenInv, GenTypeOK, Reload, run
  <2>3. QED
    BY <2>1, <2>2
<1>3. Shapes'
  BY <1>1 DEF GenInv, Shapes, Edit, Reload, run
<1>4. LoopInv'
  BY <1>1 DEF GenInv, LoopInv, Generating, Appended, run
<1>5. FilesInv'
  <2>1. CASE Edit(s)
    BY <1>1, <2>1 DEF GenInv, FilesInv, Edit
  <2>2. CASE Reload(s)
    <3>1. PICK content \in Loaded(s, disk[s]["caddy"]) : live' = [live EXCEPT ![s] = content]
      BY <2>2 DEF Reload
    <3>2. GeneratedFor(s, Content(NoFile)) /\ GeneratedFor(s, Content(disk[s]["caddy"]))
      BY NothingGenerated DEF GenInv, FilesInv, GeneratedFor, Content
    <3>3. GeneratedFor(s, content)
      BY <3>1, <3>2 DEF Loaded, GenInv, FilesInv
    <3>4. QED
      BY <1>1, <3>1, <3>3 DEF GenInv, FilesInv, Shapes
  <2>3. QED
    BY <2>1, <2>2
<1>6. QED
  BY <1>2, <1>3, <1>4, <1>5 DEF GenInv

LEMMA StartGenInv ==
    ASSUME GenInv, NEW p \in Programs, NEW f \in BOOLEAN, Start(p, f)
    PROVE  GenInv'
<1>1. GenTypeOK'
  <2>1. 1 \in 1..Len(SiteOrder) /\ 1 \in 1..Len(Outputs(p))
    BY DEF Outputs
  <2>2. yaml' \in [Sites -> SiteFiles] /\ edits' \in 0..MaxEdits /\ runs' \in 0..MaxRuns
    BY DEF GenInv, GenTypeOK, Start
  <2>3. flag' \in BOOLEAN /\ changed' \in BOOLEAN
    BY Zenon DEF Start, NoMemory
  <2>4. program' = p /\ pc' = "load" /\ exit' = "none" /\ i' = 1 /\ k' = 1
    BY DEF Start, NoMemory
  <2>5. QED
    BY <2>1, <2>2, <2>3, <2>4 DEF GenTypeOK
<1>2. Shapes'
  BY DEF GenInv, Shapes, Start, NoMemory, ReadTexts
<1>3. LoopInv'
  BY DEF LoopInv, Start, NoMemory, Generating
<1>4. FilesInv'
  BY DEF GenInv, FilesInv, Start
<1>5. QED
  BY <1>1, <1>2, <1>3, <1>4 DEF GenInv

LEMMA KillGenInv ==
    ASSUME GenInv, Kill
    PROVE  GenInv'
<1>1. GenTypeOK'
  <2>1. 1 \in 1..Len(SiteOrder) /\ 1 \in 1..Len(Outputs(program))
    BY DEF Outputs
  <2>2. changed' \in BOOLEAN /\ flag' \in BOOLEAN
    BY Zenon DEF GenInv, GenTypeOK, Kill, NoMemory
  <2>3. QED
    BY <2>1, <2>2 DEF GenInv, GenTypeOK, Kill, NoMemory
<1>2. Shapes' /\ FilesInv'
  BY DEF GenInv, Shapes, FilesInv, Kill, NoMemory, ReadTexts
<1>3. LoopInv'
  BY DEF LoopInv, Kill, Generating
<1>4. QED
  BY <1>1, <1>2, <1>3 DEF GenInv

\* A loop over the sites stays in range.
LEMMA NextSiteInRange ==
    ASSUME GenTypeOK, NEW loop, NextSite(loop)
    PROVE  /\ i' \in 1..Len(SiteOrder)
           /\ (i' = i + 1 /\ pc' = pc) \/ (i = Len(SiteOrder) /\ i' = 1 /\ pc' = loop)
  BY DEF GenTypeOK, NextSite, LastSite

LEMMA LoadGenInv ==
    ASSUME GenInv, Load
    PROVE  GenInv'
<1> DEFINE loop == IF program = "caddy-gen" THEN "rewrite" ELSE "generate"
<1>0. Site \in Sites /\ yaml[Site] \in SiteFiles
  BY SiteIsSite DEF GenInv, GenTypeOK
<1>1. /\ i' \in 1..Len(SiteOrder)
      /\ (i' = i + 1 /\ pc' = pc) \/ (i = Len(SiteOrder) /\ i' = 1 /\ pc' = loop)
  BY NextSiteInRange DEF GenInv, Load
<1>2. GenTypeOK'
  BY <1>1 DEF GenInv, GenTypeOK, Load
<1>3. Shapes'
  BY <1>0 DEF GenInv, Shapes, Load, ReadTexts
<1>4. site_configs' = parsed'
  BY DEF GenInv, LoopInv, Load
<1>5. LoopInv'
  <2>1. rewritten' = EmptySite /\ program' = program
    BY DEF GenInv, LoopInv, Load
  <2>2. CASE i' = i + 1 /\ pc' = pc
    BY <1>4, <2>1, <2>2 DEF Load, LoopInv, Generating
  <2>3. CASE i' = 1 /\ pc' = loop
    <3>1. \A n \in Names : FirstRegistered(parsed', n, rewritten'[n], i' - 1)
      BY <2>1, <2>3 DEF FirstRegistered, EmptySite
    <3>2. QED
      BY <1>4, <2>1, <2>3, <3>1 DEF LoopInv, Generating
  <2>4. QED
    BY <1>1, <2>2, <2>3
<1>6. FilesInv'
  BY DEF GenInv, FilesInv, Load
<1>7. QED
  BY <1>2, <1>3, <1>5, <1>6 DEF GenInv

LEMMA RewriteGenInv ==
    ASSUME GenInv, RewriteSite
    PROVE  GenInv'
<1>0. Site \in Sites /\ program = "caddy-gen" /\ i \in 1..Len(SiteOrder)
  BY SiteIsSite DEF GenInv, GenTypeOK, LoopInv, RewriteSite
<1>1. /\ i' \in 1..Len(SiteOrder)
      /\ (i' = i + 1 /\ pc' = pc) \/ (i = Len(SiteOrder) /\ i' = 1 /\ pc' = "append")
  BY NextSiteInRange DEF GenInv, RewriteSite
<1>2. GenTypeOK'
  BY <1>1 DEF GenInv, GenTypeOK, RewriteSite
<1>3. Shapes' /\ FilesInv'
  BY DEF GenInv, Shapes, FilesInv, RewriteSite
<1>4. ASSUME NEW n \in Names
      PROVE  FirstRegistered(parsed, n, rewritten'[n], i)
  <2>1. FirstRegistered(parsed, n, rewritten[n], i - 1) /\ site_configs = parsed
    BY DEF GenInv, LoopInv, RewriteSite
  <2>2. rewritten'[n] = IF /\ rewritten[n] = NoEntry
                           /\ parsed[SiteOrder[i]][n] # NoEntry
                           /\ parsed[SiteOrder[i]][n].unified # "disable"
                        THEN RewriteConfig(n, parsed[SiteOrder[i]][n], SiteOrder[i])
                        ELSE rewritten[n]
    BY <2>1 DEF RewriteSite, MergeRepo, Shared, Site
  <2>3. i \in Nat \ {0}
    BY <1>0
  <2>4. QED
    BY ONLY <2>1, <2>2, <2>3, MergeOneSite
<1>5. LoopInv'
  <2>1. /\ program' = program /\ parsed' = parsed /\ site_configs' = site_configs
        /\ site_configs = parsed
    BY DEF GenInv, LoopInv, RewriteSite
  <2>2. CASE i' = i + 1 /\ pc' = pc
    <3>1. pc' = "rewrite" /\ i' - 1 = i
      BY <1>0, <2>2 DEF RewriteSite
    <3>2. QED
      BY <1>0, <1>4, <2>1, <3>1 DEF LoopInv, Generating
  <2>3. CASE i = Len(SiteOrder) /\ i' = 1 /\ pc' = "append"
    BY <1>0, <1>4, <2>1, <2>3 DEF LoopInv, Generating
  <2>4. QED
    BY <1>1, <2>2, <2>3
<1>6. QED
  BY <1>2, <1>3, <1>5 DEF GenInv

LEMMA AppendGenInv ==
    ASSUME GenInv, AppendSite
    PROVE  GenInv'
<1>0. Site \in Sites /\ program = "caddy-gen" /\ i \in 1..Len(SiteOrder)
  BY SiteIsSite DEF GenInv, GenTypeOK, LoopInv, AppendSite
<1>1. /\ i' \in 1..Len(SiteOrder)
      /\ (i' = i + 1 /\ pc' = pc) \/ (i = Len(SiteOrder) /\ i' = 1 /\ pc' = "generate")
  BY NextSiteInRange DEF GenInv, AppendSite
<1>2. GenTypeOK'
  BY <1>1 DEF GenInv, GenTypeOK, AppendSite
<1>3. Shapes' /\ FilesInv'
  BY DEF GenInv, Shapes, FilesInv, AppendSite
<1>4. UNCHANGED <<parsed, rewritten, program>> /\ pc = "append"
  BY DEF AppendSite
<1>5. site_configs' = [site_configs EXCEPT ![Site] = [n \in Names |-> AppendRepo(n)]]
  BY DEF AppendSite
<1> PICK home \in Sites : home = SiteOrder[i]
  BY <1>0 DEF Site
<1>6. ASSUME NEW s \in Sites, s # home
      PROVE  site_configs'[s] = site_configs[s]
  BY <1>5, <1>6 DEF GenInv, Shapes, Site
<1>7. ASSUME NEW n \in Names
      PROVE  site_configs'[home][n] =
                 IF site_configs[home][n] = NoEntry THEN rewritten[n] ELSE site_configs[home][n]
  BY <1>5 DEF GenInv, Shapes, Site, AppendRepo
<1>8. Appended(home) \/ site_configs[home] = parsed[home]
  BY DEF GenInv, LoopInv, AppendSite
<1>9. Appended(home)'
  <2>1. ASSUME NEW n \in Names
        PROVE  site_configs'[home][n] =
                   IF parsed[home][n] # NoEntry THEN parsed[home][n] ELSE rewritten[n]
    BY <1>7, <1>8 DEF Appended
  <2>2. QED
    BY <1>4, <2>1 DEF Appended
<1>10. ASSUME NEW s \in Sites
       PROVE  /\ Appended(s) => Appended(s)'
              /\ Appended(s)' \/ (s # home /\ site_configs'[s] = site_configs[s])
  <2>1. CASE s = home
    BY <1>9, <2>1
  <2>2. CASE s # home
    <3>1. site_configs'[s] = site_configs[s] /\ parsed' = parsed /\ rewritten' = rewritten
      BY <1>4, <1>6, <2>2
    <3>2. QED
      BY <2>2, <3>1 DEF Appended
  <2>3. QED
    BY <2>1, <2>2
<1>11. \A m \in 1..i : Appended(SiteOrder[m])'
  <2>1. \A m \in 1..(i - 1) : Appended(SiteOrder[m])
    BY DEF GenInv, LoopInv, AppendSite
  <2>2. \A m \in 1..Len(SiteOrder) : SiteOrder[m] \in Sites
    OBVIOUS
  <2>3. ASSUME NEW m \in 1..i
        PROVE  Appended(SiteOrder[m])'
    <3>1. CASE m = i
      BY <1>9, <3>1
    <3>2. CASE m # i
      BY <1>0, <1>10, <2>1, <2>2, <3>2
    <3>3. QED
      BY <3>1, <3>2
  <2>4. QED
    BY <2>3
<1>12. LoopInv'
  <2>1. \A n \in Names : FirstRegistered(parsed', n, rewritten'[n], Len(SiteOrder))
    BY <1>4 DEF GenInv, LoopInv
  <2>2. \A s \in Sites : Appended(s)' \/ site_configs'[s] = parsed'[s]
    BY <1>4, <1>10 DEF GenInv, LoopInv
  <2>3. CASE i' = i + 1 /\ pc' = pc
    <3>1. pc' = "append" /\ i' - 1 = i
      BY <1>0, <1>4, <2>3
    <3>2. QED
      BY <1>0, <1>4, <1>11, <2>1, <2>2, <3>1 DEF LoopInv, Generating
  <2>4. CASE i = Len(SiteOrder) /\ pc' = "generate"
    BY <1>0, <1>4, <1>11, <2>1, <2>4 DEF LoopInv, Generating
  <2>5. QED
    BY <1>1, <2>3, <2>4
<1>13. QED
  BY <1>2, <1>3, <1>12 DEF GenInv

LEMMA GenerateGenInv ==
    ASSUME GenInv, Generate
    PROVE  GenInv'
<1>1. GenTypeOK'
  BY DEF GenInv, GenTypeOK, Generate
<1>2. Shapes' /\ FilesInv'
  BY DEF GenInv, Shapes, FilesInv, Generate
<1>3. UNCHANGED <<parsed, rewritten, program, site_configs, i>>
      /\ pc = "generate" /\ pc' \in {"idle", "truncate"}
  BY DEF Generate
<1>4. LoopInv'
  BY <1>3 DEF GenInv, LoopInv, Generating, Appended
<1>5. QED
  BY <1>1, <1>2, <1>4 DEF GenInv

\* One file of one site is replaced.
LEMMA DiskUpdate ==
    ASSUME Shapes, Site \in Sites, NEW file,
           disk' = [disk EXCEPT ![Site] = [disk[Site] EXCEPT ![File] = file]]
    PROVE  disk' = [s \in Sites |-> [f \in FileNames |-> disk'[s][f]]]
<1>1. disk = [s \in Sites |-> disk[s]]
  BY DEF Shapes
<1>2. \A s \in Sites : disk[s] = [f \in FileNames |-> disk[s][f]]
  BY DEF Shapes
<1>3. disk' = [s \in Sites |-> disk'[s]]
  BY <1>1
<1>4. ASSUME NEW s \in Sites
      PROVE  disk'[s] = [f \in FileNames |-> disk'[s][f]]
  BY <1>1, <1>2
<1>5. QED
  BY <1>3, <1>4

\* What a run of caddy-gen writes for a site is the merge of what it read.
LEMMA GeneratedSite ==
    ASSUME GenInv, Generating, NEW torn
    PROVE  GeneratedFor(Site, [torn |-> torn, data |-> site_configs[Site], from |-> parsed])
<1>1. Appended(Site)
  BY DEF GenInv, GenTypeOK, LoopInv, Site
<1>2. \A n \in Names : FirstRegistered(parsed, n, rewritten[n], Len(SiteOrder))
  BY DEF GenInv, LoopInv
<1>3. QED
  BY <1>1, <1>2 DEF GenInv, Shapes, Appended, GeneratedFor

\* The same of the file while it is written and when it is.
LEMMA OutputFilesInv ==
    ASSUME GenInv, NEW torn \in BOOLEAN, pc \in {"truncate", "write"},
           disk' = [disk EXCEPT ![Site] = [disk[Site] EXCEPT ![File] = Output(torn)]]
    PROVE  \A s \in Sites : GeneratedFor(s, disk'[s]["caddy"])
<1>0. Site \in Sites
  BY SiteIsSite DEF GenInv
<1>1. SUFFICES ASSUME NEW s \in Sites
               PROVE  GeneratedFor(s, disk'[s]["caddy"])
  OBVIOUS
<1>2. CASE s = Site /\ File = "caddy"
  <2>1. program = "caddy-gen"
    BY <1>2 DEF File, Outputs, GenInv, GenTypeOK, Programs
  <2>2. Output(torn) = [torn |-> torn, data |-> site_configs[Site], from |-> parsed]
    BY <1>2 DEF Output, Data
  <2>3. disk'[s]["caddy"] = Output(torn)
    BY <1>0, <1>2 DEF GenInv, Shapes, FileNames
  <2>4. QED
    BY <1>2, <2>1, <2>2, <2>3, GeneratedSite DEF Generating
<1>3. CASE s # Site \/ File # "caddy"
  <2>1. disk'[s]["caddy"] = disk[s]["caddy"]
    BY <1>0, <1>3 DEF GenInv, Shapes, FileNames
  <2>2. QED
    BY <2>1 DEF GenInv, FilesInv
<1>4. QED
  BY <1>2, <1>3

LEMMA TruncateGenInv ==
    ASSUME GenInv, Truncate
    PROVE  GenInv'
<1>1. GenTypeOK'
  BY DEF GenInv, GenTypeOK, Truncate
<1>2. UNCHANGED <<parsed, rewritten, program, site_configs, i, live>>
      /\ pc = "truncate" /\ pc' = "write"
  BY DEF Truncate
<1>3. LoopInv'
  BY <1>2 DEF GenInv, LoopInv, Generating, Appended
<1>4. disk' = [disk EXCEPT ![Site] = [disk[Site] EXCEPT ![File] = Output(TRUE)]]
  BY DEF Truncate
<1>5. Shapes'
  <2>1. Shapes /\ Site \in Sites
    BY SiteIsSite DEF GenInv
  <2>2. disk' = [s \in Sites |-> [f \in FileNames |-> disk'[s][f]]]
    BY ONLY <1>4, <2>1, DiskUpdate
  <2>3. QED
    BY <1>2, <2>1, <2>2 DEF Shapes
<1>6. FilesInv'
  <2>1. \A s \in Sites : GeneratedFor(s, disk'[s]["caddy"])
    BY <1>4, OutputFilesInv DEF GenInv, Truncate
  <2>2. QED
    BY <1>2, <2>1 DEF GenInv, FilesInv
<1>7. QED
  BY <1>1, <1>3, <1>5, <1>6 DEF GenInv

LEMMA WriteGenInv ==
    ASSUME GenInv, Write
    PROVE  GenInv'
<1>0. Site \in Sites
  BY SiteIsSite DEF GenInv
<1>1. UNCHANGED <<parsed, rewritten, program, site_configs, live, yaml, edits, runs, flag>>
      /\ pc = "write" /\ pc' \in {"truncate", "generate", "idle"}
  BY DEF Write
<1>2. GenTypeOK'
  <2>1. changed' \in BOOLEAN /\ exit' \in {"none", "clean", "changed", "error", "killed"}
    BY DEF GenInv, GenTypeOK, Write, Reports
  <2>2. 1 \in 1..Len(Outputs(program))
    BY DEF Outputs
  <2>3. i' \in 1..Len(SiteOrder) /\ k' \in 1..Len(Outputs(program))
    BY <2>2 DEF GenInv, GenTypeOK, Write, LastSite
  <2>4. QED
    BY <1>1, <2>1, <2>3 DEF GenInv, GenTypeOK
<1>3. LoopInv'
  BY <1>1 DEF GenInv, LoopInv, Generating, Appended
<1>4. disk' = [disk EXCEPT ![Site] = [disk[Site] EXCEPT ![File] = Output(FALSE)]]
  BY DEF Write
<1>5. Shapes'
  <2>1. Shapes
    BY DEF GenInv
  <2>2. disk' = [s \in Sites |-> [f \in FileNames |-> disk'[s][f]]]
    BY ONLY <1>0, <1>4, <2>1, DiskUpdate
  <2>3. QED
    BY <1>1, <2>1, <2>2 DEF Shapes
<1>6. FilesInv'
  <2>1. \A s \in Sites : GeneratedFor(s, disk'[s]["caddy"])
    BY <1>1, <1>4, OutputFilesInv DEF GenInv
  <2>2. QED
    BY <1>1, <2>1 DEF GenInv, FilesInv
<1>7. QED
  BY <1>2, <1>3, <1>5, <1>6 DEF GenInv

LEMMA NextGenInv == GenInv /\ [Next]_vars => GenInv'
<1> SUFFICES ASSUME GenInv, [Next]_vars PROVE GenInv'
  OBVIOUS
<1>1. ASSUME NEW s \in Sites, Edit(s) \/ Reload(s) PROVE GenInv'
  BY <1>1, WorldGenInv
<1>2. ASSUME NEW p \in Programs, NEW f \in BOOLEAN, Start(p, f) PROVE GenInv'
  BY <1>2, StartGenInv
<1>3. CASE Load
  BY <1>3, LoadGenInv
<1>4. CASE RewriteSite
  BY <1>4, RewriteGenInv
<1>5. CASE AppendSite
  BY <1>5, AppendGenInv
<1>6. CASE Generate
  BY <1>6, GenerateGenInv
<1>7. CASE Truncate
  BY <1>7, TruncateGenInv
<1>8. CASE Write
  BY <1>8, WriteGenInv
<1>9. CASE Kill
  BY <1>9, KillGenInv
<1>10. CASE UNCHANGED vars
  <2>1. UNCHANGED <<yaml, program, pc, flag, i, k, parsed, site_configs, rewritten,
                    changed, exit, runs, edits, disk, live>>
    BY <1>10 DEF vars, run
  <2>2. GenTypeOK' /\ Shapes' /\ FilesInv'
    BY <2>1 DEF GenInv, GenTypeOK, Shapes, FilesInv
  <2>3. LoopInv'
    BY <2>1 DEF GenInv, LoopInv, Generating, Appended
  <2>4. QED
    BY <2>2, <2>3 DEF GenInv
<1>11. QED
  BY <1>1, <1>2, <1>3, <1>4, <1>5, <1>6, <1>7, <1>8, <1>9, <1>10 DEF Next

\* The inductive invariant holds in every reachable state of the generators.
THEOREM GenInvariant == Spec => []GenInv
<1>1. QED
  BY InitGenInv, NextGenInv, PTL DEF Spec

\* Type correctness of the generators.
THEOREM GenTypeCorrect == Spec => []GenTypeOK
<1>1. GenInv => GenTypeOK
  BY DEF GenInv
<1>2. QED
  BY <1>1, GenInvariant, PTL

----------------------------------------------------------------------------
\* For any sites, names and files: the loops compute the merge in which the
\* first site that shares a name decides.
THEOREM NamespaceUnified == Spec => []UnifiedNamespace
<1>1. GenInv => UnifiedNamespace
  <2> SUFFICES ASSUME GenInv PROVE UnifiedNamespace
    OBVIOUS
  <2>1. pc = "append" =>
            \A n \in Names : FirstRegistered(parsed, n, rewritten[n], Len(SiteOrder))
    BY DEF GenInv, LoopInv
  <2>2. ASSUME Generating, NEW s \in Range(SiteOrder), NEW n \in Names
        PROVE  IF parsed[s][n] # NoEntry THEN site_configs[s][n] = parsed[s][n]
               ELSE FirstRegistered(parsed, n, site_configs[s][n], Len(SiteOrder))
    <3>1. PICK m \in 1..Len(SiteOrder) : s = SiteOrder[m]
      BY DEF Range
    <3>2. Appended(s) /\ FirstRegistered(parsed, n, rewritten[n], Len(SiteOrder))
      BY <2>2, <3>1 DEF GenInv, LoopInv
    <3>3. QED
      BY <3>2 DEF Appended
  <2>3. QED
    BY <2>1, <2>2 DEF UnifiedNamespace, Generating
<1>2. QED
  BY <1>1, GenInvariant, PTL

\* Where a Caddyfile sends a name on to: a site that has the name itself and
\* does not redirect it.
LEMMA SentToOwner ==
    ASSUME NEW s \in Sites, NEW n \in Names, NEW t \in Sites,
           GeneratedFor(s, live[s]), SendsOn(s, n, t)
    PROVE  /\ live[s].from[t][n] # NoEntry
           /\ live[s].from[t][n].serve_mode \notin {"redir", "redir_force"}
<1> DEFINE cfg == live[s].from
           d   == live[s].data[n]
<1>1. /\ cfg \in [Sites -> ReadTexts]
      /\ IF cfg[s][n] # NoEntry THEN d = cfg[s][n]
         ELSE FirstRegistered(cfg, n, d, Len(SiteOrder))
      /\ d.serve_mode \in {"redir", "redir_force"} /\ d.target = HomeTarget(n, t)
  BY DEF GeneratedFor, SendsOn
<1>2. ASSUME NEW h \in Sites, cfg[h][n] # NoEntry,
             cfg[h][n].serve_mode \in {"redir", "redir_force"}
      PROVE  cfg[h][n].target # HomeTarget(n, t)
  <2>1. cfg[h] \in SiteFiles
    BY <1>1, <1>2 DEF ReadTexts, EmptySite
  <2>2. QED
    BY <1>2, <2>1, RedirectAssumption
<1>3. cfg[s][n] = NoEntry
  BY <1>1, <1>2
<1>4. NoEntry.serve_mode = "none"
  BY DEF NoEntry, Entry
<1>5. PICK m \in 1..Len(SiteOrder) :
          /\ Registers(cfg, SiteOrder[m], n)
          /\ d = RewriteConfig(n, cfg[SiteOrder[m]][n], SiteOrder[m])
  BY <1>1, <1>3, <1>4 DEF FirstRegistered
<1> DEFINE h == SiteOrder[m]
           e == cfg[h][n]
<1>6. h \in Sites /\ e # NoEntry
  BY <1>5 DEF Registers
<1>7. CASE e.unified = "proxy"
  <2>1. d.serve_mode = "proxy"
    BY <1>5, <1>7 DEF RewriteConfig, Entry
  <2>2. QED
    BY <1>1, <2>1
<1>8. CASE e.unified # "proxy" /\ e.serve_mode \in {"default", "git", "rsync_gateway"}
  <2>1. d.target = HomeTarget(n, h)
    BY <1>5, <1>8 DEF RewriteConfig, Entry
  <2>2. t = h
    BY <1>1, <2>1 DEF HomeTarget
  <2>3. QED
    BY <1>6, <1>8, <2>2
<1>9. CASE e.unified # "proxy" /\ e.serve_mode \in {"redir", "redir_force"}
  <2>1. d.target = e.target
    BY <1>5, <1>9 DEF RewriteConfig, Entry
  <2>2. QED
    BY <1>1, <1>2, <1>6, <1>9, <2>1
<1>10. CASE /\ e.unified # "proxy"
            /\ e.serve_mode \notin {"default", "git", "rsync_gateway", "redir", "redir_force"}
  <2>1. CASE e.serve_mode = "mirror_intel"
    <3>1. d = Entry("mirror_intel")
      BY <1>5, <1>10, <2>1 DEF RewriteConfig
    <3>2. Entry("mirror_intel").serve_mode = "mirror_intel"
      BY DEF Entry
    <3>3. d.serve_mode \in {"redir", "redir_force"}
      BY <1>1
    <3>4. QED
      BY <3>1, <3>2, <3>3
  <2>2. CASE e.serve_mode = "proxy"
    BY <1>1, <1>5, <1>10, <2>2 DEF RewriteConfig, Entry
  <2>3. CASE e.serve_mode \notin {"mirror_intel", "proxy"}
    <3>1. d = NoEntry
      BY <1>5, <1>10, <2>3 DEF RewriteConfig
    <3>2. QED
      BY <1>1, <1>4, <3>1
  <2>4. QED
    BY <2>1, <2>2, <2>3
<1>11. QED
  BY <1>7, <1>8, <1>9, <1>10

\* No circular redirect among hosts of one reading, whatever the sites, the files,
\* the edits and kills, and whenever a host loads what a run has left or is about
\* to write: a redirect between the sites ends at its first hop.
THEOREM RedirectsEnd == Spec => []NoRedirectLoop
<1>1. GenInv => NoRedirectLoop
  <2> SUFFICES ASSUME GenInv, NEW n \in Names, NEW S \in SUBSET Range(SiteOrder),
                      S # {}, \A s, t \in S : live[s].from = live[t].from,
                      \A s \in S : \E t \in S : SendsOn(s, n, t)
               PROVE  FALSE
    BY DEF NoRedirectLoop
  <2>1. S \subseteq Sites
    BY DEF Range
  <2>2. PICK s \in S, t \in S : SendsOn(s, n, t)
    OBVIOUS
  <2>3. PICK u \in S : SendsOn(t, n, u)
    OBVIOUS
  <2>4. /\ live[s].from[t][n] # NoEntry
        /\ live[s].from[t][n].serve_mode \notin {"redir", "redir_force"}
    BY <2>1, <2>2, SentToOwner DEF GenInv, FilesInv
  <2>5. live[t].data[n] = live[t].from[t][n]
    BY <2>1, <2>3, <2>4 DEF GenInv, FilesInv, GeneratedFor, SendsOn
  <2>6. QED
    BY <2>3, <2>4, <2>5 DEF SendsOn
<1>2. QED
  BY <1>1, GenInvariant, PTL

----------------------------------------------------------------------------
(* What the lists name                                                     *)

LEMMA InitListsInv == Init => ListsInv
  BY DEF Init, ListsInv, NoFile, FileNames

\* What one step leaves alone, it leaves true.
LEMMA ListsUnchanged ==
    ASSUME ListsInv, UNCHANGED <<locals, parsed, disk>>
    PROVE  ListsInv'
  BY DEF ListsInv

LEMMA LoadListsInv ==
    ASSUME GenInv, ListsInv, Load
    PROVE  ListsInv'
<1>1. Site \in Sites
  BY SiteIsSite DEF GenInv
<1>2. \A s \in Sites : parsed'[s] = IF s = Site THEN yaml[Site] ELSE parsed[s]
  BY <1>1 DEF GenInv, Shapes, Load
<1>3. \A s \in Sites : locals'[s] = IF s = Site THEN LocalTopLevel(yaml[Site]) ELSE locals[s]
  BY <1>1 DEF ListsInv, Load
<1>4. locals' = [s \in Sites |-> locals'[s]]
  BY <1>1 DEF ListsInv, Load
<1>5. \A s \in Sites : locals'[s] \subseteq LocalTopLevel(parsed'[s])
  <2>1. ASSUME NEW s \in Sites
        PROVE  locals'[s] \subseteq LocalTopLevel(parsed'[s])
    <3>1. CASE s = Site
      <4>1. locals'[s] = LocalTopLevel(yaml[Site]) /\ parsed'[s] = yaml[Site]
        BY <1>2, <1>3, <3>1
      <4>2. QED
        BY ONLY <4>1
    <3>2. CASE s # Site
      <4>1. locals'[s] = locals[s] /\ parsed'[s] = parsed[s]
        BY <1>2, <1>3, <3>2
      <4>2. locals[s] \subseteq LocalTopLevel(parsed[s])
        BY DEF ListsInv
      <4>3. QED
        BY ONLY <4>1, <4>2
    <3>3. QED
      BY <3>1, <3>2
  <2>2. QED
    BY <2>1
<1>6. disk' = disk
  BY DEF Load
<1>7. QED
  BY <1>4, <1>5, <1>6 DEF ListsInv

\* Where the file that is written is, and the others.
LEMMA DiskRead ==
    ASSUME Shapes, Site \in Sites, NEW file,
           disk' = [disk EXCEPT ![Site][File] = file]
    PROVE  \A s \in Sites, f \in FileNames :
               disk'[s][f] = IF s = Site /\ f = File THEN file ELSE disk[s][f]
<1>1. disk = [s \in Sites |-> disk[s]] /\ \A s \in Sites : disk[s] = [f \in FileNames |-> disk[s][f]]
  BY DEF Shapes
<1>2. QED
  BY <1>1

LEMMA TruncateListsInv ==
    ASSUME GenInv, ListsInv, Truncate
    PROVE  ListsInv'
<1>1. \A s \in Sites, f \in FileNames :
          disk'[s][f] = IF s = Site /\ f = File THEN Output(TRUE) ELSE disk[s][f]
  BY SiteIsSite, DiskRead DEF GenInv, Truncate
<1>2. locals' = locals /\ parsed' = parsed
  BY DEF Truncate
<1>3. Output(TRUE).torn
  BY DEF Output
<1>4. ASSUME NEW s \in Sites
      PROVE  /\ disk'[s]["locals"] = disk[s]["locals"] \/ disk'[s]["locals"].torn
             /\ disk'[s]["csv"] = disk[s]["csv"] \/ disk'[s]["csv"].torn
  BY <1>1, <1>3 DEF FileNames
<1>5. QED
  BY <1>2, <1>4 DEF ListsInv

\* The labels of a site cover every name that was read of it.
LEMMA LabelsCover ==
    ASSUME GenInv, Generating, NEW n \in Names, parsed[Site][n] # NoEntry
    PROVE  Label(n) \in CsvNames(site_configs[Site])
<1>1. Appended(Site)
  BY DEF GenInv, GenTypeOK, LoopInv, Site
<1>2. site_configs[Site][n] # NoEntry
  BY <1>1 DEF Appended
<1>3. QED
  BY <1>2 DEF CsvNames

\* A name of one component is that component.
LEMMA ShortName ==
    ASSUME NEW n \in Names
    PROVE  Len(n) > 1 \/ n = <<n[1]>>
<1>1. n \in Seq(STRING) /\ n # <<>>
  BY CaddyGenAssumption
<1>2. Len(n) \in Nat /\ Len(n) # 0
  BY ONLY <1>1
<1>3. Len(n) > 1 \/ Len(n) = 1
  BY ONLY <1>2
<1>4. Len(n) = 1 => n = <<n[1]>>
  BY ONLY <1>1
<1>5. QED
  BY ONLY <1>3, <1>4

LEMMA WriteListsInv ==
    ASSUME GenInv, ListsInv, Write
    PROVE  ListsInv'
<1> DEFINE file == [torn |-> FALSE, data |-> Data(File), from |-> parsed]
<1>1. Site \in Sites /\ pc = "write"
  BY SiteIsSite DEF GenInv, Write
<1>2. \A s \in Sites, f \in FileNames :
          disk'[s][f] = IF s = Site /\ f = File THEN file ELSE disk[s][f]
  BY SiteIsSite, DiskRead DEF GenInv, Write, Output
<1>3. locals' = locals /\ parsed' = parsed
  BY DEF Write
<1>4. ASSUME NEW s \in Sites
      PROVE  ~disk'[s]["locals"].torn =>
                disk'[s]["locals"].data \subseteq LocalTopLevel(disk'[s]["locals"].from[s])
  <2>1. CASE s = Site /\ File = "locals"
    <3>1. disk'[s]["locals"] = file
      BY <1>2, <2>1 DEF FileNames
    <3>2. file.data = locals[s] /\ file.from = parsed
      BY <2>1 DEF Data, LocalRepositories
    <3>3. QED
      BY <3>1, <3>2 DEF ListsInv
  <2>2. CASE ~(s = Site /\ File = "locals")
    <3>1. disk'[s]["locals"] = disk[s]["locals"]
      BY <1>2, <2>2 DEF FileNames
    <3>2. QED
      BY <3>1 DEF ListsInv
  <2>3. QED
    BY <2>1, <2>2
<1>5. ASSUME NEW s \in Sites, NEW n \in Names,
             ~disk'[s]["csv"].torn, disk'[s]["csv"].from[s][n] # NoEntry
      PROVE  Label(n) \in disk'[s]["csv"].data
  <2>1. CASE s = Site /\ File = "csv"
    <3>1. disk'[s]["csv"] = file
      BY <1>2, <2>1 DEF FileNames
    <3>2. file.data = CsvNames(site_configs[Site]) /\ file.from = parsed
      BY <2>1 DEF Data
    <3>3. Generating
      BY <1>1, <2>1 DEF File, Outputs, GenInv, GenTypeOK, Programs, Generating
    <3>4. QED
      BY <1>5, <2>1, <3>1, <3>2, <3>3, LabelsCover
  <2>2. CASE ~(s = Site /\ File = "csv")
    <3>1. disk'[s]["csv"] = disk[s]["csv"]
      BY <1>2, <2>2 DEF FileNames
    <3>2. QED
      BY <1>5, <3>1 DEF ListsInv
  <2>3. QED
    BY <2>1, <2>2
<1>6. QED
  BY <1>3, <1>4, <1>5 DEF ListsInv

LEMMA NextListsInv == GenInv /\ ListsInv /\ [Next]_vars => ListsInv'
<1> SUFFICES ASSUME GenInv, ListsInv, [Next]_vars PROVE ListsInv'
  OBVIOUS
<1>1. ASSUME NEW s \in Sites, Edit(s) \/ Reload(s) PROVE ListsInv'
  BY <1>1, ListsUnchanged DEF Edit, Reload, run
<1>2. ASSUME NEW p \in Programs, NEW f \in BOOLEAN, Start(p, f) PROVE ListsInv'
  BY <1>2 DEF ListsInv, Start, NoMemory
<1>3. CASE Kill
  BY <1>3 DEF ListsInv, Kill, NoMemory
<1>4. CASE RewriteSite \/ AppendSite \/ Generate \/ UNCHANGED vars
  BY <1>4, ListsUnchanged DEF RewriteSite, AppendSite, Generate, vars, run
<1>5. QED
  BY <1>1, <1>2, <1>3, <1>4, LoadListsInv, TruncateListsInv, WriteListsInv DEF Next

\* For any sites, names and files: the size collector's list of a site names
\* only repositories that the site's own file lists, and when both files come
\* from one reading every name but "git" is a label of the site's csv, which has
\* the whole names below git. 
THEOREM ListsLocal == Spec => []LocalListsAreLocal
<1>1. Spec => []ListsInv
  BY InitListsInv, NextListsInv, GenInvariant, PTL DEF Spec
<1>2. ListsInv => LocalListsAreLocal
  <2> SUFFICES ASSUME ListsInv, NEW s \in Sites, ~disk[s]["locals"].torn
               PROVE  LET list == disk[s]["locals"]
                          csv  == disk[s]["csv"]
                          Has(n) == list.from[s][n] # NoEntry
                      IN /\ \A top \in list.data : \E n \in Names : Has(n) /\ n[1] = top
                         /\ ~csv.torn /\ csv.from = list.from =>
                               /\ \A top \in list.data \ {"git"} : <<top>> \in csv.data
                               /\ \A n \in Names : Has(n) /\ n[1] = "git" => n \in csv.data
    BY DEF LocalListsAreLocal
  <2> DEFINE list == disk[s]["locals"]
             csv  == disk[s]["csv"]
  <2>1. ASSUME NEW top \in list.data
        PROVE  \E n \in Names : list.from[s][n] # NoEntry /\ n[1] = top
    BY DEF ListsInv, LocalTopLevel, Shared
  <2>2. ASSUME ~csv.torn, csv.from = list.from, NEW top \in list.data, top # "git"
        PROVE  <<top>> \in csv.data
    <3>1. PICK n \in Names : list.from[s][n] # NoEntry /\ n[1] = top
      BY <2>1
    <3>2. Label(n) \in csv.data
      BY <2>2, <3>1 DEF ListsInv
    <3>3. QED
      BY <2>2, <3>1, <3>2 DEF Label
  <2>3. ASSUME ~csv.torn, csv.from = list.from, NEW n \in Names,
               list.from[s][n] # NoEntry, n[1] = "git"
        PROVE  n \in csv.data
    <3>1. Label(n) \in csv.data
      BY <2>3 DEF ListsInv
    <3>2. Label(n) = n
      BY <2>3, ShortName DEF Label
    <3>3. QED
      BY <3>1, <3>2
  <2>4. QED
    BY <2>1, <2>2, <2>3
<1>3. QED
  BY <1>1, <1>2, PTL


----------------------------------------------------------------------------
(* What the pre-commit hook has seen                                       *)

LEMMA FileIsName ==
    ASSUME GenTypeOK
    PROVE  /\ File \in FileNames
           /\ \A j \in 1..Len(Outputs(program)) :
                 /\ Outputs(program)[j] \in FileNames
                 /\ j # k => Outputs(program)[j] # File
<1>1. program = "caddy-gen" \/ program = "gateway-gen"
  BY DEF GenTypeOK, Programs
<1>2. k \in 1..Len(Outputs(program))
  BY DEF GenTypeOK
<1>3. CASE program = "caddy-gen"
  BY <1>2, <1>3 DEF File, Outputs, FileNames
<1>4. CASE program = "gateway-gen"
  BY <1>2, <1>4 DEF File, Outputs, FileNames
<1>5. QED
  BY <1>1, <1>3, <1>4

LEMMA HookUnchanged ==
    ASSUME HookInv, UNCHANGED <<run, disk>>
    PROVE  HookInv'
  BY DEF HookInv, Fresh, IsFresh, Writing, Site, File, Outputs, run

\* Until the first file is opened the disk is as it was.
LEMMA ReadingHookInv ==
    ASSUME GenInv, HookInv, Load \/ RewriteSite \/ AppendSite
    PROVE  HookInv'
<1>1. disk' = disk /\ before' = before /\ k' = k /\ disk = before /\ k = 1
  BY DEF HookInv, Load, RewriteSite, AppendSite
<1>2. \/ pc' \in {"load", "rewrite", "append"}
      \/ pc' = "generate" /\ i' = 1
  BY NextSiteInRange DEF GenInv, Load, RewriteSite, AppendSite, NextSite
<1>3. QED
  BY <1>1, <1>2 DEF HookInv

LEMMA GenerateHookInv ==
    ASSUME HookInv, Generate
    PROVE  HookInv'
<1>1. /\ UNCHANGED <<program, flag, i, k, parsed, changed, before, disk>>
      /\ pc = "generate" /\ (pc' = "truncate" \/ (pc' = "idle" /\ exit' = "error"))
  BY DEF Generate
<1>2. QED
  BY <1>1 DEF HookInv, Fresh, IsFresh, Writing, Site, File, Outputs

LEMMA TruncateHookInv ==
    ASSUME GenInv, HookInv, Truncate
    PROVE  HookInv'
<1>1. /\ UNCHANGED <<program, flag, i, k, parsed, changed, before>>
      /\ pc = "truncate" /\ pc' = "write" /\ old' = disk[Site][File]
  BY DEF Truncate
<1>2. Site \in Sites /\ File \in FileNames
  BY SiteIsSite, FileIsName DEF GenInv
<1> PICK home \in Sites, out \in FileNames : home = Site /\ out = File
  BY <1>2
<1>3. home = Site' /\ out = File'
  BY <1>1 DEF Site, File
<1>4. \A s \in Sites, f \in FileNames :
          disk'[s][f] = IF s = home /\ f = out THEN Output(TRUE) ELSE disk[s][f]
  <2>1. \A s \in Sites, f \in FileNames :
            disk'[s][f] = IF s = Site /\ f = File THEN Output(TRUE) ELSE disk[s][f]
    BY <1>2, DiskRead DEF GenInv, Truncate
  <2>2. QED
    BY <2>1
<1>5. ASSUME NEW s \in Sites, NEW f \in FileNames
      PROVE  \/ Writing(s, f)' /\ s = home /\ f = out
             \/ disk'[s][f] = disk[s][f] /\ (Fresh(s, f) => Fresh(s, f)')
  <2>1. CASE s = home /\ f = out
    BY <1>1, <1>3, <2>1 DEF Writing
  <2>2. CASE ~(s = home /\ f = out)
    BY <1>1, <1>4, <2>2 DEF Fresh, IsFresh
  <2>3. QED
    BY <2>1, <2>2
<1>6. \A s \in Sites, f \in FileNames : ~Writing(s, f)
  BY <1>1 DEF Writing
<1>7. \A s \in Sites, f \in FileNames :
          (Fresh(s, f) \/ disk[s][f] = before[s][f] \/ Writing(s, f))'
  BY <1>1, <1>5, <1>6 DEF HookInv
<1>8. ASSUME NEW m \in 1..(i - 1), NEW j \in 1..Len(Outputs(program))
      PROVE  Fresh(SiteOrder[m], Outputs(program)[j])'
                 \/ Writing(SiteOrder[m], Outputs(program)[j])'
  <2>1. SiteOrder[m] \in Sites /\ Outputs(program)[j] \in FileNames
    BY FileIsName DEF GenInv, GenTypeOK
  <2>2. PICK s \in Sites, f \in FileNames : s = SiteOrder[m] /\ f = Outputs(program)[j]
    BY <2>1
  <2>3. Fresh(s, f)
    BY <1>1, <1>6, <2>2 DEF HookInv
  <2>4. Fresh(s, f)' \/ Writing(s, f)'
    BY <1>5, <2>3
  <2>5. s = SiteOrder[m] /\ f = (Outputs(program)[j])'
    BY <1>1, <2>2
  <2>6. QED
    BY <2>4, <2>5
<1>9. ASSUME NEW j \in 1..(k - 1)
      PROVE  Fresh(Site, Outputs(program)[j])'
  <2>1. j \in 1..Len(Outputs(program)) /\ j # k
    BY DEF GenInv, GenTypeOK
  <2>2. PICK f \in FileNames : f = Outputs(program)[j] /\ f # out
    BY <2>1, FileIsName DEF GenInv
  <2>3. Fresh(home, f)
    BY <1>1, <2>2 DEF HookInv
  <2>4. Fresh(home, f)'
    BY <1>5, <2>2, <2>3
  <2>5. home = Site' /\ f = (Outputs(program)[j])'
    BY <1>1, <1>3, <2>2
  <2>6. QED
    BY <2>4, <2>5
<1>10. IsFresh(old, Site, File)' \/ old' = before'[Site'][File']
  <2>1. Fresh(home, out) \/ disk[home][out] = before[home][out]
    BY <1>1, <1>6 DEF HookInv
  <2>2. CASE Fresh(home, out)
    BY <1>1, <1>3, <2>2 DEF Fresh, IsFresh
  <2>3. CASE disk[home][out] = before[home][out]
    BY <1>1, <1>3, <2>3
  <2>4. QED
    BY <2>1, <2>2, <2>3
<1>11. QED
  BY <1>1, <1>7, <1>8, <1>9, <1>10 DEF HookInv

\* Writing a file makes it fresh, and no fresh file stale.
LEMMA WrittenFresh ==
    ASSUME GenInv, HookInv, Write,
           NEW s \in Sites, NEW f \in FileNames,
           Fresh(s, f) \/ (s = Site /\ f = File)
    PROVE  Fresh(s, f)'
<1> DEFINE file == [torn |-> FALSE, data |-> Data(File), from |-> parsed]
<1>1. /\ UNCHANGED <<program, flag, parsed, before>>
      /\ changed' = Reports(Data(File)) /\ pc = "write"
  BY DEF Write
<1>2. disk'[s][f] = IF s = Site /\ f = File THEN file ELSE disk[s][f]
  BY SiteIsSite, DiskRead DEF GenInv, Write, Output
<1>3. flag /\ ~changed' => ~changed /\ ~old.torn /\ old.data = Data(File)
  BY <1>1 DEF Reports
<1>4. CASE s = Site /\ f = File
  <2>1. disk'[s][f] = file /\ ~file.torn /\ file.from = parsed /\ file.data = Data(File)
    BY <1>2, <1>4
  <2>2. IsFresh(old, s, f) \/ old = before[s][f]
    BY <1>1, <1>4 DEF HookInv
  <2>3. flag /\ ~changed' => ~before[s][f].torn /\ before[s][f].data = Data(File)
    BY <1>3, <2>2 DEF IsFresh
  <2>4. QED
    BY <1>1, <2>1, <2>3 DEF Fresh, IsFresh
<1>5. CASE ~(s = Site /\ f = File)
  <2>1. disk'[s][f] = disk[s][f] /\ Fresh(s, f)
    BY <1>2, <1>5
  <2>2. QED
    BY <1>1, <1>3, <2>1 DEF Fresh, IsFresh
<1>6. QED
  BY <1>4, <1>5

LEMMA WriteHookInv ==
    ASSUME GenInv, HookInv, Write
    PROVE  HookInv'
<1>1. UNCHANGED <<program, flag, parsed, before>> /\ pc = "write"
  BY DEF Write
<1>2. Site \in Sites /\ File \in FileNames
  BY SiteIsSite, FileIsName DEF GenInv
<1>3. i \in 1..Len(SiteOrder) /\ k \in 1..Len(Outputs(program))
  BY DEF GenInv, GenTypeOK
<1>4. ASSUME NEW s \in Sites, NEW f \in FileNames
      PROVE  Fresh(s, f)' \/ disk'[s][f] = before'[s][f]
  <2>1. CASE Fresh(s, f) \/ (s = Site /\ f = File)
    BY <2>1, WrittenFresh
  <2>2. CASE ~Fresh(s, f) /\ ~(s = Site /\ f = File)
    <3>1. disk[s][f] = before[s][f]
      BY <1>1, <2>2 DEF HookInv, Writing
    <3>2. disk'[s][f] = disk[s][f]
      BY <1>2, <2>2, DiskRead DEF GenInv, Write, Output
    <3>3. QED
      BY <1>1, <3>1, <3>2
  <2>3. QED
    BY <2>1, <2>2
<1>5. ASSUME NEW m \in 1..(i - 1), NEW j \in 1..Len(Outputs(program))
      PROVE  Fresh(SiteOrder[m], Outputs(program)[j])'
  <2>1. PICK s \in Sites, f \in FileNames : s = SiteOrder[m] /\ f = Outputs(program)[j]
    BY FileIsName DEF GenInv, GenTypeOK
  <2>2. Fresh(s, f) \/ (s = Site /\ f = File)
    BY <1>1, <2>1 DEF HookInv, Writing
  <2>3. Fresh(s, f)'
    BY <2>2, WrittenFresh
  <2>4. s = SiteOrder[m] /\ f = (Outputs(program)[j])'
    BY <1>1, <2>1
  <2>5. QED
    BY <2>3, <2>4
<1> PICK home \in Sites : home = Site
  BY <1>2
<1>6. ASSUME NEW j \in 1..k
      PROVE  Fresh(home, Outputs(program)[j])'
  <2>1. PICK f \in FileNames : f = Outputs(program)[j]
    BY <1>3, FileIsName DEF GenInv
  <2>2. Fresh(home, f) \/ f = File
    <3>1. CASE j = k
      BY <2>1, <3>1 DEF File
    <3>2. CASE j # k
      <4>1. j \in 1..(k - 1)
        BY <1>3, <3>2
      <4>2. QED
        BY <1>1, <2>1, <4>1 DEF HookInv
    <3>3. QED
      BY <3>1, <3>2
  <2>3. Fresh(home, f)'
    BY <2>2, WrittenFresh
  <2>4. f = (Outputs(program)[j])'
    BY <1>1, <2>1
  <2>5. QED
    BY <2>3, <2>4
<1>7. ASSUME k = Len(Outputs(program)), NEW m \in 1..i, NEW j \in 1..Len(Outputs(program))
      PROVE  Fresh(SiteOrder[m], Outputs(program)[j])'
  <2>1. CASE m = i
    <3>1. Fresh(home, Outputs(program)[j])'
      BY <1>6, <1>7
    <3>2. home = SiteOrder[m]
      BY <2>1 DEF Site
    <3>3. QED
      BY <3>1, <3>2
  <2>2. CASE m # i
    <3>1. m \in 1..(i - 1)
      BY <1>3, <2>2
    <3>2. QED
      BY <1>5, <3>1
  <2>3. QED
    BY <2>1, <2>2
<1>8. Outputs(program') = Outputs(program)
  BY <1>1
<1>9. CASE k' = k + 1 /\ pc' = "truncate" /\ i' = i
  <2>1. home = Site' /\ 1..(k' - 1) = 1..k
    BY <1>3, <1>9 DEF Site
  <2>2. \A j \in 1..(k' - 1) : Fresh(Site, Outputs(program)[j])'
    BY <1>6, <2>1
  <2>3. \A m \in 1..(i' - 1), j \in 1..Len(Outputs(program')) :
            Fresh(SiteOrder[m], Outputs(program)[j])'
    BY <1>5, <1>8, <1>9
  <2>4. QED
    BY <1>4, <1>9, <2>2, <2>3 DEF HookInv
<1>10. CASE k = Len(Outputs(program)) /\ k' = 1 /\ i' = i + 1 /\ pc' = "generate"
  <2>1. 1..(i' - 1) = 1..i /\ 1..(k' - 1) = {}
    BY <1>3, <1>10
  <2>2. \A m \in 1..(i' - 1), j \in 1..Len(Outputs(program')) :
            Fresh(SiteOrder[m], Outputs(program)[j])'
    BY <1>7, <1>8, <1>10, <2>1
  <2>3. QED
    BY <1>4, <1>10, <2>1, <2>2 DEF HookInv
<1>11. CASE /\ k = Len(Outputs(program)) /\ i = Len(SiteOrder)
            /\ pc' = "idle" /\ exit' = IF changed' THEN "changed" ELSE "clean"
  <2>1. \A m \in 1..Len(SiteOrder), j \in 1..Len(Outputs(program')) :
            Fresh(SiteOrder[m], Outputs(program)[j])'
    BY <1>7, <1>8, <1>11
  <2>2. exit' = "clean" => ~changed'
    BY <1>11
  <2>3. QED
    BY <1>11, <2>1, <2>2 DEF HookInv
<1>12. QED
  BY <1>9, <1>10, <1>11 DEF Write, LastSite

LEMMA NextHookInv == GenInv /\ HookInv /\ [Next]_vars => HookInv'
<1> SUFFICES ASSUME GenInv, HookInv, [Next]_vars PROVE HookInv'
  OBVIOUS
<1>1. CASE (\E s \in Sites : Edit(s) \/ Reload(s)) \/ UNCHANGED vars
  BY <1>1, HookUnchanged DEF Edit, Reload, vars
<1>2. ASSUME NEW p \in Programs, NEW f \in BOOLEAN, Start(p, f) PROVE HookInv'
  BY <1>2 DEF HookInv, Start, NoMemory
<1>3. CASE Kill
  BY <1>3 DEF HookInv, Kill
<1>4. QED
  BY <1>1, <1>2, <1>3, ReadingHookInv, GenerateHookInv, TruncateHookInv, WriteHookInv DEF Next

\* For any sites, names and files: a run with --fail-on-change that ends well
\* found every output of every site on disk with the text that it wrote again.
THEOREM CleanHookFresh == Spec => []CleanHookMeansFresh
<1>1. Init => HookInv
  BY DEF Init, HookInv
<1>2. Spec => []HookInv
  BY <1>1, NextHookInv, GenInvariant, PTL DEF Spec
<1>3. HookInv => CleanHookMeansFresh
  <2> SUFFICES ASSUME HookInv, exit = "clean", flag, pc = "idle",
                      NEW s \in Range(SiteOrder), NEW f \in Range(Outputs(program))
               PROVE  /\ ~before[s][f].torn
                      /\ disk[s][f].data = before[s][f].data
                      /\ disk[s][f].from = parsed
    BY DEF CleanHookMeansFresh
  <2>1. PICK m \in 1..Len(SiteOrder) : s = SiteOrder[m]
    BY DEF Range
  <2>2. PICK j \in 1..Len(Outputs(program)) : f = Outputs(program)[j]
    BY DEF Range, Outputs
  <2>3. Fresh(s, f) /\ ~changed
    BY <2>1, <2>2 DEF HookInv
  <2>4. QED
    BY <2>3 DEF Fresh, IsFresh
<1>4. QED
  BY <1>2, <1>3, PTL
=============================================================================
