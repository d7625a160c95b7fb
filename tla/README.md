# TLA+ models of mirror-docker-unified

This directory holds TLA+ specifications of the programs in this repository, the
TLC configurations that check them on small instances, and TLAPS proofs of the
theorems that hold for every value of the parameters. Every definition is
translated from the source; `PROJECT.json` ("map") names the lines.

    tlc -workers 2 -config MCGoQueue_safety.cfg MCGoQueue   # one run
    tlapm GoQueue_proofs.tla                                # one proof module

## The system

The repository deploys the SJTUG mirror on two hosts, siyuan and zhiyuan. It has
little code of its own per part; the parts are separate processes that interact
through sockets, files, exit codes and generated configuration.

| Part | State it keeps | Operations | Hard behaviour | What makes it correct |
|---|---|---|---|---|
| `git-backend/go-queue.go` | ID counter, largest admitted ID, one channel pair per connection, one goroutine per slot | accept, serve, hand over to a worker, report a position, grant, close | three goroutines per connection and unbuffered channels in every interleaving, a compare-and-swap loop, clients that vanish | a grant always has a slot; a slot always comes back; positions only fall; nobody is forgotten |
| `git-backend/queue-wrapper.sh`, `cmd.sh`, the container | file descriptor 3, a temporary file, the pack-objects child; three critical services | connect, buffer, read a line, pack, exit; service death, container restart | killed hooks, dying services, restart with a fresh queue | `pack-objects` only runs with a slot; no request hangs |
| `lug/worker-script/rsync.sh`, `rsync-ssh.sh` | attempt counter, exit code, known_hosts, the mirrored tree | refresh host keys, rsync, back off, give up; lug's outer retry | nested retries, a sourced script under `set -e`, kills, key rotation | transient failures are retried; a success is a complete copy; waits are bounded |
| `lug/worker-script/git.sh` | a bare repository and its two remotes | clone, configure, fetch, prune, delete refs, push | a kill between any two commands, also within a clone | the next runs follow the source again; the push never publishes half a fetch |
| `lug/worker-script/ubuntu-debian-rsync.sh` | packages and indices on disk | two rsync stages | readers between the stages, a failed stage | an index never names a missing package |
| `caddy-gen` | generated Caddyfiles and two lists per site, rewritten in place | read, merge in place, rewrite, split into routes, write | routes of one site that refer to the other; nested names over two schemes; runs killed between files, hosts that load at any moment | every repository is answered by its owner, screened, and counted exactly when it is downloaded; no redirect loops; a clean hook means fresh files |
| `gateway-gen` | one generated file per site | read, render, write | agreement with caddy-gen | a request that ends at rsync-gateway has an endpoint there |
| `monitor` collectors | a lock file, two published files | scan, publish; remote probes by timers | overlapping and killed runs, time taken before the lock | the status file tells of the sizes beside it |
| `monitor` rendering and alerts | generated Prometheus files | render, publish, fire | paths that two programs must agree on, several files | every scraped and probed path reaches its exporter, for the monitor only |
| `vector` | Vector's own disk buffer | parse and classify a log line, ship it | a sink that is down | - |
| `mirrorz`, object-storage scripts, other wrappers of `lug/worker-script` | none | one conversion or one external command | - | - |
| `rsyncd`, `caddy`, `mirror-intel`, `rsync-gateway` configuration, `scripts`, `nix`, compose files | none | data for programs outside the repository, and builds | - | - |

Interactions: `cmd.sh` starts go-queue, spawn-fcgi and nginx; git starts
`queue-wrapper.sh` as `uploadpack.packObjectsHook`, which talks to go-queue over
TCP; lug (an external program) starts the worker scripts with `LUG_*` variables
from `config.<site>.yaml` and reads their exit codes; caddy-gen, gateway-gen and
the monitor's renderers read the same two files.

## Modules

| Module | Models |
|---|---|
| `Admission` | what go-queue promises: clients arrive, are admitted while a slot is free, leave |
| `GoQueue` | go-queue.go: main loop, waiter, reader, reporter and worker goroutines, the sockets |
| `GoQueue_proofs` | type correctness, the inductive invariant, the refinement of `Admission` |
| `GitBackend` | `GoQueue` composed with queue-wrapper.sh, the FastCGI limit, the services and the restart of the container |
| `GitBackend_proofs` | the container's inductive invariant, type correctness and its two safety theorems |
| `RsyncWorker` | rsync-ssh.sh and rsync.sh for one repository, lug's retry around them, host keys |
| `RsyncWorker_proofs` | the inductive invariant of a sync and five theorems |
| `CaddyRepos` | one repository for caddy-gen: `rewrite_config`, `dict_to_repo`, the classes of repos.py and how their handlers answer (operators) |
| `CaddyRoutes` | the merge of the sites, `gen_repos`, `common`, `handler_order`, gateway-gen's endpoints (operators) |
| `CaddyRequests` | a request on its way through the generated Caddyfiles and the redirects between the sites |
| `CaddyRoutes_proofs` | lemmas about those operators: least elements, prefixes, the longest route, the order of the handlers, the merge |
| `CaddyRequests_proofs` | the inductive invariants of a request and six theorems |
| `CaddyGen` | caddy-gen.py and gateway-gen.py as programs, with edits, kills and reloads |
| `CaddyGen_proofs` | the inductive invariants of the generators and five theorems |
| `RepoSizeCollector` | mirror-repo-size-collector.py: overlapping runs, the lock, the two files, node_exporter |
| `RepoSizeCollector_proofs` | the inductive invariant of the collectors and four theorems |
| `GitMirror` | git.sh on one repository: clone, fetch, delete, push, with kills between the writes |
| `GitMirror_proofs` | the inductive invariant of git.sh and two theorems |
| `MC*` | the same specifications for TLC: symmetry and the sets used in the `.cfg` files |

### GoQueue

`idCounter`, `currentID`, `closed` and `worker` are the code's variables,
channels and workers; `waiter` and `reporter` are program counters of the two
goroutines with more than one step. A `select` with two ready branches is two
enabled actions, so the run in which a client that already hung up is still
handed to a worker is included. Channels are unbuffered: a send and its receive
are one step (`Handoff`). `updateCurrentID` is split at its load and its
compare-and-swap. A write blocks while `SocketRoom` lines are unread, and is
lost when the client is gone. Each connection is used once; a client that
connects again is another element of `Clients`.

`MaxID` stands for the largest unsigned 64-bit ID. At the limit
`generateID` ends the process (`IDOverflow`). `shown` is the last line a client
read (`MaxID + 1` before the first one).

### GitBackend

A request takes one of `Threads` FastCGI processes (`multiwatch -f`), connects or
is refused (exit 75), buffers its input, reads lines until the 0, runs
`pack-objects` and closes descriptor 3. go-queue, spawn-fcgi and nginx can die at
any moment; `wait -n` ends the container and the restart policy starts it again
with everything reset. `KillWrapper` ends a hook alone: the script traps only
`EXIT`, so `pack-objects` is left running. When go-queue dies `worker` keeps the
last value: the slots as they were given out, which is what the surviving hooks
rely on until the container ends.

### RsyncWorker

One repository, from either script (`entry`). Exit codes are the real numbers.
`known`, `tmp` and `scanned` say which key of the host a file holds: none at all
(`empty`), only other hosts' lines (`others`), a `stale` or the `current` one.
Under ssh, rsync reaches the host only with a current key (`BatchMode`).
`mirror` says how much of what the upstream had at the start of the sync is on
disk. `rsync-ssh.sh` runs under `set -e` and *sources* rsync.sh, so a failing
rsync leaves the script at once there (`ErrExit`). (`rsync_password.sh` runs
rsync.sh as a child, which does not inherit `set -e`; it behaves as `entry =
"rsync"`.) The source always names a host, so the script's guard for an empty
host is always true. The waits are not steps of a clock: `Delay` is the script's
arithmetic, with words that wrap, and is compared with the backoff it stands
for. Two repositories that both refreshed known_hosts could disturb each other's
`known_hosts.tmp`; the deployed configuration has one repository behind
`rsync-ssh.sh`, and one is modelled.

### CaddyRepos, CaddyRoutes and CaddyRequests

The first two hold no state: they translate what the generator computes. An
entry of `config.<site>.yaml` is a record with every key the generator reads; a
name and a path are sequences of components, so `a`, `a/` and `a/b/f` are
`<<"a">>`, `<<"a", "">>` and `<<"a", "b", "f">>`. A handler is not text but what
it answers. `Merged` is the merge as one definition; `CaddyGen` has it step by
step. Caddy's part is external: the longest path wins, `order` options apply one
after the other, a bare host name over http is sent to https.

`CaddyRequests` starts from a pair of configurations and a first request. `Connect`
finds the site block, then the request passes the directives in the order of
`Pipeline` (firewall, quota, cerberus, `redir`, `encode`, `handle`), and `Follow`
is the client that follows a redirect, to the other site too. A client is what the
modules know of it: banned, out of quota, blocked, a browser with or without
clearance, one that does not use GET, the monitor. `charged` says that the quota
module counts what a response sends; by the generator's README (lines 65-66) only
the bytes of a 2xx body count, so a hop that ends in a redirect costs nothing, and
`Follow` resets it.

`RequestsAssumption` says what names, requests and entries are: components come
from one set `Words`; a name is not empty, has no empty component and does not
start like a route that every site has; the path of a request starts with a slash,
so it has a component; an entry has the keys that its mode needs (`WellFormed`:
without `target` or `proxy_to` the generator ends with a `KeyError`); no repository
is proxied by hand to the frontend, to lug or to the rsync-gateway. The deployed
files satisfy all of it.

Two preconditions name configurations that are left out: `Generates`
(those that raise `KeyError`, see below) and `NestedAlike` (an outer and an inner
repository with different `no_redir_http` or `unified`; no deployed pair is such).
Three deployed entries redirect to another name at a site. `OwnerAnswers` does not
speak of them (`Aliased`): such a request goes on as one for the other name.

### CaddyGen

`site_configs`, `locals` (`local_top_level_repos`), `rewritten`, `old` and
`changed` are the code's variables. The three loops over the sites are steps of
`Load`, `RewriteSite` and `AppendSite`; then `Generate` computes a site's text,
which is where an exception ends the run, and every file is read and opened with
"w" (`Truncate`) and written (`Write`). `Edit` changes a site's configuration at
any time and `Kill` ends the run at any step. `Reload` lets a host load its
Caddyfile whenever it likes: `caddy-reload` in the Makefile has no prerequisite,
and the container restarts by itself, so a load may fall into a run, or follow a
killed or failed one, or one of gateway-gen. A torn file holds nothing or a
beginning of its text (`Output(TRUE)`). Caddy refuses it, and keeps what it has or,
when it was starting, has nothing; or the text happens to end after the block of
the first base, which is then served (`Loaded`). gateway-gen has the same steps
without the merge. A file carries the reading it was made from (`from`), for the
properties.

### RepoSizeCollector

One process per run of the collector, from the timer or by hand. `Start` takes
the time, `Flock` waits, `RepositoryPaths` and `Du` scan (a size is the time at
which it was measured), then each `atomic_write` is the writing of the temporary
file and the `os.replace`. Everything can fail: the two halves of the `try` go
to the `finally`, an error in the `finally` ends the process, and `Kill` is also
the service's 24 hours. `turn` numbers the attempts in the order of the lock.
node_exporter reads the status file first (`ScrapeStatus`), the sizes later
(`ScrapeSizes`). Directories and the installed list change between any two
steps.

### GitMirror

References are versions of namespaces: `heads` and `tags` are fetched, `remotes`
and `pull` are deleted, `other` is whatever else a source has. `git clone`
is three writes (`HEAD`, the configuration, the references), a fetch and a push
go namespace by namespace, and the source moves at any time. `Fail` and
`CloneFails` are commands that fail (a failed clone removes what it made);
`Kill` ends everything and may leave the lock file of what was being written.
The `|| true` after `--unset-all` is `AfterUnset`: when it fails the old refspec
stays, and the next command fails for the same reason.

## Runs

| Run | Instance | Shows |
|---|---|---|
| `goqueue_safety` | 3 connections, 2 slots, 3 IDs, 1 line of buffer; 501,132 states | a grant has a slot (`GrantHoldsSlot`), the server implements `Admission`, positions only fall and cover the clients ahead, `currentID` never falls |
| `goqueue_liveness` | 3 connections, 1 slot, 2 IDs; 109,564 states | a client that hangs up leaves no goroutine and no slot behind; whoever waits is served |
| `gitbackend_safety` | 3 fetches, 2 FastCGI processes, 1 slot, 2 IDs, two other services; 210,864 states | supervised `pack-objects` processes hold slots through crashes and restarts; IDs only ascend, and go-queue and its container end at their limit |
| `gitbackend_liveness` | 2 fetches, 1 slot, one other service | no request waits for ever |
| `gitbackend_killed` | 2 fetches, 1 slot | violated: a killed hook frees the slot of a running `pack-objects` |
| `rsync` | retries 6, base 30 s, cap 600 s, 2 outer retries; 10,302 states | complete copies, retries, bounded waits, known_hosts, termination |
| `rsync_ssh` | default retries 4 | violated: behind rsync-ssh.sh a transient failure is not retried |
| `caddy_requests` | 2 sites; 17 by 17 entries of one name, nested names, a git repository; 8 kinds of clients; 203,824 states | the owner's answer for every request, downloads and only downloads counted, screening first, http only where asked, scraped paths, and an end of redirects |
| `caddy_rollout` | 2 sites, 4 texts of a configuration, 2 runs, 1 edit, loads at any moment; 880,800 states | the merge done in place, no circle among hosts of one reading, the size collector's list, what a passing hook means |
| `size_collector` | 2 processes, 2 repositories, 3 attempts, 1 change; 478,374 states | what a scraped status vouches for, whole scans only, no overstated time, waiting ends |
| `git_mirror` | 2 changes of the source, 3 kills or failures; 107,865 states | only whole fetches are pushed, and the next runs recover unless what is left has a lock file or no remote |
| `git_partial_clone` | 1 change of the source, 1 kill or failure | violated: a clone killed between `HEAD` and its remote makes every later run fail |

Bounds. Three connections are the smallest number at which two reporters race for
`currentID` while a third waits and is overtaken; two workers the smallest at
which clients are admitted out of order; one line of buffer makes every write
block at some point. In the liveness run and in the container, three connections
with two IDs reach the overflow. Six rsync retries with the default base reach
the cap (the default of four never does). `WordBits` is 16 because TLC's integers
are small: with the checked parameters no shift wraps, which is
`RsyncBackoffAssumption`; in bash, with 64 bits and the default base of 30 s, it
holds for up to 59 attempts. The liveness runs use no symmetry.

Two sites are the deployed number, and a redirect leads from one to the other.
`caddy_requests` enumerates every serve mode on both sides of a name, with the
options that change a route, an inner name below four kinds of outer ones, a
redirect to another name at a site, and every path of the monitor. In
`caddy_rollout` one edit between two runs is enough for a repository to move from
one site to the other while one host has reloaded and the other has not; a shared
`serve_mode: proxy` repository (line 471) makes a run end with an exception, at
the first or at the second site. In `size_collector` three attempts by two
processes let one wait behind another, overtake it, and find its files; two ticks
of the clock tell a time taken before the wait from one taken after. Three faults
in `git_mirror` are a kill in a clone, one in the run after it and one in a push;
with more the same steps recur.

Fairness. The Go scheduler runs a runnable goroutine eventually (weak fairness of
each goroutine's steps). A `select` that is reached again and again, through the
report timer, with `wakeUp` or `closed` ready picks it at some time, because Go
chooses among ready branches at random (strong fairness of leaving the loop). The
timer itself is not fair: nothing depends on a position being printed. Clients
read the lines they are sent, and end once they were admitted or the server is
gone (queue-wrapper.sh: a connection that ends before the 0 is exit 75); a client
that waits may wait for ever. In the container the hook's own steps, the end of
`pack-objects` and the restart are fair; deaths and signals are not. `rsync.sh`
runs rsync with `--timeout`, and its other commands end.

Caddy answers every request and a client follows every redirect (weak fairness
of `CaddyRequests`' `Next`, which is deterministic). Generators, edits and
reloads are not fair: `CaddyGen` has safety properties only. A collector's steps
are fair (du ends, and the kernel gives a free lock to a waiter: with a bounded
number of runs nobody can be overtaken for ever); starts, kills, scrapes and
changes are not. lug starts git.sh again when its interval is over, and a
command that neither fails nor is killed ends (the push has a timeout); kills
and failures are bounded by `MaxFaults`; `SyncRecovers` speaks of what happens
until the next one.

`CHECK_DEADLOCK FALSE` in `caddy_requests` and `caddy_rollout`: an answered
request and a used up number of runs are ends.

### What the violated runs mean

- `gitbackend_killed`: queue-wrapper.sh keeps descriptor 3 so that "this slot
  remains active until pack-objects exits" (lines 48-49). That holds while the
  wrapper lives. When a signal ends the wrapper only, bash does not pass it on,
  the descriptor closes, and one more `pack-objects` than `--queue-size` can run.
- `rsync_ssh`: the retry ladder, `ignore_vanish`, the clean-up of the temporary
  file and the `chmod` of rsync.sh are not reached after a failure when
  rsync-ssh.sh sources it, since `set -e` is still in force. lug's outer retry
  still applies.
- `git_partial_clone`: git.sh says that a directory with a partial or failed clone
  is removed and cloned again, "so the worker self-heals instead of failing
  forever" (lines 5-7). It looks for `HEAD` only, which `git clone` writes first.
  git removes an unfinished clone when it fails or gets a signal it can catch; when
  it is killed otherwise before the remote is configured, `HEAD` stays, and every
  later run ends at `git remote set-url origin`. `SyncRecovers` is what does hold:
  from every other state (no `HEAD`; a clone with its remote but without
  references; any part of a fetch or a push) the next runs succeed.

## Proofs

All proofs are checked by TLAPS (SMT, Zenon, and LS4 for the temporal steps).
The assumptions are those the modules name: finite sets of clients and workers,
at least one worker, one ID and one line of buffer; numbers are naturals.

`GoQueue_proofs`. `QueueInv` is inductive: `TypeOK`, `PendingInv` (a connection
waits once for the main loop and nothing is known of it before), `SlotInv` (a
client that was handed over and is not closed has a worker; only such a client is
woken; a channel closes only after the peer is gone) and `ReporterInv` (only a
reporter that printed the grant told anyone 0). `GrantHoldsSlot` alone is not
inductive: between the hand-over and the grant it says nothing. From `QueueInv`
follow `GrantSafe`, `AdmissionLimited` (the active clients are among those held,
which are at most as many as the workers) and `CurrentIDMonotone` (the swap only
succeeds from a value below its own ID). `IDsGivenInOrder` rests on `IDInv`: the
counter has passed every ID, and no two connections share one. So the IDs of the
clients ahead are distinct numbers above `currentID` and below one's own, which
maps those clients one to one into an interval: `PositionsCoverQueue`. `LinesInv`
is inductive relative to `QueueInv`: every line sent is at least the position the
client would be told now, which `currentID` can only lower; `PositionsOrdered`
follows. `GoQueueImplementsAdmission` maps `peer` and what was told to
`Admission`'s status: `Connect` is `Arrive`, `Hangup` is `Leave`, `PrintGrant` is
`Admit` (the client holds a worker and is not active yet, so a slot is free), and
every other step stutters.

`GitBackend_proofs`. `BackendInv` adds `RequestInv` to `QueueInv`: a hook that has
not ended keeps its connection open, and one that packs has read 0. Steps of the
container that contain a step of `GoQueue` use its lemmas; a restart
establishes everything anew. `BackendTypeCorrect`, `PackSafe` and `PacksBounded`
follow.

`RsyncWorker_proofs`. `ScriptInv` ties the attempts to the exit code and the copy
to a 0; from it follow `RsyncTypeCorrect`, `RetriesKept`, `SuccessSynced` and
`KnownHostsSafe` (what `mv` installs always holds a key). `DelaysBounded`
compares the script's shift with the backoff it stands for: one lemma takes the
doubling of the base as a function of the attempts, the other that a number below
the word is not changed by the wrap. It needs `RsyncBackoffAssumption` (above).

`CaddyRoutes_proofs` has no state. The generator's choices are `CHOOSE`s of a
longest route and of a first site; `LeastNatural` gives them a value, from the
well-foundedness of `<`, so nothing needs an induction of its own. `PipelineOrder`
computes where the three `order` options put the handlers, `MergedIs` says where an
entry of a merged site comes from, `HandleRequestIs` which of three groups of
routes answers a path. `RoutesApart` is why a repository never takes a path of
the routes that every site has: their first components differ.

`CaddyRequests_proofs`. `RequestInv` is inductive: `HopInv` (in a site block the
host is the base, or a served subdomain over https), `PassedInv` (who is past
which handler: nobody banned past the firewall, `charged` exactly what the quota's
matcher says past the quota, and past cerberus only whom it lets through) and
`AnswerInv` (which stage answers how). None of the properties is inductive: they
speak of the answer, and an answer is known only with the handlers that passed
the request on. The redirects need that every target is a site or outside and
every path is made of words again (`EntriesWellFormed`, `FollowableIs`).
`DownloadsCounted` is the agreement of two definitions of gen_repos: a body of
a repository comes from the longest route, which is in the quota's list when it
serves directly, and every other body from a path that no route of the list
covers. `PlainHTTP` holds because an entry that a site serves for another one has
no option of its own (`RewriteConfigOptions`). `Screened` follows from `PassedInv`
and the order of the handlers. `MonitorReached` adds `MonitorInv`: a scraped path
stays what it is, because only the redirect to https can answer it before its
exporter does. All of this holds for any number of sites, without `NestedAlike`.

`OwnerReached` is about two sites and does need `NestedAlike`. It says
`OwnersClear => OwnerAnswers`; `OwnersClear` asks of the names above the
requested path that a shared entry is served by the site that shares it, and not
through `unified: proxy` (whose answer names the owner as an upstream), that
nothing is served inside a repository with a subdomain, and that what such a
repository hides does not depend on its name. The deployed files satisfy it; the
runs also check configurations that do not. The argument has three parts.
`OwnerIs`: an entry in a merged file is the site's own, or stands for the entry of
the other site (`RewrittenStandsFor`: a redirect to it when that one serves files
or a service of its own, the same handler otherwise), so both sites agree on which
names are served. `DeepestAnswers`: past the redirect of the bare name the routes
below which a path lies are exactly the asked names, and the longest over http is
the longest over https or there is none, which is where `NestedAlike` is used.
`TrackInv` is inductive relative to `RequestInv`: the request is at the asked site
with the asked path, possibly with its final slash, or at the site that owns the
deepest name, over https. There `SentOwns` ends the walk: a name that this site
only shares would be the asked site's own, no deeper than the one followed, and
so the one that this site owns. The two forms of a handler, for the base host and
for the subdomain, are compared in `SubdomainAsRepo`.

`CaddyGen_proofs`. Assumed: a non-empty order of sites, names that are non-empty
sequences of strings, texts that are functions of the names, and that no
repository is configured to redirect to its own name at a site
(`RedirectAssumption`; true of the deployed files, and without it a configuration
alone can redirect in a circle). `GenInv` adds to the types what each loop has
done so far (`LoopInv`: before the loops the lists are what was read, during the
first one `rewritten` holds what the first sharing site so far makes of a name,
during the second one every list is either untouched or done) and that every
Caddyfile, loaded or on disk, whole or torn, has its text from the merge of one
reading (`FilesInv`), which is why it does not matter when a host loads it.
`NamespaceUnified` is what `LoopInv` says at the end of each loop. `RedirectsEnd`
is an argument about the files, for any number of sites: a host that sends a name
to another site either has such an entry of its own, which the assumption
excludes, or lacks the name, and then the target is the first site that shares
it; that site has the name and serves it itself, so among hosts of the same
reading it is one that sends nothing on. Two more invariants are inductive
relative to `GenInv`. `ListsInv` keeps the reading beside what was made of it: a
list holds only first components of names that its site shares, the labels of a
site hold the `Label` of every name read of it; `ListsLocal` follows. `HookInv`
follows an output through a run: before its turn it is as it was, while it is
written `old_content` is what it was, and after it is fresh, which under
`--fail-on-change` and with nothing reported means that its text did not change;
it also holds when a site is named twice. `CleanHookFresh` follows.

`RepoSizeCollector_proofs`. `CollectorInv` adds `ProcInv` (what a process has
measured is not older than its time and belongs to what it found) and `TurnInv`
(the holder of the lock has the latest turn, and no file of that turn exists
that it has not written) to the types, and asks `Vouched` of the status file and
of what node_exporter has already read, because the sizes may be replaced in
between. The four properties follow.

`GitMirror_proofs`. `GitInv` says what each command may rely on: there is a
repository after the first step, the refspec is empty or locked after
`--unset-all` and exactly heads and tags at the fetch, and after it both have
one version until the end.

Only model-checked: the liveness properties, which need fairness and `ENABLED`,
and `OwnerAnswers` for the configurations outside `OwnersClear`.

## Limits of what is modelled

- `PositionCoversQueue` bounds the reported position from below only: the code
  counts IDs, so a client that gave up still counts until it is overtaken.
- git, nginx, multiwatch, lug, rsync and ssh are external: what they may do is
  what the code here relies on.
- Log output, the wording of messages and the time between two steps are left
  out; timers fire at any moment.
- The layout of the generated text (`Node.__str__`), headers, CORS, logging, the
  global options and the local development site (`is_local`) are left out of the
  Caddy modules.
- One Caddyfile, one repository, one host: what several share is only modelled
  where it is shared in the code (redirects, the lock, the two published files).

### Seen while modelling

These are not in the list of findings: no document, comment or test says otherwise
of the deployed configuration. A change of the configuration may meet them.

- `dict_to_repo` passes `strip_prefix` inverted (caddy-gen.py 210-218): a proxy
  without the key is stripped, one with it is not. `unified: proxy` gives
  `strip_prefix: False`, so the name is stripped on the way to the other site.
- A `serve_mode: proxy` repository that is shared loses its mode at the other
  site (line 471) and the run ends with `KeyError: 'path'` (`Generates`).
- A repository whose path does not end in its name is dropped at its own site
  only; the other site still redirects to it. The test is on the end of the
  string, not on components.
- The quota matches `/outer/*`: a redirecting repository below a direct one is
  refused with 429 once the quota is used up, while the generator's README lists
  redirect-only repositories as not controlled. (Its redirects are not counted.)
  None is deployed.
- Without `NestedAlike` the outer of two nested repositories takes the paths of
  the inner one over http, or at the other site.
- `no_redir_http` at a local site raises a `TypeError` (line 252) where the
  message says it is ignored.
- The collector's published time can go backwards when waiting runs overtake
  each other; it is never too late. A killed run leaves the status of the one
  before. A directory that cannot be looked at is left out silently.
- A lock file that a killed git leaves makes every later run of git.sh fail, like
  the clone without a remote above (`Stuck`); the comment there speaks of clones
  only. Namespaces other than heads, tags, remotes and pull stay as they were
  cloned, and are pushed.
- The local list has `git`, for the size of all git repositories together, while
  the csv has `/git/...` for each of them: `git` is no label of Vector's
  (`LocalListsAreLocal` excepts it). Vector takes one component after `/git/`, so
  the csv's labels of deeper names, `/git/lean4-packages/...`, match no request,
  and those count as `_other`.
- Hosts of two readings may redirect a repository that moves in a circle until
  both have loaded the newer one; `NoRedirectLoop` speaks of one reading.
- The hook of `--fail-on-change` rewrites what it compares: a failed hook passes
  the second time, with the fresh files in the work tree.

## Not modelled

- `ubuntu-debian-rsync.sh`: two runs of an external rsync with different
  filters. Whether an index ever names a missing package depends on the order in
  which rsync replaces files and on the upstream, not on a state of the script.
- The renderers of the monitor beyond the paths: straight text, written one file
  at a time by one run by hand; the alert rules are evaluated by Prometheus.
- `mirrorz.py`, object-storage scripts and other wrappers, maintenance scripts,
  integration tests: no state of their own between runs.
- `vector.yaml`: a stateless program for Vector, whose buffer is external.
- The iSCSI and g-storage collectors: one pass of shell commands, published by a
  rename.
- The git scripts of zhiyuan: the checkout in front of a push whose failure is
  ignored.
- Compose files, images, `nix` and static configuration: descriptions without
  behaviour.
