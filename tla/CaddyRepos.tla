----------------------------- MODULE CaddyRepos -----------------------------
(***************************************************************************)
(* One repository of a site configuration as caddy-gen sees it: what       *)
(* rewrite_config makes of it for the other site, the Repo object that     *)
(* dict_to_repo builds, and how the handler of that object answers.        *)
(*                                                                         *)
(* A name or a path is a sequence of components; the empty last component  *)
(* stands for a trailing slash.  An entry has every key; an absent one     *)
(* holds what dict.get would give, or "absent".                            *)
(***************************************************************************)
EXTENDS Naturals, Sequences

CONSTANTS
    DotNames,     \* file names that start with a dot
    ListedName    \* the file name a show_hidden string names

NoTarget == [host |-> "absent", path |-> <<>>]

\* A repository without any optional key.
Entry(mode) ==
    [serve_mode |-> mode, unified |-> "", path |-> "absent",
     target |-> NoTarget, proxy_to |-> "absent", strip_prefix |-> FALSE,
     show_hidden |-> "no", no_redir_http |-> FALSE,
     no_direct_serve |-> FALSE, subdomain |-> FALSE]

NoEntry == Entry("none")

\* "target" of a rewritten entry: https://BASES[site][0]/name.
HomeTarget(name, site) == [host |-> site, path |-> name]

\* Mutant: an rsync-gateway is taken for a service both sites run.
RewriteConfigShared(name, e, site) ==
    CASE e.unified = "proxy" -> [Entry("proxy") EXCEPT !.proxy_to = site]
      [] e.serve_mode \in {"default", "git"} ->
            [Entry("redir") EXCEPT !.target = HomeTarget(name, site)]
      [] e.serve_mode \in {"redir", "redir_force"} ->
            [Entry(e.serve_mode) EXCEPT !.target = e.target]
      [] e.serve_mode \in {"mirror_intel", "rsync_gateway"} -> Entry(e.serve_mode)
      [] OTHER -> NoEntry

\* Mutant: the target of a redirecting repository is forgotten.
RewriteConfigTargetless(name, e, site) ==
    IF e.serve_mode \in {"redir", "redir_force"} THEN Entry(e.serve_mode)
    ELSE RewriteConfigShared(name, e, site)

\* What the other sites serve for a repository of this site.  A proxied
\* repository keeps proxy_to only: it becomes a "default" one without a path.
RewriteConfig(name, e, site) ==
    CASE e.unified = "proxy" -> [Entry("proxy") EXCEPT !.proxy_to = site]
      [] e.unified # "proxy" /\ e.serve_mode \in {"default", "git", "rsync_gateway"} ->
            [Entry("redir") EXCEPT !.target = HomeTarget(name, site)]
      [] e.unified # "proxy" /\ e.serve_mode \in {"redir", "redir_force"} ->
            [Entry(e.serve_mode) EXCEPT !.target = e.target]
      [] e.unified # "proxy" /\ e.serve_mode = "mirror_intel" -> Entry("mirror_intel")
      [] e.unified # "proxy" /\ e.serve_mode = "proxy" ->
            [Entry("default") EXCEPT !.proxy_to = e.proxy_to]
      [] OTHER -> NoEntry

----------------------------------------------------------------------------
(* dict_to_repo and the classes of repos.py                                *)

NoRepo == [class |-> "None", to |-> "none", target |-> NoTarget,
           strip |-> FALSE, always |-> FALSE, hidden |-> "no"]

FileServerRepo(hidden) == [NoRepo EXCEPT !.class = "FileServerRepo", !.hidden = hidden]

ProxyRepo(to, strip) == [NoRepo EXCEPT !.class = "ProxyRepo", !.to = to, !.strip = strip]

\* The handler of a redirect is always a handle_path.
RedirRepo(target, always) ==
    [NoRepo EXCEPT !.class = "RedirRepo", !.target = target,
                   !.always = always, !.strip = TRUE]

\* The third argument of ProxyRepo is strip_prefix: the key of the entry is
\* inverted on its way.  A default repository without a path is a KeyError.
DictToRepo(e) ==
    CASE e.serve_mode \in {"redir", "redir_force"} ->
            RedirRepo(e.target, e.serve_mode = "redir_force")
      [] e.serve_mode = "default" ->
            IF e.path = "suffix" THEN FileServerRepo(e.show_hidden) ELSE NoRepo
      [] e.serve_mode = "mirror_intel"  -> ProxyRepo("mirror-intel", FALSE)
      [] e.serve_mode = "rsync_gateway" -> ProxyRepo("rsync-gateway", FALSE)
      [] e.serve_mode = "git"           -> ProxyRepo("git-backend", FALSE)
      [] e.serve_mode = "proxy"         -> ProxyRepo(e.proxy_to, ~e.strip_prefix)
      [] OTHER -> NoRepo

KeyErrors(e) == e.serve_mode = "default" /\ e.path = "absent"

IsRepo(e) == DictToRepo(e).class # "None"

\* FileServerRepo and ProxyRepo send the content themselves.
ServesDirectly(repo) == repo.class \in {"FileServerRepo", "ProxyRepo"}

\* enable_repo_gzip
EnableRepoGzip(repo) == repo.class = "FileServerRepo"

----------------------------------------------------------------------------
(* How the generated handlers answer                                       *)

NoAnswer == [kind |-> "none", host |-> "none", path |-> <<>>]

Answer(kind, host, path) == [kind |-> kind, host |-> host, path |-> path]

IsDotted(path) == \E i \in 1..Len(path) : path[i] \in DotNames

\* hidden(): "respond @hidden 404" comes before file_server.
HiddenFrom(repo, name, path) ==
    CASE repo.hidden = "no"     -> IsDotted(path)
      [] repo.hidden = "listed" -> IsDotted(path) /\ path # name \o <<ListedName>>
      [] repo.hidden = "all"    -> FALSE

\* as_repo: path is the request's path, rest what follows the name in it.
FileServerAsRepo(repo, name, site, path) ==
    IF HiddenFrom(repo, name, path) THEN Answer("status", "404", <<>>)
    ELSE Answer("file", site, path)

ProxyAsRepo(repo, path, rest) == Answer("upstream", repo.to, IF repo.strip THEN rest ELSE path)

RedirAsRepo(repo, rest) ==
    Answer("redirect", repo.target.host,
           IF repo.always THEN repo.target.path ELSE repo.target.path \o rest)

AsRepo(repo, name, site, path) ==
    LET rest == SubSeq(path, Len(name) + 1, Len(path)) IN
    CASE repo.class = "FileServerRepo" -> FileServerAsRepo(repo, name, site, path)
      [] repo.class = "ProxyRepo"      -> ProxyAsRepo(repo, path, rest)
      [] repo.class = "RedirRepo"      -> RedirAsRepo(repo, rest)

\* as_subdomain: the whole path is below the repository; the root of the file
\* server is the repository's own directory, and a proxied path gets the name
\* back unless the upstream wants it stripped.
FileServerAsSubdomain(repo, name, site, path) ==
    IF HiddenFrom(repo, name, path) THEN Answer("status", "404", <<>>)
    ELSE Answer("file", site, name \o path)

ProxyAsSubdomain(repo, name, path) ==
    Answer("upstream", repo.to, IF repo.strip THEN path ELSE name \o path)

RedirAsSubdomain(repo, path) ==
    Answer("redirect", repo.target.host,
           IF repo.always THEN repo.target.path ELSE repo.target.path \o path)

AsSubdomain(repo, name, site, path) ==
    CASE repo.class = "FileServerRepo" -> FileServerAsSubdomain(repo, name, site, path)
      [] repo.class = "ProxyRepo"      -> ProxyAsSubdomain(repo, name, path)
      [] repo.class = "RedirRepo"      -> RedirAsSubdomain(repo, path)
=============================================================================
