--------------------------- MODULE CaddyRequests ---------------------------
(***************************************************************************)
(* A request on its way through the generated Caddyfiles of the sites, and *)
(* through the redirects from one site to the other.                       *)
(***************************************************************************)
EXTENDS CaddyRoutes

CONSTANTS
    Cases,        \* which clients send which first requests under which config
    Words,        \* the components of names and paths
    LargeFiles    \* the file names that match large_file

ClientKinds == {"plain", "poster", "banned", "exhausted", "blocked", "browser",
                "cleared", "scraper"}

Schemes == {"http", "https"}
Hosts == {"base", "subdomain", "localhost", "other"}

\* A request names its host; only a subdomain has a repository's name in it.
Requests ==
    {r \in [site : Sites, scheme : Schemes, host : Hosts, name : Seq(Words),
            path : Seq(Words)] :
        r.host = "subdomain" => r.name \in Names}

\* Hosts of answers that are no site.
NotSites == {"absent", "static", "frontend", "lug"}

\* The keys an entry has by its mode, without which the generator ends with a
\* KeyError, and what they hold in the deployed files.
WellFormed(e) ==
    /\ e.serve_mode \in {"redir", "redir_force"} =>
          e.target.host # "absent" /\ e.target.path \in Seq(Words)
    /\ e.serve_mode = "proxy" => e.proxy_to # "absent"
    /\ e.proxy_to \notin {"frontend", "lug", "rsync-gateway"}

ASSUME RequestsAssumption ==
    /\ SiteOrder \in Seq(Sites)
    /\ Sites \cap NotSites = {}
    /\ {""} \cup ReservedHeads \subseteq Words
    /\ \A n \in Names :
          /\ n \in Seq(Words) /\ n # <<>> /\ n[1] \notin ReservedHeads
          /\ \A k \in 1..Len(n) : n[k] # ""
    /\ \A case \in Cases :
          /\ \A s \in Sites, n \in Names : WellFormed(case.config[s][n])
          /\ \A ask \in case.asks :
                /\ ask.client \in ClientKinds
                /\ ask.request \in Requests /\ ask.request.path # <<>>

VARIABLES
    config,       \* the entries of every site's file
    merged,       \* the entries its Caddyfile was generated from
    client,
    first,        \* what was asked
    req,          \* what is asked now, at req.site
    stage,        \* position in Pipeline, 0 before a site block is found
    charged,      \* the quota module counts the body that a 2xx response sends
    encoded,      \* the response goes through "encode"
    answer

vars == <<config, merged, client, first, req, stage, charged, encoded, answer>>

Entries == merged[req.site]

\* An outer and an inner repository of one site are reached over http alike and
\* shared alike, as in the deployed files.  (Otherwise the outer route, alone over
\* http or at the other site, also takes the paths of the inner one.)
NestedAlike(cfg) ==
    \A s \in Sites, n, m \in Names :
        LET E == Merged(cfg, s) IN
        IsStrictPrefix(n, m) /\ IsRepo(E[n]) /\ IsRepo(E[m]) =>
            /\ E[n].no_redir_http = E[m].no_redir_http
            /\ E[n].unified = E[m].unified

\* The configurations whose generation ends without an exception.
Generates(cfg) ==
    \A s \in Sites, n \in Names : ~KeyErrors(Merged(cfg, s)[n])

Init ==
    /\ \E case \in Cases :
          /\ Generates(case.config) /\ NestedAlike(case.config)
          /\ config = case.config
          /\ \E ask \in case.asks : client = ask.client /\ first = ask.request
    /\ merged = [s \in Sites |-> Merged(config, s)]
    /\ req = first
    /\ stage = 0
    /\ charged = FALSE
    /\ encoded = FALSE
    /\ answer = NoAnswer

----------------------------------------------------------------------------
HasSubdomain(name) == Served(Entries, name) /\ Entries[name].subdomain

\* The root nodes of a Caddyfile.  Caddy sends plain http for a host name
\* without a scheme to https (external).
Connect ==
    /\ stage = 0 /\ answer = NoAnswer
    /\ \/ /\ req.host = "localhost" /\ req.scheme = "http"
          /\ answer' = Answer("status", "204", <<>>) /\ UNCHANGED stage
       \/ /\ \/ req.host = "other"
             \/ req.host = "localhost" /\ req.scheme = "https"
             \/ req.host = "subdomain" /\ ~HasSubdomain(req.name)
          /\ answer' = Answer("status", "abort", <<>>) /\ UNCHANGED stage
       \/ /\ req.host = "subdomain" /\ HasSubdomain(req.name) /\ req.scheme = "http"
          /\ answer' = Answer("secure", req.site, req.path) /\ UNCHANGED stage
       \/ /\ \/ req.host = "base"
             \/ req.host = "subdomain" /\ HasSubdomain(req.name) /\ req.scheme = "https"
          /\ stage' = 1 /\ UNCHANGED answer
    /\ UNCHANGED <<config, merged, client, first, req, charged, encoded>>

At(directive) ==
    stage \in 1..Len(Pipeline) /\ answer = NoAnswer /\ Pipeline[stage] = directive

Pass == stage' = stage + 1 /\ UNCHANGED answer

Reply(a) == answer' = a /\ UNCHANGED stage

Waf ==
    /\ At("waf")
    /\ IF client = "banned" THEN Reply(Answer("status", "403", <<>>)) ELSE Pass
    /\ UNCHANGED <<config, merged, client, first, req, charged, encoded>>

\* Mutant: the matcher of the quota lacks its paths.
QuotaMatchesAll == client # "poster"

\* "@bandwidth_quota_download": GET, and the paths of the directly served
\* repositories; a subdomain has the matcher without paths, or none.
QuotaMatches ==
    /\ client # "poster"
    /\ IF req.host = "subdomain" THEN ServesDirectly(DictToRepo(Entries[req.name]))
       ELSE \E n \in QuotaNames(Entries, req.scheme) : Below(req.path, n)

BandwidthQuota ==
    /\ At("bandwidth_quota")
    /\ IF QuotaMatches /\ client = "exhausted"
       THEN Reply(Answer("status", "429", <<>>)) /\ UNCHANGED charged
       ELSE Pass /\ charged' = QuotaMatches
    /\ UNCHANGED <<config, merged, client, first, req, encoded>>

\* What cerberus does for a matched request (external): a blocked address is
\* turned away, a browser solves a challenge before a large file.
Challenged ==
    /\ req.path # <<>> /\ Last(req.path) \in LargeFiles
    /\ client \in {"browser", "cleared", "blocked"}

Cerberus ==
    /\ At("cerberus")
    /\ \/ /\ req.host = "base" /\ ~CerberusExcluded(req.path)
          /\ \/ client = "blocked" /\ (Challenged \/ ~Below(req.path, CerberusEndpoint))
                /\ Reply(Answer("status", "403", <<>>))
             \/ client = "browser" /\ Challenged /\ Reply(Answer("status", "challenge", <<>>))
       \/ /\ \/ req.host # "base" \/ CerberusExcluded(req.path)
             \/ client \notin {"blocked", "browser"}
             \/ client = "blocked" /\ ~Challenged /\ Below(req.path, CerberusEndpoint)
             \/ client = "browser" /\ ~Challenged
          /\ Pass
    /\ UNCHANGED <<config, merged, client, first, req, charged, encoded>>

\* repo_redir: the bare name gets its slash.
Redir ==
    /\ At("redir")
    /\ IF req.host = "base" /\ req.path \in RouteNames(Entries, req.scheme)
       THEN Reply(Answer("slash", req.site, Append(req.path, ""))) ELSE Pass
    /\ UNCHANGED <<config, merged, client, first, req, charged, encoded>>

\* "encode @gzip_enabled", and "encode /*" under the subdomain of a file server.
Encode ==
    /\ At("encode") /\ Pass
    /\ encoded' = IF req.host = "subdomain" THEN EnableRepoGzip(DictToRepo(Entries[req.name]))
                  ELSE \A n \in GzipDisabled(Entries, req.scheme) : ~Below(req.path, n)
    /\ UNCHANGED <<config, merged, client, first, req, charged>>

\* The one handler of a subdomain, or the handle group of the base host.
HandlerAnswer ==
    IF req.host = "subdomain"
    THEN AsSubdomain(DictToRepo(Entries[req.name]), req.name, req.site, req.path)
    ELSE HandleRequest(Entries, req.site, req.scheme, req.path, client)

Handle ==
    /\ At("handle")
    /\ Reply(HandlerAnswer)
    /\ UNCHANGED <<config, merged, client, first, req, charged, encoded>>

\* The client follows a redirect to one of the sites.
Followable == answer.kind \in {"slash", "secure", "redirect"} /\ answer.host \in Sites

Follow ==
    /\ Followable
    /\ req' = CASE answer.kind = "slash"    -> [req EXCEPT !.path = answer.path]
                [] answer.kind = "secure"   -> [req EXCEPT !.scheme = "https"]
                [] answer.kind = "redirect" ->
                     [site |-> answer.host, scheme |-> "https", host |-> "base",
                      name |-> <<>>, path |-> answer.path]
    /\ stage' = 0 /\ answer' = NoAnswer /\ charged' = FALSE /\ encoded' = FALSE
    /\ UNCHANGED <<config, merged, client, first>>

Next == Connect \/ Waf \/ BandwidthQuota \/ Cerberus \/ Redir \/ Encode \/ Handle \/ Follow

Spec == Init /\ [][Next]_vars

\* Caddy answers every request, and the client follows every redirect.
FairSpec == Spec /\ WF_vars(Next)

----------------------------------------------------------------------------
(* Properties                                                              *)

Final == answer # NoAnswer /\ ~Followable

\* The request never leaves the forms above, and every redirect has a target.
RequestTypeOK ==
    /\ client \in ClientKinds /\ req \in Requests
    /\ stage \in 0..Len(Pipeline)
    /\ charged \in BOOLEAN
    /\ encoded \in BOOLEAN
    /\ answer.kind \in {"none", "status", "file", "upstream", "exporter", "redirect",
                        "slash", "secure"}
    /\ answer.kind = "redirect" => answer.host # "absent"

\* "unified: proxy" makes a site the upstream of another one.
Upstreams == {"mirror-intel", "rsync-gateway", "git-backend"} \cup Sites \cup
             {config[s][n].proxy_to : s \in Sites, n \in Names}

\* The bytes of a repository.
RepositoryContent ==
    \/ answer.kind = "file" /\ answer.host \in Sites
    \/ answer.kind = "upstream" /\ answer.host \in Upstreams

\* The site whose entry decides about a name at site s: s, or else the first
\* one that has the name and shares it.
Home(s, n) ==
    IF config[s][n] # NoEntry THEN s
    ELSE LET sharing == {i \in 1..Len(SiteOrder) :
                            /\ IsRepo(config[SiteOrder[i]][n])
                            /\ config[SiteOrder[i]][n].unified # "disable"}
         IN IF sharing = {} THEN s ELSE SiteOrder[Min(sharing)]

\* The path on the base host that a first request stands for.
Asked == IF first.host = "subdomain" THEN first.name \o first.path ELSE first.path

AskedNames(s) ==
    {n \in Names : Served(config[Home(s, n)], n) /\ IsPrefix(n, Asked)}

Deepest(s) ==
    CHOOSE n \in AskedNames(s) : \A m \in AskedNames(s) : Len(m) <= Len(n)

\* Where the request lands when the deepest name at the asked site is followed.
Lands ==
    LET n    == Deepest(first.site)
        home == Home(first.site, n)
        repo == DictToRepo(config[home][n])
    IN IF ServesDirectly(repo) /\ repo.to # "mirror-intel" THEN home ELSE first.site

\* An entry may redirect to another name at a site, like three of the deployed
\* ones: the request goes on as one for the other name.
Aliased ==
    \E s \in Sites, n \in Names :
        /\ IsPrefix(n, Asked) /\ config[s][n].serve_mode \in {"redir", "redir_force"}
        /\ config[s][n].target.host \in Sites

\* A request for a repository that any site has, sent to any site, over http or
\* https, to the base or to the subdomain, with or without the final slash, ends
\* with the answer of the entry of the site that owns the repository: at that
\* site when it serves the content itself (and has a gateway endpoint for it),
\* at the asked site when the content is behind mirror-intel, which both run.
\* (The owner of the outer of two nested names decides about the inner one.)
OwnerAnswers ==
    (/\ Final /\ client = "plain"
     /\ \/ first.host = "base"
        \/ first.host = "subdomain" /\ answer # Answer("status", "abort", <<>>)
     /\ AskedNames(first.site) # {} /\ ~Aliased) =>
        LET n     == Deepest(Lands)
            home  == Home(Lands, n)
            repo  == DictToRepo(config[home][n])
            path  == IF Asked = n THEN Append(Asked, "") ELSE Asked
        IN /\ answer = AsRepo(repo, n, home, path)
           /\ ServesDirectly(repo) /\ repo.to # "mirror-intel" => req.site = home
           /\ repo.to = "rsync-gateway" => n \in Endpoints(config[req.site])

\* A response that sends a body is counted exactly when it is the content of a
\* repository: over http and https, below nested names, on subdomains and behind
\* redirects the paths of the quota are those of the handlers that send.
DownloadsCharged ==
    answer.kind \in {"file", "upstream", "exporter"} /\ client # "poster" =>
        (charged <=> RepositoryContent)

\* Repository content goes out over plain http only when the entry of the site
\* that sends it asks for that.
PlainHTTPOnlyWhenAsked ==
    RepositoryContent /\ req.scheme = "http" =>
        \E n \in Names : Below(req.path, n) /\ config[req.site][n].no_redir_http

\* Nobody learns of a repository, not even by a redirect, before the firewall,
\* the quota and cerberus let the request pass.
ScreenedFirst ==
    /\ client = "banned" => answer.kind \in {"none", "status", "secure"}
    /\ client = "exhausted" => ~RepositoryContent
    /\ (client = "blocked" /\ req.host = "base" /\ ~CerberusExcluded(req.path)
        /\ ~Below(req.path, CerberusEndpoint)) => answer.kind \in {"none", "status"}
    /\ (client = "browser" /\ RepositoryContent /\ req.host = "base") =>
            Last(req.path) \notin LargeFiles \/ CerberusExcluded(req.path)

\* The metrics_path of the scrape jobs, which send the monitor's credentials.
ScrapePaths ==
    {<<"monitor", job, "metrics">> :
        job \in {"node_exporter", "cadvisor", "caddy", "lug", "mirror-intel", "vector"}}
    \cup {<<"monitor", "rsync-gateway", "_metrics">>}

\* monitor_targets: what the blackbox exporter probes with the credentials.
ProbePaths ==
    {<<"monitor", "node_exporter", "metrics">>, <<"monitor", "cadvisor", "metrics">>,
     <<"monitor", "caddy", "metrics">>, <<"monitor", "lug", "metrics">>,
     <<"monitor", "mirror-intel", "metrics">>, <<"monitor", "vector", "metrics">>,
     <<"monitor", "rsync-gateway", "_metrics">>}

MonitorPaths == ScrapePaths \cup ProbePaths

\* Every path that Prometheus scrapes or probes at a site reaches the metrics page of the
\* exporter it names, and no exporter answers without the credentials.
MonitorGuarded ==
    /\ answer.kind = "exporter" => client = "scraper"
    /\ (client = "scraper" /\ first.path \in MonitorPaths /\ first.host = "base" /\ Final) =>
            answer = Answer("exporter", first.path[2], <<first.path[3]>>)

\* No repository makes the sites redirect to each other for ever.
Answered == <>Final
=============================================================================
