---------------------------- MODULE CaddyRoutes ----------------------------
(***************************************************************************)
(* What the generators make of the sites' configurations: the merged       *)
(* repositories of a site, the routes and matchers of its Caddyfile, and   *)
(* the endpoints of its rsync-gateway.  A configuration gives every site   *)
(* an entry for every name; NoEntry stands for a name its file lacks.      *)
(***************************************************************************)
EXTENDS CaddyRepos, FiniteSets, SequencesExt

CONSTANTS
    Sites, Names,
    SiteOrder     \* the order of --site

\* The loop over the sites: an entry of this site can be served by the others.
Registers(cfg, s, n) ==
    /\ cfg[s][n] # NoEntry
    /\ cfg[s][n].unified # "disable"
    /\ RewriteConfig(n, cfg[s][n], s) # NoEntry

\* rewritten_repos: the first site that registers a name wins.
Rewritten(cfg, n) ==
    LET registrars == {i \in 1..Len(SiteOrder) : Registers(cfg, SiteOrder[i], n)}
    IN IF registrars = {} THEN NoEntry
       ELSE LET s == SiteOrder[Min(registrars)] IN RewriteConfig(n, cfg[s][n], s)

\* Mutant: the test for the site's own names is missing.
MergedOverridesOwn(cfg, s) ==
    [n \in Names |-> IF Rewritten(cfg, n) # NoEntry THEN Rewritten(cfg, n) ELSE cfg[s][n]]

\* A site keeps every entry of its own, ignored and disabled ones included.
Merged(cfg, s) ==
    [n \in Names |-> IF cfg[s][n] # NoEntry THEN cfg[s][n] ELSE Rewritten(cfg, n)]

\* gateway-gen reads the site's own file only.
Endpoints(own) == {n \in Names : own[n].serve_mode = "rsync_gateway"}

----------------------------------------------------------------------------
(* gen_repos: E are the entries of one site, merged.                       *)

Served(E, n) == IsRepo(E[n]) /\ ~E[n].no_direct_serve

\* Mutant: every repository is served over both schemes.
RouteNamesBoth(E, scheme) == {n \in Names : Served(E, n)}

\* http_file_server_nodes and https_file_server_nodes.
RouteNames(E, scheme) ==
    {n \in Names : Served(E, n) /\ (scheme = "https" \/ E[n].no_redir_http)}

\* http_bandwidth_quota_paths and https_bandwidth_quota_paths.
QuotaNames(E, scheme) ==
    {n \in RouteNames(E, scheme) : ServesDirectly(DictToRepo(E[n]))}

\* "@gzip_enabled": no encoding below what has it disabled.
GzipDisabled(E, scheme) ==
    {n \in RouteNames(E, scheme) : ~EnableRepoGzip(DictToRepo(E[n]))}

\* The path matcher /name/*: a trailing slash is enough, the bare name is not.
Below(path, name) == IsStrictPrefix(name, path)

\* cerberus_settings: the two matchers and the endpoint.
CerberusEndpoint == <<".cerberus">>
CerberusExcluded(path) == path # <<>> /\ Head(path) = "qt"

----------------------------------------------------------------------------
(* common() and common_http()                                              *)

StaticRoutes(scheme) ==
    IF scheme = "https"
    THEN {CerberusEndpoint, <<"mirrorz">>, <<"lug">>, <<"monitor">>, <<".well-known">>}
    ELSE {CerberusEndpoint}

\* The first components of the routes that every site has.
ReservedHeads == {r[1] : r \in StaticRoutes("https")}

\* The exporters behind /monitor/<name>/*, which is stripped.
Exporters == {"node_exporter", "cadvisor", "lug", "mirror-intel", "vector",
              "rsync-gateway", "docker-gcr", "docker-registry"}

\* Mutant: the handler for the exporters strips /monitor only.
MonitorHandleUnstripped(path, user) ==
    CASE user # "scraper" -> Answer("status", "401", <<>>)
      [] user = "scraper" /\ path[2] \in Exporters /\ Len(path) > 2 ->
            Answer("exporter", path[2], Tail(path))
      [] OTHER -> Answer("exporter", "caddy", <<"metrics">>)

\* The children of "handle /monitor/*", for a user with the monitor's password.  A path without a handler is answered
\* with an empty 200.
MonitorHandle(path, user) ==
    LET rest == SubSeq(path, 3, Len(path)) IN
    CASE user # "scraper" -> Answer("status", "401", <<>>)
      [] user = "scraper" /\ path = <<"monitor", "caddy", "metrics">> ->
            Answer("exporter", "caddy", <<"metrics">>)
      [] user = "scraper" /\ path[2] \in Exporters /\ rest # <<>> ->
            Answer("exporter", path[2], rest)
      [] OTHER -> Answer("status", "200", <<>>)

\* "respond @reject_lug_api 403" comes before reverse_proxy.
LugHandle(path) ==
    IF Below(path, <<"lug", "v1", "admin">>) THEN Answer("status", "403", <<>>)
    ELSE Answer("upstream", "lug", path)

\* The longest matching path wins among handle and handle_path (external).
Longest(routes, path) ==
    CHOOSE r \in {r \in routes : Below(path, r)} :
        \A q \in {q \in routes : Below(path, q)} : Len(q) <= Len(r)

\* The handle without a matcher: the frontend over https, and what remains of the
\* http requests is redirected to https.
FrontendHandle(path) == Answer("upstream", "frontend", path)
RedirectToHTTPS(site, path) == Answer("secure", site, path)

\* The handle group of a main site block.
HandleRequest(E, site, scheme, path, user) ==
    LET routes == RouteNames(E, scheme) \cup StaticRoutes(scheme)
        r      == Longest(routes, path)
    IN CASE \A q \in routes : ~Below(path, q) ->
                IF scheme = "https" THEN FrontendHandle(path) ELSE RedirectToHTTPS(site, path)
         [] (\E q \in routes : Below(path, q)) /\ r = CerberusEndpoint ->
                Answer("status", "cerberus", <<>>)
         [] (\E q \in routes : Below(path, q)) /\ r = <<"monitor">> ->
                MonitorHandle(path, user)
         [] (\E q \in routes : Below(path, q)) /\ r = <<"lug">> -> LugHandle(path)
         [] (\E q \in routes : Below(path, q)) /\ r \in {<<"mirrorz">>, <<".well-known">>} ->
                Answer("file", "static", path)
         [] OTHER -> AsRepo(DictToRepo(E[r]), r, site, path)

----------------------------------------------------------------------------
(* handler_order                                                           *)

\* Caddy's own order of the directives used, outermost first (external).
CaddyOrder == <<"redir", "encode", "handle">>

OrderBefore(order, directive, other) ==
    LET i == CHOOSE i \in 1..Len(order) : order[i] = other
    IN InsertAt(order, i, directive)

\* Mutant: cerberus is placed next to the handlers it protects.
HandlerOrderLate ==
    <<<<"cerberus", "handle">>, <<"bandwidth_quota", "cerberus">>, <<"waf", "bandwidth_quota">>>>

HandlerOrder ==
    <<<<"cerberus", "redir">>, <<"bandwidth_quota", "cerberus">>, <<"waf", "bandwidth_quota">>>>

\* The "order" options apply one after the other.
Pipeline ==
    LET Apply(order, option) == OrderBefore(order, option[1], option[2])
    IN Apply(Apply(Apply(CaddyOrder, HandlerOrder[1]), HandlerOrder[2]), HandlerOrder[3])
=============================================================================
