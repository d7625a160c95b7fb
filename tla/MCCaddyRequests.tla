-------------------------- MODULE MCCaddyRequests --------------------------
(* Small configurations and requests for CaddyRequests. *)
EXTENDS CaddyRequests

a == <<"a">>
ab == <<"a", "b">>
g == <<"git", "g">>
MCNames == {a, ab, g}
MCSiteOrder == <<"siyuan", "zhiyuan">>

Local == [Entry("default") EXCEPT !.path = "suffix"]
Plain == [Local EXCEPT !.no_redir_http = TRUE]
Listed == [Local EXCEPT !.show_hidden = "listed"]
OnSubdomain == [Local EXCEPT !.subdomain = TRUE, !.show_hidden = "all"]
Misplaced == [Local EXCEPT !.path = "other"]
Own == [Local EXCEPT !.unified = "disable"]
Internal == [Own EXCEPT !.no_direct_serve = TRUE]
Outside == [Entry("redir") EXCEPT !.target = [host |-> "outside", path |-> <<"x">>]]
PlainOutside == [Outside EXCEPT !.no_redir_http = TRUE]
Forced == [Outside EXCEPT !.serve_mode = "redir_force", !.subdomain = TRUE]
Intel == [Entry("mirror_intel") EXCEPT !.no_redir_http = TRUE]
Gateway == Entry("rsync_gateway")
GatewayOnSubdomain == [Gateway EXCEPT !.subdomain = TRUE]
Proxied == [Entry("proxy") EXCEPT !.proxy_to = "backend", !.unified = "disable"]
Stripped == [Proxied EXCEPT !.strip_prefix = TRUE]
Git == Entry("git")
Alias == [Entry("redir") EXCEPT !.target = [host |-> "siyuan", path |-> a]]

OuterEntries ==
    {NoEntry, Local, Plain, Listed, OnSubdomain, Misplaced, Own, Internal, Outside,
     PlainOutside, Forced, Intel, Gateway, GatewayOnSubdomain, Proxied, Stripped,
     Entry("ignore")}

InnerEntries == {NoEntry, Local, Plain, Outside, PlainOutside, Gateway, Entry("ignore")}

Site(outer, inner, git) ==
    [n \in MCNames |-> CASE n = a -> outer [] n = ab -> inner [] n = g -> git]

Pair(s, z) == [site \in {"siyuan", "zhiyuan"} |-> IF site = "siyuan" THEN s ELSE z]

\* Every pair of entries of one name; nested names; a git repository; an alias.
MCConfigs ==
    {Pair(Site(x, NoEntry, NoEntry), Site(y, NoEntry, NoEntry)) :
        x \in OuterEntries, y \in OuterEntries}
    \cup {Pair(Site(x, i, NoEntry), Site(NoEntry, j, NoEntry)) :
        x \in {Local, Plain, Outside, Gateway}, i \in InnerEntries, j \in InnerEntries}
    \cup {Pair(Site(NoEntry, NoEntry, x), Site(y, NoEntry, NoEntry)) :
        x \in {NoEntry, Git}, y \in {Local, Outside}}
    \cup {Pair(Site(x, NoEntry, Alias), Site(y, NoEntry, NoEntry)) :
        x \in {NoEntry, Local, Plain}, y \in {NoEntry, Local}}

Request(site, scheme, host, name, path) ==
    [site |-> site, scheme |-> scheme, host |-> host, name |-> name, path |-> path]

RepoPaths ==
    {a, <<"a", "">>, ab, <<"a", ".s">>, <<"a", ".l">>, <<"a", "b", "f">>, g \o <<"p">>}

SpecialPaths ==
    {<<"qt", "iso">>, <<".cerberus", "c">>, <<"lug", "v1", "admin", "x">>, <<"lug", "v1">>,
     <<"mirrorz", "x">>, <<"monitor", "other">>, <<"">>} \cup MonitorPaths

Large == <<"a", "iso">>

BaseRequests(paths) ==
    {Request(s, scheme, "base", <<>>, p) :
        s \in {"siyuan", "zhiyuan"}, scheme \in {"http", "https"}, p \in paths}

SubdomainRequests ==
    {Request("siyuan", scheme, "subdomain", a, p) :
        scheme \in {"http", "https"}, p \in {<<"">>, <<".l">>}}

OtherHosts ==
    {Request("zhiyuan", scheme, h, <<>>, <<"">>) :
        scheme \in {"http", "https"}, h \in {"localhost", "other"}}

ComponentsOf(paths) == UNION {{p[k] : k \in DOMAIN p} : p \in paths}

MCWords ==
    {"", "x"} \cup ReservedHeads
    \cup ComponentsOf(MCNames \cup RepoPaths \cup SpecialPaths \cup {Large, <<".l">>})

Ask(kind, requests) == {[client |-> kind, request |-> r] : r \in requests}

\* The paths that are no repository are asked of one configuration.
StaticConfig == Pair(Site(Local, NoEntry, NoEntry), Site(NoEntry, NoEntry, Git))

RepoAsks ==
    Ask("plain", BaseRequests(RepoPaths) \cup SubdomainRequests)
    \cup UNION {Ask(kind, BaseRequests({Large})) :
                  kind \in {"poster", "banned", "exhausted", "blocked", "browser"}}

StaticAsks ==
    UNION {Ask(kind, BaseRequests(SpecialPaths \cup {Large, a}) \cup OtherHosts \cup SubdomainRequests) :
              kind \in ClientKinds}

MCCases ==
    {[config |-> cfg, asks |-> RepoAsks] : cfg \in MCConfigs}
    \cup {[config |-> StaticConfig, asks |-> StaticAsks]}
=============================================================================
