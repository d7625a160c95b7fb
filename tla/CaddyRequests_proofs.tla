------------------------ MODULE CaddyRequests_proofs ------------------------
(***************************************************************************)
(* Proofs about CaddyRequests, for every set of sites, names, paths and    *)
(* configurations that the assumptions admit.                              *)
(***************************************************************************)
EXTENDS CaddyRequests, CaddyRoutes_proofs

(* The parts of the assumption.                                             *)
LEMMA NamesApart == \A n \in Names : n \in Seq(Words) /\ n # <<>> /\ n[1] \notin ReservedHeads
BY RequestsAssumption

LEMMA NamesFromWords == NamesFrom(Words) /\ "" \in Words
BY RequestsAssumption DEF NamesFrom

LEMMA SitesAre ==
    /\ SiteOrder \in Seq(Sites)
    /\ \A s \in Sites : s # "absent" /\ s # "static" /\ s # "frontend" /\ s # "lug"
BY RequestsAssumption DEF NotSites

(* What never changes during a request.                                      *)
ConfigInv ==
    /\ \A s \in Sites, n \in Names : WellFormed(config[s][n])
    /\ Generates(config) /\ NestedAlike(config)
    /\ merged = [s \in Sites |-> Merged(config, s)]
    /\ client \in ClientKinds /\ first \in Requests /\ first.path # <<>>

(* What is known of a request in a site block.                               *)
HopInv ==
    /\ req \in Requests
    /\ stage \in 0..6 /\ charged \in BOOLEAN /\ encoded \in BOOLEAN
    /\ stage > 0 => \/ req.host = "base"
                    \/ /\ req.host = "subdomain" /\ req.scheme = "https"
                       /\ HasSubdomain(req.name)

(* Cerberus let the request pass.                                            *)
PassedCerberus ==
    \/ req.host # "base" \/ CerberusExcluded(req.path)
    \/ client \notin {"blocked", "browser"}
    \/ client = "blocked" /\ ~Challenged /\ Below(req.path, CerberusEndpoint)
    \/ client = "browser" /\ ~Challenged

(* Who is past which handler.                                                *)
PassedInv ==
    /\ stage > 1 => client # "banned"
    /\ stage <= 2 => charged = FALSE
    /\ stage > 2 => (charged <=> QuotaMatches) /\ ~(QuotaMatches /\ client = "exhausted")
    /\ stage > 3 => PassedCerberus
    /\ stage > 4 => ~(req.host = "base" /\ req.path \in RouteNames(Entries, req.scheme))

(* Which handler answers how.                                                *)
AnswerInv ==
    \/ answer = NoAnswer
    \/ /\ stage = 0 /\ req.host # "base" /\ answer.kind = "status"
       /\ req.host = "subdomain" => answer = Answer("status", "abort", <<>>)
    \/ /\ stage = 0 /\ req.host = "subdomain" /\ req.scheme = "http"
       /\ HasSubdomain(req.name)
       /\ answer = Answer("secure", req.site, req.path)
    \/ /\ stage = 1 /\ client = "banned" /\ answer.kind = "status"
    \/ /\ stage = 2 /\ client = "exhausted" /\ answer.kind = "status"
    \/ /\ stage = 3 /\ client \in {"blocked", "browser"} /\ answer.kind = "status"
    \/ /\ stage = 4 /\ req.host = "base" /\ req.path \in RouteNames(Entries, req.scheme)
       /\ answer = Answer("slash", req.site, Append(req.path, ""))
    \/ stage = 6 /\ answer = HandlerAnswer

RequestInv == ConfigInv /\ HopInv /\ PassedInv /\ AnswerInv

(* The positions of the handlers.                                            *)
LEMMA AtStage ==
    ASSUME stage \in 0..6
    PROVE  /\ Len(Pipeline) = 6
           /\ At("waf") <=> stage = 1 /\ answer = NoAnswer
           /\ At("bandwidth_quota") <=> stage = 2 /\ answer = NoAnswer
           /\ At("cerberus") <=> stage = 3 /\ answer = NoAnswer
           /\ At("redir") <=> stage = 4 /\ answer = NoAnswer
           /\ At("encode") <=> stage = 5 /\ answer = NoAnswer
           /\ At("handle") <=> stage = 6 /\ answer = NoAnswer
<1> DEFINE P == <<"waf", "bandwidth_quota", "cerberus", "redir", "encode", "handle">>
<1>1. /\ Len(P) = 6
      /\ P[1] = "waf" /\ P[2] = "bandwidth_quota" /\ P[3] = "cerberus"
      /\ P[4] = "redir" /\ P[5] = "encode" /\ P[6] = "handle"
  OBVIOUS
<1>2. Pipeline = P
  BY PipelineOrder
<1> HIDE DEF P
<1>3. /\ Len(Pipeline) = 6
      /\ Pipeline[1] = "waf" /\ Pipeline[2] = "bandwidth_quota" /\ Pipeline[3] = "cerberus"
      /\ Pipeline[4] = "redir" /\ Pipeline[5] = "encode" /\ Pipeline[6] = "handle"
  BY <1>1, <1>2
<1>4. stage = 0 \/ stage = 1 \/ stage = 2 \/ stage = 3 \/ stage = 4 \/ stage = 5 \/ stage = 6
  OBVIOUS
<1> HIDE DEF Pipeline
<1>5. QED
  BY <1>3, <1>4 DEF At

(* What is said of a request stays true while it stays the same.             *)
LEMMA SameRequest ==
    ASSUME UNCHANGED <<merged, client, req>>
    PROVE  /\ QuotaMatches' = QuotaMatches
           /\ PassedCerberus' = PassedCerberus
           /\ HandlerAnswer' = HandlerAnswer
           /\ HasSubdomain(req.name)' = HasSubdomain(req.name)
           /\ RouteNames(Entries, req.scheme)' = RouteNames(Entries, req.scheme)
BY DEF QuotaMatches, PassedCerberus, Challenged, HandlerAnswer, HasSubdomain, Entries

LEMMA InitRequestInv == Init => RequestInv
<1> SUFFICES ASSUME Init PROVE RequestInv
  OBVIOUS
<1>1. PICK case \in Cases :
          /\ Generates(case.config) /\ NestedAlike(case.config)
          /\ config = case.config
          /\ \E ask \in case.asks : client = ask.client /\ first = ask.request
  BY DEF Init
<1>2. ConfigInv
  BY <1>1, RequestsAssumption DEF Init, ConfigInv
<1>3. HopInv
  <2>1. req \in Requests
    BY <1>2 DEF Init, ConfigInv
  <2>2. stage \in 0..6 /\ ~(stage > 0)
    BY DEF Init
  <2>3. charged \in BOOLEAN /\ encoded \in BOOLEAN
    BY Zenon DEF Init
  <2>4. QED
    BY <2>1, <2>2, <2>3, Zenon DEF HopInv
<1>4. PassedInv
  BY DEF Init, PassedInv
<1>5. AnswerInv
  BY DEF Init, AnswerInv
<1>6. QED
  BY <1>2, <1>3, <1>4, <1>5 DEF RequestInv

LEMMA NextConfigInv == ConfigInv /\ [Next]_vars => ConfigInv'
<1> SUFFICES ASSUME ConfigInv, [Next]_vars PROVE ConfigInv'
  OBVIOUS
<1>1. UNCHANGED <<config, merged, client, first>>
  BY DEF Next, vars, Connect, Waf, BandwidthQuota, Cerberus, Redir, Encode, Handle, Follow
<1>2. QED
  BY <1>1 DEF ConfigInv

----------------------------------------------------------------------------
(* What the handlers answer                                                  *)

(* The handler of a repository.                                              *)
RepoAnswers(n) ==
    /\ n \in Names /\ Served(Entries, n)
    /\ \/ /\ req.host = "base" /\ Below(req.path, n) /\ n \in RouteNames(Entries, req.scheme)
          /\ HandlerAnswer = AsRepo(DictToRepo(Entries[n]), n, req.site, req.path)
       \/ /\ req.host = "subdomain" /\ n = req.name
          /\ HandlerAnswer = AsSubdomain(DictToRepo(Entries[n]), n, req.site, req.path)

(* The handlers that every site has.                                         *)
OthersAnswer ==
    /\ req.host = "base"
    /\ \A n \in RouteNames(Entries, req.scheme) : ~Below(req.path, n)
    /\ \/ HandlerAnswer.kind = "status"
       \/ HandlerAnswer.kind = "exporter" /\ client = "scraper"
       \/ req.scheme = "http" /\ HandlerAnswer = Answer("secure", req.site, req.path)
       \/ HandlerAnswer = Answer("upstream", "frontend", req.path)
       \/ HandlerAnswer = Answer("upstream", "lug", req.path)
       \/ HandlerAnswer = Answer("file", "static", req.path)

(* The monitor's handler lets nobody without credentials at an exporter.      *)
LEMMA MonitorHandleIs ==
    ASSUME NEW path, NEW user
    PROVE  \/ MonitorHandle(path, user).kind = "status"
           \/ MonitorHandle(path, user).kind = "exporter" /\ user = "scraper"
BY DEF MonitorHandle, Answer

LEMMA HandlerAnswerIs ==
    ASSUME req \in Requests,
           \/ req.host = "base"
           \/ req.host = "subdomain" /\ HasSubdomain(req.name)
    PROVE  (\E n \in Names : RepoAnswers(n)) \/ OthersAnswer
<1>1. req.path \in Seq(Words) /\ (req.host = "subdomain" => req.name \in Names)
      /\ req.scheme \in {"http", "https"}
  BY DEF Requests, Schemes
<1>2. CASE req.host = "subdomain"
  BY <1>1, <1>2 DEF RepoAnswers, HandlerAnswer, HasSubdomain
<1>3. CASE req.host = "base"
  <2> DEFINE a == HandlerAnswer
  <2>1. a = HandleRequest(Entries, req.site, req.scheme, req.path, client)
    BY <1>3 DEF HandlerAnswer
  <2> HIDE DEF a
  <2>2. RequestAnswer(Entries, req.site, req.scheme, req.path, client, a)
    BY <1>1, NamesFromWords, <2>1, HandleRequestIs
  <2>3. \/ /\ \A n \in RouteNames(Entries, req.scheme) : ~Below(req.path, n)
           /\ a = IF req.scheme = "https" THEN FrontendHandle(req.path)
                  ELSE RedirectToHTTPS(req.site, req.path)
        \/ \E n \in RouteNames(Entries, req.scheme) :
              /\ Below(req.path, n)
              /\ a = AsRepo(DictToRepo(Entries[n]), n, req.site, req.path)
        \/ /\ \A n \in Names : ~Below(req.path, n)
           /\ \/ a = Answer("status", "cerberus", <<>>)
              \/ a = MonitorHandle(req.path, client)
              \/ a = LugHandle(req.path)
              \/ a = Answer("file", "static", req.path)
    BY <2>2 DEF RequestAnswer
  <2>4. RouteNames(Entries, req.scheme) \subseteq Names
        /\ \A n \in RouteNames(Entries, req.scheme) : Served(Entries, n)
    BY DEF RouteNames
  <2>5. CASE \E n \in RouteNames(Entries, req.scheme) :
              /\ Below(req.path, n)
              /\ a = AsRepo(DictToRepo(Entries[n]), n, req.site, req.path)
    BY <1>3, <2>4, <2>5 DEF RepoAnswers, a
  <2>6. CASE /\ \A n \in RouteNames(Entries, req.scheme) : ~Below(req.path, n)
             /\ a = IF req.scheme = "https" THEN FrontendHandle(req.path)
                    ELSE RedirectToHTTPS(req.site, req.path)
    BY <1>1, <1>3, <2>6 DEF a, OthersAnswer, FrontendHandle, RedirectToHTTPS
  <2>7. CASE /\ \A n \in Names : ~Below(req.path, n)
             /\ \/ a = Answer("status", "cerberus", <<>>)
                \/ a = MonitorHandle(req.path, client)
                \/ a = LugHandle(req.path)
                \/ a = Answer("file", "static", req.path)
    <3>1. \/ MonitorHandle(req.path, client).kind = "status"
          \/ MonitorHandle(req.path, client).kind = "exporter" /\ client = "scraper"
      BY MonitorHandleIs
    <3>2. LugHandle(req.path).kind = "status"
          \/ LugHandle(req.path) = Answer("upstream", "lug", req.path)
      BY DEF LugHandle, Answer
    <3>3. Answer("status", "cerberus", <<>>).kind = "status"
      BY DEF Answer
    <3>4. QED
      BY <1>3, <2>4, <2>7, <3>1, <3>2, <3>3 DEF OthersAnswer, a
  <2>8. QED
    BY <2>3, <2>5, <2>6, <2>7
<1>4. QED
  BY <1>2, <1>3

(* The entries of a generated Caddyfile: a redirect has a target, and a      *)
(* proxied repository is behind a service or behind a site.                  *)
LEMMA EntriesWellFormed ==
    ASSUME ConfigInv, req \in Requests, NEW n \in Names
    PROVE  LET e == Entries[n] IN
           /\ e.serve_mode \in {"redir", "redir_force"} =>
                 e.target.host # "absent" /\ e.target.path \in Seq(Words)
           /\ e.serve_mode = "proxy" => e.proxy_to \in Upstreams
<1>1. req.site \in Sites
  BY DEF Requests
<1>2. Entries[n] = Merged(config, req.site)[n]
  BY <1>1 DEF Entries, ConfigInv
<1>3. CASE Entries[n] = config[req.site][n]
  BY <1>1, <1>3 DEF ConfigInv, WellFormed, Upstreams
<1>4. CASE Entries[n] = NoEntry
  <2>1. NoEntry.serve_mode = "none"
    BY DEF NoEntry, Entry
  <2>2. QED
    BY <1>4, <2>1
<1>5. ASSUME NEW t \in Sites, Entries[n] = RewriteConfig(n, config[t][n], t)
      PROVE  LET e == Entries[n] IN
             /\ e.serve_mode \in {"redir", "redir_force"} =>
                   e.target.host # "absent" /\ e.target.path \in Seq(Words)
             /\ e.serve_mode = "proxy" => e.proxy_to \in Upstreams
  <2>1. t # "absent" /\ t \in Upstreams
    BY SitesAre DEF Upstreams
  <2>2. n \in Seq(Words)
    BY NamesApart
  <2>3. WellFormed(config[t][n])
    BY DEF ConfigInv
  <2>4. CASE config[t][n].unified = "proxy"
    BY <1>5, <2>1, <2>4 DEF RewriteConfig, Entry
  <2>5. CASE config[t][n].unified # "proxy"
    <3>1. \/ /\ Entries[n] = [Entry("redir") EXCEPT !.target = HomeTarget(n, t)]
          \/ /\ config[t][n].serve_mode \in {"redir", "redir_force"}
             /\ Entries[n] = [Entry(config[t][n].serve_mode) EXCEPT !.target = config[t][n].target]
          \/ Entries[n] = Entry("mirror_intel")
          \/ Entries[n] = [Entry("default") EXCEPT !.proxy_to = config[t][n].proxy_to]
          \/ Entries[n] = NoEntry
      BY <1>5, <2>5 DEF RewriteConfig
    <3>2. CASE Entries[n] = [Entry("redir") EXCEPT !.target = HomeTarget(n, t)]
      <4>1. Entries[n].serve_mode = "redir" /\ Entries[n].target = HomeTarget(n, t)
        BY <3>2 DEF Entry
      <4>2. HomeTarget(n, t).host = t /\ HomeTarget(n, t).path = n
        BY DEF HomeTarget
      <4>3. QED
        BY <2>1, <2>2, <4>1, <4>2
    <3>3. CASE /\ config[t][n].serve_mode \in {"redir", "redir_force"}
               /\ Entries[n] = [Entry(config[t][n].serve_mode) EXCEPT !.target = config[t][n].target]
      <4>1. /\ Entries[n].serve_mode = config[t][n].serve_mode
            /\ Entries[n].target = config[t][n].target
        BY <3>3 DEF Entry
      <4>2. QED
        BY <2>3, <3>3, <4>1 DEF WellFormed
    <3>4. CASE \/ Entries[n] = Entry("mirror_intel")
               \/ Entries[n] = [Entry("default") EXCEPT !.proxy_to = config[t][n].proxy_to]
               \/ Entries[n] = NoEntry
      <4>1. /\ Entry("mirror_intel").serve_mode = "mirror_intel"
            /\ [Entry("default") EXCEPT !.proxy_to = config[t][n].proxy_to].serve_mode = "default"
            /\ NoEntry.serve_mode = "none"
        BY DEF Entry, NoEntry
      <4>2. \/ Entries[n].serve_mode = "mirror_intel"
            \/ Entries[n].serve_mode = "default"
            \/ Entries[n].serve_mode = "none"
        BY <3>4, <4>1
      <4>3. QED
        BY <4>2
    <3>5. QED
      BY <3>1, <3>2, <3>3, <3>4
  <2>6. QED
    BY <2>4, <2>5
<1>6. QED
  BY <1>1, <1>2, <1>3, <1>4, <1>5, MergedIs, SitesAre

LEMMA RepoAnswerIs ==
    ASSUME ConfigInv, req \in Requests, NEW n, RepoAnswers(n)
    PROVE  LET repo == DictToRepo(Entries[n]) IN
           \/ repo.class = "FileServerRepo" /\ HandlerAnswer.kind = "status"
           \/ /\ repo.class = "FileServerRepo" /\ HandlerAnswer.kind = "file"
              /\ HandlerAnswer.host = req.site
           \/ /\ repo.class = "ProxyRepo" /\ HandlerAnswer.kind = "upstream"
              /\ HandlerAnswer.host \in Upstreams
           \/ /\ repo.class = "RedirRepo" /\ HandlerAnswer.kind = "redirect"
              /\ HandlerAnswer.host # "absent" /\ HandlerAnswer.path \in Seq(Words)
<1> DEFINE repo == DictToRepo(Entries[n])
<1>1. n \in Names /\ n \in Seq(Words) /\ repo.class # "None"
  BY NamesApart DEF RepoAnswers, Served, IsRepo
<1>2. req.path \in Seq(Words)
  BY DEF Requests
<1>3. /\ IsRepo(Entries[n])
      /\ repo.class = "ProxyRepo" => repo.to \in Upstreams
      /\ repo.class = "RedirRepo" =>
            repo.target.host # "absent" /\ repo.target.path \in Seq(Words)
  <2>1. /\ Entries[n].serve_mode \in {"redir", "redir_force"} =>
              /\ Entries[n].target.host # "absent"
              /\ Entries[n].target.path \in Seq(Words)
        /\ Entries[n].serve_mode = "proxy" => Entries[n].proxy_to \in Upstreams
    BY <1>1, EntriesWellFormed
  <2>2. {"mirror-intel", "rsync-gateway", "git-backend"} \subseteq Upstreams
    BY DEF Upstreams
  <2>3. QED
    BY <1>1, <2>1, <2>2, RepoIs DEF IsRepo
<1>4. \/ HandlerAnswer = AsRepo(DictToRepo(Entries[n]), n, req.site, req.path)
      \/ HandlerAnswer = AsSubdomain(DictToRepo(Entries[n]), n, req.site, req.path)
  BY DEF RepoAnswers
<1>5. AnswerOf(repo, HandlerAnswer, req.site, Words)
  BY <1>1, <1>2, <1>3, <1>4, HandlerAnswers
<1>6. QED
  BY <1>3, <1>5 DEF AnswerOf

----------------------------------------------------------------------------
(* Every action preserves what is known of the request                       *)

(* What is known, but for the entries, which never change.                   *)
Known == HopInv /\ PassedInv /\ AnswerInv

LEMMA ConnectKnown == RequestInv /\ Connect => Known'
<1> SUFFICES ASSUME RequestInv, Connect PROVE Known'
  OBVIOUS
<1>1. UNCHANGED <<merged, client, req>>
  BY DEF Connect
<1>2. /\ stage = 0 /\ charged = FALSE /\ UNCHANGED <<charged, encoded>>
      /\ req \in Requests /\ charged \in BOOLEAN /\ encoded \in BOOLEAN
  BY DEF Connect, RequestInv, HopInv, PassedInv
<1>3. CASE \/ /\ stage' = 0 /\ req.host # "base" /\ answer'.kind = "status"
              /\ req.host = "subdomain" => answer' = Answer("status", "abort", <<>>)
           \/ /\ stage' = 0 /\ req.host = "subdomain" /\ req.scheme = "http"
              /\ HasSubdomain(req.name)
              /\ answer' = Answer("secure", req.site, req.path)
  <2>1. HopInv'
    BY <1>1, <1>2, <1>3, SameRequest DEF HopInv
  <2>2. PassedInv'
    BY <1>2, <1>3 DEF PassedInv
  <2>3. AnswerInv'
    BY <1>1, <1>3, SameRequest DEF AnswerInv
  <2>4. QED
    BY <2>1, <2>2, <2>3 DEF Known
<1>4. CASE /\ stage' = 1 /\ answer' = NoAnswer
           /\ \/ req.host = "base"
              \/ /\ req.host = "subdomain" /\ HasSubdomain(req.name) /\ req.scheme = "https"
  BY <1>1, <1>2, <1>4, SameRequest DEF Known, HopInv, PassedInv, AnswerInv
<1>5. QED
  BY <1>2, <1>3, <1>4 DEF Connect, Answer

LEMMA WafKnown == RequestInv /\ Waf => Known'
<1> SUFFICES ASSUME RequestInv, Waf PROVE Known'
  OBVIOUS
<1>1. UNCHANGED <<merged, client, req, charged, encoded>>
  BY DEF Waf
<1>2. stage = 1 /\ answer = NoAnswer
  BY AtStage DEF Waf, RequestInv, HopInv
<1>3. \/ stage' = 1 /\ client = "banned" /\ answer'.kind = "status"
      \/ stage' = 2 /\ client # "banned" /\ answer' = NoAnswer
  BY <1>2 DEF Waf, Reply, Pass, Answer
<1>4. HopInv'
  BY <1>1, <1>2, <1>3, SameRequest DEF RequestInv, HopInv
<1>5. PassedInv'
  BY <1>1, <1>2, <1>3, SameRequest DEF RequestInv, PassedInv
<1>6. AnswerInv'
  BY <1>1, <1>3 DEF AnswerInv
<1>7. QED
  BY <1>4, <1>5, <1>6 DEF Known

LEMMA BandwidthQuotaKnown == RequestInv /\ BandwidthQuota => Known'
<1> SUFFICES ASSUME RequestInv, BandwidthQuota PROVE Known'
  OBVIOUS
<1>1. UNCHANGED <<merged, client, req, encoded>>
  BY DEF BandwidthQuota
<1>2. stage = 2 /\ answer = NoAnswer
  BY AtStage DEF BandwidthQuota, RequestInv, HopInv
<1>3. CASE QuotaMatches /\ client = "exhausted"
  <2>1. stage' = 2 /\ answer' = Answer("status", "429", <<>>) /\ charged' = charged
    BY <1>2, <1>3 DEF BandwidthQuota, Reply
  <2>2. HopInv'
    BY <1>1, <1>2, <2>1, SameRequest DEF RequestInv, HopInv
  <2>3. PassedInv'
    BY <1>1, <1>2, <2>1, SameRequest DEF RequestInv, PassedInv
  <2>4. AnswerInv'
    BY <1>1, <1>3, <2>1 DEF AnswerInv, Answer
  <2>5. QED
    BY <2>2, <2>3, <2>4 DEF Known
<1>4. CASE ~(QuotaMatches /\ client = "exhausted")
  <2>1. stage' = 3 /\ answer' = NoAnswer /\ charged' = QuotaMatches
    BY <1>2, <1>4 DEF BandwidthQuota, Pass
  <2>2. QuotaMatches \in BOOLEAN
    BY DEF QuotaMatches, ServesDirectly
  <2>3. HopInv'
    BY <1>1, <1>2, <2>1, <2>2, SameRequest DEF RequestInv, HopInv
  <2>4. PassedInv'
    BY <1>1, <1>2, <1>4, <2>1, SameRequest DEF RequestInv, PassedInv
  <2>5. AnswerInv'
    BY <2>1 DEF AnswerInv
  <2>6. QED
    BY <2>3, <2>4, <2>5 DEF Known
<1>5. QED
  BY <1>3, <1>4

LEMMA CerberusKnown == RequestInv /\ Cerberus => Known'
<1> SUFFICES ASSUME RequestInv, Cerberus PROVE Known'
  OBVIOUS
<1>1. UNCHANGED <<merged, client, req, charged, encoded>>
  BY DEF Cerberus
<1>2. stage = 3 /\ answer = NoAnswer
  BY AtStage DEF Cerberus, RequestInv, HopInv
<1>3. \/ /\ stage' = 3 /\ client \in {"blocked", "browser"} /\ answer'.kind = "status"
      \/ stage' = 4 /\ answer' = NoAnswer /\ PassedCerberus
  BY <1>2 DEF Cerberus, PassedCerberus, Reply, Pass, Answer
<1>4. HopInv'
  BY <1>1, <1>2, <1>3, SameRequest DEF RequestInv, HopInv
<1>5. PassedInv'
  BY <1>1, <1>2, <1>3, SameRequest DEF RequestInv, PassedInv
<1>6. AnswerInv'
  BY <1>1, <1>2, <1>3 DEF AnswerInv
<1>7. QED
  BY <1>4, <1>5, <1>6 DEF Known

LEMMA RedirKnown == RequestInv /\ Redir => Known'
<1> SUFFICES ASSUME RequestInv, Redir PROVE Known'
  OBVIOUS
<1>1. UNCHANGED <<merged, client, req, charged, encoded>>
  BY DEF Redir
<1>2. stage = 4 /\ answer = NoAnswer
  BY AtStage DEF Redir, RequestInv, HopInv
<1>3. \/ /\ stage' = 4 /\ req.host = "base" /\ req.path \in RouteNames(Entries, req.scheme)
         /\ answer' = Answer("slash", req.site, Append(req.path, ""))
      \/ /\ stage' = 5 /\ answer' = NoAnswer
         /\ ~(req.host = "base" /\ req.path \in RouteNames(Entries, req.scheme))
  <2>1. CASE req.host = "base" /\ req.path \in RouteNames(Entries, req.scheme)
    BY <1>2, <2>1 DEF Redir, Reply
  <2>2. CASE ~(req.host = "base" /\ req.path \in RouteNames(Entries, req.scheme))
    <3>1. Pass
      BY <2>2, Zenon DEF Redir
    <3>2. QED
      BY <1>2, <2>2, <3>1 DEF Pass
  <2>3. QED
    BY <2>1, <2>2
<1>4. \/ stage' = 4
      \/ stage' = 5 /\ ~(req.host = "base" /\ req.path \in RouteNames(Entries, req.scheme))
  BY <1>3, Zenon
<1>5. HopInv'
  BY <1>1, <1>2, <1>4, SameRequest DEF RequestInv, HopInv
<1>6. ASSUME stage' > 4
      PROVE  ~(req.host = "base" /\ req.path \in RouteNames(Entries, req.scheme))'
  <2>1. ~(req.host = "base" /\ req.path \in RouteNames(Entries, req.scheme))
    BY <1>4, <1>6
  <2>2. RouteNames(Entries, req.scheme)' = RouteNames(Entries, req.scheme)
    BY <1>1, SameRequest
  <2>3. QED
    BY <1>1, <2>1, <2>2
<1>7. PassedInv'
  BY <1>1, <1>2, <1>4, <1>6, SameRequest DEF RequestInv, PassedInv
<1>8. AnswerInv'
  BY <1>1, <1>2, <1>3, SameRequest DEF AnswerInv
<1>9. QED
  BY <1>5, <1>7, <1>8 DEF Known

LEMMA EncodeKnown == RequestInv /\ Encode => Known'
<1> SUFFICES ASSUME RequestInv, Encode PROVE Known'
  OBVIOUS
<1>1. UNCHANGED <<merged, client, req, charged>>
  BY DEF Encode
<1>2. stage = 5 /\ answer = NoAnswer
  BY AtStage DEF Encode, RequestInv, HopInv
<1>3. stage' = 6 /\ answer' = NoAnswer
  BY <1>2 DEF Encode, Pass
<1>4. encoded' \in BOOLEAN
  BY DEF Encode, EnableRepoGzip
<1>5. HopInv'
  BY <1>1, <1>2, <1>3, <1>4, SameRequest DEF RequestInv, HopInv
<1>6. PassedInv'
  BY <1>1, <1>2, <1>3, SameRequest DEF RequestInv, PassedInv
<1>7. AnswerInv'
  BY <1>3 DEF AnswerInv
<1>8. QED
  BY <1>5, <1>6, <1>7 DEF Known

LEMMA HandleKnown == RequestInv /\ Handle => Known'
<1> SUFFICES ASSUME RequestInv, Handle PROVE Known'
  OBVIOUS
<1>1. UNCHANGED <<merged, client, req, charged, encoded>>
  BY DEF Handle
<1>2. stage = 6 /\ stage' = 6 /\ answer' = HandlerAnswer
  BY AtStage DEF Handle, Reply, RequestInv, HopInv
<1>3. HopInv'
  BY <1>1, <1>2, SameRequest DEF RequestInv, HopInv
<1>4. PassedInv'
  BY <1>1, <1>2, SameRequest DEF RequestInv, PassedInv
<1>5. AnswerInv'
  BY <1>1, <1>2, SameRequest DEF AnswerInv
<1>6. QED
  BY <1>3, <1>4, <1>5 DEF Known

(* A redirect leads to a request for a path of the same words.               *)
LEMMA FollowableIs ==
    ASSUME RequestInv, Followable
    PROVE  /\ answer.kind # "none"
           /\ answer.kind \in {"slash", "redirect"} => answer.path \in Seq(Words)
<1>1. req \in Requests /\ req.path \in Seq(Words)
  BY DEF RequestInv, HopInv, Requests
<1>2. CASE answer = Answer("slash", req.site, Append(req.path, ""))
  <2>1. Append(req.path, "") \in Seq(Words)
    BY <1>1, NamesFromWords, AppendProperties
  <2>2. answer.kind = "slash" /\ answer.path = Append(req.path, "")
    BY <1>2 DEF Answer
  <2>3. QED
    BY <2>1, <2>2
<1>3. CASE answer.kind = "status" \/ answer.kind = "secure" \/ answer = NoAnswer
  BY <1>3 DEF Followable, NoAnswer
<1>4. CASE stage = 6 /\ answer = HandlerAnswer
  <2>1. \/ req.host = "base"
        \/ req.host = "subdomain" /\ HasSubdomain(req.name)
    BY <1>4 DEF RequestInv, HopInv
  <2>2. CASE OthersAnswer
    BY <1>4, <2>2 DEF OthersAnswer, Followable, Answer
  <2>3. ASSUME NEW n \in Names, RepoAnswers(n)
        PROVE  answer.kind = "redirect" => answer.path \in Seq(Words)
    BY <1>1, <1>4, <2>3, RepoAnswerIs DEF RequestInv
  <2>4. ASSUME NEW n \in Names, RepoAnswers(n)
        PROVE  answer.kind # "slash" /\ answer.kind # "none"
    BY <1>1, <1>4, <2>4, RepoAnswerIs DEF RequestInv
  <2>5. QED
    BY <1>1, <2>1, <2>2, <2>3, <2>4, HandlerAnswerIs
<1>5. Answer("secure", req.site, req.path).kind = "secure"
  BY DEF Answer
<1>6. QED
  BY <1>2, <1>3, <1>4, <1>5 DEF RequestInv, AnswerInv

LEMMA FollowKnown == RequestInv /\ Follow => Known'
<1> SUFFICES ASSUME RequestInv, Follow PROVE Known'
  OBVIOUS
<1>1. stage' = 0 /\ answer' = NoAnswer /\ charged' = FALSE /\ encoded' = FALSE
  BY DEF Follow
<1>2. Followable /\ req \in Requests
  BY DEF Follow, RequestInv, HopInv
<1>3. req' \in Requests
  <2>1. CASE answer.kind = "slash"
    <3>1. req' = [req EXCEPT !.path = answer.path] /\ answer.path \in Seq(Words)
      BY <1>2, <2>1, FollowableIs DEF Follow
    <3>2. QED
      BY <1>2, <3>1 DEF Requests
  <2>2. CASE answer.kind = "secure"
    <3>1. req' = [req EXCEPT !.scheme = "https"]
      BY <2>2 DEF Follow
    <3>2. QED
      BY <1>2, <3>1 DEF Requests, Schemes
  <2>3. CASE answer.kind = "redirect"
    <3>1. /\ req' = [site |-> answer.host, scheme |-> "https", host |-> "base",
                     name |-> <<>>, path |-> answer.path]
          /\ answer.path \in Seq(Words) /\ answer.host \in Sites
      BY <1>2, <2>3, FollowableIs DEF Follow, Followable
    <3>2. <<>> \in Seq(Words)
      OBVIOUS
    <3>3. QED
      BY <3>1, <3>2 DEF Requests, Schemes, Hosts
  <2>4. QED
    BY <1>2, <2>1, <2>2, <2>3 DEF Followable
<1>4. charged' \in BOOLEAN /\ encoded' \in BOOLEAN
  BY <1>1
<1>5. HopInv'
  BY <1>1, <1>3, <1>4 DEF HopInv
<1>6. PassedInv' /\ AnswerInv'
  BY <1>1 DEF PassedInv, AnswerInv
<1>7. QED
  BY <1>5, <1>6 DEF Known

THEOREM RequestCorrect == Spec => []RequestInv
<1>1. RequestInv /\ [Next]_vars => RequestInv'
  <2> SUFFICES ASSUME RequestInv, [Next]_vars PROVE RequestInv'
    OBVIOUS
  <2>1. ConfigInv'
    BY NextConfigInv DEF RequestInv
  <2>2. CASE UNCHANGED vars
    <3>1. UNCHANGED <<merged, client, req>>
      BY <2>2 DEF vars
    <3>2. HopInv'
      BY <2>2, <3>1, SameRequest DEF vars, RequestInv, HopInv
    <3>3. PassedInv'
      BY <2>2, <3>1, SameRequest DEF vars, RequestInv, PassedInv
    <3>4. AnswerInv'
      BY <2>2, <3>1, SameRequest DEF vars, RequestInv, AnswerInv
    <3>5. QED
      BY <2>1, <3>2, <3>3, <3>4 DEF RequestInv
  <2>3. CASE Next
    <3>1. Known'
      BY <2>3, ConnectKnown, WafKnown, BandwidthQuotaKnown, CerberusKnown, RedirKnown,
         EncodeKnown, HandleKnown, FollowKnown DEF Next
    <3>2. QED
      BY <2>1, <3>1 DEF RequestInv, Known
  <2>4. QED
    BY <2>2, <2>3
<1>2. QED
  BY <1>1, InitRequestInv, PTL DEF Spec

----------------------------------------------------------------------------
(* The properties                                                            *)

(* Which stage answers how.                                                  *)
LEMMA StageAnswers ==
    ASSUME RequestInv
    PROVE  \/ answer = NoAnswer /\ answer.kind = "none"
           \/ stage = 0 /\ req.host # "base" /\ answer.kind \in {"status", "secure"}
           \/ stage = 1 /\ client = "banned" /\ answer.kind = "status"
           \/ stage = 2 /\ client = "exhausted" /\ answer.kind = "status"
           \/ stage = 3 /\ client \in {"blocked", "browser"} /\ answer.kind = "status"
           \/ stage = 4 /\ req.path \in RouteNames(Entries, req.scheme) /\ answer.kind = "slash"
           \/ stage = 6 /\ answer = HandlerAnswer
<1>1. /\ NoAnswer.kind = "none"
      /\ Answer("secure", req.site, req.path).kind = "secure"
      /\ Answer("slash", req.site, Append(req.path, "")).kind = "slash"
  BY DEF Answer, NoAnswer
<1>2. QED
  BY <1>1 DEF RequestInv, AnswerInv

(* No service but those of a repository is one of its upstreams.             *)
LEMMA UpstreamsAre ==
    ASSUME ConfigInv
    PROVE  "frontend" \notin Upstreams /\ "lug" \notin Upstreams
<1>1. "frontend" \notin Sites /\ "lug" \notin Sites
  BY SitesAre
<1>2. \A s \in Sites, n \in Names :
         config[s][n].proxy_to # "frontend" /\ config[s][n].proxy_to # "lug"
  BY DEF ConfigInv, WellFormed
<1>3. QED
  BY <1>1, <1>2 DEF Upstreams

(* A body is sent at the end of the pipeline: that of a repository by the    *)
(* handler of one that serves directly, any other one past all of them.      *)
LEMMA BodySent ==
    ASSUME RequestInv, answer.kind \in {"file", "upstream", "exporter"}
    PROVE  /\ stage = 6 /\ answer = HandlerAnswer
           /\ \/ OthersAnswer /\ ~RepositoryContent
              \/ /\ RepositoryContent
                 /\ \E n \in Names :
                       RepoAnswers(n) /\ ServesDirectly(DictToRepo(Entries[n]))
<1>1. stage = 6 /\ answer = HandlerAnswer
  BY StageAnswers
<1>2. /\ ConfigInv /\ req \in Requests /\ req.site \in Sites
      /\ \/ req.host = "base"
         \/ req.host = "subdomain" /\ HasSubdomain(req.name)
  BY <1>1 DEF RequestInv, HopInv, Requests
<1>3. CASE OthersAnswer
  <2>1. "static" \notin Sites
    BY SitesAre
  <2>2. ~RepositoryContent
    BY <1>1, <1>2, <1>3, <2>1, UpstreamsAre DEF OthersAnswer, RepositoryContent, Answer
  <2>3. QED
    BY <1>1, <1>3, <2>2
<1>4. ASSUME NEW n \in Names, RepoAnswers(n)
      PROVE  RepositoryContent /\ ServesDirectly(DictToRepo(Entries[n]))
  BY <1>1, <1>2, <1>4, RepoAnswerIs DEF RepositoryContent, ServesDirectly
<1>5. QED
  BY <1>1, <1>2, <1>3, <1>4, HandlerAnswerIs

(* The paths of the quota are those of the handlers that send.               *)
LEMMA QuotaIs ==
    ASSUME RequestInv, answer.kind \in {"file", "upstream", "exporter"}, client # "poster"
    PROVE  QuotaMatches <=> RepositoryContent
<1>1. CASE OthersAnswer /\ ~RepositoryContent
  <2>1. req.host = "base" /\ \A n \in RouteNames(Entries, req.scheme) : ~Below(req.path, n)
    BY <1>1 DEF OthersAnswer
  <2>2. ~QuotaMatches
    BY <2>1 DEF QuotaMatches, QuotaNames
  <2>3. QED
    BY <1>1, <2>2
<1>2. ASSUME NEW n \in Names, RepositoryContent, RepoAnswers(n),
             ServesDirectly(DictToRepo(Entries[n]))
      PROVE  QuotaMatches
  BY <1>2 DEF QuotaMatches, RepoAnswers, QuotaNames
<1>3. QED
  BY <1>1, <1>2, BodySent

LEMMA DownloadsChargedInv == RequestInv => DownloadsCharged
<1> SUFFICES ASSUME RequestInv, answer.kind \in {"file", "upstream", "exporter"},
                    client # "poster"
             PROVE  charged <=> RepositoryContent
  BY DEF DownloadsCharged
<1>1. stage = 6
  BY BodySent
<1>2. stage > 2 => (charged <=> QuotaMatches)
  BY DEF RequestInv, PassedInv
<1>3. charged <=> QuotaMatches
  BY <1>1, <1>2
<1>4. QED
  BY <1>3, QuotaIs

(* The body of a response is counted exactly when it is the content of a     *)
(* repository: the paths of the quota agree with the handlers' routes.       *)
THEOREM DownloadsCounted == Spec => []DownloadsCharged
BY RequestCorrect, DownloadsChargedInv, PTL

LEMMA RequestTypeInv == RequestInv => RequestTypeOK
<1> SUFFICES ASSUME RequestInv PROVE RequestTypeOK
  OBVIOUS
<1>1. stage \in 0..Len(Pipeline)
  BY AtStage DEF RequestInv, HopInv
<1>2. /\ client \in ClientKinds /\ req \in Requests
      /\ charged \in BOOLEAN /\ encoded \in BOOLEAN
  BY DEF RequestInv, ConfigInv, HopInv
<1>3. CASE stage = 6 /\ answer = HandlerAnswer
  <2>1. \/ req.host = "base"
        \/ req.host = "subdomain" /\ HasSubdomain(req.name)
    BY <1>3 DEF RequestInv, HopInv
  <2>2. CASE OthersAnswer
    <3>1. /\ Answer("secure", req.site, req.path).kind = "secure"
          /\ Answer("upstream", "frontend", req.path).kind = "upstream"
          /\ Answer("upstream", "lug", req.path).kind = "upstream"
          /\ Answer("file", "static", req.path).kind = "file"
      BY DEF Answer
    <3>2. answer.kind \in {"status", "exporter", "secure", "upstream", "file"}
      BY <1>3, <2>2, <3>1 DEF OthersAnswer
    <3>3. QED
      BY <1>1, <1>2, <3>2 DEF RequestTypeOK
  <2>3. ASSUME NEW n \in Names, RepoAnswers(n)
        PROVE  RequestTypeOK
    <3>1. /\ answer.kind \in {"status", "file", "upstream", "redirect"}
          /\ answer.kind = "redirect" => answer.host # "absent"
      BY <1>2, <1>3, <2>3, RepoAnswerIs DEF RequestInv
    <3>2. QED
      BY <1>1, <1>2, <3>1 DEF RequestTypeOK
  <2>4. QED
    BY <1>2, <2>1, <2>2, <2>3, HandlerAnswerIs
<1>4. CASE ~(stage = 6 /\ answer = HandlerAnswer)
  <2>1. answer.kind \in {"none", "status", "slash", "secure"}
    BY <1>4, StageAnswers
  <2>2. QED
    BY <1>1, <1>2, <2>1 DEF RequestTypeOK
<1>5. QED
  BY <1>3, <1>4

(* A request keeps its form through every redirect, and every redirect that  *)
(* a handler answers with has a target.                                      *)
THEOREM RequestTypeCorrect == Spec => []RequestTypeOK
BY RequestCorrect, RequestTypeInv, PTL

LEMMA PlainHTTPInv == RequestInv => PlainHTTPOnlyWhenAsked
<1> SUFFICES ASSUME RequestInv, RepositoryContent, req.scheme = "http"
             PROVE  \E n \in Names : Below(req.path, n) /\ config[req.site][n].no_redir_http
  BY DEF PlainHTTPOnlyWhenAsked
<1>1. answer.kind \in {"file", "upstream", "exporter"}
  BY DEF RepositoryContent
<1>2. PICK n \in Names : RepoAnswers(n)
  BY <1>1, BodySent
<1>3. req.host = "base" /\ req.site \in Sites
  BY <1>1, BodySent DEF RequestInv, HopInv, Requests
<1>4. Below(req.path, n) /\ Entries[n].no_redir_http
  BY <1>2, <1>3 DEF RepoAnswers, RouteNames
<1>5. Entries[n] = Merged(config, req.site)[n]
  BY <1>3 DEF Entries, RequestInv, ConfigInv
<1>6. ~NoEntry.no_redir_http
  BY DEF NoEntry, Entry
<1>7. config[req.site][n].no_redir_http
  <2>1. \/ Merged(config, req.site)[n] = config[req.site][n]
        \/ Merged(config, req.site)[n] = NoEntry
        \/ \E t \in Sites : Merged(config, req.site)[n] = RewriteConfig(n, config[t][n], t)
    BY MergedIs, SitesAre
  <2>2. \A t \in Sites : ~RewriteConfig(n, config[t][n], t).no_redir_http
    BY RewriteConfigOptions
  <2>3. QED
    BY <1>4, <1>5, <1>6, <2>1, <2>2
<1>8. QED
  BY <1>4, <1>7

(* A site sends content over plain http only below a repository whose own    *)
(* entry asks for that, whatever it serves for the other sites.              *)
THEOREM PlainHTTP == Spec => []PlainHTTPOnlyWhenAsked
BY RequestCorrect, PlainHTTPInv, PTL

LEMMA ScreenedInv == RequestInv => ScreenedFirst
<1> SUFFICES ASSUME RequestInv PROVE ScreenedFirst
  OBVIOUS
<1>1. ASSUME client = "banned"
      PROVE  answer.kind \in {"none", "status", "secure"}
  <2>1. ~(stage > 1)
    BY <1>1 DEF RequestInv, PassedInv
  <2>2. QED
    BY <2>1, StageAnswers
<1>2. ASSUME client = "exhausted"
      PROVE  ~RepositoryContent
  <2> SUFFICES ASSUME RepositoryContent PROVE FALSE
    OBVIOUS
  <2>1. answer.kind \in {"file", "upstream", "exporter"}
    BY DEF RepositoryContent
  <2>2. QuotaMatches /\ stage = 6
    BY <1>2, <2>1, QuotaIs, BodySent
  <2>3. QED
    BY <1>2, <2>2 DEF RequestInv, PassedInv
<1>3. ASSUME client = "blocked", req.host = "base", ~CerberusExcluded(req.path),
             ~Below(req.path, CerberusEndpoint)
      PROVE  answer.kind \in {"none", "status"}
  <2>1. ~PassedCerberus
    BY <1>3 DEF PassedCerberus
  <2>2. ~(stage > 3)
    BY <2>1 DEF RequestInv, PassedInv
  <2>3. QED
    BY <1>3, <2>2, StageAnswers
<1>4. ASSUME client = "browser", RepositoryContent, req.host = "base"
      PROVE  Last(req.path) \notin LargeFiles \/ CerberusExcluded(req.path)
  <2>1. answer.kind \in {"file", "upstream", "exporter"}
    BY <1>4 DEF RepositoryContent
  <2>2. PassedCerberus
    <3>1. stage = 6
      BY <2>1, BodySent
    <3>2. stage > 3 => PassedCerberus
      BY DEF RequestInv, PassedInv
    <3>3. QED
      BY <3>1, <3>2
  <2>3. PICK n \in Names : Below(req.path, n)
    BY <1>4, <2>1, BodySent DEF RepoAnswers
  <2>4. req.path # <<>>
    BY <2>3, NamesApart, BelowIs DEF RequestInv, HopInv, Requests
  <2>5. QED
    BY <1>4, <2>2, <2>4 DEF PassedCerberus, Challenged
<1>5. QED
  BY <1>1, <1>2, <1>3, <1>4 DEF ScreenedFirst

(* The firewall, the quota and cerberus see every request before a handler   *)
(* answers for a repository, on every host and behind every redirect.        *)
THEOREM Screened == Spec => []ScreenedFirst
BY RequestCorrect, ScreenedInv, PTL

----------------------------------------------------------------------------
(* The monitor                                                               *)

LEMMA MonitorPathIs ==
    ASSUME NEW path \in MonitorPaths, path \in Seq(Words)
    PROVE  /\ Len(path) = 3 /\ path[1] = "monitor"
           /\ MonitorHandle(path, "scraper") = Answer("exporter", path[2], <<path[3]>>)
<1>1. \/ path = <<"monitor", "node_exporter", "metrics">>
      \/ path = <<"monitor", "cadvisor", "metrics">>
      \/ path = <<"monitor", "caddy", "metrics">>
      \/ path = <<"monitor", "lug", "metrics">>
      \/ path = <<"monitor", "mirror-intel", "metrics">>
      \/ path = <<"monitor", "vector", "metrics">>
      \/ path = <<"monitor", "rsync-gateway", "_metrics">>
  BY DEF MonitorPaths, ScrapePaths, ProbePaths
<1>2. Len(path) = 3 /\ path[1] = "monitor"
  BY <1>1
<1>3. CASE path = <<"monitor", "caddy", "metrics">>
  <2>1. path[2] = "caddy" /\ path[3] = "metrics"
    BY <1>3
  <2>2. MonitorHandle(path, "scraper") = Answer("exporter", "caddy", <<"metrics">>)
    <3>1. "caddy" \notin Exporters
      BY DEF Exporters
    <3>2. QED
      BY <1>3, <2>1, <3>1 DEF MonitorHandle
  <2>3. QED
    BY <1>2, <2>1, <2>2
<1>4. CASE path # <<"monitor", "caddy", "metrics">>
  <2>1. path[2] \in Exporters
    BY <1>1, <1>4 DEF Exporters
  <2>2. SubSeq(path, 3, Len(path)) = <<path[3]>>
    BY <1>2, LastOfThree
  <2> DEFINE rest == SubSeq(path, 3, Len(path))
  <2>3. rest # <<>>
    BY <2>2
  <2> HIDE DEF rest
  <2>4. MonitorHandle(path, "scraper") = Answer("exporter", path[2], <<path[3]>>)
    <3>1. MonitorHandle(path, "scraper") = Answer("exporter", path[2], rest)
      BY <1>4, <2>1, <2>3 DEF MonitorHandle, rest
    <3>2. QED
      BY <2>2, <3>1 DEF rest
  <2>5. QED
    BY <1>2, <2>4
<1>5. QED
  BY <1>3, <1>4

(* No repository takes a path of the monitor.                                *)
LEMMA MonitorApart ==
    ASSUME NEW path \in MonitorPaths, path \in Seq(Words), NEW n \in Names
    PROVE  n # path /\ ~Below(path, n)
<1>1. path[1] \in ReservedHeads
  BY MonitorPathIs, Reserved
<1>2. n \in Seq(Words) /\ n # <<>> /\ n[1] \notin ReservedHeads
  BY NamesApart
<1>3. Below(path, n) => n[1] = path[1]
  BY <1>2, BelowIs
<1>4. QED
  BY <1>1, <1>2, <1>3

(* A path of the monitor is answered by its exporter, after a redirect to    *)
(* https when it was asked over http.                                        *)
LEMMA MonitorAnswers ==
    ASSUME RequestInv, client = "scraper", req.path \in MonitorPaths, req.host = "base"
    PROVE  \/ answer = NoAnswer /\ answer.kind = "none"
           \/ answer = Answer("secure", req.site, req.path)
           \/ answer = Answer("exporter", req.path[2], <<req.path[3]>>)
<1>1. req.path \in Seq(Words) /\ req.scheme \in {"http", "https"}
  BY DEF RequestInv, HopInv, Requests, Schemes
<1>2. \A n \in RouteNames(Entries, req.scheme) : req.path # n /\ ~Below(req.path, n)
  BY <1>1, MonitorApart DEF RouteNames
<1>3. \/ answer = NoAnswer /\ answer.kind = "none"
      \/ stage = 6 /\ answer = HandlerAnswer
  BY <1>2, StageAnswers
<1>4. CASE stage = 6 /\ answer = HandlerAnswer
  <2>1. answer = HandleRequest(Entries, req.site, req.scheme, req.path, "scraper")
    BY <1>4 DEF HandlerAnswer
  <2>2. RequestAnswer(Entries, req.site, req.scheme, req.path, "scraper", answer)
    BY <1>1, <2>1, NamesFromWords, HandleRequestIs
  <2>3. \A r \in StaticRoutes(req.scheme) :
          Below(req.path, r) => r = <<"monitor">>
    <3>1. \A r \in StaticRoutes(req.scheme) :
            \/ r = <<".cerberus">> \/ r = <<"mirrorz">> \/ r = <<"lug">>
            \/ r = <<"monitor">> \/ r = <<".well-known">>
      BY DEF StaticRoutes, CerberusEndpoint
    <3>2. ASSUME NEW h \in ReservedHeads, Below(req.path, <<h>>)
          PROVE  h = req.path[1]
      <4>1. h \in Words
        BY NamesFromWords DEF NamesFrom
      <4>2. QED
        BY <1>1, <3>2, <4>1, BelowHead
    <3>3. {".cerberus", "mirrorz", "lug", "monitor", ".well-known"} \subseteq ReservedHeads
      BY Reserved
    <3>4. req.path[1] = "monitor"
      BY <1>1, MonitorPathIs
    <3>5. QED
      BY <3>1, <3>2, <3>3, <3>4
  <2>4. <<"monitor">> \in StaticRoutes("https") /\ Below(req.path, <<"monitor">>)
    <3>1. PICK h \in Words : h = "monitor"
      BY NamesFromWords, Reserved DEF NamesFrom
    <3>2. Len(req.path) = 3 /\ req.path[1] = "monitor"
      BY <1>1, MonitorPathIs
    <3>3. 1 < Len(req.path) /\ req.path[1] = h
      BY <3>1, <3>2
    <3>4. Below(req.path, <<h>>) <=> 1 < Len(req.path) /\ req.path[1] = h
      BY <1>1, BelowHead
    <3>5. Below(req.path, <<h>>)
      BY <3>3, <3>4, Zenon
    <3>6. <<"monitor">> \in StaticRoutes("https")
      BY DEF StaticRoutes
    <3>7. QED
      BY <3>1, <3>5, <3>6
  <2>5. CASE /\ \A r \in StaticRoutes(req.scheme) : ~Below(req.path, r)
             /\ answer = IF req.scheme = "https" THEN FrontendHandle(req.path)
                         ELSE RedirectToHTTPS(req.site, req.path)
    BY <1>1, <2>4, <2>5 DEF RedirectToHTTPS
  <2>6. CASE \E r \in StaticRoutes(req.scheme) :
               /\ Below(req.path, r)
               /\ \/ r = CerberusEndpoint /\ answer = Answer("status", "cerberus", <<>>)
                  \/ r = <<"monitor">> /\ answer = MonitorHandle(req.path, "scraper")
                  \/ r = <<"lug">> /\ answer = LugHandle(req.path)
                  \/ /\ r \in {<<"mirrorz">>, <<".well-known">>}
                     /\ answer = Answer("file", "static", req.path)
    <3>1. answer = MonitorHandle(req.path, "scraper")
      BY <2>3, <2>6 DEF CerberusEndpoint
    <3>2. QED
      BY <1>1, <3>1, MonitorPathIs
  <2>7. QED
    BY <1>2, <2>2, <2>5, <2>6 DEF RequestAnswer
<1>5. QED
  BY <1>3, <1>4

(* The scraper's request stays on its path.                                  *)
MonitorInv ==
    client = "scraper" /\ first.path \in MonitorPaths /\ first.host = "base" =>
        req.host = "base" /\ req.path = first.path

LEMMA NextMonitorInv == RequestInv /\ MonitorInv /\ [Next]_vars => MonitorInv'
<1> SUFFICES ASSUME RequestInv, MonitorInv, [Next]_vars PROVE MonitorInv'
  OBVIOUS
<1>1. UNCHANGED <<client, first>>
  BY DEF Next, vars, Connect, Waf, BandwidthQuota, Cerberus, Redir, Encode, Handle, Follow
<1>2. CASE UNCHANGED req
  BY <1>1, <1>2 DEF MonitorInv
<1>3. CASE Follow
  <2> SUFFICES ASSUME client = "scraper", first.path \in MonitorPaths, first.host = "base"
               PROVE  req'.host = "base" /\ req'.path = first.path
    BY <1>1 DEF MonitorInv
  <2>1. req.host = "base" /\ req.path = first.path /\ req \in Requests
    BY DEF MonitorInv, RequestInv, HopInv
  <2>2. answer.kind = "secure"
    BY <1>3, <2>1, MonitorAnswers DEF Follow, Followable, Answer
  <2>3. req' = [req EXCEPT !.scheme = "https"]
    BY <1>3, <2>2 DEF Follow
  <2>4. QED
    BY <2>1, <2>3 DEF Requests
<1>4. QED
  BY <1>2, <1>3 DEF Next, vars, Connect, Waf, BandwidthQuota, Cerberus, Redir, Encode, Handle

LEMMA MonitorGuardedInv == RequestInv /\ MonitorInv => MonitorGuarded
<1> SUFFICES ASSUME RequestInv, MonitorInv PROVE MonitorGuarded
  OBVIOUS
<1>1. ASSUME answer.kind = "exporter"
      PROVE  client = "scraper"
  <2>1. answer = HandlerAnswer /\ (OthersAnswer \/ RepositoryContent)
    BY <1>1, BodySent
  <2>2. ~RepositoryContent
    BY <1>1 DEF RepositoryContent
  <2>3. QED
    BY <1>1, <2>1, <2>2 DEF OthersAnswer, Answer
<1>2. ASSUME client = "scraper", first.path \in MonitorPaths, first.host = "base", Final
      PROVE  answer = Answer("exporter", first.path[2], <<first.path[3]>>)
  <2>1. req.host = "base" /\ req.path = first.path /\ req.site \in Sites
    BY <1>2 DEF MonitorInv, RequestInv, HopInv, Requests
  <2>2. answer # NoAnswer
    BY <1>2 DEF Final
  <2>3. answer # Answer("secure", req.site, req.path)
    BY <1>2, <2>1 DEF Final, Followable, Answer
  <2>4. QED
    BY <1>2, <2>1, <2>2, <2>3, MonitorAnswers
<1>3. QED
  BY <1>1, <1>2 DEF MonitorGuarded

(* Every path that the monitor scrapes or probes ends at the exporter that   *)
(* it names, whatever the repositories are called, and no exporter answers   *)
(* anybody else.                                                             *)
THEOREM MonitorReached == Spec => []MonitorGuarded
<1>1. Init => MonitorInv
  BY DEF Init, MonitorInv
<1>2. QED
  BY <1>1, RequestCorrect, NextMonitorInv, MonitorGuardedInv, PTL DEF Spec

----------------------------------------------------------------------------
(* The owner                                                                 *)

(* The files are as the deployed ones: there are two sites, what a site      *)
(* shares it serves itself, and not through the others; a repository with a  *)
(* subdomain has no other one inside, and what it hides does not depend on   *)
(* its name.  It is enough to know this of the names above the asked path.   *)
OwnersClear ==
    /\ \A s, t, u \in Sites : s = t \/ s = u \/ t = u
    /\ \A s \in Sites, n \in Names : IsPrefix(n, Asked) =>
          /\ Registers(config, s, n) =>
                Served(config[s], n) /\ config[s][n].unified # "proxy"
          /\ config[s][n].subdomain =>
                /\ config[s][n].show_hidden \in {"no", "all"} /\ ~IsDotted(n)
                /\ \A m \in Names : IsStrictPrefix(n, m) => ~Served(Merged(config, s), m)

(* The entry of s for n is its own, or none at all, or the one that the      *)
(* other site shares.                                                        *)
Owner(s, n, h) ==
    /\ h \in Sites
    /\ \/ h = s /\ Merged(config, s)[n] = config[s][n]
       \/ /\ h # s /\ Served(config[h], n)
          /\ StandsFor(Merged(config, s)[n], config[h][n], n, h)

LEMMA OwnerIs ==
    ASSUME ConfigInv, OwnersClear, NEW s \in Sites, NEW n \in Names, IsPrefix(n, Asked)
    PROVE  Owner(s, n, Home(s, n))
<1> DEFINE R == {i \in 1..Len(SiteOrder) : Registers(config, SiteOrder[i], n)}
           S == {i \in 1..Len(SiteOrder) :
                    /\ IsRepo(config[SiteOrder[i]][n])
                    /\ config[SiteOrder[i]][n].unified # "disable"}
<1>1. SiteOrder \in Seq(Sites)
  BY SitesAre
<1>2. \A t \in Sites : Registers(config, t, n) =>
                          IsRepo(config[t][n]) /\ config[t][n].unified # "proxy"
                          /\ Served(config[t], n)
  BY DEF OwnersClear, Served
<1>3. R = S
  <2>1. \A t \in Sites :
          Registers(config, t, n) <=> IsRepo(config[t][n]) /\ config[t][n].unified # "disable"
    BY <1>2, RepoRewritten DEF Registers
  <2>2. \A i \in 1..Len(SiteOrder) : SiteOrder[i] \in Sites
    BY <1>1
  <2>3. QED
    BY <2>1, <2>2
<1>4. CASE config[s][n] # NoEntry
  BY <1>4 DEF Home, Owner, Merged
<1>5. CASE config[s][n] = NoEntry /\ R = {}
  <2>1. Home(s, n) = s
    BY <1>3, <1>5 DEF Home
  <2>2. Merged(config, s)[n] = config[s][n]
    BY <1>5 DEF Merged, Rewritten
  <2>3. QED
    BY <2>1, <2>2 DEF Owner
<1>6. CASE config[s][n] = NoEntry /\ R # {}
  <2> DEFINE h == SiteOrder[Min(R)]
  <2>1. Min(R) \in R
    <3>1. R \in SUBSET Nat
      OBVIOUS
    <3> HIDE DEF R
    <3>2. QED
      BY <1>6, <3>1, MinOfNaturals
  <2>2. h \in Sites /\ Registers(config, h, n)
    BY <1>1, <2>1
  <2>3. Home(s, n) = h
    <3>1. Home(s, n) = IF S = {} THEN s ELSE SiteOrder[Min(S)]
      BY <1>6 DEF Home
    <3>2. QED
      BY <1>3, <1>6, <3>1
  <2>4. Merged(config, s)[n] = RewriteConfig(n, config[h][n], h)
    BY <1>6 DEF Merged, Rewritten
  <2>5. h # s
    BY <1>6, <2>2 DEF Registers
  <2> HIDE DEF h
  <2>6. ~KeyErrors(Merged(config, s)[n])
    BY DEF ConfigInv, Generates
  <2>7. StandsFor(Merged(config, s)[n], config[h][n], n, h)
    BY <1>2, <2>2, <2>4, <2>6, RewrittenStandsFor
  <2>8. QED
    BY <1>2, <2>2, <2>3, <2>5, <2>7 DEF Owner
<1>7. QED
  BY <1>4, <1>5, <1>6

(* The asked path is made of words, like everything that is compared to it.  *)
LEMMA AskedIs ==
    ASSUME ConfigInv
    PROVE  /\ Asked \in Seq(Words)
           /\ \A n \in Names : n \in Seq(Words)
           /\ first.site \in Sites /\ first.path \in Seq(Words)
<1>1. /\ first.site \in Sites /\ first.path \in Seq(Words)
      /\ first.host = "subdomain" => first.name \in Names
  BY DEF ConfigInv, Requests
<1>2. \A n \in Names : n \in Seq(Words)
  BY NamesApart
<1>3. CASE first.host = "subdomain"
  <2>1. first.name \o first.path \in Seq(Words)
    BY <1>1, <1>2, <1>3, ConcatRest
  <2>2. QED
    BY <1>1, <1>2, <1>3, <2>1 DEF Asked
<1>4. QED
  BY <1>1, <1>2, <1>3 DEF Asked

(* What counts is what the site's Caddyfile has above the asked path.        *)
LEMMA AskedNamesAre ==
    ASSUME ConfigInv, OwnersClear, NEW s \in Sites, NEW n
    PROVE  n \in AskedNames(s) <=>
              n \in Names /\ Served(Merged(config, s), n) /\ IsPrefix(n, Asked)
<1>1. ASSUME n \in Names, IsPrefix(n, Asked)
      PROVE  Served(config[Home(s, n)], n) <=> Served(Merged(config, s), n)
  <2>1. Owner(s, n, Home(s, n))
    BY <1>1, OwnerIs
  <2>2. QED
    BY <2>1 DEF Owner, StandsFor, Served
<1>2. QED
  BY <1>1 DEF AskedNames

LEMMA DeepestIs ==
    ASSUME ConfigInv, NEW s \in Sites, AskedNames(s) # {}
    PROVE  /\ Deepest(s) \in AskedNames(s)
           /\ \A m \in AskedNames(s) : Len(m) <= Len(Deepest(s))
           /\ \A n \in AskedNames(s) :
                 (\A m \in AskedNames(s) : Len(m) <= Len(n)) => n = Deepest(s)
<1> DEFINE M == AskedNames(s)
           d == Deepest(s)
<1>1. /\ M \subseteq Names /\ M \in SUBSET Seq(Words)
      /\ \A n \in M : IsPrefix(n, Asked)
  BY AskedIs DEF AskedNames
<1>2. Asked \in Seq(Words) /\ Len(Asked) \in Nat
  BY AskedIs
<1>3. \A n \in M : Len(n) \in Nat /\ Len(n) <= Len(Asked)
  BY <1>1, <1>2, PrefixIs
<1>4. \E x \in M : \A q \in M : Len(q) <= Len(x)
  <2> HIDE DEF M
  <2>1. QED
    BY <1>1, <1>2, <1>3, LongestOf DEF M
<1>5. d \in M /\ \A m \in M : Len(m) <= Len(d)
  BY <1>4, Zenon DEF Deepest
<1> HIDE DEF M, d
<1>6. ASSUME NEW n \in M, \A m \in M : Len(m) <= Len(n)
      PROVE  n = d
  <2>1. Len(n) <= Len(d) /\ Len(d) <= Len(n) /\ Len(n) \in Nat /\ Len(d) \in Nat
    BY <1>3, <1>5, <1>6
  <2>2. Len(n) = Len(d)
    BY <2>1
  <2>3. QED
    BY <1>1, <1>2, <1>5, <2>2, PrefixesNest
<1>7. QED
  BY <1>5, <1>6 DEF M, d

(* The request is for the asked path, or for the asked name with its slash.  *)
AtAsked ==
    /\ req.host = "base"
    /\ \/ req.path = Asked
       \/ req.path = Append(Asked, "") /\ Asked \in AskedNames(req.site)

(* Past the redirect of the bare name the routes are the asked names.        *)
LEMMA RoutesAsked ==
    ASSUME RequestInv, AtAsked, stage > 4, NEW n \in Names
    PROVE  /\ n \in RouteNames(Entries, req.scheme) =>
                 (Below(req.path, n) <=> IsPrefix(n, Asked))
           /\ Below(req.path, n) <=> IsPrefix(n, Asked) /\ n # req.path
<1>1. /\ ConfigInv /\ Asked \in Seq(Words) /\ n \in Seq(Words)
      /\ req.path \notin RouteNames(Entries, req.scheme)
  BY AskedIs DEF RequestInv, PassedInv, AtAsked
<1>2. CASE req.path = Asked
  BY <1>1, <1>2 DEF Below, IsStrictPrefix
<1>3. CASE req.path = Append(Asked, "")
  <2>1. PICK w \in Words : w = "" /\ \A k \in 1..Len(n) : n[k] # w
    BY RequestsAssumption
  <2>2. req.path = Append(Asked, w)
    BY <1>3, <2>1
  <2>3. Below(Append(Asked, w), n) <=> IsPrefix(n, Asked)
    BY <1>1, <2>1, BelowSlash
  <2>4. Append(Asked, w) # n
    BY <1>1, <2>1, BelowSlash
  <2>5. QED
    BY <2>2, <2>3, <2>4
<1>4. QED
  BY <1>2, <1>3 DEF AtAsked

(* The handler of the deepest asked name answers, or the redirect to https.  *)
LEMMA DeepestAnswers ==
    ASSUME RequestInv, OwnersClear, AtAsked, stage = 6, AskedNames(req.site) # {}
    PROVE  LET n == Deepest(req.site) IN
           \/ /\ n \in RouteNames(Entries, req.scheme) /\ Below(req.path, n)
              /\ HandlerAnswer = AsRepo(DictToRepo(Entries[n]), n, req.site, req.path)
           \/ /\ req.scheme = "http"
              /\ HandlerAnswer = Answer("secure", req.site, req.path)
<1> DEFINE d == Deepest(req.site)
<1>1. /\ ConfigInv /\ req.site \in Sites /\ req.path \in Seq(Words)
      /\ req.scheme = "http" \/ req.scheme = "https"
      /\ Entries = Merged(config, req.site)
  BY DEF RequestInv, ConfigInv, HopInv, Requests, Schemes, Entries
<1>2. /\ d \in AskedNames(req.site)
      /\ \A m \in AskedNames(req.site) : Len(m) <= Len(d)
      /\ \A n \in AskedNames(req.site) :
            (\A m \in AskedNames(req.site) : Len(m) <= Len(n)) => n = d
  BY <1>1, DeepestIs
<1> HIDE DEF d
<1>3. d \in Names /\ Served(Entries, d) /\ IsPrefix(d, Asked) /\ d \in Seq(Words)
  BY <1>1, <1>2, AskedNamesAre, AskedIs
<1>4. \A n \in RouteNames(Entries, req.scheme) :
         /\ n \in Names /\ Served(Entries, n)
         /\ Below(req.path, n) <=> n \in AskedNames(req.site)
  <2>1. ASSUME NEW n \in RouteNames(Entries, req.scheme)
        PROVE  /\ n \in Names /\ Served(Entries, n)
               /\ Below(req.path, n) <=> n \in AskedNames(req.site)
    <3>1. n \in Names /\ Served(Entries, n)
      BY DEF RouteNames
    <3>2. Below(req.path, n) <=> IsPrefix(n, Asked)
      BY <3>1, RoutesAsked
    <3>3. QED
      BY <1>1, <3>1, <3>2, AskedNamesAre
  <2>2. QED
    BY <2>1
<1>5. d \in RouteNames(Entries, req.scheme) <=> req.scheme = "https" \/ Entries[d].no_redir_http
  BY <1>3 DEF RouteNames
<1>6. RequestAnswer(Entries, req.site, req.scheme, req.path, client, HandlerAnswer)
  BY <1>1, NamesFromWords, HandleRequestIs DEF HandlerAnswer, AtAsked
<1>7. CASE /\ \A n \in RouteNames(Entries, req.scheme) : ~Below(req.path, n)
           /\ HandlerAnswer = IF req.scheme = "https" THEN FrontendHandle(req.path)
                              ELSE RedirectToHTTPS(req.site, req.path)
  <2>1. req.scheme = "http"
    BY <1>1, <1>2, <1>4, <1>5, <1>7
  <2>2. QED
    BY <1>7, <2>1 DEF RedirectToHTTPS
<1>8. ASSUME NEW n \in RouteNames(Entries, req.scheme), Below(req.path, n),
             \A m \in RouteNames(Entries, req.scheme) : Below(req.path, m) => Len(m) <= Len(n)
      PROVE  n = d
  <2>1. n \in Names /\ Served(Entries, n) /\ n \in AskedNames(req.site) /\ n \in Seq(Words)
    BY <1>4, <1>8, AskedIs, <1>1
  <2>2. CASE d \in RouteNames(Entries, req.scheme)
    <3>1. Len(d) <= Len(n)
      BY <1>2, <1>4, <1>8, <2>2
    <3>2. \A m \in AskedNames(req.site) : Len(m) <= Len(n)
      <4>1. ASSUME NEW m \in AskedNames(req.site)
            PROVE  Len(m) <= Len(n)
        <5>1. Len(m) <= Len(d) /\ m \in Seq(Words)
          BY <1>1, <1>2, AskedIs DEF AskedNames
        <5>2. QED
          BY <1>3, <2>1, <3>1, <5>1
      <4>2. QED
        BY <4>1
    <3>3. QED
      BY <1>2, <2>1, <3>2
  <2>3. CASE d \notin RouteNames(Entries, req.scheme)
    <3>1. req.scheme = "http" /\ ~Entries[d].no_redir_http /\ Entries[n].no_redir_http
      BY <1>1, <1>5, <2>3 DEF RouteNames
    <3>2. IsPrefix(n, Asked) /\ Asked \in Seq(Words)
      BY <1>1, <2>1, AskedNamesAre, AskedIs
    <3>3. Len(n) <= Len(d) /\ Len(n) \in Nat /\ Len(d) \in Nat
      BY <1>2, <1>3, <2>1
    <3>4. n = d \/ IsStrictPrefix(n, d)
      <4>1. Len(n) = Len(d) \/ Len(n) < Len(d)
        BY <3>3
      <4>2. QED
        BY <1>3, <2>1, <3>2, <4>1, PrefixesNest
    <3>5. ~IsStrictPrefix(n, d)
      <4>1. IsRepo(Entries[n]) /\ IsRepo(Entries[d])
        BY <1>3, <2>1 DEF Served
      <4>2. QED
        BY <1>1, <1>3, <2>1, <3>1, <4>1 DEF ConfigInv, NestedAlike
    <3>6. QED
      BY <3>4, <3>5
  <2>4. QED
    BY <2>2, <2>3
<1>9. CASE \E n \in RouteNames(Entries, req.scheme) :
          /\ Below(req.path, n)
          /\ \A m \in RouteNames(Entries, req.scheme) : Below(req.path, m) => Len(m) <= Len(n)
          /\ HandlerAnswer = AsRepo(DictToRepo(Entries[n]), n, req.site, req.path)
  BY <1>8, <1>9 DEF d
<1>10. CASE /\ \A n \in Names : ~Below(req.path, n)
            /\ \E r \in StaticRoutes(req.scheme) : Below(req.path, r)
  <2>1. req.path = d
    BY <1>3, <1>10, RoutesAsked
  <2>2. req.path[1] \in ReservedHeads
    BY <1>1, <1>10, NamesFromWords, StaticHead DEF NamesFrom
  <2>3. QED
    BY <1>3, <2>1, <2>2, NamesApart
<1>11. QED
  BY <1>6, <1>7, <1>9, <1>10 DEF RequestAnswer

(* The requests that OwnerAnswers speaks of.                                 *)
Tracked ==
    /\ OwnersClear /\ ~Aliased /\ AskedNames(first.site) # {}
    /\ first.host = "base" \/ first.host = "subdomain"

(* The request was sent to the site that owns its repository.                *)
Sent ==
    LET n == Deepest(first.site) IN
    /\ req.site = Lands /\ req.scheme = "https"
    /\ config[req.site][n] # NoEntry /\ Served(config[req.site], n)

(* A request for the subdomain stays there.  One for the base host is at the *)
(* asked site or where that site sent it.                                    *)
TrackInv ==
    Tracked =>
      \/ /\ first.host = "subdomain" /\ req.host = "subdomain"
         /\ req.site = first.site /\ req.name = first.name /\ req.path = first.path
      \/ /\ first.host = "base" /\ AtAsked
         /\ req.site = first.site \/ Sent

(* A site that was sent to owns everything it has above the path: there is   *)
(* no third site, and the asked one has nothing deeper.                      *)
LEMMA SentOwns ==
    ASSUME ConfigInv, Tracked, Sent, req.site \in Sites, req.site # first.site
    PROVE  /\ AskedNames(req.site) # {}
           /\ Home(req.site, Deepest(req.site)) = req.site
<1> DEFINE n0 == Deepest(first.site)
           n1 == Deepest(req.site)
           h == Home(req.site, n1)
<1>1. /\ first.site \in Sites /\ OwnersClear /\ AskedNames(first.site) # {}
  BY AskedIs DEF Tracked
<1>2. /\ n0 \in AskedNames(first.site)
      /\ \A m \in AskedNames(first.site) : Len(m) <= Len(n0)
      /\ \A n \in AskedNames(first.site) :
            (\A m \in AskedNames(first.site) : Len(m) <= Len(n)) => n = n0
  BY <1>1, DeepestIs
<1>3. config[req.site][n0] # NoEntry /\ Served(config[req.site], n0)
  BY DEF Sent
<1> HIDE DEF n0
<1>4. Home(req.site, n0) = req.site
  BY <1>3 DEF Home
<1>5. n0 \in AskedNames(req.site)
  BY <1>2, <1>3, <1>4 DEF AskedNames
<1>6. n1 \in AskedNames(req.site) /\ Len(n0) <= Len(n1)
  BY <1>5, DeepestIs
<1> HIDE DEF n1
<1>7. n1 \in Names /\ IsPrefix(n1, Asked) /\ n1 \in Seq(Words) /\ n0 \in Seq(Words)
  BY <1>2, <1>6, AskedIs DEF AskedNames
<1>8. ASSUME h # req.site
      PROVE  FALSE
  <2>1. h \in Sites /\ Served(config[h], n1)
    <3>1. Owner(req.site, n1, h)
      BY <1>1, <1>7, OwnerIs
    <3>2. QED
      BY <1>8, <3>1 DEF Owner
  <2>2. h = first.site
    BY <1>1, <1>8, <2>1 DEF OwnersClear
  <2>3. config[first.site][n1] # NoEntry
    BY <2>1, <2>2, RepoRewritten DEF Served
  <2>4. Home(first.site, n1) = first.site
    BY <2>3 DEF Home
  <2>5. n1 \in AskedNames(first.site)
    BY <1>7, <2>1, <2>2, <2>4 DEF AskedNames
  <2>6. ASSUME NEW m \in AskedNames(first.site)
        PROVE  Len(m) <= Len(n1)
    <3>1. Len(m) <= Len(n0) /\ m \in Seq(Words)
      BY <1>2, AskedIs DEF AskedNames
    <3>2. QED
      BY <1>6, <1>7, <3>1
  <2>7. n1 = n0
    BY <1>2, <2>5, <2>6
  <2>8. QED
    BY <1>4, <1>8, <2>7
<1>9. QED
  BY <1>5, <1>8 DEF n1

(* The entry answers here: at its own site, or behind mirror-intel.          *)
Here(n, h, repo, path) ==
    /\ h # req.site => req.site = first.site /\ ~Direct(repo)
    /\ HandlerAnswer = AsRepo(repo, n, h, path)

(* The other site has it.                                                    *)
Away(n, h, repo) ==
    /\ h # req.site /\ req.site = first.site /\ Direct(repo)
    /\ HandlerAnswer = Answer("redirect", h, req.path)

(* A configured redirect leads outside.                                      *)
LEMMA RedirectsOutside ==
    ASSUME ~Aliased, NEW s \in Sites, NEW n \in Names, IsPrefix(n, Asked),
           DictToRepo(config[s][n]).class = "RedirRepo"
    PROVE  DictToRepo(config[s][n]).target.host \notin Sites
BY RepoIs DEF Aliased

(* A tracked request that reaches a handler is answered by the owner's entry *)
(* or sent to the owner, or to https.                                        *)
LEMMA TrackedAnswer ==
    ASSUME RequestInv, Tracked, AtAsked, req.site = first.site \/ Sent, stage = 6
    PROVE  LET n    == Deepest(req.site)
               h    == Home(req.site, n)
               repo == DictToRepo(config[h][n])
           IN /\ n \in AskedNames(req.site) /\ Owner(req.site, n, h)
              /\ \/ /\ req.scheme = "http"
                    /\ HandlerAnswer = Answer("secure", req.site, req.path)
                 \/ Below(req.path, n) /\ (Here(n, h, repo, req.path) \/ Away(n, h, repo))
<1> DEFINE n == Deepest(req.site)
           h == Home(req.site, n)
           repo == DictToRepo(config[h][n])
<1>1. /\ ConfigInv /\ OwnersClear /\ req.site \in Sites /\ req.path \in Seq(Words)
      /\ Entries = Merged(config, req.site)
  BY DEF RequestInv, ConfigInv, HopInv, Requests, Tracked, Entries
<1>2. AskedNames(req.site) # {} /\ (h # req.site => req.site = first.site)
  BY <1>1, SentOwns DEF Tracked
<1>3. n \in AskedNames(req.site)
  BY <1>1, <1>2, DeepestIs
<1>4. \/ /\ Below(req.path, n)
         /\ HandlerAnswer = AsRepo(DictToRepo(Entries[n]), n, req.site, req.path)
      \/ /\ req.scheme = "http"
         /\ HandlerAnswer = Answer("secure", req.site, req.path)
  BY <1>1, <1>2, DeepestAnswers
<1> HIDE DEF n
<1>5. n \in Names /\ IsPrefix(n, Asked) /\ n \in Seq(Words)
  BY <1>1, <1>3, AskedIs DEF AskedNames
<1>6. Owner(req.site, n, h)
  BY <1>1, <1>5, OwnerIs
<1> HIDE DEF h
<1>7. CASE /\ Below(req.path, n)
           /\ HandlerAnswer = AsRepo(DictToRepo(Entries[n]), n, req.site, req.path)
  <2>1. ASSUME h = req.site, Entries[n] = config[req.site][n]
        PROVE  Here(n, h, repo, req.path)
    BY <1>7, <2>1 DEF Here
  <2>2. ASSUME h # req.site, StandsFor(Entries[n], config[h][n], n, h), Served(config[h], n)
        PROVE  Here(n, h, repo, req.path) \/ Away(n, h, repo)
    <3>1. CASE Direct(repo) /\ DictToRepo(Entries[n]) = RedirRepo(HomeTarget(n, h), FALSE)
      <4>1. IsPrefix(n, req.path)
        BY <1>7 DEF Below, IsStrictPrefix
      <4>2. HandlerAnswer = Answer("redirect", h, req.path)
        BY <1>1, <1>5, <1>7, <3>1, <4>1, HomeRedirects
      <4>3. QED
        BY <1>2, <2>2, <3>1, <4>2 DEF Away
    <3>2. CASE ~Direct(repo) /\ DictToRepo(Entries[n]) = repo
      <4>1. AsRepo(repo, n, req.site, req.path) = AsRepo(repo, n, h, req.path)
        BY <2>2, <3>2, SiteOfAnswer DEF Served
      <4>2. QED
        BY <1>2, <1>7, <2>2, <3>2, <4>1 DEF Here
    <3>3. QED
      BY <2>2, <3>1, <3>2 DEF StandsFor
  <2>3. Below(req.path, n) /\ (Here(n, h, repo, req.path) \/ Away(n, h, repo))
    BY <1>1, <1>6, <1>7, <2>1, <2>2 DEF Owner
  <2>4. QED
    BY <1>3, <1>6, <2>3 DEF n, h
<1>8. QED
  BY <1>3, <1>4, <1>6, <1>7 DEF n, h

(* The path has its final slash when it is the name itself.                  *)
LEMMA SlashedPath ==
    ASSUME ConfigInv, AtAsked, req.site \in Sites, AskedNames(req.site) # {},
           Below(req.path, Deepest(req.site))
    PROVE  req.path = IF Asked = Deepest(req.site) THEN Append(Asked, "") ELSE Asked
<1> DEFINE n == Deepest(req.site)
<1>1. n \in AskedNames(req.site) /\ \A m \in AskedNames(req.site) : Len(m) <= Len(n)
  BY DeepestIs
<1> HIDE DEF n
<1>2. /\ n \in Seq(Words) /\ Asked \in Seq(Words) /\ IsPrefix(n, Asked)
      /\ Len(n) \in Nat /\ Len(Asked) \in Nat
  BY <1>1, AskedIs DEF AskedNames
<1>3. CASE req.path = Asked
  <2>1. n # Asked
    BY <1>3 DEF Below, IsStrictPrefix, n
  <2>2. QED
    BY <1>3, <2>1 DEF n
<1>4. CASE req.path = Append(Asked, "") /\ Asked \in AskedNames(req.site)
  <2>1. Len(Asked) <= Len(n) /\ Len(n) <= Len(Asked)
    BY <1>1, <1>2, <1>4, PrefixIs
  <2>2. Len(Asked) = Len(n)
    BY <1>2, <2>1
  <2>3. \A j \in 1..Len(n) : n[j] = Asked[j]
    BY <1>2, PrefixIs
  <2>4. n = Asked
    BY <1>2, <2>2, <2>3, SeqEqual
  <2>5. QED
    BY <1>4, <2>4 DEF n
<1>5. QED
  BY <1>3, <1>4 DEF AtAsked

(* The request's own configuration does not change.                          *)
LEMMA SameAsked ==
    ASSUME UNCHANGED <<config, first>>
    PROVE  /\ Asked' = Asked /\ Tracked' = Tracked /\ Lands' = Lands
           /\ Deepest(first.site)' = Deepest(first.site)
<1>1. Asked' = Asked /\ Deepest(first.site)' = Deepest(first.site) /\ Lands' = Lands
  BY DEF Asked, Deepest, AskedNames, Home, Lands
<1>2. OwnersClear' = OwnersClear /\ Aliased' = Aliased
  BY DEF OwnersClear, Aliased, Asked
<1>3. AskedNames(first.site)' = AskedNames(first.site)
  BY DEF AskedNames, Home, Asked
<1>4. Tracked' = Tracked
  BY <1>2, <1>3 DEF Tracked
<1>5. QED
  BY <1>1, <1>4

(* The answer of an entry above the asked path is not followed.              *)
LEMMA NotFollowed ==
    ASSUME ~Aliased, NEW s \in Sites, NEW n \in Names, IsPrefix(n, Asked), NEW t,
           AnswerOf(DictToRepo(config[s][n]), answer, t, Words)
    PROVE  ~Followable
BY RedirectsOutside DEF AnswerOf, Followable

(* The handler of a subdomain is that of an entry of its own site.           *)
LEMMA SubdomainAnswer ==
    ASSUME RequestInv, Tracked, stage = 6,
           first.host = "subdomain", req.host = "subdomain",
           req.site = first.site, req.name = first.name, req.path = first.path
    PROVE  LET s == first.site
               n == first.name
           IN /\ n \in Names /\ IsPrefix(n, Asked)
              /\ Served(config[s], n) /\ Served(Merged(config, s), n)
              /\ config[s][n].subdomain /\ config[s][n] # NoEntry
              /\ HandlerAnswer = AsSubdomain(DictToRepo(config[s][n]), n, s, first.path)
<1> DEFINE s == first.site
           n == first.name
<1>1. /\ ConfigInv /\ OwnersClear /\ s \in Sites /\ n \in Names /\ first.path \in Seq(Words)
      /\ n \in Seq(Words) /\ Entries = Merged(config, s)
      /\ HasSubdomain(n)
  <2>1. ConfigInv /\ first \in Requests /\ HasSubdomain(n) /\ OwnersClear
    BY DEF RequestInv, ConfigInv, HopInv, Tracked
  <2>2. s \in Sites /\ n \in Names /\ first.path \in Seq(Words)
    BY <2>1 DEF Requests
  <2>3. Entries = Merged(config, s)
    BY <2>1, <2>2 DEF ConfigInv, Entries
  <2>4. QED
    BY <2>1, <2>2, <2>3, NamesApart
<1>2. IsPrefix(n, Asked)
  <2>1. Asked = n \o first.path
    BY DEF Asked
  <2>2. QED
    BY <1>1, <2>1, ConcatRest
<1>3. Owner(s, n, Home(s, n))
  BY <1>1, <1>2, OwnerIs
<1>4. Served(Entries, n) /\ Entries[n].subdomain
  BY <1>1 DEF HasSubdomain
<1>5. Entries[n] = config[s][n]
  BY <1>1, <1>3, <1>4 DEF Owner, StandsFor
<1>6. Served(config[s], n)
  BY <1>4, <1>5 DEF Served
<1>7. config[s][n] # NoEntry
  BY <1>6, RepoRewritten DEF Served
<1>8. HandlerAnswer = AsSubdomain(DictToRepo(config[s][n]), n, s, first.path)
  BY <1>5 DEF HandlerAnswer
<1>9. QED
  BY <1>1, <1>2, <1>4, <1>5, <1>6, <1>7, <1>8

LEMMA SubdomainFollow ==
    ASSUME RequestInv, Tracked, Follow,
           first.host = "subdomain", req.host = "subdomain",
           req.site = first.site, req.name = first.name, req.path = first.path
    PROVE  req' = [req EXCEPT !.scheme = "https"]
<1>1. Followable
  BY DEF Follow
<1>2. stage # 6
  <2> SUFFICES ASSUME stage = 6 PROVE FALSE
    OBVIOUS
  <2>1. answer = HandlerAnswer
    BY <1>1 DEF RequestInv, AnswerInv, Followable, NoAnswer
  <2>2. /\ first.name \in Names /\ IsPrefix(first.name, Asked)
        /\ IsRepo(config[first.site][first.name])
        /\ answer = AsSubdomain(DictToRepo(config[first.site][first.name]), first.name,
                                first.site, first.path)
    BY <2>1, SubdomainAnswer DEF Served
  <2>3. /\ first.name \in Seq(Words) /\ first.path \in Seq(Words) /\ first.site \in Sites
        /\ ~Aliased
    BY <2>2, AskedIs DEF RequestInv, Tracked
  <2>4. AnswerOf(DictToRepo(config[first.site][first.name]), answer, first.site, Words)
    BY <2>2, <2>3, HandlerAnswers
  <2>5. QED
    BY <1>1, <2>2, <2>3, <2>4, NotFollowed
<1>3. answer # NoAnswer
  BY <1>1 DEF Followable, NoAnswer
<1>4. stage # 4
  BY <1>3 DEF RequestInv, AnswerInv
<1>5. answer.kind = "secure"
  BY <1>1, <1>2, <1>3, <1>4, StageAnswers DEF Followable
<1>6. QED
  BY <1>5 DEF Follow

LEMMA BaseFollow ==
    ASSUME RequestInv, Tracked, Follow, AtAsked, req.site = first.site \/ Sent
    PROVE  \/ req' = [req EXCEPT !.scheme = "https"]
           \/ /\ req' = [req EXCEPT !.path = Append(Asked, "")]
              /\ Asked \in AskedNames(req.site)
           \/ /\ req'.host = "base" /\ req'.scheme = "https"
              /\ req'.site = Lands /\ req'.path = req.path
              /\ LET n == Deepest(first.site)
                 IN /\ config[Lands][n] # NoEntry /\ Served(config[Lands], n)
                    /\ req.path = Asked \/ (Asked = n /\ n \in AskedNames(Lands))
<1>1. /\ Followable /\ answer # NoAnswer /\ req.host = "base"
      /\ ConfigInv /\ OwnersClear /\ ~Aliased /\ req.site \in Sites /\ req.path \in Seq(Words)
      /\ Entries = Merged(config, req.site) /\ Asked \in Seq(Words)
  <2>1. Followable /\ answer # NoAnswer
    BY DEF Follow, Followable, NoAnswer
  <2>2. req.host = "base" /\ OwnersClear /\ ~Aliased
    BY Zenon DEF AtAsked, Tracked
  <2>3. ConfigInv /\ req.site \in Sites /\ req.path \in Seq(Words)
    BY DEF RequestInv, HopInv, Requests
  <2>4. Entries = Merged(config, req.site) /\ Asked \in Seq(Words)
    BY <2>3, AskedIs DEF ConfigInv, Entries
  <2>5. QED
    BY <2>1, <2>2, <2>3, <2>4
<1>2. \/ /\ stage = 4 /\ req.path \in RouteNames(Entries, req.scheme)
         /\ answer = Answer("slash", req.site, Append(req.path, ""))
      \/ stage = 6 /\ answer = HandlerAnswer
  BY <1>1 DEF RequestInv, AnswerInv, Followable
<1>3. ASSUME req.path \in RouteNames(Entries, req.scheme),
             answer = Answer("slash", req.site, Append(req.path, ""))
      PROVE  /\ req' = [req EXCEPT !.path = Append(Asked, "")]
             /\ Asked \in AskedNames(req.site)
  <2>1. req.path \in Names /\ Served(Entries, req.path)
    BY <1>3 DEF RouteNames
  <2>2. req.path # Append(Asked, "")
    <3>1. PICK w \in Words : w = "" /\ \A k \in 1..Len(req.path) : req.path[k] # w
      BY <2>1, RequestsAssumption
    <3>2. Append(Asked, w) # req.path
      BY <1>1, <3>1, BelowSlash
    <3>3. QED
      BY <3>1, <3>2
  <2>3. req.path = Asked
    BY <2>2 DEF AtAsked
  <2>4. IsPrefix(Asked, Asked)
    BY <1>1, PrefixIs
  <2>5. Asked \in AskedNames(req.site)
    BY <1>1, <2>1, <2>3, <2>4, AskedNamesAre
  <2>6. answer.kind = "slash" /\ answer.path = Append(Asked, "")
    BY <1>3, <2>3 DEF Answer
  <2>7. QED
    BY <2>5, <2>6 DEF Follow
<1>4. ASSUME answer = Answer("secure", req.site, req.path)
      PROVE  req' = [req EXCEPT !.scheme = "https"]
  <2>1. answer.kind = "secure"
    BY <1>4 DEF Answer
  <2>2. QED
    BY <2>1 DEF Follow
<1> DEFINE n == Deepest(req.site)
           h == Home(req.site, n)
           repo == DictToRepo(config[h][n])
<1>5. ASSUME n \in AskedNames(req.site), Owner(req.site, n, h), Here(n, h, repo, req.path),
             answer = HandlerAnswer
      PROVE  FALSE
  <2> HIDE DEF n, h
  <2>1. /\ h \in Sites /\ n \in Names /\ n \in Seq(Words) /\ IsPrefix(n, Asked)
        /\ IsRepo(config[h][n])
    BY <1>1, <1>5, AskedIs DEF AskedNames, Owner, Served, h
  <2>2. answer = AsRepo(repo, n, h, req.path)
    BY <1>5 DEF Here
  <2>3. AnswerOf(repo, answer, h, Words)
    BY <1>1, <2>1, <2>2, HandlerAnswers
  <2>4. QED
    BY <1>1, <2>1, <2>3, NotFollowed
<1>6. ASSUME n \in AskedNames(req.site), Owner(req.site, n, h), Away(n, h, repo),
             Below(req.path, n), answer = HandlerAnswer
      PROVE  /\ req'.host = "base" /\ req'.scheme = "https"
             /\ req'.site = Lands /\ req'.path = req.path
             /\ config[Lands][n] # NoEntry /\ Served(config[Lands], n)
             /\ req.path = Asked \/ (Asked = n /\ n \in AskedNames(Lands))
             /\ n = Deepest(first.site)
  <2>1. req.site = first.site /\ Direct(repo) /\ answer = Answer("redirect", h, req.path)
    BY <1>6 DEF Away
  <2>2. Lands = h /\ n = Deepest(first.site)
    BY <2>1 DEF Lands, Direct
  <2>3. req.path = IF Asked = n THEN Append(Asked, "") ELSE Asked
    BY <1>1, <1>6, SlashedPath
  <2>4. Served(config[h], n) /\ n \in Names /\ IsPrefix(n, Asked)
    BY <1>6 DEF AskedNames
  <2> HIDE DEF n, h
  <2>5. config[h][n] # NoEntry
    BY <2>4, RepoRewritten DEF Served
  <2>6. Home(h, n) = h
    BY <2>5 DEF Home
  <2>7. n \in AskedNames(h)
    BY <2>4, <2>6 DEF AskedNames
  <2>8. answer.kind = "redirect" /\ answer.host = h /\ answer.path = req.path
    BY <2>1 DEF Answer
  <2>9. req' = [site |-> h, scheme |-> "https", host |-> "base", name |-> <<>>,
                path |-> req.path]
    BY <2>8 DEF Follow
  <2>10. QED
    BY <2>2, <2>3, <2>4, <2>5, <2>7, <2>9
<1>7. CASE stage = 6 /\ answer = HandlerAnswer
  <2>1. /\ n \in AskedNames(req.site) /\ Owner(req.site, n, h)
        /\ \/ answer = Answer("secure", req.site, req.path)
           \/ Below(req.path, n) /\ (Here(n, h, repo, req.path) \/ Away(n, h, repo))
    BY <1>7, TrackedAnswer
  <2>2. QED
    BY <1>4, <1>5, <1>6, <1>7, <2>1
<1>8. QED
  BY <1>2, <1>3, <1>7

LEMMA NextTrackInv == RequestInv /\ TrackInv /\ [Next]_vars => TrackInv'
<1> SUFFICES ASSUME RequestInv, TrackInv, [Next]_vars PROVE TrackInv'
  OBVIOUS
<1>1. UNCHANGED <<config, first>>
  BY DEF Next, vars, Connect, Waf, BandwidthQuota, Cerberus, Redir, Encode, Handle, Follow
<1>2. CASE UNCHANGED req
  <2>1. Tracked' = Tracked
    BY <1>1, SameAsked
  <2>2. AtAsked' = AtAsked
    BY <1>1, <1>2 DEF AtAsked, Asked, AskedNames, Home
  <2>3. Sent' = Sent
    <3>1. Lands' = Lands /\ Deepest(first.site)' = Deepest(first.site)
      BY <1>1, SameAsked
    <3>2. QED
      BY <1>1, <1>2, <3>1 DEF Sent
  <2>4. QED
    BY <1>1, <1>2, <2>1, <2>2, <2>3 DEF TrackInv
<1>3. CASE Follow
  <2> SUFFICES ASSUME Tracked
               PROVE  TrackInv'
    BY <1>1, SameAsked DEF TrackInv
  <2>1. CASE /\ first.host = "subdomain" /\ req.host = "subdomain"
             /\ req.site = first.site /\ req.name = first.name /\ req.path = first.path
    <3>1. req' = [req EXCEPT !.scheme = "https"]
      BY <1>3, <2>1, SubdomainFollow
    <3>2. /\ req'.host = req.host /\ req'.site = req.site /\ req'.name = req.name
          /\ req'.path = req.path
      BY <3>1 DEF RequestInv, HopInv, Requests
    <3>3. QED
      BY <1>1, <2>1, <3>2 DEF TrackInv
  <2>2. CASE first.host = "base" /\ AtAsked /\ (req.site = first.site \/ Sent)
    <3>1. Asked' = Asked /\ Lands' = Lands /\ Deepest(first.site)' = Deepest(first.site)
      BY <1>1, SameAsked
    <3>2. req \in Requests
      BY DEF RequestInv, HopInv
    <3>3. CASE req' = [req EXCEPT !.scheme = "https"]
      <4>1. /\ req'.host = req.host /\ req'.site = req.site /\ req'.path = req.path
            /\ req'.scheme = "https"
        BY <3>3, <3>2 DEF Requests
      <4>2. AtAsked'
        BY <1>1, <2>2, <4>1 DEF AtAsked, Asked, AskedNames, Home
      <4>3. Sent => Sent'
        BY <1>1, <3>1, <4>1 DEF Sent
      <4>4. QED
        BY <1>1, <2>2, <4>1, <4>2, <4>3 DEF TrackInv
    <3>4. CASE /\ req' = [req EXCEPT !.path = Append(Asked, "")]
               /\ Asked \in AskedNames(req.site)
      <4>1. /\ req'.host = req.host /\ req'.site = req.site /\ req'.path = Append(Asked, "")
            /\ req'.scheme = req.scheme
        BY <3>4, <3>2 DEF Requests
      <4>2. AskedNames(req.site)' = AskedNames(req.site)
        BY <1>1, <4>1 DEF AskedNames, Home, Asked
      <4>3. AtAsked'
        BY <2>2, <3>4, <3>1, <4>1, <4>2 DEF AtAsked
      <4>4. Sent => Sent'
        BY <1>1, <3>1, <4>1 DEF Sent
      <4>5. QED
        BY <1>1, <2>2, <4>1, <4>3, <4>4 DEF TrackInv
    <3>5. CASE /\ req'.host = "base" /\ req'.scheme = "https"
               /\ req'.site = Lands /\ req'.path = req.path
               /\ LET n == Deepest(first.site)
                  IN /\ config[Lands][n] # NoEntry /\ Served(config[Lands], n)
                     /\ req.path = Asked \/ (Asked = n /\ n \in AskedNames(Lands))
      <4>1. Sent'
        BY <1>1, <3>5, <3>1 DEF Sent
      <4>2. AskedNames(req.site)' = AskedNames(Lands)
        BY <1>1, <3>5 DEF AskedNames, Home, Asked
      <4>3. AtAsked'
        BY <2>2, <3>5, <3>1, <4>2 DEF AtAsked
      <4>4. QED
        BY <1>1, <2>2, <4>1, <4>3 DEF TrackInv
    <3>6. QED
      BY <1>3, <2>2, <3>3, <3>4, <3>5, BaseFollow
  <2>3. QED
    BY <2>1, <2>2 DEF TrackInv
<1>4. QED
  BY <1>2, <1>3 DEF Next, vars, Connect, Waf, BandwidthQuota, Cerberus, Redir, Encode, Handle

LEMMA InitTrackInv == Init => TrackInv
BY DEF Init, TrackInv, Tracked, AtAsked, Asked

(* An endpoint of the gateway belongs to an entry of the site itself.        *)
LEMMA GatewayEntry ==
    ASSUME ConfigInv, NEW s \in Sites, NEW n \in Names, IsRepo(config[s][n]),
           DictToRepo(config[s][n]).to = "rsync-gateway"
    PROVE  Direct(DictToRepo(config[s][n])) /\ n \in Endpoints(config[s])
<1> DEFINE e == config[s][n]
<1>1. WellFormed(e)
  BY DEF ConfigInv
<1> HIDE DEF e
<1>2. e.proxy_to # "rsync-gateway"
  BY <1>1 DEF WellFormed
<1>3. e.serve_mode = "rsync_gateway" /\ DictToRepo(e).class = "ProxyRepo"
  BY <1>2 DEF DictToRepo, NoRepo, FileServerRepo, ProxyRepo, RedirRepo, e
<1>4. QED
  BY <1>3 DEF Direct, ServesDirectly, Endpoints, e

(* What OwnerAnswers says of the owner, at the base host.                    *)
LEMMA BaseOwner ==
    ASSUME RequestInv, Tracked, AtAsked, req.site = first.site \/ Sent, stage = 6,
           answer = HandlerAnswer, Final
    PROVE  LET n     == Deepest(Lands)
               home  == Home(Lands, n)
               repo  == DictToRepo(config[home][n])
               path  == IF Asked = n THEN Append(Asked, "") ELSE Asked
           IN /\ answer = AsRepo(repo, n, home, path)
              /\ ServesDirectly(repo) /\ repo.to # "mirror-intel" => req.site = home
              /\ repo.to = "rsync-gateway" => n \in Endpoints(config[req.site])
<1> DEFINE n == Deepest(req.site)
           h == Home(req.site, n)
           repo == DictToRepo(config[h][n])
           path == IF Asked = n THEN Append(Asked, "") ELSE Asked
<1>1. ConfigInv /\ req.site \in Sites /\ ~Followable
  BY DEF RequestInv, HopInv, Requests, Final
<1>2. /\ n \in AskedNames(req.site) /\ Owner(req.site, n, h)
      /\ \/ answer = Answer("secure", req.site, req.path)
         \/ Below(req.path, n) /\ (Here(n, h, repo, req.path) \/ Away(n, h, repo))
  BY TrackedAnswer
<1>3. answer # Answer("secure", req.site, req.path)
  BY <1>1 DEF Followable, Answer
<1>4. ~Away(n, h, repo)
  <2> SUFFICES ASSUME Away(n, h, repo) PROVE FALSE
    OBVIOUS
  <2>1. answer = Answer("redirect", h, req.path) /\ h \in Sites
    <3> HIDE DEF n, h
    <3>1. QED
      BY <1>2 DEF Away, Owner
  <2> HIDE DEF n, h
  <2>2. QED
    BY <1>1, <2>1 DEF Followable, Answer
<1>5. Below(req.path, n) /\ Here(n, h, repo, req.path)
  BY <1>2, <1>3, <1>4
<1>6. req.path = path
  BY <1>1, <1>2, <1>5, SlashedPath
<1>7. Lands = req.site
  <2>1. CASE req.site = first.site
    <3>1. Direct(repo) => h = req.site
      BY <1>5 DEF Here
    <3>2. QED
      BY <2>1, <3>1 DEF Lands, Direct
  <2>2. CASE Sent
    BY <2>2 DEF Sent
  <2>3. QED
    BY <2>1, <2>2
<1>8. /\ h \in Sites /\ n \in Names /\ IsRepo(config[h][n])
  <2>1. n \in Names /\ Served(config[h], n)
    BY <1>2 DEF AskedNames
  <2> HIDE DEF n, h
  <2>2. QED
    BY <1>2, <2>1 DEF Owner, Served
<1> HIDE DEF n, h, path
<1>9. answer = AsRepo(repo, n, h, path)
  BY <1>5, <1>6 DEF Here
<1>10. Direct(repo) => req.site = h
  BY <1>5 DEF Here
<1>11. repo.to = "rsync-gateway" => n \in Endpoints(config[req.site])
  BY <1>1, <1>8, <1>10, GatewayEntry
<1>12. QED
  BY <1>7, <1>9, <1>10, <1>11 DEF n, h, path, Direct

(* What OwnerAnswers says of the owner, at a subdomain.                      *)
LEMMA SubdomainOwner ==
    ASSUME RequestInv, Tracked, stage = 6, answer = HandlerAnswer,
           first.host = "subdomain", req.host = "subdomain",
           req.site = first.site, req.name = first.name, req.path = first.path
    PROVE  LET n     == Deepest(Lands)
               home  == Home(Lands, n)
               repo  == DictToRepo(config[home][n])
               path  == IF Asked = n THEN Append(Asked, "") ELSE Asked
           IN /\ answer = AsRepo(repo, n, home, path)
              /\ ServesDirectly(repo) /\ repo.to # "mirror-intel" => req.site = home
              /\ repo.to = "rsync-gateway" => n \in Endpoints(config[req.site])
<1> DEFINE s == first.site
           n == first.name
           e == config[s][n]
<1>1. /\ n \in Names /\ IsPrefix(n, Asked)
      /\ Served(config[s], n) /\ Served(Merged(config, s), n)
      /\ e.subdomain /\ e # NoEntry
      /\ answer = AsSubdomain(DictToRepo(e), n, s, first.path)
  BY SubdomainAnswer
<1>2. /\ ConfigInv /\ OwnersClear /\ s \in Sites /\ n \in Seq(Words) /\ Asked \in Seq(Words)
      /\ first.path \in Seq(Words) /\ first.path # <<>> /\ IsRepo(e)
  <2>1. ConfigInv /\ OwnersClear /\ IsRepo(e)
    BY <1>1 DEF RequestInv, Tracked, Served
  <2>2. first.path # <<>>
    BY <2>1 DEF ConfigInv
  <2>3. QED
    BY <1>1, <2>1, <2>2, AskedIs
<1>3. Asked = n \o first.path
  BY DEF Asked
<1>4. /\ e.show_hidden \in {"no", "all"} /\ ~IsDotted(n)
      /\ \A m \in Names : IsStrictPrefix(n, m) => ~Served(Merged(config, s), m)
  BY <1>1, <1>2 DEF OwnersClear
<1>5. Home(s, n) = s
  BY <1>1 DEF Home
<1>6. n = Deepest(s)
  <2>1. n \in AskedNames(s)
    BY <1>1, <1>5 DEF AskedNames
  <2>2. Deepest(s) \in AskedNames(s) /\ Len(n) <= Len(Deepest(s))
    BY <1>2, <2>1, DeepestIs
  <2> DEFINE d == Deepest(s)
  <2>3. /\ d \in Names /\ Served(Merged(config, s), d) /\ IsPrefix(d, Asked)
        /\ d \in Seq(Words)
    BY <1>2, <2>2, AskedNamesAre, AskedIs
  <2> HIDE DEF d
  <2>4. ~IsStrictPrefix(n, d)
    BY <1>4, <2>3
  <2>5. Len(n) <= Len(d) /\ Len(n) \in Nat /\ Len(d) \in Nat
    BY <1>2, <2>2, <2>3 DEF d
  <2>6. Len(n) = Len(d)
    <3>1. Len(n) < Len(d) => IsStrictPrefix(n, d)
      BY <1>1, <1>2, <2>3, PrefixesNest
    <3>2. QED
      BY <2>4, <2>5, <3>1
  <2>7. n = d
    BY <1>1, <1>2, <2>3, <2>6, PrefixesNest
  <2>8. QED
    BY <2>7 DEF d
<1>7. Lands = s
  BY <1>5, <1>6 DEF Lands
<1>8. Asked # n
  <2>1. Len(Asked) = Len(n) + Len(first.path) /\ Len(n) \in Nat /\ Len(first.path) \in Nat
    BY <1>2, <1>3, ConcatRest
  <2>2. Len(first.path) # 0
    BY <1>2
  <2>3. \A i, j \in Nat : j # 0 => i + j # i
    OBVIOUS
  <2>4. Len(Asked) # Len(n)
    BY <2>1, <2>2, <2>3
  <2>5. QED
    BY <2>4
<1> HIDE DEF s, n, e
<1>9. answer = AsRepo(DictToRepo(e), n, s, Asked)
  BY <1>1, <1>2, <1>3, <1>4, SubdomainAsRepo DEF n, s
<1>10. req.site = s
  BY DEF s
<1>11. DictToRepo(e).to = "rsync-gateway" => n \in Endpoints(config[req.site])
  BY <1>1, <1>2, <1>10, GatewayEntry DEF e
<1>12. QED
  BY <1>5, <1>6, <1>7, <1>8, <1>9, <1>10, <1>11 DEF e

LEMMA OwnerAnswersInv == RequestInv /\ TrackInv /\ OwnersClear => OwnerAnswers
<1> SUFFICES ASSUME RequestInv, TrackInv, OwnersClear, Final, client = "plain",
                    \/ first.host = "base"
                    \/ /\ first.host = "subdomain"
                       /\ answer # Answer("status", "abort", <<>>),
                    AskedNames(first.site) # {}, ~Aliased
             PROVE  LET n     == Deepest(Lands)
                        home  == Home(Lands, n)
                        repo  == DictToRepo(config[home][n])
                        path  == IF Asked = n THEN Append(Asked, "") ELSE Asked
                    IN /\ answer = AsRepo(repo, n, home, path)
                       /\ ServesDirectly(repo) /\ repo.to # "mirror-intel" => req.site = home
                       /\ repo.to = "rsync-gateway" => n \in Endpoints(config[req.site])
  BY DEF OwnerAnswers
<1>1. Tracked
  BY DEF Tracked
<1>2. answer # NoAnswer /\ ~Followable /\ req.site \in Sites
  BY DEF Final, RequestInv, HopInv, Requests
<1>3. CASE first.host = "base" /\ AtAsked /\ (req.site = first.site \/ Sent)
  <2>1. req.host = "base"
    BY <1>3 DEF AtAsked
  <2>2. answer # Answer("slash", req.site, Append(req.path, ""))
    <3>1. /\ Answer("slash", req.site, Append(req.path, "")).kind = "slash"
          /\ Answer("slash", req.site, Append(req.path, "")).host = req.site
      BY DEF Answer
    <3>2. QED
      BY <1>2, <3>1 DEF Followable
  <2>3. stage = 6 /\ answer = HandlerAnswer
    BY <1>2, <2>1, <2>2 DEF RequestInv, AnswerInv
  <2>4. QED
    BY <1>1, <1>3, <2>3, BaseOwner
<1>4. CASE /\ first.host = "subdomain" /\ req.host = "subdomain"
           /\ req.site = first.site /\ req.name = first.name /\ req.path = first.path
  <2>1. answer # Answer("secure", req.site, req.path)
    BY <1>2 DEF Followable, Answer
  <2>2. answer # Answer("status", "abort", <<>>)
    BY <1>4
  <2>3. stage = 6 /\ answer = HandlerAnswer
    BY <1>2, <1>4, <2>1, <2>2 DEF RequestInv, AnswerInv
  <2>4. QED
    BY <1>1, <1>4, <2>3, SubdomainOwner
<1>5. QED
  BY <1>1, <1>3, <1>4 DEF TrackInv

(* At two sites whose files say clearly who has what, every request for a    *)
(* repository ends with the answer of its owner's entry, wherever and        *)
(* however it was asked, whatever the names, paths and options are.          *)
THEOREM OwnerReached == Spec => [](OwnersClear => OwnerAnswers)
BY RequestCorrect, InitTrackInv, NextTrackInv, OwnerAnswersInv, PTL DEF Spec
=============================================================================
