------------------------- MODULE CaddyRoutes_proofs -------------------------
(***************************************************************************)
(* What the operators of CaddyRoutes compute, for every set of names and   *)
(* paths: the order of the handlers, the longest route of a path, and what *)
(* the merge makes of an entry.                                            *)
(***************************************************************************)
EXTENDS CaddyRoutes, SequenceTheorems, WellFoundedInduction, TLAPS

(* Every set of naturals has a least and, when it is bounded, a largest       *)
(* element: what the CHOOSE of the route and of the first site rest on.       *)
LEMMA LeastNatural ==
    ASSUME NEW T \in SUBSET Nat, T # {}
    PROVE  \E x \in T : \A y \in T : x <= y
<1> DEFINE R == OpToRel(<, Nat)
<1>1. IsWellFoundedOn(R, Nat)
  BY NatLessThanWellFounded
<1>2. \A x, y \in Nat : y < x => <<y, x>> \in R
  BY DEF OpToRel
<1> HIDE DEF R
<1>3. PICK x \in T : \A y \in T : ~ (<<y, x>> \in R)
  BY <1>1, WFMin
<1>4. \A y \in T : ~(y < x)
  BY <1>2, <1>3
<1>5. QED
  BY <1>4

LEMMA LargestNatural ==
    ASSUME NEW bound \in Nat, NEW T \in SUBSET (0..bound), T # {}
    PROVE  \E x \in T : \A y \in T : y <= x
<1> DEFINE U == {bound - x : x \in T}
<1>1. U \in SUBSET Nat
  <2>1. \A x \in T : bound - x \in Nat
    OBVIOUS
  <2>2. QED
    BY <2>1
<1>2. U # {}
  OBVIOUS
<1>3. PICK u \in U : \A v \in U : u <= v
  BY <1>1, <1>2, LeastNatural
<1>4. PICK x \in T : u = bound - x
  BY <1>3
<1>5. ASSUME NEW y \in T
      PROVE  y <= x
  <2>1. bound - x <= bound - y
    BY <1>3, <1>4
  <2>2. QED
    BY <2>1
<1>6. QED
  BY <1>5

LEMMA MinOfNaturals ==
    ASSUME NEW T \in SUBSET Nat, T # {}
    PROVE  Min(T) \in T /\ \A y \in T : Min(T) <= y
BY LeastNatural DEF Min

----------------------------------------------------------------------------
(* Prefixes                                                                  *)

LEMMA PrefixIs ==
    ASSUME NEW W, NEW s \in Seq(W), NEW t \in Seq(W)
    PROVE  IsPrefix(s, t) <=> Len(s) <= Len(t) /\ \A j \in 1..Len(s) : s[j] = t[j]
<1>1. SubSeq(s, 1, Len(s)) = s
  BY SubSeqFull
<1>2. CASE Len(s) <= Len(t)
  <2>1. /\ SubSeq(t, 1, Len(s)) \in Seq(W)
        /\ Len(SubSeq(t, 1, Len(s))) = Len(s)
        /\ \A j \in 1..Len(s) : SubSeq(t, 1, Len(s))[j] = t[j]
    BY <1>2
  <2>2. s = SubSeq(t, 1, Len(s)) <=> \A j \in 1..Len(s) : s[j] = SubSeq(t, 1, Len(s))[j]
    BY <2>1, SeqEqual
  <2>3. QED
    BY <1>1, <1>2, <2>1, <2>2 DEF IsPrefix
<1>3. QED
  BY <1>2 DEF IsPrefix

LEMMA BelowIs ==
    ASSUME NEW W, NEW path \in Seq(W), NEW name \in Seq(W)
    PROVE  Below(path, name) <=>
              Len(name) < Len(path) /\ \A j \in 1..Len(name) : name[j] = path[j]
<1>1. CASE Len(name) = Len(path)
  <2>1. (\A j \in 1..Len(name) : name[j] = path[j]) => name = path
    BY <1>1, SeqEqual
  <2>2. QED
    BY <1>1, <2>1, PrefixIs DEF Below, IsStrictPrefix
<1>2. CASE Len(name) # Len(path)
  BY <1>2, PrefixIs DEF Below, IsStrictPrefix
<1>3. QED
  BY <1>1, <1>2

(* A route of one component takes what starts with it.                       *)
LEMMA BelowHead ==
    ASSUME NEW W, NEW path \in Seq(W), NEW h \in W
    PROVE  Below(path, <<h>>) <=> 1 < Len(path) /\ path[1] = h
<1> DEFINE q == <<h>>
<1>1. q \in Seq(W) /\ Len(q) = 1 /\ q[1] = h
  OBVIOUS
<1> HIDE DEF q
<1>2. Below(path, q) <=> Len(q) < Len(path) /\ \A j \in 1..Len(q) : q[j] = path[j]
  BY <1>1, BelowIs
<1>3. (\A j \in 1..Len(q) : q[j] = path[j]) <=> path[1] = h
  BY <1>1
<1>4. Below(path, q) <=> 1 < Len(path) /\ path[1] = h
  BY <1>1, <1>2, <1>3
<1>5. QED
  BY <1>4 DEF q

LEMMA LastOfThree ==
    ASSUME NEW W, NEW path \in Seq(W), Len(path) = 3
    PROVE  SubSeq(path, 3, Len(path)) = <<path[3]>>
<1> DEFINE rest == SubSeq(path, 3, 3)
           q == <<path[3]>>
<1>1. \A j \in 3..3 : path[j] \in W
  OBVIOUS
<1>2. /\ rest \in Seq(W) /\ Len(rest) = 3 - 3 + 1
      /\ \A j \in 1..(3 - 3 + 1) : rest[j] = path[3 + j - 1]
  BY <1>1, SubSeqProperties
<1>3. q \in Seq(W) /\ Len(q) = 1 /\ q[1] = path[3]
  BY <1>1
<1> HIDE DEF rest, q
<1>4. Len(rest) = 1 /\ rest[1] = path[3]
  BY <1>2
<1>5. rest = q
  BY <1>2, <1>3, <1>4, SeqEqual
<1>6. QED
  BY <1>5 DEF rest, q

(* Of two prefixes of a path the shorter one is a prefix of the other.       *)
LEMMA PrefixesNest ==
    ASSUME NEW W, NEW p \in Seq(W), NEW n \in Seq(W), NEW m \in Seq(W),
           IsPrefix(n, p), IsPrefix(m, p)
    PROVE  /\ Len(n) < Len(m) => IsStrictPrefix(n, m)
           /\ Len(n) = Len(m) => n = m
<1>1. Len(n) <= Len(p) /\ \A j \in 1..Len(n) : n[j] = p[j]
  BY PrefixIs
<1>2. Len(m) <= Len(p) /\ \A j \in 1..Len(m) : m[j] = p[j]
  BY PrefixIs
<1>3. /\ Len(n) <= Len(p) /\ \A j \in 1..Len(n) : n[j] = p[j]
      /\ Len(m) <= Len(p) /\ \A j \in 1..Len(m) : m[j] = p[j]
  BY <1>1, <1>2
<1>4. ASSUME Len(n) < Len(m) PROVE IsStrictPrefix(n, m)
  <2>1. IsPrefix(n, m)
    BY <1>3, <1>4, PrefixIs
  <2>2. QED
    BY <1>4, <2>1 DEF IsStrictPrefix
<1>5. ASSUME Len(n) = Len(m) PROVE n = m
  BY <1>3, <1>5, SeqEqual
<1>6. QED
  BY <1>4, <1>5

(* A prefix and what follows it are the whole path.                          *)
LEMMA PrefixAndRest ==
    ASSUME NEW W, NEW p \in Seq(W), NEW n \in Seq(W), IsPrefix(n, p)
    PROVE  n \o SubSeq(p, Len(n) + 1, Len(p)) = p
<1> DEFINE rest == SubSeq(p, Len(n) + 1, Len(p))
<1>1. /\ Len(n) \in Nat /\ Len(p) \in Nat /\ Len(n) <= Len(p)
      /\ \A j \in 1..Len(n) : n[j] = p[j]
  BY PrefixIs
<1>2. CASE Len(n) = Len(p)
  <2>1. rest = <<>>
    BY <1>1, <1>2, SubSeqEmpty
  <2>2. n = p
    BY <1>1, <1>2, SeqEqual
  <2>3. QED
    BY <2>1, <2>2
<1>3. CASE Len(n) < Len(p)
  <2>1. /\ rest \in Seq(W) /\ Len(rest) = Len(p) - Len(n)
        /\ \A j \in 1..(Len(p) - Len(n)) : rest[j] = p[Len(n) + j]
    <3>1. \A j \in (Len(n) + 1)..Len(p) : p[j] \in W
      BY <1>1
    <3>2. /\ rest \in Seq(W) /\ Len(rest) = Len(p) - (Len(n) + 1) + 1
          /\ \A j \in 1..(Len(p) - (Len(n) + 1) + 1) : rest[j] = p[Len(n) + 1 + j - 1]
      BY <1>1, <1>3, <3>1, SubSeqProperties
    <3> HIDE DEF rest
    <3>3. Len(p) - (Len(n) + 1) + 1 = Len(p) - Len(n)
      BY <1>1
    <3>4. \A j \in 1..(Len(p) - Len(n)) : Len(n) + 1 + j - 1 = Len(n) + j
      BY <1>1
    <3>5. QED
      BY <3>2, <3>3, <3>4
  <2> HIDE DEF rest
  <2>2. /\ n \o rest \in Seq(W) /\ Len(n \o rest) = Len(p)
        /\ \A j \in 1..Len(p) : (n \o rest)[j] = IF j <= Len(n) THEN n[j] ELSE rest[j - Len(n)]
    BY <1>1, <2>1, ConcatProperties
  <2>3. \A j \in 1..Len(p) : (n \o rest)[j] = p[j]
    BY <1>1, <2>1, <2>2
  <2>4. QED
    BY <2>2, <2>3, SeqEqual DEF rest
<1>4. QED
  BY <1>1, <1>2, <1>3

(* What follows a name that is put in front of a path is the path.           *)
LEMMA ConcatRest ==
    ASSUME NEW W, NEW p \in Seq(W), NEW n \in Seq(W)
    PROVE  /\ n \o p \in Seq(W) /\ IsPrefix(n, n \o p)
           /\ Len(n \o p) = Len(n) + Len(p)
           /\ SubSeq(n \o p, Len(n) + 1, Len(n \o p)) = p
<1> DEFINE c == n \o p
           rest == SubSeq(c, Len(n) + 1, Len(c))
<1>1. /\ c \in Seq(W) /\ Len(c) = Len(n) + Len(p)
      /\ \A j \in 1..Len(c) : c[j] = IF j <= Len(n) THEN n[j] ELSE p[j - Len(n)]
      /\ Len(n) \in Nat /\ Len(p) \in Nat
  BY ConcatProperties
<1> HIDE DEF c
<1>2. \A j \in 1..Len(n) : n[j] = c[j]
  BY <1>1
<1>3. IsPrefix(n, c)
  BY <1>1, <1>2, PrefixIs
<1>4. CASE Len(p) = 0
  <2>1. rest = <<>>
    BY <1>1, <1>4, SubSeqEmpty
  <2>2. p = <<>>
    BY <1>4
  <2>3. QED
    BY <1>1, <1>3, <2>1, <2>2 DEF c
<1>5. CASE Len(p) # 0
  <2>1. \A j \in (Len(n) + 1)..Len(c) : c[j] \in W
    BY <1>1
  <2>2. /\ rest \in Seq(W) /\ Len(rest) = Len(c) - (Len(n) + 1) + 1
        /\ \A j \in 1..(Len(c) - (Len(n) + 1) + 1) : rest[j] = c[Len(n) + 1 + j - 1]
    BY <1>1, <1>5, <2>1, SubSeqProperties
  <2> HIDE DEF rest
  <2>3. Len(rest) = Len(p) /\ \A j \in 1..Len(p) : rest[j] = c[Len(n) + j]
    <3>1. Len(c) - (Len(n) + 1) + 1 = Len(p)
      BY <1>1
    <3>2. \A j \in 1..Len(p) : Len(n) + 1 + j - 1 = Len(n) + j
      BY <1>1
    <3>3. QED
      BY <2>2, <3>1, <3>2
  <2>4. \A j \in 1..Len(p) : c[Len(n) + j] = p[j]
    BY <1>1
  <2>5. rest = p
    BY <2>2, <2>3, <2>4, SeqEqual
  <2>6. QED
    BY <1>1, <1>3, <2>5 DEF c, rest
<1>6. QED
  BY <1>4, <1>5

(* With the final slash a path is below what it was below or equal to.       *)
LEMMA BelowSlash ==
    ASSUME NEW W, NEW p \in Seq(W), NEW n \in Seq(W), NEW w \in W,
           \A j \in 1..Len(n) : n[j] # w
    PROVE  /\ Append(p, w) \in Seq(W)
           /\ Append(p, w) # n
           /\ Below(Append(p, w), n) <=> IsPrefix(n, p)
<1> DEFINE q == Append(p, w)
<1>1. /\ q \in Seq(W) /\ Len(q) = Len(p) + 1 /\ Len(p) \in Nat /\ Len(n) \in Nat
      /\ \A j \in 1..Len(p) : q[j] = p[j]
      /\ q[Len(p) + 1] = w
  BY AppendProperties
<1> HIDE DEF q
<1>2. q # n
  BY <1>1
<1>3. Below(q, n) <=> Len(n) < Len(q) /\ \A j \in 1..Len(n) : n[j] = q[j]
  BY <1>1, BelowIs
<1>4. IsPrefix(n, p) <=> Len(n) <= Len(p) /\ \A j \in 1..Len(n) : n[j] = p[j]
  BY PrefixIs
<1>5. Len(n) < Len(q) <=> Len(n) <= Len(p)
  BY <1>1
<1>6. Len(n) <= Len(p) => \A j \in 1..Len(n) : q[j] = p[j]
  BY <1>1
<1>7. Below(q, n) <=> IsPrefix(n, p)
  BY <1>3, <1>4, <1>5, <1>6
<1>8. QED
  BY <1>1, <1>2, <1>7 DEF q

(* Two routes of one path with the same length are the same.  *)
LEMMA SameLengthSameRoute ==
    ASSUME NEW W, NEW path \in Seq(W), NEW q \in Seq(W), NEW r \in Seq(W),
           Below(path, q), Below(path, r), Len(q) = Len(r)
    PROVE  q = r
<1>1. \A j \in 1..Len(q) : q[j] = r[j]
  BY BelowIs
<1>2. QED
  BY <1>1, SeqEqual

(* Of sequences of bounded length one is longest.                            *)
LEMMA LongestOf ==
    ASSUME NEW W, NEW M \in SUBSET Seq(W), M # {}, NEW bound \in Nat,
           \A r \in M : Len(r) <= bound
    PROVE  \E x \in M : \A q \in M : Len(q) <= Len(x)
<1> DEFINE T == {Len(r) : r \in M}
<1>1. T \in SUBSET (0..bound) /\ T # {}
  <2>1. \A r \in M : Len(r) \in 0..bound
    OBVIOUS
  <2>2. QED
    BY <2>1
<1>2. PICK l \in T : \A k \in T : k <= l
  <2> HIDE DEF T
  <2>1. QED
    BY <1>1, LargestNatural
<1>3. PICK r \in M : l = Len(r)
  BY <1>2
<1>4. \A q \in M : Len(q) <= Len(r)
  BY <1>2, <1>3
<1>5. QED
  BY <1>4

(* The longest route of a path is one of its routes.  *)
LEMMA LongestRoute ==
    ASSUME NEW W, NEW routes \in SUBSET Seq(W), NEW path \in Seq(W),
           \E q \in routes : Below(path, q)
    PROVE  /\ Longest(routes, path) \in routes
           /\ Below(path, Longest(routes, path))
           /\ \A q \in routes : Below(path, q) => Len(q) <= Len(Longest(routes, path))
<1> DEFINE M == {r \in routes : Below(path, r)}
<1>1. M # {} /\ M \in SUBSET Seq(W) /\ Len(path) \in Nat
  OBVIOUS
<1>2. \A r \in M : Len(r) <= Len(path)
  BY BelowIs
<1>3. \E x \in M : \A q \in M : Len(q) <= Len(x)
  <2> HIDE DEF M
  <2>1. QED
    BY <1>1, <1>2, LongestOf
<1>4. Longest(routes, path) = CHOOSE x \in M : \A q \in M : Len(q) <= Len(x)
  BY Zenon DEF Longest
<1> HIDE DEF M
<1>5. Longest(routes, path) \in M /\ \A q \in M : Len(q) <= Len(Longest(routes, path))
  BY <1>3, <1>4, Zenon
<1>6. QED
  BY <1>5 DEF M

----------------------------------------------------------------------------
(* The order of the handlers                                                 *)

(* A directive in front of the first one of an order.  *)
LEMMA OrderBeforeFirst ==
    ASSUME NEW S, NEW order \in Seq(S), order # <<>>, NEW d \in S, NEW first,
           order[1] = first, \A j \in 1..Len(order) : order[j] = first => j = 1
    PROVE  OrderBefore(order, d, first) = <<d>> \o order
<1>1. (CHOOSE j \in 1..Len(order) : order[j] = first) = 1
  OBVIOUS
<1>2. OrderBefore(order, d, first) =
        SubSeq(order, 1, 1 - 1) \o <<d>> \o SubSeq(order, 1, Len(order))
  BY <1>1, Zenon DEF OrderBefore, InsertAt
<1>3. SubSeq(order, 1, 1 - 1) = <<>> /\ SubSeq(order, 1, Len(order)) = order
  BY SubSeqFull
<1>4. <<>> \o <<d>> = <<d>>
  OBVIOUS
<1>5. QED
  BY <1>2, <1>3, <1>4

(* The three options leave the firewall outermost, then the quota, then      *)
(* cerberus, all of them before anything that answers for a repository.      *)
LEMMA PipelineOrder ==
    Pipeline = <<"waf", "bandwidth_quota", "cerberus", "redir", "encode", "handle">>
<1> DEFINE S == {"waf", "bandwidth_quota", "cerberus", "redir", "encode", "handle"}
           zero  == <<"redir", "encode", "handle">>
           one   == <<"cerberus", "redir", "encode", "handle">>
           two   == <<"bandwidth_quota", "cerberus", "redir", "encode", "handle">>
           three == <<"waf", "bandwidth_quota", "cerberus", "redir", "encode", "handle">>
<1>1. OrderBefore(zero, "cerberus", "redir") = one
  <2>1. zero \in Seq(S) /\ zero # <<>> /\ zero[1] = "redir"
        /\ \A j \in 1..Len(zero) : zero[j] = "redir" => j = 1
    OBVIOUS
  <2>2. OrderBefore(zero, "cerberus", "redir") = <<"cerberus">> \o zero
    BY <2>1, OrderBeforeFirst
  <2>3. QED
    BY <2>2
<1>2. OrderBefore(one, "bandwidth_quota", "cerberus") = two
  <2>1. one \in Seq(S) /\ one # <<>> /\ one[1] = "cerberus"
        /\ \A j \in 1..Len(one) : one[j] = "cerberus" => j = 1
    OBVIOUS
  <2>2. OrderBefore(one, "bandwidth_quota", "cerberus") = <<"bandwidth_quota">> \o one
    BY <2>1, OrderBeforeFirst
  <2>3. QED
    BY <2>2
<1>3. OrderBefore(two, "waf", "bandwidth_quota") = three
  <2>1. two \in Seq(S) /\ two # <<>> /\ two[1] = "bandwidth_quota"
        /\ \A j \in 1..Len(two) : two[j] = "bandwidth_quota" => j = 1
    OBVIOUS
  <2>2. OrderBefore(two, "waf", "bandwidth_quota") = <<"waf">> \o two
    BY <2>1, OrderBeforeFirst
  <2>3. QED
    BY <2>2
<1> HIDE DEF zero, one, two, three
<1>4. Pipeline = OrderBefore(OrderBefore(OrderBefore(zero, "cerberus", "redir"),
                             "bandwidth_quota", "cerberus"), "waf", "bandwidth_quota")
  BY DEF Pipeline, HandlerOrder, CaddyOrder, zero
<1>5. QED
  BY <1>1, <1>2, <1>3, <1>4 DEF three

----------------------------------------------------------------------------
(* The merge                                                                 *)

(* What a site serves for another one has no option of its own.  *)
LEMMA RewriteConfigOptions ==
    ASSUME NEW n, NEW e, NEW s
    PROVE  /\ ~RewriteConfig(n, e, s).no_redir_http
           /\ ~RewriteConfig(n, e, s).no_direct_serve
           /\ ~RewriteConfig(n, e, s).subdomain
           /\ RewriteConfig(n, e, s).show_hidden = "no"
           /\ RewriteConfig(n, e, s).unified = ""
BY DEF RewriteConfig, Entry, NoEntry, HomeTarget

(* The first site that registers a name decides what the others serve.  *)
LEMMA RewrittenIs ==
    ASSUME SiteOrder \in Seq(Sites), NEW cfg, NEW n
    PROVE  \/ /\ Rewritten(cfg, n) = NoEntry
              /\ \A j \in 1..Len(SiteOrder) : ~Registers(cfg, SiteOrder[j], n)
           \/ \E j \in 1..Len(SiteOrder) :
                 /\ Registers(cfg, SiteOrder[j], n)
                 /\ \A l \in 1..(j - 1) : ~Registers(cfg, SiteOrder[l], n)
                 /\ Rewritten(cfg, n) = RewriteConfig(n, cfg[SiteOrder[j]][n], SiteOrder[j])
<1> DEFINE R == {j \in 1..Len(SiteOrder) : Registers(cfg, SiteOrder[j], n)}
<1>1. Rewritten(cfg, n) =
        IF R = {} THEN NoEntry
        ELSE RewriteConfig(n, cfg[SiteOrder[Min(R)]][n], SiteOrder[Min(R)])
  BY DEF Rewritten
<1>2. CASE R = {}
  BY <1>1, <1>2
<1>3. CASE R # {}
  <2>1. R \in SUBSET Nat
    OBVIOUS
  <2>2. Min(R) \in R /\ \A y \in R : Min(R) <= y
    <3> HIDE DEF R
    <3>1. QED
      BY <1>3, <2>1, MinOfNaturals
  <2> DEFINE j == Min(R)
  <2>3. j \in 1..Len(SiteOrder) /\ Registers(cfg, SiteOrder[j], n)
    BY <2>2
  <2>4. \A l \in 1..(j - 1) : ~Registers(cfg, SiteOrder[l], n)
    BY <2>2, <2>3
  <2>5. Rewritten(cfg, n) = RewriteConfig(n, cfg[SiteOrder[j]][n], SiteOrder[j])
    BY <1>1, <1>3
  <2>6. QED
    BY <2>3, <2>4, <2>5
<1>4. QED
  BY <1>2, <1>3

(* An entry of a merged site is its own or the rewritten one of a site.  *)
LEMMA MergedIs ==
    ASSUME SiteOrder \in Seq(Sites), NEW cfg, NEW s, NEW n \in Names
    PROVE  \/ cfg[s][n] # NoEntry /\ Merged(cfg, s)[n] = cfg[s][n]
           \/ cfg[s][n] = NoEntry /\ Merged(cfg, s)[n] = NoEntry
           \/ /\ cfg[s][n] = NoEntry
              /\ \E t \in Sites : /\ Registers(cfg, t, n)
                                 /\ Merged(cfg, s)[n] = RewriteConfig(n, cfg[t][n], t)
<1>1. CASE cfg[s][n] # NoEntry
  BY <1>1 DEF Merged
<1>2. CASE cfg[s][n] = NoEntry
  <2>1. Merged(cfg, s)[n] = Rewritten(cfg, n)
    BY <1>2 DEF Merged
  <2>2. QED
    BY <1>2, <2>1, RewrittenIs
<1>3. QED
  BY <1>1, <1>2

----------------------------------------------------------------------------
(* The handlers                                                              *)

LEMMA RepoIs ==
    ASSUME NEW e
    PROVE  /\ DictToRepo(e).class \in {"None", "FileServerRepo", "ProxyRepo", "RedirRepo"}
           /\ DictToRepo(e).class = "ProxyRepo" =>
                 \/ DictToRepo(e).to \in {"mirror-intel", "rsync-gateway", "git-backend"}
                 \/ e.serve_mode = "proxy" /\ DictToRepo(e).to = e.proxy_to
           /\ DictToRepo(e).class = "RedirRepo" =>
                 /\ e.serve_mode \in {"redir", "redir_force"}
                 /\ DictToRepo(e).target = e.target
BY DEF DictToRepo, NoRepo, FileServerRepo, ProxyRepo, RedirRepo

LEMMA RestOfPath ==
    ASSUME NEW W, NEW name \in Seq(W), NEW path \in Seq(W)
    PROVE  SubSeq(path, Len(name) + 1, Len(path)) \in Seq(W)
<1>1. Len(name) \in Nat /\ Len(path) \in Nat
  OBVIOUS
<1>2. CASE Len(name) < Len(path)
  BY <1>1, <1>2, SubSeqProperties
<1>3. CASE ~(Len(name) < Len(path))
  <2>1. SubSeq(path, Len(name) + 1, Len(path)) = <<>>
    BY <1>1, <1>3, SubSeqEmpty
  <2>2. QED
    BY <2>1
<1>4. QED
  BY <1>2, <1>3

(* Both forms of a handler answer in one of four ways.  *)
AnswerOf(repo, a, site, W) ==
    \/ repo.class = "FileServerRepo" /\ a.kind = "status"
    \/ repo.class = "FileServerRepo" /\ a.kind = "file" /\ a.host = site
    \/ repo.class = "ProxyRepo" /\ a.kind = "upstream" /\ a.host = repo.to
    \/ /\ repo.class = "RedirRepo" /\ a.kind = "redirect"
       /\ a.host = repo.target.host
       /\ repo.target.path \in Seq(W) => a.path \in Seq(W)

(* AsRepo and AsSubdomain answer that way.                                   *)
LEMMA HandlerAnswers ==
    ASSUME NEW e, NEW W, NEW name \in Seq(W), NEW path \in Seq(W), NEW site, IsRepo(e)
    PROVE  /\ AnswerOf(DictToRepo(e), AsRepo(DictToRepo(e), name, site, path), site, W)
           /\ AnswerOf(DictToRepo(e), AsSubdomain(DictToRepo(e), name, site, path), site, W)
<1> DEFINE repo == DictToRepo(e)
<1>1. repo.class \in {"FileServerRepo", "ProxyRepo", "RedirRepo"}
  BY RepoIs DEF IsRepo
<1> HIDE DEF repo
<1>2. SUFFICES ASSUME NEW a, \/ a = AsRepo(repo, name, site, path)
                            \/ a = AsSubdomain(repo, name, site, path)
               PROVE  AnswerOf(repo, a, site, W)
  BY DEF repo
<1>3. CASE repo.class = "FileServerRepo"
  BY <1>2, <1>3 DEF AnswerOf, AsRepo, AsSubdomain, FileServerAsRepo, FileServerAsSubdomain, Answer
<1>4. CASE repo.class = "ProxyRepo"
  BY <1>2, <1>4 DEF AnswerOf, AsRepo, AsSubdomain, ProxyAsRepo, ProxyAsSubdomain, Answer
<1>5. CASE repo.class = "RedirRepo"
  <2>1. SubSeq(path, Len(name) + 1, Len(path)) \in Seq(W)
    BY RestOfPath
  <2>2. PICK rest \in Seq(W) :
          a = Answer("redirect", repo.target.host,
                     IF repo.always THEN repo.target.path ELSE repo.target.path \o rest)
    BY <1>2, <1>5, <2>1 DEF AsRepo, AsSubdomain, RedirAsRepo, RedirAsSubdomain
  <2>3. ASSUME repo.target.path \in Seq(W)
        PROVE  repo.target.path \o rest \in Seq(W)
    BY <2>3
  <2>4. QED
    BY <1>5, <2>2, <2>3 DEF AnswerOf, Answer
<1>6. QED
  BY <1>1, <1>3, <1>4, <1>5

LEMMA Reserved ==
    ReservedHeads = {".cerberus", "mirrorz", "lug", "monitor", ".well-known"}
<1>1. StaticRoutes("https") = {<<".cerberus">>, <<"mirrorz">>, <<"lug">>, <<"monitor">>,
                               <<".well-known">>}
  BY DEF StaticRoutes, CerberusEndpoint
<1>2. ReservedHeads = {r[1] : r \in {<<".cerberus">>, <<"mirrorz">>, <<"lug">>, <<"monitor">>,
                                      <<".well-known">>}}
  BY <1>1, Zenon DEF ReservedHeads
<1>3. QED
  BY <1>2

(* A repository's route never meets a static one: their first components     *)
(* differ.                                                                   *)
LEMMA RoutesApart ==
    ASSUME NEW W, NEW path \in Seq(W), NEW scheme,
           NEW n \in Seq(W), n # <<>>, n[1] \notin ReservedHeads, Below(path, n),
           NEW r \in StaticRoutes(scheme), r \in Seq(W)
    PROVE  ~Below(path, r)
<1>1. \/ r = <<".cerberus">> \/ r = <<"mirrorz">> \/ r = <<"lug">>
      \/ r = <<"monitor">> \/ r = <<".well-known">>
  BY DEF StaticRoutes, CerberusEndpoint
<1>2. r[1] \in ReservedHeads /\ Len(r) = 1
  <2>1. \/ r[1] = ".cerberus" \/ r[1] = "mirrorz" \/ r[1] = "lug"
        \/ r[1] = "monitor" \/ r[1] = ".well-known"
    BY <1>1
  <2>2. Len(r) = 1
    BY <1>1
  <2>3. QED
    BY <2>1, <2>2, Reserved
<1>3. n[1] = path[1]
  BY BelowIs
<1>4. ASSUME Below(path, r)
      PROVE  r[1] = path[1]
  <2>1. \A j \in 1..Len(r) : r[j] = path[j]
    BY <1>4, BelowIs
  <2>2. QED
    BY <1>2, <2>1
<1>5. QED
  BY <1>2, <1>3, <1>4

(* A static route starts with its reserved component.                        *)
LEMMA StaticHead ==
    ASSUME NEW W, ReservedHeads \subseteq W, NEW path \in Seq(W), NEW scheme,
           NEW r \in StaticRoutes(scheme), Below(path, r)
    PROVE  path[1] \in ReservedHeads
<1>1. PICK h \in ReservedHeads : r = <<h>>
  <2>1. \/ r = <<".cerberus">> \/ r = <<"mirrorz">> \/ r = <<"lug">>
        \/ r = <<"monitor">> \/ r = <<".well-known">>
    BY DEF StaticRoutes, CerberusEndpoint
  <2>2. QED
    BY <2>1, Reserved
<1>2. h \in W /\ Below(path, <<h>>)
  BY <1>1
<1>3. QED
  BY <1>1, <1>2, BelowHead

(* Names are made of the components W and start with no reserved one.        *)
NamesFrom(W) ==
    /\ ReservedHeads \subseteq W
    /\ \A n \in Names : n \in Seq(W) /\ n # <<>> /\ n[1] \notin ReservedHeads

(* A request reaches the frontend or the redirect to https, the longest of   *)
(* the repositories above its path, or a static route.                       *)
RequestAnswer(E, site, scheme, path, user, a) ==
    \/ /\ \A n \in RouteNames(E, scheme) : ~Below(path, n)
       /\ \A r \in StaticRoutes(scheme) : ~Below(path, r)
       /\ a = IF scheme = "https" THEN FrontendHandle(path) ELSE RedirectToHTTPS(site, path)
    \/ \E n \in RouteNames(E, scheme) :
          /\ Below(path, n)
          /\ \A m \in RouteNames(E, scheme) : Below(path, m) => Len(m) <= Len(n)
          /\ a = AsRepo(DictToRepo(E[n]), n, site, path)
    \/ /\ \A n \in Names : ~Below(path, n)
       /\ \E r \in StaticRoutes(scheme) :
             /\ Below(path, r)
             /\ \/ r = CerberusEndpoint /\ a = Answer("status", "cerberus", <<>>)
                \/ r = <<"monitor">> /\ a = MonitorHandle(path, user)
                \/ r = <<"lug">> /\ a = LugHandle(path)
                \/ /\ r \in {<<"mirrorz">>, <<".well-known">>}
                   /\ a = Answer("file", "static", path)

(* HandleRequest answers that way.                                           *)
LEMMA HandleRequestIs ==
    ASSUME NEW W, NamesFrom(W),
           NEW path \in Seq(W), NEW E, NEW site, NEW scheme, NEW user
    PROVE  RequestAnswer(E, site, scheme, path, user, HandleRequest(E, site, scheme, path, user))
<1> DEFINE routes == RouteNames(E, scheme) \cup StaticRoutes(scheme)
           r == Longest(routes, path)
           a == HandleRequest(E, site, scheme, path, user)
<1>1. StaticRoutes(scheme) \subseteq {<<".cerberus">>, <<"mirrorz">>, <<"lug">>,
                                      <<"monitor">>, <<".well-known">>}
  BY DEF StaticRoutes, CerberusEndpoint
<1>2. \A q \in StaticRoutes(scheme) : q \in Seq(W)
  <2>1. {".cerberus", "mirrorz", "lug", "monitor", ".well-known"} \subseteq W
    BY Reserved DEF NamesFrom
  <2>2. /\ <<".cerberus">> \in Seq(W) /\ <<"mirrorz">> \in Seq(W) /\ <<"lug">> \in Seq(W)
        /\ <<"monitor">> \in Seq(W) /\ <<".well-known">> \in Seq(W)
    BY <2>1
  <2>3. QED
    BY <1>1, <2>2
<1>3. /\ RouteNames(E, scheme) \subseteq Names
      /\ \A n \in Names : n \in Seq(W) /\ n # <<>> /\ n[1] \notin ReservedHeads
  BY DEF RouteNames, NamesFrom
<1>4. CASE \A q \in routes : ~Below(path, q)
  BY <1>4 DEF HandleRequest, RequestAnswer
<1>5. CASE \E q \in routes : Below(path, q)
  <2>1. routes \in SUBSET Seq(W)
    BY <1>2, <1>3
  <2>2. /\ r \in routes /\ Below(path, r)
        /\ \A q \in routes : Below(path, q) => Len(q) <= Len(r)
    <3> HIDE DEF routes
    <3>1. QED
      BY <1>5, <2>1, LongestRoute
  <2>3. CASE r \in RouteNames(E, scheme)
    <3>1. r # <<".cerberus">> /\ r # <<"mirrorz">> /\ r # <<"lug">>
          /\ r # <<"monitor">> /\ r # <<".well-known">>
      <4>1. r \in Names /\ r[1] \notin ReservedHeads
        BY <1>3, <2>3
      <4> HIDE DEF r
      <4>2. QED
        BY <4>1, Reserved
    <3>2. a = AsRepo(DictToRepo(E[r]), r, site, path)
      BY <1>5, <3>1 DEF HandleRequest, CerberusEndpoint
    <3> HIDE DEF r, a
    <3>3. QED
      BY <2>2, <2>3, <3>2 DEF a, RequestAnswer
  <2>4. CASE r \in StaticRoutes(scheme)
    <3>1. \A n \in Names : ~Below(path, n)
      BY <1>2, <1>3, <2>2, <2>4, RoutesApart
    <3>2. \/ r = CerberusEndpoint /\ a = Answer("status", "cerberus", <<>>)
          \/ r = <<"monitor">> /\ a = MonitorHandle(path, user)
          \/ r = <<"lug">> /\ a = LugHandle(path)
          \/ r \in {<<"mirrorz">>, <<".well-known">>} /\ a = Answer("file", "static", path)
      BY <1>1, <1>5, <2>4 DEF HandleRequest, CerberusEndpoint
    <3> HIDE DEF r, a
    <3>3. QED
      BY <2>2, <2>4, <3>1, <3>2 DEF a, RequestAnswer
  <2>5. QED
    BY <2>2, <2>3, <2>4
<1>6. QED
  BY <1>4, <1>5

----------------------------------------------------------------------------
(* What an entry becomes at the other sites                                  *)

(* The repository is served where its files are, and not by both sites.      *)
Direct(repo) == ServesDirectly(repo) /\ repo.to # "mirror-intel"

(* How R stands for e at the other sites.                                    *)
StandsFor(R, e, n, t) ==
    /\ IsRepo(R) /\ ~R.no_direct_serve /\ ~R.no_redir_http /\ ~R.subdomain
    /\ \/ Direct(DictToRepo(e)) /\ DictToRepo(R) = RedirRepo(HomeTarget(n, t), FALSE)
       \/ ~Direct(DictToRepo(e)) /\ DictToRepo(R) = DictToRepo(e)

LEMMA ModesOfRepos ==
    ASSUME NEW e, IsRepo(e)
    PROVE  \/ e.serve_mode = "default" /\ DictToRepo(e) = FileServerRepo(e.show_hidden)
           \/ e.serve_mode = "git" /\ DictToRepo(e) = ProxyRepo("git-backend", FALSE)
           \/ e.serve_mode = "rsync_gateway" /\ DictToRepo(e) = ProxyRepo("rsync-gateway", FALSE)
           \/ e.serve_mode = "mirror_intel" /\ DictToRepo(e) = ProxyRepo("mirror-intel", FALSE)
           \/ e.serve_mode = "redir" /\ DictToRepo(e) = RedirRepo(e.target, FALSE)
           \/ e.serve_mode = "redir_force" /\ DictToRepo(e) = RedirRepo(e.target, TRUE)
           \/ e.serve_mode = "proxy"
BY DEF IsRepo, DictToRepo, NoRepo

LEMMA ClassesOfRepos ==
    /\ \A h : Direct(FileServerRepo(h)) /\ FileServerRepo(h).class = "FileServerRepo"
    /\ \A to, strip : /\ ProxyRepo(to, strip).class = "ProxyRepo"
                      /\ ProxyRepo(to, strip).to = to
                      /\ Direct(ProxyRepo(to, strip)) <=> to # "mirror-intel"
    /\ \A target, always : /\ RedirRepo(target, always).class = "RedirRepo"
                           /\ RedirRepo(target, always).to = "none"
                           /\ ~Direct(RedirRepo(target, always))
BY DEF Direct, ServesDirectly, FileServerRepo, ProxyRepo, RedirRepo, NoRepo

LEMMA RewrittenStandsFor ==
    ASSUME NEW e, NEW n, NEW t, IsRepo(e), e.unified # "proxy",
           ~KeyErrors(RewriteConfig(n, e, t))
    PROVE  StandsFor(RewriteConfig(n, e, t), e, n, t)
<1> DEFINE R == RewriteConfig(n, e, t)
<1>1. ~R.no_redir_http /\ ~R.no_direct_serve /\ ~R.subdomain
  BY RewriteConfigOptions
<1>2. CASE \/ e.serve_mode = "default" /\ DictToRepo(e) = FileServerRepo(e.show_hidden)
           \/ e.serve_mode = "git" /\ DictToRepo(e) = ProxyRepo("git-backend", FALSE)
           \/ e.serve_mode = "rsync_gateway" /\ DictToRepo(e) = ProxyRepo("rsync-gateway", FALSE)
  <2>1. R = [Entry("redir") EXCEPT !.target = HomeTarget(n, t)]
    BY <1>2 DEF RewriteConfig
  <2>2. DictToRepo(R) = RedirRepo(HomeTarget(n, t), FALSE)
    <3>1. R.serve_mode = "redir" /\ R.target = HomeTarget(n, t)
      BY <2>1 DEF Entry
    <3>2. QED
      BY <3>1 DEF DictToRepo
  <2>3. Direct(DictToRepo(e))
    BY <1>2, ClassesOfRepos
  <2>4. QED
    BY <1>1, <2>2, <2>3, ClassesOfRepos DEF StandsFor, IsRepo
<1>3. CASE e.serve_mode = "mirror_intel" /\ DictToRepo(e) = ProxyRepo("mirror-intel", FALSE)
  <2>1. R = Entry("mirror_intel")
    BY <1>3 DEF RewriteConfig
  <2>2. DictToRepo(R) = ProxyRepo("mirror-intel", FALSE)
    <3>1. Entry("mirror_intel").serve_mode = "mirror_intel"
      BY DEF Entry
    <3>2. QED
      BY <2>1, <3>1 DEF DictToRepo
  <2>3. QED
    BY <1>1, <1>3, <2>2, ClassesOfRepos DEF StandsFor, IsRepo
<1>4. CASE \/ e.serve_mode = "redir" /\ DictToRepo(e) = RedirRepo(e.target, FALSE)
           \/ e.serve_mode = "redir_force" /\ DictToRepo(e) = RedirRepo(e.target, TRUE)
  <2>1. R = [Entry(e.serve_mode) EXCEPT !.target = e.target]
    BY <1>4 DEF RewriteConfig
  <2>2. R.serve_mode = e.serve_mode /\ R.target = e.target
    BY <2>1 DEF Entry
  <2>3. DictToRepo(R) = DictToRepo(e)
    BY <1>4, <2>2 DEF DictToRepo
  <2>4. ~Direct(DictToRepo(e))
    BY <1>4, ClassesOfRepos
  <2>5. QED
    BY <1>1, <2>3, <2>4 DEF StandsFor, IsRepo
<1>5. CASE e.serve_mode = "proxy"
  <2>1. R = [Entry("default") EXCEPT !.proxy_to = e.proxy_to]
    BY <1>5 DEF RewriteConfig
  <2>2. KeyErrors(R)
    BY <2>1 DEF KeyErrors, Entry
  <2>3. QED
    BY <2>2
<1>6. QED
  BY <1>2, <1>3, <1>4, <1>5, ModesOfRepos

LEMMA RepoRewritten ==
    ASSUME NEW e, NEW n, NEW t, IsRepo(e)
    PROVE  e # NoEntry /\ RewriteConfig(n, e, t) # NoEntry
<1>1. NoEntry.serve_mode = "none"
  BY DEF NoEntry, Entry
<1>2. \/ e.serve_mode = "default" \/ e.serve_mode = "git" \/ e.serve_mode = "rsync_gateway"
      \/ e.serve_mode = "mirror_intel" \/ e.serve_mode = "redir"
      \/ e.serve_mode = "redir_force" \/ e.serve_mode = "proxy"
  BY ModesOfRepos
<1>3. RewriteConfig(n, e, t).serve_mode # "none"
  BY <1>2 DEF RewriteConfig, Entry
<1>4. QED
  BY <1>1, <1>2, <1>3

(* The site matters to a file server only.                                   *)
LEMMA SiteOfAnswer ==
    ASSUME NEW e, IsRepo(e), ~Direct(DictToRepo(e)), NEW n, NEW s, NEW t, NEW path
    PROVE  AsRepo(DictToRepo(e), n, s, path) = AsRepo(DictToRepo(e), n, t, path)
<1> DEFINE repo == DictToRepo(e)
<1>1. repo.class = "ProxyRepo" \/ repo.class = "RedirRepo"
  <2>1. repo.class = "FileServerRepo" => repo.to = "none"
    BY DEF DictToRepo, NoRepo, FileServerRepo, ProxyRepo, RedirRepo
  <2>2. repo.class # "FileServerRepo"
    BY <2>1 DEF Direct, ServesDirectly
  <2>3. QED
    BY <2>2, RepoIs DEF IsRepo
<1> HIDE DEF repo
<1>2. CASE repo.class = "ProxyRepo"
  BY <1>2 DEF AsRepo, repo
<1>3. CASE repo.class = "RedirRepo"
  BY <1>3 DEF AsRepo, repo
<1>4. QED
  BY <1>1, <1>2, <1>3

LEMMA HomeRedirects ==
    ASSUME NEW W, NEW path \in Seq(W), NEW n \in Seq(W), IsPrefix(n, path), NEW h, NEW site
    PROVE  AsRepo(RedirRepo(HomeTarget(n, h), FALSE), n, site, path) = Answer("redirect", h, path)
<1> DEFINE repo == RedirRepo(HomeTarget(n, h), FALSE)
           rest == SubSeq(path, Len(n) + 1, Len(path))
<1>1. /\ repo.class = "RedirRepo" /\ repo.always = FALSE
      /\ repo.target.host = h /\ repo.target.path = n
  BY DEF RedirRepo, NoRepo, HomeTarget
<1>2. n \o rest = path
  BY PrefixAndRest
<1> HIDE DEF repo, rest
<1>3. AsRepo(repo, n, site, path) = RedirAsRepo(repo, rest)
  BY <1>1 DEF AsRepo, rest
<1>4. RedirAsRepo(repo, rest) = Answer("redirect", h, n \o rest)
  BY <1>1 DEF RedirAsRepo
<1>5. QED
  BY <1>2, <1>3, <1>4 DEF repo

LEMMA DottedConcat ==
    ASSUME NEW W, NEW n \in Seq(W), NEW p \in Seq(W), ~IsDotted(n)
    PROVE  IsDotted(n \o p) <=> IsDotted(p)
<1> DEFINE c == n \o p
<1>1. /\ c \in Seq(W) /\ Len(c) = Len(n) + Len(p) /\ Len(n) \in Nat /\ Len(p) \in Nat
      /\ \A j \in 1..Len(c) : c[j] = IF j <= Len(n) THEN n[j] ELSE p[j - Len(n)]
  BY ConcatProperties
<1> HIDE DEF c
<1>2. ASSUME NEW j \in 1..Len(c), c[j] \in DotNames
      PROVE  \E k \in 1..Len(p) : p[k] \in DotNames
  <2>1. CASE j <= Len(n)
    BY <1>1, <1>2, <2>1 DEF IsDotted
  <2>2. CASE ~(j <= Len(n))
    <3>1. j - Len(n) \in 1..Len(p) /\ c[j] = p[j - Len(n)]
      BY <1>1, <2>2
    <3>2. QED
      BY <1>2, <3>1
  <2>3. QED
    BY <2>1, <2>2
<1>3. ASSUME NEW k \in 1..Len(p), p[k] \in DotNames
      PROVE  \E j \in 1..Len(c) : c[j] \in DotNames
  <2>1. /\ Len(n) + k \in 1..Len(c) /\ ~(Len(n) + k <= Len(n))
        /\ (Len(n) + k) - Len(n) = k
    BY <1>1
  <2>2. c[Len(n) + k] = p[k]
    BY <1>1, <2>1
  <2>3. QED
    BY <1>3, <2>1, <2>2
<1>4. QED
  BY <1>2, <1>3 DEF IsDotted, c

(* Both forms of a handler agree when what is hidden does not depend on the  *)
(* name.                                                                     *)
LEMMA SubdomainAsRepo ==
    ASSUME NEW W, NEW n \in Seq(W), NEW p \in Seq(W), NEW s, NEW e, IsRepo(e),
           ~IsDotted(n), e.show_hidden \in {"no", "all"}
    PROVE  AsSubdomain(DictToRepo(e), n, s, p) = AsRepo(DictToRepo(e), n, s, n \o p)
<1> DEFINE repo == DictToRepo(e)
           rest == SubSeq(n \o p, Len(n) + 1, Len(n \o p))
<1>1. rest = p
  BY ConcatRest
<1>2. \/ repo.class = "FileServerRepo" \/ repo.class = "ProxyRepo" \/ repo.class = "RedirRepo"
  BY RepoIs DEF IsRepo
<1>3. repo.class = "FileServerRepo" => repo.hidden = "no" \/ repo.hidden = "all"
  BY DEF DictToRepo, NoRepo, FileServerRepo, ProxyRepo, RedirRepo
<1> HIDE DEF repo, rest
<1>4. CASE repo.class = "FileServerRepo"
  <2>1. HiddenFrom(repo, n, p) <=> HiddenFrom(repo, n, n \o p)
    <3>1. CASE repo.hidden = "no"
      <4>1. HiddenFrom(repo, n, p) = IsDotted(p)
        BY <3>1 DEF HiddenFrom
      <4>2. HiddenFrom(repo, n, n \o p) = IsDotted(n \o p)
        BY <3>1 DEF HiddenFrom
      <4>3. QED
        BY <4>1, <4>2, DottedConcat
    <3>2. CASE repo.hidden = "all"
      BY <3>2 DEF HiddenFrom
    <3>3. QED
      BY <1>3, <1>4, <3>1, <3>2
  <2>2. AsSubdomain(repo, n, s, p) = FileServerAsSubdomain(repo, n, s, p)
    BY <1>4 DEF AsSubdomain
  <2>3. AsRepo(repo, n, s, n \o p) = FileServerAsRepo(repo, n, s, n \o p)
    BY <1>4 DEF AsRepo
  <2>4. QED
    BY <2>1, <2>2, <2>3 DEF FileServerAsSubdomain, FileServerAsRepo, repo
<1>5. CASE repo.class = "ProxyRepo"
  <2>1. AsSubdomain(repo, n, s, p) = ProxyAsSubdomain(repo, n, p)
    BY <1>5 DEF AsSubdomain
  <2>2. AsRepo(repo, n, s, n \o p) = ProxyAsRepo(repo, n \o p, p)
    BY <1>1, <1>5 DEF AsRepo, rest
  <2>3. QED
    BY <2>1, <2>2 DEF ProxyAsSubdomain, ProxyAsRepo, repo
<1>6. CASE repo.class = "RedirRepo"
  <2>1. AsSubdomain(repo, n, s, p) = RedirAsSubdomain(repo, p)
    BY <1>6 DEF AsSubdomain
  <2>2. AsRepo(repo, n, s, n \o p) = RedirAsRepo(repo, p)
    BY <1>1, <1>6 DEF AsRepo, rest
  <2>3. QED
    BY <2>1, <2>2 DEF RedirAsSubdomain, RedirAsRepo, repo
<1>7. QED
  BY <1>2, <1>4, <1>5, <1>6
=============================================================================
