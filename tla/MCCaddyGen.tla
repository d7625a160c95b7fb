----------------------------- MODULE MCCaddyGen -----------------------------
(* Two sites between which repositories move. *)
EXTENDS CaddyGen

a == <<"a">>
g == <<"git", "g">>
MCNames == {a, g}
MCSiteOrder == <<"siyuan", "zhiyuan">>

Hidden_a == [Entry("default") EXCEPT !.path = "suffix", !.unified = "disable"]
Proxied_a == [Entry("proxy") EXCEPT !.proxy_to = "x"]
Elsewhere_g == [Entry("redir") EXCEPT !.target = [host |-> "siyuan", path |-> <<"x">>]]

Text(of_a, of_g) == [n \in MCNames |-> IF n = a THEN of_a ELSE of_g]

MCSiteFiles ==
    {Text(NoEntry, NoEntry), Text(Hidden_a, Entry("git")), Text(Proxied_a, NoEntry),
     Text(Entry("rsync_gateway"), Elsewhere_g)}
=============================================================================
