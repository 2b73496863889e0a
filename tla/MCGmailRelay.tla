---------------------------- MODULE MCGmailRelay ----------------------------
(* An instance of GmailRelay for TLC: the APP_URL values that the tests of  *)
(* gmail.rs try, and a few that differ from them in one part.               *)
EXTENDS GmailRelay, TLC

CONSTANTS Relative, V6, OtherV6, Root, Ignored

Domain(labels) == [kind |-> "domain", name |-> labels]
V4(octets)     == [kind |-> "ipv4", name |-> octets]
V6Host(a)      == [kind |-> "ipv6", name |-> a]

Localhost == Domain(<<"localhost">>)
MCThisMachine == {Localhost, Domain(<<"foo", "localhost">>), V4(<<127, 0, 0, 1>>), V6Host(V6)}
Elsewhere == {Domain(<<"wallet", "example">>), Domain(<<"localhost", "evil", "com">>),
              V4(<<192, 168, 1, 127>>), V6Host(OtherV6)}

Plain(scheme, host) == [scheme |-> scheme, host |-> host, credentials |-> FALSE,
                        path |-> Root, query |-> None, fragment |-> None]
Wallet == Plain("https", Domain(<<"wallet", "example">>))

MCAppUrl ==
  {Plain("http", h) : h \in MCThisMachine \cup Elsewhere}
    \cup {Wallet, Plain("javascript", Localhost), Relative,
          [Wallet EXCEPT !.credentials = TRUE],
          [Wallet EXCEPT !.path = Ignored, !.query = Ignored, !.fragment = Ignored]}

Symmetry == Permutations(Tab) \cup Permutations(Fragment)
=============================================================================
