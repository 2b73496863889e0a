----------------------------- MODULE MCStartup -----------------------------
(* An instance of Startup for TLC: NOTARY_URL as tcp://host:7047,           *)
(* tcp://host, host:7047 and http://host:80.                                *)
EXTENDS Startup, TLC

CONSTANT NotaryHost

Url(scheme, host, port) == [scheme |-> scheme, host |-> host, port |-> port]
MCNotaryUrl == {Url("tcp", NotaryHost, 7047), Url("tcp", NotaryHost, None),
                Url("host", None, None), Url("http", NotaryHost, 80)}

Symmetry == Permutations(Claim)
=============================================================================
