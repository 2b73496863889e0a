----------------------------- MODULE MCOrigins -----------------------------
(* An instance of Origins for TLC: every pattern of up to four letters,     *)
(* alone, spaced, and in a list, against origins with one- and two-letter   *)
(* labels, with and without a port, and the opaque origin.                  *)
EXTENDS Origins, TLC

Alphabet == {"*", ".", "a", "b", "https://"}
MCPattern == UNION {[1..n -> Alphabet] : n \in 1..4}

MCAllowedOrigins == MCPattern \cup {<<" ">> \o p \o <<" ">> : p \in MCPattern}
                      \cup {<<"b", ",", " ">> \o p \o <<",">> : p \in MCPattern}

Label == {<<"a">>, <<"b">>, <<"b", "a">>}
Host == Label \cup {l \o <<".">> \o m : l, m \in Label}
MCOrigin == {<<"https://">> \o h : h \in Host} \cup {<<"https://">> \o h \o <<":1">> : h \in Host}
              \cup {<<"null">>}
=============================================================================
