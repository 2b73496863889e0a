--------------------------- MODULE MCLinkFormats ---------------------------
(* An instance of LinkFormats for TLC: keys of two bytes, wallets of one,   *)
(* texts that are too short, too long, no hexadecimal, of mixed case.     *)
EXTENDS LinkFormats, TLC

Texts(alphabet, n) == UNION {[1..m -> alphabet] : m \in 0..n}
MCPubkeyText == Texts({"0", "2"}, 4)
                  \cup {<<"0", d, hi, lo>> : d \in {"2", "3"}, hi, lo \in {"0", "a", "A", ":", " "}}
                  \cup {<<" ", "0", "2", "a", "A">>, <<"0", "2", "a", "A", " ">>}
MCWalletText == Texts({"0", "a", "x"}, 2)
                  \cup {<<"0", x, hi, lo>> : x \in {"x", "0"}, hi, lo \in {"0", "a", "A", "x"}}

MCChallengeHex == <<"a", "0">>
MCApiDomain == <<"api">>
=============================================================================
