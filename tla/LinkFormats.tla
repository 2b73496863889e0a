---------------------------- MODULE LinkFormats ----------------------------
(***************************************************************************)
(* The texts a claim passes through (routes/challenge.rs): the key and the *)
(* wallet of the minting request, and the OAuth state                      *)
(* "challenge:pubkey:platform" that comes back through the user's browser, *)
(* cut short or with whitespace in it when the link was copied.            *)
(*                                                                         *)
(* A text is a sequence of letters.  The lengths in bytes are constants,   *)
(* 33 and 20 in the code.                                                  *)
(***************************************************************************)
EXTENDS Integers, SequencesExt

CONSTANTS PubkeyText, WalletText,   \* what requests contain
          ChallengeHex,             \* a minted id, hex::encode of random bytes
          ApiDomain,                \* the platform segment
          PubkeyBytes, WalletBytes,
          MaxSpaces,                \* bound on the whitespace a copied link gains
          None

ASSUME LinkAssumption == /\ PubkeyBytes \in Nat \ {0}
                         /\ {WalletBytes, MaxSpaces} \subseteq Nat
ASSUME TextAssumption == \A text \in PubkeyText \cup WalletText : text \in Seq(ToSet(text))

VARIABLES body,     \* the minting request
          stored,   \* the PendingChallenge, or None
          link,     \* the state parameter in the link
          kept,     \* how many of its letters the link has kept
          outcome   \* of the callback that received the link

vars == <<body, stored, link, kept, outcome>>

(***************************************************************************)
(* hex::decode: pairs of digits of either case.                            *)
(***************************************************************************)
Digit == [d \in {"0", "2", "3", "a", "A"} |->
            CASE d = "0" -> 0 [] d = "2" -> 2 [] d = "3" -> 3 [] d \in {"a", "A"} -> 10]

IsHex(text) == Len(text) % 2 = 0 /\ \A i \in DOMAIN text : text[i] \in DOMAIN Digit
Decode(text) == [i \in 1..(Len(text) \div 2) |-> 16 * Digit[text[2 * i - 1]] + Digit[text[2 * i]]]

Whitespace == {" "}
Stripped(text) ==
  LET clean[n \in 0..Len(text)] ==
        IF n = 0 THEN <<>>
        ELSE IF text[n] \in Whitespace THEN clean[n - 1] ELSE Append(clean[n - 1], text[n])
  IN  clean[Len(text)]

\* hex::encode writes digits, and no host has whitespace in its name.
ASSUME SegmentAssumption ==
  /\ ChallengeHex \in Seq(DOMAIN Digit) /\ ChallengeHex # <<>>
  /\ ApiDomain \in Seq(ToSet(ApiDomain)) /\ ToSet(ApiDomain) \cap Whitespace = {}

Letter == (UNION {ToSet(text) : text \in PubkeyText \cup WalletText})
            \cup DOMAIN Digit \cup ToSet(ApiDomain) \cup Whitespace \cup {":"}
ASSUME NoneIsNoText ==
  /\ None \notin [1..WalletBytes -> Nat]
  /\ None \notin [pubkey : PubkeyText, wallet : WalletText \cup [1..WalletBytes -> Nat]]
  /\ None \notin [challenge : Seq(Letter), pubkey : Seq(Letter)]

validate_compressed_pubkey(text) ==
  IsHex(text) /\ Len(Decode(text)) = PubkeyBytes /\ Decode(text)[1] \in {2, 3}

Zeros(n) == [i \in 1..n |-> 0]
StripPrefix(text) == IF IsPrefix(<<"0", "x">>, text) THEN SubSeq(text, 3, Len(text)) ELSE text

\* A wallet of zeros is let through.
AnyWallet(text) ==
  LET raw == StripPrefix(text)
  IN  IF IsHex(raw) /\ Len(Decode(raw)) = WalletBytes THEN Decode(raw) ELSE None

\* The address, or None for a text that is refused.
parse_link_wallet(text) ==
  LET raw == StripPrefix(text)
  IN  IF IsHex(raw) /\ Len(Decode(raw)) = WalletBytes /\ Decode(raw) # Zeros(WalletBytes)
        THEN Decode(raw) ELSE None

format_oauth_state(pubkey) == ChallengeHex \o <<":">> \o pubkey \o <<":">> \o ApiDomain

\* splitn(3, ':'), of which only the first two parts are read.
FirstColon(text) ==
  LET colons == {i \in DOMAIN text : text[i] = ":"}
  IN  IF colons = {} THEN Len(text) + 1 ELSE Min(colons)
Head2(text) ==
  LET i == FirstColon(text)
      rest == SubSeq(text, i + 1, Len(text))
  IN  [challenge |-> SubSeq(text, 1, i - 1), pubkey |-> SubSeq(rest, 1, FirstColon(rest) - 1)]

\* A parser that takes the state as it came.
ParseUnstripped(text) ==
  LET parts == Head2(text)
  IN  IF <<>> \in {parts.challenge, parts.pubkey} THEN None ELSE parts

parse_oauth_state(text) ==
  LET parts == Head2(Stripped(text))
  IN  IF <<>> \in {parts.challenge, parts.pubkey} THEN None ELSE parts

(***************************************************************************)
(* One claim, from the request to the callback.                            *)
(***************************************************************************)
Init == body = None /\ stored = None /\ link = None /\ kept = 0 /\ outcome = None

challenge_github(pubkey, wallet) ==
  /\ body = None
  /\ body' = [pubkey |-> pubkey, wallet |-> wallet]
  /\ IF validate_compressed_pubkey(pubkey) /\ parse_link_wallet(wallet) # None
       THEN /\ stored' = [pubkey |-> pubkey, wallet |-> parse_link_wallet(wallet)]
            /\ link' = format_oauth_state(pubkey)
            /\ kept' = Len(link')
       ELSE UNCHANGED <<stored, link, kept>>
  /\ UNCHANGED outcome

\* The user's copy of the link: a part of it, with whitespace where lines broke.
Cut(n) == /\ outcome = None /\ kept = Len(link) /\ n < kept
          /\ link' = SubSeq(link, 1, n) /\ kept' = n
          /\ UNCHANGED <<body, stored, outcome>>

Breaks(i) == /\ outcome = None /\ Len(link) < kept + MaxSpaces
             /\ link' = InsertAt(link, i, " ")
             /\ UNCHANGED <<body, stored, kept, outcome>>

\* callback_github up to the comparison of the keys; a lookup of an id that is not
\* the minted one finds nothing.
callback_github ==
  /\ outcome = None
  /\ LET parts == parse_oauth_state(link)
     IN  outcome' = CASE parts = None -> "bad_state"
                      [] parts # None /\ parts.challenge # ChallengeHex -> "unknown"
                      [] parts # None /\ parts.challenge = ChallengeHex ->
                           IF parts.pubkey = stored.pubkey THEN "match" ELSE "mismatch"
  /\ UNCHANGED <<body, stored, link, kept>>

Copying == \/ \E n \in 0..kept : Cut(n)
           \/ \E i \in 1..(Len(link) + 1) : Breaks(i)
           \/ callback_github

Next == \/ \E pubkey \in PubkeyText, wallet \in WalletText : challenge_github(pubkey, wallet)
        \/ link # None /\ Copying

Spec == Init /\ [][Next]_vars

(***************************************************************************)
(* Safety.  The reference spells texts out of bytes; the code reads them.  *)
(***************************************************************************)
Lower(letter) == IF letter = "A" THEN "a" ELSE letter
\* text is the hexadecimal spelling of bytes, in any case.
Spells(text, bytes) ==
  /\ Len(text) = 2 * Len(bytes)
  /\ \A i \in DOMAIN bytes : \E hi, lo \in DOMAIN Digit :
       /\ bytes[i] = 16 * Digit[hi] + Digit[lo]
       /\ Lower(text[2 * i - 1]) = Lower(hi) /\ Lower(text[2 * i]) = Lower(lo)

Byte == {16 * Digit[hi] + Digit[lo] : hi, lo \in DOMAIN Digit}
Address == [1..WalletBytes -> Byte] \ {Zeros(WalletBytes)}
Key == {k \in [1..PubkeyBytes -> Byte] : k[1] \in {2, 3}}
SpellsWallet(text, a) == Spells(text, a) \/ \E raw \in {SubSeq(text, 3, Len(text))} :
                                              text = <<"0", "x">> \o raw /\ Spells(raw, a)

\* A request is accepted exactly if it spells a key and a non-zero address, and what
\* is stored is that address, however it was spelled.
AcceptedIffSpelled ==
  body # None =>
    IF stored # None
      THEN /\ \E k \in Key : Spells(body.pubkey, k)
           /\ stored.wallet \in Address /\ SpellsWallet(body.wallet, stored.wallet)
      ELSE ~(/\ \E k \in Key : Spells(body.pubkey, k)
             /\ \E a \in Address : SpellsWallet(body.wallet, a))

\* The link leads back to its claim as long as its first two parts are whole,
\* whatever whitespace it gained and although the platform ("informational only",
\* challenge.rs:67) was cut off; with less it never does.
LinkLeadsBack ==
  outcome # None =>
    (outcome = "match" <=> kept >= Len(ChallengeHex) + 1 + Len(stored.pubkey))
=============================================================================
