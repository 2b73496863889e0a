-------------------------- MODULE LinkFormatsProofs --------------------------
(***************************************************************************)
(* Proofs about LinkFormats, for keys and wallets of any number of bytes,  *)
(* any texts in requests and any whitespace in links.                      *)
(***************************************************************************)
EXTENDS LinkFormats, FiniteSetTheorems, WellFoundedInduction, TLAPS

LOCAL INSTANCE SequenceTheorems

(***************************************************************************)
(* Hexadecimal texts.                                                      *)
(***************************************************************************)
\* The values of the digits, in either case.
LEMMA DigitFacts ==
  /\ DOMAIN Digit = {"0", "2", "3", "a", "A"}
  /\ Digit["0"] = 0 /\ Digit["2"] = 2 /\ Digit["3"] = 3 /\ Digit["a"] = 10 /\ Digit["A"] = 10
BY DEF Digit

\* A letter that is a digit but for its case has the digit's value.
LEMMA LowerFacts ==
  ASSUME NEW letter, NEW d \in DOMAIN Digit, Lower(letter) = Lower(d)
  PROVE  letter \in DOMAIN Digit /\ Digit[letter] = Digit[d]
BY DigitFacts DEF Lower

\* An even number is twice its half.
LEMMA HalfFacts == ASSUME NEW m \in Nat, m % 2 = 0 PROVE m \div 2 \in Nat /\ m = 2 * (m \div 2)
OBVIOUS

\* Each byte of a text comes from two letters of it.
LEMMA DecodeFacts ==
  ASSUME NEW S, NEW text \in Seq(S), IsHex(text)
  PROVE  /\ Len(Decode(text)) \in Nat /\ Len(text) = 2 * Len(Decode(text))
         /\ Decode(text) \in [1..Len(Decode(text)) -> Byte]
         /\ \A i \in 1..Len(Decode(text)) :
              /\ text[2 * i - 1] \in DOMAIN Digit /\ text[2 * i] \in DOMAIN Digit
              /\ Decode(text)[i] = 16 * Digit[text[2 * i - 1]] + Digit[text[2 * i]]
<1> DEFINE n == Len(text) \div 2
<1>1. Len(text) \in Nat /\ DOMAIN text = 1..Len(text) /\ Len(text) % 2 = 0
  BY DEF IsHex
<1>2. n \in Nat /\ Len(text) = 2 * n
  BY <1>1, HalfFacts
<1>3. Len(text) = 2 * n /\ \A i \in DOMAIN text : text[i] \in DOMAIN Digit
  BY <1>2 DEF IsHex
<1> HIDE DEF n
<1>4. ASSUME NEW i \in 1..n PROVE text[2 * i - 1] \in DOMAIN Digit /\ text[2 * i] \in DOMAIN Digit
  <2>1. 2 * i - 1 \in 1..Len(text) /\ 2 * i \in 1..Len(text)
    BY <1>2
  <2> QED
    BY <2>1, <1>1, <1>3
<1>5. Decode(text) = [i \in 1..n |-> 16 * Digit[text[2 * i - 1]] + Digit[text[2 * i]]]
  BY DEF Decode, n
<1>6. Decode(text) \in [1..n -> Byte]
  BY <1>4, <1>5 DEF Byte
<1>7. Len(Decode(text)) = n
  BY <1>2, <1>6
<1> QED
  BY <1>2, <1>4, <1>5, <1>6, <1>7

\* A text spells the bytes it decodes to,
LEMMA DecodeIsSpelled ==
  ASSUME NEW S, NEW text \in Seq(S), IsHex(text)
  PROVE  Spells(text, Decode(text))
<1> DEFINE b == Decode(text)
<1>1. Len(b) \in Nat /\ Len(text) = 2 * Len(b) /\ b \in [1..Len(b) -> Byte]
  BY DecodeFacts
<1>2. ASSUME NEW i \in DOMAIN b
      PROVE  \E hi, lo \in DOMAIN Digit :
               /\ b[i] = 16 * Digit[hi] + Digit[lo]
               /\ Lower(text[2 * i - 1]) = Lower(hi) /\ Lower(text[2 * i]) = Lower(lo)
  <2>1. i \in 1..Len(b)
    BY <1>1
  <2>2. /\ text[2 * i - 1] \in DOMAIN Digit /\ text[2 * i] \in DOMAIN Digit
        /\ b[i] = 16 * Digit[text[2 * i - 1]] + Digit[text[2 * i]]
    BY <2>1, DecodeFacts
  <2> QED
    BY <2>2
<1> QED
  BY <1>1, <1>2 DEF Spells

\* and a text that spells bytes is one that decodes to them.
LEMMA SpelledIsDecoded ==
  ASSUME NEW S, NEW text \in Seq(S), NEW n \in Nat, NEW bytes \in [1..n -> Byte],
         Spells(text, bytes)
  PROVE  IsHex(text) /\ Decode(text) = bytes /\ Len(text) = 2 * n
<1>1. Len(bytes) = n /\ DOMAIN bytes = 1..n
  OBVIOUS
<1>2. Len(text) = 2 * n /\ DOMAIN text = 1..(2 * n)
  BY <1>1 DEF Spells
<1>3. ASSUME NEW i \in 1..n
      PROVE  /\ text[2 * i - 1] \in DOMAIN Digit /\ text[2 * i] \in DOMAIN Digit
             /\ bytes[i] = 16 * Digit[text[2 * i - 1]] + Digit[text[2 * i]]
  <2>1. PICK hi, lo \in DOMAIN Digit :
          /\ bytes[i] = 16 * Digit[hi] + Digit[lo]
          /\ Lower(text[2 * i - 1]) = Lower(hi) /\ Lower(text[2 * i]) = Lower(lo)
    BY <1>1 DEF Spells
  <2> QED
    BY <2>1, LowerFacts
<1>4. ASSUME NEW j \in 1..(2 * n) PROVE text[j] \in DOMAIN Digit
  <2>1. PICK i \in 1..n : j = 2 * i - 1 \/ j = 2 * i
    <3>1. CASE j % 2 = 0
      <4>1. j \div 2 \in 1..n /\ j = 2 * (j \div 2)
        BY <3>1
      <4> QED
        BY <4>1
    <3>2. CASE j % 2 = 1
      <4>1. (j + 1) \div 2 \in 1..n /\ j = 2 * ((j + 1) \div 2) - 1
        BY <3>2
      <4> QED
        BY <4>1
    <3> QED
      BY <3>1, <3>2
  <2> QED
    BY <2>1, <1>3
<1>5. IsHex(text)
  BY <1>2, <1>4 DEF IsHex
<1>6. Len(text) \div 2 = n
  BY <1>2
<1>7. Decode(text) = [i \in 1..n |-> 16 * Digit[text[2 * i - 1]] + Digit[text[2 * i]]]
  BY <1>6 DEF Decode
<1>8. Decode(text) = bytes
  BY <1>3, <1>7
<1> QED
  BY <1>2, <1>5, <1>8

\* The route takes a key exactly if it spells one.
LEMMA KeyFacts ==
  ASSUME NEW S, NEW text \in Seq(S)
  PROVE  validate_compressed_pubkey(text) <=> \E k \in Key : Spells(text, k)
<1>1. ASSUME validate_compressed_pubkey(text) PROVE \E k \in Key : Spells(text, k)
  <2>1. IsHex(text) /\ Len(Decode(text)) = PubkeyBytes /\ Decode(text)[1] \in {2, 3}
    BY <1>1 DEF validate_compressed_pubkey
  <2>2. Decode(text) \in [1..PubkeyBytes -> Byte]
    BY <2>1, DecodeFacts
  <2>3. Decode(text) \in Key
    BY <2>1, <2>2 DEF Key
  <2> QED
    BY <2>1, <2>3, DecodeIsSpelled
<1>2. ASSUME NEW k \in Key, Spells(text, k) PROVE validate_compressed_pubkey(text)
  <2>1. PubkeyBytes \in Nat /\ k \in [1..PubkeyBytes -> Byte] /\ k[1] \in {2, 3}
    BY LinkAssumption DEF Key
  <2>2. IsHex(text) /\ Decode(text) = k
    BY <1>2, <2>1, SpelledIsDecoded
  <2>3. Len(k) = PubkeyBytes
    BY <2>1
  <2> QED
    BY <2>1, <2>2, <2>3 DEF validate_compressed_pubkey
<1> QED
  BY <1>1, <1>2

\* What stands behind a prefix.
LEMMA PrefixFacts ==
  ASSUME NEW S, NEW text \in Seq(S)
  PROVE  /\ SubSeq(text, 3, Len(text)) \in Seq(S)
         /\ IsPrefix(<<"0", "x">>, text) =>
              /\ Len(text) >= 2 /\ text[2] = "x"
              /\ text = <<"0", "x">> \o SubSeq(text, 3, Len(text))
         /\ text = <<"0", "x">> \o SubSeq(text, 3, Len(text)) => IsPrefix(<<"0", "x">>, text)
<1> DEFINE T == S \cup {"0", "x"}
           zx == <<"0", "x">>
           raw == SubSeq(text, 3, Len(text))
<1>1. Len(text) \in Nat /\ text \in Seq(T) /\ \A i \in 1..Len(text) : text[i] \in S
  BY SeqMonotonic
<1>2. /\ raw \in Seq(S)
      /\ Len(raw) = IF 3 <= Len(text) THEN Len(text) - 2 ELSE 0
      /\ \A i \in 1..(Len(text) - 2) : raw[i] = text[i + 2]
  BY <1>1, SubSeqProperties
<1>3. zx \in Seq(T) /\ Len(zx) = 2 /\ zx[1] = "0" /\ zx[2] = "x"
  OBVIOUS
<1>4. raw \in Seq(T)
  BY <1>2, SeqMonotonic
<1>5. /\ zx \o raw \in Seq(T) /\ Len(zx \o raw) = 2 + Len(raw)
      /\ \A i \in 1..(2 + Len(raw)) : (zx \o raw)[i] = IF i <= 2 THEN zx[i] ELSE raw[i - 2]
  <2> HIDE DEF T, zx, raw
  <2>1. /\ zx \o raw \in Seq(T) /\ Len(zx \o raw) = Len(zx) + Len(raw)
        /\ \A i \in 1..(Len(zx) + Len(raw)) :
             (zx \o raw)[i] = IF i <= Len(zx) THEN zx[i] ELSE raw[i - Len(zx)]
    BY <1>3, <1>4, ConcatProperties
  <2> QED
    BY <2>1, <1>3
<1>6. IsPrefix(zx, text) <=> Len(text) >= 2 /\ text[1] = "0" /\ text[2] = "x"
  <2>1. SubSeq(zx, 1, 2) = zx
    <3>1. 1 \in Int /\ 2 \in Int /\ \A i \in 1..2 : zx[i] \in T
      <4>1. "0" \in T /\ "x" \in T
        OBVIOUS
      <4> HIDE DEF T, zx
      <4> QED
        BY <4>1, <1>3
    <3> HIDE DEF T, zx
    <3>2. SubSeq(zx, 1, 2) \in Seq(T)
      BY <3>1, SubSeqProperties
    <3>3. Len(SubSeq(zx, 1, 2)) = 2 /\ \A i \in 1..2 : SubSeq(zx, 1, 2)[i] = zx[i]
      BY <1>3
    <3> QED
      BY <3>2, <3>3, <1>3, SeqEqual
  <2>2. ASSUME Len(text) >= 2
        PROVE  /\ SubSeq(text, 1, 2) \in Seq(T) /\ Len(SubSeq(text, 1, 2)) = 2
               /\ SubSeq(text, 1, 2)[1] = text[1] /\ SubSeq(text, 1, 2)[2] = text[2]
    BY <2>2, <1>1
  <2>3. ASSUME Len(text) >= 2
        PROVE  SubSeq(text, 1, 2) = zx <=> text[1] = "0" /\ text[2] = "x"
    <3> HIDE DEF T, zx
    <3>1. ASSUME text[1] = "0", text[2] = "x" PROVE SubSeq(text, 1, 2) = zx
      <4>1. \A i \in 1..2 : SubSeq(text, 1, 2)[i] = zx[i]
        BY <3>1, <2>2, <2>3, <1>3
      <4> QED
        BY <4>1, <2>2, <2>3, <1>3, SeqEqual
    <3> QED
      BY <3>1, <2>2, <2>3, <1>3
  <2> QED
    BY <2>1, <2>3, <1>1, <1>3 DEF IsPrefix
<1>7. ASSUME IsPrefix(zx, text) PROVE text = zx \o raw
  <2>1. Len(zx \o raw) = Len(text)
    BY <1>1, <1>2, <1>5, <1>6, <1>7
  <2>2. ASSUME NEW i \in 1..Len(text) PROVE text[i] = (zx \o raw)[i]
    <3>1. CASE i <= 2
      BY <3>1, <2>1, <1>3, <1>5, <1>6, <1>7
    <3>2. CASE i > 2
      <4>1. i - 2 \in 1..(Len(text) - 2)
        BY <3>2, <1>1
      <4> QED
        BY <4>1, <3>2, <2>1, <1>1, <1>2, <1>5
    <3> QED
      BY <3>1, <3>2, <1>1
  <2> HIDE DEF T, zx, raw
  <2> QED
    BY <2>1, <2>2, <1>1, <1>5, SeqEqual
<1>8. ASSUME text = zx \o raw PROVE IsPrefix(zx, text)
  <2>1. Len(text) >= 2
    BY <1>2, <1>5, <1>8, <1>1
  <2>2. text[1] = zx[1] /\ text[2] = zx[2]
    BY <1>2, <1>5, <1>8, <1>1
  <2> QED
    BY <2>1, <2>2, <1>3, <1>6
<1> QED
  BY <1>2, <1>6, <1>7, <1>8

\* The route takes a wallet exactly if it spells an address, and takes that one.
LEMMA WalletFacts ==
  ASSUME NEW S, NEW text \in Seq(S)
  PROVE  /\ parse_link_wallet(text) # None =>
              /\ parse_link_wallet(text) \in Address
              /\ SpellsWallet(text, parse_link_wallet(text))
         /\ \A a \in Address : SpellsWallet(text, a) => parse_link_wallet(text) # None
<1> DEFINE raw == StripPrefix(text)
<1>1. raw \in Seq(S)
  BY PrefixFacts DEF StripPrefix
<1>2. WalletBytes \in Nat
  BY LinkAssumption
<1>3. ASSUME parse_link_wallet(text) # None
      PROVE  /\ parse_link_wallet(text) \in Address
             /\ SpellsWallet(text, parse_link_wallet(text))
  <2>1. /\ IsHex(raw) /\ Len(Decode(raw)) = WalletBytes /\ Decode(raw) # Zeros(WalletBytes)
        /\ parse_link_wallet(text) = Decode(raw)
    BY <1>3 DEF parse_link_wallet
  <2>2. Decode(raw) \in Address
    BY <2>1, <1>1, DecodeFacts DEF Address
  <2>3. Spells(raw, Decode(raw))
    BY <2>1, <1>1, DecodeIsSpelled
  <2>4. SpellsWallet(text, Decode(raw))
    BY <2>3, PrefixFacts DEF SpellsWallet, StripPrefix
  <2> QED
    BY <2>1, <2>2, <2>4
<1>4. ASSUME NEW a \in Address, SpellsWallet(text, a) PROVE parse_link_wallet(text) # None
  <2>1. a \in [1..WalletBytes -> Byte] /\ a # Zeros(WalletBytes)
    BY DEF Address
  <2>2. Spells(raw, a)
    <3>1. CASE Spells(text, a)
      <4>1. Len(text) = 2 * WalletBytes /\ IsHex(text)
        BY <3>1, <2>1, <1>2, SpelledIsDecoded
      <4>2. ASSUME IsPrefix(<<"0", "x">>, text) PROVE FALSE
        <5>1. 2 \in DOMAIN text /\ text[2] = "x"
          BY <4>2, PrefixFacts
        <5> QED
          BY <5>1, <4>1, DigitFacts DEF IsHex
      <4> QED
        BY <3>1, <4>2 DEF StripPrefix
    <3>2. CASE /\ text = <<"0", "x">> \o SubSeq(text, 3, Len(text))
               /\ Spells(SubSeq(text, 3, Len(text)), a)
      BY <3>2, PrefixFacts DEF StripPrefix
    <3> QED
      BY <1>4, <3>1, <3>2 DEF SpellsWallet
  <2>3. IsHex(raw) /\ Decode(raw) = a
    BY <2>1, <2>2, <1>1, <1>2, SpelledIsDecoded
  <2>4. Len(a) = WalletBytes
    BY <2>1, <1>2
  <2>5. parse_link_wallet(text) = a
    BY <2>1, <2>3, <2>4 DEF parse_link_wallet
  <2>6. a \in [1..WalletBytes -> Nat]
    BY <2>1, DigitFacts DEF Byte
  <2> QED
    BY <2>5, <2>6, NoneIsNoText
<1> QED
  BY <1>3, <1>4

(***************************************************************************)
(* Places in a text.                                                       *)
(***************************************************************************)
\* A set of positions that is not empty has a least element, and Min is it: the
\* sets 0..i are finite, so one of them has no other inside.
LEMMA MinFacts ==
  ASSUME NEW S \in SUBSET Nat, S # {}
  PROVE  Min(S) \in S /\ \A i \in S : Min(S) <= i
<1> DEFINE T == {0..i : i \in S}
<1>1. T \subseteq FiniteSubsetsOf(Nat) /\ T # {}
  <2>1. ASSUME NEW i \in S PROVE 0..i \in SUBSET Nat /\ IsFiniteSet(0..i)
    <3>1. i \in Int /\ 0..i \subseteq Nat
      OBVIOUS
    <3> QED
      BY <3>1, FS_Interval
  <2> QED
    BY <2>1 DEF FiniteSubsetsOf
<1>2. PICK t \in T : \A u \in T : ~(<<u, t>> \in StrictSubsetOrdering(Nat))
  <2> HIDE DEF T
  <2> QED
    BY <1>1, WFMin, FS_StrictSubsetOrderingWellFounded
<1>3. PICK x \in S : t = 0..x
  OBVIOUS
<1>4. ASSUME NEW y \in S, y < x PROVE FALSE
  <2>1. 0..y \in T /\ 0..x \in T
    OBVIOUS
  <2>2. 0..y \subseteq 0..x /\ 0..y \in SUBSET Nat /\ 0..x \in SUBSET Nat
    BY <1>4
  <2>3. x \in 0..x /\ x \notin 0..y
    BY <1>4
  <2>4. 0..y # 0..x
    BY <2>3
  <2>5. <<0..y, 0..x>> \in StrictSubsetOrdering(Nat)
    BY <2>2, <2>4 DEF StrictSubsetOrdering
  <2> QED
    BY <1>2, <1>3, <2>1, <2>5
<1>5. \A y \in S : x =< y
  BY <1>4
<1> QED
  BY <1>5 DEF Min

\* What holds at 0 and, from each place up to m, at the one after it, holds
\* everywhere up to m.
LEMMA Upwards ==
  ASSUME NEW T, NEW m \in Nat, 0 \in T, \A n \in 0..(m - 1) : n \in T => n + 1 \in T
  PROVE  \A n \in 0..m : n \in T
<1> DEFINE S == {n \in 0..m : n \notin T}
<1>1. CASE S = {}
  BY <1>1
<1>2. CASE S # {}
  <2>1. S \in SUBSET Nat
    OBVIOUS
  <2>2. Min(S) \in S /\ \A i \in S : Min(S) <= i
    BY <1>2, <2>1, MinFacts
  <2>3. PICK x \in S : \A i \in S : x <= i
    BY <2>2
  <2>4. x \in 1..m
    OBVIOUS
  <2>5. x - 1 \in T
    BY <2>3, <2>4
  <2>6. x - 1 \in 0..(m - 1) /\ (x - 1) + 1 = x
    BY <2>4
  <2> QED
    BY <2>5, <2>6
<1> QED
  BY <1>1, <1>2

(***************************************************************************)
(* Stripped, letter by letter.                                             *)
(***************************************************************************)
Kept(clean, letter) == IF letter \in Whitespace THEN clean ELSE Append(clean, letter)

\* g[n] is what is left of the first n letters.
Cleans(S, text, g) ==
  /\ g \in [0..Len(text) -> Seq(S)] /\ g[0] = <<>>
  /\ \A n \in 1..Len(text) : g[n] = Kept(g[n - 1], text[n])

\* Stripped is the last step of going through a text.
LEMMA StrippedFacts ==
  ASSUME NEW S, NEW text \in Seq(S)
  PROVE  \E g : Cleans(S, text, g) /\ Stripped(text) = g[Len(text)]
<1> DEFINE N == Len(text)
           To(n, g) == /\ g \in [0..n -> Seq(S)] /\ g[0] = <<>>
                       /\ \A k \in 1..n : g[k] = Kept(g[k - 1], text[k])
           T == {n \in 0..N : \E g : To(n, g)}
           Equation(g) == g = [n \in 0..N |->
                                 IF n = 0 THEN <<>>
                                 ELSE IF text[n] \in Whitespace THEN g[n - 1]
                                                                ELSE Append(g[n - 1], text[n])]
<1>1. N \in Nat /\ \A i \in 1..N : text[i] \in S
  OBVIOUS
<1>2. 0 \in T
  <2> DEFINE g == [n \in 0..0 |-> <<>>]
  <2>1. To(0, g)
    OBVIOUS
  <2> HIDE DEF To, g
  <2> QED
    BY <2>1, <1>1
<1>3. ASSUME NEW n \in 0..(N - 1), n \in T PROVE n + 1 \in T
  <2>1. PICK g : To(n, g)
    BY <1>3
  <2> DEFINE h == [k \in 0..(n + 1) |-> IF k <= n THEN g[k] ELSE Kept(g[n], text[n + 1])]
  <2>2. Kept(g[n], text[n + 1]) \in Seq(S)
    BY <1>1, <2>1 DEF Kept
  <2>3. h \in [0..(n + 1) -> Seq(S)] /\ h[0] = <<>>
    BY <2>1, <2>2
  <2>4. ASSUME NEW k \in 1..(n + 1) PROVE h[k] = Kept(h[k - 1], text[k])
    <3>1. CASE k <= n
      BY <3>1, <2>1
    <3>2. CASE k = n + 1
      BY <3>2
    <3> QED
      BY <3>1, <3>2
  <2>5. To(n + 1, h)
    BY <2>3, <2>4
  <2> HIDE DEF To, h
  <2> QED
    BY <2>5, <1>1
<1>4. N \in T
  <2> HIDE DEF T
  <2> QED
    BY <1>1, <1>2, <1>3, Upwards
<1>5. PICK e : To(N, e)
  BY <1>4
<1>6. Equation(e)
  <2>1. ASSUME NEW n \in 0..N
        PROVE  e[n] = IF n = 0 THEN <<>>
                      ELSE IF text[n] \in Whitespace THEN e[n - 1] ELSE Append(e[n - 1], text[n])
    <3>1. n # 0 => n \in 1..N
      BY <1>1
    <3> QED
      BY <3>1, <1>5 DEF Kept
  <2> QED
    BY <1>5, <2>1
<1> DEFINE g == CHOOSE f : Equation(f)
<1>7. Equation(g)
  BY <1>6
<1>8. Stripped(text) = g[N]
  BY DEF Stripped
<1> HIDE DEF g
<1>9. g[0] = <<>> /\ \A n \in 1..N : g[n] = Kept(g[n - 1], text[n])
  <2>1. \A n \in 0..N : g[n] = IF n = 0 THEN <<>>
                               ELSE IF text[n] \in Whitespace THEN g[n - 1]
                                                              ELSE Append(g[n - 1], text[n])
    BY <1>7
  <2>2. 0 \in 0..N /\ \A n \in 1..N : n \in 0..N /\ n # 0
    BY <1>1
  <2> QED
    BY <2>1, <2>2 DEF Kept
<1>10. \A n \in 0..N : g[n] \in Seq(S)
  <2> DEFINE U == {n \in 0..N : g[n] \in Seq(S)}
  <2>1. 0 \in U
    <3>1. <<>> \in Seq(S) /\ 0 \in 0..N
      BY <1>1
    <3>2. g[0] = <<>>
      BY <1>9
    <3>3. g[0] \in Seq(S)
      BY <3>1, <3>2
    <3> QED
      BY <3>1, <3>3
  <2>2. ASSUME NEW n \in 0..(N - 1), n \in U PROVE n + 1 \in U
    <3>1. n + 1 \in 1..N /\ (n + 1) - 1 = n /\ g[n] \in Seq(S)
      BY <1>1, <2>2
    <3>2. g[n + 1] = Kept(g[n], text[n + 1]) /\ text[n + 1] \in S
      BY <3>1, <1>1, <1>9
    <3>3. Kept(g[n], text[n + 1]) \in Seq(S)
      BY <3>1, <3>2, AppendProperties DEF Kept
    <3> QED
      BY <3>1, <3>2, <3>3
  <2>3. \A n \in 0..N : n \in U
    <3> HIDE DEF U
    <3> QED
      BY <1>1, <2>1, <2>2, Upwards
  <2> QED
    BY <2>3
<1>11. DOMAIN g = 0..N /\ g = [n \in 0..N |-> g[n]]
  BY <1>7
<1>12. g \in [0..N -> Seq(S)]
  BY <1>10, <1>11
<1> QED
  BY <1>8, <1>9, <1>12 DEF Cleans

\* Nothing is left out of a text without whitespace.
LEMMA CleanFacts ==
  ASSUME NEW S, NEW text \in Seq(S), \A i \in 1..Len(text) : text[i] \notin Whitespace
  PROVE  Stripped(text) = text
<1>1. PICK g : Cleans(S, text, g) /\ Stripped(text) = g[Len(text)]
  BY StrippedFacts
<1> DEFINE T == {n \in 0..Len(text) : g[n] = SubSeq(text, 1, n)}
<1>2. 0 \in T
  <2>1. SubSeq(text, 1, 0) = <<>>
    BY SubSeqEmpty
  <2>2. g[0] = <<>>
    BY <1>1 DEF Cleans
  <2>3. g[0] = SubSeq(text, 1, 0)
    BY <2>1, <2>2
  <2>4. 0 \in 0..Len(text)
    OBVIOUS
  <2> QED
    BY <2>3, <2>4
<1>3. ASSUME NEW n \in 0..(Len(text) - 1), n \in T PROVE n + 1 \in T
  <2>1. n + 1 \in 1..Len(text) /\ (n + 1) - 1 = n /\ text[n + 1] \in S
    OBVIOUS
  <2>2. g[n + 1] = Append(SubSeq(text, 1, n), text[n + 1])
    BY <1>1, <1>3, <2>1 DEF Cleans, Kept
  <2>3. SubSeq(text, 1, n) \in Seq(S) /\ Len(SubSeq(text, 1, n)) = n
    BY <2>1
  <2>4. SubSeq(text, 1, n + 1) \in Seq(S) /\ Len(SubSeq(text, 1, n + 1)) = n + 1
    BY <2>1
  <2>5. \A k \in 1..(n + 1) :
          Append(SubSeq(text, 1, n), text[n + 1])[k] = SubSeq(text, 1, n + 1)[k]
    BY <2>1, <2>3, <2>4
  <2>6. Append(SubSeq(text, 1, n), text[n + 1]) = SubSeq(text, 1, n + 1)
    BY <2>1, <2>3, <2>4, <2>5, SeqEqual, AppendProperties
  <2>7. g[n + 1] = SubSeq(text, 1, n + 1) /\ n + 1 \in 0..Len(text)
    BY <2>1, <2>2, <2>6
  <2> QED
    BY <2>7
<1>4. Len(text) \in T
  <2> HIDE DEF T
  <2> QED
    BY <1>2, <1>3, Upwards
<1> QED
  BY <1>1, <1>4, SubSeqFull

\* What stands where after a letter has been put in.
LEMMA InsertFacts ==
  ASSUME NEW S, NEW text \in Seq(S), NEW e \in S, NEW i \in 1..(Len(text) + 1)
  PROVE  /\ InsertAt(text, i, e) \in Seq(S) /\ Len(InsertAt(text, i, e)) = Len(text) + 1
         /\ InsertAt(text, i, e)[i] = e
         /\ \A k \in 1..(i - 1) : InsertAt(text, i, e)[k] = text[k]
         /\ \A k \in i..Len(text) : InsertAt(text, i, e)[k + 1] = text[k]
<1> DEFINE a == SubSeq(text, 1, i - 1)
           b == SubSeq(text, i, Len(text))
<1>1. /\ a \in Seq(S) /\ Len(a) = i - 1
      /\ \A k \in 1..(i - 1) : a[k] = text[k]
  OBVIOUS
<1>2. /\ b \in Seq(S) /\ Len(b) = Len(text) - i + 1
      /\ \A k \in 1..(Len(text) - i + 1) : b[k] = text[k + i - 1]
  OBVIOUS
<1>3. InsertAt(text, i, e) = (a \o <<e>>) \o b
  BY DEF InsertAt
<1> HIDE DEF a, b
<1>4. /\ a \o <<e>> \in Seq(S) /\ Len(a \o <<e>>) = i
      /\ \A k \in 1..(i - 1) : (a \o <<e>>)[k] = text[k]
      /\ (a \o <<e>>)[i] = e
  BY <1>1
<1>5. /\ (a \o <<e>>) \o b \in Seq(S) /\ Len((a \o <<e>>) \o b) = i + Len(b)
      /\ \A k \in 1..i : ((a \o <<e>>) \o b)[k] = (a \o <<e>>)[k]
      /\ \A k \in (i + 1)..(i + Len(b)) : ((a \o <<e>>) \o b)[k] = b[k - i]
  BY <1>2, <1>4
<1>6. ASSUME NEW k \in i..Len(text) PROVE InsertAt(text, i, e)[k + 1] = text[k]
  <2>1. k + 1 \in (i + 1)..(i + Len(b)) /\ (k + 1) - i \in 1..(Len(text) - i + 1)
    BY <1>2
  <2>2. InsertAt(text, i, e)[k + 1] = b[(k + 1) - i]
    BY <2>1, <1>3, <1>5
  <2>3. ((k + 1) - i) + i - 1 = k
    OBVIOUS
  <2> QED
    BY <2>1, <2>2, <2>3, <1>2
<1>7. \A k \in 1..(i - 1) : k \in 1..i
  OBVIOUS
<1> QED
  BY <1>2, <1>3, <1>4, <1>5, <1>6, <1>7

\* Whitespace that was put in is taken out again.
LEMMA BreakFacts ==
  ASSUME NEW S, NEW text \in Seq(S), NEW blank \in S \cap Whitespace,
         NEW i \in 1..(Len(text) + 1)
  PROVE  Stripped(InsertAt(text, i, blank)) = Stripped(text)
<1> DEFINE broken == InsertAt(text, i, blank)
           N == Len(text)
<1>1. /\ broken \in Seq(S) /\ Len(broken) = N + 1 /\ broken[i] = blank
      /\ \A k \in 1..(i - 1) : broken[k] = text[k]
      /\ \A k \in i..N : broken[k + 1] = text[k]
  BY InsertFacts
<1> HIDE DEF broken
<1>2. PICK g : Cleans(S, text, g) /\ Stripped(text) = g[N]
  BY StrippedFacts
<1>3. PICK h : Cleans(S, broken, h) /\ Stripped(broken) = h[N + 1]
  BY <1>1, StrippedFacts
<1>4. h[0] = g[0]
  BY <1>2, <1>3 DEF Cleans
<1>5. N \in Nat /\ i - 1 \in Nat
  OBVIOUS
<1> DEFINE T == {n \in 0..(i - 1) : h[n] = g[n]}
           U == {n \in 0..(N + 1 - i) : h[i + n] = g[i - 1 + n]}
<1>6. \A n \in 0..(i - 1) : n \in T
  <2>1. 0 \in T
    BY <1>4, <1>5
  <2>2. ASSUME NEW n \in 0..((i - 1) - 1), n \in T PROVE n + 1 \in T
    <3>1. n + 1 \in 1..(i - 1) /\ n + 1 \in 1..N /\ n + 1 \in 1..(N + 1) /\ (n + 1) - 1 = n
      OBVIOUS
    <3>2. g[n + 1] = Kept(g[n], text[n + 1]) /\ h[n + 1] = Kept(h[n], broken[n + 1])
      BY <3>1, <1>1, <1>2, <1>3 DEF Cleans
    <3>3. h[n + 1] = g[n + 1]
      BY <3>1, <3>2, <2>2, <1>1
    <3> QED
      BY <3>1, <3>3
  <2> HIDE DEF T
  <2> QED
    BY <2>1, <2>2, <1>5, Upwards
<1>7. h[i] = g[i - 1]
  <2>1. i \in 1..(N + 1) /\ i - 1 \in 0..(i - 1)
    OBVIOUS
  <2>2. h[i] = Kept(h[i - 1], blank)
    BY <2>1, <1>1, <1>3 DEF Cleans
  <2> QED
    BY <2>1, <2>2, <1>6 DEF Kept
<1>8. \A n \in 0..(N + 1 - i) : n \in U
  <2>1. 0 \in U
    BY <1>7, <1>5
  <2>2. ASSUME NEW n \in 0..((N + 1 - i) - 1), n \in U PROVE n + 1 \in U
    <3>1. /\ i + (n + 1) \in 1..(N + 1) /\ (i + (n + 1)) - 1 = i + n
          /\ i + n \in 1..N /\ i - 1 + (n + 1) = i + n /\ (i + n) - 1 = i - 1 + n
          /\ i + n \in i..N /\ (i + n) + 1 = i + (n + 1) /\ n + 1 \in 0..(N + 1 - i)
      OBVIOUS
    <3>2. h[i + (n + 1)] = Kept(h[i + n], broken[i + (n + 1)])
      BY <3>1, <1>1, <1>3 DEF Cleans
    <3>3. g[i + n] = Kept(g[i - 1 + n], text[i + n])
      BY <3>1, <1>2 DEF Cleans
    <3>4. broken[i + (n + 1)] = text[i + n]
      BY <3>1, <1>1
    <3>5. h[i + n] = g[i - 1 + n]
      BY <2>2
    <3>6. h[i + (n + 1)] = g[i - 1 + (n + 1)]
      BY <3>1, <3>2, <3>3, <3>4, <3>5
    <3> QED
      BY <3>1, <3>6
  <2>3. N + 1 - i \in Nat
    OBVIOUS
  <2> HIDE DEF U
  <2> QED
    BY <2>1, <2>2, <2>3, Upwards
<1>9. N + 1 - i \in 0..(N + 1 - i) /\ i + (N + 1 - i) = N + 1 /\ i - 1 + (N + 1 - i) = N
  OBVIOUS
<1>10. h[i + (N + 1 - i)] = g[i - 1 + (N + 1 - i)]
  BY <1>8, <1>9
<1> QED
  BY <1>2, <1>3, <1>9, <1>10 DEF broken

(***************************************************************************)
(* The OAuth state and what is read of it.                                 *)
(***************************************************************************)
\* What stands where in two texts put together.
LEMMA ConcatLength ==
  ASSUME NEW S, NEW a \in Seq(S), NEW b \in Seq(S)
  PROVE  a \o b \in Seq(S) /\ Len(a \o b) = Len(a) + Len(b)
OBVIOUS

\* First the one,
LEMMA ConcatFront ==
  ASSUME NEW S, NEW a \in Seq(S), NEW b \in Seq(S), NEW i \in 1..Len(a)
  PROVE  (a \o b)[i] = a[i]
OBVIOUS

\* then the other.
LEMMA ConcatBack ==
  ASSUME NEW S, NEW a \in Seq(S), NEW b \in Seq(S), NEW i \in 1..Len(b)
  PROVE  (a \o b)[Len(a) + i] = b[i]
OBVIOUS

\* What stands where in two parts and a rest with colons between them.
LEMMA JoinFacts ==
  ASSUME NEW S, NEW a \in Seq(S), NEW p \in Seq(S), NEW d \in Seq(S), NEW colon \in S,
         NEW t, t = a \o <<colon>> \o p \o <<colon>> \o d
  PROVE  /\ t \in Seq(S) /\ Len(t) = Len(a) + Len(p) + Len(d) + 2
         /\ \A i \in 1..Len(a) : t[i] = a[i]
         /\ t[Len(a) + 1] = colon
         /\ \A i \in 1..Len(p) : t[Len(a) + 1 + i] = p[i]
         /\ t[Len(a) + Len(p) + 2] = colon
         /\ \A i \in 1..Len(d) : t[Len(a) + Len(p) + 2 + i] = d[i]
<1> DEFINE t1 == a \o <<colon>>
           t2 == t1 \o p
           t3 == t2 \o <<colon>>
<1>1. /\ t1 \in Seq(S) /\ Len(t1) = Len(a) + 1 /\ t1[Len(a) + 1] = colon
      /\ \A i \in 1..Len(a) : t1[i] = a[i]
  OBVIOUS
<1> HIDE DEF t1
<1>2. /\ t2 \in Seq(S) /\ Len(t2) = Len(t1) + Len(p)
      /\ \A i \in 1..Len(t1) : t2[i] = t1[i]
      /\ \A i \in 1..Len(p) : t2[Len(t1) + i] = p[i]
  <2>1. t1 \in Seq(S)
    BY <1>1
  <2>2. t1 \o p \in Seq(S) /\ Len(t1 \o p) = Len(t1) + Len(p)
    BY <2>1, ConcatLength
  <2>3. \A i \in 1..Len(t1) : (t1 \o p)[i] = t1[i]
    BY <2>1, ConcatFront
  <2>4. \A i \in 1..Len(p) : (t1 \o p)[Len(t1) + i] = p[i]
    BY <2>1, ConcatBack
  <2> QED
    BY <2>2, <2>3, <2>4
<1> HIDE DEF t2
<1>3. /\ t3 \in Seq(S) /\ Len(t3) = Len(t2) + 1 /\ t3[Len(t2) + 1] = colon
      /\ \A i \in 1..Len(t2) : t3[i] = t2[i]
  <2> DEFINE last == <<colon>>
  <2>1. last \in Seq(S) /\ Len(last) = 1 /\ last[1] = colon
    OBVIOUS
  <2> HIDE DEF last
  <2>2. /\ t2 \o last \in Seq(S) /\ Len(t2 \o last) = Len(t2) + Len(last)
        /\ \A i \in 1..Len(t2) : (t2 \o last)[i] = t2[i]
        /\ \A i \in 1..Len(last) : (t2 \o last)[Len(t2) + i] = last[i]
    <3>1. t2 \in Seq(S) /\ last \in Seq(S)
      BY <1>2, <2>1
    <3>2. t2 \o last \in Seq(S) /\ Len(t2 \o last) = Len(t2) + Len(last)
      BY <3>1, ConcatLength
    <3>3. \A i \in 1..Len(t2) : (t2 \o last)[i] = t2[i]
      BY <3>1, ConcatFront
    <3>4. \A i \in 1..Len(last) : (t2 \o last)[Len(t2) + i] = last[i]
      BY <3>1, ConcatBack
    <3> QED
      BY <3>2, <3>3, <3>4
  <2>3. 1 \in 1..Len(last)
    BY <2>1
  <2> QED
    BY <2>1, <2>2, <2>3 DEF last
<1> HIDE DEF t3
<1>4. /\ t3 \o d \in Seq(S) /\ Len(t3 \o d) = Len(t3) + Len(d)
      /\ \A i \in 1..Len(t3) : (t3 \o d)[i] = t3[i]
      /\ \A i \in 1..Len(d) : (t3 \o d)[Len(t3) + i] = d[i]
  <2>1. t3 \in Seq(S)
    BY <1>3
  <2>2. t3 \o d \in Seq(S) /\ Len(t3 \o d) = Len(t3) + Len(d)
    BY <2>1, ConcatLength
  <2>3. \A i \in 1..Len(t3) : (t3 \o d)[i] = t3[i]
    BY <2>1, ConcatFront
  <2>4. \A i \in 1..Len(d) : (t3 \o d)[Len(t3) + i] = d[i]
    BY <2>1, ConcatBack
  <2> QED
    BY <2>2, <2>3, <2>4
<1>5. t = t3 \o d
  BY DEF t1, t2, t3
<1>6. Len(a) \in Nat /\ Len(p) \in Nat /\ Len(d) \in Nat
  OBVIOUS
<1>7. Len(t2) = Len(a) + Len(p) + 1 /\ Len(t3) = Len(a) + Len(p) + 2
  BY <1>1, <1>2, <1>3, <1>6
<1>8. \A i \in 1..Len(t2) : t[i] = t2[i]
  BY <1>3, <1>4, <1>5, <1>6, <1>7
<1>9. \A i \in 1..Len(t1) : t[i] = t1[i]
  BY <1>8, <1>1, <1>2, <1>6, <1>7
<1>10. \A i \in 1..Len(a) : t[i] = a[i]
  BY <1>9, <1>1, <1>6
<1>11. t[Len(a) + 1] = colon
  BY <1>9, <1>1, <1>6
<1>12. ASSUME NEW i \in 1..Len(p) PROVE t[Len(a) + 1 + i] = p[i]
  <2>1. Len(t1) + i = Len(a) + 1 + i /\ Len(a) + 1 + i \in 1..Len(t2)
    BY <1>1, <1>6, <1>7
  <2> QED
    BY <2>1, <1>2, <1>8
<1>13. t[Len(a) + Len(p) + 2] = colon
  BY <1>3, <1>4, <1>5, <1>6, <1>7
<1>14. t \in Seq(S) /\ Len(t) = Len(a) + Len(p) + Len(d) + 2
  BY <1>4, <1>5, <1>6, <1>7
<1>15. \A i \in 1..Len(d) : t[Len(a) + Len(p) + 2 + i] = d[i]
  BY <1>4, <1>5, <1>7
<1> QED
  BY <1>10, <1>11, <1>12, <1>13, <1>14, <1>15

\* Where the first colon is, if there is one.
LEMMA FirstColonFacts ==
  ASSUME NEW S, NEW text \in Seq(S), NEW i \in 1..(Len(text) + 1),
         \A k \in 1..(i - 1) : text[k] # ":", i = Len(text) + 1 \/ text[i] = ":"
  PROVE  FirstColon(text) = i
<1> DEFINE colons == {k \in DOMAIN text : text[k] = ":"}
<1>1. FirstColon(text) = IF colons = {} THEN Len(text) + 1 ELSE Min(colons)
  BY DEF FirstColon
<1>2. CASE i = Len(text) + 1
  <2>1. colons = {}
    BY <1>2
  <2> QED
    BY <1>1, <1>2, <2>1
<1>3. CASE i # Len(text) + 1
  <2>1. i \in colons /\ \A k \in colons : i <= k
    BY <1>3
  <2>2. colons \in SUBSET Nat /\ colons # {}
    BY <2>1
  <2> HIDE DEF colons
  <2>3. Min(colons) \in colons /\ \A k \in colons : Min(colons) <= k
    BY <2>2, MinFacts
  <2>4. Min(colons) = i
    <3>1. PICK x \in colons : x = Min(colons) /\ \A k \in colons : x <= k
      BY <2>3
    <3>2. x \in Nat /\ i \in Nat /\ i <= x /\ x <= i
      BY <2>1, <2>2, <3>1
    <3> QED
      BY <3>1, <3>2
  <2> QED
    BY <1>1, <2>2, <2>4
<1> QED
  BY <1>2, <1>3

\* Of a text whose first two parts are whole, those parts are read,
LEMMA WholeParts ==
  ASSUME NEW S, NEW t \in Seq(S), NEW a \in Seq(S), NEW p \in Seq(S),
         Len(t) >= Len(a) + 1 + Len(p),
         \A i \in 1..Len(a) : t[i] = a[i] /\ t[i] # ":",
         t[Len(a) + 1] = ":",
         \A i \in 1..Len(p) : t[Len(a) + 1 + i] = p[i] /\ t[Len(a) + 1 + i] # ":",
         Len(t) >= Len(a) + Len(p) + 2 => t[Len(a) + Len(p) + 2] = ":"
  PROVE  Head2(t) = [challenge |-> a, pubkey |-> p]
<1> DEFINE m == Len(a)
           n == Len(p)
           rest == SubSeq(t, m + 2, Len(t))
<1>1. m \in Nat /\ n \in Nat /\ Len(t) \in Nat
  OBVIOUS
<1>2. FirstColon(t) = m + 1
  <2>1. m + 1 \in 1..(Len(t) + 1) /\ \A k \in 1..((m + 1) - 1) : t[k] # ":"
    BY <1>1
  <2> QED
    BY <2>1, FirstColonFacts
<1>3. SubSeq(t, 1, m) = a
  <2>1. SubSeq(t, 1, m) \in Seq(S) /\ Len(SubSeq(t, 1, m)) = m
    BY <1>1
  <2>2. \A i \in 1..m : SubSeq(t, 1, m)[i] = a[i]
    BY <1>1
  <2> QED
    BY <2>1, <2>2, SeqEqual
<1>4. /\ rest \in Seq(S) /\ Len(rest) = Len(t) - m - 1
      /\ \A i \in 1..(Len(t) - m - 1) : rest[i] = t[m + 1 + i]
  BY <1>1
<1>5. FirstColon(rest) = n + 1
  <2> HIDE DEF rest
  <2>1. n + 1 \in 1..(Len(rest) + 1)
    BY <1>1, <1>4
  <2>2. ASSUME NEW k \in 1..((n + 1) - 1) PROVE rest[k] # ":"
    <3>1. k \in 1..n /\ k \in 1..(Len(t) - m - 1)
      BY <1>1
    <3> QED
      BY <3>1, <1>4
  <2>3. ASSUME n + 1 # Len(rest) + 1 PROVE rest[n + 1] = ":"
    <3>1. n # Len(t) - m - 1 /\ Len(t) >= m + 1 + n
      BY <2>3, <1>1, <1>4
    <3>2. n + 1 \in 1..(Len(t) - m - 1) /\ m + 1 + (n + 1) = m + n + 2 /\ Len(t) >= m + n + 2
      BY <3>1, <1>1
    <3> QED
      BY <3>2, <1>4
  <2> QED
    BY <2>1, <2>2, <2>3, <1>4, FirstColonFacts
<1>6. SubSeq(rest, 1, n) = p
  <2> HIDE DEF rest
  <2>1. n <= Len(rest)
    BY <1>1, <1>4
  <2>2. SubSeq(rest, 1, n) \in Seq(S) /\ Len(SubSeq(rest, 1, n)) = n
    BY <2>1, <1>1, <1>4
  <2>3. ASSUME NEW i \in 1..n PROVE SubSeq(rest, 1, n)[i] = p[i]
    <3>1. i \in 1..(Len(t) - m - 1)
      BY <2>1, <1>1, <1>4
    <3>2. SubSeq(rest, 1, n)[i] = rest[i]
      BY <2>1, <1>1, <1>4
    <3> QED
      BY <3>1, <3>2, <1>4
  <2> QED
    BY <2>2, <2>3, SeqEqual
<1>7. (m + 1) + 1 = m + 2 /\ (m + 1) - 1 = m /\ (n + 1) - 1 = n
  BY <1>1
<1> QED
  BY <1>2, <1>3, <1>5, <1>6, <1>7 DEF Head2

\* and of a text that has less, something shorter is read for the second.
LEMMA CutParts ==
  ASSUME NEW S, NEW t \in Seq(S), NEW m \in Nat, NEW n \in Nat \ {0}, Len(t) < m + 1 + n,
         \A i \in 1..m : i <= Len(t) => t[i] # ":",
         m + 1 <= Len(t) => t[m + 1] = ":",
         \A i \in 1..n : m + 1 + i <= Len(t) => t[m + 1 + i] # ":"
  PROVE  /\ Head2(t) \in [challenge : Seq(S), pubkey : Seq(S)]
         /\ Len(Head2(t).pubkey) < n
<1> DEFINE c == FirstColon(t)
           rest == SubSeq(t, c + 1, Len(t))
<1>1. c = IF Len(t) <= m THEN Len(t) + 1 ELSE m + 1
  <2>1. CASE Len(t) <= m
    <3>1. Len(t) + 1 \in 1..(Len(t) + 1) /\ \A k \in 1..((Len(t) + 1) - 1) : t[k] # ":"
      BY <2>1
    <3> QED
      BY <3>1, <2>1, FirstColonFacts
  <2>2. CASE ~(Len(t) <= m)
    <3>1. m + 1 \in 1..(Len(t) + 1) /\ \A k \in 1..((m + 1) - 1) : t[k] # ":"
      BY <2>2
    <3>2. t[m + 1] = ":"
      BY <2>2
    <3> QED
      BY <3>1, <3>2, <2>2, FirstColonFacts
  <2> QED
    BY <2>1, <2>2
<1>2. c \in Nat /\ c >= 1 /\ c <= Len(t) + 1
  BY <1>1
<1> HIDE DEF c
<1>3. rest \in Seq(S) /\ Len(rest) < n /\ Len(rest) \in Nat
  <2>1. rest \in Seq(S) /\ Len(rest) = IF c + 1 <= Len(t) THEN Len(t) - c ELSE 0
    BY <1>2
  <2> HIDE DEF rest
  <2> QED
    BY <2>1, <1>1, <1>2
<1>4. \A i \in 1..Len(rest) : rest[i] # ":"
  <2>1. CASE Len(t) <= m
    <3>1. Len(rest) = 0
      BY <2>1, <1>1, <1>2
    <3> HIDE DEF rest
    <3> QED
      BY <3>1
  <2>2. CASE ~(Len(t) <= m)
    <3>1. c = m + 1 /\ Len(rest) = Len(t) - m - 1
      BY <2>2, <1>1
    <3>2. ASSUME NEW i \in 1..Len(rest) PROVE rest[i] # ":"
      <4>1. i \in 1..n /\ m + 1 + i <= Len(t) /\ i \in Nat
        BY <3>1, <1>3
      <4>2. rest[i] = t[m + 1 + i]
        BY <3>1, <4>1, <1>2
      <4> QED
        BY <4>1, <4>2
    <3> QED
      BY <3>2
  <2> QED
    BY <2>1, <2>2
<1>5. FirstColon(rest) = Len(rest) + 1
  <2> HIDE DEF rest
  <2>1. Len(rest) + 1 \in 1..(Len(rest) + 1) /\ \A k \in 1..((Len(rest) + 1) - 1) : rest[k] # ":"
    BY <1>3, <1>4
  <2> QED
    BY <2>1, <1>3, FirstColonFacts
<1>6. /\ SubSeq(rest, 1, FirstColon(rest) - 1) \in Seq(S)
      /\ Len(SubSeq(rest, 1, FirstColon(rest) - 1)) < n
  <2> HIDE DEF rest
  <2>1. FirstColon(rest) - 1 = Len(rest)
    BY <1>3, <1>5
  <2>2. SubSeq(rest, 1, Len(rest)) = rest
    BY <1>3, SubSeqFull
  <2> QED
    BY <2>1, <2>2, <1>3
<1>7. SubSeq(t, 1, c - 1) \in Seq(S)
  BY <1>2
<1>8. Head2(t) = [challenge |-> SubSeq(t, 1, c - 1),
                  pubkey |-> SubSeq(rest, 1, FirstColon(rest) - 1)]
  BY DEF Head2, c
<1> HIDE DEF rest
<1> QED
  BY <1>6, <1>7, <1>8

\* Digits are neither whitespace nor colons.
LEMMA LetterFacts ==
  /\ DOMAIN Digit \cap Whitespace = {} /\ ":" \notin Whitespace /\ ":" \notin DOMAIN Digit
  /\ DOMAIN Digit \subseteq Letter /\ ":" \in Letter /\ Whitespace \subseteq Letter
  /\ ToSet(ApiDomain) \subseteq Letter /\ " " \in Whitespace
<1>1. DOMAIN Digit = {"0", "2", "3", "a", "A"}
  BY DigitFacts
<1>2. DOMAIN Digit \cap Whitespace = {}
  BY <1>1, Zenon DEF Whitespace
<1>3. ":" \notin Whitespace /\ " " \in Whitespace
  BY Zenon DEF Whitespace
<1>4. ":" \notin DOMAIN Digit
  BY <1>1
<1> DEFINE texts == UNION {ToSet(text) : text \in PubkeyText \cup WalletText}
<1>5. Letter = texts \cup DOMAIN Digit \cup ToSet(ApiDomain) \cup Whitespace \cup {":"}
  BY Zenon DEF Letter
<1> HIDE DEF texts
<1>6. DOMAIN Digit \subseteq Letter /\ ":" \in Letter /\ Whitespace \subseteq Letter
  BY <1>5
<1>7. ToSet(ApiDomain) \subseteq Letter
  BY <1>5
<1> QED
  BY <1>2, <1>3, <1>4, <1>6, <1>7, Zenon

\* A key the route takes is a text of digits, and not an empty one.
LEMMA TakenKeyFacts ==
  ASSUME NEW S, NEW text \in Seq(S), validate_compressed_pubkey(text)
  PROVE  text \in Seq(DOMAIN Digit) /\ Len(text) \in Nat \ {0}
<1>1. Len(Decode(text)) = PubkeyBytes /\ IsHex(text)
  BY DEF validate_compressed_pubkey
<1>2. Len(text) = 2 * PubkeyBytes
  BY <1>1, DecodeFacts
<1>3. \A i \in 1..Len(text) : text[i] \in DOMAIN Digit
  BY <1>1 DEF IsHex
<1>4. text \in [1..Len(text) -> DOMAIN Digit]
  BY <1>3
<1> QED
  BY <1>2, <1>4, LinkAssumption

\* The state a claim is minted with, letter by letter.
LEMMA FormatFacts ==
  ASSUME NEW p \in Seq(DOMAIN Digit), NEW t, t = format_oauth_state(p),
         NEW m, m = Len(ChallengeHex)
  PROVE  /\ t \in Seq(Letter) /\ m \in Nat \ {0} /\ Len(t) >= m + 1 + Len(p)
         /\ \A i \in 1..m : t[i] = ChallengeHex[i] /\ t[i] # ":"
         /\ t[m + 1] = ":"
         /\ \A i \in 1..Len(p) : t[m + 1 + i] = p[i] /\ t[m + 1 + i] # ":"
         /\ Len(t) >= m + Len(p) + 2 /\ t[m + Len(p) + 2] = ":"
         /\ \A i \in 1..Len(t) : t[i] \notin Whitespace
<1>1. ChallengeHex \in Seq(Letter) /\ p \in Seq(Letter) /\ ApiDomain \in Seq(Letter)
  BY SegmentAssumption, LetterFacts, SeqMonotonic
<1>2. ":" \in Letter
  BY LetterFacts
<1>3. t = ChallengeHex \o <<":">> \o p \o <<":">> \o ApiDomain
  BY DEF format_oauth_state
<1>4. /\ t \in Seq(Letter) /\ Len(t) = m + Len(p) + Len(ApiDomain) + 2
      /\ \A i \in 1..m : t[i] = ChallengeHex[i]
      /\ t[m + 1] = ":"
      /\ \A i \in 1..Len(p) : t[m + 1 + i] = p[i]
      /\ t[m + Len(p) + 2] = ":"
      /\ \A i \in 1..Len(ApiDomain) : t[m + Len(p) + 2 + i] = ApiDomain[i]
  BY <1>1, <1>2, <1>3, JoinFacts
<1>5. m \in Nat \ {0} /\ Len(p) \in Nat /\ Len(ApiDomain) \in Nat
  BY SegmentAssumption, <1>1
<1>6. \A i \in 1..m : ChallengeHex[i] \in DOMAIN Digit
  BY SegmentAssumption
<1>7. \A i \in 1..Len(ApiDomain) : ApiDomain[i] \in ToSet(ApiDomain)
  BY <1>1 DEF ToSet
<1>8. ASSUME NEW i \in 1..Len(t) PROVE t[i] \notin Whitespace
  <2>1. CASE i \in 1..m
    BY <2>1, <1>4, <1>6, LetterFacts
  <2>2. CASE i = m + 1 \/ i = m + Len(p) + 2
    BY <2>2, <1>4, LetterFacts
  <2>3. CASE i \in (m + 2)..(m + 1 + Len(p))
    <3>1. i - (m + 1) \in 1..Len(p) /\ m + 1 + (i - (m + 1)) = i
      BY <2>3, <1>5
    <3>2. t[i] = p[i - (m + 1)]
      BY <3>1, <1>4
    <3>3. p[i - (m + 1)] \in DOMAIN Digit
      BY <3>1
    <3> QED
      BY <3>2, <3>3, LetterFacts
  <2>4. CASE i \in (m + Len(p) + 3)..Len(t)
    <3>1. /\ i - (m + Len(p) + 2) \in 1..Len(ApiDomain)
          /\ m + Len(p) + 2 + (i - (m + Len(p) + 2)) = i
      BY <2>4, <1>4, <1>5
    <3>2. t[i] = ApiDomain[i - (m + Len(p) + 2)]
      BY <3>1, <1>4
    <3>3. t[i] \in ToSet(ApiDomain)
      BY <3>1, <3>2, <1>7
    <3>4. \A x \in ToSet(ApiDomain) : x \notin Whitespace
      BY SegmentAssumption, Zenon
    <3> QED
      BY <3>3, <3>4
  <2>5. Len(t) = m + Len(p) + Len(ApiDomain) + 2
    BY <1>4
  <2> QED
    BY <2>1, <2>2, <2>3, <2>4, <2>5, <1>5
<1>9. Len(t) >= m + 1 + Len(p) /\ Len(t) >= m + Len(p) + 2
  BY <1>4, <1>5
<1>10. \A i \in 1..m : t[i] = ChallengeHex[i] /\ t[i] # ":"
  BY <1>4, <1>6, LetterFacts
<1>11. \A i \in 1..Len(p) : t[m + 1 + i] = p[i] /\ t[m + 1 + i] # ":"
  <2>1. ASSUME NEW i \in 1..Len(p) PROVE t[m + 1 + i] = p[i] /\ t[m + 1 + i] # ":"
    <3>1. p[i] \in DOMAIN Digit
      OBVIOUS
    <3>2. p[i] # ":"
      BY <3>1, LetterFacts
    <3> QED
      BY <3>2, <1>4
  <2> QED
    BY <2>1
<1> QED
  BY <1>4, <1>5, <1>8, <1>9, <1>10, <1>11

\* Where its key is,
LEMMA KeyInState ==
  ASSUME NEW p \in Seq(DOMAIN Digit), NEW i \in 1..Len(p)
  PROVE  /\ format_oauth_state(p)[Len(ChallengeHex) + 1 + i] = p[i]
         /\ format_oauth_state(p)[Len(ChallengeHex) + 1 + i] # ":"
<1>1. PICK t, m : t = format_oauth_state(p) /\ m = Len(ChallengeHex)
  OBVIOUS
<1>2. t[m + 1 + i] = p[i] /\ t[m + 1 + i] # ":"
  BY <1>1, FormatFacts
<1> QED
  BY <1>1, <1>2

\* and what stands behind the key.
LEMMA ColonInState ==
  ASSUME NEW p \in Seq(DOMAIN Digit)
  PROVE  format_oauth_state(p)[Len(ChallengeHex) + Len(p) + 2] = ":"
<1>1. PICK t, m : t = format_oauth_state(p) /\ m = Len(ChallengeHex)
  OBVIOUS
<1>2. t[m + Len(p) + 2] = ":"
  BY <1>1, FormatFacts
<1> QED
  BY <1>1, <1>2

(***************************************************************************)
(* The inductive invariant: what the link still says, whatever whitespace  *)
(* it gained, is as much of the minted state as the user has kept.         *)
(***************************************************************************)
Minted == format_oauth_state(stored.pubkey)

LinkInv ==
  link # None =>
    /\ stored # None /\ stored.pubkey \in Seq(DOMAIN Digit) /\ Len(stored.pubkey) > 0
    /\ link \in Seq(Letter) /\ kept \in 0..Len(Minted) /\ kept <= Len(link)
    /\ Stripped(link) = SubSeq(Minted, 1, kept)
    /\ kept = Len(link) => link = SubSeq(Minted, 1, kept)

RequestInv == body = None => stored = None /\ link = None /\ outcome = None

Inv == RequestInv /\ AcceptedIffSpelled /\ LinkInv /\ LinkLeadsBack

\* A request is taken or refused for what it spells, and its link says all of its state.
LEMMA RequestStep ==
  ASSUME Inv, NEW pubkey \in PubkeyText, NEW wallet \in WalletText,
         challenge_github(pubkey, wallet)
  PROVE  Inv'
<1>1. body = None /\ stored = None /\ link = None /\ outcome = None
  BY DEF challenge_github, Inv, RequestInv
<1>2. body' = [pubkey |-> pubkey, wallet |-> wallet] /\ outcome' = None
  BY <1>1 DEF challenge_github
<1>3. body' # None
  <2>1. body' \in [pubkey : PubkeyText, wallet : WalletText \cup [1..WalletBytes -> Nat]]
    BY <1>2
  <2> QED
    BY <2>1, NoneIsNoText
<1>4. pubkey \in Seq(ToSet(pubkey)) /\ wallet \in Seq(ToSet(wallet))
  BY TextAssumption
<1>5. validate_compressed_pubkey(pubkey) <=> \E k \in Key : Spells(pubkey, k)
  BY <1>4, KeyFacts
<1>6. /\ parse_link_wallet(wallet) # None =>
           /\ parse_link_wallet(wallet) \in Address
           /\ SpellsWallet(wallet, parse_link_wallet(wallet))
      /\ \A a \in Address : SpellsWallet(wallet, a) => parse_link_wallet(wallet) # None
  BY <1>4, WalletFacts
<1>7. LinkLeadsBack'
  BY <1>2 DEF LinkLeadsBack
<1>8. RequestInv'
  BY <1>3 DEF RequestInv
<1>9. CASE validate_compressed_pubkey(pubkey) /\ parse_link_wallet(wallet) # None
  <2>1. /\ stored' = [pubkey |-> pubkey, wallet |-> parse_link_wallet(wallet)]
        /\ link' = format_oauth_state(pubkey) /\ kept' = Len(link')
    BY <1>9 DEF challenge_github
  <2>2. stored' # None
    <3>1. parse_link_wallet(wallet) \in [1..WalletBytes -> Nat]
      BY <1>6, <1>9, DigitFacts DEF Address, Byte
    <3>2. stored' \in [pubkey : PubkeyText, wallet : WalletText \cup [1..WalletBytes -> Nat]]
      BY <2>1, <3>1
    <3> QED
      BY <3>2, NoneIsNoText
  <2>3. AcceptedIffSpelled'
    BY <1>2, <1>5, <1>6, <1>9, <2>1, <2>2 DEF AcceptedIffSpelled
  <2>4. pubkey \in Seq(DOMAIN Digit) /\ Len(pubkey) \in Nat \ {0}
    BY <1>4, <1>9, TakenKeyFacts
  <2>5. Minted' = link' /\ stored'.pubkey = pubkey
    BY <2>1 DEF Minted
  <2>6. link' \in Seq(Letter) /\ \A i \in 1..Len(link') : link'[i] \notin Whitespace
    BY <2>1, <2>4, FormatFacts
  <2>7. Stripped(link') = link' /\ SubSeq(link', 1, Len(link')) = link'
    BY <2>6, CleanFacts, SubSeqFull
  <2>8. LinkInv'
    BY <2>1, <2>2, <2>4, <2>5, <2>6, <2>7 DEF LinkInv
  <2> QED
    BY <1>7, <1>8, <2>3, <2>8 DEF Inv
<1>10. CASE ~(validate_compressed_pubkey(pubkey) /\ parse_link_wallet(wallet) # None)
  <2>1. stored' = None /\ link' = None
    BY <1>1, <1>10 DEF challenge_github
  <2>2. AcceptedIffSpelled'
    BY <1>2, <1>5, <1>6, <1>10, <2>1 DEF AcceptedIffSpelled
  <2> QED
    BY <1>7, <1>8, <2>1, <2>2 DEF Inv, LinkInv
<1> QED
  BY <1>9, <1>10

\* What is cut off the link is cut off what it says.
LEMMA CutStep ==
  ASSUME Inv, link # None, NEW n \in 0..kept, Cut(n)
  PROVE  Inv'
<1>1. /\ outcome = None /\ kept = Len(link) /\ n < kept /\ link' = SubSeq(link, 1, n)
      /\ kept' = n /\ body' = body /\ stored' = stored /\ outcome' = None
  BY DEF Cut
<1>2. /\ stored # None /\ stored.pubkey \in Seq(DOMAIN Digit) /\ Len(stored.pubkey) > 0
      /\ link \in Seq(Letter) /\ kept \in 0..Len(Minted) /\ link = SubSeq(Minted, 1, kept)
  BY <1>1 DEF Inv, LinkInv
<1>3. Minted \in Seq(Letter) /\ \A i \in 1..Len(Minted) : Minted[i] \notin Whitespace
  BY <1>2, FormatFacts DEF Minted
<1>4. n \in Nat /\ n \in 0..Len(Minted) /\ kept \in Nat /\ Len(Minted) \in Nat
  BY <1>1, <1>2, <1>3
<1>5. link' \in Seq(Letter) /\ Len(link') = n
  BY <1>1, <1>2, <1>4
<1>6. link' = SubSeq(Minted, 1, n)
  <2>1. SubSeq(Minted, 1, n) \in Seq(Letter) /\ Len(SubSeq(Minted, 1, n)) = n
    BY <1>3, <1>4
  <2>2. ASSUME NEW i \in 1..n PROVE link'[i] = SubSeq(Minted, 1, n)[i]
    <3>1. i \in 1..kept /\ i \in 1..Len(Minted)
      BY <1>1, <1>4
    <3>2. link'[i] = link[i] /\ link[i] = Minted[i] /\ SubSeq(Minted, 1, n)[i] = Minted[i]
      BY <3>1, <1>1, <1>2, <1>3, <1>4
    <3> QED
      BY <3>2
  <2> QED
    BY <2>1, <2>2, <1>5, SeqEqual
<1>7. \A i \in 1..Len(link') : link'[i] \notin Whitespace
  <2>1. ASSUME NEW i \in 1..n PROVE link'[i] = Minted[i] /\ i \in 1..Len(Minted)
    BY <1>3, <1>4, <1>6
  <2> QED
    BY <2>1, <1>3, <1>5
<1>8. Stripped(link') = link'
  BY <1>5, <1>7, CleanFacts
<1>9. Minted' = Minted
  BY <1>1 DEF Minted
<1>10. LinkInv'
  BY <1>1, <1>2, <1>4, <1>5, <1>6, <1>8, <1>9 DEF LinkInv
<1>11. (RequestInv /\ AcceptedIffSpelled)'
  <2>1. body # None
    BY <1>2 DEF Inv, RequestInv
  <2> QED
    BY <2>1, <1>1 DEF Inv, RequestInv, AcceptedIffSpelled
<1>12. LinkLeadsBack'
  BY <1>1 DEF LinkLeadsBack
<1> QED
  BY <1>10, <1>11, <1>12 DEF Inv

\* Whitespace that gets into the link changes nothing of what it says.
LEMMA BreaksStep ==
  ASSUME Inv, link # None, NEW i \in 1..(Len(link) + 1), Breaks(i)
  PROVE  Inv'
<1> DEFINE blank == " "
<1>1. /\ outcome = None /\ link' = InsertAt(link, i, blank)
      /\ kept' = kept /\ body' = body /\ stored' = stored /\ outcome' = None
  BY Zenon DEF Breaks
<1>2. blank \in Letter /\ blank \in Letter \cap Whitespace
  BY LetterFacts, Zenon
<1> HIDE DEF blank
<1>3. /\ stored # None /\ stored.pubkey \in Seq(DOMAIN Digit) /\ Len(stored.pubkey) > 0
      /\ link \in Seq(Letter) /\ kept \in 0..Len(Minted) /\ kept <= Len(link)
      /\ Stripped(link) = SubSeq(Minted, 1, kept)
  BY DEF Inv, LinkInv
<1>4. link' \in Seq(Letter) /\ Len(link') = Len(link) + 1
  BY <1>1, <1>2, <1>3, InsertFacts
<1>5. Stripped(link') = SubSeq(Minted, 1, kept)
  BY <1>1, <1>2, <1>3, BreakFacts
<1>6. Minted' = Minted
  BY <1>1 DEF Minted
<1>7. kept' <= Len(link') /\ kept' # Len(link')
  BY <1>1, <1>3, <1>4
<1>8. LinkInv'
  BY <1>1, <1>3, <1>4, <1>5, <1>6, <1>7 DEF LinkInv
<1>9. (RequestInv /\ AcceptedIffSpelled)'
  <2>1. body # None
    BY <1>3 DEF Inv, RequestInv
  <2> QED
    BY <2>1, <1>1 DEF Inv, RequestInv, AcceptedIffSpelled
<1>10. LinkLeadsBack'
  BY <1>1 DEF LinkLeadsBack
<1> QED
  BY <1>8, <1>9, <1>10 DEF Inv

\* What is read of the link is the claim's own challenge and key, if both are there.
LEMMA ParsedFacts ==
  ASSUME LinkInv, link # None
  PROVE  LET whole == kept >= Len(ChallengeHex) + 1 + Len(stored.pubkey)
             parts == parse_oauth_state(link)
         IN  /\ whole => /\ parts # None
                         /\ parts = [challenge |-> ChallengeHex, pubkey |-> stored.pubkey]
             /\ ~whole /\ parts # None => parts.pubkey # stored.pubkey
<1> DEFINE a == ChallengeHex
           p == stored.pubkey
           t == SubSeq(Minted, 1, kept)
           parts == Head2(t)
<1>1. /\ p \in Seq(DOMAIN Digit) /\ Len(p) > 0 /\ kept \in 0..Len(Minted)
      /\ Stripped(link) = t
  BY DEF LinkInv
<1>2. a \in Seq(Letter) /\ p \in Seq(Letter) /\ Len(a) \in Nat \ {0} /\ Len(p) \in Nat \ {0}
  <2>1. a \in Seq(Letter) /\ p \in Seq(Letter)
    BY <1>1, SegmentAssumption, LetterFacts, SeqMonotonic
  <2> QED
    BY <2>1, <1>1, SegmentAssumption, EmptySeq
<1>3. /\ Minted \in Seq(Letter) /\ Len(Minted) \in Nat
      /\ \A i \in 1..Len(a) : Minted[i] = a[i] /\ Minted[i] # ":"
      /\ Minted[Len(a) + 1] = ":"
      /\ \A i \in 1..Len(p) : Minted[Len(a) + 1 + i] = p[i] /\ Minted[Len(a) + 1 + i] # ":"
      /\ Minted[Len(a) + Len(p) + 2] = ":"
  <2>1. Minted = format_oauth_state(p) /\ p \in Seq(DOMAIN Digit)
    BY <1>1 DEF Minted
  <2> HIDE DEF p
  <2>2. Minted \in Seq(Letter)
    BY <2>1, FormatFacts
  <2>3. \A i \in 1..Len(a) : Minted[i] = a[i] /\ Minted[i] # ":"
    BY <2>1, FormatFacts
  <2>4. Minted[Len(a) + 1] = ":"
    BY <2>1, FormatFacts
  <2>5. \A i \in 1..Len(p) : Minted[Len(a) + 1 + i] = p[i] /\ Minted[Len(a) + 1 + i] # ":"
    BY <2>1, KeyInState
  <2>6. Minted[Len(a) + Len(p) + 2] = ":"
    BY <2>1, ColonInState
  <2> QED
    BY <2>2, <2>3, <2>4, <2>5, <2>6
<1>4. /\ t \in Seq(Letter) /\ Len(t) = kept /\ kept \in Nat
      /\ \A i \in 1..kept : t[i] = Minted[i]
  BY <1>1, <1>3
<1>5. parse_oauth_state(link) = IF <<>> \in {parts.challenge, parts.pubkey} THEN None ELSE parts
  BY <1>1 DEF parse_oauth_state
<1> HIDE DEF a, p, t, parts
<1>6. ASSUME kept >= Len(a) + 1 + Len(p)
      PROVE  /\ parse_oauth_state(link) # None
             /\ parse_oauth_state(link) = [challenge |-> a, pubkey |-> p]
  <2>1. \A i \in 1..Len(a) : t[i] = a[i] /\ t[i] # ":"
    BY <1>2, <1>3, <1>4, <1>6
  <2>2. t[Len(a) + 1] = ":"
    BY <1>2, <1>3, <1>4, <1>6
  <2>3. \A i \in 1..Len(p) : t[Len(a) + 1 + i] = p[i] /\ t[Len(a) + 1 + i] # ":"
    BY <1>2, <1>3, <1>4, <1>6
  <2>4. Len(t) >= Len(a) + Len(p) + 2 => t[Len(a) + Len(p) + 2] = ":"
    BY <1>2, <1>3, <1>4, <1>6
  <2>5. Head2(t) = [challenge |-> a, pubkey |-> p]
    BY <2>1, <2>2, <2>3, <2>4, <1>2, <1>4, <1>6, WholeParts
  <2>6. a # <<>> /\ p # <<>>
    BY <1>2
  <2>7. [challenge |-> a, pubkey |-> p] \in [challenge : Seq(Letter), pubkey : Seq(Letter)]
    BY <1>2
  <2> QED
    BY <2>5, <2>6, <2>7, <1>5, NoneIsNoText DEF parts
<1>7. ASSUME ~(kept >= Len(a) + 1 + Len(p)), parse_oauth_state(link) # None
      PROVE  parse_oauth_state(link).pubkey # p
  <2>1. Len(t) < Len(a) + 1 + Len(p)
    BY <1>2, <1>4, <1>7
  <2>2. \A i \in 1..Len(a) : i <= Len(t) => t[i] # ":"
    BY <1>2, <1>3, <1>4
  <2>3. Len(a) + 1 <= Len(t) => t[Len(a) + 1] = ":"
    BY <1>2, <1>3, <1>4
  <2>4. \A i \in 1..Len(p) : Len(a) + 1 + i <= Len(t) => t[Len(a) + 1 + i] # ":"
    BY <1>2, <1>3, <1>4
  <2>5. Len(Head2(t).pubkey) < Len(p)
    BY <2>1, <2>2, <2>3, <2>4, <1>2, <1>4, CutParts
  <2>6. Head2(t).pubkey # p
    BY <2>5, <1>2
  <2> QED
    BY <2>6, <1>5, <1>7 DEF parts
<1> QED
  BY <1>6, <1>7 DEF a, p

\* So the callback finds its claim exactly then.
LEMMA CallbackStep ==
  ASSUME Inv, link # None, callback_github
  PROVE  Inv'
<1> DEFINE parts == parse_oauth_state(link)
           whole == kept >= Len(ChallengeHex) + 1 + Len(stored.pubkey)
<1>1. /\ outcome' = CASE parts = None -> "bad_state"
                      [] parts # None /\ parts.challenge # ChallengeHex -> "unknown"
                      [] parts # None /\ parts.challenge = ChallengeHex ->
                           IF parts.pubkey = stored.pubkey THEN "match" ELSE "mismatch"
      /\ body' = body /\ stored' = stored /\ link' = link /\ kept' = kept
  BY DEF callback_github
<1>2. /\ whole => parts # None /\ parts = [challenge |-> ChallengeHex, pubkey |-> stored.pubkey]
      /\ ~whole /\ parts # None => parts.pubkey # stored.pubkey
  BY ParsedFacts DEF Inv
<1> HIDE DEF parts
<1>3. outcome' = "match" <=> whole
  <2> HIDE DEF whole
  <2>1. CASE whole
    <3>1. parts # None /\ parts.challenge = ChallengeHex /\ parts.pubkey = stored.pubkey
      BY <2>1, <1>2
    <3> QED
      BY <2>1, <3>1, <1>1
  <2>2. CASE ~whole
    <3>1. CASE parts = None
      BY <2>2, <3>1, <1>1
    <3>2. CASE parts # None /\ parts.challenge # ChallengeHex
      BY <2>2, <3>2, <1>1
    <3>3. CASE parts # None /\ parts.challenge = ChallengeHex
      BY <2>2, <3>3, <1>1, <1>2
    <3> QED
      BY <3>1, <3>2, <3>3
  <2> QED
    BY <2>1, <2>2
<1>4. LinkLeadsBack'
  BY <1>1, <1>3 DEF LinkLeadsBack
<1>5. Minted' = Minted
  BY <1>1 DEF Minted
<1>6. (AcceptedIffSpelled /\ LinkInv)'
  BY <1>1, <1>5 DEF Inv, AcceptedIffSpelled, LinkInv
<1>7. RequestInv'
  BY <1>1 DEF Inv, RequestInv
<1> QED
  BY <1>4, <1>6, <1>7 DEF Inv

\* The invariant holds.
THEOREM Invariance == Spec => []Inv
<1>1. Init => Inv
  BY DEF Init, Inv, RequestInv, AcceptedIffSpelled, LinkInv, LinkLeadsBack
<1>2. Inv /\ [Next]_vars => Inv'
  <2> SUFFICES ASSUME Inv, [Next]_vars PROVE Inv'
    OBVIOUS
  <2>1. CASE UNCHANGED vars
    <3>1. Minted' = Minted
      BY <2>1 DEF vars, Minted
    <3> QED
      BY <2>1, <3>1 DEF vars, Inv, RequestInv, AcceptedIffSpelled, LinkInv, LinkLeadsBack
  <2> QED
    BY <2>1, RequestStep, CutStep, BreaksStep, CallbackStep DEF Next, Copying
<1> QED
  BY <1>1, <1>2, PTL DEF Spec

\* A request is accepted exactly if it spells a key and an address, and that
\* address is what is stored.
THEOREM RequestsAreReadRight == Spec => []AcceptedIffSpelled
BY Invariance, PTL DEF Inv

\* A link leads back to its claim exactly as long as its first two parts are whole.
THEOREM LinksLeadBack == Spec => []LinkLeadsBack
BY Invariance, PTL DEF Inv
=============================================================================
