------------------------------ MODULE Origins ------------------------------
(***************************************************************************)
(* Which origins may read this server's replies: ALLOWED_ORIGINS, its      *)
(* split into patterns (allowed_origin_patterns of config.rs) and the      *)
(* predicate of cors_layer (routes/mod.rs), which compares text.           *)
(*                                                                         *)
(* A text is a sequence over a small alphabet: the scheme, the dot and the *)
(* port are one letter each, host names are spelled out, since patterns    *)
(* are cut anywhere.                                                       *)
(***************************************************************************)
EXTENDS Integers, SequencesExt

CONSTANTS AllowedOrigins,   \* the values of ALLOWED_ORIGINS
          Origin,           \* Origin headers a browser sends
          None

VARIABLES allowed_origins,  \* the setting
          patterns,         \* what the layer has been built with
          origin,           \* the header of the request being answered
          admitted          \* the predicate's answer

vars == <<allowed_origins, patterns, origin, admitted>>

\* The letters that mean something.
Comma == ","
Space == " "
Star  == "*"
Dot   == "."

(***************************************************************************)
(* allowed_origin_patterns: split(','), trim, drop the empty.              *)
(***************************************************************************)
\* The pieces between two commas, or a comma and an end.
SplitAtCommas(text) ==
  LET cuts == {0, Len(text) + 1} \cup {i \in DOMAIN text : text[i] = Comma}
      gaps == {c \in cuts \X cuts : c[1] < c[2] /\ ~\E k \in cuts : c[1] < k /\ k < c[2]}
  IN  {SubSeq(text, c[1] + 1, c[2] - 1) : c \in gaps}

\* A setting whose entries are taken as they are.
Untrimmed(text) == text
Trim(text) == LET kept == {i \in DOMAIN text : text[i] # Space}
              IN  IF kept = {} THEN <<>> ELSE SubSeq(text, Min(kept), Max(kept))

Patterns(text) == {Trim(piece) : piece \in SplitAtCommas(text)} \ {<<>>}

\* None is no list of patterns, and neither yes nor no.
ASSUME TextAssumption == \A text \in AllowedOrigins \cup Origin : text \in Seq(ToSet(text))
ASSUME NoneAssumption == /\ \A text \in AllowedOrigins : None # Patterns(text)
                         /\ None \notin BOOLEAN

(***************************************************************************)
(* The predicate.                                                          *)
(***************************************************************************)
\* A suffix that need not begin at a dot.
SuffixAnywhere(pattern, text) ==
  LET suffix == SubSeq(pattern, 3, Len(pattern)) IN IsSuffix(suffix, text)

\* *.suffix: ".suffix" ends the text, or the suffix is the text.
SuffixMatches(pattern, text) ==
  LET suffix == SubSeq(pattern, 3, Len(pattern))
  IN  IsSuffix(<<Dot>> \o suffix, text) \/ text = suffix

Matches(pattern, text) ==
  CASE ~Contains(pattern, Star)         -> text = pattern
    [] IsPrefix(<<Star, Dot>>, pattern)    -> SuffixMatches(pattern, text)
    [] OTHER -> Last(pattern) = Star /\ IsPrefix(Front(pattern), text)

(***************************************************************************)
(* Behaviour: the layer is built once, then requests come in.              *)
(***************************************************************************)
Init == /\ allowed_origins \in AllowedOrigins
        /\ patterns = None /\ origin = None /\ admitted = None

CorsLayer == /\ patterns = None
             /\ patterns' = Patterns(allowed_origins)
             /\ UNCHANGED <<allowed_origins, origin, admitted>>

Request(o) == /\ patterns # None
              /\ origin' = o
              /\ admitted' = \E pattern \in patterns : Matches(pattern, o)
              /\ UNCHANGED <<allowed_origins, patterns>>

Next == CorsLayer \/ \E o \in Origin : Request(o)

Spec == Init /\ [][Next]_vars

(***************************************************************************)
(* What the settings mean: a * stands for any text.  The reference below   *)
(* knows nothing of prefixes, suffixes or the split.                       *)
(***************************************************************************)
\* How far into text a pattern reaches with one more letter.
Reach(letter, ends, text) ==
  IF letter = Star THEN {j \in 0..Len(text) : \E k \in ends : k <= j}
                  ELSE {j \in 1..Len(text) : text[j] = letter /\ j - 1 \in ends}
Glob(pattern, text) ==
  LET ends[i \in 0..Len(pattern)] ==
        IF i = 0 THEN {0} ELSE Reach(pattern[i], ends[i - 1], text)
  IN  Len(text) \in ends[Len(pattern)]

\* The entry at from..to of the setting: commas or ends around it, spaces aside.
Entry(text, from, to) ==
  /\ \A i \in from..to : text[i] # Comma
  /\ text[from] # Space /\ text[to] # Space
  /\ \E i \in 0..(from - 1) :
       /\ i = 0 \/ text[i] = Comma
       /\ \A k \in (i + 1)..(from - 1) : text[k] = Space
  /\ \E j \in (to + 1)..(Len(text) + 1) :
       /\ j = Len(text) + 1 \/ text[j] = Comma
       /\ \A k \in (to + 1)..(j - 1) : text[k] = Space

Entries(text) ==
  LET spans == {r \in (DOMAIN text) \X (DOMAIN text) : r[1] <= r[2] /\ Entry(text, r[1], r[2])}
  IN  {SubSeq(text, r[1], r[2]) : r \in spans}

\* The bare domain of *.domain, for which the code has a branch of its own.
Apex(pattern, text) == pattern = <<Star, Dot>> \o text

\* No origin is let in that no entry covers: a suffix matches whole labels, a star
\* in a place the code does not support covers nothing more, an empty entry nobody.
AdmitsOnlyCovered ==
  admitted = TRUE =>
    \E entry \in Entries(allowed_origins) : Glob(entry, origin) \/ Apex(entry, origin)

Stars(pattern) == {i \in DOMAIN pattern : pattern[i] = Star}
Documented(pattern) == \/ Stars(pattern) = {}
                       \/ Stars(pattern) = {1} /\ IsPrefix(<<Star, Dot>>, pattern)
                       \/ Stars(pattern) = {Len(pattern)}

\* Every origin that an entry of a documented form covers ("Supports *.suffix and
\* prefix* wildcards", config.rs:42) is let in, wherever the entry stands in the
\* list and however it is spaced.
DocumentedFormsWork ==
  (admitted = FALSE) =>
    ~\E entry \in Entries(allowed_origins) : Documented(entry) /\ Glob(entry, origin)
=============================================================================
