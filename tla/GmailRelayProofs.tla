-------------------------- MODULE GmailRelayProofs --------------------------
(***************************************************************************)
(* Proofs about GmailRelay, for any tabs and fragments, any APP_URL values *)
(* and any number of deployments.                                          *)
(***************************************************************************)
EXTENDS GmailRelay, TLAPS

(***************************************************************************)
(* The inductive invariant.                                                *)
(***************************************************************************)
Entries == [page : {"google", "relay", "app"}, hash : Fragment \cup {None}]

\* The entry a tab's history ends with is of the page the tab shows or asks for.
PageShown(b) == CASE at[b] = "google" -> "google"
                  [] at[b] = "app"    -> "app"
                  [] OTHER            -> "relay"

\* A history begins at Google.
TrailsInv ==
  /\ at \in [Tab -> {"google", "asking", "relay", "error", "app"}]
  /\ trail \in [Tab -> Seq(Entries)]
  /\ \A b \in Tab : /\ Len(trail[b]) > 0 /\ trail[b][1].page = "google"
                    /\ trail[b][Len(trail[b])].page = PageShown(b)

\* A relay page leads to an APP_URL that the server accepted while it was in
\* service, since the tab asked for it.
LeadsTo(b, url) == url \notin Unparsable \cup {None} /\ Accepted(url) /\ target[b] = Target(url)

TargetsInv ==
  /\ app_url \in AppUrl \cup {None} /\ cached = {}
  /\ since \in [Tab -> SUBSET (AppUrl \cup {None})] /\ DOMAIN target = Tab
  /\ \A b \in Tab : /\ at[b] = "asking" => app_url \in since[b]
                    /\ at[b] = "relay" => \E url \in since[b] : LeadsTo(b, url)

\* The relay that would forward a fragment stands in one place of one history,
\* and in none once the app has been handed the fragment.
StandsAt(b, i, f) == i \in DOMAIN trail[b] /\ trail[b][i] = Entry("relay", f)

HandedInv ==
  /\ deliveries \in [Fragment -> {0, 1}]
  /\ \A f \in Fragment, b \in Tab, i \in Nat : StandsAt(b, i, f) =>
       /\ deliveries[f] = 0
       /\ \A c \in Tab, j \in Nat : StandsAt(c, j, f) => c = b /\ j = i

ReceivedInv == FragmentIntact /\ OnlyToTheApp

Inv == TrailsInv /\ TargetsInv /\ HandedInv /\ ReceivedInv

(***************************************************************************)
(* Hosts and URLs.                                                         *)
(***************************************************************************)
\* A sequence read backwards.
LEMMA ReverseFacts ==
  ASSUME NEW S, NEW s \in Seq(S)
  PROVE  /\ Reverse(s) \in Seq(S) /\ Len(Reverse(s)) = Len(s)
         /\ \A i \in 1..Len(s) : Reverse(s)[i] = s[Len(s) - i + 1]
BY DEF Reverse

\* A name with "localhost" for its last label ends in "localhost".
LEMMA SuffixFacts ==
  ASSUME NEW S, NEW name \in Seq(S), IsSuffix(<<"localhost">>, name)
  PROVE  Last(name) = "localhost"
<1> DEFINE label == <<"localhost">>
           one == Reverse(label)
           rev == Reverse(name)
<1>0. label \in Seq({"localhost"}) /\ Len(label) = 1 /\ label[1] = "localhost"
  OBVIOUS
<1> HIDE DEF label
<1>1. Len(one) = 1 /\ one[1] = "localhost" /\ one \in Seq({"localhost"})
  BY <1>0, ReverseFacts
<1>2. /\ Len(rev) = Len(name) /\ rev \in Seq(S)
      /\ \A i \in 1..Len(name) : rev[i] = name[Len(name) - i + 1]
  BY ReverseFacts
<1>3. Len(one) <= Len(rev) /\ SubSeq(one, 1, Len(one)) = SubSeq(rev, 1, Len(one))
  BY DEF IsSuffix, IsPrefix, label
<1> HIDE DEF one, rev
<1>4. SubSeq(one, 1, 1)[1] = "localhost" /\ SubSeq(rev, 1, 1)[1] = rev[1]
  BY <1>1, <1>2, <1>3
<1>5. rev[1] = "localhost"
  BY <1>1, <1>3, <1>4
<1>6. rev[1] = name[Len(name)]
  BY <1>1, <1>2, <1>3
<1> QED
  BY <1>5, <1>6 DEF Last

\* What is accepted goes over https or stays on this machine.
LEMMA AcceptedFacts ==
  ASSUME NEW url \in AppUrl \ Unparsable, Accepted(url)
  PROVE  /\ url.scheme = "https" \/ (url.scheme = "http" /\ url.host \in ThisMachine)
         /\ url.credentials = FALSE
<1>1. is_loopback_host(url.host) => url.host \in ThisMachine
  BY UrlAssumption, LoopbackAssumption, SuffixFacts DEF is_loopback_host
<1> QED
  BY <1>1, UrlAssumption DEF Accepted

\* Where the script sends a fragment: nothing of APP_URL but its origin is left.
LEMMA ForwardedFacts ==
  ASSUME NEW url \in AppUrl \ Unparsable, Accepted(url), NEW hash \in Fragment \cup {None}
  PROVE  LET to == Forwarded(Target(url), hash)
         IN  /\ to.fragment = hash
             /\ to.scheme = "https" \/ (to.scheme = "http" /\ to.host \in ThisMachine)
             /\ ~to.credentials /\ to.path = CallbackPath /\ to.query = None
<1>1. /\ url \in [scheme : {url.scheme}, host : {url.host}, credentials : {url.credentials},
                  path : {url.path}, query : {url.query}, fragment : {url.fragment}]
      /\ url.credentials = FALSE
  BY UrlAssumption, AcceptedFacts
<1>2. Target(url) \in [scheme : {url.scheme}, host : {url.host}, credentials : {url.credentials},
                      path : {CallbackPath}, query : {None}, fragment : {None}]
  BY <1>1 DEF Target
<1> DEFINE to == Forwarded(Target(url), hash)
<1>3. /\ to.fragment = hash /\ to.scheme = url.scheme /\ to.host = url.host
      /\ to.credentials = url.credentials /\ to.path = CallbackPath /\ to.query = None
  <2>1. to = [Target(url) EXCEPT !.fragment = hash]
    BY <1>2 DEF Forwarded
  <2> HIDE DEF to
  <2> QED
    BY <1>2, <2>1
<1> HIDE DEF to
<1>4. /\ to.scheme = "https" \/ (to.scheme = "http" /\ to.host \in ThisMachine)
      /\ to.credentials = FALSE
  BY <1>1, <1>3, AcceptedFacts
<1> QED
  BY <1>3, <1>4 DEF to

(***************************************************************************)
(* Histories.                                                              *)
(***************************************************************************)
\* All of a history but its current entry.
LEMMA FrontFacts ==
  ASSUME NEW S, NEW s \in Seq(S), Len(s) > 0
  PROVE  /\ Front(s) \in Seq(S) /\ Len(Front(s)) = Len(s) - 1
         /\ \A i \in 1..(Len(s) - 1) : Front(s)[i] = s[i]
<1> DEFINE m == Len(s) - 1
<1>1. m \in Nat /\ m <= Len(s) /\ \A i \in 1..m : s[i] \in S
  OBVIOUS
<1>2. /\ SubSeq(s, 1, m) \in Seq(S) /\ Len(SubSeq(s, 1, m)) = m
      /\ \A i \in 1..m : SubSeq(s, 1, m)[i] = s[i]
  <2> HIDE DEF m
  <2> QED
    BY <1>1
<1> QED
  BY <1>2 DEF Front

\* Where a tab has a history behind it, its first entry is not the current one.
LEMMA BehindFacts ==
  ASSUME TrailsInv, NEW b \in Tab, at[b] # "google"
  PROVE  Len(trail[b]) > 1
BY DEF TrailsInv, PageShown

\* No fragment is handed to the app, and no relay is put into a history.
LEMMA HandedKept ==
  ASSUME HandedInv, deliveries' = deliveries,
         \A f \in Fragment, b \in Tab, i \in Nat : StandsAt(b, i, f)' => StandsAt(b, i, f)
  PROVE  HandedInv'
BY DEF HandedInv

(***************************************************************************)
(* The steps.                                                              *)
(***************************************************************************)
\* Google answers: a relay with a new fragment, or with none, is asked for.
LEMMA RedirectedStep ==
  ASSUME Inv, NEW b \in Tab, NEW f \in Fragment \cup {None}, Redirected(b, f)
  PROVE  Inv'
<1> USE DEF Inv
<1>1. /\ trail' = [trail EXCEPT ![b] = Append(trail[b], Entry("relay", f))]
      /\ at' = [at EXCEPT ![b] = "asking"] /\ since' = [since EXCEPT ![b] = {app_url}]
      /\ UNCHANGED <<app_url, deploys, target, cached, received, deliveries>>
  BY DEF Redirected, Asks
<1>2. /\ trail[b] \in Seq(Entries) /\ Entry("relay", f) \in Entries /\ Len(trail[b]) > 0
      /\ trail'[b] = Append(trail[b], Entry("relay", f))
      /\ \A c \in Tab : c # b => trail'[c] = trail[c] /\ at'[c] = at[c]
  BY <1>1 DEF TrailsInv, Entry, Entries
<1>3. /\ trail'[b] \in Seq(Entries) /\ Len(trail'[b]) = Len(trail[b]) + 1
      /\ trail'[b][Len(trail[b]) + 1] = Entry("relay", f)
      /\ \A i \in 1..Len(trail[b]) : trail'[b][i] = trail[b][i]
  BY <1>2
<1>4. TrailsInv'
  <2>1. PageShown(b)' = "relay" /\ \A c \in Tab : c # b => PageShown(c)' = PageShown(c)
    BY <1>1 DEF PageShown, TrailsInv
  <2>2. trail'[b][1].page = "google" /\ trail'[b][Len(trail'[b])].page = "relay"
    BY <1>2, <1>3 DEF Entry, TrailsInv
  <2> QED
    BY <1>1, <1>2, <1>3, <2>1, <2>2 DEF TrailsInv
<1>5. TargetsInv'
  BY <1>1 DEF TargetsInv, TrailsInv, LeadsTo
<1>6. HandedInv'
  <2>1. ASSUME NEW g \in Fragment, NEW c \in Tab, NEW i \in Nat, StandsAt(c, i, g)'
        PROVE  \/ StandsAt(c, i, g)
               \/ g = f /\ c = b /\ i = Len(trail[b]) + 1
    BY <1>2, <1>3, <2>1 DEF StandsAt, Entry
  <2>2. f \in Fragment => /\ deliveries[f] = 0
                          /\ \A c \in Tab, i \in Nat : ~StandsAt(c, i, f)
    BY DEF Redirected, StandsAt, ToSet
  <2> QED
    BY <1>1, <2>1, <2>2 DEF HandedInv
<1>7. ReceivedInv'
  BY <1>1 DEF ReceivedInv, FragmentIntact, OnlyToTheApp
<1> QED
  BY <1>4, <1>5, <1>6, <1>7

\* The server answers with the page or with an error; no cache ever does.
LEMMA ServeStep ==
  ASSUME Inv, NEW b \in Tab, Serve(b) \/ ServeError(b)
  PROVE  Inv'
<1> USE DEF Inv
<1>1. /\ at[b] = "asking"
      /\ UNCHANGED <<app_url, deploys, trail, since, received, deliveries>> /\ cached' = {}
  BY DEF Serve, ServeError, Shows, Kept, TargetsInv
<1>2. PICK url : \/ Shows(b, "error", None)
                 \/ Shows(b, "relay", url) /\ url \in FreshPage
  BY DEF Serve, ServeError, TargetsInv
<1>3. PICK page \in {"error", "relay"} :
        at' = [at EXCEPT ![b] = page] /\ \E t : target' = [target EXCEPT ![b] = t]
  BY <1>2 DEF Shows
<1>4. TrailsInv'
  <2>1. \A c \in Tab : PageShown(c)' = PageShown(c)
    BY <1>1, <1>3 DEF PageShown, TrailsInv
  <2> QED
    BY <1>1, <1>3, <2>1 DEF TrailsInv
<1>5. TargetsInv'
  <2>1. ASSUME at'[b] = "relay" PROVE \E u \in since[b] : LeadsTo(b, u)'
    <3>1. /\ app_url # None /\ Accepted(app_url) /\ app_url \in since[b]
          /\ target' = [target EXCEPT ![b] = Target(app_url)]
      BY <1>1, <1>2, <2>1 DEF Shows, FreshPage, TrailsInv, TargetsInv
    <3> QED
      BY <3>1 DEF LeadsTo, TargetsInv, Accepted
  <2>2. at'[b] # "asking" /\ \A c \in Tab : c # b => at'[c] = at[c] /\ target'[c] = target[c]
    BY <1>3 DEF TrailsInv, TargetsInv
  <2> QED
    BY <1>1, <1>3, <2>1, <2>2 DEF TargetsInv, LeadsTo
<1>6. HandedInv' /\ ReceivedInv'
  BY <1>1, HandedKept DEF StandsAt, ReceivedInv, FragmentIntact, OnlyToTheApp
<1> QED
  BY <1>4, <1>5, <1>6

\* The script hands the app what Google sent, and takes the relay's own place.
LEMMA ForwardStep ==
  ASSUME Inv, NEW b \in Tab, Forward(b)
  PROVE  Inv'
<1> USE DEF Inv
<1> DEFINE n == Len(trail[b])
           here == Entry("app", Hash(b))
<1>1. /\ at[b] = "relay" /\ at' = [at EXCEPT ![b] = "app"]
      /\ trail' = [trail EXCEPT ![b] = Append(Front(trail[b]), here)]
      /\ received' = received \cup {Forwarded(target[b], Hash(b))}
      /\ deliveries' = [f \in Fragment |-> deliveries[f] + (IF f = Hash(b) THEN 1 ELSE 0)]
      /\ UNCHANGED <<app_url, deploys, target, since, cached>>
  BY DEF Forward, Moves
<1>2. /\ trail[b] \in Seq(Entries) /\ n \in Nat /\ n > 1
      /\ trail[b][n] \in Entries /\ trail[b][n].page = "relay"
  BY <1>1, BehindFacts DEF TrailsInv, PageShown
<1>3. Hash(b) = trail[b][n].hash /\ Hash(b) \in Fragment \cup {None} /\ here \in Entries
  BY <1>2 DEF Hash, Last, Entries, Entry
<1>4. /\ trail'[b] \in Seq(Entries) /\ Len(trail'[b]) = n /\ trail'[b][n] = here
      /\ \A i \in 1..(n - 1) : trail'[b][i] = trail[b][i]
      /\ \A c \in Tab : c # b => trail'[c] = trail[c] /\ at'[c] = at[c]
  <2>1. /\ Front(trail[b]) \in Seq(Entries) /\ Len(Front(trail[b])) = n - 1
        /\ \A i \in 1..(n - 1) : Front(trail[b])[i] = trail[b][i]
    BY <1>2, FrontFacts
  <2>2. trail'[b] = Append(Front(trail[b]), here)
    BY <1>1 DEF TrailsInv
  <2>3. \A c \in Tab : c # b => trail'[c] = trail[c] /\ at'[c] = at[c]
    BY <1>1 DEF TrailsInv
  <2> HIDE DEF here, n
  <2> QED
    BY <1>2, <1>3, <2>1, <2>2, <2>3
<1>d. DOMAIN trail[b] = 1..n /\ DOMAIN trail'[b] = 1..n 
  BY <1>2, <1>4
<1> HIDE DEF n
<1>5. TrailsInv'
  <2>1. PageShown(b)' = "app" /\ \A c \in Tab : c # b => PageShown(c)' = PageShown(c)
    BY <1>1 DEF PageShown, TrailsInv
  <2>2. trail'[b][1].page = "google" /\ trail'[b][n].page = "app"
    BY <1>2, <1>4 DEF Entry, TrailsInv
  <2> QED
    BY <1>1, <1>2, <1>4, <2>1, <2>2 DEF TrailsInv
<1>6. TargetsInv'
  BY <1>1 DEF TargetsInv, TrailsInv, LeadsTo
<1>7. HandedInv'
  <2>1. StandsAt(b, n, Hash(b))
    BY <1>2, <1>3, <1>d DEF StandsAt, Entry, Entries
  <2>2. ASSUME NEW g \in Fragment, NEW c \in Tab, NEW i \in Nat, StandsAt(c, i, g)'
        PROVE  StandsAt(c, i, g) /\ ~(c = b /\ i = n)
    <3>1. CASE c = b
      <4>1. i \in 1..n /\ trail'[b][i] = Entry("relay", g)
        BY <1>d, <2>2, <3>1 DEF StandsAt
      <4>2. i # n
        BY <1>4, <4>1 DEF Entry
      <4>3. i \in 1..(n - 1)
        BY <1>2, <4>1, <4>2
      <4> QED
        BY <1>4, <1>d, <3>1, <4>1, <4>2, <4>3 DEF StandsAt
    <3>2. CASE c # b
      BY <1>4, <2>2, <3>2 DEF StandsAt
    <3> QED
      BY <3>1, <3>2
  <2>3. \A g \in Fragment : deliveries'[g] = IF g = Hash(b) THEN 1 ELSE deliveries[g]
    BY <1>1, <1>2, <2>1 DEF HandedInv
  <2>4. deliveries' \in [Fragment -> {0, 1}]
    BY <1>1, <2>3 DEF HandedInv
  <2>5. \A g \in Fragment, c \in Tab, i \in Nat : StandsAt(c, i, g)' => g # Hash(b)
    BY <1>2, <2>1, <2>2 DEF HandedInv
  <2> QED
    BY <2>2, <2>3, <2>4, <2>5 DEF HandedInv
<1>8. ReceivedInv'
  <2>1. PICK url \in since[b] : LeadsTo(b, url)
    BY <1>1 DEF TargetsInv
  <2>2. url \in AppUrl \ Unparsable /\ Accepted(url) /\ target[b] = Target(url)
    BY <2>1 DEF LeadsTo, TargetsInv
  <2>3. \A to \in received' : to \in received \/ to = Forwarded(Target(url), Hash(b))
    BY <1>1, <2>2
  <2> QED
    BY <1>3, <2>2, <2>3, ForwardedFacts DEF ReceivedInv, FragmentIntact, OnlyToTheApp
<1> QED
  BY <1>5, <1>6, <1>7, <1>8

\* The user goes back, and if that is to a relay, asks for it again.
LEMMA BackStep ==
  ASSUME Inv, NEW b \in Tab, Back(b)
  PROVE  Inv'
<1> USE DEF Inv
<1> DEFINE n == Len(trail[b])
<1>1. /\ at[b] \in {"error", "app"} /\ trail' = [trail EXCEPT ![b] = Front(trail[b])]
      /\ UNCHANGED <<app_url, deploys, target, cached, received, deliveries>>
      /\ \/ /\ Last(trail'[b]).page = "relay"
            /\ at' = [at EXCEPT ![b] = "asking"] /\ since' = [since EXCEPT ![b] = {app_url}]
         \/ /\ Last(trail'[b]).page # "relay"
            /\ at' = [at EXCEPT ![b] = Last(trail'[b]).page] /\ since' = since
  BY DEF Back, Asks
<1>2. trail[b] \in Seq(Entries) /\ n \in Nat /\ n > 1
  BY <1>1, BehindFacts DEF TrailsInv
<1>3. /\ trail'[b] \in Seq(Entries) /\ Len(trail'[b]) = n - 1
      /\ \A i \in 1..(n - 1) : trail'[b][i] = trail[b][i]
      /\ \A c \in Tab : c # b => trail'[c] = trail[c]
  BY <1>1, <1>2, FrontFacts DEF TrailsInv
<1>d. DOMAIN trail[b] = 1..n /\ DOMAIN trail'[b] = 1..(n - 1) /\ 1..(n - 1) \subseteq 1..n
  BY <1>2, <1>3
<1> HIDE DEF n
<1>4. trail'[b][n - 1] \in Entries /\ Last(trail'[b]) = trail'[b][n - 1]
  BY <1>2, <1>3 DEF Last
<1>5. /\ at' \in [Tab -> {"google", "asking", "relay", "error", "app"}]
      /\ at'[b] \in {"google", "asking", "app"}
      /\ at'[b] = (IF Last(trail'[b]).page = "relay" THEN "asking" ELSE Last(trail'[b]).page)
      /\ \A c \in Tab : c # b => at'[c] = at[c]
  <2>1. Last(trail'[b]).page \in {"google", "relay", "app"}
    BY <1>4 DEF Entries
  <2> QED
    BY <1>1, <2>1 DEF TrailsInv
<1>6. TrailsInv'
  <2>1. trail'[b][1].page = "google"
    BY <1>2, <1>3 DEF TrailsInv
  <2>2. /\ PageShown(b)' = Last(trail'[b]).page
        /\ \A c \in Tab : c # b => PageShown(c)' = PageShown(c)
    BY <1>4, <1>5 DEF PageShown, Entries
  <2>3. trail' \in [Tab -> Seq(Entries)]
    BY <1>1, <1>3 DEF TrailsInv
  <2>4. Len(trail'[b]) > 0 /\ trail'[b][Len(trail'[b])].page = PageShown(b)'
    BY <1>2, <1>3, <1>4, <2>2
  <2>5. \A c \in Tab : c # b => /\ Len(trail'[c]) > 0 /\ trail'[c][1].page = "google"
                                /\ trail'[c][Len(trail'[c])].page = PageShown(c)'
    BY <1>3, <2>2 DEF TrailsInv
  <2> QED
    BY <1>5, <2>1, <2>3, <2>4, <2>5 DEF TrailsInv
<1>7. TargetsInv'
  <2>1. since' \in [Tab -> SUBSET (AppUrl \cup {None})]
    BY <1>1 DEF TargetsInv
  <2>2. at'[b] = "asking" => app_url \in since'[b]
    <3>1. Last(trail'[b]).page \in {"google", "relay", "app"}
      BY <1>4 DEF Entries
    <3>2. at'[b] = "asking" => since' = [since EXCEPT ![b] = {app_url}]
      BY <1>1, <1>5, <3>1
    <3> QED
      BY <3>2 DEF TargetsInv
  <2>3. \A c \in Tab : c # b => since'[c] = since[c]
    BY <1>1 DEF TargetsInv
  <2>4. \A c \in Tab : \A url : LeadsTo(c, url)' <=> LeadsTo(c, url)
    BY <1>1 DEF LeadsTo
  <2> QED
    BY <1>1, <1>5, <2>1, <2>2, <2>3, <2>4 DEF TargetsInv
<1>8. HandedInv' /\ ReceivedInv'
  <2>1. \A f \in Fragment, c \in Tab, i \in Nat : StandsAt(c, i, f)' => StandsAt(c, i, f)
    BY <1>3, <1>d DEF StandsAt
  <2> QED
    BY <1>1, <2>1, HandedKept DEF ReceivedInv, FragmentIntact, OnlyToTheApp
<1> QED
  BY <1>6, <1>7, <1>8

\* What failed is asked for again, or the operator deploys.
LEMMA ElsewhereStep ==
  ASSUME Inv, (\E b \in Tab : Reload(b)) \/ Deploy \/ UNCHANGED vars
  PROVE  Inv'
<1> USE DEF Inv
<1>1. UNCHANGED <<trail, target, cached, received, deliveries>>
  BY DEF Reload, Asks, Deploy, vars
<1>2. TrailsInv'
  <2>1. \/ at' = at
        \/ \E b \in Tab : at[b] = "error" /\ at' = [at EXCEPT ![b] = "asking"]
    BY DEF Reload, Asks, Deploy, vars
  <2>2. \A b \in Tab : PageShown(b)' = PageShown(b)
    BY <2>1 DEF PageShown, TrailsInv
  <2> QED
    BY <1>1, <2>1, <2>2 DEF TrailsInv
<1>3. TargetsInv'
  <2>1. \A b \in Tab : \A url : LeadsTo(b, url)' <=> LeadsTo(b, url)
    BY <1>1 DEF LeadsTo
  <2>2. ASSUME NEW b \in Tab, Reload(b) PROVE TargetsInv'
    <3>1. /\ at' = [at EXCEPT ![b] = "asking"] /\ since' = [since EXCEPT ![b] = {app_url}]
          /\ UNCHANGED app_url
      BY <2>2 DEF Reload, Asks
    <3>2. since' \in [Tab -> SUBSET (AppUrl \cup {None})]
      BY <3>1 DEF TargetsInv
    <3>3. at'[b] = "asking" /\ app_url \in since'[b]
      BY <3>1 DEF TargetsInv, TrailsInv
    <3>4. \A c \in Tab : c # b => at'[c] = at[c] /\ since'[c] = since[c]
      BY <3>1 DEF TargetsInv, TrailsInv
    <3> QED
      BY <1>1, <2>1, <3>1, <3>2, <3>3, <3>4 DEF TargetsInv
  <2>3. CASE Deploy
    <3>1. /\ app_url' \in AppUrl \cup {None} /\ at' = at
          /\ since' = [b \in Tab |-> since[b] \cup {app_url'}]
      BY <2>3 DEF Deploy
    <3>2. since' \in [Tab -> SUBSET (AppUrl \cup {None})]
      BY <3>1 DEF TargetsInv
    <3>3. \A b \in Tab : app_url' \in since'[b] /\ since[b] \subseteq since'[b]
      BY <3>1
    <3> QED
      BY <1>1, <2>1, <3>1, <3>2, <3>3 DEF TargetsInv
  <2>4. CASE UNCHANGED vars
    BY <1>1, <2>1, <2>4 DEF TargetsInv, vars
  <2> QED
    BY <2>2, <2>3, <2>4
<1>4. HandedInv' /\ ReceivedInv'
  BY <1>1, HandedKept DEF StandsAt, ReceivedInv, FragmentIntact, OnlyToTheApp
<1> QED
  BY <1>2, <1>3, <1>4

\* Histories, targets, fragments and what the app was opened at, together.
THEOREM Invariance == Spec => []Inv
<1>1. Init => Inv
  <2> SUFFICES ASSUME Init PROVE Inv
    OBVIOUS
  <2>1. TrailsInv
    BY DEF Init, TrailsInv, Entries, Entry, PageShown
  <2>2. TargetsInv
    BY DEF Init, TargetsInv
  <2>3. HandedInv
    BY DEF Init, HandedInv, StandsAt, Entry
  <2>4. ReceivedInv
    BY DEF Init, ReceivedInv, FragmentIntact, OnlyToTheApp
  <2> QED
    BY <2>1, <2>2, <2>3, <2>4 DEF Inv
<1>2. Inv /\ [Next]_vars => Inv'
  BY RedirectedStep, ServeStep, ForwardStep, BackStep, ElsewhereStep DEF Next
<1> QED
  BY <1>1, <1>2, PTL DEF Spec

(***************************************************************************)
(* What follows.                                                           *)
(***************************************************************************)
\* The app gets the fragment that Google sent, or none.
THEOREM FragmentsIntact == Spec => []FragmentIntact
BY Invariance, PTL DEF Inv, ReceivedInv

\* Nothing is forwarded over plain http to another machine, nor with credentials.
THEOREM ForwardedToTheApp == Spec => []OnlyToTheApp
BY Invariance, PTL DEF Inv, ReceivedInv

\* A relay page leads to an APP_URL that has been in service since it was asked for.
THEOREM PagesAreFresh == Spec => []NeverStale
<1>1. Inv => NeverStale
  BY DEF Inv, TargetsInv, LeadsTo, NeverStale
<1> QED
  BY <1>1, Invariance, PTL

\* The app is handed the answer to one sign-in once, however the user moves about.
THEOREM FragmentsHandedOnce == Spec => []HandedOnce
<1>1. Inv => HandedOnce
  BY DEF Inv, HandedInv, HandedOnce
<1> QED
  BY <1>1, Invariance, PTL
=============================================================================
