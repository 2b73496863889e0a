----------------------------- MODULE GmailRelay -----------------------------
(***************************************************************************)
(* GET /auth/gmail/callback (src/src/routes/gmail.rs): Google sends the    *)
(* browser back to this server with the id_token in the URL's fragment,    *)
(* which no server is ever sent; the page served here moves the browser,   *)
(* fragment and all, on to the web app at APP_URL.                         *)
(*                                                                         *)
(* The server keeps no state, but the browser does: a cache, a session     *)
(* history, a page whose script has not run yet while the operator deploys *)
(* another APP_URL.  A fragment names one sign-in.  A port is part of its  *)
(* host here: the code never looks at it.                                  *)
(***************************************************************************)
EXTENDS Naturals, SequencesExt

CONSTANTS Tab,           \* browser tabs
          Fragment,      \* one per answer of Google
          AppUrl,        \* the APP_URL values that may be deployed
          Unparsable,    \* those that are not absolute URLs
          Loopback6,     \* the IPv6 address ::1
          ThisMachine,   \* the hosts that are the browser's own machine
          CallbackPath,  \* "/auth/gmail/callback"
          MaxDeploys,    \* bound on the deployments explored
          None

ASSUME RelayAssumption ==
  /\ MaxDeploys \in Nat /\ Unparsable \subseteq AppUrl
  /\ None \notin Fragment /\ None \notin AppUrl

\* What the url crate makes of an absolute URL.
ASSUME UrlAssumption ==
  \A url \in AppUrl \ Unparsable :
    /\ url \in [scheme : {url.scheme}, host : {url.host}, credentials : {url.credentials},
                path : {url.path}, query : {url.query}, fragment : {url.fragment}]
    /\ url.credentials \in BOOLEAN
    /\ url.host.kind = "domain" => url.host.name \in Seq(ToSet(url.host.name))

\* "localhost / *.localhost or a loopback IP (127.0.0.0/8, ::1)" (gmail.rs:107).
ASSUME LoopbackAssumption ==
  \A host \in {url.host : url \in AppUrl \ Unparsable} :
    /\ host.kind = "domain" /\ Last(host.name) = "localhost" => host \in ThisMachine
    /\ host.kind = "ipv4" /\ Head(host.name) = 127 => host \in ThisMachine
    /\ host.kind = "ipv6" /\ host.name = Loopback6 => host \in ThisMachine

VARIABLES app_url,     \* Runtime.app_url: None if APP_URL is empty
          deploys,
          at,          \* what each tab shows
          trail,       \* its session history, the current entry last
          target,      \* the URL in the script of the relay page it shows
          since,       \* the app_urls in service since it last asked for the page
          cached,      \* targets of the relay pages in the browser's cache
          received,    \* the URLs at which the app has been opened from the relay
          deliveries   \* how often the app has been handed each fragment

vars == <<app_url, deploys, at, trail, target, since, cached, received, deliveries>>

(***************************************************************************)
(* gmail_callback_target, on the parts of a parsed URL.  The host is a     *)
(* domain (its labels), an IPv4 address (its octets) or an IPv6 address.   *)
(***************************************************************************)
\* A check that looks at the front of the name.
LocalhostFirst(host) ==
  \/ host.kind = "domain" /\ IsPrefix(<<"localhost">>, host.name)
  \/ host.kind = "ipv4" /\ Head(host.name) = 127
  \/ host.kind = "ipv6" /\ host.name = Loopback6

is_loopback_host(host) ==
  \/ host.kind = "domain" /\ IsSuffix(<<"localhost">>, host.name)
  \/ host.kind = "ipv4" /\ Head(host.name) = 127
  \/ host.kind = "ipv6" /\ host.name = Loopback6

Accepted(url) ==
  /\ url \notin Unparsable
  /\ \/ url.scheme = "https"
     \/ url.scheme = "http" /\ is_loopback_host(url.host)
  /\ ~url.credentials

\* The target with APP_URL's own fragment left in place.
TargetKeepingFragment(url) == [url EXCEPT !.path = CallbackPath, !.query = None]
Target(url) == [url EXCEPT !.path = CallbackPath, !.query = None, !.fragment = None]

\* target + location.hash, as text; the hash is empty if there is no fragment.
Forwarded(url, hash) ==
  [url EXCEPT !.fragment = IF hash = None THEN @ ELSE IF @ = None THEN hash ELSE <<@, hash>>]

(***************************************************************************)
(* Behaviour.                                                              *)
(***************************************************************************)
Entry(page, hash) == [page |-> page, hash |-> hash]
Hash(b) == Last(trail[b]).hash

Init == /\ app_url \in AppUrl \cup {None} /\ deploys = 0
        /\ at = [b \in Tab |-> "google"]
        /\ trail = [b \in Tab |-> <<Entry("google", None)>>]
        /\ target = [b \in Tab |-> None]
        /\ since = [b \in Tab |-> {}]
        /\ cached = {} /\ received = {}
        /\ deliveries = [f \in Fragment |-> 0]

Asks(b) == /\ at' = [at EXCEPT ![b] = "asking"]
           /\ since' = [since EXCEPT ![b] = {app_url}]
           /\ UNCHANGED <<app_url, deploys, target, cached, received, deliveries>>

\* The redirect of Google, or the relay's address opened by hand (external).
Redirected(b, f) ==
  /\ at[b] = "google"
  /\ f \in Fragment => \A c \in Tab : Entry("relay", f) \notin ToSet(trail[c]) /\ deliveries[f] = 0
  /\ trail' = [trail EXCEPT ![b] = Append(@, Entry("relay", f))]
  /\ Asks(b)

Shows(b, page, url) == /\ at' = [at EXCEPT ![b] = page]
                       /\ target' = [target EXCEPT ![b] = url]
                       /\ UNCHANGED <<app_url, deploys, trail, since, received, deliveries>>

\* What a browser may keep of a page sent without cache-control: no-store.
KeptByDefault(url) == {url}
Kept(url) == {}

FreshPage == IF app_url # None /\ Accepted(app_url) THEN {Target(app_url)} ELSE {}

\* 200 with the page: from the server, or for any fragment from the cache.
Serve(b) ==
  /\ at[b] = "asking"
  /\ \E url \in cached \cup FreshPage : Shows(b, "relay", url) /\ cached' = Kept(url)

\* 500: APP_URL is not configured or refused; or no answer at all.
ServeError(b) ==
  /\ at[b] = "asking"
  /\ Shows(b, "error", None)
  /\ UNCHANGED cached

Moves(b, newTrail) ==
  LET url == Forwarded(target[b], Hash(b))
  IN  /\ at[b] = "relay"
      /\ at' = [at EXCEPT ![b] = "app"]
      /\ trail' = [trail EXCEPT ![b] = newTrail]
      /\ received' = received \cup {url}
      /\ deliveries' = [f \in Fragment |-> deliveries[f] + (IF f = Hash(b) THEN 1 ELSE 0)]
      /\ UNCHANGED <<app_url, deploys, target, since, cached>>

\* The script, had it assigned location.href: the relay stays in the history.
Assign(b) == Moves(b, Append(trail[b], Entry("app", Hash(b))))

\* The script: location.replace(target + location.hash).
Forward(b) == Moves(b, Append(Front(trail[b]), Entry("app", Hash(b))))

\* The user (external): back to the entry before, or reload what failed.
Back(b) ==
  /\ at[b] \in {"error", "app"}
  /\ trail' = [trail EXCEPT ![b] = Front(@)]
  /\ IF Last(trail'[b]).page = "relay"
       THEN Asks(b)
       ELSE /\ at' = [at EXCEPT ![b] = Last(trail'[b]).page]
            /\ UNCHANGED <<app_url, deploys, target, since, cached, received, deliveries>>

Reload(b) == at[b] = "error" /\ Asks(b) /\ UNCHANGED trail

\* The operator restarts the server with another APP_URL.
Deploy == /\ deploys < MaxDeploys /\ deploys' = deploys + 1
          /\ \E url \in AppUrl \cup {None} : app_url' = url
          /\ since' = [b \in Tab |-> since[b] \cup {app_url'}]
          /\ UNCHANGED <<at, trail, target, cached, received, deliveries>>

Next == \/ \E b \in Tab :
             \/ \E f \in Fragment \cup {None} : Redirected(b, f)
             \/ Serve(b) \/ ServeError(b) \/ Forward(b) \/ Back(b) \/ Reload(b)
        \/ Deploy

Spec == Init /\ [][Next]_vars
(***************************************************************************)
(* Safety.                                                                 *)
(***************************************************************************)
\* The app gets the fragment that Google sent, or none: nothing that stands in
\* APP_URL ends up in front of it.
FragmentIntact == \A url \in received : url.fragment \in Fragment \cup {None}

\* Nothing is ever forwarded over plain http to another machine, nor with
\* credentials of APP_URL's or to another page of the app.
OnlyToTheApp ==
  \A url \in received :
    /\ url.scheme = "https" \/ (url.scheme = "http" /\ url.host \in ThisMachine)
    /\ ~url.credentials /\ url.path = CallbackPath /\ url.query = None

\* Whatever the caches hold, a page leads to an APP_URL that has been in service
\* since it was asked for, never to one that was replaced before.
NeverStale ==
  \A b \in Tab : at[b] = "relay" =>
    \E url \in since[b] \ ({None} \cup Unparsable) : target[b] = Target(url)

\* However the user moves through the history, the app is handed the answer to
\* one sign-in once: the relay that would forward it again is not in the history.
HandedOnce == \A f \in Fragment : deliveries[f] <= 1
=============================================================================
