----------------------------- MODULE OAuthClient -----------------------------
(***************************************************************************)
(* The OAuth client (src/src/oauth.rs) and GitHub's authorization server,  *)
(* which is external: the URL that is built for an authorization, the code *)
(* a user's approval yields, and the exchange of a code for a token, with  *)
(* codes that reach the wrong exchange, codes used twice, answers that are *)
(* lost after GitHub has acted on them, and answers of something that      *)
(* stands in between.  GitHub refuses with status 200 and an error object. *)
(*                                                                         *)
(* TokenGranted of ClaimFlow is what this module shows of an exchange.     *)
(***************************************************************************)
EXTENDS Naturals

CONSTANTS Authorization,   \* one per challenge; names its random PKCE verifier too
          Exchange,        \* calls of exchange_code_server_side
          Account,
          BaseUrl,         \* BASE_URL as [origin, slashes]: how many '/' end it
          None

ASSUME NoneIsNoAccount == None \notin Account

VARIABLES base_url,   \* the deployment's BASE_URL
          registered, \* the callback URL of its OAuth App at GitHub
          auth_url,   \* the query of each auth_url
          codes,      \* the codes GitHub has issued
          used,       \* those it has exchanged
          body,       \* the form each exchange has sent
          reply,      \* what each exchange has read
          result      \* what exchange_code_server_side returned

vars == <<base_url, registered, auth_url, codes, used, body, reply, result>>

ClientId == "id"
ClientSecret == "secret"

\* SHA-256 is one to one as far as anybody can tell.
S256(verifier) == [s256 |-> verifier]

ASSUME NoneIsNoChallenge == \A a \in Authorization : S256(a) # None

(***************************************************************************)
(* build_state: the redirect_uri, as the BASE_URL it is made from and the  *)
(* path behind it.  A BASE_URL is an origin and a number of slashes.       *)
(***************************************************************************)
Callback(base) == [base |-> base, path |-> "/auth/github/callback"]
TrimEnd(base) == [base EXCEPT !.slashes = 0]
RedirectUri(base) == Callback(TrimEnd(base))

\* {BASE_URL}/auth/github/callback, as config.rs:31 and the README put it, or
\* without the slashes that end BASE_URL: GitHub accepts only the one registered.
Registration(base) == {Callback(base), RedirectUri(base)}

(***************************************************************************)
(* The client.                                                             *)
(***************************************************************************)
Init == /\ base_url \in BaseUrl
        /\ registered \in Registration(base_url)
        /\ auth_url = [a \in Authorization |-> None]
        /\ codes = {} /\ used = {}
        /\ body = [e \in Exchange |-> None]
        /\ reply = [e \in Exchange |-> None]
        /\ result = [e \in Exchange |-> None]

\* An auth_url without code_challenge.
AuthQueryWithoutPkce(a) ==
  [client_id |-> ClientId, redirect_uri |-> RedirectUri(base_url), state |-> a,
   code_challenge |-> None]

\* build_auth_url: GitHub has no scopes, so no scope parameter.
AuthQuery(a) ==
  [client_id |-> ClientId, redirect_uri |-> RedirectUri(base_url), state |-> a,
   code_challenge |-> S256(a)]

BuildAuthUrl(a) ==
  /\ auth_url[a] = None
  /\ auth_url' = [auth_url EXCEPT ![a] = AuthQuery(a)]
  /\ UNCHANGED <<base_url, registered, codes, used, body, reply, result>>

\* A form that leaves the secret to a header GitHub's entry does not ask for.
FormWithoutSecret(code, verifier) ==
  [code |-> code, redirect_uri |-> RedirectUri(base_url), code_verifier |-> verifier,
   client_id |-> ClientId, client_secret |-> None]

\* token_auth_basic is false: the credentials go into the form.
Form(code, verifier) ==
  [code |-> code, redirect_uri |-> RedirectUri(base_url), code_verifier |-> verifier,
   client_id |-> ClientId, client_secret |-> ClientSecret]

Send(e, code, a) ==
  /\ body[e] = None /\ auth_url[a] # None
  /\ body' = [body EXCEPT ![e] = Form(code, a)]
  /\ UNCHANGED <<base_url, registered, auth_url, codes, used, reply, result>>

\* An outcome that takes every successful status for a token.
StatusDecides(r) ==
  CASE r.status = None    -> "request_failed"
    [] r.status = "error" -> "status"
    [] OTHER              -> "ok"

\* In the order of the code: transport, JSON, status, access_token.
Outcome(r) ==
  CASE r.status = None                                        -> "request_failed"
    [] r.status # None /\ ~r.json                             -> "unparsable"
    [] r.json /\ r.status = "error"                           -> "status"
    [] r.json /\ r.status = "success" /\ r.access_token = None -> "no_token"
    [] OTHER                                                  -> "ok"

Return(e) ==
  /\ reply[e] # None /\ result[e] = None
  /\ result' = [result EXCEPT ![e] = [outcome |-> Outcome(reply[e]),
                                      token |-> reply[e].access_token]]
  /\ UNCHANGED <<base_url, registered, auth_url, codes, used, body, reply>>

(***************************************************************************)
(* GitHub and what lies between (external).                                *)
(***************************************************************************)
Approve(a, u) ==
  /\ auth_url[a] # None
  /\ auth_url[a].redirect_uri = registered
  /\ codes' = codes \cup {[of |-> auth_url[a], account |-> u]}
  /\ UNCHANGED <<base_url, registered, auth_url, used, body, reply, result>>

Grants(form) ==
  /\ form.code \in codes \ used
  /\ form.client_id = ClientId /\ form.client_secret = ClientSecret
  /\ form.redirect_uri = form.code.of.redirect_uri
  /\ form.code.of.code_challenge \in {None, S256(form.code_verifier)}

Replies(e, r) == /\ body[e] # None /\ reply[e] = None
                 /\ reply' = [reply EXCEPT ![e] = r]
                 /\ UNCHANGED <<base_url, registered, auth_url, codes, body, result>>

NoAnswer == [status |-> None, json |-> FALSE, access_token |-> None]
Refusal  == [status |-> "success", json |-> TRUE, access_token |-> None]
Token(u) == [status |-> "success", json |-> TRUE, access_token |-> u]

\* A gateway's page, an API error, a cut-off body.
Foreign == {[status |-> "success", json |-> FALSE, access_token |-> None],
            [status |-> "error", json |-> FALSE, access_token |-> None],
            [status |-> "error", json |-> TRUE, access_token |-> None]}

ASSUME NoneIsNoReply == Refusal # None

\* The answer to a grant may be lost: the code is used all the same.
GitHubGrants(e) ==
  /\ body[e] # None /\ Grants(body[e])
  /\ used' = used \cup {body[e].code}
  /\ \E r \in {Token(body[e].code.account), NoAnswer} \cup Foreign : Replies(e, r)

NotGranted(e) == /\ \E r \in {NoAnswer} \cup Foreign : Replies(e, r)
                 /\ UNCHANGED used

GitHubRefuses(e) == body[e] # None /\ ~Grants(body[e]) /\ Replies(e, Refusal) /\ UNCHANGED used

Next == \/ \E a \in Authorization : BuildAuthUrl(a) \/ \E u \in Account : Approve(a, u)
        \/ \E e \in Exchange :
             \/ \E code \in codes, a \in Authorization : Send(e, code, a)
             \/ GitHubGrants(e) \/ GitHubRefuses(e) \/ NotGranted(e) \/ Return(e)

Spec == Init /\ [][Next]_vars
(***************************************************************************)
(* Safety.                                                                 *)
(***************************************************************************)
Ok(e) == result[e] # None /\ result[e].outcome = "ok"

\* A token is returned only for an exchange that GitHub granted: no refusal, which
\* comes with status 200, no gateway's page and no lost answer looks like one.
OkMeansGranted == \A e \in Exchange : Ok(e) =>
                    result[e].token \in Account /\ body[e].code \in used

\* Whatever code a redirect carries, a token speaks for an account that approved
\* the very auth_url whose verifier the exchange presented.
TokenIsTheApprovers == \A e \in Exchange : Ok(e) =>
  [of |-> auth_url[body[e].code_verifier], account |-> result[e].token] \in codes

\* The code of a claim's own auth_url, presented first by that claim's exchange,
\* is not refused.
OwnCodeIsGranted == \A e \in Exchange : reply[e] = Refusal =>
  body[e].code \in used \/ body[e].code.of # auth_url[body[e].code_verifier]
=============================================================================
