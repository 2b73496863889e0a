------------------------- MODULE OAuthClientProofs -------------------------
(***************************************************************************)
(* Proofs about OAuthClient, for any sets of authorizations, exchanges and *)
(* accounts and any number of slashes behind the BASE_URL.                 *)
(***************************************************************************)
EXTENDS OAuthClient, TLAPS

(***************************************************************************)
(* The inductive invariant.                                                *)
(***************************************************************************)
\* An auth_url is the one BASE_URL makes.
UrlsInv ==
  /\ base_url \in BaseUrl
  /\ auth_url \in [Authorization -> {AuthQuery(a) : a \in Authorization} \cup {None}]
  /\ \A a \in Authorization : auth_url[a] # None => auth_url[a] = AuthQuery(a)

\* The user of an account approved the auth_url that a code is of.
IsCode(code) ==
  \E a \in Authorization, u \in Account :
    auth_url[a] # None /\ code = [of |-> auth_url[a], account |-> u]

CodesInv == (\A code \in codes : IsCode(code)) /\ used \subseteq codes

\* An exchange sends the code it was given with the verifier of a built auth_url.
IsBody(form) == \E code \in codes, a \in Authorization :
                  auth_url[a] # None /\ form = Form(code, a)

\* What is read is GitHub's token for the code that was sent, a refusal with a
\* reason, or something that no token can be read from.
TokenFor(form, r) ==
  /\ form.code \in used /\ r = Token(form.code.account)
  /\ form.code.of.code_challenge = S256(form.code_verifier)

RefusalOf(form, r) ==
  /\ r = Refusal
  /\ form.code \in used \/ form.code.of # auth_url[form.code_verifier]

ReplyOk(form, r) == TokenFor(form, r) \/ RefusalOf(form, r) \/ r \in {NoAnswer} \cup Foreign

ExchangesInv ==
  /\ DOMAIN body = Exchange /\ DOMAIN reply = Exchange /\ DOMAIN result = Exchange
  /\ \A e \in Exchange :
       /\ body[e] # None => IsBody(body[e])
       /\ reply[e] # None => body[e] # None /\ ReplyOk(body[e], reply[e])
       /\ result[e] # None => /\ reply[e] # None
                              /\ result[e] = [outcome |-> Outcome(reply[e]),
                                              token |-> reply[e].access_token]

Inv == UrlsInv /\ CodesInv /\ ExchangesInv

(***************************************************************************)
(* What the operators do.                                                  *)
(***************************************************************************)
\* An exchange ends well on a token only.
LEMMA OutcomeFacts ==
  ASSUME NEW form, NEW r, ReplyOk(form, r), Outcome(r) = "ok"
  PROVE  TokenFor(form, r)
<1>1. CASE RefusalOf(form, r) \/ r = NoAnswer
  BY <1>1 DEF RefusalOf, Refusal, NoAnswer, Outcome
<1>2. CASE r \in Foreign
  <2>1. \/ ~r.json
        \/ r.json /\ r.status = "error"
    BY <1>2 DEF Foreign
  <2> QED
    BY <2>1 DEF Outcome
<1> QED
  BY <1>1, <1>2 DEF ReplyOk

\* GitHub refuses the code of an auth_url to an exchange of its own verifier only
\* if it has been used.
LEMMA GrantsFacts ==
  ASSUME Inv, NEW form, IsBody(form)
  PROVE  /\ Grants(form) => form.code.of.code_challenge = S256(form.code_verifier)
         /\ ~Grants(form) => form.code \in used \/ form.code.of # auth_url[form.code_verifier]
<1>1. PICK code \in codes, a \in Authorization : auth_url[a] # None /\ form = Form(code, a)
  BY DEF IsBody
<1>2. PICK b \in Authorization, u \in Account :
        auth_url[b] # None /\ code = [of |-> auth_url[b], account |-> u]
  BY DEF Inv, CodesInv, IsCode
<1>3. auth_url[a] = AuthQuery(a) /\ code.of = AuthQuery(b)
  BY <1>1, <1>2 DEF Inv, UrlsInv
<1>4. /\ form.code = code /\ form.code_verifier = a
      /\ form.redirect_uri = RedirectUri(base_url)
      /\ form.client_id = ClientId /\ form.client_secret = ClientSecret
  BY <1>1 DEF Form
<1>5. /\ code.of.redirect_uri = RedirectUri(base_url) /\ code.of.code_challenge = S256(b)
      /\ auth_url[a].code_challenge = S256(a)
  BY <1>3 DEF AuthQuery
<1> QED
  BY <1>3, <1>4, <1>5, NoneIsNoChallenge DEF Grants

(***************************************************************************)
(* The steps.                                                              *)
(***************************************************************************)
\* An auth_url is built, or approved.
LEMMA AuthorizationStep ==
  ASSUME Inv, NEW a \in Authorization, BuildAuthUrl(a) \/ \E u \in Account : Approve(a, u)
  PROVE  Inv'
<1>1. /\ UNCHANGED <<base_url, registered, used, body, reply, result>> /\ codes \subseteq codes'
      /\ auth_url' = [auth_url EXCEPT ![a] = AuthQuery(a)] \/ auth_url' = auth_url
      /\ \A b \in Authorization : auth_url[b] # None => auth_url'[b] = auth_url[b]
  BY DEF BuildAuthUrl, Approve, Inv, UrlsInv
<1>2. \A b : AuthQuery(b)' = AuthQuery(b)
  BY <1>1 DEF AuthQuery, RedirectUri
<1>3. UrlsInv'
  BY <1>1, <1>2 DEF Inv, UrlsInv
<1>4. CodesInv'
  BY <1>1 DEF Inv, CodesInv, IsCode, BuildAuthUrl, Approve
<1>5. \A form : IsBody(form) => IsBody(form)'
  BY <1>1 DEF IsBody, Form, RedirectUri
<1>6. \A form, r : IsBody(form) /\ ReplyOk(form, r) => ReplyOk(form, r)'
  BY <1>1 DEF ReplyOk, TokenFor, RefusalOf, IsBody, Form
<1>7. ExchangesInv'
  BY <1>1, <1>5, <1>6 DEF Inv, ExchangesInv
<1> QED
  BY <1>3, <1>4, <1>7 DEF Inv

\* A code is sent.
LEMMA SendStep ==
  ASSUME Inv, NEW e \in Exchange, NEW code \in codes, NEW a \in Authorization, Send(e, code, a)
  PROVE  Inv'
<1>1. /\ body[e] = None /\ auth_url[a] # None /\ body' = [body EXCEPT ![e] = Form(code, a)]
      /\ UNCHANGED <<base_url, registered, auth_url, codes, used, reply, result>>
  BY DEF Send
<1>2. UrlsInv' /\ CodesInv'
  BY <1>1 DEF Inv, UrlsInv, CodesInv, IsCode, AuthQuery, RedirectUri
<1>3. \A form : IsBody(form)' <=> IsBody(form)
  BY <1>1 DEF IsBody, Form
<1>4. \A form, r : ReplyOk(form, r)' <=> ReplyOk(form, r)
  BY <1>1 DEF ReplyOk, TokenFor, RefusalOf
<1>5. IsBody(Form(code, a))
  BY <1>1 DEF IsBody
<1>6. ExchangesInv'
  BY <1>1, <1>3, <1>4, <1>5 DEF Inv, ExchangesInv
<1> QED
  BY <1>2, <1>6 DEF Inv

\* GitHub, or what stands in between, answers.
LEMMA ReplyStep ==
  ASSUME Inv, NEW e \in Exchange, GitHubGrants(e) \/ GitHubRefuses(e) \/ NotGranted(e)
  PROVE  Inv'
<1>1. PICK r : Replies(e, r) /\ \/ GitHubGrants(e) /\ r = Token(body[e].code.account)
                                \/ GitHubRefuses(e) /\ r = Refusal
                                \/ r \in {NoAnswer} \cup Foreign
  BY DEF GitHubGrants, GitHubRefuses, NotGranted
<1>2. /\ body[e] # None /\ reply[e] = None /\ reply' = [reply EXCEPT ![e] = r]
      /\ UNCHANGED <<base_url, registered, auth_url, codes, body, result>>
  BY <1>1 DEF Replies
<1>3. IsBody(body[e])
  BY <1>2 DEF Inv, ExchangesInv
<1>4. used \subseteq used' /\ used' \subseteq codes
  BY DEF GitHubGrants, GitHubRefuses, NotGranted, Grants, Inv, CodesInv
<1>5. ReplyOk(body[e], r)'
  <2>1. CASE GitHubGrants(e) /\ r = Token(body[e].code.account)
    BY <1>2, <1>3, <2>1, GrantsFacts DEF GitHubGrants, ReplyOk, TokenFor
  <2>2. CASE GitHubRefuses(e) /\ r = Refusal
    BY <1>2, <1>3, <1>4, <2>2, GrantsFacts DEF GitHubRefuses, ReplyOk, RefusalOf
  <2> QED
    BY <1>1, <2>1, <2>2 DEF ReplyOk
<1>6. UrlsInv' /\ CodesInv'
  BY <1>2, <1>4 DEF Inv, UrlsInv, CodesInv, IsCode, AuthQuery, RedirectUri
<1>7. \A form : IsBody(form)' <=> IsBody(form)
  BY <1>2 DEF IsBody, Form
<1>8. \A form, s : ReplyOk(form, s) => ReplyOk(form, s)'
  BY <1>2, <1>4 DEF ReplyOk, TokenFor, RefusalOf
<1>9. ExchangesInv'
  BY <1>2, <1>5, <1>7, <1>8 DEF Inv, ExchangesInv
<1> QED
  BY <1>6, <1>9 DEF Inv

\* The exchange returns.
LEMMA ReturnStep ==
  ASSUME Inv, (\E e \in Exchange : Return(e)) \/ UNCHANGED vars
  PROVE  Inv'
<1>1. UNCHANGED <<base_url, registered, auth_url, codes, used, body, reply>>
  BY DEF Return, vars
<1>2. UrlsInv' /\ CodesInv'
  BY <1>1 DEF Inv, UrlsInv, CodesInv, IsCode, AuthQuery, RedirectUri
<1>3. \A form : IsBody(form)' <=> IsBody(form)
  BY <1>1 DEF IsBody, Form
<1>4. \A form, r : ReplyOk(form, r)' <=> ReplyOk(form, r)
  BY <1>1 DEF ReplyOk, TokenFor, RefusalOf
<1>5. ExchangesInv'
  BY <1>1, <1>3, <1>4 DEF Inv, ExchangesInv, Return, vars
<1> QED
  BY <1>2, <1>5 DEF Inv

\* What an exchange has read goes back to what a user has approved.
THEOREM Invariance == Spec => []Inv
<1>1. Init => Inv
  BY DEF Init, Inv, UrlsInv, CodesInv, ExchangesInv
<1>2. Inv /\ [Next]_vars => Inv'
  BY AuthorizationStep, SendStep, ReplyStep, ReturnStep DEF Next
<1> QED
  BY <1>1, <1>2, PTL DEF Spec

(***************************************************************************)
(* What follows.                                                           *)
(***************************************************************************)
\* An exchange that ends well has read a token GitHub granted it.
LEMMA OkFacts ==
  ASSUME Inv, NEW e \in Exchange, Ok(e)
  PROVE  IsBody(body[e]) /\ TokenFor(body[e], reply[e]) /\ result[e].token = body[e].code.account
<1>1. /\ IsBody(body[e]) /\ ReplyOk(body[e], reply[e]) /\ Outcome(reply[e]) = "ok"
      /\ result[e].token = reply[e].access_token
  BY DEF Ok, Inv, ExchangesInv
<1>2. TokenFor(body[e], reply[e])
  BY <1>1, OutcomeFacts
<1> QED
  BY <1>1, <1>2 DEF TokenFor, Token

\* A token is returned only for an exchange that GitHub granted.
THEOREM OkIsGranted == Spec => []OkMeansGranted
<1>1. Inv => OkMeansGranted
  BY OkFacts DEF OkMeansGranted, TokenFor, Inv, CodesInv, IsCode
<1> QED
  BY <1>1, Invariance, PTL

\* A token speaks for an account that approved the auth_url whose verifier the
\* exchange presented, whatever code it was given.
THEOREM TokensAreTheApprovers == Spec => []TokenIsTheApprovers
<1>1. ASSUME Inv, NEW e \in Exchange, Ok(e)
      PROVE  [of |-> auth_url[body[e].code_verifier], account |-> result[e].token] \in codes
  <2>1. IsBody(body[e]) /\ TokenFor(body[e], reply[e]) /\ result[e].token = body[e].code.account
    BY <1>1, OkFacts
  <2>2. PICK code \in codes, a \in Authorization : auth_url[a] # None /\ body[e] = Form(code, a)
    BY <2>1 DEF IsBody
  <2>3. PICK b \in Authorization, u \in Account :
          auth_url[b] # None /\ code = [of |-> auth_url[b], account |-> u]
    BY <1>1 DEF Inv, CodesInv, IsCode
  <2>4. S256(b) = S256(a)
    BY <1>1, <2>1, <2>2, <2>3 DEF TokenFor, Form, Inv, UrlsInv, AuthQuery
  <2>5. b = a
    BY <2>4 DEF S256
  <2> QED
    BY <2>1, <2>2, <2>3, <2>5 DEF Form
<1>2. Inv => TokenIsTheApprovers
  BY <1>1 DEF TokenIsTheApprovers
<1> QED
  BY <1>2, Invariance, PTL

\* The code of a claim's own auth_url is refused only if it has been used.
THEOREM OwnCodesAreGranted == Spec => []OwnCodeIsGranted
<1>1. ASSUME Inv, NEW e \in Exchange, reply[e] = Refusal
      PROVE  body[e].code \in used \/ body[e].code.of # auth_url[body[e].code_verifier]
  <2>1. Refusal # None /\ Refusal # NoAnswer /\ Refusal \notin Foreign
    <3>1. Refusal.json /\ Refusal.status = "success" /\ ~NoAnswer.json
      BY DEF Refusal, NoAnswer
    <3>2. \A r \in Foreign : ~r.json \/ r.status = "error"
      BY DEF Foreign
    <3> QED
      BY <3>1, <3>2, NoneIsNoReply
  <2> QED
    BY <1>1, <2>1, NoneIsNoAccount
       DEF Inv, ExchangesInv, ReplyOk, TokenFor, RefusalOf, Refusal, Token, CodesInv, IsCode
<1>2. Inv => OwnCodeIsGranted
  BY <1>1 DEF OwnCodeIsGranted
<1> QED
  BY <1>2, Invariance, PTL
=============================================================================
