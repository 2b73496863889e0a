------------------------------ MODULE ClaimFlow ------------------------------
(***************************************************************************)
(* A GitHub identity claim, end to end: the challenge route, the OAuth     *)
(* callback, the background proving task and the result slot they share,   *)
(* with clients that hang up, redirects that are duplicated, delayed or    *)
(* mangled, graceful shutdown, crashes and restarts.                       *)
(*                                                                         *)
(*   src/src/routes/challenge.rs   mint a challenge                        *)
(*   src/src/routes/callback.rs    consume it, exchange the code, prove    *)
(*   src/src/routes/result.rs      poll (StatusView of AppState: a read)   *)
(*   src/src/main.rs               serve, drain, exit                      *)
(*                                                                         *)
(* An axum handler runs atomically between two await points; at an await   *)
(* the handler of a client that hung up is dropped.  The work spawned by   *)
(* the callback is detached: it outlives the request, not the process.     *)
(***************************************************************************)
EXTENDS AppState

CONSTANTS Callback,      \* one id per callback request ever received
          MaxRestarts,   \* bound on the restarts explored
          ClientsLeave   \* whether clients may hang up while being served

ASSUME MaxRestartsAssumption == MaxRestarts \in Nat
ASSUME ClientsLeaveAssumption == ClientsLeave \in BOOLEAN

VARIABLES mint,        \* progress of the request that mints each challenge
          request,     \* the PendingChallenge each minting request built
          cb,          \* each callback request: its handler's locals and page
          task,        \* the proving task each callback spawned
          authorized,  \* challenges whose auth_url the user approved on GitHub
          mode,        \* of the server process
          restarts

vars == <<challenges, results, mint, request, cb, task, authorized, mode, restarts>>

MintState == {"unborn", "creating", "created", "answered", "dropped", "lost"}
\* "refused" is any reply without a page that leaves the slot alone: the 400s,
\* the 404 and the 410.  The *_page states have served the popup its HTML.
CallbackState == {"idle", "refused", "reporting", "failed_page", "exchanging",
                  "bad_gateway", "progress_page", "dropped"}
TaskState == {"none", "running", "complete", "failed", "panicked", "aborted"}

CallbackRecord == [pc : CallbackState, challenge : Challenge \cup {None},
                   pubkey : Pubkey \cup {None}, code : Challenge \cup {None},
                   verifier : Challenge \cup {None}, wallet : Wallet \cup {None}]

IdleCallback == [pc |-> "idle", challenge |-> None, pubkey |-> None,
                 code |-> None, verifier |-> None, wallet |-> None]

TypeOK ==
  /\ StoreTypeOK
  /\ mint \in [Challenge -> MintState]
  /\ request \in [{c \in Challenge : mint[c] # "unborn"} -> Pending]
  /\ cb \in [Callback -> CallbackRecord]
  /\ task \in [Callback -> TaskState]
  /\ authorized \subseteq Challenge
  /\ mode \in {"serving", "lingering", "draining", "down"}
  /\ restarts \in 0..MaxRestarts

Init ==
  /\ challenges = NoEntries /\ results = NoEntries
  /\ mint = [c \in Challenge |-> "unborn"]
  /\ request = NoEntries
  /\ cb = [k \in Callback |-> IdleCallback]
  /\ task = [k \in Callback |-> "none"]
  /\ authorized = {}
  /\ mode = "serving" /\ restarts = 0

\* A shutdown ends the listening.  A request that a connected client is still
\* sending then is served all the same when its last byte has come.
Serves == mode \in {"serving", "lingering"}

(***************************************************************************)
(* POST /auth/github/challenge.  An invalid key or wallet is answered 400  *)
(* and changes nothing.  A valid request draws a fresh id and stamps the   *)
(* challenge before it waits for the first lock.                           *)
(***************************************************************************)
ChallengeGithub(c, pubkey, wallet) ==
  /\ Serves /\ mint[c] = "unborn"
  /\ mint' = [mint EXCEPT ![c] = "creating"]
  /\ request' = Put(request, c, [pubkey |-> pubkey, verifier |-> c,
                                 wallet |-> wallet, age |-> 0])
  /\ UNCHANGED <<challenges, results, cb, task, authorized, mode, restarts>>

CreateChallenge(c) ==
  /\ mint[c] = "creating"
  /\ InsertChallenge(c, request[c])
  /\ mint' = [mint EXCEPT ![c] = "created"]
  /\ UNCHANGED <<results, request, cb, task, authorized, mode, restarts>>

\* The slot is opened and the reply carries the id and the auth_url: from here
\* on someone other than the server knows the challenge.
CreateSlot(c) ==
  /\ mint[c] = "created"
  /\ InsertSlot(c)
  /\ mint' = [mint EXCEPT ![c] = "answered"]
  /\ UNCHANGED <<challenges, request, cb, task, authorized, mode, restarts>>

\* The client hangs up while its request waits for one of the two locks.
MintDropped(c) ==
  /\ ClientsLeave /\ mint[c] \in {"creating", "created"}
  /\ mint' = [mint EXCEPT ![c] = "dropped"]
  /\ UNCHANGED <<challenges, results, request, cb, task, authorized, mode, restarts>>

(***************************************************************************)
(* The user and GitHub (external).  Approving the auth_url of c yields a   *)
(* code tied to the PKCE challenge in that URL, hence to c.  The redirect  *)
(* that follows may reach the server any number of times, at any time,     *)
(* with any part of it altered: an unknown id, another key, another code.  *)
(***************************************************************************)
Authorize(c) ==
  /\ mint[c] \in {"answered", "lost"} /\ c \notin authorized
  /\ authorized' = authorized \cup {c}
  /\ UNCHANGED <<challenges, results, mint, request, cb, task, mode, restarts>>

\* Ids a URL can carry: those a reply has disclosed, and ids never minted.
Nameable == {c \in Challenge : mint[c] \in {"unborn", "answered", "lost"}}

(***************************************************************************)
(* GET /auth/github/callback, up to its first await after the consume.     *)
(***************************************************************************)
Arrives(k) ==
  /\ Serves /\ cb[k].pc = "idle"
  /\ UNCHANGED <<results, mint, request, task, authorized, mode, restarts>>

Refuse(k) == cb' = [cb EXCEPT ![k].pc = "refused"]

\* The state parameter is missing or is not "challenge:pubkey:...".
CallbackBadState(k) == Arrives(k) /\ Refuse(k) /\ UNCHANGED challenges

\* A refusal of an unknown challenge that also records a failure.
CallbackUnknownReports(k, c) ==
  /\ Serves /\ cb[k].pc = "idle" /\ c \notin DOMAIN challenges
  /\ SetStatus(c, Failed)
  /\ Refuse(k)
  /\ UNCHANGED <<challenges, mint, request, task, authorized, mode, restarts>>

\* Never minted, lost in a restart, swept, or consumed already: 404.
CallbackUnknown(k, c) ==
  /\ Arrives(k) /\ c \notin DOMAIN challenges
  /\ Refuse(k)
  /\ UNCHANGED challenges

\* Expired but not swept yet: consumed all the same, then 410.
CallbackGone(k, c) ==
  /\ Arrives(k) /\ c \in DOMAIN challenges /\ challenges[c].age >= TTL
  /\ Consume(c)
  /\ Refuse(k)

Live(c) == c \in DOMAIN challenges /\ challenges[c].age < TTL

AnyPubkey(c, pubkey) == TRUE
PubkeyMatches(c, pubkey) == challenges[c].pubkey = pubkey

\* The key in the URL is not the requested one: consumed, then 400.
CallbackMismatch(k, c, pubkey) ==
  /\ Arrives(k) /\ Live(c) /\ ~PubkeyMatches(c, pubkey)
  /\ Consume(c)
  /\ Refuse(k)

\* A handler that forgets the wallet of the challenge it consumed.
TakeWithoutWallet(k, c, pubkey, code, pc) ==
  /\ Arrives(k) /\ Live(c) /\ PubkeyMatches(c, pubkey)
  /\ Consume(c)
  /\ cb' = [cb EXCEPT ![k] =
              [pc |-> pc, challenge |-> c, pubkey |-> pubkey, code |-> code,
               verifier |-> challenges[c].verifier]]

\* The challenge is taken out of the map into the handler's locals.
Take(k, c, pubkey, code, pc) ==
  /\ Arrives(k) /\ Live(c) /\ PubkeyMatches(c, pubkey)
  /\ Consume(c)
  /\ cb' = [cb EXCEPT ![k] =
              [pc |-> pc, challenge |-> c, pubkey |-> pubkey, code |-> code,
               verifier |-> challenges[c].verifier, wallet |-> challenges[c].wallet]]

\* An error parameter or no code: set_status is next, behind a lock.
CallbackDeclined(k, c, pubkey) == Take(k, c, pubkey, None, "reporting")

\* A code, whoever it was issued to, or one that GitHub never issued (None): the
\* token exchange is next.
CallbackCode(k, c, pubkey, code) == Take(k, c, pubkey, code, "exchanging")

(***************************************************************************)
(* The rest of the handler.                                                *)
(***************************************************************************)
Reach(k, pc) == cb' = [cb EXCEPT ![k].pc = pc]

\* The failed page without the failed status.
ReportPageOnly(k) ==
  /\ cb[k].pc = "reporting"
  /\ Reach(k, "failed_page")
  /\ UNCHANGED <<challenges, results, mint, request, task, authorized, mode, restarts>>

ReportDeclined(k) ==
  /\ cb[k].pc = "reporting"
  /\ SetStatus(cb[k].challenge, Failed)
  /\ Reach(k, "failed_page")
  /\ UNCHANGED <<challenges, mint, request, task, authorized, mode, restarts>>

\* An exchange that presents no verifier.
TokenForAnyCode(k) == cb[k].code # None

\* exchange_code_server_side presents the code with the verifier of the consumed
\* challenge; GitHub grants a token only for a code tied to that verifier.
TokenGranted(k) == cb[k].code = cb[k].verifier

\* No await separates the status from the spawn and the page.
ExchangeOk(k) ==
  /\ cb[k].pc = "exchanging" /\ TokenGranted(k)
  /\ SetStatus(cb[k].challenge, OauthComplete)
  /\ task' = [task EXCEPT ![k] = "running"]
  /\ Reach(k, "progress_page")
  /\ UNCHANGED <<challenges, mint, request, authorized, mode, restarts>>

\* Refused by GitHub, or no answer could be read: 502.  Without any timeout
\* on the exchange, this step need not ever come.
ExchangeErr(k) ==
  /\ cb[k].pc = "exchanging"
  /\ SetStatus(cb[k].challenge, Failed)
  /\ Reach(k, "bad_gateway")
  /\ UNCHANGED <<challenges, mint, request, task, authorized, mode, restarts>>

CallbackDropped(k) ==
  /\ ClientsLeave /\ cb[k].pc \in {"reporting", "exchanging"}
  /\ Reach(k, "dropped")
  /\ UNCHANGED <<challenges, results, mint, request, task, authorized, mode, restarts>>

(***************************************************************************)
(* The spawned task: run_verification, then set_status.  The key is the    *)
(* one from the URL, the wallet the one from the consumed challenge.       *)
(***************************************************************************)
TaskEnds(k, outcome) ==
  /\ task[k] = "running"
  /\ task' = [task EXCEPT ![k] = outcome]
  /\ UNCHANGED <<challenges, mint, request, cb, authorized, mode, restarts>>

TaskComplete(k) ==
  /\ TaskEnds(k, "complete")
  /\ SetStatus(cb[k].challenge, Complete([pubkey |-> cb[k].pubkey, wallet |-> cb[k].wallet]))

TaskFails(k) == TaskEnds(k, "failed") /\ SetStatus(cb[k].challenge, Failed)

\* A panic inside the task reaches no set_status.
TaskPanics(k) == TaskEnds(k, "panicked") /\ UNCHANGED results

(***************************************************************************)
(* Time, and the process.                                                  *)
(***************************************************************************)
Tick ==
  /\ challenges' = AllOlder(challenges)
  /\ results' = AllOlder(results)
  /\ request' = [c \in DOMAIN request |->
                   IF mint[c] = "creating" THEN [request[c] EXCEPT !.age = Older(@)]
                                           ELSE request[c]]
  /\ UNCHANGED <<mint, cb, task, authorized, mode, restarts>>

\* ctrl_c: the listener is closed, the connections there are are waited for.  While
\* "lingering", some client has not sent the whole of its request, or has not read
\* its reply or will not; when "draining", only the handlers are left to wait for.
Shutdown == /\ mode = "serving"
            /\ mode' \in {"lingering", "draining"}
            /\ UNCHANGED <<challenges, results, mint, request, cb, task, authorized, restarts>>

\* The last of these clients is done, or hangs up.  No timeout makes it.
ClientsDone == /\ mode = "lingering"
               /\ mode' = "draining"
               /\ UNCHANGED <<challenges, results, mint, request, cb, task, authorized, restarts>>

InFlight(k) == cb[k].pc \in {"reporting", "exchanging"}
Drained == /\ mode = "draining"
           /\ \A c \in Challenge : mint[c] \notin {"creating", "created"}
           /\ \A k \in Callback : ~InFlight(k)

\* Memory, handlers and detached tasks all go with the process.
ProcessEnds ==
  /\ mode' = "down"
  /\ challenges' = NoEntries /\ results' = NoEntries
  /\ mint' = [c \in Challenge |-> CASE mint[c] = "answered" -> "lost"
                                    [] mint[c] \in {"creating", "created"} -> "dropped"
                                    [] OTHER -> mint[c]]
  /\ cb' = [k \in Callback |-> IF InFlight(k) THEN [cb[k] EXCEPT !.pc = "dropped"] ELSE cb[k]]
  /\ task' = [k \in Callback |-> IF task[k] = "running" THEN "aborted" ELSE task[k]]
  /\ UNCHANGED <<request, authorized, restarts>>

\* A drain that also waits for the proving tasks.
ExitAfterTasks == /\ Drained
                  /\ \A k \in Callback : task[k] # "running"
                  /\ ProcessEnds

Exit  == Drained /\ ProcessEnds
Crash == mode # "down" /\ ProcessEnds

Start == /\ mode = "down" /\ restarts < MaxRestarts
         /\ mode' = "serving" /\ restarts' = restarts + 1
         /\ UNCHANGED <<challenges, results, mint, request, cb, task, authorized>>

Minting(c) == \/ \E pubkey \in Pubkey, wallet \in Wallet : ChallengeGithub(c, pubkey, wallet)
              \/ CreateChallenge(c)
              \/ CreateSlot(c)
              \/ MintDropped(c)

CallbackGithub(k) ==
  \/ CallbackBadState(k)
  \/ \E c \in Nameable :
       \/ CallbackUnknown(k, c)
       \/ CallbackGone(k, c)
       \/ \E pubkey \in Pubkey :
            \/ CallbackMismatch(k, c, pubkey)
            \/ CallbackDeclined(k, c, pubkey)
            \/ \E code \in authorized \cup {None} : CallbackCode(k, c, pubkey, code)

Finishing(k) == \/ ReportDeclined(k) \/ ExchangeOk(k) \/ ExchangeErr(k) \/ CallbackDropped(k)
                \/ TaskComplete(k) \/ TaskFails(k) \/ TaskPanics(k)

Next == \/ \E c \in Challenge : Minting(c) \/ Authorize(c)
        \/ \E k \in Callback : CallbackGithub(k) \/ Finishing(k)
        \/ Tick
        \/ Shutdown \/ ClientsDone \/ Exit \/ Crash \/ Start

Spec == Init /\ [][Next]_vars
(***************************************************************************)
(* Safety.                                                                 *)
(***************************************************************************)
\* A callback whose handler got past the consume with the challenge in hand.
Holds(k) == cb[k].pc \notin {"idle", "refused"}

\* However often a redirect is replayed and however the copies interleave, at
\* most one callback ever gets hold of a challenge (consume_challenge's doc).
SingleUse == \A j, k \in Callback :
               Holds(j) /\ Holds(k) /\ cb[j].challenge = cb[k].challenge => j = k

\* A proof served for a challenge is made out to the key and the wallet of the
\* request that minted it, and its user approved that challenge's own auth_url,
\* whatever the redirect URL said.
ProofMatchesRequest ==
  \A c \in DOMAIN results : results[c].status.kind = "complete" =>
    /\ results[c].status.proof = [pubkey |-> request[c].pubkey, wallet |-> request[c].wallet]
    /\ c \in authorized

\* A client that was handed a challenge reads "waiting", never 404, for as long
\* as a callback for it would still be accepted: no sweep of the results, which
\* other clients trigger, overtakes the challenge.
LiveChallengeHasSlot ==
  \A c \in Challenge : mint[c] = "answered" /\ Live(c) => StatusView(c) = "waiting"

\* The popup and the poll tell the same story: after a failed page the poll
\* does not report a claim in progress or done; after the progress page it does
\* not go back to waiting.
PopupAgrees ==
  \A k \in Callback : mode # "down" =>
    /\ cb[k].pc = "failed_page" => StatusView(cb[k].challenge) \in {"failed", "not_found"}
    /\ cb[k].pc = "progress_page" => StatusView(cb[k].challenge) # "waiting"

\* Both maps only hold challenges this process minted: callbacks for unknown,
\* expired or pre-restart challenges leave no entry behind.
OnlyMintedHere ==
  /\ \A c \in DOMAIN challenges : mint[c] \in {"created", "answered", "dropped"}
  /\ \A c \in DOMAIN results : mint[c] = "answered"

\* A final answer is not overwritten or swept while it can be read: only time
\* and the end of the process take it away.
FinalAnswerStays ==
  [][ \A c \in Challenge :
        StatusView(c) \in {"complete", "failed"} =>
          \/ StatusView(c)' = StatusView(c) /\ results'[c].status = results[c].status
          \/ StatusView(c)' = "not_found" /\ (results[c].age = TTL - 1 \/ mode' = "down") ]_vars

(***************************************************************************)
(* Every poll is answered as ClaimLifecycle promises.  The stage of a      *)
(* claim is read off the one callback that holds its challenge.            *)
(***************************************************************************)
Owners(c) == {k \in Callback : Holds(k) /\ cb[k].challenge = c}

StageAfter(k) ==
  CASE cb[k].pc \in {"failed_page", "bad_gateway"} -> "failed"
    [] cb[k].pc = "progress_page" ->
         IF task[k] \in {"complete", "failed"} THEN task[k] ELSE "proving"
    [] OTHER -> "waiting"

StageOf(c) ==
  IF mint[c] = "answered"
    THEN IF Owners(c) = {} THEN "waiting" ELSE StageAfter(CHOOSE k \in Owners(c) : TRUE)
    ELSE IF mint[c] = "lost" THEN "lost" ELSE "unborn"

Lifecycle == INSTANCE ClaimLifecycle WITH
               stage <- [c \in Challenge |-> StageOf(c)],
               view  <- [c \in Challenge |-> StatusView(c)]

\* Polls see stages in order, each when it is reached; a view that expired
\* comes back only with news; no claim survives a restart.
ImplementsLifecycle == Lifecycle!LSpec

(***************************************************************************)
(* The inductive invariant behind the safety properties.                   *)
(***************************************************************************)
Carries(r, c) == /\ r.pubkey = request[c].pubkey /\ r.wallet = request[c].wallet
                 /\ r.verifier = c

\* A challenge in the map is what its request made it, and nobody holds it.
ChallengesInv ==
  /\ \A c \in Challenge : mint[c] # "unborn" => Carries(request[c], c)
  /\ \A c \in DOMAIN challenges :
       /\ mint[c] \in {"created", "answered", "dropped"}
       /\ Carries(challenges[c], c)
       /\ \A k \in Callback : Holds(k) => cb[k].challenge # c

\* A callback past the consume carries its challenge's request; while it or
\* its task can still report, the challenge belongs to this process.
HolderOk(k) ==
  /\ Holds(k) => /\ cb[k].challenge \in Challenge
                 /\ mint[cb[k].challenge] \in {"answered", "lost"}
                 /\ Carries(cb[k], cb[k].challenge)
  /\ InFlight(k) \/ task[k] = "running" => mint[cb[k].challenge] = "answered"
  /\ cb[k].pc = "exchanging" => cb[k].code \in authorized \cup {None}
  /\ cb[k].pc = "progress_page" => cb[k].challenge \in authorized
  /\ task[k] # "none" <=> cb[k].pc = "progress_page"

HoldersInv == \A k \in Callback : HolderOk(k)

\* A slot says where the claim's one callback got to, and a finished one has
\* that callback's proof.
SlotTells(c) ==
  /\ mint[c] = "answered"
  /\ \A k \in Callback : Holds(k) /\ cb[k].challenge = c =>
       /\ results[c].status.kind = StageAfter(k)
       /\ results[c].status.kind = "complete" =>
            results[c].status.proof = [pubkey |-> cb[k].pubkey, wallet |-> cb[k].wallet]
  /\ (\A k \in Callback : ~(Holds(k) /\ cb[k].challenge = c)) => results[c].status = Waiting

SlotsInv == \A c \in DOMAIN results : SlotTells(c)

\* The slot is younger than the challenge it was opened for.
LiveSlotInv ==
  \A c \in Challenge : mint[c] = "answered" /\ Live(c) =>
    c \in DOMAIN results /\ results[c].age <= challenges[c].age

\* The parts hold together at every step: no one of them is preserved alone.
Inv == TypeOK /\ SingleUse /\ ChallengesInv /\ HoldersInv /\ SlotsInv /\ LiveSlotInv

(***************************************************************************)
(* Liveness.  Time passes.  The server's own steps are fair: a lock is     *)
(* granted, a drained server exits.  Nothing is assumed of clients, of     *)
(* GitHub or of the notary: no call to either has a timeout.               *)
(***************************************************************************)
ServerFairness ==
  /\ WF_vars(Tick)
  /\ \A c \in Challenge : WF_vars(CreateChallenge(c)) /\ WF_vars(CreateSlot(c))
  /\ \A k \in Callback : WF_vars(ReportDeclined(k))
  /\ WF_vars(Exit)

\* A client that polls until the answer is no longer 202 gets to stop, even if
\* the user never answers GitHub, or the exchange or the notary hangs forever.
PollingEnds ==
  \A c \in Challenge :
    StatusView(c) \in {"waiting", "proving"} ~> StatusView(c) \notin {"waiting", "proving"}

\* A server that was asked to stop does, unless a client holds on to its connection
\* or GitHub never answers a token exchange: a proof in progress is never waited for.
DrainEnds == <>[](mode \in {"lingering", "draining"}) =>
               <>[](mode = "lingering" \/ \E k \in Callback : cb[k].pc = "exchanging")

(***************************************************************************)
(* What result.rs:28 says of a 202: "flow still running".                  *)
(***************************************************************************)
StillRunning(c) == \/ c \in DOMAIN challenges
                   \/ \E k \in Owners(c) : InFlight(k) \/ task[k] = "running"

\* A poll answered 202 belongs to a flow some step can still move on.
PendingMeansRunning ==
  \A c \in Challenge : StatusView(c) \in {"waiting", "proving"} => StillRunning(c)
=============================================================================
