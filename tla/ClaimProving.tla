---------------------------- MODULE ClaimProving ----------------------------
(***************************************************************************)
(* A claim from its challenge to its bundle: ClaimFlow in which the task a *)
(* callback spawns is a proving session of ProofFlow, run for the key in   *)
(* the redirect, the wallet of the consumed challenge and the account      *)
(* behind the access token (run_verification of src/src/routes/callback.rs)*)
(*                                                                         *)
(* Several accounts may approve one auth_url, each in a browser of its     *)
(* own; the token is for the account whose code the redirect brought.      *)
(*                                                                         *)
(* The ages of ClaimFlow are differences of monotonic Instants, the clock  *)
(* of ProofFlow is the wall clock: each ticks on its own.                  *)
(***************************************************************************)
EXTENDS ClaimFlow

CONSTANTS User, OffCurve, Host, ApiHost, Path, UserInfoPath, Deployment, Here,
          Signer, Notary, VByte, MaxDrift, MaxTime, LeafFaults   \* of ProofFlow

VARIABLES approvers,   \* the accounts that approved each auth_url
          account,     \* the account behind the token each callback obtained
          clock, pc, issued, answer, outcome   \* of ProofFlow

proving == <<clock, pc, issued, answer, outcome>>
pvars   == <<vars, approvers, account, proving>>

\* What run is called with: its key, its wallet and whose token it has.
RunArguments == [k \in Callback |-> [key |-> cb[k].pubkey, wallet |-> cb[k].wallet,
                                     user |-> account[k]]]

P == INSTANCE ProofFlow WITH Session <- Callback, Key <- Pubkey, request <- RunArguments

\* What ProofFlow asks of its constants.
ASSUME ProvingAssumption ==
  /\ OffCurve \subseteq Pubkey
  /\ ApiHost \in Host /\ UserInfoPath \in Path /\ Here \in Deployment /\ Notary \in Signer
  /\ MaxDrift \in Nat /\ MaxTime \in Nat /\ VByte \subseteq 0..255
  /\ LeafFaults \in BOOLEAN
  /\ None \notin P!Outcome /\ None \notin P!Answer

CPInit == /\ Init
          /\ approvers = [c \in Challenge |-> {}]
          /\ account = [k \in Callback |-> None]
          /\ clock = 0 /\ issued = {}
          /\ pc = [k \in Callback |-> "start"]
          /\ answer = [k \in Callback |-> None]
          /\ outcome = [k \in Callback |-> None]

(***************************************************************************)
(* The user and the token exchange.                                        *)
(***************************************************************************)
Approve(c, u) ==
  /\ u \notin approvers[c]
  /\ approvers' = [approvers EXCEPT ![c] = @ \cup {u}]
  /\ IF c \in authorized THEN UNCHANGED vars ELSE Authorize(c)
  /\ UNCHANGED <<account, proving>>

\* A token is for one of the accounts that approved the code's auth_url.
Exchange(k) ==
  /\ ExchangeOk(k)
  /\ \E u \in approvers[cb[k].code] : account' = [account EXCEPT ![k] = u]
  /\ UNCHANGED <<approvers, proving>>

(***************************************************************************)
(* The task.  Between the end of run and the report lies a lock.           *)
(***************************************************************************)
\* The notary's URL has no port, or the notary cannot be reached.
ConnectFails(k) == pc[k] = "start" /\ TaskFails(k) /\ UNCHANGED <<approvers, account, proving>>

\* run, on a connection to the notary.
Run(k) ==
  /\ task[k] = "running"
  /\ UNCHANGED <<vars, approvers, account>>
  /\ \/ P!BadKey(k) \/ P!Prove(k) \/ P!SessionFails(k)
     \/ \E attested \in Callback, p \in issued : \E q \in {p} \cup P!Altered(p) :
          P!Respond(k, attested, q)

\* The notary outlives our process: it may sign for a session that is gone.
NotarySigns(k) == UNCHANGED <<vars, approvers, account>> /\ P!NotarySigns(k)

Reports(k) ==
  /\ pc[k] = "done"
  /\ \/ outcome[k] = "ok" /\ TaskComplete(k)
     \/ outcome[k] = "panicked" /\ TaskPanics(k)
     \/ outcome[k] \notin {"ok", "panicked"} /\ TaskFails(k)
  /\ UNCHANGED <<approvers, account, proving>>

\* Everything that neither runs a session nor reports one.
ElsewhereInClaim ==
  /\ \/ \E c \in Challenge : Minting(c)
     \/ \E k \in Callback : CallbackGithub(k) \/ ReportDeclined(k) \/ ExchangeErr(k)
                              \/ CallbackDropped(k)
     \/ Tick \/ Shutdown \/ ClientsDone \/ Exit \/ Crash \/ Start
  /\ UNCHANGED <<approvers, account, proving>>

WallClock == UNCHANGED <<vars, approvers, account>> /\ P!Tick

CPNext == \/ \E c \in Challenge, u \in User : Approve(c, u)
          \/ \E k \in Callback : Exchange(k) \/ ConnectFails(k) \/ Run(k) \/ NotarySigns(k)
                                   \/ Reports(k)
          \/ ElsewhereInClaim
          \/ WallClock

CPSpec == CPInit /\ [][CPNext]_pvars

(***************************************************************************)
(* Safety.                                                                 *)
(***************************************************************************)
\* The callback whose task reported the bundle in the slot of c.
Served(c, k) == Holds(k) /\ cb[k].challenge = c /\ task[k] = "complete"

\* End to end: a bundle served for a challenge is one the contract accepts,
\* whatever the notary, other claims and the redirect did; it is made out to the
\* key and the wallet that minted the challenge and names an account whose user
\* approved that challenge's own auth_url.
ServedBundleIsGood ==
  \A c \in DOMAIN results : results[c].status.kind = "complete" =>
    \E k \in Callback :
      /\ Served(c, k)
      /\ LET b == P!Bundle(k)
         IN  /\ P!ContractAccepts(b)
             /\ b.session_address = request[c].pubkey /\ b.wallet = request[c].wallet
             /\ b.handle \in approvers[c] /\ b.user_id = b.handle

\* Whatever the notary mixes up, a bundle is built on its own session's handshake
\* and on what was signed for that session (BundleIsOwn of ProofFlow).
BundleIsOwn == P!BundleIsOwn

\* A challenge minted for a key that is no curve point, which the challenge
\* route accepts (challenge.rs:32), is never answered with a bundle.
OffCurveNeverServed ==
  \A c \in DOMAIN results :
    results[c].status.kind = "complete" => request[c].pubkey \notin OffCurve

(***************************************************************************)
(* Liveness: the server's own steps are fair, and with them the lock that  *)
(* a report waits for.  No step of a session is: see ServerFairness.       *)
(***************************************************************************)
CPFairSpec == CPSpec /\ ServerFairness /\ \A k \in Callback : WF_pvars(Reports(k))

\* A bundle that passed every check is served, however long the notary took and
\* whatever became of the claim's slot meanwhile, unless the process ends first.
AcceptedIsServed ==
  \A k \in Callback : outcome[k] = "ok" /\ task[k] = "running" ~>
    \/ task[k] = "aborted"
    \/ task[k] = "complete" /\ StatusView(cb[k].challenge) = "complete"
=============================================================================
