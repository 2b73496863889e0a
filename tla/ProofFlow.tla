------------------------------ MODULE ProofFlow ------------------------------
(***************************************************************************)
(* The proving sessions of the backend against its notary: flow::run of    *)
(* src/src/flow/mod.rs, one session per spawned task.  A session runs      *)
(* MPC-TLS against GitHub, asks the notary for its proof, re-checks        *)
(* everything in it against its own view and assembles the bundle that     *)
(* the client submits on-chain.                                            *)
(*                                                                         *)
(* The notary is the trust root, but it may be broken: it may answer a     *)
(* session with the proof of another one, late, twice, altered, signed for *)
(* another deployment, or with leaves missing or moved.                    *)
(*                                                                         *)
(* Cryptography is perfect and symbolic: a hash is the value it hashes, a  *)
(* signature is the record of who signed what.  tlsn and the libid crates  *)
(* are external; they are modelled from how the code uses them.            *)
(***************************************************************************)
EXTENDS Integers, Sequences, FiniteSetsExt

CONSTANTS Session,      \* proving tasks; names a session's TLS randoms and key too
          User,         \* GitHub accounts
          Key,          \* session public keys, 33 bytes with prefix 02 or 03
          OffCurve,     \* those that are not the x-coordinate of a curve point
          Wallet,
          Host, ApiHost,          \* hosts a proof may name; the one it must name
          Path, UserInfoPath,     \* endpoints likewise
          Deployment, Here,       \* (chain id, verifier contract) pairs; ours
          Signer, Notary,         \* signing addresses; notary_address
          VByte,                  \* recovery bytes a signature may arrive with
          MaxDrift,               \* MAX_TIMESTAMP_DRIFT_SECS
          MaxTime,                \* bound on the clock
          LeafFaults,             \* whether the notary may commit to wrong leaves
          None

ASSUME ProofFlowAssumption ==
  /\ OffCurve \subseteq Key
  /\ ApiHost \in Host /\ UserInfoPath \in Path /\ Here \in Deployment /\ Notary \in Signer
  /\ MaxDrift \in Nat /\ MaxTime \in Nat /\ VByte \subseteq 0..255
  /\ LeafFaults \in BOOLEAN

VARIABLES clock,     \* this server's wall clock
          request,   \* key and wallet of the challenge, account behind the token
          pc,        \* where each session's run() is
          issued,    \* every proof the notary has signed
          answer,    \* the NotaryResponse each session has read
          outcome    \* what run() returned

vars == <<clock, request, pc, issued, answer, outcome>>

Request == [key : Key, wallet : Wallet, user : User]

(***************************************************************************)
(* Merkle leaves, the tree over them and its paths.  The content of a      *)
(* "recv:" leaf is a JSON snippet of the response body: the login or the   *)
(* id of an account, and an account stands for its own login and id.       *)
(***************************************************************************)
Leaf(tag, value) == [tag |-> tag, value |-> value]
MerkleRoot(leaves) == leaves
MerkleProof(leaves, i) == [leaves |-> leaves, index |-> i]
MerkleVerify(path, root, leaf) ==
  /\ path.leaves = root
  /\ path.index \in DOMAIN root /\ root[path.index] = leaf

\* Orders and choices of leaves a notary may commit to for a session of u.
LeafLists(h, e, u) ==
  LET D == Leaf("domain", h)   E == Leaf("endpoint", e)
      L == Leaf("login", u)    I == Leaf("id", u)
  IN  {<<D, E, L, I>>, <<D, E, I, L>>} \cup
      IF LeafFaults
        THEN {<<D, E>>, <<D, E, L>>, <<D, E, I>>, <<E, D, L, I>>, <<L, I, D, E>>}
               \cup {<<D, E, L, Leaf("id", v)>> : v \in User}
               \cup {<<D, E, Leaf("login", v), I>> : v \in User}
        ELSE {}

Digest(deployment, domain, session, root, timestamp) ==
  [deployment |-> deployment, domain |-> domain, session |-> session,
   root |-> root, timestamp |-> timestamp]

\* An EvmProof as a notary would sign it.
EvmProof(s, h, e, leaves, deployment, t, signer, v) ==
  [domain |-> h, endpoint |-> e, session |-> s, leaves |-> leaves,
   root |-> MerkleRoot(leaves), timestamp |-> t,
   signature |-> [by |-> signer, v |-> v,
                  digest |-> Digest(deployment, h, s, MerkleRoot(leaves), t)]]

\* A proof with one of its parts altered after it was signed.
Altered(p) ==
  {[p EXCEPT !.domain = h] : h \in Host} \cup {[p EXCEPT !.endpoint = e] : e \in Path}
    \cup {[p EXCEPT !.session = s] : s \in Session}
    \cup {[p EXCEPT !.timestamp = t] : t \in 0..MaxTime}
    \cup LET short == SubSeq(p.leaves, 1, Len(p.leaves) - 1)
         IN  {[p EXCEPT !.leaves = short], [p EXCEPT !.root = short],
              [p EXCEPT !.leaves = short, !.root = short]}

(***************************************************************************)
(* The checks of run(), each with the error it returns, in their order.    *)
(***************************************************************************)
Drift(p) == IF clock >= p.timestamp THEN clock - p.timestamp ELSE p.timestamp - clock

AtMostDrift(p) == Drift(p) + 1 < MaxDrift
FreshTimestamp(p) == Drift(p) < MaxDrift

AnyHandshake(s, p) == TRUE
SameHandshake(s, p) == p.session = s

LeafAt(p, i, leaf) == i \in DOMAIN p.leaves /\ p.leaves[i] = leaf

RootRecomputes(p) == MerkleRoot(p.leaves) = p.root

Normalized == {0, 1, 27, 28}

\* recover_eth_claim and the comparison with notary_address.  What the library
\* makes of a recovery byte outside Normalized is its own: see Respond.
Recovers(p) ==
  /\ p.signature.by = Notary
  /\ p.signature.digest = Digest(Here, p.domain, p.session, p.root, p.timestamp)

\* The error of the first check that fails, which `?` returns at once.
Check(err, ok) == [err |-> err, ok |-> ok]
FirstFailure(checks) ==
  LET failed == {i \in DOMAIN checks : ~checks[i].ok}
  IN  IF failed = {} THEN "ok" ELSE checks[Min(failed)].err
AndThen(first, second) == IF first = "ok" THEN second ELSE first

\* verify_common_checks: the transcript names the endpoint the session asked for.
CommonChecks(p) == FirstFailure(
  << Check("endpoint", p.endpoint = UserInfoPath),
     Check("too_few_leaves", Len(p.leaves) >= 3),
     Check("leaf_mismatch", /\ LeafAt(p, 1, Leaf("domain", p.domain))
                            /\ LeafAt(p, 2, Leaf("endpoint", p.endpoint))),
     Check("transcript_root", RootRecomputes(p)),
     Check("signature", Recovers(p)) >>)

\* The handle's leaf must come after the first two.
Verify(s, attested, p) ==
  LET own == << Check("attestation_invalid", attested = s),
                Check("tls_handshake", SameHandshake(s, p)),
                Check("domain", p.domain = ApiHost),
                Check("timestamp_drift", FreshTimestamp(p)) >>
      username == << Check("username_leaf", \E i \in 3..Len(p.leaves) :
                                              LeafAt(p, i, Leaf("login", request[s].user))) >>
  IN  AndThen(FirstFailure(own), AndThen(CommonChecks(p), FirstFailure(username)))

\* verify, then what assemble_registration_proof looks for; the id's leaf may be anywhere.
Verdict(s, attested, p) ==
  AndThen(Verify(s, attested, p),
          FirstFailure(<< Check("id_leaf", \E i \in DOMAIN p.leaves :
                                             LeafAt(p, i, Leaf("id", request[s].user))) >>))

\* solidity_sig without the bump of a recovery byte of 0.
UnbumpedV(v) == IF v = 1 THEN 28 ELSE v
SolidityV(v) == IF v \in {0, 1} THEN v + 27 ELSE v

\* leaves.iter().position(..): the first one.
Position(leaves, leaf) == Min({i \in DOMAIN leaves : leaves[i] = leaf})

SessionAddress(key) == key

(***************************************************************************)
(* The RegistrationProof a session hands out, and the contract it is made  *)
(* for (external: GitHubIdentityVerifier, known from types.rs).            *)
(***************************************************************************)
AssembleWith(s, p, index) ==
  [session_address |-> SessionAddress(request[s].key), wallet |-> request[s].wallet,
   handle |-> request[s].user, user_id |-> request[s].user,
   session |-> p.session, root |-> p.root, timestamp |-> p.timestamp,
   signature |-> [p.signature EXCEPT !.v = SolidityV(@)],
   domainPath |-> MerkleProof(p.leaves, 1), endpointPath |-> MerkleProof(p.leaves, 2),
   usernamePath |-> MerkleProof(p.leaves, Position(p.leaves, Leaf("login", request[s].user))),
   idPath |-> MerkleProof(p.leaves, index)]

\* A bundle that takes the id's leaf to be the last one.
AssembleLastLeaf(s, p) == AssembleWith(s, p, Len(p.leaves))
Assemble(s, p) == AssembleWith(s, p, Position(p.leaves, Leaf("id", request[s].user)))

ContractAccepts(b) ==
  /\ b.signature.by = Notary /\ b.signature.v \in {27, 28}
  /\ b.signature.digest = Digest(Here, ApiHost, b.session, b.root, b.timestamp)
  /\ MerkleVerify(b.domainPath, b.root, Leaf("domain", ApiHost))
  /\ MerkleVerify(b.endpointPath, b.root, Leaf("endpoint", UserInfoPath))
  /\ MerkleVerify(b.usernamePath, b.root, Leaf("login", b.handle))
  /\ MerkleVerify(b.idPath, b.root, Leaf("id", b.user_id))

(***************************************************************************)
(* Behaviour.                                                              *)
(***************************************************************************)
Init == /\ clock = 0
        /\ request \in [Session -> Request]
        /\ pc = [s \in Session |-> "start"]
        /\ issued = {}
        /\ answer = [s \in Session |-> None]
        /\ outcome = [s \in Session |-> None]

Return(s, result) == /\ pc' = [pc EXCEPT ![s] = "done"]
                     /\ outcome' = [outcome EXCEPT ![s] = result]

\* pubkey_to_session_address: a key the challenge route let through may still
\* not be a curve point; the claim fails only here, after the user approved it.
BadKey(s) == /\ pc[s] = "start" /\ request[s].key \in OffCurve
             /\ Return(s, "crypto_failed")
             /\ UNCHANGED <<clock, request, issued, answer>>

\* A session that takes any 33 bytes for a key.
ProveAnyKey(s) == /\ pc[s] = "start"
                  /\ pc' = [pc EXCEPT ![s] = "awaiting"]
                  /\ UNCHANGED <<clock, request, issued, answer, outcome>>

\* libid_tlsn::prover and the attestation request; no timeout anywhere.
Prove(s) == /\ pc[s] = "start" /\ request[s].key \notin OffCurve
            /\ pc' = [pc EXCEPT ![s] = "awaiting"]
            /\ UNCHANGED <<clock, request, issued, answer, outcome>>

\* A session that is tried once more after its failure was returned.
SessionFailsAndRetries(s) == /\ pc[s] = "awaiting"
                             /\ pc' = [pc EXCEPT ![s] = "start"]
                             /\ outcome' = [outcome EXCEPT ![s] = "session_failed"]
                             /\ UNCHANGED <<clock, request, issued, answer>>

\* MPC-TLS fails, the body does not parse, or the notary's stream breaks.
SessionFails(s) == /\ \/ pc[s] = "start" /\ request[s].key \notin OffCurve
                      \/ pc[s] = "awaiting"
                   /\ Return(s, "session_failed")
                   /\ UNCHANGED <<clock, request, issued, answer>>

\* The notary signs one proof per session it has taken part in (external).
NotarySigns(s) ==
  /\ pc[s] = "awaiting" /\ \A p \in issued : p.session # s
  /\ \E h \in Host, e \in Path, deployment \in Deployment, t \in 0..MaxTime,
        signer \in Signer, v \in VByte :
       \E leaves \in LeafLists(h, e, request[s].user) :
         issued' = issued \cup {EvmProof(s, h, e, leaves, deployment, t, signer, v)}
  /\ UNCHANGED <<clock, request, pc, answer, outcome>>

\* What run() may return once it has read the response.  The presentation is
\* built after verify and before the id's leaf is looked for.  A recovery byte
\* solidity_sig does not know may fail to recover; if it recovers all the same,
\* a bundle that passes every check makes solidity_sig panic.
Results(s, attested, p) ==
  LET verdict == Verdict(s, attested, p)
      known   == p.signature.v \in Normalized
  IN  {IF verdict = "ok" /\ ~known THEN "panicked" ELSE verdict}
        \cup {r \in {"presentation_failed"} : verdict \in {"ok", "id_leaf"}}
        \cup {r \in {"signature"} : ~known /\ verdict \in {"ok", "username_leaf", "id_leaf"}}

\* read_msg returns; everything after it runs without an await.
Respond(s, attested, p) ==
  /\ pc[s] = "awaiting"
  /\ answer' = [answer EXCEPT ![s] = [attested |-> attested, proof |-> p, at |-> clock]]
  /\ \E result \in Results(s, attested, p) : Return(s, result)
  /\ UNCHANGED <<clock, request, issued>>

Tick == clock < MaxTime /\ clock' = clock + 1 /\ UNCHANGED <<request, pc, issued, answer, outcome>>

Next == \/ \E s \in Session :
             \/ BadKey(s) \/ Prove(s) \/ SessionFails(s) \/ NotarySigns(s)
             \/ \E attested \in Session, p \in issued : \E q \in {p} \cup Altered(p) :
                  Respond(s, attested, q)
        \/ Tick

Spec == Init /\ [][Next]_vars
Outcome == {"ok", "panicked", "crypto_failed", "session_failed", "presentation_failed",
            "attestation_invalid", "tls_handshake", "domain", "timestamp_drift", "endpoint",
            "too_few_leaves", "leaf_mismatch", "transcript_root", "signature",
            "username_leaf", "id_leaf"}

\* The EvmProofs a notary may send, whoever signed them, whole or altered.
LeafList == Seq([tag : {"domain", "endpoint", "login", "id"}, value : Host \cup Path \cup User])
Signed == [deployment : Deployment, domain : Host, session : Session, root : LeafList,
           timestamp : 0..MaxTime]
Proof == [domain : Host, endpoint : Path, session : Session, leaves : LeafList,
          root : LeafList, timestamp : 0..MaxTime,
          signature : [by : Signer, v : VByte, digest : Signed]]
Answer == [attested : Session, proof : Proof, at : 0..MaxTime]

ASSUME NoneIsNoResult == None \notin Outcome /\ None \notin Answer

SessionsOK ==
  /\ clock \in 0..MaxTime
  /\ pc \in [Session -> {"start", "awaiting", "done"}]
  /\ issued \subseteq Proof
  /\ answer \in [Session -> Answer \cup {None}]
  /\ outcome \in [Session -> Outcome \cup {None}]
  /\ \A s \in Session : (outcome[s] # None) <=> (pc[s] = "done")
  /\ \A s \in Session : outcome[s] = "ok" => answer[s] # None

TypeOK == request \in [Session -> Request] /\ SessionsOK

Bundle(s) == Assemble(s, answer[s].proof)

\* Whatever the notary answers, a bundle that is handed out is one the contract
\* of this deployment accepts for the handle and the id it names: a broken notary
\* shows as a failed claim here and not as a revert on-chain (mod.rs:17).
BundleIsBindable == \A s \in Session : outcome[s] = "ok" => ContractAccepts(Bundle(s))

\* Concurrent sessions never trade proofs: a bundle is built on its own session's
\* handshake and on data the notary signed for that very session and user.
BundleIsOwn ==
  \A s \in Session : outcome[s] = "ok" =>
    /\ answer[s].attested = s /\ Bundle(s).session = s
    /\ \E p \in issued : /\ p.session = s /\ p.root = Bundle(s).root
                         /\ p.timestamp = Bundle(s).timestamp

\* The drift the session saw when it read the response r.
DriftAt(r) == IF r.at >= r.proof.timestamp THEN r.at - r.proof.timestamp
                                           ELSE r.proof.timestamp - r.at
FreshAt(r) == DriftAt(r) < MaxDrift

\* What an unbroken notary answers session s with, its clock off by less than
\* the allowed drift and its leaves after the first two in any order.
Honest(s, r) ==
  /\ r.attested = s /\ FreshAt(r)
  /\ \E v \in Normalized :
       r.proof = EvmProof(s, ApiHost, UserInfoPath, r.proof.leaves, Here,
                          r.proof.timestamp, Notary, v)
  /\ LET leaves == r.proof.leaves
     IN  /\ Len(leaves) = 4 /\ leaves[1] = Leaf("domain", ApiHost)
         /\ leaves[2] = Leaf("endpoint", UserInfoPath)
         /\ {leaves[3], leaves[4]} = {Leaf("login", request[s].user), Leaf("id", request[s].user)}

\* No check rejects the answer of an unbroken notary; only the library that
\* builds the presentation can still fail the claim.
HonestAnswerAccepted ==
  \A s \in Session : answer[s] # None /\ Honest(s, answer[s]) =>
    outcome[s] \in {"ok", "presentation_failed"}

\* What the message of error.rs:91 says: "timestamp drift {}s exceeds max {}s".
DriftErrorMeansExceeds ==
  \A s \in Session : outcome[s] = "timestamp_drift" => DriftAt(answer[s]) > MaxDrift
=============================================================================
