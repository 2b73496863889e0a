--------------------------- MODULE ProofFlowProofs ---------------------------
(***************************************************************************)
(* Proofs about ProofFlow, for any sets of sessions, accounts, keys, hosts *)
(* and signers, any drift and any recovery bytes.                          *)
(***************************************************************************)
EXTENDS ProofFlow, TLAPS

LOCAL INSTANCE WellFoundedInduction
LOCAL INSTANCE FiniteSetTheorems
LOCAL INSTANCE SequenceTheorems

(***************************************************************************)
(* The first of several places, and the first check that fails.            *)
(***************************************************************************)
\* A set of positions that is not empty has a least element, and Min is it: the
\* sets 0..i are finite, so one of them has no other inside.
LEMMA MinFacts ==
  ASSUME NEW S \in SUBSET Nat, S # {}
  PROVE  Min(S) \in S /\ \A i \in S : Min(S) <= i
<1> DEFINE T == {0..i : i \in S}
<1>1. T \subseteq FiniteSubsetsOf(Nat) /\ T # {}
  <2>1. ASSUME NEW i \in S PROVE 0..i \in SUBSET Nat /\ IsFiniteSet(0..i)
    <3>1. i \in Int /\ 0..i \subseteq Nat
      OBVIOUS
    <3> QED
      BY <3>1, FS_Interval
  <2> QED
    BY <2>1 DEF FiniteSubsetsOf
<1>2. PICK t \in T : \A u \in T : ~(<<u, t>> \in StrictSubsetOrdering(Nat))
  <2> HIDE DEF T
  <2> QED
    BY <1>1, WFMin, FS_StrictSubsetOrderingWellFounded
<1>3. PICK x \in S : t = 0..x
  OBVIOUS
<1>4. ASSUME NEW y \in S, y < x PROVE FALSE
  <2>1. 0..y \in T /\ 0..x \in T
    OBVIOUS
  <2>2. 0..y \subseteq 0..x /\ 0..y \in SUBSET Nat /\ 0..x \in SUBSET Nat
    BY <1>4
  <2>3. x \in 0..x /\ x \notin 0..y
    BY <1>4
  <2>4. 0..y # 0..x
    BY <2>3
  <2>5. <<0..y, 0..x>> \in StrictSubsetOrdering(Nat)
    BY <2>2, <2>4 DEF StrictSubsetOrdering
  <2> QED
    BY <1>2, <1>3, <2>1, <2>5
<1>5. \A y \in S : x =< y
  BY <1>4
<1> QED
  BY <1>5 DEF Min

\* Where position(..) finds a leaf, the leaf is.
LEMMA PositionFacts ==
  ASSUME NEW leaves \in LeafList, NEW leaf, \E i \in DOMAIN leaves : leaves[i] = leaf
  PROVE  /\ Position(leaves, leaf) \in DOMAIN leaves
         /\ leaves[Position(leaves, leaf)] = leaf
<1> DEFINE S == {i \in DOMAIN leaves : leaves[i] = leaf}
<1>1. S \in SUBSET Nat /\ S # {}
  BY DEF LeafList
<1>2. Min(S) \in S
  BY <1>1, MinFacts
<1> QED
  BY <1>2 DEF Position

\* `?`: the checks pass together if each of them does, and otherwise the error of
\* one that does not is returned.
LEMMA FirstFailureFacts ==
  ASSUME NEW checks, DOMAIN checks \in SUBSET Nat, \A i \in DOMAIN checks : checks[i].err # "ok"
  PROVE  /\ FirstFailure(checks) = "ok" <=> \A i \in DOMAIN checks : checks[i].ok
         /\ FirstFailure(checks) \in {"ok"} \cup {checks[i].err : i \in DOMAIN checks}
<1> DEFINE failed == {i \in DOMAIN checks : ~checks[i].ok}
<1>1. failed \in SUBSET Nat
  OBVIOUS
<1>2. CASE failed = {}
  BY <1>2 DEF FirstFailure
<1>3. CASE failed # {}
  <2>1. Min(failed) \in failed
    BY <1>1, <1>3, MinFacts
  <2>2. FirstFailure(checks) = checks[Min(failed)].err
    BY <1>3 DEF FirstFailure
  <2> QED
    BY <1>3, <2>1, <2>2
<1> QED
  BY <1>2, <1>3

\* The checks of verify_common_checks.
CommonHolds(p) ==
  /\ p.endpoint = UserInfoPath /\ Len(p.leaves) >= 3
  /\ LeafAt(p, 1, Leaf("domain", p.domain)) /\ LeafAt(p, 2, Leaf("endpoint", p.endpoint))
  /\ RootRecomputes(p) /\ Recovers(p)

\* And all that a session must find before it hands out a bundle.
EverythingHolds(s, attested, p) ==
  /\ attested = s /\ SameHandshake(s, p) /\ p.domain = ApiHost /\ FreshTimestamp(p)
  /\ CommonHolds(p)
  /\ \E i \in 3..Len(p.leaves) : LeafAt(p, i, Leaf("login", request[s].user))
  /\ \E i \in DOMAIN p.leaves : LeafAt(p, i, Leaf("id", request[s].user))

\* verify_common_checks passes if each of its checks does.
LEMMA CommonChecksFacts ==
  ASSUME NEW p
  PROVE  /\ CommonChecks(p) = "ok" <=> CommonHolds(p)
         /\ CommonChecks(p) \in Outcome
<1> DEFINE checks ==
      << Check("endpoint", p.endpoint = UserInfoPath),
         Check("too_few_leaves", Len(p.leaves) >= 3),
         Check("leaf_mismatch", /\ LeafAt(p, 1, Leaf("domain", p.domain))
                                /\ LeafAt(p, 2, Leaf("endpoint", p.endpoint))),
         Check("transcript_root", RootRecomputes(p)),
         Check("signature", Recovers(p)) >>
<1>1. DOMAIN checks = 1..5
  OBVIOUS
<1>2. \A i \in DOMAIN checks : checks[i].err # "ok"
  BY DEF Check
<1>3. (\A i \in DOMAIN checks : checks[i].ok) <=> CommonHolds(p)
  <2>1. /\ checks[1].ok <=> p.endpoint = UserInfoPath
        /\ checks[2].ok <=> Len(p.leaves) >= 3
        /\ checks[3].ok <=> /\ LeafAt(p, 1, Leaf("domain", p.domain))
                            /\ LeafAt(p, 2, Leaf("endpoint", p.endpoint))
        /\ checks[4].ok <=> RootRecomputes(p)
        /\ checks[5].ok <=> Recovers(p)
    BY DEF Check, LeafAt, RootRecomputes, Recovers
  <2> HIDE DEF checks
  <2>2. (\A i \in DOMAIN checks : checks[i].ok) <=>
          /\ checks[1].ok /\ checks[2].ok /\ checks[3].ok /\ checks[4].ok /\ checks[5].ok
    BY <1>1
  <2> QED
    BY <2>1, <2>2 DEF CommonHolds
<1>4. CommonChecks(p) = FirstFailure(checks)
  BY DEF CommonChecks
<1>5. \A i \in DOMAIN checks : checks[i].err \in Outcome
  BY DEF Check, Outcome
<1> HIDE DEF checks
<1>6. DOMAIN checks \in SUBSET Nat
  BY <1>1
<1>7. /\ FirstFailure(checks) = "ok" <=> \A i \in DOMAIN checks : checks[i].ok
      /\ FirstFailure(checks) \in {"ok"} \cup {checks[i].err : i \in DOMAIN checks}
  BY <1>2, <1>6, FirstFailureFacts
<1>8. FirstFailure(checks) \in Outcome
  BY <1>5, <1>7 DEF Outcome
<1> QED
  BY <1>3, <1>4, <1>7, <1>8
\* A single check.
LEMMA OneCheckFacts ==
  ASSUME NEW err \in Outcome \ {"ok"}, NEW ok \in BOOLEAN
  PROVE  FirstFailure(<<Check(err, ok)>>) = IF ok THEN "ok" ELSE err
<1> DEFINE checks == <<Check(err, ok)>>
<1>1. DOMAIN checks = {1} /\ checks[1].err = err /\ checks[1].ok = ok
  BY DEF Check
<1> HIDE DEF checks
<1>2. /\ FirstFailure(checks) = "ok" <=> \A i \in DOMAIN checks : checks[i].ok
      /\ FirstFailure(checks) \in {"ok"} \cup {checks[i].err : i \in DOMAIN checks}
  BY <1>1, FirstFailureFacts
<1>3. FirstFailure(checks) = IF ok THEN "ok" ELSE err
  BY <1>1, <1>2
<1> QED
  BY <1>3 DEF checks

\* run gets to hand out a bundle exactly if everything holds.
LEMMA VerdictFacts ==
  ASSUME NEW s, NEW attested, NEW p
  PROVE  /\ Verdict(s, attested, p) = "ok" <=> EverythingHolds(s, attested, p)
         /\ Verdict(s, attested, p) \in Outcome
<1> DEFINE own == << Check("attestation_invalid", attested = s),
                     Check("tls_handshake", SameHandshake(s, p)),
                     Check("domain", p.domain = ApiHost),
                     Check("timestamp_drift", FreshTimestamp(p)) >>
           login == \E i \in 3..Len(p.leaves) : LeafAt(p, i, Leaf("login", request[s].user))
           id == \E i \in DOMAIN p.leaves : LeafAt(p, i, Leaf("id", request[s].user))
<1>1. DOMAIN own = 1..4
  OBVIOUS
<1>2. \A i \in DOMAIN own : own[i].err # "ok" /\ own[i].err \in Outcome
  BY DEF Check, Outcome
<1>3. (\A i \in DOMAIN own : own[i].ok) <=>
         attested = s /\ SameHandshake(s, p) /\ p.domain = ApiHost /\ FreshTimestamp(p)
  <2>1. /\ own[1].ok <=> attested = s
        /\ own[2].ok <=> SameHandshake(s, p)
        /\ own[3].ok <=> p.domain = ApiHost
        /\ own[4].ok <=> FreshTimestamp(p)
    BY DEF Check, SameHandshake, FreshTimestamp
  <2> HIDE DEF own
  <2>2. (\A i \in DOMAIN own : own[i].ok) <=>
           own[1].ok /\ own[2].ok /\ own[3].ok /\ own[4].ok
    BY <1>1
  <2> QED
    BY <2>1, <2>2
<1>4. /\ Verify(s, attested, p) =
           AndThen(FirstFailure(own),
                   AndThen(CommonChecks(p), FirstFailure(<<Check("username_leaf", login)>>)))
      /\ Verdict(s, attested, p) =
           AndThen(Verify(s, attested, p), FirstFailure(<<Check("id_leaf", id)>>))
  BY DEF Verify, Verdict
<1>5. login \in BOOLEAN /\ id \in BOOLEAN
  OBVIOUS
<1>6. EverythingHolds(s, attested, p) <=>
        /\ attested = s /\ SameHandshake(s, p) /\ p.domain = ApiHost /\ FreshTimestamp(p)
        /\ CommonHolds(p) /\ login /\ id
  BY DEF EverythingHolds
<1> HIDE DEF own, login, id
<1>7. /\ FirstFailure(own) = "ok" <=> \A i \in DOMAIN own : own[i].ok
      /\ FirstFailure(own) \in {"ok"} \cup {own[i].err : i \in DOMAIN own}
  <2>1. DOMAIN own \in SUBSET Nat
    BY <1>1
  <2> QED
    BY <1>2, <2>1, FirstFailureFacts
<1>8. FirstFailure(own) \in Outcome
  BY <1>2, <1>7 DEF Outcome
<1>9. /\ FirstFailure(<<Check("username_leaf", login)>>) = IF login THEN "ok" ELSE "username_leaf"
      /\ FirstFailure(<<Check("id_leaf", id)>>) = IF id THEN "ok" ELSE "id_leaf"
  BY <1>5, OneCheckFacts DEF Outcome
<1>10. CommonChecks(p) = "ok" <=> CommonHolds(p)
  BY CommonChecksFacts
<1>11. CommonChecks(p) \in Outcome
  BY CommonChecksFacts
<1>12. Verdict(s, attested, p) \in Outcome
  BY <1>4, <1>8, <1>9, <1>11 DEF AndThen, Outcome
<1>13. Verdict(s, attested, p) = "ok" <=>
         FirstFailure(own) = "ok" /\ CommonChecks(p) = "ok" /\ login /\ id
  BY <1>4, <1>9 DEF AndThen
<1> QED
  BY <1>3, <1>6, <1>7, <1>10, <1>12, <1>13

(***************************************************************************)
(* The bundle.                                                             *)
(***************************************************************************)
\* A bundle assembled from a proof of which everything holds is one the contract
\* accepts, and on its own session.
LEMMA AssembleFacts ==
  ASSUME NEW s, NEW attested, NEW p \in Proof, EverythingHolds(s, attested, p),
         p.signature.v \in Normalized
  PROVE  ContractAccepts(Assemble(s, p)) /\ Assemble(s, p).session = s
<1> DEFINE b == Assemble(s, p)
           L == p.leaves
           login == Leaf("login", request[s].user)
           id == Leaf("id", request[s].user)
<1>1. /\ L \in LeafList /\ p.root = L /\ Len(L) >= 3
      /\ p.signature \in [by : Signer, v : VByte, digest : Signed]
  BY DEF Proof, EverythingHolds, CommonHolds, RootRecomputes, MerkleRoot
<1>2. /\ p.session = s /\ p.domain = ApiHost /\ p.endpoint = UserInfoPath
      /\ p.signature.by = Notary
      /\ p.signature.digest = Digest(Here, ApiHost, p.session, p.root, p.timestamp)
  BY DEF EverythingHolds, CommonHolds, SameHandshake, Recovers
<1>3. /\ 1 \in DOMAIN L /\ L[1] = Leaf("domain", ApiHost)
      /\ 2 \in DOMAIN L /\ L[2] = Leaf("endpoint", UserInfoPath)
  BY <1>2 DEF EverythingHolds, CommonHolds, LeafAt
<1>4. Position(L, login) \in DOMAIN L /\ L[Position(L, login)] = login
  <2>1. \E i \in DOMAIN L : L[i] = login
    BY DEF EverythingHolds, LeafAt
  <2> QED
    BY <1>1, <2>1, PositionFacts
<1>5. Position(L, id) \in DOMAIN L /\ L[Position(L, id)] = id
  <2>1. \E i \in DOMAIN L : L[i] = id
    BY DEF EverythingHolds, LeafAt
  <2> QED
    BY <1>1, <2>1, PositionFacts
<1>6. /\ b.session = p.session /\ b.root = p.root /\ b.timestamp = p.timestamp
      /\ b.handle = request[s].user /\ b.user_id = request[s].user
      /\ b.signature = [p.signature EXCEPT !.v = SolidityV(p.signature.v)]
      /\ b.domainPath = MerkleProof(L, 1) /\ b.endpointPath = MerkleProof(L, 2)
      /\ b.usernamePath = MerkleProof(L, Position(L, login))
      /\ b.idPath = MerkleProof(L, Position(L, id))
  BY DEF Assemble, AssembleWith
<1>7. SolidityV(p.signature.v) \in {27, 28}
  BY DEF Normalized, SolidityV
<1>8. /\ b.signature.by = Notary /\ b.signature.v \in {27, 28}
      /\ b.signature.digest = p.signature.digest
  BY <1>1, <1>2, <1>6, <1>7
<1> HIDE DEF b, L, login, id
<1>9. /\ MerkleVerify(b.domainPath, b.root, Leaf("domain", ApiHost))
      /\ MerkleVerify(b.endpointPath, b.root, Leaf("endpoint", UserInfoPath))
      /\ MerkleVerify(b.usernamePath, b.root, login)
      /\ MerkleVerify(b.idPath, b.root, id)
  BY <1>1, <1>3, <1>4, <1>5, <1>6 DEF MerkleVerify, MerkleProof
<1>10. ContractAccepts(b) /\ b.session = s
  BY <1>2, <1>6, <1>8, <1>9 DEF ContractAccepts, login, id
<1> QED
  BY <1>10 DEF b

(***************************************************************************)
(* What the notary sends.                                                  *)
(***************************************************************************)
\* Whatever leaves the notary commits to for an account, they are a list of leaves.
LEMMA LeafListFacts ==
  ASSUME NEW h \in Host, NEW e \in Path, NEW u \in User, NEW leaves \in LeafLists(h, e, u)
  PROVE  leaves \in LeafList
<1> DEFINE One == [tag : {"domain", "endpoint", "login", "id"}, value : Host \cup Path \cup User]
           D == Leaf("domain", h)
           E == Leaf("endpoint", e)
           L == Leaf("login", u)
           I == Leaf("id", u)
<1>1. D \in One /\ E \in One /\ L \in One /\ I \in One
  BY DEF Leaf
<1>2. \A v \in User : Leaf("id", v) \in One /\ Leaf("login", v) \in One
  BY DEF Leaf
<1>3. \/ leaves \in {<<D, E, L, I>>, <<D, E, I, L>>, <<D, E>>, <<D, E, L>>, <<D, E, I>>,
                    <<E, D, L, I>>, <<L, I, D, E>>}
      \/ \E v \in User : leaves = <<D, E, L, Leaf("id", v)>>
      \/ \E v \in User : leaves = <<D, E, Leaf("login", v), I>>
  BY DEF LeafLists
<1> HIDE DEF One, D, E, L, I
<1>4. ASSUME NEW x \in One, NEW y \in One, NEW z \in One, NEW w \in One
      PROVE  <<x, y>> \in Seq(One) /\ <<x, y, z>> \in Seq(One) /\ <<x, y, z, w>> \in Seq(One)
  OBVIOUS
<1>5. leaves \in Seq(One)
  <2>1. CASE leaves \in {<<D, E, L, I>>, <<D, E, I, L>>, <<D, E>>, <<D, E, L>>, <<D, E, I>>,
                         <<E, D, L, I>>, <<L, I, D, E>>}
    <3>1. CASE leaves \in {<<D, E, L, I>>, <<D, E, I, L>>, <<E, D, L, I>>, <<L, I, D, E>>}
      BY <1>1, <1>4, <3>1
    <3>2. CASE leaves \in {<<D, E>>, <<D, E, L>>, <<D, E, I>>}
      BY <1>1, <1>4, <3>2
    <3> QED
      BY <2>1, <3>1, <3>2
  <2>2. ASSUME NEW v \in User, leaves = <<D, E, L, Leaf("id", v)>> PROVE leaves \in Seq(One)
    BY <1>1, <1>2, <1>4, <2>2
  <2>3. ASSUME NEW v \in User, leaves = <<D, E, Leaf("login", v), I>> PROVE leaves \in Seq(One)
    BY <1>1, <1>2, <1>4, <2>3
  <2> QED
    BY <1>3, <2>1, <2>2, <2>3
<1> QED
  BY <1>5 DEF LeafList, One

\* A proof the notary signs names in its signature what it is about.
LEMMA EvmProofFacts ==
  ASSUME NEW s \in Session, NEW h \in Host, NEW e \in Path, NEW leaves \in LeafList,
         NEW d \in Deployment, NEW t \in 0..MaxTime, NEW signer \in Signer, NEW v \in VByte
  PROVE  LET p == EvmProof(s, h, e, leaves, d, t, signer, v)
         IN  /\ p \in Proof
             /\ p.signature.digest.session = p.session
             /\ p.signature.digest.root = p.root
             /\ p.signature.digest.timestamp = p.timestamp
BY DEF EvmProof, Proof, Signed, Digest, MerkleRoot

\* Altering a proof leaves its signature alone.
LEMMA AlteredFacts ==
  ASSUME NEW p \in Proof, NEW q \in {p} \cup Altered(p)
  PROVE  q \in Proof /\ q.signature = p.signature
<1> DEFINE short == SubSeq(p.leaves, 1, Len(p.leaves) - 1)
<1>1. short \in LeafList
  <2> DEFINE One == [tag : {"domain", "endpoint", "login", "id"},
                     value : Host \cup Path \cup User]
  <2>1. p.leaves \in Seq(One)
    BY DEF Proof, LeafList
  <2> HIDE DEF One
  <2>2. /\ 1 \in Int /\ Len(p.leaves) - 1 \in Int
        /\ \A i \in 1..(Len(p.leaves) - 1) : p.leaves[i] \in One
    BY <2>1
  <2>3. short \in Seq(One)
    BY ONLY <2>2, SubSeqProperties, Zenon
  <2> QED
    BY <2>3 DEF LeafList, One
<1>2. \/ q = p
      \/ \E h \in Host : q = [p EXCEPT !.domain = h]
      \/ \E e \in Path : q = [p EXCEPT !.endpoint = e]
      \/ \E s \in Session : q = [p EXCEPT !.session = s]
      \/ \E t \in 0..MaxTime : q = [p EXCEPT !.timestamp = t]
      \/ q = [p EXCEPT !.leaves = short]
      \/ q = [p EXCEPT !.root = short]
      \/ q = [p EXCEPT !.leaves = short, !.root = short]
  BY DEF Altered
<1> HIDE DEF short
<1> QED
  BY <1>1, <1>2 DEF Proof

(***************************************************************************)
(* The inductive invariant.                                                *)
(***************************************************************************)
\* The notary signs what it says.
SignaturesInv ==
  \A p \in issued : /\ p.signature.digest.session = p.session
                    /\ p.signature.digest.root = p.root
                    /\ p.signature.digest.timestamp = p.timestamp

\* A session that has read an answer is over.
UnansweredInv == \A s \in Session : pc[s] # "done" => answer[s] = None

\* What holds of sessions whatever they are run for, also when the module that
\* runs them only decides on that when it starts them.
RunInv == /\ SessionsOK /\ SignaturesInv /\ UnansweredInv
          /\ BundleIsBindable /\ BundleIsOwn /\ HonestAnswerAccepted

Inv == TypeOK /\ RunInv

\* No session has begun.
LEMMA RunInvInit ==
  ASSUME clock = 0, issued = {}, pc = [s \in Session |-> "start"],
         answer = [s \in Session |-> None], outcome = [s \in Session |-> None]
  PROVE  RunInv
<1>1. SessionsOK /\ SignaturesInv /\ UnansweredInv
  BY ProofFlowAssumption, NoneIsNoResult DEF SessionsOK, SignaturesInv, UnansweredInv, Outcome
<1>2. \A s \in Session : outcome[s] # "ok" /\ answer[s] = None
  BY NoneIsNoResult DEF Outcome
<1> QED
  BY <1>1, <1>2 DEF RunInv, BundleIsBindable, BundleIsOwn, HonestAnswerAccepted

\* What run may return for an answer it has read.
LEMMA ResultsFacts ==
  ASSUME NEW s, NEW attested, NEW p, NEW result \in Results(s, attested, p)
  PROVE  /\ result \in Outcome
         /\ result = "ok" => EverythingHolds(s, attested, p) /\ p.signature.v \in Normalized
         /\ EverythingHolds(s, attested, p) /\ p.signature.v \in Normalized =>
              result \in {"ok", "presentation_failed"}
<1>1. /\ Verdict(s, attested, p) = "ok" <=> EverythingHolds(s, attested, p)
      /\ Verdict(s, attested, p) \in Outcome
  BY VerdictFacts
<1> DEFINE verdict == Verdict(s, attested, p)
           known == p.signature.v \in Normalized
<1>2. \/ result = IF verdict = "ok" /\ ~known THEN "panicked" ELSE verdict
      \/ result = "presentation_failed"
      \/ result = "signature" /\ ~known
  BY DEF Results
<1> HIDE DEF verdict
<1> QED
  BY <1>1, <1>2 DEF Outcome, verdict

\* The answer of an unbroken notary passes everything.
LEMMA HonestFacts ==
  ASSUME NEW s \in Session, NEW attested \in Session, NEW p \in Proof,
         Honest(s, [attested |-> attested, proof |-> p, at |-> clock])
  PROVE  EverythingHolds(s, attested, p) /\ p.signature.v \in Normalized
<1> DEFINE r == [attested |-> attested, proof |-> p, at |-> clock]
           L == p.leaves
<1>1. /\ attested = s /\ DriftAt(r) < MaxDrift
      /\ Len(L) = 4 /\ L[1] = Leaf("domain", ApiHost) /\ L[2] = Leaf("endpoint", UserInfoPath)
      /\ {L[3], L[4]} = {Leaf("login", request[s].user), Leaf("id", request[s].user)}
  BY DEF Honest, FreshAt
<1>2. PICK v \in Normalized :
        p = EvmProof(s, ApiHost, UserInfoPath, L, Here, p.timestamp, Notary, v)
  BY DEF Honest
<1>3. /\ p.session = s /\ p.domain = ApiHost /\ p.endpoint = UserInfoPath /\ p.root = L
      /\ p.signature = [by |-> Notary, v |-> v,
                        digest |-> Digest(Here, ApiHost, s, L, p.timestamp)]
  BY <1>2 DEF EvmProof, MerkleRoot
<1>4. FreshTimestamp(p)
  BY <1>1 DEF DriftAt, FreshTimestamp, Drift
<1>5. DOMAIN L = 1..4
  BY <1>1 DEF Proof, LeafList
<1> HIDE DEF L
<1>6. CommonHolds(p)
  <2>1. RootRecomputes(p) /\ Recovers(p)
    BY <1>3 DEF RootRecomputes, MerkleRoot, Recovers, L
  <2>2. LeafAt(p, 1, Leaf("domain", p.domain)) /\ LeafAt(p, 2, Leaf("endpoint", p.endpoint))
    BY <1>1, <1>3, <1>5 DEF LeafAt, L
  <2> QED
    BY <1>1, <1>3, <2>1, <2>2 DEF CommonHolds, L
<1>7. \E i \in 3..Len(p.leaves) : LeafAt(p, i, Leaf("login", request[s].user))
  <2>1. \E i \in {3, 4} : L[i] = Leaf("login", request[s].user)
    BY <1>1
  <2> QED
    BY <1>1, <1>5, <2>1 DEF LeafAt, L
<1>8. \E i \in DOMAIN p.leaves : LeafAt(p, i, Leaf("id", request[s].user))
  <2>1. \E i \in {3, 4} : L[i] = Leaf("id", request[s].user)
    BY <1>1
  <2> QED
    BY <1>5, <2>1 DEF LeafAt, L
<1> QED
  BY <1>1, <1>3, <1>4, <1>6, <1>7, <1>8 DEF EverythingHolds, SameHandshake

\* A session keeps its request, and what it has returned, through every step that
\* is not its own: with them go its bundle and what is said of its answer.
LEMMA Untouched ==
  ASSUME NEW s \in Session, request'[s] = request[s], answer'[s] = answer[s]
  PROVE  Bundle(s)' = Bundle(s) /\ (Honest(s, answer[s])' <=> Honest(s, answer[s]))
BY DEF Bundle, Assemble, AssembleWith, SessionAddress, Honest, FreshAt, DriftAt, EvmProof

\* A session that reads an answer keeps the invariant, whatever it has read.
LEMMA RespondStep ==
  ASSUME RunInv, NEW s \in Session, NEW attested \in Session, NEW p \in issued,
         NEW q \in {p} \cup Altered(p), Respond(s, attested, q)
  PROVE  RunInv'
<1> USE DEF RunInv
<1>1. /\ pc[s] = "awaiting" /\ UNCHANGED <<clock, request, issued>>
      /\ answer' = [answer EXCEPT ![s] = [attested |-> attested, proof |-> q, at |-> clock]]
  BY DEF Respond
<1>2. PICK result \in Results(s, attested, q) : Return(s, result)
  BY DEF Respond
<1>3. p \in Proof /\ q \in Proof /\ q.signature = p.signature
  BY AlteredFacts DEF SessionsOK
<1>4. /\ result \in Outcome
      /\ result = "ok" => EverythingHolds(s, attested, q) /\ q.signature.v \in Normalized
      /\ EverythingHolds(s, attested, q) /\ q.signature.v \in Normalized =>
           result \in {"ok", "presentation_failed"}
  BY ResultsFacts
<1>5. /\ answer'[s] = [attested |-> attested, proof |-> q, at |-> clock]
      /\ outcome'[s] = result /\ pc'[s] = "done"
      /\ \A j \in Session : j # s => /\ answer'[j] = answer[j] /\ outcome'[j] = outcome[j]
                                    /\ pc'[j] = pc[j]
  BY <1>1, <1>2 DEF SessionsOK, Return
<1>6. SessionsOK'
  <2>1. [attested |-> attested, proof |-> q, at |-> clock] \in Answer
    BY <1>3 DEF SessionsOK, Answer
  <2>2. /\ pc' \in [Session -> {"start", "awaiting", "done"}]
        /\ outcome' \in [Session -> Outcome \cup {None}]
    BY <1>2, <1>4 DEF SessionsOK, Return
  <2>3. answer' \in [Session -> Answer \cup {None}]
    BY <1>1, <2>1 DEF SessionsOK
  <2>4. \A j \in Session : /\ (outcome'[j] # None) <=> (pc'[j] = "done")
                           /\ outcome'[j] = "ok" => answer'[j] # None
    BY <1>4, <1>5, <2>1, NoneIsNoResult DEF SessionsOK
  <2> QED
    BY <1>1, <2>2, <2>3, <2>4 DEF SessionsOK
<1>7. SignaturesInv' /\ UnansweredInv'
  BY <1>1, <1>5 DEF SignaturesInv, UnansweredInv
<1>8. Bundle(s)' = Assemble(s, q)
  BY <1>1, <1>5 DEF Bundle, Assemble, AssembleWith, SessionAddress
<1>9. \A j \in Session : j # s =>
        Bundle(j)' = Bundle(j) /\ (Honest(j, answer[j])' <=> Honest(j, answer[j]))
  BY <1>1, <1>5, Untouched
<1>10. BundleIsBindable'
  <2>1. result = "ok" => ContractAccepts(Assemble(s, q))
    BY <1>3, <1>4, AssembleFacts
  <2> QED
    BY <1>5, <1>8, <1>9, <2>1 DEF BundleIsBindable, ContractAccepts
<1>11. BundleIsOwn'
  <2>1. ASSUME result = "ok"
        PROVE  /\ attested = s /\ Assemble(s, q).session = s
               /\ p.session = s /\ p.root = Assemble(s, q).root
               /\ p.timestamp = Assemble(s, q).timestamp
    <3>1. /\ attested = s /\ q.session = s
          /\ q.signature.digest = Digest(Here, q.domain, q.session, q.root, q.timestamp)
      BY <1>4, <2>1 DEF EverythingHolds, SameHandshake, CommonHolds, Recovers
    <3>2. p.session = s /\ p.root = q.root /\ p.timestamp = q.timestamp
      BY <1>3, <3>1 DEF SignaturesInv, Digest
    <3> QED
      BY <3>1, <3>2 DEF Assemble, AssembleWith
  <2>2. /\ answer'[s].attested = attested /\ issued' = issued
    BY <1>1, <1>5
  <2> QED
    BY <1>5, <1>8, <1>9, <2>1, <2>2 DEF BundleIsOwn
<1>12. HonestAnswerAccepted'
  <2>1. ASSUME Honest(s, answer[s])' PROVE result \in {"ok", "presentation_failed"}
    <3>1. Honest(s, [attested |-> attested, proof |-> q, at |-> clock])
      BY <1>1, <1>5, <2>1 DEF Honest, FreshAt, DriftAt, EvmProof
    <3> QED
      BY <1>3, <1>4, <3>1, HonestFacts
  <2> QED
    BY <1>5, <1>9, <2>1 DEF HonestAnswerAccepted
<1> QED
  BY <1>6, <1>7, <1>10, <1>11, <1>12

\* The steps in which no answer is read.
LEMMA QuietStep ==
  ASSUME RunInv,
         \/ \E s \in Session : BadKey(s) \/ Prove(s) \/ SessionFails(s)
         \/ \E s \in Session : NotarySigns(s) /\ request[s].user \in User
         \/ Tick
         \/ UNCHANGED vars
  PROVE  RunInv'
<1> USE DEF RunInv
<1>1. /\ UNCHANGED <<request, answer>>
      /\ issued \subseteq issued'
      /\ \A s \in Session : \/ outcome'[s] = outcome[s] /\ (pc'[s] = "done" <=> pc[s] = "done")
                            \/ /\ pc[s] # "done" /\ pc'[s] = "done"
                               /\ outcome'[s] \in {"crypto_failed", "session_failed"}
  BY DEF BadKey, Prove, SessionFails, NotarySigns, Tick, vars, Return, SessionsOK
<1>2. issued' \subseteq Proof /\ SignaturesInv'
  <2>1. ASSUME NEW s \in Session, NotarySigns(s), request[s].user \in User
        PROVE  issued' \subseteq Proof /\ SignaturesInv'
    <3>1. PICK h \in Host, e \in Path, d \in Deployment, t \in 0..MaxTime, signer \in Signer,
               v \in VByte : \E leaves \in LeafLists(h, e, request[s].user) :
                 issued' = issued \cup {EvmProof(s, h, e, leaves, d, t, signer, v)}
      BY <2>1 DEF NotarySigns
    <3>2. PICK leaves \in LeafLists(h, e, request[s].user) :
                 issued' = issued \cup {EvmProof(s, h, e, leaves, d, t, signer, v)}
      BY <3>1
    <3>4. leaves \in LeafList
      BY <2>1, <3>2, LeafListFacts
    <3> DEFINE p == EvmProof(s, h, e, leaves, d, t, signer, v)
    <3>5. /\ p \in Proof
          /\ p.signature.digest.session = p.session
          /\ p.signature.digest.root = p.root
          /\ p.signature.digest.timestamp = p.timestamp
      BY <3>4, EvmProofFacts
    <3>6. issued' = issued \cup {p}
      BY <3>2
    <3> HIDE DEF p
    <3> QED
      BY <3>5, <3>6 DEF SessionsOK, SignaturesInv
  <2>2. CASE UNCHANGED issued
    BY <2>2 DEF SessionsOK, SignaturesInv
  <2> QED
    BY <2>1, <2>2 DEF BadKey, Prove, SessionFails, Tick, vars
<1>3. SessionsOK'
  <2>1. clock' \in 0..MaxTime
    BY ProofFlowAssumption
       DEF SessionsOK, BadKey, Prove, SessionFails, NotarySigns, Tick, vars
  <2>2. /\ pc' \in [Session -> {"start", "awaiting", "done"}]
        /\ outcome' \in [Session -> Outcome \cup {None}]
    BY DEF SessionsOK, BadKey, Prove, SessionFails, NotarySigns, Tick, vars, Return, Outcome
  <2>3. \A s \in Session : /\ (outcome'[s] # None) <=> (pc'[s] = "done")
                           /\ outcome'[s] = "ok" => answer'[s] # None
    BY <1>1, NoneIsNoResult DEF SessionsOK, Outcome
  <2> QED
    BY <1>1, <1>2, <2>1, <2>2, <2>3 DEF SessionsOK
<1>4. UnansweredInv'
  BY <1>1 DEF UnansweredInv
<1>5. \A s \in Session : Bundle(s)' = Bundle(s) /\ (Honest(s, answer[s])' <=> Honest(s, answer[s]))
  BY <1>1, Untouched
<1>6. BundleIsBindable' /\ BundleIsOwn'
  <2>1. \A s \in Session : outcome'[s] = "ok" => outcome[s] = "ok"
    BY <1>1
  <2> QED
    BY <1>1, <1>5, <2>1 DEF BundleIsBindable, BundleIsOwn, ContractAccepts
<1>7. HonestAnswerAccepted'
  <2>1. \A s \in Session : answer'[s] # None => outcome'[s] = outcome[s]
    BY <1>1 DEF UnansweredInv
  <2> QED
    BY <1>1, <1>5, <2>1 DEF HonestAnswerAccepted
<1> QED
  BY <1>2, <1>3, <1>4, <1>6, <1>7

\* Sessions are not disturbed when the modules around them decide what those that
\* have not begun are run for.
LEMMA ElsewhereStep ==
  ASSUME RunInv, UNCHANGED <<clock, pc, issued, answer, outcome>>,
         \A s \in Session : pc[s] = "start" \/ request'[s] = request[s]
  PROVE  RunInv'
<1> USE DEF RunInv
<1>1. SessionsOK' /\ SignaturesInv' /\ UnansweredInv'
  BY DEF SessionsOK, SignaturesInv, UnansweredInv
<1>2. ASSUME NEW s \in Session, pc[s] = "done"
      PROVE  Bundle(s)' = Bundle(s) /\ (Honest(s, answer[s])' <=> Honest(s, answer[s]))
  BY <1>2, Untouched
<1>3. \A s \in Session : outcome[s] = "ok" \/ answer[s] # None => pc[s] = "done"
  BY NoneIsNoResult DEF SessionsOK, UnansweredInv, Outcome
<1> QED
  BY <1>1, <1>2, <1>3 DEF BundleIsBindable, BundleIsOwn, HonestAnswerAccepted, ContractAccepts

(***************************************************************************)
(* The theorems.                                                           *)
(***************************************************************************)
\* What follows from every check of a session, taken together, holds throughout.
THEOREM Invariance == Spec => []Inv
<1>1. Init => Inv
  <2>1. Init => RunInv
    BY RunInvInit DEF Init
  <2> QED
    BY <2>1 DEF Init, Inv, RunInv, TypeOK
<1>2. Inv /\ [Next]_vars => Inv'
  <2> SUFFICES ASSUME Inv, [Next]_vars PROVE Inv'
    OBVIOUS
  <2>a. RunInv /\ \A s \in Session : request[s].user \in User
    BY DEF Inv, TypeOK, Request
  <2>1. ASSUME NEW s \in Session, NEW attested \in Session, NEW p \in issued,
               NEW q \in {p} \cup Altered(p), Respond(s, attested, q)
        PROVE  RunInv'
    BY <2>1, <2>a, RespondStep
  <2>2. ASSUME \/ \E s \in Session : BadKey(s) \/ Prove(s) \/ SessionFails(s) \/ NotarySigns(s)
               \/ Tick
               \/ UNCHANGED vars
        PROVE  RunInv'
    BY <2>2, <2>a, QuietStep
  <2>3. RunInv'
    BY <2>1, <2>2 DEF Next
  <2>4. UNCHANGED request
    BY DEF Next, BadKey, Prove, SessionFails, NotarySigns, Respond, Tick, vars
  <2> QED
    BY <2>3, <2>4 DEF Inv, RunInv, TypeOK
<1> QED
  BY <1>1, <1>2, PTL DEF Spec

\* Every variable keeps its type, whatever the notary answers.
THEOREM TypeCorrect == Spec => []TypeOK
BY Invariance, PTL DEF Inv, RunInv

\* Every bundle that is handed out is one the contract accepts.
THEOREM BundlesAreBindable == Spec => []BundleIsBindable
BY Invariance, PTL DEF Inv, RunInv

\* Concurrent sessions never trade proofs, however the notary mixes them up.
THEOREM BundlesAreOwn == Spec => []BundleIsOwn
BY Invariance, PTL DEF Inv, RunInv

\* No check refuses the answer of an unbroken notary.
THEOREM HonestAnswersAccepted == Spec => []HonestAnswerAccepted
BY Invariance, PTL DEF Inv, RunInv
=============================================================================
