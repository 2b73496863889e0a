------------------------- MODULE CompositionProofs -------------------------
(***************************************************************************)
(* Proofs about the two modules that put something next to ClaimFlow:      *)
(* ClaimProving, where tasks are proving sessions, and PopupPage, where    *)
(* callbacks are seen in browsers.  A step of either is a step of          *)
(* ClaimFlow or leaves its state alone, so what is proved of every         *)
(* behaviour there holds of every behaviour of both.                       *)
(***************************************************************************)
EXTENDS ClaimProving, PopupPage, ClaimFlowProofs

(***************************************************************************)
(* ClaimProving.  Its sessions are sessions of ProofFlow but for one       *)
(* thing: what a session is run for is only decided when it starts, so the *)
(* lemmas about their steps are used and not the theorems about their      *)
(* behaviours.  What ties the two together is proved here, and with it     *)
(* that a bundle served is a good one.                                     *)
(***************************************************************************)
PP == INSTANCE ProofFlowProofs WITH Session <- Callback, Key <- Pubkey, request <- RunArguments

\* A step of the composition is a step of ClaimFlow, or leaves its state alone.
LEMMA TaskStepIsClaimStep == [CPNext]_pvars => [Next]_vars
<1> SUFFICES ASSUME [CPNext]_pvars PROVE [Next]_vars
  OBVIOUS
<1>1. ASSUME NEW c \in Challenge, NEW u \in User, Approve(c, u) PROVE [Next]_vars
  BY <1>1 DEF Approve, Next
<1>2. ASSUME NEW k \in Callback, Exchange(k) PROVE [Next]_vars
  BY <1>2 DEF Exchange, Next, Finishing
<1>3. ASSUME NEW k \in Callback, ConnectFails(k) PROVE [Next]_vars
  BY <1>3 DEF ConnectFails, Next, Finishing
<1>4. ASSUME NEW k \in Callback, Run(k) PROVE [Next]_vars
  BY <1>4 DEF Run
<1>5. ASSUME NEW k \in Callback, NotarySigns(k) PROVE [Next]_vars
  BY <1>5 DEF NotarySigns
<1>6. ASSUME NEW k \in Callback, Reports(k) PROVE [Next]_vars
  BY <1>6 DEF Reports, Next, Finishing
<1>7. CASE ElsewhereInClaim
  BY <1>7 DEF ElsewhereInClaim, Next, Finishing
<1>8. CASE WallClock
  BY <1>8 DEF WallClock
<1>9. CASE UNCHANGED pvars
  BY <1>9 DEF pvars
<1> QED
  BY <1>1, <1>2, <1>3, <1>4, <1>5, <1>6, <1>7, <1>8, <1>9 DEF CPNext

\* By the way its actions are written, the composition takes no step that ClaimFlow
\* does not.
LEMMA ProvingClaim == CPSpec => Spec
<1>1. CPInit => Init
  BY DEF CPInit
<1> QED
  BY <1>1, TaskStepIsClaimStep, PTL DEF CPSpec, Spec

\* So what relates the maps, the handlers and the tasks holds in the composition.
THEOREM CompositionInvariance == CPSpec => []Inv
  BY ProvingClaim, Invariance, PTL

(***************************************************************************)
(* The sessions of the composition are those ProofFlowProofs is about.     *)
(***************************************************************************)
\* What it assumes of its constants, the composition assumes of its own.
LEMMA SessionConstants == PP!ProofFlowAssumption /\ PP!NoneIsNoResult
<1>1. P!Outcome = PP!Outcome
  BY DEF P!Outcome, PP!Outcome
<1>2. P!Answer = PP!Answer
  BY DEF P!Answer, P!Proof, P!Signed, P!LeafList, PP!Answer, PP!Proof, PP!Signed, PP!LeafList
<1> QED
  BY <1>1, <1>2, ProvingAssumption DEF PP!ProofFlowAssumption, PP!NoneIsNoResult

\* The bundle of a session, and what the contract makes of it.
LEMMA SameBundles ==
  /\ \A k \in Callback : P!Bundle(k) = PP!Bundle(k)
  /\ \A b : P!ContractAccepts(b) <=> PP!ContractAccepts(b)
BY DEF P!Bundle, P!Assemble, P!AssembleWith, P!SessionAddress, P!Position, P!Min, P!Leaf,
       P!MerkleProof, P!SolidityV, P!ContractAccepts, P!Digest, P!MerkleVerify,
       PP!Bundle, PP!Assemble, PP!AssembleWith, PP!SessionAddress, PP!Position, PP!Min, PP!Leaf,
       PP!MerkleProof, PP!SolidityV, PP!ContractAccepts, PP!Digest, PP!MerkleVerify

\* What run may return.
LEMMA SameResults ==
  ASSUME NEW k, NEW attested, NEW p
  PROVE  P!Results(k, attested, p) = PP!Results(k, attested, p)
<1>1. P!CommonChecks(p) = PP!CommonChecks(p)
  BY DEF P!CommonChecks, P!FirstFailure, P!Min, P!Check, P!LeafAt, P!Leaf,
         P!RootRecomputes, P!MerkleRoot, P!Recovers, P!Digest,
         PP!CommonChecks, PP!FirstFailure, PP!Min, PP!Check, PP!LeafAt, PP!Leaf, PP!RootRecomputes,
         PP!MerkleRoot, PP!Recovers, PP!Digest
<1>2. P!Verdict(k, attested, p) = PP!Verdict(k, attested, p)
  BY <1>1 DEF P!Verdict, P!Verify, P!AndThen, P!FirstFailure, P!Min, P!Check, P!SameHandshake,
              P!FreshTimestamp, P!Drift, P!LeafAt, P!Leaf,
              PP!Verdict, PP!Verify, PP!AndThen, PP!FirstFailure, PP!Min, PP!Check,
              PP!SameHandshake, PP!FreshTimestamp, PP!Drift, PP!LeafAt, PP!Leaf
<1> QED
  BY <1>2 DEF P!Results, P!Normalized, PP!Results, PP!Normalized

\* The answers a session may be given.
LEMMA SameAlterations == \A p : P!Altered(p) = PP!Altered(p)
BY DEF P!Altered, PP!Altered

\* What a session does when it reads an answer.
LEMMA SameRespond ==
  ASSUME NEW k \in Callback, NEW attested, NEW p, P!Respond(k, attested, p)
  PROVE  PP!Respond(k, attested, p)
BY SameResults DEF P!Respond, P!Return, PP!Respond, PP!Return

\* What it does otherwise.
LEMMA SameQuiet ==
  ASSUME NEW k \in Callback, P!BadKey(k) \/ P!Prove(k) \/ P!SessionFails(k)
  PROVE  PP!BadKey(k) \/ PP!Prove(k) \/ PP!SessionFails(k)
BY DEF P!BadKey, P!Prove, P!SessionFails, P!Return, PP!BadKey, PP!Prove, PP!SessionFails,
       PP!Return

\* What the notary does.
LEMMA SameSigns == ASSUME NEW k \in Callback, P!NotarySigns(k) PROVE PP!NotarySigns(k)
BY DEF P!NotarySigns, P!LeafLists, P!Leaf, P!EvmProof, P!MerkleRoot, P!Digest,
       PP!NotarySigns, PP!LeafLists, PP!Leaf, PP!EvmProof, PP!MerkleRoot, PP!Digest

(***************************************************************************)
(* The inductive invariant: what ClaimFlow and ProofFlow know of their own *)
(* state, and what ties a session to the task that runs it.                *)
(***************************************************************************)
\* The token of a task is for someone who approved the claim's own auth_url.
UsersInv ==
  /\ approvers \in [Challenge -> SUBSET User]
  /\ account \in [Callback -> User \cup {None}]
  /\ \A k \in Callback : task[k] # "none" => account[k] \in approvers[cb[k].challenge]

\* A session begins with its task, on a key that is a curve point if it gets as
\* far as the notary; a task that reports a bundle has one.
TasksInv ==
  \A k \in Callback : /\ pc[k] # "start" => task[k] # "none"
                      /\ task[k] = "complete" => outcome[k] = "ok"
                      /\ pc[k] = "awaiting" \/ outcome[k] = "ok" => cb[k].pubkey \notin OffCurve

CPInv == Inv /\ PP!RunInv /\ UsersInv /\ TasksInv

\* No session has begun and nobody has approved anything.
LEMMA CPInvInit == CPInit => CPInv
<1> SUFFICES ASSUME CPInit PROVE CPInv
  OBVIOUS
<1>1. Inv
  BY InvInit DEF CPInit
<1>2. PP!RunInv
  BY SessionConstants, PP!RunInvInit DEF CPInit
<1>3. UsersInv /\ TasksInv
  <2>1. \A k \in Callback : task[k] = "none" /\ pc[k] = "start" /\ outcome[k] # "ok"
    BY ProvingAssumption DEF CPInit, Init, P!Outcome
  <2> QED
    BY <2>1 DEF CPInit, UsersInv, TasksInv
<1> QED
  BY <1>1, <1>2, <1>3 DEF CPInv

\* A callback that has begun keeps what it consumed, and its task does not come back.
LEMMA CallbackKept ==
  ASSUME TypeOK, [Next]_vars, NEW k \in Callback, cb[k].pc # "idle"
  PROVE  /\ cb'[k].challenge = cb[k].challenge /\ cb'[k].pubkey = cb[k].pubkey
         /\ cb'[k].wallet = cb[k].wallet
         /\ task[k] # "none" => task'[k] # "none"
<1>1. CASE \E c \in Challenge : Minting(c) \/ Authorize(c)
  BY <1>1 DEF Minting, ChallengeGithub, CreateChallenge, CreateSlot, MintDropped, Authorize
<1>2. ASSUME NEW j \in Callback, CallbackGithub(j) PROVE cb'[k] = cb[k] /\ task' = task
  <2>1. cb[j].pc = "idle" /\ \E r : cb' = [cb EXCEPT ![j] = r]
    BY <1>2 DEF CallbackGithub, CallbackBadState, CallbackUnknown, CallbackGone, CallbackMismatch,
                CallbackDeclined, CallbackCode, Take, Refuse, Arrives
  <2>2. task' = task
    BY <1>2 DEF CallbackGithub, CallbackBadState, CallbackUnknown, CallbackGone, CallbackMismatch,
                CallbackDeclined, CallbackCode, Take, Arrives
  <2> QED
    BY <2>1, <2>2 DEF TypeOK
<1>3. ASSUME NEW j \in Callback, Finishing(j)
      PROVE  /\ cb' = cb \/ \E next : Reach(j, next)
             /\ task' = task \/ \E end \in TaskState \ {"none"} : task' = [task EXCEPT ![j] = end]
  BY <1>3 DEF Finishing, ReportDeclined, ExchangeOk, ExchangeErr, CallbackDropped, TaskComplete,
              TaskFails, TaskPanics, TaskEnds, TaskState
<1>4. ASSUME NEW j \in Callback, Finishing(j)
      PROVE  /\ cb'[k].challenge = cb[k].challenge /\ cb'[k].pubkey = cb[k].pubkey
             /\ cb'[k].wallet = cb[k].wallet
             /\ task[k] # "none" => task'[k] # "none"
  BY <1>3, <1>4 DEF Reach, TypeOK, CallbackRecord
<1>5. CASE Exit \/ Crash
  BY <1>5 DEF Exit, Crash, ProcessEnds, TypeOK, CallbackRecord
<1>6. CASE Tick \/ Shutdown \/ ClientsDone \/ Start \/ UNCHANGED vars
  BY <1>6 DEF Tick, Shutdown, ClientsDone, Start, vars
<1> QED
  BY <1>1, <1>2, <1>4, <1>5, <1>6 DEF Next

\* A step of the claim disturbs no session, and no account once a task has it.
LEMMA ElsewhereKeeps ==
  ASSUME CPInv, [Next]_vars, UNCHANGED proving,
         \A k \in Callback : account'[k] = account[k] \/ task[k] = "none",
         \A k \in Callback : task'[k] = "complete" => task[k] = "complete" \/ outcome[k] = "ok"
  PROVE  PP!RunInv' /\ TasksInv'
<1>1. ASSUME NEW k \in Callback, task[k] # "none"
      PROVE  cb'[k].pubkey = cb[k].pubkey /\ cb'[k].wallet = cb[k].wallet /\ task'[k] # "none"
  BY <1>1, CallbackKept DEF CPInv, Inv, HoldersInv, HolderOk
<1>2. \A k \in Callback : task[k] = "none" => pc[k] = "start" /\ outcome[k] # "ok"
  <2>1. \A k \in Callback : outcome[k] # None <=> pc[k] = "done"
    BY DEF CPInv, PP!RunInv, PP!SessionsOK
  <2>2. None # "ok"
    BY ProvingAssumption DEF P!Outcome
  <2> QED
    BY <2>1, <2>2 DEF CPInv, TasksInv
<1>3. \A k \in Callback : pc[k] = "start" \/ RunArguments'[k] = RunArguments[k]
  BY <1>1, <1>2 DEF RunArguments
<1>4. PP!RunInv'
  <2>1. UNCHANGED <<clock, pc, issued, answer, outcome>>
    BY DEF proving
  <2> QED
    BY <1>3, <2>1, SessionConstants, PP!ElsewhereStep DEF CPInv
<1>5. TasksInv'
  <2>1. pc' = pc /\ outcome' = outcome
    BY DEF proving
  <2> QED
    BY <1>1, <1>2, <2>1 DEF CPInv, TasksInv
<1> QED
  BY <1>4, <1>5

\* Nor does it take back an approval or a token.
LEMMA UsersKept ==
  ASSUME CPInv, [Next]_vars, account' = account, approvers' \in [Challenge -> SUBSET User],
         \A c \in Challenge : approvers[c] \subseteq approvers'[c],
         \A k \in Callback : task'[k] # "none" => task[k] # "none"
  PROVE  UsersInv'
<1>1. ASSUME NEW k \in Callback, task[k] # "none"
      PROVE  cb'[k].challenge = cb[k].challenge /\ cb[k].challenge \in Challenge
  BY <1>1, CallbackKept DEF CPInv, Inv, HoldersInv, HolderOk, Holds
<1> QED
  BY <1>1 DEF CPInv, UsersInv

\* A step of a session changes nothing but the session.
LEMMA SessionKeeps ==
  ASSUME CPInv, UNCHANGED <<vars, approvers, account>>, PP!RunInv', TasksInv'
  PROVE  CPInv'
<1>1. Inv'
  BY InvNext DEF CPInv
<1>2. UsersInv'
  BY DEF CPInv, UsersInv, vars
<1> QED
  BY <1>1, <1>2 DEF CPInv

\* A token is for someone who approved the auth_url of the claim itself: GitHub
\* grants one only for a code tied to the verifier of the consumed challenge.
LEMMA ExchangeStep ==
  ASSUME CPInv, NEW k \in Callback, Exchange(k)
  PROVE  CPInv'
<1>1. [Next]_vars
  BY DEF Exchange, Next, Finishing
<1>2. Inv'
  BY <1>1, InvNext DEF CPInv
<1>3. /\ cb[k].pc = "exchanging" /\ TokenGranted(k) /\ UNCHANGED <<approvers, proving>>
      /\ task' = [task EXCEPT ![k] = "running"]
  BY DEF Exchange, ExchangeOk
<1>4. cb[k].code = cb[k].challenge /\ cb[k].challenge \in Challenge /\ task[k] = "none"
  BY <1>3 DEF TokenGranted, CPInv, Inv, HoldersInv, HolderOk, Carries, Holds
<1>5. PICK u \in approvers[cb[k].challenge] : account' = [account EXCEPT ![k] = u]
  BY <1>4 DEF Exchange
<1>6. u \in User
  BY <1>4, <1>5 DEF CPInv, UsersInv
<1>7. PP!RunInv' /\ TasksInv'
  <2>1. \A j \in Callback : account'[j] = account[j] \/ task[j] = "none"
    BY <1>4, <1>5 DEF CPInv, UsersInv
  <2>2. \A j \in Callback : task'[j] = "complete" => task[j] = "complete"
    BY <1>3 DEF CPInv, Inv, TypeOK
  <2> QED
    BY <1>1, <1>3, <2>1, <2>2, ElsewhereKeeps
<1>8. UsersInv'
  <2>1. cb'[k].challenge = cb[k].challenge
    BY <1>1, <1>3, CallbackKept DEF CPInv, Inv
  <2>2. ASSUME NEW j \in Callback, j # k, task'[j] # "none"
        PROVE  /\ account'[j] = account[j] /\ task[j] # "none"
               /\ cb'[j].challenge = cb[j].challenge
    <3>1. task[j] # "none" /\ account'[j] = account[j]
      BY <1>3, <1>5, <2>2 DEF CPInv, Inv, TypeOK, UsersInv
    <3> QED
      BY <1>1, <3>1, CallbackKept DEF CPInv, Inv, HoldersInv, HolderOk
  <2>3. account'[k] = u /\ account' \in [Callback -> User \cup {None}]
    BY <1>5, <1>6 DEF CPInv, UsersInv
  <2> QED
    BY <1>3, <1>5, <2>1, <2>2, <2>3 DEF CPInv, UsersInv
<1> QED
  BY <1>2, <1>7, <1>8 DEF CPInv

\* A session takes a step: it only runs while its task does, and it gets past its
\* start on a curve point only.
LEMMA RunStep ==
  ASSUME CPInv, NEW k \in Callback, Run(k)
  PROVE  CPInv'
<1>1. task[k] = "running" /\ UNCHANGED <<vars, approvers, account>>
  BY DEF Run
<1>2. RunArguments' = RunArguments /\ cb' = cb /\ task' = task
  BY <1>1 DEF RunArguments, vars
<1>3. /\ pc \in [Callback -> {"start", "awaiting", "done"}]
      /\ outcome \in [Callback -> PP!Outcome \cup {None}]
  BY DEF CPInv, PP!RunInv, PP!SessionsOK
<1>4. ASSUME P!BadKey(k) \/ P!Prove(k) \/ P!SessionFails(k) PROVE PP!RunInv' /\ TasksInv'
  <2>1. PP!RunInv'
    <3>1. \E j \in Callback : PP!BadKey(j) \/ PP!Prove(j) \/ PP!SessionFails(j)
      BY <1>4, SameQuiet
    <3> QED
      BY <3>1, SessionConstants, PP!QuietStep DEF CPInv
  <2>2. TasksInv'
    BY <1>1, <1>2, <1>3, <1>4
       DEF CPInv, TasksInv, P!BadKey, P!Prove, P!SessionFails, P!Return, RunArguments
  <2> QED
    BY <2>1, <2>2
<1>5. ASSUME NEW attested \in Callback, NEW p \in issued, NEW q \in {p} \cup P!Altered(p),
             P!Respond(k, attested, q)
      PROVE  PP!RunInv' /\ TasksInv'
  <2>1. PP!RunInv'
    BY <1>5, SameRespond, SameAlterations, SessionConstants, PP!RespondStep DEF CPInv
  <2>2. TasksInv'
    BY <1>1, <1>2, <1>3, <1>5 DEF CPInv, TasksInv, P!Respond, P!Return
  <2> QED
    BY <2>1, <2>2
<1>6. PP!RunInv' /\ TasksInv'
  BY <1>4, <1>5 DEF Run
<1> QED
  BY <1>1, <1>6, SessionKeeps

\* The notary signs, or the clock ticks.
LEMMA NotaryStep ==
  ASSUME CPInv, WallClock \/ \E k \in Callback : NotarySigns(k)
  PROVE  CPInv'
<1>1. /\ UNCHANGED <<vars, approvers, account>>
      /\ P!Tick \/ \E k \in Callback : P!NotarySigns(k)
  BY DEF WallClock, NotarySigns
<1>2. PP!Tick \/ \E k \in Callback : PP!NotarySigns(k) /\ RunArguments[k].user \in User
  <2>1. ASSUME NEW k \in Callback, P!NotarySigns(k) PROVE account[k] \in User
    <3>1. task[k] # "none"
      BY <2>1 DEF P!NotarySigns, CPInv, TasksInv
    <3>2. account[k] \in approvers[cb[k].challenge] /\ cb[k].challenge \in Challenge
      BY <3>1 DEF CPInv, UsersInv, Inv, HoldersInv, HolderOk, Holds
    <3> QED
      BY <3>2 DEF CPInv, UsersInv
  <2>2. \A k \in Callback : RunArguments[k].user = account[k]
    BY DEF RunArguments
  <2>3. PP!Tick \/ \E k \in Callback : P!NotarySigns(k) /\ PP!NotarySigns(k)
    BY <1>1, SameSigns DEF P!Tick, PP!Tick
  <2> QED
    BY <2>1, <2>2, <2>3
<1>3. PP!RunInv'
  BY <1>2, SessionConstants, PP!QuietStep DEF CPInv
<1>4. TasksInv'
  BY <1>1 DEF CPInv, TasksInv, P!Tick, P!NotarySigns, vars
<1> QED
  BY <1>1, <1>3, <1>4, SessionKeeps

\* The rest: the user approves, a task reports, the claim moves on.
LEMMA ClaimStep ==
  ASSUME CPInv,
         \/ \E c \in Challenge, u \in User : Approve(c, u)
         \/ \E k \in Callback : ConnectFails(k) \/ Reports(k)
         \/ ElsewhereInClaim
         \/ UNCHANGED pvars
  PROVE  CPInv'
<1>1. [Next]_vars
  BY TaskStepIsClaimStep DEF CPNext
<1>2. Inv'
  BY <1>1, InvNext DEF CPInv
<1>3. account' = account /\ UNCHANGED proving
  BY DEF Approve, ConnectFails, Reports, ElsewhereInClaim, pvars
<1>4. /\ approvers' \in [Challenge -> SUBSET User]
      /\ \A c \in Challenge : approvers[c] \subseteq approvers'[c]
  <2>1. ASSUME NEW c \in Challenge, NEW u \in User, Approve(c, u)
        PROVE  /\ approvers' \in [Challenge -> SUBSET User]
               /\ \A d \in Challenge : approvers[d] \subseteq approvers'[d]
    BY <2>1 DEF Approve, CPInv, UsersInv
  <2>2. CASE approvers' = approvers
    BY <2>2 DEF CPInv, UsersInv
  <2> QED
    BY <2>1, <2>2 DEF ConnectFails, Reports, ElsewhereInClaim, pvars
<1>5. ASSUME NEW j \in Callback
      PROVE  /\ task'[j] # "none" => task[j] # "none"
             /\ task'[j] = "complete" => task[j] = "complete" \/ outcome[j] = "ok"
  <2>1. ASSUME NEW k \in Callback, ConnectFails(k) \/ Reports(k)
        PROVE  /\ task[k] = "running" /\ \E end : task' = [task EXCEPT ![k] = end]
               /\ task'[k] = "complete" => outcome[k] = "ok"
    BY <2>1 DEF ConnectFails, Reports, TaskFails, TaskComplete, TaskPanics, TaskEnds, CPInv, Inv,
                TypeOK
  <2>2. CASE \E k \in Callback : ConnectFails(k) \/ Reports(k)
    BY <2>1, <2>2 DEF CPInv, Inv, TypeOK
  <2>3. CASE ElsewhereInClaim
    <3>1. \/ task' = task
          \/ task' = [k \in Callback |-> IF task[k] = "running" THEN "aborted" ELSE task[k]]
      BY <2>3 DEF ElsewhereInClaim, Minting, ChallengeGithub, CreateChallenge, CreateSlot,
                  MintDropped, CallbackGithub, CallbackBadState, CallbackUnknown, CallbackGone,
                  CallbackMismatch, CallbackDeclined, CallbackCode, Take, Arrives, ReportDeclined,
                  ExchangeErr, CallbackDropped, Tick, Shutdown, ClientsDone, Exit, Crash,
                  ProcessEnds, Start
    <3> QED
      BY <3>1
  <2>4. CASE task' = task
    BY <2>4
  <2> QED
    BY <2>2, <2>3, <2>4 DEF Approve, Authorize, pvars, vars
<1>6. PP!RunInv' /\ TasksInv'
  BY <1>1, <1>3, <1>5, ElsewhereKeeps
<1>7. UsersInv'
  BY <1>1, <1>3, <1>4, <1>5, UsersKept
<1> QED
  BY <1>2, <1>6, <1>7 DEF CPInv

\* Together they hold throughout: claims, sessions, and what ties them.
THEOREM ProvingInvariance == CPSpec => []CPInv
<1>1. CPInv /\ [CPNext]_pvars => CPInv'
  BY ExchangeStep, RunStep, NotaryStep, ClaimStep DEF CPNext
<1> QED
  BY <1>1, CPInvInit, PTL DEF CPSpec

(***************************************************************************)
(* What follows.                                                           *)
(***************************************************************************)
\* A slot says "complete" because the task of the claim's one callback did, with
\* the bundle of its session.
LEMMA CompleteIsServed ==
  ASSUME CPInv, NEW c \in DOMAIN results, results[c].status.kind = "complete"
  PROVE  \E k \in Callback :
           /\ Served(c, k) /\ outcome[k] = "ok"
           /\ cb[k].pubkey = request[c].pubkey /\ cb[k].wallet = request[c].wallet
           /\ account[k] \in approvers[c]
<1>1. SlotTells(c)
  BY DEF CPInv, Inv, SlotsInv
<1>2. PICK k \in Callback : Holds(k) /\ cb[k].challenge = c
  BY <1>1 DEF SlotTells, Waiting
<1>3. task[k] = "complete"
  BY <1>1, <1>2 DEF SlotTells, StageAfter
<1> QED
  BY <1>2, <1>3 DEF Served, CPInv, TasksInv, UsersInv, Inv, HoldersInv, HolderOk, Carries

\* A bundle served for a challenge is one the contract accepts, made out to the
\* key and the wallet that minted the challenge, and names an account whose user
\* approved that challenge's own auth_url.
THEOREM ServedBundlesAreGood == CPSpec => []ServedBundleIsGood
<1>1. CPInv => ServedBundleIsGood
  <2> SUFFICES ASSUME CPInv, NEW c \in DOMAIN results, results[c].status.kind = "complete"
               PROVE  \E k \in Callback :
                        /\ Served(c, k)
                        /\ P!ContractAccepts(P!Bundle(k))
                        /\ P!Bundle(k).session_address = request[c].pubkey
                        /\ P!Bundle(k).wallet = request[c].wallet
                        /\ P!Bundle(k).handle \in approvers[c]
                        /\ P!Bundle(k).user_id = P!Bundle(k).handle
    BY DEF ServedBundleIsGood
  <2>1. PICK k \in Callback :
           /\ Served(c, k) /\ outcome[k] = "ok"
           /\ cb[k].pubkey = request[c].pubkey /\ cb[k].wallet = request[c].wallet
           /\ account[k] \in approvers[c]
    BY CompleteIsServed
  <2>2. P!ContractAccepts(P!Bundle(k))
    BY <2>1, SameBundles DEF CPInv, PP!RunInv, PP!BundleIsBindable
  <2>3. /\ P!Bundle(k).session_address = cb[k].pubkey
        /\ P!Bundle(k).wallet = cb[k].wallet
        /\ P!Bundle(k).handle = account[k] /\ P!Bundle(k).user_id = account[k]
    BY DEF P!Bundle, P!Assemble, P!AssembleWith, P!SessionAddress, RunArguments
  <2> QED
    BY <2>1, <2>2, <2>3
<1> QED
  BY <1>1, ProvingInvariance, PTL

\* Claims proved at the same time never trade proofs, however the notary mixes
\* them up and whatever becomes of the processes.
THEOREM BundlesAreOwn == CPSpec => []BundleIsOwn
<1>1. CPInv => BundleIsOwn
  BY SameBundles DEF CPInv, PP!RunInv, PP!BundleIsOwn, BundleIsOwn, P!BundleIsOwn
<1> QED
  BY <1>1, ProvingInvariance, PTL

\* A challenge minted for a key that is no curve point is never answered with a
\* bundle.
THEOREM OffCurveIsNeverServed == CPSpec => []OffCurveNeverServed
<1>1. CPInv => OffCurveNeverServed
  BY CompleteIsServed DEF OffCurveNeverServed, CPInv, TasksInv
<1> QED
  BY <1>1, ProvingInvariance, PTL

(***************************************************************************)
(* PopupPage.  What is added is that a message of the page as written,     *)
(* once posted, stays true to the callback whose page posted it, whatever  *)
(* the altered scripts post meanwhile.                                     *)
(***************************************************************************)
\* A page that has loaded was served, and every message of a page as written,
\* handled or not, is the one its callback's page posts.
PagesInv ==
  /\ popup \in [Callback -> PopupState]
  /\ \A k \in Callback : popup[k] \in {"popup", "tab"} => HasPage(k)
  /\ \A m \in posted \cup heard :
       m.script = "written" => \E k \in Callback : HasPage(k) /\ m = Notice(k)

\* The browsers leave the claim alone.
LEMMA PageStepIsClaimStep == [PPNext]_allVars => [Next]_vars
BY DEF PPNext, Page, Loads, Script, ScriptInTab, AlteredScript, Closes, UserCloses, Hears,
       OpenerLeaves, allVars

\* PopupPage is ClaimFlow with something to look at.
LEMMA PagesClaim == PPSpec => Spec
<1>1. PPInit => Init
  BY DEF PPInit
<1> QED
  BY <1>1, PageStepIsClaimStep, PTL DEF PPSpec, Spec

\* A callback that has served its page is done with: nothing changes what the
\* page says any more.
LEMMA PageStays ==
  ASSUME TypeOK, [Next]_vars, NEW k \in Callback, HasPage(k)
  PROVE  HasPage(k)' /\ Notice(k)' = Notice(k)
<1>1. cb[k].pc \in {"failed_page", "progress_page"}
  BY DEF HasPage
<1>2. CASE \E c \in Challenge : Minting(c) \/ Authorize(c)
  BY <1>2 DEF Minting, ChallengeGithub, CreateChallenge, CreateSlot, MintDropped, Authorize,
              HasPage, Notice, InitialPhase
<1>3. ASSUME NEW j \in Callback, CallbackGithub(j) PROVE cb'[k] = cb[k]
  <2>1. cb[j].pc = "idle" /\ \E r : cb' = [cb EXCEPT ![j] = r]
    BY <1>3 DEF CallbackGithub, CallbackBadState, CallbackUnknown, CallbackGone, CallbackMismatch,
                CallbackDeclined, CallbackCode, Take, Refuse, Arrives
  <2> QED
    BY <1>1, <2>1 DEF TypeOK
<1>4. ASSUME NEW j \in Callback, Finishing(j) PROVE cb'[k] = cb[k]
  <2>1. \/ cb' = cb
        \/ cb[j].pc \in {"reporting", "exchanging"} /\ \E next : Reach(j, next)
    BY <1>4 DEF Finishing, ReportDeclined, ExchangeOk, ExchangeErr, CallbackDropped, TaskComplete,
                TaskFails, TaskPanics, TaskEnds
  <2> QED
    BY <1>1, <2>1 DEF Reach, TypeOK
<1>5. CASE Exit \/ Crash
  BY <1>1, <1>5 DEF Exit, Crash, ProcessEnds, InFlight, HasPage, Notice, InitialPhase
<1>6. CASE Tick \/ Shutdown \/ ClientsDone \/ Start \/ UNCHANGED vars
  BY <1>6 DEF Tick, Shutdown, ClientsDone, Start, vars, HasPage, Notice, InitialPhase
<1> QED
  BY <1>2, <1>3, <1>4, <1>5, <1>6 DEF Next, HasPage, Notice, InitialPhase

\* A window changes to one of its states.
LEMMA WindowsKept ==
  ASSUME PagesInv, [PPNext]_allVars
  PROVE  /\ popup' \in [Callback -> PopupState]
         /\ \A k \in Callback : popup'[k] \in {"popup", "tab"} => HasPage(k)
<1>1. \/ popup' = popup
      \/ \E k \in Callback : \/ HasPage(k) /\ \E state \in PopupState : Shows(k, state)
                            \/ \E state \in {"closing", "open", "closed"} : Shows(k, state)
  BY DEF PPNext, Page, Loads, Script, ScriptInTab, AlteredScript, Closes, UserCloses, Hears,
         OpenerLeaves, allVars, pageVars, PopupState
<1> QED
  BY <1>1 DEF PagesInv, PopupState, Shows

\* A message that is new is an altered script's or that of a page that was served.
LEMMA NewMessages ==
  ASSUME PagesInv, [PPNext]_allVars, NEW m \in posted' \cup heard'
  PROVE  \/ m \in posted \cup heard
         \/ m.script = "altered"
         \/ \E k \in Callback : HasPage(k) /\ m = Notice(k)
BY DEF PagesInv, PPNext, Page, Loads, Script, ScriptInTab, AlteredScript, NotifyOpener, Closes,
       UserCloses, Hears, OpenerLeaves, allVars, pageVars

\* No page as written posts anything but its notice, and none is ever altered.
LEMMA PagesNext == TypeOK /\ PagesInv /\ [PPNext]_allVars => PagesInv'
<1> SUFFICES ASSUME TypeOK, PagesInv, [PPNext]_allVars PROVE PagesInv'
  OBVIOUS
<1>1. \A k \in Callback : HasPage(k) => HasPage(k)' /\ Notice(k)' = Notice(k)
  BY PageStepIsClaimStep, PageStays
<1>2. \A m \in posted' \cup heard' :
        m.script = "written" => \E k \in Callback : HasPage(k) /\ m = Notice(k)
  BY NewMessages DEF PagesInv
<1> QED
  BY <1>1, <1>2, WindowsKept DEF PagesInv

\* What the claim is proved to do, it does under its popups, and every message of
\* a page as written speaks for a page that was served.
THEOREM PagesInvariance == PPSpec => [](Inv /\ PagesInv)
<1>1. PPInit => PagesInv
  BY DEF PPInit, PagesInv, PopupState
<1>2. Inv => TypeOK
  BY DEF Inv
<1> QED
  BY <1>1, <1>2, PagesClaim, Invariance, PagesNext, PTL DEF PPSpec

\* However late a message of the page as written is handled, no poll that follows
\* contradicts it: the slot says where the one callback of the claim got to, and a
\* page is only served when it has got there.
THEOREM NewsMatchesPolls == PPSpec => []NewsMatchesPoll
<1>1. ASSUME Inv, NEW k \in Callback, HasPage(k)
      PROVE  IF InitialPhase(k) = "failed"
               THEN StatusView(cb[k].challenge) \in {"failed", "not_found"}
               ELSE StatusView(cb[k].challenge) # "waiting"
  <2>1. Holds(k) /\ cb[k].pc \in {"failed_page", "progress_page"}
    BY <1>1 DEF HasPage, Holds
  <2>2. CASE cb[k].challenge \in DOMAIN results
    <3>1. results[cb[k].challenge].status.kind = StageAfter(k)
      BY <1>1, <2>1, <2>2 DEF Inv, SlotsInv, SlotTells
    <3> QED
      BY <2>1, <3>1 DEF StageAfter, StatusView, InitialPhase
  <2>3. CASE cb[k].challenge \notin DOMAIN results
    BY <2>3 DEF StatusView
  <2> QED
    BY <2>2, <2>3
<1>2. Inv /\ PagesInv => NewsMatchesPoll
  <2> SUFFICES ASSUME Inv, PagesInv, NEW m \in posted \cup heard, m.script = "written"
               PROVE  IF m.phase = "failed"
                        THEN StatusView(m.challenge) \in {"failed", "not_found"}
                        ELSE StatusView(m.challenge) # "waiting"
    BY DEF NewsMatchesPoll
  <2>1. PICK k \in Callback : HasPage(k) /\ m = Notice(k)
    BY DEF PagesInv
  <2>2. m.phase = InitialPhase(k) /\ m.challenge = cb[k].challenge
    BY <2>1 DEF Notice
  <2> QED
    BY <1>1, <2>1, <2>2
<1> QED
  BY <1>2, PagesInvariance, PTL
=============================================================================
