-------------------------- MODULE ClaimFlowProofs --------------------------
(***************************************************************************)
(* Proofs about ClaimFlow, for any sets of challenges, callbacks, keys and *)
(* wallets, any TTL and any number of restarts: type correctness, the      *)
(* inductive invariant Inv, and the safety properties that follow from it. *)
(***************************************************************************)
EXTENDS ClaimFlow, TLAPS

(***************************************************************************)
(* What each critical section of the store does to the maps.               *)
(***************************************************************************)
\* Ages stay in range, and the clock makes nothing younger.
LEMMA OlderFacts ==
  ASSUME NEW a \in 0..TTL
  PROVE  Older(a) \in 0..TTL /\ a <= Older(a) /\ (a < TTL => Older(a) = a + 1)
BY TTLAssumption DEF Older

\* Each status set_status is called with is a status.
LEMMA StatusTypes ==
  /\ Waiting \in Status /\ OauthComplete \in Status /\ Failed \in Status
  /\ \A p \in Proof : Complete(p) \in Status
BY DEF Waiting, OauthComplete, Failed, Complete, Status

\* set_status touches one entry, and leaves it young.
LEMMA SetStatusFacts ==
  ASSUME StoreTypeOK, NEW c \in Challenge, NEW st \in Status, SetStatus(c, st)
  PROVE  /\ DOMAIN results' = DOMAIN results \cup {c}
         /\ results' \in [DOMAIN results' -> FlowEntry]
         /\ results'[c] = [status |-> st, age |-> 0]
         /\ \A d \in DOMAIN results : d # c => results'[d] = results[d]
<1>1. [status |-> st, age |-> 0] \in FlowEntry
  BY TTLAssumption DEF FlowEntry
<1> QED
  BY <1>1 DEF StoreTypeOK, SetStatus, Put

\* consume_challenge removes one entry.
LEMMA ConsumeFacts ==
  ASSUME StoreTypeOK, NEW c \in Challenge, Consume(c)
  PROVE  /\ DOMAIN challenges' = DOMAIN challenges \ {c}
         /\ challenges' \in [DOMAIN challenges' -> Pending]
         /\ \A d \in DOMAIN challenges' : challenges'[d] = challenges[d]
BY DEF StoreTypeOK, Consume, Without, Restrict

\* The first lock of create_challenge drops expired entries only.
LEMMA InsertChallengeFacts ==
  ASSUME StoreTypeOK, NEW c \in Challenge, NEW p \in Pending, InsertChallenge(c, p)
  PROVE  /\ DOMAIN challenges' = {d \in DOMAIN challenges : challenges[d].age < TTL} \cup {c}
         /\ challenges' \in [DOMAIN challenges' -> Pending]
         /\ challenges'[c] = p
         /\ \A d \in DOMAIN challenges' : d # c => challenges'[d] = challenges[d]
BY DEF StoreTypeOK, InsertChallenge, Put, Sweep, Restrict

\* The second lock of create_challenge drops expired results only.
LEMMA InsertSlotFacts ==
  ASSUME StoreTypeOK, NEW c \in Challenge, InsertSlot(c)
  PROVE  /\ DOMAIN results' = {d \in DOMAIN results : results[d].age < TTL} \cup {c}
         /\ results' \in [DOMAIN results' -> FlowEntry]
         /\ results'[c] = [status |-> Waiting, age |-> 0]
         /\ \A d \in DOMAIN results' : d # c => results'[d] = results[d]
<1>1. [status |-> Waiting, age |-> 0] \in FlowEntry
  BY TTLAssumption, StatusTypes DEF FlowEntry
<1> QED
  BY <1>1 DEF StoreTypeOK, InsertSlot, Put, Sweep, Restrict

\* A tick changes ages only.
LEMMA TickFacts ==
  ASSUME StoreTypeOK, challenges' = AllOlder(challenges), results' = AllOlder(results)
  PROVE  /\ DOMAIN challenges' = DOMAIN challenges /\ DOMAIN results' = DOMAIN results
         /\ challenges' \in [DOMAIN challenges -> Pending]
         /\ results' \in [DOMAIN results -> FlowEntry]
         /\ \A c \in DOMAIN challenges :
              challenges'[c] = [challenges[c] EXCEPT !.age = Older(challenges[c].age)]
         /\ \A c \in DOMAIN results :
              results'[c] = [results[c] EXCEPT !.age = Older(results[c].age)]
<1>1. /\ DOMAIN challenges' = DOMAIN challenges
      /\ \A c \in DOMAIN challenges :
           challenges'[c] = [challenges[c] EXCEPT !.age = Older(challenges[c].age)]
      /\ challenges' = [c \in DOMAIN challenges |-> challenges'[c]]
  BY DEF AllOlder
<1>2. /\ DOMAIN results' = DOMAIN results
      /\ \A c \in DOMAIN results :
           results'[c] = [results[c] EXCEPT !.age = Older(results[c].age)]
      /\ results' = [c \in DOMAIN results |-> results'[c]]
  BY DEF AllOlder
<1>3. ASSUME NEW c \in DOMAIN challenges
      PROVE  [challenges[c] EXCEPT !.age = Older(challenges[c].age)] \in Pending
  BY OlderFacts DEF StoreTypeOK, Pending
<1>4. ASSUME NEW c \in DOMAIN results
      PROVE  [results[c] EXCEPT !.age = Older(results[c].age)] \in FlowEntry
  BY OlderFacts DEF StoreTypeOK, FlowEntry
<1> QED
  BY <1>1, <1>2, <1>3, <1>4

(***************************************************************************)
(* Type correctness.                                                       *)
(***************************************************************************)
\* The server starts with every variable in its type.
LEMMA TypeInit == Init => TypeOK
BY MaxRestartsAssumption
   DEF Init, TypeOK, StoreTypeOK, NoEntries, MintState, IdleCallback, CallbackRecord,
       CallbackState, TaskState

\* A step keeps the types; that a callback past the consume names a challenge is
\* needed for it.
LEMMA TypeNext == TypeOK /\ HoldersInv /\ [Next]_vars => TypeOK'
<1> SUFFICES ASSUME TypeOK, HoldersInv, [Next]_vars PROVE TypeOK'
  OBVIOUS
<1> USE DEF TypeOK
<1>a. ASSUME NEW k \in Callback, Holds(k)
      PROVE  cb[k].challenge \in Challenge /\ Carries(cb[k], cb[k].challenge)
  BY <1>a DEF HoldersInv, HolderOk
<1>b. ASSUME NEW k \in Callback, task[k] # "none" PROVE Holds(k)
  BY <1>b DEF HoldersInv, HolderOk, Holds
<1>1. ASSUME NEW c \in Challenge, NEW p \in Pubkey, NEW w \in Wallet, ChallengeGithub(c, p, w)
      PROVE  TypeOK'
  BY <1>1, TTLAssumption DEF ChallengeGithub, StoreTypeOK, Put, Pending, MintState
<1>2. ASSUME NEW c \in Challenge, CreateChallenge(c) PROVE TypeOK'
  <2>1. request[c] \in Pending
    BY <1>2 DEF CreateChallenge
  <2>2. StoreTypeOK'
    BY <1>2, <2>1, InsertChallengeFacts DEF CreateChallenge, StoreTypeOK
  <2> QED
    BY <1>2, <2>2 DEF CreateChallenge, MintState
<1>3. ASSUME NEW c \in Challenge, CreateSlot(c) PROVE TypeOK'
  <2>1. StoreTypeOK'
    BY <1>3, InsertSlotFacts DEF CreateSlot, StoreTypeOK
  <2> QED
    BY <1>3, <2>1 DEF CreateSlot, MintState
<1>4. ASSUME NEW c \in Challenge, MintDropped(c) \/ Authorize(c) PROVE TypeOK'
  BY <1>4 DEF MintDropped, Authorize, StoreTypeOK, MintState
<1>5. ASSUME NEW k \in Callback, NEW c \in Challenge,
             CallbackUnknown(k, c) \/ CallbackGone(k, c)
               \/ \E p \in Pubkey : CallbackMismatch(k, c, p)
      PROVE  TypeOK'
  <2>1. cb' \in [Callback -> CallbackRecord]
    BY <1>5 DEF CallbackUnknown, CallbackGone, CallbackMismatch, Refuse,
                CallbackRecord, CallbackState
  <2>2. StoreTypeOK'
    BY <1>5, ConsumeFacts DEF StoreTypeOK, CallbackUnknown, CallbackGone,
                              CallbackMismatch, Arrives
  <2> QED
    BY <1>5, <2>1, <2>2 DEF CallbackUnknown, CallbackGone, CallbackMismatch, Arrives
<1>6. ASSUME NEW k \in Callback, NEW c \in Challenge, NEW p \in Pubkey,
             NEW code \in Challenge \cup {None}, NEW pc \in {"reporting", "exchanging"},
             Take(k, c, p, code, pc)
      PROVE  TypeOK'
  <2>1. StoreTypeOK'
    BY <1>6, ConsumeFacts DEF StoreTypeOK, Take, Arrives
  <2>2. challenges[c] \in Pending
    BY <1>6 DEF Take, Live, StoreTypeOK
  <2>3. cb' \in [Callback -> CallbackRecord]
    BY <1>6, <2>2 DEF Take, CallbackRecord, CallbackState, Pending
  <2> QED
    BY <1>6, <2>1, <2>3 DEF Take, Arrives
<1>7. ASSUME NEW k \in Callback,
             ReportDeclined(k) \/ ExchangeOk(k) \/ ExchangeErr(k)
      PROVE  TypeOK'
  <2>0. cb[k].challenge \in Challenge
    BY <1>7, <1>a DEF ReportDeclined, ExchangeOk, ExchangeErr, Holds
  <2>1. StoreTypeOK'
    BY <1>7, <2>0, SetStatusFacts, StatusTypes
       DEF StoreTypeOK, ReportDeclined, ExchangeOk, ExchangeErr
  <2>2. cb' \in [Callback -> CallbackRecord]
    <3>1. PICK pc \in CallbackState : Reach(k, pc)
      BY <1>7 DEF ReportDeclined, ExchangeOk, ExchangeErr, CallbackState
    <3> QED
      BY <3>1 DEF Reach, CallbackRecord
  <2>3. task' \in [Callback -> TaskState]
    BY <1>7 DEF ReportDeclined, ExchangeOk, ExchangeErr, TaskState
  <2> QED
    BY <1>7, <2>1, <2>2, <2>3 DEF ReportDeclined, ExchangeOk, ExchangeErr
<1>8. ASSUME NEW k \in Callback, CallbackDropped(k) PROVE TypeOK'
  BY <1>8 DEF CallbackDropped, Reach, StoreTypeOK, CallbackRecord, CallbackState
<1>9. ASSUME NEW k \in Callback, TaskComplete(k) \/ TaskFails(k) \/ TaskPanics(k)
      PROVE  TypeOK'
  <2>1. /\ cb[k].challenge \in Challenge
        /\ [pubkey |-> cb[k].pubkey, wallet |-> cb[k].wallet] \in Proof
    <3>1. cb[k].challenge \in Challenge /\ Carries(cb[k], cb[k].challenge)
      BY <1>9, <1>a, <1>b DEF TaskComplete, TaskFails, TaskPanics, TaskEnds
    <3>2. mint[cb[k].challenge] # "unborn"
      BY <1>9, <1>b DEF TaskComplete, TaskFails, TaskPanics, TaskEnds, HoldersInv, HolderOk
    <3>3. request[cb[k].challenge] \in Pending
      BY <3>1, <3>2
    <3> QED
      BY <3>1, <3>3 DEF Carries, Pending, Proof
  <2>2. StoreTypeOK'
    BY <1>9, <2>1, SetStatusFacts, StatusTypes
       DEF StoreTypeOK, TaskComplete, TaskFails, TaskPanics, TaskEnds
  <2> QED
    BY <1>9, <2>2 DEF TaskComplete, TaskFails, TaskPanics, TaskEnds, TaskState
<1>10. CASE Tick
  <2>1. StoreTypeOK'
    BY <1>10, TickFacts DEF Tick, StoreTypeOK
  <2>2. request' \in [{c \in Challenge : mint[c] # "unborn"} -> Pending]
    <3>1. ASSUME NEW c \in DOMAIN request
          PROVE  [request[c] EXCEPT !.age = Older(request[c].age)] \in Pending
      BY OlderFacts DEF Pending
    <3> QED
      BY <1>10, <3>1 DEF Tick
  <2> QED
    BY <1>10, <2>1, <2>2 DEF Tick
<1>11. CASE Shutdown \/ ClientsDone \/ Start
  BY <1>11, MaxRestartsAssumption DEF Shutdown, ClientsDone, Start, StoreTypeOK
<1>12. CASE Exit \/ Crash
  <2>1. ProcessEnds
    BY <1>12 DEF Exit, Crash
  <2>2. /\ mint' \in [Challenge -> MintState]
        /\ \A c \in Challenge : mint'[c] # "unborn" <=> mint[c] # "unborn"
    BY <2>1 DEF ProcessEnds, MintState
  <2>3. cb' \in [Callback -> CallbackRecord]
    BY <2>1 DEF ProcessEnds, CallbackRecord, CallbackState
  <2> QED
    BY <2>1, <2>2, <2>3 DEF ProcessEnds, StoreTypeOK, NoEntries, TaskState
<1>13. CASE UNCHANGED vars
  BY <1>13 DEF vars, StoreTypeOK
<1>14. ASSUME NEW c \in Challenge, Minting(c) \/ Authorize(c) PROVE TypeOK'
  BY <1>14, <1>1, <1>2, <1>3, <1>4 DEF Minting
<1>15. ASSUME NEW k \in Callback, CallbackGithub(k) PROVE TypeOK'
  <2>1. CASE CallbackBadState(k)
    <3>1. cb' \in [Callback -> CallbackRecord]
      BY <2>1 DEF CallbackBadState, Refuse, CallbackRecord, CallbackState
    <3> QED
      BY <2>1, <3>1 DEF CallbackBadState, Arrives, StoreTypeOK
  <2>2. ASSUME NEW c \in Nameable, CallbackUnknown(k, c) \/ CallbackGone(k, c) PROVE TypeOK'
    BY <2>2, <1>5 DEF Nameable
  <2> QED
    BY <1>15, <2>1, <2>2, <1>5, <1>6
       DEF CallbackGithub, Nameable, CallbackDeclined, CallbackCode
<1>16. ASSUME NEW k \in Callback, Finishing(k) PROVE TypeOK'
  BY <1>16, <1>7, <1>8, <1>9 DEF Finishing
<1> QED
  BY <1>10, <1>11, <1>12, <1>13, <1>14, <1>15, <1>16 DEF Next

(***************************************************************************)
(* The inductive invariant, one lemma per group of actions.                *)
(***************************************************************************)
\* The server starts with empty maps, no handler and no task.
LEMMA InvInit == Init => Inv
<1> SUFFICES ASSUME Init PROVE Inv
  OBVIOUS
<1>1. TypeOK
  BY TypeInit
<1>2. \A k \in Callback : ~Holds(k) /\ ~InFlight(k) /\ task[k] = "none" /\ cb[k].pc = "idle"
  BY DEF Init, Holds, InFlight, IdleCallback
<1>3. SingleUse /\ HoldersInv
  BY <1>2 DEF SingleUse, HoldersInv, HolderOk
<1>4. ChallengesInv /\ SlotsInv /\ LiveSlotInv
  BY DEF Init, NoEntries, ChallengesInv, SlotsInv, LiveSlotInv
<1> QED
  BY <1>1, <1>3, <1>4 DEF Inv

\* POST /auth/github/challenge: a new request disturbs no other claim, and the
\* slot is opened with nobody holding its challenge.
LEMMA InvMinting ==
  ASSUME Inv, TypeOK', NEW c \in Challenge, Minting(c)
  PROVE  Inv'
<1> USE DEF Inv
<1>1. ASSUME NEW p \in Pubkey, NEW w \in Wallet, ChallengeGithub(c, p, w) PROVE Inv'
  <2>1. /\ mint[c] = "unborn" /\ mint'[c] = "creating"
        /\ \A d \in Challenge : d # c => mint'[d] = mint[d]
        /\ \A d \in Challenge : mint[d] # "unborn" => request'[d] = request[d]
        /\ request'[c] = [pubkey |-> p, verifier |-> c, wallet |-> w, age |-> 0]
        /\ UNCHANGED <<challenges, results, cb, task, authorized>>
    BY <1>1 DEF ChallengeGithub, TypeOK, Put
  <2>2. SingleUse'
    BY <2>1 DEF SingleUse, Holds
  <2>3. ChallengesInv'
    BY <2>1 DEF ChallengesInv, Carries, Holds, TypeOK, StoreTypeOK
  <2>4. HoldersInv'
    BY <2>1 DEF HoldersInv, HolderOk, Carries, Holds, InFlight
  <2>5. SlotsInv' /\ LiveSlotInv'
    BY <2>1 DEF SlotsInv, SlotTells, LiveSlotInv, Live, Holds, StageAfter, TypeOK, StoreTypeOK
  <2> QED
    BY <2>2, <2>3, <2>4, <2>5
<1>2. ASSUME CreateChallenge(c) PROVE Inv'
  <2>1. /\ mint[c] = "creating" /\ mint'[c] = "created"
        /\ \A d \in Challenge : d # c => mint'[d] = mint[d]
        /\ UNCHANGED <<request, results, cb, task, authorized>>
        /\ request[c] \in Pending
    BY <1>2 DEF CreateChallenge, TypeOK
  <2>2. /\ DOMAIN challenges' = {d \in DOMAIN challenges : challenges[d].age < TTL} \cup {c}
        /\ challenges'[c] = request[c]
        /\ \A d \in DOMAIN challenges' : d # c => challenges'[d] = challenges[d]
    BY <1>2, <2>1, InsertChallengeFacts DEF CreateChallenge, TypeOK
  <2>3. SingleUse'
    BY <2>1 DEF SingleUse, Holds
  <2>4. ChallengesInv'
    <3>1. \A k \in Callback : Holds(k)' => cb'[k].challenge # c
      BY <2>1 DEF HoldersInv, HolderOk, Holds
    <3> QED
      BY <2>1, <2>2, <3>1 DEF ChallengesInv, Carries, Holds, TypeOK, StoreTypeOK
  <2>5. HoldersInv'
    BY <2>1 DEF HoldersInv, HolderOk, Carries, Holds, InFlight
  <2>6. SlotsInv'
    BY <2>1 DEF SlotsInv, SlotTells, Holds, StageAfter, TypeOK, StoreTypeOK
  <2>7. LiveSlotInv'
    BY <2>1, <2>2 DEF LiveSlotInv, Live
  <2> QED
    BY <2>3, <2>4, <2>5, <2>6, <2>7
<1>3. ASSUME CreateSlot(c) PROVE Inv'
  <2>1. /\ mint[c] = "created" /\ mint'[c] = "answered"
        /\ \A d \in Challenge : d # c => mint'[d] = mint[d]
        /\ UNCHANGED <<request, challenges, cb, task, authorized>>
    BY <1>3 DEF CreateSlot, TypeOK
  <2>2. /\ DOMAIN results' = {d \in DOMAIN results : results[d].age < TTL} \cup {c}
        /\ results'[c] = [status |-> Waiting, age |-> 0]
        /\ \A d \in DOMAIN results' : d # c => results'[d] = results[d]
    BY <1>3, InsertSlotFacts DEF CreateSlot, TypeOK
  <2>3. \A k \in Callback : Holds(k) => cb[k].challenge # c
    BY <2>1 DEF HoldersInv, HolderOk
  <2>4. SingleUse'
    BY <2>1 DEF SingleUse, Holds
  <2>5. ChallengesInv'
    BY <2>1 DEF ChallengesInv, Carries, Holds, TypeOK, StoreTypeOK
  <2>6. HoldersInv'
    BY <2>1 DEF HoldersInv, HolderOk, Carries, Holds, InFlight
  <2>7. SlotsInv'
    BY <2>1, <2>2, <2>3 DEF SlotsInv, SlotTells, Holds, StageAfter, TypeOK, StoreTypeOK
  <2>8. LiveSlotInv'
    <3>1. \A d \in DOMAIN challenges : challenges[d].age \in 0..TTL
      BY DEF TypeOK, StoreTypeOK, Pending
    <3>2. ASSUME NEW d \in Challenge, mint'[d] = "answered", Live(d)', d # c
          PROVE  d \in DOMAIN results' /\ results'[d].age <= challenges'[d].age
      <4>1. /\ Live(d) /\ mint[d] = "answered" /\ d \in DOMAIN results
            /\ results[d].age <= challenges[d].age
        BY <2>1, <3>2 DEF LiveSlotInv, Live
      <4>2. results[d].age \in Int /\ challenges[d].age \in Int /\ TTL \in Int
        BY <4>1, TTLAssumption DEF TypeOK, StoreTypeOK, FlowEntry, Pending, Live
      <4> QED
        BY <2>1, <2>2, <3>2, <4>1, <4>2 DEF Live
    <3> QED
      BY <2>1, <2>2, <3>1, <3>2 DEF LiveSlotInv, Live
  <2> QED
    BY <2>4, <2>5, <2>6, <2>7, <2>8
<1>4. ASSUME MintDropped(c) PROVE Inv'
  <2>1. /\ mint[c] \in {"creating", "created"} /\ mint'[c] = "dropped"
        /\ \A d \in Challenge : d # c => mint'[d] = mint[d]
        /\ UNCHANGED <<request, challenges, results, cb, task, authorized>>
    BY <1>4 DEF MintDropped, TypeOK
  <2>2. SingleUse'
    BY <2>1 DEF SingleUse, Holds
  <2>3. ChallengesInv'
    BY <2>1 DEF ChallengesInv, Carries, Holds, TypeOK, StoreTypeOK
  <2>4. HoldersInv'
    BY <2>1 DEF HoldersInv, HolderOk, Carries, Holds, InFlight
  <2>5. SlotsInv' /\ LiveSlotInv'
    BY <2>1 DEF SlotsInv, SlotTells, LiveSlotInv, Live, Holds, StageAfter, TypeOK, StoreTypeOK
  <2> QED
    BY <2>2, <2>3, <2>4, <2>5
<1> QED
  BY <1>1, <1>2, <1>3, <1>4 DEF Minting

\* GET /auth/github/callback up to its first await: the challenge passes from
\* the map to at most one handler.
LEMMA InvCallback ==
  ASSUME Inv, TypeOK', NEW k \in Callback, CallbackGithub(k)
  PROVE  Inv'
<1> USE DEF Inv
<1>1. ASSUME Arrives(k), Refuse(k),
             challenges' = challenges \/ \E c \in Challenge : Consume(c)
      PROVE  Inv'
  <2>1. /\ \A j \in Callback : j # k => cb'[j] = cb[j]
        /\ cb[k].pc = "idle" /\ cb'[k].pc = "refused"
        /\ UNCHANGED <<results, mint, request, task, authorized>>
    BY <1>1 DEF Arrives, Refuse, TypeOK
  <2>2. /\ DOMAIN challenges' \subseteq DOMAIN challenges
        /\ \A c \in DOMAIN challenges' : challenges'[c] = challenges[c]
    BY <1>1, ConsumeFacts DEF TypeOK
  <2>3. \A j \in Callback : /\ Holds(j)' => j # k
                            /\ Holds(j)' <=> Holds(j)
                            /\ InFlight(j)' <=> InFlight(j)
    BY <2>1 DEF Holds, InFlight
  <2>4. SingleUse'
    BY <2>1, <2>3 DEF SingleUse
  <2>5. ChallengesInv'
    BY <2>1, <2>2, <2>3 DEF ChallengesInv, Carries, TypeOK, StoreTypeOK
  <2>6. HoldersInv'
    <3>1. HolderOk(k)'
      BY <2>1, <2>3 DEF HoldersInv, HolderOk, InFlight
    <3>2. ASSUME NEW j \in Callback, j # k PROVE HolderOk(j)'
      BY <2>1, <2>3, <3>2 DEF HoldersInv, HolderOk, Carries
    <3> QED
      BY <3>1, <3>2 DEF HoldersInv
  <2>7. SlotsInv'
    BY <2>1, <2>3 DEF SlotsInv, SlotTells, StageAfter
  <2>8. LiveSlotInv'
    BY <2>1, <2>2 DEF LiveSlotInv, Live
  <2> QED
    BY <2>4, <2>5, <2>6, <2>7, <2>8
<1>2. ASSUME NEW c \in Nameable, NEW p \in Pubkey, NEW code \in authorized \cup {None},
             NEW pc \in {"reporting", "exchanging"}, Take(k, c, p, code, pc)
      PROVE  Inv'
  <2>1. /\ \A j \in Callback : j # k => cb'[j] = cb[j]
        /\ cb[k].pc = "idle"
        /\ cb'[k] = [pc |-> pc, challenge |-> c, pubkey |-> p, code |-> code,
                     verifier |-> challenges[c].verifier, wallet |-> challenges[c].wallet]
        /\ UNCHANGED <<results, mint, request, task, authorized>>
    BY <1>2 DEF Take, Arrives, TypeOK
  <2>2. /\ c \in Challenge /\ c \in DOMAIN challenges /\ challenges[c].age < TTL
        /\ mint[c] = "answered" /\ Carries(challenges[c], c) /\ challenges[c].pubkey = p
        /\ \A j \in Callback : Holds(j) => cb[j].challenge # c
    BY <1>2 DEF Take, Live, PubkeyMatches, Nameable, ChallengesInv
  <2>3. /\ DOMAIN challenges' = DOMAIN challenges \ {c}
        /\ \A d \in DOMAIN challenges' : challenges'[d] = challenges[d]
    BY <1>2, <2>2, ConsumeFacts DEF Take, TypeOK
  <2>4. /\ \A j \in Callback : j # k => (Holds(j)' <=> Holds(j)) /\ (InFlight(j)' <=> InFlight(j))
        /\ Holds(k)' /\ ~Holds(k) /\ cb'[k].challenge = c
    BY <2>1 DEF Holds, InFlight
  <2>5. Carries(cb[k], c)'
    BY <2>1, <2>2 DEF Carries
  <2>6. SingleUse'
    BY <2>1, <2>2, <2>4 DEF SingleUse
  <2>7. ChallengesInv'
    BY <2>1, <2>2, <2>3, <2>4 DEF ChallengesInv, Carries, TypeOK, StoreTypeOK
  <2>8. HoldersInv'
    <3>1. HolderOk(k)'
      BY <1>2, <2>1, <2>2, <2>4, <2>5 DEF HoldersInv, HolderOk
    <3>2. ASSUME NEW j \in Callback, j # k PROVE HolderOk(j)'
      BY <2>1, <2>4, <3>2 DEF HoldersInv, HolderOk, Carries
    <3> QED
      BY <3>1, <3>2 DEF HoldersInv
  <2>9. SlotsInv'
    <3>1. ASSUME NEW d \in DOMAIN results
          PROVE  SlotTells(d)'
      <4>1. CASE d = c
        <5>1. results[c].status = Waiting
          BY <2>2, <4>1 DEF SlotsInv, SlotTells
        <5>2. StageAfter(k)' = "waiting"
          BY <2>1 DEF StageAfter
        <5> QED
          BY <2>1, <2>2, <2>4, <4>1, <5>1, <5>2 DEF SlotsInv, SlotTells, Waiting
      <4>2. CASE d # c
        BY <2>1, <2>4, <4>2 DEF SlotsInv, SlotTells, StageAfter
      <4> QED
        BY <4>1, <4>2
    <3> QED
      BY <2>1, <3>1 DEF SlotsInv
  <2>10. LiveSlotInv'
    BY <2>1, <2>3 DEF LiveSlotInv, Live
  <2> QED
    BY <2>6, <2>7, <2>8, <2>9, <2>10
<1>3. CASE CallbackBadState(k)
  BY <1>1, <1>3 DEF CallbackBadState
<1>4. ASSUME NEW c \in Nameable,
             \/ CallbackUnknown(k, c) \/ CallbackGone(k, c)
             \/ \E p \in Pubkey : CallbackMismatch(k, c, p)
      PROVE  Inv'
  BY <1>1, <1>4 DEF CallbackUnknown, CallbackGone, CallbackMismatch, Nameable
<1> QED
  BY <1>2, <1>3, <1>4 DEF CallbackGithub, CallbackDeclined, CallbackCode

\* A handler or task that reports: it is the one callback of its claim, so the
\* slot it writes is no one else's.
LEMMA InvReport ==
  ASSUME Inv, TypeOK', NEW k \in Callback, Holds(k), mint[cb[k].challenge] = "answered",
         NEW st \in Status, SetStatus(cb[k].challenge, st),
         UNCHANGED <<challenges, mint, request, authorized>>,
         \A j \in Callback : j # k => cb'[j] = cb[j] /\ task'[j] = task[j],
         cb'[k] = [cb[k] EXCEPT !.pc = cb'[k].pc],
         HolderOk(k)', Holds(k)', st.kind = StageAfter(k)',
         st.kind = "complete" => st.proof = [pubkey |-> cb[k].pubkey, wallet |-> cb[k].wallet]
  PROVE  Inv'
<1> USE DEF Inv
<1> DEFINE c == cb[k].challenge
<1>1. c \in Challenge /\ c \notin DOMAIN challenges
  BY DEF HoldersInv, HolderOk, ChallengesInv
<1>2. /\ DOMAIN results' = DOMAIN results \cup {c}
      /\ results'[c].status = st
      /\ \A d \in DOMAIN results : d # c => results'[d] = results[d]
  <2>1. StoreTypeOK /\ SetStatus(c, st)
    BY DEF TypeOK
  <2>2. results'[c] = [status |-> st, age |-> 0]
    BY <1>1, <2>1, SetStatusFacts
  <2>3. DOMAIN results' = DOMAIN results \cup {c}
    BY <1>1, <2>1, SetStatusFacts
  <2>4. \A d \in DOMAIN results : d # c => results'[d] = results[d]
    BY <1>1, <2>1, SetStatusFacts
  <2> QED
    BY <2>2, <2>3, <2>4
<1>3. /\ cb'[k].challenge = c /\ cb'[k].pubkey = cb[k].pubkey /\ cb'[k].wallet = cb[k].wallet
      /\ \A j \in Callback : Holds(j)' <=> Holds(j)
      /\ \A j \in Callback : cb'[j].challenge = cb[j].challenge
  BY DEF TypeOK, CallbackRecord, Holds
<1>4. \A j \in Callback : Holds(j) /\ cb[j].challenge = c => j = k
  BY DEF SingleUse
<1>5. SingleUse'
  BY <1>3 DEF SingleUse
<1>6. ChallengesInv'
  BY <1>3 DEF ChallengesInv, Carries
<1>7. HoldersInv'
  <2>1. ASSUME NEW j \in Callback, j # k PROVE HolderOk(j)'
    BY <1>3, <2>1 DEF HoldersInv, HolderOk, Carries, InFlight
  <2> QED
    BY <2>1 DEF HoldersInv
<1>8. SlotsInv'
  <2>1. SlotTells(c)'
    BY <1>2, <1>3, <1>4 DEF SlotTells
  <2>2. ASSUME NEW d \in DOMAIN results, d # c PROVE SlotTells(d)'
    <3>1. SlotTells(d)
      BY DEF SlotsInv
    <3> QED
      BY <1>2, <1>3, <2>2, <3>1 DEF SlotTells, StageAfter
  <2> QED
    BY <1>2, <1>3, <2>1, <2>2 DEF SlotsInv
<1>9. LiveSlotInv'
  BY <1>1, <1>2 DEF LiveSlotInv, Live
<1> QED
  BY <1>5, <1>6, <1>7, <1>8, <1>9

\* The rest of a callback and its task: they report for a challenge that no one
\* else holds, or fall silent and leave the slot where it is.
LEMMA InvFinishing ==
  ASSUME Inv, TypeOK', NEW k \in Callback, Finishing(k)
  PROVE  Inv'
<1> USE DEF Inv
<1>0. HolderOk(k)
  BY DEF HoldersInv
<1>1. CASE ReportDeclined(k) \/ ExchangeErr(k)
  <2>1. /\ Holds(k) /\ InFlight(k) /\ mint[cb[k].challenge] = "answered" /\ task[k] = "none"
        /\ SetStatus(cb[k].challenge, Failed)
        /\ UNCHANGED <<challenges, mint, request, authorized, task>>
        /\ \A j \in Callback : j # k => cb'[j] = cb[j] /\ task'[j] = task[j]
    BY <1>0, <1>1 DEF ReportDeclined, ExchangeErr, Reach, HolderOk, Holds, InFlight, TypeOK
  <2>2. /\ cb'[k] = [cb[k] EXCEPT !.pc = cb'[k].pc]
        /\ cb'[k].pc \in {"failed_page", "bad_gateway"}
        /\ cb'[k].challenge = cb[k].challenge /\ Carries(cb'[k], cb[k].challenge)
    BY <1>0, <1>1, <2>1 DEF ReportDeclined, ExchangeErr, Reach, HolderOk, TypeOK,
                             CallbackRecord, Carries
  <2>3. Holds(k)' /\ HolderOk(k)' /\ StageAfter(k)' = "failed"
    BY <1>0, <2>1, <2>2 DEF Holds, HolderOk, InFlight, StageAfter, Carries
  <2>4. Failed \in Status /\ Failed.kind = "failed"
    BY StatusTypes DEF Failed
  <2> QED
    BY <2>1, <2>2, <2>3, <2>4, InvReport
<1>2. CASE ExchangeOk(k)
  <2>1. /\ Holds(k) /\ InFlight(k) /\ mint[cb[k].challenge] = "answered"
        /\ cb[k].challenge \in authorized
        /\ SetStatus(cb[k].challenge, OauthComplete)
        /\ UNCHANGED <<challenges, mint, request, authorized>>
        /\ \A j \in Callback : j # k => cb'[j] = cb[j] /\ task'[j] = task[j]
        /\ task'[k] = "running"
    BY <1>0, <1>2, NoneAssumption
       DEF ExchangeOk, TokenGranted, Reach, HolderOk, Holds, InFlight, TypeOK, Carries
  <2>2. /\ cb'[k] = [cb[k] EXCEPT !.pc = cb'[k].pc]
        /\ cb'[k].pc = "progress_page"
        /\ cb'[k].challenge = cb[k].challenge /\ Carries(cb'[k], cb[k].challenge)
    BY <1>0, <1>2, <2>1 DEF ExchangeOk, TokenGranted, Reach, HolderOk, TypeOK,
                             CallbackRecord, Carries
  <2>3. Holds(k)' /\ HolderOk(k)' /\ StageAfter(k)' = "proving"
    BY <1>0, <2>1, <2>2 DEF Holds, HolderOk, InFlight, StageAfter, Carries
  <2>4. OauthComplete \in Status /\ OauthComplete.kind = "proving"
    BY StatusTypes DEF OauthComplete
  <2> QED
    BY <2>1, <2>2, <2>3, <2>4, InvReport
<1>3. CASE CallbackDropped(k)
  <2>1. /\ \A j \in Callback : j # k => cb'[j] = cb[j]
        /\ cb'[k] = [cb[k] EXCEPT !.pc = "dropped"]
        /\ InFlight(k) /\ Holds(k)
        /\ UNCHANGED <<challenges, results, mint, request, task, authorized>>
    BY <1>3 DEF CallbackDropped, Reach, InFlight, Holds, TypeOK
  <2>2. /\ cb'[k].pc = "dropped" /\ cb'[k].challenge = cb[k].challenge
        /\ cb'[k].pubkey = cb[k].pubkey /\ cb'[k].wallet = cb[k].wallet
        /\ cb'[k].verifier = cb[k].verifier
        /\ \A j \in Callback : (Holds(j)' <=> Holds(j)) /\ cb'[j].challenge = cb[j].challenge
    BY <2>1 DEF TypeOK, CallbackRecord, Holds
  <2>3. SingleUse'
    BY <2>2 DEF SingleUse
  <2>4. ChallengesInv'
    BY <2>1, <2>2 DEF ChallengesInv, Carries
  <2>5. HoldersInv'
    <3>1. HolderOk(k)'
      BY <1>0, <2>1, <2>2 DEF HolderOk, Carries, InFlight
    <3>2. ASSUME NEW j \in Callback, j # k PROVE HolderOk(j)'
      BY <2>1, <2>2, <3>2 DEF HoldersInv, HolderOk, Carries, InFlight
    <3> QED
      BY <3>1, <3>2 DEF HoldersInv
  <2>6. SlotsInv'
    <3>1. StageAfter(k)' = "waiting" /\ StageAfter(k) = "waiting"
      BY <2>1, <2>2 DEF StageAfter, InFlight
    <3>2. ASSUME NEW d \in DOMAIN results PROVE SlotTells(d)'
      <4>1. SlotTells(d)
        BY DEF SlotsInv
      <4>2. \A j \in Callback : StageAfter(j)' = StageAfter(j)
        BY <2>1, <3>1 DEF StageAfter
      <4>3. \A j \in Callback : cb'[j].pubkey = cb[j].pubkey /\ cb'[j].wallet = cb[j].wallet
        BY <2>1, <2>2
      <4> QED
        BY <2>1, <2>2, <4>1, <4>2, <4>3 DEF SlotTells
    <3> QED
      BY <2>1, <3>2 DEF SlotsInv
  <2>7. LiveSlotInv'
    BY <2>1 DEF LiveSlotInv, Live
  <2> QED
    BY <2>3, <2>4, <2>5, <2>6, <2>7
<1>4. ASSUME NEW outcome \in {"complete", "failed", "panicked"}, TaskEnds(k, outcome)
      PROVE  /\ Holds(k) /\ mint[cb[k].challenge] = "answered" /\ cb[k].pc = "progress_page"
             /\ UNCHANGED <<challenges, mint, request, authorized, cb>>
             /\ \A j \in Callback : j # k => cb'[j] = cb[j] /\ task'[j] = task[j]
             /\ task[k] = "running" /\ task'[k] = outcome
             /\ cb'[k] = [cb[k] EXCEPT !.pc = cb'[k].pc]
             /\ Holds(k)' /\ HolderOk(k)'
  <2>1. /\ cb[k].pc = "progress_page" /\ mint[cb[k].challenge] = "answered"
        /\ UNCHANGED <<challenges, mint, request, authorized, cb>>
        /\ \A j \in Callback : j # k => cb'[j] = cb[j] /\ task'[j] = task[j]
        /\ task[k] = "running" /\ task'[k] = outcome
    BY <1>0, <1>4 DEF TaskEnds, HolderOk, TypeOK
  <2>2. cb'[k] = [cb[k] EXCEPT !.pc = cb'[k].pc]
    BY <2>1 DEF TypeOK, CallbackRecord
  <2>3. Holds(k) /\ Holds(k)'
    BY <2>1 DEF Holds
  <2>4. HolderOk(k)'
    BY <1>0, <2>1, <2>3 DEF HolderOk, Holds, InFlight, Carries
  <2> QED
    BY <2>1, <2>2, <2>3, <2>4
<1>5. CASE TaskComplete(k)
  <2> DEFINE proof == [pubkey |-> cb[k].pubkey, wallet |-> cb[k].wallet]
  <2>1. TaskEnds(k, "complete") /\ SetStatus(cb[k].challenge, Complete(proof))
    BY <1>5 DEF TaskComplete
  <2>2. StageAfter(k)' = "complete"
    BY <1>4, <2>1 DEF StageAfter
  <2>3. proof \in Proof
    <3>1. /\ cb[k].challenge \in Challenge /\ mint[cb[k].challenge] # "unborn"
          /\ Carries(cb[k], cb[k].challenge)
      BY <1>0, <1>4, <2>1 DEF HolderOk
    <3>2. request[cb[k].challenge] \in Pending
      BY <3>1 DEF TypeOK
    <3> QED
      BY <3>1, <3>2 DEF Carries, Pending, Proof
  <2>4. /\ Complete(proof) \in Status /\ Complete(proof).kind = "complete"
        /\ Complete(proof).proof = proof
    BY <2>3, StatusTypes DEF Complete
  <2> HIDE DEF proof
  <2>5. proof = [pubkey |-> cb[k].pubkey, wallet |-> cb[k].wallet]
    BY DEF proof
  <2> QED
    BY <1>4, <2>1, <2>2, <2>4, <2>5, InvReport
<1>6. CASE TaskFails(k)
  <2>1. TaskEnds(k, "failed") /\ SetStatus(cb[k].challenge, Failed)
    BY <1>6 DEF TaskFails
  <2>2. StageAfter(k)' = "failed"
    BY <1>4, <2>1 DEF StageAfter
  <2>3. Failed \in Status /\ Failed.kind = "failed"
    BY StatusTypes DEF Failed
  <2> QED
    BY <1>4, <2>1, <2>2, <2>3, InvReport
<1>7. CASE TaskPanics(k)
  <2>1. TaskEnds(k, "panicked") /\ UNCHANGED results
    BY <1>7 DEF TaskPanics
  <2>2. /\ UNCHANGED <<challenges, results, mint, request, authorized, cb>>
        /\ \A j \in Callback : j # k => task'[j] = task[j]
        /\ cb[k].pc = "progress_page" /\ task[k] = "running" /\ task'[k] = "panicked"
        /\ HolderOk(k)'
    BY <1>4, <2>1
  <2>3. \A j \in Callback : StageAfter(j)' = StageAfter(j)
    BY <2>2 DEF StageAfter
  <2>4. SingleUse' /\ ChallengesInv' /\ LiveSlotInv'
    BY <2>2 DEF SingleUse, ChallengesInv, LiveSlotInv, Holds, Carries, Live
  <2>5. HoldersInv'
    BY <2>2 DEF HoldersInv, HolderOk, Holds, InFlight, Carries
  <2>6. SlotsInv'
    BY <2>2, <2>3 DEF SlotsInv, SlotTells, Holds
  <2> QED
    BY <2>4, <2>5, <2>6
<1> QED
  BY <1>1, <1>2, <1>3, <1>5, <1>6, <1>7 DEF Finishing

\* Time ages a challenge and its younger slot alike.
LEMMA InvTick == ASSUME Inv, TypeOK', Tick PROVE Inv'
<1> USE DEF Inv
<1>1. UNCHANGED <<mint, cb, task, authorized>>
  BY DEF Tick
<1>2. /\ DOMAIN challenges' = DOMAIN challenges /\ DOMAIN results' = DOMAIN results
      /\ \A c \in DOMAIN challenges :
           challenges'[c] = [challenges[c] EXCEPT !.age = Older(challenges[c].age)]
      /\ \A c \in DOMAIN results :
           results'[c] = [results[c] EXCEPT !.age = Older(results[c].age)]
  BY TickFacts DEF Tick, TypeOK
<1>3. \A c \in DOMAIN challenges :
        /\ challenges[c].age \in 0..TTL
        /\ challenges'[c].age = Older(challenges[c].age)
        /\ challenges'[c].pubkey = challenges[c].pubkey
        /\ challenges'[c].wallet = challenges[c].wallet
        /\ challenges'[c].verifier = challenges[c].verifier
  BY <1>2 DEF TypeOK, StoreTypeOK, Pending
<1>4. \A c \in DOMAIN results :
        /\ results[c].age \in 0..TTL
        /\ results'[c].age = Older(results[c].age)
        /\ results'[c].status = results[c].status
  BY <1>2 DEF TypeOK, StoreTypeOK, FlowEntry
<1>5. \A c \in Challenge : mint[c] # "unborn" =>
        /\ request'[c].pubkey = request[c].pubkey /\ request'[c].wallet = request[c].wallet
        /\ request'[c].verifier = request[c].verifier
  BY DEF Tick, TypeOK, Pending
<1>6. SingleUse'
  BY <1>1 DEF SingleUse, Holds
<1>7. ChallengesInv'
  <2>1. \A c \in DOMAIN challenges : c \in Challenge /\ mint[c] # "unborn"
    BY DEF ChallengesInv, TypeOK, StoreTypeOK
  <2> QED
    BY <1>1, <1>2, <1>3, <1>5, <2>1 DEF ChallengesInv, Carries, Holds
<1>8. HoldersInv'
  BY <1>1, <1>5 DEF HoldersInv, HolderOk, Holds, InFlight, Carries
<1>9. SlotsInv'
  BY <1>1, <1>2, <1>4 DEF SlotsInv, SlotTells, Holds, StageAfter
<1>10. LiveSlotInv'
  <2>1. ASSUME NEW c \in Challenge, mint'[c] = "answered", Live(c)'
        PROVE  c \in DOMAIN results' /\ results'[c].age <= challenges'[c].age
    <3>1. c \in DOMAIN challenges /\ Older(challenges[c].age) < TTL
      BY <1>2, <1>3, <2>1 DEF Live
    <3>2. challenges[c].age < TTL
      BY <1>3, <3>1, TTLAssumption DEF Older
    <3>3. c \in DOMAIN results /\ results[c].age <= challenges[c].age
      BY <1>1, <2>1, <3>1, <3>2 DEF LiveSlotInv, Live
    <3>4. Older(results[c].age) <= Older(challenges[c].age)
      BY <1>3, <1>4, <3>1, <3>2, <3>3, TTLAssumption DEF Older
    <3> QED
      BY <1>2, <1>3, <1>4, <3>1, <3>3, <3>4
  <2> QED
    BY <2>1 DEF LiveSlotInv
<1> QED
  BY <1>6, <1>7, <1>8, <1>9, <1>10

\* The end of the process leaves nothing that could still report.
LEMMA InvProcessEnds == ASSUME Inv, TypeOK', ProcessEnds PROVE Inv'
<1> USE DEF Inv
<1>1. /\ UNCHANGED <<request, authorized>>
      /\ DOMAIN challenges' = {} /\ DOMAIN results' = {}
      /\ \A k \in Callback : cb'[k] = IF InFlight(k) THEN [cb[k] EXCEPT !.pc = "dropped"] ELSE cb[k]
      /\ \A k \in Callback : task'[k] = IF task[k] = "running" THEN "aborted" ELSE task[k]
  BY DEF ProcessEnds, NoEntries
<1>2. \A c \in Challenge :
        /\ mint[c] \in {"answered", "lost"} => mint'[c] = "lost"
        /\ mint'[c] # "answered"
        /\ mint'[c] # "unborn" => mint[c] # "unborn"
  BY DEF ProcessEnds, TypeOK, MintState
<1>3. \A k \in Callback :
        /\ Holds(k)' <=> Holds(k)
        /\ ~InFlight(k)'
        /\ cb'[k].pc # "exchanging" /\ task'[k] # "running"
        /\ cb'[k].pc = "progress_page" <=> cb[k].pc = "progress_page"
        /\ task'[k] # "none" <=> task[k] # "none"
        /\ cb'[k].challenge = cb[k].challenge
        /\ Carries(cb'[k], cb[k].challenge) = Carries(cb[k], cb[k].challenge)
  BY <1>1 DEF Holds, InFlight, TypeOK, CallbackRecord, Carries
<1>4. SingleUse'
  BY <1>3 DEF SingleUse
<1>5. ChallengesInv'
  BY <1>1, <1>2 DEF ChallengesInv, Carries
<1>6. HoldersInv'
  BY <1>1, <1>2, <1>3 DEF HoldersInv, HolderOk, Carries
<1>7. SlotsInv' /\ LiveSlotInv'
  BY <1>1 DEF SlotsInv, LiveSlotInv, Live
<1> QED
  BY <1>4, <1>5, <1>6, <1>7

\* Steps that touch neither the maps nor a handler.
LEMMA InvElsewhere ==
  ASSUME Inv, TypeOK', UNCHANGED <<challenges, results, mint, request, cb, task>>,
         authorized \subseteq authorized'
  PROVE  Inv'
<1> USE DEF Inv
<1>1. SingleUse' /\ ChallengesInv'
  BY DEF SingleUse, ChallengesInv, Holds, Carries
<1>2. HoldersInv'
  BY DEF HoldersInv, HolderOk, Holds, InFlight, Carries
<1>3. SlotsInv' /\ LiveSlotInv'
  BY DEF SlotsInv, SlotTells, Holds, StageAfter, LiveSlotInv, Live
<1> QED
  BY <1>1, <1>2, <1>3

\* No step of the server, its clients, its tasks or the clock breaks Inv.
LEMMA InvNext == Inv /\ [Next]_vars => Inv'
<1> SUFFICES ASSUME Inv, [Next]_vars PROVE Inv'
  OBVIOUS
<1>1. TypeOK'
  BY TypeNext DEF Inv
<1>2. ASSUME NEW c \in Challenge, Authorize(c) PROVE Inv'
  BY <1>1, <1>2, InvElsewhere DEF Authorize
<1>3. CASE Shutdown \/ ClientsDone \/ Start \/ UNCHANGED vars
  BY <1>1, <1>3, InvElsewhere DEF Shutdown, ClientsDone, Start, vars
<1>4. CASE Exit \/ Crash
  BY <1>1, <1>4, InvProcessEnds DEF Exit, Crash
<1> QED
  BY <1>1, <1>2, <1>3, <1>4, InvMinting, InvCallback, InvFinishing, InvTick DEF Next

(***************************************************************************)
(* Theorems.                                                               *)
(***************************************************************************)
\* Inv holds in every reachable state: it is what relates the two maps, the
\* handlers and the tasks, which no lock ever covers together.
THEOREM Invariance == Spec => []Inv
<1>1. Init => Inv
  BY InvInit
<1>2. Inv /\ [Next]_vars => Inv'
  BY InvNext
<1> QED
  BY <1>1, <1>2, PTL DEF Spec

\* Every variable has its type.
THEOREM TypeCorrect == Spec => []TypeOK
<1>1. Inv => TypeOK
  BY DEF Inv
<1> QED
  BY <1>1, Invariance, PTL

\* A challenge is consumed once, whatever the number of replayed redirects.
THEOREM ConsumedOnce == Spec => []SingleUse
<1>1. Inv => SingleUse
  BY DEF Inv
<1> QED
  BY <1>1, Invariance, PTL

\* A proof is made out to the key and the wallet of the minting request, for a
\* user who approved that very challenge.
THEOREM ProofsMatchRequests == Spec => []ProofMatchesRequest
<1>1. Inv => ProofMatchesRequest
  <2> SUFFICES ASSUME Inv, NEW c \in DOMAIN results, results[c].status.kind = "complete"
               PROVE  /\ results[c].status.proof =
                           [pubkey |-> request[c].pubkey, wallet |-> request[c].wallet]
                      /\ c \in authorized
    BY DEF ProofMatchesRequest
  <2>1. SlotTells(c)
    BY DEF Inv, SlotsInv
  <2>2. PICK k \in Callback : Holds(k) /\ cb[k].challenge = c
    BY <2>1 DEF SlotTells, Waiting
  <2>3. /\ StageAfter(k) = "complete"
        /\ results[c].status.proof = [pubkey |-> cb[k].pubkey, wallet |-> cb[k].wallet]
    BY <2>1, <2>2 DEF SlotTells
  <2>4. cb[k].pc = "progress_page"
    BY <2>3 DEF StageAfter
  <2>5. HolderOk(k)
    BY DEF Inv, HoldersInv
  <2> QED
    BY <2>2, <2>3, <2>4, <2>5 DEF HolderOk, Carries
<1> QED
  BY <1>1, Invariance, PTL

\* No sweep takes the slot of a challenge that can still be answered.
THEOREM LiveChallengesHaveSlots == Spec => []LiveChallengeHasSlot
<1>1. Inv => LiveChallengeHasSlot
  <2> SUFFICES ASSUME Inv, NEW c \in Challenge, mint[c] = "answered", Live(c)
               PROVE  StatusView(c) = "waiting"
    BY DEF LiveChallengeHasSlot
  <2>1. c \in DOMAIN challenges /\ challenges[c].age < TTL
    BY DEF Live
  <2>2. c \in DOMAIN results /\ results[c].age <= challenges[c].age
    BY DEF Inv, LiveSlotInv
  <2>3. results[c].age < TTL
    BY <2>1, <2>2, TTLAssumption DEF Inv, TypeOK, StoreTypeOK, FlowEntry, Pending
  <2>4. results[c].status = Waiting
    BY <2>1, <2>2 DEF Inv, ChallengesInv, SlotsInv, SlotTells
  <2> QED
    BY <2>2, <2>3, <2>4 DEF StatusView, Waiting
<1> QED
  BY <1>1, Invariance, PTL

\* The page the popup was served and the answer to the poll agree.
THEOREM PopupsAgree == Spec => []PopupAgrees
<1>1. Inv => PopupAgrees
  <2> SUFFICES ASSUME Inv, NEW k \in Callback, cb[k].pc \in {"failed_page", "progress_page"}
               PROVE  /\ cb[k].pc = "failed_page" =>
                           StatusView(cb[k].challenge) \in {"failed", "not_found"}
                      /\ cb[k].pc = "progress_page" => StatusView(cb[k].challenge) # "waiting"
    BY DEF PopupAgrees
  <2>1. Holds(k)
    BY DEF Holds
  <2>2. CASE cb[k].challenge \in DOMAIN results
    <3>1. results[cb[k].challenge].status.kind = StageAfter(k)
      BY <2>1, <2>2 DEF Inv, SlotsInv, SlotTells
    <3>2. /\ cb[k].pc = "failed_page" => StageAfter(k) = "failed"
          /\ cb[k].pc = "progress_page" => StageAfter(k) \in {"proving", "complete", "failed"}
      BY DEF StageAfter
    <3> QED
      BY <3>1, <3>2 DEF StatusView
  <2>3. CASE cb[k].challenge \notin DOMAIN results
    BY <2>3 DEF StatusView
  <2> QED
    BY <2>2, <2>3
<1> QED
  BY <1>1, Invariance, PTL

\* No callback leaves an entry for a challenge this process did not mint.
THEOREM OnlyMintedEntries == Spec => []OnlyMintedHere
<1>1. Inv => OnlyMintedHere
  BY DEF Inv, OnlyMintedHere, ChallengesInv, SlotsInv, SlotTells
<1> QED
  BY <1>1, Invariance, PTL

(***************************************************************************)
(* What a step may do to the answers of the polls.                         *)
(***************************************************************************)
\* The claims keep their owners, and the owners keep their stages.
SameOwners == \A j \in Callback : /\ Holds(j)' <=> Holds(j)
                                  /\ cb'[j].challenge = cb[j].challenge

\* A report moves the one owner of a claim that is not finished yet one stage
\* on, and says so in the slot; every other step of a handler is silent.
LEMMA FinishingReports ==
  ASSUME Inv, NEW k \in Callback, Finishing(k)
  PROVE  /\ SameOwners /\ UNCHANGED mint
         /\ \A j \in Callback : j # k => StageAfter(j)' = StageAfter(j)
         /\ \/ StageAfter(k)' = StageAfter(k) /\ UNCHANGED results
            \/ /\ Holds(k) /\ mint[cb[k].challenge] = "answered"
               /\ \/ StageAfter(k) = "waiting" /\ StageAfter(k)' \in {"proving", "failed"}
                  \/ StageAfter(k) = "proving" /\ StageAfter(k)' \in {"complete", "failed"}
               /\ \E st \in Status : st.kind = StageAfter(k)' /\ SetStatus(cb[k].challenge, st)
<1> USE DEF Inv
<1>0. HolderOk(k)
  BY DEF HoldersInv
<1>1. /\ UNCHANGED mint
      /\ \A j \in Callback : j # k => cb'[j] = cb[j] /\ task'[j] = task[j]
      /\ cb'[k].challenge = cb[k].challenge
      /\ cb[k].pc # "idle" /\ cb[k].pc # "refused" /\ cb'[k].pc # "idle" /\ cb'[k].pc # "refused"
  BY <1>0 DEF Finishing, ReportDeclined, ExchangeOk, ExchangeErr, CallbackDropped, TaskComplete,
              TaskFails, TaskPanics, TaskEnds, Reach, HolderOk, TypeOK, CallbackRecord
<1>2. SameOwners /\ \A j \in Callback : j # k => StageAfter(j)' = StageAfter(j)
  BY <1>1 DEF SameOwners, Holds, StageAfter
<1>3. Holds(k)
  BY <1>1 DEF Holds
<1>4. CASE ReportDeclined(k) \/ ExchangeErr(k)
  <2>1. /\ StageAfter(k) = "waiting" /\ StageAfter(k)' = "failed"
        /\ mint[cb[k].challenge] = "answered" /\ SetStatus(cb[k].challenge, Failed)
    <3>1. cb[k].pc \in {"reporting", "exchanging"} /\ SetStatus(cb[k].challenge, Failed)
      BY <1>4 DEF ReportDeclined, ExchangeErr
    <3>2. cb'[k].pc \in {"failed_page", "bad_gateway"}
      <4>1. cb \in [Callback -> CallbackRecord]
        BY DEF TypeOK
      <4>2. Reach(k, "failed_page") \/ Reach(k, "bad_gateway")
        BY <1>4 DEF ReportDeclined, ExchangeErr
      <4> QED
        BY <4>1, <4>2 DEF Reach, CallbackRecord
    <3> QED
      BY <1>0, <3>1, <3>2 DEF StageAfter, HolderOk, InFlight
  <2> QED
    BY <1>1, <1>2, <1>3, <2>1, StatusTypes DEF Failed
<1>5. CASE ExchangeOk(k)
  <2>1. /\ StageAfter(k) = "waiting" /\ StageAfter(k)' = "proving"
        /\ mint[cb[k].challenge] = "answered" /\ SetStatus(cb[k].challenge, OauthComplete)
    BY <1>0, <1>5 DEF ExchangeOk, TokenGranted, Reach, StageAfter, HolderOk, InFlight, TypeOK
  <2> QED
    BY <1>1, <1>2, <1>3, <2>1, StatusTypes DEF OauthComplete
<1>6. CASE CallbackDropped(k)
  <2>1. StageAfter(k)' = StageAfter(k) /\ UNCHANGED results
    BY <1>6 DEF CallbackDropped, Reach, StageAfter, TypeOK
  <2> QED
    BY <1>1, <1>2, <2>1
<1>7. CASE TaskPanics(k)
  <2>1. StageAfter(k)' = StageAfter(k) /\ UNCHANGED results
    BY <1>7 DEF TaskPanics, TaskEnds, StageAfter, TypeOK
  <2> QED
    BY <1>1, <1>2, <2>1
<1>8. CASE TaskFails(k)
  <2>1. /\ StageAfter(k) = "proving" /\ StageAfter(k)' = "failed"
        /\ mint[cb[k].challenge] = "answered" /\ SetStatus(cb[k].challenge, Failed)
    BY <1>0, <1>8 DEF TaskFails, TaskEnds, StageAfter, HolderOk, TypeOK
  <2> QED
    BY <1>1, <1>2, <1>3, <2>1, StatusTypes DEF Failed
<1>9. CASE TaskComplete(k)
  <2> DEFINE proof == [pubkey |-> cb[k].pubkey, wallet |-> cb[k].wallet]
  <2>1. /\ StageAfter(k) = "proving" /\ StageAfter(k)' = "complete"
        /\ mint[cb[k].challenge] = "answered" /\ SetStatus(cb[k].challenge, Complete(proof))
    BY <1>0, <1>9 DEF TaskComplete, TaskEnds, StageAfter, HolderOk, TypeOK
  <2>2. proof \in Proof
    <3>1. cb[k].challenge \in Challenge /\ Carries(cb[k], cb[k].challenge)
      BY <1>0, <1>3 DEF HolderOk
    <3>2. request[cb[k].challenge] \in Pending
      BY <2>1, <3>1 DEF TypeOK
    <3> QED
      BY <3>1, <3>2 DEF Carries, Pending, Proof
  <2>3. Complete(proof) \in Status /\ Complete(proof).kind = "complete"
    BY <2>2, StatusTypes DEF Complete
  <2> QED
    BY <1>1, <1>2, <1>3, <2>1, <2>3
<1> QED
  BY <1>4, <1>5, <1>6, <1>7, <1>8, <1>9 DEF Finishing

\* A final answer can only expire or go down with the process.
THEOREM FinalAnswersStay == Spec => FinalAnswerStays
<1> DEFINE Stays(c) ==
      \/ StatusView(c)' = StatusView(c) /\ results'[c].status = results[c].status
      \/ StatusView(c)' = "not_found" /\ (results[c].age = TTL - 1 \/ mode' = "down")
<1>1. ASSUME Inv, Inv', [Next]_vars, NEW c \in Challenge,
             StatusView(c) \in {"complete", "failed"}
      PROVE  Stays(c)
  <2>1. /\ c \in DOMAIN results /\ results[c].age < TTL /\ results[c].age \in 0..TTL
        /\ results[c].status.kind \in {"complete", "failed"}
    BY <1>1 DEF StatusView, Inv, TypeOK, StoreTypeOK, FlowEntry
  <2>2. /\ mint[c] = "answered"
        /\ \A k \in Callback : Holds(k) /\ cb[k].challenge = c =>
             StageAfter(k) \in {"complete", "failed"}
    BY <1>1, <2>1 DEF Inv, SlotsInv, SlotTells
  <2>3. ASSUME c \in DOMAIN results', results'[c] = results[c] PROVE Stays(c)
    BY <2>1, <2>3 DEF StatusView
  <2>4. ASSUME NEW d \in Challenge, Minting(d) \/ Authorize(d) PROVE Stays(c)
    <3>1. ASSUME CreateSlot(d) PROVE Stays(c)
      <4>1. d # c
        BY <2>2, <3>1 DEF CreateSlot
      <4> QED
        BY <1>1, <2>1, <2>3, <3>1, <4>1, InsertSlotFacts DEF CreateSlot, Inv, TypeOK
    <3>2. CASE UNCHANGED results
      BY <2>1, <2>3, <3>2
    <3> QED
      BY <2>4, <3>1, <3>2 DEF Minting, ChallengeGithub, CreateChallenge, MintDropped, Authorize
  <2>5. ASSUME NEW k \in Callback, CallbackGithub(k) PROVE Stays(c)
    <3>1. UNCHANGED results
      BY <2>5 DEF CallbackGithub, CallbackBadState, CallbackUnknown, CallbackGone, CallbackMismatch,
                  CallbackDeclined, CallbackCode, Take, Arrives
    <3> QED
      BY <2>1, <2>3, <3>1
  <2>6. ASSUME NEW k \in Callback, Finishing(k) PROVE Stays(c)
    <3>1. CASE UNCHANGED results
      BY <2>1, <2>3, <3>1
    <3>2. ASSUME Holds(k), StageAfter(k) \in {"waiting", "proving"},
                 NEW st \in Status, SetStatus(cb[k].challenge, st)
          PROVE  Stays(c)
      <4>1. cb[k].challenge # c /\ cb[k].challenge \in Challenge
        BY <1>1, <2>2, <3>2 DEF Inv, HoldersInv, HolderOk
      <4>2. c \in DOMAIN results' /\ results'[c] = results[c]
        BY <1>1, <2>1, <3>2, <4>1, SetStatusFacts DEF Inv, TypeOK
      <4> QED
        BY <2>3, <4>2
    <3> QED
      BY <1>1, <2>6, <3>1, <3>2, FinishingReports
  <2>7. CASE Tick
    <3>1. /\ c \in DOMAIN results' /\ results'[c].age = results[c].age + 1
          /\ results'[c].status = results[c].status
      <4>1. results'[c] = [results[c] EXCEPT !.age = Older(results[c].age)] /\ c \in DOMAIN results'
        BY <1>1, <2>1, <2>7, TickFacts DEF Tick, Inv, TypeOK
      <4>2. Older(results[c].age) = results[c].age + 1
        BY <2>1 DEF Older
      <4> QED
        BY <1>1, <2>1, <4>1, <4>2 DEF Inv, TypeOK, StoreTypeOK, FlowEntry
    <3> QED
      BY <2>1, <3>1, TTLAssumption DEF StatusView
  <2>8. CASE Exit \/ Crash
    BY <2>8 DEF Exit, Crash, ProcessEnds, StatusView, NoEntries
  <2>9. CASE Shutdown \/ ClientsDone \/ Start \/ UNCHANGED vars
    BY <2>1, <2>3, <2>9 DEF Shutdown, ClientsDone, Start, vars
  <2> QED
    BY <1>1, <2>4, <2>5, <2>6, <2>7, <2>8, <2>9 DEF Next
<1>2. Inv /\ Inv' /\ [Next]_vars =>
        [\A c \in Challenge : StatusView(c) \in {"complete", "failed"} => Stays(c)]_vars
  BY <1>1
<1> QED
  BY <1>2, Invariance, PTL DEF Spec, FinalAnswerStays

(***************************************************************************)
(* ClaimFlow implements ClaimLifecycle.                                    *)
(***************************************************************************)
\* The stage of a claim whose challenge someone holds is its holder's.
LEMMA StageOfOwned ==
  ASSUME SingleUse, NEW k \in Callback, Holds(k), NEW c, c = cb[k].challenge, mint[c] = "answered"
  PROVE  StageOf(c) = StageAfter(k)
<1>1. Owners(c) = {k}
  BY DEF Owners, SingleUse
<1> QED
  BY <1>1 DEF StageOf

\* The stage of a claim is its owners', the mint's if there are none.
LEMMA StageStays ==
  ASSUME NEW c \in Challenge, SameOwners, mint'[c] = mint[c],
         \A k \in Callback : Holds(k) /\ cb[k].challenge = c => StageAfter(k)' = StageAfter(k),
         SingleUse
  PROVE  StageOf(c)' = StageOf(c)
<1>1. Owners(c)' = Owners(c)
  BY DEF Owners, SameOwners
<1>2. CASE Owners(c) = {}
  BY <1>1, <1>2 DEF StageOf
<1>3. ASSUME NEW k \in Owners(c) PROVE StageOf(c)' = StageOf(c)
  <2>1. Owners(c) = {k} /\ StageAfter(k)' = StageAfter(k)
    BY <1>3 DEF Owners, SingleUse
  <2> QED
    BY <1>1, <2>1 DEF StageOf
<1> QED
  BY <1>2, <1>3

\* At the start no claim exists, and every poll would be answered 404.
LEMMA LifecycleInit == Init => Lifecycle!LInit
<1> SUFFICES ASSUME Init PROVE Lifecycle!LInit
  OBVIOUS
<1>1. \A c \in Challenge : StageOf(c) = "unborn" /\ StatusView(c) = "not_found"
  BY DEF Init, StageOf, StatusView, NoEntries
<1> QED
  BY <1>1 DEF Lifecycle!LInit

\* One claim moves on and the others stay where they are.
LEMMA AdvanceStep ==
  ASSUME NEW c \in Challenge, NEW s \in Lifecycle!After(StageOf(c)),
         StageOf(c)' = s, StatusView(c)' = s,
         \A d \in Challenge : d # c => StageOf(d)' = StageOf(d) /\ StatusView(d)' = StatusView(d)
  PROVE  Lifecycle!Advance(c, s)
BY DEF Lifecycle!Advance

\* A step that changes no stage and no answer is a stutter of the lifecycle.
LEMMA StutterStep ==
  ASSUME \A d \in Challenge : StageOf(d)' = StageOf(d) /\ StatusView(d)' = StatusView(d)
  PROVE  UNCHANGED Lifecycle!lvars
BY DEF Lifecycle!lvars

\* Every step of the server is one of the lifecycle, or none.
LEMMA LifecycleNext ==
  ASSUME TTL # 0, Inv, Inv', [Next]_vars
  PROVE  [Lifecycle!LNext]_(Lifecycle!lvars)
<1> USE DEF Inv
<1>1. ASSUME NEW c \in Challenge, CreateSlot(c) PROVE [Lifecycle!LNext]_(Lifecycle!lvars)
  <2>1. /\ mint[c] = "created" /\ mint'[c] = "answered"
        /\ \A d \in Challenge : d # c => mint'[d] = mint[d]
        /\ UNCHANGED <<cb, task>>
    BY <1>1 DEF CreateSlot, TypeOK
  <2>2. SameOwners /\ \A j \in Callback : StageAfter(j)' = StageAfter(j)
    BY <2>1 DEF SameOwners, Holds, StageAfter
  <2>3. Owners(c)' = {}
    BY <2>1 DEF Owners, HoldersInv, HolderOk, Holds
  <2>4. StageOf(c) = "unborn" /\ StageOf(c)' = "waiting"
    BY <2>1, <2>3 DEF StageOf
  <2>5. /\ DOMAIN results' = {d \in DOMAIN results : results[d].age < TTL} \cup {c}
        /\ results'[c] = [status |-> Waiting, age |-> 0]
        /\ \A d \in DOMAIN results' : d # c => results'[d] = results[d]
    BY <1>1, InsertSlotFacts DEF CreateSlot, TypeOK
  <2>6. StatusView(c)' = "waiting"
    BY <2>5, TTLAssumption DEF StatusView, Waiting
  <2>7. \A d \in Challenge : d # c => StageOf(d)' = StageOf(d) /\ StatusView(d)' = StatusView(d)
    BY <2>1, <2>2, <2>5, StageStays DEF StatusView
  <2>8. "waiting" \in Lifecycle!After(StageOf(c)) /\ "waiting" \in Lifecycle!Stage
    BY <2>4 DEF Lifecycle!After, Lifecycle!Stage
  <2>9. Lifecycle!Advance(c, "waiting")
    BY <2>4, <2>6, <2>7, <2>8, AdvanceStep
  <2> QED
    BY <2>8, <2>9 DEF Lifecycle!LNext
<1>2. ASSUME NEW c \in Challenge, Minting(c) \/ Authorize(c), ~CreateSlot(c)
      PROVE  [Lifecycle!LNext]_(Lifecycle!lvars)
  <2>1. /\ UNCHANGED <<results, cb, task>>
        /\ \A d \in Challenge : \/ mint'[d] = mint[d]
                               \/ {mint[d], mint'[d]} \cap {"answered", "lost"} = {}
    <3>1. CASE Authorize(c)
      BY <3>1 DEF Authorize
    <3>2. ASSUME NEW p \in Pubkey, NEW w \in Wallet, ChallengeGithub(c, p, w)
          PROVE  /\ UNCHANGED <<results, cb, task>> /\ mint[c] = "unborn"
                 /\ mint' = [mint EXCEPT ![c] = "creating"]
      BY <3>2 DEF ChallengeGithub
    <3>3. CASE CreateChallenge(c) \/ MintDropped(c)
      BY <3>3 DEF CreateChallenge, MintDropped, TypeOK
    <3> QED
      BY <1>2, <3>1, <3>2, <3>3 DEF Minting, TypeOK
  <2>2. SameOwners /\ \A j \in Callback : StageAfter(j)' = StageAfter(j)
    BY <2>1 DEF SameOwners, Holds, StageAfter
  <2>3. \A d \in Challenge : StageOf(d)' = StageOf(d)
    <3>1. ASSUME NEW d \in Challenge, mint'[d] # mint[d] PROVE StageOf(d)' = StageOf(d)
      BY <2>1, <3>1 DEF StageOf
    <3> QED
      BY <2>2, <3>1, StageStays
  <2> QED
    BY <2>1, <2>3, StutterStep DEF StatusView
<1>3. ASSUME NEW k \in Callback, CallbackGithub(k) PROVE [Lifecycle!LNext]_(Lifecycle!lvars)
  <2>1. UNCHANGED <<results, mint, task>> /\ cb[k].pc = "idle" /\ ~Holds(k)
    BY <1>3 DEF CallbackGithub, CallbackBadState, CallbackUnknown, CallbackGone, CallbackMismatch,
                CallbackDeclined, CallbackCode, Take, Arrives, Holds
  <2>2. /\ \A j \in Callback : j # k => cb'[j] = cb[j]
        /\ cb'[k].pc \in {"refused", "reporting", "exchanging"}
    <3>1. ASSUME NEW c, NEW p, NEW code, NEW pc \in {"reporting", "exchanging"},
                 Take(k, c, p, code, pc)
          PROVE  (\A j \in Callback : j # k => cb'[j] = cb[j]) /\ cb'[k].pc = pc
      BY <3>1 DEF Take, TypeOK
    <3>2. CASE Refuse(k)
      BY <3>2 DEF Refuse, TypeOK, CallbackRecord
    <3> QED
      BY <1>3, <3>1, <3>2
         DEF CallbackGithub, CallbackBadState, CallbackUnknown, CallbackGone, CallbackMismatch,
             CallbackDeclined, CallbackCode
  <2>3. /\ \A j \in Callback : j # k => /\ Holds(j)' <=> Holds(j)
                                        /\ cb'[j].challenge = cb[j].challenge
                                        /\ StageAfter(j)' = StageAfter(j)
        /\ Holds(k)' => StageAfter(k)' = "waiting"
    BY <2>1, <2>2 DEF Holds, StageAfter
  <2>4. ASSUME NEW d \in Challenge PROVE StageOf(d)' = StageOf(d)
    <3>1. CASE Holds(k)' /\ cb'[k].challenge = d
      <4>1. Owners(d) = {}
        BY <2>1, <2>3, <3>1 DEF Owners, SingleUse
      <4>2. mint'[d] = "answered" \/ mint'[d] # "answered"
        OBVIOUS
      <4>3. CASE mint'[d] = "answered"
        BY <2>1, <2>3, <3>1, <4>1, <4>3, StageOfOwned DEF StageOf, Owners, SingleUse
      <4>4. CASE mint'[d] # "answered"
        BY <2>1, <4>4 DEF StageOf
      <4> QED
        BY <4>3, <4>4
    <3>2. CASE ~(Holds(k)' /\ cb'[k].challenge = d)
      <4>1. Owners(d)' = Owners(d)
        BY <2>1, <2>3, <3>2 DEF Owners
      <4>2. CASE Owners(d) = {}
        BY <2>1, <4>1, <4>2 DEF StageOf
      <4>3. ASSUME NEW j \in Owners(d) PROVE StageOf(d)' = StageOf(d)
        <5>1. Owners(d) = {j} /\ StageAfter(j)' = StageAfter(j)
          BY <2>1, <2>3, <4>3 DEF Owners, SingleUse
        <5> QED
          BY <2>1, <4>1, <5>1 DEF StageOf
      <4> QED
        BY <4>2, <4>3
    <3> QED
      BY <3>1, <3>2
  <2> QED
    BY <2>1, <2>4, StutterStep DEF StatusView
<1>4. ASSUME NEW k \in Callback, Finishing(k) PROVE [Lifecycle!LNext]_(Lifecycle!lvars)
  <2>1. /\ SameOwners /\ UNCHANGED mint
        /\ \A j \in Callback : j # k => StageAfter(j)' = StageAfter(j)
    BY <1>4, FinishingReports
  <2>2. CASE StageAfter(k)' = StageAfter(k) /\ UNCHANGED results
    <3>1. \A d \in Challenge : StageOf(d)' = StageOf(d)
      BY <2>1, <2>2, StageStays
    <3> QED
      BY <2>2, <3>1, StutterStep DEF StatusView
  <2>3. ASSUME NEW c \in Challenge, c = cb[k].challenge, Holds(k), mint[c] = "answered",
               \/ StageAfter(k) = "waiting" /\ StageAfter(k)' \in {"proving", "failed"}
               \/ StageAfter(k) = "proving" /\ StageAfter(k)' \in {"complete", "failed"},
               NEW st \in Status, st.kind = StageAfter(k)', SetStatus(c, st)
        PROVE  [Lifecycle!LNext]_(Lifecycle!lvars)
    <3>1. Owners(c) = {k} /\ Owners(c)' = {k}
      BY <2>1, <2>3 DEF Owners, SameOwners, SingleUse
    <3>2. StageOf(c) = StageAfter(k) /\ StageOf(c)' = st.kind
      BY <2>1, <2>3, <3>1 DEF StageOf
    <3>3. /\ DOMAIN results' = DOMAIN results \cup {c}
          /\ results'[c] = [status |-> st, age |-> 0]
          /\ \A d \in DOMAIN results : d # c => results'[d] = results[d]
      BY <2>3, SetStatusFacts DEF TypeOK
    <3>4. StatusView(c)' = st.kind
      BY <3>3, TTLAssumption DEF StatusView
    <3>5. \A d \in Challenge : d # c => StageOf(d)' = StageOf(d)
      BY <2>1, <2>3, StageStays
    <3>6. \A d \in Challenge : d # c => StatusView(d)' = StatusView(d)
      BY <3>3 DEF StatusView
    <3>7. st.kind \in Lifecycle!After(StageOf(c)) /\ st.kind \in Lifecycle!Stage
      BY <2>3, <3>2 DEF Lifecycle!After, Lifecycle!Stage
    <3>8. Lifecycle!Advance(c, st.kind)
      BY <3>2, <3>4, <3>5, <3>6, <3>7, AdvanceStep
    <3> QED
      BY <3>7, <3>8 DEF Lifecycle!LNext
  <2>4. Holds(k) => cb[k].challenge \in Challenge
    BY DEF HoldersInv, HolderOk
  <2> QED
    BY <1>4, <2>2, <2>3, <2>4, FinishingReports
<1>5. CASE Tick
  <2> DEFINE S == {c \in Challenge : StatusView(c)' = "not_found"}
  <2>1. UNCHANGED <<mint, cb, task>>
    BY <1>5 DEF Tick
  <2>2. \A d \in Challenge : StageOf(d)' = StageOf(d)
    BY <2>1, StageStays DEF SameOwners, Holds, StageAfter
  <2>3. \A d \in Challenge : StatusView(d)' = IF d \in S THEN "not_found" ELSE StatusView(d)
    <3>1. /\ DOMAIN results' = DOMAIN results
          /\ \A c \in DOMAIN results :
               results'[c] = [results[c] EXCEPT !.age = Older(results[c].age)]
      BY <1>5, TickFacts DEF Tick, TypeOK
    <3>2. ASSUME NEW d \in DOMAIN results
          PROVE  /\ results'[d].status = results[d].status
                 /\ results'[d].age < TTL => results[d].age < TTL
      BY <3>1, TTLAssumption DEF TypeOK, StoreTypeOK, FlowEntry, Older
    <3> QED
      BY <3>1, <3>2 DEF StatusView
  <2>4. Lifecycle!Expire(S)
    BY <2>2, <2>3 DEF Lifecycle!Expire
  <2> QED
    BY <2>4 DEF Lifecycle!LNext
<1>6. CASE Exit \/ Crash
  <2>1. ProcessEnds
    BY <1>6 DEF Exit, Crash
  <2>2. \A c \in Challenge : StageOf(c)' = IF StageOf(c) = "unborn" THEN "unborn" ELSE "lost"
    <3>1. ASSUME NEW c \in Challenge
          PROVE  StageOf(c)' = IF mint[c] \in {"answered", "lost"} THEN "lost" ELSE "unborn"
      BY <2>1 DEF ProcessEnds, StageOf, TypeOK, MintState
    <3>2. ASSUME NEW c \in Challenge
          PROVE  StageOf(c) = "unborn" <=> mint[c] \notin {"answered", "lost"}
      BY DEF StageOf, StageAfter
    <3> QED
      BY <3>1, <3>2
  <2>3. \A c \in Challenge : StatusView(c)' = "not_found"
    BY <2>1 DEF ProcessEnds, StatusView, NoEntries
  <2>4. Lifecycle!Restart
    BY <2>2, <2>3 DEF Lifecycle!Restart
  <2> QED
    BY <2>4 DEF Lifecycle!LNext
<1>7. CASE Shutdown \/ ClientsDone \/ Start \/ UNCHANGED vars
  <2>1. UNCHANGED <<mint, cb, task, results>>
    BY <1>7 DEF Shutdown, ClientsDone, Start, vars
  <2>2. \A d \in Challenge : StageOf(d)' = StageOf(d)
    BY <2>1, StageStays DEF SameOwners, Holds, StageAfter
  <2> QED
    BY <2>1, <2>2, StutterStep DEF StatusView
<1> QED
  BY <1>1, <1>2, <1>3, <1>4, <1>5, <1>6, <1>7 DEF Next

\* Every poll of every claim is answered as the abstract lifecycle allows,
\* provided that challenges live at all.
THEOREM Refinement == ASSUME TTL # 0 PROVE Spec => ImplementsLifecycle
<1>1. Init => Lifecycle!LInit
  BY LifecycleInit
<1>2. Inv /\ Inv' /\ [Next]_vars => [Lifecycle!LNext]_(Lifecycle!lvars)
  BY LifecycleNext
<1> QED
  BY <1>1, <1>2, Invariance, PTL DEF Spec, ImplementsLifecycle, Lifecycle!LSpec
=============================================================================
