------------------------------ MODULE AppState ------------------------------
(***************************************************************************)
(* The in-memory store of the backend (src/src/state.rs): two maps behind  *)
(* two separate RwLocks, both keyed by the random challenge id.            *)
(*                                                                         *)
(*   challenges   what an OAuth callback consumes, exactly once            *)
(*   results      where a claim stands, as the result route reports it     *)
(*                                                                         *)
(* No lock is held across an await and no critical section takes the other *)
(* lock, so each critical section is one atomic operator here; a method    *)
(* with two critical sections (create_challenge) is two operators, and the *)
(* module that composes them may let anything happen in between.           *)
(*                                                                         *)
(* An Instant is modelled by the age of its entry.  The code looks at an   *)
(* age only to compare it with the TTL, so ages stop counting at TTL.      *)
(***************************************************************************)
EXTENDS Integers, Functions

CONSTANTS Challenge,   \* challenge ids; a minted id is random and never reused
          Pubkey,      \* compressed keys the challenge route accepts
          Wallet,      \* non-zero 20-byte wallet addresses
          TTL,         \* challenge_ttl_secs, in ticks
          None         \* Rust's Option::None

ASSUME TTLAssumption == TTL \in Nat
ASSUME NoneAssumption == None \notin Challenge

VARIABLES challenges, results

(***************************************************************************)
(* A PendingChallenge.  The PKCE verifier drawn for challenge c is random; *)
(* it is named by c itself.  There is one platform, so no platform field.  *)
(***************************************************************************)
Pending == [pubkey : Pubkey, verifier : Challenge, wallet : Wallet, age : 0..TTL]

\* What identifies a finished proof bundle: who may use it.
Proof == [pubkey : Pubkey, wallet : Wallet]

\* The two Pending phases of FlowStatus, its Complete and its Failed.
Status == [kind : {"waiting", "proving", "failed"}, proof : {None}]
            \cup [kind : {"complete"}, proof : Proof]

Waiting        == [kind |-> "waiting", proof |-> None]
OauthComplete  == [kind |-> "proving", proof |-> None]
Failed         == [kind |-> "failed",  proof |-> None]
Complete(p)    == [kind |-> "complete", proof |-> p]

FlowEntry == [status : Status, age : 0..TTL]

NoEntries == [c \in {} |-> None]

(***************************************************************************)
(* Map operations.                                                         *)
(***************************************************************************)
Put(f, c, v)    == [x \in DOMAIN f \cup {c} |-> IF x = c THEN v ELSE f[x]]
Without(f, c)   == Restrict(f, DOMAIN f \ {c})

\* A sweep that keeps entries strictly younger than one tick before the TTL.
SweepEarly(f)   == Restrict(f, {c \in DOMAIN f : f[c].age + 1 < TTL})

\* HashMap::retain of the entries younger than the TTL.
Sweep(f)        == Restrict(f, {c \in DOMAIN f : f[c].age < TTL})

Older(age)      == IF age < TTL THEN age + 1 ELSE age
AllOlder(f)     == [c \in DOMAIN f |-> [f[c] EXCEPT !.age = Older(@)]]

(***************************************************************************)
(* The critical sections.                                                  *)
(***************************************************************************)
\* create_challenge, first lock: sweep the challenges, add the new one.
InsertChallenge(c, pending) == challenges' = Put(Sweep(challenges), c, pending)

\* create_challenge, second lock: sweep the results, open the pending slot.
InsertSlot(c) ==
  results' = Put(Sweep(results), c, [status |-> Waiting, age |-> 0])

\* A consume that only looks the challenge up.
Lookup(c) == challenges' = challenges

\* consume_challenge: whatever the caller then decides, the entry is gone.
Consume(c) == challenges' = Without(challenges, c)

\* A set_status that only updates a slot that is still there.
SetStatusIfPresent(c, status) ==
  results' = IF c \in DOMAIN results THEN Put(results, c, [status |-> status, age |-> 0])
                                     ELSE results

\* set_status: an unconditional insert, which also refreshes the age.
SetStatus(c, status) ==
  results' = Put(results, c, [status |-> status, age |-> 0])

(***************************************************************************)
(* status_json: the status of a slot, unless it is unknown or expired.     *)
(* Reading changes nothing.                                                *)
(***************************************************************************)
ViewUnaged(c) == IF c \in DOMAIN results THEN results[c].status.kind ELSE "not_found"

StatusView(c) == IF c \in DOMAIN results /\ results[c].age < TTL
                   THEN results[c].status.kind
                   ELSE "not_found"

StoreTypeOK ==
  /\ DOMAIN challenges \subseteq Challenge
  /\ challenges \in [DOMAIN challenges -> Pending]
  /\ DOMAIN results \subseteq Challenge
  /\ results \in [DOMAIN results -> FlowEntry]
=============================================================================
