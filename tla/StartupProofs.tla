--------------------------- MODULE StartupProofs ---------------------------
(***************************************************************************)
(* Proofs about Startup, for any settings and any number of restarts.      *)
(***************************************************************************)
EXTENDS Startup, TLAPS

\* What a claim is proved with, by a process that was started with cfg.
Checked == [dialled |-> Dial(cfg.notary_url), notary_address |-> cfg.notary_address,
            verifier_contract |-> cfg.verifier_contract_address]

\* A process that has got past build_state runs on what the operator wrote, to
\* the letter, and so does every claim it has looked at.
Inv ==
  /\ phase \in {"binding", "serving"} =>
       runtime = [notary_address |-> cfg.notary_address,
                  verifier_contract |-> cfg.verifier_contract_address,
                  notary_url |-> cfg.notary_url]
  /\ DOMAIN claim = Claim
  /\ \A c \in Claim : claim[c] # None => claim[c] = Checked

\* A claim is dialled at the port that NOTARY_URL spells out, or not at all.
LEMMA DialFacts ==
  ASSUME NEW url, Dial(url).error = None
  PROVE  Dial(url).at = <<url.host, url.port>>
<1>1. url.host # None /\ PortOf(url) # None
  BY NoneIsNoError DEF Dial
<1>2. PortOf(url) = url.port
  BY <1>1 DEF PortOf
<1> QED
  BY <1>1, <1>2 DEF Dial

\* Parsing and building stop at the first setting that means nothing, and a new
\* process begins with no claim.
THEOREM Invariance == Spec => []Inv
<1>1. Init => Inv
  BY DEF Init, Inv, NoClaims
<1>2. Inv /\ [Next]_vars => Inv'
  <2> SUFFICES ASSUME Inv, [Next]_vars PROVE Inv'
    OBVIOUS
  <2>1. CASE Parse \/ BuildFails \/ Bind \/ Stop
    BY <2>1 DEF Parse, BuildFails, Bind, Stop, Goes, Inv, Checked
  <2>2. CASE BuildState
    BY <2>2 DEF BuildState, Goes, HexToAddress, Inv, Checked
  <2>3. CASE Restart
    BY <2>3 DEF Restart, NoClaims, Inv
  <2>4. ASSUME NEW c \in Claim, Verify(c) PROVE Inv'
    <3>1. /\ UNCHANGED <<cfg, phase, runtime>> /\ phase = "serving"
          /\ claim' = [claim EXCEPT ![c] = Checked]
      <4>1. /\ UNCHANGED <<cfg, phase, runtime>> /\ phase = "serving"
          /\ claim' = [claim EXCEPT ![c] = [dialled |-> Dial(runtime.notary_url),
                                            notary_address |-> runtime.notary_address,
                                            verifier_contract |-> runtime.verifier_contract]]
      BY <2>4 DEF Verify
    <4>2. /\ runtime.notary_url = cfg.notary_url
          /\ runtime.notary_address = cfg.notary_address
          /\ runtime.verifier_contract = cfg.verifier_contract_address
      BY <4>1 DEF Inv
    <4> QED
      BY <4>1, <4>2 DEF Checked
    <3>2. Checked' = Checked
      BY <3>1 DEF Checked
    <3> QED
      BY <3>1, <3>2 DEF Inv
  <2>5. CASE UNCHANGED vars
    BY <2>5 DEF vars, Inv, Checked
  <2> QED
    BY <2>1, <2>2, <2>3, <2>4, <2>5 DEF Next
<1> QED
  BY <1>1, <1>2, PTL DEF Spec

\* What a claim is checked against is what the operator wrote: no typo in an
\* address ever serves.
THEOREM TyposNeverServe == Spec => []AddressTypoNeverServes
<1>1. Inv => AddressTypoNeverServes
  BY DEF Inv, AddressTypoNeverServes, Checked
<1> QED
  BY <1>1, Invariance, PTL

\* A claim is proved against the endpoint NOTARY_URL spells out, or not at all.
THEOREM ConfiguredNotaryDialled == Spec => []DialsTheConfiguredNotary
<1>1. Inv => DialsTheConfiguredNotary
  BY DialFacts DEF Inv, DialsTheConfiguredNotary, Checked
<1> QED
  BY <1>1, Invariance, PTL
=============================================================================
