------------------------------ MODULE Startup ------------------------------
(***************************************************************************)
(* From the environment to the first claim: Config::parse (config.rs),     *)
(* build_state (lib.rs), bind and serve (main.rs), and where what was not  *)
(* checked at startup surfaces: run_verification (routes/callback.rs),     *)
(* which takes host and port out of NOTARY_URL for every claim, after its  *)
(* user has authorized it.                                                 *)
(*                                                                         *)
(* A setting is what its text means: a value, Malformed text, or Absent.   *)
(* A URL is what the url crate makes of its text; it drops the port that   *)
(* is the default of an http or https URL, and "notary.example:7047" is a  *)
(* URL without host whose scheme is "notary.example".                      *)
(***************************************************************************)
EXTENDS Naturals

CONSTANTS Address,             \* 20-byte addresses
          Zero,                \* the zero address
          NotaryUrl,           \* [scheme, host, port] as written in NOTARY_URL
          Claim,               \* claims whose user has authorized them
          MaxRestarts,         \* bound on the restarts explored
          Malformed, Absent, None

ASSUME StartupAssumption == MaxRestarts \in Nat /\ Zero \in Address
ASSUME NoneIsNoError == None \notin {"no host", "no port"}

VARIABLES cfg,        \* the environment of the process
          port_free,  \* whether HOST:PORT can be bound
          phase,
          runtime,    \* what build_state has parsed
          claim,      \* what became of each claim
          restarts

vars == <<cfg, port_free, phase, runtime, claim, restarts>>

AddressText == Address \cup {Malformed, Absent}

\* NOTARY_URL and CHALLENGE_TTL_SECS have defaults, CHAIN_ID has none.
Config == [notary_url : NotaryUrl \cup {Malformed}, chain_id : {"set", Malformed, Absent},
           notary_address : AddressText, verifier_contract_address : AddressText,
           base_url : {"set", "empty"}]

NoClaims == [c \in Claim |-> None]

Init == /\ cfg \in Config /\ port_free \in BOOLEAN
        /\ phase = "parsing" /\ runtime = None /\ claim = NoClaims /\ restarts = 0

Goes(to) == phase' = to /\ UNCHANGED <<cfg, port_free, claim, restarts>>

\* clap: a required setting is absent or a typed one does not parse.
Usable == /\ cfg.notary_url # Malformed
          /\ cfg.chain_id \notin {Malformed, Absent}
          /\ cfg.notary_address # Absent /\ cfg.verifier_contract_address # Absent

Parse == /\ phase = "parsing"
         /\ Goes(IF Usable THEN "building" ELSE "exited")
         /\ UNCHANGED runtime

\* An address that falls back to zero.
AddressOrZero(text) == IF text \in Address THEN {text} ELSE {Zero}
\* hex_to_address: the address, or none and an error.
HexToAddress(text) == {text} \cap Address

BuildState ==
  /\ phase = "building" /\ cfg.base_url # "empty"
  /\ \E notary \in HexToAddress(cfg.notary_address),
        verifier \in HexToAddress(cfg.verifier_contract_address) :
       runtime' = [notary_address |-> notary, verifier_contract |-> verifier,
                   notary_url |-> cfg.notary_url]
  /\ Goes("binding")

BuildFails ==
  /\ phase = "building"
  /\ \/ HexToAddress(cfg.notary_address) = {}
     \/ HexToAddress(cfg.verifier_contract_address) = {}
     \/ cfg.base_url = "empty"
  /\ Goes("exited") /\ UNCHANGED runtime

Bind == phase = "binding" /\ Goes(IF port_free THEN "serving" ELSE "exited") /\ UNCHANGED runtime

\* ctrl_c, or the process is killed.
Stop == phase = "serving" /\ Goes("exited") /\ UNCHANGED runtime

(***************************************************************************)
(* run_verification: Url::host_str, Url::port, TcpStream::connect.         *)
(***************************************************************************)
DefaultPort(scheme) == CASE scheme = "http" -> 80 [] scheme = "https" -> 443 [] OTHER -> None

PortOr7047(url) == IF url.port = None THEN 7047 ELSE url.port
PortOf(url) == IF url.port = DefaultPort(url.scheme) THEN None ELSE url.port

Dial(url) ==
  CASE url.host = None                        -> [error |-> "no host", at |-> None]
    [] url.host # None /\ PortOf(url) = None  -> [error |-> "no port", at |-> None]
    [] OTHER                                  -> [error |-> None, at |-> <<url.host, PortOf(url)>>]

Verify(c) ==
  /\ phase = "serving" /\ claim[c] = None
  /\ claim' = [claim EXCEPT ![c] = [dialled |-> Dial(runtime.notary_url),
                                    notary_address |-> runtime.notary_address,
                                    verifier_contract |-> runtime.verifier_contract]]
  /\ UNCHANGED <<cfg, port_free, phase, runtime, restarts>>

\* The operator starts the program once more, with other settings or the same.
Restart == /\ phase = "exited" /\ restarts < MaxRestarts
           /\ cfg' \in Config /\ port_free' \in BOOLEAN
           /\ phase' = "parsing" /\ runtime' = None /\ claim' = NoClaims
           /\ restarts' = restarts + 1

Next == Parse \/ BuildState \/ BuildFails \/ Bind \/ Stop \/ Restart \/ \E c \in Claim : Verify(c)

Spec == Init /\ [][Next]_vars

(***************************************************************************)
(* Safety.                                                                 *)
(***************************************************************************)
\* A typo in an address "fails at startup rather than on the first claim"
\* (lib.rs:31): what a claim is checked against is what the operator wrote.
AddressTypoNeverServes ==
  \A c \in Claim : claim[c] # None =>
    /\ claim[c].notary_address = cfg.notary_address
    /\ claim[c].verifier_contract = cfg.verifier_contract_address

\* A claim is proved against the endpoint NOTARY_URL spells out, or not at all.
DialsTheConfiguredNotary ==
  \A c \in Claim : claim[c] # None /\ claim[c].dialled.error = None =>
    claim[c].dialled.at = <<cfg.notary_url.host, cfg.notary_url.port>>
=============================================================================
