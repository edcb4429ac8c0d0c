---------------------------- MODULE MCGovernance ----------------------------
(***************************************************************************)
(* Governance for TLC, from a deployment whose admin is a1.  A proposal    *)
(* writes either the verifier and the code or the issuers and policies,    *)
(* and nothing relates the two, so each behaviour has one of them as its   *)
(* focus and a council of its own.                                         *)
(***************************************************************************)
EXTENDS Governance

CONSTANTS a1, a2, a3, v2, r1, wasm

VARIABLE focus

Pair == [members |-> <<a2, a3>>, threshold |-> 2]
Solo == [members |-> <<a2>>, threshold |-> 1]
Councils == {Pair, Solo}

\* Everything that can move the verifier or the code.
VerifierTimelocks == {[action |-> 1, arg |-> v2], [action |-> 6, arg |-> wasm]}
VerifierCouncilActions ==
    {[action |-> 1, arg |-> v2], [action |-> 5, arg |-> v2],
     [action |-> 6, arg |-> v2], [action |-> 7, arg |-> v2]}

\* Everything else a proposal can write; the fifth timelock type is unknown.
PolicyTimelocks ==
    {[action |-> 2, arg |-> a3], [action |-> 3, arg |-> 2], [action |-> 4, arg |-> r1],
     [action |-> 5, arg |-> r1]}
PolicyCouncilActions ==
    {[action |-> 2, arg |-> a3], [action |-> 3, arg |-> r1], [action |-> 4, arg |-> r1]}

Timelocks == VerifierTimelocks \cup PolicyTimelocks
CouncilActions == VerifierCouncilActions \cup PolicyCouncilActions

Made(p) == [action |-> p.action, arg |-> p.arg]

OnFocus ==
    IF focus = "verifier"
      THEN /\ UNCHANGED <<issuerVars, credentialVars>>
           /\ council' # None => council'.members = Pair.members
           /\ \A p \in DOMAIN proposals' : Made(proposals'[p]) \in VerifierTimelocks
           /\ \A p \in DOMAIN councilProposals' :
                Made(councilProposals'[p]) \in VerifierCouncilActions
      ELSE /\ UNCHANGED verifierVars
           /\ council' # None => council'.members = Solo.members
           /\ Len(proposals') <= 1 /\ now' <= 2
           /\ \A p \in DOMAIN proposals' : Made(proposals'[p]) \in PolicyTimelocks
           /\ \A p \in DOMAIN councilProposals' :
                Made(councilProposals'[p]) \in PolicyCouncilActions

FocusedInit == focus \in {"verifier", "policy"} /\ GovernanceStart /\ admin = a1

FocusedSpec ==
    /\ FocusedInit
    /\ [][GovernanceNext /\ OnFocus /\ UNCHANGED focus]_<<focus, now, governanceVars>>
=============================================================================
