---------------------------- MODULE EvidenceLife ----------------------------
(***************************************************************************)
(* What the registry promises of evidence, whoever registers it and by     *)
(* whichever entry point: an id is registered once, each registration      *)
(* claims videos nobody claimed before, and a life only moves forward,     *)
(* from registered to expired to revoked.                                  *)
(***************************************************************************)
CONSTANTS Ids, Contents

VARIABLES
    life,       \* the state of each id
    claimed     \* the contents registered under some id

LifeInit ==
    /\ life = [p \in Ids |-> "absent"]
    /\ claimed = {}

\* Some ids are registered together, each with its content.
Register ==
    \E ids \in (SUBSET Ids) \ {{}} : \E content \in [ids -> Contents] :
      /\ \A p \in ids : life[p] = "absent" /\ content[p] \notin claimed
      /\ life' = [p \in Ids |-> IF p \in ids THEN "registered" ELSE life[p]]
      /\ claimed' = claimed \cup {content[p] : p \in ids}

Expire(p) ==
    /\ life[p] = "registered"
    /\ life' = [life EXCEPT ![p] = "expired"]
    /\ UNCHANGED claimed

\* Some registered or expired ids are revoked together.
Revoke ==
    \E ids \in SUBSET Ids :
      /\ \A p \in ids : life[p] # "absent"
      /\ life' = [p \in Ids |-> IF p \in ids THEN "revoked" ELSE life[p]]
      /\ UNCHANGED claimed

LifeNext == Register \/ (\E p \in Ids : Expire(p)) \/ Revoke

LifeSpec == LifeInit /\ [][LifeNext]_<<life, claimed>>
=============================================================================
