--------------------------- MODULE MCRegistration ---------------------------
(***************************************************************************)
(* Registration for TLC, from a deployment whose admin is a1.  Proof ids   *)
(* are 0 and 1; the second element of batch b has id 1 - b.  A behaviour   *)
(* has a focus that leaves out the entry points the question at hand does  *)
(* not depend on, so that a run's state space is the sum over its foci.    *)
(***************************************************************************)
EXTENDS Registration

CONSTANTS Foci, a1, a2, x1, x2, n1, n2

VARIABLE focus

XorIds == [b \in 0 .. 1 |-> [i \in 0 .. 1 |-> (b + i) % 2]]

Windows == {<<1, 1>>}
FirstDomain == {{1}}
NamedDomains == {{2, 4}}
BothScopes == {{1, 2}}
RevokePair == {<<0, 1>>, <<1, 1>>}
OneSchema == {[hash |-> "h", issuer_namespace |-> "n", version |-> 1, attribute_count |-> 1]}

\* A batch of one, and batches of two with distinct and with equal fields.
Batches ==
    {<<[video_hash |-> x1, nullifier |-> n1]>>,
     <<[video_hash |-> x1, nullifier |-> n1], [video_hash |-> x2, nullifier |-> n2]>>,
     <<[video_hash |-> x2, nullifier |-> n1], [video_hash |-> x2, nullifier |-> n1]>>}

FramesIn(S) == \A p \in ProofIds : origin'[p] # None => origin'[p].frame \in S

\* Silent witnesses of every frame, and batches.
OnTier1 ==
    /\ UNCHANGED <<revocationRoot, sourceBatch, schema, checked>>
    /\ FramesIn({"demo", "v1", "v2", "browser", "batch"})

\* One nullifier and everything that spends it.
OnSpend ==
    /\ UNCHANGED <<versions, pauses>>
    /\ FramesIn({"v2", "browser", "none"})
    /\ nullifiers' \subseteq Verifiers \X {n1}

\* One proof, registered by a source, an issuer or a delegate, as time passes.
OnNamed ==
    /\ proof'[1] = None
    /\ proof'[0] # None => proof'[0].metadata_hash = ZeroHash /\ Len(history'[0]) <= 2
    /\ proofTtl' \in {0, 2}
    /\ envelope[0] # None => UNCHANGED envelope

\* Two proofs of a source and every lifecycle entry point.
OnLifecycle ==
    /\ UNCHANGED <<issuerVars, pauseVars, delegationVars>>
    /\ proofTtl' \in {0, 1}
    /\ now' <= 2

OnFocus ==
    \/ focus = "tier1" /\ OnTier1
    \/ focus = "spend" /\ OnSpend
    \/ focus = "named" /\ OnNamed
    \/ focus = "lifecycle" /\ OnLifecycle

FocusedInit == focus \in Foci /\ Init /\ admin = a1

FocusedSpec ==
    /\ FocusedInit
    /\ [][Next /\ OnFocus /\ UNCHANGED focus]_<<focus, vars>>
=============================================================================
