------------------------------ MODULE MCFormats ------------------------------
(***************************************************************************)
(* The documents and encodings the backend reads and writes, for TLC:      *)
(* payloads hidden in video frames, time anchors, content manifests,       *)
(* capture attestations, the public inputs of a proof, Stellar addresses   *)
(* and redacted telemetry.  They share no step, so a behaviour is about    *)
(* one of them, its focus; the others stay at one of their initial values. *)
(***************************************************************************)
EXTENDS Attestations, Encodings, Redaction, TLC

CONSTANT Foci

VARIABLE focus

formatVars == <<focus, stegoVars, anchorVars, manifestVars, captureVars, codecVars, strkeyVars, redactionVars>>

\* The inputs a behaviour may start from: all of them when it is about f, or any one.
For(f, inputs) == IF focus = f THEN inputs ELSE {CHOOSE i \in inputs : TRUE}

FormatInit ==
    /\ focus \in Foci
    /\ AnchorInit /\ ManifestInit /\ CaptureInit
    /\ StrKeyInit(For("strkey", Encoded))
    /\ RedactionInit(For("redaction", SanitizerInputs))
    /\ CodecInit(For("codec", ProofLens))
    /\ StegoInit(For("stego", StegoInputs))

FormatNext ==
    /\ IF focus = "stego" THEN StegoNext ELSE UNCHANGED stegoVars
    /\ IF focus = "anchors" THEN AnchorNext ELSE UNCHANGED anchorVars
    /\ IF focus = "manifests" THEN ManifestNext ELSE UNCHANGED manifestVars
    /\ IF focus = "capture" THEN CaptureNext ELSE UNCHANGED captureVars
    /\ IF focus = "codec" THEN CodecNext ELSE UNCHANGED codecVars
    /\ IF focus = "strkey" THEN StrKeyNext ELSE UNCHANGED strkeyVars
    /\ IF focus = "redaction" THEN RedactionNext ELSE UNCHANGED redactionVars
    /\ UNCHANGED focus

FormatSpec == FormatInit /\ [][FormatNext]_formatVars

-----------------------------------------------------------------------------
(* Inputs.                                                                  *)

\* Frames with an even, an odd and a barely sufficient border.
FrameSizes == {12, 13, 18, 20}

Cert(subject, issuer, key, signer, from, to, serial, supported) ==
    [subject |-> subject, issuer |-> issuer, key |-> key, signer |-> signer, from |-> from,
     to |-> to, serial |-> serial, supported |-> supported]
LeafCert == Cert("leaf", "inter", "kl", "ki", 0, 2, 1, TRUE)
Intermediate == Cert("inter", "root", "ki", "kr", 1, 1, 2, TRUE)
Root == Cert("root", "root", "kr", "kr", 0, 2, 3, TRUE)
ExpiredRoot == Cert("root", "root", "kr", "kr", 0, 0, 4, TRUE)
Misissued == Cert("inter", "root", "kf", "kf", 0, 2, 5, TRUE)
Unsupported == Cert("leaf", "root", "kl", "kr", 0, 3, 6, FALSE)

AnchorChains ==
    {<<>>, <<LeafCert>>, <<Intermediate>>, <<Root>>, <<Misissued>>, <<Unsupported>>, <<LeafCert, Intermediate>>,
     <<LeafCert, Misissued>>, <<Intermediate, Root>>, <<LeafCert, Intermediate, Root>>}
AnchorStores ==
    [roots : {<<>>, <<Root>>, <<ExpiredRoot, Root>>}, revoked : {{}, {Intermediate.serial}}]
Missing == -9

Tag == <<1, 1>>
RevocationTag == <<1, 0>>
StrKeyPayloads == {<<0, 0>>, <<255, 129>>}

\* Engines that run out of nodes, out of depth, and out of neither.
EngineBudgets == {[nodes |-> 4, depth |-> 2], [nodes |-> 9, depth |-> 1], [nodes |-> 9, depth |-> 3]}

-----------------------------------------------------------------------------
\* What is read is what was written.  An imported manifest names one binding, an
\* accepted frame of public inputs is the only encoding of its values, an address
\* mistyped in one or two neighbouring characters is refused, bits embedded in the
\* frames of a video are extracted again, a capture attestation is valid only for the
\* key, nonce and evidence its device committed to, and nothing sensitive is left of
\* what the sanitizer wrote.
FormatsAreExact ==
    /\ focus = "manifests" => ImportReadsOneBinding
    /\ focus = "codec" => AcceptedFramesAreCanonical
    /\ focus = "strkey" => MistypedAddressIsRefused
    /\ focus = "stego" => EmbeddedIsExtracted
    /\ focus = "capture" => ValidMeansCommitted
    /\ SensitiveTextIsGone

\* Looking again changes no verdict.  A time anchor becomes valid only by a trusted path,
\* an envelope looks no riskier for another anchor or another day, and sanitizing what was
\* sanitized changes nothing.
VerdictsAreStable ==
    [][/\ focus = "anchors" => ValidMeansTrustedPath /\ EvidenceNeverLooksWorse
       /\ focus = "redaction" => SanitizingIsStable]_formatVars
=============================================================================
