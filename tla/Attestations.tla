---------------------------- MODULE Attestations ----------------------------
(***************************************************************************)
(* The documents that travel with evidence and come back from parties that *)
(* may have rewritten them: C2PA manifests, capture attestations and time  *)
(* attestations.                                                           *)
(***************************************************************************)
EXTENDS Integers, Sequences, SequencesExt, FiniteSets
-----------------------------------------------------------------------------
(***************************************************************************)
(* The C2PA manifest of an evidence record (c2pa.py, the export and import *)
(* routes of app.py).  An exported manifest is handed to parties that may  *)
(* rewrite parts of it before it is imported.  A field is [val, form]:     *)
(* "plain" is the canonical spelling, "odd" the same value in capitals or  *)
(* padded with spaces, "bad" any ill-formed one.                           *)
(***************************************************************************)

CONSTANTS Vals,          \* values of a field
          HashFields,    \* _BINDING_HASH_FIELDS
          TextFields,    \* _BINDING_TEXT_FIELDS but for the tier
          MaxAssertions, \* _MAX_ASSERTION_COUNT
          MaxEdits       \* bound on rewrites

VARIABLES manifest,   \* the manifest in circulation, or NoManifest
          body,       \* the binding it was exported from
          edits,      \* rewrites since the export
          outcome     \* the answer to the last import of this very manifest

manifestVars == <<manifest, body, edits, outcome>>

BindingFields == HashFields \cup TextFields \cup {"tier"}
Values == [val : Vals, form : {"plain", "odd", "bad"}]
NoManifest == [generator |-> "none"]
NoBinding == [version |-> 0]
Rejected == [accepted |-> FALSE, binding |-> NoBinding, verified |-> FALSE, compared |-> {}]

ManifestInit == manifest = NoManifest /\ body = <<>> /\ edits = 0 /\ outcome = Rejected

-----------------------------------------------------------------------------
Plain(x) == [x EXCEPT !.form = "plain"]

\* _validate_hex32 and the checks of the text fields: capitals and padding pass, but
\* the tier must be one of the allowed names as it stands.
WellFormed(f, x) == x.form = "plain" \/ (x.form = "odd" /\ f # "tier")

_validate_fields(values) == \A f \in DOMAIN values : WellFormed(f, values[f])

\* _parse_binding: the normalised binding of one embedded copy, NoBinding on an error.
_parse_binding(copy) ==
    IF copy.version # 1 \/ ~_validate_fields(copy.values) THEN NoBinding
    ELSE [version |-> 1, values |-> [f \in BindingFields |-> Plain(copy.values[f])]]

EmbeddedCopies(m) == SelectSeq(m.assertions, LAMBDA a : a.label = "binding")

\* parse_c2pa_manifest: the binding, NoBinding on an error.  The size, depth, JSON and
\* required-key checks are the one flag intact.
parse_c2pa_manifest_first_copy(m) ==
    IF EmbeddedCopies(m) # <<>> THEN _parse_binding(EmbeddedCopies(m)[1].data) ELSE _parse_binding(m.binding)
parse_c2pa_manifest(m) ==
    LET top    == _parse_binding(m.binding)
        copies == EmbeddedCopies(m)
        refused == \/ ~m.intact \/ m.generator = "blank"
                   \/ Len(m.assertions) > MaxAssertions
                   \/ \E a \in ToSet(copies) : _parse_binding(a.data) = NoBinding
                   \/ m.alg # "sha256"
                   \/ top = NoBinding
                   \/ Len(copies) > 1
                   \/ copies # <<>> /\ _parse_binding(copies[1].data) # top
    IN  IF refused THEN NoBinding ELSE top

\* export_c2pa_manifest: both copies are written from the same normalised body; a
\* generator of spaces only is stripped to nothing.
export_c2pa_manifest(values, generator) ==
    LET copy == [version |-> 1, values |-> [f \in BindingFields |-> Plain(values[f])]]
    IN  [intact |-> TRUE, generator |-> generator, alg |-> "sha256", binding |-> copy,
         assertions |-> <<[label |-> "binding", data |-> copy]>>]

\* verify_round_trip: the manifest parses and is exported again unchanged.
verify_round_trip(m) ==
    LET parsed == parse_c2pa_manifest(m)
    IN  parsed # NoBinding /\ export_c2pa_manifest(parsed.values, m.generator) = m

\* corroborate_binding: only the supplied fields are compared; the tier is stripped here.
corroborate_binding(parsed, expected) ==
    LET supplied == DOMAIN expected
    IN  [valid |-> \A f \in supplied : expected[f].form # "bad",
         mismatches |-> {f \in supplied : Plain(expected[f]) # parsed.values[f]},
         compared |-> supplied]

-----------------------------------------------------------------------------
\* POST /api/c2pa/export
c2pa_export(values, generator) ==
    /\ manifest = NoManifest /\ _validate_fields(values)
    /\ manifest' = export_c2pa_manifest(values, generator)
    /\ body' = values
    /\ UNCHANGED <<edits, outcome>>

\* POST /api/c2pa/import, with an expected block or without (hasexpected).
c2pa_import(hasexpected, expected) ==
    LET parsed == parse_c2pa_manifest(manifest)
        c == corroborate_binding(parsed, expected)
    IN  /\ manifest # NoManifest
        /\ outcome' = IF parsed = NoBinding \/ (hasexpected /\ (~c.valid \/ c.mismatches # {})) THEN Rejected
                      ELSE [accepted |-> TRUE, binding |-> parsed, verified |-> hasexpected,
                            compared |-> IF hasexpected THEN c.compared ELSE {}]
        /\ UNCHANGED <<manifest, body, edits>>

\* Someone rewrites a field of either copy, adds an assertion, or damages the manifest.
Rewrite(m) ==
    /\ manifest # NoManifest /\ edits < MaxEdits /\ m # manifest
    /\ manifest' = m /\ edits' = edits + 1 /\ outcome' = Rejected
    /\ UNCHANGED body
EditField(f, x) ==
    \/ Rewrite([manifest EXCEPT !.binding.values[f] = x])
    \/ \E i \in DOMAIN manifest.assertions : manifest.assertions[i].label = "binding"
          /\ Rewrite([manifest EXCEPT !.assertions[i].data.values[f] = x])
AddAssertion(label) == Rewrite([manifest EXCEPT !.assertions = Append(@, [label |-> label, data |-> manifest.binding])])
DropAssertions == Rewrite([manifest EXCEPT !.assertions = <<>>])
Damage == Rewrite([manifest EXCEPT !.intact = FALSE]) \/ Rewrite([manifest EXCEPT !.alg = "md5"])
          \/ Rewrite([manifest EXCEPT !.binding.version = 2])

ExpectedBlocks == UNION {[S -> [val : Vals, form : {"plain", "bad"}]] : S \in SUBSET {"tier", CHOOSE f \in HashFields : TRUE}}

ManifestNext ==
    \/ \E values \in [BindingFields -> Values], generator \in {"named", "blank"} : c2pa_export(values, generator)
    \/ \E hasexpected \in BOOLEAN, expected \in ExpectedBlocks : c2pa_import(hasexpected, expected)
    \/ manifest # NoManifest /\ \E f \in BindingFields, x \in Values : EditField(f, x)
    \/ manifest # NoManifest /\ \E label \in {"binding", "other"} : AddAssertion(label)
    \/ manifest # NoManifest /\ DropAssertions
    \/ manifest # NoManifest /\ Damage

-----------------------------------------------------------------------------
(* Whichever copy a consumer reads, it reads what the import accepted: an accepted
   manifest has no embedded copy whose normal form differs from the answered binding.
   And an export nobody touched is accepted back with exactly the binding it was made
   from, however that was spelled, unless its generator was blank. *)
ImportReadsOneBinding ==
    /\ outcome.accepted =>
          /\ _parse_binding(manifest.binding) = outcome.binding
          /\ \A a \in ToSet(manifest.assertions) :
                a.label = "binding" => _parse_binding(a.data) = outcome.binding
    /\ manifest # NoManifest /\ edits = 0 /\ manifest.generator # "blank" =>
          /\ verify_round_trip(manifest)
          /\ LET c == corroborate_binding(parse_c2pa_manifest(manifest), body) IN c.valid /\ c.mismatches = {}
-----------------------------------------------------------------------------
(***************************************************************************)
(* Capture attestations (capture_attestation.py) and the route that checks *)
(* one (app.py).  A device commits to a session nonce with a per-session   *)
(* key, binds the digest of its evidence and hands the encoded document    *)
(* on; others may rewrite it before it is checked.  A hex value is a pair  *)
(* <<value, case>>; HMAC is the pair of its arguments.                     *)
(***************************************************************************)

CONSTANTS DeviceKeys, CaptureNonces, EvidenceDigests,
          NoKey,          \* the request names no device key
          MaxCaptureEdits \* bound on rewrites

VARIABLES attestation,    \* the document in circulation, or NoAttestation
          device,         \* the key, nonce and evidence it was made with
          rewrites,       \* rewrites so far
          answer          \* the last answer of the route for this very document

captureVars == <<attestation, device, rewrites, answer>>

NoAttestation == [profile |-> "none"]
NoAnswer == [status |-> 0]
Lower(v) == <<v, "lower">>
hmac(key, nonce) == <<key, nonce>>
make_device_commitment(nonce, key) == hmac(key, nonce)

_is_hex32(x) == x[2] = "lower"

\* The claims besides the commitments: a profile and version, required fields present, a
\* level and scope of the enumerations, an optional time source, optional extras.
Claims == [profile : {"v1", "v0"}, complete : BOOLEAN, level : {0, 9}, scope : {"per_session", "other"},
           source : {"none", "hardware_clock", "other"}, signing : {"none", "lower", "upper"}, camera : {"none", "object", "ill"}]
GoodClaims == {c \in Claims : c.profile = "v1" /\ c.complete /\ c.level = 0 /\ c.scope = "per_session"
                               /\ c.source # "other" /\ c.camera # "ill"}

CaptureInit == attestation = NoAttestation /\ device = <<>> /\ rewrites = 0 /\ answer = NoAnswer

-----------------------------------------------------------------------------
_validate_attestation_obj(a) == a.claims.profile = "v1" /\ a.claims.complete

_validate_attestation(a) ==
    /\ a.claims.level \in 0 .. 4
    /\ _is_hex32(a.nonce) /\ _is_hex32(a.commitment) /\ _is_hex32(a.binding)
    /\ a.claims.scope # "other"
    /\ a.claims.source # "other"

\* decode_attestation with _decode_camera_pipeline: an ill-typed camera object is dropped.
decode_attestation(a) == [a EXCEPT !.claims.camera = IF @ = "ill" THEN "none" ELSE @]
decodable(a) == _validate_attestation_obj(a) /\ _validate_attestation(a)

\* encode_attestation: the canonical document, whose digest is the attestation hash.
encode_attestation(a) ==
    [a EXCEPT !.nonce = Lower(@[1]), !.commitment = Lower(@[1]), !.binding = Lower(@[1]),
              !.claims.signing = IF @ = "upper" THEN "lower" ELSE @]
canonical_attestation_hash(a) == encode_attestation(a)

verify_device_commitment_any_session(a, key) == a.commitment[1][1] = key
verify_device_commitment(a, key) == a.commitment = Lower(hmac(key, a.nonce[1]))

\* The device makes and encodes its attestation.
Attest(key, nonce, evidence, claims) ==
    /\ attestation = NoAttestation
    /\ attestation' = encode_attestation([profile |-> "v1", claims |-> claims, nonce |-> Lower(nonce),
                          commitment |-> Lower(make_device_commitment(nonce, key)), binding |-> Lower(evidence)])
    /\ device' = <<key, nonce, evidence>>
    /\ UNCHANGED <<rewrites, answer>>

\* POST /api/capture-attestation/verify
verify_capture_attestation(digest, key) ==
    LET a == decode_attestation(attestation)
    IN  /\ attestation # NoAttestation
        /\ answer' = IF ~decodable(attestation) THEN [status |-> 400]
                     ELSE [status |-> 200, digest |-> digest[1], key |-> key,
                           hash |-> canonical_attestation_hash(a),
                           valid |-> /\ a.binding = Lower(digest[1])
                                     /\ key # NoKey => verify_device_commitment(a, key)]
        /\ UNCHANGED <<attestation, device, rewrites>>

Reword(a) ==
    /\ attestation # NoAttestation /\ rewrites < MaxCaptureEdits /\ a # attestation
    /\ attestation' = a /\ rewrites' = rewrites + 1 /\ answer' = NoAnswer
    /\ UNCHANGED device

CaptureNext ==
    \/ \E key \in DeviceKeys, nonce \in CaptureNonces, evidence \in EvidenceDigests, claims \in GoodClaims :
          Attest(key, nonce, evidence, claims)
    \/ \E digest \in EvidenceDigests \X {"lower", "upper"}, key \in DeviceKeys \cup {NoKey} :
          verify_capture_attestation(digest, key)
    \/ attestation # NoAttestation /\
          \/ \E n \in CaptureNonces \X {"lower", "upper"} : Reword([attestation EXCEPT !.nonce = n])
          \/ \E n \in EvidenceDigests \X {"lower", "upper"} : Reword([attestation EXCEPT !.binding = n])
          \/ \E k \in DeviceKeys, n \in CaptureNonces : Reword([attestation EXCEPT !.commitment = Lower(hmac(k, n))])
          \/ \E claims \in Claims : Reword([attestation EXCEPT !.claims = claims])

-----------------------------------------------------------------------------
(* A valid answer for a request that names the device key means that the holder of that
   key committed to the nonce of the document and that the document is about the digest
   asked for; the hash answered with it is stable, since decoding and encoding the
   hashed form gives it back; and a document nobody rewrote is found valid for exactly
   the digest and the key it was made with. *)
ValidMeansCommitted ==
    answer.status = 200 =>
        /\ answer.valid =>
              /\ answer.digest = attestation.binding[1]
              /\ answer.key # NoKey => attestation.commitment[1] = <<answer.key, attestation.nonce[1]>>
        /\ encode_attestation(decode_attestation(answer.hash)) = answer.hash
        /\ rewrites = 0 => answer.valid = (answer.digest = device[3] /\ answer.key \in {NoKey, device[1]})
-----------------------------------------------------------------------------
(***************************************************************************)
(* Time attestations: the envelope a client creates, anchors and validates *)
(* (time_attestation.py and its routes in app.py) and the offline check of *)
(* a TSA certificate chain (rfc3161_chain.py).  The envelope lives with    *)
(* the client between the calls.  A certificate is [subject, issuer, key,  *)
(* signer, from, to, serial, supported]; a chain lists its leaf first.     *)
(***************************************************************************)

CONSTANTS Chains,           \* certificate chains an anchor may carry; <<>> for none
          TrustStores,      \* [roots, revoked]: sequences of certificates and sets of serials
          NoTime,
          MaxAnchorCount,   \* MAX_ANCHOR_COUNT
          MaxFutureDrift,   \* MAX_FUTURE_DRIFT_SECONDS
          HourLimit, DayLimit,   \* the one hour and one day of check_backdating_risk
          MaxCertsPerChain,
          MaxClock          \* bound on the clock

VARIABLES clock,      \* the backend's clock
          envelope    \* the client's envelope, or NoEnvelope

anchorVars == <<clock, envelope>>

NoEnvelope == [digest |-> "none", claimed |-> NoTime, observed |-> NoTime, stellar |-> 0, rfc3161 |-> <<>>]
Clock == 0 .. MaxClock

AnchorInit == clock = 0 /\ envelope = NoEnvelope

-----------------------------------------------------------------------------
\* rfc3161_chain.py
_validity_at(cert, at) == IF at < cert.from THEN "invalid" ELSE IF at > cert.to THEN "expired" ELSE "valid"
_verify_signature(issuer, subject) == subject.signer = issuer.key
Signed(issuer, subject) == subject.issuer = issuer.subject /\ _verify_signature(issuer, subject)

_decode_cert_entries(chain) == chain # <<>> /\ Len(chain) <= MaxCertsPerChain

\* The first failing status of the certificates of a chain, "valid" if none fails.
FirstFailure(statuses) ==
    LET bad == {i \in DOMAIN statuses : statuses[i] # "valid"}
    IN  IF bad = {} THEN "valid" ELSE statuses[CHOOSE i \in bad : \A j \in bad : i <= j]

\* The trust anchor: the last certificate itself, or the first trusted root that signed
\* it, whose validity then decides alone.
ResolveAnchor_any_root(last, store, at) ==
    IF \E r \in ToSet(store.roots) : last.issuer = r.subject THEN "valid" ELSE "untrusted"
ResolveAnchor(last, store, at) ==
    LET issuers == {i \in DOMAIN store.roots : Signed(store.roots[i], last)}
        first   == CHOOSE i \in issuers : \A j \in issuers : i <= j
    IN  IF last \in ToSet(store.roots)
        THEN IF last.issuer = last.subject /\ ~_verify_signature(last, last) THEN "invalid" ELSE "valid"
        ELSE IF issuers = {} THEN "untrusted" ELSE _validity_at(store.roots[first], at)

\* validate_rfc3161_certificate_chain: the status, in the order of the checks.
validate_rfc3161_certificate_chain(chain, store, at) ==
    LET algorithms == FirstFailure([i \in DOMAIN chain |-> IF chain[i].supported THEN "valid" ELSE "untrusted"])
        windows    == FirstFailure([i \in DOMAIN chain |-> _validity_at(chain[i], at)])
        linked     == \A i \in 1 .. Len(chain) - 1 : Signed(chain[i + 1], chain[i])
    IN  CASE ~_decode_cert_entries(chain) -> "invalid"
          [] algorithms # "valid" -> algorithms
          [] windows # "valid" -> windows
          [] \E c \in ToSet(chain) : c.serial \in store.revoked -> "invalid"
          [] ~linked -> "invalid"
          [] OTHER -> ResolveAnchor(Last(chain), store, at)

-----------------------------------------------------------------------------
\* create_time_attestation, through its route: the backend's clock is the observed time.
create_time_attestation(claimed) ==
    /\ envelope = NoEnvelope
    /\ envelope' = [NoEnvelope EXCEPT !.digest = "evidence", !.claimed = claimed, !.observed = clock]
    /\ UNCHANGED clock

Anchors(e) == e.stellar + Len(e.rfc3161)

add_stellar_anchor(e) == [e EXCEPT !.stellar = @ + 1]
add_rfc3161_anchor(e, gen, status, chain) ==
    [e EXCEPT !.rfc3161 = Append(@, [gen_time |-> gen, status |-> status, chain |-> chain])]

\* The anchor route: one anchor of either kind or both, each refused at the limit; the
\* status of a token is the one the client names, and a certificate chain is not taken.
anchor_time_attestation(stellar, token, gen, status) ==
    LET e1 == IF stellar THEN add_stellar_anchor(envelope) ELSE envelope
        e2 == IF token THEN add_rfc3161_anchor(e1, gen, status, <<>>) ELSE e1
    IN  /\ envelope # NoEnvelope /\ (stellar \/ token)
        /\ Anchors(e2) <= MaxAnchorCount
        /\ envelope' = e2 /\ UNCHANGED clock

\* A library caller adds a token with the chain it came with.
add_chained_anchor(gen, status, chain) ==
    /\ envelope # NoEnvelope /\ Anchors(envelope) < MaxAnchorCount
    /\ envelope' = add_rfc3161_anchor(envelope, gen, status, chain)
    /\ UNCHANGED clock

verify_rfc3161_anchor_chain(a, store) ==
    [a EXCEPT !.status = IF a.chain = <<>> THEN "unverified"
                         ELSE validate_rfc3161_certificate_chain(a.chain, store, a.gen_time)]

\* verify_rfc3161_anchors: every token's status is computed anew.
verify_rfc3161_anchors(store) ==
    /\ envelope # NoEnvelope /\ envelope.rfc3161 # <<>>
    /\ envelope' = [envelope EXCEPT !.rfc3161 = [i \in DOMAIN @ |-> verify_rfc3161_anchor_chain(@[i], store)]]
    /\ UNCHANGED clock

TooLate(t, now) == t # NoTime /\ t > now + MaxFutureDrift

\* The validation route: the errors it lists.
validate_time_attestation(e, digest, now) ==
    {error \in {"digest", "claimed", "observed", "genTime"} :
        \/ error = "digest" /\ digest # e.digest
        \/ error = "claimed" /\ TooLate(e.claimed, now)
        \/ error = "observed" /\ TooLate(e.observed, now)
        \/ error = "genTime" /\ \E a \in ToSet(e.rfc3161) : TooLate(a.gen_time, now)}

\* The sum of check_backdating_risk's adjustments: 0 none, 1 low, 2 medium, 3 high.
check_backdating_risk_by_status(e) ==
    LET independent == e.stellar > 0 \/ \E a \in ToSet(e.rfc3161) : a.status = "valid"
    IN  IF independent THEN 0 ELSE 2
check_backdating_risk(e) ==
    LET both     == e.claimed # NoTime /\ e.observed # NoTime
        drift    == both /\ (e.claimed - e.observed > DayLimit \/ e.observed - e.claimed > DayLimit)
        predates == both /\ e.claimed < e.observed - HourLimit
        r1 == IF e.stellar > 0 \/ e.rfc3161 # <<>> THEN 0 ELSE 2
        r2 == IF ~drift THEN r1 ELSE IF r1 = 0 THEN 1 ELSE IF r1 = 2 THEN 3 ELSE r1
        r3 == IF ~predates THEN r2 ELSE IF r2 \in {0, 1} THEN 2 ELSE IF r2 = 2 THEN 3 ELSE r2
    IN  IF e.observed = NoTime /\ r3 = 0 THEN 1 ELSE r3

Tick == clock < MaxClock /\ clock' = clock + 1 /\ UNCHANGED envelope

AnchorNext ==
    \/ \E claimed \in Clock \cup {NoTime} : create_time_attestation(claimed)
    \/ \E stellar, token \in BOOLEAN, gen \in Clock, status \in {"unverified", "valid"} :
          anchor_time_attestation(stellar, token, gen, status)
    \/ \E gen \in Clock, chain \in Chains : add_chained_anchor(gen, "unverified", chain)
    \/ \E store \in TrustStores : verify_rfc3161_anchors(store)
    \/ Tick

-----------------------------------------------------------------------------

\* The reference: a path of supported, unrevoked, unexpired certificates, each signed by
\* the next, that ends in a trusted root or in a certificate a trusted, valid root signed.
TrustedPath(chain, store, at) ==
    /\ chain # <<>> /\ Len(chain) <= MaxCertsPerChain
    /\ \A c \in ToSet(chain) : c.supported /\ at \in c.from .. c.to /\ c.serial \notin store.revoked
    /\ \A i \in 1 .. Len(chain) - 1 : Signed(chain[i + 1], chain[i])
    /\ \/ Last(chain) \in ToSet(store.roots)
       \/ \E root \in ToSet(store.roots) : Signed(root, Last(chain)) /\ at \in root.from .. root.to

(* Verifying the anchors of an envelope leaves "valid" only on a token whose certificates
   form a trusted path at the token's own time, and never on a status the client named;
   conversely a trusted path is recognised whenever no two trusted roots share a name. *)
ValidMeansTrustedPath ==
    \A store \in TrustStores : verify_rfc3161_anchors(store) =>
     \A i \in DOMAIN envelope'.rfc3161 :
         LET a == envelope'.rfc3161[i]
             onename == \A r, s \in ToSet(store.roots) : r.subject = s.subject => r = s
         IN  /\ a.status = "valid" => TrustedPath(a.chain, store, a.gen_time)
             /\ onename /\ TrustedPath(a.chain, store, a.gen_time) => a.status = "valid"

(* More evidence never looks worse and time only heals: no call that adds an anchor to an
   envelope, or verifies the ones it has, raises the backdating risk the routes report,
   and an unchanged envelope never gains a validation error as the clock moves on. *)
EvidenceNeverLooksWorse ==
    envelope # NoEnvelope =>
     /\ check_backdating_risk(envelope') <= check_backdating_risk(envelope)
     /\ envelope' = envelope => validate_time_attestation(envelope', "evidence", clock')
                                  \subseteq validate_time_attestation(envelope, "evidence", clock)
=============================================================================
