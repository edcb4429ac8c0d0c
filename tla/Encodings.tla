----------------------------- MODULE Encodings ------------------------------
(***************************************************************************)
(* Three encodings the backend checks before it believes what they carry:  *)
(* the verifier's public inputs, Stellar addresses, and the envelope       *)
(* hidden in a video.                                                      *)
(***************************************************************************)
EXTENDS Integers, Sequences, FiniteSets, SequencesExt
-----------------------------------------------------------------------------
(***************************************************************************)
(* The verifier-input codec (verifier_inputs.py): public-input frames,     *)
(* field by field, and the three schemas that parse them.  A 32-byte field *)
(* is the pair <<high, low>> of its 16-byte halves, each a digit below     *)
(* HalfBase; the field modulus lies inside the range the pair can express. *)
(***************************************************************************)

CONSTANTS HalfBase,          \* the number of values of one half
          Modulus,           \* BN254_SCALAR_FIELD_MODULUS
          DomainTag,         \* SILENT_WITNESS_DOMAIN_TAG, compared as bytes, never reduced
          Separator,         \* REVOCATION_DOMAIN_SEPARATOR
          CircuitVersion,    \* EXPECTED_CIRCUIT_VERSION
          ProofLens, MinProof, MaxProof   \* proof lengths tried and MIN/MAX_PROOF_BYTES

VARIABLES frame,    \* the fields of the public inputs submitted so far
          proof     \* the length of the submitted proof

codecVars == <<frame, proof>>

Half == 0 .. HalfBase - 1
Field == Half \X Half
Zero == <<0, 0>>
SchemaNames == {"silent_witness/v1", "silent_witness/v2", "revocation_witness/v1"}
CodecInit(lengths) == frame = <<>> /\ proof \in lengths

-----------------------------------------------------------------------------
Value(f) == f[1] * HalfBase + f[2]
is_canonical_field(f) == Value(f) < Modulus
encode_field_to_bytes32_hex(v) == <<v \div HalfBase, v % HalfBase>>
encode_public_inputs(values) == [i \in DOMAIN values |-> encode_field_to_bytes32_hex(values[i])]

\* The checks of the parsers; each yields a reject code or "".
_split_fields(fs, count) == IF Len(fs) # count THEN "length" ELSE ""
_require_half_padding_lax(f) == ""
_require_half_padding(f) == IF f[1] # 0 THEN "padding" ELSE ""
_require_canonical(fs) == IF \E i \in DOMAIN fs : ~is_canonical_field(fs[i]) THEN "non_canonical_field" ELSE ""
_require_non_zero(f) == IF f = Zero THEN "zero_field" ELSE ""
_version_of(f) == IF f[1] # 0 THEN -1 ELSE f[2]
Equals(f, expected, code) == IF f = expected THEN "" ELSE code

First(codes) ==
    LET failed == {i \in DOMAIN codes : codes[i] # ""}
    IN  IF failed = {} THEN "" ELSE codes[CHOOSE i \in failed : \A j \in failed : i <= j]

\* Each parser: the first failing check in the codec's order.
parse_silent_witness_inputs(fs) ==
    IF Len(fs) # 5 THEN _split_fields(fs, 5)
    ELSE First(<<_require_half_padding(fs[1]), _require_half_padding(fs[2]), _require_canonical(SubSeq(fs, 1, 4)),
                 _require_non_zero(fs[3]), _require_non_zero(fs[4]), _require_non_zero(fs[5]),
                 Equals(fs[5], DomainTag, "domain_mismatch")>>)

parse_silent_witness_v2_inputs(fs) ==
    IF Len(fs) # 8 THEN _split_fields(fs, 8)
    ELSE First(<<_require_half_padding(fs[1]), _require_half_padding(fs[2]),
                 IF _version_of(fs[8]) = CircuitVersion THEN "" ELSE "version_mismatch",
                 _require_canonical(SubSeq(fs, 1, 6)),
                 _require_non_zero(fs[3]), _require_non_zero(fs[4]), _require_non_zero(fs[7]),
                 Equals(fs[7], DomainTag, "domain_mismatch")>>)

parse_revocation_witness_inputs(fs) ==
    IF Len(fs) # 4 THEN _split_fields(fs, 4)
    ELSE First(<<_require_canonical(fs), _require_non_zero(fs[1]), _require_non_zero(fs[2]), _require_non_zero(fs[4]),
                 Equals(fs[3], Separator, "domain_mismatch")>>)

parse_public_inputs(schema, fs) ==
    CASE schema = "silent_witness/v1" -> parse_silent_witness_inputs(fs)
      [] schema = "silent_witness/v2" -> parse_silent_witness_v2_inputs(fs)
      [] schema = "revocation_witness/v1" -> parse_revocation_witness_inputs(fs)
      [] OTHER -> "unknown_schema"

check_proof_bounds(n) == IF n < MinProof THEN "proof_undersize" ELSE IF n > MaxProof THEN "proof_oversize" ELSE ""

\* classify: the public inputs first, then the proof; "" is acceptance.
classify(schema, fs, n) == First(<<parse_public_inputs(schema, fs), check_proof_bounds(n)>>)

\* What the parsers return to their callers: the two low halves of the video hash joined,
\* and the other fields as numbers.
Parsed(schema, fs) ==
    IF schema = "revocation_witness/v1" THEN <<Value(fs[1]), Value(fs[2]), Value(fs[4])>>
    ELSE <<fs[1][2], fs[2][2], Value(fs[3]), Value(fs[4])>>
         \o (IF schema = "silent_witness/v2" THEN <<Value(fs[5]), Value(fs[6])>> ELSE <<>>)

\* The frame a prover writes for parsed inputs.
Frame(schema, p) ==
    IF schema = "revocation_witness/v1" THEN encode_public_inputs(<<p[1], p[2], Value(Separator), p[3]>>)
    ELSE encode_public_inputs(p) \o
         (IF schema = "silent_witness/v2" THEN <<DomainTag, <<0, CircuitVersion>>>> ELSE <<DomainTag>>)

Submit(f) == Len(frame) < 8 /\ frame' = Append(frame, f) /\ UNCHANGED proof
CodecNext == \E f \in Field : Submit(f)

-----------------------------------------------------------------------------
(* The codec is not malleable: a frame one schema accepts is the only frame that stands
   for the inputs parsed from it, since writing those inputs again gives the same frame;
   no other schema accepts it; and every input it stands for is a proper field element,
   with a root and a nullifier other than zero. *)
AcceptedFramesAreCanonical ==
    \A schema \in SchemaNames : classify(schema, frame, proof) = "" =>
        LET p == Parsed(schema, frame)
        IN  /\ Frame(schema, p) = frame
            /\ \A other \in SchemaNames \ {schema} : classify(other, frame, proof) # ""
            /\ \A i \in DOMAIN p : p[i] < Modulus
            /\ p[Len(p) - (IF schema = "silent_witness/v2" THEN 2 ELSE 0)] # 0
-----------------------------------------------------------------------------
(***************************************************************************)
(* Stellar addresses (strkey.py): a version byte, a payload and a CRC-16,  *)
(* written in base 32.  Bits are sequences of 0 and 1, most significant    *)
(* first; the payload has PayloadBytes bytes instead of 32.                *)
(***************************************************************************)

CONSTANTS PayloadBytes,
          Payloads,        \* payloads encoded: sequences of bytes
          AccountVersion, ContractVersion   \* _VERSION_BYTE_ED25519_PUBLIC, _VERSION_BYTE_CONTRACT

VARIABLES address,   \* the address as typed: a sequence of 5-bit symbols
          intended   \* [version, text]: the address meant

strkeyVars == <<address, intended>>

Symbol == 0 .. 31
Bits(n, width) == [i \in 1 .. width |-> (n \div 2 ^ (width - i)) % 2]
Number(bits) == FoldLeft(LAMBDA acc, b : 2 * acc + b, 0, bits)
Xor(a, b) == [i \in DOMAIN a |-> (a[i] + b[i]) % 2]
Groups(bits, width) == [g \in 1 .. Len(bits) \div width |-> SubSeq(bits, (g - 1) * width + 1, g * width)]
Flat(groups) == FoldLeft(LAMBDA acc, g : acc \o g, <<>>, groups)

\* _CRC16_POLY
Poly == Bits(4129, 16)

\* One shift of the register, reduced by the polynomial when the top bit falls out.
Shift_unreduced(crc) == Append(Tail(crc), 0)
Shift(crc) == LET shifted == Append(Tail(crc), 0) IN IF Head(crc) = 1 THEN Xor(shifted, Poly) ELSE shifted

\* _crc16_xmodem over a sequence of bytes.
_crc16_xmodem(bytes) ==
    LET Byte(crc, byte) == FoldLeft(LAMBDA c, i : Shift(c), Xor(crc, Bits(byte, 8) \o Bits(0, 8)), <<1, 2, 3, 4, 5, 6, 7, 8>>)
    IN  FoldLeft(Byte, Bits(0, 16), bytes)

\* Base 32 without padding; a last group that is not full is filled with zeros.
_encode_base32(bytes) ==
    LET bits == Flat([i \in DOMAIN bytes |-> Bits(bytes[i], 8)])
        fill == (5 - (Len(bits) % 5)) % 5
    IN  [g \in 1 .. (Len(bits) + fill) \div 5 |-> Number(Groups(bits \o Bits(0, fill), 5)[g])]
_decode_base32(text) ==
    LET bits == Flat([i \in DOMAIN text |-> Bits(text[i], 5)])
    IN  [g \in 1 .. Len(bits) \div 8 |-> Number(Groups(bits, 8)[g])]

make_strkey(version, payload) ==
    LET raw == <<version>> \o payload
        crc == _crc16_xmodem(raw)
    IN  _encode_base32(raw \o <<Number(SubSeq(crc, 1, 8)), Number(SubSeq(crc, 9, 16))>>)

EncodedLength == Len(make_strkey(AccountVersion, [i \in 1 .. PayloadBytes |-> 0]))

\* is_valid_strkey: the length, the prefix symbol, the version byte and the checksum.
is_valid_strkey(text, version) ==
    /\ Len(text) = EncodedLength
    /\ text[1] = version \div 8
    /\ LET decoded == _decode_base32(text)
           size    == PayloadBytes + 1
       IN  /\ decoded[1] = version
           /\ _crc16_xmodem(SubSeq(decoded, 1, size))
                = Bits(decoded[size + 1], 8) \o Bits(decoded[size + 2], 8)

validate_source_address(text) == is_valid_strkey(text, AccountVersion)
validate_contract_id(text) == is_valid_strkey(text, ContractVersion)

\* A client sends an address it was given, with up to two neighbouring symbols mistyped.
Encoded ==
    {[version |-> version, text |-> make_strkey(version, payload)] :
        version \in {AccountVersion, ContractVersion}, payload \in Payloads}

StrKeyInit(encoded) == intended \in encoded /\ address = intended.text

Mistype(i, a, b) ==
    /\ address = intended.text
    /\ address' = [address EXCEPT ![i] = a, ![i + 1] = b] /\ UNCHANGED intended
StrKeyNext == \E i \in 1 .. EncodedLength - 1, a, b \in Symbol : Mistype(i, a, b)

-----------------------------------------------------------------------------
(* An address is accepted for what it was made to be and nothing else: the encoding of
   an account validates as a source address and not as a contract, the encoding of a
   contract the other way round, and no address with one or two neighbouring symbols
   mistyped validates as either. *)
MistypedAddressIsRefused ==
    /\ validate_source_address(address) = (address = intended.text /\ intended.version = AccountVersion)
    /\ validate_contract_id(address) = (address = intended.text /\ intended.version = ContractVersion)

-----------------------------------------------------------------------------
(***************************************************************************)
(* Embedding an envelope in a video and reading it back (stego.py,         *)
(* envelope.py).  The payload is n bits, and a slot of a frame holds the   *)
(* index of the bit written there, 0 for none, so a misplaced bit shows.   *)
(* Each frame has border slots, written onwards from frame to frame, and   *)
(* low-order pixel bits, written from the payload's start in every frame.  *)
(* The two ffmpeg processes may fail or be killed by their timers; the     *)
(* encoder keeps the border and may lose the low-order bits.               *)
(***************************************************************************)

CONSTANTS HeaderBits,              \* magic, size and checksum of an envelope
          MaxBits,                 \* longest payload
          BorderSlots, PixelSlots, \* _border_capacity and pixel bytes of one frame
          MaxFrames,               \* frames of a video
          Sizes                    \* frame widths and heights, for the border geometry

VARIABLES metadata,      \* what is embedded: [version, stamp, sound]
          payload_bits,  \* the length of its envelope
          clip,          \* [frames, reported]: frames there are and the count ffprobe reports, 0 for none
          geometry,      \* [w, h] of a frame
          painted,       \* the frames written: [border, pixels]
          bit_cursor,
          embedding      \* "probed" | "running" | "done" | "failed"

input == <<metadata, payload_bits, clip, geometry>>
stegoVars == <<input, painted, bit_cursor, embedding>>

StegoInputs ==
    [metadata : [version : 1 .. 3, stamp : 0 .. 2, sound : BOOLEAN],
     bits : HeaderBits .. MaxBits,
     clip : [frames : 1 .. MaxFrames, reported : 0 .. MaxFrames],
     geometry : [w : Sizes, h : Sizes]]

StegoInit(inputs) ==
    /\ \E i \in inputs :
          /\ metadata = i.metadata /\ payload_bits = i.bits
          /\ clip = i.clip /\ geometry = i.geometry
    /\ painted = <<>> /\ bit_cursor = 0 /\ embedding = "probed"

-----------------------------------------------------------------------------
\* envelope.py.  Times count the five minutes a timestamp may lie ahead of the clock; sound
\* stands for the required fields; Refused is the error.
Refused == [magic |-> 0, body |-> [version |-> 0, stamp |-> 0, sound |-> FALSE]]
_validate_base_fields(m, now) == m.sound /\ m.stamp <= now + 1
validate_v1(m, now) == _validate_base_fields(m, now) /\ m.version = 1
validate_v2(m, now) == _validate_base_fields(m, now)
Upgraded(m) == IF m.version < 2 THEN [m EXCEPT !.version = 2] ELSE m

pack_envelope(m, version, now) ==
    CASE version = 1 /\ validate_v1(m, now) -> [magic |-> 1, body |-> m]
      [] version = 2 /\ validate_v2(m, now) -> [magic |-> 2, body |-> Upgraded(m)]
      [] OTHER -> Refused
unpack_envelope(e, now) ==
    CASE e.magic = 1 /\ validate_v1(e.body, now) -> e.body
      [] e.magic = 2 /\ validate_v2(e.body, now) -> Upgraded(e.body)
      [] OTHER -> Refused.body

-----------------------------------------------------------------------------
\* The border geometry at its true scale: BORDER_BLOCK is 6, BORDER_STRIDE is 2.
Up(from, below) == [i \in 1 .. (IF below > from THEN (below - from + 5) \div 6 ELSE 0) |-> from + 6 * (i - 1)]
Down(from, above) == [i \in 1 .. (IF from > above THEN (from - above + 5) \div 6 ELSE 0) |-> from - 6 * (i - 1)]
_border_positions(w, h) ==
    LET At(line, f(_)) == [i \in DOMAIN line |-> f(line[i])]
    IN  At(Up(0, w), LAMBDA x : <<2, x>>) \o At(Up(6, h), LAMBDA y : <<y, w - 3>>)
        \o At(Down(w - 6, -1), LAMBDA x : <<h - 3, x>>) \o At(Down(h - 6, 5), LAMBDA y : <<y, 2>>)

\* The pixels of the block painted around a position, clipped to the frame.
Block(p, w, h) == {<<y, x>> \in ((p[1] - 2) .. (p[1] + 2)) \X ((p[2] - 2) .. (p[2] + 2)) :
                      y \in 0 .. h - 1 /\ x \in 0 .. w - 1}

\* _extract_from_border reads a 1 from a mean of at least 128: colours 238 and 17.
ReadsBack(covered, total, bit) ==
    LET mean == (IF bit = 1 THEN 238 * (total - covered) + 17 * covered
                            ELSE 17 * (total - covered) + 238 * covered) \div total
    IN  (mean >= 128) = (bit = 1)

-----------------------------------------------------------------------------
\* embed_metadata packs the envelope and tests the capacity, with one frame where none is reported.
embed_metadata_starts ==
    LET frames == IF clip.reported = 0 THEN 1 ELSE clip.reported
    IN  /\ embedding = "probed"
        /\ embedding' = IF pack_envelope(metadata, metadata.version, 0) = Refused
                            \/ (payload_bits > BorderSlots * frames /\ payload_bits > PixelSlots * frames)
                         THEN "failed" ELSE "running"
        /\ UNCHANGED <<input, painted, bit_cursor>>

Least(a, b) == IF a < b THEN a ELSE b

\* _embed_border_bits, starting over in every frame in the mutant.
_embed_border_bits_restart(c) == [s \in 1 .. BorderSlots |-> IF s <= payload_bits THEN s ELSE 0]
_embed_border_bits(c) == [s \in 1 .. BorderSlots |-> IF c + s <= payload_bits THEN c + s ELSE 0]
_embed_lsb_bits(kept) == [s \in 1 .. PixelSlots |-> IF kept /\ s <= payload_bits THEN s ELSE 0]

\* One turn of the loop; the encoder keeps the low-order bits of a frame or not.
EmbedFrame(kept) ==
    /\ embedding = "running" /\ Len(painted) < clip.frames
    /\ painted' = Append(painted, [border |-> _embed_border_bits(bit_cursor), pixels |-> _embed_lsb_bits(kept)])
    /\ bit_cursor' = Least(bit_cursor + BorderSlots, payload_bits)
    /\ UNCHANGED <<input, embedding>>

\* The decoder has no more frames and both processes end well.
EmbedEnds == embedding = "running" /\ Len(painted) = clip.frames /\ embedding' = "done"
             /\ UNCHANGED <<input, painted, bit_cursor>>

\* A partial frame, a failed process or an expired timer: the job raises.
EmbedFails == embedding = "running" /\ embedding' = "failed" /\ UNCHANGED <<input, painted, bit_cursor>>

StegoNext == embed_metadata_starts \/ (\E kept \in BOOLEAN : EmbedFrame(kept)) \/ EmbedEnds \/ EmbedFails

-----------------------------------------------------------------------------
\* _unpack_progressive with unpack_envelope: the header must be complete and its magic in
\* place before the size is known, and the checksum covers the rest.
_unpack_progressive(bits) ==
    /\ Len(bits) >= HeaderBits /\ \A i \in 1 .. HeaderBits : bits[i] = i
    /\ Len(bits) >= payload_bits /\ \A i \in 1 .. payload_bits : bits[i] = i

Flattened(parts) == FoldLeft(LAMBDA acc, part : acc \o part, <<>>, parts)
_extract_from_border(frames) == _unpack_progressive(Flattened([i \in DOMAIN frames |-> frames[i].border]))
_extract_from_lsb(frames) ==
    \E k \in DOMAIN frames : _unpack_progressive(Flattened([i \in 1 .. k |-> frames[i].pixels]))

\* extract_metadata: the border after each frame read, then the low-order bits.
extract_metadata(frames, now) ==
    IF (\E k \in DOMAIN frames : _extract_from_border(SubSeq(frames, 1, k))) \/ _extract_from_lsb(frames)
    THEN unpack_envelope(pack_envelope(metadata, metadata.version, 0), now) ELSE Refused.body

(* What was embedded can be read, then and later, as it was: when an embedding ended well
   and its border cursor ran through the whole payload, or the payload fits the low-order
   bits of a first frame the encoder kept, extraction gives the metadata back.  And the
   painted border carries it: in frames of at least 13 by 13 pixels no bit is misread
   because later blocks overlap its own. *)
EmbeddedIsExtracted ==
    /\ embedding = "done" =>
          \/ bit_cursor < payload_bits /\ (payload_bits > PixelSlots \/ painted[1].pixels[1] # 1)
          \/ \A now \in 0 .. 1 : extract_metadata(painted, now) = metadata
    /\ embedding = "probed" /\ geometry.w >= 13 /\ geometry.h >= 13 =>
          LET positions == _border_positions(geometry.w, geometry.h)
              block(i)  == Block(positions[i], geometry.w, geometry.h)
              later(i)  == UNION {block(j) : j \in (i + 1) .. Len(positions)}
          IN  \A i \in DOMAIN positions, bit \in {0, 1} :
                ReadsBack(Cardinality(block(i) \cap later(i)), Cardinality(block(i)), bit)
=============================================================================
