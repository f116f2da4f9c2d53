------------------------------ MODULE WireCodec ------------------------------
(***************************************************************************)
(* The AMB1 frame and the payloads of its control messages as the PC reads *)
(* and writes them (wire.rs, transport/framing.rs).                        *)
(*                                                                         *)
(* A message is a sequence of bytes.  A byte has ByteValues values instead *)
(* of 256, so that TLC's integers hold four of them; the type of a frame   *)
(* stays a name.  Numbers are little-endian.  Keys, nonces and texts are   *)
(* as long as the constants say and otherwise opaque bytes.                *)
(***************************************************************************)
EXTENDS Integers, Sequences, SequencesExt

CONSTANTS
    ByteValues,         \* 256
    MAX_PAYLOAD,        \* 16 MiB
    MAX_CONTROL_PAYLOAD, \* 16 KiB
    MAX_QUALITY_MODES,  \* 256
    NONCE_BYTES, PHONE_BINDING_BYTES, CLIENT_PUBLIC_KEY_BYTES, SIGNATURE_BYTES,
    MAX_CLIENT_LABEL, MAX_ADDRESSES, FINGERPRINT_BYTES, KEY_BYTES

ASSUME WireAssumption ==
    \A n \in {ByteValues, MAX_PAYLOAD, MAX_CONTROL_PAYLOAD, MAX_QUALITY_MODES, NONCE_BYTES,
              PHONE_BINDING_BYTES,
              CLIENT_PUBLIC_KEY_BYTES, SIGNATURE_BYTES, MAX_CLIENT_LABEL, MAX_ADDRESSES,
              FINGERPRINT_BYTES, KEY_BYTES} : n \in Nat \ {0}

Byte == 0 .. ByteValues - 1
Refused == [refused |-> TRUE]      \* what a decoder returns,
NoBytes == <<>>                     \* and an encoder

\* to_le_bytes() and from_le_bytes(); At is payload[from..from + size].
Bytes(n, size) == [i \in 1 .. size |-> (n \div ByteValues^(i - 1)) % ByteValues]
At(payload, from, size) == SubSeq(payload, from + 1, from + size)
Number(payload, from, size) ==
    FoldRight(LAMBDA byte, n : (n * ByteValues) + byte, At(payload, from, size), 0)
U16(n) == Bytes(n, 2)
U32(n) == Bytes(n, 4)
Concat(parts) == FoldLeft(LAMBDA all, part : all \o part, <<>>, parts)

-----------------------------------------------------------------------------
(* The quality messages. *)

QUALITY_MODE_BYTES == 12
\* Mutant: the reserved field of a mode is left out.
EncodeMode_Unpadded(m) == U16(m.width) \o U16(m.height) \o U16(m.target_fps) \o U32(m.bitrate)
EncodeMode(m) == U16(m.width) \o U16(m.height) \o U16(m.target_fps) \o U16(0) \o U32(m.bitrate)
DecodeMode(p, at) == [width |-> Number(p, at, 2), height |-> Number(p, at + 2, 2),
                      target_fps |-> Number(p, at + 4, 2), bitrate |-> Number(p, at + 8, 4)]

CapabilityBytes(m) ==
    <<m.extension_version, m.permission>> \o U16(m.catalog_revision) \o U32(m.stream_epoch)
    \o U16(Len(m.modes)) \o Concat([i \in DOMAIN m.modes |-> EncodeMode(m.modes[i])])
EncodeCapabilities(m) ==
    IF \/ Len(m.modes) > MAX_QUALITY_MODES
       \/ Len(CapabilityBytes(m)) > MAX_CONTROL_PAYLOAD THEN NoBytes ELSE CapabilityBytes(m)
ModeCount(p) == Number(p, 8, 2)
\* Mutant: a list of one mode too many is read.
CountFits_OneMore(p) ==
    ModeCount(p) <= MAX_QUALITY_MODES + 1 /\ Len(p) = 10 + ModeCount(p) * QUALITY_MODE_BYTES
CountFits(p) ==
    ModeCount(p) <= MAX_QUALITY_MODES /\ Len(p) = 10 + ModeCount(p) * QUALITY_MODE_BYTES
DecodeCapabilities(p) ==
    IF Len(p) < 10 \/ ~CountFits(p) \/ Len(p) > MAX_CONTROL_PAYLOAD THEN Refused
    ELSE [extension_version |-> p[1], permission |-> p[2],
          catalog_revision |-> Number(p, 2, 2), stream_epoch |-> Number(p, 4, 4),
          modes |-> [i \in 1 .. ModeCount(p) |-> DecodeMode(p, 10 + (i - 1) * QUALITY_MODE_BYTES)]]

EncodePrepareQuality(m) == U32(m.request_id) \o U16(m.catalog_revision) \o U16(m.width)
                           \o U16(m.height) \o U16(m.target_fps) \o U16(0)
DecodePrepareQuality(p) ==
    IF Len(p) # 14 THEN Refused
    ELSE [request_id |-> Number(p, 0, 4), catalog_revision |-> Number(p, 4, 2),
          width |-> Number(p, 6, 2), height |-> Number(p, 8, 2), target_fps |-> Number(p, 10, 2)]

EncodeQualityResult(m) == U32(m.request_id) \o <<m.status, m.reason>> \o U16(m.applied_width)
                          \o U16(m.applied_height) \o U16(m.applied_fps) \o U16(0)
DecodeQualityResult(p) ==
    IF Len(p) # 14 THEN Refused
    ELSE [request_id |-> Number(p, 0, 4), status |-> p[5], reason |-> p[6],
          applied_width |-> Number(p, 6, 2), applied_height |-> Number(p, 8, 2),
          applied_fps |-> Number(p, 10, 2)]

EncodeEpoch(m) == U32(m.request_id) \o U32(m.stream_epoch)
DecodeEpoch(p) ==
    IF Len(p) # 8 THEN Refused
    ELSE [request_id |-> Number(p, 0, 4), stream_epoch |-> Number(p, 4, 4)]

-----------------------------------------------------------------------------
(* The authorization messages. *)

CLIENT_AUTH_VERSION == 2
AUTH_USB == 0
AUTH_LAN == 1
CLIENT_AUTH_MIN_BYTES == 1 + CLIENT_PUBLIC_KEY_BYTES + 1 + SIGNATURE_BYTES

IsZero(bytes) == \A i \in DOMAIN bytes : bytes[i] = 0
ValidTransport(transport) == transport \in {AUTH_USB, AUTH_LAN}
ValidPhoneBinding(transport, binding) ==
    /\ Len(binding) = PHONE_BINDING_BYTES
    /\ IsZero(binding) <=> transport = AUTH_USB
(* A label is not blank and has no control character; 0 stands for either. *)
ValidLabel(label) == Len(label) \in 1 .. MAX_CLIENT_LABEL /\ 0 \notin Range(label)

EncodeClientChallenge(m) == <<CLIENT_AUTH_VERSION, m.transport>> \o m.phone_binding \o m.nonce
DecodeClientChallenge(p) ==
    IF \/ Len(p) # 2 + PHONE_BINDING_BYTES + NONCE_BYTES
       \/ p[1] # CLIENT_AUTH_VERSION \/ ~ValidTransport(p[2])
       \/ ~ValidPhoneBinding(p[2], At(p, 2, PHONE_BINDING_BYTES))
    THEN Refused
    ELSE [transport |-> p[2], phone_binding |-> At(p, 2, PHONE_BINDING_BYTES),
          nonce |-> At(p, 2 + PHONE_BINDING_BYTES, NONCE_BYTES)]

(* A point starts with 4.                                                  *)
EncodeClientAuth(m) == <<CLIENT_AUTH_VERSION>> \o m.public_key \o <<Len(m.label)>>
                       \o m.label \o m.signature
DecodeClientAuth(p) ==
    LET offset == 1 + CLIENT_PUBLIC_KEY_BYTES IN
    IF Len(p) \notin CLIENT_AUTH_MIN_BYTES .. CLIENT_AUTH_MIN_BYTES + MAX_CLIENT_LABEL THEN Refused
    ELSE LET length == p[offset + 1]  label == At(p, offset + 1, length) IN
         IF \/ p[1] # CLIENT_AUTH_VERSION \/ length > MAX_CLIENT_LABEL
            \/ Len(p) # CLIENT_AUTH_MIN_BYTES + length
            \/ ~ValidLabel(label) \/ p[2] # 4
         THEN Refused
         ELSE [public_key |-> At(p, 1, CLIENT_PUBLIC_KEY_BYTES), label |-> label,
               signature |-> At(p, Len(p) - SIGNATURE_BYTES, SIGNATURE_BYTES)]

AUTH_AUTHORIZED == 0
AUTH_PENDING == 1
AUTH_REJECTED == 2
AUTH_REASON_EXPIRED == 3
ValidOutcome(m) ==
    \/ m.status = AUTH_AUTHORIZED /\ m.reason = 0 /\ m.expires > 0
    \/ m.status = AUTH_PENDING /\ m.reason = 0 /\ m.expires = 0
    \/ /\ m.status = AUTH_REJECTED /\ m.reason \in 1 .. 5
       /\ m.reason = AUTH_REASON_EXPIRED \/ m.expires = 0
EncodeClientAuthResult(m) == <<m.status, m.reason>> \o U32(m.expires)
DecodeClientAuthResult(p) ==
    IF Len(p) # 6 THEN Refused
    ELSE LET m == [status |-> p[1], reason |-> p[2], expires |-> Number(p, 2, 4)]
         IN  IF ValidOutcome(m) THEN m ELSE Refused

(* PAIRING_INFO is only read.                                              *)
PAIRING_VERSION == 1
PairingBytes(count) == 2 + count * 4 + FINGERPRINT_BYTES + KEY_BYTES
\* Mutant: what the addresses leave over is not looked at.
Fits_Roughly(length) ==
    /\ length >= PairingBytes(1)
    /\ (length - PairingBytes(0)) \div 4 \in 1 .. MAX_ADDRESSES
Fits(length) ==
    /\ length >= PairingBytes(1)
    /\ LET count == (length - PairingBytes(0)) \div 4
       IN  count \in 1 .. MAX_ADDRESSES /\ length = PairingBytes(count)
DecodePairingInfo(p) ==
    IF Len(p) < 2 THEN Refused
    ELSE IF p[1] # PAIRING_VERSION \/ p[2] \notin 1 .. MAX_ADDRESSES
            \/ Len(p) # PairingBytes(p[2]) THEN Refused
    ELSE [addresses |-> [i \in 1 .. p[2] |-> At(p, 2 + (i - 1) * 4, 4)],
          fingerprint |-> At(p, 2 + p[2] * 4, FINGERPRINT_BYTES),
          key |-> At(p, 2 + p[2] * 4 + FINGERPRINT_BYTES, KEY_BYTES)]

-----------------------------------------------------------------------------
(* The frame. *)

HEADER_SIZE == 24

(* validate_payload_size() knows the lengths of a type before its payload  *)
(* is read.                                                                *)
ValidPayloadSize(kind, length) ==
    CASE kind = "CLIENT_CHALLENGE"   -> length = 2 + PHONE_BINDING_BYTES + NONCE_BYTES
      [] kind = "CLIENT_AUTH"        -> length \in CLIENT_AUTH_MIN_BYTES ..
                                                   CLIENT_AUTH_MIN_BYTES + MAX_CLIENT_LABEL
      [] kind = "CLIENT_AUTH_RESULT" -> length = 6
      [] kind = "PAIRING_INFO"       -> Fits(length)
      [] kind = "QUALITY_CAPABILITIES" -> length \in 1 .. MAX_CONTROL_PAYLOAD
      [] kind \in {"PREPARE_QUALITY", "QUALITY_RESULT"}          -> length = 14
      [] kind \in {"PAUSED", "COMMIT_QUALITY", "PING", "PONG"}   -> length = 8
      [] kind \in {"HOST_HELLO", "IDR_REQUEST", "HELLO_ACK"}     -> length = 0
      [] kind = "VIDEO_CONFIG" -> length = 16
      [] kind = "HELLO"        -> length \in {0, 16}
      [] OTHER                 -> TRUE

Magic == <<"A", "M", "B", "1", 1>>
HeaderBytes(h) == Magic \o <<h.kind>> \o U16(h.flags) \o U32(h.sequence)
                  \o U32(h.payload_len) \o Bytes(h.pts_us, 8)
EncodeHeader(h) ==
    IF h.payload_len > MAX_PAYLOAD \/ ~ValidPayloadSize(h.kind, h.payload_len) THEN NoBytes
    ELSE HeaderBytes(h)
DecodeHeader(p) ==
    IF Len(p) # HEADER_SIZE \/ At(p, 0, 5) # Magic THEN Refused
    ELSE LET h == [kind |-> p[6], flags |-> Number(p, 6, 2), sequence |-> Number(p, 8, 4),
                   payload_len |-> Number(p, 12, 4), pts_us |-> Number(p, 16, 8)]
         IN  IF h.payload_len > MAX_PAYLOAD \/ ~ValidPayloadSize(h.kind, h.payload_len)
             THEN Refused ELSE h

NewFrame(kind, sequence, payload) ==
    LET h == [kind |-> kind, flags |-> 0, sequence |-> sequence,
              payload_len |-> Len(payload), pts_us |-> 0]
    IN  IF EncodeHeader(h) = NoBytes THEN Refused ELSE [header |-> h, payload |-> payload]
Written(frame) == EncodeHeader(frame.header) \o frame.payload
(* The reader takes a header, then as many bytes as it announces.          *)
Received(stream) ==
    IF Len(stream) < HEADER_SIZE THEN Refused
    ELSE LET h == DecodeHeader(At(stream, 0, HEADER_SIZE)) IN
         IF h = Refused \/ Len(stream) < HEADER_SIZE + h.payload_len THEN Refused
         ELSE [header |-> h, payload |-> At(stream, HEADER_SIZE, h.payload_len)]
-----------------------------------------------------------------------------
(* Inputs and what is asked of them. *)

Encode(kind, m) ==
    CASE kind = "QUALITY_CAPABILITIES" -> EncodeCapabilities(m)
      [] kind = "PREPARE_QUALITY"      -> EncodePrepareQuality(m)
      [] kind = "QUALITY_RESULT"       -> EncodeQualityResult(m)
      [] kind \in {"PAUSED", "COMMIT_QUALITY"} -> EncodeEpoch(m)
      [] kind = "CLIENT_CHALLENGE"     -> EncodeClientChallenge(m)
      [] kind = "CLIENT_AUTH"          -> EncodeClientAuth(m)
      [] kind = "CLIENT_AUTH_RESULT"   -> EncodeClientAuthResult(m)
      [] kind = "PAIRING_INFO"         ->       \* as the phone writes it
             <<PAIRING_VERSION, Len(m.addresses)>> \o Concat(m.addresses) \o m.fingerprint \o m.key
Decode(kind, p) ==
    CASE kind = "QUALITY_CAPABILITIES" -> DecodeCapabilities(p)
      [] kind = "PREPARE_QUALITY"      -> DecodePrepareQuality(p)
      [] kind = "QUALITY_RESULT"       -> DecodeQualityResult(p)
      [] kind \in {"PAUSED", "COMMIT_QUALITY"} -> DecodeEpoch(p)
      [] kind = "CLIENT_CHALLENGE"     -> DecodeClientChallenge(p)
      [] kind = "CLIENT_AUTH"          -> DecodeClientAuth(p)
      [] kind = "CLIENT_AUTH_RESULT"   -> DecodeClientAuthResult(p)
      [] kind = "PAIRING_INFO"         -> DecodePairingInfo(p)

Short == {0, 1, ByteValues^2 - 1}
Long  == {0, ByteValues - 1, ByteValues, ByteValues^4 - 1}
Filled(length) == {[i \in 1 .. length |-> b] : b \in {0, 1, ByteValues - 1}}
SomeMode == [width |-> 1, height |-> ByteValues, target_fps |-> 2, bitrate |-> ByteValues^3]

SomeMessages ==
    [kind : {"QUALITY_CAPABILITIES"},
     m : [extension_version : {1}, permission : {0, 2}, catalog_revision : Short,
          stream_epoch : Long, modes : BoundedSeq({SomeMode}, MAX_QUALITY_MODES)]]
    \union [kind : {"PREPARE_QUALITY"},
            m : [request_id : Long, catalog_revision : Short, width : Short,
                 height : Short, target_fps : {30}]]
    \union [kind : {"QUALITY_RESULT"},
            m : [request_id : Long, status : 0 .. 3, reason : {0, 7}, applied_width : Short,
                 applied_height : Short, applied_fps : {0, 30}]]
    \union [kind : {"PAUSED", "COMMIT_QUALITY"}, m : [request_id : Long, stream_epoch : Long]]
    \union [kind : {"CLIENT_CHALLENGE"},
            m : [transport : {AUTH_LAN}, phone_binding : Filled(PHONE_BINDING_BYTES)
                     \ {[i \in 1 .. PHONE_BINDING_BYTES |-> 0]}, nonce : Filled(NONCE_BYTES)]]
    \union [kind : {"CLIENT_CHALLENGE"},
            m : [transport : {AUTH_USB}, phone_binding : {[i \in 1 .. PHONE_BINDING_BYTES |-> 0]},
                 nonce : Filled(NONCE_BYTES)]]
    \union [kind : {"CLIENT_AUTH"},
            m : [public_key : {[i \in 1 .. CLIENT_PUBLIC_KEY_BYTES |-> IF i = 1 THEN 4 ELSE 0]},
                 label : UNION {Filled(n) : n \in 1 .. MAX_CLIENT_LABEL}
                     \ {[i \in 1 .. n |-> 0] : n \in 1 .. MAX_CLIENT_LABEL},
                 signature : Filled(SIGNATURE_BYTES)]]
    \union [kind : {"CLIENT_AUTH_RESULT"},
            m : {m \in [status : 0 .. 3, reason : 0 .. 6, expires : Long] : ValidOutcome(m)}]
    \union [kind : {"PAIRING_INFO"},
            m : [addresses : BoundedSeq(Filled(4), MAX_ADDRESSES) \ {<<>>},
                 fingerprint : Filled(FINGERPRINT_BYTES), key : Filled(KEY_BYTES)]]

(* The bytes a decoder skips; 0 is the first.                              *)
Reserved(kind, m) ==
    CASE kind \in {"PREPARE_QUALITY", "QUALITY_RESULT"} -> {12, 13}
      [] kind = "QUALITY_CAPABILITIES" ->
             UNION {{16 + i * QUALITY_MODE_BYTES, 17 + i * QUALITY_MODE_BYTES}
                    : i \in 0 .. Len(m.modes) - 1}
      [] OTHER -> {}

(* Every message the encoders write passes the length check of its header, *)
(* is cut out of the stream whatever follows it and is decoded to itself;  *)
(* a stream that ends earlier is no frame yet, a payload with a byte more  *)
(* or less is refused; and of two payloads that differ in a byte that is   *)
(* not reserved a decoder never makes the same message.                    *)
CodecAgrees(kind, m) ==
    LET payload == Encode(kind, m)
        frame   == NewFrame(kind, ByteValues, payload)
    IN  /\ frame # Refused
        /\ Received(Written(frame) \o <<1>>) = frame
        /\ Received(Front(Written(frame))) = Refused
        /\ Decode(kind, payload) = m
        /\ Decode(kind, Append(payload, 1)) = Refused /\ Decode(kind, Front(payload)) = Refused
        /\ \A i \in DOMAIN payload, b \in {0, 1, 2, 4, ByteValues - 1} :
               LET other == [payload EXCEPT ![i] = b] IN
               \/ i - 1 \in Reserved(kind, m)
               \/ Decode(kind, other) = Refused
               \/ Encode(kind, Decode(kind, other)) = other

(* A header announces the length of some message of its type, and no other *)
(* length passes, for its writer or for its reader.  Two checks are wider  *)
(* than the messages: a label may be empty until it is decoded, and a list *)
(* of modes is bounded only as a control payload.  A picture is not        *)
(* bounded by its type.                                                    *)
Lengths == [kind \in {message.kind : message \in SomeMessages} |->
                {Len(Encode(kind, message.m))
                 : message \in {other \in SomeMessages : other.kind = kind}}]
MayAnnounce(kind) ==
    CASE kind = "VIDEO_AU"             -> 0 .. MAX_PAYLOAD
      [] kind = "QUALITY_CAPABILITIES" -> Lengths[kind] \union 1 .. MAX_CONTROL_PAYLOAD
      [] kind = "CLIENT_AUTH"          -> Lengths[kind] \union {CLIENT_AUTH_MIN_BYTES}
      [] OTHER                         -> Lengths[kind]
HeaderKinds == DOMAIN Lengths \union {"VIDEO_AU"}
HeaderAgrees(kind, length) ==
    LET h == [kind |-> kind, flags |-> 0, sequence |-> 1, payload_len |-> length, pts_us |-> 0]
    IN  IF length \in MayAnnounce(kind) THEN DecodeHeader(EncodeHeader(h)) = h
        ELSE EncodeHeader(h) = NoBytes /\ DecodeHeader(HeaderBytes(h)) = Refused

(* One too many or too few of what a message counts, and the binding of    *)
(* the other transport: what the header lets through the decoder refuses,  *)
(* and the encoder that can fail does.                                     *)
BeyondLimits ==
    [kind : {"QUALITY_CAPABILITIES"},
     m : [extension_version : {1}, permission : {0}, catalog_revision : {1},
          stream_epoch : {1},
          modes : UNION {[1 .. n -> {SomeMode}]
                         : n \in MAX_QUALITY_MODES + 1 .. MAX_QUALITY_MODES + 3}]]
    \union [kind : {"CLIENT_AUTH"},
            m : [public_key : {[i \in 1 .. CLIENT_PUBLIC_KEY_BYTES |-> 4]},
                 label : {<<>>, [i \in 1 .. MAX_CLIENT_LABEL + 1 |-> 1]},
                 signature : Filled(SIGNATURE_BYTES)]]
    \union [kind : {"PAIRING_INFO"},
            m : [addresses : {<<>>} \union [1 .. MAX_ADDRESSES + 1 -> Filled(4)],
                 fingerprint : Filled(FINGERPRINT_BYTES), key : Filled(KEY_BYTES)]]
    \union [kind : {"CLIENT_CHALLENGE"},
            m : [transport : {AUTH_LAN}, phone_binding : {[i \in 1 .. PHONE_BINDING_BYTES |-> 0]},
                 nonce : Filled(NONCE_BYTES)]
                \union [transport : {AUTH_USB}, phone_binding : {[i \in 1 .. PHONE_BINDING_BYTES |-> 1]},
                        nonce : Filled(NONCE_BYTES)]]
BeyondIsRefused(kind, m) ==
    IF kind = "QUALITY_CAPABILITIES"
    THEN EncodeCapabilities(m) = NoBytes /\ DecodeCapabilities(CapabilityBytes(m)) = Refused
    ELSE Decode(kind, Encode(kind, m)) = Refused
=============================================================================
