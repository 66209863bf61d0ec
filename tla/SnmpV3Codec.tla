---------------------------- MODULE SnmpV3Codec ----------------------------
(* BER as the SNMP client writes and reads it (probes/snmp.rs), and the        *)
(* SNMPv3 message built from it (probes/snmp_v3.rs).  Lengths, integers and    *)
(* OID arcs are sequences of octets; a message is its fields, a field of       *)
(* octets its length, and the layout the lengths add up to.                    *)
EXTENDS Evidence, SequencesExt

CONSTANTS
    MAX_MESSAGE_BYTES,   \* 8192
    Samples              \* what is encoded: lengths, integers, OIDs and messages

VARIABLE sample          \* the one at hand

-----------------------------------------------------------------------------
\* Lengths.

\* encode_length: the short form below 128, otherwise a count and that many octets.
encode_length(n) ==
    IF n < 128 THEN <<n>>
    ELSE IF n < 256 THEN <<129, n>>
    ELSE IF n < 65536 THEN <<130, n \div 256, n % 256>>
    ELSE <<131, n \div 65536, (n \div 256) % 256, n % 256>>

\* Reader::length and the length part of read_tlv: the length and the octets it took, or
\* Refused for the indefinite form, a count above four, or a truncated field.
length(bytes) ==
    IF bytes = <<>> THEN Refused
    ELSE IF bytes[1] < 128 THEN [value |-> bytes[1], took |-> 1]
    ELSE LET count == bytes[1] - 128
         IN  IF count = 0 \/ count > 4 \/ 1 + count > Len(bytes) THEN Refused
             ELSE [value |-> FoldLeft(LAMBDA n, b : n * 256 + b, 0, SubSeq(bytes, 2, 1 + count)),
                   took |-> 1 + count]

\* Integers: the fewest octets whose top bit is the sign.
IntegerOctets(v) ==
    LET magnitude == IF v < 0 THEN -(v + 1) ELSE v
    IN  IF magnitude < 128 THEN 1 ELSE IF magnitude < 32768 THEN 2
        ELSE IF magnitude < 8388608 THEN 3 ELSE 4
encode_integer(v) ==
    [i \in 1..IntegerOctets(v) |-> (v \div (256 ^ (IntegerOctets(v) - i))) % 256]
decode_integer_value(bytes) ==
    IF bytes = <<>> THEN 0
    ELSE FoldLeft(LAMBDA n, b : n * 256 + b, IF bytes[1] >= 128 THEN -1 ELSE 0, bytes)

\* OIDs: the first two arcs share an octet, the others are base 128 with a continuation bit.
Arc(comp) ==
    IF comp < 128 THEN <<comp>>
    ELSE IF comp < 16384 THEN <<128 + comp \div 128, comp % 128>>
    ELSE <<128 + comp \div 16384, 128 + ((comp \div 128) % 128), comp % 128>>
encode_oid(oid) ==
    IF Len(oid) < 2 THEN <<>>
    ELSE <<(oid[1] * 40 + oid[2]) % 256>>
         \o FoldLeft(LAMBDA out, comp : out \o Arc(comp), <<>>, SubSeq(oid, 3, Len(oid)))
decode_oid_value(bytes) ==
    IF bytes = <<>> THEN <<>>
    ELSE FoldLeft(LAMBDA at, b : IF b >= 128 THEN [at EXCEPT !.current = @ * 128 + (b - 128)]
                                 ELSE [comps |-> Append(at.comps, at.current * 128 + b),
                                       current |-> 0],
                  [comps |-> <<bytes[1] \div 40, bytes[1] % 40>>, current |-> 0],
                  Tail(bytes)).comps

-----------------------------------------------------------------------------
\* The message: its fields, with the length of each field of octets.

MAX_COUNTER == 2147483647
MIN_MAX_SIZE == 484
MAX_USER_NAME == 32
EngineIdLengths == 5..32
AES_SALT_LEN == 8
tag_len == 24
VERSION_3 == 3
SECURITY_MODEL_USM == 3

\* Level::flags, and SecurityLevel::flags under it.
FlagsOf(level, reportable) ==
    (CASE level = "Discovery" -> {} [] level = "AuthNoPriv" -> {"AUTH"}
       [] level = "AuthPriv" -> {"AUTH", "PRIV"})
    \cup (IF reportable THEN {"REPORTABLE"} ELSE {})

\* check_message_invariants: what both the encoder and the decoder hold a message to.
check_message_invariants(m) ==
    LET authenticated == "AUTH" \in m.flags
        encrypted == "PRIV" \in m.flags
    IN  /\ m.message_id \in 0..MAX_COUNTER
        /\ m.max_size \in MIN_MAX_SIZE..MAX_COUNTER
        /\ m.security_model = SECURITY_MODEL_USM
        /\ encrypted => authenticated
        /\ m.user_name <= MAX_USER_NAME
        /\ m.boots \in 0..MAX_COUNTER /\ m.time \in 0..MAX_COUNTER
        /\ m.authentication = (IF authenticated THEN tag_len ELSE 0)
        /\ m.privacy = (IF encrypted THEN AES_SALT_LEN ELSE 0)
        /\ authenticated => m.engine_id \in EngineIdLengths /\ m.user_name > 0

\* The octets of a TLV around n octets of content, and of its tag and length alone.
Tlv(n) == 1 + Len(encode_length(n)) + n
Prefix(n) == Tlv(n) - n
IntegerTlv(v) == Tlv(Len(encode_integer(v)))

\* The parts of the security parameters, in order.
UsmParts(m) ==
    <<Tlv(m.engine_id), IntegerTlv(m.boots), IntegerTlv(m.time), Tlv(m.user_name),
      Tlv(m.authentication), Tlv(m.privacy)>>
Total(parts) == FoldLeft(LAMBDA n, k : n + k, 0, parts)
UsmBody(m) == Total(UsmParts(m))
Header(m) == Tlv(IntegerTlv(m.message_id) + IntegerTlv(m.max_size) + Tlv(1)
                 + IntegerTlv(m.security_model))
Data(m) == IF "PRIV" \in m.flags THEN Tlv(m.scoped_pdu) ELSE m.scoped_pdu
Body(m) == IntegerTlv(m.version) + Header(m) + Tlv(Tlv(UsmBody(m))) + Data(m)

\* Fault: the tag and length of the message are taken for two octets.
AuthenticationStart_short(m) ==
    2 + IntegerTlv(m.version) + Header(m) + Prefix(Tlv(UsmBody(m))) + Prefix(UsmBody(m))
      + Total(SubSeq(UsmParts(m), 1, 4)) + Prefix(m.authentication)

\* encode_message: where it says the digest field begins, from the lengths of the pieces it
\* wrapped.
AuthenticationStart(m) ==
    LET body_offset == Tlv(Body(m)) - Body(m)
        usm_start_in_body == IntegerTlv(m.version) + Header(m)
        usm_prefix == (Tlv(Tlv(UsmBody(m))) - Tlv(UsmBody(m))) + (Tlv(UsmBody(m)) - UsmBody(m))
        auth_offset_in_usm_body == Total(SubSeq(UsmParts(m), 1, 4)) + Prefix(m.authentication)
    IN  body_offset + usm_start_in_body + usm_prefix + auth_offset_in_usm_body

\* The message encode_message builds from its arguments, with the digest field zeroed, or
\* Refused.
encode_message(args) ==
    LET m == [version |-> VERSION_3, message_id |-> args.message_id,
              max_size |-> MAX_MESSAGE_BYTES, flags |-> FlagsOf(args.level, args.reportable),
              security_model |-> SECURITY_MODEL_USM, engine_id |-> args.engine_id,
              boots |-> args.boots, time |-> args.time, user_name |-> args.user_name,
              authentication |-> IF args.level = "Discovery" THEN 0 ELSE tag_len,
              privacy |-> args.privacy, scoped_pdu |-> args.scoped_pdu,
              data_tag |-> IF args.level = "AuthPriv" THEN "octets" ELSE "sequence",
              trailing |-> FALSE]
    IN  IF ~check_message_invariants(m) \/ args.authentication # 0
           \/ Tlv(Body(m)) > MAX_MESSAGE_BYTES
        THEN Refused
        ELSE [wire |-> m, start |-> IF m.authentication = 0 THEN 0 ELSE AuthenticationStart(m),
              len |-> m.authentication]

\* Encoded::sign: only a message with a digest field of the protocol's length.
sign(encoded) == IF encoded.len # tag_len THEN Refused ELSE encoded.wire

\* decode_message: every container consumed exactly, the flags and the shape of msgData in
\* agreement, and the invariants again.  The position of the digest is read off a walk from
\* the front.
decode_message(w) ==
    LET content == Prefix(Body(w))
        header_end == content + IntegerTlv(w.version) + Header(w)
        usm_start == header_end + Prefix(Tlv(UsmBody(w))) + Prefix(UsmBody(w))
    IN  IF Tlv(Body(w)) > MAX_MESSAGE_BYTES \/ w.trailing \/ w.version # VERSION_3
           \/ ~check_message_invariants(w)
           \/ w.data_tag # (IF "PRIV" \in w.flags THEN "octets" ELSE "sequence")
        THEN Refused
        ELSE [message |-> w, encrypted |-> "PRIV" \in w.flags,
              start |-> usm_start + Total(SubSeq(UsmParts(w), 1, 4)) + Prefix(w.authentication),
              len |-> w.authentication]

\* DecodedMessage::verify, up to the digest itself: the key that signed is the key held.
verify(decoded, signed_with, key) == decoded.len = tag_len /\ signed_with = key

\* discovery_request: no engine, no user, reportable.
discovery_request(id, scoped) ==
    encode_message([message_id |-> id, level |-> "Discovery", reportable |-> TRUE,
                    engine_id |-> 0, boots |-> 0, time |-> 0, user_name |-> 0,
                    authentication |-> 0, privacy |-> 0, scoped_pdu |-> scoped])

\* encode_scoped_pdu: its length, for context and PDU fields of these lengths.
ScopedPduLen(context_engine, context_name, request_id, oid) ==
    LET varbind == Tlv(Tlv(Len(encode_oid(oid))) + 2)
        pdu == Tlv(IntegerTlv(request_id) + 2 * IntegerTlv(0) + Tlv(varbind))
    IN  Tlv(Tlv(context_engine) + Tlv(context_name) + pdu)

\* ReportReason::from_oid: the counters of the two MIBs, and nothing else.
from_oid(oid) ==
    CASE oid = <<1, 3, 6, 1, 6, 3, 15, 1, 1, 1, 0>> -> "UnsupportedSecurityLevel"
      [] oid = <<1, 3, 6, 1, 6, 3, 15, 1, 1, 2, 0>> -> "NotInTimeWindow"
      [] oid = <<1, 3, 6, 1, 6, 3, 15, 1, 1, 3, 0>> -> "UnknownUserName"
      [] oid = <<1, 3, 6, 1, 6, 3, 15, 1, 1, 4, 0>> -> "UnknownEngineId"
      [] oid = <<1, 3, 6, 1, 6, 3, 15, 1, 1, 5, 0>> -> "WrongDigest"
      [] oid = <<1, 3, 6, 1, 6, 3, 15, 1, 1, 6, 0>> -> "DecryptionError"
      [] oid = <<1, 3, 6, 1, 6, 3, 11, 2, 1, 1, 0>> -> "UnknownSecurityModel"
      [] oid = <<1, 3, 6, 1, 6, 3, 11, 2, 1, 2, 0>> -> "InvalidMessage"
      [] OTHER -> "Other"

-----------------------------------------------------------------------------
CodecInit == sample \in Samples

\* What one side writes the other reads back: every length, integer and OID is itself again
\* after the trip, in the fewest octets for an integer; and a message the encoder lets out is
\* one the decoder lets in, with the digest at the very octets the encoder filled
\* (encode_message: the position is added up from the pieces; decode_message: it is read off).
WireAgrees ==
    CASE sample.what = "length" ->
           LET read == length(encode_length(sample.n))
           IN  read # Refused /\ read = [value |-> sample.n, took |-> Len(encode_length(sample.n))]
      [] sample.what = "integer" ->
           LET octets == encode_integer(sample.n)
           IN  /\ decode_integer_value(octets) = sample.n
               /\ Len(octets) > 1 => decode_integer_value(Tail(octets)) # sample.n
      [] sample.what = "oid" -> decode_oid_value(encode_oid(sample.oid)) = sample.oid
      [] sample.what = "message" ->
           LET out == encode_message(sample.args)
               back == decode_message(out.wire)
           IN  out # Refused =>
                 /\ back # Refused /\ back.message = out.wire /\ back.len = out.len
                 /\ out.len # 0 => back.start = out.start /\ sign(out) # Refused
                                                        /\ verify(back, "key", "key")
      [] OTHER -> TRUE
=============================================================================
