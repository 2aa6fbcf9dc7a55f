------------------------------ MODULE DutCodec ------------------------------
(* The binary protocol of the device (layer3_hal/dut_protocol.py): frames    *)
(* are sequences of bytes, every field explicitly little-endian.  A decoder  *)
(* that raises ProtocolError returns Malformed.                              *)
EXTENDS Naturals, Sequences, SequencesExt

PROTOCOL_MARK == 165

MsgId == [REQ_IDENT |-> 1, RSP_IDENT |-> 2, REQ_RELAYS |-> 3, RSP_RELAYS |-> 4,
          REQ_ANALOG |-> 5, RSP_ANALOG |-> 6, REQ_SET_CORRECTION |-> 7,
          RSP_ACK |-> 8, RSP_NACK |-> 255]

NackReason == [UNKNOWN_MESSAGE |-> 1, BAD_LENGTH |-> 2, BAD_CHANNEL |-> 3, BAD_VALUE |-> 4]

Malformed    == [ok |-> FALSE]
Decoded(v)   == [ok |-> TRUE, value |-> v]

Byte == 0 .. 255

\* struct.pack of an unsigned integer in four bytes, the least significant first.
PackU32(v) == <<v % 256, (v \div 256) % 256, (v \div 65536) % 256, (v \div 16777216) % 256>>
UnpackU32(bytes) == bytes[1] + 256 * bytes[2] + 65536 * bytes[3] + 16777216 * bytes[4]

\* The eight bytes of a float are not looked into: the value, eight times.
PackFloat(v)       == [i \in 1..8 |-> v]
UnpackFloat(bytes) == bytes[1]

-----------------------------------------------------------------------------
encode(msg, payload) == <<PROTOCOL_MARK, MsgId[msg]>> \o payload

decode(raw) ==
  IF Len(raw) < 2 \/ raw[1] # PROTOCOL_MARK THEN Malformed
  ELSE Decoded([msg_id |-> raw[2], payload |-> SubSeq(raw, 3, Len(raw))])

encode_ident_response(ident) ==
  encode("RSP_IDENT", <<ident.fw_major, ident.fw_minor>> \o PackU32(ident.serial)
                      \o <<Len(ident.name)>> \o ident.name)

decode_ident_response(payload) ==
  IF Len(payload) < 7 \/ Len(payload) < 7 + payload[7] THEN Malformed
  ELSE Decoded([fw_major |-> payload[1], fw_minor |-> payload[2],
                serial |-> UnpackU32(SubSeq(payload, 3, 6)), name |-> SubSeq(payload, 8, 7 + payload[7])])

encode_relay_response(states) ==
  encode("RSP_RELAYS",
    <<Len(states)>> \o FlattenSeq([i \in DOMAIN states |->
      <<Len(states[i].name)>> \o states[i].name \o <<IF states[i].driven THEN 1 ELSE 0>>]))

\* A mutant: a relay whose state byte is missing reads as idle.
RelayEntry_DefaultsToIdle(payload, read) ==
  LET name_len == payload[read.pos + 1]
      end == read.pos + 1 + name_len
  IN IF read.pos >= Len(payload) \/ end > Len(payload) THEN Malformed
     ELSE Decoded([pos |-> end + 1,
                   states |-> Append(read.states, [name |-> SubSeq(payload, read.pos + 2, end),
                                                   driven |-> end < Len(payload) /\ payload[end + 1] # 0])])

\* One turn of the loop: at pos, the length of a name, the name, its state.
RelayEntry(payload, read) ==
  LET name_len == payload[read.pos + 1]
      end == read.pos + 1 + name_len
  IN IF read.pos >= Len(payload) \/ end >= Len(payload) THEN Malformed
     ELSE Decoded([pos |-> end + 1,
                   states |-> Append(read.states, [name |-> SubSeq(payload, read.pos + 2, end),
                                                   driven |-> payload[end + 1] # 0])])

decode_relay_response(payload) ==
  LET after[n \in 0 .. payload[1]] ==   \* n entries
        IF n = 0 THEN Decoded([pos |-> 1, states |-> <<>>])
        ELSE IF after[n - 1].ok THEN RelayEntry(payload, after[n - 1].value) ELSE Malformed
  IN IF payload = <<>> \/ ~after[payload[1]].ok THEN Malformed
     ELSE Decoded(after[payload[1]].value.states)

encode_analog_request(channel)  == encode("REQ_ANALOG", <<channel>>)
decode_analog_request(payload)  == IF Len(payload) # 1 THEN Malformed ELSE Decoded(payload[1])

encode_analog_response(channel, value) == encode("RSP_ANALOG", <<channel>> \o PackFloat(value))
decode_analog_response(payload) ==
  IF Len(payload) # 9 THEN Malformed
  ELSE Decoded([channel |-> payload[1], value |-> UnpackFloat(Tail(payload))])

\* A mutant: the factor is packed in single precision.
encode_correction_request_Single(factor) ==
  encode("REQ_SET_CORRECTION", [i \in 1..4 |-> factor])

encode_correction_request(factor) == encode("REQ_SET_CORRECTION", PackFloat(factor))
decode_correction_request(payload) ==
  IF Len(payload) # 8 THEN Malformed ELSE Decoded(UnpackFloat(payload))

encode_ack(echoed)   == encode("RSP_ACK", <<echoed>>)
decode_ack(payload)  == IF Len(payload) # 1 THEN Malformed ELSE Decoded(payload[1])

encode_nack(echoed, reason) == encode("RSP_NACK", <<echoed, reason>>)
decode_nack(payload) ==
  IF Len(payload) # 2 THEN Malformed ELSE Decoded([echoed |-> payload[1], reason |-> payload[2]])
=============================================================================
