------------------------------- MODULE DutWire ------------------------------
(* DutLink says what driver and device make of a request and of a reply.     *)
(* Here each datagram under way is the frame that is on the wire, whole or   *)
(* cut short after any byte, and both ends make of the bytes what their code *)
(* makes of them.                                                            *)
EXTENDS DutLink, DutCodec

CONSTANT Identity   \* what the device says of itself

\* The encoders raise for what does not fit its field: nothing is sent then.
ASSUME DutWireAssumption ==
  /\ Identity \in [fw_major: Byte, fw_minor: Byte, serial: Nat, name: Seq(Byte)]
  /\ {Identity.serial \div 16777216, Len(Identity.name)} \subseteq Byte
  /\ \A request \in Requests : request.msg = "REQ_ANALOG" => request.arg \in Byte

\* The relays of the device in a state of the bench, and a reading in volts.
RelayStates(w) == <<[name |-> <<108>>, driven |-> w % 2 = 0], [name |-> <<111, 99>>, driven |-> FALSE]>>
ReadingOf(reading) == reading.world * 10 + reading.correction

EncodeRequest(request) ==
  CASE request.msg = "REQ_ANALOG"         -> encode_analog_request(request.arg)
    [] request.msg = "REQ_SET_CORRECTION" -> encode_correction_request(request.arg)
    [] OTHER                              -> encode(request.msg, <<>>)

EncodeReply(r) ==
  CASE r.msg = "RSP_IDENT"  -> encode_ident_response(Identity)
    [] r.msg = "RSP_RELAYS" -> encode_relay_response(RelayStates(r.reading.world))
    [] r.msg = "RSP_ANALOG" -> encode_analog_response(r.echo, ReadingOf(r.reading))
    [] r.msg = "RSP_ACK"    -> encode_ack(MsgId[r.about])
    [] r.msg = "RSP_NACK"   ->
         encode_nack(MsgId[r.about],
                     IF r.about = "REQ_ANALOG" THEN NackReason.BAD_CHANNEL ELSE NackReason.BAD_VALUE)

-----------------------------------------------------------------------------
\* _DutHandler.handle and DutLogic.execute: the bytes sent back, or none.
ServerMakesOf(raw) ==
  LET frame == decode(raw)
      id == frame.value.msg_id
      payload == frame.value.payload
      nack(reason) == encode_nack(id, reason)
  IN CASE ~frame.ok -> <<>>
       [] frame.ok /\ id = MsgId.REQ_IDENT  -> encode_ident_response(Identity)
       [] frame.ok /\ id = MsgId.REQ_RELAYS -> encode_relay_response(RelayStates(world))
       [] frame.ok /\ id = MsgId.REQ_ANALOG ->
            LET channel == decode_analog_request(payload)
            IN IF ~channel.ok THEN nack(NackReason.BAD_LENGTH)
               ELSE IF channel.value \notin ValidChannels THEN nack(NackReason.BAD_CHANNEL)
               ELSE encode_analog_response(channel.value,
                      ReadingOf([world |-> world, correction |-> correction]))
       [] frame.ok /\ id = MsgId.REQ_SET_CORRECTION ->
            LET factor == decode_correction_request(payload)
            IN IF ~factor.ok THEN nack(NackReason.BAD_LENGTH)
               ELSE IF factor.value \notin ValidFactors THEN nack(NackReason.BAD_VALUE)
               ELSE encode_ack(id)
       [] OTHER -> nack(NackReason.UNKNOWN_MESSAGE)

\* The decoder of the operation that made the request.
OperationMakesOf(request, payload) ==
  CASE request.msg = "REQ_IDENT"  -> decode_ident_response(payload)
    [] request.msg = "REQ_RELAYS" -> decode_relay_response(payload)
    [] request.msg = "REQ_ANALOG" ->
         LET reading == decode_analog_response(payload)
         IN IF reading.ok /\ reading.value.channel = request.arg
            THEN Decoded(reading.value.value) ELSE Malformed
    [] request.msg = "REQ_SET_CORRECTION" ->
         LET echoed == decode_ack(payload)
         IN IF echoed.ok /\ echoed.value = MsgId.REQ_SET_CORRECTION THEN echoed ELSE Malformed

\* _transact and the operation around it, on one datagram.
DriverMakesOf(request, raw) ==
  LET frame == decode(raw)
      payload == frame.value.payload
      nack == decode_nack(payload)
  IN IF ~frame.ok THEN "discarded"
     ELSE IF frame.value.msg_id = MsgId.RSP_NACK
     THEN CASE ~nack.ok -> "protocol_error"
            [] nack.ok /\ nack.value.echoed = MsgId[request.msg] -> "refused"
            [] OTHER -> "discarded"
     ELSE IF frame.value.msg_id = MsgId[Expected(request)]
     THEN IF OperationMakesOf(request, payload).ok THEN "answered" ELSE "protocol_error"
     ELSE "discarded"

\* What an operation returns for a whole answer.
Returns(request, r) ==
  CASE request.msg = "REQ_IDENT"  -> Identity
    [] request.msg = "REQ_RELAYS" -> RelayStates(r.reading.world)
    [] request.msg = "REQ_ANALOG" -> ReadingOf(r.reading)
    [] request.msg = "REQ_SET_CORRECTION" -> MsgId.REQ_SET_CORRECTION

-----------------------------------------------------------------------------
(* Properties.                                                               *)

\* A reply that arrives whole is judged by its bytes as DutLink judges it, and
\* an answer carries its value through; one that is cut short, after whatever
\* byte, never passes for an answer or for a refusal, and so never becomes a
\* reading: it is skipped or raises, as CutVerdicts has it.
RepliesSurviveTheWire ==
  Waiting =>
    \A r \in replies :
      LET request == Current.request
          raw == EncodeReply(r)
          verdict == Verdict(request, r)
      IN /\ DriverMakesOf(request, raw) = verdict
         /\ verdict = "answered" =>
              OperationMakesOf(request, decode(raw).value.payload) = Decoded(Returns(request, r))
         /\ {DriverMakesOf(request, SubSeq(raw, 1, n)) : n \in 0 .. Len(raw) - 1}
              = CutVerdicts(request, r)

\* The server answers the bytes of a request as Execute answers the request;
\* what is left of one that was cut short gets a NACK or silence, never an
\* answer, and a correction that lost a byte is not applied.
RequestsSurviveTheWire ==
  \A d \in requests :
    LET request == calls[d.call].request
        raw == EncodeRequest(request)
        cut == {SubSeq(raw, 1, n) : n \in 0 .. Len(raw) - 1}
    IN /\ ServerMakesOf(raw) = EncodeReply(Execute(d, request))
       /\ {ServerMakesOf(c) : c \in cut}
            = {<<>>} \cup (IF HasPayload(request)
                           THEN {encode_nack(MsgId[request.msg], NackReason.BAD_LENGTH)} ELSE {})
=============================================================================
