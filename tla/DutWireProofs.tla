---------------------------- MODULE DutWireProofs ---------------------------
(* Theorems about DutWire: the bytes of every datagram under way, whole or   *)
(* cut short, mean at the other end what DutLink says they do.               *)
EXTENDS DutWire, DutLinkProofs, SequenceTheorems

(* Frames.                                                                   *)

Frame(id, payload)   == <<PROTOCOL_MARK, id>> \o payload
Content(id, payload) == Decoded([msg_id |-> id, payload |-> payload])

Short(payload, n) == SubSeq(payload, 1, n)

LEMMA Joined ==
  ASSUME NEW s \in Seq(Int), NEW t \in Seq(Int)
  PROVE  /\ s \o t \in Seq(Int) /\ Len(s \o t) = Len(s) + Len(t)
         /\ \A i \in 1 .. Len(s) : (s \o t)[i] = s[i]
         /\ \A i \in 1 .. Len(t) : (s \o t)[Len(s) + i] = t[i]
  <1>1. /\ s \o t \in Seq(Int) /\ Len(s \o t) = Len(s) + Len(t)
        /\ \A i \in 1 .. Len(s) + Len(t) :
             (s \o t)[i] = IF i <= Len(s) THEN s[i] ELSE t[i - Len(s)]
    BY ConcatProperties, Zenon
  <1>2. Len(s) \in Nat /\ Len(t) \in Nat
    OBVIOUS
  <1>3. ASSUME NEW i \in 1 .. Len(s) PROVE (s \o t)[i] = s[i]
    <2>1. i \in 1 .. Len(s) + Len(t) /\ i <= Len(s)
      BY <1>2
    <2> QED BY <1>1, <2>1
  <1>4. ASSUME NEW i \in 1 .. Len(t) PROVE (s \o t)[Len(s) + i] = t[i]
    <2>1. /\ Len(s) + i \in 1 .. Len(s) + Len(t) /\ ~(Len(s) + i <= Len(s))
          /\ (Len(s) + i) - Len(s) = i
      BY <1>2
    <2> QED BY <1>1, <2>1
  <1> QED BY <1>1, <1>3, <1>4

LEMMA FrameBytes ==
  ASSUME NEW id \in Int, NEW payload \in Seq(Int)
  PROVE  /\ Frame(id, payload) \in Seq(Int)
         /\ Len(Frame(id, payload)) = Len(payload) + 2
         /\ Frame(id, payload)[1] = PROTOCOL_MARK /\ Frame(id, payload)[2] = id
         /\ \A i \in 1 .. Len(payload) : Frame(id, payload)[i + 2] = payload[i]
  BY DEF Frame, PROTOCOL_MARK

LEMMA ShortBytes ==
  ASSUME NEW payload \in Seq(Int), NEW n \in 0 .. Len(payload)
  PROVE  /\ Short(payload, n) \in Seq(Int) /\ Len(Short(payload, n)) = n
         /\ \A i \in 1 .. n : Short(payload, n)[i] = payload[i]
  BY DEF Short

LEMMA DecodesFrame ==
  ASSUME NEW raw \in Seq(Int)
  PROVE  /\ Len(raw) < 2 => decode(raw) = Malformed
         /\ Len(raw) >= 2 /\ raw[1] = PROTOCOL_MARK =>
              decode(raw) = Content(raw[2], SubSeq(raw, 3, Len(raw)))
  BY DEF decode, Content

LEMMA Frames ==
  ASSUME NEW id \in Int, NEW payload \in Seq(Int)
  PROVE  /\ decode(Frame(id, payload)) = Content(id, payload)
         /\ \A n \in 0 .. 1 : decode(SubSeq(Frame(id, payload), 1, n)) = Malformed
         /\ \A n \in 0 .. Len(payload) :
              decode(SubSeq(Frame(id, payload), 1, n + 2)) = Content(id, Short(payload, n))
  <1> DEFINE raw == Frame(id, payload)
  <1>1. /\ raw \in Seq(Int) /\ Len(raw) = Len(payload) + 2
        /\ raw[1] = PROTOCOL_MARK /\ raw[2] = id
        /\ \A i \in 1 .. Len(payload) : raw[i + 2] = payload[i]
    BY FrameBytes
  <1> HIDE DEF raw
  <1>2. ASSUME NEW n \in 0 .. Len(raw)
        PROVE  /\ Short(raw, n) \in Seq(Int) /\ Len(Short(raw, n)) = n
               /\ \A i \in 1 .. n : Short(raw, n)[i] = raw[i]
    BY <1>1, <1>2, ShortBytes
  <1>3. ASSUME NEW n \in 0 .. 1 PROVE decode(Short(raw, n)) = Malformed
    <2>1. n \in 0 .. Len(raw) /\ n < 2
      BY <1>1
    <2> QED BY <1>2, <2>1, DecodesFrame
  <1>4. ASSUME NEW n \in 0 .. Len(payload)
        PROVE  decode(Short(raw, n + 2)) = Content(id, Short(payload, n))
    <2> DEFINE cut == Short(raw, n + 2)
    <2>1. n + 2 \in 0 .. Len(raw) /\ n \in Nat
      BY <1>1
    <2>2. /\ cut \in Seq(Int) /\ Len(cut) = n + 2
          /\ \A i \in 1 .. n + 2 : cut[i] = raw[i]
      BY <1>2, <2>1
    <2>3. cut[1] = PROTOCOL_MARK /\ cut[2] = id
      BY <1>1, <2>1, <2>2
    <2> HIDE DEF cut
    <2>4. decode(cut) = Content(id, SubSeq(cut, 3, n + 2))
      <3>1. Len(cut) >= 2
        BY <2>1, <2>2
      <3>2. decode(cut) = Content(cut[2], SubSeq(cut, 3, Len(cut)))
        BY <2>2, <2>3, <3>1, DecodesFrame
      <3> QED BY <2>2, <2>3, <3>2
    <2>5. SubSeq(cut, 3, n + 2) = Short(payload, n)
      <3>1. /\ SubSeq(cut, 3, n + 2) \in Seq(Int) /\ Len(SubSeq(cut, 3, n + 2)) = n
            /\ \A i \in 1 .. n : SubSeq(cut, 3, n + 2)[i] = cut[i + 2]
        BY <2>1, <2>2
      <3>2. /\ Short(payload, n) \in Seq(Int) /\ Len(Short(payload, n)) = n
            /\ \A i \in 1 .. n : Short(payload, n)[i] = payload[i]
        BY ShortBytes
      <3>3. ASSUME NEW i \in 1 .. n PROVE cut[i + 2] = payload[i]
        <4>1. i + 2 \in 1 .. n + 2 /\ i \in 1 .. Len(payload)
          BY <2>1
        <4> QED BY <1>1, <2>2, <4>1
      <3> QED BY <3>1, <3>2, <3>3, SeqEqual
    <2> QED BY <2>4, <2>5 DEF cut
  <1>5. decode(raw) = Content(id, payload)
    <2>1. Len(payload) \in 0 .. Len(payload)
      OBVIOUS
    <2>2. Short(payload, Len(payload)) = payload /\ Short(raw, Len(raw)) = raw
      BY <1>1, SubSeqFull DEF Short
    <2> QED BY <1>1, <1>4, <2>1, <2>2
  <1> QED BY <1>3, <1>4, <1>5 DEF raw, Short

\* What a decoder says.
LEMMA Decodings ==
  /\ Malformed.ok = FALSE
  /\ \A v : Decoded(v).ok = TRUE /\ Decoded(v).value = v
  BY DEF Malformed, Decoded

-----------------------------------------------------------------------------
(* Each end goes by the frame.                                               *)

Judged(request, id, payload) ==
  IF id = MsgId.RSP_NACK
  THEN IF ~decode_nack(payload).ok THEN "protocol_error"
       ELSE IF decode_nack(payload).value.echoed = MsgId[request.msg] THEN "refused"
       ELSE "discarded"
  ELSE IF id = MsgId[Expected(request)]
  THEN IF OperationMakesOf(request, payload).ok THEN "answered" ELSE "protocol_error"
  ELSE "discarded"

LEMMA DriverJudges ==
  ASSUME NEW request, NEW raw
  PROVE  /\ decode(raw) = Malformed => DriverMakesOf(request, raw) = "discarded"
         /\ \A id, payload : decode(raw) = Content(id, payload) =>
              DriverMakesOf(request, raw) = Judged(request, id, payload)
  <1>1. ASSUME decode(raw) = Malformed PROVE DriverMakesOf(request, raw) = "discarded"
    BY <1>1, Decodings, Zenon DEF DriverMakesOf
  <1>2. ASSUME NEW id, NEW payload, decode(raw) = Content(id, payload)
        PROVE  DriverMakesOf(request, raw) = Judged(request, id, payload)
    <2>1. /\ decode(raw).ok = TRUE /\ decode(raw).value.msg_id = id
          /\ decode(raw).value.payload = payload
      BY <1>2, Decodings DEF Content
    <2> QED BY <2>1 DEF DriverMakesOf, Judged
  <1> QED BY <1>1, <1>2

CutsMade(request, raw) == {DriverMakesOf(request, SubSeq(raw, 1, n)) : n \in 0 .. Len(raw) - 1}
ShortsJudged(request, id, payload) ==
  {Judged(request, id, Short(payload, n)) : n \in 0 .. Len(payload) - 1}

\* The driver makes of the cuts of a frame: nothing of those in its head, and
\* what it makes of a payload that is too short of the others.
LEMMA DriverCuts ==
  ASSUME NEW request, NEW id \in Int, NEW payload \in Seq(Int)
  PROVE  /\ DriverMakesOf(request, Frame(id, payload)) = Judged(request, id, payload)
         /\ CutsMade(request, Frame(id, payload))
              = {"discarded"} \cup ShortsJudged(request, id, payload)
  <1> DEFINE raw    == Frame(id, payload)
             makes(n) == DriverMakesOf(request, SubSeq(raw, 1, n))
             judged(n) == Judged(request, id, Short(payload, n))
  <1>1. DriverMakesOf(request, raw) = Judged(request, id, payload)
    BY Frames, DriverJudges
  <1>2. \A n \in 0 .. 1 : makes(n) = "discarded"
    BY Frames, DriverJudges
  <1>3. \A n \in 0 .. Len(payload) : makes(n + 2) = judged(n)
    BY Frames, DriverJudges
  <1>4. Len(raw) - 1 = Len(payload) + 1 /\ Len(payload) \in Nat
    BY FrameBytes
  <1> HIDE DEF makes, judged, raw
  <1>5. ASSUME NEW n \in 0 .. Len(payload) + 1
        PROVE  makes(n) \in {"discarded"} \cup {judged(m) : m \in 0 .. Len(payload) - 1}
    <2>1. CASE n \in 0 .. 1
      BY <1>2, <2>1
    <2>2. CASE n \notin 0 .. 1
      <3>1. n - 2 \in 0 .. Len(payload) - 1 /\ n - 2 \in 0 .. Len(payload) /\ (n - 2) + 2 = n
        BY <1>4, <2>2
      <3> QED BY <1>3, <3>1
    <2> QED BY <2>1, <2>2
  <1>6. "discarded" \in {makes(n) : n \in 0 .. Len(payload) + 1}
    <2>1. 0 \in 0 .. Len(payload) + 1 /\ 0 \in 0 .. 1
      BY <1>4
    <2> QED BY <1>2, <2>1
  <1>7. ASSUME NEW m \in 0 .. Len(payload) - 1
        PROVE  judged(m) \in {makes(n) : n \in 0 .. Len(payload) + 1}
    <2>1. m + 2 \in 0 .. Len(payload) + 1 /\ m \in 0 .. Len(payload)
      BY <1>4
    <2> QED BY <1>3, <2>1
  <1>8. {makes(n) : n \in 0 .. Len(payload) + 1}
          = {"discarded"} \cup {judged(m) : m \in 0 .. Len(payload) - 1}
    BY <1>5, <1>6, <1>7
  <1> QED BY <1>1, <1>4, <1>8 DEF makes, judged, raw, CutsMade, ShortsJudged

Served(id, payload) ==
  LET nack(reason) == encode_nack(id, reason)
  IN CASE id = MsgId.REQ_IDENT  -> encode_ident_response(Identity)
       [] id = MsgId.REQ_RELAYS -> encode_relay_response(RelayStates(world))
       [] id = MsgId.REQ_ANALOG ->
            LET channel == decode_analog_request(payload)
            IN IF ~channel.ok THEN nack(NackReason.BAD_LENGTH)
               ELSE IF channel.value \notin ValidChannels THEN nack(NackReason.BAD_CHANNEL)
               ELSE encode_analog_response(channel.value,
                      ReadingOf([world |-> world, correction |-> correction]))
       [] id = MsgId.REQ_SET_CORRECTION ->
            LET factor == decode_correction_request(payload)
            IN IF ~factor.ok THEN nack(NackReason.BAD_LENGTH)
               ELSE IF factor.value \notin ValidFactors THEN nack(NackReason.BAD_VALUE)
               ELSE encode_ack(id)

RequestIds == {MsgId.REQ_IDENT, MsgId.REQ_RELAYS, MsgId.REQ_ANALOG, MsgId.REQ_SET_CORRECTION}

LEMMA DeviceServes ==
  ASSUME NEW raw
  PROVE  /\ decode(raw) = Malformed => ServerMakesOf(raw) = <<>>
         /\ \A id \in RequestIds : \A payload : decode(raw) = Content(id, payload) =>
              ServerMakesOf(raw) = Served(id, payload)
  <1>1. ASSUME decode(raw) = Malformed PROVE ServerMakesOf(raw) = <<>>
    <2>1. decode(raw).ok = FALSE
      BY <1>1, Decodings
    <2> QED BY <2>1 DEF ServerMakesOf
  <1>2. ASSUME NEW id \in RequestIds, NEW payload, decode(raw) = Content(id, payload)
        PROVE  ServerMakesOf(raw) = Served(id, payload)
    <2>1. /\ decode(raw).ok = TRUE /\ decode(raw).value.msg_id = id
          /\ decode(raw).value.payload = payload
      BY <1>2, Decodings DEF Content
    <2>2. CASE id = MsgId.REQ_IDENT
      BY <2>1, <2>2 DEF ServerMakesOf, Served, MsgId
    <2>3. CASE id = MsgId.REQ_RELAYS
      BY <2>1, <2>3 DEF ServerMakesOf, Served, MsgId
    <2>4. CASE id = MsgId.REQ_ANALOG
      BY <2>1, <2>4 DEF ServerMakesOf, Served, MsgId
    <2>5. CASE id = MsgId.REQ_SET_CORRECTION
      BY <2>1, <2>5 DEF ServerMakesOf, Served, MsgId
    <2> QED BY <2>2, <2>3, <2>4, <2>5 DEF RequestIds
  <1> QED BY <1>1, <1>2

LEMMA DeviceCuts ==
  ASSUME NEW id \in RequestIds, NEW payload \in Seq(Int)
  PROVE  /\ ServerMakesOf(Frame(id, payload)) = Served(id, payload)
         /\ {ServerMakesOf(c) : c \in {SubSeq(Frame(id, payload), 1, n) :
                                       n \in 0 .. Len(Frame(id, payload)) - 1}}
              = {<<>>} \cup {Served(id, Short(payload, n)) : n \in 0 .. Len(payload) - 1}
  <1> DEFINE raw      == Frame(id, payload)
             cut(n)   == SubSeq(raw, 1, n)
             served(n) == Served(id, Short(payload, n))
             all      == {ServerMakesOf(c) : c \in {cut(n) : n \in 0 .. Len(raw) - 1}}
  <1>1. id \in Int
    BY DEF RequestIds, MsgId
  <1>2. ServerMakesOf(raw) = Served(id, payload)
    BY <1>1, Frames, DeviceServes
  <1>3. \A n \in 0 .. 1 : ServerMakesOf(cut(n)) = <<>>
    BY <1>1, Frames, DeviceServes
  <1>4. \A n \in 0 .. Len(payload) : ServerMakesOf(cut(n + 2)) = served(n)
    BY <1>1, Frames, DeviceServes
  <1>5. Len(raw) - 1 = Len(payload) + 1 /\ Len(payload) \in Nat
    BY <1>1, FrameBytes
  <1> HIDE DEF served, raw, cut
  <1>6. ASSUME NEW n \in 0 .. Len(payload) + 1
        PROVE  ServerMakesOf(cut(n)) \in {<<>>} \cup {served(m) : m \in 0 .. Len(payload) - 1}
    <2>1. CASE n \in 0 .. 1
      BY <1>3, <2>1
    <2>2. CASE n \notin 0 .. 1
      <3>1. n - 2 \in 0 .. Len(payload) - 1 /\ n - 2 \in 0 .. Len(payload) /\ (n - 2) + 2 = n
        BY <1>5, <2>2
      <3> QED BY <1>4, <3>1
    <2> QED BY <2>1, <2>2
  <1>7. <<>> \in all
    <2>1. 0 \in 0 .. Len(raw) - 1 /\ 0 \in 0 .. 1
      BY <1>5
    <2> QED BY <1>3, <2>1
  <1>8. ASSUME NEW m \in 0 .. Len(payload) - 1
        PROVE  served(m) \in all
    <2>1. m + 2 \in 0 .. Len(raw) - 1 /\ m \in 0 .. Len(payload)
      BY <1>5
    <2>2. served(m) = ServerMakesOf(cut(m + 2))
      BY <1>4, <2>1
    <2> QED BY <2>1, <2>2
  <1>9. all = {<<>>} \cup {served(m) : m \in 0 .. Len(payload) - 1}
    BY <1>5, <1>6, <1>7, <1>8
  <1> QED BY <1>2, <1>9 DEF cut, served, raw

-----------------------------------------------------------------------------
(* Requests.                                                                 *)

LEMMA Floats ==
  ASSUME NEW v \in Int
  PROVE  /\ PackFloat(v) \in Seq(Int) /\ Len(PackFloat(v)) = 8
         /\ UnpackFloat(PackFloat(v)) = v
  BY DEF PackFloat, UnpackFloat

\* What is sent of a request after its kind.
PayloadOf(request) ==
  CASE request.msg = "REQ_ANALOG"         -> <<request.arg>>
    [] request.msg = "REQ_SET_CORRECTION" -> PackFloat(request.arg)
    [] OTHER                              -> <<>>

LEMMA RequestFrames ==
  ASSUME NEW request, request.msg \in ReqMsgs, request.arg \in Int
  PROVE  /\ EncodeRequest(request) = Frame(MsgId[request.msg], PayloadOf(request))
         /\ PayloadOf(request) \in Seq(Int) /\ MsgId[request.msg] \in RequestIds
         /\ HasPayload(request) => Len(PayloadOf(request)) >= 1
         /\ ~HasPayload(request) => PayloadOf(request) = <<>>
  <1>1. CASE request.msg = "REQ_ANALOG"
    BY <1>1 DEF EncodeRequest, PayloadOf, encode_analog_request, encode, Frame, HasPayload,
                RequestIds, MsgId
  <1>2. CASE request.msg = "REQ_SET_CORRECTION"
    <2>1. PayloadOf(request) = PackFloat(request.arg)
      BY <1>2 DEF PayloadOf
    <2>2. EncodeRequest(request) = Frame(MsgId[request.msg], PackFloat(request.arg))
      BY <1>2 DEF EncodeRequest, encode_correction_request, encode, Frame, MsgId
    <2>3. MsgId[request.msg] \in RequestIds /\ HasPayload(request)
      BY <1>2 DEF RequestIds, MsgId, HasPayload
    <2> QED BY <2>1, <2>2, <2>3, Floats
  <1>3. CASE request.msg \in {"REQ_IDENT", "REQ_RELAYS"}
    <2>1. PayloadOf(request) = <<>> /\ EncodeRequest(request) = encode(request.msg, <<>>)
      BY <1>3 DEF EncodeRequest, PayloadOf
    <2>2. ~HasPayload(request)
      BY <1>3 DEF HasPayload
    <2>3. MsgId[request.msg] \in RequestIds
      BY <1>3 DEF RequestIds, MsgId
    <2>4. encode(request.msg, <<>>) = Frame(MsgId[request.msg], <<>>) /\ <<>> \in Seq(Int)
      BY DEF encode, Frame
    <2> QED BY <2>1, <2>2, <2>3, <2>4
  <1> QED BY <1>1, <1>2, <1>3 DEF ReqMsgs, ReadMsgs

\* A request that arrives whole is served as DutLink has it ...
LEMMA WholeServed ==
  ASSUME NEW d, NEW request, request.msg \in ReqMsgs, request.arg \in Int
  PROVE  Served(MsgId[request.msg], PayloadOf(request)) = EncodeReply(Execute(d, request))
  <1> DEFINE reply(msg, echo, reading) ==
               [call |-> d.call, attempt |-> d.attempt, msg |-> msg, echo |-> echo,
                about |-> request.msg, reading |-> reading]
             now == [world |-> world, correction |-> correction]
  <1>1. CASE request.msg = "REQ_IDENT"
    <2>1. Execute(d, request) = reply("RSP_IDENT", 0, NoReading)
      BY <1>1 DEF Execute
    <2>2. EncodeReply(reply("RSP_IDENT", 0, NoReading)) = encode_ident_response(Identity)
      BY DEF EncodeReply
    <2> QED BY <1>1, <2>1, <2>2 DEF Served, MsgId
  <1>2. CASE request.msg = "REQ_RELAYS"
    <2> DEFINE reading == [world |-> world, correction |-> Unity]
    <2>1. Execute(d, request) = reply("RSP_RELAYS", 0, reading)
      BY <1>2 DEF Execute
    <2>2. EncodeReply(reply("RSP_RELAYS", 0, reading))
            = encode_relay_response(RelayStates(world))
      BY DEF EncodeReply
    <2> QED BY <1>2, <2>1, <2>2 DEF Served, MsgId
  <1>3. CASE request.msg = "REQ_ANALOG"
    <2>1. PayloadOf(request) = <<request.arg>>
      BY <1>3 DEF PayloadOf
    <2>2. decode_analog_request(<<request.arg>>) = Decoded(request.arg)
      BY DEF decode_analog_request
    <2>3. CASE request.arg \in ValidChannels
      <3>1. Execute(d, request) = reply("RSP_ANALOG", request.arg, now)
        BY <1>3, <2>3 DEF Execute
      <3>2. EncodeReply(reply("RSP_ANALOG", request.arg, now))
              = encode_analog_response(request.arg, ReadingOf(now))
        BY DEF EncodeReply
      <3>3. Served(MsgId[request.msg], PayloadOf(request))
              = encode_analog_response(request.arg, ReadingOf(now))
        BY <1>3, <2>1, <2>2, <2>3, Decodings DEF Served, MsgId
      <3> QED BY <3>1, <3>2, <3>3
    <2>4. CASE request.arg \notin ValidChannels
      <3>1. Execute(d, request) = reply("RSP_NACK", 0, NoReading)
        BY <1>3, <2>4 DEF Execute
      <3>2. EncodeReply(reply("RSP_NACK", 0, NoReading))
              = encode_nack(MsgId[request.msg], NackReason.BAD_CHANNEL)
        BY <1>3 DEF EncodeReply
      <3>3. Served(MsgId[request.msg], PayloadOf(request))
              = encode_nack(MsgId[request.msg], NackReason.BAD_CHANNEL)
        BY <1>3, <2>1, <2>2, <2>4, Decodings DEF Served, MsgId
      <3> QED BY <3>1, <3>2, <3>3
    <2> QED BY <2>3, <2>4
  <1>4. CASE request.msg = "REQ_SET_CORRECTION"
    <2>1. PayloadOf(request) = PackFloat(request.arg)
      BY <1>4 DEF PayloadOf
    <2>2. decode_correction_request(PackFloat(request.arg)) = Decoded(request.arg)
      BY Floats DEF decode_correction_request
    <2>3. CASE request.arg \in ValidFactors
      <3>1. Execute(d, request) = reply("RSP_ACK", 0, NoReading)
        BY <1>4, <2>3 DEF Execute
      <3>2. EncodeReply(reply("RSP_ACK", 0, NoReading)) = encode_ack(MsgId[request.msg])
        BY DEF EncodeReply
      <3>3. Served(MsgId[request.msg], PayloadOf(request)) = encode_ack(MsgId[request.msg])
        BY <1>4, <2>1, <2>2, <2>3, Decodings DEF Served, MsgId
      <3> QED BY <3>1, <3>2, <3>3
    <2>4. CASE request.arg \notin ValidFactors
      <3>1. Execute(d, request) = reply("RSP_NACK", 0, NoReading)
        BY <1>4, <2>4 DEF Execute
      <3>2. EncodeReply(reply("RSP_NACK", 0, NoReading))
              = encode_nack(MsgId[request.msg], NackReason.BAD_VALUE)
        BY <1>4 DEF EncodeReply
      <3>3. Served(MsgId[request.msg], PayloadOf(request))
              = encode_nack(MsgId[request.msg], NackReason.BAD_VALUE)
        BY <1>4, <2>1, <2>2, <2>4, Decodings DEF Served, MsgId
      <3> QED BY <3>1, <3>2, <3>3
    <2> QED BY <2>3, <2>4
  <1> QED BY <1>1, <1>2, <1>3, <1>4 DEF ReqMsgs, ReadMsgs

\* ... and one whose payload is cut short is refused for its length.
LEMMA CutServed ==
  ASSUME NEW request, request.msg \in ReqMsgs, request.arg \in Int,
         NEW n \in 0 .. Len(PayloadOf(request)) - 1
  PROVE  Served(MsgId[request.msg], Short(PayloadOf(request), n))
           = encode_nack(MsgId[request.msg], NackReason.BAD_LENGTH)
  <1> DEFINE cut == Short(PayloadOf(request), n)
  <1>1. PayloadOf(request) \in Seq(Int) /\ (~HasPayload(request) => PayloadOf(request) = <<>>)
    BY RequestFrames
  <1>2. Len(cut) = n /\ n # Len(PayloadOf(request)) /\ HasPayload(request)
    <2>1. n \in 0 .. Len(PayloadOf(request)) /\ Len(PayloadOf(request)) # 0
      BY <1>1
    <2> QED BY <1>1, <2>1, ShortBytes
  <1> HIDE DEF cut
  <1>3. CASE request.msg = "REQ_ANALOG"
    <2>1. Len(cut) # 1
      BY <1>2, <1>3 DEF PayloadOf
    <2>2. decode_analog_request(cut).ok = FALSE
      BY <2>1, Decodings DEF decode_analog_request
    <2>3. Served(MsgId.REQ_ANALOG, cut) = encode_nack(MsgId.REQ_ANALOG, NackReason.BAD_LENGTH)
      BY <2>2 DEF Served, MsgId
    <2> QED BY <1>3, <2>3 DEF cut, MsgId
  <1>4. CASE request.msg = "REQ_SET_CORRECTION"
    <2>1. Len(cut) # 8
      <3>1. PayloadOf(request) = PackFloat(request.arg)
        BY <1>4 DEF PayloadOf
      <3> QED BY <1>2, <3>1, Floats
    <2>2. decode_correction_request(cut).ok = FALSE
      BY <2>1, Decodings DEF decode_correction_request
    <2>3. Served(MsgId.REQ_SET_CORRECTION, cut)
            = encode_nack(MsgId.REQ_SET_CORRECTION, NackReason.BAD_LENGTH)
      BY <2>2 DEF Served, MsgId
    <2> QED BY <1>4, <2>3 DEF cut, MsgId
  <1> QED BY <1>2, <1>3, <1>4 DEF HasPayload

LEMMA InvRequests == Inv => RequestsSurviveTheWire
  <1> SUFFICES ASSUME Inv, NEW d \in requests
               PROVE  LET request == calls[d.call].request
                          raw == EncodeRequest(request)
                          cut == {SubSeq(raw, 1, n) : n \in 0 .. Len(raw) - 1}
                      IN /\ ServerMakesOf(raw) = EncodeReply(Execute(d, request))
                         /\ {ServerMakesOf(c) : c \in cut}
                              = {<<>>} \cup
                                (IF HasPayload(request)
                                 THEN {encode_nack(MsgId[request.msg], NackReason.BAD_LENGTH)}
                                 ELSE {})
    BY DEF RequestsSurviveTheWire
  <1> DEFINE request == calls[d.call].request
             payload == PayloadOf(request)
             refused == encode_nack(MsgId[request.msg], NackReason.BAD_LENGTH)
  <1>1. request.msg \in ReqMsgs /\ request.arg \in Int
    <2>1. TypeOK /\ d.call \in 1..Len(calls)
      BY DEF Inv, Sent
    <2> QED BY <2>1, CallType
  <1>2. /\ EncodeRequest(request) = Frame(MsgId[request.msg], payload)
        /\ payload \in Seq(Int) /\ MsgId[request.msg] \in RequestIds
        /\ HasPayload(request) => Len(payload) >= 1
        /\ ~HasPayload(request) => payload = <<>>
    BY <1>1, RequestFrames
  <1>3. ServerMakesOf(Frame(MsgId[request.msg], payload)) = EncodeReply(Execute(d, request))
    <2>1. Served(MsgId[request.msg], payload) = EncodeReply(Execute(d, request))
      BY <1>1, WholeServed
    <2> QED BY <1>2, <2>1, DeviceCuts
  <1>4. {Served(MsgId[request.msg], Short(payload, n)) : n \in 0 .. Len(payload) - 1}
          = IF HasPayload(request) THEN {refused} ELSE {}
    <2>1. \A n \in 0 .. Len(payload) - 1 :
            Served(MsgId[request.msg], Short(payload, n)) = refused
      BY <1>1, CutServed
    <2>2. CASE HasPayload(request)
      <3>1. 0 \in 0 .. Len(payload) - 1
        BY <1>2, <2>2
      <3> HIDE DEF payload, refused
      <3> QED BY <2>1, <2>2, <3>1
    <2>3. CASE ~HasPayload(request)
      BY <1>2, <2>3
    <2> QED BY <2>2, <2>3
  <1>5. {ServerMakesOf(c) : c \in {SubSeq(Frame(MsgId[request.msg], payload), 1, n) :
                                  n \in 0 .. Len(Frame(MsgId[request.msg], payload)) - 1}}
          = {<<>>} \cup (IF HasPayload(request) THEN {refused} ELSE {})
    BY <1>2, <1>4, DeviceCuts
  <1> QED BY <1>2, <1>3, <1>5

\* Every request under way, whatever it asks and wherever it is cut: the device
\* serves the bytes of a whole one as DutLink has it, and executes nothing that
\* is left of one that was cut.
THEOREM RequestBytesMeanRequests == Spec => []RequestsSurviveTheWire
  BY InvHolds, InvRequests, PTL

-----------------------------------------------------------------------------
(* Replies: relay states, the one payload read in a loop.                    *)

LEMMA FlattenTwo ==
  ASSUME NEW s, Len(s) = 2
  PROVE  FlattenSeq(s) = s[1] \o s[2]
  <1> DEFINE flatten[i \in 1 .. Len(s)] ==
               IF i = 1 THEN s[i] ELSE flatten[i - 1] \o s[i]
             two == [i \in 1 .. 2 |-> IF i = 1 THEN s[1] ELSE s[1] \o s[2]]
  <1>1. two = [i \in 1 .. Len(s) |-> IF i = 1 THEN s[i] ELSE two[i - 1] \o s[i]]
    <2>1. two[1] = s[1]
      OBVIOUS
    <2>2. ASSUME NEW i \in 1 .. 2
          PROVE  two[i] = IF i = 1 THEN s[i] ELSE two[i - 1] \o s[i]
      <3>1. i = 1 \/ (i = 2 /\ i # 1 /\ i - 1 = 1)
        BY <2>2
      <3> HIDE DEF two
      <3>2. two[2] = s[1] \o s[2]
        BY DEF two
      <3> QED BY <2>1, <3>1, <3>2
    <2> QED BY <2>2
  <1>2. flatten = [i \in 1 .. Len(s) |-> IF i = 1 THEN s[i] ELSE flatten[i - 1] \o s[i]]
    <2> HIDE DEF two
    <2> QED BY <1>1 DEF flatten
  <1> HIDE DEF flatten, two
  <1>3. flatten[1] = s[1]
    BY <1>2
  <1>4. flatten[2] = flatten[1] \o s[2]
    BY <1>2
  <1>5. FlattenSeq(s) = flatten[Len(s)]
    BY DEF FlattenSeq, flatten
  <1> QED BY <1>3, <1>4, <1>5

\* An entry, of what was read up to pos: its length, its name, its state.
EntryEnd(payload, pos)  == pos + 1 + payload[pos + 1]
EntryFits(payload, pos) == ~(pos >= Len(payload) \/ EntryEnd(payload, pos) >= Len(payload))
WithEntry(payload, from, end, mark, states) ==
  [pos |-> mark, states |-> Append(states, [name   |-> SubSeq(payload, from, end),
                                            driven |-> payload[mark] # 0])]

LEMMA EntryMissing ==
  ASSUME NEW payload, NEW pos, NEW states, ~EntryFits(payload, pos)
  PROVE  RelayEntry(payload, [pos |-> pos, states |-> states]) = Malformed
  BY DEF RelayEntry, EntryFits, EntryEnd

LEMMA EntryRead ==
  ASSUME NEW payload, NEW pos, NEW states, EntryFits(payload, pos)
  PROVE  RelayEntry(payload, [pos |-> pos, states |-> states])
           = Decoded(WithEntry(payload, pos + 2, EntryEnd(payload, pos),
                               EntryEnd(payload, pos) + 1, states))
  BY DEF RelayEntry, EntryFits, EntryEnd, WithEntry

\* One more entry of what was read so far.
NextEntry(payload, sofar) ==
  IF sofar.ok THEN RelayEntry(payload, sofar.value) ELSE Malformed
NextAt(payload, pos, states) == NextEntry(payload, Decoded([pos |-> pos, states |-> states]))
NoEntries == Decoded([pos |-> 1, states |-> <<>>])
TwoEntries(payload) == NextEntry(payload, NextEntry(payload, NoEntries))

LEMMA NextRead ==
  ASSUME NEW payload, NEW pos, NEW states
  PROVE  NextAt(payload, pos, states) = RelayEntry(payload, [pos |-> pos, states |-> states])
  BY Decodings, Zenon DEF NextAt, NextEntry

LEMMA DecodesTwo ==
  ASSUME NEW payload, payload # <<>>, payload[1] = 2
  PROVE  decode_relay_response(payload)
           = IF ~TwoEntries(payload).ok THEN Malformed
             ELSE Decoded(TwoEntries(payload).value.states)
  <1> DEFINE after[n \in 0 .. payload[1]] ==
               IF n = 0 THEN Decoded([pos |-> 1, states |-> <<>>])
               ELSE IF after[n - 1].ok THEN RelayEntry(payload, after[n - 1].value) ELSE Malformed
             two == [n \in 0 .. 2 |-> IF n = 0 THEN NoEntries
                                      ELSE IF n = 1 THEN NextEntry(payload, NoEntries)
                                      ELSE TwoEntries(payload)]
  <1>1. two = [n \in 0 .. payload[1] |->
                 IF n = 0 THEN Decoded([pos |-> 1, states |-> <<>>])
                 ELSE IF two[n - 1].ok THEN RelayEntry(payload, two[n - 1].value) ELSE Malformed]
    <2>1. two[0] = NoEntries /\ two[1] = NextEntry(payload, NoEntries)
      OBVIOUS
    <2>2. two[2] = TwoEntries(payload)
      OBVIOUS
    <2>3. two = [n \in 0 .. 2 |-> two[n]]
      OBVIOUS
    <2> HIDE DEF two
    <2>4. ASSUME NEW n \in 0 .. 2
          PROVE  two[n] = IF n = 0 THEN NoEntries ELSE NextEntry(payload, two[n - 1])
      <3>1. n = 0 \/ (n = 1 /\ n # 0 /\ n - 1 = 0) \/ (n = 2 /\ n # 0 /\ n - 1 = 1)
        BY <2>4
      <3> QED BY <2>1, <2>2, <3>1 DEF TwoEntries
    <2>5. two = [n \in 0 .. 2 |-> IF n = 0 THEN NoEntries ELSE NextEntry(payload, two[n - 1])]
      BY <2>3, <2>4
    <2> QED BY <2>5 DEF NoEntries, NextEntry
  <1>2. after = [n \in 0 .. payload[1] |->
                   IF n = 0 THEN Decoded([pos |-> 1, states |-> <<>>])
                   ELSE IF after[n - 1].ok THEN RelayEntry(payload, after[n - 1].value)
                   ELSE Malformed]
    <2> HIDE DEF two
    <2> QED BY <1>1 DEF after
  <1>3. decode_relay_response(payload)
          = IF ~after[2].ok THEN Malformed ELSE Decoded(after[2].value.states)
    BY DEF decode_relay_response, after
  <1> HIDE DEF after, two
  <1>4. /\ after[0] = NoEntries
        /\ after[1] = NextEntry(payload, after[0])
        /\ after[2] = NextEntry(payload, after[1])
    BY <1>2 DEF NoEntries, NextEntry
  <1> QED BY <1>3, <1>4 DEF TwoEntries

\* A sequence of the elements that a tuple lists is the tuple.
LEMMA Spelled ==
  ASSUME NEW s \in Seq(Int), NEW t \in Seq(Int), Len(s) = Len(t),
         \A i \in 1 .. Len(t) : s[i] = t[i]
  PROVE  s = t
  BY SeqEqual

LEMMA Appended ==
  ASSUME NEW a, NEW b
  PROVE  Append(<<a>>, b) = <<a, b>>
  <1> DEFINE s == Append(<<a>>, b)
             t == <<a, b>>
  <1>1. s \in Seq({a, b}) /\ Len(s) = 2 /\ s[1] = a /\ s[2] = b
    OBVIOUS
  <1>2. t \in Seq({a, b}) /\ Len(t) = 2 /\ t[1] = a /\ t[2] = b
    OBVIOUS
  <1> HIDE DEF s, t
  <1>3. \A i \in 1 .. 2 : s[i] = t[i]
    BY <1>1, <1>2
  <1>4. s = t
    BY <1>1, <1>2, <1>3, SeqEqual
  <1> QED BY <1>4 DEF s, t

LEMMA ThreeBytes ==
  ASSUME NEW a \in Int, NEW b \in Int, NEW c \in Int
  PROVE  <<a>> \o <<b>> \o <<c>> = <<a, b, c>>
  <1> DEFINE s == <<a>> \o <<b>> \o <<c>>
  <1>1. s \in Seq(Int) /\ Len(s) = 3 /\ s[1] = a /\ s[2] = b /\ s[3] = c
    OBVIOUS
  <1>2. <<a, b, c>> \in Seq(Int) /\ Len(<<a, b, c>>) = 3
    OBVIOUS
  <1> HIDE DEF s
  <1>3. \A i \in 1 .. 3 : s[i] = <<a, b, c>>[i]
    BY <1>1
  <1> QED BY <1>1, <1>2, <1>3, Spelled DEF s

LEMMA FourBytes ==
  ASSUME NEW a \in Int, NEW b \in Int, NEW c \in Int, NEW d \in Int
  PROVE  <<a>> \o <<b, c>> \o <<d>> = <<a, b, c, d>>
  <1> DEFINE s == <<a>> \o <<b, c>> \o <<d>>
  <1>1. s \in Seq(Int) /\ Len(s) = 4 /\ s[1] = a /\ s[2] = b /\ s[3] = c /\ s[4] = d
    OBVIOUS
  <1>2. <<a, b, c, d>> \in Seq(Int) /\ Len(<<a, b, c, d>>) = 4
    OBVIOUS
  <1> HIDE DEF s
  <1>3. \A i \in 1 .. 4 : s[i] = <<a, b, c, d>>[i]
    BY <1>1
  <1> QED BY <1>1, <1>2, <1>3, Spelled DEF s

\* The two relays, idle or driven: each has a name, here of one and two bytes.
Driven(w)       == IF w % 2 = 0 THEN 1 ELSE 0
RelayPayload(w) == <<2, 1, 108, Driven(w), 2, 111, 99, 0>>

LEMMA RelayBytes ==
  ASSUME NEW w \in Int
  PROVE  /\ RelayPayload(w) \in Seq(Int) /\ Len(RelayPayload(w)) = 8
         /\ encode_relay_response(RelayStates(w)) = Frame(MsgId.RSP_RELAYS, RelayPayload(w))
  <1> DEFINE states == RelayStates(w)
             entry(i) == <<Len(states[i].name)>> \o states[i].name
                           \o <<IF states[i].driven THEN 1 ELSE 0>>
             entries  == [i \in DOMAIN states |-> entry(i)]
  <1>1. Driven(w) \in Int
    BY DEF Driven
  <1>2. Len(states) = 2 /\ DOMAIN states = 1 .. 2
    BY DEF RelayStates
  <1>3. entry(1) = <<1, 108, Driven(w)>>
    <2>1. states[1].name = <<108>> /\ (states[1].driven <=> w % 2 = 0)
      BY DEF RelayStates
    <2> HIDE DEF states
    <2>2. (IF states[1].driven THEN 1 ELSE 0) = Driven(w)
      BY <2>1 DEF Driven
    <2>3. <<1>> \o <<108>> \o <<Driven(w)>> = <<1, 108, Driven(w)>>
      <3>1. 1 \in Int /\ 108 \in Int
        OBVIOUS
      <3> QED BY <1>1, <3>1, ThreeBytes, Zenon
    <2>4. Len(<<108>>) = 1
      OBVIOUS
    <2> QED BY <2>1, <2>2, <2>3, <2>4
  <1>4. entry(2) = <<2, 111, 99, 0>>
    <2>1. states[2].name = <<111, 99>> /\ ~states[2].driven
      BY DEF RelayStates
    <2> HIDE DEF states
    <2>2. (IF states[2].driven THEN 1 ELSE 0) = 0
      BY <2>1
    <2>3. <<2>> \o <<111, 99>> \o <<0>> = <<2, 111, 99, 0>>
      <3>1. \A a, b, c, d \in Int : <<a>> \o <<b, c>> \o <<d>> = <<a, b, c, d>>
        BY FourBytes
      <3>2. 2 \in Int /\ 111 \in Int /\ 99 \in Int /\ 0 \in Int
        OBVIOUS
      <3> QED BY <3>1, <3>2, ZenonT(30)
    <2>4. Len(<<111, 99>>) = 2
      OBVIOUS
    <2> QED BY <2>1, <2>2, <2>3, <2>4
  <1> HIDE DEF states, entry
  <1>5. FlattenSeq(entries) = entry(1) \o entry(2)
    <2>1. Len(entries) = 2 /\ entries[1] = entry(1) /\ entries[2] = entry(2)
      BY <1>2
    <2> QED BY <2>1, FlattenTwo
  <1>6. <<2>> \o (<<1, 108, Driven(w)>> \o <<2, 111, 99, 0>>) = RelayPayload(w)
    <2> DEFINE s == <<2>> \o (<<1, 108, Driven(w)>> \o <<2, 111, 99, 0>>)
               t == RelayPayload(w)
    <2>1. /\ s \in Seq(Int) /\ Len(s) = 8 /\ s[1] = 2 /\ s[2] = 1 /\ s[3] = 108
          /\ s[4] = Driven(w) /\ s[5] = 2 /\ s[6] = 111 /\ s[7] = 99 /\ s[8] = 0
      BY <1>1
    <2>2. /\ t \in Seq(Int) /\ Len(t) = 8 /\ t[1] = 2 /\ t[2] = 1 /\ t[3] = 108
          /\ t[4] = Driven(w) /\ t[5] = 2 /\ t[6] = 111 /\ t[7] = 99 /\ t[8] = 0
      BY <1>1 DEF RelayPayload
    <2> HIDE DEF s, t
    <2>3. \A i \in 1 .. 8 : s[i] = t[i]
      BY <2>1, <2>2
    <2> QED BY <2>1, <2>2, <2>3, Spelled DEF s, t
  <1>7. encode_relay_response(states) = encode("RSP_RELAYS", <<Len(states)>> \o FlattenSeq(entries))
    BY DEF encode_relay_response, entry
  <1>8. encode_relay_response(states) = Frame(MsgId.RSP_RELAYS, RelayPayload(w))
    BY <1>2, <1>3, <1>4, <1>5, <1>6, <1>7 DEF encode, Frame, MsgId
  <1>9. RelayPayload(w) \in Seq(Int) /\ Len(RelayPayload(w)) = 8
    BY <1>1 DEF RelayPayload
  <1> QED BY <1>8, <1>9 DEF states

LEMMA RelaysDecoded ==
  ASSUME NEW w \in Int
  PROVE  decode_relay_response(RelayPayload(w)) = Decoded(RelayStates(w))
  <1> DEFINE payload == RelayPayload(w)
             local   == [name |-> <<108>>, driven |-> w % 2 = 0]
             osc     == [name |-> <<111, 99>>, driven |-> FALSE]
  <1>1. /\ payload \in Seq(Int) /\ Len(payload) = 8
        /\ payload[1] = 2 /\ payload[2] = 1 /\ payload[3] = 108 /\ payload[4] = Driven(w)
        /\ payload[5] = 2 /\ payload[6] = 111 /\ payload[7] = 99 /\ payload[8] = 0
    BY RelayBytes DEF RelayPayload
  <1>2. SubSeq(payload, 3, 3) = <<108>> /\ SubSeq(payload, 6, 7) = <<111, 99>>
    <2> HIDE DEF payload
    <2> DEFINE one == SubSeq(payload, 3, 3)
               two == SubSeq(payload, 6, 7)
    <2>1. one \in Seq(Int) /\ Len(one) = 1 /\ one[1] = 108
      BY <1>1
    <2>2. two \in Seq(Int) /\ Len(two) = 2 /\ two[1] = 111 /\ two[2] = 99
      BY <1>1
    <2> HIDE DEF one, two
    <2>3. one = <<108>>
      BY <2>1, Spelled
    <2>4. <<111, 99>> \in Seq(Int) /\ Len(<<111, 99>>) = 2
      OBVIOUS
    <2>5. \A i \in 1 .. 2 : two[i] = <<111, 99>>[i]
      BY <2>2
    <2>6. two = <<111, 99>>
      BY <2>2, <2>4, <2>5, Spelled
    <2> QED BY <2>3, <2>6 DEF one, two
  <1>3. (payload[4] # 0) = (w % 2 = 0) /\ (payload[8] # 0) = FALSE
    BY <1>1 DEF Driven
  <1> HIDE DEF payload
  <1>4. NextEntry(payload, NoEntries) = Decoded([pos |-> 4, states |-> <<local>>])
    <2>1. EntryFits(payload, 1) /\ EntryEnd(payload, 1) = 3
      BY <1>1 DEF EntryFits, EntryEnd
    <2>2. 1 + 2 = 3 /\ 3 + 1 = 4
      OBVIOUS
    <2>3. RelayEntry(payload, [pos |-> 1, states |-> <<>>])
            = Decoded(WithEntry(payload, 3, 3, 4, <<>>))
      BY <2>1, <2>2, EntryRead, Zenon
    <2>4. RelayEntry(payload, [pos |-> 1, states |-> <<>>])
            = Decoded([pos |-> 4, states |-> Append(<<>>, local)])
      BY <1>2, <1>3, <2>3, Zenon DEF WithEntry
    <2>5. NextEntry(payload, NoEntries) = RelayEntry(payload, [pos |-> 1, states |-> <<>>])
      BY NextRead DEF NextAt, NoEntries
    <2> HIDE DEF local
    <2>6. Append(<<>>, local) = <<local>>
      OBVIOUS
    <2> QED BY <2>4, <2>5, <2>6
  <1>5. TwoEntries(payload) = Decoded([pos |-> 8, states |-> <<local, osc>>])
    <2>1. EntryFits(payload, 4) /\ EntryEnd(payload, 4) = 7
      BY <1>1 DEF EntryFits, EntryEnd
    <2>2. 4 + 2 = 6 /\ 7 + 1 = 8
      OBVIOUS
    <2>3. RelayEntry(payload, [pos |-> 4, states |-> <<local>>])
            = Decoded(WithEntry(payload, 6, 7, 8, <<local>>))
      <3> HIDE DEF local
      <3>1. RelayEntry(payload, [pos |-> 4, states |-> <<local>>])
              = Decoded(WithEntry(payload, 4 + 2, EntryEnd(payload, 4),
                                  EntryEnd(payload, 4) + 1, <<local>>))
        BY <2>1, EntryRead
      <3> QED BY <2>1, <2>2, <3>1
    <2>4. RelayEntry(payload, [pos |-> 4, states |-> <<local>>])
            = Decoded([pos |-> 8, states |-> Append(<<local>>, osc)])
      BY <1>2, <1>3, <2>3, Zenon DEF WithEntry
    <2>5. TwoEntries(payload) = RelayEntry(payload, [pos |-> 4, states |-> <<local>>])
      BY <1>4, NextRead DEF NextAt, TwoEntries
    <2>6. Append(<<local>>, osc) = <<local, osc>>
      BY Appended
    <2> QED BY <2>4, <2>5, <2>6
  <1>6. decode_relay_response(payload) = Decoded(<<local, osc>>)
    <2> DEFINE read == [pos |-> 8, states |-> <<local, osc>>]
    <2>1. read.states = <<local, osc>>
      OBVIOUS
    <2>2. TwoEntries(payload).ok = TRUE /\ TwoEntries(payload).value = read
      BY <1>5, Decodings
    <2>3. payload # <<>> /\ payload[1] = 2
      <3>1. Len(payload) # 0 /\ Len(<<>>) = 0
        BY <1>1
      <3> QED BY <1>1, <3>1
    <2> HIDE DEF local, osc, read
    <2> QED BY <2>1, <2>2, <2>3, DecodesTwo
  <1> QED BY <1>6 DEF RelayStates, payload

LEMMA RelaysCut ==
  ASSUME NEW w \in Int, NEW n \in 0 .. 7
  PROVE  decode_relay_response(Short(RelayPayload(w), n)) = Malformed
  <1> DEFINE cut == Short(RelayPayload(w), n)
  <1>1. /\ cut \in Seq(Int) /\ Len(cut) = n
        /\ \A i \in 1 .. n : cut[i] = RelayPayload(w)[i]
    <2>1. RelayPayload(w) \in Seq(Int) /\ Len(RelayPayload(w)) = 8
      BY RelayBytes
    <2>2. n \in 0 .. Len(RelayPayload(w))
      BY <2>1
    <2> QED BY <2>1, <2>2, ShortBytes, Zenon
  <1>2. /\ n >= 1 => cut[1] = 2
        /\ n >= 2 => cut[2] = 1
        /\ n >= 5 => cut[5] = 2
    BY <1>1 DEF RelayPayload
  <1> HIDE DEF cut
  <1>3. CASE n = 0
    BY <1>1, <1>3 DEF decode_relay_response, cut
  <1>4. CASE n >= 1
    <2>1. NextEntry(cut, NoEntries) = RelayEntry(cut, [pos |-> 1, states |-> <<>>])
      BY NextRead DEF NextAt, NoEntries
    <2>2. ASSUME n =< 3 PROVE TwoEntries(cut).ok = FALSE
      <3>1. ~EntryFits(cut, 1)
        BY <1>1, <1>2, <1>4, <2>2 DEF EntryFits, EntryEnd
      <3>2. NextEntry(cut, NoEntries) = Malformed
        BY <2>1, <3>1, EntryMissing, Zenon
      <3> QED BY <3>2, Decodings DEF TwoEntries, NextEntry
    <2>3. ASSUME n >= 4 PROVE TwoEntries(cut).ok = FALSE
      <3>1. EntryFits(cut, 1) /\ EntryEnd(cut, 1) + 1 = 4
        BY <1>1, <1>2, <2>3 DEF EntryFits, EntryEnd
      <3>2. PICK states : NextEntry(cut, NoEntries) = Decoded([pos |-> 4, states |-> states])
        <4>1. RelayEntry(cut, [pos |-> 1, states |-> <<>>])
                = Decoded(WithEntry(cut, 1 + 2, EntryEnd(cut, 1), EntryEnd(cut, 1) + 1, <<>>))
          BY <3>1, EntryRead
        <4> QED BY <2>1, <3>1, <4>1, Zenon DEF WithEntry
      <3>3. ~EntryFits(cut, 4)
        BY <1>1, <1>2, <2>3 DEF EntryFits, EntryEnd
      <3>4. RelayEntry(cut, [pos |-> 4, states |-> states]) = Malformed
        BY <3>3, EntryMissing, Zenon
      <3>5. TwoEntries(cut) = Malformed
        BY <3>2, <3>4, NextRead DEF NextAt, TwoEntries
      <3> QED BY <3>5, Decodings
    <2>4. TwoEntries(cut).ok = FALSE
      <3>1. n =< 3 \/ n >= 4
        OBVIOUS
      <3> QED BY <2>2, <2>3, <3>1, Zenon
    <2>5. cut # <<>> /\ cut[1] = 2
      BY <1>1, <1>2, <1>4
    <2> QED BY <2>4, <2>5, DecodesTwo DEF cut
  <1> QED BY <1>3, <1>4

-----------------------------------------------------------------------------
(* Replies: the identity and the analog reading.                             *)

LEMMA SerialSurvives ==
  ASSUME NEW v \in Nat, v \div 16777216 \in Byte
  PROVE  /\ PackU32(v) \in Seq(Int) /\ Len(PackU32(v)) = 4
         /\ UnpackU32(PackU32(v)) = v
  <1>1. (v % 256) + 256 * ((v \div 256) % 256) + 65536 * ((v \div 65536) % 256)
          + 16777216 * ((v \div 16777216) % 256) = v
    BY DEF Byte
  <1>2. PackU32(v) \in Seq(Int) /\ Len(PackU32(v)) = 4
    BY DEF PackU32
  <1>3. /\ PackU32(v)[1] = v % 256 /\ PackU32(v)[2] = (v \div 256) % 256
        /\ PackU32(v)[3] = (v \div 65536) % 256 /\ PackU32(v)[4] = (v \div 16777216) % 256
    BY DEF PackU32
  <1> QED BY <1>1, <1>2, <1>3 DEF UnpackU32

IdentPayload == <<Identity.fw_major, Identity.fw_minor>> \o PackU32(Identity.serial)
                  \o <<Len(Identity.name)>> \o Identity.name

LEMMA IdentBytes ==
  /\ IdentPayload \in Seq(Int) /\ Len(IdentPayload) = 7 + Len(Identity.name)
  /\ IdentPayload[1] = Identity.fw_major /\ IdentPayload[2] = Identity.fw_minor
  /\ IdentPayload[7] = Len(Identity.name)
  /\ SubSeq(IdentPayload, 3, 6) = PackU32(Identity.serial)
  /\ SubSeq(IdentPayload, 8, 7 + Len(Identity.name)) = Identity.name
  /\ encode_ident_response(Identity) = Frame(MsgId.RSP_IDENT, IdentPayload)
  <1> DEFINE name == Identity.name
             packed == PackU32(Identity.serial)
             version == <<Identity.fw_major, Identity.fw_minor>>
             size == <<Len(name)>>
  <1>1. /\ Identity.fw_major \in Int /\ Identity.fw_minor \in Int
        /\ name \in Seq(Int) /\ Len(name) \in Nat
    <2>1. Identity \in [fw_major: Byte, fw_minor: Byte, serial: Nat, name: Seq(Byte)]
      BY DutWireAssumption
    <2>2. name \in Seq(Byte) /\ Identity.fw_major \in Byte /\ Identity.fw_minor \in Byte
      BY <2>1
    <2>3. Byte \subseteq Int
      BY DEF Byte
    <2>4. name \in Seq(Int)
      BY <2>2, <2>3, SeqMonotonic, Zenon
    <2>5. Len(name) \in Nat
      BY <2>4
    <2> QED BY <2>2, <2>3, <2>4, <2>5
  <1>2. packed \in Seq(Int) /\ Len(packed) = 4
    BY DutWireAssumption, SerialSurvives
  <1>3. version \in Seq(Int) /\ Len(version) = 2
        /\ version[1] = Identity.fw_major /\ version[2] = Identity.fw_minor
    BY <1>1
  <1>4. size \in Seq(Int) /\ Len(size) = 1 /\ size[1] = Len(name)
    BY <1>1
  <1>5. IdentPayload = version \o packed \o size \o name
    BY DEF IdentPayload
  <1>6. encode_ident_response(Identity) = Frame(MsgId.RSP_IDENT, IdentPayload)
    BY DEF encode_ident_response, encode, Frame, MsgId, IdentPayload
  <1> HIDE DEF name, packed, version, size
  <1>7. /\ IdentPayload \in Seq(Int) /\ Len(IdentPayload) = 7 + Len(name)
        /\ IdentPayload[1] = version[1] /\ IdentPayload[2] = version[2]
        /\ IdentPayload[7] = Len(name)
        /\ \A i \in 1 .. 4 : IdentPayload[2 + i] = packed[i]
        /\ \A i \in 1 .. Len(name) : IdentPayload[7 + i] = name[i]
    <2> DEFINE a == version \o packed
               b == a \o size
    <2>1. /\ a \in Seq(Int) /\ Len(a) = Len(version) + Len(packed)
          /\ \A i \in 1 .. Len(version) : a[i] = version[i]
          /\ \A i \in 1 .. Len(packed) : a[Len(version) + i] = packed[i]
      BY <1>2, <1>3, Joined
    <2> HIDE DEF a
    <2>2. /\ b \in Seq(Int) /\ Len(b) = Len(a) + Len(size)
          /\ \A i \in 1 .. Len(a) : b[i] = a[i]
          /\ \A i \in 1 .. Len(size) : b[Len(a) + i] = size[i]
      BY <1>4, <2>1, Joined
    <2> HIDE DEF b
    <2>3. IdentPayload = b \o name
      BY <1>5 DEF a, b
    <2>4. /\ IdentPayload \in Seq(Int) /\ Len(IdentPayload) = Len(b) + Len(name)
          /\ \A i \in 1 .. Len(b) : IdentPayload[i] = b[i]
          /\ \A i \in 1 .. Len(name) : IdentPayload[Len(b) + i] = name[i]
      BY <1>1, <2>2, <2>3, Joined
    <2>5. Len(a) = 6 /\ Len(b) = 7
      BY <1>2, <1>3, <1>4, <2>1, <2>2
    <2>6. a[1] = version[1] /\ a[2] = version[2]
      BY <1>3, <2>1
    <2>7. /\ IdentPayload[1] = version[1] /\ IdentPayload[2] = version[2]
          /\ IdentPayload[7] = Len(name)
      <3>1. b[1] = a[1] /\ b[2] = a[2] /\ b[7] = size[1]
        <4>1. 1 \in 1 .. 6 /\ 2 \in 1 .. 6 /\ 1 \in 1 .. 1 /\ 6 + 1 = 7
          OBVIOUS
        <4> QED BY <1>4, <2>2, <2>5, <4>1
      <3>2. 1 \in 1 .. 7 /\ 2 \in 1 .. 7 /\ 7 \in 1 .. 7
        OBVIOUS
      <3> QED BY <1>4, <2>4, <2>5, <2>6, <3>1, <3>2
    <2>8. \A i \in 1 .. 4 : IdentPayload[2 + i] = packed[i]
      <3> SUFFICES ASSUME NEW i \in 1 .. 4 PROVE IdentPayload[2 + i] = packed[i]
        OBVIOUS
      <3>1. 2 + i \in 1 .. 6 /\ 2 + i \in 1 .. 7
        OBVIOUS
      <3>2. a[2 + i] = packed[i]
        BY <1>2, <1>3, <2>1
      <3> QED BY <2>2, <2>4, <2>5, <3>1, <3>2
    <2>9. Len(IdentPayload) = 7 + Len(name)
          /\ \A i \in 1 .. Len(name) : IdentPayload[7 + i] = name[i]
      BY <2>4, <2>5
    <2> QED BY <2>4, <2>8, <2>7, <2>9
  <1>8. SubSeq(IdentPayload, 3, 6) = packed
    <2> DEFINE s == SubSeq(IdentPayload, 3, 6)
    <2>1. s \in Seq(Int) /\ Len(s) = 4 /\ \A i \in 1 .. 4 : s[i] = IdentPayload[2 + i]
      BY <1>1, <1>7
    <2> HIDE DEF s
    <2> QED BY <1>2, <1>7, <2>1, Spelled DEF s
  <1>9. SubSeq(IdentPayload, 8, 7 + Len(name)) = name
    <2> DEFINE s == SubSeq(IdentPayload, 8, 7 + Len(name))
    <2>1. /\ s \in Seq(Int) /\ Len(s) = Len(name)
          /\ \A i \in 1 .. Len(name) : s[i] = IdentPayload[7 + i]
      BY <1>1, <1>7
    <2> HIDE DEF s
    <2> QED BY <1>1, <1>7, <2>1, Spelled DEF s
  <1> QED BY <1>3, <1>6, <1>7, <1>8, <1>9 DEF name, packed, version

LEMMA IdentDecoded == decode_ident_response(IdentPayload) = Decoded(Identity)
  <1>1. Identity \in [fw_major: Byte, fw_minor: Byte, serial: Nat, name: Seq(Byte)]
    BY DutWireAssumption
  <1>2. Identity = [fw_major |-> Identity.fw_major, fw_minor |-> Identity.fw_minor,
                    serial |-> Identity.serial, name |-> Identity.name]
    BY <1>1
  <1>3. UnpackU32(PackU32(Identity.serial)) = Identity.serial
    BY DutWireAssumption, SerialSurvives
  <1>4. Len(Identity.name) \in Nat
    BY <1>1
  <1>5. ~(Len(IdentPayload) < 7 \/ Len(IdentPayload) < 7 + IdentPayload[7])
    <2>1. Len(IdentPayload) = 7 + Len(Identity.name) /\ IdentPayload[7] = Len(Identity.name)
      BY IdentBytes
    <2> QED BY <1>4, <2>1
  <1>6. decode_ident_response(IdentPayload)
          = Decoded([fw_major |-> IdentPayload[1], fw_minor |-> IdentPayload[2],
                     serial |-> UnpackU32(SubSeq(IdentPayload, 3, 6)),
                     name |-> SubSeq(IdentPayload, 8, 7 + IdentPayload[7])])
    BY <1>5 DEF decode_ident_response
  <1> QED BY <1>2, <1>3, <1>6, IdentBytes, Zenon

LEMMA IdentCut ==
  ASSUME NEW n \in 0 .. Len(IdentPayload) - 1
  PROVE  decode_ident_response(Short(IdentPayload, n)) = Malformed
  <1> DEFINE cut == Short(IdentPayload, n)
  <1>1. /\ IdentPayload \in Seq(Int) /\ Len(Identity.name) \in Nat
        /\ Len(IdentPayload) = 7 + Len(Identity.name) /\ IdentPayload[7] = Len(Identity.name)
    <2>1. Identity.name \in Seq(Byte)
      BY DutWireAssumption
    <2> QED BY <2>1, IdentBytes
  <1>2. n \in 0 .. Len(IdentPayload)
    BY <1>1
  <1>3. /\ cut \in Seq(Int) /\ Len(cut) = n
        /\ \A i \in 1 .. n : cut[i] = IdentPayload[i]
    BY <1>1, <1>2, ShortBytes, Zenon
  <1> HIDE DEF cut
  <1>4. Len(cut) < 7 \/ Len(cut) < 7 + cut[7]
    <2>1. n < 7 \/ 7 \in 1 .. n
      BY <1>2
    <2>2. 7 \in 1 .. n => cut[7] = Len(Identity.name)
      BY <1>1, <1>3
    <2>3. n < 7 + Len(Identity.name)
      BY <1>1
    <2> QED BY <1>3, <2>1, <2>2, <2>3
  <1> QED BY <1>4 DEF decode_ident_response, cut

AnalogPayload(channel, value) == <<channel>> \o PackFloat(value)

LEMMA AnalogBytes ==
  ASSUME NEW channel \in Int, NEW value \in Int
  PROVE  /\ AnalogPayload(channel, value) \in Seq(Int)
         /\ Len(AnalogPayload(channel, value)) = 9
         /\ AnalogPayload(channel, value)[1] = channel
         /\ UnpackFloat(Tail(AnalogPayload(channel, value))) = value
  <1> DEFINE packed  == PackFloat(value)
             payload == <<channel>> \o packed
  <1>1. packed \in Seq(Int) /\ Len(packed) = 8 /\ packed[1] = value
    BY Floats DEF UnpackFloat
  <1> HIDE DEF packed
  <1>2. payload \in Seq(Int) /\ Len(payload) = 9 /\ payload[1] = channel /\ payload[2] = value
    <2> DEFINE one == <<channel>>
    <2>1. one \in Seq(Int) /\ Len(one) = 1 /\ one[1] = channel
      OBVIOUS
    <2> HIDE DEF one
    <2> DEFINE both == one \o packed
    <2>2. /\ both \in Seq(Int) /\ Len(both) = Len(one) + Len(packed)
          /\ \A i \in 1 .. Len(one) : both[i] = one[i]
          /\ \A i \in 1 .. Len(packed) : both[Len(one) + i] = packed[i]
      BY <1>1, <2>1, Joined
    <2> HIDE DEF both
    <2>3. 1 \in 1 .. 1 /\ 1 \in 1 .. 8 /\ 1 + 1 = 2 /\ 1 + 8 = 9
      OBVIOUS
    <2>4. Len(both) = 9 /\ both[1] = channel /\ both[2] = value
      BY <1>1, <2>1, <2>2, <2>3
    <2> QED BY <2>2, <2>4 DEF both, one
  <1> HIDE DEF payload
  <1>3. Tail(payload)[1] = payload[2]
    <2>1. payload # <<>>
      <3>1. Len(payload) # Len(<<>>)
        BY <1>2
      <3> QED BY <3>1
    <2>2. /\ Len(Tail(payload)) = Len(payload) - 1
          /\ \A i \in 1 .. Len(Tail(payload)) : Tail(payload)[i] = payload[i + 1]
      BY <1>2, <2>1, HeadTailProperties, Zenon
    <2>3. Len(Tail(payload)) = 8
      BY <1>2, <2>2
    <2>4. 1 \in 1 .. 8 /\ 1 + 1 = 2
      OBVIOUS
    <2> QED BY <2>2, <2>3, <2>4
  <1> QED BY <1>2, <1>3 DEF AnalogPayload, UnpackFloat, payload, packed

LEMMA AnalogLength ==
  ASSUME NEW channel \in Int, NEW value \in Int
  PROVE  /\ AnalogPayload(channel, value) \in Seq(Int)
         /\ Len(AnalogPayload(channel, value)) = 9
  BY AnalogBytes

-----------------------------------------------------------------------------
(* Replies: what the driver makes of each.                                   *)

\* What is sent of a reply after its kind.
Refusal(r) == IF r.about = "REQ_ANALOG" THEN NackReason.BAD_CHANNEL ELSE NackReason.BAD_VALUE

ReplyPayload(r) ==
  CASE r.msg = "RSP_IDENT"  -> IdentPayload
    [] r.msg = "RSP_RELAYS" -> RelayPayload(r.reading.world)
    [] r.msg = "RSP_ANALOG" -> AnalogPayload(r.echo, ReadingOf(r.reading))
    [] r.msg = "RSP_ACK"    -> <<MsgId[r.about]>>
    [] r.msg = "RSP_NACK"   -> <<MsgId[r.about], Refusal(r)>>

LEMMA Kinds ==
  /\ \A msg \in ReqMsgs \cup RspMsgs : MsgId[msg] \in Int
  /\ \A msg, other \in ReqMsgs \cup RspMsgs : MsgId[msg] = MsgId[other] => msg = other
  /\ \A request : request.msg \in ReqMsgs => Expected(request) \in RspMsgs \ {"RSP_NACK"}
  <1>1. \A msg \in ReqMsgs \cup RspMsgs : MsgId[msg] \in Int
    BY DEF ReqMsgs, ReadMsgs, RspMsgs, MsgId
  <1>2. \A msg, other \in ReqMsgs \cup RspMsgs : MsgId[msg] = MsgId[other] => msg = other
    BY DEF ReqMsgs, ReadMsgs, RspMsgs, MsgId
  <1>3. ASSUME NEW request, request.msg \in ReqMsgs
        PROVE  Expected(request) \in RspMsgs \ {"RSP_NACK"}
    BY <1>3 DEF Expected, ReqMsgs, ReadMsgs, RspMsgs
  <1> QED BY <1>1, <1>2, <1>3

LEMMA ReplyType ==
  ASSUME NEW r \in ReplyDatagram
  PROVE  /\ r.msg \in RspMsgs /\ r.about \in ReqMsgs /\ r.echo \in Int
         /\ r.reading.world \in Int /\ ReadingOf(r.reading) \in Int
         /\ MsgId[r.msg] \in Int /\ MsgId[r.about] \in Int
  <1>1. /\ r.msg \in RspMsgs /\ r.about \in ReqMsgs /\ r.echo \in Int
        /\ r.reading \in Reading
    BY DEF ReplyDatagram
  <1>2. r.reading.world \in Int /\ r.reading.correction \in Int
    <2>1. r.reading.world \in 0..MaxWorlds /\ r.reading.correction \in ValidFactors
      BY <1>1 DEF Reading
    <2>2. ValidFactors \subseteq Int
      BY DutLinkAssumption
    <2>3. r.reading.world \in Int
      BY <2>1
    <2>4. r.reading.correction \in Int
      BY <2>1, <2>2, Zenon
    <2> QED BY <2>3, <2>4
  <1>3. ReadingOf(r.reading) \in Int
    BY <1>2 DEF ReadingOf
  <1> QED BY <1>1, <1>2, <1>3, Kinds

LEMMA ReplyFrames ==
  ASSUME NEW r \in ReplyDatagram
  PROVE  /\ EncodeReply(r) = Frame(MsgId[r.msg], ReplyPayload(r))
         /\ ReplyPayload(r) \in Seq(Int) /\ Len(ReplyPayload(r)) >= 1
  <1>1. CASE r.msg = "RSP_IDENT"
    <2>1. ReplyPayload(r) = IdentPayload /\ EncodeReply(r) = encode_ident_response(Identity)
      BY <1>1 DEF ReplyPayload, EncodeReply
    <2>2. Len(Identity.name) \in Nat
      BY DutWireAssumption
    <2>3. IdentPayload \in Seq(Int) /\ Len(IdentPayload) >= 1
      BY <2>2, IdentBytes
    <2> QED BY <1>1, <2>1, <2>3, IdentBytes
  <1>2. CASE r.msg = "RSP_RELAYS"
    <2>1. /\ ReplyPayload(r) = RelayPayload(r.reading.world)
          /\ EncodeReply(r) = encode_relay_response(RelayStates(r.reading.world))
      BY <1>2 DEF ReplyPayload, EncodeReply
    <2>2. r.reading.world \in Int
      BY ReplyType
    <2>3. /\ RelayPayload(r.reading.world) \in Seq(Int) /\ Len(RelayPayload(r.reading.world)) = 8
          /\ encode_relay_response(RelayStates(r.reading.world))
               = Frame(MsgId.RSP_RELAYS, RelayPayload(r.reading.world))
      BY <2>2, RelayBytes, Zenon
    <2> QED BY <1>2, <2>1, <2>3
  <1>3. CASE r.msg = "RSP_ANALOG"
    <2>1. /\ ReplyPayload(r) = AnalogPayload(r.echo, ReadingOf(r.reading))
          /\ EncodeReply(r) = encode_analog_response(r.echo, ReadingOf(r.reading))
      BY <1>3 DEF ReplyPayload, EncodeReply
    <2>2. EncodeReply(r) = Frame(MsgId[r.msg], ReplyPayload(r))
      BY <1>3, <2>1 DEF encode_analog_response, encode, AnalogPayload, Frame
    <2>3. r.echo \in Int /\ ReadingOf(r.reading) \in Int
      BY ReplyType
    <2>4. ReplyPayload(r) \in Seq(Int) /\ Len(ReplyPayload(r)) = 9
      BY <2>1, <2>3, AnalogLength, Zenon
    <2> QED BY <2>2, <2>4
  <1>4. CASE r.msg = "RSP_ACK"
    <2>1. ReplyPayload(r) = <<MsgId[r.about]>> /\ EncodeReply(r) = encode_ack(MsgId[r.about])
      BY <1>4 DEF ReplyPayload, EncodeReply
    <2>2. EncodeReply(r) = Frame(MsgId[r.msg], ReplyPayload(r))
      BY <1>4, <2>1 DEF encode_ack, encode, Frame
    <2>3. <<MsgId[r.about]>> \in Seq(Int) /\ Len(<<MsgId[r.about]>>) >= 1
      BY ReplyType
    <2> QED BY <2>1, <2>2, <2>3
  <1>5. CASE r.msg = "RSP_NACK"
    <2>1. /\ ReplyPayload(r) = <<MsgId[r.about], Refusal(r)>>
          /\ EncodeReply(r) = encode_nack(MsgId[r.about], Refusal(r))
      BY <1>5 DEF ReplyPayload, EncodeReply, Refusal
    <2>2. EncodeReply(r) = Frame(MsgId[r.msg], ReplyPayload(r))
      BY <1>5, <2>1 DEF encode_nack, encode, Frame
    <2>3. Refusal(r) \in Int
      BY DEF Refusal, NackReason
    <2>4. /\ <<MsgId[r.about], Refusal(r)>> \in Seq(Int)
          /\ Len(<<MsgId[r.about], Refusal(r)>>) >= 1
      BY <2>3, ReplyType
    <2> QED BY <2>1, <2>2, <2>4
  <1>6. r.msg \in {"RSP_IDENT", "RSP_RELAYS", "RSP_ANALOG", "RSP_ACK", "RSP_NACK"}
    BY ReplyType DEF RspMsgs
  <1> QED BY <1>1, <1>2, <1>3, <1>4, <1>5, <1>6

\* The reply of the awaited kind answers something else.
Mismatched(request, r) ==
  \/ request.msg = "REQ_ANALOG" /\ r.echo # request.arg
  \/ request.msg = "REQ_SET_CORRECTION" /\ r.about # request.msg

LEMMA WholeAnswer ==
  ASSUME NEW request, request.msg \in ReqMsgs,
         NEW r \in ReplyDatagram, r.msg = Expected(request)
  PROVE  OperationMakesOf(request, ReplyPayload(r))
           = IF Mismatched(request, r) THEN Malformed ELSE Decoded(Returns(request, r))
  <1>1. CASE request.msg = "REQ_IDENT"
    <2>1. ReplyPayload(r) = IdentPayload
      BY <1>1 DEF Expected, ReplyPayload
    <2>2. ~Mismatched(request, r) /\ Returns(request, r) = Identity
      BY <1>1 DEF Mismatched, Returns
    <2>3. OperationMakesOf(request, IdentPayload) = decode_ident_response(IdentPayload)
      BY <1>1 DEF OperationMakesOf
    <2> QED BY <2>1, <2>2, <2>3, IdentDecoded
  <1>2. CASE request.msg = "REQ_RELAYS"
    <2> DEFINE payload == RelayPayload(r.reading.world)
    <2>1. ReplyPayload(r) = payload
      BY <1>2 DEF Expected, ReplyPayload
    <2>2. ~Mismatched(request, r) /\ Returns(request, r) = RelayStates(r.reading.world)
      BY <1>2 DEF Mismatched, Returns
    <2> HIDE DEF payload
    <2>3. OperationMakesOf(request, payload) = decode_relay_response(payload)
      BY <1>2 DEF OperationMakesOf
    <2>4. decode_relay_response(payload) = Decoded(RelayStates(r.reading.world))
      BY ReplyType, RelaysDecoded DEF payload
    <2> QED BY <2>1, <2>2, <2>3, <2>4
  <1>3. CASE request.msg = "REQ_ANALOG"
    <2> DEFINE payload == AnalogPayload(r.echo, ReadingOf(r.reading))
               answer_  == [channel |-> r.echo, value |-> ReadingOf(r.reading)]
    <2>1. ReplyPayload(r) = payload
      BY <1>3 DEF Expected, ReplyPayload
    <2>2. /\ Mismatched(request, r) <=> r.echo # request.arg
          /\ Returns(request, r) = ReadingOf(r.reading)
      BY <1>3 DEF Mismatched, Returns
    <2>3. r.echo \in Int /\ ReadingOf(r.reading) \in Int
      BY ReplyType
    <2>4. /\ Len(payload) = 9 /\ payload[1] = r.echo
          /\ UnpackFloat(Tail(payload)) = ReadingOf(r.reading)
      BY <2>3, AnalogBytes
    <2> HIDE DEF payload
    <2>5. decode_analog_response(payload) = Decoded(answer_)
      BY <2>4 DEF decode_analog_response
    <2>6. /\ decode_analog_response(payload).ok = TRUE
          /\ decode_analog_response(payload).value.channel = r.echo
          /\ decode_analog_response(payload).value.value = ReadingOf(r.reading)
      BY <2>5, Decodings
    <2>7. OperationMakesOf(request, payload)
            = IF r.echo = request.arg THEN Decoded(ReadingOf(r.reading)) ELSE Malformed
      BY <1>3, <2>6 DEF OperationMakesOf
    <2> QED BY <2>1, <2>2, <2>7
  <1>4. CASE request.msg = "REQ_SET_CORRECTION"
    <2> DEFINE payload == <<MsgId[r.about]>>
    <2>1. ReplyPayload(r) = payload
      BY <1>4 DEF Expected, ReplyPayload
    <2>2. /\ Mismatched(request, r) <=> MsgId[r.about] # MsgId.REQ_SET_CORRECTION
          /\ Returns(request, r) = MsgId.REQ_SET_CORRECTION
      <3>1. r.about \in ReqMsgs
        BY ReplyType
      <3> QED BY <1>4, <3>1 DEF Mismatched, Returns, ReqMsgs, ReadMsgs, MsgId
    <2>3. decode_ack(payload) = Decoded(MsgId[r.about])
      BY DEF decode_ack
    <2> HIDE DEF payload
    <2>4. decode_ack(payload).ok = TRUE /\ decode_ack(payload).value = MsgId[r.about]
      BY <2>3, Decodings
    <2>5. OperationMakesOf(request, payload)
            = IF MsgId[r.about] = MsgId.REQ_SET_CORRECTION
              THEN Decoded(MsgId[r.about]) ELSE Malformed
      BY <1>4, <2>3, <2>4 DEF OperationMakesOf
    <2> QED BY <2>1, <2>2, <2>5
  <1> QED BY <1>1, <1>2, <1>3, <1>4 DEF ReqMsgs, ReadMsgs

LEMMA CutAnswer ==
  ASSUME NEW request, request.msg \in ReqMsgs,
         NEW r \in ReplyDatagram, r.msg = Expected(request),
         NEW n \in 0 .. Len(ReplyPayload(r)) - 1
  PROVE  OperationMakesOf(request, Short(ReplyPayload(r), n)).ok = FALSE
  <1> DEFINE payload == ReplyPayload(r)
             cut == Short(payload, n)
  <1>1. Len(cut) = n /\ n # Len(payload)
    <2>1. payload \in Seq(Int)
      BY ReplyFrames
    <2> HIDE DEF payload
    <2>2. n \in 0 .. Len(payload)
      BY <2>1 DEF payload
    <2>3. n # Len(payload)
      BY <2>1 DEF payload
    <2> QED BY <2>1, <2>2, <2>3, ShortBytes DEF payload
  <1>2. CASE request.msg = "REQ_IDENT"
    <2>1. payload = IdentPayload
      BY <1>2 DEF Expected, ReplyPayload
    <2>2. decode_ident_response(cut) = Malformed
      BY <2>1, IdentCut
    <2> HIDE DEF cut
    <2>3. OperationMakesOf(request, cut) = decode_ident_response(cut)
      BY <1>2 DEF OperationMakesOf
    <2> QED BY <2>2, <2>3, Decodings DEF cut
  <1>3. CASE request.msg = "REQ_RELAYS"
    <2>1. payload = RelayPayload(r.reading.world)
      BY <1>3 DEF Expected, ReplyPayload
    <2>2. r.reading.world \in Int
      BY ReplyType
    <2>3. n \in 0 .. 7
      <3>1. Len(payload) = 8
        BY <2>1, <2>2, RelayBytes, Zenon
      <3> QED BY <3>1
    <2>4. decode_relay_response(cut) = Malformed
      BY <2>1, <2>2, <2>3, RelaysCut
    <2> HIDE DEF cut
    <2>5. OperationMakesOf(request, cut) = decode_relay_response(cut)
      BY <1>3 DEF OperationMakesOf
    <2> QED BY <2>4, <2>5, Decodings DEF cut
  <1>4. CASE request.msg = "REQ_ANALOG"
    <2>1. Len(payload) = 9
      <3>1. payload = AnalogPayload(r.echo, ReadingOf(r.reading))
        BY <1>4 DEF Expected, ReplyPayload
      <3>2. r.echo \in Int /\ ReadingOf(r.reading) \in Int
        BY ReplyType
      <3> QED BY <3>1, <3>2, AnalogLength, Zenon
    <2> HIDE DEF cut, payload
    <2>2. decode_analog_response(cut) = Malformed
      BY <1>1, <2>1 DEF decode_analog_response
    <2>3. decode_analog_response(cut).ok = FALSE
      BY <2>2, Decodings
    <2>4. OperationMakesOf(request, cut) = Malformed
      BY <1>4, <2>3 DEF OperationMakesOf
    <2> QED BY <2>4, Decodings DEF cut, payload
  <1>5. CASE request.msg = "REQ_SET_CORRECTION"
    <2>1. Len(payload) = 1
      BY <1>5 DEF Expected, ReplyPayload
    <2> HIDE DEF cut, payload
    <2>2. decode_ack(cut) = Malformed
      BY <1>1, <2>1 DEF decode_ack
    <2>3. decode_ack(cut).ok = FALSE
      BY <2>2, Decodings
    <2>4. OperationMakesOf(request, cut) = Malformed
      BY <1>5, <2>3 DEF OperationMakesOf
    <2> QED BY <2>4, Decodings DEF cut, payload
  <1> QED BY <1>2, <1>3, <1>4, <1>5 DEF ReqMsgs, ReadMsgs

LEMMA WholeJudged ==
  ASSUME NEW request, request.msg \in ReqMsgs, NEW r \in ReplyDatagram
  PROVE  Judged(request, MsgId[r.msg], ReplyPayload(r)) = Verdict(request, r)
  <1>1. CASE r.msg = "RSP_NACK"
    <2> DEFINE payload == <<MsgId[r.about], Refusal(r)>>
               nack_   == [echoed |-> MsgId[r.about], reason |-> Refusal(r)]
    <2>1. ReplyPayload(r) = payload
      BY <1>1 DEF ReplyPayload
    <2>2. decode_nack(payload) = Decoded(nack_)
      BY DEF decode_nack
    <2>3. decode_nack(payload).ok = TRUE /\ decode_nack(payload).value.echoed = MsgId[r.about]
      BY <2>2, Decodings
    <2> HIDE DEF payload
    <2>4. MsgId[r.about] = MsgId[request.msg] <=> r.about = request.msg
      BY ReplyType, Kinds
    <2>5. Judged(request, MsgId.RSP_NACK, payload)
            = IF MsgId[r.about] = MsgId[request.msg] THEN "refused" ELSE "discarded"
      BY <2>3 DEF Judged
    <2>6. Verdict(request, r) = IF r.about = request.msg THEN "refused" ELSE "discarded"
      BY <1>1, Kinds DEF Verdict
    <2>7. MsgId[r.msg] = MsgId.RSP_NACK
      BY <1>1 DEF MsgId
    <2> QED BY <2>1, <2>4, <2>5, <2>6, <2>7
  <1>2. CASE r.msg # "RSP_NACK"
    <2>1. MsgId[r.msg] # MsgId.RSP_NACK
      BY <1>2, ReplyType DEF RspMsgs, MsgId
    <2>2. MsgId[r.msg] = MsgId[Expected(request)] <=> r.msg = Expected(request)
      BY ReplyType, Kinds
    <2>3. CASE r.msg = Expected(request)
      <3>1. Verdict(request, r)
              = IF Mismatched(request, r) THEN "protocol_error" ELSE "answered"
        BY <1>2, <2>3 DEF Verdict, Mismatched
      <3>2. OperationMakesOf(request, ReplyPayload(r)).ok = ~Mismatched(request, r)
        <4>1. CASE Mismatched(request, r)
          BY <2>3, <4>1, WholeAnswer, Decodings
        <4>2. CASE ~Mismatched(request, r)
          BY <2>3, <4>2, WholeAnswer, Decodings
        <4> QED BY <4>1, <4>2
      <3> QED BY <2>1, <2>2, <2>3, <3>1, <3>2 DEF Judged
    <2>4. CASE r.msg # Expected(request)
      <3>1. Verdict(request, r) = "discarded"
        BY <1>2, <2>4 DEF Verdict
      <3> QED BY <2>1, <2>2, <2>4, <3>1 DEF Judged
    <2> QED BY <2>3, <2>4
  <1> QED BY <1>1, <1>2

LEMMA CutJudged ==
  ASSUME NEW request, request.msg \in ReqMsgs, NEW r \in ReplyDatagram,
         NEW n \in 0 .. Len(ReplyPayload(r)) - 1
  PROVE  Judged(request, MsgId[r.msg], Short(ReplyPayload(r), n))
           = IF r.msg \in {"RSP_NACK", Expected(request)} THEN "protocol_error" ELSE "discarded"
  <1> DEFINE cut == Short(ReplyPayload(r), n)
  <1>1. CASE r.msg = "RSP_NACK"
    <2>1. Len(cut) # 2
      <3>1. ReplyPayload(r) \in Seq(Int) /\ Len(ReplyPayload(r)) = 2
        BY <1>1, ReplyFrames DEF ReplyPayload
      <3>2. n \in 0 .. Len(ReplyPayload(r)) /\ n # 2
        BY <3>1
      <3>3. Len(cut) = n
        BY <3>1, <3>2, ShortBytes, Zenon
      <3> QED BY <3>2, <3>3
    <2> HIDE DEF cut
    <2>2. decode_nack(cut) = Malformed
      BY <2>1 DEF decode_nack
    <2>3. decode_nack(cut).ok = FALSE
      BY <2>2, Decodings
    <2>4. MsgId[r.msg] = MsgId.RSP_NACK
      BY <1>1 DEF MsgId
    <2> QED BY <1>1, <2>3, <2>4 DEF Judged, cut
  <1>2. CASE r.msg # "RSP_NACK"
    <2>1. MsgId[r.msg] # MsgId.RSP_NACK
      BY <1>2, ReplyType DEF RspMsgs, MsgId
    <2>2. MsgId[r.msg] = MsgId[Expected(request)] <=> r.msg = Expected(request)
      BY ReplyType, Kinds
    <2>3. r.msg = Expected(request) => OperationMakesOf(request, cut).ok = FALSE
      BY CutAnswer
    <2> HIDE DEF cut
    <2> QED BY <1>2, <2>1, <2>2, <2>3 DEF Judged, cut
  <1> QED BY <1>1, <1>2

LEMMA InvReplies == Inv => RepliesSurviveTheWire
  <1> DEFINE request == Current.request
  <1> SUFFICES ASSUME Inv, Waiting, NEW r \in replies
               PROVE  LET raw == EncodeReply(r)
                          verdict == Verdict(request, r)
                      IN /\ DriverMakesOf(request, raw) = verdict
                         /\ verdict = "answered" =>
                              OperationMakesOf(request, decode(raw).value.payload)
                                = Decoded(Returns(request, r))
                         /\ {DriverMakesOf(request, SubSeq(raw, 1, n)) : n \in 0 .. Len(raw) - 1}
                              = CutVerdicts(request, r)
    BY DEF RepliesSurviveTheWire
  <1> DEFINE payload == ReplyPayload(r)
             id == MsgId[r.msg]
  <1>1. request.msg \in ReqMsgs /\ r \in ReplyDatagram
    <2>1. TypeOK
      BY DEF Inv
    <2>2. Len(calls) \in 1..Len(calls)
      BY <2>1, WaitingType
    <2>3. request.msg \in ReqMsgs
      BY <2>1, <2>2, CallType DEF Current
    <2>4. r \in ReplyDatagram
      BY <2>1 DEF TypeOK
    <2> QED BY <2>3, <2>4
  <1> HIDE DEF request
  <1>2. /\ EncodeReply(r) = Frame(id, payload) /\ id \in Int
        /\ payload \in Seq(Int) /\ Len(payload) >= 1
    BY <1>1, ReplyFrames, ReplyType
  <1>3. DriverMakesOf(request, Frame(id, payload)) = Verdict(request, r)
    BY <1>1, <1>2, DriverCuts, WholeJudged
  <1>4. Verdict(request, r) = "answered" =>
          OperationMakesOf(request, decode(Frame(id, payload)).value.payload)
            = Decoded(Returns(request, r))
    <2>1. decode(Frame(id, payload)).value.payload = payload
      <3>1. decode(Frame(id, payload)) = Content(id, payload)
        BY <1>2, Frames
      <3> QED BY <3>1, Decodings DEF Content
    <2>2. Verdict(request, r) = "answered" =>
            r.msg = Expected(request) /\ ~Mismatched(request, r)
      BY DEF Verdict, Mismatched
    <2> QED BY <1>1, <2>1, <2>2, WholeAnswer
  <1>5. ShortsJudged(request, id, payload)
          = IF r.msg \in {"RSP_NACK", Expected(request)} THEN {"protocol_error"}
            ELSE {"discarded"}
    <2> DEFINE verdict == IF r.msg \in {"RSP_NACK", Expected(request)}
                          THEN "protocol_error" ELSE "discarded"
    <2>1. \A n \in 0 .. Len(payload) - 1 : Judged(request, id, Short(payload, n)) = verdict
      BY <1>1, CutJudged
    <2>2. 0 \in 0 .. Len(payload) - 1
      BY <1>2
    <2> HIDE DEF payload, id, verdict
    <2>3. ShortsJudged(request, id, payload) = {verdict}
      BY <2>1, <2>2 DEF ShortsJudged
    <2> QED BY <2>3 DEF verdict
  <1>6. CutsMade(request, Frame(id, payload)) = CutVerdicts(request, r)
    <2>1. CutsMade(request, Frame(id, payload))
            = {"discarded"} \cup ShortsJudged(request, id, payload)
      BY <1>2, DriverCuts, Zenon
    <2>2. CutVerdicts(request, r)
            = {"discarded"} \cup (IF r.msg \in {"RSP_NACK", Expected(request)}
                                  THEN {"protocol_error"} ELSE {"discarded"})
      BY DEF CutVerdicts
    <2> QED BY <1>5, <2>1, <2>2, Zenon
  <1> QED BY <1>2, <1>3, <1>4, <1>6, Zenon DEF CutsMade

\* Every reply on its way while the driver waits, whatever it says and wherever
\* it is cut: its bytes are judged as DutLink judges it, the value of an answer
\* comes through unchanged, and what is left of a reply that was cut never
\* passes for an answer or for a refusal.
THEOREM ReplyBytesMeanReplies == Spec => []RepliesSurviveTheWire
  BY InvHolds, InvReplies, PTL
=============================================================================
