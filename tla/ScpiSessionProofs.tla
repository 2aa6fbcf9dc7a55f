-------------------------- MODULE ScpiSessionProofs --------------------------
(* Theorems about ScpiSession.  As long as nothing has shifted the session,  *)
(* what is in the stream and in the buffer is the part of the newest answer  *)
(* that has not been read yet, whatever the pieces it arrives in.            *)
EXTENDS ScpiSession, SequenceTheorems, WellFoundedInduction, TLAPS

(* The inductive invariant.                                                  *)

\* How many bytes of the newest answer the reads of this stage have consumed.
Consumed ==
  CASE reading.stage \in {"line", "prefix"} -> 0
    [] reading.stage = "digits"     -> 1
    [] reading.stage = "count"      -> 2
    [] reading.stage = "payload"    -> 3
    [] reading.stage = "terminator" -> 3 + Len(Payload)

\* Every command still to be executed answers nothing, up to the last one.
Silent(last) == \A n \in executed + 1 .. last : Reply(n, written[n]) = <<>>

Answer == Reply(Newest, written[Newest])

\* The buffer goes on where the reads have got to, the stream after it.
PartOfAnswer ==
  /\ Consumed + Len(buf) + Len(stream) =< Len(Answer)
  /\ \A i \in 1..Len(buf) : buf[i] = Answer[Consumed + i]
  /\ \A i \in 1..Len(stream) : stream[i] = Answer[Consumed + Len(buf) + i]

\* A call under way is about the newest command, and its first read starts
\* with an empty buffer.
CallInStep ==
  /\ written # <<>>
  /\ reading.stage = "line" <=> written[Newest] \in {"query", "opc", "unknown"}
  /\ reading.stage # "line" <=> written[Newest] = "block"
  /\ reading.stage = "digits" => ~Visa
  /\ reading.stage = "terminator" => Visa /\ outcome.bytes = Bytes(Newest, Payload)
  /\ IF executed = Newest THEN PartOfAnswer
     ELSE Consumed = 0 /\ buf = <<>> /\ stream = <<>>
  /\ peer = "up" => Silent(Newest - 1)

NothingToCome ==
  /\ buf = <<>> /\ stream = <<>>
  /\ peer = "up" => Silent(Newest)

InStep == shifted = {} => IF Idle THEN NothingToCome ELSE CallInStep

\* What was returned with the session in step.
ReturnedInStep ==
  outcome.kind = "returned" /\ shifted = {} =>
    written # <<>> /\ OwnBytes /\ executed = Len(written)

\* While a call is under way it has neither returned nor raised, and the drain
\* of a safe_query has room for its *CLS.
CallOpen ==
  ~Idle =>
    /\ outcome.kind = "none"
    /\ reading.safe => reading.stage = "line" /\ Len(written) < MaxCommands

\* The drain of a raw socket ends with *CLS.
DefaultMeansCleared ==
  ~Visa /\ outcome.kind = "default" =>
    /\ written # <<>> /\ written[Newest] = "cls"
    /\ executed = Len(written) => ~errors

TerminatorIsRead == Visa => "terminator" \notin shifted

Inv ==
  /\ TypeOK /\ CallOpen /\ InStep /\ ReturnedInStep
  /\ DefaultMeansCleared /\ TerminatorIsRead

-----------------------------------------------------------------------------
(* What the server answers.                                                  *)

BlockLooks == <<"hash", "digit", "count">> \o Payload \o <<"nl">>

LEMMA PayloadLooks == Payload \in Seq(Looks)
  BY ScpiSessionAssumption, SeqMonotonic DEF Looks

LEMMA BlockShape ==
  /\ BlockLooks \in Seq(Looks)
  /\ Len(BlockLooks) = 4 + Len(Payload)
  /\ BlockLooks[1] = "hash" /\ BlockLooks[2] = "digit" /\ BlockLooks[3] = "count"
  /\ \A i \in 1..Len(Payload) : BlockLooks[3 + i] = Payload[i]
  /\ BlockLooks[4 + Len(Payload)] = "nl"
  <1> DEFINE head == <<"hash", "digit", "count">>
             front == head \o Payload
  <1>1. head \in Seq(Looks) /\ Len(head) = 3 /\ <<"nl">> \in Seq(Looks) /\ Len(<<"nl">>) = 1
    BY DEF Looks
  <1>2. Payload \in Seq(Looks) /\ Len(Payload) \in Nat
    BY PayloadLooks
  <1>3. /\ front \in Seq(Looks) /\ Len(front) = 3 + Len(Payload)
        /\ \A i \in 1 .. 3 + Len(Payload) : front[i] = IF i =< 3 THEN head[i] ELSE Payload[i - 3]
    <2>1. /\ front \in Seq(Looks) /\ Len(front) = Len(head) + Len(Payload)
          /\ \A i \in 1 .. Len(head) + Len(Payload) :
               front[i] = IF i =< Len(head) THEN head[i] ELSE Payload[i - Len(head)]
      <3> HIDE DEF head
      <3> QED BY <1>1, <1>2, ConcatProperties, Zenon
    <2> HIDE DEF head, front
    <2> QED BY <1>1, <2>1
  <1>4. /\ BlockLooks \in Seq(Looks) /\ Len(BlockLooks) = 3 + Len(Payload) + 1
        /\ \A i \in 1 .. 3 + Len(Payload) + 1 :
             BlockLooks[i] = IF i =< 3 + Len(Payload) THEN front[i]
                             ELSE <<"nl">>[i - (3 + Len(Payload))]
    <2> DEFINE last == <<"nl">>
    <2>1. BlockLooks = front \o last
      BY DEF BlockLooks
    <2>2. Len(last) = 1 /\ last \in Seq(Looks)
      BY <1>1
    <2> HIDE DEF front, last
    <2>3. /\ BlockLooks \in Seq(Looks) /\ Len(BlockLooks) = Len(front) + Len(last)
          /\ \A i \in 1 .. Len(front) + Len(last) :
               BlockLooks[i] = IF i =< Len(front) THEN front[i] ELSE last[i - Len(front)]
      BY <2>1, <2>2, <1>3, ConcatProperties, Zenon
    <2>4. QED
      BY <2>2, <2>3, <1>3 DEF last
  <1>5. \A i \in 1..Len(Payload) : front[3 + i] = Payload[i]
    <2> HIDE DEF head, front
    <2> QED BY <1>2, <1>3
  <1>6. front[1] = "hash" /\ front[2] = "digit" /\ front[3] = "count"
    <2>1. front[1] = head[1] /\ front[2] = head[2] /\ front[3] = head[3]
      <3> HIDE DEF head, front
      <3> QED BY <1>2, <1>3
    <2> QED BY <2>1
  <1>7. \A i \in 1 .. 3 + Len(Payload) : BlockLooks[i] = front[i]
    BY <1>2, <1>4
  <1>8. BlockLooks[4 + Len(Payload)] = "nl" /\ Len(BlockLooks) = 4 + Len(Payload)
    BY <1>2, <1>4
  <1> HIDE DEF front
  <1> QED BY <1>2, <1>4, <1>5, <1>6, <1>7, <1>8

LEMMA BytesShape ==
  ASSUME NEW n \in 1..MaxCommands, NEW looks \in Seq(Looks)
  PROVE  /\ Bytes(n, looks) \in Seq(Token)
         /\ Len(Bytes(n, looks)) = Len(looks)
         /\ \A i \in 1..Len(looks) : Bytes(n, looks)[i] = [look |-> looks[i], of |-> n]
  <1>1. DOMAIN looks = 1..Len(looks) /\ Len(looks) \in Nat /\ \A i \in 1..Len(looks) : looks[i] \in Looks
    OBVIOUS
  <1>2. Bytes(n, looks) \in [1..Len(looks) -> Token]
    BY <1>1 DEF Bytes, Token
  <1>3. Bytes(n, looks) \in Seq(Token)
    BY <1>1, <1>2
  <1> QED BY <1>1, <1>3 DEF Bytes

\* A short line, a block, or nothing.
LEMMA ReplyShape ==
  ASSUME NEW n \in 1..MaxCommands, NEW kind \in Kinds
  PROVE  /\ Reply(n, kind) \in Seq(Token)
         /\ kind \in {"query", "opc"} =>
              /\ Len(Reply(n, kind)) = 2
              /\ Reply(n, kind)[1] = [look |-> "text", of |-> n]
              /\ Reply(n, kind)[2] = [look |-> "nl", of |-> n]
         /\ kind = "block" =>
              /\ Len(Reply(n, kind)) = 4 + Len(Payload)
              /\ \A i \in 1 .. 4 + Len(Payload) :
                   Reply(n, kind)[i] = [look |-> BlockLooks[i], of |-> n]
         /\ kind \notin {"query", "opc", "block"} => Reply(n, kind) = <<>>
  <1>1. CASE kind \in {"query", "opc"}
    <2> DEFINE line == <<"text", "nl">>
    <2>1. Reply(n, kind) = Bytes(n, line)
      BY <1>1 DEF Reply
    <2>2. line \in Seq(Looks) /\ Len(line) = 2 /\ line[1] = "text" /\ line[2] = "nl"
      BY DEF Looks
    <2> HIDE DEF line
    <2>3. /\ Bytes(n, line) \in Seq(Token) /\ Len(Bytes(n, line)) = 2
          /\ \A i \in 1..2 : Bytes(n, line)[i] = [look |-> line[i], of |-> n]
      BY <2>2, BytesShape
    <2> QED BY <1>1, <2>1, <2>2, <2>3
  <1>2. CASE kind = "block"
    <2>1. Reply(n, kind) = Bytes(n, BlockLooks)
      BY <1>2 DEF Reply, BlockLooks
    <2> QED BY <1>2, <2>1, BlockShape, BytesShape
  <1>3. CASE kind \notin {"query", "opc", "block"}
    BY <1>3 DEF Reply
  <1> QED BY <1>1, <1>2, <1>3

-----------------------------------------------------------------------------
(* Cutting a buffer.                                                         *)

LEMMA Cut ==
  ASSUME NEW S, NEW s \in Seq(S), NEW n \in 0..Len(s)
  PROVE  /\ SubSeq(s, 1, n) \in Seq(S) /\ Len(SubSeq(s, 1, n)) = n
         /\ \A i \in 1..n : SubSeq(s, 1, n)[i] = s[i]
         /\ SubSeq(s, n + 1, Len(s)) \in Seq(S)
         /\ Len(SubSeq(s, n + 1, Len(s))) = Len(s) - n
         /\ \A i \in 1 .. Len(s) - n : SubSeq(s, n + 1, Len(s))[i] = s[n + i]
  <1>1. Len(s) \in Nat /\ n \in Nat /\ n =< Len(s) /\ \A i \in 1..Len(s) : s[i] \in S
    OBVIOUS
  <1>2. /\ SubSeq(s, 1, n) \in Seq(S)
        /\ Len(SubSeq(s, 1, n)) = IF 1 =< n THEN n - 1 + 1 ELSE 0
        /\ \A i \in 1 .. n - 1 + 1 : SubSeq(s, 1, n)[i] = s[1 + i - 1]
    <2>1. \A i \in 1..n : s[i] \in S
      BY <1>1
    <2> QED BY <1>1, <2>1, SubSeqProperties
  <1>3. /\ SubSeq(s, n + 1, Len(s)) \in Seq(S)
        /\ Len(SubSeq(s, n + 1, Len(s))) =
             IF n + 1 =< Len(s) THEN Len(s) - (n + 1) + 1 ELSE 0
        /\ \A i \in 1 .. Len(s) - (n + 1) + 1 :
             SubSeq(s, n + 1, Len(s))[i] = s[n + 1 + i - 1]
    <2>1. \A i \in n + 1 .. Len(s) : s[i] \in S
      BY <1>1
    <2> QED BY <1>1, <2>1, SubSeqProperties
  <1> QED BY <1>1, <1>2, <1>3

\* A set of naturals has a least member: the end of a line is the first one.
LEMMA LeastNatural ==
  ASSUME NEW T \in SUBSET Nat, T # {}
  PROVE  Min(T) \in T /\ \A n \in T : Min(T) =< n
  <1>1. PICK least \in T : \A n \in T : ~(<<n, least>> \in OpToRel(<, Nat))
    BY NatLessThanWellFounded, WFMin
  <1>2. \A n \in T : least =< n
    <2> SUFFICES ASSUME NEW n \in T, ~(least =< n) PROVE FALSE
      OBVIOUS
    <2>1. <<n, least>> \in Nat \X Nat /\ n < least
      OBVIOUS
    <2>2. <<n, least>> \in OpToRel(<, Nat)
      BY <2>1 DEF OpToRel
    <2> QED BY <1>1, <2>2
  <1> QED BY <1>2 DEF Min

LEMMA EndOfLineIsFirst ==
  ASSUME buf \in Seq(Token), \E i \in DOMAIN buf : buf[i].look = "nl"
  PROVE  /\ EndOfLine \in 1..Len(buf) /\ buf[EndOfLine].look = "nl"
         /\ \A i \in 1..Len(buf) : buf[i].look = "nl" => EndOfLine =< i
  <1> DEFINE terminators == {i \in 1..Len(buf) : buf[i].look = "nl"}
  <1>1. DOMAIN buf = 1..Len(buf) /\ Len(buf) \in Nat
    OBVIOUS
  <1>2. terminators \in SUBSET Nat /\ terminators # {}
    BY <1>1
  <1>3. EndOfLine = Min(terminators)
    BY <1>2 DEF EndOfLine, SelectInSeq
  <1>4. Min(terminators) \in terminators /\ \A n \in terminators : Min(terminators) =< n
    <2> HIDE DEF terminators
    <2> QED BY <1>2, LeastNatural
  <1> QED BY <1>3, <1>4

-----------------------------------------------------------------------------
(* Types.                                                                    *)

LEMMA TypeInit == Init => TypeOK /\ CallOpen
  <1> SUFFICES ASSUME Init PROVE TypeOK /\ CallOpen
    OBVIOUS
  <1>1. <<>> \in Seq(Kinds) /\ <<>> \in Seq(Token) /\ Len(<<>>) = 0 /\ MaxCommands \in Nat
    BY EmptySeq, ScpiSessionAssumption
  <1>2. /\ transport \in Transports /\ peer = "up" /\ executed = 0 /\ errors = FALSE
        /\ stream = <<>> /\ buf = <<>> /\ shifted = {} /\ written = <<>>
        /\ reading = Nothing /\ outcome = [kind |-> "none", bytes |-> <<>>]
    BY DEF Init, NoOutcome
  <1>3. TypeOK
    <2>1. written \in Seq(Kinds) /\ Len(written) =< MaxCommands /\ executed \in 0..Len(written)
      BY <1>1, <1>2
    <2>2. stream \in Seq(Token) /\ buf \in Seq(Token) /\ outcome.bytes \in Seq(Token)
      BY <1>1, <1>2
    <2> QED BY <1>2, <2>1, <2>2 DEF TypeOK
  <1> QED BY <1>2, <1>3 DEF CallOpen, Idle

\* What is true of any state, for the prover that has to look it up.
LEMMA Typed ==
  ASSUME TypeOK
  PROVE  /\ Len(written) \in 0..MaxCommands /\ MaxCommands \in Nat
         /\ executed \in 0..Len(written)
         /\ \A n \in 1..Len(written) : written[n] \in Kinds
         /\ Len(buf) \in Nat /\ Len(stream) \in Nat
         /\ DOMAIN buf = 1..Len(buf)
         /\ Idle <=> reading.stage = "none"
         /\ reading.stage \in Stages \cup {"none"}
         /\ transport \in {"socket", "visa"}
  BY ScpiSessionAssumption DEF TypeOK, Idle, Nothing, Stages

\* A command is appended to those written.
LEMMA Written ==
  ASSUME TypeOK, NEW kind \in Kinds, Len(written) < MaxCommands,
         written' = Append(written, kind)
  PROVE  /\ written' \in Seq(Kinds) /\ Len(written') = Len(written) + 1
         /\ Len(written') =< MaxCommands /\ executed \in 0..Len(written')
         /\ written'[Len(written')] = kind
         /\ \A n \in 1..Len(written) : written'[n] = written[n]
  <1>1. written \in Seq(Kinds) /\ Len(written) \in Nat /\ executed \in 0..Len(written)
    BY DEF TypeOK
  <1> QED BY <1>1, ScpiSessionAssumption

LEMMA TypeStep ==
  ASSUME TypeOK, CallOpen, [Next]_vars
  PROVE  TypeOK' /\ CallOpen'
  <1> USE DEF connection, Ends, NoOutcome, Nothing, Idle
  <1>a. MaxCommands \in Nat /\ Payload \in Seq(Looks) /\ Len(Payload) \in Nat
    BY ScpiSessionAssumption, PayloadLooks
  <1>1. CASE ServerExecutes
    <2> DEFINE n == executed + 1
    <2>1. n \in 1..Len(written) /\ n \in 1..MaxCommands /\ written[n] \in Kinds
      BY <1>1, Typed DEF ServerExecutes
    <2>2. Reply(n, written[n]) \in Seq(Token)
      BY <2>1, ReplyShape
    <2>3. stream' \in Seq(Token)
      BY <1>1, <2>2 DEF ServerExecutes, TypeOK
    <2>4. executed' \in 0..Len(written)
      BY <1>1, <2>1 DEF ServerExecutes
    <2>5. errors' \in BOOLEAN
      BY <1>1 DEF ServerExecutes, TypeOK
    <2> QED BY <1>1, <2>3, <2>4, <2>5 DEF ServerExecutes, TypeOK, CallOpen
  <1>2. CASE ServerCloses
    <2>1. peer' = "gone" /\ (stream' = stream \/ stream' = <<>>)
      BY <1>2 DEF ServerCloses
    <2>2. stream' \in Seq(Token)
      BY <2>1, EmptySeq DEF TypeOK
    <2> QED BY <1>2, <2>1, <2>2 DEF ServerCloses, TypeOK, CallOpen
  <1>3. CASE Write
    <2>1. written' = Append(written, "set") /\ Len(written) < MaxCommands /\ "set" \in Kinds
      BY <1>3 DEF Write, CanWrite, Kinds
    <2>2. written' \in Seq(Kinds) /\ Len(written') =< MaxCommands /\ executed \in 0..Len(written')
      BY <2>1, Written
    <2> QED BY <1>3, <2>2 DEF Write, TypeOK, CallOpen
  <1>4. CASE WriteFails
    BY <1>4 DEF WriteFails, TypeOK, CallOpen
  <1>5. CASE Reconnect
    <2>1. Len(written) \in 0..Len(written)
      BY Typed
    <2>2. <<>> \in Seq(Token)
      BY EmptySeq
    <2>3. /\ peer' = "up" /\ executed' = Len(written) /\ errors' = FALSE
          /\ stream' = <<>> /\ buf' = <<>> /\ shifted' = {} /\ outcome' = [kind |-> "none", bytes |-> <<>>]
          /\ UNCHANGED <<transport, written, reading>> /\ reading = [stage |-> "none", safe |-> FALSE]
      BY <1>5 DEF Reconnect
    <2> QED BY <2>1, <2>2, <2>3 DEF TypeOK, CallOpen
  <1>6. ASSUME NEW kind \in Kinds, NEW safe \in BOOLEAN, Query(kind, safe)
        PROVE  TypeOK' /\ CallOpen'
    <2>1. written' = Append(written, kind) /\ Len(written) < MaxCommands
          /\ (safe => Len(written) + 2 =< MaxCommands)
      BY <1>6 DEF Query, CanWrite
    <2>2. written' \in Seq(Kinds) /\ Len(written') =< MaxCommands /\ executed \in 0..Len(written')
          /\ Len(written') = Len(written) + 1 /\ Len(written) \in Nat
      BY <2>1, Written, Typed
    <2>3. reading' = [stage |-> "line", safe |-> safe] /\ outcome' = NoOutcome
      BY <1>6 DEF Query
    <2>4. reading' \in [stage : Stages, safe : BOOLEAN]
      BY <2>3 DEF Stages
    <2>5. CallOpen'
      BY <1>a, <2>1, <2>2, <2>3 DEF CallOpen
    <2> QED BY <1>6, <2>2, <2>3, <2>4, <2>5 DEF Query, TypeOK
  <1>7. CASE QueryBlock
    <2>1. written' = Append(written, "block") /\ Len(written) < MaxCommands /\ "block" \in Kinds
      BY <1>7 DEF QueryBlock, CanWrite, Kinds
    <2>2. written' \in Seq(Kinds) /\ Len(written') =< MaxCommands /\ executed \in 0..Len(written')
      BY <2>1, Written
    <2> QED BY <1>7, <2>2 DEF QueryBlock, TypeOK, CallOpen, Stages
  <1>8. CASE Fill
    <2>1. PICK n \in 1..Len(stream) :
            /\ buf' = buf \o SubSeq(stream, 1, n)
            /\ stream' = SubSeq(stream, n + 1, Len(stream))
      BY <1>8 DEF Fill
    <2>2. n \in 0..Len(stream) /\ stream \in Seq(Token) /\ buf \in Seq(Token)
      BY Typed DEF TypeOK
    <2>3. SubSeq(stream, 1, n) \in Seq(Token) /\ stream' \in Seq(Token)
      BY <2>1, <2>2, Cut
    <2>4. buf' \in Seq(Token)
      BY <2>1, <2>2, <2>3, ConcatProperties
    <2> QED BY <1>8, <2>3, <2>4 DEF Fill, TypeOK, CallOpen
  <1>9. CASE FillFails
    BY <1>9 DEF FillFails, TypeOK, CallOpen, Causes
  <1>10. CASE ReadLine
    <2>1. EndOfLine \in 1..Len(buf) /\ EndOfLine - 1 \in 0..Len(buf) /\ EndOfLine \in 0..Len(buf)
      BY <1>10, EndOfLineIsFirst, Typed DEF ReadLine, Readable, TypeOK
    <2>2. SubSeq(buf, EndOfLine + 1, Len(buf)) \in Seq(Token) /\ SubSeq(buf, 1, EndOfLine - 1) \in Seq(Token)
      BY <2>1, Cut DEF TypeOK
    <2> QED BY <1>10, <2>2 DEF ReadLine, TypeOK, CallOpen
  <1>11. CASE ReadHeader
    <2>1. Count \in 1..2 /\ Count \in 0..Len(buf)
      BY <1>11, Typed DEF ReadHeader, Readable, Count, Expects
    <2>2. buf' \in Seq(Token)
      BY <1>11, <2>1, Cut DEF ReadHeader, TypeOK
    <2>3. CASE UNCHANGED outcome /\ reading' = [reading EXCEPT !.stage = After[@]]
      <3>1. reading \in [stage : Stages, safe : BOOLEAN] /\ After[reading.stage] \in Stages
        BY <1>11, Typed DEF ReadHeader, Expects, After, Stages, TypeOK
      <3>2. ~reading.safe
        BY <1>11 DEF ReadHeader, Expects, CallOpen, TypeOK
      <3>3. reading' \in [stage : Stages, safe : BOOLEAN] /\ ~reading'.safe
        BY <2>3, <3>1, <3>2
      <3> QED BY <1>11, <2>2, <2>3, <3>3 DEF ReadHeader, TypeOK, CallOpen, Expects
    <2>4. CASE Ends("raised", <<>>)
      BY <1>11, <2>2, <2>4 DEF ReadHeader, TypeOK, CallOpen
    <2> QED BY <1>11, <2>3, <2>4 DEF ReadHeader
  <1>12. CASE ReadPayload
    <2> DEFINE n == Len(Payload)
               rest == SubSeq(buf, n + 1, Len(buf))
    <2>1. n \in 0..Len(buf)
      BY <1>12, <1>a, Typed DEF ReadPayload, Readable, Count
    <2>2. rest \in Seq(Token) /\ SubSeq(buf, 1, n) \in Seq(Token)
      BY <2>1, Cut DEF TypeOK
    <2>3. buf' \in Seq(Token)
      <3>1. \/ buf' = rest
            \/ rest # <<>> /\ buf' = Tail(rest)
        BY <1>12 DEF ReadPayload
      <3> HIDE DEF rest
      <3> QED BY <2>2, <3>1, HeadTailProperties
    <2>4. shifted' \subseteq Causes
      BY <1>12 DEF ReadPayload, TypeOK, Causes
    <2> QED BY <1>12, <2>2, <2>3, <2>4 DEF ReadPayload, TypeOK, CallOpen
  <1>13. CASE ReadBinary
    <2>1. Len(Payload) \in 0..Len(buf)
      BY <1>13, <1>a, Typed DEF ReadBinary, Readable, Count
    <2>2. buf' \in Seq(Token) /\ SubSeq(buf, 1, Len(Payload)) \in Seq(Token)
      BY <1>13, <2>1, Cut DEF ReadBinary, TypeOK
    <2>3. reading \in [stage : Stages, safe : BOOLEAN] /\ ~reading.safe
      BY <1>13 DEF ReadBinary, TypeOK, CallOpen
    <2>4. reading' \in [stage : Stages, safe : BOOLEAN] /\ ~reading'.safe /\ reading'.stage = "terminator"
      BY <1>13, <2>3 DEF ReadBinary, Stages
    <2> QED BY <1>13, <2>2, <2>4 DEF ReadBinary, TypeOK, CallOpen
  <1>14. CASE ReadTerminator
    <2>1. buf # <<>> /\ buf \in Seq(Token)
      BY <1>14, Typed DEF ReadTerminator, Readable, Count, TypeOK
    <2>2. Tail(buf) \in Seq(Token)
      BY <2>1, HeadTailProperties
    <2> QED BY <1>14, <2>2 DEF ReadTerminator, TypeOK, CallOpen
  <1>15. CASE ReadTimesOut
    <2>1. buf' = buf \/ buf' = <<>>
      BY <1>15 DEF ReadTimesOut
    <2>2. buf' \in Seq(Token)
      BY <2>1, EmptySeq DEF TypeOK
    <2>3. shifted' \subseteq Causes
      BY <1>15 DEF ReadTimesOut, LeftBehind, TypeOK, Causes
    <2> QED BY <1>15, <2>2, <2>3 DEF ReadTimesOut, TypeOK, CallOpen
  <1>16. CASE Drain
    <2>1. PICK n \in 0..Len(stream) : stream' = SubSeq(stream, n + 1, Len(stream))
      BY <1>16 DEF Drain
    <2>2. stream' \in Seq(Token)
      BY <2>1, Cut DEF TypeOK
    <2>3. shifted' \subseteq Causes
      BY <1>16 DEF Drain, LeftBehind, Causes
    <2>4. written' = Append(written, "cls") /\ "cls" \in Kinds /\ Len(written) < MaxCommands
      BY <1>16 DEF Drain, CallOpen, Kinds
    <2>5. written' \in Seq(Kinds) /\ Len(written') =< MaxCommands /\ executed \in 0..Len(written')
      BY <2>4, Written
    <2> QED BY <1>16, <2>2, <2>3, <2>5 DEF Drain, TypeOK, CallOpen
  <1>17. CASE Clear
    <2>1. stream' \in Seq(Token) /\ buf' \in Seq(Token)
      <3>1. CASE UNCHANGED <<buf, stream>>
        BY <3>1 DEF TypeOK
      <3>2. ASSUME buf' = <<>>, NEW n \in 0..Len(stream),
                   stream' = SubSeq(stream, n + 1, Len(stream))
            PROVE  stream' \in Seq(Token) /\ buf' \in Seq(Token)
        BY <3>2, Cut, EmptySeq DEF TypeOK
      <3> QED BY <1>17, <3>1, <3>2 DEF Clear
    <2>2. shifted' \subseteq Causes
      BY <1>17 DEF Clear, LeftBehind, Causes
    <2> QED BY <1>17, <2>1, <2>2 DEF Clear, TypeOK, CallOpen
  <1>18. CASE UNCHANGED vars
    BY <1>18 DEF vars, TypeOK, CallOpen
  <1> QED
    BY <1>1, <1>2, <1>3, <1>4, <1>5, <1>6, <1>7, <1>8, <1>9, <1>10, <1>11, <1>12, <1>13,
       <1>14, <1>15, <1>16, <1>17, <1>18 DEF Next

-----------------------------------------------------------------------------
(* A session in step stays in step.  First what each group of actions does   *)
(* to it, then the step.                                                     *)

LEMMA AnswerShape ==
  ASSUME TypeOK, written # <<>>
  PROVE  /\ Newest \in 1..MaxCommands /\ written[Newest] \in Kinds
         /\ Answer \in Seq(Token) /\ Len(Answer) \in Nat
         /\ written[Newest] \in {"query", "opc"} =>
              /\ Len(Answer) = 2
              /\ Answer[1] = [look |-> "text", of |-> Newest]
              /\ Answer[2] = [look |-> "nl", of |-> Newest]
         /\ written[Newest] = "block" =>
              /\ Len(Answer) = 4 + Len(Payload)
              /\ \A i \in 1 .. 4 + Len(Payload) :
                   Answer[i] = [look |-> BlockLooks[i], of |-> Newest]
         /\ written[Newest] \notin {"query", "opc", "block"} => Answer = <<>>
  <1>1. Newest \in 1..MaxCommands /\ Newest \in 1..Len(written)
    BY Typed DEF Newest, TypeOK
  <1>2. written[Newest] \in Kinds
    BY <1>1, Typed
  <1>3. Answer \in Seq(Token)
    BY <1>1, <1>2, ReplyShape DEF Answer
  <1> QED BY <1>1, <1>2, <1>3, ReplyShape DEF Answer

\* What was silent stays silent when a command is appended.
LEMMA SilentGrows ==
  ASSUME TypeOK, NEW kind \in Kinds, Len(written) < MaxCommands,
         written' = Append(written, kind), UNCHANGED executed, Silent(Newest)
  PROVE  /\ Len(written') = Len(written) + 1 /\ written' # <<>> /\ written'[Len(written')] = kind
         /\ Silent(Newest - 1)'
         /\ kind \notin {"query", "opc", "block"} => Silent(Newest)'
  <1>1. /\ Len(written') = Len(written) + 1 /\ written'[Len(written')] = kind
        /\ \A n \in 1..Len(written) : written'[n] = written[n]
    BY Written
  <1>2. Len(written) \in Nat /\ executed \in Nat /\ Len(written) + 1 \in 1..MaxCommands
    BY Typed
  <1>3. \A n \in executed + 1 .. Len(written) : Reply(n, written'[n]) = <<>>
    BY <1>1, <1>2 DEF Silent, Newest
  <1>4. kind \notin {"query", "opc", "block"} => Reply(Len(written'), written'[Len(written')]) = <<>>
    BY <1>1, <1>2, ReplyShape
  <1>5. written' # <<>>
    BY <1>1, <1>2
  <1> QED BY <1>1, <1>2, <1>3, <1>4, <1>5 DEF Silent, Newest

LEMMA ServerExecutesInStep ==
  ASSUME Inv, ServerExecutes
  PROVE  InStep' /\ ReturnedInStep'
  <1> DEFINE n == executed + 1
  <1>1. /\ TypeOK /\ n \in 1..Len(written) /\ peer = "up" /\ executed # Newest
        /\ executed' = n /\ stream' = stream \o Reply(n, written[n])
        /\ UNCHANGED <<transport, peer, written, buf, reading, outcome, shifted>>
        /\ Newest' = Newest /\ Newest \in Nat /\ executed \in Nat
    BY Typed DEF Inv, ServerExecutes, connection, Newest
  <1>2. ReturnedInStep'
    BY <1>1 DEF Inv, ReturnedInStep, Newest
  <1>3. ASSUME Reply(n, written[n]) = <<>>, stream = <<>>
        PROVE  stream' = <<>>
    BY <1>1, <1>3
  <1>4. CASE shifted = {} /\ Idle
    <2>1. NothingToCome
      BY <1>4 DEF Inv, InStep
    <2>2. Reply(n, written[n]) = <<>> /\ stream = <<>>
      BY <1>1, <2>1 DEF NothingToCome, Silent, Newest
    <2>3. Silent(Newest)'
      BY <1>1, <2>1 DEF NothingToCome, Silent, Newest
    <2>4. NothingToCome'
      BY <1>1, <1>3, <2>1, <2>2, <2>3 DEF NothingToCome
    <2> QED BY <1>1, <1>2, <1>4, <2>4 DEF InStep, Idle
  <1>5. CASE shifted = {} /\ ~Idle
    <2>1. CallInStep /\ Consumed' = Consumed
      BY <1>1, <1>5 DEF Inv, InStep, Consumed
    <2>2. Consumed = 0 /\ buf = <<>> /\ stream = <<>> /\ Silent(Newest - 1) /\ written # <<>>
      BY <1>1, <2>1 DEF CallInStep
    <2>3. Silent(Newest - 1)'
      BY <1>1, <2>2 DEF Silent, Newest
    <2>4. CASE n = Newest
      <3>1. stream' = Answer
        <4>1. Answer \in Seq(Token)
          BY <1>1, <2>2, AnswerShape
        <4> QED BY <1>1, <2>2, <2>4, <4>1, ConcatEmptySeq DEF Answer
      <3>2. Answer' = Answer /\ Len(buf') = 0 /\ Len(Answer) \in Nat
        BY <1>1, <2>2, AnswerShape DEF Answer, Newest
      <3>3. PartOfAnswer'
        BY <1>1, <2>1, <2>2, <3>1, <3>2 DEF PartOfAnswer
      <3>4. CallInStep'
        BY <1>1, <2>1, <2>3, <2>4, <3>3 DEF CallInStep, Visa, Newest
      <3> QED BY <1>1, <1>2, <1>5, <3>4 DEF InStep, Idle
    <2>5. CASE n # Newest
      <3>1. Reply(n, written[n]) = <<>>
        BY <1>1, <2>2, <2>5 DEF Silent, Newest
      <3>2. CallInStep'
        BY <1>1, <1>3, <2>1, <2>2, <2>3, <2>5, <3>1 DEF CallInStep, Visa, Newest
      <3> QED BY <1>1, <1>2, <1>5, <3>2 DEF InStep, Idle
    <2> QED BY <2>4, <2>5
  <1>6. CASE shifted # {}
    BY <1>1, <1>2, <1>6 DEF InStep
  <1> QED BY <1>4, <1>5, <1>6

LEMMA ServerClosesInStep ==
  ASSUME Inv, ServerCloses
  PROVE  InStep' /\ ReturnedInStep'
  <1>1. /\ TypeOK /\ peer' = "gone" /\ (stream' = stream \/ stream' = <<>>)
        /\ UNCHANGED <<transport, written, executed, buf, reading, outcome, shifted>>
        /\ Newest' = Newest /\ Answer' = Answer /\ Consumed' = Consumed
    BY DEF Inv, ServerCloses, Newest, Answer, Consumed
  <1>2. ReturnedInStep'
    BY <1>1 DEF Inv, ReturnedInStep, OwnBytes, Newest
  <1>3. CASE shifted = {} /\ Idle
    BY <1>1, <1>2, <1>3 DEF Inv, InStep, Idle, NothingToCome
  <1>4. CASE shifted = {} /\ ~Idle
    <2>1. CallInStep
      BY <1>4 DEF Inv, InStep
    <2>2. PartOfAnswer => PartOfAnswer'
      <3>1. Len(<<>>) = 0 /\ Len(stream) \in Nat /\ Len(buf) \in Nat
        BY <1>1, Typed
      <3>2. Consumed \in Nat /\ Len(Answer) \in Nat
        <4>1. Consumed \in Nat
          BY <1>1, <1>4, Typed, PayloadLooks DEF Consumed, Stages
        <4> QED BY <1>1, <2>1, <4>1, AnswerShape DEF CallInStep
      <3> QED BY <1>1, <3>1, <3>2 DEF PartOfAnswer
    <2>3. CallInStep'
      BY <1>1, <2>1, <2>2 DEF CallInStep, Visa
    <2> QED BY <1>1, <1>2, <1>4, <2>3 DEF InStep, Idle
  <1>5. CASE shifted # {}
    BY <1>1, <1>2, <1>5 DEF InStep
  <1> QED BY <1>3, <1>4, <1>5

\* A command that is appended to a session with nothing to come.
LEMMA CallBeginsInStep ==
  ASSUME Inv, \/ Write
              \/ \E kind \in Kinds, safe \in BOOLEAN : Query(kind, safe)
              \/ QueryBlock
  PROVE  InStep' /\ ReturnedInStep'
  <1> USE DEF connection, Ends, NoOutcome
  <1>1. /\ TypeOK /\ Idle /\ Len(written) < MaxCommands /\ outcome'.kind = "none"
        /\ UNCHANGED <<peer, transport, executed, buf, stream, shifted>>
    BY DEF Inv, Write, Query, QueryBlock, CanWrite
  <1>2. ReturnedInStep'
    BY <1>1 DEF ReturnedInStep
  <1>3. CASE shifted # {}
    BY <1>1, <1>2, <1>3 DEF InStep
  <1>4. ASSUME shifted = {}, NEW kind \in Kinds, written' = Append(written, kind)
        PROVE  /\ written' # <<>> /\ written'[Newest'] = kind /\ buf = <<>> /\ stream = <<>>
               /\ executed' # Newest'
               /\ peer = "up" => Silent(Newest - 1)'
               /\ peer = "up" /\ kind \notin {"query", "opc", "block"} => Silent(Newest)'
    <2>1. NothingToCome
      BY <1>1, <1>4 DEF Inv, InStep
    <2>2. /\ Len(written') = Len(written) + 1 /\ written'[Len(written')] = kind
          /\ executed \in 0..Len(written) /\ Len(written) \in Nat
      BY <1>1, <1>4, Written, Typed
    <2>3. written' # <<>>
      BY <2>2
    <2>4. CASE peer = "up"
      BY <1>1, <1>4, <2>1, <2>2, <2>4, SilentGrows DEF NothingToCome, Newest
    <2> QED BY <1>1, <2>1, <2>2, <2>3, <2>4 DEF NothingToCome, Newest
  <1>5. CASE Write /\ shifted = {}
    <2>1. written' = Append(written, "set") /\ "set" \in Kinds /\ reading' = Nothing
      BY <1>5 DEF Write, Kinds
    <2> QED BY <1>1, <1>2, <1>4, <1>5, <2>1 DEF InStep, Idle, NothingToCome
  <1>6. ASSUME NEW kind \in Kinds, NEW safe \in BOOLEAN, Query(kind, safe), shifted = {}
        PROVE  InStep'
    <2>1. /\ written' = Append(written, kind) /\ reading' = [stage |-> "line", safe |-> safe]
          /\ kind \in {"query", "opc", "unknown"}
      BY <1>6 DEF Query
    <2>2. reading'.stage = "line" /\ Consumed' = 0
      BY <2>1 DEF Consumed
    <2>3. ~Idle'
      BY <2>2 DEF Idle, Nothing
    <2>4. CallInStep'
      BY <1>1, <1>4, <1>6, <2>1, <2>2 DEF CallInStep
    <2> QED BY <2>3, <2>4 DEF InStep
  <1>7. CASE QueryBlock /\ shifted = {}
    <2>1. /\ written' = Append(written, "block") /\ "block" \in Kinds
          /\ reading' = [stage |-> "prefix", safe |-> FALSE]
      BY <1>7 DEF QueryBlock, Kinds
    <2>2. reading'.stage = "prefix" /\ Consumed' = 0
      BY <2>1 DEF Consumed
    <2>3. ~Idle'
      BY <2>2 DEF Idle, Nothing
    <2>4. CallInStep'
      BY <1>1, <1>4, <1>7, <2>1, <2>2 DEF CallInStep
    <2> QED BY <1>2, <2>3, <2>4 DEF InStep
  <1> QED BY <1>2, <1>3, <1>5, <1>6, <1>7

\* What has been received of the answer and what has not are still its parts.
LEMMA FillInStep ==
  ASSUME Inv, Fill
  PROVE  InStep' /\ ReturnedInStep'
  <1>1. PICK n \in 1..Len(stream) :
          /\ buf' = buf \o SubSeq(stream, 1, n)
          /\ stream' = SubSeq(stream, n + 1, Len(stream))
    BY DEF Fill
  <1>2. /\ TypeOK /\ ~Idle /\ UNCHANGED <<transport, peer, written, executed, reading, outcome, shifted>>
        /\ Newest' = Newest /\ Answer' = Answer /\ Consumed' = Consumed
    BY DEF Inv, Fill, connection, Newest, Answer, Consumed
  <1>3. ReturnedInStep'
    BY <1>2 DEF Inv, CallOpen, ReturnedInStep
  <1>4. CASE shifted = {}
    <2>1. CallInStep /\ stream # <<>>
      BY <1>1, <1>2, <1>4 DEF Inv, InStep
    <2>2. executed = Newest /\ PartOfAnswer
      BY <2>1 DEF CallInStep
    <2>3. /\ Len(stream) \in Nat /\ Len(buf) \in Nat /\ n \in 0..Len(stream)
          /\ stream \in Seq(Token) /\ buf \in Seq(Token)
      BY <1>2, Typed DEF TypeOK
    <2>4. Consumed \in Nat /\ Len(Answer) \in Nat
      <3>1. Consumed \in Nat
        BY <1>2, Typed, PayloadLooks DEF Consumed, Stages
      <3> QED BY <1>2, <2>1, <3>1, AnswerShape DEF CallInStep
    <2>5. /\ SubSeq(stream, 1, n) \in Seq(Token) /\ Len(SubSeq(stream, 1, n)) = n
          /\ \A i \in 1..n : SubSeq(stream, 1, n)[i] = stream[i]
          /\ Len(stream') = Len(stream) - n
          /\ \A i \in 1 .. Len(stream) - n : stream'[i] = stream[n + i]
      BY <1>1, <2>3, Cut
    <2>6. /\ Len(buf') = Len(buf) + n
          /\ \A i \in 1 .. Len(buf) + n :
               buf'[i] = IF i =< Len(buf) THEN buf[i] ELSE stream[i - Len(buf)]
      BY <1>1, <2>3, <2>5, ConcatProperties
    <2>7. PartOfAnswer'
      <3>1. Consumed + Len(buf') + Len(stream') =< Len(Answer)
        BY <2>2, <2>3, <2>4, <2>5, <2>6 DEF PartOfAnswer
      <3>2. ASSUME NEW i \in 1..Len(buf') PROVE buf'[i] = Answer[Consumed + i]
        <4>1. CASE i =< Len(buf)
          <5>1. i \in 1..Len(buf) /\ buf'[i] = buf[i]
            BY <2>3, <2>6, <4>1
          <5> QED BY <2>2, <5>1 DEF PartOfAnswer
        <4>2. CASE i > Len(buf)
          <5>1. i - Len(buf) \in 1..Len(stream) /\ Consumed + Len(buf) + (i - Len(buf)) = Consumed + i
            BY <2>3, <2>4, <2>6, <4>2
          <5>2. buf'[i] = stream[i - Len(buf)]
            BY <2>3, <2>6, <4>2
          <5> QED BY <2>2, <5>1, <5>2 DEF PartOfAnswer
        <4> QED BY <2>3, <2>6, <4>1, <4>2
      <3>3. ASSUME NEW i \in 1..Len(stream')
            PROVE  stream'[i] = Answer[Consumed + Len(buf') + i]
        <4>1. /\ n + i \in 1..Len(stream)
              /\ Consumed + Len(buf) + (n + i) = Consumed + Len(buf') + i
          BY <2>3, <2>4, <2>5, <2>6
        <4>2. stream'[i] = stream[n + i]
          BY <2>5
        <4> QED BY <2>2, <4>1, <4>2 DEF PartOfAnswer
      <3> QED BY <1>2, <3>1, <3>2, <3>3 DEF PartOfAnswer
    <2>8. CallInStep'
      BY <1>2, <2>1, <2>2, <2>7 DEF CallInStep, Visa, Silent
    <2> QED BY <1>2, <1>3, <2>8 DEF InStep, Idle
  <1>5. CASE shifted # {}
    BY <1>2, <1>3, <1>5 DEF InStep
  <1> QED BY <1>4, <1>5

\* In a call whose session is in step and whose buffer is not empty, what is
\* read is of the newest answer.
LEMMA ReadingInStep ==
  ASSUME Inv, ~Idle, shifted = {}, Len(buf) > 0
  PROVE  /\ CallInStep /\ PartOfAnswer /\ executed = Newest /\ written # <<>>
         /\ Consumed \in Nat /\ Newest \in 1..MaxCommands
         /\ buf \in Seq(Token) /\ Len(buf) \in Nat /\ Len(stream) \in Nat
         /\ Len(Answer) \in Nat
  <1>1. TypeOK /\ CallInStep
    BY DEF Inv, InStep
  <1>2. buf \in Seq(Token) /\ Len(buf) \in Nat /\ Len(stream) \in Nat /\ buf # <<>>
    BY <1>1, Typed DEF TypeOK
  <1>3. Consumed \in Nat
    BY <1>1, Typed, PayloadLooks DEF Consumed, Stages
  <1> QED BY <1>1, <1>2, <1>3, AnswerShape DEF CallInStep

\* Bytes of one command that look the same are the same.
LEMMA SameBytes ==
  ASSUME NEW n \in 1..MaxCommands, NEW looks \in Seq(Looks), NEW s \in Seq(Token),
         Len(s) = Len(looks), \A i \in 1..Len(looks) : s[i] = [look |-> looks[i], of |-> n]
  PROVE  s = Bytes(n, looks)
  <1>1. /\ Bytes(n, looks) \in Seq(Token) /\ Len(s) = Len(Bytes(n, looks))
        /\ \A i \in 1..Len(s) : s[i] = Bytes(n, looks)[i]
    BY BytesShape
  <1> QED BY <1>1, SeqEqual

\* A call that has read all of its answer leaves nothing to come.
LEMMA NothingIsLeft ==
  ASSUME TypeOK, executed' = Newest', Len(buf') = 0, buf' \in Seq(Token), Len(stream') = 0,
         stream' \in Seq(Token), written' = written
  PROVE  NothingToCome'
  <1>1. buf' = <<>> /\ stream' = <<>>
    OBVIOUS
  <1>2. Len(written) \in Nat
    BY Typed
  <1> QED BY <1>1, <1>2 DEF NothingToCome, Silent, Newest

LEMMA ReadLineInStep ==
  ASSUME Inv, ReadLine
  PROVE  InStep' /\ ReturnedInStep'
  <1>1. /\ TypeOK /\ ~Idle /\ reading.stage = "line" /\ shifted' = shifted /\ reading' = Nothing
        /\ UNCHANGED <<transport, peer, written, executed, stream>> /\ Newest' = Newest
        /\ buf' = SubSeq(buf, EndOfLine + 1, Len(buf))
        /\ outcome' = [kind |-> "returned", bytes |-> SubSeq(buf, 1, EndOfLine - 1)]
        /\ \E i \in DOMAIN buf : buf[i].look = "nl"
    BY DEF Inv, ReadLine, Readable, Ends, Idle, Nothing, connection, Newest
  <1>2. CASE shifted = {}
    <2>1. /\ EndOfLine \in 1..Len(buf) /\ buf[EndOfLine].look = "nl"
          /\ Len(buf) \in Nat
      BY <1>1, EndOfLineIsFirst, Typed DEF TypeOK
    <2>2. /\ CallInStep /\ PartOfAnswer /\ executed = Newest /\ written # <<>>
          /\ Newest \in 1..MaxCommands /\ buf \in Seq(Token)
          /\ Len(buf) \in Nat /\ Len(stream) \in Nat
      BY <1>1, <1>2, <2>1, ReadingInStep
    <2>3. Consumed = 0
      BY <1>1 DEF Consumed
    <2>4. written[Newest] \in {"query", "opc"}
      <3>1. written[Newest] \in {"query", "opc", "unknown"}
        BY <1>1, <2>2 DEF CallInStep
      <3>2. written[Newest] = "unknown" => Len(Answer) = 0
        BY <1>1, <2>2, AnswerShape
      <3> QED BY <2>1, <2>2, <2>3, <3>1, <3>2 DEF PartOfAnswer
    <2>5. /\ Len(Answer) = 2
          /\ Answer[1] = [look |-> "text", of |-> Newest]
          /\ Answer[2] = [look |-> "nl", of |-> Newest]
      BY <1>1, <2>2, <2>4, AnswerShape
    <2>6. Len(buf) + Len(stream) =< 2 /\ \A i \in 1..Len(buf) : buf[i] = Answer[i]
      BY <2>2, <2>3, <2>5 DEF PartOfAnswer
    <2>7. EndOfLine = 2 /\ Len(buf) = 2 /\ Len(stream) = 0
      <3>1. buf[EndOfLine] = Answer[EndOfLine] /\ EndOfLine \in 1..2
        BY <2>1, <2>2, <2>6
      <3>2. EndOfLine # 1
        BY <2>1, <2>5, <3>1
      <3>3. EndOfLine = 2
        BY <3>1, <3>2
      <3>4. Len(buf) >= 2
        BY <2>1, <3>3
      <3>5. Len(buf) \in Nat /\ Len(stream) \in Nat /\ Len(buf) + Len(stream) =< 2
        BY <2>2, <2>6
      <3>6. Len(buf) = 2 /\ Len(stream) = 0
        BY <3>4, <3>5
      <3> QED BY <3>3, <3>6
    <2>8. /\ buf' \in Seq(Token) /\ Len(buf') = 0 /\ outcome'.bytes \in Seq(Token)
          /\ Len(outcome'.bytes) = 1 /\ outcome'.bytes[1] = [look |-> "text", of |-> Newest]
      <3>1. 2 \in 0..Len(buf) /\ 1 \in 0..Len(buf)
        BY <2>7
      <3>2. /\ SubSeq(buf, 2 + 1, Len(buf)) \in Seq(Token)
            /\ Len(SubSeq(buf, 2 + 1, Len(buf))) = Len(buf) - 2
        BY <2>2, <3>1, Cut, Zenon
      <3>3. /\ SubSeq(buf, 1, 1) \in Seq(Token) /\ Len(SubSeq(buf, 1, 1)) = 1
            /\ SubSeq(buf, 1, 1)[1] = buf[1]
        BY <2>2, <3>1, Cut
      <3> QED BY <1>1, <2>5, <2>6, <2>7, <3>2, <3>3
    <2>9. NothingToCome'
      BY <1>1, <2>2, <2>7, <2>8, NothingIsLeft DEF TypeOK
    <2>10. outcome'.bytes = Bytes(Newest, <<"text">>)
      <3> DEFINE text == <<"text">>
      <3>1. text \in Seq(Looks) /\ Len(text) = 1 /\ text[1] = "text"
        BY DEF Looks
      <3> HIDE DEF text
      <3>2. \A i \in 1..Len(text) : outcome'.bytes[i] = [look |-> text[i], of |-> Newest]
        BY <2>8, <3>1
      <3>3. outcome'.bytes = Bytes(Newest, text)
        <4>1. outcome'.bytes \in Seq(Token) /\ Len(outcome'.bytes) = Len(text) /\ Newest \in 1..MaxCommands
          BY <2>2, <2>8, <3>1
        <4> QED BY <3>1, <3>2, <4>1, SameBytes, Zenon
      <3> QED BY <3>3 DEF text
    <2>11. OwnBytes' /\ executed' = Len(written') /\ written' # <<>>
      BY <1>1, <2>2, <2>4, <2>10 DEF OwnBytes, Newest
    <2> QED BY <1>1, <2>9, <2>11 DEF InStep, Idle, ReturnedInStep
  <1>3. CASE shifted # {}
    BY <1>1, <1>3 DEF InStep, ReturnedInStep
  <1> QED BY <1>2, <1>3

\* The reads of a block.  Its answer begins with what the next stage expects.
LEMMA HeaderIsExpected ==
  ASSUME Inv, reading.stage \in DOMAIN Expects, Readable, shifted = {}
  PROVE  /\ [i \in 1..Count |-> buf[i].look] = Expects[reading.stage]
         /\ Consumed + Count \in 1..3
  <1> USE DEF Expects
  <1>1. /\ ~Idle /\ Count \in 1..2 /\ Len(buf) >= Count /\ Len(buf) > 0
        /\ reading.stage \in {"prefix", "digits", "count"}
    <2>1. reading.stage \in {"prefix", "digits", "count"} /\ Len(buf) \in Nat
      BY Typed DEF Inv
    <2>2. ~Idle
      BY <2>1 DEF Idle, Nothing
    <2>3. Count \in 1..2 /\ Len(buf) >= Count
      BY <2>1 DEF Count, Readable
    <2> QED BY <2>1, <2>2, <2>3
  <1>2. /\ CallInStep /\ PartOfAnswer /\ written # <<>> /\ TypeOK
    BY <1>1, ReadingInStep DEF Inv
  <1>3. written[Newest] = "block"
    BY <1>1, <1>2 DEF CallInStep
  <1>4. /\ Len(Payload) \in Nat
        /\ \A i \in 1 .. 4 + Len(Payload) : Answer[i] = [look |-> BlockLooks[i], of |-> Newest]
    BY <1>2, <1>3, AnswerShape, PayloadLooks
  <1>5. /\ Answer[1].look = "hash" /\ Answer[2].look = "digit" /\ Answer[3].look = "count"
    <2>1. 1 \in 1 .. 4 + Len(Payload) /\ 2 \in 1 .. 4 + Len(Payload) /\ 3 \in 1 .. 4 + Len(Payload)
      BY <1>4
    <2>2. /\ Answer[1] = [look |-> BlockLooks[1], of |-> Newest]
          /\ Answer[2] = [look |-> BlockLooks[2], of |-> Newest]
          /\ Answer[3] = [look |-> BlockLooks[3], of |-> Newest]
      BY <1>4, <2>1
    <2> QED BY <2>2, BlockShape
  <1>6. \A i \in 1..Len(buf) : buf[i] = Answer[Consumed + i]
    BY <1>2 DEF PartOfAnswer
  <1>7. CASE reading.stage = "prefix" /\ Visa
    <2>1. Consumed = 0 /\ Count = 2 /\ Expects[reading.stage] = <<"hash", "digit">>
      BY <1>7 DEF Consumed, Count
    <2>2. buf[1].look = "hash" /\ buf[2].look = "digit"
      <3>1. 1 \in 1..Len(buf) /\ 2 \in 1..Len(buf)
        BY <1>1, <2>1, Typed DEF Inv
      <3>2. buf[1] = Answer[1] /\ buf[2] = Answer[2]
        BY <1>6, <2>1, <3>1
      <3> QED BY <1>5, <3>2
    <2>3. [i \in 1..2 |-> buf[i].look] = <<"hash", "digit">>
      BY <2>2
    <2> QED BY <2>1, <2>3
  <1>8. ASSUME ~(reading.stage = "prefix" /\ Visa)
        PROVE  /\ [i \in 1..Count |-> buf[i].look] = Expects[reading.stage]
               /\ Consumed + Count \in 1..3
    <2>1. /\ Count = 1 /\ Consumed \in 0..2
          /\ Expects[reading.stage] = <<Answer[Consumed + 1].look>>
      <3>1. CASE reading.stage = "prefix"
        BY <1>5, <1>8, <3>1 DEF Consumed, Count
      <3>2. CASE reading.stage = "digits"
        BY <1>5, <3>2 DEF Consumed, Count
      <3>3. CASE reading.stage = "count"
        BY <1>5, <3>3 DEF Consumed, Count
      <3> QED BY <1>1, <3>1, <3>2, <3>3
    <2>2. buf[1] = Answer[Consumed + 1]
      <3>1. 1 \in 1..Len(buf)
        BY <1>1, Typed DEF Inv
      <3> QED BY <1>6, <3>1
    <2>3. [i \in 1..1 |-> buf[i].look] = <<buf[1].look>>
      OBVIOUS
    <2> QED BY <2>1, <2>2, <2>3
  <1> QED BY <1>7, <1>8

LEMMA ReadHeaderInStep ==
  ASSUME Inv, ReadHeader
  PROVE  InStep' /\ ReturnedInStep'
  <1>1. /\ TypeOK /\ ~Idle /\ shifted' = shifted /\ Readable
        /\ reading.stage \in DOMAIN Expects
        /\ UNCHANGED <<transport, peer, written, executed, stream>>
        /\ Newest' = Newest /\ Answer' = Answer
        /\ buf' = SubSeq(buf, Count + 1, Len(buf))
    BY DEF Inv, ReadHeader, Idle, Nothing, connection, Newest, Answer, Expects
  <1>2. outcome'.kind # "returned"
    BY <1>1 DEF Inv, CallOpen, ReadHeader, Ends
  <1>3. CASE shifted = {}
    <2>1. /\ [i \in 1..Count |-> buf[i].look] = Expects[reading.stage]
          /\ Consumed + Count \in 1..3
      BY <1>1, <1>3, HeaderIsExpected
    <2>2. reading' = [reading EXCEPT !.stage = After[@]] /\ outcome' = outcome
      BY <2>1 DEF ReadHeader
    <2>3. /\ Count \in 1..2 /\ Len(buf) >= Count /\ Len(buf) > 0 /\ Len(buf) \in Nat
          /\ reading.stage \in {"prefix", "digits", "count"}
      BY <1>1, Typed DEF Count, Readable, Expects
    <2>4. /\ CallInStep /\ PartOfAnswer /\ executed = Newest /\ written # <<>>
          /\ Consumed \in Nat /\ buf \in Seq(Token) /\ Len(stream) \in Nat /\ Len(Answer) \in Nat
      BY <1>1, <1>3, <2>3, ReadingInStep
    <2>5. /\ reading'.stage \in {"digits", "count", "payload"}
          /\ reading'.stage = "digits" => ~Visa
          /\ Consumed' = Consumed + Count
      <3>1. reading'.stage = After[reading.stage]
        BY <1>1, <2>2 DEF TypeOK, Idle
      <3>2. CASE reading.stage = "prefix"
        BY <3>1, <3>2 DEF After, Consumed, Count
      <3>3. CASE reading.stage = "digits"
        BY <3>1, <3>3 DEF After, Consumed, Count
      <3>4. CASE reading.stage = "count"
        BY <3>1, <3>4 DEF After, Consumed, Count
      <3> QED BY <2>3, <3>2, <3>3, <3>4
    <2>6. /\ Len(buf') = Len(buf) - Count
          /\ \A i \in 1 .. Len(buf) - Count : buf'[i] = buf[Count + i]
      <3>1. Count \in 0..Len(buf)
        BY <2>3
      <3> QED BY <1>1, <2>4, <3>1, Cut
    <2>7. PartOfAnswer'
      <3>1. Consumed' + Len(buf') = Consumed + Len(buf)
        BY <2>3, <2>4, <2>5, <2>6
      <3>2. ASSUME NEW i \in 1..Len(buf') PROVE buf'[i] = Answer[Consumed' + i]
        <4>1. Count + i \in 1..Len(buf) /\ Consumed + (Count + i) = Consumed' + i
          BY <2>3, <2>4, <2>5, <2>6
        <4>2. buf'[i] = buf[Count + i]
          BY <2>6
        <4> QED BY <2>4, <4>1, <4>2 DEF PartOfAnswer
      <3> QED BY <1>1, <2>4, <3>1, <3>2 DEF PartOfAnswer
    <2>8. CallInStep'
      BY <1>1, <2>3, <2>4, <2>5, <2>7 DEF CallInStep, Visa, Silent
    <2>9. ~Idle'
      BY <2>5 DEF Idle, Nothing
    <2> QED BY <1>2, <2>8, <2>9 DEF InStep, ReturnedInStep
  <1>4. CASE shifted # {}
    BY <1>1, <1>2, <1>4 DEF InStep, ReturnedInStep
  <1> QED BY <1>3, <1>4

\* A payload read whole is the one that was sent.
LEMMA PayloadIsOwn ==
  ASSUME Inv, reading.stage = "payload", Readable, shifted = {}
  PROVE  /\ written[Newest] = "block" /\ Len(Payload) \in 0..Len(buf)
         /\ SubSeq(buf, 1, Len(Payload)) = Bytes(Newest, Payload)
         /\ executed = Newest /\ Newest \in 1..MaxCommands /\ written # <<>>
         /\ CallInStep /\ PartOfAnswer /\ Consumed = 3 /\ Len(Answer) = 4 + Len(Payload)
  <1>1. /\ TypeOK /\ ~Idle /\ Len(buf) >= Len(Payload) /\ Consumed = 3
        /\ Len(buf) \in Nat /\ Len(Payload) \in Nat /\ buf \in Seq(Token) /\ Payload \in Seq(Looks)
    BY Typed, PayloadLooks DEF Inv, Idle, Nothing, Readable, Count, Consumed, TypeOK
  <1>2. CallInStep
    BY <1>1 DEF Inv, InStep
  <1>3. /\ executed = Newest /\ PartOfAnswer /\ written # <<>> /\ written[Newest] = "block"
    BY <1>1, <1>2 DEF CallInStep
  <1>4. /\ Newest \in 1..MaxCommands /\ Len(Answer) = 4 + Len(Payload)
        /\ \A i \in 1 .. 4 + Len(Payload) : Answer[i] = [look |-> BlockLooks[i], of |-> Newest]
    BY <1>1, <1>3, AnswerShape
  <1>5. Len(Payload) \in 0..Len(buf)
    BY <1>1
  <1>6. /\ SubSeq(buf, 1, Len(Payload)) \in Seq(Token)
        /\ Len(SubSeq(buf, 1, Len(Payload))) = Len(Payload)
        /\ \A i \in 1..Len(Payload) : SubSeq(buf, 1, Len(Payload))[i] = buf[i]
    BY <1>1, <1>5, Cut
  <1>7. ASSUME NEW i \in 1..Len(Payload)
        PROVE  buf[i] = [look |-> Payload[i], of |-> Newest]
    <2>1. i \in 1..Len(buf) /\ 3 + i \in 1 .. 4 + Len(Payload)
      BY <1>1
    <2>2. buf[i] = Answer[3 + i]
      BY <1>1, <1>3, <2>1 DEF PartOfAnswer
    <2>3. BlockLooks[3 + i] = Payload[i]
      BY BlockShape
    <2> QED BY <1>4, <2>1, <2>2, <2>3
  <1>8. SubSeq(buf, 1, Len(Payload)) = Bytes(Newest, Payload)
    <2>1. /\ Newest \in 1..MaxCommands /\ Payload \in Seq(Looks)
          /\ \A i \in 1..Len(Payload) :
               SubSeq(buf, 1, Len(Payload))[i] = [look |-> Payload[i], of |-> Newest]
      BY <1>1, <1>4, <1>6, <1>7
    <2> QED BY <1>6, <2>1, SameBytes, Zenon
  <1> QED BY <1>1, <1>2, <1>3, <1>4, <1>5, <1>8

LEMMA ReadPayloadInStep ==
  ASSUME Inv, ReadPayload
  PROVE  InStep' /\ ReturnedInStep'
  <1> DEFINE n == Len(Payload)
             rest == SubSeq(buf, n + 1, Len(buf))
  <1>1. /\ TypeOK /\ reading.stage = "payload" /\ Readable /\ reading' = Nothing
        /\ UNCHANGED <<transport, peer, written, executed, stream>> /\ Newest' = Newest
        /\ outcome' = [kind |-> "returned", bytes |-> SubSeq(buf, 1, n)]
    BY DEF Inv, ReadPayload, Ends, connection, Newest
  <1>2. CASE shifted' = {}
    <2>1. shifted = {} /\ rest # <<>> /\ buf' = Tail(rest)
      BY <1>2 DEF ReadPayload
    <2>2. /\ written[Newest] = "block" /\ n \in 0..Len(buf)
          /\ SubSeq(buf, 1, n) = Bytes(Newest, Payload)
          /\ executed = Newest /\ written # <<>> /\ PartOfAnswer /\ Consumed = 3
          /\ Len(Answer) = 4 + n
      BY <1>1, <2>1, PayloadIsOwn
    <2>3. /\ n \in Nat /\ Len(buf) \in Nat /\ Len(stream) \in Nat
          /\ buf \in Seq(Token) /\ stream \in Seq(Token)
      BY <1>1, PayloadLooks, Typed DEF TypeOK
    <2>4. rest \in Seq(Token) /\ Len(rest) = Len(buf) - n
      BY <2>2, <2>3, Cut
    <2>5. buf' \in Seq(Token) /\ Len(buf') = Len(rest) - 1 /\ Len(buf') >= 0
      <3> HIDE DEF rest
      <3> QED BY <2>1, <2>4, HeadTailProperties
    <2>6. 3 + Len(buf) + Len(stream) =< 4 + n
      BY <2>2 DEF PartOfAnswer
    <2>7. Len(buf') = 0 /\ Len(stream) = 0
      <3>1. Len(buf') + n + 1 = Len(buf)
        BY <2>3, <2>4, <2>5
      <3>2. Len(buf') \in Nat
        BY <2>5
      <3> HIDE DEF n
      <3> QED BY <2>3, <2>6, <3>1, <3>2
    <2>8. NothingToCome'
      BY <1>1, <2>2, <2>3, <2>5, <2>7, NothingIsLeft
    <2>9. OwnBytes' /\ executed' = Len(written') /\ written' # <<>>
      BY <1>1, <2>2 DEF OwnBytes, Newest
    <2> QED BY <1>1, <2>8, <2>9 DEF InStep, Idle, ReturnedInStep
  <1>3. CASE shifted' # {}
    BY <1>3 DEF InStep, ReturnedInStep
  <1> QED BY <1>2, <1>3

LEMMA ReadBinaryInStep ==
  ASSUME Inv, ReadBinary
  PROVE  InStep' /\ ReturnedInStep'
  <1>1. /\ TypeOK /\ reading.stage = "payload" /\ Readable /\ Visa
        /\ UNCHANGED <<transport, peer, written, executed, stream, shifted>>
        /\ Newest' = Newest /\ Answer' = Answer
        /\ buf' = SubSeq(buf, Len(Payload) + 1, Len(buf))
        /\ outcome' = [kind |-> "none", bytes |-> SubSeq(buf, 1, Len(Payload))]
        /\ reading' = [reading EXCEPT !.stage = "terminator"]
    BY DEF Inv, ReadBinary, connection, Newest, Answer
  <1>2. reading'.stage = "terminator" /\ ~Idle'
    BY <1>1 DEF TypeOK, Idle, Nothing
  <1>3. CASE shifted = {}
    <2>1. /\ written[Newest] = "block" /\ Len(Payload) \in 0..Len(buf)
          /\ SubSeq(buf, 1, Len(Payload)) = Bytes(Newest, Payload)
          /\ executed = Newest /\ written # <<>> /\ CallInStep /\ PartOfAnswer /\ Consumed = 3
          /\ Len(Answer) = 4 + Len(Payload)
      BY <1>1, <1>3, PayloadIsOwn
    <2>2. /\ Len(Payload) \in Nat /\ Len(buf) \in Nat /\ Len(stream) \in Nat /\ buf \in Seq(Token)
      BY <1>1, PayloadLooks, Typed DEF TypeOK
    <2>3. /\ Len(buf') = Len(buf) - Len(Payload)
          /\ \A i \in 1 .. Len(buf) - Len(Payload) : buf'[i] = buf[Len(Payload) + i]
      BY <1>1, <2>1, <2>2, Cut
    <2>4. Consumed' = 3 + Len(Payload)
      BY <1>2 DEF Consumed
    <2>5. PartOfAnswer'
      <3>1. Consumed' + Len(buf') = Consumed + Len(buf)
        BY <2>1, <2>2, <2>3, <2>4
      <3>2. ASSUME NEW i \in 1..Len(buf') PROVE buf'[i] = Answer[Consumed' + i]
        <4>1. Len(Payload) + i \in 1..Len(buf) /\ Consumed + (Len(Payload) + i) = Consumed' + i
          BY <2>1, <2>2, <2>3, <2>4
        <4>2. buf'[i] = buf[Len(Payload) + i]
          BY <2>3
        <4> QED BY <2>1, <4>1, <4>2 DEF PartOfAnswer
      <3> QED BY <1>1, <2>1, <3>1, <3>2 DEF PartOfAnswer
    <2>6. CallInStep'
      BY <1>1, <1>2, <2>1, <2>5 DEF CallInStep, Visa, Silent
    <2> QED BY <1>1, <1>2, <2>6 DEF InStep, ReturnedInStep
  <1>4. CASE shifted # {}
    BY <1>1, <1>4 DEF InStep, ReturnedInStep
  <1> QED BY <1>3, <1>4

LEMMA ReadTerminatorInStep ==
  ASSUME Inv, ReadTerminator
  PROVE  InStep' /\ ReturnedInStep'
  <1>1. /\ TypeOK /\ ~Idle /\ reading.stage = "terminator" /\ Readable /\ reading' = Nothing
        /\ UNCHANGED <<transport, peer, written, executed, stream, shifted>> /\ Newest' = Newest
        /\ buf' = Tail(buf) /\ outcome' = [kind |-> "returned", bytes |-> outcome.bytes]
    BY DEF Inv, ReadTerminator, Ends, connection, Newest, Idle, Nothing
  <1>2. CASE shifted = {}
    <2>1. /\ Len(buf) >= 1 /\ Len(buf) > 0 /\ Len(buf) \in Nat
      BY <1>1, Typed DEF Readable, Count
    <2>2. /\ CallInStep /\ PartOfAnswer /\ executed = Newest /\ written # <<>>
          /\ buf \in Seq(Token) /\ Len(stream) \in Nat /\ stream \in Seq(Token)
      BY <1>1, <1>2, <2>1, ReadingInStep DEF TypeOK
    <2>3. written[Newest] = "block" /\ outcome.bytes = Bytes(Newest, Payload)
      BY <1>1, <2>2 DEF CallInStep
    <2>4. Len(Answer) = 4 + Len(Payload) /\ Consumed = 3 + Len(Payload) /\ Len(Payload) \in Nat
      BY <1>1, <2>2, <2>3, AnswerShape, PayloadLooks DEF Consumed
    <2>5. buf' \in Seq(Token) /\ Len(buf') = Len(buf) - 1
      BY <1>1, <2>1, <2>2, HeadTailProperties
    <2>6. 3 + Len(Payload) + Len(buf) + Len(stream) =< 4 + Len(Payload)
      BY <2>2, <2>4 DEF PartOfAnswer
    <2>7. Len(buf') = 0 /\ Len(stream) = 0
      BY <2>1, <2>2, <2>4, <2>5, <2>6
    <2>8. NothingToCome'
      BY <1>1, <2>2, <2>5, <2>7, NothingIsLeft
    <2>9. OwnBytes' /\ executed' = Len(written') /\ written' # <<>>
      BY <1>1, <2>2, <2>3 DEF OwnBytes, Newest
    <2> QED BY <1>1, <2>8, <2>9 DEF InStep, Idle, ReturnedInStep
  <1>3. CASE shifted # {}
    BY <1>1, <1>3 DEF InStep, ReturnedInStep
  <1> QED BY <1>2, <1>3

\* A call that raises, or that the drain of a safe_query ends: what it left
\* behind, if anything, is why the session is no longer in step.
LEMMA NothingLeftBehind ==
  ASSUME NEW buffered, NEW sent, LeftBehind(buffered, sent) = {}
  PROVE  buffered = <<>> /\ sent = <<>> /\ Silent(Newest)
  BY DEF LeftBehind, Silent, Newest

LEMMA CallRaisesInStep ==
  ASSUME Inv, FillFails \/ ReadTimesOut \/ WriteFails
  PROVE  InStep' /\ ReturnedInStep'
  <1>1. /\ reading' = Nothing /\ outcome'.kind = "raised" /\ Newest' = Newest
        /\ UNCHANGED <<transport, peer, written, executed, stream>>
    BY DEF FillFails, ReadTimesOut, WriteFails, Ends, connection, Newest
  <1>2. ReturnedInStep' /\ Idle'
    BY <1>1 DEF ReturnedInStep, Idle
  <1>3. CASE FillFails
    BY <1>1, <1>2, <1>3 DEF FillFails, InStep, NothingToCome
  <1>4. CASE ReadTimesOut
    <2>1. shifted' = {} => LeftBehind(buf', stream) = {}
      BY <1>4 DEF ReadTimesOut
    <2>2. shifted' = {} => NothingToCome'
      BY <1>1, <2>1, NothingLeftBehind DEF NothingToCome, Silent
    <2> QED BY <1>2, <2>2 DEF InStep
  <1>5. CASE WriteFails
    BY <1>1, <1>2, <1>5 DEF Inv, WriteFails, InStep, NothingToCome, Silent
  <1> QED BY <1>3, <1>4, <1>5

LEMMA DrainInStep ==
  ASSUME Inv, Drain
  PROVE  InStep' /\ ReturnedInStep'
  <1>1. /\ TypeOK /\ reading' = Nothing /\ outcome'.kind = "default" /\ Len(written) < MaxCommands
        /\ UNCHANGED <<transport, peer, executed>>
        /\ written' = Append(written, "cls") /\ shifted' = LeftBehind(buf', stream')
        /\ "cls" \in Kinds
    BY DEF Inv, CallOpen, Drain, Ends, connection, Kinds
  <1>2. ASSUME shifted' = {}
        PROVE  NothingToCome'
    <2>1. buf' = <<>> /\ stream' = <<>> /\ Silent(Newest)
      BY <1>1, <1>2, NothingLeftBehind
    <2>2. Silent(Newest)'
      BY <1>1, <2>1, SilentGrows
    <2> QED BY <2>1, <2>2 DEF NothingToCome
  <1> QED BY <1>1, <1>2 DEF InStep, ReturnedInStep, Idle

LEMMA ClearInStep ==
  ASSUME Inv, Clear
  PROVE  InStep' /\ ReturnedInStep'
  <1>1. /\ reading' = Nothing /\ outcome'.kind = "default" /\ Newest' = Newest
        /\ UNCHANGED <<transport, peer, executed, written>> /\ shifted' = LeftBehind(buf', stream')
    BY DEF Clear, Ends, connection, Newest
  <1>2. ASSUME shifted' = {}
        PROVE  NothingToCome'
    <2>1. buf' = <<>> /\ stream' = <<>> /\ Silent(Newest)
      BY <1>1, <1>2, NothingLeftBehind
    <2> QED BY <1>1, <2>1 DEF NothingToCome, Silent
  <1> QED BY <1>1, <1>2 DEF InStep, ReturnedInStep, Idle

LEMMA ReconnectInStep ==
  ASSUME Inv, Reconnect
  PROVE  InStep' /\ ReturnedInStep'
  <1>1. Idle' /\ buf' = <<>> /\ stream' = <<>> /\ outcome'.kind = "none"
    BY DEF Reconnect, NoOutcome, Idle
  <1>2. Silent(Newest)'
    <2>1. executed' = Len(written) /\ written' = written /\ Len(written) \in Nat
      BY Typed DEF Inv, Reconnect
    <2>2. \A n \in Len(written) + 1 .. Len(written) : FALSE
      BY <2>1
    <2> QED BY <2>1, <2>2 DEF Silent, Newest
  <1> QED BY <1>1, <1>2 DEF InStep, NothingToCome, ReturnedInStep

-----------------------------------------------------------------------------
(* The error queue, and the step.                                            *)

LEMMA DefaultStep ==
  ASSUME Inv, [Next]_vars
  PROVE  DefaultMeansCleared' /\ TerminatorIsRead'
  <1> USE DEF DefaultMeansCleared, TerminatorIsRead, Visa, connection, Newest
  <1>1. CASE ServerExecutes
    <2>1. /\ executed' = executed + 1 /\ UNCHANGED <<transport, written, outcome, shifted>>
          /\ executed \in Nat /\ Len(written) \in Nat
      BY <1>1, Typed DEF Inv, ServerExecutes
    <2>2. executed + 1 = Len(written) /\ written[Len(written)] = "cls" => errors' = FALSE
      BY <1>1 DEF ServerExecutes
    <2> QED BY <2>1, <2>2 DEF Inv
  <1>2. CASE ServerCloses \/ Fill
    BY <1>2 DEF Inv, ServerCloses, Fill
  <1>3. CASE Write \/ QueryBlock \/ \E kind \in Kinds, safe \in BOOLEAN : Query(kind, safe)
    BY <1>3 DEF Inv, Write, QueryBlock, Query, Ends, NoOutcome
  <1>4. CASE WriteFails \/ FillFails \/ ReadTimesOut
    BY <1>4 DEF Inv, WriteFails, FillFails, ReadTimesOut, LeftBehind, Ends
  <1>5. CASE Reconnect
    BY <1>5 DEF Reconnect, NoOutcome
  <1>6. CASE ReadLine \/ ReadPayload \/ ReadTerminator
    BY <1>6 DEF Inv, ReadLine, ReadPayload, ReadTerminator, Ends
  <1>7. CASE ReadHeader \/ ReadBinary
    BY <1>7 DEF Inv, CallOpen, ReadHeader, ReadBinary, Ends, Idle, Nothing, Expects
  <1>8. CASE Drain
    <2>1. /\ written' = Append(written, "cls") /\ executed' = executed /\ ~Visa /\ UNCHANGED transport
          /\ TypeOK /\ Len(written) < MaxCommands /\ "cls" \in Kinds
      BY <1>8 DEF Inv, CallOpen, Drain, Kinds
    <2>2. /\ Len(written') = Len(written) + 1 /\ written'[Len(written')] = "cls"
          /\ executed \in 0..Len(written) /\ Len(written) \in Nat
      BY <2>1, Written, Typed
    <2>3. written' # <<>> /\ executed' # Len(written')
      BY <2>1, <2>2
    <2> QED BY <2>1, <2>2, <2>3
  <1>9. CASE Clear
    BY <1>9 DEF Clear, LeftBehind
  <1>10. CASE UNCHANGED vars
    BY <1>10 DEF Inv, vars
  <1> QED
    BY <1>1, <1>2, <1>3, <1>4, <1>5, <1>6, <1>7, <1>8, <1>9, <1>10 DEF Next

LEMMA InvInit == Init => Inv
  <1> SUFFICES ASSUME Init PROVE Inv
    OBVIOUS
  <1>1. /\ Idle /\ buf = <<>> /\ stream = <<>> /\ executed = 0 /\ Newest = 0
        /\ outcome.kind = "none" /\ shifted = {}
    BY DEF Init, Idle, NoOutcome, Newest
  <1>2. InStep
    BY <1>1 DEF InStep, NothingToCome, Silent
  <1> QED BY <1>1, <1>2, TypeInit DEF Inv, ReturnedInStep, DefaultMeansCleared, TerminatorIsRead

LEMMA InvStep == Inv /\ [Next]_vars => Inv'
  <1> SUFFICES ASSUME Inv, [Next]_vars PROVE Inv'
    OBVIOUS
  <1>1. TypeOK' /\ CallOpen'
    BY TypeStep DEF Inv
  <1>2. InStep' /\ ReturnedInStep'
    <2>1. CASE UNCHANGED vars
      BY <2>1 DEF Inv, vars, InStep, ReturnedInStep, Idle, NothingToCome, CallInStep, PartOfAnswer,
                  Silent, Answer, Consumed, OwnBytes, Newest, Visa
    <2> QED
      BY <2>1, ServerExecutesInStep, ServerClosesInStep, CallBeginsInStep, FillInStep, ReadLineInStep,
         ReadHeaderInStep, ReadPayloadInStep, ReadBinaryInStep, ReadTerminatorInStep,
         CallRaisesInStep, DrainInStep, ClearInStep, ReconnectInStep DEF Next
  <1> QED BY <1>1, <1>2, DefaultStep DEF Inv

-----------------------------------------------------------------------------
(* The theorems.                                                             *)

LEMMA InvHolds == Spec => []Inv
  BY InvInit, InvStep, PTL DEF Spec

\* The variables of a session keep their types: ScpiSocket and VisaSession on
\* any program of commands, any payload, and any way the stream is cut.
THEOREM SessionTypeCorrect == Spec => []TypeOK
  <1>1. Inv => TypeOK
    BY DEF Inv
  <1> QED BY <1>1, InvHolds, PTL

\* As long as no read was given up and no terminator came late, a query or a
\* block returns exactly its own bytes; over VISA no terminator ever does.
THEOREM AnswersStayInStep == Spec => []AnswersInStep
  <1>1. Inv => AnswersInStep
    BY DEF Inv, ReturnedInStep, TerminatorIsRead, AnswersInStep
  <1> QED BY <1>1, InvHolds, PTL

\* A safe_query that got no answer over the raw socket leaves an empty error
\* queue once everything written has been executed.
THEOREM UnknownHeadersLeaveNoError == Spec => []SilenceLeavesNoError
  <1>1. Inv => SilenceLeavesNoError
    BY DEF Inv, DefaultMeansCleared, SilenceLeavesNoError
  <1> QED BY <1>1, InvHolds, PTL

\* When sync returns on a session in step, the server has executed every
\* command written before it.
THEOREM SyncWaitsForAll == Spec => []SyncMeansExecuted
  <1>1. Inv => SyncMeansExecuted
    BY DEF Inv, ReturnedInStep, SyncMeansExecuted
  <1> QED BY <1>1, InvHolds, PTL
=============================================================================
