---------------------------- MODULE ScpiSession -----------------------------
(* One SCPI session over TCP: ScpiSocket (layer3_hal/scpi_socket.py) or      *)
(* VisaSession (layer3_hal/visa_drivers.py, over a ::SOCKET resource) at one *)
(* end, a _ScpiHandler thread (emulators/scpi_server.py) at the other.  TCP  *)
(* keeps bytes in order but not in pieces: recv returns any part of what has *)
(* been sent, so lines and blocks are cut out of a buffer - ScpiSocket._buf, *)
(* or the one PyVISA keeps.  The connection may break, and be opened anew.   *)
(*                                                                           *)
(* A byte is a token: what it looks like to a parser, and - which no parser  *)
(* sees - the command it answers.  A payload byte may look like a terminator.*)
EXTENDS Integers, Sequences, SequencesExt

CONSTANTS
  Transports,      \* of "socket", "visa": the sessions a run looks at
  Commands,        \* the commands the drivers of the session use
  Payload,         \* the looks of a block's payload bytes
  MaxCommands      \* bound of a run

\* What the server does with a command decides its kind: a setting is silent,
\* so is a header the firmware does not know, and that one queues an error.
Kinds == {"set", "query", "opc", "block", "unknown", "cls"}
Looks == {"text", "nl", "hash", "digit", "count", "byte"}

ASSUME ScpiSessionAssumption ==
  /\ Transports \subseteq {"socket", "visa"}
  /\ Commands \subseteq Kinds \ {"cls"}
  /\ Payload \in Seq({"nl", "byte"})
  /\ MaxCommands \in Nat

VARIABLES
  transport,   \* which of the two sessions this is
  peer,        \* "up", or "gone": the instrument closed the connection
  written,     \* kinds of the commands written so far, in order
  executed,    \* how many of them the server has executed
  errors,      \* whether the error queue holds an entry
  stream,      \* bytes sent by the server and not yet received
  buf,         \* bytes received and not yet read
  reading,     \* what the client is blocked on, or Nothing
  outcome,     \* how the last command ended for the caller
  shifted      \* history: why bytes of an earlier answer may still be read

connection == <<transport, peer>>
vars == <<transport, peer, written, executed, errors, stream, buf, reading, outcome, shifted>>

Token == [look: Looks, of: 1..MaxCommands]

\* A block's terminator left in the stream; a read given up before its answer.
Causes  == {"terminator", "late"}
Stages  == {"line", "prefix", "digits", "count", "payload", "terminator"}
Nothing == [stage |-> "none", safe |-> FALSE]
NoOutcome == [kind |-> "none", bytes |-> <<>>]
Visa    == transport = "visa"
Idle    == reading = Nothing

TypeOK ==
  /\ transport \in Transports /\ peer \in {"up", "gone"}
  /\ written \in Seq(Kinds) /\ Len(written) =< MaxCommands
  /\ executed \in 0..Len(written)
  /\ errors \in BOOLEAN
  /\ stream \in Seq(Token) /\ buf \in Seq(Token)
  /\ reading \in [stage: Stages, safe: BOOLEAN] \cup {Nothing}
  /\ outcome.kind \in {"none", "returned", "default", "raised"}
  /\ outcome.bytes \in Seq(Token)
  /\ shifted \subseteq Causes

Init ==
  /\ transport \in Transports /\ peer = "up"
  /\ written = <<>> /\ executed = 0 /\ errors = FALSE
  /\ stream = <<>> /\ buf = <<>>
  /\ reading = Nothing /\ outcome = NoOutcome
  /\ shifted = {}

-----------------------------------------------------------------------------
(* The server: one handler per connection, one command after the other.      *)

Bytes(n, looks) == [i \in DOMAIN looks |-> [look |-> looks[i], of |-> n]]

Reply(n, kind) ==
  CASE kind \in {"query", "opc"} -> Bytes(n, <<"text", "nl">>)
    [] kind = "block" -> Bytes(n, <<"hash", "digit", "count">> \o Payload \o <<"nl">>)
    [] OTHER -> <<>>

\* A mutant: the handler skips every other command.
ServerExecutes_SkipsOne ==
  /\ peer = "up" /\ executed < Len(written)
  /\ LET n == executed + 1
     IN executed' = n + 1 /\ stream' = stream \o Reply(n, written[n])
  /\ UNCHANGED <<connection, written, errors, buf, reading, outcome, shifted>>

ServerExecutes ==
  /\ peer = "up" /\ executed < Len(written)
  /\ LET n == executed + 1
         kind == written[n]
     IN /\ executed' = n
        /\ stream' = stream \o Reply(n, kind)
        /\ errors' = CASE kind = "unknown" -> TRUE
                       [] kind = "cls"     -> FALSE
                       [] OTHER            -> errors
  /\ UNCHANGED <<connection, written, buf, reading, outcome, shifted>>

\* The instrument, or the network, ends the connection; what has been sent
\* may or may not get through.
ServerCloses ==
  /\ peer = "up" /\ peer' = "gone"
  /\ stream' \in {stream, <<>>}
  /\ UNCHANGED <<transport, written, executed, errors, buf, reading, outcome, shifted>>

-----------------------------------------------------------------------------
(* The client.                                                               *)

\* The newest command is the one being answered: the caller is sequential.
Newest == Len(written)

Ends(kind, bytes) ==
  reading' = Nothing /\ outcome' = [kind |-> kind, bytes |-> bytes]

CanWrite == Idle /\ Len(written) < MaxCommands

\* Over a broken connection a write may raise as well.
WriteFails ==
  /\ Idle /\ peer = "gone"
  /\ Ends("raised", <<>>)
  /\ UNCHANGED <<connection, written, executed, errors, stream, buf, shifted>>

\* A mutant: close does not clear the buffer.
Reconnect_KeepsBuffer ==
  /\ Idle
  /\ peer' = "up" /\ executed' = Len(written) /\ errors' = FALSE
  /\ stream' = <<>> /\ shifted' = {}
  /\ outcome' = NoOutcome
  /\ UNCHANGED <<transport, written, buf, reading>>

\* close, then open: a new connection and, at its other end, a new interpreter
\* with an error queue of its own.  What the old one was to answer is lost.
Reconnect ==
  /\ Idle
  /\ peer' = "up" /\ executed' = Len(written) /\ errors' = FALSE
  /\ stream' = <<>> /\ buf' = <<>> /\ shifted' = {}
  /\ outcome' = NoOutcome
  /\ UNCHANGED <<transport, written, reading>>

Write ==
  /\ CanWrite /\ "set" \in Commands
  /\ written' = Append(written, "set")
  /\ Ends("none", <<>>)
  /\ UNCHANGED <<connection, executed, errors, stream, buf, shifted>>

\* A mutant: sync only writes *OPC? and does not wait for the answer.
Query_NoWait(kind, safe) ==
  /\ CanWrite /\ kind \in Commands \cap {"opc"} /\ ~safe
  /\ written' = Append(written, kind)
  /\ Ends("returned", Bytes(Len(written'), <<"text">>))
  /\ UNCHANGED <<connection, executed, errors, stream, buf, shifted>>

\* query, sync (the "opc" query) and safe_query; a header the instrument may
\* not know is asked through safe_query only.
Query(kind, safe) ==
  /\ CanWrite /\ kind \in Commands \cap {"query", "opc", "unknown"}
  /\ kind = "unknown" => safe
  /\ kind = "opc" => ~safe
  /\ safe => Len(written) + 2 =< MaxCommands   \* room for the drain's *CLS
  /\ written' = Append(written, kind)
  /\ reading' = [stage |-> "line", safe |-> safe]
  /\ outcome' = NoOutcome
  /\ UNCHANGED <<connection, executed, errors, stream, buf, shifted>>

QueryBlock ==
  /\ CanWrite /\ "block" \in Commands
  /\ written' = Append(written, "block")
  /\ reading' = [stage |-> "prefix", safe |-> FALSE]
  /\ outcome' = NoOutcome
  /\ UNCHANGED <<connection, executed, errors, stream, buf, shifted>>

\* A mutant: whatever one recv returned is taken for the line.
Readable_BareRecv ==
  IF reading.stage = "payload" THEN Len(buf) >= Len(Payload) ELSE buf # <<>>

\* How many bytes a read by count takes; VISA takes '#' and the digit at once.
Count ==
  CASE reading.stage = "payload" -> Len(Payload)
    [] reading.stage = "prefix"  -> IF Visa THEN 2 ELSE 1
    [] OTHER                     -> 1

\* Whether the buffer holds what the client is reading.
Readable ==
  IF reading.stage = "line" THEN \E i \in DOMAIN buf : buf[i].look = "nl" ELSE Len(buf) >= Count

\* _fill: one recv, which returns what has arrived, but not necessarily all.
Fill ==
  /\ ~Idle /\ ~Readable
  /\ \E n \in 1..Len(stream) :
       /\ buf' = buf \o SubSeq(stream, 1, n)
       /\ stream' = SubSeq(stream, n + 1, Len(stream))
  /\ UNCHANGED <<connection, written, executed, errors, reading, outcome, shifted>>

\* recv returns nothing: the connection is closed.  safe_query raises, too.
FillFails ==
  /\ ~Idle /\ ~Readable /\ peer = "gone" /\ stream = <<>>
  /\ shifted' = IF buf = <<>> THEN shifted ELSE shifted \cup {"late"}
  /\ Ends("raised", <<>>)
  /\ UNCHANGED <<connection, written, executed, errors, stream, buf>>

EndOfLine == SelectInSeq(buf, LAMBDA t : t.look = "nl")

ReadLine ==
  /\ reading.stage = "line" /\ Readable
  /\ buf' = SubSeq(buf, EndOfLine + 1, Len(buf))
  /\ Ends("returned", SubSeq(buf, 1, EndOfLine - 1))
  /\ UNCHANGED <<connection, written, executed, errors, stream, shifted>>

\* The header of a block, by stages: what each expects, and the next one.
Expects ==
  [prefix |-> IF Visa THEN <<"hash", "digit">> ELSE <<"hash">>, digits |-> <<"digit">>, count |-> <<"count">>]
After == [prefix |-> IF Visa THEN "count" ELSE "digits", digits |-> "count", count |-> "payload"]

\* query_block and query_binary check the prefix, then the count; each raises.
ReadHeader ==
  /\ reading.stage \in DOMAIN Expects /\ Readable
  /\ buf' = SubSeq(buf, Count + 1, Len(buf))
  /\ IF [i \in 1..Count |-> buf[i].look] = Expects[reading.stage]
     THEN reading' = [reading EXCEPT !.stage = After[@]] /\ UNCHANGED outcome
     ELSE Ends("raised", <<>>)
  /\ UNCHANGED <<connection, written, executed, errors, stream, shifted>>

\* query_block: the terminator after the payload is taken only if it is
\* already buffered; otherwise it stays, and shifts what is read later.
ReadPayload ==
  /\ ~Visa /\ reading.stage = "payload" /\ Readable
  /\ LET n == Len(Payload)
         rest == SubSeq(buf, n + 1, Len(buf))
         terminated == rest # <<>> /\ Head(rest).look = "nl"
     IN /\ buf' = IF terminated THEN Tail(rest) ELSE rest
        /\ shifted' = IF terminated THEN shifted ELSE shifted \cup {"terminator"}
        /\ Ends("returned", SubSeq(buf, 1, n))
  /\ UNCHANGED <<connection, written, executed, errors, stream>>

\* query_binary waits for the terminator, whatever byte it turns out to be.
ReadBinary ==
  /\ Visa /\ reading.stage = "payload" /\ Readable
  /\ reading' = [reading EXCEPT !.stage = "terminator"]
  /\ outcome' = [kind |-> "none", bytes |-> SubSeq(buf, 1, Len(Payload))]
  /\ buf' = SubSeq(buf, Len(Payload) + 1, Len(buf))
  /\ UNCHANGED <<connection, written, executed, errors, stream, shifted>>

ReadTerminator ==
  /\ reading.stage = "terminator" /\ Readable
  /\ buf' = Tail(buf)
  /\ Ends("returned", outcome.bytes)
  /\ UNCHANGED <<connection, written, executed, errors, stream, shifted>>

\* A read given up while bytes are in a buffer, or to come of a command not
\* executed yet: somebody will read them.
LeftBehind(buffered, sent) ==
  IF \/ buffered # <<>> \/ sent # <<>>
     \/ \E n \in executed + 1 .. Len(written) : Reply(n, written[n]) # <<>>
  THEN {"late"} ELSE {}

\* recv times out, before or after the server got to the command.  Any read
\* but a safe_query just raises; ScpiSocket leaves its buffer as it is, PyVISA
\* may throw away what it had of the answer.
ReadTimesOut ==
  /\ ~Idle /\ ~Readable /\ ~reading.safe
  /\ buf' \in IF Visa THEN {buf, <<>>} ELSE {buf}
  /\ shifted' = shifted \cup LeftBehind(buf', stream)
  /\ Ends("raised", <<>>)
  /\ UNCHANGED <<connection, written, executed, errors, stream>>

\* A mutant: the drain does not clear the error queue.
Drain_NoCls ==
  /\ ~Visa /\ ~Idle /\ ~Readable /\ reading.safe
  /\ buf' = <<>> /\ stream' = <<>>
  /\ shifted' = LeftBehind(buf', stream')
  /\ Ends("default", <<>>)
  /\ UNCHANGED <<connection, written, executed, errors>>

\* safe_query drains: what has arrived is thrown away, and *CLS clears the
\* instrument's error queue.
Drain ==
  /\ ~Visa /\ ~Idle /\ ~Readable /\ reading.safe
  /\ buf' = <<>>
  /\ \E n \in 0..Len(stream) : stream' = SubSeq(stream, n + 1, Len(stream))
  /\ shifted' = LeftBehind(buf', stream')
  /\ written' = Append(written, "cls")
  /\ Ends("default", <<>>)
  /\ UNCHANGED <<connection, executed, errors>>

\* VisaSession.clear: a device clear, which over a ::SOCKET resource empties
\* the buffer and leaves the error queue alone, or fails and does nothing.
Clear ==
  /\ Visa /\ ~Idle /\ ~Readable /\ reading.safe
  /\ \/ UNCHANGED <<buf, stream>>
     \/ /\ buf' = <<>>
        /\ \E n \in 0..Len(stream) : stream' = SubSeq(stream, n + 1, Len(stream))
  /\ shifted' = LeftBehind(buf', stream')
  /\ Ends("default", <<>>)
  /\ UNCHANGED <<connection, written, executed, errors>>

Next ==
  \/ ServerExecutes \/ ServerCloses
  \/ Write \/ WriteFails \/ Reconnect
  \/ \E kind \in Kinds, safe \in BOOLEAN : Query(kind, safe)
  \/ QueryBlock
  \/ Fill \/ FillFails \/ ReadLine \/ ReadHeader \/ ReadPayload \/ ReadBinary \/ ReadTerminator
  \/ ReadTimesOut \/ Drain \/ Clear

Spec == Init /\ [][Next]_vars

-----------------------------------------------------------------------------
(* Properties.                                                               *)

\* The bytes that answer the newest command.
OwnBytes ==
  outcome.bytes =
    Bytes(Newest, IF written[Newest] = "block" THEN Payload ELSE <<"text">>)

\* Every query and every block returns exactly the bytes that answer it: never
\* cut short, shifted, or parsed at a payload byte that looks like a
\* terminator, however the replies are chopped up.  Two things alone break
\* this, a block's terminator that comes late and a read given up before its
\* answer came, and a safe_query that finds nothing outstanding mends it, as a
\* new connection does.  The first of the two cannot happen over VISA.
AnswersInStep ==
  /\ outcome.kind = "returned" /\ shifted = {} => OwnBytes
  /\ Visa => "terminator" \notin shifted

\* A header the instrument does not know leaves no trace in it: *CLS is on its
\* way before the caller can write anything else.  (Over VISA it does: a device
\* clear of a socket is not sent to the instrument.)
SilenceLeavesNoError ==
  ~Visa /\ outcome.kind = "default" /\ executed = Len(written) => ~errors

\* "silently desynchronises the whole session - every later query returns the
\* previous query's answer" is "a bug this transport exists to prevent": a
\* query that returns returns the answer to itself, if no read before it was
\* given up.
AnswersAreOwn ==
  outcome.kind = "returned" /\ "late" \notin shifted => OwnBytes

\* "Block until every command written on this session has executed": in a
\* session nothing has shifted, the server has executed all of them when sync
\* returns.
SyncMeansExecuted ==
  outcome.kind = "returned" /\ written[Newest] = "opc" /\ shifted = {} =>
    executed = Len(written)
=============================================================================
